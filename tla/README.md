# Verification of airport-android-client

TLA+ models of the parts of this program in which something can go wrong that a
test would hardly reach, their TLC configurations, and TLAPS proofs. Paths are
relative to the repository; `KT` stands for `app/src/main/java/com/airport/app`.

The program is an Android VPN client: a Kotlin app (`KT`) around sing-box, to which
it talks through the Go library in `core/libbox`.

## 1. Inventory

| Component | Code | State | Operations | Talks to |
|---|---|---|---|---|
| Connection control | `KT/core/CoreController.kt`, `KT/core/TunService.kt` (life cycle, `openTun`), `KT/MainActivity.kt`, `KT/ui/ProfilesViewModel.kt` | `isRunning`, `currentProfileId`, `pendingProfile`, `vpnAuthRequired`, `coreError`; `boxService`, `tunnelFd` of the service instance | toggle, tap on a node, stop from the notification, `start`, `stop`, `switchTo`, `onVpnAuthResult`, `onStartCommand`, `onDestroy`, `onRevoke`, `openTun` | ActivityManager and VpnService (messages on the main looper), the box, the settings and node tables |
| Subscription store | `KT/ui/SubscriptionsViewModel.kt`, `KT/subscription/SubscriptionRepository.kt`, `KT/subscription/SubscriptionFetcher.kt`, `KT/data/**` | tables `subscriptions` and `profiles`, `selectedProfileId`, `busy` | add, refresh, delete, select | HTTP, the parsers, the screens (Flows) |
| Default network | `KT/core/TunService.kt` (`DefaultNetworkMonitor`, `getInterfaces`), `core/libbox/monitor.go`, `NetworkInterfaces` of `service.go` | `listener`, `cm`; `defaultInterface`, `isExpensive`, callbacks | `setListener`, `report`, `updateDefaultInterface`, `RegisterCallback`, `UnregisterCallback` | ConnectivityManager's thread, sing-box's network manager |
| Command client | `core/libbox/command_client.go` | connection, client, context, mutex | Connect, ConnectWithFD, Disconnect, streams, calls | gRPC server of the daemon, the handler |
| Connection list | `core/libbox/command_types.go` | map and filtered list of connections | ApplyEvents, FilterState, sorts, Iterator | the connection stream |
| Command server | `core/libbox/command_server.go`, `core/libbox/box.go`, `core/libbox/setup.go` | listener, gRPC server, the socket's path, the secret | Setup, Start, Close, the interceptors; StartOrReload, Pause, Wake | the command client, sing-box's daemon |
| F-Droid updates | `core/libbox/fdroid.go`, `fdroid_mirrors.go` | cache file | check (API, index 2, index 1), ping mirrors | HTTP |
| Profile codec | `core/libbox/profile_import.go` | the decoder's list | encode, decode, chunks | another device |
| DNS transport | `core/libbox/dns.go` | channel, context, goroutines of a query | Exchange, OnCancel | the platform's resolver |
| HTTP client | `core/libbox/http.go` | body, `getContentOnce`, content | Execute, GetContent, WriteTo | callers on several threads |
| Build information | `core/libbox/build_info.go` | - | ReadAndroidVPNType | archives of other apps |
| Share links and formats | `KT/subscription/parser/**`, `KT/subscription/SubscriptionParser.kt` | - | detect, parse | the store |
| Configuration builder | `KT/core/ConfigBuilder.kt` | - | build | the box |
| Platform service | `core/libbox/service.go`, `tun.go` | - | conversions | TunService |
| Screens, crash log, utilities, command-line drivers | `KT/ui/*Screen.kt`, `KT/AirportApp.kt`, `core/libbox/{semver,iterator,setup,log,...}.go`, `core/cmd` | none worth a model | | |

What is hard, and what makes each component correct:

* **Connection control.** Nothing runs in parallel: all of it is the main looper's.
  The difficulty is the order of its messages. `startForegroundService` only queues
  an intent; `stopSelf` only queues a destruction; the coroutine of a tap waits in a
  DAO while other messages run; a consent screen belongs to another process, outlives
  an activity, and its result may come for a request that has been replaced. The state
  shown must agree with the core that runs; a stop must stop; a request must be
  answered by a connection to that node, once, or be refused; no TUN without consent;
  a service that ended must leave nothing behind. The system binds a `VpnService` from
  `establish()` until its TUN is gone, which decides what a `stopSelf()` can do.
* **Subscription store.** A job is a coroutine with a suspension at each DAO call.
  Additions and refreshes of one view model exclude each other (`busy`), deletions exclude
  nobody. `busy` is a field of the view model, and there can be two: the tabs of
  `MainScreen` save and restore their back stack entries, while the button of the empty list
  of nodes opens another entry of the same screen. Back navigation cancels
  `viewModelScope` and so cuts a job between two transactions. The
  two tables must agree, the nodes of a subscription must be of one download, and the
  selection must not come to mean another node.
* **Default network.** Two threads call `updateDefaultInterface`, whose parts are only
  partly locked; `report` waits in the callback thread for an interface that may never
  be ready, with newer callbacks behind it. The app's own TUN is one of the networks it is told
  of, and `getInterfaces` hides it. In the end the core must use Android's
  default network, and never its own TUN.
* **Command client.** Threads of the app share one client. Its mutex is held while it dials,
  and not during calls, streams and the handler's callbacks. A connection must be closed by
  somebody, and not under a caller that was just given it; every stream must say once that it
  ended, and the handler must not be left believing that it is connected.
* **Connection list.** Its rows are sums of deltas, over streams that end and begin again; the
  last message of an ended stream may come behind the first of the next. Closed connections
  age out, open ones must not; filter and order must hold over later messages and over the
  random order of Go's maps.
* **Command server.** The servers of a process, and of the process before, listen where `Setup` said
  last: on a path, or on a port. Go unlinks a path when its listener closes, a death leaves it
  behind, and a file system may be read-only for a while. A server must be able to start after a
  death, no listener may be lost, and a call must be let in if its secret is right, and
  only then, while `Setup` changes place and secret.
* **F-Droid updates.** The cache file says "nothing new" to the next check. It is written before
  the app was told, by checks that do not exclude each other, while the mirrors move on.
  It must not swallow an update.
* **Profile codec.** Encoder and decoder are of different programs and versions; counts and lengths
  have 16 bits.
* **DNS transport, HTTP client, build information.** A query that was given up must leave no
  goroutine behind; a body that is read once must not be taken for complete by a second caller; the
  random order of a Go map must not decide over an answer.

The hazards are listed, one by one and at their lines, in `PROJECT.json`.

## 2. Modules

| Module | Models |
|---|---|
| `Tunnel` | connection control, as one state machine |
| `TunnelRequests` | abstract: what the connection control promises about requests |
| `TunnelRefinement` | the mapping from `Tunnel` to `TunnelRequests`, and the property `AnswersRequests` |
| `TunnelProofs` | theorems about `Tunnel`, and that it implements `TunnelRequests` |
| `Subscriptions` | subscription store |
| `SubscriptionsProofs` | theorems about `Subscriptions` |
| `InterfaceMonitor` | default network |
| `InterfaceMonitorProofs` | theorems about `InterfaceMonitor` |
| `CommandClient` | command client |
| `CommandClientProofs` | theorems about `CommandClient` |
| `CommandServer` | command server: where it listens and whom it lets in |
| `CommandServerProofs` | theorems about `CommandServer` |
| `FDroidUpdate` | F-Droid checks and their cache |
| `FDroidProofs` | theorem about `FDroidUpdate` |
| `ProfileCodec` | profile messages from encoder to decoder |
| `DnsExchange` | one DNS query with its context and goroutines |
| `HttpTransfer` | one HTTP response and the callers that take its body |
| `VpnType` | the core of another app, from its libraries |
| `Connections` | connection list, with the stream that feeds it |
| `ConnectionsProofs` | theorems about `Connections` |
| `MCTunnel`, `MCSubscriptions`, `MCInterfaceMonitor`, `MCCommandClient`, `MCConnections` | the instances TLC checks |
| `MCLibbox` | command server, F-Droid checks, profile messages, DNS, HTTP and app reader side by side, one subject at a time; their parameters are its constants |
| `LibboxProofs` | theorems about the parts of `MCLibbox` |

### Tunnel

| Model | Code |
|---|---|
| `TapDisconnect`, `TapConnect(p)` / `ToggleResume(p, found)` | `ProfilesViewModel.toggleConnection`, before and after `profileDao.getProfile` |
| `TapProfile(p)` / `ClickResume(p)` | `onProfileClick`, before and after `setSelectedProfileId` |
| `ControllerStart`, `SwitchTo`, `ServiceStart`, `ServiceStop` | `CoreController.start`, `switchTo`, `TunService.start`, `stop` (operators: they run inside the actions above) |
| `CollectAuth`, `DeliverResult` | the collector in `MainActivity.onCreate`, `vpnAuthLauncher` with `onVpnAuthResult` |
| `RecreateActivity`, `ReopenActivity` | a configuration change; the task removed and the app opened again: a new collector gets the replay of `vpnAuthRequired` |
| `HandleStart(o)` | `onStartCommand` with ACTION_START; `o` is how far `initialize()` gets, each place where it can throw |
| `HandleStop`, `HandleRestart`, `HandleDestroy` | ACTION_STOP; the null intent of a sticky restart; `onDestroy` |
| `NotificationStop`, `Revoke`, `ProcessDeath`, `HandleCrash` | the notification's action; `onRevoke` (not overridden: `stopSelf`); faults |

Android is modelled from how the code uses it: `am` is ActivityManager's record of the
service (started, foreground promise, sticky) with the queue of calls for the instance.
A destruction that is queued makes the instance deaf: its `stopSelf` and
`startForeground` no longer count. `Bound` says that the system binds the service, which
it does while its TUN is up: a `stopSelf` meanwhile only ends the started state. The binding goes
with the TUN, by a revocation or a death, and only then does `stopSelf` (that of `onRevoke`, say)
destroy.

### Subscriptions

A job is `[kind, at, sub, gen, size]`, a coroutine of the view model that is its `Owner`.
`Add`, `Refresh` and `Delete` launch it, and `FetchFails`, `FetchSucceeds`, `InsertSub`,
`DeleteNodes`, `InsertNodes`, `Update`, `DeleteSub` are its steps, one for each suspending call
of `SubscriptionRepository`. `busy` and the list `shown` are of each view model. `Cut` is back
navigation (which clears one view model), or the death of the process, or the exception of a
malformed URL, which `fetch` builds outside of its `try` (which clear all). `Show` is the table's
Flow reaching a screen: a refresh or deletion works with the row the screen had. A download is
its number, `gen`, which grows with time as `lastUpdatedAt` does. Node ids come from
AUTOINCREMENT. A click on a node and its arrival in the settings are two steps: the row may be
gone in between. `torn` and `crossed` are the subscriptions a cut left half way, and those at which
jobs of two view models were together; a deletion of the nodes with nobody else half way ends both.

### InterfaceMonitor

Two threads, `starter` (the thread that starts the core and calls `setListener`) and
`connectivity` (the callbacks). A report is `Attempt`s, then `WriteExpensive`,
`UpdateInterfaces`, `SetDefault` and one `Notify` per subscriber: the
writes of `updateDefaultInterface` before its lock, its scan, its locked part, and its
callbacks. `Hidden` are the interfaces that `getInterfaces` skips by their names, above all the
app's own TUN: `openTun` excludes no app, so that it is this app's default network once it
is up, and `ChangeBelow` is a network under it that comes or goes unheard. A scan finds what is
visible, or part of it (an exception in Kotlin ends the list), or fails and leaves the old
list (`stale`). `CloseMonitor` unregisters while a report is under way. `RegisterCallback`,
`DefaultInterface` and `UnregisterCallback` are a subscriber that comes late, reads the default, and
leaves; the array of callbacks is the one of the moment the lock was held. `costly` is the `Expensive`
of the list that `NetworkInterfaces` makes from `getInterfaces`, for which the flag of the report
under way counts while the interface is still that of the report before.

### CommandClient

A caller is a thread of the app, a stream the goroutine that `dispatchCommands` starts for one
command of one connection; `at` says what each is about to do.

| Model | Code |
|---|---|
| `Begin` | a thread calls `Connect`, `Disconnect` or one of the calls |
| `Connect`, `Connected`, `DispatchCommands` | `Connect`: lock, close, dial; the handler; the streams |
| `ConnectWithFD` | the same over a descriptor of the app, where there is one attempt |
| `AttemptFails`, `AttemptSucceeds` | one turn of `dialWithRetry`, with the lock held; the assignments behind it in `Connect` and `getClientForCall` |
| `GetClient`, `GetClientLocked` | `getClientForCall` with the read lock, then with the write lock |
| `CallReturns`, `CloseConnection` | `callWithResult`, with the deferred `closeConnection` of a stand-alone client |
| `Disconnect` | `Disconnect` |
| `StreamStart` | `getStreamContext`: client and context as they are when the goroutine runs |
| `StreamModes`, `InitializeModes`, `StreamSubscribed`, `StreamLevel`, `StreamFails`, `StreamLost` | the `handle...Stream` functions, the goroutine of `sFixAndroidStack` among them |
| `ServerStop`, `ServerStart` | the daemon at the other end (external); it ends all streams or none |

What the streams' messages say is left out. A connection is its number, and so is the context
made with it.

### Connections

`ApplyEvents` is one iteration of `handleConnectionsStream` with the handler's
`Connections.ApplyEvents`: the map behind all events of the message, one after the other (`After`),
eviction, and the list anew through the filter. `FilterState` and `SortBy` are the user's. The
daemon (external) has connections that open, carry traffic and close, and tells its stream; `StreamLost` and
`Subscribe` are the end of a stream and the beginning of the next, and `ApplyLateEvents` is the
message that the goroutine of the former stream had received. A list of rows is any
arrangement of them, as Go iterates over maps in any order. Traffic has one direction. `input` is the
map's rows in between and is not a variable of its own. `Iterator` hands out copies.

### CommandServer

`StartUnix` is `Start` up to `os.Remove`, `AttemptBinds` and `AttemptFails` the turns of its loop,
`Chown` what follows where the socket must be handed to another user, and `StartTcp` the
whole with a port. `path` is where a server's last `Start` listens, `bound` where a listener was bound,
`leads` the listener that each place leads to; -1 is a file that a dead process left. `Close` also
unlinks the path, whoever's socket is there by now. `Setup` may change place and secret at any time:
who listens stays, and `Dial` goes to the new place with the new secret. `DialAs` is a client of another
process, set up in any way; the server's `Authorized` decides. `Die` and `BecomesWritable` are
the environment's.

### FDroidUpdate

An edition of a repository is a number that stands for its timestamp and its ETag. A check is split at
each request and before its answer: `Check` loads the cache and picks API, version 1 or version 2;
`NotModified`, `NoEntry` and `ReadEntry` are what comes for `entry.jar`; `ReadIndex` takes a diff or
the index; `ReadV1` is the old format, `ReadAPI` f-droid.org's. `Written` is `writeFDroidCache`,
whose errors are ignored. The mirrors publish, the process dies, and two checks may run at a time.

### ProfileCodec, DnsExchange, HttpTransfer, VpnType

`ProfileCodec`: data is a sequence of tokens, a token one number, string or flag, or one of the
parts of a configuration, which has a size; lengths and counts wrap at `Wrap`. Messages go bare or in
chunks, the connection may break at any token of one (between two profiles, within one, in a
configuration, between the fields behind it), and one decoder takes all lists.
`DnsExchange`: the caller of `Exchange`, its goroutine, the channel between
them, and the goroutine of `OnCancel`; the platform may answer, fail, or never return.
`HttpTransfer`: the body is a number of pieces that `GetContent` and `WriteTo` of several
callers read; `once` is the `sync.Once`. `VpnType`: `Loop` takes the modules of a library in any
order, as Go's map does; `Skip`, `ByName` and `NextArchive` are the order of the archives.

## 3. What is checked

| Run | Instance | Shows |
|---|---|---|
| `tunnel_safety` | 2 nodes, 4 taps, 2 faults, symmetry in the nodes | `ConsentedTunnel`, `RunningHasCore`, `PendingIsAnswered`, `CleanUnlessOverlap`; `AnswersRequests`: `Tunnel` implements `TunnelRequests` |
| `tunnel_live` | 2 nodes, 3 taps, 1 fault | `RevocationDisconnects`, `RequestsResolve`, `SwitchReconnects` |
| `tunnel_stop`, `tunnel_leak`, `tunnel_stopfresh` | 2 nodes, 2 taps, 0 or 1 fault | findings, section 5 |
| `subscriptions_jobs` | 2 view models, one with 2 jobs and one with 1, 1 node per download, 1 subscription, 3 downloads, 1 deletion, 1 cut | `SelectedNeverRetargets`, `OneGeneration`, `StampMatchesNodes`, `BusyEnds` |
| `subscriptions_mixed` | 2 view models with a job each, 3 downloads | finding, section 5 |
| `commandclient_calls` | 3 threads, 3 operations, both dialers, 2 attempts to dial, a known and an unknown command, stand-alone or not, the server stops once, symmetry in the threads | `NoLeak`, `ClientIsOpen`, `QuietClosed`, `LastWord` |
| `commandclient_streams` | 2 threads, 3 operations, the clash mode stream, both settings of `sFixAndroidStack` | `OneFarewell`, `OperationsReturn`, `StreamsEnd` |
| `connections_events` | 2 connections, 2 streams, 2 messages under way, 2 units of traffic, a clock of 2, 1 filter or sort | `Mirror`, `ViewMatches`, `OneOrder`, `LeavesInTime` |
| `interfacemonitor_reports` | 3 interfaces, one of them the hidden TUN, 2 subscribers (one registers late), 2 attempts, 2 changes or registrations, both threads | `FollowsNetwork`, `SubscribersAgree`, `CallbacksRun` |
| `libbox_parts`: server | 2 servers, 2 paths, a port, 2 starts, 2 attempts to bind, 1 `Setup` behind the first, 1 death, with and without secret, chown and read-only file system | `NoListenerLeak`, `StaleSocketHarmless`, `ServerAnswers` |
| `libbox_parts`: checks, mirrors | 2 editions, 1 death; two checks at a time of one mirror, or one check at a time of two mirrors and f-droid.org | `NothingWithheld` |
| `libbox_parts`: profiles | 3 messages, lists of 0, 3, 5 and 13 profiles and configurations of sizes 1 and 7, with counts and lengths that wrap at 12, bare and in chunks, cut anywhere | `RoundTrip` |
| `libbox_parts`: dns | one query, raw or not | `NothingLeftBehind` |
| `libbox_parts`: http | 2 callers, 3 calls, a body of 2 pieces | `NoSilentLoss` |
| `libbox_parts`: vpn | 1 or 2 archives, libraries of up to 3 modules, 2 reads | `VpnTypeStable` |

The parts of `libbox_parts` share no state. A behaviour chooses one of them, its `subject`, and the
others remain as they begin: the state spaces add up and do not multiply. `LibboxTypes` is the
conjunction of their type invariants.

**The bounds are enough for the cases that matter.** Four taps are connect, a switch, a
stop and one more (a rotation, a reopened task, a second connect); two faults are a
revocation and a process death. Two nodes tell "the node asked for" from another. In
`Subscriptions` the two jobs of one view model are a download beside a deletion (its downloads
exclude each other), and the job of the other one crosses either; three downloads are an
addition and a refresh by each. That a refresh mends what two view models crossed takes
a fourth download: only the theorem covers it. One node per download is enough for id
reuse, which needs a row that goes and one that comes.
In `InterfaceMonitor` two changes are a network that is lost and comes back, or the TUN that
takes over and a change below it, or one that goes while a subscriber registers; and two attempts
are the least for which a report waits and then succeeds; the code's ten differ in duration only.
Longer histories are the theorems'. In `CommandClient` three threads are two that share a
connection and one that closes it between their steps; three operations are a connection, its
replacement or a disconnection, and a call; the clash mode stream has every step the others have
but `StreamLevel`, which the log stream of the other run takes. In `Connections` two streams are
one and its successor; an age limit of 0 on a clock of two ticks has a closed
connection that is young enough and one that is not; traffic of two is a sum of deltas, or a
snapshot and a delta. In `CommandServer` two starts are those of two servers, on one path or on two, or two
of one server; two attempts are one that is tried again and the last. In `FDroidUpdate` two editions are the
one a cache knows and the one that comes behind it; a third would only be a longer diff. Lists of 13
wrap the count, of 5 the length of the chunk alone, and so does a configuration of size 7, which
fits without a chunk.

Deadlock is not checked: an app nobody taps is at rest, and every model stops when its
bounds are used up.

**Fairness.** `Tunnel`: the main looper runs what is queued on it, i.e. service calls,
resumed coroutines, collected events, activity results (weak fairness each). Nothing is
asked of the user (a consent screen may stay open for ever), of faults, or of what
`initialize()` runs into. `Subscriptions`: the dispatchers run every coroutine, and a
download ends; OkHttp's timeouts bound a silent server, but not one that sends a byte now
and then, which is therefore left out. `InterfaceMonitor`: both threads run; a network's
interface need not ever be ready. `CommandClient`: Go runs every goroutine and its mutex starves
nobody (a waiter of more than a millisecond is served first); an attempt to dial has a deadline;
a call is answered or fails, although its context has no deadline. Nothing is asked of the
server. `DnsExchange`: the goroutines run (also in `libbox_parts`, the only fairness there); nothing
is asked of the platform, whose call may never return, nor of the context.

**Each property is tested against a mutated definition.** The definitions named `Bug...`
are plausible mistakes (a dropped guard, a missing reset, `replay = 0`, an id taken from
the largest in use); replacing the definition by its `Bug` form must break the property.
They are used nowhere else.

## 4. What is proved

TLAPS proves every invariant, the action property `LeavesInTime` and the refinement
`AnswersRequests` of the passing runs: for every set of nodes, view models, threads, connections,
mirrors and callers, and every bound. A property is seldom inductive; what each needs
beside itself is the argument.

**Connection control** (`TunnelProofs`)

* `TypeCorrect`; `ConsentedTunnelHolds`: no TUN without consent.
* `TunnelSafe`: `RunningHasCore` and `CleanUnlessOverlap`. `TunnelInv` adds which box the service
  refers to: outside of an overlap every core in the process is `boxService`'s, the TUN is that
  core's, box numbers are below `nextBox`, and a core implies a living service, or one whose
  destruction is still in the queue.
* `PendingSafe`: `PendingIsAnswered`. `PendingInv` adds that a pending request implies a replayable
  event, and what consent says about the screens and results under way.
* `TunnelAnswersRequests`: `Tunnel` implements `TunnelRequests`. `Intents` are the resumed
  coroutines that have still to act, `Asked` the pending request and the START calls in the queue;
  each action is shown to be a request, an answer to something asked, or a stutter. The lemmas count
  STARTs in a queue that grows at its end, loses its front, or is emptied.

**Subscription store** (`SubscriptionsProofs`)

* `TypeCorrect`.
* `GenerationsSafe`: `OneGeneration`. `GenInv` adds that one job of each view model loads at a time
  (`OneLoad`: what `busy` is for), and that jobs of two that are half way at one subscription have
  been noticed (`CrossKnown`); that a job about to insert nodes finds none of its subscription, although
  a deletion may run next to it (`Replaced`); and that nothing knows the number of a subscription to
  come, so that a stale row of a screen cannot meet a new subscription (`SubsBelow`).
* `StampsSafe`: `StampMatchesNodes`. `StampInv` adds what a job half way through has written:
  an addition has its subscription stamped with its own download (`AddStamp`), and a refresh about
  to stamp has nodes, unless a deletion is taking them (`RefreshNodes`).
* `SelectionSafe`: `SelectedNeverRetargets`. `SelInv` adds that the row of a click still under way
  is covered like the stored one, and that ids in use and ids chosen are below the sequence.

**Default network** (`InterfaceMonitorProofs`)

* `TypeCorrect`: each step of a report leaves its thread in a stage of that report.
* `NetworkFollowed`: `FollowsNetwork`. That the default interface is never hidden comes from the list of
  what was found, which holds nothing hidden. For the rest,
  `NetInv` adds that the last callback that waits, or else the
  report that runs, is about the current network (`LastEvent`, `OnCurrent`); that the report of
  `setListener` is never the last one without the mark of a race (`LateStarter`, `FirstStep`); and
  how far a report that runs alone has brought the metering: to the flag, to the list, to the
  interface (`Progress`). Its hypothesis that the last report found its interface is not met while
  the TUN is the default network; then only the first conjunct says something.
* `SubscribersInformed`: `SubscribersAgree`. `SubscribersInv` adds that without races there is one
  update at a time (`OneUpdate`), and that it has still to tell everybody it has not told
  (`ToldOrTodo`).

**Command client** (`CommandClientProofs`)

* `ClientSafe`: `NoLeak`, `ClientIsOpen` and `QuietClosed`. `ClientInv` adds that who holds the lock
  is the one who dials, and that the connection it dials is then the only open one, since
  `Connect` has closed the client's and a call dials when there is none (`LockInv`, `OpenHeld`;
  `ConnectWithFD` included); and that a stand-alone client with an open connection has a caller who
  will close it (`AloneInv`).
* `TypeCorrect`: whoever dials finds a connection number. `CountInv` counts the operations that have
  not dialled, by the cardinality of their set.
* `FarewellsOnce`: `OneFarewell`. `StreamInv` adds that clash modes that turn out to be empty are told
  by a stream that has ended (`EmptyEnds`): one of its two goroutines says the farewell.
* `LastWordSaid`: `LastWord`. `Awaited`: while the handler believes it is connected, a caller has
  streams to start or a stream has its farewell to say.

**Connection list** (`ConnectionsProofs`)

* `TypeCorrect` and `LeavesOnlyInTime` (`LeavesInTime`, for late messages too). `ListInv` says that
  rows stay their connection's own and that a closure in a row, an event or a message under way is
  the daemon's (`TrueEvents`). Behind both is `AfterAll`: what holds before the first event of a
  message and is carried from each to the next holds behind the last, for a message of any length.
  It is an induction, done by the least event for which it would fail, since the induction theorems of
  the library cannot be used.
* `ViewSafe`: `ViewMatches` and `OneOrder`. The list is an arrangement of the map's rows (so it has
  each once), and a sort has one outcome because its comparison, with the names behind equal keys,
  decides between any two (`OneOutcome`: two outcomes would differ first at some place).
* `ListMirrors`: `Mirror`. `MirrorInv` says that the messages under way are a history of the
  daemon (`History`): there are past states, the first of which the map agrees with, each message brings
  one to the next, and the last is the daemon's of now. A message brings a map forward with the
  daemon, and a snapshot does so from any map.

**Parts of libbox** (`CommandServerProofs`, `FDroidProofs`, `LibboxProofs`)

* `CommandServerProofs!ServerSafe`: `NoListenerLeak`, `StaleSocketHarmless` and `ServerAnswers`.
  `ServerInv` adds that a `Start` has a listener of its own only while it must be chowned
  (`Shapes`); that one which removed the file with no other beside it finds the path free until
  its loop ends (`CleanInv`); and that numbers of listeners are given once, so that a place leads
  to who was bound there unless somebody took it (`AnswerInv`). That a call is let in exactly with the
  secret of now is what `Serve` does and each `Setup` behind it marks. `TypeCorrect` counts the
  starts that still need a listener (`CountInv`).
* `FDroidProofs!CacheSafe`: `NothingWithheld`, with its exception (`unheard`): a version whose answer a
  death took behind the write of the cache, or whose jar had no index, is lost.
  `CacheInv` adds the same for the copy of the cache
  that each check under way has loaded and may write on (a check that ends late writes what an
  older cache made it believe), and that a check never writes an edition above the one whose index it
  read. The steps of a check are one lemma, those of the mirrors, of the user and of a death
  another: each only enlarges what the app was told, or could have been.
* `LibboxProofs` is about `MCLibbox!MCSpec`, whose steps are steps of each part or leave it alone
  (`OwnSteps`); the invariants of the parts hold of the parts' own next-state relations, without
  the bounds by which a run chooses its subject.
  * `ChecksSafe`: `NothingWithheld` here, from an instance of `FDroidProofs`.
  * `MessagesArrive`: `RoundTrip`, for lists and configurations of any size. One message: what an
    encoder of either version writes behind the configuration is what a decoder of that version
    reads (`SameFields`), so a whole one is decoded to what it says (`Encoded`), and one that is cut
    at any place fails, or has all that is looked at (`Taken`); of a list that is cut the first
    profiles are read (`PartOfList`). A connection: what was sent was received or is on its way, and
    the last may be cut (`ProfileInv`).
  * `HttpSafe`: `NoSilentLoss`. `HttpInv` adds that the body is untouched, or one caller alone has what
    is missing of it, or it is closed, and that what is kept of it is all of it (`Whole`, `Shared`,
    `Early`).
  * `VpnSafe`: `VpnTypeStable`. `VpnInv` says what the reader can have found so far, whatever the
    order of the modules (`OfApp`), and an app without a mixed library allows one answer (`OneAnswer`).
  * `PartsTyped`: `LibboxTypes`, from the types of each part.

**Assumptions.** Those the modules state on their constants, and TLC evaluates: `NoProfile` is not a
node, `NoCaller` not a thread, connections are finitely many, bounds are natural numbers (where
there are none of something, such as editions or attempts, there would be nothing to run), a
download has at least one node (`fetchAndParse` throws on an empty one). Of the parts of libbox,
`PartsAssumption`: counts and lengths wrap somewhere (at 65536 in the code), sizes are natural numbers,
and an app is a sequence of archives with the libraries `VpnType` describes. `OwnerAssumption`: each job
has a view model.

**Only model-checked.** Liveness (`RevocationDisconnects`, `RequestsResolve`, `SwitchReconnects`,
`BusyEnds`, `CallbacksRun`, `OperationsReturn`, `StreamsEnd`, `NothingLeftBehind`), which is out of
this prover's reach. The findings of section 5 are counterexamples and need no proof.

## 5. What the models found

Each has a run whose counterexample shows it.

1. **Disconnect does not disconnect** (`tunnel_stop`, `KT/core/TunService.kt:94`). `ACTION_STOP` only
   calls `stopSelf()`. The system binds a `VpnService` while its TUN is up and does not destroy
   a bound service, and only `onDestroy` closes the core and the TUN: the toggle and the notification's
   stop leave the app connected, with the service no longer in the started state. A revocation, by
   contrast, ends the connection (`RevocationDisconnects`). `README.md:73` and `PLAN.md:98`
   promise the disconnection. The run rests on how Android treats the service (`Bound`), which
   is modelled and not part of this repository.
2. **A core outlives its service** (`tunnel_leak`, `KT/core/TunService.kt:131`). A second
   START (two taps on connect before the service is up, or a switch) overwrites `boxService` and `tunnelFd`
   of a core that runs; when a revocation ends the service, `onDestroy` closes the second one only.
3. **A stop creates a service** (`tunnel_stopfresh`, `KT/core/TunService.kt:76`).
   `isRunning` remains true from `stopSelf()` until `onDestroy()`. In the run the VPN is revoked and the
   user taps disconnect before `onDestroy()` ran: `stop()` starts a fresh foreground service,
   which stops itself without keeping its promise of `startForeground()`, and Android ends the process.
4. **A refresh that adds instead of replacing** (`subscriptions_mixed`,
   `KT/subscription/SubscriptionRepository.kt:59`). Two view models refresh one subscription,
   each with a `busy` of its own (`KT/ui/SubscriptionsViewModel.kt:31`, `KT/ui/MainScreen.kt:46-51`
   and `69`). Both delete its nodes before either inserts; it ends with the nodes of both downloads,
   under the stamp of one.

Seen on the way and stated in the properties as exceptions:

* A granted consent whose result is lost with its task leaves the request pending for good
  (`lostGrant`): the replayed event finds consent and does nothing.
* After an `initialize()` that failed once its TUN was up, `stopSelf()` does not destroy the service
  either: the TUN stays, without a core and with the error shown, until the next connection, a
  revocation or the death of the process.
* A switch works by starting the new core over the old one, which keeps running
  (`overlap`; finding 2).
* An addition cut between its two inserts leaves a subscription without nodes; a refresh cut
  after its deletion leaves one too, until the next refresh (`torn`). The exception of a malformed
  URL ends the process, which counts as a cut.
* What jobs of two view models did to one subscription stays, stamp and nodes of different
  downloads included, until its nodes are next deleted (`crossed`).
* A deletion that overtakes a refresh or an addition leaves nodes of a subscription that no longer
  exists, which no screen offers to remove. No property forbids it: the table has no foreign key,
  and no document claims one.
* `report()` gives up after a second, and nothing listens for `onLinkPropertiesChanged`: a network
  whose interface comes up later is never reported (`missed`).
* Once the VPN is up, the callback tells of the TUN, which the list of interfaces hides: the report
  finds no interface (`missed`), and the core keeps the default interface it had, whatever becomes of
  the networks below.
* Two reports at the same time (start of the core next to a callback) can leave the older
  interface as the default until the next callback (`raced`), and a subscriber with an older
  interface until the interface changes (`everRaced`).
* `Disconnect`, and a `Connect` that fails, close the connection and keep the client: calls get a
  closed one, and fail, until the next `Connect` (`down`). A stand-alone client heals itself.
* Each of k streams calls `Disconnected`, so the handler hears it k times, and the last calls
  may come behind the `Connected` of the next connection. With two `Connect`s at a time the
  streams of the first may subscribe on the connection of the second.
* A message of an ended stream that comes behind the Reset of the next one shows connections
  that are gone, or counts traffic twice, until another Reset (`fresh`).
* A call in flight over a connection that another stand-alone call closes fails.
* Closed connections are evicted when a message comes, and only then. An update behind the closure
  gives a closed row a rate.
* With `sFixAndroidStack`, `InitializeClashMode` may come behind the first `UpdateClashMode`, or
  behind `Disconnected`.
* A subscriber that has unregistered is still called by an update that had taken its callback. The
  list of interfaces may show the former default with the metering of the new one (`Expensive`).
* `CommandServer.Start` removes the old socket once, in front of the loop that waits for a read-only
  file system: the socket of a dead process on such a file system remains, and `Start` fails with
  "in use" (`clean`). A second `Start` of the same object loses its first listener
  (`overwritten`). An older server that is closed late unlinks the path of the newer one
  (`cutOff`).
* `handlerAdapter` uses its handler unchecked, although a comment says that it "may be nil"
  (`core/libbox/box.go:79`), and so is the status that `SystemProxyStatus` converts.
* The F-Droid cache is written before the check answers: an update whose answer is lost to a death of
  the process in between is not told by later checks, until the next edition; nor is one of
  an edition whose jar had no index (`unheard`).
* Once the app was told of an F-Droid update, checks of the same edition answer "nothing new",
  also if the user did not install it: it is told once. A mirror that once had no
  `entry.jar` is asked for version 1 for as long as its cache is not another mirror's.
* Two callers that take one body at the same time, one as a string and one as a file, may each succeed
  with a part of it (`mixed`). `WriteTo` drops the error of `file.Close`.
* A goroutine of `OnCancel` waits for the end of its context, however long. The app has no
  platform resolver of its own (`localDNSTransport` returns null), so this path is other clients'.
* A list of 65536 profiles or more is read as one of the remainder, and a message of 64 KiB or more
  in a chunk is cut at the remainder of its length (`TooLarge`); what follows it on the
  connection is not modelled.
* An HTTP body without a length that is cut would look complete to the Go library; the model's cut is
  one that it notices.
* A library that names several cores is taken for any one of them; an answer of WireGuard has no path.

## 6. Not modelled

* Share links, subscription formats and the configuration builder: pure functions on text (of a
  download, only how many nodes it has is modelled). What can go wrong in them is the text itself,
  which a model abstracts and a unit test enumerates.
* The mirrors' pings (`fdroid_mirrors.go` is a list; the pings are independent, and sorted) and what
  the methods of the command server forward to sing-box (`StartOrReload`, `Pause`, `Wake`, the
  calls of `box.go`), whose state is sing-box's. The box as the app uses it is part of `Tunnel`.
* The settings of an HTTP client before its request, compression, and the bytes of strings.
* `errorMessage` is taken to be collected while the view model lives; with no collector it is
  dropped.
* The names of the core's own interfaces: a list that only grows.
* Screens, crash log, conversions between Go and Java (`service.go`, `tun.go`), `semver.go`,
  `iterator.go`, `log.go`, `config.go`, command-line drivers.
* The sing-box core itself, Room, DataStore, OkHttp and Android, except as described above.

## 7. Plan

Order: the behaviour a user depends on first, then the library's parts by what can go wrong in
them. Twelve questions (runs) are asked of the system in all.

1. *Done*: `Tunnel`, `TunnelRequests`, `Subscriptions`, `InterfaceMonitor`, `CommandClient`,
   `Connections`; type correctness and safety of the first, selection and generations of the
   second, connections of `CommandClient`.
2. *Done*: `CommandServer`, `FDroidUpdate`, `ProfileCodec`, `DnsExchange`, `HttpTransfer` and `VpnType`
   in one run; `ConnectWithFD` and the subscribers of `InterfaceMonitor`; safety of `CommandServer`
   and of the F-Droid cache proved.
3. *Done*: proofs of every safety property the runs check, of the refinement, and of type
   correctness of every module that holds state. `MCLibbox` takes its parts' parameters as constants,
   and `Connections` applies a message by a recursive function, so that both can be reasoned about.
4. *Done*: view models with a `busy` of their own in `Subscriptions`, the binding of a `VpnService` in
   `Tunnel`, hidden interfaces in `InterfaceMonitor`, places and outsiders in `CommandServer`,
   configurations of any size and cuts anywhere in `ProfileCodec`, with their proofs.
5. Proofs that remain: bounds that are now only exercised could be lemmas, such as that a sweep of
   closed connections leaves none too old (`Evicted`), and that a `SwitchTo` without overlap leaves one
   core; and a promise of the connection list, of which `Connections` would be shown to be a refinement.
