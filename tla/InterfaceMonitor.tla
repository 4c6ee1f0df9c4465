-------------------------- MODULE InterfaceMonitor --------------------------
(***************************************************************************)
(* The default network, from Android to the sing-box core: TunService's    *)
(* DefaultNetworkMonitor, which hears of networks and reports them, and    *)
(* libbox's platformDefaultInterfaceMonitor, which keeps the default       *)
(* interface and tells its subscribers.                                    *)
(*                                                                         *)
(* Two threads report: the one that starts the core, once, from            *)
(* setListener; and Android's connectivity thread, which runs the          *)
(* callbacks one after the other.  updateDefaultInterface is not           *)
(* serialised between them; only its middle is under a lock.               *)
(***************************************************************************)
EXTENDS Integers, Sequences, FiniteSets

CONSTANTS
  Iface,        \* the interfaces of the networks
  NoIface,      \* nil
  Hidden,       \* those that getInterfaces skips: tun*, ppp*, dummy*
  Subscriber,   \* who registers a callback in libbox
  Early,        \* those who do before the monitor starts
  Attempts,     \* attempts of report() (10 in the code)
  MaxChanges,   \* bound: changes of the networks, registrations and their ends
  Starter       \* does setListener run while networks change?

ASSUME IfaceAssumption == NoIface \notin Iface /\ Hidden \subseteq Iface
ASSUME BoundsAssumption == Attempts \in Nat \ {0} /\ MaxChanges \in Nat
ASSUME EarlyAssumption == Early \subseteq Subscriber
ASSUME StarterAssumption == Starter \in BOOLEAN

VARIABLES
  \* Android
  current,     \* the interface of the default network
  ready,       \* the interfaces that exist, with link properties
  metered,     \* the interfaces of metered networks
  events,      \* callbacks not yet run: an interface, or NoIface for onLost
  \* DefaultNetworkMonitor
  listening,   \* listener # null and the callback is registered
  \* its threads: what each is about to do, for which interface
  thread,
  \* platformDefaultInterfaceMonitor
  isExpensive,
  finder,      \* what UpdateInterfaces found last
  costly,      \* those of them whose Expensive it set
  defaultInterface,
  callbacks,   \* [Subscriber -> "off", "new" (registered), "on" (has read the default too)]
  told,        \* [Subscriber -> what it was told last]
  \* observability
  raced,       \* the last callback ran next to the other thread's report
  everRaced,   \* a callback did
  missed,      \* the last report ended without an update
  stale,       \* the last scan failed: the list is that of an earlier one
  changes

world    == <<current, ready, metered>>
scanned  == <<finder, costly>>
monitor  == <<isExpensive, scanned, defaultInterface, callbacks, told>>
observed == <<raced, everRaced, missed, stale>>
vars     == <<world, events, listening, thread, monitor, observed, changes>>

Thread == {"starter", "connectivity"}
Target == Iface \cup {NoIface}

\* left = attempts of report() that remain, expensive = the argument of
\* updateDefaultInterface, todo = the subscribers it still has to tell
Idle == [at |-> "idle", net |-> NoIface, left |-> 0, expensive |-> FALSE, todo |-> {}]
Attempting ==
  [at : {"attempt"}, net : Iface, left : 1 .. Attempts, expensive : {FALSE}, todo : {{}}]
InUpdate ==
  [at : {"write", "scan", "set"}, net : Target, left : {0}, expensive : BOOLEAN, todo : {{}}]
Telling ==
  [at : {"notify"}, net : Target, left : {0}, expensive : BOOLEAN,
   todo : (SUBSET Subscriber) \ {{}}]
ThreadState == {Idle} \cup Attempting \cup InUpdate \cup Telling

TypeOK ==
  /\ current \in Target
  /\ ready \subseteq Iface /\ metered \subseteq Iface
  /\ events \in Seq(Target)
  /\ listening \in BOOLEAN
  /\ thread \in [Thread -> ThreadState]
  /\ isExpensive \in BOOLEAN
  /\ costly \subseteq finder /\ finder \subseteq Iface
  /\ defaultInterface \in Target
  /\ callbacks \in [Subscriber -> {"off", "new", "on"}]
  /\ told \in [Subscriber -> Target]
  /\ {raced, everRaced, missed, stale} \subseteq BOOLEAN
  /\ changes \in 0 .. MaxChanges

Reporting(net) ==
  [at |-> "attempt", net |-> net, left |-> Attempts, expensive |-> FALSE, todo |-> {}]
Updating(net, expensive) ==
  [at |-> "write", net |-> net, left |-> 0, expensive |-> expensive, todo |-> {}]

\* The core starts on a device with or without a network.  setListener:
\* registered (the callback is told of the current network), then, in the same
\* call, report(activeNetwork).
Init ==
  /\ current \in Target
  /\ ready = {current} \ {NoIface}
  /\ metered \in SUBSET ready
  /\ events = IF current = NoIface THEN <<>> ELSE <<current>>
  /\ listening = TRUE
  /\ thread = [t \in Thread |->
       IF t = "starter" /\ Starter /\ current # NoIface THEN Reporting(current) ELSE Idle]
  /\ isExpensive = FALSE /\ finder = {} /\ costly = {} /\ defaultInterface = NoIface
  /\ callbacks = [s \in Subscriber |-> IF s \in Early THEN "on" ELSE "off"]
  /\ told = [s \in Subscriber |-> NoIface]
  /\ raced = FALSE /\ everRaced = FALSE /\ missed = FALSE /\ stale = FALSE
  /\ changes = 0

-----------------------------------------------------------------------------
(* Android                                                                 *)

Change == changes < MaxChanges /\ changes' = changes + 1
Heard(e) == IF listening THEN Append(events, e) ELSE events

\* Another network becomes the default; its interface may take a while, the
\* old one may go
BecomeDefault(i, isReady, oldGoes) ==
  /\ Change /\ i # current
  /\ current' = i
  /\ ready' = (IF oldGoes THEN ready \ {current} ELSE ready)
                \cup (IF isReady THEN {i} ELSE {})
  /\ events' = Heard(i)
  /\ UNCHANGED <<metered, listening, thread, monitor, observed>>

\* Nobody overrides onLinkPropertiesChanged: no event
BecomeReady ==
  /\ current \notin ready \cup {NoIface}
  /\ ready' = ready \cup {current}
  /\ UNCHANGED <<current, metered, events, listening, thread, monitor, observed, changes>>

LoseDefault ==
  /\ Change /\ current # NoIface
  /\ current' = NoIface /\ ready' = ready \ {current}
  /\ events' = Heard(NoIface)
  /\ UNCHANGED <<metered, listening, thread, monitor, observed>>

\* onCapabilitiesChanged
ChangeMetered ==
  /\ Change /\ current # NoIface
  /\ metered' = IF current \in metered THEN metered \ {current} ELSE metered \cup {current}
  /\ events' = Heard(current)
  /\ UNCHANGED <<current, ready, listening, thread, monitor, observed>>

\* Once the TUN is up it is this app's default network (openTun excludes no app): the
\* networks below come and go, of which the callback hears at most as a change of the TUN.
ChangeBelow(i, heard) ==
  /\ Change /\ current \in Hidden /\ i \in Iface \ Hidden
  /\ ready' = IF i \in ready THEN ready \ {i} ELSE ready \cup {i}
  /\ events' = IF heard THEN Heard(current) ELSE events
  /\ UNCHANGED <<current, metered, listening, thread, monitor, observed>>

-----------------------------------------------------------------------------
(* DefaultNetworkMonitor                                                   *)

At(t, step) == thread[t].at = step
Becomes(t, state) == thread' = [thread EXCEPT ![t] = state]
Goto(t, step) == thread' = [thread EXCEPT ![t].at = step]
Ends(t) == Becomes(t, Idle)

\* The connectivity thread runs the next callback: onAvailable and
\* onCapabilitiesChanged report, onLost calls the listener
Callback ==
  LET t == "connectivity" e == Head(events)
  IN /\ At(t, "idle") /\ events # <<>>
     /\ events' = Tail(events)
     /\ \/ ~listening /\ UNCHANGED thread
        \/ listening /\ e = NoIface /\ Becomes(t, Updating(NoIface, FALSE))
        \/ listening /\ e # NoIface /\ Becomes(t, Reporting(e))
     /\ raced' = FALSE
     /\ UNCHANGED <<world, listening, monitor, everRaced, missed, stale, changes>>

BugLeft(n) == n   \* while (true)

Left(n) == n - 1

BugMoreAttempts(n) == n >= 1   \* one attempt too many

MoreAttempts(n) == n > 1

Racing ==
  LET both == \A t \in Thread : ~At(t, "idle")
  IN raced' = (raced \/ both) /\ everRaced' = (everRaced \/ both)

\* One attempt of report(): the interface has an index, or sleep(100)
Attempt(t) ==
  /\ At(t, "attempt")
  /\ LET i == thread[t].net
     IN \/ /\ i \in ready /\ listening
           /\ Becomes(t, Updating(i, i \in metered)) /\ UNCHANGED missed
        \/ /\ i \in ready /\ ~listening
           /\ Ends(t) /\ UNCHANGED missed
        \/ /\ i \notin ready /\ MoreAttempts(thread[t].left)
           /\ thread' = [thread EXCEPT ![t].left = Left(thread[t].left)] /\ UNCHANGED missed
        \/ /\ i \notin ready /\ ~MoreAttempts(thread[t].left)
           /\ Ends(t) /\ missed' = TRUE
  /\ Racing
  /\ UNCHANGED <<world, events, listening, monitor, stale, changes>>

\* closeDefaultInterfaceMonitor: setListener(null)
CloseMonitor ==
  /\ Change /\ listening
  /\ listening' = FALSE
  /\ events' = <<>>
  /\ UNCHANGED <<world, thread, monitor, observed>>

-----------------------------------------------------------------------------
(* platformDefaultInterfaceMonitor.updateDefaultInterface                  *)

BugWritten(expensive) == isExpensive \/ expensive   \* never reset

Written(expensive) == expensive

\* isExpensive is not locked
WriteExpensive(t) ==
  /\ At(t, "write")
  /\ isExpensive' = Written(thread[t].expensive)
  /\ Goto(t, "scan")
  /\ Racing
  /\ UNCHANGED <<world, events, listening, scanned, defaultInterface, callbacks, told, missed,
                 stale, changes>>

BugVisible == ready   \* without the filter of names

\* getInterfaces() skips the tunnels, this app's own TUN among them ...
Visible == ready \ Hidden

\* ... and says whether Android's default one is metered.
Metered == {current} \cap metered \cap Visible

\* NetworkInterfaces: the flag of this report counts for the default interface, which is
\* still the one of the report before
Expensive == Metered \cup (IF isExpensive THEN {defaultInterface} \cap Visible ELSE {})

\* networkManager.UpdateInterfaces, which asks NetworkInterfaces: an exception among the
\* interfaces leaves a partial list without an error; an error is logged, and the list
\* stays the old one.
UpdateInterfaces(t) ==
  /\ At(t, "scan")
  /\ \/ /\ \E found \in SUBSET Visible : finder' = found /\ costly' = Expensive \cap found
        /\ stale' = FALSE
     \/ stale' = TRUE /\ UNCHANGED scanned
  /\ Goto(t, "set")
  /\ Racing
  /\ UNCHANGED <<world, events, listening, isExpensive, defaultInterface, callbacks, told, missed,
                 changes>>

Registered == {s \in Subscriber : callbacks[s] # "off"}

BugUnchanged(i) == defaultInterface # NoIface   \* any interface for the same one

Unchanged(i) == defaultInterface # NoIface /\ defaultInterface = i

\* Under the lock: nothing if ByIndex fails; else the new interface, and the
\* callbacks to call.  Losing the network is told even when there was none.
SetDefault(t) ==
  /\ At(t, "set")
  /\ LET i == thread[t].net
     IN IF i \notin finder \cup {NoIface}
        THEN Ends(t) /\ missed' = TRUE /\ UNCHANGED defaultInterface
        ELSE /\ defaultInterface' = i
             /\ missed' = FALSE
             /\ IF Unchanged(i) \/ Registered = {}
                THEN Ends(t)
                ELSE Becomes(t, [thread[t] EXCEPT !.at = "notify", !.todo = Registered])
  /\ Racing
  /\ UNCHANGED <<world, events, listening, isExpensive, scanned, callbacks, told, stale, changes>>

\* One callback, outside of the lock
Notify(t) ==
  /\ At(t, "notify")
  /\ \E s \in thread[t].todo :
       /\ told' = [told EXCEPT ![s] = thread[t].net]
       /\ IF thread[t].todo = {s}
          THEN Ends(t)
          ELSE thread' = [thread EXCEPT ![t].todo = @ \ {s}]
  /\ Racing
  /\ UNCHANGED <<world, events, listening, isExpensive, scanned, defaultInterface, callbacks,
                 missed, stale, changes>>

-----------------------------------------------------------------------------
(* Subscribers: parts of sing-box that come and go.  Who registers late    *)
(* then reads the default interface, which registration does not tell.  A  *)
(* callback that an update has taken is called, though unregistered since. *)

reports == <<world, events, listening, thread, isExpensive, scanned, defaultInterface, observed>>

RegisterCallback(s) ==
  /\ Change /\ callbacks[s] = "off"
  /\ callbacks' = [callbacks EXCEPT ![s] = "new"]
  /\ UNCHANGED told /\ UNCHANGED reports

DefaultInterface(s) ==
  /\ callbacks[s] = "new"
  /\ callbacks' = [callbacks EXCEPT ![s] = "on"]
  /\ told' = [told EXCEPT ![s] = defaultInterface]
  /\ UNCHANGED changes /\ UNCHANGED reports

UnregisterCallback(s) ==
  /\ Change /\ callbacks[s] = "on"
  /\ callbacks' = [callbacks EXCEPT ![s] = "off"]
  /\ UNCHANGED told /\ UNCHANGED reports

-----------------------------------------------------------------------------
Run(t) ==
  \/ Attempt(t)
  \/ WriteExpensive(t) \/ UpdateInterfaces(t) \/ SetDefault(t) \/ Notify(t)

Next ==
  \/ \E i \in Iface, isReady, oldGoes \in BOOLEAN : BecomeDefault(i, isReady, oldGoes)
  \/ BecomeReady \/ LoseDefault \/ ChangeMetered
  \/ \E i \in Iface, heard \in BOOLEAN : ChangeBelow(i, heard)
  \/ Callback \/ CloseMonitor
  \/ \E s \in Subscriber : RegisterCallback(s) \/ DefaultInterface(s) \/ UnregisterCallback(s)
  \/ \E t \in Thread : Run(t)

Spec == Init /\ [][Next]_vars

\* Threads run; a network's interface need not ever be ready.
FairSpec ==
  /\ Spec
  /\ WF_vars(Callback)
  /\ \A t \in Thread : WF_vars(Run(t))

-----------------------------------------------------------------------------
(* Properties                                                              *)

Quiet == listening /\ events = <<>> /\ \A t \in Thread : At(t, "idle")

\* The core never takes a tunnel for its default interface, above all not its own TUN,
\* which Android reports like any other network.  When all callbacks have run, the core's
\* default interface and its metering, in the monitor and in the list of interfaces, are
\* those of Android's default network: events queued behind a slow report, interfaces that
\* come and go during it, losses.  Not if the last report found no interface, which nothing
\* reports later; so it is while the TUN is the default network: the core keeps the
\* interface it had, whatever happens below.  Not if it ran next to another one; and the
\* list is the old one if its scan failed.
FollowsNetwork ==
  /\ defaultInterface \notin Hidden
  /\ Quiet /\ ~missed /\ ~raced =>
       /\ defaultInterface = current
       /\ current # NoIface =>
            /\ isExpensive <=> current \in metered
            /\ ~stale => (current \in costly <=> current \in metered)

\* The subscribers know the default interface, although a report of the same interface
\* calls nobody, and also if they registered during a report.  (Two reports at once can
\* leave a subscriber with the other one's interface, for as long as the same interface is
\* reported.)
SubscribersAgree ==
  Quiet /\ ~everRaced =>
    \A s \in Subscriber : callbacks[s] = "on" => told[s] = defaultInterface

\* No callback is stuck behind an interface that never gets ready: the
\* connectivity thread comes back for the events that wait.
CallbacksRun == (events # <<>>) ~> (events = <<>>)
=============================================================================
