--------------------------- MODULE CommandClient ----------------------------
(***************************************************************************)
(* libbox's CommandClient: one client object that several threads of the   *)
(* app use at once, to connect and disconnect, to subscribe to streams and *)
(* to call the daemon.                                                     *)
(*                                                                         *)
(* clientMutex is held while the client dials, for as long as its attempts *)
(* take, and never during a call, a stream or a callback to the handler.   *)
(* Connections are numbered; a context has the number of the connection it *)
(* was made with.  gRPC is modelled from how the code uses it: what uses a *)
(* closed connection, a cancelled context or a stopped server fails, and   *)
(* any call may.                                                           *)
(***************************************************************************)
EXTENDS Integers, Sequences, FiniteSets

CONSTANTS
  Caller,      \* threads of the app
  NoCaller,
  Commands,    \* options.commands: the streams to subscribe to, in order
  Attempts,    \* commandClientDialAttempts (10 in the code)
  Kinds,       \* values of standalone to consider
  Dialers,     \* ways to connect to consider
  MaxOps,      \* bound: operations of the callers
  MaxStops     \* bound: times the server stops

Known == {"log", "status", "group", "clashMode", "connections"}

ASSUME CallerAssumption == NoCaller \notin Caller
ASSUME CommandsAssumption == Commands \in Seq(STRING)
ASSUME BoundsAssumption == Attempts \in Nat \ {0} /\ {MaxOps, MaxStops} \subseteq Nat
ASSUME KindsAssumption == Kinds \subseteq BOOLEAN /\ Dialers \subseteq {"connect", "connectFD"}

VARIABLES
  standalone,
  fixAndroidStack,    \* sFixAndroidStack
  grpcConn, grpcClient,  \* a connection, and the client made for one; 0 = nil
  ctx,                \* 0 = nil
  cancelled,          \* contexts
  open,               \* connections that have not been closed
  nextConn,
  lock,               \* who holds clientMutex for writing
  caller,             \* [Caller -> what the thread is doing]
  streams,            \* [Stream -> what the goroutine is doing]
  told,               \* the handler's last word: Connected or Disconnected
  serverUp,
  link,               \* [Conn -> "dial", or "fd" for one over a file descriptor of the app,
                      \* which is "spent" when its server has stopped]
  down,               \* observability: the connection was closed, not replaced
  ops, stops

config  == <<standalone, fixAndroidStack>>
client  == <<grpcConn, grpcClient, ctx, cancelled, open, nextConn, down>>
server  == <<serverUp, stops, link>>
vars    == <<config, client, lock, caller, streams, told, server, ops>>

None == 0
Conn == 1 .. MaxOps

\* the goroutine that the Connect of connection n starts for the i-th command
Stream == Conn \X DOMAIN Commands
Command(s) == Commands[s[2]]

Idle == [at |-> "idle", conn |-> None, left |-> 0]
CallerState ==
  {Idle}
  \cup [at : {"connect", "connectFD", "disconnect", "get", "relock", "close"}, conn : {None}, left : {0}]
  \cup [at : {"dialConnect", "dialCall"}, conn : Conn, left : 1 .. Attempts]
  \cup [at : {"connected", "dispatch", "call"}, conn : Conn, left : {0}]

\* broken = the server stopped under the stream, farewells = its Disconnected calls,
\* init = what the goroutine that tells the handler the clash modes has to tell
NoStream == [at |-> "none", conn |-> None, ctx |-> None, broken |-> FALSE,
             farewells |-> 0, init |-> "none"]
StreamState ==
  {NoStream} \cup
  [at : {"start", "modes", "subscribe", "level", "receive", "end"},
   conn : 0 .. MaxOps, ctx : 0 .. MaxOps, broken : BOOLEAN, farewells : 0 .. 2,
   init : {"none", "some", "empty"}]

TypeOK ==
  /\ {standalone, fixAndroidStack, serverUp, down} \subseteq BOOLEAN
  /\ {grpcConn, grpcClient, ctx} \subseteq 0 .. MaxOps
  /\ cancelled \subseteq Conn /\ open \subseteq Conn
  /\ nextConn \in 1 .. MaxOps + 1
  /\ lock \in Caller \cup {NoCaller}
  /\ caller \in [Caller -> CallerState]
  /\ streams \in [Stream -> StreamState]
  /\ told \in {"nothing", "connected", "disconnected"}
  /\ link \in [Conn -> {"dial", "fd", "spent"}]
  /\ ops \in 0 .. MaxOps /\ stops \in 0 .. MaxStops

Init ==
  /\ standalone \in Kinds /\ fixAndroidStack \in BOOLEAN
  /\ grpcConn = None /\ grpcClient = None /\ ctx = None
  /\ cancelled = {} /\ open = {} /\ nextConn = 1 /\ down = FALSE
  /\ lock = NoCaller
  /\ caller = [c \in Caller |-> Idle]
  /\ streams = [s \in Stream |-> NoStream]
  /\ told = "nothing"
  /\ serverUp \in BOOLEAN /\ stops = 0 /\ link = [n \in Conn |-> "dial"]
  /\ ops = 0

-----------------------------------------------------------------------------
(* Callers                                                                 *)

At(c, step) == caller[c].at = step
Becomes(c, state) == caller' = [caller EXCEPT ![c] = state]
Goto(c, step, n) == Becomes(c, [at |-> step, conn |-> n, left |-> 0])
Ends(c) == Becomes(c, Idle)

Free == lock = NoCaller

\* A caller enters an operation.  A stand-alone client has no handler: it calls.
Enters(c, step) ==
  /\ At(c, "idle") /\ ops < MaxOps
  /\ ops' = ops + 1
  /\ Goto(c, step, None)
  /\ UNCHANGED <<config, client, lock, streams, told, server>>

Begin(c, step) == Enters(c, step) /\ (step \in Dialers => ~standalone)

\* SelectOutbound, URLTest and the other calls of the daemon, each of which is a
\* callWithResult of one request; a failure leaves no result
BeginCall(c) == Enters(c, "get")

\* dialWithRetry, its first lines: grpc.NewClient, under the lock
Dialling(c, step, stillOpen) ==
  /\ lock' = c
  /\ open' = stillOpen \cup {nextConn} /\ nextConn' = nextConn + 1
  /\ Becomes(c, [at |-> step, conn |-> nextConn, left |-> Attempts])

\* Connect takes the lock and closes the connection there was
Connect(c) ==
  /\ At(c, "connect") /\ Free
  /\ Dialling(c, "dialConnect", open \ {grpcConn})
  /\ down' = TRUE
  /\ UNCHANGED <<config, grpcConn, grpcClient, ctx, cancelled, streams, told, server, ops>>

\* ConnectWithFD does the same over a connection that the app has made; a descriptor that
\* is none, or a client that cannot be made, ends it with the old connection closed
ConnectWithFD(c) ==
  /\ At(c, "connectFD") /\ Free
  /\ \/ /\ Dialling(c, "dialConnect", open \ {grpcConn})
        /\ link' = [link EXCEPT ![nextConn] = IF serverUp THEN "fd" ELSE "spent"]
     \/ /\ open' = open \ {grpcConn} /\ Ends(c)
        /\ UNCHANGED <<lock, nextConn, link>>
  /\ down' = TRUE
  /\ UNCHANGED <<config, grpcConn, grpcClient, ctx, cancelled, streams, told, serverUp, stops,
                 ops>>

\* getClientForCall under the read lock
GetClient(c) ==
  /\ At(c, "get") /\ Free
  /\ IF grpcClient # None THEN Goto(c, "call", grpcClient) ELSE Goto(c, "relock", None)
  /\ UNCHANGED <<config, client, lock, streams, told, server, ops>>

BugMustDial == TRUE   \* the second look at grpcClient is missing

MustDial == grpcClient = None

\* ... and under the write lock, between which another caller may have connected
GetClientLocked(c) ==
  /\ At(c, "relock") /\ Free
  /\ IF MustDial
     THEN Dialling(c, "dialCall", open)
     ELSE Goto(c, "call", grpcClient) /\ UNCHANGED <<lock, open, nextConn>>
  /\ UNCHANGED <<config, grpcConn, grpcClient, ctx, cancelled, down, streams, told,
                 server, ops>>

BugReleased(c) == c   \* no Unlock on the way out

Released(c) == NoCaller

BugMoreAttempts(left) == left >= 1   \* one attempt too many

MoreAttempts(left) == left > 1

\* one more attempt of dialWithRetry has timed out or failed; after the last one
\* the new connection is closed, and the client keeps what it had
AttemptFails(c) ==
  /\ At(c, "dialConnect") \/ At(c, "dialCall")
  /\ IF MoreAttempts(caller[c].left)
     THEN /\ caller' = [caller EXCEPT ![c].left = @ - 1]
          /\ UNCHANGED <<lock, open>>
     ELSE /\ Ends(c)
          /\ lock' = Released(c)
          /\ open' = open \ {caller[c].conn}
  /\ UNCHANGED <<config, grpcConn, grpcClient, ctx, cancelled, nextConn, down, streams,
                 told, server, ops>>

\* the server answered: the client takes the new connection over
AttemptSucceeds(c) ==
  /\ At(c, "dialConnect") \/ At(c, "dialCall")
  /\ serverUp /\ link[caller[c].conn] # "spent"
  /\ LET n == caller[c].conn
     IN /\ grpcConn' = n /\ grpcClient' = n
        /\ ctx' = IF At(c, "dialConnect") \/ ctx = None THEN n ELSE ctx
        /\ Goto(c, IF At(c, "dialConnect") THEN "connected" ELSE "call", n)
  /\ lock' = NoCaller
  /\ down' = FALSE
  /\ UNCHANGED <<config, cancelled, open, nextConn, streams, told, server, ops>>

\* handler.Connected(), without the lock
Connected(c) ==
  /\ At(c, "connected")
  /\ told' = "connected"
  /\ Goto(c, "dispatch", caller[c].conn)
  /\ UNCHANGED <<config, client, lock, streams, server, ops>>

\* dispatchCommands: an unknown command ends it, behind those it has started
Dispatched == {i \in DOMAIN Commands : \A k \in 1 .. i : Commands[k] \in Known}

DispatchCommands(c) ==
  /\ At(c, "dispatch")
  /\ streams' = [s \in Stream |->
       IF s[1] = caller[c].conn /\ s[2] \in Dispatched
       THEN [NoStream EXCEPT !.at = "start"] ELSE streams[s]]
  /\ Ends(c)
  /\ UNCHANGED <<config, client, lock, told, server, ops>>

\* cancel and Close, nothing is reset
Disconnect(c) ==
  /\ At(c, "disconnect") /\ Free
  /\ cancelled' = cancelled \cup ({ctx} \ {None})
  /\ open' = open \ {grpcConn}
  /\ down' = TRUE
  /\ Ends(c)
  /\ UNCHANGED <<config, grpcConn, grpcClient, ctx, nextConn, lock, streams, told,
                 server, ops>>

BugAfterCall == Idle   \* closeConnection is not deferred

AfterCall == IF standalone THEN [Idle EXCEPT !.at = "close"] ELSE Idle

\* callWithResult: the call ends, with a result or an error
CallReturns(c) ==
  /\ At(c, "call")
  /\ Becomes(c, AfterCall)
  /\ UNCHANGED <<config, client, lock, streams, told, server, ops>>

BugClientAfterClose == grpcClient   \* grpcClient = nil is missing

ClientAfterClose == None

\* closeConnection, whosever connection it is by now
CloseConnection(c) ==
  /\ At(c, "close") /\ Free
  /\ IF grpcConn # None
     THEN /\ open' = open \ {grpcConn}
          /\ grpcConn' = None /\ grpcClient' = ClientAfterClose
          /\ down' = FALSE
     ELSE UNCHANGED <<open, grpcConn, grpcClient, down>>
  /\ Ends(c)
  /\ UNCHANGED <<config, ctx, cancelled, nextConn, lock, streams, told, server, ops>>

-----------------------------------------------------------------------------
(* Streams                                                                 *)

Doing(s, step) == streams[s].at = step
InCall(s) == streams[s].at \in {"modes", "subscribe", "level"}

Reachable(s) ==
  /\ streams[s].conn \in open /\ link[streams[s].conn] # "spent"
  /\ streams[s].ctx \notin cancelled
  /\ serverUp

BugFinished(state) == [state EXCEPT !.farewells = 1]   \* no return after Disconnected()

Finished(state) == [state EXCEPT !.at = "end", !.farewells = @ + 1]

BugFarewell(s, state) ==   \* a stream that ends tells nobody
  streams' = [streams EXCEPT ![s] = [state EXCEPT !.at = "end"]] /\ UNCHANGED told

\* handler.Disconnected and return
Farewell(s, state) ==
  streams' = [streams EXCEPT ![s] = Finished(state)] /\ told' = "disconnected"

\* getStreamContext: whatever connection the client has by now
StreamStart(s) ==
  /\ Doing(s, "start") /\ Free
  /\ streams' = [streams EXCEPT ![s].conn = grpcClient, ![s].ctx = ctx,
       ![s].at = IF Command(s) = "clashMode" THEN "modes" ELSE "subscribe"]
  /\ UNCHANGED <<config, client, lock, caller, told, server, ops>>

\* a subscription or a call fails
StreamFails(s) ==
  /\ InCall(s)
  /\ Farewell(s, streams[s])
  /\ UNCHANGED <<config, client, lock, caller, server, ops>>

BugAfterModes(modes) == "subscribe"   \* the second test of the length is missing

AfterModes(modes) == IF modes = "some" THEN "subscribe" ELSE "end"

\* GetClashModeStatus answers, with modes or without.  InitializeClashMode, and
\* the farewell when there are none, are a goroutine's with sFixAndroidStack.
StreamModes(s, modes) ==
  /\ Doing(s, "modes") /\ Reachable(s)
  /\ LET next == [streams[s] EXCEPT !.at = AfterModes(modes)]
     IN IF ~fixAndroidStack /\ modes = "empty"
        THEN Farewell(s, next)
        ELSE /\ streams' = [streams EXCEPT ![s] =
                  [next EXCEPT !.init = IF fixAndroidStack THEN modes ELSE "none"]]
             /\ UNCHANGED told
  /\ UNCHANGED <<config, client, lock, caller, server, ops>>

\* the goroutine of sFixAndroidStack, which may be late
InitializeModes(s) ==
  /\ streams[s].init # "none"
  /\ LET done == [streams[s] EXCEPT !.init = "none"]
     IN IF streams[s].init = "empty"
        THEN Farewell(s, done)
        ELSE streams' = [streams EXCEPT ![s] = done] /\ UNCHANGED told
  /\ UNCHANGED <<config, client, lock, caller, server, ops>>

\* Subscribe... answers
StreamSubscribed(s) ==
  /\ Doing(s, "subscribe") /\ Reachable(s)
  /\ streams' = [streams EXCEPT ![s].at =
       IF Command(s) = "log" THEN "level" ELSE "receive"]
  /\ UNCHANGED <<config, client, lock, caller, told, server, ops>>

\* GetDefaultLogLevel answers
StreamLevel(s) ==
  /\ Doing(s, "level") /\ Reachable(s)
  /\ streams' = [streams EXCEPT ![s].at = "receive"]
  /\ UNCHANGED <<config, client, lock, caller, told, server, ops>>

\* stream.Recv returns an error
StreamLost(s) ==
  /\ Doing(s, "receive")
  /\ ~Reachable(s) \/ streams[s].broken
  /\ Farewell(s, streams[s])
  /\ UNCHANGED <<config, client, lock, caller, server, ops>>

-----------------------------------------------------------------------------
(* The daemon                                                              *)

ServerStop ==
  /\ serverUp /\ stops < MaxStops
  /\ serverUp' = FALSE /\ stops' = stops + 1
  /\ link' = [n \in Conn |-> IF link[n] = "fd" THEN "spent" ELSE link[n]]
  /\ streams' = [s \in Stream |->
       IF streams[s].at \in {"level", "receive"} THEN [streams[s] EXCEPT !.broken = TRUE]
                                                 ELSE streams[s]]
  /\ UNCHANGED <<config, client, lock, caller, told, ops>>

ServerStart ==
  /\ ~serverUp /\ serverUp' = TRUE
  /\ UNCHANGED <<config, client, lock, caller, streams, told, stops, link, ops>>

-----------------------------------------------------------------------------
Operation(c) ==
  \/ Connect(c) \/ ConnectWithFD(c) \/ Connected(c) \/ DispatchCommands(c) \/ Disconnect(c)
  \/ GetClient(c) \/ GetClientLocked(c)
  \/ AttemptFails(c) \/ AttemptSucceeds(c)
  \/ CallReturns(c) \/ CloseConnection(c)

\* handleLogStream, handleStatusStream, handleGroupStream: a loop around Recv behind the
\* subscription, and behind the log's level
HandleStream(s) ==
  /\ Command(s) # "clashMode"
  /\ StreamStart(s) \/ StreamFails(s) \/ StreamSubscribed(s) \/ StreamLevel(s) \/ StreamLost(s)

HandleClashModeStream(s) ==
  /\ Command(s) = "clashMode"
  /\ \/ StreamStart(s) \/ StreamFails(s)
     \/ \E modes \in {"some", "empty"} : StreamModes(s, modes)
     \/ StreamSubscribed(s) \/ StreamLost(s)

Goroutine(s) == HandleStream(s) \/ HandleClashModeStream(s)

Next ==
  \/ \E c \in Caller, step \in Dialers \cup {"disconnect"} : Begin(c, step)
  \/ \E c \in Caller : BeginCall(c) \/ Operation(c)
  \/ \E s \in Stream : Goroutine(s) \/ InitializeModes(s)
  \/ ServerStop \/ ServerStart

Spec == Init /\ [][Next]_vars

\* Go runs every goroutine, and lets no one wait for a mutex for ever; an attempt
\* to dial has a deadline; a call is answered or fails (its context has none).
\* Nothing is asked of the callers and of the server.
FairSpec ==
  /\ Spec
  /\ \A c \in Caller : WF_vars(Operation(c))
  /\ \A s \in Stream : WF_vars(Goroutine(s)) /\ WF_vars(InitializeModes(s))

-----------------------------------------------------------------------------
(* Properties                                                              *)

\* No connection is leaked: every one that is open is the client's, or being
\* dialled by whoever holds the lock.  Two first calls at a time must not both dial.
NoLeak ==
  \A n \in open : n = grpcConn \/ (lock # NoCaller /\ caller[lock].conn = n)

\* getClientForCall never hands out a client whose connection is closed, unless
\* the app disconnected, or failed to connect again (it then does, until the next
\* Connect).  A stand-alone client heals itself.
ClientIsOpen == Free /\ ~down => grpcClient \in open \cup {None}

\* A stand-alone client has no connection when nobody calls, in whichever order
\* calls that shared one ended and closed it.
QuietClosed ==
  standalone /\ (\A c \in Caller : At(c, "idle")) => open = {}

\* Each stream tells the handler exactly once that it ended.
Over(s) == Doing(s, "end") /\ streams[s].init = "none"
OneFarewell ==
  \A s \in Stream :
    streams[s].farewells = IF Doing(s, "end") /\ streams[s].init # "empty" THEN 1 ELSE 0

\* When everything has ended, the last the handler heard is Disconnected: no
\* Connected overtakes the farewells of its own streams.
NothingRuns ==
  /\ \A c \in Caller : At(c, "idle")
  /\ \A s \in Stream : Doing(s, "none") \/ Over(s)
LastWord == NothingRuns /\ Dispatched # {} => told # "connected"

\* Every operation returns, although others dial under the lock.
OperationsReturn == \A c \in Caller : ~At(c, "idle") ~> At(c, "idle")

\* After Disconnect every stream ends, also one that has not begun, unless the
\* client connects again.
StreamsEnd ==
  \A s \in Stream :
    (down /\ ~Doing(s, "none") /\ ~Over(s)) ~> (Over(s) \/ ~down)
=============================================================================
