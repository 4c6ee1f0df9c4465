------------------------- MODULE CommandClientProofs -------------------------
(* What holds of CommandClient for every number of callers, commands and    *)
(* attempts.                                                                *)
EXTENDS CommandClient, FiniteSetTheorems, TLAPS

Dials(c) == At(c, "dialConnect") \/ At(c, "dialCall")

Step == {"idle", "connect", "connectFD", "disconnect", "get", "relock", "close", "dialConnect",
         "dialCall", "connected", "dispatch", "call"}

\* Callers are functions of steps, connections are numbered upwards
Callers ==
  /\ caller \in [Caller -> [at : Step, conn : Nat, left : Int]]
  /\ nextConn \in Nat \ {0} /\ grpcConn \in Nat
  /\ \A n \in open : n \in Nat \ {0}

\* Who holds the lock is who dials.  The connection it dials is then the only open
\* one: Connect has closed the client's, and a call dials when there is none.
LockInv ==
  /\ \A c \in Caller : lock = c <=> Dials(c)
  /\ lock \in Caller \cup {NoCaller}
  /\ IF Free THEN open \subseteq {grpcConn}
             ELSE open \subseteq {caller[lock].conn}
  /\ grpcClient = grpcConn
  /\ Free /\ ~down => grpcConn \in open \cup {None}
  /\ \A c \in Caller : At(c, "dialConnect") => down
  /\ \A c \in Caller : At(c, "dialCall") => grpcConn = None

\* The connection being dialled is open.
OpenHeld == \A c \in Caller : Dials(c) => caller[c].conn \in open

\* A stand-alone client only calls, and someone will close what is open.
AloneInv ==
  standalone =>
    /\ \A c \in Caller : caller[c].at \notin {"connect", "connectFD", "dialConnect", "connected", "dispatch"}
    /\ open # {} => \E c \in Caller : caller[c].at \in {"dialCall", "call", "close"}

ClientInv == Callers /\ LockInv /\ OpenHeld /\ AloneInv


\* A caller moves on, without dialling before or after
LEMMA CallerMoves ==
  ASSUME Callers, LockInv, NEW c \in Caller, NEW s \in [at : Step, conn : Nat, left : Int],
         ~Dials(c), s.at \notin {"dialConnect", "dialCall"},
         caller' = [caller EXCEPT ![c] = s],
         UNCHANGED <<grpcConn, grpcClient, open, nextConn, down, lock>>
  PROVE  Callers' /\ LockInv'
<1>1. \A d \in Caller : caller'[d] = IF d = c THEN s ELSE caller[d]
  BY DEF Callers
<1>2. Callers'
  BY DEF Callers
<1>3. lock # c
  BY DEF LockInv
<1>4. \A d \in Caller : Dials(d)' <=> Dials(d)
  BY <1>1 DEF Dials, At
<1>5. (IF Free THEN open \subseteq {grpcConn} ELSE open \subseteq {caller[lock].conn})'
  BY <1>1, <1>3 DEF LockInv, Free
<1>6. /\ \A d \in Caller : At(d, "dialConnect")' => down'
      /\ \A d \in Caller : At(d, "dialCall")' => grpcConn' = None
  BY <1>1 DEF LockInv, At
<1> QED
  BY <1>2, <1>4, <1>5, <1>6 DEF LockInv, Free

\* Someone takes the free lock to dial, with nothing else open
LEMMA DiallingStarts ==
  ASSUME Callers, LockInv, NEW c \in Caller, NEW step \in {"dialConnect", "dialCall"},
         Free, ~Dials(c), NEW rest, rest = {},
         Dialling(c, step, rest), UNCHANGED <<grpcConn, grpcClient>>,
         step = "dialConnect" => down', step = "dialCall" => grpcConn = None
  PROVE  Callers' /\ LockInv'
<1> DEFINE s == [at |-> step, conn |-> nextConn, left |-> Attempts]
<1>1. \A d \in Caller : caller'[d] = IF d = c THEN s ELSE caller[d]
  BY DEF Callers, Dialling, Becomes
<1>2. lock' = c /\ open' = {nextConn} /\ nextConn' = nextConn + 1
  BY DEF Dialling
<1>3. Callers'
  <2>1. s \in [at : Step, conn : Nat, left : Int]
    BY BoundsAssumption DEF Step, Callers
  <2> QED
    BY <1>2, <2>1 DEF Callers, Dialling, Becomes
<1>4. \A d \in Caller : ~Dials(d)
  BY CallerAssumption DEF LockInv, Free
<1>5. \A d \in Caller : Dials(d)' <=> d = c
  BY <1>1, <1>4 DEF Dials, At
<1>6. ~Free' /\ caller'[c].conn = nextConn
  BY <1>1, <1>2, CallerAssumption DEF Free
<1>7. /\ \A d \in Caller : At(d, "dialConnect")' => down'
      /\ \A d \in Caller : At(d, "dialCall")' => grpcConn' = None
  BY <1>1, <1>4 DEF At, Dials
<1> QED
  BY <1>2, <1>3, <1>5, <1>6, <1>7 DEF LockInv

\* Whoever dials succeeds, or gives up: the lock is free again.
LEMMA DiallingEnds ==
  ASSUME Callers, LockInv, NEW c \in Caller, Dials(c),
         NEW s \in [at : Step, conn : Nat, left : Int],
         s.at \notin {"dialConnect", "dialCall"}, caller' = [caller EXCEPT ![c] = s],
         lock' = NoCaller, UNCHANGED nextConn,
         \/ /\ open' = open \ {caller[c].conn}
            /\ UNCHANGED <<grpcConn, grpcClient, down>>
         \/ /\ UNCHANGED open
            /\ grpcConn' = caller[c].conn /\ grpcClient' = caller[c].conn /\ down' = FALSE
            /\ caller[c].conn \in open
  PROVE  Callers' /\ LockInv'
<1>1. \A d \in Caller : caller'[d] = IF d = c THEN s ELSE caller[d]
  BY DEF Callers
<1>2. lock = c /\ ~Free /\ open \subseteq {caller[c].conn} /\ caller[c].conn \in Nat
  BY CallerAssumption DEF LockInv, Free, Callers
<1>3. \A d \in Caller : ~Dials(d)'
  BY <1>1, <1>2 DEF LockInv, Dials, At
<1>4. Callers'
  BY <1>2 DEF Callers
<1>5. Free' /\ \A d \in Caller : lock' # d
  BY CallerAssumption DEF Free
<1>6. (IF Free THEN open \subseteq {grpcConn} ELSE open \subseteq {caller[lock].conn})'
  BY <1>2, <1>5 DEF Free
<1>7. (Free /\ ~down => grpcConn \in open \cup {None})'
  <2>1. CASE open' = open \ {caller[c].conn} /\ UNCHANGED <<grpcConn, grpcClient, down>>
    BY <2>1 DEF LockInv, Dials
  <2>2. CASE grpcConn' = caller[c].conn /\ UNCHANGED open /\ caller[c].conn \in open
    BY <2>2
  <2> QED
    BY <2>1, <2>2
<1>8. /\ \A d \in Caller : ~At(d, "dialConnect")'
      /\ \A d \in Caller : ~At(d, "dialCall")'
  BY <1>3 DEF Dials, At
<1>9. grpcClient' = grpcConn'
  BY DEF LockInv
<1> QED
  BY <1>3, <1>4, <1>5, <1>6, <1>7, <1>8, <1>9 DEF LockInv

\* With the lock free, the client's connection is closed.
LEMMA Closing ==
  ASSUME Callers, LockInv, NEW c \in Caller, Free, ~Dials(c),
         caller' = [caller EXCEPT ![c] = Idle], open' = open \ {grpcConn},
         UNCHANGED <<nextConn, lock>>,
         \/ down' /\ UNCHANGED <<grpcConn, grpcClient>>
         \/ grpcConn' = None /\ grpcClient' = None
  PROVE  Callers' /\ LockInv' /\ open' = {}
<1>1. \A d \in Caller : caller'[d] = IF d = c THEN Idle ELSE caller[d]
  BY DEF Callers
<1>2. open' = {} /\ Free'
  BY DEF LockInv, Free
<1>3. Callers'
  BY <1>2 DEF Callers, Idle, None, Step
<1>4. \A d \in Caller : Dials(d)' <=> Dials(d)
  BY <1>1 DEF Dials, At, Idle
<1>5. \A d \in Caller : ~Dials(d)
  BY CallerAssumption DEF LockInv, Free
<1>6. /\ \A d \in Caller : ~At(d, "dialConnect")'
      /\ \A d \in Caller : ~At(d, "dialCall")'
  BY <1>4, <1>5 DEF Dials, At
<1> QED
  BY <1>2, <1>3, <1>4, <1>6 DEF LockInv, Free

\* Every step of a caller keeps the lock's invariant.
LEMMA OperationKeeps ==
  ASSUME Callers, LockInv, NEW c \in Caller, Operation(c), OpenHeld
  PROVE  Callers' /\ LockInv'
<1> DEFINE State == [at : Step, conn : Nat, left : Int]
<1>0. Idle \in State /\ caller[c] \in State /\ grpcClient \in Nat /\ caller[c].conn \in Nat
  BY DEF Idle, Callers, None, LockInv, Step
<1>1. CASE Connect(c)
  <2>1. Free /\ ~Dials(c) /\ open \ {grpcConn} = {}
    BY <1>1 DEF Connect, Dials, At, LockInv
  <2> QED
    BY <1>1, <2>1, DiallingStarts DEF Connect
<1>2. CASE Connected(c) \/ DispatchCommands(c) \/ CallReturns(c) \/ GetClient(c)
  <2>1. PICK s \in State : s.at \notin {"dialConnect", "dialCall"}
                           /\ caller' = [caller EXCEPT ![c] = s]
    <3>0. \A t \in Step, n \in Nat : [at |-> t, conn |-> n, left |-> 0] \in State
      OBVIOUS
    <3>1. CASE Connected(c)
      <4>1. caller' = [caller EXCEPT ![c] = [at |-> "dispatch", conn |-> caller[c].conn,
                                             left |-> 0]]
        BY <3>1 DEF Connected, Goto, Becomes
      <4> QED
        BY <1>0, <3>0, <4>1 DEF Step
    <3>2. CASE DispatchCommands(c)
      BY <1>0, <3>2 DEF DispatchCommands, Ends, Becomes, Idle
    <3>3. CASE CallReturns(c)
      BY <1>0, <3>3 DEF CallReturns, AfterCall, Becomes, Idle, None, Step
    <3>4. CASE GetClient(c)
      <4>1. \/ caller' = [caller EXCEPT ![c] = [at |-> "call", conn |-> grpcClient, left |-> 0]]
            \/ caller' = [caller EXCEPT ![c] = [at |-> "relock", conn |-> 0, left |-> 0]]
        BY <3>4 DEF GetClient, Goto, Becomes, None
      <4> QED
        BY <1>0, <3>0, <4>1 DEF Step
    <3> QED
      BY <1>2, <3>1, <3>2, <3>3, <3>4
  <2>2. ~Dials(c) /\ UNCHANGED <<grpcConn, grpcClient, open, nextConn, down, lock>>
    BY <1>2 DEF Connected, DispatchCommands, CallReturns, GetClient, client, Dials, At
  <2> QED
    BY <2>1, <2>2, CallerMoves
<1>3. CASE GetClientLocked(c)
  <2>1. CASE MustDial
    <3>1. Free /\ ~Dials(c) /\ grpcConn = None /\ open = {}
      BY <1>3, <2>1 DEF GetClientLocked, Dials, At, LockInv, MustDial, Callers, None
    <3> QED
      BY <1>3, <2>1, <3>1, DiallingStarts DEF GetClientLocked
  <2>2. CASE ~MustDial
    <3> DEFINE s == [at |-> "call", conn |-> grpcClient, left |-> 0]
    <3>1. s \in State
      BY <1>0 DEF Step
    <3>2. /\ ~Dials(c) /\ caller' = [caller EXCEPT ![c] = s]
          /\ UNCHANGED <<grpcConn, grpcClient, open, nextConn, down, lock>>
      BY <1>3, <2>2 DEF GetClientLocked, Dials, At, Goto, Becomes
    <3> QED
      BY <3>1, <3>2, CallerMoves
  <2> QED
    BY <2>1, <2>2
<1>4. CASE AttemptFails(c)
  <2>1. Dials(c)
    BY <1>4 DEF AttemptFails, Dials
  <2>2. CASE MoreAttempts(caller[c].left)
    <3>1. \A d \in Caller : /\ d # c => caller'[d] = caller[d]
                            /\ caller'[d].at = caller[d].at /\ caller'[d].conn = caller[d].conn
      BY <1>0, <1>4, <2>2 DEF AttemptFails, Callers
    <3>2. UNCHANGED <<grpcConn, grpcClient, open, nextConn, down, lock>>
      BY <1>4, <2>2 DEF AttemptFails
    <3>3. Callers'
      BY <1>0, <1>4, <2>2, <3>2 DEF AttemptFails, Callers
    <3>4. \A d \in Caller : Dials(d)' <=> Dials(d)
      BY <3>1 DEF Dials, At
    <3>5. (IF Free THEN open \subseteq {grpcConn} ELSE open \subseteq {caller[lock].conn})'
      BY <3>1, <3>2 DEF LockInv, Free
    <3> QED
      BY <3>1, <3>2, <3>3, <3>4, <3>5 DEF LockInv, At, Free
  <2>3. CASE ~MoreAttempts(caller[c].left)
    <3>1. /\ caller' = [caller EXCEPT ![c] = Idle] /\ lock' = NoCaller
          /\ open' = open \ {caller[c].conn}
          /\ UNCHANGED <<grpcConn, grpcClient, nextConn, down>>
      BY <1>4, <2>3 DEF AttemptFails, Ends, Becomes, Released
    <3> QED
      BY <1>0, <2>1, <3>1, DiallingEnds DEF Idle
  <2> QED
    BY <2>2, <2>3
<1>5. CASE AttemptSucceeds(c)
  <2>1. Dials(c)
    BY <1>5 DEF AttemptSucceeds, Dials
  <2>2. caller[c].conn \in open
    BY <2>1 DEF OpenHeld
  <2> DEFINE s == [at |-> IF At(c, "dialConnect") THEN "connected" ELSE "call",
                   conn |-> caller[c].conn, left |-> 0]
  <2>3. s \in State /\ s.at \notin {"dialConnect", "dialCall"}
    BY <1>0 DEF Step
  <2>4. /\ caller' = [caller EXCEPT ![c] = s] /\ lock' = NoCaller
        /\ grpcConn' = caller[c].conn /\ grpcClient' = caller[c].conn /\ down' = FALSE
        /\ UNCHANGED <<open, nextConn>>
    BY <1>5 DEF AttemptSucceeds, Goto, Becomes
  <2> QED
    BY <2>1, <2>2, <2>3, <2>4, DiallingEnds
<1>6. CASE Disconnect(c)
  BY <1>6, Closing DEF Disconnect, Ends, Becomes, Dials, At
<1>8. CASE ConnectWithFD(c)
  <2>1. Free /\ ~Dials(c) /\ open \ {grpcConn} = {} /\ down' /\ UNCHANGED <<grpcConn, grpcClient>>
    BY <1>8 DEF ConnectWithFD, Dials, At, LockInv
  <2>2. CASE Dialling(c, "dialConnect", open \ {grpcConn})
    BY <2>1, <2>2, DiallingStarts
  <2>3. CASE open' = open \ {grpcConn} /\ Ends(c) /\ UNCHANGED <<lock, nextConn>>
    BY <2>1, <2>3, Closing DEF Ends, Becomes
  <2> QED
    BY <1>8, <2>2, <2>3 DEF ConnectWithFD
<1>7. CASE CloseConnection(c)
  <2>1. CASE grpcConn # None
    BY <1>7, <2>1, Closing DEF CloseConnection, ClientAfterClose, Ends, Becomes, Dials, At
  <2>2. CASE grpcConn = None
    BY <1>0, <1>7, <2>2, CallerMoves DEF CloseConnection, Ends, Becomes, Dials, At, Idle
  <2> QED
    BY <2>1, <2>2
<1> QED
  BY <1>1, <1>2, <1>3, <1>4, <1>5, <1>6, <1>7, <1>8 DEF Operation

\* What is open while a caller dials stays open: only the holder of the lock closes.
LEMMA OpenHeldKeeps ==
  ASSUME Callers, LockInv, OpenHeld, NEW c \in Caller, Operation(c)
  PROVE  OpenHeld'
<1>1. Free => \A d \in Caller : ~Dials(d)
  BY CallerAssumption DEF LockInv, Free
<1>2. \A d \in Caller : Dials(d) => lock = d
  BY DEF LockInv
<1>3. \A d \in Caller : d # c => caller'[d] = caller[d]
  BY DEF Operation, Connect, ConnectWithFD, Connected, DispatchCommands, Disconnect, GetClient,
     GetClientLocked, AttemptFails, AttemptSucceeds, CallReturns, CloseConnection, Dialling,
     Goto, Ends, Becomes, Callers
<1>4. CASE \/ Connect(c) \/ (GetClientLocked(c) /\ MustDial)
           \/ ConnectWithFD(c) /\ Dialling(c, "dialConnect", open \ {grpcConn})
  <2>1. caller'[c].conn = nextConn /\ nextConn \in open' /\ Free
    BY <1>4 DEF Connect, ConnectWithFD, GetClientLocked, Dialling, Becomes, Callers
  <2> QED
    BY <1>1, <1>3, <2>1 DEF OpenHeld, Dials, At
<1>5. CASE \/ Connected(c) \/ DispatchCommands(c) \/ CallReturns(c) \/ GetClient(c)
           \/ GetClientLocked(c) /\ ~MustDial
  <2>1. open' = open
    BY <1>5 DEF Connected, DispatchCommands, CallReturns, GetClient, GetClientLocked, client
  <2>2. ~Dials(c)'
    BY <1>5 DEF Connected, DispatchCommands, CallReturns, GetClient, GetClientLocked, Goto, Ends,
       Becomes, AfterCall, Idle, Callers, Dials, At
  <2> QED
    BY <1>3, <2>1, <2>2 DEF OpenHeld, Dials, At
<1>6. CASE AttemptFails(c) \/ AttemptSucceeds(c)
  <2>1. Dials(c)
    BY <1>6 DEF AttemptFails, AttemptSucceeds, Dials
  <2>2. \A d \in Caller : d # c => ~Dials(d)'
    BY <1>2, <1>3, <2>1 DEF Dials, At
  <2>3. Dials(c)' => open' = open /\ caller'[c].conn = caller[c].conn
    BY <1>6 DEF AttemptFails, AttemptSucceeds, Goto, Ends, Becomes, Idle, Callers, Dials, At
  <2> QED
    BY <2>1, <2>2, <2>3 DEF OpenHeld
<1>7. CASE Disconnect(c) \/ CloseConnection(c) \/ (ConnectWithFD(c) /\ Ends(c))
  <2>1. Free /\ ~Dials(c)'
    BY <1>7 DEF Disconnect, CloseConnection, ConnectWithFD, Ends, Becomes, Idle, Callers, Dials, At
  <2> QED
    BY <1>1, <1>3, <2>1 DEF OpenHeld, Dials, At
<1> QED
  BY <1>4, <1>5, <1>6, <1>7 DEF Operation, ConnectWithFD

\* Whoever finds the connection of a stand-alone client open will close it.
LEMMA AloneKeeps ==
  ASSUME Callers, LockInv, OpenHeld, AloneInv, NEW c \in Caller, Operation(c)
  PROVE  AloneInv'
<1> SUFFICES ASSUME standalone
             PROVE  AloneInv'
  BY DEF AloneInv, Operation, Connect, ConnectWithFD, Connected, DispatchCommands, Disconnect, GetClient,
     GetClientLocked, AttemptFails, AttemptSucceeds, CallReturns, CloseConnection, config
<1> DEFINE Ready(d) == caller[d].at \in {"dialCall", "call", "close"}
<1>1. /\ caller[c].at \notin {"connect", "connectFD", "dialConnect", "connected", "dispatch"}
      /\ open # {} => \E d \in Caller : Ready(d)
  BY DEF AloneInv
<1>2. \A d \in Caller : d # c => caller'[d] = caller[d]
  BY DEF Operation, Connect, ConnectWithFD, Connected, DispatchCommands, Disconnect, GetClient,
     GetClientLocked, AttemptFails, AttemptSucceeds, CallReturns, CloseConnection, Dialling,
     Goto, Ends, Becomes, Callers
<1>3. caller'[c].at \notin {"connect", "connectFD", "dialConnect", "connected", "dispatch"}
      /\ (open' # {} => \E d \in Caller : Ready(d)')
  <2>1. CASE GetClient(c) \/ GetClientLocked(c) \/ CallReturns(c) \/ AttemptSucceeds(c)
    <3>1. CASE GetClient(c)
      <4>1. /\ open' = open /\ ~Ready(c)
            /\ caller'[c].at \in {"call", "relock"}
        BY <3>1 DEF GetClient, Goto, Becomes, Callers, client, At
      <4> QED
        BY <1>1, <1>2, <4>1
    <3>2. CASE GetClientLocked(c) \/ CallReturns(c) \/ AttemptSucceeds(c)
      <4>1. caller'[c].at \in {"dialCall", "call", "close"}
        BY <1>1, <3>2 DEF GetClientLocked, CallReturns, AttemptSucceeds, Dialling, Goto, Becomes,
           AfterCall, Idle, Callers, At
      <4> QED
        BY <4>1
    <3> QED
      BY <2>1, <3>1, <3>2
  <2>2. CASE Disconnect(c) \/ CloseConnection(c)
    <3>1. open' = {} /\ caller'[c].at = "idle"
      BY <2>2 DEF Disconnect, CloseConnection, Ends, Becomes, Idle, LockInv, Callers, None
    <3> QED
      BY <3>1
  <2>3. CASE AttemptFails(c)
    <3>1. Dials(c) /\ caller[c].at = "dialCall" /\ lock = c /\ ~Free
      BY <1>1, <2>3, CallerAssumption DEF AttemptFails, Dials, At, LockInv, Free
    <3>2. CASE MoreAttempts(caller[c].left)
      BY <2>3, <3>1, <3>2 DEF AttemptFails, Callers
    <3>3. CASE ~MoreAttempts(caller[c].left)
      <4>1. open' = {} /\ caller'[c].at = "idle"
        BY <2>3, <3>1, <3>3 DEF AttemptFails, Ends, Becomes, Idle, LockInv, Callers
      <4> QED
        BY <4>1
    <3> QED
      BY <3>2, <3>3
  <2>4. ~Connect(c) /\ ~ConnectWithFD(c) /\ ~Connected(c) /\ ~DispatchCommands(c)
    BY <1>1 DEF Connect, ConnectWithFD, Connected, DispatchCommands, At
  <2> QED
    BY <2>1, <2>2, <2>3, <2>4 DEF Operation
<1> QED
  BY <1>2, <1>3 DEF AloneInv

\* Every step keeps the invariant.
LEMMA ClientStep == ClientInv /\ [Next]_vars => ClientInv'
<1> SUFFICES ASSUME ClientInv, [Next]_vars PROVE ClientInv'
  OBVIOUS
<1>1. ASSUME NEW c \in Caller, NEW step \in {"connect", "connectFD", "disconnect", "get"},
             Enters(c, step), step \in {"connect", "connectFD"} => ~standalone
      PROVE  ClientInv'
  <2> DEFINE s == [at |-> step, conn |-> None, left |-> 0]
  <2>1. s \in [at : Step, conn : Nat, left : Int] /\ s.at \notin {"dialConnect", "dialCall"}
    BY DEF Step, None
  <2>2. /\ caller' = [caller EXCEPT ![c] = s] /\ caller[c].at = "idle"
        /\ UNCHANGED <<grpcConn, grpcClient, open, nextConn, down, lock, standalone>>
        /\ standalone => step \notin {"connect", "connectFD"}
    BY <1>1 DEF Enters, Goto, Becomes, client, config, At
  <2>3. Callers' /\ LockInv'
    BY <2>1, <2>2, CallerMoves DEF ClientInv, Dials, At
  <2>4. \A d \in Caller : caller'[d] = IF d = c THEN s ELSE caller[d]
    BY <2>2 DEF ClientInv, Callers
  <2>5. OpenHeld' /\ AloneInv'
    BY <2>2, <2>4 DEF ClientInv, OpenHeld, AloneInv, Dials, At
  <2> QED
    BY <2>3, <2>5 DEF ClientInv
<1>2. ASSUME NEW c \in Caller, Operation(c) PROVE ClientInv'
  BY <1>2, OperationKeeps, OpenHeldKeeps, AloneKeeps DEF ClientInv
<1>3. CASE UNCHANGED <<standalone, client, lock, caller>>
  BY <1>3 DEF ClientInv, Callers, LockInv, OpenHeld, AloneInv, Dials, At, Free, client
<1>4. ASSUME NEW s \in Stream, Goroutine(s) \/ InitializeModes(s)
      PROVE  UNCHANGED <<standalone, client, lock, caller>>
  BY <1>4 DEF Goroutine, HandleStream, HandleClashModeStream, StreamStart, StreamFails, StreamModes, StreamSubscribed, StreamLevel,
     StreamLost, InitializeModes, config
<1>5. ASSUME NEW c \in Caller, NEW step \in Dialers \cup {"disconnect"}, Begin(c, step)
      PROVE  ClientInv'
  BY <1>1, <1>5, KindsAssumption DEF Begin
<1>6. ASSUME NEW c \in Caller, BeginCall(c)
      PROVE  ClientInv'
  BY <1>1, <1>6 DEF BeginCall
<1> QED
  BY <1>2, <1>3, <1>4, <1>5, <1>6 DEF Next, ServerStop, ServerStart, config, vars

\* However callers connect, disconnect and call at the same time: no connection is
\* leaked, none is handed out closed (unless the app closed it), and a stand-alone
\* client that nobody uses has none.
THEOREM ClientSafe == Spec => [](NoLeak /\ ClientIsOpen /\ QuietClosed)
<1>1. Init => ClientInv
  BY CallerAssumption DEF Init, ClientInv, Callers, LockInv, OpenHeld, AloneInv, Dials, At, Free,
     Idle, None, Step
<1>2. ClientInv => NoLeak /\ ClientIsOpen /\ QuietClosed
  <2> SUFFICES ASSUME ClientInv PROVE NoLeak /\ ClientIsOpen /\ QuietClosed
    OBVIOUS
  <2>1. NoLeak /\ ClientIsOpen
    BY DEF ClientInv, LockInv, NoLeak, ClientIsOpen, Free
  <2>2. QuietClosed
    BY DEF ClientInv, AloneInv, QuietClosed, At
  <2> QED
    BY <2>1, <2>2
<1> QED
  BY <1>1, <1>2, ClientStep, PTL DEF Spec

-----------------------------------------------------------------------------
(* Types: connections are numbered by the operations that dial them, so that  *)
(* an operation which has not dialled yet has a number left to dial with      *)

\* An operation that may dial and has not
Undialled(state) == state.at \in {"connect", "connectFD", "disconnect", "get", "relock"}
Pending == {c \in Caller : Undialled(caller[c])}

CountInv ==
  /\ nextConn \in Nat \ {0} /\ ops \in 0 .. MaxOps
  /\ IsFiniteSet(Pending)
  /\ nextConn - 1 + Cardinality(Pending) <= ops

CallersTyped ==
  /\ caller \in [Caller -> CallerState]
  /\ {grpcConn, grpcClient, ctx} \subseteq 0 .. MaxOps
  /\ cancelled \subseteq Conn /\ open \subseteq Conn

\* The count when one caller moves: it begins, goes on, or dials.
LEMMA CountKeeps ==
  ASSUME CountInv, NEW c \in Caller, \A d \in Caller : d # c => caller'[d] = caller[d],
         \/ ops' = ops + 1 /\ ops < MaxOps /\ nextConn' = nextConn
         \/ UNCHANGED <<ops, nextConn>> /\ (Undialled(caller'[c]) => Undialled(caller[c]))
         \/ /\ ops' = ops /\ nextConn' = nextConn + 1
            /\ Undialled(caller[c]) /\ ~Undialled(caller'[c])
  PROVE  CountInv'
<1>1. /\ IsFiniteSet(Pending \cup {c}) /\ IsFiniteSet(Pending \ {c})
      /\ Cardinality(Pending \cup {c}) \in {Cardinality(Pending), Cardinality(Pending) + 1}
      /\ Cardinality(Pending \ {c}) =
           IF c \in Pending THEN Cardinality(Pending) - 1 ELSE Cardinality(Pending)
      /\ Cardinality(Pending) \in Nat
  BY FS_AddElement, FS_RemoveElement, FS_CardinalityType DEF CountInv
<1>2. Pending' = IF Undialled(caller'[c]) THEN Pending \cup {c} ELSE Pending \ {c}
  BY DEF Pending
<1>3. MaxOps \in Nat
  BY BoundsAssumption
<1>4. CASE ops' = ops + 1 /\ ops < MaxOps /\ nextConn' = nextConn
  BY <1>1, <1>2, <1>3, <1>4 DEF CountInv
<1>5. CASE UNCHANGED <<ops, nextConn>> /\ (Undialled(caller'[c]) => Undialled(caller[c]))
  <2>1. Undialled(caller'[c]) => Pending' = Pending
    BY <1>2, <1>5 DEF Pending
  <2> QED
    BY <1>1, <1>2, <1>3, <1>5, <2>1 DEF CountInv
<1>6. CASE /\ ops' = ops /\ nextConn' = nextConn + 1
           /\ Undialled(caller[c]) /\ ~Undialled(caller'[c])
  <2>1. c \in Pending
    BY <1>6 DEF Pending
  <2> QED
    BY <1>1, <1>2, <1>3, <1>6, <2>1 DEF CountInv
<1> QED
  BY <1>4, <1>5, <1>6

\* Whoever is about to dial finds a number.
LEMMA NumberLeft ==
  ASSUME CountInv, NEW c \in Caller, Undialled(caller[c])
  PROVE  nextConn \in Conn
<1>1. c \in Pending
  BY DEF Pending
<1>2. Cardinality(Pending) # 0 /\ Cardinality(Pending) \in Nat
  BY <1>1, FS_EmptySet, FS_CardinalityType DEF CountInv
<1> QED
  BY <1>2, BoundsAssumption DEF CountInv, Conn

\* What a caller's step says of its connection and its attempts
LEMMA CallerFields ==
  ASSUME NEW s \in CallerState
  PROVE  /\ s.at \in {"dialConnect", "dialCall"} => s.conn \in Conn /\ s.left \in 1 .. Attempts
         /\ s.at \in {"connected", "dispatch", "call"} => s.conn \in Conn
  BY DEF CallerState, Idle

LEMMA CallerStates ==
  /\ Idle \in CallerState
  /\ \A step \in {"connect", "connectFD", "disconnect", "get", "relock", "close"} :
       [at |-> step, conn |-> None, left |-> 0] \in CallerState
  /\ \A step \in {"dialConnect", "dialCall"}, n \in Conn, k \in 1 .. Attempts :
       [at |-> step, conn |-> n, left |-> k] \in CallerState
  /\ \A step \in {"connected", "dispatch", "call"}, n \in Conn :
       [at |-> step, conn |-> n, left |-> 0] \in CallerState
  BY DEF CallerState, None

\* Dialling takes the next number, which there is.
LEMMA DiallingTyped ==
  ASSUME CountInv, CallersTyped, NEW c \in Caller, Undialled(caller[c]),
         NEW step \in {"dialConnect", "dialCall"}, NEW rest \in SUBSET Conn,
         Dialling(c, step, rest), UNCHANGED <<grpcConn, grpcClient, ctx, cancelled, ops>>
  PROVE  CallersTyped' /\ CountInv'
<1> DEFINE s == [at |-> step, conn |-> nextConn, left |-> Attempts]
<1>1. nextConn \in Conn
  BY NumberLeft
<1>2. s \in CallerState
  BY <1>1, CallerStates, BoundsAssumption
<1>3. CallersTyped'
  BY <1>1, <1>2 DEF CallersTyped, Dialling, Becomes
<1>4. /\ \A d \in Caller : d # c => caller'[d] = caller[d]
      /\ ~Undialled(caller'[c]) /\ nextConn' = nextConn + 1
  BY DEF CallersTyped, Dialling, Becomes, Undialled
<1> QED
  BY <1>3, <1>4, CountKeeps

\* A caller goes on to another step without dialling.
LEMMA MovingTyped ==
  ASSUME CountInv, CallersTyped, NEW c \in Caller, NEW s \in CallerState,
         caller' = [caller EXCEPT ![c] = s], Undialled(s) => Undialled(caller[c]),
         {grpcConn', grpcClient', ctx'} \subseteq 0 .. MaxOps,
         cancelled' \subseteq Conn, open' \subseteq open, UNCHANGED <<nextConn, ops>>
  PROVE  CallersTyped' /\ CountInv'
<1>1. CallersTyped'
  BY DEF CallersTyped
<1>2. caller'[c] = s /\ \A d \in Caller : d # c => caller'[d] = caller[d]
  BY DEF CallersTyped
<1> QED
  BY <1>1, <1>2, CountKeeps

LEMMA OperationTyped ==
  ASSUME CountInv, CallersTyped, LockInv, NEW c \in Caller, Operation(c)
  PROVE  CallersTyped' /\ CountInv'
<1>0. /\ caller[c] \in CallerState /\ open \subseteq Conn /\ cancelled \subseteq Conn
      /\ grpcConn \in 0 .. MaxOps /\ grpcClient \in 0 .. MaxOps /\ ctx \in 0 .. MaxOps
      /\ Conn \subseteq 0 .. MaxOps /\ None \in 0 .. MaxOps
  BY BoundsAssumption DEF CallersTyped, Conn, None
<1>1. CASE Connect(c)
  BY <1>0, <1>1, DiallingTyped DEF Connect, Undialled, At
<1>2. CASE ConnectWithFD(c)
  <2>1. CASE Dialling(c, "dialConnect", open \ {grpcConn})
    BY <1>0, <1>2, <2>1, DiallingTyped DEF ConnectWithFD, Undialled, At
  <2>2. CASE open' = open \ {grpcConn} /\ Ends(c) /\ UNCHANGED nextConn
    BY <1>0, <1>2, <2>2, MovingTyped, CallerStates DEF ConnectWithFD, Ends, Becomes, Undialled, At
  <2> QED
    BY <1>2, <2>1, <2>2 DEF ConnectWithFD
<1>3. CASE GetClientLocked(c)
  <2>1. CASE MustDial
    BY <1>0, <1>3, <2>1, DiallingTyped DEF GetClientLocked, Undialled, At
  <2>2. CASE ~MustDial
    <3>1. grpcClient \in Conn
      BY <1>0, <2>2 DEF MustDial, Conn, None
    <3>2. /\ caller' = [caller EXCEPT ![c] = [at |-> "call", conn |-> grpcClient, left |-> 0]]
          /\ Undialled(caller[c])
          /\ UNCHANGED <<grpcConn, grpcClient, ctx, cancelled, open, nextConn, ops>>
      BY <1>3, <2>2 DEF GetClientLocked, Goto, Becomes, Undialled, At
    <3> QED
      BY <1>0, <3>1, <3>2, MovingTyped, CallerStates
  <2> QED
    BY <2>1, <2>2
<1>4. CASE Connected(c) \/ DispatchCommands(c) \/ GetClient(c) \/ CallReturns(c)
  <2>1. PICK s \in CallerState : caller' = [caller EXCEPT ![c] = s]
                                 /\ (Undialled(s) => Undialled(caller[c]))
    <3>1. CASE Connected(c)
      <4>1. caller[c].conn \in Conn
        BY <1>0, <3>1, CallerFields DEF Connected, At
      <4> QED
        BY <3>1, <4>1, CallerStates DEF Connected, Goto, Becomes, Undialled
    <3>2. CASE DispatchCommands(c)
      BY <3>2, CallerStates DEF DispatchCommands, Ends, Becomes, Undialled, Idle
    <3>3. CASE CallReturns(c)
      <4>1. AfterCall \in {Idle, [at |-> "close", conn |-> None, left |-> 0]}
        BY DEF AfterCall, Idle
      <4>2. AfterCall \in CallerState /\ ~Undialled(AfterCall)
        BY <4>1, CallerStates DEF Undialled, Idle
      <4> QED
        BY <3>3, <4>2 DEF CallReturns, Becomes
    <3>4. CASE GetClient(c)
      <4>1. grpcClient # None => grpcClient \in Conn
        BY <1>0 DEF Conn, None
      <4>2. Undialled(caller[c])
        BY <3>4 DEF GetClient, Undialled, At
      <4>3. \/ /\ grpcClient # None
               /\ caller' = [caller EXCEPT ![c] = [at |-> "call", conn |-> grpcClient, left |-> 0]]
            \/ caller' = [caller EXCEPT ![c] = [at |-> "relock", conn |-> None, left |-> 0]]
        BY <3>4 DEF GetClient, Goto, Becomes
      <4>4. /\ [at |-> "relock", conn |-> None, left |-> 0] \in CallerState
            /\ grpcClient # None => [at |-> "call", conn |-> grpcClient, left |-> 0] \in CallerState
        BY <4>1, CallerStates
      <4> QED
        BY <4>2, <4>3, <4>4, Zenon
    <3> QED
      BY <1>4, <3>1, <3>2, <3>3, <3>4
  <2>2. UNCHANGED <<grpcConn, grpcClient, ctx, cancelled, open, nextConn, ops>>
    BY <1>4 DEF Connected, DispatchCommands, GetClient, CallReturns, client
  <2> QED
    BY <1>0, <2>1, <2>2, MovingTyped
<1>5. CASE AttemptFails(c)
  <2>1. caller[c].at \in {"dialConnect", "dialCall"}
    BY <1>5 DEF AttemptFails, At
  <2>2. caller[c].conn \in Conn /\ caller[c].left \in 1 .. Attempts
    BY <1>0, <2>1, CallerFields
  <2>3. CASE MoreAttempts(caller[c].left)
    <3> DEFINE s == [at |-> caller[c].at, conn |-> caller[c].conn, left |-> caller[c].left - 1]
    <3>1. caller[c].left - 1 \in 1 .. Attempts
      BY <2>2, <2>3, BoundsAssumption DEF MoreAttempts
    <3>2. s \in CallerState /\ ~Undialled(s)
      BY <2>1, <2>2, <3>1, CallerStates DEF Undialled
    <3>3. caller' = [caller EXCEPT ![c].left = @ - 1]
          /\ UNCHANGED <<grpcConn, grpcClient, ctx, cancelled, open, nextConn, ops>>
      BY <1>5, <2>3 DEF AttemptFails
    <3>4. [caller[c] EXCEPT !.left = @ - 1] = s
      BY <1>0, <2>1 DEF CallerState, Idle
    <3>5. caller' = [caller EXCEPT ![c] = s]
      BY <3>3, <3>4
    <3> QED
      BY <1>0, <3>2, <3>3, <3>5, MovingTyped
  <2>4. CASE ~MoreAttempts(caller[c].left)
    BY <1>0, <1>5, <2>4, MovingTyped, CallerStates DEF AttemptFails, Ends, Becomes, Undialled, Idle
  <2> QED
    BY <2>3, <2>4
<1>6. CASE AttemptSucceeds(c)
  <2>1. caller[c].at \in {"dialConnect", "dialCall"}
    BY <1>6 DEF AttemptSucceeds, At
  <2>2. caller[c].conn \in Conn
    BY <1>0, <2>1, CallerFields
  <2> DEFINE s == [at |-> IF At(c, "dialConnect") THEN "connected" ELSE "call",
                   conn |-> caller[c].conn, left |-> 0]
  <2>3. s \in CallerState /\ ~Undialled(s)
    BY <2>2, CallerStates DEF Undialled
  <2>4. /\ caller' = [caller EXCEPT ![c] = s]
        /\ grpcConn' = caller[c].conn /\ grpcClient' = caller[c].conn
        /\ ctx' \in {caller[c].conn, ctx}
        /\ UNCHANGED <<cancelled, open, nextConn, ops>>
    BY <1>6 DEF AttemptSucceeds, Goto, Becomes
  <2> QED
    BY <1>0, <2>2, <2>3, <2>4, MovingTyped
<1>7. CASE Disconnect(c)
  <2>1. cancelled' \subseteq Conn
    BY <1>0, <1>7 DEF Disconnect, Conn, None
  <2> QED
    BY <1>0, <1>7, <2>1, MovingTyped, CallerStates DEF Disconnect, Ends, Becomes, Undialled, Idle
<1>8. CASE CloseConnection(c)
  BY <1>0, <1>8, MovingTyped, CallerStates DEF CloseConnection, ClientAfterClose, Ends, Becomes,
     Undialled, Idle
<1> QED
  BY <1>1, <1>2, <1>3, <1>4, <1>5, <1>6, <1>7, <1>8 DEF Operation

-----------------------------------------------------------------------------
(* Streams: each is told of once, by the goroutine that reads it or by the    *)
(* one that tells the handler there are no clash modes                       *)

\* Clash modes that turned out to be none are told when the stream has ended.
EmptyEnds == \A s \in Stream : streams[s].init = "empty" => Doing(s, "end")
StreamInv == streams \in [Stream -> StreamState] /\ OneFarewell /\ EmptyEnds

Phase == {"start", "modes", "subscribe", "level", "receive", "end"}
StreamRecord == [at : Phase, conn : 0 .. MaxOps, ctx : 0 .. MaxOps, broken : BOOLEAN,
                 farewells : 0 .. 2, init : {"none", "some", "empty"}]

\* What the invariant says of one stream
Settled(state) ==
  /\ state.farewells = IF state.at = "end" /\ state.init # "empty" THEN 1 ELSE 0
  /\ state.init = "empty" => state.at = "end"

LEMMA StreamStates ==
  /\ StreamState = {NoStream} \cup StreamRecord
  /\ NoStream \in StreamState /\ NoStream.at = "none" /\ NoStream.init = "none"
  /\ NoStream.farewells = 0
  BY DEF StreamState, StreamRecord, Phase, NoStream

LEMMA StreamFields ==
  ASSUME StreamInv, NEW s \in Stream
  PROVE  /\ Settled(streams[s])
         /\ streams[s].at # "none" \/ streams[s].init # "none" => streams[s] \in StreamRecord
  BY StreamStates DEF StreamInv, OneFarewell, EmptyEnds, Settled, Doing

\* One stream goes on.
LEMMA StreamMoves ==
  ASSUME StreamInv, NEW s \in Stream, NEW r \in StreamRecord, Settled(r),
         streams' = [streams EXCEPT ![s] = r]
  PROVE  StreamInv'
<1>1. \A t \in Stream : streams'[t] = IF t = s THEN r ELSE streams[t]
  BY DEF StreamInv
<1>2. streams' \in [Stream -> StreamState]
  BY StreamStates DEF StreamInv
<1> QED
  BY <1>1, <1>2 DEF StreamInv, OneFarewell, EmptyEnds, Settled, Doing

\* The farewell of a stream that has not had one
LEMMA FarewellOnce ==
  ASSUME StreamInv, NEW s \in Stream, NEW r \in StreamRecord,
         r.farewells = 0, r.init # "empty", Farewell(s, r)
  PROVE  StreamInv' /\ told' = "disconnected"
<1> DEFINE f == Finished(r)
           e == [r EXCEPT !.at = "end"]
<1>1. f \in StreamRecord /\ f.at = "end" /\ f.farewells = 1 /\ f.init = r.init
  <2>1. e \in StreamRecord /\ e.at = "end" /\ e.farewells = 0 /\ e.init = r.init
    BY DEF StreamRecord, Phase
  <2>2. f = [e EXCEPT !.farewells = @ + 1]
    BY DEF Finished
  <2> HIDE DEF e, f
  <2> QED
    BY <2>1, <2>2 DEF StreamRecord
<1>2. streams' = [streams EXCEPT ![s] = f] /\ told' = "disconnected"
  BY DEF Farewell
<1> HIDE DEF f
<1>3. Settled(f)
  BY <1>1 DEF Settled
<1> QED
  BY <1>1, <1>2, <1>3, StreamMoves

LEMMA StreamStep ==
  ASSUME StreamInv, {grpcClient, ctx} \subseteq 0 .. MaxOps, NEW s \in Stream,
         Goroutine(s) \/ InitializeModes(s)
  PROVE  StreamInv'
<1> DEFINE x == streams[s]
<1>0. Settled(x) /\ (x.at # "none" \/ x.init # "none" => x \in StreamRecord)
  BY StreamFields
<1>1. CASE StreamStart(s)
  <2> DEFINE r == [at |-> IF Command(s) = "clashMode" THEN "modes" ELSE "subscribe",
                   conn |-> grpcClient, ctx |-> ctx, broken |-> x.broken,
                   farewells |-> x.farewells, init |-> x.init]
  <2>1. x.at = "start" /\ x \in StreamRecord
    BY <1>0, <1>1 DEF StreamStart, Doing
  <2>2. r \in StreamRecord /\ Settled(r)
    BY <1>0, <2>1 DEF StreamRecord, Phase, Settled
  <2>3. streams' = [streams EXCEPT ![s] = r]
    BY <1>1, <2>1 DEF StreamStart, StreamRecord, StreamInv
  <2> QED
    BY <2>2, <2>3, StreamMoves
<1>2. CASE StreamFails(s) \/ StreamLost(s)
  <2>1. x.at \in {"modes", "subscribe", "level", "receive"} /\ Farewell(s, x)
    BY <1>2 DEF StreamFails, StreamLost, InCall, Doing
  <2>2. x \in StreamRecord /\ x.farewells = 0 /\ x.init # "empty"
    BY <1>0, <2>1 DEF Settled
  <2> QED
    BY <2>1, <2>2, FarewellOnce
<1>3. ASSUME NEW modes \in {"some", "empty"}, StreamModes(s, modes)
      PROVE  StreamInv'
  <2> DEFINE next == [at |-> AfterModes(modes), conn |-> x.conn, ctx |-> x.ctx,
                      broken |-> x.broken, farewells |-> x.farewells, init |-> x.init]
             r(i) == [at |-> AfterModes(modes), conn |-> x.conn, ctx |-> x.ctx,
                      broken |-> x.broken, farewells |-> x.farewells, init |-> i]
  <2>1. x.at = "modes" /\ x \in StreamRecord
    BY <1>0, <1>3 DEF StreamModes, Doing
  <2>2. [x EXCEPT !.at = AfterModes(modes)] = next /\ next \in StreamRecord
        /\ next.farewells = 0 /\ next.init # "empty"
    BY <1>0, <2>1 DEF StreamRecord, Phase, AfterModes, Settled
  <2>3. \A i \in {"none", "some", "empty"} : [next EXCEPT !.init = i] = r(i)
    OBVIOUS
  <2>4. CASE ~fixAndroidStack /\ modes = "empty"
    BY <1>3, <2>2, <2>4, FarewellOnce DEF StreamModes
  <2>5. CASE ~(~fixAndroidStack /\ modes = "empty")
    <3> DEFINE i == IF fixAndroidStack THEN modes ELSE "none"
    <3>1. streams' = [streams EXCEPT ![s] = r(i)]
      BY <1>3, <2>2, <2>3, <2>5 DEF StreamModes
    <3>2. r(i) \in StreamRecord /\ Settled(r(i))
      BY <1>0, <2>1, <2>5 DEF StreamRecord, Phase, AfterModes, Settled
    <3> QED
      BY <3>1, <3>2, StreamMoves
  <2> QED
    BY <2>4, <2>5
<1>4. CASE InitializeModes(s)
  <2> DEFINE done == [at |-> x.at, conn |-> x.conn, ctx |-> x.ctx,
                      broken |-> x.broken, farewells |-> x.farewells, init |-> "none"]
  <2>1. x \in StreamRecord /\ x.init # "none"
    BY <1>0, <1>4 DEF InitializeModes
  <2>2. [x EXCEPT !.init = "none"] = done /\ done \in StreamRecord
    BY <2>1 DEF StreamRecord
  <2>3. CASE x.init = "empty"
    <3>1. Farewell(s, done)
      BY <1>4, <2>2, <2>3 DEF InitializeModes
    <3>2. done.farewells = 0 /\ done.init # "empty"
      BY <1>0, <2>3 DEF Settled
    <3> QED
      BY <2>2, <3>1, <3>2, FarewellOnce
  <2>4. CASE x.init # "empty"
    <3>1. streams' = [streams EXCEPT ![s] = done]
      BY <1>4, <2>2, <2>4 DEF InitializeModes
    <3>2. Settled(done)
      BY <1>0, <2>4 DEF Settled
    <3> QED
      BY <2>2, <3>1, <3>2, StreamMoves
  <2> QED
    BY <2>3, <2>4
<1>5. CASE StreamSubscribed(s) \/ StreamLevel(s)
  <2>1. PICK step \in {"level", "receive"} : streams' = [streams EXCEPT ![s].at = step]
    BY <1>5 DEF StreamSubscribed, StreamLevel
  <2> DEFINE r == [at |-> step, conn |-> x.conn, ctx |-> x.ctx,
                   broken |-> x.broken, farewells |-> x.farewells, init |-> x.init]
  <2>2. x.at \in {"subscribe", "level"} /\ x \in StreamRecord
    BY <1>0, <1>5 DEF StreamSubscribed, StreamLevel, Doing
  <2>3. [x EXCEPT !.at = step] = r
    BY <2>2 DEF StreamRecord
  <2>4. r \in StreamRecord /\ Settled(r)
    BY <1>0, <2>2 DEF StreamRecord, Phase, Settled
  <2>5. streams' = [streams EXCEPT ![s] = r]
    BY <2>1, <2>3
  <2> QED
    BY <2>4, <2>5, StreamMoves
<1> QED
  BY <1>1, <1>2, <1>3, <1>4, <1>5 DEF Goroutine, HandleStream, HandleClashModeStream

\* The steps of others: a caller starts the streams of its connection, the server
\* stops under some.
LEMMA StreamsStep ==
  ASSUME StreamInv, {grpcClient, ctx} \subseteq 0 .. MaxOps, [Next]_vars
  PROVE  StreamInv'
<1>1. CASE UNCHANGED streams
  BY <1>1 DEF StreamInv, OneFarewell, EmptyEnds, Doing
<1>2. ASSUME NEW s \in Stream, Goroutine(s) \/ InitializeModes(s)
      PROVE  StreamInv'
  BY <1>2, StreamStep
<1>3. ASSUME streams' \in [Stream -> StreamState], \A s \in Stream : Settled(streams'[s])
      PROVE  StreamInv'
  BY <1>3 DEF StreamInv, OneFarewell, EmptyEnds, Settled, Doing
<1>4. ASSUME NEW c \in Caller, DispatchCommands(c) PROVE StreamInv'
  <2> DEFINE r == [NoStream EXCEPT !.at = "start"]
  <2>1. r \in StreamState /\ Settled(r)
    <3>0. NoStream \in [at : {"none"}, conn : {None}, ctx : {None}, broken : {FALSE},
                        farewells : {0}, init : {"none"}]
      BY DEF NoStream
    <3>1. r \in [at : {"start"}, conn : {None}, ctx : {None}, broken : {FALSE},
                 farewells : {0}, init : {"none"}]
      BY <3>0
    <3>2. 0 \in 0 .. MaxOps /\ 0 \in 0 .. 2 /\ FALSE \in BOOLEAN
      BY BoundsAssumption
    <3>3. r \in StreamRecord
      BY <3>1, <3>2 DEF StreamRecord, Phase, None
    <3> QED
      BY <3>1, <3>3, StreamStates DEF Settled
  <2>2. \A s \in Stream : streams'[s] \in {r, streams[s]}
    BY <1>4 DEF DispatchCommands
  <2>3. \A s \in Stream : streams[s] \in StreamState /\ Settled(streams[s])
    BY StreamFields DEF StreamInv
  <2>4. streams' = [s \in Stream |-> streams'[s]]
    BY <1>4 DEF DispatchCommands
  <2> HIDE DEF r
  <2>5. \A s \in Stream : streams'[s] \in StreamState /\ Settled(streams'[s])
    BY <2>1, <2>2, <2>3
  <2> QED
    BY <1>3, <2>4, <2>5
<1>5. CASE ServerStop
  <2> DEFINE hurt(s) == [streams[s] EXCEPT !.broken = TRUE]
  <2>1. \A s \in Stream :
          streams'[s] = IF streams[s].at \in {"level", "receive"} THEN hurt(s) ELSE streams[s]
    BY <1>5 DEF ServerStop
  <2>2. ASSUME NEW s \in Stream
        PROVE  streams'[s] \in StreamState /\ Settled(streams'[s])
    <3>1. Settled(streams[s]) /\ streams[s] \in StreamState
      BY StreamFields DEF StreamInv
    <3>2. CASE streams[s].at \in {"level", "receive"}
      <4>1. streams[s] \in StreamRecord
        BY <3>2, StreamFields
      <4>2. hurt(s) \in StreamRecord /\ Settled(hurt(s))
        BY <3>1, <4>1 DEF StreamRecord, Settled
      <4> QED
        BY <2>1, <3>2, <4>2, StreamStates
    <3>3. CASE streams[s].at \notin {"level", "receive"}
      BY <2>1, <3>1, <3>3
    <3> QED
      BY <3>2, <3>3
  <2>3. streams' = [s \in Stream |-> streams'[s]]
    BY <1>5 DEF ServerStop
  <2> QED
    BY <1>3, <2>2, <2>3
<1>6. ASSUME NEW c \in Caller, Operation(c), ~DispatchCommands(c)
      PROVE  UNCHANGED streams
  BY <1>6 DEF Operation, Connect, ConnectWithFD, Connected, Disconnect, GetClient,
     GetClientLocked, AttemptFails, AttemptSucceeds, CallReturns, CloseConnection
<1> QED
  BY <1>1, <1>2, <1>4, <1>5, <1>6 DEF Next, Begin, BeginCall, Enters, ServerStart, vars

LEMMA CallersStep ==
  ASSUME CountInv, CallersTyped, ClientInv, [Next]_vars
  PROVE  CountInv' /\ CallersTyped'
<1>1. CASE UNCHANGED <<caller, client, ops>>
  BY <1>1 DEF CountInv, CallersTyped, Pending, client
<1>2. ASSUME NEW c \in Caller, NEW step \in {"connect", "connectFD", "disconnect", "get"},
             Enters(c, step)
      PROVE  CountInv' /\ CallersTyped'
  <2>1. caller' = [caller EXCEPT ![c] = [at |-> step, conn |-> None, left |-> 0]]
    BY <1>2 DEF Enters, Goto, Becomes
  <2>2. CallersTyped'
    BY <1>2, <2>1, CallerStates DEF CallersTyped, Enters, client
  <2>3. \A d \in Caller : d # c => caller'[d] = caller[d]
    BY <2>1 DEF CallersTyped
  <2>4. ops' = ops + 1 /\ ops < MaxOps /\ nextConn' = nextConn
    BY <1>2 DEF Enters, client
  <2> QED
    BY <2>2, <2>3, <2>4, CountKeeps
<1>3. ASSUME NEW c \in Caller, Operation(c)
      PROVE  CountInv' /\ CallersTyped'
  BY <1>3, OperationTyped DEF ClientInv
<1>4. ASSUME NEW s \in Stream, Goroutine(s) \/ InitializeModes(s)
      PROVE  UNCHANGED <<caller, client, ops>>
  BY <1>4 DEF Goroutine, HandleStream, HandleClashModeStream, StreamStart, StreamFails,
     StreamModes, StreamSubscribed, StreamLevel, StreamLost, InitializeModes
<1>5. ASSUME NEW c \in Caller, NEW step \in Dialers \cup {"disconnect"}, Begin(c, step)
      PROVE  CountInv' /\ CallersTyped'
  BY <1>2, <1>5, KindsAssumption DEF Begin
<1>6. ASSUME NEW c \in Caller, BeginCall(c)
      PROVE  CountInv' /\ CallersTyped'
  BY <1>2, <1>6 DEF BeginCall
<1> QED
  BY <1>1, <1>3, <1>4, <1>5, <1>6 DEF Next, ServerStop, ServerStart, vars

StreamsInv == ClientInv /\ CountInv /\ CallersTyped /\ StreamInv

LEMMA StreamsInvStep == StreamsInv /\ [Next]_vars => StreamsInv'
<1> SUFFICES ASSUME StreamsInv, [Next]_vars PROVE StreamsInv'
  OBVIOUS
<1>1. ClientInv' /\ CountInv' /\ CallersTyped'
  BY ClientStep, CallersStep DEF StreamsInv
<1>2. StreamInv'
  BY StreamsStep DEF StreamsInv, CallersTyped
<1> QED
  BY <1>1, <1>2 DEF StreamsInv

LEMMA StreamsInvInit == Init => StreamsInv
<1> SUFFICES ASSUME Init PROVE StreamsInv
  OBVIOUS
<1>1. ClientInv
  BY CallerAssumption DEF Init, ClientInv, Callers, LockInv, OpenHeld, AloneInv, Dials, At, Free,
     Idle, None, Step
<1>2. Pending = {}
  BY DEF Init, Pending, Undialled, Idle
<1>3. CountInv
  BY <1>2, FS_EmptySet, BoundsAssumption DEF Init, CountInv
<1>4. CallersTyped
  BY CallerStates, BoundsAssumption DEF Init, CallersTyped, Conn, None
<1>5. StreamInv
  BY StreamStates DEF Init, StreamInv, OneFarewell, EmptyEnds, Doing
<1> QED
  BY <1>1, <1>3, <1>4, <1>5 DEF StreamsInv

\* Every stream tells the handler exactly once that it ended, whichever goroutine
\* does it, however the server stops and callers come and go.
THEOREM FarewellsOnce == Spec => []OneFarewell
<1>1. StreamsInv => OneFarewell
  BY DEF StreamsInv, StreamInv
<1> QED
  BY <1>1, StreamsInvInit, StreamsInvStep, PTL DEF Spec

\* What the callers and the streams do not count
RestTyped ==
  /\ {standalone, fixAndroidStack, serverUp, down} \subseteq BOOLEAN
  /\ told \in {"nothing", "connected", "disconnected"}
  /\ link \in [Conn -> {"dial", "fd", "spent"}]
  /\ stops \in 0 .. MaxStops

LEMMA RestStep ==
  ASSUME RestTyped, StreamsInv, [Next]_vars
  PROVE  RestTyped'
<1>1. UNCHANGED <<standalone, fixAndroidStack>>
  BY DEF Next, Begin, BeginCall, Enters, Operation, Connect, ConnectWithFD, Connected,
     DispatchCommands, Disconnect, GetClient, GetClientLocked, AttemptFails, AttemptSucceeds,
     CallReturns, CloseConnection, Goroutine, HandleStream, HandleClashModeStream, StreamStart,
     StreamFails, StreamModes, StreamSubscribed, StreamLevel, StreamLost, InitializeModes,
     ServerStop, ServerStart, config, vars
<1>2. down' \in {down, TRUE, FALSE}
  BY DEF Next, Begin, BeginCall, Enters, Operation, Connect, ConnectWithFD, Connected,
     DispatchCommands, Disconnect, GetClient, GetClientLocked, AttemptFails, AttemptSucceeds,
     CallReturns, CloseConnection, Goroutine, HandleStream, HandleClashModeStream, StreamStart,
     StreamFails, StreamModes, StreamSubscribed, StreamLevel, StreamLost, InitializeModes,
     ServerStop, ServerStart, client, vars
<1>3. told' \in {told, "connected", "disconnected"}
  BY DEF Next, Begin, BeginCall, Enters, Operation, Connect, ConnectWithFD, Connected,
     DispatchCommands, Disconnect, GetClient, GetClientLocked, AttemptFails, AttemptSucceeds,
     CallReturns, CloseConnection, Goroutine, HandleStream, HandleClashModeStream, StreamStart,
     StreamFails, StreamModes, StreamSubscribed, StreamLevel, StreamLost, InitializeModes,
     Farewell, ServerStop, ServerStart, vars
<1>4. \/ UNCHANGED server
      \/ ServerStop \/ ServerStart
      \/ UNCHANGED <<serverUp, stops>> /\ link' = [link EXCEPT ![nextConn] =
                                                     IF serverUp THEN "fd" ELSE "spent"]
  BY DEF Next, Begin, BeginCall, Enters, Operation, Connect, ConnectWithFD, Connected,
     DispatchCommands, Disconnect, GetClient, GetClientLocked, AttemptFails, AttemptSucceeds,
     CallReturns, CloseConnection, Goroutine, HandleStream, HandleClashModeStream, StreamStart,
     StreamFails, StreamModes, StreamSubscribed, StreamLevel, StreamLost, InitializeModes,
     server, vars
<1>5. link' \in [Conn -> {"dial", "fd", "spent"}] /\ stops' \in 0 .. MaxStops
      /\ serverUp' \in {serverUp, TRUE, FALSE}
  <2>1. CASE UNCHANGED server \/ ServerStart
    BY <2>1 DEF RestTyped, ServerStart, server
  <2>2. CASE ServerStop
    <3>1. link' \in [Conn -> {"dial", "fd", "spent"}]
      BY <2>2 DEF RestTyped, ServerStop
    <3>2. stops' \in 0 .. MaxStops
      BY <2>2, BoundsAssumption DEF RestTyped, ServerStop
    <3> QED
      BY <2>2, <3>1, <3>2 DEF ServerStop
  <2>3. CASE UNCHANGED <<serverUp, stops>>
             /\ link' = [link EXCEPT ![nextConn] = IF serverUp THEN "fd" ELSE "spent"]
    BY <2>3 DEF RestTyped
  <2> QED
    BY <1>4, <2>1, <2>2, <2>3
<1>6. {standalone', fixAndroidStack', serverUp', down'} \subseteq BOOLEAN
  BY <1>1, <1>2, <1>5 DEF RestTyped
<1> QED
  BY <1>3, <1>5, <1>6 DEF RestTyped

\* The client is well typed: in particular a connection has a number, however many
\* callers dial, and no stream says farewell more often than it may.
THEOREM TypeCorrect == Spec => []TypeOK
<1>1. Init => RestTyped
  <2> SUFFICES ASSUME Init PROVE RestTyped
    OBVIOUS
  <2>1. {standalone, fixAndroidStack, serverUp, down} \subseteq BOOLEAN
    BY KindsAssumption, Zenon DEF Init
  <2>2. stops \in 0 .. MaxStops
    BY BoundsAssumption DEF Init
  <2> QED
    BY <2>1, <2>2 DEF Init, RestTyped
<1>2. RestTyped /\ StreamsInv => TypeOK
  <2> SUFFICES ASSUME RestTyped, StreamsInv PROVE TypeOK
    OBVIOUS
  <2>1. nextConn \in 1 .. MaxOps + 1
    <3>1. Cardinality(Pending) \in Nat
      BY FS_CardinalityType DEF StreamsInv, CountInv
    <3> QED
      BY <3>1, BoundsAssumption DEF StreamsInv, CountInv
  <2> QED
    BY <2>1 DEF TypeOK, RestTyped, StreamsInv, ClientInv, LockInv, CountInv, CallersTyped,
       StreamInv
<1>3. RestTyped /\ StreamsInv /\ [Next]_vars => RestTyped'
  BY RestStep
<1> QED
  BY <1>1, <1>2, <1>3, StreamsInvInit, StreamsInvStep, PTL DEF Spec

-----------------------------------------------------------------------------
(* The handler's last word: who has yet to say Disconnected                  *)

Speaks(state) == state.at \notin {"none", "end"} \/ state.init = "empty"

\* While the handler believes it is connected, someone will still start a stream, or a
\* stream has its farewell to say.
Awaited ==
  told = "connected" /\ Dispatched # {} =>
    (\E c \in Caller : At(c, "dispatch")) \/ \E s \in Stream : Speaks(streams[s])

\* A stream that goes on without a farewell still has it to say.
LEMMA StreamSpeaks ==
  ASSUME StreamInv, NEW s \in Stream, Goroutine(s) \/ InitializeModes(s),
         told' # "disconnected"
  PROVE  /\ told' = told /\ (Speaks(streams[s]) => Speaks(streams'[s]))
         /\ \A t \in Stream : t # s => streams'[t] = streams[t]
<1> DEFINE x == streams[s]
<1>0. streams \in [Stream -> StreamState]
      /\ (x.at # "none" \/ x.init # "none" => x \in StreamRecord)
  BY StreamFields DEF StreamInv
<1>1. CASE StreamStart(s)
  <2>1. x \in StreamRecord
    BY <1>0, <1>1 DEF StreamStart, Doing
  <2>2. streams'[s].at # "none" /\ streams'[s].at # "end"
    BY <1>0, <1>1, <2>1 DEF StreamStart, StreamRecord
  <2> QED
    BY <1>0, <1>1, <2>2 DEF StreamStart, Speaks
<1>2. CASE StreamFails(s) \/ StreamLost(s)
  BY <1>2 DEF StreamFails, StreamLost, Farewell
<1>3. ASSUME NEW modes \in {"some", "empty"}, StreamModes(s, modes)
      PROVE  /\ told' = told /\ Speaks(streams'[s])
             /\ \A t \in Stream : t # s => streams'[t] = streams[t]
  <2> DEFINE next == [at |-> AfterModes(modes), conn |-> x.conn, ctx |-> x.ctx,
                      broken |-> x.broken, farewells |-> x.farewells, init |-> x.init]
             i == IF fixAndroidStack THEN modes ELSE "none"
  <2>1. x \in StreamRecord
    BY <1>0, <1>3 DEF StreamModes, Doing
  <2>2. [x EXCEPT !.at = AfterModes(modes)] = next
    BY <2>1 DEF StreamRecord
  <2>3. ~(~fixAndroidStack /\ modes = "empty")
    BY <1>3 DEF StreamModes, Farewell
  <2>4. streams' = [streams EXCEPT ![s] = [next EXCEPT !.init = i]] /\ told' = told
    BY <1>3, <2>2, <2>3 DEF StreamModes
  <2>5. Speaks([next EXCEPT !.init = i])
    BY <2>3 DEF Speaks, AfterModes
  <2> QED
    BY <1>0, <2>4, <2>5
<1>4. CASE InitializeModes(s)
  <2> DEFINE done == [at |-> x.at, conn |-> x.conn, ctx |-> x.ctx,
                      broken |-> x.broken, farewells |-> x.farewells, init |-> "none"]
  <2>1. x \in StreamRecord
    BY <1>0, <1>4 DEF InitializeModes
  <2>2. [x EXCEPT !.init = "none"] = done
    BY <2>1 DEF StreamRecord
  <2>3. x.init # "empty"
    BY <1>4 DEF InitializeModes, Farewell
  <2>4. streams' = [streams EXCEPT ![s] = done] /\ told' = told
    BY <1>4, <2>2, <2>3 DEF InitializeModes
  <2> QED
    BY <1>0, <2>3, <2>4 DEF Speaks
<1>5. CASE StreamSubscribed(s) \/ StreamLevel(s)
  <2>1. x \in StreamRecord
    BY <1>0, <1>5 DEF StreamSubscribed, StreamLevel, Doing
  <2>2. streams'[s].at # "none" /\ streams'[s].at # "end"
    BY <1>0, <1>5, <2>1 DEF StreamSubscribed, StreamLevel, StreamRecord
  <2> QED
    BY <1>0, <1>5, <2>2 DEF StreamSubscribed, StreamLevel, Speaks
<1> QED
  BY <1>1, <1>2, <1>3, <1>4, <1>5 DEF Goroutine, HandleStream, HandleClashModeStream

\* The streams of a connection start when it is dispatched, if its commands begin
\* with one that is known.
LEMMA DispatchSpeaks ==
  ASSUME CallersTyped, NEW c \in Caller, DispatchCommands(c), Dispatched # {}
  PROVE  \E s \in Stream : Speaks(streams'[s])
<1>1. caller[c].conn \in Conn
  BY CallerFields DEF CallersTyped, DispatchCommands, At
<1>2. PICK i \in DOMAIN Commands : i \in Dispatched
  BY DEF Dispatched
<1> DEFINE s == <<caller[c].conn, i>>
<1>3. s \in Stream /\ s[1] = caller[c].conn /\ s[2] \in Dispatched
  BY <1>1, <1>2 DEF Stream
<1>4. streams'[s] = [NoStream EXCEPT !.at = "start"]
  BY <1>3 DEF DispatchCommands
<1>5. Speaks(streams'[s])
  BY <1>4 DEF Speaks, NoStream
<1> QED
  BY <1>3, <1>5

LEMMA AwaitedStep ==
  ASSUME StreamsInv, Awaited, [Next]_vars
  PROVE  Awaited'
<1> SUFFICES ASSUME told' = "connected", Dispatched # {}
             PROVE  (\E c \in Caller : At(c, "dispatch"))' \/ \E s \in Stream : Speaks(streams'[s])
  BY DEF Awaited, Dispatched
<1>0. caller \in [Caller -> CallerState] /\ StreamInv
  BY DEF StreamsInv, CallersTyped
<1>1. ASSUME NEW c \in Caller, UNCHANGED <<told, streams>>, ~At(c, "dispatch"),
             \A d \in Caller : d # c => caller'[d] = caller[d]
      PROVE  (\E d \in Caller : At(d, "dispatch"))' \/ \E s \in Stream : Speaks(streams'[s])
  BY <1>1 DEF Awaited, At
<1>2. ASSUME NEW c \in Caller, Operation(c)
      PROVE  (\E d \in Caller : At(d, "dispatch"))' \/ \E s \in Stream : Speaks(streams'[s])
  <2>1. CASE Connected(c)
    BY <1>0, <2>1 DEF Connected, Goto, Becomes, At
  <2>2. CASE DispatchCommands(c)
    BY <2>2, DispatchSpeaks DEF StreamsInv
  <2>3. CASE ~Connected(c) /\ ~DispatchCommands(c)
    <3>1. UNCHANGED <<told, streams>> /\ ~At(c, "dispatch")
      BY <1>2, <2>3 DEF Operation, Connect, ConnectWithFD, Disconnect, GetClient,
         GetClientLocked, AttemptFails, AttemptSucceeds, CallReturns, CloseConnection, At
    <3>2. \A d \in Caller : d # c => caller'[d] = caller[d]
      BY <1>0, <1>2, <2>3 DEF Operation, Connect, ConnectWithFD, Disconnect, GetClient,
         GetClientLocked, AttemptFails, AttemptSucceeds, CallReturns, CloseConnection, Dialling,
         Goto, Ends, Becomes
    <3> QED
      BY <1>1, <3>1, <3>2
  <2> QED
    BY <2>1, <2>2, <2>3
<1>3. ASSUME NEW c \in Caller, NEW step, Enters(c, step)
      PROVE  (\E d \in Caller : At(d, "dispatch"))' \/ \E s \in Stream : Speaks(streams'[s])
  <2>1. UNCHANGED <<told, streams>> /\ ~At(c, "dispatch")
        /\ \A d \in Caller : d # c => caller'[d] = caller[d]
    BY <1>0, <1>3 DEF Enters, Goto, Becomes, At
  <2> QED
    BY <1>1, <2>1
<1>4. ASSUME NEW s \in Stream, Goroutine(s) \/ InitializeModes(s)
      PROVE  (\E d \in Caller : At(d, "dispatch"))' \/ \E t \in Stream : Speaks(streams'[t])
  <2>1. caller' = caller
    BY <1>4 DEF Goroutine, HandleStream, HandleClashModeStream, StreamStart, StreamFails,
       StreamModes, StreamSubscribed, StreamLevel, StreamLost, InitializeModes
  <2>2. /\ told' = told /\ (Speaks(streams[s]) => Speaks(streams'[s]))
        /\ \A t \in Stream : t # s => streams'[t] = streams[t]
    BY <1>0, <1>4, StreamSpeaks
  <2> QED
    BY <2>1, <2>2 DEF Awaited, At
<1>5. CASE ServerStop
  <2>1. UNCHANGED <<told, caller>>
        /\ \A s \in Stream : streams'[s] = IF streams[s].at \in {"level", "receive"}
                                           THEN [streams[s] EXCEPT !.broken = TRUE]
                                           ELSE streams[s]
    BY <1>5 DEF ServerStop
  <2>2. ASSUME NEW s \in Stream PROVE Speaks(streams[s]) => Speaks(streams'[s])
    <3>1. streams[s].at # "none" => streams[s] \in StreamRecord
      BY <1>0, StreamFields
    <3>2. CASE streams[s].at \in {"level", "receive"}
      BY <2>1, <3>1, <3>2 DEF Speaks, StreamRecord
    <3>3. CASE streams[s].at \notin {"level", "receive"}
      BY <2>1, <3>3
    <3> QED
      BY <3>2, <3>3
  <2> QED
    BY <2>1, <2>2 DEF Awaited, At
<1>6. CASE UNCHANGED <<told, caller, streams>>
  BY <1>6 DEF Awaited, At
<1> QED
  BY <1>2, <1>3, <1>4, <1>5, <1>6 DEF Next, Begin, BeginCall, ServerStart, vars

\* When everything has ended, the last the handler heard is Disconnected: no Connected
\* is left standing by the farewells of its own streams.
THEOREM LastWordSaid == Spec => []LastWord
<1>1. Init => Awaited
  BY DEF Init, Awaited
<1>2. StreamsInv /\ Awaited => LastWord
  <2> SUFFICES ASSUME StreamsInv, Awaited, NothingRuns, Dispatched # {} PROVE told # "connected"
    BY DEF LastWord
  <2>1. \A s \in Stream : ~Speaks(streams[s])
    BY DEF NothingRuns, Over, Doing, Speaks, StreamsInv, StreamInv, EmptyEnds
  <2>2. \A c \in Caller : ~At(c, "dispatch")
    BY DEF NothingRuns, At
  <2> QED
    BY <2>1, <2>2 DEF Awaited
<1>3. StreamsInv /\ Awaited /\ [Next]_vars => Awaited'
  BY AwaitedStep
<1> QED
  BY <1>1, <1>2, <1>3, StreamsInvInit, StreamsInvStep, PTL DEF Spec
=============================================================================
