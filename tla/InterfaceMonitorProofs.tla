----------------------- MODULE InterfaceMonitorProofs -----------------------
(* What holds of InterfaceMonitor for every set of interfaces and           *)
(* subscribers, and every number of attempts and changes.                   *)
EXTENDS InterfaceMonitor, TLAPS

-----------------------------------------------------------------------------
(* Type correctness                                                        *)

\* The states of a thread that its steps pass through
LEMMA ThreadStates ==
  /\ Idle \in ThreadState
  /\ \A i \in Iface : Reporting(i) \in Attempting
  /\ Updating(NoIface, FALSE) \in InUpdate
  /\ \A i \in Iface : Updating(i, i \in metered) \in InUpdate
  /\ Attempting \subseteq ThreadState /\ InUpdate \subseteq ThreadState
  /\ Telling \subseteq ThreadState
<1>1. Idle \in ThreadState
  BY DEF ThreadState
<1>2. ASSUME NEW i \in Iface PROVE Reporting(i) \in Attempting
  BY BoundsAssumption DEF Reporting, Attempting
<1>3. Updating(NoIface, FALSE) \in InUpdate
  BY DEF Updating, InUpdate, Target
<1>4. Attempting \subseteq ThreadState /\ InUpdate \subseteq ThreadState
      /\ Telling \subseteq ThreadState
  BY DEF ThreadState
<1>5. ASSUME NEW i \in Iface PROVE Updating(i, i \in metered) \in InUpdate
  BY DEF Updating, InUpdate, Target
<1> QED
  BY <1>1, <1>2, <1>3, <1>4, <1>5

\* What a thread is about to do tells what it carries.
LEMMA StateOf ==
  ASSUME NEW r \in ThreadState
  PROVE  /\ r.at \in {"idle", "attempt", "write", "scan", "set", "notify"}
         /\ r.net \in Target /\ r.todo \subseteq Subscriber /\ r.expensive \in BOOLEAN
         /\ r.at = "idle" => r = Idle
         /\ r.at = "attempt" => r \in Attempting
         /\ r.at \in {"write", "scan", "set"} => r \in InUpdate
         /\ r.at = "notify" => r \in Telling
         /\ r.at # "notify" => r.todo = {}
<1>1. CASE r = Idle
  BY <1>1 DEF Idle, Target
<1>2. CASE r \in Attempting
  BY <1>2 DEF Attempting, Target
<1>3. CASE r \in InUpdate
  BY <1>3 DEF InUpdate
<1>4. CASE r \in Telling
  BY <1>4 DEF Telling
<1> QED
  BY <1>1, <1>2, <1>3, <1>4 DEF ThreadState

\* An attempt that fails keeps its network.
LEMMA AttemptState ==
  ASSUME NEW r \in Attempting, MoreAttempts(r.left)
  PROVE  /\ [r EXCEPT !.left = Left(r.left)] \in Attempting
         /\ [r EXCEPT !.left = Left(r.left)].at = "attempt"
         /\ [r EXCEPT !.left = Left(r.left)].net = r.net
<1>1. Left(r.left) \in 1 .. Attempts
  BY BoundsAssumption DEF Attempting, Left, MoreAttempts
<1> QED
  BY <1>1 DEF Attempting

\* A step of updateDefaultInterface keeps what it was called with.
LEMMA UpdateState ==
  ASSUME NEW r \in InUpdate, NEW step \in {"scan", "set"}
  PROVE  /\ [r EXCEPT !.at = step] \in InUpdate
         /\ [r EXCEPT !.at = step].at = step
         /\ [r EXCEPT !.at = step].net = r.net
         /\ [r EXCEPT !.at = step].expensive = r.expensive
  BY DEF InUpdate

\* Setting the default interface hands over to the subscribers' callbacks ...
LEMMA TellState ==
  ASSUME NEW r \in InUpdate, NEW S \in SUBSET Subscriber, S # {}
  PROVE  LET q == [r EXCEPT !.at = "notify", !.todo = S]
         IN q \in Telling /\ q.at = "notify" /\ q.net = r.net /\ q.todo = S
<1> DEFINE p == [r EXCEPT !.at = "notify"]
<1>1. p = [at |-> "notify", net |-> r.net, left |-> 0, expensive |-> r.expensive, todo |-> {}]
  BY DEF InUpdate
<1> HIDE DEF p
<1>2. r.net \in Target /\ r.expensive \in BOOLEAN
  BY DEF InUpdate
<1>3. [p EXCEPT !.todo = S]
        = [at |-> "notify", net |-> r.net, left |-> 0, expensive |-> r.expensive, todo |-> S]
  BY <1>1
<1>4. [p EXCEPT !.todo = S] = [r EXCEPT !.at = "notify", !.todo = S]
  BY DEF p
<1>5. [at |-> "notify", net |-> r.net, left |-> 0, expensive |-> r.expensive, todo |-> S]
        \in Telling
  BY <1>2 DEF Telling
<1> QED
  BY <1>3, <1>4, <1>5

\* ... one after the other.
LEMMA ToldState ==
  ASSUME NEW r \in Telling, NEW s, r.todo # {s}
  PROVE  LET q == [r EXCEPT !.todo = @ \ {s}]
         IN q \in Telling /\ q.at = "notify" /\ q.net = r.net /\ q.todo = r.todo \ {s}
<1> DEFINE T == r.todo \ {s}
<1>1. T \in (SUBSET Subscriber) \ {{}}
  BY DEF Telling
<1>2. r.net \in Target /\ r.expensive \in BOOLEAN
  BY DEF Telling
<1> HIDE DEF T
<1>3. [r EXCEPT !.todo = T]
        = [at |-> "notify", net |-> r.net, left |-> 0, expensive |-> r.expensive, todo |-> T]
  BY DEF Telling
<1>4. [at |-> "notify", net |-> r.net, left |-> 0, expensive |-> r.expensive, todo |-> T]
        \in Telling
  BY <1>1, <1>2 DEF Telling
<1>5. LET q == [r EXCEPT !.todo = T]
      IN q \in Telling /\ q.at = "notify" /\ q.net = r.net /\ q.todo = T
  BY <1>3, <1>4
<1> QED
  BY <1>5 DEF T

\* What Android does keeps the types: it touches no thread and nothing of libbox.
LEMMA AndroidType ==
  ASSUME TypeOK,
         \/ \E i \in Iface, isReady, oldGoes \in BOOLEAN : BecomeDefault(i, isReady, oldGoes)
         \/ BecomeReady \/ LoseDefault \/ ChangeMetered \/ CloseMonitor
         \/ \E i \in Iface, heard \in BOOLEAN : ChangeBelow(i, heard)
  PROVE  TypeOK'
<1>1. ASSUME NEW i \in Iface, NEW isReady \in BOOLEAN, NEW oldGoes \in BOOLEAN,
             BecomeDefault(i, isReady, oldGoes)
      PROVE  TypeOK'
  BY <1>1, BoundsAssumption
  DEF TypeOK, BecomeDefault, Change, Heard, Target, monitor, scanned, observed
<1>2. CASE BecomeReady
  BY <1>2 DEF TypeOK, BecomeReady, Target, monitor, scanned, observed
<1>3. CASE LoseDefault
  BY <1>3, BoundsAssumption DEF TypeOK, LoseDefault, Change, Heard, Target, monitor, scanned, observed
<1>4. CASE ChangeMetered
  BY <1>4, BoundsAssumption DEF TypeOK, ChangeMetered, Change, Heard, Target, monitor, scanned, observed
<1>5. CASE CloseMonitor
  <2>1. listening' \in BOOLEAN
    BY <1>5, Zenon DEF CloseMonitor
  <2>2. events' \in Seq(Target) /\ changes' \in 0 .. MaxChanges
    BY <1>5, BoundsAssumption DEF TypeOK, CloseMonitor, Change
  <2> QED
    BY <1>5, <2>1, <2>2 DEF TypeOK, CloseMonitor, world, monitor, scanned, observed
<1>6. ASSUME NEW i \in Iface, NEW heard \in BOOLEAN, ChangeBelow(i, heard)
      PROVE  TypeOK'
  BY <1>6, BoundsAssumption
  DEF TypeOK, ChangeBelow, Change, Heard, Target, monitor, scanned, observed
<1> QED
  BY <1>1, <1>2, <1>3, <1>4, <1>5, <1>6

\* A callback begins in a state of a report, or of an update without a network.
LEMMA CallbackType ==
  ASSUME TypeOK, Callback
  PROVE  TypeOK'
<1>1. Head(events) \in Target /\ Tail(events) \in Seq(Target)
  BY DEF Callback, TypeOK
<1>2. thread' \in [Thread -> ThreadState]
  <2>1. thread' = thread
        \/ Becomes("connectivity", Updating(NoIface, FALSE))
        \/ (Head(events) # NoIface /\ Becomes("connectivity", Reporting(Head(events))))
    BY DEF Callback
  <2> QED
    BY <1>1, <2>1, ThreadStates DEF Becomes, TypeOK, Target
<1>3. raced' \in BOOLEAN
  BY Zenon DEF Callback
<1> QED
  BY <1>1, <1>2, <1>3 DEF Callback, TypeOK, world, monitor, scanned

\* A step of a thread is about the same network until it is idle again; it touches neither
\* Android nor the events, and marks that it ran next to the other thread.
LEMMA RunEffect ==
  ASSUME TypeOK, NEW t \in Thread, Run(t)
  PROVE  /\ thread[t].at # "idle"
         /\ \E q \in ThreadState : /\ thread' = [thread EXCEPT ![t] = q]
                                   /\ q.at # "idle" => q.net = thread[t].net
         /\ Racing
         /\ UNCHANGED <<current, ready, metered, events, listening, callbacks, changes>>
<1> DEFINE r == thread[t]
           Steps(q) == thread' = [thread EXCEPT ![t] = q] /\ (q.at # "idle" => q.net = r.net)
<1>r. r \in ThreadState
  BY DEF TypeOK
<1>i. Ends(t) => Steps(Idle)
  BY DEF Ends, Becomes, Idle
<1>1. Racing /\ r.at # "idle"
  BY DEF Run, Attempt, WriteExpensive, UpdateInterfaces, SetDefault, Notify, At
<1>2. UNCHANGED <<current, ready, metered, events, listening, callbacks, changes>>
  BY DEF Run, Attempt, WriteExpensive, UpdateInterfaces, SetDefault, Notify, world, monitor, scanned
<1>3. CASE Attempt(t)
  <2>1. r \in Attempting /\ r.net \in Iface
    BY <1>3, <1>r, StateOf DEF Attempt, At, Attempting
  <2>2. CASE Becomes(t, Updating(r.net, r.net \in metered))
    <3>1. Updating(r.net, r.net \in metered) \in ThreadState
      BY <2>1, ThreadStates
    <3>2. Updating(r.net, r.net \in metered).net = r.net
      BY DEF Updating
    <3> QED
      BY <1>1, <1>2, <2>2, <3>1, <3>2 DEF Becomes
  <2>3. CASE Ends(t)
    BY <1>1, <1>2, <1>i, <2>3, ThreadStates
  <2>4. CASE MoreAttempts(r.left) /\ thread' = [thread EXCEPT ![t].left = Left(r.left)]
    <3>1. /\ [r EXCEPT !.left = Left(r.left)] \in ThreadState
          /\ [r EXCEPT !.left = Left(r.left)].net = r.net
      BY <2>1, <2>4, AttemptState, ThreadStates
    <3> QED
      BY <1>1, <1>2, <2>4, <3>1
  <2> QED
    BY <1>3, <2>2, <2>3, <2>4 DEF Attempt
<1>4. CASE WriteExpensive(t) \/ UpdateInterfaces(t)
  <2>1. r \in InUpdate
    BY <1>4, <1>r, StateOf DEF WriteExpensive, UpdateInterfaces, At
  <2>2. PICK step \in {"scan", "set"} : Goto(t, step)
    BY <1>4 DEF WriteExpensive, UpdateInterfaces
  <2>3. [r EXCEPT !.at = step] \in ThreadState /\ [r EXCEPT !.at = step].net = r.net
    BY <2>1, UpdateState, ThreadStates
  <2> QED
    BY <1>1, <1>2, <2>2, <2>3 DEF Goto
<1>5. CASE SetDefault(t)
  <2>1. r \in InUpdate
    BY <1>5, <1>r, StateOf DEF SetDefault, At
  <2>2. CASE Ends(t)
    BY <1>1, <1>2, <1>i, <2>2, ThreadStates
  <2>3. CASE /\ Registered # {}
             /\ Becomes(t, [r EXCEPT !.at = "notify", !.todo = Registered])
    <3> DEFINE q == [r EXCEPT !.at = "notify", !.todo = Registered]
    <3>1. Registered \in SUBSET Subscriber
      BY DEF Registered
    <3>2. q \in Telling /\ q.net = r.net
      BY <2>1, <2>3, <3>1, TellState
    <3>3. thread' = [thread EXCEPT ![t] = q]
      BY <2>3 DEF Becomes
    <3> HIDE DEF q
    <3> QED
      BY <1>1, <1>2, <3>2, <3>3, ThreadStates
  <2> QED
    BY <1>5, <2>2, <2>3 DEF SetDefault
<1>6. CASE Notify(t)
  <2>1. r \in Telling
    BY <1>6, <1>r, StateOf DEF Notify, At
  <2>2. CASE Ends(t)
    BY <1>1, <1>2, <1>i, <2>2, ThreadStates
  <2>3. ASSUME NEW s \in r.todo, r.todo # {s}, thread' = [thread EXCEPT ![t].todo = @ \ {s}]
        PROVE  \E q \in ThreadState : Steps(q)
    <3> DEFINE q == [r EXCEPT !.todo = @ \ {s}]
    <3>1. q \in Telling /\ q.net = r.net
      BY <2>1, <2>3, ToldState
    <3>2. thread' = [thread EXCEPT ![t] = q]
      BY <2>3
    <3> HIDE DEF q
    <3> QED
      BY <3>1, <3>2, ThreadStates
  <2> QED
    BY <1>1, <1>2, <1>6, <2>2, <2>3 DEF Notify
<1> QED
  BY <1>3, <1>4, <1>5, <1>6 DEF Run

\* A thread's step keeps the types.
LEMMA RunType ==
  ASSUME TypeOK, NEW t \in Thread, Run(t)
  PROVE  TypeOK'
<1>1. /\ thread' \in [Thread -> ThreadState]
      /\ UNCHANGED <<current, ready, metered, events, listening, callbacks, changes>>
  BY RunEffect DEF TypeOK
<1>2. {raced', everRaced'} \subseteq BOOLEAN
  BY RunEffect DEF Racing, TypeOK
<1>r. /\ thread[t].net \in Target /\ thread[t].expensive \in BOOLEAN
      /\ thread[t].todo \subseteq Subscriber
  BY StateOf DEF TypeOK
<1>6. stale' \in BOOLEAN
  BY Zenon DEF Run, Attempt, WriteExpensive, UpdateInterfaces, SetDefault, Notify, TypeOK
<1>3. missed' \in BOOLEAN /\ isExpensive' \in BOOLEAN
  BY <1>r DEF Run, Attempt, WriteExpensive, Written, UpdateInterfaces, SetDefault, Notify, TypeOK,
     monitor
<1>4. defaultInterface' \in Target /\ told' \in [Subscriber -> Target]
  BY <1>r DEF Run, Attempt, WriteExpensive, UpdateInterfaces, SetDefault, Notify, TypeOK, monitor
<1>5. costly' \subseteq finder' /\ finder' \subseteq Iface
  BY DEF Run, Attempt, WriteExpensive, UpdateInterfaces, SetDefault, Notify, TypeOK, monitor,
     scanned, Expensive, Metered, Visible
<1> QED
  BY <1>1, <1>2, <1>3, <1>4, <1>5, <1>6 DEF TypeOK

\* The core starts with typed values.
LEMMA InitType ==
  ASSUME Init
  PROVE  TypeOK
<1>1. thread \in [Thread -> ThreadState]
  BY ThreadStates DEF Init, Target
<1>2. events \in Seq(Target)
  BY DEF Init
<1>3. /\ listening \in BOOLEAN /\ isExpensive \in BOOLEAN
      /\ {raced, everRaced, missed, stale} \subseteq BOOLEAN
  BY Zenon DEF Init
<1>6. changes \in 0 .. MaxChanges
  BY BoundsAssumption DEF Init
<1>4. /\ callbacks \in [Subscriber -> {"off", "new", "on"}]
      /\ told \in [Subscriber -> Target]
  BY DEF Init, Target
<1>5. /\ current \in Target /\ defaultInterface \in Target
      /\ ready \subseteq Iface /\ metered \subseteq Iface
      /\ costly \subseteq finder /\ finder \subseteq Iface
  BY DEF Init, Target
<1> QED
  BY <1>1, <1>2, <1>3, <1>4, <1>5, <1>6 DEF TypeOK

\* Subscribers touch nothing but what they are told.
LEMMA SubscriberType ==
  ASSUME TypeOK, NEW s \in Subscriber,
         RegisterCallback(s) \/ DefaultInterface(s) \/ UnregisterCallback(s)
  PROVE  TypeOK' /\ UNCHANGED reports
<1>1. callbacks' \in [Subscriber -> {"off", "new", "on"}] /\ told' \in [Subscriber -> Target]
  BY DEF RegisterCallback, DefaultInterface, UnregisterCallback, TypeOK
<1>2. changes' \in 0 .. MaxChanges
  BY BoundsAssumption DEF RegisterCallback, DefaultInterface, UnregisterCallback, Change, TypeOK
<1>3. UNCHANGED reports
  BY DEF RegisterCallback, DefaultInterface, UnregisterCallback
<1> QED
  BY <1>1, <1>2, <1>3 DEF TypeOK, reports, world, scanned, observed

\* Every reachable state of InterfaceMonitor has the declared types.
THEOREM TypeCorrect == Spec => []TypeOK
<1>1. Init => TypeOK
  BY InitType
<1>2. TypeOK /\ [Next]_vars => TypeOK'
  <2> SUFFICES ASSUME TypeOK, [Next]_vars PROVE TypeOK'
    OBVIOUS
  <2>1. CASE UNCHANGED vars
    BY <2>1 DEF TypeOK, vars, world, monitor, scanned, observed
  <2> QED
    BY <2>1, AndroidType, CallbackType, SubscriberType, RunType DEF Next
<1> QED
  BY <1>1, <1>2, PTL DEF Spec

-----------------------------------------------------------------------------
(* What the core knows of Android's default network.                        *)
(* FollowsNetwork speaks of the quiet states only; what leads there is that *)
(* the last event, or else the report that runs, is about the network that  *)
(* is the default one now, and that this report ran alone.                  *)

Busy(t) == ~At(t, "idle")

\* The last callback that waits is about the current network, ...
LastEvent == listening /\ events # <<>> => events[Len(events)] = current

\* ... or none does, and so is the report that runs.
OnCurrent ==
  listening /\ events = <<>> /\ Busy("connectivity") => thread["connectivity"].net = current

\* The report of setListener is never the last one without having run next to another.
LateStarter ==
  listening /\ events = <<>> /\ Busy("starter") => Busy("connectivity") \/ raced

\* Next to it, a callback has taken no step yet, or is marked.
FirstStep ==
  Busy("connectivity") /\ Busy("starter") /\ ~raced =>
    \/ At("connectivity", "attempt")
    \/ At("connectivity", "write") /\ thread["connectivity"].net = NoIface

\* What the scans leave out stays out of the list, and of the monitor.
NoTunnel == defaultInterface \notin Hidden /\ finder \cap Hidden = {}

\* How far the last report has come, if it runs alone
Alone == listening /\ events = <<>> /\ ~raced
Progress ==
  LET c == "connectivity"
  IN Alone =>
       /\ At(c, "write") /\ current # NoIface => (thread[c].expensive <=> current \in metered)
       /\ (At(c, "scan") \/ At(c, "set") \/ At(c, "notify")) /\ current # NoIface =>
            (isExpensive <=> current \in metered)
       /\ At(c, "set") /\ current \in finder /\ ~stale =>
            (current \in costly <=> current \in metered)
       /\ At(c, "notify") =>
            /\ defaultInterface = current
            /\ current # NoIface /\ ~stale => (current \in costly <=> current \in metered)

NetInv ==
  /\ TypeOK
  /\ NoTunnel
  /\ LastEvent /\ OnCurrent /\ LateStarter /\ FirstStep
  /\ Progress
  /\ FollowsNetwork

\* An event is queued behind the others.
LEMMA Queued ==
  ASSUME NEW e \in Target, NEW q \in Seq(Target)
  PROVE  /\ Append(q, e) # <<>>
         /\ Append(q, e)[Len(Append(q, e))] = e
  OBVIOUS

\* The one that waits alone is the first and the last.
LEMMA LastOne ==
  ASSUME NEW q \in Seq(Target), q # <<>>, Tail(q) = <<>>
  PROVE  Head(q) = q[Len(q)]
<1>1. Len(Tail(q)) = Len(q) - 1
  OBVIOUS
<1>2. Len(Tail(q)) = 0
  BY Len(<<>>) = 0
<1>3. Len(q) = 1
  BY <1>1, <1>2
<1> QED
  BY <1>3

\* A change on Android's side leaves no report in force: its event is the last one.
LEMMA AndroidNet ==
  ASSUME NetInv,
         \/ \E i \in Iface, isReady, oldGoes \in BOOLEAN : BecomeDefault(i, isReady, oldGoes)
         \/ BecomeReady \/ LoseDefault \/ ChangeMetered \/ CloseMonitor
         \/ \E i \in Iface, heard \in BOOLEAN : ChangeBelow(i, heard)
  PROVE  NetInv'
<1>1. TypeOK'
  BY AndroidType DEF NetInv
<1>2. UNCHANGED <<thread, monitor, observed>>
  BY DEF BecomeDefault, BecomeReady, LoseDefault, ChangeMetered, CloseMonitor, ChangeBelow
<1>n. NoTunnel'
  BY <1>2 DEF NetInv, NoTunnel, monitor, scanned
<1>3. FirstStep'
  BY <1>2 DEF NetInv, FirstStep, Busy, At, observed
<1>4. CASE ~listening'
  BY <1>1, <1>n, <1>3, <1>4 DEF NetInv, NoTunnel, LastEvent, OnCurrent, LateStarter, Alone, Progress,
     FollowsNetwork, Quiet
<1>5. CASE listening /\ listening' /\ events' = Append(events, current')
  <2>1. events' # <<>> /\ events'[Len(events')] = current'
    BY <1>1, <1>5, Queued DEF NetInv, TypeOK
  <2> QED
    BY <1>1, <1>n, <1>3, <2>1 DEF NetInv, NoTunnel, LastEvent, OnCurrent, LateStarter, Alone, Progress,
       FollowsNetwork, Quiet
<1>6. CASE UNCHANGED <<current, metered, events, listening>>
  BY <1>1, <1>n, <1>2, <1>3, <1>6 DEF NetInv, LastEvent, OnCurrent, LateStarter, Busy, At, Alone,
     Progress, FollowsNetwork, Quiet, monitor, scanned, observed
<1> QED
  BY <1>4, <1>5, <1>6 DEF BecomeDefault, BecomeReady, LoseDefault, ChangeMetered, CloseMonitor,
     ChangeBelow, Heard

\* A callback begins with the event that was first: if it was also the last, with the
\* current network.
LEMMA CallbackNet ==
  ASSUME NetInv, Callback
  PROVE  NetInv'
<1> DEFINE c == "connectivity"
<1>1. TypeOK'
  BY CallbackType DEF NetInv
<1>2. /\ thread[c].at = "idle" /\ events # <<>> /\ events' = Tail(events) /\ ~raced'
      /\ UNCHANGED <<current, listening>>
  BY DEF Callback, At, world
<1>3. LastEvent'
  BY <1>1, <1>2 DEF NetInv, TypeOK, LastEvent
<1>n. NoTunnel'
  BY DEF NetInv, NoTunnel, Callback, monitor, scanned
<1>4. CASE ~listening
  <2>1. UNCHANGED thread
    BY <1>4 DEF Callback
  <2>2. ~listening'
    BY <1>2, <1>4
  <2> QED
    BY <1>1, <1>2, <1>3, <1>n, <2>1, <2>2 DEF NetInv, NoTunnel, OnCurrent, LateStarter, FirstStep, Busy, At, Alone,
       Progress, FollowsNetwork, Quiet
<1>5. CASE listening
  <2>1. Head(events) \in Target
    BY <1>2 DEF NetInv, TypeOK
  <2>2. PICK q \in {Updating(NoIface, FALSE), Reporting(Head(events))} :
          /\ thread' = [thread EXCEPT ![c] = q]
          /\ Head(events) = NoIface => q = Updating(NoIface, FALSE)
          /\ Head(events) # NoIface => q = Reporting(Head(events))
    BY <1>5 DEF Callback, Becomes
  <2>3. q.net = Head(events) /\ (q.at = "attempt" \/ (q.at = "write" /\ q.net = NoIface))
    BY <2>2 DEF Updating, Reporting
  <2>4. thread'[c] = q
    BY <2>2 DEF NetInv, TypeOK, Thread
  <2>5. OnCurrent'
    <3>1. events' = <<>> => Head(events) = events[Len(events)]
      BY <1>2, LastOne DEF NetInv, TypeOK
    <3>2. events[Len(events)] = current
      BY <1>2, <1>5 DEF NetInv, LastEvent
    <3> QED
      BY <1>2, <2>3, <2>4, <3>1, <3>2 DEF OnCurrent
  <2>6. LateStarter' /\ FirstStep'
    BY <2>3, <2>4 DEF LateStarter, FirstStep, Busy, At
  <2>7. Progress'
    BY <2>3, <2>4, <2>5 DEF Progress, Alone, OnCurrent, Busy, At
  <2>8. FollowsNetwork'
    BY <1>n, <2>3, <2>4 DEF FollowsNetwork, NoTunnel, Quiet, At, Thread
  <2> QED
    BY <1>1, <1>3, <1>n, <2>5, <2>6, <2>7, <2>8 DEF NetInv
<1> QED
  BY <1>4, <1>5

\* A report of a tunnel fails in the list, whoever runs it.
LEMMA TunnelNet ==
  ASSUME NetInv, NEW t \in Thread, Run(t)
  PROVE  NoTunnel'
<1>1. CASE UpdateInterfaces(t)
  BY <1>1 DEF NetInv, NoTunnel, UpdateInterfaces, Visible, scanned
<1>2. CASE SetDefault(t)
  BY <1>2, IfaceAssumption DEF NetInv, NoTunnel, SetDefault, scanned
<1> QED
  BY <1>1, <1>2 DEF NetInv, NoTunnel, Run, Attempt, WriteExpensive, Notify, monitor, scanned

\* A step next to the other thread leaves the marks that excuse it.
LEMMA RacingNet ==
  ASSUME NetInv, NEW t \in Thread, Run(t),
         t = "starter" \/ Busy("starter")
  PROVE  NetInv'
<1> DEFINE c == "connectivity"
           s == "starter"
<1>1. TypeOK'
  BY RunType DEF NetInv
<1>2. PICK q \in ThreadState : /\ thread' = [thread EXCEPT ![t] = q]
                               /\ q.at # "idle" => q.net = thread[t].net
  BY RunEffect DEF NetInv
<1>3. Racing /\ thread[t].at # "idle" /\ UNCHANGED <<current, metered, events, listening>>
  BY RunEffect DEF NetInv
<1>4. LastEvent'
  BY <1>3 DEF NetInv, LastEvent
<1>5. thread'[t] = q /\ \A u \in Thread \ {t} : thread'[u] = thread[u]
  BY <1>2 DEF NetInv, TypeOK
<1>6. OnCurrent'
  BY <1>2, <1>3, <1>5 DEF NetInv, OnCurrent, Busy, At, Thread
<1>7. raced' \/ (t = s /\ ~Busy(c) /\ ~Busy(c)')
  BY <1>3, <1>5 DEF Racing, Busy, At, Thread
<1>8. raced' \/ ~(listening /\ events = <<>>)
  BY <1>3, <1>7 DEF NetInv, LateStarter, Racing, Busy, At
<1>9. LateStarter' /\ FirstStep'
  BY <1>3, <1>7, <1>8 DEF LateStarter, FirstStep
<1>10. Progress' /\ FollowsNetwork'
  BY <1>3, <1>8, TunnelNet DEF Progress, Alone, FollowsNetwork, NoTunnel, Quiet
<1> QED
  BY TunnelNet, <1>1, <1>4, <1>6, <1>9, <1>10 DEF NetInv

\* A report that runs alone brings its metering into the monitor, then into the list of
\* interfaces, then sets the interface it is about.
LEMMA AloneNet ==
  ASSUME NetInv, Run("connectivity"), ~Busy("starter")
  PROVE  NetInv'
<1> DEFINE c == "connectivity"
           s == "starter"
           r == thread[c]
<1>0. c \in Thread /\ s \in Thread
  BY DEF Thread
<1>1. TypeOK'
  BY <1>0, RunType DEF NetInv
<1>2. PICK q \in ThreadState : thread' = [thread EXCEPT ![c] = q] /\ (q.at # "idle" => q.net = r.net)
  BY <1>0, RunEffect DEF NetInv
<1>3. Racing /\ r.at # "idle" /\ UNCHANGED <<current, metered, ready, events, listening>>
  BY <1>0, RunEffect DEF NetInv
<1>4. thread'[c] = q /\ thread'[s] = thread[s]
  BY <1>0, <1>2 DEF NetInv, TypeOK
<1>5. LastEvent' /\ OnCurrent'
  BY <1>2, <1>3, <1>4 DEF NetInv, LastEvent, OnCurrent, Busy, At
<1>n. NoTunnel' /\ defaultInterface' \notin Hidden
  BY <1>0, TunnelNet DEF NoTunnel
<1>6. LateStarter' /\ FirstStep'
  BY <1>4 DEF LateStarter, FirstStep, Busy, At
<1>7. ASSUME Alone' PROVE Progress' /\ FollowsNetwork'
  <2>1. Alone /\ r.net = current /\ listening
    <3>1. ~raced
      BY <1>3, <1>7 DEF Alone, Racing
    <3> QED
      BY <1>3, <1>7, <3>1 DEF NetInv, Alone, OnCurrent, Busy, At
  <2>2. r \in ThreadState
    BY <1>0 DEF NetInv, TypeOK
  <2>3. CASE Attempt(c)
    <3>1. thread' = [thread EXCEPT ![c] = Updating(current, current \in metered)]
          => (q.at = "write" /\ (q.expensive <=> current \in metered))
      <4>1. Updating(current, current \in metered).at = "write"
        BY DEF Updating
      <4>2. Updating(current, current \in metered).expensive = (current \in metered)
        BY DEF Updating
      <4> QED
        BY <1>0, <1>4, <4>1, <4>2 DEF NetInv, TypeOK
    <3>2. q.at = "attempt" \/ (q.at = "write" /\ (q.expensive <=> current \in metered))
          \/ (q.at = "idle" /\ missed')
      <4>1. CASE MoreAttempts(r.left) /\ thread' = [thread EXCEPT ![c].left = Left(r.left)]
        <5>1. r \in Attempting
          BY <2>2, <2>3, StateOf DEF Attempt, At
        <5>2. [r EXCEPT !.left = Left(r.left)].at = "attempt"
          BY <4>1, <5>1, AttemptState
        <5>3. q = [r EXCEPT !.left = Left(r.left)]
          BY <1>0, <1>4, <4>1 DEF NetInv, TypeOK
        <5> QED
          BY <5>2, <5>3
      <4>2. CASE Ends(c) /\ missed'
        BY <1>0, <1>4, <4>2 DEF Ends, Becomes, Idle, NetInv, TypeOK
      <4> QED
        BY <2>1, <2>3, <3>1, <4>1, <4>2 DEF Attempt, Becomes
    <3>3. Progress'
      BY <1>3, <1>4, <3>2 DEF Progress, At
    <3>4. FollowsNetwork'
      BY <1>n, <1>4, <3>2, <1>0 DEF FollowsNetwork, Quiet, At
    <3> QED
      BY <3>3, <3>4
  <2>4. CASE WriteExpensive(c)
    <3>1. r \in InUpdate /\ r.at = "write"
      BY <2>2, <2>4, StateOf DEF WriteExpensive, At
    <3>2. q = [r EXCEPT !.at = "scan"]
      BY <1>0, <1>4, <2>4 DEF WriteExpensive, Goto, NetInv, TypeOK
    <3>3. q.at = "scan"
      BY <3>1, <3>2, UpdateState
    <3>4. isExpensive' = r.expensive
      BY <2>4 DEF WriteExpensive, Written
    <3>5. current # NoIface => (r.expensive <=> current \in metered)
      BY <2>1, <3>1 DEF NetInv, Progress, At
    <3> QED
      BY <1>n, <1>0, <1>3, <1>4, <3>3, <3>4, <3>5 DEF Progress, FollowsNetwork, Quiet, At
  <2>5. CASE UpdateInterfaces(c)
    <3>1. r \in InUpdate /\ r.at = "scan"
      BY <2>2, <2>5, StateOf DEF UpdateInterfaces, At
    <3>2. q = [r EXCEPT !.at = "set"]
      BY <1>0, <1>4, <2>5 DEF UpdateInterfaces, Goto, NetInv, TypeOK
    <3>3. q.at = "set"
      BY <3>1, <3>2, UpdateState
    <3>4. current # NoIface => (isExpensive <=> current \in metered)
      BY <2>1, <3>1 DEF NetInv, Progress, At
    <3>5. isExpensive' = isExpensive
      BY <2>5 DEF UpdateInterfaces
    <3>6. current \in finder' /\ ~stale' => (current \in costly' <=> current \in metered)
      <4> SUFFICES ASSUME current \in finder', ~stale'
                   PROVE  current \in costly' <=> current \in metered
        OBVIOUS
      <4>1. PICK found \in SUBSET Visible : finder' = found /\ costly' = Expensive \cap found
        BY <2>5 DEF UpdateInterfaces
      <4>2. current \in Visible /\ current # NoIface
        BY <4>1, IfaceAssumption DEF NetInv, TypeOK, Visible
      <4> QED
        BY <3>4, <4>1, <4>2 DEF Expensive, Metered
    <3> QED
      BY <1>n, <1>0, <1>3, <1>4, <3>3, <3>4, <3>5, <3>6 DEF Progress, FollowsNetwork, Quiet, At
  <2>6. CASE SetDefault(c)
    <3>1. r \in InUpdate /\ r.at = "set"
      BY <2>2, <2>6, StateOf DEF SetDefault, At
    <3>2. /\ current # NoIface => (isExpensive <=> current \in metered)
          /\ current \in finder /\ ~stale => (current \in costly <=> current \in metered)
      BY <2>1, <3>1 DEF NetInv, Progress, At
    <3>3. UNCHANGED <<isExpensive, finder, costly, stale>>
      BY <2>6 DEF SetDefault, scanned
    <3>4. CASE current \notin finder \cup {NoIface}
      <4>1. q.at = "idle" /\ missed'
        BY <1>0, <1>4, <2>1, <2>6, <3>4 DEF SetDefault, Ends, Becomes, Idle, NetInv, TypeOK
      <4> QED
        BY <1>n, <1>4, <4>1 DEF Progress, FollowsNetwork, Quiet, At
    <3>5. CASE current \in finder \cup {NoIface}
      <4>1. defaultInterface' = current
        BY <2>1, <2>6, <3>5 DEF SetDefault
      <4>2. q.at \in {"idle", "notify"}
        <5>1. CASE Ends(c)
          BY <1>0, <1>4, <5>1 DEF Ends, Becomes, Idle, NetInv, TypeOK
        <5>2. CASE /\ Registered # {}
                   /\ Becomes(c, [r EXCEPT !.at = "notify", !.todo = Registered])
          <6>1. Registered \in SUBSET Subscriber
            BY DEF Registered
          <6>2. [r EXCEPT !.at = "notify", !.todo = Registered].at = "notify"
            BY <3>1, <5>2, <6>1, TellState
          <6> QED
            BY <1>0, <1>4, <5>2, <6>2 DEF Becomes, NetInv, TypeOK
        <5> QED
          BY <2>6, <5>1, <5>2 DEF SetDefault
      <4>3. current # NoIface /\ ~stale' => (current \in costly' <=> current \in metered)
        BY <3>2, <3>3, <3>5
      <4> QED
        BY <1>n, <1>3, <1>4, <3>2, <3>3, <4>1, <4>2, <4>3 DEF Progress, FollowsNetwork, Quiet, At
    <3> QED
      BY <3>4, <3>5
  <2>7. CASE Notify(c)
    <3>1. r \in Telling /\ r.at = "notify"
      BY <2>2, <2>7, StateOf DEF Notify, At
    <3>2. /\ current # NoIface =>
               /\ isExpensive <=> current \in metered
               /\ ~stale => (current \in costly <=> current \in metered)
          /\ defaultInterface = current
      BY <2>1, <3>1 DEF NetInv, Progress, At
    <3>3. UNCHANGED <<isExpensive, costly, stale, defaultInterface>>
      BY <2>7 DEF Notify, scanned
    <3>4. q.at \in {"idle", "notify"}
      <4>1. CASE Ends(c)
        BY <1>0, <1>4, <4>1 DEF Ends, Becomes, Idle, NetInv, TypeOK
      <4>2. ASSUME NEW x \in r.todo, r.todo # {x}, thread' = [thread EXCEPT ![c].todo = @ \ {x}]
            PROVE  q.at = "notify"
        <5>1. [r EXCEPT !.todo = @ \ {x}].at = "notify"
          BY <3>1, <4>2, ToldState
        <5> QED
          BY <1>0, <1>4, <4>2, <5>1 DEF NetInv, TypeOK
      <4> QED
        BY <2>7, <4>1, <4>2 DEF Notify
    <3>5. Progress'
      BY <1>3, <1>4, <3>2, <3>3, <3>4 DEF Progress, At
    <3>6. FollowsNetwork'
      BY <1>n, <1>3, <3>2, <3>3 DEF FollowsNetwork
    <3> QED
      BY <3>5, <3>6
  <2> QED
    BY <2>3, <2>4, <2>5, <2>6, <2>7 DEF Run
<1>8. ~Alone' => Progress' /\ FollowsNetwork'
  BY <1>n DEF Progress, Alone, FollowsNetwork, Quiet
<1> QED
  BY <1>n, <1>1, <1>5, <1>6, <1>7, <1>8 DEF NetInv

\* The core never takes a tunnel for its default interface; and whatever networks come, go
\* and change meanwhile, when all is quiet and the last report has found its interface, the
\* core's default interface and its metering are those of Android's default network.
THEOREM NetworkFollowed == Spec => []FollowsNetwork
<1>1. Init => NetInv
  <2> SUFFICES ASSUME Init PROVE NetInv
    OBVIOUS
  <2>1. TypeOK
    BY InitType
  <2>2. thread["connectivity"] = Idle
    BY DEF Init, Thread
  <2>3. ~At("connectivity", "notify") /\ ~Busy("connectivity")
    BY <2>2 DEF Idle, Busy, At
  <2>4. current = NoIface \/ events # <<>>
    BY DEF Init
  <2>5. LastEvent
    BY DEF Init, LastEvent
  <2>6. current = NoIface => ~Busy("starter")
    BY DEF Init, Busy, At, Thread, Idle
  <2>7. Progress /\ FirstStep /\ OnCurrent
    BY <2>2, <2>3 DEF Progress, FirstStep, OnCurrent, Busy, At, Idle
  <2>8. LateStarter
    BY <2>4, <2>6 DEF LateStarter
  <2>9. NoTunnel
    BY IfaceAssumption DEF Init, NoTunnel
  <2>10. FollowsNetwork
    BY <2>4, <2>9 DEF FollowsNetwork, NoTunnel, Quiet, Init
  <2> QED
    BY <2>1, <2>5, <2>7, <2>8, <2>9, <2>10 DEF NetInv
<1>2. NetInv /\ [Next]_vars => NetInv'
  <2> SUFFICES ASSUME NetInv, [Next]_vars PROVE NetInv'
    OBVIOUS
  <2>1. ASSUME NEW t \in Thread, Run(t) PROVE NetInv'
    BY <2>1, RacingNet, AloneNet DEF Thread
  <2>2. ASSUME TypeOK', UNCHANGED reports PROVE NetInv'
    BY <2>2 DEF NetInv, NoTunnel, LastEvent, OnCurrent, LateStarter, FirstStep, Busy, At, Alone, Progress,
       FollowsNetwork, Quiet, reports, world, scanned, observed
  <2>3. ASSUME NEW s \in Subscriber,
               RegisterCallback(s) \/ DefaultInterface(s) \/ UnregisterCallback(s)
        PROVE  NetInv'
    BY <2>2, <2>3, SubscriberType DEF NetInv
  <2>4. CASE UNCHANGED vars
    <3>1. TypeOK' /\ UNCHANGED reports
      BY <2>4 DEF NetInv, TypeOK, vars, reports, world, monitor, scanned, observed
    <3> QED
      BY <2>2, <3>1
  <2> QED
    BY <2>1, <2>3, <2>4, AndroidNet, CallbackNet DEF Next
<1>3. NetInv => FollowsNetwork
  BY DEF NetInv
<1> QED
  BY <1>1, <1>2, <1>3, PTL DEF Spec

-----------------------------------------------------------------------------
(* What the subscribers know of the core's default interface.               *)

\* Whom the callbacks still have to reach: without races there is one update at a time.
OneUpdate ==
  ~everRaced => \A t \in Thread : At(t, "notify") => thread[t].net = defaultInterface

ToldOrTodo ==
  ~everRaced =>
    \A s \in Subscriber : callbacks[s] = "on" =>
      told[s] = defaultInterface \/ \E t \in Thread : s \in thread[t].todo

SubscribersInv == TypeOK /\ OneUpdate /\ ToldOrTodo

\* A thread that steps while no two ever ran at once steps alone.
LEMMA NoOther ==
  ASSUME TypeOK, NEW t \in Thread, Run(t), ~everRaced'
  PROVE  ~everRaced /\ \A u \in Thread \ {t} : thread[u] = Idle /\ thread'[u] = Idle
<1>1. Racing /\ thread[t].at # "idle"
  BY RunEffect
<1>2. ~everRaced /\ \E u \in Thread : At(u, "idle")
  BY <1>1 DEF Racing
<1>3. ASSUME NEW u \in Thread \ {t} PROVE thread[u] = Idle
  <2>1. thread[u].at = "idle"
    BY <1>1, <1>2, <1>3 DEF At, Thread
  <2> QED
    BY <2>1, StateOf DEF TypeOK
<1>4. PICK q \in ThreadState : thread' = [thread EXCEPT ![t] = q]
  BY RunEffect
<1> QED
  BY <1>2, <1>3, <1>4 DEF TypeOK

\* An update sets the interface and takes everybody who is registered; each of them is then
\* told that interface.
LEMMA RunSubscribers ==
  ASSUME SubscribersInv, NEW t \in Thread, Run(t)
  PROVE  SubscribersInv'
<1> DEFINE r == thread[t]
<1>1. TypeOK'
  BY RunType DEF SubscribersInv
<1> SUFFICES ASSUME ~everRaced' PROVE OneUpdate' /\ ToldOrTodo'
  BY <1>1 DEF SubscribersInv, OneUpdate, ToldOrTodo
<1>2. ~everRaced /\ \A u \in Thread \ {t} : thread[u] = Idle /\ thread'[u] = Idle
  BY NoOther DEF SubscribersInv
<1>3. r \in ThreadState /\ callbacks' = callbacks
  BY RunEffect DEF SubscribersInv, TypeOK
<1>4. \A u \in Thread \ {t} : u # t /\ ~At(u, "notify")' /\ thread[u].todo = {}
  BY <1>2 DEF At, Idle
<1>5. \A q : thread' = [thread EXCEPT ![t] = q] => thread'[t] = q
  BY DEF SubscribersInv, TypeOK
<1>e. Ends(t) => thread'[t] = Idle
  BY <1>5 DEF Ends, Becomes
<1>i. Ends(t) => ~At(t, "notify")'
  BY <1>e DEF Idle, At
<1>6. CASE /\ UNCHANGED <<defaultInterface, told>> /\ r.at # "notify"
           /\ ~At(t, "notify")'
  <2>1. r.todo = {}
    BY <1>3, <1>6, StateOf
  <2>2. \A s \in Subscriber : callbacks[s] = "on" => told[s] = defaultInterface
    BY <1>2, <1>4, <2>1 DEF SubscribersInv, ToldOrTodo
  <2> QED
    BY <1>3, <1>4, <1>6, <2>2 DEF OneUpdate, ToldOrTodo
<1>7. CASE Attempt(t)
  <2>1. r.at = "attempt" /\ UNCHANGED <<defaultInterface, told>>
    BY <1>7 DEF Attempt, At, monitor
  <2>2. ~At(t, "notify")'
    <3>1. CASE Becomes(t, Updating(r.net, r.net \in metered))
      <4>1. thread'[t] = Updating(r.net, r.net \in metered)
        BY <1>5, <3>1 DEF Becomes
      <4> QED
        BY <4>1 DEF Updating, At
    <3>2. CASE Ends(t)
      BY <1>i, <3>2
    <3>3. CASE MoreAttempts(r.left) /\ thread' = [thread EXCEPT ![t].left = Left(r.left)]
      <4>1. r \in Attempting
        BY <1>3, <2>1, StateOf
      <4>2. [r EXCEPT !.left = Left(r.left)].at = "attempt"
        BY <3>3, <4>1, AttemptState
      <4> QED
        BY <1>5, <3>3, <4>2 DEF At
    <3> QED
      BY <1>7, <3>1, <3>2, <3>3 DEF Attempt
  <2> QED
    BY <1>6, <2>1, <2>2
<1>8. CASE WriteExpensive(t) \/ UpdateInterfaces(t)
  <2>1. r.at \in {"write", "scan"} /\ UNCHANGED <<defaultInterface, told>>
    BY <1>8 DEF WriteExpensive, UpdateInterfaces, At
  <2>2. PICK step \in {"scan", "set"} : Goto(t, step)
    BY <1>8 DEF WriteExpensive, UpdateInterfaces
  <2>3. [r EXCEPT !.at = step].at = step
    BY <1>3, <2>1, StateOf, UpdateState
  <2>4. ~At(t, "notify")'
    BY <1>5, <2>2, <2>3 DEF Goto, At
  <2> QED
    BY <1>6, <2>1, <2>4
<1>9. CASE SetDefault(t)
  <2>1. r \in InUpdate /\ r.at = "set" /\ told' = told
    BY <1>3, <1>9, StateOf DEF SetDefault, At
  <2>2. CASE Ends(t)
    <3>1. ~At(t, "notify")'
      BY <1>i, <2>2
    <3>2. CASE defaultInterface' = defaultInterface
      BY <1>6, <2>1, <3>1, <3>2
    <3>3. CASE Registered = {}
      BY <1>3, <1>4, <3>1, <3>3 DEF Registered, OneUpdate, ToldOrTodo
    <3>4. defaultInterface' = defaultInterface \/ Registered = {}
      <4>1. ~Becomes(t, [r EXCEPT !.at = "notify", !.todo = Registered]) \/ Registered = {}
        <5> SUFFICES ASSUME Registered # {},
                            Becomes(t, [r EXCEPT !.at = "notify", !.todo = Registered])
                     PROVE  FALSE
          OBVIOUS
        <5>1. Registered \in SUBSET Subscriber
          BY DEF Registered
        <5>2. [r EXCEPT !.at = "notify", !.todo = Registered].at = "notify"
          BY <2>1, <5>1, TellState
        <5> QED
          BY <1>5, <3>1, <5>2 DEF Becomes, At
      <4> QED
        BY <1>9, <4>1 DEF SetDefault, Unchanged
    <3> QED
      BY <3>2, <3>3, <3>4
  <2>3. CASE /\ Registered # {} /\ defaultInterface' = r.net
             /\ Becomes(t, [r EXCEPT !.at = "notify", !.todo = Registered])
    <3> DEFINE q == [r EXCEPT !.at = "notify", !.todo = Registered]
    <3>1. Registered \in SUBSET Subscriber
      BY DEF Registered
    <3>2. q.net = r.net /\ q.todo = Registered
      BY <2>1, <2>3, <3>1, TellState
    <3>3. thread'[t] = q
      BY <1>5, <2>3 DEF Becomes
    <3> HIDE DEF q
    <3>4. thread'[t].net = defaultInterface' /\ thread'[t].todo = Registered
      BY <2>3, <3>2, <3>3
    <3> QED
      BY <1>3, <1>4, <3>4 DEF OneUpdate, ToldOrTodo, Registered
  <2> QED
    BY <1>9, <2>2, <2>3 DEF SetDefault
<1>10. CASE Notify(t)
  <2>1. r \in Telling /\ r.at = "notify" /\ UNCHANGED defaultInterface
    BY <1>3, <1>10, StateOf DEF Notify, At
  <2>2. r.net = defaultInterface
    BY <1>2, <2>1 DEF SubscribersInv, OneUpdate, At
  <2>3. PICK s \in r.todo :
          /\ told' = [told EXCEPT ![s] = r.net]
          /\ IF r.todo = {s} THEN Ends(t)
             ELSE thread' = [thread EXCEPT ![t].todo = @ \ {s}]
    BY <1>10 DEF Notify
  <2>4. thread'[t].todo = r.todo \ {s} /\ (At(t, "notify")' => thread'[t].net = r.net)
    <3>1. CASE r.todo = {s}
      BY <1>e, <1>i, <2>3, <3>1 DEF Idle
    <3>2. CASE r.todo # {s}
      <4> DEFINE q == [r EXCEPT !.todo = @ \ {s}]
      <4>1. q.net = r.net /\ q.todo = r.todo \ {s}
        BY <2>1, <3>2, ToldState
      <4>2. thread'[t] = q
        BY <1>5, <2>3, <3>2
      <4> HIDE DEF q
      <4> QED
        BY <4>1, <4>2
    <3> QED
      BY <3>1, <3>2
  <2>5. OneUpdate'
    BY <1>4, <2>1, <2>2, <2>4 DEF OneUpdate
  <2>6. ASSUME NEW x \in Subscriber, callbacks'[x] = "on"
        PROVE  told'[x] = defaultInterface' \/ x \in thread'[t].todo
    <3>1. told[x] = defaultInterface \/ x \in r.todo
      BY <1>2, <1>3, <1>4, <2>6 DEF SubscribersInv, ToldOrTodo
    <3> QED
      BY <2>1, <2>2, <2>3, <2>4, <2>6, <3>1 DEF SubscribersInv, TypeOK
  <2> QED
    BY <2>5, <2>6 DEF ToldOrTodo
<1> QED
  BY <1>7, <1>8, <1>9, <1>10 DEF Run

\* Who has read the default interface, or was told one, knows the one that is set, once no
\* update runs: for any number of subscribers, that come and go in between.
THEOREM SubscribersInformed == Spec => []SubscribersAgree
<1>1. Init => SubscribersInv
  <2> SUFFICES ASSUME Init PROVE SubscribersInv
    OBVIOUS
  <2>1. \A t \in Thread : ~At(t, "notify")
    BY DEF Init, At, Idle, Reporting
  <2>2. \A s \in Subscriber : told[s] = defaultInterface
    BY DEF Init
  <2> QED
    BY <2>1, <2>2, InitType DEF SubscribersInv, OneUpdate, ToldOrTodo
<1>2. SubscribersInv /\ [Next]_vars => SubscribersInv'
  <2> SUFFICES ASSUME SubscribersInv, [Next]_vars PROVE SubscribersInv'
    OBVIOUS
  <2>1. ASSUME TypeOK', UNCHANGED <<thread, monitor, everRaced>> PROVE SubscribersInv'
    BY <2>1 DEF SubscribersInv, OneUpdate, ToldOrTodo, At, monitor
  <2>2. CASE \/ \E i \in Iface, isReady, oldGoes \in BOOLEAN : BecomeDefault(i, isReady, oldGoes)
             \/ BecomeReady \/ LoseDefault \/ ChangeMetered \/ CloseMonitor
             \/ \E i \in Iface, heard \in BOOLEAN : ChangeBelow(i, heard)
    <3>1. UNCHANGED <<thread, monitor, everRaced>>
      BY <2>2 DEF BecomeDefault, BecomeReady, LoseDefault, ChangeMetered, CloseMonitor, ChangeBelow,
         observed
    <3> QED
      BY <2>1, <2>2, <3>1, AndroidType DEF SubscribersInv
  <2>3. CASE Callback
    <3> DEFINE c == "connectivity"
    <3>1. TypeOK' /\ UNCHANGED <<monitor, everRaced>> /\ thread[c].at = "idle"
      BY <2>3, CallbackType DEF SubscribersInv, Callback, At
    <3>2. thread[c].todo = {}
      BY <3>1, StateOf DEF SubscribersInv, TypeOK, Thread
    <3>3. \A t \in Thread \ {c} : thread'[t] = thread[t]
      BY <2>3 DEF Callback, Becomes, SubscribersInv, TypeOK
    <3>4. ~At(c, "notify")'
      BY <2>3, <3>1 DEF Callback, Becomes, Updating, Reporting, At, SubscribersInv, TypeOK, Thread
    <3> QED
      BY <3>1, <3>2, <3>3, <3>4 DEF SubscribersInv, OneUpdate, ToldOrTodo, At, monitor
  <2>4. ASSUME NEW s \in Subscriber,
               RegisterCallback(s) \/ DefaultInterface(s) \/ UnregisterCallback(s)
        PROVE  SubscribersInv'
    <3>1. TypeOK' /\ UNCHANGED reports
      BY <2>4, SubscriberType DEF SubscribersInv
    <3>2. UNCHANGED <<thread, defaultInterface, everRaced>>
      BY <3>1 DEF reports, observed
    <3>3. \A x \in Subscriber : callbacks'[x] = "on" =>
            told'[x] = defaultInterface \/ (callbacks[x] = "on" /\ told'[x] = told[x])
      BY <2>4 DEF RegisterCallback, DefaultInterface, UnregisterCallback, SubscribersInv, TypeOK
    <3> QED
      BY <3>1, <3>2, <3>3 DEF SubscribersInv, OneUpdate, ToldOrTodo, At
  <2>5. CASE UNCHANGED vars
    BY <2>1, <2>5 DEF SubscribersInv, TypeOK, vars, monitor, scanned, world, observed
  <2> QED
    BY <2>2, <2>3, <2>4, <2>5, RunSubscribers DEF Next
<1>3. SubscribersInv => SubscribersAgree
  <2> SUFFICES ASSUME SubscribersInv, Quiet, ~everRaced, NEW s \in Subscriber, callbacks[s] = "on"
               PROVE  told[s] = defaultInterface
    BY DEF SubscribersAgree
  <2>1. \A t \in Thread : thread[t].todo = {}
    BY StateOf DEF SubscribersInv, TypeOK, Quiet, At
  <2> QED
    BY <2>1 DEF SubscribersInv, ToldOrTodo
<1> QED
  BY <1>1, <1>2, <1>3, PTL DEF Spec
=============================================================================
