---------------------------- MODULE TunnelProofs ----------------------------
(* What holds of Tunnel for every set of nodes, every bound and both        *)
(* platforms; last, that it implements TunnelRequests.                      *)
EXTENDS TunnelRefinement, FiniteSetTheorems, TLAPS

-----------------------------------------------------------------------------
(* The calls on ActivityManager keep its record well formed                *)

\* Messages to the service are messages.
LEMMA MessageType ==
  /\ \A k \in {"create", "stop", "restart", "destroy", "crash"} : Msg(k) \in Message
  /\ \A p \in Profile : Start(p) \in Message
BY DEF Msg, Start, Message, Signal, Request

\* startService and startForegroundService
LEMMA DeliverType ==
  ASSUME NEW a \in Am, NEW m \in Message, NEW promise \in BOOLEAN
  PROVE  Deliver(a, m, promise) \in Am
<1>1. CASE a.record
  <2>1. Deliver(a, m, promise) =
          [a EXCEPT !.started = TRUE, !.inbox = Append(@, m),
                    !.fgRequired = IF promise /\ ~a.foreground THEN TRUE ELSE @]
    BY <1>1 DEF Deliver
  <2>2. Append(a.inbox, m) \in Seq(Message) /\ a.fgRequired \in BOOLEAN
    BY DEF Am
  <2>3. (IF promise /\ ~a.foreground THEN TRUE ELSE a.fgRequired) \in BOOLEAN
    BY <2>2
  <2> DEFINE fg == IF promise /\ ~a.foreground THEN TRUE ELSE a.fgRequired
  <2> HIDE DEF fg
  <2>4. [a EXCEPT !.started = TRUE, !.inbox = Append(@, m), !.fgRequired = fg] \in Am
    BY <2>2, <2>3 DEF Am, fg
  <2> QED
    BY <2>1, <2>4 DEF fg
<1>2. CASE ~a.record
  <2>1. Msg("create") \in Message /\ a.inbox \in Seq(Message)
    BY MessageType DEF Am
  <2>2. a.inbox \o <<Msg("create"), m>> \in Seq(Message)
    BY <2>1
  <2> QED
    BY <1>2, <2>2 DEF Deliver, Am
<1> QED
  BY <1>1, <1>2

\* stopSelf
LEMMA StopSelfType ==
  ASSUME NEW a \in Am, NEW bound \in BOOLEAN
  PROVE  StopSelf(a, bound) \in Am
<1>1. CASE Doomed(a)
  BY <1>1 DEF StopSelf
<1>2. CASE ~Doomed(a) /\ bound
  BY <1>2 DEF StopSelf, Am
<1>3. CASE ~Doomed(a) /\ ~bound
  <2>1. StopSelf(a, bound) =
          [NoRecord EXCEPT !.inbox =
             a.inbox \o <<Msg("destroy")>>
               \o (IF a.fgRequired THEN <<Msg("crash")>> ELSE <<>>)]
    BY <1>3 DEF StopSelf
  <2>2. Msg("destroy") \in Message /\ Msg("crash") \in Message
    BY MessageType
  <2>3. a.inbox \in Seq(Message)
    BY DEF Am
  <2> DEFINE broken == IF a.fgRequired THEN <<Msg("crash")>> ELSE <<>>
  <2>4. broken \in Seq(Message)
    BY <2>2
  <2> HIDE DEF broken
  <2>5. a.inbox \o <<Msg("destroy")>> \o broken \in Seq(Message)
    BY <2>2, <2>3, <2>4
  <2> QED
    BY <2>1, <2>5 DEF NoRecord, Am, broken
<1> QED
  BY <1>1, <1>2, <1>3

\* startForeground
LEMMA PromotedType == ASSUME NEW a \in Am PROVE Promoted(a) \in Am
BY DEF Promoted, Am

\* the result of onStartCommand
LEMMA ReturnedType ==
  ASSUME NEW a \in Am, NEW sticky \in BOOLEAN PROVE Returned(a, sticky) \in Am
BY DEF Returned, Am

\* a service after the death of its process
LEMMA RebornType == ASSUME NEW a \in Am PROVE Reborn(a) \in Am
<1>1. NoRecord \in Am
  BY DEF NoRecord, Am
<1>2. <<Msg("create"), Msg("restart")>> \in Seq(Message)
  BY MessageType
<1> DEFINE queue == <<Msg("create"), Msg("restart")>>
<1> HIDE DEF queue
<1>3. [a EXCEPT !.fgRequired = FALSE, !.foreground = FALSE, !.sticky = FALSE,
                !.inbox = queue] \in Am
  BY <1>2 DEF Am, queue
<1> QED
  BY <1>1, <1>3 DEF Reborn, queue

\* a message leaves the queue
LEMMA ReceivedType ==
  ASSUME am \in Am, am.inbox # <<>>
  PROVE  Received \in Am /\ Head(am.inbox) \in Message
BY DEF Received, Am

\* the rest of a sequence
LEMMA TailType ==
  ASSUME NEW S, NEW s \in Seq(S), s # <<>> PROVE Tail(s) \in Seq(S)
OBVIOUS

\* CoreController's calls
LEMMA ServiceCallType ==
  ASSUME NEW a \in Am
  PROVE  /\ \A p \in Profile : ServiceStart(a, p) \in Am
         /\ ServiceStop(a) \in Am
BY MessageType, DeliverType DEF ServiceStart, ServiceStop

-----------------------------------------------------------------------------
(* Type correctness                                                        *)

\* CoreController.start leaves well-typed state
LEMMA ControllerStartType ==
  ASSUME TypeOK, NEW a \in Am, NEW p \in Profile, ControllerStart(a, p)
  PROVE  /\ am' \in Am
         /\ pendingProfile' \in Profile \cup {NoProfile}
         /\ lostGrant' \in BOOLEAN
         /\ authEvents' \in 0 .. 2
         /\ authReplay' \in BOOLEAN
<1>1. CASE consent
  BY <1>1, ServiceCallType DEF ControllerStart, TypeOK, request, flows
<1>2. CASE ~consent
  <2>1. Emitted \in 0 .. 2
    BY DEF Emitted, TypeOK
  <2> QED
    BY <1>2, <2>1 DEF ControllerStart
<1> QED
  BY <1>1, <1>2

\* No coroutine is suspended
LEMMA NoTasksType == NoTasks \in [Profile -> Nat]
BY DEF NoTasks

\* The state after the death of the process is well typed
LEMMA DieType == TypeOK /\ Die /\ taps' = taps /\ faults' \in 0 .. MaxFaults => TypeOK'
<1> SUFFICES ASSUME TypeOK, Die, taps' = taps, faults' \in 0 .. MaxFaults
             PROVE  TypeOK'
  OBVIOUS
<1>1. am' \in Am
  BY RebornType DEF Die, TypeOK
<1> QED
  <2>1. /\ isRunning' \in BOOLEAN /\ lostGrant' \in BOOLEAN
        /\ authReplay' \in BOOLEAN /\ coreError' \in BOOLEAN
    BY DEF Die
  <2>5. authEvents' \in 0 .. 2
    BY DEF Die
  <2>6. /\ currentProfileId' \in Profile \cup {NoProfile}
        /\ pendingProfile' \in Profile \cup {NoProfile}
    BY DEF Die
  <2>2. toggles' \in [Profile -> Nat] /\ clicks' \in [Profile -> Nat]
    BY NoTasksType DEF Die, NoTasks
  <2>3. /\ svc' \in BOOLEAN /\ boxService' \in Nat /\ tunnelFd' \in Nat
        /\ cores' \subseteq Core /\ iface' \in Nat /\ overlap' \in BOOLEAN
    BY DEF Die, None
  <2>4. /\ consent' \in BOOLEAN /\ dialogs' \in Nat /\ results' \in Seq(BOOLEAN)
        /\ nextBox' \in Nat \ {0} /\ taps' \in 0 .. MaxTaps
    BY DEF Die, TypeOK, auth
  <2> QED
    BY <1>1, <2>1, <2>2, <2>3, <2>4, <2>5, <2>6 DEF TypeOK

\* A handled stop or restart leaves a well-formed record
LEMMA StoppedType ==
  ASSUME TypeOK, NEW k, NextMessage(k)
  PROVE  StopSelf(Returned(Received, FALSE), Bound) \in Am
<1>1. Received \in Am
  BY ReceivedType DEF NextMessage, TypeOK
<1>2. Bound \in BOOLEAN
  BY DEF Bound, TypeOK
<1> QED
  BY <1>1, <1>2, ReturnedType, StopSelfType

\* ACTION_START leaves well-typed state, however far initialize() gets
LEMMA HandleStartType ==
  ASSUME TypeOK, NEW o \in Outcome, HandleStart(o)
  PROVE  TypeOK'
<1> DEFINE m == Head(am.inbox)
           fg == Promoted(Received)
<1>1. m \in Message /\ Received \in Am
  BY ReceivedType DEF HandleStart, NextMessage, TypeOK
<1>2. fg \in Am
  BY <1>1, PromotedType
<1>3. m.profile \in Profile
  BY <1>1 DEF HandleStart, NextMessage, Message, Signal, Request
<1>4. am' \in Am
  <2>1. Bound' \in BOOLEAN
    BY DEF Bound, TypeOK
  <2>2. Returned(fg, TRUE) \in Am /\ Returned(fg, FALSE) \in Am
    BY <1>2, ReturnedType
  <2>3. StopSelf(Returned(fg, FALSE), Bound') \in Am
    BY <2>1, <2>2, StopSelfType
  <2> QED
    BY <2>2, <2>3 DEF HandleStart
<1>5. isRunning' \in BOOLEAN /\ currentProfileId' \in Profile \cup {NoProfile}
  BY <1>3 DEF HandleStart, TypeOK, core
<1>6. boxService' \in Nat /\ tunnelFd' \in Nat /\ iface' \in Nat /\ nextBox' \in Nat \ {0}
  BY DEF HandleStart, TypeOK
<1>7. cores' \subseteq Core
  BY <1>3 DEF HandleStart, TypeOK, Core
<1>8. overlap' \in BOOLEAN /\ coreError' \in BOOLEAN
  BY DEF HandleStart, ReportError, TypeOK
<1> QED
  BY <1>4, <1>5, <1>6, <1>7, <1>8 DEF HandleStart, TypeOK, request, flows, tasks, auth, budget

\* Every state has the declared types.
THEOREM TypeCorrect == Spec => []TypeOK
<1>1. Init => TypeOK
  <2> SUFFICES ASSUME Init PROVE TypeOK
    OBVIOUS
  <2>1. am \in Am
    BY DEF Init, NoRecord, Am
  <2>2. /\ authEvents \in 0 .. 2 /\ dialogs \in Nat /\ boxService \in Nat
        /\ tunnelFd \in Nat /\ iface \in Nat /\ nextBox \in Nat \ {0}
        /\ taps \in 0 .. MaxTaps /\ faults \in 0 .. MaxFaults
    BY BoundAssumption DEF Init, None
  <2>3. /\ isRunning \in BOOLEAN /\ authReplay \in BOOLEAN /\ coreError \in BOOLEAN
        /\ consent \in BOOLEAN /\ svc \in BOOLEAN /\ overlap \in BOOLEAN
        /\ lostGrant \in BOOLEAN
    BY DEF Init
  <2>4. /\ currentProfileId \in Profile \cup {NoProfile}
        /\ pendingProfile \in Profile \cup {NoProfile}
        /\ cores \subseteq Core /\ results \in Seq(BOOLEAN)
        /\ toggles \in [Profile -> Nat] /\ clicks \in [Profile -> Nat]
    BY NoTasksType DEF Init
  <2> QED
    BY <2>1, <2>2, <2>3, <2>4 DEF TypeOK
<1>2. TypeOK /\ [Next]_vars => TypeOK'
  <2> SUFFICES ASSUME TypeOK, [Next]_vars PROVE TypeOK'
    OBVIOUS
  <2> USE BoundAssumption
  <2>1. CASE TapDisconnect
    <3>1. am' \in Am
      BY <2>1, ServiceCallType DEF TapDisconnect, TypeOK
    <3> QED
      BY <2>1, <3>1 DEF TapDisconnect, Tap, TypeOK, core, request, flows, tasks, auth, tunnel
  <2>2. ASSUME NEW p \in Profile, TapConnect(p) PROVE TypeOK'
    BY <2>2 DEF TapConnect, Tap, TypeOK, core, request, flows, auth, tunnel
  <2>3. ASSUME NEW p \in Profile, NEW found \in BOOLEAN, ToggleResume(p, found) PROVE TypeOK'
    <3>1. toggles' \in [Profile -> Nat]
      BY <2>3 DEF ToggleResume, TypeOK
    <3>2. CASE found
      BY <2>3, <3>1, <3>2, ControllerStartType
      DEF ToggleResume, TypeOK, core, auth, tunnel, budget
    <3>3. CASE ~found
      BY <2>3, <3>1, <3>3 DEF ToggleResume, TypeOK, core, request, flows, auth, tunnel, budget
    <3> QED
      BY <3>2, <3>3
  <2>4. ASSUME NEW p \in Profile, TapProfile(p) PROVE TypeOK'
    BY <2>4 DEF TapProfile, Tap, TypeOK, core, request, flows, auth, tunnel
  <2>5. ASSUME NEW p \in Profile, ClickResume(p) PROVE TypeOK'
    <3>1. clicks' \in [Profile -> Nat]
      BY <2>5 DEF ClickResume, TypeOK
    <3>2. CASE SwitchNeeded(p)
      <4>1. ServiceStop(am) \in Am
        BY ServiceCallType DEF TypeOK
      <4> QED
        BY <2>5, <3>1, <3>2, <4>1, ControllerStartType
        DEF ClickResume, SwitchTo, TypeOK, core, auth, tunnel, budget
    <3>3. CASE ~SwitchNeeded(p)
      BY <2>5, <3>1, <3>3 DEF ClickResume, TypeOK, core, request, flows, auth, tunnel, budget
    <3> QED
      BY <3>2, <3>3
  <2>6. CASE NotificationStop
    <3>1. am' \in Am
      BY <2>6, MessageType, DeliverType DEF NotificationStop, TypeOK
    <3> QED
      <4> HIDE DEF Am
      <4>1. taps' \in 0 .. MaxTaps
        BY <2>6 DEF NotificationStop, Tap, TypeOK
      <4> QED
        BY <2>6, <3>1, <4>1
        DEF NotificationStop, Tap, TypeOK, core, request, flows, tasks, auth, tunnel
  <2>7. CASE ClearCoreError
    BY <2>7 DEF ClearCoreError, TypeOK, core, request, flows, tasks, auth, tunnel, budget
  <2>8. CASE CollectAuth
    BY <2>8 DEF CollectAuth, TypeOK, core, request, tasks, tunnel, budget
  <2>9. ASSUME NEW granted \in BOOLEAN, AnswerDialog(granted) PROVE TypeOK'
    BY <2>9 DEF AnswerDialog, TypeOK, core, request, flows, tasks, tunnel, budget
  <2>10. CASE DeliverResult
    <3>1. am' \in Am
      BY <2>10, ServiceCallType DEF DeliverResult, TypeOK
    <3> QED
      <4>1. results' = Tail(results) /\ results # <<>> /\ results \in Seq(BOOLEAN)
        BY <2>10 DEF DeliverResult, TypeOK
      <4>2. Tail(results) \in Seq(BOOLEAN)
        BY <4>1, TailType
      <4> QED
        BY <2>10, <3>1, <4>1, <4>2
        DEF DeliverResult, PendingAfterResult, TypeOK, core, flows, tasks, tunnel, budget
  <2>11. CASE RecreateActivity
    BY <2>11 DEF RecreateActivity, Tap, ReplayedEvents, TypeOK, core, request, tasks, auth, tunnel
  <2>12. CASE ReopenActivity
    <3>1. taps' \in 0 .. MaxTaps
      BY <2>12 DEF ReopenActivity, Tap, TypeOK
    <3>2. lostGrant' \in BOOLEAN /\ results' \in Seq(BOOLEAN)
      BY <2>12 DEF ReopenActivity
    <3>3. authEvents' \in 0 .. 2
      BY <2>12 DEF ReopenActivity, ReplayedEvents
    <3> QED
      BY <2>12, <3>1, <3>2, <3>3, NoTasksType DEF ReopenActivity, Tap, TypeOK, core, tunnel
  <2>13. CASE ServiceStep
    <3>1. CASE HandleCreate
      BY <2>13, <3>1, ReceivedType
      DEF HandleCreate, NextMessage, TypeOK, core, request, flows, tasks, auth, budget
    <3>2. ASSUME NEW o \in Outcome, HandleStart(o) PROVE TypeOK'
      BY <3>2, HandleStartType
    <3>3. CASE HandleStop
      <4>1. am' \in Am
        BY <3>3, StoppedType DEF HandleStop
      <4> QED
        BY <3>3, <4>1 DEF HandleStop, TypeOK, core, request, flows, tasks, auth, tunnel, budget
    <3>4. CASE HandleRestart
      <4>1. am' \in Am
        BY <3>4, StoppedType DEF HandleRestart
      <4> QED
        BY <3>4, <4>1 DEF HandleRestart, TypeOK, core, request, flows, tasks, auth, tunnel, budget
    <3>5. CASE HandleDestroy
      <4>1. am' \in Am
        BY <3>5, ReceivedType DEF HandleDestroy, NextMessage, TypeOK
      <4>2. cores' \subseteq Core /\ iface' \in Nat
        BY <3>5 DEF HandleDestroy, Leftover, TypeOK, None
      <4> QED
        BY <3>5, <4>1, <4>2
        DEF HandleDestroy, TypeOK, None, request, flows, tasks, auth, budget
    <3>6. CASE HandleCrash
      BY <3>6, DieType DEF HandleCrash, budget, TypeOK
    <3> QED
      BY <2>13, <3>1, <3>2, <3>3, <3>4, <3>5, <3>6 DEF ServiceStep
  <2>14. CASE ProcessDeath
    BY <2>14, DieType DEF ProcessDeath, Fault, TypeOK
  <2>15. CASE Revoke
    <3>1. am' \in Am
      BY <2>15, StopSelfType DEF Revoke, TypeOK
    <3>2. faults' \in 0 .. MaxFaults /\ taps' = taps
      BY <2>15 DEF Revoke, Fault, TypeOK
    <3> QED
      BY <2>15, <3>1, <3>2 DEF Revoke, TypeOK, None, core, request, flows, tasks
  <2>16. CASE UNCHANGED vars
    BY <2>16 DEF TypeOK, vars, core, request, flows, tasks, auth, tunnel, budget
  <2> QED
    BY <2>1, <2>2, <2>3, <2>4, <2>5, <2>6, <2>7, <2>8, <2>9, <2>10, <2>11, <2>12,
       <2>13, <2>14, <2>15, <2>16 DEF Next
<1> QED
  BY <1>1, <1>2, PTL DEF Spec

-----------------------------------------------------------------------------
(* The tunnel                                                              *)

\* No TUN without consent: openTun asks again, a revocation takes the TUN.
THEOREM ConsentedTunnelHolds == Spec => []ConsentedTunnel
<1>1. Init => ConsentedTunnel
  BY DEF Init, ConsentedTunnel
<1>2. ConsentedTunnel /\ [Next]_vars => ConsentedTunnel'
  <2> SUFFICES ASSUME ConsentedTunnel, [Next]_vars PROVE ConsentedTunnel'
    OBVIOUS
  <2> USE DEF ConsentedTunnel, auth, tunnel
  <2>1. CASE UNCHANGED <<iface, consent>>
    BY <2>1
  <2>2. ASSUME NEW granted \in BOOLEAN, AnswerDialog(granted) PROVE ConsentedTunnel'
    BY <2>2 DEF AnswerDialog
  <2>3. ASSUME NEW o \in Outcome, HandleStart(o) PROVE ConsentedTunnel'
    <3>1. CASE o \in {"late", "up"}
      BY <2>3, <3>1 DEF HandleStart, Possible, MayOpenTun
    <3>2. CASE o \notin {"late", "up"}
      BY <2>3, <3>2 DEF HandleStart
    <3> QED
      BY <3>1, <3>2
  <2>4. CASE HandleDestroy
    BY <2>4 DEF HandleDestroy
  <2>5. CASE HandleCrash \/ ProcessDeath
    BY <2>5 DEF HandleCrash, ProcessDeath, Die
  <2>6. CASE Revoke
    BY <2>6 DEF Revoke
  <2> QED
    BY <2>1, <2>2, <2>3, <2>4, <2>5, <2>6
    DEF Next, ServiceStep, vars, TapDisconnect, TapConnect, ToggleResume, TapProfile,
        ClickResume, NotificationStop, ClearCoreError, CollectAuth, DeliverResult,
        RecreateActivity, ReopenActivity, HandleCreate, HandleStop, HandleRestart
<1> QED
  BY <1>1, <1>2, PTL DEF Spec

\* What onDestroy can rely on, unless a second START ran over a living core:
\* the one core is that of boxService, so that closing boxService leaves none.
OwnedCore == ~overlap => \A b \in cores : b.id = boxService

TunnelInv == OwnedCore /\ CleanUnlessOverlap /\ RunningHasCore

\* ACTION_START keeps the parts of the tunnel together.
LEMMA HandleStartTunnel ==
  ASSUME TypeOK, TunnelInv, NEW o \in Outcome, HandleStart(o)
  PROVE  TunnelInv'
<1> USE DEF TunnelInv, OwnedCore, CleanUnlessOverlap, RunningHasCore
<1>1. svc' = svc /\ svc
  BY DEF HandleStart
<1>2. overlap' \/ cores = {} \/ o = "setup"
  BY DEF HandleStart
<1>3. CASE o = "setup"
  <2>1. UNCHANGED <<boxService, tunnelFd, iface, cores, isRunning, currentProfileId>>
    BY <1>3 DEF HandleStart, Initialized, core
  <2>2. overlap' = overlap
    BY <1>3 DEF HandleStart, TypeOK
  <2> QED
    BY <1>1, <2>1, <2>2
<1>4. CASE o \in {"refused", "late"}
  <2>1. UNCHANGED <<cores, isRunning, currentProfileId>>
    BY <1>4 DEF HandleStart, Initialized, core
  <2>2. overlap' \/ cores = {}
    BY <1>2, <1>4
  <2> QED
    BY <1>1, <2>1, <2>2
<1>5. CASE o = "up"
  <2> DEFINE b == [id |-> nextBox, profile |-> Head(am.inbox).profile]
  <2>1. cores' = cores \cup {b} /\ boxService' = nextBox /\ iface' = nextBox
    BY <1>5 DEF HandleStart
  <2>2. currentProfileId' = Head(am.inbox).profile
    BY <1>5 DEF HandleStart, Initialized
  <2>3. overlap' \/ cores = {}
    BY <1>2, <1>5
  <2>4. b \in cores' /\ b.id = nextBox /\ b.profile = currentProfileId'
    BY <2>1, <2>2
  <2>5. OwnedCore'
    BY <2>1, <2>3, <2>4
  <2>6. RunningHasCore'
    <3> HIDE DEF b
    <3> QED
      BY <1>1, <2>1, <2>4
  <2> QED
    BY <1>1, <2>5, <2>6
<1> QED
  BY <1>3, <1>4, <1>5 DEF Outcome

\* onDestroy closes everything there is.
LEMMA HandleDestroyTunnel ==
  ASSUME TunnelInv, HandleDestroy
  PROVE  TunnelInv'
<1> USE DEF TunnelInv, OwnedCore, CleanUnlessOverlap, RunningHasCore
<1>1. overlap' = overlap /\ cores' = Leftover /\ ~isRunning'
  BY DEF HandleDestroy
<1>2. ~overlap => cores' = {}
  BY <1>1 DEF Leftover
<1>3. ~overlap => iface' = None
  BY <1>2 DEF HandleDestroy
<1> QED
  BY <1>1, <1>2, <1>3

\* Every step keeps the parts of the tunnel together.
LEMMA TunnelStep == TypeOK /\ TunnelInv /\ [Next]_vars => TunnelInv'
<1> SUFFICES ASSUME TypeOK, TunnelInv, [Next]_vars PROVE TunnelInv'
  OBVIOUS
<1> USE DEF TunnelInv, OwnedCore, CleanUnlessOverlap, RunningHasCore
<1>1. CASE UNCHANGED <<core, tunnel>>
  BY <1>1 DEF core, tunnel
<1>2. CASE HandleCreate
  BY <1>2 DEF HandleCreate, core
<1>3. ASSUME NEW o \in Outcome, HandleStart(o) PROVE TunnelInv'
  BY <1>3, HandleStartTunnel
<1>4. CASE HandleDestroy
  BY <1>4, HandleDestroyTunnel
<1>5. CASE HandleCrash \/ ProcessDeath
  BY <1>5 DEF HandleCrash, ProcessDeath, Die
<1>6. CASE Revoke
  BY <1>6 DEF Revoke, core
<1> QED
  BY <1>1, <1>2, <1>3, <1>4, <1>5, <1>6
  DEF Next, ServiceStep, vars, TapDisconnect, TapConnect, ToggleResume, TapProfile,
      ClickResume, NotificationStop, ClearCoreError, CollectAuth, AnswerDialog,
      DeliverResult, RecreateActivity, ReopenActivity, HandleStop, HandleRestart

\* "Connected to p" on the screen means a living service with p's core, and
\* a service that ends leaves neither core nor TUN unless a second START ran
\* over a living core.
THEOREM TunnelSafe == Spec => [](RunningHasCore /\ CleanUnlessOverlap)
<1>1. Init => TunnelInv
  BY DEF Init, TunnelInv, OwnedCore, CleanUnlessOverlap, RunningHasCore
<1>2. TunnelInv => RunningHasCore /\ CleanUnlessOverlap
  BY DEF TunnelInv
<1> QED
  BY <1>1, <1>2, TunnelStep, TypeCorrect, PTL DEF Spec

-----------------------------------------------------------------------------
(* The authorisation                                                       *)

\* A granted result is on its way to vpnAuthLauncher
GrantWaits == \E i \in DOMAIN results : results[i] = TRUE

\* What keeps a pending request answerable: its event can be replayed to a
\* new activity, and once consent is there the grant is still to be delivered
\* (a collected event opens no screen any more).
Replayable == pendingProfile # NoProfile => authReplay
GrantKept  == pendingProfile # NoProfile /\ ~lostGrant /\ consent => GrantWaits

PendingInv == Replayable /\ GrantKept /\ PendingIsAnswered

\* Reading the queue of results
LEMMA Results ==
  ASSUME TypeOK
  PROVE  /\ GrantWaits => results # <<>>
         /\ Contains(results, TRUE) <=> GrantWaits
<1>1. DOMAIN results = 1 .. Len(results) /\ Len(results) \in Nat
  BY DEF TypeOK
<1>2. results = <<>> => DOMAIN results = {}
  OBVIOUS
<1> QED
  BY <1>1, <1>2 DEF GrantWaits, Contains

\* An answered screen is a result, and a grant that waited still waits.
LEMMA AnswerKept ==
  ASSUME TypeOK, NEW granted \in BOOLEAN, AnswerDialog(granted)
  PROVE  /\ results' # <<>>
         /\ GrantWaits => GrantWaits'
         /\ granted => GrantWaits'
<1>1. results \in Seq(BOOLEAN) /\ results' = Append(results, granted)
  BY DEF AnswerDialog, TypeOK
<1>2. /\ Len(results) \in Nat /\ DOMAIN results = 1 .. Len(results)
      /\ DOMAIN results' = 1 .. Len(results) + 1
      /\ \A i \in DOMAIN results : results'[i] = results[i]
      /\ results'[Len(results) + 1] = granted
  BY <1>1
<1>3. results' # <<>>
  <2>1. Len(results) + 1 \in DOMAIN results'
    BY <1>2
  <2> QED
    BY <2>1
<1>4. GrantWaits => GrantWaits'
  BY <1>2 DEF GrantWaits
<1>5. granted => GrantWaits'
  <2> SUFFICES ASSUME granted PROVE GrantWaits'
    OBVIOUS
  <2>1. Len(results) + 1 \in DOMAIN results' /\ granted = TRUE
    BY <1>2
  <2> QED
    BY <1>2, <2>1 DEF GrantWaits
<1> QED
  BY <1>3, <1>4, <1>5

\* CoreController.start without consent leaves an event; with it, nothing new
\* is pending.
LEMMA ControllerStartPending ==
  ASSUME TypeOK, PendingInv, NEW a, NEW p \in Profile, ControllerStart(a, p),
         UNCHANGED auth
  PROVE  PendingInv'
<1> USE DEF PendingInv, Replayable, GrantKept, PendingIsAnswered, Answerable, GrantWaits
<1>1. CASE consent
  BY <1>1 DEF ControllerStart, request, flows, auth
<1>2. CASE ~consent
  <2>1. Emitted > 0
    BY DEF Emitted, TypeOK
  <2>2. authEvents' > 0 /\ authReplay' /\ ~consent'
    BY <1>2, <2>1 DEF ControllerStart, auth
  <2> QED
    BY <2>2
<1> QED
  BY <1>1, <1>2

\* Every step keeps a pending request answerable.
LEMMA PendingStep == TypeOK /\ PendingInv /\ [Next]_vars => PendingInv'
<1> SUFFICES ASSUME TypeOK, PendingInv, [Next]_vars PROVE PendingInv'
  OBVIOUS
<1> USE DEF PendingInv, Replayable, GrantKept, PendingIsAnswered, Answerable
<1>1. CASE UNCHANGED <<request, flows, auth>>
  BY <1>1 DEF request, flows, auth, GrantWaits
<1>2. ASSUME NEW p \in Profile, NEW found \in BOOLEAN, ToggleResume(p, found)
      PROVE  PendingInv'
  BY <1>1, <1>2, ControllerStartPending DEF ToggleResume
<1>3. ASSUME NEW p \in Profile, ClickResume(p) PROVE PendingInv'
  BY <1>1, <1>3, ControllerStartPending DEF ClickResume, SwitchTo
<1>4. CASE CollectAuth
  <2>1. UNCHANGED <<request, authReplay, consent, results>>
    BY <1>4 DEF CollectAuth
  <2>2. GrantWaits' <=> GrantWaits
    BY <2>1 DEF GrantWaits
  <2>3. consent \/ dialogs' > 0
    BY <1>4 DEF CollectAuth, MustAsk, TypeOK
  <2>4. GrantWaits => results' # <<>>
    BY <2>1, Results
  <2> QED
    BY <2>1, <2>2, <2>3, <2>4 DEF request
<1>5. ASSUME NEW granted \in BOOLEAN, AnswerDialog(granted) PROVE PendingInv'
  BY <1>5, AnswerKept DEF AnswerDialog, request, flows
<1>6. CASE DeliverResult
  BY <1>6 DEF DeliverResult, PendingAfterResult
<1>7. CASE RecreateActivity
  BY <1>7 DEF RecreateActivity, ReplayedEvents, request, auth, GrantWaits
<1>8. CASE ReopenActivity
  <2>1. authReplay => authEvents' > 0
    BY <1>8 DEF ReopenActivity, ReplayedEvents
  <2>2. GrantWaits => lostGrant'
    BY <1>8, Results DEF ReopenActivity
  <2>3. lostGrant => lostGrant'
    BY <1>8 DEF ReopenActivity
  <2>4. UNCHANGED <<pendingProfile, authReplay, consent>>
    BY <1>8 DEF ReopenActivity
  <2> QED
    BY <2>1, <2>2, <2>3, <2>4
<1>9. CASE HandleCrash \/ ProcessDeath
  BY <1>9 DEF HandleCrash, ProcessDeath, Die
<1>10. CASE Revoke
  BY <1>10 DEF Revoke, request, flows, GrantWaits
<1> QED
  BY <1>1, <1>2, <1>3, <1>4, <1>5, <1>6, <1>7, <1>8, <1>9, <1>10
  DEF Next, ServiceStep, vars, TapDisconnect, TapConnect, TapProfile, NotificationStop,
      ClearCoreError, HandleCreate, HandleStart, HandleStop, HandleRestart, HandleDestroy

\* A pending request is never forgotten, across rotations, reopened tasks and
\* revocations.
THEOREM PendingSafe == Spec => []PendingIsAnswered
<1>1. Init => PendingInv
  BY DEF Init, PendingInv, Replayable, GrantKept, PendingIsAnswered
<1>2. PendingInv => PendingIsAnswered
  BY DEF PendingInv
<1> QED
  BY <1>1, <1>2, PendingStep, TypeCorrect, PTL DEF Spec

-----------------------------------------------------------------------------
(* The refinement: each step is a step of the abstract specification, or     *)
(* none.  First, counting the START intents for a node in a queue            *)

StartsAt(q, p) == {i \in DOMAIN q : q[i] = Start(p)}
Starts(q, p) == Cardinality(StartsAt(q, p))
One(m, p) == IF m = Start(p) THEN 1 ELSE 0

LEMMA StartsFinite ==
  ASSUME NEW q \in Seq(Message), NEW p
  PROVE  IsFiniteSet(StartsAt(q, p)) /\ Starts(q, p) \in Nat
<1>1. IsFiniteSet(1 .. Len(q))
  BY FS_Interval
<1>2. StartsAt(q, p) \subseteq 1 .. Len(q)
  BY DEF StartsAt
<1> QED
  BY <1>1, <1>2, FS_Subset, FS_CardinalityType DEF Starts

LEMMA StartsAppend ==
  ASSUME NEW q \in Seq(Message), NEW m \in Message, NEW p
  PROVE  Starts(Append(q, m), p) = Starts(q, p) + One(m, p)
<1> DEFINE n == Len(q) + 1
<1>1. StartsAt(Append(q, m), p) = IF m = Start(p) THEN StartsAt(q, p) \cup {n} ELSE StartsAt(q, p)
  BY DEF StartsAt
<1>2. n \notin StartsAt(q, p)
  BY DEF StartsAt
<1>3. IsFiniteSet(StartsAt(q, p)) /\ Starts(q, p) \in Nat
  BY StartsFinite
<1>4. Cardinality(StartsAt(q, p) \cup {n}) = Cardinality(StartsAt(q, p)) + 1
  BY <1>2, <1>3, FS_AddElement
<1> HIDE DEF n
<1>5. CASE m = Start(p)
  BY <1>1, <1>4, <1>5 DEF Starts, One
<1>6. CASE m # Start(p)
  BY <1>1, <1>3, <1>6 DEF Starts, One
<1> QED
  BY <1>5, <1>6

LEMMA StartsTail ==
  ASSUME NEW q \in Seq(Message), q # <<>>, NEW p
  PROVE  Starts(q, p) = Starts(Tail(q), p) + One(Head(q), p)
<1> DEFINE S == StartsAt(Tail(q), p)
           T == StartsAt(q, p) \ {1}
           f == [i \in S |-> i + 1]
<1>1. /\ Tail(q) \in Seq(Message) /\ Len(q) \in Nat \ {0} /\ Len(Tail(q)) = Len(q) - 1
      /\ \A i \in 1 .. Len(Tail(q)) : Tail(q)[i] = q[i + 1]
      /\ Head(q) = q[1]
  OBVIOUS
<1>2. /\ \A i \in S : i \in Nat /\ i + 1 \in T
      /\ \A j \in T : j \in Nat /\ j - 1 \in S /\ j = (j - 1) + 1
  BY <1>1 DEF StartsAt
<1>3. 1 \in StartsAt(q, p) <=> Head(q) = Start(p)
  BY <1>1 DEF StartsAt
<1>4. IsFiniteSet(S) /\ IsFiniteSet(StartsAt(q, p)) /\ Starts(q, p) \in Nat
  BY <1>1, StartsFinite
<1> HIDE DEF S, T
<1>5. f \in Bijection(S, T)
  BY <1>2 DEF Bijection, Injection, Surjection, IsInjective
<1>6. Cardinality(T) = Cardinality(S)
  BY <1>4, <1>5, FS_Bijection DEF ExistsBijection
<1>7. Cardinality(T) = IF 1 \in StartsAt(q, p) THEN Starts(q, p) - 1 ELSE Starts(q, p)
  BY <1>4, FS_RemoveElement DEF T, Starts
<1> QED
  BY <1>3, <1>4, <1>6, <1>7 DEF Starts, S, One

\* Signals ask for nothing.
LEMMA SignalsCountNothing ==
  ASSUME NEW k \in {"create", "stop", "restart", "destroy", "crash"}, NEW p
  PROVE  One(Msg(k), p) = 0
  BY DEF One, Msg, Start
LEMMA OneRequest ==
  ASSUME NEW p \in Profile, NEW x \in Profile
  PROVE  One(Start(p), x) = IF x = p THEN 1 ELSE 0
<1>1. Start(p) = Start(x) <=> p = x
  BY DEF Start
<1> QED
  BY <1>1 DEF One

\* Each call on ActivityManager adds the intent it delivers, stopSelf adds none.
LEMMA DeliverStarts ==
  ASSUME NEW a \in Am, NEW m \in Message, NEW promise \in BOOLEAN, NEW p
  PROVE  Starts(Deliver(a, m, promise).inbox, p) = Starts(a.inbox, p) + One(m, p)
<1>0. a.inbox \in Seq(Message) /\ Msg("create") \in Message /\ One(Msg("create"), p) = 0
  BY MessageType, SignalsCountNothing DEF Am
<1>1. CASE a.record
  <2> DEFINE fg == IF promise /\ ~a.foreground THEN TRUE ELSE a.fgRequired
             b == [a EXCEPT !.started = TRUE, !.inbox = Append(@, m)]
  <2>1. b.inbox = Append(a.inbox, m)
    BY DEF Am
  <2>2. Deliver(a, m, promise).inbox = b.inbox
    BY <1>1 DEF Deliver, Am
  <2> QED
    BY <1>0, <2>1, <2>2, StartsAppend
<1>2. CASE ~a.record
  <2> DEFINE q == Append(a.inbox, Msg("create"))
  <2>1. q \in Seq(Message) /\ Starts(q, p) = Starts(a.inbox, p)
    BY <1>0, StartsAppend, StartsFinite
  <2>2. a.inbox \o <<Msg("create"), m>> = Append(q, m)
    BY <1>0
  <2>3. Starts(Append(q, m), p) = Starts(q, p) + One(m, p)
    BY <2>1, StartsAppend
  <2>4. Deliver(a, m, promise).inbox = a.inbox \o <<Msg("create"), m>>
    BY <1>2 DEF Deliver
  <2> QED
    BY <2>1, <2>2, <2>3, <2>4
<1> QED
  BY <1>1, <1>2

LEMMA StopSelfStarts ==
  ASSUME NEW a \in Am, NEW bound \in BOOLEAN, NEW p
  PROVE  Starts(StopSelf(a, bound).inbox, p) = Starts(a.inbox, p)
<1>0. /\ a.inbox \in Seq(Message) /\ Msg("destroy") \in Message /\ Msg("crash") \in Message
      /\ One(Msg("destroy"), p) = 0 /\ One(Msg("crash"), p) = 0
  BY MessageType, SignalsCountNothing DEF Am
<1>1. CASE Doomed(a)
  BY <1>1 DEF StopSelf
<1>2. CASE ~Doomed(a) /\ bound
  BY <1>2 DEF StopSelf, Am
<1>3. CASE ~Doomed(a) /\ ~bound
  <2> DEFINE q == Append(a.inbox, Msg("destroy"))
             all == a.inbox \o <<Msg("destroy")>>
                      \o (IF a.fgRequired THEN <<Msg("crash")>> ELSE <<>>)
  <2>1. q \in Seq(Message) /\ Starts(q, p) = Starts(a.inbox, p)
    BY <1>0, StartsAppend, StartsFinite
  <2>2. Starts(Append(q, Msg("crash")), p) = Starts(q, p)
    <3> HIDE DEF q
    <3>1. Starts(Append(q, Msg("crash")), p) = Starts(q, p) + One(Msg("crash"), p)
      BY <1>0, <2>1, StartsAppend
    <3>2. Starts(q, p) \in Nat
      BY <2>1, StartsFinite
    <3> QED
      BY <1>0, <3>1, <3>2
  <2>3. all \in {q, Append(q, Msg("crash"))}
    <3>1. a.inbox \o <<Msg("destroy")>> = q
      BY <1>0
    <3>2. q \o <<Msg("crash")>> = Append(q, Msg("crash")) /\ q \o <<>> = q
      BY <1>0, <2>1
    <3> QED
      BY <3>1, <3>2
  <2>4. StopSelf(a, bound).inbox = all
    BY <1>3 DEF StopSelf, NoRecord
  <2> HIDE DEF q, all
  <2> QED
    BY <2>1, <2>2, <2>3, <2>4
<1> QED
  BY <1>1, <1>2, <1>3

LEMMA SameInbox ==
  ASSUME NEW a \in Am, NEW sticky \in BOOLEAN
  PROVE  Promoted(a).inbox = a.inbox /\ Returned(a, sticky).inbox = a.inbox
  BY DEF Promoted, Returned, Am

\* stop() and start() of the controller
LEMMA ServiceStarts ==
  ASSUME NEW a \in Am
  PROVE  /\ \A x \in Profile : Starts(ServiceStop(a).inbox, x) = Starts(a.inbox, x)
         /\ \A p, x \in Profile : Starts(ServiceStart(a, p).inbox, x)
                                    = Starts(a.inbox, x) + IF x = p THEN 1 ELSE 0
<1>1. ASSUME NEW x \in Profile PROVE Starts(ServiceStop(a).inbox, x) = Starts(a.inbox, x)
  <2>1. /\ Msg("stop") \in Message /\ One(Msg("stop"), x) = 0
        /\ Starts(a.inbox, x) \in Nat
    BY MessageType, SignalsCountNothing, StartsFinite DEF Am
  <2> DEFINE q == Deliver(a, Msg("stop"), TRUE).inbox
  <2>2. Starts(q, x) = Starts(a.inbox, x) + One(Msg("stop"), x)
    BY <2>1, DeliverStarts
  <2> HIDE DEF q
  <2>3. Starts(q, x) = Starts(a.inbox, x)
    BY <2>1, <2>2
  <2> QED
    BY <2>3 DEF ServiceStop, q
<1>2. ASSUME NEW p \in Profile, NEW x \in Profile
      PROVE  Starts(ServiceStart(a, p).inbox, x) = Starts(a.inbox, x) + IF x = p THEN 1 ELSE 0
  <2>1. Start(p) \in Message /\ One(Start(p), x) = IF x = p THEN 1 ELSE 0
    BY MessageType, OneRequest
  <2>2. Starts(Deliver(a, Start(p), TRUE).inbox, x) = Starts(a.inbox, x) + One(Start(p), x)
    BY <2>1, DeliverStarts
  <2> QED
    BY <2>1, <2>2 DEF ServiceStart
<1> QED
  BY <1>1, <1>2

\* A message is received: a request leaves the queue if it was one.
LEMMA ReceivedStarts ==
  ASSUME TypeOK, am.inbox # <<>>, NEW x
  PROVE  Starts(am.inbox, x) = Starts(Received.inbox, x) + One(Head(am.inbox), x)
<1>1. am.inbox \in Seq(Message) /\ Received.inbox = Tail(am.inbox)
  BY DEF TypeOK, Am, Received
<1> QED
  BY <1>1, StartsTail

-----------------------------------------------------------------------------
(* The mapping                                                               *)

LEMMA InFlightStarts == \A x : InFlight(x) = Starts(am.inbox, x)
  BY DEF InFlight, Quantify, Starts, StartsAt

LEMMA Mapping ==
  ASSUME TypeOK
  PROVE  /\ Intents \in [Profile -> Nat] /\ Asked \in [Profile -> Nat]
         /\ \A x \in Profile : Intents[x] = toggles[x] + clicks[x]
         /\ \A x \in Profile : /\ Asked[x] = Starts(am.inbox, x)
                                               + IF pendingProfile = x THEN 1 ELSE 0
                               /\ Starts(am.inbox, x) \in Nat
<1>1. \A x \in Profile : Starts(am.inbox, x) \in Nat
  BY StartsFinite DEF TypeOK, Am
<1>2. Intents \in [Profile -> Nat] /\ \A x \in Profile : Intents[x] = toggles[x] + clicks[x]
  BY DEF Intents, TypeOK
<1>3. \A x \in Profile :
        Asked[x] = Starts(am.inbox, x) + IF pendingProfile = x THEN 1 ELSE 0
  BY InFlightStarts DEF Asked
<1>4. Asked = [x \in Profile |-> Asked[x]]
  BY DEF Asked
<1> HIDE DEF Asked
<1>5. Asked \in [Profile -> Nat]
  BY <1>1, <1>3, <1>4
<1> QED
  BY <1>1, <1>2, <1>3, <1>5

\* The same after a step
LEMMA MappingNext ==
  ASSUME TypeOK'
  PROVE  /\ Intents' \in [Profile -> Nat] /\ Asked' \in [Profile -> Nat]
         /\ \A x \in Profile : Intents'[x] = toggles'[x] + clicks'[x]
         /\ \A x \in Profile : /\ Asked'[x] = Starts(am'.inbox, x)
                                               + IF pendingProfile' = x THEN 1 ELSE 0
                               /\ Starts(am'.inbox, x) \in Nat
<1>1. \A x \in Profile : Starts(am'.inbox, x) \in Nat
  BY StartsFinite DEF TypeOK, Am
<1>2. Intents' \in [Profile -> Nat] /\ \A x \in Profile : Intents'[x] = toggles'[x] + clicks'[x]
  BY DEF Intents, TypeOK
<1>3. \A x \in Profile :
        Asked'[x] = Starts(am'.inbox, x) + IF pendingProfile' = x THEN 1 ELSE 0
  BY DEF Asked, InFlight, Quantify, Starts, StartsAt
<1>4. Asked' = [x \in Profile |-> Asked'[x]]
  BY DEF Asked
<1> HIDE DEF Asked
<1>5. Asked' \in [Profile -> Nat]
  BY <1>1, <1>3, <1>4
<1> QED
  BY <1>1, <1>2, <1>3, <1>5

\* Two counts that agree for every node are the same.
LEMMA EqualCounts ==
  \A f, g \in [Profile -> Nat] : (\A x \in Profile : f[x] = g[x]) => f = g
  OBVIOUS

\* What a step leaves alone, seen through the mapping
LEMMA IntentsStay ==
  ASSUME UNCHANGED tasks PROVE UNCHANGED Intents
  BY DEF tasks, Intents

LEMMA AskedStay ==
  ASSUME TypeOK, TypeOK', UNCHANGED pendingProfile,
         \A x \in Profile : Starts(am'.inbox, x) = Starts(am.inbox, x)
  PROVE  UNCHANGED Asked
<1>1. \A x \in Profile : Asked'[x] = Asked[x]
  BY Mapping, MappingNext
<1> QED
  BY <1>1, Mapping, MappingNext, EqualCounts

-----------------------------------------------------------------------------
(* Steps                                                                     *)

\* A tap that is on its way is taken up or dropped.
LEMMA TapTaken ==
  ASSUME TypeOK, TypeOK', NEW p \in Profile,
         \/ /\ toggles[p] > 0 /\ toggles' = [toggles EXCEPT ![p] = @ - 1] /\ clicks' = clicks
         \/ /\ clicks[p] > 0 /\ clicks' = [clicks EXCEPT ![p] = @ - 1] /\ toggles' = toggles
  PROVE  Intents[p] > 0 /\ Intents' = [Intents EXCEPT ![p] = @ - 1]
<1>0. toggles \in [Profile -> Nat] /\ clicks \in [Profile -> Nat]
  BY DEF TypeOK
<1>1. Intents[p] > 0 /\ Intents \in [Profile -> Nat] /\ Intents' \in [Profile -> Nat]
  BY <1>0, Mapping, MappingNext
<1>2. \A x \in Profile : Intents'[x] = IF x = p THEN Intents[x] - 1 ELSE Intents[x]
  BY <1>0, Mapping, MappingNext
<1>3. [Intents EXCEPT ![p] = @ - 1] \in [Profile -> Nat]
  BY <1>1
<1>4. \A x \in Profile : Intents'[x] = [Intents EXCEPT ![p] = @ - 1][x]
  BY <1>1, <1>2
<1> QED
  BY <1>1, <1>3, <1>4, EqualCounts

\* A tap sets off.
LEMMA TapIntends ==
  ASSUME TypeOK, TypeOK', NEW p \in Profile,
         \/ toggles' = [toggles EXCEPT ![p] = @ + 1] /\ clicks' = clicks
         \/ clicks' = [clicks EXCEPT ![p] = @ + 1] /\ toggles' = toggles
  PROVE  Intents' = [Intents EXCEPT ![p] = @ + 1]
<1>0. toggles \in [Profile -> Nat] /\ clicks \in [Profile -> Nat]
  BY DEF TypeOK
<1>1. Intents \in [Profile -> Nat] /\ Intents' \in [Profile -> Nat]
  BY Mapping, MappingNext
<1>2. \A x \in Profile : Intents'[x] = IF x = p THEN Intents[x] + 1 ELSE Intents[x]
  BY <1>0, Mapping, MappingNext
<1>3. [Intents EXCEPT ![p] = @ + 1] \in [Profile -> Nat]
  BY <1>1
<1>4. \A x \in Profile : Intents'[x] = [Intents EXCEPT ![p] = @ + 1][x]
  BY <1>1, <1>2
<1> QED
  BY <1>1, <1>3, <1>4, EqualCounts

\* One request more, one less
LEMMA AskedMore ==
  ASSUME TypeOK, TypeOK', NEW p \in Profile,
         \A x \in Profile : Asked'[x] = IF x = p THEN Asked[x] + 1 ELSE Asked[x]
  PROVE  Asked' = [Asked EXCEPT ![p] = @ + 1]
<1>1. Asked \in [Profile -> Nat] /\ Asked' \in [Profile -> Nat]
  BY Mapping, MappingNext
<1>2. [Asked EXCEPT ![p] = @ + 1] \in [Profile -> Nat]
      /\ \A x \in Profile : Asked'[x] = [Asked EXCEPT ![p] = @ + 1][x]
  BY <1>1
<1> QED
  BY <1>1, <1>2, EqualCounts

LEMMA AskedLess ==
  ASSUME TypeOK, TypeOK', NEW p \in Profile, Asked[p] > 0,
         \A x \in Profile : Asked'[x] = IF x = p THEN Asked[x] - 1 ELSE Asked[x]
  PROVE  Asked' = [Asked EXCEPT ![p] = @ - 1]
<1>1. Asked \in [Profile -> Nat] /\ Asked' \in [Profile -> Nat]
  BY Mapping, MappingNext
<1>2. [Asked EXCEPT ![p] = @ - 1] \in [Profile -> Nat]
      /\ \A x \in Profile : Asked'[x] = [Asked EXCEPT ![p] = @ - 1][x]
  BY <1>1
<1> QED
  BY <1>1, <1>2, EqualCounts

\* CoreController.start asks for p, and gives up the request that was pending.
LEMMA ControllerAsks ==
  ASSUME TypeOK, TypeOK', NEW a \in Am, NEW p \in Profile, ControllerStart(a, p),
         \A x \in Profile : Starts(a.inbox, x) = Starts(am.inbox, x),
         Intents[p] > 0, Intents' = [Intents EXCEPT ![p] = @ - 1], UNCHANGED core
  PROVE  Requests!Ask(p)
<1> DEFINE more == [Asked EXCEPT ![p] = @ + 1]
<1>0. Asked \in [Profile -> Nat] /\ more \in [Profile -> Nat] /\ Asked' \in [Profile -> Nat]
      /\ \A x \in Profile : more[x] = IF x = p THEN Asked[x] + 1 ELSE Asked[x]
  BY Mapping, MappingNext
<1>1. \/ Asked' = more
      \/ \E q \in Profile : Asked[q] > 0 /\ Asked' = [more EXCEPT ![q] = @ - 1]
  <2>1. CASE consent
    <3>1. am' = ServiceStart(a, p) /\ pendingProfile' = pendingProfile
      BY <2>1 DEF ControllerStart, request
    <3>2. \A x \in Profile : Starts(am'.inbox, x) = Starts(am.inbox, x) + IF x = p THEN 1 ELSE 0
      BY <3>1, ServiceStarts
    <3>3. \A x \in Profile : Asked'[x] = IF x = p THEN Asked[x] + 1 ELSE Asked[x]
      BY <3>1, <3>2, Mapping, MappingNext
    <3> QED
      BY <3>3, AskedMore
  <2>2. CASE ~consent
    <3>1. am' = a /\ pendingProfile' = p
      BY <2>2 DEF ControllerStart
    <3>2. \A x \in Profile : Asked'[x] = Starts(am.inbox, x) + IF x = p THEN 1 ELSE 0
      BY <3>1, MappingNext
    <3>3. CASE pendingProfile = NoProfile
      <4>1. \A x \in Profile : Asked'[x] = IF x = p THEN Asked[x] + 1 ELSE Asked[x]
        BY <3>2, <3>3, ProfileAssumption, Mapping
      <4> QED
        BY <4>1, AskedMore
    <3>4. CASE pendingProfile # NoProfile
      <4>1. PICK q \in Profile : pendingProfile = q
        BY <3>4 DEF TypeOK
      <4>2. Asked[q] > 0
        BY <4>1, Mapping
      <4> DEFINE g == [more EXCEPT ![q] = @ - 1]
      <4>3. \A x \in Profile : g[x] = IF x = q THEN more[x] - 1 ELSE more[x]
        BY <1>0
      <4>4. more[q] > 0
        BY <1>0, <4>2
      <4>5. g \in [Profile -> Nat]
        BY <1>0, <4>4
      <4>6. \A x \in Profile : Asked'[x] = g[x]
        BY <1>0, <3>2, <4>1, <4>3, Mapping
      <4>7. Asked' = g
        BY <1>0, <4>5, <4>6, EqualCounts
      <4> QED
        BY <4>2, <4>7
    <3> QED
      BY <3>3, <3>4
  <2> QED
    BY <2>1, <2>2
<1> QED
  BY <1>1 DEF Requests!Ask, core

\* A request is given up or answered when it leaves the queue.
LEMMA RequestReceived ==
  ASSUME TypeOK, TypeOK', NextMessage("start"), UNCHANGED pendingProfile,
         \A x \in Profile : Starts(am'.inbox, x) = Starts(Received.inbox, x)
  PROVE  LET p == Head(am.inbox).profile
         IN p \in Profile /\ Asked[p] > 0 /\ Asked' = [Asked EXCEPT ![p] = @ - 1]
<1> DEFINE p == Head(am.inbox).profile
<1>1. Head(am.inbox) \in Message /\ am.inbox # <<>>
  BY ReceivedType DEF NextMessage, TypeOK
<1>2. p \in Profile /\ Head(am.inbox) = Start(p)
  BY <1>1 DEF NextMessage, Message, Signal, Request, Start
<1> HIDE DEF p
<1>3. \A x \in Profile : Starts(am.inbox, x) = Starts(am'.inbox, x) + One(Start(p), x)
  BY <1>1, <1>2, ReceivedStarts
<1>4. \A x \in Profile : One(Start(p), x) = IF x = p THEN 1 ELSE 0
  BY <1>2, OneRequest
<1>5. \A x \in Profile : Starts(am.inbox, x) = Starts(am'.inbox, x) + IF x = p THEN 1 ELSE 0
  BY <1>3, <1>4
<1>6. Asked[p] > 0
  BY <1>2, <1>5, Mapping, MappingNext
<1>7. \A x \in Profile : Asked'[x] = IF x = p THEN Asked[x] - 1 ELSE Asked[x]
  BY <1>5, Mapping, MappingNext
<1>8. Asked' = [Asked EXCEPT ![p] = @ - 1]
  BY <1>2, <1>6, <1>7, AskedLess
<1> QED
  BY <1>2, <1>6, <1>8 DEF p

\* A signal leaves the queue: nobody is answered.
LEMMA SignalReceived ==
  ASSUME TypeOK, NEW k \in {"create", "stop", "restart", "destroy"}, NextMessage(k)
  PROVE  \A x \in Profile : Starts(Received.inbox, x) = Starts(am.inbox, x)
<1> SUFFICES ASSUME NEW x \in Profile
             PROVE  Starts(Received.inbox, x) = Starts(am.inbox, x)
  OBVIOUS
<1>1. am.inbox # <<>> /\ Received \in Am
  BY ReceivedType DEF NextMessage, TypeOK
<1>2. One(Head(am.inbox), x) = 0
  BY DEF One, NextMessage, Start
<1>3. Starts(am.inbox, x) = Starts(Received.inbox, x) + One(Head(am.inbox), x)
  BY <1>1, ReceivedStarts
<1>4. Starts(Received.inbox, x) \in Nat
  BY <1>1, StartsFinite DEF Am
<1> QED
  BY <1>2, <1>3, <1>4

\* The process dies with everything that was asked.
LEMMA DieForgets ==
  ASSUME TypeOK, TypeOK', Die PROVE Requests!Forget
<1>1. Intents' = Requests!Nothing
  BY DEF Die, Intents, NoTasks, Requests!Nothing
<1>2. pendingProfile' = NoProfile /\ currentProfileId' = NoProfile
  BY DEF Die
<1>3. ASSUME NEW x \in Profile PROVE Starts(am'.inbox, x) = 0
  <2>1. am'.inbox = <<>> \/ am'.inbox = <<Msg("create"), Msg("restart")>>
    BY DEF Die, Reborn, NoRecord, TypeOK, Am
  <2>2. \A i \in DOMAIN am'.inbox : am'.inbox[i] # Start(x)
    BY <2>1 DEF Msg, Start
  <2>3. StartsAt(am'.inbox, x) = {}
    BY <2>2 DEF StartsAt
  <2> QED
    BY <2>3, FS_EmptySet DEF Starts
<1>4. \A x \in Profile : Asked'[x] = 0
  BY <1>2, <1>3, ProfileAssumption, MappingNext
<1>5. Asked' = Requests!Nothing
  BY <1>4, MappingNext DEF Requests!Nothing
<1> QED
  BY <1>1, <1>2, <1>5 DEF Requests!Forget

Stutters == UNCHANGED <<Intents, Asked, currentProfileId>>

\* The user's steps and those of the coroutines and the activity
LEMMA UserStep ==
  ASSUME TypeOK, TypeOK',
         \/ TapDisconnect \/ NotificationStop \/ ClearCoreError \/ CollectAuth
         \/ RecreateActivity \/ ReopenActivity \/ DeliverResult
         \/ \E p \in Profile : TapConnect(p) \/ TapProfile(p) \/ ClickResume(p)
         \/ \E p \in Profile, found \in BOOLEAN : ToggleResume(p, found)
         \/ \E granted \in BOOLEAN : AnswerDialog(granted)
  PROVE  Requests!Next \/ Stutters
<1>0. am \in Am
  BY DEF TypeOK
<1>1. CASE TapDisconnect
  <2>1. UNCHANGED <<tasks, pendingProfile, currentProfileId>> /\ am' = ServiceStop(am)
    BY <1>1 DEF TapDisconnect, request, core
  <2>2. \A x \in Profile : Starts(am'.inbox, x) = Starts(am.inbox, x)
    BY <1>0, <2>1, ServiceStarts
  <2> QED
    BY <2>1, <2>2, IntentsStay, AskedStay DEF Stutters
<1>2. CASE NotificationStop
  <2>1. UNCHANGED <<tasks, pendingProfile, currentProfileId>>
        /\ am' = Deliver(am, Msg("stop"), FALSE)
    BY <1>2 DEF NotificationStop, request, core
  <2>2. ASSUME NEW x \in Profile PROVE Starts(am'.inbox, x) = Starts(am.inbox, x)
    <3>1. /\ Msg("stop") \in Message /\ One(Msg("stop"), x) = 0
          /\ Starts(am.inbox, x) \in Nat
      BY <1>0, MessageType, SignalsCountNothing, StartsFinite DEF Am
    <3>2. Starts(am'.inbox, x) = Starts(am.inbox, x) + One(Msg("stop"), x)
      BY <1>0, <2>1, <3>1, DeliverStarts
    <3> QED
      BY <3>1, <3>2
  <2> QED
    BY <2>1, <2>2, IntentsStay, AskedStay DEF Stutters
<1>3. CASE \/ ClearCoreError \/ CollectAuth \/ RecreateActivity
           \/ \E granted \in BOOLEAN : AnswerDialog(granted)
  <2>1. UNCHANGED <<tasks, pendingProfile, currentProfileId, am>>
    BY <1>3 DEF ClearCoreError, CollectAuth, RecreateActivity, AnswerDialog, request, core
  <2> QED
    BY <2>1, IntentsStay, AskedStay DEF Stutters
<1>4. CASE ReopenActivity
  <2>1. UNCHANGED <<pendingProfile, currentProfileId, am>>
    BY <1>4 DEF ReopenActivity, core
  <2>2. Intents' = Requests!Nothing
    BY <1>4 DEF ReopenActivity, Intents, NoTasks, Requests!Nothing
  <2>3. UNCHANGED Asked
    BY <2>1, AskedStay
  <2> QED
    BY <2>1, <2>2, <2>3 DEF Requests!Next, Requests!Leave
<1>5. CASE DeliverResult
  <2>1. UNCHANGED <<tasks, currentProfileId>> /\ pendingProfile' = NoProfile
    BY <1>5 DEF DeliverResult, PendingAfterResult, core
  <2>2. UNCHANGED Intents
    BY <2>1, IntentsStay
  <2>3. CASE pendingProfile = NoProfile
    <3>1. am' = am
      BY <1>5, <2>3 DEF DeliverResult
    <3> QED
      BY <2>1, <2>2, <2>3, <3>1, AskedStay DEF Stutters
  <2>4. CASE pendingProfile # NoProfile
    <3>1. PICK p \in Profile : pendingProfile = p
      BY <2>4 DEF TypeOK
    <3>2. CASE am' = ServiceStart(am, p)
      <4>1. \A x \in Profile : Starts(am'.inbox, x) = Starts(am.inbox, x) + IF x = p THEN 1 ELSE 0
        BY <1>0, <3>2, ServiceStarts
      <4>2. \A x \in Profile : Asked'[x] = Asked[x]
        BY <2>1, <3>1, <4>1, ProfileAssumption, Mapping, MappingNext
      <4>3. UNCHANGED Asked
        BY <4>2, Mapping, MappingNext, EqualCounts
      <4> QED
        BY <2>1, <2>2, <4>3 DEF Stutters
    <3>3. CASE am' = am
      <4>1. Asked[p] > 0
        BY <3>1, Mapping
      <4>2. \A x \in Profile : Asked'[x] = IF x = p THEN Asked[x] - 1 ELSE Asked[x]
        BY <2>1, <3>1, <3>3, ProfileAssumption, Mapping, MappingNext
      <4>3. Asked' = [Asked EXCEPT ![p] = @ - 1]
        BY <4>1, <4>2, AskedLess
      <4>4. Requests!GiveUp(p)
        BY <2>1, <2>2, <4>1, <4>3 DEF Requests!GiveUp
      <4> QED
        BY <4>4 DEF Requests!Next
    <3> QED
      BY <1>5, <3>1, <3>2, <3>3 DEF DeliverResult
  <2> QED
    BY <2>3, <2>4
<1>6. ASSUME NEW p \in Profile, TapConnect(p) \/ TapProfile(p)
      PROVE  Requests!Next \/ Stutters
  <2>1. UNCHANGED <<pendingProfile, currentProfileId, am>>
    BY <1>6 DEF TapConnect, TapProfile, request, core
  <2>2. Intents' = [Intents EXCEPT ![p] = @ + 1]
    BY <1>6, TapIntends DEF TapConnect, TapProfile
  <2>3. UNCHANGED Asked
    BY <2>1, AskedStay
  <2>4. Requests!Intend(p)
    BY <2>1, <2>2, <2>3 DEF Requests!Intend
  <2> QED
    BY <2>4 DEF Requests!Next
<1>7. ASSUME NEW p \in Profile, NEW a \in Am, ControllerStart(a, p), UNCHANGED core,
             \A x \in Profile : Starts(a.inbox, x) = Starts(am.inbox, x),
             Intents[p] > 0, Intents' = [Intents EXCEPT ![p] = @ - 1]
      PROVE  Requests!Next
  <2>1. Requests!Ask(p)
    BY <1>7, ControllerAsks
  <2> QED
    BY <2>1 DEF Requests!Next
<1>8. ASSUME NEW p \in Profile, UNCHANGED <<am, pendingProfile, currentProfileId>>,
             Intents[p] > 0, Intents' = [Intents EXCEPT ![p] = @ - 1]
      PROVE  Requests!Next
  <2>1. UNCHANGED Asked
    BY <1>8, AskedStay
  <2>2. Requests!Drop(p)
    BY <1>8, <2>1 DEF Requests!Drop
  <2> QED
    BY <2>2 DEF Requests!Next
<1>9. ASSUME NEW p \in Profile, NEW found \in BOOLEAN, ToggleResume(p, found)
      PROVE  Requests!Next
  <2>1. Intents[p] > 0 /\ Intents' = [Intents EXCEPT ![p] = @ - 1]
    BY <1>9, TapTaken DEF ToggleResume
  <2>2. CASE found
    BY <1>0, <1>7, <1>9, <2>1, <2>2 DEF ToggleResume
  <2>3. CASE ~found
    BY <1>8, <1>9, <2>1, <2>3 DEF ToggleResume, request, core
  <2> QED
    BY <2>2, <2>3
<1>10. ASSUME NEW p \in Profile, ClickResume(p)
       PROVE  Requests!Next
  <2>1. Intents[p] > 0 /\ Intents' = [Intents EXCEPT ![p] = @ - 1]
    BY <1>10, TapTaken DEF ClickResume
  <2>2. CASE SwitchNeeded(p)
    <3>1. /\ ServiceStop(am) \in Am
          /\ \A x \in Profile : Starts(ServiceStop(am).inbox, x) = Starts(am.inbox, x)
      BY <1>0, ServiceCallType, ServiceStarts
    <3>2. ControllerStart(ServiceStop(am), p) /\ UNCHANGED core
      BY <1>10, <2>2 DEF ClickResume, SwitchTo
    <3> QED
      BY <1>7, <2>1, <3>1, <3>2
  <2>3. CASE ~SwitchNeeded(p)
    BY <1>8, <1>10, <2>1, <2>3 DEF ClickResume, request, core
  <2> QED
    BY <2>2, <2>3
<1> QED
  BY <1>1, <1>2, <1>3, <1>4, <1>5, <1>6, <1>9, <1>10

\* ACTION_START settles the request that brought it: with a connection, or without.
LEMMA StartAnswers ==
  ASSUME TypeOK, TypeOK', NEW o \in Outcome, HandleStart(o)
  PROVE  Requests!Next
<1> DEFINE p == Head(am.inbox).profile
           fg == Promoted(Received)
<1>1. Received \in Am /\ fg \in Am
  BY ReceivedType, PromotedType DEF HandleStart, NextMessage, TypeOK
<1>2. UNCHANGED <<tasks, pendingProfile>> /\ NextMessage("start")
  BY DEF HandleStart, request
<1>3. \A x \in Profile : Starts(am'.inbox, x) = Starts(Received.inbox, x)
  <2>1. fg.inbox = Received.inbox
    BY <1>1, SameInbox
  <2>2. Returned(fg, TRUE) \in Am /\ Returned(fg, FALSE) \in Am
        /\ Returned(fg, TRUE).inbox = fg.inbox /\ Returned(fg, FALSE).inbox = fg.inbox
    BY <1>1, SameInbox, ReturnedType
  <2>3. Bound' \in BOOLEAN
    BY DEF Bound, TypeOK
  <2>4. am' \in {Returned(fg, TRUE), StopSelf(Returned(fg, FALSE), Bound')}
    BY DEF HandleStart
  <2>5. \A x \in Profile :
          Starts(StopSelf(Returned(fg, FALSE), Bound').inbox, x)
            = Starts(Returned(fg, FALSE).inbox, x)
    BY <2>2, <2>3, StopSelfStarts
  <2> HIDE DEF fg
  <2> QED
    BY <2>1, <2>2, <2>4, <2>5
<1>4. p \in Profile /\ Asked[p] > 0 /\ Asked' = [Asked EXCEPT ![p] = @ - 1]
  BY <1>2, <1>3, RequestReceived
<1>5. UNCHANGED Intents
  BY <1>2, IntentsStay
<1>6. currentProfileId' = p \/ currentProfileId' = currentProfileId
  BY DEF HandleStart, core
<1> HIDE DEF p
<1>7. Requests!Connect(p) \/ Requests!GiveUp(p)
  BY <1>4, <1>5, <1>6 DEF Requests!Connect, Requests!GiveUp
<1> QED
  BY <1>4, <1>7 DEF Requests!Next

\* The steps of the service and the faults
LEMMA ServiceAnswers ==
  ASSUME TypeOK, TypeOK', ServiceStep \/ ProcessDeath \/ Revoke
  PROVE  Requests!Next \/ Stutters
<1>1. CASE HandleCreate
  <2>1. UNCHANGED <<tasks, pendingProfile, currentProfileId>>
        /\ am' = Received /\ NextMessage("create")
    BY <1>1 DEF HandleCreate, request, core
  <2>2. \A x \in Profile : Starts(am'.inbox, x) = Starts(am.inbox, x)
    BY <2>1, SignalReceived
  <2> QED
    BY <2>1, <2>2, IntentsStay, AskedStay DEF Stutters
<1>2. ASSUME NEW o \in Outcome, HandleStart(o)
      PROVE  Requests!Next
  BY <1>2, StartAnswers
<1>3. CASE HandleStop \/ HandleRestart
  <2> DEFINE a == Returned(Received, FALSE)
             bound == Bound
  <2>1. UNCHANGED <<tasks, pendingProfile, currentProfileId>> /\ am' = StopSelf(a, bound)
    BY <1>3 DEF HandleStop, HandleRestart, request, core
  <2>2. Received \in Am /\ bound \in BOOLEAN
    BY <1>3, ReceivedType DEF HandleStop, HandleRestart, NextMessage, Bound, TypeOK
  <2>3. a \in Am /\ a.inbox = Received.inbox
    BY <2>2, ReturnedType, SameInbox
  <2>4. \A x \in Profile : Starts(Received.inbox, x) = Starts(am.inbox, x)
    BY <1>3, SignalReceived DEF HandleStop, HandleRestart
  <2>5. \A x \in Profile : Starts(StopSelf(a, bound).inbox, x) = Starts(a.inbox, x)
    BY <2>2, <2>3, StopSelfStarts
  <2> HIDE DEF a, bound
  <2>6. \A x \in Profile : Starts(am'.inbox, x) = Starts(am.inbox, x)
    BY <2>1, <2>3, <2>4, <2>5
  <2> QED
    BY <2>1, <2>6, IntentsStay, AskedStay DEF Stutters
<1>4. CASE HandleDestroy
  <2>1. UNCHANGED <<tasks, pendingProfile>> /\ currentProfileId' = NoProfile
        /\ am' = Received /\ NextMessage("destroy")
    BY <1>4 DEF HandleDestroy, request
  <2>2. \A x \in Profile : Starts(am'.inbox, x) = Starts(am.inbox, x)
    BY <2>1, SignalReceived
  <2>3. Requests!Disconnect
    BY <2>1, <2>2, IntentsStay, AskedStay DEF Requests!Disconnect
  <2> QED
    BY <2>3 DEF Requests!Next
<1>5. CASE HandleCrash \/ ProcessDeath
  <2>1. Requests!Forget
    BY <1>5, DieForgets DEF HandleCrash, ProcessDeath
  <2> QED
    BY <2>1 DEF Requests!Next
<1>6. CASE Revoke
  <2>1. UNCHANGED <<tasks, pendingProfile, currentProfileId>>
        /\ am' \in {am, StopSelf(am, FALSE)}
    BY <1>6 DEF Revoke, request, core
  <2>2. \A x \in Profile : Starts(StopSelf(am, FALSE).inbox, x) = Starts(am.inbox, x)
    BY StopSelfStarts DEF TypeOK
  <2>3. \A x \in Profile : Starts(am'.inbox, x) = Starts(am.inbox, x)
    BY <2>1, <2>2
  <2> QED
    BY <2>1, <2>3, IntentsStay, AskedStay DEF Stutters
<1> QED
  BY <1>1, <1>2, <1>3, <1>4, <1>5, <1>6 DEF ServiceStep

-----------------------------------------------------------------------------
\* No connection is made that nobody asked for, and none is made twice: the
\* connection control implements the requests, whatever the user does and whatever
\* is revoked or dies.
THEOREM TunnelAnswersRequests == Spec => AnswersRequests
<1>1. Init => Requests!Init
  <2> SUFFICES ASSUME Init PROVE Requests!Init
    OBVIOUS
  <2>1. Intents = Requests!Nothing
    BY DEF Init, Intents, NoTasks, Requests!Nothing
  <2>2. \A x : Starts(am.inbox, x) = 0
    <3>1. \A x : StartsAt(am.inbox, x) = {}
      BY DEF Init, NoRecord, StartsAt
    <3> QED
      BY <3>1, FS_EmptySet DEF Starts
  <2>3. Asked = Requests!Nothing
    BY <2>2, InFlightStarts, ProfileAssumption DEF Init, Asked, Requests!Nothing
  <2> QED
    BY <2>1, <2>3 DEF Init, Requests!Init
<1>2. TypeOK /\ TypeOK' /\ [Next]_vars => [Requests!Next]_(Requests!rvars)
  <2> SUFFICES ASSUME TypeOK, TypeOK', [Next]_vars
               PROVE  Requests!Next \/ Stutters
    BY DEF Requests!rvars, Stutters
  <2>1. CASE UNCHANGED vars
    <3>1. UNCHANGED <<tasks, pendingProfile, currentProfileId, am>>
      BY <2>1 DEF vars, request, core
    <3> QED
      BY <3>1, IntentsStay, AskedStay DEF Stutters
  <2>2. CASE Next
    BY <2>2, UserStep, ServiceAnswers DEF Next
  <2> QED
    BY <2>1, <2>2
<1> QED
  BY <1>1, <1>2, TypeCorrect, PTL DEF Spec, AnswersRequests, Requests!Spec
=============================================================================
