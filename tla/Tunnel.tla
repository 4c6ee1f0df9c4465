------------------------------- MODULE Tunnel -------------------------------
(***************************************************************************)
(* The connection control of the app: CoreController (the singleton the    *)
(* UI talks to), TunService (the foreground VpnService that owns the       *)
(* sing-box core and the TUN), the coroutines of ProfilesViewModel that    *)
(* call them and MainActivity's VPN authorisation.                         *)
(*                                                                         *)
(* Everything here runs on the main looper.  What interleaves is the       *)
(* order of its messages: taps, resumed coroutines, activity results and   *)
(* the service calls that ActivityManager sends, in FIFO order, to the     *)
(* service (am.inbox).  Android itself (ActivityManager, the VPN consent,  *)
(* the TUN interface) is modelled from how the code uses it.               *)
(***************************************************************************)
EXTENDS Integers, Sequences, SequencesExt

CONSTANTS
  Profile,       \* the nodes
  NoProfile,     \* null
  MaxTaps,       \* bound: taps of the user
  MaxFaults      \* bound: process deaths and revocations

ASSUME ProfileAssumption == NoProfile \notin Profile
ASSUME BoundAssumption == MaxTaps \in Nat /\ MaxFaults \in Nat

VARIABLES
  \* CoreController
  isRunning, currentProfileId, pendingProfile,
  authEvents,  \* vpnAuthRequired: emissions the activity has not collected
  authReplay,  \* vpnAuthRequired: is there an emission in the replay cache?
  coreError,   \* ProfilesViewModel._coreError holds a message
  \* ProfilesViewModel: suspended coroutines
  toggles,     \* [p |-> toggleConnection calls waiting in getProfile(p)]
  clicks,      \* [p |-> onProfileClick(p) calls waiting in the settings store]
  \* authorisation
  consent,     \* VpnService.prepare() == null
  dialogs,     \* authorisation screens on display
  results,     \* their results, not yet delivered to vpnAuthLauncher
  \* TunService
  svc,         \* a TunService instance exists (onCreate .. onDestroy)
  boxService,  \* the box it refers to
  tunnelFd,    \* the box whose TUN descriptor it refers to
  cores,       \* the boxes whose sing-box core runs, in this process
  iface,       \* the box the system's TUN interface belongs to
  nextBox,     \* identity of the next box
  am,          \* ActivityManager's view of the service
  \* observability
  lostGrant,   \* the result of a granted screen was lost with its task
  overlap,     \* boxService was overwritten while a core was running
  taps, faults

request == <<pendingProfile, lostGrant>>
flows  == <<authEvents, authReplay>>
core   == <<isRunning, currentProfileId>>
auth   == <<consent, dialogs, results>>
tasks  == <<toggles, clicks>>
tunnel == <<svc, boxService, tunnelFd, cores, iface, nextBox, overlap>>
budget == <<taps, faults>>
vars   == <<core, request, flows, coreError, tasks, auth, tunnel, am, budget>>

None == 0            \* "no box": boxes are numbered from 1

Signal   == [kind : {"create", "stop", "restart", "destroy", "crash"}, profile : {NoProfile}]
Request  == [kind : {"start"}, profile : Profile]
Message  == Signal \cup Request
Msg(k)   == [kind |-> k, profile |-> NoProfile]
Start(p) == [kind |-> "start", profile |-> p]

Core == [id : Nat \ {0}, profile : Profile]

(* ActivityManager's service record: record = the service is up or coming   *)
(* up, started = startRequested, fgRequired = startForeground() is owed,    *)
(* sticky = what the last onStartCommand returned.                          *)
Am == [record : BOOLEAN, started : BOOLEAN, fgRequired : BOOLEAN,
       foreground : BOOLEAN, sticky : BOOLEAN, inbox : Seq(Message)]

TypeOK ==
  /\ isRunning \in BOOLEAN
  /\ currentProfileId \in Profile \cup {NoProfile}
  /\ pendingProfile \in Profile \cup {NoProfile}
  /\ authEvents \in 0 .. 2
  /\ authReplay \in BOOLEAN
  /\ coreError \in BOOLEAN
  /\ toggles \in [Profile -> Nat]
  /\ clicks \in [Profile -> Nat]
  /\ consent \in BOOLEAN
  /\ dialogs \in Nat
  /\ results \in Seq(BOOLEAN)
  /\ svc \in BOOLEAN
  /\ boxService \in Nat
  /\ tunnelFd \in Nat
  /\ cores \subseteq Core
  /\ iface \in Nat
  /\ nextBox \in Nat \ {0}
  /\ am \in Am
  /\ overlap \in BOOLEAN
  /\ lostGrant \in BOOLEAN
  /\ taps \in 0 .. MaxTaps
  /\ faults \in 0 .. MaxFaults

NoTasks == [p \in Profile |-> 0]
NoRecord == [record |-> FALSE, started |-> FALSE, fgRequired |-> FALSE,
             foreground |-> FALSE, sticky |-> FALSE, inbox |-> <<>>]

Init ==
  /\ isRunning = FALSE /\ currentProfileId = NoProfile
  /\ pendingProfile = NoProfile /\ lostGrant = FALSE
  /\ authEvents = 0 /\ authReplay = FALSE /\ coreError = FALSE
  /\ toggles = NoTasks /\ clicks = NoTasks
  /\ consent \in BOOLEAN /\ dialogs = 0 /\ results = <<>>
  /\ svc = FALSE /\ boxService = None /\ tunnelFd = None
  /\ cores = {} /\ iface = None /\ nextBox = 1 /\ overlap = FALSE
  /\ am = NoRecord
  /\ taps = 0 /\ faults = 0

-----------------------------------------------------------------------------
(* Android's service calls                                                 *)

\* A destroy is on its way to the living instance: its token is void, and
\* what it asks of ActivityManager (stopSelf, startForeground) has no effect.
Doomed(a) == \E i \in DOMAIN a.inbox : a.inbox[i].kind = "destroy"

\* startService / startForegroundService: a service that is up gets the
\* intent, otherwise an instance is created for it.
Deliver(a, m, promise) ==
  IF a.record
  THEN [a EXCEPT !.started = TRUE, !.inbox = Append(@, m),
                 !.fgRequired = IF promise /\ ~a.foreground THEN TRUE ELSE @]
  ELSE [record |-> TRUE, started |-> TRUE, fgRequired |-> promise,
        foreground |-> FALSE, sticky |-> FALSE,
        inbox |-> a.inbox \o <<Msg("create"), m>>]

\* stopSelf(): with no binding left the record goes and onDestroy is queued.
\* Bringing down a service that still owes startForeground() is a crash.
StopSelf(a, bound) ==
  CASE Doomed(a) -> a
    [] ~Doomed(a) /\ bound -> [a EXCEPT !.started = FALSE]
    [] OTHER -> [NoRecord EXCEPT !.inbox =
                   a.inbox \o <<Msg("destroy")>>
                     \o (IF a.fgRequired THEN <<Msg("crash")>> ELSE <<>>)]

\* startForeground() by the living instance
Promoted(a) ==
  IF Doomed(a) THEN a ELSE [a EXCEPT !.foreground = TRUE, !.fgRequired = FALSE]

\* what onStartCommand returned
Returned(a, sticky) == IF Doomed(a) THEN a ELSE [a EXCEPT !.sticky = sticky]

\* The system binds a VpnService from establish() until its TUN is gone: a
\* stopSelf() meanwhile only ends the started state.  (A TUN that a doomed
\* instance establishes is closed by the onDestroy next in line.)
Bound == iface # None

\* The process died: a started, sticky service is restarted with a null
\* intent.  Intents that were not delivered yet are lost.
Reborn(a) ==
  IF a.record /\ a.started /\ a.sticky
  THEN [a EXCEPT !.fgRequired = FALSE, !.foreground = FALSE, !.sticky = FALSE,
                 !.inbox = <<Msg("create"), Msg("restart")>>]
  ELSE NoRecord

-----------------------------------------------------------------------------
(* CoreController                                                          *)

\* TunService.start and TunService.stop, as calls on ActivityManager
ServiceStart(a, p) == Deliver(a, Start(p), TRUE)
ServiceStop(a) == IF isRunning THEN Deliver(a, Msg("stop"), TRUE) ELSE a

BugEmitted == authEvents + 1   \* an unbounded buffer

\* vpnAuthRequired.tryEmit: a full buffer (replay 1 + extra 1) drops it
Emitted == IF authEvents < 2 THEN authEvents + 1 ELSE authEvents

\* CoreController.start; a is ActivityManager after the calls made before it
ControllerStart(a, p) ==
  IF consent
  THEN /\ am' = ServiceStart(a, p)
       /\ UNCHANGED <<request, flows>>
  ELSE /\ pendingProfile' = p /\ lostGrant' = FALSE
       /\ authEvents' = Emitted
       /\ authReplay' = TRUE
       /\ am' = a

SwitchTo(p) == ControllerStart(ServiceStop(am), p)

BugPendingAfterResult == pendingProfile   \* "pendingProfile = null" is missing

\* onVpnAuthResult: what is pending afterwards
PendingAfterResult == NoProfile

-----------------------------------------------------------------------------
(* The user and ProfilesViewModel                                          *)

Tap == taps < MaxTaps /\ taps' = taps + 1 /\ UNCHANGED faults

\* toggleConnection while running
TapDisconnect ==
  /\ Tap /\ isRunning
  /\ am' = ServiceStop(am)
  /\ UNCHANGED <<core, request, flows, coreError, tasks, auth, tunnel>>

\* toggleConnection while not running: p is selected; suspends in getProfile
TapConnect(p) ==
  /\ Tap /\ ~isRunning
  /\ toggles' = [toggles EXCEPT ![p] = @ + 1]
  /\ UNCHANGED <<core, request, flows, coreError, clicks, auth, tunnel, am>>

\* ... getProfile returned: the row may be gone
ToggleResume(p, found) ==
  /\ toggles[p] > 0
  /\ toggles' = [toggles EXCEPT ![p] = @ - 1]
  /\ IF found THEN ControllerStart(am, p)
              ELSE UNCHANGED <<am, request, flows>>
  /\ UNCHANGED <<core, coreError, clicks, auth, tunnel, budget>>

\* onProfileClick: suspends in setSelectedProfileId
TapProfile(p) ==
  /\ Tap
  /\ clicks' = [clicks EXCEPT ![p] = @ + 1]
  /\ UNCHANGED <<core, request, flows, coreError, toggles, auth, tunnel, am>>

SwitchNeeded(p) == isRunning /\ currentProfileId # p

\* ... and then switches, if another node is connected by now
ClickResume(p) ==
  /\ clicks[p] > 0
  /\ clicks' = [clicks EXCEPT ![p] = @ - 1]
  /\ IF SwitchNeeded(p)
     THEN SwitchTo(p)
     ELSE UNCHANGED <<am, request, flows>>
  /\ UNCHANGED <<core, coreError, toggles, auth, tunnel, budget>>

\* the notification's stop action: PendingIntent.getService, no promise
NotificationStop ==
  /\ Tap /\ am.foreground
  /\ am' = Deliver(am, Msg("stop"), FALSE)
  /\ UNCHANGED <<core, request, flows, coreError, tasks, auth, tunnel>>

ClearCoreError ==
  /\ coreError
  /\ coreError' = FALSE
  /\ UNCHANGED <<core, request, flows, tasks, auth, tunnel, am, budget>>

-----------------------------------------------------------------------------
(* MainActivity                                                            *)

BugMustAsk == consent   \* the test of prepare() inverted

MustAsk == ~consent

\* The collector of vpnAuthRequired
CollectAuth ==
  /\ authEvents > 0
  /\ authEvents' = authEvents - 1
  /\ dialogs' = IF MustAsk THEN dialogs + 1 ELSE dialogs
  /\ UNCHANGED <<core, request, authReplay, coreError, tasks, consent,
                 results, tunnel, am, budget>>

AnswerDialog(granted) ==
  /\ dialogs > 0
  /\ dialogs' = dialogs - 1
  /\ results' = Append(results, granted)
  /\ consent' = (consent \/ granted)
  /\ UNCHANGED <<core, request, flows, coreError, tasks, tunnel, am, budget>>

\* vpnAuthLauncher's callback -> onVpnAuthResult; consent is not looked at
DeliverResult ==
  /\ results # <<>>
  /\ results' = Tail(results)
  /\ IF Head(results) = TRUE /\ pendingProfile # NoProfile
     THEN am' = ServiceStart(am, pendingProfile)
     ELSE UNCHANGED am
  /\ pendingProfile' = PendingAfterResult /\ lostGrant' = FALSE
  /\ UNCHANGED <<core, flows, coreError, tasks, consent, dialogs, tunnel, budget>>

BugReplayedEvents == 0   \* replay = 0

\* What a new collector of vpnAuthRequired receives
ReplayedEvents == IF authReplay THEN 1 ELSE 0

\* A configuration change: a new activity, the same view model and results
RecreateActivity ==
  /\ Tap
  /\ authEvents' = ReplayedEvents
  /\ UNCHANGED <<core, request, authReplay, coreError, tasks, auth, tunnel, am>>

\* The task is removed and the app opened again: view model, screens and
\* results are gone, the process and its singletons are not
ReopenActivity ==
  /\ Tap
  /\ authEvents' = ReplayedEvents
  /\ toggles' = NoTasks /\ clicks' = NoTasks
  /\ dialogs' = 0 /\ results' = <<>>
  /\ coreError' = FALSE
  /\ lostGrant' = (lostGrant \/ Contains(results, TRUE))
  /\ UNCHANGED <<core, pendingProfile, authReplay, consent, tunnel, am>>

-----------------------------------------------------------------------------
(* TunService                                                              *)

NextMessage(k) == am.inbox # <<>> /\ Head(am.inbox).kind = k
Received == [am EXCEPT !.inbox = Tail(@)]

HandleCreate ==
  /\ NextMessage("create")
  /\ svc' = TRUE
  /\ am' = Received
  /\ UNCHANGED <<core, request, flows, coreError, tasks, auth, boxService,
                 tunnelFd, cores, iface, nextBox, overlap, budget>>

BugMayOpenTun == TRUE   \* openTun without the check of prepare()

\* openTun refuses without consent
MayOpenTun == consent

(* initialize(): how far it gets.                                           *)
(*   "setup"   Libbox.setup or newService throws, boxService is untouched   *)
(*   "refused" boxService is the new box, no TUN: start(), the              *)
(*             configuration or openTun fails                               *)
(*   "late"    the TUN was established, a later part of startService fails  *)
(*   "up"      the core runs and holds a duplicate of the TUN descriptor    *)
Outcome == {"setup", "refused", "late", "up"}
Possible(o) == o \in {"setup", "refused"} \/ MayOpenTun

BugInitialized(o) == o \in {"late", "up"}   \* the late exception swallowed

Initialized(o) == o = "up"

BugReportError == UNCHANGED coreError   \* reportError() is missing

\* CoreController.reportError: errorMessage, collected into _coreError
ReportError == coreError' = TRUE

HandleStart(o) ==
  /\ svc /\ NextMessage("start") /\ Possible(o)
  /\ LET p     == Head(am.inbox).profile
         box   == nextBox
         tun   == o \in {"late", "up"}
         fg    == Promoted(Received)
     IN /\ nextBox' = nextBox + 1
        /\ boxService' = IF o = "setup" THEN boxService ELSE box
        /\ tunnelFd' = IF tun THEN box ELSE tunnelFd
        /\ iface' = IF tun THEN box ELSE iface
        /\ cores' = IF o = "up" THEN cores \cup {[id |-> box, profile |-> p]} ELSE cores
        /\ overlap' = (overlap \/ (cores # {} /\ o # "setup"))
        /\ IF Initialized(o)
           THEN /\ isRunning' = TRUE /\ currentProfileId' = p
                /\ am' = Returned(fg, TRUE)
                /\ UNCHANGED coreError
           ELSE /\ UNCHANGED core
                /\ am' = StopSelf(Returned(fg, FALSE), Bound')
                /\ ReportError
  /\ UNCHANGED <<request, flows, tasks, auth, svc, budget>>

\* stopSelf() is missing
BugHandleStop ==
  /\ svc /\ NextMessage("stop")
  /\ am' = Returned(Received, FALSE)
  /\ UNCHANGED <<core, request, flows, coreError, tasks, auth, tunnel, budget>>

\* ACTION_STOP
HandleStop ==
  /\ svc /\ NextMessage("stop")
  /\ am' = StopSelf(Returned(Received, FALSE), Bound)
  /\ UNCHANGED <<core, request, flows, coreError, tasks, auth, tunnel, budget>>

\* the null intent of a sticky restart: the else branch
HandleRestart ==
  /\ svc /\ NextMessage("restart")
  /\ am' = StopSelf(Returned(Received, FALSE), Bound)
  /\ UNCHANGED <<core, request, flows, coreError, tasks, auth, tunnel, budget>>

BugLeftover == cores   \* boxService?.stopService() is missing

\* onDestroy closes the box and the descriptor the instance refers to
Leftover == {b \in cores : b.id # boxService}

HandleDestroy ==
  /\ svc /\ NextMessage("destroy")
  /\ svc' = FALSE /\ boxService' = None /\ tunnelFd' = None
  /\ cores' = Leftover
  /\ iface' = IF \E b \in cores' : b.id = iface THEN iface ELSE None
  /\ isRunning' = FALSE /\ currentProfileId' = NoProfile
  /\ am' = Received
  /\ UNCHANGED <<request, flows, coreError, tasks, auth, nextBox, overlap, budget>>

-----------------------------------------------------------------------------
(* Faults                                                                  *)

\* The process is gone, with every descriptor; authorisation screens and
\* their results belong to other processes and survive
Die ==
  /\ isRunning' = FALSE /\ currentProfileId' = NoProfile
  /\ pendingProfile' = NoProfile /\ lostGrant' = FALSE
  /\ authEvents' = 0 /\ authReplay' = FALSE /\ coreError' = FALSE
  /\ toggles' = NoTasks /\ clicks' = NoTasks
  /\ svc' = FALSE /\ boxService' = None /\ tunnelFd' = None
  /\ cores' = {} /\ iface' = None /\ overlap' = FALSE
  /\ am' = Reborn(am)
  /\ UNCHANGED <<auth, nextBox>>

\* the exception for a broken startForeground() promise
HandleCrash == NextMessage("crash") /\ Die /\ UNCHANGED budget

Fault == faults < MaxFaults /\ faults' = faults + 1 /\ UNCHANGED taps

ProcessDeath == Fault /\ Die

\* onRevoke() overridden, without the default's stopSelf()
BugRevoke ==
  /\ Fault /\ consent
  /\ consent' = FALSE
  /\ iface' = None
  /\ UNCHANGED <<core, request, flows, coreError, tasks, dialogs, results,
                 svc, boxService, tunnelFd, cores, nextBox, overlap, am>>

\* Another VPN app takes over: the TUN and the binding go, and onRevoke(), which
\* TunService inherits, calls stopSelf()
Revoke ==
  /\ Fault /\ consent
  /\ consent' = FALSE
  /\ iface' = None
  /\ am' = IF svc /\ Bound THEN StopSelf(am, FALSE) ELSE am
  /\ UNCHANGED <<core, request, flows, coreError, tasks, dialogs, results,
                 svc, boxService, tunnelFd, cores, nextBox, overlap>>

-----------------------------------------------------------------------------
ServiceStep ==
  \/ HandleCreate
  \/ \E o \in Outcome : HandleStart(o)
  \/ HandleStop
  \/ HandleRestart
  \/ HandleDestroy
  \/ HandleCrash

Next ==
  \/ TapDisconnect
  \/ \E p \in Profile : TapConnect(p)
  \/ \E p \in Profile, found \in BOOLEAN : ToggleResume(p, found)
  \/ \E p \in Profile : TapProfile(p)
  \/ \E p \in Profile : ClickResume(p)
  \/ NotificationStop
  \/ ClearCoreError
  \/ CollectAuth
  \/ \E granted \in BOOLEAN : AnswerDialog(granted)
  \/ DeliverResult
  \/ RecreateActivity
  \/ ReopenActivity
  \/ ServiceStep
  \/ ProcessDeath
  \/ Revoke

Spec == Init /\ [][Next]_vars

\* The main looper runs what is queued on it: service messages, resumed
\* coroutines, collected events, activity results.  Nothing is asked of the
\* user, of faults, or of what initialize() runs into.
Fairness ==
  /\ WF_vars(ServiceStep)
  /\ \A p \in Profile :
       /\ WF_vars(\E found \in BOOLEAN : ToggleResume(p, found))
       /\ WF_vars(ClickResume(p))
  /\ WF_vars(CollectAuth)
  /\ WF_vars(DeliverResult)

FairSpec == Spec /\ Fairness

-----------------------------------------------------------------------------
(* Safety                                                                  *)

\* A TUN is never up without the user's consent: openTun checks it again,
\* because it can be revoked between start() and the service call.
ConsentedTunnel == iface # None => consent

\* "Connected to p" on the screen means that a living service runs p's core,
\* and, unless a second START ran over a living core, that the TUN (when the
\* system has not taken it away) is that core's.
RunningHasCore ==
  isRunning =>
    /\ svc
    /\ \E b \in cores : /\ b.profile = currentProfileId
                        /\ ~overlap /\ iface # None => iface = b.id

\* A request parked in pendingProfile is never forgotten: an event, a screen or
\* a result that will settle it exists, across rotations, reopened tasks and
\* revocations.  (lostGrant: the grant's result was lost with its task.  The
\* replayed event then finds consent, and the request stays pending for good.)
Answerable == authEvents > 0 \/ dialogs > 0 \/ results # <<>>
PendingIsAnswered == pendingProfile # NoProfile /\ ~lostGrant => Answerable

\* With no service, no core and no TUN is left in the process, unless a second
\* START ran over a living core (see DisconnectReleasesTun).
CleanUnlessOverlap == ~svc /\ ~overlap => cores = {} /\ iface = None

-----------------------------------------------------------------------------
(* Liveness                                                                *)

\* A connection whose TUN the system took away ends: isRunning is told, and
\* the core is closed (unless a second START ran over it), whatever is queued
\* in front of the onDestroy that onRevoke() asks for.
RevocationDisconnects ==
  (isRunning /\ ~Bound) ~> (~isRunning /\ (cores = {} \/ overlap))

\* Each request for p that was accepted (pending or sent to the service) is
\* settled or waits for the user in an authorisation screen, or the grant it
\* waited for was lost.
Requested(p) ==
  pendingProfile = p \/ \E i \in DOMAIN am.inbox : am.inbox[i] = Start(p)
RequestsResolve ==
  \A p \in Profile : Requested(p) ~> (~Requested(p) \/ dialogs > 0 \/ lostGrant)

\* A switch to p, once its stop and start are on their way to the running service
\* and nothing behind them, ends connected to p or in an error the user is told,
\* unless the process dies or the VPN is revoked meanwhile.
SwitchQueued(p) ==
  /\ isRunning /\ svc /\ ~Doomed(am) /\ Len(am.inbox) >= 2
  /\ am.inbox[Len(am.inbox) - 1].kind = "stop"
  /\ Last(am.inbox) = Start(p)
Connected(p) == isRunning /\ currentProfileId = p /\ ~Doomed(am)
SwitchReconnects ==
  \A p \in Profile :
    (SwitchQueued(p) /\ faults = MaxFaults) ~> (Connected(p) \/ coreError)

-----------------------------------------------------------------------------
(* What the documents say and the code does not do                         *)

\* PLAN.md: disconnecting stops the service, releases the TUN, and updates the
\* state.  ACTION_STOP only calls stopSelf(), which cannot destroy the service
\* while its TUN is up, and nothing but onDestroy() closes the TUN.
StopQueued == am.inbox # <<>> /\ Last(am.inbox).kind = "stop"
StopDisconnects == StopQueued ~> ~isRunning

\* PLAN.md, the same line: a service that is gone has released its core and TUN.
\* A switch or a second START overwrites boxService and tunnelFd.
DisconnectReleasesTun == ~svc => cores = {} /\ iface = None

\* stop() asks the service only while the tunnel runs, to stay within the limits
\* on services started from the background.  isRunning is stale from stopSelf()
\* to onDestroy(): a stop() then creates a fresh service, whose ACTION_STOP
\* breaks the startForeground() promise that came with it.
StopKeepsPromise ==
  [][HandleStop => \A i \in DOMAIN am'.inbox : am'.inbox[i].kind # "crash"]_vars
=============================================================================
