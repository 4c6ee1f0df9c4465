--------------------------- MODULE CommandServer ----------------------------
(***************************************************************************)
(* Where libbox's CommandServer listens: Start, Close and Setup, in any    *)
(* order and from several server objects of one process (each NewService   *)
(* makes one), with clients of the same process that dial and authenticate.*)
(*                                                                         *)
(* A server listens, and a client dials, at the place that Setup chose     *)
(* last: the path command.sock below the base path, or a port.  A Unix     *)
(* listener that Go closes unlinks its path, whoever owns the file by then,*)
(* and a process that dies leaves the file behind.  Listeners are numbered.*)
(***************************************************************************)
EXTENDS Integers, FiniteSets

CONSTANTS
  Server,      \* CommandServer objects
  Path, Port,  \* where they may listen: socket paths and ports
  Secrets,     \* values of commandServerSecret; NoSecret is the empty one
  NoSecret,
  Tries,       \* attempts to bind on a read-only file system (30 in the code)
  MaxStarts,   \* bound: calls of Start
  MaxSetups,   \* bound: calls of Setup behind the first
  MaxDeaths    \* bound: deaths of the process

Place == Path \cup Port

ASSUME ServerAssumption == NoSecret \in Secrets /\ Path \cap Port = {}
ASSUME ServerBounds == Tries \in Nat \ {0} /\ {MaxStarts, MaxSetups, MaxDeaths} \subseteq Nat

VARIABLES
  place,       \* what sBasePath and sCommandServerListenPort say
  secret,      \* sCommandServerSecret
  foreign,     \* sUserID is not the user of the process, which has not called Setup
  readonly,    \* the file system is still read-only
  leads,       \* [Place -> the listener that it leads to]
  open,        \* listeners that are open
  bound,       \* [Listener -> the place it was bound to]
  nextListener,
  listener,    \* [Server -> s.listener, which s.grpcServer serves; None = nil]
  start,       \* [Server -> the Start under way]
  path,        \* [Server -> where its last Start listens]
  result,      \* [Server -> what Start returned last]
  call,        \* a client's call, of this process or another one
  starts, setups, deaths,
  \* observability
  clean,       \* servers whose Start removed the file, with no other Start beside it
  overwritten, \* listeners a second Start of their server made it forget
  cutOff       \* listeners the path was taken from by another server's doing

setting == <<place, foreign, secret>>
sockets == <<leads, open, bound, nextListener, listener>>
history == <<clean, overwritten, cutOff>>
vars == <<setting, readonly, sockets, start, path, result, call,
          starts, setups, deaths, history>>

None  == 0
Stale == -1    \* a file that no listener of this process made
Listener == 1 .. MaxStarts

Idle   == [at |-> "idle", left |-> 0, made |-> None]
NoCall == [at |-> "over", to |-> None, sent |-> NoSecret, changed |-> FALSE]

TypeOK ==
  /\ {foreign, readonly} \subseteq BOOLEAN
  /\ place \in Place
  /\ secret \in Secrets
  /\ leads \in [Place -> Listener \cup {None, Stale}]
  /\ bound \in [Listener -> Place]
  /\ {open, overwritten, cutOff} \subseteq SUBSET Listener
  /\ nextListener \in 1 .. MaxStarts + 1
  /\ listener \in [Server -> Listener \cup {None}]
  /\ start \in [Server -> {Idle} \cup [at : {"listen"}, left : 1 .. Tries, made : {None}]
                           \cup [at : {"chown"}, left : {0}, made : Listener]]
  /\ path \in [Server -> Place]
  /\ result \in [Server -> {"none", "ok", "inuse", "failed"}]
  /\ call \in [at : {"over", "sent", "served", "refused"},
               to : Listener \cup {None}, sent : Secrets, changed : BOOLEAN]
  /\ starts \in 0 .. MaxStarts /\ setups \in 0 .. MaxSetups /\ deaths \in 0 .. MaxDeaths
  /\ clean \subseteq Server

Init ==
  /\ place \in Place /\ foreign \in BOOLEAN /\ readonly \in BOOLEAN
  /\ secret \in Secrets
  /\ \E found \in SUBSET Path : leads = [p \in Place |-> IF p \in found THEN Stale ELSE None]
  /\ open = {} /\ bound = [n \in Listener |-> place] /\ nextListener = 1
  /\ listener = [s \in Server |-> None]
  /\ start = [s \in Server |-> Idle] /\ path = [s \in Server |-> place]
  /\ result = [s \in Server |-> "none"]
  /\ call = NoCall
  /\ starts = 0 /\ setups = 0 /\ deaths = 0
  /\ clean = {} /\ overwritten = {} /\ cutOff = {}

-----------------------------------------------------------------------------
(* Start                                                                   *)

Resting(s) == start[s].at = "idle"
Returns(s, value) ==
  start' = [start EXCEPT ![s] = Idle] /\ result' = [result EXCEPT ![s] = value]

\* s.listener and s.grpcServer are assigned, whatever they were
Install(s, n) ==
  /\ Returns(s, "ok")
  /\ listener' = [listener EXCEPT ![s] = n]
  /\ overwritten' = overwritten \cup ({listener[s]} \ {None})

Bind(p) ==
  /\ open' = open \cup {nextListener} /\ nextListener' = nextListener + 1
  /\ bound' = [bound EXCEPT ![nextListener] = p]
  /\ leads' = [leads EXCEPT ![p] = nextListener]

\* The place that Setup has chosen is read once
Begins(s) ==
  /\ Resting(s) /\ starts < MaxStarts
  /\ starts' = starts + 1
  /\ path' = [path EXCEPT ![s] = place]

BugRemoved == leads[place]   \* os.Remove is missing

\* os.Remove of the path, which fails silently on a read-only file system
Removed == IF readonly THEN leads[place] ELSE None

\* Start begins; with a Unix socket it removes the file first
StartUnix(s) ==
  /\ place \in Path /\ Begins(s)
  /\ leads' = [leads EXCEPT ![place] = Removed]
  /\ cutOff' = IF Removed = None THEN cutOff \cup ({leads[place]} \cap open) ELSE cutOff
  /\ clean' = IF ~readonly /\ \A t \in Server : Resting(t) THEN {s} ELSE {}
  /\ start' = [start EXCEPT ![s] = [at |-> "listen", left |-> Tries, made |-> None]]
  /\ UNCHANGED <<setting, readonly, open, bound, nextListener, listener, result, call,
                 setups, deaths, overwritten>>

\* The path is free: a new listener, which is the server's unless it must be chowned
AttemptBinds(s) ==
  /\ start[s].at = "listen" /\ leads[path[s]] = None /\ ~readonly
  /\ Bind(path[s])
  /\ IF foreign
     THEN /\ start' = [start EXCEPT ![s] = [at |-> "chown", left |-> 0,
                                            made |-> nextListener]]
          /\ UNCHANGED <<listener, result, overwritten>>
     ELSE Install(s, nextListener)
  /\ UNCHANGED <<setting, readonly, path, call, starts, setups, deaths, clean, cutOff>>

\* With a port there is nothing to remove and nothing to try again
StartTcp(s) ==
  /\ place \in Port /\ Begins(s)
  /\ \/ leads[place] = None /\ Bind(place) /\ Install(s, nextListener)
     \/ Returns(s, "inuse") /\ leads[place] # None
        /\ UNCHANGED <<sockets, overwritten>>
  /\ clean' = clean \ {s}
  /\ UNCHANGED <<setting, readonly, call, setups, deaths, cutOff>>

BugMoreTries(left) == left >= 1   \* one attempt too many

MoreTries(left) == left > 1

\* EROFS is tried again, a second later; every other error, and the last one, is
\* returned.  A path that exists is "in use", also on a read-only file system.
AttemptFails(s) ==
  /\ start[s].at = "listen"
  /\ \/ leads[path[s]] # None /\ Returns(s, "inuse")
     \/ /\ leads[path[s]] = None /\ readonly
        /\ IF MoreTries(start[s].left)
           THEN start' = [start EXCEPT ![s].left = @ - 1] /\ UNCHANGED result
           ELSE Returns(s, "failed")
     \/ leads[path[s]] = None /\ ~readonly /\ Returns(s, "failed")
  /\ UNCHANGED <<setting, readonly, sockets, path, call, starts, setups, deaths, history>>

BugFreed(n) == open   \* the listener stays open when the socket cannot be chowned

Freed(n) == open \ {n}

\* The socket is not the user's yet.  A failure closes the listener, which unlinks the
\* path, and removes the path.
Chown(s) ==
  /\ start[s].at = "chown"
  /\ \/ /\ Install(s, start[s].made)
        /\ UNCHANGED <<leads, open, cutOff>>
     \/ /\ Returns(s, "failed")
        /\ open' = Freed(start[s].made)
        /\ leads' = [leads EXCEPT ![path[s]] = None]
        /\ cutOff' = cutOff \cup ({leads[path[s]]} \cap (open \ {start[s].made}))
        /\ UNCHANGED <<listener, overwritten>>
  /\ UNCHANGED <<setting, readonly, bound, nextListener, path, call, starts, setups, deaths,
                 clean>>

-----------------------------------------------------------------------------
(* Close, Setup, the process                                               *)

\* Close stops the gRPC server and closes the listener; the fields keep their values.
\* A Unix listener unlinks the path, once, and it may be another server's by now.
Close(s) ==
  LET n == listener[s] p == bound[n]
  IN /\ n \in open
     /\ open' = open \ {n}
     /\ leads' = [leads EXCEPT ![p] = IF p \in Path \/ @ = n THEN None ELSE @]
     /\ cutOff' = cutOff \cup ({leads[p]} \cap (open \ {n}))
     /\ UNCHANGED <<setting, readonly, bound, nextListener, listener, start, path, result, call,
                    starts, setups, deaths, clean, overwritten>>

\* Setup is called again for each connection, with another base path, port or secret: who
\* listens stays where it is, and is asked for the new secret.
Setup(newPlace, new) ==
  /\ setups < MaxSetups /\ setups' = setups + 1
  /\ place' = newPlace /\ secret' = new /\ foreign' = FALSE
  /\ call' = [call EXCEPT !.changed = @ \/ new # secret]
  /\ UNCHANGED <<readonly, sockets, start, path, result, starts, deaths, history>>

BecomesWritable ==
  /\ readonly /\ readonly' = FALSE
  /\ UNCHANGED <<setting, sockets, start, path, result, call, starts, setups, deaths, history>>

\* The process dies; the file of a Unix socket remains
Die ==
  /\ deaths < MaxDeaths /\ deaths' = deaths + 1
  /\ leads' = [p \in Place |-> IF p \in Port \/ leads[p] = None THEN None ELSE Stale]
  /\ open' = {} /\ listener' = [s \in Server |-> None]
  /\ start' = [s \in Server |-> Idle] /\ result' = [s \in Server |-> "none"]
  /\ bound' = [n \in Listener |-> place] /\ path' = [s \in Server |-> place]
  /\ call' = NoCall
  /\ readonly' \in BOOLEAN
  /\ clean' = {} /\ overwritten' = {} /\ cutOff' = {}
  /\ UNCHANGED <<setting, nextListener, starts, setups>>

-----------------------------------------------------------------------------
(* Clients                                                                 *)

DialAs(p, sent) ==
  /\ call.at # "sent"
  /\ call' = IF leads[p] \in open
             THEN [at |-> "sent", to |-> leads[p], sent |-> sent, changed |-> FALSE]
             ELSE NoCall   \* unavailable
  /\ UNCHANGED <<setting, readonly, sockets, start, path, result, starts, setups, deaths,
                 history>>

\* A client of this process dials where Setup says, and its interceptor adds the secret, if
\* there is one.  (One of another process, which was set up in any way, dials anywhere.)
Dial == DialAs(place, secret)

BugAuthorized(sent) == TRUE   \* the values are not compared

\* the server's interceptors: no secret lets everybody in
Authorized(sent) == secret = NoSecret \/ sent = secret

Serve ==
  /\ call.at = "sent"
  /\ call' = IF call.to \notin open THEN NoCall
             ELSE [call EXCEPT !.at = IF Authorized(call.sent) THEN "served" ELSE "refused"]
  /\ UNCHANGED <<setting, readonly, sockets, start, path, result, starts, setups, deaths,
                 history>>

-----------------------------------------------------------------------------
Next ==
  \/ \E s \in Server : \/ StartUnix(s) \/ StartTcp(s) \/ AttemptBinds(s) \/ AttemptFails(s)
                        \/ Chown(s) \/ Close(s)
  \/ \E p \in Place, new \in Secrets : Setup(p, new)
  \/ BecomesWritable \/ Die
  \/ Dial \/ (\E p \in Place, sent \in Secrets : DialAs(p, sent)) \/ Serve

Spec == Init /\ [][Next]_vars

-----------------------------------------------------------------------------
(* Properties                                                              *)

\* No listener is leaked: each one that is open belongs to a server that will close it,
\* or to a Start under way that will install or close it.  Only a second Start of the
\* same object, which overwrites s.listener, loses one.
NoListenerLeak ==
  open \subseteq {listener[s] : s \in Server} \cup {start[s].made : s \in Server} \cup overwritten

\* Who died does not keep the next process from listening: a Start on a path finds it in
\* use only if another Start overlaps it, or if the file system was read-only when it
\* removed the old socket (which is not tried again).
StaleSocketHarmless ==
  \A s \in clean : Resting(s) => result[s] # "inuse"

\* A server that listens can be reached at the place it was bound to, wherever Setup points
\* by now, unless a later Start, or the Close of another server, took that place from it.
\* A call is let in if there is no secret or it brings the right one, and only then,
\* whoever sent it; unless Setup changed the secret while it was on its way or since.
ServerAnswers ==
  /\ \A n \in open : leads[bound[n]] = n \/ n \in cutOff
  /\ call.at \in {"served", "refused"} /\ ~call.changed =>
       (call.at = "served" <=> secret = NoSecret \/ call.sent = secret)
=============================================================================
