------------------------ MODULE CommandServerProofs -------------------------
(* What holds of CommandServer for every number of servers, places, secrets, *)
(* attempts to bind, starts and deaths.                                     *)
EXTENDS CommandServer, FiniteSetTheorems, TLAPS

-----------------------------------------------------------------------------
(* Types                                                                   *)

Listening == {s \in Server : start[s].at = "listen"}

\* Each Start makes one listener, or none: the next number is free as long as there are starts
CountInv ==
  /\ IsFiniteSet(Listening)
  /\ nextListener + Cardinality(Listening) <= starts + 1

Listens == [at : {"listen"}, left : 1 .. Tries, made : {None}]
Chowns  == [at : {"chown"}, left : {0}, made : Listener]

\* Every server object has the numbers, states and results it may have.
LEMMA TypesKept == TypeOK /\ CountInv /\ [Next]_vars => TypeOK'
<1> SUFFICES ASSUME TypeOK, CountInv, [Next]_vars PROVE TypeOK'
  OBVIOUS
<1> USE ServerAssumption, ServerBounds
<1>0. /\ Idle \in {Idle} \cup Listens \cup Chowns
      /\ start \in [Server -> {Idle} \cup Listens \cup Chowns]
      /\ TypeOK' <=> TypeOK' /\ start' \in [Server -> {Idle} \cup Listens \cup Chowns]
  BY DEF TypeOK, Listens, Chowns
<1>1. ASSUME NEW s \in Server, start[s].at = "listen"
      PROVE  nextListener \in Listener /\ nextListener + 1 \in 1 .. MaxStarts + 1
  <2>1. Listening # {}
    BY <1>1 DEF Listening
  <2>2. Cardinality(Listening) \in Nat \ {0}
    BY <2>1, FS_CardinalityType, FS_EmptySet DEF CountInv
  <2>3. nextListener \in 1 .. MaxStarts + 1 /\ starts \in 0 .. MaxStarts
    BY DEF TypeOK
  <2> QED
    BY <2>2, <2>3 DEF CountInv, Listener
<1>2. ASSUME NEW s \in Server, NEW n \in Listener, Install(s, n)
      PROVE  /\ listener' \in [Server -> Listener \cup {None}]
             /\ start' \in [Server -> {Idle} \cup Listens \cup Chowns]
             /\ result' \in [Server -> {"none", "ok", "inuse", "failed"}]
             /\ overwritten' \subseteq Listener
  BY <1>0, <1>2 DEF TypeOK, Install, Returns
<1>3. ASSUME NEW s \in Server, NEW v \in {"ok", "inuse", "failed"}, Returns(s, v)
      PROVE  /\ start' \in [Server -> {Idle} \cup Listens \cup Chowns]
             /\ result' \in [Server -> {"none", "ok", "inuse", "failed"}]
  BY <1>0, <1>3 DEF TypeOK, Returns
<1>4. ASSUME NEW s \in Server, StartUnix(s) PROVE TypeOK'
  <2>1. start' \in [Server -> {Idle} \cup Listens \cup Chowns]
    <3>1. [at |-> "listen", left |-> Tries, made |-> None] \in Listens
      BY DEF Listens
    <3> QED
      BY <1>0, <1>4, <3>1 DEF StartUnix
  <2>2. /\ starts' \in 0 .. MaxStarts /\ path' \in [Server -> Place]
        /\ leads' \in [Place -> Listener \cup {None, Stale}]
        /\ cutOff' \subseteq Listener /\ clean' \subseteq Server
    BY <1>4 DEF TypeOK, StartUnix, Begins, Removed
  <2>3. UNCHANGED <<place, foreign, secret, readonly, open, bound, nextListener, listener, result,
                    call, setups, deaths, overwritten>>
    BY <1>4 DEF StartUnix, setting
  <2> QED
    BY <2>1, <2>2, <2>3 DEF TypeOK, Listens, Chowns
<1>5. ASSUME NEW s \in Server, StartTcp(s) PROVE TypeOK'
  <2>1. UNCHANGED <<place, foreign, secret, readonly, call, setups, deaths, cutOff>>
        /\ starts' \in 0 .. MaxStarts /\ path' \in [Server -> Place] /\ clean' \subseteq Server
    BY <1>5 DEF StartTcp, Begins, setting, TypeOK
  <2>2. CASE Bind(place) /\ Install(s, nextListener)
    <3>1. nextListener \in Listener /\ nextListener + 1 \in 1 .. MaxStarts + 1
      <4>1. Cardinality(Listening) \in Nat
        BY FS_CardinalityType DEF CountInv
      <4> QED
        BY <1>5, <4>1 DEF StartTcp, Begins, CountInv, TypeOK, Listener
    <3>2. /\ open' \subseteq Listener /\ nextListener' \in 1 .. MaxStarts + 1
          /\ leads' \in [Place -> Listener \cup {None, Stale}] /\ bound' \in [Listener -> Place]
      BY <2>2, <3>1 DEF Bind, TypeOK
    <3> QED
      BY <1>2, <2>1, <2>2, <3>1, <3>2 DEF TypeOK, Listens, Chowns
  <2>3. CASE Returns(s, "inuse") /\ UNCHANGED <<sockets, overwritten>>
    BY <1>3, <2>1, <2>3 DEF TypeOK, sockets, Listens, Chowns
  <2> QED
    BY <1>5, <2>2, <2>3 DEF StartTcp
<1>6. ASSUME NEW s \in Server, AttemptBinds(s) PROVE TypeOK'
  <2>1. UNCHANGED <<place, foreign, secret, readonly, path, call, starts, setups, deaths, clean,
                    cutOff>>
    BY <1>6 DEF AttemptBinds, setting
  <2>2. nextListener \in Listener /\ nextListener + 1 \in 1 .. MaxStarts + 1
    BY <1>1, <1>6 DEF AttemptBinds
  <2>3. /\ open' \subseteq Listener /\ nextListener' \in 1 .. MaxStarts + 1
        /\ leads' \in [Place -> Listener \cup {None, Stale}] /\ bound' \in [Listener -> Place]
    BY <1>6, <2>2 DEF AttemptBinds, Bind, TypeOK
  <2>4. CASE Install(s, nextListener)
    BY <1>2, <2>1, <2>2, <2>3, <2>4 DEF TypeOK, Listens, Chowns
  <2>5. CASE /\ start' = [start EXCEPT ![s] = [at |-> "chown", left |-> 0,
                                              made |-> nextListener]]
             /\ UNCHANGED <<listener, result, overwritten>>
    <3>1. [at |-> "chown", left |-> 0, made |-> nextListener] \in Chowns
      BY <2>2 DEF Chowns
    <3>2. start' \in [Server -> {Idle} \cup Listens \cup Chowns]
      BY <1>0, <2>5, <3>1
    <3> QED
      BY <2>1, <2>3, <2>5, <3>2 DEF TypeOK, Listens, Chowns
  <2> QED
    BY <1>6, <2>4, <2>5 DEF AttemptBinds
<1>7. ASSUME NEW s \in Server, AttemptFails(s) PROVE TypeOK'
  <2>1. UNCHANGED <<place, foreign, secret, readonly, leads, open, bound, nextListener, listener,
                    path, call, starts, setups, deaths, clean, overwritten, cutOff>>
    BY <1>7 DEF AttemptFails, setting, sockets, history
  <2>2. CASE /\ MoreTries(start[s].left) /\ UNCHANGED result
             /\ start' = [start EXCEPT ![s].left = @ - 1]
    <3>1. start[s] \in Listens
      BY <1>0, <1>7 DEF AttemptFails, Idle, Chowns
    <3>2. [start[s] EXCEPT !.left = @ - 1] \in Listens
      BY <2>2, <3>1 DEF Listens, MoreTries
    <3>3. start' = [start EXCEPT ![s] = [start[s] EXCEPT !.left = @ - 1]]
      BY <1>0, <2>2
    <3>4. start' \in [Server -> {Idle} \cup Listens \cup Chowns]
      BY <1>0, <3>2, <3>3
    <3> QED
      BY <2>1, <2>2, <3>4 DEF TypeOK, Listens, Chowns
  <2>3. CASE \E v \in {"inuse", "failed"} : Returns(s, v)
    BY <1>3, <2>1, <2>3 DEF TypeOK, Listens, Chowns
  <2> QED
    BY <1>7, <2>2, <2>3 DEF AttemptFails
<1>8. ASSUME NEW s \in Server, Chown(s) PROVE TypeOK'
  <2>1. UNCHANGED <<place, foreign, secret, readonly, bound, nextListener, path, call, starts, setups,
                    deaths, clean>>
        /\ open' \subseteq Listener /\ leads' \in [Place -> Listener \cup {None, Stale}]
        /\ cutOff' \subseteq Listener
    BY <1>8 DEF Chown, setting, Freed, TypeOK
  <2>2. start[s].made \in Listener
    BY <1>0, <1>8 DEF Chown, Idle, Listens, Chowns
  <2>3. CASE Install(s, start[s].made)
    BY <1>2, <2>1, <2>2, <2>3 DEF TypeOK, Listens, Chowns
  <2>4. CASE Returns(s, "failed") /\ UNCHANGED <<listener, overwritten>>
    BY <1>3, <2>1, <2>4 DEF TypeOK, Listens, Chowns
  <2> QED
    BY <1>8, <2>3, <2>4 DEF Chown
<1>9. ASSUME NEW s \in Server, Close(s) PROVE TypeOK'
  <2>1. UNCHANGED <<place, foreign, secret, readonly, bound, nextListener, listener, start, path,
                    result, call, starts, setups, deaths, clean, overwritten>>
        /\ open' \subseteq Listener /\ leads' \in [Place -> Listener \cup {None, Stale}]
        /\ cutOff' \subseteq Listener
    BY <1>9 DEF Close, setting, TypeOK
  <2> QED
    BY <2>1 DEF TypeOK
<1>10. ASSUME NEW p \in Place, NEW new \in Secrets, Setup(p, new) PROVE TypeOK'
  <2>1. UNCHANGED <<readonly, leads, open, bound, nextListener, listener, start, path, result,
                    starts, deaths, clean, overwritten, cutOff>>
    BY <1>10 DEF Setup, sockets, history
  <2>2. place' \in Place /\ secret' \in Secrets /\ foreign' \in BOOLEAN
        /\ setups' \in 0 .. MaxSetups
    <3>1. setups \in 0 .. MaxSetups /\ setups < MaxSetups /\ setups' = setups + 1
      BY <1>10 DEF Setup, TypeOK
    <3>2. setups' \in 0 .. MaxSetups
      BY <3>1
    <3>3. place' \in Place /\ secret' \in Secrets /\ foreign' \in BOOLEAN
      BY <1>10, Zenon DEF Setup
    <3> QED
      BY <3>2, <3>3
  <2>3. call' \in [at : {"over", "sent", "served", "refused"}, to : Listener \cup {None},
                   sent : Secrets, changed : BOOLEAN]
    BY <1>10 DEF Setup, TypeOK
  <2> QED
    BY <2>1, <2>2, <2>3 DEF TypeOK
<1>11. CASE BecomesWritable
  BY <1>11 DEF BecomesWritable, TypeOK, setting, sockets, history
<1>12. NoCall \in [at : {"over", "sent", "served", "refused"}, to : Listener \cup {None},
                   sent : Secrets, changed : BOOLEAN]
  BY DEF NoCall
<1>13. CASE Die
  <2>1. UNCHANGED <<place, foreign, secret, nextListener, starts, setups>>
        /\ call' = NoCall /\ start' = [s \in Server |-> Idle]
        /\ listener' = [s \in Server |-> None] /\ result' = [s \in Server |-> "none"]
    BY <1>13 DEF Die, setting
  <2>2. /\ readonly' \in BOOLEAN /\ deaths' \in 0 .. MaxDeaths
        /\ leads' \in [Place -> {None, Stale}] /\ bound' \in [Listener -> Place]
        /\ path' \in [Server -> Place] /\ open' = {} /\ clean' = {} /\ overwritten' = {}
        /\ cutOff' = {}
    BY <1>13 DEF Die, TypeOK
  <2> QED
    BY <1>12, <2>1, <2>2 DEF TypeOK
<1>14. ASSUME Dial \/ (\E p \in Place, sent \in Secrets : DialAs(p, sent)) \/ Serve PROVE TypeOK'
  <2>1. UNCHANGED <<place, foreign, secret, readonly, leads, open, bound, nextListener, listener,
                    start, path, result, starts, setups, deaths, clean, overwritten, cutOff>>
    BY <1>14 DEF Dial, DialAs, Serve, setting, sockets, history
  <2>2. call' \in [at : {"over", "sent", "served", "refused"}, to : Listener \cup {None},
                   sent : Secrets, changed : BOOLEAN]
    <3>1. ASSUME NEW p \in Place, NEW sent \in Secrets, DialAs(p, sent)
          PROVE  call' \in [at : {"over", "sent", "served", "refused"}, to : Listener \cup {None},
                            sent : Secrets, changed : BOOLEAN]
      BY <1>12, <3>1 DEF DialAs, TypeOK
    <3>2. CASE Serve
      BY <1>12, <3>2 DEF Serve, TypeOK
    <3> QED
      BY <1>14, <3>1, <3>2 DEF Dial, TypeOK
  <2> QED
    BY <2>1, <2>2 DEF TypeOK
<1>15. CASE UNCHANGED vars
  BY <1>15 DEF TypeOK, vars, setting, sockets, history
<1> QED
  BY <1>4, <1>5, <1>6, <1>7, <1>8, <1>9, <1>10, <1>11, <1>13, <1>14, <1>15 DEF Next

\* A Start that begins to listen is counted by `starts`, and makes one listener at most.
LEMMA CountKept == TypeOK /\ CountInv /\ [Next]_vars => CountInv'
<1> SUFFICES ASSUME TypeOK, CountInv, [Next]_vars PROVE CountInv'
  OBVIOUS
<1> DEFINE n == Cardinality(Listening)
<1>0. n \in Nat /\ nextListener \in Int /\ starts \in Int
  BY ServerBounds, FS_CardinalityType DEF CountInv, TypeOK
<1>1. ASSUME NEW s \in Server, Listening' = Listening \cup {s},
             nextListener' = nextListener, starts' = starts + 1
      PROVE  CountInv'
  <2>1. IsFiniteSet(Listening') /\ Cardinality(Listening') \in {n, n + 1}
    BY <1>1, FS_AddElement DEF CountInv
  <2> QED
    BY <1>0, <1>1, <2>1 DEF CountInv
<1>2. ASSUME NEW s \in Server, Listening' = Listening \ {s}, starts' = starts,
             \/ nextListener' = nextListener
             \/ s \in Listening /\ nextListener' = nextListener + 1
      PROVE  CountInv'
  <2>1. /\ IsFiniteSet(Listening')
        /\ Cardinality(Listening') = IF s \in Listening THEN n - 1 ELSE n
    BY <1>2, FS_RemoveElement DEF CountInv
  <2> QED
    BY <1>0, <1>2, <2>1 DEF CountInv
<1>3. ASSUME Listening' = Listening, starts' = starts, nextListener' = nextListener
      PROVE  CountInv'
  BY <1>3 DEF CountInv
<1>4. ASSUME NEW s \in Server, start' = [start EXCEPT ![s] = Idle]
      PROVE  Listening' = Listening \ {s}
  BY <1>4 DEF TypeOK, Listening, Idle
<1>5. ASSUME NEW s \in Server, StartUnix(s) PROVE CountInv'
  <2>1. Listening' = Listening \cup {s}
    BY <1>5 DEF StartUnix, Listening, TypeOK
  <2> QED
    BY <1>1, <1>5, <2>1 DEF StartUnix, Begins
<1>6. ASSUME NEW s \in Server, StartTcp(s) PROVE CountInv'
  <2>1. start' = [start EXCEPT ![s] = Idle] /\ starts' = starts + 1
        /\ nextListener' \in {nextListener, nextListener + 1}
    BY <1>6 DEF StartTcp, Begins, Bind, Install, Returns, sockets
  <2>2. s \notin Listening
    BY <1>6 DEF StartTcp, Begins, Resting, Listening
  <2>3. Listening' = Listening
    BY <1>4, <2>1, <2>2
  <2> QED
    BY <1>0, <2>1, <2>3 DEF CountInv
<1>7. ASSUME NEW s \in Server, AttemptBinds(s) PROVE CountInv'
  <2>1. s \in Listening /\ starts' = starts /\ nextListener' = nextListener + 1
    BY <1>7 DEF AttemptBinds, Bind, Listening
  <2>2. Listening' = Listening \ {s}
    BY <1>4, <1>7 DEF AttemptBinds, Install, Returns, Listening, TypeOK
  <2> QED
    BY <1>2, <2>1, <2>2
<1>8. ASSUME NEW s \in Server, AttemptFails(s) PROVE CountInv'
  <2>1. starts' = starts /\ nextListener' = nextListener
    BY <1>8 DEF AttemptFails, sockets
  <2>2. CASE start' = [start EXCEPT ![s] = Idle]
    BY <1>2, <1>4, <2>1, <2>2
  <2>3. CASE start' = [start EXCEPT ![s].left = @ - 1]
    <3>1. \A t \in Server : start'[t].at = start[t].at
      <4>1. start[s] \in [at : {"idle", "listen", "chown"}, left : Int, made : Int]
        BY <1>8, ServerBounds DEF TypeOK, Idle, None, Listener
      <4> QED
        BY <2>3, <4>1 DEF TypeOK
    <3> QED
      BY <1>3, <2>1, <3>1 DEF Listening
  <2> QED
    BY <1>8, <2>2, <2>3 DEF AttemptFails, Returns
<1>9. ASSUME NEW s \in Server, Chown(s) PROVE CountInv'
  <2>1. start' = [start EXCEPT ![s] = Idle] /\ starts' = starts /\ nextListener' = nextListener
    BY <1>9 DEF Chown, Install, Returns
  <2> QED
    BY <1>2, <1>4, <2>1
<1>10. CASE Die
  <2>1. Listening' = {} /\ starts' = starts /\ nextListener' = nextListener
    BY <1>10 DEF Die, Listening, Idle
  <2>2. IsFiniteSet({}) /\ Cardinality({}) = 0
    BY FS_EmptySet
  <2> QED
    BY <1>0, <2>1, <2>2 DEF CountInv
<1>11. CASE UNCHANGED <<start, starts, nextListener>>
  BY <1>3, <1>11 DEF Listening
<1> QED
  BY <1>5, <1>6, <1>7, <1>8, <1>9, <1>10, <1>11
  DEF Next, Close, Setup, BecomesWritable, Dial, DialAs, Serve, vars, sockets

\* CommandServer begins with its types, and with nobody who listens.
LEMMA TypesBegin == Init => TypeOK /\ CountInv
<1> SUFFICES ASSUME Init PROVE TypeOK /\ CountInv
  OBVIOUS
<1>1. Listening = {}
  BY DEF Init, Listening, Idle
<1>2. IsFiniteSet({}) /\ Cardinality({}) = 0
  BY FS_EmptySet
<1>3. CountInv
  BY <1>1, <1>2 DEF Init, CountInv
<1>4. TypeOK
  BY ServerAssumption, ServerBounds DEF Init, TypeOK, NoCall
<1> QED
  BY <1>3, <1>4

\* Servers, their listeners, the places they listen at and the calls of a client have their types.
THEOREM TypeCorrect == Spec => []TypeOK
<1>1. TypeOK /\ CountInv /\ [Next]_vars => (TypeOK /\ CountInv)'
  BY TypesKept, CountKept
<1> QED
  BY <1>1, TypesBegin, PTL DEF Spec

-----------------------------------------------------------------------------
(* Safety                                                                  *)

\* Servers hold listeners by number, and a Start has one of its own only while it must be
\* chowned
Shapes ==
  /\ nextListener \in Nat \ {0} /\ open \subseteq Nat \ {0}
  /\ listener \in [Server -> Nat]
  /\ start \in [Server -> [at : {"idle", "listen", "chown"}, left : Int, made : Nat]]
  /\ \A s \in Server : start[s].at # "chown" => start[s].made = None
  /\ result \in [Server -> {"none", "ok", "inuse", "failed"}]

\* A Start that removed the file, and that no other one overlaps, finds the path free
CleanInv ==
  /\ clean \subseteq Server
  /\ \A s \in clean :
       /\ path[s] \in Path
       /\ start[s].at = "listen" => leads[path[s]] = None /\ \A t \in Server \ {s} : Resting(t)
       /\ Resting(s) => result[s] # "inuse"

\* A number is given once; a call's answer is of the secret that it was compared with, which
\* is the one of now unless Setup changed it
AnswerInv == (\A n \in open : n < nextListener) /\ ServerAnswers

ServerInv == TypeOK /\ CountInv /\ NoListenerLeak /\ CleanInv /\ AnswerInv

\* They follow from the types.
LEMMA ShapesHold == TypeOK => Shapes
<1> SUFFICES ASSUME TypeOK PROVE Shapes
  OBVIOUS
<1> USE ServerBounds
<1>1. nextListener \in Nat \ {0} /\ open \subseteq Nat \ {0} /\ listener \in [Server -> Nat]
      /\ result \in [Server -> {"none", "ok", "inuse", "failed"}]
  BY DEF TypeOK, Listener, None
<1>2. start \in [Server -> {Idle} \cup Listens \cup Chowns]
  BY DEF TypeOK, Listens, Chowns
<1>3. \A x \in {Idle} \cup Listens \cup Chowns :
        /\ x \in [at : {"idle", "listen", "chown"}, left : Int, made : Nat]
        /\ x.at # "chown" => x.made = None
  BY DEF Idle, Listens, Chowns, Listener, None
<1> QED
  BY <1>1, <1>2, <1>3 DEF Shapes

\* Whoever makes a listener keeps it, gives it to the server or closes it.
LEMMA LeakKept == Shapes /\ NoListenerLeak /\ [Next]_vars => NoListenerLeak'
<1> SUFFICES ASSUME Shapes, NoListenerLeak, [Next]_vars PROVE NoListenerLeak'
  OBVIOUS
<1>1. ASSUME NEW s \in Server, StartUnix(s) PROVE NoListenerLeak'
  BY <1>1 DEF Shapes, NoListenerLeak, StartUnix, Begins, Resting, None
<1>2. ASSUME NEW s \in Server, NEW n \in Nat \ {0}, Install(s, n),
             open' \subseteq open \cup {n},
             start[s].made \in {None, n}
      PROVE  NoListenerLeak'
  BY <1>2 DEF Shapes, NoListenerLeak, Install, Returns, Idle, None
<1>3. ASSUME NEW s \in Server, StartTcp(s) PROVE NoListenerLeak'
  <2>1. start[s].made = None
    BY <1>3 DEF StartTcp, Begins, Resting, Shapes
  <2>2. CASE Bind(place) /\ Install(s, nextListener)
    BY <1>2, <2>1, <2>2 DEF Bind, Shapes
  <2>3. CASE Returns(s, "inuse") /\ UNCHANGED <<sockets, overwritten>>
    BY <2>1, <2>3 DEF Shapes, NoListenerLeak, Returns, sockets, Idle, None
  <2> QED
    BY <1>3, <2>2, <2>3 DEF StartTcp
<1>4. ASSUME NEW s \in Server, AttemptBinds(s) PROVE NoListenerLeak'
  <2>1. start[s].made = None
    BY <1>4 DEF AttemptBinds, Shapes
  <2>2. CASE Install(s, nextListener)
    BY <1>2, <1>4, <2>1, <2>2 DEF AttemptBinds, Bind, Shapes
  <2>3. CASE ~Install(s, nextListener)
    <3>1. start' = [start EXCEPT ![s] = [at |-> "chown", left |-> 0, made |-> nextListener]]
          /\ UNCHANGED <<listener, overwritten>> /\ open' = open \cup {nextListener}
      BY <1>4, <2>3 DEF AttemptBinds, Bind
    <3>2. start'[s].made = nextListener /\ \A t \in Server \ {s} : start'[t] = start[t]
      BY <3>1 DEF Shapes
    <3> SUFFICES ASSUME NEW n \in open'
                 PROVE  \/ \E t \in Server : n = listener[t]
                        \/ \E t \in Server : n = start'[t].made
                        \/ n \in overwritten
      BY <3>1 DEF NoListenerLeak
    <3>3. CASE n = nextListener
      BY <3>2, <3>3
    <3>4. CASE n \in open
      <4>1. n # None
        BY <3>4 DEF Shapes, None
      <4>2. PICK t \in Server : n = listener[t] \/ n = start[t].made \/ n \in overwritten
        BY <3>4, <1>4 DEF NoListenerLeak
      <4>3. CASE n = start[t].made
        BY <2>1, <3>2, <4>1, <4>3
      <4> QED
        BY <4>2, <4>3
    <3> QED
      BY <3>1, <3>3, <3>4
  <2> QED
    BY <2>2, <2>3
<1>5. ASSUME NEW s \in Server, AttemptFails(s) PROVE NoListenerLeak'
  <2>1. UNCHANGED <<open, listener, overwritten>>
    BY <1>5 DEF AttemptFails, sockets, history
  <2>2. start[s].made = None /\ start'[s].made = None
        /\ \A t \in Server \ {s} : start'[t] = start[t]
    BY <1>5 DEF AttemptFails, Returns, Shapes, Idle, None
  <2> QED
    BY <2>1, <2>2 DEF Shapes, NoListenerLeak, None
<1>6. ASSUME NEW s \in Server, Chown(s) PROVE NoListenerLeak'
  <2>1. CASE Install(s, start[s].made) /\ UNCHANGED open
    <3>1. CASE start[s].made = None
      BY <2>1, <3>1 DEF Shapes, NoListenerLeak, Install, Returns, Idle, None
    <3> QED
      BY <1>2, <2>1, <3>1 DEF Shapes, None
  <2>2. CASE open' = Freed(start[s].made) /\ Returns(s, "failed")
             /\ UNCHANGED <<listener, overwritten>>
    BY <2>2 DEF Shapes, NoListenerLeak, Freed, Returns
  <2> QED
    BY <1>6, <2>1, <2>2 DEF Chown
<1>7. ASSUME NEW s \in Server, Close(s) PROVE NoListenerLeak'
  BY <1>7 DEF NoListenerLeak, Close
<1>8. CASE Die
  BY <1>8 DEF NoListenerLeak, Die
<1>9. CASE UNCHANGED <<sockets, start, history>>
  BY <1>9 DEF NoListenerLeak, sockets, history
<1> QED
  BY <1>1, <1>3, <1>4, <1>5, <1>6, <1>7, <1>8, <1>9
  DEF Next, Setup, BecomesWritable, Dial, DialAs, Serve, vars

\* No one else listens beside a clean Start, so its path stays free until it binds.
LEMMA CleanKept == TypeOK /\ CleanInv /\ [Next]_vars => CleanInv'
<1> SUFFICES ASSUME TypeOK, Shapes, CleanInv, [Next]_vars PROVE CleanInv'
  BY ShapesHold
<1>0. leads \in [Place -> Listener \cup {None, Stale}] /\ path \in [Server -> Place]
      /\ bound \in [Listener -> Place]
  BY DEF TypeOK
<1>1. ASSUME NEW s \in Server, StartUnix(s) PROVE CleanInv'
  <2>1. clean' \subseteq {s} /\ path'[s] = place /\ place \in Path /\ start'[s].at = "listen"
        /\ \A t \in Server \ {s} : start'[t] = start[t]
    BY <1>0, <1>1 DEF StartUnix, Begins, Shapes
  <2>2. s \in clean' => leads'[place] = None /\ \A t \in Server : Resting(t)
    BY <1>0, <1>1 DEF StartUnix, Removed, Place
  <2> QED
    BY <2>1, <2>2 DEF CleanInv, Resting
<1>2. ASSUME NEW s \in Server, StartTcp(s) PROVE CleanInv'
  <2>1. /\ clean' = clean \ {s} /\ start'[s].at = "idle"
        /\ \A t \in Server \ {s} : /\ start'[t] = start[t] /\ result'[t] = result[t]
                                   /\ path'[t] = path[t]
    BY <1>0, <1>2 DEF StartTcp, Begins, Install, Returns, Shapes, Idle
  <2>2. \A p \in Path : leads'[p] = leads[p]
    BY <1>0, <1>2, ServerAssumption DEF StartTcp, Bind, sockets, Place
  <2> QED
    BY <2>1, <2>2 DEF CleanInv, Resting
<1>3. ASSUME NEW s \in Server, AttemptBinds(s) \/ AttemptFails(s) PROVE CleanInv'
  <2>1. UNCHANGED <<path, clean>> /\ start[s].at = "listen"
        /\ \A t \in Server \ {s} : start'[t] = start[t] /\ result'[t] = result[t]
    BY <1>3 DEF AttemptBinds, AttemptFails, Install, Returns, Shapes, history
  <2>2. \A t \in clean : t # s => start[t].at # "listen"
    BY <2>1 DEF CleanInv, Resting
  <2>3. s \in clean => (start'[s].at = "listen" => leads'[path[s]] = None)
                       /\ (start'[s].at = "idle" => result'[s] # "inuse")
    <3>1. CASE AttemptBinds(s)
      BY <3>1 DEF AttemptBinds, Install, Returns, Shapes, Idle
    <3>2. ASSUME AttemptFails(s), s \in clean
          PROVE  (start'[s].at = "listen" => leads'[path[s]] = None)
                  /\ (start'[s].at = "idle" => result'[s] # "inuse")
      <4>1. leads[path[s]] = None /\ leads' = leads
        BY <2>1, <3>2 DEF CleanInv, AttemptFails, sockets
      <4>2. CASE start' = [start EXCEPT ![s].left = @ - 1]
        BY <2>1, <4>1, <4>2 DEF Shapes
      <4>3. CASE Returns(s, "failed")
        BY <4>1, <4>3 DEF Returns, Shapes
      <4> QED
        BY <3>2, <4>1, <4>2, <4>3 DEF AttemptFails
    <3> QED
      BY <1>3, <3>1, <3>2
  <2>4. s \in clean /\ start'[s].at = "listen" => \A t \in Server \ {s} : Resting(t)
    BY <2>1 DEF CleanInv
  <2> QED
    BY <2>1, <2>2, <2>3, <2>4 DEF CleanInv, Resting
<1>4. ASSUME NEW s \in Server, Chown(s) PROVE CleanInv'
  <2>1. /\ UNCHANGED <<path, clean>> /\ start[s].at = "chown" /\ start'[s].at = "idle"
        /\ result'[s] # "inuse"
        /\ \A t \in Server \ {s} : start'[t] = start[t] /\ result'[t] = result[t]
    BY <1>4 DEF Chown, Install, Returns, Shapes, Idle
  <2>2. \A t \in clean : t # s => start[t].at # "listen"
    BY <2>1 DEF CleanInv, Resting
  <2> QED
    BY <2>1, <2>2 DEF CleanInv, Resting
<1>5. ASSUME NEW s \in Server, Close(s) PROVE CleanInv'
  <2>1. UNCHANGED <<path, clean, start, result>>
    BY <1>5 DEF Close
  <2>2. \A p \in Place : leads'[p] \in {None, leads[p]}
    BY <1>0, <1>5 DEF Close
  <2> QED
    BY <1>0, <2>1, <2>2 DEF CleanInv, Resting
<1>6. CASE Die
  BY <1>6 DEF CleanInv, Die
<1>7. CASE UNCHANGED <<path, clean, leads, start, result>>
  BY <1>7 DEF CleanInv, Resting
<1> QED
  BY <1>1, <1>2, <1>3, <1>4, <1>5, <1>6, <1>7
  DEF Next, Setup, BecomesWritable, Dial, DialAs, Serve, vars, setting, sockets, history

\* A place is bound only while it leads nowhere, and who loses it is remembered.
LEMMA ReachKept == TypeOK /\ TypeOK' /\ AnswerInv /\ [Next]_vars
                     => \A n \in open' : n < nextListener' /\ (leads'[bound'[n]] = n \/ n \in cutOff')
<1> DEFINE Reach == \A n \in open' : n < nextListener' /\ (leads'[bound'[n]] = n \/ n \in cutOff')
<1> SUFFICES ASSUME TypeOK, TypeOK', AnswerInv, [Next]_vars PROVE Reach
  OBVIOUS
<1>0. /\ leads \in [Place -> Listener \cup {None, Stale}] /\ path \in [Server -> Place]
      /\ bound \in [Listener -> Place] /\ open \subseteq Listener /\ open' \subseteq Listener
      /\ None \notin open /\ nextListener \in Int
      /\ \A n \in open : n < nextListener /\ (leads[bound[n]] = n \/ n \in cutOff)
  BY ServerBounds DEF TypeOK, AnswerInv, ServerAnswers, Listener, None
<1>1. ASSUME UNCHANGED <<leads, open, bound, nextListener, cutOff>> PROVE Reach
  BY <1>0, <1>1
<1>2. ASSUME NEW p \in Place, leads[p] = None, Bind(p), UNCHANGED cutOff PROVE Reach
  <2>1. nextListener \in Listener
    BY <1>0, <1>2 DEF Bind
  <2>2. ASSUME NEW n \in open
        PROVE  n < nextListener' /\ (leads'[bound'[n]] = n \/ n \in cutOff')
    <3>1. bound'[n] = bound[n] /\ nextListener' = nextListener + 1
      BY <1>0, <1>2 DEF Bind
    <3>2. leads[bound[n]] = n => bound[n] # p
      BY <1>0, <1>2
    <3>3. \A q \in Place : q # p => leads'[q] = leads[q]
      BY <1>0, <1>2 DEF Bind
    <3>4. n \in Listener /\ bound[n] \in Place /\ n < nextListener
      BY <1>0
    <3>5. n < nextListener'
      BY <1>0, <3>1, <3>4 DEF Listener
    <3> QED
      BY <1>0, <1>2, <3>1, <3>2, <3>3, <3>4, <3>5
  <2>3. bound'[nextListener] = p /\ leads'[p] = nextListener /\ nextListener < nextListener'
        /\ open' = open \cup {nextListener}
    BY <1>0, <1>2, <2>1 DEF Bind
  <2> QED
    BY <2>2, <2>3
<1>3. ASSUME NEW p \in Place, NEW s \in Server, StartUnix(s) PROVE Reach
  <2>1. /\ UNCHANGED <<open, bound, nextListener>> /\ place \in Place
        /\ leads' = [leads EXCEPT ![place] = Removed]
        /\ cutOff' = IF Removed = None THEN cutOff \cup ({leads[place]} \cap open) ELSE cutOff
    BY <1>3 DEF StartUnix, Place
  <2>2. CASE Removed = None
    BY <1>0, <2>1, <2>2
  <2>3. CASE Removed = leads[place]
    BY <1>0, <2>1, <2>3
  <2> QED
    BY <2>2, <2>3 DEF Removed
<1>4. ASSUME NEW s \in Server, StartTcp(s) PROVE Reach
  <2>1. UNCHANGED cutOff /\ place \in Place
    BY <1>4 DEF StartTcp, Place
  <2> QED
    BY <1>1, <1>2, <1>4, <2>1 DEF StartTcp, sockets
<1>5. ASSUME NEW s \in Server, AttemptBinds(s) \/ AttemptFails(s) PROVE Reach
  BY <1>0, <1>1, <1>2, <1>5 DEF AttemptBinds, AttemptFails, sockets, history
<1>6. ASSUME NEW p \in Place, NEW n, open' = open \ {n}, UNCHANGED <<bound, nextListener>>,
             leads'[p] \in {None, leads[p]}, \A q \in Place \ {p} : leads'[q] = leads[q],
             cutOff' = cutOff \cup ({leads[p]} \cap (open \ {n}))
      PROVE  Reach
  <2> SUFFICES ASSUME NEW m \in open'
               PROVE  m < nextListener' /\ (leads'[bound'[m]] = m \/ m \in cutOff')
    OBVIOUS
  <2>1. m \in open /\ m # n /\ bound[m] \in Place
    BY <1>0, <1>6
  <2> QED
    BY <1>0, <1>6, <2>1
<1>7. ASSUME NEW s \in Server, Chown(s) PROVE Reach
  <2>1. CASE UNCHANGED <<leads, open, cutOff>>
    BY <1>1, <1>7, <2>1 DEF Chown
  <2>2. CASE /\ open' = Freed(start[s].made)
             /\ leads' = [leads EXCEPT ![path[s]] = None]
             /\ cutOff' = cutOff \cup ({leads[path[s]]} \cap (open \ {start[s].made}))
    <3>1. path[s] \in Place /\ UNCHANGED <<bound, nextListener>>
      BY <1>0, <1>7 DEF Chown
    <3> QED
      BY <1>0, <1>6, <2>2, <3>1 DEF Freed
  <2> QED
    BY <1>7, <2>1, <2>2 DEF Chown
<1>8. ASSUME NEW s \in Server, Close(s) PROVE Reach
  <2> DEFINE n == listener[s]
             p == bound[n]
  <2>1. n \in open /\ p \in Place
    BY <1>0, <1>8 DEF Close
  <2>2. /\ open' = open \ {n} /\ UNCHANGED <<bound, nextListener>>
        /\ leads' = [leads EXCEPT ![p] = IF p \in Path \/ leads[p] = n THEN None ELSE leads[p]]
        /\ cutOff' = cutOff \cup ({leads[p]} \cap (open \ {n}))
    BY <1>8 DEF Close
  <2> HIDE DEF n, p
  <2> QED
    BY <1>0, <1>6, <2>1, <2>2
<1>9. CASE Die
  BY <1>9 DEF Die
<1> QED
  BY <1>1, <1>3, <1>4, <1>5, <1>7, <1>8, <1>9
  DEF Next, Setup, BecomesWritable, Dial, DialAs, Serve, vars, sockets, history, TypeOK

\* The interceptors compare with the secret of now, and Setup marks the call it overtakes.
LEMMA CallKept ==
  TypeOK /\ ServerAnswers /\ [Next]_vars =>
    (call'.at \in {"served", "refused"} /\ ~call'.changed =>
       (call'.at = "served" <=> secret' = NoSecret \/ call'.sent = secret'))
<1> DEFINE Right == call'.at \in {"served", "refused"} /\ ~call'.changed =>
                      (call'.at = "served" <=> secret' = NoSecret \/ call'.sent = secret')
<1> SUFFICES ASSUME TypeOK, ServerAnswers, [Next]_vars PROVE Right
  OBVIOUS
<1>0. call \in [at : {"over", "sent", "served", "refused"}, to : Listener \cup {None},
                sent : Secrets, changed : BOOLEAN]
  BY DEF TypeOK
<1>1. CASE UNCHANGED <<call, secret>>
  BY <1>1 DEF ServerAnswers
<1>2. CASE call' = NoCall
  BY <1>2 DEF NoCall
<1>3. ASSUME NEW p \in Place, NEW new \in Secrets, Setup(p, new) PROVE Right
  <2>1. call'.at = call.at /\ call'.sent = call.sent
        /\ call'.changed = (call.changed \/ secret' # secret) /\ secret' = new
    BY <1>0, <1>3 DEF Setup
  <2> QED
    BY <2>1 DEF ServerAnswers
<1>4. ASSUME NEW p, NEW sent, DialAs(p, sent) PROVE Right
  BY <1>4 DEF DialAs, NoCall
<1>5. CASE Serve
  BY <1>0, <1>5 DEF Serve, Authorized, NoCall, setting
<1> QED
  BY <1>1, <1>2, <1>3, <1>4, <1>5
  DEF Next, StartUnix, StartTcp, AttemptBinds, AttemptFails, Chown, Close, BecomesWritable, Die,
      Dial, vars, setting

\* In whatever order servers start, fail, close and die, and wherever Setup points: no listener
\* is leaked but by a second Start of one object, a socket that a dead process left does not
\* keep the next one from listening, who listens is reached at its place until another one
\* takes that, and a call is let in if and only if it brings the secret asked for, unless Setup
\* changed it meanwhile (Start, Close, Setup and the interceptors of CommandServer).
THEOREM ServerSafe == Spec => [](NoListenerLeak /\ StaleSocketHarmless /\ ServerAnswers)
<1>1. Init => ServerInv
  <2> SUFFICES ASSUME Init PROVE ServerInv
    OBVIOUS
  <2>1. NoListenerLeak /\ CleanInv
    BY DEF Init, NoListenerLeak, CleanInv
  <2>2. AnswerInv
    BY DEF Init, AnswerInv, ServerAnswers, NoCall
  <2> QED
    BY TypesBegin, <2>1, <2>2 DEF ServerInv
<1>2. ServerInv /\ [Next]_vars => ServerInv'
  <2> SUFFICES ASSUME ServerInv, [Next]_vars PROVE ServerInv'
    OBVIOUS
  <2>1. TypeOK' /\ CountInv'
    BY TypesKept, CountKept DEF ServerInv
  <2>2. NoListenerLeak' /\ CleanInv'
    BY ShapesHold, LeakKept, CleanKept DEF ServerInv
  <2>3. AnswerInv'
    BY <2>1, ReachKept, CallKept DEF ServerInv, AnswerInv, ServerAnswers
  <2> QED
    BY <2>1, <2>2, <2>3 DEF ServerInv
<1>3. ServerInv => NoListenerLeak /\ StaleSocketHarmless /\ ServerAnswers
  BY DEF ServerInv, CleanInv, AnswerInv, StaleSocketHarmless
<1> QED
  BY <1>1, <1>2, <1>3, PTL DEF Spec
=============================================================================
