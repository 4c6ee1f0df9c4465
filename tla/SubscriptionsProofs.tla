------------------------- MODULE SubscriptionsProofs -------------------------
(* What holds of Subscriptions for every number of view models and of       *)
(* coroutines, whichever view model each belongs to, and for every bound.   *)
EXTENDS Subscriptions, TLAPS

-----------------------------------------------------------------------------
(* The coroutines                                                          *)

\* Jobs, and the sequences that give out ids
JobsOK ==
  /\ jobs \in [Job -> JobState]
  /\ nextSub \in Pos /\ nextNode \in Pos /\ nextGen \in Pos
  /\ shown \in [ViewModel -> SUBSET Pos] /\ DOMAIN subs \subseteq Pos
  /\ busy \in [ViewModel -> BOOLEAN]

\* What a job knows at each of its steps
LEMMA JobAt ==
  ASSUME JobsOK, NEW j \in Job
  PROVE  /\ jobs[j] \in JobState
         /\ At(j, "fetch") => jobs[j].kind \in {"add", "refresh"} /\ jobs[j].gen \in Pos
         /\ At(j, "insertSub") => /\ jobs[j].kind = "add" /\ jobs[j].gen \in Pos
                                  /\ jobs[j].size \in 1 .. MaxNodes
         /\ At(j, "deleteNodes") => jobs[j].kind \in {"refresh", "delete"} /\ jobs[j].sub \in Pos
         /\ At(j, "insertNodes") => /\ jobs[j].kind \in {"add", "refresh"}
                                    /\ jobs[j].sub \in Pos /\ jobs[j].gen \in Pos
                                    /\ jobs[j].size \in 1 .. MaxNodes
         /\ At(j, "update") => /\ jobs[j].kind = "refresh"
                               /\ jobs[j].sub \in Pos /\ jobs[j].gen \in Pos
         /\ At(j, "deleteSub") => jobs[j].kind = "delete" /\ jobs[j].sub \in Pos
<1>1. jobs[j] \in JobState
  BY DEF JobsOK
<1> QED
  BY <1>1 DEF JobState, At, Idle

\* One job changes, to a well-formed one
LEMMA JobReplaced ==
  ASSUME JobsOK, NEW j \in Job, NEW s \in JobState, jobs' = [jobs EXCEPT ![j] = s]
  PROVE  jobs' \in [Job -> JobState]
BY DEF JobsOK

\* The steps of a job lead to well-formed jobs.
LEMMA JobMoves ==
  ASSUME JobsOK, NEW j \in Job, Step(j)
  PROVE  \E s \in JobState : jobs' = [jobs EXCEPT ![j] = s]
<1>0. Idle \in JobState
  BY DEF JobState
<1>1. CASE FetchFails(j) \/ Update(j) \/ DeleteSub(j)
  BY <1>0, <1>1 DEF FetchFails, Update, DeleteSub, End
<1>2. CASE FetchSucceeds(j)
  <2>1. PICK n \in 1 .. MaxNodes :
          jobs' = [jobs EXCEPT ![j].size = n, ![j].at = AfterFetch(jobs[j].kind)]
    BY <1>2 DEF FetchSucceeds
  <2> DEFINE s == [jobs[j] EXCEPT !.size = n, !.at = AfterFetch(jobs[j].kind)]
  <2>2. jobs' = [jobs EXCEPT ![j] = s]
    BY <2>1, JobAt DEF JobsOK
  <2>3. s \in JobState
    <3>1. \/ jobs[j] \in [kind : {"add"}, at : {"fetch"}, sub : {0}, gen : Pos, size : {0}]
          \/ jobs[j] \in [kind : {"refresh"}, at : {"fetch"}, sub : Pos, gen : Pos, size : {0}]
      BY <1>2, JobAt DEF FetchSucceeds, At, JobState, Idle
    <3>2. CASE jobs[j].kind = "add"
      <4>1. s \in [kind : {"add"}, at : {"insertSub"}, sub : {0}, gen : Pos,
                   size : 1 .. MaxNodes]
        BY <3>1, <3>2 DEF AfterFetch
      <4> QED
        BY <4>1 DEF JobState
    <3>3. CASE jobs[j].kind = "refresh"
      <4>1. s \in [kind : {"refresh"}, at : {"deleteNodes", "insertNodes", "update"},
                   sub : Pos, gen : Pos, size : 1 .. MaxNodes]
        BY <3>1, <3>3 DEF AfterFetch
      <4> QED
        BY <4>1 DEF JobState
    <3> QED
      BY <3>1, <3>2, <3>3
  <2> QED
    BY <2>2, <2>3
<1>3. CASE InsertSub(j)
  <2> DEFINE s == [jobs[j] EXCEPT !.at = "insertNodes", !.sub = nextSub]
  <2>1. jobs' = [jobs EXCEPT ![j] = s]
    BY <1>3, JobAt DEF InsertSub, JobsOK
  <2>2. s \in JobState
    <3>1. jobs[j] \in [kind : {"add"}, at : {"insertSub"}, sub : {0}, gen : Pos,
                       size : 1 .. MaxNodes]
      BY <1>3, JobAt DEF InsertSub, At, JobState, Idle
    <3>2. nextSub \in Pos
      BY DEF JobsOK
    <3>3. s \in [kind : {"add"}, at : {"insertNodes"}, sub : Pos, gen : Pos,
                 size : 1 .. MaxNodes]
      BY <3>1, <3>2
    <3> QED
      BY <3>3 DEF JobState
  <2> QED
    BY <2>1, <2>2
<1>4. CASE DeleteNodes(j)
  <2> DEFINE s == [jobs[j] EXCEPT !.at = IF jobs[j].kind = "delete" THEN "deleteSub"
                                                                    ELSE "insertNodes"]
  <2>1. jobs' = [jobs EXCEPT ![j] = s]
    BY <1>4, JobAt DEF DeleteNodes, Goto, JobsOK
  <2>2. s \in JobState
    <3>1. jobs[j] \in JobState /\ jobs[j].at = "deleteNodes"
      BY <1>4, JobAt DEF DeleteNodes, At
    <3> QED
      BY <3>1 DEF JobState, Idle
  <2> QED
    BY <2>1, <2>2
<1>5. CASE InsertNodes(j)
  <2>1. CASE jobs[j].kind = "add"
    BY <1>0, <1>5, <2>1 DEF InsertNodes, End
  <2>2. CASE jobs[j].kind # "add"
    <3> DEFINE s == [jobs[j] EXCEPT !.at = "update"]
    <3>1. jobs' = [jobs EXCEPT ![j] = s]
      BY <1>5, <2>2, JobAt DEF InsertNodes, Goto, JobsOK
    <3>2. s \in JobState
      <4>1. jobs[j] \in JobState /\ jobs[j].at = "insertNodes"
        BY <1>5, JobAt DEF InsertNodes, At
      <4> QED
        BY <2>2, <4>1 DEF JobState, Idle
    <3> QED
      BY <3>1, <3>2
  <2> QED
    BY <2>1, <2>2
<1> QED
  BY <1>1, <1>2, <1>3, <1>4, <1>5 DEF Step

\* Whatever happens to a view model's flag, it stays one.
LEMMA BusyFlag ==
  ASSUME busy \in [ViewModel -> BOOLEAN], NEW v \in ViewModel,
         NEW x \in BOOLEAN, busy' = [busy EXCEPT ![v] = x]
  PROVE  busy' \in [ViewModel -> BOOLEAN]
BY Zenon

\* The steps of a job leave the flags flags.
LEMMA BusyStep ==
  ASSUME busy \in [ViewModel -> BOOLEAN], NEW j \in Job, Step(j)
  PROVE  busy' \in [ViewModel -> BOOLEAN]
<1>1. Owner[j] \in ViewModel
  BY OwnerAssumption
<1>2. busy' = busy \/ busy' = [busy EXCEPT ![Owner[j]] = FALSE]
  BY DEF Step, FetchFails, AfterFailure, FetchSucceeds, InsertSub, DeleteNodes, InsertNodes,
         Update, DeleteSub
<1> QED
  BY <1>1, <1>2, BusyFlag

\* Every step keeps the jobs well formed.
LEMMA JobsStep == JobsOK /\ [Next]_vars => JobsOK'
<1> SUFFICES ASSUME JobsOK, [Next]_vars PROVE JobsOK'
  OBVIOUS
<1>0. ASSUME NEW j \in Job PROVE Owner[j] \in ViewModel /\ shown[Owner[j]] \subseteq Pos
  BY OwnerAssumption DEF JobsOK
<1>1. ASSUME NEW j \in Job, Add(j) PROVE JobsOK'
  <2> DEFINE s == [kind |-> "add", at |-> "fetch", sub |-> 0, gen |-> nextGen, size |-> 0]
  <2>1. s \in JobState
    BY DEF JobsOK, JobState
  <2>2. /\ jobs' = [jobs EXCEPT ![j] = s] /\ nextGen' = nextGen + 1
        /\ busy' = [busy EXCEPT ![Owner[j]] = TRUE]
    BY <1>1 DEF Add, Fetching, Launch
  <2>3. jobs' \in [Job -> JobState]
    BY <2>1, <2>2, JobReplaced
  <2>4. busy' \in [ViewModel -> BOOLEAN]
    BY <1>0, <2>2, BusyFlag DEF JobsOK
  <2> QED
    BY <1>1, <2>2, <2>3, <2>4 DEF Add, JobsOK, Pos, tables
<1>2. ASSUME NEW j \in Job, Refresh(j) PROVE JobsOK'
  <2>1. PICK n \in shown[Owner[j]] : Fetching(j, "refresh", n)
    BY <1>2 DEF Refresh
  <2> DEFINE s == [kind |-> "refresh", at |-> "fetch", sub |-> n, gen |-> nextGen, size |-> 0]
  <2>2. s \in JobState
    BY <1>0 DEF JobsOK, JobState
  <2>3. /\ jobs' = [jobs EXCEPT ![j] = s] /\ nextGen' = nextGen + 1
        /\ busy' = [busy EXCEPT ![Owner[j]] = TRUE]
    BY <2>1 DEF Fetching, Launch
  <2>4. jobs' \in [Job -> JobState]
    BY <2>2, <2>3, JobReplaced
  <2>5. busy' \in [ViewModel -> BOOLEAN]
    BY <1>0, <2>3, BusyFlag DEF JobsOK
  <2> QED
    BY <1>2, <2>3, <2>4, <2>5 DEF Refresh, JobsOK, Pos, tables
<1>3. ASSUME NEW j \in Job, Delete(j) PROVE JobsOK'
  <2>1. PICK n \in shown[Owner[j]] :
          Launch(j, [kind |-> "delete", at |-> "deleteNodes", sub |-> n, gen |-> 0, size |-> 0])
    BY <1>3 DEF Delete
  <2> DEFINE s == [kind |-> "delete", at |-> "deleteNodes", sub |-> n, gen |-> 0, size |-> 0]
  <2>2. s \in JobState
    BY <1>0 DEF JobsOK, JobState
  <2>3. jobs' = [jobs EXCEPT ![j] = s]
    BY <2>1 DEF Launch
  <2>4. jobs' \in [Job -> JobState]
    BY <2>2, <2>3, JobReplaced
  <2> QED
    BY <1>3, <2>4 DEF Delete, JobsOK, tables
<1>4. ASSUME NEW j \in Job, Step(j) PROVE JobsOK'
  <2>1. jobs' \in [Job -> JobState]
    BY <1>4, JobMoves, JobReplaced
  <2>2. nextGen' = nextGen /\ shown' = shown
    BY <1>4 DEF Step, FetchFails, FetchSucceeds, InsertSub, DeleteNodes, InsertNodes,
                Update, DeleteSub
  <2>3. nextSub' \in Pos /\ nextNode' \in Pos
    <3>1. InsertNodes(j) => nextNode' \in Pos /\ nextSub' = nextSub
      BY JobAt DEF InsertNodes, FirstId, JobsOK, Pos
    <3> QED
      BY <1>4, <3>1 DEF Step, FetchFails, FetchSucceeds, InsertSub, DeleteNodes, Update,
                        DeleteSub, JobsOK, Pos, tables
  <2>4. DOMAIN subs' \subseteq DOMAIN subs \cup {nextSub}
    BY <1>4 DEF Step, FetchFails, FetchSucceeds, InsertSub, DeleteNodes, InsertNodes,
                Update, Stamped, DeleteSub, tables
  <2>5. busy' \in [ViewModel -> BOOLEAN]
    BY <1>4, BusyStep DEF JobsOK
  <2> QED
    BY <2>1, <2>2, <2>3, <2>4, <2>5 DEF JobsOK
<1>5. ASSUME NEW V \in SUBSET ViewModel, Cut(V) PROVE JobsOK'
  <2>1. jobs' \in [Job -> JobState]
    BY <1>5 DEF Cut, JobsOK, JobState
  <2>2. shown' \in [ViewModel -> SUBSET Pos]
    BY <1>5 DEF Cut, JobsOK
  <2>3. busy' \in [ViewModel -> BOOLEAN]
    BY <1>5 DEF Cut, JobsOK
  <2> QED
    BY <1>5, <2>1, <2>2, <2>3 DEF Cut, JobsOK, tables
<1>6. ASSUME NEW v \in ViewModel, Show(v) PROVE JobsOK'
  BY <1>6 DEF Show, JobsOK, tables
<1>7. CASE UNCHANGED <<tables, shown, jobs, busy, nextGen>>
  BY <1>7 DEF JobsOK, tables
<1> QED
  BY <1>1, <1>2, <1>3, <1>4, <1>5, <1>6, <1>7 DEF Next, Click, Select, vars, tables

\* Jobs are well formed.
LEMMA JobsCorrect == Spec => []JobsOK
<1>1. Init => JobsOK
  <2>1. Init => busy \in [ViewModel -> BOOLEAN]
    BY DEF Init
  <2> QED
    BY <2>1 DEF Init, JobsOK, JobState, Pos
<1> QED
  BY <1>1, JobsStep, PTL DEF Spec

\* What each step of a job changes in it
LEMMA FetchedJob ==
  ASSUME JobsOK, NEW j \in Job, FetchSucceeds(j)
  PROVE  /\ \A k \in Job : k # j => jobs'[k] = jobs[k]
         /\ jobs'[j].sub = jobs[j].sub /\ jobs'[j].kind = jobs[j].kind
         /\ jobs'[j].gen = jobs[j].gen /\ jobs'[j].at \in {"insertSub", "deleteNodes"}
<1>1. PICK n \in 1 .. MaxNodes :
        jobs' = [jobs EXCEPT ![j].size = n, ![j].at = AfterFetch(jobs[j].kind)]
  BY DEF FetchSucceeds
<1>2. jobs'[j] = [jobs[j] EXCEPT !.size = n, !.at = AfterFetch(jobs[j].kind)]
  BY <1>1 DEF JobsOK
<1>3. jobs[j] \in JobState /\ jobs[j].at = "fetch"
  BY JobAt DEF FetchSucceeds, At
<1>4. /\ jobs'[j].sub = jobs[j].sub /\ jobs'[j].kind = jobs[j].kind
      /\ jobs'[j].gen = jobs[j].gen /\ jobs'[j].at = AfterFetch(jobs[j].kind)
  BY <1>2, <1>3 DEF JobState, Idle
<1> QED
  BY <1>1, <1>4 DEF JobsOK, AfterFetch

LEMMA InsertedJob ==
  ASSUME JobsOK, NEW j \in Job, InsertSub(j)
  PROVE  /\ \A k \in Job : k # j => jobs'[k] = jobs[k]
         /\ jobs'[j].sub = nextSub /\ jobs'[j].kind = jobs[j].kind
         /\ jobs'[j].gen = jobs[j].gen /\ jobs'[j].at = "insertNodes"
<1>1. jobs'[j] = [jobs[j] EXCEPT !.at = "insertNodes", !.sub = nextSub]
  BY DEF InsertSub, JobsOK
<1>2. jobs[j] \in JobState
  BY JobAt
<1> QED
  BY <1>1, <1>2 DEF InsertSub, JobsOK, JobState, Idle

LEMMA DeletedJob ==
  ASSUME JobsOK, NEW j \in Job, DeleteNodes(j)
  PROVE  /\ \A k \in Job : k # j => jobs'[k] = jobs[k]
         /\ jobs'[j].sub = jobs[j].sub /\ jobs'[j].kind = jobs[j].kind
         /\ jobs'[j].gen = jobs[j].gen
         /\ jobs'[j].at = IF jobs[j].kind = "delete" THEN "deleteSub" ELSE "insertNodes"
<1>1. jobs'[j] = [jobs[j] EXCEPT !.at = IF jobs[j].kind = "delete" THEN "deleteSub"
                                                                    ELSE "insertNodes"]
  BY DEF DeleteNodes, Goto, JobsOK
<1>2. jobs[j] \in JobState
  BY JobAt
<1> QED
  BY <1>1, <1>2 DEF DeleteNodes, Goto, JobsOK, JobState, Idle

LEMMA FilledJob ==
  ASSUME JobsOK, NEW j \in Job, InsertNodes(j)
  PROVE  /\ \A k \in Job : k # j => jobs'[k] = jobs[k]
         /\ \/ /\ jobs[j].kind = "add" /\ jobs'[j] = Idle
               /\ busy' = [busy EXCEPT ![Owner[j]] = FALSE]
            \/ /\ jobs[j].kind = "refresh" /\ jobs'[j].at = "update" /\ jobs'[j].sub = jobs[j].sub
               /\ jobs'[j].gen = jobs[j].gen /\ jobs'[j].kind = jobs[j].kind /\ busy' = busy
<1>1. CASE jobs[j].kind = "add"
  BY <1>1 DEF InsertNodes, End, JobsOK
<1>2. CASE jobs[j].kind # "add"
  <2>1. jobs'[j] = [jobs[j] EXCEPT !.at = "update"] /\ busy' = busy
    BY <1>2 DEF InsertNodes, Goto, JobsOK
  <2>2. jobs[j] \in JobState /\ jobs[j].kind = "refresh"
    BY <1>2, JobAt DEF InsertNodes
  <2>3. \A k \in Job : k # j => jobs'[k] = jobs[k]
    BY <1>2 DEF InsertNodes, Goto, JobsOK
  <2> QED
    BY <2>1, <2>2, <2>3 DEF JobState, Idle
<1> QED
  BY <1>1, <1>2

-----------------------------------------------------------------------------
(* The generations of nodes                                                *)

Loads(j) == jobs[j].kind \in {"add", "refresh"}

\* Subscriptions are numbered upwards, and nothing knows a number to come.
SubsBelow ==
  /\ \A r \in nodes : r.sub < nextSub
  /\ \A s \in DOMAIN subs : s < nextSub
  /\ \A v \in ViewModel : \A s \in shown[v] : s < nextSub
  /\ \A j \in Job : jobs[j].sub < nextSub

\* busy lets one download of a view model run at a time.
OneLoad ==
  /\ \A j, k \in Job : Loads(j) /\ Loads(k) /\ Owner[j] = Owner[k] => j = k
  /\ \A j \in Job : Loads(j) => busy[Owner[j]]

\* Two view models half way at one subscription have been noticed.
CrossKnown ==
  \A j, k \in Job :
    HalfWay(jobs[j]) /\ HalfWay(jobs[k]) /\ jobs[j].sub = jobs[k].sub /\ Owner[j] # Owner[k] =>
      jobs[j].sub \in crossed

\* Before its nodes are inserted the subscription has none, afterwards it has
\* no others.
Replaced ==
  \A j \in Job : \A r \in nodes : r.sub = jobs[j].sub /\ r.sub \notin crossed =>
    /\ ~At(j, "insertNodes")
    /\ At(j, "update") => r.gen = jobs[j].gen

Stamps == \A s \in DOMAIN subs : subs[s] \in Nat

Rows == nodes \subseteq [id : Pos, sub : Pos, gen : Pos]

GenInv ==
  Rows /\ SubsBelow /\ OneLoad /\ CrossKnown /\ Replaced /\ Stamps /\ OneGeneration

\* Loads of one subscription that nobody has crossed are one load.
LEMMA OneAtATime ==
  ASSUME GenInv, NEW j \in Job, NEW k \in Job, HalfWay(jobs[j]), HalfWay(jobs[k]),
         Loads(j), Loads(k), jobs[j].sub = jobs[k].sub, jobs[j].sub \notin crossed
  PROVE  j = k
BY DEF GenInv, CrossKnown, OneLoad

\* A view model's flag, after it was set and after it was reset
LEMMA FlagSet ==
  ASSUME JobsOK, NEW j \in Job, busy' = [busy EXCEPT ![Owner[j]] = TRUE]
  PROVE  \A k \in Job : busy'[Owner[k]] <=> Owner[k] = Owner[j] \/ busy[Owner[k]]
<1>1. busy \in [ViewModel -> BOOLEAN] /\ \A k \in Job : Owner[k] \in ViewModel
  BY OwnerAssumption DEF JobsOK
<1> QED
  BY <1>1, Zenon

LEMMA FlagReset ==
  ASSUME JobsOK, NEW j \in Job, busy' = [busy EXCEPT ![Owner[j]] = FALSE]
  PROVE  \A k \in Job : busy'[Owner[k]] <=> Owner[k] # Owner[j] /\ busy[Owner[k]]
<1>1. busy \in [ViewModel -> BOOLEAN] /\ \A k \in Job : Owner[k] \in ViewModel
  BY OwnerAssumption DEF JobsOK
<1> QED
  BY <1>1, Zenon

LEMMA GenInit == Init => GenInv
<1> SUFFICES ASSUME Init PROVE GenInv
  OBVIOUS
<1>1. nodes = {} /\ DOMAIN subs = {} /\ nextSub = 1
  BY DEF Init
<1>2. \A j \in Job : jobs[j] = Idle
  BY DEF Init
<1>3. \A v \in ViewModel : shown[v] = {}
  BY DEF Init
<1> QED
  BY <1>1, <1>2, <1>3 DEF GenInv, Rows, SubsBelow, OneLoad, Loads, CrossKnown, HalfWay, Replaced,
     Stamps, OneGeneration, Idle

\* How the launch of a download, or of a deletion, changes the jobs
LEMMA LaunchKeeps ==
  ASSUME JobsOK, GenInv, NEW j \in Job, NEW s \in JobState,
         jobs' = [jobs EXCEPT ![j] = s], s.at \in {"fetch", "deleteNodes"}, s.sub < nextSub,
         Free(j), UNCHANGED <<tables, shown, crossed>>,
         \/ s.kind = "delete" /\ UNCHANGED busy
         \/ ~busy[Owner[j]] /\ busy' = [busy EXCEPT ![Owner[j]] = TRUE]
  PROVE  GenInv'
<1> USE DEF GenInv
<1>1. \A k \in Job : jobs'[k] = IF k = j THEN s ELSE jobs[k]
  BY DEF JobsOK
<1>2. UNCHANGED <<subs, nodes, nextSub, shown, crossed>>
  BY DEF tables
<1>3. Rows' /\ OneGeneration' /\ Stamps'
  BY <1>2 DEF Rows, OneGeneration, Stamps
<1>4. SubsBelow'
  BY <1>1, <1>2 DEF SubsBelow
<1>5. Replaced'
  BY <1>1, <1>2 DEF Replaced, At
<1>6. CrossKnown'
  BY <1>1, <1>2 DEF CrossKnown, HalfWay
<1>7. OneLoad'
  <2>1. CASE s.kind = "delete" /\ UNCHANGED busy
    BY <1>1, <2>1 DEF OneLoad, Loads
  <2>2. CASE ~busy[Owner[j]] /\ busy' = [busy EXCEPT ![Owner[j]] = TRUE]
    <3>1. \A k \in Job : Loads(k) => Owner[k] # Owner[j]
      BY <2>2 DEF OneLoad
    <3>2. \A k \in Job : busy'[Owner[k]] <=> Owner[k] = Owner[j] \/ busy[Owner[k]]
      BY <2>2, FlagSet
    <3> QED
      BY <1>1, <3>1, <3>2 DEF OneLoad, Loads
  <2> QED
    BY <2>1, <2>2
<1> QED
  BY <1>3, <1>4, <1>5, <1>6, <1>7

\* A download that failed, a finished deletion
LEMMA EndKeeps ==
  ASSUME JobsOK, GenInv, NEW j \in Job, FetchFails(j) \/ DeleteSub(j)
  PROVE  GenInv'
<1> USE DEF GenInv
<1>1. \A k \in Job : jobs'[k] = IF k = j THEN Idle ELSE jobs[k]
  BY DEF JobsOK, FetchFails, DeleteSub, End
<1>2. UNCHANGED <<nodes, nextSub, shown, crossed>>
  BY DEF FetchFails, DeleteSub, tables, history
<1>3. DOMAIN subs' \subseteq DOMAIN subs /\ \A s \in DOMAIN subs' : subs'[s] = subs[s]
  BY DEF FetchFails, DeleteSub, tables
<1>4. Rows' /\ OneGeneration' /\ Stamps'
  BY <1>2, <1>3 DEF Rows, OneGeneration, Stamps
<1>5. SubsBelow'
  BY <1>1, <1>2, <1>3 DEF SubsBelow, Idle, JobsOK, Pos
<1>6. Replaced' /\ CrossKnown'
  BY <1>1, <1>2 DEF Replaced, CrossKnown, HalfWay, At, Idle
<1>7. OneLoad'
  <2>1. CASE FetchFails(j)
    <3>1. Loads(j)
      BY <2>1, JobAt DEF FetchFails, Loads
    <3>2. \A k \in Job : Loads(k) /\ k # j => Owner[k] # Owner[j]
      BY <3>1 DEF OneLoad
    <3>3. \A k \in Job : busy'[Owner[k]] <=> Owner[k] # Owner[j] /\ busy[Owner[k]]
      BY <2>1, FlagReset DEF FetchFails, AfterFailure
    <3> QED
      BY <1>1, <3>2, <3>3 DEF OneLoad, Loads, Idle
  <2>2. CASE DeleteSub(j)
    <3>1. busy' = busy
      BY <2>2 DEF DeleteSub
    <3> QED
      BY <1>1, <3>1 DEF OneLoad, Loads, Idle
  <2> QED
    BY <2>1, <2>2
<1> QED
  BY <1>4, <1>5, <1>6, <1>7

\* A download that succeeded changes its job only.
LEMMA FetchKeeps ==
  ASSUME JobsOK, GenInv, NEW j \in Job, FetchSucceeds(j)
  PROVE  GenInv'
<1> USE DEF GenInv
<1>1. /\ \A k \in Job : k # j => jobs'[k] = jobs[k]
      /\ jobs'[j].sub = jobs[j].sub /\ jobs'[j].kind = jobs[j].kind
      /\ jobs'[j].gen = jobs[j].gen /\ jobs'[j].at \in {"insertSub", "deleteNodes"}
  BY FetchedJob
<1>2. UNCHANGED <<subs, nodes, nextSub, shown, busy, crossed>>
  BY DEF FetchSucceeds, tables, history
<1>3. Rows' /\ OneGeneration' /\ Stamps'
  BY <1>2 DEF Rows, OneGeneration, Stamps
<1>4. SubsBelow'
  BY <1>1, <1>2 DEF SubsBelow
<1>5. Replaced' /\ CrossKnown'
  BY <1>1, <1>2 DEF Replaced, CrossKnown, HalfWay, At
<1>6. OneLoad'
  BY <1>1, <1>2 DEF OneLoad, Loads
<1> QED
  BY <1>3, <1>4, <1>5, <1>6

\* The row of a subscription comes with a fresh number, which no other job knows.
LEMMA InsertSubKeeps ==
  ASSUME JobsOK, GenInv, NEW j \in Job, InsertSub(j)
  PROVE  GenInv'
<1> USE DEF GenInv
<1>1. /\ \A k \in Job : k # j => jobs'[k] = jobs[k]
      /\ jobs'[j].sub = nextSub /\ jobs'[j].kind = jobs[j].kind
      /\ jobs'[j].gen = jobs[j].gen /\ jobs'[j].at = "insertNodes"
  BY InsertedJob
<1>2. UNCHANGED <<nodes, shown, busy, crossed>> /\ nextSub' = nextSub + 1
  BY DEF InsertSub, history
<1>3. /\ DOMAIN subs' = DOMAIN subs \cup {nextSub}
      /\ \A s \in DOMAIN subs : s # nextSub => subs'[s] = subs[s]
      /\ subs'[nextSub] = jobs[j].gen
  BY DEF InsertSub
<1>4. /\ nextSub \in Pos /\ DOMAIN subs \subseteq Pos
      /\ \A v \in ViewModel : shown[v] \subseteq Pos
  BY DEF JobsOK
<1>5. jobs[j].gen \in Pos
  BY JobAt DEF InsertSub
<1>6. nodes \subseteq [id : Pos, sub : Pos, gen : Pos] /\ \A r \in nodes : r.sub < nextSub
  BY DEF Rows, SubsBelow
<1>7. \A k \in Job : jobs[k].sub \in Nat /\ jobs[k].sub # nextSub
  BY JobAt DEF SubsBelow, JobsOK, Pos, JobState, Idle
<1>8. Rows' /\ OneGeneration'
  BY <1>2, <1>6 DEF Rows, OneGeneration
<1>9. SubsBelow'
  BY <1>1, <1>2, <1>3, <1>4, <1>6, <1>7 DEF SubsBelow, Pos
<1>10. Replaced'
  BY <1>1, <1>2, <1>4, <1>6 DEF Replaced, At, Pos
<1>11. CrossKnown'
  BY <1>1, <1>2, <1>7 DEF CrossKnown
<1>12. Stamps'
  BY <1>3, <1>5 DEF Stamps, Pos
<1>13. OneLoad'
  BY <1>1, <1>2 DEF OneLoad, Loads
<1> QED
  BY <1>8, <1>9, <1>10, <1>11, <1>12, <1>13

\* A deletion only takes nodes away; a refresh then has none.
LEMMA DeleteNodesKeeps ==
  ASSUME JobsOK, GenInv, NEW j \in Job, DeleteNodes(j)
  PROVE  GenInv'
<1> USE DEF GenInv
<1> DEFINE s == jobs[j].sub
<1>1. /\ \A k \in Job : k # j => jobs'[k] = jobs[k]
      /\ jobs'[j].sub = s /\ jobs'[j].kind = jobs[j].kind
      /\ jobs'[j].gen = jobs[j].gen /\ jobs'[j].at \in {"insertNodes", "deleteSub"}
  BY DeletedJob
<1>2. UNCHANGED <<subs, nextSub, shown, busy>> /\ nodes' = {r \in nodes : r.sub # s}
  BY DEF DeleteNodes, Remaining
<1>3. \A x : x # s => (x \in crossed' <=> x \in crossed)
  BY DEF DeleteNodes, Anew
<1>4. Rows' /\ OneGeneration' /\ Stamps'
  BY <1>2, <1>3 DEF Rows, OneGeneration, Stamps
<1>5. SubsBelow'
  BY <1>1, <1>2 DEF SubsBelow
<1>6. Replaced'
  BY <1>1, <1>2, <1>3 DEF Replaced, At
<1>7. OneLoad'
  BY <1>1, <1>2 DEF OneLoad, Loads
<1>8. CrossKnown'
  <2>1. ASSUME NEW k \in Job, k # j, HalfWay(jobs[k]), jobs[k].sub = s
        PROVE  (Owner[k] # Owner[j] => s \in crossed') /\ (s \in crossed => s \in crossed')
    <3>1. k \in Rivals(j)
      BY <2>1 DEF Rivals
    <3> QED
      BY <3>1 DEF DeleteNodes, Anew
  <2> SUFFICES ASSUME NEW k \in Job, NEW l \in Job, HalfWay(jobs'[k]), HalfWay(jobs'[l]),
                      jobs'[k].sub = jobs'[l].sub, Owner[k] # Owner[l]
               PROVE  jobs'[k].sub \in crossed'
    BY DEF CrossKnown
  <2>2. CASE k = j
    BY <1>1, <2>1, <2>2
  <2>3. CASE l = j
    BY <1>1, <2>1, <2>3
  <2>4. CASE k # j /\ l # j
    <3>1. jobs[k].sub \in crossed
      BY <1>1, <2>4 DEF CrossKnown
    <3> QED
      BY <1>1, <1>3, <2>1, <2>4, <3>1
  <2> QED
    BY <2>2, <2>3, <2>4
<1> QED
  BY <1>4, <1>5, <1>6, <1>7, <1>8

\* The nodes of a job take the place of those of older downloads.
LEMMA InsertNodesKeeps ==
  ASSUME JobsOK, GenInv, NEW j \in Job, InsertNodes(j)
  PROVE  GenInv'
<1> USE DEF GenInv
<1> DEFINE New == {[id |-> i, sub |-> jobs[j].sub, gen |-> jobs[j].gen] :
                     i \in nextNode .. nextNode + jobs[j].size - 1}
<1>1. /\ jobs[j].kind \in {"add", "refresh"} /\ jobs[j].at = "insertNodes"
      /\ jobs[j].sub \in Pos /\ jobs[j].gen \in Pos /\ jobs[j].size \in 1 .. MaxNodes
  BY JobAt DEF InsertNodes, At
<1>2. nodes' = nodes \cup New
  BY DEF InsertNodes, FirstId
<1>3. UNCHANGED <<subs, nextSub, shown, crossed>>
  BY DEF InsertNodes, history
<1>4. New \subseteq [id : Pos, sub : Pos, gen : Pos]
  BY <1>1 DEF JobsOK, Pos
<1>5. \A r \in New : r.sub = jobs[j].sub /\ r.gen = jobs[j].gen
  OBVIOUS
<1>6. jobs[j].sub \notin crossed => \A r \in nodes : r.sub # jobs[j].sub
  BY <1>1 DEF Replaced, At
<1>7. HalfWay(jobs[j]) /\ Loads(j)
  BY <1>1 DEF HalfWay, Loads
<1>8. /\ \A k \in Job : k # j => jobs'[k] = jobs[k]
      /\ \/ jobs'[j] = Idle /\ busy' = [busy EXCEPT ![Owner[j]] = FALSE]
         \/ /\ jobs'[j].at = "update" /\ jobs'[j].sub = jobs[j].sub
            /\ jobs'[j].gen = jobs[j].gen /\ jobs'[j].kind = jobs[j].kind /\ busy' = busy
  BY FilledJob
<1> HIDE DEF New
<1>9. Rows'
  BY <1>2, <1>4 DEF Rows
<1>10. OneGeneration'
  BY <1>2, <1>3, <1>5, <1>6 DEF OneGeneration
<1>11. Stamps'
  BY <1>3 DEF Stamps
<1>12. SubsBelow'
  <2>1. \A r \in New : r.sub < nextSub
    BY <1>5 DEF SubsBelow
  <2> QED
    BY <1>2, <1>3, <1>8, <2>1 DEF SubsBelow, Idle, JobsOK, Pos
<1>13. OneLoad'
  <2>1. \A k \in Job : Loads(k) /\ k # j => Owner[k] # Owner[j]
    BY <1>7 DEF OneLoad
  <2>2. CASE jobs'[j] = Idle /\ busy' = [busy EXCEPT ![Owner[j]] = FALSE]
    <3>1. \A k \in Job : busy'[Owner[k]] <=> Owner[k] # Owner[j] /\ busy[Owner[k]]
      BY <2>2, FlagReset
    <3> QED
      BY <1>8, <2>1, <2>2, <3>1 DEF OneLoad, Loads, Idle
  <2>3. CASE jobs'[j].kind = jobs[j].kind /\ busy' = busy
    BY <1>8, <2>3 DEF OneLoad, Loads
  <2> QED
    BY <1>8, <2>2, <2>3
<1>14. CrossKnown'
  BY <1>3, <1>7, <1>8 DEF CrossKnown, HalfWay, Idle
<1>15. Replaced'
  <2> SUFFICES ASSUME NEW k \in Job, NEW r \in nodes', r.sub = jobs'[k].sub, r.sub \notin crossed
               PROVE  /\ jobs'[k].at # "insertNodes"
                      /\ jobs'[k].at = "update" => r.gen = jobs'[k].gen
    BY <1>3 DEF Replaced, At
  <2>1. CASE k = j
    BY <1>2, <1>5, <1>6, <1>8, <2>1 DEF Idle
  <2>2. CASE k # j /\ r \in nodes
    BY <1>8, <2>2 DEF Replaced, At
  <2>3. CASE k # j /\ r \in New
    <3>1. jobs[k].sub = jobs[j].sub /\ jobs[k].sub \notin crossed
      BY <1>5, <1>8, <2>3
    <3>2. jobs[k].at \in {"insertNodes", "update"} => HalfWay(jobs[k]) /\ Loads(k)
      BY JobAt DEF HalfWay, Loads, At
    <3>3. jobs[k].at \notin {"insertNodes", "update"}
      BY <1>7, <2>3, <3>1, <3>2, OneAtATime
    <3> QED
      BY <1>8, <2>3, <3>3
  <2> QED
    BY <1>2, <2>1, <2>2, <2>3
<1> QED
  BY <1>9, <1>10, <1>11, <1>12, <1>13, <1>14, <1>15

\* The stamp that ends a refresh is the last of its steps.
LEMMA UpdateKeeps ==
  ASSUME JobsOK, GenInv, NEW j \in Job, Update(j)
  PROVE  GenInv'
<1> USE DEF GenInv
<1>1. jobs[j].kind = "refresh" /\ jobs[j].gen \in Pos
  BY JobAt DEF Update
<1>2. \A k \in Job : jobs'[k] = IF k = j THEN Idle ELSE jobs[k]
  BY DEF JobsOK, Update, End
<1>3. UNCHANGED <<nodes, nextSub, shown, crossed>> /\ busy' = [busy EXCEPT ![Owner[j]] = FALSE]
  BY DEF Update, history
<1>4. /\ DOMAIN subs' = DOMAIN subs
      /\ \A s \in DOMAIN subs : subs'[s] = IF s = jobs[j].sub THEN jobs[j].gen ELSE subs[s]
  BY DEF Update, Stamped
<1>5. Rows' /\ OneGeneration'
  BY <1>3 DEF Rows, OneGeneration
<1>6. Stamps'
  BY <1>1, <1>4 DEF Stamps, Pos
<1>7. SubsBelow'
  BY <1>2, <1>3, <1>4 DEF SubsBelow, Idle, JobsOK, Pos
<1>8. OneLoad'
  <2>1. \A k \in Job : Loads(k) /\ k # j => Owner[k] # Owner[j]
    BY <1>1 DEF OneLoad, Loads
  <2>2. \A k \in Job : busy'[Owner[k]] <=> Owner[k] # Owner[j] /\ busy[Owner[k]]
    BY <1>3, FlagReset
  <2> QED
    BY <1>2, <2>1, <2>2 DEF OneLoad, Loads, Idle
<1>9. Replaced' /\ CrossKnown'
  BY <1>2, <1>3 DEF Replaced, CrossKnown, HalfWay, At, Idle
<1> QED
  BY <1>5, <1>6, <1>7, <1>8, <1>9

\* Every step keeps the generations in order.
LEMMA GenStep == JobsOK /\ GenInv /\ [Next]_vars => GenInv'
<1> SUFFICES ASSUME JobsOK, GenInv, [Next]_vars PROVE GenInv'
  OBVIOUS
<1>0. \A j \in Job : \A s \in shown[Owner[j]] : s \in Pos /\ s < nextSub
  BY OwnerAssumption DEF JobsOK, GenInv, SubsBelow
<1>1. ASSUME NEW j \in Job, Add(j) PROVE GenInv'
  <2> DEFINE s == [kind |-> "add", at |-> "fetch", sub |-> 0, gen |-> nextGen, size |-> 0]
  <2>1. s \in JobState /\ s.sub < nextSub
    BY DEF JobsOK, JobState, Pos
  <2>2. /\ jobs' = [jobs EXCEPT ![j] = s] /\ Free(j) /\ UNCHANGED <<tables, shown, crossed>>
        /\ ~busy[Owner[j]] /\ busy' = [busy EXCEPT ![Owner[j]] = TRUE]
    BY <1>1 DEF Add, Fetching, Launch, MayStart, history
  <2> QED
    BY <2>1, <2>2, LaunchKeeps
<1>2. ASSUME NEW j \in Job, Refresh(j) PROVE GenInv'
  <2>1. PICK n \in shown[Owner[j]] : Fetching(j, "refresh", n)
    BY <1>2 DEF Refresh
  <2> DEFINE s == [kind |-> "refresh", at |-> "fetch", sub |-> n, gen |-> nextGen, size |-> 0]
  <2>2. s \in JobState /\ s.sub < nextSub
    BY <1>0 DEF JobsOK, JobState
  <2>3. /\ jobs' = [jobs EXCEPT ![j] = s] /\ Free(j) /\ UNCHANGED <<tables, shown, crossed>>
        /\ ~busy[Owner[j]] /\ busy' = [busy EXCEPT ![Owner[j]] = TRUE]
    BY <1>2, <2>1 DEF Refresh, Fetching, Launch, MayStart, history
  <2> QED
    BY <2>2, <2>3, LaunchKeeps
<1>3. ASSUME NEW j \in Job, Delete(j) PROVE GenInv'
  <2>1. PICK n \in shown[Owner[j]] :
          Launch(j, [kind |-> "delete", at |-> "deleteNodes", sub |-> n, gen |-> 0, size |-> 0])
    BY <1>3 DEF Delete
  <2> DEFINE s == [kind |-> "delete", at |-> "deleteNodes", sub |-> n, gen |-> 0, size |-> 0]
  <2>2. s \in JobState /\ s.sub < nextSub
    BY <1>0 DEF JobsOK, JobState
  <2>3. /\ jobs' = [jobs EXCEPT ![j] = s] /\ Free(j)
        /\ UNCHANGED <<tables, shown, crossed>> /\ UNCHANGED busy
    BY <1>3, <2>1 DEF Delete, Launch, history
  <2> QED
    BY <2>2, <2>3, LaunchKeeps
<1>4. ASSUME NEW j \in Job, Step(j) PROVE GenInv'
  BY <1>4, EndKeeps, FetchKeeps, InsertSubKeeps, DeleteNodesKeeps, InsertNodesKeeps,
     UpdateKeeps DEF Step
<1>5. ASSUME NEW V \in SUBSET ViewModel, Cut(V) PROVE GenInv'
  <2>1. UNCHANGED <<subs, nodes, nextSub, crossed>>
    BY <1>5 DEF Cut, tables
  <2>2. \A j \in Job : jobs'[j] = IF Owner[j] \in V THEN Idle ELSE jobs[j]
    BY <1>5 DEF Cut
  <2>3. \A v \in ViewModel : shown'[v] = IF v \in V THEN {} ELSE shown[v]
    BY <1>5 DEF Cut
  <2>4. \A v \in ViewModel : v \notin V => busy'[v] = busy[v]
    BY <1>5 DEF Cut, JobsOK
  <2>5. Rows' /\ OneGeneration' /\ Stamps'
    BY <2>1 DEF GenInv, Rows, OneGeneration, Stamps
  <2>6. SubsBelow'
    BY <2>1, <2>2, <2>3 DEF GenInv, SubsBelow, Idle, JobsOK, Pos
  <2>7. Replaced' /\ CrossKnown'
    BY <2>1, <2>2 DEF GenInv, Replaced, CrossKnown, HalfWay, At, Idle
  <2>8. OneLoad'
    BY <2>2, <2>4, OwnerAssumption DEF GenInv, OneLoad, Loads, Idle
  <2> QED
    BY <2>5, <2>6, <2>7, <2>8 DEF GenInv
<1>6. ASSUME NEW v \in ViewModel, Show(v) PROVE GenInv'
  <2>1. UNCHANGED <<subs, nodes, nextSub, jobs, busy, crossed>>
    BY <1>6 DEF Show, tables, history
  <2>2. \A w \in ViewModel : shown'[w] = IF w = v THEN DOMAIN subs ELSE shown[w]
    BY <1>6 DEF Show, JobsOK
  <2>3. SubsBelow'
    BY <2>1, <2>2 DEF GenInv, SubsBelow
  <2> QED
    BY <2>1, <2>3 DEF GenInv, Rows, OneLoad, Loads, CrossKnown, Replaced, At, Stamps, OneGeneration
<1>7. CASE UNCHANGED <<tables, shown, jobs, busy, crossed>>
  BY <1>7 DEF GenInv, Rows, SubsBelow, OneLoad, Loads, CrossKnown, Replaced, At, Stamps,
     OneGeneration, tables
<1> QED
  BY <1>1, <1>2, <1>3, <1>4, <1>5, <1>6, <1>7 DEF Next, Click, Select, vars, history

\* The nodes of a subscription come from one download, unless jobs of two view models
\* were half way at it together and its nodes were not deleted since: for every number of
\* view models and coroutines, and all additions, refreshes, deletions and cuts.
THEOREM GenerationsSafe == Spec => []OneGeneration
<1>1. GenInv => OneGeneration
  BY DEF GenInv
<1> QED
  BY <1>1, GenInit, GenStep, JobsCorrect, PTL DEF Spec

-----------------------------------------------------------------------------
(* The stamps of subscriptions                                             *)

\* The row of a subscription bears the number of the download whose nodes come next.
AddStamp ==
  \A j \in Job :
    /\ jobs[j].kind = "add" /\ At(j, "insertNodes")
    /\ jobs[j].sub \in DOMAIN subs /\ jobs[j].sub \notin crossed
    => subs[jobs[j].sub] = jobs[j].gen

\* When a refresh comes to the stamp, its nodes are there, unless a deletion took them and will
\* take the subscription too.
Deleting(s) == \E k \in Job : jobs[k].kind = "delete" /\ At(k, "deleteSub") /\ jobs[k].sub = s
RefreshNodes ==
  \A j \in Job :
    /\ jobs[j].kind = "refresh" /\ At(j, "update")
    /\ jobs[j].sub \in DOMAIN subs /\ jobs[j].sub \notin crossed
    => Deleting(jobs[j].sub) \/ \E r \in nodes : r.sub = jobs[j].sub

StampInv == AddStamp /\ RefreshNodes /\ StampMatchesNodes

\* The generations of a subscription's nodes, as a set
Gens(s) == {r.gen : r \in {n \in nodes : n.sub = s}}

\* A step between launch and the first write, or none
LEMMA StampUnaffected ==
  ASSUME StampInv, UNCHANGED <<subs, nodes, history>>,
         \A k \in Job : jobs'[k] = jobs[k] \/ (~HalfWay(jobs[k]) /\ ~HalfWay(jobs'[k]))
  PROVE  StampInv'
<1>1. \A k \in Job : HalfWay(jobs[k]) \/ HalfWay(jobs'[k]) => jobs'[k] = jobs[k]
  OBVIOUS
<1>2. AddStamp'
  BY <1>1 DEF StampInv, AddStamp, HalfWay, At, history
<1>3. RefreshNodes'
  BY <1>1 DEF StampInv, RefreshNodes, Deleting, HalfWay, At, history
<1>4. \A s : Working(s)' <=> Working(s)
  BY <1>1 DEF Working
<1>5. StampMatchesNodes'
  BY <1>4 DEF StampInv, StampMatchesNodes, history
<1> QED
  BY <1>2, <1>3, <1>5 DEF StampInv

\* A new subscription is being worked on.
LEMMA InsertSubStamp ==
  ASSUME JobsOK, GenInv, StampInv, NEW j \in Job, InsertSub(j)
  PROVE  StampInv'
<1>1. /\ \A k \in Job : k # j => jobs'[k] = jobs[k]
      /\ jobs'[j].sub = nextSub /\ jobs'[j].kind = "add"
      /\ jobs'[j].gen = jobs[j].gen /\ jobs'[j].at = "insertNodes"
      /\ jobs[j].at = "insertSub"
  BY InsertedJob, JobAt DEF InsertSub, At
<1>2. UNCHANGED <<nodes, torn, crossed>>
  BY DEF InsertSub, history
<1>3. /\ DOMAIN subs' = DOMAIN subs \cup {nextSub} /\ nextSub \notin DOMAIN subs
      /\ \A s \in DOMAIN subs : subs'[s] = subs[s]
      /\ subs'[nextSub] = jobs[j].gen
  BY DEF InsertSub, GenInv, SubsBelow, JobsOK, Pos
<1>4. \A k \in Job : jobs[k].sub # nextSub
  BY JobAt DEF GenInv, SubsBelow, JobsOK, Pos, JobState, Idle
<1>5. AddStamp'
  BY <1>1, <1>2, <1>3, <1>4 DEF StampInv, AddStamp, At
<1>6. RefreshNodes'
  BY <1>1, <1>2, <1>3, <1>4 DEF StampInv, RefreshNodes, Deleting, At
<1>7. \A s : s = nextSub => Working(s)'
  BY <1>1 DEF Working, HalfWay
<1>8. \A s : Working(s) => Working(s)'
  BY <1>1 DEF Working, HalfWay
<1>9. StampMatchesNodes'
  BY <1>2, <1>3, <1>7, <1>8 DEF StampInv, StampMatchesNodes
<1> QED
  BY <1>5, <1>6, <1>9 DEF StampInv

\* Who takes the nodes of a subscription works on it.
LEMMA DeleteNodesStamp ==
  ASSUME JobsOK, GenInv, StampInv, NEW j \in Job, DeleteNodes(j)
  PROVE  StampInv'
<1> DEFINE s == jobs[j].sub
<1>1. /\ \A k \in Job : k # j => jobs'[k] = jobs[k]
      /\ jobs'[j].sub = s /\ jobs'[j].kind = jobs[j].kind
      /\ jobs'[j].at = IF jobs[j].kind = "delete" THEN "deleteSub" ELSE "insertNodes"
      /\ jobs[j].at = "deleteNodes" /\ jobs[j].kind \in {"refresh", "delete"}
  BY DeletedJob, JobAt DEF DeleteNodes, At
<1>2. UNCHANGED subs /\ nodes' = {r \in nodes : r.sub # s}
  BY DEF DeleteNodes, Remaining
<1>3. \A x : x # s => (x \in torn' <=> x \in torn) /\ (x \in crossed' <=> x \in crossed)
  BY DEF DeleteNodes, Anew
\* a rival of the same view model leaves the subscription as crossed as it was
<1>4. ASSUME NEW k \in Job, k # j, HalfWay(jobs[k]), jobs[k].sub = s, s \notin crossed'
      PROVE  s \notin crossed /\ Owner[k] = Owner[j]
  <2>1. k \in Rivals(j)
    BY <1>4 DEF Rivals
  <2> QED
    BY <1>4, <2>1 DEF DeleteNodes, Anew
<1>5. AddStamp'
  <2> SUFFICES ASSUME NEW k \in Job, jobs'[k].kind = "add", jobs'[k].at = "insertNodes",
                      jobs'[k].sub \in DOMAIN subs, jobs'[k].sub \notin crossed'
               PROVE  subs[jobs'[k].sub] = jobs'[k].gen
    BY <1>2 DEF AddStamp, At
  <2>1. k # j /\ jobs'[k] = jobs[k] /\ HalfWay(jobs[k])
    BY <1>1 DEF HalfWay
  <2>2. jobs[k].sub \notin crossed
    BY <1>3, <1>4, <2>1
  <2> QED
    BY <2>1, <2>2 DEF StampInv, AddStamp, At
<1>6. RefreshNodes'
  <2> SUFFICES ASSUME NEW k \in Job, NEW x \in DOMAIN subs, x \notin crossed',
                      jobs'[k].kind = "refresh", jobs'[k].at = "update", jobs'[k].sub = x
               PROVE  Deleting(x)' \/ \E r \in nodes' : r.sub = x
    BY <1>2 DEF RefreshNodes, At, Deleting
  <2>1. k # j /\ jobs'[k] = jobs[k] /\ HalfWay(jobs[k])
    BY <1>1 DEF HalfWay
  <2>2. CASE x = s
    <3>1. Owner[k] = Owner[j]
      BY <1>4, <2>1, <2>2
    <3>2. jobs[j].kind = "delete"
      BY <1>1, <2>1, <3>1 DEF GenInv, OneLoad, Loads
    <3> QED
      BY <1>1, <2>2, <3>2 DEF Deleting, At
  <2>3. CASE x # s
    <3>1. Deleting(x) \/ \E r \in nodes : r.sub = x
      BY <1>3, <2>1, <2>3 DEF StampInv, RefreshNodes, At
    <3>2. Deleting(x) => Deleting(x)'
      BY <1>1 DEF Deleting, At
    <3> QED
      BY <1>2, <2>3, <3>1, <3>2
  <2> QED
    BY <2>2, <2>3
<1>7. \A x : x = s => Working(x)'
  BY <1>1 DEF Working, HalfWay
<1>8. \A x : Working(x) => Working(x)'
  BY <1>1 DEF Working, HalfWay
<1>9. ASSUME NEW x \in DOMAIN subs, ~Working(x)', x \notin torn' \cup crossed'
      PROVE  Gens(x)' = {subs[x]}
  <2>1. x # s /\ ~Working(x) /\ x \notin torn \cup crossed
    BY <1>3, <1>7, <1>8, <1>9
  <2>2. {n \in nodes' : n.sub = x} = {n \in nodes : n.sub = x}
    BY <1>2, <2>1
  <2>3. Gens(x) = {subs[x]}
    BY <2>1 DEF StampInv, StampMatchesNodes, Gens
  <2> QED
    BY <2>2, <2>3 DEF Gens
<1>10. StampMatchesNodes'
  BY <1>2, <1>9 DEF StampMatchesNodes, Gens
<1> QED
  BY <1>5, <1>6, <1>10 DEF StampInv

\* The nodes of an addition are those of its stamp; those of a refresh await it.
LEMMA InsertNodesStamp ==
  ASSUME JobsOK, GenInv, StampInv, NEW j \in Job, InsertNodes(j)
  PROVE  StampInv'
<1> DEFINE s == jobs[j].sub
           g == jobs[j].gen
           New == {[id |-> i, sub |-> s, gen |-> g] : i \in nextNode .. nextNode + jobs[j].size - 1}
<1>1. /\ \A k \in Job : k # j => jobs'[k] = jobs[k]
      /\ \/ jobs[j].kind = "add" /\ jobs'[j] = Idle
         \/ jobs[j].kind = "refresh" /\ jobs'[j].at = "update" /\ jobs'[j].sub = s
            /\ jobs'[j].kind = "refresh"
  BY FilledJob
<1>2. UNCHANGED <<subs, torn, crossed>> /\ nodes' = nodes \cup New
  BY DEF InsertNodes, FirstId, history
<1>3. jobs[j].at = "insertNodes" /\ jobs[j].size \in 1 .. MaxNodes
  BY JobAt DEF InsertNodes, At
<1>4. \A r \in New : r.sub = s /\ r.gen = g
  OBVIOUS
<1>5. \E r \in New : r.sub = s /\ r.gen = g
  <2>1. nextNode \in nextNode .. nextNode + jobs[j].size - 1
    BY <1>3, BoundsAssumption DEF JobsOK, Pos
  <2>2. [id |-> nextNode, sub |-> s, gen |-> g] \in New
    BY <2>1
  <2> QED
    BY <2>2
<1> HIDE DEF New
<1>6. s \notin crossed => \A r \in nodes : r.sub # s
  BY <1>3 DEF GenInv, Replaced, At
<1>7. AddStamp'
  BY <1>1, <1>2 DEF StampInv, AddStamp, At, Idle
<1>8. RefreshNodes'
  <2>1. \A x : Deleting(x) => Deleting(x)'
    BY <1>1 DEF Deleting, At
  <2> QED
    BY <1>1, <1>2, <1>5, <2>1 DEF StampInv, RefreshNodes, At, Idle
<1>9. ASSUME NEW x \in DOMAIN subs, ~Working(x)', x \notin torn \cup crossed
      PROVE  Gens(x)' = {subs[x]}
  <2>1. CASE x # s
    <3>1. ~Working(x)
      BY <1>1, <1>9, <2>1 DEF Working
    <3>2. {n \in nodes' : n.sub = x} = {n \in nodes : n.sub = x}
      BY <1>2, <1>4, <2>1
    <3>3. Gens(x) = {subs[x]}
      BY <1>9, <3>1 DEF StampInv, StampMatchesNodes, Gens
    <3> QED
      BY <3>2, <3>3 DEF Gens
  <2>2. CASE x = s
    <3>1. jobs[j].kind = "add"
      BY <1>1, <1>9, <2>2 DEF Working, HalfWay
    <3>2. subs[s] = g
      BY <1>3, <1>9, <2>2, <3>1 DEF StampInv, AddStamp, At
    <3>3. {n \in nodes' : n.sub = s} = New
      BY <1>2, <1>4, <1>6, <1>9, <2>2
    <3>4. {r.gen : r \in New} = {g}
      BY <1>4, <1>5
    <3> QED
      BY <2>2, <3>2, <3>3, <3>4 DEF Gens
  <2> QED
    BY <2>1, <2>2
<1>10. StampMatchesNodes'
  BY <1>2, <1>9 DEF StampMatchesNodes, Gens
<1> QED
  BY <1>7, <1>8, <1>10 DEF StampInv

\* The stamp is that of the nodes, which are there if nobody works on the subscription.
LEMMA UpdateStamp ==
  ASSUME JobsOK, GenInv, StampInv, NEW j \in Job, Update(j)
  PROVE  StampInv'
<1> DEFINE s == jobs[j].sub
           g == jobs[j].gen
<1>1. jobs[j].kind = "refresh" /\ jobs[j].at = "update"
  BY JobAt DEF Update, At
<1>2. \A k \in Job : jobs'[k] = IF k = j THEN Idle ELSE jobs[k]
  BY DEF JobsOK, Update, End
<1>3. UNCHANGED <<nodes, torn, crossed>>
  BY DEF Update, history
<1>4. /\ DOMAIN subs' = DOMAIN subs
      /\ \A x \in DOMAIN subs : subs'[x] = IF x = s THEN g ELSE subs[x]
  BY DEF Update, Stamped
<1>5. AddStamp'
  <2>1. ASSUME NEW k \in Job, jobs[k].kind = "add", jobs[k].at = "insertNodes", s \notin crossed
        PROVE  jobs[k].sub # s
    <3>1. HalfWay(jobs[k]) /\ HalfWay(jobs[j]) /\ Loads(k) /\ Loads(j) /\ k # j
      BY <1>1, <2>1 DEF HalfWay, Loads
    <3> QED
      BY <2>1, <3>1, OneAtATime
  <2> QED
    BY <1>2, <1>3, <1>4, <2>1 DEF StampInv, AddStamp, At, Idle
<1>6. RefreshNodes'
  <2>1. \A x : Deleting(x) => Deleting(x)'
    BY <1>1, <1>2 DEF Deleting, At
  <2> QED
    BY <1>2, <1>3, <1>4, <2>1 DEF StampInv, RefreshNodes, At, Idle
<1>7. ASSUME NEW x \in DOMAIN subs, ~Working(x)', x \notin torn \cup crossed
      PROVE  Gens(x) = {subs'[x]}
  <2>1. CASE x # s
    <3>1. ~Working(x)
      BY <1>2, <1>7, <2>1 DEF Working
    <3> QED
      BY <1>4, <1>7, <2>1, <3>1 DEF StampInv, StampMatchesNodes, Gens
  <2>2. CASE x = s
    <3>1. ~Deleting(s)
      BY <1>1, <1>2, <1>7, <2>2 DEF Deleting, Working, HalfWay, At
    <3>2. \E r \in nodes : r.sub = s
      BY <1>1, <1>7, <2>2, <3>1 DEF StampInv, RefreshNodes, At
    <3>3. \A r \in nodes : r.sub = s => r.gen = g
      BY <1>1, <1>7, <2>2 DEF GenInv, Replaced, At
    <3> QED
      BY <1>4, <2>2, <3>2, <3>3 DEF Gens
  <2> QED
    BY <2>1, <2>2
<1>8. StampMatchesNodes'
  BY <1>3, <1>4, <1>7 DEF StampMatchesNodes, Gens
<1> QED
  BY <1>5, <1>6, <1>8 DEF StampInv

\* The subscription goes last.
LEMMA DeleteSubStamp ==
  ASSUME JobsOK, StampInv, NEW j \in Job, DeleteSub(j)
  PROVE  StampInv'
<1>1. jobs[j].kind = "delete" /\ jobs[j].at = "deleteSub"
  BY JobAt DEF DeleteSub, At
<1>2. \A k \in Job : jobs'[k] = IF k = j THEN Idle ELSE jobs[k]
  BY DEF JobsOK, DeleteSub, End
<1>3. /\ UNCHANGED <<nodes, torn, crossed>> /\ DOMAIN subs' = DOMAIN subs \ {jobs[j].sub}
      /\ \A x \in DOMAIN subs' : subs'[x] = subs[x]
  BY DEF DeleteSub, history
<1>4. AddStamp'
  BY <1>2, <1>3 DEF StampInv, AddStamp, At, Idle
<1>5. \A x \in DOMAIN subs' : (Deleting(x) => Deleting(x)') /\ (Working(x) => Working(x)')
  BY <1>2, <1>3 DEF Deleting, Working, At
<1>6. RefreshNodes'
  BY <1>2, <1>3, <1>5 DEF StampInv, RefreshNodes, At, Idle
<1>7. StampMatchesNodes'
  BY <1>3, <1>5 DEF StampInv, StampMatchesNodes
<1> QED
  BY <1>4, <1>6, <1>7 DEF StampInv

\* What a cut leaves half way is torn; a deletion goes with the refreshes of its view model.
LEMMA CutStamp ==
  ASSUME GenInv, StampInv, NEW V \in SUBSET ViewModel, Cut(V)
  PROVE  StampInv'
<1>1. UNCHANGED <<subs, nodes, crossed>> /\ torn \subseteq torn'
  BY DEF Cut, tables
<1>2. \A j \in Job : jobs'[j] = IF Owner[j] \in V THEN Idle ELSE jobs[j]
  BY DEF Cut
<1>3. \A j \in Job : HalfWay(jobs[j]) /\ Owner[j] \in V => jobs[j].sub \in torn'
  BY DEF Cut
<1>4. AddStamp'
  BY <1>1, <1>2 DEF StampInv, AddStamp, At, Idle
<1>5. RefreshNodes'
  <2> SUFFICES ASSUME NEW j \in Job, NEW x \in DOMAIN subs, x \notin crossed,
                      jobs'[j].kind = "refresh", jobs'[j].at = "update", jobs'[j].sub = x
               PROVE  Deleting(x)' \/ \E r \in nodes : r.sub = x
    BY <1>1 DEF RefreshNodes, At, Deleting
  <2>1. jobs'[j] = jobs[j] /\ Owner[j] \notin V /\ HalfWay(jobs[j])
    BY <1>2 DEF Idle, HalfWay
  <2>2. ASSUME NEW k \in Job, jobs[k].kind = "delete", jobs[k].at = "deleteSub", jobs[k].sub = x
        PROVE  jobs'[k] = jobs[k]
    <3>1. HalfWay(jobs[k]) /\ jobs[j].sub = jobs[k].sub /\ jobs[j].sub \notin crossed
      BY <2>1, <2>2 DEF HalfWay
    <3>2. Owner[k] = Owner[j]
      BY <2>1, <3>1 DEF GenInv, CrossKnown
    <3> QED
      BY <1>2, <2>1, <3>2
  <2>3. Deleting(x) => Deleting(x)'
    BY <2>2 DEF Deleting, At
  <2>4. Deleting(x) \/ \E r \in nodes : r.sub = x
    BY <2>1 DEF StampInv, RefreshNodes, At
  <2> QED
    BY <2>3, <2>4
<1>6. \A x : Working(x) => Working(x)' \/ x \in torn'
  BY <1>2, <1>3 DEF Working
<1>7. StampMatchesNodes'
  BY <1>1, <1>6 DEF StampInv, StampMatchesNodes
<1> QED
  BY <1>4, <1>5, <1>7 DEF StampInv

\* Every step keeps the stamps.
LEMMA StampStep == JobsOK /\ GenInv /\ StampInv /\ [Next]_vars => StampInv'
<1> SUFFICES ASSUME JobsOK, GenInv, StampInv, [Next]_vars PROVE StampInv'
  OBVIOUS
<1>1. ASSUME NEW j \in Job, Add(j) \/ Refresh(j) \/ Delete(j) PROVE StampInv'
  <2>1. \E q : q.at \in {"fetch", "deleteNodes"} /\ Launch(j, q)
    <3>1. ASSUME NEW kind, NEW n, Fetching(j, kind, n)
          PROVE  \E q : q.at \in {"fetch", "deleteNodes"} /\ Launch(j, q)
      <4>1. Launch(j, [kind |-> kind, at |-> "fetch", sub |-> n, gen |-> nextGen, size |-> 0])
        BY <3>1 DEF Fetching
      <4> QED
        BY <4>1
    <3>2. ASSUME NEW n,
                 Launch(j, [kind |-> "delete", at |-> "deleteNodes", sub |-> n, gen |-> 0,
                            size |-> 0])
          PROVE  \E q : q.at \in {"fetch", "deleteNodes"} /\ Launch(j, q)
      BY <3>2
    <3> QED
      BY <1>1, <3>1, <3>2 DEF Add, Refresh, Delete
  <2>2. \A k \in Job : jobs'[k] = jobs[k] \/ (~HalfWay(jobs[k]) /\ ~HalfWay(jobs'[k]))
    BY <2>1 DEF Launch, Free, HalfWay, Idle, JobsOK
  <2>3. UNCHANGED <<subs, nodes, history>>
    BY <1>1 DEF Add, Refresh, Delete, tables
  <2> QED
    BY <2>2, <2>3, StampUnaffected
<1>2. ASSUME NEW j \in Job, FetchFails(j) \/ FetchSucceeds(j) PROVE StampInv'
  <2>1. \A k \in Job : jobs'[k] = jobs[k] \/ (~HalfWay(jobs[k]) /\ ~HalfWay(jobs'[k]))
    <3>1. CASE FetchFails(j)
      BY <3>1 DEF FetchFails, End, HalfWay, Idle, JobsOK, At
    <3>2. CASE FetchSucceeds(j)
      BY <3>2, FetchedJob DEF FetchSucceeds, HalfWay, At
    <3> QED
      BY <1>2, <3>1, <3>2
  <2>2. UNCHANGED <<subs, nodes, history>>
    BY <1>2 DEF FetchFails, FetchSucceeds, tables
  <2> QED
    BY <2>1, <2>2, StampUnaffected
<1>3. ASSUME NEW j \in Job, Step(j) PROVE StampInv'
  BY <1>2, <1>3, InsertSubStamp, DeleteNodesStamp, InsertNodesStamp, UpdateStamp, DeleteSubStamp
     DEF Step
<1>4. ASSUME NEW V \in SUBSET ViewModel, Cut(V) PROVE StampInv'
  BY <1>4, CutStamp
<1>5. CASE UNCHANGED <<tables, jobs, history>>
  BY <1>5, StampUnaffected DEF tables
<1> QED
  BY <1>1, <1>3, <1>4, <1>5 DEF Next, Show, Click, Select, vars

\* A subscription that no job works on shows the nodes of the download its lastUpdatedAt is
\* about, and at least one, unless a job was cut half way at it, or jobs of two view models
\* were half way at it together, and no job has deleted its nodes on its own since: for every
\* number of view models and coroutines, whichever way their jobs interleave.
THEOREM StampsSafe == Spec => []StampMatchesNodes
<1>1. Init => StampInv
  BY DEF Init, StampInv, AddStamp, RefreshNodes, StampMatchesNodes, Idle
<1>2. StampInv => StampMatchesNodes
  BY DEF StampInv
<1> QED
  BY <1>1, <1>2, GenInit, GenStep, StampStep, JobsCorrect, PTL DEF Spec

-----------------------------------------------------------------------------
(* The selection                                                           *)

\* Node ids are given out once: the selected id, and that of a click that still
\* waits, is that of the node the user saw, or of none.
Denotes(n) == \A r \in nodes : r.id = n.id => r = n

SelInv ==
  /\ nodes \subseteq Row
  /\ \A r \in nodes : r.id < nextNode
  /\ \A r1, r2 \in nodes : r1.id = r2.id => r1 = r2
  /\ {picked, clicked} \subseteq Row \cup {NoRow}
  /\ picked.id < nextNode /\ clicked.id < nextNode
  /\ selected = picked.id
  /\ Denotes(picked) /\ Denotes(clicked)

\* Rows inserted by any job get ids above all those in use and all those chosen.
LEMMA FreshIds ==
  ASSUME JobsOK, SelInv, NEW j \in Job, InsertNodes(j)
  PROVE  SelInv'
<1> DEFINE New == {[id |-> i, sub |-> jobs[j].sub, gen |-> jobs[j].gen] :
                     i \in nextNode .. nextNode + jobs[j].size - 1}
<1>1. jobs[j].sub \in Pos /\ jobs[j].gen \in Pos /\ jobs[j].size \in 1 .. MaxNodes
  BY JobAt DEF InsertNodes
<1>2. nodes' = nodes \cup New /\ nextNode' = nextNode + jobs[j].size
  BY DEF InsertNodes, FirstId
<1>3. UNCHANGED <<picked, clicked, selected>>
  BY DEF InsertNodes, choice
<1>4. nextNode \in Pos
  BY DEF JobsOK
<1>5. /\ New \subseteq Row
      /\ \A r \in New : nextNode <= r.id /\ r.id < nextNode'
      /\ \A r1, r2 \in New : r1.id = r2.id => r1 = r2
  BY <1>1, <1>2, <1>4 DEF Row, Pos
<1>6. nextNode' \in Pos /\ nextNode < nextNode'
  BY <1>1, <1>2, <1>4, BoundsAssumption DEF Pos
<1> HIDE DEF New
<1>7. \A r \in nodes : r.id \in Nat /\ r.id < nextNode
  BY DEF SelInv, Row, Pos
<1>8. /\ picked.id \in Nat /\ picked.id < nextNode
      /\ clicked.id \in Nat /\ clicked.id < nextNode
  BY DEF SelInv, Row, NoRow, Pos
<1>9. nodes' \subseteq Row /\ \A r \in nodes' : r.id < nextNode'
  <2>1. \A r \in nodes : r.id < nextNode'
    BY <1>4, <1>6, <1>7 DEF Pos
  <2> QED
    BY <1>2, <1>5, <2>1 DEF SelInv
<1>10. \A r1, r2 \in nodes' : r1.id = r2.id => r1 = r2
  <2>1. \A r1 \in nodes, r2 \in New : r1.id # r2.id
    BY <1>4, <1>5, <1>7 DEF Row, Pos
  <2> QED
    BY <1>2, <1>5, <2>1 DEF SelInv
<1>11. Denotes(picked)' /\ Denotes(clicked)'
  <2>1. \A r \in New : r.id # picked.id /\ r.id # clicked.id
    BY <1>4, <1>5, <1>8 DEF Row, Pos
  <2> QED
    BY <1>2, <1>3, <2>1 DEF SelInv, Denotes
<1>12. picked'.id < nextNode' /\ clicked'.id < nextNode'
  BY <1>3, <1>4, <1>6, <1>8 DEF Pos
<1> QED
  BY <1>3, <1>9, <1>10, <1>11, <1>12 DEF SelInv

\* Every step keeps the selection meaningful.
LEMMA SelStep == JobsOK /\ SelInv /\ [Next]_vars => SelInv'
<1> SUFFICES ASSUME JobsOK, SelInv, [Next]_vars PROVE SelInv'
  OBVIOUS
<1>1. ASSUME NEW j \in Job, InsertNodes(j) PROVE SelInv'
  BY <1>1, FreshIds
<1>2. ASSUME NEW j \in Job, DeleteNodes(j) PROVE SelInv'
  <2>1. nodes' \subseteq nodes /\ UNCHANGED <<nextNode, choice>>
    BY <1>2 DEF DeleteNodes, Remaining
  <2> QED
    BY <2>1 DEF SelInv, Denotes, choice
<1>3. ASSUME NEW r \in nodes, Click(r) PROVE SelInv'
  <2>1. clicked' = r /\ UNCHANGED <<nodes, nextNode, selected, picked>>
    BY <1>3 DEF Click, tables
  <2> QED
    BY <2>1 DEF SelInv, Denotes
<1>4. CASE Select
  <2>1. /\ selected' = clicked.id /\ picked' = clicked /\ clicked' = NoRow
        /\ UNCHANGED <<nodes, nextNode>>
    BY <1>4 DEF Select, tables
  <2>2. \A r \in nodes : r.id # NoRow.id
    BY DEF SelInv, Row, NoRow, Pos
  <2>3. NoRow.id < nextNode
    BY DEF JobsOK, NoRow, Pos
  <2> QED
    BY <2>1, <2>2, <2>3 DEF SelInv, Denotes
<1>5. ASSUME NEW V \in SUBSET ViewModel, Cut(V) PROVE SelInv'
  <2>1. UNCHANGED <<nodes, nextNode, selected, picked>> /\ clicked' \in {clicked, NoRow}
    BY <1>5 DEF Cut, tables
  <2>2. \A r \in nodes : r.id # NoRow.id
    BY DEF SelInv, Row, NoRow, Pos
  <2>3. NoRow.id < nextNode
    BY DEF JobsOK, NoRow, Pos
  <2> QED
    BY <2>1, <2>2, <2>3 DEF SelInv, Denotes
<1>6. CASE UNCHANGED <<nodes, nextNode, choice>>
  BY <1>6 DEF SelInv, Denotes, choice
<1> QED
  BY <1>1, <1>2, <1>3, <1>4, <1>5, <1>6 DEF Next, Step, Add, Refresh, Delete, FetchFails,
     FetchSucceeds, InsertSub, Update, DeleteSub, Show, vars, tables

\* The stored selection never comes to denote a node the user did not choose,
\* whatever refreshes and deletions do to the table, and however they are cut.
THEOREM SelectionSafe == Spec => []SelectedNeverRetargets
<1>1. Init => SelInv
  BY DEF Init, SelInv, Denotes, NoRow, Pos
<1>2. SelInv => SelectedNeverRetargets
  BY DEF SelInv, Denotes, SelectedNeverRetargets
<1> QED
  BY <1>1, <1>2, SelStep, JobsCorrect, PTL DEF Spec

-----------------------------------------------------------------------------
(* Type correctness                                                        *)

\* What the invariants above do not speak of
RestOK ==
  /\ torn \subseteq Pos /\ crossed \subseteq Pos
  /\ deletes \in 0 .. MaxDeletes /\ cuts \in 0 .. MaxCuts

LEMMA RestStep == JobsOK /\ RestOK /\ [Next]_vars => RestOK'
<1> SUFFICES ASSUME JobsOK, RestOK, [Next]_vars PROVE RestOK'
  OBVIOUS
<1>2. deletes' \in 0 .. MaxDeletes /\ cuts' \in 0 .. MaxCuts
  <2>1. deletes' = deletes \/ (deletes < MaxDeletes /\ deletes' = deletes + 1)
    BY DEF Next, Add, Refresh, Delete, Step, FetchFails, FetchSucceeds,
       InsertSub, DeleteNodes, InsertNodes, Update, DeleteSub, Show, Click, Select, Cut, vars, budget
  <2>2. cuts' = cuts \/ (cuts < MaxCuts /\ cuts' = cuts + 1)
    BY DEF Next, Add, Refresh, Delete, Step, FetchFails, FetchSucceeds,
       InsertSub, DeleteNodes, InsertNodes, Update, DeleteSub, Show, Click, Select, Cut, vars, budget
  <2> QED
    BY <2>1, <2>2, BoundsAssumption DEF RestOK
<1>3. torn' \subseteq Pos /\ crossed' \subseteq Pos
  <2>1. ASSUME NEW V \in SUBSET ViewModel, Cut(V) PROVE torn' \subseteq Pos /\ crossed' = crossed
    <3>1. ASSUME NEW j \in Job, HalfWay(jobs[j]) PROVE jobs[j].sub \in Pos
      BY <3>1, JobAt DEF HalfWay, At
    <3> QED
      BY <2>1, <3>1 DEF Cut, RestOK
  <2>2. ASSUME NEW j \in Job, DeleteNodes(j) PROVE torn' \subseteq Pos /\ crossed' \subseteq Pos
    BY <2>2, JobAt DEF DeleteNodes, Anew, RestOK
  <2>3. CASE UNCHANGED history
    BY <2>3 DEF history, RestOK
  <2> QED
    BY <2>1, <2>2, <2>3 DEF RestOK, Next, Add, Refresh, Delete, Step, FetchFails, FetchSucceeds,
       InsertSub, InsertNodes, Update, DeleteSub, Show, Click, Select, vars
<1> QED
  BY <1>2, <1>3 DEF RestOK

\* Every reachable state of Subscriptions has the declared types.
THEOREM TypeCorrect == Spec => []TypeOK
<1>1. Init => GenInv /\ SelInv /\ RestOK
  <2>1. Init => GenInv
    BY GenInit
  <2>2. Init => SelInv
    BY DEF Init, SelInv, Denotes, NoRow, Pos
  <2>3. Init => RestOK
    BY BoundsAssumption DEF Init, RestOK
  <2> QED
    BY <2>1, <2>2, <2>3
<1>2. JobsOK /\ GenInv /\ SelInv /\ RestOK => TypeOK
  <2> SUFFICES ASSUME JobsOK, GenInv, SelInv, RestOK PROVE TypeOK
    OBVIOUS
  <2>1. Range(subs) \subseteq Nat
    BY DEF GenInv, Stamps, Range
  <2>2. selected \in Nat
    BY DEF SelInv, Row, NoRow, Pos
  <2> QED
    BY <2>1, <2>2 DEF JobsOK, SelInv, RestOK, TypeOK
<1> QED
  BY <1>1, <1>2, GenStep, SelStep, RestStep, JobsCorrect, PTL DEF Spec
=============================================================================
