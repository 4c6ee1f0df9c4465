--------------------------- MODULE Subscriptions ----------------------------
(***************************************************************************)
(* The subscription store: SubscriptionRepository over the two Room tables *)
(* and the coroutines of SubscriptionsViewModel that drive it, with the    *)
(* selection of a node kept in the settings store.                         *)
(*                                                                         *)
(* A coroutine is a job; each of its suspending calls (the download, one   *)
(* DAO call) is a step.  Jobs interleave, and back navigation or the death *)
(* of the process cuts them between two steps: no transaction spans a job. *)
(*                                                                         *)
(* A job belongs to a view model, and so does busy.  The two ways to the   *)
(* screen of subscriptions (the tab, and the button of the empty list of   *)
(* nodes) give it a back stack entry each, with a view model of its own;   *)
(* the tabs save the entry they leave, whose view model lives on.          *)
(* The content of a download is abstracted to its number (the generation   *)
(* of the nodes it yields) and to how many nodes it yields.                *)
(***************************************************************************)
EXTENDS Integers, FiniteSets, Functions

CONSTANTS
  ViewModel,   \* instances of SubscriptionsViewModel that can be alive
  Job,         \* coroutines that can be under way
  Owner,       \* the view model whose viewModelScope a coroutine runs in
  MaxNodes,    \* bound: nodes in a download
  MaxSubs,     \* bound: subscriptions ever inserted
  MaxFetches,  \* bound: downloads ever started
  MaxDeletes,  \* bound: deletions ever started
  MaxCuts      \* bound: back navigations, process deaths

ASSUME OwnerAssumption == Owner \in [Job -> ViewModel]

ASSUME BoundsAssumption ==
  /\ MaxNodes \in Nat \ {0}
  /\ {MaxSubs, MaxFetches, MaxDeletes, MaxCuts} \subseteq Nat

VARIABLES
  subs,      \* table subscriptions: [id |-> generation of lastUpdatedAt]
  nodes,     \* table profiles: rows [id, sub, gen]
  nextSub, nextNode,   \* the AUTOINCREMENT sequences of the tables
  selected,  \* settings: selectedProfileId, 0 = none
  clicked,   \* the row of a click that waits for the settings store
  shown,     \* the subscriptions each view model lists
  jobs,      \* [Job -> what the coroutine is doing]
  busy,      \* busy of each view model
  nextGen,   \* number of the next download
  picked,    \* observability: the row the user selected last
  torn,      \* observability: subscriptions a job was cut half way at
  crossed,   \* observability: those that jobs of two view models were at together
  deletes, cuts

tables   == <<subs, nodes, nextSub, nextNode>>
choice   == <<selected, picked, clicked>>
history  == <<torn, crossed>>
budget   == <<deletes, cuts>>
vars     == <<tables, choice, shown, jobs, busy, nextGen, history, budget>>

Idle == [kind |-> "idle", at |-> "end", sub |-> 0, gen |-> 0, size |-> 0]

Pos == Nat \ {0}

Row   == [id : Pos, sub : Pos, gen : Pos]
NoRow == [id |-> 0, sub |-> 0, gen |-> 0]

JobState ==
  {Idle}
  \cup [kind : {"add"}, at : {"fetch"}, sub : {0}, gen : Pos, size : {0}]
  \cup [kind : {"add"}, at : {"insertSub"}, sub : {0}, gen : Pos, size : 1 .. MaxNodes]
  \cup [kind : {"add"}, at : {"insertNodes"}, sub : Pos, gen : Pos, size : 1 .. MaxNodes]
  \cup [kind : {"refresh"}, at : {"fetch"}, sub : Pos, gen : Pos, size : {0}]
  \cup [kind : {"refresh"}, at : {"deleteNodes", "insertNodes", "update"},
        sub : Pos, gen : Pos, size : 1 .. MaxNodes]
  \cup [kind : {"delete"}, at : {"deleteNodes", "deleteSub"},
        sub : Pos, gen : {0}, size : {0}]

TypeOK ==
  /\ DOMAIN subs \subseteq Pos /\ Range(subs) \subseteq Nat
  /\ nodes \subseteq Row
  /\ nextSub \in Pos /\ nextNode \in Pos
  /\ selected \in Nat
  /\ shown \in [ViewModel -> SUBSET Pos]
  /\ jobs \in [Job -> JobState]
  /\ busy \in [ViewModel -> BOOLEAN]
  /\ nextGen \in Pos
  /\ {picked, clicked} \subseteq Row \cup {NoRow}
  /\ torn \subseteq Pos /\ crossed \subseteq Pos
  /\ deletes \in 0 .. MaxDeletes /\ cuts \in 0 .. MaxCuts

Init ==
  /\ subs = [s \in {} |-> 0] /\ nodes = {} /\ nextSub = 1 /\ nextNode = 1
  /\ selected = 0 /\ picked = NoRow /\ clicked = NoRow
  /\ shown = [v \in ViewModel |-> {}]
  /\ jobs = [j \in Job |-> Idle] /\ busy = [v \in ViewModel |-> FALSE]
  /\ nextGen = 1
  /\ torn = {} /\ crossed = {}
  /\ deletes = 0 /\ cuts = 0

-----------------------------------------------------------------------------
(* Launching a job                                                         *)

Free(j) == jobs[j] = Idle
Launch(j, job) == Free(j) /\ jobs' = [jobs EXCEPT ![j] = job]

BugMayStart(v) == TRUE   \* "if (busy.value) return" is missing

MayStart(v) == ~busy[v]

\* a download gets its number, which is also the time of its success
Fetching(j, kind, s) ==
  /\ MayStart(Owner[j]) /\ nextGen <= MaxFetches
  /\ Launch(j, [kind |-> kind, at |-> "fetch", sub |-> s, gen |-> nextGen, size |-> 0])
  /\ nextGen' = nextGen + 1
  /\ busy' = [busy EXCEPT ![Owner[j]] = TRUE]

\* SubscriptionsViewModel.addSubscription with a well-formed http(s) URL.  (One
\* that is not http(s) is refused before anything happens.)
Add(j) ==
  /\ nextSub + Cardinality({k \in Job : jobs[k].kind = "add"}) <= MaxSubs
  /\ Fetching(j, "add", 0)
  /\ UNCHANGED <<tables, choice, shown, history, budget>>

\* SubscriptionsViewModel.refresh, with a row its screen has
Refresh(j) ==
  /\ \E s \in shown[Owner[j]] : Fetching(j, "refresh", s)
  /\ UNCHANGED <<tables, choice, shown, history, budget>>

\* SubscriptionsViewModel.delete: busy is not looked at
Delete(j) ==
  /\ deletes < MaxDeletes /\ deletes' = deletes + 1
  /\ \E s \in shown[Owner[j]] :
       Launch(j, [kind |-> "delete", at |-> "deleteNodes", sub |-> s, gen |-> 0, size |-> 0])
  /\ UNCHANGED <<tables, choice, shown, busy, nextGen, history, cuts>>

-----------------------------------------------------------------------------
(* The steps of a job                                                      *)

At(j, step) == jobs[j].at = step
Goto(j, step) == jobs' = [jobs EXCEPT ![j].at = step]
End(j) == jobs' = [jobs EXCEPT ![j] = Idle]

BugAfterFailure(v) == busy   \* busy.value = false outside of finally

AfterFailure(v) == [busy EXCEPT ![v] = FALSE]

\* The download, the HTTP status or the parser fails: a message, nothing else
FetchFails(j) ==
  /\ At(j, "fetch")
  /\ End(j)
  /\ busy' = AfterFailure(Owner[j])
  /\ UNCHANGED <<tables, choice, shown, nextGen, history, budget>>

BugAfterFetch(kind) == "deleteNodes"   \* an addition takes the path of a refresh

AfterFetch(kind) == IF kind = "add" THEN "insertSub" ELSE "deleteNodes"

\* Parsed, with at least one node
FetchSucceeds(j) ==
  /\ At(j, "fetch")
  /\ \E n \in 1 .. MaxNodes :
       jobs' = [jobs EXCEPT ![j].size = n, ![j].at = AfterFetch(jobs[j].kind)]
  /\ UNCHANGED <<tables, choice, shown, busy, nextGen, history, budget>>

\* subscriptionDao.insert
InsertSub(j) ==
  /\ At(j, "insertSub")
  /\ subs' = [s \in DOMAIN subs \cup {nextSub} |->
                IF s = nextSub THEN jobs[j].gen ELSE subs[s]]
  /\ nextSub' = nextSub + 1
  /\ jobs' = [jobs EXCEPT ![j].at = "insertNodes", ![j].sub = nextSub]
  /\ UNCHANGED <<nodes, nextNode, choice, shown, busy, nextGen, history, budget>>

Remaining(s) == {r \in nodes : r.sub # s}

\* Steps that leave the tables out of step until the job is over
HalfWay(job) ==
  \/ job.kind = "add" /\ job.at = "insertNodes"
  \/ job.kind = "refresh" /\ job.at \in {"insertNodes", "update"}
  \/ job.kind = "delete" /\ job.at = "deleteSub"

\* The other jobs that are half way at the subscription of j
Rivals(j) == {k \in Job \ {j} : HalfWay(jobs[k]) /\ jobs[k].sub = jobs[j].sub}

\* Without its nodes a subscription starts anew, unless a rival is at it.
Anew(S, j) == IF Rivals(j) = {} THEN S \ {jobs[j].sub} ELSE S

\* profileDao.deleteBySubscription
DeleteNodes(j) ==
  /\ At(j, "deleteNodes")
  /\ nodes' = Remaining(jobs[j].sub)
  /\ Goto(j, IF jobs[j].kind = "delete" THEN "deleteSub" ELSE "insertNodes")
  /\ torn' = Anew(torn, j)
  /\ crossed' = IF \E k \in Rivals(j) : Owner[k] # Owner[j] THEN crossed \cup {jobs[j].sub}
                                                          ELSE Anew(crossed, j)
  /\ UNCHANGED <<subs, nextSub, nextNode, choice, shown, busy, nextGen, budget>>

\* @PrimaryKey without autoGenerate: SQLite takes the largest id in use, plus 1
BugFirstId == 1 + (CHOOSE m \in 0 .. nextNode :
                     /\ m = 0 \/ \E r \in nodes : r.id = m
                     /\ \A r \in nodes : r.id <= m)

\* @PrimaryKey(autoGenerate = true): an id is never given out again
FirstId == nextNode

\* profileDao.insertAll: one transaction.  It does not ask whether the
\* subscription still exists; ProfileEntity has no foreign key.
InsertNodes(j) ==
  /\ At(j, "insertNodes")
  /\ LET job == jobs[j]
         ids == FirstId .. FirstId + job.size - 1
     IN /\ nodes' = nodes \cup {[id |-> i, sub |-> job.sub, gen |-> job.gen] : i \in ids}
        /\ nextNode' = FirstId + job.size
        /\ IF job.kind = "add"
           THEN End(j) /\ busy' = [busy EXCEPT ![Owner[j]] = FALSE]
           ELSE Goto(j, "update") /\ UNCHANGED busy
  /\ UNCHANGED <<subs, nextSub, choice, shown, nextGen, history, budget>>

BugStamped(s, g) == subs   \* subscriptionDao.update is missing

\* @Update: no row, no effect
Stamped(s, g) == [t \in DOMAIN subs |-> IF t = s THEN g ELSE subs[t]]

\* subscriptionDao.update(subscription.copy(lastUpdatedAt = now, ...)): the last
\* step of a refresh
Update(j) ==
  /\ At(j, "update")
  /\ subs' = Stamped(jobs[j].sub, jobs[j].gen)
  /\ End(j)
  /\ busy' = [busy EXCEPT ![Owner[j]] = FALSE]
  /\ UNCHANGED <<nodes, nextSub, nextNode, choice, shown, nextGen, history, budget>>

\* subscriptionDao.delete
DeleteSub(j) ==
  /\ At(j, "deleteSub")
  /\ subs' = [s \in DOMAIN subs \ {jobs[j].sub} |-> subs[s]]
  /\ End(j)
  /\ UNCHANGED <<nodes, nextSub, nextNode, choice, shown, busy, nextGen, history, budget>>

-----------------------------------------------------------------------------
(* The screens                                                             *)

\* The flow of the table reaches a view model, some time after the write
Show(v) ==
  /\ shown[v] # DOMAIN subs
  /\ shown' = [shown EXCEPT ![v] = DOMAIN subs]
  /\ UNCHANGED <<tables, choice, jobs, busy, nextGen, history, budget>>

\* ProfilesViewModel.onProfileClick with a row of the list ...
Click(r) ==
  /\ clicked = NoRow /\ r \in nodes /\ r # picked
  /\ clicked' = r
  /\ UNCHANGED <<tables, selected, picked, shown, jobs, busy, nextGen, history, budget>>

\* ... and setSelectedProfileId, when the row may be gone
Select ==
  /\ clicked # NoRow
  /\ selected' = clicked.id /\ picked' = clicked /\ clicked' = NoRow
  /\ UNCHANGED <<tables, shown, jobs, busy, nextGen, history, budget>>

\* Back navigation clears one view model and cancels its viewModelScope; the end of
\* the activity or of the process, which an exception no one catches brings about
\* too, clears all.  (fetch builds its Request outside of its try: "https://" alone
\* is such an exception.)  A view model that comes later starts from nothing.
Cut(V) ==
  /\ cuts < MaxCuts /\ cuts' = cuts + 1
  /\ torn' = torn \cup {jobs[j].sub : j \in {k \in Job : Owner[k] \in V /\ HalfWay(jobs[k])}}
  /\ jobs' = [j \in Job |-> IF Owner[j] \in V THEN Idle ELSE jobs[j]]
  /\ busy' = [v \in ViewModel |-> v \notin V /\ busy[v]]
  /\ shown' = [v \in ViewModel |-> IF v \in V THEN {} ELSE shown[v]]
  /\ clicked' \in {clicked, IF V = ViewModel THEN NoRow ELSE clicked}
  /\ UNCHANGED <<tables, selected, picked, nextGen, crossed, deletes>>

-----------------------------------------------------------------------------
Step(j) ==
  \/ FetchFails(j) \/ FetchSucceeds(j)
  \/ InsertSub(j) \/ DeleteNodes(j) \/ InsertNodes(j) \/ Update(j) \/ DeleteSub(j)

Next ==
  \/ \E j \in Job : Add(j) \/ Refresh(j) \/ Delete(j) \/ Step(j)
  \/ \E v \in ViewModel : Show(v) \/ Cut({v})
  \/ Cut(ViewModel)
  \/ \E r \in nodes : Click(r)
  \/ Select

Spec == Init /\ [][Next]_vars

\* The dispatchers run every coroutine.  A download ends: OkHttp cuts off a server
\* that falls silent, and one that never stops sending is left out.
FairSpec == Spec /\ \A j \in Job : WF_vars(Step(j))

-----------------------------------------------------------------------------
(* Properties                                                              *)

\* The stored selectedProfileId never comes to mean another node: as long as a
\* row with that id exists, it is the row the user clicked, however many
\* refreshes and deletions came between.  toggleConnection trusts the id.
SelectedNeverRetargets == \A r \in nodes : r.id = selected => r = picked

\* The nodes of a subscription all come from one download: two refreshes of it that one
\* view model starts never mix, not even when a deletion runs between their steps or
\* they are cut.  What jobs of two view models do to it at the same time
\* (subscriptions_mixed) lasts until its nodes are next deleted.
OneGeneration ==
  \A r1, r2 \in nodes : r1.sub = r2.sub /\ r1.sub \notin crossed => r1.gen = r2.gen

\* Between jobs, a subscription has nodes, and they are those of the download
\* that its lastUpdatedAt and traffic figures are about; a download that failed
\* has changed neither table.  (A job that was cut half way can leave a subscription
\* without nodes, torn; the next refresh of it that comes to its end mends that.  So it
\* does with one that two view models worked at together, crossed.)
Working(s) == \E j \in Job : HalfWay(jobs[j]) /\ jobs[j].sub = s
StampMatchesNodes ==
  \A s \in DOMAIN subs :
    ~Working(s) /\ s \notin torn \cup crossed =>
      {r.gen : r \in {n \in nodes : n.sub = s}} = {subs[s]}

\* The progress indicator of each view model ends.
BusyEnds == \A v \in ViewModel : busy[v] ~> ~busy[v]

-----------------------------------------------------------------------------
(* What the documents say and the code does not do                         *)

\* SubscriptionRepository.refreshSubscription: "download and parse again and replace the
\* nodes of this subscription".  When two refreshes of a subscription have both come to
\* its stamp, its nodes are those of one of them.  busy keeps them apart in one view model
\* only: those of two view models both delete before either inserts, and the
\* subscription has the nodes of both.
RefreshReplaces ==
  \A j, k \in Job :
    j # k /\ At(j, "update") /\ At(k, "update") /\ jobs[j].sub = jobs[k].sub =>
      \A r1, r2 \in nodes : r1.sub = jobs[j].sub /\ r2.sub = r1.sub => r1.gen = r2.gen
=============================================================================
