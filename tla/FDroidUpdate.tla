---------------------------- MODULE FDroidUpdate ----------------------------
(***************************************************************************)
(* libbox's CheckFDroidUpdate: asks a mirror for a version of the app above*)
(* the installed one, and keeps a cache file that lets the next check be   *)
(* answered with "nothing new" at once.                                    *)
(*                                                                         *)
(* A repository has numbered editions; a version of the app has the number *)
(* of the edition that adds it.  The number of an edition stands for the   *)
(* timestamp of entry.json and for the ETag, where the mirror sends one;   *)
(* 0 is none.  A check is split at each request, and before its answer.    *)
(***************************************************************************)
EXTENDS Integers, FiniteSets

CONSTANTS
  Checker,     \* checks that may run at a time
  Mirror,      \* repositories that are asked for their index
  Official,    \* mirrors of f-droid.org, which are asked through its API
  Editions,    \* bound
  MaxDeaths    \* bound: deaths of the process

VARIABLES
  added,       \* the editions that add a version of the app
  edition,     \* [Mirror -> the edition it has]
  sendsETag,   \* [Mirror -> BOOLEAN]
  hasEntry,    \* [Mirror -> BOOLEAN]: entry.jar is there (an index of version 2)
  cache,       \* fdroid_cache.json
  check,       \* [Checker -> the check under way]
  current,     \* the installed version
  told,        \* the best version that the app was told of
  unheard,     \* observability: the best one in an answer that never arrived
  deaths

mirrors == <<added, edition, sendsETag, hasEntry>>
app     == <<current, told, unheard, deaths>>
vars    == <<mirrors, cache, check, app>>

Version == 0 .. Editions

\* A missing, torn or foreign cache file is no cache
NoCache == [mirror |-> "", timestamp |-> 0, etag |-> 0, isV1 |-> FALSE]
Caches  == {NoCache} \cup
  [mirror : Mirror, timestamp : Version, etag : Version, isV1 : BOOLEAN]

Idle == [at |-> "idle", mirror |-> "", cache |-> NoCache, above |-> 0, entry |-> 0,
         best |-> 0]

TypeOK ==
  /\ added \subseteq 1 .. Editions
  /\ edition \in [Mirror -> 1 .. Editions]
  /\ {sendsETag, hasEntry} \subseteq [Mirror -> BOOLEAN]
  /\ cache \in Caches
  /\ check \in [Checker -> {Idle} \cup
       [at : {"entry", "index", "v1", "api", "answer"}, mirror : Mirror \cup Official, cache : Caches,
        above : Version, entry : Version, best : Version]]
  /\ {current, told, unheard} \subseteq Version
  /\ deaths \in 0 .. MaxDeaths

Init ==
  /\ added \in SUBSET (1 .. Editions)
  /\ edition = [m \in Mirror |-> 1]
  /\ sendsETag \in [Mirror -> BOOLEAN] /\ hasEntry \in [Mirror -> BOOLEAN]
  /\ cache = NoCache
  /\ check = [c \in Checker |-> Idle]
  /\ current = 0 /\ told = 0 /\ unheard = 0 /\ deaths = 0

-----------------------------------------------------------------------------
Greatest(v, S) == v \in S /\ \A w \in S : w <= v

\* what the whole index of edition e offers, and what a diff up to it does
Full(e) == added \cap 1 .. e
Diff(old, e) == Full(e) \ Full(old)

\* the best version above the installed one; 0 = no update
IsBest(best, offered, above) == Greatest(best, {0} \cup {v \in offered : v > above})

ETag(m, e) == IF sendsETag[m] THEN e ELSE 0

\* loadFDroidCache: of this mirror, or none
Loaded(m) == IF cache.mirror = m THEN cache ELSE NoCache

\* writeFDroidCache: a failure is ignored, and may leave the old file or a torn one
Written(m, timestamp, etag, isV1) ==
  cache' \in {cache, NoCache,
              [mirror |-> m, timestamp |-> timestamp, etag |-> etag, isV1 |-> isV1]}

At(c, step) == check[c].at = step
Ends(c) == check' = [check EXCEPT ![c] = Idle]

-----------------------------------------------------------------------------
\* CheckFDroidUpdate: the API, version 1 if this mirror once had no entry.jar, or version 2
Check(c, m) ==
  /\ At(c, "idle")
  /\ LET api  == m \in Official
         file == IF api THEN NoCache ELSE Loaded(m)
     IN check' = [check EXCEPT ![c] =
          [at |-> IF api THEN "api" ELSE IF file.isV1 THEN "v1" ELSE "entry",
           mirror |-> m, cache |-> file, above |-> current, entry |-> 0, best |-> 0]]
  /\ UNCHANGED <<mirrors, cache, app>>

\* A request fails, or what it brings cannot be read (an entry.jar without entry.json too)
Fails(c) ==
  /\ check[c].at \in {"entry", "index", "v1", "api"}
  /\ Ends(c)
  /\ UNCHANGED <<mirrors, cache, app>>

Found(c, offered) ==
  \E best \in Version :
    /\ IsBest(best, offered, check[c].above)
    /\ check' = [check EXCEPT ![c] = [@ EXCEPT !.at = "answer", !.best = best]]

Unheard(S) == \E u \in Version : Greatest(u, {unheard} \cup S) /\ unheard' = u

\* f-droid.org has no cache, and some edition
ReadAPI(c) ==
  /\ At(c, "api")
  /\ \E e \in 1 .. Editions : Found(c, Full(e))
  /\ UNCHANGED <<mirrors, cache, app>>

\* 304: the ETag says that nothing changed
NotModified(c) ==
  LET m == check[c].mirror IN
  /\ \/ At(c, "entry") /\ hasEntry[m]
     \/ At(c, "v1")
  /\ check[c].cache.etag # 0 /\ check[c].cache.etag = ETag(m, edition[m])
  /\ Ends(c)
  /\ UNCHANGED <<mirrors, cache, app>>

\* 404: the mirror has version 1, now and for all later checks
NoEntry(c) ==
  /\ At(c, "entry") /\ ~hasEntry[check[c].mirror]
  /\ Written(check[c].mirror, 0, 0, TRUE)
  /\ check' = [check EXCEPT ![c] = [@ EXCEPT !.at = "v1", !.cache = NoCache]]
  /\ UNCHANGED <<mirrors, app>>

BugCacheAtEntry(m, e) == Written(m, e, ETag(m, e), FALSE)   \* before the index was read

CacheAtEntry(m, e) == UNCHANGED cache

\* entry.jar: the timestamp is the cached one, or the index has to be read
ReadEntry(c) ==
  LET m == check[c].mirror  e == edition[m] IN
  /\ At(c, "entry") /\ hasEntry[m]
  /\ check[c].cache.etag = 0 \/ check[c].cache.etag # ETag(m, e)
  /\ IF check[c].cache.timestamp = e
     THEN Ends(c) /\ Written(m, e, ETag(m, e), FALSE)
     ELSE /\ check' = [check EXCEPT ![c] = [@ EXCEPT !.at = "index", !.entry = e]]
          /\ CacheAtEntry(m, e)
  /\ UNCHANGED <<mirrors, app>>

\* The diff from the cached timestamp, if the mirror still has one, or the whole index;
\* either is of the mirror's edition by now.  The cache is written before the app hears.
ReadIndex(c) ==
  LET m == check[c].mirror  old == check[c].cache.timestamp IN
  /\ At(c, "index")
  /\ \/ Found(c, Full(edition[m]))
     \/ old # 0 /\ Found(c, Diff(old, edition[m]))
  /\ Written(m, check[c].entry, ETag(m, check[c].entry), FALSE)
  /\ UNCHANGED <<mirrors, app>>

\* index-v1.jar: one without index-v1.json counts as an index of nothing
ReadV1(c) ==
  LET m == check[c].mirror  e == edition[m] IN
  /\ At(c, "v1")
  /\ check[c].cache.etag = 0 \/ check[c].cache.etag # ETag(m, e)
  /\ \/ Found(c, Full(e)) /\ UNCHANGED unheard
     \/ Found(c, {}) /\ Unheard(Full(e))
  /\ Written(m, 0, ETag(m, e), TRUE)
  /\ UNCHANGED <<mirrors, current, told, deaths>>

Answer(c) ==
  /\ At(c, "answer")
  /\ told' = IF check[c].best > told THEN check[c].best ELSE told
  /\ Ends(c)
  /\ UNCHANGED <<mirrors, cache, current, unheard, deaths>>

-----------------------------------------------------------------------------
\* The user installs what the app was told of; a mirror moves on, or begins to have an
\* entry.jar; the process dies, and the answers under way with it.
Install ==
  /\ current < told /\ current' = told
  /\ UNCHANGED <<mirrors, cache, check, told, unheard, deaths>>

Publish(m) ==
  /\ edition[m] < Editions /\ edition' = [edition EXCEPT ![m] = @ + 1]
  /\ UNCHANGED <<added, sendsETag, hasEntry, cache, check, app>>

AddEntry(m) ==
  /\ ~hasEntry[m] /\ hasEntry' = [hasEntry EXCEPT ![m] = TRUE]
  /\ UNCHANGED <<added, edition, sendsETag, cache, check, app>>

Die ==
  /\ deaths < MaxDeaths /\ deaths' = deaths + 1
  /\ check' = [c \in Checker |-> Idle]
  /\ Unheard({check[c].best : c \in Checker})
  /\ UNCHANGED <<mirrors, cache, current, told>>

Next ==
  \/ \E c \in Checker :
       \/ \E m \in Mirror \cup Official : Check(c, m)
       \/ Fails(c) \/ ReadAPI(c) \/ NotModified(c) \/ NoEntry(c)
       \/ ReadEntry(c) \/ ReadIndex(c) \/ ReadV1(c) \/ Answer(c)
  \/ \E m \in Mirror : Publish(m) \/ AddEntry(m)
  \/ Install \/ Die

Spec == Init /\ [][Next]_vars

-----------------------------------------------------------------------------
(* Properties                                                              *)

\* The edition whose index a cache says to know
Knows(file) == IF file.isV1 THEN file.etag ELSE file.timestamp

\* The app has heard of a version that good, is about to, or the answer was lost
Covered(v) ==
  \/ v <= current \/ v <= told \/ v <= unheard
  \/ \E c \in Checker : v <= check[c].best

\* A cache withholds no update: checks that it cuts short keep quiet about versions the app
\* was told of, or would have been but for a death of the process between the write of the
\* cache and the answer, or for a jar without an index.
NothingWithheld == \A v \in Full(Knows(cache)) : Covered(v)
=============================================================================
