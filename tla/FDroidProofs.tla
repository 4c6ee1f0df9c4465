---------------------------- MODULE FDroidProofs ----------------------------
(* What holds of FDroidUpdate for every number of checks, mirrors and       *)
(* editions.                                                                *)
EXTENDS FDroidUpdate, TLAPS

CacheShape == [mirror : Mirror \cup {""}, timestamp : Int, etag : Int, isV1 : BOOLEAN]
CheckShape ==
  [at : {"idle", "entry", "index", "v1", "api", "answer"},
   mirror : Mirror \cup Official \cup {""}, cache : CacheShape,
   above : Int, entry : Int, best : Int]

\* A check that reads an index asks a mirror that has at least the edition of the entry; it
\* has no best version before its answer, and asks for what is newer than it was installed
Shapes ==
  /\ added \subseteq Nat \ {0} /\ edition \in [Mirror -> Int]
  /\ cache \in CacheShape /\ check \in [Checker -> CheckShape]
  /\ current \in Nat /\ told \in Nat /\ unheard \in Nat
  /\ \A c \in Checker :
       /\ check[c].above <= current
       /\ check[c].at # "answer" => check[c].best = 0
       /\ check[c].at \in {"entry", "index", "v1"} => check[c].mirror \in Mirror
       /\ check[c].at \in {"entry", "index"} => ~check[c].cache.isV1
       /\ check[c].at = "index" => check[c].entry <= edition[check[c].mirror]

\* The versions that the app has heard of, or could have
Told == {v \in added : Covered(v)}

CacheInv ==
  /\ Shapes
  /\ Full(Knows(cache)) \subseteq Told
  /\ \A c \in Checker : Full(Knows(check[c].cache)) \subseteq Told

\* A check that moves on keeps its best version, until the app was told, and tells no less.
LEMMA CheckMoves ==
  ASSUME Shapes, NEW c \in Checker, NEW k \in CheckShape, k.above <= current,
         k.at # "answer" => k.best = 0,
         k.at \in {"entry", "index", "v1"} => k.mirror \in Mirror,
         k.at \in {"entry", "index"} => ~k.cache.isV1,
         k.at = "index" => k.entry <= edition[k.mirror],
         check' = [check EXCEPT ![c] = k],
         UNCHANGED mirrors, UNCHANGED current, cache' \in CacheShape,
         told' \in Nat, unheard' \in Nat, told <= told', unheard <= unheard',
         check[c].best <= k.best \/ check[c].best <= told'
  PROVE  Shapes' /\ Told \subseteq Told'
<1>1. \A d \in Checker : check'[d] = IF d = c THEN k ELSE check[d]
  BY DEF Shapes
<1>2. Shapes'
  <2>1. check' \in [Checker -> CheckShape]
    BY DEF Shapes
  <2>2. \A d \in Checker :
          /\ check'[d].above <= current
          /\ check'[d].at # "answer" => check'[d].best = 0
          /\ check'[d].at \in {"entry", "index", "v1"} => check'[d].mirror \in Mirror
          /\ check'[d].at \in {"entry", "index"} => ~check'[d].cache.isV1
          /\ check'[d].at = "index" => check'[d].entry <= edition[check'[d].mirror]
    BY <1>1 DEF Shapes
  <2> QED
    BY <2>1, <2>2 DEF Shapes, mirrors
<1>3. ASSUME NEW v \in added, Covered(v) PROVE v \in Told'
  <2>1. v \in Nat
    BY DEF Shapes
  <2>2. v \in added'
    BY DEF mirrors
  <2>3. CASE v <= current \/ v <= told \/ v <= unheard
    BY <2>1, <2>2, <2>3 DEF Told, Covered, Shapes
  <2>4. ASSUME NEW d \in Checker, v <= check[d].best PROVE v \in Told'
    <3>1. check[d].best \in Int /\ k.best \in Int
      BY DEF Shapes, CheckShape
    <3> QED
      BY <1>1, <2>1, <2>2, <2>4, <3>1 DEF Told, Covered
  <2> QED
    BY <1>3, <2>3, <2>4 DEF Covered
<1> QED
  BY <1>2, <1>3 DEF Told

\* Every step of a check keeps the caches harmless.
LEMMA CheckKeeps ==
  ASSUME CacheInv, NEW c \in Checker,
         \/ \E m \in Mirror \cup Official : Check(c, m)
         \/ Fails(c) \/ ReadAPI(c) \/ NotModified(c) \/ NoEntry(c)
         \/ ReadEntry(c) \/ ReadIndex(c) \/ ReadV1(c) \/ Answer(c)
  PROVE  CacheInv'
<1> DEFINE old == check[c]
           m == old.mirror
           e == edition[old.mirror]
           Move(k) == /\ k \in CheckShape /\ k.above <= current
                      /\ k.at # "answer" => k.best = 0
                      /\ k.at \in {"entry", "index", "v1"} => k.mirror \in Mirror
                      /\ k.at \in {"entry", "index"} => ~k.cache.isV1
                      /\ k.at = "index" => k.entry <= edition[k.mirror]
                      /\ check' = [check EXCEPT ![c] = k]
                      /\ Full(Knows(k.cache)) \subseteq Told
<1>0. Shapes /\ old \in CheckShape
  BY DEF CacheInv, Shapes
<1>1. NoCache \in CacheShape /\ Idle \in CheckShape /\ cache \in CacheShape
  <2>1. NoCache \in CacheShape
    BY DEF CacheShape, NoCache
  <2>2. Idle \in CheckShape
    BY <2>1 DEF CheckShape, Idle
  <2> QED
    BY <1>0, <2>1, <2>2 DEF Shapes
<1>2. Full(0) = {}
  BY <1>0 DEF Full, Shapes
<1>3. Full(Knows(NoCache)) \subseteq Told
  BY <1>2 DEF Knows, NoCache
<1>4. Full(Knows(cache)) \subseteq Told /\ Full(Knows(old.cache)) \subseteq Told
  BY DEF CacheInv
\* what each step has to show: how it moves, what it writes, and that it tells no less
<1>5. ASSUME NEW k, Move(k), UNCHANGED mirrors, UNCHANGED current,
             told' \in Nat, unheard' \in Nat, told <= told', unheard <= unheard',
             old.best <= k.best \/ old.best <= told',
             cache' \in CacheShape,
             Told \subseteq Told' => Full(Knows(cache')) \subseteq Told'
      PROVE  CacheInv'
  <2>1. Shapes' /\ Told \subseteq Told'
    BY <1>0, <1>5, CheckMoves
  <2>2. \A d \in Checker : check'[d] = IF d = c THEN k ELSE check[d]
    BY <1>0, <1>5 DEF Shapes
  <2>3. \A d \in Checker : Full(Knows(check'[d].cache)) \subseteq Told'
    BY <1>5, <2>1, <2>2 DEF CacheInv
  <2>4. \A n : Full(n)' = Full(n)
    BY <1>5 DEF Full, mirrors
  <2> QED
    BY <1>5, <2>1, <2>3, <2>4 DEF CacheInv, Full, Knows, mirrors
<1>6. ASSUME NEW file \in CacheShape, cache' \in {cache, NoCache, file},
             Told \subseteq Told' => Full(Knows(file)) \subseteq Told'
      PROVE  /\ cache' \in CacheShape
             /\ Told \subseteq Told' => Full(Knows(cache')) \subseteq Told'
  <2>1. CASE cache' = cache \/ cache' = NoCache
    BY <1>1, <1>3, <1>4, <2>1
  <2>2. CASE cache' = file
    BY <1>6, <2>2
  <2> QED
    BY <1>6, <2>1, <2>2
\* a step that leaves the cache file and the app alone
<1>7. ASSUME NEW k, Move(k), UNCHANGED <<mirrors, cache, app>>, old.best <= k.best
      PROVE  CacheInv'
  <2>1. UNCHANGED mirrors /\ UNCHANGED current /\ told' = told /\ unheard' = unheard
        /\ cache' = cache
    BY <1>7 DEF app
  <2>2. /\ told' \in Nat /\ unheard' \in Nat /\ told <= told' /\ unheard <= unheard'
        /\ cache' \in CacheShape
        /\ Told \subseteq Told' => Full(Knows(cache')) \subseteq Told'
    BY <1>0, <1>1, <1>4, <2>1 DEF Shapes
  <2> QED
    BY <1>5, <1>7, <2>1, <2>2
<1>8. ASSUME Ends(c) PROVE Move(Idle)
  <2>1. /\ Idle.at = "idle" /\ Idle.above = 0 /\ Idle.best = 0 /\ Idle.cache = NoCache
    BY DEF Idle
  <2> QED
    BY <1>0, <1>1, <1>3, <1>8, <2>1 DEF Ends, Shapes
\* what a check keeps when only its step, its best version, its entry or its cache changes
<1>9. /\ old.above <= current /\ old.best \in Int /\ old.entry \in Int
      /\ old.cache \in CacheShape
      /\ old.at # "answer" => old.best = 0
      /\ old.at \in {"entry", "index", "v1"} => m \in Mirror /\ e \in Int
      /\ old.at \in {"entry", "index"} => ~old.cache.isV1
      /\ old.at = "index" => old.entry <= e
  BY <1>0 DEF Shapes, CheckShape
<1>10. ASSUME NEW n \in Mirror \cup Official, Check(c, n) PROVE CacheInv'
  <2> DEFINE api   == n \in Official
             file  == IF api THEN NoCache ELSE Loaded(n)
             at    == IF api THEN "api" ELSE IF file.isV1 THEN "v1" ELSE "entry"
             moved == [at |-> at, mirror |-> n, cache |-> file, above |-> current,
                       entry |-> 0, best |-> 0]
  <2>1. check' = [check EXCEPT ![c] = moved] /\ UNCHANGED <<mirrors, cache, app>>
    BY <1>10 DEF Check
  <2>2. file \in CacheShape /\ Full(Knows(file)) \subseteq Told
    BY <1>1, <1>3, <1>4 DEF Loaded
  <2>3. at \in {"api", "v1", "entry"} /\ (at # "api" => n \in Mirror)
        /\ (at = "entry" => ~file.isV1)
    BY <1>10
  <2>4. old.best = 0 /\ current \in Nat
    BY <1>0, <1>9, <1>10 DEF Check, At, Shapes
  <2> HIDE DEF at, file
  <2>5. moved \in CheckShape
    <3>1. n \in Mirror \cup Official \cup {""}
      BY <1>10, Zenon
    <3>2. at \in {"idle", "entry", "index", "v1", "api", "answer"}
      BY <2>3
    <3>3. 0 \in Int /\ current \in Int
      BY <2>4
    <3> QED
      BY <2>2, <3>1, <3>2, <3>3 DEF CheckShape
  <2>6. Move(moved) /\ moved.best = 0
    BY <2>1, <2>2, <2>3, <2>4, <2>5
  <2> HIDE DEF moved
  <2>7. old.best <= moved.best
    BY <2>4, <2>6
  <2> QED
    BY <1>7, <2>1, <2>6, <2>7
<1>11. ASSUME Fails(c) \/ NotModified(c) PROVE CacheInv'
  <2>1. Ends(c) /\ old.best = 0 /\ UNCHANGED <<mirrors, cache, app>>
    BY <1>9, <1>11 DEF Fails, NotModified, At
  <2>2. Idle.best = 0
    BY DEF Idle
  <2> QED
    BY <1>7, <1>8, <2>1, <2>2
\* a check that has found the best version of what it was offered
\* a check that has found the best version of what it was offered
<1>12. ASSUME NEW S, S \subseteq added, Found(c, S), old.at \in {"entry", "index", "v1", "api"}
       PROVE  \E k \in CheckShape :
                /\ Move(k) /\ old.best <= k.best
                /\ \A v \in S : v <= current \/ v <= k.best
  <2>1. PICK best \in Version :
          /\ IsBest(best, S, old.above)
          /\ check' = [check EXCEPT ![c] = [old EXCEPT !.at = "answer", !.best = best]]
    BY <1>12 DEF Found
  <2> DEFINE moved == [old EXCEPT !.at = "answer", !.best = best]
  <2>2. best \in Int /\ 0 <= best
    BY <2>1 DEF IsBest, Greatest, Version
  <2>3. moved \in CheckShape /\ moved.best = best /\ moved.at = "answer"
        /\ moved.above = old.above /\ moved.cache = old.cache
    BY <1>0, <2>2 DEF CheckShape
  <2>4. ASSUME NEW v \in S PROVE v <= current \/ v <= best
    <3>1. v \in Nat /\ old.above \in Int /\ current \in Nat
      BY <1>0, <1>12 DEF Shapes, CheckShape
    <3> QED
      BY <1>9, <2>1, <3>1 DEF IsBest, Greatest
  <2>5. Move(moved)
    BY <1>4, <1>9, <2>1, <2>3
  <2> HIDE DEF moved
  <2>6. old.best <= moved.best
    BY <1>9, <1>12, <2>2, <2>3
  <2>7. \A v \in S : v <= current \/ v <= moved.best
    BY <2>3, <2>4
  <2> QED
    BY <2>3, <2>5, <2>6, <2>7
<1>13. ASSUME ReadAPI(c) PROVE CacheInv'
  <2>1. PICK n \in 1 .. Editions : Found(c, Full(n))
    BY <1>13 DEF ReadAPI
  <2>2. Full(n) \subseteq added /\ old.at = "api" /\ UNCHANGED <<mirrors, cache, app>>
    BY <1>13 DEF ReadAPI, At, Full
  <2>3. PICK k \in CheckShape : Move(k) /\ old.best <= k.best
    BY <1>12, <2>1, <2>2
  <2> QED
    BY <1>7, <2>2, <2>3
<1>14. ASSUME Answer(c) PROVE CacheInv'
  <2>1. Ends(c) /\ UNCHANGED <<mirrors, cache, current, unheard>>
        /\ told' = IF old.best > told THEN old.best ELSE told
    BY <1>14 DEF Answer
  <2>2. told' \in Nat /\ told <= told' /\ old.best <= told' /\ unheard' \in Nat
        /\ unheard <= unheard'
    BY <1>0, <1>9, <2>1 DEF Shapes
  <2>3. cache' \in CacheShape /\ (Told \subseteq Told' => Full(Knows(cache')) \subseteq Told')
    BY <1>1, <1>4, <2>1
  <2>4. Move(Idle)
    BY <1>8, <2>1
  <2> HIDE DEF Move
  <2> QED
    BY <1>5, <2>1, <2>2, <2>3, <2>4
\* a step that asks the mirror: what it may write, and what is left as it is
<1>15. ASSUME NoEntry(c) \/ ReadEntry(c) \/ ReadIndex(c) PROVE
         /\ m \in Mirror /\ e \in Int /\ ETag(m, e) \in Int /\ ETag(m, old.entry) \in Int
         /\ old.at \in {"entry", "index"} /\ old.best = 0
         /\ UNCHANGED mirrors /\ UNCHANGED current
         /\ told' \in Nat /\ unheard' \in Nat /\ told <= told' /\ unheard <= unheard'
  <2>1. old.at \in {"entry", "index"} /\ UNCHANGED <<mirrors, app>>
    BY <1>15 DEF NoEntry, ReadEntry, ReadIndex, At
  <2>2. told' = told /\ unheard' = unheard /\ current' = current
    BY <2>1 DEF app
  <2> QED
    BY <1>0, <1>9, <2>1, <2>2 DEF ETag, Shapes
\* a cache of this mirror
<1>c. ASSUME m \in Mirror, NEW t \in Int, NEW g \in Int, NEW v \in BOOLEAN
      PROVE  [mirror |-> m, timestamp |-> t, etag |-> g, isV1 |-> v] \in CacheShape
  <2>1. m \in Mirror \cup {""}
    BY <1>c, Zenon
  <2> HIDE DEF m
  <2> QED
    BY <1>c, <2>1 DEF CacheShape
<1>16. ASSUME NoEntry(c) PROVE CacheInv'
  <2> DEFINE moved == [old EXCEPT !.at = "v1", !.cache = NoCache]
  <2> DEFINE file == [mirror |-> m, timestamp |-> 0, etag |-> 0, isV1 |-> TRUE]
  <2>1. check' = [check EXCEPT ![c] = moved] /\ cache' \in {cache, NoCache, file}
    BY <1>16 DEF NoEntry, Written
  <2>2. moved \in CheckShape /\ moved.at = "v1" /\ moved.cache = NoCache
        /\ moved.mirror = m /\ moved.above = old.above /\ moved.best = old.best
    BY <1>0, <1>1 DEF CheckShape
  <2>3. Move(moved) /\ old.best <= moved.best
    BY <1>3, <1>9, <1>15, <1>16, <2>1, <2>2
  <2>4. /\ cache' \in CacheShape
        /\ Told \subseteq Told' => Full(Knows(cache')) \subseteq Told'
    <3>0. m \in Mirror /\ 0 \in Int
      BY <1>15, <1>16
    <3>1. file \in CacheShape
      BY <1>c, <3>0, Zenon
    <3>2. Knows(file) = 0
      BY DEF Knows
    <3> QED
      BY <1>2, <1>6, <2>1, <3>1, <3>2
  <2> HIDE DEF moved, Move
  <2> QED
    BY <1>5, <1>15, <1>16, <2>3, <2>4
<1>17. ASSUME ReadEntry(c) PROVE CacheInv'
  <2>0. old.at = "entry" /\ ~old.cache.isV1
    BY <1>9, <1>17 DEF ReadEntry, At
  <2>1. CASE old.cache.timestamp = e
    <3> DEFINE file == [mirror |-> m, timestamp |-> e, etag |-> ETag(m, e), isV1 |-> FALSE]
    <3>0. file \in CacheShape /\ Knows(file) = e
      BY <1>15, <1>17, <1>c DEF Knows
    <3>1. Ends(c) /\ cache' \in {cache, NoCache, file}
      BY <1>17, <2>1 DEF ReadEntry, Written
    <3>2. Full(e) \subseteq Told
      BY <1>4, <2>0, <2>1 DEF Knows
    <3>3. /\ cache' \in CacheShape
          /\ Told \subseteq Told' => Full(Knows(cache')) \subseteq Told'
      BY <1>6, <3>0, <3>1, <3>2
    <3>4. Move(Idle) /\ old.best <= Idle.best
      <4>1. Idle.best = 0
        BY DEF Idle
      <4> QED
        BY <1>8, <1>15, <1>17, <3>1, <4>1
    <3> HIDE DEF Move
    <3> QED
      BY <1>5, <1>15, <1>17, <3>3, <3>4
  <2>2. CASE old.cache.timestamp # e
    <3> DEFINE moved == [old EXCEPT !.at = "index", !.entry = e]
    <3>1. check' = [check EXCEPT ![c] = moved] /\ cache' = cache
      BY <1>17, <2>2 DEF ReadEntry, CacheAtEntry
    <3>2. moved \in CheckShape /\ moved.at = "index" /\ moved.cache = old.cache
          /\ moved.mirror = m /\ moved.above = old.above /\ moved.best = old.best
          /\ moved.entry = e
      BY <1>0, <1>15, <1>17 DEF CheckShape
    <3>3. Move(moved) /\ old.best <= moved.best
      BY <1>4, <1>9, <1>15, <1>17, <2>0, <3>1, <3>2
    <3>4. /\ cache' \in CacheShape
          /\ Told \subseteq Told' => Full(Knows(cache')) \subseteq Told'
      BY <1>1, <1>4, <3>1
    <3> HIDE DEF moved, Move
    <3> QED
      BY <1>5, <1>15, <1>17, <3>3, <3>4
  <2> QED
    BY <2>1, <2>2
<1>18. ASSUME ReadIndex(c) PROVE CacheInv'
  <2> DEFINE old_t == old.cache.timestamp
             file  == [mirror |-> m, timestamp |-> old.entry, etag |-> ETag(m, old.entry),
                       isV1 |-> FALSE]
  <2>1. PICK S : /\ S \in {Full(e), Full(e) \ Full(old_t)} /\ Found(c, S)
                 /\ cache' \in {cache, NoCache, file}
    BY <1>18 DEF ReadIndex, Written, Diff
  <2>2. /\ old.at = "index" /\ ~old.cache.isV1 /\ old.entry <= e /\ old.entry \in Int
        /\ m \in Mirror /\ e \in Int /\ old.best = 0
    BY <1>9, <1>15, <1>18 DEF ReadIndex, At
  <2>3. S \subseteq added /\ S \subseteq Full(e)
    BY <2>1 DEF Full
  <2>4. PICK k \in CheckShape :
          Move(k) /\ old.best <= k.best /\ \A v \in S : v <= current \/ v <= k.best
    BY <1>12, <2>1, <2>2, <2>3
  <2>5. \A d \in Checker : check'[d] = IF d = c THEN k ELSE check[d]
    BY <1>0, <2>4 DEF Shapes
  <2>6. ASSUME NEW v \in S PROVE v \in Told'
    <3>1. v \in added' /\ current' = current
      BY <1>15, <1>18, <2>3, <2>6 DEF mirrors
    <3>2. v <= current' \/ v <= check'[c].best
      BY <2>4, <2>5, <2>6, <3>1
    <3> QED
      BY <3>1, <3>2 DEF Told, Covered
  <2>7. Full(old_t) \subseteq Told
    BY <1>4, <2>2 DEF Knows
  <2>8. Full(old.entry) \subseteq Full(e)
    BY <1>0, <2>2 DEF Full, Shapes
  <2>9. Told \subseteq Told' => Full(old.entry) \subseteq Told'
    BY <2>1, <2>6, <2>7, <2>8
  <2>10. file \in CacheShape /\ Knows(file) = old.entry
    <3>1. file \in CacheShape
      BY <1>15, <1>18, <2>2, <1>c
    <3> QED
      BY <3>1 DEF Knows
  <2>11. /\ cache' \in CacheShape
         /\ Told \subseteq Told' => Full(Knows(cache')) \subseteq Told'
    BY <1>6, <2>1, <2>9, <2>10
  <2> HIDE DEF Move
  <2> QED
    BY <1>5, <1>15, <1>18, <2>4, <2>11
<1>19. ASSUME ReadV1(c) PROVE CacheInv'
  <2> DEFINE file == [mirror |-> m, timestamp |-> 0, etag |-> ETag(m, e), isV1 |-> TRUE]
  <2>1. /\ old.at = "v1" /\ UNCHANGED <<mirrors, current, told>>
        /\ cache' \in {cache, NoCache, file}
    BY <1>19 DEF ReadV1, At, Written
  <2>2. m \in Mirror /\ e \in Int /\ old.best = 0 /\ ETag(m, e) \in {0, e}
    BY <1>9, <2>1 DEF ETag
  <2>3. PICK S : /\ S \subseteq Full(e) /\ Found(c, S)
                 /\ \/ S = Full(e) /\ unheard' = unheard
                    \/ Unheard(Full(e))
    <3>1. CASE Found(c, Full(e)) /\ UNCHANGED unheard
      BY <3>1
    <3>2. CASE Found(c, {}) /\ Unheard(Full(e))
      BY <3>2
    <3> QED
      BY <1>19, <3>1, <3>2 DEF ReadV1
  <2>4. unheard' \in Nat /\ unheard <= unheard' /\ told' \in Nat /\ told <= told'
        /\ (S = Full(e) \/ \A v \in Full(e) : v <= unheard')
    <3>1. Full(e) \subseteq Nat /\ unheard \in Nat /\ told \in Nat
      BY <1>0 DEF Full, Shapes
    <3>2. CASE S = Full(e) /\ unheard' = unheard
      BY <2>1, <3>1, <3>2
    <3>3. ASSUME Unheard(Full(e)) PROVE unheard' \in {unheard} \cup Full(e)
                                       /\ \A v \in {unheard} \cup Full(e) : v <= unheard'
      BY <3>3 DEF Unheard, Greatest
    <3> QED
      BY <2>1, <2>3, <3>1, <3>2, <3>3
  <2>5. PICK k \in CheckShape :
          Move(k) /\ old.best <= k.best /\ \A v \in S : v <= current \/ v <= k.best
    BY <1>12, <2>1, <2>3 DEF Full
  <2>6. \A d \in Checker : check'[d] = IF d = c THEN k ELSE check[d]
    BY <1>0, <2>5 DEF Shapes
  <2>7. ASSUME NEW v \in Full(e) PROVE v \in Told'
    <3>1. v \in added' /\ current' = current
      BY <2>1, <2>7 DEF mirrors, Full
    <3>2. v <= current' \/ v <= check'[c].best \/ v <= unheard'
      BY <2>4, <2>5, <2>6, <2>7, <3>1
    <3> QED
      BY <3>1, <3>2 DEF Told, Covered
  <2>8. file \in CacheShape /\ Full(Knows(file)) \subseteq Full(e)
    <3>1. ETag(m, e) \in Int /\ 0 \in Int
      BY <2>2
    <3>2. file \in CacheShape
      BY <1>c, <2>2, <3>1
    <3>3. Knows(file) = ETag(m, e)
      BY DEF Knows
    <3> QED
      BY <1>2, <2>2, <3>2, <3>3
  <2>9. /\ cache' \in CacheShape
        /\ Told \subseteq Told' => Full(Knows(cache')) \subseteq Told'
    BY <1>6, <2>1, <2>7, <2>8
  <2> HIDE DEF Move
  <2> QED
    BY <1>5, <2>1, <2>4, <2>5, <2>9
<1> QED
  BY <1>10, <1>11, <1>13, <1>14, <1>16, <1>17, <1>18, <1>19

\* So does what the user, the mirrors and the system do: a check that dies with its answer
\* leaves the version it had found to `unheard`.
LEMMA WorldKeeps ==
  ASSUME CacheInv, (\E m \in Mirror : Publish(m) \/ AddEntry(m)) \/ Install \/ Die
  PROVE  CacheInv'
<1>1. Shapes
  BY DEF CacheInv
<1>2. ASSUME NEW m \in Mirror, Publish(m) PROVE CacheInv'
  <2>1. /\ UNCHANGED <<added, hasEntry, cache, check, app>>
        /\ edition' = [edition EXCEPT ![m] = @ + 1]
    BY <1>2 DEF Publish
  <2>2. /\ edition' \in [Mirror -> Int]
        /\ \A n \in Mirror : edition[n] \in Int /\ edition'[n] \in {edition[n], edition[n] + 1}
    BY <1>1, <1>2, <2>1 DEF Shapes
  <2>3. ASSUME NEW c \in Checker, check[c].at = "index"
        PROVE  check[c].entry <= edition'[check[c].mirror]
    <3>1. check[c].mirror \in Mirror /\ check[c].entry \in Int
          /\ check[c].entry <= edition[check[c].mirror]
      BY <1>1, <2>3 DEF Shapes, CheckShape
    <3> QED
      BY <2>2, <3>1
  <2>4. Shapes'
    BY <1>1, <2>1, <2>2, <2>3 DEF Shapes, app
  <2> QED
    BY <2>1, <2>4 DEF CacheInv, Full, Knows, Told, Covered, app
<1>3. ASSUME NEW m \in Mirror, AddEntry(m) PROVE CacheInv'
  BY <1>3 DEF AddEntry, CacheInv, Shapes, Full, Knows, Told, Covered, app
<1>4. ASSUME Install PROVE CacheInv'
  <2>1. /\ UNCHANGED <<added, edition, cache, check, told, unheard>>
        /\ current' \in Nat /\ current <= current'
    BY <1>1, <1>4 DEF Install, Shapes, mirrors
  <2>2. Shapes'
    <3>1. ASSUME NEW c \in Checker PROVE check[c].above <= current'
      <4>1. check[c] \in CheckShape
        BY <1>1 DEF Shapes
      <4>2. check[c].above \in Int
        BY <4>1 DEF CheckShape
      <4>3. check[c].above <= current
        BY <1>1 DEF Shapes
      <4>4. current <= current' /\ current \in Int /\ current' \in Int
        BY <1>1, <2>1 DEF Shapes
      <4> QED
        BY <4>2, <4>3, <4>4
    <3> QED
      BY <1>1, <2>1, <3>1 DEF Shapes
  <2>3. ASSUME NEW v \in added, Covered(v) PROVE v \in Told'
    <3>1. v \in Int /\ current \in Int
      BY <1>1 DEF Shapes
    <3>2. v <= current => v <= current'
      BY <2>1, <3>1
    <3> QED
      BY <2>1, <2>3, <3>2 DEF Told, Covered
  <2>4. \A n : Full(n)' = Full(n)
    BY <2>1 DEF Full
  <2> QED
    BY <2>1, <2>2, <2>3, <2>4 DEF CacheInv, Knows, Told
<1>5. ASSUME Die PROVE CacheInv'
  <2>1. /\ UNCHANGED <<added, edition, cache, current, told>>
        /\ check' = [c \in Checker |-> Idle]
        /\ \A w \in {unheard} \cup {check[c].best : c \in Checker} : w <= unheard'
        /\ unheard' \in {unheard} \cup {check[c].best : c \in Checker}
    BY <1>5 DEF Die, Unheard, Greatest, mirrors
  <2>2. \A c \in Checker : check[c].best \in Int /\ check[c].best <= unheard'
    BY <1>1, <2>1 DEF Shapes, CheckShape
  <2>3. unheard' \in Nat /\ unheard <= unheard'
    BY <1>1, <2>1, <2>2 DEF Shapes
  <2>4. NoCache \in CacheShape /\ Idle.cache = NoCache /\ Idle.at = "idle" /\ Idle.best = 0
        /\ Idle.above = 0
    BY DEF CacheShape, NoCache, Idle
  <2>5. Idle \in CheckShape
    BY <2>4 DEF CheckShape, Idle
  <2>6. Shapes'
    BY <1>1, <2>1, <2>3, <2>4, <2>5 DEF Shapes
  <2>7. ASSUME NEW v \in added, Covered(v) PROVE v \in Told'
    <3>1. v \in Nat /\ unheard \in Nat
      BY <1>1 DEF Shapes
    <3>2. v <= current \/ v <= told \/ v <= unheard'
      BY <2>2, <2>3, <2>7, <3>1 DEF Covered
    <3> QED
      BY <2>1, <3>2 DEF Told, Covered
  <2>8. Full(Knows(NoCache)) = {}
    BY <1>1 DEF Full, Knows, NoCache, Shapes
  <2>9. \A n : Full(n)' = Full(n)
    BY <2>1 DEF Full
  <2> QED
    BY <2>1, <2>4, <2>6, <2>7, <2>8, <2>9 DEF CacheInv, Knows, Told
<1> QED
  BY <1>2, <1>3, <1>4, <1>5

\* There is no cache at first.
LEMMA CacheBegins == Init => CacheInv
<1> SUFFICES ASSUME Init PROVE CacheInv
  OBVIOUS
<1>1. NoCache \in CacheShape /\ Idle.cache = NoCache /\ Idle.at = "idle" /\ Idle.best = 0
      /\ Idle.above = 0
  BY DEF CacheShape, NoCache, Idle
<1>2. Idle \in CheckShape
  BY <1>1 DEF CheckShape, Idle
<1>3. Shapes
  BY <1>1, <1>2 DEF Init, Shapes
<1>4. Full(Knows(NoCache)) = {}
  BY <1>3 DEF Full, Knows, NoCache, Shapes
<1> QED
  BY <1>1, <1>3, <1>4 DEF Init, CacheInv

\* Each step keeps the caches harmless.
LEMMA CacheKept == CacheInv /\ [Next]_vars => CacheInv'
<1> SUFFICES ASSUME CacheInv, [Next]_vars PROVE CacheInv'
  OBVIOUS
<1>1. CASE Next
  BY <1>1, CheckKeeps, WorldKeeps DEF Next
<1>2. CASE UNCHANGED vars
  BY <1>2 DEF vars, mirrors, app, CacheInv, Shapes, Full, Knows, Told, Covered
<1> QED
  BY <1>1, <1>2

\* However checks, installs, editions, failed or torn writes and deaths of the process
\* interleave, each version that the cache silences was told to the app or is about to be;
\* except one that a death took with its answer, behind the write of the cache (ReadIndex,
\* ReadV1), or that was in a jar without an index: such a version is lost.
THEOREM CacheSafe == Spec => []NothingWithheld
<1>1. CacheInv => NothingWithheld
  BY DEF CacheInv, NothingWithheld, Told
<1> QED
  BY <1>1, CacheBegins, CacheKept, PTL DEF Spec

-----------------------------------------------------------------------------
(* Types                                                                   *)

Under == [at : {"entry", "index", "v1", "api", "answer"}, mirror : Mirror \cup Official,
          cache : Caches, above : Version, entry : Version, best : Version]

\* Steps of checks, mirrors and users keep the types, as long as checks that read an index ask
\* a mirror that has one (Shapes).
LEMMA TypesKept ==
  ASSUME Editions \in Nat \ {0}, MaxDeaths \in Nat, TypeOK, Shapes, [Next]_vars
  PROVE  TypeOK'
<1>0. /\ check \in [Checker -> {Idle} \cup Under] /\ cache \in Caches /\ NoCache \in Caches
      /\ Idle.at = "idle" /\ Idle.best = 0
      /\ Version \subseteq Int /\ 0 \in Version
      /\ current \in Version /\ told \in Version /\ unheard \in Version
      /\ added \subseteq 1 .. Editions /\ edition \in [Mirror -> 1 .. Editions]
  <2>1. check \in [Checker -> {Idle} \cup Under] /\ cache \in Caches
    BY DEF TypeOK, Under
  <2>2. NoCache \in Caches /\ Idle.at = "idle" /\ Idle.best = 0
    BY DEF Caches, Idle
  <2>3. Version \subseteq Int /\ 0 \in Version
    BY DEF Version
  <2>4. /\ current \in Version /\ told \in Version /\ unheard \in Version
        /\ added \subseteq 1 .. Editions /\ edition \in [Mirror -> 1 .. Editions]
    BY DEF TypeOK
  <2> QED
    BY <2>1, <2>2, <2>3, <2>4
\* what a step leaves to show
<1>1. ASSUME check' \in [Checker -> {Idle} \cup Under], cache' \in Caches,
             UNCHANGED mirrors, current' \in Version, told' \in Version,
             unheard' \in Version, deaths' \in 0 .. MaxDeaths
      PROVE  TypeOK'
  BY <1>1 DEF TypeOK, Under, mirrors
<1>2. ASSUME UNCHANGED mirrors, UNCHANGED app, cache' \in Caches,
             check' \in [Checker -> {Idle} \cup Under]
      PROVE  TypeOK'
  BY <1>1, <1>2 DEF app, TypeOK
<1>3. ASSUME NEW c \in Checker, Ends(c) PROVE check' \in [Checker -> {Idle} \cup Under]
  BY <1>0, <1>3 DEF Ends
<1>4. ASSUME NEW c \in Checker, NEW k \in Under, check' = [check EXCEPT ![c] = k]
      PROVE  check' \in [Checker -> {Idle} \cup Under]
  BY <1>0, <1>4
<1>5. ASSUME NEW c \in Checker, check[c].at # "idle"
      PROVE  check[c] \in Under
  BY <1>0, <1>5
<1>6. ASSUME NEW m \in Mirror, NEW t \in Version, NEW g \in Version, NEW v \in BOOLEAN,
             Written(m, t, g, v)
      PROVE  cache' \in Caches
  <2>1. [mirror |-> m, timestamp |-> t, etag |-> g, isV1 |-> v] \in Caches
    BY <1>6 DEF Caches
  <2> QED
    BY <1>0, <1>6, <2>1 DEF Written
<1>7. ASSUME NEW m \in Mirror, NEW e \in Version PROVE ETag(m, e) \in Version
  BY <1>0, <1>7 DEF ETag
<1>8. ASSUME NEW c \in Checker, check[c].at \in {"entry", "index", "v1"}
      PROVE  check[c].mirror \in Mirror /\ edition[check[c].mirror] \in Version
  <2>1. check[c].mirror \in Mirror
    BY <1>8 DEF Shapes
  <2> QED
    BY <1>0, <2>1 DEF Version
<1>9. ASSUME NEW c \in Checker, NEW S, Found(c, S), check[c].at # "idle"
      PROVE  check' \in [Checker -> {Idle} \cup Under]
  <2>1. PICK best \in Version :
          check' = [check EXCEPT ![c] = [check[c] EXCEPT !.at = "answer", !.best = best]]
    BY <1>9 DEF Found
  <2> DEFINE first == [check[c] EXCEPT !.at = "answer"]
             moved == [first EXCEPT !.best = best]
  <2>2. first \in Under
    BY <1>5, <1>9 DEF Under
  <2> HIDE DEF first
  <2>3. moved \in Under
    BY <2>2 DEF Under
  <2>4. check' = [check EXCEPT ![c] = moved]
    BY <2>1 DEF first
  <2> HIDE DEF moved
  <2> QED
    BY <1>4, <2>3, <2>4
<1>10. ASSUME NEW S, Unheard(S) PROVE unheard' \in Version
  BY <1>10 DEF Unheard
<1>11. ASSUME NEW c \in Checker, NEW m \in Mirror \cup Official, Check(c, m) PROVE TypeOK'
  <2> DEFINE api  == m \in Official
             file == IF api THEN NoCache ELSE Loaded(m)
             at == IF api THEN "api" ELSE IF file.isV1 THEN "v1" ELSE "entry"
             moved == [at |-> at, mirror |-> m, cache |-> file, above |-> current,
                       entry |-> 0, best |-> 0]
  <2>1. check' = [check EXCEPT ![c] = moved] /\ UNCHANGED <<mirrors, cache, app>>
    BY <1>11 DEF Check
  <2>2. file \in Caches /\ at \in {"entry", "v1", "api"}
    BY <1>0 DEF Loaded
  <2> HIDE DEF file, at
  <2>3. moved \in Under
    BY <1>0, <1>11, <2>2 DEF Under
  <2> HIDE DEF moved
  <2> QED
    BY <1>0, <1>2, <1>4, <2>1, <2>3
<1>12. ASSUME NEW c \in Checker, Fails(c) \/ NotModified(c) PROVE TypeOK'
  BY <1>0, <1>2, <1>3, <1>12 DEF Fails, NotModified
<1>13. ASSUME NEW c \in Checker, ReadAPI(c) PROVE TypeOK'
  BY <1>0, <1>2, <1>9, <1>13 DEF ReadAPI, At
<1>14. ASSUME NEW c \in Checker, NoEntry(c) PROVE TypeOK'
  <2> DEFINE first == [check[c] EXCEPT !.at = "v1"]
             moved == [first EXCEPT !.cache = NoCache]
  <2>1. check[c].at = "entry" /\ UNCHANGED <<mirrors, app>>
    BY <1>14 DEF NoEntry, At
  <2>2. first \in Under
    BY <1>5, <2>1 DEF Under
  <2> HIDE DEF first
  <2>3. moved \in Under
    BY <1>0, <2>2 DEF Under
  <2>4. check' = [check EXCEPT ![c] = moved]
    BY <1>14 DEF NoEntry, first
  <2>5. cache' \in Caches
    BY <1>0, <1>6, <1>8, <1>14, <2>1 DEF NoEntry
  <2> HIDE DEF moved
  <2> QED
    BY <1>2, <1>4, <2>1, <2>3, <2>4, <2>5
<1>15. ASSUME NEW c \in Checker, ReadEntry(c) PROVE TypeOK'
  <2> DEFINE e == edition[check[c].mirror]
             first == [check[c] EXCEPT !.at = "index"]
             moved == [first EXCEPT !.entry = e]
  <2>1. check[c].at = "entry" /\ UNCHANGED <<mirrors, app>>
    BY <1>15 DEF ReadEntry, At
  <2>2. check[c].mirror \in Mirror /\ e \in Version
    BY <1>8, <2>1
  <2>3. CASE Ends(c) /\ Written(check[c].mirror, e, ETag(check[c].mirror, e), FALSE)
    <3>1. cache' \in Caches
      BY <1>6, <1>7, <2>2, <2>3
    <3> QED
      BY <1>2, <1>3, <2>1, <2>3, <3>1
  <2>4. CASE check' = [check EXCEPT ![c] = moved] /\ CacheAtEntry(check[c].mirror, e)
    <3>1. first \in Under
      BY <1>5, <2>1 DEF Under
    <3> HIDE DEF first, e
    <3>2. moved \in Under
      BY <2>2, <3>1 DEF Under
    <3> HIDE DEF moved
    <3>3. cache' \in Caches
      BY <1>0, <2>4 DEF CacheAtEntry
    <3> QED
      BY <1>2, <1>4, <2>1, <2>4, <3>2, <3>3
  <2> QED
    BY <1>15, <2>3, <2>4 DEF ReadEntry
<1>16. ASSUME NEW c \in Checker, ReadIndex(c) PROVE TypeOK'
  <2>1. check[c].at = "index" /\ UNCHANGED <<mirrors, app>> /\ check[c] \in Under
    BY <1>5, <1>16 DEF ReadIndex, At
  <2>2. check' \in [Checker -> {Idle} \cup Under]
    BY <1>9, <1>16, <2>1 DEF ReadIndex
  <2>3. check[c].mirror \in Mirror /\ check[c].entry \in Version
    BY <1>8, <2>1 DEF Under
  <2>4. cache' \in Caches
    BY <1>6, <1>7, <1>16, <2>3 DEF ReadIndex
  <2> QED
    BY <1>2, <2>1, <2>2, <2>4
<1>17. ASSUME NEW c \in Checker, ReadV1(c) PROVE TypeOK'
  <2>1. check[c].at = "v1" /\ UNCHANGED mirrors /\ UNCHANGED <<current, told, deaths>>
    BY <1>17 DEF ReadV1, At
  <2>2. check' \in [Checker -> {Idle} \cup Under] /\ unheard' \in Version
    BY <1>0, <1>9, <1>10, <1>17, <2>1 DEF ReadV1
  <2>3. check[c].mirror \in Mirror /\ edition[check[c].mirror] \in Version
    BY <1>8, <2>1
  <2>4. cache' \in Caches
    BY <1>0, <1>6, <1>7, <1>17, <2>3 DEF ReadV1
  <2> QED
    BY <1>0, <1>1, <2>1, <2>2, <2>4 DEF TypeOK
<1>18. ASSUME NEW c \in Checker, Answer(c) PROVE TypeOK'
  <2>1. check[c].best \in Version
    BY <1>5, <1>18 DEF Answer, At, Under
  <2>2. told' \in Version /\ UNCHANGED <<mirrors, cache, current, unheard, deaths>>
    BY <1>0, <1>18, <2>1 DEF Answer
  <2> QED
    BY <1>0, <1>1, <1>3, <1>18, <2>2 DEF Answer, TypeOK
<1>19. CASE Install
  <2>1. current' \in Version /\ UNCHANGED <<mirrors, cache, check, told, unheard, deaths>>
    BY <1>0, <1>19 DEF Install
  <2> QED
    BY <1>0, <1>1, <2>1 DEF TypeOK
<1>20. ASSUME NEW m \in Mirror, Publish(m) PROVE TypeOK'
  <2>1. edition' \in [Mirror -> 1 .. Editions]
        /\ UNCHANGED <<added, sendsETag, hasEntry, cache, check, app>>
    BY <1>0, <1>20 DEF Publish
  <2> QED
    BY <2>1 DEF TypeOK, app
<1>21. ASSUME NEW m \in Mirror, AddEntry(m) PROVE TypeOK'
  <2>1. hasEntry' \in [Mirror -> BOOLEAN]
        /\ UNCHANGED <<added, edition, sendsETag, cache, check, app>>
    BY <1>21 DEF AddEntry, TypeOK
  <2> QED
    BY <2>1 DEF TypeOK, app
<1>22. CASE Die
  <2>1. /\ check' \in [Checker -> {Idle} \cup Under] /\ deaths' \in 0 .. MaxDeaths
        /\ UNCHANGED <<mirrors, cache, current, told>>
    BY <1>22 DEF Die, TypeOK
  <2>2. unheard' \in Version
    BY <1>10, <1>22 DEF Die
  <2> QED
    BY <1>0, <1>1, <2>1, <2>2
<1>23. CASE UNCHANGED vars
  BY <1>23 DEF TypeOK, vars, mirrors, app
<1> QED
  BY <1>11, <1>12, <1>13, <1>14, <1>15, <1>16, <1>17, <1>18, <1>19, <1>20, <1>21, <1>22, <1>23
  DEF Next

\* FDroidUpdate begins with its types.
LEMMA TypesBegin ==
  ASSUME Editions \in Nat \ {0}, MaxDeaths \in Nat, Init
  PROVE  TypeOK
<1>1. NoCache \in Caches
  BY DEF Caches
<1>2. 0 \in Version /\ 1 \in 1 .. Editions /\ 0 \in 0 .. MaxDeaths
  BY DEF Version
<1> QED
  BY <1>1, <1>2 DEF Init, TypeOK
=============================================================================
