------------------------- MODULE ConnectionsProofs --------------------------
(* What holds of Connections for every set of connections, every traffic,  *)
(* every age limit and every number of streams and messages under way.     *)
EXTENDS Connections, FiniteSetTheorems, SequenceTheorems, WellFoundedInduction, TLAPS

(***************************************************************************)
(* Induction                                                               *)
(***************************************************************************)

\* A set of numbers has a least one.
LEMMA LeastNumber ==
  ASSUME NEW T \in SUBSET Nat, T # {}
  PROVE  \E n \in T : \A m \in T : n <= m
<1> DEFINE R == {ss \in Nat \X Nat : ss[1] < ss[2]}
<1>1. IsWellFoundedOn(R, Nat)
  BY NatLessThanWellFounded, Zenon DEF OpToRel
<1> HIDE DEF R
<1>2. PICK n \in T : \A m \in T : ~(<<m, n>> \in R)
  BY <1>1, WFMin
<1>3. ASSUME NEW m \in T PROVE n <= m
  <2>1. ~(<<m, n>> \in R) /\ m \in Nat /\ n \in Nat
    BY <1>2
  <2>2. ~(m < n)
    BY <2>1 DEF R
  <2> QED
    BY <2>1, <2>2
<1> QED
  BY <1>3

\* The maps that `rows` of After(message) goes through, up to the n-th
Chain(rows, message, n) ==
  rows = [k \in 0 .. n |-> IF k = 0 THEN Reset(message)
                           ELSE Applied(rows[k - 1], message.events[k])]

\* The recursion of After is well defined.
LEMMA ChainExists ==
  ASSUME NEW message, NEW n \in Nat
  PROVE  \E rows : Chain(rows, message, n)
<1> DEFINE T == {k \in Nat : ~ \E rows : Chain(rows, message, k)}
<1> SUFFICES ASSUME T # {} PROVE FALSE
  OBVIOUS
<1>1. PICK k \in T : \A m \in T : k <= m
  BY LeastNumber
<1>2. CASE k = 0
  <2>1. Chain([j \in 0 .. 0 |-> Reset(message)], message, 0)
    BY DEF Chain
  <2> QED
    BY <1>2, <2>1
<1>3. CASE k # 0
  <2>1. k - 1 \in Nat /\ k - 1 \notin T
    BY <1>1, <1>3
  <2>2. PICK rows : Chain(rows, message, k - 1)
    BY <2>1
  <2> DEFINE more == [j \in 0 .. k |-> IF j = k THEN Applied(rows[k - 1], message.events[k])
                                       ELSE rows[j]]
  <2>3. Chain(more, message, k)
    BY <1>3, <2>1, <2>2 DEF Chain
  <2> QED
    BY <2>3
<1> QED
  BY <1>2, <1>3

\* What holds before the first event of a message and is carried from each event to the
\* next holds behind the last: Good[k] are the maps that are good behind the k-th.
LEMMA AfterAll ==
  ASSUME NEW message, Len(message.events) \in Nat, NEW Good, Reset(message) \in Good[0],
         \A k \in 1 .. Len(message.events) :
           \A map \in Good[k - 1] : Applied(map, message.events[k]) \in Good[k]
  PROVE  After(message) \in Good[Len(message.events)]
<1> DEFINE n == Len(message.events)
<1>1. PICK rows : Chain(rows, message, n) /\ After(message) = rows[n]
  <2> DEFINE rows == CHOOSE rows : Chain(rows, message, n)
  <2>1. Chain(rows, message, n)
    BY ChainExists
  <2>2. After(message) = rows[n]
    BY DEF After, Chain
  <2> QED
    BY <2>1, <2>2
<1> DEFINE T == {k \in 0 .. n : rows[k] \notin Good[k]}
<1>2. T = {}
  <2> SUFFICES ASSUME T # {} PROVE FALSE
    OBVIOUS
  <2>0. T \in SUBSET Nat
    OBVIOUS
  <2>1. PICK k \in T : \A m \in T : k <= m
    <3> HIDE DEF T
    <3> QED
      BY <2>0, LeastNumber
  <2>2. rows[0] = Reset(message)
    BY <1>1 DEF Chain
  <2>3. k # 0 /\ k \in 1 .. n
    BY <2>1, <2>2
  <2>4. rows[k - 1] \in Good[k - 1]
    BY <2>1, <2>3
  <2>5. rows[k] = Applied(rows[k - 1], message.events[k])
    BY <1>1, <2>3 DEF Chain
  <2> QED
    BY <2>1, <2>3, <2>4, <2>5
<1> QED
  BY <1>1, <1>2

(***************************************************************************)
(* The list's types, and what an event may say                             *)
(***************************************************************************)

\* A row of connection i, open or closed when the daemon closed i
RowFor(i) == {row \in Row : row.id = i /\ row.closedAt \in {0, daemon[i].closedAt}}

Maps == {map \in [Id -> Row \cup {NoRow}] :
           \A i \in Id : map[i] # NoRow => map[i] \in RowFor(i)}

\* A closure in an event is the daemon's
TrueEvents ==
  {e \in Event : /\ e.conn # NoRow => e.conn \in RowFor(e.id)
                 /\ e.type = "closed" => /\ e.closedAt # 0
                                         /\ e.closedAt = daemon[e.id].closedAt}
TrueMessages == [reset : BOOLEAN, events : Seq(TrueEvents)]

WorldInv  == daemon \in [Id -> Conn] /\ clock \in Time \ {0}
StreamInv ==
  /\ streams \in 0 .. MaxStreams /\ subscribed \in BOOLEAN
  /\ channel \in Seq(TrueMessages) /\ late \in TrueMessages \cup {NoMessage}
MapInv    == connectionMap \in Maps
ShownInv  ==
  /\ filtered \in Seq(Row)
  /\ filterState \in {"all", "active", "closed", "unknown"}
  /\ {filterApplied, fresh} \subseteq BOOLEAN /\ uses \in 0 .. MaxUses
  /\ sortedBy \in {"none", "date", "traffic", "total"}

ListInv == WorldInv /\ StreamInv /\ MapInv /\ ShownInv

LEMMA NoRowIsNoRow == NoRow \notin Row
  BY DEF NoRow, Row

\* A message that was received is not the absence of one.
LEMMA NoMessageIsNoMessage == NoMessage \notin Message
  BY DEF NoMessage, Message

LEMMA RowFields ==
  ASSUME NEW row \in Row
  PROVE  /\ row.id \in Id /\ row.created \in Time /\ row.closedAt \in Time
         /\ row.rate \in Nat /\ row.total \in Nat
  BY DEF Row

\* An event gives its connection a row that is the connection's, takes none away, and leaves
\* the others alone.
LEMMA EventKeeps ==
  ASSUME WorldInv, NEW map \in Maps, NEW e \in TrueEvents
  PROVE  /\ Applied(map, e) \in Maps
         /\ \A i \in Id : map[i] # NoRow => Applied(map, e)[i] # NoRow
<1> DEFINE i == e.id
           old == map[i]
           brought == IF e.conn = NoRow THEN old ELSE e.conn
<1>1. /\ i \in Id /\ e.type \in {"new", "update", "closed"} /\ e.conn \in Row \cup {NoRow}
      /\ e.delta \in Nat /\ e.closedAt \in Time
  BY DEF Event, TrueEvents
<1>2. /\ old \in Row \cup {NoRow} /\ (old # NoRow => old \in RowFor(i))
      /\ brought \in Row \cup {NoRow} /\ (brought # NoRow => brought \in RowFor(i))
      /\ (old # NoRow => brought # NoRow)
  BY <1>1 DEF Maps, TrueEvents
<1> HIDE DEF brought
<1>4. ASSUME old # NoRow PROVE Updated(old, e) \in RowFor(i)
  <2> DEFINE moved == [old EXCEPT !.rate = e.delta]
             new == [moved EXCEPT !.total = @ + e.delta]
  <2>1. old \in Row /\ old.id = i /\ old.closedAt \in {0, daemon[i].closedAt}
    BY <1>2, <1>4 DEF RowFor
  <2>2. moved \in Row /\ moved.id = old.id /\ moved.closedAt = old.closedAt
    BY <1>1, <2>1 DEF Row
  <2>3. new = [old EXCEPT !.rate = e.delta, !.total = @ + e.delta]
    BY <2>1 DEF Row
  <2> HIDE DEF moved
  <2>4. new \in Row /\ new.id = moved.id /\ new.closedAt = moved.closedAt
    BY <1>1, <2>2 DEF Row
  <2> HIDE DEF new
  <2> QED
    BY <1>4, <2>1, <2>2, <2>3, <2>4 DEF Updated, RowFor
<1>3. Updated(old, e) # NoRow <=> old # NoRow
  <2>1. old = NoRow => Updated(old, e) = NoRow
    BY DEF Updated
  <2>2. old # NoRow => Updated(old, e) \in Row
    BY <1>4 DEF RowFor
  <2> QED
    BY <2>1, <2>2, NoRowIsNoRow
<1>5. ASSUME e.type = "closed", brought # NoRow PROVE Ended(brought, e) \in RowFor(i)
  <2> DEFINE dated == [brought EXCEPT !.closedAt = e.closedAt]
             new == [dated EXCEPT !.rate = 0]
  <2>1. brought \in Row /\ brought.id = i
    BY <1>2, <1>5 DEF RowFor
  <2>2. dated \in Row /\ dated.id = brought.id /\ dated.closedAt = e.closedAt
    BY <1>1, <2>1 DEF Row
  <2>3. new = [brought EXCEPT !.closedAt = e.closedAt, !.rate = 0]
    BY <2>1 DEF Row
  <2> HIDE DEF dated
  <2>4. new \in Row /\ new.id = dated.id /\ new.closedAt = dated.closedAt
    BY <2>2 DEF Row
  <2>5. e.closedAt = daemon[i].closedAt
    BY <1>5 DEF TrueEvents
  <2> HIDE DEF new
  <2> QED
    BY <1>5, <2>1, <2>2, <2>3, <2>4, <2>5 DEF Ended, RowFor
<1>6. ASSUME brought = NoRow PROVE Ended(brought, e) = NoRow
  BY <1>6 DEF Ended
<1> DEFINE new == Effect(old, e)
<1>7. \/ e.type = "update" /\ new = Updated(old, e)
      \/ e.type = "closed" /\ new = Ended(brought, e)
      \/ e.type = "new" /\ new = brought
  BY <1>1 DEF Effect, brought
<1> HIDE DEF new
<1>8. /\ new # NoRow => new \in RowFor(i)
      /\ old # NoRow => new # NoRow
  <2>1. \A row \in RowFor(i) : row # NoRow
    BY NoRowIsNoRow DEF RowFor
  <2>2. Updated(old, e) = NoRow \/ old # NoRow
    BY <1>3
  <2> QED
    BY <1>2, <1>3, <1>4, <1>5, <1>6, <1>7, <2>1, <2>2
<1>9. Applied(map, e) = [map EXCEPT ![i] = new]
  BY DEF Applied, new
<1>10. new \in Row \cup {NoRow}
  BY <1>8 DEF RowFor
<1> QED
  BY <1>1, <1>8, <1>9, <1>10 DEF Maps

\* All events of a message together, and eviction: rows stay the connections' own, and one
\* that leaves is expired, unless the message has reset the list.
LEMMA AfterKeeps ==
  ASSUME WorldInv, MapInv, NEW message \in TrueMessages
  PROVE  /\ After(message) \in Maps /\ Evicted(After(message)) \in Maps
         /\ ~message.reset => \A i \in Id : connectionMap[i] # NoRow => After(message)[i] # NoRow
<1> DEFINE Stays == {map \in Maps : \A i \in Id : Reset(message)[i] # NoRow => map[i] # NoRow}
           n == Len(message.events)
           Good == [k \in 0 .. n |-> Stays]
<1>1. message.events \in Seq(TrueEvents) /\ n \in Nat
  <2>1. message.events \in Seq(TrueEvents)
    BY DEF TrueMessages
  <2> QED
    BY <2>1, LenProperties
<1>2. Reset(message) \in Maps
  BY DEF MapInv, Reset, Maps
<1>3. Reset(message) \in Good[0]
  BY <1>1, <1>2
<1>4. ASSUME NEW k \in 1 .. n, NEW map \in Good[k - 1]
      PROVE  Applied(map, message.events[k]) \in Good[k]
  <2>1. map \in Stays /\ Good[k] = Stays
    BY <1>1, <1>4
  <2>2. message.events[k] \in TrueEvents
    BY <1>1, ElementOfSeq
  <2>4. /\ Applied(map, message.events[k]) \in Maps
        /\ \A i \in Id : map[i] # NoRow => Applied(map, message.events[k])[i] # NoRow
    BY <2>1, <2>2, EventKeeps
  <2> QED
    BY <2>1, <2>4
<1>5. After(message) \in Good[n]
  <2> HIDE DEF Good
  <2> QED
    BY <1>1, <1>3, <1>4, AfterAll
<1>6. After(message) \in Stays
  BY <1>1, <1>5
<1>7. Evicted(After(message)) \in Maps
  BY <1>6 DEF Evicted, Maps
<1> QED
  BY <1>6, <1>7 DEF Reset

(***************************************************************************)
(* What is shown                                                           *)
(***************************************************************************)

\* No connection has two rows
NoTwins(rows) == \A k, l \in DOMAIN rows : rows[k].id = rows[l].id => k = l

\* As many rows as there are different ones: each is there once.
LEMMA OnceEach ==
  ASSUME NEW n \in Nat, NEW S, NEW rows \in [1 .. n -> S],
         Rows(rows) = S, Cardinality(S) = n
  PROVE  \A k, l \in 1 .. n : rows[k] = rows[l] => k = l
<1>1. rows \in Surjection(1 .. n, S)
  BY DEF Surjection, Rows
<1>2. IsFiniteSet(1 .. n) /\ Cardinality(1 .. n) = n
  BY FS_Interval
<1>3. rows \in Injection(1 .. n, S)
  BY <1>1, <1>2, FS_SurjSameCardinalityImpliesInj
<1> QED
  BY <1>3 DEF Injection, IsInjective

\* A map gives each connection a row of its own.
OwnRows == {map \in [Id -> Row \cup {NoRow}] : \A i \in Id : map[i] # NoRow => map[i].id = i}

\* A list made from a map has each row that passes, once.
LEMMA ListsRows ==
  ASSUME NEW map \in OwnRows, NEW state, NEW rows \in Lists(map, state)
  PROVE  /\ rows \in Seq(Row) /\ NoTwins(rows)
         /\ Rows(rows) = {row \in RowsOf(map) : Passes(row, state)}
<1> DEFINE passing == {row \in RowsOf(map) : Passes(row, state)}
           n == Cardinality(passing)
           all == {map[i] : i \in Id}
<1>1. IsFiniteSet(passing)
  <2>1. map \in Surjection(Id, all)
    BY DEF OwnRows, Surjection
  <2>2. IsFiniteSet(all)
    BY <2>1, IdAssumption, FS_Surjection
  <2>3. passing \in SUBSET all
    BY DEF RowsOf
  <2> QED
    BY <2>2, <2>3, FS_Subset
<1>2. n \in Nat
  BY <1>1, FS_CardinalityType
<1>3. rows \in [1 .. n -> passing] /\ Rows(rows) = passing
  BY DEF Lists
<1>4. passing \subseteq Row
  BY DEF RowsOf, OwnRows
<1>5. rows \in Seq(Row)
  <2>1. rows \in [1 .. n -> Row]
    BY <1>3, <1>4
  <2> HIDE DEF n
  <2> QED
    BY <1>2, <2>1, SeqDef
<1>6. \A row1, row2 \in passing : row1.id = row2.id => row1 = row2
  BY DEF RowsOf, OwnRows
<1>7. \A k, l \in 1 .. n : rows[k] = rows[l] => k = l
  <2> HIDE DEF passing
  <2> QED
    BY <1>2, <1>3, OnceEach
<1>8. DOMAIN rows = 1 .. n
  BY <1>3
<1> HIDE DEF passing, n
<1>9. NoTwins(rows)
  BY <1>3, <1>6, <1>7, <1>8 DEF NoTwins
<1> QED
  BY <1>3, <1>5, <1>9 DEF passing

\* A sort keeps the rows
LEMMA OrdersAreLists ==
  ASSUME NEW shown \in Seq(Row), NEW key, NEW rows \in Orders(shown, key)
  PROVE  /\ rows \in Seq(Row) /\ Rows(rows) = Rows(shown) /\ DOMAIN rows = DOMAIN shown
         /\ rows \in [1 .. Len(shown) -> Rows(shown)]
<1> DEFINE n == Len(shown)
<1>1. n \in Nat /\ DOMAIN shown = 1 .. n /\ shown \in [1 .. n -> Row]
  BY LenProperties
<1>2. rows \in [1 .. n -> Rows(shown)] /\ Rows(rows) = Rows(shown)
  BY <1>1 DEF Orders
<1>3. Rows(shown) \subseteq Row
  BY <1>1 DEF Rows
<1>4. rows \in Seq(Row)
  BY <1>1, <1>2, <1>3, SeqDef
<1> QED
  BY <1>1, <1>2, <1>4

\* ... each once.
LEMMA OrdersRows ==
  ASSUME NEW shown \in Seq(Row), NoTwins(shown), NEW key, NEW rows \in Orders(shown, key)
  PROVE  NoTwins(rows)
<1> DEFINE n == Len(shown)
<1>1. n \in Nat /\ DOMAIN shown = 1 .. n /\ shown \in [1 .. n -> Row]
  BY LenProperties
<1>2. rows \in [1 .. n -> Rows(shown)] /\ Rows(rows) = Rows(shown)
  BY OrdersAreLists
<1>5. Cardinality(Rows(shown)) = n
  <2>1. shown \in Surjection(1 .. n, Rows(shown))
    BY <1>1 DEF Rows, Surjection
  <2>2. shown \in Injection(1 .. n, Rows(shown))
    BY <1>1, <2>1 DEF Injection, IsInjective, Surjection, NoTwins
  <2>3. IsFiniteSet(1 .. n) /\ Cardinality(1 .. n) = n
    BY <1>1, FS_Interval
  <2> QED
    BY <2>1, <2>2, <2>3, FS_Surjection
<1>6. \A k, l \in 1 .. n : rows[k] = rows[l] => k = l
  BY <1>1, <1>2, <1>5, OnceEach
<1>7. \A row1, row2 \in Rows(shown) : row1.id = row2.id => row1 = row2
  BY <1>1 DEF Rows, NoTwins
<1> QED
  BY <1>1, <1>2, <1>6, <1>7 DEF NoTwins

(***************************************************************************)
(* Type correctness                                                        *)
(***************************************************************************)

\* A closure is for good: what the map and the messages say of one stays true.
LEMMA ClosuresStay ==
  ASSUME WorldInv, WorldInv',
         \A i \in Id : daemon[i].closedAt # 0 => daemon'[i].closedAt = daemon[i].closedAt
  PROVE  Maps \subseteq Maps' /\ TrueEvents \subseteq TrueEvents' /\ TrueMessages \subseteq TrueMessages'
<1>1. \A i \in Id : RowFor(i) \subseteq RowFor(i)'
  BY DEF RowFor
<1>2. Maps \subseteq Maps'
  BY <1>1 DEF Maps
<1>3. ASSUME NEW e \in TrueEvents PROVE e \in TrueEvents'
  <2>1. e.id \in Id
    BY DEF Event, TrueEvents
  <2> QED
    BY <1>1, <2>1 DEF TrueEvents
<1>4. TrueMessages \subseteq TrueMessages'
  <2>1. Seq(TrueEvents) \subseteq Seq(TrueEvents')
    BY <1>3, SeqMonotonic
  <2> QED
    BY <2>1 DEF TrueMessages
<1> QED
  BY <1>2, <1>3, <1>4

\* What the daemon tells is true.
LEMMA TellsKeeps ==
  ASSUME ListInv, WorldInv',
         \A i \in Id : daemon[i].closedAt # 0 => daemon'[i].closedAt = daemon[i].closedAt,
         NEW event \in TrueEvents', Tells(event)
  PROVE  ListInv'
<1>0. UNCHANGED <<list, streams, subscribed, late>>
  BY DEF Tells
<1>c. Maps \subseteq Maps' /\ TrueMessages \subseteq TrueMessages'
  BY ClosuresStay DEF ListInv
<1>1. MapInv' /\ ShownInv'
  BY <1>0, <1>c DEF ListInv, MapInv, ShownInv, list, filter
<1>2. channel' \in Seq(TrueMessages')
  <2>1. channel \in Seq(TrueMessages')
    BY <1>c, SeqMonotonic DEF ListInv, StreamInv
  <2>2. CASE ~subscribed
    BY <2>1, <2>2 DEF Tells
  <2>3. CASE subscribed
    <3> DEFINE message == [reset |-> FALSE, events |-> <<event>>]
    <3>1. message \in TrueMessages'
      BY DEF TrueMessages
    <3>2. channel' = Append(channel, message)
      BY <2>3 DEF Tells
    <3> HIDE DEF message
    <3> QED
      BY <2>1, <3>1, <3>2, AppendProperties
  <2> QED
    BY <2>2, <2>3
<1>3. StreamInv'
  BY <1>0, <1>c, <1>2 DEF ListInv, StreamInv
<1> QED
  BY <1>1, <1>3 DEF ListInv

\* A row of what the daemon has now, as it is told of
DaemonRows ==
  \A i \in Id :
    /\ RowOf(i) \in RowFor(i) /\ New(i) \in TrueEvents
    /\ New(i).type = "new" /\ New(i).id = i /\ New(i).conn = RowOf(i)

LEMMA RowsTold == WorldInv => DaemonRows
<1> SUFFICES ASSUME WorldInv, NEW i \in Id
             PROVE  /\ RowOf(i) \in RowFor(i) /\ New(i) \in TrueEvents
                    /\ New(i).type = "new" /\ New(i).id = i /\ New(i).conn = RowOf(i)
  BY DEF DaemonRows
<1>1. daemon[i] \in Conn
  BY DEF WorldInv
<1>2. RowOf(i) \in RowFor(i)
  BY <1>1 DEF RowOf, RowFor, Row, Conn
<1>3. New(i) = [type |-> "new", id |-> i, conn |-> RowOf(i), delta |-> 0, closedAt |-> 0]
  BY DEF New, Plain
<1>4. 0 \in Time
  BY BoundsAssumption DEF Time
<1>5. RowOf(i) \in Row
  BY <1>2 DEF RowFor
<1> HIDE DEF RowOf
<1> QED
  BY <1>2, <1>3, <1>4, <1>5 DEF TrueEvents, Event

LEMMA RowsToldNext == WorldInv' => DaemonRows'
  BY RowsTold, PTL

LEMMA ListBegins == Init => ListInv
<1> SUFFICES ASSUME Init PROVE ListInv
  OBVIOUS
<1>1. 0 \in Time /\ 1 \in Time \ {0}
  BY BoundsAssumption DEF Time
<1>2. WorldInv
  BY <1>1 DEF Init, WorldInv, Conn, Unopened
<1>3. StreamInv
  <2>1. subscribed \in BOOLEAN
    BY Zenon DEF Init
  <2>2. 0 \in 0 .. MaxStreams
    BY BoundsAssumption
  <2>3. channel \in Seq(TrueMessages)
    BY EmptySeq DEF Init
  <2> QED
    BY <2>1, <2>2, <2>3 DEF Init, StreamInv
<1>4. MapInv
  BY DEF Init, MapInv, Maps
<1>5. ShownInv
  <2>1. {filterApplied, fresh} \subseteq BOOLEAN
    BY Zenon DEF Init
  <2>2. 0 \in 0 .. MaxUses
    BY BoundsAssumption
  <2>3. filtered \in Seq(Row)
    BY EmptySeq DEF Init
  <2> QED
    BY <2>1, <2>2, <2>3 DEF Init, ShownInv
<1> QED
  BY <1>2, <1>3, <1>4, <1>5 DEF ListInv

\* Every step keeps the list.
LEMMA ListKept == ListInv /\ [Next]_vars => ListInv'
<1> SUFFICES ASSUME ListInv, [Next]_vars PROVE ListInv'
  OBVIOUS
<1> USE DEF ListInv
<1>1. ASSUME NEW i \in Id, Open(i) PROVE ListInv'
  <2>1. daemon' = [daemon EXCEPT ![i].created = clock] /\ clock' = clock
    BY <1>1 DEF Open, Tells
  <2>2. daemon' \in [Id -> Conn] /\ \A j \in Id : daemon'[j].closedAt = daemon[j].closedAt
    BY <2>1 DEF WorldInv, Conn
  <2>3. WorldInv'
    BY <2>1, <2>2 DEF WorldInv
  <2>4. PICK event : event = New(i)' /\ Tells(event)
    BY <1>1 DEF Open
  <2>5. event \in TrueEvents'
    BY <2>3, <2>4, RowsToldNext DEF DaemonRows
  <2> QED
    BY <2>2, <2>3, <2>4, <2>5, TellsKeeps
<1>2. ASSUME NEW i \in Id, Traffic(i) PROVE ListInv'
  <2>1. daemon' = [daemon EXCEPT ![i].total = @ + 1] /\ clock' = clock
    BY <1>2 DEF Traffic, Tells
  <2>2. daemon' \in [Id -> Conn] /\ \A j \in Id : daemon'[j].closedAt = daemon[j].closedAt
    BY <2>1 DEF WorldInv, Conn
  <2>3. WorldInv'
    BY <2>1, <2>2 DEF WorldInv
  <2>4. PICK event : event = [Plain("update", i) EXCEPT !.delta = 1] /\ Tells(event)
    BY <1>2 DEF Traffic
  <2>5. event \in TrueEvents'
    BY <2>4, BoundsAssumption DEF TrueEvents, Event, Plain, Time
  <2> QED
    BY <2>2, <2>3, <2>4, <2>5, TellsKeeps
<1>3. ASSUME NEW i \in Id, NEW withConn \in BOOLEAN, Close(i, withConn) PROVE ListInv'
  <2>1. /\ daemon' = [daemon EXCEPT ![i].closedAt = clock] /\ clock' = clock
        /\ daemon[i].closedAt = 0
    BY <1>3 DEF Close, Tells, Live
  <2>2. /\ daemon' \in [Id -> Conn] /\ daemon'[i].closedAt = clock
        /\ \A j \in Id : daemon[j].closedAt # 0 => daemon'[j].closedAt = daemon[j].closedAt
    BY <2>1 DEF WorldInv, Conn
  <2>3. WorldInv'
    BY <2>1, <2>2 DEF WorldInv
  <2>4. PICK event :
          /\ event = [Plain("closed", i) EXCEPT
                        !.conn = IF withConn THEN RowOf(i)' ELSE NoRow, !.closedAt = clock]
          /\ Tells(event)
    BY <1>3 DEF Close
  <2>5. RowOf(i)' \in RowFor(i)'
    BY <2>3, RowsToldNext DEF DaemonRows
  <2>6. event \in TrueEvents'
    <3> DEFINE conn == IF withConn THEN RowOf(i)' ELSE NoRow
    <3>1. conn \in Row \cup {NoRow} /\ (conn # NoRow => conn \in RowFor(i)')
      BY <2>5 DEF RowFor
    <3>2. event = [type |-> "closed", id |-> i, conn |-> conn, delta |-> 0, closedAt |-> clock]
      BY <2>4 DEF Plain
    <3> HIDE DEF conn
    <3> QED
      BY <2>2, <3>1, <3>2 DEF TrueEvents, Event, WorldInv
  <2> QED
    BY <2>2, <2>3, <2>4, <2>6, TellsKeeps
<1>4. CASE Tick
  <2>1. daemon' = daemon /\ clock' = clock + 1 /\ clock < MaxClock /\ UNCHANGED <<stream, list>>
    BY <1>4 DEF Tick
  <2>2. WorldInv'
    BY <2>1, BoundsAssumption DEF WorldInv, Time
  <2>3. Maps' = Maps /\ TrueMessages' = TrueMessages
    BY <2>1 DEF Maps, TrueMessages, TrueEvents, RowFor
  <2> QED
    BY <2>1, <2>2, <2>3 DEF StreamInv, MapInv, ShownInv, stream, list, filter
<1>5. ASSUME UNCHANGED <<daemon, clock>> PROVE
        WorldInv' /\ Maps' = Maps /\ TrueMessages' = TrueMessages
  BY <1>5 DEF WorldInv, Maps, TrueMessages, TrueEvents, RowFor
<1>6. CASE StreamLost
  <2>1. /\ subscribed' = FALSE /\ channel' = <<>> /\ fresh' = FALSE
        /\ late' = late \/ (channel # <<>> /\ late' = Head(channel))
        /\ UNCHANGED <<daemon, clock, streams, connectionMap, filtered, filterState,
                       filterApplied, uses, sortedBy>>
    BY <1>6 DEF StreamLost, world, filter
  <2>2. channel # <<>> => Head(channel) \in TrueMessages
    BY HeadTailProperties DEF StreamInv
  <2>3. StreamInv'
    <3>1. TrueMessages' = TrueMessages
      BY <1>5, <2>1
    <3>2. subscribed' \in BOOLEAN
      BY <2>1, Zenon
    <3>3. channel' \in Seq(TrueMessages)
      BY <2>1, EmptySeq
    <3>4. late' \in TrueMessages \cup {NoMessage}
      BY <2>1, <2>2 DEF StreamInv
    <3> QED
      BY <2>1, <3>1, <3>2, <3>3, <3>4 DEF StreamInv
  <2> QED
    BY <1>5, <2>1, <2>3 DEF MapInv, ShownInv
<1>7. ASSUME NEW ids \in SUBSET Id, Subscribe(ids) PROVE ListInv'
  <2> DEFINE n == Cardinality(ids)
  <2>1. n \in Nat
    BY IdAssumption, FS_Subset, FS_CardinalityType
  <2>2. PICK order \in [1 .. n -> ids] :
          channel' = <<[reset |-> TRUE, events |-> [k \in DOMAIN order |-> New(order[k])]]>>
    BY <1>7 DEF Subscribe
  <2>3. /\ subscribed' = TRUE /\ streams < MaxStreams /\ streams' = streams + 1
        /\ UNCHANGED <<world, late, list>>
    BY <1>7 DEF Subscribe
  <2> HIDE DEF n
  <2>4. [k \in DOMAIN order |-> New(order[k])] \in Seq(TrueEvents)
    <3>1. [k \in DOMAIN order |-> New(order[k])] \in [1 .. n -> TrueEvents]
      BY <2>2, RowsTold DEF DaemonRows
    <3> QED
      BY <2>1, <3>1, SeqDef
  <2>5. channel' \in Seq(TrueMessages)
    BY <2>2, <2>4 DEF TrueMessages
  <2>6. StreamInv'
    <3>1. TrueMessages' = TrueMessages
      BY <1>5, <2>3 DEF world
    <3>2. streams + 1 \in 0 .. MaxStreams
      BY <2>3, BoundsAssumption DEF StreamInv
    <3>3. subscribed' \in BOOLEAN
      BY <2>3, Zenon
    <3>4. late' \in TrueMessages' \cup {NoMessage}
      BY <2>3, <3>1 DEF StreamInv
    <3>5. channel' \in Seq(TrueMessages') /\ streams' \in 0 .. MaxStreams
      BY <2>3, <2>5, <3>1, <3>2
    <3> QED
      BY <3>3, <3>4, <3>5 DEF StreamInv
  <2> QED
    BY <1>5, <2>3, <2>6 DEF MapInv, ShownInv, world, list, filter
<1>8. ASSUME NEW message \in TrueMessages, Apply(message),
             channel' \in Seq(TrueMessages), late' \in TrueMessages \cup {NoMessage},
             fresh' \in BOOLEAN
      PROVE  ListInv'
  <2>1. /\ connectionMap' = Evicted(After(message))
        /\ filtered' \in Lists(connectionMap', FilterInForce) /\ sortedBy' = "none"
        /\ UNCHANGED <<daemon, clock, streams, subscribed, filterState, filterApplied, uses>>
    BY <1>8 DEF Apply, world, filter
  <2>2. connectionMap' \in Maps
    BY <2>1, AfterKeeps
  <2>3. filtered' \in Seq(Row)
    BY <2>1, <2>2, ListsRows DEF Maps, RowFor, OwnRows
  <2> QED
    BY <1>5, <1>8, <2>1, <2>2, <2>3 DEF StreamInv, MapInv, ShownInv
<1>9. CASE ApplyEvents
  <2>1. /\ channel # <<>> /\ channel' = Tail(channel) /\ Apply(Head(channel))
        /\ fresh' = (fresh \/ Head(channel).reset) /\ late' = late
    BY <1>9 DEF ApplyEvents
  <2>2. Head(channel) \in TrueMessages /\ Tail(channel) \in Seq(TrueMessages)
    BY <2>1, HeadTailProperties DEF StreamInv
  <2>3. fresh' \in BOOLEAN
    BY <2>1 DEF ShownInv
  <2> QED
    BY <1>8, <2>1, <2>2, <2>3 DEF StreamInv
<1>10. CASE ApplyLateEvents
  <2>1. late # NoMessage /\ late' = NoMessage /\ Apply(late) /\ fresh' = FALSE
        /\ channel' = channel
    BY <1>10 DEF ApplyLateEvents
  <2> QED
    BY <1>8, <2>1 DEF StreamInv
<1>11. ASSUME NEW state \in {"all", "active", "closed", "unknown"}, FilterState(state)
       PROVE  ListInv'
  <2>1. /\ filterApplied' = TRUE /\ filterState' = state /\ sortedBy' = "none"
        /\ filtered' \in Lists(connectionMap, state)
        /\ uses < MaxUses /\ uses' = uses + 1
        /\ UNCHANGED <<daemon, clock, stream, connectionMap, fresh>>
    BY <1>11 DEF FilterState, Use, world
  <2>2. filtered' \in Seq(Row)
    BY <2>1, ListsRows DEF MapInv, Maps, RowFor, OwnRows
  <2> QED
    BY <1>5, <2>1, <2>2, BoundsAssumption DEF StreamInv, MapInv, ShownInv, stream
<1>12. ASSUME NEW key \in {"date", "traffic", "total"}, SortBy(key) PROVE ListInv'
  <2>1. /\ filtered' \in Orders(filtered, key) /\ sortedBy' = key
        /\ uses < MaxUses /\ uses' = uses + 1
        /\ UNCHANGED <<daemon, clock, stream, connectionMap, filterState, filterApplied, fresh>>
    BY <1>12 DEF SortBy, Use, world, filter
  <2>2. filtered' \in Seq(Row)
    BY <2>1, OrdersAreLists DEF ShownInv
  <2> QED
    BY <1>5, <2>1, <2>2, BoundsAssumption DEF StreamInv, MapInv, ShownInv, stream
<1>13. CASE UNCHANGED vars
  BY <1>5, <1>13 DEF StreamInv, MapInv, ShownInv, vars, world, stream, list, filter
<1> QED
  BY <1>1, <1>2, <1>3, <1>4, <1>6, <1>7, <1>9, <1>10, <1>11, <1>12, <1>13 DEF Next

\* Every reachable state of the list, its stream and the daemon has its types, for every
\* number of connections, messages and streams.
THEOREM TypeCorrect == Spec => []TypeOK
<1>1. ListInv => TypeOK
  <2> SUFFICES ASSUME ListInv PROVE TypeOK
    OBVIOUS
  <2>1. TrueEvents \subseteq Event
    BY DEF TrueEvents
  <2>2. TrueMessages \subseteq Message
    <3>1. Seq(TrueEvents) \subseteq Seq(Event)
      BY <2>1, SeqMonotonic
    <3> QED
      BY <3>1 DEF TrueMessages, Message
  <2>3. channel \in Seq(Message) /\ late \in Message \cup {NoMessage}
    BY <2>2, SeqMonotonic DEF ListInv, StreamInv
  <2>4. connectionMap \in [Id -> Row \cup {NoRow}]
    BY DEF ListInv, MapInv, Maps
  <2> QED
    BY <2>3, <2>4 DEF TypeOK, ListInv, WorldInv, StreamInv, ShownInv
<1> QED
  BY <1>1, ListBegins, ListKept, PTL DEF Spec

\* A connection leaves the list when a stream resets it, or when the daemon closed it
\* longer ago than the limit: no event of any stream, late ones included, drops an open one.
THEOREM LeavesOnlyInTime == Spec => LeavesInTime
<1> DEFINE Leaves ==
      \A i \in Id :
       connectionMap[i] # NoRow /\ connectionMap'[i] = NoRow =>
         \/ \E message \in {late} \cup {channel[k] : k \in DOMAIN channel} :
              Applies(message) /\ message.reset
         \/ /\ daemon[i].closedAt # 0
            /\ clock > daemon[i].closedAt + MaxAge
<1>1. ListInv /\ [Next]_vars => [Leaves]_vars
  <2> SUFFICES ASSUME ListInv, [Next]_vars, NEW i \in Id,
                      connectionMap[i] # NoRow, connectionMap'[i] = NoRow
               PROVE  \/ \E message \in {late} \cup {channel[k] : k \in DOMAIN channel} :
                           Applies(message) /\ message.reset
                      \/ /\ daemon[i].closedAt # 0
                         /\ clock > daemon[i].closedAt + MaxAge
    OBVIOUS
  <2>1. ASSUME NEW message \in TrueMessages, Apply(message), ~message.reset
        PROVE  daemon[i].closedAt # 0 /\ clock > daemon[i].closedAt + MaxAge
    <3>1. /\ After(message) \in Maps /\ After(message)[i] # NoRow
          /\ connectionMap' = Evicted(After(message))
      BY <2>1, AfterKeeps DEF ListInv, Apply
    <3> DEFINE row == After(message)[i]
    <3>2. Expired(row) /\ row \in RowFor(i)
      BY <3>1 DEF Evicted, Maps
    <3>3. /\ row.closedAt \in Time /\ row.closedAt # 0 /\ row.closedAt = daemon[i].closedAt
          /\ clock - row.closedAt > MaxAge /\ clock \in Nat /\ MaxAge \in Nat
      BY <3>2, BoundsAssumption DEF Expired, RowFor, Row, ListInv, WorldInv, Time
    <3> QED
      BY <3>3 DEF Time
  <2>2. connectionMap' # connectionMap
    OBVIOUS
  <2>3. CASE ApplyEvents
    <3>1. /\ channel # <<>> /\ channel' = Tail(channel) /\ Apply(Head(channel))
          /\ channel \in Seq(TrueMessages)
      BY <2>3 DEF ApplyEvents, ListInv, StreamInv
    <3>2. Head(channel) \in TrueMessages /\ Head(channel) \in {channel[k] : k \in DOMAIN channel}
      BY <3>1
    <3>3. Applies(Head(channel))
      BY <3>1 DEF Applies
    <3> QED
      BY <2>1, <3>1, <3>2, <3>3
  <2>4. CASE ApplyLateEvents
    <3>1. late # NoMessage /\ late' = NoMessage /\ Apply(late) /\ late \in TrueMessages
      BY <2>4 DEF ApplyLateEvents, ListInv, StreamInv
    <3>2. Applies(late)
      BY <3>1 DEF Applies
    <3> QED
      BY <2>1, <3>1, <3>2
  <2> QED
    BY <2>2, <2>3, <2>4
    DEF Next, vars, Open, Traffic, Close, Tells, Tick, StreamLost, Subscribe, FilterState,
        SortBy, list
<1> QED
  BY <1>1, ListBegins, ListKept, PTL DEF Spec, LeavesInTime

(***************************************************************************)
(* What is shown is what the map has                                       *)
(***************************************************************************)

LEMMA ViewIs == ViewMatches <=>
  /\ Rows(filtered) = {row \in RowsOf(connectionMap) : Passes(row, FilterInForce)}
  /\ NoTwins(filtered)
  BY DEF ViewMatches, NoTwins

LEMMA ViewIsNext == ViewMatches' <=>
  /\ Rows(filtered') = {row \in RowsOf(connectionMap') : Passes(row, FilterInForce')}
  /\ NoTwins(filtered')
  BY DEF ViewMatches, NoTwins

\* What a sort has arranged is in one of the orders that the sort allows.
SortedInv == sortedBy # "none" => filtered \in Orders(filtered, sortedBy)

\* Every list that is made from the map, and every sort of one, shows what passes.
LEMMA ViewKept ==
  ListInv /\ ListInv' /\ ViewMatches /\ SortedInv /\ [Next]_vars => ViewMatches' /\ SortedInv'
<1> SUFFICES ASSUME ListInv, ListInv', ViewMatches, SortedInv, [Next]_vars
             PROVE  ViewMatches' /\ SortedInv'
  OBVIOUS
<1>1. CASE UNCHANGED <<connectionMap, filtered, filter, sortedBy>>
  <2>1. FilterInForce' = FilterInForce
    BY <1>1 DEF FilterInForce, filter
  <2> QED
    BY <1>1, <2>1, ViewIs, ViewIsNext DEF SortedInv, Orders
<1>2. ASSUME filtered' \in Lists(connectionMap', FilterInForce'), sortedBy' = "none"
      PROVE  ViewMatches' /\ SortedInv'
  <2>1. connectionMap' \in OwnRows
    BY DEF ListInv, MapInv, Maps, RowFor, OwnRows
  <2>2. /\ NoTwins(filtered')
        /\ Rows(filtered') = {row \in RowsOf(connectionMap') : Passes(row, FilterInForce')}
    BY <1>2, <2>1, ListsRows
  <2> QED
    BY <1>2, <2>2, ViewIsNext DEF SortedInv
<1>3. ASSUME NEW message, Apply(message) PROVE ViewMatches' /\ SortedInv'
  <2>1. /\ filtered' \in Lists(connectionMap', FilterInForce) /\ sortedBy' = "none"
        /\ UNCHANGED filter
    BY <1>3 DEF Apply
  <2>2. FilterInForce' = FilterInForce
    BY <2>1 DEF FilterInForce, filter
  <2> QED
    BY <1>2, <2>1, <2>2
<1>4. ASSUME NEW state, FilterState(state) PROVE ViewMatches' /\ SortedInv'
  <2>1. /\ filtered' \in Lists(connectionMap, state) /\ sortedBy' = "none"
        /\ connectionMap' = connectionMap /\ FilterInForce' = state
    BY <1>4 DEF FilterState, FilterInForce
  <2> QED
    BY <1>2, <2>1
<1>5. ASSUME NEW key \in {"date", "traffic", "total"}, SortBy(key) PROVE ViewMatches' /\ SortedInv'
  <2>1. /\ filtered' \in Orders(filtered, key) /\ sortedBy' = key
        /\ UNCHANGED <<connectionMap, filter>> /\ filtered \in Seq(Row)
    BY <1>5 DEF SortBy, ListInv, ShownInv
  <2>2. FilterInForce' = FilterInForce
    BY <2>1 DEF FilterInForce, filter
  <2>3. NoTwins(filtered') /\ Rows(filtered') = Rows(filtered)
        /\ DOMAIN filtered' = DOMAIN filtered
    BY <2>1, ViewIs, OrdersRows, OrdersAreLists
  <2>4. ViewMatches'
    BY <2>1, <2>2, <2>3, ViewIs, ViewIsNext
  <2>5. filtered' \in Orders(filtered', key)
    BY <2>1, <2>3 DEF Orders
  <2> QED
    BY <2>1, <2>4, <2>5 DEF SortedInv
<1> QED
  BY <1>1, <1>3, <1>4, <1>5
  DEF Next, vars, Open, Traffic, Close, Tells, Tick, StreamLost, Subscribe, ApplyEvents,
      ApplyLateEvents, list

\* The comparison of a sort decides between any two connections: equal keys leave the names.
LEMMA BeforeIsTotal ==
  ASSUME NEW x \in Row, NEW y \in Row, NEW key, x.id # y.id
  PROVE  Before(x, y, key) \/ Before(y, x, key)
<1>1. x.id \in Nat /\ y.id \in Nat
  BY IdAssumption DEF Row
<1>2. KeyOf(x, key) \in Nat /\ KeyOf(y, key) \in Nat
  BY DEF KeyOf, Row, Time
<1> QED
  BY <1>1, <1>2 DEF Before

\* So a sort has one outcome: two that differ would differ first at some place k, where each
\* has a row that the other has further back, and the two rows would be equal in order.
LEMMA OneOutcome ==
  ASSUME NEW shown \in Seq(Row), NoTwins(shown), NEW key,
         NEW one \in Orders(shown, key), NEW other \in Orders(shown, key)
  PROVE  one = other
<1> DEFINE n == Len(shown)
<1>1. /\ n \in Nat /\ Rows(shown) \subseteq Row
      /\ one \in [1 .. n -> Rows(shown)] /\ Rows(one) = Rows(shown)
      /\ other \in [1 .. n -> Rows(shown)] /\ Rows(other) = Rows(shown)
      /\ NoTwins(one) /\ NoTwins(other)
  <2>1. n \in Nat /\ shown \in [1 .. n -> Row] /\ DOMAIN shown = 1 .. n
    BY LenProperties
  <2>2. Rows(shown) \subseteq Row
    BY <2>1 DEF Rows
  <2>3. one \in [1 .. n -> Rows(shown)] /\ Rows(one) = Rows(shown) /\ NoTwins(one)
    BY OrdersAreLists, OrdersRows
  <2>4. other \in [1 .. n -> Rows(shown)] /\ Rows(other) = Rows(shown) /\ NoTwins(other)
    BY OrdersAreLists, OrdersRows
  <2> QED
    BY <2>1, <2>2, <2>3, <2>4
<1>2. \A k, l \in 1 .. n : k < l => ~Before(one[l], one[k], key) /\ ~Before(other[l], other[k], key)
  BY <1>1 DEF Orders
<1> HIDE DEF n
<1>3. SUFFICES ASSUME NEW bad \in 1 .. n, one[bad] # other[bad] PROVE FALSE
  BY <1>1
<1> DEFINE T == {k \in 1 .. n : one[k] # other[k]}
<1>4. PICK k \in T : \A m \in T : k <= m
  <2>1. T \in SUBSET Nat /\ T # {}
    BY <1>1, <1>3
  <2> HIDE DEF T
  <2> QED
    BY <2>1, LeastNumber
<1>5. k \in 1 .. n /\ one[k] # other[k] /\ \A m \in 1 .. n : m < k => one[m] = other[m]
  BY <1>1, <1>4
<1>6. PICK l \in 1 .. n : other[l] = one[k]
  <2>1. one[k] \in Rows(other) /\ DOMAIN other = 1 .. n
    BY <1>1, <1>5
  <2> QED
    BY <2>1 DEF Rows
<1>7. PICK m \in 1 .. n : one[m] = other[k]
  <2>1. other[k] \in Rows(one) /\ DOMAIN one = 1 .. n
    BY <1>1, <1>5
  <2> QED
    BY <2>1 DEF Rows
<1>8. l # k /\ m # k /\ ~(l < k) /\ ~(m < k)
  BY <1>1, <1>5, <1>6, <1>7 DEF NoTwins
<1>9. k < l /\ k < m
  BY <1>1, <1>5, <1>8
<1>10. ~Before(one[k], other[k], key) /\ ~Before(other[k], one[k], key)
  BY <1>2, <1>5, <1>6, <1>7, <1>9
<1>11. one[k].id # other[k].id
  <2>1. one[k].id # one[m].id
    BY <1>1, <1>5, <1>9 DEF NoTwins
  <2> QED
    BY <1>7, <2>1
<1> QED
  BY <1>1, <1>5, <1>10, <1>11, BeforeIsTotal

\* What the screen has is exactly what passes the filter, once each, and in the one order of
\* its sort: for every number of connections, whatever order Go's maps have, and over every
\* sequence of messages, filters and sorts.
THEOREM ViewSafe == Spec => [](ViewMatches /\ OneOrder)
<1> DEFINE Inv == ListInv /\ ViewMatches /\ SortedInv
<1>1. Init => Inv
  <2> SUFFICES ASSUME Init PROVE ViewMatches /\ SortedInv
    BY ListBegins
  <2>1. filtered = <<>> /\ DOMAIN filtered = {} /\ connectionMap = [i \in Id |-> NoRow]
    BY DEF Init
  <2>2. Rows(filtered) = {} /\ RowsOf(connectionMap) = {}
    BY <2>1 DEF Rows, RowsOf
  <2>3. ViewMatches
    BY <2>1, <2>2 DEF ViewMatches
  <2> QED
    BY <2>3 DEF Init, SortedInv
<1>2. Inv /\ [Next]_vars => Inv'
  BY ListKept, ViewKept
<1>3. Inv => ViewMatches /\ OneOrder
  <2> SUFFICES ASSUME Inv, sortedBy # "none" PROVE Orders(filtered, sortedBy) = {filtered}
    BY DEF OneOrder
  <2>1. filtered \in Seq(Row) /\ NoTwins(filtered) /\ filtered \in Orders(filtered, sortedBy)
    BY ViewIs DEF ListInv, ShownInv, SortedInv
  <2> QED
    BY <2>1, OneOutcome
<1> QED
  BY <1>1, <1>2, <1>3, PTL DEF Spec

(***************************************************************************)
(* The list mirrors the daemon                                             *)
(***************************************************************************)

\* What Mirror asks of the row of a connection
Agrees(row, conn) ==
  /\ Live(conn) <=> row # NoRow /\ row.closedAt = 0
  /\ Live(conn) => row.total = conn.total
  /\ row # NoRow => row.closedAt = conn.closedAt

\* The first message of a stream: a row for each connection that lives
Snapshot(message, now) ==
  /\ \A k \in DOMAIN message.events :
       LET e == message.events[k]
       IN /\ e.type = "new" /\ e.conn # NoRow /\ now[e.id].created # 0
          /\ e.conn.closedAt = now[e.id].closedAt /\ e.conn.total = now[e.id].total
  /\ \A i \in Id : Live(now[i]) => \E k \in DOMAIN message.events : message.events[k].id = i

\* An event: what it says of its connection is what happened between the two
Happened(e, before, now) ==
  /\ \A i \in Id \ {e.id} : now[i] = before[i]
  /\ \/ /\ e.type = "new" /\ e.conn # NoRow /\ e.conn.closedAt = 0 /\ Live(now[e.id])
        /\ e.conn.total = now[e.id].total
     \/ /\ e.type = "update" /\ Live(before[e.id]) /\ Live(now[e.id])
        /\ now[e.id].total = before[e.id].total + e.delta
     \/ /\ e.type = "closed" /\ now[e.id].closedAt = e.closedAt /\ e.closedAt # 0

Brings(message, before, now) ==
  IF message.reset THEN Snapshot(message, now)
  ELSE /\ Len(message.events) = 1 /\ Happened(message.events[1], before, now)

\* past[k] is what the daemon had when it told the k-th message under way: the last one told
\* what it has now, and a map that is fresh is what it had before the first.
History(past, messages, now, isFresh, map) ==
  /\ past \in [0 .. Len(messages) -> [Id -> Conn]] /\ past[Len(messages)] = now
  /\ \A k \in 1 .. Len(messages) : Brings(messages[k], past[k - 1], past[k])
  /\ isFresh => \A i \in Id : Agrees(map[i], past[0][i])

MirrorInv ==
  /\ ~subscribed => channel = <<>> /\ ~fresh
  /\ \E past : History(past, channel, daemon, fresh, connectionMap)

\* An event brings a map from what the daemon had to what it has.
LEMMA EventMirrors ==
  ASSUME WorldInv, NEW map \in Maps, NEW e \in TrueEvents, NEW before, NEW now,
         Happened(e, before, now), \A i \in Id : Agrees(map[i], before[i])
  PROVE  \A i \in Id : Agrees(Applied(map, e)[i], now[i])
<1> DEFINE i == e.id
           old == map[i]
           new == Effect(old, e)
<1>1. /\ i \in Id /\ e.type \in {"new", "update", "closed"} /\ e.conn \in Row \cup {NoRow}
      /\ old \in Row \cup {NoRow}
  BY DEF TrueEvents, Event, Maps
<1>2. \A j \in Id : Applied(map, e)[j] = IF j = i THEN new ELSE map[j]
  BY <1>1 DEF Applied, Maps
<1>3. Agrees(new, now[i])
  <2>1. CASE e.type = "new"
    <3>1. new = e.conn
      BY <2>1 DEF Effect, Happened
    <3> QED
      BY <2>1, <3>1 DEF Happened, Agrees, Live
  <2>2. CASE e.type = "update"
    <3>1. old \in Row /\ old.closedAt = 0 /\ old.total = before[i].total
      BY <1>1, <2>2 DEF Happened, Agrees
    <3>2. new = [old EXCEPT !.rate = e.delta, !.total = @ + e.delta]
      BY <2>2, <3>1, NoRowIsNoRow DEF Effect, Updated
    <3>3. new # NoRow /\ new.closedAt = old.closedAt /\ new.total = old.total + e.delta
      <4>1. /\ new.id = old.id /\ new.closedAt = old.closedAt
            /\ new.total = old.total + e.delta /\ DOMAIN new = DOMAIN old
        BY <3>1, <3>2 DEF Row
      <4>2. DOMAIN old # DOMAIN NoRow
        BY <3>1 DEF Row, NoRow
      <4> QED
        BY <4>1, <4>2
    <3> QED
      BY <2>2, <3>1, <3>3 DEF Happened, Agrees, Live
  <2>3. CASE e.type = "closed"
    <3> DEFINE brought == IF e.conn = NoRow THEN old ELSE e.conn
    <3>1. new = Ended(brought, e) /\ brought \in Row \cup {NoRow}
      BY <1>1, <2>3 DEF Effect
    <3> HIDE DEF brought
    <3>2. new # NoRow => new.closedAt = e.closedAt
      <4>1. CASE brought = NoRow
        BY <3>1, <4>1 DEF Ended
      <4>2. CASE brought # NoRow
        BY <3>1, <4>2 DEF Ended, Row
      <4> QED
        BY <4>1, <4>2
    <3> QED
      BY <2>3, <3>2 DEF Happened, Agrees, Live
  <2> QED
    BY <1>1, <2>1, <2>2, <2>3
<1> HIDE DEF new
<1> QED
  BY <1>2, <1>3 DEF Happened

\* So does a message: a snapshot from any map at all.
LEMMA MessageMirrors ==
  ASSUME WorldInv, MapInv, NEW message \in TrueMessages, NEW before, NEW now,
         Brings(message, before, now),
         ~message.reset => \A i \in Id : Agrees(connectionMap[i], before[i])
  PROVE  \A i \in Id : Agrees(Evicted(After(message))[i], now[i])
<1> DEFINE n == Len(message.events)
<1>1. /\ message.events \in Seq(TrueEvents) /\ n \in Nat /\ DOMAIN message.events = 1 .. n
      /\ \A k \in 1 .. n : message.events[k] \in TrueEvents
  <2>1. message.events \in Seq(TrueEvents)
    BY DEF TrueMessages
  <2> QED
    BY <2>1, LenProperties, ElementOfSeq
<1>2. After(message) \in Maps
  BY AfterKeeps
<1>3. \A i \in Id : Agrees(After(message)[i], now[i])
  <2>1. CASE message.reset
    <3> DEFINE True == {map \in Maps :
                          \A i \in Id : map[i] # NoRow =>
                            /\ now[i].created # 0 /\ map[i].closedAt = now[i].closedAt
                            /\ map[i].total = now[i].total}
               Good == [k \in 0 .. n |->
                          {map \in True : \A j \in 1 .. k : map[message.events[j].id] # NoRow}]
    <3>1. Snapshot(message, now)
      BY <2>1 DEF Brings
    <3>2. Reset(message) \in Good[0]
      BY <1>1, <2>1 DEF Reset, Maps
    <3>3. ASSUME NEW k \in 1 .. n, NEW map \in Good[k - 1]
          PROVE  Applied(map, message.events[k]) \in Good[k]
      <4> DEFINE e == message.events[k]
                 new == Applied(map, e)
      <4>1. map \in True /\ \A j \in 1 .. k - 1 : map[message.events[j].id] # NoRow
        BY <1>1, <3>3
      <4>2. e \in TrueEvents /\ e.id \in Id /\ \A j \in 1 .. n : message.events[j].id \in Id
        BY <1>1 DEF TrueEvents, Event
      <4>3. new \in Maps /\ \A i \in Id : map[i] # NoRow => new[i] # NoRow
        BY <4>1, <4>2, EventKeeps
      <4>4. e.type = "new" /\ e.conn # NoRow /\ now[e.id].created # 0
            /\ e.conn.closedAt = now[e.id].closedAt /\ e.conn.total = now[e.id].total
        BY <1>1, <3>1 DEF Snapshot
      <4>5. new = [map EXCEPT ![e.id] = e.conn]
        BY <4>4 DEF Applied, Effect
      <4>6. \A i \in Id : new[i] = IF i = e.id THEN e.conn ELSE map[i]
        BY <4>1, <4>2, <4>5 DEF Maps
      <4> HIDE DEF new, e
      <4>7. new \in True
        BY <4>1, <4>3, <4>4, <4>6
      <4>8. \A j \in 1 .. k : new[message.events[j].id] # NoRow
        <5>1. \A j \in 1 .. k : j \in 1 .. n /\ (j \in 1 .. k - 1 \/ j = k)
          BY <1>1
        <5>2. new[e.id] # NoRow
          BY <4>2, <4>4, <4>6
        <5> QED
          BY <4>1, <4>2, <4>3, <5>1, <5>2 DEF e
      <4>9. Good[k] = {m \in True : \A j \in 1 .. k : m[message.events[j].id] # NoRow}
        BY <1>1
      <4> HIDE DEF True, Good
      <4> QED
        BY <4>7, <4>8, <4>9 DEF new, e
    <3>4. After(message) \in Good[n]
      <4> HIDE DEF Good
      <4> QED
        BY <1>1, <3>2, <3>3, AfterAll
    <3>5. After(message) \in True /\ \A j \in 1 .. n : After(message)[message.events[j].id] # NoRow
      BY <1>1, <3>4
    <3>6. \A i \in Id : Live(now[i]) => After(message)[i] # NoRow
      BY <1>1, <3>1, <3>5 DEF Snapshot
    <3> QED
      BY <3>5, <3>6 DEF Agrees, Live
  <2>2. CASE ~message.reset
    <3> DEFINE e == message.events[1]
               Good == [k \in 0 .. 1 |->
                          IF k = 0 THEN {map \in Maps : \A i \in Id : Agrees(map[i], before[i])}
                                   ELSE {map \in Maps : \A i \in Id : Agrees(map[i], now[i])}]
    <3>1. n = 1 /\ Happened(e, before, now)
      BY <2>2 DEF Brings
    <3>2. Reset(message) \in Good[0]
      BY <2>2 DEF Reset, MapInv
    <3>3. ASSUME NEW k \in 1 .. n, NEW map \in Good[k - 1]
          PROVE  Applied(map, message.events[k]) \in Good[k]
      <4>1. k = 1 /\ e \in TrueEvents
        BY <1>1, <3>1
      <4>2. map \in Maps /\ \A i \in Id : Agrees(map[i], before[i])
        BY <3>3, <4>1
      <4>3. Applied(map, e) \in Maps /\ \A i \in Id : Agrees(Applied(map, e)[i], now[i])
        BY <3>1, <4>1, <4>2, EventKeeps, EventMirrors
      <4> QED
        BY <4>1, <4>3
    <3>4. After(message) \in Good[n]
      <4> HIDE DEF Good
      <4> QED
        BY <1>1, <3>2, <3>3, AfterAll
    <3> QED
      BY <3>1, <3>4
  <2> QED
    BY <2>1, <2>2 DEF TrueMessages
<1>4. \A i \in Id : Evicted(After(message))[i] =
        IF After(message)[i] # NoRow /\ Expired(After(message)[i]) THEN NoRow
        ELSE After(message)[i]
  BY DEF Evicted
<1> QED
  BY <1>3, <1>4 DEF Agrees, Expired

\* What the daemon tells while a stream lasts is the next part of its history; what nobody
\* is told of happens while the map is not fresh.
LEMMA TellsMirrors ==
  ASSUME ListInv, MirrorInv, daemon' \in [Id -> Conn], NEW event, Tells(event),
         Happened(event, daemon, daemon')
  PROVE  MirrorInv'
<1>0. UNCHANGED <<subscribed, fresh, connectionMap>>
  BY DEF Tells, list
<1>1. PICK past : History(past, channel, daemon, fresh, connectionMap)
  BY DEF MirrorInv
<1>2. CASE ~subscribed
  <2> DEFINE next == [k \in 0 .. 0 |-> daemon']
  <2>1. channel' = <<>> /\ fresh' = FALSE /\ Len(channel') = 0
    BY <1>0, <1>2, EmptySeq DEF MirrorInv, Tells, ListInv, ShownInv
  <2>2. History(next, channel', daemon', fresh', connectionMap')
    BY <2>1 DEF History
  <2> QED
    BY <1>0, <1>2, <2>1, <2>2 DEF MirrorInv
<1>3. CASE subscribed
  <2> DEFINE n == Len(channel)
             message == [reset |-> FALSE, events |-> <<event>>]
             next == [k \in 0 .. n + 1 |-> IF k = n + 1 THEN daemon' ELSE past[k]]
  <2>1. n \in Nat /\ channel \in Seq(TrueMessages)
    BY LenProperties DEF ListInv, StreamInv
  <2>2. channel' = Append(channel, message)
    BY <1>3 DEF Tells
  <2>3. /\ Len(channel') = n + 1 /\ channel'[n + 1] = message
        /\ \A k \in 1 .. n : channel'[k] = channel[k]
    BY <2>1, <2>2
  <2>4. Brings(message, daemon, daemon')
    BY DEF Brings
  <2> HIDE DEF n, message
  <2>5. /\ past \in [0 .. n -> [Id -> Conn]] /\ past[n] = daemon
        /\ \A k \in 1 .. n : Brings(channel[k], past[k - 1], past[k])
        /\ fresh => \A i \in Id : Agrees(connectionMap[i], past[0][i])
    BY <1>1 DEF History, n
  <2>6. /\ next \in [0 .. n + 1 -> [Id -> Conn]] /\ next[n + 1] = daemon'
        /\ \A k \in 0 .. n : next[k] = past[k]
    BY <2>1, <2>5
  <2>7. ASSUME NEW k \in 1 .. n + 1 PROVE Brings(channel'[k], next[k - 1], next[k])
    <3>1. CASE k = n + 1
      <4>1. next[k - 1] = daemon
        BY <2>1, <2>5, <2>6, <3>1
      <4> QED
        BY <2>3, <2>4, <2>6, <3>1, <4>1
    <3>2. CASE k # n + 1
      <4>1. k \in 1 .. n /\ k - 1 \in 0 .. n /\ k \in 0 .. n
        BY <2>1, <3>2
      <4> HIDE DEF next
      <4> QED
        BY <2>3, <2>5, <2>6, <4>1
    <3> QED
      BY <3>1, <3>2
  <2>8. next[0] = past[0]
    BY <2>1, <2>6
  <2> HIDE DEF next
  <2>9. History(next, channel', daemon', fresh', connectionMap')
    BY <1>0, <2>3, <2>5, <2>6, <2>7, <2>8 DEF History
  <2> QED
    BY <1>0, <1>3, <2>9 DEF MirrorInv
<1> QED
  BY <1>2, <1>3 DEF ListInv, StreamInv

\* Every step keeps the history: the daemon lengthens it, the list takes from its front, a
\* new stream begins a new one.
LEMMA MirrorKept == ListInv /\ ListInv' /\ MirrorInv /\ [Next]_vars => MirrorInv'
<1> SUFFICES ASSUME ListInv, ListInv', MirrorInv, [Next]_vars PROVE MirrorInv'
  OBVIOUS
<1>0. /\ daemon \in [Id -> Conn] /\ daemon' \in [Id -> Conn] /\ clock \in Time \ {0}
      /\ channel \in Seq(TrueMessages) /\ Len(channel) \in Nat
      /\ subscribed \in BOOLEAN /\ fresh \in BOOLEAN
  BY LenProperties DEF ListInv, WorldInv, StreamInv, ShownInv
<1>1. ASSUME NEW i \in Id, Open(i) PROVE MirrorInv'
  <2>1. daemon' = [daemon EXCEPT ![i].created = clock] /\ daemon[i] = Unopened
    BY <1>1 DEF Open
  <2>2. PICK event : event = New(i)' /\ Tells(event)
    BY <1>1 DEF Open
  <2>3. event.type = "new" /\ event.id = i /\ event.conn = RowOf(i)' /\ RowOf(i)' \in Row
    BY <2>2, RowsToldNext DEF DaemonRows, ListInv, RowFor
  <2>4. /\ daemon'[i].created = clock /\ daemon'[i].closedAt = 0 /\ daemon'[i].total = 0
        /\ \A j \in Id \ {i} : daemon'[j] = daemon[j]
    BY <1>0, <2>1 DEF Unopened, Conn
  <2>5. RowOf(i)'.closedAt = 0 /\ RowOf(i)'.total = daemon'[i].total /\ RowOf(i)' # NoRow
    BY <2>3, <2>4, NoRowIsNoRow DEF RowOf
  <2>6. Happened(event, daemon, daemon')
    BY <1>0, <2>3, <2>4, <2>5 DEF Happened, Live
  <2> QED
    BY <1>0, <2>2, <2>6, TellsMirrors
<1>2. ASSUME NEW i \in Id, Traffic(i) PROVE MirrorInv'
  <2>1. daemon' = [daemon EXCEPT ![i].total = @ + 1] /\ Live(daemon[i])
    BY <1>2 DEF Traffic
  <2>2. PICK event : event = [Plain("update", i) EXCEPT !.delta = 1] /\ Tells(event)
    BY <1>2 DEF Traffic
  <2>3. event.type = "update" /\ event.id = i /\ event.delta = 1
    BY <2>2 DEF Plain
  <2>4. /\ daemon'[i].total = daemon[i].total + 1 /\ daemon'[i].created = daemon[i].created
        /\ daemon'[i].closedAt = daemon[i].closedAt
        /\ \A j \in Id \ {i} : daemon'[j] = daemon[j]
    BY <1>0, <2>1 DEF Conn
  <2>5. Happened(event, daemon, daemon')
    BY <2>1, <2>3, <2>4 DEF Happened, Live
  <2> QED
    BY <1>0, <2>2, <2>5, TellsMirrors
<1>3. ASSUME NEW i \in Id, NEW withConn \in BOOLEAN, Close(i, withConn) PROVE MirrorInv'
  <2>1. daemon' = [daemon EXCEPT ![i].closedAt = clock]
    BY <1>3 DEF Close
  <2>2. PICK event :
          /\ event = [Plain("closed", i) EXCEPT
                        !.conn = IF withConn THEN RowOf(i)' ELSE NoRow, !.closedAt = clock]
          /\ Tells(event)
    BY <1>3 DEF Close
  <2>3. event.type = "closed" /\ event.id = i /\ event.closedAt = clock
    BY <2>2 DEF Plain
  <2>4. daemon'[i].closedAt = clock /\ \A j \in Id \ {i} : daemon'[j] = daemon[j]
    BY <1>0, <2>1 DEF Conn
  <2>5. Happened(event, daemon, daemon')
    BY <1>0, <2>3, <2>4 DEF Happened
  <2> QED
    BY <1>0, <2>2, <2>5, TellsMirrors
<1>4. CASE UNCHANGED <<daemon, channel, connectionMap, fresh, subscribed>>
  BY <1>4 DEF MirrorInv, History
<1>5. CASE StreamLost
  <2> DEFINE next == [k \in 0 .. 0 |-> daemon']
  <2>1. channel' = <<>> /\ fresh' = FALSE /\ Len(channel') = 0
    BY <1>5, EmptySeq DEF StreamLost
  <2>2. History(next, channel', daemon', fresh', connectionMap')
    BY <1>0, <2>1 DEF History
  <2> QED
    BY <2>1, <2>2 DEF MirrorInv
<1>6. ASSUME NEW ids \in {{i \in Id : daemon[i].created # 0}, {i \in Id : Live(daemon[i])}},
             Subscribe(ids)
      PROVE  MirrorInv'
  <2> DEFINE n == Cardinality(ids)
             next == [k \in 0 .. 1 |-> daemon']
  <2>1. /\ ids \in SUBSET Id /\ n \in Nat /\ IsFiniteSet(ids)
        /\ \A i \in ids : daemon[i].created # 0
        /\ \A i \in Id : Live(daemon[i]) => i \in ids
    <3>1. ids \in SUBSET Id
      BY <1>6
    <3>2. n \in Nat /\ IsFiniteSet(ids)
      BY <3>1, IdAssumption, FS_Subset, FS_CardinalityType
    <3>3. \A i \in ids : daemon[i].created # 0
      BY <1>6 DEF Live
    <3>4. \A i \in Id : Live(daemon[i]) => i \in ids
      BY <1>6 DEF Live
    <3> QED
      BY <3>1, <3>2, <3>3, <3>4
  <2>2. PICK order \in [1 .. n -> ids] :
          /\ \A k, l \in DOMAIN order : k < l => order[k] < order[l]
          /\ channel' = <<[reset |-> TRUE, events |-> [k \in DOMAIN order |-> New(order[k])]]>>
    BY <1>6 DEF Subscribe
  <2>3. subscribed' = TRUE /\ fresh' = FALSE /\ daemon' = daemon
    BY <1>0, <1>6 DEF Subscribe, MirrorInv, world, list
  <2> HIDE DEF n
  <2>4. \A i \in ids : \E k \in 1 .. n : order[k] = i
    <3>1. \A k, l \in 1 .. n : order[k] = order[l] => k = l
      <4> SUFFICES ASSUME NEW k \in 1 .. n, NEW l \in 1 .. n, order[k] = order[l], k # l
                   PROVE  FALSE
        OBVIOUS
      <4>1. k < l \/ l < k
        BY <2>1
      <4>2. order[k] \in Nat /\ order[l] \in Nat /\ DOMAIN order = 1 .. n
        BY <2>1, <2>2, IdAssumption
      <4>3. order[k] < order[l] \/ order[l] < order[k]
        BY <2>2, <4>1, <4>2
      <4> QED
        BY <4>2, <4>3
    <3>2. order \in Injection(1 .. n, ids)
      BY <2>2, <3>1 DEF Injection, IsInjective
    <3>3. IsFiniteSet(1 .. n) /\ Cardinality(1 .. n) = n
      BY <2>1, FS_Interval
    <3>4. order \in Surjection(1 .. n, ids)
      BY <2>1, <3>2, <3>3, FS_Injection DEF n
    <3> QED
      BY <3>4 DEF Surjection
  <2> DEFINE events  == [k \in 1 .. n |-> New(order[k])]
             message == [reset |-> TRUE, events |-> events]
  <2>5. channel' = <<message>> /\ message.events = events /\ message.reset
    BY <2>2
  <2>6. ASSUME NEW k \in 1 .. n
        PROVE  /\ events[k].type = "new" /\ events[k].conn # NoRow /\ events[k].id = order[k]
               /\ daemon[order[k]].created # 0
               /\ events[k].conn.closedAt = daemon[order[k]].closedAt
               /\ events[k].conn.total = daemon[order[k]].total
    <3>1. order[k] \in Id /\ daemon[order[k]].created # 0 /\ events[k] = New(order[k])
      BY <2>1, <2>2
    <3>2. /\ New(order[k]).type = "new" /\ New(order[k]).id = order[k]
          /\ New(order[k]).conn = RowOf(order[k]) /\ RowOf(order[k]) \in Row
      BY <3>1, RowsTold DEF DaemonRows, ListInv, RowFor
    <3>3. RowOf(order[k]).closedAt = daemon[order[k]].closedAt
          /\ RowOf(order[k]).total = daemon[order[k]].total
      BY DEF RowOf
    <3> HIDE DEF events
    <3> QED
      BY <3>1, <3>2, <3>3, NoRowIsNoRow
  <2>7. DOMAIN events = 1 .. n
    OBVIOUS
  <2> HIDE DEF events
  <2>8. Snapshot(message, daemon)
    BY <2>1, <2>4, <2>6, <2>7 DEF Snapshot
  <2>9. Brings(message, daemon, daemon)
    BY <2>8 DEF Brings
  <2> HIDE DEF message
  <2>10. Len(channel') = 1 /\ channel'[1] = message
    BY <2>5
  <2>11. next \in [0 .. 1 -> [Id -> Conn]] /\ next[0] = daemon' /\ next[1] = daemon'
    BY <1>0
  <2> HIDE DEF next
  <2>12. History(next, channel', daemon', fresh', connectionMap')
    BY <2>3, <2>9, <2>10, <2>11 DEF History
  <2> QED
    BY <2>3, <2>12 DEF MirrorInv
<1>7. CASE ApplyEvents
  <2> DEFINE n == Len(channel)
             message == Head(channel)
  <2>1. /\ channel # <<>> /\ channel' = Tail(channel) /\ fresh' = (fresh \/ message.reset)
        /\ Apply(message)
    BY <1>7 DEF ApplyEvents
  <2>2. /\ connectionMap' = Evicted(After(message)) /\ UNCHANGED <<daemon, subscribed>>
    BY <2>1 DEF Apply, world
  <2>3. /\ message \in TrueMessages /\ message = channel[1] /\ n \in Nat \ {0}
        /\ Len(channel') = n - 1 /\ \A k \in 1 .. n - 1 : channel'[k] = channel[k + 1]
    BY <1>0, <2>1, HeadTailProperties, EmptySeq
  <2>4. PICK past : History(past, channel, daemon, fresh, connectionMap)
    BY DEF MirrorInv
  <2> DEFINE next == [k \in 0 .. n - 1 |-> past[k + 1]]
  <2> HIDE DEF n, message
  <2>5. /\ past \in [0 .. n -> [Id -> Conn]] /\ past[n] = daemon
        /\ \A k \in 1 .. n : Brings(channel[k], past[k - 1], past[k])
        /\ fresh => \A i \in Id : Agrees(connectionMap[i], past[0][i])
    BY <2>4 DEF History, n
  <2>6. /\ next \in [0 .. n - 1 -> [Id -> Conn]] /\ next[n - 1] = daemon'
        /\ next[0] = past[1]
    BY <2>2, <2>3, <2>5
  <2>7. ASSUME NEW k \in 1 .. n - 1 PROVE Brings(channel'[k], next[k - 1], next[k])
    <3>1. k + 1 \in 1 .. n /\ next[k - 1] = past[k] /\ next[k] = past[k + 1]
      BY <2>3
    <3>2. Brings(channel[k + 1], past[k], past[k + 1])
      BY <2>3, <2>5, <3>1
    <3> QED
      BY <2>3, <3>1, <3>2
  <2>8. ASSUME fresh' PROVE \A i \in Id : Agrees(connectionMap'[i], past[1][i])
    <3>1. Brings(message, past[0], past[1])
      BY <2>3, <2>5
    <3>2. ~message.reset => \A i \in Id : Agrees(connectionMap[i], past[0][i])
      BY <2>1, <2>5, <2>8
    <3> QED
      BY <2>2, <2>3, <3>1, <3>2, MessageMirrors DEF ListInv
  <2> HIDE DEF next
  <2>9. History(next, channel', daemon', fresh', connectionMap')
    BY <2>3, <2>6, <2>7, <2>8 DEF History
  <2> QED
    BY <2>1, <2>2, <2>9 DEF MirrorInv
<1>8. CASE ApplyLateEvents
  <2>1. channel' = channel /\ fresh' = FALSE /\ UNCHANGED <<daemon, subscribed>>
    BY <1>8 DEF ApplyLateEvents, Apply, world
  <2> QED
    BY <2>1 DEF MirrorInv, History
<1> QED
  BY <1>1, <1>2, <1>3, <1>4, <1>5, <1>6, <1>7, <1>8
  DEF Next, vars, Tick, FilterState, SortBy, world, stream, list

\* A list that has read its stream to the end shows as open what is open, with its traffic:
\* for every number of connections, of changes and of streams that end and begin again, and
\* for every message that comes late.
THEOREM ListMirrors == Spec => []Mirror
<1> DEFINE Inv == ListInv /\ MirrorInv
<1>1. Init => Inv
  <2> SUFFICES ASSUME Init PROVE MirrorInv
    BY ListBegins
  <2> DEFINE past == [k \in 0 .. 0 |-> daemon]
  <2>1. channel = <<>> /\ fresh = FALSE /\ Len(channel) = 0
    BY EmptySeq DEF Init
  <2>2. daemon \in [Id -> Conn]
    BY ListBegins DEF ListInv, WorldInv
  <2>3. History(past, channel, daemon, fresh, connectionMap)
    BY <2>1, <2>2 DEF History
  <2> QED
    BY <2>1, <2>3 DEF MirrorInv
<1>2. Inv /\ [Next]_vars => Inv'
  BY ListKept, MirrorKept
<1>3. Inv => Mirror
  <2> SUFFICES ASSUME Inv, fresh, channel = <<>> PROVE \A i \in Id : Agrees(connectionMap[i], daemon[i])
    BY DEF Mirror, Agrees
  <2>1. Len(channel) = 0
    BY EmptySeq
  <2> QED
    BY <2>1 DEF MirrorInv, History
<1> QED
  BY <1>1, <1>2, <1>3, PTL DEF Spec
=============================================================================
