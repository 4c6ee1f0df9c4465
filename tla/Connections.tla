---------------------------- MODULE Connections -----------------------------
(***************************************************************************)
(* libbox's list of connections, and the stream of events that feeds it.   *)
(*                                                                         *)
(* Each connection stream starts with a message that resets the list.  The *)
(* goroutine of a stream receives a message and hands it over in two steps *)
(* (handleConnectionsStream); nothing keeps the goroutine of an earlier    *)
(* stream from handing its last message over behind those of the next.     *)
(* The list has no lock: its user must have one, and an operation is a     *)
(* step.                                                                   *)
(* Traffic has one direction; the other is treated in the same way.        *)
(***************************************************************************)
EXTENDS Integers, Sequences, FiniteSets, FiniteSetsExt

CONSTANTS
  Id,           \* connections, ordered as their names are
  MaxAge,       \* closedConnectionMaxAge
  MaxClock,     \* bound: the clock, which daemon and list share
  MaxTraffic,   \* bound: traffic
  MaxStreams,   \* bound: streams
  MaxChannel,   \* bound: messages under way
  MaxUses       \* bound: filters and sorts

ASSUME IdAssumption == Id \subseteq Nat /\ IsFiniteSet(Id)
ASSUME BoundsAssumption ==
  /\ {MaxAge, MaxTraffic, MaxStreams, MaxChannel, MaxUses} \subseteq Nat
  /\ MaxClock \in Nat \ {0}

VARIABLES
  daemon,         \* [Id -> the connection as the daemon has it]
  clock,
  streams,        \* streams so far
  subscribed,     \* the last of them lasts
  channel,        \* its messages
  late,           \* the message the goroutine of an earlier stream still has
  connectionMap,
  filtered,
  filterState, filterApplied,
  uses,
  fresh,          \* observability: the map is the present stream's
  sortedBy        \* observability: the order of filtered, if any

world  == <<daemon, clock>>
stream == <<streams, subscribed, channel, late>>
filter == <<filterState, filterApplied>>
list   == <<connectionMap, filtered, filter, uses, fresh, sortedBy>>
vars   == <<world, stream, list>>

Time == 0 .. MaxClock   \* 0 = not yet: the clock starts at 1
Row == [id : Id, created : Time, closedAt : Time, rate : Nat, total : Nat]
NoRow == [id |-> "none"]
NoMessage == [events |-> "none"]

Unopened == [created |-> 0, closedAt |-> 0, total |-> 0]
Conn == [created : Time, closedAt : Time, total : Nat]
Live(conn) == conn.created # 0 /\ conn.closedAt = 0

Event ==
  [type : {"new", "update", "closed"}, id : Id, conn : Row \cup {NoRow},
   delta : Nat, closedAt : Time]
Message == [reset : BOOLEAN, events : Seq(Event)]

TypeOK ==
  /\ daemon \in [Id -> Conn]
  /\ clock \in Time
  /\ streams \in 0 .. MaxStreams /\ uses \in 0 .. MaxUses
  /\ channel \in Seq(Message) /\ late \in Message \cup {NoMessage}
  /\ connectionMap \in [Id -> Row \cup {NoRow}]
  /\ filtered \in Seq(Row)
  /\ filterState \in {"all", "active", "closed", "unknown"}
  /\ {subscribed, filterApplied, fresh} \subseteq BOOLEAN
  /\ sortedBy \in {"none", "date", "traffic", "total"}

Init ==
  /\ daemon = [i \in Id |-> Unopened]
  /\ clock = 1
  /\ streams = 0 /\ subscribed = FALSE /\ channel = <<>> /\ late = NoMessage
  /\ connectionMap = [i \in Id |-> NoRow]
  /\ filtered = <<>> /\ filterState = "all" /\ filterApplied = FALSE
  /\ uses = 0 /\ fresh = FALSE /\ sortedBy = "none"

-----------------------------------------------------------------------------
(* The daemon: connections come, carry traffic and go; it tells its stream *)

RowOf(i) ==
  [id |-> i, created |-> daemon[i].created, closedAt |-> daemon[i].closedAt,
   rate |-> 0, total |-> daemon[i].total]

Plain(type, i) == [type |-> type, id |-> i, conn |-> NoRow, delta |-> 0, closedAt |-> 0]
New(i) == [Plain("new", i) EXCEPT !.conn = RowOf(i)]

Tells(event) ==
  /\ IF subscribed
     THEN /\ Len(channel) < MaxChannel
          /\ channel' = Append(channel, [reset |-> FALSE, events |-> <<event>>])
     ELSE UNCHANGED channel
  /\ UNCHANGED <<clock, streams, subscribed, late, list>>

Open(i) ==
  /\ daemon[i] = Unopened
  /\ daemon' = [daemon EXCEPT ![i].created = clock]
  /\ Tells(New(i)')

Carried == MapThenSumSet(LAMBDA i : daemon[i].total, Id)

Traffic(i) ==
  /\ Live(daemon[i]) /\ Carried < MaxTraffic
  /\ daemon' = [daemon EXCEPT ![i].total = @ + 1]
  /\ Tells([Plain("update", i) EXCEPT !.delta = 1])

\* The event of a closure may bring the connection with it
Close(i, withConn) ==
  /\ Live(daemon[i])
  /\ daemon' = [daemon EXCEPT ![i].closedAt = clock]
  /\ Tells([Plain("closed", i) EXCEPT
              !.conn = IF withConn THEN RowOf(i)' ELSE NoRow, !.closedAt = clock])

Tick ==
  /\ clock < MaxClock /\ clock' = clock + 1
  /\ UNCHANGED <<daemon, stream, list>>

\* The stream ends.  What is under way is lost, but for a message that its goroutine
\* has received and not yet handed over (one such message at a time).
StreamLost ==
  /\ subscribed /\ subscribed' = FALSE
  /\ channel' = <<>>
  /\ UNCHANGED late \/ (channel # <<>> /\ late' = Head(channel))
  /\ fresh' = FALSE
  /\ UNCHANGED <<world, streams, connectionMap, filtered, filter, uses, sortedBy>>

\* A new stream: its first message resets the list and has all connections, with
\* or without those closed.
Subscribe(ids) ==
  /\ ~subscribed /\ subscribed' = TRUE
  /\ streams < MaxStreams /\ streams' = streams + 1
  /\ \E order \in [1 .. Cardinality(ids) -> ids] :
       /\ \A k, l \in DOMAIN order : k < l => order[k] < order[l]
       /\ channel' = <<[reset |-> TRUE, events |-> [k \in DOMAIN order |-> New(order[k])]]>>
  /\ UNCHANGED <<world, late, list>>

-----------------------------------------------------------------------------
(* The list                                                                *)

BugUpdated(row, e) ==   \* a delta is taken for a total
  IF row = NoRow THEN NoRow
  ELSE [row EXCEPT !.rate = e.delta - row.total, !.total = e.delta]

\* What an event makes of the row of its connection
Updated(row, e) ==
  IF row = NoRow THEN NoRow
  ELSE [row EXCEPT !.rate = e.delta, !.total = @ + e.delta]

Ended(row, e) ==
  IF row = NoRow THEN NoRow ELSE [row EXCEPT !.closedAt = e.closedAt, !.rate = 0]

Effect(row, e) ==
  LET brought == IF e.conn = NoRow THEN row ELSE e.conn
  IN IF e.type = "update" THEN Updated(row, e)
     ELSE IF e.type = "closed" THEN Ended(brought, e) ELSE brought

Applied(map, e) == [map EXCEPT ![e.id] = Effect(@, e)]

BugExpired(row) == clock - row.closedAt > MaxAge   \* open ones, too

Expired(row) == row.closedAt # 0 /\ clock - row.closedAt > MaxAge

Evicted(map) ==
  [i \in Id |-> IF map[i] # NoRow /\ Expired(map[i]) THEN NoRow ELSE map[i]]

RowsOf(map) == {map[i] : i \in Id} \ {NoRow}
Rows(rows) == {rows[k] : k \in DOMAIN rows}

Passes(row, state) ==
  \/ state = "all"
  \/ state = "active" /\ row.closedAt = 0
  \/ state = "closed" /\ row.closedAt # 0

\* The rows of a map that pass a filter, in some order: that of Go's maps is arbitrary
Lists(map, state) ==
  LET passing == {row \in RowsOf(map) : Passes(row, state)}
  IN {rows \in [1 .. Cardinality(passing) -> passing] : Rows(rows) = passing}

BugFilterInForce == "all"   \* filterApplied is not looked at

FilterInForce == IF filterApplied THEN filterState ELSE "all"

BugReset(message) == connectionMap   \* Reset is not looked at

Reset(message) == IF message.reset THEN [i \in Id |-> NoRow] ELSE connectionMap

\* The map behind all events of a message
After(message) ==
  LET rows[k \in 0 .. Len(message.events)] ==
        IF k = 0 THEN Reset(message) ELSE Applied(rows[k - 1], message.events[k])
  IN rows[Len(message.events)]

\* All events of a message, eviction, and the list anew, through the filter there is
Apply(message) ==
  /\ connectionMap' = Evicted(After(message))
  /\ filtered' \in Lists(connectionMap', FilterInForce)
  /\ sortedBy' = "none"
  /\ UNCHANGED <<world, streams, subscribed, filter, uses>>

ApplyEvents ==
  /\ channel # <<>> /\ channel' = Tail(channel)
  /\ Apply(Head(channel))
  /\ fresh' = (fresh \/ Head(channel).reset)
  /\ UNCHANGED late

ApplyLateEvents ==
  /\ late # NoMessage /\ late' = NoMessage
  /\ Apply(late)
  /\ fresh' = FALSE
  /\ UNCHANGED channel

\* The user of the list filters and sorts it
Use == uses < MaxUses /\ uses' = uses + 1

FilterState(state) ==
  /\ Use
  /\ filterApplied' = TRUE /\ filterState' = state
  /\ filtered' \in Lists(connectionMap, state)
  /\ sortedBy' = "none"
  /\ UNCHANGED <<world, stream, connectionMap, fresh>>

KeyOf(row, key) ==
  IF key = "date" THEN row.created ELSE IF key = "traffic" THEN row.rate ELSE row.total

BugBefore(x, y, key) == KeyOf(x, key) > KeyOf(y, key)   \* names are not compared

Before(x, y, key) ==
  \/ KeyOf(x, key) > KeyOf(y, key)
  \/ KeyOf(x, key) = KeyOf(y, key) /\ x.id > y.id

Orders(shown, key) ==
  {rows \in [DOMAIN shown -> Rows(shown)] :
     /\ Rows(rows) = Rows(shown)
     /\ \A k, l \in DOMAIN rows : k < l => ~Before(rows[l], rows[k], key)}

\* SortByDate, SortByTraffic, SortByTrafficTotal
SortBy(key) ==
  /\ Use /\ filtered # <<>>
  /\ filtered' \in Orders(filtered, key)
  /\ sortedBy' = key
  /\ UNCHANGED <<world, stream, connectionMap, filter, fresh>>

-----------------------------------------------------------------------------
Next ==
  \/ \E i \in Id : Open(i) \/ Traffic(i) \/ \E withConn \in BOOLEAN : Close(i, withConn)
  \/ Tick \/ StreamLost
  \/ \E ids \in {{i \in Id : daemon[i].created # 0}, {i \in Id : Live(daemon[i])}} :
       Subscribe(ids)
  \/ ApplyEvents \/ ApplyLateEvents
  \/ \E state \in {"all", "active", "closed", "unknown"} : FilterState(state)
  \/ \E key \in {"date", "traffic", "total"} : SortBy(key)

Spec == Init /\ [][Next]_vars

-----------------------------------------------------------------------------
(* Properties                                                              *)

\* A list that is up to date with its stream shows as open the connections that are,
\* with their traffic, and no other: sums of deltas, resets and closures agree with
\* what the daemon told, over every change of stream.  The exception is a message of
\* an earlier stream that came late (fresh).
Mirror ==
  fresh /\ channel = <<>> =>
    \A i \in Id :
      LET row == connectionMap[i]
      IN /\ Live(daemon[i]) <=> row # NoRow /\ row.closedAt = 0
         /\ Live(daemon[i]) => row.total = daemon[i].total
         /\ row # NoRow => row.closedAt = daemon[i].closedAt

\* The list has each row of the map that passes the filter chosen last, once,
\* however many events have come since.
ViewMatches ==
  /\ Rows(filtered) = {row \in RowsOf(connectionMap) : Passes(row, FilterInForce)}
  /\ \A k, l \in DOMAIN filtered : filtered[k].id = filtered[l].id => k = l

\* A sort leaves one possible list: the order of Go's maps, which changes with every
\* message, does not show.
OneOrder == sortedBy # "none" => Orders(filtered, sortedBy) = {filtered}

\* A step that applies a message
Applies(message) ==
  \/ channel # <<>> /\ channel' = Tail(channel) /\ message = Head(channel)
  \/ late # NoMessage /\ late' = NoMessage /\ message = late

\* A connection leaves the list for two reasons only: the first message of a stream, or
\* that the daemon closed it long enough ago by the list's clock.
LeavesInTime ==
  [][\A i \in Id :
       connectionMap[i] # NoRow /\ connectionMap'[i] = NoRow =>
         \/ \E message \in {late} \cup {channel[k] : k \in DOMAIN channel} :
              Applies(message) /\ message.reset
         \/ /\ daemon[i].closedAt # 0
            /\ clock > daemon[i].closedAt + MaxAge]_vars
=============================================================================
