------------------------- MODULE AggregationProofs -------------------------
(***************************************************************************)
(* Proofs about Aggregation, for any groups, events, hours and bounds: the *)
(* types, that only whole hours are aggregated, that no event counts       *)
(* twice, and that a row's percentiles are in order; and, for a worker     *)
(* whose passes end in the hour in which they become due, that no hour is  *)
(* passed over and that no bucket loses what it has counted.               *)
(***************************************************************************)
EXTENDS Aggregation, PercentileProofs

-----------------------------------------------------------------------------
(***************************************************************************)
(* Hours.                                                                  *)
(***************************************************************************)
IsHour(h) == \E k \in Int : h = HourLen * k

LEMMA DivMod ==
    ASSUME NEW t \in Int, NEW n \in Nat, n # 0
    PROVE  /\ t \div n \in Int /\ t % n \in Int
           /\ 0 <= t % n /\ t % n < n
           /\ t = n * (t \div n) + (t % n)
  OBVIOUS

LEMMA HourFacts ==
    ASSUME NEW t \in Int
    PROVE  /\ HourOf(t) \in Int /\ IsHour(HourOf(t))
           /\ HourOf(t) <= t /\ t < HourOf(t) + HourLen
<1> DEFINE k == t \div HourLen
           m == t % HourLen
<1>1. k \in Int /\ m \in Int /\ 0 <= m /\ m < HourLen /\ t = HourLen * k + m
  BY DivMod, TimeAssumption, HourAssumption
<1>2. HourOf(t) = t - m
  BY DEF HourOf
<1> HIDE DEF k, m
<1>3. HourLen * k \in Int
  BY <1>1, TimeAssumption, HourAssumption
<1>4. HourOf(t) = HourLen * k
  BY <1>1, <1>2, <1>3
<1> QED
  BY <1>1, <1>2, <1>3, <1>4, TimeAssumption, HourAssumption DEF IsHour

LEMMA PreviousHour ==
    ASSUME NEW h \in Int, IsHour(h)
    PROVE  h - HourLen \in Int /\ IsHour(h - HourLen)
<1>1. PICK k \in Int : h = HourLen * k
  BY DEF IsHour
<1>2. h - HourLen = HourLen * (k - 1)
  BY <1>1, TimeAssumption, HourAssumption
<1> QED
  BY <1>2, TimeAssumption, HourAssumption DEF IsHour

\* The window the query selects by is the hour an event belongs to.
LEMMA WindowIsHour ==
    ASSUME NEW h \in Int, IsHour(h), NEW t \in Int, h <= t, t < h + HourLen
    PROVE  HourOf(t) = h
<1>1. PICK k \in Int : h = HourLen * k
  BY DEF IsHour
<1>2. PICK n \in Int : HourOf(t) = HourLen * n
  BY HourFacts DEF IsHour
<1>3. /\ HourLen * n < HourLen * k + HourLen
      /\ HourLen * k < HourLen * n + HourLen
  BY <1>1, <1>2, HourFacts, TimeAssumption, HourAssumption
<1>4. ASSUME NEW a \in Int, NEW b \in Int, a < b
      PROVE  HourLen * a + HourLen <= HourLen * b
  <2>1. HourLen * b = HourLen * a + HourLen * (b - a)
    BY TimeAssumption, HourAssumption
  <2>2. HourLen <= HourLen * (b - a)
    BY <1>4, TimeAssumption, HourAssumption
  <2> QED
    BY <2>1, <2>2, TimeAssumption, HourAssumption
<1>5. n = k
  BY <1>3, <1>4, TimeAssumption, HourAssumption
<1> QED
  BY <1>1, <1>2, <1>5
-----------------------------------------------------------------------------
(***************************************************************************)
(* The inductive invariant: what the tables' rows are is known already of  *)
(* the rows a pass has computed and not yet written.                       *)
(***************************************************************************)
Consistent(b) == /\ b.errors <= b.total /\ b.total > 0
                 /\ b.p50 <= b.p95 /\ b.p95 <= b.p99

Counted(b) == b.total <= Cardinality({e \in accepted :
                            e.group = b.group /\ HourOf(e.created) = b.hour})

EventsInv == /\ IsFiniteSet(accepted) /\ events \subseteq accepted

PassInv ==
    /\ IsHour(agg.hour)
    /\ agg.pc \in {"scan", "write"} => agg.hour + HourLen <= clock
    /\ \A row \in agg.todo : /\ row.hour = agg.hour /\ agg.pc = "write"
                             /\ Consistent(row) /\ Counted(row)

BucketsInv ==
    /\ \A b \in buckets : /\ b.hour + HourLen <= clock
                          /\ Consistent(b) /\ Counted(b)
    /\ \A b, c \in buckets : b.group = c.group /\ b.hour = c.hour => b = c

AggInv == TypeOK /\ EventsInv /\ PassInv /\ BucketsInv

\* A pass's rows are buckets of its hour and count accepted events only.
LEMMA RowFacts ==
    ASSUME TypeOK, EventsInv, PassInv, NEW row \in Rows(agg.hour)
    PROVE  /\ row \in Bucket /\ row.hour = agg.hour
           /\ Consistent(row) /\ Counted(row)
<1>1. PICK g \in {e.group : e \in InHour(agg.hour)} :
         row = BucketRow(g, agg.hour, OfGroup(InHour(agg.hour), g))
  BY DEF Rows
<1> DEFINE list == OfGroup(InHour(agg.hour), g)
           mine == {e \in accepted :
                      e.group = g /\ HourOf(e.created) = agg.hour}
<1>2. agg.hour \in Int
  BY DEF TypeOK, Worker
<1>3. list \subseteq events /\ list \subseteq Event /\ g \in Groups /\ list # {}
  BY <1>1 DEF OfGroup, InHour, TypeOK, Event
<1>4. list \subseteq mine
  <2> SUFFICES ASSUME NEW e \in list PROVE e \in mine
    OBVIOUS
  <2>1. /\ e \in accepted /\ e.group = g /\ e.created \in Int
        /\ agg.hour <= e.created /\ e.created < agg.hour + HourLen
    BY <1>3 DEF OfGroup, InHour, EventsInv, Event
  <2> QED
    BY <1>2, <2>1, WindowIsHour DEF PassInv
<1>5. /\ IsFiniteSet(mine) /\ IsFiniteSet(list)
      /\ Cardinality(list) \in Nat /\ Cardinality(list) > 0
      /\ Cardinality(list) <= Cardinality(mine)
  <2>1. IsFiniteSet(mine)
    BY FS_Subset DEF EventsInv
  <2>2. IsFiniteSet(list) /\ Cardinality(list) <= Cardinality(mine)
    BY <1>4, <2>1, FS_Subset
  <2>3. Cardinality(list) \in Nat /\ Cardinality(list) # 0
    BY <1>3, <2>2, FS_CardinalityType, FS_EmptySet
  <2> QED
    BY <2>1, <2>2, <2>3
<1>6. Cardinality(Errors(list)) \in Nat
      /\ Cardinality(Errors(list)) <= Cardinality(list)
  <2>1. Errors(list) \subseteq list
    BY DEF Errors
  <2> QED
    BY <1>5, <2>1, FS_Subset, FS_CardinalityType
<1>7. \A e \in list : e.dur \in Nat
  BY <1>3 DEF Event
<1>8. \A q \in Quantiles : Percentile(list, q) \in Nat
  <2> HIDE DEF list
  <2> QED
    BY <1>3, <1>5, <1>7, PercentileFacts
<1>9. /\ Percentile(list, 50) <= Percentile(list, 95)
      /\ Percentile(list, 95) <= Percentile(list, 99)
  <2> HIDE DEF list
  <2>1. 50 \in Quantiles /\ 95 \in Quantiles /\ 99 \in Quantiles
    BY DEF Quantiles
  <2> QED
    BY <1>3, <1>5, <1>7, <2>1, PercentilesOrdered
<1> HIDE DEF list
<1>10. row = [group |-> g, hour |-> agg.hour, total |-> Cardinality(list),
              errors |-> Cardinality(Errors(list)),
              p50 |-> Percentile(list, 50), p95 |-> Percentile(list, 95),
              p99 |-> Percentile(list, 99)]
  BY <1>1 DEF BucketRow, list
<1>11. row \in Bucket
  BY <1>2, <1>3, <1>5, <1>6, <1>8, <1>10 DEF Bucket, Quantiles
<1>12. Consistent(row)
  BY <1>5, <1>6, <1>9, <1>10 DEF Consistent
<1>13. Counted(row)
  BY <1>5, <1>10 DEF Counted
<1> QED
  BY <1>10, <1>11, <1>12, <1>13

\* The end of a pass leaves nothing to write, and if it begins another, that
\* one's hour is over too.
LEMMA EndPassFacts ==
    ASSUME TypeOK, PassInv, agg.pc \in {"scan", "write"}, EndPass
    PROVE  /\ agg' \in Worker /\ nextTick' \in Nat
           /\ agg'.todo = {} /\ IsHour(agg'.hour)
           /\ agg'.hour + HourLen <= clock
<1>1. agg \in Worker /\ agg.hour \in Int /\ clock \in Nat /\ nextTick \in Nat
  BY DEF TypeOK, Worker
<1>2. /\ agg.hour - HourLen \in Int /\ IsHour(agg.hour - HourLen)
      /\ agg.hour - HourLen + HourLen <= clock
  BY <1>1, PreviousHour, TimeAssumption, HourAssumption DEF PassInv
<1>3. CASE /\ agg.i \in 1..(BackfillHours - 1)
           /\ agg' = [agg EXCEPT !.pc = "scan", !.i = @ + 1,
                                 !.hour = @ - HourLen, !.todo = {}]
           /\ UNCHANGED nextTick
  <2>1. agg.pc \in {"scan", "write"} /\ agg.i + 1 \in 0..BackfillHours
    BY <1>3, TimeAssumption, HourAssumption
  <2>2. /\ agg' \in Worker /\ agg'.todo = {} /\ agg'.hour = agg.hour - HourLen
    BY <1>1, <1>2, <1>3, <2>1 DEF Worker
  <2> QED
    BY <1>1, <1>2, <1>3, <2>2
<1>4. CASE /\ agg.i = BackfillHours
           /\ agg' = [agg EXCEPT !.pc = "wait", !.i = 0, !.todo = {}]
           /\ nextTick' = clock + HourLen
  <2>1. 0 \in 0..BackfillHours /\ clock + HourLen \in Nat
    BY <1>1, TimeAssumption, HourAssumption
  <2>2. agg' \in Worker /\ agg'.todo = {} /\ agg'.hour = agg.hour
    BY <1>1, <1>4, <2>1 DEF Worker
  <2> QED
    BY <1>4, <2>1, <2>2 DEF PassInv
<1>5. CASE /\ agg.i = 0
           /\ agg' = [agg EXCEPT !.pc = "wait", !.todo = {}]
           /\ UNCHANGED nextTick
  BY <1>1, <1>5, TimeAssumption, HourAssumption DEF Worker, PassInv
<1> QED
  BY <1>3, <1>4, <1>5 DEF EndPass

\* Counted only becomes easier as events are accepted.
LEMMA CountedStays ==
    ASSUME IsFiniteSet(accepted'), accepted \subseteq accepted',
           NEW b, b.total \in Nat, Counted(b)
    PROVE  Counted(b)'
<1> DEFINE mine(set) == {e \in set : e.group = b.group /\ HourOf(e.created) = b.hour}
<1>1. mine(accepted) \subseteq mine(accepted') /\ IsFiniteSet(mine(accepted'))
  BY FS_Subset
<1>2. /\ Cardinality(mine(accepted)) <= Cardinality(mine(accepted'))
      /\ Cardinality(mine(accepted)) \in Nat
      /\ Cardinality(mine(accepted')) \in Nat
  BY <1>1, FS_Subset, FS_CardinalityType
<1> QED
  BY <1>2 DEF Counted

\* When an action leaves the rows a pass still has to write alone, or drops
\* them, what is known of rows and of buckets carries over.
LEMMA RowsStay ==
    ASSUME AggInv, IsFiniteSet(accepted'), accepted \subseteq accepted',
           clock \in Nat, clock' \in Nat, clock <= clock'
    PROVE  /\ \A b \in buckets : /\ b.hour + HourLen <= clock'
                                 /\ Consistent(b) /\ Counted(b)'
           /\ \A row \in agg.todo : Consistent(row) /\ Counted(row)'
<1>1. ASSUME NEW b \in buckets \cup agg.todo
      PROVE  b.hour \in Int /\ b.total \in Nat /\ Counted(b)
  BY DEF AggInv, TypeOK, Worker, Bucket, PassInv, BucketsInv
<1>2. ASSUME NEW b \in buckets \cup agg.todo PROVE Counted(b)'
  BY <1>1, CountedStays
<1> QED
  BY <1>1, <1>2, TimeAssumption, HourAssumption DEF AggInv, PassInv, BucketsInv

\* An event is kept for its key's retention, or not at all.
LEMMA NewDates ==
    ASSUME clock \in Nat, NEW lag \in Lags, NEW r \in Retentions
    PROVE  /\ CreatedAt(lag) \in Int /\ ExpiresAt(lag, r) \in Int
           /\ \/ ExpiresAt(lag, r) < CreatedAt(lag)
              \/ ExpiresAt(lag, r) = CreatedAt(lag) + r
<1>1. r \in Int /\ YearOne \in Int /\ YearOne + r < 0
  BY DataAssumption
<1>2. CASE lag = ZeroTime
  BY <1>1, <1>2 DEF CreatedAt, ExpiresAt
<1>3. CASE lag # ZeroTime
  <2>1. lag \in Int
    BY <1>3, DataAssumption
  <2> QED
    BY <1>1, <1>3, <2>1 DEF CreatedAt, ExpiresAt
<1> QED
  BY <1>2, <1>3

LEMMA AggStep ==
    ASSUME AggInv, [Next]_vars
    PROVE  AggInv'
<1> USE DEF AggInv
<1>1. /\ clock \in Nat /\ nextTick \in Nat /\ agg \in Worker
      /\ agg.hour \in Int /\ IsFiniteSet(accepted)
  BY DEF TypeOK, Worker, EventsInv
<1>2. CASE Tick
  <2>1. TypeOK' /\ EventsInv'
    BY <1>2 DEF Tick, TypeOK, EventsInv
  <2>2. /\ UNCHANGED <<agg, buckets, accepted>> /\ clock' = clock + 1
    BY <1>2 DEF Tick
  <2>3. PassInv'
    BY <1>1, <2>2, RowsStay, TimeAssumption, HourAssumption DEF PassInv
  <2>4. BucketsInv'
    BY <1>1, <2>2, RowsStay DEF BucketsInv
  <2> QED
    BY <2>1, <2>3, <2>4
<1>3. ASSUME NEW g \in Groups, NEW sample \in Samples, NEW lag \in Lags,
             NEW r \in Retentions, Store(g, sample, lag, r)
      PROVE  AggInv'
  <2> DEFINE e == NewEvent(g, sample, lag, r)
  <2>1. /\ UNCHANGED <<clock, agg, buckets, up, nextTick, faults, done>>
        /\ events' = events \cup {e} /\ accepted' = accepted \cup {e}
        /\ Cardinality(accepted) < MaxEvents
    BY <1>3 DEF Store
  <2>2. e \in Event
    <3>1. Cardinality(accepted) \in Nat
      BY <1>1, FS_CardinalityType
    <3>2. Cardinality(accepted) + 1 \in 1..MaxEvents
      BY <2>1, <3>1, BoundAssumption
    <3> QED
      BY <1>1, <3>2, NewDates, DataAssumption DEF Event, NewEvent
  <2> HIDE DEF e
  <2>3. TypeOK'
    BY <2>1, <2>2 DEF TypeOK
  <2>4. EventsInv' /\ IsFiniteSet(accepted')
    BY <2>1, FS_AddElement DEF EventsInv
  <2>5. PassInv'
    BY <1>1, <2>1, <2>4, RowsStay DEF PassInv
  <2>6. BucketsInv'
    BY <1>1, <2>1, <2>4, RowsStay DEF BucketsInv
  <2> QED
    BY <2>3, <2>4, <2>5, <2>6
<1>4. CASE Expire
  <2>1. /\ UNCHANGED <<clock, agg, buckets, up, nextTick, faults, done, accepted>>
        /\ events' \subseteq events
    BY <1>4 DEF Expire
  <2>2. TypeOK' /\ EventsInv'
    BY <2>1 DEF TypeOK, EventsInv
  <2>3. PassInv' /\ BucketsInv'
    BY <2>1 DEF PassInv, BucketsInv, Counted
  <2> QED
    BY <2>2, <2>3
<1>5. CASE StartAggregationWorker
  <2>1. /\ HourOf(clock) \in Int /\ HourOf(clock) <= clock
        /\ HourOf(clock) - HourLen \in Int
        /\ IsHour(HourOf(clock) - HourLen)
    BY <1>1, HourFacts, PreviousHour
  <2>2. 1 \in 0..BackfillHours
    BY TimeAssumption, HourAssumption
  <2>3. agg' \in Worker /\ agg'.hour = HourOf(clock) - HourLen /\ agg'.todo = {}
    BY <1>5, <2>1, <2>2 DEF StartAggregationWorker, Worker
  <2>4. TypeOK' /\ EventsInv'
    BY <1>5, <2>3 DEF StartAggregationWorker, TypeOK, EventsInv
  <2>5. PassInv'
    BY <1>1, <1>5, <2>1, <2>3, TimeAssumption, HourAssumption
    DEF StartAggregationWorker, PassInv
  <2>6. BucketsInv'
    BY <1>5 DEF StartAggregationWorker, BucketsInv, Counted
  <2> QED
    BY <2>4, <2>5, <2>6
<1>6. CASE Crash
  <2>1. agg' \in Worker /\ agg'.pc = "off" /\ agg'.todo = {}
        /\ agg'.hour = agg.hour
    BY <1>1, <1>6 DEF Crash, Worker
  <2>2. TypeOK' /\ EventsInv'
    <3>1. faults' \in Nat
      BY <1>6 DEF Crash, TypeOK
    <3> QED
      BY <1>6, <2>1, <3>1 DEF Crash, TypeOK, EventsInv
  <2>3. PassInv' /\ BucketsInv'
    BY <1>6, <2>1 DEF Crash, PassInv, BucketsInv, Counted
  <2> QED
    BY <2>2, <2>3
<1>7. CASE Scan
  <2>1. UNCHANGED <<clock, up, events, buckets, faults, accepted>>
        /\ agg.pc = "scan"
    BY <1>7 DEF Scan
  <2>2. CASE /\ Rows(agg.hour) # {}
             /\ agg' = [agg EXCEPT !.pc = "write", !.todo = Rows(agg.hour)]
             /\ UNCHANGED <<nextTick, done>>
    <3>1. \A row \in Rows(agg.hour) :
             /\ row \in Bucket /\ row.hour = agg.hour
             /\ Consistent(row) /\ Counted(row)
      BY RowFacts
    <3>2. /\ agg' \in Worker /\ agg'.pc = "write" /\ agg'.hour = agg.hour
          /\ agg'.todo = Rows(agg.hour)
      BY <1>1, <2>2, <3>1 DEF Worker
    <3>3. TypeOK' /\ EventsInv' /\ BucketsInv'
      BY <2>1, <2>2, <3>2 DEF TypeOK, EventsInv, BucketsInv, Counted
    <3>4. PassInv'
      BY <2>1, <3>1, <3>2 DEF PassInv, Counted
    <3> QED
      BY <3>3, <3>4
  <2>3. CASE done' = done \cup {agg.hour} /\ EndPass
    <3>1. /\ agg' \in Worker /\ nextTick' \in Nat
          /\ agg'.todo = {} /\ IsHour(agg'.hour)
          /\ agg'.hour + HourLen <= clock
      BY <2>1, <2>3, EndPassFacts
    <3>2. TypeOK' /\ EventsInv' /\ BucketsInv'
      BY <1>1, <2>1, <2>3, <3>1 DEF TypeOK, EventsInv, BucketsInv, Counted
    <3>3. PassInv'
      BY <2>1, <3>1 DEF PassInv
    <3> QED
      BY <3>2, <3>3
  <2> QED
    BY <1>7, <2>2, <2>3 DEF Scan
<1>8. ASSUME NEW row \in agg.todo, WriteGroup(row) PROVE AggInv'
  <2>1. UNCHANGED <<clock, up, events, faults, accepted>>
        /\ agg.pc = "write" /\ buckets' = Upserted(row)
    BY <1>8 DEF WriteGroup
  <2>2. row \in Bucket /\ row.hour = agg.hour /\ row.hour + HourLen <= clock
        /\ Consistent(row) /\ Counted(row)
    BY <1>1, <2>1 DEF Worker, PassInv
  <2>3. EventsInv' /\ BucketsInv' /\ buckets' \subseteq Bucket
    BY <2>1, <2>2 DEF EventsInv, BucketsInv, Upserted, Counted, TypeOK
  <2>4. CASE /\ agg.todo # {row}
             /\ agg' = [agg EXCEPT !.todo = @ \ {row}]
             /\ UNCHANGED <<nextTick, done>>
    <3>1. agg' \in Worker /\ agg'.pc = "write" /\ agg'.hour = agg.hour
          /\ agg'.todo \subseteq agg.todo
      BY <1>1, <2>1, <2>4 DEF Worker
    <3>2. TypeOK'
      BY <2>1, <2>3, <2>4, <3>1 DEF TypeOK
    <3>3. PassInv'
      BY <2>1, <3>1 DEF PassInv, Counted
    <3> QED
      BY <2>3, <3>2, <3>3
  <2>5. CASE done' = done \cup {agg.hour} /\ EndPass
    <3>1. /\ agg' \in Worker /\ nextTick' \in Nat
          /\ agg'.todo = {} /\ IsHour(agg'.hour)
          /\ agg'.hour + HourLen <= clock
      BY <2>1, <2>5, EndPassFacts
    <3>2. TypeOK'
      BY <1>1, <2>1, <2>3, <2>5, <3>1 DEF TypeOK
    <3>3. PassInv'
      BY <2>1, <3>1 DEF PassInv
    <3> QED
      BY <2>3, <3>2, <3>3
  <2> QED
    BY <1>8, <2>4, <2>5 DEF WriteGroup
<1>9. CASE PassFails
  <2>1. /\ UNCHANGED <<clock, up, events, buckets, accepted>>
        /\ agg.pc \in {"scan", "write"} /\ EndPass
        /\ faults' = faults + 1 /\ done' = done \cup {agg.hour}
    BY <1>9 DEF PassFails
  <2>2. /\ agg' \in Worker /\ nextTick' \in Nat
        /\ agg'.todo = {} /\ IsHour(agg'.hour)
        /\ agg'.hour + HourLen <= clock
    BY <2>1, EndPassFacts
  <2>3. TypeOK' /\ EventsInv' /\ BucketsInv'
    <3>1. faults' \in Nat
      BY <2>1 DEF TypeOK
    <3> QED
      BY <1>1, <2>1, <2>2, <3>1 DEF TypeOK, EventsInv, BucketsInv, Counted
  <2>4. PassInv'
    BY <2>1, <2>2 DEF PassInv
  <2> QED
    BY <2>3, <2>4
<1>10. CASE ReceiveTick
  <2>1. /\ UNCHANGED <<clock, up, events, buckets, faults, accepted, done>>
        /\ agg.pc = "wait" /\ nextTick <= clock
        /\ agg' = [agg EXCEPT !.pc = "scan",
                              !.hour = HourOf(nextTick) - HourLen]
        /\ nextTick' = FollowingTick(nextTick, HourLen, clock)
    BY <1>10 DEF ReceiveTick, Due
  <2>2. /\ HourOf(nextTick) \in Int /\ HourOf(nextTick) <= nextTick
        /\ HourOf(nextTick) - HourLen \in Int
        /\ IsHour(HourOf(nextTick) - HourLen)
    BY <1>1, HourFacts, PreviousHour
  <2>3. agg' \in Worker /\ agg'.hour = HourOf(nextTick) - HourLen
        /\ agg'.todo = agg.todo
    BY <1>1, <2>1, <2>2 DEF Worker
  <2>4. agg.todo = {}
    BY <2>1 DEF PassInv
  <2>5. nextTick' \in Nat
    <3> DEFINE k == (clock - nextTick) \div HourLen
    <3>1. k \in Nat
      BY <1>1, <2>1, TimeAssumption, HourAssumption
    <3> HIDE DEF k
    <3>2. HourLen * (1 + k) \in Nat
      BY <3>1, TimeAssumption, HourAssumption
    <3> QED
      BY <1>1, <2>1, <3>2 DEF FollowingTick, k
  <2>6. TypeOK' /\ EventsInv' /\ BucketsInv'
    BY <2>1, <2>3, <2>5 DEF TypeOK, EventsInv, BucketsInv, Counted
  <2>7. PassInv'
    BY <1>1, <2>1, <2>2, <2>3, <2>4, TimeAssumption, HourAssumption DEF PassInv
  <2> QED
    BY <2>6, <2>7
<1>11. CASE UNCHANGED vars
  BY <1>11 DEF vars, TypeOK, EventsInv, PassInv, BucketsInv, Counted
<1> QED
  BY <1>2, <1>3, <1>4, <1>5, <1>6, <1>7, <1>8, <1>9, <1>10, <1>11
  DEF Next, WorkerNext, Environment

LEMMA AggInit == Init => AggInv
<1> SUFFICES ASSUME Init PROVE AggInv
  OBVIOUS
<1>1. agg = [pc |-> "off", i |-> 0, base |-> 0, hour |-> 0, todo |-> {}]
  BY DEF Init
<1>2. IsHour(0)
  BY TimeAssumption, HourAssumption DEF IsHour
<1>3. agg \in Worker /\ agg.hour = 0 /\ agg.todo = {} /\ agg.pc = "off"
  BY <1>1, TimeAssumption, HourAssumption DEF Worker
<1>4. TypeOK
  BY <1>3 DEF Init, TypeOK
<1>5. EventsInv
  BY FS_EmptySet DEF Init, EventsInv
<1>6. PassInv /\ BucketsInv
  BY <1>2, <1>3 DEF Init, PassInv, BucketsInv
<1> QED
  BY <1>4, <1>5, <1>6 DEF AggInv

LEMMA AggInvariant == Spec => []AggInv
  BY AggInit, AggStep, PTL DEF Spec
-----------------------------------------------------------------------------
\* Every column of every bucket has its type; above all a percentile is one
\* of the durations of a non-empty list, so that its index is never outside
\* the slice (aggregation.go:54-58).
THEOREM TypeCorrect == Spec => []TypeOK
  BY AggInvariant, PTL DEF AggInv

\* Only hours that are over are aggregated, at startup and however late a tick
\* is received (aggregation.go:97, 106).
THEOREM CompletedHours == Spec => []OnlyCompletedHours
<1>1. AggInv => OnlyCompletedHours
  BY DEF AggInv, PassInv, BucketsInv, OnlyCompletedHours
<1> QED
  BY <1>1, AggInvariant, PTL

\* A group has one bucket an hour, and it counts no event that was not
\* accepted for that group and hour (aggregation.go:17, 32-38, 70-82).
THEOREM CountedOnce == Spec => []NothingCountedTwice
<1>1. AggInv => NothingCountedTwice
  BY DEF AggInv, BucketsInv, Counted, NothingCountedTwice
<1> QED
  BY <1>1, AggInvariant, PTL

\* A bucket's errors are among its events and its percentiles are in order,
\* for lists of any length (aggregation.go:40-69).
THEOREM BucketsConsistent == Spec => []RowsConsistent
<1>1. AggInv => RowsConsistent
  BY DEF AggInv, BucketsInv, Consistent, RowsConsistent
<1> QED
  BY <1>1, AggInvariant, PTL
-----------------------------------------------------------------------------
(***************************************************************************)
(* The worker's hours, when its passes end in the hour they became due in. *)
(***************************************************************************)
InPass == agg.pc \in {"scan", "write"}

\* The process is done with the hours from the first of the startup loop on.
DoneUpTo(last) ==
    \A h \in Int : /\ IsHour(h) /\ h <= last
                   /\ agg.base - BackfillHours * HourLen <= h
                   => h \in done

\* The startup loop works its way back from the hour of the start, which is
\* still the current one.
LoopInv ==
    InPass /\ agg.i # 0 =>
       /\ agg.base = HourOf(clock)
       /\ agg.hour = agg.base - agg.i * HourLen
       /\ \A h \in Int : IsHour(h) /\ agg.hour < h /\ h < agg.base => h \in done

\* A pass on a tick is over the hour before the current one, and all before
\* are done.
TickInv ==
    InPass /\ agg.i = 0 =>
       /\ HourOf(nextTick) = HourOf(clock) + HourLen
       /\ agg.hour = HourOf(clock) - HourLen
       /\ DoneUpTo(agg.hour - HourLen)

\* A tick that is due has become so in the current hour.
WaitInv ==
    agg.pc = "wait" =>
       /\ agg.i = 0 /\ DoneUpTo(HourOf(nextTick) - 2 * HourLen)
       /\ nextTick <= clock => HourOf(nextTick) = HourOf(clock)

SkipInv == LoopInv /\ TickInv /\ WaitInv

LEMMA LenFacts ==
    /\ HourLen \in Nat /\ HourLen > 0
    /\ BackfillHours \in Nat /\ BackfillHours > 0
    /\ BackfillHours * HourLen \in Nat
<1>1. HourLen \in Nat /\ HourLen > 0 /\ BackfillHours \in Nat
      /\ BackfillHours > 0
  BY TimeAssumption, HourAssumption
<1> QED
  BY <1>1

\* Two hours are an hour apart.
LEMMA HourGap ==
    ASSUME NEW a \in Int, NEW b \in Int, IsHour(a), IsHour(b), a < b
    PROVE  a + HourLen <= b
<1>1. PICK k \in Int, n \in Int : a = HourLen * k /\ b = HourLen * n
  BY DEF IsHour
<1>2. HourLen * n - HourLen * k = HourLen * (n - k)
  BY <1>1, LenFacts
<1>3. n - k > 0
  <2> SUFFICES ASSUME k - n >= 0 PROVE FALSE
    BY <1>1
  <2>1. HourLen * (k - n) >= 0 /\ HourLen * (k - n) = HourLen * k - HourLen * n
    BY <1>1, LenFacts
  <2> QED
    BY <1>1, <2>1
<1>4. ASSUME NEW m \in Int, m > 0 PROVE HourLen * m >= HourLen
  BY <1>4, LenFacts
<1>5. b - a >= HourLen
  BY <1>1, <1>2, <1>3, <1>4
<1> QED
  BY <1>5, LenFacts

LEMMA HourShift ==
    ASSUME NEW t \in Int
    PROVE  HourOf(t + HourLen) = HourOf(t) + HourLen
<1>1. PICK k \in Int : HourOf(t) = HourLen * k
  BY HourFacts DEF IsHour
<1>2. IsHour(HourOf(t) + HourLen)
  <2>1. HourOf(t) + HourLen = HourLen * (k + 1)
    BY <1>1, LenFacts
  <2> QED
    BY <1>1, <2>1 DEF IsHour
<1> QED
  BY <1>2, HourFacts, WindowIsHour, LenFacts

\* The hour of a later time is not an earlier one.
LEMMA HourMonotone ==
    ASSUME NEW t \in Int, NEW u \in Int, t <= u
    PROVE  HourOf(t) <= HourOf(u)
<1> SUFFICES ASSUME HourOf(u) < HourOf(t) PROVE FALSE
  BY HourFacts
<1>1. HourOf(u) + HourLen <= HourOf(t)
  BY HourFacts, HourGap
<1> QED
  BY <1>1, HourFacts, LenFacts

\* The end of a pass, whose hour is then done.
LEMMA SkipEndPass ==
    ASSUME TypeOK, PassInv, SkipInv, InPass, EndPass,
           done' = done \cup {agg.hour}, UNCHANGED clock
    PROVE  SkipInv'
<1>1. /\ agg \in Worker /\ agg.hour \in Int /\ agg.base \in Int
      /\ clock \in Int /\ nextTick \in Int /\ IsHour(agg.hour)
      /\ agg.i \in 0..BackfillHours
  BY DEF TypeOK, Worker, PassInv
<1>2. HourOf(clock) \in Int /\ HourOf(clock) <= clock
      /\ HourOf(clock + HourLen) = HourOf(clock) + HourLen
  BY <1>1, HourFacts, HourShift
<1>3. \A h \in Int : IsHour(h) /\ h > agg.hour - HourLen /\ h # agg.hour
                        => h > agg.hour
  <2> SUFFICES ASSUME NEW h \in Int, IsHour(h), h > agg.hour - HourLen,
                      h < agg.hour
               PROVE  FALSE
    BY <1>1
  <2>1. h + HourLen <= agg.hour
    BY <1>1, HourGap
  <2> QED
    BY <1>1, <2>1, LenFacts
<1>4. CASE /\ agg.i \in 1..(BackfillHours - 1)
           /\ agg' = [agg EXCEPT !.pc = "scan", !.i = @ + 1,
                                 !.hour = @ - HourLen, !.todo = {}]
           /\ UNCHANGED nextTick
  <2>1. /\ agg'.pc = "scan" /\ agg'.i = agg.i + 1 /\ agg'.base = agg.base
        /\ agg'.hour = agg.hour - HourLen /\ agg'.i # 0
    BY <1>1, <1>4, LenFacts DEF Worker
  <2>2. /\ agg.base = HourOf(clock) /\ agg.hour = agg.base - agg.i * HourLen
        /\ \A h \in Int : IsHour(h) /\ agg.hour < h /\ h < agg.base => h \in done
    BY <1>1, <1>4, LenFacts DEF SkipInv, LoopInv
  <2>3. agg'.hour = agg.base - (agg.i + 1) * HourLen
    BY <1>1, <2>1, <2>2, LenFacts
  <2>4. \A h \in Int : IsHour(h) /\ agg'.hour < h /\ h < agg.base => h \in done'
    BY <1>1, <1>3, <2>1, <2>2
  <2> QED
    BY <2>1, <2>2, <2>3, <2>4 DEF SkipInv, LoopInv, TickInv, WaitInv, InPass
<1>5. CASE /\ agg.i = BackfillHours
           /\ agg' = [agg EXCEPT !.pc = "wait", !.i = 0, !.todo = {}]
           /\ nextTick' = clock + HourLen
  <2>1. agg'.pc = "wait" /\ agg'.i = 0 /\ agg'.base = agg.base
    BY <1>1, <1>5 DEF Worker
  <2>2. /\ agg.base = HourOf(clock)
        /\ agg.hour = agg.base - BackfillHours * HourLen
        /\ \A h \in Int : IsHour(h) /\ agg.hour < h /\ h < agg.base => h \in done
    BY <1>5, LenFacts DEF SkipInv, LoopInv
  <2>3. HourOf(nextTick') - 2 * HourLen = agg.base - HourLen
    BY <1>2, <1>5, <2>2, LenFacts
  <2>4. DoneUpTo(HourOf(nextTick) - 2 * HourLen)'
    <3> SUFFICES ASSUME NEW h \in Int, IsHour(h), h <= agg.base - HourLen,
                        agg.hour <= h
                 PROVE  h \in done'
      BY <2>1, <2>2, <2>3 DEF DoneUpTo, IsHour
    <3> QED
      BY <1>1, <2>2, LenFacts
  <2>5. ~(nextTick' <= clock)
    BY <1>1, <1>5, LenFacts
  <2> QED
    BY <2>1, <2>4, <2>5 DEF SkipInv, LoopInv, TickInv, WaitInv, InPass
<1>6. CASE /\ agg.i = 0 /\ agg' = [agg EXCEPT !.pc = "wait", !.todo = {}]
           /\ UNCHANGED nextTick
  <2>1. agg'.pc = "wait" /\ agg'.i = 0 /\ agg'.base = agg.base
    BY <1>1, <1>6 DEF Worker
  <2>2. /\ HourOf(nextTick) = HourOf(clock) + HourLen
        /\ agg.hour = HourOf(clock) - HourLen
        /\ DoneUpTo(agg.hour - HourLen)
    BY <1>6 DEF SkipInv, TickInv
  <2>3. HourOf(nextTick) - 2 * HourLen = agg.hour
    BY <1>2, <2>2, LenFacts
  <2>4. DoneUpTo(HourOf(nextTick) - 2 * HourLen)'
    <3> SUFFICES ASSUME NEW h \in Int, IsHour(h), h <= agg.hour,
                        agg.base - BackfillHours * HourLen <= h
                 PROVE  h \in done'
      BY <1>6, <2>1, <2>3 DEF DoneUpTo, IsHour
    <3>1. h = agg.hour \/ h + HourLen <= agg.hour
      BY <1>1, HourGap
    <3>2. h = agg.hour \/ h <= agg.hour - HourLen
      BY <1>1, <3>1, LenFacts
    <3> QED
      BY <2>2, <3>2 DEF DoneUpTo
  <2>5. ~(nextTick' <= clock)
    <3>1. HourOf(nextTick) <= nextTick /\ clock < HourOf(clock) + HourLen
      BY <1>1, HourFacts
    <3> QED
      BY <1>1, <1>2, <1>6, <2>2, <3>1, LenFacts
  <2> QED
    BY <2>1, <2>4, <2>5 DEF SkipInv, LoopInv, TickInv, WaitInv, InPass
<1> QED
  BY <1>4, <1>5, <1>6 DEF EndPass

\* Time passes: no hour begins while the worker is busy.
LEMMA SkipTick ==
    ASSUME Prompt, TypeOK, SkipInv, Tick
    PROVE  SkipInv'
<1>1. /\ clock \in Int /\ nextTick \in Int /\ agg' = agg /\ done' = done
      /\ nextTick' = nextTick /\ clock' = clock + 1
      /\ Busy => HourOf(clock') = HourOf(clock)
  BY DEF TypeOK, Tick
<1>2. CASE InPass
  <2>1. HourOf(clock') = HourOf(clock)
    BY <1>1, <1>2 DEF Busy, InPass
  <2>2. LoopInv'
    BY <1>1, <2>1 DEF SkipInv, LoopInv, InPass
  <2>3. TickInv'
    BY <1>1, <2>1 DEF SkipInv, TickInv, InPass, DoneUpTo
  <2> QED
    BY <1>1, <1>2, <2>2, <2>3 DEF SkipInv, WaitInv, InPass
<1>3. CASE agg.pc = "wait"
  <2>1. agg.i = 0 /\ DoneUpTo(HourOf(nextTick) - 2 * HourLen)
    BY <1>3 DEF SkipInv, WaitInv
  <2>2. nextTick <= clock' => HourOf(nextTick) = HourOf(clock')
    <3>1. CASE nextTick <= clock
      BY <1>1, <1>3, <3>1 DEF Busy, Due, SkipInv, WaitInv
    <3>2. CASE nextTick = clock'
      BY <3>2
    <3> QED
      BY <1>1, <3>1, <3>2
  <2> QED
    BY <1>1, <1>3, <2>1, <2>2
    DEF SkipInv, LoopInv, TickInv, WaitInv, InPass, DoneUpTo
<1>4. CASE agg.pc \notin {"scan", "write", "wait"}
  BY <1>1, <1>4 DEF SkipInv, LoopInv, TickInv, WaitInv, InPass
<1> QED
  BY <1>2, <1>3, <1>4 DEF InPass

\* A tick received in the hour in which it became due names the hour before
\* that one, and the next comes in the hour after it.
LEMMA SkipReceive ==
    ASSUME TypeOK, SkipInv, ReceiveTick
    PROVE  SkipInv'
<1>1. /\ clock \in Int /\ nextTick \in Int /\ agg \in Worker
      /\ agg.pc = "wait" /\ nextTick <= clock
      /\ clock' = clock /\ done' = done
      /\ nextTick' = FollowingTick(nextTick, HourLen, clock)
  BY DEF TypeOK, ReceiveTick, Due
<1>2. /\ agg.i = 0 /\ DoneUpTo(HourOf(nextTick) - 2 * HourLen)
      /\ HourOf(nextTick) = HourOf(clock)
  BY <1>1 DEF SkipInv, WaitInv
<1>3. HourOf(nextTick) \in Int /\ HourOf(nextTick) <= nextTick
      /\ clock < HourOf(nextTick) + HourLen
  BY <1>1, <1>2, HourFacts
<1>4. nextTick' = nextTick + HourLen
  <2>1. (clock - nextTick) \div HourLen = 0
    BY <1>1, <1>3, LenFacts
  <2> QED
    BY <1>1, <2>1, LenFacts DEF FollowingTick
<1>5. HourOf(nextTick') = HourOf(clock') + HourLen
  BY <1>1, <1>2, <1>4, HourShift
<1>6. /\ agg'.pc = "scan" /\ agg'.i = 0 /\ agg'.base = agg.base
      /\ agg'.hour = HourOf(nextTick) - HourLen
  BY <1>1, <1>2 DEF ReceiveTick, Worker
<1>7. agg'.hour - HourLen = HourOf(nextTick) - 2 * HourLen
  BY <1>3, <1>6, LenFacts
<1>8. DoneUpTo(agg.hour - HourLen)'
  BY <1>1, <1>2, <1>6, <1>7 DEF DoneUpTo, IsHour
<1> QED
  BY <1>1, <1>2, <1>5, <1>6, <1>8
  DEF SkipInv, LoopInv, TickInv, WaitInv, InPass

LEMMA SkipStep ==
    ASSUME Prompt, AggInv, SkipInv, [Next]_vars
    PROVE  SkipInv'
<1> USE DEF AggInv
<1> DEFINE Same == /\ clock' = clock /\ nextTick' = nextTick /\ done' = done
                   /\ agg'.i = agg.i /\ agg'.base = agg.base
                   /\ agg'.hour = agg.hour /\ InPass' = InPass
                   /\ (agg'.pc = "wait") = (agg.pc = "wait")
<1>1. ASSUME Same PROVE SkipInv'
  <2>1. LoopInv'
    BY <1>1 DEF SkipInv, LoopInv
  <2>2. TickInv'
    BY <1>1 DEF SkipInv, TickInv, DoneUpTo
  <2>3. WaitInv'
    BY <1>1 DEF SkipInv, WaitInv, DoneUpTo
  <2> QED
    BY <2>1, <2>2, <2>3 DEF SkipInv
<1>2. agg \in Worker /\ clock \in Int
  BY DEF TypeOK
<1>3. CASE Tick
  BY <1>3, SkipTick
<1>4. ASSUME NEW g \in Groups, NEW sample \in Samples, NEW lag \in Lags,
             NEW r \in Retentions, Store(g, sample, lag, r)
      PROVE  SkipInv'
  BY <1>1, <1>4 DEF Store, InPass
<1>5. CASE Expire
  BY <1>1, <1>5 DEF Expire, InPass
<1>6. CASE StartAggregationWorker
  <2>1. /\ agg'.pc = "scan" /\ agg'.i = 1 /\ agg'.base = HourOf(clock)
        /\ agg'.hour = HourOf(clock) - HourLen /\ clock' = clock
    BY <1>6 DEF StartAggregationWorker
  <2>2. HourOf(clock) \in Int /\ IsHour(HourOf(clock))
    BY <1>2, HourFacts
  <2>3. ASSUME NEW h \in Int, IsHour(h), HourOf(clock) - HourLen < h,
               h < HourOf(clock)
        PROVE  FALSE
    <3>1. h + HourLen <= HourOf(clock)
      BY <2>2, <2>3, HourGap
    <3> QED
      BY <2>2, <2>3, <3>1, LenFacts
  <2>4. agg'.hour = agg'.base - agg'.i * HourLen
    BY <2>1, <2>2, LenFacts
  <2>5. LoopInv'
    BY <2>1, <2>3, <2>4 DEF LoopInv, IsHour
  <2> QED
    BY <2>1, <2>5 DEF SkipInv, TickInv, WaitInv
<1>7. CASE Crash
  <2>1. agg'.pc = "off"
    BY <1>2, <1>7 DEF Crash, Worker
  <2> QED
    BY <2>1 DEF SkipInv, LoopInv, TickInv, WaitInv, InPass
<1>8. CASE Scan
  <2>1. CASE /\ agg' = [agg EXCEPT !.pc = "write", !.todo = Rows(agg.hour)]
             /\ UNCHANGED <<nextTick, done>>
    <3>1. /\ agg'.pc = "write" /\ agg'.i = agg.i /\ agg'.base = agg.base
          /\ agg'.hour = agg.hour /\ agg.pc = "scan" /\ clock' = clock
      BY <1>2, <1>8, <2>1 DEF Worker, Scan
    <3> QED
      BY <1>1, <2>1, <3>1 DEF InPass
  <2>2. CASE done' = done \cup {agg.hour} /\ EndPass
    BY <1>8, <2>2, SkipEndPass DEF Scan, InPass
  <2> QED
    BY <1>8, <2>1, <2>2 DEF Scan
<1>9. ASSUME NEW row \in agg.todo, WriteGroup(row) PROVE SkipInv'
  <2>1. CASE /\ agg' = [agg EXCEPT !.todo = @ \ {row}]
             /\ UNCHANGED <<nextTick, done>>
    <3>1. /\ agg'.pc = agg.pc /\ agg'.i = agg.i /\ agg'.base = agg.base
          /\ agg'.hour = agg.hour /\ clock' = clock
      BY <1>2, <1>9, <2>1 DEF Worker, WriteGroup
    <3> QED
      BY <1>1, <2>1, <3>1 DEF InPass
  <2>2. CASE done' = done \cup {agg.hour} /\ EndPass
    BY <1>9, <2>2, SkipEndPass DEF WriteGroup, InPass
  <2> QED
    BY <1>9, <2>1, <2>2 DEF WriteGroup
<1>10. CASE PassFails
  BY <1>10, SkipEndPass DEF PassFails, InPass
<1>11. CASE ReceiveTick
  BY <1>11, SkipReceive
<1>12. CASE UNCHANGED vars
  BY <1>1, <1>12 DEF vars, InPass
<1> QED
  BY <1>3, <1>4, <1>5, <1>6, <1>7, <1>8, <1>9, <1>10, <1>11, <1>12
  DEF Next, WorkerNext, Environment

LEMMA SkipInvariant == ASSUME Prompt PROVE Spec => [](AggInv /\ SkipInv)
<1>1. Init => SkipInv
  BY DEF Init, SkipInv, LoopInv, TickInv, WaitInv, InPass
<1>2. AggInv /\ SkipInv /\ [Next]_vars => SkipInv'
  BY SkipStep
<1> QED
  BY <1>1, <1>2, AggInvariant, PTL DEF Spec

\* No hour from the first of the startup loop on is passed over, be it by a
\* pass that fails, as long as passes end in the hour in which they become
\* due (aggregation.go:90-91).
THEOREM HoursWithoutGaps == ASSUME Prompt PROVE Spec => []NoHourSkipped
<1>1. AggInv /\ SkipInv => NoHourSkipped
  <2> SUFFICES ASSUME AggInv, SkipInv, agg.pc = "wait",
                      NEW h \in (agg.base - BackfillHours * HourLen)
                                   ..(HourOf(nextTick) - 2 * HourLen),
                      h % HourLen = 0
               PROVE  h \in done
    BY DEF NoHourSkipped
  <2>1. /\ agg.base \in Int /\ nextTick \in Int /\ HourOf(nextTick) \in Int
    BY HourFacts DEF AggInv, TypeOK, Worker
  <2>2. /\ h \in Int /\ agg.base - BackfillHours * HourLen <= h
        /\ h <= HourOf(nextTick) - 2 * HourLen
    BY <2>1, LenFacts
  <2>3. IsHour(h)
    <3>1. h \div HourLen \in Int /\ h = HourLen * (h \div HourLen) + (h % HourLen)
      BY <2>2, DivMod, LenFacts
    <3>2. h = HourLen * (h \div HourLen)
      BY <2>2, <3>1, LenFacts
    <3> QED
      BY <3>1, <3>2 DEF IsHour
  <2> QED
    BY <2>2, <2>3 DEF SkipInv, WaitInv, DoneUpTo
<1> QED
  BY <1>1, SkipInvariant, PTL
-----------------------------------------------------------------------------
(***************************************************************************)
(* What a pass reads of an hour that was aggregated before, when events    *)
(* are kept for longer than the startup loop goes back.                    *)
(***************************************************************************)
KeptLongEnough == \A r \in Retentions : r >= (BackfillHours + 1) * HourLen

\* An event is deleted only when it has expired, and it is kept for its key's
\* retention or not at all.
KeptInv ==
    \A e \in accepted :
       /\ ~Expired(e, clock) => e \in events
       /\ \/ e.expires < e.created
          \/ \E r \in Retentions : e.expires = e.created + r

Slack(b) == Cardinality(NotKept(b.group, b.hour))

\* The rows still to be written count no less than those they replace, but for
\* the events that are not kept.
TodoInv ==
    /\ \A r, s \in agg.todo : r.group = s.group => r = s
    /\ \A r \in agg.todo, b \in buckets :
          b.group = r.group /\ b.hour = r.hour => b.total <= r.total + Slack(b)

LEMMA SlackFacts ==
    ASSUME AggInv, NEW b
    PROVE  IsFiniteSet(NotKept(b.group, b.hour)) /\ Slack(b) \in Nat
<1>1. NotKept(b.group, b.hour) \subseteq accepted
  BY DEF NotKept, OfGroup
<1> QED
  BY <1>1, FS_Subset, FS_CardinalityType DEF Slack, AggInv, EventsInv

\* It only grows.
LEMMA SlackStays ==
    ASSUME AggInv, AggInv', [Next]_vars, NEW b
    PROVE  Slack(b) \in Nat /\ Slack(b)' \in Nat /\ Slack(b) <= Slack(b)'
<1>1. accepted \subseteq accepted'
  BY DEF Next, WorkerNext, Environment, vars, Tick, Store, Expire, Crash,
         StartAggregationWorker, Scan, PassFails, ReceiveTick, WriteGroup
<1>2. NotKept(b.group, b.hour) \subseteq NotKept(b.group, b.hour)'
  BY <1>1 DEF NotKept, OfGroup
<1>3. NotKept(b.group, b.hour)' \subseteq accepted'
  BY DEF NotKept, OfGroup
<1>4. IsFiniteSet(NotKept(b.group, b.hour)')
  BY <1>3, FS_Subset DEF AggInv, EventsInv
<1> QED
  BY <1>2, <1>4, FS_Subset, FS_CardinalityType DEF Slack

\* A pass goes no further back than the startup loop.
LEMMA PassIsRecent ==
    ASSUME TypeOK, SkipInv, InPass
    PROVE  HourOf(clock) - BackfillHours * HourLen <= agg.hour
<1>1. /\ agg.i \in 0..BackfillHours /\ HourOf(clock) \in Int
      /\ agg.hour \in Int
  BY HourFacts DEF TypeOK, Worker
<1>2. ASSUME NEW n \in Int, n <= BackfillHours
      PROVE  n * HourLen \in Int /\ n * HourLen <= BackfillHours * HourLen
  <2>1. BackfillHours * HourLen - n * HourLen = (BackfillHours - n) * HourLen
    BY <1>2, LenFacts
  <2>2. (BackfillHours - n) * HourLen >= 0
    BY <1>2, LenFacts
  <2> QED
    BY <1>2, <2>1, <2>2, LenFacts
<1>3. CASE agg.i # 0
  <2>1. agg.hour = HourOf(clock) - agg.i * HourLen
    BY <1>3 DEF SkipInv, LoopInv
  <2> QED
    BY <1>1, <1>2, <2>1, LenFacts
<1>4. CASE agg.i = 0
  <2>1. agg.hour = HourOf(clock) - HourLen
    BY <1>4 DEF SkipInv, TickInv
  <2>2. HourLen <= BackfillHours * HourLen
    BY <1>2, LenFacts
  <2> QED
    BY <1>1, <2>1, <2>2, LenFacts
<1> QED
  BY <1>3, <1>4

\* Of the accepted events of a pass's hour only those not kept have been
\* deleted, so a row computed now counts all others.
LEMMA RowsCountAll ==
    ASSUME KeptLongEnough, AggInv, SkipInv, KeptInv, InPass,
           NEW row \in Rows(agg.hour), NEW b \in buckets,
           b.group = row.group, b.hour = row.hour
    PROVE  b.total <= row.total + Slack(b)
<1>1. PICK g \in {e.group : e \in InHour(agg.hour)} :
         row = BucketRow(g, agg.hour, OfGroup(InHour(agg.hour), g))
  BY DEF Rows
<1> DEFINE list == OfGroup(InHour(agg.hour), g)
           mine == {e \in accepted :
                      e.group = b.group /\ HourOf(e.created) = b.hour}
           lost == NotKept(b.group, b.hour)
<1>2. /\ row.group = g /\ row.hour = agg.hour
      /\ row.total = Cardinality(list)
  BY <1>1 DEF BucketRow
<1>3. /\ agg.hour \in Int /\ clock \in Int /\ HourOf(clock) \in Int
      /\ clock < HourOf(clock) + HourLen
      /\ HourOf(clock) - BackfillHours * HourLen <= agg.hour
  BY HourFacts, PassIsRecent DEF AggInv, TypeOK, Worker
<1>4. \A r \in Retentions : r \in Int /\ r >= BackfillHours * HourLen + HourLen
  BY LenFacts, DataAssumption DEF KeptLongEnough
<1>5. mine \subseteq list \cup lost
  <2> SUFFICES ASSUME NEW e \in mine, e \notin lost PROVE e \in list
    OBVIOUS
  <2>1. /\ e \in accepted /\ e.group = g /\ e.created \in Int
        /\ e.expires \in Int /\ HourOf(e.created) = agg.hour
    BY <1>2 DEF AggInv, TypeOK, Event
  <2>2. agg.hour <= e.created /\ e.created < agg.hour + HourLen
    BY <2>1, HourFacts
  <2>3. ~(e.expires < e.created)
    BY <1>2, <2>1 DEF NotKept, OfGroup
  <2>4. PICK r \in Retentions : e.expires = e.created + r
    BY <2>1, <2>3 DEF KeptInv
  <2>5. ~Expired(e, clock)
    BY <1>3, <1>4, <2>1, <2>2, <2>4, LenFacts DEF Expired
  <2>6. e \in events
    BY <2>1, <2>5 DEF KeptInv
  <2> QED
    BY <2>1, <2>2, <2>6 DEF OfGroup, InHour
<1>6. IsFiniteSet(list) /\ IsFiniteSet(lost) /\ Cardinality(lost) = Slack(b)
  <2>1. list \subseteq accepted
    BY DEF OfGroup, InHour, AggInv, EventsInv
  <2> QED
    BY <2>1, FS_Subset, SlackFacts DEF AggInv, EventsInv, Slack
<1> HIDE DEF list, lost, mine
<1>7. /\ Cardinality(mine) <= Cardinality(list) + Cardinality(lost)
      /\ Cardinality(mine) \in Nat /\ Cardinality(list) \in Nat
      /\ Cardinality(lost) \in Nat
  <2>1. /\ IsFiniteSet(list \cup lost) /\ IsFiniteSet(list \cap lost)
        /\ Cardinality(list \cup lost) = Cardinality(list) + Cardinality(lost)
                                            - Cardinality(list \cap lost)
    BY <1>6, FS_Union, FS_Subset
  <2>2. /\ Cardinality(list) \in Nat /\ Cardinality(lost) \in Nat
        /\ Cardinality(list \cap lost) \in Nat
    BY <1>6, <2>1, FS_CardinalityType
  <2>3. IsFiniteSet(mine) /\ Cardinality(mine) <= Cardinality(list \cup lost)
    BY <1>5, <2>1, FS_Subset
  <2>4. Cardinality(mine) \in Nat
    BY <2>3, FS_CardinalityType
  <2> QED
    BY <2>1, <2>2, <2>3, <2>4
<1>8. b.total <= Cardinality(mine)
  BY DEF AggInv, BucketsInv, Counted, mine
<1>9. b.total \in Nat
  BY DEF AggInv, TypeOK, Bucket
<1> QED
  BY <1>2, <1>6, <1>7, <1>8, <1>9

LEMMA RowsApart ==
    ASSUME NEW h, NEW r \in Rows(h), NEW s \in Rows(h), r.group = s.group
    PROVE  r = s
  BY DEF Rows, BucketRow

\* What a write puts in place of a row counts no less.
LEMMA WriteKeeps ==
    ASSUME AggInv, TodoInv, NEW row \in agg.todo, NEW b \in buckets
    PROVE  \E c \in Upserted(row) : /\ c.group = b.group /\ c.hour = b.hour
                                    /\ c.total + Slack(b) >= b.total
<1>1. CASE b.group = row.group /\ b.hour = row.hour
  <2>1. row \in Upserted(row) /\ b.total <= row.total + Slack(b)
    BY <1>1 DEF Upserted, TodoInv
  <2>2. row.total \in Nat /\ b.total \in Nat
    BY DEF AggInv, TypeOK, Worker, Bucket
  <2> QED
    BY <1>1, <2>1, <2>2, SlackFacts
<1>2. CASE b.group # row.group \/ b.hour # row.hour
  <2>1. b \in Upserted(row) /\ b.total \in Nat
    BY <1>2 DEF Upserted, AggInv, TypeOK, Bucket
  <2> QED
    BY <2>1, SlackFacts
<1> QED
  BY <1>1, <1>2

\* The end of a pass leaves nothing to write.
LEMMA EndPassTodo ==
    ASSUME TypeOK, EndPass
    PROVE  agg'.todo = {}
  BY DEF TypeOK, Worker, EndPass

LEMMA KeptStep ==
    ASSUME AggInv, KeptInv, [Next]_vars
    PROVE  KeptInv'
<1>1. /\ clock \in Nat /\ accepted \subseteq Event /\ KeptInv
      /\ \A e \in accepted : e.created \in Int /\ e.expires \in Int
  BY DEF AggInv, TypeOK, Event
<1>2. CASE Tick
  BY <1>1, <1>2 DEF Tick, KeptInv, Expired
<1>3. ASSUME NEW g \in Groups, NEW sample \in Samples, NEW lag \in Lags,
             NEW r \in Retentions, Store(g, sample, lag, r)
      PROVE  KeptInv'
  <2> DEFINE e == NewEvent(g, sample, lag, r)
  <2>1. e.expires < e.created \/ e.expires = e.created + r
    BY <1>1, NewDates DEF NewEvent
  <2> HIDE DEF e
  <2>2. /\ events' = events \cup {e} /\ accepted' = accepted \cup {e}
        /\ clock' = clock
    BY <1>3 DEF Store, e
  <2> QED
    BY <1>1, <2>1, <2>2 DEF KeptInv, Expired
<1>4. CASE Expire
  BY <1>1, <1>4 DEF Expire, Expired, KeptInv
<1>5. CASE UNCHANGED <<clock, events, accepted>>
  BY <1>1, <1>5 DEF KeptInv, Expired
<1> QED
  BY <1>2, <1>3, <1>4, <1>5
  DEF Next, WorkerNext, Environment, vars, StartAggregationWorker, Crash,
      Scan, WriteGroup, PassFails, ReceiveTick

\* A write is the only step that changes a bucket.
LEMMA WriteStep ==
    ASSUME [Next]_vars
    PROVE  UNCHANGED buckets \/ \E row \in agg.todo : WriteGroup(row)
  BY DEF Next, WorkerNext, Environment, vars, Tick, Store, Expire, Crash,
         StartAggregationWorker, Scan, PassFails, ReceiveTick

LEMMA WriteTodo ==
    ASSUME TypeOK, NEW row \in agg.todo, WriteGroup(row)
    PROVE  agg'.todo \subseteq agg.todo \ {row}
<1>1. agg \in Worker
  BY DEF TypeOK
<1>2. CASE agg' = [agg EXCEPT !.todo = @ \ {row}]
  BY <1>1, <1>2 DEF Worker
<1> QED
  BY <1>2, EndPassTodo DEF WriteGroup

\* What the environment and the worker do to rows not yet written.
LEMMA TodoStep ==
    ASSUME TypeOK, [Next]_vars
    PROVE  \/ agg'.todo \subseteq agg.todo
           \/ agg'.todo = Rows(agg.hour) /\ agg.pc = "scan"
<1>1. agg \in Worker
  BY DEF TypeOK
<1>2. CASE Tick
  BY <1>2 DEF Tick
<1>3. CASE Environment
  BY <1>3 DEF Environment, Store, Expire
<1>4. CASE StartAggregationWorker
  BY <1>4 DEF StartAggregationWorker
<1>5. CASE Crash
  BY <1>1, <1>5 DEF Crash, Worker
<1>6. CASE Scan
  BY <1>1, <1>6, EndPassTodo DEF Scan, Worker
<1>7. ASSUME NEW row \in agg.todo, WriteGroup(row)
      PROVE  agg'.todo \subseteq agg.todo
  BY <1>7, WriteTodo
<1>8. CASE PassFails
  BY <1>8, EndPassTodo DEF PassFails
<1>9. CASE ReceiveTick
  BY <1>1, <1>9 DEF ReceiveTick, Worker
<1>10. CASE UNCHANGED vars
  BY <1>10 DEF vars
<1> QED
  BY <1>2, <1>3, <1>4, <1>5, <1>6, <1>7, <1>8, <1>9, <1>10
  DEF Next, WorkerNext

LEMMA TodoInvStep ==
    ASSUME KeptLongEnough, AggInv, SkipInv, KeptInv, TodoInv, [Next]_vars
    PROVE  TodoInv'
<1>a. AggInv'
  BY AggStep
<1>b. ASSUME NEW b, b.total \in Nat, NEW r, r.total \in Nat,
             b.total <= r.total + Slack(b)
      PROVE  b.total <= r.total + Slack(b)'
  BY <1>a, <1>b, SlackStays
<1>c. /\ \A b \in buckets : b.total \in Nat
      /\ \A r \in agg.todo \cup agg'.todo : r.total \in Nat
  BY <1>a DEF AggInv, TypeOK, Worker, Bucket
<1>1. CASE UNCHANGED buckets
  <2>1. CASE agg'.todo \subseteq agg.todo
    <3>1. ASSUME NEW r \in agg'.todo, NEW b \in buckets',
                 b.group = r.group, b.hour = r.hour
          PROVE  b.total <= r.total + Slack(b)'
      BY <1>b, <1>c, <1>1, <2>1, <3>1 DEF TodoInv
    <3> QED
      BY <2>1, <3>1 DEF TodoInv
  <2>2. CASE agg'.todo = Rows(agg.hour) /\ agg.pc = "scan"
    <3>1. ASSUME NEW r \in agg'.todo, NEW b \in buckets',
                 b.group = r.group, b.hour = r.hour
          PROVE  b.total <= r.total + Slack(b)'
      BY <1>b, <1>c, <1>1, <2>2, <3>1, RowsCountAll DEF InPass
    <3> QED
      BY <2>2, <3>1, RowsApart DEF TodoInv
  <2> QED
    BY <2>1, <2>2, TodoStep DEF AggInv
<1>2. ASSUME NEW row \in agg.todo, WriteGroup(row) PROVE TodoInv'
  <2>1. /\ buckets' = Upserted(row) /\ agg'.todo \subseteq agg.todo \ {row}
    BY <1>2, WriteTodo DEF WriteGroup, AggInv
  <2>2. ASSUME NEW r \in agg'.todo, NEW b \in buckets',
               b.group = r.group, b.hour = r.hour
        PROVE  b.total <= r.total + Slack(b)'
    <3>1. r \in agg.todo /\ r.group # row.group
      BY <2>1, <2>2 DEF TodoInv
    <3>2. b \in buckets
      BY <2>1, <2>2, <3>1 DEF Upserted
    <3> QED
      BY <1>b, <1>c, <2>2, <3>1, <3>2 DEF TodoInv
  <2> QED
    BY <2>1, <2>2 DEF TodoInv
<1> QED
  BY <1>1, <1>2, WriteStep

\* A restart or a late pass never makes a bucket lose events it has counted,
\* as long as passes are prompt and every key keeps events for longer than the
\* startup loop goes back, but for events that come with the zero time and are
\* not kept at all (aggregation.go:75, 96; ingest.go:94, 104).
THEOREM CountsKept ==
    ASSUME Prompt, KeptLongEnough PROVE Spec => CountsNeverShrink
<1> DEFINE Inv == AggInv /\ SkipInv /\ KeptInv /\ TodoInv
           Keeps == \A b \in buckets :
                       \E c \in buckets' :
                          /\ c.group = b.group /\ c.hour = b.hour
                          /\ c.total + Slack(b) >= b.total
<1>1. Init => KeptInv /\ TodoInv
  BY DEF Init, KeptInv, TodoInv
<1>2. AggInv /\ SkipInv /\ KeptInv /\ TodoInv /\ [Next]_vars
         => KeptInv' /\ TodoInv'
  BY KeptStep, TodoInvStep
<1>3. Inv /\ [Next]_vars => [Keeps]_vars
  <2> SUFFICES ASSUME Inv, Next PROVE Keeps
    BY DEF vars
  <2>1. \A b \in buckets : b.total + Slack(b) >= b.total
    BY SlackFacts DEF AggInv, TypeOK, Bucket
  <2>2. ASSUME UNCHANGED buckets PROVE Keeps
    BY <2>1, <2>2
  <2>3. ASSUME NEW row \in agg.todo, WriteGroup(row) PROVE Keeps
    BY <2>3, WriteKeeps DEF WriteGroup
  <2> QED
    BY <2>2, <2>3, WriteStep
<1>4. Spec => []Inv
  BY <1>1, <1>2, SkipInvariant, PTL DEF Spec
<1> QED
  BY <1>3, <1>4, PTL DEF Spec, CountsNeverShrink, Slack
=============================================================================
