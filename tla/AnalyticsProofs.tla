-------------------------- MODULE AnalyticsProofs --------------------------
(***************************************************************************)
(* Aggregation implements Analytics, for any groups, events, hours, bounds *)
(* and pace of the worker.  Beyond AggInv the proof needs to know that a   *)
(* row which a pass has computed and not yet written still counts all that *)
(* a row of its hour must count, however long the write takes: an hour     *)
(* that is over gets no more events in time, and those it has only expire. *)
(* Then, for any ranges too, that the charts drawn from the two tables     *)
(* agree, if database and process keep the same time.                      *)
(***************************************************************************)
EXTENDS AggregationProofs

\* row counts what Analytics asks of a row.
Faithful(row) ==
    \E set \in SUBSET Reader!Mine(row.group, row.hour) :
       /\ set # {} /\ Reader!Wanted(row.group, row.hour) \subseteq set
       /\ row = Reader!BucketRow(row.group, row.hour, set)

RefInv == AggInv /\ KeptInv /\ (\A row \in agg.todo : Faithful(row))

\* The definitions of Hours and of MetricRow mean the same on both sides.
LEMMA SameHour == \A t : Reader!HourOf(t) = HourOf(t)
  BY DEF Reader!HourOf, HourOf

LEMMA SameCardinality == \A S : Reader!Cardinality(S) = Cardinality(S)
  BY Zenon DEF Reader!Cardinality, Cardinality

LEMMA SameRow ==
    ASSUME NEW g, NEW h, NEW set
    PROVE  Reader!BucketRow(g, h, set) = BucketRow(g, h, set)
  BY SameCardinality DEF Reader!BucketRow, BucketRow, Reader!Errors, Errors,
         Reader!Percentile, Percentile

LEMMA MineFacts ==
    ASSUME NEW g, NEW h
    PROVE  Reader!Mine(g, h) =
              {e \in accepted : e.group = g /\ HourOf(e.created) = h}
  BY SameHour DEF Reader!Mine, Reader!OfGroup

\* What a row of an hour that is over must count only becomes less.
LEMMA WantedShrinks ==
    ASSUME AggInv, clock \in Nat, clock' \in Nat, clock <= clock',
           accepted \subseteq accepted', accepted' \subseteq Event,
           \A e \in accepted' \ accepted : e.arrived = clock,
           NEW g, NEW h \in Int, h + HourLen <= clock
    PROVE  Reader!Wanted(g, h)' \subseteq Reader!Wanted(g, h)
<1> SUFFICES ASSUME NEW e \in Reader!Wanted(g, h)'
             PROVE  e \in Reader!Wanted(g, h)
  OBVIOUS
<1>1. /\ e \in accepted' /\ e.group = g /\ HourOf(e.created) = h
      /\ e.arrived < h + HourLen /\ ~(e.expires <= clock')
  BY SameHour
  DEF Reader!Wanted, Reader!Mine, Reader!OfGroup, Reader!OnTime, Reader!Expired
<1>2. e.arrived \in Int /\ e.expires \in Int
  BY <1>1 DEF Event
<1>3. e \in accepted
  BY <1>1, <1>2, HourAssumption
<1>4. ~(e.expires <= clock)
  BY <1>1, <1>2, HourAssumption
<1> QED
  BY <1>1, <1>3, <1>4, SameHour
  DEF Reader!Wanted, Reader!Mine, Reader!OfGroup, Reader!OnTime, Reader!Expired

\* A row of an hour that is over stays faithful while time passes and events
\* come in.
LEMMA FaithfulStays ==
    ASSUME AggInv, clock \in Nat, clock' \in Nat, clock <= clock',
           accepted \subseteq accepted', accepted' \subseteq Event,
           \A e \in accepted' \ accepted : e.arrived = clock,
           NEW row, row.hour \in Int, row.hour + HourLen <= clock,
           Faithful(row)
    PROVE  Faithful(row)'
<1> DEFINE g == row.group
           h == row.hour
<1>1. PICK set \in SUBSET Reader!Mine(g, h) :
         /\ set # {} /\ Reader!Wanted(g, h) \subseteq set
         /\ row = Reader!BucketRow(g, h, set)
  BY DEF Faithful
<1>2. set \subseteq Reader!Mine(g, h)'
  BY <1>1, MineFacts DEF Reader!Mine, Reader!OfGroup
<1>3. Reader!Wanted(g, h)' \subseteq Reader!Wanted(g, h)
  BY WantedShrinks
<1> QED
  BY <1>1, <1>2, <1>3 DEF Faithful, Reader!BucketRow, Reader!Errors, Reader!Percentile

\* A pass reads all that its rows must count.
LEMMA RowsFaithful ==
    ASSUME RefInv, NEW row \in Rows(agg.hour)
    PROVE  Faithful(row)
<1>1. PICK g \in {e.group : e \in InHour(agg.hour)} :
         row = BucketRow(g, agg.hour, OfGroup(InHour(agg.hour), g))
  BY DEF Rows
<1> DEFINE set == OfGroup(InHour(agg.hour), g)
<1>2. row.group = g /\ row.hour = agg.hour /\ agg.hour \in Int
      /\ IsHour(agg.hour) /\ events \subseteq accepted /\ accepted \subseteq Event
  BY <1>1 DEF BucketRow, RefInv, AggInv, TypeOK, Worker, PassInv, EventsInv
<1>3. set # {}
  BY <1>1 DEF OfGroup
<1>4. set \subseteq Reader!Mine(g, agg.hour)
  <2> SUFFICES ASSUME NEW e \in set PROVE e \in Reader!Mine(g, agg.hour)
    OBVIOUS
  <2>1. /\ e \in accepted /\ e.group = g /\ e.created \in Int
        /\ agg.hour <= e.created /\ e.created < agg.hour + HourLen
    BY <1>2 DEF OfGroup, InHour, Event
  <2> QED
    BY <1>2, <2>1, WindowIsHour, MineFacts
<1>5. Reader!Wanted(g, agg.hour) \subseteq set
  <2> SUFFICES ASSUME NEW e \in Reader!Wanted(g, agg.hour) PROVE e \in set
    OBVIOUS
  <2>1. /\ e \in accepted /\ e.group = g /\ HourOf(e.created) = agg.hour
        /\ ~Reader!Expired(e, clock)
    BY MineFacts DEF Reader!Wanted
  <2>2. e \in events /\ e.created \in Int
    BY <1>2, <2>1 DEF RefInv, KeptInv, Expired, Reader!Expired, Event
  <2>3. agg.hour <= e.created /\ e.created < agg.hour + HourLen
    BY <2>1, <2>2, HourFacts
  <2> QED
    BY <2>1, <2>2, <2>3 DEF OfGroup, InHour
<1>6. row = Reader!BucketRow(g, agg.hour, set)
  BY <1>1, SameRow
<1> QED
  BY <1>2, <1>3, <1>4, <1>5, <1>6 DEF Faithful
-----------------------------------------------------------------------------
\* Events come with the time of their arrival, and time does not go back.
LEMMA ArrivalStep ==
    ASSUME RefInv, [Next]_vars
    PROVE  /\ clock \in Nat /\ clock' \in Nat /\ clock <= clock'
           /\ accepted \subseteq accepted'
           /\ \A e \in accepted' \ accepted : e.arrived = clock
<1>1. clock \in Nat
  BY DEF RefInv, AggInv, TypeOK
<1>2. CASE Tick
  BY <1>1, <1>2 DEF Tick
<1>3. CASE Environment
  BY <1>1, <1>3 DEF Environment, Store, NewEvent, Expire
<1>4. CASE UNCHANGED <<clock, accepted>>
  BY <1>1, <1>4
<1> QED
  BY <1>2, <1>3, <1>4
  DEF Next, WorkerNext, vars, StartAggregationWorker, Crash,
      Scan, WriteGroup, PassFails, ReceiveTick

LEMMA RefStep ==
    ASSUME RefInv, [Next]_vars
    PROVE  RefInv'
<1>1. AggInv' /\ KeptInv'
  BY AggStep, KeptStep DEF RefInv
<1>2. ASSUME NEW row \in agg'.todo PROVE Faithful(row)'
  <2>1. row \in agg.todo \cup Rows(agg.hour) /\ Faithful(row)
        /\ row.hour \in Int /\ row.hour + HourLen <= clock
    <3>1. CASE row \in agg.todo
      BY <3>1 DEF RefInv, AggInv, PassInv, TypeOK, Worker, Bucket
    <3>2. CASE row \in Rows(agg.hour) /\ row \notin agg.todo
      <4>1. agg.pc = "scan"
        BY <1>2, <3>2, TodoStep DEF RefInv, AggInv
      <4>2. row.hour = agg.hour /\ agg.hour \in Int
        BY <3>2, RowFacts DEF RefInv, AggInv, TypeOK, Worker
      <4> QED
        BY <3>2, <4>1, <4>2, RowsFaithful DEF RefInv, AggInv, PassInv
    <3> QED
      BY <1>2, <3>1, <3>2, TodoStep DEF RefInv, AggInv
  <2>2. accepted' \subseteq Event
    BY <1>1 DEF AggInv, TypeOK
  <2> QED
    BY <2>1, <2>2, ArrivalStep, FaithfulStays DEF RefInv
<1> QED
  BY <1>1, <1>2 DEF RefInv

LEMMA RefInit == Init => RefInv
<1>1. Init => AggInv
  BY AggInit
<1>2. Init => accepted = {} /\ agg.todo = {}
  BY DEF Init
<1> QED
  BY <1>1, <1>2 DEF RefInv, KeptInv

LEMMA RefInvariant == Spec => []RefInv
  BY RefInit, RefStep, PTL DEF Spec
-----------------------------------------------------------------------------
(***************************************************************************)
(* Every step is a step of Analytics, or none that its reader sees.        *)
(***************************************************************************)
LEMMA StoreIsAccept ==
    ASSUME RefInv, RefInv', NEW g \in Groups, NEW sample \in Samples,
           NEW lag \in Lags, NEW r \in Retentions, Store(g, sample, lag, r)
    PROVE  Reader!Accept
<1> DEFINE e == NewEvent(g, sample, lag, r)
<1>1. /\ UNCHANGED <<clock, buckets>>
      /\ events' = events \cup {e} /\ accepted' = accepted \cup {e}
  BY DEF Store
<1>2. e \in Event /\ e.arrived = clock
  BY <1>1 DEF RefInv, AggInv, TypeOK, NewEvent
<1> HIDE DEF e
<1>3. e \in Reader!Event
  BY <1>2, BoundAssumption DEF Event, Reader!Event
<1> QED
  BY <1>1, <1>2, <1>3 DEF Reader!Accept

LEMMA WriteIsPublish ==
    ASSUME RefInv, NEW row \in agg.todo, WriteGroup(row)
    PROVE  \E g \in Groups, h \in {Reader!HourOf(e.created) : e \in accepted} :
              Reader!Publish(g, h)
<1>1. /\ UNCHANGED <<clock, events, accepted>>
      /\ buckets' = Upserted(row) /\ agg.pc = "write"
  BY DEF WriteGroup
<1>2. /\ row \in Bucket /\ row.hour = agg.hour /\ row.hour + HourLen <= clock
  BY <1>1 DEF RefInv, AggInv, PassInv, TypeOK, Worker
<1>3. PICK set \in SUBSET Reader!Mine(row.group, row.hour) :
         /\ set # {} /\ Reader!Wanted(row.group, row.hour) \subseteq set
         /\ row = Reader!BucketRow(row.group, row.hour, set)
  BY DEF RefInv, Faithful
<1>4. row.hour \in {Reader!HourOf(e.created) : e \in accepted}
  BY <1>3, MineFacts, SameHour
<1>5. buckets' = {b \in buckets : b.group # row.group \/ b.hour # row.hour}
                    \cup {row}
  BY <1>1 DEF Upserted
<1>6. Reader!Publish(row.group, row.hour)
  BY <1>1, <1>2, <1>3, <1>5 DEF Reader!Publish
<1> QED
  BY <1>2, <1>4, <1>6 DEF Bucket

LEMMA StepRefines ==
    ASSUME RefInv, RefInv', [Next]_vars
    PROVE  [Reader!Next]_(Reader!vars)
<1>1. CASE Tick
  BY <1>1 DEF Tick, Reader!Tick, Reader!Next
<1>2. ASSUME NEW g \in Groups, NEW sample \in Samples, NEW lag \in Lags,
             NEW r \in Retentions, Store(g, sample, lag, r)
      PROVE  Reader!Next
  BY <1>2, StoreIsAccept DEF Reader!Next
<1>3. CASE Expire
  BY <1>3 DEF Expire, Expired, Reader!Expired, Reader!Forget, Reader!Next
<1>4. ASSUME NEW row \in agg.todo, WriteGroup(row) PROVE Reader!Next
  BY <1>4, WriteIsPublish DEF Reader!Next
<1>5. CASE UNCHANGED <<clock, events, buckets, accepted>>
  BY <1>5 DEF Reader!vars
<1> QED
  BY <1>1, <1>2, <1>3, <1>4, <1>5
  DEF Next, WorkerNext, Environment, vars, StartAggregationWorker, Crash,
      Scan, PassFails, ReceiveTick

\* The tables the workers write, at any pace and through any crash and any
\* failed statement, are tables as Analytics describes them, whatever the
\* events' dates and their keys' retentions (aggregation.go:13-88, 93-114,
\* ingest.go:94-104, retention.go:12-18).
THEOREM Implements == Spec => ImplementsAnalytics
<1>1. Init => Reader!Init
  BY DEF Init, Reader!Init
<1>2. RefInv /\ RefInv' /\ [Next]_vars => [Reader!Next]_(Reader!vars)
  BY StepRefines
<1> QED
  BY <1>1, <1>2, RefInvariant, PTL DEF Spec, ImplementsAnalytics, Reader!Spec
-----------------------------------------------------------------------------
(***************************************************************************)
(* The charts: rows of metric_buckets stay faithful after they are         *)
(* written, and the points of the traffic chart, by the hour or by the     *)
(* half hour, split an hour's events without loss.                         *)
(***************************************************************************)
ChartInv == RefInv /\ \A b \in buckets : Faithful(b)

LEMMA ChartStep ==
    ASSUME ChartInv, [Next]_vars
    PROVE  ChartInv'
<1>1. RefInv /\ RefInv' /\ accepted' \subseteq Event
  BY RefStep DEF ChartInv, RefInv, AggInv, TypeOK
<1>2. ASSUME NEW b \in buckets' PROVE b \in buckets \cup agg.todo
  BY <1>2, WriteStep DEF WriteGroup, Upserted
<1>3. ASSUME NEW b \in buckets' PROVE Faithful(b)'
  <2>1. /\ Faithful(b) /\ b.hour \in Int /\ b.hour + HourLen <= clock
    <3>1. CASE b \in buckets
      BY <1>1, <3>1 DEF ChartInv, RefInv, AggInv, TypeOK, BucketsInv, Bucket
    <3>2. CASE b \in agg.todo
      BY <1>1, <3>2 DEF ChartInv, RefInv, AggInv, TypeOK, PassInv, Worker, Bucket
    <3> QED
      BY <1>2, <1>3, <3>1, <3>2
  <2> QED
    BY <1>1, <2>1, ArrivalStep, FaithfulStays DEF RefInv
<1> QED
  BY <1>1, <1>3 DEF ChartInv

LEMMA ChartInvariant == Spec => []ChartInv
<1>1. Init => ChartInv
  BY RefInit DEF Init, ChartInv
<1> QED
  BY <1>1, ChartStep, PTL DEF Spec
-----------------------------------------------------------------------------
(***************************************************************************)
(* A pass without faults leaves a row for all there is to count: of each   *)
(* group it has to count, a row is in the table or still to be written.    *)
(***************************************************************************)
HasRow(g, h) == \E b \in buckets : b.group = g /\ b.hour = h

Provided(g) == HasRow(g, agg.hour) \/ \E row \in agg.todo : row.group = g

DueInv ==
    agg.pc = "write" =>
       \A g \in Groups : Reader!Wanted(g, agg.hour) # {} => Provided(g)

\* What must be counted of a group gives it a row.
LEMMA WantedHasRow ==
    ASSUME RefInv, NEW g, Reader!Wanted(g, agg.hour) # {}
    PROVE  \E row \in Rows(agg.hour) : row.group = g
<1>1. PICK e \in Reader!Wanted(g, agg.hour) : TRUE
  OBVIOUS
<1>2. /\ e \in accepted /\ e.group = g /\ HourOf(e.created) = agg.hour
      /\ ~Expired(e, clock)
  BY <1>1, MineFacts DEF Reader!Wanted, Reader!Expired, Expired
<1>3. e \in events /\ e.created \in Int
  BY <1>2 DEF RefInv, KeptInv, AggInv, TypeOK, Event
<1>4. e \in InHour(agg.hour)
  BY <1>2, <1>3, HourFacts DEF InHour
<1> DEFINE row == BucketRow(g, agg.hour, OfGroup(InHour(agg.hour), g))
<1>5. row \in Rows(agg.hour)
  BY <1>2, <1>4 DEF Rows
<1> QED
  BY <1>5 DEF BucketRow

\* A write provides for its group and takes no other group's row away.
LEMMA WriteProvides ==
    ASSUME RefInv, NEW row \in agg.todo, WriteGroup(row), NEW g, Provided(g)
    PROVE  \/ \E b \in buckets' : b.group = g /\ b.hour = agg.hour
           \/ \E r \in agg.todo \ {row} : r.group = g
<1>1. buckets' = Upserted(row) /\ row.hour = agg.hour
  BY DEF WriteGroup, RefInv, AggInv, PassInv
<1> QED
  BY <1>1 DEF Upserted, HasRow, Provided

LEMMA EndPassLeaves ==
    ASSUME TypeOK, EndPass
    PROVE  agg'.pc # "write"
  BY DEF EndPass, TypeOK, Worker

\* The worker is one of the running process.
UpInv == agg.pc # "off" => up

LEMMA UpStep ==
    ASSUME TypeOK, UpInv, [Next]_vars
    PROVE  UpInv'
<1>1. agg \in Worker
  BY DEF TypeOK
<1>2. CASE Crash
  BY <1>1, <1>2 DEF Crash, Worker, UpInv
<1>3. CASE StartAggregationWorker
  BY <1>3 DEF StartAggregationWorker, UpInv
<1>4. CASE WorkerNext
  BY <1>4 DEF WorkerNext, Scan, WriteGroup, PassFails, ReceiveTick, UpInv
<1>5. CASE UNCHANGED <<agg, up>>
  BY <1>5 DEF UpInv
<1> QED
  BY <1>2, <1>3, <1>4, <1>5 DEF Next, Environment, vars, Tick, Store, Expire

LEMMA DueStep ==
    ASSUME RefInv, DueInv, [Next]_vars
    PROVE  DueInv'
<1> SUFFICES ASSUME agg'.pc = "write", NEW g \in Groups,
                    Reader!Wanted(g, agg.hour)' # {}
             PROVE  Provided(g)'
  BY DEF DueInv
<1>1. TypeOK /\ agg \in Worker /\ agg.hour \in Int
  BY DEF RefInv, AggInv, TypeOK, Worker
<1>2. AggInv /\ accepted' \subseteq Event /\ (agg.pc \in {"scan", "write"} =>
                                     agg.hour + HourLen <= clock)
  BY RefStep DEF RefInv, AggInv, TypeOK, PassInv
<1>3. ASSUME agg.pc \in {"scan", "write"}, agg'.hour = agg.hour
      PROVE  Reader!Wanted(g, agg.hour) # {}
  <2>1. PICK h : h = agg.hour
    OBVIOUS
  <2>2. Reader!Wanted(g, h)' \subseteq Reader!Wanted(g, h)
    BY <1>1, <1>2, <1>3, <2>1, ArrivalStep, WantedShrinks
  <2>3. Reader!Wanted(g, h)' # {}
    BY <1>3, <2>1 DEF Reader!Wanted, Reader!Mine
  <2> QED
    BY <2>1, <2>2, <2>3
<1>4. CASE UNCHANGED <<agg, buckets>>
  BY <1>3, <1>4 DEF DueInv, Provided, HasRow
<1>5. CASE Scan
  <2>1. agg' = [agg EXCEPT !.pc = "write", !.todo = Rows(agg.hour)]
        /\ agg.pc = "scan"
    BY <1>1, <1>5, EndPassLeaves DEF Scan
  <2>2. agg'.hour = agg.hour /\ agg'.todo = Rows(agg.hour)
    BY <1>1, <2>1 DEF Worker
  <2> QED
    BY <1>3, <2>1, <2>2, WantedHasRow DEF Provided
<1>6. ASSUME NEW row \in agg.todo, WriteGroup(row) PROVE Provided(g)'
  <2>1. agg' = [agg EXCEPT !.todo = @ \ {row}] /\ agg.pc = "write"
    BY <1>1, <1>6, EndPassLeaves DEF WriteGroup
  <2>2. agg'.hour = agg.hour /\ agg'.todo = agg.todo \ {row}
    BY <1>1, <2>1 DEF Worker
  <2>3. Provided(g)
    BY <1>3, <2>1, <2>2 DEF DueInv
  <2> QED
    BY <1>6, <2>2, <2>3, WriteProvides DEF Provided, HasRow
<1>7. CASE PassFails
  BY <1>1, <1>7, EndPassLeaves DEF PassFails
<1>8. CASE StartAggregationWorker
  BY <1>1, <1>8 DEF StartAggregationWorker
<1>9. CASE Crash \/ ReceiveTick
  BY <1>1, <1>9 DEF Crash, ReceiveTick, Worker
<1> QED
  BY <1>4, <1>5, <1>6, <1>7, <1>8, <1>9
  DEF Next, WorkerNext, Environment, vars, Tick, Store, Expire

\* A faithful row counts what it must.
LEMMA FaithfulCounts ==
    ASSUME RefInv, NEW b, Faithful(b)
    PROVE  b.total >= Cardinality(Reader!Wanted(b.group, b.hour))
<1>1. PICK set \in SUBSET Reader!Mine(b.group, b.hour) :
         /\ Reader!Wanted(b.group, b.hour) \subseteq set
         /\ b = Reader!BucketRow(b.group, b.hour, set)
  BY DEF Faithful
<1>2. IsFiniteSet(set)
  BY <1>1, MineFacts, FS_Subset DEF RefInv, AggInv, EventsInv
<1>3. b.total = Cardinality(set)
  BY <1>1, SameCardinality DEF Reader!BucketRow
<1>4. /\ Cardinality(Reader!Wanted(b.group, b.hour)) <= Cardinality(set)
      /\ Cardinality(set) \in Nat
      /\ Cardinality(Reader!Wanted(b.group, b.hour)) \in Nat
  BY <1>1, <1>2, FS_Subset, FS_CardinalityType
<1> QED
  BY <1>3, <1>4

\* A pass that no fault interrupts leaves for every group a bucket that counts
\* at least its events stored in time whose expires_at has not come, at any
\* pace, whatever comes and expires meanwhile (aggregation.go:13-88).
THEOREM PassesCountAll == Spec => PassCountsAll
<1> DEFINE Ended == PassEnds =>
              \A g \in Groups :
                 LET wanted == Reader!Wanted(g, agg.hour)
                 IN  wanted # {} => \E b \in buckets' :
                                      /\ b.group = g /\ b.hour = agg.hour
                                      /\ b.total >= Cardinality(wanted)
<1>1. Init => UpInv /\ DueInv
  BY DEF Init, UpInv, DueInv
<1>2. ASSUME ChartInv, UpInv, DueInv, [Next]_vars PROVE Ended
  <2> SUFFICES ASSUME PassEnds, NEW g \in Groups,
                      Reader!Wanted(g, agg.hour) # {}
               PROVE  \E b \in buckets' :
                         /\ b.group = g /\ b.hour = agg.hour
                         /\ b.total >= Cardinality(Reader!Wanted(g, agg.hour))
    OBVIOUS
  <2>1. RefInv /\ TypeOK /\ agg \in Worker
    BY <1>2 DEF ChartInv, RefInv, AggInv, TypeOK
  <2>2. ~Scan /\ ~PassFails /\ ~Crash /\ ~StartAggregationWorker /\ ~ReceiveTick
    <3>1. ~Scan
      BY <2>1, WantedHasRow DEF Scan, PassEnds, Worker
    <3>2. ~PassFails /\ ~Crash
      BY <2>1 DEF PassFails, Crash, PassEnds, TypeOK
    <3>3. ~StartAggregationWorker /\ ~ReceiveTick
      BY <1>2 DEF StartAggregationWorker, ReceiveTick, PassEnds, UpInv
    <3> QED
      BY <3>1, <3>2, <3>3
  <2>3. agg' # agg
    BY DEF PassEnds
  <2>4. PICK row \in agg.todo : WriteGroup(row) /\ agg.todo = {row}
    <3>1. PICK row \in agg.todo : WriteGroup(row)
      BY <1>2, <2>2, <2>3
      DEF Next, WorkerNext, Environment, vars, Tick, Store, Expire
    <3>2. agg' # [agg EXCEPT !.todo = @ \ {row}]
      BY <2>1, <3>1 DEF PassEnds, WriteGroup, Worker
    <3> QED
      BY <3>1, <3>2 DEF WriteGroup
  <2>5. Provided(g)
    BY <1>2, <2>4 DEF DueInv, WriteGroup
  <2>6. PICK b \in buckets' : b.group = g /\ b.hour = agg.hour
    BY <2>1, <2>4, <2>5, WriteProvides
  <2>7. Faithful(b)
    <3>1. buckets' = Upserted(row)
      BY <2>4 DEF WriteGroup
    <3> QED
      BY <1>2, <2>6, <3>1 DEF Upserted, ChartInv, RefInv
  <2> QED
    BY <2>1, <2>6, <2>7, FaithfulCounts
<1>3. ChartInv /\ UpInv /\ DueInv /\ [Next]_vars => UpInv' /\ DueInv'
  BY UpStep, DueStep DEF ChartInv, RefInv, AggInv
<1>4. ChartInv /\ UpInv /\ DueInv /\ [Next]_vars => Ended
  BY <1>2
<1> QED
  BY <1>1, <1>3, <1>4, ChartInvariant, PTL DEF Spec, PassCountsAll
-----------------------------------------------------------------------------
(***************************************************************************)
(* The points of an hour.                                                  *)
(***************************************************************************)
\* Truncation to n is the multiple of n that is at t or just before it.
LEMMA Truncated ==
    ASSUME NEW n \in Nat, n # 0, NEW k \in Int, NEW t \in Int, NEW m, m = n * k
    PROVE  t - (t % n) = m <=> m <= t /\ t < m + n
<1> DEFINE j == t \div n
<1>1. j \in Int /\ t % n \in Int /\ 0 <= t % n /\ t % n < n /\ t = n * j + (t % n)
  BY DivMod
<1> HIDE DEF j
<1>2. n * j \in Int /\ n * k \in Int
  BY <1>1
<1>3. ASSUME j + 1 <= k PROVE n * j + n <= n * k
  BY <1>1, <1>3
<1>4. ASSUME k + 1 <= j PROVE n * k + n <= n * j
  BY <1>1, <1>4
<1> QED
  BY <1>1, <1>2, <1>3, <1>4

LEMMA HalfFacts ==
    /\ Reader!HalfHour \in Nat /\ Reader!HalfHour # 0
    /\ HourLen = Reader!HalfHour + Reader!HalfHour
  BY HourAssumption DEF Reader!HalfHour

\* Both clocks that write labels are the same number of hours ahead of UTC:
\* the metrics page leaves that to the configuration of the two machines.
SameZone == SessionZone = ProcessZone /\ SessionZone % HourLen = 0

LEMMA ZoneFacts ==
    ASSUME SameZone
    PROVE  SessionZone \in Int /\ ProcessZone = SessionZone /\ IsHour(SessionZone)
<1>1. SessionZone = HourLen * (SessionZone \div HourLen) + (SessionZone % HourLen)
      /\ SessionZone \div HourLen \in Int /\ SessionZone \in Int
  BY DivMod, HourAssumption, ChartAssumption
<1>2. SessionZone = HourLen * (SessionZone \div HourLen)
  BY <1>1, HourAssumption DEF SameZone
<1> QED
  BY <1>1, <1>2 DEF SameZone, IsHour

LEMMA ZoneShift ==
    ASSUME SameZone, NEW t \in Int
    PROVE  HourOf(t + SessionZone) = HourOf(t) + SessionZone
<1>1. PICK k \in Int, z \in Int : HourOf(t) = HourLen * k /\ SessionZone = HourLen * z
  BY HourFacts, ZoneFacts DEF IsHour
<1>2. HourOf(t) + SessionZone = HourLen * (k + z) /\ k + z \in Int
  BY <1>1, HourAssumption
<1>3. IsHour(HourOf(t) + SessionZone)
  BY <1>2 DEF IsHour
<1> QED
  BY <1>3, HourFacts, ZoneFacts, WindowIsHour, HourAssumption

\* A time belongs to an hour exactly if its point has one of its labels.
LEMMA SlotFacts ==
    ASSUME SameZone, NEW h \in Int, IsHour(h), NEW t \in Int, NEW w \in Int
    PROVE  LET slot == Reader!SlotOf(t, w)
               label == h + ProcessZone
           IN  HourOf(t) = h <=> slot = label \/ slot = label + Reader!HalfHour
<1> DEFINE half == Reader!HalfHour
           zone == SessionZone
<1>0. zone \in Int /\ ProcessZone = zone
  BY ZoneFacts
<1>1. half \in Nat /\ half # 0 /\ HourLen = half + half
  BY HalfFacts
<1>2. PICK k \in Int : h = HourLen * k
  BY DEF IsHour
<1>3. HourOf(t) = h <=> h <= t /\ t < h + HourLen
  BY <1>2, Truncated, HourAssumption DEF HourOf
<1> HIDE DEF half
<1>4. CASE Reader!Bucket30Min(w)
  <2>1. PICK j \in Int : h = half * j
    BY <1>1, <1>2, half * (2 * k) = h, 2 * k \in Int
  <2>2. h + half = half * (j + 1) /\ j + 1 \in Int
    BY <1>1, <2>1
  <2>3. t - (t % half) = h <=> h <= t /\ t < h + half
    BY <1>1, <2>1, Truncated
  <2>4. t - (t % half) = h + half <=> h + half <= t /\ t < h + half + half
    BY <1>1, <2>2, Truncated
  <2>5. Reader!SlotOf(t, w) = t - (t % half) + zone
    BY <1>4 DEF Reader!SlotOf, half
  <2>6. t - (t % half) \in Int
    BY <1>1, DivMod
  <2> HIDE DEF zone
  <2>7. /\ Reader!SlotOf(t, w) = h + zone <=> t - (t % half) = h
        /\ Reader!SlotOf(t, w) = h + zone + half <=> t - (t % half) = h + half
    BY <1>0, <1>1, <2>5, <2>6
  <2>8. HourOf(t) = h <=> \/ Reader!SlotOf(t, w) = h + zone
                          \/ Reader!SlotOf(t, w) = h + zone + half
    BY <1>1, <1>3, <2>3, <2>4, <2>7
  <2> QED
    BY <1>0, <2>8 DEF half
<1>5. CASE ~Reader!Bucket30Min(w)
  <2>1. Reader!SlotOf(t, w) = HourOf(t) + zone
    BY <1>5, SameHour, ZoneShift DEF Reader!SlotOf
  <2>2. ASSUME HourOf(t) = h + half PROVE FALSE
    <3>1. IsHour(h + half) /\ h + half \in Int
      BY <1>1, <2>2, HourFacts
    <3>2. HourOf(h + half) = h + half /\ HourOf(h + half) = h
      BY <1>1, <3>1, WindowIsHour
    <3> QED
      BY <1>1, <3>2
  <2>3. HourOf(t) \in Int
    BY HourFacts
  <2> HIDE DEF zone
  <2>4. /\ HourOf(t) + zone = h + zone <=> HourOf(t) = h
        /\ HourOf(t) + zone = h + zone + half <=> HourOf(t) = h + half
    BY <1>0, <1>1, <2>3
  <2> QED
    BY <1>0, <2>1, <2>2, <2>4 DEF half
<1> QED
  BY <1>4, <1>5

\* The events of the table in hour h, with a status that matches.
Raw(g, h, status) ==
    {e \in Reader!Matching(Reader!OfGroup(events, g), status) : HourOf(e.created) = h}

\* An hour whose row is in range is in range as a whole, and its one or two
\* points in the traffic chart are of its events.
LEMMA HourShownIsRaw ==
    ASSUME SameZone, RefInv, NEW g, NEW w \in Int, NEW status,
           NEW h \in Int, IsHour(h), h >= clock - w
    PROVE  Reader!HourShown(g, w, status, h + ProcessZone)
              = Cardinality(Raw(g, h, status))
<1> DEFINE set == Reader!InRange(g, w, status)
           At(slot) == {e \in set : Reader!SlotOf(e.created, w) = slot}
           half == Reader!HalfHour
           label == h + ProcessZone
<1>1. /\ clock \in Nat /\ events \subseteq accepted /\ IsFiniteSet(accepted)
      /\ \A e \in events : e.created \in Int
  BY DEF RefInv, AggInv, TypeOK, EventsInv, Event
<1>2. set \subseteq events
  BY DEF Reader!InRange, Reader!Matching, Reader!OfGroup
<1>3. set = {e \in Reader!Matching(Reader!OfGroup(events, g), status) :
                e.created >= clock - w}
  BY DEF Reader!InRange, Reader!Cutoff
<1>4. \A slot : Reader!Point(Reader!TrafficSeries(g, w, status), slot)
                   = Cardinality(At(slot))
  <2> SUFFICES ASSUME NEW slot
               PROVE  Reader!Point(Reader!TrafficSeries(g, w, status), slot)
                         = Cardinality(At(slot))
    OBVIOUS
  <2>1. CASE At(slot) # {}
    BY <2>1, SameCardinality DEF Reader!Point, Reader!TrafficSeries
  <2>2. CASE At(slot) = {}
    BY <2>2, FS_EmptySet DEF Reader!Point, Reader!TrafficSeries
  <2> QED
    BY <2>1, <2>2
<1>5. Reader!HourShown(g, w, status, label)
         = Cardinality(At(label)) + Cardinality(At(label + half))
  BY <1>4 DEF Reader!HourShown
<1>6. At(label) \cup At(label + half) = Raw(g, h, status)
  <2>1. \A e \in events : HourOf(e.created) = h => e.created >= clock - w
    BY <1>1, HourFacts
  <2>2. \A e \in events : HourOf(e.created) = h
           <=> \/ Reader!SlotOf(e.created, w) = label
               \/ Reader!SlotOf(e.created, w) = label + half
    BY <1>1, SlotFacts
  <2>3. Reader!Matching(Reader!OfGroup(events, g), status) \subseteq events
    BY DEF Reader!Matching, Reader!OfGroup
  <2> HIDE DEF set, half, label
  <2> QED
    BY <1>3, <2>1, <2>2, <2>3 DEF Raw
<1>7. At(label) \cap At(label + half) = {}
  <2>1. label \in Int
    BY ChartAssumption
  <2> QED
    BY <2>1, HalfFacts
<1>8. IsFiniteSet(At(label)) /\ IsFiniteSet(At(label + half))
  BY <1>1, <1>2, FS_Subset
<1> HIDE DEF At, half, set, label
<1>9. /\ Cardinality(At(label) \cup At(label + half)) =
            Cardinality(At(label)) + Cardinality(At(label + half))
              - Cardinality(At(label) \cap At(label + half))
      /\ Cardinality(At(label)) \in Nat /\ Cardinality(At(label + half)) \in Nat
  BY <1>8, FS_Union, FS_CardinalityType
<1>10. Cardinality(At(label) \cap At(label + half)) = 0
  BY <1>7, FS_EmptySet
<1>11. Cardinality(Raw(g, h, status)) = Cardinality(At(label) \cup At(label + half))
  BY <1>6, Zenon
<1>12. Cardinality(At(label) \cup At(label + half))
          = Cardinality(At(label)) + Cardinality(At(label + half))
  BY <1>9, <1>10
<1> QED
  BY <1>5, <1>11, <1>12, Zenon DEF label
-----------------------------------------------------------------------------
(***************************************************************************)
(* The charts.                                                             *)
(***************************************************************************)
\* Two sets between the same bounds differ by no more than the bounds do.
LEMMA Between ==
    ASSUME NEW M, IsFiniteSet(M), NEW W, NEW A, NEW B,
           W \subseteq A, A \subseteq M, W \subseteq B, B \subseteq M
    PROVE  Cardinality(A) <= Cardinality(B) + Cardinality(M \ W)
<1>1. IsFiniteSet(B) /\ IsFiniteSet(M \ W) /\ IsFiniteSet(A)
  BY FS_Subset
<1>2. A \subseteq B \cup (M \ W) /\ IsFiniteSet(B \cup (M \ W))
  BY <1>1, FS_Union
<1>3. Cardinality(A) <= Cardinality(B \cup (M \ W))
  BY <1>2, FS_Subset
<1>4. IsFiniteSet(B \cap (M \ W))
  BY <1>1, FS_Subset
<1>5. /\ Cardinality(B \cup (M \ W)) = Cardinality(B) + Cardinality(M \ W)
                                        - Cardinality(B \cap (M \ W))
      /\ Cardinality(B) \in Nat /\ Cardinality(M \ W) \in Nat
      /\ Cardinality(B \cap (M \ W)) \in Nat /\ Cardinality(A) \in Nat
  BY <1>1, <1>4, FS_Union, FS_CardinalityType
<1> QED
  BY <1>3, <1>5

\* What the table has of an hour lies between what its row must and may count.
LEMMA RawBetween ==
    ASSUME RefInv, NEW g, NEW h, NEW status
    PROVE  /\ Reader!Matching(Reader!Wanted(g, h), status) \subseteq Raw(g, h, status)
           /\ Raw(g, h, status) \subseteq Reader!Matching(Reader!Mine(g, h), status)
<1>1. events \subseteq accepted /\ KeptInv
  BY DEF RefInv, AggInv, EventsInv
<1> QED
  BY <1>1, MineFacts
  DEF Raw, Reader!Matching, Reader!OfGroup, Reader!Wanted, KeptInv, Expired, Reader!Expired

\* The number of an hour's events of a status that a row counts is close to
\* the number the traffic chart shows.
LEMMA RowIsClose ==
    ASSUME SameZone, RefInv, NEW g, NEW w \in Int, NEW status,
           NEW h \in Int, IsHour(h), h >= clock - w, NEW set,
           Reader!Wanted(g, h) \subseteq set, set \subseteq Reader!Mine(g, h)
    PROVE  Reader!Close(Cardinality(Reader!Matching(set, status)),
                        Reader!HourShown(g, w, status, h + ProcessZone),
                        Reader!Cardinality(Reader!Doubtful(g, h, status)))
<1> DEFINE M == Reader!Matching(Reader!Mine(g, h), status)
           W == Reader!Matching(Reader!Wanted(g, h), status)
           A == Reader!Matching(set, status)
           B == Raw(g, h, status)
<1>1. IsFiniteSet(M)
  BY FS_Subset, MineFacts DEF RefInv, AggInv, EventsInv, Reader!Matching
<1>2. W \subseteq A /\ A \subseteq M /\ W \subseteq B /\ B \subseteq M
  BY RawBetween DEF Reader!Matching
<1>3. Reader!Doubtful(g, h, status) = M \ W
  BY DEF Reader!Doubtful, Reader!Matching
<1> HIDE DEF M, W, A, B
<1>4. /\ Cardinality(A) <= Cardinality(B) + Cardinality(M \ W)
      /\ Cardinality(B) <= Cardinality(A) + Cardinality(M \ W)
  BY <1>1, <1>2, Between
<1>5. Reader!HourShown(g, w, status, h + ProcessZone) = Cardinality(B)
  BY HourShownIsRaw DEF B
<1> QED
  BY <1>3, <1>4, <1>5, SameCardinality DEF Reader!Close, A

\* What a row in a chart's range is made of.
LEMMA RowInRange ==
    ASSUME ChartInv, NEW g, NEW w \in Int, NEW b \in Reader!BucketsInRange(g, w)
    PROVE  \E set \in SUBSET Reader!Mine(g, b.hour) :
              /\ Reader!Wanted(g, b.hour) \subseteq set
              /\ b = Reader!BucketRow(g, b.hour, set)
              /\ b.hour \in Int /\ IsHour(b.hour) /\ b.hour >= clock - w
<1>1. b \in buckets /\ b.group = g /\ b.hour >= clock - w /\ Faithful(b)
  BY DEF Reader!BucketsInRange, Reader!OfGroup, Reader!Cutoff, ChartInv
<1>2. PICK set \in SUBSET Reader!Mine(g, b.hour) :
         /\ set # {} /\ Reader!Wanted(g, b.hour) \subseteq set
         /\ b = Reader!BucketRow(g, b.hour, set)
  BY <1>1 DEF Faithful
<1>3. PICK e \in accepted : HourOf(e.created) = b.hour
  BY <1>2, MineFacts
<1>4. e.created \in Int
  BY DEF ChartInv, RefInv, AggInv, TypeOK, Event
<1> QED
  BY <1>1, <1>2, <1>3, <1>4, HourFacts

LEMMA RowFields ==
    ASSUME NEW g, NEW h, NEW set
    PROVE  LET row == Reader!BucketRow(g, h, set)
           IN  /\ row.p50 = Reader!Percentile(set, 50)
               /\ row.p95 = Reader!Percentile(set, 95)
               /\ row.p99 = Reader!Percentile(set, 99)
  BY DEF Reader!BucketRow

\* A label names the hour again.
LEMMA LabelOfHour ==
    ASSUME NEW h \in Int
    PROVE  h + ProcessZone \in Int /\ (h + ProcessZone) - ProcessZone = h
  BY ChartAssumption

\* The error rate chart and the traffic chart differ in an hour they both show
\* by no more than the hour's late and expired events, whatever the range, if
\* the database session and the process write labels in the same zone, whole
\* hours ahead of UTC (metrics.go:28, 106-110, 327, 345).
THEOREM ChartsAlwaysAgree == ASSUME SameZone PROVE Spec => []ChartsAgree
<1>1. ASSUME ChartInv PROVE ChartsAgree
  <2> SUFFICES ASSUME NEW g \in Groups, NEW w \in Ranges,
                      NEW p \in Reader!ErrorRateSeries(g, w)
               PROVE  LET h == p.bucket - ProcessZone
                      IN  /\ Reader!Close(p.total, Reader!HourShown(g, w, "", p.bucket),
                                Reader!Cardinality(Reader!Doubtful(g, h, "")))
                          /\ Reader!Close(p.errors, Reader!HourShown(g, w, "error", p.bucket),
                                Reader!Cardinality(Reader!Doubtful(g, h, "error")))
    BY DEF ChartsAgree, Reader!ChartsAgree
  <2>1. PICK b \in Reader!BucketsInRange(g, w) :
           p = [bucket |-> b.hour + ProcessZone, total |-> b.total, errors |-> b.errors]
    BY DEF Reader!ErrorRateSeries, Reader!RowLabel
  <2>2. w \in Int
    BY ChartAssumption
  <2>3. PICK set \in SUBSET Reader!Mine(g, b.hour) :
           /\ Reader!Wanted(g, b.hour) \subseteq set
           /\ b = Reader!BucketRow(g, b.hour, set)
           /\ b.hour \in Int /\ IsHour(b.hour) /\ b.hour >= clock - w
    BY <1>1, <2>2, RowInRange
  <2>4. set = Reader!Matching(set, "")
        /\ Reader!Errors(set) = Reader!Matching(set, "error")
    BY DEF Reader!Matching, Reader!Errors
  <2>5. b.total = Reader!Cardinality(set)
        /\ b.errors = Reader!Cardinality(Reader!Errors(set))
    BY <2>3 DEF Reader!BucketRow
  <2>6. /\ p.bucket = b.hour + ProcessZone
        /\ p.total = Cardinality(Reader!Matching(set, ""))
        /\ p.errors = Cardinality(Reader!Matching(set, "error"))
    BY <2>1, <2>4, <2>5, SameCardinality
  <2>7. p.bucket - ProcessZone = b.hour
    BY <2>3, <2>6, LabelOfHour
  <2>8. /\ Reader!Close(p.total, Reader!HourShown(g, w, "", b.hour + ProcessZone),
              Reader!Cardinality(Reader!Doubtful(g, b.hour, "")))
        /\ Reader!Close(p.errors, Reader!HourShown(g, w, "error", b.hour + ProcessZone),
              Reader!Cardinality(Reader!Doubtful(g, b.hour, "error")))
    BY <1>1, <2>2, <2>3, <2>6, RowIsClose DEF ChartInv
  <2> QED
    BY <2>6, <2>7, <2>8
<1> QED
  BY <1>1, ChartInvariant, PTL

\* The latency chart is of the requests the traffic chart counts under the
\* same label, in an hour without late or expired ones, on the same condition
\* (metrics.go:369, 382).
THEOREM LatencyAlwaysOfTraffic == ASSUME SameZone PROVE Spec => []LatencyOfTraffic
<1>1. ASSUME ChartInv PROVE LatencyOfTraffic
  <2> SUFFICES ASSUME NEW g \in Groups, NEW w \in Ranges,
                      NEW p \in Reader!LatencyPercentilesSeries(g, w)
               PROVE  Reader!Doubtful(g, p.bucket - ProcessZone, "") = {} =>
                      LET set == Reader!ShownAs(g, w, p.bucket)
                      IN  /\ p.p50 = Reader!Percentile(set, 50)
                          /\ p.p95 = Reader!Percentile(set, 95)
                          /\ p.p99 = Reader!Percentile(set, 99)
    BY DEF LatencyOfTraffic, Reader!LatencyOfTraffic
  <2>0. SUFFICES ASSUME Reader!Doubtful(g, p.bucket - ProcessZone, "") = {}
                 PROVE  LET set == Reader!ShownAs(g, w, p.bucket)
                        IN  /\ p.p50 = Reader!Percentile(set, 50)
                            /\ p.p95 = Reader!Percentile(set, 95)
                            /\ p.p99 = Reader!Percentile(set, 99)
    OBVIOUS
  <2>1. PICK b \in Reader!BucketsInRange(g, w) :
           p = [bucket |-> b.hour + ProcessZone,
                p50 |-> b.p50, p95 |-> b.p95, p99 |-> b.p99]
    BY DEF Reader!LatencyPercentilesSeries, Reader!RowLabel
  <2>2. w \in Int
    BY ChartAssumption
  <2>3. PICK set \in SUBSET Reader!Mine(g, b.hour) :
           /\ Reader!Wanted(g, b.hour) \subseteq set
           /\ b = Reader!BucketRow(g, b.hour, set)
           /\ b.hour \in Int /\ IsHour(b.hour) /\ b.hour >= clock - w
    BY <1>1, <2>2, RowInRange
  <2>7. p.bucket = b.hour + ProcessZone /\ p.bucket - ProcessZone = b.hour
    BY <2>1, <2>3, LabelOfHour
  <2>4. set = Raw(g, b.hour, "")
    <3>1. Reader!Mine(g, b.hour) = Reader!Wanted(g, b.hour)
      BY <2>0, <2>7 DEF Reader!Doubtful, Reader!Matching, Reader!Wanted
    <3>2. /\ Reader!Matching(Reader!Wanted(g, b.hour), "") = Reader!Wanted(g, b.hour)
          /\ Reader!Matching(Reader!Mine(g, b.hour), "") = Reader!Mine(g, b.hour)
      BY DEF Reader!Matching, Reader!Wanted, Reader!Mine, Reader!OfGroup
    <3> QED
      BY <1>1, <2>3, <3>1, <3>2, RawBetween DEF ChartInv
  <2>5. Raw(g, b.hour, "") = Reader!ShownAs(g, w, p.bucket)
    <3>1. /\ clock \in Int /\ \A e \in events : e.created \in Int
      BY <1>1 DEF ChartInv, RefInv, AggInv, TypeOK, EventsInv, Event
    <3>2. \A e \in events : HourOf(e.created) = b.hour => e.created >= clock - w
      BY <2>2, <2>3, <3>1, HourFacts
    <3>3. \A e \in events : HourOf(e.created) = b.hour <=>
             Reader!SlotOf(e.created, w) \in {p.bucket, p.bucket + Reader!HalfHour}
      BY <2>2, <2>3, <2>7, <3>1, SlotFacts
    <3> QED
      BY <3>2, <3>3
      DEF Raw, Reader!ShownAs, Reader!InRange, Reader!Cutoff, Reader!Matching,
          Reader!OfGroup
  <2>6. /\ b.p50 = Reader!Percentile(set, 50)
        /\ b.p95 = Reader!Percentile(set, 95)
        /\ b.p99 = Reader!Percentile(set, 99)
    BY <2>3, RowFields
  <2> QED
    BY <2>1, <2>4, <2>5, <2>6
<1> QED
  BY <1>1, ChartInvariant, PTL
=============================================================================
