---------------------------- MODULE Aggregation ----------------------------
(***************************************************************************)
(* The hourly aggregation worker (internal/db/aggregation.go) against the  *)
(* tables it shares with ingestion and retention.                          *)
(*                                                                         *)
(* At startup the worker aggregates the last completed hours, newest       *)
(* first, and only then creates its hourly ticker.  A pass over an hour    *)
(* reads the hour's events once and then writes one row per group, group   *)
(* by group, in no particular order; the first error abandons the pass.    *)
(* Meanwhile events of that hour may still arrive, expire or be deleted,   *)
(* the process may crash, and the clock runs.                              *)
(***************************************************************************)
EXTENDS Hours, Ticker, MetricRow

CONSTANTS
    Samples,        \* what requests were like: [status, dur], dur in ms
    Lags,           \* how far an event's timestamp is behind its arrival
    ZeroTime,       \* or it is Go's zero time, 0001-01-01T00:00:00Z
    YearOne,        \* the instant that denotes, on the model's clock
    Retentions,     \* how long keys keep events; wraps below 0 if too long
    Ranges,         \* see Charts
    SessionZone,    \* see Charts
    ProcessZone,    \* see Charts
    BackfillHours,  \* hours aggregated at startup, 24
    Prompt,         \* does a pass end in the hour in which it became due?
    MaxClock,       \* bound: the clock stops here
    MaxEvents,      \* bound: events ever accepted
    MaxFaults       \* bound: crashes and failed statements

ASSUME DataAssumption ==
    /\ Samples \subseteq [status : Nat, dur : Nat]
    /\ ZeroTime \notin Int /\ Lags \subseteq Int \cup {ZeroTime}
    /\ Retentions \subseteq Int
    /\ YearOne \in Int /\ \A r \in Retentions : YearOne + r < 0
ASSUME ChartAssumption ==
    /\ Ranges \subseteq Nat \ {0}
    /\ SessionZone \in Int /\ ProcessZone \in Int
ASSUME TimeAssumption ==
    BackfillHours \in Nat \ {0} /\ Prompt \in BOOLEAN
ASSUME BoundAssumption ==
    MaxClock \in Nat /\ MaxEvents \in Nat /\ MaxFaults \in Nat

VARIABLES
    clock,          \* wall clock
    up,             \* is the process running?
    events,         \* table events
    buckets,        \* table metric_buckets
    agg,            \* the worker: see Worker
    nextTick,       \* when its ticker fires next
    faults,         \* crashes and failures so far
    \* Auxiliary variables: no action of the code depends on them.
    accepted,       \* every event ever stored
    done            \* hours of which the running process ended a pass

vars == <<clock, up, events, buckets, agg, nextTick, faults, accepted, done>>
-----------------------------------------------------------------------------
Event == [id : 1..MaxEvents, group : Groups, status : Nat, dur : Nat,
          created : Int, expires : Int, arrived : Nat]

Bucket == [group : Groups, hour : Int, total : Nat, errors : Nat,
           p50 : Nat, p95 : Nat, p99 : Nat]

\* base is the hour in which the process started, i the step of the startup
\* loop (0 once the ticker runs), hour the hour of the current pass and todo
\* the rows of that pass still to be written.
Worker == [pc : {"off", "scan", "write", "wait"}, i : 0..BackfillHours,
           base : Int, hour : Int, todo : SUBSET Bucket]

\* Mutants: the end of the hour taken in, its start left out.
InHourAndEnd(hour) ==
    {e \in events : hour <= e.created /\ e.created <= hour + HourLen}
InHourAfterStart(hour) ==
    {e \in events : hour < e.created /\ e.created < hour + HourLen}

InHour(hour) == {e \in events : hour <= e.created /\ e.created < hour + HourLen}

\* The rows a pass over the events of one hour computes: one for each group
\* that has any.
Rows(hour) ==
    {BucketRow(g, hour, OfGroup(InHour(hour), g)) :
        g \in {e.group : e \in InHour(hour)}}
-----------------------------------------------------------------------------
Init ==
    /\ clock = 0 /\ up = FALSE
    /\ events = {} /\ accepted = {} /\ buckets = {}
    /\ agg = [pc |-> "off", i |-> 0, base |-> 0, hour |-> 0, todo |-> {}]
    /\ nextTick = 0 /\ faults = 0 /\ done = {}

\* Has the worker work to do now?
Busy == agg.pc \in {"scan", "write"} \/ (agg.pc = "wait" /\ Due(nextTick, clock))

\* Time passes.  Under Prompt no hour begins while the worker is busy.
Tick ==
    /\ clock < MaxClock
    /\ (Prompt /\ Busy) => HourOf(clock + 1) = HourOf(clock)
    /\ clock' = clock + 1
    /\ UNCHANGED <<up, events, buckets, agg, nextTick, faults, accepted, done>>

\* Ingestion stores an event, dated some time before or after its arrival, or
\* with the zero time: GORM replaces that by the time of the insert, but the
\* expiry has been counted from the year one.
CreatedAt(lag) == IF lag = ZeroTime THEN clock ELSE clock - lag

ExpiresAt(lag, r) == (IF lag = ZeroTime THEN YearOne ELSE clock - lag) + r

NewEvent(g, sample, lag, r) ==
    [id |-> Cardinality(accepted) + 1, group |-> g, status |-> sample.status,
     dur |-> sample.dur, created |-> CreatedAt(lag),
     expires |-> ExpiresAt(lag, r), arrived |-> clock]

Store(g, sample, lag, r) ==
    /\ up /\ Cardinality(accepted) < MaxEvents
    /\ LET e == NewEvent(g, sample, lag, r)
       IN  events' = events \cup {e} /\ accepted' = accepted \cup {e}
    /\ UNCHANGED <<clock, up, buckets, agg, nextTick, faults, done>>

\* The retention worker deletes what has expired.
Expire ==
    /\ up
    /\ events' = {e \in events : ~Expired(e, clock)}
    /\ UNCHANGED <<clock, up, buckets, agg, nextTick, faults, accepted, done>>

\* Mutant: the startup loop begins an hour too early.
StartAnHourBack ==
    /\ ~up
    /\ up' = TRUE
    /\ agg' = [pc |-> "scan", i |-> 1, base |-> HourOf(clock),
               hour |-> HourOf(clock) - 2 * HourLen, todo |-> {}]
    /\ done' = {}
    /\ UNCHANGED <<clock, events, buckets, nextTick, faults, accepted>>

\* The process starts: the worker reads the clock and begins with the hour
\* before the current one.
StartAggregationWorker ==
    /\ ~up
    /\ up' = TRUE
    /\ agg' = [pc |-> "scan", i |-> 1, base |-> HourOf(clock),
               hour |-> HourOf(clock) - HourLen, todo |-> {}]
    /\ done' = {}
    /\ UNCHANGED <<clock, events, buckets, nextTick, faults, accepted>>

Crash ==
    /\ up /\ faults < MaxFaults
    /\ up' = FALSE /\ faults' = faults + 1
    /\ agg' = [agg EXCEPT !.pc = "off", !.todo = {}]
    /\ UNCHANGED <<clock, events, buckets, nextTick, accepted, done>>

\* Mutant: the startup loop runs one step too many.
EndPassTooLate ==
    \/ /\ agg.i \in 1..BackfillHours
       /\ agg' = [agg EXCEPT !.pc = "scan", !.i = @ + 1,
                             !.hour = @ - HourLen, !.todo = {}]
       /\ UNCHANGED nextTick
    \/ /\ agg.i = 0
       /\ agg' = [agg EXCEPT !.pc = "wait", !.todo = {}]
       /\ UNCHANGED nextTick

\* After a pass, complete or abandoned: the next hour back, or, when the
\* startup loop is over, the ticker.
EndPass ==
    \/ /\ agg.i \in 1..(BackfillHours - 1)
       /\ agg' = [agg EXCEPT !.pc = "scan", !.i = @ + 1,
                             !.hour = @ - HourLen, !.todo = {}]
       /\ UNCHANGED nextTick
    \/ /\ agg.i = BackfillHours
       /\ agg' = [agg EXCEPT !.pc = "wait", !.i = 0, !.todo = {}]
       /\ nextTick' = clock + HourLen
    \/ /\ agg.i = 0
       /\ agg' = [agg EXCEPT !.pc = "wait", !.todo = {}]
       /\ UNCHANGED nextTick

\* runAggregationOnce: the one read of the hour's events.
Scan ==
    /\ agg.pc = "scan"
    /\ \/ /\ Rows(agg.hour) # {}
          /\ agg' = [agg EXCEPT !.pc = "write", !.todo = Rows(agg.hour)]
          /\ UNCHANGED <<nextTick, done>>
       \/ /\ Rows(agg.hour) = {}
          /\ done' = done \cup {agg.hour}
          /\ EndPass
    /\ UNCHANGED <<clock, up, events, buckets, faults, accepted>>

\* Mutant: the lookup forgets bucket_start.
UpsertedByGroup(row) == {b \in buckets : b.group # row.group} \cup {row}

\* The lookup by group and hour, then the update of the row found or the
\* insertion of the new one.
Upserted(row) ==
    {b \in buckets : b.group # row.group \/ b.hour # row.hour} \cup {row}

\* Mutant: the loop over the groups returns after its first row.
WriteGroupAndReturn(row) ==
    /\ agg.pc = "write"
    /\ buckets' = Upserted(row)
    /\ done' = done \cup {agg.hour}
    /\ EndPass
    /\ UNCHANGED <<clock, up, events, faults, accepted>>

WriteGroup(row) ==
    /\ agg.pc = "write"
    /\ buckets' = Upserted(row)
    /\ \/ /\ agg.todo # {row}
          /\ agg' = [agg EXCEPT !.todo = @ \ {row}]
          /\ UNCHANGED <<nextTick, done>>
       \/ /\ agg.todo = {row}
          /\ done' = done \cup {agg.hour}
          /\ EndPass
    /\ UNCHANGED <<clock, up, events, faults, accepted>>

\* A statement fails: the pass returns the error, which is only logged, and
\* the groups not yet written are given up.
PassFails ==
    /\ agg.pc \in {"scan", "write"} /\ faults < MaxFaults
    /\ faults' = faults + 1
    /\ done' = done \cup {agg.hour}
    /\ EndPass
    /\ UNCHANGED <<clock, up, events, buckets, accepted>>

\* Mutant: the hour of the tick itself is aggregated.
ReceiveTickThisHour ==
    /\ agg.pc = "wait" /\ Due(nextTick, clock)
    /\ agg' = [agg EXCEPT !.pc = "scan", !.hour = HourOf(nextTick)]
    /\ nextTick' = FollowingTick(nextTick, HourLen, clock)
    /\ UNCHANGED <<clock, up, events, buckets, faults, accepted, done>>

\* The worker receives a tick; its stamp, not the clock, names the hour.
ReceiveTick ==
    /\ agg.pc = "wait" /\ Due(nextTick, clock)
    /\ agg' = [agg EXCEPT !.pc = "scan", !.hour = HourOf(nextTick) - HourLen]
    /\ nextTick' = FollowingTick(nextTick, HourLen, clock)
    /\ UNCHANGED <<clock, up, events, buckets, faults, accepted, done>>

WorkerNext ==
    Scan \/ (\E row \in agg.todo : WriteGroup(row)) \/ PassFails \/ ReceiveTick

Environment ==
    \/ \E g \in Groups, sample \in Samples, lag \in Lags, r \in Retentions :
          Store(g, sample, lag, r)
    \/ Expire

Next == Tick \/ StartAggregationWorker \/ Crash \/ WorkerNext \/ Environment

\* The clock runs, the process is restarted, the scheduler runs the worker.
Fairness ==
    WF_vars(Tick) /\ WF_vars(StartAggregationWorker) /\ WF_vars(WorkerNext)

Spec == Init /\ [][Next]_vars /\ Fairness
-----------------------------------------------------------------------------
(***************************************************************************)
(* Properties.                                                             *)
(***************************************************************************)
\* The shape of the state.
TypeOK ==
    /\ clock \in Nat /\ up \in BOOLEAN
    /\ events \subseteq Event /\ accepted \subseteq Event
    /\ buckets \subseteq Bucket
    /\ agg \in Worker
    /\ nextTick \in Nat /\ faults \in Nat
    /\ done \subseteq Int

\* Only hours that are over are aggregated, at startup and on a tick however
\* late it is received (aggregation.go:97, 106): a chart never shows a partial
\* hour as a whole one.
OnlyCompletedHours ==
    /\ \A b \in buckets : b.hour + HourLen <= clock
    /\ agg.pc \in {"scan", "write"} => agg.hour + HourLen <= clock

\* A group has one bucket for an hour, and it counts no more events than were
\* ever accepted for that group and hour: hours do not overlap, passes that are
\* repeated do not add up, and groups keep apart (aggregation.go:17, 32-38,
\* 70-82).
NothingCountedTwice ==
    \A b \in buckets :
       /\ \A c \in buckets : b.group = c.group /\ b.hour = c.hour => b = c
       /\ b.total <= Cardinality({e \in accepted :
                        e.group = b.group /\ HourOf(e.created) = b.hour})

\* Error rates stay within 0 and 1 and percentiles are ordered
\* (aggregation.go:40-69); metrics.go:340-343 divides the one by the other.
RowsConsistent ==
    \A b \in buckets : /\ b.errors <= b.total /\ b.total > 0
                       /\ b.p50 <= b.p95 /\ b.p95 <= b.p99

\* aggregation.go:90-91: "runs aggregation for the previous full hour at
\* startup, then every hour."  While the worker waits, no hour lies between
\* the startup hours and the one its next tick will aggregate that the process
\* has not been over, be it in a pass that failed.
NoHourSkipped ==
    agg.pc = "wait" =>
       \A h \in (agg.base - BackfillHours * HourLen)
                   ..(HourOf(nextTick) - 2 * HourLen) :
          h % HourLen = 0 => h \in done

\* The events of an hour that are not kept for any time: they were sent with
\* the zero time, or the length of their retention has wrapped.
NotKept(g, h) ==
    {e \in OfGroup(accepted, g) : HourOf(e.created) = h /\ e.expires < e.created}

\* A bucket never loses events it has counted: an hour that is aggregated
\* again, by a restart, still has all of them (models.go:49, "total requests
\* in this hour"), but for those that expired before they came.
CountsNeverShrink ==
    [][\A b \in buckets :
          \E c \in buckets' :
             /\ c.group = b.group /\ c.hour = b.hour
             /\ c.total + Cardinality(NotKept(b.group, b.hour)) >= b.total]_vars

\* Once faults have stopped, an event stored in time for the pass of the
\* coming tick and kept until that pass must be over is counted, with those of
\* its group and hour that came before it and are kept as long.
OutlastsPass(e) == e.expires >= HourOf(e.created) + 2 * HourLen
ComeUpTo(e) ==
    {f \in OfGroup(accepted, e.group) :
        HourOf(f.created) = HourOf(e.created) /\ f.id <= e.id /\ OutlastsPass(f)}
TickWillCount(e) ==
    /\ e \in events /\ agg.pc = "wait" /\ faults = MaxFaults
    /\ HourOf(e.created) = HourOf(nextTick) - HourLen /\ OutlastsPass(e)
    /\ nextTick <= MaxClock
EventuallyCounted ==
    \A id \in 1..MaxEvents :
       (\E e \in events : e.id = id /\ TickWillCount(e))
          ~> (\A e \in accepted : e.id = id =>
                \E b \in buckets :
                   /\ b.group = e.group /\ b.hour = HourOf(e.created)
                   /\ b.total >= Cardinality(ComeUpTo(e)))
-----------------------------------------------------------------------------
(***************************************************************************)
(* What the worker promises to the charts.                                 *)
(***************************************************************************)
Reader == INSTANCE Charts WITH live <- events, table <- buckets

\* Seen through the two tables, all the worker and retention do at their own
\* pace is what Analytics allows: no event goes before its expires_at, a row is
\* published of an hour that is over, and it counts every event stored in time
\* that has not expired, though the events were read before the row is
\* written, and it was perhaps computed before others came, expired or were
\* counted already (aggregation.go:22-88, retention.go).
ImplementsAnalytics == Reader!Spec

\* "Aggregates events for the given hour" (aggregation.go:11): a pass that no
\* fault interrupts leaves for every group a bucket that counts at least the
\* events stored in time whose expires_at has not come, though it read them
\* once, writes group by group, and time goes on and events come and go
\* meanwhile.  (An event sent with the zero time has expired when it comes.)
PassEnds ==
    /\ agg.pc \in {"scan", "write"} /\ agg' # agg /\ agg'.pc # "write"
    /\ faults' = faults
PassCountsAll ==
    [][PassEnds =>
         \A g \in Groups :
            LET wanted == Reader!Wanted(g, agg.hour)
            IN  wanted # {} => \E b \in buckets' :
                                 /\ b.group = g /\ b.hour = agg.hour
                                 /\ b.total >= Cardinality(wanted)]_vars

\* See Charts.
ChartsAgree == Reader!ChartsAgree
LatencyOfTraffic == Reader!LatencyOfTraffic
=============================================================================
