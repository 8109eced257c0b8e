------------------------------- MODULE Charts -------------------------------
(***************************************************************************)
(* The charts of the metrics page (handlers/metrics.go).  The traffic      *)
(* chart counts the raw events of the window, by hour or, for a range of   *)
(* two hours and less, by half hour; the error rate and the latency chart  *)
(* read the hourly rows.  g is the project asked for, w the length of the  *)
(* range.  A point is labelled with a time of day and a Z: the database    *)
(* writes the label of the traffic chart in the time zone of its session,  *)
(* Go those of the other two in the time zone of the process.              *)
(***************************************************************************)
EXTENDS Analytics

CONSTANTS
    Ranges,         \* lengths of the ranges that may be asked for
    SessionZone,    \* of the database session: clock units ahead of UTC
    ProcessZone     \* of the process, as the driver reads a time

HalfHour == HourLen \div 2

\* parseRange: when the range begins, and whether it is cut by half hours.
Cutoff(w) == clock - w
Bucket30Min(w) == w <= 2 * HourLen

\* applyMetricsFilters, for the status.
Matching(set, status) ==
    {e \in set : /\ status = "success" => e.status < 400
                 /\ status = "error"   => e.status >= 400}

\* The label of an event's point: to_char of its half hour, or date_trunc,
\* which cuts the hours of the session's zone.
SlotOf(t, w) ==
    IF Bucket30Min(w) THEN t - (t % HalfHour) + SessionZone
                      ELSE HourOf(t + SessionZone)

InRange(g, w, status) ==
    {e \in Matching(OfGroup(live, g), status) : e.created >= Cutoff(w)}

TrafficSeries(g, w, status) ==
    LET set == InRange(g, w, status)
    IN  [slot \in {SlotOf(e.created, w) : e \in set} |->
            Cardinality({e \in set : SlotOf(e.created, w) = slot})]

\* Mutant: the range of the hourly charts is extended to a whole hour.
BucketsFromTheHour(g, w) ==
    {b \in OfGroup(table, g) : b.hour >= HourOf(Cutoff(w))}

\* bucket_start >= cutoff.
BucketsInRange(g, w) == {b \in OfGroup(table, g) : b.hour >= Cutoff(w)}

\* The label of a row: the hour on the process's clock.
RowLabel(b) == b.hour + ProcessZone

ErrorRateSeries(g, w) ==
    {[bucket |-> RowLabel(b), total |-> b.total, errors |-> b.errors] :
        b \in BucketsInRange(g, w)}

LatencyPercentilesSeries(g, w) ==
    {[bucket |-> RowLabel(b), p50 |-> b.p50, p95 |-> b.p95, p99 |-> b.p99] :
        b \in BucketsInRange(g, w)}
-----------------------------------------------------------------------------
Point(series, slot) == IF slot \in DOMAIN series THEN series[slot] ELSE 0

\* What the traffic chart shows of an hour under its label, in one point or
\* in two, and the events behind it.
HourShown(g, w, status, label) ==
    LET series == TrafficSeries(g, w, status)
    IN  Point(series, label) + Point(series, label + HalfHour)
ShownAs(g, w, label) ==
    {e \in InRange(g, w, "") : SlotOf(e.created, w) \in {label, label + HalfHour}}

\* The events of an hour that came late or have expired, those sent with the
\* zero time among them.
Doubtful(g, h, status) == Matching(Mine(g, h) \ Wanted(g, h), status)

Close(m, n, slack) == m <= n + slack /\ n <= m + slack

\* Wherever the charts show a point of a project under the same label,
\* whatever the range selected, they differ by no more than the late and
\* expired events of its hour: the error rate is that of the requests the
\* traffic chart counts, although one reads rows written hours ago and the
\* other raw events, a range begins in the middle of an hour, and the labels
\* are made by different clocks (metrics.go:28, 106-110, 327, 345).
ChartsAgree ==
    \A g \in Groups, w \in Ranges :
       \A p \in ErrorRateSeries(g, w) :
          LET h == p.bucket - ProcessZone
          IN  /\ Close(p.total, HourShown(g, w, "", p.bucket),
                       Cardinality(Doubtful(g, h, "")))
              /\ Close(p.errors, HourShown(g, w, "error", p.bucket),
                       Cardinality(Doubtful(g, h, "error")))

\* The latency chart shows the percentiles of the requests the traffic chart
\* counts under the same label, if none of the hour came late or has expired
\* (metrics.go:369, 382).
LatencyOfTraffic ==
    \A g \in Groups, w \in Ranges :
       \A p \in LatencyPercentilesSeries(g, w) :
          Doubtful(g, p.bucket - ProcessZone, "") = {} =>
             LET set == ShownAs(g, w, p.bucket)
             IN  /\ p.p50 = Percentile(set, 50) /\ p.p95 = Percentile(set, 95)
                 /\ p.p99 = Percentile(set, 99)
=============================================================================
