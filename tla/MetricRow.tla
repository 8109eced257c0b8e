----------------------------- MODULE MetricRow -----------------------------
(***************************************************************************)
(* What runAggregationOnce computes from the events of one hour and one    *)
(* (user, project) group: a row of metric_buckets.  An event here is a     *)
(* record with at least the fields id, status and dur; ids keep events     *)
(* with equal columns apart, as rows of a table are.                       *)
(***************************************************************************)
EXTENDS Integers, FiniteSets

Errors(list) == {e \in list : e.status >= 400}

\* sort.Slice and durations[(n*q)/100]: the element with exactly that many
\* elements before it in the sorted list.
Percentile(list, q) ==
    LET rank == (Cardinality(list) * q) \div 100
    IN  CHOOSE d \in {e.dur : e \in list} :
           /\ Cardinality({e \in list : e.dur < d}) <= rank
           /\ rank < Cardinality({e \in list : e.dur <= d})

\* Mutant: errors and total exchanged.
BucketRowSwapped(group, hour, list) ==
    [group |-> group, hour |-> hour,
     total |-> Cardinality(Errors(list)), errors |-> Cardinality(list),
     p50 |-> Percentile(list, 50), p95 |-> Percentile(list, 95),
     p99 |-> Percentile(list, 99)]

BucketRow(group, hour, list) ==
    [group |-> group, hour |-> hour,
     total |-> Cardinality(list), errors |-> Cardinality(Errors(list)),
     p50 |-> Percentile(list, 50), p95 |-> Percentile(list, 95),
     p99 |-> Percentile(list, 99)]
=============================================================================
