--------------------------- MODULE MCAggregation ---------------------------
(***************************************************************************)
(* Small instances of Aggregation.                                         *)
(***************************************************************************)
EXTENDS Aggregation, TLC

GroupSymmetry == Permutations(Groups)

\* Requests that succeeded and failed, quick and slow.
TwoSamples == {[status |-> 200, dur |-> 1], [status |-> 500, dur |-> 9]}
OneSample == {[status |-> 200, dur |-> 1]}

\* Events dated on arrival, before, after, and with the zero time.
AllLags == {0, 3, 0 - 1, ZeroTime}

LongAgo == 0 - 100
=============================================================================
