----------------------------- MODULE Analytics -----------------------------
(***************************************************************************)
(* What the tables events and metric_buckets promise to those who read     *)
(* them, whatever the pace, the failures and the restarts of the workers   *)
(* behind them.                                                            *)
(*                                                                         *)
(* An event that was accepted stays until its own expires_at, which for an *)
(* event sent with Go's zero time has come before the event itself.  A row *)
(* of metric_buckets is of an hour that is over; it counts every event of  *)
(* its group and hour that was stored in time and has not expired, and     *)
(* nothing that is not of that group and hour.  It may or may not count    *)
(* events that came late or have expired.  A row may be missing, or be     *)
(* replaced by a newer one.                                                *)
(***************************************************************************)
EXTENDS Hours, MetricRow

VARIABLES
    clock,          \* wall clock
    accepted,       \* every event ever stored
    live,           \* those in table events
    table           \* table metric_buckets

vars == <<clock, accepted, live, table>>

Event == [id : Nat, group : Groups, status : Nat, dur : Nat,
          created : Int, expires : Int, arrived : Int]

\* The events a row of group g and hour h may count, and those it must.
Mine(g, h) == {e \in OfGroup(accepted, g) : HourOf(e.created) = h}
Wanted(g, h) == {e \in Mine(g, h) : OnTime(e) /\ ~Expired(e, clock)}
-----------------------------------------------------------------------------
Init == clock = 0 /\ accepted = {} /\ live = {} /\ table = {}

Tick == clock' = clock + 1 /\ UNCHANGED <<accepted, live, table>>

Accept ==
    /\ \E e \in accepted' :
          /\ e \in Event /\ e.arrived = clock
          /\ accepted' = accepted \cup {e} /\ live' = live \cup {e}
    /\ UNCHANGED <<clock, table>>

Forget ==
    /\ live' \subseteq live
    /\ \A e \in live \ live' : Expired(e, clock)
    /\ UNCHANGED <<clock, accepted, table>>

Publish(g, h) ==
    /\ h + HourLen <= clock
    /\ \E set \in SUBSET Mine(g, h) :
          /\ set # {} /\ Wanted(g, h) \subseteq set
          /\ table' = {b \in table : b.group # g \/ b.hour # h}
                         \cup {BucketRow(g, h, set)}
    /\ UNCHANGED <<clock, accepted, live>>

Next ==
    \/ Tick \/ Accept \/ Forget
    \/ \E g \in Groups, h \in {HourOf(e.created) : e \in accepted} : Publish(g, h)

Spec == Init /\ [][Next]_vars
=============================================================================
