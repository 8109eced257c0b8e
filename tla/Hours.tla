------------------------------- MODULE Hours -------------------------------
(***************************************************************************)
(* Hours as the analytics cut them, and the events they are cut from.      *)
(***************************************************************************)
EXTENDS Integers, FiniteSets

CONSTANTS
    Groups,         \* (user, project) pairs
    HourLen         \* clock units in an hour

ASSUME HourAssumption == HourLen \in Nat \ {0} /\ HourLen % 2 = 0

\* time.Truncate(time.Hour) and date_trunc('hour', t).
HourOf(t) == t - (t % HourLen)

OfGroup(set, g) == {e \in set : e.group = g}

\* Did the event reach its table before its hour was over?
OnTime(e) == e.arrived < HourOf(e.created) + HourLen

\* Has its expires_at come?  It may lie before created_at.
Expired(e, now) == e.expires <= now
=============================================================================
