------------------------------- MODULE Ticker -------------------------------
(***************************************************************************)
(* The Go runtime's time.Ticker, as both background workers use it.  Since *)
(* Go 1.23 a ticker nobody is receiving from is not serviced: the receive  *)
(* that finds it due consumes the tick stamped `when', the ticks missed    *)
(* meanwhile are dropped, and the next one stays on the original grid.     *)
(***************************************************************************)
EXTENDS Integers

\* Is a tick that fires at `when' ready to be received at time `now'?
Due(when, now) == when <= now

\* When the ticker fires next, once the tick of `when' is received at `now'.
FollowingTick(when, period, now) ==
    when + period * (1 + ((now - when) \div period))

=============================================================================
