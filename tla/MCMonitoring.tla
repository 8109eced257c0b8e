---------------------------- MODULE MCMonitoring ----------------------------
(***************************************************************************)
(* Small instances of Monitoring.                                          *)
(***************************************************************************)
EXTENDS Monitoring, TLC

CONSTANTS k1, internal      \* a key people create, and the internal one

\* The reports that may be made before the clock stops, with and without the
\* path they need.
ReportBodies == {{[n |-> 1, path |-> p, stamp |-> t]} :
                    p \in BOOLEAN, t \in (0 - 1)..MaxClock}

\* What clients send, under either key: an event dated before the clock starts,
\* with and without its path.
PastEvents ==
    [key  : {k1, internal},
     body : {{[n |-> 1, path |-> p, stamp |-> 0 - 1]} : p \in BOOLEAN}]

BeforeTheClock == 0 - 100
=============================================================================
