-------------------------- MODULE MCMetricsQueries --------------------------
(***************************************************************************)
(* A small instance of MetricsQueries.                                     *)
(***************************************************************************)
EXTENDS MetricsQueries

Shape(created, mine, project, route, status, keys) ==
    [created |-> created, mine |-> mine, project |-> project, route |-> route,
     status |-> status, keys |-> keys]

\* Two routes, one with an error and a success, an attribute; events of another
\* project and of another user.  The short range of two never holds the error
\* and loses what is dated before the clock began when that moves on.
Failed  == Shape(-2, TRUE, "pay", "/a", 500, {"env"})
Served  == Shape(-1, TRUE, "pay", "/a", 200, {})
Other   == Shape(0, TRUE, "pay", "/b", 200, {})
Web     == Shape(-1, TRUE, "web", "/a", 200, {"env"})
Foreign == Shape(0, FALSE, "pay", "/b", 500, {"env"})

FiveShapes == {Failed, Served, Other, Web, Foreign}

\* Of the routes, pairs of one key.
Different ==
    LET any == {<<s>> : s \in FiveShapes}
    IN  [cards  |-> any,
         routes |-> {<<Failed, Served>>, <<Failed, Other>>, <<Web>>},
         keys   |-> any, counts |-> {}, event |-> any]

\* Requests overlap.  Routes are asked for by the page, one select and two
\* clicks, or three clicks: on Next and, before the buttons change, twice on
\* Prev.  Keys are asked for by the page and a select, with an attribute chosen
\* before or after, so that a late answer can deselect it.
Upto(came, asks, selects, underWay, failed, clock) ==
    [events |-> came, asks |-> asks, selects |-> selects,
     underWay |-> underWay, faults |-> failed, clock |-> clock]

Few == [cards  |-> Upto(1, 2, 2, 2, 1, 1), routes |-> Upto(1, 4, 2, 2, 0, 0),
        keys   |-> Upto(1, 3, 3, 3, 1, 1), counts |-> Upto(1, 3, 3, 3, 1, 1),
        event  |-> Upto(2, 2, 0, 2, 1, 0)]
=============================================================================
