--------------------------- MODULE MetricsQueries ---------------------------
(***************************************************************************)
(* The rest of the metrics page (web/metrics.html) and the handlers it     *)
(* asks (handlers/metrics.go, event_detail.go): the three cards, the top   *)
(* routes, the attribute breakdown and the event overlay.                  *)
(*                                                                         *)
(* A panel is drawn from several statements: the cards from three requests *)
(* made together, the top routes from three statements of one handler, the *)
(* breakdown from a list of keys and the counts of one key.  Between any   *)
(* two of them events arrive, grow old and are deleted, requests overlap,  *)
(* fail and are answered in any order.  A statement's result is kept here  *)
(* as the set of rows it aggregates.                                       *)
(***************************************************************************)
EXTENDS Integers, Sequences, FiniteSets

CONSTANTS
    Shapes,         \* bound: the events that may come, but for their ids; their
                    \* created_at may be before or after the clock's beginning
    Project,        \* the project in the page's URL, or ""
    Limits,         \* routes a page may show, 10 to 100
    Ranges,         \* the ranges that may be selected, up to the retention
    Day,            \* the cards' range, 24 hours
    Batches,        \* bound: the batches of them that may come, by kind of request
    Bounds          \* bounds, by kind of request: the events that come, the times
                    \* the panel asks, the asks after which the selects stay as
                    \* they are, the requests under way when the page asks, the
                    \* requests that fail, the clock's last reading

ASSUME LimitsAssumption == Limits \subseteq Nat \ {0} /\ Limits # {}
ASSUME RangesAssumption ==
    Ranges \subseteq Nat /\ \E longest \in Ranges : \A r \in Ranges : r <= longest
ASSUME DatesAssumption == (\A s \in Shapes : s.created \in Int) /\ Day \in Nat

VARIABLES
    events,         \* the rows of table events
    lastId,         \* the newest event's id
    now,            \* the clock
    panel,          \* the panel this behaviour watches; they are independent
    want,           \* the controls: range, filter, page of routes, key, event
    loads,          \* requests under way
    asked,          \* times the page has asked
    shown,          \* what was drawn last, for each kind of request
    paging,         \* are the buttons Prev and Next of the routes enabled?
    aside,          \* the overlay's subtitle and attributes, as events
    faults,         \* requests that failed
    \* Auxiliary variables: no action of the code depends on them.
    latest,         \* the latest request of each kind
    lapse           \* the list of keys in which the selected key was missing

vars == <<events, lastId, now, panel, want, loads, asked, shown, paging, aside,
          faults, latest, lapse>>
-----------------------------------------------------------------------------
Keys == UNION {s.keys : s \in Shapes}
Statuses == {"", "success", "error"}

\* An event stored with the shape s.
EventOf(id, s) ==
    [id |-> id, created |-> s.created, mine |-> s.mine, project |-> s.project,
     route |-> s.route, status |-> s.status, keys |-> s.keys]
Event == {EventOf(id, s) : id \in 1..lastId, s \in Shapes}

Controls == [range : Ranges, status : Statuses, limit : Limits, offset : Nat,
             key : Keys \cup {""}, id : 0..lastId]

\* Is there room for one more under this bound?
Within(n, bound) == \A kind \in panel : n < Bounds[kind][bound]

Panels == {{"cards"}, {"routes"}, {"keys", "counts"}, {"event"}}

\* The statements behind each kind of request.
Parts == [cards  |-> {"avg", "total", "errors"},
          routes |-> {"count", "page", "split"},
          keys   |-> {"keys"}, counts |-> {"counts"}, event |-> {"row"}]

ASSUME BatchesAssumption == \A kind \in DOMAIN Parts : Batches[kind] \subseteq Seq(Shapes)

Reach(kind, of) == IF kind = "cards" THEN Day ELSE of.range

\* The rows a statement may read: those since its cutoff, or, of one event,
\* any.
InView(rows, kind, since) == {e \in rows : kind = "event" \/ e.created >= since}

\* A request: what it asks for and, per statement done, the result; since is
\* its cutoff, page the page of routes the handler has picked.  n, steady and
\* seen are auxiliary: its number, the rows it may have read all the while,
\* and those it may have read at any time.
Load(kind, of) ==
    LET since == now - Reach(kind, of)
        rows  == InView(events, kind, since)
    IN  [kind |-> kind, of |-> of, n |-> asked + 1, since |-> since,
         got |-> <<>>, page |-> {}, steady |-> rows, seen |-> rows]

Undrawn(kind) == [Load(kind, want) EXCEPT !.n = 0, !.steady = {}, !.seen = {},
                     !.got = [part \in Parts[kind] |-> {}]]

Init ==
    /\ events = {} /\ lastId = 0 /\ now = 0 /\ faults = 0
    /\ panel \in Panels
    /\ want = [range |-> CHOOSE r \in Ranges : \A q \in Ranges : q <= r,
               status |-> "", limit |-> CHOOSE l \in Limits : TRUE,
               offset |-> 0, key |-> "", id |-> 0]
    /\ loads = {} /\ asked = 0
    /\ shown = [kind \in panel |-> Undrawn(kind)]
    /\ paging = [prev |-> FALSE, next |-> TRUE]
    /\ aside = [subtitle |-> {}, attributes |-> {}]
    /\ latest = [kind \in panel |-> 0] /\ lapse = Undrawn("keys")

\* The page asks anew for kinds, the controls being w now.  With no key
\* selected the table of counts is cleared instead; an event's fields and
\* attributes, but not the subtitle, make way for "Loading".
Ask(kinds, w) ==
    LET cleared == IF w.key = "" THEN {"counts"} ELSE {}
        mine    == kinds \cap panel
    IN  /\ mine # {} /\ Within(asked, "asks")
        /\ Within(Cardinality(loads), "underWay")
        /\ asked' = asked + 1 /\ want' = w
        /\ loads' = loads \cup {Load(kind, w) : kind \in mine \ cleared}
        /\ shown' = [kind \in panel |-> IF kind \in mine \cap (cleared \cup {"event"})
                                       THEN Undrawn(kind) ELSE shown[kind]]
        /\ aside' = IF "event" \in mine THEN [aside EXCEPT !.attributes = {}] ELSE aside
        /\ latest' = [kind \in panel |-> IF kind \in mine \ cleared THEN asked'
                                        ELSE IF kind \in mine THEN 0 ELSE latest[kind]]
        /\ UNCHANGED <<events, lastId, now, panel, paging, faults, lapse>>
-----------------------------------------------------------------------------
(***************************************************************************)
(* The statements.                                                         *)
(***************************************************************************)
OfStatus(set, status) ==
    {e \in set : /\ status = "success" => e.status < 400
                 /\ status = "error"   => e.status >= 400}

Own(l) == {e \in InView(events, l.kind, l.since) : e.mine}
Here(l) == {e \in Own(l) : Project # "" => e.project = Project}

RoutesOf(set) == {e.route : e \in set}
Hits(set, route) == Cardinality({e \in set : e.route = route})

\* Mutant: the status selected applies to the cards too.
CardsRowsFiltered(l) ==
    [avg |-> OfStatus(Here(l), l.of.status), total |-> OfStatus(Here(l), l.of.status),
     errors |-> OfStatus(Here(l), "error")]

\* AvgDuration and TrafficSeries, asked without the selected status.
CardsRows(l) ==
    [avg |-> Here(l), total |-> Here(l), errors |-> OfStatus(Here(l), "error")]

\* Mutant: the breakdown by status forgets the status filter.
RoutesRowsUnfiltered(l) ==
    [count |-> OfStatus(Here(l), l.of.status), page |-> OfStatus(Here(l), l.of.status),
     split |-> {e \in Here(l) : e.route \in l.page}]

\* TopRoutes: count the routes, read one page of them, break that down.
RoutesRows(l) ==
    LET set == OfStatus(Here(l), l.of.status)
    IN  [count |-> set, page |-> set, split |-> {e \in set : e.route \in l.page}]

\* ORDER BY count(*) DESC LIMIT limit OFFSET offset: `before' come first and
\* are passed over, routes with equal counts come in any order.
Pages(set, of) ==
    {p \in SUBSET RoutesOf(set) :
       \E before \in SUBSET (RoutesOf(set) \ p) :
          LET after == (RoutesOf(set) \ p) \ before
          IN  /\ \A q \in before, r \in p \cup after : Hits(set, q) >= Hits(set, r)
              /\ \A q \in p, r \in after : Hits(set, q) >= Hits(set, r)
              /\ Cardinality(before) <= of.offset
              /\ Cardinality(p) <= of.limit
              /\ p \cup after # {} => Cardinality(before) = of.offset
              /\ after # {} => Cardinality(p) = of.limit}

\* Mutant: the keys are those of the events of the selected status.
KeysRowsFiltered(l) ==
    [keys |-> {e \in OfStatus(Own(l), l.of.status) : e.keys # {}}]

\* AttributeKeys, of all projects and statuses.
KeysRows(l) == [keys |-> {e \in Own(l) : e.keys # {}}]

\* AttributeValueCounts: of the page's project, but of every status.
CountsRows(l) == [counts |-> {e \in Here(l) : l.of.key \in e.keys}]

\* Mutant: the row is not tested for its user.
EventRowsOfAnyone(l) == [row |-> {e \in events : e.id = l.of.id}]

\* EventDetail: no row is an error, 404 or, if it is another user's, 403.
EventRows(l) == [row |-> {e \in Own(l) : e.id = l.of.id}]

Rows(l) ==
    CASE l.kind = "cards"  -> CardsRows(l)
      [] l.kind = "routes" -> RoutesRows(l)
      [] l.kind = "keys"   -> KeysRows(l)
      [] l.kind = "counts" -> CountsRows(l)
      [] l.kind = "event"  -> EventRows(l)

\* One statement of request l is done; those of one handler in their order.
Read(l, part) ==
    /\ part \in Parts[l.kind] \ DOMAIN l.got
    /\ part = "page"  => "count" \in DOMAIN l.got
    /\ part = "split" => "page" \in DOMAIN l.got
    /\ \E page \in IF part = "page" THEN Pages(Rows(l).page, l.of) ELSE {l.page} :
          loads' = (loads \ {l}) \cup
             {[l EXCEPT !.page = page,
                  !.got = [p \in DOMAIN @ \cup {part} |->
                              IF p = part THEN Rows(l)[p] ELSE @[p]]]}
    /\ UNCHANGED <<events, lastId, now, panel, want, asked, shown, paging, aside,
                   faults, latest, lapse>>
-----------------------------------------------------------------------------
(***************************************************************************)
(* The page.                                                               *)
(***************************************************************************)
\* Mutant: a page that ends with the last route has one after it.
HasMoreInclusive(l) == l.of.offset + l.of.limit <= Cardinality(RoutesOf(l.got.count))

HasMore(l) == l.of.offset + l.of.limit < Cardinality(RoutesOf(l.got.count))

KeysOffered(l) == UNION {e.keys : e \in l.got.keys}

\* Mutant: the event's attributes are left as they were.
DrawFieldsOnly(l) ==
    /\ DOMAIN l.got = Parts[l.kind]
    /\ shown' = [shown EXCEPT ![l.kind] = l]
    /\ aside' = IF l.kind = "event" /\ l.got.row # {}
                THEN [aside EXCEPT !.subtitle = l.got.row] ELSE aside
    /\ loads' = loads \ {l}
    /\ UNCHANGED <<events, lastId, now, panel, want, asked, paging, faults,
                   latest, lapse>>

\* The answer is complete and is drawn.  Prev goes by the page selected now,
\* Next by the answer.  A selected key that is no longer offered is
\* deselected.  An event that was not found leaves a failure among its fields
\* and nothing else; one that was found has its subtitle and attributes too.
Draw(l) ==
    /\ DOMAIN l.got = Parts[l.kind]
    /\ shown' = [shown EXCEPT ![l.kind] = l]
    /\ paging' = IF l.kind = "routes"
                 THEN [prev |-> want.offset # 0, next |-> HasMore(l)] ELSE paging
    /\ want' = IF l.kind = "keys" /\ want.key \notin KeysOffered(l)
               THEN [want EXCEPT !.key = ""] ELSE want
    /\ lapse' = IF l.kind = "keys" /\ want.key \notin KeysOffered(l) \cup {""}
                THEN l ELSE lapse
    /\ aside' = IF l.kind = "event" /\ l.got.row # {}
                THEN [subtitle |-> l.got.row, attributes |-> l.got.row] ELSE aside
    /\ loads' = loads \ {l}
    /\ UNCHANGED <<events, lastId, now, panel, asked, faults, latest>>

\* A request fails: the breakdown's table and the event's fields show it, all
\* else stays as it was.
Fail(l) ==
    /\ Within(faults, "faults") /\ faults' = faults + 1
    /\ loads' = loads \ {l}
    /\ shown' = IF l.kind \in {"counts", "event"}
                THEN [shown EXCEPT ![l.kind] =
                         [l EXCEPT !.got = [p \in Parts[l.kind] |-> {}]]]
                ELSE shown
    /\ UNCHANGED <<events, lastId, now, panel, want, asked, paging, aside, latest,
                   lapse>>

\* loadMetricsCards, fetchTopRoutes, fetchAttributeKeys when the page loads.
Open == asked = 0 /\ Ask({"cards", "routes", "keys"}, want)

\* reloadAll.
ChangeStatus(status) ==
    Ask({"cards", "routes", "keys", "counts"}, [want EXCEPT !.status = status])

\* Mutant: the counts are left of the range they were of.
ChangeRangeOfKeys(range) == Ask({"routes", "keys"}, [want EXCEPT !.range = range])

ChangeRange(range) ==
    Ask({"routes", "keys", "counts"}, [want EXCEPT !.range = range])

ChangeLimit(limit) ==
    Ask({"routes"}, [want EXCEPT !.limit = limit, !.offset = 0])

NextPage ==
    /\ paging.next
    /\ Ask({"routes"}, [want EXCEPT !.offset = @ + want.limit])

\* Mutant: a second click goes before the first page.
PrevPageUnbounded ==
    /\ paging.prev
    /\ Ask({"routes"}, [want EXCEPT !.offset = @ - want.limit])

PrevPage ==
    /\ paging.prev
    /\ Ask({"routes"}, [want EXCEPT !.offset =
                           IF @ > want.limit THEN @ - want.limit ELSE 0])

SelectKey(key) == Ask({"counts"}, [want EXCEPT !.key = key])

OpenEvent(id) == Ask({"event"}, [want EXCEPT !.id = id])

User ==
    \/ Open \/ NextPage \/ PrevPage
    \/ /\ Within(asked, "selects")
       /\ \/ \E status \in Statuses \ {want.status} : ChangeStatus(status)
          \/ \E range \in Ranges \ {want.range} : ChangeRange(range)
          \/ \E limit \in Limits \ {want.limit} : ChangeLimit(limit)
    \/ /\ "keys" \in panel
       /\ \E key \in (KeysOffered(shown["keys"]) \cup {""}) \ {want.key} : SelectKey(key)
    \/ \E id \in 1..lastId : OpenEvent(id)

\* What the requests may read from now on.  A handler computes its cutoff when
\* it begins; the cards ask three, of one statement each.
Follow ==
    loads' = {LET begun == l.kind # "cards" /\ DOMAIN l.got # {}
                  since == IF begun THEN l.since ELSE now' - Reach(l.kind, l.of)
                  rows  == InView(events', l.kind, since)
              IN  [l EXCEPT !.since = since, !.steady = @ \cap rows,
                            !.seen = @ \cup rows] : l \in loads}

\* A batch of events is stored by one INSERT, an event is deleted, or time
\* passes and events leave the ranges.
Arrive(batch) ==
    /\ Within(lastId, "events")
    /\ lastId' = lastId + Len(batch)
    /\ events' = events \cup {EventOf(lastId + i, batch[i]) : i \in 1..Len(batch)}
    /\ UNCHANGED <<now, panel, want, asked, shown, paging, aside, faults, latest, lapse>>
    /\ Follow

Leave(e) ==
    /\ events' = events \ {e}
    /\ UNCHANGED <<lastId, now, panel, want, asked, shown, paging, aside, faults,
                   latest, lapse>>
    /\ Follow

Tick ==
    /\ Within(now, "clock") /\ now' = now + 1
    /\ UNCHANGED <<events, lastId, panel, want, asked, shown, paging, aside, faults,
                   latest, lapse>>
    /\ Follow

Next ==
    \/ User
    \/ \E l \in loads : (\E part \in Parts[l.kind] : Read(l, part)) \/ Draw(l) \/ Fail(l)
    \/ \E kind \in panel : \E batch \in Batches[kind] : Arrive(batch)
    \/ \E e \in events : Leave(e)
    \/ Tick

Spec == Init /\ [][Next]_vars
-----------------------------------------------------------------------------
(***************************************************************************)
(* Properties.                                                             *)
(***************************************************************************)
\* The shape of a request and of its results.
LoadOK(l) ==
    /\ DOMAIN l = {"kind", "of", "n", "since", "got", "page", "steady", "seen"}
    /\ l.kind \in DOMAIN Parts /\ l.of \in Controls /\ l.n \in 0..asked
    /\ l.since \in Int /\ DOMAIN l.got \subseteq Parts[l.kind]
    /\ \A part \in DOMAIN l.got : l.got[part] \subseteq l.seen
    /\ l.page \subseteq RoutesOf(Shapes)
    /\ l.steady \subseteq l.seen /\ l.seen \subseteq Event

\* The shape of the state: a page of routes never begins before the first,
\* whichever clicks on Prev come before the buttons are drawn again
\* (metrics.html:980), and what is drawn is the whole of an answer.
TypeOK ==
    /\ events \subseteq Event /\ lastId \in Nat /\ now \in Nat
    /\ panel \in Panels /\ want \in Controls
    /\ asked \in Nat /\ faults \in Nat
    /\ \A l \in loads : LoadOK(l) /\ l.kind \in panel
    /\ DOMAIN shown = panel
    /\ \A kind \in panel : /\ LoadOK(shown[kind]) /\ shown[kind].kind = kind
                           /\ DOMAIN shown[kind].got = Parts[kind]
    /\ paging \in [prev : BOOLEAN, next : BOOLEAN]
    /\ aside \in [subtitle : SUBSET Event, attributes : SUBSET Event]
    /\ latest \in [panel -> 0..asked]
    /\ LoadOK(lapse) /\ lapse.kind = "keys" /\ DOMAIN lapse.got = {"keys"}

\* The events that came or went while a request was under way.
Moving(l) == l.seen \ l.steady

\* The cards never show more errors than requests, whichever status is
\* selected, but for errors that came or went between the requests for the
\* two numbers (metrics.html:598-625, metrics.go:113-117).
CardsAddUp ==
    "cards" \in panel =>
       LET l == shown["cards"]
       IN  Cardinality(l.got.errors) <= Cardinality(l.got.total)
              + Cardinality(OfStatus(Moving(l), "error"))

\* The statuses listed for a route add up to its count, but for events of the
\* route that came or went between the statements (metrics.go:182, 217).
RoutesAddUp ==
    "routes" \in panel =>
       LET l == shown["routes"]
       IN  \A r \in l.page :
              /\ Hits(l.got.split, r) <= Hits(l.got.page, r) + Hits(Moving(l), r)
              /\ Hits(l.got.page, r) <= Hits(l.got.split, r) + Hits(Moving(l), r)

\* Once the latest page of routes asked for is drawn, in whatever order the
\* answers came, it is the page the controls select, and the buttons lead from
\* it: Prev unless it is the first page, Next exactly if the page after it has
\* a route on it, of those the handler counted (metrics.go:233,
\* metrics.html:951-989).
PagingFollowsControls ==
    "routes" \in panel =>
       LET l    == shown["routes"]
           next == [want EXCEPT !.offset = @ + want.limit]
       IN  l.n # 0 /\ l.n = latest["routes"] =>
              /\ <<l.of.range, l.of.status, l.of.limit, l.of.offset>> =
                    <<want.range, want.status, want.limit, want.offset>>
              /\ paging.prev <=> want.offset # 0
              /\ paging.next <=> {} \notin Pages(l.got.count, next)

\* Once the latest counts are drawn they are of the selected attribute and
\* range.  A selection that has lapsed, because a list of keys did not offer
\* the key any more, leaves no counts behind, but of events that came or went
\* while that list or the counts were under way, although the two requests
\* filter differently; unless the list is a late one of a shorter range than
\* the counts (metrics.html:714-724, 1047-1090, metrics.go:437, 533).
BreakdownOfSelection ==
    "counts" \in panel /\ shown["counts"].n = latest["counts"] =>
       LET l == shown["counts"]
       IN  /\ want.key # "" => l.of.key = want.key /\ l.of.range = want.range
           /\ want.key = "" /\ l.of.range <= lapse.of.range =>
                 l.got.counts \subseteq Moving(l) \cup Moving(lapse)

\* The overlay never mixes two events: while an event's fields are shown, the
\* subtitle and the attributes are of the same one.  Once the latest answer is
\* drawn it is the event that was opened, the user's own, or a failure is
\* reported; and for an event that was there all the while one is reported
\* only if the request failed (metrics.html:1267-1354, event_detail.go:41-57).
EventIsTheOneOpened ==
    "event" \in panel =>
       LET l == shown["event"]
       IN  /\ l.got.row # {} => /\ aside.subtitle = l.got.row
                                /\ aside.attributes = l.got.row
           /\ l.n = latest["event"] =>
                 /\ \A e \in l.got.row : e.mine /\ e.id = want.id
                 /\ l.got.row = {} /\ faults = 0 =>
                       \A e \in l.steady : e.mine => e.id # want.id
=============================================================================
