------------------------ MODULE MetricsQueriesProofs ------------------------
(***************************************************************************)
(* Proofs about MetricsQueries, for any events, controls, requests under   *)
(* way and faults: the types; that the numbers of a panel agree but for    *)
(* what came and went while it was read; and that the page of routes with  *)
(* its buttons, the breakdown and the overlay are of what was chosen.      *)
(***************************************************************************)
EXTENDS MetricsQueries, FiniteSetTheorems, TLAPS

LEMMA PartsFacts ==
    /\ DOMAIN Parts = {"cards", "routes", "keys", "counts", "event"}
    /\ Parts["cards"] = {"avg", "total", "errors"}
    /\ Parts["routes"] = {"count", "page", "split"}
    /\ Parts["keys"] = {"keys"} /\ Parts["counts"] = {"counts"}
    /\ Parts["event"] = {"row"}
    /\ \A kind \in DOMAIN Parts : Parts[kind] # {}
  BY DEF Parts

LEMMA PanelFacts == ASSUME panel \in Panels PROVE panel \subseteq DOMAIN Parts
  BY PartsFacts DEF Panels

LEMMA BatchesFacts ==
    ASSUME panel \in Panels, NEW kind \in panel
    PROVE  Batches[kind] \subseteq Seq(Shapes)
  BY BatchesAssumption, PanelFacts

LEMMA NothingGot == DOMAIN <<>> = {}
  OBVIOUS

\* What was an event, a choice or a request's number remains one.
LEMMA Grow ==
    ASSUME lastId \in Nat, lastId' \in Nat, lastId <= lastId',
           asked \in Nat, asked' \in Nat, asked <= asked'
    PROVE  /\ Event \subseteq Event' /\ Controls \subseteq Controls'
           /\ 0..asked \subseteq 0..asked'
<1>1. 1..lastId \subseteq 1..lastId' /\ 0..lastId \subseteq 0..lastId'
      /\ 0..asked \subseteq 0..asked'
  OBVIOUS
<1>2. Event \subseteq Event'
  BY <1>1 DEF Event
<1>3. Controls \subseteq Controls'
  BY <1>1 DEF Controls
<1> QED
  BY <1>1, <1>2, <1>3

LEMMA SameTypes ==
    ASSUME lastId' = lastId PROVE Event' = Event /\ Controls' = Controls
  BY DEF Event, Controls

LEMMA LoadFields ==
    ASSUME NEW kind, NEW of
    PROVE  /\ DOMAIN Load(kind, of) =
                {"kind", "of", "n", "since", "got", "page", "steady", "seen"}
           /\ Load(kind, of).kind = kind /\ Load(kind, of).of = of
           /\ Load(kind, of).n = asked + 1 /\ Load(kind, of).got = <<>>
           /\ Load(kind, of).since = now - Reach(kind, of)
           /\ Load(kind, of).page = {}
           /\ Load(kind, of).steady = InView(events, kind, now - Reach(kind, of))
           /\ Load(kind, of).seen = InView(events, kind, now - Reach(kind, of))
  BY DEF Load

LEMMA UndrawnFields ==
    ASSUME NEW kind
    PROVE  /\ DOMAIN Undrawn(kind) =
                {"kind", "of", "n", "since", "got", "page", "steady", "seen"}
           /\ Undrawn(kind).kind = kind /\ Undrawn(kind).of = want
           /\ Undrawn(kind).n = 0
           /\ Undrawn(kind).since = now - Reach(kind, want)
           /\ Undrawn(kind).got = [part \in Parts[kind] |-> {}]
           /\ Undrawn(kind).page = {} /\ Undrawn(kind).steady = {}
           /\ Undrawn(kind).seen = {}
  BY LoadFields DEF Undrawn

LEMMA ReachType ==
    ASSUME NEW kind, NEW of \in Controls
    PROVE  Reach(kind, of) \in Nat
<1>1. of.range \in Ranges
  BY DEF Controls
<1> QED
  BY <1>1, RangesAssumption, DatesAssumption DEF Reach

LEMMA UndrawnOK ==
    ASSUME NEW kind \in DOMAIN Parts, want \in Controls, asked \in Nat,
           now \in Nat
    PROVE  LoadOK(Undrawn(kind)) /\ DOMAIN Undrawn(kind).got = Parts[kind]
<1> DEFINE u == Undrawn(kind)
<1>1. /\ DOMAIN u = {"kind", "of", "n", "since", "got", "page", "steady", "seen"}
      /\ u.kind = kind /\ u.of = want /\ u.n = 0
      /\ u.since = now - Reach(kind, want)
      /\ u.got = [part \in Parts[kind] |-> {}]
      /\ u.page = {} /\ u.steady = {} /\ u.seen = {}
  BY UndrawnFields
<1>2. Reach(kind, want) \in Nat
  BY ReachType
<1> HIDE DEF u
<1>3. LoadOK(u) /\ DOMAIN u.got = Parts[kind]
  BY <1>1, <1>2 DEF LoadOK
<1> QED
  BY <1>3 DEF u
-----------------------------------------------------------------------------
(***************************************************************************)
(* Types.                                                                  *)
(***************************************************************************)
\* The table of counts is cleared when no key is selected, and not asked for.
Cleared(kind, w) == kind = "counts" /\ w.key = ""

\* What the page does to a kind it asks for, and to one it does not.
LEMMA AskFacts ==
    ASSUME NEW kinds, NEW w, Ask(kinds, w)
    PROVE  /\ asked' = asked + 1 /\ want' = w
           /\ panel \cap kinds # {}
           /\ UNCHANGED <<events, lastId, now, panel, paging, faults, lapse>>
           /\ \A l \in loads' :
                 \/ l \in loads
                 \/ \E kind \in panel \cap kinds :
                      ~Cleared(kind, w) /\ l = Load(kind, w)
           /\ DOMAIN shown' = panel
           /\ latest' = [kind \in panel |-> latest'[kind]]
           /\ aside' = IF "event" \in panel \cap kinds
                       THEN [aside EXCEPT !.attributes = {}] ELSE aside
           /\ \A kind \in panel \ kinds :
                 shown'[kind] = shown[kind] /\ latest'[kind] = latest[kind]
           /\ \A kind \in panel \cap kinds :
                 \/ /\ ~Cleared(kind, w) /\ latest'[kind] = asked'
                    /\ shown'[kind] = IF kind = "event" THEN Undrawn(kind)
                                                        ELSE shown[kind]
                 \/ /\ Cleared(kind, w) /\ latest'[kind] = 0
                    /\ shown'[kind] = Undrawn(kind)
  BY DEF Ask, Cleared

LEMMA AskType ==
    ASSUME TypeOK, NEW kinds, NEW w \in Controls, Ask(kinds, w)
    PROVE  TypeOK'
<1>1. /\ asked \in Nat /\ lastId \in Nat /\ now \in Nat /\ panel \in Panels
      /\ want \in Controls /\ events \subseteq Event
  BY DEF TypeOK
<1>2. /\ asked' = asked + 1 /\ want' = w
      /\ UNCHANGED <<events, lastId, now, panel, paging, faults, lapse>>
  BY AskFacts
<1>3. Event' = Event /\ Controls' = Controls /\ 0..asked \subseteq 0..asked'
  BY <1>1, <1>2, SameTypes, Grow
<1>4. ASSUME NEW l, LoadOK(l) PROVE LoadOK(l)'
  BY <1>3, <1>4 DEF LoadOK
<1>5. ASSUME NEW l \in loads' PROVE LoadOK(l)' /\ l.kind \in panel'
  <2>1. CASE l \in loads
    BY <1>2, <1>4, <2>1 DEF TypeOK
  <2>2. ASSUME NEW kind \in panel, l = Load(kind, w)
        PROVE  LoadOK(l)' /\ l.kind \in panel'
    <3> DEFINE since == now - Reach(kind, w)
    <3>1. /\ DOMAIN l =
                {"kind", "of", "n", "since", "got", "page", "steady", "seen"}
          /\ l.kind = kind /\ l.of = w /\ l.n = asked + 1 /\ l.got = <<>>
          /\ l.since = since /\ l.page = {}
          /\ l.steady = InView(events, kind, since)
          /\ l.seen = InView(events, kind, since)
      BY <2>2, LoadFields
    <3>2. kind \in DOMAIN Parts /\ l.n \in 0..asked' /\ w \in Controls'
      BY <1>1, <1>2, <1>3, <2>2, <3>1, PanelFacts
    <3>3. since \in Int
      BY <1>1, ReachType
    <3>4. InView(events, kind, since) \subseteq Event'
      BY <1>1, <1>3 DEF InView
    <3> HIDE DEF since
    <3> QED
      BY <1>2, <3>1, <3>2, <3>3, <3>4, <2>2, NothingGot DEF LoadOK
  <2> QED
    BY <1>5, <2>1, <2>2, AskFacts
<1>6. ASSUME NEW kind \in panel'
      PROVE  /\ LoadOK(shown[kind])' /\ shown'[kind].kind = kind
             /\ DOMAIN shown'[kind].got = Parts[kind]
  <2>1. CASE shown'[kind] = shown[kind]
    BY <1>2, <1>3, <1>6, <2>1 DEF TypeOK, LoadOK
  <2>2. CASE shown'[kind] = Undrawn(kind)
    <3>1. LoadOK(Undrawn(kind)) /\ DOMAIN Undrawn(kind).got = Parts[kind]
      BY <1>1, <1>2, <1>6, PanelFacts, UndrawnOK
    <3>2. Undrawn(kind).kind = kind
      BY UndrawnFields
    <3>3. PICK u : u = Undrawn(kind)
      OBVIOUS
    <3>4. LoadOK(u)'
      BY <1>4, <3>1, <3>3
    <3> QED
      BY <2>2, <3>1, <3>2, <3>3, <3>4 DEF LoadOK
  <2> QED
    BY <1>2, <1>6, <2>1, <2>2, AskFacts
<1>7. DOMAIN shown' = panel'
  BY <1>2, AskFacts
<1>8. latest' \in [panel' -> 0..asked']
  <2>1. 0 \in 0..asked' /\ asked' \in 0..asked'
    BY <1>1, <1>2
  <2>2. \A kind \in panel : latest'[kind] \in 0..asked'
    BY <1>3, <2>1, AskFacts DEF TypeOK
  <2>3. latest' = [kind \in panel |-> latest'[kind]]
    BY AskFacts
  <2> QED
    BY <1>2, <2>2, <2>3
<1>9. LoadOK(lapse)' /\ lapse'.kind = "keys" /\ DOMAIN lapse'.got = {"keys"}
  BY <1>2, <1>3 DEF TypeOK, LoadOK
<1>10. aside' \in [subtitle : SUBSET Event', attributes : SUBSET Event']
  <2>1. aside' = aside \/ aside' = [aside EXCEPT !.attributes = {}]
    BY AskFacts
  <2> QED
    BY <1>3, <2>1 DEF TypeOK
<1>11. asked' \in Nat /\ w \in Controls'
  BY <1>1, <1>2, <1>3
<1> QED
  BY <1>1, <1>2, <1>3, <1>5, <1>6, <1>7, <1>8, <1>9, <1>10, <1>11 DEF TypeOK

LEMMA ControlsFacts ==
    ASSUME NEW w \in Controls
    PROVE  /\ w.limit \in Limits /\ w.limit \in Nat /\ w.limit # 0
           /\ w.offset \in Nat
<1>1. w.limit \in Limits /\ w.offset \in Nat
  BY DEF Controls
<1>2. \A n \in Limits : n \in Nat /\ n # 0
  BY LimitsAssumption
<1> QED
  BY <1>1, <1>2

LEMMA KeysOfferedType ==
    ASSUME NEW l, LoadOK(l), DOMAIN l.got = {"keys"}
    PROVE  KeysOffered(l) \subseteq Keys
<1>1. l.got["keys"] \subseteq Event
  BY DEF LoadOK
<1>2. \A e \in Event : e.keys \subseteq Keys
  BY DEF Event, EventOf, Keys
<1> QED
  BY <1>1, <1>2 DEF KeysOffered

LEMMA UserType ==
    ASSUME TypeOK, User
    PROVE  TypeOK'
<1>1. /\ want \in Controls /\ lastId \in Nat
      /\ want.limit \in Nat /\ want.offset \in Nat
  BY ControlsFacts DEF TypeOK
<1>2. CASE Open
  BY <1>1, <1>2, AskType DEF Open
<1>3. CASE NextPage
  <2>1. want.offset + want.limit \in Nat
    BY <1>1
  <2>2. [want EXCEPT !.offset = @ + want.limit] \in Controls
    BY <1>1, <2>1 DEF Controls
  <2> QED
    BY <1>3, <2>2, AskType DEF NextPage
<1>4. CASE PrevPage
  <2> DEFINE o == IF want.offset > want.limit THEN want.offset - want.limit ELSE 0
  <2>1. o \in Nat
    BY <1>1
  <2>2. [want EXCEPT !.offset = o] \in Controls
    BY <1>1, <2>1 DEF Controls
  <2> QED
    BY <1>4, <2>2, AskType DEF PrevPage
<1>5. ASSUME NEW status \in Statuses, ChangeStatus(status) PROVE TypeOK'
  <2>1. [want EXCEPT !.status = status] \in Controls
    BY <1>1 DEF Controls
  <2> QED
    BY <1>5, <2>1, AskType DEF ChangeStatus
<1>11. ASSUME NEW range \in Ranges, ChangeRange(range) PROVE TypeOK'
  <2>1. [want EXCEPT !.range = range] \in Controls
    BY <1>1 DEF Controls
  <2> QED
    BY <1>11, <2>1, AskType DEF ChangeRange
<1>6. ASSUME NEW limit \in Limits, ChangeLimit(limit) PROVE TypeOK'
  <2>1. [want EXCEPT !.limit = limit, !.offset = 0] \in Controls
    BY <1>1 DEF Controls
  <2> QED
    BY <1>6, <2>1, AskType DEF ChangeLimit
<1>7. ASSUME "keys" \in panel, NEW key \in KeysOffered(shown["keys"]) \cup {""},
             SelectKey(key)
      PROVE  TypeOK'
  <2>1. LoadOK(shown["keys"]) /\ DOMAIN shown["keys"].got = {"keys"}
    BY <1>7, PartsFacts DEF TypeOK
  <2>2. key \in Keys \cup {""}
    BY <1>7, <2>1, KeysOfferedType
  <2>3. [want EXCEPT !.key = key] \in Controls
    BY <1>1, <2>2 DEF Controls
  <2> QED
    BY <1>7, <2>3, AskType DEF SelectKey
<1>8. ASSUME NEW id \in 1..lastId, OpenEvent(id) PROVE TypeOK'
  <2>1. id \in 0..lastId
    BY <1>1, <1>8
  <2>2. [want EXCEPT !.id = id] \in Controls
    BY <1>1, <2>1 DEF Controls
  <2> QED
    BY <1>8, <2>2, AskType DEF OpenEvent
<1> QED
  BY <1>2, <1>3, <1>4, <1>5, <1>6, <1>7, <1>8, <1>11 DEF User

-----------------------------------------------------------------------------
(***************************************************************************)
(* The statements: each selects by a condition on single rows.             *)
(***************************************************************************)
IsHere(e) == Project # "" => e.project = Project

HasStatus(e, status) == /\ status = "success" => e.status < 400
                        /\ status = "error"   => e.status >= 400

\* Does row e belong to the result of this statement of request l?
Meets(l, part, e) ==
    /\ e.mine
    /\ l.kind \in {"cards", "routes", "counts"} => IsHere(e)
    /\ part = "errors" => HasStatus(e, "error")
    /\ l.kind = "routes" => HasStatus(e, l.of.status)
    /\ part = "split" => e.route \in l.page
    /\ l.kind = "keys" => e.keys # {}
    /\ l.kind = "counts" => l.of.key \in e.keys
    /\ l.kind = "event" => e.id = l.of.id

\* The rows that request l may read now.
Visible(l) == InView(events, l.kind, l.since)

LEMMA RowsMeet ==
    ASSUME NEW l, l.kind \in DOMAIN Parts, NEW part \in Parts[l.kind]
    PROVE  Rows(l)[part] = {e \in Visible(l) : Meets(l, part, e)}
<1> USE DEF Visible
<1>1. CASE l.kind = "cards"
  <2>1. Rows(l) = CardsRows(l) /\ part \in {"avg", "total", "errors"}
    BY <1>1, PartsFacts DEF Rows
  <2>2. /\ CardsRows(l).avg = Here(l) /\ CardsRows(l).total = Here(l)
        /\ CardsRows(l).errors = OfStatus(Here(l), "error")
    BY DEF CardsRows
  <2>3. CASE part = "errors"
    BY <1>1, <2>1, <2>2, <2>3
    DEF Meets, IsHere, HasStatus, Here, Own, OfStatus
  <2>4. CASE part # "errors"
    <3>1. Rows(l)[part] = Here(l) /\ part # "split"
      BY <2>1, <2>2, <2>4
    <3> QED
      BY <1>1, <2>4, <3>1 DEF Meets, IsHere, Here, Own
  <2> QED
    BY <2>3, <2>4
<1>2. CASE l.kind = "routes"
  <2> DEFINE set == OfStatus(Here(l), l.of.status)
  <2>1. Rows(l) = RoutesRows(l) /\ part \in {"count", "page", "split"}
    BY <1>2, PartsFacts DEF Rows
  <2>2. /\ RoutesRows(l).count = set /\ RoutesRows(l).page = set
        /\ RoutesRows(l).split = {e \in set : e.route \in l.page}
    BY DEF RoutesRows
  <2>3. CASE part = "split"
    <3>1. Rows(l)[part] = {e \in set : e.route \in l.page}
      BY <2>1, <2>2, <2>3
    <3> QED
      BY <1>2, <2>3, <3>1 DEF Meets, IsHere, HasStatus, Here, Own, OfStatus
  <2>4. CASE part # "split"
    <3>1. Rows(l)[part] = set /\ part # "errors"
      BY <2>1, <2>2, <2>4
    <3> QED
      BY <1>2, <2>4, <3>1 DEF Meets, IsHere, HasStatus, Here, Own, OfStatus
  <2> QED
    BY <2>3, <2>4
<1>3. CASE l.kind = "keys"
  <2>1. Rows(l) = KeysRows(l) /\ part = "keys"
    BY <1>3, PartsFacts DEF Rows
  <2> QED
    BY <1>3, <2>1 DEF KeysRows, Own, Meets
<1>4. CASE l.kind = "counts"
  <2>1. Rows(l) = CountsRows(l) /\ part = "counts"
    BY <1>4, PartsFacts DEF Rows
  <2>2. CountsRows(l).counts = {e \in Here(l) : l.of.key \in e.keys}
    BY DEF CountsRows
  <2> QED
    BY <1>4, <2>1, <2>2 DEF Here, Own, Meets, IsHere
<1>5. CASE l.kind = "event"
  <2>1. Rows(l) = EventRows(l) /\ part = "row"
    BY <1>5, PartsFacts DEF Rows
  <2> QED
    BY <1>5, <2>1 DEF EventRows, Own, Meets
<1> QED
  BY <1>1, <1>2, <1>3, <1>4, <1>5, PartsFacts

\* A statement of request l is done: m is the request with its result.
Step(l, part, m) ==
    /\ DOMAIN m = {"kind", "of", "n", "since", "got", "page", "steady", "seen"}
    /\ m.kind = l.kind /\ m.of = l.of /\ m.n = l.n /\ m.since = l.since
    /\ m.steady = l.steady /\ m.seen = l.seen
    /\ DOMAIN m.got = DOMAIN l.got \cup {part}
    /\ m.got[part] = Rows(l)[part]
    /\ \A p \in DOMAIN l.got : m.got[p] = l.got[p]
    /\ m.page # l.page => /\ part = "page" /\ "split" \notin DOMAIN l.got
                         /\ m.page \subseteq RoutesOf(Rows(l)["page"])

\* Of the statements of one handler the one that breaks down is the last.
InOrder(l) == "split" \in DOMAIN l.got => "page" \in DOMAIN l.got

LEMMA ReadFacts ==
    ASSUME TypeOK, NEW l \in loads, InOrder(l), NEW part, Read(l, part)
    PROVE  /\ part \in Parts[l.kind] \ DOMAIN l.got
           /\ part = "split" => "page" \in DOMAIN l.got
           /\ \E m : Step(l, part, m) /\ loads' = (loads \ {l}) \cup {m}
           /\ UNCHANGED <<events, lastId, now, panel, want, asked, shown, paging,
                          aside, faults, latest, lapse>>
<1>1. /\ part \in Parts[l.kind] \ DOMAIN l.got
      /\ part = "split" => "page" \in DOMAIN l.got
      /\ UNCHANGED <<events, lastId, now, panel, want, asked, shown, paging,
                     aside, faults, latest, lapse>>
  BY DEF Read
<1>2. PICK page \in IF part = "page" THEN Pages(Rows(l).page, l.of) ELSE {l.page} :
         loads' = (loads \ {l}) \cup
             {[l EXCEPT !.page = page,
                  !.got = [p \in DOMAIN @ \cup {part} |->
                              IF p = part THEN Rows(l)[p] ELSE @[p]]]}
  BY DEF Read
<1> DEFINE m == [l EXCEPT !.page = page,
                  !.got = [p \in DOMAIN @ \cup {part} |->
                              IF p = part THEN Rows(l)[p] ELSE @[p]]]
<1>3. DOMAIN l = {"kind", "of", "n", "since", "got", "page", "steady", "seen"}
  BY DEF TypeOK, LoadOK
<1>4. /\ DOMAIN m = DOMAIN l /\ m.kind = l.kind /\ m.of = l.of /\ m.n = l.n
      /\ m.since = l.since /\ m.steady = l.steady /\ m.seen = l.seen /\ m.page = page
      /\ m.got = [p \in DOMAIN l.got \cup {part} |->
                    IF p = part THEN Rows(l)[p] ELSE l.got[p]]
  BY <1>3
<1>5. page # l.page => /\ part = "page" /\ "split" \notin DOMAIN l.got
                       /\ page \subseteq RoutesOf(Rows(l)["page"])
  BY <1>1, <1>2 DEF InOrder, Pages
<1>6. loads' = (loads \ {l}) \cup {m}
  BY <1>2
<1> HIDE DEF m
<1>7. Step(l, part, m)
  BY <1>1, <1>3, <1>4, <1>5 DEF Step
<1> QED
  BY <1>1, <1>6, <1>7

LEMMA LoadStays ==
    ASSUME lastId \in Nat, lastId' \in Nat, lastId <= lastId',
           asked \in Nat, asked' = asked, NEW l, LoadOK(l)
    PROVE  LoadOK(l)'
  BY Grow DEF LoadOK

LEMMA RoutesType ==
    ASSUME NEW set, set \subseteq Event
    PROVE  RoutesOf(set) \subseteq RoutesOf(Shapes)
  BY DEF RoutesOf, Event, EventOf
-----------------------------------------------------------------------------
(***************************************************************************)
(* The inductive invariant: the result of a statement lies between the     *)
(* rows that were in the table all the while and those that were there at  *)
(* any time, and has exactly those of them that the statement selects.     *)
(***************************************************************************)
Between(l) == l.steady \subseteq Visible(l) /\ Visible(l) \subseteq l.seen

\* No cutoff is later than one computed now would be.
InTime(l) == l.since <= now - Reach(l.kind, l.of)

Sound(l) ==
    \A part \in DOMAIN l.got : \A e \in l.got[part] : Meets(l, part, e)

Whole(l) ==
    \A part \in DOMAIN l.got :
       \A e \in l.steady : Meets(l, part, e) => e \in l.got[part]

UnderWay(l) ==
    /\ InOrder(l) /\ InTime(l) /\ Between(l) /\ IsFiniteSet(l.seen)
    /\ Sound(l) /\ Whole(l)

\* Is what is drawn of this kind always an answer, never a failure?
Answered(kind) ==
    kind \in {"cards", "routes", "keys"} \/ (kind = "event" /\ faults = 0)

DrawnInv ==
    \A kind \in panel : /\ IsFiniteSet(shown[kind].seen) /\ Sound(shown[kind])
                        /\ Answered(kind) => Whole(shown[kind])

ReadsInv ==
    /\ IsFiniteSet(events) /\ \A l \in loads : UnderWay(l)
    /\ DrawnInv
    /\ Sound(lapse) /\ Whole(lapse)
-----------------------------------------------------------------------------
(***************************************************************************)
(* The steps of a request.                                                 *)
(***************************************************************************)
LEMMA StepOK ==
    ASSUME NEW l, NEW part \in Parts[l.kind], NEW m,
           LoadOK(l), Between(l), Step(l, part, m)
    PROVE  LoadOK(m)
<1>1. LoadOK(l)
  OBVIOUS
<1>2. /\ l.kind \in DOMAIN Parts /\ l.of \in Controls /\ l.n \in 0..asked
      /\ DOMAIN l.got \subseteq Parts[l.kind]
      /\ \A p \in DOMAIN l.got : l.got[p] \subseteq l.seen
      /\ l.page \subseteq RoutesOf(Shapes)
      /\ l.steady \subseteq l.seen /\ l.seen \subseteq Event
  BY DEF LoadOK
<1>3. Rows(l)[part] \subseteq l.seen
  BY <1>2, RowsMeet DEF Between
<1>4. m.page \subseteq RoutesOf(Shapes)
  <2>1. CASE m.page = l.page
    BY <1>2, <2>1
  <2>2. CASE part = "page" /\ m.page \subseteq RoutesOf(Rows(l)["page"])
    <3>1. RoutesOf(Rows(l)["page"]) \subseteq RoutesOf(Shapes)
      BY <1>2, <1>3, <2>2, RoutesType
    <3> QED
      BY <2>2, <3>1
  <2> QED
    BY <2>1, <2>2 DEF Step
<1>5. DOMAIN m.got \subseteq Parts[l.kind]
  BY <1>2 DEF Step
<1>6. \A p \in DOMAIN m.got : m.got[p] \subseteq l.seen
  BY <1>2, <1>3 DEF Step
<1> QED
  BY <1>2, <1>4, <1>5, <1>6 DEF LoadOK, Step

LEMMA StepUnderWay ==
    ASSUME NEW l, NEW part \in Parts[l.kind] \ DOMAIN l.got, NEW m,
           LoadOK(l), UnderWay(l), Step(l, part, m),
           part = "split" => "page" \in DOMAIN l.got
    PROVE  UnderWay(m)
<1>1. l.kind \in DOMAIN Parts /\ Rows(l)[part] = {e \in Visible(l) : Meets(l, part, e)}
  BY RowsMeet DEF LoadOK
<1>2. InOrder(m) /\ InTime(m) /\ Between(m) /\ IsFiniteSet(m.seen)
  BY DEF UnderWay, InOrder, InTime, Between, Visible, Step
<1>3. ASSUME NEW p \in DOMAIN m.got, NEW e
      PROVE  Meets(m, p, e) <=> Meets(l, p, e)
  <2>1. m.kind = l.kind /\ m.of = l.of
    BY DEF Step
  <2>2. p = "split" => m.page = l.page
    BY <1>3 DEF Step
  <2> QED
    BY <2>1, <2>2 DEF Meets
<1>4. ASSUME NEW p \in DOMAIN m.got, NEW e
      PROVE  /\ e \in m.got[p] => Meets(l, p, e)
             /\ e \in m.steady /\ Meets(l, p, e) => e \in m.got[p]
  <2>1. CASE p = part
    BY <1>1, <2>1 DEF Step, UnderWay, Between
  <2>2. CASE p # part
    BY <1>4, <2>2 DEF Step, UnderWay, Sound, Whole
  <2> QED
    BY <2>1, <2>2
<1>5. Sound(m) /\ Whole(m)
  BY <1>3, <1>4 DEF Sound, Whole
<1> QED
  BY <1>2, <1>5 DEF UnderWay
-----------------------------------------------------------------------------
(***************************************************************************)
(* The invariant is preserved.                                             *)
(***************************************************************************)
MQInv == TypeOK /\ ReadsInv

\* What holds of a request while others take their steps.
LEMMA SameRequest ==
    ASSUME TypeOK, UNCHANGED <<events, lastId, now, asked>>, NEW l
    PROVE  /\ LoadOK(l) => LoadOK(l)'
           /\ UnderWay(l) => UnderWay(l)'
<1>1. LoadOK(l) => LoadOK(l)'
  BY LoadStays DEF TypeOK
<1>2. UnderWay(l) => UnderWay(l)'
  BY DEF UnderWay, InTime, Between, Visible
<1> QED
  BY <1>1, <1>2

LEMMA ReadStep ==
    ASSUME MQInv, NEW l \in loads, NEW part, Read(l, part)
    PROVE  MQInv'
<1> USE DEF MQInv
<1>1. LoadOK(l) /\ UnderWay(l) /\ l.kind \in panel /\ InOrder(l) /\ Between(l)
  BY DEF TypeOK, ReadsInv, UnderWay
<1>2. /\ part \in Parts[l.kind] \ DOMAIN l.got
      /\ part = "split" => "page" \in DOMAIN l.got
      /\ UNCHANGED <<events, lastId, now, panel, want, asked, shown, paging,
                     aside, faults, latest, lapse>>
  BY <1>1, ReadFacts
<1>3. PICK m : Step(l, part, m) /\ loads' = (loads \ {l}) \cup {m}
  BY <1>1, ReadFacts
<1>4. LoadOK(m) /\ UnderWay(m) /\ m.kind \in panel
  BY <1>1, <1>2, <1>3, StepOK, StepUnderWay DEF Step
<1>5. ASSUME NEW x \in loads'
      PROVE  LoadOK(x)' /\ x.kind \in panel /\ UnderWay(x)'
  <2>1. LoadOK(x) /\ UnderWay(x) /\ x.kind \in panel
    BY <1>3, <1>4, <1>5 DEF TypeOK, ReadsInv
  <2> QED
    BY <1>2, <2>1, SameRequest
<1>6. TypeOK'
  <2>1. Event' = Event /\ Controls' = Controls
    BY <1>2, SameTypes
  <2>2. \A kind \in panel : LoadOK(shown[kind])'
    BY <1>2, <2>1 DEF TypeOK, LoadOK
  <2>3. LoadOK(lapse)'
    BY <1>2, <2>1 DEF TypeOK, LoadOK
  <2> QED
    BY <1>2, <1>5, <2>1, <2>2, <2>3 DEF TypeOK
<1>7. ReadsInv'
  BY <1>2, <1>5 DEF ReadsInv, DrawnInv, Answered
<1> QED
  BY <1>6, <1>7

LEMMA DrawStep ==
    ASSUME MQInv, NEW l \in loads, Draw(l)
    PROVE  MQInv'
<1> USE DEF MQInv
<1>1. LoadOK(l) /\ UnderWay(l) /\ l.kind \in panel /\ DOMAIN l.got = Parts[l.kind]
  BY DEF TypeOK, ReadsInv, Draw
<1>2. /\ loads' = loads \ {l} /\ shown' = [shown EXCEPT ![l.kind] = l]
      /\ want' = [want EXCEPT !.key = ""] \/ want' = want
      /\ lapse' = lapse \/ (lapse' = l /\ l.kind = "keys")
      /\ UNCHANGED <<events, lastId, now, panel, asked, faults, latest>>
  BY DEF Draw
<1>10. /\ paging' \in [prev : BOOLEAN, next : BOOLEAN]
       /\ aside' \in [subtitle : SUBSET Event', attributes : SUBSET Event']
  <2>1. Event' = Event
    BY <1>2, SameTypes
  <2>2. CASE l.kind = "event"
    <3>1. "row" \in DOMAIN l.got
      BY <1>1, <2>2, PartsFacts
    <3>2. l.got["row"] \subseteq Event
      BY <1>1, <3>1 DEF LoadOK
    <3> QED
      BY <2>1, <2>2, <3>2 DEF Draw, TypeOK
  <2>3. CASE l.kind # "event"
    <3>1. HasMore(l) \in BOOLEAN /\ (want.offset # 0) \in BOOLEAN
      BY DEF HasMore
    <3>2. paging' = paging \/ paging' = [prev |-> want.offset # 0, next |-> HasMore(l)]
      BY DEF Draw
    <3> QED
      BY <2>1, <2>3, <3>1, <3>2 DEF Draw, TypeOK
  <2> QED
    BY <2>2, <2>3
<1>3. ASSUME NEW x, LoadOK(x) PROVE LoadOK(x)'
  BY <1>2, <1>3, SameRequest
<1>4. want' \in Controls'
  <2>1. want \in Controls /\ Controls' = Controls
    BY <1>2, SameTypes DEF TypeOK
  <2>2. [want EXCEPT !.key = ""] \in Controls
    BY <2>1 DEF Controls
  <2> QED
    BY <1>2, <2>1, <2>2
<1>5. \A x \in loads' : LoadOK(x)' /\ x.kind \in panel' /\ UnderWay(x)'
  BY <1>2, <1>3, SameRequest DEF TypeOK, ReadsInv
<1>6. ASSUME NEW kind \in panel
      PROVE  /\ LoadOK(shown[kind])' /\ shown'[kind].kind = kind
             /\ DOMAIN shown'[kind].got = Parts[kind]
             /\ IsFiniteSet(shown'[kind].seen) /\ Sound(shown'[kind])
             /\ Answered(kind)' => Whole(shown'[kind])
  <2>1. PICK x : x = shown'[kind]
    OBVIOUS
  <2>2. x = shown[kind] \/ (kind = l.kind /\ x = l)
    BY <1>2, <1>6, <2>1 DEF TypeOK
  <2>3. /\ LoadOK(x) /\ x.kind = kind /\ DOMAIN x.got = Parts[kind]
        /\ IsFiniteSet(x.seen) /\ Sound(x)
        /\ Answered(kind) => Whole(x)
    BY <1>1, <1>6, <2>2 DEF TypeOK, ReadsInv, DrawnInv, UnderWay
  <2>4. LoadOK(x)'
    BY <1>3, <2>3
  <2> QED
    BY <1>2, <2>1, <2>3, <2>4 DEF LoadOK, Answered
<1>7. /\ LoadOK(lapse)' /\ lapse'.kind = "keys" /\ DOMAIN lapse'.got = {"keys"}
      /\ Sound(lapse') /\ Whole(lapse')
  <2>1. PICK x : x = lapse'
    OBVIOUS
  <2>2. LoadOK(x) /\ x.kind = "keys" /\ DOMAIN x.got = {"keys"} /\ Sound(x) /\ Whole(x)
    BY <1>1, <1>2, <2>1, PartsFacts DEF TypeOK, ReadsInv, UnderWay
  <2>3. LoadOK(x)'
    BY <1>3, <2>2
  <2> QED
    BY <2>1, <2>2, <2>3 DEF LoadOK
<1>8. TypeOK'
  <2>1. DOMAIN shown' = panel'
    BY <1>2 DEF TypeOK
  <2>2. latest' \in [panel' -> 0..asked'] /\ events' \subseteq Event'
    BY <1>2, SameTypes DEF TypeOK
  <2> QED
    BY <1>2, <1>4, <1>5, <1>6, <1>7, <1>10, <2>1, <2>2 DEF TypeOK
<1>9. ReadsInv'
  BY <1>2, <1>5, <1>6, <1>7 DEF ReadsInv, DrawnInv
<1> QED
  BY <1>8, <1>9

LEMMA FailStep ==
    ASSUME MQInv, NEW l \in loads, Fail(l)
    PROVE  MQInv'
<1> USE DEF MQInv
<1> DEFINE failed == [l EXCEPT !.got = [p \in Parts[l.kind] |-> {}]]
<1>1. LoadOK(l) /\ UnderWay(l) /\ l.kind \in panel
  BY DEF TypeOK, ReadsInv
<1>2. /\ loads' = loads \ {l} /\ faults' = faults + 1
      /\ \/ shown' = shown
         \/ /\ l.kind \in {"counts", "event"}
            /\ shown' = [shown EXCEPT ![l.kind] = failed]
      /\ UNCHANGED <<events, lastId, now, panel, want, asked, paging, aside,
                     latest, lapse>>
  BY DEF Fail
<1>3. Event' = Event /\ Controls' = Controls
  BY <1>2, SameTypes
<1>4. faults' \in Nat /\ faults' # 0
  BY <1>2 DEF TypeOK
<1>5. /\ LoadOK(failed) /\ failed.kind = l.kind
      /\ DOMAIN failed.got = Parts[l.kind]
      /\ IsFiniteSet(failed.seen) /\ Sound(failed)
  <2>1. /\ DOMAIN failed = {"kind", "of", "n", "since", "got", "page", "steady", "seen"}
        /\ failed.kind = l.kind /\ failed.of = l.of /\ failed.n = l.n
        /\ failed.since = l.since
        /\ failed.page = l.page /\ failed.steady = l.steady
        /\ failed.seen = l.seen
        /\ failed.got = [p \in Parts[l.kind] |-> {}]
    BY <1>1 DEF LoadOK
  <2> HIDE DEF failed
  <2>2. LoadOK(failed)
    BY <1>1, <2>1 DEF LoadOK
  <2>3. Sound(failed)
    BY <2>1 DEF Sound
  <2> QED
    BY <1>1, <2>1, <2>2, <2>3 DEF UnderWay
<1> HIDE DEF failed
<1>6. \A x \in loads' : LoadOK(x)' /\ x.kind \in panel' /\ UnderWay(x)'
  BY <1>2, SameRequest DEF TypeOK, ReadsInv
<1>7. ASSUME NEW kind \in panel
      PROVE  /\ LoadOK(shown[kind])' /\ shown'[kind].kind = kind
             /\ DOMAIN shown'[kind].got = Parts[kind]
             /\ IsFiniteSet(shown'[kind].seen) /\ Sound(shown'[kind])
             /\ Answered(kind)' => Whole(shown'[kind])
  <2>1. PICK x : x = shown'[kind]
    OBVIOUS
  <2>2. x = shown[kind] \/ (kind = l.kind /\ kind \in {"counts", "event"} /\ x = failed)
    BY <1>2, <1>7, <2>1 DEF TypeOK
  <2>3. /\ LoadOK(x) /\ x.kind = kind /\ DOMAIN x.got = Parts[kind]
        /\ IsFiniteSet(x.seen) /\ Sound(x)
    BY <1>5, <1>7, <2>2 DEF TypeOK, ReadsInv, DrawnInv
  <2>4. kind \in {"cards", "routes", "keys"} => Whole(x)
    BY <1>7, <2>2 DEF ReadsInv, DrawnInv, Answered
  <2>5. LoadOK(x)'
    BY <1>2, <2>3, SameRequest
  <2> QED
    BY <1>4, <2>1, <2>3, <2>4, <2>5 DEF LoadOK, Answered
<1>8. TypeOK'
  <2>1. DOMAIN shown' = panel'
    BY <1>2 DEF TypeOK
  <2>2. LoadOK(lapse)'
    BY <1>2, <1>3 DEF TypeOK, LoadOK
  <2> QED
    BY <1>2, <1>3, <1>4, <1>6, <1>7, <2>1, <2>2 DEF TypeOK
<1>9. ReadsInv'
  BY <1>2, <1>6, <1>7 DEF ReadsInv, DrawnInv
<1> QED
  BY <1>8, <1>9

\* A request goes on: it keeps its number and what it asks for.
GoesOn(l, m) ==
    /\ m.kind = l.kind /\ m.n = l.n /\ m.of = l.of
    /\ m.steady \subseteq l.steady /\ l.seen \subseteq m.seen

\* Events that come are from now on among those seen, and those that go no
\* longer among those that stay.
LEMMA FollowOne ==
    ASSUME MQInv, Follow, UNCHANGED <<asked, panel, want>>,
           lastId' \in Nat, lastId <= lastId', now' \in Nat, now <= now',
           events' \subseteq Event', IsFiniteSet(events'), NEW x \in loads'
    PROVE  /\ LoadOK(x)' /\ x.kind \in panel' /\ UnderWay(x)'
           /\ \E l \in loads : GoesOn(l, x)
<1> USE DEF MQInv
<1>1. PICK l \in loads :
         x = LET begun == l.kind # "cards" /\ DOMAIN l.got # {}
                 since == IF begun THEN l.since ELSE now' - Reach(l.kind, l.of)
                 rows  == InView(events', l.kind, since)
             IN  [l EXCEPT !.since = since, !.steady = @ \cap rows,
                           !.seen = @ \cup rows]
  BY DEF Follow
<1>2. PICK since : /\ since = l.since \/ since = now' - Reach(l.kind, l.of)
                   /\ x = [l EXCEPT !.since = since,
                              !.steady = @ \cap InView(events', l.kind, since),
                              !.seen = @ \cup InView(events', l.kind, since)]
  BY <1>1
<1>3. LoadOK(l) /\ UnderWay(l) /\ l.kind \in panel /\ now \in Nat /\ lastId \in Nat
      /\ asked \in Nat
  BY DEF TypeOK, ReadsInv
<1>4. PICK rows : rows = InView(events', l.kind, since)
  OBVIOUS
<1>5. rows \subseteq Event' /\ IsFiniteSet(rows)
  <2>1. rows \subseteq events'
    BY <1>4 DEF InView
  <2> QED
    BY <2>1, FS_Subset
<1>6. /\ DOMAIN x = {"kind", "of", "n", "since", "got", "page", "steady", "seen"}
      /\ x.kind = l.kind /\ x.of = l.of /\ x.n = l.n /\ x.got = l.got
      /\ x.since = since /\ x.page = l.page
      /\ x.steady = l.steady \cap rows /\ x.seen = l.seen \cup rows
  BY <1>2, <1>3, <1>4 DEF LoadOK
<1>7. since \in Int /\ since <= now' - Reach(l.kind, l.of)
  <2>1. Reach(l.kind, l.of) \in Nat /\ l.since \in Int
    BY <1>3, ReachType DEF LoadOK
  <2>2. l.since <= now - Reach(l.kind, l.of)
    BY <1>3 DEF UnderWay, InTime
  <2> QED
    BY <1>2, <1>3, <2>1, <2>2
<1>8. LoadOK(x)'
  <2>1. LoadOK(l)'
    BY <1>3, LoadStays
  <2> QED
    BY <1>5, <1>6, <1>7, <2>1 DEF LoadOK
<1>9. Between(x)' /\ InTime(x)' /\ InOrder(x)' /\ IsFiniteSet(x.seen)
  <2>1. InView(events', x.kind, x.since) = rows
    BY <1>4, <1>6
  <2>2. Between(x)'
    BY <1>6, <2>1 DEF Between, Visible
  <2>3. InTime(x)'
    BY <1>6, <1>7 DEF InTime, Reach
  <2>4. InOrder(x)'
    BY <1>3, <1>6 DEF UnderWay, InOrder
  <2>5. IsFiniteSet(l.seen \cup rows)
    BY <1>3, <1>5, FS_Union DEF UnderWay
  <2> QED
    BY <1>6, <2>2, <2>3, <2>4, <2>5
<1>10. Sound(x) /\ Whole(x)
  BY <1>3, <1>6 DEF UnderWay, Sound, Whole, Meets
<1>11. UnderWay(x)'
  BY <1>9, <1>10 DEF UnderWay, Sound, Whole
<1>12. GoesOn(l, x)
  BY <1>6 DEF GoesOn
<1> QED
  BY <1>3, <1>6, <1>8, <1>11, <1>12

LEMMA FollowStep ==
    ASSUME MQInv, Follow,
           UNCHANGED <<panel, want, asked, shown, paging, aside, faults, latest,
                       lapse>>,
           lastId' \in Nat, lastId <= lastId', now' \in Nat, now <= now',
           events' \subseteq Event', IsFiniteSet(events')
    PROVE  MQInv'
<1> USE DEF MQInv
<1>1. Event \subseteq Event' /\ Controls \subseteq Controls'
  BY Grow DEF TypeOK
<1>2. \A x \in loads' : LoadOK(x)' /\ x.kind \in panel' /\ UnderWay(x)'
  BY FollowOne
<1>3. TypeOK'
  <2>1. \A kind \in panel' : LoadOK(shown[kind])'
    BY <1>1 DEF TypeOK, LoadOK
  <2>2. LoadOK(lapse)'
    BY <1>1 DEF TypeOK, LoadOK
  <2>3. aside' \in [subtitle : SUBSET Event', attributes : SUBSET Event']
    BY <1>1 DEF TypeOK
  <2> QED
    BY <1>1, <1>2, <2>1, <2>2, <2>3 DEF TypeOK
<1>4. ReadsInv'
  BY <1>2 DEF ReadsInv, DrawnInv, Answered
<1> QED
  BY <1>3, <1>4

\* What a batch, a deletion and the passing of time change.
LEMMA TableSteps ==
    ASSUME MQInv,
           \/ \E kind \in panel : \E batch \in Batches[kind] : Arrive(batch)
           \/ \E e \in events : Leave(e)
           \/ Tick
    PROVE  /\ Follow
           /\ UNCHANGED <<panel, want, asked, shown, paging, aside, faults,
                          latest, lapse>>
           /\ lastId' \in Nat /\ lastId <= lastId' /\ now' \in Nat /\ now <= now'
           /\ events' \subseteq Event' /\ IsFiniteSet(events')
<1>1. lastId \in Nat /\ now \in Nat /\ events \subseteq Event /\ IsFiniteSet(events)
  BY DEF MQInv, TypeOK, ReadsInv
<1>2. ASSUME NEW kind \in panel, NEW batch \in Batches[kind], Arrive(batch)
      PROVE  /\ lastId' \in Nat /\ lastId <= lastId' /\ now' = now
             /\ events' \subseteq Event' /\ IsFiniteSet(events')
  <2>1. batch \in Seq(Shapes)
    BY BatchesFacts, <1>2 DEF MQInv, TypeOK
  <2>2. Len(batch) \in Nat /\ \A i \in 1..Len(batch) : batch[i] \in Shapes
    BY <2>1
  <2>3. /\ lastId' = lastId + Len(batch) /\ now' = now
        /\ events' = events \cup {EventOf(lastId + i, batch[i]) : i \in 1..Len(batch)}
    BY <1>2 DEF Arrive
  <2>4. \A i \in 1..Len(batch) : lastId + i \in 1..lastId'
    BY <1>1, <2>2, <2>3
  <2>5. \A i \in 1..Len(batch) : EventOf(lastId + i, batch[i]) \in Event'
    BY <2>2, <2>4 DEF Event
  <2>6. Event \subseteq Event'
    <3>1. 1..lastId \subseteq 1..lastId'
      BY <1>1, <2>2, <2>3
    <3> QED
      BY <3>1 DEF Event
  <2>7. IsFiniteSet({EventOf(lastId + i, batch[i]) : i \in 1..Len(batch)})
    <3> DEFINE new == [i \in 1..Len(batch) |-> EventOf(lastId + i, batch[i])]
               coming == {EventOf(lastId + i, batch[i]) : i \in 1..Len(batch)}
    <3>1. new \in Surjection(1..Len(batch), coming)
      BY DEF Surjection
    <3>2. IsFiniteSet(1..Len(batch))
      BY <2>2, FS_Interval
    <3> QED
      BY <3>1, <3>2, FS_Surjection
  <2>8. IsFiniteSet(events')
    BY <1>1, <2>3, <2>7, FS_Union
  <2> QED
    BY <1>1, <2>2, <2>3, <2>5, <2>6, <2>8
<1>3. ASSUME NEW e \in events, Leave(e)
      PROVE  /\ lastId' = lastId /\ now' = now
             /\ events' \subseteq Event' /\ IsFiniteSet(events')
  <2>1. lastId' = lastId /\ now' = now /\ events' = events \ {e}
    BY <1>3 DEF Leave
  <2>2. Event' = Event
    BY <2>1, SameTypes
  <2> QED
    BY <1>1, <2>1, <2>2, FS_Subset
<1>4. ASSUME Tick
      PROVE  /\ lastId' = lastId /\ now' = now + 1
             /\ events' \subseteq Event' /\ IsFiniteSet(events')
  <2>1. lastId' = lastId /\ now' = now + 1 /\ events' = events
    BY <1>4 DEF Tick
  <2>2. Event' = Event
    BY <2>1, SameTypes
  <2> QED
    BY <1>1, <2>1, <2>2
<1>5. /\ Follow
      /\ UNCHANGED <<panel, want, asked, shown, paging, aside, faults,
                     latest, lapse>>
  BY DEF Arrive, Leave, Tick
<1>6. CASE \E kind \in panel : \E batch \in Batches[kind] : Arrive(batch)
  BY <1>1, <1>2, <1>5, <1>6
<1>7. CASE \E e \in events : Leave(e)
  BY <1>1, <1>3, <1>5, <1>7
<1>8. CASE Tick
  BY <1>1, <1>4, <1>5, <1>8
<1> QED
  BY <1>6, <1>7, <1>8

LEMMA NewUnderWay ==
    ASSUME IsFiniteSet(events), now \in Nat, NEW kind, NEW of \in Controls
    PROVE  UnderWay(Load(kind, of))
<1>1. PICK l : l = Load(kind, of)
  OBVIOUS
<1>2. PICK rows : rows = InView(events, kind, now - Reach(kind, of))
  OBVIOUS
<1>3. /\ l.kind = kind /\ l.of = of /\ l.since = now - Reach(kind, of)
      /\ l.got = <<>> /\ l.steady = rows /\ l.seen = rows
  BY <1>1, <1>2, LoadFields
<1>4. Visible(l) = rows /\ IsFiniteSet(rows)
  BY <1>2, <1>3, FS_Subset DEF Visible, InView
<1>5. Reach(kind, of) \in Nat
  BY ReachType
<1>6. InTime(l)
  BY <1>3, <1>5 DEF InTime
<1>7. UnderWay(l)
  BY <1>3, <1>4, <1>6, NothingGot DEF UnderWay, InOrder, Between, Sound, Whole
<1> QED
  BY <1>1, <1>7

LEMMA UndrawnSound ==
    ASSUME NEW kind
    PROVE  /\ IsFiniteSet(Undrawn(kind).seen)
           /\ Sound(Undrawn(kind)) /\ Whole(Undrawn(kind))
<1>1. PICK l : l = Undrawn(kind)
  OBVIOUS
<1>2. l.got = [part \in Parts[kind] |-> {}] /\ l.steady = {} /\ l.seen = {}
  BY <1>1, UndrawnFields
<1>3. Sound(l) /\ Whole(l) /\ IsFiniteSet(l.seen)
  BY <1>2, FS_EmptySet DEF Sound, Whole
<1> QED
  BY <1>1, <1>3

LEMMA AskReads ==
    ASSUME MQInv, NEW kinds, NEW w \in Controls, Ask(kinds, w)
    PROVE  ReadsInv'
<1> USE DEF MQInv
<1>1. UNCHANGED <<events, now, panel, faults, lapse>>
  BY AskFacts
<1>2. ASSUME NEW l, UnderWay(l) PROVE UnderWay(l)'
  BY <1>1, <1>2 DEF UnderWay, InTime, Between, Visible
<1>3. ASSUME NEW l \in loads' PROVE UnderWay(l)'
  <2>1. UnderWay(l)
    BY <1>3, AskFacts, NewUnderWay DEF ReadsInv, TypeOK
  <2> QED
    BY <1>2, <2>1
<1>4. ASSUME NEW kind \in panel
      PROVE  /\ IsFiniteSet(shown'[kind].seen) /\ Sound(shown'[kind])
             /\ Answered(kind)' => Whole(shown'[kind])
  <2>1. Answered(kind)' <=> Answered(kind)
    BY <1>1 DEF Answered
  <2>2. CASE shown'[kind] = shown[kind]
    BY <1>4, <2>1, <2>2 DEF ReadsInv, DrawnInv
  <2>3. CASE shown'[kind] = Undrawn(kind)
    BY <2>3, UndrawnSound
  <2> QED
    BY <1>4, <2>2, <2>3, AskFacts
<1> QED
  BY <1>1, <1>3, <1>4 DEF ReadsInv, DrawnInv

LEMMA UserReads ==
    ASSUME MQInv, User
    PROVE  MQInv'
<1>1. TypeOK'
  BY UserType DEF MQInv
<1>2. \A kinds, w : Ask(kinds, w) => w = want'
  BY AskFacts
<1>3. ASSUME NEW kinds, NEW w, Ask(kinds, w) PROVE ReadsInv'
  <2>1. w \in Controls
    <3>1. w = want' /\ lastId' = lastId
      BY <1>3, AskFacts
    <3> QED
      BY <1>1, <3>1, SameTypes DEF TypeOK
  <2> QED
    BY <1>3, <2>1, AskReads
<1>4. ReadsInv'
  BY <1>3 DEF User, Open, NextPage, PrevPage, ChangeStatus, ChangeRange,
     ChangeLimit, SelectKey, OpenEvent
<1> QED
  BY <1>1, <1>4 DEF MQInv

LEMMA MQStep ==
    ASSUME MQInv, [Next]_vars
    PROVE  MQInv'
<1>1. CASE User
  BY <1>1, UserReads
<1>2. ASSUME NEW l \in loads, NEW part \in Parts[l.kind], Read(l, part)
      PROVE  MQInv'
  BY <1>2, ReadStep
<1>3. ASSUME NEW l \in loads, Draw(l) PROVE MQInv'
  BY <1>3, DrawStep
<1>4. ASSUME NEW l \in loads, Fail(l) PROVE MQInv'
  BY <1>4, FailStep
<1>5. CASE \/ \E kind \in panel : \E batch \in Batches[kind] : Arrive(batch)
           \/ \E e \in events : Leave(e)
           \/ Tick
  BY <1>5, TableSteps, FollowStep
<1>7. CASE UNCHANGED vars
  <2>1. UNCHANGED <<events, lastId, now, panel, want, loads, asked, shown,
                    paging, aside, faults, latest, lapse>>
    BY <1>7 DEF vars
  <2>2. Event' = Event /\ Controls' = Controls
    BY <2>1, SameTypes
  <2>3. TypeOK'
    BY <2>1, <2>2 DEF MQInv, TypeOK, LoadOK
  <2>4. ReadsInv'
    BY <2>1 DEF MQInv, ReadsInv, UnderWay, InTime, Between, Visible, DrawnInv,
         Answered
  <2> QED
    BY <2>3, <2>4 DEF MQInv
<1> QED
  BY <1>1, <1>2, <1>3, <1>4, <1>5, <1>7 DEF Next

LEMMA MQInit == Init => MQInv
<1> SUFFICES ASSUME Init PROVE MQInv
  OBVIOUS
<1>1. events = {} /\ lastId = 0 /\ now = 0 /\ faults = 0 /\ asked = 0 /\ loads = {}
  BY DEF Init
<1>2. /\ panel \in Panels
      /\ want = [range |-> CHOOSE r \in Ranges : \A q \in Ranges : q <= r,
                 status |-> "", limit |-> CHOOSE l \in Limits : TRUE,
                 offset |-> 0, key |-> "", id |-> 0]
      /\ shown = [kind \in panel |-> Undrawn(kind)]
      /\ paging = [prev |-> FALSE, next |-> TRUE]
      /\ aside = [subtitle |-> {}, attributes |-> {}]
      /\ latest = [kind \in panel |-> 0] /\ lapse = Undrawn("keys")
  BY DEF Init
<1>3. want \in Controls
  <2>1. (CHOOSE l \in Limits : TRUE) \in Limits
    BY LimitsAssumption
  <2>3. (CHOOSE r \in Ranges : \A q \in Ranges : q <= r) \in Ranges
    BY RangesAssumption
  <2>2. 0 \in 0..lastId /\ "" \in Statuses
    BY <1>1 DEF Statuses
  <2> QED
    BY <1>2, <2>1, <2>2, <2>3 DEF Controls
<1>4. ASSUME NEW kind \in DOMAIN Parts
      PROVE  /\ LoadOK(Undrawn(kind)) /\ DOMAIN Undrawn(kind).got = Parts[kind]
             /\ Undrawn(kind).kind = kind /\ Undrawn(kind).seen = {}
             /\ Sound(Undrawn(kind)) /\ Whole(Undrawn(kind))
  <2>1. asked \in Nat /\ now \in Nat
    BY <1>1
  <2> QED
    BY <1>1, <1>3, <2>1, UndrawnOK, UndrawnFields, UndrawnSound
<1>5. panel \subseteq DOMAIN Parts /\ "keys" \in DOMAIN Parts
  BY <1>2, PanelFacts, PartsFacts
<1>6. \A kind \in panel : shown[kind] = Undrawn(kind)
  BY <1>2
<1>7. TypeOK
  <2>1. faults \in Nat /\ 0 \in 0..asked
    BY <1>1
  <2>2. latest \in [panel -> 0..asked] /\ DOMAIN shown = panel
    BY <1>2, <2>1
  <2>3. LoadOK(lapse) /\ lapse.kind = "keys" /\ DOMAIN lapse.got = {"keys"}
    BY <1>2, <1>4, <1>5, PartsFacts
  <2>4. events \subseteq Event /\ lastId \in Nat /\ asked \in Nat /\ now \in Nat
    BY <1>1
  <2> QED
    BY <1>1, <1>2, <1>3, <1>4, <1>5, <1>6, <2>1, <2>2, <2>3, <2>4 DEF TypeOK
<1>8. ReadsInv
  <2>1. IsFiniteSet(events)
    BY <1>1, FS_EmptySet
  <2>2. DrawnInv
    <3> SUFFICES ASSUME NEW kind \in panel
                 PROVE  /\ IsFiniteSet(shown[kind].seen) /\ Sound(shown[kind])
                        /\ Whole(shown[kind])
      BY DEF DrawnInv
    <3>1. shown[kind] = Undrawn(kind) /\ Undrawn(kind).seen = {}
          /\ Sound(Undrawn(kind)) /\ Whole(Undrawn(kind))
      BY <1>4, <1>5, <1>6
    <3>2. IsFiniteSet(Undrawn(kind).seen)
      BY <3>1, FS_EmptySet
    <3> QED
      BY <3>1, <3>2
  <2>3. Sound(lapse) /\ Whole(lapse)
    BY <1>2, <1>4, <1>5
  <2> QED
    BY <1>1, <2>1, <2>2, <2>3 DEF ReadsInv
<1> QED
  BY <1>7, <1>8 DEF MQInv

LEMMA MQInvariant == Spec => []MQInv
  BY MQInit, MQStep, PTL DEF Spec

\* The shape of the state: a page of routes never begins before the first,
\* whichever clicks on Prev come before the buttons are drawn again
\* (metrics.html:980), and what is drawn is the whole of an answer.
THEOREM TypeCorrect == Spec => []TypeOK
  BY MQInvariant, PTL DEF MQInv
-----------------------------------------------------------------------------
(***************************************************************************)
(* The numbers of a panel agree.                                           *)
(***************************************************************************)
\* Sets that differ by no more than a third.
LEMMA NoMoreThan ==
    ASSUME NEW A, NEW B, NEW M, IsFiniteSet(B), IsFiniteSet(M),
           A \subseteq B \cup M
    PROVE  Cardinality(A) <= Cardinality(B) + Cardinality(M)
<1>1. /\ IsFiniteSet(B \cup M) /\ IsFiniteSet(B \cap M)
      /\ Cardinality(B \cup M) =
            Cardinality(B) + Cardinality(M) - Cardinality(B \cap M)
  BY FS_Union, FS_Subset
<1>2. IsFiniteSet(A) /\ Cardinality(A) <= Cardinality(B \cup M)
  BY <1>1, FS_Subset
<1>3. /\ Cardinality(A) \in Nat /\ Cardinality(B) \in Nat
      /\ Cardinality(M) \in Nat /\ Cardinality(B \cap M) \in Nat
  BY <1>1, <1>2, FS_CardinalityType
<1> QED
  BY <1>1, <1>2, <1>3

\* What is drawn, of a kind that never shows a failure.
LEMMA DrawnFacts ==
    ASSUME MQInv, NEW kind \in panel, NEW l, l = shown[kind],
           NEW p \in Parts[kind]
    PROVE  /\ l.kind = kind /\ DOMAIN l.got = Parts[kind]
           /\ l.got[p] \subseteq l.seen
           /\ IsFiniteSet(l.got[p]) /\ IsFiniteSet(Moving(l))
           /\ \A e \in l.got[p] : Meets(l, p, e)
           /\ Answered(kind) =>
                 \A e \in l.steady : Meets(l, p, e) => e \in l.got[p]
<1>1. /\ LoadOK(l) /\ l.kind = kind /\ DOMAIN l.got = Parts[kind]
      /\ IsFiniteSet(l.seen) /\ Sound(l)
      /\ Answered(kind) => Whole(l)
  BY DEF MQInv, TypeOK, ReadsInv, DrawnInv
<1>2. l.got[p] \subseteq l.seen
  BY <1>1 DEF LoadOK
<1>3. IsFiniteSet(l.got[p])
  BY <1>1, <1>2, FS_Subset
<1>4. IsFiniteSet(Moving(l))
  BY <1>1, FS_Subset DEF Moving
<1> QED
  BY <1>1, <1>2, <1>3, <1>4 DEF Sound, Whole

\* The cards never show more errors than requests, but for errors that came or
\* went between the requests for the two numbers (metrics.html:598-625,
\* metrics.go:113-117).
THEOREM CardsAlwaysAddUp == Spec => []CardsAddUp
<1>1. MQInv => CardsAddUp
  <2> SUFFICES ASSUME MQInv, "cards" \in panel, NEW l, l = shown["cards"]
               PROVE  Cardinality(l.got.errors) <= Cardinality(l.got.total)
                         + Cardinality(OfStatus(Moving(l), "error"))
    BY DEF CardsAddUp
  <2>1. /\ "errors" \in Parts["cards"] /\ "total" \in Parts["cards"]
        /\ Answered("cards") /\ "errors" # "split" /\ "total" # "split"
    BY PartsFacts DEF Answered
  <2>2. /\ l.kind = "cards" /\ IsFiniteSet(l.got["total"])
        /\ IsFiniteSet(Moving(l)) /\ l.got["errors"] \subseteq l.seen
    BY <2>1, DrawnFacts
  <2>3. ASSUME NEW e \in l.got["errors"]
        PROVE  e \in l.got["total"] \cup OfStatus(Moving(l), "error")
    <3>1. Meets(l, "errors", e) /\ e \in l.seen
      BY <2>1, <2>2, <2>3, DrawnFacts
    <3>2. Meets(l, "total", e) /\ e.status >= 400
      BY <2>2, <3>1 DEF Meets, HasStatus
    <3>3. CASE e \in l.steady
      BY <2>1, <3>2, <3>3, DrawnFacts
    <3>4. CASE e \notin l.steady
      BY <3>1, <3>2, <3>4 DEF OfStatus, Moving
    <3> QED
      BY <3>3, <3>4
  <2>4. IsFiniteSet(OfStatus(Moving(l), "error"))
    BY <2>2, FS_Subset DEF OfStatus
  <2> QED
    BY <2>2, <2>3, <2>4, NoMoreThan
<1> QED
  BY <1>1, MQInvariant, PTL

\* The statuses listed for a route add up to its count, but for events of the
\* route that came or went between the statements (metrics.go:182, 217).
THEOREM RoutesAlwaysAddUp == Spec => []RoutesAddUp
<1>1. MQInv => RoutesAddUp
  <2> SUFFICES ASSUME MQInv, "routes" \in panel, NEW l, l = shown["routes"],
                      NEW r \in l.page
               PROVE  /\ Hits(l.got.split, r) <= Hits(l.got.page, r) + Hits(Moving(l), r)
                      /\ Hits(l.got.page, r) <= Hits(l.got.split, r) + Hits(Moving(l), r)
    BY DEF RoutesAddUp
  <2> DEFINE of(set) == {e \in set : e.route = r}
  <2>1. /\ "page" \in Parts["routes"] /\ "split" \in Parts["routes"]
        /\ Answered("routes") /\ "page" # "errors" /\ "split" # "errors"
        /\ "page" # "split"
    BY PartsFacts DEF Answered
  <2>2. /\ l.kind = "routes" /\ IsFiniteSet(l.got["page"])
        /\ IsFiniteSet(l.got["split"]) /\ IsFiniteSet(Moving(l))
        /\ l.got["page"] \subseteq l.seen /\ l.got["split"] \subseteq l.seen
    BY <2>1, DrawnFacts
  <2>3. ASSUME NEW e, e.route = r
        PROVE  Meets(l, "page", e) <=> Meets(l, "split", e)
    BY <2>1, <2>2, <2>3 DEF Meets
  <2>4. ASSUME NEW e \in l.got["split"], e.route = r
        PROVE  e \in l.got["page"] \/ e \in Moving(l)
    <3>1. Meets(l, "split", e)
      BY <2>1, <2>4, DrawnFacts
    <3>2. Meets(l, "page", e)
      BY <2>3, <2>4, <3>1
    <3>3. e \in l.steady => e \in l.got["page"]
      BY <2>1, <3>2, DrawnFacts
    <3> QED
      BY <2>2, <2>4, <3>3 DEF Moving
  <2>5. ASSUME NEW e \in l.got["page"], e.route = r
        PROVE  e \in l.got["split"] \/ e \in Moving(l)
    <3>1. Meets(l, "page", e)
      BY <2>1, <2>5, DrawnFacts
    <3>2. Meets(l, "split", e)
      BY <2>3, <2>5, <3>1
    <3>3. e \in l.steady => e \in l.got["split"]
      BY <2>1, <3>2, DrawnFacts
    <3> QED
      BY <2>2, <2>5, <3>3 DEF Moving
  <2>6. /\ of(l.got["split"]) \subseteq of(l.got["page"]) \cup of(Moving(l))
        /\ of(l.got["page"]) \subseteq of(l.got["split"]) \cup of(Moving(l))
    BY <2>4, <2>5
  <2>7. /\ IsFiniteSet(of(l.got["page"])) /\ IsFiniteSet(of(l.got["split"]))
        /\ IsFiniteSet(of(Moving(l)))
    BY <2>2, FS_Subset
  <2> QED
    BY <2>6, <2>7, NoMoreThan DEF Hits
<1> QED
  BY <1>1, MQInvariant, PTL
-----------------------------------------------------------------------------
(***************************************************************************)
(* The pages of routes.                                                    *)
(***************************************************************************)
LEMMA RoutesFinite ==
    ASSUME NEW set, IsFiniteSet(set)
    PROVE  IsFiniteSet(RoutesOf(set)) /\ Cardinality(RoutesOf(set)) \in Nat
<1> DEFINE route == [e \in set |-> e.route]
<1>1. route \in Surjection(set, RoutesOf(set))
  BY DEF RoutesOf, Surjection
<1> QED
  BY <1>1, FS_Surjection, FS_CardinalityType

\* A page may be empty only if it begins where the routes have ended.
LEMMA EmptyPage ==
    ASSUME NEW set, IsFiniteSet(set), NEW of,
           of.offset \in Nat, of.limit \in Nat, of.limit # 0
    PROVE  {} \in Pages(set, of) <=> Cardinality(RoutesOf(set)) <= of.offset
<1> DEFINE R == RoutesOf(set)
<1>1. Cardinality({}) = 0 /\ Cardinality({}) <= of.limit
  BY FS_EmptySet
<1>2. IsFiniteSet(R) /\ Cardinality(R) \in Nat
  BY RoutesFinite
<1>3. ASSUME {} \in Pages(set, of) PROVE Cardinality(R) <= of.offset
  <2>1. PICK before \in SUBSET (R \ {}) :
           /\ Cardinality(before) <= of.offset
           /\ (R \ {}) \ before # {} => Cardinality({}) = of.limit
    BY <1>3 DEF Pages
  <2>2. before = R
    BY <1>1, <2>1
  <2> QED
    BY <2>1, <2>2
<1>4. ASSUME Cardinality(R) <= of.offset PROVE {} \in Pages(set, of)
  <2>1. R \ {} = R /\ R \ R = {} /\ {} \cup {} = {}
    OBVIOUS
  <2>2. \E before \in SUBSET (R \ {}) :
          LET after == (R \ {}) \ before
          IN  /\ \A q \in before, r \in {} \cup after : Hits(set, q) >= Hits(set, r)
              /\ \A q \in {}, r \in after : Hits(set, q) >= Hits(set, r)
              /\ Cardinality(before) <= of.offset
              /\ Cardinality({}) <= of.limit
              /\ {} \cup after # {} => Cardinality(before) = of.offset
              /\ after # {} => Cardinality({}) = of.limit
    <3> WITNESS R \in SUBSET (R \ {})
    <3> QED
      BY <1>1, <1>4, <2>1
  <2> HIDE DEF R
  <2>3. {} \in SUBSET R
    OBVIOUS
  <2> QED
    BY <2>2, <2>3 DEF Pages, R
<1> QED
  BY <1>3, <1>4

-----------------------------------------------------------------------------
(***************************************************************************)
(* Only the latest answer is of what is chosen now.                        *)
(***************************************************************************)
\* Is l the latest request for counts, or its answer?
Latest(l) == l.kind = "counts" /\ l.n # 0 /\ l.n = latest["counts"]

\* Its key and range are the selected ones, or its key was selected until a
\* list of keys did not offer it any more; such a list, unless it is of a
\* shorter range, may have read all events the counts have read.
OfSelection(l) ==
    /\ l.of.key # ""
    /\ \/ l.of.key = want.key /\ l.of.range = want.range
       \/ /\ want.key = "" /\ l.of.key \notin KeysOffered(lapse)
          /\ l.of.range <= lapse.of.range => l.steady \subseteq lapse.seen
    /\ \A k \in loads :
          k.kind = "keys" /\ l.of.range <= k.of.range => l.steady \subseteq k.seen

CountsInv ==
    "counts" \in panel =>
       /\ latest["counts"] = 0 => want.key = ""
       /\ \A l \in loads : /\ l.n # 0
                           /\ Latest(l) => OfSelection(l)
       /\ Latest(shown["counts"]) => OfSelection(shown["counts"])
       /\ shown["counts"].n = 0 => shown["counts"].got["counts"] = {}

EventInv ==
    "event" \in panel =>
       /\ \A l \in loads : /\ l.n # 0
                           /\ l.n = latest["event"] => l.of.id = want.id
       /\ LET l == shown["event"]
          IN  /\ l.got["row"] # {} => /\ aside.subtitle = l.got["row"]
                                      /\ aside.attributes = l.got["row"]
              /\ IF l.n = 0 THEN l.got["row"] = {} /\ l.steady = {}
                 ELSE l.n = latest["event"] => l.of.id = want.id

\* The page of routes that the controls select.
SamePage(of) ==
    /\ of.range = want.range /\ of.status = want.status
    /\ of.limit = want.limit /\ of.offset = want.offset

RoutesInv ==
    "routes" \in panel =>
       /\ \A l \in loads : /\ l.n # 0
                           /\ l.n = latest["routes"] => SamePage(l.of)
       /\ LET l == shown["routes"]
          IN  l.n # 0 /\ l.n = latest["routes"] =>
                 /\ SamePage(l.of)
                 /\ paging.prev <=> want.offset # 0
                 /\ paging.next <=> HasMore(l)

LatestInv == CountsInv /\ EventInv /\ RoutesInv

\* The panels are watched one at a time.
LEMMA OnePanel ==
    ASSUME panel \in Panels
    PROVE  /\ "counts" \in panel => panel = {"keys", "counts"}
           /\ "event" \in panel => panel = {"event"}
           /\ "routes" \in panel => panel = {"routes"}
  BY DEF Panels

\* The page asks for an event or for routes whenever it chooses others, and
\* for counts whenever it asks for keys, but for the first time.
AskAlong(kinds, w) ==
    /\ Ask(kinds, w)
    /\ "counts" \in panel => "counts" \in kinds \/ (asked = 0 /\ w = want)
    /\ "event" \in panel => "event" \in kinds
    /\ "routes" \in panel => "routes" \in kinds

LEMMA UserAsks ==
    ASSUME TypeOK, User
    PROVE  \E kinds, w : AskAlong(kinds, w)
<1>1. /\ "counts" \in panel => panel = {"keys", "counts"}
      /\ "event" \in panel => panel = {"event"}
      /\ "routes" \in panel => panel = {"routes"}
  BY OnePanel DEF TypeOK
<1>2. ASSUME NEW kinds, NEW w, Ask(kinds, w),
             "counts" \in kinds \/ "keys" \notin kinds \/ (asked = 0 /\ w = want)
      PROVE  \E ks, v : AskAlong(ks, v)
  <2>1. /\ "event" \in panel => "event" \in kinds
        /\ "routes" \in panel => "routes" \in kinds
    BY <1>1, <1>2, AskFacts
  <2>2. "counts" \in panel => "counts" \in kinds \/ "keys" \in kinds
    BY <1>1, <1>2, AskFacts
  <2> QED
    BY <1>2, <2>1, <2>2 DEF AskAlong
<1> QED
  BY <1>2 DEF User, Open, NextPage, PrevPage, ChangeStatus, ChangeRange,
     ChangeLimit, SelectKey, OpenEvent

\* The numbers of requests: those under way, drawn and latest are not new.
LEMMA Numbers ==
    ASSUME TypeOK
    PROVE  /\ asked \in Nat
           /\ \A l \in loads : l.n \in Nat /\ l.n <= asked
           /\ \A kind \in panel :
                 /\ shown[kind].n \in Nat /\ shown[kind].n <= asked
                 /\ latest[kind] \in Nat /\ latest[kind] <= asked
<1>1. /\ asked \in Nat /\ \A l \in loads : l.n \in 0..asked
      /\ \A kind \in panel : shown[kind].n \in 0..asked /\ latest[kind] \in 0..asked
  BY DEF TypeOK, LoadOK
<1> QED
  BY <1>1

\* A list of keys under way may have read every event in a range no longer
\* than its own.
LEMMA KeysReach ==
    ASSUME events \subseteq Event, now \in Nat, NEW k, UnderWay(k), k.kind = "keys", k.since \in Int,
           k.of \in Controls, NEW range \in Ranges, range <= k.of.range
    PROVE  InView(events, "counts", now - range) \subseteq k.seen
<1>1. range \in Nat /\ k.of.range \in Nat
  BY RangesAssumption DEF Controls
<1>2. k.since <= now - k.of.range
  BY DEF UnderWay, InTime, Reach
<1>3. k.since <= now - range
  BY <1>1, <1>2
<1>4. ASSUME NEW e \in events, e.created >= now - range PROVE e \in k.seen
  <2>1. e.created \in Int
    BY DatesAssumption DEF Event, EventOf
  <2>2. e.created >= k.since
    BY <1>1, <1>3, <1>4, <2>1
  <2>3. e \in Visible(k)
    BY <2>2 DEF Visible, InView
  <2> QED
    BY <2>3 DEF UnderWay, Between
<1> QED
  BY <1>4 DEF InView

LEMMA AskLatest ==
    ASSUME MQInv, LatestInv, NEW kinds, NEW w, AskAlong(kinds, w), w \in Controls
    PROVE  LatestInv'
<1> USE DEF MQInv, LatestInv, AskAlong
<1>1. /\ asked' = asked + 1 /\ want' = w
      /\ UNCHANGED <<events, now, panel, paging, lapse>>
      /\ asked \in Nat /\ asked' # 0
  BY AskFacts, Numbers
<1>2. ASSUME NEW l \in loads', NEW kind \in panel
      PROVE  /\ l \in loads => l.n # asked'
             /\ l \notin loads =>
                  /\ l.of = w /\ l.n = asked'
                  /\ l.steady = InView(events, l.kind, now - Reach(l.kind, w))
             /\ shown[kind].n # asked'
  <2>1. l \in loads => l.n # asked'
    BY <1>1, <1>2, Numbers
  <2>2. shown[kind].n # asked'
    BY <1>1, <1>2, Numbers
  <2>3. ASSUME NEW k, l = Load(k, w)
        PROVE  /\ l.of = w /\ l.n = asked'
               /\ l.steady = InView(events, l.kind, now - Reach(l.kind, w))
    BY <1>1, <2>3, LoadFields
  <2>4. l \notin loads => \E k \in panel \cap kinds : ~Cleared(k, w) /\ l = Load(k, w)
    BY <1>2, AskFacts
  <2> QED
    BY <2>1, <2>2, <2>3, <2>4
<1>3. CountsInv'
  <2> SUFFICES ASSUME "counts" \in panel PROVE CountsInv'
    BY <1>1 DEF CountsInv
  <2>1. \A l \in loads' : l.n # 0
    BY <1>1, <1>2 DEF CountsInv
  <2>2. CASE "counts" \in kinds /\ ~Cleared("counts", w)
    <3>1. latest'["counts"] = asked' /\ shown'["counts"] = shown["counts"]
      BY <2>2, AskFacts
    <3>2. w.key # "" /\ w.range \in Ranges
      BY <2>2 DEF Cleared, Controls
    <3>3. ASSUME NEW l \in loads', Latest(l)' PROVE OfSelection(l)'
      <4>1. l.n = asked' /\ l.kind = "counts"
        BY <3>1, <3>3 DEF Latest
      <4>2. l.of = w /\ l.steady = InView(events, "counts", now - w.range)
        BY <1>2, <4>1 DEF Reach
      <4>3. ASSUME NEW k \in loads', k.kind = "keys", l.of.range <= k.of.range
            PROVE  l.steady \subseteq k.seen
        <5>1. UnderWay(k) /\ LoadOK(k)'
          BY <4>3, AskFacts, AskType, NewUnderWay DEF ReadsInv, TypeOK
        <5>2. k.since \in Int /\ k.of \in Controls
          <6>1. Controls' = Controls
            BY SameTypes, AskFacts
          <6> QED
            BY <5>1, <6>1 DEF LoadOK
        <5>3. now \in Nat /\ events \subseteq Event
          BY DEF TypeOK
        <5> QED
          BY <3>2, <4>2, <4>3, <5>1, <5>2, <5>3, KeysReach
      <4> QED
        BY <1>1, <3>2, <4>2, <4>3 DEF OfSelection
    <3>4. ~Latest(shown["counts"])'
      BY <1>1, <3>1, Numbers DEF Latest
    <3>5. shown'["counts"].n = 0 => shown'["counts"].got["counts"] = {}
      BY <3>1 DEF CountsInv
    <3> QED
      BY <1>1, <2>1, <3>1, <3>3, <3>4, <3>5 DEF CountsInv
  <2>3. CASE "counts" \in kinds /\ Cleared("counts", w)
    <3>1. /\ latest'["counts"] = 0 /\ shown'["counts"] = Undrawn("counts")
          /\ w.key = ""
      BY <2>3, AskFacts DEF Cleared
    <3>2. \A l : ~Latest(l)'
      BY <3>1 DEF Latest
    <3>3. Undrawn("counts").got["counts"] = {}
      <4>1. Undrawn("counts").got = [part \in {"counts"} |-> {}]
        BY UndrawnFields, PartsFacts
      <4> QED
        BY <4>1
    <3> QED
      BY <1>1, <2>1, <3>1, <3>2, <3>3 DEF CountsInv
  <2>4. CASE "counts" \notin kinds
    <3>1. /\ latest'["counts"] = latest["counts"]
          /\ shown'["counts"] = shown["counts"] /\ w = want /\ asked = 0
      BY <2>4, AskFacts
    <3>2. latest["counts"] = 0
      BY <3>1, Numbers
    <3>3. \A l : ~Latest(l)'
      BY <3>1, <3>2 DEF Latest
    <3> QED
      BY <1>1, <2>1, <3>1, <3>2, <3>3 DEF CountsInv
  <2> QED
    BY <2>2, <2>3, <2>4
<1>4. EventInv'
  <2> SUFFICES ASSUME "event" \in panel PROVE EventInv'
    BY <1>1 DEF EventInv
  <2>1. /\ latest'["event"] = asked' /\ shown'["event"] = Undrawn("event")
    BY AskFacts DEF Cleared
  <2>2. ASSUME NEW l \in loads'
        PROVE  l.n # 0 /\ (l.n = asked' => l.of.id = w.id)
    <3>1. CASE l \in loads
      BY <1>2, <3>1 DEF EventInv
    <3>2. CASE l \notin loads
      BY <1>1, <1>2, <3>2
    <3> QED
      BY <3>1, <3>2
  <2>3. /\ Undrawn("event").n = 0 /\ Undrawn("event").steady = {}
        /\ Undrawn("event").got["row"] = {}
    <3>1. Undrawn("event").got = [part \in {"row"} |-> {}]
      BY UndrawnFields, PartsFacts
    <3> QED
      BY <3>1, UndrawnFields
  <2> QED
    BY <1>1, <2>1, <2>2, <2>3 DEF EventInv
<1>5. RoutesInv'
  <2> SUFFICES ASSUME "routes" \in panel PROVE RoutesInv'
    BY <1>1 DEF RoutesInv
  <2>1. latest'["routes"] = asked' /\ shown'["routes"] = shown["routes"]
    BY AskFacts DEF Cleared
  <2>2. ASSUME NEW l \in loads'
        PROVE  l.n # 0 /\ (l.n = asked' => SamePage(l.of)')
    <3>1. CASE l \in loads
      BY <1>2, <3>1 DEF RoutesInv
    <3>2. CASE l \notin loads
      BY <1>1, <1>2, <3>2 DEF SamePage
    <3> QED
      BY <3>1, <3>2
  <2>3. shown["routes"].n # asked'
    BY <1>1, Numbers
  <2> QED
    BY <1>1, <2>1, <2>2, <2>3 DEF RoutesInv
<1> QED
  BY <1>3, <1>4, <1>5

\* Requests go on, and nothing is drawn.
LEMMA QuietLatest ==
    ASSUME LatestInv, \A m \in loads' : \E l \in loads : GoesOn(l, m),
           UNCHANGED <<panel, want, shown, paging, aside, latest, lapse>>
    PROVE  LatestInv'
<1> USE DEF LatestInv
<1>1. CountsInv'
  <2> SUFFICES ASSUME "counts" \in panel PROVE CountsInv'
    BY DEF CountsInv
  <2>1. ASSUME NEW l, NEW m, OfSelection(l), m.of = l.of, m.steady \subseteq l.steady
        PROVE  OfSelection(m)'
    <3>1. ASSUME NEW k \in loads', k.kind = "keys", m.of.range <= k.of.range
          PROVE  m.steady \subseteq k.seen
      <4>1. PICK j \in loads : GoesOn(j, k)
        BY <3>1
      <4>2. j.kind = "keys" /\ j.of = k.of /\ j.seen \subseteq k.seen
        BY <3>1, <4>1 DEF GoesOn
      <4>3. l.steady \subseteq j.seen
        BY <2>1, <3>1, <4>1, <4>2 DEF OfSelection
      <4> QED
        BY <2>1, <4>2, <4>3
    <3> QED
      BY <2>1, <3>1 DEF OfSelection
  <2>2. ASSUME NEW m \in loads'
        PROVE  m.n # 0 /\ (Latest(m)' => OfSelection(m)')
    <3>1. PICK l \in loads : GoesOn(l, m)
      BY <2>2
    <3>2. l.n # 0 /\ (Latest(l) => OfSelection(l))
      BY <3>1 DEF CountsInv
    <3>3. Latest(m)' => Latest(l)
      BY <3>1 DEF GoesOn, Latest
    <3>4. m.n = l.n /\ m.of = l.of /\ m.steady \subseteq l.steady
      BY <3>1 DEF GoesOn
    <3> QED
      BY <2>1, <3>2, <3>3, <3>4
  <2>3. Latest(shown["counts"])' => OfSelection(shown["counts"])'
    BY <2>1 DEF CountsInv, Latest
  <2> QED
    BY <2>2, <2>3 DEF CountsInv
<1>2. EventInv'
  <2> SUFFICES ASSUME "event" \in panel PROVE EventInv'
    BY DEF EventInv
  <2>1. ASSUME NEW m \in loads'
        PROVE  m.n # 0 /\ (m.n = latest["event"] => m.of.id = want.id)
    <3>1. PICK l \in loads : GoesOn(l, m)
      BY <2>1
    <3> QED
      BY <3>1 DEF EventInv, GoesOn
  <2> QED
    BY <2>1 DEF EventInv
<1>3. RoutesInv'
  <2> SUFFICES ASSUME "routes" \in panel PROVE RoutesInv'
    BY DEF RoutesInv
  <2>1. ASSUME NEW m \in loads'
        PROVE  m.n # 0 /\ (m.n = latest["routes"] => SamePage(m.of))
    <3>1. PICK l \in loads : GoesOn(l, m)
      BY <2>1
    <3> QED
      BY <3>1 DEF RoutesInv, GoesOn
  <2> QED
    BY <2>1 DEF RoutesInv, SamePage
<1> QED
  BY <1>1, <1>2, <1>3

\* Request l is answered or fails; x is drawn, which has its number.
LEMMA DrawnLatest ==
    ASSUME MQInv, LatestInv, NEW l \in loads, NEW x, GoesOn(l, x),
           loads' = loads \ {l}, shown' = [shown EXCEPT ![l.kind] = x],
           panel' = panel, latest' = latest, want'.id = want.id,
           latest["counts"] = 0 /\ want.key = "" => want'.key = "",
           l.kind = "routes" => /\ want' = want /\ x.of = l.of
                                /\ paging'.prev <=> want.offset # 0
                                /\ paging'.next <=> HasMore(x),
           l.kind = "event" /\ x.got["row"] # {} =>
              aside' = [subtitle |-> x.got["row"], attributes |-> x.got["row"]],
           \A m : OfSelection(m) => OfSelection(m)'
    PROVE  LatestInv'
<1> USE DEF MQInv, LatestInv
<1>1. \A kind \in panel : shown'[kind] = IF kind = l.kind THEN x ELSE shown[kind]
  BY DEF TypeOK
<1>2. x.kind = l.kind /\ x.n = l.n /\ x.of = l.of /\ x.steady \subseteq l.steady
  BY DEF GoesOn
<1>3. l.kind \in panel
  BY DEF TypeOK
<1>4. CountsInv'
  <2> SUFFICES ASSUME "counts" \in panel PROVE CountsInv'
    BY DEF CountsInv
  <2>1. \A m \in loads : m.n # 0 /\ (Latest(m) => OfSelection(m))
    BY DEF CountsInv
  <2>2. \A m : Latest(m)' <=> Latest(m)
    BY DEF Latest
  <2>3. \A m \in loads' : m.n # 0 /\ (Latest(m)' => OfSelection(m)')
    BY <2>1, <2>2
  <2>4. CASE l.kind = "counts"
    <3>1. shown'["counts"] = x /\ x.n # 0
      BY <1>1, <1>2, <2>1, <2>4
    <3>2. Latest(x) => OfSelection(x)
      <4>1. Latest(x) => Latest(l)
        BY <1>2 DEF Latest
      <4>2. OfSelection(l) => OfSelection(x)
        BY <1>2 DEF OfSelection
      <4> QED
        BY <2>1, <4>1, <4>2
    <3>3. Latest(x)' => OfSelection(x)'
      BY <2>2, <3>2
    <3> QED
      BY <2>3, <3>1, <3>3 DEF CountsInv, Latest, OfSelection
  <2>5. CASE l.kind # "counts"
    <3>1. shown'["counts"] = shown["counts"]
      BY <1>1, <2>5
    <3>2. PICK c : c = shown["counts"]
      OBVIOUS
    <3>3. Latest(c)' => OfSelection(c)'
      BY <2>2, <3>2 DEF CountsInv
    <3> QED
      BY <2>3, <3>1, <3>2, <3>3 DEF CountsInv, Latest, OfSelection
  <2> QED
    BY <2>4, <2>5
<1>5. EventInv'
  <2> SUFFICES ASSUME "event" \in panel PROVE EventInv'
    BY DEF EventInv
  <2>1. panel = {"event"}
    BY DEF TypeOK, Panels
  <2>2. shown'["event"] = x
    BY <1>1, <1>3, <2>1
  <2>4. l.kind = "event"
    BY <1>3, <2>1
  <2>5. ASSUME x.got["row"] # {}
        PROVE  aside'.subtitle = x.got["row"] /\ aside'.attributes = x.got["row"]
    <3>1. aside' = [subtitle |-> x.got["row"], attributes |-> x.got["row"]]
      BY <2>4, <2>5
    <3> HIDE DEF MQInv, LatestInv
    <3> QED
      BY <3>1
  <2>6. \A m \in loads : m.n # 0 /\ (m.n = latest["event"] => m.of.id = want.id)
    BY DEF EventInv
  <2>7. x.n # 0 /\ (x.n = latest["event"] => x.of.id = want.id)
    BY <1>2, <2>6
  <2> QED
    BY <2>2, <2>5, <2>6, <2>7 DEF EventInv
<1>6. RoutesInv'
  <2> SUFFICES ASSUME "routes" \in panel PROVE RoutesInv'
    BY DEF RoutesInv
  <2>1. l.kind = "routes"
    BY <1>3, OnePanel DEF TypeOK
  <2>2. shown'["routes"] = x /\ want' = want
    BY <1>1, <1>3, <2>1
  <2>3. \A m \in loads : m.n # 0 /\ (m.n = latest["routes"] => SamePage(m.of))
    BY DEF RoutesInv
  <2>4. \A of : SamePage(of)' <=> SamePage(of)
    BY <2>2 DEF SamePage
  <2>5. x.n # 0 /\ (x.n = latest["routes"] => SamePage(x.of))
    BY <1>2, <2>3
  <2>6. HasMore(shown["routes"])' <=> HasMore(x)
    BY <2>2 DEF HasMore
  <2>7. (paging'.prev <=> want.offset # 0) /\ (paging'.next <=> HasMore(x))
    BY <2>1
  <2> QED
    BY <2>2, <2>3, <2>4, <2>5, <2>6, <2>7 DEF RoutesInv
<1> QED
  BY <1>4, <1>5, <1>6

\* The counts of a key that a list of keys does not offer any more are those
\* of a selection that has lapsed.
LEMMA DrawSelection ==
    ASSUME want \in Controls, NEW l \in loads, Draw(l), NEW m, OfSelection(m)
    PROVE  OfSelection(m)'
<1>1. /\ m.of.key # ""
      /\ \A k \in loads' : k.kind = "keys" /\ m.of.range <= k.of.range =>
            m.steady \subseteq k.seen
  BY DEF Draw, OfSelection
<1>2. CASE l.kind = "keys" /\ want.key \notin KeysOffered(l) \cup {""}
  <2>1. lapse' = l /\ want' = [want EXCEPT !.key = ""]
    BY <1>2 DEF Draw
  <2>2. want'.key = ""
    BY <2>1 DEF Controls
  <2>3. /\ m.of.key = want.key
        /\ m.of.range <= l.of.range => m.steady \subseteq l.seen
    BY <1>2 DEF OfSelection
  <2>4. KeysOffered(lapse)' = KeysOffered(l)
    BY <2>1 DEF KeysOffered
  <2> QED
    BY <1>1, <1>2, <2>1, <2>2, <2>3, <2>4 DEF OfSelection
<1>3. CASE ~(l.kind = "keys" /\ want.key \notin KeysOffered(l) \cup {""})
  <2>1. lapse' = lapse /\ (want' = want \/ want' = [want EXCEPT !.key = ""])
    BY <1>3 DEF Draw
  <2>2. want'.key = want.key /\ want'.range = want.range
    BY <1>3 DEF Draw, Controls
  <2>3. KeysOffered(lapse)' = KeysOffered(lapse)
    BY <2>1 DEF KeysOffered
  <2> QED
    BY <1>1, <2>1, <2>2, <2>3 DEF OfSelection
<1> QED
  BY <1>2, <1>3

LEMMA LatestStep ==
    ASSUME MQInv, LatestInv, [Next]_vars
    PROVE  LatestInv'
<1>1. CASE User
  <2>1. PICK kinds, w : AskAlong(kinds, w)
    BY <1>1, UserAsks DEF MQInv
  <2>2. w \in Controls
    <3>1. w = want' /\ lastId' = lastId
      BY <2>1, AskFacts DEF AskAlong
    <3> QED
      BY <1>1, <3>1, UserType, SameTypes DEF MQInv, TypeOK
  <2> QED
    BY <2>1, <2>2, AskLatest
<1>2. ASSUME NEW l \in loads, NEW part \in Parts[l.kind], Read(l, part)
      PROVE  LatestInv'
  <2>1. InOrder(l) /\ TypeOK
    BY DEF MQInv, ReadsInv, UnderWay
  <2>2. PICK m : Step(l, part, m) /\ loads' = (loads \ {l}) \cup {m}
    BY <1>2, <2>1, ReadFacts
  <2>3. UNCHANGED <<panel, want, shown, paging, aside, latest, lapse>>
    BY <1>2 DEF Read
  <2>4. \A x \in loads' : \E y \in loads : GoesOn(y, x)
    BY <2>2 DEF Step, GoesOn
  <2> QED
    BY <2>3, <2>4, QuietLatest
<1>3. ASSUME NEW l \in loads, Draw(l) PROVE LatestInv'
  <2>1. want \in Controls
    BY DEF MQInv, TypeOK
  <2>2. GoesOn(l, l)
    BY DEF GoesOn
  <2>3. \A m : OfSelection(m) => OfSelection(m)'
    BY <1>3, <2>1, DrawSelection
  <2>4. /\ loads' = loads \ {l} /\ shown' = [shown EXCEPT ![l.kind] = l]
        /\ panel' = panel /\ latest' = latest
        /\ want' = want \/ (l.kind = "keys" /\ want' = [want EXCEPT !.key = ""])
    BY <1>3 DEF Draw
  <2>6. l.kind = "routes" =>
           /\ want' = want
           /\ paging'.prev <=> want.offset # 0
           /\ paging'.next <=> HasMore(l)
    BY <1>3 DEF Draw
  <2>7. l.kind = "event" /\ l.got["row"] # {} =>
           aside' = [subtitle |-> l.got["row"], attributes |-> l.got["row"]]
    BY <1>3 DEF Draw
  <2>5. want'.id = want.id /\ (want.key = "" => want'.key = "")
    BY <2>1, <2>4 DEF Controls
  <2> QED
    BY <2>2, <2>3, <2>4, <2>5, <2>6, <2>7, DrawnLatest
<1>4. ASSUME NEW l \in loads, Fail(l) PROVE LatestInv'
  <2> DEFINE failed == [l EXCEPT !.got = [p \in Parts[l.kind] |-> {}]]
  <2>1. /\ loads' = loads \ {l}
        /\ \/ shown' = shown
           \/ /\ shown' = [shown EXCEPT ![l.kind] = failed]
              /\ l.kind \in {"counts", "event"}
        /\ UNCHANGED <<panel, want, paging, aside, latest, lapse>>
    BY <1>4 DEF Fail
  <2>2. GoesOn(l, failed) /\ (l.kind = "event" => failed.got["row"] = {})
    <3>1. LoadOK(l)
      BY DEF MQInv, TypeOK
    <3>2. failed.got = [p \in Parts[l.kind] |-> {}]
      BY <3>1 DEF LoadOK
    <3>3. l.kind = "event" => failed.got["row"] = {}
      BY <3>2, PartsFacts
    <3> QED
      BY <3>1, <3>3 DEF LoadOK, GoesOn
  <2> HIDE DEF failed
  <2>3. \A x \in loads' : \E y \in loads : GoesOn(y, x)
    BY <2>1 DEF GoesOn
  <2>4. \A m : OfSelection(m) => OfSelection(m)'
    BY <2>1 DEF OfSelection, KeysOffered
  <2>5. CASE shown' = shown
    BY <2>1, <2>3, <2>5, QuietLatest
  <2>6. CASE shown' = [shown EXCEPT ![l.kind] = failed] /\ l.kind \in {"counts", "event"}
    BY <2>1, <2>2, <2>4, <2>6, DrawnLatest
  <2> QED
    BY <2>1, <2>5, <2>6
<1>5. CASE \/ \E kind \in panel : \E batch \in Batches[kind] : Arrive(batch)
           \/ \E e \in events : Leave(e)
           \/ Tick
  <2>1. \A x \in loads' : \E l \in loads : GoesOn(l, x)
    BY <1>5, TableSteps, FollowOne
  <2> QED
    BY <1>5, <2>1, TableSteps, QuietLatest
<1>7. CASE UNCHANGED vars
  <2>1. \A m \in loads' : \E l \in loads : GoesOn(l, m)
    BY <1>7 DEF vars, GoesOn
  <2> QED
    BY <1>7, <2>1, QuietLatest DEF vars
<1> QED
  BY <1>1, <1>2, <1>3, <1>4, <1>5, <1>7 DEF Next

LEMMA LatestInvariant == Spec => []LatestInv
<1>1. Init => LatestInv
  <2> SUFFICES ASSUME Init PROVE LatestInv
    OBVIOUS
  <2>1. /\ panel \in Panels /\ loads = {} /\ events = {}
        /\ want.key = ""
        /\ \A kind \in panel : shown[kind] = Undrawn(kind) /\ latest[kind] = 0
    BY DEF Init
  <2>2. \A l : "counts" \in panel => ~Latest(l)
    BY <2>1 DEF Latest
  <2>3. Undrawn("counts").got["counts"] = {}
    <3>1. Undrawn("counts").got = [part \in {"counts"} |-> {}]
      BY UndrawnFields, PartsFacts
    <3> QED
      BY <3>1
  <2>4. Undrawn("event").got["row"] = {}
    <3>1. Undrawn("event").got = [part \in {"row"} |-> {}]
      BY UndrawnFields, PartsFacts
    <3> QED
      BY <3>1
  <2>5. Undrawn("event").n = 0 /\ Undrawn("event").steady = {}
    BY <2>1, UndrawnFields
  <2>6. CountsInv
    BY <2>1, <2>2, <2>3 DEF CountsInv
  <2>7. EventInv
    BY <2>1, <2>4, <2>5 DEF EventInv
  <2>8. RoutesInv
    <3>1. Undrawn("routes").n = 0
      BY UndrawnFields
    <3> QED
      BY <2>1, <3>1 DEF RoutesInv
  <2> QED
    BY <2>6, <2>7, <2>8 DEF LatestInv
<1> QED
  BY <1>1, LatestStep, MQInvariant, PTL DEF Spec

\* Once the latest page of routes asked for is drawn, in whatever order the
\* answers came, it is the page the controls select, and the buttons lead from
\* it: Prev unless it is the first page, Next exactly if the page after it has
\* a route on it, of those the handler counted (metrics.go:233,
\* metrics.html:951-989).
THEOREM PagingAlwaysFollowsControls == Spec => []PagingFollowsControls
<1>1. MQInv /\ LatestInv => PagingFollowsControls
  <2> SUFFICES ASSUME MQInv, LatestInv, "routes" \in panel,
                      NEW l, l = shown["routes"], l.n # 0, l.n = latest["routes"],
                      NEW next, next = [want EXCEPT !.offset = @ + want.limit]
               PROVE  /\ <<l.of.range, l.of.status, l.of.limit, l.of.offset>> =
                            <<want.range, want.status, want.limit, want.offset>>
                      /\ paging.prev <=> want.offset # 0
                      /\ paging.next <=> {} \notin Pages(l.got.count, next)
    BY DEF PagingFollowsControls
  <2>1. /\ SamePage(l.of) /\ (paging.prev <=> want.offset # 0)
        /\ paging.next <=> HasMore(l)
    BY DEF LatestInv, RoutesInv
  <2>2. IsFiniteSet(l.got["count"])
    BY PartsFacts, DrawnFacts
  <2>3. want \in Controls
    BY DEF MQInv, TypeOK
  <2>4. want.limit \in Nat /\ want.limit # 0 /\ want.offset \in Nat
    BY <2>3, ControlsFacts
  <2>5. next.offset = want.offset + want.limit /\ next.limit = want.limit
    BY <2>3 DEF Controls
  <2>6. next.offset \in Nat /\ next.limit \in Nat /\ next.limit # 0
    BY <2>4, <2>5
  <2>7. {} \in Pages(l.got.count, next) <=>
           Cardinality(RoutesOf(l.got.count)) <= next.offset
    BY <2>2, <2>6, EmptyPage
  <2>8. Cardinality(RoutesOf(l.got.count)) \in Nat
    BY <2>2, RoutesFinite
  <2>9. HasMore(l) <=> ~(Cardinality(RoutesOf(l.got.count)) <= next.offset)
    BY <2>1, <2>4, <2>5, <2>8 DEF HasMore, SamePage
  <2> QED
    BY <2>1, <2>7, <2>9 DEF SamePage
<1> QED
  BY <1>1, MQInvariant, LatestInvariant, PTL

\* Once the latest counts are drawn they are of the selected attribute and
\* range.  A selection that has lapsed, because a list of keys did not offer
\* the key any more, leaves no counts behind, but of events that came or went
\* while that list or the counts were under way; unless the list is a late one
\* of a shorter range (metrics.html:714-724, 1047-1090, metrics.go:437, 533).
THEOREM BreakdownAlwaysOfSelection == Spec => []BreakdownOfSelection
<1>1. MQInv /\ LatestInv => BreakdownOfSelection
  <2> SUFFICES ASSUME MQInv, LatestInv, "counts" \in panel,
                      NEW l, l = shown["counts"], l.n = latest["counts"]
               PROVE  /\ want.key # "" =>
                            l.of.key = want.key /\ l.of.range = want.range
                      /\ want.key = "" /\ l.of.range <= lapse.of.range =>
                            l.got.counts \subseteq Moving(l) \cup Moving(lapse)
    BY DEF BreakdownOfSelection
  <2>1. /\ l.kind = "counts" /\ DOMAIN l.got = {"counts"} /\ Sound(l)
        /\ l.got["counts"] \subseteq l.seen
    BY PartsFacts DEF MQInv, TypeOK, ReadsInv, DrawnInv, LoadOK
  <2>2. CASE l.n = 0
    BY <2>2 DEF LatestInv, CountsInv
  <2>3. CASE l.n # 0
    <3>1. OfSelection(l)
      BY <2>1, <2>3 DEF LatestInv, CountsInv, Latest
    <3>2. ASSUME want.key = "", l.of.range <= lapse.of.range,
                 NEW e \in l.got["counts"], e \notin Moving(l)
          PROVE  e \in Moving(lapse)
      <4>1. l.of.key \notin KeysOffered(lapse) /\ l.steady \subseteq lapse.seen
        BY <3>1, <3>2 DEF OfSelection
      <4>2. e \in lapse.seen
        BY <2>1, <3>2, <4>1 DEF Moving
      <4>3. e.mine /\ l.of.key \in e.keys
        BY <2>1, <3>2 DEF Sound, Meets
      <4>4. /\ lapse.kind = "keys" /\ "keys" \in DOMAIN lapse.got /\ Whole(lapse)
        BY DEF MQInv, TypeOK, ReadsInv
      <4>5. Meets(lapse, "keys", e)
        BY <4>3, <4>4 DEF Meets
      <4>6. e \notin lapse.got["keys"]
        BY <4>1, <4>3 DEF KeysOffered
      <4> QED
        BY <4>2, <4>4, <4>5, <4>6 DEF Whole, Moving
    <3> QED
      BY <3>1, <3>2 DEF OfSelection
  <2> QED
    BY <2>2, <2>3
<1> QED
  BY <1>1, MQInvariant, LatestInvariant, PTL

\* The overlay never mixes two events: while an event's fields are shown, the
\* subtitle and the attributes are of the same one.  Once the latest answer is
\* drawn it is the event that was opened, the user's own, or a failure is
\* reported; and for an event that was there all the while one is reported
\* only if the request failed (metrics.html:1267-1354, event_detail.go:41-57).
THEOREM EventAlwaysTheOneOpened == Spec => []EventIsTheOneOpened
<1>1. MQInv /\ LatestInv => EventIsTheOneOpened
  <2>3. MQInv /\ LatestInv /\ "event" \in panel =>
           LET l == shown["event"]
           IN  l.got.row # {} => /\ aside.subtitle = l.got.row
                                 /\ aside.attributes = l.got.row
    BY DEF LatestInv, EventInv
  <2> SUFFICES ASSUME MQInv, LatestInv, "event" \in panel,
                      NEW l, l = shown["event"], l.n = latest["event"]
               PROVE  /\ \A e \in l.got.row : e.mine /\ e.id = want.id
                      /\ l.got.row = {} /\ faults = 0 =>
                            \A e \in l.steady : e.mine => e.id # want.id
    BY <2>3 DEF EventIsTheOneOpened
  <2>1. CASE l.n = 0
    BY <2>1 DEF LatestInv, EventInv
  <2>2. CASE l.n # 0
    <3>1. /\ l.kind = "event" /\ "row" \in DOMAIN l.got /\ Sound(l)
          /\ faults = 0 => Whole(l)
      BY PartsFacts DEF MQInv, TypeOK, ReadsInv, DrawnInv, Answered
    <3>2. l.of.id = want.id
      BY <2>2 DEF LatestInv, EventInv
    <3>3. \A e : Meets(l, "row", e) <=> e.mine /\ e.id = want.id
      BY <3>1, <3>2 DEF Meets
    <3> QED
      BY <3>1, <3>3 DEF Sound, Whole
  <2> QED
    BY <2>1, <2>2
<1> QED
  BY <1>1, MQInvariant, LatestInvariant, PTL
=============================================================================
