------------------------- MODULE RecentPanelProofs -------------------------
(***************************************************************************)
(* Proofs about RecentPanel, for any number of requests under way, any     *)
(* choices of page size and filter, and any bounds: the types, the paging  *)
(* buttons, what a patient user is shown, and that a walk from page 1 by   *)
(* Next skips no more than what its failed requests were for.              *)
(***************************************************************************)
EXTENDS RecentPanel, FiniteSetTheorems, TLAPS

LEMMA DivMod ==
    ASSUME NEW a \in Int, NEW n \in Nat, n # 0
    PROVE  /\ a \div n \in Int /\ a % n \in Int
           /\ 0 <= a % n /\ a % n < n
           /\ a = n * (a \div n) + (a % n)
  OBVIOUS

LEMMA MultipleMod ==
    ASSUME NEW k \in Int, NEW n \in Nat, n # 0
    PROVE  (n * k) % n = 0
<1> DEFINE j == (n * k) \div n
           m == (n * k) % n
<1>1. n * k \in Int
  OBVIOUS
<1>2. j \in Int /\ m \in Int /\ 0 <= m /\ m < n /\ n * k = n * j + m
  BY <1>1, DivMod
<1> HIDE DEF j, m
<1>3. n * (k - j) = m
  <2>1. n * (k - j) = n * k - n * j
    BY <1>2
  <2> QED
    BY <1>1, <1>2, <2>1
<1>4. k = j
  <2>1. ASSUME k - j >= 1 PROVE n * (k - j) >= n
    BY <1>2, <2>1
  <2>2. ASSUME k - j <= -1 PROVE n * (k - j) <= -n
    BY <1>2, <2>2
  <2> QED
    BY <1>2, <1>3, <2>1, <2>2
<1> QED
  BY <1>2, <1>3, <1>4 DEF m

\* Turning a page leads from the offset of a page to that of another.
LEMMA PageTurns ==
    ASSUME NEW o \in Nat, NEW n \in Nat, n # 0, o % n = 0
    PROVE  (o + n) % n = 0 /\ (o - n) % n = 0
<1> DEFINE q == o \div n
<1>1. q \in Int /\ o = n * q + (o % n)
  BY DivMod
<1> HIDE DEF q
<1>2. n * q \in Int /\ o = n * q
  BY <1>1
<1>3. o + n = n * (q + 1) /\ o - n = n * (q - 1)
  BY <1>1, <1>2
<1> QED
  BY <1>1, <1>3, MultipleMod
-----------------------------------------------------------------------------
\* The rows of the table are finitely many, so that they can be counted.
Inv == TypeOK /\ IsFiniteSet(events)

LEMMA PageFacts ==
    ASSUME NEW p \in Page
    PROVE  p.limit \in Nat \ {0} /\ p.offset \in Nat
  BY LimitAssumption DEF Page

LEMMA SentType ==
    ASSUME NEW p \in Page
    PROVE  /\ NoRequest(p) \in Request
           /\ [NoRequest(p) EXCEPT !.pc = "sent"] \in Request
  BY DEF NoRequest, Request

LEMMA SendType ==
    ASSUME TypeOK, NEW p \in Page, Send(p)
    PROVE  fetch' \in [Slots -> Request]
  BY SentType DEF Send, TypeOK

LEMMA FirstPageType == FirstPage \in Page /\ FirstPage.offset % FirstPage.limit = 0
<1>1. FirstPage \in Page
  BY LimitAssumption, FilterAssumption DEF FirstPage, Page
<1>2. DefaultLimit \in Nat /\ DefaultLimit # 0
  BY LimitAssumption
<1>3. 0 = DefaultLimit * 0
  BY <1>2
<1>4. 0 % DefaultLimit = 0
  BY <1>2, <1>3, MultipleMod
<1> QED
  BY <1>1, <1>4 DEF FirstPage

LEMMA OwedType ==
    ASSUME TypeOK, NEW times, NoLongerOwed(times)
    PROVE  fetch' \in [Slots -> Request]
<1>1. ASSUME NEW f \in Slots
      PROVE  [fetch[f] EXCEPT !.owed = {d \in @ : d.created \notin times}]
                \in Request
  BY DEF TypeOK, Request
<1> QED
  BY <1>1 DEF NoLongerOwed

\* The shape of the state: the panel's offset is always that of a page of its
\* present size (metrics.html:1208, 1219, 1233, 1258).
LEMMA InvStep ==
    ASSUME Inv, [Next]_vars
    PROVE  Inv'
<1> USE DEF Inv
<1>1. /\ want \in Page /\ want.limit \in Nat \ {0} /\ want.offset \in Nat
      /\ want.offset % want.limit = 0
  BY PageFacts DEF TypeOK
<1>2. \A n \in Limits : n \in Nat \ {0} /\ 0 % n = 0
  <2>1. ASSUME NEW n \in Limits PROVE n \in Nat /\ n # 0 /\ 0 = n * 0
    BY LimitAssumption
  <2> QED
    BY <2>1, MultipleMod
<1>3. ASSUME NEW ids \in SUBSET unused, NEW created \in [ids -> Times],
             NEW error \in [ids -> Kinds], Store(ids, created, error)
      PROVE  Inv'
  <2> DEFINE batch == {[id |-> i, created |-> created[i], error |-> error[i]] :
                          i \in ids}
  <2>1. batch \subseteq Event /\ ids \subseteq Ids
    BY DEF TypeOK, Event
  <2>2. IsFiniteSet(batch)
    <3>1. IsFiniteSet(ids)
      BY <2>1, EventAssumption, FS_Subset
    <3> DEFINE g == [i \in ids |->
                       [id |-> i, created |-> created[i], error |-> error[i]]]
    <3>2. g \in Surjection(ids, batch)
      BY DEF Surjection
    <3> QED
      BY <3>1, <3>2, FS_Surjection
  <2>3. events' = events \cup batch /\ unused' \subseteq unused
    BY <1>3 DEF Store
  <2> HIDE DEF batch
  <2>4. events' \subseteq Event /\ IsFiniteSet(events')
    BY <2>1, <2>2, <2>3, FS_Union DEF TypeOK
  <2>5. fetch' \in [Slots -> Request]
    <3>1. NoLongerOwed({created[i] : i \in ids})
      BY <1>3 DEF Store
    <3> QED
      BY <3>1, OwedType
  <2> QED
    BY <1>3, <2>3, <2>4, <2>5 DEF Store, TypeOK
<1>4. ASSUME NEW gone \in SUBSET events, Expire(gone) PROVE Inv'
  <2>1. events' \subseteq events /\ IsFiniteSet(events')
    BY <1>4, FS_Subset DEF Expire
  <2>2. fetch' \in [Slots -> Request]
    <3>1. NoLongerOwed({t \in Times : \E e \in gone : t <= e.created})
      BY <1>4 DEF Expire
    <3> QED
      BY <3>1, OwedType
  <2> QED
    BY <1>4, <2>1, <2>2 DEF Expire, TypeOK
<1>5. ASSUME NEW f \in Slots, CountEvents(f) PROVE Inv'
  <2>1. Cardinality(Matching(fetch[f].of.status)) \in Nat
    BY FS_Subset, FS_CardinalityType DEF Matching
  <2>2. fetch' \in [Slots -> Request]
    BY <1>5, <2>1 DEF CountEvents, TypeOK, Request
  <2> QED
    BY <1>5, <2>2 DEF CountEvents, TypeOK
<1>6. ASSUME NEW f \in Slots, FindEvents(f) PROVE Inv'
  <2> DEFINE set == Matching(fetch[f].of.status)
             owed == Owed(fetch[f].of, set)
  <2>1. PICK rows \in PagesOf(set, fetch[f].of) :
           fetch' = [fetch EXCEPT ![f].pc = "answered", ![f].rows = rows,
                                  ![f].owed = owed]
    BY <1>6 DEF FindEvents
  <2>2. rows \subseteq Event /\ owed \subseteq Event
    BY DEF Matching, PagesOf, Owed, TypeOK
  <2> HIDE DEF set, owed
  <2>3. fetch' \in [Slots -> Request]
    BY <2>1, <2>2 DEF TypeOK, Request
  <2> QED
    BY <1>6, <2>3 DEF FindEvents, TypeOK
<1>7. ASSUME NEW f \in Slots, Draw(f) PROVE Inv'
  <2>1. fetch[f] \in Request /\ fetch[f].of \in Page
        /\ fetch[f].of.limit \in Nat \ {0}
    BY PageFacts DEF TypeOK, Request
  <2>2. (want.offset \div fetch[f].of.limit) + 1 \in Nat \ {0}
    BY <1>1, <2>1
  <2>3. shown' \in [of : Page, rows : SUBSET Event, page : Nat \ {0}]
    BY <1>7, <2>1, <2>2 DEF Draw, Request
  <2>4. fetch' \in [Slots -> Request]
    BY <1>7, SentType, FirstPageType DEF Draw, TypeOK
  <2>5. prev' \in BOOLEAN /\ next' \in BOOLEAN
    BY <1>7 DEF Draw
  <2> QED
    BY <1>7, <2>3, <2>4, <2>5 DEF Draw, TypeOK
<1>8. ASSUME NEW f \in Slots, FetchFails(f) PROVE Inv'
  <2>1. fetch' \in [Slots -> Request]
    BY <1>8, SentType, FirstPageType DEF FetchFails, TypeOK
  <2>2. faults' \in 0..MaxFaults
    BY <1>8, ModeAssumption DEF FetchFails, TypeOK
  <2> QED
    BY <1>8, <2>1, <2>2 DEF FetchFails, TypeOK
<1>9. ASSUME NEW n \in Limits, ChangeLimit(n) PROVE Inv'
  <2>1. want' \in Page /\ want'.offset % want'.limit = 0
    BY <1>1, <1>2, <1>9 DEF ChangeLimit, Page
  <2>2. fetch' \in [Slots -> Request]
    BY <1>9, <2>1, SendType DEF ChangeLimit
  <2> QED
    BY <1>9, <2>1, <2>2 DEF ChangeLimit, TypeOK
<1>10. ASSUME NEW s \in Filters, ChangeFilter(s) PROVE Inv'
  <2>1. want' \in Page /\ want'.offset % want'.limit = 0
    BY <1>1, <1>10 DEF ChangeFilter, Page
  <2>2. fetch' \in [Slots -> Request]
    BY <1>10, <2>1, SendType DEF ChangeFilter
  <2> QED
    BY <1>10, <2>1, <2>2 DEF ChangeFilter, TypeOK
<1>11. CASE ClickPrev
  <2>1. 0 % want.limit = 0 /\ (want.offset - want.limit) % want.limit = 0
    BY <1>1, <1>2, PageTurns DEF Page
  <2>2. want' \in Page /\ want'.offset % want'.limit = 0
    <3>1. CASE want.offset > want.limit
      BY <1>1, <1>11, <2>1, <3>1 DEF ClickPrev, Page
    <3>2. CASE ~(want.offset > want.limit)
      BY <1>1, <1>11, <2>1, <3>2 DEF ClickPrev, Page
    <3> QED
      BY <3>1, <3>2
  <2>3. fetch' \in [Slots -> Request]
    BY <1>11, <2>2, SendType DEF ClickPrev
  <2> QED
    BY <1>11, <2>2, <2>3 DEF ClickPrev, TypeOK
<1>12. CASE ClickNext
  <2>1. (want.offset + want.limit) % want.limit = 0
    BY <1>1, PageTurns
  <2>2. want' \in Page /\ want'.offset % want'.limit = 0
    BY <1>1, <1>12, <2>1 DEF ClickNext, Page
  <2>3. fetch' \in [Slots -> Request]
    BY <1>12, <2>2, SendType DEF ClickNext
  <2> QED
    BY <1>12, <2>2, <2>3 DEF ClickNext, TypeOK
<1>13. CASE StartStream
  <2>1. want' \in Page /\ want'.offset % want'.limit = 0
    BY <1>1, <1>2, <1>13 DEF StartStream, Page
  <2>2. fetch' \in [Slots -> Request]
    BY <1>13, <2>1, SendType DEF StartStream
  <2> QED
    BY <1>13, <2>1, <2>2 DEF StartStream, TypeOK
<1>14. CASE StopStream
  <2>1. fetch' \in [Slots -> Request]
    BY <1>1, <1>14, SendType DEF StopStream
  <2> QED
    BY <1>14, <2>1 DEF StopStream, TypeOK
<1>15. CASE Poll
  <2>1. fetch' \in [Slots -> Request]
    BY <1>1, <1>15, SendType DEF Poll
  <2> QED
    BY <1>15, <2>1 DEF Poll, TypeOK
<1>16. CASE UNCHANGED vars
  BY <1>16 DEF vars, TypeOK
<1> QED
  BY <1>3, <1>4, <1>5, <1>6, <1>7, <1>8, <1>9, <1>10, <1>11, <1>12, <1>13,
     <1>14, <1>15, <1>16
  DEF Next, Server, User

LEMMA InvInit == Init => Inv
<1> SUFFICES ASSUME Init PROVE Inv
  OBVIOUS
<1>1. fetch \in [Slots -> Request]
  BY SentType, FirstPageType DEF Init
<1>2. IsFiniteSet(events)
  BY FS_EmptySet DEF Init
<1>3. shown \in [of : Page, rows : SUBSET Event, page : Nat \ {0}]
  BY FirstPageType DEF Init
<1>4. unused \subseteq Ids /\ faults \in 0..MaxFaults
  BY ModeAssumption DEF Init
<1> QED
  BY <1>1, <1>2, <1>3, <1>4, FirstPageType DEF Init, Inv, TypeOK

LEMMA Invariant == Spec => []Inv
  BY InvInit, InvStep, PTL DEF Spec

\* The shape of the state.
THEOREM TypeCorrect == Spec => []TypeOK
  BY Invariant, PTL DEF Inv
-----------------------------------------------------------------------------
(***************************************************************************)
(* The paging buttons.                                                     *)
(***************************************************************************)
\* What the steps of the server and of requests leave alone.
LEMMA ServerStep ==
    ASSUME Server
    PROVE  UNCHANGED <<want, streaming, prev, next, shown, settled, current>>
  BY DEF Server, Store, Expire, CountEvents, FindEvents

\* The steps of the server change the answers under way, not which there are.
LEMMA ServerFetch ==
    ASSUME TypeOK, Server, NEW f \in Slots
    PROVE  /\ fetch'[f].of = fetch[f].of
           /\ fetch'[f].pc = "free" <=> fetch[f].pc = "free"
<1>1. ASSUME NEW times, NoLongerOwed(times)
      PROVE  fetch'[f].of = fetch[f].of /\ fetch'[f].pc = fetch[f].pc
  BY <1>1 DEF NoLongerOwed, TypeOK, Request
<1>2. ASSUME NEW g \in Slots, CountEvents(g)
      PROVE  /\ fetch'[f].of = fetch[f].of
             /\ fetch'[f].pc = "free" <=> fetch[f].pc = "free"
  BY <1>2 DEF CountEvents, TypeOK, Request
<1>3. ASSUME NEW g \in Slots, FindEvents(g)
      PROVE  /\ fetch'[f].of = fetch[f].of
             /\ fetch'[f].pc = "free" <=> fetch[f].pc = "free"
  BY <1>3 DEF FindEvents, TypeOK, Request
<1>4. ASSUME NEW ids, NEW created, NEW error, Store(ids, created, error)
      PROVE  fetch'[f].of = fetch[f].of /\ fetch'[f].pc = fetch[f].pc
  BY <1>1, <1>4 DEF Store
<1>5. ASSUME NEW gone, Expire(gone)
      PROVE  fetch'[f].of = fetch[f].of /\ fetch'[f].pc = fetch[f].pc
  BY <1>1, <1>5 DEF Expire
<1> QED
  BY <1>2, <1>3, <1>4, <1>5 DEF Server

Buttons == StreamingLocksPaging /\ PrevLeadsBack

LEMMA ButtonsStep ==
    ASSUME TypeOK, Buttons, [Next]_vars
    PROVE  Buttons'
<1> USE DEF Buttons, StreamingLocksPaging, PrevLeadsBack
<1>1. want \in Page
  BY DEF TypeOK
<1>2. CASE Server
  BY <1>2, ServerStep
<1>3. ASSUME NEW f \in Slots, Draw(f) PROVE Buttons'
  BY <1>3 DEF Draw
<1>4. ASSUME NEW f \in Slots, FetchFails(f) PROVE Buttons'
  BY <1>4 DEF FetchFails
<1>5. ASSUME NEW n \in Limits, ChangeLimit(n) PROVE Buttons'
  BY <1>1, <1>5 DEF ChangeLimit, Page
<1>6. ASSUME NEW s \in Filters, ChangeFilter(s) PROVE Buttons'
  BY <1>1, <1>6 DEF ChangeFilter, Page
<1>7. CASE ClickPrev
  BY <1>7 DEF ClickPrev
<1>8. CASE ClickNext
  BY <1>8 DEF ClickNext
<1>9. CASE StartStream
  BY <1>1, <1>9 DEF StartStream, Page
<1>10. CASE StopStream
  BY <1>10 DEF StopStream
<1>11. CASE Poll
  BY <1>11 DEF Poll
<1>12. CASE UNCHANGED vars
  BY <1>12 DEF vars
<1> QED
  BY <1>2, <1>3, <1>4, <1>5, <1>6, <1>7, <1>8, <1>9, <1>10, <1>11, <1>12
  DEF Next, User

LEMMA ButtonsHold == Spec => []Buttons
<1>1. Init => Buttons
  BY DEF Init, Buttons, StreamingLocksPaging, PrevLeadsBack
<1> QED
  BY <1>1, ButtonsStep, TypeCorrect, PTL DEF Spec

\* A streaming panel is on page 1 and cannot be paged, whatever responses are
\* still to come and in whatever order (metrics.html:1181-1194, 1257-1264).
THEOREM StreamLocksPaging == Spec => []StreamingLocksPaging
  BY ButtonsHold, PTL DEF Buttons

\* Prev does not strand the user on a later page, nor lead before the first
\* (metrics.html:1190, 1251).
THEOREM PrevIsRight == Spec => []PrevLeadsBack
  BY ButtonsHold, PTL DEF Buttons
-----------------------------------------------------------------------------
(***************************************************************************)
(* The patient user.                                                       *)
(***************************************************************************)
\* Every request under way is for what the panel wants now.
Fresh == Patient => \A f \in Slots : fetch[f].pc # "free" => fetch[f].of = want

Settled == Patient => ShownIsWanted

\* After an action of the user only its own request is under way.
LEMMA SendFresh ==
    ASSUME TypeOK, Fresh, Send(want'), Act \/ want' = want
    PROVE  Fresh' /\ ~Quiet'
<1>1. PICK f \in Slots :
         fetch' = [fetch EXCEPT ![f] = [NoRequest(want') EXCEPT !.pc = "sent"]]
  BY DEF Send
<1>2. fetch'[f].pc = "sent" /\ fetch'[f].of = want'
  BY <1>1 DEF TypeOK, NoRequest
<1>3. \A g \in Slots \ {f} : fetch'[g] = fetch[g]
  BY <1>1 DEF TypeOK
<1> QED
  BY <1>2, <1>3 DEF Fresh, Quiet, Act

LEMMA PatientStep ==
    ASSUME TypeOK, Fresh, Settled, [Next]_vars
    PROVE  Fresh' /\ Settled'
<1>1. CASE Server
  <2>1. UNCHANGED <<want, shown, current>>
    BY <1>1, ServerStep
  <2>2. \A f \in Slots : /\ fetch'[f].of = fetch[f].of
                         /\ fetch'[f].pc = "free" <=> fetch[f].pc = "free"
    BY <1>1, ServerFetch
  <2> QED
    BY <2>1, <2>2 DEF Fresh, Settled, ShownIsWanted, Quiet
<1>2. ASSUME NEW f \in Slots, Draw(f) PROVE Fresh' /\ Settled'
  <2>1. /\ UNCHANGED want /\ fetch[f].pc # "free"
        /\ fetch' = [fetch EXCEPT ![f] = NoRequest(FirstPage)]
        /\ shown'.of = fetch[f].of
        /\ shown'.page = (want.offset \div fetch[f].of.limit) + 1
    BY <1>2 DEF Draw
  <2>2. fetch'[f].pc = "free" /\ \A g \in Slots \ {f} : fetch'[g] = fetch[g]
    BY <2>1 DEF TypeOK, NoRequest
  <2> QED
    BY <2>1, <2>2 DEF Fresh, Settled, ShownIsWanted
<1>3. ASSUME NEW f \in Slots, FetchFails(f) PROVE Fresh' /\ Settled'
  <2>1. /\ UNCHANGED want /\ current' = FALSE
        /\ fetch' = [fetch EXCEPT ![f] = NoRequest(FirstPage)]
    BY <1>3 DEF FetchFails
  <2>2. fetch'[f].pc = "free" /\ \A g \in Slots \ {f} : fetch'[g] = fetch[g]
    BY <2>1 DEF TypeOK, NoRequest
  <2> QED
    BY <2>1, <2>2 DEF Fresh, Settled, ShownIsWanted
<1>4. CASE User \/ Poll
  <2>1. Send(want') /\ (Act \/ want' = want)
    BY <1>4 DEF User, Poll, ChangeLimit, ChangeFilter, ClickPrev, ClickNext,
                StartStream, StopStream
  <2> QED
    BY <2>1, SendFresh DEF Settled, ShownIsWanted
<1>5. CASE UNCHANGED vars
  BY <1>5 DEF vars, Fresh, Settled, ShownIsWanted, Quiet
<1> QED
  BY <1>1, <1>2, <1>3, <1>4, <1>5 DEF Next

LEMMA PatientInit == Init => Fresh /\ Settled
<1> SUFFICES ASSUME Init PROVE Fresh /\ Settled
  OBVIOUS
<1>1. PICK f \in Slots :
         fetch = [g \in Slots |->
            IF g = f THEN [NoRequest(FirstPage) EXCEPT !.pc = "sent"]
            ELSE NoRequest(FirstPage)]
  BY DEF Init
<1>2. fetch[f].pc = "sent" /\ \A g \in Slots : fetch[g].of = FirstPage
  BY <1>1 DEF NoRequest
<1> QED
  BY <1>2 DEF Init, Fresh, Settled, ShownIsWanted, Quiet

LEMMA PatientHolds == Spec => [](Fresh /\ Settled)
  BY PatientInit, PatientStep, TypeCorrect, PTL DEF Spec

\* A user who waits for the panel sees the page, size and filter chosen, under
\* the right number, polls and lost requests notwithstanding
\* (metrics.html:1170-1266).
THEOREM PatientSeesChoice ==
    ASSUME Patient
    PROVE  Spec => []ShownIsWanted
  BY PatientHolds, PTL DEF Settled
-----------------------------------------------------------------------------
(***************************************************************************)
(* The walk by Next.                                                       *)
(***************************************************************************)
\* Auxiliary records as After builds them.
WalkRecord == [owed : SUBSET Event, seen : SUBSET Event, offset : Nat, missed : Nat]

Ahead(e, status) == {f \in Matching(status) : f.created > e.created}

\* The events the walk owes and will not come to any more: they are newer than
\* a row drawn, or stand on a page before the next.
Passed(w, rows, p) ==
    {e \in w.owed \ w.seen :
       \/ \E r \in rows : r.created < e.created
       \/ Cardinality(Ahead(e, p.status)) < w.offset + p.limit}

\* An event still owed is stored, at an instant of its own; and the walk passes
\* over no more events than it has missed rows.
WalkOK(w, rows, p) ==
    /\ w.owed \subseteq Matching(p.status)
    /\ \A e \in w.owed : \A f \in Matching(p.status) \ {e} : f.created # e.created
    /\ Cardinality(Passed(w, rows, p)) <= w.missed

WalkInv == WalkOK(walk, shown.rows, shown.of)

\* Drawing any of the answers under way leaves a good walk.
AnswersInv ==
    \A f \in Slots : fetch[f].pc = "answered" =>
       WalkOK(After(fetch[f]), fetch[f].rows, fetch[f].of)

\* Only the poll has several requests under way, all for page 1.
Alone ==
    want.offset # 0 =>
       \A f, g \in Slots : fetch[f].pc # "free" /\ fetch[g].pc # "free" => f = g

WalkParts == walk \in WalkRecord /\ WalkInv /\ AnswersInv /\ Alone

LEMMA AheadFinite ==
    ASSUME Inv, NEW e, NEW status
    PROVE  IsFiniteSet(Ahead(e, status)) /\ Cardinality(Ahead(e, status)) \in Nat
<1>1. Ahead(e, status) \subseteq events
  BY DEF Ahead, Matching
<1> QED
  BY <1>1, FS_Subset, FS_CardinalityType DEF Inv

LEMMA PassedFinite ==
    ASSUME Inv, NEW w, NEW rows, NEW p, w.owed \subseteq Matching(p.status)
    PROVE  /\ IsFiniteSet(Passed(w, rows, p))
           /\ Cardinality(Passed(w, rows, p)) \in Nat
<1>1. Passed(w, rows, p) \subseteq events
  BY DEF Passed, Matching
<1> QED
  BY <1>1, FS_Subset, FS_CardinalityType DEF Inv

\* No walk owes nothing.
LEMMA NoWalkOK ==
    ASSUME NEW rows, NEW p
    PROVE  NoWalk \in WalkRecord /\ WalkOK(NoWalk, rows, p)
<1>1. Passed(NoWalk, rows, p) = {}
  BY DEF Passed, NoWalk
<1> QED
  BY <1>1, FS_EmptySet DEF WalkOK, NoWalk, WalkRecord

LEMMA AfterType ==
    ASSUME Inv, walk \in WalkRecord, NEW r \in Request
    PROVE  After(r) \in WalkRecord
<1>1. r.of.offset \in Nat /\ r.of.limit \in Nat /\ NoWalk \in WalkRecord
      /\ r.owed \in SUBSET Event /\ r.rows \in SUBSET Event
  BY PageFacts, NoWalkOK DEF Request
<1>2. CASE Patient /\ r.of.offset = 0
  <2>1. After(r) = [NoWalk EXCEPT !.owed = r.owed, !.seen = r.rows]
    BY <1>2 DEF After
  <2> QED
    BY <1>1, <2>1 DEF WalkRecord
<1>3. CASE ~(Patient /\ r.of.offset = 0) /\ Patient /\ Continues(r)
  <2>1. After(r) = [walk EXCEPT !.seen = @ \cup r.rows, !.offset = r.of.offset,
              !.missed = @ + r.of.offset - (walk.offset + r.of.limit)]
    BY <1>3 DEF After
  <2>2. walk.missed + r.of.offset - (walk.offset + r.of.limit) \in Nat
    BY <1>1, <1>3 DEF Continues, WalkRecord
  <2> QED
    BY <1>1, <2>1, <2>2 DEF WalkRecord
<1> QED
  BY <1>1, <1>2, <1>3 DEF After

\* Events owed keep their place or move to a later one: what is stored at their
\* instant or deleted before them is owed no more.
LEMMA WalkKept ==
    ASSUME Inv, Inv', NEW times, NEW rows, NEW p \in Page,
           NEW w \in WalkRecord, NEW v \in WalkRecord, WalkOK(w, rows, p),
           v.seen = w.seen, v.offset = w.offset, v.missed = w.missed,
           v.owed = {d \in w.owed : d.created \notin times},
           \A f \in events' \ events : f.created \in times,
           \A f \in events \ events' : \A t \in Times :
              t <= f.created => t \in times
    PROVE  WalkOK(v, rows, p)'
<1>1. \A e \in Event : e.created \in Times /\ e.created \in Int
  BY EventAssumption DEF Event
<1>2. events \subseteq Event /\ events' \subseteq Event
      /\ w.owed \subseteq Event /\ w.owed \subseteq events
  BY DEF Inv, TypeOK, WalkRecord, WalkOK, Matching
<1>3. ASSUME NEW e \in v.owed
      PROVE  /\ e \in Matching(p.status)'
             /\ \A f \in Matching(p.status)' \ {e} : f.created # e.created
             /\ Ahead(e, p.status) \subseteq Ahead(e, p.status)'
  <2>1. e \in w.owed /\ e \in Event /\ e.created \notin times
    BY <1>2
  <2>2. e \in events'
    BY <1>1, <1>2, <2>1
  <2>3. e \in Matching(p.status)'
    BY <2>1, <2>2 DEF WalkOK, Matching
  <2>4. ASSUME NEW f \in Matching(p.status)' \ {e} PROVE f.created # e.created
    <3>1. CASE f \in events
      <4>1. f \in Matching(p.status) \ {e}
        BY <3>1 DEF Matching
      <4> QED
        BY <2>1, <4>1 DEF WalkOK
    <3>2. CASE f \notin events
      <4>1. f \in events' \ events
        BY <3>2 DEF Matching
      <4> QED
        BY <2>1, <4>1
    <3> QED
      BY <3>1, <3>2
  <2>5. ASSUME NEW f \in Ahead(e, p.status) PROVE f \in Ahead(e, p.status)'
    <3>1. f \in Matching(p.status) /\ f \in events /\ f.created > e.created
      BY DEF Ahead, Matching
    <3>2. e.created <= f.created
      BY <1>1, <1>2, <2>1, <3>1
    <3>3. f \in events'
      BY <1>1, <2>1, <3>1, <3>2
    <3> QED
      BY <3>1, <3>3 DEF Ahead, Matching
  <2> QED
    BY <2>3, <2>4, <2>5
<1>4. ASSUME NEW e \in v.owed
      PROVE  /\ Cardinality(Ahead(e, p.status)) \in Nat
             /\ Cardinality(Ahead(e, p.status))' \in Nat
             /\ Cardinality(Ahead(e, p.status))
                   <= Cardinality(Ahead(e, p.status))'
  <2> DEFINE S == Ahead(e, p.status)
             T == Ahead(e, p.status)'
  <2>1. T \subseteq events' /\ IsFiniteSet(events')
    BY DEF Ahead, Matching, Inv
  <2>2. IsFiniteSet(T) /\ S \subseteq T
    BY <1>3, <2>1, FS_Subset
  <2> HIDE DEF S, T
  <2>3. Cardinality(S) \in Nat /\ Cardinality(T) \in Nat
        /\ Cardinality(S) <= Cardinality(T)
    BY <2>2, FS_Subset, FS_CardinalityType
  <2> QED
    BY <2>3 DEF S, T
<1>5. Passed(v, rows, p)' \subseteq Passed(w, rows, p)
  <2>1. w.offset + p.limit \in Nat
    BY PageFacts DEF WalkRecord
  <2> SUFFICES ASSUME NEW e \in Passed(v, rows, p)' PROVE e \in Passed(w, rows, p)
    OBVIOUS
  <2>2. /\ e \in v.owed /\ e \in w.owed \ w.seen
        /\ \/ \E r \in rows : r.created < e.created
           \/ Cardinality(Ahead(e, p.status))' < w.offset + p.limit
    BY DEF Passed
  <2>3. Cardinality(Ahead(e, p.status))' < w.offset + p.limit
          => Cardinality(Ahead(e, p.status)) < w.offset + p.limit
    BY <1>4, <2>1, <2>2
  <2> QED
    BY <2>2, <2>3 DEF Passed
<1>6. Cardinality(Passed(v, rows, p)') <= w.missed
  <2> DEFINE P == Passed(w, rows, p)
             Q == Passed(v, rows, p)'
  <2>1. IsFiniteSet(P) /\ Cardinality(P) \in Nat /\ Cardinality(P) <= w.missed
    BY PassedFinite DEF WalkOK
  <2>2. Q \subseteq P
    BY <1>5
  <2> HIDE DEF P, Q
  <2>3. Cardinality(Q) \in Nat /\ Cardinality(Q) <= Cardinality(P)
    BY <2>1, <2>2, FS_Subset, FS_CardinalityType
  <2>4. w.missed \in Nat
    BY DEF WalkRecord
  <2> QED
    BY <2>1, <2>3, <2>4 DEF Q
<1> QED
  BY <1>3, <1>6 DEF WalkOK

\* A step that stores or deletes events.
LEMMA TableStep ==
    ASSUME Inv, Inv', WalkParts, NEW times, NoLongerOwed(times),
           UNCHANGED <<want, shown>>,
           \A f \in events' \ events : f.created \in times,
           \A f \in events \ events' : \A t \in Times :
              t <= f.created => t \in times
    PROVE  WalkParts'
<1>1. /\ walk' = [walk EXCEPT !.owed = {d \in @ : d.created \notin times}]
      /\ fetch' = [f \in Slots |->
            [fetch[f] EXCEPT !.owed = {d \in @ : d.created \notin times}]]
  BY DEF NoLongerOwed
<1>2. /\ walk \in WalkRecord /\ walk' \in WalkRecord
      /\ walk'.seen = walk.seen /\ walk'.offset = walk.offset
      /\ walk'.missed = walk.missed
      /\ walk'.owed = {d \in walk.owed : d.created \notin times}
  BY <1>1 DEF WalkParts, WalkRecord
<1>3. WalkInv'
  <2>1. PICK w \in WalkRecord, v \in WalkRecord, p \in Page, rows \in {shown.rows} :
           w = walk /\ v = walk' /\ p = shown.of
    BY <1>2 DEF Inv, TypeOK
  <2>2. WalkOK(w, rows, p)
    BY <2>1 DEF WalkParts, WalkInv
  <2>3. WalkOK(v, rows, p)'
    BY <1>2, <2>1, <2>2, WalkKept
  <2> QED
    BY <2>1, <2>3 DEF WalkInv
<1>4. AnswersInv'
  <2> SUFFICES ASSUME NEW f \in Slots, fetch'[f].pc = "answered"
               PROVE  WalkOK(After(fetch[f]), fetch[f].rows, fetch[f].of)'
    BY DEF AnswersInv
  <2>1. /\ fetch[f] \in Request /\ fetch'[f] \in Request
        /\ fetch[f].pc = "answered" /\ fetch'[f].of = fetch[f].of
        /\ fetch'[f].rows = fetch[f].rows
        /\ fetch'[f].owed = {d \in fetch[f].owed : d.created \notin times}
    BY <1>1 DEF Inv, TypeOK, Request
  <2>2. After(fetch[f]) \in WalkRecord /\ After(fetch[f])' \in WalkRecord
    <3>1. After(fetch[f]) \in WalkRecord
      BY <1>2, <2>1, AfterType
    <3>2. PICK r \in Request : r = fetch'[f]
      BY <2>1
    <3>3. /\ r.of.offset \in Nat /\ r.of.limit \in Nat /\ NoWalk \in WalkRecord
          /\ r.owed \in SUBSET Event /\ r.rows \in SUBSET Event
      BY PageFacts, NoWalkOK DEF Request
    <3>4. ASSUME Continues(r)'
          PROVE  walk'.missed + r.of.offset - (walk'.offset + r.of.limit) \in Nat
      BY <1>2, <3>3, <3>4 DEF Continues, WalkRecord
    <3>5. After(r)' \in WalkRecord
      BY <1>2, <3>3, <3>4 DEF After, WalkRecord
    <3> QED
      BY <3>1, <3>2, <3>5
  <2>3. /\ After(fetch[f])'.seen = After(fetch[f]).seen
        /\ After(fetch[f])'.offset = After(fetch[f]).offset
        /\ After(fetch[f])'.missed = After(fetch[f]).missed
        /\ After(fetch[f])'.owed =
              {d \in After(fetch[f]).owed : d.created \notin times}
    <3>1. Continues(fetch[f])' <=> Continues(fetch[f])
      BY <1>2, <2>1 DEF Continues
    <3>2. CASE Patient /\ fetch[f].of.offset = 0
      <4>1. /\ After(fetch[f]) = [NoWalk EXCEPT !.owed = fetch[f].owed,
                                                !.seen = fetch[f].rows]
            /\ After(fetch[f])' = [NoWalk EXCEPT !.owed = fetch'[f].owed,
                                                 !.seen = fetch'[f].rows]
        BY <2>1, <3>2 DEF After
      <4> QED
        BY <2>1, <4>1 DEF NoWalk
    <3>3. CASE ~(Patient /\ fetch[f].of.offset = 0) /\ Patient /\ Continues(fetch[f])
      <4>1. /\ After(fetch[f]) =
                  [walk EXCEPT !.seen = @ \cup fetch[f].rows,
                     !.offset = fetch[f].of.offset,
                     !.missed = @ + fetch[f].of.offset
                                  - (walk.offset + fetch[f].of.limit)]
            /\ After(fetch[f])' =
                  [walk' EXCEPT !.seen = @ \cup fetch[f].rows,
                     !.offset = fetch[f].of.offset,
                     !.missed = @ + fetch[f].of.offset
                                  - (walk'.offset + fetch[f].of.limit)]
        BY <2>1, <3>1, <3>3 DEF After
      <4> QED
        BY <1>2, <4>1 DEF WalkRecord
    <3>4. CASE ~(Patient /\ fetch[f].of.offset = 0) /\ ~(Patient /\ Continues(fetch[f]))
      <4>1. After(fetch[f]) = NoWalk /\ After(fetch[f])' = NoWalk
        BY <2>1, <3>1, <3>4 DEF After
      <4> QED
        BY <4>1 DEF NoWalk
    <3> QED
      BY <3>2, <3>3, <3>4
  <2>4. PICK w \in WalkRecord, v \in WalkRecord, p \in Page, rows \in {fetch[f].rows} :
           w = After(fetch[f]) /\ v = After(fetch[f])' /\ p = fetch[f].of
    BY <2>1, <2>2 DEF Request
  <2>5. WalkOK(w, rows, p)
    BY <2>1, <2>4 DEF WalkParts, AnswersInv
  <2>6. WalkOK(v, rows, p)'
    BY <2>3, <2>4, <2>5, WalkKept
  <2> QED
    BY <2>1, <2>4, <2>6
<1>5. Alone'
  <2>1. \A f \in Slots : fetch'[f].pc = fetch[f].pc
    BY <1>1 DEF Inv, TypeOK, Request
  <2> QED
    BY <2>1 DEF WalkParts, Alone
<1> QED
  BY <1>2, <1>3, <1>4, <1>5 DEF WalkParts

LEMMA StoreStep ==
    ASSUME Inv, Inv', WalkParts, NEW ids, NEW created, NEW error,
           Store(ids, created, error)
    PROVE  WalkParts'
<1> DEFINE times == {created[i] : i \in ids}
<1>1. NoLongerOwed(times) /\ UNCHANGED <<want, shown>>
  BY DEF Store
<1>2. \A f \in events' \ events : f.created \in times
  BY DEF Store
<1>3. events \ events' = {}
  BY DEF Store
<1> QED
  BY <1>1, <1>2, <1>3, TableStep

LEMMA ExpireStep ==
    ASSUME Inv, Inv', WalkParts, NEW gone, Expire(gone)
    PROVE  WalkParts'
<1> DEFINE times == {t \in Times : \E e \in gone : t <= e.created}
<1>1. NoLongerOwed(times) /\ UNCHANGED <<want, shown>>
  BY DEF Expire
<1>2. events' \ events = {} /\ events \ events' \subseteq gone
  BY DEF Expire
<1>3. \A f \in events \ events' : \A t \in Times : t <= f.created => t \in times
  BY <1>2
<1> QED
  BY <1>1, <1>2, <1>3, TableStep

\* An event at an instant of its own is on the page its place in the order
\* falls on, and has every older row behind it, whatever order its database
\* gives the others.
LEMMA PlaceOnPage ==
    ASSUME Inv, NEW p \in Page, NEW rows \in PagesOf(Matching(p.status), p),
           NEW e \in Matching(p.status),
           \A f \in Matching(p.status) \ {e} : f.created # e.created,
           Cardinality(Ahead(e, p.status)) >= p.offset,
           \/ Cardinality(Ahead(e, p.status)) < p.offset + p.limit
           \/ \E r \in rows : r.created < e.created
    PROVE  e \in rows
<1> DEFINE set == Matching(p.status)
<1>1. PICK before \in Heads(set, p.offset) :
         rows \cap before = {} /\ rows \cup before \in Heads(set, p.offset + p.limit)
  BY DEF PagesOf
<1> DEFINE head == rows \cup before
           ahead == Ahead(e, p.status)
<1>2. /\ p.offset \in Nat /\ p.limit \in Nat /\ p.limit # 0
      /\ IsFiniteSet(set) /\ set \subseteq Event
      /\ \A f \in set : f.created \in Int
      /\ before \subseteq set /\ head \subseteq set /\ ahead \subseteq set
      /\ e \notin ahead
      /\ \A f \in set : f \in ahead <=> f.created > e.created
  <2>1. IsFiniteSet(set) /\ set \subseteq Event
    BY FS_Subset DEF Matching, Inv, TypeOK
  <2>2. \A f \in Event : f.created \in Int
    BY EventAssumption DEF Event
  <2>3. before \subseteq set /\ head \subseteq set
    BY <1>1 DEF Heads
  <2> QED
    BY <2>1, <2>2, <2>3, PageFacts DEF Ahead
<1>3. /\ Leads(before, set) /\ Cardinality(before) <= p.offset
      /\ Leads(head, set) /\ Cardinality(head) <= p.offset + p.limit
      /\ Cardinality(head) < p.offset + p.limit => head = set
  BY <1>1 DEF Heads
<1>4. \A f \in set \ {e} : f.created # e.created
  OBVIOUS
<1>5. /\ IsFiniteSet(ahead) /\ Cardinality(ahead) \in Nat
      /\ Cardinality(ahead) >= p.offset
      /\ IsFiniteSet(before) /\ Cardinality(before) \in Nat
      /\ IsFiniteSet(head) /\ Cardinality(head) \in Nat
  BY <1>2, FS_Subset, FS_CardinalityType
<1>6. \/ Cardinality(ahead) < p.offset + p.limit
      \/ \E r \in rows : r.created < e.created
  OBVIOUS
<1> HIDE DEF set, head, ahead
<1>7. e \in set /\ head = rows \cup before
  BY DEF set, head
<1>8. ASSUME NEW top \in SUBSET set, Leads(top, set), e \in top, IsFiniteSet(top),
             Cardinality(top) \in Nat
      PROVE  Cardinality(ahead) < Cardinality(top)
  <2>1. ahead \subseteq top \ {e}
    BY <1>2, <1>7, <1>8 DEF Leads
  <2>2. IsFiniteSet(top \ {e}) /\ Cardinality(top \ {e}) = Cardinality(top) - 1
    BY <1>8, FS_RemoveElement
  <2>3. Cardinality(ahead) <= Cardinality(top \ {e})
    BY <2>1, <2>2, FS_Subset
  <2> QED
    BY <1>5, <1>8, <2>2, <2>3
<1>9. e \notin before
  <2>1. ASSUME e \in before PROVE FALSE
    <3>1. Cardinality(ahead) < Cardinality(before)
      BY <1>2, <1>3, <1>5, <1>8, <2>1
    <3> QED
      BY <1>2, <1>3, <1>5, <3>1
  <2> QED
    BY <2>1
<1>10. e \in head
  <2> SUFFICES ASSUME e \notin head PROVE FALSE
    OBVIOUS
  <2>1. \A f \in head : f.created > e.created
    BY <1>2, <1>3, <1>4, <1>7 DEF Leads
  <2>2. Cardinality(ahead) < p.offset + p.limit
    BY <1>6, <1>7, <1>2, <2>1
  <2>3. head \subseteq ahead
    BY <1>2, <2>1
  <2>4. Cardinality(head) <= Cardinality(ahead)
    BY <1>5, <2>3, FS_Subset
  <2> QED
    BY <1>2, <1>3, <1>5, <1>7, <2>2, <2>4
<1> QED
  BY <1>7, <1>9, <1>10

\* So many events at instants of their own stand in so many places.
LEMMA PlacesApart ==
    ASSUME Inv, NEW status, NEW some \in SUBSET Matching(status),
           \A e \in some : \A f \in Matching(status) \ {e} : f.created # e.created,
           NEW a \in Nat, NEW b \in Nat, a <= b,
           \A e \in some : /\ a <= Cardinality(Ahead(e, status))
                           /\ Cardinality(Ahead(e, status)) < b
    PROVE  IsFiniteSet(some) /\ Cardinality(some) <= b - a
<1> DEFINE place == [e \in some |-> Cardinality(Ahead(e, status))]
<1>1. \A e \in Event : e.created \in Int
  BY EventAssumption DEF Event
<1>2. some \subseteq Event /\ Matching(status) \subseteq Event
  BY DEF Inv, TypeOK, Matching
<1>3. place \in [some -> a..(b - 1)]
  BY AheadFinite
<1>4. ASSUME NEW e \in some, NEW f \in some, e.created < f.created
      PROVE  place[f] < place[e]
  <2>1. Ahead(f, status) \subseteq Ahead(e, status) \ {f}
    BY <1>1, <1>2, <1>4 DEF Ahead
  <2>2. f \in Ahead(e, status)
    BY <1>1, <1>2, <1>4 DEF Ahead
  <2> DEFINE S == Ahead(e, status)
             T == Ahead(f, status)
  <2>3. IsFiniteSet(S) /\ Cardinality(S) \in Nat /\ Cardinality(T) \in Nat
    BY AheadFinite
  <2>4. T \subseteq S \ {f} /\ f \in S
    BY <2>1, <2>2
  <2>5. place[e] = Cardinality(S) /\ place[f] = Cardinality(T)
    OBVIOUS
  <2> HIDE DEF S, T, place
  <2>6. IsFiniteSet(S \ {f}) /\ Cardinality(S \ {f}) = Cardinality(S) - 1
    BY <2>3, <2>4, FS_RemoveElement
  <2>7. Cardinality(T) <= Cardinality(S \ {f})
    BY <2>4, <2>6, FS_Subset
  <2> QED
    BY <2>3, <2>5, <2>6, <2>7
<1> HIDE DEF place
<1>5. ASSUME NEW e \in some, NEW f \in some, place[e] = place[f] PROVE e = f
  <2> SUFFICES ASSUME e # f PROVE FALSE
    OBVIOUS
  <2>1. e.created # f.created /\ e.created \in Int /\ f.created \in Int
    BY <1>1, <1>2
  <2>2. place[e] \in Int /\ place[f] \in Int
    BY <1>3
  <2> QED
    BY <1>4, <1>5, <2>1, <2>2
<1>6. place \in Injection(some, a..(b - 1))
  BY <1>3, <1>5 DEF Injection, IsInjective
<1>7. IsFiniteSet(a..(b - 1)) /\ Cardinality(a..(b - 1)) = b - a
  BY FS_Interval
<1> QED
  BY <1>6, <1>7, FS_Injection

\* An answer read for a walk that is good leaves a good one.
LEMMA AnswerGood ==
    ASSUME Inv, walk \in WalkRecord, WalkInv, NEW r \in Request,
           NEW p \in Page, NEW rows \in PagesOf(Matching(p.status), p),
           r.of = p, r.rows = rows, r.owed = Owed(p, Matching(p.status))
    PROVE  WalkOK(After(r), rows, p)
<1>1. /\ p.offset \in Nat /\ p.limit \in Nat /\ p.limit # 0
      /\ shown.of \in Page /\ walk.offset \in Nat /\ walk.missed \in Nat
  BY PageFacts DEF Inv, TypeOK, WalkRecord
<1>2. CASE Patient /\ p.offset = 0
  <2> DEFINE w == After(r)
  <2>1. w = [NoWalk EXCEPT !.owed = r.owed, !.seen = r.rows]
    BY <1>2 DEF After
  <2>2. w.owed = r.owed /\ w.seen = rows /\ w.offset = 0 /\ w.missed = 0
    BY <2>1 DEF NoWalk
  <2> HIDE DEF w
  <2>3. /\ w.owed \subseteq Matching(p.status)
        /\ \A e \in w.owed :
              \A f \in Matching(p.status) \ {e} : f.created # e.created
    BY <2>2 DEF Owed
  <2>4. Passed(w, rows, p) = {}
    <3> SUFFICES ASSUME NEW e \in Passed(w, rows, p) PROVE FALSE
      OBVIOUS
    <3>1. /\ e \in w.owed /\ e \notin rows /\ e \in Matching(p.status)
          /\ \/ \E q \in rows : q.created < e.created
             \/ Cardinality(Ahead(e, p.status)) < p.offset + p.limit
      BY <1>2, <2>2, <2>3 DEF Passed
    <3>2. Cardinality(Ahead(e, p.status)) >= p.offset
      BY <1>2, AheadFinite
    <3> QED
      BY <2>3, <3>1, <3>2, PlaceOnPage
  <2> QED
    BY <2>2, <2>3, <2>4, FS_EmptySet DEF WalkOK, w
<1>3. CASE ~(Patient /\ p.offset = 0) /\ Patient /\ Continues(r)
  <2> DEFINE w == After(r)
             lo == walk.offset + p.limit
             old == Passed(walk, shown.rows, shown.of)
             over == {e \in walk.owed : /\ lo <= Cardinality(Ahead(e, p.status))
                                        /\ Cardinality(Ahead(e, p.status)) < p.offset}
  <2>1. /\ w.owed = walk.owed /\ w.seen = walk.seen \cup rows
        /\ w.offset = p.offset /\ w.missed = walk.missed + (p.offset - lo)
        /\ lo \in Nat /\ lo <= p.offset
        /\ shown.of.status = p.status /\ shown.of.limit = p.limit
    <3>1. w = [walk EXCEPT !.seen = @ \cup r.rows, !.offset = r.of.offset,
                 !.missed = @ + r.of.offset - (walk.offset + r.of.limit)]
      BY <1>3 DEF After
    <3> HIDE DEF w
    <3> QED
      BY <1>1, <1>3, <3>1 DEF WalkRecord, Continues
  <2>2. /\ walk.owed \subseteq Matching(p.status)
        /\ \A e \in walk.owed :
              \A f \in Matching(p.status) \ {e} : f.created # e.created
        /\ Cardinality(old) <= walk.missed
    BY <2>1 DEF WalkInv, WalkOK
  <2>3. IsFiniteSet(old) /\ Cardinality(old) \in Nat
    BY <2>1, <2>2, PassedFinite
  <2>4. IsFiniteSet(over) /\ Cardinality(over) <= p.offset - lo
    BY <1>1, <2>1, <2>2, PlacesApart
  <2>5. Passed(w, rows, p) \subseteq old \cup over
    <3> SUFFICES ASSUME NEW e \in Passed(w, rows, p), e \notin old, e \notin over
                 PROVE  FALSE
      OBVIOUS
    <3> HIDE DEF w
    <3>1. /\ e \in walk.owed /\ e \notin walk.seen /\ e \notin rows
          /\ e \in Matching(p.status)
          /\ \/ \E q \in rows : q.created < e.created
             \/ Cardinality(Ahead(e, p.status)) < p.offset + p.limit
      BY <2>1, <2>2 DEF Passed
    <3>2. Cardinality(Ahead(e, p.status)) \in Nat
      BY AheadFinite
    <3>3. ~(Cardinality(Ahead(e, p.status)) < lo)
      BY <2>1, <3>1 DEF Passed
    <3>4. Cardinality(Ahead(e, p.status)) >= p.offset
      BY <1>1, <2>1, <3>1, <3>2, <3>3
    <3> QED
      BY <2>2, <3>1, <3>4, PlaceOnPage
  <2> HIDE DEF w, old, over
  <2>6. Cardinality(Passed(w, rows, p)) <= w.missed
    <3>1. /\ IsFiniteSet(old \cup over)
          /\ Cardinality(old \cup over)
                = Cardinality(old) + Cardinality(over) - Cardinality(old \cap over)
      BY <2>3, <2>4, FS_Union
    <3>2. /\ Cardinality(over) \in Nat /\ Cardinality(old \cap over) \in Nat
          /\ Cardinality(old \cup over) \in Nat
      BY <2>3, <2>4, <3>1, FS_CardinalityType, FS_Intersection
    <3>3. /\ Cardinality(Passed(w, rows, p)) <= Cardinality(old \cup over)
          /\ Cardinality(Passed(w, rows, p)) \in Nat
      BY <2>5, <3>1, FS_Subset, FS_CardinalityType
    <3>4. Cardinality(old \cup over) <= walk.missed + (p.offset - lo)
      BY <1>1, <2>1, <2>2, <2>3, <2>4, <3>1, <3>2
    <3> QED
      BY <1>1, <2>1, <3>2, <3>3, <3>4
  <2> QED
    BY <2>1, <2>2, <2>6 DEF WalkOK, w
<1>4. CASE ~(Patient /\ p.offset = 0) /\ ~(Patient /\ Continues(r))
  <2>1. After(r) = NoWalk
    BY <1>4 DEF After
  <2> QED
    BY <2>1, NoWalkOK
<1> QED
  BY <1>2, <1>3, <1>4

\* A good walk stays good as long as the table does.
LEMMA SameTable ==
    ASSUME UNCHANGED events, NEW w, NEW rows, NEW p, WalkOK(w, rows, p)
    PROVE  WalkOK(w, rows, p)'
  BY DEF WalkOK, Passed, Ahead, Matching

LEMMA FindStep ==
    ASSUME Inv, Inv', WalkParts, NEW f \in Slots, FindEvents(f)
    PROVE  WalkParts'
<1>1. UNCHANGED <<events, want, shown, walk>> /\ fetch[f].pc = "counted"
  BY DEF FindEvents
<1>2. PICK p \in Page : p = fetch[f].of
  BY DEF Inv, TypeOK, Request
<1>3. PICK rows \in PagesOf(Matching(p.status), p) :
         fetch' = [fetch EXCEPT ![f].pc = "answered", ![f].rows = rows,
                                ![f].owed = Owed(p, Matching(p.status))]
  BY <1>2 DEF FindEvents
<1>4. PICK r \in Request : r = fetch'[f]
  BY DEF Inv, TypeOK
<1>5. /\ r.of = p /\ r.rows = rows /\ r.owed = Owed(p, Matching(p.status))
      /\ \A g \in Slots \ {f} : fetch'[g] = fetch[g]
  BY <1>2, <1>3, <1>4 DEF Inv, TypeOK, Request
<1>6. ASSUME NEW q PROVE After(q)' = After(q)
  BY <1>1 DEF After, Continues
<1>7. AnswersInv'
  <2> SUFFICES ASSUME NEW g \in Slots, fetch'[g].pc = "answered"
               PROVE  WalkOK(After(fetch[g]), fetch[g].rows, fetch[g].of)'
    BY DEF AnswersInv
  <2>1. PICK q, w : q = fetch'[g] /\ w = After(q)
    OBVIOUS
  <2>2. WalkOK(w, q.rows, q.of)
    <3>1. CASE g = f
      <4>1. WalkOK(After(r), rows, p)
        BY <1>5, AnswerGood DEF WalkParts
      <4> QED
        BY <1>4, <1>5, <2>1, <3>1, <4>1
    <3>2. CASE g # f
      BY <1>5, <2>1, <3>2 DEF WalkParts, AnswersInv
    <3> QED
      BY <3>1, <3>2
  <2>3. WalkOK(w, q.rows, q.of)'
    BY <1>1, <2>2, SameTable
  <2>4. After(fetch[g])' = w
    <3>1. After(q)' = w
      BY <1>6, <2>1
    <3> QED
      BY <2>1, <3>1
  <2> QED
    BY <2>1, <2>3, <2>4
<1>8. WalkInv'
  <2>1. PICK w, q, p2 : w = walk /\ q = shown.rows /\ p2 = shown.of
    OBVIOUS
  <2>2. WalkOK(w, q, p2)'
    BY <1>1, <2>1, SameTable DEF WalkParts, WalkInv
  <2> QED
    BY <1>1, <2>1, <2>2 DEF WalkInv
<1>9. Alone'
  BY <1>1, <1>5 DEF WalkParts, Alone
<1> QED
  BY <1>1, <1>7, <1>8, <1>9 DEF WalkParts

\* Drawing a page: no answer still to come goes on from the page before it.
LEMMA DrawStep ==
    ASSUME Patient, Inv, Fresh, WalkParts, NEW f \in Slots, Draw(f)
    PROVE  WalkParts'
<1>1. PICK r \in Request, w \in WalkRecord : r = fetch[f] /\ w = After(r)
  BY AfterType DEF Inv, TypeOK, WalkParts
<1>2. /\ UNCHANGED <<events, want>> /\ r.pc = "answered" /\ walk' = w
      /\ shown'.of = r.of /\ shown'.rows = r.rows
  BY <1>1 DEF Draw
<1>3. /\ fetch'[f].pc = "free"
      /\ \A g \in Slots \ {f} : fetch'[g] = fetch[g]
  BY DEF Draw, Inv, TypeOK, NoRequest
<1>4. WalkOK(w, r.rows, r.of)
  BY <1>1, <1>2 DEF WalkParts, AnswersInv
<1>5. WalkInv'
  <2>1. WalkOK(w, r.rows, r.of)'
    BY <1>2, <1>4, SameTable
  <2> QED
    BY <1>2, <2>1 DEF WalkInv
<1>6. AnswersInv'
  <2> SUFFICES ASSUME NEW g \in Slots \ {f}, fetch[g].pc = "answered"
               PROVE  WalkOK(After(fetch[g]), fetch[g].rows, fetch[g].of)'
    BY <1>3 DEF AnswersInv
  <2>1. PICK q, v : q = fetch[g] /\ v = After(q)
    OBVIOUS
  <2>2. q.of.offset = 0
    <3>1. fetch[g].of = want /\ (want.offset # 0 => g = f)
      BY <1>1, <1>2 DEF Fresh, WalkParts, Alone
    <3> QED
      BY <2>1, <3>1
  <2>3. After(q)' = v
    BY <2>1, <2>2 DEF After
  <2>4. WalkOK(v, q.rows, q.of)'
    BY <1>2, <2>1, SameTable DEF WalkParts, AnswersInv
  <2>5. fetch'[g] = q
    BY <1>3, <2>1
  <2> QED
    BY <2>3, <2>4, <2>5
<1>7. Alone'
  BY <1>1, <1>2, <1>3 DEF WalkParts, Alone
<1> QED
  BY <1>2, <1>5, <1>6, <1>7 DEF WalkParts

\* A step that leaves table and walk alone, and changes requests only by
\* dropping them or by moving them to where they have no answer yet.
LEMMA RequestStep ==
    ASSUME WalkParts, UNCHANGED <<events, shown, walk>>, Alone',
           \A f \in Slots : \/ fetch'[f] = fetch[f]
                            \/ fetch'[f].pc \in {"free", "sent", "counted"}
    PROVE  WalkParts'
<1>1. ASSUME NEW w, NEW rows, NEW p, WalkOK(w, rows, p) PROVE WalkOK(w, rows, p)'
  BY <1>1, SameTable
<1>2. WalkInv'
  <2>1. PICK w, q, p : w = walk /\ q = shown.rows /\ p = shown.of
    OBVIOUS
  <2>2. WalkOK(w, q, p)'
    BY <1>1, <2>1 DEF WalkParts, WalkInv
  <2> QED
    BY <2>1, <2>2 DEF WalkInv
<1>3. AnswersInv'
  <2> SUFFICES ASSUME NEW f \in Slots, fetch'[f].pc = "answered"
               PROVE  WalkOK(After(fetch[f]), fetch[f].rows, fetch[f].of)'
    BY DEF AnswersInv
  <2>1. PICK q, v : q = fetch[f] /\ v = After(q)
    OBVIOUS
  <2>2. fetch'[f] = q
    BY <2>1
  <2>3. WalkOK(v, q.rows, q.of)'
    BY <1>1, <2>1, <2>2 DEF WalkParts, AnswersInv
  <2>4. After(q)' = v
    BY <2>1 DEF After, Continues
  <2> QED
    BY <2>2, <2>3, <2>4
<1> QED
  BY <1>2, <1>3 DEF WalkParts

LEMMA WalkStep ==
    ASSUME Patient, Inv, Inv', Fresh, Buttons, WalkParts, [Next]_vars
    PROVE  WalkParts'
<1>1. ASSUME NEW ids, NEW created, NEW error, Store(ids, created, error)
      PROVE  WalkParts'
  BY <1>1, StoreStep
<1>2. ASSUME NEW gone, Expire(gone) PROVE WalkParts'
  BY <1>2, ExpireStep
<1>3. ASSUME NEW f \in Slots, CountEvents(f) PROVE WalkParts'
  <2>1. /\ UNCHANGED <<events, want, shown, walk>>
        /\ fetch[f].pc = "sent" /\ fetch'[f].pc = "counted"
        /\ \A g \in Slots \ {f} : fetch'[g] = fetch[g]
    BY <1>3 DEF CountEvents, Inv, TypeOK, Request
  <2>2. Alone'
    BY <2>1 DEF WalkParts, Alone
  <2> QED
    BY <2>1, <2>2, RequestStep
<1>4. ASSUME NEW f \in Slots, FindEvents(f) PROVE WalkParts'
  BY <1>4, FindStep
<1>5. ASSUME NEW f \in Slots, Draw(f) PROVE WalkParts'
  BY <1>5, DrawStep
<1>6. ASSUME NEW f \in Slots, FetchFails(f) PROVE WalkParts'
  <2>1. /\ UNCHANGED <<events, want, shown, walk>>
        /\ fetch'[f].pc = "free"
        /\ \A g \in Slots \ {f} : fetch'[g] = fetch[g]
    BY <1>6 DEF FetchFails, Inv, TypeOK, NoRequest
  <2>2. Alone'
    BY <2>1 DEF WalkParts, Alone
  <2> QED
    BY <2>1, <2>2, RequestStep
<1>7. CASE User \/ Poll
  <2>1. /\ Send(want') /\ UNCHANGED <<events, shown, walk>>
        /\ Quiet \/ want'.offset = 0
    <3>1. CASE User
      BY <3>1 DEF User, Act, ChangeLimit, ChangeFilter, ClickPrev, ClickNext,
                  StartStream, StopStream
    <3>2. CASE Poll
      BY <3>2 DEF Poll, Buttons, StreamingLocksPaging
    <3> QED
      BY <1>7, <3>1, <3>2
  <2>2. PICK f \in Slots :
           fetch' = [fetch EXCEPT ![f] = [NoRequest(want') EXCEPT !.pc = "sent"]]
    BY <2>1 DEF Send
  <2>3. /\ fetch'[f].pc = "sent"
        /\ \A g \in Slots \ {f} : fetch'[g] = fetch[g]
    BY <2>2 DEF Inv, TypeOK, NoRequest
  <2>4. Alone'
    BY <2>1, <2>3 DEF Alone, Quiet
  <2> QED
    BY <2>1, <2>3, <2>4, RequestStep
<1>8. CASE UNCHANGED vars
  <2>1. UNCHANGED <<events, shown, walk, fetch>> /\ Alone'
    BY <1>8 DEF vars, WalkParts, Alone
  <2> QED
    BY <2>1, RequestStep
<1> QED
  BY <1>1, <1>2, <1>3, <1>4, <1>5, <1>6, <1>7, <1>8 DEF Next, Server

\* A user who waits for the panel and pages by Next from page 1 misses at most
\* as many events as the pages whose requests failed have rows, whatever is
\* stored or deleted meanwhile; see the property for the events it leaves out
\* (metrics.go:289, metrics.html:1170-1266).
THEOREM WalkSkipsFailedOnly ==
    ASSUME Patient
    PROVE  Spec => []OnlyFailedPagesSkipped
<1>1. Init => WalkParts
  <2> SUFFICES ASSUME Init PROVE WalkParts
    OBVIOUS
  <2>1. PICK f \in Slots :
           fetch = [g \in Slots |->
              IF g = f THEN [NoRequest(FirstPage) EXCEPT !.pc = "sent"]
              ELSE NoRequest(FirstPage)]
    BY DEF Init
  <2>2. /\ fetch[f].pc = "sent" /\ \A g \in Slots \ {f} : fetch[g].pc = "free"
    BY <2>1 DEF NoRequest
  <2>3. AnswersInv /\ Alone
    BY <2>2 DEF AnswersInv, Alone
  <2>4. walk \in WalkRecord /\ WalkInv
    BY NoWalkOK DEF Init, WalkInv
  <2> QED
    BY <2>3, <2>4 DEF WalkParts
<1>2. Inv /\ Inv' /\ Fresh /\ Buttons /\ WalkParts /\ [Next]_vars => WalkParts'
  BY WalkStep
<1>3. WalkParts /\ Inv => OnlyFailedPagesSkipped
  <2> SUFFICES ASSUME WalkParts, Inv PROVE Cardinality(Skipped) <= walk.missed
    BY DEF OnlyFailedPagesSkipped
  <2> DEFINE P == Passed(walk, shown.rows, shown.of)
  <2>1. Skipped \subseteq P
    BY DEF Skipped, Passed
  <2>2. IsFiniteSet(P) /\ Cardinality(P) \in Nat /\ Cardinality(P) <= walk.missed
    BY PassedFinite DEF WalkParts, WalkInv, WalkOK
  <2>3. walk.missed \in Nat
    BY DEF WalkParts, WalkRecord
  <2> HIDE DEF P
  <2>4. Cardinality(Skipped) \in Nat /\ Cardinality(Skipped) <= Cardinality(P)
    BY <2>1, <2>2, FS_Subset, FS_CardinalityType
  <2> QED
    BY <2>2, <2>3, <2>4
<1> QED
  BY <1>1, <1>2, <1>3, PatientHolds, Invariant, ButtonsHold, PTL DEF Spec
=============================================================================
