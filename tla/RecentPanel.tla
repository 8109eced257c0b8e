---------------------------- MODULE RecentPanel ----------------------------
(***************************************************************************)
(* The realtime events panel of the metrics page (web/metrics.html) and    *)
(* the endpoint behind it, RecentEvents (handlers/metrics.go).             *)
(*                                                                         *)
(* Every click, filter change and poll sends a request for the page the    *)
(* panel wants at that moment.  The handler counts the matching events and *)
(* then reads one page of them, newest first, as two statements, while     *)
(* events keep arriving and expiring.  Responses come back in any order,   *)
(* and the panel draws each with the rows of its own request but the       *)
(* offset it has by then.                                                  *)
(***************************************************************************)
EXTENDS Integers, FiniteSets

CONSTANTS
    Slots,          \* bound: requests under way at once
    Limits,         \* the choices of "Show", 10 to 200
    DefaultLimit,   \* the one selected when the page loads
    Filters,        \* bound: the choices of the status filter in use
    Patient,        \* does the user wait for the panel between two actions?
    Ids,            \* bound: events ever stored
    Times,          \* created_at: the insert's clock or the client's timestamp
    Kinds,          \* bound: do errors arrive, do successes?
    MaxFaults       \* bound: requests that fail

ASSUME LimitAssumption == Limits \subseteq Nat \ {0} /\ DefaultLimit \in Limits
ASSUME FilterAssumption ==
    "" \in Filters /\ Filters \subseteq {"", "success", "error"}
ASSUME ModeAssumption ==
    Patient \in BOOLEAN /\ MaxFaults \in Nat
ASSUME EventAssumption == IsFiniteSet(Ids) /\ Times \subseteq Int /\ Kinds \subseteq BOOLEAN

VARIABLES
    events,         \* table events
    unused,         \* the ids not given to an event yet
    fetch,          \* the requests
    want,           \* what the panel asks for: limit, offset, status
    streaming,      \* is streamInterval set?
    prev, next,     \* is the button enabled?
    shown,          \* the response drawn last and the page number put on it
    faults,         \* requests that failed
    \* Auxiliary variables: no action of the code depends on them.
    settled,        \* has a response been drawn since `offset' was assigned?
    current,        \* did the latest request to end succeed?
    walk            \* the walk from page 1 by Next: see After

vars == <<events, unused, fetch, want, streaming, prev, next, shown, faults,
          settled, current, walk>>
-----------------------------------------------------------------------------
Event == [id : Ids, created : Times, error : Kinds]
Page  == [limit : Limits, offset : Nat, status : Filters]

Request == [pc : {"free", "sent", "counted", "answered"}, of : Page,
            total : Nat, rows : SUBSET Event, owed : SUBSET Event]
NoRequest(of) ==
    [pc |-> "free", of |-> of, total |-> 0, rows |-> {}, owed |-> {}]

\* applyMetricsFilters, for the status.
Matching(status) ==
    {e \in events : /\ status = "success" => ~e.error
                    /\ status = "error"   => e.error}

\* Mutant: ORDER BY created_at, without DESC.
OldestFirst(head, set) ==
    \A e \in head, f \in set \ head : e.created <= f.created

\* `head' is what some order of `set' by created_at DESC begins with: rows of
\* the same instant, such as the events of one batch, come in any order.
Leads(head, set) == \A e \in head, f \in set \ head : f.created <= e.created

\* ORDER BY created_at DESC LIMIT limit OFFSET offset: what the database may
\* return for page p.
Heads(set, n) ==
    {head \in SUBSET set : /\ Leads(head, set) /\ Cardinality(head) <= n
                           /\ Cardinality(head) < n => head = set}
PagesOf(set, p) ==
    {rows \in SUBSET set : \E before \in Heads(set, p.offset) :
        rows \cap before = {} /\ rows \cup before \in Heads(set, p.offset + p.limit)}

\* The events a walk from page 1 owes its user, those it has shown, the offset
\* of the last page drawn and the rows of pages asked for but never drawn.
NoWalk == [owed |-> {}, seen |-> {}, offset |-> 0, missed |-> 0]

FirstPage == [limit |-> DefaultLimit, offset |-> 0, status |-> ""]

\* The page has loaded and sent its first request.
Init ==
    /\ events = {} /\ unused = Ids /\ faults = 0
    /\ want = FirstPage /\ streaming = FALSE /\ prev = FALSE /\ next = TRUE
    /\ shown = [of |-> FirstPage, rows |-> {}, page |-> 1]
    /\ settled = FALSE /\ current = FALSE
    /\ walk = NoWalk
    /\ \E f \in Slots :
          fetch = [g \in Slots |->
             IF g = f THEN [NoRequest(FirstPage) EXCEPT !.pc = "sent"]
             ELSE NoRequest(FirstPage)]

\* fetchRealtimeEvents: ask for page p.
Send(p) ==
    \E f \in Slots :
       /\ fetch[f].pc = "free"
       /\ fetch' = [fetch EXCEPT ![f] = [NoRequest(p) EXCEPT !.pc = "sent"]]
-----------------------------------------------------------------------------
\* Auxiliary: which events a walk still owes.  No order of pages can show for
\* certain an event that shares its instant with another, or one that moves to
\* an earlier page because a newer event is deleted.
NoLongerOwed(times) ==
    /\ walk' = [walk EXCEPT !.owed = {d \in @ : d.created \notin times}]
    /\ fetch' = [f \in Slots |->
          [fetch[f] EXCEPT !.owed = {d \in @ : d.created \notin times}]]

(***************************************************************************)
(* The server.                                                             *)
(***************************************************************************)
\* One batch, inserted as a whole.  The events share the insert's clock unless
\* the client dates them.
Store(ids, created, error) ==
    /\ ids # {} /\ unused' = unused \ ids
    /\ events' = events \cup
          {[id |-> i, created |-> created[i], error |-> error[i]] : i \in ids}
    /\ NoLongerOwed({created[i] : i \in ids})
    /\ UNCHANGED <<want, streaming, prev, next, shown, faults, settled, current>>

\* Retention deletes by expires_at, which need not follow created_at: keys
\* differ in retention, and an event dated zero expires at once.
Expire(gone) ==
    /\ gone # {} /\ events' = events \ gone
    /\ NoLongerOwed({t \in Times : \E e \in gone : t <= e.created})
    /\ UNCHANGED <<unused, want, streaming, prev, next, shown, faults, settled,
                   current>>

\* RecentEvents counts ...
CountEvents(f) ==
    /\ fetch[f].pc = "sent"
    /\ fetch' = [fetch EXCEPT
          ![f].pc = "counted",
          ![f].total = Cardinality(Matching(fetch[f].of.status))]
    /\ UNCHANGED <<events, unused, want, streaming, prev, next, shown, faults,
                   settled, current, walk>>

\* Auxiliary: what page 1 owes the walk that begins with it.  Only the walk of
\* a patient user is followed.
Owed(p, set) ==
    {e \in set : /\ Patient /\ p.offset = 0
                 /\ \A f \in set \ {e} : f.created # e.created}

\* ... and then reads the page.
FindEvents(f) ==
    /\ fetch[f].pc = "counted"
    /\ LET set == Matching(fetch[f].of.status)
       IN  \E rows \in PagesOf(set, fetch[f].of) :
              fetch' = [fetch EXCEPT ![f].pc = "answered", ![f].rows = rows,
                                     ![f].owed = Owed(fetch[f].of, set)]
    /\ UNCHANGED <<events, unused, want, streaming, prev, next, shown, faults,
                   settled, current, walk>>
-----------------------------------------------------------------------------
(***************************************************************************)
(* The panel.                                                              *)
(***************************************************************************)
HasMore(r) == r.of.offset + r.of.limit < r.total

\* Auxiliary: the walk after response r is drawn.  It begins with a page 1 and
\* goes on while pages further on, of the same limit and filter, are drawn.  A
\* Next whose request failed leaves the offset advanced, so that the following
\* one passes over a page.
Continues(r) ==
    /\ r.of.limit = shown.of.limit /\ r.of.status = shown.of.status
    /\ r.of.offset >= walk.offset + r.of.limit

After(r) ==
    IF Patient /\ r.of.offset = 0
    THEN [NoWalk EXCEPT !.owed = r.owed, !.seen = r.rows]
    ELSE IF Patient /\ Continues(r)
    THEN [walk EXCEPT !.seen = @ \cup r.rows, !.offset = r.of.offset,
             !.missed = @ + r.of.offset - (walk.offset + r.of.limit)]
    ELSE NoWalk

\* Mutant: Prev is set from the offset of the request.
DrawOwnOffset(f) ==
    /\ fetch[f].pc = "answered"
    /\ LET r == fetch[f]
       IN  /\ shown' = [of |-> r.of, rows |-> r.rows,
                        page |-> (want.offset \div r.of.limit) + 1]
           /\ prev' = (~streaming /\ r.of.offset # 0)
           /\ next' = (~streaming /\ HasMore(r))
           /\ walk' = After(r)
    /\ settled' = TRUE /\ current' = TRUE
    /\ fetch' = [fetch EXCEPT ![f] = NoRequest(FirstPage)]
    /\ UNCHANGED <<events, unused, want, streaming, faults>>

\* Mutant: the buttons do not look at the stream.
DrawWhateverStreaming(f) ==
    /\ fetch[f].pc = "answered"
    /\ LET r == fetch[f]
       IN  /\ shown' = [of |-> r.of, rows |-> r.rows,
                        page |-> (want.offset \div r.of.limit) + 1]
           /\ prev' = (want.offset # 0)
           /\ next' = HasMore(r)
           /\ walk' = After(r)
    /\ settled' = TRUE /\ current' = TRUE
    /\ fetch' = [fetch EXCEPT ![f] = NoRequest(FirstPage)]
    /\ UNCHANGED <<events, unused, want, streaming, faults>>

\* A response arrives.
Draw(f) ==
    /\ fetch[f].pc = "answered"
    /\ LET r == fetch[f]
       IN  /\ shown' = [of |-> r.of, rows |-> r.rows,
                        page |-> (want.offset \div r.of.limit) + 1]
           /\ prev' = (~streaming /\ want.offset # 0)
           /\ next' = (~streaming /\ HasMore(r))
           /\ walk' = After(r)
    /\ settled' = TRUE /\ current' = TRUE
    /\ fetch' = [fetch EXCEPT ![f] = NoRequest(FirstPage)]
    /\ UNCHANGED <<events, unused, want, streaming, faults>>

\* An error at either end only reaches the console.
FetchFails(f) ==
    /\ fetch[f].pc # "free" /\ faults < MaxFaults
    /\ faults' = faults + 1 /\ current' = FALSE
    /\ fetch' = [fetch EXCEPT ![f] = NoRequest(FirstPage)]
    /\ UNCHANGED <<events, unused, want, streaming, prev, next, shown, settled,
                   walk>>

Quiet == \A f \in Slots : fetch[f].pc = "free"

Act == Patient => Quiet

ChangeLimit(n) ==
    /\ Act /\ n # want.limit
    /\ want' = [want EXCEPT !.limit = n, !.offset = 0]
    /\ Send(want') /\ settled' = FALSE
    /\ UNCHANGED <<events, unused, streaming, prev, next, shown, faults,
                   current, walk>>

\* reloadAll: the offset stays.
ChangeFilter(s) ==
    /\ Act /\ s # want.status
    /\ want' = [want EXCEPT !.status = s]
    /\ Send(want')
    /\ UNCHANGED <<events, unused, streaming, prev, next, shown, faults,
                   settled, current, walk>>

\* Mutant: without Math.max.
ClickPrevUnbounded ==
    /\ Act /\ prev
    /\ want' = [want EXCEPT !.offset = @ - want.limit]
    /\ streaming' = FALSE
    /\ Send(want') /\ settled' = FALSE
    /\ UNCHANGED <<events, unused, prev, next, shown, faults, current, walk>>

\* Mutant: the page is turned but not asked for.
ClickPrevUnsent ==
    /\ Act /\ prev
    /\ want' = [want EXCEPT !.offset = IF @ > want.limit THEN @ - want.limit
                                       ELSE 0]
    /\ streaming' = FALSE /\ settled' = FALSE
    /\ UNCHANGED <<events, unused, fetch, prev, next, shown, faults, current,
                   walk>>

ClickPrev ==
    /\ Act /\ prev
    /\ want' = [want EXCEPT !.offset = IF @ > want.limit THEN @ - want.limit
                                       ELSE 0]
    /\ streaming' = FALSE
    /\ Send(want') /\ settled' = FALSE
    /\ UNCHANGED <<events, unused, prev, next, shown, faults, current, walk>>

ClickNext ==
    /\ Act /\ next
    /\ want' = [want EXCEPT !.offset = @ + want.limit]
    /\ streaming' = FALSE
    /\ Send(want') /\ settled' = FALSE
    /\ UNCHANGED <<events, unused, prev, next, shown, faults, current, walk>>

\* Mutant: streaming starts on the page shown.
StartStreamHere ==
    /\ Act /\ ~streaming
    /\ streaming' = TRUE /\ prev' = FALSE /\ next' = FALSE
    /\ Send(want)
    /\ UNCHANGED <<events, unused, want, shown, faults, settled, current, walk>>

StartStream ==
    /\ Act /\ ~streaming
    /\ want' = [want EXCEPT !.offset = 0]
    /\ streaming' = TRUE /\ prev' = FALSE /\ next' = FALSE
    /\ Send(want') /\ settled' = FALSE
    /\ UNCHANGED <<events, unused, shown, faults, current, walk>>

StopStream ==
    /\ Act /\ streaming
    /\ streaming' = FALSE /\ prev' = (want.offset # 0)
    /\ Send(want)
    /\ UNCHANGED <<events, unused, want, next, shown, faults, settled, current,
                   walk>>

\* setInterval, whether or not earlier requests have been answered.
Poll ==
    /\ streaming
    /\ Send(want)
    /\ UNCHANGED <<events, unused, want, streaming, prev, next, shown, faults,
                   settled, current, walk>>
-----------------------------------------------------------------------------
Server == \/ \E ids \in SUBSET unused :
                \E created \in [ids -> Times], error \in [ids -> Kinds] :
                   Store(ids, created, error)
          \/ \E gone \in SUBSET events : Expire(gone)
          \/ \E f \in Slots : CountEvents(f) \/ FindEvents(f)

User == \/ \E n \in Limits : ChangeLimit(n)
        \/ \E s \in Filters : ChangeFilter(s)
        \/ ClickPrev \/ ClickNext \/ StartStream \/ StopStream

Next == Server \/ (\E f \in Slots : Draw(f) \/ FetchFails(f)) \/ User \/ Poll

\* Requests are handled and answered, and the interval timer fires.  Nothing is
\* assumed of the user, of ingestion or of retention.
Fairness ==
    /\ \A f \in Slots : WF_vars(CountEvents(f) \/ FetchFails(f))
                        /\ WF_vars(FindEvents(f) \/ FetchFails(f))
                        /\ WF_vars(Draw(f) \/ FetchFails(f))
    /\ WF_vars(Poll)

Spec == Init /\ [][Next]_vars /\ Fairness
-----------------------------------------------------------------------------
(***************************************************************************)
(* Properties.                                                             *)
(***************************************************************************)
\* The shape of the state; the offset is that of a page.
TypeOK ==
    /\ events \subseteq Event /\ unused \subseteq Ids
    /\ fetch \in [Slots -> Request]
    /\ want \in Page /\ want.offset % want.limit = 0
    /\ streaming \in BOOLEAN /\ prev \in BOOLEAN /\ next \in BOOLEAN
    /\ shown \in [of : Page, rows : SUBSET Event, page : Nat \ {0}]
    /\ settled \in BOOLEAN /\ current \in BOOLEAN /\ faults \in 0..MaxFaults

\* While streaming the panel asks for page 1 and cannot be paged, however the
\* responses to earlier requests come in (metrics.html:1181-1194, 1257-1264).
StreamingLocksPaging == streaming => want.offset = 0 /\ ~prev /\ ~next

\* Once any response has been drawn since the page was turned, Prev is enabled
\* exactly when there is a page before, even if that response was to an older
\* request (metrics.html:1190, 1251).
PrevLeadsBack == settled /\ ~streaming => (prev <=> want.offset # 0)

\* When nothing is under way and the last request succeeded, the rows drawn
\* are those of the limit, offset and filter chosen, under the right page
\* number, provided the user waits between two actions (metrics.html:1170-1266).
ShownIsWanted ==
    Quiet /\ current => /\ shown.of = want
                        /\ shown.page = (want.offset \div want.limit) + 1

\* A user who waits and pages from page 1 by Next misses no more events than fit
\* on the pages whose requests failed, and none if none failed: of the events
\* there when page 1 was read and newer than a row drawn last, all others have
\* been shown, however many events arrive meanwhile with whatever timestamps
\* (metrics.go:289, metrics.html:1196-1199, 1232-1235).  Not counted are events
\* of one instant with another and those a newer one of which is deleted.
Skipped == {e \in walk.owed \ walk.seen :
              \E r \in shown.rows : r.created < e.created}
OnlyFailedPagesSkipped == Cardinality(Skipped) <= walk.missed

\* The stream shows an event that stays the newest of its filter, with no other
\* of the same instant (metrics.html:1264).
Newest(id) ==
    \E e \in Matching(want.status) :
       e.id = id /\ \A f \in Matching(want.status) \ {e} : f.created < e.created
StreamShowsNewest ==
    \A id \in Ids :
       (streaming /\ Newest(id))
          ~> (~streaming \/ ~Newest(id) \/ \E e \in shown.rows : e.id = id)
=============================================================================
