-------------------------- MODULE MonitoringProofs --------------------------
(***************************************************************************)
(* Proofs that reporting does not feed on itself and that scrapes are true.*)
(*                                                                         *)
(* NoFeedback bounds two cardinalities.  That of the reports is inductive  *)
(* once the requests that reports make are known to be excluded.  That of  *)
(* the events is not: it follows from an injection into the reports, which *)
(* EventInv keeps by telling which report an event is from.                *)
(***************************************************************************)
EXTENDS Monitoring, IngestionProofs

Waiting == {"new", "posted"}
Over    == {"taken", "stored", "failed", "refused", "lost"}
Report  == [id : Nat, pc : Waiting \cup Over, stamp : 0..MaxClock, batch : Nat]

ReportInv ==
    /\ clock <= MaxClock
    /\ visits \in Nat /\ IsFiniteSet(reports) /\ Cardinality(reports) <= visits
    /\ reports # {} => InternalKey \in Keys
    /\ \A w \in reports :
          /\ w \in Report
          /\ w.pc \in Waiting => w.batch = 0

\* Some report made the request of this number.
Reported(b) == \E w \in reports : w.batch = b

Single(S) == \A i, j \in S : i = j

EventInv ==
    /\ \A b \in Nat \ {0} : Reported(b) => b <= batches
    /\ \A r \in Requests : Busy(r) /\ Reported(req[r].batch) =>
          Single(req[r].body) /\ Single(req[r].rows)
    /\ \A e \in events :
          /\ e.id[1] \in 1..batches
          /\ \A r \in Requests : Busy(r) => req[r].batch # e.id[1]
    /\ \A e, f \in events : Reported(e.id[1]) /\ e.id[1] = f.id[1] => e = f

\* A step keeps the requests that reports made, and adds no other than one
\* that has just been taken.
SameReported ==
    \A b \in Nat \ {0} :
       /\ Reported(b) => Reported(b)'
       /\ Reported(b)' => Reported(b) \/ (b = batches' /\ batches' # batches)
-----------------------------------------------------------------------------
\* Every step around the event path is a step of the event path, or none.
LEMMA EventPathSteps ==
    ReportInv /\ TypeOK /\ [MonNext]_allVars => [Next]_vars
<1> SUFFICES ASSUME ReportInv, TypeOK, [MonNext]_allVars PROVE [Next]_vars
  OBVIOUS
<1>1. ASSUME NEW w \in reports, NEW r \in Requests, Take(w, r) PROVE Next
  <2>1. InternalKey \in Keys /\ w.stamp \in 0..MaxClock
    BY DEF ReportInv, Report
  <2>2. SelfReport(w) \in Payloads
    BY <2>1, ReportAssumption DEF SelfReport
  <2> QED
    BY <1>1, <2>1, <2>2 DEF Take, Next, RequestNext
<1>2. ASSUME NEW r \in Requests,
             AnswerClient(r) \/ \E w \in reports : Answer(w)
      PROVE  Next
  BY <1>2 DEF Answer, AnswerClient, Next, RequestNext
<1>7. ASSUME NEW r \in Requests, NEW post \in ClientPosts, Client(r, post)
      PROVE  Next
  <2>1. post.key \in Keys /\ post.body \in Payloads
    BY ReportAssumption
  <2> QED
    BY <1>7, <2>1 DEF Client, Next, RequestNext
<1>3. CASE (Tick \/ Start \/ RetentionNext \/ \E r \in Requests : Prepare(r)) /\ Quiet
  BY <1>3 DEF Next, RequestNext
<1>4. CASE Visit \/ Gather \/ (\E k \in Keys : Scrape(k))
           \/ \E w \in reports : Post(w) \/ Reject(w) \/ GiveUp(w)
  BY <1>4 DEF Visit, Gather, Scrape, Post, Reject, GiveUp
<1>5. CASE KeyRequest \/ Die
  BY <1>5 DEF KeyRequest, Die, Next
<1>6. CASE UNCHANGED allVars
  BY <1>6 DEF allVars
<1> QED
  BY <1>1, <1>2, <1>3, <1>4, <1>5, <1>6, <1>7
  DEF MonNext, ReportNext, ClientNext, Answer

\* At most one report is new.
LEMMA NewReport ==
    ASSUME ReportInv, BoundAssumption, NEW path
    PROVE  \/ NewReports(path) = {}
           \/ /\ path \notin Excluded /\ InternalKey \in Keys
              /\ \E w \in [id : Nat, pc : Waiting, stamp : 0..MaxClock, batch : {0}] :
                    NewReports(path) = {w}
<1>1. Cardinality(reports) + 1 \in Nat /\ 0 \in 0..MaxClock
  BY FS_CardinalityType, BoundAssumption DEF ReportInv
<1> QED
  BY <1>1, KeyAssumption DEF NewReports, Waiting

LEMMA NoneOfReports == NewReports("/v1/events") = {}
  BY DEF NewReports, Excluded

\* To replace a report keeps their number within bounds.
LEMMA Replaced ==
    ASSUME NEW S, IsFiniteSet(S), NEW w \in S, NEW v
    PROVE  /\ IsFiniteSet((S \ {w}) \cup {v})
           /\ Cardinality((S \ {w}) \cup {v}) <= Cardinality(S)
<1>1. IsFiniteSet(S \ {w}) /\ Cardinality(S \ {w}) = Cardinality(S) - 1
  BY FS_RemoveElement
<1>2. /\ IsFiniteSet((S \ {w}) \cup {v})
      /\ Cardinality((S \ {w}) \cup {v}) \in
            {Cardinality(S \ {w}), Cardinality(S \ {w}) + 1}
  BY <1>1, FS_AddElement
<1>3. Cardinality(S) \in Nat
  BY FS_CardinalityType
<1> QED
  BY <1>1, <1>2, <1>3

LEMMA ReportInductive ==
    ReportInv /\ TypeOK /\ [MonNext]_allVars
       => ReportInv' /\ SameReported
<1> SUFFICES ASSUME ReportInv, TypeOK, [MonNext]_allVars
             PROVE  ReportInv' /\ SameReported
  OBVIOUS
<1> DEFINE Goal == ReportInv' /\ SameReported
<1>1. clock' <= MaxClock
  <2>1. CASE Tick
    BY <2>1, BoundAssumption DEF Tick, TypeOK
  <2>2. CASE UNCHANGED clock
    BY <2>2 DEF ReportInv
  <2>3. [Next]_vars => Tick \/ UNCHANGED clock
    BY DEF Next, Start, Boot, Crash, KeyNext, CreateAPIKey, SettingsPage,
           DeleteAPIKey, SetActiveAPIKey, RequestNext, BearerAuth, Refuse,
           Prepare, Persist, PersistFails, RetentionNext, ReadNow,
           DeleteExpired, DeleteFails, SweepDue, vars
  <2> QED
    BY <2>1, <2>2, <2>3, EventPathSteps
<1>2. ASSUME UNCHANGED <<reports, visits>> PROVE Goal
  BY <1>1, <1>2 DEF ReportInv, Reported, SameReported
<1>3. ASSUME NEW path, Serve(path) PROVE Goal
  <2>1. CASE NewReports(path) = {}
    <3>1. reports' = reports /\ visits' = visits + 1
      BY <1>3, <2>1 DEF Serve
    <3>2. Cardinality(reports) \in Nat
      BY FS_CardinalityType DEF ReportInv
    <3> QED
      BY <1>1, <3>1, <3>2 DEF ReportInv, Reported, SameReported
  <2>2. CASE NewReports(path) # {}
    <3>1. PICK w \in [id : Nat, pc : Waiting, stamp : 0..MaxClock, batch : {0}] :
             NewReports(path) = {w}
      BY <2>2, NewReport, BoundAssumption
    <3>2. reports' = reports \cup {w} /\ visits' = visits + 1 /\ InternalKey \in Keys
      BY <1>3, <2>2, <3>1, NewReport, BoundAssumption DEF Serve
    <3>3. IsFiniteSet(reports') /\ Cardinality(reports') <= Cardinality(reports) + 1
          /\ Cardinality(reports) \in Nat /\ Cardinality(reports') \in Nat
      <4>1. IsFiniteSet(reports) /\ Cardinality(reports) \in Nat
        BY FS_CardinalityType DEF ReportInv
      <4>2. /\ IsFiniteSet(reports \cup {w})
            /\ Cardinality(reports \cup {w}) \in
                  {Cardinality(reports), Cardinality(reports) + 1}
        BY <4>1, FS_AddElement
      <4> QED
        BY <3>2, <4>1, <4>2
    <3>4. w \in Report /\ w.batch = 0
      BY DEF Report
    <3> QED
      BY <1>1, <3>2, <3>3, <3>4 DEF ReportInv, Reported, SameReported
  <2> QED
    BY <2>1, <2>2
<1>4. ASSUME NEW w \in reports,
             NEW v \in Report,
             v.pc \in Waiting => v.batch = 0,
             \/ w.batch = v.batch
             \/ w.batch = 0 /\ v.batch = batches' /\ batches' # batches,
             reports' = (reports \ {w}) \cup {v}, visits' = visits
      PROVE  Goal
  <2>1. IsFiniteSet(reports') /\ Cardinality(reports') <= Cardinality(reports)
        /\ Cardinality(reports) \in Nat /\ Cardinality(reports') \in Nat
    BY <1>4, Replaced, FS_CardinalityType DEF ReportInv
  <2> QED
    BY <1>1, <1>4, <2>1 DEF ReportInv, Reported, SameReported
<1>5. ASSUME NEW w \in reports, NEW pc \in Over,
             reports' = Moved(w, pc) \cup NewReports("/v1/events"), visits' = visits
      PROVE  Goal
  <2> DEFINE v == [w EXCEPT !.pc = pc]
  <2>1. /\ v \in Report
        /\ v.pc = pc /\ v.batch = w.batch /\ v.pc \notin Waiting
    BY DEF ReportInv, Report, Waiting, Over
  <2>2. reports' = (reports \ {w}) \cup {v}
    BY <1>5, NoneOfReports DEF Moved
  <2> HIDE DEF v
  <2> QED
    BY <1>4, <1>5, <2>1, <2>2
<1>6. ASSUME NEW w \in reports, Post(w) PROVE Goal
  <2> DEFINE v == [w EXCEPT !.pc = "posted", !.stamp = clock]
  <2>0. w \in Report /\ w.batch = 0 /\ clock \in 0..MaxClock
    BY <1>6 DEF ReportInv, Post, Waiting, TypeOK
  <2>1. v \in Report /\ v.batch = 0 /\ w.batch = 0
    BY <2>0 DEF Report, Waiting
  <2>2. reports' = (reports \ {w}) \cup {v} /\ visits' = visits
    BY <1>6 DEF Post
  <2> HIDE DEF v
  <2> QED
    BY <1>4, <2>1, <2>2
<1>7. ASSUME NEW w \in reports, NEW r \in Requests, Take(w, r) PROVE Goal
  <2> DEFINE v == [w EXCEPT !.pc = "taken", !.batch = batches + 1]
  <2>0. w \in Report /\ w.batch = 0 /\ batches + 1 \in Nat
    BY <1>7 DEF ReportInv, Take, Waiting, TypeOK
  <2>1. v \in Report /\ v.pc \notin Waiting /\ w.batch = 0 /\ v.batch = batches + 1
    BY <2>0 DEF Report, Waiting, Over
  <2>2. /\ reports' = (reports \ {w}) \cup {v} /\ visits' = visits
        /\ batches' = batches + 1 /\ batches \in Nat
    BY <1>7 DEF Take, BearerAuth, TypeOK
  <2> HIDE DEF v
  <2> QED
    BY <1>4, <2>1, <2>2
<1>8. ASSUME NEW w \in reports, Reject(w) \/ GiveUp(w) PROVE Goal
  BY <1>5, <1>8, NoneOfReports DEF Reject, GiveUp, Over
<1>9. ASSUME NEW w \in reports, Answer(w) PROVE Goal
  BY <1>5, <1>9 DEF Answer, Over
<1>13. ASSUME NEW r \in Requests, AnswerClient(r) PROVE Goal
  BY <1>2, <1>13, NoneOfReports DEF AnswerClient
<1>14. ASSUME NEW r \in Requests, NEW post \in ClientPosts, Client(r, post)
       PROVE  Goal
  BY <1>2, <1>14 DEF Client, Quiet, monVars
<1>10. CASE Die
  <2> DEFINE Died(w) == IF w.pc \in {"new", "posted", "taken"}
                        THEN [w EXCEPT !.pc = "lost"] ELSE w
             died == [w \in reports |-> Died(w)]
  <2>1. reports' = {Died(w) : w \in reports} /\ visits' = visits
    BY <1>10 DEF Die
  <2>2. \A w \in reports :
           /\ Died(w) \in Report
           /\ Died(w).pc \notin Waiting /\ Died(w).batch = w.batch
    BY DEF ReportInv, Report, Waiting, Over
  <2>3. died \in Surjection(reports, reports')
    BY <2>1 DEF Surjection
  <2> HIDE DEF Died, died
  <2>4. IsFiniteSet(reports') /\ Cardinality(reports') <= Cardinality(reports)
        /\ Cardinality(reports) \in Nat /\ Cardinality(reports') \in Nat
    BY <2>3, FS_Surjection, FS_CardinalityType DEF ReportInv
  <2> QED
    BY <1>1, <2>1, <2>2, <2>4 DEF ReportInv, Reported, SameReported
<1>11. CASE (Tick \/ Start \/ RetentionNext \/ \E r \in Requests : Prepare(r)) /\ Quiet
  BY <1>2, <1>11 DEF Quiet, monVars
<1>12. CASE Gather \/ (\E k \in Keys : Scrape(k)) \/ UNCHANGED allVars
  BY <1>2, <1>12 DEF Gather, Scrape, allVars, monVars
<1> QED
  BY <1>3, <1>6, <1>7, <1>8, <1>9, <1>10, <1>11, <1>12, <1>13, <1>14
  DEF MonNext, ReportNext, ClientNext, Visit, KeyRequest
-----------------------------------------------------------------------------
LEMMA EventInductive ==
    ReportInv /\ TypeOK /\ BatchInv /\ EventInv /\ [MonNext]_allVars => EventInv'
<1> SUFFICES ASSUME ReportInv, TypeOK, BatchInv, EventInv, [MonNext]_allVars
             PROVE  EventInv'
  OBVIOUS
<1>1. /\ batches \in Nat
      /\ \A e \in events : e.id[1] \in Nat \ {0}
      /\ \A r \in Requests : Busy(r) => req[r].batch \in Nat \ {0}
  BY DEF TypeOK, BatchInv, EventInv
<1>2. SameReported
  BY ReportInductive
<1>3. ASSUME events' \subseteq events, batches' = batches,
             \A q \in Requests : req'[q] = req[q] \/ req'[q] = Idle
      PROVE  EventInv'
  <2>1. \A q \in Requests : Busy(q)' => req'[q] = req[q] /\ Busy(q)
    BY <1>3 DEF Busy, Idle
  <2>2. \A b \in Nat \ {0} : Reported(b)' => Reported(b)
    BY <1>2, <1>3 DEF SameReported
  <2> QED
    BY <1>1, <1>3, <2>1, <2>2 DEF EventInv
<1>4. CASE (Tick \/ Start \/ RetentionNext) /\ Quiet
  BY <1>3, <1>4
  DEF Tick, Start, Boot, RetentionNext, ReadNow, DeleteExpired, DeleteFails,
      SweepDue, retVars
<1>5. CASE KeyRequest
  BY <1>3, <1>5
  DEF KeyRequest, KeyNext, CreateAPIKey, SettingsPage, DeleteAPIKey,
      SetActiveAPIKey
<1>6. CASE Die
  BY <1>3, <1>6 DEF Die, Crash
<1>7. CASE \/ Visit \/ Gather \/ UNCHANGED allVars \/ (\E k \in Keys : Scrape(k))
           \/ \E w \in reports : Post(w) \/ Reject(w) \/ GiveUp(w)
  BY <1>3, <1>7
  DEF Visit, Gather, Scrape, Post, Reject, GiveUp, vars, allVars
<1>8. ASSUME NEW r \in Requests, Refuse(r) \/ PersistFails(r) PROVE EventInv'
  BY <1>3, <1>8 DEF Refuse, PersistFails, TypeOK
<1>9. ASSUME NEW r \in Requests, NEW k, NEW body, BearerAuth(r, k, body),
             Reported(req[r].batch)' => Single(body)
      PROVE  EventInv'
  <2>1. /\ events' = events /\ batches' = batches + 1
        /\ \A q \in Requests \ {r} : req'[q] = req[q]
        /\ req'[r].batch = batches + 1 /\ req'[r].rows = {}
        /\ req'[r].body = body
    BY <1>9 DEF BearerAuth, TypeOK
  <2>2. Single({})
    BY DEF Single
  <2>3. \A b \in 1..batches : Reported(b)' => Reported(b)
    BY <1>1, <1>2, <2>1 DEF SameReported
  <2>4. \A q \in Requests \ {r} : Busy(q)' => Busy(q) /\ req[q].batch \in 1..batches
    BY <2>1 DEF Busy, BatchInv
  <2>5. \A b \in Nat \ {0} : Reported(b)' => b <= batches'
    BY <1>1, <1>2, <2>1 DEF SameReported, EventInv
  <2>6. \A e \in events : e.id[1] \in 1..batches' /\ e.id[1] # batches + 1
    BY <1>1, <2>1 DEF EventInv
  <2>7. \A q \in Requests : Busy(q)' /\ Reported(req[q].batch)' =>
           Single(req'[q].body) /\ Single(req'[q].rows)
    BY <1>9, <2>1, <2>2, <2>3, <2>4 DEF EventInv
  <2>8. \A e \in events' : \A q \in Requests : Busy(q)' => req'[q].batch # e.id[1]
    BY <2>1, <2>4, <2>6 DEF EventInv
  <2>9. \A e, f \in events' : Reported(e.id[1])' /\ e.id[1] = f.id[1] => e = f
    BY <2>1, <2>3 DEF EventInv
  <2> QED
    BY <2>1, <2>5, <2>6, <2>7, <2>8, <2>9 DEF EventInv
<1>10. ASSUME NEW w \in reports, NEW r \in Requests, Take(w, r) PROVE EventInv'
  <2>1. Single(SelfReport(w))
    BY DEF SelfReport, Single
  <2> QED
    BY <1>9, <1>10, <2>1 DEF Take
<1>11. ASSUME NEW r \in Requests, NEW post \in ClientPosts, Client(r, post)
       PROVE  EventInv'
  <2>1. ~Reported(batches + 1) /\ reports' = reports
    BY <1>1, <1>11 DEF EventInv, Client, Quiet, monVars
  <2>2. ~Reported(req[r].batch)'
    BY <1>11, <2>1 DEF Reported, Client, BearerAuth, TypeOK
  <2> QED
    BY <1>9, <1>11, <2>2 DEF Client
<1>12. ASSUME NEW r \in Requests, Prepare(r) PROVE EventInv'
  <2> DEFINE rows == {Row(r, i) : i \in Valid(req[r].body)}
  <2>1. Single(req[r].body) => Single(rows)
    BY DEF Single, Valid
  <2> HIDE DEF rows
  <2>2. /\ events' = events /\ batches' = batches /\ Busy(r)
        /\ \A q \in Requests \ {r} : req'[q] = req[q]
        /\ req'[r].batch = req[r].batch /\ req'[r].rows = rows
        /\ req'[r].body = {}
    BY <1>12 DEF Prepare, TypeOK, Request, Busy, rows
  <2>3. \A b \in Nat \ {0} : Reported(b)' => Reported(b)
    BY <1>2, <2>2 DEF SameReported
  <2>4. Single({})
    BY DEF Single
  <2>5. \A q \in Requests : Busy(q)' => Busy(q) /\ req'[q].batch = req[q].batch
    BY <2>2 DEF Busy
  <2> QED
    BY <1>1, <2>1, <2>2, <2>3, <2>4, <2>5 DEF EventInv
<1>13. ASSUME NEW r \in Requests, Persist(r) PROVE EventInv'
  <2> DEFINE new == {Inserted(row) : row \in req[r].rows}
  <2>1. /\ events' = events \cup new /\ batches' = batches /\ Busy(r)
        /\ \A q \in Requests \ {r} : req'[q] = req[q]
        /\ req'[r] = Idle
    BY <1>13 DEF Persist, TypeOK, Busy
  <2>2. Reported(req[r].batch) => Single(new)
    BY <2>1 DEF EventInv, Single
  <2>3. \A e \in new : e.id[1] = req[r].batch
    <3>1. \A row \in req[r].rows : row \in Event /\ row.id[1] = req[r].batch
      BY DEF TypeOK, Request, BatchInv
    <3> QED
      BY <3>1 DEF Inserted, Event
  <2> HIDE DEF new
  <2>4. req[r].batch \in 1..batches
    BY <2>1 DEF BatchInv
  <2>5. \A q \in Requests : Busy(q)' => q # r /\ Busy(q) /\ req'[q] = req[q]
    BY <2>1 DEF Busy, Idle
  <2>6. \A e \in events : e.id[1] # req[r].batch
    BY <2>1 DEF EventInv
  <2>7. \A b \in Nat \ {0} : Reported(b)' => Reported(b)
    BY <1>2, <2>1 DEF SameReported
  <2>8. \A q \in Requests : Busy(q)' => req'[q].batch # req[r].batch
    BY <2>1, <2>5 DEF BatchInv
  <2>9. \A e \in events' :
          /\ e.id[1] \in 1..batches'
          /\ \A q \in Requests : Busy(q)' => req'[q].batch # e.id[1]
    BY <1>1, <2>1, <2>3, <2>4, <2>5, <2>8 DEF EventInv
  <2>10. \A e, f \in events' : Reported(e.id[1])' /\ e.id[1] = f.id[1] => e = f
    <3> SUFFICES ASSUME NEW e \in events', NEW f \in events',
                        Reported(e.id[1])', e.id[1] = f.id[1]
                 PROVE  e = f
      OBVIOUS
    <3>1. Reported(e.id[1])
      BY <1>1, <2>1, <2>3, <2>4, <2>7
    <3>2. CASE e \in events
      BY <2>1, <2>3, <2>6, <3>1, <3>2 DEF EventInv
    <3>3. CASE e \in new
      BY <2>1, <2>2, <2>3, <2>6, <3>1, <3>3 DEF Single
    <3> QED
      BY <2>1, <3>2, <3>3
  <2>11. \A q \in Requests : Busy(q)' /\ Reported(req[q].batch)' =>
            Single(req'[q].body) /\ Single(req'[q].rows)
    BY <1>1, <2>5, <2>7 DEF EventInv
  <2>12. \A b \in Nat \ {0} : Reported(b)' => b <= batches'
    BY <2>1, <2>7 DEF EventInv
  <2> QED
    BY <2>9, <2>10, <2>11, <2>12 DEF EventInv
<1> QED
  BY <1>4, <1>5, <1>6, <1>7, <1>8, <1>10, <1>11, <1>12, <1>13
  DEF MonNext, ReportNext, ClientNext, Answer, AnswerClient
-----------------------------------------------------------------------------
\* There are no more events from reports than reports: each is of its own.
LEMMA EventsInjected ==
    ASSUME ReportInv, EventInv
    PROVE  Cardinality({e \in events : OwnEvent(e)}) <= visits
<1> DEFINE own == {e \in events : OwnEvent(e)}
           reportOf == [e \in own |-> CHOOSE w \in reports : w.batch = e.id[1]]
<1>1. \A e \in own : \E w \in reports : w.batch = e.id[1]
  BY DEF OwnEvent
<1>2. \A e \in own : reportOf[e] \in reports /\ reportOf[e].batch = e.id[1]
  BY <1>1
<1>3. \A e, f \in own : reportOf[e] = reportOf[f] => e = f
  <2> HIDE DEF reportOf
  <2> SUFFICES ASSUME NEW e \in own, NEW f \in own, reportOf[e] = reportOf[f]
               PROVE  e = f
    OBVIOUS
  <2>1. e.id[1] = f.id[1]
    BY <1>2
  <2> QED
    BY <1>2, <2>1 DEF EventInv, Reported
<1>4. reportOf \in [own -> reports]
  BY <1>2
<1>5. reportOf \in Injection(own, reports)
  BY <1>3, <1>4 DEF Injection, IsInjective
<1>6. IsFiniteSet(reports) /\ Cardinality(reports) <= visits /\ visits \in Nat
  BY DEF ReportInv
<1> HIDE DEF own, reportOf
<1>7. IsFiniteSet(own) /\ Cardinality(own) <= Cardinality(reports)
  BY <1>5, <1>6, FS_Injection
<1>8. Cardinality(own) <= visits
  BY <1>6, <1>7, FS_CardinalityType
<1> QED
  BY <1>8 DEF own

\* What holds of the events of Ingestion while reports are among them.
LEMMA ReportInvariant == MonSpec => [](TypeOK /\ ReportInv)
<1>1. MonInit => TypeOK /\ ReportInv
  BY TypeInitial, FS_EmptySet, BoundAssumption DEF MonInit, Init, ReportInv
<1>2. TypeOK /\ ReportInv /\ [MonNext]_allVars => TypeOK' /\ ReportInv'
  BY EventPathSteps, TypeInductive, ReportInductive
<1> QED
  BY <1>1, <1>2, PTL DEF MonSpec

\* Every behaviour of the instance that reports on itself is one of Ingestion:
\* a report takes no way to the table but that of a client's request
\* (internal_reporting.go:38-59).
THEOREM ImplementsIngestion == MonSpec => Init /\ [][Next]_vars
<1>1. MonInit => Init
  BY DEF MonInit
<1> QED
  BY <1>1, ReportInvariant, EventPathSteps, PTL DEF MonSpec

\* So the policy bounds the expiry of every event, and the counters account for
\* every event, when the application's reports arrive among those of clients
\* (ingest.go:74-134).
THEOREM ReportsKeepPromises ==
    MonSpec => [](ExpiryWithinPolicy /\ CountersAccountForEvents)
  BY ImplementsIngestion, TypeInitial, TypeInductive, PolicyInitial,
     PolicyInductive, PolicyImplies, CountInitial, BatchInductive,
     CountInductive, CountImplies, PTL

\* And the sweep deletes none of them early, zero-dated ones apart, whose
\* retention passed in the year one (retention.go:12-18).
THEOREM ReportsRetained ==
    ASSUME NoOverflow
    PROVE  MonSpec => RetainedForItsDays
  BY ImplementsIngestion, TypeInitial, TypeInductive, PolicyInitial,
     PolicyInductive, RetentionInitial, RetentionInductive, SweepStep, PTL
  DEF RetainedForItsDays

\* Reporting does not feed on itself, for every number of requests, handlers
\* and faults: the requests that reports make are excluded from reporting, and
\* each report is stored once at most (internal_reporting.go:30).
THEOREM NoFeedbackEver == MonSpec => []NoFeedback
<1>1. MonInit => BatchInv /\ EventInv
  <2> SUFFICES ASSUME MonInit PROVE BatchInv /\ EventInv
    OBVIOUS
  <2>1. BatchInv
    BY CountInitial DEF MonInit
  <2>2. \A r \in Requests : req[r] = Idle
    BY DEF MonInit, Init
  <2>3. EventInv
    BY <2>2 DEF MonInit, Init, EventInv, Busy, Idle, Reported
  <2> QED
    BY <2>1, <2>3
<1>2. TypeOK /\ BatchInv /\ ReportInv /\ EventInv /\ [MonNext]_allVars
         => BatchInv' /\ EventInv'
  BY EventPathSteps, BatchInductive, EventInductive
<1>3. ReportInv /\ EventInv => NoFeedback
  BY EventsInjected DEF NoFeedback, ReportInv
<1> QED
  BY <1>1, <1>2, <1>3, ReportInvariant, PTL DEF MonSpec
-----------------------------------------------------------------------------
(***************************************************************************)
(* Scrapes.  What a scrape showed stays true while its process runs,       *)
(* because the counters of a process only grow; and a process has counted  *)
(* at least what it has stored, by the balance of the counters.            *)
(***************************************************************************)
LEMMA CountersGrow ==
    ASSUME TypeOK, [Next]_vars, up, NEW p \in Projects
    PROVE  counters[p] <= counters'[p]
<1>1. counters[p] \in Nat
  BY DEF TypeOK
<1>2. CASE UNCHANGED counters
  BY <1>1, <1>2
<1>3. ASSUME NEW r \in Requests, Prepare(r) PROVE counters[p] <= counters'[p]
  <2> DEFINE n == Cardinality(Valid(req[r].body))
  <2>1. n \in Nat
    BY RowsFinite, FS_CardinalityType
  <2> HIDE DEF n
  <2>2. counters' = [counters EXCEPT ![req[r].project] = @ + n]
    BY <1>3 DEF Prepare, n
  <2> QED
    BY <1>1, <2>1, <2>2 DEF TypeOK
<1> QED
  BY <1>2, <1>3
  DEF Next, Tick, Start, Boot, Crash, KeyNext, CreateAPIKey, SettingsPage,
      DeleteAPIKey, SetActiveAPIKey, RequestNext, BearerAuth, Refuse, Persist,
      PersistFails, RetentionNext, ReadNow, DeleteExpired, DeleteFails, SweepDue,
      vars

LEMMA StoredWasCounted ==
    ASSUME TypeOK, CountInv, up, NEW p \in Projects
    PROVE  stored[p] <= counters[p]
<1>1. Balance(p) /\ stored[p] \in Nat /\ lost[p] \in Nat
  BY DEF CountInv, TypeOK
<1>2. Count(Pending, p) \in Nat
  <2>1. IsFiniteSet({e \in Pending : e.project = p})
    BY FS_Subset DEF CountInv
  <2> QED
    BY <2>1, FS_CardinalityType DEF Count
<1> QED
  BY <1>1, <1>2 DEF Balance

ShownFor(p) == IF p \in DOMAIN scrape.shown THEN scrape.shown[p] ELSE 0

ScrapeInv ==
    /\ scrape = [pc |-> scrape.pc, project |-> scrape.project,
                 floor |-> scrape.floor, shown |-> scrape.shown]
    /\ scrape.pc # "idle" =>
          /\ up /\ scrape.project \in Projects /\ scrape.floor \in Nat
          /\ scrape.floor <= counters[scrape.project]
    /\ scrape.pc = "done" =>
          /\ DOMAIN scrape.shown \subseteq {scrape.project}
          /\ ShownFor(scrape.project) \in Nat
          /\ scrape.floor <= ShownFor(scrape.project)
          /\ ShownFor(scrape.project) <= counters[scrape.project]

LEMMA ScrapeInductive ==
    ReportInv /\ TypeOK /\ TypeOK' /\ CountInv /\ ScrapeInv /\ [MonNext]_allVars
       => ScrapeInv'
<1> SUFFICES ASSUME ReportInv, TypeOK, TypeOK', CountInv, ScrapeInv,
                    [MonNext]_allVars
             PROVE  ScrapeInv'
  OBVIOUS
<1>1. [Next]_vars
  BY EventPathSteps
<1>2. ASSUME UNCHANGED scrape, up => up' PROVE ScrapeInv'
  <2>1. CASE scrape.pc = "idle"
    BY <1>2, <2>1 DEF ScrapeInv
  <2>2. CASE scrape.pc # "idle"
    <3> DEFINE p == scrape.project
    <3>1. up /\ p \in Projects /\ counters[p] <= counters'[p]
      BY <1>1, <2>2, CountersGrow DEF ScrapeInv
    <3>2. counters[p] \in Nat /\ counters'[p] \in Nat
      BY <3>1 DEF TypeOK
    <3> QED
      BY <1>2, <2>2, <3>1, <3>2 DEF ScrapeInv, ShownFor
  <2> QED
    BY <2>1, <2>2
<1>3. CASE Die
  BY <1>3 DEF Die, NoScrape, ScrapeInv
<1>4. ASSUME NEW k \in Keys, Scrape(k) PROVE ScrapeInv'
  <2> DEFINE p == apiKeys[k].name
  <2>1. /\ up /\ UNCHANGED <<up, counters>> /\ p \in Projects
        /\ scrape' = [pc |-> "gather", project |-> p, floor |-> stored[p],
                      shown |-> <<>>]
    BY <1>4 DEF Scrape, NoScrape, vars, TypeOK, KeyRow
  <2>2. stored[p] \in Nat /\ stored[p] <= counters[p]
    BY <2>1, StoredWasCounted DEF TypeOK
  <2> HIDE DEF p
  <2> QED
    BY <2>1, <2>2 DEF ScrapeInv
<1>5. CASE Gather
  <2> DEFINE p == scrape.project
             shown == [q \in Kept(p) |-> counters[q]]
  <2>1. /\ up /\ UNCHANGED <<up, counters>> /\ p \in Projects
        /\ scrape.floor \in Nat /\ scrape.floor <= counters[p]
    BY <1>5 DEF Gather, vars, ScrapeInv
  <2>2. scrape' = [pc |-> "done", project |-> p, floor |-> scrape.floor,
                   shown |-> shown]
    BY <1>5 DEF Gather, ScrapeInv
  <2>3. counters[p] \in Nat
    BY <2>1 DEF TypeOK
  <2>4. /\ DOMAIN shown \subseteq {p}
        /\ \A q \in DOMAIN shown : shown[q] = counters[q]
        /\ p \notin DOMAIN shown => counters[p] = 0
    BY <2>1, <2>3 DEF Kept
  <2> HIDE DEF p, shown
  <2>5. scrape'.shown = shown /\ scrape'.project = p
    BY <2>2
  <2>6. ShownFor(scrape.project)' = IF p \in DOMAIN shown THEN shown[p] ELSE 0
    BY <2>5 DEF ShownFor
  <2>7. ShownFor(scrape.project)' = counters[p]
    BY <2>4, <2>6
  <2> QED
    BY <2>1, <2>2, <2>3, <2>4, <2>5, <2>7 DEF ScrapeInv
<1>6. ASSUME NEW r \in Requests,
             AnswerClient(r) \/ \E w \in reports : Answer(w)
      PROVE  ScrapeInv'
  BY <1>2, <1>6 DEF Answer, AnswerClient, Persist, PersistFails, Refuse
<1>11. ASSUME NEW r \in Requests, NEW post \in ClientPosts, Client(r, post)
       PROVE  ScrapeInv'
  BY <1>2, <1>11 DEF Client, BearerAuth, Quiet, monVars
<1>7. CASE Visit \/ KeyRequest
  BY <1>2, <1>7
  DEF Visit, KeyRequest, Serve, KeyNext, CreateAPIKey, SettingsPage,
      DeleteAPIKey, SetActiveAPIKey, vars
<1>8. CASE (Tick \/ Start \/ RetentionNext \/ \E r \in Requests : Prepare(r)) /\ Quiet
  BY <1>2, <1>8
  DEF Tick, Start, Boot, RetentionNext, ReadNow, DeleteExpired, DeleteFails,
      SweepDue, Prepare, Quiet, monVars
<1>9. CASE \E w \in reports : \/ Post(w) \/ Reject(w) \/ GiveUp(w)
                              \/ \E r \in Requests : Take(w, r)
  BY <1>2, <1>9 DEF Post, Reject, GiveUp, Take, BearerAuth, vars
<1>10. CASE UNCHANGED allVars
  BY <1>2, <1>10 DEF allVars, vars, monVars
<1> QED
  BY <1>3, <1>4, <1>5, <1>6, <1>7, <1>8, <1>9, <1>10, <1>11
  DEF MonNext, ReportNext, ClientNext, Answer

\* A scrape is true to its project's counter, for any number of handlers,
\* reports and restarts between its two steps (prometheus_metrics.go:24-89).
THEOREM ScrapesAlwaysTell == MonSpec => []ScrapeTells
<1> DEFINE All == BatchInv /\ CountInv /\ ScrapeInv
<1>1. MonInit => All
  BY CountInitial DEF MonInit, NoScrape, ScrapeInv
<1>2. All /\ TypeOK /\ TypeOK' /\ ReportInv /\ [MonNext]_allVars => All'
  BY EventPathSteps, BatchInductive, CountInductive, ScrapeInductive
<1>3. All => ScrapeTells
  BY DEF ScrapeInv, ShownFor, ScrapeTells
<1> QED
  BY <1>1, <1>2, <1>3, ReportInvariant, PTL DEF MonSpec
=============================================================================
