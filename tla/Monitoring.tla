----------------------------- MODULE Monitoring -----------------------------
(***************************************************************************)
(* What api-insight tells of itself, around the event path of Ingestion:   *)
(* every request served is reported to its own POST /v1/events from a      *)
(* goroutine that ignores the outcome (middleware/internal_reporting.go),  *)
(* and GET /v1/metrics answers with the counters of this process for the   *)
(* project of the key given (handlers/prometheus_metrics.go).              *)
(***************************************************************************)
EXTENDS Ingestion

CONSTANTS
    Paths,          \* bound: the paths visited
    Timeout,        \* of the reporting client, 2 seconds
    MaxVisits,      \* bound: requests of people, reports and events apart
    ClientPosts,    \* bound: what clients send to POST /v1/events: [key, body]
    MaxClients      \* bound: clients send while fewer requests were taken

VARIABLES
    visits,         \* such requests so far
    reports,        \* the reports, those still in a goroutine and those over
    scrape          \* a handler of GET /v1/metrics and its answer

monVars == <<visits, reports, scrape>>
allVars == <<vars, monVars>>

\* Mutant: the test forgets the path reports themselves are sent to.
ExcludedButEvents == {"/v1/metrics", "/metrics", "/healthz", "/login"}

\* Paths that are not reported.
Excluded == {"/v1/events", "/v1/metrics", "/metrics", "/healthz", "/login"}

\* The reports a request for path adds: one, unless no internal key is
\* configured or the path is excluded.
NewReports(path) ==
    IF InternalKey = NoKey \/ path \in Excluded THEN {}
    ELSE {[id |-> Cardinality(reports) + 1, pc |-> "new", stamp |-> 0,
           batch |-> 0]}

\* Mutant: the payload names the path in another field.
SelfReportNoPath(w) == {[n |-> 1, path |-> FALSE, stamp |-> w.stamp]}

\* The body of a report.
SelfReport(w) == {[n |-> 1, path |-> TRUE, stamp |-> w.stamp]}

\* The bodies of reports and clients are request bodies of the event path.
ASSUME ReportAssumption ==
    /\ \A t \in 0..MaxClock : SelfReport([stamp |-> t]) \in Payloads
    /\ ClientPosts \subseteq [key : Keys, body : Payloads]

\* Report w goes on to pc.
Moved(w, pc) == (reports \ {w}) \cup {[w EXCEPT !.pc = pc]}

NoScrape == [pc |-> "idle", project |-> InternalName, floor |-> 0,
             shown |-> <<>>]
-----------------------------------------------------------------------------
MonInit == Init /\ visits = 0 /\ reports = {} /\ scrape = NoScrape

Quiet == UNCHANGED monVars

\* A request that changes nothing here, or one for the key table.
Serve(path) ==
    /\ up /\ visits < MaxVisits
    /\ visits' = visits + 1 /\ reports' = reports \cup NewReports(path)
    /\ UNCHANGED scrape
Visit == (\E path \in Paths : Serve(path)) /\ UNCHANGED vars
KeyRequest == KeyNext /\ Serve("/settings")

\* A client sends events of its own, with any key, the internal one included.
Client(r, post) ==
    /\ batches < MaxClients
    /\ BearerAuth(r, post.key, post.body) /\ Quiet

\* The goroutine reads the clock and posts.
Post(w) ==
    /\ up /\ w.pc = "new"
    /\ reports' = (reports \ {w})
                     \cup {[w EXCEPT !.pc = "posted", !.stamp = clock]}
    /\ UNCHANGED <<vars, visits, scrape>>

\* The server takes the request, in time or after the client has given up ...
Take(w, r) ==
    /\ w.pc = "posted"
    /\ BearerAuth(r, InternalKey, SelfReport(w))
    /\ reports' = (reports \ {w})
                     \cup {[w EXCEPT !.pc = "taken", !.batch = batches + 1]}
    /\ UNCHANGED <<visits, scrape>>

\* ... or refuses it, there being no such key or the key being inactive ...
Reject(w) ==
    /\ up /\ w.pc = "posted"
    /\ ~(apiKeys[InternalKey] # NoKey /\ apiKeys[InternalKey].active)
    /\ reports' = Moved(w, "refused") \cup NewReports("/v1/events")
    /\ UNCHANGED <<vars, visits, scrape>>

\* ... or never gets it before the client's timeout.
GiveUp(w) ==
    /\ up /\ w.pc = "posted" /\ clock >= w.stamp + Timeout
    /\ reports' = Moved(w, "lost")
    /\ UNCHANGED <<vars, visits, scrape>>

\* The handler of a report, or of a client, ends, and the middleware looks at
\* its path.
Answer(w) ==
    \E r \in Requests :
       /\ w.pc = "taken" /\ w.batch = req[r].batch
       /\ \/ Persist(r) /\ reports' = Moved(w, "stored") \cup NewReports("/v1/events")
          \/ /\ PersistFails(r) \/ Refuse(r)
             /\ reports' = Moved(w, "failed") \cup NewReports("/v1/events")
       /\ UNCHANGED <<visits, scrape>>
AnswerClient(r) ==
    /\ \A w \in reports : w.batch # req[r].batch
    /\ Persist(r) \/ PersistFails(r) \/ Refuse(r)
    /\ reports' = reports \cup NewReports("/v1/events")
    /\ UNCHANGED <<visits, scrape>>

\* A crash takes the goroutines and the scrape with it.
Die ==
    /\ Crash
    /\ reports' = {IF w.pc \in {"new", "posted", "taken"}
                   THEN [w EXCEPT !.pc = "lost"] ELSE w : w \in reports}
    /\ scrape' = NoScrape
    /\ UNCHANGED visits
-----------------------------------------------------------------------------
\* The lookup of an active key; floor is auxiliary: what had been stored then.
Scrape(k) ==
    /\ up /\ scrape.pc # "gather"
    /\ apiKeys[k] # NoKey /\ apiKeys[k].active
    /\ scrape' = [NoScrape EXCEPT !.pc = "gather", !.project = apiKeys[k].name,
                                  !.floor = stored[apiKeys[k].name]]
    /\ UNCHANGED <<vars, visits, reports>>

\* Mutant: series of other projects are kept.
KeptAll(project) == {p \in Projects : counters[p] > 0}

\* The series of a family that the answer keeps; a family without any is left
\* out, and a series exists once it has been counted.
Kept(project) == {p \in Projects : counters[p] > 0 /\ p = project}

Gather ==
    /\ up /\ scrape.pc = "gather"
    /\ scrape' = [scrape EXCEPT !.pc = "done",
                     !.shown = [p \in Kept(scrape.project) |-> counters[p]]]
    /\ UNCHANGED <<vars, visits, reports>>
-----------------------------------------------------------------------------
ReportNext ==
    \/ \E w \in reports : \/ Post(w) \/ Reject(w) \/ GiveUp(w)
                          \/ Answer(w) \/ \E r \in Requests : Take(w, r)

ClientNext ==
    \E r \in Requests :
       \/ \E post \in ClientPosts : Client(r, post)
       \/ AnswerClient(r)

MonNext ==
    \/ (Tick \/ Start \/ RetentionNext \/ \E r \in Requests : Prepare(r)) /\ Quiet
    \/ Visit \/ KeyRequest \/ Die \/ ReportNext \/ ClientNext
    \/ (\E k \in Keys : Scrape(k)) \/ Gather

\* The clock runs, the process is restarted, and the scheduler runs the
\* worker, the goroutines and the handlers; a connection to this host is
\* accepted.
MonFairness ==
    /\ WF_allVars(Tick /\ Quiet) /\ WF_allVars(Start /\ Quiet)
    /\ WF_allVars(ReadNow /\ Quiet) /\ WF_allVars(SweepDue /\ Quiet)
    /\ WF_allVars((DeleteExpired \/ DeleteFails) /\ Quiet)
    /\ \A r \in Requests :
          WF_allVars(Prepare(r) /\ Quiet) /\ WF_allVars(AnswerClient(r))
    /\ \A i \in 1..MaxVisits :
          WF_allVars(\E w \in reports :
                        /\ w.id = i
                        /\ \/ Post(w) \/ Reject(w) \/ Answer(w)
                           \/ \E r \in Requests : Take(w, r))

MonSpec == MonInit /\ [][MonNext]_allVars /\ MonFairness
-----------------------------------------------------------------------------
(***************************************************************************)
(* Properties.                                                             *)
(***************************************************************************)
\* Was the event stored from a report?
OwnEvent(e) == \E w \in reports : w.batch = e.id[1]

\* Reporting does not feed on itself: however reports are answered, refused
\* or lost, and however many events clients send, there are no more reports
\* than requests to other paths, and the table has no more events from them
\* (internal_reporting.go:30).
NoFeedback ==
    /\ Cardinality(reports) <= visits
    /\ Cardinality({e \in events : OwnEvent(e)}) <= visits

\* Once faults have stopped, a request reported becomes a stored event unless
\* the key is missing or off, or the client has given up before the server
\* took the report: it is never refused for what it says, and never waits for
\* ever (internal_reporting.go:38-59, ingest.go:52-134).
VisitEventuallyRecorded ==
    \A i \in 1..MaxVisits :
       (faults = MaxFaults /\ \E w \in reports : w.id = i /\ w.pc = "new")
          ~> (\E w \in reports : w.id = i /\ w.pc \in {"stored", "refused", "lost"})

\* A scrape shows the counter of its key's project alone, no lower than what
\* this process had stored for it when the scrape began and no higher than
\* what it has counted since, with handlers at work between the two
\* (prometheus_metrics.go:24-89, ingest.go:123).
ScrapeTells ==
    scrape.pc = "done" =>
       LET p == scrape.project
           n == IF p \in DOMAIN scrape.shown THEN scrape.shown[p] ELSE 0
       IN  /\ DOMAIN scrape.shown \subseteq {p}
           /\ scrape.floor <= n /\ n <= counters[p]
=============================================================================
