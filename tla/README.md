# API Insight in TLA+

A verification project for API Insight, the service in this repository that
receives request events from other APIs, keeps them for a while, aggregates
them hourly and shows them on a dashboard. It consists of TLA+ modules that
model the program, TLC configurations that check them on small instances, and
proofs checked by TLAPS that hold for every instance.

Source lines below are `file:line` under `src/`; `PROJECT.json` has the
line-by-line map from definitions to the code.

## 1. The system

One Go process and one PostgreSQL database. `main.go` loads the configuration,
connects, starts two background goroutines, bootstraps the administrator and
the internal API key, and serves HTTP; every request runs in a goroutine of its
own. There is no lock, transaction or channel in the program's own code: what
its goroutines share is the database, one SQL statement at a time, and a pair
of Prometheus collectors.

| component | state | operations | models |
|---|---|---|---|
| Configuration (`config.go`) | environment of the process | Load | Ingestion, Accounts |
| Event ingestion (`ingest.go`, `middleware/auth.go`) | table `events`, counters, the handlers' copies | BearerAuth, IngestHandler | Ingestion |
| Retention worker (`retention.go`) | its `now`, its ticker | startup pass, daily pass | Ingestion |
| Aggregation worker (`aggregation.go`) | table `metric_buckets`, its pass, its ticker | startup loop over 24 hours, hourly pass | Aggregation, MetricRow, Hours; Analytics |
| Bootstrap (`main.go`, `db.go`) | tables `users`, `api_keys` | EnsureBootstrapAdmin, EnsureBootstrapAPIKey | Accounts, Ingestion |
| Users and passwords (`users.go`, `handlers/auth.go`, `admin_auth.go`) | table `users` | AdminAuth, create, reset, delete, change own password | Accounts |
| API keys (`apikeys.go`, `dashboard.go`) | table `api_keys` | create, delete, activate, settings page | Accounts, Ingestion |
| Metrics queries (`metrics.go`, `event_detail.go`) | none: reads | RecentEvents; the charts; cards, top routes, attributes, one event | RecentPanel, Charts, MetricsQueries |
| Metrics page (`web/metrics.html`) | offset, limit, filter, stream, buttons, what is drawn | clicks, polls, responses | RecentPanel (realtime panel), MetricsQueries (cards, top routes, breakdown, overlay) |
| Prometheus endpoint (`prometheus_metrics.go`) | none: reads the counters | scrape | Monitoring |
| Self-reporting (`internal_reporting.go`) | goroutines with a report each | one POST per request served | Monitoring |
| Layout, templates, formatting; request plumbing | none | | no |

How they interact:

- A client's POST goes through BearerAuth, which reads the key's row once, and
  IngestHandler, which works on that copy: a key may be switched off, deleted
  or recreated while its request is still being served.
- Retention deletes from `events` while ingestion inserts and aggregation
  reads. Aggregation re-reads hours it has aggregated before.
- Dashboard handlers read the session's user (AdminAuth), look up the row they
  are to change and write it back by id: three statements with others between.
- The bootstrap touches the same rows as the settings page does later.
- The metrics page sends requests without waiting for the ones before, and
  most of its panels are drawn from several statements.
- The instance reports every request it serves to its own ingestion, from a
  goroutine that does not look at the answer.
- A scrape of `GET /v1/metrics` reads the counters while handlers change them.

What is hard in it: interleaved statements of handlers and workers; copies that
are out of date when used; crashes between two statements and restarts with
another configuration; failed statements in the middle of a pass; tickers that
drop ticks; the instants of expiry and of hours; two tables that tell the same
story at different times; paging through a changing table; a server that is its
own client. `PROJECT.json` lists these hazards with their lines and the properties
aimed at them.

What makes each component correct:

- *Ingestion and retention*: an event lives at least its retention and does not
  live forever; counters agree with what was stored.
- *Aggregation*: a bucket stands for a whole hour, counts each event once, is
  consistent in itself and never loses what it counted; no hour is left out.
- *Bootstrap, users and keys*: the configured administrator exists and cannot
  be changed from the dashboard; every key has an owner; the internal key is
  the administrator's; concurrent requests undo nothing of each other.
- *Metrics page and queries*: it shows what was asked for, paging misses
  nothing, and numbers that belong together agree.
- *Self-reporting and scrapes*: reports do not breed reports, a report is
  stored unless refused or lost, and a scrape is true to what was stored.

## 2. Modules

### Ticker
The Go runtime's ticker as both workers use it (external): a tick nobody
receives is dropped and the next stays on the original grid.

### Ingestion
`POST /v1/events` from authentication to deletion. State: the clock, `up`,
`cfgDays` (`cfg.RetentionDays`), the tables `apiKeys` and `events`, one handler
record per slot (`req`), the Prometheus counters, the retention worker (`ret`)
and its ticker (`nextSweep`). A handler's steps are those between which others
can run: `BearerAuth` (the SELECT and the copy), `Prepare` (clock read, rows
built, counters incremented; nobody else sees its parts) or `Refuse`, and
`Persist` or `PersistFails` (the INSERT). `ReadNow` and `DeleteExpired` are the
two steps of a sweep. `Boot` is main: configuration, worker, internal key.
`Inserted` and `Duration` model what GORM does to a zero `CreatedAt` and what
int64 does to a long retention. `stored`, `lost`, `maxDays` (the longest
retention some process was configured with, 0 before the first) and the `days`
of an event are auxiliary. Owners of keys are left to Accounts; an event's
method, route, status and attributes reach no decision here and are left out.

### Aggregation, MetricRow, Hours
`Aggregation` is the worker against the tables: `StartAggregationWorker`,
`Scan` (the one read of the hour), `WriteGroup` (lookup and upsert of one
group; only this worker writes the table, so the two statements are one step),
`PassFails` (the early return on an error, at any statement), `EndPass` (the
loop and the creation of the ticker) and `ReceiveTick`. Ingestion and retention
are its environment: `Store` with a timestamp before or after the arrival or Go's
zero time, and with the retention of some key, and `Expire` by each event's own
`expires_at` (an event sent with the zero time is stored as of now and has
expired already, ingest.go:94 and 104). The constant `Prompt` says whether a pass ends in the hour in which
it became due; the code has no such guarantee, so runs exist for both values.
`MetricRow` is the row computed from one group's events, with the percentile as
the element of a given rank; `PercentileProofs` proves that this is the element
the code indexes in its sorted slice. `Hours` is what both sides of the tables
share: how time is cut into hours, and when an event is on time or expired.

### Analytics, Charts
`Analytics` is abstract: what the tables `events` and `metric_buckets` promise
to a reader, without worker, passes, ticks or restarts. An accepted event stays
until its own `expires_at`, which may lie before its `created_at`; a row is of an
hour that is over, counts every event of its group and hour that came in time
and has not expired, and nothing that is not of them. `Aggregation` instantiates it (`Reader`, with the tables
substituted and the worker hidden) and is shown to implement it:
`ImplementsAnalytics` is `Reader!Spec`. `Charts` extends it with the handlers
behind the three charts, `TrafficSeries` over the raw events (by the hour, or
by the half hour for short ranges, from a cutoff in the middle of either) and
`ErrorRateSeries` and `LatencyPercentilesSeries` over the rows. A point's label
is part of the model: the database writes those of the traffic chart in the time
zone of its session (`SlotOf`, `SessionZone`), Go those of the other two in the
zone in which the driver reads a time (`RowLabel`, `ProcessZone`), all with a Z.

### Accounts
Users, keys, bootstrap and the dashboard handlers that write them. A handler
goes through `auth` (AdminAuth's copy of the user), for some requests `listed`
and `loaded` (the row it looked up), and its write. `main` runs through
`admin` and `key` to `serving`. The database's constraints (unique usernames,
unique key values, the foreign key from `api_keys.user_id`) are in
`InsertUser`, `InsertKey` and `DeleteUser`; GORM's `Save` writes all columns,
`Update ... WHERE id` of a row that is gone does nothing. `StatementFails` is any
statement of a handler going wrong: the handler answers with an error, but for
the settings page, which takes a failed lookup of the internal key for there
being none and ignores the errors of its `Create` and its `Save`
(dashboard.go:160-171). `clean` of a handler says that none of its statements
has failed, and is auxiliary. A password hash is the password it matches. `Configs` is the set of environments of the process's
successive starts. `Ops` restricts a run to the requests its question is about.

### RecentPanel
The realtime events panel of the metrics page and RecentEvents behind it. A
request is sent with the limit, offset and filter of that moment; the handler
counts (`CountEvents`), then reads the page (`FindEvents`); the response is
drawn (`Draw`) or fails (`FetchFails`). The user's clicks and the timer are
actions of their own. `Store` inserts a batch as one statement, with the times
its client or the insert's clock gives its events, so that several may share an
instant; `ORDER BY created_at DESC` leaves their order open (`Leads`), and it may
differ from one statement to the next (`PagesOf`). `Expire` deletes any events,
since `expires_at` need not follow `created_at`. `settled`, `current`, `walk` and a
request's `owed` are auxiliary. `walk` follows a patient user from page 1 by
Next: what page 1 owed him, what he has been shown, and how many rows the pages
had that he asked for and never saw, because the request failed and Next, which
had advanced the offset, stayed enabled (metrics.html:1234, 1196-1199).

### MetricsQueries
The rest of the metrics page with the handlers it asks. The page asks for some
kinds of requests at once (`Ask`: `Open`, `ChangeStatus`, `ChangeRange`, the page
size and buttons, `SelectKey`, `OpenEvent`); each request consists of statements
(`Parts`: three requests for the cards, three statements of one handler for the
top routes) that `Read` one at a time, with `Arrive` (a batch), `Leave` and `Tick`
between any two of them; `Draw` and `Fail` end it, in any order. A request has a
cutoff, `since`, its range before the time its handler began, and reads the
events since then (`InView`, `Follow`). A statement's result is kept as the set of
rows it aggregates, so that a property can say which rows a number missed.
`Pages` is `ORDER BY count(*) DESC` with a limit and an offset, ties in any order.
`paging` holds the routes' buttons as the last draw left them: they act on the
offset of the moment, so that a second click on Prev can come before they are
drawn again. The overlay is in two parts, as in the page: its fields
(`shown["event"]`), which `Loading` and a failure replace, and its subtitle and
attributes (`aside`), which a failure leaves (metrics.html:1290-1353). The panels
share nothing but the table, so a behaviour watches one of them (`panel`).
`steady`, `seen`, `latest` and `lapse` (the list of keys in which the selected key
was missing) are auxiliary.

### Monitoring
`Ingestion` composed with what the application tells of itself. `Serve` is the
middleware around a request: `NewReports` starts a goroutine unless no internal
key is configured or the path is excluded. A report is posted (`Post`), taken
by a handler of Ingestion (`Take`, which is `BearerAuth` with the internal key),
refused (`Reject`) or never reaches the server before the client gives up
(`GiveUp`, after `Timeout`); `Answer` ends its handler, whether or not anybody
still waits. Clients post events of their own, under any key, the internal one
included (`Client`, `AnswerClient`). All these requests pass the same middleware
as people's. `Die` is a crash
with goroutines under way. `Scrape` and `Gather` are the two steps of a scrape,
the lookup of its key and the reading of the counters. The key table's handlers
and the retention worker go on as in Ingestion.

The `MC` modules define the payloads, environments and symmetries of the
checked instances; the `Proofs` modules hold the theorems (section 5).

## 3. Runs

Passing runs:

| run | shows | bounds |
|---|---|---|
| ingestion | `TypeOK`; `ExpiryWithinPolicy`: no event outlives the longest retention some process was configured with, and none is without expiry; `CountersAccountForEvents`; `RetainedForItsDays`: nothing is deleted early | two handlers at once, an ordinary and the internal key, restarts with another retention (one configured, one that falls back to the default), one failed statement or crash, events dated by the server, in the past, ahead, and with Go's zero time, valid and invalid items in one body; a day is one clock unit |
| monitoring | `NoFeedback`, `ScrapeTells`, `VisitEventuallyRecorded`, `ExpiredEventuallyDeleted` | one request of people, on a reported or an excluded path, and one of a client, under the ordinary or the internal key, two handlers, two requests to ingestion, time-out of one clock unit, a day of two, so that retention passes a report within the clock; one crash or failed statement |
| metrics_queries | `TypeOK` (no page of routes begins before the first), `CardsAddUp`, `RoutesAddUp`, `PagingFollowsControls`, `BreakdownOfSelection`, `EventIsTheOneOpened` | events of five shapes (own and another user's, two projects, two routes, error and success, with and without an attribute, older and newer than the short range), one for the cards and the breakdown, a batch of two for the routes, two for the overlay; two ranges, pages of one and two routes; two overlapping requests of a kind, three of the breakdown; of the routes the first page, one select and two clicks or three clicks; one failure, but none of the routes; one tick of the clock for the cards and the breakdown |
| aggregation_tables | `TypeOK`, `OnlyCompletedHours`, `NothingCountedTwice`, `RowsConsistent`, `ChartsAgree`, `LatencyOfTraffic`, `ImplementsAnalytics`; `PassCountsAll`: a pass that no fault interrupts leaves out no event that came in time | passes at any pace, two groups, errors and successes, two events, each dated on arrival, an hour and a half before, ahead, or with the zero time, a retention of an hour and a half, which the clock of three hours passes; every range up to the clock; both zones an hour ahead of UTC |
| aggregation_prompt | `NoHourSkipped`, `CountsNeverShrink`, `EventuallyCounted` | `Prompt`, retention longer than the backfill, two events, which may carry the zero time, one fault |
| accounts_users | `TypeOK`, `AdminExists`, `OwnersExist`, `AdminRowFixed` | two handlers, two users, a restart that renames the administrator |
| accounts_keys | `InternalKeyKept`, `SettingsPageRepairs`, `NoToggleLost` | two handlers, three failed bootstraps or statements, restarts that move the internal key to another administrator or make a generated key the internal one |
| panel_any_order | `TypeOK`, `StreamingLocksPaging`, `PrevLeadsBack`, `StreamShowsNewest` | an impatient user, two requests under way, answers in any order, two events of the same or different instants |
| panel_patient | `ShownIsWanted`, `OnlyFailedPagesSkipped` | the user waits between actions; polls may overlap; three events at three instants or fewer, in any batches, deleted in any order; two failed requests |

The bounds are small because the code's units are: a handler shares rows, not
numbers of rows, with the others, so two handlers (or one and a worker) meet in
every way two statements can; a restart is interesting once; hours and days are
a few clock units so that a clock of a dozen units crosses several. Sequences
longer than these bounds are the proofs' business.

Every run sets `CHECK_DEADLOCK FALSE`: the clock and the counters of requests,
events, ids and faults are bounded, and when they are used up nothing is left
to happen.

Each property is checked to be able to fail: for every one a mutant of a mapped
definition (beside the definition in its module, marked `Mutant:`) makes TLC
report it violated under the same configuration.

Runs that show the code disagreeing with what the repository says of it
(`findings` in `PROJECT.json` quotes both sides):

| run | disagreement |
|---|---|
| aggregation_skip | the hour in which the process started is never aggregated if the startup loop outlasts it (aggregation.go:90): the loop takes its hours from its beginning, and the ticker, created at its end, first fires in the hour after the next |
| aggregation_shrink | a restart can overwrite an hour's counts by what retention has left of it (models.go:49) |
| accounts_button | the activate and deactivate buttons do nothing (settings.html:95) |

Met while modelling, and kept in the models as the code has them, but without a
run of their own:

- Keys are clamped to the configured retention only when they are created
  (apikeys.go:39), while config.go:17 speaks of "any individual API key": after
  a restart with a smaller `APP_RETENTION_DAYS` an old key keeps its days.
  `ExpiryWithinPolicy` therefore speaks of the longest maximum ever configured,
  and does not catch this.
- `requests_total`, the "ingested API requests" (ingest.go:28), counts events
  before their INSERT (ingest.go:123), also those whose INSERT fails:
  `CountersAccountForEvents` counts them as `lost`.
- A retention of more than 106751 days overflows `time.Duration` (ingest.go:104)
  and gives an expiry in the past: `RetentionRespected` assumes that this does
  not occur, and no run reaches it. An event with Go's zero time is stored as of
  now but expires from the year 1 (ingest.go:94): the next sweep deletes it. What
  is said of retention is therefore said of an event's own `expires_at`
  (`RetainedForItsDays`, `Analytics`, `PassCountsAll`); the charts may differ by
  such an event (`Doubtful`), and a bucket that has counted it may lose it when its
  hour is aggregated again (`NotKept` in `CountsNeverShrink`).
- The labels of the charts' points are times with a Z made by two clocks: the
  traffic chart's by `to_char` in the time zone of the database session
  (metrics.go:106-108), the others' from the fields of the time as the driver
  returns it in the zone of the process (metrics.go:345-347, 382-384). The comment
  "BucketStart is stored as UTC; interpret as UTC" (metrics.go:344) is true of a
  process in UTC. If the zones differ, the points of one hour stand under
  different labels, and if a session's zone is not whole hours from UTC the
  traffic chart cuts other hours than the worker. Nothing in the repository sets
  either; the image has no `TZ`, so both are UTC by default. The properties are
  checked for two equal zones an hour ahead, and proved for any two that are equal
  and whole hours ahead (`SameZone`).
- The settings page shows a key it has failed to create or to take over as if it
  had succeeded (dashboard.go:168, 171): `SettingsPageRepairs` is stated for pages none of
  whose statements fails, and says of the others that they do no harm.
- user.go:19 says that `IsAdmin` marks users who can manage other users; the
  handlers for users look at the session and the configured name only, and
  `IsAdmin` decides about other users' keys (apikeys.go:101, 144).
- `.env.example:8` says that aggregates are retained for `APP_RETENTION_DAYS`;
  nothing deletes them.
- A changed `APP_ADMIN_PASSWORD` has no effect on an existing administrator
  (db.go:51), though settings.html:179 sends the user to the environment.
- The panel says "No events yet." (metrics.html:1114) of any empty page, also of
  one beyond the end, which a filter chosen on a later page can lead to
  (metrics.html:740).
- The branch that stops the stream when the user pages (metrics.html:1219-1225)
  is never taken: the buttons are disabled while streaming
  (`StreamingLocksPaging`). The model keeps its assignment.
- The error rate and latency charts are empty for the last 30 minutes and
  mostly so for the last hour: they read rows of completed hours whose start
  lies within the range (metrics.go:327, 369). With no project selected they
  have one point for each project and hour. `ChartsAgree` speaks of the hours
  they do show.
- The largest range a chart offers is the longest retention of the keys that
  exist (dashboard.go:70-107), which can be shorter than what is still stored
  under a deleted key or an earlier setting.
- A failed Next of the realtime panel leaves the offset advanced and the button
  enabled (metrics.html:1234, 1196-1199): the next click passes over a page.
  `OnlyFailedPagesSkipped` allows for as many events as those pages hold, and for
  none if no request failed. Nor can a walk show for certain an event that shares
  its `created_at` with another, as those of a batch do (ingest.go:73), since
  nothing orders them, or one that moves to an earlier page because a newer event
  is deleted; the property does not count these.
- Counts of top routes with equal counts have no order (metrics.go:186): paging
  may repeat or omit such a route. The offset of that table is not reset by a
  new filter or range (metrics.html:735, 714), only by a new page size (metrics.html:973).
  Its buttons are those of the answer drawn last but act on the current offset:
  with a late answer to an earlier request Next may lead to an empty page, until
  the latest answer is drawn (`PagingFollowsControls`).
- The keys offered in the breakdown are those of all projects and statuses
  (metrics.go:437), so one without a count here may be offered. Ingestion takes
  any name for an attribute, but the counts refuse one that is not
  `[a-zA-Z0-9_]+` (metrics.go:16), for example "user-agent"; the names in the
  model are acceptable ones.
- Cards, charts, counts and overlay show the answer that arrives last, which
  need not be the one asked for last (metrics.html:1281):
  `BreakdownOfSelection` and `EventIsTheOneOpened` speak of the time when the
  latest answer is also the one drawn last.
- Every list of keys that arrives rebuilds the breakdown's selector
  (metrics.html:1048-1064). A late answer to an earlier request can so deselect
  a key that the newest list offers again, and the key's counts stay in the
  table below "Select attribute". What `BreakdownOfSelection` allows to stay is
  therefore measured by the list that deselected the key (`lapse`), not by the
  one drawn last. And if that list was asked for under a shorter range, which the
  user has left again, the key is deselected though nothing has moved: the
  property excepts that case, which is the page's.
- When an event cannot be loaded, the overlay says so among its fields and keeps
  the subtitle, and the attributes of an answer to an earlier request that has
  come in between (metrics.html:1347-1353). `EventIsTheOneOpened` speaks of
  the overlay while it shows an event.
- A project is a key's name, which several users may choose (apikey.go:19): a
  scrape shows the sum of all of them (prometheus_metrics.go:45-89, ingest.go:84),
  and `ScrapeTells` speaks of the project in that sense.
- A report carries the time at which its goroutine runs, not that of the
  request, and the response's body is not closed (internal_reporting.go:36-59).

## 4. Fairness

- The clock ticks, and a process that is down is started again (a container
  runtime does that); a crash is never fair.
- The workers' steps are weakly fair: a goroutine that can run is run by the
  scheduler, and a statement ends, with success or an error. Weak fairness is on
  the disjunction of the two outcomes, so a property that needs success has to
  say that faults have stopped.
- A handler that has begun goes on. In `Accounts` its statements may fail; that is
  never fair. Nothing is assumed of clients, users,
  ingestion or retention (where they are the environment).
- The page's interval timer fires and its requests are handled.
- In `Monitoring` the goroutine of a report runs, a connection to the same host
  is accepted, and the server goes on with the handler it has begun, by weak
  fairness for each report. The client's time-out is an action that is never
  forced: it may come first, and `VisitEventuallyRecorded` allows for it.
- `MetricsQueries` and `Analytics` state no fairness; their properties are of
  safety.

`ExpiredEventuallyDeleted` and `EventuallyCounted` speak of the tick that comes
next, provided the model's clock still reaches it.

## 5. Proofs

`IngestionProofs` proves, for all values of the constants of `Ingestion` that
satisfy its named assumptions (no bound on keys, requests, payload sizes,
environments, clock or faults):

- `TypeCorrect`: `Spec => []TypeOK`. `TypeOK` is inductive. It rests on
  `RowType` and `RowsFinite` (the rows a request builds are events and finitely
  many), `LoadPositive` (`config.Load` yields a positive number of days) and
  `IdleType`.
- `ExpiryPolicy`: `Spec => []ExpiryWithinPolicy`. The property is not
  inductive: an event is built from a copy of a key that may be gone, with a
  number of days that must not exceed what was ever configured. `PolicyInv`
  strengthens it with: the running configuration, every key and every handler's
  copy stay within `maxDays`, which nothing but a loaded configuration raises. The inductive step is `PolicyInductive`.
- `RetentionRespected`: if no retention overflows a duration (`NoOverflow`), no
  step deletes an event early. The assumption is needed: section 3 says what
  happens without it. The strengthening `RetentionInv` says of every event,
  stored or pending, that its expiry is its timestamp plus its days, and of the
  worker that the `now` it holds is not ahead of the clock.
- `CountersAlwaysAccount`: `Spec => []CountersAccountForEvents`, a balance of
  cardinalities. A crash empties both sides; every other step moves a set of
  rows from one side to another. That the sets are disjoint is `BatchInv`:
  requests under way have numbers of their own, which their rows carry. That a
  request counts as many events as it has rows is a bijection (`RowsCounted`),
  since the items of a body have different places in it.

`MonitoringProofs`, for any number of requests, reports, handlers, keys and
faults, and any time-out:

- `NoFeedbackEver`: `MonSpec => []NoFeedback`. `EventPathSteps` shows that every
  step of `Monitoring` is one of `Ingestion` or leaves its variables alone, so
  that the invariants proved there hold here. `ReportInv` bounds the reports by
  the visits; it is inductive because the path of reports is excluded
  (`NoneOfReports`). The bound on the events needs `EventInv`: each event, and
  each request under way, is of a report of its own. The events therefore
  inject into the reports (`EventsInjected`). It assumes `ReportAssumption`,
  that the bodies of reports are among the payloads of `Ingestion`.
- `ScrapesAlwaysTell`: `MonSpec => []ScrapeTells`. `ScrapeInv` says of a scrape
  under way that its process runs and that its floor is not above the counter;
  that holds when the scrape begins by the balance `CountInv`
  (`StoredWasCounted`) and from then on because counters only grow while a
  process runs (`CountersGrow`).
- `ImplementsIngestion`, `ReportsKeepPromises`, `ReportsRetained`: every
  behaviour of `Monitoring` is one of `Ingestion` (its safety part), so that
  what section 3 says of expiry, counters and early deletion holds of the
  application's own events, among those of clients, as well.

`AggregationProofs`, for any groups, events, timestamps, durations, clock,
retentions and `Prompt`, the zero time included, with any number of late ticks, failed statements and restarts. One
inductive invariant `AggInv` carries all four theorems: `TypeOK`, `EventsInv`
(stored events were accepted, finitely many), `PassInv` (the hour of a pass is
whole and over, and the
rows it has still to write are right for the events it has read) and
`BucketsInv` (the same of the rows written). It is needed because a bucket is
right only if the row was right when it was computed, several steps and a
thousand other statements earlier. The step of writing a group moves a row from
`PassInv` to `BucketsInv`; `Scan` is where rows come from, by the lemmas about
`MetricRow` in `PercentileProofs`.

- `TypeCorrect`, `CompletedHours`, `CountedOnce`, `BucketsConsistent`: `Spec`
  implies always `TypeOK`, `OnlyCompletedHours`, `NothingCountedTwice`,
  `RowsConsistent`.

- `HoursWithoutGaps`: for a prompt worker (`Prompt`), `NoHourSkipped`. It is not
  inductive: `SkipInv` says for each point of the worker which hours are done.
  In the startup loop (`LoopInv`) all those before the one at hand; at a tick
  (`TickInv`) all up to the one the tick is for; waiting (`WaitInv`) all up to
  the one the next tick will be for. That no tick is dropped is where `Prompt` is
  used; the run aggregation_skip shows it is needed.
- `CountsKept`: for a prompt worker and `KeptLongEnough`, `CountsNeverShrink`.
  The second assumption is that every key's retention outlasts the backfill by an
  hour (by default 30 days against 24 hours, config.go, aggregation.go:96);
  aggregation_shrink shows that it is needed. It does not help an event sent with
  the zero time, which is why the property lets a bucket lose those (`NotKept`).
  `KeptInv` says that what is missing from `events` has expired, and that an event
  expires a retention after its `created_at` or before it, and `TodoInv` that a row
  still to be written counts at least what a bucket of its group and hour has, but
  for events not kept: all others were still there when the pass read them.

`PercentileProofs`: the percentile of rank k is defined as a least value, so
that it exists and is monotonic in the rank follows from `LeastNatural` and
`GreatestOfFinite` instead of an induction over a sorted list.

- `PercentileIsIndexed`: for every sorted arrangement of the durations the
  definition is the element at the index the code computes (aggregation.go:57),
  and that index is inside the slice. Sorting itself is the library's.

`AnalyticsProofs` shows the refinement:

- `Implements`: `Spec => Reader!Spec`, with `events` for `live`, `buckets` for
  `table` and the worker hidden. `Store` maps to `Accept`, `Expire` to `Forget`,
  the writing of a group to `Publish`, and everything else to a stutter. The
  hard case is the write: the row was computed from a read made earlier. Nothing
  is assumed of `expires_at`, not even that it follows `created_at`.
  `RefInv` strengthens `AggInv` by `KeptInv` and by every unwritten row being
  `Faithful`, that is, still counting
  all that Analytics asks of it: `FaithfulStays` shows that arrivals, which in
  an hour that is over are late, and expiries only ask for less.
- `PassesCountAll`: `Spec => PassCountsAll`, the safety half of
  `EventuallyCounted`, without `Prompt`. `DueInv` says of a pass that is writing
  that each group with something to count has a row, in the table or still to be
  written. What must be counted of an hour that is over only becomes less
  (`WantedShrinks`), a write takes no other group's row away (`WriteProvides`),
  and rows in the table are `Faithful`, so at the end they count enough.

and, for any range, group and instance of Aggregation in which the database
session and the process write labels in the same zone, whole hours from UTC
(`SameZone`; section 3 says what happens otherwise), the charts:

- `ChartsAlwaysAgree`, `LatencyAlwaysOfTraffic`: `ChartInv` says of every row
  that it is `Faithful` and stays so after it is written. Of an hour whose row
  is shown, the range contains the whole
  (`RowInRange`), its half hours partition it (`HourShownIsRaw`), and so the
  raw count and the row's both lie between the wanted and all events of the
  hour (`Between`), which is the slack the property allows.

`AccountsProofs`, for any names, keys, environments, handlers and bounds. `Inv`
consists of `UsersInv` (ids are given out once, a name belongs to one id),
`KeysInv` (values are unique, owners exist), `MainInv` and, per handler,
`HandlerOK`: its copy of the session user has the name of the row as long as the
row exists, and a user about to be reset or deleted is not the administrator.
The last is a check made earlier, on a copy; that it still holds at the write
rests on two facts, that names never change and that an id is not given out
again, which `UsersStep` states of every step and `HandlerStays` uses.

- `TypeCorrect`, `AdminAlwaysExists`, `OwnersAlwaysExist`: `Spec` implies always
  `TypeOK`, `AdminExists`, `OwnersExist`.
- `AdminRowUntouched`: `Spec => AdminRowFixed`, from what `InvStep` says of each
  step.
- `InternalKeyStays`, `SettingsRepairs`, `TogglesKept`: `Spec` implies always
  `InternalKeyKept`, and `SettingsPageRepairs` and `NoToggleLost`. `HoldInv`
  strengthens the first by what each handler about to write relies on
  (`HolderOK`): the key it deletes is not the internal one, or is gone; the
  settings page creates the key only if it has found none or could not look, in
  which case the database refuses a second one, and otherwise saves the row it
  has read only if that was another user's. A page that ends with a failed
  statement need repair nothing, but the key stays with whom it belonged to.

`RecentPanelProofs`, for any limits, filters, numbers of events and of requests
under way:

- `TypeCorrect` (`TypeOK`, in which the offset is always that of a page): with
  the table finite, it is inductive; turning a page rests on `PageTurns`.
- `StreamLocksPaging` and `PrevIsRight` (`StreamingLocksPaging`,
  `PrevLeadsBack`): the conjunction `Buttons` is inductive.
- `PatientSeesChoice`: for a user who waits (`Patient`), `ShownIsWanted`, which
  is not inductive. `Fresh` strengthens it: every request under way is for what
  the panel wants now.
- `WalkSkipsFailedOnly`: for a user who waits, `OnlyFailedPagesSkipped`.
  `WalkOK` strengthens it: an event still owed is stored, at an instant of its
  own, and of the events owed and unseen those the walk will not come to any more
  (`Passed`: newer than a row drawn, or with too few newer rows to stand on the
  next page or after it) are no more than `missed`; `AnswersInv` says the same of an answer
  that has not been drawn, and `Alone` that off page 1 there is one request at a
  time. It rests on lemmas about what begins an order with ties
  (`Leads`, `Heads`), and is kept because an arrival adds a row before an event or
  after it, or shares its instant, in which case it is owed no more, and because a
  deletion releases what is older.

`MetricsQueriesProofs`, for any events, keys, limits, numbers of requests under
way, overlaps, orders of answers and faults:

- `TypeCorrect`: `Spec => []TypeOK`; a page of routes begins at a natural
  number, although the button that leads back may be out of date, and what is
  drawn is complete.
- `CardsAlwaysAddUp`, `RoutesAlwaysAddUp`: the invariant is `ReadsInv`. `Meets`
  says row by row what each statement selects (`RowsMeet`); then every result
  lies between what was in view all the while (`Whole`) and what was in view at
  any time (`Sound`), arrivals, deletions and the clock included, and two results of the same condition differ by what
  moved (`NoMoreThan`).
- `PagingAlwaysFollowsControls`: `RoutesInv` says of the latest request for routes
  and of its answer that they are of the controls as they are now, since whatever
  changes these asks anew, and of the buttons drawn with it that they follow; by
  `EmptyPage` a page may be empty exactly if it begins where the routes have
  ended, whichever way ties are ordered.
- `BreakdownAlwaysOfSelection`, `EventAlwaysTheOneOpened`: `CountsInv` and
  `EventInv` say of the latest request and of its answer that they are of what is
  chosen now, or, of the counts, that the list which deselected their key had
  read all they had (`KeysReach`, `InTime`: a list of at least the same range,
  begun no earlier, has a cutoff no later), and of the overlay that its parts are
  of one event. With `RoutesInv` they are `LatestInv`. It is kept because numbers
  are not given twice (`Numbers`) and the page asks for counts whenever it asks
  for keys (`UserAsks`), but for the first time. An earlier form of
  `BreakdownOfSelection`, which spoke of the list drawn last, could not be proved,
  and with four overlapping requests it is false: see section 3 on late lists.

Only model-checked: the liveness properties `VisitEventuallyRecorded`,
`ExpiredEventuallyDeleted`, `EventuallyCounted` and `StreamShowsNewest`, which
depend on fairness and so on `ENABLED`, which the provers do not handle.

## 6. What is not modelled

- Login and logout set and clear a cookie; display settings are two columns of a
  user (dashboard.go:206-238), which are read only to format dates (metrics.go:295).
- `AttributeValues`, which no page calls, and the filters `attr_key` and
  `attr_value`, which no page sends. `AttributeValueCounts` keeps the empty
  values that `AttributeValues` drops.
- The drawing of the charts. The links to projects load the page anew, so the
  project is a constant of a behaviour; `Charts` holds for every range and project.
- `ChartMaxDays`, a maximum over the keys read for each page (section 3).
- Rendering, formatting, static files, the request log.
- Inside the database: statements are atomic and constraints hold. A dropped
  connection is a failed statement.

## 7. Plan

Done, in this order: Ingestion, MetricRow, Aggregation, Accounts, RecentPanel;
Hours, Analytics, Charts, MetricsQueries and Monitoring; the proofs of section
5, which cover every safety property the passing runs check. What would come
next:

1. The key table of `Ingestion` against the handlers of `Accounts`, step by
   step: that each write of the detailed handlers is a step of `KeyNext`.
2. The safety halves of the other liveness properties, as `PassCountsAll` is
   one of `EventuallyCounted`: that nothing ever makes what they wait for
   impossible.
