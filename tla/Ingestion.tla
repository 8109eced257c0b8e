----------------------------- MODULE Ingestion -----------------------------
(***************************************************************************)
(* The path of an event through api-insight, from the bearer-authenticated *)
(* POST /v1/events to its deletion by the retention worker.                *)
(*                                                                         *)
(* Several requests are in their handlers at once.  Each works on the copy *)
(* of its API key row that BearerAuth read, and on the clock it read when  *)
(* it prepared its rows, while keys are created, switched and deleted, the *)
(* retention worker sweeps, the process crashes and comes back with        *)
(* another APP_RETENTION_DAYS, and time passes.                            *)
(***************************************************************************)
EXTENDS Integers, FiniteSets, Ticker

CONSTANTS
    Keys,           \* API keys that may exist
    InternalKey,    \* the one APP_INTERNAL_API_KEY names, or NoKey
    NoKey,          \* not a key; also the row of a key that does not exist
    Projects,       \* key names: a key's name is its events' project
    InternalName,   \* "api-insight", the name of the internal key
    Requests,       \* handler slots for POST /v1/events
    Payloads,       \* request bodies: each a set of items [n, path, stamp]
    EnvDays,        \* values of APP_RETENTION_DAYS at a start, as Atoi reads them
    DefaultDays,    \* config.Load's default retention, 30 days
    AskedDays,      \* values of the retention_days form field
    Absent,         \* a form field or JSON timestamp that is not given
    ZeroTime,       \* the JSON timestamp 0001-01-01T00:00:00Z, Go's zero time
    YearOne,        \* the instant it denotes, on the model's clock
    NoExpiry,       \* a NULL expires_at
    DayLen,         \* clock units in 24 hours
    MaxDuration,    \* the largest time.Duration, in clock units
    MaxClock,       \* bound: the clock stops here
    MaxBatches,     \* bound: requests served
    MaxFaults       \* bound: crashes and failed statements

Days  == Nat
Stamp == Int \cup {Absent, ZeroTime}
Item  == [n : Nat, path : BOOLEAN, stamp : Stamp]

ASSUME KeyAssumption ==
    /\ NoKey \notin Keys
    /\ InternalKey \in Keys \cup {NoKey}
    /\ InternalName \in Projects
ASSUME TimeAssumption ==
    /\ DayLen \in Nat \ {0}
    /\ MaxDuration \in Nat \ {0}
    /\ YearOne \in Int /\ YearOne < 0
    /\ NoExpiry \notin Int
ASSUME InputAssumption ==
    /\ Absent \notin Int /\ ZeroTime \notin Int /\ Absent # ZeroTime
    /\ DefaultDays \in Nat \ {0}
    /\ EnvDays \subseteq Int
    /\ AskedDays \subseteq Int \cup {Absent}
    /\ Payloads \subseteq SUBSET Item
    /\ \A body \in Payloads :
          IsFiniteSet(body) /\ \A i, j \in body : i.n = j.n => i = j
ASSUME BoundAssumption ==
    MaxClock \in Nat /\ MaxBatches \in Nat /\ MaxFaults \in Nat

VARIABLES
    clock,          \* wall clock
    up,             \* is the process running?
    cfgDays,        \* cfg.RetentionDays of the running process
    apiKeys,        \* table api_keys: a row [name, days, active], or NoKey
    events,         \* table events
    req,            \* the handlers of POST /v1/events
    counters,       \* requests_total of this process, per project
    ret,            \* the retention worker: pc and the `now' it read
    nextSweep,      \* when its ticker fires next
    batches,        \* requests served so far
    faults,         \* crashes and failures so far
    \* Auxiliary variables: no action of the code depends on them.
    stored,         \* events this process has stored, per project
    lost,           \* events whose INSERT failed in this process, per project
    maxDays         \* the longest retention ever configured; 0 before any was

vars == <<clock, up, cfgDays, apiKeys, events, req, counters, ret,
          nextSweep, batches, faults, stored, lost, maxDays>>
retVars  == <<ret, nextSweep>>
auxVars  == <<stored, lost, maxDays>>
-----------------------------------------------------------------------------
KeyRow == [name : Projects, days : Days, active : BOOLEAN]

\* A stored event; id tells the request and the item it came from and days is
\* auxiliary: the retention in force for the event when it was ingested.
Event == [id : Nat \X Nat, project : Projects, days : Days,
          created : Int, expires : Int \cup {NoExpiry}]

Idle == [pc |-> "idle", batch |-> 0, project |-> InternalName, days |-> 0, 
         body |-> {}, rows |-> {}]
Request == [pc : {"idle", "auth", "write"}, batch : Nat, project : Projects,
            days : Days, body : Payloads \cup {{}}, rows : SUBSET Event]

\* Go's int64 nanoseconds, scaled: a product beyond MaxDuration wraps.
Duration(x) ==
    ((x + MaxDuration + 1) % (2 * (MaxDuration + 1))) - (MaxDuration + 1)

\* Mutant: APP_RETENTION_DAYS is taken without the test `days > 0'.
LoadUnchecked(v) == v

\* config.Load: anything that is not a positive number keeps the default.
Load(v) == IF v > 0 THEN v ELSE DefaultDays

\* Mutant: the form field is believed, whatever the configured maximum.
Unclamped(asked) == IF asked = Absent THEN cfgDays ELSE asked

\* CreateAPIKey's clamp of the retention_days field.
Clamped(asked) ==
    IF asked = Absent \/ asked > cfgDays THEN cfgDays ELSE asked

Count(rows, p) == Cardinality({e \in rows : e.project = p})
-----------------------------------------------------------------------------
Init ==
    /\ clock = 0 /\ up = FALSE /\ cfgDays = DefaultDays
    /\ apiKeys = [k \in Keys |-> NoKey]
    /\ events = {}
    /\ req = [r \in Requests |-> Idle]
    /\ counters = [p \in Projects |-> 0]
    /\ ret = [pc |-> "off", cutoff |-> 0, ticking |-> FALSE]
    /\ nextSweep = 0
    /\ batches = 0 /\ faults = 0
    /\ stored = [p \in Projects |-> 0] /\ lost = [p \in Projects |-> 0]
    /\ maxDays = 0

\* Time passes.
Tick ==
    /\ clock < MaxClock
    /\ clock' = clock + 1
    /\ UNCHANGED <<up, cfgDays, apiKeys, events, req, counters, retVars,
                   batches, faults, auxVars>>

\* EnsureBootstrapAPIKey leaves the table as it is (nothing configured, the
\* admin's already, or an error main only logs), takes over the row of another
\* user, or creates the key.
BootstrapKey(days) ==
    \/ UNCHANGED apiKeys
    \/ /\ InternalKey # NoKey
       /\ apiKeys' = [apiKeys EXCEPT ![InternalKey] =
             [name |-> InternalName,
              days |-> IF @ = NoKey THEN days ELSE @.days,
              active |-> TRUE]]

\* main: load the configuration, start the worker, bootstrap the key, serve.
Boot(v) ==
    /\ ~up
    /\ up' = TRUE
    /\ cfgDays' = Load(v)
    /\ maxDays' = IF Load(v) > maxDays THEN Load(v) ELSE maxDays
    /\ ret' = [ret EXCEPT !.pc = "sweep", !.ticking = FALSE]
    /\ BootstrapKey(Load(v))
    /\ counters' = [p \in Projects |-> 0]
    /\ stored' = [p \in Projects |-> 0] /\ lost' = [p \in Projects |-> 0]
    /\ UNCHANGED <<clock, events, req, nextSweep, batches, faults>>

\* The process dies: handlers, worker and counters go, the tables stay.
Crash ==
    /\ up /\ faults < MaxFaults
    /\ up' = FALSE
    /\ faults' = faults + 1
    /\ req' = [r \in Requests |-> Idle]
    /\ ret' = [ret EXCEPT !.pc = "off"]
    /\ UNCHANGED <<clock, cfgDays, apiKeys, events, counters, nextSweep,
                   batches, auxVars>>
-----------------------------------------------------------------------------
(***************************************************************************)
(* The handlers that change the key table.                                 *)
(***************************************************************************)
CreateAPIKey(k, p, asked) ==
    /\ up /\ k # InternalKey /\ apiKeys[k] = NoKey
    /\ asked # Absent => asked > 0
    /\ apiKeys' = [apiKeys EXCEPT ![k] =
          [name |-> p, days |-> Clamped(asked), active |-> TRUE]]
    /\ UNCHANGED <<clock, up, cfgDays, events, req, counters, retVars,
                   batches, faults, auxVars>>

\* SettingsPage finds the internal key missing and creates it, with the zero
\* RetentionDays that means the configured one.
SettingsPage ==
    /\ up /\ InternalKey # NoKey /\ apiKeys[InternalKey] = NoKey
    /\ apiKeys' = [apiKeys EXCEPT ![InternalKey] =
          [name |-> InternalName, days |-> 0, active |-> TRUE]]
    /\ UNCHANGED <<clock, up, cfgDays, events, req, counters, retVars,
                   batches, faults, auxVars>>

DeleteAPIKey(k) ==
    /\ up /\ apiKeys[k] # NoKey /\ k # InternalKey
    /\ apiKeys' = [apiKeys EXCEPT ![k] = NoKey]
    /\ UNCHANGED <<clock, up, cfgDays, events, req, counters, retVars,
                   batches, faults, auxVars>>

SetActiveAPIKey(k, flag) ==
    /\ up /\ apiKeys[k] # NoKey
    /\ apiKeys' = [apiKeys EXCEPT ![k].active = flag]
    /\ UNCHANGED <<clock, up, cfgDays, events, req, counters, retVars,
                   batches, faults, auxVars>>
-----------------------------------------------------------------------------
(***************************************************************************)
(* POST /v1/events.                                                        *)
(***************************************************************************)
\* BearerAuth reads the row of an active key and hands the handler a copy.
BearerAuth(r, k, body) ==
    /\ up /\ req[r].pc = "idle"
    /\ apiKeys[k] # NoKey /\ apiKeys[k].active
    /\ batches < MaxBatches
    /\ batches' = batches + 1
    /\ req' = [req EXCEPT ![r] =
          [pc |-> "auth", batch |-> batches + 1, project |-> apiKeys[k].name,
           days |-> apiKeys[k].days, body |-> body, rows |-> {}]]
    /\ UNCHANGED <<clock, up, cfgDays, apiKeys, events, counters, retVars,
                   faults, auxVars>>

Valid(body) == {i \in body : i.path}

\* The retention of a request: its key's, or the configured one.
RetentionDays(r) == IF req[r].days > 0 THEN req[r].days ELSE cfgDays

CreatedAt(i) ==
    CASE i.stamp = Absent   -> clock
      [] i.stamp = ZeroTime -> YearOne
      [] OTHER              -> i.stamp

\* Mutant: expiry counted from the arrival, not from the event's timestamp.
ExpiresFromArrival(i, days) ==
    IF days > 0 THEN clock + Duration(days * DayLen) ELSE NoExpiry

ExpiresAt(i, days) ==
    IF days > 0 THEN CreatedAt(i) + Duration(days * DayLen) ELSE NoExpiry

Row(r, i) ==
    [id      |-> <<req[r].batch, i.n>>,
     project |-> req[r].project,
     days    |-> RetentionDays(r),
     created |-> CreatedAt(i),
     expires |-> ExpiresAt(i, RetentionDays(r))]

\* "no events provided", "no valid events after validation".
Refuse(r) ==
    /\ up /\ req[r].pc = "auth" /\ Valid(req[r].body) = {}
    /\ req' = [req EXCEPT ![r] = Idle]
    /\ UNCHANGED <<clock, up, cfgDays, apiKeys, events, counters, retVars,
                   batches, faults, auxVars>>

\* Mutant: the counter takes every item of the body, valid or not.
PrepareCountingAll(r) ==
    /\ up /\ req[r].pc = "auth" /\ Valid(req[r].body) # {}
    /\ req' = [req EXCEPT ![r].pc = "write", ![r].body = {},
                          ![r].rows = {Row(r, i) : i \in Valid(req[r].body)}]
    /\ counters' = [counters EXCEPT ![req[r].project] =
                       @ + Cardinality(req[r].body)]
    /\ UNCHANGED <<clock, up, cfgDays, apiKeys, events, retVars, batches,
                   faults, auxVars>>

\* Read the clock, build the rows and count them.
Prepare(r) ==
    /\ up /\ req[r].pc = "auth" /\ Valid(req[r].body) # {}
    /\ req' = [req EXCEPT ![r].pc = "write", ![r].body = {},
                          ![r].rows = {Row(r, i) : i \in Valid(req[r].body)}]
    /\ counters' = [counters EXCEPT ![req[r].project] =
                       @ + Cardinality(Valid(req[r].body))]
    /\ UNCHANGED <<clock, up, cfgDays, apiKeys, events, retVars, batches,
                   faults, auxVars>>

\* The INSERT.  GORM replaces a zero CreatedAt by the time of the insert.
Inserted(row) ==
    IF row.created = YearOne THEN [row EXCEPT !.created = clock] ELSE row

Persist(r) ==
    /\ up /\ req[r].pc = "write"
    /\ events' = events \cup {Inserted(row) : row \in req[r].rows}
    /\ stored' = [stored EXCEPT ![req[r].project] =
                     @ + Cardinality(req[r].rows)]
    /\ req' = [req EXCEPT ![r] = Idle]
    /\ UNCHANGED <<clock, up, cfgDays, apiKeys, counters, retVars, batches,
                   faults, lost, maxDays>>

\* The INSERT fails as a whole and the handler answers 500.
PersistFails(r) ==
    /\ up /\ req[r].pc = "write" /\ faults < MaxFaults
    /\ faults' = faults + 1
    /\ lost' = [lost EXCEPT ![req[r].project] = @ + Cardinality(req[r].rows)]
    /\ req' = [req EXCEPT ![r] = Idle]
    /\ UNCHANGED <<clock, up, cfgDays, apiKeys, events, counters, retVars,
                   batches, stored, maxDays>>
-----------------------------------------------------------------------------
(***************************************************************************)
(* The retention worker.                                                   *)
(***************************************************************************)
\* Mutant: `expires_at < now' for `expires_at <= now'.
ExpiredBefore(e, now) == e.expires # NoExpiry /\ e.expires < now

Expired(e, now) == e.expires # NoExpiry /\ e.expires <= now

\* runRetentionOnce reads the clock ...
ReadNow ==
    /\ ret.pc = "sweep"
    /\ ret' = [ret EXCEPT !.pc = "delete", !.cutoff = clock]
    /\ UNCHANGED <<clock, up, cfgDays, apiKeys, events, req, counters,
                   nextSweep, batches, faults, auxVars>>

\* ... and deletes what had expired by then.  Whatever the outcome the worker
\* waits; the ticker is created after the pass made at startup.
Await ==
    /\ ret' = [ret EXCEPT !.pc = "wait", !.ticking = TRUE]
    /\ nextSweep' = IF ret.ticking THEN nextSweep ELSE clock + DayLen

DeleteExpired ==
    /\ ret.pc = "delete"
    /\ events' = {e \in events : ~Expired(e, ret.cutoff)}
    /\ Await
    /\ UNCHANGED <<clock, up, cfgDays, apiKeys, req, counters, batches,
                   faults, auxVars>>

DeleteFails ==
    /\ ret.pc = "delete" /\ faults < MaxFaults
    /\ faults' = faults + 1
    /\ Await
    /\ UNCHANGED <<clock, up, cfgDays, apiKeys, events, req, counters,
                   batches, auxVars>>

\* The worker receives a tick.
SweepDue ==
    /\ ret.pc = "wait" /\ Due(nextSweep, clock)
    /\ ret' = [ret EXCEPT !.pc = "sweep"]
    /\ nextSweep' = FollowingTick(nextSweep, DayLen, clock)
    /\ UNCHANGED <<clock, up, cfgDays, apiKeys, events, req, counters,
                   batches, faults, auxVars>>
-----------------------------------------------------------------------------
KeyNext ==
    \/ \E k \in Keys :
          \/ \E p \in Projects, asked \in AskedDays : CreateAPIKey(k, p, asked)
          \/ DeleteAPIKey(k)
          \/ \E flag \in BOOLEAN : SetActiveAPIKey(k, flag)
    \/ SettingsPage

RequestNext ==
    \E r \in Requests :
       \/ \E k \in Keys, body \in Payloads : BearerAuth(r, k, body)
       \/ Refuse(r) \/ Prepare(r) \/ Persist(r) \/ PersistFails(r)

RetentionNext == ReadNow \/ DeleteExpired \/ DeleteFails \/ SweepDue

Start == \E v \in EnvDays : Boot(v)

Next == Tick \/ Start \/ Crash \/ KeyNext \/ RequestNext \/ RetentionNext

\* The clock runs, the process is restarted after a crash (by whatever keeps
\* the container running) and the scheduler keeps running the worker and the
\* handlers.  Nothing is assumed of clients.
Fairness ==
    /\ WF_vars(Tick) /\ WF_vars(Start)
    /\ WF_vars(ReadNow) /\ WF_vars(DeleteExpired \/ DeleteFails)
    /\ WF_vars(SweepDue)
    /\ \A r \in Requests :
          WF_vars(Refuse(r) \/ Prepare(r) \/ Persist(r) \/ PersistFails(r))

Spec == Init /\ [][Next]_vars /\ Fairness
-----------------------------------------------------------------------------
(***************************************************************************)
(* Properties.                                                             *)
(***************************************************************************)
Pending == UNION {req[r].rows : r \in Requests}

\* The shape of the state; the configured retention is always positive.
TypeOK ==
    /\ clock \in Nat /\ up \in BOOLEAN
    /\ cfgDays \in Nat \ {0} /\ maxDays \in Nat
    /\ apiKeys \in [Keys -> KeyRow \cup {NoKey}]
    /\ events \subseteq Event
    /\ req \in [Requests -> Request]
    /\ \A r \in Requests : IsFiniteSet(req[r].rows)
    /\ counters \in [Projects -> Nat]
    /\ stored \in [Projects -> Nat] /\ lost \in [Projects -> Nat]
    /\ ret \in [pc : {"off", "sweep", "delete", "wait"}, cutoff : Nat,
                ticking : BOOLEAN]
    /\ nextSweep \in Nat /\ batches \in Nat /\ faults \in Nat

\* The retention worker deletes no event before the retention in force when
\* it was ingested (its key's, or the configured one) has passed since the
\* event's own timestamp (apikey.go:27, retention.go:15).  For an event sent
\* with Go's zero time that is the year one, whatever created_at says.
RetainedForItsDays ==
    [][\A e \in events \ events' :
          \/ clock >= e.created + e.days * DayLen
          \/ e.expires = YearOne + e.days * DayLen]_vars

\* Every event, stored or about to be, expires, and no later than the longest
\* retention some start has run with allows (the default counts only if a start
\* fell back on it): neither a key nor a restart with another setting lets an
\* event outlive it (config.go:17, apikeys.go:39).  A restart with a shorter
\* setting does not shorten what existing keys ask for.
ExpiryWithinPolicy ==
    \A e \in events \cup Pending :
       /\ e.expires # NoExpiry
       /\ e.expires <= e.created + maxDays * DayLen

\* The Prometheus counter of a running process accounts for each event once:
\* it is stored, its INSERT failed, or its handler is still at work
\* (ingest.go:123 counts before ingest.go:134 stores).
CountersAccountForEvents ==
    up => \A p \in Projects :
             counters[p] = stored[p] + lost[p] + Count(Pending, p)

\* Once faults have stopped, an expired event, or one that will have expired
\* when the ticker next fires, is deleted by the sweep that follows, on
\* restart or on the tick (retention.go:22-37).  MaxClock must leave room for
\* that tick.
SweepWillSee(e) ==
    /\ e \in events /\ faults = MaxFaults /\ e.expires # NoExpiry
    /\ \/ ret.pc \in {"off", "sweep"} /\ e.expires <= clock
       \/ ret.pc = "wait" /\ e.expires <= nextSweep /\ nextSweep <= MaxClock
ExpiredEventuallyDeleted ==
    \A id \in (1..MaxBatches) \X {i.n : i \in UNION Payloads} :
       (\E e \in events : e.id = id /\ SweepWillSee(e))
          ~> (\A e \in events : e.id # id)
=============================================================================
