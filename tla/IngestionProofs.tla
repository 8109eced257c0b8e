-------------------------- MODULE IngestionProofs --------------------------
(***************************************************************************)
(* Proofs about Ingestion, for any keys, payloads, retention settings and  *)
(* bounds: the types, the policy that bounds an event's expiry, and that   *)
(* the retention worker deletes nothing early.                             *)
(***************************************************************************)
EXTENDS Ingestion, FiniteSetTheorems, TLAPS

\* A wrapped duration is an integer, never longer than the exact product, and
\* exact when the product fits.
LEMMA DurationFacts ==
    ASSUME NEW x \in Nat
    PROVE  /\ Duration(x) \in Int
           /\ Duration(x) <= x
           /\ x <= MaxDuration => Duration(x) = x
<1> DEFINE m == 2 * (MaxDuration + 1)
           y == x + MaxDuration + 1
<1>1. m \in Nat \ {0} /\ y \in Nat /\ MaxDuration \in Nat
  BY TimeAssumption
<1>2. y % m \in Nat /\ y % m <= y
  BY <1>1
<1>3. x <= MaxDuration => y % m = y
  BY <1>1
<1> QED
  BY <1>1, <1>2, <1>3 DEF Duration

LEMMA LoadPositive ==
    ASSUME NEW v \in EnvDays
    PROVE  Load(v) \in Nat \ {0}
  BY InputAssumption DEF Load

LEMMA TimesDay ==
    ASSUME NEW a \in Nat, NEW b \in Nat, a <= b
    PROVE  a * DayLen \in Nat /\ b * DayLen \in Nat /\ a * DayLen <= b * DayLen
  BY TimeAssumption
-----------------------------------------------------------------------------
\* A handler slot with nothing to do is well typed, and so is a slot that
\* BearerAuth has just filled.
LEMMA IdleType == Idle \in Request /\ IsFiniteSet(Idle.rows)
  BY KeyAssumption, FS_EmptySet DEF Idle, Request, Days

\* The rows a request prepares are events.
LEMMA RowType ==
    ASSUME TypeOK, NEW r \in Requests, NEW i \in req[r].body
    PROVE  Row(r, i) \in Event
<1>1. i \in Item /\ req[r] \in Request
  BY InputAssumption DEF TypeOK, Request
<1>2. RetentionDays(r) \in Nat
  BY <1>1 DEF TypeOK, RetentionDays, Request, Days
<1>3. CreatedAt(i) \in Int
  BY <1>1, TimeAssumption, InputAssumption
  DEF TypeOK, CreatedAt, Item, Stamp
<1>4. ExpiresAt(i, RetentionDays(r)) \in Int \cup {NoExpiry}
  <2>1. RetentionDays(r) * DayLen \in Nat
    BY <1>2, TimeAssumption
  <2>2. Duration(RetentionDays(r) * DayLen) \in Int
    BY <2>1, DurationFacts
  <2> QED
    BY <1>3, <2>2 DEF ExpiresAt
<1> QED
  BY <1>1, <1>2, <1>3, <1>4 DEF Row, Event, Request, Item, Days

\* Every body is finite, and so are the rows made of it.
LEMMA RowsFinite ==
    ASSUME TypeOK, NEW r \in Requests
    PROVE  LET valid == Valid(req[r].body)
               rows  == {Row(r, i) : i \in valid}
           IN  /\ IsFiniteSet(valid) /\ Cardinality(valid) \in Nat
               /\ rows \subseteq Event /\ IsFiniteSet(rows)
<1> DEFINE valid == Valid(req[r].body)
           rows  == {Row(r, i) : i \in valid}
<1>1. IsFiniteSet(req[r].body)
  BY InputAssumption, FS_EmptySet DEF TypeOK, Request
<1>2. IsFiniteSet(valid)
  BY <1>1, FS_Subset DEF Valid
<1>3. Cardinality(valid) \in Nat
  BY <1>2, FS_CardinalityType
<1>4. IsFiniteSet(rows)
  <2> DEFINE rowOf == [i \in valid |-> Row(r, i)]
  <2>1. rowOf \in Surjection(valid, rows)
    BY DEF Surjection
  <2> QED
    BY <1>2, <2>1, FS_Surjection
<1>5. rows \subseteq Event
  BY RowType DEF Valid
<1> QED
  BY <1>2, <1>3, <1>4, <1>5
-----------------------------------------------------------------------------
LEMMA TypeInitial == Init => TypeOK
<1> SUFFICES ASSUME Init PROVE TypeOK
  OBVIOUS
<1>1. req \in [Requests -> Request]
      /\ \A r \in Requests : IsFiniteSet(req[r].rows)
  BY IdleType DEF Init
<1>2. apiKeys \in [Keys -> KeyRow \cup {NoKey}]
  BY DEF Init
<1> QED
  BY <1>1, <1>2, InputAssumption DEF Init, TypeOK

LEMMA TypeInductive == TypeOK /\ [Next]_vars => TypeOK'
<1> SUFFICES ASSUME TypeOK, [Next]_vars PROVE TypeOK'
  OBVIOUS
<1> USE DEF TypeOK
<1>1. CASE Tick
  BY <1>1 DEF Tick, retVars, auxVars
<1>2. ASSUME NEW v \in EnvDays, Boot(v) PROVE TypeOK'
  <2>1. Load(v) \in Nat \ {0}
    BY LoadPositive
  <2>2. apiKeys' \in [Keys -> KeyRow \cup {NoKey}]
    <3>1. CASE UNCHANGED apiKeys
      BY <3>1
    <3>2. CASE /\ InternalKey # NoKey
               /\ apiKeys' = [apiKeys EXCEPT ![InternalKey] =
                    [name |-> InternalName,
                     days |-> IF @ = NoKey THEN Load(v) ELSE @.days,
                     active |-> TRUE]]
      <4> DEFINE days == IF apiKeys[InternalKey] = NoKey THEN Load(v)
                         ELSE apiKeys[InternalKey].days
      <4>1. InternalKey \in Keys
        BY <3>2, KeyAssumption
      <4>2. days \in Nat
        BY <2>1, <4>1 DEF KeyRow, Days
      <4>3. [name |-> InternalName, days |-> days, active |-> TRUE] \in KeyRow
        BY <4>2, KeyAssumption DEF KeyRow, Days
      <4> QED
        BY <3>2, <4>1, <4>3
    <3> QED
      BY <1>2, <3>1, <3>2 DEF Boot, BootstrapKey
  <2> QED
    BY <1>2, <2>1, <2>2 DEF Boot
<1>3. CASE Crash
  <2>1. req' \in [Requests -> Request]
        /\ \A r \in Requests : IsFiniteSet(req'[r].rows)
    BY <1>3, IdleType DEF Crash
  <2>2. ret' \in [pc : {"off", "sweep", "delete", "wait"}, cutoff : Nat,
                  ticking : BOOLEAN]
    BY <1>3 DEF Crash
  <2>3. up' \in BOOLEAN
    BY <1>3 DEF Crash
  <2>4. faults' \in Nat
    BY <1>3 DEF Crash
  <2>5. UNCHANGED <<clock, cfgDays, apiKeys, events, counters, nextSweep,
                    batches, stored, lost, maxDays>>
    BY <1>3 DEF Crash, auxVars
  <2> QED
    BY <2>1, <2>2, <2>3, <2>4, <2>5
<1>4. ASSUME NEW k \in Keys, NEW p \in Projects, NEW asked \in AskedDays,
             CreateAPIKey(k, p, asked)
      PROVE  TypeOK'
  <2>1. Clamped(asked) \in Nat
    BY <1>4, InputAssumption DEF CreateAPIKey, Clamped
  <2> QED
    BY <1>4, <2>1 DEF CreateAPIKey, retVars, auxVars, KeyRow, Days
<1>5. CASE SettingsPage
  BY <1>5, KeyAssumption
  DEF SettingsPage, retVars, auxVars, KeyRow, Days
<1>6. ASSUME NEW k \in Keys, DeleteAPIKey(k) PROVE TypeOK'
  BY <1>6 DEF DeleteAPIKey, retVars, auxVars
<1>7. ASSUME NEW k \in Keys, NEW flag \in BOOLEAN, SetActiveAPIKey(k, flag)
      PROVE  TypeOK'
  <2>1. apiKeys[k] \in KeyRow
    BY <1>7 DEF SetActiveAPIKey
  <2>2. [apiKeys[k] EXCEPT !.active = flag] \in KeyRow
    BY <2>1 DEF KeyRow
  <2> QED
    BY <1>7, <2>2 DEF SetActiveAPIKey, retVars, auxVars
<1>8. ASSUME NEW r \in Requests, NEW k \in Keys, NEW body \in Payloads,
             BearerAuth(r, k, body)
      PROVE  TypeOK'
  <2> DEFINE new == [pc |-> "auth", batch |-> batches + 1,
                     project |-> apiKeys[k].name, days |-> apiKeys[k].days,
                     body |-> body, rows |-> {}]
  <2>1. apiKeys[k] \in KeyRow
    BY <1>8 DEF BearerAuth
  <2>2. new \in Request /\ IsFiniteSet(new.rows)
    BY <2>1, FS_EmptySet DEF KeyRow, Request
  <2> HIDE DEF new
  <2>3. req' = [req EXCEPT ![r] = new]
    BY <1>8 DEF BearerAuth, new
  <2>4. /\ req' \in [Requests -> Request]
        /\ \A q \in Requests : IsFiniteSet(req'[q].rows)
    BY <2>2, <2>3
  <2> QED
    BY <1>8, <2>4 DEF BearerAuth, retVars, auxVars
<1>9. ASSUME NEW r \in Requests, Refuse(r) PROVE TypeOK'
  BY <1>9, IdleType DEF Refuse, retVars, auxVars
<1>10. ASSUME NEW r \in Requests, Prepare(r) PROVE TypeOK'
  <2> DEFINE valid == Valid(req[r].body)
             rows  == {Row(r, i) : i \in valid}
             new   == [req[r] EXCEPT !.pc = "write", !.body = {},
                                     !.rows = rows]
  <2>1. /\ Cardinality(valid) \in Nat
        /\ rows \in SUBSET Event /\ IsFiniteSet(rows)
    BY RowsFinite
  <2> HIDE DEF rows, valid
  <2>2. new \in Request /\ IsFiniteSet(new.rows)
    BY <2>1 DEF Request
  <2>3. req' = [req EXCEPT ![r] = new]
    BY <1>10 DEF Prepare, rows, valid
  <2> HIDE DEF new
  <2>4. counters' \in [Projects -> Nat]
    BY <1>10, <2>1 DEF Prepare, Request, valid
  <2>5. /\ req' \in [Requests -> Request]
        /\ \A q \in Requests : IsFiniteSet(req'[q].rows)
    BY <2>2, <2>3
  <2> QED
    BY <1>10, <2>4, <2>5 DEF Prepare, retVars, auxVars
<1>11. ASSUME NEW r \in Requests, Persist(r) PROVE TypeOK'
  <2>1. \A row \in req[r].rows : Inserted(row) \in Event
    BY DEF Inserted, Event, Request
  <2>2. Cardinality(req[r].rows) \in Nat
    BY FS_CardinalityType
  <2>3. stored' \in [Projects -> Nat]
    BY <1>11, <2>2 DEF Persist, Request
  <2>4. events' \subseteq Event
    BY <1>11, <2>1 DEF Persist
  <2> QED
    BY <1>11, <2>3, <2>4, IdleType DEF Persist, retVars
<1>12. ASSUME NEW r \in Requests, PersistFails(r) PROVE TypeOK'
  <2>1. Cardinality(req[r].rows) \in Nat
    BY FS_CardinalityType
  <2>2. lost' \in [Projects -> Nat]
    BY <1>12, <2>1 DEF PersistFails, Request
  <2> QED
    BY <1>12, <2>2, IdleType DEF PersistFails, retVars
<1>13. CASE ReadNow
  BY <1>13 DEF ReadNow, auxVars
<1>14. CASE DeleteExpired \/ DeleteFails
  <2>1. ret' \in [pc : {"off", "sweep", "delete", "wait"}, cutoff : Nat,
                  ticking : BOOLEAN]
    BY <1>14 DEF DeleteExpired, DeleteFails, Await
  <2>2. nextSweep' \in Nat
    BY <1>14, TimeAssumption DEF DeleteExpired, DeleteFails, Await
  <2> QED
    BY <1>14, <2>1, <2>2 DEF DeleteExpired, DeleteFails, auxVars
<1>15. CASE SweepDue
  <2>1. FollowingTick(nextSweep, DayLen, clock) \in Nat
    BY <1>15, TimeAssumption DEF SweepDue, Due, FollowingTick
  <2> QED
    BY <1>15, <2>1 DEF SweepDue, auxVars
<1>16. CASE UNCHANGED vars
  BY <1>16 DEF vars, retVars, auxVars
<1> QED
  BY <1>1, <1>2, <1>3, <1>4, <1>5, <1>6, <1>7, <1>8, <1>9, <1>10, <1>11,
     <1>12, <1>13, <1>14, <1>15, <1>16
  DEF Next, Start, KeyNext, RequestNext, RetentionNext

\* The shape of the state is an invariant: whatever APP_RETENTION_DAYS holds,
\* the running configuration keeps a positive number of days (config.go:40-44).
THEOREM TypeCorrect == Spec => []TypeOK
  BY TypeInitial, TypeInductive, PTL DEF Spec
-----------------------------------------------------------------------------
(***************************************************************************)
(* ExpiryWithinPolicy is not inductive: the rows in flight get their       *)
(* retention from the copy of a key row made by BearerAuth, and the key    *)
(* row from a configuration that may since have changed.                   *)
(***************************************************************************)
Within(e) ==
    e.expires # NoExpiry /\ e.expires <= e.created + maxDays * DayLen

PolicyInv ==
    /\ up => cfgDays <= maxDays
    /\ \A k \in Keys : apiKeys[k] # NoKey => apiKeys[k].days <= maxDays
    /\ \A r \in Requests : req[r].days <= maxDays
    /\ \A r \in Requests : \A row \in req[r].rows : Within(row)
    /\ \A e \in events : Within(e)

\* The retention of a request is positive and no longer than the policy's, so
\* its rows do expire, and within the policy.
LEMMA RowPolicy ==
    ASSUME TypeOK, PolicyInv, up, NEW r \in Requests, NEW i \in req[r].body
    PROVE  /\ RetentionDays(r) \in 1..maxDays
           /\ Within(Row(r, i))
<1>1. i \in Item /\ req[r] \in Request
  BY InputAssumption DEF TypeOK, Request
<1>2. RetentionDays(r) \in 1..maxDays
  BY <1>1 DEF TypeOK, PolicyInv, RetentionDays, Request, Days
<1>3. CreatedAt(i) \in Int
  BY <1>1, TimeAssumption, InputAssumption DEF TypeOK, CreatedAt, Item, Stamp
<1> DEFINE d == RetentionDays(r) * DayLen
<1>4. d \in Nat /\ maxDays * DayLen \in Nat /\ d <= maxDays * DayLen
  BY <1>2, TimesDay DEF TypeOK
<1>5. Duration(d) \in Int /\ Duration(d) <= d
  BY <1>4, DurationFacts
<1>6. ExpiresAt(i, RetentionDays(r)) = CreatedAt(i) + Duration(d)
  BY <1>2 DEF ExpiresAt
<1> HIDE DEF d
<1>7. /\ CreatedAt(i) + Duration(d) \in Int
      /\ CreatedAt(i) + Duration(d) <= CreatedAt(i) + maxDays * DayLen
  BY <1>3, <1>4, <1>5
<1>8. /\ Row(r, i).created = CreatedAt(i)
      /\ Row(r, i).expires = CreatedAt(i) + Duration(d)
  BY <1>6 DEF Row
<1> QED
  BY <1>2, <1>7, <1>8, TimeAssumption DEF Within

\* PolicyInv is inductive, given the types.
LEMMA PolicyInductive ==
    TypeOK /\ TypeOK' /\ PolicyInv /\ [Next]_vars => PolicyInv'
<1> SUFFICES ASSUME TypeOK, TypeOK', PolicyInv, [Next]_vars PROVE PolicyInv'
  OBVIOUS
<1>1. ASSUME UNCHANGED <<up, maxDays, cfgDays, apiKeys, req>>,
             events' \subseteq events
      PROVE  PolicyInv'
  BY <1>1 DEF PolicyInv, Within
<1>2. CASE Tick \/ ReadNow \/ DeleteExpired \/ DeleteFails \/ SweepDue
           \/ UNCHANGED vars
  BY <1>1, <1>2
  DEF Tick, ReadNow, DeleteExpired, DeleteFails, SweepDue, vars, auxVars
<1>3. ASSUME NEW v \in EnvDays, Boot(v) PROVE PolicyInv'
  <2>1. /\ Load(v) \in Nat \ {0} /\ maxDays \in Nat /\ maxDays' \in Nat
        /\ maxDays <= maxDays' /\ cfgDays' = Load(v) /\ Load(v) <= maxDays'
        /\ UNCHANGED <<events, req>>
    BY <1>3, LoadPositive DEF Boot, TypeOK
  <2>2. maxDays * DayLen \in Nat /\ maxDays' * DayLen \in Nat
        /\ maxDays * DayLen <= maxDays' * DayLen
    BY <2>1, TimesDay
  <2>3. ASSUME NEW e \in Event, Within(e) PROVE Within(e)'
    BY <2>2, <2>3 DEF Within, Event
  <2>4. \A r \in Requests : \A row \in req'[r].rows : Within(row)'
    BY <2>1, <2>3 DEF TypeOK, Request, PolicyInv
  <2>5. \A e \in events' : Within(e)'
    BY <2>1, <2>3 DEF TypeOK, PolicyInv
  <2>6. \A r \in Requests : req'[r].days <= maxDays'
    BY <2>1 DEF TypeOK, Request, PolicyInv, Days
  <2>7. \A k \in Keys : apiKeys'[k] # NoKey => apiKeys'[k].days <= maxDays'
    <3> SUFFICES ASSUME NEW k \in Keys, apiKeys'[k] # NoKey
                 PROVE  apiKeys'[k].days <= maxDays'
      OBVIOUS
    <3>1. CASE apiKeys'[k] = apiKeys[k]
      BY <3>1, <2>1 DEF TypeOK, KeyRow, PolicyInv, Days
    <3>2. CASE apiKeys'[k] # apiKeys[k]
      <4>1. k = InternalKey
            /\ apiKeys'[k].days = IF apiKeys[k] = NoKey THEN Load(v)
                                  ELSE apiKeys[k].days
        BY <1>3, <3>2 DEF Boot, BootstrapKey, TypeOK
      <4> QED
        BY <4>1, <2>1 DEF TypeOK, KeyRow, PolicyInv, Days
    <3> QED
      BY <3>1, <3>2
  <2> QED
    BY <2>1, <2>4, <2>5, <2>6, <2>7 DEF PolicyInv
<1>4. ASSUME UNCHANGED <<up, maxDays, cfgDays, events, req>>,
             \A k \in Keys : \/ apiKeys'[k] = NoKey
                             \/ apiKeys'[k].days <= maxDays
      PROVE  PolicyInv'
  BY <1>4 DEF PolicyInv, Within
<1>5. ASSUME NEW k \in Keys, NEW p \in Projects, NEW asked \in AskedDays,
             CreateAPIKey(k, p, asked)
      PROVE  PolicyInv'
  <2>1. Clamped(asked) <= maxDays
    BY <1>5, InputAssumption DEF CreateAPIKey, Clamped, PolicyInv, TypeOK
  <2>2. \A j \in Keys : apiKeys'[j] = NoKey \/ apiKeys'[j].days <= maxDays
    BY <1>5, <2>1 DEF CreateAPIKey, PolicyInv, TypeOK
  <2> QED
    BY <1>4, <1>5, <2>2 DEF CreateAPIKey, auxVars
<1>6. CASE SettingsPage
  <2>1. \A j \in Keys : apiKeys'[j] = NoKey \/ apiKeys'[j].days <= maxDays
    BY <1>6 DEF SettingsPage, PolicyInv, TypeOK
  <2> QED
    BY <1>4, <1>6, <2>1 DEF SettingsPage, auxVars
<1>7. ASSUME NEW k \in Keys, DeleteAPIKey(k) PROVE PolicyInv'
  <2>1. \A j \in Keys : apiKeys'[j] = NoKey \/ apiKeys'[j].days <= maxDays
    BY <1>7 DEF DeleteAPIKey, PolicyInv, TypeOK
  <2> QED
    BY <1>4, <1>7, <2>1 DEF DeleteAPIKey, auxVars
<1>8. ASSUME NEW k \in Keys, NEW flag \in BOOLEAN, SetActiveAPIKey(k, flag)
      PROVE  PolicyInv'
  <2>1. \A j \in Keys : apiKeys'[j] = NoKey \/ apiKeys'[j].days <= maxDays
    BY <1>8 DEF SetActiveAPIKey, PolicyInv, TypeOK, KeyRow
  <2> QED
    BY <1>4, <1>8, <2>1 DEF SetActiveAPIKey, auxVars
<1>9. ASSUME up' => up, UNCHANGED <<maxDays, cfgDays, apiKeys, events>>,
             \A r \in Requests :
                \/ req'[r] = req[r]
                \/ /\ req'[r].days <= maxDays
                   /\ \A row \in req'[r].rows : Within(row)
      PROVE  PolicyInv'
  BY <1>9 DEF PolicyInv, Within
<1>10. Idle.days <= maxDays /\ Idle.rows = {}
  BY DEF Idle, TypeOK
<1>11. CASE Crash
  <2>1. \A r \in Requests : req'[r] = Idle
    BY <1>11 DEF Crash
  <2> QED
    BY <1>9, <1>10, <1>11, <2>1 DEF Crash, auxVars
<1>12. ASSUME NEW r \in Requests, NEW k \in Keys, NEW body \in Payloads,
              BearerAuth(r, k, body)
       PROVE  PolicyInv'
  <2>1. apiKeys[k].days <= maxDays
    BY <1>12 DEF BearerAuth, PolicyInv
  <2>2. \A q \in Requests :
           \/ req'[q] = req[q]
           \/ req'[q].days <= maxDays /\ req'[q].rows = {}
    BY <1>12, <2>1 DEF BearerAuth, TypeOK
  <2> QED
    BY <1>9, <1>12, <2>2 DEF BearerAuth, auxVars
<1>13. ASSUME NEW r \in Requests, Refuse(r) \/ PersistFails(r)
       PROVE  PolicyInv'
  <2>1. \A q \in Requests : req'[q] = req[q] \/ req'[q] = Idle
    BY <1>13 DEF Refuse, PersistFails, TypeOK
  <2> QED
    BY <1>9, <1>10, <1>13, <2>1 DEF Refuse, PersistFails, auxVars
<1>14. ASSUME NEW r \in Requests, Prepare(r) PROVE PolicyInv'
  <2> DEFINE rows == {Row(r, i) : i \in Valid(req[r].body)}
  <2>1. \A row \in rows : Within(row)
    BY <1>14, RowPolicy DEF Valid, Prepare
  <2> HIDE DEF rows
  <2>2. \A q \in Requests :
           req'[q] = req[q] \/ (req'[q].days = req[q].days /\ req'[q].rows = rows)
    BY <1>14 DEF Prepare, TypeOK, Request, rows
  <2> QED
    BY <1>9, <1>14, <2>1, <2>2 DEF Prepare, auxVars, PolicyInv
<1>15. ASSUME NEW r \in Requests, Persist(r) PROVE PolicyInv'
  <2>1. ASSUME NEW row \in req[r].rows PROVE Within(Inserted(row))
    <3>1. row \in Event /\ Within(row)
      BY <2>1 DEF TypeOK, Request, PolicyInv
    <3>2. maxDays * DayLen \in Nat
      BY TimesDay DEF TypeOK
    <3> QED
      BY <3>1, <3>2, TimeAssumption DEF Within, Inserted, Event, TypeOK
  <2>2. /\ \A q \in Requests : req'[q] = req[q] \/ req'[q] = Idle
        /\ UNCHANGED <<up, cfgDays, apiKeys, maxDays>>
        /\ \A e \in events' : Within(e)
    BY <1>15, <2>1 DEF Persist, TypeOK, PolicyInv
  <2> QED
    BY <1>10, <2>2 DEF PolicyInv, Within
<1> QED
  BY <1>2, <1>3, <1>5, <1>6, <1>7, <1>8, <1>11, <1>12, <1>13, <1>14, <1>15
  DEF Next, Start, KeyNext, RequestNext, RetentionNext

LEMMA PolicyInitial == Init => PolicyInv
  BY InputAssumption DEF Init, PolicyInv, Idle

LEMMA PolicyImplies == PolicyInv => ExpiryWithinPolicy
  BY DEF PolicyInv, ExpiryWithinPolicy, Pending, Within

\* No stored event, and none on its way to the table, lives longer than the
\* longest retention ever configured (apikeys.go:35-49, ingest.go:74-106).
THEOREM ExpiryPolicy == Spec => []ExpiryWithinPolicy
  BY PolicyInitial, PolicyImplies, TypeCorrect, PolicyInductive, PTL DEF Spec
-----------------------------------------------------------------------------
(***************************************************************************)
(* That no event is deleted early needs that every configured retention    *)
(* fits in a time.Duration: a longer one wraps to an expiry in the past.   *)
(***************************************************************************)
NoOverflow ==
    \A v \in EnvDays \cup {DefaultDays} : v * DayLen <= MaxDuration

ExpiresAfter(e, t) == e.expires = t + e.days * DayLen

Lasts(e) ==
    \/ ExpiresAfter(e, YearOne)
    \/ e.created + e.days * DayLen <= e.expires

RetentionInv ==
    /\ maxDays * DayLen <= MaxDuration
    /\ ret.cutoff <= clock
    /\ \A r \in Requests : \A row \in req[r].rows : ExpiresAfter(row, row.created)
    /\ \A e \in events : Lasts(e)

\* A row expires when its retention has passed since its timestamp.
LEMMA RowKept ==
    ASSUME TypeOK, PolicyInv, RetentionInv, up,
           NEW r \in Requests, NEW i \in req[r].body
    PROVE  ExpiresAfter(Row(r, i), Row(r, i).created)
<1>2. RetentionDays(r) \in 1..maxDays
  BY RowPolicy
<1> DEFINE d == RetentionDays(r) * DayLen
<1>4. d \in Nat /\ maxDays * DayLen \in Nat /\ d <= maxDays * DayLen
  BY <1>2, TimesDay DEF TypeOK
<1>5. d <= MaxDuration
  BY <1>4, TimeAssumption DEF RetentionInv
<1>6. ExpiresAt(i, RetentionDays(r)) = CreatedAt(i) + Duration(d)
  BY <1>2 DEF ExpiresAt
<1>7. Row(r, i).days * DayLen = d
  BY DEF Row
<1> HIDE DEF d
<1>8. Duration(d) = d
  BY <1>4, <1>5, DurationFacts
<1>9. /\ Row(r, i).created = CreatedAt(i)
      /\ Row(r, i).expires = CreatedAt(i) + d
  BY <1>6, <1>8 DEF Row
<1> QED
  BY <1>7, <1>9 DEF ExpiresAfter

LEMMA RetentionInductive ==
    ASSUME NoOverflow
    PROVE  TypeOK /\ TypeOK' /\ PolicyInv /\ RetentionInv /\ [Next]_vars
              => RetentionInv'
<1> SUFFICES ASSUME TypeOK, TypeOK', PolicyInv, RetentionInv, [Next]_vars
             PROVE  RetentionInv'
  OBVIOUS
<1>1. ASSUME UNCHANGED <<maxDays, req>>, events' \subseteq events,
             ret'.cutoff <= clock'
      PROVE  RetentionInv'
  BY <1>1 DEF RetentionInv, Lasts, ExpiresAfter
<1>2. CASE Tick
  BY <1>1, <1>2 DEF Tick, auxVars, retVars, RetentionInv, TypeOK
<1>3. CASE ReadNow \/ DeleteExpired \/ DeleteFails \/ SweepDue
  <2>1. UNCHANGED <<clock, maxDays, req>> /\ events' \subseteq events
    BY <1>3 DEF ReadNow, DeleteExpired, DeleteFails, SweepDue, auxVars
  <2>2. ret'.cutoff \in {ret.cutoff, clock}
    BY <1>3
    DEF ReadNow, DeleteExpired, DeleteFails, SweepDue, Await, TypeOK
  <2>3. ret'.cutoff <= clock'
    BY <2>1, <2>2 DEF RetentionInv, TypeOK
  <2> QED
    BY <1>1, <2>1, <2>3
<1>4. CASE KeyNext \/ UNCHANGED vars
  BY <1>1, <1>4
  DEF KeyNext, CreateAPIKey, SettingsPage, DeleteAPIKey, SetActiveAPIKey, vars,
      retVars, auxVars, RetentionInv
<1>5. ASSUME NEW v \in EnvDays, Boot(v) PROVE RetentionInv'
  <2>1. maxDays' * DayLen <= MaxDuration
    <3>1. v * DayLen <= MaxDuration /\ DefaultDays * DayLen <= MaxDuration
      BY DEF NoOverflow
    <3>2. Load(v) * DayLen <= MaxDuration
      BY <3>1 DEF Load
    <3> QED
      BY <1>5, <3>2 DEF Boot, RetentionInv
  <2>2. ret'.cutoff <= clock' /\ UNCHANGED <<events, req>>
    BY <1>5 DEF Boot, RetentionInv, TypeOK
  <2> QED
    BY <2>1, <2>2 DEF RetentionInv, Lasts, ExpiresAfter
<1>6. ASSUME UNCHANGED <<maxDays, events, clock>>, ret'.cutoff = ret.cutoff,
             \A r \in Requests :
                \/ req'[r] = req[r]
                \/ \A row \in req'[r].rows : ExpiresAfter(row, row.created)
      PROVE  RetentionInv'
  BY <1>6 DEF RetentionInv, Lasts, ExpiresAfter
<1>7. Idle.rows = {}
  BY DEF Idle
<1>8. CASE Crash
  <2>1. \A r \in Requests : req'[r] = Idle
    BY <1>8 DEF Crash
  <2>2. ret'.cutoff = ret.cutoff
    BY <1>8 DEF Crash, TypeOK
  <2> QED
    BY <1>6, <1>7, <1>8, <2>1, <2>2 DEF Crash, auxVars
<1>9. ASSUME NEW r \in Requests, NEW k \in Keys, NEW body \in Payloads,
             BearerAuth(r, k, body)
      PROVE  RetentionInv'
  <2>1. \A q \in Requests :
           req'[q] = req[q] \/ req'[q].rows = {}
    BY <1>9 DEF BearerAuth, TypeOK
  <2> QED
    BY <1>6, <1>9, <2>1 DEF BearerAuth, auxVars, retVars
<1>10. ASSUME NEW r \in Requests, Refuse(r) \/ PersistFails(r)
       PROVE  RetentionInv'
  <2>1. \A q \in Requests : req'[q] = req[q] \/ req'[q] = Idle
    BY <1>10 DEF Refuse, PersistFails, TypeOK
  <2> QED
    BY <1>6, <1>7, <1>10, <2>1 DEF Refuse, PersistFails, auxVars, retVars
<1>11. ASSUME NEW r \in Requests, Prepare(r) PROVE RetentionInv'
  <2> DEFINE rows == {Row(r, i) : i \in Valid(req[r].body)}
  <2>1. \A row \in rows : ExpiresAfter(row, row.created)
    BY <1>11, RowKept DEF Valid, Prepare
  <2> HIDE DEF rows
  <2>2. \A q \in Requests : req'[q] = req[q] \/ req'[q].rows = rows
    BY <1>11 DEF Prepare, TypeOK, Request, rows
  <2> QED
    BY <1>6, <1>11, <2>1, <2>2 DEF Prepare, auxVars, retVars
<1>12. ASSUME NEW r \in Requests, Persist(r) PROVE RetentionInv'
  <2>1. ASSUME NEW row \in req[r].rows PROVE Lasts(Inserted(row))
    <3>1. row.created \in Int /\ row.days * DayLen \in Int
          /\ row.expires = row.created + row.days * DayLen
      BY TimeAssumption DEF RetentionInv, ExpiresAfter, TypeOK, Request, Event, Days
    <3>2. CASE row.created = YearOne
      <4>1. Inserted(row).expires = row.expires /\ Inserted(row).days = row.days
        BY <3>2 DEF Inserted, TypeOK, Request, Event
      <4> QED
        BY <3>1, <3>2, <4>1 DEF Lasts, ExpiresAfter
    <3>3. CASE row.created # YearOne
      BY <3>1, <3>3 DEF Inserted, Lasts
    <3> QED
      BY <3>2, <3>3
  <2>2. events' = events \cup {Inserted(row) : row \in req[r].rows}
    BY <1>12 DEF Persist
  <2>3. \A q \in Requests : req'[q] = req[q] \/ req'[q] = Idle
    BY <1>12 DEF Persist, TypeOK
  <2>4. UNCHANGED <<maxDays, clock, ret>>
    BY <1>12 DEF Persist, retVars
  <2> QED
    BY <1>7, <2>1, <2>2, <2>3, <2>4 DEF RetentionInv, Lasts, ExpiresAfter
<1> QED
  BY <1>2, <1>3, <1>4, <1>5, <1>8, <1>9, <1>10, <1>11, <1>12
  DEF Next, Start, RequestNext, RetentionNext

LEMMA RetentionInitial == ASSUME NoOverflow PROVE Init => RetentionInv
<1> SUFFICES ASSUME Init PROVE RetentionInv
  OBVIOUS
<1>1. maxDays * DayLen <= MaxDuration
  BY TimeAssumption DEF Init
<1> QED
  BY <1>1 DEF Init, RetentionInv, Idle

\* What the sweep deletes has lasted.
LEMMA SweepStep ==
    TypeOK /\ RetentionInv /\ [Next]_vars
       => [\A e \in events \ events' :
              \/ clock >= e.created + e.days * DayLen
              \/ e.expires = YearOne + e.days * DayLen]_vars
<1> SUFFICES ASSUME TypeOK, RetentionInv, Next, NEW e \in events \ events',
                    ~ExpiresAfter(e, YearOne)
             PROVE  clock >= e.created + e.days * DayLen
  BY DEF vars, ExpiresAfter
<1>1. DeleteExpired
  BY DEF Next, Tick, Start, Boot, Crash, KeyNext, CreateAPIKey, SettingsPage,
         DeleteAPIKey, SetActiveAPIKey, RequestNext, BearerAuth, Refuse,
         Prepare, Persist, PersistFails, RetentionNext, ReadNow, DeleteFails,
         SweepDue
<1>2. e.expires # NoExpiry /\ e.expires <= ret.cutoff
  BY <1>1 DEF DeleteExpired, Expired
<1>3. e.created + e.days * DayLen <= e.expires /\ ret.cutoff <= clock
  BY DEF RetentionInv, Lasts
<1>4. /\ e.created + e.days * DayLen \in Int /\ e.expires \in Int
      /\ ret.cutoff \in Int /\ clock \in Int
  BY <1>2, TimeAssumption DEF TypeOK, Event, Days
<1> QED
  BY <1>2, <1>3, <1>4

\* Only the retention worker deletes events, and only when the retention of
\* each has passed since the timestamp it was sent with (retention.go:12-18).
THEOREM RetentionRespected ==
    ASSUME NoOverflow
    PROVE  Spec => RetainedForItsDays
  BY PolicyInitial, RetentionInitial, SweepStep, TypeCorrect, PolicyInductive,
     RetentionInductive, PTL
  DEF Spec, RetainedForItsDays
-----------------------------------------------------------------------------
(***************************************************************************)
(* The balance of the counters.  Requests under way have batches of their  *)
(* own, so that the rows they have prepared are apart.                     *)
(***************************************************************************)
Busy(r) == req[r].pc # "idle"

BatchInv ==
    /\ \A r \in Requests : Busy(r) => up /\ req[r].batch \in 1..batches
    /\ \A r, q \in Requests :
          r # q /\ Busy(r) /\ Busy(q) => req[r].batch # req[q].batch
    /\ \A r \in Requests : req[r].rows # {} => req[r].pc = "write"
    /\ \A r \in Requests : \A row \in req[r].rows :
          row.id[1] = req[r].batch /\ row.project = req[r].project

LEMMA BatchInductive ==
    TypeOK /\ BatchInv /\ [Next]_vars => BatchInv'
<1> SUFFICES ASSUME TypeOK, BatchInv, [Next]_vars PROVE BatchInv'
  OBVIOUS
<1>1. ASSUME UNCHANGED <<req, batches>>, up => up' PROVE BatchInv'
  BY <1>1 DEF BatchInv, Busy
<1>2. CASE Tick \/ KeyNext \/ RetentionNext \/ UNCHANGED vars
  BY <1>1, <1>2
  DEF Tick, KeyNext, CreateAPIKey, DeleteAPIKey, SetActiveAPIKey, SettingsPage,
      RetentionNext, ReadNow, DeleteExpired, DeleteFails, SweepDue, vars
<1>3. CASE Start
  BY <1>1, <1>3 DEF Start, Boot
<1>4. CASE Crash
  BY <1>4 DEF Crash, BatchInv, Busy, Idle
<1>5. ASSUME NEW r \in Requests, NEW k \in Keys, NEW body \in Payloads,
             BearerAuth(r, k, body)
      PROVE  BatchInv'
  <2>1. /\ up' /\ batches \in Nat /\ batches' = batches + 1
        /\ \A q \in Requests \ {r} : req'[q] = req[q]
        /\ req'[r].batch = batches + 1 /\ req'[r].rows = {}
    BY <1>5 DEF BearerAuth, TypeOK
  <2>2. \A q \in Requests : Busy(q) => req[q].batch # batches + 1
                                       /\ req[q].batch \in 1..(batches + 1)
    BY <2>1 DEF BatchInv
  <2> QED
    BY <2>1, <2>2 DEF BatchInv, Busy
<1>6. ASSUME NEW r \in Requests, Refuse(r) \/ Persist(r) \/ PersistFails(r)
      PROVE  BatchInv'
  <2>1. /\ UNCHANGED <<up, batches>> /\ req'[r] = Idle
        /\ \A q \in Requests \ {r} : req'[q] = req[q]
    BY <1>6 DEF Refuse, Persist, PersistFails, TypeOK
  <2> QED
    BY <2>1 DEF BatchInv, Busy, Idle
<1>7. ASSUME NEW r \in Requests, Prepare(r) PROVE BatchInv'
  <2> DEFINE rows == {Row(r, i) : i \in Valid(req[r].body)}
  <2>1. \A row \in rows : row.id[1] = req[r].batch /\ row.project = req[r].project
    BY DEF Row
  <2> HIDE DEF rows
  <2>2. /\ UNCHANGED <<up, batches>> /\ Busy(r)
        /\ \A q \in Requests \ {r} : req'[q] = req[q]
        /\ req'[r].pc = "write" /\ req'[r].rows = rows
        /\ req'[r].batch = req[r].batch /\ req'[r].project = req[r].project
    BY <1>7 DEF Prepare, TypeOK, Request, Busy, rows
  <2> QED
    BY <2>1, <2>2 DEF BatchInv, Busy
<1> QED
  BY <1>2, <1>3, <1>4, <1>5, <1>6, <1>7 DEF Next, RequestNext

Others(r) == UNION {req[q].rows : q \in Requests \ {r}}

\* The rows of other requests are not of this one's batch.
LEMMA OthersApart ==
    ASSUME BatchInv, NEW r \in Requests, Busy(r)
    PROVE  /\ \A row \in Others(r) : row.id[1] # req[r].batch
           /\ Pending = Others(r) \cup req[r].rows
  BY DEF BatchInv, Others, Pending, Busy

LEMMA CountSum ==
    ASSUME NEW S, IsFiniteSet(S), NEW T, IsFiniteSet(T), S \cap T = {}, NEW p
    PROVE  /\ Count(S \cup T, p) = Count(S, p) + Count(T, p)
           /\ Count(S, p) \in Nat /\ Count(T, p) \in Nat
<1> DEFINE A == {e \in S : e.project = p}
           B == {e \in T : e.project = p}
<1>1. IsFiniteSet(A) /\ IsFiniteSet(B) /\ A \cap B = {}
  BY FS_Subset
<1>2. {e \in S \cup T : e.project = p} = A \cup B
  OBVIOUS
<1>3. Cardinality(A) \in Nat /\ Cardinality(B) \in Nat /\ Cardinality({}) = 0
  BY <1>1, FS_CardinalityType, FS_EmptySet
<1>4. Cardinality(A \cup B) = Cardinality(A) + Cardinality(B) - Cardinality(A \cap B)
  BY <1>1, FS_Union
<1>5. Cardinality(A \cap B) = 0
  BY <1>1, <1>3
<1>6. Count(S \cup T, p) = Cardinality(A \cup B)
  BY <1>2, Zenon DEF Count
<1>7. Count(S, p) = Cardinality(A) /\ Count(T, p) = Cardinality(B)
  BY DEF Count
<1> HIDE DEF A, B
<1> QED
  BY <1>3, <1>4, <1>5, <1>6, <1>7

\* Rows of one project count for it alone.
LEMMA CountRows ==
    ASSUME NEW S, IsFiniteSet(S), NEW o, \A e \in S : e.project = o, NEW p
    PROVE  Count(S, p) = IF p = o THEN Cardinality(S) ELSE 0
<1>1. CASE p = o
  <2>1. {e \in S : e.project = p} = S
    BY <1>1
  <2> QED
    BY <1>1, <2>1, Zenon DEF Count
<1>2. CASE p # o
  <2>1. {e \in S : e.project = p} = {}
    BY <1>2
  <2>2. Count(S, p) = Cardinality({})
    BY <2>1, Zenon DEF Count
  <2> QED
    BY <1>2, <2>2, FS_EmptySet
<1> QED
  BY <1>1, <1>2

\* A request counts as many events as it prepares rows.
LEMMA RowsCounted ==
    ASSUME TypeOK, NEW r \in Requests
    PROVE  Cardinality({Row(r, i) : i \in Valid(req[r].body)})
              = Cardinality(Valid(req[r].body))
<1> DEFINE valid == Valid(req[r].body)
           rows  == {Row(r, i) : i \in valid}
           rowOf == [i \in valid |-> Row(r, i)]
<1>1. \A i, j \in valid : i.n = j.n => i = j
  BY InputAssumption DEF TypeOK, Request, Valid
<1>2. \A i, j \in valid : Row(r, i) = Row(r, j) => i = j
  <2>1. \A i \in valid : Row(r, i).id = <<req[r].batch, i.n>>
    BY DEF Row
  <2> QED
    BY <1>1, <2>1
<1>3. rowOf \in Bijection(valid, rows)
  BY <1>2 DEF Bijection, Injection, Surjection, IsInjective
<1>4. IsFiniteSet(valid)
  BY RowsFinite
<1> HIDE DEF valid, rows, rowOf
<1>5. Cardinality(rows) = Cardinality(valid)
  BY <1>3, <1>4, FS_Bijection DEF ExistsBijection
<1> QED
  BY <1>5 DEF valid, rows

Balance(p) == counters[p] = stored[p] + lost[p] + Count(Pending, p)

CountInv == IsFiniteSet(Pending) /\ (up => \A p \in Projects : Balance(p))

LEMMA CountInductive ==
    TypeOK /\ TypeOK' /\ BatchInv /\ BatchInv' /\ CountInv /\ [Next]_vars => CountInv'
<1> SUFFICES ASSUME TypeOK, TypeOK', BatchInv, BatchInv', CountInv, [Next]_vars
             PROVE  CountInv'
  OBVIOUS
<1> DEFINE Ledger == <<counters, stored, lost>>
<1>1. ASSUME \A q \in Requests : req'[q].rows = req[q].rows,
             up' => up /\ UNCHANGED Ledger
      PROVE  CountInv'
  <2>1. Pending' = Pending
    BY <1>1 DEF Pending
  <2> QED
    BY <1>1, <2>1 DEF CountInv, Balance
<1>2. CASE Tick \/ KeyNext \/ RetentionNext \/ UNCHANGED vars
  <2>1. UNCHANGED <<req, up, counters, stored, lost>>
    BY <1>2
    DEF Tick, KeyNext, CreateAPIKey, DeleteAPIKey, SetActiveAPIKey,
        SettingsPage, RetentionNext, ReadNow, DeleteExpired, DeleteFails,
        SweepDue, vars, auxVars
  <2> QED
    BY <1>1, <2>1
<1>3. ASSUME \A q \in Requests : req'[q].rows = {},
             up' => counters' = [p \in Projects |-> 0] /\ stored' = counters'
                    /\ lost' = counters'
      PROVE  CountInv'
  <2>1. Pending' = {}
    BY <1>3 DEF Pending
  <2>2. IsFiniteSet({}) /\ \A p : Count({}, p) = 0
    BY FS_EmptySet, CountRows
  <2> QED
    BY <1>3, <2>1, <2>2 DEF CountInv, Balance
<1>4. CASE Start
  <2>1. \A q \in Requests : req'[q].rows = {}
    BY <1>4 DEF Start, Boot, BatchInv, Busy
  <2> QED
    BY <1>3, <1>4, <2>1 DEF Start, Boot
<1>5. CASE Crash
  BY <1>3, <1>5 DEF Crash, Idle
<1>6. ASSUME NEW r \in Requests, NEW k \in Keys, NEW body \in Payloads,
             BearerAuth(r, k, body)
      PROVE  CountInv'
  <2>1. req[r].rows = {}
    BY <1>6 DEF BearerAuth, BatchInv
  <2>2. \A q \in Requests : req'[q].rows = req[q].rows
    BY <1>6, <2>1 DEF BearerAuth, TypeOK
  <2> QED
    BY <1>1, <1>6, <2>2 DEF BearerAuth, auxVars
<1>7. ASSUME NEW r \in Requests, Refuse(r) PROVE CountInv'
  <2>1. req[r].rows = {}
    BY <1>7 DEF Refuse, BatchInv
  <2>2. \A q \in Requests : req'[q].rows = req[q].rows
    BY <1>7, <2>1 DEF Refuse, TypeOK, Idle
  <2> QED
    BY <1>1, <1>7, <2>2 DEF Refuse, auxVars
<1>8. ASSUME NEW r \in Requests, Busy(r) PROVE
         /\ IsFiniteSet(Others(r)) /\ Others(r) \cap req[r].rows = {}
         /\ Pending = Others(r) \cup req[r].rows
         /\ IsFiniteSet(req[r].rows) /\ Cardinality(req[r].rows) \in Nat
         /\ \A p : Count(req[r].rows, p) =
                      IF p = req[r].project THEN Cardinality(req[r].rows) ELSE 0
  <2>1. Pending = Others(r) \cup req[r].rows /\ Others(r) \cap req[r].rows = {}
    BY <1>8, OthersApart DEF BatchInv
  <2>2. IsFiniteSet(Others(r))
    BY <2>1, FS_Subset DEF CountInv
  <2>3. IsFiniteSet(req[r].rows) /\ Cardinality(req[r].rows) \in Nat
    BY FS_CardinalityType DEF TypeOK
  <2>4. \A e \in req[r].rows : e.project = req[r].project
    BY DEF BatchInv
  <2>5. \A p : Count(req[r].rows, p) =
                  IF p = req[r].project THEN Cardinality(req[r].rows) ELSE 0
    BY <2>3, <2>4, CountRows
  <2> QED
    BY <2>1, <2>2, <2>3, <2>5
<1>9. ASSUME NEW r \in Requests, Prepare(r) PROVE CountInv'
  <2> DEFINE rows == {Row(r, i) : i \in Valid(req[r].body)}
             n == Cardinality(Valid(req[r].body))
  <2>1. IsFiniteSet(rows) /\ Cardinality(rows) = n /\ n \in Nat
        /\ \A row \in rows : row.id[1] = req[r].batch /\ row.project = req[r].project
    BY RowsFinite, RowsCounted DEF Row
  <2>2. /\ Busy(r) /\ req[r].rows = {} /\ up
        /\ \A q \in Requests \ {r} : req'[q].rows = req[q].rows
        /\ req'[r].rows = rows
        /\ UNCHANGED <<stored, lost>>
        /\ counters' = [counters EXCEPT ![req[r].project] = @ + n]
    BY <1>9 DEF Prepare, TypeOK, Busy, BatchInv, auxVars
  <2> HIDE DEF rows, n
  <2>3. Pending' = Others(r) \cup rows
    BY <2>2 DEF Pending, Others
  <2>4. IsFiniteSet(Others(r)) /\ Pending = Others(r)
    BY <1>8, <2>2
  <2>5. Others(r) \cap rows = {}
    BY <2>1, <2>2, OthersApart
  <2>6. IsFiniteSet(Pending')
    BY <2>1, <2>3, <2>4, FS_Union
  <2>7. ASSUME NEW p \in Projects PROVE Balance(p)'
    <3>1. Count(Pending', p) = Count(Pending, p) + Count(rows, p)
          /\ Count(Pending, p) \in Nat /\ Count(rows, p) \in Nat
      <4>1. /\ Count(Others(r) \cup rows, p) = Count(Others(r), p) + Count(rows, p)
            /\ Count(Others(r), p) \in Nat /\ Count(rows, p) \in Nat
        BY <2>1, <2>4, <2>5, CountSum
      <4> QED
        BY <2>3, <2>4, <4>1, Zenon
    <3>2. Count(rows, p) = IF p = req[r].project THEN n ELSE 0
      BY <2>1, CountRows
    <3>3. counters'[p] = counters[p] + (IF p = req[r].project THEN n ELSE 0)
      BY <2>1, <2>2 DEF TypeOK, Request
    <3>4. counters[p] = stored[p] + lost[p] + Count(Pending, p)
          /\ stored[p] \in Nat /\ lost[p] \in Nat
      BY <2>2 DEF CountInv, Balance, TypeOK
    <3>5. counters'[p] = stored[p] + lost[p] + Count(Pending', p)
      BY <2>1, <3>1, <3>2, <3>3, <3>4
    <3> QED
      BY <2>2, <3>5 DEF Balance
  <2> QED
    BY <2>6, <2>7 DEF CountInv
<1>10. ASSUME NEW r \in Requests, Persist(r) \/ PersistFails(r) PROVE CountInv'
  <2> DEFINE rows == req[r].rows
             n == Cardinality(rows)
  <2>1. /\ Busy(r) /\ up /\ UNCHANGED counters /\ req[r].project \in Projects
        /\ \A q \in Requests \ {r} : req'[q].rows = req[q].rows
        /\ req'[r].rows = {}
    BY <1>10 DEF Persist, PersistFails, TypeOK, Busy, Idle, Request
  <2>2. Pending' = Others(r)
    BY <2>1 DEF Pending, Others
  <2>3. /\ IsFiniteSet(Others(r)) /\ Others(r) \cap rows = {}
        /\ Pending = Others(r) \cup rows /\ IsFiniteSet(rows) /\ n \in Nat
        /\ \A p : Count(rows, p) = IF p = req[r].project THEN n ELSE 0
    BY <1>8, <2>1
  <2>4. ASSUME NEW p \in Projects
        PROVE  stored'[p] + lost'[p] = stored[p] + lost[p]
                  + (IF p = req[r].project THEN n ELSE 0)
    <3>1. /\ stored \in [Projects -> Nat] /\ lost \in [Projects -> Nat]
          /\ req[r].project \in Projects /\ n \in Nat
      BY <2>1, <2>3 DEF TypeOK
    <3>2. \/ /\ stored' = [stored EXCEPT ![req[r].project] = @ + n]
             /\ lost' = lost
          \/ /\ lost' = [lost EXCEPT ![req[r].project] = @ + n]
             /\ stored' = stored
      BY <1>10 DEF Persist, PersistFails
    <3> HIDE DEF rows, n
    <3> QED
      BY <3>1, <3>2
  <2> HIDE DEF rows, n
  <2>5. ASSUME NEW p \in Projects PROVE Balance(p)'
    <3>1. Count(Pending, p) = Count(Pending', p) + Count(rows, p)
          /\ Count(Pending', p) \in Nat /\ Count(rows, p) \in Nat
      <4>1. /\ Count(Others(r) \cup rows, p) = Count(Others(r), p) + Count(rows, p)
            /\ Count(Others(r), p) \in Nat /\ Count(rows, p) \in Nat
        BY <2>3, CountSum
      <4> QED
        BY <2>2, <2>3, <4>1, Zenon
    <3>2. counters[p] = stored[p] + lost[p] + Count(Pending, p)
          /\ stored[p] \in Nat /\ lost[p] \in Nat
          /\ stored'[p] \in Nat /\ lost'[p] \in Nat
      BY <2>1 DEF CountInv, Balance, TypeOK
    <3>3. counters[p] = stored'[p] + lost'[p] + Count(Pending', p)
      BY <2>3, <2>4, <3>1, <3>2
    <3> QED
      BY <2>1, <3>3 DEF Balance
  <2> QED
    BY <2>2, <2>3, <2>5 DEF CountInv
<1> QED
  BY <1>2, <1>4, <1>5, <1>6, <1>7, <1>9, <1>10 DEF Next, RequestNext

LEMMA CountInitial == Init => BatchInv /\ CountInv
<1> SUFFICES ASSUME Init PROVE BatchInv /\ CountInv
  OBVIOUS
<1>1. Pending = {} /\ ~up
  BY DEF Init, Pending, Idle
<1> QED
  BY <1>1, FS_EmptySet DEF Init, BatchInv, Busy, Idle, CountInv

LEMMA CountImplies == CountInv => CountersAccountForEvents
  BY DEF CountInv, Balance, CountersAccountForEvents

\* The Prometheus counter of a running process accounts for every event once:
\* stored, failed or still with its handler (ingest.go:123, 134).
THEOREM CountersAlwaysAccount == Spec => []CountersAccountForEvents
  BY CountInitial, CountImplies, TypeCorrect, BatchInductive, CountInductive,
     PTL DEF Spec
=============================================================================
