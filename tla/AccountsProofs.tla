--------------------------- MODULE AccountsProofs ---------------------------
(***************************************************************************)
(* Proofs about Accounts, for any names, keys, environments, handlers and  *)
(* bounds: the types with the tables' uniqueness, that the configured      *)
(* administrator exists and is changed by no handler, that every key has   *)
(* an owner, and that the internal key is and stays the administrator's.   *)
(***************************************************************************)
EXTENDS Accounts, FiniteSetTheorems, TLAPS

\* What a request carries, by its handler.
LEMMA QueryFacts ==
    ASSUME NEW q \in Query
    PROVE  /\ q.op = "createUser" =>
                 q.name \in Names /\ q.pw \in Passwords /\ q.admin \in BOOLEAN
           /\ q.op \in {"resetPassword", "deleteUser"} => q.id \in UserIds
           /\ q.op \in {"resetPassword", "changePassword"} => q.pw \in Passwords
           /\ q.op \in {"deleteKey", "setActive"} => q.id \in KeyIds
           /\ q.op = "setActive" => q.active \in BOOLEAN
  BY DEF Query

LEMMA ConfigFacts ==
    ASSUME NEW c \in Configs
    PROVE  /\ c.admin \in Names /\ c.pw \in Passwords
           /\ c.internal # NoValue => c.internal \in Values
  BY ConfigAssumption
-----------------------------------------------------------------------------
(***************************************************************************)
(* The inductive invariant.                                                *)
(***************************************************************************)
\* Ids are given out once, and a username belongs to one id.
UsersInv ==
    /\ users \in [UserIds -> User \cup {NoRow}] /\ nextUser \in 1..(MaxUsers + 1)
    /\ \A u \in UserIds : nextUser <= u => users[u] = NoRow
    /\ \A u, v \in UserIds :
          users[u] # NoRow /\ users[v] # NoRow /\ users[u].name = users[v].name
             => u = v

KeysInv ==
    /\ keys \in [KeyIds -> Key \cup {NoRow}] /\ nextKey \in 1..(MaxKeys + 1)
    /\ \A k \in KeyIds : nextKey <= k => keys[k] = NoRow
    /\ \A k, l \in KeyIds :
          keys[k] # NoRow /\ keys[l] # NoRow /\ keys[k].value = keys[l].value
             => k = l
    /\ OwnersExist

\* A handler's copy of the session user agrees with the table on the name, as
\* long as the row exists, and the administrator's does.  A user that is about
\* to be changed is not the administrator.
HandlerOK(h) ==
    /\ hs[h] \in Handler
    /\ main # "serving" => hs[h].pc = "idle"
    /\ hs[h].pc # "idle" =>
          /\ hs[h].q \in Query
          /\ hs[h].id \in UserIds /\ hs[h].id < nextUser /\ hs[h].me \in User
          /\ users[hs[h].id] = NoRow \/ users[hs[h].id].name = hs[h].me.name
          /\ hs[h].me.name = cfg.admin => users[hs[h].id] # NoRow
    /\ hs[h].pc = "loaded" /\ hs[h].q.op \in {"resetPassword", "deleteUser"} =>
          /\ hs[h].q.id < nextUser
          /\ users[hs[h].q.id] = NoRow \/ users[hs[h].q.id].name # cfg.admin
    /\ hs[h].pc \in {"listed", "loaded"} /\ hs[h].q.op = "settings" =>
          hs[h].me.name = cfg.admin /\ cfg.internal # NoValue
    /\ hs[h].pc = "listed" => hs[h].q.op = "settings"
    /\ hs[h].pc = "loaded" /\ hs[h].q.op = "settings" =>
          hs[h].got \in Key \cup {NoRow}

HandlersInv ==
    /\ hs \in [Handlers -> Handler]
    /\ \A h \in Handlers : HandlerOK(h)

MainInv ==
    /\ main \in {"down", "admin", "key", "serving"} /\ cfg \in Configs
    /\ faults \in 0..MaxFaults /\ keyEnsured \in BOOLEAN
    /\ AdminExists

Inv == UsersInv /\ KeysInv /\ HandlersInv /\ MainInv

\* What the steps of a serving process do to the users: names stay, rows go
\* but for the administrator's, ids are not used again.
UsersStep ==
    /\ nextUser <= nextUser' /\ nextUser' \in Int
    /\ \A u \in UserIds :
          /\ u < nextUser =>
                \/ users'[u] = NoRow
                \/ users[u] # NoRow /\ users'[u].name = users[u].name
          /\ users[u] # NoRow /\ users[u].name = cfg.admin =>
                users'[u] # NoRow /\ users'[u] = users[u]

\* A handler that serves nothing satisfies its part.
LEMMA FreeOK ==
    ASSUME NEW h \in Handlers, hs[h] = Free
    PROVE  HandlerOK(h)
<1>1. 0 \in 0..MaxUsers
  BY BoundAssumption
<1>2. Free \in Handler
  BY <1>1 DEF Free, Handler
<1> QED
  BY <1>2 DEF HandlerOK, Free

\* A handler that does not step keeps its part.
LEMMA HandlerStays ==
    ASSUME NEW h \in Handlers, HandlerOK(h), UsersInv, UsersStep,
           hs'[h] = hs[h], main = "serving", main' = main, cfg' = cfg
    PROVE  HandlerOK(h)'
<1>1. CASE hs[h].pc = "idle"
  BY <1>1 DEF HandlerOK
<1>2. CASE hs[h].pc # "idle"
  <2>1. hs[h].id \in UserIds /\ hs[h].id < nextUser /\ hs[h].q \in Query
    BY <1>2 DEF HandlerOK
  <2>2. /\ hs[h].id < nextUser'
        /\ users'[hs[h].id] = NoRow \/ users'[hs[h].id].name = hs[h].me.name
        /\ hs[h].me.name = cfg.admin => users'[hs[h].id] # NoRow
    BY <1>2, <2>1 DEF HandlerOK, UsersStep, UsersInv, UserIds
  <2>3. ASSUME hs[h].pc = "loaded", hs[h].q.op \in {"resetPassword", "deleteUser"}
        PROVE  /\ hs[h].q.id < nextUser'
               /\ \/ users'[hs[h].q.id] = NoRow
                  \/ users'[hs[h].q.id].name # cfg.admin
    <3>1. hs[h].q.id \in UserIds
      BY <2>1, <2>3, QueryFacts
    <3> QED
      BY <2>3, <3>1 DEF HandlerOK, UsersStep, UsersInv, UserIds
  <2> QED
    BY <1>2, <2>1, <2>2, <2>3 DEF HandlerOK
<1> QED
  BY <1>1, <1>2

\* A step of one handler that ends it, or only moves it on, keeps the others.
LEMMA RespondOK ==
    ASSUME HandlersInv, UsersInv, UsersStep, NEW h \in Handlers, Respond(h),
           main = "serving", main' = main, cfg' = cfg
    PROVE  HandlersInv'
<1>1. hs'[h] = Free /\ \A g \in Handlers \ {h} : hs'[g] = hs[g]
  BY DEF Respond, HandlersInv
<1>2. HandlerOK(h)'
  <2>1. 0 \in 0..MaxUsers
    BY BoundAssumption
  <2>2. Free \in Handler
    BY <2>1 DEF Free, Handler
  <2> QED
    BY <1>1, <2>2 DEF HandlerOK, Free
<1>3. \A g \in Handlers \ {h} : HandlerOK(g)'
  BY <1>1, HandlerStays DEF HandlersInv
<1>4. hs' \in [Handlers -> Handler]
  BY <1>2 DEF Respond, HandlersInv, Free, HandlerOK
<1> QED
  BY <1>2, <1>3, <1>4 DEF HandlersInv

LEMMA NothingStep ==
    ASSUME UsersInv, UNCHANGED <<users, nextUser>>
    PROVE  UsersStep
  BY DEF UsersStep, UsersInv, UserIds
-----------------------------------------------------------------------------
(***************************************************************************)
(* The writes the actions are made of.                                     *)
(***************************************************************************)
LEMMA InsertUserFacts ==
    ASSUME UsersInv, NEW row \in User, InsertUser(row)
    PROVE  /\ UsersInv' /\ UsersStep
           /\ \A u \in UserIds : users[u] # NoRow => users'[u] = users[u]
           /\ (UserNamed(row.name) = {} => nextUser <= MaxUsers)
                 => \E u \in UserIds :
                       users'[u] # NoRow /\ users'[u].name = row.name
<1>1. CASE UserNamed(row.name) = {} /\ nextUser <= MaxUsers
  <2>1. /\ users' = [users EXCEPT ![nextUser] = row]
        /\ nextUser' = nextUser + 1 /\ nextUser \in UserIds
        /\ row # NoRow
    BY <1>1, RowAssumption DEF InsertUser, UsersInv, UserIds
  <2>2. \A u \in UserIds : users[u] # NoRow => users[u].name # row.name
    BY <1>1 DEF UserNamed
  <2>3. UsersInv'
    BY <2>1, <2>2, BoundAssumption DEF UsersInv, UserIds
  <2>4. \A u \in UserIds : u # nextUser => users'[u] = users[u]
    BY <2>1 DEF UsersInv
  <2>5. users'[nextUser] # NoRow /\ users'[nextUser].name = row.name
    BY <2>1 DEF UsersInv
  <2>6. users[nextUser] = NoRow
    BY <2>1 DEF UsersInv, UserIds
  <2> QED
    BY <2>1, <2>3, <2>4, <2>5, <2>6 DEF UsersStep, UsersInv, UserIds
<1>2. CASE ~(UserNamed(row.name) = {} /\ nextUser <= MaxUsers)
  <2>1. UNCHANGED <<users, nextUser>>
    BY <1>2 DEF InsertUser
  <2> QED
    BY <1>2, <2>1, NothingStep DEF UsersInv, UserNamed
<1> QED
  BY <1>1, <1>2

LEMMA SetPasswordFacts ==
    ASSUME UsersInv, UNCHANGED nextUser, NEW u \in UserIds,
           NEW pw \in Passwords, SetPassword(u, pw),
           users[u] = NoRow \/ users[u].name # cfg.admin
    PROVE  /\ UsersInv' /\ UsersStep
           /\ \A v \in UserIds : users'[v] = NoRow <=> users[v] = NoRow
<1>1. /\ \A v \in UserIds \ {u} : users'[v] = users[v]
      /\ users'[u] = IF users[u] = NoRow THEN NoRow
                     ELSE [users[u] EXCEPT !.pw = pw]
      /\ DOMAIN users' = UserIds
  BY DEF SetPassword, UsersInv
<1>2. users[u] # NoRow =>
         /\ users'[u] \in User /\ users'[u].name = users[u].name
         /\ users'[u] # NoRow
  <2> SUFFICES ASSUME users[u] # NoRow
               PROVE  /\ users'[u] \in User /\ users'[u].name = users[u].name
                      /\ users'[u] # NoRow
    OBVIOUS
  <2>1. users[u] \in User
    BY DEF UsersInv
  <2>2. users'[u] \in User /\ users'[u].name = users[u].name
    BY <1>1, <2>1 DEF User
  <2> QED
    BY <2>2, RowAssumption
<1>3. users' \in [UserIds -> User \cup {NoRow}]
  <2>1. users' = [users EXCEPT ![u] = IF @ = NoRow THEN NoRow
                                      ELSE [@ EXCEPT !.pw = pw]]
    BY DEF SetPassword
  <2>2. users' = [v \in UserIds |-> users'[v]]
    BY <2>1 DEF UsersInv
  <2> QED
    BY <1>1, <1>2, <2>2 DEF UsersInv
<1>4. ASSUME NEW v \in UserIds
      PROVE  /\ users'[v] = NoRow <=> users[v] = NoRow
             /\ users[v] # NoRow => users'[v].name = users[v].name
             /\ users[v] # NoRow /\ users[v].name = cfg.admin
                   => users'[v] = users[v]
  <2>1. CASE v = u
    BY <1>1, <1>2, <2>1
  <2>2. CASE v # u
    BY <1>1, <2>2
  <2> QED
    BY <2>1, <2>2
<1>5. UsersInv'
  BY <1>3, <1>4 DEF UsersInv
<1>6. UsersStep
  BY <1>4 DEF UsersStep, UsersInv, UserIds
<1> QED
  BY <1>4, <1>5, <1>6

LEMMA InsertKeyFacts ==
    ASSUME KeysInv, NEW row \in Key, InsertKey(row), UNCHANGED users
    PROVE  KeysInv'
<1>1. CASE KeyOf(row.value) = {} /\ users[row.owner] # NoRow /\ nextKey <= MaxKeys
  <2>1. /\ keys' = [keys EXCEPT ![nextKey] = row]
        /\ nextKey' = nextKey + 1 /\ nextKey \in KeyIds
    BY <1>1 DEF InsertKey, KeysInv, KeyIds
  <2>2. \A k \in KeyIds : keys[k] # NoRow => keys[k].value # row.value
    BY <1>1 DEF KeyOf
  <2>3. nextKey' \in 1..(MaxKeys + 1)
    BY <1>1, <2>1, BoundAssumption DEF KeysInv
  <2>4. OwnersExist'
    BY <1>1, <2>1 DEF KeysInv, OwnersExist
  <2> QED
    BY <2>1, <2>2, <2>3, <2>4 DEF KeysInv
<1>2. CASE ~(KeyOf(row.value) = {} /\ users[row.owner] # NoRow
             /\ nextKey <= MaxKeys)
  BY <1>2 DEF InsertKey, KeysInv, OwnersExist
<1> QED
  BY <1>1, <1>2

LEMMA KeysStay ==
    ASSUME KeysInv, UNCHANGED <<keys, nextKey>>,
           \A u \in UserIds : users[u] # NoRow => users'[u] # NoRow
    PROVE  KeysInv'
<1>1. \A k \in KeyIds : keys[k] # NoRow => keys[k].owner \in UserIds
  BY DEF KeysInv, Key
<1> QED
  BY <1>1 DEF KeysInv, OwnersExist

\* Rows that only change owner or active flag, or go.
LEMMA UpdateKeysFacts ==
    ASSUME KeysInv, UNCHANGED <<users, nextKey>>,
           keys' \in [KeyIds -> Key \cup {NoRow}],
           \A k \in KeyIds : keys'[k] # NoRow =>
              /\ keys[k] # NoRow /\ keys'[k].value = keys[k].value
              /\ users[keys'[k].owner] # NoRow
    PROVE  KeysInv'
  BY DEF KeysInv, OwnersExist

LEMMA AdminStays ==
    ASSUME UsersInv, UsersStep, MainInv, main = "serving", UNCHANGED bootVars
    PROVE  MainInv'
<1>1. PICK a \in UserIds : users[a] # NoRow /\ users[a].name = cfg.admin
  BY DEF MainInv, AdminExists, UserNamed
<1>2. users'[a] # NoRow /\ users'[a].name = cfg.admin
  BY <1>1 DEF UsersStep
<1> QED
  BY <1>1, <1>2 DEF MainInv, AdminExists, UserNamed, bootVars
-----------------------------------------------------------------------------
(***************************************************************************)
(* Every step keeps the invariant.                                         *)
(***************************************************************************)
\* While main is not serving every handler is idle, whatever main does.
LEMMA IdleStays ==
    ASSUME HandlersInv, main # "serving", UNCHANGED hs
    PROVE  HandlersInv'
  BY DEF HandlersInv, HandlerOK

LEMMA MainStep ==
    ASSUME Inv, Boot \/ EnsureBootstrapAdmin \/ EnsureBootstrapAPIKey
                     \/ BootstrapFails \/ Crash
    PROVE  Inv'
<1> USE DEF Inv
<1>1. ASSUME NEW c \in Configs, Load(c) PROVE Inv'
  <2>1. MainInv' /\ HandlersInv'
    BY <1>1, IdleStays DEF Load, MainInv, AdminExists
  <2>2. UsersInv' /\ KeysInv'
    BY <1>1, KeysStay DEF Load, UsersInv
  <2> QED
    BY <2>1, <2>2
<1>2. CASE EnsureBootstrapAdmin
  <2> DEFINE row == [name |-> cfg.admin, pw |-> cfg.pw, admin |-> TRUE]
  <2>1. row \in User
    BY ConfigFacts DEF User, MainInv
  <2>2. InsertUser(row) /\ row.name = cfg.admin
        /\ (UserNamed(cfg.admin) = {} => nextUser <= MaxUsers)
    BY <1>2 DEF EnsureBootstrapAdmin
  <2> HIDE DEF row
  <2>3. UsersInv' /\ \A u \in UserIds : users[u] # NoRow => users'[u] = users[u]
    BY <2>1, <2>2, InsertUserFacts
  <2>4. UserNamed(cfg.admin)' # {}
    <3>1. cfg' = cfg
      BY <1>2 DEF EnsureBootstrapAdmin
    <3>2. PICK u \in UserIds : users'[u] # NoRow /\ users'[u].name = row.name
      BY <2>1, <2>2, InsertUserFacts
    <3> QED
      BY <2>2, <3>1, <3>2 DEF UserNamed
  <2>5. MainInv' /\ HandlersInv'
    BY <1>2, <2>4, IdleStays DEF EnsureBootstrapAdmin, MainInv, AdminExists
  <2>6. KeysInv'
    BY <1>2, <2>3, KeysStay DEF EnsureBootstrapAdmin
  <2> QED
    BY <2>3, <2>5, <2>6
<1>3. CASE EnsureBootstrapAPIKey
  <2> DEFINE a == CHOOSE u \in UserNamed(cfg.admin) : TRUE
             found == KeyOf(cfg.internal)
  <2>1. main = "key" /\ main' = "serving" /\ keyEnsured' = TRUE
        /\ UNCHANGED <<cfg, users, nextUser, hs, faults>>
    BY <1>3 DEF EnsureBootstrapAPIKey
  <2>2. a \in UserNamed(cfg.admin)
    BY <2>1 DEF MainInv, AdminExists
  <2>3. a \in UserIds /\ users[a] # NoRow
    BY <2>2 DEF UserNamed
  <2> HIDE DEF a
  <2>4. KeysInv'
    <3>1. CASE UNCHANGED <<keys, nextKey>>
      BY <2>1, <3>1, KeysStay
    <3>2. CASE /\ keys' = [k \in KeyIds |->
                     IF k \in found /\ keys[k].owner # a
                     THEN [keys[k] EXCEPT !.owner = a, !.active = TRUE]
                     ELSE keys[k]]
               /\ UNCHANGED nextKey
      <4>1. ASSUME NEW k \in KeyIds
            PROVE  /\ keys'[k] \in Key \cup {NoRow}
                   /\ keys'[k] # NoRow =>
                         /\ keys[k] # NoRow /\ keys'[k].value = keys[k].value
                         /\ users[keys'[k].owner] # NoRow
        <5>1. CASE k \in found /\ keys[k].owner # a
          <6>1. keys[k] \in Key /\ keys[k] # NoRow
            BY <5>1 DEF KeyOf, KeysInv
          <6>2. keys'[k] = [keys[k] EXCEPT !.owner = a, !.active = TRUE]
            BY <3>2, <5>1
          <6> QED
            BY <2>3, <6>1, <6>2 DEF Key
        <5>2. CASE ~(k \in found /\ keys[k].owner # a)
          BY <3>2, <5>2 DEF KeysInv, OwnersExist
        <5> QED
          BY <5>1, <5>2
      <4>2. keys' \in [KeyIds -> Key \cup {NoRow}]
        BY <3>2, <4>1
      <4> QED
        BY <2>1, <3>2, <4>1, <4>2, UpdateKeysFacts
    <3>3. CASE cfg.internal # NoValue
               /\ InsertKey([value |-> cfg.internal, owner |-> a,
                             active |-> TRUE])
      <4>1. [value |-> cfg.internal, owner |-> a, active |-> TRUE] \in Key
        BY <2>3, <3>3, ConfigFacts DEF Key, MainInv
      <4> QED
        BY <2>1, <3>3, <4>1, InsertKeyFacts
    <3> QED
      BY <1>3, <3>1, <3>2, <3>3 DEF EnsureBootstrapAPIKey, a
  <2>5. MainInv' /\ HandlersInv' /\ UsersInv'
    BY <2>1, IdleStays DEF MainInv, AdminExists, UserNamed, UsersInv
  <2> QED
    BY <2>4, <2>5
<1>4. CASE BootstrapFails
  <2>1. faults' \in 0..MaxFaults
    BY <1>4, BoundAssumption DEF BootstrapFails, MainInv
  <2>2. MainInv' /\ HandlersInv'
    BY <1>4, <2>1, IdleStays
    DEF BootstrapFails, MainInv, AdminExists, UserNamed
  <2>3. UsersInv' /\ KeysInv'
    BY <1>4, KeysStay DEF BootstrapFails, UsersInv
  <2> QED
    BY <2>2, <2>3
<1>5. CASE Crash
  <2>1. faults' \in 0..MaxFaults
    BY <1>5, BoundAssumption DEF Crash, MainInv
  <2>2. Free \in Handler
    BY BoundAssumption DEF Free, Handler
  <2>3. HandlersInv'
    BY <1>5, <2>2 DEF Crash, HandlersInv, HandlerOK, Free
  <2>4. MainInv' /\ UsersInv' /\ KeysInv'
    BY <1>5, <2>1, KeysStay DEF Crash, MainInv, AdminExists, UsersInv
  <2> QED
    BY <2>3, <2>4
<1> QED
  BY <1>1, <1>2, <1>3, <1>4, <1>5 DEF Boot

\* A handler moves on with a row, or answers; the tables stay.
LEMMA KeepOK ==
    ASSUME Inv, NEW h \in Handlers, main = "serving", hs[h].pc # "idle",
           NEW pc \in {"listed", "loaded"}, NEW row \in User \cup Key \cup {NoRow},
           Keep(h, pc, row),
           pc = "loaded" /\ hs[h].q.op \in {"resetPassword", "deleteUser"} =>
              /\ hs[h].q.id < nextUser
              /\ users[hs[h].q.id] = NoRow \/ users[hs[h].q.id].name # cfg.admin,
           hs[h].q.op = "settings" =>
              hs[h].me.name = cfg.admin /\ cfg.internal # NoValue,
           pc = "listed" => hs[h].q.op = "settings",
           hs[h].q.op = "settings" /\ pc = "loaded" => row \in Key \cup {NoRow}
    PROVE  Inv'
<1>1. /\ UNCHANGED <<users, keys, nextUser, nextKey, bootVars>>
      /\ hs' = [hs EXCEPT ![h].pc = pc, ![h].got = row]
  BY DEF Keep
<1>2. UsersInv' /\ KeysInv' /\ MainInv'
  BY <1>1, KeysStay
  DEF Inv, UsersInv, MainInv, AdminExists, UserNamed, bootVars
<1>3. hs \in [Handlers -> Handler] /\ HandlerOK(h)
  BY DEF Inv, HandlersInv
<1>4. /\ hs'[h] = [hs[h] EXCEPT !.pc = pc, !.got = row]
      /\ \A g \in Handlers \ {h} : hs'[g] = hs[g]
  BY <1>1, <1>3
<1>5. hs'[h] \in Handler /\ hs' \in [Handlers -> Handler]
  BY <1>1, <1>3 DEF Handler
<1>6. /\ hs'[h].pc = pc /\ hs'[h].got = row /\ hs'[h].q = hs[h].q
      /\ hs'[h].id = hs[h].id /\ hs'[h].me = hs[h].me
  BY <1>3, <1>4 DEF Handler
<1>7. HandlerOK(h)'
  BY <1>1, <1>3, <1>5, <1>6 DEF HandlerOK, bootVars
<1>8. UsersStep
  BY <1>1, NothingStep DEF Inv
<1>9. \A g \in Handlers \ {h} : HandlerOK(g)'
  BY <1>1, <1>4, <1>8, HandlerStays DEF Inv, HandlersInv, bootVars
<1> QED
  BY <1>2, <1>5, <1>7, <1>9 DEF Inv, HandlersInv

LEMMA AnswerOK ==
    ASSUME Inv, NEW h \in Handlers, main = "serving", Answer(h)
    PROVE  Inv' /\ UNCHANGED users
<1>1. UNCHANGED <<users, keys, nextUser, nextKey, bootVars>> /\ Respond(h)
  BY DEF Answer
<1>2. UsersInv' /\ KeysInv' /\ MainInv'
  BY <1>1, KeysStay
  DEF Inv, UsersInv, MainInv, AdminExists, UserNamed, bootVars
<1>3. HandlersInv'
  BY <1>1, NothingStep, RespondOK DEF Inv, bootVars
<1> QED
  BY <1>1, <1>2, <1>3 DEF Inv

\* What a handler at one of its steps has in hand.
LEMMA AtFacts ==
    ASSUME Inv, NEW h \in Handlers, NEW ops, NEW pc, pc # "idle", At(h, ops, pc)
    PROVE  /\ main = "serving" /\ hs[h].pc = pc /\ hs[h].q.op \in ops
           /\ hs[h].q \in Query /\ hs[h].me \in User
           /\ hs[h].id \in UserIds /\ hs[h].id < nextUser
           /\ users[hs[h].id] = NoRow \/ users[hs[h].id].name = hs[h].me.name
           /\ hs[h].me.name = cfg.admin => users[hs[h].id] # NoRow
  BY DEF Inv, HandlersInv, HandlerOK, At

\* The configured administrator's row outlives the step as it is.
AdminKept == \A u \in UserNamed(cfg.admin) : users'[u] = users[u]

\* A handler that writes the table of users and answers.
LEMMA UserWrite ==
    ASSUME Inv, NEW h \in Handlers, main = "serving", Respond(h),
           UNCHANGED bootVars, UsersInv', UsersStep, KeysInv'
    PROVE  Inv' /\ AdminKept
<1>1. MainInv' /\ HandlersInv'
  BY AdminStays, RespondOK DEF Inv, bootVars
<1> QED
  BY <1>1 DEF Inv, AdminKept, UsersStep, UserNamed

\* A handler that writes the table of keys and answers.
LEMMA KeyWrite ==
    ASSUME Inv, NEW h \in Handlers, main = "serving", Respond(h),
           UNCHANGED <<users, nextUser, bootVars>>, KeysInv'
    PROVE  Inv' /\ AdminKept
<1>1. UsersInv' /\ UsersStep
  BY NothingStep DEF Inv, UsersInv
<1> QED
  BY <1>1, UserWrite

LEMMA UserHandlers ==
    ASSUME Inv, NEW h \in Handlers,
           \/ CreateUser(h) \/ LoadUser(h) \/ ResetPassword(h) \/ DeleteUser(h)
           \/ ChangePasswordSelf(h)
    PROVE  Inv' /\ AdminKept
<1>1. CASE CreateUser(h)
  <2> DEFINE q == hs[h].q
             row == [name |-> q.name, pw |-> q.pw, admin |-> q.admin]
  <2>1. main = "serving" /\ q.op = "createUser" /\ q \in Query
    BY <1>1, AtFacts DEF CreateUser
  <2>2. row \in User
    BY <2>1, QueryFacts DEF User
  <2>3. InsertUser(row) /\ Respond(h) /\ UNCHANGED <<keys, nextKey, bootVars>>
    BY <1>1 DEF CreateUser
  <2> HIDE DEF row
  <2>4. UsersInv' /\ UsersStep
        /\ \A u \in UserIds : users[u] # NoRow => users'[u] = users[u]
    BY <2>2, <2>3, InsertUserFacts DEF Inv
  <2>5. KeysInv'
    BY <2>3, <2>4, KeysStay DEF Inv
  <2> QED
    BY <2>1, <2>3, <2>4, <2>5, UserWrite
<1>2. CASE LoadUser(h)
  <2> DEFINE q == hs[h].q
             row == users[q.id]
  <2>1. /\ main = "serving" /\ hs[h].pc = "auth" /\ q \in Query
        /\ q.op \in {"resetPassword", "deleteUser"}
    BY <1>2, AtFacts DEF LoadUser
  <2>2. q.id \in UserIds
    BY <2>1, QueryFacts
  <2>3. CASE Answer(h)
    BY <2>1, <2>3, AnswerOK DEF AdminKept
  <2>4. CASE row # NoRow /\ row.name # cfg.admin /\ Keep(h, "loaded", row)
    <3>1. q.id < nextUser /\ row \in User
      BY <2>2, <2>4 DEF Inv, UsersInv, UserIds
    <3>2. Inv'
      BY <2>1, <2>4, <3>1, KeepOK
    <3> QED
      BY <2>4, <3>2 DEF Keep, AdminKept
  <2> QED
    BY <1>2, <2>3, <2>4 DEF LoadUser
<1>3. CASE ResetPassword(h)
  <2>1. /\ main = "serving" /\ hs[h].pc = "loaded" /\ hs[h].q \in Query
        /\ hs[h].q.op = "resetPassword"
    BY <1>3, AtFacts DEF ResetPassword
  <2>2. hs[h].q.id \in UserIds /\ hs[h].q.pw \in Passwords
    BY <2>1, QueryFacts
  <2>3. users[hs[h].q.id] = NoRow \/ users[hs[h].q.id].name # cfg.admin
    BY <2>1 DEF Inv, HandlersInv, HandlerOK
  <2>4. /\ SetPassword(hs[h].q.id, hs[h].q.pw) /\ Respond(h)
        /\ UNCHANGED <<keys, nextUser, nextKey, bootVars>>
    BY <1>3 DEF ResetPassword
  <2>5. UsersInv' /\ UsersStep
        /\ \A v \in UserIds : users'[v] = NoRow <=> users[v] = NoRow
    BY <2>2, <2>3, <2>4, SetPasswordFacts DEF Inv
  <2>6. KeysInv'
    BY <2>4, <2>5, KeysStay DEF Inv
  <2> QED
    BY <2>1, <2>4, <2>5, <2>6, UserWrite
<1>4. CASE DeleteUser(h)
  <2> DEFINE u == hs[h].q.id
  <2>1. /\ main = "serving" /\ hs[h].pc = "loaded" /\ hs[h].q \in Query
        /\ hs[h].q.op = "deleteUser"
    BY <1>4, AtFacts DEF DeleteUser
  <2>2. u \in UserIds
    BY <2>1, QueryFacts
  <2>3. users[u] = NoRow \/ users[u].name # cfg.admin
    BY <2>1 DEF Inv, HandlersInv, HandlerOK
  <2>4. /\ users' = IF OwnedBy(u) = {} THEN [users EXCEPT ![u] = NoRow] ELSE users
        /\ Respond(h) /\ UNCHANGED <<keys, nextUser, nextKey, bootVars>>
    BY <1>4 DEF DeleteUser
  <2> HIDE DEF u
  <2>5. UsersInv' /\ UsersStep
    BY <2>2, <2>3, <2>4 DEF Inv, UsersInv, UsersStep, UserIds
  <2>6. KeysInv'
    <3>1. \A k \in KeyIds : keys[k] # NoRow => keys[k].owner \in UserIds
      BY DEF Inv, KeysInv, Key
    <3>2. OwnersExist'
      BY <2>2, <2>4, <3>1 DEF Inv, KeysInv, UsersInv, OwnersExist, OwnedBy
    <3> QED
      BY <2>4, <3>2 DEF Inv, KeysInv
  <2> QED
    BY <2>1, <2>4, <2>5, <2>6, UserWrite
<1>5. CASE ChangePasswordSelf(h)
  <2>1. /\ main = "serving" /\ hs[h].q \in Query
        /\ hs[h].q.op = "changePassword" /\ hs[h].id \in UserIds
        /\ users[hs[h].id] = NoRow \/ users[hs[h].id].name = hs[h].me.name
    BY <1>5, AtFacts DEF ChangePasswordSelf
  <2>2. Respond(h) /\ UNCHANGED <<keys, nextUser, nextKey, bootVars>>
    BY <1>5 DEF ChangePasswordSelf
  <2>3. CASE UNCHANGED users
    BY <2>1, <2>2, <2>3, KeyWrite, KeysStay DEF Inv
  <2>4. CASE hs[h].me.name # cfg.admin /\ SetPassword(hs[h].id, hs[h].q.pw)
    <3>1. hs[h].q.pw \in Passwords
      BY <2>1, QueryFacts
    <3>2. UsersInv' /\ UsersStep
          /\ \A v \in UserIds : users'[v] = NoRow <=> users[v] = NoRow
      BY <2>1, <2>2, <2>4, <3>1, SetPasswordFacts DEF Inv
    <3>3. KeysInv'
      BY <2>2, <3>2, KeysStay DEF Inv
    <3> QED
      BY <2>1, <2>2, <3>2, <3>3, UserWrite
  <2> QED
    BY <1>5, <2>3, <2>4 DEF ChangePasswordSelf
<1> QED
  BY <1>1, <1>2, <1>3, <1>4, <1>5

\* The session user is the row as AdminAuth reads it.
LEMMA SessionStarts ==
    ASSUME Inv, NEW h \in Handlers, NEW u \in UserIds, NEW q \in Query,
           AdminAuth(h, u, q)
    PROVE  Inv' /\ AdminKept
<1> DEFINE me == [users[u] EXCEPT
                     !.admin = @ \/ users[u].name = cfg.admin]
           rec == [pc |-> "auth", q |-> q, id |-> u, got |-> NoRow,
                   clean |-> TRUE, me |-> me]
<1>1. /\ main = "serving" /\ users[u] # NoRow
      /\ hs' = [hs EXCEPT ![h] = rec]
      /\ UNCHANGED <<users, keys, nextUser, nextKey, bootVars>>
  BY DEF AdminAuth
<1>2. users[u] \in User /\ u < nextUser
  BY <1>1 DEF Inv, UsersInv, UserIds
<1>3. me \in User /\ me.name = users[u].name
  <2>1. (users[u].admin \/ users[u].name = cfg.admin) \in BOOLEAN
    BY Zenon
  <2> HIDE DEF me
  <2>2. me = [users[u] EXCEPT !.admin = (users[u].admin \/ users[u].name = cfg.admin)]
    BY DEF me
  <2> QED
    BY <1>2, <2>1, <2>2 DEF User
<1> HIDE DEF me
<1>4. u \in 0..MaxUsers /\ rec \in Handler
  BY <1>3, BoundAssumption DEF Handler, UserIds
<1>5. /\ hs \in [Handlers -> Handler] /\ hs' \in [Handlers -> Handler]
      /\ hs'[h] = rec /\ \A g \in Handlers \ {h} : hs'[g] = hs[g]
  BY <1>1, <1>4 DEF Inv, HandlersInv
<1>6. HandlerOK(h)'
  BY <1>1, <1>2, <1>3, <1>4, <1>5 DEF HandlerOK, bootVars
<1>7. UsersInv' /\ UsersStep /\ KeysInv' /\ MainInv'
  BY <1>1, NothingStep, KeysStay
  DEF Inv, UsersInv, MainInv, AdminExists, UserNamed, bootVars
<1>8. \A g \in Handlers \ {h} : HandlerOK(g)'
  BY <1>1, <1>5, <1>7, HandlerStays DEF Inv, HandlersInv, bootVars
<1> QED
  BY <1>1, <1>5, <1>6, <1>7, <1>8 DEF Inv, HandlersInv, AdminKept

\* A handler whose statement fails answers, but for the settings page, which
\* goes on; the tables stay.
LEMMA FailureOK ==
    ASSUME Inv, NEW h \in Handlers, StatementFails(h)
    PROVE  Inv' /\ AdminKept
<1>1. /\ main = "serving" /\ hs[h].pc # "idle"
      /\ UNCHANGED <<main, cfg, keyEnsured, users, keys, nextUser, nextKey>>
      /\ faults' \in 0..MaxFaults
  BY BoundAssumption DEF StatementFails, Inv, MainInv
<1>2. UsersInv' /\ KeysInv' /\ MainInv' /\ UsersStep /\ AdminKept
  BY <1>1, KeysStay, NothingStep
  DEF Inv, UsersInv, MainInv, AdminExists, UserNamed, AdminKept
<1>3. CASE Respond(h)
  BY <1>1, <1>2, <1>3, RespondOK DEF Inv
<1>4. CASE /\ hs[h].pc = "listed"
           /\ hs' = [hs EXCEPT ![h].pc = "loaded", ![h].got = NoRow,
                               ![h].clean = FALSE]
  <2>1. hs \in [Handlers -> Handler] /\ HandlerOK(h) /\ hs[h] \in Handler
    BY DEF Inv, HandlersInv
  <2>2. /\ hs'[h] = [hs[h] EXCEPT !.pc = "loaded", !.got = NoRow, !.clean = FALSE]
        /\ \A g \in Handlers \ {h} : hs'[g] = hs[g]
    BY <1>4, <2>1
  <2>3. /\ hs'[h].pc = "loaded" /\ hs'[h].got = NoRow /\ hs'[h].q = hs[h].q
        /\ hs'[h].id = hs[h].id /\ hs'[h].me = hs[h].me
        /\ hs'[h] \in Handler /\ hs' \in [Handlers -> Handler]
    BY <1>4, <2>1, <2>2 DEF Handler
  <2>4. hs[h].q.op = "settings"
    BY <1>4, <2>1 DEF HandlerOK
  <2>5. HandlerOK(h)'
    BY <1>1, <1>4, <2>1, <2>3, <2>4 DEF HandlerOK
  <2>6. \A g \in Handlers \ {h} : HandlerOK(g)'
    BY <1>1, <1>2, <2>2, HandlerStays DEF Inv, HandlersInv
  <2> QED
    BY <1>2, <2>3, <2>5, <2>6 DEF Inv, HandlersInv
<1> QED
  BY <1>3, <1>4 DEF StatementFails

LEMMA KeyHandlers ==
    ASSUME Inv, NEW h \in Handlers,
           \/ \E v \in Values : CreateAPIKey(h, v)
           \/ LoadKey(h) \/ DeleteAPIKey(h) \/ SetActiveAPIKey(h)
    PROVE  Inv' /\ AdminKept
<1>1. ASSUME NEW v \in Values, CreateAPIKey(h, v)
      PROVE  Inv' /\ AdminKept
  <2> DEFINE row == [value |-> v, owner |-> hs[h].id, active |-> TRUE]
  <2>1. main = "serving" /\ row \in Key
    BY <1>1, AtFacts DEF CreateAPIKey, Key
  <2>2. InsertKey(row) /\ Respond(h) /\ UNCHANGED <<users, nextUser, bootVars>>
    BY <1>1 DEF CreateAPIKey
  <2> HIDE DEF row
  <2>3. KeysInv'
    BY <2>1, <2>2, InsertKeyFacts DEF Inv
  <2> QED
    BY <2>1, <2>2, <2>3, KeyWrite
<1>2. CASE LoadKey(h)
  <2> DEFINE q == hs[h].q
             row == keys[q.id]
  <2>1. /\ main = "serving" /\ hs[h].pc = "auth" /\ q \in Query
        /\ q.op \in {"deleteKey", "setActive"}
    BY <1>2, AtFacts DEF LoadKey
  <2>2. q.id \in KeyIds
    BY <2>1, QueryFacts
  <2>3. CASE Answer(h)
    BY <2>1, <2>3, AnswerOK DEF AdminKept
  <2>4. CASE Keep(h, "loaded", row)
    <3>1. row \in Key \cup {NoRow}
      BY <2>2 DEF Inv, KeysInv
    <3>2. Inv'
      BY <2>1, <2>4, <3>1, KeepOK
    <3> QED
      BY <2>4, <3>2 DEF Keep, AdminKept
  <2> QED
    BY <1>2, <2>3, <2>4 DEF LoadKey
<1>3. CASE DeleteAPIKey(h)
  <2>1. main = "serving"
    BY <1>3, AtFacts DEF DeleteAPIKey
  <2>2. /\ keys' = [keys EXCEPT ![hs[h].q.id] = NoRow] /\ Respond(h)
        /\ UNCHANGED <<users, nextUser, nextKey, bootVars>>
    BY <1>3 DEF DeleteAPIKey
  <2>3. /\ keys' \in [KeyIds -> Key \cup {NoRow}]
        /\ \A k \in KeyIds : keys'[k] # NoRow => keys'[k] = keys[k]
    BY <2>2 DEF Inv, KeysInv
  <2>4. KeysInv'
    BY <2>2, <2>3, UpdateKeysFacts DEF Inv, KeysInv, OwnersExist
  <2> QED
    BY <2>1, <2>2, <2>4, KeyWrite
<1>4. CASE SetActiveAPIKey(h)
  <2> DEFINE q == hs[h].q
  <2>1. main = "serving" /\ q \in Query /\ q.op = "setActive"
    BY <1>4, AtFacts DEF SetActiveAPIKey
  <2>2. q.active \in BOOLEAN
    BY <2>1, QueryFacts
  <2>3. /\ keys' = [keys EXCEPT ![q.id] =
                       IF @ = NoRow THEN NoRow ELSE [@ EXCEPT !.active = q.active]]
        /\ Respond(h) /\ UNCHANGED <<users, nextUser, nextKey, bootVars>>
    BY <1>4 DEF SetActiveAPIKey
  <2> HIDE DEF q
  <2>4. ASSUME NEW k \in KeyIds
        PROVE  /\ keys'[k] \in Key \cup {NoRow}
               /\ keys'[k] # NoRow =>
                     /\ keys[k] # NoRow /\ keys'[k].value = keys[k].value
                     /\ keys'[k].owner = keys[k].owner
    <3>1. keys \in [KeyIds -> Key \cup {NoRow}]
      BY DEF Inv, KeysInv
    <3>2. CASE k = q.id /\ keys[k] # NoRow
      <4>1. keys[k] \in Key
        BY <3>1, <3>2
      <4>2. keys'[k] = [keys[k] EXCEPT !.active = q.active]
        BY <2>3, <3>1, <3>2
      <4> QED
        BY <2>2, <3>2, <4>1, <4>2 DEF Key
    <3>3. CASE ~(k = q.id /\ keys[k] # NoRow)
      <4>1. keys'[k] = keys[k]
        BY <2>3, <3>1, <3>3
      <4> QED
        BY <3>1, <4>1
    <3> QED
      BY <3>2, <3>3
  <2>5. keys' \in [KeyIds -> Key \cup {NoRow}]
    <3>1. keys' = [k \in KeyIds |-> keys'[k]]
      BY <2>3 DEF Inv, KeysInv
    <3> QED
      BY <2>4, <3>1
  <2>6. KeysInv'
    BY <2>3, <2>4, <2>5, UpdateKeysFacts DEF Inv, KeysInv, OwnersExist
  <2> QED
    BY <2>1, <2>3, <2>6, KeyWrite
<1> QED
  BY <1>1, <1>2, <1>3, <1>4

LEMMA SettingsHandlers ==
    ASSUME Inv, NEW h \in Handlers,
           SettingsList(h) \/ SettingsFind(h) \/ SettingsRepair(h)
    PROVE  Inv' /\ AdminKept
<1>1. CASE SettingsList(h)
  <2>1. main = "serving" /\ hs[h].pc = "auth" /\ hs[h].q.op = "settings"
    BY <1>1, AtFacts DEF SettingsList
  <2>2. CASE Answer(h)
    BY <2>1, <2>2, AnswerOK DEF AdminKept
  <2>3. CASE /\ hs[h].me.name = cfg.admin /\ cfg.internal # NoValue
             /\ Keep(h, "listed", NoRow)
    <3>1. Inv'
      BY <2>1, <2>3, KeepOK
    <3> QED
      BY <2>3, <3>1 DEF Keep, AdminKept
  <2> QED
    BY <1>1, <2>2, <2>3 DEF SettingsList
<1>2. CASE SettingsFind(h)
  <2>1. main = "serving" /\ hs[h].pc = "listed" /\ hs[h].q.op = "settings"
    BY <1>2, AtFacts DEF SettingsFind
  <2>2. hs[h].me.name = cfg.admin /\ cfg.internal # NoValue
    BY <2>1 DEF Inv, HandlersInv, HandlerOK
  <2>3. PICK row \in Key \cup {NoRow} : Keep(h, "loaded", row)
    BY <1>2 DEF SettingsFind, KeyOf, Inv, KeysInv
  <2>4. Inv'
    BY <2>1, <2>2, <2>3, KeepOK
  <2> QED
    BY <2>3, <2>4 DEF Keep, AdminKept
<1>3. CASE SettingsRepair(h)
  <2> DEFINE row == hs[h].got
             new == [value |-> cfg.internal, owner |-> hs[h].id,
                     active |-> TRUE]
             moved == [row EXCEPT !.owner = hs[h].id]
  <2>1. /\ main = "serving" /\ hs[h].pc = "loaded" /\ hs[h].q.op = "settings"
        /\ hs[h].id \in UserIds
        /\ hs[h].me.name = cfg.admin => users[hs[h].id] # NoRow
    BY <1>3, AtFacts DEF SettingsRepair
  <2>2. /\ hs[h].me.name = cfg.admin /\ cfg.internal # NoValue
        /\ row \in Key \cup {NoRow}
    BY <2>1 DEF Inv, HandlersInv, HandlerOK
  <2>3. Respond(h) /\ UNCHANGED <<users, nextUser, bootVars>>
    BY <1>3 DEF SettingsRepair
  <2>4. CASE InsertKey(new)
    <3>1. new \in Key
      BY <2>1, <2>2, ConfigFacts DEF Key, Inv, MainInv
    <3>2. KeysInv'
      BY <2>3, <2>4, <3>1, InsertKeyFacts DEF Inv
    <3> QED
      BY <2>1, <2>3, <3>2, KeyWrite
  <2>5. CASE /\ row # NoRow /\ UNCHANGED nextKey
             /\ keys' = [k \in KeyIds |->
                           IF k \in KeyOf(row.value) /\ row.owner # hs[h].id
                           THEN moved ELSE keys[k]]
    <3>1. moved \in Key /\ moved.value = row.value /\ moved.owner = hs[h].id
      BY <2>1, <2>2, <2>5 DEF Key
    <3> HIDE DEF moved
    <3>2. ASSUME NEW k \in KeyIds
          PROVE  /\ keys'[k] \in Key \cup {NoRow}
                 /\ keys'[k] # NoRow =>
                       /\ keys[k] # NoRow /\ keys'[k].value = keys[k].value
                       /\ users[keys'[k].owner] # NoRow
      <4>1. CASE k \in KeyOf(row.value) /\ row.owner # hs[h].id
        BY <2>1, <2>2, <2>5, <3>1, <4>1 DEF KeyOf
      <4>2. CASE ~(k \in KeyOf(row.value) /\ row.owner # hs[h].id)
        BY <2>5, <4>2 DEF Inv, KeysInv, OwnersExist
      <4> QED
        BY <4>1, <4>2
    <3>3. keys' \in [KeyIds -> Key \cup {NoRow}]
      BY <2>5, <3>2
    <3>4. KeysInv'
      BY <2>3, <2>5, <3>2, <3>3, UpdateKeysFacts DEF Inv
    <3> QED
      BY <2>1, <2>3, <3>4, KeyWrite
  <2> QED
    BY <1>3, <2>4, <2>5 DEF SettingsRepair
<1> QED
  BY <1>1, <1>2, <1>3

\* A step keeps the invariant, and while main serves the administrator's row.
LEMMA InvStep ==
    ASSUME Inv, [Next]_vars
    PROVE  Inv' /\ (main = "serving" /\ main' = "serving" => AdminKept)
<1>1. ASSUME NEW h \in Handlers, NEW u \in UserIds, NEW q \in Query,
             AdminAuth(h, u, q)
      PROVE  Inv' /\ AdminKept
  BY <1>1, SessionStarts
<1>2. ASSUME NEW h \in Handlers, Serve(h)
      PROVE  Inv' /\ AdminKept
  BY <1>2, UserHandlers, KeyHandlers, SettingsHandlers DEF Serve
<1>5. ASSUME NEW h \in Handlers, StatementFails(h)
      PROVE  Inv' /\ AdminKept
  BY <1>5, FailureOK
<1>3. CASE Boot \/ EnsureBootstrapAdmin \/ EnsureBootstrapAPIKey
           \/ BootstrapFails \/ Crash
  <2>1. ~(main = "serving" /\ main' = "serving")
    BY <1>3 DEF Boot, Load, EnsureBootstrapAdmin, EnsureBootstrapAPIKey,
                BootstrapFails, Crash
  <2> QED
    BY <1>3, <2>1, MainStep
<1>4. CASE UNCHANGED vars
  <2>1. UsersInv' /\ KeysInv' /\ MainInv'
    BY <1>4, KeysStay
    DEF vars, Inv, UsersInv, MainInv, AdminExists, UserNamed
  <2>2. HandlersInv'
    BY <1>4 DEF vars, Inv, HandlersInv, HandlerOK
  <2> QED
    BY <1>4, <2>1, <2>2 DEF vars, Inv, AdminKept
<1> QED
  BY <1>1, <1>2, <1>3, <1>4, <1>5 DEF Next

LEMMA InvInit == Init => Inv
<1> SUFFICES ASSUME Init PROVE Inv
  OBVIOUS
<1>1. UsersInv
  BY BoundAssumption DEF Init, UsersInv, UserIds
<1>2. KeysInv
  BY BoundAssumption DEF Init, KeysInv, KeyIds, OwnersExist
<1>3. HandlersInv
  <2>1. hs \in [Handlers -> Handler]
    <3>1. Free \in Handler
      BY BoundAssumption DEF Free, Handler
    <3> QED
      BY <3>1 DEF Init
  <2>2. ASSUME NEW h \in Handlers PROVE HandlerOK(h)
    BY FreeOK DEF Init
  <2> QED
    BY <2>1, <2>2 DEF HandlersInv
<1>4. MainInv
  <2>1. 0 \in 0..MaxFaults
    BY BoundAssumption
  <2>2. main = "down" /\ cfg \in Configs /\ faults = 0
    BY DEF Init
  <2>3. keyEnsured \in BOOLEAN
    BY Zenon DEF Init
  <2> QED
    BY <2>1, <2>2, <2>3 DEF MainInv, AdminExists
<1> QED
  BY <1>1, <1>2, <1>3, <1>4 DEF Inv

LEMMA Invariant == Spec => []Inv
<1>1. Init => Inv
  BY InvInit
<1>2. Inv /\ [Next]_vars => Inv'
  BY InvStep
<1> QED
  BY <1>1, <1>2, PTL DEF Spec
-----------------------------------------------------------------------------
(***************************************************************************)
(* The theorems.                                                           *)
(***************************************************************************)
\* A set whose members are all equal has at most one.
LEMMA AtMostOne ==
    ASSUME NEW S, \A x, y \in S : x = y
    PROVE  Cardinality(S) <= 1
<1>1. CASE S = {}
  BY <1>1, FS_EmptySet
<1>2. CASE S # {}
  <2>1. PICK x \in S : TRUE
    BY <1>2
  <2>2. S = {x}
    BY <2>1
  <2> QED
    BY <2>2, FS_Singleton
<1> QED
  BY <1>1, <1>2

\* The tables hold rows of their kind, and no username and no key value twice,
\* though handlers insert without looking first (users.go:48, apikeys.go:53).
THEOREM TypeCorrect == Spec => []TypeOK
<1>1. Inv => TypeOK
  <2> SUFFICES ASSUME Inv PROVE TypeOK
    OBVIOUS
  <2>1. \A n \in Names : Cardinality(UserNamed(n)) <= 1
    BY AtMostOne DEF Inv, UsersInv, UserNamed
  <2>2. \A v \in Values : Cardinality(KeyOf(v)) <= 1
    BY AtMostOne DEF Inv, KeysInv, KeyOf
  <2> QED
    BY <2>1, <2>2 DEF Inv, UsersInv, KeysInv, HandlersInv, MainInv, TypeOK
<1> QED
  BY <1>1, Invariant, PTL

\* Once the bootstrap is past, the configured administrator exists, for any
\* number of handlers and any history of restarts (db.go:39-67).
THEOREM AdminAlwaysExists == Spec => []AdminExists
<1>1. Inv => AdminExists
  BY DEF Inv, MainInv
<1> QED
  BY <1>1, Invariant, PTL

\* No key is ever without its owner (apikey.go:36, users.go:143).
THEOREM OwnersAlwaysExist == Spec => []OwnersExist
<1>1. Inv => OwnersExist
  BY DEF Inv, KeysInv
<1> QED
  BY <1>1, Invariant, PTL

\* While the process serves, no step of any handler changes the configured
\* administrator's row (users.go:79, users.go:137, auth.go:98).
THEOREM AdminRowUntouched == Spec => AdminRowFixed
<1>1. Inv /\ [Next]_vars =>
         [main = "serving" /\ main' = "serving" =>
            \A u \in UserNamed(cfg.admin) : users'[u] = users[u]]_vars
  BY InvStep DEF AdminKept
<1> QED
  BY <1>1, Invariant, PTL DEF Spec, AdminRowFixed
-----------------------------------------------------------------------------
(***************************************************************************)
(* The internal key.                                                       *)
(***************************************************************************)
\* What a handler that is about to write a key relies on.  The key it deletes
\* is not the internal one.  The settings page, unless its lookup has failed,
\* has seen that there is none, or one of another user; with a bootstrap that
\* succeeded it was the administrator's own.
HolderOK(h) ==
    /\ hs[h].pc = "loaded" /\ hs[h].q.op = "deleteKey" =>
          /\ hs[h].q.id < nextKey
          /\ keys[hs[h].q.id] = NoRow \/ keys[hs[h].q.id].value # cfg.internal
    /\ hs[h].pc = "loaded" /\ hs[h].q.op = "settings" /\ hs[h].got = NoRow =>
          \/ ~hs[h].clean
          \/ ~keyEnsured /\ (KeyOf(cfg.internal) = {} \/ InternalKeyHeld)
    /\ hs[h].pc = "loaded" /\ hs[h].q.op = "settings" /\ hs[h].got # NoRow =>
          /\ hs[h].got.value = cfg.internal /\ KeyOf(cfg.internal) # {}
          /\ keyEnsured => hs[h].got.owner = hs[h].id
          /\ hs[h].got.owner = hs[h].id => InternalKeyHeld

HoldInv ==
    /\ \A h \in Handlers : HolderOK(h)
    /\ InternalKeyKept
    /\ main \in {"admin", "key"} => ~keyEnsured

\* What the steps of a serving process do to the keys, when user a is the
\* administrator: values stay, ids are not used again, the internal key is not
\* deleted, not taken from a, and created for a only.
KeysStep(a) ==
    /\ nextKey <= nextKey' /\ nextKey' \in Int
    /\ \A k \in KeyIds :
          /\ k < nextKey /\ keys'[k] # NoRow =>
                keys[k] # NoRow /\ keys'[k].value = keys[k].value
          /\ k \in KeyOf(cfg.internal) =>
                /\ keys'[k] # NoRow /\ keys'[k].value = cfg.internal
                /\ keys[k].owner = a => keys'[k].owner = a
          /\ k \notin KeyOf(cfg.internal)
                /\ keys'[k] # NoRow /\ keys'[k].value = cfg.internal =>
                keys'[k].owner = a

Serving == main = "serving" /\ UNCHANGED <<main, cfg, keyEnsured>>

LEMMA AdminIs ==
    ASSUME Inv, main = "serving"
    PROVE  \E a \in UserIds : UserNamed(cfg.admin) = {a}
<1>1. PICK a \in UserIds : users[a] # NoRow /\ users[a].name = cfg.admin
  BY DEF Inv, MainInv, AdminExists, UserNamed
<1>2. UserNamed(cfg.admin) = {a}
  BY <1>1 DEF Inv, UsersInv, UserNamed
<1> QED
  BY <1>2

\* The administrator's id stays, with its row.
LEMMA AdminStaysIs ==
    ASSUME Inv', Serving, AdminKept, NEW a \in UserIds,
           UserNamed(cfg.admin) = {a}
    PROVE  UserNamed(cfg.admin)' = {a}
<1>1. users'[a] # NoRow /\ users'[a].name = cfg.admin
  BY DEF AdminKept, UserNamed
<1>2. cfg' = cfg
  BY DEF Serving, bootVars
<1> QED
  BY <1>1, <1>2 DEF Inv, UsersInv, UserNamed

LEMMA HeldIff ==
    ASSUME NEW a, UserNamed(cfg.admin) = {a}
    PROVE  InternalKeyHeld <=> \E k \in KeyOf(cfg.internal) : keys[k].owner = a
  BY DEF InternalKeyHeld

\* A step of a serving process for its key writes and the handler that steps.
LEMMA HoldStep ==
    ASSUME Inv, Inv', HoldInv, Serving, AdminKept,
           NEW a \in UserIds, UserNamed(cfg.admin) = {a}, KeysStep(a),
           NEW h \in Handlers, \A g \in Handlers \ {h} : hs'[g] = hs[g],
           HolderOK(h)'
    PROVE  HoldInv'
<1>1. UserNamed(cfg.admin)' = {a} /\ cfg' = cfg /\ keyEnsured' = keyEnsured
      /\ main' = "serving"
  BY AdminStaysIs DEF Serving, bootVars
<1>2. KeyOf(cfg.internal) \subseteq KeyOf(cfg.internal)'
  BY <1>1 DEF KeysStep, KeyOf
<1>3. InternalKeyHeld => InternalKeyHeld'
  <2>1. InternalKeyHeld => \E k \in KeyOf(cfg.internal) : keys[k].owner = a
    BY HeldIff
  <2>2. (\E k \in KeyOf(cfg.internal)' : keys'[k].owner = a) => InternalKeyHeld'
    BY <1>1 DEF InternalKeyHeld
  <2> QED
    BY <1>2, <2>1, <2>2 DEF KeysStep, KeyOf
<1>4. KeyOf(cfg.internal) = {} =>
         KeyOf(cfg.internal)' = {} \/ InternalKeyHeld'
  BY <1>1 DEF KeysStep, KeyOf, InternalKeyHeld
<1>5. ASSUME NEW g \in Handlers \ {h} PROVE HolderOK(g)'
  <2>1. HolderOK(g) /\ hs'[g] = hs[g]
    BY DEF HoldInv
  <2>2. ASSUME hs[g].pc = "loaded", hs[g].q.op = "deleteKey"
        PROVE  /\ hs[g].q.id < nextKey'
               /\ keys'[hs[g].q.id] = NoRow
                     \/ keys'[hs[g].q.id].value # cfg.internal
    <3>1. hs[g].q \in Query
      BY <2>2 DEF Inv, HandlersInv, HandlerOK
    <3>2. hs[g].q.id \in KeyIds
      BY <2>2, <3>1, QueryFacts
    <3>3. hs[g].q.id < nextKey /\ nextKey \in Int
      BY <2>1, <2>2 DEF HolderOK, Inv, KeysInv
    <3> QED
      BY <2>1, <2>2, <3>2, <3>3 DEF HolderOK, KeysStep, KeyIds
  <2> QED
    BY <1>1, <1>2, <1>3, <1>4, <2>1, <2>2 DEF HolderOK
<1>6. InternalKeyKept'
  BY <1>1, <1>3 DEF HoldInv, InternalKeyKept, Serving
<1> QED
  BY <1>1, <1>5, <1>6 DEF HoldInv

LEMMA KeysUntouched ==
    ASSUME Inv, NEW a, UNCHANGED <<keys, nextKey>>
    PROVE  KeysStep(a)
  BY DEF KeysStep, Inv, KeysInv, KeyOf

\* A handler that answers relies on nothing any more.
LEMMA FreeHolds ==
    ASSUME NEW h \in Handlers, hs'[h] = Free
    PROVE  HolderOK(h)'
  BY DEF HolderOK, Free

LEMMA RespondFrees ==
    ASSUME Inv, NEW h \in Handlers, Respond(h)
    PROVE  hs'[h] = Free /\ \A g \in Handlers \ {h} : hs'[g] = hs[g]
  BY DEF Respond, Inv, HandlersInv

LEMMA KeepMoves ==
    ASSUME Inv, NEW h \in Handlers, NEW pc, NEW row, Keep(h, pc, row)
    PROVE  /\ hs'[h].pc = pc /\ hs'[h].got = row /\ hs'[h].q = hs[h].q
           /\ hs'[h].id = hs[h].id
           /\ \A g \in Handlers \ {h} : hs'[g] = hs[g]
           /\ UNCHANGED <<users, keys, nextUser, nextKey, bootVars>>
<1>1. hs \in [Handlers -> Handler] /\ hs[h] \in Handler
  BY DEF Inv, HandlersInv
<1>2. hs'[h] = [hs[h] EXCEPT !.pc = pc, !.got = row]
  BY <1>1 DEF Keep
<1> QED
  BY <1>1, <1>2 DEF Keep, Handler

\* A row is inserted under an id of its own.
LEMMA InsertKeyStep ==
    ASSUME Inv, NEW row \in Key, InsertKey(row), NEW a,
           row.value = cfg.internal => row.owner = a
    PROVE  /\ KeysStep(a)
           /\ \A k \in KeyIds : keys[k] # NoRow => keys'[k] = keys[k]
           /\ KeyOf(row.value) = {} /\ users[row.owner] # NoRow
              /\ nextKey <= MaxKeys =>
                 \E k \in KeyIds : keys'[k] = row
<1>1. /\ nextKey \in Int /\ nextKey >= 1 /\ MaxKeys \in Nat
      /\ keys \in [KeyIds -> Key \cup {NoRow}]
      /\ \A k \in KeyIds : k \in Int /\ (nextKey <= k => keys[k] = NoRow)
  BY BoundAssumption DEF Inv, KeysInv, KeyIds
<1>2. CASE UNCHANGED <<keys, nextKey>>
  <2>1. ~(KeyOf(row.value) = {} /\ users[row.owner] # NoRow
          /\ nextKey <= MaxKeys)
    BY <1>1, <1>2 DEF InsertKey
  <2> QED
    BY <1>2, <2>1, KeysUntouched
<1>3. CASE /\ keys' = [keys EXCEPT ![nextKey] = row]
           /\ nextKey' = nextKey + 1 /\ nextKey <= MaxKeys
  <2>1. /\ nextKey \in KeyIds /\ keys'[nextKey] = row /\ row # NoRow
        /\ \A k \in KeyIds \ {nextKey} : keys'[k] = keys[k]
    BY <1>1, <1>3, RowAssumption DEF KeyIds
  <2>2. ASSUME NEW k \in KeyIds
        PROVE  /\ k < nextKey /\ keys'[k] # NoRow =>
                     keys[k] # NoRow /\ keys'[k].value = keys[k].value
               /\ k \in KeyOf(cfg.internal) =>
                     /\ keys'[k] # NoRow /\ keys'[k].value = cfg.internal
                     /\ keys[k].owner = a => keys'[k].owner = a
               /\ k \notin KeyOf(cfg.internal)
                     /\ keys'[k] # NoRow /\ keys'[k].value = cfg.internal =>
                     keys'[k].owner = a
    <3>1. CASE k = nextKey
      BY <1>1, <2>1, <3>1 DEF KeyOf
    <3>2. CASE k # nextKey
      BY <2>1, <3>2 DEF KeyOf
    <3> QED
      BY <3>1, <3>2
  <2>3. nextKey <= nextKey' /\ nextKey' \in Int
    BY <1>1, <1>3
  <2>4. \A k \in KeyIds : keys[k] # NoRow => keys'[k] = keys[k]
    BY <1>1, <2>1
  <2> QED
    BY <2>1, <2>2, <2>3, <2>4 DEF KeysStep
<1> QED
  BY <1>2, <1>3 DEF InsertKey

\* The handlers of users write no key.
LEMMA HoldUsers ==
    ASSUME Inv, Inv', HoldInv, AdminKept, NEW h \in Handlers,
           \/ CreateUser(h) \/ LoadUser(h) \/ ResetPassword(h) \/ DeleteUser(h)
           \/ ChangePasswordSelf(h)
    PROVE  HoldInv'
<1>1. PICK a \in UserIds : UserNamed(cfg.admin) = {a}
  BY AdminIs
  DEF CreateUser, LoadUser, ResetPassword, DeleteUser, ChangePasswordSelf, At
<1>2. Serving /\ UNCHANGED <<keys, nextKey>>
  BY DEF CreateUser, LoadUser, ResetPassword, DeleteUser, ChangePasswordSelf,
         At, Serving, Answer, Keep, bootVars
<1>3. CASE Respond(h)
  BY <1>1, <1>2, <1>3, RespondFrees, FreeHolds, KeysUntouched, HoldStep
<1>4. CASE LoadUser(h) /\ Keep(h, "loaded", users[hs[h].q.id])
  <2>1. /\ hs'[h].q = hs[h].q /\ hs[h].q.op \in {"resetPassword", "deleteUser"}
        /\ \A g \in Handlers \ {h} : hs'[g] = hs[g]
    BY <1>4, KeepMoves DEF LoadUser, At
  <2>2. HolderOK(h)'
    BY <2>1 DEF HolderOK
  <2> QED
    BY <1>1, <1>2, <2>1, <2>2, KeysUntouched, HoldStep
<1> QED
  BY <1>3, <1>4
  DEF CreateUser, LoadUser, ResetPassword, DeleteUser, ChangePasswordSelf,
      Answer

LEMMA HoldSession ==
    ASSUME Inv, Inv', HoldInv, AdminKept,
           NEW h \in Handlers, NEW u \in UserIds, NEW q \in Query,
           AdminAuth(h, u, q)
    PROVE  HoldInv'
<1>1. PICK a \in UserIds : UserNamed(cfg.admin) = {a}
  BY AdminIs DEF AdminAuth
<1>2. Serving /\ UNCHANGED <<keys, nextKey>>
  BY DEF AdminAuth, Serving, bootVars
<1>3. hs'[h].pc = "auth" /\ \A g \in Handlers \ {h} : hs'[g] = hs[g]
  BY DEF AdminAuth, Inv, HandlersInv
<1>4. HolderOK(h)'
  BY <1>3 DEF HolderOK
<1> QED
  BY <1>1, <1>2, <1>3, <1>4, KeysUntouched, HoldStep

\* The active flag of k is changed by the request to change it only.
Toggled(k) ==
    keys[k] # NoRow /\ keys'[k] # NoRow /\ keys'[k].active # keys[k].active

LEMMA HoldKeys ==
    ASSUME Inv, Inv', HoldInv, AdminKept, NEW h \in Handlers,
           \/ \E v \in Values : CreateAPIKey(h, v)
           \/ LoadKey(h) \/ DeleteAPIKey(h) \/ SetActiveAPIKey(h)
    PROVE  /\ HoldInv'
           /\ \A k \in KeyIds : Toggled(k) =>
                 At(h, {"setActive"}, "loaded") /\ hs[h].q.id = k
<1>1. PICK a \in UserIds : UserNamed(cfg.admin) = {a}
  BY AdminIs DEF CreateAPIKey, LoadKey, DeleteAPIKey, SetActiveAPIKey, At
<1>2. Serving
  BY DEF CreateAPIKey, LoadKey, DeleteAPIKey, SetActiveAPIKey, At, Serving,
         bootVars, Answer, Keep
<1>3. hs[h].q \in Query
  BY AtFacts DEF CreateAPIKey, LoadKey, DeleteAPIKey, SetActiveAPIKey
<1>4. keys \in [KeyIds -> Key \cup {NoRow}] /\ nextKey \in Int
  BY DEF Inv, KeysInv
<1>5. ASSUME NEW v \in Values, CreateAPIKey(h, v)
      PROVE  HoldInv' /\ \A k \in KeyIds : ~Toggled(k)
  <2> DEFINE row == [value |-> v, owner |-> hs[h].id, active |-> TRUE]
  <2>1. row \in Key /\ row.value # cfg.internal /\ InsertKey(row) /\ Respond(h)
    BY <1>5, AtFacts DEF CreateAPIKey, Key
  <2> HIDE DEF row
  <2>2. KeysStep(a) /\ \A k \in KeyIds : keys[k] # NoRow => keys'[k] = keys[k]
    BY <2>1, InsertKeyStep
  <2> QED
    BY <1>1, <1>2, <2>1, <2>2, RespondFrees, FreeHolds, HoldStep DEF Toggled
<1>6. CASE LoadKey(h)
  <2>1. UNCHANGED <<keys, nextKey>>
    BY <1>6 DEF LoadKey, Answer, Keep
  <2>2. CASE Answer(h)
    BY <1>1, <1>2, <2>1, <2>2, RespondFrees, FreeHolds, KeysUntouched, HoldStep
    DEF Answer, Toggled
  <2>3. CASE ~Answer(h)
    <3> DEFINE q == hs[h].q
    <3>1. /\ Keep(h, "loaded", keys[q.id]) /\ q.op \in {"deleteKey", "setActive"}
          /\ keys[q.id] # NoRow
          /\ q.op = "deleteKey" => keys[q.id].value # cfg.internal
      BY <1>6, <2>3 DEF LoadKey, At
    <3>2. q.id \in KeyIds
      BY <1>3, <3>1, QueryFacts
    <3>3. q.id < nextKey
      BY <1>4, <3>1, <3>2 DEF Inv, KeysInv, KeyIds
    <3>4. hs'[h].q = q /\ \A g \in Handlers \ {h} : hs'[g] = hs[g]
      BY <3>1, KeepMoves
    <3>5. cfg' = cfg
      BY <1>2 DEF Serving, bootVars
    <3> HIDE DEF q
    <3>6. HolderOK(h)'
      BY <2>1, <3>1, <3>3, <3>4, <3>5 DEF HolderOK
    <3> QED
      BY <1>1, <1>2, <2>1, <3>4, <3>6, KeysUntouched, HoldStep DEF Toggled
  <2> QED
    BY <2>2, <2>3
<1>7. ASSUME DeleteAPIKey(h)
      PROVE  HoldInv' /\ \A k \in KeyIds : ~Toggled(k)
  <2> DEFINE d == hs[h].q.id
  <2>1. /\ hs[h].pc = "loaded" /\ hs[h].q.op = "deleteKey"
        /\ keys' = [keys EXCEPT ![d] = NoRow] /\ nextKey' = nextKey
        /\ Respond(h)
    BY <1>7 DEF DeleteAPIKey, At
  <2>2. keys[d] = NoRow \/ keys[d].value # cfg.internal
    BY <2>1 DEF HoldInv, HolderOK
  <2> HIDE DEF d
  <2>3. \A k \in KeyIds : keys'[k] = IF k = d THEN NoRow ELSE keys[k]
    BY <1>4, <2>1
  <2>4. KeysStep(a)
    BY <1>4, <2>1, <2>2, <2>3 DEF KeysStep, KeyOf
  <2> QED
    BY <1>1, <1>2, <2>1, <2>3, <2>4, RespondFrees, FreeHolds, HoldStep
    DEF Toggled
<1>8. CASE SetActiveAPIKey(h)
  <2> DEFINE q == hs[h].q
             changed == [keys[q.id] EXCEPT !.active = q.active]
  <2>1. /\ q.op = "setActive" /\ nextKey' = nextKey /\ Respond(h)
        /\ keys' = [keys EXCEPT ![q.id] =
                       IF @ = NoRow THEN NoRow ELSE [@ EXCEPT !.active = q.active]]
        /\ At(h, {"setActive"}, "loaded")
    BY <1>8 DEF SetActiveAPIKey, At
  <2>2. q.id \in KeyIds
    BY <1>3, <2>1, QueryFacts
  <2>3. keys[q.id] # NoRow =>
           changed.value = keys[q.id].value /\ changed.owner = keys[q.id].owner
    BY <1>4, <2>2 DEF Key
  <2>4. \A k \in KeyIds : k # q.id \/ keys[k] = NoRow => keys'[k] = keys[k]
    BY <1>4, <2>1
  <2>5. keys[q.id] # NoRow => keys'[q.id] = changed
    BY <1>4, <2>1, <2>2
  <2> HIDE DEF q, changed
  <2>6. \A k \in KeyIds :
           \/ keys'[k] = keys[k]
           \/ /\ k = q.id /\ keys[k] # NoRow
              /\ keys'[k].value = keys[k].value
              /\ keys'[k].owner = keys[k].owner
    BY <2>3, <2>4, <2>5
  <2>7. \A k \in KeyIds : keys[k] # NoRow => keys'[k] # NoRow
    <3>1. changed \in Key \/ keys[q.id] = NoRow
      <4>1. q.active \in BOOLEAN
        BY <1>3, <2>1, QueryFacts DEF q
      <4> QED
        BY <1>4, <2>2, <4>1 DEF Key, changed
    <3> QED
      BY <2>4, <2>5, <3>1, RowAssumption
  <2>8. KeysStep(a)
    BY <1>4, <2>1, <2>6, <2>7 DEF KeysStep, KeyOf
  <2>9. HoldInv'
    BY <1>1, <1>2, <2>1, <2>8, RespondFrees, FreeHolds, HoldStep
  <2> QED
    BY <2>1, <2>4, <2>9 DEF Toggled, q
<1> QED
  BY <1>5, <1>6, <1>7, <1>8

\* The settings page works for the administrator.
LEMMA SettingsFacts ==
    ASSUME Inv, NEW h \in Handlers, main = "serving",
           hs[h].pc \in {"listed", "loaded"}, hs[h].q.op = "settings",
           NEW a \in UserIds, UserNamed(cfg.admin) = {a}
    PROVE  hs[h].id = a /\ cfg.internal \in Values /\ cfg.internal # NoValue
<1>1. HandlerOK(h)
  BY DEF Inv, HandlersInv
<1>2. /\ hs[h].me.name = cfg.admin /\ cfg.internal # NoValue
      /\ hs[h].id \in UserIds /\ users[hs[h].id] # NoRow
      /\ users[hs[h].id].name = cfg.admin
  BY <1>1 DEF HandlerOK
<1>3. cfg.internal \in Values
  BY <1>2, ConfigFacts DEF Inv, MainInv
<1> QED
  BY <1>2, <1>3 DEF UserNamed

LEMMA HoldRead ==
    ASSUME Inv, Inv', HoldInv, AdminKept, NEW h \in Handlers,
           SettingsList(h) \/ SettingsFind(h)
    PROVE  HoldInv' /\ UNCHANGED keys
<1>1. PICK a \in UserIds : UserNamed(cfg.admin) = {a}
  BY AdminIs DEF SettingsList, SettingsFind, At
<1>2. Serving /\ UNCHANGED <<keys, nextKey>>
  BY DEF SettingsList, SettingsFind, At, Serving, Answer, Keep, bootVars
<1>3. CASE Answer(h)
  BY <1>1, <1>2, <1>3, RespondFrees, FreeHolds, KeysUntouched, HoldStep
  DEF Answer
<1>4. CASE Keep(h, "listed", NoRow)
  <2>1. hs'[h].pc = "listed" /\ \A g \in Handlers \ {h} : hs'[g] = hs[g]
    BY <1>4, KeepMoves
  <2>2. HolderOK(h)'
    BY <2>1 DEF HolderOK
  <2> QED
    BY <1>1, <1>2, <2>1, <2>2, KeysUntouched, HoldStep
<1>5. CASE SettingsFind(h)
  <2>1. /\ main = "serving" /\ hs[h].pc = "listed" /\ hs[h].q.op = "settings"
        /\ hs[h].id = a /\ cfg.internal # NoValue
    BY <1>1, <1>5, SettingsFacts DEF SettingsFind, At
  <2>2. /\ cfg' = cfg /\ keyEnsured' = keyEnsured /\ users' = users
        /\ keys' = keys
    BY <1>2, <1>5 DEF Serving, bootVars, SettingsFind, Keep
  <2>3. KeyOf(cfg.internal)' = KeyOf(cfg.internal)
        /\ (InternalKeyHeld' <=> InternalKeyHeld)
    BY <2>2 DEF KeyOf, InternalKeyHeld, UserNamed
  <2>4. keyEnsured => InternalKeyHeld
    BY <2>1 DEF HoldInv, InternalKeyKept
  <2>5. CASE KeyOf(cfg.internal) = {} /\ Keep(h, "loaded", NoRow)
    <3>1. /\ hs'[h].got = NoRow /\ hs'[h].q.op = "settings"
          /\ \A g \in Handlers \ {h} : hs'[g] = hs[g]
      BY <2>1, <2>5, KeepMoves
    <3>2. ~keyEnsured
      BY <2>4, <2>5 DEF InternalKeyHeld
    <3>3. HolderOK(h)'
      BY <2>2, <2>3, <2>5, <3>1, <3>2 DEF HolderOK
    <3> QED
      BY <1>1, <1>2, <3>1, <3>3, KeysUntouched, HoldStep
  <2>6. ASSUME NEW k \in KeyOf(cfg.internal), Keep(h, "loaded", keys[k])
        PROVE  HoldInv'
    <3>1. /\ hs'[h].got = keys[k] /\ hs'[h].q.op = "settings"
          /\ hs'[h].id = a
          /\ \A g \in Handlers \ {h} : hs'[g] = hs[g]
      BY <2>1, <2>6, KeepMoves
    <3>2. keys[k] # NoRow /\ keys[k].value = cfg.internal
      BY DEF KeyOf
    <3>3. InternalKeyHeld => keys[k].owner = a
      <4>1. \A l \in KeyOf(cfg.internal) : l = k
        BY DEF KeyOf, Inv, KeysInv
      <4> QED
        BY <1>1, <4>1 DEF InternalKeyHeld
    <3>4. keys[k].owner = a => InternalKeyHeld
      BY <1>1 DEF InternalKeyHeld
    <3>5. HolderOK(h)'
      BY <2>2, <2>3, <2>4, <3>1, <3>2, <3>3, <3>4 DEF HolderOK
    <3> QED
      BY <1>1, <1>2, <3>1, <3>5, KeysUntouched, HoldStep
  <2> QED
    BY <1>5, <2>2, <2>5, <2>6 DEF SettingsFind
<1> QED
  BY <1>2, <1>3, <1>4, <1>5 DEF SettingsList

\* The repair leaves the administrator the owner of the internal key, which is
\* all it does; with a bootstrap that succeeded there is nothing to repair.
LEMMA HoldRepair ==
    ASSUME Inv, Inv', HoldInv, AdminKept, NEW h \in Handlers, SettingsRepair(h)
    PROVE  /\ HoldInv'
           /\ nextKey <= MaxKeys /\ hs[h].clean => InternalKeyHeld'
           /\ InternalKeyHeld => InternalKeyHeld'
           /\ keyEnsured => UNCHANGED keys
<1> DEFINE row == hs[h].got
<1>1. PICK a \in UserIds : UserNamed(cfg.admin) = {a}
  BY AdminIs DEF SettingsRepair, At
<1>2. /\ Serving /\ Respond(h) /\ users' = users
      /\ hs[h].pc = "loaded" /\ hs[h].q.op = "settings"
  BY DEF SettingsRepair, At, Serving, bootVars
<1>3. hs[h].id = a /\ cfg.internal \in Values /\ cfg' = cfg /\ users[a] # NoRow
  BY <1>1, <1>2, SettingsFacts DEF Serving, bootVars, UserNamed
<1>4. HolderOK(h) /\ row \in Key \cup {NoRow}
      /\ keys \in [KeyIds -> Key \cup {NoRow}] /\ nextKey \in Int
  BY <1>2 DEF HoldInv, Inv, HandlersInv, HandlerOK, KeysInv
<1>5. UserNamed(cfg.admin)' = {a}
  BY <1>1, <1>2, AdminStaysIs
<1>6. ASSUME KeysStep(a) PROVE HoldInv'
  BY <1>1, <1>2, <1>6, RespondFrees, FreeHolds, HoldStep
<1>7. ASSUME InternalKeyHeld, KeysStep(a) PROVE InternalKeyHeld'
  <2>1. PICK k \in KeyOf(cfg.internal) : keys[k].owner = a
    BY <1>1, <1>7 DEF InternalKeyHeld
  <2>2. k \in KeyOf(cfg.internal)' /\ keys'[k].owner = a
    BY <1>3, <1>7, <2>1 DEF KeysStep, KeyOf
  <2> QED
    BY <1>5, <2>2 DEF InternalKeyHeld
<1>8. CASE row = NoRow
  <2> DEFINE new == [value |-> cfg.internal, owner |-> a, active |-> TRUE]
  <2>1. InsertKey(new) /\ new \in Key /\ new.value = cfg.internal /\ new.owner = a
    BY <1>3, <1>8 DEF SettingsRepair, Key
  <2>2. /\ hs[h].clean => KeyOf(cfg.internal) = {} \/ InternalKeyHeld
        /\ keyEnsured => InternalKeyHeld
    BY <1>2, <1>3, <1>4, <1>8, NameAssumption
    DEF HolderOK, HoldInv, InternalKeyKept, Serving
  <2> HIDE DEF new
  <2>3. /\ KeysStep(a)
        /\ KeyOf(cfg.internal) = {} /\ nextKey <= MaxKeys =>
              \E k \in KeyIds : keys'[k] = new
    BY <1>3, <2>1, InsertKeyStep
  <2>4. ASSUME NEW k \in KeyIds, keys'[k] = new PROVE InternalKeyHeld'
    <3>1. new # NoRow
      BY <2>1, RowAssumption
    <3>2. k \in KeyOf(cfg.internal)' /\ keys'[k].owner = a
      BY <1>3, <2>1, <2>4, <3>1 DEF KeyOf
    <3> QED
      BY <1>5, <3>2 DEF InternalKeyHeld
  <2>5. keyEnsured => UNCHANGED keys
    BY <2>1, <2>2 DEF InternalKeyHeld, InsertKey
  <2> QED
    BY <1>6, <1>7, <2>2, <2>3, <2>4, <2>5
<1>9. CASE row # NoRow
  <2> DEFINE moved == [row EXCEPT !.owner = a]
  <2>1. /\ row.value = cfg.internal /\ KeyOf(cfg.internal) # {}
        /\ keyEnsured => row.owner = a
        /\ row.owner = a => InternalKeyHeld
    BY <1>2, <1>3, <1>4, <1>9 DEF HolderOK
  <2>2. /\ keys' = [k \in KeyIds |->
                      IF k \in KeyOf(row.value) /\ row.owner # a
                      THEN moved ELSE keys[k]]
        /\ nextKey' = nextKey
    BY <1>3, <1>9 DEF SettingsRepair
  <2>3. moved \in Key /\ moved.value = cfg.internal /\ moved.owner = a
        /\ moved # NoRow
    <3>1. moved \in Key /\ moved.value = cfg.internal /\ moved.owner = a
      BY <1>4, <1>9, <2>1 DEF Key
    <3> QED
      BY <3>1, RowAssumption
  <2> HIDE DEF moved
  <2>4. \A k \in KeyIds : keys'[k] = IF k \in KeyOf(cfg.internal) /\ row.owner # a
                                     THEN moved ELSE keys[k]
    BY <2>1, <2>2
  <2>5. KeysStep(a)
    BY <1>4, <2>2, <2>3, <2>4 DEF KeysStep, KeyOf
  <2>6. CASE row.owner = a
    <3>1. keys' = keys
      BY <1>4, <2>2, <2>6
    <3> QED
      BY <1>6, <1>7, <2>1, <2>5, <2>6, <3>1
  <2>7. CASE row.owner # a
    <3>1. PICK k \in KeyOf(cfg.internal) : TRUE
      BY <2>1
    <3>2. k \in KeyOf(cfg.internal)' /\ keys'[k].owner = a
      BY <1>3, <2>3, <2>4, <2>7, <3>1 DEF KeyOf
    <3>3. InternalKeyHeld'
      BY <1>5, <3>2 DEF InternalKeyHeld
    <3> QED
      BY <1>6, <2>1, <2>5, <2>7, <3>3
  <2> QED
    BY <2>6, <2>7
<1> QED
  BY <1>8, <1>9

\* A statement that fails leaves the key alone; the settings page that takes
\* the error for a missing key relies on nothing.
LEMMA HoldFailure ==
    ASSUME Inv, Inv', HoldInv, AdminKept, NEW h \in Handlers, StatementFails(h)
    PROVE  HoldInv' /\ UNCHANGED keys /\ (InternalKeyHeld => InternalKeyHeld')
<1>1. PICK a \in UserIds : UserNamed(cfg.admin) = {a}
  BY AdminIs DEF StatementFails
<1>2. Serving /\ UNCHANGED <<keys, nextKey, users>>
  BY DEF StatementFails, Serving
<1>3. InternalKeyHeld => InternalKeyHeld'
  BY <1>2 DEF InternalKeyHeld, KeyOf, UserNamed, Serving
<1>4. CASE Respond(h)
  BY <1>1, <1>2, <1>3, <1>4, RespondFrees, FreeHolds, KeysUntouched, HoldStep
<1>5. CASE /\ hs[h].pc = "listed"
           /\ hs' = [hs EXCEPT ![h].pc = "loaded", ![h].got = NoRow,
                               ![h].clean = FALSE]
  <2>1. hs \in [Handlers -> Handler] /\ hs[h] \in Handler /\ HandlerOK(h)
    BY DEF Inv, HandlersInv
  <2>2. /\ hs'[h] = [hs[h] EXCEPT !.pc = "loaded", !.got = NoRow, !.clean = FALSE]
        /\ \A g \in Handlers \ {h} : hs'[g] = hs[g]
    BY <1>5, <2>1
  <2>3. hs'[h].got = NoRow /\ hs'[h].clean = FALSE /\ hs'[h].q = hs[h].q
    BY <2>1, <2>2 DEF Handler
  <2>4. hs[h].q.op = "settings"
    BY <1>5, <2>1 DEF HandlerOK
  <2>5. HolderOK(h)'
    BY <2>3, <2>4 DEF HolderOK
  <2> QED
    BY <1>1, <1>2, <1>3, <2>2, <2>5, KeysUntouched, HoldStep
<1> QED
  BY <1>4, <1>5 DEF StatementFails

\* The bootstrap that succeeds leaves the key with the administrator, found,
\* taken over or created.
LEMMA EnsureHolds ==
    ASSUME Inv, Inv', EnsureBootstrapAPIKey
    PROVE  InternalKeyKept'
<1> DEFINE a == CHOOSE u \in UserNamed(cfg.admin) : TRUE
           found == KeyOf(cfg.internal)
           new == [value |-> cfg.internal, owner |-> a, active |-> TRUE]
<1>1. /\ main = "key" /\ main' = "serving" /\ cfg' = cfg /\ users' = users
  BY DEF EnsureBootstrapAPIKey
<1>2. a \in UserNamed(cfg.admin)
  BY <1>1 DEF Inv, MainInv, AdminExists
<1>3. /\ \/ cfg.internal = NoValue
         \/ /\ cfg.internal # NoValue /\ found # {}
            /\ keys' = [k \in KeyIds |->
                          IF k \in found /\ keys[k].owner # a
                          THEN [keys[k] EXCEPT !.owner = a, !.active = TRUE]
                          ELSE keys[k]]
         \/ /\ cfg.internal # NoValue /\ found = {} /\ nextKey <= MaxKeys
            /\ InsertKey(new)
  BY DEF EnsureBootstrapAPIKey
<1> HIDE DEF a
<1>4. a \in UserIds /\ users[a] # NoRow /\ UserNamed(cfg.admin)' = {a}
  BY <1>1, <1>2 DEF UserNamed, Inv, UsersInv
<1>5. keys \in [KeyIds -> Key \cup {NoRow}] /\ keys' \in [KeyIds -> Key \cup {NoRow}]
  BY DEF Inv, KeysInv
<1>6. ASSUME NEW k \in KeyIds, keys'[k] # NoRow,
             keys'[k].value = cfg.internal, keys'[k].owner = a
      PROVE  InternalKeyKept'
  <2>1. k \in KeyOf(cfg.internal)'
    BY <1>1, <1>6 DEF KeyOf
  <2> QED
    BY <1>4, <1>6, <2>1 DEF InternalKeyKept, InternalKeyHeld
<1>7. CASE cfg.internal = NoValue
  BY <1>1, <1>7 DEF InternalKeyKept
<1>8. CASE /\ found # {}
           /\ keys' = [k \in KeyIds |->
                         IF k \in found /\ keys[k].owner # a
                         THEN [keys[k] EXCEPT !.owner = a, !.active = TRUE]
                         ELSE keys[k]]
  <2>1. PICK k \in KeyIds : /\ k \in found /\ keys[k] # NoRow
                            /\ keys[k].value = cfg.internal
    BY <1>8 DEF KeyOf
  <2>2. keys[k] \in Key
    BY <1>5, <2>1
  <2>3. CASE keys[k].owner = a
    <3>1. keys'[k] = keys[k]
      BY <1>8, <2>3
    <3> QED
      BY <1>6, <2>1, <2>3, <3>1
  <2>4. CASE keys[k].owner # a
    <3> DEFINE moved == [keys[k] EXCEPT !.owner = a, !.active = TRUE]
    <3>1. keys'[k] = moved
      BY <1>8, <2>1, <2>4
    <3>2. moved \in Key /\ moved.value = cfg.internal /\ moved.owner = a
      BY <1>4, <2>1, <2>2 DEF Key
    <3> HIDE DEF moved
    <3> QED
      BY <1>6, <3>1, <3>2, RowAssumption
  <2> QED
    BY <2>3, <2>4
<1>9. CASE cfg.internal # NoValue /\ found = {} /\ nextKey <= MaxKeys
           /\ InsertKey(new)
  <2>1. new \in Key /\ new.value = cfg.internal /\ new.owner = a
    BY <1>4, <1>9, ConfigFacts DEF Key, Inv, MainInv
  <2>2. new # NoRow
    BY <2>1, RowAssumption
  <2> HIDE DEF new
  <2>3. PICK k \in KeyIds : keys'[k] = new
    BY <1>4, <1>9, <2>1, InsertKeyStep
  <2> QED
    BY <1>6, <2>1, <2>2, <2>3
<1> QED
  BY <1>3, <1>7, <1>8, <1>9

LEMMA HoldMain ==
    ASSUME Inv, Inv', HoldInv,
           Boot \/ EnsureBootstrapAdmin \/ EnsureBootstrapAPIKey
                \/ BootstrapFails \/ Crash
    PROVE  HoldInv'
<1>1. \A h \in Handlers : hs'[h].pc = "idle"
  <2>1. CASE Crash
    BY <2>1 DEF Crash, Free
  <2>2. CASE main # "serving" /\ UNCHANGED hs
    BY <2>2 DEF Inv, HandlersInv, HandlerOK
  <2> QED
    BY <2>1, <2>2
    DEF Boot, Load, EnsureBootstrapAdmin, EnsureBootstrapAPIKey, BootstrapFails
<1>2. \A h \in Handlers : HolderOK(h)'
  BY <1>1 DEF HolderOK
<1>3. CASE EnsureBootstrapAPIKey
  <2>1. main' = "serving" /\ InternalKeyKept'
    BY <1>3, EnsureHolds DEF EnsureBootstrapAPIKey
  <2> QED
    BY <1>2, <2>1 DEF HoldInv
<1>4. CASE Boot \/ EnsureBootstrapAdmin
  BY <1>2, <1>4 DEF Boot, Load, EnsureBootstrapAdmin, HoldInv, InternalKeyKept
<1>5. CASE BootstrapFails
  BY <1>2, <1>5 DEF BootstrapFails, HoldInv, InternalKeyKept
<1>6. CASE Crash
  BY <1>2, <1>6 DEF Crash, HoldInv, InternalKeyKept
<1> QED
  BY <1>3, <1>4, <1>5, <1>6

\* A step keeps the holders' invariant; the settings page repairs; and after a
\* bootstrap that succeeded no step but SetActiveAPIKey's changes a flag.
Repaired ==
    \A h \in Handlers :
       /\ At(h, {"settings"}, "loaded") /\ nextKey <= MaxKeys
       /\ main' = "serving" /\ hs'[h].pc = "idle"
       /\ (hs[h].clean /\ faults' = faults) \/ InternalKeyHeld
       => InternalKeyHeld'

ToggleAsked ==
    \A k \in KeyIds :
       main = "serving" /\ keyEnsured /\ Toggled(k) =>
          \E h \in Handlers : At(h, {"setActive"}, "loaded") /\ hs[h].q.id = k

LEMMA HoldNext ==
    ASSUME Inv, Inv', HoldInv, [Next]_vars,
           main = "serving" /\ main' = "serving" => AdminKept
    PROVE  HoldInv' /\ Repaired /\ ToggleAsked
<1>1. ASSUME NEW h \in Handlers, NEW u \in UserIds, NEW q \in Query,
             AdminAuth(h, u, q)
      PROVE  HoldInv' /\ Repaired /\ ToggleAsked
  <2>1. /\ main = "serving" /\ main' = "serving" /\ hs[h].pc = "idle"
        /\ UNCHANGED keys /\ \A g \in Handlers \ {h} : hs'[g] = hs[g]
    BY <1>1 DEF AdminAuth, bootVars, Inv, HandlersInv
  <2>2. HoldInv'
    BY <1>1, <2>1, HoldSession
  <2> QED
    BY <2>1, <2>2 DEF Repaired, At, ToggleAsked, Toggled
<1>2. ASSUME NEW h \in Handlers, Serve(h)
      PROVE  HoldInv' /\ Repaired /\ ToggleAsked
  <2>1. AdminKept /\ \A g \in Handlers \ {h} : hs'[g] = hs[g]
    <3>1. main = "serving" /\ main' = "serving"
      BY <1>2
      DEF Serve, CreateUser, LoadUser, ResetPassword, DeleteUser,
          ChangePasswordSelf, CreateAPIKey, LoadKey, DeleteAPIKey,
          SetActiveAPIKey, SettingsList, SettingsFind, SettingsRepair, At,
          Answer, Keep, bootVars
    <3>2. hs \in [Handlers -> Handler]
      BY DEF Inv, HandlersInv
    <3>3. \A g \in Handlers \ {h} : hs'[g] = hs[g]
      BY <1>2, <3>2
      DEF Serve, CreateUser, LoadUser, ResetPassword, DeleteUser,
          ChangePasswordSelf, CreateAPIKey, LoadKey, DeleteAPIKey,
          SetActiveAPIKey, SettingsList, SettingsFind, SettingsRepair,
          Answer, Keep, Respond
    <3> QED
      BY <3>1, <3>3
  <2>2. CASE \/ CreateUser(h) \/ LoadUser(h) \/ ResetPassword(h)
             \/ DeleteUser(h) \/ ChangePasswordSelf(h)
    <3>1. HoldInv' /\ UNCHANGED keys
      BY <2>1, <2>2, HoldUsers
      DEF CreateUser, LoadUser, ResetPassword, DeleteUser, ChangePasswordSelf,
          Answer, Keep
    <3>2. Repaired
      BY <2>1, <2>2
      DEF CreateUser, LoadUser, ResetPassword, DeleteUser, ChangePasswordSelf,
          At, Repaired
    <3> QED
      BY <3>1, <3>2 DEF ToggleAsked, Toggled
  <2>3. CASE \/ \E v \in Values : CreateAPIKey(h, v)
             \/ LoadKey(h) \/ DeleteAPIKey(h) \/ SetActiveAPIKey(h)
    <3>1. HoldInv' /\ ToggleAsked
      BY <2>1, <2>3, HoldKeys DEF ToggleAsked
    <3>2. Repaired
      BY <2>1, <2>3
      DEF CreateAPIKey, LoadKey, DeleteAPIKey, SetActiveAPIKey, At, Repaired
    <3> QED
      BY <3>1, <3>2
  <2>4. CASE SettingsList(h) \/ SettingsFind(h)
    <3>1. HoldInv' /\ UNCHANGED keys
      BY <2>1, <2>4, HoldRead
    <3>2. Repaired
      BY <2>1, <2>4 DEF SettingsList, SettingsFind, At, Repaired
    <3> QED
      BY <3>1, <3>2 DEF ToggleAsked, Toggled
  <2>5. CASE SettingsRepair(h)
    <3>1. /\ HoldInv' /\ (nextKey <= MaxKeys /\ hs[h].clean => InternalKeyHeld')
          /\ InternalKeyHeld => InternalKeyHeld'
          /\ keyEnsured => UNCHANGED keys
      BY <2>1, <2>5, HoldRepair
    <3>2. Repaired
      BY <2>1, <3>1 DEF At, Repaired
    <3> QED
      BY <3>1, <3>2 DEF ToggleAsked, Toggled
  <2> QED
    BY <1>2, <2>2, <2>3, <2>4, <2>5 DEF Serve
<1>5. ASSUME NEW h \in Handlers, StatementFails(h)
      PROVE  HoldInv' /\ Repaired /\ ToggleAsked
  <2>1. /\ main = "serving" /\ main' = "serving"
        /\ faults \in Int /\ faults' = faults + 1
    BY <1>5 DEF StatementFails, Inv, MainInv
  <2>2. HoldInv' /\ UNCHANGED keys /\ (InternalKeyHeld => InternalKeyHeld')
    BY <1>5, <2>1, HoldFailure
  <2>3. faults' # faults
    BY <2>1
  <2> QED
    BY <2>2, <2>3 DEF Repaired, ToggleAsked, Toggled
<1>3. CASE Boot \/ EnsureBootstrapAdmin \/ EnsureBootstrapAPIKey
           \/ BootstrapFails \/ Crash
  <2>1. main # "serving" \/ (main' = "down" /\ UNCHANGED keys)
    BY <1>3 DEF Boot, Load, EnsureBootstrapAdmin, EnsureBootstrapAPIKey,
                BootstrapFails, Crash
  <2> QED
    BY <1>3, <2>1, HoldMain DEF Repaired, ToggleAsked, Toggled, At
<1>4. CASE UNCHANGED vars
  <2>1. HoldInv'
    BY <1>4
    DEF vars, HoldInv, HolderOK, InternalKeyKept, InternalKeyHeld, KeyOf,
        UserNamed
  <2> QED
    BY <1>4, <2>1 DEF vars, Repaired, ToggleAsked, Toggled, At
<1> QED
  BY <1>1, <1>2, <1>3, <1>4, <1>5 DEF Next

LEMMA HoldInvariant == Spec => []HoldInv
<1>1. Init => HoldInv
  BY DEF Init, HoldInv, HolderOK, Free, InternalKeyKept
<1>2. Inv /\ Inv' /\ HoldInv /\ [Next]_vars => HoldInv'
  BY InvStep, HoldNext
<1> QED
  BY <1>1, <1>2, Invariant, PTL DEF Spec

\* After a bootstrap that succeeded the internal key is the administrator's
\* until the process ends: no handler deletes it, loses its owner or creates
\* another one, in any order of their checks and writes (db.go:69-107,
\* apikeys.go:107-111).
THEOREM InternalKeyStays == Spec => []InternalKeyKept
  BY HoldInvariant, PTL DEF HoldInv

\* After a bootstrap that failed a visit of the settings page puts the internal
\* key right, whatever other handlers write between its reads and its write, if
\* no statement of the visit fails; and no visit takes the key away
\* (dashboard.go:150-173).
THEOREM SettingsRepairs == Spec => SettingsPageRepairs
<1>1. Inv /\ Inv' /\ HoldInv /\ [Next]_vars =>
         [\A h \in Handlers :
             /\ At(h, {"settings"}, "loaded") /\ nextKey <= MaxKeys
             /\ main' = "serving" /\ hs'[h].pc = "idle"
             /\ (hs[h].clean /\ faults' = faults) \/ InternalKeyHeld
             => InternalKeyHeld']_vars
  BY InvStep, HoldNext DEF Repaired
<1> QED
  BY <1>1, Invariant, HoldInvariant, PTL DEF Spec, SettingsPageRepairs

\* After a bootstrap that succeeded a key's active flag changes only by a
\* request to change it: the settings page saves no outdated row over it
\* (dashboard.go:171, apikeys.go:150).
THEOREM TogglesKept == Spec => NoToggleLost
<1>1. Inv /\ Inv' /\ HoldInv /\ [Next]_vars =>
         [\A k \in KeyIds :
             /\ main = "serving" /\ keyEnsured
             /\ keys[k] # NoRow /\ keys'[k] # NoRow
             /\ keys'[k].active # keys[k].active
             => \E h \in Handlers : At(h, {"setActive"}, "loaded")
                                    /\ hs[h].q.id = k]_vars
  BY InvStep, HoldNext DEF ToggleAsked, Toggled
<1> QED
  BY <1>1, Invariant, HoldInvariant, PTL DEF Spec, NoToggleLost
=============================================================================
