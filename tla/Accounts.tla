------------------------------ MODULE Accounts ------------------------------
(***************************************************************************)
(* Users and API keys: the bootstrap in main, and the dashboard handlers   *)
(* that create, change and delete rows of the tables users and api_keys.   *)
(*                                                                         *)
(* A handler works on two copies: the session user that AdminAuth read,    *)
(* and the row it looked up itself.  Both may be out of date by the time   *)
(* it writes, since several requests are served at once.  The database     *)
(* keeps usernames and key values unique and every key's owner existing    *)
(* (the gorm tags of user.go and apikey.go).                               *)
(***************************************************************************)
EXTENDS Integers, FiniteSets

CONSTANTS
    Names,          \* usernames
    Passwords,      \* passwords; a stored hash matches exactly one
    Values,         \* bearer tokens, configured or generated
    NoValue,        \* an empty APP_INTERNAL_API_KEY
    Configs,        \* environments the process is started with
    Handlers,       \* requests being served
    Forms,          \* where a form's fields arrive: "body" or "query"
    Ops,            \* bound: the kinds of request in use
    NoRow,          \* the row of an id that does not exist
    MaxUsers,       \* bound: user ids ever given out
    MaxKeys,        \* bound: key ids ever given out
    MaxFaults       \* bound: crashes, failed bootstraps and statements

ASSUME NameAssumption == NoValue \notin Values
ASSUME ConfigAssumption ==
    Configs \subseteq [admin : Names, pw : Passwords,
                       internal : Values \cup {NoValue}]
ASSUME BoundAssumption ==
    MaxUsers \in Nat /\ MaxKeys \in Nat /\ MaxFaults \in Nat

VARIABLES
    main,           \* main: "down", "admin", "key" or "serving"
    cfg,            \* the running process's configuration
    users,          \* table users, by id
    keys,           \* table api_keys, by id
    nextUser,       \* the sequences the ids come from
    nextKey,
    hs,             \* the handlers
    faults,         \* crashes and failures so far
    keyEnsured      \* auxiliary: did EnsureBootstrapAPIKey succeed?

vars == <<main, cfg, users, keys, nextUser, nextKey, hs, faults, keyEnsured>>
bootVars == <<main, cfg, faults, keyEnsured>>
-----------------------------------------------------------------------------
UserIds == 1..MaxUsers
KeyIds  == 1..MaxKeys

User == [name : Names, pw : Passwords, admin : BOOLEAN]
Key  == [value : Values, owner : UserIds, active : BOOLEAN]

ASSUME RowAssumption == NoRow \notin User /\ NoRow \notin Key

\* The requests of the dashboard's forms, by handler.
Query ==
    [op : {"createUser"}, name : Names, pw : Passwords, admin : BOOLEAN]
    \cup [op : {"resetPassword"}, id : UserIds, pw : Passwords]
    \cup [op : {"deleteUser"}, id : UserIds]
    \cup [op : {"changePassword"}, current : Passwords, pw : Passwords]
    \cup [op : {"createKey", "settings"}]
    \cup [op : {"deleteKey"}, id : KeyIds]
    \cup [op : {"setActive"}, id : KeyIds, active : BOOLEAN, form : Forms]

NoQuery == [op |-> "none"]
Free == [pc |-> "idle", q |-> NoQuery, id |-> 0, me |-> NoRow, got |-> NoRow,
         clean |-> TRUE]

\* q is the request, id and me the session user's id and row, got the row
\* looked up, with its id for a key.  clean is auxiliary: has no statement of
\* the handler failed?
Handler ==
    [pc : {"idle", "auth", "listed", "loaded"}, q : Query \cup {NoQuery},
     id : 0..MaxUsers, me : User \cup {NoRow},
     got : User \cup Key \cup {NoRow}, clean : BOOLEAN]

UserNamed(n) == {u \in UserIds : users[u] # NoRow /\ users[u].name = n}
KeyOf(v)     == {k \in KeyIds : keys[k] # NoRow /\ keys[k].value = v}
OwnedBy(u)   == {k \in KeyIds : keys[k] # NoRow /\ keys[k].owner = u}

\* Mutant: the insert does not look at the unique index on username.
InsertUserAnyName(row) ==
    IF nextUser <= MaxUsers
    THEN users' = [users EXCEPT ![nextUser] = row] /\ nextUser' = nextUser + 1
    ELSE UNCHANGED <<users, nextUser>>

\* INSERT INTO users, refused for a username that exists.
InsertUser(row) ==
    IF UserNamed(row.name) = {} /\ nextUser <= MaxUsers
    THEN users' = [users EXCEPT ![nextUser] = row] /\ nextUser' = nextUser + 1
    ELSE UNCHANGED <<users, nextUser>>

\* Mutant: api_keys without the foreign key of apikey.go:36.
InsertKeyAnyOwner(row) ==
    IF KeyOf(row.value) = {} /\ nextKey <= MaxKeys
    THEN keys' = [keys EXCEPT ![nextKey] = row] /\ nextKey' = nextKey + 1
    ELSE UNCHANGED <<keys, nextKey>>

\* INSERT INTO api_keys, refused for a value that exists or no owner.
InsertKey(row) ==
    IF KeyOf(row.value) = {} /\ users[row.owner] # NoRow /\ nextKey <= MaxKeys
    THEN keys' = [keys EXCEPT ![nextKey] = row] /\ nextKey' = nextKey + 1
    ELSE UNCHANGED <<keys, nextKey>>
-----------------------------------------------------------------------------
Init ==
    /\ main = "down" /\ cfg \in Configs
    /\ users = [u \in UserIds |-> NoRow] /\ keys = [k \in KeyIds |-> NoRow]
    /\ nextUser = 1 /\ nextKey = 1
    /\ hs = [h \in Handlers |-> Free]
    /\ faults = 0 /\ keyEnsured = FALSE

\* The process starts with some environment.
Load(c) ==
    /\ main = "down"
    /\ main' = "admin" /\ cfg' = c /\ keyEnsured' = FALSE
    /\ UNCHANGED <<users, keys, nextUser, nextKey, hs, faults>>

\* A user with the configured name is left as it is.
EnsureBootstrapAdmin ==
    /\ main = "admin" /\ main' = "key"
    /\ UserNamed(cfg.admin) = {} => nextUser <= MaxUsers
    /\ InsertUser([name |-> cfg.admin, pw |-> cfg.pw, admin |-> TRUE])
    /\ UNCHANGED <<cfg, keys, nextKey, hs, faults, keyEnsured>>

\* Mutant: an existing key is left with its owner.
EnsureKeyUnclaimed ==
    /\ main = "key" /\ main' = "serving" /\ keyEnsured' = TRUE
    /\ LET a == CHOOSE u \in UserNamed(cfg.admin) : TRUE
       IN  IF cfg.internal = NoValue THEN UNCHANGED <<keys, nextKey>>
           ELSE InsertKey([value |-> cfg.internal, owner |-> a,
                           active |-> TRUE])
    /\ UNCHANGED <<cfg, users, nextUser, hs, faults>>

\* The configured key is the admin's already, is taken over from another
\* user, or is created; then main serves.
EnsureBootstrapAPIKey ==
    /\ main = "key" /\ main' = "serving" /\ keyEnsured' = TRUE
    /\ LET a == CHOOSE u \in UserNamed(cfg.admin) : TRUE
           found == KeyOf(cfg.internal)
       IN  \/ /\ cfg.internal = NoValue
              /\ UNCHANGED <<keys, nextKey>>
           \/ /\ cfg.internal # NoValue /\ found # {}
              /\ keys' = [k \in KeyIds |->
                            IF k \in found /\ keys[k].owner # a
                            THEN [keys[k] EXCEPT !.owner = a, !.active = TRUE]
                            ELSE keys[k]]
              /\ UNCHANGED nextKey
           \/ /\ cfg.internal # NoValue /\ found = {} /\ nextKey <= MaxKeys
              /\ InsertKey([value |-> cfg.internal, owner |-> a,
                            active |-> TRUE])
    /\ UNCHANGED <<cfg, users, nextUser, hs, faults>>

\* An error is fatal for the admin, and only logged for the key.
BootstrapFails ==
    /\ faults < MaxFaults /\ faults' = faults + 1
    /\ \/ main = "admin" /\ main' = "down"
       \/ main = "key" /\ main' = "serving"
    /\ UNCHANGED <<cfg, users, keys, nextUser, nextKey, hs, keyEnsured>>

Crash ==
    /\ main # "down" /\ faults < MaxFaults
    /\ main' = "down" /\ faults' = faults + 1
    /\ hs' = [h \in Handlers |-> Free]
    /\ UNCHANGED <<cfg, users, keys, nextUser, nextKey, keyEnsured>>
-----------------------------------------------------------------------------
(***************************************************************************)
(* The handlers.  Respond ends one, whatever its answer.                   *)
(***************************************************************************)
At(h, ops, pc) == main = "serving" /\ hs[h].pc = pc /\ hs[h].q.op \in ops

Respond(h) == hs' = [hs EXCEPT ![h] = Free]

Answer(h) ==
    Respond(h) /\ UNCHANGED <<users, keys, nextUser, nextKey, bootVars>>

Keep(h, pc, row) ==
    /\ hs' = [hs EXCEPT ![h].pc = pc, ![h].got = row]
    /\ UNCHANGED <<users, keys, nextUser, nextKey, bootVars>>

\* AdminAuth reads the row of the session's user; the configured admin is one
\* whatever the row says.
AdminAuth(h, u, q) ==
    /\ main = "serving" /\ hs[h].pc = "idle" /\ users[u] # NoRow
    /\ hs' = [hs EXCEPT ![h] =
          [pc |-> "auth", q |-> q, id |-> u, got |-> NoRow, clean |-> TRUE,
           me |-> [users[u] EXCEPT !.admin = @ \/ users[u].name = cfg.admin]]]
    /\ UNCHANGED <<users, keys, nextUser, nextKey, bootVars>>

CreateUser(h) ==
    /\ At(h, {"createUser"}, "auth")
    /\ LET q == hs[h].q
       IN  InsertUser([name |-> q.name, pw |-> q.pw, admin |-> q.admin])
    /\ Respond(h)
    /\ UNCHANGED <<keys, nextKey, bootVars>>

\* Mutant: the bootstrap admin is a user like any other.
LoadAnyUser(h) ==
    /\ At(h, {"resetPassword", "deleteUser"}, "auth")
    /\ LET row == users[hs[h].q.id]
       IN  IF row = NoRow THEN Answer(h) ELSE Keep(h, "loaded", row)

\* The checks ResetPassword and DeleteUser share: 404, 403, or go on.
LoadUser(h) ==
    /\ At(h, {"resetPassword", "deleteUser"}, "auth")
    /\ LET row == users[hs[h].q.id]
       IN  IF row = NoRow \/ row.name = cfg.admin
           THEN Answer(h) ELSE Keep(h, "loaded", row)

\* UPDATE ... WHERE id: no row, no effect.
SetPassword(u, pw) ==
    users' = [users EXCEPT ![u] =
                 IF @ = NoRow THEN NoRow ELSE [@ EXCEPT !.pw = pw]]

ResetPassword(h) ==
    /\ At(h, {"resetPassword"}, "loaded")
    /\ SetPassword(hs[h].q.id, hs[h].q.pw)
    /\ Respond(h)
    /\ UNCHANGED <<keys, nextUser, nextKey, bootVars>>

\* The foreign key keeps a user that owns keys.
DeleteUser(h) ==
    /\ At(h, {"deleteUser"}, "loaded")
    /\ users' = IF OwnedBy(hs[h].q.id) = {}
                THEN [users EXCEPT ![hs[h].q.id] = NoRow] ELSE users
    /\ Respond(h)
    /\ UNCHANGED <<keys, nextUser, nextKey, bootVars>>

\* Mutant: the bootstrap admin may change its password too.
ChangePasswordOfAnyone(h) ==
    /\ At(h, {"changePassword"}, "auth")
    /\ IF hs[h].me.pw # hs[h].q.current
       THEN UNCHANGED users
       ELSE SetPassword(hs[h].id, hs[h].q.pw)
    /\ Respond(h)
    /\ UNCHANGED <<keys, nextUser, nextKey, bootVars>>

\* The current password is compared with the hash AdminAuth read.
ChangePasswordSelf(h) ==
    /\ At(h, {"changePassword"}, "auth")
    /\ IF hs[h].me.name = cfg.admin \/ hs[h].me.pw # hs[h].q.current
       THEN UNCHANGED users
       ELSE SetPassword(hs[h].id, hs[h].q.pw)
    /\ Respond(h)
    /\ UNCHANGED <<keys, nextUser, nextKey, bootVars>>

\* A generated value is one nobody has or configures.
CreateAPIKey(h, v) ==
    /\ At(h, {"createKey"}, "auth")
    /\ KeyOf(v) = {} /\ v # cfg.internal
    /\ InsertKey([value |-> v, owner |-> hs[h].id, active |-> TRUE])
    /\ Respond(h)
    /\ UNCHANGED <<users, nextUser, bootVars>>

\* Mutant: the internal key can be deleted.
LoadAnyKey(h) ==
    /\ At(h, {"deleteKey", "setActive"}, "auth")
    /\ LET q   == hs[h].q
           row == keys[q.id]
       IN  IF \/ q.op = "setActive" /\ q.form # "body"
              \/ row = NoRow
              \/ row.owner # hs[h].id /\ ~hs[h].me.admin
           THEN Answer(h) ELSE Keep(h, "loaded", row)

\* Fields that do not arrive in the body are missing: 400.  404 and 403 as
\* for users; the internal key is not deleted.
LoadKey(h) ==
    /\ At(h, {"deleteKey", "setActive"}, "auth")
    /\ LET q   == hs[h].q
           row == keys[q.id]
       IN  IF \/ q.op = "setActive" /\ q.form # "body"
              \/ row = NoRow
              \/ row.owner # hs[h].id /\ ~hs[h].me.admin
              \/ q.op = "deleteKey" /\ row.value = cfg.internal
           THEN Answer(h) ELSE Keep(h, "loaded", row)

DeleteAPIKey(h) ==
    /\ At(h, {"deleteKey"}, "loaded")
    /\ keys' = [keys EXCEPT ![hs[h].q.id] = NoRow]
    /\ Respond(h)
    /\ UNCHANGED <<users, nextUser, nextKey, bootVars>>

SetActiveAPIKey(h) ==
    /\ At(h, {"setActive"}, "loaded")
    /\ keys' = [keys EXCEPT ![hs[h].q.id] =
                   IF @ = NoRow THEN NoRow
                   ELSE [@ EXCEPT !.active = hs[h].q.active]]
    /\ Respond(h)
    /\ UNCHANGED <<users, nextUser, nextKey, bootVars>>

\* SettingsPage for the bootstrap admin: is the internal key among its own?
SettingsList(h) ==
    /\ At(h, {"settings"}, "auth")
    /\ IF \/ hs[h].me.name # cfg.admin \/ cfg.internal = NoValue
          \/ KeyOf(cfg.internal) \cap OwnedBy(hs[h].id) # {}
       THEN Answer(h) ELSE Keep(h, "listed", NoRow)

\* If not, look for it among all keys ...
SettingsFind(h) ==
    /\ At(h, {"settings"}, "listed")
    /\ LET found == {keys[k] : k \in KeyOf(cfg.internal)}
       IN  IF found = {} THEN Keep(h, "loaded", NoRow)
           ELSE \E row \in found : Keep(h, "loaded", row)

\* Mutant: another user's key is shown, not taken over.
SettingsRepairMissing(h) ==
    /\ At(h, {"settings"}, "loaded")
    /\ IF hs[h].got = NoRow
       THEN InsertKey([value |-> cfg.internal, owner |-> hs[h].id,
                       active |-> TRUE])
       ELSE UNCHANGED <<keys, nextKey>>
    /\ Respond(h)
    /\ UNCHANGED <<users, nextUser, bootVars>>

\* ... and create it, or save the row read with a new owner: all of it, active
\* flag included.  The database refuses to create it a second time.
SettingsRepair(h) ==
    /\ At(h, {"settings"}, "loaded")
    /\ LET row == hs[h].got
       IN  \/ /\ row = NoRow
              /\ InsertKey([value |-> cfg.internal, owner |-> hs[h].id,
                            active |-> TRUE])
           \/ /\ row # NoRow
              /\ keys' = [k \in KeyIds |->
                            IF k \in KeyOf(row.value) /\ row.owner # hs[h].id
                            THEN [row EXCEPT !.owner = hs[h].id] ELSE keys[k]]
              /\ UNCHANGED nextKey
    /\ Respond(h)
    /\ UNCHANGED <<users, nextUser, bootVars>>

\* A statement of a handler fails and changes nothing.  Every handler answers
\* with an error, but for SettingsPage: an error of its lookup is taken for
\* "there is none", and those of its Create and its Save are ignored.
StatementFails(h) ==
    /\ main = "serving" /\ hs[h].pc # "idle" /\ faults < MaxFaults
    /\ faults' = faults + 1
    /\ \/ hs[h].pc # "listed" /\ Respond(h)
       \/ /\ hs[h].pc = "listed"
          /\ hs' = [hs EXCEPT ![h].pc = "loaded", ![h].got = NoRow,
                              ![h].clean = FALSE]
    /\ UNCHANGED <<main, cfg, keyEnsured, users, keys, nextUser, nextKey>>
-----------------------------------------------------------------------------
Boot == \E c \in Configs : Load(c)

Serve(h) ==
    \/ CreateUser(h) \/ LoadUser(h) \/ ResetPassword(h) \/ DeleteUser(h)
    \/ ChangePasswordSelf(h)
    \/ \E v \in Values : CreateAPIKey(h, v)
    \/ LoadKey(h) \/ DeleteAPIKey(h) \/ SetActiveAPIKey(h)
    \/ SettingsList(h) \/ SettingsFind(h) \/ SettingsRepair(h)

Next ==
    \/ Boot \/ EnsureBootstrapAdmin \/ EnsureBootstrapAPIKey
    \/ BootstrapFails \/ Crash
    \/ \E h \in Handlers, u \in UserIds, q \in Query :
          q.op \in Ops /\ AdminAuth(h, u, q)
    \/ \E h \in Handlers : Serve(h) \/ StatementFails(h)

\* The process is started again, main goes on, and handlers answer.
Fairness ==
    /\ WF_vars(Boot) /\ WF_vars(EnsureBootstrapAdmin)
    /\ WF_vars(EnsureBootstrapAPIKey \/ BootstrapFails)
    /\ \A h \in Handlers : WF_vars(Serve(h))

Spec == Init /\ [][Next]_vars /\ Fairness
-----------------------------------------------------------------------------
(***************************************************************************)
(* Properties.                                                             *)
(***************************************************************************)
\* The shape of the state; usernames and key values are unique.
TypeOK ==
    /\ main \in {"down", "admin", "key", "serving"} /\ cfg \in Configs
    /\ users \in [UserIds -> User \cup {NoRow}]
    /\ keys \in [KeyIds -> Key \cup {NoRow}]
    /\ nextUser \in 1..(MaxUsers + 1) /\ nextKey \in 1..(MaxKeys + 1)
    /\ hs \in [Handlers -> Handler]
    /\ faults \in 0..MaxFaults /\ keyEnsured \in BOOLEAN
    /\ \A n \in Names : Cardinality(UserNamed(n)) <= 1
    /\ \A v \in Values : Cardinality(KeyOf(v)) <= 1

\* Once the bootstrap is past, the configured administrator exists, whatever
\* deletions and restarts under other names went before (db.go:39-67,
\* users.go:137-141).
AdminExists == main \in {"key", "serving"} => UserNamed(cfg.admin) # {}

\* No handler changes the configured administrator's row, however its checks
\* and writes interleave with others (users.go:79, users.go:137, auth.go:98).
AdminRowFixed ==
    [][main = "serving" /\ main' = "serving" =>
          \A u \in UserNamed(cfg.admin) : users'[u] = users[u]]_vars

\* Every key has an owner, also when the owner is being deleted while the key
\* is being created or taken over (apikey.go:36, users.go:143).
OwnersExist ==
    \A k \in KeyIds : keys[k] # NoRow => users[keys[k].owner] # NoRow

InternalKeyHeld ==
    \E k \in KeyOf(cfg.internal) : UserNamed(cfg.admin) = {keys[k].owner}

\* After a bootstrap that succeeded, the internal key exists and is the
\* administrator's for as long as the process serves (db.go:69-107,
\* apikeys.go:107-111).
InternalKeyKept ==
    main = "serving" /\ keyEnsured /\ cfg.internal # NoValue => InternalKeyHeld

\* After a bootstrap that failed (main.go:35) a visit of the administrator to
\* the settings page puts the internal key right, whoever else is at the table
\* at the time, if no statement of the visit fails; and one that does fail,
\* which the page does not notice, takes the key from nobody it belongs to
\* (dashboard.go:150-173).
SettingsPageRepairs ==
    [][\A h \in Handlers :
          /\ At(h, {"settings"}, "loaded") /\ nextKey <= MaxKeys
          /\ main' = "serving" /\ hs'[h].pc = "idle"
          /\ (hs[h].clean /\ faults' = faults) \/ InternalKeyHeld
          => InternalKeyHeld']_vars

\* With a bootstrap that succeeded, a key's active flag changes only by a
\* request to change it: no handler saves an outdated row over it
\* (dashboard.go:171, apikeys.go:150).
NoToggleLost ==
    [][\A k \in KeyIds :
          /\ main = "serving" /\ keyEnsured
          /\ keys[k] # NoRow /\ keys'[k] # NoRow
          /\ keys'[k].active # keys[k].active
          => \E h \in Handlers : At(h, {"setActive"}, "loaded")
                                 /\ hs[h].q.id = k]_vars

\* settings.html:95, 99: the buttons "Deactivate" and "Activate" beside a key.
\* Once their request is answered the key of the user is what they say.
ButtonTakesEffect ==
    [][\A h \in Handlers :
          /\ hs[h].q.op = "setActive" /\ hs'[h].pc = "idle" /\ main' = "serving"
          /\ keys[hs[h].q.id] # NoRow /\ keys[hs[h].q.id].owner = hs[h].id
          => keys'[hs[h].q.id].active = hs[h].q.active]_vars
=============================================================================
