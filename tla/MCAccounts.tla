----------------------------- MODULE MCAccounts -----------------------------
(***************************************************************************)
(* Small instances of Accounts: "root" is the administrator, "vi" the      *)
(* value configured as the internal key.                                   *)
(***************************************************************************)
EXTENDS Accounts

Env(admin, pw, internal) == [admin |-> admin, pw |-> pw, internal |-> internal]

\* One environment; a restart that names another administrator; and restarts
\* that move the internal key to another administrator or promote a generated
\* key to be the internal one.
OneConfig    == {Env("root", "p1", "vi")}
RenamedAdmin == {Env("root", "p1", NoValue), Env("ann", "p1", NoValue)}
MovedKey     == {Env("root", "p1", "vi"), Env("ann", "p1", "vi"),
                 Env("root", "p1", "v1")}
=============================================================================
