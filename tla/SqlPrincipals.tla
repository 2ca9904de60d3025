----------------------------- MODULE SqlPrincipals -----------------------------
(***************************************************************************)
(* The SQL principals a deployment needs (infra/sql-principal.py) and the  *)
(* two scripts that drive that helper: the isolated permission test, which *)
(* creates and removes disposable databases and logins, and the set-up of  *)
(* the production login.  One helper call is one action.  Every call may   *)
(* fail; a call that runs several autocommitted statements may also stop   *)
(* half-way.                                                               *)
(***************************************************************************)
EXTENDS Naturals, Sequences

VARIABLES login,       \* the server login ehf_app: "absent", "bare" (a DENY is missing), "restricted"
          user,        \* the database user ehf_app: "missing", "NONE", "INSTANCE"
          foreign,     \* the login can enter another user database
          password,    \* /etc/ehf/sql-app-password: "absent", "unprotected", "protected"
          targets,     \* the disposable targets of the running test
          made,        \* how many of them the test has created
          stale,       \* targets of earlier tests are still on the server
          interrupted, \* a call of a test stopped half-way or its cleanup did not run
          script       \* the next step of the running script, "idle", "ok" or "failed"

principalVars == <<login, user, foreign, password>>
testVars == <<targets, made, stale, interrupted>>
sqlVars == <<principalVars, testVars, script>>

\* A set of targets shares one random suffix and carries the token of its run.
Sets == {"own", "adverse"}
NoTargets == [db |-> "absent", peer |-> "absent", login |-> "absent"]

\* The order in which the test creates its targets.
Creates == << <<"adverse", "db">>, <<"adverse", "peer">>, <<"adverse", "login">>,
              <<"own", "db">>, <<"own", "peer">>, <<"own", "login">> >>

SqlTypeOK ==
  /\ login \in {"absent", "bare", "restricted"} /\ user \in {"missing", "NONE", "INSTANCE"}
  /\ foreign \in BOOLEAN /\ password \in {"absent", "unprotected", "protected"}
  /\ targets \in [Sets -> [db : {"absent", "unmarked", "marked"},
                           peer : {"absent", "unmarked", "marked"},
                           login : {"absent", "bare", "restricted"}]]
  /\ made \in 0 .. Len(Creates) /\ stale \in BOOLEAN /\ interrupted \in BOOLEAN
  /\ script \in {"idle", "ok", "failed", "seed", "clean", "abort", "inspect", "credential",
                 "create", "verify", "map", "authenticate", "final"}

SqlInit ==
  /\ login = "absent" /\ user = "missing" /\ foreign \in BOOLEAN /\ password = "absent"
  /\ targets = [s \in Sets |-> NoTargets] /\ made = 0
  /\ stale = FALSE /\ interrupted = FALSE /\ script = "idle"

-----------------------------------------------------------------------------
(* Inspection.                                                             *)

InspectState ==
  CASE user = "missing" \/ login = "bare"         -> "INVALID"
    [] login = "absent" /\ user = "INSTANCE"      -> "INVALID"
    [] login = "absent" /\ user = "NONE"          -> "ABSENT"
    [] login = "restricted" /\ user = "NONE"      -> "UNMAPPED"
    [] login = "restricted" /\ user = "INSTANCE"  -> "READY"

\* A probe that reads the credential and opens no other database.
CredentialIsReadable == password = "protected"

\* Every attempt to open another database met SQL Server's exact denial.
OnlyExpectedDenials == ~foreign

\* The probe opens every other user database with the runtime credential.
NoEffectiveCrossDatabaseAccess == password = "protected" /\ OnlyExpectedDenials

-----------------------------------------------------------------------------
(* setup-sql-login.sh: the production login.                               *)

SetupFails == script' = "failed" /\ UNCHANGED <<principalVars, testVars>>
SetupMoves(s) == script' = s /\ UNCHANGED <<principalVars, testVars>>

SetupInspect ==
  /\ script = "inspect"
  /\ script' = CASE InspectState = "READY"    -> "authenticate"
                 [] InspectState = "UNMAPPED" -> "verify"
                 [] InspectState = "ABSENT"   -> "credential"
                 [] OTHER                     -> "failed"
  /\ UNCHANGED <<principalVars, testVars>>

\* The file is written first and its owner and mode are set afterwards.
SetupCredential ==
  /\ script = "credential"
  /\ \/ password = "protected" /\ SetupMoves("create")
     \/ password = "unprotected" /\ SetupFails
     \/ /\ password = "absent"
        /\ \/ password' = "protected" /\ script' = "create"
           \/ password' = "unprotected" /\ script' = "failed"
        /\ UNCHANGED <<login, user, foreign, testVars>>

\* CREATE LOGIN and the five DENY statements commit one by one.
CreateProductionLogin ==
  /\ script = "create"
  /\ InspectState = "ABSENT" /\ password = "protected"
  /\ \/ login' = "restricted" /\ script' = "verify"
     \/ login' \in {"absent", "bare"} /\ script' = "failed"
  /\ UNCHANGED <<user, foreign, password, testVars>>

SetupVerify ==
  /\ script = "verify"
  /\ script' = IF InspectState = "UNMAPPED" /\ NoEffectiveCrossDatabaseAccess THEN "map" ELSE "failed"
  /\ UNCHANGED <<principalVars, testVars>>

\* _map_user checks the login and the user again under its transaction.
MappableInTransaction == login = "restricted" /\ user = "NONE"

\* One transaction: the user is dropped and created again for the login.
MapProductionUser ==
  /\ script = "map"
  /\ \/ /\ InspectState = "UNMAPPED" /\ NoEffectiveCrossDatabaseAccess /\ MappableInTransaction
        /\ user' = "INSTANCE" /\ script' = "authenticate"
        /\ UNCHANGED <<login, foreign, password, testVars>>
     \/ SetupFails

AuthenticateLogin ==
  /\ script = "authenticate"
  /\ \/ InspectState = "READY" /\ password = "protected" /\ SetupMoves("final")
     \/ SetupFails

SetupFinal ==
  /\ script = "final"
  /\ \/ InspectState = "READY" /\ NoEffectiveCrossDatabaseAccess /\ SetupMoves("ok")
     \/ SetupFails

-----------------------------------------------------------------------------
(* test-sql-login.sh: the isolated permission test.                        *)

\* create-test-database commits the database before its marker, and
\* create-test-login the login before its denies.
CreateTestTarget ==
  /\ script = "seed" /\ made < Len(Creates)
  /\ LET set == Creates[made + 1][1]
         part == Creates[made + 1][2]
         At(v) == [targets EXCEPT ![set][part] = v]
     IN \/ /\ targets' = At(IF part = "login" THEN "restricted" ELSE "marked")
           /\ made' = made + 1 /\ UNCHANGED <<script, interrupted>>
        \/ /\ targets' = At(IF part = "login" THEN "bare" ELSE "unmarked")
           /\ script' = "abort" /\ interrupted' = TRUE /\ UNCHANGED made
        \/ script' = "abort" /\ UNCHANGED <<targets, made, interrupted>>
  /\ UNCHANGED <<principalVars, stale>>

\* Migrations, validators and permission probes against the test database.
RunProbes ==
  /\ script = "seed" /\ made = Len(Creates)
  /\ script' \in {"clean", "abort"}
  /\ UNCHANGED <<principalVars, testVars>>

MarkerFallback(t) == t.db = "marked" /\ t.peer = "marked"

\* A cleanup that asks for the markers after it has dropped the databases.
CleanedDatabasesFirst(t) ==
  LET Drop(d) == IF d = "marked" THEN "absent" ELSE d
  IN [db |-> Drop(t.db), peer |-> Drop(t.peer), login |-> t.login]

\* cleanup_test_targets: the login goes first, on the evidence of both markers.
CleanedTargets(t) ==
  LET Drop(d) == IF d = "marked" THEN "absent" ELSE d
  IN [db |-> Drop(t.db), peer |-> Drop(t.peer),
      login |-> IF t.login = "restricted" /\ MarkerFallback(t) THEN "absent" ELSE t.login]

Preserved(t) == t.db = "marked" /\ t.login = "restricted"

\* Both sets are cleaned up and verified, then nothing of any test may remain.
\* A helper call that cannot connect leaves its set as it was.
CleanupOwnedTargets ==
  /\ script \in {"clean", "abort"}
  /\ \E reached \in SUBSET Sets :
       LET after == [s \in Sets |-> IF s \in reached THEN CleanedTargets(targets[s]) ELSE targets[s]]
           left == \E s \in Sets : after[s] # NoTargets
       IN /\ stale' = (stale \/ left)
          /\ script' = IF script = "clean" /\ reached = Sets /\ ~stale' /\ Preserved(targets["adverse"])
                       THEN "ok" ELSE "failed"
          /\ interrupted' = (interrupted \/ reached # Sets)
  /\ targets' = [s \in Sets |-> NoTargets] /\ made' = 0
  /\ UNCHANGED principalVars

-----------------------------------------------------------------------------

StartScript(first) == script = "idle" /\ script' = first /\ UNCHANGED <<principalVars, testVars>>

\* The script ends at once; what it created stays on the server.
ScriptKilled ==
  /\ script' = "idle" /\ targets' = [s \in Sets |-> NoTargets] /\ made' = 0
  /\ stale' = (stale \/ \E s \in Sets : targets[s] # NoTargets)
  /\ interrupted' = (interrupted \/ \E s \in Sets : targets[s] # NoTargets)

ScriptStep ==
  \/ SetupInspect \/ SetupCredential \/ CreateProductionLogin \/ SetupVerify
  \/ MapProductionUser \/ AuthenticateLogin \/ SetupFinal
  \/ CreateTestTarget \/ RunProbes \/ CleanupOwnedTargets

-----------------------------------------------------------------------------
(* Properties.                                                             *)

\* The application's database user is bound to the login only when all server
\* denies are in place and the login reaches no other database, whatever an
\* interrupted set-up left behind (create_production_login, map_production_user).
MappedLoginIsRestricted == user = "INSTANCE" => login = "restricted" /\ ~foreign

\* Disposable databases and logins stay on the server only when a call stopped
\* half-way or could not run: a test whose probes fail cleans up all it created
\* (cleanup_test_targets and the script's EXIT trap).
LeftoversOnlyAfterInterruption == stale => interrupted
================================================================================
