------------------------------- MODULE Deployment -------------------------------
(***************************************************************************)
(* The release installer (infra/install-ehf.py) with the database          *)
(* bootstrap and migrations it runs: immutable releases, one link to the   *)
(* current one, managed configuration files, the service and its schema.   *)
(* One deploy or rollback runs at a time; every command may fail, and the  *)
(* installer or the whole host may stop between any two of them.           *)
(***************************************************************************)
EXTENDS SqlPrincipals, SequencesExt

CONSTANTS Releases,   \* commits
          Migrations, \* release -> the checksums of its migrations, in version order
          None,
          MaxOps,     \* bound on the operations started
          MaxFaults   \* bound on kills, host restarts, service crashes and failures of a restore

ASSUME MigrationsAssumption == Migrations \in [Releases -> Seq(Nat)]
ASSUME NoneAssumption == None \notin Releases
ASSUME BoundAssumption == MaxOps \in Nat /\ MaxFaults \in Nat

VARIABLES prepared,  \* releases with a commit marker under /opt/ehf/r
          venv,      \* release -> "none", "partial" or "complete"
          current,   \* the target of /opt/ehf/current
          config,    \* whose service unit and Nginx site are on disk, and the site's link
          unit,      \* whose service unit systemd has loaded
          site,      \* whose site Nginx serves
          enabled,   \* the unit is started at boot
          running,   \* the release the service process runs
          schema,    \* checksums recorded in dbo.SchemaMigration
          op,        \* the operation in progress
          before,    \* the managed state when it started
          last,      \* how the last operation ended
          deployed,  \* releases that passed the preactivation tests of some deploy
          ops,       \* operations started
          faults     \* kills, restarts, crashes and failed restores so far

hostVars == <<prepared, venv, current, config, unit, site, enabled, running>>
ghosts == <<before, last, deployed, ops, faults>>
vars == <<sqlVars, hostVars, schema, op, ghosts>>

Holders == Releases \cup {None}
Configs == [unit : Holders, site : Holders, link : BOOLEAN]
NoConfig == [unit |-> None, site |-> None, link |-> FALSE]
Idle == [kind |-> "none", step |-> "idle", target |-> None, active |-> FALSE,
         saved |-> NoConfig, previous |-> None, switched |-> FALSE]

Steps == {"idle", "prepare", "install", "venv", "tests", "bootstrap", "isolated", "login",
          "switch", "reload", "restart", "ready", "nginx",
          "restoreLink", "restoreFiles", "restoreReload", "restoreService"}

Operations == [kind : {"none", "deploy", "rollback"}, step : Steps, target : Holders, active : BOOLEAN,
               saved : Configs, previous : Holders, switched : BOOLEAN]

\* Every variable ranges over its type.
DeploymentTypeOK ==
  /\ SqlTypeOK
  /\ prepared \subseteq Releases /\ venv \in [Releases -> {"none", "partial", "complete"}]
  /\ current \in Holders /\ config \in Configs /\ unit \in Holders /\ site \in Holders
  /\ enabled \in BOOLEAN /\ running \in Holders /\ schema \in Seq(Nat)
  /\ op \in Operations
  /\ before \in [current : Holders, config : Configs, site : Holders]
  /\ last \in {"none", "ok", "refused", "failed", "broken", "stopped"}
  /\ deployed \subseteq Releases /\ ops \in 0 .. MaxOps /\ faults \in 0 .. MaxFaults

Init ==
  /\ SqlInit
  /\ prepared = {} /\ venv = [r \in Releases |-> "none"] /\ current = None /\ config = NoConfig
  /\ unit = None /\ site = None /\ enabled = FALSE /\ running = None /\ schema = <<>>
  /\ op = Idle /\ before = [current |-> None, config |-> NoConfig, site |-> None] /\ last = "none"
  /\ deployed = {} /\ ops = 0 /\ faults = 0

-----------------------------------------------------------------------------
(* Control of one operation.                                               *)

At(step) == op.step = step
Go(step) == op' = [op EXCEPT !.step = step]
Fail == Go("restoreLink")
End(result) == op' = Idle /\ last' = result
Break == faults < MaxFaults /\ faults' = faults + 1 /\ End("broken")

\* deploy and rollback take the configuration snapshot after the release is
\* known to be usable and before they change anything.
Begin(kind, r) ==
  /\ op' = [Idle EXCEPT !.kind = kind, !.target = r, !.step = "install",
                        !.active = (running # None), !.saved = config]
  /\ before' = [current |-> current, config |-> config, site |-> site]
  /\ UNCHANGED last

\* prepare_release: reuse the release of this commit, or extract, check and
\* harden the archive in a staging directory and rename it.
PrepareRelease(r) ==
  /\ At("idle") /\ ops < MaxOps /\ ops' = ops + 1
  /\ \/ prepared' = prepared \cup {r} /\ Begin("deploy", r)
     \/ r \notin prepared /\ End("refused") /\ UNCHANGED <<prepared, before>>
  /\ UNCHANGED <<sqlVars, venv, current, config, unit, site, enabled, running, schema, deployed, faults>>

RollbackTo(r) ==
  /\ At("idle") /\ ops < MaxOps /\ ops' = ops + 1
  /\ r \in prepared /\ Begin("rollback", r)
  /\ UNCHANGED <<sqlVars, hostVars, schema, deployed, faults>>

\* The unit, the site and its link are replaced in this order.
Installed == [unit |-> op.target, site |-> op.target, link |-> TRUE]

\* What is on disk when the replacement stops half-way; a file that was being
\* copied is truncated.
PartlyInstalled ==
  LET one == [config EXCEPT !.unit = op.target]
      two == [one EXCEPT !.site = op.target]
  IN  {config, [config EXCEPT !.unit = None], one, [one EXCEPT !.site = None], two, Installed}

\* nginx -t comes last.
InstallConfiguration ==
  /\ At("install")
  /\ \/ config' = Installed /\ Go(IF op.kind = "deploy" THEN "venv" ELSE "switch")
     \/ config' \in PartlyInstalled /\ Fail
  /\ UNCHANGED <<sqlVars, prepared, venv, current, unit, site, enabled, running, schema, ghosts>>

\* A rebuild that does not look at the current link.
RebuildableAlways(r) == venv[r] \in {"none", "partial", "complete"}

\* The environment of the current release is never rebuilt.
Rebuildable(r) == venv[r] = "none" \/ current # r

BuildVenv ==
  /\ At("venv")
  /\ LET r == op.target
     IN \/ venv[r] = "complete" /\ Go("tests") /\ UNCHANGED venv
        \/ \* incomplete, or the pip check of a complete environment fails
           /\ Rebuildable(r)
           /\ \/ venv' = [venv EXCEPT ![r] = "complete"] /\ Go("tests")
              \/ venv' = [venv EXCEPT ![r] = "none"] /\ Fail
        \/ ~Rebuildable(r) /\ Fail /\ UNCHANGED venv
  /\ UNCHANGED <<sqlVars, prepared, current, config, unit, site, enabled, running, schema, ghosts>>

PreactivationTests ==
  /\ At("tests")
  /\ Go("bootstrap") \/ Fail
  /\ UNCHANGED <<sqlVars, hostVars, schema, ghosts>>

-----------------------------------------------------------------------------
(* Database bootstrap.                                                     *)

\* A history check that compares version numbers only.
HistoryHasLocalVersions(r) == Len(schema) <= Len(Migrations[r])

\* The recorded history must be a prefix of the release's migrations, with the
\* same checksums.
HistoryIsLocalPrefix(r) == IsPrefix(schema, Migrations[r])

\* All pending migrations are applied in one transaction.
ApplyMigrations(r) ==
  /\ HistoryIsLocalPrefix(r)
  /\ schema' = schema \o SubSeq(Migrations[r], Len(schema) + 1, Len(Migrations[r]))
  /\ user' = IF user = "missing" THEN "NONE" ELSE user

\* The validators run after the migrations are committed.
Bootstrap ==
  /\ At("bootstrap")
  /\ \/ ApplyMigrations(op.target) /\ (Go("isolated") \/ Fail)
     \/ Fail /\ UNCHANGED <<schema, user>>
  /\ UNCHANGED <<login, foreign, password, testVars, script, hostVars, ghosts>>

\* The installer runs a script and waits for it.
RunScript(step, first, next) ==
  /\ At(step)
  /\ \/ StartScript(first) /\ UNCHANGED op
     \/ /\ \/ script = "ok" /\ Go(next)
           \/ script = "failed" /\ Fail
        /\ script' = "idle" /\ UNCHANGED <<principalVars, testVars>>
  /\ UNCHANGED <<hostVars, schema, ghosts>>

TestSqlLogin == RunScript("isolated", "seed", "login")
SetupSqlLogin == RunScript("login", "inspect", "switch")

ScriptRuns == ScriptStep /\ UNCHANGED <<hostVars, schema, op, ghosts>>

-----------------------------------------------------------------------------
(* Activation.                                                             *)

SwitchCurrent ==
  /\ At("switch")
  /\ \/ /\ current' = op.target
        /\ op' = [op EXCEPT !.previous = current, !.switched = TRUE, !.step = "reload"]
        /\ deployed' = IF op.kind = "deploy" THEN deployed \cup {op.target} ELSE deployed
     \/ Fail /\ UNCHANGED <<current, deployed>>
  /\ UNCHANGED <<sqlVars, prepared, venv, config, unit, site, enabled, running, schema,
                 before, last, ops, faults>>

DaemonReload ==
  /\ At("reload")
  /\ \/ /\ unit' = config.unit /\ enabled' = (enabled \/ op.kind = "deploy")
        /\ Go("restart")
     \/ /\ unit' \in {unit, config.unit} /\ Fail /\ UNCHANGED enabled
  /\ UNCHANGED <<sqlVars, prepared, venv, current, config, site, running, schema, ghosts>>

\* systemd runs the interpreter of the current release's environment.
Startable(u) == u # None /\ current # None /\ venv[current] = "complete" /\ password = "protected"

RestartService ==
  /\ At("restart")
  /\ \/ Startable(unit) /\ running' = current /\ Go("ready")
     \/ running' = None /\ Fail
  /\ UNCHANGED <<sqlVars, prepared, venv, current, config, unit, site, enabled, schema, ghosts>>

\* Poll until the service is active and answers, or the deadline passes.
WaitUntilReady ==
  /\ At("ready")
  /\ (running # None /\ Go("nginx")) \/ Fail
  /\ UNCHANGED <<sqlVars, hostVars, schema, ghosts>>

ReloadNginx ==
  /\ At("nginx")
  /\ \/ site' = config.site /\ End("ok")
     \/ Fail /\ UNCHANGED <<site, last>>
  /\ UNCHANGED <<sqlVars, prepared, venv, current, config, unit, enabled, running, schema,
                 before, deployed, ops, faults>>

-----------------------------------------------------------------------------
(* _restore: every step may raise, which ends the operation.               *)

\* A restore that only knows how to return to an earlier release.
RestoredRelease == IF op.switched /\ op.previous # None THEN op.previous ELSE current

\* The link to return to: none when the operation made the first one.
RestoredLink == IF op.switched THEN op.previous ELSE current

RestoreLink ==
  /\ At("restoreLink")
  /\ \/ current' = RestoredLink /\ Go("restoreFiles") /\ UNCHANGED <<last, faults>>
     \/ op.switched /\ Break /\ UNCHANGED current
  /\ UNCHANGED <<sqlVars, prepared, venv, config, unit, site, enabled, running, schema,
                 before, deployed, ops>>

\* Link, site and unit in this order; each is unlinked before it is rewritten.
PartlyRestored ==
  LET one == [config EXCEPT !.link = op.saved.link]
      two == [one EXCEPT !.site = op.saved.site]
  IN  {config, [config EXCEPT !.link = FALSE], one, [one EXCEPT !.site = None],
       two, [two EXCEPT !.unit = None], op.saved}

RestoreFiles ==
  /\ At("restoreFiles")
  /\ \/ config' = op.saved /\ Go("restoreReload") /\ UNCHANGED <<last, faults>>
     \/ config' \in PartlyRestored /\ Break
  /\ UNCHANGED <<sqlVars, prepared, venv, current, unit, site, enabled, running, schema,
                 before, deployed, ops>>

RestoreReload ==
  /\ At("restoreReload")
  /\ \/ unit' = config.unit /\ Go("restoreService") /\ UNCHANGED <<last, faults>>
     \/ unit' \in {unit, config.unit} /\ Break
  /\ UNCHANGED <<sqlVars, prepared, venv, current, config, site, enabled, running, schema,
                 before, deployed, ops>>

\* A restore that leaves the service stopped.
RestoreServiceStopped ==
  /\ At("restoreService")
  /\ running' = None /\ End("failed")
  /\ UNCHANGED <<sqlVars, prepared, venv, current, config, unit, site, enabled, schema,
                 before, deployed, ops, faults>>

\* The service is restarted when it was active and stopped otherwise.
RestoreService ==
  /\ At("restoreService")
  /\ \/ op.active /\ Startable(unit) /\ running' = current /\ End("failed") /\ UNCHANGED faults
     \/ ~op.active /\ running' = None /\ End("failed") /\ UNCHANGED faults
     \/ op.active /\ ~Startable(unit) /\ running' = None /\ End("broken") /\ UNCHANGED faults
     \/ op.active /\ running' = None /\ Break
  /\ UNCHANGED <<sqlVars, prepared, venv, current, config, unit, site, enabled, schema,
                 before, deployed, ops>>

-----------------------------------------------------------------------------
(* What may happen at any time.                                            *)

\* A step cut off in the middle leaves some of the files replaced, or a partial
\* environment; nothing is restored.
CutOff ==
  /\ config' \in IF At("install") THEN PartlyInstalled
                 ELSE IF At("restoreFiles") THEN PartlyRestored ELSE {config}
  /\ venv' = IF At("venv") /\ Rebuildable(op.target) THEN [venv EXCEPT ![op.target] = "partial"] ELSE venv
  /\ ScriptKilled

InstallerKilled ==
  /\ op # Idle /\ faults < MaxFaults /\ faults' = faults + 1
  /\ End("stopped") /\ CutOff
  /\ UNCHANGED <<principalVars, prepared, current, unit, site, enabled, running, schema,
                 before, deployed, ops>>

\* The host restarts: systemd and Nginx read what is on disk.
HostRestarts ==
  /\ faults < MaxFaults /\ faults' = faults + 1
  /\ op' = Idle /\ last' = "stopped" /\ CutOff
  /\ unit' = config'.unit /\ site' = (IF config'.link THEN config'.site ELSE None)
  /\ running' = IF enabled /\ Startable(config'.unit) THEN current ELSE None
  /\ UNCHANGED <<principalVars, prepared, current, enabled, schema, before, deployed, ops>>

\* Restart=on-failure: a crashed process starts again from the current link.
ServiceCrashes ==
  /\ running # None /\ faults < MaxFaults /\ faults' = faults + 1
  /\ running' = IF Startable(unit) THEN current ELSE None
  /\ UNCHANGED <<sqlVars, prepared, venv, current, config, unit, site, enabled, schema, op,
                 before, last, deployed, ops>>

InstallerStep ==
  \/ InstallConfiguration \/ BuildVenv \/ PreactivationTests \/ Bootstrap
  \/ TestSqlLogin \/ SetupSqlLogin \/ ScriptRuns
  \/ SwitchCurrent \/ DaemonReload \/ RestartService \/ WaitUntilReady \/ ReloadNginx
  \/ RestoreLink \/ RestoreFiles \/ RestoreReload \/ RestoreService

Next ==
  \/ \E r \in Releases : PrepareRelease(r) \/ RollbackTo(r)
  \/ InstallerStep
  \/ InstallerKilled \/ HostRestarts \/ ServiceCrashes

Spec == Init /\ [][Next]_vars

\* An installer that is not killed goes on: each command it runs ends.
FairSpec == Spec /\ WF_vars(InstallerStep)

-----------------------------------------------------------------------------
(* Properties.                                                             *)

\* The inductive invariant of the migrations: types, an operation that has its
\* release, and a deploy past the bootstrap whose release fits the schema
\* (_bootstrap_database comes before _switch_current).
DeploymentInv ==
  /\ DeploymentTypeOK
  /\ op.step # "idle" => op.target \in Releases
  /\ op.step \in {"isolated", "login", "switch"} /\ op.kind = "deploy"
       => IsPrefix(Migrations[op.target], schema)
  /\ \A r \in deployed : IsPrefix(Migrations[r], schema)

\* An operation that failed and whose restore ran has put back the link, the
\* managed files, the loaded unit and the served site as they were when it
\* started, whichever step failed (deploy, rollback, _restore).
FailedOperationRestores ==
  last = "failed" /\ op = Idle
    => [current |-> current, config |-> config, site |-> site] = before /\ unit = config.unit

\* Every release that passed a deploy's tests, and so every one an operator may
\* roll back to, finds its own migrations in the schema, although failed deploys
\* and rollbacks never undo a migration (_verify_history, apply_migrations).
DeployedReleaseFitsSchema == \A r \in deployed : IsPrefix(Migrations[r], schema)

\* As long as nothing was stopped from outside (no operation killed, no host
\* restarted, no service crashed, no restore that failed: faults = 0), the
\* process in service never loses the environment it runs from, however many
\* operations fail, undo their switch and deploy again (_build_venv).
RunningVenvIntact == running # None /\ faults = 0 => venv[running] = "complete"

\* A service that was active when an operation began is active again once the
\* operation is over, unless the operation was stopped or its restore failed
\* (_restore, _wait_until_ready).
ServiceComesBack ==
  op.active ~> (op = Idle /\ (running # None \/ last \in {"broken", "stopped"}))
================================================================================
