-------------------------- MODULE DeploymentProofs --------------------------
(***************************************************************************)
(* Proofs about the release installer and the SQL principals: which        *)
(* releases the schema fits, and when the application's database user is   *)
(* bound to its login, for every set of releases and migrations and every  *)
(* bound on operations and faults.                                         *)
(***************************************************************************)
EXTENDS Deployment, TLAPS

\* IsPrefix of the community modules, element by element.
LEMMA PrefixElements ==
  ASSUME NEW s \in Seq(Nat), NEW t \in Seq(Nat)
  PROVE  IsPrefix(s, t) <=> Len(s) <= Len(t) /\ \A i \in 1 .. Len(s) : s[i] = t[i]
<1>1. CASE Len(s) <= Len(t)
  <2> DEFINE a == SubSeq(s, 1, Len(s))
             b == SubSeq(t, 1, Len(s))
  <2>1. /\ a \in Seq(Nat) /\ Len(a) = Len(s) /\ \A i \in 1 .. Len(s) : a[i] = s[i]
        /\ b \in Seq(Nat) /\ Len(b) = Len(s) /\ \A i \in 1 .. Len(s) : b[i] = t[i]
    BY <1>1
  <2>2. a = b <=> \A i \in 1 .. Len(s) : a[i] = b[i]
    BY <2>1
  <2> QED
    BY <1>1, <2>1, <2>2 DEF IsPrefix
<1>2. CASE ~(Len(s) <= Len(t))
  BY <1>2 DEF IsPrefix
<1> QED
  BY <1>1, <1>2

\* Sequences with the same length and elements are equal.
LEMMA SameElements ==
  ASSUME NEW s \in Seq(Nat), NEW t \in Seq(Nat), Len(s) = Len(t),
         \A i \in 1 .. Len(t) : s[i] = t[i]
  PROVE  s = t
OBVIOUS

\* Appending what is missing of an extension gives the extension.
LEMMA Completed ==
  ASSUME NEW s \in Seq(Nat), NEW t \in Seq(Nat), IsPrefix(s, t)
  PROVE  s \o SubSeq(t, Len(s) + 1, Len(t)) = t
<1> DEFINE rest == SubSeq(t, Len(s) + 1, Len(t))
<1>1. Len(s) <= Len(t) /\ \A i \in 1 .. Len(s) : s[i] = t[i]
  BY PrefixElements
<1>2. rest \in Seq(Nat) /\ Len(rest) = Len(t) - Len(s)
      /\ \A i \in 1 .. Len(rest) : rest[i] = t[Len(s) + i]
  BY <1>1
<1>3. /\ s \o rest \in Seq(Nat) /\ Len(s \o rest) = Len(t)
      /\ \A i \in 1 .. Len(t) : (s \o rest)[i] = t[i]
  BY <1>1, <1>2
<1> HIDE DEF rest
<1> QED
  BY <1>3, SameElements DEF rest

\* A history that a release extends is extended by what that release applies.
LEMMA PrefixTransitive ==
  ASSUME NEW s \in Seq(Nat), NEW t \in Seq(Nat), NEW u \in Seq(Nat),
         IsPrefix(s, t), IsPrefix(t, u)
  PROVE  IsPrefix(s, u)
BY PrefixElements

LEMMA PrefixReflexive ==
  ASSUME NEW s \in Seq(Nat) PROVE IsPrefix(s, s)
BY PrefixElements

-----------------------------------------------------------------------------
(* Types.                                                                  *)

\* The steps of the two scripts keep the types of the principals.
LEMMA ScriptTyped ==
  ASSUME SqlTypeOK, ScriptStep PROVE SqlTypeOK'
<1> USE DEF SqlTypeOK, principalVars, testVars
<1>1. CASE SetupInspect
  BY <1>1 DEF SetupInspect, InspectState
<1>2. CASE SetupCredential
  BY <1>2 DEF SetupCredential, SetupMoves, SetupFails
<1>3. CASE CreateProductionLogin
  BY <1>3 DEF CreateProductionLogin
<1>4. CASE SetupVerify
  BY <1>4 DEF SetupVerify
<1>5. CASE MapProductionUser
  BY <1>5 DEF MapProductionUser, SetupFails
<1>6. CASE AuthenticateLogin
  BY <1>6 DEF AuthenticateLogin, SetupFails, SetupMoves
<1>7. CASE SetupFinal
  BY <1>7 DEF SetupFinal, SetupFails, SetupMoves
<1>8. CASE CreateTestTarget
  <2>1. made < 6 /\ made \in Nat /\ Len(Creates) = 6
    BY <1>8 DEF CreateTestTarget, Creates
  <2>2. PICK set \in Sets, part \in {"db", "peer", "login"} :
          set = Creates[made + 1][1] /\ part = Creates[made + 1][2]
    BY <2>1 DEF Creates, Sets
  <2> DEFINE At1(v) == [targets EXCEPT ![set][part] = v]
  <2>3. targets' \in {targets, At1(IF part = "login" THEN "restricted" ELSE "marked"),
                      At1(IF part = "login" THEN "bare" ELSE "unmarked")}
    BY <1>8, <2>2 DEF CreateTestTarget
  <2>4. /\ \/ made' = made + 1 /\ script' = script /\ interrupted' = interrupted
           \/ made' = made /\ script' = "abort" /\ (interrupted' = TRUE \/ interrupted' = interrupted)
        /\ script = "seed"
        /\ login' = login /\ user' = user /\ foreign' = foreign /\ password' = password /\ stale' = stale
    BY <1>8 DEF CreateTestTarget
  <2>5. targets' \in [Sets -> [db : {"absent", "unmarked", "marked"},
                              peer : {"absent", "unmarked", "marked"},
                              login : {"absent", "bare", "restricted"}]]
    <3>1. CASE part = "db"
      BY <2>3, <3>1
    <3>2. CASE part = "peer"
      BY <2>3, <3>2
    <3>3. CASE part = "login"
      BY <2>3, <3>3
    <3> QED
      BY <2>2, <3>1, <3>2, <3>3
  <2>6. made' \in 0 .. Len(Creates)
    BY <2>1, <2>4
  <2>7. interrupted' \in BOOLEAN /\ stale' \in BOOLEAN /\ foreign' \in BOOLEAN
    BY <2>4, Zenon
  <2> QED
    BY <2>4, <2>5, <2>6, <2>7
<1>9. CASE RunProbes
  BY <1>9 DEF RunProbes
<1>10. CASE CleanupOwnedTargets
  BY <1>10 DEF CleanupOwnedTargets, NoTargets, Creates
<1> QED
  BY <1>1, <1>2, <1>3, <1>4, <1>5, <1>6, <1>7, <1>8, <1>9, <1>10 DEF ScriptStep

\* What a step leaves alone keeps its type.
LEMMA SqlUntouched ==
  ASSUME SqlTypeOK, UNCHANGED sqlVars PROVE SqlTypeOK'
BY DEF SqlTypeOK, sqlVars, principalVars, testVars

\* A script that is killed leaves typed principals.
LEMMA KilledTyped ==
  ASSUME SqlTypeOK, ScriptKilled, UNCHANGED principalVars PROVE SqlTypeOK'
<1>1. targets' = [s \in Sets |-> NoTargets] /\ made' = 0 /\ script' = "idle"
  BY DEF ScriptKilled
<1>2. stale' \in BOOLEAN /\ interrupted' \in BOOLEAN
  BY Zenon DEF ScriptKilled, SqlTypeOK
<1>3. made' \in 0 .. Len(Creates)
  BY <1>1 DEF Creates
<1> QED
  BY <1>1, <1>2, <1>3 DEF SqlTypeOK, NoTargets, principalVars

\* Moving on to a step changes nothing else of the operation.
LEMMA Moved ==
  ASSUME op \in Operations, NEW s \in Steps, Go(s)
  PROVE  /\ op' \in Operations /\ op'.step = s
         /\ op'.kind = op.kind /\ op'.target = op.target /\ op'.active = op.active
         /\ op'.saved = op.saved /\ op'.previous = op.previous /\ op'.switched = op.switched
BY DEF Go, Operations

\* No operation is a typed operation.
LEMMA IdleTyped ==
  Idle \in Operations /\ Idle.step = "idle" /\ Idle.kind = "none"
BY DEF Idle, Operations, Steps, Holders, Configs, NoConfig

\* Files that were replaced, or only some of them, are still configurations.
LEMMA PartialConfigs ==
  ASSUME DeploymentTypeOK
  PROVE  /\ Installed \in Configs /\ op.saved \in Configs
         /\ PartlyInstalled \subseteq Configs /\ PartlyRestored \subseteq Configs
<1>1. /\ config \in Configs /\ op.saved \in Configs /\ op.target \in Holders
      /\ None \in Holders /\ config.link \in BOOLEAN
  BY DEF DeploymentTypeOK, Operations, Configs, Holders
<1>2. Installed \in Configs
  BY <1>1 DEF Installed, Configs
<1>3. PartlyInstalled \subseteq Configs
  <2> DEFINE one == [config EXCEPT !.unit = op.target]
             two == [one EXCEPT !.site = op.target]
             torn == [config EXCEPT !.unit = None]
             bare == [one EXCEPT !.site = None]
  <2>1. one \in Configs /\ torn \in Configs
    BY <1>1 DEF Configs
  <2>2. two \in Configs /\ bare \in Configs
    BY <1>1, <2>1 DEF Configs
  <2>3. PartlyInstalled = {config, torn, one, bare, two, Installed}
    BY DEF PartlyInstalled
  <2> HIDE DEF one, two, torn, bare
  <2> QED
    BY <1>1, <1>2, <2>1, <2>2, <2>3
<1>4. PartlyRestored \subseteq Configs
  <2> DEFINE one == [config EXCEPT !.link = op.saved.link]
             two == [one EXCEPT !.site = op.saved.site]
             unlinked == [config EXCEPT !.link = FALSE]
             gone == [one EXCEPT !.site = None]
             bare == [two EXCEPT !.unit = None]
  <2>1. one \in Configs /\ unlinked \in Configs
    BY <1>1 DEF Configs
  <2>2. two \in Configs /\ gone \in Configs
    BY <1>1, <2>1 DEF Configs
  <2>3. bare \in Configs
    BY <1>1, <2>2 DEF Configs
  <2>4. PartlyRestored = {config, unlinked, one, gone, two, bare, op.saved}
    BY DEF PartlyRestored
  <2> HIDE DEF one, two, unlinked, gone, bare
  <2> QED
    BY <1>1, <2>1, <2>2, <2>3, <2>4
<1> QED
  BY <1>1, <1>2, <1>3, <1>4

\* Nor do their types suffer when a step is cut off.
LEMMA CutOffTyped ==
  ASSUME DeploymentTypeOK, CutOff
  PROVE  config' \in Configs /\ venv' \in [Releases -> {"none", "partial", "complete"}]
<1>1. config' \in Configs
  BY PartialConfigs DEF CutOff, DeploymentTypeOK
<1> QED
  BY <1>1 DEF CutOff, DeploymentTypeOK

\* Every step of the installer keeps the types.
LEMMA InstallerTyped ==
  ASSUME DeploymentTypeOK, InstallerStep, op.step # "idle" => op.target \in Releases
  PROVE  DeploymentTypeOK'
<1> USE BoundAssumption DEF DeploymentTypeOK, hostVars, ghosts, Holders, Configs
<1>0. ASSUME NEW s \in Steps, Go(s) PROVE op' \in Operations
  BY <1>0, Moved
<1>i. ASSUME op' = Idle PROVE op' \in Operations
  BY <1>i, IdleTyped
<1> DEFINE Known == {"venv", "switch", "tests", "bootstrap", "isolated", "login", "reload", "restart",
                     "ready", "nginx", "restoreLink", "restoreFiles", "restoreReload", "restoreService"}
<1>k. Known \subseteq Steps
  BY DEF Steps
<1>1. CASE InstallConfiguration
  <2>1. SqlTypeOK'
    BY <1>1, SqlUntouched DEF InstallConfiguration
  <2>2. config' \in Configs
    BY <1>1, PartialConfigs DEF InstallConfiguration
  <2> QED
    BY <1>1, <1>0, <1>k, <2>1, <2>2 DEF InstallConfiguration, Fail
<1>2. CASE BuildVenv
  <2>1. SqlTypeOK'
    BY <1>2, SqlUntouched DEF BuildVenv
  <2> QED
    BY <1>2, <1>0, <1>i, <1>k, <2>1 DEF BuildVenv, Fail
<1>3. CASE PreactivationTests
  <2>1. SqlTypeOK'
    BY <1>3, SqlUntouched DEF PreactivationTests
  <2> QED
    BY <1>3, <1>0, <1>i, <1>k, <2>1 DEF PreactivationTests, Fail
<1>4. CASE SwitchCurrent
  <2>1. SqlTypeOK'
    BY <1>4, SqlUntouched DEF SwitchCurrent
  <2>2. op.target \in Releases
    BY <1>4 DEF SwitchCurrent, At
  <2>3. op' \in Operations
    BY ZenonT(60), <1>4, <1>0, <1>k, <2>2 DEF SwitchCurrent, Fail, Operations, Steps
  <2> QED
    BY <1>4, <2>1, <2>2, <2>3 DEF SwitchCurrent
<1>5. CASE DaemonReload
  <2>1. SqlTypeOK'
    BY <1>5, SqlUntouched DEF DaemonReload
  <2>2. enabled' \in BOOLEAN
    BY <1>5, Zenon DEF DaemonReload
  <2> QED
    BY <1>5, <1>0, <1>k, <2>1, <2>2 DEF DaemonReload, Fail
<1>6. CASE RestartService
  <2>1. SqlTypeOK'
    BY <1>6, SqlUntouched DEF RestartService
  <2> QED
    BY <1>6, <1>0, <1>i, <1>k, <2>1 DEF RestartService, Fail
<1>7. CASE WaitUntilReady
  <2>1. SqlTypeOK'
    BY <1>7, SqlUntouched DEF WaitUntilReady
  <2> QED
    BY <1>7, <1>0, <1>i, <1>k, <2>1 DEF WaitUntilReady, Fail
<1>8. CASE ReloadNginx
  <2>1. SqlTypeOK'
    BY <1>8, SqlUntouched DEF ReloadNginx
  <2> QED
    BY <1>8, <1>0, <1>i, <1>k, <2>1 DEF ReloadNginx, Fail, End
<1>9. CASE RestoreLink
  <2>1. SqlTypeOK'
    BY <1>9, SqlUntouched DEF RestoreLink
  <2> QED
    BY <1>9, <1>0, <1>i, <1>k, <2>1 DEF RestoreLink, RestoredLink, Operations, Break, End
<1>10. CASE RestoreFiles
  <2>1. SqlTypeOK'
    BY <1>10, SqlUntouched DEF RestoreFiles
  <2>2. config' \in Configs
    BY <1>10, PartialConfigs DEF RestoreFiles
  <2>3. op' \in Operations
    BY <1>10, <1>0, <1>i, <1>k DEF RestoreFiles, Break, End
  <2> QED
    BY <1>10, <2>1, <2>2, <2>3 DEF RestoreFiles, Break, End
<1>11. CASE RestoreReload
  <2>1. SqlTypeOK'
    BY <1>11, SqlUntouched DEF RestoreReload
  <2> QED
    BY <1>11, <1>0, <1>i, <1>k, <2>1 DEF RestoreReload, Break, End
<1>12. CASE RestoreService
  <2>1. SqlTypeOK'
    BY <1>12, SqlUntouched DEF RestoreService
  <2> QED
    BY <1>12, <1>0, <1>i, <1>k, <2>1 DEF RestoreService, Break, End
<1>13. CASE Bootstrap
  <2>1. SqlTypeOK'
    BY <1>13 DEF Bootstrap, ApplyMigrations, SqlTypeOK, testVars
  <2>2. schema' \in Seq(Nat)
    <3>1. op.target \in Releases
      BY <1>13 DEF Bootstrap, At
    <3>2. CASE ApplyMigrations(op.target)
      <4> DEFINE m == Migrations[op.target]
      <4>1. m \in Seq(Nat)
        BY <3>1, MigrationsAssumption
      <4>2. IsPrefix(schema, m) /\ schema' = schema \o SubSeq(m, Len(schema) + 1, Len(m))
        BY <3>2 DEF ApplyMigrations, HistoryIsLocalPrefix
      <4>3. schema' = m
        BY <4>1, <4>2, Completed
      <4> QED
        BY <4>1, <4>3
    <3> QED
      BY <1>13, <3>2 DEF Bootstrap
  <2> QED
    BY <1>13, <1>0, <1>k, <2>1, <2>2 DEF Bootstrap, Fail
<1>14. ASSUME NEW step, NEW first \in {"seed", "inspect"}, NEW next \in {"login", "switch"},
              RunScript(step, first, next)
       PROVE  DeploymentTypeOK'
  <2>1. SqlTypeOK'
    BY <1>14 DEF RunScript, StartScript, SqlTypeOK, principalVars, testVars
  <2> QED
    BY <1>14, <1>0, <1>k, <2>1 DEF RunScript, Fail
<1>15. CASE TestSqlLogin
  BY <1>14, <1>15 DEF TestSqlLogin
<1>16. CASE SetupSqlLogin
  BY <1>14, <1>16 DEF SetupSqlLogin
<1>17. CASE ScriptRuns
  BY <1>17, ScriptTyped DEF ScriptRuns
<1> QED
  BY <1>1, <1>2, <1>3, <1>4, <1>5, <1>6, <1>7, <1>8, <1>9, <1>10, <1>11, <1>12, <1>13,
     <1>15, <1>16, <1>17 DEF InstallerStep

\* Starting an operation keeps the types.
LEMMA BeginTyped ==
  ASSUME DeploymentTypeOK, NEW kind \in {"deploy", "rollback"}, NEW r \in Releases, Begin(kind, r)
  PROVE  /\ op' \in Operations /\ op'.step = "install" /\ op'.target = r /\ op'.kind = kind
         /\ before' \in [current : Holders, config : Configs, site : Holders]
<1>1. config \in Configs /\ current \in Holders /\ site \in Holders
  BY DEF DeploymentTypeOK
<1> DEFINE up == (running # None)
<1>2. up \in BOOLEAN
  OBVIOUS
<1>3. op' = [Idle EXCEPT !.kind = kind, !.target = r, !.step = "install", !.active = up, !.saved = config]
  BY DEF Begin
<1> HIDE DEF up
<1>4. op' \in Operations /\ op'.step = "install" /\ op'.target = r /\ op'.kind = kind
  BY <1>1, <1>2, <1>3, IdleTyped DEF Operations, Steps, Holders
<1> QED
  BY <1>1, <1>4 DEF Begin

\* Every step keeps the types.
LEMMA NextTyped ==
  ASSUME DeploymentTypeOK, op.step # "idle" => op.target \in Releases, [Next]_vars
  PROVE  DeploymentTypeOK'
<1> USE BoundAssumption DEF DeploymentTypeOK, hostVars, ghosts
<1>1. ASSUME NEW r \in Releases, PrepareRelease(r) PROVE DeploymentTypeOK'
  <2>1. SqlTypeOK'
    BY <1>1, SqlUntouched DEF PrepareRelease
  <2>2. op' \in Operations /\ before' \in [current : Holders, config : Configs, site : Holders]
        /\ last' \in {"none", "ok", "refused", "failed", "broken", "stopped"}
    <3>1. CASE Begin("deploy", r)
      BY <3>1, BeginTyped DEF Begin
    <3>2. CASE End("refused") /\ UNCHANGED before
      BY <3>2, IdleTyped DEF End
    <3> QED
      BY <1>1, <3>1, <3>2 DEF PrepareRelease
  <2>3. ops' \in 0 .. MaxOps
    BY <1>1 DEF PrepareRelease
  <2> QED
    BY <1>1, <2>1, <2>2, <2>3 DEF PrepareRelease
<1>2. ASSUME NEW r \in Releases, RollbackTo(r) PROVE DeploymentTypeOK'
  <2>1. SqlTypeOK'
    BY <1>2, SqlUntouched DEF RollbackTo
  <2>2. op' \in Operations /\ before' \in [current : Holders, config : Configs, site : Holders]
        /\ UNCHANGED last
    BY <1>2, BeginTyped DEF RollbackTo, Begin
  <2>3. ops' \in 0 .. MaxOps
    BY <1>2 DEF RollbackTo
  <2> QED
    BY <1>2, <2>1, <2>2, <2>3 DEF RollbackTo
<1>3. CASE InstallerStep
  BY <1>3, InstallerTyped
<1>4. CASE InstallerKilled
  <2>1. SqlTypeOK'
    BY <1>4, KilledTyped DEF InstallerKilled, CutOff
  <2>2. config' \in Configs /\ venv' \in [Releases -> {"none", "partial", "complete"}]
    BY <1>4, CutOffTyped DEF InstallerKilled
  <2>3. faults' \in 0 .. MaxFaults
    BY <1>4 DEF InstallerKilled
  <2> QED
    BY <1>4, <2>1, <2>2, <2>3, IdleTyped DEF InstallerKilled, End
<1>5. CASE HostRestarts
  <2>1. SqlTypeOK'
    BY <1>5, KilledTyped DEF HostRestarts, CutOff
  <2>2. config' \in Configs /\ venv' \in [Releases -> {"none", "partial", "complete"}]
    BY <1>5, CutOffTyped DEF HostRestarts
  <2>3. config'.unit \in Holders /\ config'.site \in Holders
    BY <2>2 DEF Configs
  <2>4. unit' \in Holders /\ site' \in Holders /\ running' \in Holders
    BY <1>5, <2>3 DEF HostRestarts, Holders
  <2>5. /\ UNCHANGED <<prepared, current, enabled, schema, before, deployed, ops>>
        /\ faults' \in 0 .. MaxFaults /\ op' = Idle /\ last' = "stopped"
    BY <1>5 DEF HostRestarts
  <2> QED
    BY <2>1, <2>2, <2>4, <2>5, IdleTyped
<1>6. CASE ServiceCrashes
  <2>1. SqlTypeOK'
    BY <1>6, SqlUntouched DEF ServiceCrashes
  <2> QED
    BY <1>6, <2>1 DEF ServiceCrashes, Holders
<1>7. CASE UNCHANGED vars
  <2>1. SqlTypeOK'
    BY <1>7, SqlUntouched DEF vars
  <2> QED
    BY <1>7, <2>1 DEF vars
<1> QED
  BY <1>1, <1>2, <1>3, <1>4, <1>5, <1>6, <1>7 DEF Next

-----------------------------------------------------------------------------
(* Releases and the schema.                                                *)

\* Only a bootstrap changes the schema, and it installs the migrations of its
\* release, which extend what was recorded.
LEMMA SchemaGrows ==
  ASSUME DeploymentInv, [Next]_vars
  PROVE  /\ schema' \in Seq(Nat) /\ IsPrefix(schema, schema')
         /\ schema' = schema \/ (At("bootstrap") /\ schema' = Migrations[op.target])
<1>1. schema \in Seq(Nat)
  BY DEF DeploymentInv, DeploymentTypeOK
<1>2. CASE Bootstrap /\ ApplyMigrations(op.target)
  <2> DEFINE m == Migrations[op.target]
  <2>1. m \in Seq(Nat)
    BY <1>2, MigrationsAssumption DEF Bootstrap, At, DeploymentInv
  <2>2. IsPrefix(schema, m) /\ schema' = schema \o SubSeq(m, Len(schema) + 1, Len(m))
    BY <1>2 DEF ApplyMigrations, HistoryIsLocalPrefix
  <2>3. schema' = m
    BY <1>1, <2>1, <2>2, Completed
  <2> QED
    BY <1>2, <2>1, <2>2, <2>3 DEF Bootstrap
<1>3. CASE ~(Bootstrap /\ ApplyMigrations(op.target))
  <2>1. schema' = schema
    BY <1>3, Zenon DEF Next, InstallerStep, PrepareRelease, RollbackTo, InstallConfiguration, BuildVenv,
       PreactivationTests, Bootstrap, TestSqlLogin, SetupSqlLogin, RunScript, ScriptRuns, SwitchCurrent,
       DaemonReload, RestartService, WaitUntilReady, ReloadNginx, RestoreLink, RestoreFiles,
       RestoreReload, RestoreService, InstallerKilled, HostRestarts, ServiceCrashes, vars
  <2> QED
    BY <1>1, <2>1, PrefixReflexive
<1> QED
  BY <1>2, <1>3

\* The control of an operation: it goes on with the release and the kind it
\* began with, a deploy comes to the test and the set-up of the login from its
\* bootstrap only, and a release counts as deployed when its deploy switches.
LEMMA Control ==
  ASSUME DeploymentInv, [Next]_vars
  PROVE  \/ (op' = op \/ op' = Idle) /\ deployed' = deployed
         \/ op'.step = "install" /\ op'.target \in Releases /\ deployed' = deployed
         \/ /\ op.step # "idle" /\ op'.target = op.target /\ op'.kind = op.kind
            /\ \/ op'.step \notin {"isolated", "login", "switch"}
               \/ op.kind # "deploy"
               \/ op.step \in {"isolated", "login"}
               \/ schema' = Migrations[op.target]
            /\ \/ deployed' = deployed
               \/ op.step = "switch" /\ op.kind = "deploy" /\ deployed' = deployed \cup {op.target}
<1> USE DEF ghosts, At
<1>t. DeploymentTypeOK /\ op \in Operations /\ (op.step # "idle" => op.target \in Releases)
  BY DEF DeploymentInv, DeploymentTypeOK
<1>0. ASSUME NEW s \in Steps, Go(s)
      PROVE  op'.step = s /\ op'.kind = op.kind /\ op'.target = op.target
  BY <1>0, <1>t, Moved
<1> DEFINE Known == {"venv", "switch", "tests", "bootstrap", "isolated", "login", "reload", "restart",
                     "ready", "nginx", "restoreLink", "restoreFiles", "restoreReload", "restoreService"}
<1>k. Known \subseteq Steps
  BY DEF Steps
<1>1. ASSUME NEW r \in Releases, PrepareRelease(r) \/ RollbackTo(r)
      PROVE  /\ op' = Idle \/ (op'.step = "install" /\ op'.target \in Releases)
             /\ deployed' = deployed
  <2>1. deployed' = deployed
    BY <1>1 DEF PrepareRelease, RollbackTo
  <2>2. op' = Idle \/ \E kind \in {"deploy", "rollback"} : Begin(kind, r)
    BY <1>1 DEF PrepareRelease, RollbackTo, End
  <2> QED
    BY <2>1, <2>2, <1>t, BeginTyped
<1>2. CASE InstallConfiguration
  BY <1>2, <1>0, <1>k DEF InstallConfiguration, Fail
<1>3. CASE BuildVenv \/ PreactivationTests
  BY <1>3, <1>0, <1>k DEF BuildVenv, PreactivationTests, Fail
<1>4. CASE Bootstrap
  <2>1. deployed' = deployed /\ op.step # "idle"
    BY <1>4 DEF Bootstrap
  <2>2. CASE Fail
    BY <2>1, <2>2, <1>0, <1>k DEF Fail
  <2>3. CASE ApplyMigrations(op.target) /\ Go("isolated")
    <3> DEFINE m == Migrations[op.target]
    <3>1. m \in Seq(Nat)
      BY <2>1, <1>t, MigrationsAssumption
    <3>2. schema' = m
      BY <2>3, <3>1, <1>t, Completed DEF ApplyMigrations, HistoryIsLocalPrefix, DeploymentTypeOK
    <3> QED
      BY <2>1, <2>3, <3>2, <1>0, <1>k
  <2> QED
    BY <1>4, <2>2, <2>3 DEF Bootstrap
<1>5. CASE TestSqlLogin \/ SetupSqlLogin
  BY <1>5, <1>0, <1>k DEF TestSqlLogin, SetupSqlLogin, RunScript, Fail
<1>6. CASE SwitchCurrent
  <2>1. CASE Fail /\ UNCHANGED deployed
    BY <1>6, <2>1, <1>0, <1>k DEF SwitchCurrent, Fail
  <2>2. CASE op' = [op EXCEPT !.previous = current, !.switched = TRUE, !.step = "reload"]
    <3>1. op'.step = "reload" /\ op'.target = op.target /\ op'.kind = op.kind
      BY <2>2, <1>t DEF Operations
    <3> QED
      BY <1>6, <3>1, <1>0, <1>k DEF SwitchCurrent, Fail
  <2> QED
    BY <1>6, <2>1, <2>2 DEF SwitchCurrent
<1>7. CASE DaemonReload \/ RestartService \/ WaitUntilReady
  BY <1>7, <1>0, <1>k DEF DaemonReload, RestartService, WaitUntilReady, Fail
<1>8. CASE ReloadNginx
  BY <1>8, <1>0, <1>k DEF ReloadNginx, Fail, End
<1>9. CASE RestoreLink \/ RestoreFiles \/ RestoreReload
  BY <1>9, <1>0, <1>k DEF RestoreLink, RestoreFiles, RestoreReload, Break, End
<1>10. CASE RestoreService \/ InstallerKilled \/ HostRestarts
  BY <1>10 DEF RestoreService, InstallerKilled, HostRestarts, Break, End
<1>11. CASE ScriptRuns \/ ServiceCrashes \/ UNCHANGED vars
  BY <1>11 DEF ScriptRuns, ServiceCrashes, vars
<1> QED
  BY <1>1, <1>2, <1>3, <1>4, <1>5, <1>6, <1>7, <1>8, <1>9, <1>10, <1>11 DEF Next, InstallerStep

\* The invariant of the migrations is inductive.
LEMMA DeploymentStep ==
  ASSUME DeploymentInv, [Next]_vars PROVE DeploymentInv'
<1>1. DeploymentTypeOK'
  BY NextTyped DEF DeploymentInv
<1>2. op'.step # "idle" => op'.target \in Releases
  BY Control, IdleTyped DEF DeploymentInv
<1>3. ASSUME NEW r \in Releases, IsPrefix(Migrations[r], schema)
      PROVE  IsPrefix(Migrations[r], schema')
  <2>1. Migrations[r] \in Seq(Nat) /\ schema \in Seq(Nat)
    BY MigrationsAssumption DEF DeploymentInv, DeploymentTypeOK
  <2> QED
    BY <1>3, <2>1, SchemaGrows, PrefixTransitive
<1>4. ASSUME NEW r \in Releases, schema' = Migrations[r] PROVE IsPrefix(Migrations[r], schema')
  BY <1>4, MigrationsAssumption, PrefixReflexive
<1>5. op'.step \in {"isolated", "login", "switch"} /\ op'.kind = "deploy"
        => IsPrefix(Migrations[op'.target], schema')
  BY <1>2, <1>3, <1>4, Control, IdleTyped DEF DeploymentInv
<1>6. \A r \in deployed' : IsPrefix(Migrations[r], schema')
  <2>1. deployed \subseteq Releases
    BY DEF DeploymentInv, DeploymentTypeOK
  <2> QED
    BY <1>3, <2>1, Control DEF DeploymentInv
<1> QED
  BY <1>1, <1>2, <1>5, <1>6 DEF DeploymentInv

\* Initially no release is deployed and nothing is recorded.
LEMMA DeploymentInit ==
  ASSUME Init PROVE DeploymentInv
<1>1. SqlTypeOK
  <2>1. NoTargets \in [db : {"absent", "unmarked", "marked"}, peer : {"absent", "unmarked", "marked"},
                       login : {"absent", "bare", "restricted"}]
    BY DEF NoTargets
  <2>2. made \in 0 .. Len(Creates)
    BY DEF Init, SqlInit, Creates
  <2> QED
    BY <2>1, <2>2 DEF Init, SqlInit, SqlTypeOK
<1>2. DeploymentTypeOK
  <2>1. NoConfig \in Configs
    BY DEF NoConfig, Configs, Holders
  <2>2. before \in [current : Holders, config : Configs, site : Holders]
    BY <2>1 DEF Init, Holders
  <2>3. 0 \in 0 .. MaxOps /\ 0 \in 0 .. MaxFaults
    BY BoundAssumption
  <2>4. /\ prepared \subseteq Releases /\ venv \in [Releases -> {"none", "partial", "complete"}]
        /\ deployed \subseteq Releases /\ schema \in Seq(Nat)
        /\ current \in Holders /\ unit \in Holders /\ site \in Holders /\ running \in Holders
    BY DEF Init, Holders
  <2> QED
    BY <1>1, <2>1, <2>2, <2>3, <2>4, IdleTyped DEF Init, DeploymentTypeOK
<1> QED
  BY <1>2, IdleTyped DEF Init, DeploymentInv

\* In every behaviour of the installer an operation has its release, a deploy
\* past its bootstrap finds its migrations in the schema, and so does every
\* release that was deployed.
THEOREM DeploymentHolds == Spec => []DeploymentInv
<1>1. Init => DeploymentInv
  BY DeploymentInit
<1>2. DeploymentInv /\ [Next]_vars => DeploymentInv'
  BY DeploymentStep
<1> QED
  BY <1>1, <1>2, PTL DEF Spec

\* Failed deploys, rollbacks, kills and restarts never leave a release that was
\* deployed, and may be rolled back to, without its migrations in the schema,
\* whatever releases there are and however their migrations branch
\* (_verify_history, apply_migrations, SwitchCurrent after Bootstrap).
THEOREM DeployedReleasesFit == Spec => []DeployedReleaseFitsSchema
<1>1. DeploymentInv => DeployedReleaseFitsSchema
  BY DEF DeploymentInv, DeployedReleaseFitsSchema
<1> QED
  BY <1>1, DeploymentHolds, PTL

-----------------------------------------------------------------------------
(* The production login.                                                   *)

\* What the inspection of the principals tells about them.
LEMMA Inspected ==
  ASSUME SqlTypeOK
  PROVE  /\ InspectState = "ABSENT" => login = "absent" /\ user = "NONE"
         /\ InspectState = "UNMAPPED" => login = "restricted" /\ user = "NONE"
BY DEF SqlTypeOK, InspectState

\* Only the set-up script and the bootstrap touch the principals.
LEMMA PrincipalsTouched ==
  ASSUME [Next]_vars
  PROVE  \/ login' = login /\ user' = user /\ foreign' = foreign
         \/ login' = login /\ user = "missing" /\ user' = "NONE" /\ foreign' = foreign
         \/ MapProductionUser \/ CreateProductionLogin
<1> USE DEF sqlVars, principalVars, testVars
<1>1. CASE ScriptStep
  BY <1>1 DEF ScriptStep, SetupInspect, SetupCredential, SetupVerify, AuthenticateLogin, SetupFinal,
     CreateTestTarget, RunProbes, CleanupOwnedTargets, SetupMoves, SetupFails
<1>2. CASE Bootstrap
  BY <1>2 DEF Bootstrap, ApplyMigrations
<1>3. CASE TestSqlLogin \/ SetupSqlLogin
  BY <1>3 DEF TestSqlLogin, SetupSqlLogin, RunScript, StartScript
<1>4. CASE InstallerKilled \/ HostRestarts
  BY <1>4 DEF InstallerKilled, HostRestarts
<1>5. CASE UNCHANGED sqlVars
  BY <1>5
<1>6. ScriptStep \/ Bootstrap \/ TestSqlLogin \/ SetupSqlLogin \/ InstallerKilled \/ HostRestarts
      \/ UNCHANGED sqlVars
  BY Zenon DEF Next, InstallerStep, ScriptRuns, PrepareRelease, RollbackTo, InstallConfiguration, BuildVenv,
     PreactivationTests, SwitchCurrent, DaemonReload, RestartService, WaitUntilReady, ReloadNginx,
     RestoreLink, RestoreFiles, RestoreReload, RestoreService, ServiceCrashes, vars
<1> QED
  BY <1>1, <1>2, <1>3, <1>4, <1>5, <1>6

\* A set-up that stops anywhere, is repeated, or finds the login of an earlier
\* attempt binds the database user only to a login with all its denies that
\* reaches no other database (create_production_login, map_production_user).
THEOREM MappedLoginHolds == Spec => []MappedLoginIsRestricted
<1>1. Init => MappedLoginIsRestricted
  BY DEF Init, SqlInit, MappedLoginIsRestricted
<1>2. ASSUME DeploymentInv, MappedLoginIsRestricted, [Next]_vars PROVE MappedLoginIsRestricted'
  <2>1. SqlTypeOK
    BY <1>2 DEF DeploymentInv, DeploymentTypeOK
  <2>2. CASE MapProductionUser
    BY <1>2, <2>1, <2>2, Inspected DEF MapProductionUser, NoEffectiveCrossDatabaseAccess,
       OnlyExpectedDenials, MappedLoginIsRestricted, SetupFails, principalVars
  <2>3. CASE CreateProductionLogin
    BY <2>1, <2>3, Inspected DEF CreateProductionLogin, MappedLoginIsRestricted
  <2> QED
    BY <1>2, <2>2, <2>3, PrincipalsTouched DEF MappedLoginIsRestricted
<1> QED
  BY <1>1, <1>2, DeploymentHolds, PTL DEF Spec

-----------------------------------------------------------------------------
(* Restoring.                                                              *)

Undone == {"restoreFiles", "restoreReload", "restoreService"}

\* What each step of an operation, and of its restore, knows of the managed
\* state at its start: the files as they were are saved, the served site is
\* untouched, and the link is untouched or remembered until it is put back;
\* then the files, then the loaded unit are as they were.
RestoreInv ==
  /\ op.step = "idle" => op = Idle
  /\ op.step # "idle" =>
       /\ before.config = op.saved /\ before.site = site
       /\ op.step \notin Undone => before.current = (IF op.switched THEN op.previous ELSE current)
       /\ op.step \in Undone => before.current = current
       /\ op.step \in {"restoreReload", "restoreService"} => config = op.saved
       /\ op.step = "restoreService" => unit = config.unit
       /\ op.step \in {"install", "venv", "tests", "bootstrap", "isolated", "login", "switch"}
            => ~op.switched
  /\ FailedOperationRestores

\* Every step keeps what the restore relies on.
LEMMA RestoreStep ==
  ASSUME DeploymentInv, RestoreInv, [Next]_vars PROVE RestoreInv'
<1>t. DeploymentTypeOK /\ op \in Operations /\ config \in Configs
  BY DEF DeploymentInv, DeploymentTypeOK
<1> USE DEF RestoreInv, At, hostVars, ghosts, Undone
<1>0. ASSUME NEW s \in Steps, Go(s)
      PROVE  /\ op'.step = s /\ op'.saved = op.saved /\ op'.previous = op.previous
             /\ op'.switched = op.switched
  BY <1>0, <1>t, Moved
<1> DEFINE Known == {"venv", "switch", "tests", "bootstrap", "isolated", "login", "reload", "restart",
                     "ready", "nginx", "restoreLink", "restoreFiles", "restoreReload", "restoreService"}
<1>k. Known \subseteq Steps
  BY DEF Steps
<1>i. ASSUME op' = Idle, last' # "failed" PROVE RestoreInv'
  BY <1>i, IdleTyped DEF FailedOperationRestores
<1>n. ASSUME op'.step # "idle" PROVE FailedOperationRestores'
  BY <1>n, IdleTyped DEF FailedOperationRestores
<1>1. ASSUME NEW r \in Releases, PrepareRelease(r) \/ RollbackTo(r) PROVE RestoreInv'
  <2>1. CASE op' = Idle /\ last' = "refused"
    BY <2>1, <1>i
  <2>2. ASSUME NEW kind \in {"deploy", "rollback"}, Begin(kind, r), current' = current, site' = site
        PROVE  RestoreInv'
    <3>1. op'.step = "install" /\ op'.saved = config /\ op'.switched = FALSE
      BY <2>2, IdleTyped DEF Begin, Idle, Operations
    <3>2. before' = [current |-> current, config |-> config, site |-> site]
      BY <2>2 DEF Begin
    <3> QED
      BY <2>2, <3>1, <3>2, <1>n
  <2>3. CASE PrepareRelease(r)
    BY <2>1, <2>2, <2>3 DEF PrepareRelease, End
  <2>4. CASE RollbackTo(r)
    BY <2>2, <2>4 DEF RollbackTo
  <2> QED
    BY <1>1, <2>3, <2>4
<1>2. CASE InstallConfiguration
  BY <1>2, <1>0, <1>k, <1>n DEF InstallConfiguration, Fail
<1>3. CASE BuildVenv \/ PreactivationTests
  BY <1>3, <1>0, <1>k, <1>n DEF BuildVenv, PreactivationTests, Fail
<1>4. CASE Bootstrap
  BY <1>4, <1>0, <1>k, <1>n DEF Bootstrap, Fail
<1>5. CASE TestSqlLogin \/ SetupSqlLogin
  BY <1>5, <1>0, <1>k, <1>n DEF TestSqlLogin, SetupSqlLogin, RunScript, Fail
<1>6. CASE SwitchCurrent
  <2>1. CASE Fail /\ UNCHANGED current
    BY <1>6, <2>1, <1>0, <1>k, <1>n DEF SwitchCurrent, Fail
  <2>2. CASE op' = [op EXCEPT !.previous = current, !.switched = TRUE, !.step = "reload"]
    <3>1. op'.step = "reload" /\ op'.saved = op.saved /\ op'.previous = current /\ op'.switched = TRUE
      BY <2>2, <1>t DEF Operations
    <3> QED
      BY <1>6, <3>1, <1>n DEF SwitchCurrent
  <2> QED
    BY <1>6, <2>1, <2>2 DEF SwitchCurrent
<1>7. CASE DaemonReload \/ RestartService \/ WaitUntilReady
  BY <1>7, <1>0, <1>k, <1>n DEF DaemonReload, RestartService, WaitUntilReady, Fail
<1>8. CASE ReloadNginx
  <2>1. CASE End("ok")
    BY <2>1, <1>i DEF End
  <2>2. CASE Fail /\ UNCHANGED site
    BY <1>8, <2>2, <1>0, <1>k, <1>n DEF ReloadNginx, Fail
  <2> QED
    BY <1>8, <2>1, <2>2 DEF ReloadNginx
<1>9. CASE RestoreLink
  BY <1>9, <1>0, <1>k, <1>n, <1>i DEF RestoreLink, RestoredLink, Break, End
<1>10. CASE RestoreFiles
  BY <1>10, <1>0, <1>k, <1>n, <1>i DEF RestoreFiles, Break, End
<1>11. CASE RestoreReload
  BY <1>11, <1>0, <1>k, <1>n, <1>i DEF RestoreReload, Break, End
<1>12. CASE RestoreService
  <2>1. CASE End("broken")
    BY <2>1, <1>i DEF End
  <2>2. CASE End("failed")
    <3>1. before \in [current : Holders, config : Configs, site : Holders]
      BY <1>t DEF DeploymentTypeOK
    <3>2. before = [current |-> current, config |-> config, site |-> site] /\ unit = config.unit
      BY <1>12, <3>1 DEF RestoreService
    <3>3. UNCHANGED <<current, config, site, unit, before>> /\ op' = Idle
      BY <1>12, <2>2 DEF RestoreService, End
    <3> QED
      BY <3>2, <3>3, IdleTyped DEF FailedOperationRestores
  <2> QED
    BY <1>12, <2>1, <2>2 DEF RestoreService, Break
<1>13. CASE InstallerKilled \/ HostRestarts
  BY <1>13, <1>i DEF InstallerKilled, HostRestarts, End
<1>14. CASE ScriptRuns \/ ServiceCrashes \/ UNCHANGED vars
  BY <1>14 DEF ScriptRuns, ServiceCrashes, vars, FailedOperationRestores
<1> QED
  BY <1>1, <1>2, <1>3, <1>4, <1>5, <1>6, <1>7, <1>8, <1>9, <1>10, <1>11, <1>12, <1>13, <1>14
     DEF Next, InstallerStep

\* Whichever step of a deploy or a rollback fails, a restore that runs to its
\* end puts back the link, the managed files, the loaded unit and the served
\* site as they were when the operation began (deploy, rollback, _restore).
THEOREM FailedOperationsRestore == Spec => []FailedOperationRestores
<1>1. Init => RestoreInv
  BY IdleTyped DEF Init, RestoreInv, FailedOperationRestores
<1>2. DeploymentInv /\ RestoreInv /\ [Next]_vars => RestoreInv'
  BY RestoreStep
<1>3. RestoreInv => FailedOperationRestores
  BY DEF RestoreInv
<1> QED
  BY <1>1, <1>2, <1>3, DeploymentHolds, PTL DEF Spec

-----------------------------------------------------------------------------
(* The environment in service.                                             *)

\* The steps at which the process in service runs from the current link.
Settled == {"idle", "install", "venv", "tests", "bootstrap", "isolated", "login", "switch",
            "ready", "nginx"}

\* As long as nothing was killed, restarted or left half restored, the process
\* runs from the current link except between the switch and the restart.
VenvInv ==
  faults = 0 => /\ op.step \in Settled => running \in {None, current}
                /\ running # None => venv[running] = "complete"

\* Every step keeps the environment in service.
LEMMA VenvStep ==
  ASSUME DeploymentInv, VenvInv, [Next]_vars PROVE VenvInv'
<1>t. /\ DeploymentTypeOK /\ op \in Operations /\ faults \in Nat
      /\ op.step # "idle" => op.target \in Releases
  BY BoundAssumption DEF DeploymentInv, DeploymentTypeOK
<1>v. venv \in [Releases -> {"none", "partial", "complete"}] /\ running \in Releases \cup {None}
  BY <1>t DEF DeploymentTypeOK, Holders
<1> USE DEF VenvInv, At, hostVars, ghosts, Settled
<1>0. ASSUME NEW s \in Steps, Go(s) PROVE op'.step = s
  BY <1>0, <1>t, Moved
<1> DEFINE Known == {"venv", "switch", "tests", "bootstrap", "isolated", "login", "reload", "restart",
                     "ready", "nginx", "restoreLink", "restoreFiles", "restoreReload", "restoreService"}
<1>k. Known \subseteq Steps
  BY DEF Steps
<1>f. ASSUME faults' = faults + 1 PROVE VenvInv'
  BY <1>f, <1>t
<1>1. ASSUME NEW r \in Releases, PrepareRelease(r) \/ RollbackTo(r) PROVE VenvInv'
  BY <1>1 DEF PrepareRelease, RollbackTo
<1>2. CASE InstallConfiguration
  BY <1>2, <1>0, <1>k DEF InstallConfiguration, Fail
<1>3. CASE BuildVenv
  <2>1. op'.step \in {"tests", "restoreLink"} /\ UNCHANGED <<current, running, faults>>
    BY <1>3, <1>0, <1>k DEF BuildVenv, Fail
  <2>2. CASE venv' = venv
    BY <1>3, <2>1, <2>2 DEF BuildVenv
  <2>3. ASSUME NEW v, venv' = [venv EXCEPT ![op.target] = v], Rebuildable(op.target), faults = 0,
               running # None
        PROVE  venv'[running] = "complete"
    <3>1. running = current /\ venv[running] = "complete"
      BY <1>3, <2>3 DEF BuildVenv
    <3>2. running # op.target
      BY <2>3, <3>1 DEF Rebuildable
    <3> QED
      BY <1>v, <2>3, <3>1, <3>2
  <2>4. venv' = venv \/ (Rebuildable(op.target) /\ \E v \in {"complete", "none"} :
                                                    venv' = [venv EXCEPT ![op.target] = v])
    BY <1>3 DEF BuildVenv
  <2> QED
    BY <1>3, <2>1, <2>2, <2>3, <2>4 DEF BuildVenv
<1>4. CASE PreactivationTests \/ WaitUntilReady
  BY <1>4, <1>0, <1>k DEF PreactivationTests, WaitUntilReady, Fail
<1>5. CASE Bootstrap
  BY <1>5, <1>0, <1>k DEF Bootstrap, Fail
<1>6. CASE TestSqlLogin \/ SetupSqlLogin
  BY <1>6, <1>0, <1>k DEF TestSqlLogin, SetupSqlLogin, RunScript, Fail
<1>7. CASE SwitchCurrent
  <2>1. op'.step \in {"reload", "restoreLink"}
    BY <1>7, <1>0, <1>k, <1>t DEF SwitchCurrent, Fail, Operations
  <2> QED
    BY <1>7, <2>1 DEF SwitchCurrent
<1>8. CASE DaemonReload \/ RestartService
  BY <1>8, <1>0, <1>k DEF DaemonReload, RestartService, Startable, Fail
<1>9. CASE ReloadNginx
  BY <1>9, <1>0, <1>k DEF ReloadNginx, Fail, End
<1>10. CASE RestoreLink \/ RestoreFiles \/ RestoreReload
  BY <1>10, <1>0, <1>k, <1>f DEF RestoreLink, RestoreFiles, RestoreReload, Break
<1>11. CASE RestoreService
  BY <1>11, <1>f DEF RestoreService, Startable, Break, End
<1>12. CASE InstallerKilled \/ HostRestarts \/ ServiceCrashes
  BY <1>12, <1>f DEF InstallerKilled, HostRestarts, ServiceCrashes
<1>13. CASE ScriptRuns \/ UNCHANGED vars
  BY <1>13 DEF ScriptRuns, vars
<1> QED
  BY <1>1, <1>2, <1>3, <1>4, <1>5, <1>6, <1>7, <1>8, <1>9, <1>10, <1>11, <1>12, <1>13
     DEF Next, InstallerStep

\* However many releases are deployed, redeployed and rolled back, failing at
\* any step, no rebuild touches the environment that the service runs from, as
\* long as nothing is stopped from outside (faults = 0)
\* (_build_venv refuses the current release; _restore restarts the service).
THEOREM RunningVenvStays == Spec => []RunningVenvIntact
<1>1. Init => VenvInv
  BY DEF Init, VenvInv
<1>2. DeploymentInv /\ VenvInv /\ [Next]_vars => VenvInv'
  BY VenvStep
<1>3. VenvInv => RunningVenvIntact
  BY DEF VenvInv, RunningVenvIntact
<1> QED
  BY <1>1, <1>2, <1>3, DeploymentHolds, PTL DEF Spec

-----------------------------------------------------------------------------
(* Disposable targets.                                                     *)

\* The targets after the first n creations.
Upto(n, k, v) == IF k <= n THEN v ELSE "absent"
AfterCreating(n) ==
  [s \in Sets |-> IF s = "adverse"
    THEN [db |-> Upto(n, 1, "marked"), peer |-> Upto(n, 2, "marked"), login |-> Upto(n, 3, "restricted")]
    ELSE [db |-> Upto(n, 4, "marked"), peer |-> Upto(n, 5, "marked"), login |-> Upto(n, 6, "restricted")]]

\* As long as no call stopped half-way, what is on the server is what the
\* running test has created, each target with its marker or its denies.
TestInv == /\ stale => interrupted
           /\ ~interrupted => targets = AfterCreating(made)

\* Before the first creation there is nothing.
LEMMA NothingCreated ==
  AfterCreating(0) = [s \in Sets |-> NoTargets]
BY DEF AfterCreating, Upto, NoTargets

\* One more creation adds the next target.
LEMMA OneMoreCreated ==
  ASSUME NEW n \in 0 .. 5
  PROVE  LET part == Creates[n + 1][2]
         IN AfterCreating(n + 1)
              = [AfterCreating(n) EXCEPT ![Creates[n + 1][1]][part] =
                   IF part = "login" THEN "restricted" ELSE "marked"]
<1> DEFINE T(a, b, c, d, e, f) == [s \in Sets |-> IF s = "adverse"
                                     THEN [db |-> a, peer |-> b, login |-> c]
                                     ELSE [db |-> d, peer |-> e, login |-> f]]
<1>a. /\ AfterCreating(0) = T("absent", "absent", "absent", "absent", "absent", "absent")
      /\ AfterCreating(1) = T("marked", "absent", "absent", "absent", "absent", "absent")
      /\ AfterCreating(2) = T("marked", "marked", "absent", "absent", "absent", "absent")
      /\ AfterCreating(3) = T("marked", "marked", "restricted", "absent", "absent", "absent")
      /\ AfterCreating(4) = T("marked", "marked", "restricted", "marked", "absent", "absent")
      /\ AfterCreating(5) = T("marked", "marked", "restricted", "marked", "marked", "absent")
      /\ AfterCreating(6) = T("marked", "marked", "restricted", "marked", "marked", "restricted")
  BY DEF AfterCreating, Upto
<1>0. CASE n = 0
  <2>1. n + 1 = 1 /\ Creates[1][1] = "adverse" /\ Creates[1][2] = "db"
    BY <1>0 DEF Creates
  <2>2. AfterCreating(1) = [AfterCreating(0) EXCEPT !["adverse"]["db"] = "marked"]
    BY <1>a DEF Sets
  <2> QED
    BY <1>0, <2>1, <2>2
<1>1. CASE n = 1
  <2>1. n + 1 = 2 /\ Creates[2][1] = "adverse" /\ Creates[2][2] = "peer"
    BY <1>1 DEF Creates
  <2>2. AfterCreating(2) = [AfterCreating(1) EXCEPT !["adverse"]["peer"] = "marked"]
    BY <1>a DEF Sets
  <2> QED
    BY <1>1, <2>1, <2>2
<1>2. CASE n = 2
  <2>1. n + 1 = 3 /\ Creates[3][1] = "adverse" /\ Creates[3][2] = "login"
    BY <1>2 DEF Creates
  <2>2. AfterCreating(3) = [AfterCreating(2) EXCEPT !["adverse"]["login"] = "restricted"]
    BY <1>a DEF Sets
  <2> QED
    BY <1>2, <2>1, <2>2
<1>3. CASE n = 3
  <2>1. n + 1 = 4 /\ Creates[4][1] = "own" /\ Creates[4][2] = "db"
    BY <1>3 DEF Creates
  <2>2. AfterCreating(4) = [AfterCreating(3) EXCEPT !["own"]["db"] = "marked"]
    BY <1>a DEF Sets
  <2> QED
    BY <1>3, <2>1, <2>2
<1>4. CASE n = 4
  <2>1. n + 1 = 5 /\ Creates[5][1] = "own" /\ Creates[5][2] = "peer"
    BY <1>4 DEF Creates
  <2>2. AfterCreating(5) = [AfterCreating(4) EXCEPT !["own"]["peer"] = "marked"]
    BY <1>a DEF Sets
  <2> QED
    BY <1>4, <2>1, <2>2
<1>5. CASE n = 5
  <2>1. n + 1 = 6 /\ Creates[6][1] = "own" /\ Creates[6][2] = "login"
    BY <1>5 DEF Creates
  <2>2. AfterCreating(6) = [AfterCreating(5) EXCEPT !["own"]["login"] = "restricted"]
    BY <1>a DEF Sets
  <2> QED
    BY <1>5, <2>1, <2>2
<1> QED
  BY <1>0, <1>1, <1>2, <1>3, <1>4, <1>5

\* A cleanup that reaches a set with whole targets leaves nothing of it: the
\* login is there only when both markers are.
LEMMA WholeTargetsCleaned ==
  ASSUME NEW n \in 0 .. 6, NEW s \in Sets
  PROVE  CleanedTargets(AfterCreating(n)[s]) = NoTargets
BY DEF AfterCreating, Upto, CleanedTargets, MarkerFallback, NoTargets

\* Every step keeps the account of the targets.
LEMMA TestStep ==
  ASSUME DeploymentInv, TestInv, [Next]_vars PROVE TestInv'
<1>t. made \in 0 .. 6 /\ interrupted \in BOOLEAN /\ stale \in BOOLEAN
  BY DEF DeploymentInv, DeploymentTypeOK, SqlTypeOK, Creates
<1> USE DEF TestInv
<1>1. CASE CreateTestTarget
  <2>1. CASE UNCHANGED <<targets, made, interrupted, stale>>
    BY <2>1
  <2>2. CASE interrupted' = TRUE
    BY <2>2
  <2>3. CASE made' = made + 1 /\ targets' = [targets EXCEPT ![Creates[made + 1][1]][Creates[made + 1][2]] =
               IF Creates[made + 1][2] = "login" THEN "restricted" ELSE "marked"]
             /\ interrupted' = interrupted /\ stale' = stale
    <3>1. made \in 0 .. 5
      BY <1>1, <1>t DEF CreateTestTarget, Creates
    <3> QED
      BY <2>3, <3>1, OneMoreCreated
  <2> QED
    BY <1>1, <2>1, <2>2, <2>3 DEF CreateTestTarget
<1>2. CASE CleanupOwnedTargets
  <2>1. targets' = AfterCreating(0) /\ made' = 0
    BY <1>2, NothingCreated DEF CleanupOwnedTargets
  <2>2. ASSUME ~interrupted' PROVE ~stale'
    <3>1. PICK reached \in SUBSET Sets :
            LET after == [s \in Sets |-> IF s \in reached THEN CleanedTargets(targets[s]) ELSE targets[s]]
                left == \E s \in Sets : after[s] # NoTargets
            IN stale' = (stale \/ left) /\ interrupted' = (interrupted \/ reached # Sets)
      BY <1>2 DEF CleanupOwnedTargets
    <3>2. reached = Sets /\ ~interrupted /\ ~stale
      BY <2>2, <3>1
    <3>3. \A s \in Sets : CleanedTargets(targets[s]) = NoTargets
      BY <1>t, <3>2, WholeTargetsCleaned
    <3> QED
      BY <3>1, <3>2, <3>3
  <2> QED
    BY <2>1, <2>2
<1>3. CASE ScriptKilled
  BY <1>3, NothingCreated DEF ScriptKilled
<1>4. CASE UNCHANGED testVars
  BY <1>4 DEF testVars
<1>5. CreateTestTarget \/ CleanupOwnedTargets \/ ScriptKilled \/ UNCHANGED testVars
  <2> USE DEF sqlVars
  <2>1. CASE ScriptStep
    BY <2>1 DEF ScriptStep, SetupInspect, SetupCredential, CreateProductionLogin, SetupVerify,
       MapProductionUser, AuthenticateLogin, SetupFinal, RunProbes, SetupMoves, SetupFails
  <2>2. CASE Bootstrap \/ TestSqlLogin \/ SetupSqlLogin
    BY <2>2 DEF Bootstrap, TestSqlLogin, SetupSqlLogin, RunScript, StartScript
  <2>3. CASE InstallerKilled \/ HostRestarts
    BY <2>3 DEF InstallerKilled, HostRestarts, CutOff
  <2>4. CASE UNCHANGED sqlVars
    BY <2>4
  <2>5. ScriptStep \/ Bootstrap \/ TestSqlLogin \/ SetupSqlLogin \/ InstallerKilled \/ HostRestarts
        \/ UNCHANGED sqlVars
    BY Zenon DEF Next, InstallerStep, ScriptRuns, PrepareRelease, RollbackTo, InstallConfiguration,
       BuildVenv, PreactivationTests, SwitchCurrent, DaemonReload, RestartService, WaitUntilReady,
       ReloadNginx, RestoreLink, RestoreFiles, RestoreReload, RestoreService, ServiceCrashes, vars
  <2> QED
    BY <2>1, <2>2, <2>3, <2>4, <2>5
<1> QED
  BY <1>1, <1>2, <1>3, <1>4, <1>5

\* A permission test that fails, at whichever target or probe, leaves no
\* disposable database or login behind unless one of its calls stopped half-way
\* or could not reach the server (cleanup_test_targets, the script's EXIT trap).
THEOREM LeftoversExplained == Spec => []LeftoversOnlyAfterInterruption
<1>1. Init => TestInv
  BY NothingCreated DEF Init, SqlInit, TestInv
<1>2. DeploymentInv /\ TestInv /\ [Next]_vars => TestInv'
  BY TestStep
<1>3. TestInv => LeftoversOnlyAfterInterruption
  BY DEF TestInv, LeftoversOnlyAfterInterruption
<1> QED
  BY <1>1, <1>2, <1>3, DeploymentHolds, PTL DEF Spec
=============================================================================
