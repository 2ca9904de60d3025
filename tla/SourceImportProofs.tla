------------------------- MODULE SourceImportProofs -------------------------
(***************************************************************************)
(* Proofs about the source import, for every register, set of paths and    *)
(* contents and every bound on runs, edits, crashes and lost answers.      *)
(***************************************************************************)
EXTENDS SourceImport, FiniteSetTheorems, TLAPS

-----------------------------------------------------------------------------
(* Numbered rows.                                                          *)

\* Numbered rows are counted by a number, and none has the next one.
LEMMA NextNumber ==
    ASSUME NEW S, Numbered(S)
    PROVE  /\ Cardinality(S) \in Nat
           /\ Cardinality(S) + 1 \in Nat
           /\ \A y \in S : y.id # Cardinality(S) + 1
BY FS_CardinalityType DEF Numbered

\* A row that takes the next number keeps the rows numbered.
LEMMA NumberedAdd ==
    ASSUME NEW S, Numbered(S), NEW x, x.id = Cardinality(S) + 1
    PROVE  Numbered(S \cup {x})
<1>1. IsFiniteSet(S) /\ Cardinality(S) \in Nat /\ x \notin S
  BY NextNumber DEF Numbered
<1>2. IsFiniteSet(S \cup {x}) /\ Cardinality(S \cup {x}) = Cardinality(S) + 1
  BY <1>1, FS_AddElement
<1>3. \A y \in S : y.id \in 1..Cardinality(S)
  BY DEF Numbered
<1>4. \A y \in S \cup {x} : y.id \in 1..Cardinality(S \cup {x})
  BY <1>1, <1>2, <1>3
<1>5. \A y \in S : y.id # x.id
  BY NextNumber
<1> QED
  BY <1>2, <1>4, <1>5 DEF Numbered

\* Rewriting rows in place keeps them numbered.
LEMMA NumberedInPlace ==
    ASSUME NEW S, Numbered(S), NEW T, NEW f \in [S -> T],
           \A y \in T : \E x \in S : y = f[x],
           \A x \in S : f[x].id = x.id
    PROVE  Numbered(T) /\ Cardinality(T) = Cardinality(S)
<1>1. \A x, y \in S : x.id = y.id => x = y
  BY DEF Numbered
<1>2. \A x, y \in S : f[x] = f[y] => x = y
  BY <1>1
<1>3. f \in Bijection(S, T)
  BY <1>2 DEF Bijection, Injection, Surjection, IsInjective
<1>4. IsFiniteSet(T) /\ Cardinality(T) = Cardinality(S)
  BY <1>3, FS_Bijection DEF Numbered, ExistsBijection
<1>5. \A y \in T : y.id \in 1..Cardinality(T)
  BY <1>4 DEF Numbered
<1> QED
  BY <1>1, <1>4, <1>5 DEF Numbered

\* RunStatus rewrites the rows of the runs in place.
LEMMA RunStatusNumbered ==
    ASSUME db \in Tables, Numbered(db.runs), NEW run, NEW status \in {"COMPLETED", "FAILED"}
    PROVE  /\ Numbered(RunStatus(run, status))
           /\ Cardinality(RunStatus(run, status)) = Cardinality(db.runs)
           /\ RunStatus(run, status) \subseteq
                 [id : Nat, plan : Plans, status : {"RUNNING", "COMPLETED", "FAILED"}]
           /\ \A y \in RunStatus(run, status) : \E x \in db.runs :
                 /\ y.id = x.id /\ y.plan = x.plan
                 /\ y.status = x.status \/ (y.id = run /\ y.status = status)
<1> DEFINE Runs == [id : Nat, plan : Plans, status : {"RUNNING", "COMPLETED", "FAILED"}]
           f == [r \in db.runs |-> IF r.id = run THEN [r EXCEPT !.status = status] ELSE r]
           T == RunStatus(run, status)
<1>1. db.runs \subseteq Runs
  BY DEF Tables
<1>2. \A x \in db.runs : /\ f[x] \in Runs /\ f[x].id = x.id /\ f[x].plan = x.plan
                         /\ f[x].status = x.status \/ (f[x].id = run /\ f[x].status = status)
  BY <1>1
<1>3. T = {f[r] : r \in db.runs}
  BY DEF RunStatus
<1>4. f \in [db.runs -> T]
  BY <1>3
<1>5. \A y \in T : \E x \in db.runs : y = f[x]
  BY <1>3
<1> HIDE DEF f
<1>6. Numbered(T) /\ Cardinality(T) = Cardinality(db.runs)
  BY <1>2, <1>4, <1>5, NumberedInPlace
<1> QED
  BY <1>2, <1>5, <1>6

-----------------------------------------------------------------------------
(* Tables.                                                                 *)

\* A file stays accounted for when rows are added.
LEMMA AccountedGrows ==
    ASSUME NEW t, NEW u, NEW run, NEW plan, NEW l,
           t.occurrences \subseteq u.occurrences, t.versions \subseteq u.versions,
           Accounted(t, run, plan, l)
    PROVE  Accounted(u, run, plan, l)
BY DEF Accounted

\* A running process is one of the two records.
LEMMA ProcessKinds ==
    ASSUME ImportTypeOK
    PROVE  /\ process.step \in {"none", "between", "importing"}
           /\ process.step = "none" <=> process = NoProcess
           /\ process.step = "between" => process \in Between
           /\ process.step = "importing" => process \in Importing
BY DEF ImportTypeOK, NoProcess, Between, Importing

\* A run whose row changes only its status leaves every other table alone.
LEMMA RunsReplaced ==
    ASSUME NEW t \in Tables, RowsAgree(t), NEW runs, Numbered(runs),
           runs \subseteq [id : Nat, plan : Plans, status : {"RUNNING", "COMPLETED", "FAILED"}]
    PROVE  LET u == [t EXCEPT !.runs = runs] IN
           /\ u \in Tables /\ RowsAgree(u)
           /\ u.runs = runs /\ u.apps = t.apps /\ u.rows = t.rows
           /\ u.versions = t.versions /\ u.occurrences = t.occurrences
<1> DEFINE u == [t EXCEPT !.runs = runs]
<1>1. /\ u \in Tables
      /\ u.runs = runs /\ u.apps = t.apps /\ u.rows = t.rows
      /\ u.versions = t.versions /\ u.occurrences = t.occurrences
  BY DEF Tables
<1> HIDE DEF u
<1>2. RowsAgree(u)
  BY <1>1 DEF RowsAgree
<1> QED
  BY <1>1, <1>2 DEF u

\* Whatever ends the process between or in a transaction: the connection sees
\* what is committed again, and the run is no longer in progress.
LEMMA Stops ==
    ASSUME ImportInv, process' = NoProcess, work' = db', keys' = keys,
           db' \in Tables, RowsAgree(db)',
           \A v \in db'.versions : v.key \in 1..keys,
           UNCHANGED environment,
           files' \subseteq files,
           crashes' \in Nat, lost' \subseteq Nat, orphans' \subseteq Nat,
           CompletedRunIsWhole', StoreMatchesVersions'
    PROVE  ImportInv'
<1>1. process'.step = "none"
  BY DEF NoProcess
<1>2. ImportTypeOK'
  BY DEF ImportInv, ImportTypeOK, environment, Plan
<1>3. RowsAgree(work)'
  BY DEF RowsAgree
<1>4. TransactionAdds'
  BY <1>1 DEF TransactionAdds
<1>5. RunIsOnTrack'
  BY <1>1 DEF RunIsOnTrack
<1> QED
  BY <1>2, <1>3, <1>4, <1>5 DEF ImportInv

-----------------------------------------------------------------------------
(* The run.                                                                *)

\* Every state of the importer before it ran.
LEMMA ImportInitially ==
    ASSUME ImportInit
    PROVE  ImportInv
<1>1. /\ NoRows.runs = {} /\ NoRows.apps = {} /\ NoRows.rows = {}
      /\ NoRows.versions = {} /\ NoRows.occurrences = {}
      /\ NoRows \in Tables
  BY DEF NoRows, Tables
<1>2. Numbered({})
  BY FS_EmptySet DEF Numbered
<1>3. RowsAgree(NoRows)
  BY <1>1, <1>2 DEF RowsAgree
<1>4. Plan \in Plans
  BY DEF ImportInit, Plan, Plans, Sources
<1>5. process.step = "none"
  BY DEF ImportInit, NoProcess
<1>6. ImportTypeOK
  BY <1>1, <1>4 DEF ImportInit, ImportTypeOK
<1>7. TransactionAdds /\ RunIsOnTrack
  BY <1>1, <1>5 DEF ImportInit, TransactionAdds, RunIsOnTrack
<1>8. CompletedRunIsWhole /\ StoreMatchesVersions
  BY <1>1 DEF ImportInit, CompletedRunIsWhole, StoreMatchesVersions
<1> QED
  BY <1>3, <1>6, <1>7, <1>8 DEF ImportInit, ImportInv

\* A new run has the next number; it has nothing to account for yet.
LEMMA StartKeepsImport ==
    ASSUME ImportInv, StartRun
    PROVE  ImportInv'
<1> DEFINE run == Cardinality(db.runs) + 1
           new == [id |-> run, plan |-> Plan, status |-> "RUNNING"]
           runs == db.runs \cup {new}
<1>1. /\ ImportTypeOK /\ RowsAgree(db) /\ db \in Tables /\ Plan \in Plans
      /\ process = NoProcess /\ process.step = "none"
  BY DEF ImportInv, ImportTypeOK, StartRun, NoProcess
<1>2. /\ db' = [db EXCEPT !.runs = runs] /\ work' = db'
      /\ process' = [step |-> "between", run |-> run, plan |-> Plan,
                     todo |-> Applicants, hashes |-> {}]
      /\ UNCHANGED <<environment, files, keys, faults>>
  BY DEF StartRun
<1>3. run \in Nat /\ \A y \in db.runs : y.id # run
  BY <1>1, NextNumber DEF RowsAgree
<1>4. Numbered(runs)
  BY <1>1, NumberedAdd DEF RowsAgree
<1>5. runs \subseteq [id : Nat, plan : Plans, status : {"RUNNING", "COMPLETED", "FAILED"}]
  BY <1>1, <1>3 DEF Tables
<1>6. /\ db' \in Tables /\ RowsAgree(db)'
      /\ db'.runs = runs /\ db'.versions = db.versions /\ db'.occurrences = db.occurrences
  <2> HIDE DEF runs
  <2> QED
    BY <1>1, <1>2, <1>4, <1>5, RunsReplaced
<1>7. /\ process'.step = "between" /\ process'.plan = Plan /\ process'.run = run
      /\ process'.todo = Applicants /\ process' \in Between
  BY <1>1, <1>2, <1>3 DEF Between
<1>8. Plan' = Plan
  BY <1>2 DEF Plan, environment
<1>9. ImportTypeOK'
  BY <1>1, <1>2, <1>6, <1>7, <1>8 DEF ImportTypeOK, environment, faults
<1>10. work = db
  BY <1>1 DEF ImportInv, TransactionAdds
<1>11. TransactionAdds'
  BY <1>2, <1>6, <1>7, <1>10 DEF ImportInv, TransactionAdds
<1>12. RunIsOnTrack'
  BY <1>3, <1>6, <1>7, <1>8, ImportAssumption DEF RunIsOnTrack
<1>13. CompletedRunIsWhole'
  <2>1. SUFFICES ASSUME NEW r \in db'.runs, r.status = "COMPLETED", NEW l \in Locators,
                        r.plan.source[l] # Absent
                 PROVE  Accounted(db', r.id, r.plan, l)
    BY DEF CompletedRunIsWhole, Accounted
  <2>2. r \in db.runs
    BY <1>6, <2>1
  <2>3. Accounted(db, r.id, r.plan, l)
    BY <2>1, <2>2 DEF ImportInv, CompletedRunIsWhole
  <2> QED
    BY <1>6, <2>3, AccountedGrows
<1>14. StoreMatchesVersions'
  BY <1>1, <1>2, <1>6 DEF ImportInv, StoreMatchesVersions, faults
<1> QED
  BY <1>2, <1>6, <1>9, <1>11, <1>12, <1>13, <1>14 DEF ImportInv, RowsAgree

\* application_for finds the applicant's application if there is one.
LEMMA FoundApplication ==
    ASSUME ImportInv, NEW a \in Applicants, NEW value
    PROVE  /\ \A id \in Found(a, value) : [id |-> id, applicant |-> a] \in work.apps
           /\ Found(a, value) = {} => \A x \in work.apps : x.applicant # a
<1>1. \A id \in FoundByRow(a, value) : [id |-> id, applicant |-> a] \in work.apps
  BY DEF FoundByRow, ImportInv, RowsAgree
<1>2. \A x \in work.apps : x = [id |-> x.id, applicant |-> x.applicant]
  BY DEF ImportInv, ImportTypeOK, Tables
<1>3. \A id \in FoundByName(a) : [id |-> id, applicant |-> a] \in work.apps
  BY <1>2 DEF FoundByName
<1>4. FoundByName(a) = {} => \A x \in work.apps : x.applicant # a
  BY DEF FoundByName
<1> QED
  BY <1>1, <1>3, <1>4 DEF Found

\* The application of the applicant is found or takes the next number; all of
\* its files are pending.
LEMMA BeginKeepsImport ==
    ASSUME ImportInv, NEW a \in Applicants, BeginApplicant(a)
    PROVE  ImportInv'
<1> DEFINE value == process.plan.register[a]
           found == Found(a, value)
           app == IF found # {} THEN CHOOSE id \in found : TRUE ELSE Cardinality(work.apps) + 1
           newapp == [id |-> app, applicant |-> a]
           newrow == [run |-> process.run, applicant |-> a, value |-> value, app |-> app]
           next == [step |-> "importing", run |-> process.run, plan |-> process.plan,
                    todo |-> process.todo \ {a}, hashes |-> process.hashes,
                    app |-> app, pending |-> Files(a, process.plan), stored |-> {}]
<1>1. /\ ImportTypeOK /\ RowsAgree(work) /\ work \in Tables
      /\ process.step = "between" /\ process \in Between
  BY ProcessKinds DEF ImportInv, ImportTypeOK, BeginApplicant
<1>2. /\ work' = [work EXCEPT !.apps = work.apps \cup {newapp}, !.rows = work.rows \cup {newrow}]
      /\ process' = next
      /\ UNCHANGED <<environment, db, files, keys, faults>>
  BY DEF BeginApplicant
<1>3. Numbered(work.apps)
  BY <1>1 DEF RowsAgree
<1>4. newapp \in work.apps \/
         (newapp.id = Cardinality(work.apps) + 1 /\ \A x \in work.apps : x.applicant # a)
  <2>1. CASE found # {}
    <3>1. app \in found
      BY <2>1
    <3> QED
      BY <3>1, FoundApplication
  <2>2. CASE found = {}
    BY <2>2, FoundApplication
  <2> QED
    BY <2>1, <2>2
<1>5. newapp.id = app /\ newapp.applicant = a /\ newrow.app = app /\ newrow.applicant = a
  OBVIOUS
<1>6. app \in Nat
  BY <1>1, <1>3, <1>4, <1>5, NextNumber DEF Tables
<1>7. newapp \in [id : Nat, applicant : Applicants]
  BY <1>6
<1>8. /\ process.plan \in Plans /\ process.run \in Nat /\ process.todo \in SUBSET Applicants
      /\ process.hashes \in SUBSET (Nat \X Contents)
  BY <1>1 DEF Between
<1>9. newrow \in [run : Nat, applicant : Applicants, value : RowValues, app : Nat]
  BY <1>6, <1>8 DEF Plans
<1>10. newapp = [id |-> newrow.app, applicant |-> newrow.applicant]
  OBVIOUS
<1>11. /\ next \in Importing /\ next.step = "importing" /\ next.run = process.run
       /\ next.plan = process.plan /\ next.todo = process.todo \ {a}
       /\ next.pending = Files(a, process.plan) /\ next.stored = {}
  BY <1>6, <1>8 DEF Importing, Files
<1> HIDE DEF next, newapp, newrow, app
<1>12. /\ work' \in Tables
       /\ work'.runs = work.runs
       /\ work'.apps = work.apps \cup {newapp}
       /\ work'.rows = work.rows \cup {newrow}
       /\ work'.versions = work.versions
       /\ work'.occurrences = work.occurrences
  BY <1>1, <1>2, <1>7, <1>9 DEF Tables
<1>13. Numbered(work'.apps)
  <2>1. CASE newapp \in work.apps
    <3>1. work.apps \cup {newapp} = work.apps
      BY <2>1
    <3> QED
      BY <1>3, <1>12, <3>1
  <2>2. CASE newapp.id = Cardinality(work.apps) + 1
    BY <1>3, <1>12, <2>2, NumberedAdd
  <2> QED
    BY <1>4, <2>1, <2>2
<1>14. \A x, y \in work'.apps : x.applicant = y.applicant => x = y
  BY <1>1, <1>4, <1>5, <1>12 DEF RowsAgree
<1>15. \A r \in work'.rows : [id |-> r.app, applicant |-> r.applicant] \in work'.apps
  BY <1>1, <1>10, <1>12 DEF RowsAgree
<1>16. RowsAgree(work)'
  BY <1>1, <1>12, <1>13, <1>14, <1>15 DEF RowsAgree
<1>17. Plan' = Plan
  BY <1>2 DEF Plan, environment
<1>18. ImportTypeOK'
  BY <1>1, <1>2, <1>11, <1>12, <1>17 DEF ImportTypeOK, environment, faults
<1>19. TransactionAdds'
  BY <1>1, <1>2, <1>11, <1>12 DEF ImportInv, TransactionAdds
<1>20. RunIsOnTrack'
  <2>1. /\ process'.plan = Plan
        /\ \A r \in db.runs : r.id = process'.run => r.plan = process'.plan
        /\ \A l \in process'.pending : process'.plan.source[l] # Absent
    BY <1>1, <1>2, <1>11 DEF ImportInv, RunIsOnTrack, Files
  <2>2. ASSUME NEW l \in Locators, process.plan.source[l] # Absent,
               Owner[l] \notin process.todo \ {a}, l \notin Files(a, process.plan)
        PROVE  Accounted(work', process.run, process.plan, l)
    <3>1. Owner[l] \notin process.todo
      BY <2>2 DEF Files
    <3>2. Accounted(work, process.run, process.plan, l)
      BY <1>1, <2>2, <3>1 DEF ImportInv, RunIsOnTrack
    <3> QED
      BY <1>12, <3>2, AccountedGrows
  <2>3. ASSUME NEW l \in Locators, process'.plan.source[l] # Absent,
               Owner[l] \notin process'.todo, l \notin process'.pending
        PROVE  Accounted(work', process'.run, process'.plan, l)
    BY <1>2, <1>11, <2>2, <2>3
  <2> QED
    BY <1>2, <1>11, <1>17, <2>1, <2>3 DEF RunIsOnTrack, Accounted
<1>21. CompletedRunIsWhole' /\ RowsAgree(db)'
  BY <1>2 DEF ImportInv, CompletedRunIsWhole, Accounted, RowsAgree
<1>22. StoreMatchesVersions'
  BY <1>1, <1>2 DEF ImportInv, StoreMatchesVersions, faults
<1> QED
  BY <1>16, <1>18, <1>19, <1>20, <1>21, <1>22 DEF ImportInv

-----------------------------------------------------------------------------
(* The files of an applicant.                                              *)

\* What the importer knows while it handles a path.
LEMMA Handling ==
    ASSUME ImportInv, NEW l \in Locators, Handle(l)
    PROVE  /\ process.step = "importing" /\ process \in Importing /\ l \in process.pending
           /\ process.run \in Nat /\ process.app \in Nat /\ process.plan \in Plans
           /\ process.plan = Plan
           /\ Planned(l) \in Sources /\ Planned(l) # Absent /\ Planned(l) = source[l]
           /\ ImportTypeOK /\ work \in Tables /\ RowsAgree(work)
<1>1. process.step = "importing" /\ l \in process.pending
  BY DEF Handle, FirstOf
<1>2. ImportTypeOK /\ work \in Tables /\ RowsAgree(work)
  BY DEF ImportInv, ImportTypeOK
<1>3. process \in Importing
  BY <1>1, <1>2, ProcessKinds
<1>4. process.run \in Nat /\ process.app \in Nat /\ process.plan \in Plans
  BY <1>3 DEF Importing
<1>5. process.plan = Plan /\ process.plan.source[l] # Absent
  BY <1>1 DEF ImportInv, RunIsOnTrack
<1>6. Planned(l) = source[l]
  BY <1>5 DEF Planned, Plan
<1>7. Planned(l) \in Sources
  BY <1>4 DEF Planned, Plans
<1> QED
  BY <1>1, <1>2, <1>3, <1>4, <1>5, <1>6, <1>7 DEF Planned

\* The run stays on track when a path's occurrence is added and, if it is a PDF
\* with bytes, names a version with its content.
LEMMA StaysOnTrack ==
    ASSUME ImportInv, NEW l \in Locators, Handle(l), NEW version,
           UNCHANGED <<environment, db>>,
           process'.step = "importing", process'.run = process.run,
           process'.plan = process.plan, process'.todo = process.todo,
           process'.pending = process.pending \ {l},
           work.versions \subseteq work'.versions,
           work'.occurrences = work.occurrences \cup {Occurrence(l, version)},
           Planned(l) \in Contents =>
              \E v \in work'.versions : v.key = version /\ v.content = Planned(l)
    PROVE  RunIsOnTrack'
<1>1. /\ process.step = "importing" /\ process.plan = Plan
      /\ Plan' = Plan
      /\ \A r \in db'.runs : r.id = process'.run => r.plan = process'.plan
      /\ \A k \in process'.pending : process'.plan.source[k] # Absent
  BY Handling DEF ImportInv, RunIsOnTrack, Plan, environment
<1>2. Accounted(work', process.run, process.plan, l)
  <2>1. /\ Occurrence(l, version).run = process.run
        /\ Occurrence(l, version).locator = l
        /\ Occurrence(l, version).version = version
    BY DEF Occurrence
  <2> QED
    BY <2>1 DEF Accounted, Planned
<1>3. ASSUME NEW k \in Locators, process.plan.source[k] # Absent,
             Owner[k] \notin process.todo, k \notin process.pending \ {l}
      PROVE  Accounted(work', process.run, process.plan, k)
  <2>1. CASE k = l
    BY <1>2, <2>1
  <2>2. CASE k # l
    <3>1. Accounted(work, process.run, process.plan, k)
      BY <1>1, <1>3, <2>2 DEF ImportInv, RunIsOnTrack
    <3> QED
      BY <3>1, AccountedGrows
  <2> QED
    BY <2>1, <2>2
<1>4. ASSUME NEW k \in Locators, process'.plan.source[k] # Absent,
             Owner[k] \notin process'.todo, k \notin process'.pending
      PROVE  Accounted(work', process'.run, process'.plan, k)
  BY <1>3, <1>4
<1> QED
  BY <1>1, <1>4 DEF RunIsOnTrack, Accounted

\* An occurrence alone: of a file that is not ingested, or of a known version.
LEMMA Records ==
    ASSUME ImportInv, NEW l \in Locators, Handle(l), NEW version \in Nat,
           work' = [work EXCEPT !.occurrences = @ \cup {Occurrence(l, version)}],
           process' = [process EXCEPT !.pending = @ \ {l}],
           UNCHANGED <<environment, db, files, keys, faults>>,
           \/ version = NoVersion /\ Planned(l) \notin Contents
           \/ \E v \in work.versions :
                 v.key = version /\ v.content = Planned(l) /\ v.app = process.app
    PROVE  ImportInv'
<1> DEFINE new == Occurrence(l, version)
<1>1. /\ process.step = "importing" /\ process \in Importing
      /\ process.run \in Nat /\ process.app \in Nat
      /\ Planned(l) \in Sources
      /\ ImportTypeOK /\ work \in Tables /\ RowsAgree(work)
  BY Handling
<1>2. /\ new \in [run : Nat, app : Nat, locator : Locators, content : Sources, version : Nat]
      /\ new.version = version /\ new.content = Planned(l) /\ new.app = process.app
  BY <1>1 DEF Occurrence
<1> HIDE DEF new
<1>3. /\ work' \in Tables
      /\ work'.runs = work.runs /\ work'.apps = work.apps /\ work'.rows = work.rows
      /\ work'.versions = work.versions
      /\ work'.occurrences = work.occurrences \cup {new}
  <2>1. work' = [work EXCEPT !.occurrences = work.occurrences \cup {new}]
    BY DEF new
  <2> QED
    BY <1>1, <1>2, <2>1 DEF Tables
<1>4. \A o \in work'.occurrences : o.version # NoVersion =>
         \E v \in work'.versions :
            v.key = o.version /\ v.content = o.content /\ v.app = o.app
  BY <1>1, <1>2, <1>3 DEF RowsAgree
<1>5. RowsAgree(work)'
  BY <1>1, <1>3, <1>4 DEF RowsAgree
<1>6. /\ process' \in Importing /\ process'.step = "importing"
      /\ process'.run = process.run /\ process'.plan = process.plan
      /\ process'.todo = process.todo /\ process'.pending = process.pending \ {l}
      /\ process'.stored = process.stored
  BY <1>1 DEF Importing
<1>7. ImportTypeOK'
  BY <1>1, <1>3, <1>6 DEF ImportTypeOK, environment, faults, Plan
<1>8. TransactionAdds'
  BY <1>1, <1>3, <1>6 DEF ImportInv, TransactionAdds
<1>9. RunIsOnTrack'
  BY <1>3, <1>6, StaysOnTrack DEF new
<1>10. CompletedRunIsWhole' /\ RowsAgree(db)'
  BY DEF ImportInv, CompletedRunIsWhole, Accounted, RowsAgree
<1>11. StoreMatchesVersions'
  BY <1>1, <1>6 DEF ImportInv, StoreMatchesVersions, faults
<1> QED
  BY <1>5, <1>7, <1>8, <1>9, <1>10, <1>11 DEF ImportInv

\* A file that is skipped is no PDF or has no bytes.
LEMMA RecordOnlyKeepsImport ==
    ASSUME ImportInv, NEW l \in Locators, RecordOnly(l)
    PROVE  ImportInv'
<1>1. NoVersion \in Nat
  BY DEF NoVersion
<1>2. Planned(l) \notin Contents
  BY ImportAssumption DEF RecordOnly, Skippable
<1> QED
  BY <1>1, <1>2, Records DEF RecordOnly

\* A known content has its version.
LEMMA RecordExistingKeepsImport ==
    ASSUME ImportInv, NEW l \in Locators, RecordExisting(l)
    PROVE  ImportInv'
<1>1. PICK version \in ExistingVersions(process.app, Planned(l)) :
         work' = [work EXCEPT !.occurrences = @ \cup {Occurrence(l, version)}]
  BY DEF RecordExisting
<1>2. PICK o \in work.occurrences :
         /\ o.version = version /\ o.content = Planned(l) /\ o.app = process.app
         /\ o.version # NoVersion
  BY DEF ExistingVersions
<1>3. \E v \in work.versions :
         v.key = version /\ v.content = Planned(l) /\ v.app = process.app
  BY <1>2 DEF ImportInv, RowsAgree
<1>4. version \in Nat
  BY <1>2 DEF ImportInv, ImportTypeOK, Tables
<1> QED
  BY <1>1, <1>3, <1>4, Records DEF RecordExisting

\* A new object takes the next key; its content has no version yet.
LEMMA IngestKeepsImport ==
    ASSUME ImportInv, NEW l \in Locators, Ingest(l)
    PROVE  ImportInv'
<1> DEFINE content == source[l]
           k == keys + 1
           ver == NewVersion(l, content, k)
           new == Occurrence(l, k)
           file == [key |-> k, content |-> content]
<1>1. /\ Handle(l)
      /\ ExistingVersions(process.app, Planned(l)) = {}
      /\ content \in Contents
      /\ keys' = k
      /\ files' = files \cup {file}
      /\ work' = [work EXCEPT !.versions = work.versions \cup {ver},
                              !.occurrences = work.occurrences \cup {new}]
      /\ process' = [process EXCEPT !.pending = process.pending \ {l},
                                    !.stored = process.stored \cup {k},
                                    !.hashes = process.hashes \cup {<<process.app, content>>}]
      /\ UNCHANGED <<environment, db, faults>>
  BY DEF Ingest, Admissible
<1>2. /\ process.step = "importing" /\ process \in Importing /\ process.plan = Plan
      /\ process.run \in Nat /\ process.app \in Nat
      /\ Planned(l) \in Sources /\ Planned(l) = content
      /\ ImportTypeOK /\ work \in Tables /\ RowsAgree(work)
  BY <1>1, Handling
<1>3. keys \in Nat /\ k \in Nat /\ k # NoVersion /\ k \in 1..k /\ k \notin 1..keys /\ 1..keys \subseteq 1..k
  BY <1>2 DEF ImportTypeOK, NoVersion
<1>4. /\ ver \in [key : Nat, app : Nat, locator : Locators, content : Contents]
      /\ ver.key = k /\ ver.app = process.app /\ ver.content = content
  BY <1>1, <1>2, <1>3 DEF NewVersion
<1>5. /\ new \in [run : Nat, app : Nat, locator : Locators, content : Sources, version : Nat]
      /\ new.version = k /\ new.content = content /\ new.app = process.app
  BY <1>2, <1>3 DEF Occurrence
<1>6. file \in [key : Nat, content : Contents] /\ file.key = k
      /\ file = [key |-> ver.key, content |-> ver.content]
  BY <1>1, <1>3, <1>4
<1>7. <<process.app, content>> \in Nat \X Contents
  BY <1>1, <1>2
<1> HIDE DEF ver, new, file, k, content
<1>8. /\ work' \in Tables
      /\ work'.runs = work.runs /\ work'.apps = work.apps /\ work'.rows = work.rows
      /\ work'.versions = work.versions \cup {ver}
      /\ work'.occurrences = work.occurrences \cup {new}
  BY <1>1, <1>2, <1>4, <1>5 DEF Tables
<1>9. \A v \in work.versions : ~(v.app = process.app /\ v.content = content)
  <2>1. SUFFICES ASSUME NEW v \in work.versions, v.app = process.app, v.content = content
                 PROVE  FALSE
    OBVIOUS
  <2>2. PICK o \in work.occurrences : o.version = v.key /\ o.app = v.app /\ o.content = v.content
    BY <1>2 DEF RowsAgree
  <2>3. v.key \in 1..keys
    BY DEF ImportInv, TransactionAdds
  <2>4. o.version # NoVersion
    BY <1>3, <2>2, <2>3 DEF NoVersion
  <2>5. o.version \in ExistingVersions(process.app, Planned(l))
    BY <1>2, <2>1, <2>2, <2>4 DEF ExistingVersions
  <2> QED
    BY <1>1, <2>5
<1>10. \A v, w \in work'.versions : v.app = w.app /\ v.content = w.content => v = w
  BY <1>2, <1>4, <1>8, <1>9 DEF RowsAgree
<1>11. \A v \in work'.versions : \E o \in work'.occurrences :
          o.version = v.key /\ o.app = v.app /\ o.content = v.content
  BY <1>2, <1>4, <1>5, <1>8 DEF RowsAgree
<1>12. \A o \in work'.occurrences : o.version # NoVersion =>
          \E v \in work'.versions :
            v.key = o.version /\ v.content = o.content /\ v.app = o.app
  BY <1>2, <1>4, <1>5, <1>8 DEF RowsAgree
<1>13. RowsAgree(work)'
  BY <1>2, <1>8, <1>10, <1>11, <1>12 DEF RowsAgree
<1>14. /\ process' \in Importing /\ process'.step = "importing"
       /\ process'.run = process.run /\ process'.plan = process.plan
       /\ process'.todo = process.todo /\ process'.pending = process.pending \ {l}
       /\ process'.stored = process.stored \cup {k}
  BY <1>1, <1>2, <1>3, <1>7 DEF Importing
<1>15. ImportTypeOK'
  BY <1>1, <1>2, <1>3, <1>6, <1>8, <1>14 DEF ImportTypeOK, environment, faults, Plan
<1>16. TransactionAdds'
  <2>1. \A v \in work'.versions : v.key \in 1..k
    BY <1>3, <1>4, <1>8 DEF ImportInv, TransactionAdds
  <2>2. process'.stored \subseteq 1..k
    BY <1>2, <1>3, <1>14 DEF ImportInv, TransactionAdds
  <2>3. \A v \in db.versions : v.key \notin process'.stored
    BY <1>2, <1>3, <1>14 DEF ImportInv, TransactionAdds
  <2>4. \A j \in process'.stored : \E v \in work'.versions : v.key = j
    BY <1>2, <1>4, <1>8, <1>14 DEF ImportInv, TransactionAdds
  <2>5. \A v \in work'.versions : v \in db.versions \/
           (v.key \in process'.stored /\ [key |-> v.key, content |-> v.content] \in files')
    BY <1>1, <1>2, <1>4, <1>6, <1>8, <1>14 DEF ImportInv, TransactionAdds
  <2> QED
    BY <1>1, <1>8, <1>14, <2>1, <2>2, <2>3, <2>4, <2>5 DEF ImportInv, TransactionAdds
<1>17. RunIsOnTrack'
  <2>1. \E v \in work'.versions : v.key = k /\ v.content = Planned(l)
    BY <1>2, <1>4, <1>8
  <2> QED
    BY <1>1, <1>8, <1>14, <2>1, StaysOnTrack DEF new
<1>18. CompletedRunIsWhole' /\ RowsAgree(db)'
  BY <1>1 DEF ImportInv, CompletedRunIsWhole, Accounted, RowsAgree
<1>19. StoreMatchesVersions'
  BY <1>1, <1>2, <1>6, <1>14 DEF ImportInv, StoreMatchesVersions, faults
<1> QED
  BY <1>13, <1>15, <1>16, <1>17, <1>18, <1>19 DEF ImportInv

-----------------------------------------------------------------------------
(* The end of a transaction, of a run and of the process.                  *)

\* A commit adds rows, so completed runs stay whole.
LEMMA CommitKeepsWhole ==
    ASSUME ImportInv, db' = work
    PROVE  CompletedRunIsWhole' /\ RowsAgree(db)'
<1>1. SUFFICES ASSUME NEW r \in db'.runs, r.status = "COMPLETED", NEW l \in Locators,
                      r.plan.source[l] # Absent
               PROVE  Accounted(db', r.id, r.plan, l)
  BY DEF CompletedRunIsWhole, Accounted, ImportInv, RowsAgree
<1>2. r \in db.runs
  BY <1>1 DEF ImportInv, TransactionAdds
<1>3. Accounted(db, r.id, r.plan, l)
  BY <1>1, <1>2 DEF ImportInv, CompletedRunIsWhole
<1> QED
  BY <1>3, AccountedGrows DEF ImportInv, TransactionAdds

\* The objects of the transaction become those of committed versions.
LEMMA CommitKeepsImport ==
    ASSUME ImportInv, CommitApplicant
    PROVE  ImportInv'
<1> DEFINE next == [step |-> "between", run |-> process.run, plan |-> process.plan,
                    todo |-> process.todo, hashes |-> process.hashes]
<1>1. /\ process.step = "importing" /\ process.pending = {}
      /\ db' = work /\ process' = next
      /\ UNCHANGED <<environment, work, files, keys, faults>>
      /\ ImportTypeOK
  BY DEF CommitApplicant, AllHandled, ImportInv
<1>2. process \in Importing
  BY <1>1, ProcessKinds
<1>3. /\ process' \in Between /\ process'.step = "between"
      /\ process'.run = process.run /\ process'.plan = process.plan
      /\ process'.todo = process.todo
  BY <1>1, <1>2 DEF Importing, Between
<1>4. ImportTypeOK'
  BY <1>1, <1>3 DEF ImportTypeOK, environment, faults, Plan
<1>5. TransactionAdds'
  BY <1>1, <1>3 DEF ImportInv, TransactionAdds
<1>6. RunIsOnTrack'
  <2>1. /\ process'.plan = Plan'
        /\ \A r \in db'.runs : r.id = process'.run => r.plan = process'.plan
    BY <1>1, <1>3 DEF ImportInv, RunIsOnTrack, TransactionAdds, Plan, environment
  <2>2. ASSUME NEW l \in Locators, process.plan.source[l] # Absent, Owner[l] \notin process.todo
        PROVE  Accounted(work, process.run, process.plan, l)
    BY <1>1, <2>2 DEF ImportInv, RunIsOnTrack
  <2> QED
    BY <1>1, <1>3, <2>1, <2>2 DEF RunIsOnTrack, Accounted
<1>7. CompletedRunIsWhole' /\ RowsAgree(db)' /\ RowsAgree(work)'
  BY <1>1, CommitKeepsWhole DEF RowsAgree
<1>8. StoreMatchesVersions'
  <2>1. \A v \in work.versions : v.key \notin lost =>
           [key |-> v.key, content |-> v.content] \in files
    BY <1>1 DEF ImportInv, StoreMatchesVersions, TransactionAdds
  <2>2. \A f \in files : (\E v \in work.versions : v.key = f.key) \/ f.key \in orphans
    BY <1>1 DEF ImportInv, StoreMatchesVersions, TransactionAdds
  <2> QED
    BY <1>1, <2>1, <2>2 DEF StoreMatchesVersions, faults
<1> QED
  BY <1>4, <1>5, <1>6, <1>7, <1>8 DEF ImportInv

\* Marking the run keeps the committed rows of the completed ones; a run is
\* marked COMPLETED when all its files are accounted for.
LEMMA MarkKeepsWhole ==
    ASSUME ImportInv, process.step # "none", NEW status \in {"COMPLETED", "FAILED"},
           db' = [db EXCEPT !.runs = RunStatus(process.run, status)],
           status = "COMPLETED" => process.step = "between" /\ process.todo = {}
    PROVE  /\ db' \in Tables /\ RowsAgree(db)'
           /\ db'.versions = db.versions
           /\ CompletedRunIsWhole'
<1> DEFINE runs == RunStatus(process.run, status)
<1>1. db \in Tables /\ RowsAgree(db) /\ Numbered(db.runs)
  BY DEF ImportInv, ImportTypeOK, RowsAgree
<1>2. /\ Numbered(runs)
      /\ runs \subseteq [id : Nat, plan : Plans, status : {"RUNNING", "COMPLETED", "FAILED"}]
      /\ \A y \in runs : \E x \in db.runs :
            /\ y.id = x.id /\ y.plan = x.plan
            /\ y.status = x.status \/ (y.id = process.run /\ y.status = status)
  BY <1>1, RunStatusNumbered
<1> HIDE DEF runs
<1>3. /\ db' \in Tables /\ RowsAgree(db)'
      /\ db'.runs = runs /\ db'.versions = db.versions /\ db'.occurrences = db.occurrences
  <2> DEFINE u == [db EXCEPT !.runs = runs]
  <2>1. db' = u
    BY DEF runs
  <2>2. /\ u \in Tables /\ RowsAgree(u)
        /\ u.runs = runs /\ u.versions = db.versions /\ u.occurrences = db.occurrences
    BY ONLY <1>1, <1>2, RunsReplaced
  <2> HIDE DEF u
  <2> QED
    BY <2>1, <2>2
<1>4. CompletedRunIsWhole'
  <2>1. SUFFICES ASSUME NEW y \in runs, y.status = "COMPLETED", NEW l \in Locators,
                        y.plan.source[l] # Absent
                 PROVE  Accounted(db', y.id, y.plan, l)
    BY <1>3 DEF CompletedRunIsWhole, Accounted
  <2>2. PICK x \in db.runs :
           /\ y.id = x.id /\ y.plan = x.plan
           /\ y.status = x.status \/ (y.id = process.run /\ y.status = status)
    BY <1>2
  <2>3. CASE y.status = x.status
    <3>1. Accounted(db, y.id, y.plan, l)
      BY <2>1, <2>2, <2>3 DEF ImportInv, CompletedRunIsWhole
    <3> QED
      BY <1>3, <3>1, AccountedGrows
  <2>4. CASE y.id = process.run /\ y.status = status
    <3>1. status = "COMPLETED" /\ process.step = "between" /\ process.todo = {}
      BY <2>1, <2>4
    <3>2. y.plan = process.plan
      BY <2>2, <2>4 DEF ImportInv, RunIsOnTrack
    <3>3. Accounted(work, process.run, process.plan, l)
      BY <2>1, <3>1, <3>2 DEF ImportInv, RunIsOnTrack
    <3>4. work = db
      BY <3>1 DEF ImportInv, TransactionAdds
    <3>5. Accounted(db, y.id, y.plan, l)
      BY <2>4, <3>2, <3>3, <3>4
    <3> QED
      BY <1>3, <3>5, AccountedGrows
  <2> QED
    BY <2>2, <2>3, <2>4
<1> QED
  BY <1>3, <1>4

\* Committed versions have keys already drawn.
LEMMA CommittedKeys ==
    ASSUME ImportInv
    PROVE  \A v \in db.versions : v.key \in 1..keys
BY DEF ImportInv, TransactionAdds

\* The run ends, completed or failed, with no transaction open.
LEMMA EndKeepsImport ==
    ASSUME ImportInv, CompleteRun \/ FailRun
    PROVE  ImportInv'
<1>1. PICK status \in {"COMPLETED", "FAILED"} :
         db' = [db EXCEPT !.runs = RunStatus(process.run, status)]
  BY DEF CompleteRun, FailRun
<1>2. /\ process.step = "between" /\ process.todo = {}
      /\ work' = db' /\ process' = NoProcess
      /\ UNCHANGED <<environment, files, keys, faults>>
  BY DEF CompleteRun, FailRun
<1>3. /\ db' \in Tables /\ RowsAgree(db)'
      /\ db'.versions = db.versions
      /\ CompletedRunIsWhole'
  BY <1>1, <1>2, MarkKeepsWhole
<1>4. StoreMatchesVersions'
  BY <1>2, <1>3 DEF ImportInv, StoreMatchesVersions, faults
<1>5. crashes' \in Nat /\ lost' \subseteq Nat /\ orphans' \subseteq Nat
  BY <1>2 DEF ImportInv, ImportTypeOK, faults
<1> QED
  BY <1>2, <1>3, <1>4, <1>5, CommittedKeys, Stops

\* A failed transaction discards its own objects and no committed version's.
LEMMA FailKeepsImport ==
    ASSUME ImportInv, FailApplicant
    PROVE  ImportInv'
<1>1. /\ process.step = "importing"
      /\ files' = Discarded
      /\ work' = db' /\ process' = NoProcess
      /\ UNCHANGED <<environment, keys, faults>>
  BY DEF FailApplicant
<1>2. /\ db' \in Tables /\ RowsAgree(db)'
      /\ db'.versions = db.versions
      /\ CompletedRunIsWhole'
  <2>1. CASE db' = [db EXCEPT !.runs = RunStatus(process.run, "FAILED")]
    BY <1>1, <2>1, MarkKeepsWhole
  <2>2. CASE UNCHANGED db
    BY <2>2 DEF ImportInv, ImportTypeOK, RowsAgree, CompletedRunIsWhole, Accounted
  <2> QED
    BY <2>1, <2>2 DEF FailApplicant
<1>3. StoreMatchesVersions'
  <2>1. ASSUME NEW v \in db.versions, v.key \notin lost
        PROVE  [key |-> v.key, content |-> v.content] \in files'
    BY <1>1, <2>1 DEF ImportInv, StoreMatchesVersions, TransactionAdds, Discarded
  <2>2. ASSUME NEW f \in files'
        PROVE  (\E v \in db.versions : v.key = f.key) \/ f.key \in orphans
    BY <1>1 DEF ImportInv, StoreMatchesVersions, Discarded
  <2> QED
    BY <1>1, <1>2, <2>1, <2>2 DEF StoreMatchesVersions, faults
<1>4. crashes' \in Nat /\ lost' \subseteq Nat /\ orphans' \subseteq Nat
  BY <1>1 DEF ImportInv, ImportTypeOK, faults
<1>5. files' \subseteq files
  BY <1>1 DEF Discarded
<1> QED
  BY <1>1, <1>2, <1>3, <1>4, <1>5, CommittedKeys, Stops

\* A commit whose answer is lost leaves versions whose keys are recorded.
LEMMA LoseKeepsImport ==
    ASSUME ImportInv, LoseCommit
    PROVE  ImportInv'
<1>1. /\ process.step = "importing"
      /\ files' = Discarded /\ db' = work /\ work' = db'
      /\ lost' = lost \cup process.stored
      /\ process' = NoProcess
      /\ UNCHANGED <<environment, keys, crashes, orphans>>
  BY DEF LoseCommit
<1>2. process \in Importing /\ db' \in Tables
  BY <1>1, ProcessKinds DEF ImportInv, ImportTypeOK
<1>3. CompletedRunIsWhole' /\ RowsAgree(db)'
  BY <1>1, CommitKeepsWhole
<1>4. StoreMatchesVersions'
  <2>1. ASSUME NEW v \in work.versions, v.key \notin lost'
        PROVE  [key |-> v.key, content |-> v.content] \in files'
    BY <1>1, <2>1 DEF ImportInv, StoreMatchesVersions, TransactionAdds, Discarded
  <2>2. ASSUME NEW f \in files'
        PROVE  (\E v \in work.versions : v.key = f.key) \/ f.key \in orphans
    BY <1>1 DEF ImportInv, StoreMatchesVersions, TransactionAdds, Discarded
  <2> QED
    BY <1>1, <2>1, <2>2 DEF StoreMatchesVersions
<1>5. crashes' \in Nat /\ lost' \subseteq Nat /\ orphans' \subseteq Nat
  BY <1>1, <1>2 DEF ImportInv, ImportTypeOK, Importing
<1>6. files' \subseteq files /\ \A v \in db'.versions : v.key \in 1..keys
  BY <1>1 DEF Discarded, ImportInv, TransactionAdds
<1> QED
  BY <1>1, <1>2, <1>3, <1>4, <1>5, <1>6, Stops

\* A kill rolls the transaction back; its objects are recorded as orphans.
LEMMA CrashKeepsImport ==
    ASSUME ImportInv, Crash
    PROVE  ImportInv'
<1>1. /\ crashes' = crashes + 1
      /\ work' = db
      /\ orphans' = IF process.step = "importing" THEN orphans \cup process.stored ELSE orphans
      /\ process' = NoProcess
      /\ UNCHANGED <<environment, db, files, keys, lost>>
  BY DEF Crash
<1>2. process.step = "importing" => process \in Importing
  BY ProcessKinds DEF ImportInv
<1>3. crashes' \in Nat /\ lost' \subseteq Nat /\ orphans' \subseteq Nat
  <2>1. crashes \in Nat /\ lost \subseteq Nat /\ orphans \subseteq Nat
    BY DEF ImportInv, ImportTypeOK
  <2>2. process.step = "importing" => process.stored \subseteq Nat
    BY <1>2 DEF Importing
  <2>3. crashes' \in Nat /\ lost' \subseteq Nat
    BY <1>1, <2>1
  <2>4. CASE process.step = "importing"
    <3>1. orphans' = orphans \cup process.stored
      BY <1>1, <2>4
    <3> QED
      BY <2>1, <2>2, <2>3, <2>4, <3>1
  <2>5. CASE process.step # "importing"
    <3>1. orphans' = orphans
      BY <1>1, <2>5
    <3> QED
      BY <2>1, <2>3, <3>1
  <2> QED
    BY <2>4, <2>5
<1>4. CompletedRunIsWhole' /\ RowsAgree(db)' /\ db' \in Tables
  BY <1>1 DEF ImportInv, ImportTypeOK, CompletedRunIsWhole, Accounted, RowsAgree
<1>5. StoreMatchesVersions'
  BY <1>1 DEF ImportInv, StoreMatchesVersions
<1> QED
  BY <1>1, <1>3, <1>4, <1>5, CommittedKeys, Stops

\* The sources change only while no importer runs.
LEMMA EditKeepsImport ==
    ASSUME ImportInv,
           \/ \E l \in Locators : EditSource(l)
           \/ \E a \in Applicants : EditRegister(a)
    PROVE  ImportInv'
<1>1. /\ process.step = "none" /\ edits' = edits + 1
      /\ UNCHANGED <<db, work, files, process, keys, faults>>
  BY DEF EditSource, EditRegister, NoProcess
<1>2. Plan' \in Plans
  <2>1. Plan.source = source /\ Plan.register = register
    BY DEF Plan
  <2>2. source \in [Locators -> Sources] /\ register \in [Applicants -> RowValues]
    BY <2>1 DEF ImportInv, ImportTypeOK, Plans
  <2>3. CASE \E l \in Locators : EditSource(l)
    BY <2>2, <2>3 DEF EditSource, Plan, Plans, Sources
  <2>4. CASE \E a \in Applicants : EditRegister(a)
    BY <2>2, <2>4 DEF EditRegister, Plan, Plans
  <2> QED
    BY <2>3, <2>4
<1>3. ImportTypeOK'
  BY <1>1, <1>2 DEF ImportInv, ImportTypeOK, faults
<1>4. RunIsOnTrack'
  BY <1>1 DEF RunIsOnTrack
<1> QED
  BY <1>1, <1>3, <1>4 DEF ImportInv, RowsAgree, TransactionAdds, CompletedRunIsWhole, Accounted,
     StoreMatchesVersions, faults

\* Every step, and every stutter, preserves the invariant.
LEMMA ImportStep ==
    ASSUME ImportInv, [ImportNext]_importVars
    PROVE  ImportInv'
<1>1. CASE UNCHANGED importVars
  BY <1>1 DEF importVars, environment, faults, ImportInv, ImportTypeOK, RowsAgree, TransactionAdds,
     RunIsOnTrack, CompletedRunIsWhole, Accounted, StoreMatchesVersions, Plan
<1>2. ASSUME NEW l \in Locators, RecordOnly(l) \/ RecordExisting(l) \/ Ingest(l)
      PROVE  ImportInv'
  BY <1>2, RecordOnlyKeepsImport, RecordExistingKeepsImport, IngestKeepsImport
<1> QED
  BY <1>1, <1>2, StartKeepsImport, BeginKeepsImport, CommitKeepsImport, EndKeepsImport,
     FailKeepsImport, LoseKeepsImport, CrashKeepsImport, EditKeepsImport DEF ImportNext

\* Through failures, crashes, lost answers and changed sources the tables agree
\* with each other, the store and the run in progress (execute_import).
THEOREM ImportHolds == ImportSpec => []ImportInv
<1>1. ImportInit => ImportInv
  BY ImportInitially
<1>2. ImportInv /\ [ImportNext]_importVars => ImportInv'
  BY ImportStep
<1> QED
  BY <1>1, <1>2, PTL DEF ImportSpec

\* However often the import is repeated, an applicant has one application, an
\* application one applicant and a content one version in it.
THEOREM ImportsOnce == ImportSpec => []ImportedOnce
<1>1. ImportInv => ImportedOnce
  BY DEF ImportInv, RowsAgree, Numbered, ImportedOnce
<1> QED
  BY <1>1, ImportHolds, PTL

\* A run marked COMPLETED has accounted for every file of its plan.
THEOREM CompletedRunsAreWhole == ImportSpec => []CompletedRunIsWhole
<1>1. ImportInv => CompletedRunIsWhole
  BY DEF ImportInv
<1> QED
  BY <1>1, ImportHolds, PTL

\* A committed version keeps its object unless the answer to its commit was
\* lost, and every other object is the open transaction's or a crash's.
THEOREM VersionsKeepObjects == ImportSpec => []StoreMatchesVersions
<1>1. ImportInv => StoreMatchesVersions
  BY DEF ImportInv
<1> QED
  BY <1>1, ImportHolds, PTL

-----------------------------------------------------------------------------
(* What the tables say.                                                    *)

\* A row or an occurrence that is added is added to what the tables say.
LEMMA ImportedAdd ==
    ASSUME NEW t, NEW u, NEW r, u.rows = t.rows \cup {r}
    PROVE  Imported(u) = Imported(t) \cup
              {[run |-> r.run, applicant |-> r.applicant, value |-> r.value]}
BY DEF Imported

LEMMA ListedAdd ==
    ASSUME NEW t, NEW u, NEW o, u.occurrences = t.occurrences \cup {o}
    PROVE  Listed(u) = Listed(t) \cup
              {[run |-> o.run, locator |-> o.locator, content |-> o.content]}
BY DEF Listed

\* Who holds what: a document of a version of the applicant's application.
LEMMA HoldingsAre ==
    ASSUME NEW t, NEW h
    PROVE  h \in Holdings(t) <=>
              \E x \in t.apps, v \in t.versions :
                 x.id = v.app /\ h = [applicant |-> x.applicant, content |-> v.content]
<1>1. ASSUME h \in Holdings(t)
      PROVE  \E x \in t.apps, v \in t.versions :
                x.id = v.app /\ h = [applicant |-> x.applicant, content |-> v.content]
  <2>1. PICK p \in t.apps \X t.versions :
           /\ p[1].id = p[2].app
           /\ h = [applicant |-> p[1].applicant, content |-> p[2].content]
    BY <1>1 DEF Holdings
  <2> QED
    BY <2>1
<1>2. ASSUME NEW x \in t.apps, NEW v \in t.versions, x.id = v.app,
             h = [applicant |-> x.applicant, content |-> v.content]
      PROVE  h \in Holdings(t)
  <2>1. <<x, v>> \in {q \in t.apps \X t.versions : q[1].id = q[2].app}
    BY <1>2
  <2>2. h = [applicant |-> <<x, v>>[1].applicant, content |-> <<x, v>>[2].content]
    BY <1>2
  <2> QED
    BY <2>1, <2>2 DEF Holdings
<1> QED
  BY <1>1, <1>2

\* An application without versions adds nothing to what applicants hold.
LEMMA HoldingsAddApplication ==
    ASSUME NEW t, NEW u, NEW x,
           u.apps = t.apps \cup {x}, u.versions = t.versions,
           x \in t.apps \/ \A v \in t.versions : v.app # x.id
    PROVE  Holdings(u) = Holdings(t)
<1>1. ASSUME NEW h PROVE h \in Holdings(u) <=> h \in Holdings(t)
  <2>1. h \in Holdings(u) <=>
          \E y \in u.apps, v \in u.versions :
             y.id = v.app /\ h = [applicant |-> y.applicant, content |-> v.content]
    BY HoldingsAre
  <2>2. h \in Holdings(t) <=>
          \E y \in t.apps, v \in t.versions :
             y.id = v.app /\ h = [applicant |-> y.applicant, content |-> v.content]
    BY HoldingsAre
  <2> QED
    BY <2>1, <2>2
<1> QED
  BY <1>1

\* A version adds its content to what the owner of its application holds.
LEMMA HoldingsAddVersion ==
    ASSUME NEW t, NEW u, NEW w, NEW x \in t.apps, x.id = w.app,
           \A y, z \in t.apps : y.id = z.id => y = z,
           u.apps = t.apps, u.versions = t.versions \cup {w}
    PROVE  Holdings(u) = Holdings(t) \cup {[applicant |-> x.applicant, content |-> w.content]}
<1>1. ASSUME NEW h
      PROVE  h \in Holdings(u) <=>
                h \in Holdings(t) \/ h = [applicant |-> x.applicant, content |-> w.content]
  <2>1. h \in Holdings(u) <=>
          \E y \in u.apps, v \in u.versions :
             y.id = v.app /\ h = [applicant |-> y.applicant, content |-> v.content]
    BY HoldingsAre
  <2>2. h \in Holdings(t) <=>
          \E y \in t.apps, v \in t.versions :
             y.id = v.app /\ h = [applicant |-> y.applicant, content |-> v.content]
    BY HoldingsAre
  <2> QED
    BY <2>1, <2>2
<1> QED
  BY <1>1

\* The rows say who was entered.
LEMMA EnteredByRows ==
    ASSUME NEW t, NEW run, NEW a
    PROVE  EnteredBy(t, run, a) <=> \E i \in Imported(t) : i.run = run /\ i.applicant = a
<1>1. ASSUME NEW row \in t.rows, row.run = run, row.applicant = a
      PROVE  \E i \in Imported(t) : i.run = run /\ i.applicant = a
  <2> DEFINE i == [run |-> row.run, applicant |-> row.applicant, value |-> row.value]
  <2>1. i \in Imported(t) /\ i.run = run /\ i.applicant = a
    BY <1>1 DEF Imported
  <2> QED
    BY <2>1
<1>2. ASSUME NEW i \in Imported(t), i.run = run, i.applicant = a
      PROVE  \E row \in t.rows : row.run = run /\ row.applicant = a
  BY <1>2 DEF Imported
<1> QED
  BY <1>1, <1>2 DEF EnteredBy

-----------------------------------------------------------------------------
(* The run in progress, as the ledger sees it.                             *)

\* Before the first run nothing was entered.
LEMMA LedgerInitially ==
    ASSUME ImportInit
    PROVE  LedgerInv /\ Ledger!Init
<1>1. /\ db.runs = {} /\ db.apps = {} /\ db.rows = {} /\ db.versions = {}
      /\ db.occurrences = {} /\ work = db /\ process.step = "none"
  BY DEF ImportInit, NoRows, NoProcess
<1>2. LedgerInv
  BY <1>1 DEF LedgerInv, RunIsOpen, RowsHaveOwners
<1>3. Plan \in Plans
  BY DEF ImportInit, Plan, Plans, Sources
<1>4. Imported(db) = {} /\ Listed(db) = {}
  BY <1>1 DEF Imported, Listed
<1>5. Holdings(db) = {}
  BY <1>1, HoldingsAre
<1> QED
  BY <1>1, <1>2, <1>3, <1>4, <1>5 DEF Ledger!Init

\* A new run is the latest and has entered nobody: no row has its number.
LEMMA StartKeepsLedger ==
    ASSUME ImportInv, ImportInv', LedgerInv, StartRun
    PROVE  LedgerInv' /\ Ledger!Start
<1> DEFINE run == Cardinality(db.runs) + 1
           new == [id |-> run, plan |-> Plan, status |-> "RUNNING"]
<1>1. /\ db \in Tables /\ Numbered(db.runs)
      /\ process = NoProcess /\ process.step = "none" /\ work = db
  BY DEF ImportInv, ImportTypeOK, RowsAgree, StartRun, NoProcess, TransactionAdds
<1>2. /\ db' = [db EXCEPT !.runs = db.runs \cup {new}] /\ work' = db'
      /\ process' = [step |-> "between", run |-> run, plan |-> Plan,
                     todo |-> Applicants, hashes |-> {}]
      /\ ~CompletedRun(Plan)
      /\ Plan' = Plan
  BY DEF StartRun, environment, Plan
<1>3. /\ process'.step = "between" /\ process'.run = run /\ process'.plan = Plan
      /\ process'.todo = Applicants
  BY <1>2
<1>4. /\ db'.runs = db.runs \cup {new} /\ db'.apps = db.apps /\ db'.rows = db.rows
      /\ db'.versions = db.versions /\ db'.occurrences = db.occurrences
  BY <1>1, <1>2 DEF Tables
<1>5. /\ Cardinality(db.runs) \in Nat /\ \A r \in db.runs : r.id \in 1..Cardinality(db.runs)
      /\ IsFiniteSet(db.runs) /\ new \notin db.runs
  BY <1>1, NextNumber DEF Numbered
<1>6. Cardinality(db'.runs) = Cardinality(db.runs) + 1
  BY <1>4, <1>5, FS_AddElement
<1>7. RunIsOpen'
  BY <1>3, <1>4, <1>5 DEF RunIsOpen
<1>8. \A row \in db.rows : row.run \in 1..Cardinality(db.runs)
  BY DEF LedgerInv, RowsHaveOwners
<1>9. RowsHaveOwners(db')
  BY <1>4, <1>5, <1>6, <1>8 DEF LedgerInv, RowsHaveOwners
<1>10. ASSUME NEW a \in Applicants PROVE ~EnteredBy(db', run, a)
  BY <1>4, <1>5, <1>8 DEF EnteredBy
<1>11. EnteredSoFar(Applicants \ process.todo)'
  BY <1>3, <1>10 DEF EnteredSoFar, EnteredBy
<1>12. LedgerInv'
  BY <1>2, <1>3, <1>7, <1>9, <1>11 DEF LedgerInv, RowsHaveOwners
<1>13. \A r \in db.runs : r.plan = Plan => r.status # "COMPLETED"
  BY <1>2 DEF CompletedRun
<1>14. Imported(db)' = Imported(db) /\ Listed(db)' = Listed(db) /\ Holdings(db)' = Holdings(db)
  BY <1>4 DEF Imported, Listed, Holdings
<1>15. /\ new = [id |-> new.id, plan |-> Plan, status |-> "RUNNING"]
       /\ new \in db'.runs /\ \A x \in db.runs : x.id < new.id
  BY <1>4, <1>5
<1> HIDE DEF new
<1>16. \E r \in db'.runs : /\ r = [id |-> r.id, plan |-> Plan, status |-> "RUNNING"]
                          /\ \A x \in db.runs : x.id < r.id
                          /\ db'.runs = db.runs \cup {r}
  BY <1>4, <1>15
<1> QED
  BY <1>2, <1>12, <1>13, <1>14, <1>16 DEF Ledger!Start

\* An applicant that is begun has its row and none of its files yet.
LEMMA BeginKeepsLedger ==
    ASSUME ImportInv, LedgerInv, NEW a \in Applicants, BeginApplicant(a)
    PROVE  LedgerInv'
<1> DEFINE value == process.plan.register[a]
           found == Found(a, value)
           app == IF found # {} THEN CHOOSE id \in found : TRUE ELSE Cardinality(work.apps) + 1
           newapp == [id |-> app, applicant |-> a]
           newrow == [run |-> process.run, applicant |-> a, value |-> value, app |-> app]
<1>1. /\ work \in Tables /\ Numbered(work.apps) /\ db \in Tables /\ Numbered(db.runs)
      /\ process.step = "between" /\ process \in Between
      /\ work = db
  BY ProcessKinds DEF ImportInv, ImportTypeOK, RowsAgree, TransactionAdds, BeginApplicant
<1>2. /\ work' = [work EXCEPT !.apps = work.apps \cup {newapp}, !.rows = work.rows \cup {newrow}]
      /\ process' = [step |-> "importing", run |-> process.run, plan |-> process.plan,
                     todo |-> process.todo \ {a}, hashes |-> process.hashes,
                     app |-> app, pending |-> Files(a, process.plan), stored |-> {}]
      /\ db' = db
  BY DEF BeginApplicant
<1>3. newapp \in work.apps \/ newapp.id = Cardinality(work.apps) + 1
  <2>1. ASSUME found # {} PROVE newapp \in work.apps
    BY <2>1, FoundApplication
  <2> QED
    BY <2>1
<1>4. a \in process.todo /\ process.todo \subseteq Applicants
  BY <1>1 DEF BeginApplicant, FirstOf, Between
<1>5. /\ newapp.id = app /\ newapp.applicant = a
      /\ newrow.run = process.run /\ newrow.applicant = a /\ newrow.value = value
  OBVIOUS
<1>6. /\ process'.step = "importing" /\ process'.run = process.run
      /\ process'.plan = process.plan /\ process'.todo = process.todo \ {a}
      /\ process'.app = app /\ process'.pending = Files(a, process.plan)
  BY <1>2
<1> HIDE DEF app, newrow
<1>7. /\ work'.runs = db.runs /\ work'.apps = work.apps \cup {newapp}
      /\ work'.rows = work.rows \cup {newrow} /\ work'.versions = work.versions
      /\ work'.occurrences = work.occurrences
  BY <1>1, <1>2 DEF Tables
<1>8. newapp \in work.apps \/ \A v \in work.versions : v.app # newapp.id
  <2>1. ASSUME newapp.id = Cardinality(work.apps) + 1, NEW v \in work.versions,
               v.app = newapp.id
        PROVE  FALSE
    <3>1. PICK x \in work.apps : x.id = v.app
      BY DEF LedgerInv, RowsHaveOwners
    <3> QED
      BY <1>1, <2>1, <3>1, NextNumber
  <2> QED
    BY <1>3, <2>1
<1>9. Holdings(work') = Holdings(db)
  BY <1>1, <1>7, <1>8, HoldingsAddApplication
<1>10. Listed(work') = Listed(db)
  BY <1>1, <1>7 DEF Listed
<1>11. Imported(work') = Imported(db) \cup
          {[run |-> process.run, applicant |-> a, value |-> value]}
  BY <1>1, <1>5, <1>7, ImportedAdd
<1>12. EnteredSoFar(Applicants \ process.todo)
  BY <1>1 DEF LedgerInv
<1>13. RunIsOpen'
  BY <1>1, <1>2, <1>6 DEF LedgerInv, RunIsOpen
<1>14. process.run \in 1..Cardinality(db.runs)
  <2>1. [id |-> process.run, plan |-> process.plan, status |-> "RUNNING"] \in db.runs
    BY <1>1 DEF LedgerInv, RunIsOpen
  <2> QED
    BY <1>1, <2>1 DEF Numbered
<1>15. RowsHaveOwners(work')
  BY <1>1, <1>5, <1>7, <1>14 DEF LedgerInv, RowsHaveOwners
<1>16. EnteringOne(a)'
  <2>1. (Applicants \ process'.todo) \ {a} = Applicants \ process.todo
    BY <1>4, <1>6
  <2>2. EnteredSoFar((Applicants \ process.todo) \ {a})'
    BY <1>2, <1>6, <1>12, <2>1 DEF EnteredSoFar, EnteredBy
  <2>3. [id |-> process'.app, applicant |-> a] \in work'.apps
    BY <1>6, <1>7
  <2>4. (Files(a, process.plan) \ process.pending)' = {} /\ process'.pending \subseteq Files(a, process'.plan)
    BY <1>6 DEF Files
  <2>5. Imported(work)' = Imported(work') /\ Listed(work)' = Listed(work')
        /\ Holdings(work)' = Holdings(work')
    BY DEF Imported, Listed, Holdings
  <2>6. Imported(db)' = Imported(db) /\ Listed(db)' = Listed(db) /\ Holdings(db)' = Holdings(db)
    BY <1>2 DEF Imported, Listed, Holdings
  <2> QED
    BY <1>6, <1>9, <1>10, <1>11, <2>2, <2>3, <2>4, <2>5, <2>6 DEF EnteringOne
<1>17. RowsHaveOwners(db)' /\ RowsHaveOwners(work)'
  BY <1>2, <1>15 DEF LedgerInv, RowsHaveOwners
<1> QED
  BY <1>4, <1>6, <1>13, <1>16, <1>17 DEF LedgerInv

\* A path that is handled adds its occurrence and, if it is a PDF with bytes,
\* its document, new or known, to what the connection sees.
LEMMA HandleKeepsLedger ==
    ASSUME ImportInv, LedgerInv, NEW l \in Locators, Handle(l), NEW version,
           db' = db, process'.step = "importing", process'.run = process.run,
           process'.plan = process.plan, process'.todo = process.todo,
           process'.app = process.app, process'.pending = process.pending \ {l},
           work'.runs = work.runs, work'.apps = work.apps, work'.rows = work.rows,
           work'.occurrences = work.occurrences \cup {Occurrence(l, version)},
           \/ /\ work'.versions = work.versions
              /\ Planned(l) \in Contents =>
                    \E v \in work.versions : v.app = process.app /\ v.content = Planned(l)
           \/ \E v : /\ v.app = process.app /\ v.content = Planned(l)
                     /\ Planned(l) \in Contents
                     /\ work'.versions = work.versions \cup {v}
    PROVE  LedgerInv'
<1>1. /\ process.step = "importing" /\ l \in process.pending
      /\ \A y, z \in work.apps : y.id = z.id => y = z
  BY Handling DEF RowsAgree, Numbered
<1>2. PICK a \in Applicants \ process.todo : EnteringOne(a)
  BY <1>1 DEF LedgerInv
<1> DEFINE files_ == Files(a, process.plan)
           handled == files_ \ process.pending
           x == [id |-> process.app, applicant |-> a]
           documents(S) == {[applicant |-> a, content |-> c] : c \in {Planned(k) : k \in S} \cap Contents}
           entries(S) == {[run |-> process.run, locator |-> k, content |-> Planned(k)] : k \in S}
<1>3. /\ EnteredSoFar((Applicants \ process.todo) \ {a})
      /\ x \in work.apps
      /\ process.pending \subseteq files_
      /\ Imported(work) = Imported(db) \cup
            {[run |-> process.run, applicant |-> a, value |-> process.plan.register[a]]}
      /\ Listed(work) = Listed(db) \cup entries(handled)
      /\ Holdings(work) = Holdings(db) \cup documents(handled)
  BY <1>2 DEF EnteringOne
<1>4. files_ \ process'.pending = handled \cup {l}
  BY <1>1, <1>3
<1>5. entries(handled \cup {l}) = entries(handled) \cup
         {[run |-> process.run, locator |-> l, content |-> Planned(l)]}
  OBVIOUS
<1>6. documents(handled \cup {l}) = documents(handled) \cup
         {[applicant |-> a, content |-> c] : c \in {Planned(l)} \cap Contents}
  OBVIOUS
<1>7. Listed(work') = Listed(db) \cup entries(handled \cup {l})
  <2>1. /\ Occurrence(l, version).run = process.run /\ Occurrence(l, version).locator = l
        /\ Occurrence(l, version).content = Planned(l)
    BY DEF Occurrence
  <2>2. Listed(work') = Listed(work) \cup
           {[run |-> process.run, locator |-> l, content |-> Planned(l)]}
    BY <2>1, ListedAdd
  <2> HIDE DEF entries
  <2> QED
    BY <1>3, <1>5, <2>2
<1>8. Holdings(work') = Holdings(work) \cup
         {[applicant |-> a, content |-> c] : c \in {Planned(l)} \cap Contents}
  <2>1. CASE /\ work'.versions = work.versions
             /\ Planned(l) \in Contents =>
                   \E v \in work.versions : v.app = process.app /\ v.content = Planned(l)
    <3>1. Holdings(work') = Holdings(work)
      BY <2>1 DEF Holdings
    <3>2. CASE Planned(l) \in Contents
      <4>1. PICK v \in work.versions : v.app = process.app /\ v.content = Planned(l)
        BY <2>1, <3>2
      <4>2. x.id = v.app /\ [applicant |-> a, content |-> Planned(l)] =
               [applicant |-> x.applicant, content |-> v.content]
        BY <4>1
      <4>3. [applicant |-> a, content |-> Planned(l)] \in Holdings(work)
        BY <1>3, <4>2, HoldingsAre
      <4> QED
        BY <3>1, <3>2, <4>3
    <3>3. CASE Planned(l) \notin Contents
      BY <3>1, <3>3
    <3> QED
      BY <3>2, <3>3
  <2>2. ASSUME NEW v, v.app = process.app, v.content = Planned(l), Planned(l) \in Contents,
               work'.versions = work.versions \cup {v}
        PROVE  Holdings(work') = Holdings(work) \cup
                  {[applicant |-> a, content |-> c] : c \in {Planned(l)} \cap Contents}
    <3>1. x.id = v.app /\ x.applicant = a
      BY <2>2
    <3>2. Holdings(work') = Holdings(work) \cup {[applicant |-> a, content |-> Planned(l)]}
      <4> HIDE DEF x
      <4> QED
        BY <1>1, <1>3, <2>2, <3>1, HoldingsAddVersion
    <3> QED
      BY <2>2, <3>2
  <2> QED
    BY <2>1, <2>2
<1>9. Holdings(work') = Holdings(db) \cup documents(handled \cup {l})
  <2> HIDE DEF documents
  <2> QED
    BY <1>3, <1>6, <1>8
<1>10. RunIsOpen' /\ RowsHaveOwners(db)'
  BY <1>1 DEF LedgerInv, RunIsOpen, RowsHaveOwners
<1>11. RowsHaveOwners(work)'
  <2>1. \A v \in work'.versions : \E y \in work.apps : y.id = v.app
    <3>1. x.id = process.app
      OBVIOUS
    <3> QED
      BY <1>3, <3>1 DEF LedgerInv, RowsHaveOwners
  <2> QED
    BY <2>1 DEF LedgerInv, RowsHaveOwners
<1>12. EnteringOne(a)'
  <2>1. EnteredSoFar((Applicants \ process.todo) \ {a})'
    BY <1>3 DEF EnteredSoFar, EnteredBy
  <2>2. /\ Imported(work)' = Imported(work) /\ Imported(db)' = Imported(db)
        /\ Listed(work)' = Listed(work') /\ Listed(db)' = Listed(db)
        /\ Holdings(work)' = Holdings(work') /\ Holdings(db)' = Holdings(db)
    BY DEF Imported, Listed, Holdings
  <2>3. /\ process'.pending \subseteq files_
        /\ Files(a, process.plan)' = files_
    BY <1>3 DEF Files
  <2>4. \A k : Planned(k)' = Planned(k)
    BY DEF Planned
  <2>5. {[run |-> process'.run, locator |-> k, content |-> Planned(k)'] : k \in handled \cup {l}}
           = entries(handled \cup {l})
    BY <2>4
  <2>6. {[applicant |-> a, content |-> c] : c \in {Planned(k)' : k \in handled \cup {l}} \cap Contents}
           = documents(handled \cup {l})
    BY <2>4
  <2> HIDE DEF entries, documents, files_
  <2>7. Files(a, process.plan)' \ process'.pending = handled \cup {l}
    BY <1>4, <2>3
  <2> HIDE DEF handled
  <2> QED
    BY <1>3, <1>7, <1>9, <2>1, <2>2, <2>3, <2>5, <2>6, <2>7 DEF EnteringOne
<1> QED
  BY <1>2, <1>10, <1>11, <1>12 DEF LedgerInv

\* A skipped file, a known content and a new version are all handled paths.
LEMMA FileKeepsLedger ==
    ASSUME ImportInv, LedgerInv, NEW l \in Locators,
           RecordOnly(l) \/ RecordExisting(l) \/ Ingest(l)
    PROVE  LedgerInv'
<1>1. Handle(l) /\ db' = db
  BY DEF RecordOnly, RecordExisting, Ingest
<1>2. /\ process \in Importing /\ process.step = "importing"
      /\ work \in Tables /\ RowsAgree(work) /\ Planned(l) = source[l]
  BY <1>1, Handling
<1>3. ASSUME NEW version,
             work' = [work EXCEPT !.occurrences = @ \cup {Occurrence(l, version)}],
             process' = [process EXCEPT !.pending = @ \ {l}],
             Planned(l) \in Contents =>
                \E v \in work.versions : v.app = process.app /\ v.content = Planned(l)
      PROVE  LedgerInv'
  <2>1. /\ work'.runs = work.runs /\ work'.apps = work.apps /\ work'.rows = work.rows
        /\ work'.versions = work.versions
        /\ work'.occurrences = work.occurrences \cup {Occurrence(l, version)}
    BY <1>2, <1>3 DEF Tables
  <2>2. /\ process'.step = "importing" /\ process'.run = process.run
        /\ process'.plan = process.plan /\ process'.todo = process.todo
        /\ process'.app = process.app /\ process'.pending = process.pending \ {l}
    BY <1>2, <1>3 DEF Importing
  <2> QED
    BY <1>1, <1>3, <2>1, <2>2, HandleKeepsLedger
<1>4. CASE RecordOnly(l)
  <2>1. Planned(l) \notin Contents
    BY <1>4, ImportAssumption DEF RecordOnly, Skippable
  <2> QED
    BY <1>3, <1>4, <2>1 DEF RecordOnly
<1>5. CASE RecordExisting(l)
  <2>1. PICK version \in ExistingVersions(process.app, Planned(l)) :
           work' = [work EXCEPT !.occurrences = @ \cup {Occurrence(l, version)}]
    BY <1>5 DEF RecordExisting
  <2>2. PICK o \in work.occurrences :
           o.app = process.app /\ o.content = Planned(l) /\ o.version # NoVersion
    BY DEF ExistingVersions
  <2>3. \E v \in work.versions : v.app = process.app /\ v.content = Planned(l)
    BY <1>2, <2>2 DEF RowsAgree
  <2> QED
    BY <1>3, <1>5, <2>1, <2>3 DEF RecordExisting
<1>6. CASE Ingest(l)
  <2> DEFINE k == keys + 1
             ver == NewVersion(l, source[l], k)
  <2>1. /\ source[l] \in Contents
        /\ work' = [work EXCEPT !.versions = work.versions \cup {ver},
                                !.occurrences = work.occurrences \cup {Occurrence(l, k)}]
        /\ process' = [process EXCEPT !.pending = process.pending \ {l},
                          !.stored = process.stored \cup {k},
                          !.hashes = process.hashes \cup {<<process.app, source[l]>>}]
    BY <1>6 DEF Ingest, Admissible
  <2>2. ver.app = process.app /\ ver.content = Planned(l)
    BY <1>2 DEF NewVersion
  <2> HIDE DEF ver, k
  <2>3. /\ work'.runs = work.runs /\ work'.apps = work.apps /\ work'.rows = work.rows
        /\ work'.versions = work.versions \cup {ver}
        /\ work'.occurrences = work.occurrences \cup {Occurrence(l, k)}
    BY <1>2, <2>1 DEF Tables
  <2>4. /\ process'.step = "importing" /\ process'.run = process.run
        /\ process'.plan = process.plan /\ process'.todo = process.todo
        /\ process'.app = process.app /\ process'.pending = process.pending \ {l}
    BY <1>2, <2>1 DEF Importing
  <2>5. Planned(l) \in Contents
    BY <1>2, <2>1
  <2> QED
    BY <1>1, <2>2, <2>3, <2>4, <2>5, HandleKeepsLedger
<1> QED
  BY <1>4, <1>5, <1>6

\* When nothing is pending, what the connection adds is the applicant's row,
\* files and documents: the commit enters the applicant as a whole.
LEMMA CommitEnters ==
    ASSUME ImportInv, LedgerInv, process.step = "importing", AllHandled,
           db' = work, UNCHANGED environment
    PROVE  /\ \E r \in db.runs, a \in Applicants : Ledger!Enter(r, a)
           /\ RowsHaveOwners(db)'
           /\ db'.runs = db.runs
           /\ \A b \in Applicants :
                 EnteredBy(db', process.run, b) <=> b \in Applicants \ process.todo
<1>1. PICK a \in Applicants \ process.todo : EnteringOne(a)
  BY DEF LedgerInv
<1> DEFINE r == [id |-> process.run, plan |-> process.plan, status |-> "RUNNING"]
           mine == Files(a, process.plan)
<1>2. process.pending = {} /\ mine \ process.pending = mine
  BY DEF AllHandled
<1>3. /\ EnteredSoFar((Applicants \ process.todo) \ {a})
      /\ Imported(work) = Imported(db) \cup
            {[run |-> process.run, applicant |-> a, value |-> process.plan.register[a]]}
      /\ Listed(work) = Listed(db) \cup
            {[run |-> process.run, locator |-> l, content |-> Planned(l)] : l \in mine}
      /\ Holdings(work) = Holdings(db) \cup
            {[applicant |-> a, content |-> c] : c \in {Planned(l) : l \in mine} \cap Contents}
  BY <1>1, <1>2 DEF EnteringOne
<1>4. r \in db.runs /\ \A y \in db.runs : y.id <= process.run
  BY DEF LedgerInv, RunIsOpen
<1>5. db'.runs = db.runs
  BY DEF ImportInv, TransactionAdds
<1>6. /\ Imported(db)' = Imported(work) /\ Listed(db)' = Listed(work)
      /\ Holdings(db)' = Holdings(work) /\ Plan' = Plan
  BY DEF Imported, Listed, Holdings, Plan, environment
<1>7. Ledger!Files(r, a) = mine
  BY DEF Ledger!Files, Files
<1>8. \A l : Planned(l) = r.plan.source[l]
  BY DEF Planned
<1>9. ~Ledger!Entered(r, a)
  <2>1. ~EnteredBy(db, process.run, a)
    BY <1>1, <1>3 DEF EnteredSoFar
  <2> QED
    BY <2>1, EnteredByRows DEF Ledger!Entered
<1>10. Ledger!Open(r)
  BY <1>4 DEF Ledger!Open
<1>11. {[run |-> process.run, locator |-> l, content |-> Planned(l)] : l \in mine}
          = {[run |-> r.id, locator |-> l, content |-> r.plan.source[l]] : l \in mine}
  BY <1>8
<1>12. {Planned(l) : l \in mine} = {r.plan.source[l] : l \in mine}
  BY <1>8
<1>13. r.id = process.run /\ r.plan = process.plan
  OBVIOUS
<1> HIDE DEF r, mine
<1>14. Ledger!Enter(r, a)
  BY <1>3, <1>5, <1>6, <1>7, <1>9, <1>10, <1>11, <1>12, <1>13 DEF Ledger!Enter
<1>15. RowsHaveOwners(db)'
  BY DEF LedgerInv, RowsHaveOwners
<1>16. ASSUME NEW b \in Applicants
       PROVE  EnteredBy(db', process.run, b) <=> b \in Applicants \ process.todo
  <2>1. EnteredBy(db', process.run, b) <=>
           \E i \in Imported(work) : i.run = process.run /\ i.applicant = b
    BY EnteredByRows
  <2>2. EnteredBy(db, process.run, b) <=>
           \E i \in Imported(db) : i.run = process.run /\ i.applicant = b
    BY EnteredByRows
  <2>3. EnteredBy(db, process.run, b) <=> b \in (Applicants \ process.todo) \ {a}
    BY <1>3 DEF EnteredSoFar
  <2> DEFINE new == [run |-> process.run, applicant |-> a, value |-> process.plan.register[a]]
  <2>4. new.run = process.run /\ new.applicant = a
    OBVIOUS
  <2>5. Imported(work) = Imported(db) \cup {new}
    BY <1>3
  <2> HIDE DEF new
  <2>6. EnteredBy(db', process.run, b) <=> EnteredBy(db, process.run, b) \/ b = a
    BY <2>1, <2>2, <2>4, <2>5
  <2> QED
    BY <1>1, <2>3, <2>6
<1> QED
  BY <1>4, <1>5, <1>14, <1>15, <1>16

\* A run that is marked is closed: completed only after its last applicant.
LEMMA MarkCloses ==
    ASSUME ImportInv, LedgerInv, process.step # "none",
           NEW status \in {"COMPLETED", "FAILED"},
           db' = [db EXCEPT !.runs = RunStatus(process.run, status)],
           status = "COMPLETED" => process.step = "between" /\ process.todo = {},
           UNCHANGED environment
    PROVE  RowsHaveOwners(db)' /\ \E r \in db.runs : Ledger!Close(r, status)
<1> DEFINE r == [id |-> process.run, plan |-> process.plan, status |-> "RUNNING"]
<1>1. db \in Tables /\ Numbered(db.runs)
  BY DEF ImportInv, ImportTypeOK, RowsAgree
<1>2. r \in db.runs /\ \A y \in db.runs : y.id <= process.run
  BY DEF LedgerInv, RunIsOpen
<1>3. /\ db'.runs = RunStatus(process.run, status)
      /\ db'.apps = db.apps /\ db'.rows = db.rows
      /\ db'.versions = db.versions /\ db'.occurrences = db.occurrences
  BY <1>1 DEF Tables
<1>4. \A y \in db.runs : y.id = process.run <=> y = r
  BY <1>1, <1>2 DEF Numbered
<1>5. RunStatus(process.run, status) = (db.runs \ {r}) \cup {[r EXCEPT !.status = status]}
  <2>1. RunStatus(process.run, status) =
          {IF y = r THEN [r EXCEPT !.status = status] ELSE y : y \in db.runs}
    BY <1>4 DEF RunStatus
  <2> HIDE DEF r
  <2> QED
    BY <1>2, <2>1
<1>6. /\ Imported(db)' = Imported(db) /\ Listed(db)' = Listed(db)
      /\ Holdings(db)' = Holdings(db) /\ Plan' = Plan
  BY <1>3 DEF Imported, Listed, Holdings, Plan, environment
<1>7. Ledger!Open(r)
  BY <1>2 DEF Ledger!Open
<1>8. ASSUME status = "COMPLETED", NEW a \in Applicants PROVE Ledger!Entered(r, a)
  <2>1. EnteredBy(db, process.run, a)
    BY <1>8 DEF LedgerInv, EnteredSoFar
  <2>2. \E i \in Imported(db) : i.run = process.run /\ i.applicant = a
    BY <2>1, EnteredByRows
  <2> QED
    BY <2>2 DEF Ledger!Entered
<1>9. Cardinality(db'.runs) = Cardinality(db.runs)
  BY <1>1, <1>3, RunStatusNumbered
<1> HIDE DEF r
<1>10. Ledger!Close(r, status)
  BY <1>3, <1>5, <1>6, <1>7, <1>8 DEF Ledger!Close
<1>11. RowsHaveOwners(db)'
  BY <1>3, <1>9 DEF LedgerInv, RowsHaveOwners
<1> QED
  BY <1>2, <1>10, <1>11

\* A process that is over leaves what is committed.
LEMMA StopKeepsLedger ==
    ASSUME process' = NoProcess, work' = db', RowsHaveOwners(db)'
    PROVE  LedgerInv'
<1>1. process'.step = "none"
  BY DEF NoProcess
<1> QED
  BY <1>1 DEF LedgerInv, RunIsOpen, RowsHaveOwners

\* Each step of the importer is a step of the ledger or leaves it alone.
LEMMA LedgerStep ==
    ASSUME ImportInv, ImportInv', LedgerInv, [ImportNext]_importVars
    PROVE  LedgerInv' /\ [Ledger!Next]_(Ledger!ledgerVars)
<1>1. ASSUME db' = db, UNCHANGED environment
      PROVE  UNCHANGED Ledger!ledgerVars
  BY <1>1 DEF Ledger!ledgerVars, Imported, Listed, Holdings, Plan, environment
<1>2. CASE UNCHANGED importVars
  <2>1. db' = db /\ work' = work /\ process' = process /\ UNCHANGED environment
    BY <1>2 DEF importVars
  <2>2. \A a : EnteringOne(a) => EnteringOne(a)'
    BY <2>1 DEF EnteringOne, EnteredSoFar, EnteredBy, Imported, Listed, Holdings, Planned, Files
  <2>3. RunIsOpen' /\ RowsHaveOwners(db)' /\ RowsHaveOwners(work)'
    BY <2>1 DEF LedgerInv, RunIsOpen, RowsHaveOwners
  <2>4. process.step = "between" => EnteredSoFar(Applicants \ process.todo)'
    BY <2>1 DEF LedgerInv, EnteredSoFar, EnteredBy
  <2>5. LedgerInv'
    BY <2>1, <2>2, <2>3, <2>4 DEF LedgerInv
  <2> QED
    BY <1>1, <2>1, <2>5
<1>3. CASE StartRun
  BY <1>3, StartKeepsLedger DEF Ledger!Next
<1>4. ASSUME NEW a \in Applicants, BeginApplicant(a)
      PROVE  LedgerInv' /\ [Ledger!Next]_(Ledger!ledgerVars)
  BY <1>1, <1>4, BeginKeepsLedger DEF BeginApplicant
<1>5. ASSUME NEW l \in Locators, RecordOnly(l) \/ RecordExisting(l) \/ Ingest(l)
      PROVE  LedgerInv' /\ [Ledger!Next]_(Ledger!ledgerVars)
  <2>1. db' = db /\ UNCHANGED environment
    BY <1>5 DEF RecordOnly, RecordExisting, Ingest
  <2> QED
    BY <1>1, <1>5, <2>1, FileKeepsLedger
<1>6. CASE CommitApplicant
  <2>1. /\ process.step = "importing" /\ AllHandled /\ db' = work /\ work' = work
        /\ UNCHANGED environment
        /\ process' = [step |-> "between", run |-> process.run, plan |-> process.plan,
                       todo |-> process.todo, hashes |-> process.hashes]
    BY <1>6 DEF CommitApplicant
  <2>2. /\ Ledger!Next /\ RowsHaveOwners(db)' /\ db'.runs = db.runs
        /\ \A b \in Applicants :
              EnteredBy(db', process.run, b) <=> b \in Applicants \ process.todo
    BY <2>1, CommitEnters DEF Ledger!Next
  <2>3. /\ process'.step = "between" /\ process'.run = process.run
        /\ process'.plan = process.plan /\ process'.todo = process.todo
    BY <2>1
  <2>4. RunIsOpen'
    BY <2>1, <2>2, <2>3 DEF LedgerInv, RunIsOpen
  <2>5. EnteredSoFar(Applicants \ process.todo)'
    BY <2>2, <2>3 DEF EnteredSoFar, EnteredBy
  <2>6. RowsHaveOwners(work)'
    BY <2>1, <2>2 DEF RowsHaveOwners
  <2> QED
    BY <2>2, <2>3, <2>4, <2>5, <2>6 DEF LedgerInv
<1>7. ASSUME NEW status \in {"COMPLETED", "FAILED"}, process.step # "none",
             db' = [db EXCEPT !.runs = RunStatus(process.run, status)],
             status = "COMPLETED" => process.step = "between" /\ process.todo = {},
             UNCHANGED environment, process' = NoProcess, work' = db'
      PROVE  LedgerInv' /\ [Ledger!Next]_(Ledger!ledgerVars)
  <2>1. RowsHaveOwners(db)' /\ \E r \in db.runs : Ledger!Close(r, status)
    BY <1>7, MarkCloses
  <2> QED
    BY <1>7, <2>1, StopKeepsLedger DEF Ledger!Next
<1>8. CASE CompleteRun \/ FailRun
  BY <1>7, <1>8 DEF CompleteRun, FailRun
<1>9. ASSUME db' = db, UNCHANGED environment, process' = NoProcess, work' = db'
      PROVE  LedgerInv' /\ [Ledger!Next]_(Ledger!ledgerVars)
  <2>1. RowsHaveOwners(db)'
    BY <1>9 DEF LedgerInv, RowsHaveOwners
  <2> QED
    BY <1>1, <1>9, <2>1, StopKeepsLedger
<1>10. CASE FailApplicant
  BY <1>7, <1>9, <1>10 DEF FailApplicant
<1>11. CASE LoseCommit
  <2>1. /\ process.step = "importing" /\ AllHandled /\ db' = work /\ work' = db'
        /\ UNCHANGED environment /\ process' = NoProcess
    BY <1>11 DEF LoseCommit
  <2>2. Ledger!Next /\ RowsHaveOwners(db)'
    BY <2>1, CommitEnters DEF Ledger!Next
  <2> QED
    BY <2>1, <2>2, StopKeepsLedger
<1>12. CASE Crash
  BY <1>9, <1>12 DEF Crash
<1>13. CASE \/ \E l \in Locators : EditSource(l)
            \/ \E a \in Applicants : EditRegister(a)
  <2>1. process = NoProcess /\ UNCHANGED <<db, work, process>>
    BY <1>13 DEF EditSource, EditRegister
  <2>2. Plan' \in Plans
    BY DEF ImportInv, ImportTypeOK
  <2>3. /\ Imported(db)' = Imported(db) /\ Listed(db)' = Listed(db)
        /\ Holdings(db)' = Holdings(db) /\ db'.runs = db.runs
    BY <2>1 DEF Imported, Listed, Holdings
  <2>4. Ledger!Change
    BY <2>2, <2>3 DEF Ledger!Change
  <2>5. process.step = "none"
    BY <2>1 DEF NoProcess
  <2>6. LedgerInv'
    BY <2>1, <2>5 DEF LedgerInv, RunIsOpen, RowsHaveOwners
  <2> QED
    BY <2>4, <2>6 DEF Ledger!Next
<1> QED
  BY <1>2, <1>3, <1>4, <1>5, <1>6, <1>8, <1>10, <1>11, <1>12, <1>13 DEF ImportNext

\* The importer, with its failures, crashes and lost answers, implements
\* ImportLedger: an applicant is entered as a whole or not at all, and a run is
\* completed only after its last applicant (execute_import, _import_applicant).
THEOREM ImportImplementsLedger == ImportSpec => ImplementsLedger
<1>1. ImportInit => LedgerInv /\ Ledger!Init
  BY LedgerInitially
<1>2. ImportInv /\ ImportInv' /\ LedgerInv /\ [ImportNext]_importVars
          => LedgerInv' /\ [Ledger!Next]_(Ledger!ledgerVars)
  BY LedgerStep
<1> QED
  BY <1>1, <1>2, ImportHolds, PTL DEF ImportSpec, ImplementsLedger, Ledger!Spec
=============================================================================
