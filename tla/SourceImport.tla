---------------------------- MODULE SourceImport ----------------------------
(***************************************************************************)
(* The import of the applicants' source folders: execute_import and        *)
(* _import_applicant of app/importer/run.py over SqlImportRepository and   *)
(* DocumentStoreIngestor.  One operator process inventories the folders,   *)
(* starts a run and imports one applicant per database transaction; it is  *)
(* run again after a failure, a crash or a change of the sources, which    *)
(* are read-only while it runs.                                            *)
(*                                                                         *)
(* `db' is what is committed and `work' what the connection sees.  Objects *)
(* are written to the store inside the transaction and discarded if it     *)
(* fails; files survive a crash, the transaction does not.  A commit may   *)
(* succeed although its answer is lost: the importer then discards the     *)
(* objects of what it committed.                                           *)
(*                                                                         *)
(* The weakened twin above a definition is a mutant of it (README,         *)
(* Mutants).                                                               *)
(***************************************************************************)
EXTENDS Naturals, FiniteSets

CONSTANTS
    Applicants,     \* row numbers of the register, one per applicant name
    RowValues,      \* what else a register row may say
    Locators,       \* relative paths of the source files, in inventory order
    Owner,          \* Owner[l]: the applicant whose folder holds the path
    Contents,       \* contents of PDF files
    TypeOf,         \* TypeOf[c]: the document type suggest_classification finds
    EmptyFile,      \* a PDF of zero bytes
    NonPdf,         \* any file that is not a PDF
    Absent,         \* no file at this path
    MaxRuns, MaxEdits, MaxCrashes, MaxLost  \* bounds

ASSUME ImportAssumption ==
    /\ Owner \in [Locators -> Applicants]
    /\ Applicants \cup Locators \subseteq Nat
    /\ {MaxRuns, MaxEdits, MaxCrashes, MaxLost} \subseteq Nat
    /\ {EmptyFile, NonPdf, Absent} \cap Contents = {}

VARIABLES
    source,         \* source[l]: the file at the path now
    register,       \* register[a]: the applicant's row now
    db,             \* committed rows
    work,           \* rows as the importer's connection sees them
    files,          \* keys of the objects in the store, with their content
    process,        \* the importer process: where it is and what it knows
    keys,           \* object keys drawn so far
    edits, crashes, \* how often the sources changed, the process died
    lost,           \* object keys whose commit succeeded unanswered
    orphans         \* object keys of transactions that a crash ended

NoProcess == [step |-> "none"]
NoVersion == 0
NoRows == [runs |-> {}, apps |-> {}, rows |-> {}, versions |-> {}, occurrences |-> {}]

environment == <<source, register, edits>>
faults == <<crashes, lost, orphans>>
importVars == <<environment, db, work, files, process, keys, faults>>

ImportInit ==
    /\ source \in [Locators -> Contents \cup {EmptyFile, NonPdf, Absent}]
    /\ register \in [Applicants -> RowValues]
    /\ db = NoRows
    /\ work = NoRows
    /\ files = {}
    /\ process = NoProcess
    /\ keys = 0
    /\ edits = 0
    /\ crashes = 0
    /\ lost = {}
    /\ orphans = {}

-----------------------------------------------------------------------------
(* What the repository looks up.                                           *)

Plan == [source |-> source, register |-> register]

CompletedRun(plan) == \E r \in db.runs : r.plan = plan /\ r.status = "COMPLETED"

\* application_for: the row was imported before, or the name was.
FoundByRow(a, value) ==
    {r.app : r \in {x \in work.rows : x.applicant = a /\ x.value = value}}
FoundByName(a) == {x.id : x \in {y \in work.apps : y.applicant = a}}

OnlyByRow(a, value) == FoundByRow(a, value)
Found(a, value) ==
    IF FoundByRow(a, value) # {} THEN FoundByRow(a, value) ELSE FoundByName(a)

\* existing_version_for_content: any run's occurrence of this content in the
\* application, of whatever path.
ExistingVersions(app, content) ==
    {o.version : o \in {x \in work.occurrences :
        x.app = app /\ x.content = content /\ x.version # NoVersion}}

-----------------------------------------------------------------------------
(* The run.                                                                *)

\* execute_import up to the commit of the call-level occurrences, which is
\* also the commit of the ImportRun row.  A completed run is reused.
StartRun ==
    LET run == Cardinality(db.runs) + 1 IN
    /\ process = NoProcess
    /\ ~CompletedRun(Plan)
    /\ run <= MaxRuns
    /\ db' = [db EXCEPT !.runs = @ \cup {[id |-> run, plan |-> Plan, status |-> "RUNNING"]}]
    /\ work' = db'
    /\ process' = [step |-> "between", run |-> run, plan |-> Plan,
                   todo |-> Applicants, hashes |-> {}]
    /\ UNCHANGED <<environment, files, keys, faults>>

RunStatus(run, status) ==
    {IF r.id = run THEN [r EXCEPT !.status = status] ELSE r : r \in db.runs}

Files(a, plan) == {l \in Locators : Owner[l] = a /\ plan.source[l] # Absent}

FirstOf(numbers) == {n \in numbers : \A m \in numbers : n <= m}

\* _import_applicant, in register order: the application and its import row.
BeginApplicant(a) ==
    LET value == process.plan.register[a]
        found == Found(a, value)
        app   == IF found # {} THEN CHOOSE id \in found : TRUE
                 ELSE Cardinality(work.apps) + 1
    IN
    /\ process.step = "between"
    /\ a \in FirstOf(process.todo)
    /\ work' = [work EXCEPT
         !.apps = @ \cup {[id |-> app, applicant |-> a]},
         !.rows = @ \cup {[run |-> process.run, applicant |-> a, value |-> value, app |-> app]}]
    /\ process' = [step |-> "importing", run |-> process.run, plan |-> process.plan,
                   todo |-> process.todo \ {a}, hashes |-> process.hashes,
                   app |-> app, pending |-> Files(a, process.plan), stored |-> {}]
    /\ UNCHANGED <<environment, db, files, keys, faults>>

\* What the inventory said of the path.
Planned(l) == process.plan.source[l]

Occurrence(l, version) ==
    [run |-> process.run, app |-> process.app, locator |-> l,
     content |-> Planned(l), version |-> version]

Handle(l) ==
    /\ process.step = "importing"
    /\ l \in FirstOf(process.pending)

\* A document that is not ingested is recorded and skipped only if it is no
\* PDF or has no bytes; any other failure ends the run.
SkippableIfAny(content) == TRUE
Skippable(content) == content \in {EmptyFile, NonPdf}

RecordOnly(l) ==
    /\ Handle(l)
    /\ Skippable(Planned(l))
    /\ work' = [work EXCEPT !.occurrences = @ \cup {Occurrence(l, NoVersion)}]
    /\ process' = [process EXCEPT !.pending = @ \ {l}]
    /\ UNCHANGED <<environment, db, files, keys, faults>>

\* The content is known: the occurrence refers to its version.
RecordExisting(l) ==
    /\ Handle(l)
    /\ Planned(l) # NonPdf
    /\ \E version \in ExistingVersions(process.app, Planned(l)) :
          work' = [work EXCEPT !.occurrences = @ \cup {Occurrence(l, version)}]
    /\ process' = [process EXCEPT !.pending = @ \ {l}]
    /\ UNCHANGED <<environment, db, files, keys, faults>>

\* prepare_document: the slot of a path keeps its document type.
TypeFits(l, content) ==
    \A v \in work.versions :
        v.app = process.app /\ v.locator = l => TypeOf[v.content] = TypeOf[content]

\* DocumentStoreIngestor.ingest: what validation, the scanner and the duplicate
\* check of this process admit.
Admissible(content) ==
    /\ content \in Contents
    /\ <<process.app, content>> \notin process.hashes

\* record_document: the version in the slot of its path.
NewVersion(l, content, key) ==
    [key |-> key, app |-> process.app, locator |-> l, content |-> content]

\* The file is read again, admitted, stored and registered; the occurrence
\* carries the hash of the inventory.
Ingest(l) ==
    LET content == source[l] IN
    /\ Handle(l)
    /\ Planned(l) # NonPdf
    /\ ExistingVersions(process.app, Planned(l)) = {}
    /\ Admissible(content)
    /\ TypeFits(l, content)
    /\ keys' = keys + 1
    /\ files' = files \cup {[key |-> keys', content |-> content]}
    /\ work' = [work EXCEPT
         !.versions = @ \cup {NewVersion(l, content, keys')},
         !.occurrences = @ \cup {Occurrence(l, keys')}]
    /\ process' = [process EXCEPT !.pending = @ \ {l}, !.stored = @ \cup {keys'},
                                  !.hashes = @ \cup {<<process.app, content>>}]
    /\ UNCHANGED <<environment, db, faults>>

\* The loop over the applicant's files is over.
HandledOrNot == TRUE
AllHandled == process.pending = {}

CommitApplicant ==
    /\ process.step = "importing"
    /\ AllHandled
    /\ db' = work
    /\ process' = [step |-> "between", run |-> process.run, plan |-> process.plan,
                   todo |-> process.todo, hashes |-> process.hashes]
    /\ UNCHANGED <<environment, work, files, keys, faults>>

CompleteRun ==
    /\ process.step = "between"
    /\ process.todo = {}
    /\ db' = [db EXCEPT !.runs = RunStatus(process.run, "COMPLETED")]
    /\ work' = db'
    /\ process' = NoProcess
    /\ UNCHANGED <<environment, files, keys, faults>>

-----------------------------------------------------------------------------
(* Failures.                                                               *)

\* The objects of the transaction that failed, in _import_applicant's list.
DiscardedAll ==
    {f \in files : \A v \in work.versions : f.key = v.key => v.app # process.app}
Discarded == {f \in files : f.key \notin process.stored}

\* An applicant's transaction fails (admission, registration, type conflict,
\* database): it is rolled back, its objects are discarded and the run is
\* marked FAILED, or stays RUNNING when the database is gone.
FailApplicant ==
    /\ process.step = "importing"
    /\ files' = Discarded
    /\ \/ db' = [db EXCEPT !.runs = RunStatus(process.run, "FAILED")]
       \/ UNCHANGED db
    /\ work' = db'
    /\ process' = NoProcess
    /\ UNCHANGED <<environment, keys, faults>>

\* complete_run raises before its commit.
FailRun ==
    /\ process.step = "between"
    /\ process.todo = {}
    /\ db' = [db EXCEPT !.runs = RunStatus(process.run, "FAILED")]
    /\ work' = db'
    /\ process' = NoProcess
    /\ UNCHANGED <<environment, files, keys, faults>>

\* The commit succeeds and its answer is lost: to the importer a failure.
LoseCommit ==
    /\ process.step = "importing"
    /\ AllHandled
    /\ Cardinality(lost) < MaxLost
    /\ process.stored # {}
    /\ files' = Discarded
    /\ db' = work
    /\ work' = work
    /\ lost' = lost \cup process.stored
    /\ process' = NoProcess
    /\ UNCHANGED <<environment, keys, crashes, orphans>>

\* The process dies: the transaction is rolled back, the objects stay.
Crash ==
    /\ process.step # "none"
    /\ crashes < MaxCrashes
    /\ crashes' = crashes + 1
    /\ work' = db
    /\ orphans' = IF process.step = "importing" THEN orphans \cup process.stored
                  ELSE orphans
    /\ process' = NoProcess
    /\ UNCHANGED <<environment, db, files, keys, lost>>

\* Somebody replaces, adds or removes a source file, or corrects the register.
EditSource(l) ==
    /\ edits < MaxEdits
    /\ process = NoProcess
    /\ edits' = edits + 1
    /\ \E content \in Contents \cup {EmptyFile, NonPdf, Absent} :
          content # source[l] /\ source' = [source EXCEPT ![l] = content]
    /\ UNCHANGED <<register, db, work, files, process, keys, faults>>

EditRegister(a) ==
    /\ edits < MaxEdits
    /\ process = NoProcess
    /\ edits' = edits + 1
    /\ \E value \in RowValues :
          value # register[a] /\ register' = [register EXCEPT ![a] = value]
    /\ UNCHANGED <<source, db, work, files, process, keys, faults>>

ImportNext ==
    \/ StartRun
    \/ \E a \in Applicants : BeginApplicant(a)
    \/ \E l \in Locators : RecordOnly(l) \/ RecordExisting(l) \/ Ingest(l)
    \/ CommitApplicant
    \/ CompleteRun
    \/ FailApplicant
    \/ FailRun
    \/ LoseCommit
    \/ Crash
    \/ \E l \in Locators : EditSource(l)
    \/ \E a \in Applicants : EditRegister(a)

ImportSpec == ImportInit /\ [][ImportNext]_importVars

-----------------------------------------------------------------------------
(* Properties.                                                             *)

\* However often the import is repeated, interrupted or fed changed sources,
\* an applicant has one application, an application one applicant, and a
\* content one version in it.
ImportedOnce ==
    /\ \A x, y \in db.apps : x.applicant = y.applicant \/ x.id = y.id => x = y
    /\ \A v, w \in db.versions : v.app = w.app /\ v.content = w.content => v = w

\* The occurrences of a run account for a file of its plan: a PDF with bytes
\* has a version with the content the plan lists.
Accounted(tables, run, plan, l) ==
    \E o \in tables.occurrences :
        /\ o.run = run /\ o.locator = l
        /\ plan.source[l] \in Contents =>
              \E v \in tables.versions : v.key = o.version /\ v.content = plan.source[l]

\* A run marked COMPLETED has accounted for every file of its plan
\* (execute_import marks it only after its last applicant).
CompletedRunIsWhole ==
    \A r \in db.runs : r.status = "COMPLETED" =>
        \A l \in Locators : r.plan.source[l] # Absent => Accounted(db, r.id, r.plan, l)

\* The store and the committed versions agree: a version keeps its object
\* whatever later transactions failed and discarded, unless the answer to its
\* own commit was lost; and an object that is no version's belongs to the open
\* transaction or to one that a crash ended (_import_applicant's discard).
StoreMatchesVersions ==
    /\ \A v \in db.versions : v.key \notin lost =>
          [key |-> v.key, content |-> v.content] \in files
    /\ \A f \in files :
          \/ \E v \in db.versions : v.key = f.key
          \/ process.step = "importing" /\ f.key \in process.stored
          \/ f.key \in orphans

-----------------------------------------------------------------------------
(* What the import implements.                                             *)

Sources == Contents \cup {EmptyFile, NonPdf, Absent}

Plans == [source : [Locators -> Sources], register : [Applicants -> RowValues]]

\* What the tables say of the register rows and files of each run, and of the
\* documents of each applicant.
Imported(tables) ==
    {[run |-> r.run, applicant |-> r.applicant, value |-> r.value] : r \in tables.rows}
Listed(tables) ==
    {[run |-> o.run, locator |-> o.locator, content |-> o.content] : o \in tables.occurrences}
Holdings(tables) ==
    {[applicant |-> p[1].applicant, content |-> p[2].content] :
        p \in {q \in tables.apps \X tables.versions : q[1].id = q[2].app}}

Ledger == INSTANCE ImportLedger WITH
    sources <- Plan, runs <- db.runs,
    imported <- Imported(db), listed <- Listed(db), holdings <- Holdings(db)

\* The transactions of the importer, with their failures, crashes and lost
\* answers, enter an applicant's row, files and documents all at once or not
\* at all; only a run that entered every applicant is completed, and neither a
\* completed nor an interrupted run goes on (execute_import).
ImplementsLedger == Ledger!Spec

-----------------------------------------------------------------------------
(* Why they hold.                                                          *)

Tables ==
    [runs : SUBSET [id : Nat, plan : Plans, status : {"RUNNING", "COMPLETED", "FAILED"}],
     apps : SUBSET [id : Nat, applicant : Applicants],
     rows : SUBSET [run : Nat, applicant : Applicants, value : RowValues, app : Nat],
     versions : SUBSET [key : Nat, app : Nat, locator : Locators, content : Contents],
     occurrences : SUBSET [run : Nat, app : Nat, locator : Locators,
                           content : Sources, version : Nat]]

Between ==
    [step : {"between"}, run : Nat, plan : Plans, todo : SUBSET Applicants,
     hashes : SUBSET (Nat \X Contents)]

Importing ==
    [step : {"importing"}, run : Nat, plan : Plans, todo : SUBSET Applicants,
     hashes : SUBSET (Nat \X Contents), app : Nat, pending : SUBSET Locators,
     stored : SUBSET Nat]

ImportTypeOK ==
    /\ Plan \in Plans
    /\ db \in Tables
    /\ work \in Tables
    /\ files \subseteq [key : Nat, content : Contents]
    /\ process \in {NoProcess} \cup Between \cup Importing
    /\ keys \in Nat
    /\ edits \in Nat /\ crashes \in Nat
    /\ lost \subseteq Nat /\ orphans \subseteq Nat

\* Rows number themselves: a new number is no row's.
Numbered(rows) ==
    /\ IsFiniteSet(rows)
    /\ \A x \in rows : x.id \in 1..Cardinality(rows)
    /\ \A x, y \in rows : x.id = y.id => x = y

\* The rows of one applicant agree, and occurrences and versions name each
\* other: what makes application_for and existing_version_for_content find
\* all that was imported before.
RowsAgree(tables) ==
    /\ Numbered(tables.runs)
    /\ Numbered(tables.apps)
    /\ \A x, y \in tables.apps : x.applicant = y.applicant => x = y
    /\ \A r \in tables.rows : [id |-> r.app, applicant |-> r.applicant] \in tables.apps
    /\ \A v, w \in tables.versions : v.app = w.app /\ v.content = w.content => v = w
    /\ \A v \in tables.versions : \E o \in tables.occurrences :
          o.version = v.key /\ o.app = v.app /\ o.content = v.content
    /\ \A o \in tables.occurrences : o.version # NoVersion =>
          \E v \in tables.versions :
              v.key = o.version /\ v.content = o.content /\ v.app = o.app

\* Between two transactions the connection sees what is committed; inside one
\* it has only added rows, and the objects of the new versions are its own.
TransactionAdds ==
    /\ process.step # "importing" => work = db
    /\ work.runs = db.runs
    /\ db.versions \subseteq work.versions
    /\ db.occurrences \subseteq work.occurrences
    /\ \A v \in work.versions : v.key \in 1..keys
    /\ process.step = "importing" =>
          /\ process.stored \subseteq 1..keys
          /\ \A v \in db.versions : v.key \notin process.stored
          /\ \A k \in process.stored : \E v \in work.versions : v.key = k
          /\ \A v \in work.versions : v \in db.versions \/
                (v.key \in process.stored /\ [key |-> v.key, content |-> v.content] \in files)

\* The run in progress has accounted for every file it is done with, under the
\* plan its row carries, and the sources are still those of the plan.
RunIsOnTrack ==
    process.step # "none" =>
        /\ process.plan = Plan
        /\ \A r \in db.runs : r.id = process.run => r.plan = process.plan
        /\ \A l \in Locators :
              /\ process.plan.source[l] # Absent
              /\ Owner[l] \notin process.todo
              /\ process.step = "importing" => l \notin process.pending
              => Accounted(work, process.run, process.plan, l)
        /\ process.step = "importing" => \A l \in process.pending : process.plan.source[l] # Absent

\* The inductive invariant of the source import.
ImportInv ==
    /\ ImportTypeOK
    /\ RowsAgree(db)
    /\ RowsAgree(work)
    /\ TransactionAdds
    /\ RunIsOnTrack
    /\ CompletedRunIsWhole
    /\ StoreMatchesVersions

-----------------------------------------------------------------------------
(* Why it implements the ledger.                                           *)

\* The run in progress is the latest and still open.
RunIsOpen ==
    process.step # "none" =>
        /\ [id |-> process.run, plan |-> process.plan, status |-> "RUNNING"] \in db.runs
        /\ \A r \in db.runs : r.id <= process.run

\* Register rows are of runs that exist, versions of applications that exist.
RowsHaveOwners(tables) ==
    /\ \A row \in tables.rows : row.run \in 1..Cardinality(tables.runs)
    /\ \A v \in tables.versions : \E x \in tables.apps : x.id = v.app

EnteredBy(tables, run, a) == \E row \in tables.rows : row.run = run /\ row.applicant = a

\* Between two transactions the run has entered the applicants it is done with.
EnteredSoFar(done) == \A a \in Applicants : EnteredBy(db, process.run, a) <=> a \in done

\* Inside one, the connection sees what is committed with the applicant's row
\* and with the files that are no longer pending.
EnteringOne(a) ==
    LET handled == Files(a, process.plan) \ process.pending IN
    /\ EnteredSoFar((Applicants \ process.todo) \ {a})
    /\ [id |-> process.app, applicant |-> a] \in work.apps
    /\ process.pending \subseteq Files(a, process.plan)
    /\ Imported(work) = Imported(db) \cup
          {[run |-> process.run, applicant |-> a, value |-> process.plan.register[a]]}
    /\ Listed(work) = Listed(db) \cup
          {[run |-> process.run, locator |-> l, content |-> Planned(l)] : l \in handled}
    /\ Holdings(work) = Holdings(db) \cup
          {[applicant |-> a, content |-> c] : c \in {Planned(l) : l \in handled} \cap Contents}

LedgerInv ==
    /\ RunIsOpen
    /\ RowsHaveOwners(db)
    /\ RowsHaveOwners(work)
    /\ process.step = "between" => EnteredSoFar(Applicants \ process.todo)
    /\ process.step = "importing" =>
          \E a \in Applicants \ process.todo : EnteringOne(a)
=============================================================================
