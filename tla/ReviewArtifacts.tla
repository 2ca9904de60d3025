--------------------------- MODULE ReviewArtifacts ---------------------------
(***************************************************************************)
(* The import of reviewed extracts (app/importer/review_artifacts.py, its  *)
(* command run_review_artifacts.py, app/documents/extract.py): a reviewed  *)
(* manifest names pages of stored source documents; the importer cuts them *)
(* out, scans the extracts and registers each as the next version of the   *)
(* application's review-artifact slot, with its provenance, in one         *)
(* transaction.  Importers of sources and applicants' uploads go on        *)
(* replacing the source documents meanwhile.                               *)
(*                                                                         *)
(* One category and one page range per application stand for all; an       *)
(* extract is determined by the source's content and the pages.            *)
(*                                                                         *)
(* The weakened twin above a definition is a mutant of it.                 *)
(***************************************************************************)
EXTENDS Naturals, Sequences, FiniteSets

CONSTANTS
  Owners,        \* applications with a source document
  Texts,         \* contents of source documents
  Pages,         \* page ranges
  Recommends,    \* <<content, pages>> on which recommendation material is found
  MaxSources, MaxImports, MaxFaults   \* bounds

VARIABLES
  sources,       \* the versions of each source document; the last one is active
  slots,         \* committed versions of each review artifact
  objects,       \* object keys in the store
  importer,      \* the process
  applied,       \* history: the manifest last reported applied
  drawn,         \* object keys drawn
  imports, faults,
  unanswered     \* history: keys whose commit succeeded without an answer

artifactVars == <<sources, slots, objects, importer, applied, drawn, imports, faults, unanswered>>

Stopped == [step |-> "stopped"]
NoManifest == << >>

ArtifactInit ==
  /\ sources \in [Owners -> {<<x>> : x \in Texts}]
  /\ slots = [a \in Owners |-> << >>]
  /\ objects = {}
  /\ importer = Stopped
  /\ applied = NoManifest
  /\ drawn = 0
  /\ imports = 0
  /\ faults = 0
  /\ unanswered = {}

\* A source document gets a new active version, of a reviewed upload or of
\* another run of the source import.
ReplaceSource(a, x) ==
  /\ Len(sources[a]) < MaxSources
  /\ sources' = [sources EXCEPT ![a] = Append(@, x)]
  /\ UNCHANGED <<slots, objects, importer, applied, drawn, imports, faults, unanswered>>

---------------------------------------------------------------------------

\* load_review_artifact_manifest: what a manifest may ask for, each
\* application once, written from the documents as they were some time ago.
Entries(a) == [source : 1..Len(sources[a]), hash : Texts, pages : Pages]
Manifests == UNION {{m \in [scope -> UNION {Entries(a) : a \in scope}] : \A a \in scope : m[a] \in Entries(a)}
                    : scope \in (SUBSET Owners) \ {{}}}

Start(m) ==
  /\ importer = Stopped
  /\ imports < MaxImports
  /\ imports' = imports + 1
  /\ importer' = [step |-> "reading", manifest |-> m, todo |-> DOMAIN m, work |-> slots, mine |-> {}]
  /\ UNCHANGED <<sources, slots, objects, applied, drawn, faults, unanswered>>

\* source_pdf: the version named is the active one and has the listed hash.
SourceFits(a, e) ==
  /\ e.source = Len(sources[a])
  /\ sources[a][e.source] = e.hash

\* _reject_recommendation_pages.
Presentable(e) == <<e.hash, e.pages>> \notin Recommends

\* build_pdf_extract: the bytes depend on the source's bytes and the pages.
Extract(e) == [hash |-> e.hash, pages |-> e.pages]

\* The next extract is prepared; anything else ends the run with an error.
Prepare(a) ==
  LET e == importer.manifest[a] IN
  /\ importer.step = "reading"
  /\ a \in importer.todo
  /\ importer' = IF SourceFits(a, e) /\ Presentable(e)
                 THEN [importer EXCEPT !.todo = @ \ {a}]
                 ELSE Stopped
  /\ UNCHANGED <<sources, slots, objects, applied, drawn, imports, faults, unanswered>>

\* apply: all extracts are scanned before the first is stored.
Scan ==
  /\ importer.step = "reading"
  /\ importer.todo = {}
  /\ importer' = [importer EXCEPT !.step = "applying", !.todo = DOMAIN importer.manifest]
  /\ UNCHANGED <<sources, slots, objects, applied, drawn, imports, faults, unanswered>>

---------------------------------------------------------------------------

\* _matches_provenance, of the version and the entry.
Matches(v, e) == v.source = e.source /\ v.pages = e.pages /\ v.hash = e.hash

\* The slot's active version is this extract with this provenance.
SamePayload(a, e) ==
  LET s == importer.work[a] IN s # << >> /\ Extract(s[Len(s)]) = Extract(e)

AlreadyApplied(a, e) ==
  LET s == importer.work[a] IN
  s # << >> /\ Extract(s[Len(s)]) = Extract(e) /\ Matches(s[Len(s)], e)

\* store_bytes and register, inside the transaction.
Store(a) ==
  LET e == importer.manifest[a] IN
  /\ importer.step = "applying"
  /\ a \in importer.todo
  /\ IF AlreadyApplied(a, e)
     THEN /\ importer' = [importer EXCEPT !.todo = @ \ {a}]
          /\ UNCHANGED <<objects, drawn>>
     ELSE /\ drawn' = drawn + 1
          /\ objects' = objects \cup {drawn'}
          /\ importer' = [importer EXCEPT
               !.todo = @ \ {a},
               !.mine = @ \cup {drawn'},
               !.work[a] = Append(@, [source |-> e.source, hash |-> e.hash,
                                      pages |-> e.pages, key |-> drawn'])]
  /\ UNCHANGED <<sources, slots, applied, imports, faults, unanswered>>

Commit ==
  /\ importer.step = "applying"
  /\ importer.todo = {}
  /\ slots' = importer.work
  /\ applied' = importer.manifest
  /\ importer' = Stopped
  /\ UNCHANGED <<sources, objects, drawn, imports, faults, unanswered>>

---------------------------------------------------------------------------

Fault == faults < MaxFaults /\ faults' = faults + 1

Removed == objects \ importer.mine

\* The database, the scanner or the store fails: rollback, and the objects
\* of the transaction are unlinked.  If the commit had succeeded, they are
\* unlinked as well.
Fail ==
  /\ importer # Stopped
  /\ Fault
  /\ importer' = Stopped
  /\ objects' = IF importer.step = "applying" THEN Removed ELSE objects
  /\ \/ UNCHANGED <<slots, applied, unanswered>>
     \/ /\ importer.step = "applying" /\ importer.todo = {}
        /\ slots' = importer.work
        /\ applied' = NoManifest
        /\ unanswered' = unanswered \cup importer.mine
  /\ UNCHANGED <<sources, drawn, imports>>

\* The process dies; what it stored stays behind.
Die ==
  /\ importer # Stopped
  /\ Fault
  /\ importer' = Stopped
  /\ UNCHANGED <<sources, slots, objects, applied, drawn, imports, unanswered>>

ArtifactNext ==
  \/ \E a \in Owners : \/ \E x \in Texts : ReplaceSource(a, x)
                       \/ Prepare(a) \/ Store(a)
  \/ \E m \in Manifests : Start(m)
  \/ Scan \/ Commit \/ Fail \/ Die

---------------------------------------------------------------------------

\* What was last reported applied is what reviewers are served: for every
\* application of the manifest the active artifact has the reviewed source
\* version, hash and pages, whatever failed since, and its object is stored,
\* unless the answer to the commit that registered the artifact was lost.  That
\* import unlinked the objects of rows that stayed, and importing the manifest
\* again reports it applied without storing them: the rows match it.
\* No version repeats the one before; and every version was cut from the
\* content its provenance names, free of recommendation material
\* (SqlReviewArtifactRepository.apply, source_pdf).
AppliedArtifactsAreServed ==
  /\ \A a \in DOMAIN applied :
        /\ slots[a] # << >>
        /\ LET v == slots[a][Len(slots[a])] IN
             /\ [source |-> v.source, hash |-> v.hash, pages |-> v.pages] = applied[a]
             /\ v.key \in objects \cup unanswered
  /\ \A a \in Owners : \A i \in 1..Len(slots[a]) :
        LET v == slots[a][i] IN
        /\ sources[a][v.source] = v.hash
        /\ <<v.hash, v.pages>> \notin Recommends
        /\ i > 1 => [slots[a][i-1] EXCEPT !.key = v.key] # v

---------------------------------------------------------------------------
(* Why they are.                                                           *)

Versions == [source : Nat, hash : Texts, pages : Pages, key : Nat]

\* The histories of the artifacts, committed or in the open transaction.
Histories == [Owners -> Seq(Versions)]

\* A manifest, as far as its type goes.
IsManifest(m) ==
  /\ DOMAIN m \subseteq Owners
  /\ \A a \in DOMAIN m : m[a] \in [source : Nat \ {0}, hash : Texts, pages : Pages]

RunningImporter(i) ==
  /\ i \in [step : {"reading", "applying"}, manifest : {i.manifest}, todo : SUBSET Owners,
            work : Histories, mine : SUBSET Nat]
  /\ IsManifest(i.manifest)

ArtifactTypeOK ==
  /\ sources \in [Owners -> Seq(Texts)]
  /\ slots \in Histories
  /\ objects \subseteq 1..drawn
  /\ importer = Stopped \/ RunningImporter(importer)
  /\ DOMAIN applied \subseteq Owners
  /\ drawn \in Nat /\ imports \in Nat /\ faults \in Nat

\* A version was cut from the content its provenance names and may be shown;
\* it differs from the version before.
SoundHistory(a, history) ==
  \A i \in 1..Len(history) :
     LET v == history[i] IN
     /\ v.source \in 1..Len(sources[a])
     /\ sources[a][v.source] = v.hash
     /\ <<v.hash, v.pages>> \notin Recommends
     /\ i > 1 => [history[i-1] EXCEPT !.key = v.key] # v

\* The history ends with the version the manifest asks for.
EndsWith(history, e) ==
  /\ history # << >>
  /\ Matches(history[Len(history)], e)

\* Committed versions have their objects, unless the answer to their own
\* commit was lost.
CommittedObjectsStay ==
  \A a \in Owners :
     /\ SoundHistory(a, slots[a])
     /\ \A i \in 1..Len(slots[a]) :
           slots[a][i].key \in 1..drawn /\ slots[a][i].key \in objects \cup unanswered

\* The open transaction only adds versions, with objects of its own; it has
\* checked the entries it is done with.
OpenImportIsSound ==
  importer # Stopped =>
     /\ importer.todo \subseteq DOMAIN importer.manifest
     /\ \A a \in DOMAIN importer.manifest :
           importer.step = "applying" \/ a \notin importer.todo =>
              LET e == importer.manifest[a] IN
              /\ e.source \in 1..Len(sources[a]) /\ sources[a][e.source] = e.hash
              /\ Presentable(e)
     /\ importer.step = "reading" => importer.work = slots /\ importer.mine = {}
     /\ importer.step = "applying" =>
           \A a \in DOMAIN importer.manifest \ importer.todo :
              EndsWith(importer.work[a], importer.manifest[a])
     /\ importer.mine \subseteq objects
     /\ \A a \in Owners :
           /\ SoundHistory(a, importer.work[a])
           /\ \A i \in 1..Len(slots[a]) : slots[a][i].key \notin importer.mine
           /\ \A i \in 1..Len(importer.work[a]) :
                 LET k == importer.work[a][i].key IN k \in 1..drawn /\ k \in objects \cup unanswered

ArtifactInv ==
  /\ ArtifactTypeOK
  /\ CommittedObjectsStay
  /\ OpenImportIsSound
  /\ AppliedArtifactsAreServed
=============================================================================
