--------------------------- MODULE CitationImport ---------------------------
(***************************************************************************)
(* The imports of citation counts, beside the publication import and the   *)
(* reviewers: the Google Scholar queue (app/importer/scholar_reviews.py),  *)
(* filled in by hand, and the collected snapshot                           *)
(* (app/importer/open_citations.py), whose run may become the cutoff of    *)
(* the metrics (dbo.ActivateCitationMetricCutoffRun).                      *)
(*                                                                         *)
(* The importer reads which publications are eligible before it starts its *)
(* run; the procedure looks again inside the transaction of the run.       *)
(***************************************************************************)
EXTENDS PublicationLedger, CitationCollection

CONSTANT MaxFiles           \* bound: files prepared, the queue and snapshots

VARIABLES
    queue,          \* the Scholar queue on disk: work -> copied fields, status
    files,          \* snapshots collected so far
    file,           \* the snapshot as loaded, or None
    citer,          \* the process that applies a queue or a snapshot
    observations,   \* dbo.PublicationCitationObservation of these imports
    cutoffs         \* dbo.CitationMetricCutoffRun: the runs

citationVars == <<queue, files, file, citer, observations, cutoffs, snapshot>>
vars == <<ledgerVars, runs, citationVars>>

IdleCiter == [pc |-> "idle", file |-> None, run |-> 0, place |-> <<>>, complete |-> FALSE]

Init ==
    /\ LedgerInit
    /\ snapshot = None
    /\ queue = <<>>
    /\ files = 0
    /\ file = None
    /\ citer = IdleCiter
    /\ observations = {}
    /\ cutoffs = {}

IdsOf(manifest) == {w.id : w \in ToSet(manifest.works)}

-----------------------------------------------------------------------------
(* Files.                                                                  *)

\* The collector, the loader of snapshots and the people who fill in the
\* queue read nothing that the imports write, nor do the imports see an
\* unfinished file: when they work makes no difference, so it is before the
\* imports.
FilesFirst == runs = <<>>
FilesReady == snapshot = None /\ \A id \in DOMAIN queue : queue[id].status # None

Prepared == files + (IF queue = <<>> THEN 0 ELSE 1)

\* write_google_scholar_queue: one row per work; what a reviewer entered for
\* a work stays with it, although its fields may have changed.
WriteQueue(manifest) ==
    /\ FilesFirst
    /\ queue # <<>> \/ Prepared < MaxFiles
    /\ Loads(manifest)
    /\ queue' = [id \in IdsOf(manifest) |->
            [meta |-> (CHOOSE w \in ToSet(manifest.works) : w.id = id).meta,
             status |-> IF id \in DOMAIN queue THEN queue[id].status ELSE None]]
    /\ UNCHANGED <<ledgerVars, runs, files, file, citer, observations, cutoffs, snapshot>>

\* A reviewer fills in a row of the queue.
FillQueue(id, status) ==
    /\ FilesFirst
    /\ id \in DOMAIN queue
    /\ queue' = [queue EXCEPT ![id].status = status]
    /\ UNCHANGED <<ledgerVars, runs, files, file, citer, observations, cutoffs, snapshot>>

\* load_scholar_reviews.
QueueLoads(manifest) ==
    /\ DOMAIN queue = IdsOf(manifest)
    /\ \A w \in ToSet(manifest.works) : queue[w.id].meta = w.meta
    /\ \A id \in DOMAIN queue : queue[id].status \in {"OBSERVED", "NOT_FOUND"}

Answers == Records \cup {None, Unavailable}

Collection ==
    /\ FilesFirst
    /\ \/ /\ Prepared < MaxFiles
          /\ \E m \in Manifests, s \in Sources, key \in BOOLEAN : StartCollection(m, s, key)
          /\ files' = files + 1
       \/ /\ \E answer \in [doi : Answers, title : Answers] : CollectWork(answer)
          /\ UNCHANGED files
    /\ UNCHANGED <<ledgerVars, runs, queue, file, citer, observations, cutoffs>>

\* load_open_citation_reviews, with whichever manifest the operator names.
\* From here on a row counts by its status and the time it was taken.
LoadSnapshot(manifest) ==
    /\ FilesFirst
    /\ Whole(snapshot)
    /\ file' = IF SnapshotLoads(snapshot, manifest)
               THEN [source |-> snapshot.source,
                     payload |-> [id \in IdsOf(manifest) |->
                        [taken |-> files,
                         status |-> (CHOOSE r \in ToSet(snapshot.rows) : r.work = id).status]]]
               ELSE file
    /\ snapshot' = None
    /\ UNCHANGED <<ledgerVars, runs, queue, files, citer, observations, cutoffs>>

-----------------------------------------------------------------------------
(* What both imports do.                                                   *)

\* Every work of the file has exactly one publication of its key.
WithKey(id) == {i \in DOMAIN rows : rows[i].key = id}
Resolves(f) == \A id \in DOMAIN f.payload : Cardinality(WithKey(id)) = 1
Place(f) == [id \in DOMAIN f.payload |-> CHOOSE i \in WithKey(id) : TRUE]

Inserted ==
    {[row |-> citer.place[id], run |-> citer.run, source |-> citer.file.source,
      payload |-> citer.file.payload[id]] : id \in DOMAIN citer.file.payload}

\* UQ_PublicationCitationObservation_Payload.
Repeats ==
    \E o \in Inserted, p \in observations :
        o.row = p.row /\ o.source = p.source /\ o.payload = p.payload

PartlyWritten == observations \cup Inserted
RolledBack == observations

EndRun(status) == runs' = [runs EXCEPT ![citer.run].status = status]

Fails ==
    /\ EndRun("FAILED")
    /\ observations' = RolledBack
    /\ UNCHANGED cutoffs

CitationFails ==
    /\ citer.pc = "importing"
    /\ Fails
    /\ citer' = IdleCiter
    /\ UNCHANGED <<ledgerVars, queue, files, file, snapshot>>

CitationKilled ==
    /\ citer.pc # "idle"
    /\ citer' = IdleCiter
    /\ UNCHANGED <<ledgerVars, runs, queue, files, file, observations, cutoffs, snapshot>>

StartRun(f) ==
    /\ Len(runs) < MaxRuns
    /\ runs' = Append(runs, NewRun("citations", f))

-----------------------------------------------------------------------------
(* Google Scholar.                                                         *)

StartScholar(manifest) ==
    LET f == [source |-> "GOOGLE_SCHOLAR", payload |-> queue] IN
    /\ citer.pc = "idle"
    /\ QueueLoads(manifest)
    /\ CompletedRun("citations", f) = {}
    /\ Resolves(f)
    /\ StartRun(f)
    /\ citer' = [pc |-> "importing", file |-> f, run |-> Len(runs) + 1, place |-> Place(f),
                 complete |-> FALSE]
    /\ UNCHANGED <<ledgerVars, queue, files, file, observations, cutoffs, snapshot>>

-----------------------------------------------------------------------------
(* The snapshot and the cutoff.                                            *)

Eligible ==
    {i \in DOMAIN rows : /\ rows[i].status = "RESOLVED"
                         /\ rows[i].review.disposition = "PUBLISHED"}

\* What the importer reads before its run.
CutoffIsComplete(f) ==
    LET eligible == {id \in DOMAIN f.payload : Place(f)[id] \in Eligible} IN
    /\ eligible # {}
    /\ \A id \in eligible : f.payload[id].status = "OBSERVED"

OpenRead ==
    /\ citer.pc = "idle"
    /\ file # None
    /\ Resolves(file)
    /\ citer' = [IdleCiter EXCEPT !.pc = "read", !.file = file, !.place = Place(file),
                                  !.complete = CutoffIsComplete(file)]
    /\ UNCHANGED <<ledgerVars, runs, queue, files, file, observations, cutoffs, snapshot>>

\* dbo.ActivateCitationMetricCutoffRun over the observations of the run.
CutoffTrusted(all, run) == TRUE
CutoffHolds(all, run) ==
    /\ Eligible # {}
    /\ \A i \in Eligible : LET found == {o \in all : o.run = run /\ o.row = i} IN
          /\ Cardinality(found) = 1
          /\ \A o \in found : o.payload.status = "OBSERVED"

\* A completed run is not repeated, but it may become the cutoff now.
OpenReuse ==
    /\ citer.pc = "read"
    /\ CompletedRun("citations", citer.file) # {}
    /\ LET run == CHOOSE r \in CompletedRun("citations", citer.file) : TRUE IN
       cutoffs' = IF citer.complete /\ CutoffHolds(observations, run)
                  THEN cutoffs \cup {run} ELSE cutoffs
    /\ citer' = IdleCiter
    /\ UNCHANGED <<ledgerVars, runs, queue, files, file, observations, snapshot>>

OpenStart ==
    /\ citer.pc = "read"
    /\ CompletedRun("citations", citer.file) = {}
    /\ StartRun(citer.file)
    /\ citer' = [citer EXCEPT !.pc = "importing", !.run = Len(runs) + 1]
    /\ UNCHANGED <<ledgerVars, queue, files, file, observations, cutoffs, snapshot>>

\* The one transaction of either import; a cutoff that does not hold fails
\* the whole run.
CitationCommit ==
    /\ citer.pc = "importing"
    /\ IF Repeats \/ (citer.complete /\ ~CutoffHolds(observations \cup Inserted, citer.run))
       THEN Fails
       ELSE /\ observations' = observations \cup Inserted
            /\ EndRun("COMPLETED")
            /\ cutoffs' = IF citer.complete THEN cutoffs \cup {citer.run} ELSE cutoffs
    /\ citer' = IdleCiter
    /\ UNCHANGED <<ledgerVars, queue, files, file, snapshot>>

-----------------------------------------------------------------------------
Next ==
    \/ FilesReady /\ LedgerNext /\ UNCHANGED citationVars
    \/ \E m \in Manifests : WriteQueue(m) \/ StartScholar(m) \/ LoadSnapshot(m)
    \/ \E id \in DOMAIN queue, s \in {"OBSERVED", "NOT_FOUND"} : FillQueue(id, s)
    \/ Collection
    \/ OpenRead
    \/ OpenReuse
    \/ OpenStart
    \/ CitationCommit
    \/ CitationFails
    \/ CitationKilled

Spec == Init /\ [][Next]_vars

-----------------------------------------------------------------------------
(* Properties.                                                             *)

\* A completed citation run holds one observation for each work of its file;
\* a failed or unfinished one holds none.
CompletedCitationRunIsWhole ==
    \A r \in DOMAIN runs : runs[r].kind = "citations" =>
        LET mine == {o \in observations : o.run = r} IN
        IF runs[r].status = "COMPLETED"
        THEN /\ Cardinality(mine) = Cardinality(DOMAIN runs[r].file.payload)
             /\ \A id \in DOMAIN runs[r].file.payload :
                   Cardinality({o \in mine : rows[o.row].key = id}) = 1
        ELSE mine = {}

\* A run becomes the cutoff only when at that moment every eligible
\* publication has exactly one observed count in it, although a review or a
\* corrected manifest may have changed which are eligible since the importer
\* looked.
ActivatedCutoffIsComplete ==
    [][\A run \in cutoffs' \ cutoffs : \A i \in Eligible :
          Cardinality({o \in observations' : o.run = run /\ o.row = i
                                             /\ o.payload.status = "OBSERVED"}) = 1]_vars

-----------------------------------------------------------------------------
(* The inductive invariant of the citation imports.                        *)

\* A place is the publication of the work's key, which keeps that key.
PlacesHold ==
    /\ citer.place \in [DOMAIN citer.file.payload -> DOMAIN rows]
    /\ \A id \in DOMAIN citer.file.payload : rows[citer.place[id]].key = id

CitationTypeOK ==
    /\ IsFiniteSet(DOMAIN queue)
    /\ file # None => IsFiniteSet(DOMAIN file.payload)
    /\ \A o \in observations : o.run \in DOMAIN runs /\ o.row \in DOMAIN rows
    /\ DOMAIN citer = {"pc", "file", "run", "place", "complete"}
    /\ citer.pc \in {"idle", "read", "importing"}
    /\ citer.pc # "idle" => IsFiniteSet(DOMAIN citer.file.payload) /\ PlacesHold
    /\ citer.pc = "importing" => IsRunning(citer.run, "citations", citer.file)

PublicationsInv ==
    /\ LedgerInv
    /\ CollectionInv
    /\ CitationTypeOK
    /\ CompletedCitationRunIsWhole
=============================================================================
