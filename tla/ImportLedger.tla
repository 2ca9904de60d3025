---------------------------- MODULE ImportLedger ----------------------------
(***************************************************************************)
(* What the source import promises, without files, transactions, object    *)
(* keys or crashes: a run enters an applicant with everything the plan     *)
(* lists of it in one step or not at all, only the latest run goes on, it  *)
(* is completed after its last applicant, and a plan that was completed is *)
(* not run again.                                                          *)
(***************************************************************************)
EXTENDS Naturals

CONSTANTS Applicants, Locators, Owner, Contents, Absent, Plans

VARIABLES
    sources,        \* the plan the source folders and the register make now
    runs,           \* the runs, with plan and status
    imported,       \* the register rows each run has entered
    listed,         \* the files each run has entered
    holdings        \* the documents each applicant has

ledgerVars == <<sources, runs, imported, listed, holdings>>

Init ==
    /\ sources \in Plans
    /\ runs = {}
    /\ imported = {}
    /\ listed = {}
    /\ holdings = {}

Change ==
    /\ sources' \in Plans
    /\ UNCHANGED <<runs, imported, listed, holdings>>

\* A new run, numbered after the others.
Start ==
    /\ \A r \in runs : r.plan = sources => r.status # "COMPLETED"
    /\ \E r \in runs' :
          /\ r = [id |-> r.id, plan |-> sources, status |-> "RUNNING"]
          /\ \A x \in runs : x.id < r.id
          /\ runs' = runs \cup {r}
    /\ UNCHANGED <<sources, imported, listed, holdings>>

Open(r) == r.status = "RUNNING" /\ \A x \in runs : x.id <= r.id

Entered(r, a) == \E row \in imported : row.run = r.id /\ row.applicant = a

Files(r, a) == {l \in Locators : Owner[l] = a /\ r.plan.source[l] # Absent}

Enter(r, a) ==
    /\ Open(r)
    /\ ~Entered(r, a)
    /\ imported' = imported \cup
          {[run |-> r.id, applicant |-> a, value |-> r.plan.register[a]]}
    /\ listed' = listed \cup
          {[run |-> r.id, locator |-> l, content |-> r.plan.source[l]] : l \in Files(r, a)}
    /\ holdings' = holdings \cup
          {[applicant |-> a, content |-> c] : c \in {r.plan.source[l] : l \in Files(r, a)} \cap Contents}
    /\ UNCHANGED <<sources, runs>>

Close(r, status) ==
    /\ Open(r)
    /\ status = "COMPLETED" => \A a \in Applicants : Entered(r, a)
    /\ runs' = (runs \ {r}) \cup {[r EXCEPT !.status = status]}
    /\ UNCHANGED <<sources, imported, listed, holdings>>

Next ==
    \/ Change
    \/ Start
    \/ \E r \in runs, a \in Applicants : Enter(r, a)
    \/ \E r \in runs, status \in {"COMPLETED", "FAILED"} : Close(r, status)

Spec == Init /\ [][Next]_ledgerVars
=============================================================================
