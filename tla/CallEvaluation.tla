--------------------------- MODULE CallEvaluation ---------------------------
(***************************************************************************)
(* The evaluation of the applications of a call: the trustees' grades and  *)
(* comments, the administrators' second-stage decisions and the grouping   *)
(* of the ballots (app/shortlist.py, evaluation_data.py, second_stage.py,  *)
(* evaluation_groups.py, their routes in app/main.py and the procedures of *)
(* migrations 038 and 049 to 051).                                         *)
(*                                                                         *)
(* A grade is written to the shortlist of 2026, whose trigger mirrors it   *)
(* into the evaluation's own table: first an UPDATE, then an INSERT of the *)
(* row that is still missing.  A comment is written to the evaluation's    *)
(* table directly.  Routes check that the user owns the column it writes;  *)
(* other requests are answered 404 and change nothing.                     *)
(*                                                                         *)
(* The weakened twin above a definition is a mutant of it.                 *)
(***************************************************************************)
EXTENDS Naturals, Sequences, FiniteSets

CONSTANTS
  Applications,
  Roster,        \* the three evaluators, in their display order
  Comments,      \* texts of a comment; a blank one is stored as None
  None,
  MaxRequests    \* bound on the requests that write

ASSUME RosterAssumption ==
  /\ Len(Roster) = 3
  /\ \A i, j \in 1..3 : Roster[i] = Roster[j] => i = j

VARIABLES
  selection,     \* InternalSelectionStatus of the call
  shortlist,     \* TrusteeShortlistSelection: the grade in each column
  rows,          \* CallEvaluationSelection: grade and comment, where a row exists
  grading,       \* open transactions of SetInternalShortlistSelection
  commenting,    \* comments that found the selection open and are not stored yet
  advanced,      \* CallSecondStageSelection: who is selected
  written,       \* history: the comment last saved
  overtaken,     \* history: columns whose first row came between UPDATE and INSERT
  requests       \* history: requests so far

evaluationVars ==
  <<selection, shortlist, rows, grading, commenting, advanced, written, overtaken, requests>>

Grades == <<"A", "B", "C">>

ASSUME GradesAssumption == \A i \in 1..3 : Grades[i] # None

Trustees == {Roster[i] : i \in 1..3}
Columns == Applications \X Trustees

EvaluationInit ==
  /\ selection = "OPEN"
  /\ shortlist = [c \in Columns |-> None]
  /\ rows = << >>
  /\ grading = {}
  /\ commenting = {}
  /\ advanced = {}
  /\ written = [c \in Columns |-> None]
  /\ overtaken = {}
  /\ requests = 0

Request == requests < MaxRequests /\ requests' = requests + 1

---------------------------------------------------------------------------
(* Grades.                                                                 *)

\* The rows an open grade has locked until it ends.
Updated == {x.column : x \in {y \in grading : y.updated}}

\* POST shortlist: the procedure locks the row of the shortlist (UPDLOCK,
\* HOLDLOCK), writes it, and the trigger's UPDATE finds the mirrored row or
\* finds none.
Grade(c, g) ==
  /\ Request
  /\ \A x \in grading : x.column # c
  /\ grading' = grading \cup {[column |-> c, grade |-> g, updated |-> c \in DOMAIN rows]}
  /\ UNCHANGED <<selection, shortlist, rows, commenting, advanced, written, overtaken>>

\* INSERT ... WHERE NOT EXISTS: a row that exists stays as it is.
Inserted(c, row) == [d \in DOMAIN rows \cup {c} |-> IF d \in DOMAIN rows THEN rows[d] ELSE row]

\* A plausible bug: the trigger replaces the row it finds.
Replaced(x) ==
  LET row == [grade |-> x.grade, comment |-> None]
  IN  [Inserted(x.column, row) EXCEPT ![x.column] = row]

\* The trigger: what UPDATE reached, or what INSERT ... NOT EXISTS adds.
Mirrored(x) ==
  IF x.updated THEN [rows EXCEPT ![x.column].grade = x.grade]
  ELSE Inserted(x.column, [grade |-> x.grade, comment |-> None])

\* The trigger's INSERT, the audit event and the commit.
CommitGrade(x) ==
  /\ grading' = grading \ {x}
  /\ shortlist' = [shortlist EXCEPT ![x.column] = x.grade]
  /\ rows' = Mirrored(x)
  /\ overtaken' = IF x.updated THEN overtaken \ {x.column} ELSE overtaken
  /\ UNCHANGED <<selection, commenting, advanced, written, requests>>

\* The connection or the audit event fails: the transaction is rolled back.
FailGrade(x) ==
  /\ grading' = grading \ {x}
  /\ UNCHANGED <<selection, shortlist, rows, commenting, advanced, written, overtaken, requests>>

---------------------------------------------------------------------------
(* Comments, second stage, and the end of the selection.                   *)

\* POST evaluation-comment: SetCallEvaluationComment finds the selection open,
\* before it opens its transaction.
Comment(c, text) ==
  /\ Request
  /\ selection = "OPEN"
  /\ commenting' = commenting \cup {[column |-> c, text |-> text]}
  /\ UNCHANGED <<selection, shortlist, rows, grading, advanced, written, overtaken>>

\* The transaction: it locks the key, so that the row it looks up is the row it
\* inserts or updates.  The selection may have been closed meanwhile.
CommitComment(x) ==
  /\ x.column \notin Updated
  /\ commenting' = commenting \ {x}
  /\ rows' = IF x.column \in DOMAIN rows THEN [rows EXCEPT ![x.column].comment = x.text]
             ELSE Inserted(x.column, [grade |-> None, comment |-> x.text])
  /\ written' = [written EXCEPT ![x.column] = x.text]
  /\ overtaken' = IF x.column \notin DOMAIN rows /\ \E y \in grading : y.column = x.column
                  THEN overtaken \cup {x.column} ELSE overtaken
  /\ UNCHANGED <<selection, shortlist, grading, advanced, requests>>

\* A later check, the connection or the audit event fails.
FailComment(x) ==
  /\ commenting' = commenting \ {x}
  /\ UNCHANGED <<selection, shortlist, rows, grading, advanced, written, overtaken, requests>>

\* POST second-stage, of an administrator.
Advance(a, selected) ==
  /\ Request
  /\ advanced' = IF selected THEN advanced \cup {a} ELSE advanced \ {a}
  /\ UNCHANGED <<selection, shortlist, rows, grading, commenting, written, overtaken>>

\* External: an operator closes the selection in the database.
LockSelection ==
  /\ selection = "OPEN"
  /\ selection' = "LOCKED"
  /\ UNCHANGED <<shortlist, rows, grading, commenting, advanced, written, overtaken, requests>>

EvaluationNext ==
  \/ \E c \in Columns : \/ \E i \in 1..3 : Grade(c, Grades[i])
                        \/ \E text \in Comments \cup {None} : Comment(c, text)
  \/ \E x \in grading : CommitGrade(x) \/ FailGrade(x)
  \/ \E x \in commenting : CommitComment(x) \/ FailComment(x)
  \/ \E a \in Applications, selected \in BOOLEAN : Advance(a, selected)
  \/ LockSelection

---------------------------------------------------------------------------
(* The evaluation page: GetCallEvaluationOverview and group_applicants.    *)

Row(c) == IF c \in DOMAIN rows THEN rows[c] ELSE [grade |-> None, comment |-> None]

\* The grades an application has, in the order of the roster.
GradeIn(a, i) == Row(<<a, Roster[i]>>).grade
IfGiven(g) == IF g = None THEN << >> ELSE <<g>>
Completed(a) == IfGiven(GradeIn(a, 1)) \o IfGiven(GradeIn(a, 2)) \o IfGiven(GradeIn(a, 3))

Has(s, g) == \E i \in 1..Len(s) : s[i] = g

NeverDiscrepant(s) == FALSE
Discrepant(s) == Has(s, "A") /\ Has(s, "C")

Times(s, g) == Cardinality({i \in 1..Len(s) : s[i] = g})

\* A partial ballot is extended by the first of its grades; a bucket is the
\* number of As, Bs and Cs in the signature.
Signature(s) ==
  [i \in 1..3 |-> Times(s, Grades[i]) + (IF s[1] = Grades[i] THEN 3 - Len(s) ELSE 0)]

\* AAA, AAB, ABB, BBB, BBC, BCC, CCC; any other signature raises.
BucketOrder == <<<<3,0,0>>, <<2,1,0>>, <<1,2,0>>, <<0,3,0>>, <<0,2,1>>, <<0,1,2>>, <<0,0,3>>>>

\* Where group_applicants lists an application.
Place(a) ==
  LET s == Completed(a) IN
  [discrepancy |-> Discrepant(s),
   awaiting    |-> Len(s) < 3,
   buckets     |-> IF s = << >> \/ Discrepant(s) THEN {} ELSE {Signature(s)}]

\* evaluation_view, of the page and of the document: the roster has three.
EvaluationView == [a \in Applications |-> Place(a)]

---------------------------------------------------------------------------

\* The evaluation shows what the trustees saved, in whatever order their
\* grades and comments were committed: no grade wipes a comment and no
\* comment hides a grade, unless the first comment of a column was saved in
\* the middle of a grade (TrusteeShortlistSelection_CallEvaluationMirror,
\* SetCallEvaluationComment).
SavedWorkIsShown ==
  \A c \in Columns :
     /\ Row(c).comment = written[c]
     /\ Row(c).grade = shortlist[c] \/ c \in overtaken

\* Legacy 2026 writes are mirrored: the grade the shortlist holds is the grade
\* the evaluation shows (TrusteeShortlistSelection_CallEvaluationMirror).
LegacyWritesAreMirrored == \A c \in Columns : Row(c).grade = shortlist[c]

\* The trustees who gave an application the grade.
Given(a, g) == {t \in Trustees : Row(<<a, t>>).grade = g}

\* The page can always be drawn, and every graded application is on it once:
\* with the strong discrepancies if it has an A and a C, else in a bucket
\* that exists and holds all of its grades and no grade it was not given; it
\* awaits reviews until it has three (group_applicants, for every ballot).
EveryBallotHasItsPlace ==
  \A a \in Applications :
     LET ballots == Given(a, "A") \cup Given(a, "B") \cup Given(a, "C")
         place   == EvaluationView[a]
     IN /\ place.discrepancy = (Given(a, "A") # {} /\ Given(a, "C") # {})
        /\ place.awaiting = (Cardinality(ballots) < 3)
        /\ place.buckets # {} <=> ballots # {} /\ ~place.discrepancy
        /\ \A b \in place.buckets :
              /\ \E i \in 1..Len(BucketOrder) : BucketOrder[i] = b
              /\ \A i \in 1..3 : /\ b[i] >= Cardinality(Given(a, Grades[i]))
                                 /\ b[i] > 0 => Given(a, Grades[i]) # {}

---------------------------------------------------------------------------
(* Why the saved work is shown.                                            *)

Marks == {"A", "B", "C", None}

EvaluationTypeOK ==
  /\ selection \in {"OPEN", "LOCKED"}
  /\ shortlist \in [Columns -> Marks]
  /\ DOMAIN rows \subseteq Columns
  /\ rows \in [DOMAIN rows -> [grade : Marks, comment : Comments \cup {None}]]
  /\ grading \subseteq [column : Columns, grade : Marks, updated : BOOLEAN]
  /\ commenting \subseteq [column : Columns, text : Comments \cup {None}]
  /\ advanced \subseteq Applications
  /\ written \in [Columns -> Comments \cup {None}]
  /\ overtaken \subseteq Columns
  /\ requests \in Nat

\* A column has one open grade; the row its UPDATE reached is still there, and
\* a row its UPDATE did not find was added by a comment that overtook it.
OpenGradesKnowTheirRow ==
  /\ \A x, y \in grading : x.column = y.column => x = y
  /\ \A x \in grading :
        IF x.updated THEN x.column \in DOMAIN rows
        ELSE x.column \in DOMAIN rows => x.column \in overtaken

EvaluationInv == EvaluationTypeOK /\ OpenGradesKnowTheirRow /\ SavedWorkIsShown
=============================================================================
