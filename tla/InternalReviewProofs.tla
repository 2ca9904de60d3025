------------------------ MODULE InternalReviewProofs ------------------------
(***************************************************************************)
(* Proofs about the internal side of a call: the navigation preference,    *)
(* the evaluation's mirror and the reviewed extracts, for every number of  *)
(* tabs, columns, applications and every bound on requests and faults.     *)
(***************************************************************************)
EXTENDS InternalReview, FiniteSetTheorems, TLAPS

-----------------------------------------------------------------------------
(* The navigation preference.                                              *)

\* A tab is idle, or one of the two kinds of page.
LEMMA PageKinds ==
  ASSUME NavigationInv, NEW t \in Tabs
  PROVE  /\ tabs[t].step = "idle" <=> tabs[t] = Idle
         /\ tabs[t].step = "visiting" => tabs[t].call \in Calls /\ tabs[t].mode \in Modes
         /\ tabs[t].step = "choosing" => tabs[t].mode \in Modes /\ tabs[t].last \in Calls \cup {NoCall}
<1>1. tabs[t] \in OpenPages
  BY DEF NavigationInv, NavigationTypeOK
<1> QED
  BY <1>1 DEF OpenPages, Idle

\* A page that opens reads what is stored.
LEMMA OpenKeepsNavigation ==
  ASSUME NavigationInv, NEW t \in Tabs,
         (\E c \in Calls : Visit(t, c)) \/ (\E m \in Modes : ChooseMode(t, m))
  PROVE  NavigationInv'
<1> DEFINE visit(c) == [step |-> "visiting", call |-> c, mode |-> preference.mode]
           choice(m) == [step |-> "choosing", mode |-> m, last |-> preference.last]
<1>1. preference.mode \in Modes /\ preference.last \in Calls \cup {NoCall}
  BY DEF NavigationInv, NavigationTypeOK
<1>2. PICK page \in OpenPages :
         /\ tabs' = [tabs EXCEPT ![t] = page]
         /\ page.step = "visiting" => page.mode = preference.mode
         /\ page.step = "choosing" => page.last = preference.last
  <2>1. CASE \E c \in Calls : Visit(t, c)
    <3>1. PICK c \in Calls : Visit(t, c)
      BY <2>1
    <3>2. visit(c) \in OpenPages /\ visit(c).step = "visiting" /\ visit(c).mode = preference.mode
      BY <1>1 DEF OpenPages
    <3> QED
      BY <3>1, <3>2 DEF Visit, LoadCallNavigation
  <2>2. CASE \E m \in Modes : ChooseMode(t, m)
    <3>1. PICK m \in Modes : ChooseMode(t, m)
      BY <2>2
    <3>2. choice(m) \in OpenPages /\ choice(m).step = "choosing" /\ choice(m).last = preference.last
      BY <1>1 DEF OpenPages
    <3> QED
      BY <3>1, <3>2 DEF ChooseMode, LoadCallNavigation
  <2> QED
    BY <2>1, <2>2
<1>3. UNCHANGED <<preference, chosen, opened, crossed>> /\ steps' = steps + 1
  BY DEF Visit, ChooseMode, Step
<1>4. NavigationTypeOK'
  BY <1>2, <1>3 DEF NavigationInv, NavigationTypeOK
<1>5. \A u \in Tabs : tabs'[u] = IF u = t THEN page ELSE tabs[u]
  BY <1>2 DEF NavigationInv, NavigationTypeOK
<1>6. PagesReadTheLatest'
  <2>1. ASSUME NEW u \in Tabs
        PROVE  /\ tabs'[u].step = "visiting" => tabs'[u].mode \in {chosen} \cup crossed.mode
               /\ tabs'[u].step = "choosing" => tabs'[u].last \in {opened} \cup crossed.last
    <3>1. CASE u = t
      BY <1>2, <1>5, <3>1 DEF NavigationInv, PreferenceIsKept
    <3>2. CASE u # t
      BY <1>5, <3>2 DEF NavigationInv, PagesReadTheLatest
    <3> QED
      BY <3>1, <3>2
  <2> QED
    BY <1>3, <2>1 DEF PagesReadTheLatest
<1>7. PreferenceIsKept'
  BY <1>3 DEF NavigationInv, PreferenceIsKept
<1> QED
  BY <1>4, <1>6, <1>7 DEF NavigationInv

\* A page that ends leaves the others as they were.
LEMMA PageEnds ==
  ASSUME NavigationInv, NEW t \in Tabs, tabs' = [tabs EXCEPT ![t] = Idle]
  PROVE  /\ tabs' \in [Tabs -> OpenPages]
         /\ tabs'[t].step = "idle"
         /\ \A u \in Tabs : u # t => tabs'[u] = tabs[u]
BY DEF NavigationInv, NavigationTypeOK, OpenPages, Idle

\* A visit stores its call, and the mode it read.
LEMMA RememberKeepsNavigation ==
  ASSUME NavigationInv, NEW t \in Tabs, Remember(t)
  PROVE  NavigationInv'
<1>1. /\ tabs[t].step = "visiting"
      /\ preference' = [mode |-> tabs[t].mode, last |-> tabs[t].call]
      /\ opened' = tabs[t].call
      /\ crossed' = [crossed EXCEPT !.last = CallsRead]
      /\ tabs' = [tabs EXCEPT ![t] = Idle]
      /\ UNCHANGED <<chosen, steps>>
  BY DEF Remember, SaveCallNavigation, VisitStored
<1>2. preference'.mode = tabs[t].mode /\ preference'.last = opened'
  BY <1>1
<1>3. tabs[t].call \in Calls /\ tabs[t].mode \in Modes
  BY <1>1, PageKinds
<1>r. CallsRead \subseteq Calls \cup {NoCall}
  BY PageKinds DEF CallsRead
<1>4. NavigationTypeOK'
  BY <1>1, <1>3, <1>r, PageEnds DEF NavigationInv, NavigationTypeOK
<1>5. crossed'.mode = crossed.mode /\ crossed'.last = CallsRead
  BY <1>1 DEF NavigationInv, NavigationTypeOK
<1>6. PagesReadTheLatest'
  <2>1. ASSUME NEW u \in Tabs
        PROVE  /\ tabs'[u].step = "visiting" => tabs'[u].mode \in {chosen'} \cup crossed'.mode
               /\ tabs'[u].step = "choosing" => tabs'[u].last \in {opened'} \cup crossed'.last
    <3>1. CASE u = t
      BY <1>1, <3>1, PageEnds
    <3>2. CASE u # t
      <4>1. tabs'[u] = tabs[u]
        BY <1>1, <3>2, PageEnds
      <4>2. tabs[u].step = "choosing" => tabs[u].last \in crossed'.last
        BY <1>5 DEF CallsRead
      <4> QED
        BY <1>1, <1>5, <4>1, <4>2 DEF NavigationInv, PagesReadTheLatest
    <3> QED
      BY <3>1, <3>2
  <2> QED
    BY <2>1 DEF PagesReadTheLatest
<1>7. PreferenceIsKept'
  BY <1>1, <1>2, <1>5 DEF NavigationInv, PagesReadTheLatest, PreferenceIsKept
<1> QED
  BY <1>4, <1>6, <1>7 DEF NavigationInv

\* A choice stores its mode, and the last call it read.
LEMMA StoreKeepsNavigation ==
  ASSUME NavigationInv, NEW t \in Tabs, StoreMode(t)
  PROVE  NavigationInv'
<1>1. /\ tabs[t].step = "choosing"
      /\ preference' = [mode |-> tabs[t].mode, last |-> tabs[t].last]
      /\ chosen' = tabs[t].mode
      /\ crossed' = [crossed EXCEPT !.mode = ModesRead]
      /\ tabs' = [tabs EXCEPT ![t] = Idle]
      /\ UNCHANGED <<opened, steps>>
  BY DEF StoreMode, SaveCallNavigation
<1>2. preference'.mode = chosen' /\ preference'.last = tabs[t].last
  BY <1>1
<1>3. tabs[t].mode \in Modes /\ tabs[t].last \in Calls \cup {NoCall}
  BY <1>1, PageKinds
<1>r. ModesRead \subseteq Modes
  BY PageKinds DEF ModesRead
<1>4. NavigationTypeOK'
  BY <1>1, <1>3, <1>r, PageEnds DEF NavigationInv, NavigationTypeOK
<1>5. crossed'.last = crossed.last /\ crossed'.mode = ModesRead
  BY <1>1 DEF NavigationInv, NavigationTypeOK
<1>6. PagesReadTheLatest'
  <2>1. ASSUME NEW u \in Tabs
        PROVE  /\ tabs'[u].step = "visiting" => tabs'[u].mode \in {chosen'} \cup crossed'.mode
               /\ tabs'[u].step = "choosing" => tabs'[u].last \in {opened'} \cup crossed'.last
    <3>1. CASE u = t
      BY <1>1, <3>1, PageEnds
    <3>2. CASE u # t
      <4>1. tabs'[u] = tabs[u]
        BY <1>1, <3>2, PageEnds
      <4>2. tabs[u].step = "visiting" => tabs[u].mode \in crossed'.mode
        BY <1>5 DEF ModesRead
      <4> QED
        BY <1>1, <1>5, <4>1, <4>2 DEF NavigationInv, PagesReadTheLatest
    <3> QED
      BY <3>1, <3>2
  <2> QED
    BY <2>1 DEF PagesReadTheLatest
<1>7. PreferenceIsKept'
  BY <1>1, <1>2, <1>5 DEF NavigationInv, PagesReadTheLatest, PreferenceIsKept
<1> QED
  BY <1>4, <1>6, <1>7 DEF NavigationInv

\* A request that ends early stores nothing.
LEMMA DropKeepsNavigation ==
  ASSUME NavigationInv, NEW t \in Tabs, Drop(t)
  PROVE  NavigationInv'
<1>1. /\ tabs' = [tabs EXCEPT ![t] = Idle]
      /\ UNCHANGED <<preference, chosen, opened, crossed, steps>>
  BY DEF Drop
<1>2. NavigationTypeOK'
  BY <1>1, PageEnds DEF NavigationInv, NavigationTypeOK
<1>3. PagesReadTheLatest'
  BY <1>1, PageEnds DEF NavigationInv, PagesReadTheLatest
<1>4. PreferenceIsKept'
  BY <1>1 DEF NavigationInv, PreferenceIsKept
<1> QED
  BY <1>2, <1>3, <1>4 DEF NavigationInv

\* A step of any tab keeps the preference.
LEMMA NavigationStep ==
  ASSUME NavigationInv, NavigationNext
  PROVE  NavigationInv'
<1>1. PICK t \in Tabs : \/ \E c \in Calls : Visit(t, c)
                        \/ \E m \in Modes : ChooseMode(t, m)
                        \/ Remember(t) \/ StoreMode(t) \/ Drop(t)
  BY DEF NavigationNext
<1> QED
  BY <1>1, OpenKeepsNavigation, RememberKeepsNavigation, StoreKeepsNavigation, DropKeepsNavigation

-----------------------------------------------------------------------------
(* The evaluation.                                                         *)

\* What the evaluation shows of a column that has a row, and of one that has none.
LEMMA RowShown ==
  ASSUME NEW c
  PROVE  /\ c \in DOMAIN rows => Row(c) = rows[c]
         /\ c \notin DOMAIN rows => Row(c).grade = None /\ Row(c).comment = None
BY DEF Row

\* A grade opens: its UPDATE found the row or did not.
LEMMA GradeKeepsEvaluation ==
  ASSUME EvaluationInv, NEW c \in Columns, NEW i \in 1..3, Grade(c, Grades[i])
  PROVE  EvaluationInv'
<1> DEFINE x == [column |-> c, grade |-> Grades[i], updated |-> c \in DOMAIN rows]
<1>1. /\ requests' = requests + 1
      /\ \A y \in grading : y.column # c
      /\ grading' = grading \cup {x}
      /\ UNCHANGED <<selection, shortlist, rows, commenting, advanced, written, overtaken>>
  BY DEF Grade, Request
<1>2. Grades[i] \in Marks
  BY DEF Grades, Marks
<1>3. x \in [column : Columns, grade : Marks, updated : BOOLEAN]
  BY <1>2
<1>4. x.column = c /\ (x.updated <=> c \in DOMAIN rows)
  OBVIOUS
<1> HIDE DEF x
<1>5. EvaluationTypeOK'
  BY <1>1, <1>3 DEF EvaluationInv, EvaluationTypeOK
<1>6. OpenGradesKnowTheirRow'
  BY <1>1, <1>4 DEF EvaluationInv, OpenGradesKnowTheirRow
<1>7. SavedWorkIsShown'
  BY <1>1 DEF EvaluationInv, SavedWorkIsShown, Row
<1> QED
  BY <1>5, <1>6, <1>7 DEF EvaluationInv

\* A grade that fails leaves what is shown.
LEMMA FailKeepsEvaluation ==
  ASSUME EvaluationInv, NEW x \in grading, FailGrade(x)
  PROVE  EvaluationInv'
<1>1. /\ grading' \subseteq grading
      /\ UNCHANGED <<selection, shortlist, rows, commenting, advanced, written, overtaken, requests>>
  BY DEF FailGrade
<1>2. EvaluationTypeOK'
  BY <1>1 DEF EvaluationInv, EvaluationTypeOK
<1>3. OpenGradesKnowTheirRow'
  BY <1>1 DEF EvaluationInv, OpenGradesKnowTheirRow
<1>4. SavedWorkIsShown'
  BY <1>1 DEF EvaluationInv, SavedWorkIsShown, Row
<1> QED
  BY <1>2, <1>3, <1>4 DEF EvaluationInv

\* What the trigger leaves: the comment, and the grade unless it was overtaken.
LEMMA CommitKeepsEvaluation ==
  ASSUME EvaluationInv, NEW x \in grading, CommitGrade(x)
  PROVE  EvaluationInv'
<1> DEFINE c == x.column
           Cells == [grade : Marks, comment : Comments \cup {None}]
           new == [grade |-> x.grade, comment |-> None]
<1>1. /\ grading' = grading \ {x}
      /\ shortlist' = [shortlist EXCEPT ![c] = x.grade]
      /\ rows' = Mirrored(x)
      /\ overtaken' = IF x.updated THEN overtaken \ {c} ELSE overtaken
      /\ UNCHANGED <<selection, commenting, advanced, written, requests>>
  BY DEF CommitGrade
<1>2. /\ c \in Columns /\ x.grade \in Marks
      /\ rows \in [DOMAIN rows -> Cells] /\ DOMAIN rows \subseteq Columns
      /\ shortlist \in [Columns -> Marks]
      /\ \A y \in grading : y # x => y.column # c
  BY DEF EvaluationInv, EvaluationTypeOK, OpenGradesKnowTheirRow
<1>3. shortlist' \in [Columns -> Marks] /\ shortlist'[c] = x.grade
      /\ \A d \in Columns : d # c => shortlist'[d] = shortlist[d]
  BY <1>1, <1>2
<1>4. /\ DOMAIN rows' = DOMAIN rows \cup {c}
      /\ rows' \in [DOMAIN rows' -> Cells]
      /\ \A d \in DOMAIN rows : d # c => rows'[d] = rows[d]
      /\ c \in DOMAIN rows => rows'[c].comment = rows[c].comment
      /\ c \notin DOMAIN rows => rows'[c].comment = None
      /\ c \notin DOMAIN rows \/ x.updated => rows'[c].grade = x.grade
  <2>1. CASE x.updated
    <3>1. c \in DOMAIN rows
      BY <2>1 DEF EvaluationInv, OpenGradesKnowTheirRow
    <3>2. rows' = [rows EXCEPT ![c].grade = x.grade]
      BY <1>1, <2>1 DEF Mirrored
    <3> QED
      BY <1>2, <3>1, <3>2
  <2>2. CASE ~x.updated
    <3>1. rows' = Inserted(c, new)
      BY <1>1, <2>2 DEF Mirrored
    <3>2. new \in Cells /\ new.grade = x.grade /\ new.comment = None
      BY <1>2
    <3> HIDE DEF new
    <3>3. /\ DOMAIN rows' = DOMAIN rows \cup {c}
          /\ rows' = [d \in DOMAIN rows' |-> rows'[d]]
          /\ \A d \in DOMAIN rows : rows'[d] = rows[d]
          /\ c \notin DOMAIN rows => rows'[c] = new
      BY <3>1 DEF Inserted
    <3>4. \A d \in DOMAIN rows' : rows'[d] \in Cells
      BY <1>2, <3>2, <3>3
    <3> QED
      BY <2>2, <3>2, <3>3, <3>4
  <2> QED
    BY <2>1, <2>2
<1>5. x.updated \/ c \notin DOMAIN rows \/ c \in overtaken
  BY DEF EvaluationInv, OpenGradesKnowTheirRow
<1>6. EvaluationTypeOK'
  BY <1>1, <1>2, <1>3, <1>4 DEF EvaluationInv, EvaluationTypeOK
<1>7. OpenGradesKnowTheirRow'
  <2>1. \A y \in grading' : y \in grading /\ y.column # c
    BY <1>1, <1>2
  <2>2. \A d : d # c => (d \in DOMAIN rows' <=> d \in DOMAIN rows) /\ (d \in overtaken' <=> d \in overtaken)
    BY <1>1, <1>4
  <2> QED
    BY <2>1, <2>2 DEF EvaluationInv, OpenGradesKnowTheirRow
<1>8. SavedWorkIsShown'
  <2>1. ASSUME NEW d \in Columns
        PROVE  Row(d)'.comment = written[d] /\ (Row(d)'.grade = shortlist'[d] \/ d \in overtaken')
    <3>1. Row(d).comment = written[d] /\ (Row(d).grade = shortlist[d] \/ d \in overtaken)
      BY DEF EvaluationInv, SavedWorkIsShown
    <3>2. CASE d # c
      <4>1. Row(d)' = Row(d)
        BY <1>4, <3>2 DEF Row
      <4> QED
        BY <1>1, <1>3, <3>1, <3>2, <4>1
    <3>3. CASE d = c
      <4>1. Row(c)' = rows'[c]
        BY <1>4 DEF Row
      <4>2. rows'[c].comment = Row(c).comment
        BY <1>4, RowShown
      <4>3. rows'[c].grade = shortlist'[c] \/ c \in overtaken'
        BY <1>1, <1>3, <1>4, <1>5
      <4> QED
        BY <3>1, <3>3, <4>1, <4>2, <4>3
    <3> QED
      BY <3>2, <3>3
  <2> QED
    BY <1>1, <2>1 DEF SavedWorkIsShown
<1> QED
  BY <1>6, <1>7, <1>8 DEF EvaluationInv

\* A comment keeps the grade of its column, and marks a grade it overtook.
LEMMA CommentKeepsEvaluation ==
  ASSUME EvaluationInv, NEW z \in commenting, CommitComment(z)
  PROVE  EvaluationInv'
<1> DEFINE c == z.column
           text == z.text
           Cells == [grade : Marks, comment : Comments \cup {None}]
           new == [grade |-> None, comment |-> text]
<1>0. c \in Columns /\ text \in Comments \cup {None}
  BY DEF EvaluationInv, EvaluationTypeOK
<1>1. /\ commenting' \subseteq commenting
      /\ rows' = IF c \in DOMAIN rows THEN [rows EXCEPT ![c].comment = text] ELSE Inserted(c, new)
      /\ written' = [written EXCEPT ![c] = text]
      /\ overtaken' = IF c \notin DOMAIN rows /\ \E x \in grading : x.column = c
                      THEN overtaken \cup {c} ELSE overtaken
      /\ UNCHANGED <<selection, shortlist, grading, advanced, requests>>
  BY DEF CommitComment
<1> HIDE DEF c, text
<1>2. /\ rows \in [DOMAIN rows -> Cells] /\ DOMAIN rows \subseteq Columns
      /\ written \in [Columns -> Comments \cup {None}]
  BY DEF EvaluationInv, EvaluationTypeOK
<1>3. /\ DOMAIN rows' = DOMAIN rows \cup {c}
      /\ rows' \in [DOMAIN rows' -> Cells]
      /\ \A d \in DOMAIN rows : d # c => rows'[d] = rows[d]
      /\ rows'[c].comment = text
      /\ c \in DOMAIN rows => rows'[c].grade = rows[c].grade
      /\ c \notin DOMAIN rows => rows'[c].grade = None
  <2>1. CASE c \in DOMAIN rows
    BY <1>0, <1>1, <1>2, <2>1
  <2>2. CASE c \notin DOMAIN rows
    <3>1. rows' = Inserted(c, new)
      BY <1>1, <2>2
    <3>2. new \in Cells /\ new.grade = None /\ new.comment = text
      BY <1>0 DEF Marks
    <3> HIDE DEF new
    <3>3. /\ DOMAIN rows' = DOMAIN rows \cup {c}
          /\ rows' = [d \in DOMAIN rows' |-> rows'[d]]
          /\ \A d \in DOMAIN rows : rows'[d] = rows[d]
          /\ rows'[c] = new
      BY <2>2, <3>1 DEF Inserted
    <3>4. \A d \in DOMAIN rows' : rows'[d] \in Cells
      BY <1>0, <1>2, <3>2, <3>3
    <3> QED
      BY <2>2, <3>2, <3>3, <3>4
  <2> QED
    BY <2>1, <2>2
<1>4. overtaken \subseteq overtaken' /\ overtaken' \subseteq Columns
  BY <1>0, <1>1 DEF EvaluationInv, EvaluationTypeOK
<1>5. EvaluationTypeOK'
  BY <1>0, <1>1, <1>2, <1>3, <1>4 DEF EvaluationInv, EvaluationTypeOK
<1>6. OpenGradesKnowTheirRow'
  <2>1. ASSUME NEW x \in grading
        PROVE  IF x.updated THEN x.column \in DOMAIN rows'
               ELSE x.column \in DOMAIN rows' => x.column \in overtaken'
    <3>1. CASE x.column # c \/ c \in DOMAIN rows
      BY <1>3, <1>4, <3>1 DEF EvaluationInv, OpenGradesKnowTheirRow
    <3>2. CASE x.column = c /\ c \notin DOMAIN rows
      BY <1>1, <1>3, <3>2
    <3> QED
      BY <3>1, <3>2
  <2> QED
    BY <1>1, <2>1 DEF EvaluationInv, OpenGradesKnowTheirRow
<1>7. SavedWorkIsShown'
  <2>1. ASSUME NEW d \in Columns
        PROVE  Row(d)'.comment = written'[d] /\ (Row(d)'.grade = shortlist[d] \/ d \in overtaken')
    <3>1. Row(d).comment = written[d] /\ (Row(d).grade = shortlist[d] \/ d \in overtaken)
      BY DEF EvaluationInv, SavedWorkIsShown
    <3>2. CASE d # c
      <4>1. Row(d)' = Row(d)
        BY <1>3, <3>2 DEF Row
      <4>2. written'[d] = written[d]
        BY <1>1, <1>2, <3>2
      <4> QED
        BY <1>4, <3>1, <4>1, <4>2
    <3>3. CASE d = c
      <4>1. Row(c)' = rows'[c]
        BY <1>3 DEF Row
      <4>2. rows'[c].grade = Row(c).grade
        BY <1>3, RowShown
      <4>3. written'[c] = text
        BY <1>0, <1>1, <1>2
      <4> QED
        BY <1>3, <1>4, <3>1, <3>3, <4>1, <4>2, <4>3
    <3> QED
      BY <3>2, <3>3
  <2> QED
    BY <1>1, <2>1 DEF SavedWorkIsShown
<1> QED
  BY <1>5, <1>6, <1>7 DEF EvaluationInv

\* Every request of the evaluation keeps the saved work shown.
LEMMA EvaluationStep ==
  ASSUME EvaluationInv, EvaluationNext
  PROVE  EvaluationInv'
<1>1. ASSUME NEW a \in Applications, NEW selected \in BOOLEAN, Advance(a, selected)
      PROVE  EvaluationInv'
  BY <1>1 DEF Advance, Request, EvaluationInv, EvaluationTypeOK, OpenGradesKnowTheirRow,
     SavedWorkIsShown, Row
<1>2. ASSUME NEW c \in Columns, NEW text \in Comments \cup {None}, Comment(c, text)
      PROVE  EvaluationInv'
  BY <1>2 DEF Comment, Request, EvaluationInv, EvaluationTypeOK, OpenGradesKnowTheirRow,
     SavedWorkIsShown, Row
<1>3. ASSUME NEW x \in commenting, FailComment(x)
      PROVE  EvaluationInv'
  BY <1>3 DEF FailComment, EvaluationInv, EvaluationTypeOK, OpenGradesKnowTheirRow,
     SavedWorkIsShown, Row
<1>4. CASE LockSelection
  BY <1>4 DEF LockSelection, EvaluationInv, EvaluationTypeOK, OpenGradesKnowTheirRow,
     SavedWorkIsShown, Row
<1> QED
  BY <1>1, <1>2, <1>3, <1>4, GradeKeepsEvaluation, CommentKeepsEvaluation, CommitKeepsEvaluation,
     FailKeepsEvaluation DEF EvaluationNext

-----------------------------------------------------------------------------
(* The reviewed extracts.                                                  *)

\* What the type says of an importer that runs.
LEMMA ImporterRuns ==
  ASSUME ArtifactTypeOK
  PROVE  /\ importer.step \in {"stopped", "reading", "applying"}
         /\ importer.step = "stopped" <=> importer = Stopped
         /\ importer # Stopped =>
               /\ RunningImporter(importer)
               /\ importer.todo \subseteq Owners /\ importer.work \in Histories
               /\ importer.mine \subseteq Nat
               /\ DOMAIN importer.manifest \subseteq Owners
               /\ \A a \in DOMAIN importer.manifest :
                     importer.manifest[a] \in [source : Nat \ {0}, hash : Texts, pages : Pages]
<1>1. importer = Stopped \/ RunningImporter(importer)
  BY DEF ArtifactTypeOK
<1>2. Stopped.step = "stopped"
  BY DEF Stopped
<1>3. ASSUME RunningImporter(importer)
      PROVE  /\ importer.step \in {"reading", "applying"}
             /\ importer.todo \subseteq Owners /\ importer.work \in Histories
             /\ importer.mine \subseteq Nat
             /\ IsManifest(importer.manifest)
  BY <1>3 DEF RunningImporter
<1> QED
  BY <1>1, <1>2, <1>3 DEF IsManifest

\* A version cut from a source that fits extends a sound history, unless it
\* repeats the last one.
LEMMA SoundAppend ==
  ASSUME NEW a, NEW h \in Seq(Versions), SoundHistory(a, h), NEW v \in Versions,
         v.source \in 1..Len(sources[a]), sources[a][v.source] = v.hash,
         <<v.hash, v.pages>> \notin Recommends,
         h # << >> => [h[Len(h)] EXCEPT !.key = v.key] # v
  PROVE  SoundHistory(a, Append(h, v))
<1> DEFINE g == Append(h, v)
<1>1. /\ Len(g) = Len(h) + 1 /\ Len(h) \in Nat
      /\ \A i \in 1..Len(h) : g[i] = h[i]
      /\ g[Len(h) + 1] = v
      /\ Len(h) > 0 => h # << >>
  OBVIOUS
<1> HIDE DEF g
<1>2. ASSUME NEW i \in 1..Len(g)
      PROVE  /\ g[i].source \in 1..Len(sources[a])
             /\ sources[a][g[i].source] = g[i].hash
             /\ <<g[i].hash, g[i].pages>> \notin Recommends
             /\ i > 1 => [g[i-1] EXCEPT !.key = g[i].key] # g[i]
  <2>1. CASE i \in 1..Len(h)
    <3>1. g[i] = h[i] /\ (i > 1 => g[i-1] = h[i-1])
      BY SMTT(30), <1>1, <2>1
    <3> QED
      BY <2>1, <3>1 DEF SoundHistory
  <2>2. CASE i = Len(h) + 1
    <3>1. g[i] = v /\ (i > 1 => h # << >> /\ g[i-1] = h[Len(h)])
      BY <1>1, <2>2
    <3> QED
      BY <3>1
  <2> QED
    BY <1>1, <2>1, <2>2
<1> QED
  BY <1>2 DEF SoundHistory, g

\* Nothing but the sources decides whether a history is sound, and a source
\* only gets more versions.
LEMMA SoundStays ==
  ASSUME NEW a, NEW h, SoundHistory(a, h),
         Len(sources[a]) \in Nat, Len(sources'[a]) \in Nat, Len(sources[a]) <= Len(sources'[a]),
         \A i \in 1..Len(sources[a]) : sources'[a][i] = sources[a][i]
  PROVE  SoundHistory(a, h)'
BY DEF SoundHistory

\* The active artifact of every application of the last manifest is its entry.
AppliedIsCurrent ==
  \A a \in DOMAIN applied :
     /\ slots[a] # << >>
     /\ [source |-> slots[a][Len(slots[a])].source, hash |-> slots[a][Len(slots[a])].hash,
         pages |-> slots[a][Len(slots[a])].pages] = applied[a]

\* What is served follows from that and the committed histories.
LEMMA Served ==
  ArtifactTypeOK /\ CommittedObjectsStay /\ AppliedIsCurrent => AppliedArtifactsAreServed
<1>1. SUFFICES ASSUME ArtifactTypeOK, CommittedObjectsStay, AppliedIsCurrent
               PROVE  AppliedArtifactsAreServed
  OBVIOUS
<1>2. ASSUME NEW a \in DOMAIN applied
      PROVE  slots[a][Len(slots[a])].key \in objects \cup unanswered
  <2>1. a \in Owners /\ slots[a] \in Seq(Versions) /\ slots[a] # << >>
    BY <1>1 DEF ArtifactTypeOK, Histories, AppliedIsCurrent
  <2>2. Len(slots[a]) \in 1..Len(slots[a])
    BY <2>1
  <2> QED
    BY <1>1, <2>1, <2>2 DEF CommittedObjectsStay
<1>3. \A a \in Owners : \A i \in 1..Len(slots[a]) :
        /\ sources[a][slots[a][i].source] = slots[a][i].hash
        /\ <<slots[a][i].hash, slots[a][i].pages>> \notin Recommends
        /\ i > 1 => [slots[a][i-1] EXCEPT !.key = slots[a][i].key] # slots[a][i]
  BY <1>1 DEF CommittedObjectsStay, SoundHistory
<1> QED
  BY <1>1, <1>2, <1>3 DEF AppliedArtifactsAreServed, AppliedIsCurrent

\* It is the one clause of what is served that no other part says.
LEMMA AppliedIsLast == AppliedArtifactsAreServed => AppliedIsCurrent
BY DEF AppliedArtifactsAreServed, AppliedIsCurrent

\* An importer that stops without a commit: the committed histories keep their
\* objects.
LEMMA StopKeepsArtifacts ==
  ASSUME ArtifactInv, importer' = Stopped,
         UNCHANGED <<sources, slots, applied, drawn, imports, unanswered>>,
         faults' \in Nat, objects' \subseteq objects,
         \A a \in Owners : \A i \in 1..Len(slots[a]) : slots[a][i].key \in objects' \cup unanswered
  PROVE  ArtifactInv'
<1>1. ArtifactTypeOK'
  BY DEF ArtifactInv, ArtifactTypeOK
<1>2. CommittedObjectsStay'
  <2>1. \A a \in Owners : SoundHistory(a, slots[a])'
    BY DEF ArtifactInv, CommittedObjectsStay, SoundHistory
  <2> QED
    BY <2>1 DEF ArtifactInv, CommittedObjectsStay, SoundHistory
<1>3. OpenImportIsSound'
  BY DEF OpenImportIsSound
<1>4. AppliedIsCurrent'
  BY AppliedIsLast DEF ArtifactInv, AppliedIsCurrent
<1>5. AppliedArtifactsAreServed'
  BY <1>1, <1>2, <1>4, Served, PTL
<1> QED
  BY <1>1, <1>2, <1>3, <1>5 DEF ArtifactInv

\* A commit: the histories of the transaction become the committed ones.
LEMMA CommittedWork ==
  ASSUME ArtifactInv, importer.step = "applying", importer' = Stopped, slots' = importer.work,
         UNCHANGED <<sources, drawn, imports>>, faults' \in Nat,
         objects' \subseteq objects, objects \cup unanswered \subseteq objects' \cup unanswered',
         DOMAIN applied' \subseteq Owners
  PROVE  ArtifactTypeOK' /\ CommittedObjectsStay' /\ OpenImportIsSound'
<1>1. importer # Stopped /\ importer.work \in Histories
  BY ImporterRuns DEF ArtifactInv, Stopped
<1>2. ArtifactTypeOK'
  BY <1>1 DEF ArtifactInv, ArtifactTypeOK
<1>3. ASSUME NEW a \in Owners
      PROVE  /\ SoundHistory(a, slots[a])'
             /\ \A i \in 1..Len(slots'[a]) :
                   slots'[a][i].key \in 1..drawn' /\ slots'[a][i].key \in objects' \cup unanswered'
  <2>1. /\ SoundHistory(a, importer.work[a])
        /\ \A i \in 1..Len(importer.work[a]) :
              importer.work[a][i].key \in 1..drawn /\ importer.work[a][i].key \in objects \cup unanswered
    BY <1>1 DEF ArtifactInv, OpenImportIsSound
  <2>2. SoundHistory(a, slots[a])'
    BY <2>1 DEF SoundHistory
  <2> QED
    BY <2>1, <2>2
<1> QED
  BY <1>2, <1>3 DEF CommittedObjectsStay, OpenImportIsSound

\* The manifest is reported applied when every entry ends its history.
LEMMA CommitKeepsArtifacts ==
  ASSUME ArtifactInv, Commit
  PROVE  ArtifactInv'
<1>1. /\ importer.step = "applying" /\ importer.todo = {}
      /\ slots' = importer.work /\ applied' = importer.manifest /\ importer' = Stopped
      /\ UNCHANGED <<sources, objects, drawn, imports, faults, unanswered>>
  BY DEF Commit
<1>2. /\ importer # Stopped /\ DOMAIN importer.manifest \subseteq Owners
      /\ \A a \in DOMAIN importer.manifest :
            importer.manifest[a] \in [source : Nat \ {0}, hash : Texts, pages : Pages]
  BY <1>1, ImporterRuns DEF ArtifactInv, Stopped
<1>3. ArtifactTypeOK' /\ CommittedObjectsStay' /\ OpenImportIsSound'
  BY <1>1, <1>2, CommittedWork DEF ArtifactInv, ArtifactTypeOK
<1>4. AppliedIsCurrent'
  <2>1. ASSUME NEW a \in DOMAIN importer.manifest
        PROVE  /\ importer.work[a] # << >>
               /\ [source |-> importer.work[a][Len(importer.work[a])].source,
                   hash |-> importer.work[a][Len(importer.work[a])].hash,
                   pages |-> importer.work[a][Len(importer.work[a])].pages] = importer.manifest[a]
    <3>1. EndsWith(importer.work[a], importer.manifest[a])
      BY <1>1, <1>2 DEF ArtifactInv, OpenImportIsSound
    <3> QED
      BY <1>2, <3>1 DEF EndsWith, Matches
  <2> QED
    BY <1>1, <2>1 DEF AppliedIsCurrent
<1>5. AppliedArtifactsAreServed'
  BY <1>3, <1>4, Served, PTL
<1> QED
  BY <1>3, <1>5 DEF ArtifactInv

\* A failure removes the objects of its own transaction, also of one whose
\* commit went through unanswered.
LEMMA FailKeepsArtifacts ==
  ASSUME ArtifactInv, Fail
  PROVE  ArtifactInv'
<1>1. /\ importer # Stopped /\ faults' = faults + 1 /\ importer' = Stopped
      /\ objects' = IF importer.step = "applying" THEN objects \ importer.mine ELSE objects
      /\ UNCHANGED <<sources, drawn, imports>>
  BY DEF Fail, Fault, Removed
<1>2. faults' \in Nat /\ objects' \subseteq objects
  BY <1>1 DEF ArtifactInv, ArtifactTypeOK
<1>3. CASE UNCHANGED <<slots, applied, unanswered>>
  <2>1. ASSUME NEW a \in Owners, NEW i \in 1..Len(slots[a])
        PROVE  slots[a][i].key \in objects' \cup unanswered
    <3>1. slots[a][i].key \in objects \cup unanswered
      BY DEF ArtifactInv, CommittedObjectsStay
    <3>2. slots[a][i].key \notin importer.mine
      BY <1>1 DEF ArtifactInv, OpenImportIsSound
    <3> QED
      BY <1>1, <3>1, <3>2
  <2> QED
    BY <1>1, <1>2, <1>3, <2>1, StopKeepsArtifacts
<1>4. CASE /\ importer.step = "applying" /\ importer.todo = {}
           /\ slots' = importer.work
           /\ applied' = NoManifest
           /\ unanswered' = unanswered \cup importer.mine
  <2>1. DOMAIN applied' = {}
    BY <1>4 DEF NoManifest
  <2>2. objects \cup unanswered \subseteq objects' \cup unanswered'
    BY <1>1, <1>4
  <2>3. ArtifactTypeOK' /\ CommittedObjectsStay' /\ OpenImportIsSound'
    BY <1>1, <1>2, <1>4, <2>1, <2>2, CommittedWork
  <2>4. AppliedIsCurrent'
    BY <2>1 DEF AppliedIsCurrent
  <2>5. AppliedArtifactsAreServed'
    BY <2>3, <2>4, Served, PTL
  <2> QED
    BY <2>3, <2>5 DEF ArtifactInv
<1> QED
  BY <1>3, <1>4 DEF Fail

\* A kill removes nothing.
LEMMA DieKeepsArtifacts ==
  ASSUME ArtifactInv, Die
  PROVE  ArtifactInv'
<1>1. /\ faults' = faults + 1 /\ importer' = Stopped
      /\ UNCHANGED <<sources, slots, objects, applied, drawn, imports, unanswered>>
  BY DEF Die, Fault
<1>2. faults' \in Nat
  BY <1>1 DEF ArtifactInv, ArtifactTypeOK
<1> QED
  BY <1>1, <1>2, StopKeepsArtifacts DEF ArtifactInv, CommittedObjectsStay

\* A step of the importer that commits nothing leaves the served artifacts.
LEMMA UncommittedKeepsServed ==
  ASSUME ArtifactInv, UNCHANGED <<sources, slots, applied, unanswered>>,
         drawn \in Nat, drawn' \in Nat, drawn <= drawn', objects \subseteq objects'
  PROVE  CommittedObjectsStay' /\ AppliedIsCurrent'
<1>1. ASSUME NEW a \in Owners
      PROVE  /\ SoundHistory(a, slots[a])'
             /\ \A i \in 1..Len(slots'[a]) :
                   slots'[a][i].key \in 1..drawn' /\ slots'[a][i].key \in objects' \cup unanswered'
  <2>1. SoundHistory(a, slots[a])
    BY DEF ArtifactInv, CommittedObjectsStay
  <2>2. SoundHistory(a, slots[a])'
    BY <2>1 DEF SoundHistory
  <2>3. 1..drawn \subseteq 1..drawn'
    OBVIOUS
  <2> QED
    BY <2>2, <2>3 DEF ArtifactInv, CommittedObjectsStay
<1>2. AppliedIsCurrent'
  BY AppliedIsLast DEF ArtifactInv, AppliedIsCurrent
<1> QED
  BY <1>1, <1>2 DEF CommittedObjectsStay

\* A new import works on the committed histories and has checked nothing.
LEMMA StartKeepsArtifacts ==
  ASSUME ArtifactInv, NEW m \in Manifests, Start(m)
  PROVE  ArtifactInv'
<1> DEFINE next == [step |-> "reading", manifest |-> m, todo |-> DOMAIN m, work |-> slots, mine |-> {}]
<1>1. /\ imports' = imports + 1 /\ importer' = next
      /\ UNCHANGED <<sources, slots, objects, applied, drawn, faults, unanswered>>
  BY DEF Start
<1>2. PICK scope \in (SUBSET Owners) \ {{}} :
         m \in {n \in [scope -> UNION {Entries(a) : a \in scope}] : \A a \in scope : n[a] \in Entries(a)}
  BY DEF Manifests
<1>3. /\ DOMAIN m = scope /\ scope \subseteq Owners
      /\ m \in [scope -> [source : Nat \ {0}, hash : Texts, pages : Pages]]
  <2>1. DOMAIN m = scope /\ m = [a \in scope |-> m[a]] /\ \A a \in scope : m[a] \in Entries(a)
    BY <1>2
  <2>2. ASSUME NEW a \in Owners
        PROVE  1..Len(sources[a]) \subseteq Nat \ {0}
    <3>1. sources[a] \in Seq(Texts)
      BY DEF ArtifactInv, ArtifactTypeOK
    <3> QED
      BY <3>1
  <2>3. \A a \in scope : Entries(a) \subseteq [source : Nat \ {0}, hash : Texts, pages : Pages]
    BY <1>2, <2>2 DEF Entries
  <2> QED
    BY <1>2, <2>1, <2>3
<1>4. /\ next.step = "reading" /\ next.manifest = m /\ next.todo = scope
      /\ next.work = slots /\ next.mine = {}
      /\ RunningImporter(next) /\ next # Stopped
  <2>1. m \in UNION {[s -> [source : Nat \ {0}, hash : Texts, pages : Pages]] : s \in SUBSET Owners}
    BY <1>2, <1>3
  <2>2. slots \in Histories
    BY DEF ArtifactInv, ArtifactTypeOK
  <2>3. next.step = "reading" /\ Stopped.step = "stopped"
    BY DEF Stopped
  <2> QED
    BY <1>2, <1>3, <2>1, <2>2, <2>3 DEF RunningImporter, IsManifest
<1> HIDE DEF next
<1>5. ArtifactTypeOK'
  BY <1>1, <1>4 DEF ArtifactInv, ArtifactTypeOK
<1>6. CommittedObjectsStay' /\ AppliedIsCurrent'
  BY <1>1, UncommittedKeepsServed DEF ArtifactInv, ArtifactTypeOK
<1>7. OpenImportIsSound'
  <2>1. ASSUME NEW a \in Owners
        PROVE  /\ SoundHistory(a, importer.work[a])'
               /\ \A i \in 1..Len(slots'[a]) : slots'[a][i].key \notin importer'.mine
               /\ \A i \in 1..Len(importer'.work[a]) :
                     importer'.work[a][i].key \in 1..drawn'
                     /\ importer'.work[a][i].key \in objects' \cup unanswered'
    BY <1>1, <1>4, <1>6 DEF CommittedObjectsStay, SoundHistory
  <2> QED
    BY <1>1, <1>3, <1>4, <2>1 DEF OpenImportIsSound
<1>8. AppliedArtifactsAreServed'
  BY <1>5, <1>6, Served, PTL
<1> QED
  BY <1>5, <1>6, <1>7, <1>8 DEF ArtifactInv

\* What the invariant says of a running importer.
LEMMA Running ==
  ASSUME ArtifactInv, importer # Stopped
  PROVE  /\ RunningImporter(importer) /\ importer.step \in {"reading", "applying"}
         /\ importer.todo \subseteq DOMAIN importer.manifest
         /\ DOMAIN importer.manifest \subseteq Owners
         /\ \A a \in DOMAIN importer.manifest :
               importer.manifest[a] \in [source : Nat \ {0}, hash : Texts, pages : Pages]
         /\ importer.work \in Histories /\ importer.mine \subseteq objects
         /\ \A a \in Owners : SoundHistory(a, importer.work[a])
BY ImporterRuns DEF ArtifactInv, OpenImportIsSound

\* An extract is prepared from the active version of its source, or the run ends.
LEMMA PrepareKeepsArtifacts ==
  ASSUME ArtifactInv, NEW a \in Owners, Prepare(a)
  PROVE  ArtifactInv'
<1> DEFINE e == importer.manifest[a]
<1>1. /\ importer.step = "reading" /\ importer # Stopped /\ a \in importer.todo
      /\ importer' = IF SourceFits(a, e) /\ Presentable(e)
                     THEN [importer EXCEPT !.todo = importer.todo \ {a}] ELSE Stopped
      /\ UNCHANGED <<sources, slots, objects, applied, drawn, imports, faults, unanswered>>
  BY DEF Prepare, Stopped
<1>2. CASE ~(SourceFits(a, e) /\ Presentable(e))
  BY <1>1, <1>2, StopKeepsArtifacts DEF ArtifactInv, ArtifactTypeOK, CommittedObjectsStay
<1>3. CASE SourceFits(a, e) /\ Presentable(e)
  <2>1. /\ RunningImporter(importer') /\ importer'.step = "reading"
        /\ importer'.manifest = importer.manifest
        /\ importer'.todo = importer.todo \ {a} /\ importer'.work = importer.work
        /\ importer'.mine = importer.mine /\ importer' # Stopped
    <3>1. RunningImporter(importer) /\ importer' = [importer EXCEPT !.todo = importer.todo \ {a}]
      BY <1>1, <1>3, Running
    <3>2. Stopped.step = "stopped"
      BY DEF Stopped
    <3> QED
      BY <1>1, <3>1, <3>2 DEF RunningImporter, IsManifest
  <2>2. ArtifactTypeOK'
    BY <1>1, <2>1 DEF ArtifactInv, ArtifactTypeOK
  <2>3. CommittedObjectsStay' /\ AppliedIsCurrent'
    BY <1>1, UncommittedKeepsServed DEF ArtifactInv, ArtifactTypeOK
  <2>4. e.source \in 1..Len(sources[a]) /\ sources[a][e.source] = e.hash
    <3>1. e.source \in Nat \ {0}
      BY <1>1, Running
    <3>2. sources[a] \in Seq(Texts)
      BY DEF ArtifactInv, ArtifactTypeOK
    <3> QED
      BY <1>3, <3>1, <3>2 DEF SourceFits
  <2>5. ASSUME NEW b \in DOMAIN importer.manifest, b \notin importer.todo \ {a}
        PROVE  /\ importer.manifest[b].source \in 1..Len(sources[b])
               /\ sources[b][importer.manifest[b].source] = importer.manifest[b].hash
               /\ Presentable(importer.manifest[b])
    <3>1. CASE b = a
      BY <1>3, <2>4, <3>1
    <3>2. CASE b # a
      BY SMTT(30), <1>1, <2>5, <3>2 DEF ArtifactInv, OpenImportIsSound
    <3> QED
      BY <3>1, <3>2
  <2>6. OpenImportIsSound'
    <3>1. \A b \in Owners : SoundHistory(b, importer.work[b])'
      BY SMTT(30), <1>1, <2>1, Running DEF SoundHistory
    <3>2. \A b \in DOMAIN importer'.manifest :
             importer'.step = "applying" \/ b \notin importer'.todo =>
                LET d == importer'.manifest[b] IN
                /\ d.source \in 1..Len(sources'[b]) /\ sources'[b][d.source] = d.hash
                /\ Presentable(d)
      BY <1>1, <2>1, <2>5
    <3> QED
      BY SMTT(30), <1>1, <2>1, <3>1, <3>2 DEF ArtifactInv, OpenImportIsSound, Presentable
  <2>7. AppliedArtifactsAreServed'
    BY <2>2, <2>3, Served, PTL
  <2> QED
    BY <2>2, <2>3, <2>6, <2>7 DEF ArtifactInv
<1> QED
  BY <1>2, <1>3

\* All entries were checked before the first is stored.
LEMMA ScanKeepsArtifacts ==
  ASSUME ArtifactInv, Scan
  PROVE  ArtifactInv'
<1>1. /\ importer.step = "reading" /\ importer # Stopped /\ importer.todo = {}
      /\ importer' = [importer EXCEPT !.step = "applying", !.todo = DOMAIN importer.manifest]
      /\ UNCHANGED <<sources, slots, objects, applied, drawn, imports, faults, unanswered>>
  BY DEF Scan, Stopped
<1>2. /\ RunningImporter(importer') /\ importer'.step = "applying"
      /\ importer'.manifest = importer.manifest
      /\ importer'.todo = DOMAIN importer.manifest /\ importer'.work = importer.work
      /\ importer'.mine = importer.mine /\ importer' # Stopped
  <2>1. RunningImporter(importer) /\ DOMAIN importer.manifest \subseteq Owners
    BY <1>1, Running
  <2>2. Stopped.step = "stopped"
    BY DEF Stopped
  <2> QED
    BY <1>1, <2>1, <2>2 DEF RunningImporter, IsManifest
<1>3. ArtifactTypeOK'
  BY <1>1, <1>2 DEF ArtifactInv, ArtifactTypeOK
<1>4. CommittedObjectsStay' /\ AppliedIsCurrent'
  BY <1>1, UncommittedKeepsServed DEF ArtifactInv, ArtifactTypeOK
<1>5. OpenImportIsSound'
  <2>1. \A b \in Owners : SoundHistory(b, importer.work[b])'
    BY <1>1, <1>2, Running DEF SoundHistory
  <2>2. \A b \in DOMAIN importer'.manifest :
           LET d == importer'.manifest[b] IN
           /\ d.source \in 1..Len(sources'[b]) /\ sources'[b][d.source] = d.hash
           /\ Presentable(d)
    BY <1>1, <1>2 DEF ArtifactInv, OpenImportIsSound
  <2> QED
    BY <1>1, <1>2, <2>1, <2>2 DEF ArtifactInv, OpenImportIsSound, Presentable
<1>6. AppliedArtifactsAreServed'
  BY <1>3, <1>4, Served, PTL
<1> QED
  BY <1>3, <1>4, <1>5, <1>6 DEF ArtifactInv

\* An entry is stored as the next version unless it is the last one already.
LEMMA StoreKeepsArtifacts ==
  ASSUME ArtifactInv, NEW a \in Owners, Store(a)
  PROVE  ArtifactInv'
<1> DEFINE e == importer.manifest[a]
           h == importer.work[a]
           k == drawn + 1
           v == [source |-> e.source, hash |-> e.hash, pages |-> e.pages, key |-> k]
<1>1. /\ importer.step = "applying" /\ importer # Stopped /\ a \in importer.todo
      /\ UNCHANGED <<sources, slots, applied, imports, faults, unanswered>>
  BY DEF Store, Stopped
<1>2. /\ RunningImporter(importer)
      /\ a \in DOMAIN importer.manifest /\ DOMAIN importer.manifest \subseteq Owners
      /\ e \in [source : Nat \ {0}, hash : Texts, pages : Pages]
      /\ importer.work \in Histories /\ h \in Seq(Versions)
      /\ SoundHistory(a, h)
      /\ importer.mine \subseteq objects
      /\ drawn \in Nat /\ objects \subseteq 1..drawn
  BY <1>1, Running DEF Histories, ArtifactInv, ArtifactTypeOK
<1>3. e.source \in 1..Len(sources[a]) /\ sources[a][e.source] = e.hash /\ Presentable(e)
  BY <1>1, <1>2 DEF ArtifactInv, OpenImportIsSound
<1>4. PICK g \in Seq(Versions), new \in SUBSET {k} :
         /\ importer'.work = [importer.work EXCEPT ![a] = g]
         /\ importer'.mine = importer.mine \cup new
         /\ importer'.todo = importer.todo \ {a}
         /\ importer'.manifest = importer.manifest /\ importer'.step = "applying"
         /\ RunningImporter(importer')
         /\ objects' = objects \cup new
         /\ drawn' \in {drawn, k} /\ (new = {k} => drawn' = k)
         /\ EndsWith(g, e) /\ SoundHistory(a, g)
         /\ \A i \in 1..Len(g) : g[i].key \in new \/ \E j \in 1..Len(h) : g[i] = h[j]
  <2>1. CASE AlreadyApplied(a, e)
    <3>1. /\ importer' = [importer EXCEPT !.todo = importer.todo \ {a}]
          /\ objects' = objects /\ drawn' = drawn
      BY <2>1 DEF Store
    <3>2. h # << >> /\ Matches(h[Len(h)], e)
      BY <2>1 DEF AlreadyApplied
    <3>3. importer.work = [importer.work EXCEPT ![a] = h]
      BY <1>2 DEF Histories
    <3>4. /\ importer'.work = importer.work /\ importer'.mine = importer.mine \cup {}
          /\ importer'.todo = importer.todo \ {a}
          /\ importer'.manifest = importer.manifest /\ importer'.step = "applying"
          /\ RunningImporter(importer')
      BY <1>1, <1>2, <3>1 DEF RunningImporter, IsManifest
    <3>5. EndsWith(h, e)
      BY <3>2 DEF EndsWith
    <3> HIDE DEF h, e, k
    <3>6. \A i \in 1..Len(h) : h[i].key \in {} \/ \E j \in 1..Len(h) : h[i] = h[j]
      OBVIOUS
    <3>7. objects' = objects \cup {} /\ drawn' \in {drawn, k} /\ {} # {k} /\ {} \in SUBSET {k}
      BY <3>1
    <3>8. importer'.work = [importer.work EXCEPT ![a] = h]
      BY <3>3, <3>4
    <3> QED
      BY ONLY <1>2, <3>4, <3>5, <3>6, <3>7, <3>8
  <2>2. CASE ~AlreadyApplied(a, e)
    <3>1. /\ drawn' = k /\ objects' = objects \cup {k}
          /\ importer' = [importer EXCEPT !.todo = importer.todo \ {a},
                                          !.mine = importer.mine \cup {k},
                                          !.work[a] = Append(importer.work[a], v)]
      BY <2>2 DEF Store
    <3>2. v \in Versions /\ v.source = e.source /\ v.hash = e.hash /\ v.pages = e.pages /\ v.key = k
      BY <1>2 DEF Versions
    <3>3. h # << >> => [h[Len(h)] EXCEPT !.key = v.key] # v
      <4>1. SUFFICES ASSUME h # << >>, [h[Len(h)] EXCEPT !.key = v.key] = v
                     PROVE  FALSE
        OBVIOUS
      <4>2. Len(h) \in 1..Len(h) /\ h[Len(h)] \in Versions
        BY <1>2, <4>1
      <4>3. h[Len(h)].source = e.source /\ h[Len(h)].hash = e.hash /\ h[Len(h)].pages = e.pages
        BY <3>2, <4>1, <4>2 DEF Versions
      <4> QED
        BY <2>2, <4>1, <4>3 DEF AlreadyApplied, Matches, Extract
    <3> HIDE DEF v
    <3>4. SoundHistory(a, Append(h, v))
      BY <1>2, <1>3, <3>2, <3>3, SoundAppend DEF Presentable
    <3>5. /\ Append(h, v) \in Seq(Versions)
          /\ Append(h, v) # << >>
          /\ Append(h, v)[Len(Append(h, v))] = v
          /\ \A i \in 1..Len(Append(h, v)) : Append(h, v)[i] = v \/ \E j \in 1..Len(h) : Append(h, v)[i] = h[j]
      BY SMTT(30), <1>2, <3>2
    <3>6. EndsWith(Append(h, v), e)
      BY <3>2, <3>5 DEF EndsWith, Matches
    <3>7. [importer.work EXCEPT ![a] = Append(h, v)] \in Histories /\ importer.mine \cup {k} \in SUBSET Nat
      <4>1. [importer.work EXCEPT ![a] = Append(h, v)] \in Histories
        BY <1>2, <3>5 DEF Histories
      <4>2. importer.mine \subseteq 1..drawn
        BY <1>2
      <4> QED
        BY <1>2, <4>1, <4>2
    <3>8. /\ importer'.work = [importer.work EXCEPT ![a] = Append(h, v)]
          /\ importer'.mine = importer.mine \cup {k}
          /\ importer'.todo = importer.todo \ {a}
          /\ importer'.manifest = importer.manifest /\ importer'.step = "applying"
          /\ RunningImporter(importer')
      <4> DEFINE w == [importer.work EXCEPT ![a] = Append(h, v)]
      <4>1. importer' = [importer EXCEPT !.todo = importer.todo \ {a},
                                         !.mine = importer.mine \cup {k},
                                         !.work = w]
        BY <1>2, <3>1 DEF RunningImporter, IsManifest
      <4>2. w \in Histories
        BY <3>7
      <4> HIDE DEF w
      <4>3. /\ importer'.work = w
            /\ importer'.mine = importer.mine \cup {k}
            /\ importer'.todo = importer.todo \ {a}
            /\ importer'.manifest = importer.manifest /\ importer'.step = "applying"
            /\ RunningImporter(importer')
        BY <1>1, <1>2, <3>7, <4>1, <4>2 DEF RunningImporter, IsManifest
      <4> QED
        BY <4>3 DEF w
    <3>9. \A i \in 1..Len(Append(h, v)) :
             Append(h, v)[i].key \in {k} \/ \E j \in 1..Len(h) : Append(h, v)[i] = h[j]
      BY <3>2, <3>5
    <3> QED
      BY <3>1, <3>4, <3>5, <3>6, <3>8, <3>9
  <2> QED
    BY <2>1, <2>2
<1> HIDE DEF e, h, v
<1>5. /\ drawn' \in Nat /\ drawn <= drawn' /\ objects \subseteq objects' /\ objects' \subseteq 1..drawn'
      /\ k \notin 1..drawn /\ 1..drawn \subseteq 1..drawn' /\ new \subseteq 1..drawn'
      /\ importer' # Stopped
  <2>1. importer' # Stopped
    <3>1. Stopped.step = "stopped"
      BY DEF Stopped
    <3> QED
      BY <1>4, <3>1
  <2>2. new = {} \/ (new = {k} /\ drawn' = k)
    BY ZenonT(60), <1>4
  <2>3. /\ objects' = objects \cup new /\ drawn' \in {drawn, k}
        /\ drawn \in Nat /\ objects \subseteq 1..drawn
    BY <1>2, <1>4
  <2> QED
    BY ONLY <2>1, <2>2, <2>3
<1>6. ArtifactTypeOK'
  BY <1>1, <1>4, <1>5 DEF ArtifactInv, ArtifactTypeOK
<1>7. CommittedObjectsStay' /\ AppliedIsCurrent'
  BY <1>1, <1>2, <1>5, UncommittedKeepsServed
<1>8. importer'.work[a] = g /\ \A b \in Owners : b # a => importer'.work[b] = importer.work[b]
  BY <1>2, <1>4 DEF Histories
<1>9. OpenImportIsSound'
  <2>1. ASSUME NEW b \in Owners
        PROVE  /\ SoundHistory(b, importer.work[b])'
               /\ \A i \in 1..Len(slots'[b]) : slots'[b][i].key \notin importer'.mine
               /\ \A i \in 1..Len(importer'.work[b]) :
                     importer'.work[b][i].key \in 1..drawn'
                     /\ importer'.work[b][i].key \in objects' \cup unanswered'
    <3>1. SoundHistory(b, importer'.work[b])
      BY <1>1, <1>4, <1>8, Running
    <3>2. SoundHistory(b, importer.work[b])'
      BY <1>1, <3>1 DEF SoundHistory
    <3>3. ASSUME NEW i \in 1..Len(slots[b])
          PROVE  slots[b][i].key \notin importer'.mine
      <4>1. slots[b][i].key \in 1..drawn
        BY DEF ArtifactInv, CommittedObjectsStay
      <4>2. slots[b][i].key \notin importer.mine
        BY <1>1 DEF ArtifactInv, OpenImportIsSound
      <4> QED
        BY <1>4, <1>5, <4>1, <4>2
    <3>4. \A c \in Owners : \A j \in 1..Len(importer.work[c]) :
             importer.work[c][j].key \in 1..drawn
             /\ importer.work[c][j].key \in objects \cup unanswered
      BY <1>1 DEF ArtifactInv, OpenImportIsSound
    <3>5. ASSUME NEW i \in 1..Len(importer'.work[b])
          PROVE  importer'.work[b][i].key \in 1..drawn'
                 /\ importer'.work[b][i].key \in objects' \cup unanswered
      <4>1. CASE b # a
        BY <1>5, <1>8, <3>4, <3>5, <4>1
      <4>2. CASE b = a
        <5>1. g[i].key \in new \/ \E j \in 1..Len(h) : g[i] = h[j]
          BY <1>4, <1>8, <4>2
        <5> QED
          BY <1>4, <1>5, <1>8, <3>4, <4>2, <5>1 DEF h
      <4> QED
        BY <4>1, <4>2
    <3> QED
      BY <1>1, <3>2, <3>3, <3>5
  <2>2. \A b \in DOMAIN importer'.manifest :
           LET d == importer'.manifest[b] IN
           /\ d.source \in 1..Len(sources'[b]) /\ sources'[b][d.source] = d.hash
           /\ Presentable(d)
    BY <1>1, <1>4 DEF ArtifactInv, OpenImportIsSound
  <2>3. ASSUME NEW b \in DOMAIN importer'.manifest \ importer'.todo
        PROVE  EndsWith(importer'.work[b], importer'.manifest[b])
    <3>1. CASE b = a
      BY <1>4, <1>8, <3>1 DEF e
    <3>2. CASE b # a
      <4>1. EndsWith(importer.work[b], importer.manifest[b])
        BY <1>1, <1>4, <3>2 DEF ArtifactInv, OpenImportIsSound
      <4> QED
        BY <1>2, <1>4, <1>8, <3>2, <4>1
    <3> QED
      BY <3>1, <3>2
  <2>4. importer'.todo \subseteq DOMAIN importer'.manifest
    BY <1>1, <1>4, Running
  <2>5. importer'.mine \subseteq objects'
    BY <1>2, <1>4
  <2> QED
    BY <1>4, <1>5, <2>1, <2>2, <2>3, <2>4, <2>5 DEF OpenImportIsSound, Presentable, EndsWith, Matches
<1>10. AppliedArtifactsAreServed'
  BY <1>6, <1>7, Served, PTL
<1> QED
  BY <1>6, <1>7, <1>9, <1>10 DEF ArtifactInv

\* Versions of a source document are only added, so what was cut from the
\* earlier ones stays what it was cut from.
LEMMA ReplaceKeepsArtifacts ==
  ASSUME ArtifactInv, NEW a \in Owners, NEW x \in Texts, ReplaceSource(a, x)
  PROVE  ArtifactInv'
<1>1. /\ sources' = [sources EXCEPT ![a] = Append(sources[a], x)]
      /\ UNCHANGED <<slots, objects, importer, applied, drawn, imports, faults, unanswered>>
  BY DEF ReplaceSource
<1>2. sources \in [Owners -> Seq(Texts)]
  BY DEF ArtifactInv, ArtifactTypeOK
<1>3. sources' \in [Owners -> Seq(Texts)]
  BY <1>1, <1>2
<1>4. ASSUME NEW b \in Owners
      PROVE  /\ Len(sources[b]) \in Nat /\ Len(sources'[b]) \in Nat
             /\ Len(sources[b]) <= Len(sources'[b])
             /\ \A i \in 1..Len(sources[b]) : sources'[b][i] = sources[b][i]
  BY <1>1, <1>2
<1>5. ArtifactTypeOK'
  BY <1>1, <1>3 DEF ArtifactInv, ArtifactTypeOK
<1>6. CommittedObjectsStay'
  <2>1. \A b \in Owners : SoundHistory(b, slots[b])
    BY DEF ArtifactInv, CommittedObjectsStay
  <2>2. ASSUME NEW b \in Owners PROVE SoundHistory(b, slots[b])'
    BY SMTT(30), <1>1, <1>4, <2>1 DEF SoundHistory
  <2> QED
    BY <1>1, <2>2 DEF ArtifactInv, CommittedObjectsStay
<1>7. AppliedIsCurrent'
  BY <1>1, AppliedIsLast DEF ArtifactInv, AppliedIsCurrent
<1>8. OpenImportIsSound'
  <2>1. SUFFICES ASSUME importer # Stopped PROVE OpenImportIsSound'
    BY <1>1 DEF OpenImportIsSound
  <2>2. ASSUME NEW b \in Owners PROVE SoundHistory(b, importer.work[b])'
    <3>1. SoundHistory(b, importer.work[b])
      BY <2>1, Running
    <3>2. PICK h : h = importer.work[b]
      OBVIOUS
    <3>3. SoundHistory(b, h)'
      BY <1>4, <3>1, <3>2, SoundStays
    <3> QED
      BY <1>1, <3>2, <3>3 DEF SoundHistory
  <2>3. DOMAIN importer.manifest \subseteq Owners
    BY <2>1, Running
  <2>4. ASSUME NEW b \in DOMAIN importer.manifest,
               importer.step = "applying" \/ b \notin importer.todo
        PROVE  LET d == importer.manifest[b] IN
               /\ d.source \in 1..Len(sources'[b]) /\ sources'[b][d.source] = d.hash
               /\ Presentable(d)
    <3>1. LET d == importer.manifest[b] IN
          /\ d.source \in 1..Len(sources[b]) /\ sources[b][d.source] = d.hash
          /\ Presentable(d)
      BY <2>1, <2>4 DEF ArtifactInv, OpenImportIsSound
    <3>2. /\ Len(sources[b]) \in Nat /\ Len(sources'[b]) \in Nat
          /\ Len(sources[b]) <= Len(sources'[b])
          /\ \A i \in 1..Len(sources[b]) : sources'[b][i] = sources[b][i]
      BY <1>4, <2>3
    <3> QED
      BY ONLY <3>1, <3>2
  <2> QED
    BY <1>1, <2>1, <2>2, <2>4 DEF ArtifactInv, OpenImportIsSound, Presentable, EndsWith, Matches
<1>9. AppliedArtifactsAreServed'
  BY <1>5, <1>6, <1>7, Served, PTL
<1> QED
  BY <1>5, <1>6, <1>8, <1>9 DEF ArtifactInv

LEMMA ArtifactStep ==
  ASSUME ArtifactInv, ArtifactNext
  PROVE  ArtifactInv'
<1>1. ASSUME NEW a \in Owners, NEW x \in Texts, ReplaceSource(a, x) PROVE ArtifactInv'
  BY <1>1, ReplaceKeepsArtifacts
<1>2. ASSUME NEW a \in Owners, Prepare(a) PROVE ArtifactInv'
  BY <1>2, PrepareKeepsArtifacts
<1>3. ASSUME NEW a \in Owners, Store(a) PROVE ArtifactInv'
  BY <1>3, StoreKeepsArtifacts
<1>4. ASSUME NEW m \in Manifests, Start(m) PROVE ArtifactInv'
  BY <1>4, StartKeepsArtifacts
<1>5. ASSUME Scan PROVE ArtifactInv'
  BY <1>5, ScanKeepsArtifacts
<1>6. ASSUME Commit PROVE ArtifactInv'
  BY <1>6, CommitKeepsArtifacts
<1>7. ASSUME Fail PROVE ArtifactInv'
  BY <1>7, FailKeepsArtifacts
<1>8. ASSUME Die PROVE ArtifactInv'
  BY <1>8, DieKeepsArtifacts
<1> QED
  BY <1>1, <1>2, <1>3, <1>4, <1>5, <1>6, <1>7, <1>8 DEF ArtifactNext

-----------------------------------------------------------------------------
(* The three together.                                                     *)

LEMMA ReviewInitially == Init => ReviewInv
<1>1. SUFFICES ASSUME Init PROVE EvaluationInv /\ NavigationInv /\ ArtifactInv
  BY DEF ReviewInv
<1>2. EvaluationInv
  BY <1>1 DEF Init, EvaluationInit, EvaluationInv, EvaluationTypeOK, OpenGradesKnowTheirRow,
     SavedWorkIsShown, Row, Marks
<1>3. NavigationInv
  <2>1. /\ preference = [mode |-> DefaultMode, last |-> NoCall] /\ tabs = [t \in Tabs |-> Idle]
        /\ chosen = DefaultMode /\ opened = NoCall /\ crossed = [mode |-> {}, last |-> {}] /\ steps = 0
    BY <1>1 DEF Init, NavigationInit
  <2>2. Idle.step = "idle" /\ Idle \in OpenPages
    BY DEF Idle, OpenPages
  <2> QED
    BY <2>1, <2>2, NavigationAssumption
    DEF NavigationInv, NavigationTypeOK, PagesReadTheLatest, PreferenceIsKept
<1>4. ArtifactInv
  <2>1. /\ sources \in [Owners -> {<<x>> : x \in Texts}] /\ slots = [a \in Owners |-> << >>]
        /\ objects = {} /\ importer = Stopped /\ applied = << >> /\ drawn = 0 /\ imports = 0
        /\ faults = 0 /\ unanswered = {}
    BY <1>1 DEF Init, ArtifactInit, NoManifest
  <2>2. DOMAIN applied = {}
    BY <2>1
  <2>3. sources \in [Owners -> Seq(Texts)] /\ slots \in Histories
    <3>1. ASSUME NEW a \in Owners PROVE sources[a] \in Seq(Texts)
      <4>1. PICK x \in Texts : sources[a] = <<x>>
        BY <2>1
      <4> QED
        BY <4>1
    <3>2. << >> \in Seq(Versions)
      OBVIOUS
    <3> QED
      BY <2>1, <3>1, <3>2 DEF Histories
  <2>4. ArtifactTypeOK
    BY <2>1, <2>2, <2>3 DEF ArtifactTypeOK
  <2>5. CommittedObjectsStay /\ OpenImportIsSound
    BY <2>1 DEF CommittedObjectsStay, OpenImportIsSound, SoundHistory
  <2>6. AppliedArtifactsAreServed
    BY <2>1, <2>2 DEF AppliedArtifactsAreServed
  <2> QED
    BY <2>4, <2>5, <2>6 DEF ArtifactInv
<1> QED
  BY <1>2, <1>3, <1>4

\* An invariant of a part is about the variables of that part.
LEMMA EvaluationAtRest ==
  ASSUME EvaluationInv, UNCHANGED evaluationVars
  PROVE  EvaluationInv'
BY DEF evaluationVars, EvaluationInv, EvaluationTypeOK, OpenGradesKnowTheirRow, SavedWorkIsShown, Row

LEMMA NavigationAtRest ==
  ASSUME NavigationInv, UNCHANGED navigationVars
  PROVE  NavigationInv'
BY DEF navigationVars, NavigationInv, NavigationTypeOK, PagesReadTheLatest, PreferenceIsKept

LEMMA ArtifactsAtRest ==
  ASSUME ArtifactInv, UNCHANGED artifactVars
  PROVE  ArtifactInv'
<1>1. UNCHANGED <<sources, slots, objects, importer, applied, drawn, imports, faults, unanswered>>
  BY DEF artifactVars
<1>2. ArtifactTypeOK'
  BY <1>1 DEF ArtifactInv, ArtifactTypeOK
<1>3. CommittedObjectsStay'
  BY <1>1 DEF ArtifactInv, CommittedObjectsStay, SoundHistory
<1>4. OpenImportIsSound'
  BY SMTT(30), <1>1 DEF ArtifactInv, OpenImportIsSound, SoundHistory, Presentable, EndsWith, Matches
<1>5. AppliedArtifactsAreServed'
  BY <1>1 DEF ArtifactInv, AppliedArtifactsAreServed
<1> QED
  BY <1>2, <1>3, <1>4, <1>5 DEF ArtifactInv

-----------------------------------------------------------------------------
(* The place of a ballot.                                                  *)

In(e, S) == IF e \in S THEN 1 ELSE 0

\* Counting among three.
LEMMA CountThree ==
  ASSUME NEW x, NEW y, NEW z, x # y, y # z, x # z, NEW S, S \subseteq {x, y, z}
  PROVE  Cardinality(S) = In(x, S) + In(y, S) + In(z, S)
<1>1. IsFiniteSet({}) /\ Cardinality({}) = 0
  BY FS_EmptySet
<1>2. \A u : IsFiniteSet({u}) /\ Cardinality({u}) = 1
  BY FS_Singleton
<1>3. ASSUME NEW u, NEW v, u # v
      PROVE  IsFiniteSet({u, v}) /\ Cardinality({u, v}) = 2
  <2>1. {u, v} = {u} \cup {v} /\ v \notin {u}
    BY <1>3
  <2>2. IsFiniteSet({u}) /\ Cardinality({u}) = 1
    BY <1>2
  <2>3. IsFiniteSet({u} \cup {v}) /\ Cardinality({u} \cup {v}) = Cardinality({u}) + 1
    BY <2>1, <2>2, FS_AddElement
  <2> QED BY <2>1, <2>2, <2>3
<1>4. Cardinality({x, y, z}) = 3
  <2>1. {x, y, z} = {x, y} \cup {z} /\ z \notin {x, y}
    OBVIOUS
  <2>2. IsFiniteSet({x, y}) /\ Cardinality({x, y}) = 2
    BY <1>3
  <2>3. Cardinality({x, y} \cup {z}) = Cardinality({x, y}) + 1
    BY <2>1, <2>2, FS_AddElement
  <2> QED BY <2>1, <2>2, <2>3
<1>5. CASE x \in S /\ y \in S /\ z \in S
  <2>1. S = {x, y, z}
    BY <1>5
  <2>2. In(x, S) = 1 /\ In(y, S) = 1 /\ In(z, S) = 1
    BY <1>5 DEF In
  <2>3. Cardinality(S) = 3
    BY <1>4, <2>1
  <2> QED BY <2>2, <2>3
<1>6. CASE x \in S /\ y \in S /\ z \notin S
  <2>1. S = {x, y}
    BY <1>6
  <2>2. In(x, S) = 1 /\ In(y, S) = 1 /\ In(z, S) = 0
    BY <1>6 DEF In
  <2>3. Cardinality(S) = 2
    BY <1>3, <2>1
  <2> QED BY <2>2, <2>3
<1>7. CASE x \in S /\ y \notin S /\ z \in S
  <2>1. S = {x, z}
    BY <1>7
  <2>2. In(x, S) = 1 /\ In(y, S) = 0 /\ In(z, S) = 1
    BY <1>7 DEF In
  <2>3. Cardinality(S) = 2
    BY <1>3, <2>1
  <2> QED BY <2>2, <2>3
<1>8. CASE x \notin S /\ y \in S /\ z \in S
  <2>1. S = {y, z}
    BY <1>8
  <2>2. In(x, S) = 0 /\ In(y, S) = 1 /\ In(z, S) = 1
    BY <1>8 DEF In
  <2>3. Cardinality(S) = 2
    BY <1>3, <2>1
  <2> QED BY <2>2, <2>3
<1>9. CASE x \in S /\ y \notin S /\ z \notin S
  <2>1. S = {x}
    BY <1>9
  <2>2. In(x, S) = 1 /\ In(y, S) = 0 /\ In(z, S) = 0
    BY <1>9 DEF In
  <2>3. Cardinality(S) = 1
    BY <1>2, <2>1
  <2> QED BY <2>2, <2>3
<1>10. CASE x \notin S /\ y \in S /\ z \notin S
  <2>1. S = {y}
    BY <1>10
  <2>2. In(x, S) = 0 /\ In(y, S) = 1 /\ In(z, S) = 0
    BY <1>10 DEF In
  <2>3. Cardinality(S) = 1
    BY <1>2, <2>1
  <2> QED BY <2>2, <2>3
<1>11. CASE x \notin S /\ y \notin S /\ z \in S
  <2>1. S = {z}
    BY <1>11
  <2>2. In(x, S) = 0 /\ In(y, S) = 0 /\ In(z, S) = 1
    BY <1>11 DEF In
  <2>3. Cardinality(S) = 1
    BY <1>2, <2>1
  <2> QED BY <2>2, <2>3
<1>12. CASE x \notin S /\ y \notin S /\ z \notin S
  <2>1. S = {}
    BY <1>12
  <2>2. In(x, S) = 0 /\ In(y, S) = 0 /\ In(z, S) = 0
    BY <1>12 DEF In
  <2>3. Cardinality(S) = 0
    BY <1>1, <2>1
  <2> QED BY <2>2, <2>3
<1> QED BY <1>5, <1>6, <1>7, <1>8, <1>9, <1>10, <1>11, <1>12

LEMMA JoinedTuples ==
  ASSUME NEW x, NEW y, NEW z
  PROVE  /\ <<x>> \o <<y>> = <<x, y>>
         /\ <<x, y>> \o <<z>> = <<x, y, z>>
<1>1. <<x>> \o <<y>> = <<x, y>>
  <2>1. PICK s : s = <<x>> \o <<y>>
    OBVIOUS
  <2>2. s \in Seq({x, y}) /\ Len(s) = 2 /\ s[1] = x /\ s[2] = y
    BY <2>1
  <2>3. s = <<s[1], s[2]>>
    BY <2>2
  <2> QED BY <2>1, <2>2, <2>3
<1>2. <<x, y>> \o <<z>> = <<x, y, z>>
  <2>1. PICK s : s = <<x, y>> \o <<z>>
    OBVIOUS
  <2>2. s \in Seq({x, y, z}) /\ Len(s) = 3 /\ s[1] = x /\ s[2] = y /\ s[3] = z
    BY <2>1
  <2>3. s = <<s[1], s[2], s[3]>>
    BY <2>2
  <2> QED BY <2>1, <2>2, <2>3
<1> QED BY <1>1, <1>2

IsBallot(s, x, y, z) == s = IfGiven(x) \o IfGiven(y) \o IfGiven(z)

\* The completed grades are those given, in their order.
LEMMA CompletedForms ==
  ASSUME NEW x, NEW y, NEW z, NEW s, IsBallot(s, x, y, z)
  PROVE  /\ x # None /\ y # None /\ z # None => s = <<x, y, z>>
         /\ x # None /\ y # None /\ z = None => s = <<x, y>>
         /\ x # None /\ y = None /\ z # None => s = <<x, z>>
         /\ x = None /\ y # None /\ z # None => s = <<y, z>>
         /\ x # None /\ y = None /\ z = None => s = <<x>>
         /\ x = None /\ y # None /\ z = None => s = <<y>>
         /\ x = None /\ y = None /\ z # None => s = <<z>>
         /\ x = None /\ y = None /\ z = None => s = << >>
<1>1. /\ << >> \o << >> = << >>
      /\ \A u : <<u>> \o << >> = <<u>> /\ << >> \o <<u>> = <<u>>
      /\ \A u, v : <<u, v>> \o << >> = <<u, v>>
  OBVIOUS
<1>2. PICK p : p = IfGiven(x) \o IfGiven(y)
  OBVIOUS
<1>3. s = p \o IfGiven(z)
  BY <1>2 DEF IsBallot
<1>4. CASE x # None /\ y # None
  <2>1. p = <<x, y>>
    BY <1>2, <1>4, JoinedTuples DEF IfGiven
  <2>2. z # None => s = <<x, y, z>>
    BY <1>3, <2>1, JoinedTuples DEF IfGiven
  <2>3. z = None => s = <<x, y>>
    BY <1>1, <1>3, <2>1 DEF IfGiven
  <2> QED BY <1>4, <2>2, <2>3
<1>5. CASE x # None /\ y = None
  <2>1. p = <<x>>
    BY <1>1, <1>2, <1>5 DEF IfGiven
  <2>2. z # None => s = <<x, z>>
    BY <1>3, <2>1, JoinedTuples DEF IfGiven
  <2>3. z = None => s = <<x>>
    BY <1>1, <1>3, <2>1 DEF IfGiven
  <2> QED BY <1>5, <2>2, <2>3
<1>6. CASE x = None /\ y # None
  <2>1. p = <<y>>
    BY <1>1, <1>2, <1>6 DEF IfGiven
  <2>2. z # None => s = <<y, z>>
    BY <1>3, <2>1, JoinedTuples DEF IfGiven
  <2>3. z = None => s = <<y>>
    BY <1>1, <1>3, <2>1 DEF IfGiven
  <2> QED BY <1>6, <2>2, <2>3
<1>7. CASE x = None /\ y = None
  <2>1. p = << >>
    BY <1>1, <1>2, <1>7 DEF IfGiven
  <2>2. z # None => s = <<z>>
    BY <1>1, <1>3, <2>1 DEF IfGiven
  <2>3. z = None => s = << >>
    BY <1>1, <1>3, <2>1 DEF IfGiven
  <2> QED BY <1>7, <2>2, <2>3
<1> QED BY <1>4, <1>5, <1>6, <1>7

\* How often a grade occurs in a ballot.
LEMMA TimesThree ==
  ASSUME NEW s, NEW g, Len(s) \in 0 .. 3
  PROVE  Times(s, g) = (IF Len(s) >= 1 /\ s[1] = g THEN 1 ELSE 0)
                       + (IF Len(s) >= 2 /\ s[2] = g THEN 1 ELSE 0)
                       + (IF Len(s) >= 3 /\ s[3] = g THEN 1 ELSE 0)
<1>1. PICK S : S = {i \in 1 .. Len(s) : s[i] = g}
  OBVIOUS
<1>2. S \subseteq {1, 2, 3}
  BY <1>1
<1>3. Cardinality(S) = In(1, S) + In(2, S) + In(3, S)
  <2>1. PICK x, y, z : x = 1 /\ y = 2 /\ z = 3
    OBVIOUS
  <2>2. x # y /\ y # z /\ x # z /\ S \subseteq {x, y, z}
    BY <1>2, <2>1
  <2>3. Cardinality(S) = In(x, S) + In(y, S) + In(z, S)
    BY <2>2, CountThree
  <2> QED BY <2>1, <2>3
<1>4. /\ 1 \in S <=> Len(s) >= 1 /\ s[1] = g
      /\ 2 \in S <=> Len(s) >= 2 /\ s[2] = g
      /\ 3 \in S <=> Len(s) >= 3 /\ s[3] = g
  BY <1>1
<1> QED BY <1>1, <1>3, <1>4 DEF Times, In

\* Whether a grade is this one.
Is(h, g) == IF h = g THEN 1 ELSE 0

\* What a ballot of three tells: how many grades, which, and which first.
LEMMA BallotFacts ==
  ASSUME NEW x \in Marks, NEW y \in Marks, NEW z \in Marks,
         NEW s, IsBallot(s, x, y, z)
  PROVE  /\ Len(s) = (1 - Is(x, None)) + (1 - Is(y, None)) + (1 - Is(z, None))
         /\ \A g \in {"A", "B", "C"} : /\ Times(s, g) = Is(x, g) + Is(y, g) + Is(z, g)
                                       /\ Has(s, g) <=> x = g \/ y = g \/ z = g
         /\ s = << >> <=> x = None /\ y = None /\ z = None
         /\ s # << >> => s[1] # None /\ s[1] \in {x, y, z}
<1>1. /\ x # None /\ y # None /\ z # None => s = <<x, y, z>>
      /\ x # None /\ y # None /\ z = None => s = <<x, y>>
      /\ x # None /\ y = None /\ z # None => s = <<x, z>>
      /\ x = None /\ y # None /\ z # None => s = <<y, z>>
      /\ x # None /\ y = None /\ z = None => s = <<x>>
      /\ x = None /\ y # None /\ z = None => s = <<y>>
      /\ x = None /\ y = None /\ z # None => s = <<z>>
      /\ x = None /\ y = None /\ z = None => s = << >>
  BY CompletedForms
<1>2. \A g \in {"A", "B", "C"} : g # None
  BY GradesAssumption DEF Grades
<1>3. CASE x # None /\ y # None /\ z # None
  <2>1. s = <<x, y, z>> /\ Len(s) = 3 /\ s[1] = x /\ s[2] = y /\ s[3] = z
    BY <1>3, <1>1
  <2>2. \A g \in {"A", "B", "C"} : Times(s, g) = Is(x, g) + Is(y, g) + Is(z, g)
    BY <2>1, TimesThree DEF Is
  <2> QED BY <1>2, <1>3, <2>1, <2>2 DEF Is, Has
<1>4. CASE x # None /\ y # None /\ z = None
  <2>1. s = <<x, y>> /\ Len(s) = 2 /\ s[1] = x /\ s[2] = y
    BY <1>4, <1>1
  <2>2. \A g \in {"A", "B", "C"} : Times(s, g) = Is(x, g) + Is(y, g)
    BY <2>1, TimesThree DEF Is
  <2> QED BY <1>2, <1>4, <2>1, <2>2 DEF Is, Has
<1>5. CASE x # None /\ y = None /\ z # None
  <2>1. s = <<x, z>> /\ Len(s) = 2 /\ s[1] = x /\ s[2] = z
    BY <1>5, <1>1
  <2>2. \A g \in {"A", "B", "C"} : Times(s, g) = Is(x, g) + Is(z, g)
    BY <2>1, TimesThree DEF Is
  <2> QED BY <1>2, <1>5, <2>1, <2>2 DEF Is, Has
<1>6. CASE x # None /\ y = None /\ z = None
  <2>1. s = <<x>> /\ Len(s) = 1 /\ s[1] = x
    BY <1>6, <1>1
  <2>2. \A g \in {"A", "B", "C"} : Times(s, g) = Is(x, g)
    BY <2>1, TimesThree DEF Is
  <2> QED BY <1>2, <1>6, <2>1, <2>2 DEF Is, Has
<1>7. CASE x = None /\ y # None /\ z # None
  <2>1. s = <<y, z>> /\ Len(s) = 2 /\ s[1] = y /\ s[2] = z
    BY <1>7, <1>1
  <2>2. \A g \in {"A", "B", "C"} : Times(s, g) = Is(y, g) + Is(z, g)
    BY <2>1, TimesThree DEF Is
  <2> QED BY <1>2, <1>7, <2>1, <2>2 DEF Is, Has
<1>8. CASE x = None /\ y # None /\ z = None
  <2>1. s = <<y>> /\ Len(s) = 1 /\ s[1] = y
    BY <1>8, <1>1
  <2>2. \A g \in {"A", "B", "C"} : Times(s, g) = Is(y, g)
    BY <2>1, TimesThree DEF Is
  <2> QED BY <1>2, <1>8, <2>1, <2>2 DEF Is, Has
<1>9. CASE x = None /\ y = None /\ z # None
  <2>1. s = <<z>> /\ Len(s) = 1 /\ s[1] = z
    BY <1>9, <1>1
  <2>2. \A g \in {"A", "B", "C"} : Times(s, g) = Is(z, g)
    BY <2>1, TimesThree DEF Is
  <2> QED BY <1>2, <1>9, <2>1, <2>2 DEF Is, Has
<1>10. CASE x = None /\ y = None /\ z = None
  <2>1. s = << >> /\ Len(s) = 0
    BY <1>10, <1>1
  <2>2. \A g \in {"A", "B", "C"} : Times(s, g) = 0
    BY <2>1, TimesThree DEF Is
  <2> QED BY <1>2, <1>10, <2>1, <2>2 DEF Is, Has
<1> QED BY <1>3, <1>4, <1>5, <1>6, <1>7, <1>8, <1>9, <1>10

\* Three counts that fill a ballot, without an A beside a C, are a bucket.
LEMMA BucketExists ==
  ASSUME NEW p \in Nat, NEW q \in Nat, NEW r \in Nat, p + q + r = 3, p = 0 \/ r = 0
  PROVE  \E i \in 1 .. Len(BucketOrder) : BucketOrder[i] = <<p, q, r>>
<1>1. Len(BucketOrder) = 7
  BY DEF BucketOrder
<1>2. /\ BucketOrder[1] = <<3, 0, 0>> /\ BucketOrder[2] = <<2, 1, 0>>
      /\ BucketOrder[3] = <<1, 2, 0>> /\ BucketOrder[4] = <<0, 3, 0>>
      /\ BucketOrder[5] = <<0, 2, 1>> /\ BucketOrder[6] = <<0, 1, 2>>
      /\ BucketOrder[7] = <<0, 0, 3>>
  BY DEF BucketOrder
<1>3. \/ p = 3 /\ q = 0 /\ r = 0
      \/ p = 2 /\ q = 1 /\ r = 0
      \/ p = 1 /\ q = 2 /\ r = 0
      \/ p = 0 /\ q = 3 /\ r = 0
      \/ p = 0 /\ q = 2 /\ r = 1
      \/ p = 0 /\ q = 1 /\ r = 2
      \/ p = 0 /\ q = 0 /\ r = 3
  OBVIOUS
<1>4. 1 .. 7 = {1, 2, 3, 4, 5, 6, 7}
  OBVIOUS
<1> QED BY <1>1, <1>2, <1>3, <1>4

\* The signature of a ballot counts its grades and fills it up with its first.
LEMMA SignatureFacts ==
  ASSUME NEW x \in Marks, NEW y \in Marks, NEW z \in Marks,
         NEW s, IsBallot(s, x, y, z), s # << >>
  PROVE  \E p, q, r \in Nat :
            /\ Signature(s) = <<p, q, r>>
            /\ p + q + r = 3
            /\ p >= Is(x, "A") + Is(y, "A") + Is(z, "A")
            /\ q >= Is(x, "B") + Is(y, "B") + Is(z, "B")
            /\ r >= Is(x, "C") + Is(y, "C") + Is(z, "C")
            /\ p > 0 => "A" \in {x, y, z}
            /\ q > 0 => "B" \in {x, y, z}
            /\ r > 0 => "C" \in {x, y, z}
<1>1. "A" # None /\ "B" # None /\ "C" # None
  BY GradesAssumption DEF Grades
<1>2. PICK n : n = Len(s)
  OBVIOUS
<1>3. PICK first : first = s[1]
  OBVIOUS
<1>4. /\ n = (1 - Is(x, None)) + (1 - Is(y, None)) + (1 - Is(z, None))
      /\ Times(s, "A") = Is(x, "A") + Is(y, "A") + Is(z, "A")
      /\ Times(s, "B") = Is(x, "B") + Is(y, "B") + Is(z, "B")
      /\ Times(s, "C") = Is(x, "C") + Is(y, "C") + Is(z, "C")
      /\ first # None /\ first \in {x, y, z}
  BY <1>2, <1>3, BallotFacts
<1>5. PICK p : p = Times(s, "A") + (IF first = "A" THEN 3 - n ELSE 0)
  OBVIOUS
<1>6. PICK q : q = Times(s, "B") + (IF first = "B" THEN 3 - n ELSE 0)
  OBVIOUS
<1>7. PICK r : r = Times(s, "C") + (IF first = "C" THEN 3 - n ELSE 0)
  OBVIOUS
<1>8. Signature(s) = <<p, q, r>>
  <2>1. PICK u : u = Signature(s)
    OBVIOUS
  <2>2. u = [i \in 1 .. 3 |-> Times(s, Grades[i]) + (IF first = Grades[i] THEN 3 - n ELSE 0)]
    BY <1>2, <1>3, <2>1 DEF Signature
  <2>3. Grades[1] = "A" /\ Grades[2] = "B" /\ Grades[3] = "C"
    BY DEF Grades
  <2>4. u[1] = p /\ u[2] = q /\ u[3] = r
    BY <1>5, <1>6, <1>7, <2>2, <2>3
  <2>5. u = <<u[1], u[2], u[3]>>
    BY <2>2
  <2> QED BY <2>1, <2>4, <2>5
<1>9. \A h \in Marks : /\ Is(h, None) \in 0 .. 1 /\ Is(h, "A") \in 0 .. 1
                       /\ Is(h, "B") \in 0 .. 1 /\ Is(h, "C") \in 0 .. 1
                       /\ Is(h, None) + Is(h, "A") + Is(h, "B") + Is(h, "C") = 1
                       /\ Is(h, "A") = 1 <=> h = "A"
                       /\ Is(h, "B") = 1 <=> h = "B"
                       /\ Is(h, "C") = 1 <=> h = "C"
                       /\ Is(h, None) = 1 <=> h = None
  BY <1>1 DEF Marks, Is
<1>10. PICK i, j, k : i = Times(s, "A") /\ j = Times(s, "B") /\ k = Times(s, "C")
  OBVIOUS
<1>11. i \in Nat /\ j \in Nat /\ k \in Nat /\ n \in 1 .. 3 /\ i + j + k = n
  <2>1. ASSUME NEW h \in Marks
        PROVE  \E u, v, w \in Nat : /\ u = Is(h, "A") /\ v = Is(h, "B") /\ w = Is(h, "C")
                                    /\ 1 - Is(h, None) = u + v + w
    BY <1>9
  <2>2. PICK x1, x2, x3 \in Nat :
           /\ x1 = Is(x, "A") /\ x2 = Is(x, "B") /\ x3 = Is(x, "C")
           /\ 1 - Is(x, None) = x1 + x2 + x3
    BY <2>1
  <2>3. PICK y1, y2, y3 \in Nat :
           /\ y1 = Is(y, "A") /\ y2 = Is(y, "B") /\ y3 = Is(y, "C")
           /\ 1 - Is(y, None) = y1 + y2 + y3
    BY <2>1
  <2>4. PICK z1, z2, z3 \in Nat :
           /\ z1 = Is(z, "A") /\ z2 = Is(z, "B") /\ z3 = Is(z, "C")
           /\ 1 - Is(z, None) = z1 + z2 + z3
    BY <2>1
  <2>5. i = x1 + y1 + z1 /\ j = x2 + y2 + z2 /\ k = x3 + y3 + z3
    BY <1>4, <1>10, <2>2, <2>3, <2>4
  <2>6. n = (x1 + x2 + x3) + (y1 + y2 + y3) + (z1 + z2 + z3)
    BY <1>4, <2>2, <2>3, <2>4
  <2>7. i \in Nat /\ j \in Nat /\ k \in Nat /\ i + j + k = n
    <3>1. (x1 + y1 + z1) + (x2 + y2 + z2) + (x3 + y3 + z3)
             = (x1 + x2 + x3) + (y1 + y2 + y3) + (z1 + z2 + z3)
      OBVIOUS
    <3>2. i \in Nat /\ j \in Nat /\ k \in Nat
      BY <2>5
    <3> QED BY <2>5, <2>6, <3>1, <3>2
  <2>8. n \in 1 .. 3
    BY <1>4, <1>9
  <2> QED BY <2>7, <2>8
<1>12. first \in {"A", "B", "C"}
  BY <1>4 DEF Marks
<1>13. /\ p \in Nat /\ q \in Nat /\ r \in Nat
       /\ p + q + r = 3
       /\ p >= i /\ q >= j /\ r >= k
  <2>1. CASE first = "A"
    <3>1. p = i + (3 - n) /\ q = j + 0 /\ r = k + 0
      BY <1>5, <1>6, <1>7, <1>10, <2>1
    <3> QED BY <1>11, <3>1
  <2>2. CASE first = "B"
    <3>1. p = i + 0 /\ q = j + (3 - n) /\ r = k + 0
      BY <1>5, <1>6, <1>7, <1>10, <2>2
    <3> QED BY <1>11, <3>1
  <2>3. CASE first = "C"
    <3>1. p = i + 0 /\ q = j + 0 /\ r = k + (3 - n)
      BY <1>5, <1>6, <1>7, <1>10, <2>3
    <3> QED BY <1>11, <3>1
  <2> QED BY <1>12, <2>1, <2>2, <2>3
<1>14. /\ p >= Is(x, "A") + Is(y, "A") + Is(z, "A")
       /\ q >= Is(x, "B") + Is(y, "B") + Is(z, "B")
       /\ r >= Is(x, "C") + Is(y, "C") + Is(z, "C")
  BY <1>4, <1>10, <1>13
<1>15. /\ p > 0 => "A" \in {x, y, z}
       /\ q > 0 => "B" \in {x, y, z}
       /\ r > 0 => "C" \in {x, y, z}
  BY <1>4, <1>5, <1>6, <1>7, <1>9, <1>11
<1> QED BY <1>8, <1>13, <1>14, <1>15

\* Who gave an application which grade.
LEMMA GivenFacts ==
  ASSUME NEW a, NEW g
  PROVE  /\ Cardinality(Given(a, g)) = Is(GradeIn(a, 1), g) + Is(GradeIn(a, 2), g)
                                       + Is(GradeIn(a, 3), g)
         /\ Given(a, g) # {} <=> g \in {GradeIn(a, 1), GradeIn(a, 2), GradeIn(a, 3)}
<1>1. PICK t1, t2, t3 : t1 = Roster[1] /\ t2 = Roster[2] /\ t3 = Roster[3]
  OBVIOUS
<1>2. t1 # t2 /\ t2 # t3 /\ t1 # t3
  BY <1>1, RosterAssumption
<1>3. Trustees = {t1, t2, t3}
  BY <1>1 DEF Trustees
<1>4. PICK S : S = Given(a, g)
  OBVIOUS
<1>5. /\ S \subseteq {t1, t2, t3}
      /\ t1 \in S <=> GradeIn(a, 1) = g
      /\ t2 \in S <=> GradeIn(a, 2) = g
      /\ t3 \in S <=> GradeIn(a, 3) = g
  BY <1>1, <1>3, <1>4 DEF Given, GradeIn
<1>6. Cardinality(S) = In(t1, S) + In(t2, S) + In(t3, S)
  BY <1>2, <1>5, CountThree
<1>7. /\ In(t1, S) = Is(GradeIn(a, 1), g) /\ In(t2, S) = Is(GradeIn(a, 2), g)
      /\ In(t3, S) = Is(GradeIn(a, 3), g)
  BY <1>5 DEF In, Is
<1> QED BY <1>4, <1>5, <1>6, <1>7

LEMMA BallotsHaveTheirPlace ==
  ASSUME EvaluationTypeOK
  PROVE  EveryBallotHasItsPlace
<1> SUFFICES ASSUME NEW a \in Applications
             PROVE  LET ballots == Given(a, "A") \cup Given(a, "B") \cup Given(a, "C")
                        place   == EvaluationView[a]
                    IN /\ place.discrepancy = (Given(a, "A") # {} /\ Given(a, "C") # {})
                       /\ place.awaiting = (Cardinality(ballots) < 3)
                       /\ place.buckets # {} <=> ballots # {} /\ ~place.discrepancy
                       /\ \A b \in place.buckets :
                             /\ \E i \in 1..Len(BucketOrder) : BucketOrder[i] = b
                             /\ \A i \in 1..3 : /\ b[i] >= Cardinality(Given(a, Grades[i]))
                                                /\ b[i] > 0 => Given(a, Grades[i]) # {}
  BY DEF EveryBallotHasItsPlace
<1>1. PICK x, y, z : x = GradeIn(a, 1) /\ y = GradeIn(a, 2) /\ z = GradeIn(a, 3)
  OBVIOUS
<1>2. x \in Marks /\ y \in Marks /\ z \in Marks
  <2>1. ASSUME NEW c PROVE Row(c).grade \in Marks
    BY DEF EvaluationTypeOK, Row, Marks
  <2> QED BY <1>1, <2>1 DEF GradeIn
<1>3. PICK s : s = Completed(a)
  OBVIOUS
<1>4. IsBallot(s, x, y, z)
  BY <1>1, <1>3, Zenon DEF IsBallot, Completed
<1>5. "A" # None /\ "B" # None /\ "C" # None
  BY GradesAssumption DEF Grades
<1>6. /\ Len(s) = (1 - Is(x, None)) + (1 - Is(y, None)) + (1 - Is(z, None))
      /\ Has(s, "A") <=> "A" \in {x, y, z}
      /\ Has(s, "C") <=> "C" \in {x, y, z}
      /\ s = << >> <=> x = None /\ y = None /\ z = None
  BY <1>2, <1>4, BallotFacts
<1>7. PICK place : place = EvaluationView[a]
  OBVIOUS
<1>8. /\ place.discrepancy = Discrepant(s)
      /\ place.awaiting = (Len(s) < 3)
      /\ place.buckets = IF s = << >> \/ Discrepant(s) THEN {} ELSE {Signature(s)}
  BY <1>3, <1>7 DEF EvaluationView, Place
<1>9. PICK ballots : ballots = Given(a, "A") \cup Given(a, "B") \cup Given(a, "C")
  OBVIOUS
<1>10. /\ Given(a, "A") # {} <=> "A" \in {x, y, z}
       /\ Given(a, "B") # {} <=> "B" \in {x, y, z}
       /\ Given(a, "C") # {} <=> "C" \in {x, y, z}
  BY <1>1, GivenFacts
<1>11. place.discrepancy = (Given(a, "A") # {} /\ Given(a, "C") # {})
  BY <1>6, <1>8, <1>10 DEF Discrepant
<1>12. ballots # {} <=> s # << >>
  BY <1>2, <1>5, <1>6, <1>9, <1>10 DEF Marks
<1>13. Cardinality(ballots) = Len(s)
  <2>1. PICK t1, t2, t3 : t1 = Roster[1] /\ t2 = Roster[2] /\ t3 = Roster[3]
    OBVIOUS
  <2>2. t1 # t2 /\ t2 # t3 /\ t1 # t3
    BY <2>1, RosterAssumption
  <2>3. /\ ballots \subseteq {t1, t2, t3}
        /\ t1 \in ballots <=> x # None
        /\ t2 \in ballots <=> y # None
        /\ t3 \in ballots <=> z # None
    BY <1>1, <1>2, <1>5, <1>9, <2>1 DEF Given, GradeIn, Trustees, Marks
  <2>4. Cardinality(ballots) = In(t1, ballots) + In(t2, ballots) + In(t3, ballots)
    BY <2>2, <2>3, CountThree
  <2>5. /\ In(t1, ballots) = 1 - Is(x, None) /\ In(t2, ballots) = 1 - Is(y, None)
        /\ In(t3, ballots) = 1 - Is(z, None)
    BY <2>3 DEF In, Is
  <2> QED BY <1>6, <2>4, <2>5
<1>14. ASSUME NEW b \in place.buckets
       PROVE  /\ \E i \in 1..Len(BucketOrder) : BucketOrder[i] = b
              /\ \A i \in 1..3 : /\ b[i] >= Cardinality(Given(a, Grades[i]))
                                 /\ b[i] > 0 => Given(a, Grades[i]) # {}
  <2>1. s # << >> /\ ~Discrepant(s) /\ b = Signature(s)
    BY <1>8
  <2>2. PICK p, q, r \in Nat :
            /\ b = <<p, q, r>>
            /\ p + q + r = 3
            /\ p >= Is(x, "A") + Is(y, "A") + Is(z, "A")
            /\ q >= Is(x, "B") + Is(y, "B") + Is(z, "B")
            /\ r >= Is(x, "C") + Is(y, "C") + Is(z, "C")
            /\ p > 0 => "A" \in {x, y, z}
            /\ q > 0 => "B" \in {x, y, z}
            /\ r > 0 => "C" \in {x, y, z}
    BY <1>2, <1>4, <2>1, SignatureFacts
  <2>3. p = 0 \/ r = 0
    BY <1>6, <2>1, <2>2 DEF Discrepant
  <2>4. \E i \in 1..Len(BucketOrder) : BucketOrder[i] = b
    BY <2>2, <2>3, BucketExists
  <2>5. /\ Cardinality(Given(a, "A")) = Is(x, "A") + Is(y, "A") + Is(z, "A")
        /\ Cardinality(Given(a, "B")) = Is(x, "B") + Is(y, "B") + Is(z, "B")
        /\ Cardinality(Given(a, "C")) = Is(x, "C") + Is(y, "C") + Is(z, "C")
    BY <1>1, GivenFacts
  <2>6. b[1] = p /\ b[2] = q /\ b[3] = r
    BY <2>2
  <2>7. Grades[1] = "A" /\ Grades[2] = "B" /\ Grades[3] = "C"
    BY DEF Grades
  <2>8. ASSUME NEW i \in 1..3
        PROVE  b[i] >= Cardinality(Given(a, Grades[i])) /\ (b[i] > 0 => Given(a, Grades[i]) # {})
    <3>1. CASE i = 1
      BY <1>10, <2>2, <2>5, <2>6, <2>7, <3>1
    <3>2. CASE i = 2
      BY <1>10, <2>2, <2>5, <2>6, <2>7, <3>2
    <3>3. CASE i = 3
      BY <1>10, <2>2, <2>5, <2>6, <2>7, <3>3
    <3> QED BY <3>1, <3>2, <3>3
  <2> QED BY <2>4, <2>8
<1>15. place.awaiting = (Cardinality(ballots) < 3)
  BY <1>8, <1>13
<1>16. place.buckets # {} <=> ballots # {} /\ ~place.discrepancy
  BY <1>8, <1>12
<1> QED BY <1>7, <1>9, <1>11, <1>14, <1>15, <1>16

-----------------------------------------------------------------------------
(* The three together.                                                     *)

LEMMA ReviewStep == ReviewInv /\ [Next]_vars => ReviewInv'
<1>1. SUFFICES ASSUME EvaluationInv, NavigationInv, ArtifactInv, [Next]_vars
               PROVE  EvaluationInv' /\ NavigationInv' /\ ArtifactInv'
  BY DEF ReviewInv
<1>2. CASE EvaluationNext /\ UNCHANGED <<navigationVars, artifactVars>>
  BY <1>1, <1>2, EvaluationStep, NavigationAtRest, ArtifactsAtRest
<1>3. CASE NavigationNext /\ UNCHANGED <<evaluationVars, artifactVars>>
  BY <1>1, <1>3, NavigationStep, EvaluationAtRest, ArtifactsAtRest
<1>4. CASE ArtifactNext /\ UNCHANGED <<evaluationVars, navigationVars>>
  BY <1>1, <1>4, ArtifactStep, EvaluationAtRest, NavigationAtRest
<1>5. CASE UNCHANGED vars
  <2>1. UNCHANGED evaluationVars /\ UNCHANGED navigationVars /\ UNCHANGED artifactVars
    BY <1>5 DEF vars
  <2> QED
    BY <1>1, <2>1, EvaluationAtRest, NavigationAtRest, ArtifactsAtRest
<1> QED
  BY <1>1, <1>2, <1>3, <1>4, <1>5 DEF Next

\* Whatever trustees, tabs and importers do, and whatever fails, the
\* inductive invariants of the evaluation, the navigation preference and the
\* reviewed extracts hold (SetInternalShortlistSelection and its trigger,
\* SetCallEvaluationComment, set_call_navigation_preference,
\* SqlReviewArtifactRepository.apply).
THEOREM ReviewHolds == Spec => []ReviewInv
BY ReviewInitially, ReviewStep, PTL DEF Spec

\* The evaluation shows the grades and comments the trustees saved, for any
\* number of applications and requests, unless a comment overtook a grade
\* between the trigger's UPDATE and its INSERT.
THEOREM SavedWorkStaysShown == Spec => []SavedWorkIsShown
<1>1. ReviewInv => SavedWorkIsShown
  BY DEF ReviewInv, EvaluationInv
<1> QED
  BY <1>1, ReviewHolds, PTL

\* Every graded application is on the evaluation page once, with the strong
\* discrepancies or in a bucket that exists and holds its grades, for every
\* ballot (group_applicants).
THEOREM BallotsKeepTheirPlace == Spec => []EveryBallotHasItsPlace
<1>1. ReviewInv => EveryBallotHasItsPlace
  BY BallotsHaveTheirPlace DEF ReviewInv, EvaluationInv
<1> QED
  BY <1>1, ReviewHolds, PTL

\* The stored preference is the mode chosen last and the call opened last,
\* for any number of tabs; an update that was lost to another page leaves a
\* value that page had read when the field was stored.
THEOREM PreferenceStays == Spec => []PreferenceIsKept
<1>1. ReviewInv => PreferenceIsKept
  BY DEF ReviewInv, NavigationInv
<1> QED
  BY <1>1, ReviewHolds, PTL

\* What an import last reported applied is the artifact reviewers are
\* pointed to, for any manifests, sources and faults.  Its object is stored
\* unless the answer to the commit that registered it was lost, in which case
\* no rerun of the manifest brings it back.
THEOREM AppliedStaysServed == Spec => []AppliedArtifactsAreServed
<1>1. ReviewInv => AppliedArtifactsAreServed
  BY DEF ReviewInv, ArtifactInv
<1> QED
  BY <1>1, ReviewHolds, PTL
=============================================================================
