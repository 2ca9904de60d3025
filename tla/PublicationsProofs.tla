------------------------- MODULE PublicationsProofs -------------------------
(***************************************************************************)
(* Proofs about CitationImport: the publication import, the collection of  *)
(* snapshots and the imports of citation counts, for any manifests,        *)
(* records, folders and bounds.                                            *)
(***************************************************************************)
EXTENDS CitationImport, WellFoundedInduction, FiniteSetTheorems, TLAPS

-----------------------------------------------------------------------------
(* Numbers and sequences.                                                  *)

\* Induction over the natural numbers, for a set of them.
LEMMA Counting ==
  ASSUME NEW S, 0 \in S, \A n \in Nat : n \in S => n + 1 \in S
  PROVE  Nat \subseteq S
<1> DEFINE T == Nat \ S
<1> DEFINE R == OpToRel(<, Nat)
<1> SUFFICES ASSUME T # {} PROVE FALSE
  OBVIOUS
<1>1. IsWellFoundedOn(R, Nat)
  BY NatLessThanWellFounded
<1>2. T \subseteq Nat
  OBVIOUS
<1>3. \E x \in T : \A y \in T : ~(<<y, x>> \in R)
  <2> HIDE DEF T, R
  <2> QED BY <1>1, <1>2, WFMin
<1>4. PICK x \in T : \A y \in T : ~(<<y, x>> \in R)
  BY <1>3
<1>5. x \in Nat /\ x # 0 /\ x - 1 \in Nat /\ x - 1 \in T
  OBVIOUS
<1>6. <<x - 1, x>> \in R
  BY <1>5 DEF OpToRel
<1> QED BY <1>4, <1>5, <1>6

LEMMA SeqFacts ==
  ASSUME NEW s, IsSeq(s)
  PROVE  /\ Len(s) \in Nat
         /\ DOMAIN s = 1 .. Len(s)
         /\ \A x : x \in ToSet(s) <=> \E i \in DOMAIN s : s[i] = x
<1>1. PICK S : S = ToSet(s)
  OBVIOUS
<1>2. s \in Seq(S)
  BY <1>1 DEF IsSeq
<1>3. Len(s) \in Nat /\ DOMAIN s = 1 .. Len(s)
  BY <1>2
<1> QED BY <1>3 DEF ToSet

LEMMA EmptyIsSeq == IsSeq(<< >>) /\ Len(<< >>) = 0 /\ DOMAIN << >> = {}
BY DEF IsSeq

\* Append keeps what a sequence holds and adds one element.
LEMMA Appending ==
  ASSUME NEW s, IsSeq(s), NEW x
  PROVE  /\ IsSeq(Append(s, x))
         /\ Len(Append(s, x)) = Len(s) + 1
         /\ DOMAIN Append(s, x) = 1 .. Len(s) + 1
         /\ \A i \in 1 .. Len(s) : Append(s, x)[i] = s[i]
         /\ Append(s, x)[Len(s) + 1] = x
<1>1. PICK S : S = ToSet(s) \cup {x}
  OBVIOUS
<1>2. s \in Seq(S)
  <2>1. s \in Seq(ToSet(s)) /\ ToSet(s) \subseteq S
    BY <1>1 DEF IsSeq
  <2> QED BY <2>1
<1>3. /\ Append(s, x) \in Seq(S)
      /\ Len(Append(s, x)) = Len(s) + 1
      /\ DOMAIN Append(s, x) = 1 .. Len(s) + 1
      /\ \A i \in 1 .. Len(s) : Append(s, x)[i] = s[i]
      /\ Append(s, x)[Len(s) + 1] = x
  BY <1>1, <1>2
<1>4. S = ToSet(Append(s, x))
  <2>1. \A y : y \in ToSet(s) <=> \E i \in 1 .. Len(s) : s[i] = y
    BY SeqFacts
  <2>2. \A y : y \in ToSet(Append(s, x)) <=> \E i \in 1 .. Len(s) + 1 : Append(s, x)[i] = y
    BY <1>3 DEF ToSet
  <2>3. Len(s) \in Nat
    BY SeqFacts
  <2>4. PICK u : u = Append(s, x)
    OBVIOUS
  <2>5. PICK T : T = ToSet(s)
    OBVIOUS
  <2>6. PICK U : U = ToSet(u)
    OBVIOUS
  <2>7. \A i \in 1 .. Len(s) : u[i] = s[i]
    BY <1>3, <2>4
  <2>8. \A y : y \in U <=> y \in T \/ y = x
    BY <1>3, <2>1, <2>2, <2>3, <2>4, <2>5, <2>6, <2>7
  <2> QED BY <1>1, <2>4, <2>5, <2>6, <2>8
<1> QED BY <1>3, <1>4 DEF IsSeq

\* So does an update of one element.
LEMMA Replacing ==
  ASSUME NEW s, IsSeq(s), NEW n \in DOMAIN s, NEW x
  PROVE  /\ IsSeq([s EXCEPT ![n] = x])
         /\ Len([s EXCEPT ![n] = x]) = Len(s)
         /\ DOMAIN [s EXCEPT ![n] = x] = DOMAIN s
         /\ \A i \in DOMAIN s : [s EXCEPT ![n] = x][i] = IF i = n THEN x ELSE s[i]
<1>1. PICK S : S = ToSet(s) \cup {x}
  OBVIOUS
<1>2. PICK u : u = [s EXCEPT ![n] = x]
  OBVIOUS
<1>3. s \in Seq(S)
  <2>1. s \in Seq(ToSet(s)) /\ ToSet(s) \subseteq S
    BY <1>1 DEF IsSeq
  <2> QED BY <2>1
<1>4. Len(u) = Len(s) /\ DOMAIN u = DOMAIN s /\ u \in Seq(S)
  BY <1>1, <1>2, <1>3
<1>5. \A i \in DOMAIN s : u[i] = IF i = n THEN x ELSE s[i]
  BY <1>2
<1>6. IsSeq(u)
  <2>1. PICK U : U = ToSet(u)
    OBVIOUS
  <2>2. \A i \in 1 .. Len(u) : u[i] \in U
    BY <1>3, <1>4, <2>1 DEF ToSet
  <2>3. u = [i \in 1 .. Len(u) |-> u[i]] /\ Len(u) \in Nat
    BY <1>4
  <2>4. u \in Seq(U)
    BY <2>2, <2>3
  <2> QED BY <2>1, <2>4 DEF IsSeq
<1> QED BY <1>2, <1>4, <1>5, <1>6

-----------------------------------------------------------------------------
(* One work of a manifest.                                                 *)

\* What is true of the tables within a transaction.
IsTransaction(t) ==
    /\ DOMAIN t = {"rows", "evidence", "exceptions", "error"}
    /\ IsSeq(t.rows)
    /\ \A i \in DOMAIN t.rows : IsRow(t.rows[i])
    /\ ~Clashes(t.rows)
    /\ t.error # "unique index"

\* Nothing is taken from the tables: a row keeps its key and its values.
Keeps(old, new) ==
    /\ DOMAIN old.rows \subseteq DOMAIN new.rows
    /\ \A i \in DOMAIN old.rows :
          /\ new.rows[i].key = old.rows[i].key
          /\ \A f \in Fields : old.rows[i].meta[f] # None => new.rows[i].meta[f] # None
    /\ old.evidence \subseteq new.evidence

LEMMA KeepsIsTransitive ==
  ASSUME NEW t, NEW u, NEW v, Keeps(t, u), Keeps(u, v)
  PROVE  Keeps(t, v)
<1>1. /\ DOMAIN t.rows \subseteq DOMAIN v.rows
      /\ t.evidence \subseteq v.evidence
  BY DEF Keeps
<1>2. ASSUME NEW i \in DOMAIN t.rows
      PROVE  /\ v.rows[i].key = t.rows[i].key
             /\ \A f \in Fields : t.rows[i].meta[f] # None => v.rows[i].meta[f] # None
  BY DEF Keeps
<1> QED BY <1>1, <1>2 DEF Keeps

LEMMA KeptIsApplied ==
  ASSUME NEW t, NEW u, Keeps(t, u), NEW m, NEW w, IsApplied(t.rows, t.evidence, m, w)
  PROVE  IsApplied(u.rows, u.evidence, m, w)
<1>1. PICK i \in DOMAIN t.rows :
         /\ {<<i, e>> : e \in EvidenceOf(m, w)} \subseteq t.evidence
         /\ \A f \in Fields : w.meta[f] # None => t.rows[i].meta[f] # None
  BY DEF IsApplied
<1>2. i \in DOMAIN u.rows /\ t.evidence \subseteq u.evidence
  BY DEF Keeps
<1>3. \A f \in Fields : w.meta[f] # None => u.rows[i].meta[f] # None
  BY <1>1 DEF Keeps
<1> QED BY <1>1, <1>2, <1>3 DEF IsApplied

\* A row the lookup found can take the metadata of the work: a DOI it lacks is
\* the DOI of no other row of the applicant.
LEMMA FilledRowsDoNotClash ==
  ASSUME NEW all, IsSeq(all), ~Clashes(all), NEW work,
         NEW n \in Lookup(all, work), NEW row,
         row.folder = all[n].folder, row.identity = all[n].identity,
         row.meta = Filled(all[n].meta, work.meta)
  PROVE  n \in DOMAIN all /\ ~Clashes([all EXCEPT ![n] = row])
<1> DEFINE new == [all EXCEPT ![n] = row]
<1>1. /\ n \in DOMAIN all /\ all[n].folder = work.folder
      /\ \/ work.meta.doi # None /\ all[n].meta.doi = work.meta.doi
         \/ \A i \in DOMAIN all : all[i].folder = work.folder =>
               ~(work.meta.doi # None /\ all[i].meta.doi = work.meta.doi)
  BY DEF Lookup
<1>2. /\ DOMAIN new = DOMAIN all /\ new[n] = row
      /\ \A i \in DOMAIN all : i # n => new[i] = all[i]
  BY <1>1
<1>3. row.meta.doi = IF all[n].meta.doi # None THEN all[n].meta.doi ELSE work.meta.doi
  <2>1. "doi" \in Fields
    BY DEF Fields
  <2>2. row.meta["doi"] = IF all[n].meta["doi"] # None THEN all[n].meta["doi"] ELSE work.meta["doi"]
    BY <2>1 DEF Filled
  <2> QED BY <2>2
<1> HIDE DEF new
<1>4. ASSUME NEW i \in DOMAIN all, NEW j \in DOMAIN all, i # j, new[i].folder = new[j].folder
      PROVE  /\ ~(new[i].meta.doi # None /\ new[i].meta.doi = new[j].meta.doi)
             /\ new[i].identity # new[j].identity
  <2>1. all[i].folder = all[j].folder
    BY <1>1, <1>2, <1>4
  <2>2. /\ ~(all[i].meta.doi # None /\ all[i].meta.doi = all[j].meta.doi)
        /\ all[i].identity # all[j].identity
    BY <1>4, <2>1 DEF Clashes
  <2>3. new[i].identity # new[j].identity
    BY <1>1, <1>2, <2>2
  <2>4. CASE i # n /\ j # n
    BY <1>2, <2>2, <2>3, <2>4
  <2>5. CASE i = n
    BY <1>1, <1>2, <1>3, <1>4, <2>1, <2>2, <2>3, <2>5
  <2>6. CASE j = n
    BY <1>1, <1>2, <1>3, <1>4, <2>1, <2>2, <2>3, <2>6
  <2> QED BY <2>4, <2>5, <2>6
<1> QED BY <1>1, <1>2, <1>4 DEF Clashes, new

\* A row the lookup did not find can be inserted.
LEMMA NewRowsDoNotClash ==
  ASSUME NEW all, IsSeq(all), ~Clashes(all), NEW work, Lookup(all, work) = {}
  PROVE  ~Clashes(Append(all, NewRow(work)))
<1> DEFINE new == Append(all, NewRow(work))
           k == Len(all) + 1
<1>1. /\ DOMAIN all = 1 .. Len(all) /\ Len(all) \in Nat
      /\ DOMAIN new = 1 .. k /\ new[k] = NewRow(work)
      /\ \A i \in 1 .. Len(all) : new[i] = all[i]
  BY SeqFacts, Appending
<1>2. \A i \in DOMAIN all : all[i].folder = work.folder =>
         /\ ~(work.meta.doi # None /\ all[i].meta.doi = work.meta.doi)
         /\ all[i].identity # Identity(work)
  BY DEF Lookup
<1>3. /\ NewRow(work).folder = work.folder /\ NewRow(work).identity = Identity(work)
      /\ NewRow(work).meta = work.meta
  BY DEF NewRow
<1> HIDE DEF new
<1>4. ASSUME NEW i \in DOMAIN new, NEW j \in DOMAIN new, i # j, new[i].folder = new[j].folder
      PROVE  /\ ~(new[i].meta.doi # None /\ new[i].meta.doi = new[j].meta.doi)
             /\ new[i].identity # new[j].identity
  <2>1. CASE i \in DOMAIN all /\ j \in DOMAIN all
    BY <1>1, <1>4, <2>1 DEF Clashes
  <2>2. CASE i = k /\ j \in DOMAIN all
    BY <1>1, <1>2, <1>3, <1>4, <2>2
  <2>3. CASE i \in DOMAIN all /\ j = k
    BY <1>1, <1>2, <1>3, <1>4, <2>3
  <2> QED BY <1>1, <1>4, <2>1, <2>2, <2>3
<1> QED BY <1>4 DEF Clashes, new

\* u are the tables t with the rows of all and the evidence of the work filed
\* under row i.
RowIsFiled(u, t, all, i, m, work) ==
    /\ DOMAIN u = DOMAIN t
    /\ u.rows = all
    /\ u.error = t.error
    /\ u.evidence = t.evidence \cup {<<i, e>> : e \in EvidenceOf(m, work)}

\* The rows of all are those of t but for row i, which takes the work.
StoresWork(t, m, work, all, i, u) ==
    /\ t.error = None
    /\ IsSeq(all)
    /\ ~Clashes(all)
    /\ i \in DOMAIN all
    /\ DOMAIN t.rows \subseteq DOMAIN all
    /\ \A j \in DOMAIN all : j # i => j \in DOMAIN t.rows /\ all[j] = t.rows[j]
    /\ IsRow(all[i])
    /\ \A f \in Fields : work.meta[f] # None => all[i].meta[f] # None
    /\ i \in DOMAIN t.rows =>
          /\ all[i].key = t.rows[i].key
          /\ \A f \in Fields : t.rows[i].meta[f] # None => all[i].meta[f] # None
    /\ RowIsFiled(u, t, all, i, m, work)

LEMMA StoredWork ==
  ASSUME NEW t, IsTransaction(t), NEW m, NEW work, NEW all, NEW i, NEW u,
         StoresWork(t, m, work, all, i, u)
  PROVE  /\ IsTransaction(u)
         /\ Keeps(t, u)
         /\ IsApplied(u.rows, u.evidence, m, work)
<1> USE DEF StoresWork, RowIsFiled
<1>1. IsTransaction(u)
  <2>1. \A j \in DOMAIN all : IsRow(all[j])
    BY DEF IsTransaction
  <2> QED BY <2>1, LedgerAssumption DEF IsTransaction
<1>2. Keeps(t, u)
  <2>1. ASSUME NEW j \in DOMAIN t.rows
        PROVE  /\ all[j].key = t.rows[j].key
               /\ \A f \in Fields : t.rows[j].meta[f] # None => all[j].meta[f] # None
    <3>1. CASE j = i
      BY <3>1
    <3>2. CASE j # i
      <4>1. all[j] = t.rows[j]
        BY <3>2
      <4> QED BY <4>1
    <3> QED BY <3>1, <3>2
  <2> QED BY <2>1 DEF Keeps
<1>3. IsApplied(u.rows, u.evidence, m, work)
  BY DEF IsApplied
<1> QED BY <1>1, <1>2, <1>3

\* The row of a work that was promoted or reconciled.
Fills(new, row, work) ==
    /\ IsRow(new)
    /\ new.folder = row.folder
    /\ new.identity = row.identity
    /\ new.key = row.key
    /\ new.meta = Filled(row.meta, work.meta)

LEMMA UpdatedRow ==
  ASSUME NEW row, IsRow(row), NEW work
  PROVE  Fills(Promoted(row, work), row, work) /\ Fills(Reconciled(row, work), row, work)
<1>1. PICK meta : meta = Filled(row.meta, work.meta)
  OBVIOUS
<1>2. Fills(Promoted(row, work), row, work)
  <2>1. PICK new : new = Promoted(row, work)
    OBVIOUS
  <2>2. \E status, review :
           new = [row EXCEPT !.meta = meta, !.status = status, !.review = review]
    BY <1>1, <2>1 DEF Promoted
  <2>3. PICK status, review :
           new = [row EXCEPT !.meta = meta, !.status = status, !.review = review]
    BY <2>2
  <2> QED BY <1>1, <2>1, <2>3 DEF IsRow, Fills
<1>3. Fills(Reconciled(row, work), row, work)
  <2>1. PICK new : new = Reconciled(row, work)
    OBVIOUS
  <2>2. \E review : new = [row EXCEPT !.meta = meta, !.review = review]
    BY <1>1, <2>1 DEF Reconciled
  <2>3. PICK review : new = [row EXCEPT !.meta = meta, !.review = review]
    BY <2>2
  <2> QED BY <1>1, <2>1, <2>3 DEF IsRow, Fills
<1> QED BY <1>2, <1>3

\* u are the tables t after row i was stored, whatever exceptions were noted.
StoredAs(u, t, i, row, m, work) ==
    \/ u = Filed(Stored(t, i, row), i, m, work)
    \/ \E x : u = Filed([Stored(t, i, row) EXCEPT !.exceptions = x], i, m, work)

WithRow(t, i, row) ==
    IF i > Len(t.rows) THEN Append(t.rows, row) ELSE [t.rows EXCEPT ![i] = row]

LEMMA FiledRow ==
  ASSUME NEW t, IsTransaction(t), NEW i, NEW row, ~Clashes(WithRow(t, i, row)),
         NEW m, NEW work, NEW u, StoredAs(u, t, i, row, m, work)
  PROVE  RowIsFiled(u, t, WithRow(t, i, row), i, m, work)
<1>0. PICK all : all = WithRow(t, i, row)
  OBVIOUS
<1>1. Stored(t, i, row) = [t EXCEPT !.rows = all]
  BY <1>0 DEF Stored, WithRow
<1>2. PICK s : s = Stored(t, i, row)
  OBVIOUS
<1>3. DOMAIN s = DOMAIN t /\ s.rows = all /\ s.error = t.error /\ s.evidence = t.evidence
  BY <1>1, <1>2 DEF IsTransaction
<1>5. \A x : LET n == [s EXCEPT !.exceptions = x] IN
         DOMAIN n = DOMAIN t /\ n.rows = all /\ n.error = t.error /\ n.evidence = t.evidence
  BY <1>3 DEF IsTransaction
<1>6. PICK added : added = {<<i, e>> : e \in EvidenceOf(m, work)}
  OBVIOUS
<1>7. ASSUME NEW r, DOMAIN r = DOMAIN t, r.rows = all, r.error = t.error,
             r.evidence = t.evidence, u = Filed(r, i, m, work)
      PROVE  /\ DOMAIN u = DOMAIN t /\ u.rows = all /\ u.error = t.error
             /\ u.evidence = t.evidence \cup added
  <2>1. u = [r EXCEPT !.evidence = @ \cup added]
    BY <1>6, <1>7 DEF Filed
  <2> QED BY <1>7, <2>1 DEF IsTransaction
<1>8. ASSUME u = Filed(s, i, m, work)
      PROVE  /\ DOMAIN u = DOMAIN t /\ u.rows = all /\ u.error = t.error
             /\ u.evidence = t.evidence \cup added
  BY <1>3, <1>7, <1>8
<1>9. ASSUME NEW x, u = Filed([s EXCEPT !.exceptions = x], i, m, work)
      PROVE  /\ DOMAIN u = DOMAIN t /\ u.rows = all /\ u.error = t.error
             /\ u.evidence = t.evidence \cup added
  <2>1. PICK n : n = [s EXCEPT !.exceptions = x]
    OBVIOUS
  <2>2. DOMAIN n = DOMAIN t /\ n.rows = all /\ n.error = t.error /\ n.evidence = t.evidence
    BY <1>5, <2>1
  <2>3. u = Filed(n, i, m, work)
    BY <1>9, <2>1
  <2> QED BY <1>7, <2>2, <2>3
<1> QED BY <1>0, <1>2, <1>6, <1>8, <1>9 DEF StoredAs, RowIsFiled

\* Applying a work never meets a unique index, takes nothing away and, unless
\* it fails, leaves the work applied.
LEMMA ApplyWorkStep ==
  ASSUME NEW t, IsTransaction(t), NEW m, NEW work, NEW u, u = ApplyWork(t, m, work)
  PROVE  /\ IsTransaction(u)
         /\ Keeps(t, u)
         /\ u.error = None => IsApplied(u.rows, u.evidence, m, work)
<1> DEFINE found == Lookup(t.rows, work)
           i == IF found = {} THEN Len(t.rows) + 1 ELSE CHOOSE n \in found : TRUE
           row == t.rows[i]
<1>0. /\ IsSeq(t.rows) /\ ~Clashes(t.rows) /\ \A j \in DOMAIN t.rows : IsRow(t.rows[j])
      /\ Len(t.rows) \in Nat /\ DOMAIN t.rows = 1 .. Len(t.rows)
  BY SeqFacts DEF IsTransaction
<1>k. Keeps(t, t)
  BY DEF Keeps
<1>r. found # {} => i \in found /\ i \in DOMAIN t.rows /\ IsRow(row)
  <2>1. found \subseteq DOMAIN t.rows
    BY DEF Lookup
  <2> HIDE DEF found
  <2> QED BY <1>0, <2>1
<1>1. CASE t.error # None
  <2>1. u = t
    BY <1>1 DEF ApplyWork
  <2> QED BY <1>1, <1>k, <2>1
<1>2. CASE t.error = None /\ found = {}
  <2> DEFINE new == NewRow(work)
             all == Append(t.rows, new)
  <2>1. i = Len(t.rows) + 1 /\ i > Len(t.rows)
    BY <1>0, <1>2
  <2>2. ~Clashes(all)
    BY <1>0, <1>2, NewRowsDoNotClash
  <2>3. StoredAs(u, t, i, new, m, work)
    BY <1>2 DEF ApplyWork, StoredAs
  <2>4. /\ IsSeq(all) /\ i \in DOMAIN all /\ DOMAIN t.rows \subseteq DOMAIN all
        /\ all[i] = new /\ i \notin DOMAIN t.rows
        /\ \A j \in DOMAIN all : j # i => j \in DOMAIN t.rows /\ all[j] = t.rows[j]
    BY <1>0, <2>1, Appending
  <2>5. IsRow(new) /\ new.meta = work.meta
    BY DEF NewRow, IsRow
  <2>6. all = WithRow(t, i, new)
    BY <2>1 DEF WithRow
  <2> HIDE DEF all, new, i, found
  <2>7. RowIsFiled(u, t, all, i, m, work)
    BY <2>2, <2>3, <2>6, FiledRow
  <2>8. IsRow(all[i]) /\ \A f \in Fields : work.meta[f] # None => all[i].meta[f] # None
    BY <2>4, <2>5
  <2>9. StoresWork(t, m, work, all, i, u)
    BY <1>2, <2>2, <2>4, <2>7, <2>8 DEF StoresWork
  <2> QED BY <2>9, StoredWork
<1>3. ASSUME t.error = None, found # {}, NEW new, Fills(new, row, work),
             StoredAs(u, t, i, new, m, work)
      PROVE  /\ IsTransaction(u)
             /\ Keeps(t, u)
             /\ IsApplied(u.rows, u.evidence, m, work)
  <2> DEFINE all == [t.rows EXCEPT ![i] = new]
  <2>1. i \in found
    BY <1>3, <1>r
  <2>2. i \in DOMAIN t.rows
    BY <1>3, <1>r
  <2>3. /\ IsRow(new) /\ new.folder = row.folder /\ new.identity = row.identity
        /\ new.key = row.key /\ new.meta = Filled(row.meta, work.meta)
    BY <1>3 DEF Fills
  <2>4. ~Clashes(all)
    BY <1>0, <2>1, <2>3, FilledRowsDoNotClash
  <2>5. all = WithRow(t, i, new)
    BY <1>0, <2>2 DEF WithRow
  <2>6. /\ IsSeq(all) /\ DOMAIN all = DOMAIN t.rows /\ all[i] = new
        /\ \A j \in DOMAIN all : j # i => all[j] = t.rows[j]
    BY <1>0, <2>2, Replacing
  <2>7. \A f \in Fields : /\ work.meta[f] # None => new.meta[f] # None
                          /\ row.meta[f] # None => new.meta[f] # None
    BY <2>3 DEF Filled
  <2> HIDE DEF all, i, found
  <2>8. RowIsFiled(u, t, all, i, m, work)
    BY <1>3, <2>4, <2>5, FiledRow
  <2>9. /\ IsRow(all[i]) /\ all[i].key = t.rows[i].key
        /\ \A f \in Fields : work.meta[f] # None => all[i].meta[f] # None
        /\ \A f \in Fields : t.rows[i].meta[f] # None => all[i].meta[f] # None
    BY <2>3, <2>6, <2>7
  <2>10. StoresWork(t, m, work, all, i, u)
    BY <1>3, <2>2, <2>4, <2>6, <2>8, <2>9 DEF StoresWork
  <2> QED BY <2>10, StoredWork
<1>4. CASE t.error = None /\ found # {} /\ Promotable(row, work)
  <2>1. CASE row.meta.doi \notin {None, work.meta.doi}
    <3>1. u = [t EXCEPT !.error = "DOI replaced"]
      BY <1>4, <2>1 DEF ApplyWork
    <3>2. /\ u.rows = t.rows /\ u.evidence = t.evidence /\ u.error = "DOI replaced"
          /\ DOMAIN u = DOMAIN t
      BY <3>1 DEF IsTransaction
    <3>3. Keeps(t, u)
      BY <1>k, <3>2 DEF Keeps
    <3> QED BY <1>0, <3>2, <3>3, LedgerAssumption DEF IsTransaction
  <2>2. CASE row.meta.doi \in {None, work.meta.doi}
    <3>1. StoredAs(u, t, i, Promoted(row, work), m, work)
      BY <1>4, <2>2 DEF ApplyWork, StoredAs
    <3>2. Fills(Promoted(row, work), row, work)
      BY <1>4, <1>r, UpdatedRow
    <3> HIDE DEF i, found, row
    <3> QED BY <1>3, <1>4, <3>1, <3>2
  <2> QED BY <2>1, <2>2
<1>5. CASE t.error = None /\ found # {} /\ ~Promotable(row, work)
  <2>2. StoredAs(u, t, i, Reconciled(row, work), m, work)
    <3> DEFINE s == Stored(t, i, Reconciled(row, work))
    <3>1. PICK x : x = s.exceptions \cup {<<work, f>> : f \in Conflicts(row, work)}
      OBVIOUS
    <3>2. u = Filed([s EXCEPT !.exceptions = x], i, m, work)
      BY <1>5, <3>1 DEF ApplyWork
    <3> HIDE DEF i, found, row
    <3> QED BY <3>2, Zenon DEF StoredAs
  <2>3. Fills(Reconciled(row, work), row, work)
    BY <1>5, <1>r, UpdatedRow
  <2> HIDE DEF i, found, row
  <2> QED BY <1>3, <1>5, <2>2, <2>3
<1> QED BY <1>1, <1>2, <1>4, <1>5

-----------------------------------------------------------------------------
(* The works of a manifest, one after the other.                           *)

StepOf(t, m, folder, n) ==
    IF m.works[n].folder # folder THEN t ELSE ApplyWork(t, m, m.works[n])

\* g[n] is what the first n works make of the tables t, for n up to k.
IsFold(g, t, m, folder, k) ==
    g = [n \in 0 .. k |-> IF n = 0 THEN t ELSE StepOf(g[n - 1], m, folder, n)]

\* The recursion is well defined.
LEMMA FoldExists ==
  ASSUME NEW t, NEW m, NEW folder
  PROVE  \A k \in Nat : \E g : IsFold(g, t, m, folder, k)
<1> DEFINE S == {k \in Nat : \E g : IsFold(g, t, m, folder, k)}
<1>1. 0 \in S
  <2>1. PICK g : g = [n \in 0 .. 0 |-> t]
    OBVIOUS
  <2>2. g = [n \in 0 .. 0 |-> IF n = 0 THEN t ELSE StepOf(g[n - 1], m, folder, n)]
    BY <2>1
  <2> QED BY <2>2 DEF IsFold
<1>2. ASSUME NEW k \in Nat, k \in S
      PROVE  k + 1 \in S
  <2>1. PICK g : IsFold(g, t, m, folder, k)
    BY <1>2
  <2>2. \A n \in 0 .. k : g[n] = IF n = 0 THEN t ELSE StepOf(g[n - 1], m, folder, n)
    BY <2>1 DEF IsFold
  <2>3. PICK h : h = [n \in 0 .. k + 1 |-> IF n = k + 1 THEN StepOf(g[k], m, folder, k + 1) ELSE g[n]]
    OBVIOUS
  <2>4. ASSUME NEW n \in 0 .. k + 1
        PROVE  h[n] = IF n = 0 THEN t ELSE StepOf(h[n - 1], m, folder, n)
    <3>1. CASE n = k + 1
      <4>1. n - 1 = k /\ k \in 0 .. k + 1 /\ k # k + 1 /\ n # 0
        BY <3>1
      <4>2. h[n - 1] = g[k]
        BY <2>3, <4>1
      <4> QED BY <2>3, <3>1, <4>1, <4>2
    <3>2. CASE n = 0
      BY <2>2, <2>3, <3>2
    <3>3. CASE n # k + 1 /\ n # 0
      <4>1. n \in 0 .. k /\ n - 1 \in 0 .. k + 1 /\ n - 1 # k + 1
        BY <3>3
      <4>2. h[n] = g[n] /\ h[n - 1] = g[n - 1]
        BY <2>3, <3>3, <4>1
      <4> QED BY <2>2, <3>3, <4>1, <4>2
    <3> QED BY <3>1, <3>2, <3>3
  <2>5. h = [n \in 0 .. k + 1 |-> IF n = 0 THEN t ELSE StepOf(h[n - 1], m, folder, n)]
    BY <2>3, <2>4
  <2>6. IsFold(h, t, m, folder, k + 1)
    BY <2>5 DEF IsFold
  <2> QED BY <2>6
<1>3. Nat \subseteq S
  <2> HIDE DEF S
  <2> QED BY <1>1, <1>2, Counting
<1> QED BY <1>3

LEMMA TransactionsFold ==
  ASSUME NEW m, IsSeq(m.works), NEW folder
  PROVE  IsFold(Transactions(m, folder), Transaction, m, folder, Len(m.works))
<1>1. Len(m.works) \in Nat
  BY SeqFacts
<1>2. \E g : IsFold(g, Transaction, m, folder, Len(m.works))
  BY <1>1, FoldExists
<1>3. IsFold(CHOOSE g : IsFold(g, Transaction, m, folder, Len(m.works)),
             Transaction, m, folder, Len(m.works))
  BY <1>2
<1>4. Transactions(m, folder) = CHOOSE g : IsFold(g, Transaction, m, folder, Len(m.works))
  BY DEF Transactions, IsFold, StepOf
<1> QED BY <1>3, <1>4

\* What holds after the first n works: the tables are sound, nothing is lost,
\* and without an error the applicant's works among them are applied.
AppliedSoFar(t, u, m, folder, n) ==
    /\ IsTransaction(u)
    /\ Keeps(t, u)
    /\ u.error = None =>
          \A k \in 1 .. n : m.works[k].folder = folder =>
              IsApplied(u.rows, u.evidence, m, m.works[k])

LEMMA FoldStep ==
  ASSUME NEW t, NEW u, NEW m, NEW folder, NEW n \in Nat, AppliedSoFar(t, u, m, folder, n)
  PROVE  AppliedSoFar(t, StepOf(u, m, folder, n + 1), m, folder, n + 1)
<1>0. PICK work : work = m.works[n + 1]
  OBVIOUS
<1>1. CASE work.folder # folder
  <2>1. StepOf(u, m, folder, n + 1) = u
    BY <1>0, <1>1 DEF StepOf
  <2>2. \A k \in 1 .. n + 1 : m.works[k].folder = folder => k \in 1 .. n
    BY <1>0, <1>1
  <2> QED BY <2>1, <2>2 DEF AppliedSoFar
<1>2. CASE work.folder = folder
  <2>1. PICK v : v = ApplyWork(u, m, work)
    OBVIOUS
  <2>2. StepOf(u, m, folder, n + 1) = v
    BY <1>0, <1>2, <2>1 DEF StepOf
  <2>3. /\ IsTransaction(u) /\ Keeps(t, u)
        /\ u.error = None =>
              \A k \in 1 .. n : m.works[k].folder = folder =>
                  IsApplied(u.rows, u.evidence, m, m.works[k])
    BY DEF AppliedSoFar
  <2>4. IsTransaction(v) /\ Keeps(u, v) /\ (v.error = None => IsApplied(v.rows, v.evidence, m, work))
    BY <2>1, <2>3, ApplyWorkStep
  <2>5. Keeps(t, v)
    BY <2>3, <2>4, KeepsIsTransitive
  <2>6. u.error # None => v = u
    BY <2>1 DEF ApplyWork
  <2>7. ASSUME v.error = None, NEW k \in 1 .. n + 1, m.works[k].folder = folder
        PROVE  IsApplied(v.rows, v.evidence, m, m.works[k])
    <3>1. u.error = None
      BY <2>6, <2>7
    <3>2. CASE k = n + 1
      BY <1>0, <2>4, <2>7, <3>2
    <3>3. CASE k \in 1 .. n
      <4>1. IsApplied(u.rows, u.evidence, m, m.works[k])
        BY <2>3, <2>7, <3>1, <3>3
      <4> QED BY <2>4, <4>1, KeptIsApplied
    <3> QED BY <3>2, <3>3
  <2> QED BY <2>2, <2>4, <2>5, <2>7 DEF AppliedSoFar
<1> QED BY <1>1, <1>2

LEMMA TransactionOfApplicant ==
  ASSUME NEW m, IsSeq(m.works), NEW folder, IsTransaction(Transaction)
  PROVE  AppliedSoFar(Transaction, ApplicantTransaction(m, folder), m, folder, Len(m.works))
<1> DEFINE g == Transactions(m, folder)
           N == Len(m.works)
           S == {n \in Nat : n <= N => AppliedSoFar(Transaction, g[n], m, folder, n)}
<1>1. N \in Nat
  BY SeqFacts
<1>2. \A n \in 0 .. N : g[n] = IF n = 0 THEN Transaction ELSE StepOf(g[n - 1], m, folder, n)
  BY TransactionsFold DEF IsFold
<1> HIDE DEF g, N
<1>3. 0 \in S
  <2>1. g[0] = Transaction
    BY <1>1, <1>2
  <2>2. Keeps(Transaction, Transaction)
    BY DEF Keeps
  <2>3. AppliedSoFar(Transaction, Transaction, m, folder, 0)
    BY <2>2 DEF AppliedSoFar
  <2> QED BY <2>1, <2>3
<1>4. ASSUME NEW n \in Nat, n \in S
      PROVE  n + 1 \in S
  <2> SUFFICES ASSUME n + 1 <= N
               PROVE  AppliedSoFar(Transaction, g[n + 1], m, folder, n + 1)
    OBVIOUS
  <2>1. AppliedSoFar(Transaction, g[n], m, folder, n)
    BY <1>1, <1>4
  <2>2. g[n + 1] = StepOf(g[n], m, folder, n + 1)
    <3>1. n + 1 \in 0 .. N /\ n + 1 # 0 /\ (n + 1) - 1 = n
      BY <1>1
    <3> QED BY <1>2, <3>1
  <2> QED BY <2>1, <2>2, FoldStep
<1>5. Nat \subseteq S
  <2> HIDE DEF S
  <2> QED BY <1>3, <1>4, Counting
<1> QED BY <1>1, <1>5 DEF ApplicantTransaction, g, N

-----------------------------------------------------------------------------
(* Runs.                                                                   *)

\* new are the runs with run r ended.
RunEnds(new, r, status, error) ==
    /\ IsSeq(new)
    /\ DOMAIN new = DOMAIN runs
    /\ \A q \in DOMAIN runs : q # r => new[q] = runs[q]
    /\ IsRun(new[r])
    /\ new[r].kind = runs[r].kind
    /\ new[r].file = runs[r].file
    /\ new[r].status = status
    /\ new[r].error = error

LEMMA EndedRun ==
  ASSUME TablesTypeOK, NEW r \in DOMAIN runs, NEW status, NEW error
  PROVE  /\ RunEnds([runs EXCEPT ![r].status = status, ![r].error = error], r, status, error)
         /\ RunEnds([runs EXCEPT ![r].status = status], r, status, runs[r].error)
<1>1. IsSeq(runs) /\ IsRun(runs[r])
  BY DEF TablesTypeOK
<1>2. PICK one : one = [runs[r] EXCEPT !.status = status]
  OBVIOUS
<1>3. /\ DOMAIN one = DOMAIN runs[r] /\ one.kind = runs[r].kind /\ one.file = runs[r].file
      /\ one.status = status /\ one.error = runs[r].error
  BY <1>1, <1>2 DEF IsRun
<1>4. PICK two : two = [one EXCEPT !.error = error]
  OBVIOUS
<1>5. /\ DOMAIN two = DOMAIN runs[r] /\ two.kind = runs[r].kind /\ two.file = runs[r].file
      /\ two.status = status /\ two.error = error
  BY <1>1, <1>3, <1>4 DEF IsRun
<1>6. ASSUME NEW x, NEW e, IsRun(x), x.kind = runs[r].kind, x.file = runs[r].file,
             x.status = status, x.error = e
      PROVE  RunEnds([runs EXCEPT ![r] = x], r, status, e)
  <2>1. PICK new : new = [runs EXCEPT ![r] = x]
    OBVIOUS
  <2>2. /\ IsSeq(new) /\ DOMAIN new = DOMAIN runs
        /\ \A i \in DOMAIN runs : new[i] = IF i = r THEN x ELSE runs[i]
    BY <1>1, <2>1, Replacing
  <2>3. RunEnds(new, r, status, e)
    BY <1>6, <2>2 DEF RunEnds
  <2> QED BY <2>1, <2>3
<1>7. [runs EXCEPT ![r].status = status] = [runs EXCEPT ![r] = one]
  BY <1>2
<1>8. [runs EXCEPT ![r].status = status, ![r].error = error] = [runs EXCEPT ![r] = two]
  <2>1. PICK mid : mid = [runs EXCEPT ![r] = one]
    OBVIOUS
  <2>2. mid[r] = one
    BY <2>1
  <2>3. [runs EXCEPT ![r].status = status, ![r].error = error] = [mid EXCEPT ![r].error = error]
    BY <1>7, <2>1
  <2>4. [mid EXCEPT ![r].error = error] = [mid EXCEPT ![r] = two]
    BY <1>4, <2>2
  <2>5. [mid EXCEPT ![r] = two] = [runs EXCEPT ![r] = two]
    BY <2>1
  <2> QED BY <2>3, <2>4, <2>5
<1>9. IsRun(one) /\ IsRun(two)
  BY <1>1, <1>3, <1>5 DEF IsRun
<1> QED BY <1>3, <1>5, <1>6, <1>7, <1>8, <1>9

\* new are the runs with one more.
RunAdded(new, kind, file_) ==
    /\ IsSeq(new)
    /\ Len(runs) + 1 \notin DOMAIN runs
    /\ DOMAIN new = DOMAIN runs \cup {Len(runs) + 1}
    /\ \A q \in DOMAIN runs : new[q] = runs[q]
    /\ new[Len(runs) + 1] = NewRun(kind, file_)

LEMMA AddedRun ==
  ASSUME TablesTypeOK, NEW kind, NEW file_
  PROVE  RunAdded(Append(runs, NewRun(kind, file_)), kind, file_)
<1>1. IsSeq(runs)
  BY DEF TablesTypeOK
<1>2. Len(runs) \in Nat /\ DOMAIN runs = 1 .. Len(runs)
  BY <1>1, SeqFacts
<1>3. PICK new : new = Append(runs, NewRun(kind, file_))
  OBVIOUS
<1>4. /\ IsSeq(new) /\ DOMAIN new = 1 .. Len(runs) + 1
      /\ \A i \in 1 .. Len(runs) : new[i] = runs[i]
      /\ new[Len(runs) + 1] = NewRun(kind, file_)
  BY <1>1, <1>3, Appending
<1> QED BY <1>2, <1>3, <1>4 DEF RunAdded

LEMMA NewRunFacts ==
  ASSUME NEW kind, NEW file_
  PROVE  /\ IsRun(NewRun(kind, file_)) /\ NewRun(kind, file_).kind = kind
         /\ NewRun(kind, file_).file = file_ /\ NewRun(kind, file_).status = "RUNNING"
         /\ NewRun(kind, file_).error = None
BY DEF NewRun, IsRun

-----------------------------------------------------------------------------
(* The publication import.                                                 *)

\* A step takes nothing from the tables.
TablesKept == Keeps(Transaction, Transaction')

LEMMA AppliedStays ==
  ASSUME TablesKept, NEW m, NEW w, IsApplied(rows, evidence, m, w)
  PROVE  IsApplied(rows', evidence', m, w)
<1>1. PICK t : t = Transaction
  OBVIOUS
<1>2. PICK u : u = Transaction'
  OBVIOUS
<1>3. t.rows = rows /\ t.evidence = evidence /\ u.rows = rows' /\ u.evidence = evidence'
  BY <1>1, <1>2 DEF Transaction
<1>4. Keeps(t, u) /\ IsApplied(t.rows, t.evidence, m, w)
  BY <1>1, <1>2, <1>3 DEF TablesKept
<1> QED BY <1>3, <1>4, KeptIsApplied

LEMMA UnchangedIsKept ==
  ASSUME UNCHANGED <<rows, evidence>>
  PROVE  TablesKept
<1>1. /\ Transaction.rows = rows /\ Transaction.evidence = evidence
      /\ Transaction'.rows = rows' /\ Transaction'.evidence = evidence'
  BY DEF Transaction
<1> QED BY <1>1 DEF TablesKept, Keeps

LEMMA OpenTransaction ==
  ASSUME LedgerInv
  PROVE  IsTransaction(Transaction)
<1>1. /\ DOMAIN Transaction = {"rows", "evidence", "exceptions", "error"}
      /\ Transaction.rows = rows /\ Transaction.error = None
  BY DEF Transaction
<1>2. /\ IsSeq(rows) /\ ~Clashes(rows) /\ \A i \in DOMAIN rows : IsRow(rows[i])
  BY DEF LedgerInv, TablesTypeOK
<1> QED BY <1>1, <1>2, LedgerAssumption DEF IsTransaction

\* The conjuncts about applied works, when only the importer and the runs
\* have to be looked at.
LEMMA AppliedParts ==
  ASSUME LedgerInv, TablesKept,
         \A r \in DOMAIN runs' :
             runs'[r].kind = "publications" /\ runs'[r].status = "COMPLETED" =>
                 \/ r \in DOMAIN runs /\ runs'[r] = runs[r]
                 \/ /\ runs'[r].file \in Manifests
                    /\ \A w \in ToSet(runs'[r].file.works) :
                          IsApplied(rows, evidence, runs'[r].file, w),
         \A m \in importer'.told : m \in importer.told \/
             \A w \in ToSet(m.works) : IsApplied(rows, evidence, m, w)
  PROVE  CompletedIsApplied' /\ AppliedManifestIsWhole'
<1>1. CompletedIsApplied'
  <2> SUFFICES ASSUME NEW r \in DOMAIN runs', runs'[r].kind = "publications",
                      runs'[r].status = "COMPLETED"
               PROVE  /\ runs'[r].file \in Manifests
                      /\ \A w \in ToSet(runs'[r].file.works) :
                            IsApplied(rows', evidence', runs'[r].file, w)
    BY DEF CompletedIsApplied
  <2>1. /\ runs'[r].file \in Manifests
        /\ \A w \in ToSet(runs'[r].file.works) : IsApplied(rows, evidence, runs'[r].file, w)
    BY DEF LedgerInv, CompletedIsApplied
  <2> QED BY <2>1, AppliedStays
<1>2. AppliedManifestIsWhole'
  <2> SUFFICES ASSUME NEW m \in importer'.told, NEW w \in ToSet(m.works)
               PROVE  IsApplied(rows', evidence', m, w)
    BY DEF AppliedManifestIsWhole
  <2>1. IsApplied(rows, evidence, m, w)
    BY DEF LedgerInv, AppliedManifestIsWhole
  <2> QED BY <2>1, AppliedStays
<1> QED BY <1>1, <1>2

LEMMA StartImportStep ==
  ASSUME LedgerInv, NEW m \in Manifests, StartImport(m)
  PROVE  LedgerInv' /\ TablesKept
<1>0. TablesKept /\ rows' = rows /\ evidence' = evidence
  BY UnchangedIsKept DEF StartImport
<1>1. /\ TablesTypeOK /\ ImporterTypeOK /\ ~Clashes(rows) /\ ImportNeverClashes
      /\ CommittedIsApplied /\ CompletedIsApplied /\ AppliedManifestIsWhole
  BY DEF LedgerInv
<1>2. importer.pc = "idle" /\ Loads(m)
  BY DEF StartImport
<1>3. CASE ReusableImport(m) # {}
  <2>1. /\ importer' = [importer EXCEPT !.told = @ \cup {m}] /\ runs' = runs
    BY <1>3 DEF StartImport
  <2>2. /\ DOMAIN importer' = DOMAIN importer /\ importer'.pc = "idle"
        /\ importer'.told = importer.told \cup {m}
    BY <1>1, <1>2, <2>1 DEF ImporterTypeOK
  <2>3. PICK r \in DOMAIN runs : /\ runs[r].kind = "publications" /\ runs[r].file = m
                                 /\ runs[r].status = "COMPLETED"
    BY <1>3 DEF ReusableImport, CompletedRun
  <2>4. \A w \in ToSet(m.works) : IsApplied(rows, evidence, m, w)
    BY <1>1, <2>3 DEF CompletedIsApplied
  <2>5. TablesTypeOK' /\ (~Clashes(rows))' /\ ImportNeverClashes'
    <3>1. TablesTypeOK' /\ ImportNeverClashes'
      BY <1>0, <1>1, <2>1 DEF TablesTypeOK, ImportNeverClashes
    <3>2. (~Clashes(rows))'
      BY <1>0, <1>1, Zenon
    <3> QED BY <3>1, <3>2
  <2>6. ImporterTypeOK' /\ CommittedIsApplied'
    BY <1>1, <2>2 DEF ImporterTypeOK, CommittedIsApplied
  <2>7. CompletedIsApplied' /\ AppliedManifestIsWhole'
    <3>1. \A r2 \in DOMAIN runs' : r2 \in DOMAIN runs /\ runs'[r2] = runs[r2]
      BY <2>1
    <3>2. \A m2 \in importer'.told : m2 \in importer.told \/
             \A w \in ToSet(m2.works) : IsApplied(rows, evidence, m2, w)
      BY <2>2, <2>4
    <3> QED BY <1>0, <3>1, <3>2, AppliedParts
  <2> QED BY <1>0, <2>5, <2>6, <2>7 DEF LedgerInv
<1>4. CASE ReusableImport(m) = {}
  <2>1. /\ importer' = [importer EXCEPT !.pc = "applying", !.manifest = m,
                           !.run = Len(runs) + 1, !.todo = Folders]
        /\ runs' = Append(runs, NewRun("publications", m))
    BY <1>4 DEF StartImport
  <2>2. /\ DOMAIN importer' = DOMAIN importer /\ importer'.pc = "applying"
        /\ importer'.manifest = m /\ importer'.run = Len(runs) + 1
        /\ importer'.todo = Folders /\ importer'.told = importer.told
    BY <1>1, <1>2, <2>1 DEF ImporterTypeOK
  <2>3. RunAdded(runs', "publications", m)
    BY <1>1, <2>1, AddedRun
  <2>4. /\ \A r \in DOMAIN runs' : \/ r \in DOMAIN runs /\ runs'[r] = runs[r]
                                   \/ r = Len(runs) + 1
        /\ LET n == runs'[Len(runs) + 1] IN
           /\ IsRun(n) /\ n.kind = "publications" /\ n.file = m /\ n.status = "RUNNING"
           /\ n.error = None
        /\ IsSeq(runs') /\ Len(runs) + 1 \in DOMAIN runs'
    BY <2>3, NewRunFacts DEF RunAdded
  <2>5. TablesTypeOK' /\ (~Clashes(rows))' /\ ImportNeverClashes'
    <3>1. TablesTypeOK'
      BY <1>0, <1>1, <2>4 DEF TablesTypeOK
    <3>2. ImportNeverClashes'
      BY <1>1, <2>4, LedgerAssumption DEF ImportNeverClashes
    <3>3. (~Clashes(rows))'
      BY <1>0, <1>1, Zenon
    <3> QED BY <3>1, <3>2, <3>3
  <2>6. ImporterTypeOK' /\ CommittedIsApplied'
    <3>1. \A w \in ToSet(m.works) : w.folder \in Folders
      BY <1>2 DEF Loads, WorkIsValid
    <3>2. IsRunning(importer.run, "publications", importer.manifest)'
      BY <2>2, <2>4 DEF IsRunning
    <3>3. ImporterTypeOK'
      BY <1>1, <1>2, <2>2, <3>2 DEF ImporterTypeOK
    <3>4. CommittedIsApplied'
      BY <2>2, <3>1 DEF CommittedIsApplied
    <3> QED BY <3>3, <3>4
  <2>7. CompletedIsApplied' /\ AppliedManifestIsWhole'
    <3>1. \A r \in DOMAIN runs' : runs'[r].status = "COMPLETED" =>
             r \in DOMAIN runs /\ runs'[r] = runs[r]
      BY <2>4
    <3>2. \A m2 \in importer'.told : m2 \in importer.told
      BY <2>2
    <3> QED BY <1>0, <3>1, <3>2, AppliedParts
  <2> QED BY <1>0, <2>5, <2>6, <2>7 DEF LedgerInv
<1> QED BY <1>3, <1>4

LEMMA EndImportStep ==
  ASSUME LedgerInv, importer.pc = "applying", NEW status, NEW error,
         EndImport(status, error), error # "unique index",
         status = "COMPLETED" => importer.todo = {}, UNCHANGED <<rows, evidence>>
  PROVE  LedgerInv' /\ TablesKept
<1>0. TablesKept /\ rows' = rows /\ evidence' = evidence
  BY UnchangedIsKept
<1>1. /\ TablesTypeOK /\ ImporterTypeOK /\ ~Clashes(rows) /\ ImportNeverClashes
      /\ CommittedIsApplied /\ CompletedIsApplied /\ AppliedManifestIsWhole
  BY DEF LedgerInv
<1>2. PICK r : r = importer.run
  OBVIOUS
<1>3. PICK m : m = importer.manifest
  OBVIOUS
<1>4. /\ m \in Manifests /\ r \in DOMAIN runs /\ runs[r].kind = "publications"
      /\ runs[r].file = m
  BY <1>1, <1>2, <1>3 DEF ImporterTypeOK, IsRunning
<1>5. RunEnds(runs', r, status, error)
  BY <1>1, <1>2, <1>4, EndedRun DEF EndImport
<1>6. /\ \A q \in DOMAIN runs' : q # r => q \in DOMAIN runs /\ runs'[q] = runs[q]
      /\ IsSeq(runs') /\ r \in DOMAIN runs' /\ IsRun(runs'[r])
      /\ runs'[r].kind = "publications" /\ runs'[r].file = m
      /\ runs'[r].status = status /\ runs'[r].error = error
  BY <1>4, <1>5 DEF RunEnds
<1>7. status = "COMPLETED" => \A w \in ToSet(m.works) : IsApplied(rows, evidence, m, w)
  BY <1>1, <1>3 DEF CommittedIsApplied
<1>8. /\ DOMAIN importer' = {"pc", "manifest", "run", "todo", "told"} /\ importer'.pc = "idle"
      /\ importer'.told = IF status = "COMPLETED" THEN importer.told \cup {m} ELSE importer.told
  BY <1>3 DEF EndImport, IdleImporter
<1>9. TablesTypeOK'
  BY <1>0, <1>1, <1>6 DEF TablesTypeOK
<1>10. ImportNeverClashes'
  <2>1. \A q \in DOMAIN runs' : q # r => runs'[q].error # "unique index"
    BY <1>1, <1>6 DEF ImportNeverClashes
  <2> QED BY <1>6, <2>1 DEF ImportNeverClashes
<1>11. (~Clashes(rows))'
  BY <1>0, <1>1, Zenon
<1>12. ImporterTypeOK' /\ CommittedIsApplied'
  BY <1>1, <1>4, <1>8 DEF ImporterTypeOK, CommittedIsApplied
<1>13. CompletedIsApplied' /\ AppliedManifestIsWhole'
  <2>1. ASSUME NEW q \in DOMAIN runs', runs'[q].kind = "publications",
               runs'[q].status = "COMPLETED"
        PROVE  \/ q \in DOMAIN runs /\ runs'[q] = runs[q]
               \/ /\ runs'[q].file \in Manifests
                  /\ \A w \in ToSet(runs'[q].file.works) :
                        IsApplied(rows, evidence, runs'[q].file, w)
    BY <1>4, <1>6, <1>7, <2>1
  <2>2. \A m2 \in importer'.told : m2 \in importer.told \/
           \A w \in ToSet(m2.works) : IsApplied(rows, evidence, m2, w)
    BY <1>7, <1>8
  <2> QED BY <1>0, <2>1, <2>2, AppliedParts
<1> QED BY <1>0, <1>9, <1>10, <1>11, <1>12, <1>13 DEF LedgerInv

LEMMA ApplyApplicantStep ==
  ASSUME LedgerInv, NEW folder \in Folders, ApplyApplicant(folder)
  PROVE  LedgerInv' /\ TablesKept
<1>1. /\ TablesTypeOK /\ ImporterTypeOK /\ ~Clashes(rows) /\ ImportNeverClashes
      /\ CommittedIsApplied /\ CompletedIsApplied /\ AppliedManifestIsWhole
  BY DEF LedgerInv
<1>2. PICK m : m = importer.manifest
  OBVIOUS
<1>3. PICK t : t = ApplicantTransaction(m, folder)
  OBVIOUS
<1>4. importer.pc = "applying" /\ folder \in importer.todo
  BY DEF ApplyApplicant
<1>5. m \in Manifests /\ IsSeq(m.works)
  BY <1>1, <1>2, <1>4, LedgerAssumption DEF ImporterTypeOK
<1>6. AppliedSoFar(Transaction, t, m, folder, Len(m.works))
  BY <1>3, <1>5, OpenTransaction, TransactionOfApplicant
<1>7. IsTransaction(t) /\ Keeps(Transaction, t)
  BY <1>6 DEF AppliedSoFar
<1>8. CASE t.error # None
  <2>1. EndImport("FAILED", t.error) /\ UNCHANGED <<rows, evidence>>
    BY <1>2, <1>3, <1>8 DEF ApplyApplicant
  <2>2. t.error # "unique index"
    BY <1>7 DEF IsTransaction
  <2> QED BY <1>4, <2>1, <2>2, EndImportStep
<1>9. CASE t.error = None
  <2>1. /\ rows' = t.rows /\ evidence' = t.evidence /\ exceptions' = t.exceptions
        /\ importer' = [importer EXCEPT !.todo = @ \ {folder}] /\ runs' = runs
    BY <1>2, <1>3, <1>9 DEF ApplyApplicant
  <2>2. TablesKept
    <3>1. Transaction'.rows = rows' /\ Transaction'.evidence = evidence'
      BY DEF Transaction
    <3> QED BY <1>7, <2>1, <3>1 DEF TablesKept, Keeps
  <2>3. /\ DOMAIN importer' = DOMAIN importer /\ importer'.pc = "applying"
        /\ importer'.manifest = m /\ importer'.run = importer.run
        /\ importer'.todo = importer.todo \ {folder} /\ importer'.told = importer.told
    BY <1>1, <1>2, <1>4, <2>1 DEF ImporterTypeOK
  <2>4. TablesTypeOK'
    BY <1>1, <1>7, <2>1 DEF TablesTypeOK, IsTransaction
  <2>5. (~Clashes(rows))' /\ ImportNeverClashes'
    <3>1. ImportNeverClashes'
      BY <1>1, <2>1 DEF ImportNeverClashes
    <3>2. ~Clashes(t.rows)
      BY <1>7 DEF IsTransaction
    <3> QED BY <2>1, <3>1, <3>2 DEF Clashes
  <2>6. ImporterTypeOK'
    <3>1. IsRunning(importer.run, "publications", m)
      BY <1>1, <1>2, <1>4 DEF ImporterTypeOK
    <3>2. IsRunning(importer.run, "publications", importer.manifest)'
      BY <2>1, <2>3, <3>1 DEF IsRunning
    <3> QED BY <1>1, <1>2, <1>4, <2>3, <3>2 DEF ImporterTypeOK
  <2>7. CommittedIsApplied'
    <3> SUFFICES ASSUME NEW w \in ToSet(m.works), w.folder \notin importer'.todo
                 PROVE  IsApplied(rows', evidence', m, w)
      BY <2>3 DEF CommittedIsApplied
    <3>1. CASE w.folder = folder
      <4>1. PICK k \in 1 .. Len(m.works) : m.works[k] = w
        BY <1>5, SeqFacts
      <4>2. IsApplied(t.rows, t.evidence, m, w)
        BY <1>6, <1>9, <3>1, <4>1 DEF AppliedSoFar
      <4> QED BY <2>1, <4>2
    <3>2. CASE w.folder # folder
      <4>1. IsApplied(rows, evidence, m, w)
        BY <1>1, <1>2, <1>4, <2>3, <3>2 DEF CommittedIsApplied
      <4> QED BY <2>2, <4>1, AppliedStays
    <3> QED BY <3>1, <3>2
  <2>8. CompletedIsApplied' /\ AppliedManifestIsWhole'
    <3>1. \A q \in DOMAIN runs' : q \in DOMAIN runs /\ runs'[q] = runs[q]
      BY <2>1
    <3>2. \A m2 \in importer'.told : m2 \in importer.told
      BY <2>3
    <3> QED BY <2>2, <3>1, <3>2, AppliedParts
  <2> QED BY <2>2, <2>4, <2>5, <2>6, <2>7, <2>8 DEF LedgerInv
<1> QED BY <1>8, <1>9

LEMMA ImportKilledStep ==
  ASSUME LedgerInv, ImportKilled
  PROVE  LedgerInv' /\ TablesKept
<1>0. TablesKept /\ rows' = rows /\ evidence' = evidence /\ runs' = runs
  BY UnchangedIsKept DEF ImportKilled
<1>1. /\ TablesTypeOK /\ ImporterTypeOK /\ ~Clashes(rows) /\ ImportNeverClashes
  BY DEF LedgerInv
<1>2. /\ DOMAIN importer' = {"pc", "manifest", "run", "todo", "told"} /\ importer'.pc = "idle"
      /\ importer'.told = importer.told
  BY DEF ImportKilled, IdleImporter
<1>3. TablesTypeOK' /\ ImportNeverClashes'
  BY <1>0, <1>1 DEF TablesTypeOK, ImportNeverClashes
<1>4. (~Clashes(rows))'
  BY <1>0, <1>1, Zenon
<1>5. ImporterTypeOK' /\ CommittedIsApplied'
  BY <1>1, <1>2 DEF ImporterTypeOK, CommittedIsApplied
<1>6. CompletedIsApplied' /\ AppliedManifestIsWhole'
  <2>1. \A q \in DOMAIN runs' : q \in DOMAIN runs /\ runs'[q] = runs[q]
    BY <1>0
  <2>2. \A m \in importer'.told : m \in importer.told
    BY <1>2
  <2> QED BY <1>0, <2>1, <2>2, AppliedParts
<1> QED BY <1>0, <1>3, <1>4, <1>5, <1>6 DEF LedgerInv

LEMMA PendingReviewStep ==
  ASSUME LedgerInv, NEW i \in DOMAIN rows, NEW d, RecordPendingReview(i, d)
  PROVE  LedgerInv' /\ TablesKept
<1>1. /\ TablesTypeOK /\ ImporterTypeOK /\ ~Clashes(rows) /\ ImportNeverClashes
      /\ CommittedIsApplied
  BY DEF LedgerInv
<1>2. PICK review : review = [disposition |-> d, by |-> "reviewer", evidence |-> << >>]
  OBVIOUS
<1>3. PICK row : row = [rows[i] EXCEPT !.review = review]
  OBVIOUS
<1>4. /\ DOMAIN row = DOMAIN rows[i] /\ row.folder = rows[i].folder
      /\ row.identity = rows[i].identity /\ row.key = rows[i].key /\ row.meta = rows[i].meta
  BY <1>1, <1>3 DEF TablesTypeOK, IsRow
<1>5. /\ rows' = [rows EXCEPT ![i] = row] /\ evidence' = evidence /\ runs' = runs
      /\ importer' = importer
  BY <1>2, <1>3 DEF RecordPendingReview
<1>6. /\ IsSeq(rows') /\ DOMAIN rows' = DOMAIN rows
      /\ \A j \in DOMAIN rows : rows'[j] = IF j = i THEN row ELSE rows[j]
  BY <1>1, <1>5, Replacing DEF TablesTypeOK
<1>7. \A j \in DOMAIN rows : /\ DOMAIN rows'[j] = DOMAIN rows[j]
                             /\ rows'[j].folder = rows[j].folder
                             /\ rows'[j].identity = rows[j].identity
                             /\ rows'[j].key = rows[j].key /\ rows'[j].meta = rows[j].meta
  BY <1>4, <1>6
<1>8. TablesKept
  <2>1. /\ Transaction.rows = rows /\ Transaction.evidence = evidence
        /\ Transaction'.rows = rows' /\ Transaction'.evidence = evidence'
    BY DEF Transaction
  <2> QED BY <1>5, <1>6, <1>7, <2>1 DEF TablesKept, Keeps
<1>9. TablesTypeOK' /\ ImportNeverClashes'
  BY <1>1, <1>5, <1>6, <1>7 DEF TablesTypeOK, ImportNeverClashes, IsRow
<1>10. (~Clashes(rows))'
  BY <1>1, <1>6, <1>7 DEF Clashes
<1>11. ImporterTypeOK'
  BY <1>1, <1>5 DEF ImporterTypeOK, IsRunning
<1>12. CommittedIsApplied'
  BY <1>1, <1>5, <1>8, AppliedStays DEF CommittedIsApplied
<1>13. CompletedIsApplied' /\ AppliedManifestIsWhole'
  <2>1. \A q \in DOMAIN runs' : q \in DOMAIN runs /\ runs'[q] = runs[q]
    BY <1>5
  <2>2. \A m \in importer'.told : m \in importer.told
    BY <1>5
  <2> QED BY <1>8, <2>1, <2>2, AppliedParts
<1> QED BY <1>8, <1>9, <1>10, <1>11, <1>12, <1>13 DEF LedgerInv

\* What the publication import leaves alone.
CitationRunsKept ==
    /\ DOMAIN runs \subseteq DOMAIN runs'
    /\ \A r \in DOMAIN runs : runs[r].kind = "citations" => runs'[r] = runs[r]
    /\ \A r \in DOMAIN runs' : runs'[r].kind = "citations" =>
          r \in DOMAIN runs /\ runs[r].kind = "citations"

LEMMA LedgerStep ==
  ASSUME LedgerInv, LedgerNext
  PROVE  LedgerInv' /\ TablesKept /\ CitationRunsKept
<1>1. TablesTypeOK /\ ImporterTypeOK
  BY DEF LedgerInv
<1>2. UNCHANGED runs => CitationRunsKept
  BY DEF CitationRunsKept
<1>3. ASSUME importer.pc = "applying", NEW status, NEW error, EndImport(status, error)
      PROVE  CitationRunsKept
  <2>1. importer.run \in DOMAIN runs /\ runs[importer.run].kind = "publications"
    BY <1>1, <1>3 DEF ImporterTypeOK, IsRunning
  <2>2. RunEnds(runs', importer.run, status, error)
    BY <1>1, <1>3, <2>1, EndedRun DEF EndImport
  <2> QED BY <2>1, <2>2 DEF RunEnds, CitationRunsKept
<1>4. ASSUME NEW m \in Manifests, StartImport(m)
      PROVE  LedgerInv' /\ TablesKept /\ CitationRunsKept
  <2>1. CASE runs' = Append(runs, NewRun("publications", m))
    <3>1. RunAdded(runs', "publications", m)
      BY <1>1, <2>1, AddedRun
    <3>2. CitationRunsKept
      BY <3>1, NewRunFacts DEF RunAdded, CitationRunsKept
    <3> QED BY <1>4, <3>2, StartImportStep
  <2>2. CASE UNCHANGED runs
    BY <1>2, <1>4, <2>2, StartImportStep
  <2> QED BY <1>4, <2>1, <2>2 DEF StartImport
<1>5. ASSUME NEW f \in Folders, ApplyApplicant(f)
      PROVE  LedgerInv' /\ TablesKept /\ CitationRunsKept
  <2>1. importer.pc = "applying" /\ (UNCHANGED runs \/ \E e : EndImport("FAILED", e))
    BY <1>5 DEF ApplyApplicant
  <2>2. CitationRunsKept
    BY <1>2, <1>3, <2>1
  <2> QED BY <1>5, <2>2, ApplyApplicantStep
<1>6. CASE CompleteImport
  <2>1. EndImport("COMPLETED", None) /\ importer.pc = "applying" /\ importer.todo = {}
        /\ UNCHANGED <<rows, evidence>>
    BY <1>6 DEF CompleteImport
  <2>2. LedgerInv' /\ TablesKept
    BY <2>1, EndImportStep, LedgerAssumption
  <2> QED BY <1>3, <2>1, <2>2
<1>7. CASE ImportFails
  <2>1. EndImport("FAILED", "fault") /\ importer.pc = "applying" /\ UNCHANGED <<rows, evidence>>
    BY <1>7 DEF ImportFails
  <2>2. LedgerInv' /\ TablesKept
    BY <2>1, EndImportStep
  <2> QED BY <1>3, <2>1, <2>2
<1>8. CASE ImportKilled
  BY <1>2, <1>8, ImportKilledStep DEF ImportKilled
<1>9. ASSUME NEW i \in DOMAIN rows, NEW d, RecordPendingReview(i, d)
      PROVE  LedgerInv' /\ TablesKept /\ CitationRunsKept
  BY <1>2, <1>9, PendingReviewStep DEF RecordPendingReview
<1> QED BY <1>4, <1>5, <1>6, <1>7, <1>8, <1>9 DEF LedgerNext

-----------------------------------------------------------------------------
(* The citation imports beside it.                                         *)

\* What a citation import may do to the runs.
PublicationRunsKept ==
    /\ IsSeq(runs')
    /\ DOMAIN runs \subseteq DOMAIN runs'
    /\ \A r \in DOMAIN runs' :
          /\ IsRun(runs'[r])
          /\ runs'[r].kind \in {"publications", "citations"}
          /\ runs'[r].error # "unique index"
          /\ runs'[r].kind = "publications" => r \in DOMAIN runs
    /\ \A r \in DOMAIN runs : runs'[r].kind = runs[r].kind
    /\ \A r \in DOMAIN runs : runs[r].kind = "publications" => runs'[r] = runs[r]

LEMMA LedgerUntouched ==
  ASSUME LedgerInv, UNCHANGED ledgerVars, PublicationRunsKept
  PROVE  LedgerInv' /\ TablesKept
<1>0. TablesKept /\ rows' = rows /\ evidence' = evidence /\ importer' = importer
  BY UnchangedIsKept DEF ledgerVars
<1>1. /\ TablesTypeOK /\ ImporterTypeOK /\ ~Clashes(rows) /\ CommittedIsApplied
  BY DEF LedgerInv
<1>2. TablesTypeOK' /\ ImportNeverClashes'
  BY <1>0, <1>1 DEF TablesTypeOK, ImportNeverClashes, PublicationRunsKept
<1>3. (~Clashes(rows))' /\ CommittedIsApplied'
  BY <1>0, <1>1 DEF Clashes, CommittedIsApplied
<1>4. ImporterTypeOK'
  BY <1>0, <1>1 DEF ImporterTypeOK, IsRunning, PublicationRunsKept
<1>5. CompletedIsApplied' /\ AppliedManifestIsWhole'
  <2>1. \A q \in DOMAIN runs' : runs'[q].kind = "publications" =>
           q \in DOMAIN runs /\ runs'[q] = runs[q]
    BY DEF PublicationRunsKept
  <2>2. \A m \in importer'.told : m \in importer.told
    BY <1>0
  <2> QED BY <1>0, <2>1, <2>2, AppliedParts
<1> QED BY <1>0, <1>2, <1>3, <1>4, <1>5 DEF LedgerInv

LEMMA RunsOfCitations ==
  ASSUME LedgerInv
  PROVE  /\ UNCHANGED runs => PublicationRunsKept
         /\ \A f : runs' = Append(runs, NewRun("citations", f)) => PublicationRunsKept
         /\ \A r \in DOMAIN runs : \A status :
               runs[r].kind = "citations" /\ runs' = [runs EXCEPT ![r].status = status] =>
                  PublicationRunsKept
<1>1. TablesTypeOK /\ ImportNeverClashes
  BY DEF LedgerInv
<1>2. UNCHANGED runs => PublicationRunsKept
  BY <1>1 DEF PublicationRunsKept, TablesTypeOK, ImportNeverClashes
<1>3. ASSUME NEW f, runs' = Append(runs, NewRun("citations", f))
      PROVE  PublicationRunsKept
  <2>1. RunAdded(runs', "citations", f)
    BY <1>1, <1>3, AddedRun
  <2>2. LET n == NewRun("citations", f) IN IsRun(n) /\ n.kind = "citations" /\ n.error = None
    BY NewRunFacts
  <2> QED BY <1>1, <2>1, <2>2, LedgerAssumption
          DEF RunAdded, PublicationRunsKept, TablesTypeOK, ImportNeverClashes
<1>4. ASSUME NEW r \in DOMAIN runs, NEW status, runs[r].kind = "citations",
             runs' = [runs EXCEPT ![r].status = status]
      PROVE  PublicationRunsKept
  <2>1. RunEnds(runs', r, status, runs[r].error)
    BY <1>1, <1>4, EndedRun
  <2> QED BY <1>1, <1>4, <2>1 DEF RunEnds, PublicationRunsKept, TablesTypeOK, ImportNeverClashes
<1> QED BY <1>2, <1>3, <1>4

LEMMA KeysStay ==
  ASSUME TablesKept
  PROVE  DOMAIN rows \subseteq DOMAIN rows' /\ \A i \in DOMAIN rows : rows'[i].key = rows[i].key
<1>1. Transaction.rows = rows /\ Transaction'.rows = rows'
  BY DEF Transaction
<1> QED BY <1>1 DEF TablesKept, Keeps

\* The observations of a completed run, one per work, each under the key of
\* its work; a property of the run, its file and the observations.
RunIsWhole(all, obs, r, run) ==
    LET mine == {o \in obs : o.run = r} IN
    IF run.status = "COMPLETED"
    THEN /\ Cardinality(mine) = Cardinality(DOMAIN run.file.payload)
         /\ \A id \in DOMAIN run.file.payload :
               Cardinality({o \in mine : all[o.row].key = id}) = 1
    ELSE mine = {}

LEMMA WholeRuns ==
  CompletedCitationRunIsWhole <=>
      \A r \in DOMAIN runs : runs[r].kind = "citations" => RunIsWhole(rows, observations, r, runs[r])
BY DEF CompletedCitationRunIsWhole, RunIsWhole

LEMMA WholeRunStays ==
  ASSUME NEW all, NEW new, NEW obs, NEW more, NEW r, NEW run, RunIsWhole(all, obs, r, run),
         \A o \in obs : o.row \in DOMAIN all,
         \A i \in DOMAIN all : new[i].key = all[i].key,
         obs \subseteq more, \A o \in more : o.run = r => o \in obs
  PROVE  RunIsWhole(new, more, r, run)
<1>1. PICK mine : mine = {o \in obs : o.run = r}
  OBVIOUS
<1>2. {o \in more : o.run = r} = mine
  BY <1>1
<1>3. ASSUME NEW id
      PROVE  {o \in mine : new[o.row].key = id} = {o \in mine : all[o.row].key = id}
  BY <1>1
<1>4. CASE run.status = "COMPLETED"
  <2>1. /\ Cardinality(mine) = Cardinality(DOMAIN run.file.payload)
        /\ \A id \in DOMAIN run.file.payload :
              Cardinality({o \in mine : all[o.row].key = id}) = 1
    BY <1>1, <1>4 DEF RunIsWhole
  <2>2. \A id \in DOMAIN run.file.payload :
           Cardinality({o \in mine : new[o.row].key = id}) = 1
    BY <1>3, <2>1
  <2> QED BY <1>2, <1>4, <2>1, <2>2 DEF RunIsWhole
<1>5. CASE run.status # "COMPLETED"
  BY <1>1, <1>2, <1>5 DEF RunIsWhole
<1> QED BY <1>4, <1>5

LEMMA CitationsUntouched ==
  ASSUME CitationTypeOK, CompletedCitationRunIsWhole, TablesKept, CitationRunsKept,
         UNCHANGED citationVars
  PROVE  CitationTypeOK' /\ CompletedCitationRunIsWhole'
<1>1. /\ queue' = queue /\ file' = file /\ citer' = citer /\ observations' = observations
  BY DEF citationVars
<1>2. DOMAIN rows \subseteq DOMAIN rows' /\ \A i \in DOMAIN rows : rows'[i].key = rows[i].key
  BY KeysStay
<1>3. CitationTypeOK'
  <2>1. citer.pc # "idle" => PlacesHold'
    BY <1>1, <1>2 DEF CitationTypeOK, PlacesHold
  <2>2. citer.pc = "importing" => IsRunning(citer.run, "citations", citer.file)'
    BY <1>1 DEF CitationTypeOK, IsRunning, CitationRunsKept
  <2>3. \A o \in observations' : o.run \in DOMAIN runs' /\ o.row \in DOMAIN rows'
    BY <1>1, <1>2 DEF CitationTypeOK, CitationRunsKept
  <2> QED BY <1>1, <2>1, <2>2, <2>3 DEF CitationTypeOK
<1>4. CompletedCitationRunIsWhole'
  <2>1. ASSUME NEW r \in DOMAIN runs', runs'[r].kind = "citations"
        PROVE  RunIsWhole(rows', observations', r, runs'[r])
    <3>1. r \in DOMAIN runs /\ runs'[r] = runs[r]
      BY <2>1 DEF CitationRunsKept
    <3>2. RunIsWhole(rows, observations, r, runs[r])
      BY <2>1, <3>1, WholeRuns
    <3>3. RunIsWhole(rows', observations, r, runs[r])
      BY <1>2, <3>2, WholeRunStays DEF CitationTypeOK
    <3> QED BY <1>1, <3>1, <3>3
  <2> QED BY <2>1 DEF CompletedCitationRunIsWhole, RunIsWhole
<1> QED BY <1>3, <1>4

\* A file of the works of a manifest has finitely many rows.
LEMMA IdsAreFinite ==
  ASSUME NEW m, IsSeq(m.works)
  PROVE  IsFiniteSet(IdsOf(m))
<1> DEFINE S == 1 .. Len(m.works)
           T == IdsOf(m)
<1>1. PICK f : f = [i \in S |-> m.works[i].id]
  OBVIOUS
<1>2. Len(m.works) \in Nat /\ DOMAIN m.works = S
      /\ \A x : x \in ToSet(m.works) <=> \E i \in S : m.works[i] = x
  BY SeqFacts
<1>3. f \in Surjection(S, T)
  <2>1. \A i \in S : f[i] \in T
    BY <1>1, <1>2 DEF IdsOf
  <2>2. \A y \in T : \E i \in S : f[i] = y
    BY <1>1, <1>2 DEF IdsOf
  <2> QED BY <1>1, <2>1, <2>2 DEF Surjection
<1>4. IsFiniteSet(S)
  BY <1>2, FS_Interval
<1> QED BY <1>3, <1>4, FS_Surjection

\* A file that resolves has a place for each of its works.
LEMMA PlacesAreFound ==
  ASSUME NEW f, Resolves(f)
  PROVE  /\ Place(f) \in [DOMAIN f.payload -> DOMAIN rows]
         /\ \A id \in DOMAIN f.payload : rows[Place(f)[id]].key = id
<1>1. ASSUME NEW id \in DOMAIN f.payload
      PROVE  Place(f)[id] \in WithKey(id)
  <2>1. WithKey(id) # {}
    BY <1>1, FS_EmptySet DEF Resolves
  <2>2. Place(f)[id] = CHOOSE i \in WithKey(id) : TRUE
    BY <1>1 DEF Place
  <2> QED BY <2>1, <2>2
<1>2. \A id : WithKey(id) \subseteq DOMAIN rows /\ \A i \in WithKey(id) : rows[i].key = id
  BY DEF WithKey
<1>3. Place(f) = [id \in DOMAIN f.payload |-> Place(f)[id]]
  BY DEF Place
<1> QED BY <1>1, <1>2, <1>3

\* The files change: the queue, a snapshot being collected or loaded.
LEMMA FilesStep ==
  ASSUME LedgerInv, CitationTypeOK, CompletedCitationRunIsWhole,
         UNCHANGED <<ledgerVars, runs, citer, observations>>,
         IsFiniteSet(DOMAIN queue'), file' # None => IsFiniteSet(DOMAIN file'.payload)
  PROVE  LedgerInv' /\ CitationTypeOK' /\ CompletedCitationRunIsWhole'
<1>1. LedgerInv'
  <2>1. PublicationRunsKept
    BY RunsOfCitations
  <2> QED BY <2>1, LedgerUntouched
<1>2. rows' = rows
  BY DEF ledgerVars
<1>3. CitationTypeOK'
  BY <1>2 DEF CitationTypeOK, PlacesHold, IsRunning
<1>4. CompletedCitationRunIsWhole'
  BY <1>2 DEF CompletedCitationRunIsWhole
<1> QED BY <1>1, <1>3, <1>4

\* The process reads, gives up or is killed: no run changes.
LEMMA CiterStep ==
  ASSUME LedgerInv, CitationTypeOK, CompletedCitationRunIsWhole,
         UNCHANGED <<ledgerVars, runs, queue, file, observations>>,
         DOMAIN citer' = {"pc", "file", "run", "place", "complete"},
         \/ citer'.pc = "idle"
         \/ /\ citer'.pc = "read"
            /\ IsFiniteSet(DOMAIN citer'.file.payload)
            /\ PlacesHold'
  PROVE  LedgerInv' /\ CitationTypeOK' /\ CompletedCitationRunIsWhole'
<1>1. LedgerInv'
  <2>1. PublicationRunsKept
    BY RunsOfCitations
  <2> QED BY <2>1, LedgerUntouched
<1>2. rows' = rows
  BY DEF ledgerVars
<1>3. CitationTypeOK'
  BY <1>2 DEF CitationTypeOK
<1>4. CompletedCitationRunIsWhole'
  BY <1>2 DEF CompletedCitationRunIsWhole
<1> QED BY <1>1, <1>3, <1>4

LEMMA StartRunStep ==
  ASSUME LedgerInv, CitationTypeOK, CompletedCitationRunIsWhole, NEW f, StartRun(f),
         UNCHANGED <<ledgerVars, queue, file, observations>>,
         DOMAIN citer' = {"pc", "file", "run", "place", "complete"},
         citer'.pc = "importing", citer'.file = f, citer'.run = Len(runs) + 1,
         IsFiniteSet(DOMAIN f.payload), PlacesHold'
  PROVE  LedgerInv' /\ CitationTypeOK' /\ CompletedCitationRunIsWhole'
<1>0. rows' = rows
  BY DEF ledgerVars
<1>1. LedgerInv'
  <2>1. PublicationRunsKept
    BY RunsOfCitations DEF StartRun
  <2> QED BY <2>1, LedgerUntouched
<1>2. RunAdded(runs', "citations", f)
  BY AddedRun DEF StartRun, LedgerInv
<1>3. /\ \A r \in DOMAIN runs : r \in DOMAIN runs' /\ runs'[r] = runs[r]
      /\ \A r \in DOMAIN runs' : r \in DOMAIN runs \/ r = Len(runs) + 1
      /\ Len(runs) + 1 \in DOMAIN runs' /\ Len(runs) + 1 \notin DOMAIN runs
      /\ LET n == runs'[Len(runs) + 1] IN
         n.kind = "citations" /\ n.file = f /\ n.status = "RUNNING"
  BY <1>2, NewRunFacts DEF RunAdded
<1>4. CitationTypeOK'
  <2>1. IsRunning(citer.run, "citations", citer.file)'
    BY <1>3 DEF IsRunning
  <2>2. \A o \in observations' : o.run \in DOMAIN runs' /\ o.row \in DOMAIN rows'
    BY <1>0, <1>3 DEF CitationTypeOK
  <2> QED BY <2>1, <2>2 DEF CitationTypeOK
<1>5. CompletedCitationRunIsWhole'
  <2>1. ASSUME NEW r \in DOMAIN runs', runs'[r].kind = "citations"
        PROVE  RunIsWhole(rows', observations', r, runs'[r])
    <3>1. CASE r \in DOMAIN runs
      BY <1>0, <1>3, <2>1, <3>1, WholeRuns
    <3>2. CASE r = Len(runs) + 1
      <4>1. {o \in observations : o.run = r} = {}
        BY <1>3, <3>2 DEF CitationTypeOK
      <4> QED BY <1>3, <3>2, <4>1 DEF RunIsWhole
    <3> QED BY <1>3, <3>1, <3>2
  <2> QED BY <2>1 DEF CompletedCitationRunIsWhole, RunIsWhole
<1> QED BY <1>1, <1>4, <1>5

\* What a transaction inserts: one observation for each work of the file.
LEMMA InsertedIsWhole ==
  ASSUME CitationTypeOK, citer.pc = "importing", NEW run, run.status = "COMPLETED",
         run.file = citer.file
  PROVE  /\ RunIsWhole(rows, Inserted, citer.run, run)
         /\ \A o \in Inserted : o.run = citer.run /\ o.row \in DOMAIN rows
<1> DEFINE S == DOMAIN citer.file.payload
           T == Inserted
<1>0. /\ IsFiniteSet(S) /\ citer.place \in [S -> DOMAIN rows]
      /\ \A id \in S : rows[citer.place[id]].key = id
  BY DEF CitationTypeOK, PlacesHold
<1>1. PICK g : g = [id \in S |-> [row |-> citer.place[id], run |-> citer.run,
                      source |-> citer.file.source, payload |-> citer.file.payload[id]]]
  OBVIOUS
<1>2. \A id \in S : /\ g[id].row = citer.place[id] /\ g[id].run = citer.run
                    /\ rows[g[id].row].key = id /\ g[id].row \in DOMAIN rows
  BY <1>0, <1>1
<1>3. T = {g[id] : id \in S}
  BY <1>1 DEF Inserted
<1>4. DOMAIN g = S
  BY <1>1
<1> HIDE DEF S, T
<1>5. g \in Bijection(S, T)
  <2>1. g \in [S -> T]
    BY <1>1, <1>3, <1>4
  <2>2. \A a, b \in S : g[a] = g[b] => a = b
    BY <1>2
  <2>3. \A o \in T : \E id \in S : g[id] = o
    BY <1>3
  <2>4. IsInjective(g)
    BY <1>4, <2>2 DEF IsInjective
  <2> QED BY <2>1, <2>3, <2>4 DEF Bijection, Injection, Surjection
<1>6. Cardinality(T) = Cardinality(S)
  <2>1. ExistsBijection(S, T)
    BY <1>5 DEF ExistsBijection
  <2> QED BY <1>0, <2>1, FS_Bijection
<1>7. \A o \in T : o.run = citer.run /\ o.row \in DOMAIN rows
  BY <1>2, <1>3
<1>8. {o \in T : o.run = citer.run} = T
  BY <1>7
<1>9. ASSUME NEW id \in S
      PROVE  Cardinality({o \in T : rows[o.row].key = id}) = 1
  <2>1. {o \in T : rows[o.row].key = id} = {g[id]}
    BY <1>2, <1>3, <1>9
  <2> QED BY <2>1, FS_Singleton
<1> QED BY <1>6, <1>7, <1>8, <1>9 DEF RunIsWhole, S, T

\* The run ends: with the observations of the whole file, or with none.
LEMMA EndRunStep ==
  ASSUME LedgerInv, CitationTypeOK, CompletedCitationRunIsWhole, citer.pc = "importing",
         NEW status, EndRun(status), citer' = IdleCiter,
         UNCHANGED <<ledgerVars, queue, file>>,
         \/ status = "FAILED" /\ observations' = observations
         \/ status = "COMPLETED" /\ observations' = observations \cup Inserted
  PROVE  LedgerInv' /\ CitationTypeOK' /\ CompletedCitationRunIsWhole'
<1>0. rows' = rows
  BY DEF ledgerVars
<1>1. PICK c : c = citer.run
  OBVIOUS
<1>2. /\ c \in DOMAIN runs /\ runs[c].kind = "citations" /\ runs[c].file = citer.file
      /\ runs[c].status = "RUNNING"
  BY <1>1 DEF CitationTypeOK, IsRunning
<1>3. runs' = [runs EXCEPT ![c].status = status]
  BY <1>1 DEF EndRun
<1>4. LedgerInv'
  <2>1. PublicationRunsKept
    BY <1>2, <1>3, RunsOfCitations
  <2> QED BY <2>1, LedgerUntouched
<1>5. RunEnds(runs', c, status, runs[c].error)
  BY <1>2, <1>3, EndedRun DEF LedgerInv
<1>6. /\ DOMAIN runs' = DOMAIN runs /\ \A r \in DOMAIN runs : r # c => runs'[r] = runs[r]
      /\ runs'[c].kind = "citations" /\ runs'[c].file = citer.file /\ runs'[c].status = status
  BY <1>2, <1>5 DEF RunEnds
<1>7. \A o \in observations : o.run \in DOMAIN runs /\ o.row \in DOMAIN rows
  BY DEF CitationTypeOK
<1>8. {o \in observations : o.run = c} = {}
  <2>1. RunIsWhole(rows, observations, c, runs[c])
    BY <1>2, WholeRuns
  <2> QED BY <1>2, <2>1 DEF RunIsWhole
<1>9. \A o \in Inserted : o.run = c /\ o.row \in DOMAIN rows
  <2>1. PICK run : run = [status |-> "COMPLETED", file |-> citer.file]
    OBVIOUS
  <2>2. run.status = "COMPLETED" /\ run.file = citer.file
    BY <2>1
  <2> QED BY <1>1, <2>2, InsertedIsWhole
<1>10. CitationTypeOK'
  <2>1. \A o \in observations' : o.run \in DOMAIN runs' /\ o.row \in DOMAIN rows'
    BY <1>0, <1>2, <1>6, <1>7, <1>9
  <2>2. DOMAIN citer' = {"pc", "file", "run", "place", "complete"} /\ citer'.pc = "idle"
    BY DEF IdleCiter
  <2> QED BY <2>1, <2>2 DEF CitationTypeOK
<1>11. ASSUME NEW r \in DOMAIN runs', runs'[r].kind = "citations"
       PROVE  RunIsWhole(rows', observations', r, runs'[r])
  <2>1. CASE r # c
    <3>1. r \in DOMAIN runs /\ runs'[r] = runs[r]
      BY <1>6, <2>1
    <3>2. RunIsWhole(rows, observations, r, runs[r])
      BY <1>11, <3>1, WholeRuns
    <3>3. observations \subseteq observations' /\ \A o \in observations' : o.run = r => o \in observations
      BY <1>9, <2>1
    <3>4. RunIsWhole(rows, observations', r, runs[r])
      BY <1>7, <3>2, <3>3, WholeRunStays
    <3> QED BY <1>0, <3>1, <3>4
  <2>2. CASE r = c /\ status = "FAILED"
    BY <1>6, <1>8, <2>2 DEF RunIsWhole
  <2>3. CASE r = c /\ status = "COMPLETED"
    <3>1. observations' = observations \cup Inserted
      BY <2>3
    <3>2. RunIsWhole(rows, Inserted, c, runs'[c])
      BY <1>1, <1>6, <2>3, InsertedIsWhole
    <3>3. Inserted \subseteq observations' /\ \A o \in observations' : o.run = c => o \in Inserted
      BY <1>8, <3>1
    <3>4. RunIsWhole(rows, observations', c, runs'[c])
      BY <1>9, <3>2, <3>3, WholeRunStays
    <3> QED BY <1>0, <2>3, <3>4
  <2> QED BY <2>1, <2>2, <2>3
<1>12. CompletedCitationRunIsWhole'
  BY <1>11 DEF CompletedCitationRunIsWhole, RunIsWhole
<1> QED BY <1>4, <1>10, <1>12

-----------------------------------------------------------------------------
(* The collector and the loader.                                           *)

\* What a match stands for.
LEMMA MatchFacts ==
  ASSUME NEW source, NEW work, NEW record, NEW match, match = Match(source, work, record),
         match # None, WellFormed(match.record)
  PROVE  MatchIsEvidenced(source, work, match)
<1>1. /\ record \in Records /\ MatchMethod(work, record) # None /\ record.title # None
      /\ match.method = MatchMethod(work, record) /\ match.record = record
  BY DEF Match
<1>2. PICK method : method = MatchMethod(work, record)
  OBVIOUS
<1>3. \/ method = "DOI_EXACT" /\ record.doi = work.meta.doi
      \/ method = "TITLE_EXACT" /\ record.title = work.meta.title /\ record.mine
      \/ /\ method = "RAW_CITATION_EXACT" /\ record.mine
         /\ \E o \in work.occurrences : record.title \in Titles[o.cite]
  BY <1>1, <1>2 DEF MatchMethod, NamesApplicant
<1>4. record.mine => record.authors
  BY <1>1, RecordsAssumption
<1> QED BY <1>1, <1>2, <1>3, <1>4 DEF MatchIsEvidenced, WellFormed

LEMMA RowOfMatchLoads ==
  ASSUME NEW source, NEW work, NEW match, NEW key, NEW row,
         row = Row(source, work, match, key),
         match # None => WellFormed(match.record) /\ MatchIsEvidenced(source, work, match)
  PROVE  RowLoads(source, work, row)
<1>1. /\ row.meta = work.meta /\ row.match = match
      /\ row.status = IF match = None THEN "NOT_FOUND" ELSE "OBSERVED"
      /\ row.annual = IF match = None THEN "none" ELSE AnnualCounts(source, match.record, key)
      /\ row.journal = IF match = None \/ source # "OPENALEX" THEN None ELSE match.record.journal
  BY DEF Row
<1>2. row.annual # "before 1900"
  BY <1>1 DEF AnnualCounts, WellFormed
<1>3. JournalIsEvidenced(source, row)
  BY <1>1 DEF JournalIsEvidenced, WellFormed
<1> QED BY <1>1, <1>2, <1>3 DEF RowLoads

\* A row the collector writes from a well-formed record loads.
LEMMA CollectedRowLoads ==
  ASSUME NEW source, NEW work, NEW answer, NEW key, NEW row,
         row = Collected(source, work, answer, key), row # None,
         row.match # None => WellFormed(row.match.record)
  PROVE  RowLoads(source, work, row)
<1> DEFINE asked == Asked(source, work, answer)
           hits == {i \in DOMAIN asked : Match(source, work, asked[i]) # None}
           found == IF hits = {} THEN None ELSE Match(source, work, asked[CHOOSE i \in hits : TRUE])
<1>1. row = Row(source, work, found, key)
  BY DEF Collected
<1>2. PICK match : match = found
  OBVIOUS
<1>3. match # None => \E record : match = Match(source, work, record)
  <2> HIDE DEF asked
  <2> QED BY <1>2
<1> HIDE DEF found
<1>4. row = Row(source, work, match, key)
  BY <1>1, <1>2
<1>5. row.match = match
  BY <1>4 DEF Row
<1>6. match # None => WellFormed(match.record) /\ MatchIsEvidenced(source, work, match)
  BY <1>3, <1>5, MatchFacts
<1> QED BY <1>4, <1>6, RowOfMatchLoads

LEMMA RowNamesWork ==
  ASSUME NEW source, NEW work, NEW answer, NEW key, NEW row,
         row = Collected(source, work, answer, key), row # None
  PROVE  row.work = work.id
<1>1. \E match : row = Row(source, work, match, key)
  BY DEF Collected
<1> QED BY <1>1 DEF Row

\* The rows of a snapshot follow the works, and load.
RowsLoad(rs, source, works) ==
    \A i \in DOMAIN rs :
        /\ rs[i].work = works[i].id
        /\ (rs[i].match # None => WellFormed(rs[i].match.record)) =>
              RowLoads(source, works[i], rs[i])

LEMMA CollectWorkStep ==
  ASSUME CollectionInv, NEW answer, CollectWork(answer)
  PROVE  CollectionInv'
<1> DEFINE works == snapshot.manifest.works
           rs == snapshot.rows
           k == Len(rs) + 1
           row == Collected(snapshot.source, works[k], answer, snapshot.key)
<1>1. /\ snapshot # None /\ Len(rs) # Len(works)
      /\ snapshot' = IF row = None THEN None ELSE [snapshot EXCEPT !.rows = Append(@, row)]
  BY DEF CollectWork, Whole
<1>2. /\ DOMAIN snapshot = {"manifest", "source", "key", "rows"} /\ IsSeq(works) /\ IsSeq(rs)
      /\ Len(rs) <= Len(works)
  BY <1>1 DEF CollectionInv
<1>3. RowsLoad(rs, snapshot.source, works)
  BY <1>1 DEF CollectionInv, RowsLoad
<1>4. Len(rs) \in Nat /\ DOMAIN rs = 1 .. Len(rs) /\ Len(works) \in Nat
  BY <1>2, SeqFacts
<1>5. CASE row = None
  BY <1>1, <1>5 DEF CollectionInv
<1>6. CASE row # None
  <2> HIDE DEF row
  <2>1. PICK new : new = Append(rs, row)
    OBVIOUS
  <2>2. /\ DOMAIN snapshot' = DOMAIN snapshot /\ snapshot'.manifest = snapshot.manifest
        /\ snapshot'.source = snapshot.source /\ snapshot'.rows = new
    BY <1>1, <1>2, <1>6, <2>1
  <2>3. /\ IsSeq(new) /\ Len(new) = k /\ DOMAIN new = 1 .. k
        /\ \A i \in 1 .. Len(rs) : new[i] = rs[i]
        /\ new[k] = row
    BY <1>2, <2>1, Appending
  <2>4. Len(new) <= Len(works)
    BY <1>1, <1>2, <1>4, <2>3
  <2>5. RowsLoad(new, snapshot.source, works)
    <3> SUFFICES ASSUME NEW i \in DOMAIN new
                 PROVE  /\ new[i].work = works[i].id
                        /\ (new[i].match # None => WellFormed(new[i].match.record)) =>
                              RowLoads(snapshot.source, works[i], new[i])
      BY DEF RowsLoad
    <3>1. CASE i = k
      <4>1. row.work = works[k].id
        BY <1>6, RowNamesWork DEF row
      <4>2. (row.match # None => WellFormed(row.match.record)) =>
               RowLoads(snapshot.source, works[k], row)
        BY <1>6, CollectedRowLoads DEF row
      <4> QED BY <2>3, <3>1, <4>1, <4>2
    <3>2. CASE i \in DOMAIN rs
      BY <1>3, <1>4, <2>3, <3>2 DEF RowsLoad
    <3> QED BY <1>4, <2>3, <3>1, <3>2
  <2> QED BY <1>2, <2>2, <2>3, <2>4, <2>5 DEF CollectionInv, RowsLoad
<1> QED BY <1>5, <1>6

LEMMA StartCollectionStep ==
  ASSUME NEW m \in Manifests, NEW s, NEW key, StartCollection(m, s, key)
  PROVE  CollectionInv'
<1>1. snapshot' = [manifest |-> m, source |-> s, key |-> key, rows |-> << >>]
  BY DEF StartCollection
<1>2. IsSeq(m.works) /\ Len(m.works) \in Nat
  BY LedgerAssumption, SeqFacts
<1>3. IsSeq(<< >>) /\ Len(<< >>) = 0 /\ DOMAIN << >> = {}
  BY EmptyIsSeq
<1>4. /\ DOMAIN snapshot' = {"manifest", "source", "key", "rows"} /\ snapshot'.manifest = m
      /\ snapshot'.rows = << >>
  BY <1>1
<1> QED BY <1>2, <1>3, <1>4 DEF CollectionInv

LEMMA SnapshotsLoad ==
  ASSUME CollectionInv
  PROVE  CollectedSnapshotLoads
<1> SUFFICES ASSUME Whole(snapshot),
                    \A i \in DOMAIN snapshot.rows :
                        snapshot.rows[i].match # None => WellFormed(snapshot.rows[i].match.record)
             PROVE  SnapshotLoads(snapshot, snapshot.manifest)
  BY DEF CollectedSnapshotLoads
<1> DEFINE works == snapshot.manifest.works
           rs == snapshot.rows
<1>1. /\ snapshot # None /\ Len(rs) = Len(works)
  BY DEF Whole
<1>2. /\ IsSeq(works) /\ IsSeq(rs)
      /\ \A i \in DOMAIN rs : rs[i].work = works[i].id /\ RowLoads(snapshot.source, works[i], rs[i])
  BY <1>1 DEF CollectionInv
<1>3. /\ DOMAIN rs = DOMAIN works
      /\ \A x : x \in ToSet(works) <=> \E i \in DOMAIN works : works[i] = x
  BY <1>1, <1>2, SeqFacts
<1>4. {rs[i].work : i \in DOMAIN rs} = {w.id : w \in ToSet(works)}
  BY <1>2, <1>3
<1> QED BY <1>2, <1>3, <1>4 DEF SnapshotLoads

-----------------------------------------------------------------------------
(* The specification.                                                      *)

LEMMA PublicationsInit == Init => PublicationsInv
<1> SUFFICES ASSUME Init PROVE PublicationsInv
  OBVIOUS
<1>1. /\ rows = << >> /\ runs = << >> /\ importer = IdleImporter({}) /\ snapshot = None
      /\ queue = << >> /\ file = None /\ citer = IdleCiter /\ observations = {}
  BY DEF Init, LedgerInit
<1>2. IsSeq(<< >>) /\ DOMAIN << >> = {}
  BY EmptyIsSeq
<1>3. /\ DOMAIN importer = {"pc", "manifest", "run", "todo", "told"} /\ importer.pc = "idle"
      /\ importer.told = {}
  BY <1>1 DEF IdleImporter
<1>4. DOMAIN citer = {"pc", "file", "run", "place", "complete"} /\ citer.pc = "idle"
  BY <1>1 DEF IdleCiter
<1>5. LedgerInv
  <2>1. TablesTypeOK /\ ~Clashes(rows) /\ ImportNeverClashes /\ CompletedIsApplied
    BY <1>1, <1>2 DEF TablesTypeOK, Clashes, ImportNeverClashes, CompletedIsApplied
  <2>2. ImporterTypeOK /\ CommittedIsApplied /\ AppliedManifestIsWhole
    BY <1>3 DEF ImporterTypeOK, CommittedIsApplied, AppliedManifestIsWhole
  <2> QED BY <2>1, <2>2 DEF LedgerInv
<1>6. CitationTypeOK
  BY <1>1, <1>2, <1>4, FS_EmptySet DEF CitationTypeOK
<1>7. CollectionInv /\ CompletedCitationRunIsWhole
  BY <1>1, <1>2 DEF CollectionInv, CompletedCitationRunIsWhole
<1> QED BY <1>5, <1>6, <1>7 DEF PublicationsInv

LEMMA FilesActionStep ==
  ASSUME PublicationsInv,
         \/ \E m \in Manifests : WriteQueue(m) \/ LoadSnapshot(m)
         \/ \E id \in DOMAIN queue, s \in {"OBSERVED", "NOT_FOUND"} : FillQueue(id, s)
         \/ Collection
  PROVE  PublicationsInv'
<1>0. LedgerInv /\ CollectionInv /\ CitationTypeOK /\ CompletedCitationRunIsWhole
  BY DEF PublicationsInv
<1>1. IsFiniteSet(DOMAIN queue) /\ (file # None => IsFiniteSet(DOMAIN file.payload))
  BY <1>0 DEF CitationTypeOK
<1>2. snapshot' \in {snapshot, None} => CollectionInv'
  BY <1>0 DEF CollectionInv
<1>3. ASSUME UNCHANGED <<ledgerVars, runs, citer, observations>>, CollectionInv',
             IsFiniteSet(DOMAIN queue'), file' # None => IsFiniteSet(DOMAIN file'.payload)
      PROVE  PublicationsInv'
  BY <1>0, <1>3, FilesStep DEF PublicationsInv
<1>4. ASSUME NEW m \in Manifests, WriteQueue(m)
      PROVE  PublicationsInv'
  <2>1. /\ DOMAIN queue' = IdsOf(m) /\ file' = file /\ snapshot' = snapshot
        /\ UNCHANGED <<ledgerVars, runs, citer, observations>>
    BY <1>4 DEF WriteQueue
  <2>2. IsFiniteSet(IdsOf(m))
    BY LedgerAssumption, IdsAreFinite
  <2> QED BY <1>1, <1>2, <1>3, <2>1, <2>2
<1>5. ASSUME NEW m \in Manifests, LoadSnapshot(m)
      PROVE  PublicationsInv'
  <2>1. /\ UNCHANGED <<ledgerVars, runs, citer, observations>> /\ queue' = queue
        /\ snapshot' = None
        /\ file' = file \/ DOMAIN file'.payload = IdsOf(m)
    BY <1>5 DEF LoadSnapshot
  <2>2. IsFiniteSet(IdsOf(m))
    BY LedgerAssumption, IdsAreFinite
  <2> QED BY <1>1, <1>2, <1>3, <2>1, <2>2
<1>6. ASSUME NEW id \in DOMAIN queue, NEW s, FillQueue(id, s)
      PROVE  PublicationsInv'
  <2>1. /\ DOMAIN queue' = DOMAIN queue /\ file' = file /\ snapshot' = snapshot
        /\ UNCHANGED <<ledgerVars, runs, citer, observations>>
    BY <1>6 DEF FillQueue
  <2> QED BY <1>1, <1>2, <1>3, <2>1
<1>7. CASE Collection
  <2>1. /\ UNCHANGED <<ledgerVars, runs, citer, observations>> /\ queue' = queue /\ file' = file
    BY <1>7 DEF Collection
  <2>2. CollectionInv'
    BY <1>0, <1>7, StartCollectionStep, CollectWorkStep DEF Collection
  <2> QED BY <1>1, <1>3, <2>1, <2>2
<1> QED BY <1>4, <1>5, <1>6, <1>7

LEMMA CitationActionStep ==
  ASSUME PublicationsInv,
         \/ \E m \in Manifests : StartScholar(m)
         \/ OpenRead \/ OpenReuse \/ OpenStart \/ CitationCommit \/ CitationFails \/ CitationKilled
  PROVE  PublicationsInv'
<1>0. LedgerInv /\ CollectionInv /\ CitationTypeOK /\ CompletedCitationRunIsWhole
  BY DEF PublicationsInv
<1>1. snapshot' = snapshot
  BY DEF StartScholar, OpenRead, OpenReuse, OpenStart, CitationCommit, CitationFails, CitationKilled
<1>2. CollectionInv'
  BY <1>0, <1>1 DEF CollectionInv
<1>3. SUFFICES LedgerInv' /\ CitationTypeOK' /\ CompletedCitationRunIsWhole'
  BY <1>2 DEF PublicationsInv
<1>4. DOMAIN IdleCiter = {"pc", "file", "run", "place", "complete"} /\ IdleCiter.pc = "idle"
  BY DEF IdleCiter
<1>5. ASSUME NEW m \in Manifests, StartScholar(m)
      PROVE  LedgerInv' /\ CitationTypeOK' /\ CompletedCitationRunIsWhole'
  <2>1. PICK f : f = [source |-> "GOOGLE_SCHOLAR", payload |-> queue]
    OBVIOUS
  <2>2. /\ Resolves(f) /\ StartRun(f) /\ UNCHANGED <<ledgerVars, queue, file, observations>>
        /\ citer' = [pc |-> "importing", file |-> f, run |-> Len(runs) + 1, place |-> Place(f),
                     complete |-> FALSE]
    BY <1>5, <2>1 DEF StartScholar
  <2>3. /\ DOMAIN citer' = {"pc", "file", "run", "place", "complete"} /\ citer'.pc = "importing"
        /\ citer'.file = f /\ citer'.run = Len(runs) + 1 /\ citer'.place = Place(f)
    BY <2>2
  <2>4. IsFiniteSet(DOMAIN f.payload)
    BY <1>0, <2>1 DEF CitationTypeOK
  <2>5. PlacesHold'
    BY <2>2, <2>3, PlacesAreFound DEF PlacesHold, ledgerVars
  <2> QED BY <1>0, <2>2, <2>3, <2>4, <2>5, StartRunStep
<1>6. CASE OpenRead
  <2>1. /\ file # None /\ Resolves(file) /\ UNCHANGED <<ledgerVars, runs, queue, file, observations>>
        /\ citer' = [IdleCiter EXCEPT !.pc = "read", !.file = file, !.place = Place(file),
                                      !.complete = CutoffIsComplete(file)]
    BY <1>6 DEF OpenRead
  <2>2. /\ DOMAIN citer' = {"pc", "file", "run", "place", "complete"} /\ citer'.pc = "read"
        /\ citer'.file = file /\ citer'.place = Place(file)
    BY <1>4, <2>1
  <2>3. IsFiniteSet(DOMAIN file.payload)
    BY <1>0, <2>1 DEF CitationTypeOK
  <2>4. PlacesHold'
    BY <2>1, <2>2, PlacesAreFound DEF PlacesHold, ledgerVars
  <2> QED BY <1>0, <2>1, <2>2, <2>3, <2>4, CiterStep
<1>7. CASE OpenReuse
  <2>1. citer' = IdleCiter /\ UNCHANGED <<ledgerVars, runs, queue, file, observations>>
    BY <1>7 DEF OpenReuse
  <2> QED BY <1>0, <1>4, <2>1, CiterStep
<1>8. CASE CitationKilled
  <2>1. citer' = IdleCiter /\ UNCHANGED <<ledgerVars, runs, queue, file, observations>>
    BY <1>8 DEF CitationKilled
  <2> QED BY <1>0, <1>4, <2>1, CiterStep
<1>9. CASE OpenStart
  <2>1. PICK f : f = citer.file
    OBVIOUS
  <2>2. /\ citer.pc = "read" /\ StartRun(f) /\ UNCHANGED <<ledgerVars, queue, file, observations>>
        /\ citer' = [citer EXCEPT !.pc = "importing", !.run = Len(runs) + 1]
    BY <1>9, <2>1 DEF OpenStart
  <2>3. /\ DOMAIN citer' = {"pc", "file", "run", "place", "complete"} /\ citer'.pc = "importing"
        /\ citer'.file = f /\ citer'.run = Len(runs) + 1 /\ citer'.place = citer.place
    BY <1>0, <2>1, <2>2 DEF CitationTypeOK
  <2>4. IsFiniteSet(DOMAIN f.payload) /\ PlacesHold
    BY <1>0, <2>1, <2>2 DEF CitationTypeOK
  <2>5. PlacesHold'
    BY <2>1, <2>2, <2>3, <2>4 DEF PlacesHold, ledgerVars
  <2> QED BY <1>0, <2>2, <2>3, <2>4, <2>5, StartRunStep
<1>10. CASE CitationFails
  <2>1. /\ citer.pc = "importing" /\ EndRun("FAILED") /\ observations' = observations
        /\ citer' = IdleCiter /\ UNCHANGED <<ledgerVars, queue, file>>
    BY <1>10 DEF CitationFails, Fails, RolledBack
  <2> QED BY <1>0, <2>1, EndRunStep
<1>11. CASE CitationCommit
  <2>1. /\ citer.pc = "importing" /\ citer' = IdleCiter /\ UNCHANGED <<ledgerVars, queue, file>>
        /\ \/ EndRun("FAILED") /\ observations' = observations
           \/ EndRun("COMPLETED") /\ observations' = observations \cup Inserted
    BY <1>11 DEF CitationCommit, Fails, RolledBack
  <2> QED BY <1>0, <2>1, EndRunStep
<1> QED BY <1>5, <1>6, <1>7, <1>8, <1>9, <1>10, <1>11

LEMMA PublicationsStep ==
  ASSUME PublicationsInv, [Next]_vars
  PROVE  PublicationsInv'
<1>0. LedgerInv /\ CollectionInv /\ CitationTypeOK /\ CompletedCitationRunIsWhole
  BY DEF PublicationsInv
<1>1. CASE FilesReady /\ LedgerNext /\ UNCHANGED citationVars
  <2>1. LedgerInv' /\ TablesKept /\ CitationRunsKept
    BY <1>0, <1>1, LedgerStep
  <2>2. CitationTypeOK' /\ CompletedCitationRunIsWhole'
    BY <1>0, <1>1, <2>1, CitationsUntouched
  <2>3. CollectionInv'
    BY <1>0, <1>1 DEF CollectionInv, citationVars
  <2> QED BY <2>1, <2>2, <2>3 DEF PublicationsInv
<1>2. CASE UNCHANGED vars
  <2>1. /\ UNCHANGED <<ledgerVars, runs, citer, observations>> /\ queue' = queue /\ file' = file
        /\ snapshot' = snapshot
    BY <1>2 DEF vars, citationVars
  <2>2. IsFiniteSet(DOMAIN queue') /\ (file' # None => IsFiniteSet(DOMAIN file'.payload))
    BY <1>0, <2>1 DEF CitationTypeOK
  <2>3. CollectionInv'
    BY <1>0, <2>1 DEF CollectionInv
  <2> QED BY <1>0, <2>1, <2>2, <2>3, FilesStep DEF PublicationsInv
<1> QED BY <1>1, <1>2, FilesActionStep, CitationActionStep DEF Next

\* The inductive invariant of the publication and citation imports
\* (publications.py, open_citation_collector.py, open_citations.py,
\* scholar_reviews.py), for any manifests, records, folders and bounds.
THEOREM PublicationsHold == Spec => []PublicationsInv
<1>1. PublicationsInv /\ [Next]_vars => PublicationsInv'
  BY PublicationsStep
<1> QED BY PublicationsInit, <1>1, PTL DEF Spec

\* No import ever meets a unique index, however manifests correct each other:
\* _find_publication looks for the DOI before it inserts or fills one in.
THEOREM ImportsNeverClash == Spec => []ImportNeverClashes
<1>1. PublicationsInv => ImportNeverClashes
  BY DEF PublicationsInv, LedgerInv
<1> QED BY <1>1, PublicationsHold, PTL

\* A manifest an operator was told is applied is applied to its last work,
\* although its import was one transaction per applicant and runs before it
\* failed or were killed (SqlPublicationRepository.apply).
THEOREM AppliedManifestsAreWhole == Spec => []AppliedManifestIsWhole
<1>1. PublicationsInv => AppliedManifestIsWhole
  BY DEF PublicationsInv, LedgerInv
<1> QED BY <1>1, PublicationsHold, PTL

\* Whatever the services answer, a snapshot collected from well-formed records
\* passes the loader's checks of the same manifest.
THEOREM CollectedSnapshotsLoad == Spec => []CollectedSnapshotLoads
<1>1. PublicationsInv => CollectedSnapshotLoads
  BY SnapshotsLoad DEF PublicationsInv
<1> QED BY <1>1, PublicationsHold, PTL

\* A citation run that is COMPLETED has one observation per work of its file,
\* under the publication of that work, however publications are corrected
\* later; any other run has none.
THEOREM CitationRunsAreWhole == Spec => []CompletedCitationRunIsWhole
<1>1. PublicationsInv => CompletedCitationRunIsWhole
  BY DEF PublicationsInv
<1> QED BY <1>1, PublicationsHold, PTL

LEMMA CutoffCounts ==
  ASSUME NEW all, NEW run, CutoffHolds(all, run), NEW i \in Eligible
  PROVE  Cardinality({o \in all : o.run = run /\ o.row = i /\ o.payload.status = "OBSERVED"}) = 1
<1>1. PICK found : found = {o \in all : o.run = run /\ o.row = i}
  OBVIOUS
<1>2. Cardinality(found) = 1 /\ \A o \in found : o.payload.status = "OBSERVED"
  BY <1>1 DEF CutoffHolds
<1>3. {o \in all : o.run = run /\ o.row = i /\ o.payload.status = "OBSERVED"} = found
  BY <1>1, <1>2
<1> QED BY <1>2, <1>3

\* A run becomes the cutoff only at a moment at which every eligible
\* publication has exactly one observed count in it: the procedure counts
\* again inside the transaction (dbo.ActivateCitationMetricCutoffRun).
THEOREM ActivatedCutoffsAreComplete == Spec => ActivatedCutoffIsComplete
<1> DEFINE Complete_ == \A run \in cutoffs' \ cutoffs : \A i \in Eligible :
              Cardinality({o \in observations' : o.run = run /\ o.row = i
                                                 /\ o.payload.status = "OBSERVED"}) = 1
<1>1. ASSUME Next PROVE Complete_
  <2>1. CASE cutoffs' = cutoffs
    BY <2>1
  <2>2. CASE OpenReuse
    <3>1. PICK run : \/ cutoffs' = cutoffs
                     \/ cutoffs' = cutoffs \cup {run} /\ CutoffHolds(observations, run)
      BY <2>2 DEF OpenReuse
    <3>2. observations' = observations
      BY <2>2 DEF OpenReuse
    <3> QED BY <3>1, <3>2, CutoffCounts
  <2>3. CASE CitationCommit
    <3>1. \/ cutoffs' = cutoffs
          \/ /\ cutoffs' = cutoffs \cup {citer.run} /\ observations' = observations \cup Inserted
             /\ CutoffHolds(observations \cup Inserted, citer.run)
      BY <2>3 DEF CitationCommit, Fails
    <3> QED BY <3>1, CutoffCounts
  <2>4. \/ cutoffs' = cutoffs \/ OpenReuse \/ CitationCommit
    BY <1>1 DEF Next, citationVars, WriteQueue, StartScholar, LoadSnapshot, FillQueue, Collection,
                OpenRead, OpenStart, CitationFails, Fails, CitationKilled
  <2> QED BY <2>1, <2>2, <2>3, <2>4
<1>2. [Next]_vars => [Complete_]_vars
  BY <1>1
<1> QED BY <1>2, PTL DEF Spec, ActivatedCutoffIsComplete
=============================================================================
