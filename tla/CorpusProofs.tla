---------------------------- MODULE CorpusProofs ----------------------------
(***************************************************************************)
(* Proofs about the publication corpus, for any documents, entries,        *)
(* answers of Crossref and base manifests: what the line reader makes of a *)
(* document keeps its section, and the reconciliation only adds.           *)
(***************************************************************************)
EXTENDS PublicationReconciliation, WellFoundedInduction, FiniteSetTheorems, TLAPS

-----------------------------------------------------------------------------
(* Numbers and sequences.                                                  *)

\* Induction over the natural numbers, for a set of them.
LEMMA Counting ==
  ASSUME NEW S, 0 \in S, \A n \in Nat : n \in S => n + 1 \in S
  PROVE  Nat \subseteq S
<1> DEFINE T == Nat \ S
<1> DEFINE R == OpToRel(<, Nat)
<1> SUFFICES ASSUME T # {} PROVE FALSE
  OBVIOUS
<1>1. IsWellFoundedOn(R, Nat)
  BY NatLessThanWellFounded
<1>2. T \subseteq Nat
  OBVIOUS
<1>3. \E x \in T : \A y \in T : ~(<<y, x>> \in R)
  <2> HIDE DEF T, R
  <2> QED BY <1>1, <1>2, WFMin
<1>4. PICK x \in T : \A y \in T : ~(<<y, x>> \in R)
  BY <1>3
<1>5. x \in Nat /\ x # 0 /\ x - 1 \in Nat /\ x - 1 \in T
  OBVIOUS
<1>6. <<x - 1, x>> \in R
  BY <1>5 DEF OpToRel
<1> QED BY <1>4, <1>5, <1>6

LEMMA Least ==
  ASSUME NEW T, T \subseteq Nat, T # {}
  PROVE  \E x \in T : \A y \in T : x <= y
<1> SUFFICES ASSUME \A x \in T : \E y \in T : ~(x <= y) PROVE FALSE
  OBVIOUS
<1> DEFINE S == {n \in Nat : \A m \in 0 .. n : m \notin T}
<1>1. 0 \in S
  <2>1. ASSUME 0 \in T PROVE FALSE
    <3>1. PICK y \in T : ~(0 <= y)
      BY <2>1
    <3> QED BY <3>1
  <2>2. 0 .. 0 = {0}
    OBVIOUS
  <2> QED BY <2>1, <2>2
<1>2. ASSUME NEW n \in Nat, n \in S PROVE n + 1 \in S
  <2>1. n + 1 \notin T
    <3> SUFFICES ASSUME n + 1 \in T PROVE FALSE
      OBVIOUS
    <3>1. PICK y \in T : ~(n + 1 <= y)
      OBVIOUS
    <3>2. y \in 0 .. n
      BY <3>1
    <3> QED BY <1>2, <3>2
  <2>2. \A m \in 0 .. n + 1 : m \in 0 .. n \/ m = n + 1
    OBVIOUS
  <2> QED BY <1>2, <2>1, <2>2
<1>3. Nat \subseteq S
  <2> HIDE DEF S
  <2> QED BY <1>1, <1>2, Counting
<1>4. PICK t \in T : TRUE
  OBVIOUS
<1>5. t \in Nat /\ t \in S /\ t \in 0 .. t
  BY <1>3, <1>4
<1> QED BY <1>4, <1>5

LEMMA SeqFacts ==
  ASSUME NEW s, IsSeq(s)
  PROVE  /\ Len(s) \in Nat
         /\ DOMAIN s = 1 .. Len(s)
         /\ \A x : x \in ToSet(s) <=> \E i \in DOMAIN s : s[i] = x
<1>1. PICK S : S = ToSet(s)
  OBVIOUS
<1>2. s \in Seq(S)
  BY <1>1 DEF IsSeq
<1>3. Len(s) \in Nat /\ DOMAIN s = 1 .. Len(s)
  BY <1>2
<1> QED BY <1>3 DEF ToSet

LEMMA EmptyIsSeq == IsSeq(<< >>) /\ Len(<< >>) = 0 /\ DOMAIN << >> = {}
BY DEF IsSeq

\* Append keeps what a sequence holds and adds one element.
LEMMA Appending ==
  ASSUME NEW s, IsSeq(s), NEW x
  PROVE  /\ IsSeq(Append(s, x))
         /\ Len(Append(s, x)) = Len(s) + 1
         /\ DOMAIN Append(s, x) = 1 .. Len(s) + 1
         /\ \A i \in 1 .. Len(s) : Append(s, x)[i] = s[i]
         /\ Append(s, x)[Len(s) + 1] = x
<1>1. PICK S : S = ToSet(s) \cup {x}
  OBVIOUS
<1>2. s \in Seq(S)
  <2>1. s \in Seq(ToSet(s)) /\ ToSet(s) \subseteq S
    BY <1>1 DEF IsSeq
  <2> QED BY <2>1
<1>3. /\ Append(s, x) \in Seq(S)
      /\ Len(Append(s, x)) = Len(s) + 1
      /\ DOMAIN Append(s, x) = 1 .. Len(s) + 1
      /\ \A i \in 1 .. Len(s) : Append(s, x)[i] = s[i]
      /\ Append(s, x)[Len(s) + 1] = x
  BY <1>1, <1>2
<1>4. S = ToSet(Append(s, x))
  <2>1. \A y : y \in ToSet(s) <=> \E i \in 1 .. Len(s) : s[i] = y
    BY SeqFacts
  <2>2. \A y : y \in ToSet(Append(s, x)) <=> \E i \in 1 .. Len(s) + 1 : Append(s, x)[i] = y
    BY <1>3 DEF ToSet
  <2>3. Len(s) \in Nat
    BY SeqFacts
  <2>4. PICK u : u = Append(s, x)
    OBVIOUS
  <2>5. PICK T : T = ToSet(s)
    OBVIOUS
  <2>6. PICK U : U = ToSet(u)
    OBVIOUS
  <2>7. \A i \in 1 .. Len(s) : u[i] = s[i]
    BY <1>3, <2>4
  <2>8. \A y : y \in U <=> y \in T \/ y = x
    BY <1>3, <2>1, <2>2, <2>3, <2>4, <2>5, <2>6, <2>7
  <2> QED BY <1>1, <2>4, <2>5, <2>6, <2>8
<1> QED BY <1>3, <1>4 DEF IsSeq

\* So does an update of one element.
LEMMA Replacing ==
  ASSUME NEW s, IsSeq(s), NEW n \in DOMAIN s, NEW x
  PROVE  /\ IsSeq([s EXCEPT ![n] = x])
         /\ Len([s EXCEPT ![n] = x]) = Len(s)
         /\ DOMAIN [s EXCEPT ![n] = x] = DOMAIN s
         /\ \A i \in DOMAIN s : [s EXCEPT ![n] = x][i] = IF i = n THEN x ELSE s[i]
<1>1. PICK S : S = ToSet(s) \cup {x}
  OBVIOUS
<1>2. PICK u : u = [s EXCEPT ![n] = x]
  OBVIOUS
<1>3. s \in Seq(S)
  <2>1. s \in Seq(ToSet(s)) /\ ToSet(s) \subseteq S
    BY <1>1 DEF IsSeq
  <2> QED BY <2>1
<1>4. Len(u) = Len(s) /\ DOMAIN u = DOMAIN s /\ u \in Seq(S)
  BY <1>1, <1>2, <1>3
<1>5. \A i \in DOMAIN s : u[i] = IF i = n THEN x ELSE s[i]
  BY <1>2
<1>6. IsSeq(u)
  <2>1. PICK U : U = ToSet(u)
    OBVIOUS
  <2>2. \A i \in 1 .. Len(u) : u[i] \in U
    BY <1>3, <1>4, <2>1 DEF ToSet
  <2>3. u = [i \in 1 .. Len(u) |-> u[i]] /\ Len(u) \in Nat
    BY <1>4
  <2>4. u \in Seq(U)
    BY <2>2, <2>3
  <2> QED BY <2>1, <2>4 DEF IsSeq
<1> QED BY <1>2, <1>4, <1>5, <1>6

-----------------------------------------------------------------------------
(* The reader.                                                             *)

LEMMA NoLines == \A section : AreLines(<< >>, section)
BY EmptyIsSeq DEF AreLines

\* A line that comes after the others continues them.
LEMMA LinesGrow ==
  ASSUME NEW lines, NEW section, AreLines(lines, section),
         NEW line, line.section = section, line.number \in Nat,
         \A k \in DOMAIN lines : lines[k].number < line.number
  PROVE  AreLines(Append(lines, line), section)
<1>1. PICK new : new = Append(lines, line)
  OBVIOUS
<1>2. PICK n : n = Len(lines)
  OBVIOUS
<1>3. /\ IsSeq(new) /\ DOMAIN new = 1 .. n + 1 /\ n \in Nat /\ DOMAIN lines = 1 .. n
      /\ \A i \in 1 .. n : new[i] = lines[i]
      /\ new[n + 1] = line
  BY <1>1, <1>2, SeqFacts, Appending DEF AreLines
<1>4. \A i \in DOMAIN new : new[i].section = section /\ new[i].number \in Nat
  BY <1>3 DEF AreLines
<1>5. ASSUME NEW i \in DOMAIN new, NEW j \in DOMAIN new, i < j
      PROVE  new[i].number < new[j].number
  <2>1. CASE j \in 1 .. n
    BY <1>3, <1>5, <2>1 DEF AreLines
  <2>2. CASE j = n + 1
    BY <1>3, <1>5, <2>2
  <2> QED BY <1>3, <2>1, <2>2
<1> QED BY <1>1, <1>3, <1>4, <1>5 DEF AreLines

\* The buffer takes a line that no line of it and no candidate comes after.
LEMMA Buffering ==
  ASSUME NEW cs, NEW r, NEW top \in Nat, Follows(cs, r, top),
         NEW line, line.section = <<r.section, r.hint>>, line.number \in Nat,
         top <= line.number,
         \A k \in DOMAIN r.buffer : r.buffer[k].number < line.number,
         NEW q, q.section = r.section, q.hint = r.hint, q.buffer = Append(r.buffer, line)
  PROVE  Follows(cs, q, line.number)
<1>1. PICK lines : lines = r.buffer
  OBVIOUS
<1>2. PICK new : new = q.buffer
  OBVIOUS
<1>3. AreLines(new, <<q.section, q.hint>>)
  BY <1>2, LinesGrow DEF Follows
<1>4. /\ DOMAIN new = 1 .. Len(lines) + 1 /\ Len(lines) \in Nat /\ DOMAIN lines = 1 .. Len(lines)
      /\ \A i \in 1 .. Len(lines) : new[i] = lines[i]
      /\ new[Len(lines) + 1] = line
  BY <1>1, <1>2, SeqFacts, Appending DEF Follows, AreLines
<1>5. \A i \in DOMAIN cs : Last(cs[i].lines).number <= line.number
  <2>1. ASSUME NEW i \in DOMAIN cs PROVE Last(cs[i].lines).number \in Nat
    <3>1. PICK ls : ls = cs[i].lines
      OBVIOUS
    <3>2. ls # << >> /\ AreLines(ls, <<ls[1].section[1], cs[i].hint>>)
      BY <3>1 DEF Follows, AreCandidates
    <3>3. Len(ls) \in DOMAIN ls
      BY <3>2 DEF AreLines, IsSeq
    <3> QED BY <3>1, <3>2, <3>3 DEF AreLines, Last
  <2> QED BY <2>1 DEF Follows
<1>6. \A k \in DOMAIN new : new[k].number <= line.number
  <2>1. \A k \in DOMAIN lines : lines[k].number \in Nat
    BY <1>1 DEF Follows, AreLines
  <2> QED BY <1>1, <1>4, <2>1 DEF Follows
<1>7. \A i \in DOMAIN cs, k \in DOMAIN new : Last(cs[i].lines).number <= new[k].number
  BY <1>1, <1>4, <1>5 DEF Follows
<1> QED BY <1>2, <1>3, <1>5, <1>6, <1>7 DEF Follows

\* An empty buffer follows any candidates.
LEMMA Emptying ==
  ASSUME NEW cs, NEW r, NEW top, Follows(cs, r, top), NEW q, q.buffer = << >>
  PROVE  Follows(cs, q, top)
BY NoLines, EmptyIsSeq DEF Follows

\* Once flushed the buffer is a candidate, or is dropped.
LEMMA Flushing ==
  ASSUME NEW r, NEW top, Follows(candidates, r, top), NEW q, q.buffer = << >>
  PROVE  Follows(Flushed(r), q, top)
<1>1. CASE ~(IsCandidate(r) /\ ~Known(CandidateFromLines(r)))
  BY <1>1, Emptying DEF Flushed
<1>2. CASE IsCandidate(r) /\ ~Known(CandidateFromLines(r))
  <2>1. PICK c : c = CandidateFromLines(r)
    OBVIOUS
  <2>2. PICK lines : lines = r.buffer
    OBVIOUS
  <2>3. PICK new : new = Append(candidates, c)
    OBVIOUS
  <2>4. /\ c.lines = lines /\ c.hint = r.hint /\ lines # << >>
        /\ DOMAIN c = {"cite", "page", "lines", "hint", "year"}
    BY <1>2, <2>1, <2>2 DEF CandidateFromLines, IsCandidate
  <2>5. AreLines(lines, <<r.section, r.hint>>)
    BY <2>2 DEF Follows
  <2>6. Len(lines) \in Nat /\ 1 \in DOMAIN lines /\ Len(lines) \in DOMAIN lines
    BY <2>4, <2>5 DEF AreLines, IsSeq
  <2>7. <<r.section, r.hint>> = <<c.lines[1].section[1], c.hint>>
    BY <2>4, <2>5, <2>6 DEF AreLines
  <2>8. AreLines(c.lines, <<c.lines[1].section[1], c.hint>>)
    BY <2>4, <2>5, <2>7
  <2>9. /\ IsSeq(new) /\ DOMAIN new = 1 .. Len(candidates) + 1 /\ Len(candidates) \in Nat
        /\ DOMAIN candidates = 1 .. Len(candidates)
        /\ \A i \in 1 .. Len(candidates) : new[i] = candidates[i]
        /\ new[Len(candidates) + 1] = c
    BY <2>3, SeqFacts, Appending DEF Follows, AreCandidates
  <2>10. \A i \in DOMAIN new :
            /\ DOMAIN new[i] = {"cite", "page", "lines", "hint", "year"}
            /\ new[i].lines # << >>
            /\ AreLines(new[i].lines, <<new[i].lines[1].section[1], new[i].hint>>)
    <3>1. ASSUME NEW i \in DOMAIN candidates
          PROVE  /\ DOMAIN candidates[i] = {"cite", "page", "lines", "hint", "year"}
                 /\ candidates[i].lines # << >>
                 /\ AreLines(candidates[i].lines,
                             <<candidates[i].lines[1].section[1], candidates[i].hint>>)
      BY DEF Follows, AreCandidates
    <3> QED BY <2>4, <2>8, <2>9, <3>1
  <2>11. ASSUME NEW i \in DOMAIN new, NEW j \in DOMAIN new, i < j
         PROVE  Last(new[i].lines).number <= new[j].lines[1].number
    <3>1. CASE j \in DOMAIN candidates
      <4>1. i \in DOMAIN candidates /\ new[i] = candidates[i] /\ new[j] = candidates[j]
        BY <2>9, <2>11, <3>1
      <4> QED BY <2>11, <3>1, <4>1 DEF Follows, AreCandidates
    <3>2. CASE j = Len(candidates) + 1
      <4>1. i \in DOMAIN candidates /\ new[i] = candidates[i] /\ new[j].lines = lines
        BY <2>4, <2>9, <2>11, <3>2
      <4> QED BY <2>2, <2>6, <4>1 DEF Follows
    <3> QED BY <2>9, <3>1, <3>2
  <2>12. \A i \in DOMAIN new : Last(new[i].lines).number <= top
    <3>1. Last(lines).number <= top
      BY <2>2, <2>6 DEF Follows, Last
    <3> QED BY <2>4, <2>9, <3>1 DEF Follows
  <2>13. Flushed(r) = new
    BY <1>2, <2>1, <2>3 DEF Flushed
  <2> QED BY <2>9, <2>10, <2>11, <2>12, <2>13, NoLines, EmptyIsSeq DEF Follows, AreCandidates
<1> QED BY <1>1, <1>2

LEMMA Raising ==
  ASSUME NEW cs, NEW r, NEW top \in Nat, Follows(cs, r, top)
  PROVE  Follows(cs, r, top + 1)
<1>1. ASSUME NEW i \in DOMAIN cs PROVE Last(cs[i].lines).number \in Nat
  <2>1. PICK ls : ls = cs[i].lines
    OBVIOUS
  <2>2. ls # << >> /\ AreLines(ls, <<ls[1].section[1], cs[i].hint>>)
    BY <2>1 DEF Follows, AreCandidates
  <2>3. Len(ls) \in DOMAIN ls
    BY <2>2 DEF AreLines, IsSeq
  <2> QED BY <2>1, <2>2, <2>3 DEF AreLines, Last
<1>2. \A k \in DOMAIN r.buffer : r.buffer[k].number \in Nat
  BY DEF Follows, AreLines
<1>3. \A i \in DOMAIN cs : Last(cs[i].lines).number <= top + 1
  BY <1>1 DEF Follows
<1>4. \A k \in DOMAIN r.buffer : r.buffer[k].number <= top + 1
  BY <1>2 DEF Follows
<1> QED BY <1>3, <1>4 DEF Follows

\* The reader between two lines.
Reads(cs, r, p) ==
    /\ IsReader(r)
    /\ DOMAIN p = {"page", "lines", "texts"}
    /\ p.lines \in Nat
    /\ Follows(cs, r, p.lines)

\* Reading a line moves on by one.
LEMMA Moving ==
  ASSUME NEW parts, DOMAIN position = {"page", "lines", "texts"}, ReadLine(parts)
  PROVE  DOMAIN position' = {"page", "lines", "texts"} /\ position'.lines = position.lines + 1
BY DEF ReadLine

\* The text before an inline heading goes into the buffer of the old section.
LEMMA Prefixed ==
  ASSUME NEW prefix, Reads(candidates, reader, position), NEW r,
         r = IF prefix = None THEN reader ELSE Buffered(reader, prefix, None)
  PROVE  IsReader(r) /\ Follows(candidates, r, position.lines + 1)
         /\ r.section = reader.section /\ r.hint = reader.hint
<1>1. CASE prefix = None
  BY <1>1, Raising DEF Reads
<1>2. CASE prefix # None
  <2>1. PICK line : line = Line(prefix, None)
    OBVIOUS
  <2>2. /\ IsReader(r) /\ r.section = reader.section /\ r.hint = reader.hint
        /\ r.buffer = Append(reader.buffer, line)
    BY <1>2, <2>1 DEF Buffered, Reads, IsReader
  <2>3. line.section = <<reader.section, reader.hint>> /\ line.number = position.lines + 1
    BY <2>1 DEF Line
  <2>4. \A k \in DOMAIN reader.buffer : reader.buffer[k].number < line.number
    BY <2>3 DEF Reads, Follows, AreLines
  <2>5. position.lines \in Nat /\ line.number \in Nat /\ position.lines <= line.number
    BY <2>3 DEF Reads
  <2>6. Follows(candidates, r, line.number)
    BY <2>2, <2>3, <2>4, <2>5, Buffering DEF Reads
  <2> QED BY <2>2, <2>3, <2>6
<1> QED BY <1>1, <1>2

LEMMA InlineStopReads ==
  ASSUME NEW prefix, Reads(candidates, reader, position), InlineStop(prefix)
  PROVE  Reads(candidates', reader', position')
<1>1. PICK r : r = IF prefix = None THEN reader ELSE Buffered(reader, prefix, None)
  OBVIOUS
<1>2. /\ ReadLine(<<prefix>>) /\ candidates' = Flushed(r)
      /\ reader' = [Emptied(r) EXCEPT !.active = FALSE, !.columnYear = None]
  BY <1>1 DEF InlineStop
<1>3. IsReader(r) /\ Follows(candidates, r, position.lines + 1)
  BY <1>1, Prefixed
<1>4. IsReader(reader') /\ reader'.buffer = << >>
  BY <1>2, <1>3 DEF IsReader, Emptied
<1>5. Follows(candidates', reader', position.lines + 1)
  BY <1>2, <1>3, <1>4, Flushing
<1> QED BY <1>2, <1>4, <1>5, Moving DEF Reads

LEMMA InlineSectionReads ==
  ASSUME NEW prefix, NEW hint, NEW suffix, Reads(candidates, reader, position),
         InlineSection(prefix, hint, suffix)
  PROVE  Reads(candidates', reader', position')
<1>1. PICK r : r = IF prefix = None THEN reader ELSE Buffered(reader, prefix, None)
  OBVIOUS
<1>2. PICK opened : opened = [Emptied(r) EXCEPT !.hint = hint, !.section = @ + 1]
  OBVIOUS
<1>3. PICK line : line = [Line(suffix, None) EXCEPT !.section = <<opened.section, hint>>]
  OBVIOUS
<1>4. /\ ReadLine(<<prefix, suffix>>) /\ candidates' = Flushed(r)
      /\ reader' = IF suffix = None THEN opened ELSE [opened EXCEPT !.buffer = <<line>>]
  BY <1>1, <1>2, <1>3 DEF InlineSection
<1>5. IsReader(r) /\ Follows(candidates, r, position.lines + 1)
  BY <1>1, Prefixed
<1>6. IsReader(opened) /\ opened.buffer = << >> /\ opened.hint = hint
  BY <1>2, <1>5 DEF IsReader, Emptied
<1>7. Follows(candidates', opened, position.lines + 1)
  BY <1>4, <1>5, <1>6, Flushing
<1>8. CASE suffix = None
  BY <1>4, <1>6, <1>7, <1>8, Moving DEF Reads
<1>9. CASE suffix # None
  <2>1. line.section = <<opened.section, opened.hint>> /\ line.number = position.lines + 1
    BY <1>3, <1>6 DEF Line
  <2>2. line.number \in Nat /\ line.number <= line.number
    BY <2>1 DEF Reads
  <2>3. /\ IsReader(reader') /\ reader'.section = opened.section /\ reader'.hint = opened.hint
        /\ reader'.buffer = <<line>>
    BY <1>4, <1>6, <1>9 DEF IsReader
  <2>4. <<line>> = Append(opened.buffer, line) /\ DOMAIN opened.buffer = {}
    BY <1>6
  <2>5. Follows(candidates', opened, line.number)
    BY <1>7, <2>1
  <2>6. \A k \in DOMAIN opened.buffer : opened.buffer[k].number < line.number
    BY <2>4
  <2>7. Follows(candidates', reader', line.number)
    BY <2>1, <2>2, <2>3, <2>4, <2>5, <2>6, Buffering
  <2> QED BY <1>4, <2>1, <2>2, <2>3, <2>7, Moving DEF Reads
<1> QED BY <1>8, <1>9

LEMMA HeadingReads ==
  ASSUME Reads(candidates, reader, position), StopHeading \/ \E hint \in Hints : Heading(hint)
  PROVE  Reads(candidates', reader', position')
<1>1. ReadLine(<< >>) /\ candidates' = Flushed(reader)
  BY DEF StopHeading, Heading, FlushAtHeading
<1>2. IsReader(reader') /\ reader'.buffer = << >>
  BY DEF StopHeading, Heading, Emptied, Reads, IsReader
<1>3. Follows(candidates, reader, position.lines + 1)
  BY Raising DEF Reads
<1>4. Follows(candidates', reader', position.lines + 1)
  BY <1>1, <1>2, <1>3, Flushing
<1> QED BY <1>1, <1>2, <1>4, Moving DEF Reads

LEMMA BlankReads ==
  ASSUME Reads(candidates, reader, position), BlankLine \/ IgnoredLine
  PROVE  Reads(candidates', reader', position')
<1>1. ReadLine(<< >>)
  BY DEF BlankLine, IgnoredLine
<1>2. Follows(candidates, reader, position.lines + 1)
  BY Raising DEF Reads
<1>3. CASE UNCHANGED <<reader, candidates>>
  BY <1>1, <1>2, <1>3, Moving DEF Reads
<1>4. CASE candidates' = Flushed(reader) /\ reader' = Emptied(reader)
  <2>1. IsReader(reader') /\ reader'.buffer = << >>
    BY <1>4 DEF Emptied, Reads, IsReader
  <2> QED BY <1>1, <1>2, <1>4, <2>1, Flushing, Moving DEF Reads
<1> QED BY <1>3, <1>4 DEF BlankLine, IgnoredLine

LEMMA TextLineReads ==
  ASSUME NEW entry, NEW mark, NEW year, Reads(candidates, reader, position),
         TextLine(entry, mark, year)
  PROVE  Reads(candidates', reader', position')
<1>1. PICK r : r = IF EndsEntry(mark) THEN Emptied(reader) ELSE reader
  OBVIOUS
<1>2. PICK column : column = IF mark = "column" THEN year ELSE None
  OBVIOUS
<1>3. PICK columnYear : columnYear = IF mark = "column" THEN year ELSE Buffered(r, entry, column).columnYear
  OBVIOUS
<1>4. /\ ReadLine(<<entry>>)
      /\ candidates' = IF EndsEntry(mark) THEN Flushed(reader) ELSE candidates
      /\ reader' = [Buffered(r, entry, column) EXCEPT !.columnYear = columnYear]
  BY <1>1, <1>2, <1>3 DEF TextLine
<1>5. IsReader(r) /\ r.section = reader.section /\ r.hint = reader.hint
  BY <1>1 DEF Emptied, Reads, IsReader
<1>6. Follows(candidates', r, position.lines)
  <2>1. CASE EndsEntry(mark)
    <3>1. r.buffer = << >>
      BY <1>1, <2>1 DEF Emptied, Reads, IsReader
    <3> QED BY <1>4, <2>1, <3>1, Flushing DEF Reads
  <2>2. CASE ~EndsEntry(mark)
    BY <1>1, <1>4, <2>2 DEF Reads
  <2> QED BY <2>1, <2>2
<1>7. PICK line : line = Line(entry, column)
  OBVIOUS
<1>8. line.section = <<r.section, r.hint>> /\ line.number = position.lines + 1
  BY <1>5, <1>7 DEF Line
<1>9. /\ IsReader(reader') /\ reader'.section = r.section /\ reader'.hint = r.hint
      /\ reader'.buffer = Append(r.buffer, line)
  BY <1>4, <1>5, <1>7 DEF Buffered, IsReader
<1>10. position.lines \in Nat /\ line.number \in Nat /\ position.lines <= line.number
  BY <1>8 DEF Reads
<1>11. \A k \in DOMAIN r.buffer : r.buffer[k].number < line.number
  BY <1>6, <1>8, <1>10 DEF Follows, AreLines
<1>12. Follows(candidates', reader', line.number)
  BY <1>6, <1>8, <1>9, <1>10, <1>11, Buffering
<1> QED BY <1>4, <1>8, <1>9, <1>10, <1>12, Moving DEF Reads

LEMMA NextPageReads ==
  ASSUME Reads(candidates, reader, position), NextPage
  PROVE  Reads(candidates', reader', position')
<1>1. /\ candidates' = candidates /\ reader' = reader
      /\ DOMAIN position' = DOMAIN position /\ position'.lines = position.lines
  BY DEF NextPage, Reads
<1> QED BY <1>1 DEF Reads

-----------------------------------------------------------------------------
(* One candidate.                                                          *)

\* The manifest while the candidates are settled, with its audit.
IsDocument(d) ==
    /\ DOMAIN d = {"works", "occurrences", "statuses", "audit"}
    /\ IsManifest(d)
    /\ IsSeq(d.audit)

KeepsWork(old, new) ==
    /\ new.id = old.id
    /\ new.rep = old.rep
    /\ old.occurrences \subseteq new.occurrences
    /\ \A f \in Fields : old.meta[f] # None => new.meta[f] = old.meta[f]

KeepsWorks(old, new) ==
    /\ DOMAIN old \subseteq DOMAIN new
    /\ \A i \in DOMAIN old : KeepsWork(old[i], new[i])

\* A work keeps an explicit review, too.
Explicit(work) == Disposition(work) \notin {None, "PENDING_REVIEW"}

Carries(old, new) ==
    /\ KeepsWorks(old, new)
    /\ \A i \in DOMAIN old : Explicit(old[i]) => new[i].review = old[i].review

\* The works of new that are not of old represent the candidate c.
Adds(old, new, c) ==
    \A j \in DOMAIN new \ DOMAIN old : new[j].rep = OccurrenceOf(c, new[j].id)

\* The document d holds the occurrence of the candidate c.
Holds(d, c) == \E o \in d.occurrences : o.id = <<Applicant, c.page, c.cite>>

Skipped == {"SKIPPED_AMBIGUOUS_CITATION", "SKIPPED_NON_PUBLICATION",
            "SKIPPED_UNPARSABLE_CITATION"}

\* What settling the candidate c may make of the document d.
Settles(d, u, c) ==
    /\ IsDocument(u)
    /\ Carries(d.works, u.works)
    /\ Adds(d.works, u.works, c)
    /\ d.occurrences \subseteq u.occurrences
    /\ \E action : /\ u.audit = Append(d.audit, [cite |-> c.cite, page |-> c.page,
                                                 action |-> action])
                   /\ action \notin Skipped => Holds(u, c)

LEMMA KeepsWorksIsTransitive ==
  ASSUME NEW x, NEW y, NEW z, KeepsWorks(x, y), KeepsWorks(y, z)
  PROVE  KeepsWorks(x, z)
<1>1. ASSUME NEW i \in DOMAIN x PROVE i \in DOMAIN z /\ KeepsWork(x[i], z[i])
  <2>1. i \in DOMAIN y /\ i \in DOMAIN z /\ KeepsWork(x[i], y[i]) /\ KeepsWork(y[i], z[i])
    BY DEF KeepsWorks
  <2> QED BY <2>1 DEF KeepsWork
<1> QED BY <1>1 DEF KeepsWorks

LEMMA CarriesIsTransitive ==
  ASSUME NEW x, NEW y, NEW z, Carries(x, y), Carries(y, z)
  PROVE  Carries(x, z)
<1>1. KeepsWorks(x, z)
  BY KeepsWorksIsTransitive DEF Carries
<1>2. ASSUME NEW i \in DOMAIN x, Explicit(x[i]) PROVE z[i].review = x[i].review
  <2>1. i \in DOMAIN y /\ y[i].review = x[i].review
    BY <1>2 DEF Carries, KeepsWorks
  <2>2. Explicit(y[i])
    BY <1>2, <2>1 DEF Explicit, Disposition
  <2> QED BY <2>1, <2>2 DEF Carries
<1> QED BY <1>1, <1>2 DEF Carries

LEMMA CarriesIsReflexive == \A x : Carries(x, x)
BY DEF Carries, KeepsWorks, KeepsWork

\* What represents a candidate goes on doing so.
LEMMA AddsThenCarries ==
  ASSUME NEW x, NEW y, NEW z, NEW c, Adds(x, y, c), Carries(y, z), Adds(y, z, c)
  PROVE  Adds(x, z, c)
<1> SUFFICES ASSUME NEW j \in DOMAIN z \ DOMAIN x
             PROVE  z[j].rep = OccurrenceOf(c, z[j].id)
  BY DEF Adds
<1>1. CASE j \in DOMAIN y
  BY <1>1 DEF Adds, Carries, KeepsWorks, KeepsWork
<1>2. CASE j \notin DOMAIN y
  BY <1>2 DEF Adds
<1> QED BY <1>1, <1>2

\* A document may first be changed without an entry of the audit.
LEMMA SettlesAfter ==
  ASSUME NEW d, NEW e, NEW u, NEW c, Settles(e, u, c), Carries(d.works, e.works),
         Adds(d.works, e.works, c), d.occurrences \subseteq e.occurrences, d.audit = e.audit
  PROVE  Settles(d, u, c)
<1>1. Carries(d.works, u.works)
  BY CarriesIsTransitive DEF Settles
<1>2. Adds(d.works, u.works, c)
  BY AddsThenCarries DEF Settles
<1> QED BY <1>1, <1>2 DEF Settles

LEMMA AuditedSettles ==
  ASSUME NEW d, IsDocument(d), NEW c, NEW action, action \notin Skipped => Holds(d, c)
  PROVE  Settles(d, Audited(d, c, action), c)
<1>1. PICK entry : entry = [cite |-> c.cite, page |-> c.page, action |-> action]
  OBVIOUS
<1>2. PICK u : u = Audited(d, c, action)
  OBVIOUS
<1>3. /\ DOMAIN u = DOMAIN d /\ u.works = d.works /\ u.occurrences = d.occurrences
      /\ u.audit = Append(d.audit, entry)
  BY <1>1, <1>2 DEF Audited, IsDocument
<1>4. IsSeq(u.audit)
  BY <1>3, Appending DEF IsDocument
<1>5. IsDocument(u)
  BY <1>3, <1>4 DEF IsDocument, IsManifest
<1>6. Carries(d.works, u.works)
  BY <1>3, CarriesIsReflexive
<1>7. Adds(d.works, u.works, c)
  BY <1>3 DEF Adds
<1> QED BY <1>1, <1>2, <1>3, <1>5, <1>6, <1>7 DEF Settles, Holds

\* A work of the document may be replaced by one that keeps it.
LEMMA ReplacedWork ==
  ASSUME NEW works, IsSeq(works), \A k \in DOMAIN works : IsWork(works[k]),
         NEW i \in DOMAIN works, NEW w, IsWork(w), KeepsWork(works[i], w),
         Explicit(works[i]) => w.review = works[i].review, NEW c
  PROVE  LET new == [works EXCEPT ![i] = w] IN
         /\ IsSeq(new)
         /\ \A k \in DOMAIN new : IsWork(new[k])
         /\ Carries(works, new)
         /\ Adds(works, new, c)
         /\ i \in DOMAIN new
<1>1. PICK new : new = [works EXCEPT ![i] = w]
  OBVIOUS
<1>2. IsSeq(new) /\ DOMAIN new = DOMAIN works
      /\ \A k \in DOMAIN works : new[k] = IF k = i THEN w ELSE works[k]
  BY <1>1, Replacing
<1>3. \A k \in DOMAIN new : IsWork(new[k])
  BY <1>2
<1>4. KeepsWorks(works, new)
  <2>1. ASSUME NEW k \in DOMAIN works PROVE KeepsWork(works[k], new[k])
    <3>1. CASE k = i
      BY <1>2, <3>1
    <3>2. CASE k # i
      BY <1>2, <3>2 DEF KeepsWork
    <3> QED BY <3>1, <3>2
  <2> QED BY <1>2, <2>1 DEF KeepsWorks
<1>5. Carries(works, new)
  BY <1>2, <1>4 DEF Carries
<1>6. Adds(works, new, c)
  BY <1>2 DEF Adds
<1> QED BY <1>1, <1>2, <1>3, <1>5, <1>6

LEMMA AddOccurrenceSettles ==
  ASSUME NEW d, IsDocument(d), NEW i \in DOMAIN d.works, NEW c, NEW action
  PROVE  Settles(d, AddOccurrence(d, i, c, action), c)
<1>1. PICK o : o = OccurrenceOf(c, d.works[i].id)
  OBVIOUS
<1>2. o.id = <<Applicant, c.page, c.cite>> /\ IsOccurrence(o)
  BY <1>1 DEF OccurrenceOf, IsOccurrence
<1>3. CASE \E p \in d.occurrences : p.id = o.id
  <2>1. Holds(d, c)
    BY <1>2, <1>3 DEF Holds
  <2>2. Settles(d, Audited(d, c, "ALREADY_RECONCILED"), c)
    BY <2>1, AuditedSettles
  <2> QED BY <1>1, <1>3, <2>2 DEF AddOccurrence
<1>4. CASE ~ \E p \in d.occurrences : p.id = o.id
  <2>1. PICK e : e = [d EXCEPT !.occurrences = @ \cup {o},
                               !.works[i].occurrences = @ \cup {o}]
    OBVIOUS
  <2>2. PICK w : w = [d.works[i] EXCEPT !.occurrences = @ \cup {o}]
    OBVIOUS
  <2>3. /\ DOMAIN e = DOMAIN d /\ e.occurrences = d.occurrences \cup {o}
        /\ e.works = [d.works EXCEPT ![i] = w] /\ e.audit = d.audit
    BY <2>1, <2>2 DEF IsDocument
  <2>4. IsWork(d.works[i]) /\ IsSeq(d.works) /\ \A k \in DOMAIN d.works : IsWork(d.works[k])
    BY DEF IsDocument, IsManifest
  <2>5. IsWork(w) /\ KeepsWork(d.works[i], w) /\ w.review = d.works[i].review
    BY <2>2, <2>4 DEF IsWork, KeepsWork
  <2>6. /\ IsSeq(e.works) /\ \A k \in DOMAIN e.works : IsWork(e.works[k])
        /\ Carries(d.works, e.works) /\ Adds(d.works, e.works, c)
    BY <2>3, <2>4, <2>5, ReplacedWork
  <2>7. IsDocument(e)
    BY <1>2, <2>3, <2>6 DEF IsDocument, IsManifest
  <2>8. Holds(e, c)
    BY <1>2, <2>3 DEF Holds
  <2>9. Settles(e, Audited(e, c, action), c)
    BY <2>7, <2>8, AuditedSettles
  <2>10. Settles(d, Audited(e, c, action), c)
    BY <2>3, <2>6, <2>9, SettlesAfter
  <2>11. AddOccurrence(d, i, c, action) = Audited(e, c, action)
    BY <1>1, <1>4, <2>1 DEF AddOccurrence
  <2> QED BY <2>10, <2>11
<1> QED BY <1>3, <1>4

LEMMA AddWorkSettles ==
  ASSUME NEW d, IsDocument(d), NEW c, NEW parsed, NEW disposition
  PROVE  Settles(d, AddWork(d, c, parsed, disposition), c)
<1> DEFINE id == FinalWorkId(c, parsed)
           status == IF parsed.meta.doi # None THEN "RESOLVED" ELSE "UNRESOLVED"
           review == ReviewValues(c, parsed, ForMetadata(disposition, parsed.meta))
<1>1. PICK w : w = [id |-> id, folder |-> Applicant, meta |-> parsed.meta, status |-> status,
                    review |-> review, occurrences |-> {}, rep |-> OccurrenceOf(c, id)]
  OBVIOUS
<1>2. PICK e : e = [d EXCEPT !.works = Append(@, w),
                             !.statuses = @ \cup CitationStatuses(id)]
  OBVIOUS
<1>3. PICK n : n = Len(d.works)
  OBVIOUS
<1>4. AddWork(d, c, parsed, disposition) = AddOccurrence(e, n + 1, c, "ADDED_WORK")
  BY <1>1, <1>2, <1>3, Zenon DEF AddWork
<1>5. IsWork(w)
  BY <1>1 DEF IsWork
<1>6. /\ DOMAIN e = DOMAIN d /\ e.works = Append(d.works, w)
      /\ e.occurrences = d.occurrences /\ e.audit = d.audit
  BY <1>2 DEF IsDocument
<1>7. /\ IsSeq(e.works) /\ n \in Nat /\ DOMAIN d.works = 1 .. n /\ DOMAIN e.works = 1 .. n + 1
      /\ \A i \in 1 .. n : e.works[i] = d.works[i]
      /\ e.works[n + 1] = w
  BY <1>3, <1>6, Appending, SeqFacts DEF IsDocument, IsManifest
<1>8. n + 1 \in DOMAIN e.works /\ DOMAIN d.works \subseteq DOMAIN e.works
  BY <1>7
<1>9. \A i \in DOMAIN e.works : IsWork(e.works[i])
  BY <1>5, <1>7 DEF IsDocument, IsManifest
<1>10. Carries(d.works, e.works)
  BY <1>7, <1>8 DEF Carries, KeepsWorks, KeepsWork
<1>11. IsDocument(e)
  BY <1>6, <1>7, <1>9 DEF IsDocument, IsManifest
<1>12. Settles(e, AddOccurrence(e, n + 1, c, "ADDED_WORK"), c)
  BY <1>8, <1>11, AddOccurrenceSettles
<1>13. Adds(d.works, e.works, c)
  <2>1. DOMAIN e.works \ DOMAIN d.works = {n + 1}
    BY <1>7
  <2>2. w.rep = OccurrenceOf(c, w.id)
    BY <1>1
  <2> QED BY <1>7, <2>1, <2>2 DEF Adds
<1> QED BY <1>4, <1>6, <1>10, <1>12, <1>13, SettlesAfter

\* A filled work keeps every value it had.
LEMMA FilledKeeps ==
  ASSUME NEW old, NEW new, NEW f \in Fields, old[f] # None
  PROVE  Filled(old, new)[f] = old[f]
BY DEF Filled

LEMMA FillWorkSettles ==
  ASSUME NEW d, IsDocument(d), NEW i \in DOMAIN d.works, NEW c, NEW parsed,
         NEW disposition, NEW action
  PROVE  Settles(d, FillWork(d, i, c, parsed, disposition, action), c)
<1>1. PICK old : old = d.works[i]
  OBVIOUS
<1>2. PICK meta : meta = Filled(old.meta, parsed.meta)
  OBVIOUS
<1>3. PICK resolved : resolved = [old EXCEPT !.meta = meta,
                                    !.status = IF meta.doi # None THEN "RESOLVED" ELSE @]
  OBVIOUS
<1>4. PICK review : review = ReviewValues(c, parsed, ForMetadata(disposition, meta))
  OBVIOUS
<1>5. PICK w : w = IF ReviewStands(resolved, disposition) THEN resolved
                   ELSE [resolved EXCEPT !.review = review]
  OBVIOUS
<1>6. PICK e : e = [d EXCEPT !.works[i] = w]
  OBVIOUS
<1>7. FillWork(d, i, c, parsed, disposition, action) = AddOccurrence(e, i, c, action)
  BY <1>1, <1>2, <1>3, <1>4, <1>5, <1>6, Zenon DEF FillWork
<1>8. IsSeq(d.works) /\ (\A k \in DOMAIN d.works : IsWork(d.works[k])) /\ IsWork(old)
  BY <1>1 DEF IsDocument, IsManifest
<1>9. IsWork(resolved) /\ resolved.id = old.id /\ resolved.occurrences = old.occurrences
      /\ resolved.meta = meta /\ resolved.rep = old.rep /\ resolved.review = old.review
  BY <1>3, <1>8 DEF IsWork
<1>10. IsWork(w) /\ w.id = old.id /\ w.occurrences = old.occurrences /\ w.meta = meta
       /\ w.rep = old.rep
  BY <1>5, <1>9 DEF IsWork
<1>16. ASSUME Explicit(old) PROVE w.review = old.review
  <2>1. ReviewStands(resolved, disposition)
    BY <1>9, <1>16 DEF Explicit, Disposition, ReviewStands
  <2> QED BY <1>5, <1>9, <2>1
<1>11. KeepsWork(old, w)
  BY <1>2, <1>10, FilledKeeps DEF KeepsWork
<1>12. /\ DOMAIN e = DOMAIN d /\ e.works = [d.works EXCEPT ![i] = w]
       /\ e.occurrences = d.occurrences /\ e.audit = d.audit
  BY <1>6 DEF IsDocument
<1>13. /\ IsSeq(e.works) /\ \A k \in DOMAIN e.works : IsWork(e.works[k])
       /\ Carries(d.works, e.works) /\ Adds(d.works, e.works, c) /\ i \in DOMAIN e.works
  BY <1>1, <1>8, <1>10, <1>11, <1>12, <1>16, ReplacedWork
<1>14. IsDocument(e)
  BY <1>12, <1>13 DEF IsDocument, IsManifest
<1>15. Settles(e, AddOccurrence(e, i, c, action), c)
  BY <1>13, <1>14, AddOccurrenceSettles
<1> QED BY <1>7, <1>12, <1>13, <1>15, SettlesAfter

\* A match is a work of the document.
LEMMA MatchedIsFound ==
  ASSUME NEW found, Cardinality(found) = 1, NEW action
  PROVE  Matched(found, action).work \in found
<1>1. found # {}
  BY FS_EmptySet
<1> QED BY <1>1 DEF Matched

LEMMA MatchIsWork ==
  ASSUME NEW works, NEW parsed, NEW cite
  PROVE  \/ MatchWork(works, parsed, cite).work = 0
         \/ MatchWork(works, parsed, cite).work \in DOMAIN works
<1> DEFINE Found(S) == S \subseteq DOMAIN works /\ Cardinality(S) = 1
<1>1. \/ MatchWork(works, parsed, cite).work = 0
      \/ \E S, action : Found(S) /\ MatchWork(works, parsed, cite) = Matched(S, action)
  BY DEF MatchWork, Nothing
<1>2. ASSUME NEW S, NEW action, Found(S)
      PROVE  Matched(S, action).work \in DOMAIN works
  BY <1>2, MatchedIsFound
<1> QED BY <1>1, <1>2

LEMMA FiledSettles ==
  ASSUME NEW d, IsDocument(d), NEW c, NEW parsed, NEW match, NEW disposition,
         match.work = 0 \/ match.work \in DOMAIN d.works
  PROVE  Settles(d, Filed(d, c, parsed, match, disposition), c)
<1>1. CASE match.work # 0
  BY <1>1, FillWorkSettles DEF Filed
<1>2. Settles(d, Audited(d, c, "SKIPPED_NON_PUBLICATION"), c)
  BY AuditedSettles DEF Skipped
<1>3. Settles(d, Audited(d, c, "SKIPPED_UNPARSABLE_CITATION"), c)
  BY AuditedSettles DEF Skipped
<1>4. CASE match.work = 0
  BY <1>2, <1>3, <1>4, AddWorkSettles DEF Filed
<1> QED BY <1>1, <1>4

\* Settling a candidate takes nothing away and tells in the audit whether the
\* candidate was filed.
LEMMA SettleSettles ==
  ASSUME NEW d, IsDocument(d), NEW c, NEW answered
  PROVE  Settles(d, Settle(d, c, answered), c)
<1>1. PICK parsed : parsed = Parsed(c)
  OBVIOUS
<1>2. PICK match : match = MatchWork(d.works, parsed, c.cite)
  OBVIOUS
<1>3. PICK resolved : resolved = Resolution(c, parsed, answered)
  OBVIOUS
<1>4. PICK again : again = MatchWork(d.works, resolved, c.cite)
  OBVIOUS
<1>5. Settle(d, c, answered) = MatchedOrResolved(d, c, parsed, match, resolved)
  BY <1>1, <1>2, <1>3, Zenon DEF Settle, SettleParsed
<1>6. Settles(d, Audited(d, c, "SKIPPED_AMBIGUOUS_CITATION"), c)
  BY AuditedSettles DEF Skipped
<1>7. Settles(d, Filed(d, c, parsed, match, Classification(parsed, c.hint)), c)
  BY <1>2, MatchIsWork, FiledSettles
<1>8. Settles(d, Filed(d, c, resolved, again, Classification(resolved, c.hint)), c)
  BY <1>4, MatchIsWork, FiledSettles
<1> QED BY <1>4, <1>5, <1>6, <1>7, <1>8 DEF MatchedOrResolved

-----------------------------------------------------------------------------
(* One pass over the candidates.                                           *)

\* Quarantining works of the base keeps all that is in them.
LEMMA QuarantinedKeeps ==
  ASSUME NEW w, IsWork(w), NEW reason
  PROVE  IsWork(Quarantined(w, reason)) /\ KeepsWork(w, Quarantined(w, reason))
<1>1. PICK review : review = [disposition |-> "NON_PUBLICATION", basis |-> reason]
  OBVIOUS
<1>2. Quarantined(w, reason) = [w EXCEPT !.review = review]
  BY <1>1 DEF Quarantined
<1> QED BY <1>2 DEF IsWork, KeepsWork

\* Works of which each is kept or quarantined.
Repairs(old, new) ==
    /\ IsSeq(new)
    /\ DOMAIN new = DOMAIN old
    /\ \A i \in DOMAIN old : IsWork(new[i]) /\ KeepsWork(old[i], new[i])

LEMMA QuarantineRepairs ==
  ASSUME NEW works, IsSeq(works), \A i \in DOMAIN works : IsWork(works[i]),
         NEW new, new = [i \in DOMAIN works |-> new[i]],
         \A i \in DOMAIN works : new[i] = works[i]
                                 \/ \E reason : new[i] = Quarantined(works[i], reason)
  PROVE  Repairs(works, new)
<1>1. ASSUME NEW i \in DOMAIN works PROVE IsWork(new[i]) /\ KeepsWork(works[i], new[i])
  <2>1. CASE new[i] = works[i]
    BY <2>1 DEF KeepsWork
  <2>2. CASE \E reason : new[i] = Quarantined(works[i], reason)
    BY <2>2, QuarantinedKeeps
  <2> QED BY <2>1, <2>2
<1>2. Len(works) \in Nat /\ DOMAIN works = 1 .. Len(works)
  BY SeqFacts
<1>3. PICK S : S = ToSet(new)
  OBVIOUS
<1>4. \A i \in 1 .. Len(works) : new[i] \in S
  BY <1>2, <1>3 DEF ToSet
<1>5. new \in Seq(S)
  BY <1>2, <1>4
<1> QED BY <1>1, <1>3, <1>5 DEF Repairs, IsSeq

LEMMA RepairedIsDocument ==
  ASSUME NEW m, IsManifest(m)
  PROVE  /\ IsDocument(Repaired(m))
         /\ KeepsWorks(m.works, Repaired(m).works)
         /\ DOMAIN Repaired(m).works = DOMAIN m.works
         /\ Repaired(m).audit = << >>
<1>1. PICK one : one = WithoutEmptyWorks(m.works)
  OBVIOUS
<1>2. PICK two : two = WithoutTitleCopies(one)
  OBVIOUS
<1>3. Repairs(m.works, one)
  <2>1. one = [i \in DOMAIN m.works |-> one[i]]
    BY <1>1 DEF WithoutEmptyWorks
  <2>2. \A i \in DOMAIN m.works : one[i] = m.works[i]
                                  \/ \E reason : one[i] = Quarantined(m.works[i], reason)
    BY <1>1 DEF WithoutEmptyWorks
  <2> QED BY <2>1, <2>2, QuarantineRepairs DEF IsManifest
<1>4. Repairs(one, two)
  <2>1. two = [i \in DOMAIN one |-> two[i]]
    BY <1>2 DEF WithoutTitleCopies
  <2>2. \A i \in DOMAIN one : two[i] = one[i]
                              \/ \E reason : two[i] = Quarantined(one[i], reason)
    BY <1>2 DEF WithoutTitleCopies
  <2> QED BY <1>3, <2>1, <2>2, QuarantineRepairs DEF Repairs
<1>5. KeepsWorks(m.works, two)
  <2>1. KeepsWorks(m.works, one) /\ KeepsWorks(one, two)
    BY <1>3, <1>4 DEF Repairs, KeepsWorks
  <2> QED BY <2>1, KeepsWorksIsTransitive
<1>6. PICK d : d = Repaired(m)
  OBVIOUS
<1>7. /\ DOMAIN d = {"works", "occurrences", "statuses", "audit"}
      /\ d.works = two /\ d.occurrences = m.occurrences /\ d.audit = << >>
  BY <1>1, <1>2, <1>6 DEF Repaired
<1>8. IsDocument(d)
  BY <1>4, <1>7, EmptyIsSeq DEF IsDocument, IsManifest, Repairs
<1>9. DOMAIN two = DOMAIN m.works
  BY <1>3, <1>4 DEF Repairs
<1> QED BY <1>5, <1>6, <1>7, <1>8, <1>9

\* A review is valid when the loader would accept it.
ReviewIsValid(w) == w.review # None => Disposition(w) \in Dispositions

LEMMA Ranks ==
  ASSUME NEW w, ReviewIsValid(w)
  PROVE  Rank(w) \in 0 .. 5 /\ (Disposition(w) \in AcceptedDispositions <=> Rank(w) >= 3)
<1>1. CASE w.review = None
  <2>1. Rank(w) = 0 /\ Disposition(w) = None
    BY <1>1 DEF Rank, Disposition
  <2> QED BY <2>1, NoneIsNoDisposition DEF AcceptedDispositions, Dispositions
<1>2. CASE w.review # None
  <2> DEFINE order == <<"NON_PUBLICATION", "PENDING_REVIEW", "UNDER_PREPARATION",
                        "ACCEPTED_PREPRINT", "PUBLISHED">>
  <2>1. PICK d : d = Disposition(w)
    OBVIOUS
  <2>2. d \in Dispositions
    BY <1>2, <2>1 DEF ReviewIsValid
  <2>3. DOMAIN order = 1 .. 5
    OBVIOUS
  <2>4. \E n \in DOMAIN order : order[n] = d
    <3>1. /\ order[1] = "NON_PUBLICATION" /\ order[2] = "PENDING_REVIEW"
          /\ order[3] = "UNDER_PREPARATION" /\ order[4] = "ACCEPTED_PREPRINT"
          /\ order[5] = "PUBLISHED"
      OBVIOUS
    <3>2. 1 \in DOMAIN order /\ 2 \in DOMAIN order /\ 3 \in DOMAIN order
          /\ 4 \in DOMAIN order /\ 5 \in DOMAIN order
      BY <2>3
    <3> HIDE DEF order
    <3> QED BY <2>2, <3>1, <3>2 DEF Dispositions
  <2>5. PICK n : n = CHOOSE m \in DOMAIN order : order[m] = d
    OBVIOUS
  <2>6. n \in DOMAIN order /\ order[n] = d
    BY <2>4, <2>5
  <2>7. Rank(w) = n
    BY <1>2, <2>1, <2>5 DEF Rank
  <2>8. n \in 1 .. 5
    BY <2>3, <2>6
  <2>9. d \in AcceptedDispositions <=> n >= 3
    <3>1. n = 1 \/ n = 2 \/ n = 3 \/ n = 4 \/ n = 5
      BY <2>8
    <3> QED BY <2>6, <3>1 DEF AcceptedDispositions
  <2> QED BY <2>1, <2>7, <2>8, <2>9
<1> QED BY <1>1, <1>2

LEMMA Weights ==
  ASSUME NEW w, ReviewIsValid(w)
  PROVE  Weight(w) \in Nat /\ 4 * Rank(w) <= Weight(w) /\ Weight(w) <= 4 * Rank(w) + 3
<1>1. Rank(w) \in 0 .. 5
  BY Ranks
<1> QED BY <1>1 DEF Weight

\* max finds a work of the greatest weight.
LEMMA PrimaryIsHeaviest ==
  ASSUME NEW works, NEW group, group \subseteq Nat, group # {},
         \A j \in group : ReviewIsValid(works[j])
  PROVE  /\ Primary(works, group) \in group
         /\ \A j \in group : Weight(works[j]) <= Weight(works[Primary(works, group)])
<1>1. ASSUME NEW j \in group PROVE Weight(works[j]) \in Nat /\ 23 - Weight(works[j]) \in Nat
  <2>1. Rank(works[j]) \in 0 .. 5
    BY Ranks
  <2> QED BY <2>1, Weights
<1>2. PICK T : T = {23 - Weight(works[j]) : j \in group}
  OBVIOUS
<1>3. T \subseteq Nat /\ T # {}
  BY <1>1, <1>2
<1>4. PICK a \in T : \A b \in T : a <= b
  BY <1>3, Least
<1>5. PICK G : G = {j \in group : 23 - Weight(works[j]) = a}
  OBVIOUS
<1>6. G # {} /\ G \subseteq Nat
  BY <1>2, <1>4, <1>5
<1>7. PICK i \in G : \A j \in G : i <= j
  BY <1>6, Least
<1>8. i \in group /\ 23 - Weight(works[i]) = a
  BY <1>5, <1>7
<1>9. ASSUME NEW j \in group
      PROVE  \/ Weight(works[i]) > Weight(works[j])
             \/ Weight(works[i]) = Weight(works[j]) /\ i <= j
  <2>1. a <= 23 - Weight(works[j])
    BY <1>2, <1>4
  <2>2. CASE j \in G
    BY <1>1, <1>5, <1>7, <1>8, <2>2
  <2>3. CASE j \notin G
    <3>1. 23 - Weight(works[j]) # a
      BY <1>5, <2>3
    <3> QED BY <1>1, <1>8, <2>1, <3>1
  <2> QED BY <2>2, <2>3
<1>10. \E p \in group : \A j \in group :
          \/ Weight(works[p]) > Weight(works[j])
          \/ Weight(works[p]) = Weight(works[j]) /\ p <= j
  BY <1>8, <1>9
<1>11. PICK p : p = Primary(works, group)
  OBVIOUS
<1>12. p \in group /\ \A j \in group :
          \/ Weight(works[p]) > Weight(works[j])
          \/ Weight(works[p]) = Weight(works[j]) /\ p <= j
  BY <1>10, <1>11 DEF Primary
<1> QED BY <1>1, <1>11, <1>12

\* The repairs leave every accepting review, or one of a copy that ranks as high.
LEMMA AcceptedAreRepaired ==
  ASSUME NEW m, IsManifest(m), \A k \in DOMAIN m.works : ReviewIsValid(m.works[k]),
         NEW i \in DOMAIN m.works, Disposition(m.works[i]) \in AcceptedDispositions
  PROVE  \E j \in DOMAIN m.works :
            /\ j = i \/ /\ m.works[j].folder = m.works[i].folder
                        /\ m.works[j].meta.title = m.works[i].meta.title
            /\ Rank(m.works[j]) >= Rank(m.works[i])
            /\ Explicit(m.works[j])
            /\ Repaired(m).works[j].review = m.works[j].review
<1>1. PICK works : works = m.works
  OBVIOUS
<1>2. PICK one : one = WithoutEmptyWorks(works)
  OBVIOUS
<1>3. PICK two : two = WithoutTitleCopies(one)
  OBVIOUS
<1>4. Repaired(m).works = two
  BY <1>1, <1>2, <1>3 DEF Repaired
<1>5. DOMAIN one = DOMAIN works /\ DOMAIN two = DOMAIN works
  BY <1>2, <1>3 DEF WithoutEmptyWorks, WithoutTitleCopies
<1>6. ASSUME NEW k \in DOMAIN works
      PROVE  /\ one[k] = works[k] \/ one[k] = Quarantined(works[k], <<"empty">>)
             /\ one[k].folder = works[k].folder /\ one[k].meta = works[k].meta
             /\ ReviewIsValid(one[k])
  <2>1. one[k] = works[k] \/ one[k] = Quarantined(works[k], <<"empty">>)
    BY <1>2 DEF WithoutEmptyWorks
  <2>2. CASE one[k] = works[k]
    BY <1>1, <2>2
  <2>3. CASE one[k] = Quarantined(works[k], <<"empty">>)
    <3>1. PICK q : q = [disposition |-> "NON_PUBLICATION", basis |-> <<"empty">>]
      OBVIOUS
    <3>2. IsWork(works[k])
      BY <1>1 DEF IsManifest
    <3>3. one[k] = [works[k] EXCEPT !.review = q] /\ q.disposition = "NON_PUBLICATION"
      BY <2>3, <3>1 DEF Quarantined
    <3>4. /\ one[k].folder = works[k].folder /\ one[k].meta = works[k].meta
          /\ one[k].review = q
      BY <3>2, <3>3 DEF IsWork
    <3>5. ReviewIsValid(one[k])
      BY <3>3, <3>4 DEF ReviewIsValid, Disposition, Dispositions
    <3> QED BY <2>1, <3>4, <3>5
  <2> QED BY <2>1, <2>2, <2>3
<1>7. ASSUME NEW k \in DOMAIN works, Disposition(one[k]) \in AcceptedDispositions
      PROVE  one[k] = works[k] /\ Explicit(works[k])
  <2>1. ASSUME one[k] = Quarantined(works[k], <<"empty">>) PROVE FALSE
    <3>1. PICK q : q = [disposition |-> "NON_PUBLICATION", basis |-> <<"empty">>]
      OBVIOUS
    <3>2. IsWork(works[k])
      BY <1>1 DEF IsManifest
    <3>3. one[k] = [works[k] EXCEPT !.review = q] /\ q.disposition = "NON_PUBLICATION"
      BY <2>1, <3>1 DEF Quarantined
    <3>4. one[k].review = q
      BY <3>2, <3>3 DEF IsWork
    <3>5. Disposition(one[k]) = "NON_PUBLICATION" \/ Disposition(one[k]) = None
      BY <3>3, <3>4 DEF Disposition
    <3> QED BY <1>7, <3>5, NoneIsNoDisposition DEF AcceptedDispositions, Dispositions
  <2>2. one[k] = works[k]
    BY <1>6, <2>1
  <2> QED BY <1>7, <2>2, NoneIsNoDisposition DEF Explicit, AcceptedDispositions, Dispositions
<1>8. one[i] = works[i] /\ Explicit(works[i])
  <2>1. Explicit(works[i])
    BY <1>1, NoneIsNoDisposition DEF Explicit, AcceptedDispositions, Dispositions
  <2>2. ~Empty(works[i])
    BY <2>1 DEF Empty, Explicit
  <2> QED BY <1>1, <1>2, <2>1, <2>2 DEF WithoutEmptyWorks
<1>9. PICK group : group = SameTitle(one, i)
  OBVIOUS
<1>10. CASE ~(Cardinality(group) > 1 /\ i # Primary(one, group))
  <2>1. two[i] = one[i]
    BY <1>1, <1>3, <1>5, <1>9, <1>10 DEF WithoutTitleCopies
  <2>2. Rank(works[i]) >= Rank(works[i])
    BY <1>1, Ranks
  <2> QED BY <1>1, <1>4, <1>8, <2>1, <2>2
<1>11. CASE Cardinality(group) > 1
  <2>1. group # {}
    BY <1>11, FS_EmptySet
  <2>2. group = {k \in DOMAIN works : /\ one[i].meta.title \in LongTitles
                                      /\ one[k].folder = one[i].folder
                                      /\ one[k].meta.title = one[i].meta.title}
    BY <1>5, <1>9 DEF SameTitle
  <2>3. i \in group /\ group \subseteq DOMAIN works
    BY <1>1, <2>1, <2>2
  <2>4. group \subseteq Nat
    <3>1. Len(works) \in Nat /\ DOMAIN works = 1 .. Len(works)
      BY <1>1, SeqFacts DEF IsManifest
    <3> QED BY <2>3, <3>1
  <2>5. PICK p : p = Primary(one, group)
    OBVIOUS
  <2>6. p \in group /\ Weight(one[i]) <= Weight(one[p])
    BY <1>6, <2>1, <2>3, <2>4, <2>5, PrimaryIsHeaviest
  <2>7. p \in DOMAIN works /\ one[p].folder = one[i].folder
        /\ one[p].meta.title = one[i].meta.title
    BY <2>2, <2>6
  <2>8. Rank(one[p]) >= Rank(one[i])
    <3>1. /\ 4 * Rank(one[i]) <= Weight(one[i]) /\ Weight(one[i]) \in Nat
          /\ Weight(one[p]) <= 4 * Rank(one[p]) + 3 /\ Weight(one[p]) \in Nat
      BY <1>1, <1>6, <2>7, Weights
    <3>2. Rank(one[p]) \in 0 .. 5 /\ Rank(one[i]) \in 0 .. 5
      BY <1>1, <1>6, <2>7, Ranks
    <3> QED BY <2>6, <3>1, <3>2
  <2>9. Disposition(one[p]) \in AcceptedDispositions
    <3>1. Rank(one[i]) >= 3 /\ Rank(one[i]) \in 0 .. 5
      BY <1>1, <1>6, <1>8, Ranks
    <3>2. Rank(one[p]) >= 3
      BY <1>6, <2>7, <2>8, <3>1, Ranks
    <3> QED BY <1>6, <2>7, <3>2, Ranks
  <2>10. one[p] = works[p] /\ Explicit(works[p])
    BY <1>7, <2>7, <2>9
  <2>11. SameTitle(one, p) = group
    BY <1>5, <2>2, <2>6, <2>7 DEF SameTitle
  <2>12. two[p] = one[p]
    BY <1>3, <1>5, <2>5, <2>7, <2>11 DEF WithoutTitleCopies
  <2> QED BY <1>1, <1>4, <1>8, <2>7, <2>8, <2>10, <2>12
<1> QED BY <1>10, <1>11

\* g is the recursion of Reconciliations over the first k candidates.
IsFold(g, m, answered, k) ==
    g = [n \in 0 .. k |->
            IF n = 0 THEN Repaired(m) ELSE Settle(g[n - 1], candidates[n], answered)]

\* It is well defined.
LEMMA FoldExists ==
  ASSUME NEW m, NEW answered
  PROVE  \A k \in Nat : \E g : IsFold(g, m, answered, k)
<1> DEFINE S == {k \in Nat : \E g : IsFold(g, m, answered, k)}
<1>1. 0 \in S
  <2>1. PICK g : g = [n \in 0 .. 0 |-> Repaired(m)]
    OBVIOUS
  <2>2. g = [n \in 0 .. 0 |->
               IF n = 0 THEN Repaired(m) ELSE Settle(g[n - 1], candidates[n], answered)]
    BY <2>1
  <2> QED BY <2>2 DEF IsFold
<1>2. ASSUME NEW k \in Nat, k \in S
      PROVE  k + 1 \in S
  <2>1. PICK g : IsFold(g, m, answered, k)
    BY <1>2
  <2>2. \A n \in 0 .. k :
           g[n] = IF n = 0 THEN Repaired(m) ELSE Settle(g[n - 1], candidates[n], answered)
    BY <2>1 DEF IsFold
  <2>3. PICK h : h = [n \in 0 .. k + 1 |-> IF n = k + 1
                                           THEN Settle(g[k], candidates[k + 1], answered)
                                           ELSE g[n]]
    OBVIOUS
  <2>4. ASSUME NEW n \in 0 .. k + 1
        PROVE  h[n] = IF n = 0 THEN Repaired(m) ELSE Settle(h[n - 1], candidates[n], answered)
    <3>1. CASE n = k + 1
      <4>1. n - 1 = k /\ k \in 0 .. k + 1 /\ k # k + 1 /\ n # 0
        BY <3>1
      <4>2. h[n - 1] = g[k]
        BY <2>3, <4>1
      <4> QED BY <2>3, <3>1, <4>1, <4>2
    <3>2. CASE n = 0
      BY <2>2, <2>3, <3>2
    <3>3. CASE n # k + 1 /\ n # 0
      <4>1. n \in 0 .. k /\ n - 1 \in 0 .. k + 1 /\ n - 1 # k + 1
        BY <3>3
      <4>2. h[n] = g[n] /\ h[n - 1] = g[n - 1]
        BY <2>3, <3>3, <4>1
      <4> QED BY <2>2, <3>3, <4>1, <4>2
    <3> QED BY <3>1, <3>2, <3>3
  <2>5. h = [n \in 0 .. k + 1 |->
               IF n = 0 THEN Repaired(m) ELSE Settle(h[n - 1], candidates[n], answered)]
    BY <2>3, <2>4
  <2>6. IsFold(h, m, answered, k + 1)
    BY <2>5 DEF IsFold
  <2> QED BY <2>6
<1>3. Nat \subseteq S
  <2> HIDE DEF S
  <2> QED BY <1>1, <1>2, Counting
<1> QED BY <1>3

LEMMA ReconciliationsFold ==
  ASSUME NEW m, NEW answered, IsSeq(candidates)
  PROVE  IsFold(Reconciliations(m, answered), m, answered, Len(candidates))
<1>1. \E g : IsFold(g, m, answered, Len(candidates))
  BY SeqFacts, FoldExists
<1>2. IsFold(CHOOSE g : IsFold(g, m, answered, Len(candidates)), m, answered, Len(candidates))
  BY <1>1
<1>3. Reconciliations(m, answered) = CHOOSE g : IsFold(g, m, answered, Len(candidates))
  BY DEF Reconciliations, IsFold
<1> QED BY <1>2, <1>3

\* What holds after the first n candidates: the works of the manifest are
\* kept, with the explicit reviews the repairs left, every other work
\* represents a candidate, and the audit tells of each whether it was filed.
Reconciled(d, m, n) ==
    /\ IsDocument(d)
    /\ KeepsWorks(m.works, d.works)
    /\ Carries(Repaired(m).works, d.works)
    /\ \A j \in DOMAIN d.works \ DOMAIN m.works : \E k \in 1 .. n :
          d.works[j].rep = OccurrenceOf(candidates[k], d.works[j].id)
    /\ Len(d.audit) = n
    /\ \A k \in 1 .. n : d.audit[k].action \notin Skipped => Holds(d, candidates[k])

LEMMA ReconciledStep ==
  ASSUME NEW m, NEW n \in Nat, NEW d, Reconciled(d, m, n), NEW u,
         Settles(d, u, candidates[n + 1])
  PROVE  Reconciled(u, m, n + 1)
<1>1. PICK c : c = candidates[n + 1]
  OBVIOUS
<1>2. PICK action : /\ u.audit = Append(d.audit, [cite |-> c.cite, page |-> c.page,
                                                  action |-> action])
                    /\ action \notin Skipped => Holds(u, c)
  BY <1>1 DEF Settles
<1>3. /\ IsDocument(u) /\ KeepsWorks(m.works, u.works)
      /\ Carries(Repaired(m).works, u.works)
  BY KeepsWorksIsTransitive, CarriesIsTransitive DEF Settles, Reconciled, Carries
<1>7. ASSUME NEW j \in DOMAIN u.works \ DOMAIN m.works
      PROVE  \E k \in 1 .. n + 1 : u.works[j].rep = OccurrenceOf(candidates[k], u.works[j].id)
  <2>1. CASE j \in DOMAIN d.works
    <3>1. u.works[j].id = d.works[j].id /\ u.works[j].rep = d.works[j].rep
      BY <2>1 DEF Settles, Carries, KeepsWorks, KeepsWork
    <3>2. PICK k \in 1 .. n : d.works[j].rep = OccurrenceOf(candidates[k], d.works[j].id)
      BY <1>7, <2>1 DEF Reconciled
    <3>3. k \in 1 .. n + 1
      BY <3>2
    <3> QED BY <3>1, <3>2, <3>3
  <2>2. CASE j \notin DOMAIN d.works
    <3>1. n + 1 \in 1 .. n + 1
      OBVIOUS
    <3> QED BY <1>7, <2>2, <3>1 DEF Settles, Adds
  <2> QED BY <2>1, <2>2
<1>4. /\ Len(u.audit) = n + 1
      /\ \A k \in 1 .. n : u.audit[k] = d.audit[k]
      /\ u.audit[n + 1].action = action
  <2>1. IsSeq(d.audit) /\ Len(d.audit) = n
    BY DEF Reconciled, IsDocument
  <2> QED BY <1>2, <2>1, Appending
<1>5. \A k \in 1 .. n : Holds(d, candidates[k]) => Holds(u, candidates[k])
  BY DEF Settles, Holds
<1>6. ASSUME NEW k \in 1 .. n + 1, u.audit[k].action \notin Skipped
      PROVE  Holds(u, candidates[k])
  <2>1. CASE k = n + 1
    BY <1>1, <1>2, <1>4, <1>6, <2>1
  <2>2. CASE k \in 1 .. n
    BY <1>4, <1>5, <1>6, <2>2 DEF Reconciled
  <2> QED BY <2>1, <2>2
<1> QED BY <1>3, <1>4, <1>6, <1>7 DEF Reconciled

\* What a pass makes of a manifest.
LEMMA ReconcileReconciles ==
  ASSUME NEW m, IsManifest(m), NEW answered, IsSeq(candidates)
  PROVE  Reconciled(Reconcile(m, answered), m, Len(candidates))
<1> DEFINE g == Reconciliations(m, answered)
           N == Len(candidates)
           S == {n \in Nat : n <= N => Reconciled(g[n], m, n)}
<1>1. N \in Nat
  BY SeqFacts
<1>2. \A n \in 0 .. N :
         g[n] = IF n = 0 THEN Repaired(m) ELSE Settle(g[n - 1], candidates[n], answered)
  BY ReconciliationsFold DEF IsFold
<1> HIDE DEF g, N
<1>3. 0 \in S
  <2>1. g[0] = Repaired(m)
    BY <1>1, <1>2
  <2> QED BY <2>1, RepairedIsDocument, CarriesIsReflexive, EmptyIsSeq DEF Reconciled
<1>4. ASSUME NEW n \in Nat, n \in S
      PROVE  n + 1 \in S
  <2> SUFFICES ASSUME n + 1 <= N
               PROVE  Reconciled(g[n + 1], m, n + 1)
    OBVIOUS
  <2>1. Reconciled(g[n], m, n)
    BY <1>1, <1>4
  <2>2. g[n + 1] = Settle(g[n], candidates[n + 1], answered)
    <3>1. n + 1 \in 0 .. N /\ n + 1 # 0 /\ (n + 1) - 1 = n
      BY <1>1
    <3> QED BY <1>2, <3>1
  <2>3. Settles(g[n], g[n + 1], candidates[n + 1])
    BY <2>1, <2>2, SettleSettles DEF Reconciled
  <2> QED BY <2>1, <2>3, ReconciledStep
<1>5. Nat \subseteq S
  <2> HIDE DEF S
  <2> QED BY <1>3, <1>4, Counting
<1>6. Reconciled(g[N], m, N)
  BY <1>1, <1>5
<1> QED BY <1>6 DEF g, N, Reconcile

-----------------------------------------------------------------------------
(* The written manifest.                                                   *)

\* In a manifest that loads, an occurrence that is there is under one work.
LEMMA FiledOnce ==
  ASSUME NEW m, IsManifest(m), Loads(m), NEW c, Holds(m, c)
  PROVE  /\ \E k : FiledUnder(c, m.works) = {k}
         /\ Cardinality(FiledUnder(c, m.works)) = 1
<1>1. PICK o \in m.occurrences : o.id = <<Applicant, c.page, c.cite>>
  BY DEF Holds
<1>2. IsOccurrence(o)
  BY DEF IsManifest
<1>3. o.folder = Applicant /\ o.cite = c.cite
  BY <1>1, <1>2 DEF IsOccurrence
<1>4. o = OccurrenceOf(c, o.work)
  BY <1>1, <1>2, <1>3 DEF IsOccurrence, OccurrenceOf
<1>5. UNION {w.occurrences : w \in ToSet(m.works)} = m.occurrences
  BY DEF Loads, ProvenanceIsExact
<1>6. \A i \in DOMAIN m.works : /\ m.works[i].occurrences \subseteq m.occurrences
                                /\ \A p \in m.works[i].occurrences : p.work = m.works[i].id
  BY <1>5 DEF Loads, ProvenanceIsExact, ToSet
<1>7. PICK k \in DOMAIN m.works : o \in m.works[k].occurrences
  BY <1>5 DEF ToSet
<1>8. o = OccurrenceOf(c, m.works[k].id)
  BY <1>4, <1>6, <1>7
<1>9. ASSUME NEW j \in DOMAIN m.works, OccurrenceOf(c, m.works[j].id) \in m.works[j].occurrences
      PROVE  j = k
  <2>1. PICK p : p = OccurrenceOf(c, m.works[j].id)
    OBVIOUS
  <2>2. p \in m.occurrences /\ p.id = o.id /\ p.work = m.works[j].id
    BY <1>1, <1>6, <1>9, <2>1 DEF OccurrenceOf
  <2>3. p = o
    BY <2>2 DEF Loads, ProvenanceIsExact
  <2>4. m.works[j].id = m.works[k].id
    BY <1>6, <1>7, <2>2, <2>3
  <2> QED BY <2>4 DEF Loads, WorksAreDistinct
<1>10. FiledUnder(c, m.works) = {k}
  BY <1>7, <1>8, <1>9 DEF FiledUnder
<1>11. Cardinality({k}) = 1
  BY FS_Singleton
<1> QED BY <1>10, <1>11

\* What a work lists the manifest holds.
LEMMA FiledIsHeld ==
  ASSUME NEW m, Loads(m), NEW c, NEW k \in FiledUnder(c, m.works)
  PROVE  Holds(m, c)
<1>1. PICK o : o = OccurrenceOf(c, m.works[k].id)
  OBVIOUS
<1>2. o.id = <<Applicant, c.page, c.cite>>
  BY <1>1 DEF OccurrenceOf
<1>3. k \in DOMAIN m.works /\ o \in m.works[k].occurrences
  BY <1>1 DEF FiledUnder
<1>4. o \in m.occurrences
  BY <1>3 DEF Loads, ProvenanceIsExact, ToSet
<1> QED BY <1>2, <1>4 DEF Holds

\* A manifest that keeps the works of another keeps its filings, and a work it
\* adds lists what the other did not.
LEMMA FilingsStay ==
  ASSUME NEW m, Loads(m), NEW r, IsManifest(r), Loads(r), KeepsWorks(m.works, r.works), NEW c
  PROVE  /\ FiledUnder(c, m.works) # {} => FiledUnder(c, r.works) = FiledUnder(c, m.works)
         /\ \A j \in DOMAIN r.works \ DOMAIN m.works :
               r.works[j].rep = OccurrenceOf(c, r.works[j].id) =>
                   j \in FiledUnder(c, r.works) /\ FiledUnder(c, m.works) = {}
<1>1. FiledUnder(c, m.works) \subseteq FiledUnder(c, r.works)
  BY DEF FiledUnder, KeepsWorks, KeepsWork
<1>2. FiledUnder(c, r.works) = {} \/ \E k : FiledUnder(c, r.works) = {k}
  BY FiledIsHeld, FiledOnce
<1>3. FiledUnder(c, m.works) # {} => FiledUnder(c, r.works) = FiledUnder(c, m.works)
  BY <1>1, <1>2
<1>4. ASSUME NEW j \in DOMAIN r.works \ DOMAIN m.works,
             r.works[j].rep = OccurrenceOf(c, r.works[j].id)
      PROVE  j \in FiledUnder(c, r.works) /\ FiledUnder(c, m.works) = {}
  <2>1. r.works[j].rep \in r.works[j].occurrences
    BY DEF Loads, WorkIsValid, ToSet
  <2>2. j \in FiledUnder(c, r.works)
    BY <1>4, <2>1 DEF FiledUnder
  <2>3. j \notin FiledUnder(c, m.works)
    BY DEF FiledUnder
  <2> QED BY <1>3, <2>2, <2>3
<1> QED BY <1>3, <1>4

LEMMA ValidReviews ==
  ASSUME NEW m, Loads(m)
  PROVE  \A k \in DOMAIN m.works : ReviewIsValid(m.works[k])
BY DEF Loads, WorkIsValid, ToSet, ReviewIsValid

LEMMA FinishedIsManifest ==
  ASSUME NEW d, IsDocument(d), NEW m, m = Finished(d.works, d.occurrences, d.statuses)
  PROVE  IsManifest(m) /\ m.works = d.works /\ m.occurrences = d.occurrences
<1>1. m.works = d.works /\ m.occurrences = d.occurrences
  BY DEF Finished
<1> QED BY <1>1 DEF IsDocument, IsManifest

-----------------------------------------------------------------------------
(* The invariant.                                                          *)

LEMMA CorpusInitInv == CorpusInit => CorpusInv
<1> SUFFICES ASSUME CorpusInit PROVE CorpusInv
  OBVIOUS
<1>1. passes = 0 /\ outcome = Idle /\ candidates = << >> /\ position = Start
  BY DEF CorpusInit, ExtractionInit
<1>2. IsReader(reader) /\ reader.buffer = << >>
  <2>1. PICK r : r = Closed
    OBVIOUS
  <2>2. DOMAIN r = {"active", "hint", "section", "columnYear", "buffer"} /\ r.buffer = << >>
    BY <2>1 DEF Closed
  <2>3. reader = r \/ reader = [r EXCEPT !.active = TRUE, !.hint = "PUBLISHED"]
    BY <2>1 DEF CorpusInit, ExtractionInit
  <2> QED BY <2>2, <2>3 DEF IsReader
<1>3. AreCandidates(candidates)
  BY <1>1, EmptyIsSeq DEF AreCandidates
<1>4. Follows(candidates, reader, 0)
  BY <1>1, <1>2, <1>3, NoLines, EmptyIsSeq DEF Follows
<1>5. DOMAIN position = {"page", "lines", "texts"} /\ position.lines = 0
  BY <1>1 DEF Start
<1>6. outcome.kind # "written"
  BY <1>1 DEF Idle
<1> QED BY <1>1, <1>2, <1>3, <1>4, <1>5, <1>6
       DEF CorpusInv, BufferFollowsCandidates, CandidatesStayInOrder, BaseIsManifest,
           ReconciliationIsAdditive, AcceptedReviewsStand

\* Every kind of line leaves the reader in order.
LEMMA ReadNextReads ==
  ASSUME Reads(candidates, reader, position), ReadNext
  PROVE  Reads(candidates', reader', position')
<1>1. CASE \E prefix \in Entries \cup {None} : InlineStop(prefix)
  BY <1>1, InlineStopReads
<1>2. CASE \E prefix, suffix \in Entries \cup {None}, hint \in Hints :
              InlineSection(prefix, hint, suffix)
  BY <1>2, InlineSectionReads
<1>3. CASE StopHeading \/ \E hint \in Hints : Heading(hint)
  BY <1>3, HeadingReads
<1>4. CASE BlankLine \/ IgnoredLine
  BY <1>4, BlankReads
<1>5. CASE \E e \in Entries, mark \in Marks : TextLine(e, mark, ColumnYear)
  BY <1>5, TextLineReads
<1>6. CASE NextPage
  BY <1>6, NextPageReads
<1> QED BY <1>1, <1>2, <1>3, <1>4, <1>5, <1>6 DEF ReadNext

LEMMA ReadNextInv ==
  ASSUME CorpusInv, ReadNext
  PROVE  CorpusInv'
<1>1. Reading /\ passes = 0 /\ outcome = Idle
  BY DEF ReadNext, Reading
<1>2. base' = base /\ outcome' = outcome /\ passes' = passes
  BY DEF ReadNext
<1>3. Reads(candidates', reader', position')
  BY <1>1, ReadNextReads DEF CorpusInv, BufferFollowsCandidates, Reads
<1>4. AreCandidates(candidates')
  BY <1>3 DEF Reads, Follows
<1>5. BufferFollowsCandidates'
  BY <1>3 DEF BufferFollowsCandidates, Reads
<1>6. CandidatesStayInOrder'
  BY <1>1, <1>2, <1>4 DEF CandidatesStayInOrder
<1>7. BaseIsManifest'
  BY <1>1, <1>2 DEF BaseIsManifest
<1>8. ReconciliationIsAdditive'
  BY <1>1, <1>2 DEF ReconciliationIsAdditive, Idle
<1>9. passes' \in Nat
  BY <1>1, <1>2
<1>10. AcceptedReviewsStand'
  BY <1>1, <1>2 DEF AcceptedReviewsStand, Idle
<1> QED BY <1>5, <1>6, <1>7, <1>8, <1>9, <1>10 DEF CorpusInv

LEMMA EndDocumentInv ==
  ASSUME CorpusInv, EndDocument
  PROVE  CorpusInv'
<1>1. /\ Reading /\ passes = 0 /\ passes' = 0 /\ candidates' = Flushed(reader)
      /\ outcome' = [kind |-> "extracted"]
  BY DEF EndDocument, Reading
<1>2. outcome'.kind = "extracted" /\ outcome' # Idle
  <2>1. outcome'.kind = "extracted"
    BY <1>1
  <2>2. Idle.kind = "idle"
    BY DEF Idle
  <2> QED BY <2>1, <2>2
<1>3. Follows(candidates, reader, position.lines)
  BY <1>1 DEF CorpusInv, BufferFollowsCandidates
<1>4. Closed.buffer = << >>
  BY DEF Closed
<1>5. Follows(candidates', Closed, position.lines)
  BY <1>1, <1>3, <1>4, Flushing
<1>6. BufferFollowsCandidates'
  BY <1>2 DEF BufferFollowsCandidates, Reading
<1>7. CandidatesStayInOrder'
  BY <1>1, <1>5 DEF CandidatesStayInOrder, Follows
<1>8. BaseIsManifest'
  BY <1>1 DEF BaseIsManifest
<1>9. ReconciliationIsAdditive'
  BY <1>2 DEF ReconciliationIsAdditive
<1>10. AcceptedReviewsStand'
  BY <1>2 DEF AcceptedReviewsStand
<1> QED BY <1>1, <1>6, <1>7, <1>8, <1>9, <1>10 DEF CorpusInv

LEMMA OpenBaseInv ==
  ASSUME CorpusInv, OpenBase
  PROVE  CorpusInv'
<1>1. /\ passes' = 1 /\ outcome' = Idle /\ base' \in Bases /\ Loads(base')
      /\ candidates' = [i \in DOMAIN candidates |-> [candidates[i] EXCEPT !.lines = << >>]]
  BY DEF OpenBase
<1>2. AreCandidates(candidates) /\ IsSeq(candidates)
  BY DEF OpenBase, CorpusInv, BaseIsManifest, CandidatesStayInOrder, AreCandidates
<1>3. CandidatesStayInOrder'
  <2>1. PICK cs : cs = candidates'
    OBVIOUS
  <2>2. Len(candidates) \in Nat /\ DOMAIN candidates = 1 .. Len(candidates)
    BY <1>2, SeqFacts
  <2>3. DOMAIN cs = 1 .. Len(candidates)
    BY <1>1, <2>1, <2>2
  <2>4. cs = [i \in 1 .. Len(candidates) |-> cs[i]]
    BY <1>1, <2>1, <2>2
  <2>5. ASSUME NEW i \in DOMAIN cs PROVE cs[i].lines = << >>
    <3>1. DOMAIN candidates[i] = {"cite", "page", "lines", "hint", "year"}
      BY <1>2, <2>2, <2>3 DEF AreCandidates
    <3>2. cs[i] = [candidates[i] EXCEPT !.lines = << >>]
      BY <1>1, <2>1, <2>2, <2>3
    <3> QED BY <3>1, <3>2
  <2>6. cs \in Seq(ToSet(cs))
    <3>1. PICK S : S = ToSet(cs)
      OBVIOUS
    <3>2. \A i \in 1 .. Len(candidates) : cs[i] \in S
      BY <2>3, <3>1 DEF ToSet
    <3> QED BY <2>2, <2>4, <3>1, <3>2
  <2> QED BY <1>1, <2>1, <2>5, <2>6 DEF CandidatesStayInOrder, IsSeq
<1>4. BufferFollowsCandidates'
  BY <1>1 DEF BufferFollowsCandidates, Reading
<1>5. BaseIsManifest'
  <2>1. IsManifest(base')
    BY <1>1, BasesAssumption
  <2>2. outcome'.kind # "extracted"
    BY <1>1 DEF Idle
  <2> QED BY <1>1, <2>1, <2>2 DEF BaseIsManifest
<1>6. ReconciliationIsAdditive'
  BY <1>1 DEF ReconciliationIsAdditive, Idle
<1>7. AcceptedReviewsStand'
  BY <1>1 DEF AcceptedReviewsStand, Idle
<1> QED BY <1>1, <1>3, <1>4, <1>5, <1>6, <1>7 DEF CorpusInv

\* What one run makes of the base and reports.
Passes(doc, result) ==
    /\ Reconciled(doc, base, Len(candidates))
    /\ IsManifest(result)
    /\ result.works = doc.works
    /\ result.occurrences = doc.occurrences
    /\ outcome'.before = base
    /\ outcome'.after = result
    /\ outcome'.audit = doc.audit
    /\ outcome'.kind # "extracted"
    /\ IF outcome'.kind = "written" THEN base' = result /\ Loads(result) ELSE base' = base

LEMMA RunPasses ==
  ASSUME CorpusInv, NEW answered, RunCorpusReconciliation(answered)
  PROVE  \E doc, result : Passes(doc, result)
<1>1. passes \in Nat /\ passes # 0
  BY DEF RunCorpusReconciliation, CorpusInv
<1>2. IsManifest(base) /\ IsSeq(candidates)
  BY <1>1 DEF CorpusInv, BaseIsManifest, CandidatesStayInOrder
<1>3. PICK doc : doc = Reconcile(base, answered)
  OBVIOUS
<1>4. PICK result : result = Finished(doc.works, doc.occurrences, doc.statuses)
  OBVIOUS
<1>5. PICK kind : kind = Verdict(result)
  OBVIOUS
<1>6. /\ outcome' = [kind |-> kind, before |-> base, after |-> result, audit |-> doc.audit]
      /\ base' = IF kind = "written" THEN result ELSE base
  BY <1>3, <1>4, <1>5 DEF RunCorpusReconciliation, Conclude
<1>7. Reconciled(doc, base, Len(candidates))
  BY <1>2, <1>3, ReconcileReconciles
<1>8. IsManifest(result) /\ result.works = doc.works /\ result.occurrences = doc.occurrences
  BY <1>4, <1>7, FinishedIsManifest DEF Reconciled
<1>9. kind # "extracted" /\ (kind = "written" => Loads(result))
  BY <1>5 DEF Verdict
<1>10. /\ outcome'.before = base /\ outcome'.after = result /\ outcome'.audit = doc.audit
       /\ outcome'.kind = kind
  BY <1>6
<1> QED BY <1>6, <1>7, <1>8, <1>9, <1>10 DEF Passes

LEMMA ReconciliationInv ==
  ASSUME CorpusInv, NEW answered, RunCorpusReconciliation(answered)
  PROVE  CorpusInv'
<1>1. /\ passes \in Nat /\ passes # 0 /\ passes' = passes + 1
      /\ candidates' = candidates /\ reader' = reader /\ position' = position
  BY DEF RunCorpusReconciliation, extractionVars, CorpusInv
<1>2. IsManifest(base) /\ Loads(base) /\ IsSeq(candidates)
  BY <1>1 DEF CorpusInv, BaseIsManifest, CandidatesStayInOrder
<1>3. PICK doc, result : Passes(doc, result)
  BY RunPasses
<1>9. BufferFollowsCandidates'
  BY <1>1 DEF BufferFollowsCandidates, Reading
<1>10. CandidatesStayInOrder'
  BY <1>1 DEF CorpusInv, CandidatesStayInOrder
<1>11. BaseIsManifest'
  BY <1>2, <1>3 DEF BaseIsManifest, Passes
<1>12. ReconciliationIsAdditive'
  <2> SUFFICES ASSUME outcome'.kind = "written" PROVE ReconciliationIsAdditive'
    BY DEF ReconciliationIsAdditive
  <2>1. /\ outcome'.before = base /\ outcome'.after = result /\ outcome'.audit = doc.audit
        /\ Loads(result) /\ IsManifest(result)
    BY <1>3 DEF Passes
  <2>3. ASSUME NEW i \in DOMAIN base.works
        PROVE  /\ result.works[i].id = base.works[i].id
               /\ base.works[i].occurrences \subseteq result.works[i].occurrences
               /\ \A f \in Fields : base.works[i].meta[f] # None =>
                                       result.works[i].meta[f] = base.works[i].meta[f]
    BY <1>3 DEF Passes, Reconciled, KeepsWorks, KeepsWork
  <2>4. ASSUME NEW i \in DOMAIN candidates, doc.audit[i].action \notin Skipped
        PROVE  Cardinality(FiledUnder(candidates[i], result.works)) = 1
    <3>1. i \in 1 .. Len(candidates)
      BY <1>2, SeqFacts
    <3>2. Holds(result, candidates[i])
      BY <1>3, <2>4, <3>1 DEF Passes, Reconciled, Holds
    <3> QED BY <2>1, <3>2, FiledOnce
  <2> QED BY <1>1, <2>1, <2>3, <2>4 DEF ReconciliationIsAdditive, Skipped
<1>13. passes' \in Nat
  BY <1>1
<1>14. AcceptedReviewsStand'
  <2> SUFFICES ASSUME outcome'.kind = "written" PROVE AcceptedReviewsStand'
    BY DEF AcceptedReviewsStand
  <2>1. outcome'.before = base /\ outcome'.after = result
    BY <1>3 DEF Passes
  <2>2. ASSUME NEW i \in DOMAIN base.works, Disposition(base.works[i]) \in AcceptedDispositions
        PROVE  \E j \in DOMAIN base.works :
                  /\ j = i \/ /\ base.works[j].folder = base.works[i].folder
                              /\ base.works[j].meta.title = base.works[i].meta.title
                  /\ Rank(base.works[j]) >= Rank(base.works[i])
                  /\ result.works[j].review = base.works[j].review
    <3>1. \A k \in DOMAIN base.works : ReviewIsValid(base.works[k])
      BY <1>2, ValidReviews
    <3>2. PICK j \in DOMAIN base.works :
             /\ j = i \/ /\ base.works[j].folder = base.works[i].folder
                         /\ base.works[j].meta.title = base.works[i].meta.title
             /\ Rank(base.works[j]) >= Rank(base.works[i])
             /\ Explicit(base.works[j])
             /\ Repaired(base).works[j].review = base.works[j].review
      BY <1>2, <2>2, <3>1, AcceptedAreRepaired
    <3>3. j \in DOMAIN Repaired(base).works
      BY <1>2, <3>2, RepairedIsDocument
    <3>4. Explicit(Repaired(base).works[j])
      BY <3>2 DEF Explicit, Disposition
    <3>5. result.works[j].review = base.works[j].review
      BY <1>3, <3>2, <3>3, <3>4 DEF Passes, Reconciled, Carries
    <3> QED BY <3>2, <3>5
  <2> QED BY <2>1, <2>2 DEF AcceptedReviewsStand
<1> QED BY <1>9, <1>10, <1>11, <1>12, <1>13, <1>14 DEF CorpusInv

LEMMA CorpusStutters ==
  ASSUME CorpusInv, UNCHANGED corpusVars
  PROVE  CorpusInv'
BY DEF CorpusInv, corpusVars, extractionVars, BufferFollowsCandidates, CandidatesStayInOrder,
       BaseIsManifest, ReconciliationIsAdditive, AcceptedReviewsStand, Reading

\* Candidates, buffer and manifests stay in order, whatever the document
\* holds, whatever Crossref answers and whatever the base manifest contains.
THEOREM CorpusHolds == CorpusSpec => []CorpusInv
<1>1. CorpusInv /\ [CorpusNext]_corpusVars => CorpusInv'
  <2> SUFFICES ASSUME CorpusInv, [CorpusNext]_corpusVars PROVE CorpusInv'
    OBVIOUS
  <2> QED BY ReadNextInv, EndDocumentInv, OpenBaseInv, ReconciliationInv, CorpusStutters
         DEF CorpusNext
<1> QED BY <1>1, CorpusInitInv, PTL DEF CorpusSpec

LEMMA CandidatesInOrder == CorpusInv => CandidatesKeepTheirSection
<1> SUFFICES ASSUME CorpusInv PROVE CandidatesKeepTheirSection
  OBVIOUS
<1>1. CASE passes # 0
  <2>1. \A i \in DOMAIN candidates : DOMAIN candidates[i].lines = {}
    BY <1>1 DEF CorpusInv, CandidatesStayInOrder
  <2> QED BY <1>1, <2>1 DEF CandidatesKeepTheirSection
<1>2. CASE passes = 0
  <2>1. AreCandidates(candidates)
    BY <1>2 DEF CorpusInv, CandidatesStayInOrder
  <2>2. ASSUME NEW i \in DOMAIN candidates, NEW j \in DOMAIN candidates[i].lines,
               NEW k \in DOMAIN candidates[i].lines
        PROVE  /\ candidates[i].lines[j].section = candidates[i].lines[k].section
               /\ candidates[i].lines[j].section[2] = candidates[i].hint
               /\ j < k => candidates[i].lines[j].number < candidates[i].lines[k].number
    <3>1. PICK n : n = candidates[i].lines[1].section[1]
      OBVIOUS
    <3>2. AreLines(candidates[i].lines, <<n, candidates[i].hint>>)
      BY <2>1, <3>1 DEF AreCandidates
    <3> QED BY <3>2 DEF AreLines
  <2>3. \A i, j \in DOMAIN candidates : i < j =>
           Last(candidates[i].lines).number <= candidates[j].lines[1].number
    BY <2>1 DEF AreCandidates
  <2> QED BY <2>2, <2>3 DEF CandidatesKeepTheirSection
<1> QED BY <1>1, <1>2

\* A candidate of the extraction holds lines of one section, in reading order
\* and with its status, and shares none with another candidate.
THEOREM CandidatesStayInSections == CorpusSpec => []CandidatesKeepTheirSection
BY CorpusHolds, CandidatesInOrder, PTL

\* A manifest the reconciliation writes keeps the works of its base and files
\* every candidate that was not skipped under exactly one work.
THEOREM ReconciliationAdds == CorpusSpec => []ReconciliationIsAdditive
<1>1. CorpusInv => ReconciliationIsAdditive
  BY DEF CorpusInv
<1> QED BY <1>1, CorpusHolds, PTL

\* An accepting review of the base stands in the written manifest, or one that
\* ranks as high does on a copy of the title.
THEOREM AcceptedReviewsAreKept == CorpusSpec => []AcceptedReviewsStand
<1>1. CorpusInv => AcceptedReviewsStand
  BY DEF CorpusInv
<1> QED BY <1>1, CorpusHolds, PTL

\* What the steps of FilingIsFinal are.
FilingStays ==
    passes # 0 =>
        /\ \A i \in DOMAIN candidates :
              FiledUnder(candidates[i], base.works) # {} =>
                  FiledUnder(candidates[i], base'.works) = FiledUnder(candidates[i], base.works)
        /\ \A j \in DOMAIN base'.works \ DOMAIN base.works : \E i \in DOMAIN candidates :
              /\ j \in FiledUnder(candidates[i], base'.works)
              /\ FiledUnder(candidates[i], base.works) = {}

LEMMA RunKeepsFilings ==
  ASSUME CorpusInv, NEW answered, RunCorpusReconciliation(answered)
  PROVE  FilingStays
<1>1. IsManifest(base) /\ Loads(base) /\ IsSeq(candidates)
  BY DEF RunCorpusReconciliation, CorpusInv, BaseIsManifest, CandidatesStayInOrder
<1>2. PICK doc, result : Passes(doc, result)
  BY RunPasses
<1>3. CASE outcome'.kind # "written"
  BY <1>2, <1>3 DEF Passes, FilingStays
<1>4. CASE outcome'.kind = "written"
  <2>1. base' = result /\ Loads(result) /\ IsManifest(result)
    BY <1>2, <1>4 DEF Passes
  <2>2. KeepsWorks(base.works, result.works)
    BY <1>2 DEF Passes, Reconciled
  <2>3. ASSUME NEW i \in DOMAIN candidates, FiledUnder(candidates[i], base.works) # {}
        PROVE  FiledUnder(candidates[i], result.works) = FiledUnder(candidates[i], base.works)
    BY <1>1, <2>1, <2>2, <2>3, FilingsStay
  <2>4. ASSUME NEW j \in DOMAIN result.works \ DOMAIN base.works
        PROVE  \E i \in DOMAIN candidates : /\ j \in FiledUnder(candidates[i], result.works)
                                            /\ FiledUnder(candidates[i], base.works) = {}
    <3>1. PICK i \in 1 .. Len(candidates) :
             result.works[j].rep = OccurrenceOf(candidates[i], result.works[j].id)
      BY <1>2 DEF Passes, Reconciled
    <3>2. i \in DOMAIN candidates
      BY <1>1, <3>1, SeqFacts
    <3> QED BY <1>1, <2>1, <2>2, <3>1, <3>2, FilingsStay
  <2> QED BY <2>1, <2>3, <2>4 DEF FilingStays
<1> QED BY <1>3, <1>4

\* Once a candidate is filed no later pass moves it, and no pass adds a work
\* for what is filed.
THEOREM FilingsAreFinal == CorpusSpec => FilingIsFinal
<1>1. CorpusInv /\ [CorpusNext]_corpusVars => [FilingStays]_corpusVars
  <2> SUFFICES ASSUME CorpusInv, CorpusNext PROVE FilingStays
    OBVIOUS
  <2>1. ASSUME ReadNext \/ EndDocument PROVE FilingStays
    BY <2>1 DEF ReadNext, EndDocument, Reading, FilingStays
  <2>2. ASSUME OpenBase PROVE FilingStays
    BY <2>2 DEF OpenBase, CorpusInv, BaseIsManifest, FilingStays
  <2> QED BY <2>1, <2>2, RunKeepsFilings DEF CorpusNext
<1> QED BY <1>1, CorpusHolds, PTL DEF CorpusSpec, FilingIsFinal, FilingStays

=============================================================================
