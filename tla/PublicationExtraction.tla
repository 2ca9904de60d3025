----------------------- MODULE PublicationExtraction -----------------------
(***************************************************************************)
(* extract_candidates_from_pages of app/importer/publication_extraction.py:*)
(* an applicant's PDF is read line by line; headings open and close the    *)
(* publication section, the lines of an entry are buffered, and a flush    *)
(* turns the buffer into a candidate.  The reader does not know what line  *)
(* comes next, so every document up to the bounds is explored.             *)
(*                                                                         *)
(* A line of running text carries one bibliographic entry; an entry the    *)
(* segmentation fails to separate from the next makes a citation of both.  *)
(* What the regular expressions find in a line is part of the line.        *)
(***************************************************************************)
EXTENDS PublicationManifest

CONSTANTS
    Entries,        \* bibliographic entries a line of text may hold
    Text,           \* Text[e]: what the parser finds in the entry
    OwnEntries,     \* entries that name the applicant and look like citations
    TerminalEntries,\* entries that end with a year, DOI or page range
    MaxLines, MaxPages, MaxTexts    \* bounds: lines, pages, lines of text

VARIABLES
    reader,         \* active, section hint, column year, buffer
    position,       \* page, lines and lines of text read so far
    candidates      \* what was flushed

extractionVars == <<reader, position, candidates>>

Hints == {"PUBLISHED", "ACCEPTED_PREPRINT", "UNDER_PREPARATION"}

Closed == [active |-> FALSE, hint |-> "", section |-> 0, columnYear |-> None, buffer |-> <<>>]

Start == [page |-> 1, lines |-> 0, texts |-> 0]

\* A file named as a publication list starts inside a section.
ExtractionInit ==
    /\ reader \in {Closed, [Closed EXCEPT !.active = TRUE, !.hint = "PUBLISHED"]}
    /\ position = Start
    /\ candidates = <<>>

-----------------------------------------------------------------------------
\* _join_lines: the entries of the buffered lines.
Joined(buffer) == [i \in DOMAIN buffer |-> buffer[i].entry]

HasTerminalEvidence(buffer) == buffer # <<>> /\ Last(buffer).entry \in TerminalEntries

\* The years found in the joined text, in order; a year column is part of it.
YearsIn(buffer) ==
    SelectSeq([i \in DOMAIN buffer |->
                  IF buffer[i].column # None THEN buffer[i].column
                  ELSE Text[buffer[i].entry].year], LAMBDA y : y # None)

\* The first year of the text, or the year column it stands under; an entry
\* in preparation has one only if its text starts with it.
CandidateYear(buffer, hint, columnYear) ==
    IF hint = "UNDER_PREPARATION" THEN buffer[1].column
    ELSE IF YearsIn(buffer) # <<>> THEN Head(YearsIn(buffer)) ELSE columnYear

YearIsOptional(buffer, hint) ==
    \/ hint \in {"ACCEPTED_PREPRINT", "UNDER_PREPARATION"}
    \/ \E i \in DOMAIN buffer : Text[buffer[i].entry].kind \in {"preparation", "preprint"}

\* _candidate_from_lines: a candidate or none.
IsCandidate(r) ==
    /\ r.buffer # <<>>
    /\ \E i \in DOMAIN r.buffer : r.buffer[i].entry \in OwnEntries
    /\ \/ CandidateYear(r.buffer, r.hint, r.columnYear) # None
       \/ YearIsOptional(r.buffer, r.hint)

CandidateFromLines(r) ==
    [cite |-> Joined(r.buffer),
     page |-> <<r.buffer[1].page, Last(r.buffer).page>>,
     lines |-> r.buffer,
     hint |-> r.hint,
     year |-> CandidateYear(r.buffer, r.hint, r.columnYear)]

\* The first of the candidates with the same pages and citation is kept.
Known(c) == \E i \in DOMAIN candidates :
                candidates[i].page = c.page /\ candidates[i].cite = c.cite

Flushed(r) ==
    IF IsCandidate(r) /\ ~Known(CandidateFromLines(r))
    THEN Append(candidates, CandidateFromLines(r)) ELSE candidates

Emptied(r) == [r EXCEPT !.buffer = <<>>]

Line(entry, column) ==
    [page |-> position.page, number |-> position.lines + 1,
     section |-> <<reader.section, reader.hint>>, entry |-> entry, column |-> column]

Buffered(r, entry, column) == [r EXCEPT !.buffer = Append(@, Line(entry, column))]

ReadLine(parts) ==
    LET texts == position.texts + Cardinality({i \in DOMAIN parts : parts[i] # None}) IN
    /\ position.lines < MaxLines
    /\ texts <= MaxTexts
    /\ position' = [position EXCEPT !.lines = @ + 1, !.texts = texts]

-----------------------------------------------------------------------------
(* One action per kind of line, in the order the loop tells them apart.    *)

\* A stop heading inside a line ends the section after the text before it.
InlineStop(prefix) ==
    LET r == IF prefix = None THEN reader ELSE Buffered(reader, prefix, None) IN
    /\ ReadLine(<<prefix>>)
    /\ reader.active
    /\ candidates' = Flushed(r)
    /\ reader' = [Emptied(r) EXCEPT !.active = FALSE, !.columnYear = None]

\* A section heading inside a line: the text before it belongs to the old
\* section, the text after it to the new one.  Only the heading of unpublished
\* work, which ends with a colon, leaves text after it; the other two patterns
\* run to the end of the line.  The year column stays.
InlineSection(prefix, hint, suffix) ==
    LET r == IF prefix = None THEN reader ELSE Buffered(reader, prefix, None)
        opened == [Emptied(r) EXCEPT !.hint = hint, !.section = @ + 1]
    IN
    /\ suffix # None => hint = "UNDER_PREPARATION"
    /\ ReadLine(<<prefix, suffix>>)
    /\ reader.active
    /\ candidates' = Flushed(r)
    /\ reader' = IF suffix = None THEN opened
                 ELSE [opened EXCEPT !.buffer =
                          <<[Line(suffix, None) EXCEPT !.section = <<opened.section, hint>>]>>]

FlushLate(r, hint) == Flushed([r EXCEPT !.hint = hint])
FlushAtHeading(r, hint) == Flushed(r)
Heading(hint) ==
    /\ ReadLine(<<>>)
    /\ candidates' = FlushAtHeading(reader, hint)
    /\ reader' = [Emptied(reader) EXCEPT !.active = TRUE, !.hint = hint,
                      !.section = @ + 1, !.columnYear = None]

StopHeading ==
    /\ ReadLine(<<>>)
    /\ candidates' = Flushed(reader)
    /\ reader' = [Emptied(reader) EXCEPT !.active = FALSE, !.columnYear = None]

\* A repeated header or footer, a page number, an explanatory line, or any
\* line outside a section.
IgnoredLine ==
    /\ ReadLine(<<>>)
    /\ UNCHANGED <<reader, candidates>>

BlankLine ==
    /\ ReadLine(<<>>)
    /\ reader.active
    /\ IF HasTerminalEvidence(reader.buffer)
       THEN candidates' = Flushed(reader) /\ reader' = Emptied(reader)
       ELSE UNCHANGED <<reader, candidates>>

\* A line of text, which an enumerator, a year column or the look of it may
\* mark as the start of an entry.
Marks == {"none", "start", "enumerator", "column"}

EndsEntry(mark) ==
    /\ reader.buffer # <<>>
    /\ \/ mark \in {"enumerator", "column"}
       \/ mark = "start" /\ HasTerminalEvidence(reader.buffer)

TextLine(entry, mark, year) ==
    LET r == IF EndsEntry(mark) THEN Emptied(reader) ELSE reader
        column == IF mark = "column" THEN year ELSE None
    IN
    /\ ReadLine(<<entry>>)
    /\ reader.active
    /\ candidates' = IF EndsEntry(mark) THEN Flushed(reader) ELSE candidates
    /\ reader' = [Buffered(r, entry, column) EXCEPT
                     !.columnYear = IF mark = "column" THEN year ELSE @]

NextPage ==
    /\ position.page < MaxPages
    /\ position.lines \in 1..(MaxLines - 1)
    /\ position' = [position EXCEPT !.page = @ + 1]
    /\ UNCHANGED <<reader, candidates>>
=============================================================================
