------------------------------ MODULE Grouping ------------------------------
(***************************************************************************)
(* parsers/clause_extractor.py and parsers/pdf_parser.py: the paragraphs   *)
(* of a DOCX file, or the lines of a PDF file, become clauses.  Both are   *)
(* records: text and title are lengths, of the text and of what is left of *)
(* it without a leading number; marks are what regular expressions and     *)
(* styles say of it; changes are a paragraph's kinds of tracked changes.   *)
(* A line also has words, its text without case, and its page and size.    *)
(* A file's places are positions in the sequence; Nowhere is the heading   *)
(* of a clause without one, or "Section n".                                *)
(***************************************************************************)
EXTENDS Integers, Sequences, FiniteSets, SequencesExt

Nowhere == 0

\* Length of some paragraphs joined by line ends.
JoinedLength(file, places) == FoldLeft(LAMBDA n, p : n + file[p].text + 1, -1, places)

\* A clause's text: its body, or the title of its heading if it has none.
BodyLength(file, heading, body) ==
    IF body = <<>> THEN file[heading].title ELSE JoinedLength(file, body)

\* The clause that was being read.
ClauseRead(file, acc) ==
    [heading |-> acc.heading, body |-> acc.body, index |-> acc.index, changes |-> acc.changes,
     start |-> acc.cursor, end |-> acc.cursor + BodyLength(file, acc.heading, acc.body)]

\* As Flush would be if what comes before the first heading were left out.
FlushHeaded(file, acc) ==
    IF acc.heading = Nowhere THEN acc
    ELSE LET clause == ClauseRead(file, acc)
         IN  [acc EXCEPT !.cursor = clause.end + 1, !.out = Append(@, clause)]

\* flush, the same in both parsers.
Flush(file, acc) ==
    IF acc.heading = Nowhere /\ acc.body = <<>> THEN acc
    ELSE LET clause == ClauseRead(file, acc)
         IN  [acc EXCEPT !.cursor = clause.end + 1, !.out = Append(@, clause)]

\* Each heading begins a clause; what comes before the first is one, too.
\* A clause's paragraph_index is that of its heading.
Grouped(file, places, headings, index) ==
    LET step(acc, p) ==
            IF p \in headings
            THEN [Flush(file, acc) EXCEPT !.heading = p, !.body = <<>>, !.index = index[p],
                                          !.changes = file[p].changes]
            ELSE [acc EXCEPT !.body = Append(@, p), !.changes = @ \cup file[p].changes]
        none == [heading |-> Nowhere, body |-> <<>>, index |-> index[places[1]], changes |-> {},
                 cursor |-> 0, out |-> <<>>]
    IN  Flush(file, FoldLeft(step, none, places)).out

\* Without headings, each of some pieces of the file is a clause.  It has a
\* heading of its own if its first line is numbered.
Separate(file, pieces, index) ==
    LET step(acc, k) ==
            LET first == pieces[k][1]
            IN  Flush(file, [acc EXCEPT
                    !.heading = IF "numbered" \in file[first].marks THEN first ELSE Nowhere,
                    !.body = pieces[k], !.index = index[k],
                    !.changes = UNION {file[p].changes : p \in Range(pieces[k])}])
        none == [heading |-> Nowhere, body |-> <<>>, index |-> 0, changes |-> {},
                 cursor |-> 0, out |-> <<>>]
    IN  FoldLeft(step, none, [k \in DOMAIN pieces |-> k]).out

\* What a list has at some positions, in the list's order.
Among(list, positions) ==
    FlattenSeq([k \in DOMAIN list |-> IF k \in positions THEN <<list[k]>> ELSE <<>>])

\* Places in the file's order.
InTurn(file, places) == Among([p \in DOMAIN file |-> p], places)

-----------------------------------------------------------------------------
\* A paragraph that begins like "(a)" is no heading, whatever its style.
IsHeading(para) ==
    /\ "sub-clause" \notin para.marks
    /\ para.marks \cap {"heading style", "numbered", "capitals", "bold"} # {}

\* Tracked insertions and deletions are not in a paragraph's text: one that
\* has nothing else is blank.
ExtractClauses(file) ==
    LET places   == InTurn(file, {p \in DOMAIN file : file[p].text > 0})
        headings == {p \in Range(places) : IsHeading(file[p])}
    IN  CASE places = <<>> -> <<>>
          [] headings # {} -> Grouped(file, places, headings, [p \in DOMAIN file |-> p - 1])
          [] OTHER -> Separate(file, [k \in DOMAIN places |-> <<places[k]>>],
                               [k \in DOMAIN places |-> places[k] - 1])

-----------------------------------------------------------------------------
\* Pages without lines at the end are left out.
Pages(file) == file[Len(file)].page

\* A line is taken for a running header or footer if its words occur often
\* enough, on whatever pages; a file of one page has none.
IsRepeated(file, line) ==
    /\ Pages(file) > 1
    /\ LET often == IF Pages(file) \div 2 > 2 THEN Pages(file) \div 2 ELSE 2
       IN  Cardinality({p \in DOMAIN file : file[p].words = line.words}) >= often

\* The size in the middle, and a point more.
LargeSize(file) ==
    LET sizes  == SortSeq([p \in DOMAIN file |-> file[p].size], <)
    IN  sizes[Len(file) \div 2 + 1] + 1

IsHeadingLine(file, line) ==
    \/ line.marks \cap {"numbered", "capitals"} # {}
    \/ line.size >= LargeSize(file) /\ line.text \in 4..120

IsText(file, line) ==
    /\ ~ IsRepeated(file, line)
    /\ line.marks \cap {"margin", "number", "page n of m"} = {}

\* Pieces of the file between empty lines and ends of pages, as the parser
\* sees it when it reads it again to find paragraphs.
Paragraphs(file) ==
    LET piece(p) == Cardinality({q \in 2..p : \/ "after gap" \in file[q].marks
                                              \/ file[q].page # file[q - 1].page})
        lines(k) == InTurn(file, {p \in DOMAIN file : /\ ~ IsRepeated(file, file[p])
                                                      /\ "number" \notin file[p].marks
                                                      /\ piece(p) = k})
        pieces   == [k \in 1..(piece(Len(file)) + 1) |-> lines(k - 1)]
    IN  Among(pieces, {k \in DOMAIN pieces : JoinedLength(file, pieces[k]) > 20})

\* Clauses of less than ten characters are left out, with their headings.
IsSubstantial(file, clause) == BodyLength(file, clause.heading, clause.body) >= 10

ParsePdf(file) ==
    LET places   == InTurn(file, {p \in DOMAIN file : IsText(file, file[p])})
        headings == {p \in Range(places) : IsHeadingLine(file, file[p])}
        number   == [p \in DOMAIN file |-> Cardinality({k \in Range(places) : k < p})]
        pieces   == Paragraphs(file)
        clauses  == IF headings # {} THEN Grouped(file, places, headings, number)
                    ELSE Separate(file, pieces, [k \in DOMAIN pieces |-> k - 1])
    IN  Among(clauses, {k \in DOMAIN clauses : IsSubstantial(file, clauses[k])})

=============================================================================
