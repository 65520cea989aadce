----------------------------- MODULE Algorithms -----------------------------
(***************************************************************************)
(* The pure algorithms over all inputs up to a bound: a document given to  *)
(* chunking clause by clause, the answers of the two search backends for   *)
(* one query, hit by hit, two documents given to the comparing agents, the *)
(* old and the new value of one field, a contract given to the agents that *)
(* read it, phrase by phrase, or a file given to a parser.                 *)
(***************************************************************************)
EXTENDS Retrieval, Chunking, Comparison, LawRules, Checklist, Concepts, Extraction, Grouping

CONSTANTS
    MaxClauses, MaxWords,           \* bounds: clauses of a document, words of a clause
    MaxTokens, OverlapTokens, MinTokens,
    Ids, MaxHits,                   \* chunk ids; bound: hits of a backend
    K, Limit, Multiplier,           \* RRF constant, limit, candidate_multiplier
    Clauses, MaxLeft, MaxRight,     \* what compared documents are made of; bounds: their clauses
    Values,                         \* bound: the values that fields are given
    Titles, Phrases, MaxParts,      \* what contracts are made of; bound: their clauses and phrases
    ParagraphKinds, LineKinds,      \* what files are made of
    MaxParagraphs,                  \* bound: paragraphs or lines of a file
    ChecklistRules, Today           \* a checklist, and the day that it is applied

ASSUME ParametersAssumption ==
    /\ MaxClauses \in Nat /\ MaxWords \in Nat /\ MaxHits \in Nat
    /\ MaxTokens \in Nat \ {0} /\ OverlapTokens \in Nat /\ MinTokens \in Nat
    /\ K \in Nat /\ Limit \in Nat \ {0} /\ Multiplier \in Nat \ {0}
    /\ MaxLeft \in Nat /\ MaxRight \in Nat /\ Values \subseteq Nat
    /\ MaxParts \in Nat /\ Today \in Nat /\ MaxParagraphs \in Nat
    /\ Clauses \subseteq [heading : Headings \cup {NoHeading}, wording : Wordings,
                          value : Nat \cup {Absent}, tracked : BOOLEAN]
    /\ ParagraphKinds \subseteq [page : {0}, text : Nat, title : Nat,
                                 marks : SUBSET STRING, changes : SUBSET STRING]
    /\ LineKinds \subseteq [page : {1}, words : STRING, text : Nat, title : Nat, size : Nat,
                            marks : SUBSET STRING, changes : {{}}]

VARIABLES
    clauses,    \* the parsed clauses of a document
    vec,        \* chunk ids found by the vector search, best first
    lex,        \* chunk ids found by the lexical search, best first
    left,       \* the template, or the proposed draft
    right,      \* the draft, or the vendor's reply
    reading,    \* <<>>, or a field, its old and its new value
    contract,   \* clauses that the agents read
    file        \* paragraphs of a DOCX file, on page 0, or lines of a PDF file

answers == <<vec, lex>>
versions == <<left, right>>
vars == <<clauses, vec, lex, left, right, reading, contract, file>>

Init == /\ clauses = <<>> /\ vec = <<>> /\ lex = <<>>
        /\ left = <<>> /\ right = <<>> /\ reading = <<>> /\ contract = <<>> /\ file = <<>>

\* The words of a document are numbered, so that each is unique.
Words(document) == FoldLeft(LAMBDA n, c : n + Len(c.text), 0, document)

AddClause(n) ==
    LET id == Len(clauses) + 1
    IN  /\ vec = <<>> /\ lex = <<>> /\ left = <<>> /\ right = <<>> /\ reading = <<>>
        /\ contract = <<>> /\ file = <<>>
        /\ id <= MaxClauses
        /\ clauses' = Append(clauses,
              [id |-> id, text |-> [p \in 1..n |-> Words(clauses) + p]])
        /\ UNCHANGED <<answers, versions, reading, contract, file>>

VectorHit(id) ==
    /\ clauses = <<>> /\ left = <<>> /\ right = <<>> /\ reading = <<>>
    /\ contract = <<>> /\ file = <<>>
    /\ Len(vec) < MaxHits
    /\ vec' = Append(vec, id)
    /\ UNCHANGED <<clauses, lex, versions, reading, contract, file>>

LexicalHit(id) ==
    /\ clauses = <<>> /\ left = <<>> /\ right = <<>> /\ reading = <<>>
    /\ contract = <<>> /\ file = <<>>
    /\ Len(lex) < MaxHits
    /\ lex' = Append(lex, id)
    /\ UNCHANGED <<clauses, vec, versions, reading, contract, file>>

AddLeft(c) ==
    /\ clauses = <<>> /\ vec = <<>> /\ lex = <<>> /\ right = <<>> /\ reading = <<>>
    /\ contract = <<>> /\ file = <<>>
    /\ Len(left) < MaxLeft
    /\ left' = Append(left, c)
    /\ UNCHANGED <<clauses, answers, right, reading, contract, file>>

AddRight(c) ==
    /\ clauses = <<>> /\ vec = <<>> /\ lex = <<>> /\ reading = <<>>
    /\ contract = <<>> /\ file = <<>>
    /\ Len(right) < MaxRight
    /\ right' = Append(right, c)
    /\ UNCHANGED <<clauses, answers, left, reading, contract, file>>

ReadValues(field) ==
    /\ clauses = <<>> /\ vec = <<>> /\ lex = <<>> /\ left = <<>> /\ right = <<>>
    /\ contract = <<>> /\ file = <<>>
    /\ reading = <<>>
    /\ \E old, new \in Values : reading' = <<field, old, new>>
    /\ UNCHANGED <<clauses, answers, versions, contract, file>>

Parts(document) == Len(document) + Len(Joined(document))

StartClause(heading) ==
    /\ clauses = <<>> /\ vec = <<>> /\ lex = <<>> /\ left = <<>> /\ right = <<>> /\ reading = <<>>
    /\ file = <<>>
    /\ Parts(contract) < MaxParts
    /\ contract # <<>> => contract[Len(contract)].text # <<>>
    /\ contract' = Append(contract, [heading |-> heading, text |-> <<>>])
    /\ UNCHANGED <<clauses, answers, versions, reading, file>>

AddPhrase(phrase) ==
    /\ contract # <<>> /\ Parts(contract) < MaxParts
    /\ contract' = [contract EXCEPT ![Len(contract)].text = Append(@, phrase)]
    /\ UNCHANGED <<clauses, answers, versions, reading, file>>

AddParagraph(kind) ==
    /\ clauses = <<>> /\ vec = <<>> /\ lex = <<>> /\ left = <<>> /\ right = <<>> /\ reading = <<>>
    /\ contract = <<>>
    /\ Len(file) < MaxParagraphs
    /\ file # <<>> => file[1].page = 0
    /\ file' = Append(file, kind)
    /\ UNCHANGED <<clauses, answers, versions, reading, contract>>

\* A line is on the page of the one before it or on the next.
AddLine(kind) ==
    /\ clauses = <<>> /\ vec = <<>> /\ lex = <<>> /\ left = <<>> /\ right = <<>> /\ reading = <<>>
    /\ contract = <<>>
    /\ Len(file) < MaxParagraphs
    /\ file # <<>> => file[1].page > 0
    /\ \E next \in {0, 1} :
           LET page == IF file = <<>> THEN 1 ELSE Pages(file) + next
           IN  file' = Append(file, [kind EXCEPT !.page = page])
    /\ UNCHANGED <<clauses, answers, versions, reading, contract>>

Next == \/ \E n \in 1..MaxWords : AddClause(n)
        \/ \E id \in Ids : VectorHit(id) \/ LexicalHit(id)
        \/ \E c \in Clauses : AddLeft(c) \/ AddRight(c)
        \/ \E field \in Fields : ReadValues(field)
        \/ \E heading \in Titles : StartClause(heading)
        \/ \E phrase \in Phrases : AddPhrase(phrase)
        \/ \E kind \in ParagraphKinds : AddParagraph(kind)
        \/ \E kind \in LineKinds : AddLine(kind)

Spec == Init /\ [][Next]_vars

-----------------------------------------------------------------------------
Chunks == ChunkClauses(clauses, MaxTokens, OverlapTokens, MinTokens)

\* No word is lost, reordered or taken out of its context: the chunks are
\* stretches of the document, the first from its start, each further on than
\* the one before but without a gap, the last to its end.  And, chunking.py,
\* "the emitted chunk's REAL token count must fit", although the overlap is put
\* in front of the next word without being counted again.
ChunksHoldDocument ==
    clauses # <<>> =>
    LET C     == Chunks
        from  == [i \in DOMAIN C |-> C[i].text[1]]
        upTo  == [i \in DOMAIN C |-> C[i].text[Len(C[i].text)]]
    IN  /\ C # <<>>
        /\ \A i \in DOMAIN C : C[i].text = [p \in 1..Len(C[i].text) |-> from[i] + p - 1]
        /\ from[1] = 1
        /\ \A i \in 2..Len(C) : /\ from[i] <= upTo[i - 1] + 1
                                /\ from[i] > from[i - 1] /\ upTo[i] > upTo[i - 1]
        /\ upTo[Len(C)] = Words(clauses)
        /\ \A i \in DOMAIN C : Tokens(Len(C[i].text)) <= MaxTokens

\* retrieval_service.py: "a doc that ranks decently in BOTH lists beats one that
\* ranks highly in only one": decently is up to rank K.
BothBeatOne ==
    \A x \in Hits(vec) \cap Hits(lex) :
        Rank(vec, x) <= K /\ Rank(lex, x) <= K =>
        \A y \in (Hits(vec) \cup Hits(lex)) \ (Hits(vec) \cap Hits(lex)) :
            Above(Score(vec, lex, K, x), Score(vec, lex, K, y))

\* Asking the backends for some candidates only costs no result that they both
\* place among those: it stays within the limit.
CutoffKeepsResults ==
    LET n == Limit * Multiplier
        near(ranking, x) == x \in Hits(ranking) => Rank(ranking, x) < n
    IN  \A x \in Top(vec, lex, K, Limit) :
            near(vec, x) /\ near(lex, x) => x \in Retrieve(vec, lex, K, Limit, Multiplier)

-----------------------------------------------------------------------------
\* A document whose clauses can be told apart.
WellKept(doc) ==
    \A i, j \in DOMAIN doc : i # j => /\ ~ HeadingsAlike(80, doc[i], doc[j])
                                      /\ ~ SameText(doc[i], doc[j])

\* part has clauses of doc, in any order and each once.
PartOf(part, doc) ==
    /\ Len(part) <= Len(doc)
    /\ \A j \in DOMAIN part : \E i \in DOMAIN doc : doc[i] = part[j]
    /\ WellKept(part)

Gone(part, doc) == {i \in Kept(doc) : \A j \in DOMAIN part : part[j] # doc[i]}

\* A draft that leaves out template clauses and moves others is reported with
\* the clauses that it leaves out and nothing else, except those that another
\* clause is like.
DeletionsReported ==
    WellKept(left) /\ PartOf(right, left) =>
        /\ Added(left, right) = {} /\ Altered(left, right) = {} /\ Valued(left, right) = {}
        /\ Missing(left, right) =
              {i \in Gone(right, left) : \A j \in DOMAIN right : MatchScore(right[j], left[i]) < 55}

\* The same for a reply without tracked changes, where every clause left out
\* is reported.
VendorDeletionsReported ==
    WellKept(left) /\ PartOf(right, left) /\ (\A j \in DOMAIN right : ~ right[j].tracked) =>
        /\ Redlined(left, right) = {}
        /\ Removed(left, right) = Gone(right, left)

\* A clause of the template that nothing in the draft is like is reported:
\* itself as missing, or what stands in its place as altered.
NoClauseVanishes ==
    \A i \in Kept(left) :
        (\A j \in DOMAIN right : MatchScore(left[i], right[j]) < 55 /\ MatchScore(right[j], left[i]) < 55) =>
        \/ i \in Missing(left, right)
        \/ \E j \in Altered(left, right) : BestMatch(left, right[j]) = i

\* right is left with other numbers, in a document without repetitions.
Renumbered ==
    /\ WellKept(left)
    /\ \A i, j \in DOMAIN left : left[i].wording = left[j].wording => i = j
    /\ DOMAIN left = DOMAIN right
    /\ \A i \in DOMAIN left : /\ right[i].heading = left[i].heading
                              /\ right[i].wording = left[i].wording

\* Wordings that can be told apart: of all texts with other numbers, that of
\* the same wording is the likest, and like enough not to count as new.
LikestItself ==
    \A v \in Wordings : /\ Composite[<<v, v>>] >= 10
                        /\ \A w \in Wordings \ {v} : Composite[<<w, v>>] < Composite[<<v, v>>]

NumbersChanged == {i \in Kept(left) : FieldChanges(left[i], right[i]) # {}}

\* template_comparison.py: value-level diff "fires even when text similarity is
\* above the altered threshold": exactly the changed numbers are reported.
ValuesReported == Renumbered => Valued(left, right) = NumbersChanged

\* vendor_diff.py: value-level diff "runs even when text similarity is high —
\* never silently ignores changes".
VendorValuesReported == Renumbered => NumbersChanged \subseteq RedlinedValues(left, right)

\* A changed value that meets a trigger of its field has at least the trigger's
\* severity, "regardless of % change" (clause_analyzer.py).
TriggersFire ==
    reading # <<>> /\ reading[2] # reading[3] =>
        \A t \in Triggers(reading[1]) :
            Fires(t, reading[3]) => Severity(reading[1], reading[2], reading[3]) >= t.sev

\* The further a value goes from the old one, to the side where the field's
\* triggers are, the more severe: a worse clause is never reported as milder.
WorseIsNoMilder ==
    reading # <<>> =>
        LET field == reading[1]
            old   == reading[2]
            new   == reading[3]
        IN  \A worse \in Values :
                \/ old < new /\ new < worse /\ (\A t \in Triggers(field) : t.op = "gt")
                \/ old > new /\ new > worse /\ (\A t \in Triggers(field) : t.op # "gt")
                => Severity(field, old, worse) >= Severity(field, old, new)

-----------------------------------------------------------------------------
\* Where the phrases of a contract stand.
Places == UNION {{c} \X DOMAIN contract[c].text : c \in DOMAIN contract}
PhraseAt(place) == contract[place[1]].text[place[2]]

\* The marks of a term in its usual wording.
Usual(field) ==
    CASE field = "payment_days"       -> {"shall pay", "within", "invoice"}
      [] field = "notice_days"        -> {"terminate", "written notice"}
      [] field = "duration_months"    -> {"term of"}
      [] field = "advance_percent"    -> {"advance"}
      [] field = "penalty_percent"    -> {"penalty of"}
      [] field = "contract_value_inr" -> {"contract value"}
      [] field = "confidentiality_years" -> {"confidential"}
      [] field = "court_city"         -> {"dispute", "courts at"}

Units == [payment_days |-> "day", notice_days |-> "day", duration_months |-> "month",
          advance_percent |-> "percent", penalty_percent |-> "percent",
          contract_value_inr |-> "inr", confidentiality_years |-> "year"]

Years(unit) == IF unit = "year" THEN "month" ELSE unit

\* Phrases that cannot be mistaken for each other: their wordings have nothing
\* in common, and their units only if they are percents or days.
Apart(p, q) ==
    /\ p.marks \cap q.marks = {}
    /\ Years(p.number.unit) = Years(q.number.unit) => p.number.unit \in {"none", "day", "percent"}

\* A term in its usual wording, its number in digits.
Term(phrase, field) ==
    /\ Usual(field) \subseteq phrase.marks
    /\ field \in DOMAIN Units =>
          /\ phrase.number.unit = Units[field]
          /\ phrase.number.digits # Absent /\ phrase.number.words = Absent

\* The codes of the checklist's rules that fail.
Failed == {f.code : f \in {g \in ChecklistFindings(contract, ChecklistRules, Today) : g.sev # 0}}

PaymentLaw(text) == {rule.id : rule \in {r \in PaymentTerms : Violates(r, text)}}

\* What the checklist, the law rules and the clause analyzer read at a place,
\* and what is found, is the term that is written there.
TermRead(place) ==
    LET phrase == PhraseAt(place)
        n      == phrase.number.digits
        text   == contract[place[1]].text
        full   == ClauseText(contract[place[1]])
        read   == Extracted(contract)
        city   == FirstIn(KnownCities, phrase.marks)
    IN  /\ Term(phrase, "payment_days") =>
              /\ read.payment_days = n /\ StatedDays(text) = n /\ Value(full, "payment_days") = n
              /\ "MSME_PAY" \in Failed <=> n > 45
              /\ "MSME_payment_over_45_days" \in PaymentLaw(text) <=> n > 45
              /\ "PAYMENT_excess_90_days" \in PaymentLaw(text) <=> n >= 90
        /\ Term(phrase, "notice_days") =>
              /\ Value(full, "notice_days") = n
              /\ "F" \in Failed <=> n < 30 \/ n > 90
        /\ Term(phrase, "duration_months") =>
              /\ read.agreement_duration_months = n /\ Value(full, "duration_months") = n
              /\ "A" \in Failed <=> n < 12 \/ n > 36
        /\ Term(phrase, "advance_percent") =>
              /\ read.advance_payment_percent = n /\ Value(full, "advance_percent") = n
              /\ "D" \in Failed <=> n > 10
        /\ Term(phrase, "contract_value_inr") =>
              /\ read.contract_value_inr = n /\ Value(full, "contract_value_inr") = n
              /\ "E" \in Failed <=> n >= 5000000
        /\ Term(phrase, "court_city") /\ city # Absent =>
              /\ read.dispute_court_city = city /\ CourtOf(full) = city
              /\ "C" \in Failed <=> city # "mumbai"

\* Three agents read the same contract, each with patterns of its own: where
\* no other phrase can be mistaken for a term, they read the number that is
\* written and find what the MSME limit, the law and the checklist say of it.
TermsRead ==
    \A place \in Places :
        (\A other \in Places \ {place} : Apart(PhraseAt(place), PhraseAt(other))) => TermRead(place)

-----------------------------------------------------------------------------
\* The phrases that differ from one in their number at most.
Revisions(phrase) ==
    {new \in Phrases : new.marks = phrase.marks /\ new.number.unit = phrase.number.unit}

\* clause_analyzer.py: "numerically different clauses that look nearly identical
\* in text are never silently passed": a term whose number is changed is reported,
\* if the clause's type is one that it is read for, and no other term is.
ChangedTermsReported ==
    \A place \in Places :
        LET clause == contract[place[1]]
            phrase == PhraseAt(place)
            terms  == {field \in DOMAIN Units : Term(phrase, field)}
        IN  /\ terms # {}
            /\ \A p \in DOMAIN clause.text \ {place[2]} : Apart(phrase, clause.text[p])
            => \A new \in Revisions(phrase) :
                  LET revised == [clause EXCEPT !.text[place[2]] = new]
                  IN  {change.field : change \in Diff(clause, revised)} =
                      {field \in terms : phrase # new /\ Classify(revised) \in ReadFor(field)}

-----------------------------------------------------------------------------
\* Reading on never takes back what was found in an earlier clause, be it a
\* violation of the law, a missing notice or a concept, whether the draft or
\* the template goes on; and finds nothing missing that was there.
FindingsStable ==
    [][LET template == ConceptFindings(Tail(contract'), <<contract'[1]>>)
           draft    == ConceptFindings(<<contract'[1]>>, Tail(contract'))
           law      == LawFindings(contract')
           before   == {f.rule : f \in MissingTerms(contract)}
       IN  /\ \A f \in Violations(contract) \cup MissingInClauses(contract) :
                 f.clause # Len(contract) => f \in law
           /\ \A f \in MissingTerms(contract') : f.rule \in before
           /\ Len(contract) > 1 =>
                 /\ ConceptFindings(Tail(contract), <<contract[1]>>) \subseteq template
                 /\ \A f \in ConceptFindings(<<contract[1]>>, Tail(contract)) :
                       f.clause # Len(contract) - 1 => f \in draft]_contract

-----------------------------------------------------------------------------
\* Where the text of a clause comes from.
Sources(clause) ==
    IF clause.heading \in {Nowhere} \cup Range(clause.body) THEN clause.body
    ELSE <<clause.heading>> \o clause.body

\* Clauses lie one behind the other, as far as their numbers say.
InOrder(list) ==
    \A k \in 2..Len(list) : /\ list[k].start > list[k - 1].end
                            /\ list[k].index > list[k - 1].index

\* Every paragraph of a DOCX file with a text is in one clause, in the file's
\* order, whatever its headings; the clause has the tracked changes of its
\* paragraphs, and its offsets count its text.
ParagraphsKept ==
    LET C == ExtractClauses(file)
    IN  /\ FlattenSeq([k \in DOMAIN C |-> Sources(C[k])]) =
              InTurn(file, {p \in DOMAIN file : file[p].text > 0})
        /\ \A k \in DOMAIN C :
              C[k].changes = UNION {file[p].changes : p \in Range(Sources(C[k]))}
        /\ InOrder(C)

\* Every line of a PDF file that can be told from a running header, a page
\* number and a heading and that is not short is in one clause, be there
\* headings or not; lines and clauses are in the file's order.
LinesKept ==
    LET C       == ParsePdf(file)
        short   == IF \E p \in DOMAIN file : IsText(file, file[p]) /\ IsHeadingLine(file, file[p])
                   THEN 9 ELSE 20
        body(p) == /\ file[p].text > short /\ ~ IsHeadingLine(file, file[p])
                   /\ file[p].marks \cap {"margin", "number", "page n of m"} = {}
                   /\ \A q \in DOMAIN file \ {p} : file[q].words # file[p].words
    IN  /\ InOrder(C)
        /\ \A k, l \in DOMAIN C : \A p \in Range(C[k].body), q \in Range(C[l].body) :
              k < l => p < q
        /\ \A p \in DOMAIN file : body(p) => \E k \in DOMAIN C : p \in Range(C[k].body)

\* What the parsers make of a file is the file.
FileKept == file # <<>> => IF file[1].page = 0 THEN ParagraphsKept ELSE LinesKept

=============================================================================
