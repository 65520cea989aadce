---------------------------- MODULE MCAlgorithms ----------------------------
(* Small inputs for TLC. *)
EXTENDS Algorithms, TLC

CONSTANTS i1, i2, i3, i4

Symmetry == Permutations(Ids)

\* Two headings that are alike, and one that is not.
MCHeadingRatio ==
    [p \in Headings \X Headings |->
        IF p[1] = p[2] THEN 100 ELSE IF "payment" \in {p[1], p[2]} THEN 30 ELSE 90]

\* "term" is long, so that another number hardly changes it; "fee" is short;
\* they are a little alike, "audit" and "badge" are like nothing else.
MCComposite ==
    [p \in Wordings \X Wordings |->
        CASE p = <<"term", "term">> -> 96 [] p = <<"fee", "fee">> -> 70
          [] p = <<"term", "fee">>  -> 45 [] p = <<"fee", "term">> -> 35
          [] OTHER -> IF p[1] = p[2] THEN 80 ELSE 5]

\* As the theorem on the changed numbers supposes.
ASSUME WordingsApart == LikestItself

MCRatio ==
    [p \in Wordings \X Wordings |->
        CASE p = <<"term", "term">> -> 97 [] p = <<"fee", "fee">> -> 85
          [] p = <<"term", "fee">>  -> 35 [] p = <<"fee", "term">> -> 35
          [] OTHER -> IF p[1] = p[2] THEN 80 ELSE 20]

Clause(heading, wording, value) ==
    [heading |-> heading, wording |-> wording, value |-> value, tracked |-> FALSE]

MCClauses ==
    {Clause("payment", "term", 30), Clause("payment", "term", 60),
     Clause("schedule a", "fee", 30), Clause("schedule b", "fee", 60),
     Clause(NoHeading, "fee", 30), Clause(NoHeading, "audit", Absent),
     Clause(NoHeading, "badge", Absent),
     [Clause("payment", "term", 60) EXCEPT !.tracked = TRUE]}

\* Phrases of contracts.
Phrase(marks, number) == [marks |-> marks, standard |-> {}, number |-> number]

MCPhrases ==
    {Phrase({"shall pay", "within", "invoice", "payment days"}, Number("day", n, Absent)) : n \in {45, 90}}
    \cup {Phrase({"terminate", "written notice", "TERM_no_notice_period"}, Number("day", n, Absent)) :
              n \in {29, 30}}
    \cup {Phrase({"advance"}, Number("percent", 11, Absent)),
          Phrase({"penalty of", "ICA_74_liquidated_damages",
                  "Penalty / liquidated damages clause inserted"}, Number("percent", 2, Absent)),
          [Phrase({"dispute", "courts at", "mumbai", "GOV_LAW_missing", "jurisdiction"}, NoNumber)
              EXCEPT !.standard = {"Audit rights removed"}],
          Phrase({"contract value"}, Number("inr", 5000000, Absent))}
    \cup {Phrase({"confidential", "CONF_missing"}, Number("year", n, Absent)) : n \in {2, 3}}
    \cup {Phrase({"term of", "brief"}, Number("month", n, Absent)) : n \in {24, 37}}

MCTitles == {{}, {"payment"}}

MCChecklistRules == DefaultRules

\* Paragraphs: a blank one, one wholly deleted, headings with and without a
\* number, a plain one, one with tracked changes, a sub-clause in bold.
Paragraph(text, title, marks, changes) ==
    [page |-> 0, text |-> text, title |-> title, marks |-> marks, changes |-> changes]

MCParagraphKinds ==
    {Paragraph(0, 0, {}, {}), Paragraph(0, 0, {}, {"deletion"}),
     Paragraph(4, 4, {"heading style"}, {"insertion"}), Paragraph(7, 5, {"numbered"}, {}),
     Paragraph(12, 12, {}, {}), Paragraph(9, 9, {}, {"deletion", "strikethrough"}),
     Paragraph(6, 6, {"sub-clause", "bold"}, {})}

\* Lines: a heading, a large one, long and short ones, a footer, a page number.
Line(words, text, title, marks, size) ==
    [page |-> 1, words |-> words, text |-> text, title |-> title, marks |-> marks,
     size |-> size, changes |-> {}]

MCLineKinds ==
    {Line("fees", 8, 6, {"numbered"}, 10), Line("term", 12, 12, {}, 11),
     Line("fee", 30, 30, {}, 10), Line("vat", 15, 15, {"after gap"}, 10),
     Line("none", 5, 5, {}, 10), Line("draft", 25, 25, {"margin"}, 10),
     Line("7", 1, 1, {"number"}, 10)}

=============================================================================
