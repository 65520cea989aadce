---------------------------- MODULE Comparison ------------------------------
(***************************************************************************)
(* agents/template_comparison.py and agents/vendor_diff.py: which clauses  *)
(* of two versions of a contract are compared with each other, and which   *)
(* findings that gives.  A document is a sequence of clauses, its position *)
(* the clause's paragraph index; a finding is the position of its clause   *)
(* in the document it is reported for.  A text is a wording with a number  *)
(* in it.  How alike two texts are comes from difflib: data to this        *)
(* module, in percent.  The scan for legal concepts is left out.           *)
(***************************************************************************)
EXTENDS ValueDiff, Sequences

CONSTANTS
    Headings, NoHeading,    \* normalised headings; a clause need not have one
    Wordings,
    Noise,                  \* wordings that are dropped: cover text, badges, under 15 characters
    Brief,                  \* wordings of 15 to 19 characters
    HeadingRatio,           \* [Headings \X Headings -> percent], as are the next two
    Composite,              \* template comparison; of a wording with itself: with another number
    Ratio,                  \* the same for vendor diff
    Field                   \* the field that the numbers are values of

ASSUME ComparisonAssumption ==
    /\ NoHeading \notin Headings
    /\ Noise \subseteq Wordings /\ Brief \subseteq Wordings
    /\ Field \in Fields /\ Absent \notin Nat
    /\ HeadingRatio \in [Headings \X Headings -> 0..100]
    /\ \A h \in Headings : HeadingRatio[<<h, h>>] = 100
    /\ Composite \in [Wordings \X Wordings -> 0..99]     \* less than 100: only a text itself
    /\ Ratio \in [Wordings \X Wordings -> 0..99]         \* is like itself in full

-----------------------------------------------------------------------------
\* What both agents need.
SameText(a, b) == a.wording = b.wording /\ a.value = b.value

\* The likeness of two texts: that of their wordings, or all of it.
Likeness(likeness, a, b) ==
    IF SameText(a, b) THEN 100 ELSE likeness[<<a.wording, b.wording>>]

HeadingsAlike(percent, a, b) ==
    /\ a.heading # NoHeading /\ b.heading # NoHeading
    /\ HeadingRatio[<<a.heading, b.heading>>] >= percent

\* The first position with the highest score: later ones must be better.
FirstBest(scores) ==
    CHOOSE i \in DOMAIN scores : \A j \in DOMAIN scores :
        scores[j] < scores[i] \/ (scores[j] = scores[i] /\ i <= j)

\* The clauses that are not noise, and those long enough to be looked for.
Scanned(doc) == {i \in DOMAIN doc : doc[i].wording \notin Noise}
Kept(doc) == {i \in Scanned(doc) : doc[i].wording \notin Brief}

FieldChanges(a, b) == Changes(Field, a.value, b.value)

-----------------------------------------------------------------------------
\* Template comparison: the clause of doc that is most like c, and how much.
MatchScore(a, c) ==
    LET text == Likeness(Composite, a, c)
    IN  IF ~ HeadingsAlike(85, a, c) THEN text
        ELSE IF text > 85 THEN 100 ELSE text + 15

MatchScores(doc, c) == [i \in DOMAIN doc |-> MatchScore(doc[i], c)]

BestMatch(doc, c) == FirstBest(MatchScores(doc, c))

BestScore(doc, c) ==
    LET scores == MatchScores(doc, c)
    IN  IF doc = <<>> THEN 0 ELSE scores[FirstBest(scores)]

\* clause_added: nothing like it is in the template.
Added(template, draft) == {j \in Kept(draft) : BestScore(template, draft[j]) < 10}

Compared(template, draft) == Kept(draft) \ Added(template, draft)

\* As Matched would be if new clauses counted as matches too.
MatchedByNew(template, draft) ==
    IF template = <<>> THEN {} ELSE {BestMatch(template, draft[j]) : j \in Kept(draft)}

Matched(template, draft) == {BestMatch(template, draft[j]) : j \in Compared(template, draft)}

\* template_deviation: the text is not the template's any more.
Altered(template, draft) == {j \in Compared(template, draft) : BestScore(template, draft[j]) < 55}

\* As Valued would be if numbers were compared in altered clauses only.
ValuedIfAltered(template, draft) ==
    {j \in Altered(template, draft) :
        FieldChanges(template[BestMatch(template, draft[j])], draft[j]) # {}}

\* template_deviation: a number has changed.
Valued(template, draft) ==
    {j \in Compared(template, draft) :
        FieldChanges(template[BestMatch(template, draft[j])], draft[j]) # {}}

\* As Missing would be if it had the threshold of Added.
MissingIfUnlike(template, draft) ==
    {i \in Kept(template) \ Matched(template, draft) : BestScore(draft, template[i]) < 10}

\* clause_missing.
Missing(template, draft) ==
    {i \in Kept(template) \ Matched(template, draft) : BestScore(draft, template[i]) < 55}

-----------------------------------------------------------------------------
\* Vendor diff: the first clause of each heading of the draft.
ByHeading(draft) ==
    {i \in DOMAIN draft : /\ draft[i].heading # NoHeading
                          /\ \A k \in 1..(i - 1) : draft[k].heading # draft[i].heading}

\* The clause of the draft that c of the reply, at position j, is compared
\* with, 0 if none: that of the same heading, that of the likest heading, that
\* of the likest text, that at the same place.
FindBest(draft, c, j) ==
    LET same    == {i \in ByHeading(draft) : draft[i].heading = c.heading}
        heading == [i \in ByHeading(draft) |->
                       IF c.heading = NoHeading THEN 0 ELSE HeadingRatio[<<c.heading, draft[i].heading>>]]
        text    == [i \in DOMAIN draft |-> Likeness(Ratio, draft[i], c)]
    IN  IF same # {} THEN CHOOSE i \in same : TRUE
        ELSE IF \E i \in DOMAIN heading : heading[i] >= 80 THEN FirstBest(heading)
        ELSE IF \E i \in DOMAIN text : text[i] > 30 THEN FirstBest(text)
        ELSE IF j \in DOMAIN draft THEN j ELSE 0

\* The clauses of the draft that something was compared with.
Seen(draft, reply) == {FindBest(draft, reply[j], j) : j \in Scanned(reply)}

\* Virtually identical, without tracked changes.
Skipped(draft, reply, j) ==
    LET i == FindBest(draft, reply[j], j)
    IN  i # 0 /\ ~ reply[j].tracked /\ Likeness(Ratio, draft[i], reply[j]) > 95

\* vendor_redline: the clause is new or changed.
Redlined(draft, reply) == {j \in Scanned(reply) : ~ Skipped(draft, reply, j)}

\* vendor_redline: a number has changed.
RedlinedValues(draft, reply) ==
    {j \in Redlined(draft, reply) :
        LET i == FindBest(draft, reply[j], j)
        IN  i # 0 /\ FieldChanges(draft[i], reply[j]) # {}}

HeadingIn(c, doc) == \E j \in DOMAIN doc : doc[j].heading = c.heading

\* As Removed would be if clauses without a heading shared one.
RemovedUnlessHeading(draft, reply) ==
    {i \in Kept(draft) \ Seen(draft, reply) : ~ HeadingIn(draft[i], reply)}

\* vendor_redline: nothing was compared with it and its heading is gone.
Removed(draft, reply) ==
    {i \in Kept(draft) \ Seen(draft, reply) :
        draft[i].heading # NoHeading => ~ HeadingIn(draft[i], reply)}

=============================================================================
