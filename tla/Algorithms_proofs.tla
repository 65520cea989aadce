------------------------- MODULE Algorithms_proofs -------------------------
(***************************************************************************)
(* What the pure algorithms promise, for every constant and every input:   *)
(* - reciprocal rank fusion (retrieval_service.py): a chunk that both      *)
(*   rankings place up to rank K has a higher score than any chunk that    *)
(*   only one of them has, and the candidates asked of each backend        *)
(*   suffice;                                                              *)
(* - the rating of a changed value (clause_analyzer.py): triggers fire,    *)
(*   and what is further off is not rated milder;                          *)
(* - the comparing agents (template_comparison.py, vendor_diff.py): what   *)
(*   is deleted is reported, no clause vanishes, changed numbers are       *)
(*   reported;                                                             *)
(* - the reading agents (law_validator.py, template_comparison.py): what   *)
(*   is found does not depend on what comes later;                         *)
(* - chunking (chunk_service.py): chunks hold the whole document, in turn, *)
(*   within their budget;                                                  *)
(* - the parsers (clause_extractor.py, pdf_parser.py): clauses keep what   *)
(*   the file has, in its order.                                           *)
(***************************************************************************)
EXTENDS Algorithms, TLAPS, FiniteSetTheorems, SequenceTheorems, WellFoundedInduction

\* Answers are finite sequences.
Lists == vec \in Seq(Ids) /\ lex \in Seq(Ids)

LEMMA ListsAlways == Spec => []Lists
<1>1. Init => Lists
  BY DEF Init, Lists
<1>2. Lists /\ [Next]_vars => Lists'
  <2>1. SUFFICES ASSUME Lists, [Next]_vars PROVE Lists'
    OBVIOUS
  <2>2. CASE \E n \in 1..MaxWords : AddClause(n)
    BY <2>1, <2>2 DEF Lists, AddClause, answers
  <2>3. CASE \E id \in Ids : VectorHit(id)
    BY <2>1, <2>3 DEF Lists, VectorHit
  <2>4. CASE \E id \in Ids : LexicalHit(id)
    BY <2>1, <2>4 DEF Lists, LexicalHit
  <2>5. CASE \E c \in Clauses : AddLeft(c) \/ AddRight(c)
    BY <2>1, <2>5 DEF Lists, AddLeft, AddRight, answers
  <2>6. CASE \E field \in Fields : ReadValues(field)
    BY <2>1, <2>6 DEF Lists, ReadValues, answers
  <2>7. CASE \E heading \in Titles : StartClause(heading)
    BY <2>1, <2>7 DEF Lists, StartClause, answers
  <2>8. CASE \E phrase \in Phrases : AddPhrase(phrase)
    BY <2>1, <2>8 DEF Lists, AddPhrase, answers
  <2>9. CASE \E kind \in ParagraphKinds : AddParagraph(kind)
    BY <2>1, <2>9 DEF Lists, AddParagraph, answers
  <2>10. CASE \E kind \in LineKinds : AddLine(kind)
    BY <2>1, <2>10 DEF Lists, AddLine, answers
  <2>11. CASE UNCHANGED vars
    BY <2>1, <2>11 DEF Lists, vars
  <2>12. QED
    BY <2>1, <2>2, <2>3, <2>4, <2>5, <2>6, <2>7, <2>8, <2>9, <2>10, <2>11 DEF Next
<1>3. QED
  BY <1>1, <1>2, PTL DEF Spec

\* A hit has a best position.
LEMMA RankIsNatural ==
    ASSUME NEW S, NEW ranking \in Seq(S), NEW id \in Hits(ranking)
    PROVE  Rank(ranking, id) \in Nat
<1> DEFINE At == {i \in DOMAIN ranking : ranking[i] = id}
<1>1. DOMAIN ranking \subseteq Nat /\ \A i \in DOMAIN ranking : i >= 1
  OBVIOUS
<1>2. At # {} /\ At \subseteq Nat
  BY <1>1 DEF Hits
<1>3. PICK i \in At : \A j \in At : ~ (<<j, i>> \in OpToRel(<, Nat))
  <2> HIDE DEF At
  <2> QED
    BY <1>2, WFMin, NatLessThanWellFounded
<1>4. \A j \in At : i <= j
  <2>1. SUFFICES ASSUME NEW j \in At, j < i PROVE FALSE
    <3> HIDE DEF At
    <3> QED BY <1>2
  <2>2. OpToRel(<, Nat) = {ss \in Nat \X Nat : ss[1] < ss[2]}
    BY Zenon DEF OpToRel
  <2>3. <<j, i>> \in {ss \in Nat \X Nat : ss[1] < ss[2]}
    BY <1>2, <2>1
  <2>4. QED
    BY <1>3, <2>2, <2>3
<1>5. \E k \in DOMAIN ranking :
        ranking[k] = id /\ \A j \in DOMAIN ranking : ranking[j] = id => k <= j
  BY <1>4
<1>6. QED
  BY <1>1, <1>5 DEF Rank

\* The arithmetic: 1/a + 1/b > 1/c for a and b below 2c.
LEMMA TwoShares ==
    ASSUME NEW a \in Nat \ {0}, NEW b \in Nat \ {0}, NEW c \in Nat \ {0},
           a < 2 * c, b < 2 * c
    PROVE  (a + b) * c > a * b
<1>1. a * b <= (2 * c - 1) * b
  OBVIOUS
<1>2. a * b <= (2 * c - 1) * a
  OBVIOUS
<1>3. (2 * c - 1) * b < (2 * c) * b /\ (2 * c - 1) * a < (2 * c) * a
  OBVIOUS
<1>4. (2 * c) * a = 2 * (c * a) /\ (2 * c) * b = 2 * (c * b)
  OBVIOUS
<1>5. (a + b) * c = c * a + c * b
  OBVIOUS
<1>6. a * b \in Nat /\ c * a \in Nat /\ c * b \in Nat
  OBVIOUS
<1>7. QED
  BY <1>1, <1>2, <1>3, <1>4, <1>5, <1>6

\* Ranks up to K in both rankings beat the first place of either alone.
LEMMA BothBeatOneInLists ==
    ASSUME Lists PROVE BothBeatOne
<1>1. SUFFICES ASSUME NEW x \in Hits(vec) \cap Hits(lex),
                      Rank(vec, x) <= K, Rank(lex, x) <= K,
                      NEW y \in (Hits(vec) \cup Hits(lex)) \ (Hits(vec) \cap Hits(lex))
               PROVE  Above(Score(vec, lex, K, x), Score(vec, lex, K, y))
  BY DEF BothBeatOne
<1> DEFINE a == K + Rank(vec, x) + 1
           b == K + Rank(lex, x) + 1
           c == IF y \in Hits(vec) THEN K + Rank(vec, y) + 1 ELSE K + Rank(lex, y) + 1
<1>2. K \in Nat
  BY ParametersAssumption
<1>3. Rank(vec, x) \in Nat /\ Rank(lex, x) \in Nat
  BY RankIsNatural DEF Lists
<1>4. IF y \in Hits(vec) THEN Rank(vec, y) \in Nat ELSE Rank(lex, y) \in Nat
  BY RankIsNatural DEF Lists
<1>5. a \in Nat \ {0} /\ b \in Nat \ {0} /\ c \in Nat \ {0} /\ c >= K + 1
  BY <1>2, <1>3, <1>4
<1>6. a < 2 * c /\ b < 2 * c
  BY <1>1, <1>2, <1>3, <1>5
<1>7. (a + b) * c > a * b
  BY <1>5, <1>6, TwoShares
<1>8. Score(vec, lex, K, x) = [num |-> a + b, den |-> a * b]
  BY DEF Score
<1>9. Score(vec, lex, K, y) = [num |-> 1, den |-> c]
  BY DEF Score
<1>10. QED
  <2> HIDE DEF a, b, c
  <2>1. a * b \in Nat
    BY <1>5
  <2>2. QED
    BY <1>7, <1>8, <1>9, <2>1 DEF Above

\* retrieval_service.py, reciprocal_rank_fusion: whatever the backends answer.
THEOREM BothBeatOneAlways == Spec => []BothBeatOne
BY ListsAlways, BothBeatOneInLists, PTL

-----------------------------------------------------------------------------
\* A reading is of a known field and of natural numbers.
Readings == reading = <<>> \/ \E field \in Fields : \E old, new \in Values : reading = <<field, old, new>>

LEMMA ReadingsAlways == Spec => []Readings
<1>1. Init => Readings
  BY DEF Init, Readings
<1>2. Readings /\ [Next]_vars => Readings'
  <2>1. SUFFICES ASSUME Readings, [Next]_vars PROVE Readings'
    OBVIOUS
  <2>2. CASE \E n \in 1..MaxWords : AddClause(n)
    BY <2>1, <2>2 DEF Readings, AddClause
  <2>3. CASE \E id \in Ids : VectorHit(id) \/ LexicalHit(id)
    BY <2>1, <2>3 DEF Readings, VectorHit, LexicalHit
  <2>4. CASE \E c \in Clauses : AddLeft(c) \/ AddRight(c)
    BY <2>1, <2>4 DEF Readings, AddLeft, AddRight
  <2>5. CASE \E field \in Fields : ReadValues(field)
    BY <2>5 DEF Readings, ReadValues
  <2>6. CASE \E heading \in Titles : StartClause(heading)
    BY <2>1, <2>6 DEF Readings, StartClause
  <2>7. CASE \E phrase \in Phrases : AddPhrase(phrase)
    BY <2>1, <2>7 DEF Readings, AddPhrase
  <2>8. CASE \E kind \in ParagraphKinds : AddParagraph(kind)
    BY <2>1, <2>8 DEF Readings, AddParagraph
  <2>9. CASE \E kind \in LineKinds : AddLine(kind)
    BY <2>1, <2>9 DEF Readings, AddLine
  <2>10. CASE UNCHANGED vars
    BY <2>1, <2>10 DEF Readings, vars
  <2>11. QED
    BY <2>1, <2>2, <2>3, <2>4, <2>5, <2>6, <2>7, <2>8, <2>9, <2>10 DEF Next
<1>3. QED
  BY <1>1, <1>2, PTL DEF Spec

\* A set of severities that is not empty has a highest one.
LEMMA HighestIs ==
    ASSUME NEW ranks \in SUBSET (1..4), ranks # {}
    PROVE  Highest(ranks) \in ranks /\ \A t \in ranks : t <= Highest(ranks)
<1>1. \E s \in ranks : \A t \in ranks : t <= s
  <2>1. CASE 4 \in ranks
    BY <2>1
  <2>2. CASE 4 \notin ranks /\ 3 \in ranks
    BY <2>2
  <2>3. CASE 4 \notin ranks /\ 3 \notin ranks /\ 2 \in ranks
    BY <2>3
  <2>4. CASE 4 \notin ranks /\ 3 \notin ranks /\ 2 \notin ranks
    <3>1. \A s \in ranks : s \in 1..4
      OBVIOUS
    <3>2. \A s \in ranks : s = 1
      BY <2>4, <3>1
    <3>3. PICK s \in ranks : TRUE
      OBVIOUS
    <3>4. \A t \in ranks : t <= s
      BY <3>2, <3>3
    <3>5. QED
      BY <3>3, <3>4
  <2>5. QED
    BY <2>1, <2>2, <2>3, <2>4
<1>2. QED
  BY <1>1 DEF Highest

\* A trigger is a comparison with a natural number and has a severity.
LEMMA TriggersTyped ==
    ASSUME NEW field, NEW t \in Triggers(field)
    PROVE  /\ t.op \in {"gt", "lt", "le"} /\ t.limit \in Nat /\ t.sev \in 1..4
           /\ t = [op |-> t.op, limit |-> t.limit, sev |-> t.sev]
<1>1. QED
  BY DEF Triggers, Trigger, Low, Medium, High, Critical

LEMMA FiredTyped ==
    ASSUME NEW field, NEW value
    PROVE  Fired(field, value) \subseteq 1..4
  BY TriggersTyped DEF Fired

\* A changed value exceeds at least the lowest band.
LEMMA ExceededTyped ==
    ASSUME NEW old \in Nat, NEW new \in Nat, old # new
    PROVE  Exceeded(old, new) \subseteq 1..4 /\ Low \in Exceeded(old, new)
<1>1. Distance(old, new) \in Nat /\ Distance(old, new) > 0
  BY DEF Distance
<1>2. [over |-> 0, sev |-> Low] \in Bands
  BY DEF Bands
<1>3. 100 * Distance(old, new) > 0 * old
  BY <1>1
<1>4. \A band \in Bands : band.sev \in 1..4
  BY DEF Bands, Low, Medium, High, Critical
<1>5. QED
  BY <1>2, <1>3, <1>4 DEF Exceeded

LEMMA SeverityIs ==
    ASSUME NEW field, NEW old \in Nat, NEW new \in Nat, old # new
    PROVE  LET ranks == Exceeded(old, new) \cup Fired(field, new)
           IN  /\ ranks \subseteq 1..4
               /\ Severity(field, old, new) \in ranks
               /\ \A s \in ranks : s <= Severity(field, old, new)
<1> DEFINE ranks == Exceeded(old, new) \cup Fired(field, new)
<1>1. ranks \in SUBSET (1..4) /\ ranks # {}
  BY ExceededTyped, FiredTyped
<1>2. Severity(field, old, new) = Highest(ranks)
  BY DEF Severity
<1>3. QED
  BY <1>1, <1>2, HighestIs

\* A value on the far side of another exceeds the bands that that one exceeds.
LEMMA ExceededGrows ==
    ASSUME NEW old \in Nat, NEW new \in Nat, NEW worse \in Nat,
           (old < new /\ new < worse) \/ (old > new /\ new > worse)
    PROVE  Exceeded(old, new) \subseteq Exceeded(old, worse)
<1>1. Distance(old, new) \in Nat /\ Distance(old, worse) \in Nat
      /\ Distance(old, worse) >= Distance(old, new)
  BY DEF Distance
<1>2. \A b \in Bands : b.over \in Nat
  BY DEF Bands
<1>3. \A b \in Bands : 100 * Distance(old, new) > b.over * old
                         => 100 * Distance(old, worse) > b.over * old
  <2>1. SUFFICES ASSUME NEW b \in Bands, 100 * Distance(old, new) > b.over * old
                 PROVE  100 * Distance(old, worse) > b.over * old
    OBVIOUS
  <2>2. DEFINE limit == b.over * old
  <2>3. limit \in Nat
    BY <1>2
  <2>4. 100 * Distance(old, new) > limit
    BY <2>1
  <2> HIDE DEF limit
  <2>5. 100 * Distance(old, worse) > limit
    BY <1>1, <2>3, <2>4
  <2>6. QED
    BY <2>5 DEF limit
<1>4. QED
  BY <1>3 DEF Exceeded

\* On the side of its triggers, a worse value fires what a better one fires.
LEMMA FiredGrows ==
    ASSUME NEW field, NEW new \in Nat, NEW worse \in Nat,
           \/ new < worse /\ \A t \in Triggers(field) : t.op = "gt"
           \/ new > worse /\ \A t \in Triggers(field) : t.op # "gt"
    PROVE  Fired(field, new) \subseteq Fired(field, worse)
<1>1. \A t \in Triggers(field) : Fires(t, new) => Fires(t, worse)
  BY TriggersTyped DEF Fires
<1>2. QED
  BY <1>1 DEF Fired

\* A changed value that meets a trigger of its field has at least the
\* trigger's severity, for every field and all values.
THEOREM TriggersFireAlways == Spec => []TriggersFire
<1>1. Readings => TriggersFire
  <2>1. SUFFICES ASSUME NEW field \in Fields, NEW old \in Values, NEW new \in Values,
                        reading = <<field, old, new>>, old # new,
                        NEW t \in Triggers(field), Fires(t, new)
                 PROVE  Severity(field, old, new) >= t.sev
    BY DEF Readings, TriggersFire
  <2>2. t.sev \in Fired(field, new)
    BY <2>1 DEF Fired
  <2>3. old \in Nat /\ new \in Nat
    BY ParametersAssumption
  <2>4. QED
    BY <2>1, <2>2, <2>3, SeverityIs
<1>2. QED
  BY <1>1, ReadingsAlways, PTL

\* A worse value is never reported as milder, for every field and all values.
THEOREM WorseIsNoMilderAlways == Spec => []WorseIsNoMilder
<1>1. Readings => WorseIsNoMilder
  <2>1. SUFFICES ASSUME NEW field \in Fields, NEW old \in Values, NEW new \in Values,
                        reading = <<field, old, new>>, NEW worse \in Values,
                        \/ old < new /\ new < worse /\ (\A t \in Triggers(field) : t.op = "gt")
                        \/ old > new /\ new > worse /\ (\A t \in Triggers(field) : t.op # "gt")
                 PROVE  Severity(field, old, worse) >= Severity(field, old, new)
    BY DEF Readings, WorseIsNoMilder
  <2>2. old \in Nat /\ new \in Nat /\ worse \in Nat
    BY ParametersAssumption
  <2>3. old # new /\ old # worse
    BY <2>1, <2>2
  <2>4. Exceeded(old, new) \cup Fired(field, new) \subseteq Exceeded(old, worse) \cup Fired(field, worse)
    BY <2>1, <2>2, ExceededGrows, FiredGrows
  <2>5. QED
    BY <2>2, <2>3, <2>4, SeverityIs
<1>2. QED
  BY <1>1, ReadingsAlways, PTL

-----------------------------------------------------------------------------
(* The comparing agents.                                                   *)

\* Documents are finite sequences of clauses.
Versions == left \in Seq(Clauses) /\ right \in Seq(Clauses)

LEMMA VersionsAlways == Spec => []Versions
<1>1. Init => Versions
  BY DEF Init, Versions
<1>2. Versions /\ [Next]_vars => Versions'
  <2>1. SUFFICES ASSUME Versions, [Next]_vars PROVE Versions'
    OBVIOUS
  <2>2. CASE \E n \in 1..MaxWords : AddClause(n)
    BY <2>1, <2>2 DEF Versions, AddClause, versions
  <2>3. CASE \E id \in Ids : VectorHit(id) \/ LexicalHit(id)
    BY <2>1, <2>3 DEF Versions, VectorHit, LexicalHit, versions
  <2>4. CASE \E c \in Clauses : AddLeft(c)
    BY <2>1, <2>4 DEF Versions, AddLeft
  <2>5. CASE \E c \in Clauses : AddRight(c)
    BY <2>1, <2>5 DEF Versions, AddRight
  <2>6. CASE \E field \in Fields : ReadValues(field)
    BY <2>1, <2>6 DEF Versions, ReadValues, versions
  <2>7. CASE \E heading \in Titles : StartClause(heading)
    BY <2>1, <2>7 DEF Versions, StartClause, versions
  <2>8. CASE \E phrase \in Phrases : AddPhrase(phrase)
    BY <2>1, <2>8 DEF Versions, AddPhrase, versions
  <2>9. CASE \E kind \in ParagraphKinds : AddParagraph(kind)
    BY <2>1, <2>9 DEF Versions, AddParagraph, versions
  <2>10. CASE \E kind \in LineKinds : AddLine(kind)
    BY <2>1, <2>10 DEF Versions, AddLine, versions
  <2>11. CASE UNCHANGED vars
    BY <2>1, <2>11 DEF Versions, vars
  <2>12. QED
    BY <2>1, <2>2, <2>3, <2>4, <2>5, <2>6, <2>7, <2>8, <2>9, <2>10, <2>11 DEF Next
<1>3. QED
  BY <1>1, <1>2, PTL DEF Spec

\* A set of natural numbers that is not empty has a least one.
LEMMA Least ==
    ASSUME NEW S \in SUBSET Nat, S # {}
    PROVE  \E m \in S : \A n \in S : m <= n
<1>1. PICK m \in S : \A n \in S : ~ (<<n, m>> \in OpToRel(<, Nat))
  BY WFMin, NatLessThanWellFounded
<1>2. OpToRel(<, Nat) = {ss \in Nat \X Nat : ss[1] < ss[2]}
  BY Zenon DEF OpToRel
<1>3. ASSUME NEW n \in S, n < m PROVE FALSE
  <2>1. <<n, m>> \in {ss \in Nat \X Nat : ss[1] < ss[2]}
    BY <1>3
  <2>2. QED
    BY <1>1, <1>2, <2>1
<1>4. \A n \in S : m <= n
  BY <1>3
<1>5. QED
  BY <1>4

\* Among some scores there is a first best one.
LEMMA FirstBestIs ==
    ASSUME NEW D \in SUBSET Nat, D # {}, NEW scores \in [D -> 0..100]
    PROVE  /\ FirstBest(scores) \in D
           /\ \A j \in D : \/ scores[j] < scores[FirstBest(scores)]
                           \/ scores[j] = scores[FirstBest(scores)] /\ FirstBest(scores) <= j
<1>0. \A j \in D : scores[j] \in 0..100 /\ 100 - scores[j] \in Nat
  OBVIOUS
<1>1. PICK S : S = {100 - scores[j] : j \in D}
  OBVIOUS
<1>2. PICK s \in S : \A t \in S : s <= t
  <2>1. S \subseteq Nat
    BY <1>0, <1>1
  <2>2. S # {}
    <3>1. PICK d : d \in D
      OBVIOUS
    <3>2. 100 - scores[d] \in S
      BY <1>1, <3>1
    <3>3. QED
      BY <3>2
  <2>3. QED
    BY <2>1, <2>2, Least
<1>3. PICK i \in D : \A j \in D : scores[j] <= scores[i]
  <2>1. PICK i \in D : s = 100 - scores[i]
    BY <1>1
  <2>2. \A j \in D : 100 - scores[i] <= 100 - scores[j]
    BY <1>1, <1>2, <2>1
  <2>3. ASSUME NEW j \in D PROVE scores[j] <= scores[i]
    <3>1. scores[i] \in Int /\ scores[j] \in Int /\ 100 - scores[i] <= 100 - scores[j]
      BY <1>0, <2>2
    <3>2. QED
      BY <3>1
  <2>4. QED
    BY <2>3
<1>4. PICK T \in SUBSET Nat : T = {j \in D : scores[j] = scores[i]}
  OBVIOUS
<1>5. PICK k \in T : \A j \in T : k <= j
  BY <1>4, Least
<1>6. \A j \in D : scores[j] < scores[k] \/ (scores[j] = scores[k] /\ k <= j)
  <2>1. SUFFICES ASSUME NEW j \in D PROVE scores[j] < scores[k] \/ (scores[j] = scores[k] /\ k <= j)
    OBVIOUS
  <2>2. scores[k] = scores[i] /\ scores[j] \in Int /\ scores[i] \in Int /\ scores[j] <= scores[i]
    BY <1>0, <1>3, <1>4
  <2>3. scores[j] = scores[i] => k <= j
    BY <1>4, <1>5
  <2>4. QED
    BY <2>2, <2>3
<1>7. k \in D
  BY <1>4
<1>8. QED
  BY <1>6, <1>7 DEF FirstBest

\* The fields of a clause.
LEMMA ClauseFields ==
    ASSUME NEW c \in Clauses
    PROVE  /\ c.heading \in Headings \cup {NoHeading} /\ c.wording \in Wordings
           /\ c.value \in Nat \cup {Absent} /\ c.tracked \in BOOLEAN
BY ParametersAssumption

LEMMA ClauseAt ==
    ASSUME NEW doc \in Seq(Clauses), NEW i \in DOMAIN doc
    PROVE  doc[i] \in Clauses /\ i \in Nat
OBVIOUS

\* How alike two clauses are.
LEMMA LikenessIs ==
    ASSUME NEW a \in Clauses, NEW c \in Clauses
    PROVE  /\ Likeness(Composite, a, c) \in 0..100 /\ Likeness(Ratio, a, c) \in 0..100
           /\ SameText(a, c) => Likeness(Composite, a, c) = 100 /\ Likeness(Ratio, a, c) = 100
           /\ ~ SameText(a, c) => Likeness(Composite, a, c) < 100 /\ Likeness(Ratio, a, c) < 100
<1>1. <<a.wording, c.wording>> \in Wordings \X Wordings
  BY ClauseFields
<1>2. Composite[<<a.wording, c.wording>>] \in 0..99 /\ Ratio[<<a.wording, c.wording>>] \in 0..99
  BY <1>1, ComparisonAssumption
<1>3. QED
  BY <1>2 DEF Likeness

\* Template comparison's score of two clauses.
LEMMA MatchScoreIs ==
    ASSUME NEW a \in Clauses, NEW c \in Clauses
    PROVE  /\ MatchScore(a, c) \in 0..100
           /\ SameText(a, c) => MatchScore(a, c) = 100
           /\ ~ SameText(a, c) /\ ~ HeadingsAlike(85, a, c) => MatchScore(a, c) < 100
<1>1. PICK text \in 0..100 : text = Likeness(Composite, a, c)
  BY LikenessIs
<1>2. MatchScore(a, c) = IF ~ HeadingsAlike(85, a, c) THEN text
                         ELSE IF text > 85 THEN 100 ELSE text + 15
  BY <1>1 DEF MatchScore
<1>3. QED
  BY <1>1, <1>2, LikenessIs

\* What template comparison compares a clause with.
LEMMA BestMatchIs ==
    ASSUME NEW doc \in Seq(Clauses), doc # <<>>, NEW c \in Clauses
    PROVE  /\ BestMatch(doc, c) \in DOMAIN doc
           /\ BestScore(doc, c) = MatchScore(doc[BestMatch(doc, c)], c)
           /\ \A i \in DOMAIN doc :
                 \/ MatchScore(doc[i], c) < BestScore(doc, c)
                 \/ MatchScore(doc[i], c) = BestScore(doc, c) /\ BestMatch(doc, c) <= i
<1>1. PICK scores \in [DOMAIN doc -> 0..100] : scores = MatchScores(doc, c)
  <2>1. ASSUME NEW i \in DOMAIN doc PROVE MatchScore(doc[i], c) \in 0..100
    <3>1. PICK a \in Clauses : a = doc[i]
      BY ClauseAt
    <3>2. QED
      BY <3>1, MatchScoreIs
  <2>2. QED
    BY <2>1 DEF MatchScores
<1>2. DOMAIN doc \in SUBSET Nat /\ DOMAIN doc # {}
  OBVIOUS
<1>3. PICK i : i = FirstBest(scores)
  OBVIOUS
<1>4. i \in DOMAIN doc /\ \A j \in DOMAIN doc :
          scores[j] < scores[i] \/ (scores[j] = scores[i] /\ i <= j)
  BY <1>2, <1>3, FirstBestIs
<1>5. BestMatch(doc, c) = i /\ BestScore(doc, c) = scores[i]
  BY <1>1, <1>3 DEF BestMatch, BestScore
<1>6. \A j \in DOMAIN doc : scores[j] = MatchScore(doc[j], c)
  BY <1>1 DEF MatchScores
<1>7. QED
  BY <1>4, <1>5, <1>6

\* The best score is below a threshold if and only if every score is.
LEMMA BestScoreBelow ==
    ASSUME NEW doc \in Seq(Clauses), NEW c \in Clauses, NEW n \in 1..100
    PROVE  BestScore(doc, c) < n <=> \A i \in DOMAIN doc : MatchScore(doc[i], c) < n
<1>1. CASE doc = <<>>
  BY <1>1 DEF BestScore
<1>2. CASE doc # <<>>
  <2>1. PICK b \in DOMAIN doc : BestScore(doc, c) = MatchScore(doc[b], c)
    BY <1>2, BestMatchIs
  <2>2. PICK r \in 0..100 : r = BestScore(doc, c)
    <3>1. PICK a \in Clauses : a = doc[b]
      BY ClauseAt
    <3>2. MatchScore(a, c) \in 0..100
      BY MatchScoreIs
    <3>3. QED
      BY <2>1, <3>1, <3>2
  <2>3. ASSUME NEW i \in DOMAIN doc PROVE \E q \in 0..100 : q = MatchScore(doc[i], c) /\ q <= r
    <3>1. PICK q \in 0..100 : q = MatchScore(doc[i], c)
      <4>1. PICK a \in Clauses : a = doc[i]
        BY ClauseAt
      <4>2. MatchScore(a, c) \in 0..100
        BY MatchScoreIs
      <4>3. QED
        BY <4>1, <4>2
    <3>2. q < r \/ q = r
      BY <1>2, <2>2, <3>1, BestMatchIs
    <3>3. q <= r
      BY <3>2
    <3>4. QED
      BY <3>1, <3>3, Zenon
  <2>4. ASSUME r < n, NEW i \in DOMAIN doc PROVE MatchScore(doc[i], c) < n
    <3>1. PICK q \in 0..100 : q = MatchScore(doc[i], c) /\ q <= r
      BY <2>3
    <3>2. q < n
      BY <2>4, <3>1
    <3>3. QED
      BY <3>1, <3>2, Zenon
  <2>5. QED
    BY <2>1, <2>2, <2>4
<1>3. QED
  BY <1>1, <1>2

\* A clause of the template that nothing in the draft is like is reported,
\* for all documents and whatever difflib makes of them: by what was compared
\* with it, as altered, or as missing.
THEOREM NoClauseVanishesAlways == Spec => []NoClauseVanishes
<1>1. Versions => NoClauseVanishes
  <2>1. SUFFICES ASSUME Versions, NEW i \in Kept(left), i \notin Missing(left, right),
                        \A j \in DOMAIN right : /\ MatchScore(left[i], right[j]) < 55
                                                /\ MatchScore(right[j], left[i]) < 55
                 PROVE  \E j \in Altered(left, right) : BestMatch(left, right[j]) = i
    BY DEF NoClauseVanishes
  <2>2. i \in DOMAIN left /\ left[i] \in Clauses /\ left # <<>>
    <3>1. i \in DOMAIN left
      BY <2>1 DEF Kept, Scanned
    <3>2. QED
      BY <2>1, <3>1, ClauseAt DEF Versions
  <2>3. BestScore(right, left[i]) < 55
    BY <2>1, <2>2, BestScoreBelow DEF Versions
  <2>4. PICK j \in Compared(left, right) : i = BestMatch(left, right[j])
    BY <2>1, <2>3 DEF Missing, Matched
  <2>5. j \in DOMAIN right /\ right[j] \in Clauses
    <3>1. j \in DOMAIN right
      BY <2>4 DEF Compared, Kept, Scanned
    <3>2. QED
      BY <2>1, <3>1, ClauseAt DEF Versions
  <2>6. BestScore(left, right[j]) = MatchScore(left[i], right[j])
    BY <2>1, <2>2, <2>4, <2>5, BestMatchIs DEF Versions
  <2>7. QED
    BY <2>1, <2>4, <2>5, <2>6 DEF Altered
<1>2. QED
  BY <1>1, VersionsAlways, PTL

\* In a document whose clauses can be told apart, a clause is likest itself.
LEMMA ItselfIsBest ==
    ASSUME NEW doc \in Seq(Clauses), WellKept(doc), NEW i \in DOMAIN doc
    PROVE  BestMatch(doc, doc[i]) = i /\ BestScore(doc, doc[i]) = 100
<1>1. doc[i] \in Clauses /\ doc # <<>> /\ i \in Nat
  BY ClauseAt
<1>2. PICK b \in DOMAIN doc :
          /\ b = BestMatch(doc, doc[i]) /\ BestScore(doc, doc[i]) = MatchScore(doc[b], doc[i])
          /\ \/ MatchScore(doc[i], doc[i]) < BestScore(doc, doc[i])
             \/ MatchScore(doc[i], doc[i]) = BestScore(doc, doc[i])
  BY <1>1, BestMatchIs
<1>3. MatchScore(doc[i], doc[i]) = 100
  BY <1>1, MatchScoreIs DEF SameText
<1>4. PICK r \in 0..100 : r = MatchScore(doc[b], doc[i])
  <2>1. PICK a \in Clauses, c \in Clauses : a = doc[b] /\ c = doc[i]
    BY <1>1, ClauseAt
  <2>2. MatchScore(a, c) \in 0..100
    BY MatchScoreIs
  <2>3. QED
    BY <2>1, <2>2
<1>5. r = 100
  <2>1. 100 < r \/ 100 = r
    BY <1>2, <1>3, <1>4
  <2>2. QED
    BY <2>1
<1>6. ASSUME b # i PROVE FALSE
  <2>1. ~ HeadingsAlike(80, doc[b], doc[i]) /\ ~ SameText(doc[b], doc[i])
    BY <1>6 DEF WellKept
  <2>2. ~ HeadingsAlike(85, doc[b], doc[i])
    <3>1. SUFFICES ASSUME HeadingsAlike(85, doc[b], doc[i]) PROVE FALSE
      OBVIOUS
    <3>2. doc[b].heading \in Headings /\ doc[i].heading \in Headings
      BY <1>1, <3>1, ClauseAt, ClauseFields DEF HeadingsAlike
    <3>3. <<doc[b].heading, doc[i].heading>> \in Headings \X Headings
      BY <3>2
    <3>4. PICK h \in 0..100 : h = HeadingRatio[<<doc[b].heading, doc[i].heading>>]
      <4>1. HeadingRatio \in [Headings \X Headings -> 0..100]
        BY ComparisonAssumption
      <4>2. QED
        BY ONLY <3>3, <4>1
    <3>5. h >= 85
      BY <3>1, <3>4 DEF HeadingsAlike
    <3>6. h >= 80
      BY <3>5
    <3>7. QED
      BY <2>1, <3>1, <3>4, <3>6 DEF HeadingsAlike
  <2>3. r < 100
    BY <1>1, <1>4, <2>1, <2>2, ClauseAt, MatchScoreIs
  <2>4. QED
    BY <1>5, <2>3
<1>7. QED
  BY <1>2, <1>4, <1>5, <1>6

\* Each clause of a part is one clause of the document.
LEMMA PartIs ==
    ASSUME Versions, PartOf(right, left), NEW j \in DOMAIN right
    PROVE  \E i \in DOMAIN left : left[i] = right[j]
BY DEF PartOf

\* A clause that is still there has not gone.
LEMMA GoneIs ==
    ASSUME Versions
    PROVE  /\ Gone(right, left) \subseteq Kept(left)
           /\ \A i \in Kept(left) :
                 i \notin Gone(right, left) <=> \E j \in Kept(right) : right[j] = left[i]
<1>1. SUFFICES ASSUME NEW i \in Kept(left)
               PROVE  i \notin Gone(right, left) <=> \E j \in Kept(right) : right[j] = left[i]
  BY DEF Gone
<1>2. \A j \in DOMAIN right : right[j] = left[i] => j \in Kept(right)
  BY DEF Kept, Scanned
<1>3. QED
  BY <1>2 DEF Gone, Kept, Scanned

\* A draft that leaves out clauses of the template and moves others is reported
\* with the clauses that it leaves out and nothing else, except those that
\* another clause is like: for all documents.
THEOREM DeletionsReportedAlways == Spec => []DeletionsReported
<1>1. Versions => DeletionsReported
  <2>1. SUFFICES ASSUME Versions, WellKept(left), PartOf(right, left)
                 PROVE  /\ Added(left, right) = {} /\ Altered(left, right) = {}
                        /\ Valued(left, right) = {}
                        /\ Missing(left, right) =
                              {i \in Gone(right, left) :
                                  \A j \in DOMAIN right : MatchScore(right[j], left[i]) < 55}
    BY DEF DeletionsReported
  <2>2. ASSUME NEW j \in DOMAIN right
        PROVE  /\ BestScore(left, right[j]) = 100
               /\ BestMatch(left, right[j]) \in DOMAIN left
               /\ left[BestMatch(left, right[j])] = right[j]
    <3>1. PICK i \in DOMAIN left : left[i] = right[j]
      BY <2>1, PartIs
    <3>2. BestMatch(left, left[i]) = i /\ BestScore(left, left[i]) = 100
      BY <2>1, ItselfIsBest DEF Versions
    <3>3. QED
      BY <3>1, <3>2
  <2>3. Kept(right) \subseteq DOMAIN right /\ Kept(left) \subseteq DOMAIN left
    BY DEF Kept, Scanned
  <2>4. Added(left, right) = {}
    BY <2>2, <2>3 DEF Added
  <2>5. Altered(left, right) = {}
    BY <2>2, <2>3 DEF Altered, Compared
  <2>6. Valued(left, right) = {}
    <3>1. SUFFICES ASSUME NEW j \in Valued(left, right) PROVE FALSE
      OBVIOUS
    <3>2. j \in DOMAIN right /\ FieldChanges(left[BestMatch(left, right[j])], right[j]) # {}
      BY <2>3 DEF Valued, Compared
    <3>3. FieldChanges(right[j], right[j]) = {}
      BY DEF FieldChanges, Changes
    <3>4. QED
      BY <2>2, <3>2, <3>3
  <2>7. \A i \in Kept(left) : i \in Matched(left, right) <=> i \notin Gone(right, left)
    <3>1. SUFFICES ASSUME NEW i \in Kept(left)
                   PROVE  i \in Matched(left, right) <=> \E j \in Kept(right) : right[j] = left[i]
      BY <2>1, GoneIs
    <3>2. i \in Matched(left, right) <=> \E j \in Kept(right) : BestMatch(left, right[j]) = i
      BY <2>4 DEF Matched, Compared
    <3>3. \A j \in Kept(right) : BestMatch(left, right[j]) = i => right[j] = left[i]
      BY <2>2, <2>3
    <3>4. BestMatch(left, left[i]) = i
      BY <2>1, <2>3, ItselfIsBest DEF Versions
    <3>5. \A j \in Kept(right) : right[j] = left[i] => BestMatch(left, right[j]) = i
      BY <3>4
    <3>6. QED
      BY <3>2, <3>3, <3>5
  <2>8. \A i \in Kept(left) : BestScore(right, left[i]) < 55
                                <=> \A j \in DOMAIN right : MatchScore(right[j], left[i]) < 55
    <3>1. SUFFICES ASSUME NEW i \in Kept(left)
                   PROVE  BestScore(right, left[i]) < 55
                             <=> \A j \in DOMAIN right : MatchScore(right[j], left[i]) < 55
      OBVIOUS
    <3>2. left[i] \in Clauses /\ 55 \in 1..100
      BY <2>1, <2>3, ClauseAt DEF Versions
    <3>3. QED
      BY <2>1, <3>2, BestScoreBelow DEF Versions
  <2>9. QED
    BY <2>1, <2>4, <2>5, <2>6, <2>7, <2>8, GoneIs DEF Missing
<1>2. QED
  BY <1>1, VersionsAlways, PTL

\* A clause of a reply that leaves the draft's clauses as they are is compared
\* with itself.
LEMMA FindsItself ==
    ASSUME NEW doc \in Seq(Clauses), WellKept(doc), NEW i \in DOMAIN doc, NEW j
    PROVE  FindBest(doc, doc[i], j) = i
<1> DEFINE c == doc[i]
           same == {k \in ByHeading(doc) : doc[k].heading = c.heading}
           heading == [k \in ByHeading(doc) |->
                          IF c.heading = NoHeading THEN 0
                          ELSE HeadingRatio[<<c.heading, doc[k].heading>>]]
           text == [k \in DOMAIN doc |-> Likeness(Ratio, doc[k], c)]
<1>1. c \in Clauses /\ i \in Nat /\ DOMAIN doc \in SUBSET Nat /\ DOMAIN doc # {}
  BY ClauseAt
<1>2. FindBest(doc, c, j) =
          IF same # {} THEN CHOOSE k \in same : TRUE
          ELSE IF \E k \in DOMAIN heading : heading[k] >= 80 THEN FirstBest(heading)
          ELSE IF \E k \in DOMAIN text : text[k] > 30 THEN FirstBest(text)
          ELSE IF j \in DOMAIN doc THEN j ELSE 0
  BY DEF FindBest
<1>3. \A k \in DOMAIN doc : k # i => ~ HeadingsAlike(80, doc[k], c) /\ ~ SameText(doc[k], c)
  BY DEF WellKept
<1>4. CASE c.heading # NoHeading
  <2>1. ASSUME NEW k \in DOMAIN doc, doc[k].heading = c.heading PROVE k = i
    <3>1. c.heading \in Headings
      BY <1>1, <1>4, ClauseFields
    <3>2. HeadingRatio[<<doc[k].heading, c.heading>>] = 100
      BY <2>1, <3>1, ComparisonAssumption
    <3>3. HeadingsAlike(80, doc[k], c)
      BY <1>4, <2>1, <3>2 DEF HeadingsAlike
    <3>4. QED
      BY <1>3, <3>3
  <2>2. \A k \in 1..(i - 1) : k \in DOMAIN doc /\ k # i
    BY <1>1
  <2>3. i \in ByHeading(doc)
    BY <1>4, <2>1, <2>2 DEF ByHeading
  <2>4. same = {i}
    BY <2>1, <2>3 DEF ByHeading
  <2>5. QED
    BY <1>2, <2>4
<1>5. CASE c.heading = NoHeading
  <2>1. same = {}
    BY <1>5 DEF ByHeading
  <2>2. \A k \in DOMAIN heading : heading[k] = 0
    BY <1>5
  <2>3. PICK likeness \in [DOMAIN doc -> 0..100] : likeness = text
    <3>1. ASSUME NEW k \in DOMAIN doc PROVE Likeness(Ratio, doc[k], c) \in 0..100
      <4>1. PICK a \in Clauses : a = doc[k]
        BY ClauseAt
      <4>2. QED
        BY <1>1, <4>1, LikenessIs
    <3>2. QED
      BY <3>1
  <2>4. likeness[i] = 100
    BY <1>1, <2>3, LikenessIs DEF SameText
  <2>5. \A k \in DOMAIN doc : k # i => likeness[k] < 100
    <3>1. SUFFICES ASSUME NEW k \in DOMAIN doc, k # i PROVE likeness[k] < 100
      OBVIOUS
    <3>2. doc[k] \in Clauses /\ ~ SameText(doc[k], c)
      BY <1>3, <3>1, ClauseAt
    <3>3. Likeness(Ratio, doc[k], c) < 100
      BY <1>1, <3>2, LikenessIs
    <3>4. QED
      BY <2>3, <3>3
  <2>6. PICK b \in DOMAIN doc :
            b = FirstBest(likeness) /\ (likeness[i] < likeness[b] \/ likeness[i] = likeness[b])
    <3>1. PICK x : x = FirstBest(likeness)
      OBVIOUS
    <3>2. DOMAIN doc \in SUBSET Nat /\ DOMAIN doc # {} /\ i \in DOMAIN doc
      BY <1>1
    <3>3. x \in DOMAIN doc /\ \A k \in DOMAIN doc :
             likeness[k] < likeness[x] \/ (likeness[k] = likeness[x] /\ x <= k)
      BY <3>1, <3>2, FirstBestIs
    <3>4. QED
      BY <3>1, <3>2, <3>3
  <2>7. b = i
    <3>1. PICK x \in 0..100 : x = likeness[b]
      OBVIOUS
    <3>2. 100 < x \/ 100 = x
      BY <2>4, <2>6, <3>1
    <3>3. ~ (x < 100)
      BY <3>2
    <3>4. QED
      BY <2>5, <3>1, <3>3
  <2>8. FindBest(doc, c, j) = FirstBest(likeness)
    <3>1. DOMAIN text = DOMAIN doc /\ text[i] > 30
      BY <2>3, <2>4
    <3>2. ~ \E k \in DOMAIN heading : heading[k] >= 80
      <4> HIDE DEF heading
      <4> QED
        BY <2>2
    <3> HIDE DEF same, heading, text
    <3>3. FindBest(doc, c, j) = FirstBest(text)
      BY <1>2, <2>1, <3>1, <3>2
    <3>4. QED
      BY <2>3, <3>3
  <2>9. QED
    BY <2>6, <2>7, <2>8
<1>6. QED
  BY <1>4, <1>5

\* The same for a reply without tracked changes: every clause left out is
\* reported, and nothing else.
THEOREM VendorDeletionsReportedAlways == Spec => []VendorDeletionsReported
<1>1. Versions => VendorDeletionsReported
  <2>1. SUFFICES ASSUME Versions, WellKept(left), PartOf(right, left),
                        \A j \in DOMAIN right : ~ right[j].tracked
                 PROVE  Redlined(left, right) = {} /\ Removed(left, right) = Gone(right, left)
    BY DEF VendorDeletionsReported
  <2>2. ASSUME NEW j \in DOMAIN right
        PROVE  FindBest(left, right[j], j) \in DOMAIN left
               /\ left[FindBest(left, right[j], j)] = right[j]
    <3>1. PICK i \in DOMAIN left : left[i] = right[j]
      BY <2>1, PartIs
    <3>2. FindBest(left, left[i], j) = i
      BY <2>1, FindsItself DEF Versions
    <3>3. QED
      BY <3>1, <3>2
  <2>3. Redlined(left, right) = {}
    <3>1. SUFFICES ASSUME NEW j \in DOMAIN right PROVE Skipped(left, right, j)
      BY DEF Redlined, Scanned
    <3>2. PICK i : i = FindBest(left, right[j], j)
      OBVIOUS
    <3>3. i \in DOMAIN left /\ left[i] = right[j]
      BY <2>2, <3>2
    <3>4. i # 0 /\ left[i] \in Clauses
      BY <2>1, <3>3, ClauseAt DEF Versions
    <3>5. Likeness(Ratio, left[i], right[j]) = 100
      BY <3>3, <3>4, LikenessIs DEF SameText
    <3>6. Likeness(Ratio, left[i], right[j]) > 95
      BY <3>5
    <3>7. QED
      BY <2>1, <3>2, <3>4, <3>6 DEF Skipped
  <2>4. \A i \in Kept(left) : i \in Seen(left, right) <=> i \notin Gone(right, left)
    <3>1. SUFFICES ASSUME NEW i \in Kept(left)
                   PROVE  i \in Seen(left, right) <=> \E j \in Kept(right) : right[j] = left[i]
      BY <2>1, GoneIs
    <3>2. i \in DOMAIN left
      BY DEF Kept, Scanned
    <3>3. \A j : FindBest(left, left[i], j) = i
      BY <2>1, <3>2, FindsItself DEF Versions
    <3>4. ASSUME NEW j \in Scanned(right), FindBest(left, right[j], j) = i
          PROVE  j \in Kept(right) /\ right[j] = left[i]
      BY <2>2, <3>4 DEF Kept, Scanned
    <3>5. ASSUME NEW j \in Kept(right), right[j] = left[i]
          PROVE  j \in Scanned(right) /\ FindBest(left, right[j], j) = i
      BY <3>3, <3>5 DEF Kept
    <3>6. QED
      BY <3>4, <3>5 DEF Seen
  <2>5. ASSUME NEW i \in Kept(left), i \in Gone(right, left), left[i].heading # NoHeading
        PROVE  ~ HeadingIn(left[i], right)
    <3>1. SUFFICES ASSUME NEW j \in DOMAIN right, right[j].heading = left[i].heading
                   PROVE  FALSE
      BY DEF HeadingIn
    <3>2. PICK k \in DOMAIN left : left[k] = right[j]
      BY <2>1, PartIs
    <3>3. i \in DOMAIN left /\ k # i
      BY <2>5, <3>2 DEF Gone, Kept, Scanned
    <3>4. left[i].heading \in Headings
      BY <2>1, <2>5, <3>3, ClauseAt, ClauseFields DEF Versions
    <3>5. HeadingRatio[<<left[k].heading, left[i].heading>>] = 100
      BY <3>1, <3>2, <3>4, ComparisonAssumption
    <3>6. HeadingsAlike(80, left[k], left[i])
      BY <2>5, <3>1, <3>2, <3>5 DEF HeadingsAlike
    <3>7. QED
      BY <2>1, <3>3, <3>6 DEF WellKept
  <2>6. QED
    BY <2>1, <2>3, <2>4, <2>5, GoneIs DEF Removed
<1>2. QED
  BY <1>1, VersionsAlways, PTL

\* A clause with another number is compared with the clause it was.
LEMMA RenumberedIsBest ==
    ASSUME LikestItself, Versions, Renumbered, NEW j \in DOMAIN right
    PROVE  /\ BestMatch(left, right[j]) = j /\ BestScore(left, right[j]) >= 10
<1>1. /\ j \in DOMAIN left /\ left[j] \in Clauses /\ right[j] \in Clauses /\ left # <<>>
      /\ right[j].heading = left[j].heading /\ right[j].wording = left[j].wording
  <2>1. j \in DOMAIN left
    BY DEF Renumbered
  <2>2. left[j] \in Clauses /\ right[j] \in Clauses
    BY <2>1, ClauseAt DEF Versions
  <2>3. QED
    BY <2>1, <2>2 DEF Renumbered
<1>2. PICK v \in Wordings : v = right[j].wording
  BY <1>1, ClauseFields
<1>3. PICK s \in 10..99 : s = Composite[<<v, v>>]
  <2>1. <<v, v>> \in Wordings \X Wordings
    OBVIOUS
  <2>2. PICK s \in 0..99 : s = Composite[<<v, v>>]
    BY <2>1, ComparisonAssumption
  <2>3. s >= 10
    BY <2>2 DEF LikestItself
  <2>4. QED
    BY <2>2, <2>3
<1>4. MatchScore(left[j], right[j]) \in s..100
  <2>1. PICK text \in s..100 : text = Likeness(Composite, left[j], right[j])
    <3>1. Composite[<<left[j].wording, right[j].wording>>] = s
      BY <1>1, <1>2, <1>3
    <3>2. Likeness(Composite, left[j], right[j]) = 100 \/ Likeness(Composite, left[j], right[j]) = s
      BY <3>1 DEF Likeness
    <3>3. 100 \in s..100 /\ s \in s..100
      BY <1>3
    <3>4. QED
      BY <3>2, <3>3
  <2>2. MatchScore(left[j], right[j]) =
            IF ~ HeadingsAlike(85, left[j], right[j]) THEN text
            ELSE IF text > 85 THEN 100 ELSE text + 15
    BY <2>1 DEF MatchScore
  <2>3. QED
    BY <1>3, <2>1, <2>2
<1>5. ASSUME NEW i \in DOMAIN left, i # j
      PROVE  \E q \in 0..99 : q = MatchScore(left[i], right[j]) /\ q < s
  <2>1. left[i] \in Clauses /\ left[i].wording \in Wordings /\ left[i].wording # v
    BY <1>1, <1>2, <1>5, ClauseAt, ClauseFields DEF Versions, Renumbered
  <2>2. ~ HeadingsAlike(85, left[i], right[j])
    <3>1. SUFFICES ASSUME HeadingsAlike(85, left[i], right[j]) PROVE FALSE
      OBVIOUS
    <3>2. left[i].heading \in Headings /\ right[j].heading \in Headings
      BY <1>1, <2>1, <3>1, ClauseFields DEF HeadingsAlike
    <3>3. <<left[i].heading, right[j].heading>> \in Headings \X Headings
      BY <3>2
    <3>4. PICK h \in 0..100 : h = HeadingRatio[<<left[i].heading, right[j].heading>>]
      BY <3>3, ComparisonAssumption
    <3>5. h >= 85
      BY <3>1, <3>4 DEF HeadingsAlike
    <3>6. h >= 80
      BY <3>5
    <3>7. HeadingsAlike(80, left[i], left[j])
      BY <1>1, <3>1, <3>4, <3>6 DEF HeadingsAlike
    <3>8. QED
      BY <1>1, <1>5, <3>7 DEF Renumbered, WellKept
  <2>3. MatchScore(left[i], right[j]) = Composite[<<left[i].wording, v>>]
    BY <1>2, <2>1, <2>2 DEF MatchScore, Likeness, SameText
  <2>4. PICK q \in 0..99 : q = Composite[<<left[i].wording, v>>]
    BY <2>1, ComparisonAssumption
  <2>5. q < s
    BY <1>3, <2>1, <2>4 DEF LikestItself
  <2>6. QED
    BY <2>3, <2>4, <2>5
<1>6. PICK b \in DOMAIN left :
          /\ b = BestMatch(left, right[j]) /\ BestScore(left, right[j]) = MatchScore(left[b], right[j])
          /\ \/ MatchScore(left[j], right[j]) < BestScore(left, right[j])
             \/ MatchScore(left[j], right[j]) = BestScore(left, right[j])
  BY <1>1, BestMatchIs DEF Versions
<1>7. b = j
  <2>1. SUFFICES ASSUME b # j PROVE FALSE
    OBVIOUS
  <2>2. PICK q \in 0..99 : q = MatchScore(left[b], right[j]) /\ q < s
    BY <1>5, <2>1
  <2>3. PICK r \in s..100 : r = MatchScore(left[j], right[j])
    BY <1>4
  <2>4. r < q \/ r = q
    BY <1>6, <2>2, <2>3
  <2>5. QED
    BY <1>3, <2>2, <2>3, <2>4
<1>8. QED
  BY <1>3, <1>4, <1>6, <1>7

\* template_comparison.py: the value-level diff fires even when the texts are
\* alike.  In documents whose wordings can be told apart, exactly the changed
\* numbers are reported.
THEOREM ValuesReportedAlways ==
    ASSUME LikestItself
    PROVE  Spec => []ValuesReported
<1>1. Versions => ValuesReported
  <2>1. SUFFICES ASSUME Versions, Renumbered PROVE Valued(left, right) = NumbersChanged
    BY DEF ValuesReported
  <2>2. Kept(left) = Kept(right)
    BY <2>1 DEF Renumbered, Kept, Scanned
  <2>3. Kept(right) \subseteq DOMAIN right
    BY DEF Kept, Scanned
  <2>4. \A j \in Kept(right) : BestMatch(left, right[j]) = j /\ ~ (BestScore(left, right[j]) < 10)
    <3>1. SUFFICES ASSUME NEW j \in DOMAIN right
                   PROVE  BestMatch(left, right[j]) = j /\ ~ (BestScore(left, right[j]) < 10)
      BY <2>3
    <3>2. BestMatch(left, right[j]) = j /\ BestScore(left, right[j]) >= 10
      BY <2>1, RenumberedIsBest
    <3>3. j \in DOMAIN left /\ left[j] \in Clauses /\ right[j] \in Clauses
      BY <2>1, ClauseAt DEF Versions, Renumbered
    <3>4. PICK r \in 0..100 : r = BestScore(left, right[j])
      <4>1. left # <<>>
        BY <3>3
      <4>2. BestScore(left, right[j]) = MatchScore(left[j], right[j])
        BY <2>1, <3>2, <3>3, <4>1, BestMatchIs DEF Versions
      <4>3. QED
        BY <3>3, <4>2, MatchScoreIs
    <3>5. QED
      BY <3>2, <3>4
  <2>5. Compared(left, right) = Kept(right)
    BY <2>4 DEF Compared, Added
  <2>6. QED
    BY <2>2, <2>4, <2>5 DEF Valued, NumbersChanged
<1>2. QED
  BY <1>1, VersionsAlways, PTL

-----------------------------------------------------------------------------
(* Candidates of the search backends.                                      *)

\* The rank of a hit is its first position, from 0.
LEMMA RankIs ==
    ASSUME NEW S, NEW ranking \in Seq(S), NEW id \in Hits(ranking)
    PROVE  \E p \in 1..Len(ranking) :
              /\ ranking[p] = id /\ Rank(ranking, id) = p - 1
              /\ \A j \in 1..Len(ranking) : ranking[j] = id => p <= j
<1>1. PICK T : T = {i \in 1..Len(ranking) : ranking[i] = id}
  OBVIOUS
<1>2. T \subseteq Nat /\ T # {}
  BY <1>1 DEF Hits
<1>3. PICK m \in T : \A n \in T : m <= n
  BY <1>2, Least
<1>4. DOMAIN ranking = 1..Len(ranking)
  OBVIOUS
<1>5. m \in DOMAIN ranking /\ ranking[m] = id
          /\ \A j \in DOMAIN ranking : ranking[j] = id => m <= j
  BY <1>1, <1>3, <1>4
<1>6. PICK p : p = CHOOSE i \in DOMAIN ranking :
                      ranking[i] = id /\ \A j \in DOMAIN ranking : ranking[j] = id => i <= j
  OBVIOUS
<1>7. p \in DOMAIN ranking /\ ranking[p] = id
          /\ \A j \in DOMAIN ranking : ranking[j] = id => p <= j
  BY <1>5, <1>6
<1>8. Rank(ranking, id) = p - 1
  BY <1>6 DEF Rank
<1>9. QED
  BY <1>4, <1>7, <1>8

\* Candidates are the first hits, at the ranks that they have.
LEMMA CandidatesAre ==
    ASSUME NEW S, NEW ranking \in Seq(S)
    PROVE  LET C == Candidates(ranking, Limit, Multiplier)
           IN  /\ C \in Seq(S) /\ Len(C) <= Len(ranking)
               /\ \A id \in Hits(C) : id \in Hits(ranking) /\ Rank(C, id) = Rank(ranking, id)
               /\ \A id \in Hits(ranking) : Rank(ranking, id) < Limit * Multiplier => id \in Hits(C)
<1>1. PICK n \in Nat : n = Limit * Multiplier
  BY ParametersAssumption
<1>2. PICK m \in 0..Len(ranking) : m = IF n < Len(ranking) THEN n ELSE Len(ranking)
  OBVIOUS
<1>3. PICK C : C = Candidates(ranking, Limit, Multiplier)
  OBVIOUS
<1>4. C = SubSeq(ranking, 1, m)
  BY <1>1, <1>2, <1>3 DEF Candidates
<1>5. C \in Seq(S) /\ Len(C) = m /\ \A i \in 1..m : C[i] = ranking[i]
  BY <1>2, <1>4
<1>6. DOMAIN C = 1..m /\ DOMAIN ranking = 1..Len(ranking)
  BY <1>5
<1>7. ASSUME NEW id \in Hits(C) PROVE id \in Hits(ranking) /\ Rank(C, id) = Rank(ranking, id)
  <2>1. PICK p \in 1..m : C[p] = id /\ Rank(C, id) = p - 1 /\ \A j \in 1..m : C[j] = id => p <= j
    BY <1>5, <1>7, RankIs
  <2>2. id \in Hits(ranking)
    <3>1. p \in 1..Len(ranking)
      BY <1>2, <2>1
    <3>2. ranking[p] = id
      BY <1>5, <2>1
    <3>3. QED
      BY <1>6, <3>1, <3>2 DEF Hits
  <2>3. PICK q \in 1..Len(ranking) :
            /\ ranking[q] = id /\ Rank(ranking, id) = q - 1
            /\ \A j \in 1..Len(ranking) : ranking[j] = id => q <= j
    BY <2>2, RankIs
  <2>4. ranking[p] = id /\ p \in 1..Len(ranking)
    BY <1>2, <1>5, <2>1
  <2>5. q <= p
    BY <2>3, <2>4
  <2>6. q \in 1..m /\ C[q] = id
    BY <1>2, <1>5, <2>1, <2>3, <2>5
  <2>7. p <= q
    BY <2>1, <2>6
  <2>8. p = q
    BY <2>5, <2>7
  <2>9. QED
    BY <2>1, <2>2, <2>3, <2>8
<1>8. ASSUME NEW id \in Hits(ranking), Rank(ranking, id) < n PROVE id \in Hits(C)
  <2>1. PICK q \in 1..Len(ranking) : ranking[q] = id /\ Rank(ranking, id) = q - 1
    BY RankIs
  <2>2. q - 1 < n
    BY <1>8, <2>1
  <2>3. q \in 1..m
    BY <1>2, <2>2
  <2>4. QED
    BY <1>5, <1>6, <2>1, <2>3 DEF Hits
<1>9. QED
  BY <1>1, <1>2, <1>3, <1>5, <1>7, <1>8

\* A ranking has finitely many hits.
LEMMA HitsFinite ==
    ASSUME NEW S, NEW ranking \in Seq(S)
    PROVE  IsFiniteSet(Hits(ranking))
<1>1. PICK T : T = Hits(ranking)
  OBVIOUS
<1>2. ranking \in [1..Len(ranking) -> T] /\ \A t \in T : \E i \in 1..Len(ranking) : ranking[i] = t
  BY <1>1 DEF Hits
<1>3. ranking \in Surjection(1..Len(ranking), T)
  BY <1>2 DEF Surjection
<1>4. IsFiniteSet(1..Len(ranking))
  BY FS_Interval
<1>5. QED
  BY <1>1, <1>3, <1>4, FS_Surjection

\* A score is a positive fraction.
LEMMA ScoreIs ==
    ASSUME NEW S, NEW v \in Seq(S), NEW l \in Seq(S), NEW id \in Hits(v) \cup Hits(l)
    PROVE  Score(v, l, K, id) \in [num : Nat \ {0}, den : Nat \ {0}]
<1> DEFINE a == K + Rank(v, id) + 1
           b == K + Rank(l, id) + 1
<1>1. id \in Hits(v) => a \in Nat \ {0}
  BY RankIsNatural, ParametersAssumption
<1>2. id \in Hits(l) => b \in Nat \ {0}
  BY RankIsNatural, ParametersAssumption
<1>3. Score(v, l, K, id) = IF id \in Hits(v) \cap Hits(l) THEN [num |-> a + b, den |-> a * b]
                           ELSE IF id \in Hits(v) THEN [num |-> 1, den |-> a]
                           ELSE [num |-> 1, den |-> b]
  BY DEF Score
<1> HIDE DEF a, b
<1>4. a \in Nat \ {0} /\ b \in Nat \ {0} => a * b \in Nat \ {0} /\ a + b \in Nat \ {0}
  <2>1. SUFFICES ASSUME a \in Nat \ {0}, b \in Nat \ {0} PROVE a * b \in Nat \ {0}
    OBVIOUS
  <2>2. a * b >= a
    BY <2>1
  <2>3. QED
    BY <2>1, <2>2
<1>5. QED
  BY <1>1, <1>2, <1>3, <1>4

\* The arithmetic: if 1/a is at least r/t then 1/a + 1/b is more.
LEMMA MoreShares ==
    ASSUME NEW a \in Nat \ {0}, NEW b \in Nat \ {0}, NEW r \in Nat, NEW t \in Nat \ {0},
           r * a <= t
    PROVE  (a + b) * t > r * (a * b)
<1>1. PICK x \in Nat : x = r * a
  OBVIOUS
<1>2. r * (a * b) = x * b
  BY <1>1
<1>3. x * b <= t * b
  BY <1>1
<1>4. (a + b) * t = a * t + b * t /\ t * b = b * t
  OBVIOUS
<1>5. a * t \in Nat /\ a * t > 0 /\ b * t \in Nat /\ x * b \in Nat
  <2>1. a * t >= a
    OBVIOUS
  <2>2. QED
    BY <1>1, <2>1
<1>6. QED
  BY <1>2, <1>3, <1>4, <1>5

\* What comes before a hit among the candidates does so among all hits, if the
\* hit is a candidate of each backend that has it: another hit's score among
\* the candidates is its score, or is less.
LEMMA BeforeAmongCandidates ==
    ASSUME NEW S, NEW v \in Seq(S), NEW l \in Seq(S), NEW c \in Seq(S), NEW d \in Seq(S),
           Len(c) <= Len(v),
           \A id \in Hits(c) : id \in Hits(v) /\ Rank(c, id) = Rank(v, id),
           \A id \in Hits(d) : id \in Hits(l) /\ Rank(d, id) = Rank(l, id),
           NEW x \in Hits(v) \cup Hits(l),
           x \in Hits(v) => x \in Hits(c), x \in Hits(l) => x \in Hits(d),
           NEW y \in Hits(c) \cup Hits(d), Before(c, d, K, y, x)
    PROVE  Before(v, l, K, y, x)
<1>1. x \in Hits(v) <=> x \in Hits(c)
  OBVIOUS
<1>2. x \in Hits(l) <=> x \in Hits(d)
  OBVIOUS
<1>3. Score(c, d, K, x) = Score(v, l, K, x)
  BY <1>1, <1>2 DEF Score
<1>4. PICK s \in [num : Nat \ {0}, den : Nat \ {0}] : s = Score(v, l, K, x)
  BY ScoreIs
<1>5. y \in Hits(v) \cup Hits(l)
  OBVIOUS
\* The score of y is the same: it is placed as it was.
<1>6. CASE (y \in Hits(v) <=> y \in Hits(c)) /\ (y \in Hits(l) <=> y \in Hits(d))
  <2>1. Score(c, d, K, y) = Score(v, l, K, y)
    BY <1>6 DEF Score
  <2>2. ASSUME FirstMet(c, d, y) < FirstMet(c, d, x) PROVE FirstMet(v, l, y) < FirstMet(v, l, x)
    <3>1. PICK m \in Nat, n \in Nat : m = Len(c) /\ n = Len(v) /\ m <= n
      OBVIOUS
    <3>2. CASE y \in Hits(c) /\ x \in Hits(c)
      BY <2>2, <3>2 DEF FirstMet
    <3>3. CASE y \in Hits(c) /\ x \notin Hits(c)
      <4>1. PICK p \in 1..Len(c) : Rank(c, y) = p - 1
        BY <3>3, RankIs
      <4>2. PICK r \in Nat : r = Rank(l, x)
        BY <1>1, <3>3, RankIsNatural
      <4>3. FirstMet(v, l, y) = p - 1 /\ FirstMet(v, l, x) = n + r
        BY <1>1, <3>1, <3>3, <4>1, <4>2 DEF FirstMet
      <4>4. p - 1 < n + r
        BY <3>1, <4>1, <4>2
      <4>5. QED
        BY <4>3, <4>4
    <3>4. CASE y \notin Hits(c) /\ x \in Hits(c)
      <4>1. PICK p \in 1..Len(c) : Rank(c, x) = p - 1
        BY <3>4, RankIs
      <4>2. PICK r \in Nat : r = Rank(d, y)
        BY <3>4, RankIsNatural
      <4>3. FirstMet(c, d, y) = m + r /\ FirstMet(c, d, x) = p - 1
        BY <3>1, <3>4, <4>1, <4>2 DEF FirstMet
      <4>4. ~ (m + r < p - 1)
        BY <3>1, <4>1, <4>2
      <4>5. QED
        BY <2>2, <4>3, <4>4
    <3>5. CASE y \notin Hits(c) /\ x \notin Hits(c)
      <4>1. y \in Hits(d) /\ x \in Hits(d) /\ y \notin Hits(v) /\ x \notin Hits(v)
        BY <1>1, <1>2, <1>6, <3>5
      <4>2. PICK q \in Nat, r \in Nat : q = Rank(d, y) /\ r = Rank(d, x)
        BY <4>1, RankIsNatural
      <4>3. q = Rank(l, y) /\ r = Rank(l, x)
        BY <4>1, <4>2
      <4>4. m + q < m + r
        BY <2>2, <3>1, <3>5, <4>2 DEF FirstMet
      <4>5. n + q < n + r
        <5>1. m \in Nat /\ n \in Nat /\ q \in Nat /\ r \in Nat
          BY <3>1, <4>2
        <5>2. q < r
          BY ONLY <4>4, <5>1
        <5>3. QED
          BY ONLY <5>1, <5>2
      <4>6. QED
        BY <3>1, <4>1, <4>3, <4>5 DEF FirstMet
    <3>6. QED
      BY <3>2, <3>3, <3>4, <3>5
  <2>3. QED
    BY <1>3, <2>1, <2>2 DEF Before
\* One backend's share of the score of y is missing among the candidates.
<1>7. ASSUME ~ ((y \in Hits(v) <=> y \in Hits(c)) /\ (y \in Hits(l) <=> y \in Hits(d)))
      PROVE  Above(Score(v, l, K, y), Score(v, l, K, x))
  <2>1. y \in Hits(v) /\ y \in Hits(l)
    BY <1>7
  <2>2. PICK a \in Nat \ {0}, b \in Nat \ {0} :
            a = K + Rank(v, y) + 1 /\ b = K + Rank(l, y) + 1
    <3>1. PICK p \in Nat, q \in Nat : p = Rank(v, y) /\ q = Rank(l, y)
      BY <2>1, RankIsNatural
    <3>2. K \in Nat
      BY ParametersAssumption
    <3>3. p \in Nat /\ q \in Nat
      BY <3>1
    <3>4. K + p + 1 \in Nat \ {0} /\ K + q + 1 \in Nat \ {0}
      BY ONLY <3>2, <3>3
    <3>5. QED
      BY <3>1, <3>4
  <2>3. Score(v, l, K, y) = [num |-> a + b, den |-> a * b]
    BY <2>1, <2>2 DEF Score
  <2>4. Above(Score(c, d, K, y), s) \/ ~ Above(s, Score(c, d, K, y))
    BY <1>3, <1>4 DEF Before
  <2>5. CASE y \in Hits(c)
    <3>1. Score(c, d, K, y) = [num |-> 1, den |-> a]
      BY <1>7, <2>2, <2>5 DEF Score
    <3>2. s.num * a <= s.den
      BY <2>4, <3>1 DEF Above
    <3>3. (a + b) * s.den > s.num * (a * b)
      BY <3>2, MoreShares
    <3>4. QED
      BY <1>4, <2>3, <3>3 DEF Above
  <2>6. CASE y \notin Hits(c)
    <3>1. Score(c, d, K, y) = [num |-> 1, den |-> b]
      BY <1>7, <2>2, <2>6 DEF Score
    <3>2. s.num * b <= s.den
      BY <2>4, <3>1 DEF Above
    <3>3. (b + a) * s.den > s.num * (b * a)
      BY <3>2, MoreShares
    <3>4. b + a = a + b /\ b * a = a * b
      OBVIOUS
    <3>5. QED
      BY <1>4, <2>3, <3>3, <3>4 DEF Above
  <2>7. QED
    BY <2>5, <2>6
<1>8. QED
  BY <1>6, <1>7 DEF Before

\* Asking each backend for limit times multiplier candidates loses no result
\* that is among the candidates of each backend that has it: whatever the
\* rankings, the limit and the multiplier.
THEOREM CutoffKeepsResultsAlways == Spec => []CutoffKeepsResults
<1>1. Lists => CutoffKeepsResults
  <2>1. SUFFICES ASSUME Lists, NEW x \in Top(vec, lex, K, Limit),
                        x \in Hits(vec) => Rank(vec, x) < Limit * Multiplier,
                        x \in Hits(lex) => Rank(lex, x) < Limit * Multiplier
                 PROVE  x \in Retrieve(vec, lex, K, Limit, Multiplier)
    BY DEF CutoffKeepsResults
  <2>2. PICK c : c = Candidates(vec, Limit, Multiplier)
    OBVIOUS
  <2>3. PICK d : d = Candidates(lex, Limit, Multiplier)
    OBVIOUS
  <2>4. /\ c \in Seq(Ids) /\ Len(c) <= Len(vec)
        /\ \A id \in Hits(c) : id \in Hits(vec) /\ Rank(c, id) = Rank(vec, id)
        /\ x \in Hits(vec) => x \in Hits(c)
    BY <2>1, <2>2, CandidatesAre DEF Lists
  <2>5. /\ d \in Seq(Ids)
        /\ \A id \in Hits(d) : id \in Hits(lex) /\ Rank(d, id) = Rank(lex, id)
        /\ x \in Hits(lex) => x \in Hits(d)
    BY <2>1, <2>3, CandidatesAre DEF Lists
  <2>6. x \in Hits(vec) \cup Hits(lex) /\ x \in Hits(c) \cup Hits(d)
    BY <2>1, <2>4, <2>5 DEF Top
  <2>7. PICK few : few = {y \in Hits(c) \cup Hits(d) : Before(c, d, K, y, x)}
    OBVIOUS
  <2>8. PICK all : all = {y \in Hits(vec) \cup Hits(lex) : Before(vec, lex, K, y, x)}
    OBVIOUS
  <2>9. few \subseteq all
    <3>1. SUFFICES ASSUME NEW y \in Hits(c) \cup Hits(d), Before(c, d, K, y, x)
                   PROVE  y \in Hits(vec) \cup Hits(lex) /\ Before(vec, lex, K, y, x)
      BY <2>7, <2>8
    <3>2. y \in Hits(vec) \cup Hits(lex)
      BY <2>4, <2>5
    <3>3. Before(vec, lex, K, y, x)
      BY <2>1, <2>4, <2>5, <2>6, <3>1, BeforeAmongCandidates DEF Lists
    <3>4. QED
      BY <3>2, <3>3
  <2>10. IsFiniteSet(all)
    <3>1. IsFiniteSet(Hits(vec)) /\ IsFiniteSet(Hits(lex))
      BY <2>1, HitsFinite DEF Lists
    <3>2. IsFiniteSet(Hits(vec) \cup Hits(lex))
      BY <3>1, FS_Union
    <3>3. all \in SUBSET (Hits(vec) \cup Hits(lex))
      BY <2>8
    <3>4. QED
      BY <3>2, <3>3, FS_Subset
  <2>11. Cardinality(few) <= Cardinality(all) /\ IsFiniteSet(few)
    BY <2>9, <2>10, FS_Subset
  <2>12. Cardinality(few) \in Nat /\ Cardinality(all) \in Nat
    BY <2>10, <2>11, FS_CardinalityType
  <2>13. Cardinality(all) < Limit
    BY <2>1, <2>8 DEF Top
  <2>14. Cardinality(few) < Limit
    BY <2>11, <2>12, <2>13, ParametersAssumption
  <2>15. x \in Top(c, d, K, Limit)
    BY <2>6, <2>7, <2>14 DEF Top
  <2>16. QED
    BY <2>2, <2>3, <2>15 DEF Retrieve
<1>2. QED
  BY <1>1, ListsAlways, PTL

\* A pattern matches in two texts, one after the other, if it does in one.
LEMMA MatchesConcat ==
    ASSUME NEW S, NEW s \in Seq(S), NEW t \in Seq(S), NEW mark
    PROVE  Matches(s \o t, mark) <=> Matches(s, mark) \/ Matches(t, mark)
<1> DEFINE u == s \o t
<1>1. PICK m \in Nat, n \in Nat : m = Len(s) /\ n = Len(t)
  OBVIOUS
<1>2. /\ u \in Seq(S) /\ DOMAIN u = 1..(m + n) /\ DOMAIN s = 1..m /\ DOMAIN t = 1..n
      /\ \A i \in 1..(m + n) : u[i] = IF i <= m THEN s[i] ELSE t[i - m]
  BY <1>1, ConcatProperties
<1> HIDE DEF u
<1>3. ASSUME Matches(u, mark) PROVE Matches(s, mark) \/ Matches(t, mark)
  <2>1. PICK i \in 1..(m + n) : mark \in u[i].marks
    BY <1>2, <1>3 DEF Matches, Marked
  <2>2. CASE i <= m
    <3>1. i \in DOMAIN s /\ u[i] = s[i]
      BY <1>2, <2>2
    <3>2. QED
      BY <2>1, <3>1 DEF Matches, Marked
  <2>3. CASE ~ (i <= m)
    <3>1. i - m \in DOMAIN t /\ u[i] = t[i - m]
      BY <1>2, <2>3
    <3>2. QED
      BY <2>1, <3>1 DEF Matches, Marked
  <2>4. QED
    BY <2>2, <2>3
<1>4. ASSUME Matches(s, mark) PROVE Matches(u, mark)
  <2>1. PICK i \in 1..m : mark \in s[i].marks
    BY <1>2, <1>4 DEF Matches, Marked
  <2>2. i \in DOMAIN u /\ u[i] = s[i]
    BY <1>2
  <2>3. QED
    BY <2>1, <2>2 DEF Matches, Marked
<1>5. ASSUME Matches(t, mark) PROVE Matches(u, mark)
  <2>1. PICK i \in 1..n : mark \in t[i].marks
    BY <1>2, <1>5 DEF Matches, Marked
  <2>2. i + m \in 1..(m + n) /\ ~ (i + m <= m) /\ (i + m) - m = i
    OBVIOUS
  <2>3. i + m \in DOMAIN u /\ u[i + m] = t[i]
    BY <1>2, <2>2
  <2>4. QED
    BY <2>1, <2>3 DEF Matches, Marked
<1>6. QED
  BY <1>3, <1>4, <1>5 DEF u

-----------------------------------------------------------------------------
(* The agents that read a contract.                                        *)

ClauseOf == [heading : Titles, text : Seq(Phrases)]

LEMMA ClauseOfText ==
    ASSUME NEW c \in ClauseOf
    PROVE  c.text \in Seq(Phrases)
BY DEF ClauseOf

\* The clauses of a contract joined one after the other have a text each.
LEMMA JoinedIs ==
    ASSUME NEW C \in Seq(ClauseOf)
    PROVE  \E f : /\ f = [n \in 0..Len(C) |-> IF n = 0 THEN <<>> ELSE f[n - 1] \o C[n].text]
                  /\ Joined(C) = f[Len(C)]
<1> DEFINE N == Len(C)
           Joins(f, m) == f = [n \in 0..m |-> IF n = 0 THEN <<>> ELSE f[n - 1] \o C[n].text]
           Bad == {m \in Nat : ~ \E f : Joins(f, m)}
<1>1. Bad = {}
  <2>1. SUFFICES ASSUME Bad # {} PROVE FALSE
    OBVIOUS
  <2>2. PICK m \in Bad : \A j \in Bad : m <= j
    <3>1. Bad \in SUBSET Nat
      OBVIOUS
    <3> HIDE DEF Bad
    <3>2. QED
      BY <2>1, <3>1, Least
  <2>3. m # 0
    <3>1. SUFFICES ASSUME m = 0 PROVE \E f : Joins(f, m)
      OBVIOUS
    <3>2. PICK f : f = [n \in 0..0 |-> <<>>]
      OBVIOUS
    <3>3. f = [n \in 0..0 |-> IF n = 0 THEN <<>> ELSE f[n - 1] \o C[n].text]
      BY <3>2
    <3>4. QED
      BY <3>1, <3>3
  <2>4. m - 1 \in Nat /\ m - 1 \notin Bad
    <3>1. m \in Nat /\ m - 1 \in Nat /\ m - 1 < m
      BY <2>3
    <3> HIDE DEF Bad
    <3>2. QED
      BY <2>2, <3>1
  <2>5. PICK g : Joins(g, m - 1)
    BY <2>4
  <2>6. PICK f : f = [n \in 0..m |-> IF n = m THEN g[m - 1] \o C[m].text ELSE g[n]]
    OBVIOUS
  <2>7. ASSUME NEW n \in 0..m
        PROVE  f[n] = IF n = 0 THEN <<>> ELSE f[n - 1] \o C[n].text
    <3>1. CASE n = m
      <4>1. m - 1 \in 0..m /\ m - 1 # m
        BY <2>4
      <4>2. f[m - 1] = g[m - 1] /\ f[m] = g[m - 1] \o C[m].text
        BY <2>6, <4>1
      <4>3. QED
        BY <2>3, <3>1, <4>2
    <3>2. CASE n # m
      <4>1. n \in 0..(m - 1) /\ n \in Nat /\ m \in Nat
        BY <3>2
      <4>2. g[n] = IF n = 0 THEN <<>> ELSE g[n - 1] \o C[n].text
        BY <2>5, <4>1
      <4>3. f[n] = g[n]
        BY <2>6, <2>7, <3>2
      <4>4. ASSUME n # 0 PROVE f[n - 1] = g[n - 1]
        BY <2>6, <4>1, <4>4
      <4>5. QED
        BY <4>2, <4>3, <4>4
    <3>3. QED
      BY <3>1, <3>2
  <2>8. f = [n \in 0..m |-> IF n = 0 THEN <<>> ELSE f[n - 1] \o C[n].text]
    BY <2>6, <2>7
  <2>9. QED
    BY <2>8
<1>2. \E f : Joins(f, N)
  <2>1. N \in Nat
    BY LenProperties
  <2>2. QED
    BY <1>1, <2>1
<1>3. PICK f : f = CHOOSE h : Joins(h, N)
  OBVIOUS
<1>4. Joins(f, N)
  <2> HIDE DEF Joins
  <2> QED BY <1>2, <1>3
<1>5. Joined(C) = f[N]
  BY <1>3, Zenon DEF Joined
<1>6. QED
  BY <1>4, <1>5

\* A pattern matches in the text of a contract if it does in a clause.
LEMMA MatchesJoined ==
    ASSUME NEW C \in Seq(ClauseOf), NEW mark
    PROVE  Matches(Joined(C), mark) <=> \E i \in DOMAIN C : Matches(C[i].text, mark)
<1>1. PICK f : /\ f = [n \in 0..Len(C) |-> IF n = 0 THEN <<>> ELSE f[n - 1] \o C[n].text]
               /\ Joined(C) = f[Len(C)]
  BY JoinedIs
<1> DEFINE Good(n) == /\ f[n] \in Seq(Phrases)
                      /\ Matches(f[n], mark) <=> \E i \in 1..n : Matches(C[i].text, mark)
           Bad == {n \in 0..Len(C) : ~ Good(n)}
<1>2. ASSUME NEW i \in 1..Len(C) PROVE C[i].text \in Seq(Phrases)
  BY ElementOfSeq, ClauseOfText
<1>3. Bad = {}
  <2>1. SUFFICES ASSUME Bad # {} PROVE FALSE
    OBVIOUS
  <2>2. PICK n \in Bad : \A j \in Bad : n <= j
    <3>1. Bad \in SUBSET Nat
      OBVIOUS
    <3> HIDE DEF Bad
    <3>2. QED
      BY <2>1, <3>1, Least
  <2>3. n # 0
    <3>1. SUFFICES ASSUME n = 0 PROVE Good(n)
      OBVIOUS
    <3>2. 0 \in 0..Len(C)
      OBVIOUS
    <3>3. f[0] = <<>>
      BY <1>1, <3>2
    <3>4. ~ Matches(<<>>, mark)
      BY DEF Matches, Marked
    <3>5. 1..0 = {} /\ <<>> \in Seq(Phrases)
      OBVIOUS
    <3>6. QED
      BY <3>1, <3>3, <3>4, <3>5
  <2>4. n - 1 \in 0..Len(C) /\ n \in 1..Len(C) /\ n - 1 < n
    BY <2>3
  <2>5. Good(n - 1)
    <3>1. n - 1 \notin Bad
      <4> HIDE DEF Bad
      <4> QED BY <2>2, <2>4
    <3>2. QED
      BY <2>4, <3>1
  <2>6. PICK s \in Seq(Phrases) : s = f[n - 1]
    BY <2>5
  <2>7. PICK t \in Seq(Phrases) : t = C[n].text
    BY <1>2, <2>4
  <2>8. f[n] = s \o t
    BY <1>1, <2>3, <2>4, <2>6, <2>7
  <2>9. Matches(s \o t, mark) <=> Matches(s, mark) \/ Matches(t, mark)
    BY MatchesConcat
  <2>10. s \o t \in Seq(Phrases)
    BY ConcatProperties
  <2>11. Matches(f[n], mark) <=> (\E i \in 1..(n - 1) : Matches(C[i].text, mark)) \/ Matches(C[n].text, mark)
    BY <2>5, <2>6, <2>7, <2>8, <2>9
  <2>12. 1..n = 1..(n - 1) \cup {n}
    BY <2>4
  <2>13. (\E i \in 1..n : Matches(C[i].text, mark))
         <=> (\E i \in 1..(n - 1) : Matches(C[i].text, mark)) \/ Matches(C[n].text, mark)
    BY <2>12
  <2>14. Good(n)
    BY <2>8, <2>10, <2>11, <2>13
  <2>15. QED
    BY <2>14
<1>4. Good(Len(C))
  <2>1. Len(C) \in 0..Len(C)
    OBVIOUS
  <2>2. QED
    BY <1>3, <2>1
<1>5. DOMAIN C = 1..Len(C)
  OBVIOUS
<1>6. QED
  BY <1>1, <1>4, <1>5

-----------------------------------------------------------------------------
\* What the foremost position is.
LEMMA ForemostIs ==
    ASSUME NEW P \in SUBSET Nat, P # {}
    PROVE  Foremost(P) \in P /\ \A j \in P : Foremost(P) <= j
<1>1. \E i \in P : \A j \in P : i <= j
  BY Least
<1>2. QED
  BY <1>1, Zenon DEF Foremost

\* It stays if nothing changes before a later position.
LEMMA ForemostStays ==
    ASSUME NEW P \in SUBSET Nat, NEW Q \in SUBSET Nat, P # {}, NEW n \in Nat,
           Foremost(P) < n, \A i \in Nat : i < n => (i \in P <=> i \in Q)
    PROVE  Q # {} /\ Foremost(Q) = Foremost(P)
<1>1. PICK p \in P : p = Foremost(P) /\ \A j \in P : p <= j
  BY ForemostIs
<1>2. p \in Q
  BY <1>1
<1>3. PICK q \in Q : q = Foremost(Q) /\ \A j \in Q : q <= j
  BY <1>2, ForemostIs
<1>4. q <= p
  BY <1>2, <1>3
<1>5. q \in P
  BY <1>1, <1>3, <1>4
<1>6. QED
  BY <1>1, <1>2, <1>3, <1>4, <1>5

\* D is C read on: a clause longer, or its last clause is.
ReadOn(C, D) ==
    /\ Len(C) <= Len(D) /\ Len(D) <= Len(C) + 1
    /\ \A i \in DOMAIN C : i < Len(C) => D[i] = C[i]
    /\ \A i \in DOMAIN C : \A p \in DOMAIN C[i].text :
           p \in DOMAIN D[i].text /\ D[i].text[p] = C[i].text[p]

\* What matches goes on to match.
LEMMA MatchesOn ==
    ASSUME NEW C \in Seq(ClauseOf), NEW D \in Seq(ClauseOf), ReadOn(C, D), NEW mark,
           Matches(Joined(C), mark)
    PROVE  Matches(Joined(D), mark)
<1>1. PICK i \in DOMAIN C : Matches(C[i].text, mark)
  BY MatchesJoined
<1>2. PICK p \in DOMAIN C[i].text : mark \in C[i].text[p].marks
  BY <1>1 DEF Matches, Marked
<1>3. p \in DOMAIN D[i].text /\ D[i].text[p] = C[i].text[p]
  BY DEF ReadOn
<1>4. Matches(D[i].text, mark)
  BY <1>2, <1>3 DEF Matches, Marked
<1>5. i \in DOMAIN D
  BY DEF ReadOn
<1>6. QED
  BY <1>4, <1>5, MatchesJoined

LEMMA MissingStay ==
    ASSUME NEW C \in Seq(ClauseOf), NEW D \in Seq(ClauseOf), ReadOn(C, D),
           NEW f \in MissingTerms(D)
    PROVE  f.rule \in {g.rule : g \in MissingTerms(C)}
<1>1. PICK rule \in Rules :
          /\ rule.means = "required" /\ ~ Matches(Joined(D), rule.id)
          /\ f = Law(rule, IF D = <<>> THEN 0 ELSE 1)
  BY Zenon DEF MissingTerms
<1>2. ~ Matches(Joined(C), rule.id)
  BY <1>1, MatchesOn
<1>3. PICK g : g = Law(rule, IF C = <<>> THEN 0 ELSE 1)
  OBVIOUS
<1>4. g \in MissingTerms(C)
  BY <1>1, <1>2, <1>3, Zenon DEF MissingTerms
<1>5. f.rule = rule.id /\ g.rule = rule.id
  BY <1>1, <1>3 DEF Law
<1>6. f.rule = g.rule
  BY <1>5
<1>7. QED
  BY <1>4, <1>6, Zenon

\* A rule that fires in a clause before the last goes on to fire there.
LEMMA OncePerRuleStays ==
    ASSUME NEW P \in SUBSET Nat, NEW Q \in SUBSET Nat, NEW n \in Nat,
           \A i \in P : i <= n, \A i \in Nat : i < n => (i \in P <=> i \in Q),
           NEW rule, NEW f \in OncePerRule(rule, P), f.clause # n
    PROVE  f \in OncePerRule(rule, Q)
<1>1. P # {} /\ f = Law(rule, Foremost(P))
  BY DEF OncePerRule
<1>2. f.clause = Foremost(P)
  BY <1>1 DEF Law
<1>3. Foremost(P) < n
  <2>1. PICK p \in P : p = Foremost(P)
    BY <1>1, ForemostIs
  <2>2. p \in Nat /\ p <= n /\ p # n
    BY <1>2, <2>1
  <2>3. QED
    BY <2>1, <2>2
<1>4. Q # {} /\ Foremost(Q) = Foremost(P)
  BY <1>1, <1>3, ForemostStays
<1>5. QED
  BY <1>1, <1>4, Zenon DEF OncePerRule

LEMMA LawFindingsStay ==
    ASSUME NEW C \in Seq(ClauseOf), NEW D \in Seq(ClauseOf), ReadOn(C, D),
           NEW f \in Violations(C) \cup MissingInClauses(C), f.clause # Len(C)
    PROVE  f \in LawFindings(D)
<1>1. /\ DOMAIN C \in SUBSET Nat /\ DOMAIN D \in SUBSET Nat /\ Len(C) \in Nat
      /\ \A i \in DOMAIN C : i <= Len(C)
  OBVIOUS
<1>2. \A i \in Nat : i < Len(C) => (i \in DOMAIN C <=> i \in DOMAIN D)
  BY DEF ReadOn
<1>3. CASE f \in Violations(C)
  <2>1. PICK rule \in Rules :
            /\ rule.means = "violation"
            /\ f \in OncePerRule(rule, {i \in DOMAIN C : Violates(rule, C[i].text)})
    BY <1>3, Zenon DEF Violations
  <2>2. PICK P : P = {i \in DOMAIN C : Violates(rule, C[i].text)}
    OBVIOUS
  <2>3. PICK Q : Q = {i \in DOMAIN D : Violates(rule, D[i].text)}
    OBVIOUS
  <2>4. P \in SUBSET Nat /\ Q \in SUBSET Nat /\ \A i \in P : i <= Len(C)
    BY <1>1, <2>2, <2>3
  <2>5. \A i \in Nat : i < Len(C) => (i \in P <=> i \in Q)
    <3>1. SUFFICES ASSUME NEW i \in Nat, i < Len(C) PROVE i \in P <=> i \in Q
      OBVIOUS
    <3>2. CASE i \in DOMAIN C
      <4>1. i \in DOMAIN D /\ D[i] = C[i]
        BY <1>2, <3>1, <3>2 DEF ReadOn
      <4>2. QED
        BY <2>2, <2>3, <3>2, <4>1
    <3>3. CASE i \notin DOMAIN C
      BY <1>2, <2>2, <2>3, <3>1, <3>3
    <3>4. QED
      BY <3>2, <3>3
  <2>6. f \in OncePerRule(rule, P)
    BY <2>1, <2>2
  <2>7. f \in OncePerRule(rule, Q)
    BY <1>1, <2>4, <2>5, <2>6, OncePerRuleStays
  <2>8. f \in Violations(D)
    BY <2>1, <2>3, <2>7, Zenon DEF Violations
  <2>9. QED
    BY <2>8 DEF LawFindings
<1>4. CASE f \in MissingInClauses(C)
  <2>1. PICK rule \in Rules :
            /\ rule.means = "each clause"
            /\ f \in OncePerRule(rule, {i \in DOMAIN C : LacksNotice(rule, C[i].text)})
    BY <1>4, Zenon DEF MissingInClauses
  <2>2. PICK P : P = {i \in DOMAIN C : LacksNotice(rule, C[i].text)}
    OBVIOUS
  <2>3. PICK Q : Q = {i \in DOMAIN D : LacksNotice(rule, D[i].text)}
    OBVIOUS
  <2>4. P \in SUBSET Nat /\ Q \in SUBSET Nat /\ \A i \in P : i <= Len(C)
    BY <1>1, <2>2, <2>3
  <2>5. \A i \in Nat : i < Len(C) => (i \in P <=> i \in Q)
    <3>1. SUFFICES ASSUME NEW i \in Nat, i < Len(C) PROVE i \in P <=> i \in Q
      OBVIOUS
    <3>2. CASE i \in DOMAIN C
      <4>1. i \in DOMAIN D /\ D[i] = C[i]
        BY <1>2, <3>1, <3>2 DEF ReadOn
      <4>2. QED
        BY <2>2, <2>3, <3>2, <4>1
    <3>3. CASE i \notin DOMAIN C
      BY <1>2, <2>2, <2>3, <3>1, <3>3
    <3>4. QED
      BY <3>2, <3>3
  <2>6. f \in OncePerRule(rule, P)
    BY <2>1, <2>2
  <2>7. f \in OncePerRule(rule, Q)
    BY <1>1, <2>4, <2>5, <2>6, OncePerRuleStays
  <2>8. f \in MissingInClauses(D)
    BY <2>1, <2>3, <2>7, Zenon DEF MissingInClauses
  <2>9. QED
    BY <2>8 DEF LawFindings
<1>5. QED
  BY <1>3, <1>4

-----------------------------------------------------------------------------
\* Where the scan of a draft finds a concept, and what it reports.
FoundIn(template, draft, concept) ==
    {j \in DOMAIN draft : LongEnough(draft[j].text)
                          /\ concept \in Detected(template, draft[j].text)}

Reported(c, clause) ==
    [concept |-> c.name, clause |-> clause, sev |-> c.sev, inserted |-> c.kind = "insertion"]

LEMMA ConceptFindingsAre ==
    ASSUME NEW template, NEW draft
    PROVE  ConceptFindings(template, draft) =
              {Reported(c, Foremost(FoundIn(template, draft, c))) :
                  c \in {k \in SemanticConcepts : FoundIn(template, draft, k) # {}}}
BY Zenon DEF ConceptFindings, FoundIn, Reported

\* A template that is read on establishes what it did.
LEMMA TemplateReadOn ==
    ASSUME NEW C \in Seq(ClauseOf), NEW D \in Seq(ClauseOf), ReadOn(C, D),
           NEW draft, DOMAIN draft = {1}
    PROVE  ConceptFindings(C, draft) \subseteq ConceptFindings(D, draft)
<1>1. SUFFICES ASSUME NEW f \in ConceptFindings(C, draft) PROVE f \in ConceptFindings(D, draft)
  OBVIOUS
<1>2. PICK c \in SemanticConcepts :
          FoundIn(C, draft, c) # {} /\ f = Reported(c, Foremost(FoundIn(C, draft, c)))
  BY ConceptFindingsAre, Zenon
<1>3. Establishes(C, c) => Establishes(D, c)
  <2>1. SUFFICES ASSUME NEW i \in DOMAIN C, NEW p \in DOMAIN C[i].text,
                        c.name \in C[i].text[p].standard
                 PROVE  Establishes(D, c)
    BY DEF Establishes
  <2>2. i \in DOMAIN D /\ p \in DOMAIN D[i].text /\ D[i].text[p] = C[i].text[p]
    BY DEF ReadOn
  <2>3. QED
    BY <2>1, <2>2 DEF Establishes
<1>4. FoundIn(C, draft, c) = {1}
  BY <1>2 DEF FoundIn
<1>5. 1 \in FoundIn(D, draft, c)
  <2>1. /\ 1 \in DOMAIN draft /\ LongEnough(draft[1].text)
        /\ c \in Detected(C, draft[1].text)
    BY <1>4 DEF FoundIn
  <2>2. c \in Detected(D, draft[1].text)
    BY <1>3, <2>1 DEF Detected
  <2>3. QED
    BY <2>1, <2>2 DEF FoundIn
<1>6. FoundIn(D, draft, c) = FoundIn(C, draft, c)
  BY <1>4, <1>5 DEF FoundIn
<1>7. QED
  BY <1>2, <1>6, ConceptFindingsAre, Zenon

\* A draft that is read on keeps what was found before its last clause.
LEMMA DraftReadOn ==
    ASSUME NEW C \in Seq(ClauseOf), NEW D \in Seq(ClauseOf), ReadOn(C, D),
           NEW template, NEW f \in ConceptFindings(template, C), f.clause # Len(C)
    PROVE  f \in ConceptFindings(template, D)
<1>1. PICK c \in SemanticConcepts :
          FoundIn(template, C, c) # {} /\ f = Reported(c, Foremost(FoundIn(template, C, c)))
  BY ConceptFindingsAre, Zenon
<1>2. PICK P : P = FoundIn(template, C, c)
  OBVIOUS
<1>3. PICK Q : Q = FoundIn(template, D, c)
  OBVIOUS
<1>4. PICK n \in Nat : n = Len(C)
  OBVIOUS
<1>5. P \subseteq DOMAIN C /\ Q \subseteq DOMAIN D
  BY <1>2, <1>3 DEF FoundIn
<1>6. DOMAIN C = 1..n /\ DOMAIN D \subseteq Nat
  BY <1>4
<1>7. P \in SUBSET Nat /\ Q \in SUBSET Nat /\ \A i \in P : i <= n
  BY <1>5, <1>6
<1>8. \A i \in Nat : i < n => (i \in P <=> i \in Q)
  <2>1. SUFFICES ASSUME NEW i \in Nat, i < n PROVE i \in P <=> i \in Q
    OBVIOUS
  <2>2. i \in DOMAIN C <=> i \in DOMAIN D
    BY <1>4, <2>1 DEF ReadOn
  <2>3. CASE i \in DOMAIN C
    <3>1. i \in DOMAIN D /\ D[i] = C[i]
      BY <1>4, <2>1, <2>2, <2>3 DEF ReadOn
    <3>2. QED
      BY <1>2, <1>3, <2>3, <3>1 DEF FoundIn
  <2>4. CASE i \notin DOMAIN C
    BY <1>5, <2>2, <2>4
  <2>5. QED
    BY <2>3, <2>4
<1>9. Foremost(P) < n
  <2>1. PICK p \in P : p = Foremost(P)
    BY <1>1, <1>2, <1>7, ForemostIs
  <2>2. f.clause = p
    BY <1>1, <1>2, <2>1 DEF Reported
  <2>3. p \in Nat /\ p <= n /\ p # n
    BY <1>4, <1>7, <2>1, <2>2
  <2>4. QED
    BY <2>1, <2>3
<1>10. Q # {} /\ Foremost(Q) = Foremost(P)
  BY <1>1, <1>2, <1>7, <1>8, <1>9, ForemostStays
<1>11. FoundIn(template, D, c) # {} /\ f = Reported(c, Foremost(FoundIn(template, D, c)))
  BY <1>1, <1>2, <1>3, <1>10, Zenon
<1>12. QED
  BY <1>11, ConceptFindingsAre, Zenon

-----------------------------------------------------------------------------
LEMMA TailReadOn ==
    ASSUME NEW C \in Seq(ClauseOf), NEW D \in Seq(ClauseOf), ReadOn(C, D), Len(C) > 1
    PROVE  /\ Tail(C) \in Seq(ClauseOf) /\ Tail(D) \in Seq(ClauseOf)
           /\ ReadOn(Tail(C), Tail(D)) /\ Len(Tail(C)) = Len(C) - 1 /\ C[1] = D[1]
<1>1. PICK m \in Nat, n \in Nat : m = Len(C) /\ n = Len(D)
  OBVIOUS
<1>2. m > 1 /\ m <= n /\ n <= m + 1 /\ C # <<>> /\ D # <<>>
  BY <1>1 DEF ReadOn
<1>3. PICK c \in Seq(ClauseOf) :
          c = Tail(C) /\ Len(c) = m - 1 /\ \A i \in 1..(m - 1) : c[i] = C[i + 1]
  <2>1. /\ Tail(C) \in Seq(ClauseOf) /\ Len(Tail(C)) = Len(C) - 1
        /\ \A i \in 1..Len(Tail(C)) : Tail(C)[i] = C[i + 1]
    BY <1>2, HeadTailProperties
  <2>2. QED
    BY <1>1, <2>1
<1>4. PICK d \in Seq(ClauseOf) :
          d = Tail(D) /\ Len(d) = n - 1 /\ \A i \in 1..(n - 1) : d[i] = D[i + 1]
  <2>1. /\ Tail(D) \in Seq(ClauseOf) /\ Len(Tail(D)) = Len(D) - 1
        /\ \A i \in 1..Len(Tail(D)) : Tail(D)[i] = D[i + 1]
    BY <1>2, HeadTailProperties
  <2>2. QED
    BY <1>1, <2>1
<1>5. DOMAIN C = 1..m /\ DOMAIN c = 1..(m - 1)
  BY <1>1, <1>3
<1>6. ASSUME NEW i \in 1..(m - 1)
      PROVE  i + 1 \in DOMAIN C /\ c[i] = C[i + 1] /\ d[i] = D[i + 1]
  BY <1>2, <1>3, <1>4, <1>5
<1>7. \A i \in DOMAIN c : i < Len(c) => d[i] = c[i]
  <2>1. SUFFICES ASSUME NEW i \in 1..(m - 1), i < m - 1 PROVE d[i] = c[i]
    BY <1>3, <1>5
  <2>2. i + 1 < m /\ i + 1 \in DOMAIN C
    BY <1>6, <2>1
  <2>3. D[i + 1] = C[i + 1]
    BY <1>1, <2>2 DEF ReadOn
  <2>4. QED
    BY <1>6, <2>3
<1>8. \A i \in DOMAIN c : \A p \in DOMAIN c[i].text :
          p \in DOMAIN d[i].text /\ d[i].text[p] = c[i].text[p]
  <2>1. SUFFICES ASSUME NEW i \in 1..(m - 1), NEW p \in DOMAIN c[i].text
                 PROVE  p \in DOMAIN d[i].text /\ d[i].text[p] = c[i].text[p]
    BY <1>5
  <2>2. c[i] = C[i + 1] /\ d[i] = D[i + 1] /\ i + 1 \in DOMAIN C
    BY <1>6
  <2>3. QED
    BY <2>1, <2>2 DEF ReadOn
<1>9. Len(c) <= Len(d) /\ Len(d) <= Len(c) + 1
  BY <1>2, <1>3, <1>4
<1>10. C[1] = D[1]
  <2>1. 1 \in DOMAIN C /\ 1 < Len(C)
    BY <1>1, <1>2, <1>5
  <2>2. QED
    BY <2>1 DEF ReadOn
<1>11. ReadOn(c, d)
  BY <1>7, <1>8, <1>9 DEF ReadOn
<1>12. QED
  BY <1>1, <1>3, <1>4, <1>10, <1>11

-----------------------------------------------------------------------------
\* A contract is a sequence of clauses, each a sequence of phrases.
ContractIs == contract \in Seq(ClauseOf)

LEMMA StartReadsOn ==
    ASSUME ContractIs, NEW heading \in Titles, StartClause(heading)
    PROVE  ContractIs' /\ ReadOn(contract, contract')
<1>1. PICK c \in ClauseOf : c = [heading |-> heading, text |-> <<>>]
  <2>1. <<>> \in Seq(Phrases)
    OBVIOUS
  <2>2. [heading |-> heading, text |-> <<>>] \in ClauseOf
    BY <2>1, Zenon DEF ClauseOf
  <2>3. QED
    BY <2>2
<1>2. contract' = Append(contract, c)
  BY <1>1 DEF StartClause
<1>3. PICK C \in Seq(ClauseOf), n \in Nat : C = contract /\ n = Len(C)
  BY DEF ContractIs
<1>4. PICK D \in Seq(ClauseOf) : D = contract'
  BY <1>2, <1>3, AppendProperties
<1>5. Len(D) = n + 1 /\ \A i \in 1..n : D[i] = C[i]
  BY <1>2, <1>3, <1>4, AppendProperties
<1>6. DOMAIN C = 1..n
  BY <1>3
<1>7. ReadOn(C, D)
  BY <1>3, <1>5, <1>6 DEF ReadOn
<1>8. QED
  BY <1>3, <1>4, <1>7 DEF ContractIs

LEMMA PhraseReadsOn ==
    ASSUME ContractIs, NEW phrase \in Phrases, AddPhrase(phrase)
    PROVE  ContractIs' /\ ReadOn(contract, contract')
<1>1. PICK C \in Seq(ClauseOf), n \in Nat : C = contract /\ n = Len(C)
  BY DEF ContractIs
<1>2. DOMAIN C = 1..n /\ n \in 1..n
  BY <1>1 DEF AddPhrase
<1>3. PICK c \in ClauseOf : c = C[n]
  BY <1>2
<1>4. PICK s \in Seq(Phrases) : s = c.text
  BY ClauseOfText
<1>5. PICK t \in Seq(Phrases) : t = Append(s, phrase)
  BY AppendProperties
<1>6. Len(t) = Len(s) + 1 /\ \A p \in 1..Len(s) : t[p] = s[p]
  BY <1>5, AppendProperties
<1>7. PICK d \in ClauseOf : d = [c EXCEPT !.text = t]
  <2>1. [c EXCEPT !.text = t] \in ClauseOf
    BY DEF ClauseOf
  <2>2. QED
    BY <2>1
<1>8. d.text = t
  BY <1>7 DEF ClauseOf
<1>9. contract' = [C EXCEPT ![n] = d]
  BY <1>1, <1>3, <1>4, <1>5, <1>7, Zenon DEF AddPhrase
<1>10. PICK D \in Seq(ClauseOf) : D = contract'
  BY <1>1, <1>2, <1>9, ExceptSeq
<1>11. Len(D) = n /\ D[n] = d /\ \A i \in 1..n : i # n => D[i] = C[i]
  BY <1>1, <1>2, <1>9, <1>10, ExceptSeq
<1>12. \A i \in DOMAIN C : i < Len(C) => D[i] = C[i]
  BY <1>1, <1>2, <1>11
<1>13. \A i \in DOMAIN C : \A p \in DOMAIN C[i].text :
          p \in DOMAIN D[i].text /\ D[i].text[p] = C[i].text[p]
  <2>1. SUFFICES ASSUME NEW i \in 1..n, NEW p \in DOMAIN C[i].text
                 PROVE  p \in DOMAIN D[i].text /\ D[i].text[p] = C[i].text[p]
    BY <1>2
  <2>2. CASE i = n
    <3>1. C[i].text = s /\ D[i].text = t
      BY <1>3, <1>4, <1>8, <1>11, <2>2
    <3>2. DOMAIN s = 1..Len(s) /\ DOMAIN t = 1..(Len(s) + 1) /\ Len(s) \in Nat
      BY <1>6
    <3>3. p \in DOMAIN t /\ t[p] = s[p]
      BY <1>6, <2>1, <3>1, <3>2
    <3>4. QED
      BY <3>1, <3>3
  <2>3. CASE i # n
    BY <1>11, <2>1, <2>3
  <2>4. QED
    BY <2>2, <2>3
<1>14. ReadOn(C, D)
  BY <1>1, <1>11, <1>12, <1>13 DEF ReadOn
<1>15. QED
  BY <1>1, <1>10, <1>14 DEF ContractIs

\* A step reads the contract on or leaves it alone.
LEMMA ContractSteps ==
    ASSUME ContractIs, [Next]_vars
    PROVE  ContractIs' /\ (contract' = contract \/ ReadOn(contract, contract'))
<1>1. CASE \E heading \in Titles : StartClause(heading)
  BY <1>1, StartReadsOn
<1>2. CASE \E phrase \in Phrases : AddPhrase(phrase)
  BY <1>2, PhraseReadsOn
<1>3. ASSUME contract' = contract
      PROVE  ContractIs'
  BY <1>3 DEF ContractIs
<1>4. CASE \E n \in 1..MaxWords : AddClause(n)
  BY <1>3, <1>4 DEF AddClause
<1>5. CASE \E id \in Ids : VectorHit(id) \/ LexicalHit(id)
  BY <1>3, <1>5 DEF VectorHit, LexicalHit
<1>6. CASE \E c \in Clauses : AddLeft(c) \/ AddRight(c)
  BY <1>3, <1>6 DEF AddLeft, AddRight
<1>7. CASE \E field \in Fields : ReadValues(field)
  BY <1>3, <1>7 DEF ReadValues
<1>8. CASE \E kind \in ParagraphKinds : AddParagraph(kind)
  BY <1>3, <1>8 DEF AddParagraph
<1>9. CASE \E kind \in LineKinds : AddLine(kind)
  BY <1>3, <1>9 DEF AddLine
<1>10. CASE UNCHANGED vars
  BY <1>3, <1>10 DEF vars
<1>11. QED
  BY <1>1, <1>2, <1>4, <1>5, <1>6, <1>7, <1>8, <1>9, <1>10 DEF Next

LEMMA ContractAlways == Spec => []ContractIs
<1>1. Init => ContractIs
  BY DEF Init, ContractIs
<1>2. ContractIs /\ [Next]_vars => ContractIs'
  BY ContractSteps
<1>3. QED
  BY <1>1, <1>2, PTL DEF Spec

\* Reading a contract on takes back no finding of an earlier clause and finds
\* nothing missing that was there: for contracts of any length, any phrases
\* and all rules and concepts.
THEOREM FindingsStableAlways == Spec => FindingsStable
<1> DEFINE Stable ==
       LET template == ConceptFindings(Tail(contract'), <<contract'[1]>>)
           draft    == ConceptFindings(<<contract'[1]>>, Tail(contract'))
           law      == LawFindings(contract')
           before   == {f.rule : f \in MissingTerms(contract)}
       IN  /\ \A f \in Violations(contract) \cup MissingInClauses(contract) :
                 f.clause # Len(contract) => f \in law
           /\ \A f \in MissingTerms(contract') : f.rule \in before
           /\ Len(contract) > 1 =>
                 /\ ConceptFindings(Tail(contract), <<contract[1]>>) \subseteq template
                 /\ \A f \in ConceptFindings(<<contract[1]>>, Tail(contract)) :
                       f.clause # Len(contract) - 1 => f \in draft
<1>1. ContractIs /\ [Next]_vars => [Stable]_contract
  <2>1. SUFFICES ASSUME ContractIs, [Next]_vars, contract' # contract PROVE Stable
    OBVIOUS
  <2>2. PICK C \in Seq(ClauseOf) : C = contract
    BY <2>1 DEF ContractIs
  <2>3. PICK D \in Seq(ClauseOf) : D = contract' /\ ReadOn(C, D)
    BY <2>1, <2>2, ContractSteps DEF ContractIs
  <2>4. \A f \in Violations(C) \cup MissingInClauses(C) : f.clause # Len(C) => f \in LawFindings(D)
    BY <2>3, LawFindingsStay
  <2>5. \A f \in MissingTerms(D) : f.rule \in {g.rule : g \in MissingTerms(C)}
    BY <2>3, MissingStay
  <2>6. ASSUME Len(C) > 1
        PROVE  /\ ConceptFindings(Tail(C), <<C[1]>>) \subseteq ConceptFindings(Tail(D), <<D[1]>>)
               /\ \A f \in ConceptFindings(<<C[1]>>, Tail(C)) :
                     f.clause # Len(C) - 1 => f \in ConceptFindings(<<D[1]>>, Tail(D))
    <3> DEFINE h == C[1]
    <3>1. PICK c \in Seq(ClauseOf), d \in Seq(ClauseOf) :
              /\ c = Tail(C) /\ d = Tail(D) /\ ReadOn(c, d) /\ Len(c) = Len(C) - 1
              /\ h = D[1]
      BY <2>3, <2>6, TailReadOn
    <3> HIDE DEF h
    <3>2. DOMAIN <<h>> = {1}
      OBVIOUS
    <3>3. ConceptFindings(c, <<h>>) \subseteq ConceptFindings(d, <<h>>)
      BY <3>1, <3>2, TemplateReadOn
    <3>4. \A f \in ConceptFindings(<<h>>, c) : f.clause # Len(c) => f \in ConceptFindings(<<h>>, d)
      BY <3>1, DraftReadOn
    <3>5. QED
      BY <3>1, <3>3, <3>4 DEF h
  <2>7. QED
    BY <2>2, <2>3, <2>4, <2>5, <2>6
<1>2. QED
  BY <1>1, ContractAlways, PTL DEF Spec, FindingsStable

-----------------------------------------------------------------------------
\* What holds of 0 and passes on from each number to the next holds up to n.
LEMMA Ascent ==
    ASSUME NEW n \in Nat, NEW S, 0 \in S, \A i \in 0..n : i < n /\ i \in S => i + 1 \in S
    PROVE  \A i \in 0..n : i \in S
<1> DEFINE Bad == {i \in 0..n : i \notin S}
<1>1. SUFFICES ASSUME Bad # {} PROVE FALSE
  OBVIOUS
<1>2. PICK m \in Bad : \A j \in Bad : m <= j
  <2>1. Bad \in SUBSET Nat
    OBVIOUS
  <2> HIDE DEF Bad
  <2>2. QED
    BY <1>1, <2>1, Least
<1>3. m \in 0..n /\ m \notin S /\ m # 0
  OBVIOUS
<1>4. m - 1 \in 0..n /\ m - 1 < n /\ ~ (m <= m - 1) /\ (m - 1) + 1 = m
  BY <1>3
<1>5. m - 1 \notin Bad
  <2> HIDE DEF Bad
  <2> QED BY <1>2, <1>4
<1>6. QED
  BY <1>3, <1>4, <1>5

\* A set of numbers up to n has a greatest one.
LEMMA Greatest ==
    ASSUME NEW n \in Nat, NEW s \in SUBSET (1..n), s # {}
    PROVE  Max(s) \in s /\ \A i \in s : Max(s) >= i
<1> DEFINE T == {n - i : i \in s}
<1>1. \A i \in s : i \in Int /\ 1 <= i /\ i <= n
  OBVIOUS
<1>2. T \in SUBSET Nat /\ T # {}
  BY <1>1
<1>3. PICK m \in T : \A j \in T : m <= j
  <2> HIDE DEF T
  <2> QED BY <1>2, Least
<1>4. PICK k \in s : m = n - k
  OBVIOUS
<1>5. ASSUME NEW i \in s PROVE k >= i
  <2>1. n - i \in T
    OBVIOUS
  <2>2. m <= n - i
    BY <1>3, <2>1
  <2>3. QED
    BY <1>1, <1>4, <2>2
<1>6. QED
  BY <1>5, Zenon DEF Max

\* The first i numbers end with i.
LEMMA GreatestOfFirst ==
    ASSUME NEW i \in Nat, i # 0
    PROVE  Max(1..i) = i /\ (1..i) \ {Max(1..i)} = 1..(i - 1) /\ 1..i # {}
<1>1. 1..i \in SUBSET (1..i) /\ 1..i # {} /\ i \in 1..i
  OBVIOUS
<1>2. Max(1..i) \in 1..i /\ Max(1..i) >= i
  BY <1>1, Greatest
<1>3. Max(1..i) = i
  BY <1>2
<1>4. (1..i) \ {i} = 1..(i - 1)
  OBVIOUS
<1>5. QED
  BY <1>1, <1>3, <1>4

\* The recursion of a fold, from base over sets of the first n positions, each
\* step taking the value so far and the greatest position.
Recurs(h, n, base, G) ==
    \A s \in SUBSET (1..n) : h[s] = IF s = {} THEN base ELSE G[<<h[s \ {Max(s)}], Max(s)>>]

\* A fold has a value: the recursion of FoldLeft, over the sets of positions of
\* a sequence, is that of some function.
LEMMA FoldExists ==
    ASSUME NEW n \in Nat, NEW A, NEW base \in A, NEW G \in [A \X (1..n) -> A]
    PROVE  \E h \in [SUBSET (1..n) -> A] : Recurs(h, n, base, G)
<1> DEFINE Folds(h, k) ==
              \A s \in SUBSET (1..k) :
                 h[s] = IF s = {} THEN base ELSE G[<<h[s \ {Max(s)}], Max(s)>>]
           S == {k \in 0..n : \E h \in [SUBSET (1..k) -> A] : Folds(h, k)}
<1>1. 0 \in S
  <2>1. PICK h \in [SUBSET (1..0) -> A] : h = [s \in SUBSET (1..0) |-> base]
    OBVIOUS
  <2>2. Folds(h, 0)
    <3>1. \A s \in SUBSET (1..0) : s = {}
      OBVIOUS
    <3>2. QED
      BY <2>1, <3>1
  <2>3. 0 \in 0..n
    OBVIOUS
  <2> HIDE DEF Folds
  <2>4. QED
    BY <2>1, <2>2, <2>3
<1>2. ASSUME NEW k \in 0..n, k < n, k \in S PROVE k + 1 \in S
  <2>1. PICK g \in [SUBSET (1..k) -> A] : Folds(g, k)
    BY <1>2
  <2> DEFINE h == [s \in SUBSET (1..(k + 1)) |->
                      IF k + 1 \in s THEN G[<<g[s \ {k + 1}], k + 1>>] ELSE g[s]]
  <2>2. ASSUME NEW s \in SUBSET (1..(k + 1)), k + 1 \in s
        PROVE  s \ {k + 1} \in SUBSET (1..k) /\ k + 1 \notin s \ {k + 1} /\ Max(s) = k + 1
    <3>1. s \ {k + 1} \in SUBSET (1..k) /\ k + 1 \notin s \ {k + 1}
      OBVIOUS
    <3>2. k + 1 \in Nat /\ s # {}
      BY <2>2
    <3>3. Max(s) \in s /\ Max(s) >= k + 1
      BY <2>2, <3>2, Greatest
    <3>4. Max(s) \in 1..(k + 1)
      BY <3>3
    <3>5. Max(s) = k + 1
      BY <3>3, <3>4
    <3>6. QED
      BY <3>1, <3>5
  <2>3. ASSUME NEW s \in SUBSET (1..(k + 1)), k + 1 \notin s
        PROVE  s \in SUBSET (1..k)
    BY <2>3
  <2>4. h \in [SUBSET (1..(k + 1)) -> A]
    <3>1. SUFFICES ASSUME NEW s \in SUBSET (1..(k + 1))
                   PROVE  (IF k + 1 \in s THEN G[<<g[s \ {k + 1}], k + 1>>] ELSE g[s]) \in A
      OBVIOUS
    <3>2. CASE k + 1 \in s
      <4>1. g[s \ {k + 1}] \in A /\ k + 1 \in 1..n
        BY <1>2, <2>2, <3>2
      <4>2. QED
        BY <3>2, <4>1
    <3>3. CASE k + 1 \notin s
      BY <2>3, <3>3
    <3>4. QED
      BY <3>2, <3>3
  <2>5. ASSUME NEW s \in SUBSET (1..(k + 1))
        PROVE  h[s] = IF s = {} THEN base ELSE G[<<h[s \ {Max(s)}], Max(s)>>]
    <3>1. CASE k + 1 \in s
      <4>1. h[s] = G[<<g[s \ {k + 1}], k + 1>>]
        BY <3>1
      <4>2. s \ {k + 1} \in SUBSET (1..(k + 1)) /\ k + 1 \notin s \ {k + 1} /\ Max(s) = k + 1
        BY <2>2, <3>1
      <4>3. h[s \ {k + 1}] = g[s \ {k + 1}]
        BY <4>2
      <4> HIDE DEF h
      <4>4. QED
        BY <3>1, <4>1, <4>2, <4>3, Zenon
    <3>2. CASE k + 1 \notin s
      <4>1. s \in SUBSET (1..k) /\ h[s] = g[s]
        BY <2>3, <3>2
      <4>2. s \ {Max(s)} \in SUBSET (1..(k + 1)) /\ k + 1 \notin s \ {Max(s)}
        BY <3>2
      <4>3. h[s \ {Max(s)}] = g[s \ {Max(s)}]
        BY <4>2
      <4>4. g[s] = IF s = {} THEN base ELSE G[<<g[s \ {Max(s)}], Max(s)>>]
        BY <2>1, <4>1
      <4> HIDE DEF h
      <4>5. QED
        BY <4>1, <4>3, <4>4, Zenon
    <3>3. QED
      BY <3>1, <3>2
  <2>6. Folds(h, k + 1) /\ k + 1 \in 0..n
    <3>1. k + 1 \in 0..n
      BY <1>2
    <3> HIDE DEF h
    <3>2. QED
      BY <2>5, <3>1
  <2>7. QED
    <3> HIDE DEF h
    <3> QED BY <2>4, <2>6
<1>3. n \in S
  <2>1. n \in 0..n
    OBVIOUS
  <2> HIDE DEF S
  <2>2. QED
    BY <1>1, <1>2, <2>1, Ascent
<1>4. QED
  BY <1>3, Zenon DEF Recurs

\* The clauses of a document, as chunking is given them.
Numbered == [id : Nat, text : Seq(Nat)]

\* A clause has an id and a text.
LEMMA NumberedFields ==
    ASSUME NEW c \in Numbered
    PROVE  c.id \in Nat /\ c.text \in Seq(Nat) /\ Len(c.text) \in Nat
BY DEF Numbered

\* Every clause of a document is one.
LEMMA NumberedAt ==
    ASSUME NEW D \in Seq(Numbered), NEW i \in 1..Len(D)
    PROVE  D[i] \in Numbered
OBVIOUS

\* The words of a document are counted clause by clause.
LEMMA WordsIs ==
    ASSUME NEW D \in Seq(Numbered)
    PROVE  \E f \in [0..Len(D) -> Nat] :
              /\ f[0] = 0 /\ Words(D) = f[Len(D)]
              /\ \A i \in 1..Len(D) : f[i] = f[i - 1] + Len(D[i].text)
<1> DEFINE n == Len(D)
           Counts(it) == it = [s \in SUBSET DOMAIN D |->
                                 IF s = {} THEN 0
                                 ELSE it[s \ {Max(s)}] + Len(D[Max(s)].text)]
           G == [p \in Nat \X (1..n) |-> p[1] + Len(D[p[2]].text)]
<1>1. n \in Nat /\ DOMAIN D = 1..n
  BY LenProperties
<1>2. \A i \in 1..n : Len(D[i].text) \in Nat
  BY NumberedAt, NumberedFields
<1>3. G \in [Nat \X (1..n) -> Nat]
  BY <1>2
<1>4. \A a \in Nat, i \in 1..n : G[<<a, i>>] = a + Len(D[i].text)
  OBVIOUS
<1>5. PICK h \in [SUBSET (1..n) -> Nat] : Recurs(h, n, 0, G)
  <2>1. 0 \in Nat
    OBVIOUS
  <2> HIDE DEF G, n
  <2>2. QED
    BY <1>1, <1>3, <2>1, FoldExists
<1>6. ASSUME NEW s \in SUBSET (1..n), s # {}
      PROVE  h[s] = h[s \ {Max(s)}] + Len(D[Max(s)].text)
  <2>1. Max(s) \in 1..n
    BY <1>1, <1>6, Greatest
  <2>2. h[s \ {Max(s)}] \in Nat
    OBVIOUS
  <2> HIDE DEF G
  <2>3. QED
    BY <1>4, <1>5, <1>6, <2>1, <2>2 DEF Recurs
<1>7. Counts(h)
  <2>1. h = [s \in SUBSET (1..n) |-> h[s]]
    OBVIOUS
  <2>2. ASSUME NEW s \in SUBSET (1..n)
        PROVE  h[s] = IF s = {} THEN 0 ELSE h[s \ {Max(s)}] + Len(D[Max(s)].text)
    BY <1>5, <1>6 DEF Recurs
  <2>3. h = [s \in SUBSET (1..n) |->
               IF s = {} THEN 0 ELSE h[s \ {Max(s)}] + Len(D[Max(s)].text)]
    <3> HIDE DEF G, n
    <3> QED BY <2>1, <2>2
  <2>4. QED
    BY <1>1, <2>3, Zenon
<1>8. PICK it : it = CHOOSE g : Counts(g)
  OBVIOUS
<1>9. Counts(it)
  <2> HIDE DEF Counts
  <2> QED BY <1>7, <1>8, Zenon
<1>10. Words(D) = it[1..n]
  <2>1. Words(D) = it[DOMAIN D]
    BY <1>8, Zenon DEF Words, FoldLeft, MapThenFoldSet
  <2>2. QED
    BY <1>1, <2>1, Zenon
<1> DEFINE f == [i \in 0..n |-> it[1..i]]
<1>11. f[0] = 0
  <2>1. 1..0 = {} /\ 0 \in 0..n
    BY <1>1
  <2>2. it[{}] = 0
    BY <1>9
  <2>3. QED
    BY <2>1, <2>2
<1>12. ASSUME NEW i \in 1..n PROVE f[i] = f[i - 1] + Len(D[i].text)
  <2>1. 1..i \in SUBSET (1..n) /\ i \in 0..n /\ i - 1 \in 0..n /\ i \in Nat /\ i # 0
    BY <1>1
  <2>2. Max(1..i) = i /\ (1..i) \ {Max(1..i)} = 1..(i - 1) /\ 1..i # {}
    BY <2>1, GreatestOfFirst
  <2>3. it[1..i] = it[(1..i) \ {Max(1..i)}] + Len(D[Max(1..i)].text)
    BY <1>1, <1>9, <2>1, <2>2
  <2>4. it[1..i] = it[1..(i - 1)] + Len(D[i].text)
    BY <2>2, <2>3
  <2>5. QED
    BY <2>1, <2>4
<1>13. \A i \in 0..n : f[i] \in Nat
  <2> DEFINE S == {i \in 0..n : f[i] \in Nat}
  <2>1. 0 \in S
    BY <1>1, <1>11
  <2>2. ASSUME NEW i \in 0..n, i < n, i \in S PROVE i + 1 \in S
    <3>1. i + 1 \in 1..n /\ i + 1 \in 0..n /\ (i + 1) - 1 = i /\ f[i] \in Nat
      BY <1>1, <2>2
    <3> HIDE DEF f
    <3>2. f[i + 1] = f[i] + Len(D[i + 1].text)
      BY <1>12, <3>1
    <3>3. QED
      BY <1>2, <3>1, <3>2
  <2>3. \A i \in 0..n : i \in S
    <3> HIDE DEF S
    <3> QED BY <1>1, <2>1, <2>2, Ascent
  <2>4. QED
    BY <2>3
<1>14. f \in [0..n -> Nat]
  <2>1. f = [i \in 0..n |-> f[i]]
    OBVIOUS
  <2> HIDE DEF f
  <2>2. QED
    BY <1>13, <2>1
<1>15. Words(D) = f[n]
  BY <1>1, <1>10
<1>16. QED
  <2> HIDE DEF f
  <2> QED BY <1>11, <1>12, <1>14, <1>15

\* Tokens are 1.3 per word, up to a half.
LEMMA TokensBounds ==
    ASSUME NEW n \in Nat
    PROVE  /\ Tokens(n) \in Nat
           /\ 13 * n <= 10 * Tokens(n) + 5 /\ 10 * Tokens(n) <= 13 * n + 5
<1>1. PICK m \in Nat : m = 13 * n
  OBVIOUS
<1>2. PICK q \in Nat : q = m \div 10
  BY <1>1
<1>3. PICK r \in 0..9 : r = m % 10
  BY <1>1
<1>4. m = 10 * q + r
  BY <1>1, <1>2, <1>3
<1>5. Tokens(n) = IF r > 5 \/ (r = 5 /\ q % 2 = 1) THEN q + 1 ELSE q
  BY <1>1, <1>2, <1>3, Zenon DEF Tokens
<1>6. CASE Tokens(n) = q /\ r <= 5
  BY ONLY <1>1, <1>2, <1>3, <1>4, <1>6
<1>7. CASE Tokens(n) = q + 1 /\ r >= 5
  BY ONLY <1>1, <1>2, <1>3, <1>4, <1>7
<1>8. QED
  BY <1>3, <1>5, <1>6, <1>7

\* A word more is a token or two more.
LEMMA TokensStep ==
    ASSUME NEW n \in Nat
    PROVE  Tokens(n) + 1 <= Tokens(n + 1) /\ Tokens(n + 1) <= Tokens(n) + 2
<1>1. PICK s \in Nat : s = Tokens(n)
  BY TokensBounds
<1>2. PICK t \in Nat : t = Tokens(n + 1)
  BY TokensBounds
<1>3. 13 * n <= 10 * s + 5 /\ 10 * s <= 13 * n + 5
  BY <1>1, TokensBounds
<1>4. 13 * (n + 1) <= 10 * t + 5 /\ 10 * t <= 13 * (n + 1) + 5
  BY <1>2, TokensBounds
<1>5. s + 1 <= t /\ t <= s + 2
  BY ONLY n \in Nat, s \in Nat, t \in Nat, <1>3, <1>4
<1>6. QED
  BY <1>1, <1>2, <1>5

\* No token without words, one for one word.
LEMMA TokensFew == Tokens(0) = 0 /\ Tokens(1) = 1
<1>1. PICK s \in Nat : s = Tokens(0)
  BY TokensBounds
<1>2. PICK t \in Nat : t = Tokens(1)
  BY TokensBounds
<1>3. 13 * 0 <= 10 * s + 5 /\ 10 * s <= 13 * 0 + 5
  BY <1>1, TokensBounds
<1>4. 13 * 1 <= 10 * t + 5 /\ 10 * t <= 13 * 1 + 5
  BY <1>2, TokensBounds
<1>5. QED
  BY <1>1, <1>2, <1>3, <1>4

\* The end of a text that is repeated: as long as the overlap allows.
LEMMA OverlapTailIs ==
    ASSUME NEW words, Len(words) \in Nat, NEW cap \in Nat
    PROVE  \E n \in 0..Len(words) :
              /\ Tokens(n) <= cap /\ (n = Len(words) \/ Tokens(n + 1) > cap)
              /\ OverlapTail(words, cap) = SubSeq(words, Len(words) - n + 1, Len(words))
<1> DEFINE L == Len(words)
           Fits(n) == Tokens(n) <= cap /\ (n = L \/ Tokens(n + 1) > cap)
           S == {n \in 0..L : Tokens(n) <= cap}
<1>1. \E n \in 0..L : Fits(n)
  <2>1. SUFFICES ASSUME \A n \in 0..L : ~ Fits(n) PROVE FALSE
    OBVIOUS
  <2>2. 0 \in S
    BY TokensFew
  <2>3. ASSUME NEW n \in 0..L, n < L, n \in S PROVE n + 1 \in S
    <3>1. Tokens(n) <= cap /\ n # L /\ ~ Fits(n) /\ n + 1 \in 0..L /\ n + 1 \in Nat
      BY <2>1, <2>3
    <3>2. ~ (Tokens(n + 1) > cap)
      BY <3>1
    <3>3. Tokens(n + 1) \in Nat
      BY <3>1, TokensBounds
    <3>4. Tokens(n + 1) <= cap
      BY <3>2, <3>3
    <3>5. QED
      BY <3>1, <3>4
  <2>4. L \in S
    <3>1. L \in 0..L /\ L \in Nat
      OBVIOUS
    <3> HIDE DEF S, L
    <3>2. QED
      BY <2>2, <2>3, <3>1, Ascent
  <2>5. Fits(L) /\ L \in 0..L
    BY <2>4
  <2>6. QED
    BY <2>1, <2>5
<1>2. PICK n : n = CHOOSE m \in 0..L : Fits(m)
  OBVIOUS
<1>3. n \in 0..L /\ Fits(n)
  <2> HIDE DEF Fits
  <2> QED BY <1>1, <1>2
<1>4. OverlapTail(words, cap) = SubSeq(words, L - n + 1, L)
  BY <1>2, Zenon DEF OverlapTail
<1>5. QED
  BY <1>3, <1>4

\* The overlap and one word more never fill a chunk: it is shorter than the
\* chunk it is the end of, and leaves room for the next word.
LEMMA OverlapFits ==
    ASSUME NEW words, Len(words) \in Nat, NEW max \in Nat \ {0}, NEW overlap \in Nat,
           Tokens(Len(words) + 1) > max, words # <<>>, Len(words) > 0
    PROVE  \E n \in 0..Len(words) :
              /\ n < Len(words) /\ Tokens(n + 1) <= max
              /\ OverlapTail(words, OverlapCap(max, overlap)) =
                    SubSeq(words, Len(words) - n + 1, Len(words))
<1> DEFINE L == Len(words)
<1>1. PICK third \in Nat : third = max \div 3 /\ 3 * third <= max
  OBVIOUS
<1>2. PICK cap \in Nat : cap = OverlapCap(max, overlap)
  BY <1>1 DEF OverlapCap
<1>3. cap <= third
  BY <1>1, <1>2 DEF OverlapCap
<1>4. PICK n \in 0..L : /\ Tokens(n) <= cap /\ (n = L \/ Tokens(n + 1) > cap)
                        /\ OverlapTail(words, cap) = SubSeq(words, L - n + 1, L)
  BY OverlapTailIs
<1>5. PICK s \in Nat : s = Tokens(n)
  BY TokensBounds
<1>6. PICK t \in Nat : t = Tokens(n + 1)
  <2>1. n + 1 \in Nat
    OBVIOUS
  <2>2. Tokens(n + 1) \in Nat
    BY ONLY <2>1, TokensBounds
  <2>3. QED
    BY ONLY <2>2
<1>7. s + 1 <= t /\ t <= s + 2 /\ s <= cap
  BY <1>4, <1>5, <1>6, TokensStep
<1>8. t <= max
  <2>1. CASE third = 0
    <3>1. s = 0
      BY <1>3, <1>7, <2>1
    <3>2. n = 0
      <4>1. 13 * n <= 10 * s + 5 /\ n \in Nat
        BY <1>5, TokensBounds
      <4>2. QED
        BY <3>1, <4>1
    <3>3. t = 1
      BY <1>6, <3>2, TokensFew
    <3>4. QED
      BY <3>3
  <2>2. CASE third # 0
    BY ONLY <2>2, third \in Nat, max \in Nat, s \in Nat, t \in Nat, cap \in Nat,
            <1>1, <1>3, <1>7
  <2>3. QED
    BY <2>1, <2>2
<1>9. n # L
  BY <1>6, <1>8
<1>10. n < L /\ Tokens(n + 1) <= max
  BY <1>6, <1>8, <1>9
<1>11. OverlapTail(words, OverlapCap(max, overlap)) = SubSeq(words, L - n + 1, L)
  BY <1>2, <1>4
<1>12. QED
  BY <1>10, <1>11

\* A text is a stretch of the document from its word a.
Passage(t, a) == t \in Seq(Nat) /\ \A p \in 1..Len(t) : t[p] = a + p - 1

EndOf(t) == t[1] + Len(t) - 1

\* Where a stretch begins and ends.
LEMMA PassageStarts ==
    ASSUME NEW t \in Seq(Nat), NEW a \in Nat, Passage(t, a), Len(t) > 0
    PROVE  t[1] = a /\ t[Len(t)] = a + Len(t) - 1
<1>1. Len(t) \in 1..Len(t) /\ 1 \in 1..Len(t)
  OBVIOUS
<1>2. QED
  BY <1>1 DEF Passage

\* A stretch and the one behind it are one.
LEMMA PassageConcat ==
    ASSUME NEW t, NEW u, NEW a \in Nat, Passage(t, a), Passage(u, a + Len(t))
    PROVE  Passage(t \o u, a) /\ Len(t \o u) = Len(t) + Len(u)
<1>1. /\ t \in Seq(Nat) /\ u \in Seq(Nat) /\ Len(t) \in Nat /\ Len(u) \in Nat
      /\ \A p \in 1..Len(t) : t[p] = a + p - 1
      /\ \A p \in 1..Len(u) : u[p] = a + Len(t) + p - 1
  BY DEF Passage
<1>2. /\ t \o u \in Seq(Nat) /\ Len(t \o u) = Len(t) + Len(u)
      /\ \A p \in 1..(Len(t) + Len(u)) :
            (t \o u)[p] = IF p <= Len(t) THEN t[p] ELSE u[p - Len(t)]
  BY <1>1, ConcatProperties
<1>3. ASSUME NEW p \in 1..Len(t \o u) PROVE (t \o u)[p] = a + p - 1
  <2>1. CASE p <= Len(t)
    <3>1. p \in 1..Len(t) /\ p \in 1..(Len(t) + Len(u))
      BY <1>1, <1>2, <2>1
    <3>2. QED
      BY <1>1, <1>2, <2>1, <3>1
  <2>2. CASE ~ (p <= Len(t))
    <3>1. p - Len(t) \in 1..Len(u) /\ p \in 1..(Len(t) + Len(u))
      BY <1>1, <1>2, <2>2
    <3>2. (t \o u)[p] = u[p - Len(t)]
      BY <1>2, <2>2, <3>1
    <3>3. QED
      BY <1>1, <3>1, <3>2
  <2>3. QED
    BY <2>1, <2>2
<1>4. QED
  BY <1>2, <1>3 DEF Passage

\* A stretch and the next word are one.
LEMMA PassageAppend ==
    ASSUME NEW t, NEW a \in Nat, Passage(t, a)
    PROVE  /\ Passage(Append(t, a + Len(t)), a) /\ Len(Append(t, a + Len(t))) = Len(t) + 1
           /\ Append(t, a + Len(t))[1] = a
<1>1. /\ t \in Seq(Nat) /\ Len(t) \in Nat /\ a + Len(t) \in Nat
      /\ \A p \in 1..Len(t) : t[p] = a + p - 1
  BY DEF Passage
<1>2. PICK u : u = Append(t, a + Len(t))
  OBVIOUS
<1>3. /\ u \in Seq(Nat) /\ Len(u) = Len(t) + 1 /\ u[Len(t) + 1] = a + Len(t)
      /\ \A p \in 1..Len(t) : u[p] = t[p]
  BY <1>1, <1>2, AppendProperties
<1>4. ASSUME NEW p \in 1..Len(u) PROVE u[p] = a + p - 1
  <2>1. CASE p \in 1..Len(t)
    BY <1>1, <1>3, <2>1
  <2>2. CASE p = Len(t) + 1
    BY <1>1, <1>3, <2>2
  <2>3. QED
    BY <1>1, <1>3, <2>1, <2>2
<1>5. Passage(u, a)
  BY <1>3, <1>4 DEF Passage
<1>6. u[1] = a
  BY <1>1, <1>3, <1>5, PassageStarts
<1>7. QED
  BY <1>2, <1>3, <1>5, <1>6

\* The elements of a sequence that is not empty.
LEMMA NotEmpty ==
    ASSUME NEW S, NEW s \in Seq(S), s # <<>>
    PROVE  Len(s) \in Nat /\ Len(s) # 0 /\ Len(s) \in 1..Len(s) /\ DOMAIN s = 1..Len(s)
<1>1. \A t \in Seq(S) : t # <<>> => Len(t) \in Nat \ {0}
  BY EmptySeq
<1>2. Len(s) \in Nat \ {0}
  BY <1>1
<1>3. Len(s) \in 1..Len(s)
  BY ONLY <1>2
<1>4. DOMAIN s = 1..Len(s)
  BY LenProperties
<1>5. QED
  BY <1>2, <1>3, <1>4

\* The end of a sequence has its elements.
LEMMA TailIs ==
    ASSUME NEW S, NEW s \in Seq(S), NEW m \in Nat, NEW n \in Nat, m + n = Len(s)
    PROVE  SubSeq(s, m + 1, Len(s)) \in Seq(S) /\ Len(SubSeq(s, m + 1, Len(s))) = n
<1>1. PICK l \in Nat : l = Len(s)
  BY LenProperties
<1>2. SubSeq(s, m + 1, l) \in Seq(S)
  BY <1>1
<1>3. Len(SubSeq(s, m + 1, l)) = n
  BY <1>1
<1>4. QED
  BY <1>1, <1>2, <1>3

\* The end of a stretch is one.
LEMMA PassageTail ==
    ASSUME NEW t, NEW a \in Nat, Passage(t, a), NEW n \in 0..Len(t)
    PROVE  /\ Passage(SubSeq(t, Len(t) - n + 1, Len(t)), a + Len(t) - n)
           /\ Len(SubSeq(t, Len(t) - n + 1, Len(t))) = n
<1>1. /\ t \in Seq(Nat) /\ Len(t) \in Nat /\ n \in Nat /\ n <= Len(t)
      /\ \A p \in 1..Len(t) : t[p] = a + p - 1
  BY DEF Passage
<1>2. PICK m \in Nat : m = Len(t) - n
  BY <1>1
<1>3. PICK u : u = SubSeq(t, m + 1, Len(t))
  OBVIOUS
<1>4. /\ u \in Seq(Nat) /\ Len(u) = n /\ \A p \in 1..n : u[p] = t[m + p]
  <2>1. m + 1 \in 1..(Len(t) + 1) /\ Len(t) \in 0..Len(t) /\ m + n = Len(t)
    BY <1>1, <1>2
  <2>2. u \in Seq(Nat)
    BY <1>1, <1>3, <2>1, TailIs
  <2>3. Len(u) = n
    BY <1>1, <1>3, <2>1, TailIs
  <2>4. ASSUME NEW p \in 1..n PROVE u[p] = t[m + p]
    <3>1. p \in 1..Len(u) /\ (m + 1) + p - 1 = m + p
      BY <1>1, <2>3
    <3>2. u[p] = t[(m + 1) + p - 1]
      BY <1>1, <1>3, <2>1, <3>1
    <3>3. QED
      BY <3>1, <3>2
  <2>5. QED
    BY <2>2, <2>3, <2>4
<1>5. ASSUME NEW p \in 1..Len(u) PROVE u[p] = (a + m) + p - 1
  <2>1. m + p \in 1..Len(t) /\ p \in 1..n /\ p \in Nat
    BY <1>1, <1>2, <1>4
  <2>2. u[p] = t[m + p] /\ t[m + p] = a + (m + p) - 1
    BY <1>1, <1>4, <2>1
  <2>3. QED
    BY <2>1, <2>2
<1>6. Passage(u, a + m) /\ a + m = a + Len(t) - n
  BY <1>1, <1>2, <1>4, <1>5 DEF Passage
<1>7. Len(t) - n + 1 = m + 1
  BY <1>2
<1>8. QED
  BY <1>3, <1>4, <1>6, <1>7

\* Texts cover the document from behind word a to word b: stretches of it that
\* fit in a chunk, each further on than the one before but without a gap.
Piece(t) == t \in Seq(Nat) /\ Len(t) > 0 /\ Passage(t, t[1]) /\ Tokens(Len(t)) <= MaxTokens

Follows(u, t) == u[1] <= EndOf(t) + 1 /\ u[1] > t[1] /\ EndOf(u) > EndOf(t)

Covers(X, a, b) ==
    /\ X \in Seq(Seq(Nat)) /\ Len(X) > 0
    /\ \A i \in 1..Len(X) : Piece(X[i])
    /\ \A i \in 2..Len(X) : Follows(X[i], X[i - 1])
    /\ X[1][1] = a + 1 /\ EndOf(X[Len(X)]) = b

\* Where a piece begins and ends are numbers.
LEMMA PieceIs ==
    ASSUME NEW t, Piece(t)
    PROVE  t \in Seq(Nat) /\ Len(t) \in Nat /\ Len(t) > 0 /\ t[1] \in Nat /\ EndOf(t) \in Nat
BY DEF Piece, EndOf

\* A piece covers itself.
LEMMA CoversOne ==
    ASSUME NEW t, Piece(t)
    PROVE  Covers(<<t>>, t[1] - 1, EndOf(t))
<1>1. PICK X : X = <<t>>
  OBVIOUS
<1>2. t \in Seq(Nat) /\ t[1] \in Nat
  BY PieceIs
<1>3. X \in Seq(Seq(Nat)) /\ Len(X) = 1 /\ X[1] = t
  BY <1>1, <1>2
<1>4. t[1] = (t[1] - 1) + 1
  BY <1>2
<1>5. \A i \in 1..Len(X) : Piece(X[i])
  BY <1>3
<1>6. \A i \in 2..Len(X) : FALSE
  BY <1>3
<1>7. QED
  BY <1>1, <1>3, <1>4, <1>5, <1>6 DEF Covers

\* A piece that follows covers further.
LEMMA CoversNext ==
    ASSUME NEW X, NEW a \in Nat, NEW b \in Nat, Covers(X, a, b),
           NEW t, Piece(t), Follows(t, X[Len(X)])
    PROVE  Covers(Append(X, t), a, EndOf(t))
<1>1. PICK n \in Nat : n = Len(X) /\ n > 0
  BY DEF Covers
<1>2. /\ X \in Seq(Seq(Nat)) /\ X[1][1] = a + 1
      /\ \A i \in 1..n : Piece(X[i])
      /\ \A i \in 2..n : Follows(X[i], X[i - 1])
  BY <1>1 DEF Covers
<1>3. t \in Seq(Nat)
  BY PieceIs
<1>4. PICK Y : Y = Append(X, t)
  OBVIOUS
<1>5. /\ Y \in Seq(Seq(Nat)) /\ Len(Y) = n + 1 /\ Y[n + 1] = t
      /\ \A i \in 1..n : Y[i] = X[i]
  BY <1>1, <1>2, <1>3, <1>4, AppendProperties
<1>6. ASSUME NEW i \in 1..Len(Y) PROVE Piece(Y[i])
  <2>1. CASE i = n + 1
    BY <1>5, <2>1
  <2>2. CASE i # n + 1
    <3>1. i \in 1..n
      BY <1>5, <2>2
    <3>2. QED
      BY <1>2, <1>5, <3>1
  <2>3. QED
    BY <2>1, <2>2
<1>7. ASSUME NEW i \in 2..Len(Y) PROVE Follows(Y[i], Y[i - 1])
  <2>1. CASE i = n + 1
    <3>1. i - 1 = n /\ n \in 1..n
      BY <1>1, <2>1
    <3>2. Y[i] = t /\ Y[i - 1] = X[n]
      BY <1>5, <2>1, <3>1
    <3>3. QED
      BY <1>1, <3>2
  <2>2. CASE i # n + 1
    <3>1. i \in 2..n /\ i \in 1..n /\ i - 1 \in 1..n
      BY <1>5, <2>2
    <3>2. Y[i] = X[i] /\ Y[i - 1] = X[i - 1]
      BY <1>5, <3>1
    <3>3. QED
      BY <1>2, <3>1, <3>2
  <2>3. QED
    BY <2>1, <2>2
<1>8. Y[1] = X[1] /\ Len(Y) > 0 /\ Y[Len(Y)] = t
  <2>1. 1 \in 1..n
    BY <1>1
  <2>2. QED
    BY <1>5, <2>1
<1>9. QED
  BY <1>2, <1>4, <1>5, <1>6, <1>7, <1>8 DEF Covers

\* A piece takes the next word, if it still fits in a chunk.
LEMMA LongerPiece ==
    ASSUME NEW t, Piece(t), Tokens(Len(t) + 1) <= MaxTokens
    PROVE  LET u == Append(t, EndOf(t) + 1)
           IN  Piece(u) /\ u[1] = t[1] /\ EndOf(u) = EndOf(t) + 1
<1>1. /\ t \in Seq(Nat) /\ Len(t) \in Nat /\ Len(t) > 0 /\ t[1] \in Nat /\ Passage(t, t[1])
      /\ EndOf(t) + 1 = t[1] + Len(t)
  BY PieceIs DEF Piece, EndOf
<1>2. PICK u : u = Append(t, EndOf(t) + 1)
  OBVIOUS
<1>3. u = Append(t, t[1] + Len(t))
  BY <1>1, <1>2
<1>4. Passage(u, t[1]) /\ Len(u) = Len(t) + 1 /\ u[1] = t[1]
  BY <1>1, <1>3, PassageAppend
<1>5. Piece(u)
  <2>1. u \in Seq(Nat)
    BY <1>4 DEF Passage
  <2>2. Passage(u, u[1]) /\ Len(u) > 0 /\ Tokens(Len(u)) <= MaxTokens
    BY <1>1, <1>4
  <2>3. QED
    BY <2>1, <2>2 DEF Piece
<1>6. EndOf(u) = EndOf(t) + 1
  BY <1>1, <1>4 DEF EndOf
<1>7. QED
  BY <1>2, <1>4, <1>5, <1>6

\* The last text takes one word more.
LEMMA CoversGrow ==
    ASSUME NEW out \in Seq(Seq(Nat)), NEW cur \in Seq(Nat), NEW a \in Nat, NEW b \in Nat,
           Covers(Append(out, cur), a, b), Tokens(Len(cur) + 1) <= MaxTokens
    PROVE  Covers(Append(out, Append(cur, b + 1)), a, b + 1)
<1>1. PICK n \in Nat : n = Len(out)
  BY LenProperties
<1>2. PICK X : X = Append(out, cur)
  OBVIOUS
<1>3. Len(X) = n + 1 /\ X[n + 1] = cur /\ \A i \in 1..n : X[i] = out[i]
  BY <1>1, <1>2, AppendProperties
<1>4. /\ X[1][1] = a + 1 /\ EndOf(cur) = b
      /\ \A i \in 1..(n + 1) : Piece(X[i])
      /\ \A i \in 2..(n + 1) : Follows(X[i], X[i - 1])
  BY <1>2, <1>3 DEF Covers
<1>5. Piece(cur)
  <2>1. n + 1 \in 1..(n + 1)
    OBVIOUS
  <2>2. QED
    BY <1>3, <1>4, <2>1
<1>6. PICK t : t = Append(cur, b + 1)
  OBVIOUS
<1>7. Piece(t) /\ t[1] = cur[1] /\ EndOf(t) = b + 1
  BY <1>4, <1>5, <1>6, LongerPiece
<1>8. PICK Y : Y = Append(out, t)
  OBVIOUS
<1>9. /\ Y \in Seq(Seq(Nat)) /\ Len(Y) = n + 1 /\ Y[n + 1] = t
      /\ \A i \in 1..n : Y[i] = X[i]
  <2>1. t \in Seq(Nat)
    BY <1>7, PieceIs
  <2>2. QED
    BY <1>1, <1>3, <1>8, <2>1, AppendProperties
<1>10. ASSUME NEW i \in 1..Len(Y) PROVE Piece(Y[i])
  <2>1. CASE i = n + 1
    BY <1>7, <1>9, <2>1
  <2>2. CASE i # n + 1
    <3>1. i \in 1..n /\ i \in 1..(n + 1)
      BY <1>9, <2>2
    <3>2. QED
      BY <1>4, <1>9, <3>1
  <2>3. QED
    BY <2>1, <2>2
<1>11. ASSUME NEW i \in 2..Len(Y) PROVE Follows(Y[i], Y[i - 1])
  <2>0. i \in 2..(n + 1) /\ i - 1 \in 1..n /\ i \in Nat
    BY <1>9
  <2>1. Follows(X[i], X[i - 1]) /\ Y[i - 1] = X[i - 1]
    BY <1>4, <1>9, <2>0
  <2>2. CASE i = n + 1
    <3>1. Y[i] = t /\ X[i] = cur
      BY <1>3, <1>9, <2>2
    <3>2. PICK p : p = X[i - 1] /\ Piece(p)
      <4>1. i - 1 \in 1..(n + 1)
        BY <2>0
      <4>2. QED
        BY <1>4, <4>1
    <3>3. p[1] \in Nat /\ EndOf(p) \in Nat /\ cur[1] \in Nat /\ EndOf(cur) \in Nat
      BY <1>5, <3>2, PieceIs
    <3>4. cur[1] <= EndOf(p) + 1 /\ cur[1] > p[1] /\ EndOf(cur) > EndOf(p)
      BY <2>1, <3>1, <3>2 DEF Follows
    <3>5. t[1] <= EndOf(p) + 1 /\ t[1] > p[1] /\ EndOf(t) > EndOf(p)
      <4>1. b + 1 > EndOf(p)
        BY <1>4, <3>3, <3>4
      <4>2. QED
        BY <1>7, <3>4, <4>1
    <3>6. QED
      BY <2>1, <3>1, <3>2, <3>5 DEF Follows
  <2>3. CASE i # n + 1
    <3>1. i \in 1..n
      BY <2>0, <2>3
    <3>2. QED
      BY <1>9, <2>1, <3>1
  <2>4. QED
    BY <2>2, <2>3
<1>12. Y[1][1] = a + 1
  <2>1. CASE n = 0
    BY <1>3, <1>4, <1>7, <1>9, <2>1
  <2>2. CASE n # 0
    <3>1. 1 \in 1..n
      BY <2>2
    <3>2. QED
      BY <1>4, <1>9, <3>1
  <2>3. QED
    BY <2>1, <2>2
<1>13. EndOf(Y[Len(Y)]) = b + 1 /\ Len(Y) > 0
  BY <1>7, <1>9
<1>14. QED
  BY <1>6, <1>8, <1>9, <1>10, <1>11, <1>12, <1>13 DEF Covers

\* What covers one part and what covers the next cover both.
LEMMA CoversConcat ==
    ASSUME NEW X, NEW Y, NEW a \in Nat, NEW b \in Nat, NEW c \in Nat,
           Covers(X, a, b), Covers(Y, b, c)
    PROVE  Covers(X \o Y, a, c)
<1>1. PICK n \in Nat : n = Len(X) /\ n > 0
  BY DEF Covers
<1>2. PICK m \in Nat : m = Len(Y) /\ m > 0
  BY DEF Covers
<1>3. /\ X \in Seq(Seq(Nat)) /\ X[1][1] = a + 1 /\ EndOf(X[n]) = b
      /\ \A i \in 1..n : Piece(X[i])
      /\ \A i \in 2..n : Follows(X[i], X[i - 1])
  BY <1>1 DEF Covers
<1>4. /\ Y \in Seq(Seq(Nat)) /\ Y[1][1] = b + 1 /\ EndOf(Y[m]) = c
      /\ \A i \in 1..m : Piece(Y[i])
      /\ \A i \in 2..m : Follows(Y[i], Y[i - 1])
  BY <1>2 DEF Covers
<1>5. PICK Z : Z = X \o Y
  OBVIOUS
<1>6. /\ Z \in Seq(Seq(Nat)) /\ Len(Z) = n + m
      /\ \A i \in 1..(n + m) : Z[i] = IF i <= n THEN X[i] ELSE Y[i - n]
  BY <1>1, <1>2, <1>3, <1>4, <1>5, ConcatProperties
<1>7. ASSUME NEW i \in 1..Len(Z) PROVE Piece(Z[i])
  <2>1. CASE i <= n
    <3>1. i \in 1..n /\ i \in 1..(n + m)
      BY <1>6, <2>1
    <3>2. QED
      BY <1>3, <1>6, <2>1, <3>1
  <2>2. CASE ~ (i <= n)
    <3>1. i - n \in 1..m /\ i \in 1..(n + m)
      BY <1>6, <2>2
    <3>2. QED
      BY <1>4, <1>6, <2>2, <3>1
  <2>3. QED
    BY <2>1, <2>2
<1>8. ASSUME NEW i \in 2..Len(Z) PROVE Follows(Z[i], Z[i - 1])
  <2>0. i \in Nat /\ i \in 1..(n + m) /\ i - 1 \in 1..(n + m) /\ i - 1 \in Nat
    BY <1>6
  <2>1. CASE i <= n
    <3>1. i \in 2..n /\ i - 1 <= n
      BY <2>0, <2>1
    <3>2. Z[i] = X[i] /\ Z[i - 1] = X[i - 1]
      BY <1>6, <2>0, <2>1, <3>1
    <3>3. QED
      BY <1>3, <3>1, <3>2
  <2>2. CASE i = n + 1
    <3>1. ~ (i <= n) /\ i - 1 = n /\ i - n = 1 /\ i - 1 <= n
      BY <2>0, <2>2
    <3>2. Z[i] = Y[1] /\ Z[i - 1] = X[n]
      BY <1>6, <2>0, <3>1
    <3>3. Piece(X[n]) /\ Piece(Y[1])
      <4>1. n \in 1..n /\ 1 \in 1..m
        BY <1>1, <1>2
      <4>2. QED
        BY <1>3, <1>4, <4>1
    <3>4. PICK t : t = X[n] /\ Piece(t) /\ EndOf(t) = b
      BY <1>3, <3>3
    <3>5. PICK u : u = Y[1] /\ Piece(u) /\ u[1] = b + 1
      BY <1>4, <3>3
    <3>6. /\ t[1] \in Nat /\ Len(t) \in Nat /\ Len(t) > 0 /\ EndOf(t) = t[1] + Len(t) - 1
          /\ Len(u) \in Nat /\ Len(u) > 0 /\ EndOf(u) = b + 1 + Len(u) - 1
      BY <3>4, <3>5, PieceIs DEF EndOf
    <3>7. u[1] <= EndOf(t) + 1 /\ u[1] > t[1] /\ EndOf(u) > EndOf(t)
      <4>1. t[1] + Len(t) - 1 = b
        BY <3>4, <3>6
      <4>2. b + 1 > t[1]
        BY <3>6, <4>1
      <4>3. b + 1 + Len(u) - 1 > b
        BY <3>6
      <4>4. u[1] <= EndOf(t) + 1
        BY <3>4, <3>5
      <4>5. u[1] > t[1]
        BY <3>5, <4>2
      <4>6. EndOf(u) > EndOf(t)
        BY <3>4, <3>6, <4>3
      <4>7. QED
        BY <4>4, <4>5, <4>6
    <3>8. QED
      BY <3>2, <3>4, <3>5, <3>7 DEF Follows
  <2>3. CASE i > n + 1
    <3>1. i - n \in 2..m /\ ~ (i <= n) /\ ~ (i - 1 <= n) /\ (i - 1) - n = (i - n) - 1
      BY <1>6, <2>0, <2>3
    <3>2. Z[i] = Y[i - n] /\ Z[i - 1] = Y[(i - n) - 1]
      BY <1>6, <2>0, <3>1
    <3>3. QED
      BY <1>4, <3>1, <3>2
  <2>4. QED
    BY <2>0, <2>1, <2>2, <2>3
<1>9. Z[1] = X[1] /\ Z[n + m] = Y[m] /\ Len(Z) > 0
  <2>1. /\ 1 \in 1..(n + m) /\ 1 <= n /\ n + m \in 1..(n + m) /\ ~ (n + m <= n)
        /\ (n + m) - n = m
    BY <1>1, <1>2
  <2>2. Z[1] = X[1] /\ Z[n + m] = Y[(n + m) - n]
    BY <1>6, <2>1
  <2>3. Len(Z) > 0
    BY <1>6, <2>1
  <2>4. QED
    BY <2>1, <2>2, <2>3
<1>10. QED
  BY <1>3, <1>4, <1>5, <1>6, <1>7, <1>8, <1>9 DEF Covers

\* One word read, and all of them, when a clause is cut.
CutStep(acc, word, max, overlap) ==
    IF acc.cur # <<>> /\ Tokens(Len(acc.cur) + 1) > max
    THEN [cur |-> Append(OverlapTail(acc.cur, OverlapCap(max, overlap)), word),
          out |-> Append(acc.out, acc.cur)]
    ELSE [acc EXCEPT !.cur = Append(@, word)]

Cutting(words, max, overlap) ==
    FoldLeft(LAMBDA acc, word : CutStep(acc, word, max, overlap), [cur |-> <<>>, out |-> <<>>], words)

CutsBy(f, words, max, overlap) ==
    /\ f[0] = [cur |-> <<>>, out |-> <<>>] /\ Cutting(words, max, overlap) = f[Len(words)]
    /\ \A i \in 1..Len(words) : f[i] = CutStep(f[i - 1], words[i], max, overlap)

\* The words of a clause are cut one by one.
LEMMA CuttingIs ==
    ASSUME NEW words \in Seq(Nat), NEW max \in Nat, NEW overlap \in Nat
    PROVE  \E f : CutsBy(f, words, max, overlap)
<1> DEFINE n == Len(words)
           step(acc, word) == CutStep(acc, word, max, overlap)
           base == [cur |-> <<>>, out |-> <<>>]
           A == [cur : Seq(Nat), out : Seq(Seq(Nat))]
           Cuts(it) == it = [s \in SUBSET DOMAIN words |->
                               IF s = {} THEN base
                               ELSE step(it[s \ {Max(s)}], words[Max(s)])]
           G == [p \in A \X (1..n) |-> step(p[1], words[p[2]])]
<1>1. n \in Nat /\ DOMAIN words = 1..n
  BY LenProperties
<1>2. base \in A
  OBVIOUS
<1>3. ASSUME NEW acc \in A, NEW word \in Nat PROVE step(acc, word) \in A
  <2>1. acc.cur \in Seq(Nat) /\ acc.out \in Seq(Seq(Nat))
    OBVIOUS
  <2>2. CASE acc.cur # <<>> /\ Tokens(Len(acc.cur) + 1) > max
    <3>1. PICK t : t = OverlapTail(acc.cur, OverlapCap(max, overlap)) /\ t \in Seq(Nat)
      <4>1. Len(acc.cur) \in Nat /\ OverlapCap(max, overlap) \in Nat
        BY <2>1 DEF OverlapCap
      <4>2. PICK k \in 0..Len(acc.cur) :
               OverlapTail(acc.cur, OverlapCap(max, overlap)) =
                  SubSeq(acc.cur, Len(acc.cur) - k + 1, Len(acc.cur))
        <5>1. PICK cap \in Nat : cap = OverlapCap(max, overlap)
          BY <4>1
        <5>2. \E k \in 0..Len(acc.cur) :
                 OverlapTail(acc.cur, cap) =
                    SubSeq(acc.cur, Len(acc.cur) - k + 1, Len(acc.cur))
          BY <4>1, OverlapTailIs
        <5>3. QED
          BY <5>1, <5>2
      <4>3. SubSeq(acc.cur, Len(acc.cur) - k + 1, Len(acc.cur)) \in Seq(Nat)
        <5>1. PICK cur \in Seq(Nat), l \in Nat : cur = acc.cur /\ l = Len(cur)
          BY <2>1, <4>1
        <5>2. k \in 0..l /\ k \in Nat /\ Len(acc.cur) = l
          BY <5>1
        <5>3. PICK m \in Nat : m = l - k /\ m + k = l
          BY ONLY <5>2, l \in Nat
        <5>4. SubSeq(cur, m + 1, Len(cur)) \in Seq(Nat)
          BY <5>1, <5>2, <5>3, TailIs
        <5>5. QED
          BY <5>1, <5>2, <5>3, <5>4
      <4>4. QED
        BY <4>2, <4>3
    <3>2. Append(t, word) \in Seq(Nat) /\ Append(acc.out, acc.cur) \in Seq(Seq(Nat))
      BY <2>1, <3>1
    <3>3. step(acc, word) = [cur |-> Append(t, word), out |-> Append(acc.out, acc.cur)]
      BY <2>2, <3>1 DEF CutStep
    <3> HIDE DEF step
    <3>4. QED
      BY <3>2, <3>3
  <2>3. CASE ~ (acc.cur # <<>> /\ Tokens(Len(acc.cur) + 1) > max)
    <3>1. step(acc, word) = [acc EXCEPT !.cur = Append(@, word)]
      BY <2>3 DEF CutStep
    <3>2. Append(acc.cur, word) \in Seq(Nat)
      BY <2>1
    <3> HIDE DEF step
    <3>3. QED
      BY <3>1, <3>2
  <2>4. QED
    BY <2>2, <2>3
<1>4. \A i \in 1..n : words[i] \in Nat
  BY <1>1
<1> HIDE DEF step, base
<1>5. G \in [A \X (1..n) -> A]
  <2>1. \A p \in A \X (1..n) : step(p[1], words[p[2]]) \in A
    <3> HIDE DEF A
    <3> QED BY <1>3, <1>4
  <2> HIDE DEF A
  <2>2. QED
    BY <2>1
<1>6. \A a \in A, i \in 1..n : G[<<a, i>>] = step(a, words[i])
  <2> HIDE DEF A
  <2> QED OBVIOUS
<1> HIDE DEF A, G
<1>7. PICK h \in [SUBSET (1..n) -> A] : Recurs(h, n, base, G)
  BY <1>1, <1>2, <1>5, FoldExists
<1>8. ASSUME NEW s \in SUBSET (1..n), s # {}
      PROVE  h[s] = step(h[s \ {Max(s)}], words[Max(s)])
  <2>1. Max(s) \in 1..n
    BY <1>1, <1>8, Greatest
  <2>2. h[s \ {Max(s)}] \in A
    OBVIOUS
  <2>3. QED
    BY <1>6, <1>7, <1>8, <2>1, <2>2 DEF Recurs
<1>9. Cuts(h)
  <2>1. h = [s \in SUBSET (1..n) |-> h[s]]
    OBVIOUS
  <2>2. ASSUME NEW s \in SUBSET (1..n)
        PROVE  h[s] = IF s = {} THEN base ELSE step(h[s \ {Max(s)}], words[Max(s)])
    BY <1>7, <1>8 DEF Recurs
  <2>3. h = [s \in SUBSET (1..n) |->
               IF s = {} THEN base ELSE step(h[s \ {Max(s)}], words[Max(s)])]
    <3> HIDE DEF n
    <3> QED BY <2>1, <2>2
  <2>4. QED
    BY <1>1, <2>3, Zenon
<1>10. PICK it : it = CHOOSE g : Cuts(g)
  OBVIOUS
<1>11. Cuts(it)
  <2> HIDE DEF Cuts
  <2> QED BY <1>9, <1>10, Zenon
<1>12. Cutting(words, max, overlap) = it[1..n]
  <2>1. Cutting(words, max, overlap) = it[DOMAIN words]
    BY <1>10, Zenon DEF step, base, Cutting, FoldLeft, MapThenFoldSet
  <2>2. QED
    BY <1>1, <2>1, Zenon
<1> DEFINE f == [i \in 0..n |-> it[1..i]]
<1>13. f[0] = base
  <2>1. 1..0 = {} /\ 0 \in 0..n
    BY <1>1
  <2>2. it[{}] = base
    BY <1>11
  <2>3. QED
    BY <2>1, <2>2
<1>14. ASSUME NEW i \in 1..n PROVE f[i] = step(f[i - 1], words[i])
  <2>1. 1..i \in SUBSET (1..n) /\ i \in 0..n /\ i - 1 \in 0..n /\ i \in Nat /\ i # 0
    BY <1>1
  <2>2. Max(1..i) = i /\ (1..i) \ {Max(1..i)} = 1..(i - 1) /\ 1..i # {}
    BY <2>1, GreatestOfFirst
  <2>3. it[1..i] = step(it[(1..i) \ {Max(1..i)}], words[Max(1..i)])
    BY <1>1, <1>11, <2>1, <2>2
  <2>4. it[1..i] = step(it[1..(i - 1)], words[i])
    BY <2>2, <2>3
  <2>5. QED
    BY <2>1, <2>4
<1>15. Cutting(words, max, overlap) = f[n]
  BY <1>1, <1>12
<1>16. QED
  <2> HIDE DEF f, n
  <2>1. /\ f[0] = base /\ Cutting(words, max, overlap) = f[n]
        /\ \A i \in 1..n : f[i] = step(f[i - 1], words[i])
    BY <1>13, <1>14, <1>15
  <2>2. QED
    BY <2>1, Zenon DEF step, base, n, CutsBy

\* What covers up to a word ends with a piece that ends there.
LEMMA LastOfCover ==
    ASSUME NEW out \in Seq(Seq(Nat)), NEW cur \in Seq(Nat), NEW a, NEW b,
           Covers(Append(out, cur), a, b)
    PROVE  Piece(cur) /\ EndOf(cur) = b
<1>1. PICK X : X = Append(out, cur)
  OBVIOUS
<1>2. Len(X) \in Nat /\ Len(X) > 0 /\ X[Len(X)] = cur
  BY <1>1, AppendProperties, LenProperties
<1>3. Len(X) \in 1..Len(X)
  BY <1>2
<1>4. QED
  BY <1>1, <1>2, <1>3 DEF Covers

\* A chunk that is full ends, and its end and the next word begin another one.
LEMMA CoversCut ==
    ASSUME NEW out \in Seq(Seq(Nat)), NEW cur \in Seq(Nat), NEW a \in Nat, NEW b \in Nat,
           Covers(Append(out, cur), a, b), Tokens(Len(cur) + 1) > MaxTokens,
           MaxTokens \in Nat \ {0}, NEW overlap \in Nat
    PROVE  LET t == Append(OverlapTail(cur, OverlapCap(MaxTokens, overlap)), b + 1)
           IN  t \in Seq(Nat) /\ t # <<>> /\ Covers(Append(Append(out, cur), t), a, b + 1)
<1>1. Piece(cur) /\ EndOf(cur) = b
  BY LastOfCover
<1>2. PICK l \in Nat : l = Len(cur) /\ l > 0
  BY <1>1, PieceIs
<1>3. PICK s \in Nat : s = cur[1]
  BY <1>1, PieceIs
<1>4. b = s + l - 1 /\ Passage(cur, s)
  BY <1>1, <1>2, <1>3 DEF EndOf, Piece
<1>5. PICK max \in Nat \ {0} : max = MaxTokens
  OBVIOUS
<1>6. PICK tail : tail = OverlapTail(cur, OverlapCap(MaxTokens, overlap))
  OBVIOUS
<1>7. PICK n \in 0..Len(cur) : /\ n < Len(cur) /\ Tokens(n + 1) <= max
                               /\ tail = SubSeq(cur, Len(cur) - n + 1, Len(cur))
  <2>1. cur # <<>> /\ Len(cur) > 0 /\ Len(cur) \in Nat /\ Tokens(Len(cur) + 1) > max
    BY <1>2, <1>5
  <2>2. \E n \in 0..Len(cur) :
           /\ n < Len(cur) /\ Tokens(n + 1) <= max
           /\ OverlapTail(cur, OverlapCap(max, overlap)) =
                 SubSeq(cur, Len(cur) - n + 1, Len(cur))
    BY <2>1, OverlapFits
  <2>3. QED
    BY <1>5, <1>6, <2>2
<1>8. Passage(tail, s + Len(cur) - n) /\ Len(tail) = n
  BY <1>4, <1>7, PassageTail
<1>9. PICK r \in Nat : r = s + l - n /\ r + n = b + 1 /\ r > s /\ r <= b + 1 /\ n \in Nat
  <2>1. n \in Nat /\ n < l
    BY <1>2, <1>7
  <2>2. QED
    BY <1>4, <2>1
<1>10. PICK t : t = Append(tail, b + 1)
  OBVIOUS
<1>11. Passage(tail, r)
  BY <1>2, <1>8, <1>9
<1>12. t = Append(tail, r + Len(tail))
  BY <1>8, <1>9, <1>10
<1>13. Passage(t, r) /\ Len(t) = n + 1 /\ t[1] = r
  BY <1>8, <1>11, <1>12, PassageAppend
<1>14. Piece(t)
  <2>1. t \in Seq(Nat)
    BY <1>13 DEF Passage
  <2>2. Len(t) > 0 /\ Passage(t, t[1]) /\ Tokens(Len(t)) <= MaxTokens
    BY <1>5, <1>7, <1>9, <1>13
  <2>3. QED
    BY <2>1, <2>2 DEF Piece
<1>15. EndOf(t) = b + 1
  BY <1>9, <1>13 DEF EndOf
<1>16. Follows(t, cur)
  BY <1>1, <1>3, <1>9, <1>13, <1>15 DEF Follows
<1>17. Covers(Append(Append(out, cur), t), a, b + 1)
  <2>1. PICK X : X = Append(out, cur)
    OBVIOUS
  <2>2. X[Len(X)] = cur
    BY <2>1, AppendProperties, LenProperties
  <2>3. Covers(X, a, b) /\ Follows(t, X[Len(X)])
    BY <1>16, <2>1, <2>2
  <2>4. Covers(Append(X, t), a, EndOf(t))
    BY <1>14, <2>3, CoversNext
  <2>5. QED
    BY <1>15, <2>1, <2>4
<1>18. t \in Seq(Nat) /\ t # <<>>
  BY <1>14, PieceIs
<1>19. QED
  BY <1>6, <1>10, <1>17, <1>18

\* A clause that is too long is cut into texts that cover it.
LEMMA SplitCovers ==
    ASSUME NEW words, NEW a \in Nat, Passage(words, a + 1), Len(words) > 0,
           MaxTokens \in Nat \ {0}, NEW overlap \in Nat
    PROVE  LET end == Cutting(words, MaxTokens, overlap)
           IN  end.cur # <<>> /\ Covers(Append(end.out, end.cur), a, a + Len(words))
<1> DEFINE n == Len(words)
           step(acc, word) == CutStep(acc, word, MaxTokens, overlap)
           base == [cur |-> <<>>, out |-> <<>>]
           end == Cutting(words, MaxTokens, overlap)
           Cut(acc, i) == \E cur \in Seq(Nat), out \in Seq(Seq(Nat)) :
                             /\ acc = [cur |-> cur, out |-> out] /\ cur # <<>>
                             /\ Covers(Append(out, cur), a, a + i)
<1>1. words \in Seq(Nat) /\ n \in Nat /\ \A i \in 1..n : words[i] = a + i
  BY DEF Passage
<1>2. PICK f : /\ f[0] = base /\ end = f[n]
               /\ \A i \in 1..n : f[i] = step(f[i - 1], words[i])
  <2>1. MaxTokens \in Nat
    OBVIOUS
  <2>2. PICK f : CutsBy(f, words, MaxTokens, overlap)
    BY <1>1, <2>1, CuttingIs
  <2>3. QED
    BY <2>2 DEF CutsBy
<1>3. Cut(f[1], 1)
  <2>1. 1 \in 1..n /\ f[1 - 1] = base
    BY <1>1, <1>2
  <2>2. f[1] = step(base, a + 1)
    BY <1>1, <1>2, <2>1
  <2>3. step(base, a + 1) = [cur |-> <<a + 1>>, out |-> <<>>]
    BY DEF CutStep
  <2>4. PICK t \in Seq(Nat) : t = <<a + 1>> /\ Len(t) = 1 /\ t[1] = a + 1 /\ t # <<>>
    <3>1. a + 1 \in Nat /\ <<a + 1>> \in Seq(Nat) /\ <<a + 1>> # <<>>
      BY ONLY a \in Nat
    <3>2. QED
      BY ONLY <3>1
  <2>5. Piece(t) /\ EndOf(t) = a + 1
    <3>1. Passage(t, a + 1)
      BY <2>4 DEF Passage
    <3>2. Tokens(1) <= MaxTokens
      BY TokensFew
    <3>3. EndOf(t) = a + 1
      BY <2>4 DEF EndOf
    <3>4. QED
      BY <2>4, <3>1, <3>2, <3>3 DEF Piece
  <2>6. Covers(<<t>>, a, a + 1)
    <3>1. Covers(<<t>>, t[1] - 1, EndOf(t))
      BY <2>5, CoversOne
    <3>2. t[1] - 1 = a
      BY <2>4
    <3>3. QED
      BY <2>5, <3>1, <3>2
  <2>7. Append(<<>>, t) = <<t>> /\ <<>> \in Seq(Seq(Nat))
    OBVIOUS
  <2>8. f[1] = [cur |-> t, out |-> <<>>]
    BY <2>2, <2>3, <2>4
  <2> HIDE DEF step, base
  <2>9. QED
    BY <2>4, <2>6, <2>7, <2>8
<1>4. ASSUME NEW i \in 1..n, i < n, Cut(f[i], i) PROVE Cut(f[i + 1], i + 1)
  <2>1. PICK cur \in Seq(Nat) : \E out \in Seq(Seq(Nat)) :
                /\ f[i] = [cur |-> cur, out |-> out] /\ cur # <<>>
                /\ Covers(Append(out, cur), a, a + i)
    BY <1>4
  <2>2. PICK out \in Seq(Seq(Nat)) : /\ f[i] = [cur |-> cur, out |-> out] /\ cur # <<>>
                                     /\ Covers(Append(out, cur), a, a + i)
    BY <2>1
  <2>3. PICK b \in Nat : b = a + i
    BY <1>1
  <2>4. i + 1 \in 1..n /\ (i + 1) - 1 = i /\ words[i + 1] = b + 1 /\ a + (i + 1) = b + 1
    <3>1. i + 1 \in 1..n /\ (i + 1) - 1 = i /\ a + (i + 1) = b + 1
      <4>1. PICK k \in Nat : k = n
        BY <1>1
      <4>2. i \in 1..k /\ i < k
        BY <1>4, <4>1
      <4>3. i + 1 \in 1..k /\ (i + 1) - 1 = i
        BY ONLY <4>2, k \in Nat
      <4>4. a + (i + 1) = b + 1
        BY ONLY <2>3, <4>2, a \in Nat, k \in Nat
      <4>5. QED
        BY <4>1, <4>3, <4>4
    <3>2. words[i + 1] = a + (i + 1)
      BY <1>1, <3>1
    <3>3. QED
      BY <3>1, <3>2
  <2>5. PICK acc : acc = [cur |-> cur, out |-> out]
    OBVIOUS
  <2>6. acc.cur = cur /\ acc.out = out
    BY <2>5
  <2>7. f[i + 1] = step(acc, b + 1)
    <3> HIDE DEF step
    <3> QED BY <1>2, <2>2, <2>4, <2>5
  <2>8. CASE Tokens(Len(cur) + 1) > MaxTokens
    <3>1. PICK t : t = Append(OverlapTail(cur, OverlapCap(MaxTokens, overlap)), b + 1)
      OBVIOUS
    <3>2. t \in Seq(Nat) /\ t # <<>> /\ Covers(Append(Append(out, cur), t), a, b + 1)
      BY <2>2, <2>3, <2>8, <3>1, CoversCut
    <3>3. step(acc, b + 1) = [cur |-> t, out |-> Append(out, cur)]
      BY <2>2, <2>6, <2>8, <3>1 DEF CutStep
    <3>4. Append(out, cur) \in Seq(Seq(Nat))
      OBVIOUS
    <3> HIDE DEF step
    <3>5. QED
      BY <2>4, <2>7, <3>2, <3>3, <3>4
  <2>9. CASE ~ (Tokens(Len(cur) + 1) > MaxTokens)
    <3>1. Tokens(Len(cur) + 1) <= MaxTokens
      <4>1. Len(cur) + 1 \in Nat
        OBVIOUS
      <4>2. Tokens(Len(cur) + 1) \in Nat
        BY <4>1, TokensBounds
      <4>3. QED
        BY <2>9, <4>2
    <3>2. Covers(Append(out, Append(cur, b + 1)), a, b + 1)
      BY <2>2, <2>3, <3>1, CoversGrow
    <3>3. step(acc, b + 1) = [acc EXCEPT !.cur = Append(cur, b + 1)]
      BY <2>6, <2>9 DEF CutStep
    <3>4. [acc EXCEPT !.cur = Append(cur, b + 1)] = [cur |-> Append(cur, b + 1), out |-> out]
      <4>1. PICK e : e = Append(cur, b + 1)
        OBVIOUS
      <4>2. [acc EXCEPT !.cur = e] = [cur |-> e, out |-> out]
        BY ONLY <2>5
      <4>3. QED
        BY <4>1, <4>2
    <3>5. Append(cur, b + 1) \in Seq(Nat) /\ Append(cur, b + 1) # <<>>
      <4>1. Append(cur, b + 1) \in Seq(Nat) /\ Append(cur, b + 1) # <<>>
        <5>1. PICK c \in Nat : c = b + 1
          BY ONLY b \in Nat
        <5>2. Append(cur, c) \in Seq(Nat)
          BY AppendProperties
        <5>3. Append(cur, c) # <<>>
          <6>1. Len(Append(cur, c)) = Len(cur) + 1 /\ Len(cur) \in Nat
            BY ONLY cur \in Seq(Nat), c \in Nat
          <6>2. Len(Append(cur, c)) # 0
            BY ONLY <6>1
          <6>3. Len(<<>>) = 0
            OBVIOUS
          <6>4. QED
            BY ONLY <6>2, <6>3
        <5>4. QED
          BY <5>1, <5>2, <5>3
      <4>2. QED
        BY <4>1
    <3> HIDE DEF step
    <3>6. QED
      BY <2>4, <2>7, <3>2, <3>3, <3>4, <3>5
  <2>10. QED
    BY <2>8, <2>9
<1>5. Cut(f[n], n)
  <2> DEFINE S == {i \in 0..n : i = 0 \/ Cut(f[i], i)}
  <2> HIDE DEF Cut, step, base, end
  <2>1. 0 \in S
    BY <1>1
  <2>2. ASSUME NEW i \in 0..n, i < n, i \in S PROVE i + 1 \in S
    <3>1. i + 1 \in 0..n
      BY <1>1, <2>2
    <3>2. CASE i = 0
      BY <1>3, <3>1, <3>2
    <3>3. CASE i # 0
      <4>1. i \in 1..n /\ Cut(f[i], i)
        BY <2>2, <3>3
      <4>2. QED
        BY <1>4, <2>2, <3>1, <4>1
    <3>4. QED
      BY <3>2, <3>3
  <2>3. n \in S
    <3>1. n \in 0..n
      BY <1>1
    <3> HIDE DEF S
    <3>2. QED
      BY <1>1, <2>1, <2>2, <3>1, Ascent
  <2>4. n # 0
    BY <1>1
  <2>5. QED
    BY <2>3, <2>4
<1>6. end.cur # <<>> /\ Covers(Append(end.out, end.cur), a, a + n)
  <2> HIDE DEF step, base, end
  <2> QED BY <1>2, <1>5
<1>7. QED
  <2> HIDE DEF Cut
  <2> QED BY <1>6, Zenon

\* Chunks, and their texts.
Chunk == [clause : Nat, index : Nat, text : Seq(Nat)]

Texts(T) == [i \in 1..Len(T) |-> T[i].text]

\* A chunk has a text.
LEMMA TextAt ==
    ASSUME NEW T \in Seq(Chunk), NEW i \in 1..Len(T)
    PROVE  T[i].text \in Seq(Nat)
<1>1. T[i] \in Chunk
  OBVIOUS
<1>2. QED
  BY <1>1 DEF Chunk

\* The texts of chunks, one for each.
LEMMA TextsIs ==
    ASSUME NEW T \in Seq(Chunk)
    PROVE  /\ Texts(T) \in Seq(Seq(Nat)) /\ Len(Texts(T)) = Len(T)
           /\ \A i \in 1..Len(T) : Texts(T)[i] = T[i].text
<1>1. Len(T) \in Nat
  OBVIOUS
<1>2. PICK X : X = Texts(T)
  OBVIOUS
<1>3. X \in [1..Len(T) -> Seq(Nat)] /\ \A i \in 1..Len(T) : X[i] = T[i].text
  BY <1>2, TextAt DEF Texts
<1>4. X \in Seq(Seq(Nat)) /\ Len(X) = Len(T)
  BY <1>1, <1>3
<1>5. QED
  BY <1>2, <1>3, <1>4

\* The texts of two lists of chunks, one after the other.
LEMMA TextsConcat ==
    ASSUME NEW T \in Seq(Chunk), NEW U \in Seq(Chunk)
    PROVE  T \o U \in Seq(Chunk) /\ Texts(T \o U) = Texts(T) \o Texts(U)
<1>1. PICK n \in Nat : n = Len(T)
  OBVIOUS
<1>2. PICK m \in Nat : m = Len(U)
  OBVIOUS
<1>3. PICK V : V = T \o U
  OBVIOUS
<1>4. /\ V \in Seq(Chunk) /\ Len(V) = n + m
      /\ \A i \in 1..(n + m) : V[i] = IF i <= n THEN T[i] ELSE U[i - n]
  BY <1>1, <1>2, <1>3, ConcatProperties
<1>5. PICK X : X = Texts(T) /\ X \in Seq(Seq(Nat)) /\ Len(X) = n
               /\ \A i \in 1..n : X[i] = T[i].text
  BY <1>1, TextsIs
<1>6. PICK Y : Y = Texts(U) /\ Y \in Seq(Seq(Nat)) /\ Len(Y) = m
               /\ \A i \in 1..m : Y[i] = U[i].text
  BY <1>2, TextsIs
<1>7. PICK Z : Z = X \o Y
  OBVIOUS
<1>8. /\ Z \in Seq(Seq(Nat)) /\ Len(Z) = n + m
      /\ \A i \in 1..(n + m) : Z[i] = IF i <= n THEN X[i] ELSE Y[i - n]
  <2>1. X \in Seq(Seq(Nat)) /\ Len(X) = n
    BY <1>5
  <2>2. Y \in Seq(Seq(Nat)) /\ Len(Y) = m
    BY <1>6
  <2>3. QED
    BY ONLY n \in Nat, m \in Nat, <1>7, <2>1, <2>2, ConcatProperties
<1>9. ASSUME NEW i \in 1..(n + m) PROVE V[i].text = Z[i]
  <2>1. CASE i <= n
    <3>1. i \in 1..n
      BY <2>1
    <3>2. QED
      BY <1>4, <1>5, <1>8, <2>1, <3>1
  <2>2. CASE ~ (i <= n)
    <3>1. i - n \in 1..m
      BY <2>2
    <3>2. QED
      BY <1>4, <1>6, <1>8, <2>2, <3>1
  <2>3. QED
    BY <2>1, <2>2
<1>10. Texts(V) = Z
  <2>1. Texts(V) = [i \in 1..(n + m) |-> V[i].text]
    BY <1>4 DEF Texts
  <2>2. Z = [i \in 1..(n + m) |-> Z[i]]
    BY <1>8, LenProperties
  <2>3. QED
    BY <1>9, <2>1, <2>2
<1>11. QED
  BY <1>3, <1>4, <1>5, <1>6, <1>7, <1>10

\* A clause that is too long becomes chunks that cover it.
LEMMA SplitIs ==
    ASSUME NEW c \in Numbered, NEW a \in Nat, Passage(c.text, a + 1), Len(c.text) > 0,
           MaxTokens \in Nat \ {0}, NEW overlap \in Nat
    PROVE  /\ Split(c, MaxTokens, overlap) \in Seq(Chunk)
           /\ Covers(Texts(Split(c, MaxTokens, overlap)), a, a + Len(c.text))
<1>1. PICK e : e = Cutting(c.text, MaxTokens, overlap)
  OBVIOUS
<1>2. PICK X : X = Append(e.out, e.cur)
  OBVIOUS
<1>3. PICK T : T = Split(c, MaxTokens, overlap)
  OBVIOUS
<1>4. e.cur # <<>> /\ Covers(X, a, a + Len(c.text))
  BY <1>1, <1>2, SplitCovers
<1>5. T = [i \in DOMAIN X |-> [clause |-> c.id, index |-> i - 1, text |-> X[i]]]
  BY <1>1, <1>2, <1>3, <1>4, Zenon DEF Split, Cutting, CutStep
<1>6. PICK n \in Nat : n = Len(X) /\ DOMAIN X = 1..n /\ X \in [1..n -> Seq(Nat)]
  <2>1. X \in Seq(Seq(Nat))
    BY <1>4 DEF Covers
  <2>2. QED
    BY <2>1
<1>7. c.id \in Nat
  BY NumberedFields
<1>8. ASSUME NEW i \in 1..n
      PROVE  [clause |-> c.id, index |-> i - 1, text |-> X[i]] \in Chunk
  <2>1. i - 1 \in Nat /\ X[i] \in Seq(Nat)
    BY <1>6
  <2>2. QED
    BY <1>7, <2>1 DEF Chunk
<1>9. T \in Seq(Chunk) /\ Len(T) = n
  BY <1>5, <1>6, <1>8
<1>10. Texts(T) = X
  <2>1. \A i \in 1..n : T[i].text = X[i]
    BY <1>5, <1>6
  <2>2. Texts(T) = [i \in 1..n |-> T[i].text] /\ X = [i \in 1..n |-> X[i]]
    BY <1>6, <1>9 DEF Texts
  <2>3. QED
    BY <2>1, <2>2
<1>11. QED
  BY <1>3, <1>4, <1>9, <1>10

\* So does every clause.
LEMMA ChunksOfCover ==
    ASSUME NEW c \in Numbered, NEW a \in Nat, Passage(c.text, a + 1), Len(c.text) > 0,
           MaxTokens \in Nat \ {0}, NEW overlap \in Nat
    PROVE  /\ ChunksOf(c, MaxTokens, overlap) \in Seq(Chunk)
           /\ Covers(Texts(ChunksOf(c, MaxTokens, overlap)), a, a + Len(c.text))
<1>1. CASE Tokens(Len(c.text)) <= MaxTokens
  <2>1. PICK T : T = ChunksOf(c, MaxTokens, overlap)
    OBVIOUS
  <2>2. PICK t \in Seq(Nat) : t = c.text
    BY NumberedFields
  <2>3. PICK x \in Chunk : x = [clause |-> c.id, index |-> 0, text |-> t]
    <3>1. c.id \in Nat
      BY NumberedFields
    <3>2. QED
      BY <3>1 DEF Chunk
  <2>4. T = <<x>>
    BY <1>1, <2>1, <2>2, <2>3 DEF ChunksOf
  <2>5. T \in Seq(Chunk) /\ Len(T) = 1 /\ T[1] = x /\ x.text = t
    BY <2>3, <2>4
  <2>6. Texts(T) = <<t>>
    <3>1. PICK Y : Y = <<t>>
      OBVIOUS
    <3>2. Y \in Seq(Seq(Nat)) /\ Len(Y) = 1 /\ Y[1] = t
      BY <3>1
    <3>3. PICK X : X = Texts(T)
      OBVIOUS
    <3>4. X \in Seq(Seq(Nat)) /\ Len(X) = 1 /\ X[1] = t
      <4>1. X \in Seq(Seq(Nat)) /\ Len(X) = Len(T) /\ \A i \in 1..Len(T) : X[i] = T[i].text
        BY <2>5, <3>3, TextsIs
      <4>2. QED
        BY <2>5, <4>1
    <3>5. X = Y
      BY <3>2, <3>4
    <3>6. QED
      BY <3>1, <3>3, <3>5
  <2>7. Len(t) \in Nat /\ Len(t) > 0 /\ Passage(t, a + 1) /\ Tokens(Len(t)) <= MaxTokens
    BY <1>1, <2>2
  <2>8. t[1] = a + 1
    BY <2>7, PassageStarts
  <2>9. Piece(t) /\ EndOf(t) = a + Len(t) /\ t[1] - 1 = a
    <3>1. Passage(t, t[1])
      BY <2>7, <2>8
    <3>2. EndOf(t) = a + Len(t)
      BY <2>7, <2>8 DEF EndOf
    <3>3. QED
      BY <2>7, <2>8, <3>1, <3>2 DEF Piece
  <2>10. Covers(<<t>>, a, a + Len(t))
    <3>1. Covers(<<t>>, t[1] - 1, EndOf(t))
      BY <2>9, CoversOne
    <3>2. QED
      BY <2>9, <3>1
  <2>11. QED
    BY <2>1, <2>2, <2>5, <2>6, <2>10
<1>2. CASE ~ (Tokens(Len(c.text)) <= MaxTokens)
  <2>1. ChunksOf(c, MaxTokens, overlap) = Split(c, MaxTokens, overlap)
    BY <1>2, Zenon DEF ChunksOf
  <2>2. QED
    BY <2>1, SplitIs
<1>3. QED
  BY <1>1, <1>2

\* FlattenSeq joins one sequence after the other.
FlattensBy(f, L) ==
    /\ f[1] = L[1] /\ FlattenSeq(L) = f[Len(L)]
    /\ \A i \in 2..Len(L) : f[i] = f[i - 1] \o L[i]

\* That recursion has a value.
LEMMA FlattenIs ==
    ASSUME NEW L, Len(L) \in Nat, Len(L) # 0
    PROVE  \E f : FlattensBy(f, L)
<1> DEFINE n == Len(L)
           Joins(f, k) == f = [i \in 1..k |-> IF i = 1 THEN L[i] ELSE f[i - 1] \o L[i]]
           S == {k \in 0..n : \E f : Joins(f, k)}
<1>1. 0 \in S
  <2>1. PICK f : f = [i \in 1..0 |-> L[i]]
    OBVIOUS
  <2>2. f = [i \in 1..0 |-> IF i = 1 THEN L[i] ELSE f[i - 1] \o L[i]]
    BY <2>1
  <2>3. 0 \in 0..n
    OBVIOUS
  <2>4. QED
    BY <2>2, <2>3
<1>2. ASSUME NEW k \in 0..n, k < n, k \in S PROVE k + 1 \in S
  <2>1. PICK g : Joins(g, k)
    BY <1>2
  <2>2. PICK f : f = [i \in 1..(k + 1) |-> IF i = 1 THEN L[i] ELSE g[i - 1] \o L[i]]
    OBVIOUS
  <2>3. ASSUME NEW i \in 1..k PROVE f[i] = g[i]
    <3>1. g[i] = IF i = 1 THEN L[i] ELSE g[i - 1] \o L[i]
      BY <2>1
    <3>2. i \in 1..(k + 1)
      BY <1>2
    <3>3. f[i] = IF i = 1 THEN L[i] ELSE g[i - 1] \o L[i]
      BY <2>2, <3>2
    <3>4. QED
      BY <3>1, <3>3
  <2>4. ASSUME NEW i \in 1..(k + 1)
        PROVE  (IF i = 1 THEN L[i] ELSE g[i - 1] \o L[i]) =
               (IF i = 1 THEN L[i] ELSE f[i - 1] \o L[i])
    <3>1. CASE i = 1
      BY <3>1
    <3>2. CASE i # 1
      <4>1. i - 1 \in 1..k
        BY <1>2, <3>2
      <4>2. f[i - 1] = g[i - 1]
        BY <2>3, <4>1
      <4>3. QED
        BY <4>2
    <3>3. QED
      BY <3>1, <3>2
  <2>5. f = [i \in 1..(k + 1) |-> IF i = 1 THEN L[i] ELSE f[i - 1] \o L[i]]
    BY <2>2, <2>4, Zenon
  <2>6. k + 1 \in 0..n
    BY <1>2
  <2>7. QED
    BY <2>5, <2>6
<1>3. n \in S
  <2>1. n \in 0..n
    OBVIOUS
  <2> HIDE DEF S
  <2>2. QED
    BY <1>1, <1>2, <2>1, Ascent
<1>4. PICK f : f = CHOOSE h : Joins(h, n)
  OBVIOUS
<1>5. Joins(f, n)
  <2>1. \E h : Joins(h, n)
    BY <1>3
  <2> HIDE DEF Joins
  <2>2. QED
    BY <1>4, <2>1
<1>6. FlattenSeq(L) = f[n]
  BY <1>4, Zenon DEF FlattenSeq
<1>7. 1 \in 1..n /\ f[1] = L[1]
  BY <1>5
<1>8. ASSUME NEW i \in 2..n PROVE f[i] = f[i - 1] \o L[i]
  <2>1. i \in 1..n /\ i # 1
    OBVIOUS
  <2>2. QED
    BY <1>5, <2>1
<1>9. QED
  BY <1>6, <1>7, <1>8 DEF FlattensBy

\* Clauses lie one behind the other, clause i up to word w[i].
Lies(M, w) ==
    /\ M \in Seq(Numbered) /\ w \in [0..Len(M) -> Nat]
    /\ \A i \in 1..Len(M) : /\ Len(M[i].text) > 0 /\ Passage(M[i].text, w[i - 1] + 1)
                            /\ w[i] = w[i - 1] + Len(M[i].text)

\* A clause that begins where the others end is laid behind them.
LEMMA LiesAppend ==
    ASSUME NEW M, NEW w, Lies(M, w), NEW d \in Numbered, Len(d.text) > 0,
           Passage(d.text, w[Len(M)] + 1)
    PROVE  \E u : /\ Lies(Append(M, d), u) /\ u[0] = w[0]
                  /\ u[Len(M) + 1] = w[Len(M)] + Len(d.text)
                  /\ Len(Append(M, d)) = Len(M) + 1
<1>1. PICK n \in Nat : n = Len(M) /\ M \in Seq(Numbered) /\ w \in [0..n -> Nat]
  BY LenProperties DEF Lies
<1>2. ASSUME NEW i \in 1..n
      PROVE  /\ Len(M[i].text) > 0 /\ Passage(M[i].text, w[i - 1] + 1)
             /\ w[i] = w[i - 1] + Len(M[i].text)
  BY <1>1 DEF Lies
<1>3. PICK N : N = Append(M, d)
  OBVIOUS
<1>4. /\ N \in Seq(Numbered) /\ Len(N) = n + 1 /\ N[n + 1] = d
      /\ \A i \in 1..n : N[i] = M[i]
  BY <1>1, <1>3, AppendProperties
<1>5. PICK l \in Nat : l = Len(d.text)
  BY NumberedFields
<1>6. PICK u \in [0..(n + 1) -> Nat] :
         u = [i \in 0..(n + 1) |-> IF i = n + 1 THEN w[n] + l ELSE w[i]]
  <2>1. w[n] + l \in Nat
    BY <1>1
  <2>2. \A i \in 0..(n + 1) : (IF i = n + 1 THEN w[n] + l ELSE w[i]) \in Nat
    BY <1>1, <2>1
  <2>3. QED
    BY <2>2
<1>7. u[n + 1] = w[n] + l /\ \A i \in 0..n : u[i] = w[i]
  BY <1>6
<1>8. ASSUME NEW i \in 1..Len(N)
      PROVE  /\ Len(N[i].text) > 0 /\ Passage(N[i].text, u[i - 1] + 1)
             /\ u[i] = u[i - 1] + Len(N[i].text)
  <2>1. CASE i = n + 1
    <3>1. i - 1 = n /\ n \in 0..n /\ N[i] = d
      BY <1>4, <2>1
    <3>2. u[i - 1] = w[n] /\ u[i] = w[n] + l
      BY <1>7, <2>1, <3>1
    <3>3. QED
      BY <1>1, <1>5, <3>1, <3>2
  <2>2. CASE i # n + 1
    <3>1. i \in 1..n /\ i \in 0..n /\ i - 1 \in 0..n
      BY <1>4, <2>2
    <3>2. u[i] = w[i] /\ u[i - 1] = w[i - 1] /\ N[i] = M[i]
      BY <1>4, <1>7, <3>1
    <3>3. QED
      BY <1>2, <3>1, <3>2
  <2>3. QED
    BY <2>1, <2>2
<1>9. Lies(N, u)
  BY <1>4, <1>6, <1>8 DEF Lies
<1>10. u[0] = w[0]
  <2>1. 0 \in 0..n
    OBVIOUS
  <2>2. QED
    BY <1>7, <2>1
<1>11. QED
  BY <1>1, <1>3, <1>4, <1>5, <1>7, <1>9, <1>10

\* The chunks of clauses that lie one behind the other cover them.
LEMMA ChunksCover ==
    ASSUME NEW M, NEW w, Lies(M, w), M # <<>>, MaxTokens \in Nat \ {0}, NEW overlap \in Nat
    PROVE  LET C == FlattenSeq([i \in DOMAIN M |-> ChunksOf(M[i], MaxTokens, overlap)])
           IN  C \in Seq(Chunk) /\ Covers(Texts(C), w[0], w[Len(M)])
<1>1. PICK n \in Nat : n = Len(M) /\ M \in Seq(Numbered) /\ w \in [0..n -> Nat]
                       /\ n # 0 /\ DOMAIN M = 1..n
  <2>1. M \in Seq(Numbered) /\ w \in [0..Len(M) -> Nat]
    BY DEF Lies
  <2>2. Len(M) \in Nat /\ Len(M) # 0 /\ DOMAIN M = 1..Len(M)
    BY <2>1, NotEmpty
  <2>3. PICK l \in Nat : l = Len(M)
    BY <2>2
  <2>4. w \in [0..l -> Nat] /\ l # 0 /\ DOMAIN M = 1..l
    BY <2>1, <2>2, <2>3
  <2>5. QED
    BY <2>1, <2>3, <2>4, Zenon
<1>2. ASSUME NEW i \in 1..n
      PROVE  /\ M[i] \in Numbered
             /\ Len(M[i].text) > 0 /\ Passage(M[i].text, w[i - 1] + 1)
             /\ w[i] = w[i - 1] + Len(M[i].text)
             /\ w[i - 1] \in Nat /\ w[i] \in Nat
  <2>1. i - 1 \in 0..n /\ i \in 0..n
    OBVIOUS
  <2>2. M[i] \in Numbered
    BY <1>1, NumberedAt
  <2>3. /\ Len(M[i].text) > 0 /\ Passage(M[i].text, w[i - 1] + 1)
        /\ w[i] = w[i - 1] + Len(M[i].text)
    BY <1>1 DEF Lies
  <2>4. QED
    BY <1>1, <2>1, <2>2, <2>3
<1>3. PICK L : L = [i \in DOMAIN M |-> ChunksOf(M[i], MaxTokens, overlap)]
  OBVIOUS
<1>4. ASSUME NEW i \in 1..n
      PROVE  L[i] \in Seq(Chunk) /\ Covers(Texts(L[i]), w[i - 1], w[i])
  <2>1. L[i] = ChunksOf(M[i], MaxTokens, overlap)
    BY <1>1, <1>3
  <2>2. PICK a \in Nat : a = w[i - 1]
    BY <1>2
  <2>3. PICK c \in Numbered : c = M[i]
    BY <1>2
  <2>4. Passage(c.text, a + 1) /\ Len(c.text) > 0 /\ w[i] = a + Len(c.text)
    BY <1>2, <2>2, <2>3
  <2>5. /\ ChunksOf(c, MaxTokens, overlap) \in Seq(Chunk)
        /\ Covers(Texts(ChunksOf(c, MaxTokens, overlap)), a, a + Len(c.text))
    BY <2>4, ChunksOfCover
  <2>6. QED
    BY <2>1, <2>2, <2>3, <2>4, <2>5
<1>5. Len(L) = n
  BY <1>1, <1>3
<1>6. PICK f : FlattensBy(f, L)
  BY <1>1, <1>5, FlattenIs
<1>7. /\ f[1] = L[1] /\ FlattenSeq(L) = f[n]
      /\ \A i \in 2..n : f[i] = f[i - 1] \o L[i]
  BY <1>5, <1>6 DEF FlattensBy
<1> DEFINE Good(i) == f[i] \in Seq(Chunk) /\ Covers(Texts(f[i]), w[0], w[i])
           S == {i \in 0..n : i = 0 \/ Good(i)}
<1>8. 0 \in S
  BY <1>1
<1>9. ASSUME NEW i \in 0..n, i < n, i \in S PROVE i + 1 \in S
  <2>1. i + 1 \in 0..n /\ i + 1 \in 1..n /\ (i + 1) - 1 = i
    BY <1>9
  <2>2. L[i + 1] \in Seq(Chunk) /\ Covers(Texts(L[i + 1]), w[i], w[i + 1])
    BY <1>4, <2>1
  <2>3. CASE i = 0
    <3>1. L[1] \in Seq(Chunk) /\ Covers(Texts(L[1]), w[0], w[1]) /\ i + 1 = 1
      BY <2>2, <2>3
    <3>2. Good(1)
      BY <1>7, <3>1
    <3> HIDE DEF Good
    <3>3. QED
      BY <2>1, <3>1, <3>2
  <2>4. CASE i # 0
    <3>1. Good(i) /\ i + 1 \in 2..n /\ i \in 1..n /\ 0 \in 0..n
      BY <1>9, <2>1, <2>4
    <3>2. f[i + 1] = f[i] \o L[i + 1]
      BY <1>7, <2>1, <3>1
    <3>3. /\ f[i] \o L[i + 1] \in Seq(Chunk)
          /\ Texts(f[i] \o L[i + 1]) = Texts(f[i]) \o Texts(L[i + 1])
      BY <2>2, <3>1, TextsConcat
    <3>4. w[0] \in Nat /\ w[i] \in Nat /\ w[i + 1] \in Nat
      BY <1>1, <2>1, <3>1
    <3>5. Covers(Texts(f[i]) \o Texts(L[i + 1]), w[0], w[i + 1])
      BY <2>2, <3>1, <3>4, CoversConcat
    <3>6. Good(i + 1)
      BY <3>2, <3>3, <3>5
    <3> HIDE DEF Good
    <3>7. QED
      BY <2>1, <3>6
  <2>5. QED
    BY <2>3, <2>4
<1>10. n \in S
  <2>1. n \in 0..n
    OBVIOUS
  <2> HIDE DEF S
  <2>2. QED
    BY <1>8, <1>9, <2>1, Ascent
<1>11. Good(n)
  BY <1>1, <1>10
<1>12. FlattenSeq(L) \in Seq(Chunk) /\ Covers(Texts(FlattenSeq(L)), w[0], w[n])
  BY <1>7, <1>11
<1>13. w[n] = w[Len(M)]
  BY <1>1
<1> HIDE DEF Good, S
<1>14. QED
  BY <1>3, <1>12, <1>13, Zenon

\* One clause read, and all of them, when short clauses are merged.
MergeStep(acc, c, min) ==
    LET text == acc.carry \o c.text
    IN  IF Tokens(Len(text)) < min
        THEN [acc EXCEPT !.carry = text, !.last = <<[c EXCEPT !.text = text]>>]
        ELSE [carry |-> <<>>, last |-> <<>>,
              out |-> Append(acc.out, [c EXCEPT !.text = text])]

Merging(doc, min) ==
    FoldLeft(LAMBDA acc, c : MergeStep(acc, c, min),
             [carry |-> <<>>, last |-> <<>>, out |-> <<>>], doc)

MergesBy(f, doc, min) ==
    /\ f[0] = [carry |-> <<>>, last |-> <<>>, out |-> <<>>]
    /\ Merging(doc, min) = f[Len(doc)]
    /\ \A i \in 1..Len(doc) : f[i] = MergeStep(f[i - 1], doc[i], min)

\* A clause with another text.
LEMMA Reworded ==
    ASSUME NEW c \in Numbered, NEW t \in Seq(Nat)
    PROVE  [c EXCEPT !.text = t] \in Numbered /\ [c EXCEPT !.text = t].text = t
BY DEF Numbered

\* The clauses of a document are merged one by one.
LEMMA MergingIs ==
    ASSUME NEW doc \in Seq(Numbered), NEW min \in Nat
    PROVE  \E f : MergesBy(f, doc, min)
<1> DEFINE n == Len(doc)
           step(acc, c) == MergeStep(acc, c, min)
           base == [carry |-> <<>>, last |-> <<>>, out |-> <<>>]
           A == [carry : Seq(Nat), last : Seq(Numbered), out : Seq(Numbered)]
           Merges(it) == it = [s \in SUBSET DOMAIN doc |->
                               IF s = {} THEN base
                               ELSE step(it[s \ {Max(s)}], doc[Max(s)])]
           G == [p \in A \X (1..n) |-> step(p[1], doc[p[2]])]
<1>1. n \in Nat /\ DOMAIN doc = 1..n
  BY LenProperties
<1>2. base \in A
  OBVIOUS
<1>3. ASSUME NEW acc \in A, NEW c \in Numbered PROVE step(acc, c) \in A
  <2>1. acc.carry \in Seq(Nat) /\ acc.last \in Seq(Numbered) /\ acc.out \in Seq(Numbered)
    OBVIOUS
  <2>2. PICK t \in Seq(Nat) : t = acc.carry \o c.text
    <3>1. c.text \in Seq(Nat)
      BY NumberedFields
    <3>2. acc.carry \o c.text \in Seq(Nat)
      BY ONLY <2>1, <3>1
    <3>3. QED
      BY <3>2
  <2>3. PICK d \in Numbered : d = [c EXCEPT !.text = t]
    BY Reworded
  <2>4. CASE Tokens(Len(t)) < min
    <3>1. step(acc, c) = [acc EXCEPT !.carry = t, !.last = <<d>>]
      BY <2>2, <2>3, <2>4, Zenon DEF MergeStep
    <3>2. <<d>> \in Seq(Numbered)
      OBVIOUS
    <3> HIDE DEF step
    <3>3. QED
      BY <3>1, <3>2
  <2>5. CASE ~ (Tokens(Len(t)) < min)
    <3>1. step(acc, c) = [carry |-> <<>>, last |-> <<>>, out |-> Append(acc.out, d)]
      BY <2>2, <2>3, <2>5, Zenon DEF MergeStep
    <3>2. Append(acc.out, d) \in Seq(Numbered)
      BY <2>1
    <3> HIDE DEF step
    <3>3. QED
      BY <3>1, <3>2
  <2>6. QED
    BY <2>4, <2>5
<1>4. \A i \in 1..n : doc[i] \in Numbered
  BY NumberedAt
<1> HIDE DEF step, base
<1>5. G \in [A \X (1..n) -> A]
  <2>1. \A p \in A \X (1..n) : step(p[1], doc[p[2]]) \in A
    <3> HIDE DEF A
    <3> QED BY <1>3, <1>4
  <2> HIDE DEF A
  <2>2. QED
    BY <2>1
<1>6. \A a \in A, i \in 1..n : G[<<a, i>>] = step(a, doc[i])
  <2> HIDE DEF A
  <2> QED OBVIOUS
<1> HIDE DEF A, G
<1>7. PICK h \in [SUBSET (1..n) -> A] : Recurs(h, n, base, G)
  BY <1>1, <1>2, <1>5, FoldExists
<1>8. ASSUME NEW s \in SUBSET (1..n), s # {}
      PROVE  h[s] = step(h[s \ {Max(s)}], doc[Max(s)])
  <2>1. Max(s) \in 1..n
    BY <1>1, <1>8, Greatest
  <2>2. h[s \ {Max(s)}] \in A
    OBVIOUS
  <2>3. QED
    BY <1>6, <1>7, <1>8, <2>1, <2>2 DEF Recurs
<1>9. Merges(h)
  <2>1. h = [s \in SUBSET (1..n) |-> h[s]]
    OBVIOUS
  <2>2. ASSUME NEW s \in SUBSET (1..n)
        PROVE  h[s] = IF s = {} THEN base ELSE step(h[s \ {Max(s)}], doc[Max(s)])
    BY <1>7, <1>8 DEF Recurs
  <2>3. h = [s \in SUBSET (1..n) |->
               IF s = {} THEN base ELSE step(h[s \ {Max(s)}], doc[Max(s)])]
    <3> HIDE DEF n
    <3> QED BY <2>1, <2>2
  <2>4. QED
    BY <1>1, <2>3, Zenon
<1>10. PICK it : it = CHOOSE g : Merges(g)
  OBVIOUS
<1>11. Merges(it)
  <2> HIDE DEF Merges
  <2> QED BY <1>9, <1>10, Zenon
<1>12. Merging(doc, min) = it[1..n]
  <2>1. Merging(doc, min) = it[DOMAIN doc]
    BY <1>10, Zenon DEF step, base, Merging, FoldLeft, MapThenFoldSet
  <2>2. QED
    BY <1>1, <2>1, Zenon
<1> DEFINE f == [i \in 0..n |-> it[1..i]]
<1>13. f[0] = base
  <2>1. 1..0 = {} /\ 0 \in 0..n
    BY <1>1
  <2>2. it[{}] = base
    BY <1>11
  <2>3. QED
    BY <2>1, <2>2
<1>14. ASSUME NEW i \in 1..n PROVE f[i] = step(f[i - 1], doc[i])
  <2>1. 1..i \in SUBSET (1..n) /\ i \in 0..n /\ i - 1 \in 0..n /\ i \in Nat /\ i # 0
    BY <1>1
  <2>2. Max(1..i) = i /\ (1..i) \ {Max(1..i)} = 1..(i - 1) /\ 1..i # {}
    BY <2>1, GreatestOfFirst
  <2>3. it[1..i] = step(it[(1..i) \ {Max(1..i)}], doc[Max(1..i)])
    BY <1>1, <1>11, <2>1, <2>2
  <2>4. it[1..i] = step(it[1..(i - 1)], doc[i])
    BY <2>2, <2>3
  <2>5. QED
    BY <2>1, <2>4
<1>15. Merging(doc, min) = f[n]
  BY <1>1, <1>12
<1>16. QED
  <2> HIDE DEF f, n
  <2>1. /\ f[0] = base /\ Merging(doc, min) = f[n]
        /\ \A i \in 1..n : f[i] = step(f[i - 1], doc[i])
    BY <1>13, <1>14, <1>15
  <2>2. QED
    BY <2>1, Zenon DEF step, base, n, MergesBy

\* While clauses are merged: what is put out, and then what is carried, lies
\* one behind the other up to word b; the last fragment is kept with its text.
Carried(acc, b) ==
    \E carry \in Seq(Nat), last \in Seq(Numbered), out \in Seq(Numbered) :
        /\ acc = [carry |-> carry, last |-> last, out |-> out]
        /\ \E w : /\ Lies(out, w) /\ w[0] = 0 /\ Passage(carry, w[Len(out)] + 1)
                  /\ w[Len(out)] + Len(carry) = b
        /\ IF carry = <<>> THEN last = <<>> ELSE \E d \in Numbered : last = <<d>> /\ d.text = carry

\* So it is after one clause more.
LEMMA CarriedOn ==
    ASSUME NEW acc, NEW b \in Nat, Carried(acc, b), NEW c \in Numbered,
           Len(c.text) > 0, Passage(c.text, b + 1), NEW min \in Nat
    PROVE  Carried(MergeStep(acc, c, min), b + Len(c.text))
<1>1. PICK carry \in Seq(Nat), last \in Seq(Numbered), out \in Seq(Numbered) :
        /\ acc = [carry |-> carry, last |-> last, out |-> out]
        /\ \E w : /\ Lies(out, w) /\ w[0] = 0 /\ Passage(carry, w[Len(out)] + 1)
                  /\ w[Len(out)] + Len(carry) = b
  BY Zenon DEF Carried
<1>2. PICK w : /\ Lies(out, w) /\ w[0] = 0 /\ Passage(carry, w[Len(out)] + 1)
               /\ w[Len(out)] + Len(carry) = b
  BY <1>1
<1>3. PICK e \in Nat : e = w[Len(out)]
  <2>1. Len(out) \in 0..Len(out)
    BY LenProperties
  <2>2. QED
    BY <1>2, <2>1 DEF Lies
<1>4. PICK k \in Nat : k = Len(carry)
  BY LenProperties
<1>5. PICK l \in Nat : l = Len(c.text) /\ l > 0
  BY NumberedFields
<1>6. e + k = b /\ b + 1 = (e + 1) + k
  <2>1. w[Len(out)] + Len(carry) = b
    BY <1>2
  <2>2. e + k = b
    BY ONLY <1>3, <1>4, <2>1
  <2>3. QED
    BY ONLY <2>2, e \in Nat, k \in Nat, b \in Nat
<1>7. PICK text : text = carry \o c.text
  OBVIOUS
<1>8. Passage(text, e + 1) /\ Len(text) = k + l
  <2>1. Passage(carry, e + 1) /\ Passage(c.text, (e + 1) + Len(carry))
    BY <1>2, <1>3, <1>4, <1>6
  <2>2. QED
    BY <1>4, <1>5, <1>7, <2>1, PassageConcat
<1>9. text \in Seq(Nat)
  BY <1>8 DEF Passage
<1>10. PICK d \in Numbered : d = [c EXCEPT !.text = text] /\ d.text = text
  BY <1>9, Reworded
<1>11. acc.carry = carry /\ acc.out = out
  BY <1>1
<1>12. CASE Tokens(Len(text)) < min
  <2>1. MergeStep(acc, c, min) = [acc EXCEPT !.carry = text, !.last = <<d>>]
    BY <1>7, <1>10, <1>11, <1>12, Zenon DEF MergeStep
  <2>2. PICK tail \in Seq(Numbered) : tail = <<d>>
    <3>1. <<d>> \in Seq(Numbered)
      BY ONLY d \in Numbered
    <3>2. QED
      BY <3>1
  <2>3. [acc EXCEPT !.carry = text, !.last = tail] = [carry |-> text, last |-> tail, out |-> out]
    <3>1. acc = [carry |-> carry, last |-> last, out |-> out]
      BY <1>1
    <3>2. PICK m : m = [acc EXCEPT !.carry = text, !.last = tail]
      OBVIOUS
    <3>3. acc \in [carry : Seq(Nat), last : Seq(Numbered), out : Seq(Numbered)] /\ acc.out = out
      BY <3>1
    <3>4. /\ m \in [carry : Seq(Nat), last : Seq(Numbered), out : Seq(Numbered)]
          /\ m.carry = text /\ m.last = tail /\ m.out = out
      BY ONLY <1>9, <3>2, <3>3, tail \in Seq(Numbered)
    <3>5. m = [carry |-> text, last |-> tail, out |-> out]
      BY ONLY <3>4
    <3>6. QED
      BY <3>2, <3>5
  <2>4. MergeStep(acc, c, min) = [carry |-> text, last |-> tail, out |-> out]
    BY <2>1, <2>2, <2>3
  <2>5. /\ Lies(out, w) /\ w[0] = 0 /\ Passage(text, w[Len(out)] + 1)
        /\ w[Len(out)] + Len(text) = b + Len(c.text)
    <3>1. Len(text) \in Nat /\ e + Len(text) = b + l
      BY ONLY <1>6, <1>8, e \in Nat, k \in Nat, l \in Nat, b \in Nat
    <3>2. Lies(out, w) /\ w[0] = 0 /\ Passage(text, w[Len(out)] + 1)
      BY <1>2, <1>3, <1>8
    <3>3. QED
      BY <1>3, <1>5, <3>1, <3>2
  <2>6. text # <<>>
    <3>1. Len(text) # 0
      BY ONLY <1>5, <1>8, k \in Nat, l \in Nat
    <3>2. Len(<<>>) = 0
      OBVIOUS
    <3>3. QED
      BY ONLY <3>1, <3>2
  <2>7. IF text = <<>> THEN tail = <<>> ELSE \E x \in Numbered : tail = <<x>> /\ x.text = text
    BY <1>10, <2>2, <2>6
  <2>8. QED
    BY <1>9, <2>4, <2>5, <2>7, Zenon DEF Carried
<1>13. CASE ~ (Tokens(Len(text)) < min)
  <2>1. MergeStep(acc, c, min) = [carry |-> <<>>, last |-> <<>>, out |-> Append(out, d)]
    BY <1>7, <1>10, <1>11, <1>13, Zenon DEF MergeStep
  <2>2. Len(d.text) > 0 /\ Passage(d.text, w[Len(out)] + 1) /\ Len(d.text) = k + l
    BY <1>3, <1>5, <1>8, <1>10
  <2>3. PICK u : /\ Lies(Append(out, d), u) /\ u[0] = w[0]
                 /\ u[Len(out) + 1] = w[Len(out)] + Len(d.text)
                 /\ Len(Append(out, d)) = Len(out) + 1
    BY <1>2, <2>2, LiesAppend
  <2>4. PICK more \in Seq(Numbered) : more = Append(out, d)
    <3>1. Append(out, d) \in Seq(Numbered)
      BY ONLY out \in Seq(Numbered), d \in Numbered
    <3>2. QED
      BY <3>1
  <2>5. Len(more) = Len(out) + 1 /\ u[Len(more)] = e + (k + l)
    BY <1>3, <2>2, <2>3, <2>4
  <2>6. Passage(<<>>, u[Len(more)] + 1) /\ u[Len(more)] + Len(<<>>) = b + Len(c.text)
    <3>1. Len(<<>>) = 0 /\ <<>> \in Seq(Nat)
      OBVIOUS
    <3>2. u[Len(more)] + Len(<<>>) = b + Len(c.text)
      <4>1. (e + (k + l)) + 0 = b + l
        BY ONLY <1>6, e \in Nat, k \in Nat, l \in Nat, b \in Nat
      <4>2. QED
        BY <1>5, <2>5, <3>1, <4>1
    <3>3. Passage(<<>>, u[Len(more)] + 1)
      BY <3>1 DEF Passage
    <3>4. QED
      BY <3>2, <3>3
  <2>7. Lies(more, u) /\ u[0] = 0
    BY <1>2, <2>3, <2>4
  <2>8. <<>> \in Seq(Nat) /\ <<>> \in Seq(Numbered)
    OBVIOUS
  <2>9. MergeStep(acc, c, min) = [carry |-> <<>>, last |-> <<>>, out |-> more]
    BY <2>1, <2>4
  <2>10. QED
    BY <2>6, <2>7, <2>8, <2>9, Zenon DEF Carried
<1>14. QED
  BY <1>12, <1>13

\* Merged clauses lie one behind the other, up to the same word.
LEMMA MergedLies ==
    ASSUME NEW doc, NEW v, Lies(doc, v), v[0] = 0, NEW min \in Nat
    PROVE  \E w : /\ Lies(MergeTiny(doc, min), w) /\ w[0] = 0
                  /\ w[Len(MergeTiny(doc, min))] = v[Len(doc)]
<1>1. PICK n \in Nat : n = Len(doc) /\ doc \in Seq(Numbered) /\ v \in [0..n -> Nat]
  BY LenProperties DEF Lies
<1>2. ASSUME NEW i \in 1..n
      PROVE  /\ doc[i] \in Numbered
             /\ Len(doc[i].text) > 0 /\ Passage(doc[i].text, v[i - 1] + 1)
             /\ v[i] = v[i - 1] + Len(doc[i].text) /\ v[i - 1] \in Nat
  <2>1. doc[i] \in Numbered /\ i - 1 \in 0..n
    BY <1>1, NumberedAt
  <2>2. QED
    BY <1>1, <2>1 DEF Lies
<1>3. PICK f : MergesBy(f, doc, min)
  BY <1>1, MergingIs
<1>4. /\ f[0] = [carry |-> <<>>, last |-> <<>>, out |-> <<>>]
      /\ Merging(doc, min) = f[n]
      /\ \A i \in 1..n : f[i] = MergeStep(f[i - 1], doc[i], min)
  BY <1>1, <1>3 DEF MergesBy
<1> DEFINE S == {i \in 0..n : Carried(f[i], v[i])}
<1>5. 0 \in S
  <2>1. PICK w : w = [i \in 0..0 |-> 0]
    OBVIOUS
  <2>2. w[0] = 0 /\ Len(<<>>) = 0 /\ w \in [0..Len(<<>>) -> Nat]
    BY <2>1
  <2>3. <<>> \in Seq(Nat) /\ <<>> \in Seq(Numbered)
    OBVIOUS
  <2>4. Lies(<<>>, w)
    BY <2>2, <2>3 DEF Lies
  <2>5. Passage(<<>>, w[Len(<<>>)] + 1) /\ w[Len(<<>>)] + Len(<<>>) = v[0]
    BY <2>2, <2>3 DEF Passage
  <2>6. Carried(f[0], v[0])
    BY <1>4, <2>2, <2>3, <2>4, <2>5, Zenon DEF Carried
  <2>7. 0 \in 0..n
    OBVIOUS
  <2>8. QED
    BY <2>6, <2>7
<1>6. ASSUME NEW i \in 0..n, i < n, i \in S PROVE i + 1 \in S
  <2>1. i + 1 \in 0..n /\ i + 1 \in 1..n /\ (i + 1) - 1 = i
    BY <1>6
  <2>2. PICK b \in Nat : b = v[i] /\ Carried(f[i], b)
    BY <1>1, <1>6
  <2>3. PICK c \in Numbered : c = doc[i + 1]
    BY <1>2, <2>1
  <2>4. Len(c.text) > 0 /\ Passage(c.text, b + 1) /\ v[i + 1] = b + Len(c.text)
    BY <1>2, <2>1, <2>2, <2>3
  <2>5. Carried(MergeStep(f[i], c, min), b + Len(c.text))
    BY <2>2, <2>4, CarriedOn
  <2>6. f[i + 1] = MergeStep(f[i], c, min)
    BY <1>4, <2>1, <2>3
  <2>7. QED
    BY <2>1, <2>4, <2>5, <2>6
<1>7. n \in S
  <2>1. n \in 0..n
    OBVIOUS
  <2> HIDE DEF S
  <2>2. QED
    BY <1>5, <1>6, <2>1, Ascent
<1>8. PICK acc : acc = Merging(doc, min)
  OBVIOUS
<1>9. Carried(acc, v[n])
  BY <1>4, <1>7, <1>8
<1>10. PICK carry \in Seq(Nat), last \in Seq(Numbered), out \in Seq(Numbered) :
          /\ acc = [carry |-> carry, last |-> last, out |-> out]
          /\ \E w : /\ Lies(out, w) /\ w[0] = 0 /\ Passage(carry, w[Len(out)] + 1)
                    /\ w[Len(out)] + Len(carry) = v[n]
          /\ IF carry = <<>> THEN last = <<>> ELSE \E d \in Numbered : last = <<d>> /\ d.text = carry
  BY <1>9, Zenon DEF Carried
<1>11. PICK w : /\ Lies(out, w) /\ w[0] = 0 /\ Passage(carry, w[Len(out)] + 1)
                /\ w[Len(out)] + Len(carry) = v[n]
  BY <1>10
<1>12. MergeTiny(doc, min) = out \o last
  <2>1. MergeTiny(doc, min) = acc.out \o acc.last
    BY <1>8, Zenon DEF MergeTiny, Merging, MergeStep
  <2>2. acc.out = out /\ acc.last = last
    BY <1>10
  <2>3. QED
    BY <2>1, <2>2
<1>13. CASE carry = <<>>
  <2>1. last = <<>> /\ Len(carry) = 0
    BY <1>10, <1>13
  <2>2. out \o last = out
    BY <2>1, ConcatEmptySeq
  <2>3. w[Len(out)] = v[n]
    <3>1. w[Len(out)] \in Nat
      <4>1. Len(out) \in 0..Len(out)
        BY LenProperties
      <4>2. QED
        BY <1>11, <4>1 DEF Lies
    <3>2. QED
      BY <1>11, <2>1, <3>1
  <2>4. QED
    BY <1>1, <1>11, <1>12, <2>2, <2>3
<1>14. CASE carry # <<>>
  <2>1. PICK d \in Numbered : last = <<d>> /\ d.text = carry
    BY <1>10, <1>14
  <2>2. out \o last = Append(out, d)
    BY <2>1, AppendIsConcat
  <2>3. Len(d.text) > 0 /\ Passage(d.text, w[Len(out)] + 1)
    <3>1. Len(carry) \in Nat /\ Len(carry) # 0
      BY <1>14, EmptySeq, LenProperties
    <3>2. QED
      BY <1>11, <2>1, <3>1
  <2>4. PICK u : /\ Lies(Append(out, d), u) /\ u[0] = w[0]
                 /\ u[Len(out) + 1] = w[Len(out)] + Len(d.text)
                 /\ Len(Append(out, d)) = Len(out) + 1
    BY <1>11, <2>3, LiesAppend
  <2>5. QED
    BY <1>1, <1>11, <1>12, <2>1, <2>2, <2>4
<1>15. QED
  BY <1>13, <1>14

\* A parsed document: clauses with a text each, one behind the other.
Document ==
    /\ clauses \in Seq(Numbered)
    /\ \E w : Lies(clauses, w) /\ w[0] = 0 /\ w[Len(clauses)] = Words(clauses)

\* The words of clauses that lie one behind the other are as many as the
\* number of the last word.
LEMMA LiesWords ==
    ASSUME NEW D, NEW w, Lies(D, w), w[0] = 0
    PROVE  Words(D) = w[Len(D)] /\ Words(D) \in Nat
<1>1. PICK n \in Nat : n = Len(D) /\ D \in Seq(Numbered) /\ w \in [0..n -> Nat]
  BY LenProperties DEF Lies
<1>2. \A i \in 1..n : w[i] = w[i - 1] + Len(D[i].text)
  BY <1>1 DEF Lies
<1>3. PICK f \in [0..n -> Nat] : /\ f[0] = 0 /\ Words(D) = f[n]
                                 /\ \A i \in 1..n : f[i] = f[i - 1] + Len(D[i].text)
  BY <1>1, WordsIs
<1> DEFINE S == {i \in 0..n : f[i] = w[i]}
<1>4. 0 \in S
  BY <1>3
<1>5. ASSUME NEW i \in 0..n, i < n, i \in S PROVE i + 1 \in S
  <2>1. i + 1 \in 1..n /\ i + 1 \in 0..n /\ (i + 1) - 1 = i /\ f[i] = w[i]
    BY <1>5
  <2>2. f[i + 1] = f[i] + Len(D[i + 1].text) /\ w[i + 1] = w[i] + Len(D[i + 1].text)
    BY <1>2, <1>3, <2>1
  <2>3. QED
    BY <2>1, <2>2
<1>6. n \in S /\ n \in 0..n
  <2>1. n \in 0..n
    OBVIOUS
  <2> HIDE DEF S
  <2>2. QED
    BY <1>4, <1>5, <2>1, Ascent
<1>7. QED
  BY <1>1, <1>3, <1>6

\* An empty document is one.
LEMMA InitDocument == Init => Document
<1> SUFFICES ASSUME Init PROVE Document
  OBVIOUS
<1>1. PICK w : w = [i \in 0..0 |-> 0]
  OBVIOUS
<1>2. w[0] = 0 /\ Len(<<>>) = 0 /\ w \in [0..Len(<<>>) -> Nat] /\ <<>> \in Seq(Numbered)
  BY <1>1
<1>3. Lies(<<>>, w)
  BY <1>2 DEF Lies
<1>4. Words(<<>>) = w[Len(<<>>)]
  BY <1>2, <1>3, LiesWords
<1>5. clauses = <<>>
  BY DEF Init
<1>6. QED
  BY <1>2, <1>3, <1>4, <1>5 DEF Document

\* A clause added lies behind the others.
LEMMA ClauseAdded ==
    ASSUME NEW D \in Seq(Numbered), NEW w, Lies(D, w), w[0] = 0, w[Len(D)] = Words(D),
           NEW n \in Nat, n > 0
    PROVE  LET N == Append(D, [id |-> Len(D) + 1, text |-> [p \in 1..n |-> Words(D) + p]])
           IN  N \in Seq(Numbered)
               /\ \E u : Lies(N, u) /\ u[0] = 0 /\ u[Len(N)] = Words(N)
<1>1. PICK b \in Nat : b = Words(D)
  BY LiesWords
<1>2. PICK t \in Seq(Nat) : t = [p \in 1..n |-> b + p] /\ Len(t) = n
  <2>1. PICK g \in [1..n -> Nat] : g = [p \in 1..n |-> b + p]
    <3>1. \A p \in 1..n : b + p \in Nat
      BY <1>1
    <3>2. QED
      BY <3>1
  <2>2. g \in Seq(Nat) /\ Len(g) = n
    BY ONLY g \in [1..n -> Nat], n \in Nat
  <2>3. QED
    BY <2>1, <2>2
<1>3. Passage(t, b + 1)
  <2>1. \A p \in 1..Len(t) : t[p] = (b + 1) + p - 1
    BY <1>1, <1>2
  <2>2. QED
    BY <2>1 DEF Passage
<1>4. PICK d \in Numbered : d = [id |-> Len(D) + 1, text |-> t]
  <2>1. Len(D) + 1 \in Nat
    BY LenProperties
  <2>2. QED
    BY <2>1 DEF Numbered
<1>5. d.text = t
  BY <1>4
<1>6. Len(d.text) > 0 /\ Passage(d.text, w[Len(D)] + 1)
  BY <1>1, <1>2, <1>3, <1>5
<1>7. PICK u : Lies(Append(D, d), u) /\ u[0] = w[0]
  BY <1>6, LiesAppend
<1>8. PICK N : N = Append(D, d)
  OBVIOUS
<1>9. Lies(N, u) /\ u[0] = 0
  BY <1>7, <1>8
<1>10. u[Len(N)] = Words(N)
  BY <1>9, LiesWords
<1>11. N = Append(D, [id |-> Len(D) + 1, text |-> [p \in 1..n |-> Words(D) + p]])
  BY <1>1, <1>2, <1>4, <1>8, Zenon
<1>12. N \in Seq(Numbered)
  BY <1>9 DEF Lies
<1>13. QED
  BY <1>9, <1>10, <1>11, <1>12, Zenon

\* The clauses given to chunking are a document.
LEMMA DocumentAlways == Spec => []Document
<1>1. Document /\ [Next]_vars => Document'
  <2>1. SUFFICES ASSUME Document, [Next]_vars PROVE Document'
    OBVIOUS
  <2>2. CASE \E n \in 1..MaxWords : AddClause(n)
    <3>1. PICK n \in 1..MaxWords : AddClause(n)
      BY <2>2
    <3>2. MaxWords \in Nat
      BY ParametersAssumption
    <3>3. n \in Nat /\ n > 0
      BY <3>2
    <3>4. PICK w : Lies(clauses, w) /\ w[0] = 0 /\ w[Len(clauses)] = Words(clauses)
      BY <2>1 DEF Document
    <3>5. PICK N : N = Append(clauses, [id |-> Len(clauses) + 1,
                                        text |-> [p \in 1..n |-> Words(clauses) + p]])
      OBVIOUS
    <3>6. clauses' = N
      BY <3>1, <3>5, Zenon DEF AddClause
    <3>7. clauses \in Seq(Numbered)
      BY <2>1 DEF Document
    <3>8. N \in Seq(Numbered) /\ \E u : Lies(N, u) /\ u[0] = 0 /\ u[Len(N)] = Words(N)
      BY <3>3, <3>4, <3>5, <3>7, ClauseAdded
    <3>9. QED
      BY <3>6, <3>8, Zenon DEF Document
  <2>3. CASE UNCHANGED clauses
    BY <2>1, <2>3, Zenon DEF Document
  <2>4. CASE \E id \in Ids : VectorHit(id) \/ LexicalHit(id)
    BY <2>3, <2>4 DEF VectorHit, LexicalHit
  <2>5. CASE \E c \in Clauses : AddLeft(c) \/ AddRight(c)
    BY <2>3, <2>5 DEF AddLeft, AddRight
  <2>6. CASE \E field \in Fields : ReadValues(field)
    BY <2>3, <2>6 DEF ReadValues
  <2>7. CASE \E heading \in Titles : StartClause(heading)
    BY <2>3, <2>7 DEF StartClause
  <2>8. CASE \E phrase \in Phrases : AddPhrase(phrase)
    BY <2>3, <2>8 DEF AddPhrase
  <2>9. CASE \E kind \in ParagraphKinds : AddParagraph(kind)
    BY <2>3, <2>9 DEF AddParagraph
  <2>10. CASE \E kind \in LineKinds : AddLine(kind)
    BY <2>3, <2>10 DEF AddLine
  <2>11. CASE UNCHANGED vars
    BY <2>3, <2>11 DEF vars
  <2>12. QED
    BY <2>1, <2>2, <2>4, <2>5, <2>6, <2>7, <2>8, <2>9, <2>10, <2>11 DEF Next
<1>2. QED
  BY <1>1, InitDocument, PTL DEF Spec

\* What covers a document holds it.
LEMMA CoverHolds ==
    ASSUME NEW C \in Seq(Chunk), NEW b \in Nat, Covers(Texts(C), 0, b)
    PROVE  LET from == [i \in DOMAIN C |-> C[i].text[1]]
               upTo == [i \in DOMAIN C |-> C[i].text[Len(C[i].text)]]
           IN  /\ C # <<>>
               /\ \A i \in DOMAIN C : C[i].text = [p \in 1..Len(C[i].text) |-> from[i] + p - 1]
               /\ from[1] = 1
               /\ \A i \in 2..Len(C) : /\ from[i] <= upTo[i - 1] + 1
                                       /\ from[i] > from[i - 1] /\ upTo[i] > upTo[i - 1]
               /\ upTo[Len(C)] = b
               /\ \A i \in DOMAIN C : Tokens(Len(C[i].text)) <= MaxTokens
<1>1. PICK n \in Nat : n = Len(C) /\ DOMAIN C = 1..n
  BY LenProperties
<1>2. PICK X : X = Texts(C)
  OBVIOUS
<1>3. Len(X) = n /\ \A i \in 1..n : X[i] = C[i].text
  BY <1>1, <1>2, TextsIs
<1>4. /\ n > 0 /\ \A i \in 1..n : Piece(X[i])
      /\ \A i \in 2..n : Follows(X[i], X[i - 1])
      /\ X[1][1] = 0 + 1 /\ EndOf(X[n]) = b
  BY <1>2, <1>3 DEF Covers
<1> DEFINE from == [i \in DOMAIN C |-> C[i].text[1]]
           upTo == [i \in DOMAIN C |-> C[i].text[Len(C[i].text)]]
<1>5. ASSUME NEW i \in 1..n
      PROVE  /\ Piece(C[i].text) /\ from[i] = X[i][1] /\ upTo[i] = EndOf(X[i])
             /\ X[i] = C[i].text
  <2>1. X[i] = C[i].text /\ Piece(X[i])
    BY <1>3, <1>4
  <2>2. PICK t : t = X[i]
    OBVIOUS
  <2>3. t[Len(t)] = EndOf(t)
    <3>1. /\ t \in Seq(Nat) /\ t[1] \in Nat /\ Len(t) > 0 /\ Passage(t, t[1])
      BY <2>1, <2>2, PieceIs DEF Piece
    <3>2. t[Len(t)] = t[1] + Len(t) - 1
      BY <3>1, PassageStarts
    <3>3. QED
      BY <3>2 DEF EndOf
  <2>4. from[i] = C[i].text[1] /\ upTo[i] = C[i].text[Len(C[i].text)]
    BY <1>1
  <2> HIDE DEF from, upTo
  <2>5. QED
    BY <2>1, <2>2, <2>3, <2>4
<1> HIDE DEF from, upTo
<1>6. C # <<>>
  <2>1. Len(<<>>) = 0
    OBVIOUS
  <2>2. QED
    BY <1>1, <1>4, <2>1
<1>7. ASSUME NEW i \in 1..n
      PROVE  C[i].text = [p \in 1..Len(C[i].text) |-> from[i] + p - 1]
  <2>1. PICK t : t = C[i].text
    OBVIOUS
  <2>2. Piece(t) /\ from[i] = t[1]
    BY <1>5, <2>1
  <2>3. t \in Seq(Nat) /\ \A p \in 1..Len(t) : t[p] = t[1] + p - 1
    BY <2>2 DEF Piece, Passage
  <2>4. t = [p \in 1..Len(t) |-> t[p]]
    BY <2>3, LenProperties
  <2>5. t = [p \in 1..Len(t) |-> t[1] + p - 1]
    BY <2>3, <2>4, Zenon
  <2>6. QED
    BY <2>1, <2>2, <2>5
<1>8. from[1] = 1 /\ upTo[n] = b
  <2>1. 1 \in 1..n /\ n \in 1..n
    BY <1>4
  <2>2. from[1] = X[1][1] /\ upTo[n] = EndOf(X[n])
    BY <1>5, <2>1
  <2>3. QED
    BY <1>4, <2>2
<1>9. ASSUME NEW i \in 2..n
      PROVE  /\ from[i] <= upTo[i - 1] + 1
             /\ from[i] > from[i - 1] /\ upTo[i] > upTo[i - 1]
  <2>1. i \in 1..n /\ i - 1 \in 1..n
    OBVIOUS
  <2>2. Follows(X[i], X[i - 1])
    BY <1>4
  <2>3. /\ from[i] = X[i][1] /\ upTo[i] = EndOf(X[i])
        /\ from[i - 1] = X[i - 1][1] /\ upTo[i - 1] = EndOf(X[i - 1])
    BY <1>5, <2>1
  <2>4. QED
    BY <2>2, <2>3 DEF Follows
<1>10. \A i \in 1..n : Tokens(Len(C[i].text)) <= MaxTokens
  BY <1>5 DEF Piece
<1>11. /\ C # <<>>
       /\ \A i \in DOMAIN C : C[i].text = [p \in 1..Len(C[i].text) |-> from[i] + p - 1]
       /\ from[1] = 1
       /\ \A i \in 2..Len(C) : /\ from[i] <= upTo[i - 1] + 1
                               /\ from[i] > from[i - 1] /\ upTo[i] > upTo[i - 1]
       /\ upTo[Len(C)] = b
       /\ \A i \in DOMAIN C : Tokens(Len(C[i].text)) <= MaxTokens
  BY <1>1, <1>6, <1>7, <1>8, <1>9, <1>10
<1>12. QED
  BY <1>11, Zenon DEF from, upTo

\* However a document is divided into clauses, and whatever the sizes of chunk,
\* overlap and smallest chunk: chunk_clauses loses no word, keeps their order,
\* and no chunk is larger than it may be.
THEOREM ChunksHoldDocumentAlways == Spec => []ChunksHoldDocument
<1>1. Document => ChunksHoldDocument
  <2>1. SUFFICES ASSUME Document, clauses # <<>> PROVE ChunksHoldDocument
    BY DEF ChunksHoldDocument
  <2>2. PICK v : Lies(clauses, v) /\ v[0] = 0 /\ v[Len(clauses)] = Words(clauses)
    BY <2>1 DEF Document
  <2>3. MaxTokens \in Nat \ {0} /\ OverlapTokens \in Nat /\ MinTokens \in Nat
    BY ParametersAssumption
  <2>4. PICK M : M = MergeTiny(clauses, MinTokens)
    OBVIOUS
  <2>5. PICK w : Lies(M, w) /\ w[0] = 0 /\ w[Len(M)] = Words(clauses)
    <3>1. \E w : /\ Lies(MergeTiny(clauses, MinTokens), w) /\ w[0] = 0
                 /\ w[Len(MergeTiny(clauses, MinTokens))] = v[Len(clauses)]
      BY <2>2, <2>3, MergedLies
    <3>2. QED
      BY <2>2, <2>4, <3>1
  <2>6. PICK b \in Nat : b = Words(clauses)
    BY <2>2, LiesWords
  <2>7. M # <<>>
    <3>1. PICK n \in Nat : n = Len(clauses) /\ n # 0
      <4>1. clauses \in Seq(Numbered)
        BY <2>1 DEF Document
      <4>2. QED
        BY <2>1, <4>1, EmptySeq, LenProperties
    <3>2. n \in 1..n /\ n - 1 \in 0..n
      BY <3>1
    <3>3. Len(clauses[n].text) > 0 /\ v[n] = v[n - 1] + Len(clauses[n].text) /\ v[n - 1] \in Nat
      BY <2>2, <3>1, <3>2 DEF Lies
    <3>4. Len(clauses[n].text) \in Nat
      <4>1. clauses[n] \in Numbered
        BY <2>1, <3>1, <3>2, NumberedAt DEF Document
      <4>2. QED
        BY <4>1, NumberedFields
    <3>5. v[n] # 0
      BY <3>3, <3>4
    <3>6. w[Len(M)] # 0
      BY <2>2, <2>5, <3>1, <3>5
    <3>7. Len(<<>>) = 0
      OBVIOUS
    <3>8. QED
      BY <2>5, <3>6, <3>7
  <2>8. PICK C : C = FlattenSeq([i \in DOMAIN M |-> ChunksOf(M[i], MaxTokens, OverlapTokens)])
    OBVIOUS
  <2>9. C \in Seq(Chunk) /\ Covers(Texts(C), 0, b)
    <3>1. C \in Seq(Chunk) /\ Covers(Texts(C), w[0], w[Len(M)])
      BY <2>3, <2>5, <2>7, <2>8, ChunksCover
    <3>2. QED
      BY <2>5, <2>6, <3>1
  <2>10. Chunks = C
    BY <2>4, <2>8, Zenon DEF Chunks, ChunkClauses
  <2>11. LET from == [i \in DOMAIN C |-> C[i].text[1]]
             upTo == [i \in DOMAIN C |-> C[i].text[Len(C[i].text)]]
         IN  /\ C # <<>>
             /\ \A i \in DOMAIN C : C[i].text = [p \in 1..Len(C[i].text) |-> from[i] + p - 1]
             /\ from[1] = 1
             /\ \A i \in 2..Len(C) : /\ from[i] <= upTo[i - 1] + 1
                                     /\ from[i] > from[i - 1] /\ upTo[i] > upTo[i - 1]
             /\ upTo[Len(C)] = b
             /\ \A i \in DOMAIN C : Tokens(Len(C[i].text)) <= MaxTokens
    BY <2>9, CoverHolds
  <2>12. QED
    BY <2>6, <2>10, <2>11, Zenon DEF ChunksHoldDocument
<1>2. QED
  BY <1>1, DocumentAlways, PTL

-----------------------------------------------------------------------------
\* The paragraphs of DOCX files and the lines of PDF files.
Row == [page : {0}, text : Nat, title : Nat, marks : SUBSET STRING, changes : SUBSET STRING]
       \cup [page : Nat, words : STRING, text : Nat, title : Nat, size : Nat,
             marks : SUBSET STRING, changes : {{}}]

\* A paragraph or a line has a page, lengths and kinds of changes.
LEMMA RowFields ==
    ASSUME NEW r \in Row
    PROVE  r.page \in Nat /\ r.text \in Nat /\ r.title \in Nat /\ r.changes \in SUBSET STRING
BY DEF Row

\* Each of a file's is one.
LEMMA RowAt ==
    ASSUME NEW F \in Seq(Row), NEW p \in 1..Len(F)
    PROVE  F[p].page \in Nat /\ F[p].text \in Nat /\ F[p].title \in Nat
           /\ F[p].changes \in SUBSET STRING
<1>1. F[p] \in Row
  OBVIOUS
<1>2. QED
  BY <1>1, RowFields

\* Lines keep their kind on whatever page.
LEMMA LineOnPage ==
    ASSUME NEW kind \in LineKinds, NEW page \in Nat
    PROVE  [kind EXCEPT !.page = page] \in Row
<1> DEFINE K1 == [page : {1}, words : STRING, text : Nat, title : Nat, size : Nat,
                  marks : SUBSET STRING, changes : {{}}]
           K2 == [page : Nat, words : STRING, text : Nat, title : Nat, size : Nat,
                  marks : SUBSET STRING, changes : {{}}]
<1>1. kind \in K1
  BY ParametersAssumption
<1>2. [kind EXCEPT !.page = page] \in K2
  BY <1>1
<1>3. QED
  BY <1>2 DEF Row

\* Files are sequences of paragraphs or of lines.
Files == file \in Seq(Row)

\* Paragraphs and lines are added at the end, one at a time.
LEMMA FilesAlways == Spec => []Files
<1>1. Init => Files
  BY DEF Init, Files
<1>2. Files /\ [Next]_vars => Files'
  <2>1. SUFFICES ASSUME Files, [Next]_vars PROVE Files'
    OBVIOUS
  <2>2. CASE \E n \in 1..MaxWords : AddClause(n)
    BY <2>1, <2>2 DEF Files, AddClause
  <2>3. CASE \E id \in Ids : VectorHit(id) \/ LexicalHit(id)
    BY <2>1, <2>3 DEF Files, VectorHit, LexicalHit
  <2>4. CASE \E c \in Clauses : AddLeft(c) \/ AddRight(c)
    BY <2>1, <2>4 DEF Files, AddLeft, AddRight
  <2>5. CASE \E field \in Fields : ReadValues(field)
    BY <2>1, <2>5 DEF Files, ReadValues
  <2>6. CASE \E heading \in Titles : StartClause(heading)
    BY <2>1, <2>6 DEF Files, StartClause
  <2>7. CASE \E phrase \in Phrases : AddPhrase(phrase)
    BY <2>1, <2>7 DEF Files, AddPhrase
  <2>8. CASE \E kind \in ParagraphKinds : AddParagraph(kind)
    <3>1. PICK kind \in ParagraphKinds : AddParagraph(kind)
      BY <2>8
    <3>2. kind \in Row
      BY ParametersAssumption DEF Row
    <3>3. file' = Append(file, kind)
      BY <3>1 DEF AddParagraph
    <3>4. QED
      BY <2>1, <3>2, <3>3 DEF Files
  <2>9. CASE \E kind \in LineKinds : AddLine(kind)
    <3>1. PICK kind \in LineKinds : AddLine(kind)
      BY <2>9
    <3>2. PICK next \in {0, 1} :
             file' = Append(file, [kind EXCEPT !.page = IF file = <<>> THEN 1
                                                        ELSE Pages(file) + next])
      BY <3>1 DEF AddLine
    <3>3. PICK page : page = IF file = <<>> THEN 1 ELSE Pages(file) + next
      OBVIOUS
    <3>4. PICK all \in Seq(Row) : all = file
      BY <2>1 DEF Files
    <3>5. page \in Nat
      <4>1. CASE all = <<>>
        BY <3>3, <3>4, <4>1
      <4>2. CASE all # <<>>
        <5>1. Len(all) \in 1..Len(all)
          BY <4>2
        <5>2. Pages(all) \in Nat
          BY <5>1, RowAt DEF Pages
        <5>3. QED
          BY <3>3, <3>4, <4>2, <5>2
      <4>3. QED
        BY <4>1, <4>2
    <3>6. PICK r \in Row : r = [kind EXCEPT !.page = page]
      BY <3>5, LineOnPage
    <3>7. file' = Append(file, r)
      BY <3>2, <3>3, <3>6, Zenon
    <3>8. QED
      BY <2>1, <3>7 DEF Files
  <2>10. CASE UNCHANGED vars
    BY <2>1, <2>10 DEF Files, vars
  <2>11. QED
    BY <2>1, <2>2, <2>3, <2>4, <2>5, <2>6, <2>7, <2>8, <2>9, <2>10 DEF Next
<1>3. QED
  BY <1>1, <1>2, PTL DEF Spec

\* Among takes what a list has at some positions, in turn and each once.
Takes(e, A, list, P) ==
    /\ e \in Seq(1..Len(list)) /\ Len(A) = Len(e)
    /\ \A j \in 1..Len(e) : A[j] = list[e[j]] /\ e[j] \in P
    /\ \A j, l \in 1..Len(e) : j < l => e[j] < e[l]
    /\ \A k \in 1..Len(list) : k \in P => \E j \in 1..Len(e) : e[j] = k

\* Positions are looked at one by one, and those in the set are taken.
LEMMA AmongIs ==
    ASSUME NEW S, NEW list \in Seq(S), NEW P
    PROVE  Among(list, P) \in Seq(S) /\ \E e : Takes(e, Among(list, P), list, P)
<1>1. PICK n \in Nat : n = Len(list) /\ DOMAIN list = 1..n
  BY LenProperties
<1>2. PICK L : L = [k \in DOMAIN list |-> IF k \in P THEN <<list[k]>> ELSE <<>>]
  OBVIOUS
<1>3. Len(L) = n
  BY <1>1, <1>2
<1>4. Among(list, P) = FlattenSeq(L)
  BY <1>2, Zenon DEF Among
<1>5. CASE n = 0
  <2>1. FlattenSeq(L) = L /\ L = <<>>
    BY <1>1, <1>2, <1>3, <1>5 DEF FlattenSeq
  <2>2. PICK e : e = <<>>
    OBVIOUS
  <2>3. e \in Seq(1..Len(list)) /\ Len(e) = 0 /\ <<>> \in Seq(S) /\ Len(<<>>) = 0
    BY <2>2
  <2>4. Takes(e, <<>>, list, P)
    BY <1>1, <1>5, <2>3 DEF Takes
  <2>5. QED
    BY <1>4, <2>1, <2>3, <2>4
<1>6. CASE n # 0
  <2>1. PICK f : FlattensBy(f, L)
    BY <1>3, <1>6, FlattenIs
  <2>2. /\ f[1] = L[1] /\ FlattenSeq(L) = f[n]
        /\ \A i \in 2..n : f[i] = f[i - 1] \o L[i]
    BY <1>3, <2>1 DEF FlattensBy
  <2> DEFINE Picks(e, A, m) ==
                /\ A \in Seq(S) /\ e \in Seq(1..m) /\ Len(A) = Len(e)
                /\ \A j \in 1..Len(e) : A[j] = list[e[j]] /\ e[j] \in P
                /\ \A j, l \in 1..Len(e) : j < l => e[j] < e[l]
                /\ \A k \in 1..m : k \in P => \E j \in 1..Len(e) : e[j] = k
             U == {m \in 0..n : m = 0 \/ \E e : Picks(e, f[m], m)}
  <2>3. ASSUME NEW m \in 1..n, NEW A, NEW e, Picks(e, A, m - 1)
        PROVE  \E d : Picks(d, A \o L[m], m)
    <3>0. list[m] \in S /\ m - 1 \in Nat
      BY <1>1
    <3>1. CASE m \notin P
      <4>1. L[m] = <<>>
        BY <1>1, <1>2, <3>1
      <4>2. A \o L[m] = A
        <5>1. A \in Seq(S)
          BY <2>3
        <5>2. QED
          BY <4>1, <5>1, ConcatEmptySeq
      <4>3. e \in Seq(1..m)
        <5>1. e \in Seq(1..(m - 1))
          BY <2>3
        <5>2. 1..(m - 1) \subseteq 1..m
          OBVIOUS
        <5>3. QED
          BY <5>1, <5>2
      <4>4. \A k \in 1..m : k \in P => \E j \in 1..Len(e) : e[j] = k
        <5>1. SUFFICES ASSUME NEW k \in 1..m, k \in P PROVE \E j \in 1..Len(e) : e[j] = k
          OBVIOUS
        <5>2. k \in 1..(m - 1)
          BY <3>1, <5>1
        <5>3. QED
          BY <2>3, <5>1, <5>2
      <4>5. Picks(e, A, m)
        BY <2>3, <4>3, <4>4
      <4> HIDE DEF Picks
      <4>6. QED
        BY <4>2, <4>5
    <3>2. CASE m \in P
      <4>1. L[m] = <<list[m]>>
        BY <1>1, <1>2, <3>2
      <4>2. PICK B : B = Append(A, list[m])
        OBVIOUS
      <4>3. A \in Seq(S) /\ e \in Seq(1..(m - 1)) /\ Len(A) = Len(e)
        BY <2>3
      <4>4. A \o L[m] = B
        BY <3>0, <4>1, <4>2, <4>3, AppendIsConcat
      <4>5. PICK d : d = Append(e, m)
        OBVIOUS
      <4>6. PICK l \in Nat : l = Len(e)
        BY <4>3, LenProperties
      <4>7. /\ B \in Seq(S) /\ Len(B) = l + 1 /\ B[l + 1] = list[m]
            /\ \A j \in 1..l : B[j] = A[j]
        BY <3>0, <4>2, <4>3, <4>6, AppendProperties
      <4>8. /\ d \in Seq(1..m) /\ Len(d) = l + 1 /\ d[l + 1] = m
            /\ \A j \in 1..l : d[j] = e[j] /\ e[j] \in 1..(m - 1)
        <5>1. 1..(m - 1) \subseteq 1..m /\ m \in 1..m
          OBVIOUS
        <5>2. e \in Seq(1..m)
          BY <4>3, <5>1
        <5>3. \A j \in 1..l : e[j] \in 1..(m - 1)
          BY <4>3, <4>6
        <5>4. QED
          BY <4>5, <4>6, <5>1, <5>2, <5>3, AppendProperties
      <4>9. ASSUME NEW j \in 1..Len(d) PROVE B[j] = list[d[j]] /\ d[j] \in P
        <5>1. CASE j = l + 1
          BY <3>2, <4>7, <4>8, <5>1
        <5>2. CASE j # l + 1
          <6>1. j \in 1..l /\ j \in 1..Len(e)
            BY <4>6, <4>8, <5>2
          <6>2. A[j] = list[e[j]] /\ e[j] \in P
            BY <2>3, <6>1
          <6>3. QED
            BY <4>7, <4>8, <6>1, <6>2
        <5>3. QED
          BY <5>1, <5>2
      <4>10. ASSUME NEW j \in 1..Len(d), NEW i \in 1..Len(d), j < i PROVE d[j] < d[i]
        <5>1. j \in 1..l
          BY <4>8, <4>10
        <5>2. CASE i = l + 1
          BY <4>8, <5>1, <5>2
        <5>3. CASE i # l + 1
          <6>0. i \in 1..(l + 1)
            BY <4>8
          <6>1. i \in 1..l /\ i \in 1..Len(e) /\ j \in 1..Len(e)
            BY <4>6, <5>1, <5>3, <6>0
          <6>2. e[j] < e[i]
            BY <2>3, <4>10, <6>1
          <6>3. QED
            BY <4>8, <5>1, <6>1, <6>2
        <5>4. QED
          BY <5>2, <5>3
      <4>11. ASSUME NEW k \in 1..m, k \in P PROVE \E j \in 1..Len(d) : d[j] = k
        <5>1. CASE k = m
          <6>1. l + 1 \in 1..Len(d) /\ d[l + 1] = k
            BY <4>8, <5>1
          <6>2. QED
            BY <6>1
        <5>2. CASE k # m
          <6>1. k \in 1..(m - 1)
            BY <5>2
          <6>2. PICK j \in 1..Len(e) : e[j] = k
            BY <2>3, <4>11, <6>1
          <6>3. j \in 1..Len(d) /\ d[j] = k
            BY <4>6, <4>8, <6>2
          <6>4. QED
            BY <6>3
        <5>3. QED
          BY <5>1, <5>2
      <4>12. Picks(d, B, m)
        BY <4>7, <4>8, <4>9, <4>10, <4>11
      <4> HIDE DEF Picks
      <4>13. QED
        BY <4>4, <4>12
    <3>3. QED
      BY <3>1, <3>2
  <2>4. 0 \in U
    OBVIOUS
  <2>5. ASSUME NEW i \in 0..n, i < n, i \in U PROVE i + 1 \in U
    <3>1. i + 1 \in 1..n /\ i + 1 \in 0..n /\ (i + 1) - 1 = i
      BY <2>5
    <3>2. CASE i = 0
      <4>1. PICK e : e = <<>>
        OBVIOUS
      <4>2. e \in Seq(1..(1 - 1)) /\ Len(e) = 0 /\ e \in Seq(S)
        BY <4>1
      <4>3. Picks(e, e, 1 - 1)
        BY <4>2
      <4> HIDE DEF Picks
      <4>4. 1 \in 1..n
        BY <3>1, <3>2
      <4>5. \E d : Picks(d, e \o L[1], 1)
        BY <2>3, <4>3, <4>4
      <4>6. e \o L[1] = L[1]
        <5>1. L[1] = <<list[1]>> \/ L[1] = <<>>
          BY <1>1, <1>2, <4>4
        <5>2. list[1] \in S
          BY <1>1, <4>4
        <5>3. L[1] \in Seq(S)
          <6>1. <<list[1]>> \in Seq(S)
            BY ONLY <5>2
          <6>2. <<>> \in Seq(S)
            OBVIOUS
          <6>3. QED
            BY <5>1, <6>1, <6>2
        <5>4. QED
          BY <4>1, <5>3, ConcatEmptySeq
      <4>7. \E d : Picks(d, f[1], 1)
        BY <2>2, <4>5, <4>6
      <4>8. QED
        BY <3>1, <3>2, <4>7
    <3>3. CASE i # 0
      <4> HIDE DEF Picks
      <4>1. PICK e : Picks(e, f[i], i)
        BY <2>5, <3>3
      <4>2. \E d : Picks(d, f[i] \o L[i + 1], i + 1)
        BY <2>3, <3>1, <4>1
      <4>3. i + 1 \in 2..n
        BY <3>1, <3>3
      <4>4. f[i + 1] = f[i] \o L[i + 1]
        BY <2>2, <3>1, <4>3
      <4>5. QED
        BY <3>1, <4>2, <4>4
    <3>4. QED
      BY <3>2, <3>3
  <2>6. n \in U
    <3>1. n \in 0..n
      OBVIOUS
    <3> HIDE DEF U
    <3>2. QED
      BY <2>4, <2>5, <3>1, Ascent
  <2>7. PICK e : Picks(e, f[n], n)
    <3> HIDE DEF Picks
    <3> QED BY <1>6, <2>6
  <2>8. f[n] \in Seq(S) /\ Takes(e, f[n], list, P)
    BY <1>1, <2>7 DEF Takes
  <2>9. QED
    BY <1>4, <2>2, <2>8
<1>7. QED
  BY <1>5, <1>6

\* Places come in the order of the file, each once.
LEMMA InTurnIs ==
    ASSUME NEW F \in Seq(Row), NEW P
    PROVE  LET A == InTurn(F, P)
           IN  /\ A \in Seq(1..Len(F))
               /\ \A j \in 1..Len(A) : A[j] \in P
               /\ \A j, l \in 1..Len(A) : j < l => A[j] < A[l]
               /\ \A p \in 1..Len(F) : p \in P => \E j \in 1..Len(A) : A[j] = p
<1>1. PICK n \in Nat : n = Len(F) /\ DOMAIN F = 1..n
  BY LenProperties
<1>2. PICK list : list = [p \in DOMAIN F |-> p]
  OBVIOUS
<1>3. list \in Seq(1..n) /\ Len(list) = n /\ \A p \in 1..n : list[p] = p
  BY <1>1, <1>2
<1>4. PICK A : A = Among(list, P)
  OBVIOUS
<1>5. A \in Seq(1..n) /\ \E e : Takes(e, A, list, P)
  BY <1>3, <1>4, AmongIs
<1>6. PICK e : Takes(e, A, list, P)
  BY <1>5
<1>7. PICK l \in Nat : l = Len(A)
  BY <1>5, LenProperties
<1>8. /\ e \in Seq(1..n) /\ Len(e) = l
      /\ \A j \in 1..l : A[j] = list[e[j]] /\ e[j] \in P
      /\ \A j, i \in 1..l : j < i => e[j] < e[i]
      /\ \A k \in 1..n : k \in P => \E j \in 1..l : e[j] = k
  BY <1>3, <1>6, <1>7 DEF Takes
<1>9. \A j \in 1..l : e[j] \in 1..n
  BY <1>8
<1>10. \A j \in 1..l : A[j] = e[j]
  BY <1>3, <1>8, <1>9
<1>11. A = InTurn(F, P)
  BY <1>2, <1>4, Zenon DEF InTurn
<1>12. /\ \A j \in 1..l : A[j] \in P
       /\ \A j, i \in 1..l : j < i => A[j] < A[i]
       /\ \A p \in 1..n : p \in P => \E j \in 1..l : A[j] = p
  BY <1>8, <1>10
<1>13. QED
  BY <1>1, <1>5, <1>7, <1>11, <1>12

\* The length of some paragraphs is counted one by one.
JoinsBy(f, F, places) ==
    /\ f[0] = -1 /\ JoinedLength(F, places) = f[Len(places)]
    /\ \A i \in 1..Len(places) : f[i] = f[i - 1] + F[places[i]].text + 1

\* That count has a value.
LEMMA JoiningIs ==
    ASSUME NEW F \in Seq(Row), NEW places \in Seq(1..Len(F))
    PROVE  \E f \in [0..Len(places) -> Int] : JoinsBy(f, F, places)
<1> DEFINE n == Len(places)
           step(a, p) == a + F[p].text + 1
           Counts(it) == it = [s \in SUBSET DOMAIN places |->
                                 IF s = {} THEN -1
                                 ELSE step(it[s \ {Max(s)}], places[Max(s)])]
           G == [p \in Int \X (1..n) |-> step(p[1], places[p[2]])]
<1>1. n \in Nat /\ DOMAIN places = 1..n
  BY LenProperties
<1>2. \A i \in 1..n : F[places[i]].text \in Nat
  <2>1. \A i \in 1..n : places[i] \in 1..Len(F)
    BY <1>1
  <2>2. QED
    BY <2>1, RowAt
<1>3. ASSUME NEW a \in Int, NEW i \in 1..n PROVE step(a, places[i]) \in Int
  <2>1. PICK t \in Nat : t = F[places[i]].text
    BY <1>2
  <2>2. a + t + 1 \in Int
    OBVIOUS
  <2>3. QED
    BY <2>1, <2>2
<1>4. G \in [Int \X (1..n) -> Int]
  <2>1. \A p \in Int \X (1..n) : step(p[1], places[p[2]]) \in Int
    <3> HIDE DEF step
    <3> QED BY <1>3
  <2> HIDE DEF step
  <2>2. QED
    BY <2>1
<1> HIDE DEF step
<1>5. \A a \in Int, i \in 1..n : G[<<a, i>>] = step(a, places[i])
  OBVIOUS
<1>6. PICK base \in Int : base = -1
  OBVIOUS
<1> HIDE DEF G
<1>7. PICK h \in [SUBSET (1..n) -> Int] : Recurs(h, n, base, G)
  <2> HIDE DEF n
  <2> QED BY <1>1, <1>4, FoldExists
<1>8. ASSUME NEW s \in SUBSET (1..n), s # {}
      PROVE  h[s] = step(h[s \ {Max(s)}], places[Max(s)])
  <2>1. Max(s) \in 1..n
    BY <1>1, <1>8, Greatest
  <2>2. h[s \ {Max(s)}] \in Int
    OBVIOUS
  <2>3. QED
    BY <1>5, <1>7, <1>8, <2>1, <2>2 DEF Recurs
<1>9. Counts(h)
  <2>1. h = [s \in SUBSET (1..n) |-> h[s]]
    OBVIOUS
  <2>2. ASSUME NEW s \in SUBSET (1..n)
        PROVE  h[s] = IF s = {} THEN -1 ELSE step(h[s \ {Max(s)}], places[Max(s)])
    BY <1>6, <1>7, <1>8 DEF Recurs
  <2>3. h = [s \in SUBSET (1..n) |->
               IF s = {} THEN -1 ELSE step(h[s \ {Max(s)}], places[Max(s)])]
    <3> HIDE DEF n
    <3> QED BY <2>1, <2>2
  <2>4. QED
    BY <1>1, <2>3, Zenon
<1>10. PICK it : it = CHOOSE g : Counts(g)
  OBVIOUS
<1>11. Counts(it)
  <2> HIDE DEF Counts
  <2> QED BY <1>9, <1>10, Zenon
<1>12. JoinedLength(F, places) = it[1..n]
  <2>1. JoinedLength(F, places) = it[DOMAIN places]
    BY <1>10, Zenon DEF step, JoinedLength, FoldLeft, MapThenFoldSet
  <2>2. QED
    BY <1>1, <2>1, Zenon
<1> DEFINE f == [i \in 0..n |-> it[1..i]]
<1>13. f[0] = -1
  <2>1. 1..0 = {} /\ 0 \in 0..n
    BY <1>1
  <2>2. it[{}] = -1
    BY <1>11
  <2>3. QED
    BY <2>1, <2>2
<1>14. ASSUME NEW i \in 1..n PROVE f[i] = f[i - 1] + F[places[i]].text + 1
  <2>1. 1..i \in SUBSET (1..n) /\ i \in 0..n /\ i - 1 \in 0..n /\ i \in Nat /\ i # 0
    BY <1>1
  <2>2. Max(1..i) = i /\ (1..i) \ {Max(1..i)} = 1..(i - 1) /\ 1..i # {}
    BY <2>1, GreatestOfFirst
  <2>3. it[1..i] = step(it[(1..i) \ {Max(1..i)}], places[Max(1..i)])
    BY <1>1, <1>11, <2>1, <2>2
  <2>4. it[1..i] = step(it[1..(i - 1)], places[i])
    BY <2>2, <2>3
  <2>5. QED
    BY <2>1, <2>4 DEF step
<1>15. \A i \in 0..n : f[i] \in Int
  <2> DEFINE S == {i \in 0..n : f[i] \in Int}
  <2>1. 0 \in S
    BY <1>1, <1>13
  <2>2. ASSUME NEW i \in 0..n, i < n, i \in S PROVE i + 1 \in S
    <3>1. i + 1 \in 1..n /\ i + 1 \in 0..n /\ (i + 1) - 1 = i /\ f[i] \in Int
      BY <1>1, <2>2
    <3> HIDE DEF f
    <3>2. f[i + 1] = f[i] + F[places[i + 1]].text + 1
      BY <1>14, <3>1
    <3>3. QED
      BY <1>2, <3>1, <3>2
  <2>3. \A i \in 0..n : i \in S
    <3> HIDE DEF S
    <3> QED BY <1>1, <2>1, <2>2, Ascent
  <2>4. QED
    BY <2>3
<1>16. f \in [0..n -> Int]
  <2>1. f = [i \in 0..n |-> f[i]]
    OBVIOUS
  <2> HIDE DEF f
  <2>2. QED
    BY <1>15, <2>1
<1>17. JoinedLength(F, places) = f[n]
  BY <1>1, <1>12
<1>18. QED
  <2> HIDE DEF f
  <2>1. JoinsBy(f, F, places)
    BY <1>13, <1>14, <1>17 DEF JoinsBy
  <2>2. QED
    BY <1>16, <2>1

\* Joined paragraphs are at least as long as each of them.
LEMMA JoinedLengthIs ==
    ASSUME NEW F \in Seq(Row), NEW places \in Seq(1..Len(F))
    PROVE  /\ JoinedLength(F, places) \in Int
           /\ places = <<>> => JoinedLength(F, places) = -1
           /\ \A j \in 1..Len(places) : JoinedLength(F, places) >= F[places[j]].text
           /\ places # <<>> => JoinedLength(F, places) >= 0
<1>1. PICK n \in Nat : n = Len(places)
  BY LenProperties
<1>2. PICK f \in [0..n -> Int] : JoinsBy(f, F, places)
  BY <1>1, JoiningIs
<1>3. /\ f[0] = -1 /\ JoinedLength(F, places) = f[n]
      /\ \A i \in 1..n : f[i] = f[i - 1] + F[places[i]].text + 1
  BY <1>1, <1>2 DEF JoinsBy
<1>4. \A i \in 1..n : F[places[i]].text \in Nat
  <2>1. \A i \in 1..n : places[i] \in 1..Len(F)
    BY <1>1
  <2>2. QED
    BY <2>1, RowAt
<1> DEFINE S == {i \in 0..n : f[i] >= -1 /\ \A j \in 1..i : f[i] >= F[places[j]].text}
<1>5. 0 \in S
  BY <1>3
<1>6. ASSUME NEW i \in 0..n, i < n, i \in S PROVE i + 1 \in S
  <2>1. i + 1 \in 1..n /\ i + 1 \in 0..n /\ (i + 1) - 1 = i /\ f[i] >= -1
    BY <1>6
  <2>2. PICK t \in Nat : t = F[places[i + 1]].text
    BY <1>4, <2>1
  <2>3. PICK a \in Int : a = f[i]
    BY <1>6
  <2>4. PICK b \in Int : b = f[i + 1]
    BY <2>1
  <2>5. b = a + t + 1 /\ a >= -1
    BY <1>3, <2>1, <2>2, <2>3, <2>4
  <2>6. b >= -1 /\ b >= t /\ b >= a
    BY <2>5
  <2>7. ASSUME NEW j \in 1..(i + 1) PROVE b >= F[places[j]].text
    <3>1. CASE j = i + 1
      BY <2>2, <2>6, <3>1
    <3>2. CASE j # i + 1
      <4>1. j \in 1..i /\ j \in 1..n
        BY <1>6, <3>2
      <4>2. PICK u \in Nat : u = F[places[j]].text
        BY <1>4, <4>1
      <4>3. a >= u
        BY <1>6, <2>3, <4>1, <4>2
      <4>4. b >= u
        BY ONLY <2>6, <4>3, a \in Int, b \in Int, u \in Nat
      <4>5. QED
        BY <4>2, <4>4
    <3>3. QED
      BY <3>1, <3>2
  <2>8. QED
    BY <2>1, <2>4, <2>6, <2>7
<1>7. n \in S
  <2>1. n \in 0..n
    OBVIOUS
  <2> HIDE DEF S
  <2>2. QED
    BY <1>5, <1>6, <2>1, Ascent
<1>8. PICK b \in Int : b = f[n]
  OBVIOUS
<1>9. \A j \in 1..n : b >= F[places[j]].text
  BY <1>7, <1>8
<1>10. places = <<>> => b = -1
  BY <1>1, <1>3, <1>8
<1>11. places # <<>> => b >= 0
  <2>1. SUFFICES ASSUME places # <<>> PROVE b >= 0
    OBVIOUS
  <2>2. 1 \in 1..n
    BY <1>1, <2>1, EmptySeq, LenProperties
  <2>3. PICK u \in Nat : u = F[places[1]].text
    BY <1>4, <2>2
  <2>4. b >= u
    BY <1>9, <2>2, <2>3
  <2>5. QED
    BY <2>4
<1>12. QED
  BY <1>1, <1>3, <1>8, <1>9, <1>10, <1>11

\* A clause has no negative length.
LEMMA BodyLengthIs ==
    ASSUME NEW F \in Seq(Row), NEW heading \in 0..Len(F), NEW body \in Seq(1..Len(F)),
           ~ (heading = 0 /\ body = <<>>)
    PROVE  BodyLength(F, heading, body) \in Nat
<1>1. CASE body = <<>>
  <2>1. heading \in 1..Len(F)
    BY <1>1
  <2>2. F[heading].title \in Nat
    BY <2>1, RowAt
  <2>3. QED
    BY <1>1, <2>2 DEF BodyLength
<1>2. CASE body # <<>>
  <2>1. PICK b \in Int : b = JoinedLength(F, body)
    BY JoinedLengthIs
  <2>2. b >= 0
    BY <1>2, <2>1, JoinedLengthIs
  <2>3. QED
    BY <1>2, <2>1, <2>2 DEF BodyLength
<1>3. QED
  BY <1>1, <1>2

\* What is added to a sequence is added to its elements.
LEMMA RangeAppend ==
    ASSUME NEW S, NEW s \in Seq(S), NEW x \in S
    PROVE  Range(Append(s, x)) = Range(s) \cup {x}
<1>1. PICK n \in Nat : n = Len(s) /\ DOMAIN s = 1..n
  BY LenProperties
<1>2. PICK t \in Seq(S) : t = Append(s, x)
  BY AppendProperties
<1>3. Len(t) = n + 1 /\ t[n + 1] = x /\ \A i \in 1..n : t[i] = s[i]
  BY <1>1, <1>2, AppendProperties
<1>4. DOMAIN t = 1..(n + 1)
  BY <1>2, <1>3, LenProperties
<1>5. Range(t) \subseteq Range(s) \cup {x}
  <2>1. SUFFICES ASSUME NEW i \in 1..(n + 1) PROVE t[i] \in Range(s) \cup {x}
    BY <1>4 DEF Range
  <2>2. CASE i = n + 1
    BY <1>3, <2>2
  <2>3. CASE i # n + 1
    <3>1. i \in 1..n
      BY <2>3
    <3>2. QED
      BY <1>1, <1>3, <3>1 DEF Range
  <2>4. QED
    BY <2>2, <2>3
<1>6. Range(s) \subseteq Range(t)
  <2>1. SUFFICES ASSUME NEW i \in 1..n PROVE s[i] \in Range(t)
    BY <1>1 DEF Range
  <2>2. i \in 1..(n + 1) /\ t[i] = s[i]
    BY <1>3
  <2>3. QED
    BY <1>4, <2>2 DEF Range
<1>7. x \in Range(t)
  <2>1. n + 1 \in 1..(n + 1)
    OBVIOUS
  <2>2. QED
    BY <1>3, <1>4, <2>1 DEF Range
<1>8. QED
  BY <1>2, <1>5, <1>6, <1>7

\* The elements of the shortest sequences.
LEMMA RangeFew ==
    ASSUME NEW x
    PROVE  Range(<<>>) = {} /\ Range(<<x>>) = {x}
<1>1. DOMAIN <<>> = {} /\ DOMAIN <<x>> = {1} /\ <<x>>[1] = x
  OBVIOUS
<1>2. QED
  BY <1>1 DEF Range

\* Elements of a sequence have places in it.
LEMMA RangeIs ==
    ASSUME NEW S, NEW s \in Seq(S)
    PROVE  /\ Range(s) \subseteq S
           /\ \A p : p \in Range(s) <=> \E j \in 1..Len(s) : s[j] = p
<1>1. DOMAIN s = 1..Len(s)
  BY LenProperties
<1>2. \A j \in 1..Len(s) : s[j] \in S
  OBVIOUS
<1>3. QED
  BY <1>1, <1>2 DEF Range

\* FlattenSeq of some sequences and one more.
LEMMA FlattenMore ==
    ASSUME NEW S, NEW L \in Seq(Seq(S)), NEW x \in Seq(S)
    PROVE  /\ FlattenSeq(L) \in Seq(S) /\ (L = <<>> => FlattenSeq(L) = <<>>)
           /\ FlattenSeq(Append(L, x)) = FlattenSeq(L) \o x
<1>1. PICK n \in Nat : n = Len(L) /\ DOMAIN L = 1..n
  BY LenProperties
<1>2. PICK M : M = Append(L, x)
  OBVIOUS
<1>3. /\ M \in Seq(Seq(S)) /\ Len(M) = n + 1 /\ M[n + 1] = x
      /\ \A i \in 1..n : M[i] = L[i]
  BY <1>1, <1>2, AppendProperties
<1>4. PICK g : FlattensBy(g, M)
  <2>1. Len(M) \in Nat /\ Len(M) # 0
    BY <1>3
  <2>2. \E g : FlattensBy(g, M)
    BY <2>1, FlattenIs
  <2>3. QED
    BY <2>2
<1>5. /\ g[1] = M[1] /\ FlattenSeq(M) = g[n + 1]
      /\ \A i \in 2..(n + 1) : g[i] = g[i - 1] \o M[i]
  BY <1>3, <1>4 DEF FlattensBy
<1>6. CASE n = 0
  <2>1. L = <<>>
    BY <1>1, <1>6, EmptySeq
  <2>2. FlattenSeq(L) = L
    BY <1>1, <2>1, <1>6 DEF FlattenSeq
  <2>3. FlattenSeq(M) = x
    BY <1>3, <1>5, <1>6
  <2>4. <<>> \o x = x
    BY ConcatEmptySeq
  <2>5. <<>> \in Seq(S)
    OBVIOUS
  <2>6. QED
    BY <1>2, <2>1, <2>2, <2>3, <2>4, <2>5
<1>7. CASE n # 0
  <2>1. PICK f : FlattensBy(f, L)
    BY <1>1, <1>7, FlattenIs
  <2>2. /\ f[1] = L[1] /\ FlattenSeq(L) = f[n]
        /\ \A i \in 2..n : f[i] = f[i - 1] \o L[i]
    BY <1>1, <2>1 DEF FlattensBy
  <2> DEFINE U == {i \in 0..n : i = 0 \/ (g[i] = f[i] /\ f[i] \in Seq(S))}
  <2>3. 0 \in U
    <3>1. 0 \in 0..n
      BY ONLY n \in Nat
    <3>2. QED
      BY <3>1
  <2>4. ASSUME NEW i \in 0..n, i < n, i \in U PROVE i + 1 \in U
    <3>1. i + 1 \in 1..n /\ i + 1 \in 0..n /\ (i + 1) - 1 = i /\ i + 1 \in 1..(n + 1)
      BY <2>4
    <3>2. L[i + 1] \in Seq(S) /\ M[i + 1] = L[i + 1]
      BY <1>1, <1>3, <3>1
    <3>3. CASE i = 0
      BY <1>5, <2>2, <3>1, <3>2, <3>3
    <3>4. CASE i # 0
      <4>1. g[i] = f[i] /\ f[i] \in Seq(S) /\ i + 1 \in 2..n /\ i + 1 \in 2..(n + 1)
        BY <2>4, <3>1, <3>4
      <4>2. f[i + 1] = f[i] \o L[i + 1] /\ g[i + 1] = g[i] \o L[i + 1]
        BY <1>5, <2>2, <3>1, <3>2, <4>1
      <4>3. f[i] \o L[i + 1] \in Seq(S)
        BY <3>2, <4>1, ConcatProperties
      <4>4. QED
        BY <3>1, <4>1, <4>2, <4>3
    <3>5. QED
      BY <3>3, <3>4
  <2>5. n \in U
    <3>1. n \in 0..n
      OBVIOUS
    <3> HIDE DEF U
    <3>2. QED
      BY <2>3, <2>4, <3>1, Ascent
  <2>6. g[n] = f[n] /\ f[n] \in Seq(S)
    BY <1>7, <2>5
  <2>7. n + 1 \in 2..(n + 1) /\ (n + 1) - 1 = n
    BY <1>7
  <2>8. g[n + 1] = g[n] \o x
    BY <1>3, <1>5, <2>7
  <2>9. L # <<>>
    BY <1>1, <1>7
  <2>10. QED
    BY <1>2, <1>5, <2>2, <2>6, <2>8, <2>9
<1>8. QED
  BY <1>6, <1>7

\* Clauses that a parser has made, and what it keeps while it makes them, of a
\* file of n paragraphs or lines.
Parsed(n) == [heading : 0..n, body : Seq(1..n), index : Int, changes : SUBSET STRING,
              start : Int, end : Int]

Gathering(n) == [heading : 0..n, body : Seq(1..n), index : Int, changes : SUBSET STRING,
                 cursor : Int, out : Seq(Parsed(n))]

\* What a clause has.
LEMMA ParsedFields ==
    ASSUME NEW n \in Nat, NEW c \in Parsed(n)
    PROVE  /\ c.heading \in 0..n /\ c.body \in Seq(1..n) /\ c.index \in Int
           /\ c.changes \in SUBSET STRING /\ c.start \in Int /\ c.end \in Int
BY DEF Parsed

\* What a parser keeps.
LEMMA GatheringFields ==
    ASSUME NEW n \in Nat, NEW acc \in Gathering(n)
    PROVE  /\ acc.heading \in 0..n /\ acc.body \in Seq(1..n) /\ acc.index \in Int
           /\ acc.changes \in SUBSET STRING /\ acc.cursor \in Int /\ acc.out \in Seq(Parsed(n))
BY DEF Gathering

\* The paragraphs of a clause are paragraphs of the file.
LEMMA SourcesAre ==
    ASSUME NEW n \in Nat, NEW c, c.heading \in 0..n, c.body \in Seq(1..n)
    PROVE  Sources(c) \in Seq(1..n)
<1>1. CASE c.heading \in {Nowhere} \cup Range(c.body)
  BY <1>1 DEF Sources
<1>2. CASE c.heading \notin {Nowhere} \cup Range(c.body)
  <2>1. c.heading \in 1..n
    BY <1>2 DEF Nowhere
  <2>2. <<c.heading>> \in Seq(1..n)
    BY ONLY <2>1
  <2>3. <<c.heading>> \o c.body \in Seq(1..n)
    BY <2>2, ConcatProperties
  <2>4. QED
    BY <1>2, <2>3 DEF Sources
<1>3. QED
  BY <1>1, <1>2

\* Where the texts of some clauses come from, one after the other.
SourcesOf(C) == FlattenSeq([k \in DOMAIN C |-> Sources(C[k])])

\* One clause more adds its sources at the end.
LEMMA SourcesMore ==
    ASSUME NEW n \in Nat, NEW C \in Seq(Parsed(n)), NEW c \in Parsed(n)
    PROVE  /\ SourcesOf(C) \in Seq(1..n) /\ (C = <<>> => SourcesOf(C) = <<>>)
           /\ SourcesOf(Append(C, c)) = SourcesOf(C) \o Sources(c)
<1>1. PICK m \in Nat : m = Len(C) /\ DOMAIN C = 1..m
  BY LenProperties
<1>2. PICK D : D = Append(C, c)
  OBVIOUS
<1>3. /\ D \in Seq(Parsed(n)) /\ Len(D) = m + 1 /\ D[m + 1] = c
      /\ \A i \in 1..m : D[i] = C[i]
  BY <1>1, <1>2, AppendProperties
<1>4. DOMAIN D = 1..(m + 1)
  BY <1>3, LenProperties
<1>5. \A i \in 1..m : C[i] \in Parsed(n)
  BY <1>1
<1>6. \A d \in Parsed(n) : Sources(d) \in Seq(1..n)
  BY ParsedFields, SourcesAre
<1>7. PICK L : L = [k \in DOMAIN C |-> Sources(C[k])]
  OBVIOUS
<1>8. L \in Seq(Seq(1..n)) /\ Len(L) = m
  <2>1. \A k \in 1..m : Sources(C[k]) \in Seq(1..n)
    BY <1>5, <1>6
  <2>2. PICK T : T = Seq(1..n)
    OBVIOUS
  <2>3. L = [k \in 1..m |-> Sources(C[k])] /\ \A k \in 1..m : Sources(C[k]) \in T
    BY <1>1, <1>7, <2>1, <2>2
  <2>4. L \in Seq(T) /\ Len(L) = m
    BY ONLY m \in Nat, <2>3
  <2>5. QED
    BY <2>2, <2>4
<1>9. PICK M : M = [k \in DOMAIN D |-> Sources(D[k])]
  OBVIOUS
<1>10. M = Append(L, Sources(c))
  <2>1. PICK T : T = Seq(1..n)
    OBVIOUS
  <2>2. PICK x \in T : x = Sources(c)
    BY <1>6, <2>1
  <2>3. L \in Seq(T)
    BY <1>8, <2>1
  <2>4. PICK A : A = Append(L, x)
    OBVIOUS
  <2>5. A \in Seq(T) /\ Len(A) = m + 1 /\ A[m + 1] = x /\ \A i \in 1..m : A[i] = L[i]
    BY ONLY <2>3, <2>4, <1>8, AppendProperties, x \in T
  <2>6. DOMAIN A = 1..(m + 1) /\ A = [k \in 1..(m + 1) |-> A[k]]
    BY ONLY <2>5, LenProperties
  <2>7. ASSUME NEW k \in 1..(m + 1) PROVE A[k] = Sources(D[k])
    <3>1. CASE k = m + 1
      BY <1>3, <2>2, <2>5, <3>1
    <3>2. CASE k # m + 1
      <4>1. k \in 1..m
        BY <3>2
      <4>2. A[k] = L[k] /\ L[k] = Sources(C[k]) /\ D[k] = C[k]
        BY <1>1, <1>3, <1>7, <2>5, <4>1
      <4>3. QED
        BY <4>2
    <3>3. QED
      BY <3>1, <3>2
  <2>8. A = [k \in 1..(m + 1) |-> Sources(D[k])]
    BY <2>6, <2>7
  <2>9. QED
    BY <1>4, <1>9, <2>2, <2>4, <2>8
<1>11. C = <<>> => L = <<>>
  BY <1>1, <1>8, EmptySeq
<1>12. SourcesOf(C) = FlattenSeq(L) /\ SourcesOf(D) = FlattenSeq(M)
  BY <1>7, <1>9, Zenon DEF SourcesOf
<1>13. Sources(c) \in Seq(1..n)
  BY <1>6
<1>14. /\ FlattenSeq(L) \in Seq(1..n) /\ (L = <<>> => FlattenSeq(L) = <<>>)
       /\ FlattenSeq(Append(L, Sources(c))) = FlattenSeq(L) \o Sources(c)
  BY <1>8, <1>13, FlattenMore
<1>15. QED
  BY <1>2, <1>10, <1>11, <1>12, <1>14

\* The clause that was being read is one, and takes its length.
LEMMA ReadIs ==
    ASSUME NEW F \in Seq(Row), NEW acc \in Gathering(Len(F)),
           ~ (acc.heading = 0 /\ acc.body = <<>>)
    PROVE  LET c == ClauseRead(F, acc)
           IN  /\ c \in Parsed(Len(F)) /\ c.heading = acc.heading /\ c.body = acc.body
               /\ c.index = acc.index /\ c.changes = acc.changes
               /\ c.start = acc.cursor /\ c.end >= c.start
<1>1. PICK n \in Nat : n = Len(F)
  BY LenProperties
<1>2. /\ acc.heading \in 0..n /\ acc.body \in Seq(1..n) /\ acc.index \in Int
      /\ acc.changes \in SUBSET STRING /\ acc.cursor \in Int
  BY <1>1, GatheringFields
<1>3. PICK b \in Nat : b = BodyLength(F, acc.heading, acc.body)
  BY <1>1, <1>2, BodyLengthIs
<1>4. PICK e \in Int : e = acc.cursor + b
  BY <1>2
<1>5. PICK c : c = [heading |-> acc.heading, body |-> acc.body, index |-> acc.index,
                    changes |-> acc.changes, start |-> acc.cursor, end |-> e]
  OBVIOUS
<1>6. c = ClauseRead(F, acc)
  BY <1>3, <1>4, <1>5, Zenon DEF ClauseRead
<1>7. c \in Parsed(n)
  BY <1>2, <1>4, <1>5 DEF Parsed
<1>8. e >= acc.cursor
  BY <1>2, <1>4
<1>9. QED
  BY <1>1, <1>5, <1>6, <1>7, <1>8

\* Flushing adds the clause that was being read, if one was.
LEMMA FlushIs ==
    ASSUME NEW F \in Seq(Row), NEW acc \in Gathering(Len(F))
    PROVE  LET r == Flush(F, acc)
           IN  /\ r \in Gathering(Len(F))
               /\ r.heading = acc.heading /\ r.body = acc.body
               /\ acc.heading = 0 /\ acc.body = <<>> => r = acc
               /\ ~ (acc.heading = 0 /\ acc.body = <<>>) =>
                     /\ r.out = Append(acc.out, ClauseRead(F, acc))
                     /\ r.cursor = ClauseRead(F, acc).end + 1
<1>1. PICK n \in Nat : n = Len(F)
  BY LenProperties
<1>2. CASE acc.heading = 0 /\ acc.body = <<>>
  BY <1>2, Zenon DEF Flush, Nowhere
<1>3. CASE ~ (acc.heading = 0 /\ acc.body = <<>>)
  <2>1. PICK c \in Parsed(n) : c = ClauseRead(F, acc)
    BY <1>1, <1>3, ReadIs
  <2>2. /\ acc.heading \in 0..n /\ acc.body \in Seq(1..n) /\ acc.index \in Int
        /\ acc.changes \in SUBSET STRING /\ acc.cursor \in Int /\ acc.out \in Seq(Parsed(n))
    BY <1>1, GatheringFields
  <2>3. PICK e \in Int : e = c.end + 1
    BY <1>1, ParsedFields
  <2>4. PICK o \in Seq(Parsed(n)) : o = Append(acc.out, c)
    BY <2>2, AppendProperties
  <2>5. PICK r : r = [acc EXCEPT !.cursor = e, !.out = o]
    OBVIOUS
  <2>6. r = Flush(F, acc)
    BY <1>3, <2>1, <2>3, <2>4, <2>5, Zenon DEF Flush, Nowhere
  <2>7. r = [heading |-> acc.heading, body |-> acc.body, index |-> acc.index,
             changes |-> acc.changes, cursor |-> e, out |-> o]
    <3>1. PICK C : C = Parsed(n)
      OBVIOUS
    <3>2. acc \in [heading : 0..n, body : Seq(1..n), index : Int, changes : SUBSET STRING,
                   cursor : Int, out : Seq(C)]
      BY <1>1, <3>1 DEF Gathering
    <3>3. QED
      BY ONLY <2>5, <3>2
  <2>8. r \in Gathering(n)
    <3>1. PICK C : C = Parsed(n)
      OBVIOUS
    <3>2. o \in Seq(C)
      BY <3>1
    <3>3. r \in [heading : 0..n, body : Seq(1..n), index : Int, changes : SUBSET STRING,
                 cursor : Int, out : Seq(C)]
      BY ONLY <2>2, <2>3, <2>7, <3>2, e \in Int
    <3>4. QED
      BY <3>1, <3>3 DEF Gathering
  <2>9. QED
    BY <1>1, <1>3, <2>1, <2>3, <2>4, <2>6, <2>7, <2>8
<1>4. QED
  BY <1>2, <1>3

\* One place read when clauses are grouped under headings, and all of them.
GroupStep(F, headings, index, acc, p) ==
    IF p \in headings
    THEN [Flush(F, acc) EXCEPT !.heading = p, !.body = <<>>, !.index = index[p],
                               !.changes = F[p].changes]
    ELSE [acc EXCEPT !.body = Append(@, p), !.changes = @ \cup F[p].changes]

GroupNone(places, index) ==
    [heading |-> Nowhere, body |-> <<>>, index |-> index[places[1]], changes |-> {},
     cursor |-> 0, out |-> <<>>]

GroupsBy(f, F, places, headings, index) ==
    /\ f[0] = GroupNone(places, index)
    /\ Grouped(F, places, headings, index) = Flush(F, f[Len(places)]).out
    /\ \A i \in 1..Len(places) : f[i] = GroupStep(F, headings, index, f[i - 1], places[i])

\* What a step does to the clause that is being read and to those before it.
GroupStepped(F, headings, index, acc, p, r) ==
    /\ p \in headings =>
          /\ r.heading = p /\ r.body = <<>> /\ r.index = index[p] /\ r.changes = F[p].changes
          /\ r.cursor = Flush(F, acc).cursor /\ r.out = Flush(F, acc).out
    /\ p \notin headings =>
          /\ r.heading = acc.heading /\ r.body = Append(acc.body, p)
          /\ r.index = acc.index /\ r.changes = acc.changes \cup F[p].changes
          /\ r.cursor = acc.cursor /\ r.out = acc.out

\* A step is one of these two, and keeps the types.
LEMMA GroupStepIs ==
    ASSUME NEW F \in Seq(Row), NEW acc \in Gathering(Len(F)), NEW headings,
           NEW index \in [1..Len(F) -> Int], NEW p \in 1..Len(F)
    PROVE  \E r \in Gathering(Len(F)) :
              /\ r = GroupStep(F, headings, index, acc, p)
              /\ GroupStepped(F, headings, index, acc, p, r)
<1>1. PICK n \in Nat : n = Len(F)
  BY LenProperties
<1>2. PICK C : C = Parsed(n)
  OBVIOUS
<1>3. PICK G : G = [heading : 0..n, body : Seq(1..n), index : Int, changes : SUBSET STRING,
                    cursor : Int, out : Seq(C)]
  OBVIOUS
<1>4. G = Gathering(n)
  BY <1>2, <1>3 DEF Gathering
<1>5. PICK h \in SUBSET STRING : h = F[p].changes
  BY RowAt
<1>6. p \in 1..n
  BY <1>1
<1>7. CASE p \in headings
  <2>1. PICK a \in Gathering(n) : a = Flush(F, acc)
    BY <1>1, FlushIs
  <2>2. PICK j \in Int : j = index[p]
    OBVIOUS
  <2>3. PICK r : r = [a EXCEPT !.heading = p, !.body = <<>>, !.index = j, !.changes = h]
    OBVIOUS
  <2>4. r = GroupStep(F, headings, index, acc, p)
    BY <1>5, <1>7, <2>1, <2>2, <2>3, Zenon DEF GroupStep
  <2>5. a \in G
    BY <1>4, <2>1
  <2>6. /\ r \in G /\ r.heading = p /\ r.body = <<>> /\ r.index = j /\ r.changes = h
        /\ r.cursor = a.cursor /\ r.out = a.out
    <3>1. /\ a.heading \in 0..n /\ a.body \in Seq(1..n) /\ a.index \in Int
          /\ a.changes \in SUBSET STRING /\ a.cursor \in Int /\ a.out \in Seq(C)
      BY ONLY <1>3, <2>5
    <3>2. r = [heading |-> p, body |-> <<>>, index |-> j, changes |-> h,
               cursor |-> a.cursor, out |-> a.out]
      BY ONLY <1>3, <2>3, <2>5
    <3>3. p \in 0..n /\ <<>> \in Seq(1..n)
      BY <1>6
    <3>4. r \in G
      BY ONLY <1>3, <3>1, <3>2, <3>3, j \in Int, h \in SUBSET STRING
    <3>5. QED
      BY ONLY <3>2, <3>4
  <2>7. GroupStepped(F, headings, index, acc, p, r)
    BY <1>5, <1>7, <2>1, <2>2, <2>6 DEF GroupStepped
  <2>8. QED
    BY <1>1, <1>4, <2>4, <2>6, <2>7
<1>8. CASE p \notin headings
  <2>1. PICK a : a = acc
    OBVIOUS
  <2>2. a \in G
    BY <1>1, <1>4, <2>1
  <2>3. a.body \in Seq(1..n) /\ a.changes \in SUBSET STRING
    BY <1>1, <2>1, GatheringFields
  <2>4. PICK b \in Seq(1..n) : b = Append(a.body, p)
    BY <1>6, <2>3, AppendProperties
  <2>5. PICK d \in SUBSET STRING : d = a.changes \cup h
    BY <2>3
  <2>6. PICK r : r = [a EXCEPT !.body = b, !.changes = d]
    OBVIOUS
  <2>7. r = GroupStep(F, headings, index, acc, p)
    BY <1>5, <1>8, <2>1, <2>4, <2>5, <2>6, Zenon DEF GroupStep
  <2>8. /\ r \in G /\ r.heading = a.heading /\ r.body = b /\ r.index = a.index /\ r.changes = d
        /\ r.cursor = a.cursor /\ r.out = a.out
    BY ONLY <1>3, <2>2, <2>6, b \in Seq(1..n), d \in SUBSET STRING
  <2>9. GroupStepped(F, headings, index, acc, p, r)
    BY <1>5, <1>8, <2>1, <2>4, <2>5, <2>8 DEF GroupStepped
  <2>10. QED
    BY <1>1, <1>4, <2>7, <2>8, <2>9
<1>9. QED
  BY <1>7, <1>8

\* The places of a file are read one by one when clauses are grouped.
LEMMA GroupingIs ==
    ASSUME NEW F \in Seq(Row), NEW places \in Seq(1..Len(F)), places # <<>>, NEW headings,
           NEW index \in [1..Len(F) -> Int]
    PROVE  \E f : /\ GroupsBy(f, F, places, headings, index)
                  /\ \A i \in 0..Len(places) : f[i] \in Gathering(Len(F))
<1> DEFINE n == Len(places)
           A == Gathering(Len(F))
           step(acc, p) == GroupStep(F, headings, index, acc, p)
           base == GroupNone(places, index)
           Groups(it) == it = [s \in SUBSET DOMAIN places |->
                                 IF s = {} THEN base
                                 ELSE step(it[s \ {Max(s)}], places[Max(s)])]
           G == [q \in A \X (1..n) |-> step(q[1], places[q[2]])]
<1>1. n \in Nat /\ DOMAIN places = 1..n /\ Len(F) \in Nat
  BY LenProperties
<1>2. \A i \in 1..n : places[i] \in 1..Len(F)
  BY <1>1
<1>3. base \in A
  <2>1. 1 \in 1..n
    <3>1. n # 0
      BY EmptySeq
    <3>2. QED
      BY <1>1, <3>1
  <2>2. PICK j \in Int : j = index[places[1]]
    BY <1>2, <2>1
  <2>3. PICK C : C = Parsed(Len(F))
    OBVIOUS
  <2>4. base = [heading |-> 0, body |-> <<>>, index |-> j, changes |-> {},
                cursor |-> 0, out |-> <<>>]
    BY <2>2, Zenon DEF GroupNone, Nowhere
  <2>5. 0 \in 0..Len(F)
    BY <1>1
  <2> HIDE DEF base
  <2>6. base \in [heading : 0..Len(F), body : Seq(1..Len(F)), index : Int,
                  changes : SUBSET STRING, cursor : Int, out : Seq(C)]
    BY ONLY <2>4, <2>5, j \in Int
  <2>7. QED
    BY <2>3, <2>6, Zenon DEF Gathering
<1>4. ASSUME NEW acc \in A, NEW i \in 1..n PROVE step(acc, places[i]) \in A
  <2>1. \E r \in A : r = GroupStep(F, headings, index, acc, places[i])
    BY <1>2, GroupStepIs
  <2>2. QED
    BY <2>1
<1> HIDE DEF step, base
<1>5. G \in [A \X (1..n) -> A]
  <2>1. \A q \in A \X (1..n) : step(q[1], places[q[2]]) \in A
    <3> HIDE DEF A
    <3> QED BY <1>4
  <2> HIDE DEF A
  <2>2. QED
    BY <2>1
<1>6. \A a \in A, i \in 1..n : G[<<a, i>>] = step(a, places[i])
  <2> HIDE DEF A
  <2> QED OBVIOUS
<1> HIDE DEF A, G
<1>7. PICK h \in [SUBSET (1..n) -> A] : Recurs(h, n, base, G)
  BY <1>1, <1>3, <1>5, FoldExists
<1>8. ASSUME NEW s \in SUBSET (1..n), s # {}
      PROVE  h[s] = step(h[s \ {Max(s)}], places[Max(s)])
  <2>1. Max(s) \in 1..n
    BY <1>1, <1>8, Greatest
  <2>2. h[s \ {Max(s)}] \in A
    OBVIOUS
  <2>3. QED
    BY <1>6, <1>7, <1>8, <2>1, <2>2 DEF Recurs
<1>9. Groups(h)
  <2>1. h = [s \in SUBSET (1..n) |-> h[s]]
    OBVIOUS
  <2>2. ASSUME NEW s \in SUBSET (1..n)
        PROVE  h[s] = IF s = {} THEN base ELSE step(h[s \ {Max(s)}], places[Max(s)])
    BY <1>7, <1>8 DEF Recurs
  <2>3. h = [s \in SUBSET (1..n) |->
               IF s = {} THEN base ELSE step(h[s \ {Max(s)}], places[Max(s)])]
    <3> HIDE DEF n
    <3> QED BY <2>1, <2>2
  <2>4. QED
    BY <1>1, <2>3, Zenon
<1>10. PICK it : it = CHOOSE g : Groups(g)
  OBVIOUS
<1>11. Groups(it)
  <2> HIDE DEF Groups
  <2> QED BY <1>9, <1>10, Zenon
<1>12. Grouped(F, places, headings, index) = Flush(F, it[1..n]).out
  <2>1. Grouped(F, places, headings, index) = Flush(F, it[DOMAIN places]).out
    BY <1>10, Zenon DEF step, base, GroupStep, GroupNone, Grouped, FoldLeft, MapThenFoldSet
  <2>2. QED
    BY <1>1, <2>1, Zenon
<1> DEFINE f == [i \in 0..n |-> it[1..i]]
<1>13. f[0] = base
  <2>1. 1..0 = {} /\ 0 \in 0..n
    BY <1>1
  <2>2. it[{}] = base
    BY <1>11
  <2>3. QED
    BY <2>1, <2>2
<1>14. ASSUME NEW i \in 1..n PROVE f[i] = step(f[i - 1], places[i])
  <2>1. 1..i \in SUBSET (1..n) /\ i \in 0..n /\ i - 1 \in 0..n /\ i \in Nat /\ i # 0
    BY <1>1
  <2>2. Max(1..i) = i /\ (1..i) \ {Max(1..i)} = 1..(i - 1) /\ 1..i # {}
    BY <2>1, GreatestOfFirst
  <2>3. it[1..i] = step(it[(1..i) \ {Max(1..i)}], places[Max(1..i)])
    BY <1>1, <1>11, <2>1, <2>2
  <2>4. it[1..i] = step(it[1..(i - 1)], places[i])
    BY <2>2, <2>3
  <2>5. QED
    BY <2>1, <2>4
<1>15. Grouped(F, places, headings, index) = Flush(F, f[n]).out
  BY <1>1, <1>12
<1>16. ASSUME NEW i \in 0..n PROVE f[i] \in A
  <2> DEFINE S == {k \in 0..n : f[k] \in A}
  <2>1. 0 \in S
    BY <1>1, <1>3, <1>13
  <2>2. ASSUME NEW k \in 0..n, k < n, k \in S PROVE k + 1 \in S
    <3>1. k + 1 \in 1..n /\ k + 1 \in 0..n /\ (k + 1) - 1 = k /\ f[k] \in A
      BY <1>1, <2>2
    <3> HIDE DEF f
    <3>2. f[k + 1] = step(f[k], places[k + 1])
      BY <1>14, <3>1
    <3>3. QED
      BY <1>4, <3>1, <3>2
  <2>3. \A k \in 0..n : k \in S
    <3> HIDE DEF S
    <3> QED BY <1>1, <2>1, <2>2, Ascent
  <2>4. QED
    BY <2>3
<1>17. QED
  <2> HIDE DEF f, n
  <2>1. /\ f[0] = base /\ Grouped(F, places, headings, index) = Flush(F, f[n]).out
        /\ \A i \in 1..n : f[i] = step(f[i - 1], places[i])
    BY <1>13, <1>14, <1>15
  <2>2. GroupsBy(f, F, places, headings, index)
    BY <2>1, Zenon DEF step, base, n, GroupsBy
  <2>3. \A i \in 0..n : f[i] \in A
    BY <1>16
  <2>4. QED
    BY <2>2, <2>3 DEF A, n

\* Each clause is behind those before it, as far as their numbers say.
Ranked(C) ==
    \A k, l \in 1..Len(C) : k < l => C[l].start > C[k].end /\ C[l].index > C[k].index

\* A clause has the tracked changes of its paragraphs.
Owned(F, C) ==
    \A k \in 1..Len(C) : C[k].changes = UNION {F[p].changes : p \in Range(Sources(C[k]))}

\* What is in some clause's body; and bodies lie one behind the other.
Bodies(C) == UNION {Range(C[k].body) : k \in 1..Len(C)}
InLine(C) ==
    \A k, l \in 1..Len(C) : k < l => \A p \in Range(C[k].body), q \in Range(C[l].body) : p < q

\* These pass on to one clause more.
LEMMA RankedMore ==
    ASSUME NEW n \in Nat, NEW C \in Seq(Parsed(n)), NEW c \in Parsed(n), Ranked(C),
           \A k \in 1..Len(C) : c.start > C[k].end /\ c.index > C[k].index
    PROVE  Ranked(Append(C, c))
<1>1. PICK m \in Nat : m = Len(C)
  BY LenProperties
<1>2. PICK D : D = Append(C, c)
  OBVIOUS
<1>3. Len(D) = m + 1 /\ D[m + 1] = c /\ \A i \in 1..m : D[i] = C[i]
  BY <1>1, <1>2, AppendProperties
<1>4. SUFFICES ASSUME NEW k \in 1..(m + 1), NEW l \in 1..(m + 1), k < l
               PROVE  D[l].start > D[k].end /\ D[l].index > D[k].index
  BY <1>2, <1>3 DEF Ranked
<1>5. k \in 1..m /\ D[k] = C[k]
  BY <1>3, <1>4
<1>6. CASE l = m + 1
  BY <1>1, <1>3, <1>5, <1>6
<1>7. CASE l # m + 1
  <2>1. l \in 1..m /\ D[l] = C[l]
    BY <1>3, <1>7
  <2>2. QED
    BY <1>1, <1>4, <1>5, <2>1 DEF Ranked
<1>8. QED
  BY <1>6, <1>7

\* ... the clause having the changes of its paragraphs.
LEMMA OwnedMore ==
    ASSUME NEW F, NEW n \in Nat, NEW C \in Seq(Parsed(n)), NEW c \in Parsed(n), Owned(F, C),
           c.changes = UNION {F[p].changes : p \in Range(Sources(c))}
    PROVE  Owned(F, Append(C, c))
<1>1. PICK m \in Nat : m = Len(C)
  BY LenProperties
<1>2. PICK D : D = Append(C, c)
  OBVIOUS
<1>3. Len(D) = m + 1 /\ D[m + 1] = c /\ \A i \in 1..m : D[i] = C[i]
  BY <1>1, <1>2, AppendProperties
<1>4. SUFFICES ASSUME NEW k \in 1..(m + 1)
               PROVE  D[k].changes = UNION {F[p].changes : p \in Range(Sources(D[k]))}
  BY <1>2, <1>3 DEF Owned
<1>5. CASE k = m + 1
  <2>1. D[k] = c
    BY <1>3, <1>5
  <2>2. QED
    BY <2>1, Zenon
<1>6. CASE k # m + 1
  <2>1. k \in 1..Len(C) /\ D[k] = C[k]
    BY <1>1, <1>3, <1>6
  <2>2. C[k].changes = UNION {F[p].changes : p \in Range(Sources(C[k]))}
    BY <2>1 DEF Owned
  <2>3. QED
    BY <2>1, <2>2, Zenon
<1>7. QED
  BY <1>5, <1>6

\* ... the clause's body being behind the others.
LEMMA BodiesMore ==
    ASSUME NEW n \in Nat, NEW C \in Seq(Parsed(n)), NEW c \in Parsed(n)
    PROVE  /\ Bodies(Append(C, c)) = Bodies(C) \cup Range(c.body)
           /\ InLine(C) /\ (\A p \in Bodies(C), q \in Range(c.body) : p < q) => InLine(Append(C, c))
<1>1. PICK m \in Nat : m = Len(C)
  BY LenProperties
<1>2. PICK D : D = Append(C, c)
  OBVIOUS
<1>3. Len(D) = m + 1 /\ D[m + 1] = c /\ \A i \in 1..m : D[i] = C[i]
  BY <1>1, <1>2, AppendProperties
<1>4. 1..(m + 1) = 1..m \cup {m + 1}
  OBVIOUS
<1>5. Bodies(D) = Bodies(C) \cup Range(c.body)
  <2>1. Bodies(D) = (UNION {Range(D[k].body) : k \in 1..m}) \cup Range(D[m + 1].body)
    <3>1. Bodies(D) = UNION {Range(D[k].body) : k \in 1..(m + 1)}
      BY <1>3 DEF Bodies
    <3>2. {Range(D[k].body) : k \in 1..(m + 1)} =
             {Range(D[k].body) : k \in 1..m} \cup {Range(D[m + 1].body)}
      BY <1>4, Zenon
    <3>3. \A A, x : UNION (A \cup {x}) = (UNION A) \cup x
      OBVIOUS
    <3>4. QED
      BY <3>1, <3>2, <3>3, Zenon
  <2>2. {Range(D[k].body) : k \in 1..m} = {Range(C[k].body) : k \in 1..m}
    BY <1>3
  <2>3. QED
    BY <1>1, <1>3, <2>1, <2>2 DEF Bodies
<1>6. ASSUME InLine(C), \A p \in Bodies(C), q \in Range(c.body) : p < q,
             NEW k \in 1..(m + 1), NEW l \in 1..(m + 1), k < l,
             NEW p \in Range(D[k].body), NEW q \in Range(D[l].body)
      PROVE  p < q
  <2>1. k \in 1..m /\ D[k] = C[k] /\ p \in Range(C[k].body)
    BY <1>3, <1>6
  <2>2. CASE l = m + 1
    <3>1. p \in Bodies(C)
      BY <1>1, <2>1 DEF Bodies
    <3>2. q \in Range(c.body)
      BY <1>3, <2>2
    <3>3. QED
      BY <1>6, <3>1, <3>2
  <2>3. CASE l # m + 1
    <3>1. l \in 1..m /\ D[l] = C[l] /\ q \in Range(C[l].body)
      BY <1>3, <2>3
    <3>2. QED
      BY <1>1, <1>6, <2>1, <3>1 DEF InLine
  <2>4. QED
    BY <2>2, <2>3
<1>7. InLine(C) /\ (\A p \in Bodies(C), q \in Range(c.body) : p < q) => InLine(D)
  BY <1>3, <1>6 DEF InLine
<1>8. QED
  BY <1>2, <1>5, <1>7

\* What holds of the clauses made so far: they are behind each other and before
\* the one that is being read.
RankedSoFar(acc) ==
    /\ Ranked(acc.out)
    /\ \A k \in 1..Len(acc.out) : acc.cursor > acc.out[k].end /\ acc.index > acc.out[k].index

\* Flushing takes the clause that is being read, too.
LEMMA RankedFlush ==
    ASSUME NEW F \in Seq(Row), NEW acc \in Gathering(Len(F)), RankedSoFar(acc)
    PROVE  LET r == Flush(F, acc)
           IN  /\ Ranked(r.out)
               /\ \A k \in 1..Len(r.out) :
                     r.cursor > r.out[k].end /\ r.out[k].index <= acc.index
<1>1. PICK n \in Nat : n = Len(F)
  BY LenProperties
<1>2. acc.cursor \in Int /\ acc.index \in Int /\ acc.out \in Seq(Parsed(n))
  BY <1>1, GatheringFields
<1>3. PICK m \in Nat : m = Len(acc.out)
  BY <1>2, LenProperties
<1>4. /\ Ranked(acc.out)
      /\ \A k \in 1..m : acc.cursor > acc.out[k].end /\ acc.index > acc.out[k].index
  BY <1>3 DEF RankedSoFar
<1>5. \A k \in 1..m : acc.out[k].end \in Int /\ acc.out[k].index \in Int
  <2>1. \A k \in 1..m : acc.out[k] \in Parsed(n)
    BY <1>2, <1>3
  <2>2. QED
    BY <2>1, ParsedFields
<1>6. CASE acc.heading = 0 /\ acc.body = <<>>
  <2>1. Flush(F, acc) = acc
    BY <1>6, FlushIs
  <2>2. QED
    BY <1>2, <1>3, <1>4, <1>5, <2>1
<1>7. CASE ~ (acc.heading = 0 /\ acc.body = <<>>)
  <2>1. PICK c \in Parsed(n) : /\ c = ClauseRead(F, acc) /\ c.index = acc.index
                               /\ c.start = acc.cursor /\ c.end >= c.start
    BY <1>1, <1>7, ReadIs
  <2>2. c.start \in Int /\ c.end \in Int /\ c.index \in Int
    BY ParsedFields
  <2>3. PICK D : D = Append(acc.out, c)
    OBVIOUS
  <2>4. Flush(F, acc).out = D /\ Flush(F, acc).cursor = c.end + 1
    BY <1>7, <2>1, <2>3, FlushIs
  <2>5. \A k \in 1..Len(acc.out) : c.start > acc.out[k].end /\ c.index > acc.out[k].index
    BY <1>3, <1>4, <2>1
  <2>6. Ranked(D)
    BY <1>2, <1>4, <2>3, <2>5, RankedMore
  <2>7. Len(D) = m + 1 /\ D[m + 1] = c /\ \A i \in 1..m : D[i] = acc.out[i]
    BY <1>2, <1>3, <2>3, AppendProperties
  <2>8. ASSUME NEW k \in 1..Len(D) PROVE c.end + 1 > D[k].end /\ D[k].index <= acc.index
    <3>1. CASE k = m + 1
      BY <1>2, <2>1, <2>2, <2>7, <3>1
    <3>2. CASE k # m + 1
      <4>1. k \in 1..m /\ D[k] = acc.out[k]
        BY <2>7, <3>2
      <4>2. PICK e \in Int, i \in Int : e = acc.out[k].end /\ i = acc.out[k].index
        BY <1>5, <4>1
      <4>3. acc.cursor > e /\ acc.index > i
        BY <1>4, <4>1, <4>2
      <4>4. c.end + 1 > e
        BY <1>2, <2>1, <2>2, <4>3
      <4>5. i <= acc.index
        BY <1>2, <4>3
      <4>6. QED
        BY <4>1, <4>2, <4>4, <4>5
    <3>3. QED
      BY <3>1, <3>2
  <2>9. QED
    BY <2>4, <2>6, <2>8
<1>8. QED
  BY <1>6, <1>7

\* The clauses made so far, and the one that is being read, have the paragraphs
\* read so far in turn, and their changes.
Sourced(F, headings, t, acc) ==
    /\ acc.heading \in headings \cup {0} /\ Range(acc.body) \cap headings = {}
    /\ SourcesOf(acc.out) \o Sources(acc) = t /\ Owned(F, acc.out)
    /\ acc.changes = UNION {F[p].changes : p \in Range(Sources(acc))}

\* When the last clause is flushed, the clauses have all that was read.
LEMMA SourcedFlush ==
    ASSUME NEW F \in Seq(Row), NEW acc \in Gathering(Len(F)), NEW headings, NEW t,
           Sourced(F, headings, t, acc)
    PROVE  SourcesOf(Flush(F, acc).out) = t /\ Owned(F, Flush(F, acc).out)
<1>1. PICK n \in Nat : n = Len(F)
  BY LenProperties
<1>2. acc.heading \in 0..n /\ acc.body \in Seq(1..n) /\ acc.out \in Seq(Parsed(n))
  BY <1>1, GatheringFields
<1>3. PICK o \in Seq(1..n) : o = SourcesOf(acc.out)
  <2>1. PICK c : c = [heading |-> 0, body |-> <<>>, index |-> 0, changes |-> {},
                      start |-> 0, end |-> 0]
    OBVIOUS
  <2>2. c \in Parsed(n)
    BY <2>1 DEF Parsed
  <2>3. QED
    BY <1>2, <2>2, SourcesMore
<1>4. /\ o \o Sources(acc) = t /\ Owned(F, acc.out)
      /\ acc.changes = UNION {F[p].changes : p \in Range(Sources(acc))}
  BY <1>3 DEF Sourced
<1>5. CASE acc.heading = 0 /\ acc.body = <<>>
  <2>1. Flush(F, acc) = acc
    BY <1>5, FlushIs
  <2>2. Sources(acc) = <<>>
    BY <1>5, Zenon DEF Sources, Nowhere
  <2>3. o \o <<>> = o
    BY ConcatEmptySeq
  <2>4. QED
    BY <1>3, <1>4, <2>1, <2>2, <2>3
<1>6. CASE ~ (acc.heading = 0 /\ acc.body = <<>>)
  <2>1. PICK c \in Parsed(n) : /\ c = ClauseRead(F, acc) /\ c.heading = acc.heading
                               /\ c.body = acc.body /\ c.changes = acc.changes
    BY <1>1, <1>6, ReadIs
  <2>2. Sources(c) = Sources(acc)
    BY <2>1, Zenon DEF Sources
  <2>3. Flush(F, acc).out = Append(acc.out, c)
    BY <1>6, <2>1, FlushIs
  <2>4. SourcesOf(Append(acc.out, c)) = o \o Sources(acc)
    <3>1. SourcesOf(Append(acc.out, c)) = SourcesOf(acc.out) \o Sources(c)
      BY <1>2, SourcesMore
    <3>2. QED
      BY <1>3, <2>2, <3>1
  <2>5. c.changes = UNION {F[p].changes : p \in Range(Sources(c))}
    BY <1>4, <2>1, <2>2, Zenon
  <2>6. Owned(F, Append(acc.out, c))
    BY <1>2, <1>4, <2>5, OwnedMore
  <2>7. QED
    BY <1>4, <2>3, <2>4, <2>6
<1>7. QED
  BY <1>5, <1>6

\* To append to the second of two sequences is to append to both.
LEMMA ConcatAppend ==
    ASSUME NEW S, NEW s \in Seq(S), NEW t \in Seq(S), NEW x \in S
    PROVE  s \o Append(t, x) = Append(s \o t, x)
<1>1. <<x>> \in Seq(S) /\ s \o t \in Seq(S)
  <2>1. <<x>> \in Seq(S)
    BY ONLY x \in S
  <2>2. QED
    BY <2>1, ConcatProperties
<1>2. Append(t, x) = t \o <<x>> /\ Append(s \o t, x) = (s \o t) \o <<x>>
  BY <1>1, AppendIsConcat
<1>3. (s \o t) \o <<x>> = s \o (t \o <<x>>)
  BY <1>1, ConcatAssociative
<1>4. QED
  BY <1>2, <1>3

\* The same of places in a file.
LEMMA PutBehind ==
    ASSUME NEW n \in Nat
    PROVE  \A s, t \in Seq(1..n), x \in 1..n : s \o Append(t, x) = Append(s \o t, x)
<1>1. PICK T : T = 1..n
  OBVIOUS
<1>2. \A s, t \in Seq(T), x \in T : s \o Append(t, x) = Append(s \o t, x)
  BY ConcatAppend
<1>3. QED
  BY <1>1, <1>2

\* The first elements of a sequence.
FirstOf(s, i) == [k \in 1..i |-> s[k]]

\* They grow by one element at a time, up to the whole.
LEMMA FirstOfIs ==
    ASSUME NEW S, NEW s \in Seq(S)
    PROVE  /\ FirstOf(s, 0) = <<>> /\ FirstOf(s, Len(s)) = s
           /\ \A i \in 0..Len(s) : FirstOf(s, i) \in Seq(S)
           /\ \A i \in 0..Len(s) : i < Len(s) =>
                 FirstOf(s, i + 1) = Append(FirstOf(s, i), s[i + 1])
<1>1. PICK n \in Nat : n = Len(s) /\ DOMAIN s = 1..n /\ s = [k \in 1..n |-> s[k]]
  BY LenProperties
<1>2. FirstOf(s, 0) = <<>>
  BY DEF FirstOf
<1>3. FirstOf(s, n) = s
  BY <1>1 DEF FirstOf
<1>4. ASSUME NEW i \in 0..n
      PROVE  FirstOf(s, i) \in Seq(S) /\ Len(FirstOf(s, i)) = i
             /\ \A k \in 1..i : FirstOf(s, i)[k] = s[k]
  <2>1. \A k \in 1..i : s[k] \in S
    BY <1>1
  <2>2. i \in Nat
    BY <1>1
  <2>3. QED
    BY <2>1, <2>2 DEF FirstOf
<1>5. ASSUME NEW i \in 0..n, i < n
      PROVE  FirstOf(s, i + 1) = Append(FirstOf(s, i), s[i + 1])
  <2>1. i + 1 \in 0..n /\ i + 1 \in 1..n /\ i \in Nat
    BY <1>1, <1>5
  <2>2. PICK t \in Seq(S) : t = FirstOf(s, i) /\ Len(t) = i /\ \A k \in 1..i : t[k] = s[k]
    BY <1>4
  <2>3. PICK x \in S : x = s[i + 1]
    BY <1>1, <2>1
  <2>4. PICK u : u = Append(t, x)
    OBVIOUS
  <2>5. u \in Seq(S) /\ Len(u) = i + 1 /\ u[i + 1] = x /\ \A k \in 1..i : u[k] = t[k]
    BY <2>2, <2>4, AppendProperties
  <2>6. u = [k \in 1..(i + 1) |-> u[k]]
    BY <2>5, LenProperties
  <2>7. ASSUME NEW k \in 1..(i + 1) PROVE u[k] = s[k]
    <3>1. CASE k = i + 1
      BY <2>3, <2>5, <3>1
    <3>2. CASE k # i + 1
      <4>1. k \in 1..i
        BY <2>1, <3>2
      <4>2. QED
        BY <2>2, <2>5, <4>1
    <3>3. QED
      BY <3>1, <3>2
  <2>8. u = FirstOf(s, i + 1)
    BY <2>6, <2>7 DEF FirstOf
  <2>9. QED
    BY <2>2, <2>3, <2>4, <2>8
<1>6. QED
  BY <1>1, <1>2, <1>3, <1>4, <1>5

\* To read one place more keeps what SourcedFlush needs.
LEMMA SourcedStep ==
    ASSUME NEW F \in Seq(Row), NEW acc \in Gathering(Len(F)), NEW headings, 0 \notin headings,
           NEW index \in [1..Len(F) -> Int], NEW p \in 1..Len(F), NEW t \in Seq(1..Len(F)),
           Sourced(F, headings, t, acc)
    PROVE  Sourced(F, headings, Append(t, p), GroupStep(F, headings, index, acc, p))
<1>1. PICK n \in Nat : n = Len(F)
  BY LenProperties
<1>2. PICK r \in Gathering(n) : /\ r = GroupStep(F, headings, index, acc, p)
                                /\ GroupStepped(F, headings, index, acc, p, r)
  BY <1>1, GroupStepIs
<1>3. p \in 1..n /\ p # 0 /\ t \in Seq(1..n) /\ p \in Nat
  BY <1>1
<1>4. CASE p \in headings
  <2>1. /\ r.heading = p /\ r.body = <<>> /\ r.changes = F[p].changes
        /\ r.out = Flush(F, acc).out
    BY <1>2, <1>4 DEF GroupStepped
  <2>2. SourcesOf(r.out) = t /\ Owned(F, r.out)
    BY <2>1, SourcedFlush
  <2>3. Range(r.body) = {}
    BY <2>1, RangeFew
  <2>4. Sources(r) = <<p>>
    <3>1. <<p>> \in Seq(1..n)
      BY ONLY <1>3
    <3>2. <<p>> \o <<>> = <<p>>
      BY <3>1, ConcatEmptySeq
    <3>3. r.heading \notin {Nowhere} \cup Range(r.body)
      BY <1>3, <2>1, <2>3 DEF Nowhere
    <3>4. Sources(r) = <<r.heading>> \o r.body
      BY <3>3, Zenon DEF Sources
    <3>5. QED
      BY <2>1, <3>2, <3>4
  <2>5. SourcesOf(r.out) \o Sources(r) = Append(t, p)
    BY <1>3, <2>2, <2>4, AppendIsConcat
  <2>6. r.changes = UNION {F[q].changes : q \in Range(Sources(r))}
    <3>1. Range(Sources(r)) = {p}
      BY <2>4, RangeFew
    <3>2. {F[q].changes : q \in {p}} = {F[p].changes}
      OBVIOUS
    <3>3. UNION {F[p].changes} = F[p].changes
      OBVIOUS
    <3>4. QED
      BY <2>1, <3>1, <3>2, <3>3, Zenon
  <2>7. r.heading \in headings \cup {0} /\ Range(r.body) \cap headings = {}
    BY <1>4, <2>1, <2>3
  <2>8. QED
    BY <1>2, <2>2, <2>5, <2>6, <2>7 DEF Sourced
<1>5. CASE p \notin headings
  <2>1. /\ r.heading = acc.heading /\ r.body = Append(acc.body, p)
        /\ r.changes = acc.changes \cup F[p].changes /\ r.out = acc.out
    BY <1>2, <1>5 DEF GroupStepped
  <2>2. acc.heading \in 0..n /\ acc.body \in Seq(1..n) /\ acc.out \in Seq(Parsed(n))
    BY <1>1, GatheringFields
  <2>3. /\ acc.heading \in headings \cup {0} /\ Range(acc.body) \cap headings = {}
        /\ SourcesOf(acc.out) \o Sources(acc) = t /\ Owned(F, acc.out)
        /\ acc.changes = UNION {F[q].changes : q \in Range(Sources(acc))}
    BY DEF Sourced
  <2>4. PICK s \in Seq(1..n) : s = Sources(acc)
    BY <2>2, SourcesAre
  <2>5. Range(r.body) = Range(acc.body) \cup {p}
    <3>1. Range(Append(acc.body, p)) = Range(acc.body) \cup {p}
      <4>1. PICK T : T = 1..n
        OBVIOUS
      <4>2. acc.body \in Seq(T) /\ p \in T
        BY <1>3, <2>2, <4>1
      <4>3. QED
        BY ONLY <4>2, RangeAppend
    <3>2. QED
      BY <2>1, <3>1
  <2>6. Sources(r) = Append(s, p)
    <3>1. CASE acc.heading = 0
      <4>1. Sources(acc) = acc.body /\ Sources(r) = r.body
        BY <2>1, <3>1, Zenon DEF Sources, Nowhere
      <4>2. QED
        BY <2>1, <2>4, <4>1
    <3>2. CASE acc.heading # 0
      <4>1. PICK h \in 1..n : h = acc.heading
        BY <2>2, <3>2
      <4>2. h \notin Range(acc.body) /\ h \notin Range(r.body)
        BY <1>5, <2>3, <2>5, <3>2, <4>1
      <4>3. Sources(acc) = <<h>> \o acc.body /\ Sources(r) = <<h>> \o r.body
        BY <2>1, <3>2, <4>1, <4>2 DEF Sources, Nowhere
      <4>4. PICK g \in Seq(1..n), b \in Seq(1..n) : g = <<h>> /\ b = acc.body
        <5>1. <<h>> \in Seq(1..n)
          BY ONLY h \in 1..n
        <5>2. QED
          BY <2>2, <5>1
      <4>5. <<h>> \o Append(acc.body, p) = Append(<<h>> \o acc.body, p)
        <5>1. g \o Append(b, p) = Append(g \o b, p)
          BY <1>3, PutBehind, Zenon
        <5>2. QED
          BY <4>4, <5>1
      <4>6. QED
        BY <2>1, <2>4, <4>3, <4>5
    <3>3. QED
      BY <3>1, <3>2
  <2>7. PICK o \in Seq(1..n) : o = SourcesOf(acc.out)
    <3>1. PICK c : c = [heading |-> 0, body |-> <<>>, index |-> 0, changes |-> {},
                        start |-> 0, end |-> 0]
      OBVIOUS
    <3>2. c \in Parsed(n)
      BY <3>1 DEF Parsed
    <3>3. QED
      BY <2>2, <3>2, SourcesMore
  <2>8. SourcesOf(r.out) \o Sources(r) = Append(t, p)
    <3>1. o \o Append(s, p) = Append(o \o s, p)
      BY <1>3, PutBehind, Zenon
    <3>2. QED
      BY <2>1, <2>3, <2>4, <2>6, <2>7, <3>1
  <2>9. r.changes = UNION {F[q].changes : q \in Range(Sources(r))}
    <3>1. Range(Sources(r)) = Range(s) \cup {p}
      <4>1. Range(Append(s, p)) = Range(s) \cup {p}
        <5>1. PICK T : T = 1..n
          OBVIOUS
        <5>2. s \in Seq(T) /\ p \in T
          BY <1>3, <5>1
        <5>3. QED
          BY ONLY <5>2, RangeAppend
      <4>2. QED
        BY <2>6, <4>1
    <3>2. PICK R : R = Range(s)
      OBVIOUS
    <3>3. UNION {F[q].changes : q \in R \cup {p}} =
             (UNION {F[q].changes : q \in R}) \cup F[p].changes
      OBVIOUS
    <3>4. acc.changes = UNION {F[q].changes : q \in R}
      BY <2>3, <2>4, <3>2, Zenon
    <3>5. QED
      BY <2>1, <3>1, <3>2, <3>3, <3>4, Zenon
  <2>10. r.heading \in headings \cup {0} /\ Range(r.body) \cap headings = {}
    BY <1>5, <2>1, <2>3, <2>5
  <2>11. QED
    BY <1>2, <2>1, <2>3, <2>8, <2>9, <2>10 DEF Sourced
<1>6. QED
  BY <1>4, <1>5

\* A heading comes behind the clause that was being read, if one was.
LEMMA RankedStep ==
    ASSUME NEW F \in Seq(Row), NEW acc \in Gathering(Len(F)), NEW headings,
           NEW index \in [1..Len(F) -> Int], NEW p \in 1..Len(F), RankedSoFar(acc),
           \/ acc.index < index[p]
           \/ acc.heading = 0 /\ acc.body = <<>> /\ acc.out = <<>>
    PROVE  RankedSoFar(GroupStep(F, headings, index, acc, p))
<1>1. PICK n \in Nat : n = Len(F)
  BY LenProperties
<1>2. PICK r \in Gathering(n) : /\ r = GroupStep(F, headings, index, acc, p)
                                /\ GroupStepped(F, headings, index, acc, p, r)
  BY <1>1, GroupStepIs
<1>3. CASE p \in headings
  <2>1. /\ r.index = index[p] /\ r.cursor = Flush(F, acc).cursor /\ r.out = Flush(F, acc).out
    BY <1>2, <1>3 DEF GroupStepped
  <2>2. CASE acc.heading = 0 /\ acc.body = <<>> /\ acc.out = <<>>
    <3>1. r.out = <<>>
      BY <2>1, <2>2, FlushIs
    <3>2. Len(r.out) = 0 /\ 1..0 = {}
      BY <3>1
    <3>3. QED
      BY <1>2, <3>2 DEF RankedSoFar, Ranked
  <2>3. CASE acc.index < index[p]
    <3>1. /\ Ranked(r.out)
          /\ \A k \in 1..Len(r.out) : r.cursor > r.out[k].end /\ r.out[k].index <= acc.index
      BY <2>1, RankedFlush
    <3>2. PICK i \in Int, j \in Int : i = acc.index /\ j = index[p] /\ i < j
      BY <1>1, <2>3, GatheringFields
    <3>3. ASSUME NEW k \in 1..Len(r.out) PROVE r.index > r.out[k].index
      <4>1. r.out[k] \in Parsed(n)
        BY <1>2, GatheringFields
      <4>2. PICK l \in Int : l = r.out[k].index
        BY <4>1, ParsedFields
      <4>3. l <= i
        BY <3>1, <3>2, <4>2
      <4>4. j > l
        BY <3>2, <4>3
      <4>5. QED
        BY <2>1, <3>2, <4>2, <4>4
    <3>4. QED
      BY <1>2, <3>1, <3>3 DEF RankedSoFar
  <2>4. QED
    BY <2>2, <2>3
<1>4. CASE p \notin headings
  <2>1. r.index = acc.index /\ r.cursor = acc.cursor /\ r.out = acc.out
    BY <1>2, <1>4 DEF GroupStepped
  <2>2. QED
    BY <1>2, <2>1 DEF RankedSoFar
<1>5. QED
  BY <1>3, <1>4

\* The bodies read so far are in line, and have the places of a set.
Bodied(acc, s) ==
    /\ InLine(acc.out) /\ \A p \in Bodies(acc.out), q \in Range(acc.body) : p < q
    /\ Bodies(acc.out) \cup Range(acc.body) = s

\* Flushing adds the body that was being read.
LEMMA BodiedFlush ==
    ASSUME NEW F \in Seq(Row), NEW acc \in Gathering(Len(F)), NEW s, Bodied(acc, s)
    PROVE  InLine(Flush(F, acc).out) /\ Bodies(Flush(F, acc).out) = s
<1>1. PICK n \in Nat : n = Len(F)
  BY LenProperties
<1>2. acc.out \in Seq(Parsed(n))
  BY <1>1, GatheringFields
<1>3. /\ InLine(acc.out) /\ \A p \in Bodies(acc.out), q \in Range(acc.body) : p < q
      /\ Bodies(acc.out) \cup Range(acc.body) = s
  BY DEF Bodied
<1>4. CASE acc.heading = 0 /\ acc.body = <<>>
  <2>1. Flush(F, acc) = acc
    BY <1>4, FlushIs
  <2>2. Range(acc.body) = {}
    BY <1>4, RangeFew
  <2>3. QED
    BY <1>3, <2>1, <2>2
<1>5. CASE ~ (acc.heading = 0 /\ acc.body = <<>>)
  <2>1. PICK c \in Parsed(n) : c = ClauseRead(F, acc) /\ c.body = acc.body
    BY <1>1, <1>5, ReadIs
  <2>2. Flush(F, acc).out = Append(acc.out, c)
    BY <1>5, <2>1, FlushIs
  <2>3. /\ Bodies(Append(acc.out, c)) = Bodies(acc.out) \cup Range(c.body)
        /\ InLine(acc.out) /\ (\A p \in Bodies(acc.out), q \in Range(c.body) : p < q)
              => InLine(Append(acc.out, c))
    BY <1>2, BodiesMore
  <2>4. QED
    BY <1>3, <2>1, <2>2, <2>3
<1>6. QED
  BY <1>4, <1>5

\* A place is read: into the body, unless it is a heading.
LEMMA BodiedStep ==
    ASSUME NEW F \in Seq(Row), NEW acc \in Gathering(Len(F)), NEW headings,
           NEW index \in [1..Len(F) -> Int], NEW p \in 1..Len(F), NEW s, Bodied(acc, s),
           \A q \in s : q < p
    PROVE  Bodied(GroupStep(F, headings, index, acc, p), s \cup ({p} \ headings))
<1>1. PICK n \in Nat : n = Len(F)
  BY LenProperties
<1>2. PICK r \in Gathering(n) : /\ r = GroupStep(F, headings, index, acc, p)
                                /\ GroupStepped(F, headings, index, acc, p, r)
  BY <1>1, GroupStepIs
<1>3. CASE p \in headings
  <2>1. r.body = <<>> /\ r.out = Flush(F, acc).out
    BY <1>2, <1>3 DEF GroupStepped
  <2>2. InLine(r.out) /\ Bodies(r.out) = s
    BY <2>1, BodiedFlush
  <2>3. Range(r.body) = {}
    BY <2>1, RangeFew
  <2>4. s \cup ({p} \ headings) = s
    BY <1>3
  <2>5. QED
    BY <1>2, <2>2, <2>3, <2>4 DEF Bodied
<1>4. CASE p \notin headings
  <2>1. r.body = Append(acc.body, p) /\ r.out = acc.out
    BY <1>2, <1>4 DEF GroupStepped
  <2>2. acc.body \in Seq(1..n) /\ p \in 1..n
    BY <1>1, GatheringFields
  <2>3. Range(r.body) = Range(acc.body) \cup {p}
    <3>1. Range(Append(acc.body, p)) = Range(acc.body) \cup {p}
      BY <2>2, RangeAppend
    <3>2. QED
      BY <2>1, <3>1
  <2>4. /\ InLine(acc.out) /\ \A q \in Bodies(acc.out), i \in Range(acc.body) : q < i
        /\ Bodies(acc.out) \cup Range(acc.body) = s
    BY DEF Bodied
  <2>5. \A q \in Bodies(acc.out) : q < p
    BY <2>4
  <2>6. s \cup ({p} \ headings) = s \cup {p}
    BY <1>4
  <2>7. QED
    BY <1>2, <2>1, <2>3, <2>4, <2>5, <2>6 DEF Bodied
<1>5. QED
  BY <1>3, <1>4

\* Numbers that grow along a sequence of places.
Growing(places, index) ==
    \A j, k \in 1..Len(places) : j < k => index[places[j]] < index[places[k]]

\* What is so while the first i places are grouped.
GroupedSoFar(F, places, headings, index, i, acc) ==
    /\ RankedSoFar(acc) /\ Sourced(F, headings, FirstOf(places, i), acc)
    /\ Bodied(acc, {places[j] : j \in 1..i} \ headings)
    /\ i = 0 => acc.heading = 0 /\ acc.body = <<>> /\ acc.out = <<>>
    /\ i # 0 => \A k \in 1..Len(places) : k > i => acc.index < index[places[k]]

\* It is so before anything is read,
LEMMA GroupedBegins ==
    ASSUME NEW F, NEW n \in Nat, NEW places \in Seq(1..n), NEW headings, NEW index
    PROVE  GroupedSoFar(F, places, headings, index, 0, GroupNone(places, index))
<1>1. PICK acc : acc = GroupNone(places, index)
  OBVIOUS
<1>2. /\ acc.heading = 0 /\ acc.body = <<>> /\ acc.changes = {} /\ acc.out = <<>>
      /\ Len(acc.out) = 0 /\ 1..0 = {}
  BY <1>1 DEF GroupNone, Nowhere
<1>3. RankedSoFar(acc)
  BY <1>2 DEF RankedSoFar, Ranked
<1>4. Sourced(F, headings, FirstOf(places, 0), acc)
  <2>1. FirstOf(places, 0) = <<>>
    BY FirstOfIs
  <2>2. Sources(acc) = <<>>
    BY <1>2, Zenon DEF Sources, Nowhere
  <2>3. SourcesOf(acc.out) = <<>>
    <3>1. PICK c : c = [heading |-> 0, body |-> <<>>, index |-> 0, changes |-> {},
                        start |-> 0, end |-> 0]
      OBVIOUS
    <3>2. c \in Parsed(n)
      BY <3>1 DEF Parsed
    <3>3. PICK none : none = <<>>
      OBVIOUS
    <3>4. none \in Seq(Parsed(n))
      BY <3>3
    <3>5. SourcesOf(none) = <<>>
      BY <3>2, <3>3, <3>4, SourcesMore
    <3>6. QED
      BY <1>2, <3>3, <3>5
  <2>4. <<>> \o <<>> = <<>>
    OBVIOUS
  <2>5. Owned(F, acc.out)
    BY <1>2 DEF Owned
  <2>6. Range(<<>>) = {}
    BY RangeFew
  <2>7. acc.changes = UNION {F[p].changes : p \in Range(Sources(acc))}
    BY <1>2, <2>2, <2>6
  <2>8. QED
    BY <1>2, <2>1, <2>2, <2>3, <2>4, <2>5, <2>6, <2>7 DEF Sourced
<1>5. Bodied(acc, {places[j] : j \in 1..0} \ headings)
  <2>1. Bodies(acc.out) = {} /\ InLine(acc.out)
    BY <1>2 DEF Bodies, InLine
  <2>2. Range(acc.body) = {}
    BY <1>2, RangeFew
  <2>3. {places[j] : j \in 1..0} = {}
    OBVIOUS
  <2>4. QED
    BY <2>1, <2>2, <2>3 DEF Bodied
<1>6. QED
  BY <1>1, <1>2, <1>3, <1>4, <1>5 DEF GroupedSoFar

\* and after each place, if it was so before.
LEMMA GroupedGoesOn ==
    ASSUME NEW F \in Seq(Row), NEW places \in Seq(1..Len(F)), NEW headings, 0 \notin headings,
           NEW index \in [1..Len(F) -> Int], Growing(places, index),
           \A j, k \in 1..Len(places) : j < k => places[j] < places[k],
           NEW i \in 0..Len(places), i < Len(places), NEW acc \in Gathering(Len(F)),
           GroupedSoFar(F, places, headings, index, i, acc),
           i = 0 => acc.index = index[places[1]]
    PROVE  GroupedSoFar(F, places, headings, index, i + 1,
                        GroupStep(F, headings, index, acc, places[i + 1]))
<1>1. PICK n \in Nat, m \in Nat : n = Len(F) /\ m = Len(places)
  BY LenProperties
<1>2. i \in 0..m /\ i < m /\ i + 1 \in 1..m /\ i + 1 \in 0..m /\ i \in Nat
  BY <1>1
<1>3. PICK p \in 1..n : p = places[i + 1]
  BY <1>1, <1>2
<1>4. PICK r \in Gathering(n) : /\ r = GroupStep(F, headings, index, acc, p)
                                /\ GroupStepped(F, headings, index, acc, p, r)
  BY <1>1, <1>3, GroupStepIs
<1>5. /\ RankedSoFar(acc) /\ Sourced(F, headings, FirstOf(places, i), acc)
      /\ Bodied(acc, {places[j] : j \in 1..i} \ headings)
      /\ i = 0 => acc.heading = 0 /\ acc.body = <<>> /\ acc.out = <<>>
      /\ i # 0 => \A k \in 1..m : k > i => acc.index < index[places[k]]
  BY <1>1 DEF GroupedSoFar
<1>6. RankedSoFar(r)
  <2>1. \/ acc.index < index[p]
        \/ acc.heading = 0 /\ acc.body = <<>> /\ acc.out = <<>>
    BY <1>2, <1>3, <1>5
  <2>2. QED
    BY <1>1, <1>3, <1>4, <1>5, <2>1, RankedStep
<1>7. Sourced(F, headings, FirstOf(places, i + 1), r)
  <2>1. PICK t \in Seq(1..n) : t = FirstOf(places, i) /\ FirstOf(places, i + 1) = Append(t, p)
    <3>1. PICK T : T = 1..n
      OBVIOUS
    <3>2. places \in Seq(T)
      BY <1>1, <3>1
    <3>3. /\ \A j \in 0..m : FirstOf(places, j) \in Seq(T)
          /\ \A j \in 0..m : j < m =>
                FirstOf(places, j + 1) = Append(FirstOf(places, j), places[j + 1])
      BY <1>1, <3>2, FirstOfIs
    <3>4. /\ FirstOf(places, i) \in Seq(T)
          /\ FirstOf(places, i + 1) = Append(FirstOf(places, i), places[i + 1])
      BY <1>2, <3>3
    <3>5. QED
      BY <1>3, <3>1, <3>4
  <2>2. Sourced(F, headings, Append(t, p), r)
    BY <1>1, <1>3, <1>4, <1>5, <2>1, SourcedStep
  <2>3. QED
    BY <2>1, <2>2
<1>8. Bodied(r, {places[j] : j \in 1..(i + 1)} \ headings)
  <2>1. PICK s : s = {places[j] : j \in 1..i} \ headings
    OBVIOUS
  <2>2. ASSUME NEW q \in s PROVE q < p
    <3>1. PICK j \in 1..i : q = places[j]
      BY <2>1
    <3>2. j \in 1..m /\ j < i + 1
      BY <1>2
    <3>3. QED
      BY <1>1, <1>2, <1>3, <3>1, <3>2
  <2>3. Bodied(r, s \cup ({p} \ headings))
    BY <1>1, <1>3, <1>4, <1>5, <2>1, <2>2, BodiedStep
  <2>4. {places[j] : j \in 1..(i + 1)} = {places[j] : j \in 1..i} \cup {p}
    <3>1. 1..(i + 1) = 1..i \cup {i + 1}
      BY <1>2
    <3>2. QED
      BY <1>3, <3>1, Zenon
  <2>5. {places[j] : j \in 1..(i + 1)} \ headings = s \cup ({p} \ headings)
    BY <2>1, <2>4
  <2>6. QED
    BY <2>3, <2>5
<1>9. ASSUME NEW k \in 1..m, k > i + 1 PROVE r.index < index[places[k]]
  <2>1. index[p] < index[places[k]]
    BY <1>1, <1>2, <1>3, <1>9 DEF Growing
  <2>2. CASE p \in headings
    BY <1>4, <2>1, <2>2 DEF GroupStepped
  <2>3. CASE p \notin headings
    <3>1. r.index = acc.index
      BY <1>4, <2>3 DEF GroupStepped
    <3>2. acc.index < index[places[k]]
      <4>1. CASE i = 0
        BY <1>3, <2>1, <4>1
      <4>2. CASE i # 0
        BY <1>2, <1>5, <1>9, <4>2
      <4>3. QED
        BY <4>1, <4>2
    <3>3. QED
      BY <3>1, <3>2
  <2>4. QED
    BY <2>2, <2>3
<1>10. i + 1 # 0
  BY <1>2
<1>11. QED
  BY <1>1, <1>3, <1>4, <1>6, <1>7, <1>8, <1>9, <1>10 DEF GroupedSoFar

\* Clauses that are grouped under headings have every place read, in turn, and
\* lie behind each other.
LEMMA GroupedIs ==
    ASSUME NEW F \in Seq(Row), NEW places \in Seq(1..Len(F)), places # <<>>,
           NEW headings, 0 \notin headings,
           NEW index \in [1..Len(F) -> Int], Growing(places, index),
           \A j, k \in 1..Len(places) : j < k => places[j] < places[k]
    PROVE  LET C == Grouped(F, places, headings, index)
           IN  /\ C \in Seq(Parsed(Len(F))) /\ Ranked(C) /\ Owned(F, C) /\ SourcesOf(C) = places
               /\ InLine(C) /\ Bodies(C) = Range(places) \ headings
<1>1. PICK n \in Nat, m \in Nat : n = Len(F) /\ m = Len(places)
  BY LenProperties
<1>2. PICK f : /\ GroupsBy(f, F, places, headings, index)
               /\ \A i \in 0..m : f[i] \in Gathering(n)
  BY <1>1, GroupingIs
<1>3. /\ f[0] = GroupNone(places, index)
      /\ Grouped(F, places, headings, index) = Flush(F, f[m]).out
      /\ \A i \in 1..m : f[i] = GroupStep(F, headings, index, f[i - 1], places[i])
  BY <1>1, <1>2 DEF GroupsBy
<1> DEFINE U == {i \in 0..m : GroupedSoFar(F, places, headings, index, i, f[i])}
<1>4. 0 \in U
  <2>1. GroupedSoFar(F, places, headings, index, 0, f[0])
    BY <1>1, <1>3, GroupedBegins
  <2>2. 0 \in 0..m
    BY <1>1
  <2>3. QED
    BY <2>1, <2>2
<1>5. ASSUME NEW i \in 0..m, i < m, i \in U PROVE i + 1 \in U
  <2>1. i + 1 \in 1..m /\ i + 1 \in 0..m /\ (i + 1) - 1 = i
    BY <1>1, <1>5
  <2>2. PICK acc \in Gathering(n) : acc = f[i]
    BY <1>2
  <2>3. GroupedSoFar(F, places, headings, index, i, acc)
    BY <1>5, <2>2
  <2>4. i = 0 => acc.index = index[places[1]]
    BY <1>3, <2>2 DEF GroupNone
  <2>5. f[i + 1] = GroupStep(F, headings, index, acc, places[i + 1])
    BY <1>3, <2>1, <2>2
  <2> HIDE DEF U
  <2>6. GroupedSoFar(F, places, headings, index, i + 1, f[i + 1])
    <3>1. i \in 0..Len(places) /\ i < Len(places) /\ acc \in Gathering(Len(F))
      BY <1>1, <1>5
    <3>2. GroupedSoFar(F, places, headings, index, i + 1,
                       GroupStep(F, headings, index, acc, places[i + 1]))
      BY ONLY <2>3, <2>4, <3>1, GroupedGoesOn, F \in Seq(Row), places \in Seq(1..Len(F)),
              0 \notin headings, index \in [1..Len(F) -> Int], Growing(places, index),
              \A j, k \in 1..Len(places) : j < k => places[j] < places[k], Zenon
    <3>3. QED
      BY <2>5, <3>2
  <2>7. QED
    BY <2>1, <2>6 DEF U
<1>6. GroupedSoFar(F, places, headings, index, m, f[m])
  <2>1. m \in 0..m
    BY <1>1
  <2>2. m \in U
    <3> HIDE DEF U
    <3> QED BY <1>1, <1>4, <1>5, <2>1, Ascent
  <2>3. QED
    BY <2>2
<1>7. PICK acc \in Gathering(n) : acc = f[m]
  BY <1>1, <1>2
<1>8. /\ RankedSoFar(acc) /\ Sourced(F, headings, FirstOf(places, m), acc)
      /\ Bodied(acc, {places[j] : j \in 1..m} \ headings)
  BY <1>6, <1>7 DEF GroupedSoFar
<1>9. PICK C : C = Grouped(F, places, headings, index)
  OBVIOUS
<1>10. C = Flush(F, acc).out
  BY <1>3, <1>7, <1>9
<1>11. C \in Seq(Parsed(n))
  <2>1. Flush(F, acc) \in Gathering(n)
    BY <1>1, FlushIs
  <2>2. QED
    BY <1>10, <2>1, GatheringFields
<1>12. Ranked(C)
  BY <1>1, <1>8, <1>10, RankedFlush
<1>13. SourcesOf(C) = places /\ Owned(F, C)
  <2>1. FirstOf(places, m) = places
    BY <1>1, FirstOfIs
  <2>2. QED
    BY <1>1, <1>8, <1>10, <2>1, SourcedFlush
<1>14. InLine(C) /\ Bodies(C) = Range(places) \ headings
  <2>1. Range(places) = {places[j] : j \in 1..m}
    BY <1>1, LenProperties DEF Range
  <2>2. PICK s : s = {places[j] : j \in 1..m} \ headings
    OBVIOUS
  <2>3. InLine(C) /\ Bodies(C) = s
    BY <1>1, <1>8, <1>10, <2>2, BodiedFlush
  <2>4. QED
    BY <2>1, <2>2, <2>3
<1>15. QED
  BY <1>1, <1>9, <1>11, <1>12, <1>13, <1>14

\* One piece of a file made a clause when there are no headings, and all of them.
SeparateStep(F, pieces, index, acc, k) ==
    LET first == pieces[k][1]
    IN  Flush(F, [acc EXCEPT
            !.heading = IF "numbered" \in F[first].marks THEN first ELSE Nowhere,
            !.body = pieces[k], !.index = index[k],
            !.changes = UNION {F[p].changes : p \in Range(pieces[k])}])

SeparateNone == [heading |-> Nowhere, body |-> <<>>, index |-> 0, changes |-> {},
                 cursor |-> 0, out |-> <<>>]

SeparatesBy(f, F, pieces, index) ==
    /\ f[0] = SeparateNone /\ Separate(F, pieces, index) = f[Len(pieces)].out
    /\ \A k \in 1..Len(pieces) : f[k] = SeparateStep(F, pieces, index, f[k - 1], k)

\* What the clause of a piece is.
Separated(F, piece, number, acc, r, c) ==
    /\ r.out = Append(acc.out, c) /\ r.cursor = c.end + 1
    /\ c.body = piece /\ c.heading \in {0} \cup Range(piece) /\ c.index = number
    /\ c.changes = UNION {F[p].changes : p \in Range(piece)}
    /\ c.start = acc.cursor /\ c.end >= c.start

\* A piece that is not empty is flushed at once.
LEMMA SeparateStepIs ==
    ASSUME NEW F \in Seq(Row), NEW acc \in Gathering(Len(F)), NEW pieces \in Seq(Seq(1..Len(F))),
           NEW index \in [1..Len(pieces) -> Int], NEW k \in 1..Len(pieces), pieces[k] # <<>>
    PROVE  \E r \in Gathering(Len(F)), c \in Parsed(Len(F)) :
              /\ r = SeparateStep(F, pieces, index, acc, k)
              /\ Separated(F, pieces[k], index[k], acc, r, c)
<1>1. PICK n \in Nat : n = Len(F)
  BY LenProperties
<1>2. PICK piece \in Seq(1..n) : piece = pieces[k]
  <2>1. PICK T : T = Seq(1..n)
    OBVIOUS
  <2>2. pieces \in Seq(T)
    BY <1>1, <2>1
  <2>3. pieces[k] \in T
    BY ONLY <2>2, k \in 1..Len(pieces)
  <2>4. QED
    BY <2>1, <2>3
<1>3. PICK number \in Int : number = index[k]
  OBVIOUS
<1>4. piece[1] \in 1..n /\ piece[1] \in Range(piece)
  <2>1. 1 \in 1..Len(piece)
    BY <1>2, EmptySeq, LenProperties
  <2>2. QED
    BY <2>1, RangeIs
<1>5. PICK h \in 0..n : /\ h = IF "numbered" \in F[piece[1]].marks THEN piece[1] ELSE 0
                        /\ h \in {0} \cup Range(piece)
  BY <1>1, <1>4
<1>6. PICK d \in SUBSET STRING : d = UNION {F[p].changes : p \in Range(piece)}
  <2>1. Range(piece) \subseteq 1..Len(F)
    BY <1>1, RangeIs
  <2>2. \A p \in Range(piece) : F[p].changes \in SUBSET STRING
    BY <2>1, RowAt
  <2>3. QED
    BY <2>2
<1>7. PICK a : a = [acc EXCEPT !.heading = h, !.body = piece, !.index = number, !.changes = d]
  OBVIOUS
<1>8. PICK C : C = Parsed(n)
  OBVIOUS
<1>9. PICK G : G = [heading : 0..n, body : Seq(1..n), index : Int, changes : SUBSET STRING,
                    cursor : Int, out : Seq(C)]
  OBVIOUS
<1>10. G = Gathering(n)
  BY <1>8, <1>9 DEF Gathering
<1>11. acc \in G
  BY <1>1, <1>10
<1>12. a = [heading |-> h, body |-> piece, index |-> number, changes |-> d,
            cursor |-> acc.cursor, out |-> acc.out]
  BY ONLY <1>7, <1>9, <1>11
<1>13. acc.cursor \in Int /\ acc.out \in Seq(C)
  BY ONLY <1>9, <1>11
<1>14. a \in G
  BY ONLY <1>9, <1>12, <1>13, h \in 0..n, piece \in Seq(1..n), number \in Int, d \in SUBSET STRING
<1>15. PICK b \in Gathering(n) : b = a
  BY <1>10, <1>14
<1>16. /\ b.heading = h /\ b.body = piece /\ b.index = number /\ b.changes = d
       /\ b.cursor = acc.cursor /\ b.out = acc.out
  BY ONLY <1>12, <1>15
<1>17. piece # <<>>
  BY <1>2
<1>18. ~ (b.heading = 0 /\ b.body = <<>>)
  BY <1>16, <1>17
<1>19. PICK c \in Parsed(n) : /\ c = ClauseRead(F, b) /\ c.heading = b.heading
                              /\ c.body = b.body /\ c.index = b.index /\ c.changes = b.changes
                              /\ c.start = b.cursor /\ c.end >= c.start
  BY <1>1, <1>18, ReadIs
<1>20. PICK r \in Gathering(n) : /\ r = Flush(F, b) /\ r.out = Append(b.out, c)
                                 /\ r.cursor = c.end + 1
  BY <1>1, <1>18, <1>19, FlushIs
<1>21. r = SeparateStep(F, pieces, index, acc, k)
  <2>1. SeparateStep(F, pieces, index, acc, k) =
           Flush(F, [acc EXCEPT
               !.heading = IF "numbered" \in F[pieces[k][1]].marks THEN pieces[k][1] ELSE 0,
               !.body = pieces[k], !.index = index[k],
               !.changes = UNION {F[p].changes : p \in Range(pieces[k])}])
    BY Zenon DEF SeparateStep, Nowhere
  <2>2. SeparateStep(F, pieces, index, acc, k) = Flush(F, a)
    BY <1>2, <1>3, <1>5, <1>6, <1>7, <2>1, Zenon
  <2>3. QED
    BY <1>15, <1>20, <2>2
<1>22. Separated(F, pieces[k], index[k], acc, r, c)
  BY <1>2, <1>3, <1>5, <1>6, <1>16, <1>19, <1>20 DEF Separated
<1>23. QED
  BY <1>1, <1>21, <1>22

\* The pieces of a file are read one by one.
LEMMA SeparatingIs ==
    ASSUME NEW F \in Seq(Row), NEW pieces \in Seq(Seq(1..Len(F))),
           NEW index \in [1..Len(pieces) -> Int],
           \A k \in 1..Len(pieces) : pieces[k] # <<>>
    PROVE  \E f : /\ SeparatesBy(f, F, pieces, index)
                  /\ \A i \in 0..Len(pieces) : f[i] \in Gathering(Len(F))
<1> DEFINE n == Len(pieces)
           list == [k \in DOMAIN pieces |-> k]
           A == Gathering(Len(F))
           step(acc, k) == SeparateStep(F, pieces, index, acc, k)
           base == SeparateNone
           Makes(it) == it = [s \in SUBSET DOMAIN list |->
                                IF s = {} THEN base
                                ELSE step(it[s \ {Max(s)}], list[Max(s)])]
           G == [q \in A \X (1..n) |-> step(q[1], list[q[2]])]
<1>1. n \in Nat /\ DOMAIN list = 1..n /\ Len(F) \in Nat /\ \A k \in 1..n : list[k] = k
  BY LenProperties
<1>2. base \in A
  <2>1. PICK C : C = Parsed(Len(F))
    OBVIOUS
  <2>2. base = [heading |-> 0, body |-> <<>>, index |-> 0, changes |-> {},
                cursor |-> 0, out |-> <<>>]
    BY Zenon DEF SeparateNone, Nowhere
  <2>3. 0 \in 0..Len(F)
    BY <1>1
  <2> HIDE DEF base
  <2>4. base \in [heading : 0..Len(F), body : Seq(1..Len(F)), index : Int,
                  changes : SUBSET STRING, cursor : Int, out : Seq(C)]
    BY ONLY <2>2, <2>3
  <2>5. QED
    BY <2>1, <2>4, Zenon DEF Gathering
<1>3. ASSUME NEW acc \in A, NEW i \in 1..n PROVE step(acc, list[i]) \in A
  <2>1. \E r \in A, c \in Parsed(Len(F)) : r = SeparateStep(F, pieces, index, acc, i)
    <3>1. pieces[i] # <<>>
      OBVIOUS
    <3>2. \E r \in A, c \in Parsed(Len(F)) :
             /\ r = SeparateStep(F, pieces, index, acc, i)
             /\ Separated(F, pieces[i], index[i], acc, r, c)
      BY <3>1, SeparateStepIs
    <3>3. QED
      BY <3>2
  <2>2. list[i] = i
    BY <1>1
  <2> HIDE DEF list
  <2>3. QED
    BY <2>1, <2>2
<1> HIDE DEF step, base, list
<1>4. G \in [A \X (1..n) -> A]
  <2>1. \A q \in A \X (1..n) : step(q[1], list[q[2]]) \in A
    <3> HIDE DEF A
    <3> QED BY <1>3
  <2> HIDE DEF A
  <2>2. QED
    BY <2>1
<1>5. \A a \in A, i \in 1..n : G[<<a, i>>] = step(a, list[i])
  <2> HIDE DEF A
  <2> QED OBVIOUS
<1> HIDE DEF A, G
<1>6. PICK h \in [SUBSET (1..n) -> A] : Recurs(h, n, base, G)
  BY <1>1, <1>2, <1>4, FoldExists
<1>7. ASSUME NEW s \in SUBSET (1..n), s # {}
      PROVE  h[s] = step(h[s \ {Max(s)}], list[Max(s)])
  <2>1. Max(s) \in 1..n
    BY <1>1, <1>7, Greatest
  <2>2. h[s \ {Max(s)}] \in A
    OBVIOUS
  <2>3. QED
    BY <1>5, <1>6, <1>7, <2>1, <2>2 DEF Recurs
<1>8. Makes(h)
  <2>1. h = [s \in SUBSET (1..n) |-> h[s]]
    OBVIOUS
  <2>2. ASSUME NEW s \in SUBSET (1..n)
        PROVE  h[s] = IF s = {} THEN base ELSE step(h[s \ {Max(s)}], list[Max(s)])
    BY <1>6, <1>7 DEF Recurs
  <2>3. h = [s \in SUBSET (1..n) |->
               IF s = {} THEN base ELSE step(h[s \ {Max(s)}], list[Max(s)])]
    <3> HIDE DEF n
    <3> QED BY <2>1, <2>2
  <2>4. QED
    BY <1>1, <2>3, Zenon
<1>9. PICK it : it = CHOOSE g : Makes(g)
  OBVIOUS
<1>10. Makes(it)
  <2> HIDE DEF Makes
  <2> QED BY <1>8, <1>9, Zenon
<1>11. Separate(F, pieces, index) = it[1..n].out
  <2>1. Separate(F, pieces, index) = it[DOMAIN list].out
    BY <1>9, Zenon
       DEF list, step, base, SeparateStep, SeparateNone, Separate, FoldLeft, MapThenFoldSet
  <2>2. QED
    BY <1>1, <2>1, Zenon
<1> DEFINE f == [i \in 0..n |-> it[1..i]]
<1>12. f[0] = base
  <2>1. 1..0 = {} /\ 0 \in 0..n
    BY <1>1
  <2>2. it[{}] = base
    BY <1>10
  <2>3. QED
    BY <2>1, <2>2
<1>13. ASSUME NEW i \in 1..n PROVE f[i] = step(f[i - 1], i)
  <2>1. 1..i \in SUBSET (1..n) /\ i \in 0..n /\ i - 1 \in 0..n /\ i \in Nat /\ i # 0
    BY <1>1
  <2>2. Max(1..i) = i /\ (1..i) \ {Max(1..i)} = 1..(i - 1) /\ 1..i # {}
    BY <2>1, GreatestOfFirst
  <2>3. it[1..i] = step(it[(1..i) \ {Max(1..i)}], list[Max(1..i)])
    BY <1>1, <1>10, <2>1, <2>2
  <2>4. it[1..i] = step(it[1..(i - 1)], i)
    BY <1>1, <2>2, <2>3
  <2>5. QED
    BY <2>1, <2>4
<1>14. Separate(F, pieces, index) = f[n].out
  BY <1>1, <1>11
<1>15. ASSUME NEW i \in 0..n PROVE f[i] \in A
  <2> DEFINE S == {k \in 0..n : f[k] \in A}
  <2>1. 0 \in S
    BY <1>1, <1>2, <1>12
  <2>2. ASSUME NEW k \in 0..n, k < n, k \in S PROVE k + 1 \in S
    <3>1. k + 1 \in 1..n /\ k + 1 \in 0..n /\ (k + 1) - 1 = k /\ f[k] \in A
      BY <1>1, <2>2
    <3> HIDE DEF f
    <3>2. f[k + 1] = step(f[k], k + 1)
      BY <1>13, <3>1
    <3>3. QED
      BY <1>1, <1>3, <3>1, <3>2
  <2>3. \A k \in 0..n : k \in S
    <3> HIDE DEF S
    <3> QED BY <1>1, <2>1, <2>2, Ascent
  <2>4. QED
    BY <2>3
<1>16. QED
  <2> HIDE DEF f, n
  <2>1. /\ f[0] = base /\ Separate(F, pieces, index) = f[n].out
        /\ \A i \in 1..n : f[i] = step(f[i - 1], i)
    BY <1>12, <1>13, <1>14
  <2>2. SeparatesBy(f, F, pieces, index)
    BY <2>1, Zenon DEF step, base, n, SeparatesBy
  <2>3. \A i \in 0..n : f[i] \in A
    BY <1>15
  <2>4. QED
    BY <2>2, <2>3 DEF A, n

\* The clause of a piece.
Made(F, piece, c) ==
    /\ c.body = piece /\ c.heading \in {0} \cup Range(piece)
    /\ c.changes = UNION {F[p].changes : p \in Range(piece)}

SeparatedSoFar(F, pieces, index, i, acc) ==
    /\ Len(acc.out) = i /\ Ranked(acc.out)
    /\ \A k \in 1..i : /\ acc.cursor > acc.out[k].end /\ acc.out[k].index = index[k]
                       /\ Made(F, pieces[k], acc.out[k])

\* One piece more is behind those before it.
LEMMA SeparatedGoesOn ==
    ASSUME NEW F \in Seq(Row), NEW pieces \in Seq(Seq(1..Len(F))),
           NEW index \in [1..Len(pieces) -> Int],
           \A j, k \in 1..Len(pieces) : j < k => index[j] < index[k],
           \A k \in 1..Len(pieces) : pieces[k] # <<>>,
           NEW i \in 0..Len(pieces), i < Len(pieces), NEW acc \in Gathering(Len(F)),
           SeparatedSoFar(F, pieces, index, i, acc)
    PROVE  SeparatedSoFar(F, pieces, index, i + 1, SeparateStep(F, pieces, index, acc, i + 1))
<1>1. PICK n \in Nat, m \in Nat : n = Len(F) /\ m = Len(pieces)
  <2>1. \A T : \A s \in Seq(T) : Len(s) \in Nat
    BY LenProperties
  <2>2. Len(F) \in Nat /\ Len(pieces) \in Nat
    BY <2>1
  <2>3. QED
    BY <2>2
<1>2. i + 1 \in 1..m /\ i \in Nat /\ i \in 0..m
  BY <1>1
<1>3. \E r \in Gathering(n), c \in Parsed(n) :
         /\ r = SeparateStep(F, pieces, index, acc, i + 1)
         /\ Separated(F, pieces[i + 1], index[i + 1], acc, r, c)
  <2>1. i + 1 \in 1..Len(pieces) /\ pieces[i + 1] # <<>>
    BY <1>1, <1>2
  <2>2. QED
    BY <1>1, <2>1, SeparateStepIs
<1>4. PICK r \in Gathering(n), c \in Parsed(n) :
         /\ r = SeparateStep(F, pieces, index, acc, i + 1)
         /\ Separated(F, pieces[i + 1], index[i + 1], acc, r, c)
  BY <1>3
<1>5. /\ r.out = Append(acc.out, c) /\ r.cursor = c.end + 1 /\ c.index = index[i + 1]
      /\ c.start = acc.cursor /\ c.end >= c.start /\ Made(F, pieces[i + 1], c)
  BY <1>4 DEF Separated, Made
<1>6. /\ Len(acc.out) = i /\ Ranked(acc.out)
      /\ \A k \in 1..i : /\ acc.cursor > acc.out[k].end /\ acc.out[k].index = index[k]
                         /\ Made(F, pieces[k], acc.out[k])
  BY DEF SeparatedSoFar
<1>7. acc.out \in Seq(Parsed(n)) /\ acc.cursor \in Int
  BY <1>1, GatheringFields
<1>8. \A k \in 1..i : acc.out[k] \in Parsed(n)
  BY <1>6, <1>7
<1>9. c.start \in Int /\ c.end \in Int /\ c.index \in Int
  BY ParsedFields
<1>10. ASSUME NEW k \in 1..i PROVE c.start > acc.out[k].end /\ c.index > acc.out[k].index
  <2>0. k \in 1..m /\ k < i + 1
    BY <1>2
  <2>1. index[k] < index[i + 1]
    BY <1>1, <1>2, <2>0
  <2>2. PICK x \in Int, y \in Int : x = index[k] /\ y = index[i + 1]
    <3>1. index \in [1..m -> Int]
      BY <1>1
    <3>2. index[k] \in Int /\ index[i + 1] \in Int
      BY <1>2, <2>0, <3>1
    <3>3. QED
      BY <3>2
  <2>3. QED
    BY <1>5, <1>6, <2>1, <2>2
<1>11. Ranked(Append(acc.out, c))
  BY <1>6, <1>7, <1>10, RankedMore
<1>12. PICK D : D = Append(acc.out, c)
  OBVIOUS
<1>13. Len(D) = i + 1 /\ D[i + 1] = c /\ \A k \in 1..i : D[k] = acc.out[k]
  <2>1. LET A == Append(acc.out, c)
        IN  /\ Len(A) = Len(acc.out) + 1 /\ A[Len(acc.out) + 1] = c
            /\ \A k \in 1..Len(acc.out) : A[k] = acc.out[k]
    BY <1>7, AppendProperties
  <2>2. Len(acc.out) = i
    BY <1>6
  <2>3. QED
    BY <1>12, <2>1, <2>2
<1>14. ASSUME NEW k \in 1..(i + 1)
       PROVE  c.end + 1 > D[k].end /\ D[k].index = index[k] /\ Made(F, pieces[k], D[k])
  <2>1. CASE k = i + 1
    BY <1>5, <1>9, <1>13, <2>1
  <2>2. CASE k # i + 1
    <3>1. k \in 1..i /\ D[k] = acc.out[k]
      BY <1>13, <2>2
    <3>2. PICK e \in Int : e = acc.out[k].end
      BY <1>8, <3>1, ParsedFields
    <3>3. acc.cursor > e
      BY <1>6, <3>1, <3>2
    <3>4. c.end + 1 > e
      BY <1>5, <1>7, <1>9, <3>3
    <3>5. QED
      BY <1>6, <3>1, <3>2, <3>4
  <2>3. QED
    BY <2>1, <2>2
<1>15. QED
  BY <1>4, <1>5, <1>11, <1>12, <1>13, <1>14 DEF SeparatedSoFar

\* Without headings each piece is a clause, and these lie behind each other.
LEMMA SeparateIs ==
    ASSUME NEW F \in Seq(Row), NEW pieces \in Seq(Seq(1..Len(F))),
           NEW index \in [1..Len(pieces) -> Int],
           \A j, k \in 1..Len(pieces) : j < k => index[j] < index[k],
           \A k \in 1..Len(pieces) : pieces[k] # <<>>
    PROVE  LET C == Separate(F, pieces, index)
           IN  /\ C \in Seq(Parsed(Len(F))) /\ Len(C) = Len(pieces) /\ Ranked(C)
               /\ \A k \in 1..Len(pieces) : Made(F, pieces[k], C[k])
<1>1. PICK n \in Nat, m \in Nat : n = Len(F) /\ m = Len(pieces)
  <2>1. \A T : \A s \in Seq(T) : Len(s) \in Nat
    BY LenProperties
  <2>2. Len(F) \in Nat /\ Len(pieces) \in Nat
    BY <2>1
  <2>3. QED
    BY <2>2
<1>2. PICK f : /\ SeparatesBy(f, F, pieces, index)
               /\ \A i \in 0..m : f[i] \in Gathering(n)
  BY <1>1, SeparatingIs
<1>3. /\ f[0] = SeparateNone /\ Separate(F, pieces, index) = f[m].out
      /\ \A k \in 1..m : f[k] = SeparateStep(F, pieces, index, f[k - 1], k)
  BY <1>1, <1>2 DEF SeparatesBy
<1> DEFINE U == {i \in 0..m : SeparatedSoFar(F, pieces, index, i, f[i])}
<1>4. 0 \in U
  <2>1. PICK acc : acc = f[0]
    OBVIOUS
  <2>2. acc.out = <<>> /\ Len(acc.out) = 0 /\ 1..0 = {}
    BY <1>3, <2>1 DEF SeparateNone
  <2>3. SeparatedSoFar(F, pieces, index, 0, acc)
    BY <2>2 DEF SeparatedSoFar, Ranked
  <2>4. 0 \in 0..m
    BY <1>1
  <2>5. QED
    BY <2>1, <2>3, <2>4
<1>5. ASSUME NEW i \in 0..m, i < m, i \in U PROVE i + 1 \in U
  <2>1. i + 1 \in 1..m /\ i + 1 \in 0..m /\ (i + 1) - 1 = i
    BY <1>1, <1>5
  <2>2. PICK acc \in Gathering(n) : acc = f[i]
    BY <1>2
  <2>3. SeparatedSoFar(F, pieces, index, i, acc)
    BY <1>5, <2>2
  <2>4. f[i + 1] = SeparateStep(F, pieces, index, acc, i + 1)
    BY <1>3, <2>1, <2>2
  <2> HIDE DEF U
  <2>5. SeparatedSoFar(F, pieces, index, i + 1, f[i + 1])
    BY <1>1, <1>5, <2>3, <2>4, SeparatedGoesOn
  <2>6. QED
    BY <2>1, <2>5 DEF U
<1>6. SeparatedSoFar(F, pieces, index, m, f[m])
  <2>1. m \in 0..m
    BY <1>1
  <2>2. m \in U
    <3> HIDE DEF U
    <3> QED BY <1>1, <1>4, <1>5, <2>1, Ascent
  <2>3. QED
    BY <2>2
<1>7. PICK acc \in Gathering(n) : acc = f[m]
  BY <1>1, <1>2
<1>8. /\ Len(acc.out) = m /\ Ranked(acc.out)
      /\ \A k \in 1..m : Made(F, pieces[k], acc.out[k])
  BY <1>6, <1>7 DEF SeparatedSoFar
<1>9. acc.out \in Seq(Parsed(n))
  BY GatheringFields
<1>10. Separate(F, pieces, index) = acc.out
  BY <1>3, <1>7
<1>11. QED
  BY <1>1, <1>8, <1>9, <1>10

\* A sequence is what its elements make one by one.
LEMMA FlattenSingles ==
    ASSUME NEW S, NEW s \in Seq(S), NEW L, Len(L) = Len(s),
           \A k \in 1..Len(s) : L[k] = <<s[k]>>, s # <<>>
    PROVE  FlattenSeq(L) = s
<1>1. PICK n \in Nat : n = Len(s) /\ n # 0
  BY EmptySeq, LenProperties
<1>2. PICK f : FlattensBy(f, L)
  <2>1. Len(L) \in Nat /\ Len(L) # 0
    BY <1>1
  <2>2. \E f : FlattensBy(f, L)
    BY <2>1, FlattenIs
  <2>3. QED
    BY <2>2
<1>3. /\ f[1] = L[1] /\ FlattenSeq(L) = f[n]
      /\ \A i \in 2..n : f[i] = f[i - 1] \o L[i]
  BY <1>1, <1>2 DEF FlattensBy
<1>4. /\ FirstOf(s, 0) = <<>> /\ FirstOf(s, n) = s
      /\ \A i \in 0..n : FirstOf(s, i) \in Seq(S)
      /\ \A i \in 0..n : i < n => FirstOf(s, i + 1) = Append(FirstOf(s, i), s[i + 1])
  BY <1>1, FirstOfIs
<1> DEFINE U == {i \in 0..n : i # 0 => f[i] = FirstOf(s, i)}
<1>5. 0 \in U
  BY <1>1
<1>6. ASSUME NEW i \in 0..n, i < n, i \in U PROVE i + 1 \in U
  <2>1. i + 1 \in 1..n /\ i + 1 \in 0..n /\ (i + 1) - 1 = i
    BY <1>6
  <2>2. PICK x \in S : x = s[i + 1] /\ L[i + 1] = <<x>>
    BY <1>1, <2>1
  <2>3. PICK t \in Seq(S) : t = FirstOf(s, i) /\ FirstOf(s, i + 1) = Append(t, x)
    BY <1>4, <1>6, <2>2
  <2>4. Append(t, x) = t \o <<x>>
    BY AppendIsConcat
  <2>5. CASE i = 0
    <3>1. t = <<>> /\ f[i + 1] = <<x>>
      BY <1>3, <1>4, <2>2, <2>3, <2>5
    <3>2. <<x>> \in Seq(S)
      BY ONLY x \in S
    <3>3. <<>> \o <<x>> = <<x>>
      BY <3>2, ConcatEmptySeq
    <3>4. QED
      BY <2>1, <2>3, <2>4, <3>1, <3>3
  <2>6. CASE i # 0
    <3>1. i + 1 \in 2..n
      BY <2>1, <2>6
    <3>2. f[i] = t
      BY <1>6, <2>3, <2>6
    <3>3. f[i + 1] = t \o <<x>>
      BY <1>3, <2>1, <2>2, <3>1, <3>2
    <3>4. QED
      BY <2>1, <2>3, <2>4, <3>3
  <2>7. QED
    BY <2>5, <2>6
<1>7. n \in U
  <2>1. n \in 0..n
    BY <1>1
  <2> HIDE DEF U
  <2>2. QED
    BY <1>5, <1>6, <2>1, Ascent
<1>8. QED
  BY <1>1, <1>3, <1>4, <1>7

\* Clauses that lie behind all before them lie behind the last one.
LEMMA RankedInOrder ==
    ASSUME NEW n, NEW C \in Seq(Parsed(n)), Ranked(C)
    PROVE  InOrder(C)
<1>1. PICK m \in Nat : m = Len(C)
  BY LenProperties
<1>2. ASSUME NEW k \in 2..m PROVE C[k].start > C[k - 1].end /\ C[k].index > C[k - 1].index
  <2>1. k - 1 \in 1..m /\ k \in 1..m /\ k - 1 < k
    BY <1>1
  <2>2. QED
    BY <1>1, <2>1 DEF Ranked
<1>3. QED
  BY <1>1, <1>2 DEF InOrder

\* The paragraphs of a DOCX file with a text are all in its clauses.
LEMMA ExtractKeeps ==
    ASSUME NEW F \in Seq(Row), F # <<>>
    PROVE  /\ SourcesOf(ExtractClauses(F)) = InTurn(F, {p \in DOMAIN F : F[p].text > 0})
           /\ Owned(F, ExtractClauses(F)) /\ InOrder(ExtractClauses(F))
           /\ DOMAIN ExtractClauses(F) = 1..Len(ExtractClauses(F))
<1>2. PICK n \in Nat : n = Len(F) /\ DOMAIN F = 1..n
  BY LenProperties
<1>3. PICK places : places = InTurn(F, {p \in DOMAIN F : F[p].text > 0})
  OBVIOUS
<1>4. /\ places \in Seq(1..n)
      /\ \A j, k \in 1..Len(places) : j < k => places[j] < places[k]
  BY <1>2, <1>3, InTurnIs
<1>5. PICK m \in Nat : m = Len(places) /\ \A j \in 1..m : places[j] \in 1..n
  BY <1>4, LenProperties
<1>6. PICK headings : headings = {p \in Range(places) : IsHeading(F[p])}
  OBVIOUS
<1>7. PICK C : C = ExtractClauses(F)
  OBVIOUS
<1>8. /\ places = <<>> => C = <<>>
      /\ places # <<>> /\ headings # {} =>
            C = Grouped(F, places, headings, [p \in DOMAIN F |-> p - 1])
      /\ places # <<>> /\ headings = {} =>
            C = Separate(F, [k \in DOMAIN places |-> <<places[k]>>],
                         [k \in DOMAIN places |-> places[k] - 1])
  <2>1. PICK grouped : grouped = Grouped(F, places, headings, [p \in DOMAIN F |-> p - 1])
    OBVIOUS
  <2>2. PICK separate : separate = Separate(F, [k \in DOMAIN places |-> <<places[k]>>],
                                            [k \in DOMAIN places |-> places[k] - 1])
    OBVIOUS
  <2>3. C = CASE places = <<>> -> <<>>
              [] headings # {} -> grouped
              [] OTHER -> separate
    <3>1. ExtractClauses(F) =
             CASE places = <<>> -> <<>>
               [] headings # {} -> Grouped(F, places, headings, [p \in DOMAIN F |-> p - 1])
               [] OTHER -> Separate(F, [k \in DOMAIN places |-> <<places[k]>>],
                                    [k \in DOMAIN places |-> places[k] - 1])
      BY <1>3, <1>6 DEF ExtractClauses
    <3>2. QED
      BY <1>7, <2>1, <2>2, <3>1
  <2>4. places = <<>> => headings = {}
    BY <1>6, RangeFew
  <2>5. ASSUME places = <<>>, headings = {} PROVE C = <<>>
    BY <2>3, <2>5
  <2>6. ASSUME places # <<>>, headings # {} PROVE C = grouped
    BY <2>3, <2>6
  <2>7. ASSUME places # <<>>, headings = {} PROVE C = separate
    BY <2>3, <2>7
  <2>8. QED
    BY <2>1, <2>2, <2>4, <2>5, <2>6, <2>7
<1>9. SUFFICES /\ SourcesOf(C) = places
               /\ Owned(F, C) /\ InOrder(C) /\ DOMAIN C = 1..Len(C)
  BY <1>3, <1>7
<1>10. CASE places = <<>>
  <2>1. C = <<>> /\ Len(C) = 0 /\ DOMAIN C = {} /\ C \in Seq(Parsed(n))
    BY <1>8, <1>10
  <2>2. PICK c : c = [heading |-> 0, body |-> <<>>, index |-> 0, changes |-> {},
                      start |-> 0, end |-> 0]
    OBVIOUS
  <2>3. c \in Parsed(n)
    BY <2>2 DEF Parsed
  <2>4. SourcesOf(C) = <<>>
    BY <2>1, <2>3, SourcesMore
  <2>5. InOrder(C)
    BY <2>1 DEF InOrder
  <2>6. Owned(F, C) /\ 1..0 = {}
    BY <2>1 DEF Owned
  <2>7. QED
    BY <1>10, <2>1, <2>4, <2>5, <2>6
<1>11. CASE places # <<>> /\ headings # {}
  <2>1. PICK index : index = [p \in DOMAIN F |-> p - 1]
    OBVIOUS
  <2>2. index \in [1..n -> Int] /\ \A p \in 1..n : index[p] = p - 1
    BY <1>2, <2>1
  <2>3. Growing(places, index)
    <3>1. SUFFICES ASSUME NEW j \in 1..m, NEW k \in 1..m, j < k
                   PROVE  index[places[j]] < index[places[k]]
      BY <1>5 DEF Growing
    <3>2. PICK x \in 1..n, y \in 1..n : x = places[j] /\ y = places[k]
      BY <1>5
    <3>3. x < y
      BY <1>4, <1>5, <3>1, <3>2
    <3>4. index[x] = x - 1 /\ index[y] = y - 1
      BY <2>2
    <3>5. QED
      BY <3>2, <3>3, <3>4
  <2>4. 0 \notin headings
    BY <1>4, <1>6, RangeIs
  <2>5. C = Grouped(F, places, headings, index)
    BY <1>8, <1>11, <2>1
  <2>6. C \in Seq(Parsed(n)) /\ Ranked(C) /\ Owned(F, C) /\ SourcesOf(C) = places
    BY <1>2, <1>4, <1>11, <2>2, <2>3, <2>4, <2>5, GroupedIs
  <2>7. InOrder(C)
    BY <2>6, RankedInOrder
  <2>8. DOMAIN C = 1..Len(C)
    BY <2>6, LenProperties
  <2>9. QED
    BY <2>6, <2>7, <2>8
<1>12. CASE places # <<>> /\ headings = {}
  <2>1. PICK pieces : pieces = [k \in DOMAIN places |-> <<places[k]>>]
    OBVIOUS
  <2>2. PICK index : index = [k \in DOMAIN places |-> places[k] - 1]
    OBVIOUS
  <2>3. DOMAIN places = 1..m
    BY <1>4, <1>5, LenProperties
  <2>4. /\ Len(pieces) = m /\ pieces \in Seq(Seq(1..n))
        /\ \A k \in 1..m : pieces[k] = <<places[k]>>
    <3>1. \A k \in 1..m : <<places[k]>> \in Seq(1..n)
      <4>1. ASSUME NEW x \in 1..n PROVE <<x>> \in Seq(1..n)
        OBVIOUS
      <4>2. QED
        BY <1>5, <4>1
    <3>2. PICK T : T = Seq(1..n)
      OBVIOUS
    <3>3. pieces = [k \in 1..m |-> <<places[k]>>] /\ \A k \in 1..m : <<places[k]>> \in T
      BY <2>1, <2>3, <3>1, <3>2
    <3>4. pieces \in Seq(T) /\ Len(pieces) = m
      BY ONLY m \in Nat, <3>3
    <3>5. QED
      BY <3>2, <3>3, <3>4
  <2>5. index \in [1..m -> Int] /\ \A j, k \in 1..m : j < k => index[j] < index[k]
    <3>1. \A k \in 1..m : index[k] = places[k] - 1 /\ places[k] \in Int
      BY <1>5, <2>2, <2>3
    <3>2. index \in [1..m -> Int]
      BY <1>5, <2>2, <2>3
    <3>3. ASSUME NEW j \in 1..m, NEW k \in 1..m, j < k PROVE index[j] < index[k]
      <4>1. PICK x \in Int, y \in Int : x = places[j] /\ y = places[k]
        BY <3>1
      <4>2. x < y
        BY <1>4, <1>5, <3>3, <4>1
      <4>3. index[j] = x - 1 /\ index[k] = y - 1
        BY <3>1, <4>1
      <4>4. QED
        BY <4>2, <4>3
    <3>4. QED
      BY <3>2, <3>3
  <2>6. \A k \in 1..m : pieces[k] # <<>>
    <3>1. \A x : <<x>> # <<>>
      OBVIOUS
    <3>2. QED
      BY <2>4, <3>1
  <2>7. C = Separate(F, pieces, index)
    BY <1>8, <1>12, <2>1, <2>2
  <2>8. /\ C \in Seq(Parsed(n)) /\ Len(C) = m /\ Ranked(C)
        /\ \A k \in 1..m : Made(F, pieces[k], C[k])
    BY <1>2, <2>4, <2>5, <2>6, <2>7, SeparateIs
  <2>9. InOrder(C)
    BY <2>8, RankedInOrder
  <2>10. DOMAIN C = 1..m
    BY <2>8, LenProperties
  <2>11. ASSUME NEW k \in 1..m
         PROVE  /\ Sources(C[k]) = <<places[k]>>
                /\ C[k].changes = UNION {F[p].changes : p \in Range(Sources(C[k]))}
    <3>1. PICK c, piece : c = C[k] /\ piece = pieces[k] /\ piece = <<places[k]>>
      BY <2>4
    <3>2. /\ c.body = piece /\ c.heading \in {0} \cup Range(piece)
          /\ c.changes = UNION {F[p].changes : p \in Range(piece)}
      BY <2>8, <3>1 DEF Made
    <3>3. c.heading \in {Nowhere} \cup Range(c.body)
      BY <3>2 DEF Nowhere
    <3>4. Sources(c) = piece
      BY <3>2, <3>3, Zenon DEF Sources
    <3>5. QED
      BY <3>1, <3>2, <3>4, Zenon
  <2>12. SourcesOf(C) = places
    <3>1. PICK L : L = [k \in DOMAIN C |-> Sources(C[k])]
      OBVIOUS
    <3>2. L = [k \in 1..m |-> <<places[k]>>]
      BY <2>10, <2>11, <3>1
    <3>3. Len(L) = m /\ \A k \in 1..m : L[k] = <<places[k]>>
      BY <3>2
    <3>4. FlattenSeq(L) = places
      BY <1>4, <1>5, <1>12, <3>3, FlattenSingles
    <3>5. QED
      BY <3>1, <3>4, Zenon DEF SourcesOf
  <2>13. Owned(F, C)
    BY <2>8, <2>11 DEF Owned
  <2>14. QED
    BY <2>8, <2>9, <2>10, <2>12, <2>13
<1>13. QED
  BY <1>10, <1>11, <1>12

\* This is what ParagraphsKept says of the file that is read.
LEMMA ParagraphsHold ==
    ASSUME Files, file # <<>>
    PROVE  ParagraphsKept
<1>1. file \in Seq(Row)
  BY DEF Files
<1>2. /\ SourcesOf(ExtractClauses(file)) = InTurn(file, {p \in DOMAIN file : file[p].text > 0})
      /\ Owned(file, ExtractClauses(file)) /\ InOrder(ExtractClauses(file))
      /\ DOMAIN ExtractClauses(file) = 1..Len(ExtractClauses(file))
  BY <1>1, ExtractKeeps
<1>3. QED
  BY <1>2, Zenon DEF ParagraphsKept, SourcesOf, Owned

\* Lines are numbered in turn.
LEMMA NumberIs ==
    ASSUME NEW n \in Nat, NEW places \in Seq(1..n), NEW number,
           \A j, k \in 1..Len(places) : j < k => places[j] < places[k],
           number = [p \in 1..n |-> Cardinality({k \in Range(places) : k < p})]
    PROVE  number \in [1..n -> Int] /\ Growing(places, number)
<1>1. PICK m \in Nat : m = Len(places) /\ \A j \in 1..m : places[j] \in 1..n
  BY LenProperties
<1>2. PICK R : R = Range(places)
  OBVIOUS
<1>3. R \subseteq 1..n /\ IsFiniteSet(R)
  <2>1. R \subseteq 1..n
    BY <1>2, RangeIs
  <2>2. IsFiniteSet(1..n)
    BY FS_Interval
  <2>3. QED
    BY <2>1, <2>2, FS_Subset
<1>4. ASSUME NEW p \in 1..n
      PROVE  /\ IsFiniteSet({k \in R : k < p}) /\ Cardinality({k \in R : k < p}) \in Nat
             /\ number[p] = Cardinality({k \in R : k < p})
  <2>1. {k \in R : k < p} \subseteq R
    OBVIOUS
  <2>2. IsFiniteSet({k \in R : k < p})
    BY <1>3, <2>1, FS_Subset
  <2>3. Cardinality({k \in R : k < p}) \in Nat
    BY <2>2, FS_CardinalityType
  <2>4. QED
    BY <1>2, <2>2, <2>3
<1>5. number \in [1..n -> Int]
  <2>1. ASSUME NEW p \in 1..n PROVE number[p] \in Int
    <3>1. PICK c \in Nat : c = number[p]
      BY <1>4
    <3>2. QED
      BY <3>1
  <2>2. number = [p \in 1..n |-> number[p]]
    OBVIOUS
  <2>3. QED
    BY <2>1, <2>2
<1>6. ASSUME NEW j \in 1..m, NEW k \in 1..m, j < k
      PROVE  number[places[j]] < number[places[k]]
  <2>1. PICK x \in 1..n, y \in 1..n : x = places[j] /\ y = places[k] /\ x < y
    BY <1>1, <1>6
  <2>2. PICK S, T : S = {i \in R : i < x} /\ T = {i \in R : i < y}
    OBVIOUS
  <2>3. x \in R
    BY <1>1, <1>2, <2>1, RangeIs
  <2>4. S \subseteq T /\ x \in T /\ x \notin S
    <3>1. \A i \in R : i \in Int
      BY <1>3
    <3>2. ASSUME NEW i \in S PROVE i \in T
      <4>1. i \in R /\ i < x
        BY <2>2
      <4>2. i \in Int /\ x \in Int /\ y \in Int /\ x < y
        BY <2>1, <3>1, <4>1
      <4>3. i < y
        BY ONLY <4>1, <4>2
      <4>4. QED
        BY <2>2, <4>1, <4>3
    <3>3. x \in T
      BY <2>1, <2>2, <2>3
    <3>4. x \notin S
      <4>1. x \in Int /\ ~ (x < x)
        BY <2>1
      <4>2. QED
        BY <2>2, <4>1
    <3>5. QED
      BY <3>2, <3>3, <3>4
  <2>5. IsFiniteSet(S) /\ IsFiniteSet(T)
    BY <1>4, <2>2
  <2>6. PICK s \in Nat, t \in Nat : s = Cardinality(S) /\ t = Cardinality(T)
    BY <2>5, FS_CardinalityType
  <2>7. s <= t /\ s # t
    BY <2>4, <2>5, <2>6, FS_Subset
  <2>8. number[x] = s /\ number[y] = t
    BY <1>4, <2>2, <2>6
  <2>9. QED
    BY <2>1, <2>7, <2>8
<1>7. QED
  BY <1>1, <1>5, <1>6 DEF Growing

\* To leave some clauses out changes nothing between the others.
LEMMA AmongParsed ==
    ASSUME NEW n \in Nat, NEW C \in Seq(Parsed(n)), Ranked(C), InLine(C), NEW P
    PROVE  LET A == Among(C, P)
           IN  /\ A \in Seq(Parsed(n)) /\ Ranked(A) /\ InLine(A)
               /\ \A k \in 1..Len(C) : k \in P => \E j \in 1..Len(A) : A[j] = C[k]
<1>1. PICK A \in Seq(Parsed(n)) : A = Among(C, P) /\ \E e : Takes(e, A, C, P)
  BY AmongIs
<1>2. PICK e : Takes(e, A, C, P)
  BY <1>1
<1>3. PICK l \in Nat, m \in Nat : l = Len(A) /\ m = Len(C)
  BY LenProperties
<1>4. /\ e \in Seq(1..m) /\ Len(e) = l
      /\ \A j \in 1..l : A[j] = C[e[j]] /\ e[j] \in P
      /\ \A j, i \in 1..l : j < i => e[j] < e[i]
      /\ \A k \in 1..m : k \in P => \E j \in 1..l : e[j] = k
  BY <1>2, <1>3 DEF Takes
<1>5. \A j \in 1..l : e[j] \in 1..m
  <2>1. PICK T : T = 1..m
    OBVIOUS
  <2>2. e \in Seq(T) /\ Len(e) = l
    BY <1>4, <2>1
  <2>3. \A j \in 1..l : e[j] \in T
    BY ONLY <2>2
  <2>4. QED
    BY <2>1, <2>3
<1>6. ASSUME NEW j \in 1..l, NEW i \in 1..l, j < i
      PROVE  /\ A[i].start > A[j].end /\ A[i].index > A[j].index
             /\ \A p \in Range(A[j].body), q \in Range(A[i].body) : p < q
  <2>1. PICK x \in 1..m, y \in 1..m : x = e[j] /\ y = e[i] /\ x < y
    BY <1>4, <1>5, <1>6
  <2>2. A[j] = C[x] /\ A[i] = C[y]
    <3>1. A[j] = C[e[j]]
      BY ONLY <1>4, j \in 1..l
    <3>2. A[i] = C[e[i]]
      BY ONLY <1>4, i \in 1..l
    <3>3. QED
      BY ONLY <2>1, <3>1, <3>2
  <2>3. C[y].start > C[x].end /\ C[y].index > C[x].index
    BY <1>3, <2>1 DEF Ranked
  <2>4. \A p \in Range(C[x].body), q \in Range(C[y].body) : p < q
    BY <1>3, <2>1 DEF InLine
  <2>5. QED
    BY <2>2, <2>3, <2>4
<1>7. Ranked(A) /\ InLine(A)
  BY <1>3, <1>6 DEF Ranked, InLine
<1>8. ASSUME NEW k \in 1..m, k \in P PROVE \E j \in 1..l : A[j] = C[k]
  <2>1. PICK j \in 1..l : e[j] = k
    BY <1>4, <1>8
  <2>2. A[j] = C[k]
    <3>1. A[j] = C[e[j]]
      BY ONLY <1>4, j \in 1..l
    <3>2. QED
      BY ONLY <2>1, <3>1
  <2>3. QED
    BY <2>2
<1>9. QED
  BY <1>1, <1>3, <1>7, <1>8

\* The pieces of a PDF file are long, come in turn, and have every long line
\* that is no running header and no page number.
LEMMA PiecesAre ==
    ASSUME NEW F \in Seq(Row), F # <<>>
    PROVE  LET L == Paragraphs(F)
           IN  /\ L \in Seq(Seq(1..Len(F)))
               /\ \A k \in 1..Len(L) : JoinedLength(F, L[k]) > 20
               /\ \A j, k \in 1..Len(L) : j < k =>
                     \A p \in Range(L[j]), q \in Range(L[k]) : p < q
               /\ \A p \in 1..Len(F) :
                     ~ IsRepeated(F, F[p]) /\ "number" \notin F[p].marks /\ F[p].text > 20 =>
                        \E k \in 1..Len(L) : p \in Range(L[k])
<1>1. PICK n \in Nat : n = Len(F) /\ DOMAIN F = 1..n /\ n \in 1..n
  <2>1. Len(F) \in Nat /\ DOMAIN F = 1..Len(F) /\ Len(F) # 0
    BY NotEmpty
  <2>2. PICK l \in Nat : l = Len(F)
    BY <2>1
  <2>3. l = Len(F) /\ DOMAIN F = 1..l /\ l \in 1..l
    BY <2>1, <2>2
  <2>4. QED
    BY ONLY <2>3, l \in Nat, Zenon
<1> DEFINE Breaks(p) == {q \in 2..p : \/ "after gap" \in F[q].marks
                                      \/ F[q].page # F[q - 1].page}
           piece(p) == Cardinality(Breaks(p))
           here(k) == {p \in DOMAIN F : /\ ~ IsRepeated(F, F[p])
                                        /\ "number" \notin F[p].marks
                                        /\ piece(p) = k}
           pieces == [k \in 1..(piece(Len(F)) + 1) |-> InTurn(F, here(k - 1))]
           long == {k \in DOMAIN pieces : JoinedLength(F, pieces[k]) > 20}
<1>2. Paragraphs(F) = Among(pieces, long)
  BY Zenon DEF Paragraphs
<1>3. ASSUME NEW p \in 1..n, NEW q \in 1..n, p <= q
      PROVE  piece(p) \in Nat /\ piece(q) \in Nat /\ piece(p) <= piece(q)
  <2>1. Breaks(p) \in SUBSET Breaks(q)
    <3>1. 2..p \subseteq 2..q
      BY <1>3
    <3>2. QED
      BY <3>1
  <2>2. Breaks(q) \in SUBSET (2..q) /\ Breaks(p) \in SUBSET (2..p)
    OBVIOUS
  <2>3. IsFiniteSet(2..q) /\ IsFiniteSet(2..p)
    BY FS_Interval
  <2> HIDE DEF Breaks
  <2>4. IsFiniteSet(Breaks(q)) /\ IsFiniteSet(Breaks(p))
    BY <2>2, <2>3, FS_Subset
  <2>5. QED
    BY <2>1, <2>4, FS_Subset, FS_CardinalityType
<1>4. PICK t \in Nat : t = piece(n)
  <2> HIDE DEF piece
  <2>1. n <= n
    BY <1>1
  <2>2. piece(n) \in Nat
    BY <1>1, <1>3, <2>1
  <2>3. QED
    BY <2>2
<1>5. \A p \in 1..n : piece(p) \in Nat /\ piece(p) <= t
  <2> SUFFICES ASSUME NEW p \in 1..n PROVE piece(p) \in Nat /\ piece(p) <= t
    OBVIOUS
  <2>1. p <= n
    OBVIOUS
  <2> HIDE DEF piece
  <2>2. QED
    BY <1>1, <1>3, <1>4, <2>1
<1>6. \A k \in Nat : InTurn(F, here(k)) \in Seq(1..n)
  <2> HIDE DEF here
  <2> QED BY <1>1, InTurnIs
<1>7. ASSUME NEW k \in Nat, NEW p \in Range(InTurn(F, here(k)))
      PROVE  p \in 1..n /\ piece(p) = k
  <2>1. PICK A \in Seq(1..n) : A = InTurn(F, here(k)) /\ \A j \in 1..Len(A) : A[j] \in here(k)
    <3> HIDE DEF here
    <3> QED BY <1>1, InTurnIs
  <2>2. PICK j \in 1..Len(A) : A[j] = p
    <3> HIDE DEF here
    <3> QED BY <1>7, <2>1, RangeIs
  <2>3. p \in here(k)
    <3> HIDE DEF here
    <3> QED BY <2>1, <2>2
  <2> HIDE DEF piece
  <2>4. QED
    BY <1>1, <2>3
<1>8. ASSUME NEW k \in Nat, NEW p \in here(k) PROVE p \in Range(InTurn(F, here(k)))
  <2>1. p \in 1..n
    <3> HIDE DEF piece
    <3> QED BY <1>1, <1>8
  <2> HIDE DEF here
  <2>2. PICK A \in Seq(1..n) : A = InTurn(F, here(k)) /\ \E j \in 1..Len(A) : A[j] = p
    BY <1>1, <1>8, <2>1, InTurnIs
  <2>3. p \in Range(A)
    BY <2>2, RangeIs
  <2>4. QED
    BY <2>2, <2>3
<1>9. /\ Len(pieces) = t + 1 /\ DOMAIN pieces = 1..(t + 1) /\ pieces \in Seq(Seq(1..n))
      /\ \A k \in 1..(t + 1) : pieces[k] = InTurn(F, here(k - 1)) /\ k - 1 \in Nat
  <2>1. pieces = [k \in 1..(t + 1) |-> InTurn(F, here(k - 1))]
    BY <1>1, <1>4, Zenon
  <2> HIDE DEF pieces, here
  <2>2. PICK T : T = Seq(1..n)
    OBVIOUS
  <2>3. ASSUME NEW k \in 1..(t + 1) PROVE k - 1 \in Nat /\ InTurn(F, here(k - 1)) \in T
    <3>1. k - 1 \in Nat
      OBVIOUS
    <3>2. QED
      BY <1>6, <2>2, <3>1
  <2>4. pieces \in Seq(T) /\ Len(pieces) = t + 1 /\ DOMAIN pieces = 1..(t + 1)
    <3>1. t + 1 \in Nat
      OBVIOUS
    <3>2. \A k \in 1..(t + 1) : InTurn(F, here(k - 1)) \in T
      BY <2>3
    <3>3. QED
      BY ONLY <2>1, <3>1, <3>2
  <2>5. QED
    BY <2>1, <2>2, <2>3, <2>4
<1>10. PICK Q \in Seq(Seq(1..n)) : Q = pieces
  <2> HIDE DEF pieces
  <2> QED BY <1>9
<1>11. /\ Len(Q) = t + 1
       /\ \A k \in 1..(t + 1) : Q[k] = InTurn(F, here(k - 1)) /\ k - 1 \in Nat
  <2> HIDE DEF pieces, here
  <2> QED BY <1>9, <1>10
<1>12. PICK P : P = long /\ \A k \in 1..(t + 1) : k \in P <=> JoinedLength(F, Q[k]) > 20
  <2>1. DOMAIN Q = 1..(t + 1)
    <3> HIDE DEF pieces
    <3> QED BY <1>9, <1>10
  <2>2. long = {k \in DOMAIN Q : JoinedLength(F, Q[k]) > 20}
    BY <1>10, Zenon
  <2> HIDE DEF long, pieces, here, piece, Breaks
  <2>3. \A k \in 1..(t + 1) : k \in long <=> JoinedLength(F, Q[k]) > 20
    BY <2>1, <2>2
  <2>4. QED
    BY <2>3
<1>13. PICK L : L = Paragraphs(F) /\ L = Among(Q, P)
  BY <1>2, <1>10, <1>12, Zenon
<1> HIDE DEF pieces, long, here, piece, Breaks
<1>14. L \in Seq(Seq(1..n)) /\ \E e : Takes(e, L, Q, P)
  <2>1. PICK T : T = Seq(1..n)
    OBVIOUS
  <2>2. Q \in Seq(T)
    BY <2>1
  <2>3. L \in Seq(T) /\ \E e : Takes(e, L, Q, P)
    BY <1>13, <2>2, AmongIs
  <2>4. QED
    BY <2>1, <2>3
<1>15. PICK e : Takes(e, L, Q, P)
  BY <1>14
<1>16. PICK l \in Nat : l = Len(L)
  BY <1>14, LenProperties
<1>17. /\ e \in Seq(1..(t + 1)) /\ Len(e) = l
       /\ \A j \in 1..l : L[j] = Q[e[j]] /\ e[j] \in P
       /\ \A j, k \in 1..l : j < k => e[j] < e[k]
       /\ \A k \in 1..(t + 1) : k \in P => \E j \in 1..l : e[j] = k
  BY <1>11, <1>15, <1>16 DEF Takes
<1>18. \A j \in 1..l : e[j] \in 1..(t + 1)
  BY <1>17
<1>19. ASSUME NEW k \in 1..l PROVE JoinedLength(F, L[k]) > 20
  BY <1>12, <1>17, <1>18
<1>20. ASSUME NEW j \in 1..l, NEW k \in 1..l, j < k, NEW p \in Range(L[j]), NEW q \in Range(L[k])
       PROVE  p < q
  <2>1. PICK x \in 1..(t + 1), y \in 1..(t + 1) : x = e[j] /\ y = e[k] /\ x < y
    BY <1>17, <1>18, <1>20
  <2>2. L[j] = InTurn(F, here(x - 1)) /\ L[k] = InTurn(F, here(y - 1))
    BY <1>11, <1>17, <2>1
  <2>3. x - 1 \in Nat /\ y - 1 \in Nat
    OBVIOUS
  <2>4. p \in 1..n /\ piece(p) = x - 1 /\ q \in 1..n /\ piece(q) = y - 1
    BY <1>7, <1>20, <2>2, <2>3
  <2>5. ~ (q <= p)
    <3>1. SUFFICES ASSUME q <= p PROVE FALSE
      OBVIOUS
    <3>2. piece(q) <= piece(p)
      BY <1>3, <2>4, <3>1
    <3>3. y - 1 <= x - 1
      BY <2>4, <3>2
    <3>4. QED
      BY <2>1, <3>3
  <2>6. QED
    BY <2>4, <2>5
<1>21. ASSUME NEW p \in 1..n, ~ IsRepeated(F, F[p]), "number" \notin F[p].marks, F[p].text > 20
       PROVE  \E k \in 1..l : p \in Range(L[k])
  <2>1. PICK i \in Nat : i = piece(p) /\ i <= t
    BY <1>5
  <2>2. p \in here(i)
    BY <1>1, <1>21, <2>1 DEF here
  <2>3. p \in Range(InTurn(F, here(i)))
    BY <1>8, <2>2
  <2>4. i + 1 \in 1..(t + 1) /\ (i + 1) - 1 = i
    BY <2>1
  <2>5. PICK A \in Seq(1..n) : A = Q[i + 1] /\ A = InTurn(F, here(i))
    BY <1>6, <1>11, <2>4
  <2>6. PICK j \in 1..Len(A) : A[j] = p
    BY <2>3, <2>5, RangeIs
  <2>7. JoinedLength(F, A) > 20
    <3>1. JoinedLength(F, A) \in Int /\ \A k \in 1..Len(A) : JoinedLength(F, A) >= F[A[k]].text
      BY <1>1, JoinedLengthIs
    <3>2. PICK b \in Int, u \in Nat : b = JoinedLength(F, A) /\ u = F[p].text
      BY <1>1, <3>1, RowAt
    <3>3. b >= u
      <4>1. JoinedLength(F, A) >= F[A[j]].text
        BY <3>1
      <4>2. F[A[j]].text = u
        BY <2>6, <3>2
      <4>3. QED
        BY ONLY <3>2, <4>1, <4>2
    <3>4. u > 20
      BY <1>21, <3>2
    <3>5. b > 20
      BY ONLY <3>3, <3>4, b \in Int, u \in Nat
    <3>6. QED
      BY <3>2, <3>5
  <2>8. i + 1 \in P
    BY <1>12, <2>4, <2>5, <2>7
  <2>9. PICK k \in 1..l : e[k] = i + 1
    BY <1>17, <2>4, <2>8
  <2>10. L[k] = A
    BY <1>17, <2>5, <2>9
  <2>11. QED
    BY <2>3, <2>5, <2>10
<1>22. Paragraphs(F) \in Seq(Seq(1..Len(F)))
  BY <1>1, <1>13, <1>14
<1>23. \A k \in 1..Len(Paragraphs(F)) : JoinedLength(F, Paragraphs(F)[k]) > 20
  BY <1>13, <1>16, <1>19
<1>24. \A j, k \in 1..Len(Paragraphs(F)) : j < k =>
          \A p \in Range(Paragraphs(F)[j]), q \in Range(Paragraphs(F)[k]) : p < q
  BY <1>13, <1>16, <1>20
<1>25. \A p \in 1..Len(F) :
          ~ IsRepeated(F, F[p]) /\ "number" \notin F[p].marks /\ F[p].text > 20 =>
             \E k \in 1..Len(Paragraphs(F)) : p \in Range(Paragraphs(F)[k])
  BY <1>1, <1>13, <1>16, <1>21
<1>26. QED
  BY ONLY <1>22, <1>23, <1>24, <1>25

\* A line whose words are nowhere else is no running header.
LEMMA OnceIsNotRepeated ==
    ASSUME NEW F \in Seq(Row), F # <<>>, NEW p \in DOMAIN F,
           \A q \in DOMAIN F \ {p} : F[q].words # F[p].words
    PROVE  ~ IsRepeated(F, F[p])
<1>1. {q \in DOMAIN F : F[q].words = F[p].words} = {p}
  OBVIOUS
<1>2. Cardinality({q \in DOMAIN F : F[q].words = F[p].words}) = 1
  BY <1>1, FS_Singleton
<1>3. PICK pages \in Nat : pages = Pages(F)
  <2>1. Len(F) \in 1..Len(F)
    <3>1. Len(F) \in Nat /\ Len(F) # 0
      BY EmptySeq, LenProperties
    <3>2. QED
      BY <3>1
  <2>2. Pages(F) \in Nat
    BY <2>1, RowAt DEF Pages
  <2>3. QED
    BY <2>2
<1>4. ~ (1 >= IF pages \div 2 > 2 THEN pages \div 2 ELSE 2)
  <2>1. PICK half \in Int : half = pages \div 2
    BY <1>3
  <2>2. QED
    BY <2>1
<1>5. QED
  BY <1>2, <1>3, <1>4, Zenon DEF IsRepeated

\* A line that is in some clause of a PDF file, be there headings or not.
IsBodyLine(F, p) ==
    LET short == IF \E q \in DOMAIN F : IsText(F, F[q]) /\ IsHeadingLine(F, F[q]) THEN 9 ELSE 20
    IN  /\ F[p].text > short /\ ~ IsHeadingLine(F, F[p])
        /\ F[p].marks \cap {"margin", "number", "page n of m"} = {}
        /\ \A q \in DOMAIN F \ {p} : F[q].words # F[p].words

\* The clauses of a PDF file before the short ones are left out.
Unsifted(F) ==
    LET places   == InTurn(F, {p \in DOMAIN F : IsText(F, F[p])})
        headings == {p \in Range(places) : IsHeadingLine(F, F[p])}
        number   == [p \in DOMAIN F |-> Cardinality({k \in Range(places) : k < p})]
        pieces   == Paragraphs(F)
    IN  IF headings # {} THEN Grouped(F, places, headings, number)
        ELSE Separate(F, pieces, [k \in DOMAIN pieces |-> k - 1])

\* A clause whose body has a long line is left in.
LEMMA LongIsSubstantial ==
    ASSUME NEW F \in Seq(Row), NEW c \in Parsed(Len(F)), NEW p \in Range(c.body), F[p].text > 9
    PROVE  IsSubstantial(F, c)
<1>1. PICK n \in Nat : n = Len(F)
  BY LenProperties
<1>2. PICK b \in Seq(1..n) : b = c.body
  BY <1>1, ParsedFields
<1>3. PICK j \in 1..Len(b) : b[j] = p
  BY <1>2, RangeIs
<1>4. b # <<>>
  BY <1>3
<1>5. p \in 1..n
  BY <1>2, RangeIs
<1>6. PICK l \in Int, u \in Nat : l = JoinedLength(F, b) /\ u = F[p].text
  BY <1>1, <1>5, JoinedLengthIs, RowAt
<1>7. l >= u
  <2>1. \A k \in 1..Len(b) : JoinedLength(F, b) >= F[b[k]].text
    BY <1>1, JoinedLengthIs
  <2>2. QED
    BY <1>3, <1>6, <2>1
<1>8. BodyLength(F, c.heading, c.body) = l
  BY <1>2, <1>4, <1>6 DEF BodyLength
<1>9. l >= 10
  <2>1. u > 9
    BY <1>6
  <2>2. QED
    BY ONLY <1>7, <2>1, l \in Int, u \in Nat
<1>10. QED
  BY <1>8, <1>9 DEF IsSubstantial

\* All of a PDF file's long lines are in these clauses, in order.
LEMMA UnsiftedKeeps ==
    ASSUME NEW F \in Seq(Row), F # <<>>
    PROVE  LET C == Unsifted(F)
           IN  /\ C \in Seq(Parsed(Len(F))) /\ Ranked(C) /\ InLine(C)
               /\ \A p \in DOMAIN F : IsBodyLine(F, p) =>
                     \E k \in 1..Len(C) : p \in Range(C[k].body) /\ F[p].text > 9
<1>1. PICK n \in Nat : n = Len(F) /\ DOMAIN F = 1..n
  BY LenProperties
<1>2. PICK texts : texts = {p \in DOMAIN F : IsText(F, F[p])}
  OBVIOUS
<1>3. PICK places : places = InTurn(F, texts)
  OBVIOUS
<1>4. /\ places \in Seq(1..n) /\ \A j \in 1..Len(places) : places[j] \in texts
      /\ \A j, k \in 1..Len(places) : j < k => places[j] < places[k]
      /\ \A p \in 1..n : p \in texts => \E j \in 1..Len(places) : places[j] = p
  BY <1>1, <1>3, InTurnIs
<1>5. Range(places) = texts
  <2>1. /\ Range(places) \subseteq 1..n
        /\ \A p : p \in Range(places) <=> \E j \in 1..Len(places) : places[j] = p
    BY <1>4, RangeIs
  <2>2. texts \subseteq 1..n
    BY <1>1, <1>2
  <2>3. QED
    BY <1>4, <2>1, <2>2
<1>6. PICK headings : headings = {p \in Range(places) : IsHeadingLine(F, F[p])}
  OBVIOUS
<1>7. PICK number : number = [p \in DOMAIN F |-> Cardinality({k \in Range(places) : k < p})]
  OBVIOUS
<1>8. PICK pieces : pieces = Paragraphs(F)
  OBVIOUS
<1>9. PICK C : C = Unsifted(F)
  OBVIOUS
<1>10. C = IF headings # {} THEN Grouped(F, places, headings, number)
           ELSE Separate(F, pieces, [k \in DOMAIN pieces |-> k - 1])
  <2>1. PICK index : index = [k \in DOMAIN Paragraphs(F) |-> k - 1]
    OBVIOUS
  <2>2. Unsifted(F) = IF headings # {} THEN Grouped(F, places, headings, number)
                      ELSE Separate(F, Paragraphs(F), index)
    BY <1>2, <1>3, <1>6, <1>7, <2>1 DEF Unsifted
  <2>3. QED
    BY <1>8, <1>9, <2>1, <2>2
<1>11. ASSUME NEW p \in DOMAIN F, IsBodyLine(F, p)
       PROVE  /\ p \in texts /\ p \notin headings /\ F[p].text \in Nat
              /\ ~ IsRepeated(F, F[p]) /\ "number" \notin F[p].marks
              /\ headings # {} => F[p].text > 9
              /\ headings = {} => F[p].text > 20
  <2>1. /\ ~ IsHeadingLine(F, F[p])
        /\ F[p].marks \cap {"margin", "number", "page n of m"} = {}
        /\ \A q \in DOMAIN F \ {p} : F[q].words # F[p].words
    BY <1>11, Zenon DEF IsBodyLine
  <2>2. ~ IsRepeated(F, F[p])
    BY <2>1, OnceIsNotRepeated
  <2>3. IsText(F, F[p])
    BY <2>1, <2>2 DEF IsText
  <2>4. (\E q \in DOMAIN F : IsText(F, F[q]) /\ IsHeadingLine(F, F[q])) <=> headings # {}
    BY <1>2, <1>5, <1>6
  <2>5. F[p].text > IF headings # {} THEN 9 ELSE 20
    <3>1. PICK h \in BOOLEAN :
             h <=> \E q \in DOMAIN F : IsText(F, F[q]) /\ IsHeadingLine(F, F[q])
      <4>1. CASE \E q \in DOMAIN F : IsText(F, F[q]) /\ IsHeadingLine(F, F[q])
        BY <4>1
      <4>2. CASE ~ \E q \in DOMAIN F : IsText(F, F[q]) /\ IsHeadingLine(F, F[q])
        BY <4>2
      <4>3. QED
        BY <4>1, <4>2
    <3>2. F[p].text > IF \E q \in DOMAIN F : IsText(F, F[q]) /\ IsHeadingLine(F, F[q])
                      THEN 9 ELSE 20
      BY <1>11, Zenon DEF IsBodyLine
    <3>3. QED
      BY <2>4, <3>2
  <2>6. F[p].text \in Nat
    BY <1>1, RowAt
  <2>7. p \in texts /\ p \notin headings
    BY <1>2, <1>6, <2>1, <2>3
  <2>8. "number" \notin F[p].marks
    BY <2>1
  <2>9. (headings # {} => F[p].text > 9) /\ (headings = {} => F[p].text > 20)
    BY <2>5
  <2>10. QED
    BY <2>2, <2>6, <2>7, <2>8, <2>9
<1>12. CASE headings # {}
  <2>1. places # <<>>
    BY <1>6, <1>12, RangeFew
  <2>2. number \in [1..n -> Int] /\ Growing(places, number)
    BY <1>1, <1>4, <1>7, NumberIs
  <2>3. 0 \notin headings
    <3>1. texts \subseteq 1..n
      BY <1>1, <1>2
    <3>2. QED
      BY <1>5, <1>6, <3>1
  <2>4. /\ C \in Seq(Parsed(n)) /\ Ranked(C) /\ InLine(C)
        /\ Bodies(C) = Range(places) \ headings
    <3>1. C = Grouped(F, places, headings, number)
      BY <1>10, <1>12
    <3>2. QED
      BY <1>1, <1>4, <2>1, <2>2, <2>3, <3>1, GroupedIs
  <2>5. ASSUME NEW p \in DOMAIN F, IsBodyLine(F, p)
        PROVE  \E k \in 1..Len(C) : p \in Range(C[k].body) /\ F[p].text > 9
    <3>1. p \in texts /\ p \notin headings /\ F[p].text > 9
      BY <1>11, <1>12, <2>5
    <3>2. p \in Bodies(C)
      BY <1>5, <2>4, <3>1
    <3>3. \E k \in 1..Len(C) : p \in Range(C[k].body)
      BY <3>2 DEF Bodies
    <3>4. QED
      BY <3>1, <3>3
  <2>6. QED
    BY <1>1, <1>9, <2>4, <2>5
<1>13. CASE headings = {}
  <2>1. /\ pieces \in Seq(Seq(1..n))
        /\ \A k \in 1..Len(pieces) : JoinedLength(F, pieces[k]) > 20
        /\ \A j, k \in 1..Len(pieces) : j < k =>
              \A p \in Range(pieces[j]), q \in Range(pieces[k]) : p < q
        /\ \A p \in 1..n :
              ~ IsRepeated(F, F[p]) /\ "number" \notin F[p].marks /\ F[p].text > 20 =>
                 \E k \in 1..Len(pieces) : p \in Range(pieces[k])
    BY <1>1, <1>8, PiecesAre
  <2>2. PICK m \in Nat : m = Len(pieces) /\ DOMAIN pieces = 1..m
    BY <2>1, LenProperties
  <2>3. \A k \in 1..m : pieces[k] # <<>>
    <3>1. PICK none : none = <<>>
      OBVIOUS
    <3>2. none \in Seq(1..Len(F)) /\ ~ (-1 > 20)
      BY <3>1
    <3>3. JoinedLength(F, none) = -1
      BY <3>1, <3>2, JoinedLengthIs
    <3>4. QED
      BY <2>1, <2>2, <3>1, <3>2, <3>3
  <2>4. PICK index : index = [k \in DOMAIN pieces |-> k - 1]
    OBVIOUS
  <2>5. index \in [1..m -> Int] /\ \A j, k \in 1..m : j < k => index[j] < index[k]
    <3>1. index = [k \in 1..m |-> k - 1]
      BY <2>2, <2>4
    <3>2. QED
      BY ONLY <3>1, m \in Nat
  <2>6. C = Separate(F, pieces, index)
    BY <1>10, <1>13, <2>4
  <2>7. /\ C \in Seq(Parsed(n)) /\ Len(C) = m /\ Ranked(C)
        /\ \A k \in 1..m : Made(F, pieces[k], C[k])
    BY <1>1, <2>1, <2>2, <2>3, <2>5, <2>6, SeparateIs
  <2>8. \A k \in 1..m : C[k].body = pieces[k]
    BY <2>7 DEF Made
  <2>9. InLine(C)
    <3>1. SUFFICES ASSUME NEW j \in 1..m, NEW k \in 1..m, j < k,
                          NEW p \in Range(C[j].body), NEW q \in Range(C[k].body)
                   PROVE  p < q
      BY <2>7 DEF InLine
    <3>2. p \in Range(pieces[j]) /\ q \in Range(pieces[k])
      BY <2>8, <3>1
    <3>3. QED
      BY <2>1, <2>2, <3>1, <3>2
  <2>10. ASSUME NEW p \in DOMAIN F, IsBodyLine(F, p)
         PROVE  \E k \in 1..Len(C) : p \in Range(C[k].body) /\ F[p].text > 9
    <3>1. /\ ~ IsRepeated(F, F[p]) /\ "number" \notin F[p].marks
          /\ F[p].text > 20 /\ F[p].text \in Nat
      BY <1>11, <1>13, <2>10
    <3>2. PICK k \in 1..m : p \in Range(pieces[k])
      BY <1>1, <2>1, <2>2, <3>1
    <3>3. k \in 1..Len(C) /\ p \in Range(C[k].body)
      BY <2>7, <2>8, <3>2
    <3>4. F[p].text > 9
      BY <3>1
    <3>5. QED
      BY <3>3, <3>4
  <2>11. QED
    BY <1>1, <1>9, <2>7, <2>9, <2>10
<1>14. QED
  BY <1>12, <1>13

\* The lines of a PDF file are kept, and in order.
LEMMA LinesHold ==
    ASSUME Files, file # <<>>
    PROVE  LinesKept
<1>1. PICK n \in Nat : n = Len(file) /\ DOMAIN file = 1..n /\ file \in Seq(Row)
  BY LenProperties DEF Files
<1>2. PICK U : U = Unsifted(file)
  OBVIOUS
<1>3. /\ U \in Seq(Parsed(n)) /\ Ranked(U) /\ InLine(U)
      /\ \A p \in DOMAIN file : IsBodyLine(file, p) =>
            \E k \in 1..Len(U) : p \in Range(U[k].body) /\ file[p].text > 9
  BY <1>1, <1>2, UnsiftedKeeps
<1>4. PICK P : P = {k \in DOMAIN U : IsSubstantial(file, U[k])}
  OBVIOUS
<1>5. ParsePdf(file) = Among(U, P)
  <2>1. ParsePdf(file) = Among(Unsifted(file),
                               {k \in DOMAIN Unsifted(file) : IsSubstantial(file, Unsifted(file)[k])})
    BY Zenon DEF ParsePdf, Unsifted
  <2>2. QED
    BY <1>2, <1>4, <2>1
<1>6. /\ ParsePdf(file) \in Seq(Parsed(n)) /\ Ranked(ParsePdf(file)) /\ InLine(ParsePdf(file))
      /\ \A k \in 1..Len(U) : k \in P =>
            \E j \in 1..Len(ParsePdf(file)) : ParsePdf(file)[j] = U[k]
  BY <1>1, <1>3, <1>5, AmongParsed
<1>7. InOrder(ParsePdf(file)) /\ DOMAIN ParsePdf(file) = 1..Len(ParsePdf(file))
  BY <1>6, RankedInOrder, LenProperties
<1>8. ASSUME NEW p \in DOMAIN file, IsBodyLine(file, p)
      PROVE  \E k \in DOMAIN ParsePdf(file) : p \in Range(ParsePdf(file)[k].body)
  <2>1. PICK k \in 1..Len(U) : p \in Range(U[k].body) /\ file[p].text > 9
    BY <1>3, <1>8
  <2>2. PICK c \in Parsed(n) : c = U[k]
    BY <1>3
  <2>3. IsSubstantial(file, c)
    BY <1>1, <2>1, <2>2, LongIsSubstantial
  <2>4. k \in P
    <3>1. k \in DOMAIN U
      BY <1>3, LenProperties
    <3>2. QED
      BY <1>4, <2>2, <2>3, <3>1
  <2>5. PICK j \in 1..Len(ParsePdf(file)) : ParsePdf(file)[j] = U[k]
    BY <1>6, <2>4
  <2>6. QED
    BY <1>7, <2>1, <2>5
<1>9. \A k, l \in DOMAIN ParsePdf(file) :
         \A p \in Range(ParsePdf(file)[k].body), q \in Range(ParsePdf(file)[l].body) :
            k < l => p < q
  BY <1>6, <1>7, Zenon DEF InLine
<1>10. QED
  BY <1>7, <1>8, <1>9, Zenon DEF LinesKept, IsBodyLine

\* FileKept, of every file that is read: what the parsers make of a file is the
\* file.  The paragraphs of a DOCX file with a text are the sources of its
\* clauses, in turn and each once, with their tracked changes; the lines of a
\* PDF file that count are in its clauses; and clauses lie behind each other.
THEOREM FileKeptAlways == Spec => []FileKept
<1>1. Files => FileKept
  BY ParagraphsHold, LinesHold DEF FileKept
<1>2. QED
  BY <1>1, FilesAlways, PTL

=============================================================================
