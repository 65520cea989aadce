----------------------------- MODULE Retrieval ------------------------------
(***************************************************************************)
(* services/retrieval_service.py: the hits of the vector search and of the *)
(* lexical search are fused by reciprocal rank.  A ranking is a sequence   *)
(* of chunk ids, best first; a score is a fraction, compared exactly.      *)
(***************************************************************************)
EXTENDS Integers, Sequences, FiniteSets

Hits(ranking) == {ranking[i] : i \in DOMAIN ranking}

\* The best position of an id, from 0.
Rank(ranking, id) ==
    (CHOOSE i \in DOMAIN ranking :
        ranking[i] = id /\ \A j \in DOMAIN ranking : ranking[j] = id => i <= j) - 1

\* As Score would be if a hit counted in its better ranking only.
ScoreBest(vec, lex, k, id) ==
    LET a == k + Rank(vec, id) + 1
        b == k + Rank(lex, id) + 1
    IN  IF id \in Hits(vec) /\ (id \notin Hits(lex) \/ a <= b)
        THEN [num |-> 1, den |-> a] ELSE [num |-> 1, den |-> b]

\* The sum of 1 / (k + rank + 1) over the rankings that have the id.
Score(vec, lex, k, id) ==
    LET a == k + Rank(vec, id) + 1
        b == k + Rank(lex, id) + 1
    IN  IF id \in Hits(vec) \cap Hits(lex) THEN [num |-> a + b, den |-> a * b]
        ELSE IF id \in Hits(vec) THEN [num |-> 1, den |-> a]
        ELSE [num |-> 1, den |-> b]

Above(s, t) == s.num * t.den > t.num * s.den

\* Equal scores stay in the order in which the ids were first met.
FirstMet(vec, lex, id) ==
    IF id \in Hits(vec) THEN Rank(vec, id) ELSE Len(vec) + Rank(lex, id)

Before(vec, lex, k, x, y) ==
    LET s == Score(vec, lex, k, x)
        t == Score(vec, lex, k, y)
    IN  \/ Above(s, t)
        \/ ~ Above(t, s) /\ FirstMet(vec, lex, x) < FirstMet(vec, lex, y)

\* The ids among the first limit of the fused list.
Top(vec, lex, k, limit) ==
    LET ids == Hits(vec) \cup Hits(lex)
    IN  {x \in ids : Cardinality({y \in ids : Before(vec, lex, k, y, x)}) < limit}

\* As Candidates would be if each backend were asked for the limit only.
CandidatesLimit(ranking, limit, multiplier) ==
    SubSeq(ranking, 1, IF limit < Len(ranking) THEN limit ELSE Len(ranking))

\* What a backend is asked for.
Candidates(ranking, limit, multiplier) ==
    LET n == limit * multiplier
    IN  SubSeq(ranking, 1, IF n < Len(ranking) THEN n ELSE Len(ranking))

Retrieve(vec, lex, k, limit, multiplier) ==
    Top(Candidates(vec, limit, multiplier), Candidates(lex, limit, multiplier), k, limit)

=============================================================================
