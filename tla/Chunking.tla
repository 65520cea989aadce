------------------------------ MODULE Chunking ------------------------------
(***************************************************************************)
(* ai/chunking.py: the clauses of a document become chunks for embedding.  *)
(* A clause is [id, text], its text the sequence of its words; a word is   *)
(* any value.  Tokens are counted as they are without tiktoken, which is   *)
(* not among the dependencies.                                             *)
(***************************************************************************)
EXTENDS Naturals, Sequences, SequencesExt

\* round(1.3 * words), halves to even; at least one for a text that is not
\* empty.
Tokens(words) ==
    LET q == (13 * words) \div 10
        r == (13 * words) % 10
    IN  IF r > 5 \/ (r = 5 /\ q % 2 = 1) THEN q + 1 ELSE q

\* As MergeTiny would be if the last fragment were dropped.
MergeTinyForward(clauses, min) ==
    LET step(acc, c) ==
            LET text == acc.carry \o c.text
            IN  IF Tokens(Len(text)) < min
                THEN [acc EXCEPT !.carry = text, !.last = <<[c EXCEPT !.text = text]>>]
                ELSE [carry |-> <<>>, last |-> <<>>,
                      out |-> Append(acc.out, [c EXCEPT !.text = text])]
    IN  FoldLeft(step, [carry |-> <<>>, last |-> <<>>, out |-> <<>>], clauses).out

\* Pass 1: a clause below min goes in front of the next one; the last fragment
\* is kept as it is.
MergeTiny(clauses, min) ==
    LET step(acc, c) ==
            LET text == acc.carry \o c.text
            IN  IF Tokens(Len(text)) < min
                THEN [acc EXCEPT !.carry = text, !.last = <<[c EXCEPT !.text = text]>>]
                ELSE [carry |-> <<>>, last |-> <<>>,
                      out |-> Append(acc.out, [c EXCEPT !.text = text])]
        end == FoldLeft(step, [carry |-> <<>>, last |-> <<>>, out |-> <<>>], clauses)
    IN  end.out \o end.last

\* As OverlapCap would be if the overlap could be as large as a chunk.
OverlapUncapped(max, overlap) == overlap

OverlapCap(max, overlap) == IF overlap < max \div 3 THEN overlap ELSE max \div 3

\* The longest end of a chunk that is within the overlap.
OverlapTail(words, cap) ==
    LET n == CHOOSE n \in 0..Len(words) :
                 /\ Tokens(n) <= cap
                 /\ n = Len(words) \/ Tokens(n + 1) > cap
    IN  SubSeq(words, Len(words) - n + 1, Len(words))

\* A clause above max is cut, each piece beginning with the end of the one
\* before it.
Split(c, max, overlap) ==
    LET step(acc, word) ==
            IF acc.cur # <<>> /\ Tokens(Len(acc.cur) + 1) > max
            THEN [cur |-> Append(OverlapTail(acc.cur, OverlapCap(max, overlap)), word),
                  out |-> Append(acc.out, acc.cur)]
            ELSE [acc EXCEPT !.cur = Append(@, word)]
        end == FoldLeft(step, [cur |-> <<>>, out |-> <<>>], c.text)
        texts == IF end.cur = <<>> THEN end.out ELSE Append(end.out, end.cur)
    IN  [i \in DOMAIN texts |-> [clause |-> c.id, index |-> i - 1, text |-> texts[i]]]

\* Pass 2: one chunk for a clause, or its pieces.
ChunksOf(c, max, overlap) ==
    IF Tokens(Len(c.text)) <= max
    THEN <<[clause |-> c.id, index |-> 0, text |-> c.text]>>
    ELSE Split(c, max, overlap)

ChunkClauses(clauses, max, overlap, min) ==
    LET merged == MergeTiny(clauses, min)
    IN  FlattenSeq([i \in DOMAIN merged |-> ChunksOf(merged[i], max, overlap)])

=============================================================================
