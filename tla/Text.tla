-------------------------------- MODULE Text --------------------------------
(***************************************************************************)
(* What the regular expressions of the agents see of a contract.  A        *)
(* contract is a sequence of clauses [heading, text]; a text is a sequence *)
(* of phrases, each a sentence with at most one number.  A phrase has      *)
(*   marks     the patterns that match in it, by name: a hint, an option,  *)
(*             a rule, a clause type, all before or around its number;     *)
(*   standard  the concepts whose template signals match in it;            *)
(*   number    its unit, its digits and its words, each may be Absent:     *)
(*             "30 days", "thirty days", "thirty (30) days".               *)
(* Patterns that reach over the end of a sentence are not modelled, but    *)
(* the hints of clause_analyzer.py do reach on: see Reach.                 *)
(***************************************************************************)
EXTENDS ValueDiff, Sequences

CONSTANT Reach      \* bound: the phrases that a hint reaches, its own included

ASSUME ReachAssumption == Reach \in Nat \ {0}

Number(unit, digits, words) == [words |-> words, unit |-> unit, digits |-> digits]

NoNumber == Number("none", Absent, Absent)

Foremost(positions) == CHOOSE i \in positions : \A j \in positions : i <= j

\* Where a pattern matches.
Marked(text, mark) == {i \in DOMAIN text : mark \in text[i].marks}
MarkedAny(text, marks) == {i \in DOMAIN text : text[i].marks \cap marks # {}}

Matches(text, mark) == Marked(text, mark) # {}

\* Numbers of a unit, as "30 days", and those with words.
InDigits(text, unit) ==
    {i \in DOMAIN text : /\ text[i].number.unit = unit
                         /\ text[i].number.digits # Absent /\ text[i].number.words = Absent}
InWords(text, unit) ==
    {i \in DOMAIN text : text[i].number.unit = unit /\ text[i].number.words # Absent}
InBoth(text, unit) == {i \in InWords(text, unit) : text[i].number.digits # Absent}

\* The digits and the words of the first of some phrases.
DigitsAt(text, positions) ==
    IF positions = {} THEN Absent ELSE text[Foremost(positions)].number.digits
WordsAt(text, positions) ==
    IF positions = {} THEN Absent ELSE text[Foremost(positions)].number.words

Times(factor, value) == IF value = Absent THEN Absent ELSE factor * value

\* The first value that a list of readings gives, one pattern after the other.
FirstRead(readings) ==
    LET read == {k \in DOMAIN readings : readings[k] # Absent}
    IN  IF read = {} THEN Absent ELSE readings[Foremost(read)]

\* agents join the bodies of all clauses.
Joined(contract) ==
    LET joined[n \in 0..Len(contract)] ==
            IF n = 0 THEN <<>> ELSE joined[n - 1] \o contract[n].text
    IN  joined[Len(contract)]

\* A text that is not too short to be looked at (under 30 characters for the law,
\* under 20 for concepts, which skip noise, too): one phrase marked "brief".
LongEnough(text) == Len(text) > 1 \/ \E i \in DOMAIN text : "brief" \notin text[i].marks

=============================================================================
