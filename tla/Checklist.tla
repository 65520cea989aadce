----------------------------- MODULE Checklist ------------------------------
(***************************************************************************)
(* agents/checklist_validator.py: the fields read from a whole contract,   *)
(* and what the rules of a tenant's checklist say of them.  A date is a    *)
(* number of unit "date"; amounts are rupees, those of unit "lakh" are     *)
(* "75 lakhs" or "fifty lakhs (5000000)"; a notice is in hundredths of a   *)
(* month, as the code rounds it.  A rule's field may be Absent, as may     *)
(* each bound of a rule that is not built in.                              *)
(***************************************************************************)
EXTENDS Text

\* The written numbers that the patterns for each field know.
DurationWords == {12, 18, 20, 30, 31, 32, 35, 36, 40, 42, 45, 48, 50, 60, 70, 72, 80, 84, 90,
                  96, 100} \cup (24..29)
CommonDays    == {14, 20, 21, 30, 40, 45, 60, 90}
NumberedDays  == (1..49) \cup {50, 60, 70, 80, 90}
NoticeWords   == {7, 14, 15, 30, 45, 60, 90}
AdvanceWords  == {10, 20, 30, 40, 50}

\* _WORD_TO_NUM.
Spelled == (0..42) \cup {45, 48, 50, 54, 60, 66, 70, 72, 75, 80, 84, 90, 96, 100}

WordedAs(text, unit, words) == {i \in InWords(text, unit) : text[i].number.words \in words}

\* The sentences about a topic, or all if there are none.
About(text, marks) ==
    IF MarkedAny(text, marks) = {} THEN DOMAIN text ELSE MarkedAny(text, marks)

-----------------------------------------------------------------------------
\* Any months of the contract, then any years.
DurationMonths(text) ==
    FirstRead(<<DigitsAt(text, InDigits(text, "month")),
                Times(12, DigitsAt(text, InDigits(text, "year"))),
                WordsAt(text, WordedAs(text, "month", DurationWords)),
                Times(12, WordsAt(text, WordedAs(text, "year", 1..10)))>>)

\* The longest name comes first, wherever it stands.
Cities == <<"chandigarh", "new delhi", "bangalore", "bengaluru", "hyderabad", "ahmedabad",
            "chennai", "kolkata", "lucknow", "mumbai", "jaipur", "nagpur", "bhopal",
            "delhi", "surat", "kochi", "pune">>

\* The marks of a clause from the first mention of a topic on.
Section(contract, topic) ==
    LET clauses == {i \in DOMAIN contract : Matches(contract[i].text, topic)}
        text    == contract[Foremost(clauses)].text
        from    == Foremost(Marked(text, topic))
    IN  IF clauses = {} THEN {}
        ELSE UNION {text[p].marks : p \in {q \in DOMAIN text : from <= q /\ q < from + Reach}}

CourtCity(contract) ==
    LET disputes == UNION {Section(contract, topic) :
                       topic \in {"dispute", "courts at", "seat of arbitration", "exclusive jurisdiction"}}
        text     == Joined(contract)
        all      == UNION {text[p].marks : p \in DOMAIN text}
        searched == IF disputes = {} THEN all ELSE disputes
        named    == {k \in DOMAIN Cities : Cities[k] \in searched}
    IN  IF named # {} THEN Cities[Foremost(named)]
        ELSE IF "courts at another city" \in all THEN "another city" ELSE Absent

\* "30%", also in "thirty percent (30%)".
AdvancePercent(text) ==
    LET advance == {i \in Marked(text, "advance") : text[i].number.unit = "percent"}
    IN  FirstRead(<<DigitsAt(text, {i \in advance : text[i].number.digits # Absent}),
                    WordsAt(text, advance \cap WordedAs(text, "percent", AdvanceWords))>>)

ContractValue(text) ==
    LET worded == WordedAs(text, "lakh", (1..10) \cup {20, 30, 40, 50, 60, 70, 75, 80, 90, 100})
        first  == {i \in worded : i = Foremost(worded)}
    IN  FirstRead(<<Times(100000, DigitsAt(text, InDigits(text, "lakh"))),
                    DigitsAt(text, first), Times(100000, WordsAt(text, first)),
                    DigitsAt(text, InDigits(text, "inr"))>>)

\* Only after "within" are digits read.  Of the common numbers the words count
\* and not the digits beside them, of others the digits.
PaymentDays(text) ==
    LET sentences == About(text, {"payment terms", "shall pay", "pay the vendor", "invoice", "of invoice"})
        other == sentences \cap WordedAs(text, "day", NumberedDays)
        known == {i \in other : text[i].number.digits # Absent \/ text[i].number.words \in Spelled}
        first == {i \in known : i = Foremost(known)}
    IN  FirstRead(<<DigitsAt(text, sentences \cap Marked(text, "within") \cap InDigits(text, "day")),
                    WordsAt(text, sentences \cap WordedAs(text, "day", CommonDays)),
                    DigitsAt(text, first), WordsAt(text, first)>>)

\* round(days / 30, 2): a third never is halfway between two hundredths.
Hundredths(days) == IF days = Absent THEN Absent ELSE (20 * days + 3) \div 6

\* Months are read in digits only.
NoticeMonths(text) ==
    LET sentences == About(text, {"terminate", "cancel"})
        notice    == sentences \cap Marked(text, "written notice")
        worded    == notice \cap WordedAs(text, "day", NoticeWords)
        first     == {i \in worded : i = Foremost(worded)}
    IN  FirstRead(<<Times(100, DigitsAt(text, notice \cap InDigits(text, "month"))),
                    Hundredths(DigitsAt(text, notice \cap InDigits(text, "day"))),
                    Hundredths(DigitsAt(text, first)), Hundredths(WordsAt(text, first))>>)

\* The agreement date is the earliest date of the contract, whatever date that is.
AgreementDate(text) ==
    LET dates == {text[i].number.digits : i \in InDigits(text, "date")}
    IN  IF dates = {} THEN Absent ELSE Foremost(dates)

Extracted(contract) ==
    LET text == Joined(contract)
    IN  [agreement_duration_months |-> DurationMonths(text),
         agreement_date            |-> AgreementDate(text),
         dispute_court_city        |-> CourtCity(contract),
         advance_payment_percent   |-> AdvancePercent(text),
         contract_value_inr        |-> ContractValue(text),
         termination_notice_months |-> NoticeMonths(text),
         payment_days              |-> PaymentDays(text)]

-----------------------------------------------------------------------------
\* What a rule says of a value.
Judged(value, fails) ==
    IF value = Absent THEN "not_found" ELSE IF fails THEN "fail" ELSE "ok"

Outside(value, low, high) ==
    (low # Absent /\ value < low) \/ (high # Absent /\ value > high)

\* Rules A to F; the bounds of F are in hundredths of a month, too.
Builtin(rule, values, today) ==
    CASE rule.code = "A" -> Judged(values.agreement_duration_months,
                                   Outside(values.agreement_duration_months, rule.low, rule.high))
      [] rule.code = "B" -> Judged(values.agreement_date, values.agreement_date < today)
      [] rule.code = "C" -> Judged(values.dispute_court_city,
                                   values.dispute_court_city \notin rule.allowed)
      [] rule.code = "D" -> Judged(values.advance_payment_percent,
                                   values.advance_payment_percent > rule.high)
      [] rule.code = "E" -> Judged(values.contract_value_inr,
                                   values.contract_value_inr >= rule.high)
      [] rule.code = "F" -> Judged(values.termination_notice_months,
                                   Outside(values.termination_notice_months, rule.low, rule.high))

BuiltinCodes == {"A", "B", "C", "D", "E", "F"}

FieldOf(rule) ==
    IF rule.field = Absent /\ rule.type \in {"date_future", "date_past"}
    THEN "agreement_date" ELSE rule.field

\* Rules of other codes, by their type.
Custom(rule, values, today) ==
    LET field == FieldOf(rule)
        value == IF field \in DOMAIN values THEN values[field] ELSE Absent
    IN  IF field = Absent THEN "not_found"
        ELSE CASE rule.type = "boolean_present"  -> IF value = Absent THEN "fail" ELSE "ok"
               [] rule.type = "numeric_range"    -> Judged(value, Outside(value, rule.low, rule.high))
               [] rule.type = "max_value"        -> Judged(value, Outside(value, Absent, rule.high))
               [] rule.type = "min_value"        -> Judged(value, Outside(value, rule.low, Absent))
               [] rule.type = "string_allowlist" -> Judged(value, value \notin rule.allowed)
               [] rule.type = "date_future"      -> Judged(value, value <= today)
               [] rule.type = "date_past"        -> Judged(value, value >= today)
               [] OTHER                          -> "not_found"

Result(rule, values, today) ==
    IF rule.code \in BuiltinCodes THEN Builtin(rule, values, today) ELSE Custom(rule, values, today)

Rule(code, type, field, low, high) ==
    [code |-> code, type |-> type, field |-> field, low |-> low, high |-> high,
     allowed |-> {"mumbai"}, sev |-> High]

\* The built-in rules with their default configuration.
DefaultRules ==
    {Rule("A", "builtin", Absent, 12, 36), Rule("B", "builtin", Absent, Absent, Absent),
     Rule("C", "builtin", Absent, Absent, Absent), Rule("D", "builtin", Absent, Absent, 10),
     Rule("E", "builtin", Absent, Absent, 5000000), Rule("F", "builtin", Absent, 100, 300)}

\* As PaymentChecks would be if the limits were not allowed.
PaymentChecksStrict(values) ==
    LET days == values.payment_days
    IN  IF days = Absent THEN {}
        ELSE {check \in {"MSME_PAY", "PAY_STD"} : days >= IF check = "MSME_PAY" THEN 45 ELSE 30}

\* The limits of the MSME Act and of the standard terms, in any checklist.
PaymentChecks(values) ==
    LET days == values.payment_days
    IN  IF days = Absent THEN {}
        ELSE {check \in {"MSME_PAY", "PAY_STD"} : days > IF check = "MSME_PAY" THEN 45 ELSE 30}

\* A value that is not found is worth an information.
ChecklistFindings(contract, rules, today) ==
    LET values == Extracted(contract)
    IN  {[code |-> rule.code,
          sev  |-> IF Result(rule, values, today) = "fail" THEN rule.sev ELSE 0] :
             rule \in {r \in rules : Result(r, values, today) # "ok"}}
        \cup {[code |-> check, sev |-> IF check = "MSME_PAY" THEN High ELSE Medium] :
                 check \in PaymentChecks(values)}

=============================================================================
