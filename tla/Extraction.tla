----------------------------- MODULE Extraction -----------------------------
(***************************************************************************)
(* agents/clause_analyzer.py: the type of a clause, the values read from   *)
(* its text for that type, and the changes between two versions of it.  A  *)
(* heading is the set of its marks, the clause types whose pattern matches *)
(* it among them, and holds no number; in a text, a mark that is a clause  *)
(* type stands for its body pattern.  Of countries, only two are known.    *)
(* Amounts are rupees, those of unit "lakh" have a multiplier; years and   *)
(* minutes are whole months and whole hours.                               *)
(***************************************************************************)
EXTENDS Text

HeadingOrder ==
    <<"payment", "termination", "liability", "indemnity", "confidentiality",
      "intellectual_property", "warranty", "jurisdiction", "data_protection", "insurance",
      "force_majeure", "assignment", "audit_rights", "exclusivity", "non_compete",
      "non_solicitation", "data_retention", "governing_law", "change_of_control", "renewal",
      "service_credits", "escalation", "subcontracting", "sla", "definitions", "scope",
      "representations", "dispute_resolution", "general">>

BodyOrder ==
    <<"payment", "termination", "liability", "indemnity", "confidentiality",
      "intellectual_property", "warranty", "jurisdiction", "data_protection", "insurance",
      "force_majeure", "assignment", "audit_rights", "exclusivity", "non_compete",
      "non_solicitation", "data_retention", "governing_law", "renewal", "sla",
      "subcontracting", "dispute_resolution">>

ClauseTypes == {HeadingOrder[k] : k \in DOMAIN HeadingOrder} \cup {"miscellaneous"}

\* The first name of a list that is in a set.
FirstIn(list, set) ==
    LET found == {k \in DOMAIN list : list[k] \in set}
    IN  IF found = {} THEN Absent ELSE list[Foremost(found)]

AllMarks(text) == UNION {text[p].marks : p \in DOMAIN text}

Classify(clause) ==
    FirstRead(<<FirstIn(HeadingOrder, clause.heading), FirstIn(BodyOrder, AllMarks(clause.text)),
                "miscellaneous">>)

-----------------------------------------------------------------------------
\* The text from a phrase on, as far as a hint reaches.
Stretch(text, from) ==
    SubSeq(text, from, IF from + Reach <= Len(text) THEN from + Reach - 1 ELSE Len(text))

\* As Near would be if a field without its hint were looked for everywhere.
NearAnywhere(text, hints) ==
    IF MarkedAny(text, hints) = {} THEN text ELSE Stretch(text, Foremost(MarkedAny(text, hints)))

\* The text from the first of some hints on; none without a hint.
Near(text, hints) ==
    IF MarkedAny(text, hints) = {} THEN <<>> ELSE Stretch(text, Foremost(MarkedAny(text, hints)))

\* _WORD_NUM up to ninety-six.
WordNum == (0..32) \cup {35, 36, 38, 40, 45, 48, 50, 54, 60, 70, 72, 75, 80, 84, 90, 96}

\* Numbers below a thousand.  "one hundred" matches but is looked up with a
\* hyphen, which the table does not have; of other numbers that it lacks the
\* pattern finds the last word: "hundred", "three" in "thirty-three".
Resolved(words) ==
    IF words = 100 THEN Absent
    ELSE IF words > 100 /\ words % 100 = 0 THEN 100
    ELSE IF words % 100 \in WordNum THEN words % 100 ELSE words % 10

\* Digits come first, wherever they stand; then "thirty (30)"; then words.
InUnit(text, unit) ==
    LET worded == InWords(text, unit)
        first  == {i \in worded : i = Foremost(worded)}
    IN  FirstRead(<<DigitsAt(text, InDigits(text, unit)), DigitsAt(text, first),
                    IF first = {} THEN Absent ELSE Resolved(WordsAt(text, first))>>)

Days(text, hints) == InUnit(Near(text, hints), "day")

Months(text, hints) ==
    FirstRead(<<InUnit(Near(text, hints), "month"), Times(12, InUnit(Near(text, hints), "year"))>>)

Hours(text, hints) == InUnit(Near(text, hints), "hour")

\* "30%", also in "thirty percent (30%)".
Percent(text, hints) ==
    LET near  == Near(text, hints)
        given == {i \in DOMAIN near : near[i].number.unit = "percent" /\ near[i].number.digits # Absent}
    IN  FirstRead(<<DigitsAt(near, given), InUnit(near, "percent")>>)

\* Digits in parentheses, digits with a multiplier, words, plain digits.
Amount(text, hints) ==
    LET near == Near(text, hints)
    IN  FirstRead(<<DigitsAt(near, InBoth(near, "lakh")),
                    Times(100000, DigitsAt(near, InDigits(near, "lakh"))),
                    Times(100000, WordsAt(near, InWords(near, "lakh"))),
                    DigitsAt(near, InDigits(near, "inr"))>>)

-----------------------------------------------------------------------------
\* The types that a field is read for; those of every clause first.
ReadFor(field) ==
    CASE field \in {"duration_months", "contract_value_inr"} -> ClauseTypes
      [] field \in {"payment_days", "advance_percent", "penalty_percent", "interest_rate",
                    "late_payment_interest"}                 -> {"payment", "miscellaneous"}
      [] field = "notice_days"                               -> {"termination", "miscellaneous"}
      [] field \in {"liability_cap_inr", "liability_cap_months"}
                                                             -> {"liability", "indemnity", "miscellaneous"}
      [] field = "confidentiality_years"                     -> {"confidentiality", "miscellaneous"}
      [] field = "warranty_days"                             -> {"warranty"}
      [] field \in {"sla_uptime_percent", "sla_response_time_hours"} -> {"sla"}
      [] field = "insurance_amount_inr"                      -> {"insurance"}
      [] field = "non_compete_months"                        -> {"non_compete"}
      [] field = "non_solicitation_months"                   -> {"non_solicitation"}
      [] field = "data_retention_days"                       -> {"data_retention", "data_protection"}
      [] field = "renewal_notice_days"                       -> {"renewal"}
      [] field = "service_credit_percent"                    -> {"service_credits", "sla"}
      [] field = "audit_frequency_months"                    -> {"audit_rights"}
      [] field = "test_coverage_percent"                     -> {"sla", "scope"}

\* Readings that fall back on another.
NoticeDays(text) == FirstRead(<<Days(text, {"terminate", "cancel"}), Days(text, {"written notice"})>>)

NonZero(value) == IF value = 0 THEN Absent ELSE value

ConfidentialityYears(text) ==
    LET months == NonZero(Months(text, {"confidential"}))
    IN  IF months = Absent THEN Absent ELSE months \div 12

WarrantyDays(text) ==
    FirstRead(<<Days(text, {"warranty"}), Times(30, NonZero(Months(text, {"warranty"})))>>)

ResponseHours(text) ==
    LET minutes == DigitsAt(text, InDigits(text, "minute"))
    IN  FirstRead(<<Hours(text, {"response time"}), IF minutes = Absent THEN Absent ELSE minutes \div 60>>)

RetentionDays(text) ==
    FirstRead(<<Days(text, {"retain data"}), Times(30, NonZero(Months(text, {"retain data", "retention period"})))>>)

Value(text, field) ==
    CASE field = "duration_months"         -> Months(text, {"term of", "period of", "remain in force", "commence"})
      [] field = "contract_value_inr"      -> Amount(text, {"contract value", "shall not exceed"})
      [] field = "payment_days"            -> Days(text, {"shall pay", "pay the vendor", "within", "invoice"})
      [] field = "advance_percent"         -> Percent(text, {"advance"})
      [] field = "penalty_percent"         -> Percent(text, {"penalty of"})
      [] field = "interest_rate"           -> Percent(text, {"interest rate"})
      [] field = "late_payment_interest"   -> Percent(text, {"late payment interest"})
      [] field = "notice_days"             -> NoticeDays(text)
      [] field = "liability_cap_inr"       -> Amount(text, {"aggregate liability"})
      [] field = "liability_cap_months"    -> Months(text, {"aggregate liability"})
      [] field = "confidentiality_years"   -> ConfidentialityYears(text)
      [] field = "warranty_days"           -> WarrantyDays(text)
      [] field = "sla_uptime_percent"      -> Percent(text, {"uptime"})
      [] field = "sla_response_time_hours" -> ResponseHours(text)
      [] field = "insurance_amount_inr"    -> Amount(text, {"insurance of"})
      [] field = "non_compete_months"      -> Months(text, {"non-compete"})
      [] field = "non_solicitation_months" -> Months(text, {"non-solicit"})
      [] field = "data_retention_days"     -> RetentionDays(text)
      [] field = "renewal_notice_days"     -> Days(text, {"renewal notice"})
      [] field = "service_credit_percent"  -> Percent(text, {"service credit"})
      [] field = "audit_frequency_months"  -> Months(text, {"audit once"})
      [] field = "test_coverage_percent"   -> Percent(text, {"test coverage"})

Numeric(text, type) ==
    [field \in Fields |-> IF type \in ReadFor(field) THEN Value(text, field) ELSE Absent]

-----------------------------------------------------------------------------
\* The city names, in the order that they are tried.
KnownCities == <<"new delhi", "mumbai", "bengaluru", "bangalore", "hyderabad", "chennai",
                 "kolkata", "pune", "ahmedabad", "singapore", "london", "new york">>

\* The marks of the first phrase with a mark, none if there is no such phrase.
MarksOfFirst(text, mark) ==
    IF Matches(text, mark) THEN text[Foremost(Marked(text, mark))].marks ELSE {}

CourtOf(text) ==
    FirstRead(<<FirstIn(KnownCities, MarksOfFirst(text, "courts at")),
                FirstIn(KnownCities, AllMarks(text))>>)

LawOf(text) ==
    LET laws == <<"laws of india", "laws of england">>
    IN  IF MarkedAny(text, {laws[1], laws[2]}) = {} THEN Absent
        ELSE FirstIn(laws, text[Foremost(MarkedAny(text, {laws[1], laws[2]}))].marks)

SeatOf(text) ==
    FirstRead(<<FirstIn(KnownCities, MarksOfFirst(text, "seat of arbitration")),
                FirstIn(KnownCities, MarksOfFirst(text, "arbitration held in"))>>)

OwnerOf(text)     == FirstIn(<<"client owns", "vendor owns", "joint ownership">>, AllMarks(text))
IndemnityOf(text) == FirstIn(<<"vendor indemnifies", "client indemnifies">>, AllMarks(text))
AssigningOf(text) == FirstIn(<<"may not assign", "freely assign">>, AllMarks(text))
SubcontractingOf(text) == FirstIn(<<"may not subcontract", "may subcontract">>, AllMarks(text))

\* A field with words as values: its types, its severity, and whether its
\* disappearance is reported.
Category(name, types, sev, removal) ==
    [name |-> name, types |-> types, sev |-> sev, removal |-> removal]

Forum == {"jurisdiction", "governing_law", "dispute_resolution", "miscellaneous"}

Categories ==
    {Category("court_city", Forum, High, TRUE),
     Category("governing_law", Forum, High, TRUE),
     Category("arbitration_seat", Forum, High, FALSE),
     Category("ip_owner", {"intellectual_property", "miscellaneous"}, Critical, TRUE),
     Category("indemnity_direction", {"indemnity", "miscellaneous"}, Critical, TRUE),
     Category("assignment_consent", {"assignment"}, Medium, FALSE),
     Category("subcontracting_consent", {"subcontracting"}, Medium, FALSE)}

Chosen(text, name) ==
    CASE name = "court_city"             -> CourtOf(text)
      [] name = "governing_law"          -> LawOf(text)
      [] name = "arbitration_seat"       -> SeatOf(text)
      [] name = "ip_owner"               -> OwnerOf(text)
      [] name = "indemnity_direction"    -> IndemnityOf(text)
      [] name = "assignment_consent"     -> AssigningOf(text)
      [] name = "subcontracting_consent" -> SubcontractingOf(text)

\* A new choice where there was none is not reported.
CategoryChanges(old, new, type) ==
    {[field |-> c.name, sev |-> c.sev] :
        c \in {k \in Categories :
                  LET was == Chosen(old, k.name)
                      is  == Chosen(new, k.name)
                  IN  /\ type \in k.types
                      /\ was # Absent /\ was # is
                      /\ is = Absent => k.removal}}

NumericChanges(old, new, type) ==
    LET was == Numeric(old, type)
        is  == Numeric(new, type)
    IN  UNION {{[field |-> field, sev |-> change.sev] : change \in Changes(field, was[field], is[field])} :
                  field \in Fields}

\* A heading is read as well, in front of its clause.
ClauseText(clause) ==
    IF clause.heading = {} THEN clause.text
    ELSE <<[marks |-> clause.heading, standard |-> {}, number |-> NoNumber]>> \o clause.text

\* Both versions are read for the type of the new one.
Diff(baseline, clause) ==
    LET type == Classify(clause)
        old  == ClauseText(baseline)
        new  == ClauseText(clause)
    IN  NumericChanges(old, new, type) \cup CategoryChanges(old, new, type)

=============================================================================
