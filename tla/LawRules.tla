------------------------------ MODULE LawRules ------------------------------
(***************************************************************************)
(* agents/law_validator.py: the bundled rules of Indian law and the        *)
(* findings they give for a contract.  A rule's pattern is the mark of its *)
(* name; a finding is [rule, clause, sev], clause 0 standing for none.     *)
(***************************************************************************)
EXTENDS Text

\* Found in a clause, missing in the contract, missing in a clause.
Violation(id, sev) == [id |-> id, means |-> "violation", sev |-> sev]
Required(id, sev)  == [id |-> id, means |-> "required", sev |-> sev]
EachClause(id, sev) == [id |-> id, means |-> "each clause", sev |-> sev]

ContractAct ==
    {Violation("ICA_23_unlawful_object", Critical), Violation("ICA_27_restraint_of_trade", High),
     Violation("ICA_74_liquidated_damages", Medium), Violation("ICA_25_oral_agreement", High),
     Violation("ICA_56_impossibility", Medium)}

Disputes ==
    {Required("GOV_LAW_missing", High), Required("ARBITRATION_act", Medium),
     Violation("ARBITRATION_act_wrong_name", Low)}

PaymentTerms ==
    {Violation("PAYMENT_excess_90_days", High), Violation("MSME_payment_over_45_days", High)}

ITAct ==
    {Violation("IT_ACT_data_protection", High), Violation("IT_ACT_electronic_contract", Low)}

StampDuty == {Required("MAHA_STAMP_agreement", Medium)}

ConfidentialityRules == {Required("CONF_missing", Medium), Violation("CONF_duration_short", Low)}

ForceMajeure == {Required("FM_missing", Low)}

TerminationRules ==
    {Required("TERM_missing", Medium), EachClause("TERM_no_notice_period", Medium)}

IntellectualProperty == {Violation("IP_assignment", High), Violation("IP_work_for_hire", Medium)}

ConsumerProtection == {Violation("CPA_unfair_terms", High)}

EntireAgreement == {Required("MERGER_CLAUSE_missing", Low)}

LiabilityCap == {Required("LIABILITY_CAP_missing", Medium)}

Rules ==
    UNION {ContractAct, Disputes, PaymentTerms, ITAct, StampDuty, ConfidentialityRules,
           ForceMajeure, TerminationRules, IntellectualProperty, ConsumerProtection,
           EntireAgreement, LiabilityCap}

-----------------------------------------------------------------------------
\* The payment days of a clause: "within n days", "net n", "n days from
\* invoice", "payment ... n days", the first of these that is there, in digits.
StatedDays(text) ==
    LET days(mark) == DigitsAt(text, InDigits(text, "day") \cap Marked(text, mark))
    IN  FirstRead(<<days("within"), days("net"), days("of invoice"), days("payment days")>>)

\* The payment rules go by the days, whatever their own patterns match.
Violates(rule, text) ==
    /\ LongEnough(text)
    /\ LET days == StatedDays(text)
       IN  CASE rule.id = "MSME_payment_over_45_days" -> days # Absent /\ days > 45
             [] rule.id = "PAYMENT_excess_90_days"    -> days # Absent /\ days >= 90
             [] OTHER                                 -> Matches(text, rule.id)

\* TERM_no_notice_period: no mention of notice in this clause, also where
\* termination is not mentioned.
LacksNotice(rule, text) == LongEnough(text) /\ ~ Matches(text, rule.id)

Law(rule, clause) == [rule |-> rule.id, clause |-> clause, sev |-> rule.sev]

\* As OncePerRule would be if a later clause replaced an earlier one.
OncePerRuleLast(rule, positions) ==
    IF positions = {} THEN {}
    ELSE {Law(rule, CHOOSE i \in positions : \A j \in positions : j <= i)}

\* A rule fires for one clause only.
OncePerRule(rule, positions) ==
    IF positions = {} THEN {} ELSE {Law(rule, Foremost(positions))}

Violations(contract) ==
    UNION {OncePerRule(rule, {i \in DOMAIN contract : Violates(rule, contract[i].text)}) :
               rule \in {r \in Rules : r.means = "violation"}}

\* What the whole contract lacks is reported for its first clause.
MissingTerms(contract) ==
    LET text == Joined(contract)
    IN  {Law(rule, IF contract = <<>> THEN 0 ELSE 1) :
            rule \in {r \in Rules : r.means = "required" /\ ~ Matches(text, r.id)}}

MissingInClauses(contract) ==
    UNION {OncePerRule(rule, {i \in DOMAIN contract : LacksNotice(rule, contract[i].text)}) :
               rule \in {r \in Rules : r.means = "each clause"}}

LawFindings(contract) ==
    Violations(contract) \cup MissingTerms(contract) \cup MissingInClauses(contract)

=============================================================================
