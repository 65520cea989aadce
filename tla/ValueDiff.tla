----------------------------- MODULE ValueDiff ------------------------------
(***************************************************************************)
(* agents/clause_analyzer.py: how a number of a clause that changes        *)
(* between two versions of a contract is reported.  Values are natural     *)
(* numbers in the unit of their field (the code's floats have fractions).  *)
(* A severity is its rank; risk scores are left out.                       *)
(***************************************************************************)
EXTENDS Integers

CONSTANT Absent         \* the extractor finds no value of the field

Low == 1
Medium == 2
High == 3
Critical == 4

\* The numeric fields.
Fields == {"duration_months", "payment_days", "advance_percent", "penalty_percent",
           "interest_rate", "late_payment_interest", "contract_value_inr",
           "liability_cap_inr", "liability_cap_months", "notice_days",
           "confidentiality_years", "warranty_days", "data_retention_days",
           "sla_uptime_percent", "sla_response_time_hours", "test_coverage_percent",
           "insurance_amount_inr", "service_credit_percent", "non_compete_months",
           "non_solicitation_months", "renewal_notice_days", "audit_frequency_months"}

\* Fields whose disappearance is reported.
RemovalIsFinding == {"liability_cap_inr", "liability_cap_months", "notice_days",
                     "confidentiality_years", "warranty_days", "sla_uptime_percent",
                     "sla_response_time_hours", "insurance_amount_inr"}

\* A change of more than over percent is at least this severe.
Bands == {[over |-> 200, sev |-> Critical], [over |-> 50, sev |-> High],
          [over |-> 10, sev |-> Medium], [over |-> 0, sev |-> Low]}

Trigger(op, limit, sev) == [op |-> op, limit |-> limit, sev |-> sev]

\* Values that are this severe however little they have changed.
Triggers(field) ==
    CASE field = "payment_days"            -> {Trigger("gt", 45, High), Trigger("gt", 30, Medium)}
      [] field = "advance_percent"         -> {Trigger("gt", 10, High)}
      [] field = "notice_days"             -> {Trigger("lt", 30, High)}
      [] field = "confidentiality_years"   -> {Trigger("lt", 1, High)}
      [] field = "liability_cap_months"    -> {Trigger("lt", 6, High)}
      [] field = "sla_uptime_percent"      -> {Trigger("lt", 99, Medium), Trigger("le", 95, High)}
      [] field = "warranty_days"           -> {Trigger("lt", 30, High)}
      [] field = "sla_response_time_hours" -> {Trigger("gt", 4, Medium), Trigger("gt", 8, High)}
      [] field = "non_compete_months"      -> {Trigger("gt", 24, High)}
      [] field = "non_solicitation_months" -> {Trigger("gt", 24, Medium)}
      [] OTHER                             -> {}

Fires(trigger, value) ==
    \/ trigger.op = "gt" /\ value > trigger.limit
    \/ trigger.op = "lt" /\ value < trigger.limit
    \/ trigger.op = "le" /\ value <= trigger.limit

Distance(old, new) == IF new > old THEN new - old ELSE old - new

\* The severities of the bands that the change exceeds, old and new being
\* different.  From zero, every change exceeds every band.
Exceeded(old, new) == {band.sev : band \in {b \in Bands : 100 * Distance(old, new) > b.over * old}}

Fired(field, value) == {trigger.sev : trigger \in {t \in Triggers(field) : Fires(t, value)}}

Highest(ranks) == CHOOSE s \in ranks : \A t \in ranks : t <= s

\* As Severity would be if a trigger replaced a higher severity.
SeverityReplaced(field, old, new) ==
    IF Fired(field, new) # {} THEN Highest(Fired(field, new)) ELSE Highest(Exceeded(old, new))

\* As Severity would be if triggers were looked up for small changes only.
SeverityIfSmall(field, old, new) ==
    IF Highest(Exceeded(old, new)) > Low THEN Highest(Exceeded(old, new))
    ELSE Highest(Exceeded(old, new) \cup Fired(field, new))

\* The bands are tried from the top, then each trigger may raise the severity.
Severity(field, old, new) == Highest(Exceeded(old, new) \cup Fired(field, new))

\* The finding of one field, or none.
Changes(field, old, new) ==
    IF old = new THEN {}
    ELSE CASE new = Absent -> IF field \in RemovalIsFinding
                              THEN {[direction |-> "removed", sev |-> High]} ELSE {}
           [] old = Absent -> {[direction |-> "added", sev |-> Medium]}
           [] OTHER        -> {[direction |-> IF new > old THEN "increased" ELSE "decreased",
                                sev |-> Severity(field, old, new)]}

=============================================================================
