------------------------------ MODULE Concepts ------------------------------
(***************************************************************************)
(* agents/template_comparison.py: the scan of a draft for legal concepts.  *)
(* A concept's danger signals are the mark of its name, its template       *)
(* signals the same name in "standard".  Some danger signals are not what  *)
(* a clause says but that it does not say something: those match in every  *)
(* clause that is silent on it.  Recommendations and risks are left out.   *)
(***************************************************************************)
EXTENDS Text

\* A concept that the template may establish, one that is new wherever it is
\* found, and one whose danger is silence on a topic (in a clause on another
\* topic, or in any clause).
Deviation(name, sev) == [name |-> name, kind |-> "deviation", sev |-> sev]
Insertion(name, sev) == [name |-> name, kind |-> "insertion", sev |-> sev]
Silence(name, sev)   == [name |-> name, kind |-> "silence", sev |-> sev]

CommercialConcepts ==
    {Deviation("IP ownership reversed", Critical),
     Deviation("Liability cap removed or unlimited", Critical),
     Deviation("Indemnification reversed", Critical),
     Deviation("Jurisdiction changed", High),
     Silence("Arbitration removed", High),
     Deviation("Confidentiality period weakened", High),
     Deviation("Termination notice reduced", High),
     Deviation("Payment terms extended beyond MSME limit", High),
     Insertion("Auto-renewal clause inserted", Medium),
     Insertion("Penalty / liquidated damages clause inserted", High)}

StructuralConcepts ==
    {Insertion("Non-compete clause inserted", High),
     Insertion("Non-solicitation clause inserted", Medium),
     Deviation("Assignment rights removed or restricted", Medium),
     Insertion("Subcontracting restricted", Low),
     Silence("Audit rights removed", Medium),
     Insertion("Exclusivity clause inserted", High),
     Silence("Change of control provision missing", Low),
     Deviation("Warranty period weakened or removed", High),
     Deviation("SLA / uptime commitment removed", Medium),
     Deviation("Data protection weakened", High)}

RiskConcepts ==
    {Insertion("Insurance requirement inserted", Low),
     Deviation("Governing law changed from India", High),
     Deviation("Force majeure notification window extended", Low),
     Insertion("Data retention obligation inserted", Low),
     Insertion("Service credits clause inserted", Low),
     Insertion("Escalation clause inserted", Low),
     Insertion("Limitation on class actions inserted", High),
     Insertion("No-refund clause inserted", Medium),
     Deviation("Liability for consequential damages excluded", High),
     Deviation("Advance payment cap increased", High),
     Deviation("Entire agreement clause weakened", Low)}

FurtherConcepts ==
    {Deviation("Renewal terms changed to automatic", Medium),
     Deviation("SLA service credits too low or uncapped", Medium),
     Silence("Governing law clause absent", High),
     Insertion("Non-compete period unreasonably long", High),
     Insertion("Non-solicitation scope overreach", Medium),
     Insertion("Data retention obligation conflicts with DPDP Act", High),
     Deviation("Insurance coverage inadequate or removed", Medium),
     Deviation("Audit rights scope narrowed", Medium),
     Insertion("Exclusivity prevents multi-vendor strategy", High)}

SemanticConcepts ==
    UNION {CommercialConcepts, StructuralConcepts, RiskConcepts, FurtherConcepts}

-----------------------------------------------------------------------------
Establishes(template, concept) ==
    \E i \in DOMAIN template : \E p \in DOMAIN template[i].text :
        concept.name \in template[i].text[p].standard

\* "Arbitration removed" needs a clause about disputes.
Silent(text, concept) ==
    /\ concept.kind = "silence"
    /\ ~ Matches(text, concept.name)
    /\ concept.name = "Arbitration removed" => Matches(text, "dispute")

\* Of a concept of silence, the mark says that its topic is mentioned.
Danger(text, concept) ==
    IF concept.kind = "silence" THEN Silent(text, concept) ELSE Matches(text, concept.name)

\* The concepts found in one clause of a draft.
Detected(template, text) ==
    {c \in SemanticConcepts :
        /\ Danger(text, c)
        /\ c.kind # "insertion" => Establishes(template, c)}

\* A concept is reported once, for the first clause that it is found in.
ConceptFindings(template, draft) ==
    LET found(c) == {j \in DOMAIN draft : LongEnough(draft[j].text)
                                          /\ c \in Detected(template, draft[j].text)}
    IN  {[concept |-> c.name, clause |-> Foremost(found(c)), sev |-> c.sev,
          inserted |-> c.kind = "insertion"] : c \in {k \in SemanticConcepts : found(k) # {}}}

=============================================================================
