----------------------------- MODULE TaskBoard -----------------------------
(***************************************************************************)
(* What the analysis pipeline promises a reader of its tables: tasks are   *)
(* submitted, replacing earlier ones of the same type; each gets outcomes; *)
(* a task, its findings and its result only ever change together.          *)
(***************************************************************************)
EXTENDS Naturals

CONSTANTS TaskId
VARIABLES status, findings, result

board == <<status, findings, result>>

Present(t) == status[t] # "none"

Init ==
    /\ status = [t \in TaskId |-> "none"]
    /\ findings = [t \in TaskId |-> 0]
    /\ result = [t \in TaskId |-> FALSE]

\* New tasks replace old ones in one step; some of them are run at once.
Submit(new, old, ran) ==
    /\ status' = [t \in TaskId |-> CASE t \in ran -> "completed"
                                     [] t \in new \ ran -> "queued"
                                     [] t \in old -> "none"
                                     [] OTHER -> status[t]]
    /\ \E reported \in SUBSET ran :
          findings' = [t \in TaskId |-> IF t \in old THEN 0
                                        ELSE IF t \in reported THEN 1 ELSE findings[t]]
    /\ result' = [t \in TaskId |-> t \in ran \/ (t \notin old /\ result[t])]

\* A run's findings, result and status appear in one step.
Finish(t) ==
    /\ Present(t)
    /\ \E n \in {0, 1} : findings' = [findings EXCEPT ![t] = @ + n]
    /\ result' = [result EXCEPT ![t] = TRUE]
    /\ status' = [status EXCEPT ![t] = "completed"]

\* A failed run leaves its status and nothing else.
Fail(t) ==
    /\ Present(t)
    /\ status' = [status EXCEPT ![t] = "failed"]
    /\ UNCHANGED <<findings, result>>

\* Everything goes with the project.
Clear ==
    /\ status' = [t \in TaskId |-> "none"]
    /\ findings' = [t \in TaskId |-> 0]
    /\ result' = [t \in TaskId |-> FALSE]

Next ==
    \/ \E old \in SUBSET {t \in TaskId : Present(t)} :
          \E new \in (SUBSET {t \in TaskId : ~ Present(t)}) \ {{}} :
             \E ran \in SUBSET new : Submit(new, old, ran)
    \/ \E t \in TaskId : Finish(t) \/ Fail(t)
    \/ Clear

Spec == Init /\ [][Next]_board

=============================================================================
