----------------------------- MODULE MCAccounts -----------------------------
(* Small instances of Accounts for TLC. *)
EXTENDS Accounts

CONSTANTS o1, o2, h1, h2

\* Two organizations of one name and no subscription; one that is tagged, with
\* events enough to cancel it and to revive it; fewer of them with a failure;
\* and one that is not tagged.
MCScopes ==
    {[orgs |-> {o1, o2}, churn |-> TRUE,  events |-> 0, failures |-> 1],
     [orgs |-> {o1},     churn |-> FALSE, events |-> 4, failures |-> 0],
     [orgs |-> {o1},     churn |-> FALSE, events |-> 2, failures |-> 1],
     [orgs |-> {o2},     churn |-> FALSE, events |-> 2, failures |-> 0]}

=============================================================================
