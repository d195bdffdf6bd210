------------------------------ MODULE Account ------------------------------
(***************************************************************************)
(* What every money account of the platform promises: its balance is what   *)
(* was credited less what was spent, neither total ever goes back, and the   *)
(* balance is never below -Slack.  Slack is 0 for an account whose check and *)
(* debit are one step; an account that checks first and debits later can be  *)
(* overdrawn by the debits that were under way at the same time.            *)
(***************************************************************************)
EXTENDS Integers

CONSTANTS
    Owners,
    Slack       \* how far below zero concurrent debits can take a balance

VARIABLES
    balance,    \* what each owner may still spend
    credited,   \* all that was ever credited
    spent       \* all that was ever spent

accountVars == <<balance, credited, spent>>

AccountInit ==
    /\ balance = [o \in Owners |-> 0]
    /\ credited = [o \in Owners |-> 0]
    /\ spent = [o \in Owners |-> 0]

Credit(o) ==
    /\ credited'[o] > credited[o]
    /\ balance' = [balance EXCEPT ![o] = @ + (credited'[o] - credited[o])]
    /\ credited' = [credited EXCEPT ![o] = credited'[o]]
    /\ UNCHANGED spent

Spend(o) ==
    /\ spent'[o] > spent[o]
    /\ balance' = [balance EXCEPT ![o] = @ - (spent'[o] - spent[o])]
    /\ spent' = [spent EXCEPT ![o] = spent'[o]]
    /\ balance'[o] >= -Slack
    /\ UNCHANGED credited

AccountNext == \E o \in Owners: Credit(o) \/ Spend(o)

AccountSpec == AccountInit /\ [][AccountNext]_accountVars
=============================================================================
