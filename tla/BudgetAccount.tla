---------------------------- MODULE BudgetAccount ----------------------------
(***************************************************************************)
(* What budget_manager promises of a strategy's account: the balance of an *)
(* epoch is the sum of its ledger, is never negative, and gets each day's  *)
(* allowance at most once.  A reset begins another epoch.                  *)
(*                                                                         *)
(* exact is FALSE once something has happened the promise does not cover.  *)
(***************************************************************************)
EXTENDS Integers

VARIABLES epoch, balance, total, days, exact

accountVars == <<epoch, balance, total, days, exact>>

Init ==
    /\ epoch = 1 /\ balance \in Nat /\ total = balance
    /\ days = {} /\ exact = TRUE

\* An entry moves the balance and the sum alike.
Entry ==
    /\ balance' \in Nat /\ total' \in Int
    /\ balance' - balance = total' - total
    /\ UNCHANGED <<epoch, exact>>

Move == exact /\ Entry /\ UNCHANGED days

Credit == exact /\ Entry /\ balance' >= balance /\ \E day \in days' \ days : days' = days \cup {day}

Reset ==
    /\ epoch' > epoch /\ balance' \in Nat /\ total' = balance'
    /\ days' = {} /\ exact' = TRUE

Stray == exact' = FALSE

Next == Move \/ Credit \/ Reset \/ Stray

Spec == Init /\ [][Next]_accountVars

\* What the promise comes to: the rows of the epoch explain the balance.
BalanceExplained == exact => balance \in Nat /\ total = balance
=============================================================================
