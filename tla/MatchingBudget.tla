----------------------------- MODULE MatchingBudget -----------------------------
(***************************************************************************)
(* What the desk promises about an intake: every time its buyers are found   *)
(* anew, it may be offered to them once, and bought once.                   *)
(***************************************************************************)
EXTENDS Naturals

CONSTANT Intakes

VARIABLES matched, offered, bought  \* [Intakes -> Nat]: how often

budgetVars == <<matched, offered, bought>>

BudgetInit == matched = [i \in Intakes |-> 0] /\ offered = matched /\ bought = matched

More(count, i) == [count EXCEPT ![i] = @ + 1]

Match(i) == matched' = More(matched, i) /\ UNCHANGED <<offered, bought>>

Offer(i) == offered[i] < matched[i] /\ offered' = More(offered, i) /\ UNCHANGED <<matched, bought>>

Buy(i) == bought[i] < matched[i] /\ bought' = More(bought, i) /\ UNCHANGED <<matched, offered>>

BudgetSpec == BudgetInit /\ [][\E i \in Intakes : Match(i) \/ Offer(i) \/ Buy(i)]_budgetVars
=============================================================================
