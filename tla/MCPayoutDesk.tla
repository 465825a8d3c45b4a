------------------------------ MODULE MCPayoutDesk ------------------------------
(* Two payouts of one representative with two closed transactions.          *)
EXTENDS PayoutDesk

CONSTANTS p1, p2, t1, t2, s1, s2

MCPayoutSlots == {p1, p2}
MCClosings == {t1, t2}
MCCommission == [t \in MCClosings |-> IF t = t1 THEN 2 ELSE 1]
MCSession == {s1, s2}

Symmetry == Permutations(MCPayoutSlots) \cup Permutations(MCSession)
=============================================================================
