------------------------------ MODULE MCMatchRuns ------------------------------
(* Two intakes, two buyers, two operators, one of whom may select both.     *)
EXTENDS MatchRuns, TLC
CONSTANTS i1, i2, b1, b2, w1, w2
Symmetric == Permutations(Workers)
OneOrBoth == {<<i1>>, <<i2, i1>>}
=============================================================================
