----------------------------- MODULE FreightShifts -----------------------------
(* FreightDesk with a given number of operators at work: at most that many    *)
(* commands are under way at one time.                                       *)
EXTENDS FreightDesk

VARIABLE operators

shiftVars == <<operators, vars>>

FewEnough == Cardinality({s \in Session : plan[s] # Nothing}) <= operators

ShiftInit == Init /\ operators \in Nat \ {0}
ShiftNext == Next /\ UNCHANGED operators /\ FewEnough'
ShiftSpec == ShiftInit /\ [][ShiftNext]_shiftVars

(* With one operator at a time a confirmed rate leaves no active episode     *)
(* behind (load.py:1041), and the quote a resolved episode names is its       *)
(* selected one (freight_quote.py:205); two operators may break either, as    *)
(* the episodes are rows of their own.                                      *)
EpisodesEndWell == operators = 1 => NoOrphanRequest /\ ResolvedOwnsSelection
=============================================================================
