------------------------------ MODULE MCWebLeads ------------------------------
(***************************************************************************)
(* One submission key: a packet, another submission that claims the same   *)
(* key, and the agent's endpoint.  Thresholds are in a unit in which the    *)
(* standard one is 3.                                                      *)
(***************************************************************************)
EXTENDS WebLeads, TLC
CONSTANTS k1, d1, d2, d3, p1, p2, w1, w2

MCKeyOf == [d \in Deliveries |-> k1]
MCSubmission == d1 :> p1 @@ d2 :> p2 @@ d3 :> NoSubmission

Found(packet, weight) ==
  [packet |-> packet, seller |-> IF packet THEN weight ELSE 0,
   ai |-> IF packet THEN 0 ELSE weight, vision |-> 0, pallets |-> 1,
   plastic |-> "yes", commercial |-> "yes", rejected |-> FALSE,
   reusable |-> FALSE, polymer |-> TRUE, keyword |-> FALSE, industrial |-> FALSE]
MCFindings == {Found(TRUE, w) : w \in {0, 3, NaN}} \cup {Found(FALSE, 0), Found(FALSE, 3)}
\* Retrying an error and rejecting differ from the other retry and review only
\* in a guard and in the value written.
MCOps == AllOps \ {"retry_processing", "reject"}

ASSUME TriageIsSound ==
  /\ HeavierIsNoColder(Evidence({TRUE}, 1..3, {0}), 1..4)
  /\ CountsAreNotPounds(Evidence({TRUE}, {0, 3}, {0, 3}))
=============================================================================
