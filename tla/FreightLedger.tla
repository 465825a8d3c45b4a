----------------------------- MODULE FreightLedger -----------------------------
(***************************************************************************)
(* The ledger of actual freight costs (plasticos_logistics): the cost of a   *)
(* load is typed in, recorded as its first observation, and from then on    *)
(* corrected by observations that supersede one another.  Estimates of       *)
(* later loads use the newest.                                             *)
(*                                                                         *)
(* Time is counted in the recordings of a load (stamp, at), which are in      *)
(* order because each writes the load's row.  Left out: currencies, the      *)
(* variances against estimate and rate, and the freight context, without     *)
(* which a request raises.                                                 *)
(***************************************************************************)
EXTENDS SnapshotRequests

CONSTANTS
  Hauls,    \* loads
  Entries,  \* ids for observations
  Costs     \* amounts

Initial(h) == <<"first", h>>       \* keys of the two partial unique indexes
After(e) == <<"supersedes", e>>
Slots == {Initial(h) : h \in Hauls} \cup {After(e) : e \in Entries}

Observation == [load : Hauls, cost : Nat, prior : Entries \cup {None}, at : Nat]

ASSUME LedgerAssumption ==
  /\ Costs \subseteq Nat /\ None \notin Entries \cup Observation
  /\ Hauls \cap Entries = {} /\ (Hauls \cup Entries) \cap Slots = {}

LedgerRows == {[k \in Hauls \cup Entries \cup Slots |->
                  IF k \in Hauls THEN [locked |-> FALSE, cost |-> 0, stamp |-> 0] ELSE None]}

Trucks == Hauls \cap DOMAIN rows
Observations(h) == {e \in Entries \cap DOMAIN rows : rows[e] # None /\ rows[e].load = h}
Newest(h) == CHOOSE e \in Observations(h) : \A o \in Observations(h) : rows[o].at <= rows[e].at
Unused == {e \in Entries \cap DOMAIN rows : rows[e] = None}

-----------------------------------------------------------------------------
(* Dispatched, or back in draft by way of an exception (FreightDesk).       *)
MoveLoad(s) == \E h \in Trucks : Begin(s, Row(h, [rows[h] EXCEPT !.locked = ~@]), {})

\* Mutation: a recorded cost can still be typed over.
TypeCostLate(s) == \E h \in Trucks, cost \in Costs :
  /\ ~rows[h].locked
  /\ Begin(s, Row(h, [rows[h] EXCEPT !.cost = cost]), {})

TypeCost(s) == \E h \in Trucks, cost \in Costs :
  /\ ~rows[h].locked /\ rows[h].stamp = 0
  /\ Begin(s, Row(h, [rows[h] EXCEPT !.cost = cost]), {})

(* An observation, its entry in a unique index, and the load's row, which a  *)
(* command may write although the load is locked.                          *)
Observe(s, h, e, cost, prior, slot) ==
  /\ rows[slot] = None
  /\ Begin(s, Over(Row(h, [rows[h] EXCEPT !.cost = cost, !.stamp = @ + 1]),
              Over(Row(e, [load |-> h, cost |-> cost, prior |-> prior, at |-> rows[h].stamp + 1]),
                   Row(slot, e))), {})

RecordActual(s) == \E h \in Trucks, e \in Unused :
  /\ Observations(h) = {}
  /\ Observe(s, h, e, rows[h].cost, None, Initial(h))

CorrectActual(s) == \E h \in Trucks, e \in Unused, cost \in Costs :
  /\ Observations(h) # {}
  /\ Observe(s, h, e, cost, Newest(h), After(Newest(h)))

LedgerRequest(s) == MoveLoad(s) \/ TypeCost(s) \/ RecordActual(s) \/ CorrectActual(s)

LedgerInit == Start(LedgerRows, {})
LedgerNext == \E s \in Session : LedgerRequest(s) \/ Served(s)
LedgerSpec == LedgerInit /\ [][LedgerNext]_requestVars

-----------------------------------------------------------------------------
(* local_estimation_evidence: what estimates take for the cost of a load,    *)
(* given the rate it was booked at.                                        *)
Evidence(h, booked) == IF Observations(h) = {} THEN booked ELSE rows[Newest(h)].cost

(* The observations of a load are one chain from the first to the newest,    *)
(* whatever commands and edits meet, and the newest is what both the load    *)
(* and the estimates of other loads give as its cost.                      *)
LedgerIsChain == \A h \in Trucks : Observations(h) # {} =>
  /\ \E start \in Observations(h) : \A e \in Observations(h) : (rows[e].prior = None) <=> (e = start)
  /\ \A e \in Observations(h) \ {Newest(h)} :
       Cardinality({o \in Observations(h) : rows[o].prior = e}) = 1
  /\ rows[h].stamp > 0 /\ Evidence(h, None) = rows[h].cost
=============================================================================
