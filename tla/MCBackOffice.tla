------------------------------ MODULE MCBackOffice ------------------------------
(* Two documents, tags and days after the first; two claims on a           *)
(* transaction; an intake, two buyers, two offers; two units of two records; *)
(* two payouts of three transactions; three observations of a load; two       *)
(* transactions.  The parts never meet, so x1 and x2 serve several of them,   *)
(* which keeps the symmetry group small.                                    *)
EXTENDS BackOffice, LegacyHeaders

CONSTANTS x1, x2, s1, s2, t1, q1, o1, o2

MCDoc == 1..2
MCTag == {x1, x2}
MCSession == {s1, s2}
MCClaims == {x1, x2}
MCTxs == {t1}
MCAmounts == {-1, 1}
MCBalances == {-1, 0}
MCIntakes == {q1}
MCBuyers == {x1, x2}
MCOfferSlots == {o1, o2}
MCImporters == {s1, s2}
MCPayoutSlots == {<<"payout", o>> : o \in {o1, o2}}
MCClosings == {<<"closing", n>> : n \in 0..2}
MCCommission == [c \in MCClosings |-> c[2]]
MCHauls == {<<"load", t1>>}
MCEntries == {<<"entry", o>> : o \in {o1, o2, t1}}
MCTrades == {<<"trade", x>> : x \in {x1, x2}}

Symmetry == UNION {Permutations(S) : S \in {MCTag, MCSession, MCOfferSlots}}

-----------------------------------------------------------------------------
(* The old ERP: two parties of which one is exported, a batch of each, one   *)
(* without a party, and a receipt without a batch.                          *)
Batches == [b1 |-> "p", b2 |-> "q", b3 |-> Blank]

SomeTrades ==
  [payables : {S \in SUBSET [leg : BOOLEAN, party : {"p", "q"}, posted : {TRUE}] : Cardinality(S) <= 2}
              \cup {{[leg |-> FALSE, party |-> Blank, posted |-> TRUE]}, {[leg |-> FALSE, party |-> "p", posted |-> FALSE]}},
   receipts : {{}, {"b1"}, {"b3"}, {"b1", "b2"}, {"lost"}, {Blank}},
   ledger : {{}, {-1}, {0}, {2}, {1, 2}}, deliveries : BOOLEAN]

ASSUME HeadersAreDerived ==
  /\ \A trade \in SomeTrades, exported \in {{"p"}, {"p", "q"}} : NothingIsSilent(trade, Batches, exported)
  /\ \A trade \in SomeTrades, payable \in [leg : BOOLEAN, party : {"p", "q"}, posted : BOOLEAN],
        receipt \in {"b1", "b2"}, date \in {-1, 1} :
       \A more \in {[trade EXCEPT !.payables = @ \cup {payable}], [trade EXCEPT !.receipts = @ \cup {receipt}],
                    [trade EXCEPT !.ledger = @ \cup {date}], [trade EXCEPT !.deliveries = TRUE]} :
         EvidenceIsMonotone(trade, more, Batches, {"p"})

(* A receipt that no batch settles closes a trade whose buyer is unknown.    *)
ASSUME ClosedMayBeUnsettled == \E trade \in SomeTrades : ~ClosedIsSettled(trade, Batches)

ASSUME RowsAreAccounted ==
  /\ \A children \in [1..3 -> {"p", "q", Blank}] : ChildrenAreAccounted(children, {"p"})
  /\ \A keys \in [1..2 -> {"a", "b", Blank}] : Indexable(keys) <=> Cardinality({keys[1], keys[2]} \ {Blank}) = 2
  /\ \A sale, purchase \in {"L", "S", "?", Blank} : UomIsShared(sale, purchase)
  /\ \A code \in DOMAIN CompanyRole \cup {"?"} : RolesAgree(code)
  /\ \A statements, grid \in [tables : {{}, {"Contact"}, Tables}, sound : BOOLEAN] : PayloadIsWhole(statements, grid)
=============================================================================
