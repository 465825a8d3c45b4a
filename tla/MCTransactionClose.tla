-------------------------- MODULE MCTransactionClose --------------------------
(* One transaction with an invoice and a bill, two concurrent requests, and  *)
(* margins on both sides of zero.                                           *)
EXTENDS TransactionClose, CommissionRules, SettlementRules, SequencesExt

CONSTANTS t1, s1, s2

MCTx == {t1}
MCSession == {s1, s2}
MCMove == {[tx |-> t1, kind |-> k, no |-> 1] : k \in {"invoice", "bill"}}
MCMargins == {-1, 2}
MCOps == AllOps

Sessions == Permutations(MCSession)

-----------------------------------------------------------------------------
(* The commission of an open transaction, with rules of up to three tiers.  *)
SomeTiers == {t \in [min : {0, 2}, max : {0, 2}, rate : {1, 4}] : t.max # 0 => t.min <= t.max}

Rule(kind, tiers, min) ==
  [kind |-> kind, percentage |-> 3, fixed |-> 5, tiers |-> tiers, from |-> 0, to |-> 2,
   min |-> min, max |-> 0, products |-> {}, categories |-> {}, partners |-> {"p"}]

SomeRules ==
  {None} \cup {Rule("tiered", tiers, 0) :
                  tiers \in {T \in SUBSET SomeTiers : Cardinality(T) <= 3}}
         \cup {Rule(kind, {}, min) : kind \in {"percentage", "fixed"}, min \in {0, 2}}

SomeTxs ==
  [locked : {FALSE}, lockedAmount : {0}, margin : {-1, 0, 3, 5}, override : {0, 2}, rule : SomeRules,
   date : {2, 3}, revenue : 1..3, product : {None}, category : {None}, partner : {None, "p", "q"}]

(* There is a commission, no two further than a cent apart unless tiers     *)
(* contradict each other, and it leaves a share of a profit.                *)
ASSUME CommissionsAreSound ==
  \A tx \in SomeTxs, default \in {0, 3} :
    LET amounts == {n \in -2..6 : ComputeCommission(tx, default, n)} IN
    /\ amounts # {}
    /\ (tx.rule = None \/ Disjoint(tx.rule.tiers)) => \A n, m \in amounts : n - m <= 1
    /\ Shared(tx, default) => \A n \in amounts : n >= 0 /\ (n = 0 \/ NetMargin(tx, n) >= 0)

(* The loop over the tiers in the order of their minimum: whatever the       *)
(* database does with equal ones, it returns one of the rates.              *)
FirstFitting(order, amount, otherwise) ==
  LET fit == SelectSeq(order, LAMBDA t : Fits(t, amount))
  IN IF fit = <<>> THEN otherwise ELSE fit[1].rate

ASSUME TiersAreFirstFitting ==
  \A rule \in SomeRules \ {None}, amount \in 0..3 :
    TierRates(rule, amount) =
      {FirstFitting(order, amount, rule.percentage) :
         order \in {o \in SetToSeqs(rule.tiers) :
                     \A i, j \in DOMAIN o : i < j => o[i].min <= o[j].min}}

-----------------------------------------------------------------------------
(* What a trade is settled on: every combination of weights around the       *)
(* tare and the minimum, and rules of every kind in every order of two.      *)
SomeLoads ==
  {tx \in [unit : {"none", "pallet"}, count : {-1, 0, 2}, override : {0, 40}, tare : {0, 40}, scale : {0, 100},
           buyer : {-1, 0, 95, 100}, supplier : {0, 94, 105}, minimum : {0, 60, 100}, rate : {0, 3}, cost : {0, 50}] :
     tx.tare \in {TarePerUnit(tx), tx.override}}

ASSUME LoadsAreSettled ==
  \A tx \in SomeLoads :
    /\ SettledFairly(tx) /\ HeavierIsBetter(tx, 10) /\ FlagIsSymmetric(tx)
    /\ \A unit \in DOMAIN DefaultTare : TypedTareStays(tx, 5, unit, 7)

(* A tare of 0 does not stay, and a load that nobody has weighed is deducted *)
(* its whole minimum.                                                       *)
ASSUME UnsetIsNotZero ==
  \E tx \in SomeLoads :
    /\ ~TypedTareStays(tx, 0, "gaylord", 7)
    /\ Source(tx) = "none" /\ Deduction(tx) > 0

SomePenalties ==
  [active : {TRUE}, partners : {{}, {"p"}}, categories : {{}}, type : {"weight_variance", "late_delivery", "custom"},
   method : {"percentage", "per_unit"}, rate : {-1, 2}, threshold : {0, 1}, max : {0, 3}, grace : {0, 3}]
  \cup {[active |-> FALSE, partners |-> {}, categories |-> {"c"}, type |-> "late_delivery", method |-> "fixed",
         rate |-> 2, threshold |-> 0, max |-> 0, grace |-> 0]}

SomeInvoices ==
  [partner : {"p", "q"}, categories : {{"c"}}, total : {200}, due : {0, 1}, dated : BOOLEAN, variance : {0, 3}, penalty : {0}]

ASSUME PenaltiesAreDue ==
  \A first \in SomePenalties, second \in {r \in SomePenalties : r.max = 0}, invoice \in SomeInvoices :
    PenaltyIsDue(<<first, second>>, invoice, 3, <<second>>, 9)

(* A rule with the default threshold of 0 charges within the grace period.  *)
ASSUME GraceNeedsThreshold ==
  /\ \A rule \in SomePenalties, invoice \in SomeInvoices, today \in 0..6 :
       rule.threshold > 0 => GraceHolds(rule, invoice, today)
  /\ \E rule \in SomePenalties, invoice \in SomeInvoices : ~GraceHolds(rule, invoice, 3)
=============================================================================
