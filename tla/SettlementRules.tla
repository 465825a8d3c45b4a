----------------------------- MODULE SettlementRules -----------------------------
(***************************************************************************)
(* What a trade is settled on: the weights of a transaction                 *)
(* (plasticos_transaction), from the scale ticket to the deduction for a     *)
(* light load, and the penalty of an invoice (plasticos_automation).        *)
(*                                                                         *)
(* 0 is "not set", as for the fields of the code.  Weights are in pounds;    *)
(* rates and amounts of the deduction in cents, those of a penalty in        *)
(* hundredths of a unit of its rate, as a percentage divides by 100.        *)
(***************************************************************************)
EXTENDS Integers, Sequences, FiniteSetsExt

Larger(a, b) == IF a < b THEN b ELSE a

-----------------------------------------------------------------------------
(* The tare.  The stored field is computed from the unit and the override,   *)
(* and typing it sets the override, without computing it again.             *)
DefaultTare == [none |-> 0, bale |-> 0, gaylord |-> 40, pallet |-> 40, box |-> 0, super_sack |-> 0]

(* The code bounds none of them but, by its use, the rate.                  *)
Load == [unit : DOMAIN DefaultTare, count : Int, override : Int, tare : Int, scale : Int,
         buyer : Int, supplier : Int, minimum : Int, rate : Nat, cost : Int]

TarePerUnit(tx) == IF tx.override # 0 THEN tx.override ELSE DefaultTare[tx.unit]

Recomputed(tx) == [tx EXCEPT !.tare = TarePerUnit(tx)]
TypeTare(tx, pounds) == [tx EXCEPT !.tare = pounds, !.override = pounds]
EditUnit(tx, unit) == Recomputed([tx EXCEPT !.unit = unit])
EditOverride(tx, pounds) == Recomputed([tx EXCEPT !.override = pounds])

TotalTare(tx) == tx.count * tx.tare

-----------------------------------------------------------------------------
(* _compute_final_weight, _compute_weight_discrepancy and                    *)
(* _compute_light_weight_deduction.                                         *)
Source(tx) ==
  CASE tx.scale > 0 -> "scale"
    [] tx.scale <= 0 /\ tx.buyer > 0 -> "buyer"
    [] tx.scale <= 0 /\ tx.buyer <= 0 /\ tx.supplier > 0 -> "supplier"
    [] OTHER -> "none"

Gross(tx) == IF Source(tx) = "none" THEN 0 ELSE tx[Source(tx)]
Net(tx) == Larger(Gross(tx) - TotalTare(tx), 0)

(* The two differ by more than a twentieth of the larger.                    *)
Flagged(tx) ==
  /\ tx.supplier > 0 /\ tx.buyer > 0
  /\ 20 * Larger(tx.supplier - tx.buyer, tx.buyer - tx.supplier) > Larger(tx.supplier, tx.buyer)

DeductionRate(tx) == IF tx.rate = 0 THEN 1 ELSE tx.rate

Deduction(tx) ==
  IF tx.minimum > 0 /\ Net(tx) < tx.minimum THEN (tx.minimum - Net(tx)) * DeductionRate(tx) ELSE 0

DeadFreight(tx) == tx.cost > 0 /\ tx.minimum > 0 /\ Net(tx) < tx.minimum /\ Deduction(tx) > tx.cost

(* _compute_weight_variance, in percent of the expected weight, as the      *)
(* fraction <<numerator, expected>>.                                        *)
Variance(expected, actual) ==
  IF expected = 0 \/ actual = 0 THEN <<0, 1>>
  ELSE <<100 * Larger(actual - expected, expected - actual), expected>>

-----------------------------------------------------------------------------
(* calculate_penalty: the rules in their order, each with what it charges.   *)
IsFor(rule, invoice) ==
  /\ rule.active
  /\ rule.partners = {} \/ invoice.partner \in rule.partners
  /\ rule.categories = {} \/ rule.categories \cap invoice.categories # {}

Amount(rule, invoice, value) ==
  CASE rule.method = "percentage" -> invoice.total * rule.rate
    [] rule.method = "fixed" -> 100 * rule.rate
    [] rule.method = "per_unit" -> 100 * rule.rate * value

DaysLate(invoice, today) == IF invoice.due = 0 \/ ~invoice.dated THEN 0 ELSE Larger(0, today - invoice.due)

Charge(rule, invoice, today) ==
  LET late == DaysLate(invoice, today)
      counted == Larger(0, late - rule.grace)
      due == CASE ~IsFor(rule, invoice) -> 0
               [] IsFor(rule, invoice) /\ rule.type = "weight_variance" ->
                    IF invoice.variance > 0 /\ invoice.variance >= rule.threshold
                    THEN Amount(rule, invoice, invoice.variance) ELSE 0
               [] IsFor(rule, invoice) /\ rule.type = "late_delivery" ->
                    IF late > 0 /\ counted >= rule.threshold
                    THEN Amount(rule, invoice, counted) ELSE 0
               [] OTHER -> 0
  IN IF due > 100 * rule.max /\ rule.max > 0 THEN 100 * rule.max ELSE due

(* The first rule that charges anything.                                    *)
PenaltyRule(rules, invoice, today) ==
  LET charging == {i \in DOMAIN rules : Charge(rules[i], invoice, today) > 0}
  IN IF charging = {} THEN 0 ELSE Min(charging)

(* calculate_penalties leaves an invoice with a penalty alone.              *)
Penalised(rules, invoice, today) ==
  LET i == PenaltyRule(rules, invoice, today) IN
  IF invoice.penalty # 0 \/ i = 0 THEN invoice
  ELSE [invoice EXCEPT !.penalty = Charge(rules[i], invoice, today)]

-----------------------------------------------------------------------------
(* A load is settled on some weight that was taken, and never on more than   *)
(* that unless the tare is negative; a deduction never exceeds the whole     *)
(* minimum, and dead freight is charged only when it exceeds what was paid.  *)
SettledFairly(tx) ==
  /\ Net(tx) >= 0
  /\ TotalTare(tx) >= 0 => Net(tx) <= Gross(tx)
  /\ Deduction(tx) \in 0..(Larger(tx.minimum, 0) * DeductionRate(tx))
  /\ DeadFreight(tx) => Deduction(tx) > tx.cost
  /\ LET weighed == {s \in {"scale", "buyer", "supplier"} : tx[s] > 0} IN
     weighed # {} => \E s \in weighed : Gross(tx) = tx[s]

(* A heavier load is never deducted more; buyer and supplier are treated     *)
(* alike by the flag.                                                       *)
HeavierIsBetter(tx, pounds) ==
  Source(tx) # "none" =>
    Deduction([tx EXCEPT ![Source(tx)] = @ + pounds]) <= Deduction(tx)

FlagIsSymmetric(tx) == Flagged(tx) <=> Flagged([tx EXCEPT !.supplier = tx.buyer, !.buyer = tx.supplier])

(* A tare that was typed stays through a change of the unit, until an        *)
(* override takes its place.                                                *)
TypedTareStays(tx, pounds, unit, override) ==
  LET typed == EditUnit(TypeTare(tx, pounds), unit) IN
  /\ typed.tare = pounds
  /\ override # 0 => EditOverride(typed, override).tare = override

(* A penalty is within the cap of a rule that is for the invoice, no earlier *)
(* rule charges, and a second calculation, whatever has changed by then,     *)
(* changes nothing.                                                         *)
PenaltyIsDue(rules, invoice, today, others, later) ==
  LET i == PenaltyRule(rules, invoice, today)
      after == Penalised(rules, invoice, today)
  IN /\ i # 0 /\ invoice.penalty = 0 =>
          /\ after.penalty > 0
          /\ IsFor(rules[i], invoice)
          /\ rules[i].max > 0 => after.penalty <= 100 * rules[i].max
          /\ \A j \in 1..(i - 1) : Charge(rules[j], invoice, today) <= 0
     /\ after.penalty # 0 => Penalised(others, after, later) = after

(* Within its grace period a rule with a threshold charges nothing.          *)
GraceHolds(rule, invoice, today) ==
  /\ rule.type = "late_delivery"
  /\ DaysLate(invoice, today) <= rule.grace
  => Charge(rule, invoice, today) <= 0
=============================================================================
