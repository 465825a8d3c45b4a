----------------------------- MODULE CommissionRules -----------------------------
(***************************************************************************)
(* What a transaction's sales representative earns (plasticos_commission):  *)
(* the locked amount, else nothing on a loss, else an override, the rule if  *)
(* it applies, or a default rate.  TransactionClose has the lock and the     *)
(* races; it takes a margin's commission to be a fixed share.               *)
(*                                                                         *)
(* Amounts are in cents and rates in units of 1/Unit.  round(x, 2) of a      *)
(* floating point product is a nearest cent; on a tie either one, as the    *)
(* product is not exact.  So a commission is a relation.                    *)
(***************************************************************************)
EXTENDS Integers

CONSTANTS
  Unit,
  None   \* no rule, product or partner

ASSUME UnitAssumption == Unit \in Nat \ {0}

Rates == 0..Unit  \* _check_rate_range, _check_percentage_range, _check_override_pct_range

Tier == {t \in [min : Int, max : Int, rate : Rates] : t.max # 0 => t.min <= t.max}

(* 0 is "not set" for the dates and amounts, {} for the filters.             *)
IsRule(rule) ==
  /\ rule.kind \in {"percentage", "fixed", "tiered"}
  /\ rule.percentage \in Rates /\ rule.fixed \in Int
  /\ rule.tiers \subseteq Tier

(* is_applicable.  The product's and the partner's filters are asked only   *)
(* when the transaction has one.                                            *)
IsApplicable(rule, tx) ==
  /\ rule.from # 0 => tx.date >= rule.from
  /\ rule.to # 0 => tx.date <= rule.to
  /\ rule.min # 0 => tx.revenue >= rule.min
  /\ rule.max # 0 => tx.revenue <= rule.max
  /\ tx.product # None =>
       /\ rule.products = {} \/ tx.product \in rule.products
       /\ rule.categories = {} \/ tx.category \in rule.categories
  /\ tx.partner # None => rule.partners = {} \/ tx.partner \in rule.partners

(* _calculate_tiered_commission: the first tier by min_amount that contains  *)
(* the amount; the order of tiers with the same min_amount is not specified. *)
Fits(tier, amount) == tier.min <= amount /\ (tier.max # 0 => amount <= tier.max)

TierRates(rule, amount) ==
  LET fit == {t \in rule.tiers : Fits(t, amount)} IN
  IF fit = {} THEN {rule.percentage}
  ELSE {t.rate : t \in {x \in fit : \A y \in fit : x.min <= y.min}}

Nearest(n, x) == n \in Int /\ 2 * (n * Unit - x) \in -Unit..Unit

CalculateCommission(rule, tx, n) ==
  CASE rule.kind = "percentage" -> Nearest(n, tx.margin * rule.percentage)
    [] rule.kind = "tiered" ->
         \E rate \in TierRates(rule, tx.revenue) : Nearest(n, tx.margin * rate)
    [] rule.kind = "fixed" -> n = IF rule.fixed > 0 THEN rule.fixed ELSE 0

(* compute_commission with the default rate of the configuration, which no   *)
(* constraint bounds.                                                       *)
ComputeCommission(tx, default, n) ==
  IF tx.locked THEN n = tx.lockedAmount
  ELSE IF tx.margin <= 0 THEN n = 0
  ELSE IF tx.override > 0 THEN Nearest(n, tx.margin * tx.override)
  ELSE IF tx.rule # None /\ IsApplicable(tx.rule, tx) THEN CalculateCommission(tx.rule, tx, n)
  ELSE IF default > 0 THEN Nearest(n, tx.margin * default) ELSE n = 0

NetMargin(tx, n) == tx.margin - n

(* An open transaction whose commission is a share of its margin.           *)
Shared(tx, default) ==
  /\ ~tx.locked /\ tx.margin \in Int /\ tx.revenue \in Int
  /\ tx.override \in Rates /\ default \in Rates
  /\ tx.rule # None => IsRule(tx.rule) /\ tx.rule.kind # "fixed"

(* Two tiers that meet both contain the larger of their minima.             *)
Disjoint(tiers) == \A a, b \in tiers : Fits(a, b.min) /\ b.min >= a.min => a = b
=============================================================================
