------------------------------ MODULE FreightAdvice ------------------------------
(***************************************************************************)
(* What plasticos_logistics advises an operator who books a load: the        *)
(* earlier loads it takes as evidence, the estimate it makes of them, and    *)
(* the order in which it puts the carriers' quotes.  It decides nothing:     *)
(* FreightDesk has the selection and the confirmation.                      *)
(*                                                                         *)
(* A fraction is a pair <<numerator, positive denominator>>.  The weight of  *)
(* an outcome (exp of its age, over its distance for an estimate) is a       *)
(* positive integer in some unit, and freshness is in tenths.  Only a score   *)
(* is rounded, to a Grain of a hundredth.                                   *)
(***************************************************************************)
EXTENDS Integers, Sequences, FiniteSetsExt, SequencesExt

CONSTANTS
  CandidateLimit,  \* earlier loads looked at
  ResultLimit,     \* earlier loads used
  Grain            \* parts of a hundredth that a score keeps (10000)

ASSUME LimitAssumption == ResultLimit \in Nat /\ CandidateLimit \in Nat /\ Grain \in Nat \ {0}

Plus(x, y) == <<x[1] * y[2] + y[1] * x[2], x[2] * y[2]>>
Scaled(k, x) == <<k * x[1], x[2]>>
AtMost(x, y) == x[1] * y[2] <= y[1] * x[2]

Distance(a, b) == IF a < b THEN b - a ELSE a - b
Total(Of(_), S) == SumFunction([x \in S |-> Of(x)])

-----------------------------------------------------------------------------
(* The evidence.  Executed loads of the company that have a rate, newest     *)
(* first; those of the very lane, and the nearest of the newest ones.       *)
Leading(limit, Key(_), S) ==
  {x \in S : Cardinality({y \in S : Key(y) < Key(x)}) < limit}

ExactLane(loads) ==
  Leading(ResultLimit, LAMBDA l : l.age, {l \in loads : l.lane = "same"})

(* Without coordinates an earlier load is passed over; the stamps of two     *)
(* loads differ, so that their age decides a tie.                           *)
Comparable(loads) ==
  LET seen == Leading(CandidateLimit, LAMBDA l : l.age, loads)
      placed == {l \in seen : l.miles # -1}
      Farther(l) == Cardinality({k \in placed : \/ k.miles < l.miles
                                                \/ k.miles = l.miles /\ k.age < l.age})
  IN {l \in placed : Farther(l) < ResultLimit}

LaneHistory(loads, located) ==
  ExactLane(loads) \cup (IF located THEN Comparable(loads) ELSE {})

-----------------------------------------------------------------------------
(* estimate_haversine_curve, for a load whose places have coordinates.       *)
Matching(rows, currency) == {r \in rows : r.currency = currency /\ r.amount > 0}

Average(rows) == <<Total(LAMBDA r : r.amount * r.weight, rows), Total(LAMBDA r : r.weight, rows)>>

(* The share of ten rows, of exact ones, and the mean freshness.            *)
Confidence(rows, exact) ==
  LET n == Cardinality(rows)
      part == Plus(<<Min({n, 10}), 10>>,
                   Plus(<<exact, n>>, <<Total(LAMBDA r : r.fresh, rows), 10 * n>>))
  IN <<part[1], 3 * part[2]>>

Estimate(rows, currency) ==
  LET used == Matching(rows, currency)
      exact == Cardinality({r \in used : r.exact})
  IN IF used = {} THEN [status |-> "insufficient_evidence"]
     ELSE [status |-> "succeeded",
           floor |-> Min({r.amount : r \in used}),
           target |-> Average(used),
           ceiling |-> Max({r.amount : r \in used}),
           confidence |-> Confidence(used, exact),
           method |-> IF exact = Cardinality(used) THEN "exact_lane"
                      ELSE IF exact # 0 THEN "hybrid" ELSE "similar_lane"]

(* action_request_freight_estimate: evidence whose fingerprint the load has  *)
(* an estimate for already is passed over.                                  *)
Recorded(fingerprints) ==
  FoldLeft(LAMBDA done, f : IF Contains(done, f) THEN done ELSE Append(done, f),
           <<>>, fingerprints)

-----------------------------------------------------------------------------
(* rank_quotes.  amount 0 and currency "none" are "not set".                *)
Reasons(q, currency) ==
  {reason \in {"not_a_quote", "not_active", "no_price", "currency", "stale", "expired",
               "inactive", "blocked"} :
     CASE reason = "not_a_quote" -> q.response # "quote"
       [] reason = "not_active" -> q.lifecycle # "active"
       [] reason = "no_price" -> q.amount <= 0 \/ q.currency = "none"
       [] reason = "currency" -> q.amount > 0 /\ q.currency \notin {"none", currency}
       [] reason = "stale" -> ~q.current
       [] reason = "expired" -> q.expired
       [] reason = "inactive" -> ~q.active
       [] reason = "blocked" -> q.blocked}

Rankable(q, currency) == Reasons(q, currency) = {}

PriceScore(amount, amounts) ==
  LET low == Min(amounts)
      high == Max(amounts)
  IN IF low = high THEN <<1, 1>> ELSE <<high - amount, high - low>>

(* 1 - |amount - average| / max(average, 1), and nothing below zero.         *)
Nearness(amount, outcomes) ==
  LET average == Average(outcomes)
      scale == Max({average[1], average[2]})
  IN <<Max({0, scale - Distance(amount * average[2], average[1])}), scale>>

LaneScore(q, outcomes) ==
  LET known == {o \in outcomes : o.currency = q.currency}
  IN IF known = {} THEN <<1, 2>> ELSE Nearness(q.amount, known)

CarrierScore(q, outcomes) ==
  LET known == {o \in outcomes : o.carrier = q.carrier /\ o.currency = q.currency}
      near == Nearness(q.amount, known)
  IN IF known = {} THEN <<1, 2>>
     ELSE <<Min({Cardinality(known), 5}) * near[2] + 5 * near[1], 10 * near[2]>>

Timeliness == [in_window |-> 10, unknown |-> 6, late |-> 2]

(* In hundredths: 55 for the price, 20 for the lane, 15 for the carrier, 5   *)
(* each for freshness and timeliness.                                       *)
Score(q, quotes, outcomes, currency) ==
  LET rivals == {r.amount : r \in {p \in quotes : Rankable(p, currency)}}
  IN Plus(Plus(Scaled(55, PriceScore(q.amount, rivals)), Scaled(20, LaneScore(q, outcomes))),
          Plus(Scaled(15, CarrierScore(q, outcomes)), <<q.fresh + Timeliness[q.timeliness], 2>>))

(* round(): the nearest part, and of two as near the even one.              *)
Rounded(x) ==
  LET n == Grain * x[1]
      part == n \div x[2]
      rest == 2 * (n % x[2])
  IN IF rest > x[2] \/ (rest = x[2] /\ part % 2 = 1) THEN part + 1 ELSE part

Rank(q, quotes, outcomes, currency) ==
  IF Rankable(q, currency) THEN Rounded(Score(q, quotes, outcomes, currency)) ELSE 0

(* The sort key: eligible first, then the score, then the quote's id.       *)
Before(p, q, quotes, outcomes, currency) ==
  LET ours == Rank(p, quotes, outcomes, currency)
      theirs == Rank(q, quotes, outcomes, currency)
  IN IF Rankable(p, currency) # Rankable(q, currency) THEN Rankable(p, currency)
     ELSE ours > theirs \/ (ours = theirs /\ p.id < q.id)

Recommended(quotes, outcomes, currency) ==
  {q \in quotes : /\ Rankable(q, currency)
                  /\ \A p \in quotes \ {q} : Before(q, p, quotes, outcomes, currency)}

-----------------------------------------------------------------------------
(* _check_estimate_contract, which the estimator's own results never fail.   *)
ContractHolds(rows, currency) ==
  LET e == Estimate(rows, currency) IN
  e.status = "succeeded" =>
    /\ AtMost(<<e.floor, 1>>, e.target) /\ AtMost(e.target, <<e.ceiling, 1>>)
    /\ AtMost(<<0, 1>>, e.confidence) /\ AtMost(e.confidence, <<1, 1>>)

(* The newest estimate is the one of the evidence of the last request, as    *)
(* long as the evidence never returns to what it was before.                *)
NewestIsCurrent(fingerprints) ==
  LET n == Len(fingerprints) IN
  (\A i \in 1..n : fingerprints[i] = fingerprints[n] => \A j \in i..n : fingerprints[j] = fingerprints[n])
    => n = 0 \/ Last(Recorded(fingerprints)) = fingerprints[n]

(* The load's own lane is in the evidence however many newer loads there     *)
(* are, and so is the nearest load of those looked at.                      *)
EvidenceIsNearest(loads) ==
  LET used == LaneHistory(loads, TRUE)
      seen == Leading(CandidateLimit, LAMBDA l : l.age, loads)
  IN /\ ExactLane(loads) \subseteq used
     /\ ResultLimit > 0 => \A l \in seen : l.miles # -1 => \E k \in used : k.miles # -1 /\ k.miles <= l.miles

(* One quote is recommended if one is eligible, and none otherwise; those   *)
(* that are not eligible move nobody.                                       *)
RecommendsOne(quotes, outcomes, currency) ==
  LET eligible == {q \in quotes : Rankable(q, currency)} IN
  /\ Cardinality(Recommended(quotes, outcomes, currency)) = (IF eligible = {} THEN 0 ELSE 1)
  /\ Recommended(quotes, outcomes, currency) = Recommended(eligible, outcomes, currency)

(* Of two eligible quotes that differ in the price the cheaper comes first   *)
(* unless their scores round to one, when the id decides.  It is not so when *)
(* the prices spread over twice an average they are held against or more:   *)
(* then nearness to the past can outweigh the price.                        *)
Alike(p, q) == [p EXCEPT !.amount = q.amount, !.id = q.id] = q

Spread(quotes, currency) ==
  LET amounts == {q.amount : q \in {p \in quotes : Rankable(p, currency)}} IN Max(amounts) - Min(amounts)

CheaperFirst(quotes, outcomes, currency) ==
  \A p, q \in {r \in quotes : Rankable(r, currency)} :
    p.amount < q.amount /\ Alike(p, q) =>
      \/ Before(p, q, quotes, outcomes, currency)
      \/ /\ Rank(p, quotes, outcomes, currency) = Rank(q, quotes, outcomes, currency)
         /\ q.id < p.id

Compact(quotes, outcomes, currency) ==
  \A S \in {{o \in outcomes : o.currency = currency}} \cup
           {{o \in outcomes : o.currency = currency /\ o.carrier = q.carrier} : q \in quotes} :
    S # {} => LET average == Average(S) IN
      Spread(quotes, currency) * average[2] < 2 * Max({average[1], average[2]})

FairPrices(quotes, outcomes, currency) ==
  /\ \E q \in quotes : Rankable(q, currency)
  /\ Compact(quotes, outcomes, currency)
  => CheaperFirst(quotes, outcomes, currency)
=============================================================================
