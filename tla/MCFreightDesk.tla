----------------------------- MODULE MCFreightDesk -----------------------------
(* Two contexts and two carrier responses on the first.  Two operators work  *)
(* with one of the responses, without the moves of the wizard that confirm   *)
(* or dispatch, and with a load that has its lane and goes no further than    *)
(* "dispatched", which the freight desk does not tell from the states after   *)
(* it; one operator works with both responses and the whole wizard, goes to   *)
(* the end, and may also leave the lane incomplete.                         *)
EXTENDS FreightShifts, SameAsLast, FreightAdvice

CONSTANTS c1, c2, s1, s2

MCContext == {c1, c2}
MCQuote == {[ctx |-> c1, no |-> n] : n \in 1..2}
MCSession == {s1, s2}

Bounds ==
  operators = 2 =>
    /\ lane # None \/ load.state = "draft"
    /\ \A s \in Session :
         /\ \A q \in DOMAIN plan[s].quote : q.no = 1
         /\ \A i \in DOMAIN plan[s].lane : plan[s].lane[i] # None
         /\ \A i \in DOMAIN plan[s].load :
              /\ plan[s].load[i].state \notin Locked \ {"dispatched"}
              /\ ~plan[s].load[i].bulk

DeskInit == operators \in 1..2 /\ ShiftInit
DeskNext == ShiftNext /\ Bounds'
DeskSpec == DeskInit /\ [][DeskNext]_shiftVars

Sessions == Permutations(MCSession)

(* Up to three earlier loads, that moved before, at, or after the cutoff.    *)
Lists == UNION {[1..n -> Candidate({0, 1, 2})] : n \in 0..3}

ASSUME SalIsExact == \A l \in Lists : NothingIsMissed(l, 4) /\ ReasonIsTrue(l, 4)

-----------------------------------------------------------------------------
(* The advice: up to four earlier loads, three outcomes, three quotes.       *)
Placed == {[lane |-> "same", miles |-> 0]} \cup [lane : {"other"}, miles : {-1, 0, 2}]

Earlier == UNION {{{[age |-> i] @@ f[i] : i \in 1..n} :
                     f \in [1..n -> Placed]} : n \in 0..4}

ASSUME EvidenceIsSound == \A loads \in Earlier : EvidenceIsNearest(loads)

Outcomes ==
  LET some == [amount : {0, 1, 3}, currency : {"usd", "cad"}, weight : {1, 2}, fresh : {0, 10}, exact : BOOLEAN]
  IN UNION {{{[load |-> i] @@ f[i] : i \in 1..n} : f \in [1..n -> some]} : n \in 0..2}

ASSUME EstimatesAreSound ==
  /\ \A rows \in Outcomes : ContractHolds(rows, "usd")
  /\ \A fingerprints \in SeqOf({"a", "b", "c"}, 4) : NewestIsCurrent(fingerprints)

(* Quotes that can be ranked, and ones that lack one thing.                 *)
Good == [response |-> "quote", lifecycle |-> "active", currency |-> "usd", current |-> TRUE, expired |-> FALSE,
         active |-> TRUE, blocked |-> FALSE, fresh |-> 5, timeliness |-> "late", carrier |-> "x", amount |-> 1]

Priced == {[Good EXCEPT !.amount = a, !.carrier = c] : a \in {1, 2, 6}, c \in {"x", "y"}}

Other == {[Good EXCEPT !.response = "decline"], [Good EXCEPT !.lifecycle = "superseded"],
          [Good EXCEPT !.amount = 0], [Good EXCEPT !.currency = "cad"], [Good EXCEPT !.currency = "none"],
          [Good EXCEPT !.current = FALSE], [Good EXCEPT !.expired = TRUE], [Good EXCEPT !.active = FALSE],
          [Good EXCEPT !.blocked = TRUE], [Good EXCEPT !.timeliness = "in_window"], [Good EXCEPT !.fresh = 0]}

Close == {[Good EXCEPT !.amount = a] : a \in {100, 400, 499, 500}}

Numbered(n, S) == {{[id |-> i] @@ f[i] : i \in 1..n} : f \in [1..n -> S]}

Past(n) ==
  UNION {{{[load |-> i] @@ f[i] : i \in 1..k} :
            f \in [1..k -> [amount : {1, 2}, currency : {"usd"}, weight : {1, 2}, carrier : {"x", "z"}]]} : k \in 0..n}

ASSUME RankingIsSound ==
  /\ \A n \in 0..2 : \A quotes \in Numbered(n, Priced \cup Other), outcomes \in Past(1) :
       RecommendsOne(quotes, outcomes, "usd")
  /\ \A quotes \in Numbered(3, Priced), outcomes \in Past(2) : FairPrices(quotes, outcomes, "usd")
  /\ \A quotes \in Numbered(3, Close) : FairPrices(quotes, {}, "usd")

(* Over that spread the cheaper one may lose, and of two whose scores round  *)
(* to one the dearer may come first.                                        *)
ASSUME PriceMayLose ==
  /\ \E quotes \in Numbered(3, Priced), outcomes \in Past(1) : ~CheaperFirst(quotes, outcomes, "usd")
  /\ \E quotes \in Numbered(3, Close) : \E p, q \in quotes :
       p.amount < q.amount /\ Before(q, p, quotes, {}, "usd")
=============================================================================
