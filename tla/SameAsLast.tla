------------------------------- MODULE SameAsLast -------------------------------
(***************************************************************************)
(* resolve_sal of plasticos_logistics: whether a load may take the carrier   *)
(* and the rate of an earlier one.  FreightDesk leaves its outcome open      *)
(* (ResolveHit, ResolveMiss); this is the search that decides it.           *)
(*                                                                         *)
(* The candidates come in the order of the database: loads under way first   *)
(* (delivered_at is NULL), then the latest delivery.                        *)
(***************************************************************************)
EXTENDS Integers, Sequences, FiniteSetsExt

CONSTANT SalWindow  \* SAL_WINDOW, in the unit of the clock

ASSUME WindowAssumption == SalWindow \in Nat

(* What a candidate shows: when it moved (0: no stamp that fits its state),   *)
(* whether it was booked on the fingerprint the load has now, its carrier,   *)
(* and whether it has a positive rate with a currency.                      *)
Candidate(moments) ==
  [moved : moments, same : BOOLEAN, carrier : {"none", "active", "inactive"}, rated : BOOLEAN]

Fresh(c, now) == c.moved >= now - SalWindow

Qualifies(c, now) ==
  c.moved # 0 /\ c.same /\ Fresh(c, now) /\ c.carrier = "active" /\ c.rated

-----------------------------------------------------------------------------
(* The loop of resolve_sal: what it has seen so far, and from there on.       *)
Seen(c, now) ==
  IF c.moved = 0 THEN {}
  ELSE IF ~c.same THEN {IF Fresh(c, now) THEN "movement" ELSE "old"}
  ELSE {"movement"} \cup
       (IF ~Fresh(c, now) THEN {"old"}
        ELSE IF c.carrier = "none" THEN {"inactive"}
        ELSE IF ~c.rated THEN {"missing"}
        ELSE IF c.carrier = "inactive" THEN {"inactive"} ELSE {})

Reason(seen) ==
  CASE "inactive" \in seen -> "prior_carrier_inactive"
    [] "inactive" \notin seen /\ "missing" \in seen -> "prior_rate_missing"
    [] seen \cap {"inactive", "missing"} = {} /\ "old" \in seen -> "prior_movement_too_old"
    [] seen = {"movement"} -> "prior_record_ambiguous"
    [] seen = {} -> "no_prior_movement"

(* One turn of the loop; once there is a hit, the loop is over.               *)
Visit(before, i, c, now) ==
  IF before.hit # 0 THEN before
  ELSE IF Qualifies(c, now) THEN [hit |-> i, seen |-> before.seen]
  ELSE [hit |-> 0, seen |-> before.seen \cup Seen(c, now)]

(* The first candidate that passes every test, or the reason of the miss.    *)
ResolveSal(candidates, now) ==
  LET after[i \in 0..Len(candidates)] ==
        IF i = 0 THEN [hit |-> 0, seen |-> {}]
        ELSE Visit(after[i - 1], i, candidates[i], now)
      end == after[Len(candidates)]
  IN IF end.hit # 0 THEN <<"hit", end.hit>> ELSE <<"miss", Reason(end.seen)>>

-----------------------------------------------------------------------------
(* A load is reused exactly when there is one that qualifies, and then the    *)
(* first of them, whatever unusable loads the search meets before it.       *)
NothingIsMissed(candidates, now) ==
  LET usable == {i \in DOMAIN candidates : Qualifies(candidates[i], now)} IN
  IF usable = {} THEN ResolveSal(candidates, now)[1] = "miss"
  ELSE ResolveSal(candidates, now) = <<"hit", Min(usable)>>

(* "Too old" and "no movement" are said only when no load of this freight     *)
(* moved within the window.                                                 *)
ReasonIsTrue(candidates, now) ==
  ResolveSal(candidates, now) \in {"miss"} \X {"prior_movement_too_old", "no_prior_movement"} =>
    \A i \in DOMAIN candidates :
      LET c == candidates[i] IN ~(c.moved # 0 /\ c.same /\ Fresh(c, now))
=============================================================================
