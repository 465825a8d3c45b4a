------------------------------- MODULE LeadTriage -------------------------------
(***************************************************************************)
(* The deterministic part of the triage of a web lead (plasticos_web_leads):*)
(* which weight is believed, which threshold applies, HOT or COLD, and      *)
(* whether a broker must look first.  A keyword search over a text is a     *)
(* BOOLEAN: found or not.                                                   *)
(***************************************************************************)
EXTENDS Integers, FiniteSets

CONSTANTS
  HotMin,       \* config.hot_min_lbs
  ReusableMin,  \* config.reusable_item_hot_min_lbs
  ColdMax,      \* config.cold_max_lbs
  PalletLbs     \* _LBS_PER_PALLET_ASSUMPTION

ASSUME ThresholdAssumption == {HotMin, ReusableMin, ColdMax, PalletLbs} \subseteq Nat

(* A weight float() accepts and int() refuses: "nan", "inf".  Comparisons   *)
(* with nan are false.                                                      *)
NaN == -1
Less(v, w) == v # NaN /\ w # NaN /\ v < w

Tri == {"yes", "no", "unknown"}

(* What normalization found in one submission; packet: by way of a canonical *)
(* packet, whose quantity field the seller filled in (0: no weight in it).   *)
Evidence(packets, sellers, guesses) ==
  [packet : packets, seller : sellers, ai : guesses, vision : guesses,
   pallets : guesses, plastic : Tri, commercial : Tri, rejected : BOOLEAN,
   reusable : BOOLEAN, polymer : BOOLEAN, keyword : BOOLEAN, industrial : BOOLEAN]

(* The weight cascade of _merge_ai_and_vision.                              *)
Lbs(e) ==
  IF e.packet
    THEN IF e.seller # 0 THEN e.seller ELSE e.ai
    ELSE IF e.ai # 0 THEN e.ai
         ELSE IF e.vision # 0 THEN e.vision ELSE e.pallets * PalletLbs

(* evaluate_economic_eligibility.                                           *)
Threshold(e) == IF e.reusable THEN ReusableMin ELSE HotMin
Eligible(e) == Lbs(e) # NaN /\ Lbs(e) >= Threshold(e) /\ Threshold(e) > 0

ColdGate(e) ==
  \/ e.plastic = "no" \/ e.commercial = "no" \/ e.rejected
  \/ Lbs(e) = 0
  \/ Less(0, Lbs(e)) /\ Less(Lbs(e), ColdMax)

Qualifiers(e) ==
  {"weight"} \cup (IF Eligible(e) THEN {"economic"} ELSE {})
             \cup (IF e.polymer THEN {"polymer"} ELSE {})
             \cup (IF \/ e.commercial = "yes"
                      \/ e.commercial = "unknown" /\ e.keyword
                   THEN {"commercial"} ELSE {})
             \cup (IF e.industrial THEN {"post_industrial"} ELSE {})

MinHotQualifiers == 2

(* classify_lead.                                                           *)
Hot(e) ==
  /\ ~ColdGate(e)
  /\ ~Less(Lbs(e), Threshold(e))
  /\ Cardinality(Qualifiers(e)) >= MinHotQualifiers

(* Unknown commercial evidence is for a broker to resolve.                  *)
NeedsReview(e) == Hot(e) /\ e.commercial = "unknown"

(* int(estimated_lbs), evaluated after the classification and before        *)
(* anything is written, raises.                                             *)
Unusable(e) == Lbs(e) = NaN

-----------------------------------------------------------------------------
(* Of two packets that differ only in the weight the seller states, the     *)
(* heavier one is HOT when the lighter one is.  (A packet that states none  *)
(* falls back on the weight the AI read, so stating one may turn it COLD.)  *)
HeavierIsNoColder(evidence, weights) ==
  \A e \in evidence, w \in weights :
    e.packet /\ e.seller > 0 /\ w >= e.seller /\ Hot(e) => Hot([e EXCEPT !.seller = w])

(* On the packet path a count of units is never taken for pounds.           *)
CountsAreNotPounds(evidence) ==
  \A e \in evidence : e.packet => Hot(e) = Hot([e EXCEPT !.pallets = 0])
=============================================================================
