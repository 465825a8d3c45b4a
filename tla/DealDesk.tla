-------------------------------- MODULE DealDesk --------------------------------
(***************************************************************************)
(* From an intake to its purchase (plasticos_intake, plasticos_offer): an    *)
(* intake is matched with buyers, the buyers selected on its match lines are *)
(* sent offers, buyers accept or decline, and the desk makes the purchase   *)
(* order, which opens a transaction.                                       *)
(*                                                                         *)
(* Match lines and offers are rows of their own: the requests that read them *)
(* do not write them.  What is committed once too often leaves no row that   *)
(* says so; log counts it.  Left out: contacts, images, partners; a missing *)
(* company or price only makes a request raise.                            *)
(***************************************************************************)
EXTENDS SnapshotRequests

CONSTANTS
  Intakes, Buyers,
  OfferSlots,  \* ids for offers
  Prices,      \* prices of an offer
  MaxMatches   \* bound: times an intake becomes "matched"

IntakeStatus == {"draft", "matched", "offer_sent", "processing", "won", "lost", "expired"}
OfferState == {"draft", "sent", "responded", "accepted", "rejected", "expired", "cancelled"}
ClosedOffer == {"accepted", "rejected", "expired", "cancelled"}

Lines == Intakes \X Buyers

ASSUME DealAssumption ==
  Intakes \cap Lines = {} /\ Intakes \cap OfferSlots = {} /\ Lines \cap OfferSlots = {}

Events == {"matched", "offered", "bought"} \X Intakes

(* A draft without match lines or offers; a line is listed or selected.     *)
DeskRows == {[k \in Intakes \cup Lines \cup OfferSlots |->
                IF k \in Intakes THEN "draft" ELSE None]}

Desk == Intakes \cap DOMAIN rows
Filed == {o \in OfferSlots \cap DOMAIN rows : rows[o] # None}
LinesOf(i) == {i} \X Buyers
Selected(i) == {l[2] : l \in {x \in LinesOf(i) : rows[x] = "selected"}}

-----------------------------------------------------------------------------
(* action_match_to_buyers asks Gate (MatchRuns) and replaces the lines.  It  *)
(* is not guarded by the status; no answer leaves the status alone.         *)
MatchToBuyers(s) == \E i \in Desk, answer \in SUBSET Buyers :
  LET lines == [l \in LinesOf(i) |-> IF l[2] \in answer THEN "listed" ELSE None] IN
  IF answer = {} THEN Begin(s, lines, {})
  ELSE /\ log[<<"matched", i>>] < MaxMatches
       /\ Begin(s, Over(Row(i, "matched"), lines),
                IF rows[i] = "matched" THEN {} ELSE {<<"matched", i>>})

SelectLine(s) == \E i \in Desk : \E l \in LinesOf(i) :
  /\ rows[l] # None
  /\ Begin(s, Row(l, IF rows[l] = "listed" THEN "selected" ELSE "listed"), {})

(* action_send_offers: an offer, still a draft, for each selected line.      *)
SendOffers(s) == \E i \in Desk :
  /\ rows[i] = "matched" /\ Selected(i) # {}
  /\ \E slot \in [Selected(i) -> (OfferSlots \cap DOMAIN rows) \ Filed], price \in Prices :
       /\ \A a, b \in Selected(i) : slot[a] = slot[b] => a = b
       /\ Begin(s, Over(Row(i, "offer_sent"),
                         [o \in {slot[b] : b \in Selected(i)} |->
                            [intake |-> i, buyer |-> CHOOSE b \in Selected(i) : slot[b] = o,
                             state |-> "draft", price |-> price]]),
                {<<"offered", i>>})

(* _assert_status, and the changes of status by a button.                   *)
MoveIntake(s, from, to) == \E i \in Desk : rows[i] \in from /\ Begin(s, Row(i, to), {})

MarkProcessing(s) == MoveIntake(s, {"offer_sent"}, "processing")
MarkWon(s) == MoveIntake(s, {"offer_sent", "processing"}, "won")
MarkLost(s) == MoveIntake(s, IntakeStatus, "lost")
MarkExpired(s) == MoveIntake(s, IntakeStatus, "expired")

\* Mutation: the lines go, the status says that they are there.
ResetToMatched(s) == \E i \in Desk :
  /\ rows[i] # "won"
  /\ Begin(s, Over(Row(i, "matched"), [l \in LinesOf(i) |-> None]), {})

ResetToDraft(s) == \E i \in Desk :
  /\ rows[i] # "won"
  /\ Begin(s, Over(Row(i, "draft"), [l \in LinesOf(i) |-> None]), {})

\* Mutation: the intake may have any status.
MakePOAnytime(s) == \E i \in Desk : Begin(s, Row(i, "won"), {<<"bought", i>>})

(* action_make_po: the transaction is created and the intake is won.        *)
MakePO(s) == \E i \in Desk :
  /\ rows[i] \in {"matched", "offer_sent", "processing"}
  /\ Begin(s, Row(i, "won"), {<<"bought", i>>})

-----------------------------------------------------------------------------
(* The buttons of an offer: from which states to which.                    *)
ActionSend == {<<"draft", "sent">>}
ActionMarkResponded == {<<"sent", "responded">>}
ActionAccept == {"sent", "responded"} \X {"accepted"}
ActionReject == (OfferState \ {"accepted", "cancelled", "expired"}) \X {"rejected"}

(* An offer entered by hand.                                               *)
CreateOffer(s) == \E o \in (OfferSlots \cap DOMAIN rows) \ Filed, i \in Desk, b \in Buyers,
                     price \in Prices :
  Begin(s, Row(o, [intake |-> i, buyer |-> b, state |-> "draft", price |-> price]), {})

\* Mutation: any offer can be cancelled.
ActionCancelAny == OfferState \X {"cancelled"}

ActionCancel == (OfferState \ {"accepted"}) \X {"cancelled"}
ActionResetOffer == {"rejected", "cancelled"} \X {"draft"}

PressOffer(s) == \E o \in Filed :
  \E move \in UNION {ActionSend, ActionMarkResponded, ActionAccept, ActionReject,
                     ActionCancel, ActionResetOffer} :
    /\ rows[o].state = move[1]
    /\ Begin(s, Row(o, [rows[o] EXCEPT !.state = move[2]]), {})

(* The bulk wizard passes over the offers a button would refuse, except that *)
(* the reason of a rejection cannot be written to a closed one.             *)
BulkOffers(s) ==
  \E moves \in {ActionSend, ActionAccept, ActionCancel,
                (OfferState \ ClosedOffer) \X {"rejected"}} :
    LET valid == {o \in Filed : \E move \in moves : rows[o].state = move[1]}
        to == (CHOOSE move \in moves : TRUE)[2] IN
    \E O \in SUBSET valid : Begin(s, [o \in O |-> [rows[o] EXCEPT !.state = to]], {})

EditOffer(s) == \E o \in Filed, price \in Prices :
  /\ rows[o].state \notin ClosedOffer
  /\ Begin(s, Row(o, [rows[o] EXCEPT !.price = price]), {})

(* A write with a state among its values, which nothing guards: a card moved  *)
(* in the kanban, or a call.  One of an acceptance is marked.               *)
WriteState(s) == \E o \in Filed, to \in OfferState, price \in Prices :
  Begin(s, Row(o, [rows[o] EXCEPT !.state = to, !.price = price]),
        IF rows[o].state = "accepted" THEN {<<"overridden", o>>} ELSE {})

UnlinkOffer(s) == \E o \in Filed :
  /\ rows[o].state \notin {"accepted", "rejected"}
  /\ Begin(s, Row(o, None), {})

(* cron_expire_offers, for those that are past their date.                  *)
ExpireOffers(s) == \E O \in SUBSET {o \in Filed : rows[o].state \notin ClosedOffer} :
  Begin(s, [o \in O |-> [rows[o] EXCEPT !.state = "expired"]], {})

DealRequest(s) ==
  \/ MatchToBuyers(s) \/ SelectLine(s) \/ SendOffers(s) \/ MakePO(s)
  \/ MarkProcessing(s) \/ MarkWon(s) \/ MarkLost(s) \/ MarkExpired(s) \/ ResetToDraft(s)
  \/ CreateOffer(s) \/ PressOffer(s) \/ BulkOffers(s) \/ EditOffer(s)
  \/ WriteState(s) \/ UnlinkOffer(s) \/ ExpireOffers(s)

DealInit == Start(DeskRows, Events)
DealNext == \E s \in Session : DealRequest(s) \/ Served(s)
DealSpec == DealInit /\ [][DealNext]_requestVars

-----------------------------------------------------------------------------
(* Each purchase and each sending of offers is a step of its own that a      *)
(* matching pays for (MatchingBudget).                                      *)
Times(event) ==
  [i \in Intakes |-> IF <<event, i>> \in DOMAIN log THEN log[<<event, i>>] ELSE 0]

Budget == INSTANCE MatchingBudget WITH
  matched <- Times("matched"), offered <- Times("offered"), bought <- Times("bought")

WithinBudget == Budget!BudgetSpec

(* One matching is spent once: whatever two desks do at the same time, an     *)
(* intake is bought, and offered to its buyers, at most once for each time  *)
(* it became "matched".                                                    *)
SpentOnce == \A i \in Desk :
  /\ log[<<"bought", i>>] <= log[<<"matched", i>>]
  /\ log[<<"offered", i>>] <= log[<<"matched", i>>]

(* What a buyer has accepted stands, with its price, against buttons, the    *)
(* wizard, the expiry cron and edits, and against a write of the state that  *)
(* began before he accepted: only one that saw the acceptance undoes it.    *)
Overrides(s, o) == <<"overridden", o>> \in request[s].events

AcceptedStands ==
  [][\A o \in Filed : rows[o].state = "accepted" /\ rows'[o] # rows[o] =>
       \E s \in Session : Overrides(s, o) /\ Commit(s)]_rows
=============================================================================
