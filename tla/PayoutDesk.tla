------------------------------ MODULE PayoutDesk ------------------------------
(***************************************************************************)
(* The payouts of one sales representative (plasticos_commission): lists of  *)
(* closed transactions whose locked commissions are due, confirmed and paid. *)
(* A payout's row stores what is due, computed anew by whoever writes the    *)
(* list.  The period is not read by any operation.                         *)
(*                                                                         *)
(* Left out: dates (a payment without one raises) and the amount paid as it  *)
(* can be typed in before a payment sets it.                                *)
(***************************************************************************)
EXTENDS SnapshotRequests, FiniteSetsExt

CONSTANTS
  PayoutSlots,  \* ids for payouts
  Closings,     \* transactions of the representative
  Commission    \* [Closings -> Nat]: what a close locks (CommissionRules)

ASSUME PayoutAssumption ==
  /\ Commission \in [Closings -> Nat]
  /\ PayoutSlots \cap Closings = {}

PayoutState == {"draft", "confirmed", "paid", "cancelled"}

PayoutRows == {[k \in PayoutSlots \cup Closings |-> IF k \in locked THEN "locked" ELSE None] :
                 locked \in SUBSET Closings}

Payouts == {p \in PayoutSlots \cap DOMAIN rows : rows[p] # None}
FreeSlots == (PayoutSlots \cap DOMAIN rows) \ Payouts
Earned == {t \in Closings \cap DOMAIN rows : rows[t] = "locked"}

(* _compute_totals.                                                        *)
DueOn(list) == MapThenSumSet(LAMBDA t : Commission[t], list)

Draft(list) == [state |-> "draft", list |-> list, due |-> DueOn(list), paid |-> 0]

-----------------------------------------------------------------------------
(* A transaction is closed (TransactionClose).                             *)
LockCommission(s) == \E t \in (Closings \cap DOMAIN rows) \ Earned : Begin(s, Row(t, "locked"), {})

(* action_generate_for_rep passes over what confirmed and paid payouts hold. *)
Settling == UNION {rows[p].list : p \in {x \in Payouts : rows[x].state \in {"confirmed", "paid"}}}
Unsettled == {t \in Earned : Commission[t] > 0} \ Settling

GeneratePayout(s) ==
  /\ Unsettled # {}
  /\ \E p \in FreeSlots : Begin(s, Row(p, Draft(Unsettled)), {})

CreatePayout(s) == \E p \in FreeSlots : Begin(s, Row(p, Draft({})), {})

\* Mutation: the sums do not depend on the list.
EditListOnly(s) == \E p \in Payouts, list \in SUBSET Earned :
  Begin(s, Row(p, [rows[p] EXCEPT !.list = list]), {})

(* The form shows the list read-only unless the payout was a draft when it   *)
(* was opened; the code refuses nothing.                                   *)
EditList(s) == \E p \in Payouts, list \in SUBSET Earned :
  Begin(s, Row(p, [rows[p] EXCEPT !.list = list, !.due = DueOn(list)]), {})

DeletePayout(s) == \E p \in Payouts : Begin(s, Row(p, None), {})

ConfirmPayout(s) == \E p \in Payouts :
  /\ rows[p].state = "draft" /\ rows[p].list # {}
  /\ Begin(s, Row(p, [rows[p] EXCEPT !.state = "confirmed"]), {})

MarkPaid(s) == \E p \in Payouts :
  /\ rows[p].state = "confirmed"
  /\ Begin(s, Row(p, [rows[p] EXCEPT !.state = "paid", !.paid = rows[p].due]), {})

(* action_reset_draft and action_cancel.                                   *)
Withdraw(s) == \E p \in Payouts, new \in {"draft", "cancelled"} :
  /\ rows[p].state # "paid"
  /\ Begin(s, Row(p, [rows[p] EXCEPT !.state = new]), {})

PayoutRequest(s) ==
  \/ LockCommission(s) \/ GeneratePayout(s) \/ CreatePayout(s) \/ EditList(s)
  \/ DeletePayout(s) \/ ConfirmPayout(s) \/ MarkPaid(s) \/ Withdraw(s)

PayoutInit == Start(PayoutRows, {})
PayoutNext == \E s \in Session : PayoutRequest(s) \/ Served(s)
PayoutSpec == PayoutInit /\ [][PayoutNext]_requestVars

-----------------------------------------------------------------------------
(* What is paid is the sum of the commissions on the list as it is at that   *)
(* moment, however late the edit that another form still had open; and a     *)
(* payment stands: no reset or cancellation that began before it undoes it.  *)
PaymentsStand == [][\A p \in Payouts : rows'[p] # None =>
  IF rows[p].state = "paid"
  THEN rows'[p].state = "paid" /\ rows'[p].paid = rows[p].paid
  ELSE rows'[p].state = "paid" => rows'[p].paid = DueOn(rows'[p].list)]_rows

(* commission_payout.py:179: the generator drafts payouts of transactions    *)
(* that are unpaid, and is safe to call from a cron or a wizard: no          *)
(* transaction is paid by two payouts.                                     *)
PaidOnce == \A p, q \in Payouts :
  rows[p].state = "paid" /\ rows[q].state = "paid" /\ p # q =>
    rows[p].list \cap rows[q].list = {}
=============================================================================
