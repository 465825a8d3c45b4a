------------------------------ MODULE OfficeProofs ------------------------------
(***************************************************************************)
(* Proofs about BackOffice and its parts, for any rows, users' values and  *)
(* number of requests open at a time: payouts, the states of transactions, *)
(* the deal desk, actual freight costs, required documents, imports,       *)
(* claims with the sums over them, the advice on freight, and the headers  *)
(* of the old ERP.                                                         *)
(*                                                                         *)
(* The parts that work in requests share one argument: a plan made on a    *)
(* snapshot stays sound while none of the rows that it writes is committed *)
(* by another, and a request whose row was is never committed.             *)
(***************************************************************************)
EXTENDS BackOffice, FreightAdvice, LegacyHeaders, FiniteSetTheorems, WellFoundedInduction, TLAPS

(* What a commit writes: the rows of its plan, and nothing else.             *)
LEMMA CommitWrites ==
  ASSUME NEW s, Commit(s), DOMAIN request[s].writes \subseteq DOMAIN rows
  PROVE  /\ DOMAIN rows' = DOMAIN rows
         /\ \A k \in DOMAIN request[s].writes : rows'[k] = request[s].writes[k]
         /\ \A k \in DOMAIN rows \ DOMAIN request[s].writes : rows'[k] = rows[k]
  <1>1. rows' = Over(request[s].writes, rows)
    BY DEF Commit
  <1> QED
    BY <1>1 DEF Over

(* A request that a commit leaves able to commit writes none of its rows.    *)
LEMMA Survivors ==
  ASSUME DOMAIN request = Session, NEW s \in Session, Commit(s),
         NEW o \in Session \ stale', o # s
  PROVE  /\ o \notin stale /\ request'[o] = request[o]
         /\ DOMAIN request[o].writes \cap DOMAIN request[s].writes = {}
  BY DEF Commit, Collide

LEMMA CommitCloses ==
  ASSUME DOMAIN request = Session, NEW s \in Session, Commit(s) \/ Rollback(s)
  PROVE  DOMAIN request' = Session /\ DOMAIN request'[s].writes = {}
  BY DEF Commit, Rollback, NoRequest

(* What is planned is what changes.                                        *)
LEMMA BeginPlans ==
  ASSUME DOMAIN request = Session, NEW s \in Session, NEW plan, NEW events,
         Begin(s, plan, events)
  PROVE  /\ UNCHANGED <<rows, stale>> /\ DOMAIN request' = Session
         /\ DOMAIN request'[s].writes \subseteq DOMAIN plan
         /\ \A k \in DOMAIN request'[s].writes : request'[s].writes[k] = plan[k]
         /\ \A o \in Session \ {s} : request'[o] = request[o]
  <1> DEFINE r == [writes |-> Changed(plan), events |-> events]
  <1>1. request' = [request EXCEPT ![s] = r] /\ UNCHANGED <<rows, stale>>
    BY DEF Begin
  <1>2. r.writes = Changed(plan)
    OBVIOUS
  <1>3. /\ DOMAIN Changed(plan) \subseteq DOMAIN plan
        /\ \A k \in DOMAIN Changed(plan) : Changed(plan)[k] = plan[k]
    BY DEF Changed
  <1> HIDE DEF r
  <1>4. request'[s].writes = Changed(plan)
    BY <1>1, <1>2
  <1> HIDE DEF Changed
  <1> QED
    BY <1>1, <1>3, <1>4

-----------------------------------------------------------------------------
(* Payouts.                                                                *)

Fields == {"state", "list", "due", "paid"}

(* A payout's row: what is due is the sum over its list.                    *)
Sound(row) == DOMAIN row = Fields /\ row.due = DueOn(row.list)

(* What a request may make of one payout.                                  *)
MayBecome(old, new) ==
  /\ new # None => Sound(new)
  /\ old # None /\ new # None =>
       IF old.state = "paid" THEN new.state = "paid" /\ new.paid = old.paid
       ELSE new.state = "paid" => new.paid = DueOn(new.list)

PayoutPlan(plan) ==
  /\ DOMAIN plan \subseteq DOMAIN rows
  /\ \A p \in PayoutSlots \cap DOMAIN plan : MayBecome(rows[p], plan[p])

PayoutInv ==
  /\ DOMAIN rows = PayoutSlots \cup Closings
  /\ \A p \in Payouts : Sound(rows[p])
  /\ DOMAIN request = Session
  /\ \A s \in Session \ stale : PayoutPlan(request[s].writes)

LEMMA PayoutInitKeeps == PayoutInit => PayoutInv
  <1> SUFFICES ASSUME PayoutInit PROVE PayoutInv
    OBVIOUS
  <1>1. PICK locked \in SUBSET Closings :
          rows = [k \in PayoutSlots \cup Closings |-> IF k \in locked THEN "locked" ELSE None]
    BY DEF PayoutInit, Start, PayoutRows
  <1>2. DOMAIN rows = PayoutSlots \cup Closings /\ Payouts = {}
    BY <1>1, PayoutAssumption DEF Payouts
  <1>3. DOMAIN request = Session /\ \A s \in Session : request[s].writes = <<>>
    BY DEF PayoutInit, Start, NoRequest
  <1> QED
    BY <1>2, <1>3 DEF PayoutInv, PayoutPlan

LEMMA PayoutBeginKeeps ==
  ASSUME PayoutInv, NEW s \in Session, NEW plan, NEW events,
         Begin(s, plan, events), PayoutPlan(plan)
  PROVE  PayoutInv'
  <1>1. /\ UNCHANGED <<rows, stale>> /\ DOMAIN request' = Session
        /\ DOMAIN request'[s].writes \subseteq DOMAIN plan
        /\ \A k \in DOMAIN request'[s].writes : request'[s].writes[k] = plan[k]
        /\ \A o \in Session \ {s} : request'[o] = request[o]
    BY BeginPlans DEF PayoutInv
  <1>2. PayoutPlan(request'[s].writes)
    BY <1>1 DEF PayoutPlan
  <1>3. \A o \in Session \ stale' : PayoutPlan(request'[o].writes)
    BY <1>1, <1>2 DEF PayoutInv
  <1>4. \A w : PayoutPlan(w) => PayoutPlan(w)'
    BY <1>1 DEF PayoutPlan
  <1>5. Payouts' = Payouts
    BY <1>1 DEF Payouts
  <1> QED
    BY <1>1, <1>3, <1>4, <1>5 DEF PayoutInv

LEMMA PayoutCommitKeeps ==
  ASSUME PayoutInv, NEW s \in Session, Commit(s)
  PROVE  PayoutInv'
  <1> DEFINE w == request[s].writes
  <1>1. PayoutPlan(w)
    BY DEF PayoutInv, Commit
  <1>2. /\ DOMAIN rows' = DOMAIN rows
        /\ \A k \in DOMAIN w : rows'[k] = w[k]
        /\ \A k \in DOMAIN rows \ DOMAIN w : rows'[k] = rows[k]
    BY <1>1, CommitWrites DEF PayoutPlan
  <1>3. \A p \in Payouts' : Sound(rows'[p])
    BY <1>1, <1>2 DEF PayoutInv, PayoutPlan, MayBecome, Payouts
  <1>4. DOMAIN request' = Session /\ DOMAIN request'[s].writes = {}
    BY CommitCloses DEF PayoutInv
  <1>5. ASSUME NEW o \in Session \ stale'
        PROVE  PayoutPlan(request[o].writes)'
    <2>1. CASE o = s
      BY <2>1, <1>4 DEF PayoutPlan
    <2>2. CASE o # s
      <3>1. /\ o \notin stale /\ request'[o] = request[o]
            /\ DOMAIN request[o].writes \cap DOMAIN w = {}
        BY <2>2, Survivors DEF PayoutInv
      <3>2. PayoutPlan(request[o].writes)
        BY <3>1 DEF PayoutInv
      <3> QED
        BY <3>1, <3>2, <1>2 DEF PayoutPlan
    <2> QED
      BY <2>1, <2>2
  <1> QED
    BY <1>2, <1>3, <1>4, <1>5 DEF PayoutInv, Sound

LEMMA PayoutRollbackKeeps ==
  ASSUME PayoutInv, NEW s \in Session, Rollback(s)
  PROVE  PayoutInv'
  <1>1. /\ UNCHANGED rows /\ stale' = stale \ {s}
        /\ \A o \in Session \ {s} : request'[o] = request[o]
    BY DEF Rollback, PayoutInv
  <1>2. DOMAIN request' = Session /\ DOMAIN request'[s].writes = {}
    BY CommitCloses DEF PayoutInv
  <1>3. \A o \in Session \ stale' : PayoutPlan(request'[o].writes)
    BY <1>1, <1>2 DEF PayoutInv, PayoutPlan
  <1>4. \A plan : PayoutPlan(plan) => PayoutPlan(plan)'
    BY <1>1 DEF PayoutPlan
  <1>5. Payouts' = Payouts
    BY <1>1 DEF Payouts
  <1> QED
    BY <1>1, <1>2, <1>3, <1>4, <1>5 DEF PayoutInv

(* A request on one row.                                                   *)
LEMMA OnePayoutKeeps ==
  ASSUME PayoutInv, NEW s \in Session, NEW k \in DOMAIN rows, NEW v,
         Begin(s, Row(k, v), {}), k \in PayoutSlots => MayBecome(rows[k], v)
  PROVE  PayoutInv'
  <1>1. PayoutPlan(Row(k, v))
    BY DEF PayoutPlan, Row
  <1> QED
    BY <1>1, PayoutBeginKeeps

LEMMA DraftsAreSound ==
  ASSUME NEW list
  PROVE  MayBecome(None, Draft(list))
  BY DEF Draft, MayBecome, Sound, Fields

(* A button that changes the state of an unpaid payout, but does not pay it. *)
LEMMA StateMoves ==
  ASSUME PayoutInv, NEW p \in Payouts, NEW to, rows[p].state # "paid", to # "paid"
  PROVE  MayBecome(rows[p], [rows[p] EXCEPT !.state = to])
  <1> DEFINE new == [rows[p] EXCEPT !.state = to]
  <1>1. DOMAIN rows[p] = Fields /\ rows[p].due = DueOn(rows[p].list)
    BY DEF PayoutInv, Sound
  <1>2. /\ DOMAIN new = Fields /\ new.state = to
        /\ new.list = rows[p].list /\ new.due = rows[p].due
    BY <1>1 DEF Fields
  <1> HIDE DEF new
  <1>3. MayBecome(rows[p], new)
    BY <1>1, <1>2 DEF MayBecome, Sound
  <1> QED
    BY <1>3 DEF new

LEMMA PayoutRequestKeeps ==
  ASSUME PayoutInv, NEW s \in Session, PayoutRequest(s)
  PROVE  PayoutInv'
  <1>1. CASE LockCommission(s)
    <2>1. PICK t \in (Closings \cap DOMAIN rows) \ Earned : Begin(s, Row(t, "locked"), {})
      BY <1>1 DEF LockCommission
    <2> QED
      BY <2>1, PayoutAssumption, OnePayoutKeeps
  <1>2. CASE GeneratePayout(s) \/ CreatePayout(s)
    <2>1. PICK p \in FreeSlots, list \in {Unsettled, {}} : Begin(s, Row(p, Draft(list)), {})
      BY <1>2 DEF GeneratePayout, CreatePayout
    <2>2. p \in DOMAIN rows /\ rows[p] = None
      BY DEF FreeSlots, Payouts
    <2> QED
      BY <2>1, <2>2, DraftsAreSound, OnePayoutKeeps
  <1>3. CASE EditList(s)
    <2>1. PICK p \in Payouts, list \in SUBSET Earned :
            Begin(s, Row(p, [rows[p] EXCEPT !.list = list, !.due = DueOn(list)]), {})
      BY <1>3, Zenon DEF EditList
    <2> DEFINE row == rows[p]
               new == [row EXCEPT !.list = list, !.due = DueOn(list)]
    <2>2. Begin(s, Row(p, new), {})
      BY <2>1, Zenon
    <2>3. DOMAIN row = Fields
      BY DEF PayoutInv, Sound
    <2>4. /\ DOMAIN new = Fields /\ new.list = list /\ new.due = DueOn(list)
          /\ new.state = row.state /\ new.paid = row.paid
      BY <2>3 DEF Fields
    <2> HIDE DEF new
    <2>5. MayBecome(row, new)
      BY <2>4 DEF MayBecome, Sound
    <2> QED
      BY <2>2, <2>5, OnePayoutKeeps DEF Payouts
  <1>4. CASE DeletePayout(s)
    <2>1. PICK p \in Payouts : Begin(s, Row(p, None), {})
      BY <1>4 DEF DeletePayout
    <2> QED
      BY <2>1, OnePayoutKeeps DEF MayBecome, Payouts
  <1>5. CASE ConfirmPayout(s)
    <2>1. PICK p \in Payouts :
            rows[p].state = "draft" /\ Begin(s, Row(p, [rows[p] EXCEPT !.state = "confirmed"]), {})
      BY <1>5 DEF ConfirmPayout
    <2> QED
      BY <2>1, StateMoves, OnePayoutKeeps DEF Payouts
  <1>6. CASE Withdraw(s)
    <2>1. PICK p \in Payouts, new \in {"draft", "cancelled"} :
            rows[p].state # "paid" /\ Begin(s, Row(p, [rows[p] EXCEPT !.state = new]), {})
      BY <1>6 DEF Withdraw
    <2> QED
      BY <2>1, StateMoves, OnePayoutKeeps DEF Payouts
  <1>7. CASE MarkPaid(s)
    <2>1. PICK p \in Payouts :
            /\ rows[p].state = "confirmed"
            /\ Begin(s, Row(p, [rows[p] EXCEPT !.state = "paid", !.paid = rows[p].due]), {})
      BY <1>7, Zenon DEF MarkPaid
    <2> DEFINE row == rows[p]
               new == [row EXCEPT !.state = "paid", !.paid = row.due]
    <2>2. Begin(s, Row(p, new), {})
      BY <2>1, Zenon
    <2>3. DOMAIN row = Fields /\ row.due = DueOn(row.list) /\ row.state # "paid"
      BY <2>1 DEF PayoutInv, Sound
    <2>4. /\ DOMAIN new = Fields /\ new.list = row.list /\ new.due = row.due
          /\ new.paid = row.due
      BY <2>3 DEF Fields
    <2> HIDE DEF new
    <2>5. MayBecome(row, new)
      BY <2>3, <2>4 DEF MayBecome, Sound
    <2> QED
      BY <2>2, <2>5, OnePayoutKeeps DEF Payouts
  <1> QED
    BY <1>1, <1>2, <1>3, <1>4, <1>5, <1>6, <1>7 DEF PayoutRequest

LEMMA PayoutStepKeeps ==
  ASSUME PayoutInv, [PayoutNext]_requestVars
  PROVE  PayoutInv'
  <1>1. CASE UNCHANGED requestVars
    <2>1. UNCHANGED <<rows, request, stale>>
      BY <1>1 DEF requestVars
    <2>2. \A w : PayoutPlan(w) => PayoutPlan(w)'
      BY <2>1 DEF PayoutPlan
    <2>3. Payouts' = Payouts
      BY <2>1 DEF Payouts
    <2> QED
      BY <2>1, <2>2, <2>3 DEF PayoutInv
  <1>2. CASE PayoutNext
    BY <1>2, PayoutRequestKeeps, PayoutCommitKeeps, PayoutRollbackKeeps DEF PayoutNext, Served
  <1> QED
    BY <1>1, <1>2

LEMMA PayoutsOnlyPlan ==
  ASSUME NEW s \in Session, PayoutRequest(s)
  PROVE  UNCHANGED rows
  BY Zenon DEF PayoutRequest, LockCommission, GeneratePayout, CreatePayout, EditList, DeletePayout,
         ConfirmPayout, MarkPaid, Withdraw, Begin

(* What is paid is what the list has earned, and a payment stands, for any    *)
(* payouts and any number of requests open: a request that would break it    *)
(* writes the payout's row, and fails (PayoutDesk, action_mark_paid,         *)
(* action_reset_draft, action_cancel).                                     *)
THEOREM PaymentsAreExactAndStand == PayoutSpec => PaymentsStand
  <1>1. PayoutInit => PayoutInv
    BY PayoutInitKeeps
  <1>2. PayoutInv /\ [PayoutNext]_requestVars => PayoutInv'
    BY PayoutStepKeeps
  <1>3. ASSUME PayoutInv, [PayoutNext]_requestVars
        PROVE  [\A p \in Payouts : rows'[p] # None =>
                  IF rows[p].state = "paid"
                  THEN rows'[p].state = "paid" /\ rows'[p].paid = rows[p].paid
                  ELSE rows'[p].state = "paid" => rows'[p].paid = DueOn(rows'[p].list)]_rows
    <2>1. ASSUME NEW s \in Session, Commit(s), NEW p \in Payouts, rows'[p] # None
          PROVE  IF rows[p].state = "paid"
                 THEN rows'[p].state = "paid" /\ rows'[p].paid = rows[p].paid
                 ELSE rows'[p].state = "paid" => rows'[p].paid = DueOn(rows'[p].list)
      <3>1. PayoutPlan(request[s].writes)
        BY <1>3, <2>1 DEF PayoutInv, Commit
      <3>2. /\ \A k \in DOMAIN request[s].writes : rows'[k] = request[s].writes[k]
            /\ \A k \in DOMAIN rows \ DOMAIN request[s].writes : rows'[k] = rows[k]
        BY <2>1, <3>1, CommitWrites DEF PayoutPlan
      <3>3. CASE p \in DOMAIN request[s].writes
        BY <2>1, <3>1, <3>2, <3>3 DEF PayoutPlan, MayBecome, Payouts
      <3>4. CASE p \notin DOMAIN request[s].writes
        BY <2>1, <3>2, <3>4 DEF Payouts
      <3> QED
        BY <3>3, <3>4
    <2>2. UNCHANGED rows \/ \E s \in Session : Commit(s)
      BY <1>3, PayoutsOnlyPlan DEF PayoutNext, Served, Rollback, requestVars
    <2> QED
      BY <2>1, <2>2
  <1> QED
    BY <1>1, <1>2, <1>3, PTL DEF PayoutSpec, PaymentsStand

-----------------------------------------------------------------------------
(* States of transactions.                                                 *)

TradeKeys == Trades \cup Beside

(* What a request may make of a transaction that has ended.                 *)
Stands(old, new) ==
  /\ old = "closed" => new \in {"closed", "active"}
  /\ old = "cancelled" => new \in {"cancelled", "active", "closed"}

TradePlan(plan) ==
  /\ DOMAIN plan \subseteq TradeKeys
  /\ \A t \in Trades \cap DOMAIN plan :
       "state" \in DOMAIN plan[t] /\ Stands(rows[t].state, plan[t].state)

TradeInv ==
  /\ DOMAIN rows = TradeKeys
  /\ \A t \in Trades : "state" \in DOMAIN rows[t]
  /\ DOMAIN request = Session
  /\ \A s \in Session \ stale : TradePlan(request[s].writes)

LEMMA TradeInitKeeps == TradeInit => TradeInv
  <1> SUFFICES ASSUME TradeInit PROVE TradeInv
    OBVIOUS
  <1>1. PICK start \in [Trades -> Beginning] :
          rows = [k \in Trades \cup Beside |->
                   CASE k \in Trades -> [state |-> start[k], order |-> FALSE, confirmed |-> FALSE]
                     [] k \in {Road(t) : t \in Trades} -> FALSE
                     [] OTHER -> "none"]
    BY DEF TradeInit, Start, TradeRows
  <1>2. \A t \in Trades : rows[t] = [state |-> start[t], order |-> FALSE, confirmed |-> FALSE]
    BY <1>1, TradeAssumption DEF Beside
  <1>3. DOMAIN request = Session /\ \A s \in Session : request[s].writes = <<>>
    BY DEF TradeInit, Start, NoRequest
  <1>4. DOMAIN rows = TradeKeys
    BY <1>1 DEF TradeKeys
  <1>6. ASSUME NEW t \in Trades PROVE "state" \in DOMAIN rows[t]
    <2> DEFINE row == [state |-> start[t], order |-> FALSE, confirmed |-> FALSE]
    <2>1. DOMAIN row = {"state", "order", "confirmed"} /\ rows[t] = row
      BY <1>2
    <2> QED
      BY <2>1
  <1>5. \A s \in Session : TradePlan(request[s].writes)
    BY <1>3 DEF TradePlan
  <1> HIDE DEF TradeKeys
  <1> QED
    BY <1>3, <1>4, <1>5, <1>6 DEF TradeInv

LEMMA TradeBeginKeeps ==
  ASSUME TradeInv, NEW s \in Session, NEW plan, NEW events,
         Begin(s, plan, events), TradePlan(plan)
  PROVE  TradeInv'
  <1>1. /\ UNCHANGED <<rows, stale>> /\ DOMAIN request' = Session
        /\ DOMAIN request'[s].writes \subseteq DOMAIN plan
        /\ \A k \in DOMAIN request'[s].writes : request'[s].writes[k] = plan[k]
        /\ \A o \in Session \ {s} : request'[o] = request[o]
    BY BeginPlans DEF TradeInv
  <1>2. TradePlan(request'[s].writes)
    BY <1>1 DEF TradePlan
  <1>3. \A o \in Session \ stale' : TradePlan(request'[o].writes)
    BY <1>1, <1>2 DEF TradeInv
  <1>4. \A w : TradePlan(w) => TradePlan(w)'
    BY <1>1 DEF TradePlan
  <1> QED
    BY <1>1, <1>3, <1>4 DEF TradeInv

LEMMA TradeCommitKeeps ==
  ASSUME TradeInv, NEW s \in Session, Commit(s)
  PROVE  TradeInv'
  <1> DEFINE w == request[s].writes
  <1>1. TradePlan(w)
    BY DEF TradeInv, Commit
  <1>2. /\ DOMAIN rows' = DOMAIN rows
        /\ \A k \in DOMAIN w : rows'[k] = w[k]
        /\ \A k \in DOMAIN rows \ DOMAIN w : rows'[k] = rows[k]
    BY <1>1, CommitWrites DEF TradePlan, TradeInv
  <1>3. \A t \in Trades : "state" \in DOMAIN rows'[t]
    BY <1>1, <1>2 DEF TradeInv, TradePlan, TradeKeys
  <1>4. DOMAIN request' = Session /\ DOMAIN request'[s].writes = {}
    BY CommitCloses DEF TradeInv
  <1>5. ASSUME NEW o \in Session \ stale'
        PROVE  TradePlan(request[o].writes)'
    <2>1. CASE o = s
      BY <2>1, <1>4 DEF TradePlan
    <2>2. CASE o # s
      <3>1. /\ o \notin stale /\ request'[o] = request[o]
            /\ DOMAIN request[o].writes \cap DOMAIN w = {}
        BY <2>2, Survivors DEF TradeInv
      <3>2. TradePlan(request[o].writes)
        BY <3>1 DEF TradeInv
      <3> QED
        BY <3>1, <3>2, <1>2 DEF TradePlan, TradeInv, TradeKeys
    <2> QED
      BY <2>1, <2>2
  <1> QED
    BY <1>2, <1>3, <1>4, <1>5 DEF TradeInv

LEMMA TradeRollbackKeeps ==
  ASSUME TradeInv, NEW s \in Session, Rollback(s)
  PROVE  TradeInv'
  <1>1. /\ UNCHANGED rows /\ stale' = stale \ {s}
        /\ \A o \in Session \ {s} : request'[o] = request[o]
    BY DEF Rollback, TradeInv
  <1>2. DOMAIN request' = Session /\ DOMAIN request'[s].writes = {}
    BY CommitCloses DEF TradeInv
  <1>3. \A o \in Session \ stale' : TradePlan(request'[o].writes)
    BY <1>1, <1>2 DEF TradeInv, TradePlan
  <1>4. \A plan : TradePlan(plan) => TradePlan(plan)'
    BY <1>1 DEF TradePlan
  <1> QED
    BY <1>1, <1>2, <1>3, <1>4 DEF TradeInv

(* A change of one transaction's state.                                    *)
LEMMA StatePlan ==
  ASSUME TradeInv, NEW t \in Trades, NEW row, "state" \in DOMAIN row,
         Stands(rows[t].state, row.state)
  PROVE  TradePlan(Row(t, row))
  BY DEF TradePlan, Row, TradeKeys

(* A change of what is beside the transactions.                            *)
LEMMA BesidePlan ==
  ASSUME TradeInv, NEW k \in Beside, NEW v
  PROVE  TradePlan(Row(k, v))
  BY TradeAssumption DEF TradePlan, Row, TradeKeys

LEMMA PlansCombine ==
  ASSUME NEW f, NEW g, TradePlan(f), TradePlan(g)
  PROVE  TradePlan(Over(f, g))
  <1>1. /\ DOMAIN Over(f, g) = DOMAIN f \cup DOMAIN g
        /\ \A k \in DOMAIN f : Over(f, g)[k] = f[k]
        /\ \A k \in DOMAIN g \ DOMAIN f : Over(f, g)[k] = g[k]
    BY DEF Over
  <1> HIDE DEF Over
  <1> QED
    BY <1>1 DEF TradePlan

LEMMA Moves ==
  ASSUME NEW move \in UNION {Activation, Reactivation, MarkDoCreated, MarkDispatched,
                             MarkInTransit, MarkDelivered, MarkNotReady, MarkReady, Closing}
  PROVE  Stands(move[1], move[2])
  BY DEF Activation, Reactivation, MarkDoCreated, MarkDispatched, MarkInTransit,
         MarkDelivered, MarkNotReady, MarkReady, Closing, Stands

LEMMA CommandKeeps ==
  ASSUME TradeInv, NEW s \in Session, Command(s)
  PROVE  TradeInv'
  <1>1. PICK t \in Book, move \in UNION {Activation, Reactivation, MarkDoCreated, MarkDispatched,
                     MarkInTransit, MarkDelivered, MarkNotReady, MarkReady, Closing} :
          /\ rows[t].state = move[1]
          /\ Begin(s, Row(t, [rows[t] EXCEPT !.state = move[2],
                                !.confirmed = @ \/ move \in MarkReady]), {})
    BY Zenon DEF Command
  <1> DEFINE row == rows[t]
             new == [row EXCEPT !.state = move[2], !.confirmed = @ \/ move \in MarkReady]
  <1>2. Begin(s, Row(t, new), {})
    BY <1>1, Zenon
  <1>3. t \in Trades /\ "state" \in DOMAIN row
    BY DEF Book, TradeInv
  <1>4. "state" \in DOMAIN new /\ new.state = move[2]
    BY <1>3
  <1>5. Stands(row.state, new.state)
    BY <1>1, <1>4, Moves
  <1> HIDE DEF new
  <1> QED
    BY <1>2, <1>3, <1>4, <1>5, StatePlan, TradeBeginKeeps

LEMMA BulkKeeps ==
  ASSUME TradeInv, NEW s \in Session, BulkUpdate(s)
  PROVE  TradeInv'
  <1>1. PICK T \in SUBSET Book, new \in BulkStates :
          /\ \A t \in T : rows[t].state \notin {"closed", "cancelled"}
          /\ Begin(s, [t \in T |-> [rows[t] EXCEPT !.state = new]], {})
    BY DEF BulkUpdate
  <1> DEFINE plan == [t \in T |-> [rows[t] EXCEPT !.state = new]]
  <1>2. T \subseteq Trades
    BY DEF Book
  <1>3. \A t \in T : "state" \in DOMAIN plan[t]
    BY <1>2 DEF TradeInv
  <1>4. \A t \in T : Stands(rows[t].state, plan[t].state)
    BY <1>1 DEF Stands
  <1>5. DOMAIN plan = T
    OBVIOUS
  <1>6. Begin(s, plan, {})
    BY <1>1
  <1> HIDE DEF plan
  <1>7. TradePlan(plan)
    BY <1>2, <1>3, <1>4, <1>5 DEF TradePlan, TradeKeys
  <1> QED
    BY <1>6, <1>7, TradeBeginKeeps

LEMMA CronKeeps ==
  ASSUME TradeInv, NEW s \in Session, CronDeliveryOrders(s)
  PROVE  TradeInv'
  <1> DEFINE Approved(T) == {t \in T : rows[Picking(t)] = "none"}
             Readied(T) == {t \in T \ Approved(T) : rows[t].state = "supplier_ready"}
             Linked(T) == [t \in T |-> [rows[t] EXCEPT !.order = TRUE,
                                         !.state = IF t \in Readied(T) THEN "do_created" ELSE @]]
             Made(T) == [k \in {Picking(t) : t \in Approved(T)} |-> "open"]
  <1>1. PICK T \in SUBSET ToLink : Begin(s, Over(Linked(T), Made(T)), {})
    BY Zenon DEF CronDeliveryOrders
  <1> DEFINE linked == Linked(T)
             made == Made(T)
  <1>2. T \subseteq Trades /\ \A t \in T : rows[t].state \notin {"closed", "cancelled"}
    BY DEF ToLink, Book
  <1>3. \A t \in T : "state" \in DOMAIN rows[t]
    BY <1>2 DEF TradeInv
  <1>4. DOMAIN linked = T /\ \A t \in T : "state" \in DOMAIN linked[t]
    BY <1>3
  <1>5. \A k \in DOMAIN made : k \in Beside
    BY <1>2 DEF Beside
  <1> HIDE DEF linked, made
  <1>6. TradePlan(linked)
    BY <1>2, <1>4 DEF TradePlan, TradeKeys, Stands
  <1>7. TradePlan(made)
    BY <1>5, TradeAssumption DEF TradePlan, TradeKeys
  <1> QED
    BY <1>1, <1>6, <1>7, PlansCombine, TradeBeginKeeps DEF linked, made

LEMMA FormAndPurchaseKeep ==
  ASSUME TradeInv, NEW s \in Session, EditTrade(s) \/ ApprovePurchase(s)
  PROVE  TradeInv'
  <1>1. CASE EditTrade(s)
    <2>1. PICK t \in Book, order \in BOOLEAN, confirmed \in BOOLEAN :
            Begin(s, Row(t, [rows[t] EXCEPT !.order = order, !.confirmed = confirmed]), {})
      BY <1>1, Zenon DEF EditTrade
    <2> DEFINE row == rows[t]
               new == [row EXCEPT !.order = order, !.confirmed = confirmed]
    <2>2. t \in Trades /\ "state" \in DOMAIN row
      BY DEF Book, TradeInv
    <2>3. "state" \in DOMAIN new /\ new.state = row.state
      BY <2>2
    <2>4. Begin(s, Row(t, new), {})
      BY <2>1, Zenon
    <2> HIDE DEF new
    <2> QED
      BY <2>2, <2>3, <2>4, StatePlan, TradeBeginKeeps DEF Stands
  <1>2. CASE ApprovePurchase(s)
    <2>1. PICK t \in Book :
            Begin(s, Over(Row(Picking(t), "open"), Row(t, [rows[t] EXCEPT !.order = TRUE])), {})
      BY <1>2 DEF ApprovePurchase
    <2> DEFINE new == [rows[t] EXCEPT !.order = TRUE]
    <2>2. t \in Trades /\ "state" \in DOMAIN rows[t] /\ Picking(t) \in Beside
      BY DEF Book, TradeInv, Beside
    <2>3. "state" \in DOMAIN new /\ new.state = rows[t].state
      BY <2>2
    <2>4. TradePlan(Row(t, new))
      BY <2>2, <2>3, StatePlan DEF Stands
    <2>5. TradePlan(Row(Picking(t), "open"))
      BY <2>2, BesidePlan
    <2>6. Begin(s, Over(Row(Picking(t), "open"), Row(t, new)), {})
      BY <2>1
    <2> HIDE DEF new
    <2> QED
      BY <2>4, <2>5, <2>6, PlansCombine, TradeBeginKeeps
  <1> QED
    BY <1>1, <1>2

LEMMA DeliveryKeeps ==
  ASSUME TradeInv, NEW s \in Session, PickingDone(s) \/ CancelPicking(s) \/ MoveTruck(s)
  PROVE  TradeInv'
  <1>1. CASE PickingDone(s)
    <2> DEFINE Noticed(t) == IF rows[t].state \in {"in_progress", "in_transit"}
                             THEN Row(t, [rows[t] EXCEPT !.state = "delivered"]) ELSE <<>>
    <2>1. PICK t \in Book : Begin(s, Over(Row(Picking(t), "done"), Noticed(t)), {})
      BY <1>1 DEF PickingDone
    <2>2. t \in Trades /\ "state" \in DOMAIN rows[t] /\ Picking(t) \in Beside
      BY DEF Book, TradeInv, Beside
    <2>3. TradePlan(Noticed(t))
      <3>1. CASE rows[t].state \in {"in_progress", "in_transit"}
        <4> DEFINE new == [rows[t] EXCEPT !.state = "delivered"]
        <4>1. "state" \in DOMAIN new /\ Stands(rows[t].state, new.state)
          BY <2>2, <3>1 DEF Stands
        <4>2. Noticed(t) = Row(t, new)
          BY <3>1
        <4> HIDE DEF new, Noticed
        <4> QED
          BY <2>2, <4>1, <4>2, StatePlan
      <3>2. CASE rows[t].state \notin {"in_progress", "in_transit"}
        BY <3>2 DEF TradePlan
      <3> QED
        BY <3>1, <3>2
    <2>4. TradePlan(Row(Picking(t), "done"))
      BY <2>2, BesidePlan
    <2> HIDE DEF Noticed
    <2> QED
      BY <2>1, <2>3, <2>4, PlansCombine, TradeBeginKeeps
  <1>2. CASE CancelPicking(s)
    <2>1. PICK t \in Book : Begin(s, Row(Picking(t), "cancel"), {})
      BY <1>2 DEF CancelPicking
    <2>2. Picking(t) \in Beside
      BY DEF Book, Beside
    <2> QED
      BY <2>1, <2>2, BesidePlan, TradeBeginKeeps
  <1>3. CASE MoveTruck(s)
    <2>1. PICK t \in Book : Begin(s, Row(Road(t), ~rows[Road(t)]), {})
      BY <1>3 DEF MoveTruck
    <2>2. Road(t) \in Beside
      BY DEF Book, Beside
    <2> QED
      BY <2>1, <2>2, BesidePlan, TradeBeginKeeps
  <1> QED
    BY <1>1, <1>2, <1>3

LEMMA TradeStepKeeps ==
  ASSUME TradeInv, [TradeNext]_requestVars
  PROVE  TradeInv'
  <1>1. CASE UNCHANGED requestVars
    <2>1. UNCHANGED <<rows, request, stale>>
      BY <1>1 DEF requestVars
    <2>2. \A w : TradePlan(w) => TradePlan(w)'
      BY <2>1 DEF TradePlan
    <2> QED
      BY <2>1, <2>2 DEF TradeInv
  <1>2. CASE TradeNext
    BY <1>2, CommandKeeps, BulkKeeps, CronKeeps, FormAndPurchaseKeep, DeliveryKeeps,
       TradeCommitKeeps, TradeRollbackKeeps DEF TradeNext, TradeRequest, Served
  <1> QED
    BY <1>1, <1>2

LEMMA TradesOnlyPlan ==
  ASSUME NEW s \in Session, TradeRequest(s)
  PROVE  UNCHANGED rows
  BY Zenon DEF TradeRequest, Command, BulkUpdate, EditTrade, ApprovePurchase, CronDeliveryOrders,
         PickingDone, CancelPicking, MoveTruck, Begin

(* An ended transaction stays ended unless somebody activates it, for any     *)
(* transactions and any number of requests open: the wizard, the cron, the   *)
(* automation and the commands write the row whose state they have read.     *)
THEOREM EndedTradesStand == TradeSpec => EndsStand
  <1>1. TradeInit => TradeInv
    BY TradeInitKeeps
  <1>2. TradeInv /\ [TradeNext]_requestVars => TradeInv'
    BY TradeStepKeeps
  <1>3. ASSUME TradeInv, [TradeNext]_requestVars
        PROVE  [\A t \in Book :
                 /\ rows[t].state = "closed" => rows'[t].state \in {"closed", "active"}
                 /\ rows[t].state = "cancelled" => rows'[t].state \in {"cancelled", "active", "closed"}]_rows
    <2>1. ASSUME NEW s \in Session, Commit(s), NEW t \in Book
          PROVE  Stands(rows[t].state, rows'[t].state)
      <3>1. TradePlan(request[s].writes)
        BY <1>3, <2>1 DEF TradeInv, Commit
      <3>2. /\ \A k \in DOMAIN request[s].writes : rows'[k] = request[s].writes[k]
            /\ \A k \in DOMAIN rows \ DOMAIN request[s].writes : rows'[k] = rows[k]
        BY <1>3, <2>1, <3>1, CommitWrites DEF TradePlan, TradeInv
      <3>3. CASE t \in DOMAIN request[s].writes
        BY <3>1, <3>2, <3>3 DEF TradePlan, Book
      <3>4. CASE t \notin DOMAIN request[s].writes
        BY <3>2, <3>4 DEF Stands, Book
      <3> QED
        BY <3>3, <3>4
    <2>2. UNCHANGED rows \/ \E s \in Session : Commit(s)
      BY <1>3, TradesOnlyPlan DEF TradeNext, Served, Rollback, requestVars
    <2> QED
      BY <2>1, <2>2 DEF Stands
  <1> QED
    BY <1>1, <1>2, <1>3, PTL DEF TradeSpec, EndsStand

-----------------------------------------------------------------------------
(* The deal desk.                                                           *)

DealKeys == Intakes \cup Lines \cup OfferSlots

Accepted(o) == rows[o] # None /\ rows[o].state = "accepted"

(* The statuses from which a purchase can be made.                          *)
Buyable == {"matched", "offer_sent", "processing"}

(* What a plan may do to what is committed: it leaves accepted offers alone  *)
(* or says that it does not, buys and offers from a status that allows it,  *)
(* and counts a matching.  It is about one of the four at most.             *)
Marks == {"overridden"} \X OfferSlots

DealPlanOK(plan, events) ==
  /\ DOMAIN plan \subseteq DealKeys
  /\ events = {} \/ \E e \in Events \cup Marks : events = {e}
  /\ \A o \in OfferSlots \cap DOMAIN plan : Accepted(o) => <<"overridden", o>> \in events
  /\ \A i \in Intakes :
       /\ <<"bought", i>> \in events =>
            i \in DOMAIN plan /\ rows[i] \in Buyable /\ plan[i] = "won"
       /\ <<"offered", i>> \in events =>
            i \in DOMAIN plan /\ rows[i] = "matched" /\ plan[i] = "offer_sent"
       /\ i \in DOMAIN plan /\ plan[i] = "matched" =>
            rows[i] = "matched" \/ <<"matched", i>> \in events
       /\ i \in DOMAIN plan /\ plan[i] \in {"offer_sent", "processing"} =>
            rows[i] \in Buyable

(* An intake that can still be bought, or offered, has a matching to spend.  *)
Unspent == \A i \in Intakes :
  /\ rows[i] \in Buyable => log[<<"bought", i>>] < log[<<"matched", i>>]
  /\ rows[i] = "matched" => log[<<"offered", i>>] < log[<<"matched", i>>]

DealInv ==
  /\ DOMAIN rows = DealKeys
  /\ log \in [Events -> Nat]
  /\ SpentOnce
  /\ Unspent
  /\ DOMAIN request = Session
  /\ \A s \in Session \ stale : DealPlanOK(request[s].writes, request[s].events)

LEMMA DealInitKeeps == DealInit => DealInv
  <1> SUFFICES ASSUME DealInit PROVE DealInv
    OBVIOUS
  <1>1. DOMAIN rows = DealKeys /\ \A i \in Intakes : rows[i] = "draft"
    BY DEF DealInit, Start, DeskRows, DealKeys
  <1>2. log \in [Events -> Nat] /\ \A e \in Events : log[e] = 0
    BY DEF DealInit, Start
  <1>3. \A i \in Intakes : <<"bought", i>> \in Events /\ <<"offered", i>> \in Events
                           /\ <<"matched", i>> \in Events
    BY DEF Events
  <1>4. SpentOnce /\ Unspent
    BY <1>1, <1>2, <1>3 DEF SpentOnce, Unspent, Buyable, Desk
  <1>5. DOMAIN request = Session
        /\ \A s \in Session : request[s].writes = <<>> /\ request[s].events = {}
    BY DEF DealInit, Start, NoRequest
  <1>6. \A s \in Session : DealPlanOK(request[s].writes, request[s].events)
    BY <1>5 DEF DealPlanOK
  <1> QED
    BY <1>1, <1>2, <1>4, <1>5, <1>6 DEF DealInv

(* A sound plan remains sound when only what it changes is written.          *)
LEMMA ChangedIsSound ==
  ASSUME NEW plan, NEW events, DealPlanOK(plan, events)
  PROVE  DealPlanOK(Changed(plan), events)
  <1>1. /\ DOMAIN Changed(plan) = {x \in DOMAIN plan : plan[x] # rows[x]}
        /\ \A x \in DOMAIN Changed(plan) : Changed(plan)[x] = plan[x]
    BY DEF Changed
  <1> HIDE DEF Changed
  <1>2. \A i \in Intakes : <<"bought", i>> \in events =>
          i \in DOMAIN Changed(plan) /\ rows[i] \in Buyable /\ Changed(plan)[i] = "won"
    BY <1>1 DEF DealPlanOK, Buyable
  <1>3. \A i \in Intakes : <<"offered", i>> \in events =>
          i \in DOMAIN Changed(plan) /\ rows[i] = "matched" /\ Changed(plan)[i] = "offer_sent"
    BY <1>1 DEF DealPlanOK
  <1>4. \A o \in OfferSlots \cap DOMAIN Changed(plan) : Accepted(o) => <<"overridden", o>> \in events
    BY <1>1 DEF DealPlanOK
  <1> QED
    BY <1>1, <1>2, <1>3, <1>4 DEF DealPlanOK

LEMMA DealBeginKeeps ==
  ASSUME DealInv, NEW s \in Session, NEW plan, NEW events,
         Begin(s, plan, events), DealPlanOK(plan, events)
  PROVE  DealInv'
  <1>1. DealPlanOK(Changed(plan), events)
    BY ChangedIsSound
  <1> DEFINE r == [writes |-> Changed(plan), events |-> events]
  <1>2. r.writes = Changed(plan) /\ r.events = events
    OBVIOUS
  <1>3. request' = [request EXCEPT ![s] = r] /\ UNCHANGED <<rows, log, stale>>
    BY DEF Begin
  <1> HIDE DEF r
  <1>4. \A o \in Session \ stale' : DealPlanOK(request'[o].writes, request'[o].events)
    BY <1>1, <1>2, <1>3 DEF DealInv
  <1>5. \A w, e : DealPlanOK(w, e) => DealPlanOK(w, e)'
    BY <1>3 DEF DealPlanOK, Accepted
  <1> QED
    BY <1>3, <1>4, <1>5 DEF DealInv, SpentOnce, Unspent, Desk

(* What a commit writes: the rows of its plan, and nothing else.             *)
LEMMA CommitRows ==
  ASSUME DealInv, NEW s \in Session, Commit(s)
  PROVE  /\ DealPlanOK(request[s].writes, request[s].events)
         /\ DOMAIN rows' = DealKeys
         /\ \A k \in DOMAIN request[s].writes : rows'[k] = request[s].writes[k]
         /\ \A k \in DealKeys \ DOMAIN request[s].writes : rows'[k] = rows[k]
  <1>1. DealPlanOK(request[s].writes, request[s].events)
    BY DEF DealInv, Commit
  <1>2. rows' = Over(request[s].writes, rows) /\ DOMAIN rows = DealKeys
    BY DEF DealInv, Commit
  <1>3. DOMAIN request[s].writes \subseteq DealKeys
    BY <1>1 DEF DealPlanOK
  <1> QED
    BY <1>1, <1>2, <1>3 DEF Over

(* A plan that survives a commit writes none of the rows that it wrote.       *)
LEMMA SurvivorsKeep ==
  ASSUME DealInv, NEW s \in Session, Commit(s), NEW o \in Session \ stale', o # s
  PROVE  DealPlanOK(request[o].writes, request[o].events)'
  <1>1. o \notin stale /\ ~Collide(s, o) /\ request'[o] = request[o]
    BY DEF Commit, DealInv
  <1>2. DealPlanOK(request[o].writes, request[o].events)
    BY <1>1 DEF DealInv
  <1> DEFINE w == request[o].writes
  <1>3. \A k \in DOMAIN w : rows'[k] = rows[k]
    BY <1>1, <1>2, CommitRows DEF Collide, DealPlanOK
  <1>4. DealPlanOK(w, request[o].events)'
    BY <1>1, <1>2, <1>3 DEF DealPlanOK, Accepted
  <1> QED
    BY <1>4

LEMMA DealCommitKeeps ==
  ASSUME DealInv, NEW s \in Session, Commit(s)
  PROVE  DealInv'
  <1> DEFINE w == request[s].writes
             e == request[s].events
  <1>1. /\ DealPlanOK(w, e) /\ DOMAIN rows' = DealKeys
        /\ \A k \in DOMAIN w : rows'[k] = w[k]
        /\ \A k \in DealKeys \ DOMAIN w : rows'[k] = rows[k]
    BY CommitRows
  <1>2. /\ log \in [Events -> Nat]
        /\ log' = [v \in Events |-> IF v \in e THEN log[v] + 1 ELSE log[v]]
    BY DEF DealInv, Commit
  <1>3. log' \in [Events -> Nat]
    BY <1>2
  <1>4. /\ DOMAIN request' = Session
        /\ request'[s].writes = <<>> /\ request'[s].events = {}
    BY DEF DealInv, Commit, NoRequest
  <1>5. \A o \in Session \ stale' : DealPlanOK(request[o].writes, request[o].events)'
    <2> TAKE o \in Session \ stale'
    <2>1. CASE o = s
      BY <2>1, <1>4 DEF DealPlanOK
    <2>2. CASE o # s
      BY <2>2, SurvivorsKeep
    <2> QED
      BY <2>1, <2>2
  <1>6. ASSUME NEW i \in Intakes
        PROVE  /\ log'[<<"bought", i>>] <= log'[<<"matched", i>>]
               /\ log'[<<"offered", i>>] <= log'[<<"matched", i>>]
               /\ rows'[i] \in Buyable => log'[<<"bought", i>>] < log'[<<"matched", i>>]
               /\ rows'[i] = "matched" => log'[<<"offered", i>>] < log'[<<"matched", i>>]
    <2> DEFINE b == log[<<"bought", i>>]
               f == log[<<"offered", i>>]
               m == log[<<"matched", i>>]
    <2>1. /\ b \in Nat /\ f \in Nat /\ m \in Nat
          /\ log'[<<"bought", i>>] = IF <<"bought", i>> \in e THEN b + 1 ELSE b
          /\ log'[<<"offered", i>>] = IF <<"offered", i>> \in e THEN f + 1 ELSE f
          /\ log'[<<"matched", i>>] = IF <<"matched", i>> \in e THEN m + 1 ELSE m
      BY <1>2 DEF Events
    <2>2. /\ b <= m /\ f <= m
          /\ rows[i] \in Buyable => b < m
          /\ rows[i] = "matched" => f < m
      BY DEF DealInv, SpentOnce, Unspent, Desk, DealKeys
    <2>3. /\ <<"bought", i>> \in e => i \in DOMAIN w /\ rows[i] \in Buyable /\ w[i] = "won"
          /\ <<"offered", i>> \in e =>
               i \in DOMAIN w /\ rows[i] = "matched" /\ w[i] = "offer_sent"
          /\ i \in DOMAIN w /\ w[i] = "matched" =>
               rows[i] = "matched" \/ <<"matched", i>> \in e
          /\ i \in DOMAIN w /\ w[i] \in {"offer_sent", "processing"} => rows[i] \in Buyable
      BY <1>1 DEF DealPlanOK
    <2>4. rows'[i] = IF i \in DOMAIN w THEN w[i] ELSE rows[i]
      BY <1>1 DEF DealKeys
    <2> HIDE DEF b, f, m, w, e
    <2>5. CASE i \in DOMAIN w
      BY <2>1, <2>2, <2>3, <2>4, <2>5 DEF Buyable
    <2>6. CASE i \notin DOMAIN w
      BY <2>1, <2>2, <2>3, <2>4, <2>6 DEF Buyable
    <2> QED
      BY <2>5, <2>6
  <1>7. SpentOnce' /\ Unspent'
    BY <1>6 DEF SpentOnce, Unspent, Desk
  <1> QED
    BY <1>1, <1>3, <1>4, <1>5, <1>7 DEF DealInv

LEMMA DealRollbackKeeps ==
  ASSUME DealInv, NEW s \in Session, Rollback(s)
  PROVE  DealInv'
  <1>1. /\ request' = [request EXCEPT ![s] = NoRequest] /\ UNCHANGED <<rows, log>>
        /\ stale' = stale \ {s}
    BY DEF Rollback
  <1>2. \A o \in Session \ stale' : DealPlanOK(request'[o].writes, request'[o].events)
    BY <1>1 DEF DealInv, DealPlanOK, NoRequest
  <1>3. \A w, e : DealPlanOK(w, e) => DealPlanOK(w, e)'
    BY <1>1 DEF DealPlanOK, Accepted
  <1> QED
    BY <1>1, <1>2, <1>3 DEF DealInv, SpentOnce, Unspent, Desk

-----------------------------------------------------------------------------
(* The plans of the requests are sound.                                      *)

LEMMA EventsOf ==
  \A i \in Intakes : /\ <<"matched", i>> \in Events /\ <<"offered", i>> \in Events
                      /\ <<"bought", i>> \in Events
  BY DEF Events

LEMMA KeysApart ==
  /\ \A i \in Intakes : i \notin OfferSlots /\ i \notin Lines
  /\ \A l \in Lines : l \notin OfferSlots
  BY DealAssumption

(* A change of one intake's status by a button, or of its status and lines.  *)
LEMMA StatusPlan ==
  ASSUME DealInv, NEW i \in Intakes, NEW to, NEW lines, NEW events,
         DOMAIN lines \subseteq Lines,
         to \notin {"matched", "offer_sent", "processing"}, events = {}
  PROVE  DealPlanOK(Over(Row(i, to), lines), events)
  <1> DEFINE plan == Over(Row(i, to), lines)
  <1>1. DOMAIN plan = {i} \cup DOMAIN lines /\ plan[i] = to
    BY DEF Over, Row
  <1> HIDE DEF plan
  <1>2. DOMAIN plan \subseteq DealKeys /\ DOMAIN plan \cap OfferSlots = {}
        /\ \A j \in Intakes : j \in DOMAIN plan => j = i
    BY <1>1, KeysApart DEF DealKeys
  <1>3. DealPlanOK(plan, events)
    BY <1>1, <1>2 DEF DealPlanOK
  <1> QED
    BY <1>3 DEF plan

LEMMA MatchKeeps ==
  ASSUME DealInv, NEW s \in Session, MatchToBuyers(s)
  PROVE  DealInv'
  <1>1. PICK i \in Desk, answer \in SUBSET Buyers :
          LET lines == [l \in LinesOf(i) |-> IF l[2] \in answer THEN "listed" ELSE None]
          IN IF answer = {} THEN Begin(s, lines, {})
             ELSE /\ log[<<"matched", i>>] < MaxMatches
                  /\ Begin(s, Over(Row(i, "matched"), lines),
                           IF rows[i] = "matched" THEN {} ELSE {<<"matched", i>>})
    BY DEF MatchToBuyers
  <1> DEFINE lines == [l \in LinesOf(i) |-> IF l[2] \in answer THEN "listed" ELSE None]
             plan == Over(Row(i, "matched"), lines)
             events == IF rows[i] = "matched" THEN {} ELSE {<<"matched", i>>}
  <1>2. i \in Intakes /\ DOMAIN lines \subseteq Lines
    BY DEF Desk, LinesOf, Lines
  <1>3. DOMAIN plan = {i} \cup DOMAIN lines /\ plan[i] = "matched"
    BY DEF Over, Row
  <1>4. CASE answer = {}
    <2>1. Begin(s, lines, {})
      BY <1>1, <1>4
    <2> HIDE DEF lines
    <2>2. DealPlanOK(lines, {})
      BY <1>2, KeysApart DEF DealPlanOK, DealKeys
    <2> QED
      BY <2>1, <2>2, DealBeginKeeps
  <1>5. CASE answer # {}
    <2>1. Begin(s, plan, events)
      BY <1>1, <1>5
    <2>2. /\ <<"matched", i>> \in events \/ rows[i] = "matched"
          /\ events = {} \/ events = {<<"matched", i>>}
          /\ \A j \in Intakes : <<"bought", j>> \notin events /\ <<"offered", j>> \notin events
      OBVIOUS
    <2> HIDE DEF lines, plan, events
    <2>3. DealPlanOK(plan, events)
      BY <1>2, <1>3, <2>2, KeysApart, EventsOf DEF DealPlanOK, DealKeys
    <2> QED
      BY <2>1, <2>3, DealBeginKeeps
  <1> QED
    BY <1>4, <1>5

LEMMA SelectKeeps ==
  ASSUME DealInv, NEW s \in Session, SelectLine(s)
  PROVE  DealInv'
  <1>1. PICK i \in Desk : \E l \in LinesOf(i) :
          Begin(s, Row(l, IF rows[l] = "listed" THEN "selected" ELSE "listed"), {})
    BY DEF SelectLine
  <1>2. PICK l \in LinesOf(i) :
          Begin(s, Row(l, IF rows[l] = "listed" THEN "selected" ELSE "listed"), {})
    BY <1>1
  <1>3. l \in Lines
    BY DEF Desk, LinesOf, Lines
  <1>4. \A v : DealPlanOK(Row(l, v), {})
    BY <1>3, KeysApart DEF DealPlanOK, Row, DealKeys
  <1> QED
    BY <1>2, <1>4, DealBeginKeeps

LEMMA SendOffersKeeps ==
  ASSUME DealInv, NEW s \in Session, SendOffers(s)
  PROVE  DealInv'
  <1> DEFINE Filing(i, slot, price) ==
               [o \in {slot[b] : b \in Selected(i)} |->
                  [intake |-> i, buyer |-> CHOOSE b \in Selected(i) : slot[b] = o,
                   state |-> "draft", price |-> price]]
  <1>1. PICK i \in Desk :
          /\ rows[i] = "matched" /\ Selected(i) # {}
          /\ \E slot \in [Selected(i) -> (OfferSlots \cap DOMAIN rows) \ Filed], price \in Prices :
               /\ \A a, b \in Selected(i) : slot[a] = slot[b] => a = b
               /\ Begin(s, Over(Row(i, "offer_sent"), Filing(i, slot, price)),
                        {<<"offered", i>>})
    BY Zenon DEF SendOffers
  <1>2. PICK slot \in [Selected(i) -> (OfferSlots \cap DOMAIN rows) \ Filed], price \in Prices :
          Begin(s, Over(Row(i, "offer_sent"), Filing(i, slot, price)), {<<"offered", i>>})
    BY <1>1, Zenon
  <1> DEFINE filed == Filing(i, slot, price)
             plan == Over(Row(i, "offer_sent"), filed)
  <1>3. DOMAIN filed \subseteq OfferSlots
        /\ \A o \in DOMAIN filed : o \in DOMAIN rows /\ o \notin Filed
    OBVIOUS
  <1> HIDE DEF filed
  <1>4. DOMAIN plan = {i} \cup DOMAIN filed /\ plan[i] = "offer_sent"
    BY DEF Over, Row
  <1>5. i \in Intakes /\ \A o \in DOMAIN filed : ~Accepted(o)
    BY <1>3 DEF Desk, Filed, Accepted
  <1>6. Begin(s, plan, {<<"offered", i>>})
    BY <1>2 DEF filed
  <1> HIDE DEF plan
  <1>7. DealPlanOK(plan, {<<"offered", i>>})
    BY <1>1, <1>3, <1>4, <1>5, KeysApart, EventsOf DEF DealPlanOK, DealKeys, Buyable
  <1> QED
    BY <1>6, <1>7, DealBeginKeeps

(* A button on an intake: to a status that cannot be bought, or onward.      *)
LEMMA OfferMoveKeeps ==
  ASSUME DealInv, NEW s \in Session, NEW from, NEW to, MoveIntake(s, from, to),
         to # "matched",
         to \in {"offer_sent", "processing"} => from \subseteq Buyable
  PROVE  DealInv'
  <1>1. PICK i \in Desk : rows[i] \in from /\ Begin(s, Row(i, to), {})
    BY DEF MoveIntake
  <1>2. DealPlanOK(Row(i, to), {})
    BY <1>1, KeysApart DEF DealPlanOK, Row, DealKeys, Desk
  <1> QED
    BY <1>1, <1>2, DealBeginKeeps

LEMMA ButtonsKeep ==
  ASSUME DealInv, NEW s \in Session,
         MarkProcessing(s) \/ MarkWon(s) \/ MarkLost(s) \/ MarkExpired(s)
  PROVE  DealInv'
  <1>1. CASE MarkProcessing(s)
    BY <1>1, OfferMoveKeeps DEF MarkProcessing, Buyable
  <1>2. CASE MarkWon(s)
    BY <1>2, OfferMoveKeeps DEF MarkWon
  <1>3. CASE MarkLost(s)
    BY <1>3, OfferMoveKeeps DEF MarkLost
  <1>4. CASE MarkExpired(s)
    BY <1>4, OfferMoveKeeps DEF MarkExpired
  <1> QED
    BY <1>1, <1>2, <1>3, <1>4

LEMMA ResetKeeps ==
  ASSUME DealInv, NEW s \in Session, ResetToDraft(s)
  PROVE  DealInv'
  <1>1. PICK i \in Desk : Begin(s, Over(Row(i, "draft"), [l \in LinesOf(i) |-> None]), {})
    BY DEF ResetToDraft
  <1> DEFINE lines == [l \in LinesOf(i) |-> None]
  <1>2. i \in Intakes /\ DOMAIN lines \subseteq Lines
    BY DEF Desk, LinesOf, Lines
  <1> HIDE DEF lines
  <1>3. DealPlanOK(Over(Row(i, "draft"), lines), {})
    BY <1>2, StatusPlan
  <1> QED
    BY <1>1, <1>3, DealBeginKeeps DEF lines

LEMMA MakePOKeeps ==
  ASSUME DealInv, NEW s \in Session, MakePO(s)
  PROVE  DealInv'
  <1>1. PICK i \in Desk : rows[i] \in Buyable /\ Begin(s, Row(i, "won"), {<<"bought", i>>})
    BY DEF MakePO, Buyable
  <1>2. DealPlanOK(Row(i, "won"), {<<"bought", i>>})
    BY <1>1, KeysApart, EventsOf DEF DealPlanOK, Row, DealKeys, Desk
  <1> QED
    BY <1>1, <1>2, DealBeginKeeps

(* Plans that write offers only, none of them accepted.                      *)
LEMMA OffersPlan ==
  ASSUME DealInv, NEW s \in Session, NEW plan, Begin(s, plan, {}),
         DOMAIN plan \subseteq OfferSlots,
         \A o \in DOMAIN plan : ~Accepted(o)
  PROVE  DealInv'
  <1>1. DealPlanOK(plan, {})
    BY KeysApart DEF DealPlanOK, DealKeys
  <1> QED
    BY <1>1, DealBeginKeeps

LEMMA OneOfferKeeps ==
  ASSUME DealInv, NEW s \in Session, NEW o \in OfferSlots, NEW v,
         Begin(s, Row(o, v), {}), ~Accepted(o)
  PROVE  DealInv'
  BY OffersPlan DEF Row

LEMMA OfferRequestsKeep ==
  ASSUME DealInv, NEW s \in Session,
         CreateOffer(s) \/ PressOffer(s) \/ BulkOffers(s) \/ EditOffer(s)
           \/ WriteState(s) \/ UnlinkOffer(s) \/ ExpireOffers(s)
  PROVE  DealInv'
  <1>1. CASE CreateOffer(s)
    <2>1. PICK o \in (OfferSlots \cap DOMAIN rows) \ Filed : \E v : Begin(s, Row(o, v), {})
      BY <1>1 DEF CreateOffer
    <2>2. ~Accepted(o)
      BY <2>1 DEF Filed, Accepted
    <2> QED
      BY <2>1, <2>2, OneOfferKeeps
  <1>2. CASE PressOffer(s)
    <2>1. PICK o \in Filed :
            \E move \in UNION {ActionSend, ActionMarkResponded, ActionAccept, ActionReject,
                               ActionCancel, ActionResetOffer} :
              /\ rows[o].state = move[1]
              /\ Begin(s, Row(o, [rows[o] EXCEPT !.state = move[2]]), {})
      BY <1>2 DEF PressOffer
    <2>2. PICK move \in UNION {ActionSend, ActionMarkResponded, ActionAccept, ActionReject,
                               ActionCancel, ActionResetOffer} :
              /\ rows[o].state = move[1]
              /\ Begin(s, Row(o, [rows[o] EXCEPT !.state = move[2]]), {})
      BY <2>1
    <2>3. move[1] # "accepted"
      BY DEF ActionSend, ActionMarkResponded, ActionAccept, ActionReject,
             ActionCancel, ActionResetOffer
    <2>4. o \in OfferSlots /\ ~Accepted(o)
      BY <2>2, <2>3 DEF Filed, Accepted
    <2> QED
      BY <2>2, <2>4, OneOfferKeeps
  <1>3. CASE BulkOffers(s)
    <2> DEFINE To(moves) == (CHOOSE move \in moves : TRUE)[2]
               Valid(moves) == {o \in Filed : \E move \in moves : rows[o].state = move[1]}
    <2>1. PICK moves \in {ActionSend, ActionAccept, ActionCancel,
                          (OfferState \ ClosedOffer) \X {"rejected"}} :
            \E O \in SUBSET Valid(moves) :
              Begin(s, [o \in O |-> [rows[o] EXCEPT !.state = To(moves)]], {})
      BY <1>3, Zenon DEF BulkOffers
    <2>2. PICK O \in SUBSET Valid(moves) :
              Begin(s, [o \in O |-> [rows[o] EXCEPT !.state = To(moves)]], {})
      BY <2>1
    <2>3. \A move \in moves : move[1] # "accepted"
      BY DEF ActionSend, ActionAccept, ActionCancel, ClosedOffer
    <2>4. \A o \in O : o \in OfferSlots /\ ~Accepted(o)
      BY <2>3 DEF Filed, Accepted
    <2> QED
      BY <2>2, <2>4, OffersPlan
  <1>4. CASE EditOffer(s)
    <2>1. PICK o \in Filed : rows[o].state \notin ClosedOffer /\ \E v : Begin(s, Row(o, v), {})
      BY <1>4 DEF EditOffer
    <2> QED
      BY <2>1, OneOfferKeeps DEF Filed, Accepted, ClosedOffer
  <1>5. CASE UnlinkOffer(s)
    <2>1. PICK o \in Filed :
            rows[o].state \notin {"accepted", "rejected"} /\ Begin(s, Row(o, None), {})
      BY <1>5 DEF UnlinkOffer
    <2> QED
      BY <2>1, OneOfferKeeps DEF Filed, Accepted
  <1>6. CASE ExpireOffers(s)
    <2>1. PICK O \in SUBSET {o \in Filed : rows[o].state \notin ClosedOffer} :
            Begin(s, [o \in O |-> [rows[o] EXCEPT !.state = "expired"]], {})
      BY <1>6 DEF ExpireOffers
    <2>2. \A o \in O : o \in OfferSlots /\ ~Accepted(o)
      BY DEF Filed, Accepted, ClosedOffer
    <2> QED
      BY <2>1, <2>2, OffersPlan
  <1>7. CASE WriteState(s)
    <2>1. PICK o \in Filed : \E v :
            Begin(s, Row(o, v), IF rows[o].state = "accepted" THEN {<<"overridden", o>>} ELSE {})
      BY <1>7 DEF WriteState
    <2> DEFINE events == IF rows[o].state = "accepted" THEN {<<"overridden", o>>} ELSE {}
    <2>2. PICK v : Begin(s, Row(o, v), events)
      BY <2>1
    <2>3. o \in OfferSlots
      BY DEF Filed
    <2>4. /\ events = {} \/ events = {<<"overridden", o>>}
          /\ Accepted(o) => <<"overridden", o>> \in events
      BY DEF Accepted
    <2> HIDE DEF events
    <2>5. DealPlanOK(Row(o, v), events)
      <3>1. \A i \in Intakes : i # o /\ <<"bought", i>> \notin events /\ <<"offered", i>> \notin events
        BY <2>3, <2>4, KeysApart
      <3>2. DOMAIN Row(o, v) = {o}
        BY DEF Row
      <3>3. events = {} \/ \E e \in Events \cup Marks : events = {e}
        BY <2>3, <2>4 DEF Marks
      <3> QED
        BY <2>3, <2>4, <3>1, <3>2, <3>3 DEF DealPlanOK, DealKeys
    <2> QED
      BY <2>2, <2>5, DealBeginKeeps
  <1> QED
    BY <1>1, <1>2, <1>3, <1>4, <1>5, <1>6, <1>7

LEMMA DealStepKeeps ==
  ASSUME DealInv, [DealNext]_requestVars
  PROVE  DealInv'
  <1>1. CASE UNCHANGED requestVars
    <2>1. UNCHANGED <<rows, log, request, stale>>
      BY <1>1 DEF requestVars
    <2>2. \A w, e : DealPlanOK(w, e) => DealPlanOK(w, e)'
      BY <2>1 DEF DealPlanOK, Accepted
    <2> QED
      BY <2>1, <2>2 DEF DealInv, SpentOnce, Unspent, Desk
  <1>2. CASE DealNext
    <2>1. PICK s \in Session : DealRequest(s) \/ Served(s)
      BY <1>2 DEF DealNext
    <2>2. CASE Served(s)
      BY <2>2, DealCommitKeeps, DealRollbackKeeps DEF Served
    <2>3. CASE DealRequest(s)
      BY <2>3, MatchKeeps, SelectKeeps, SendOffersKeeps, MakePOKeeps, ButtonsKeep, ResetKeeps,
         OfferRequestsKeep DEF DealRequest
    <2> QED
      BY <2>1, <2>2, <2>3
  <1> QED
    BY <1>1, <1>2

(* A request writes nothing before it commits.                               *)
LEMMA DealsOnlyPlan ==
  ASSUME NEW s \in Session, DealRequest(s)
  PROVE  UNCHANGED <<rows, log>>
  <1>1. CASE MatchToBuyers(s)
    BY <1>1 DEF MatchToBuyers, Begin
  <1>2. CASE SelectLine(s) \/ MakePO(s) \/ ResetToDraft(s)
    BY <1>2 DEF SelectLine, MakePO, ResetToDraft, Begin
  <1>3. CASE MarkProcessing(s) \/ MarkWon(s) \/ MarkLost(s) \/ MarkExpired(s)
    BY <1>3 DEF MarkProcessing, MarkWon, MarkLost, MarkExpired, MoveIntake, Begin
  <1>4. CASE SendOffers(s)
    BY <1>4 DEF SendOffers, Begin
  <1>5. CASE CreateOffer(s) \/ EditOffer(s) \/ WriteState(s) \/ UnlinkOffer(s) \/ ExpireOffers(s)
    BY <1>5 DEF CreateOffer, EditOffer, WriteState, UnlinkOffer, ExpireOffers, Begin
  <1>6. CASE PressOffer(s)
    BY <1>6 DEF PressOffer, Begin
  <1>7. CASE BulkOffers(s)
    BY <1>7 DEF BulkOffers, Begin
  <1> QED
    BY <1>1, <1>2, <1>3, <1>4, <1>5, <1>6, <1>7 DEF DealRequest

LEMMA DealInductive == DealSpec => []DealInv
  <1>1. DealInit => DealInv
    BY DealInitKeeps
  <1>2. DealInv /\ [DealNext]_requestVars => DealInv'
    BY DealStepKeeps
  <1> QED
    BY <1>1, <1>2, PTL DEF DealSpec

-----------------------------------------------------------------------------
(* No two desks spend one matching: an intake is bought, and offered, at     *)
(* most once for each time it became "matched", however many requests are    *)
(* open (action_make_po and action_send_offers on a snapshot of the status). *)
THEOREM MatchingsAreSpentOnce == DealSpec => []SpentOnce
  <1>1. DealInv => SpentOnce
    BY DEF DealInv
  <1> QED
    BY <1>1, DealInductive, PTL

(* What a buyer accepted is changed only by a write of its state that saw    *)
(* the acceptance: every other request that would change the offer began     *)
(* before it was accepted, and fails on the row it writes.                  *)
THEOREM AcceptancesStand == DealSpec => AcceptedStands
  <1>1. ASSUME DealInv, [DealNext]_requestVars
        PROVE  [\A o \in Filed : rows[o].state = "accepted" /\ rows'[o] # rows[o] =>
                  \E s \in Session : Overrides(s, o) /\ Commit(s)]_rows
    <2>1. CASE UNCHANGED rows
      BY <2>1
    <2>2. ASSUME NEW s \in Session, Commit(s), NEW o \in Filed, rows[o].state = "accepted",
                 ~Overrides(s, o)
          PROVE  rows'[o] = rows[o]
      <3>1. o \in OfferSlots /\ o \in DealKeys /\ Accepted(o)
        BY <2>2 DEF Filed, Accepted, DealKeys
      <3>2. o \notin DOMAIN request[s].writes
        BY <1>1, <2>2, <3>1, CommitRows DEF DealPlanOK, Overrides
      <3> QED
        BY <1>1, <2>2, <3>1, <3>2, CommitRows
    <2>3. UNCHANGED rows \/ \E s \in Session : Commit(s)
      BY <1>1, DealsOnlyPlan DEF DealNext, Served, Rollback, requestVars
    <2> QED
      BY <2>1, <2>2, <2>3
  <1> QED
    BY <1>1, DealInductive, PTL DEF DealSpec, AcceptedStands

-----------------------------------------------------------------------------
(* The counts of the three events, while the desk's invariant holds.         *)
LEMMA EventCounts ==
  ASSUME DealInv
  PROVE  /\ Times("matched") = [i \in Intakes |-> log[<<"matched", i>>]]
         /\ Times("offered") = [i \in Intakes |-> log[<<"offered", i>>]]
         /\ Times("bought") = [i \in Intakes |-> log[<<"bought", i>>]]
  <1>1. DOMAIN log = Events
    BY DEF DealInv
  <1> QED
    BY <1>1, EventsOf DEF Times

LEMMA CountsNext ==
  ASSUME DealInv'
  PROVE  /\ Times("matched")' = [i \in Intakes |-> log'[<<"matched", i>>]]
         /\ Times("offered")' = [i \in Intakes |-> log'[<<"offered", i>>]]
         /\ Times("bought")' = [i \in Intakes |-> log'[<<"bought", i>>]]
  <1>1. DOMAIN log' = Events
    BY DEF DealInv
  <1> QED
    BY <1>1, EventsOf DEF Times

LEMMA CountsStay ==
  ASSUME UNCHANGED log
  PROVE  UNCHANGED <<Times("matched"), Times("offered"), Times("bought")>>
  BY DEF Times

(* A commit is a step of the budget, or none of its business.                *)
LEMMA CommitIsBudgeted ==
  ASSUME DealInv, DealInv', NEW s \in Session, Commit(s)
  PROVE  \/ UNCHANGED <<Times("matched"), Times("offered"), Times("bought")>>
         \/ \E i \in Intakes : Budget!Match(i) \/ Budget!Offer(i) \/ Budget!Buy(i)
  <1> DEFINE e == request[s].events
  <1>1. /\ log \in [Events -> Nat]
        /\ log' = [v \in Events |-> IF v \in e THEN log[v] + 1 ELSE log[v]]
    BY DEF DealInv, Commit
  <1>2. DealPlanOK(request[s].writes, e)
    BY CommitRows
  <1>3. CASE e = {}
    <2>1. log' = log
      BY <1>1, <1>3
    <2> QED
      BY <2>1, CountsStay
  <1>4. ASSUME NEW i \in Intakes, NEW kind \in {"matched", "offered", "bought"},
               e = {<<kind, i>>}
        PROVE  Budget!Match(i) \/ Budget!Offer(i) \/ Budget!Buy(i)
    <2> DEFINE M == [j \in Intakes |-> log[<<"matched", j>>]]
               O == [j \in Intakes |-> log[<<"offered", j>>]]
               B == [j \in Intakes |-> log[<<"bought", j>>]]
    <2>1. /\ Times("matched") = M /\ Times("offered") = O /\ Times("bought") = B
          /\ Times("matched")' = M' /\ Times("offered")' = O' /\ Times("bought")' = B'
      BY EventCounts, CountsNext
    <2>2. \A k \in {"matched", "offered", "bought"}, j \in Intakes :
            log'[<<k, j>>] = IF k = kind /\ j = i THEN log[<<k, j>>] + 1 ELSE log[<<k, j>>]
      BY <1>1, <1>4, EventsOf
    <2>3. /\ M' = IF kind = "matched" THEN [M EXCEPT ![i] = @ + 1] ELSE M
          /\ O' = IF kind = "offered" THEN [O EXCEPT ![i] = @ + 1] ELSE O
          /\ B' = IF kind = "bought" THEN [B EXCEPT ![i] = @ + 1] ELSE B
      BY <2>2
    <2>4. /\ kind = "offered" => O[i] < M[i]
          /\ kind = "bought" => B[i] < M[i]
      BY <1>2, <1>4 DEF DealPlanOK, DealInv, Unspent
    <2> HIDE DEF M, O, B, e
    <2> QED
      BY <2>1, <2>3, <2>4 DEF Budget!Match, Budget!Offer, Budget!Buy, Budget!More
  <1>5. CASE \E v \in Marks : e = {v}
    <2>1. \A v \in Events : v \notin Marks
      BY DEF Events, Marks
    <2>2. log' = log
      BY <1>1, <1>5, <2>1
    <2> QED
      BY <2>2, CountsStay
  <1>6. CASE \E v \in Events : e = {v}
    <2>1. PICK v \in Events : e = {v}
      BY <1>6
    <2>2. PICK kind \in {"matched", "offered", "bought"}, i \in Intakes : v = <<kind, i>>
      BY DEF Events
    <2> QED
      BY <2>1, <2>2, <1>4
  <1> QED
    BY <1>2, <1>3, <1>5, <1>6 DEF DealPlanOK

(* The desk implements the budget: a purchase, or the sending of offers, is  *)
(* always one that a matching pays for, whatever requests are open.         *)
THEOREM DeskKeepsBudget == DealSpec => WithinBudget
  <1>1. DealInit => Budget!BudgetInit
    <2> SUFFICES ASSUME DealInit PROVE Budget!BudgetInit
      OBVIOUS
    <2>1. log = [v \in Events |-> 0]
      BY DEF DealInit, Start
    <2>2. \A event \in {"matched", "offered", "bought"} : Times(event) = [i \in Intakes |-> 0]
      BY <2>1, EventsOf DEF Times
    <2> QED
      BY <2>2 DEF Budget!BudgetInit
  <1>2. ASSUME DealInv, DealInv', [DealNext]_requestVars
        PROVE  [\E i \in Intakes : Budget!Match(i) \/ Budget!Offer(i) \/ Budget!Buy(i)]_(Budget!budgetVars)
    <2>1. UNCHANGED log \/ \E s \in Session : Commit(s)
      BY <1>2, DealsOnlyPlan DEF DealNext, Served, Rollback, requestVars
    <2>2. CASE UNCHANGED log
      BY <2>2, CountsStay DEF Budget!budgetVars
    <2>3. ASSUME NEW s \in Session, Commit(s)
          PROVE  \/ UNCHANGED Budget!budgetVars
                 \/ \E i \in Intakes : Budget!Match(i) \/ Budget!Offer(i) \/ Budget!Buy(i)
      BY <1>2, <2>3, CommitIsBudgeted DEF Budget!budgetVars
    <2> QED
      BY <2>1, <2>2, <2>3
  <1> QED
    BY <1>1, <1>2, DealInductive, PTL DEF DealSpec, WithinBudget, Budget!BudgetSpec

-----------------------------------------------------------------------------
(* Actual freight costs.                                                   *)

(* Everything a plan changes is written.                                    *)
LEMMA ChangesAreWritten ==
  ASSUME DOMAIN request = Session, NEW s \in Session, NEW plan, NEW events,
         Begin(s, plan, events), NEW k \in DOMAIN plan, plan[k] # rows[k]
  PROVE  k \in DOMAIN request'[s].writes
  <1> DEFINE r == [writes |-> Changed(plan), events |-> events]
  <1>1. request' = [request EXCEPT ![s] = r]
    BY DEF Begin
  <1>2. k \in DOMAIN Changed(plan)
    BY DEF Changed
  <1>3. r.writes = Changed(plan)
    OBVIOUS
  <1> HIDE DEF r
  <1> QED
    BY <1>1, <1>2, <1>3

-----------------------------------------------------------------------------
(* Actual freight costs.                                                   *)

LedgerKeys == Hauls \cup Entries \cup Slots
HaulRow == [locked : BOOLEAN, cost : Nat, stamp : Nat]

LedgerTypes(r) ==
  /\ DOMAIN r = LedgerKeys
  /\ \A h \in Hauls : r[h] \in HaulRow
  /\ \A e \in Entries : r[e] \in Observation \cup {None}

Observed(r, h) == {e \in Entries : r[e] # None /\ r[e].load = h}

(* The observations of a load bear the numbers of its recordings, each one   *)
(* supersedes the one before it, and the last one is the load's cost.        *)
Chained(r, h) ==
  /\ \A e \in Observed(r, h) : r[e].at >= 1 /\ r[e].at <= r[h].stamp
  /\ \A n \in Nat : n >= 1 /\ n <= r[h].stamp => \E e \in Observed(r, h) : r[e].at = n
  /\ \A e, o \in Observed(r, h) : r[e].at = r[o].at => e = o
  /\ \A e \in Observed(r, h) :
       IF r[e].at = 1 THEN r[e].prior = None
       ELSE r[e].prior \in Observed(r, h) /\ r[r[e].prior].at = r[e].at - 1
  /\ \A e \in Observed(r, h) : r[e].at = r[h].stamp => r[e].cost = r[h].cost

(* What requests plan: a load without a new recording, whose cost changes    *)
(* only before the first, or the next recording of a load.                  *)
Touches(r, w, h) ==
  /\ DOMAIN w \subseteq {h}
  /\ \A k \in DOMAIN w : /\ w[k] \in HaulRow /\ w[k].stamp = r[k].stamp
                         /\ w[k].stamp = 0 \/ w[k].cost = r[k].cost

Records(r, w, h, e) ==
  /\ h \in DOMAIN w /\ e \in DOMAIN w
  /\ DOMAIN w \subseteq {h, e} \cup Slots
  /\ w[h] \in HaulRow /\ w[h].stamp = r[h].stamp + 1
  /\ r[e] = None /\ w[e] \in Observation
  /\ w[e].load = h /\ w[e].cost = w[h].cost /\ w[e].at = w[h].stamp
  /\ IF r[h].stamp = 0 THEN w[e].prior = None
     ELSE w[e].prior \in Observed(r, h) /\ r[w[e].prior].at = r[h].stamp

LedgerPlan(r, w) ==
  \/ DOMAIN w = {}
  \/ \E h \in Hauls : Touches(r, w, h) \/ \E e \in Entries : Records(r, w, h, e)

LedgerInv ==
  /\ LedgerTypes(rows)
  /\ \A h \in Hauls : Chained(rows, h)
  /\ DOMAIN request = Session
  /\ \A s \in Session \ stale : LedgerPlan(rows, request[s].writes)

(* r becomes n: w is written over it.                                       *)
Written(r, w, n) ==
  /\ DOMAIN n = DOMAIN r
  /\ \A k \in DOMAIN w : n[k] = w[k]
  /\ \A k \in DOMAIN r \ DOMAIN w : n[k] = r[k]

LEMMA KeysDiffer ==
  /\ \A h \in Hauls, e \in Entries : h # e
  /\ \A h \in Hauls : h \notin Slots
  /\ \A e \in Entries : e \notin Slots /\ e # None
  /\ None \notin Observation
  BY LedgerAssumption

LEMMA LedgerPlanInside ==
  ASSUME NEW r, NEW w, LedgerPlan(r, w)
  PROVE  DOMAIN w \subseteq LedgerKeys
  BY DEF LedgerPlan, Touches, Records, LedgerKeys

LEMMA WritingKeepsTypes ==
  ASSUME NEW r, NEW w, NEW n, LedgerTypes(r), LedgerPlan(r, w), Written(r, w, n)
  PROVE  LedgerTypes(n)
  <1>1. ASSUME NEW h \in Hauls PROVE n[h] \in HaulRow
    BY KeysDiffer DEF LedgerTypes, LedgerPlan, Touches, Records, Written, LedgerKeys
  <1>2. ASSUME NEW e \in Entries PROVE n[e] \in Observation \cup {None}
    BY KeysDiffer DEF LedgerTypes, LedgerPlan, Touches, Records, Written, LedgerKeys
  <1> QED
    BY <1>1, <1>2 DEF LedgerTypes, Written

(* A load that nobody records keeps its chain.                              *)
LEMMA ChainStays ==
  ASSUME NEW r, NEW n, NEW h \in Hauls, Chained(r, h), LedgerTypes(r),
         n[h].stamp = r[h].stamp, n[h].stamp = 0 \/ n[h].cost = r[h].cost,
         \A e \in Entries : n[e] = r[e] \/ (r[e] = None /\ n[e].load # h)
  PROVE  Chained(n, h)
  <1>1. Observed(n, h) = Observed(r, h) /\ \A e \in Observed(r, h) : n[e] = r[e]
    BY DEF Observed
  <1> QED
    BY <1>1 DEF Chained

LEMMA ChainGrows ==
  ASSUME NEW r, NEW n, NEW w, NEW h \in Hauls, NEW e \in Entries,
         LedgerTypes(r), Chained(r, h), Records(r, w, h, e), Written(r, w, n)
  PROVE  Chained(n, h)
  <1> DEFINE O == Observed(r, h)
             s == r[h].stamp
  <1>1. s \in Nat
    BY DEF LedgerTypes, HaulRow
  <1>2. n[h] = w[h] /\ n[h].stamp = s + 1
    BY DEF Records, Written
  <1>3. n[e] = w[e] /\ n[e] # None /\ n[e].load = h /\ n[e].at = s + 1 /\ n[e].cost = n[h].cost
    BY <1>2, KeysDiffer DEF Records, Written
  <1>4. e \notin O
    BY DEF Records, Observed
  <1>5. \A o \in Entries \ {e} : n[o] = r[o]
    BY KeysDiffer DEF Records, Written, LedgerTypes, LedgerKeys
  <1>6. Observed(n, h) = O \cup {e} /\ \A o \in O : n[o] = r[o]
    BY <1>3, <1>4, <1>5 DEF Observed
  <1>7. \A o \in O : r[o].at \in Nat
    BY DEF Observed, LedgerTypes, Observation
  <1>8. IF s = 0 THEN n[e].prior = None ELSE n[e].prior \in O /\ r[n[e].prior].at = s
    BY <1>3 DEF Records
  <1> HIDE DEF O, s
  <1>9. /\ \A o \in O : r[o].at >= 1 /\ r[o].at <= s
        /\ \A m \in Nat : m >= 1 /\ m <= s => \E o \in O : r[o].at = m
        /\ \A x, o \in O : r[x].at = r[o].at => x = o
        /\ \A o \in O : IF r[o].at = 1 THEN r[o].prior = None
                        ELSE r[o].prior \in O /\ r[r[o].prior].at = r[o].at - 1
    BY DEF Chained, O, s
  <1>10. \A o \in Observed(n, h) : n[o].at >= 1 /\ n[o].at <= n[h].stamp
    BY <1>1, <1>2, <1>3, <1>6, <1>7, <1>9
  <1>11. \A m \in Nat : m >= 1 /\ m <= n[h].stamp => \E o \in Observed(n, h) : n[o].at = m
    BY <1>1, <1>2, <1>3, <1>6, <1>9
  <1>12. \A x, o \in Observed(n, h) : n[x].at = n[o].at => x = o
    BY <1>1, <1>3, <1>6, <1>7, <1>9
  <1>13. ASSUME NEW o \in Observed(n, h)
         PROVE  IF n[o].at = 1 THEN n[o].prior = None
                ELSE n[o].prior \in Observed(n, h) /\ n[n[o].prior].at = n[o].at - 1
    <2>1. CASE o = e
      BY <1>1, <1>3, <1>6, <1>8, <2>1
    <2>2. CASE o \in O
      BY <1>6, <1>9, <2>2
    <2> QED
      BY <1>6, <2>1, <2>2
  <1>14. \A o \in Observed(n, h) : n[o].at = n[h].stamp => n[o].cost = n[h].cost
    BY <1>1, <1>2, <1>3, <1>6, <1>7, <1>9
  <1> QED
    BY <1>10, <1>11, <1>12, <1>13, <1>14 DEF Chained

LEMMA WritingKeepsChains ==
  ASSUME NEW r, NEW w, NEW n, LedgerTypes(r), LedgerPlan(r, w), Written(r, w, n),
         \A h \in Hauls : Chained(r, h), NEW h \in Hauls
  PROVE  Chained(n, h)
  <1>1. CASE DOMAIN w = {}
    <2>1. n[h] = r[h] /\ \A e \in Entries : n[e] = r[e]
      BY <1>1 DEF Written, LedgerTypes, LedgerKeys
    <2> QED
      BY <2>1, ChainStays
  <1>2. ASSUME NEW g \in Hauls, Touches(r, w, g)
        PROVE  Chained(n, h)
    <2>1. \A e \in Entries : n[e] = r[e]
      BY <1>2, KeysDiffer DEF Touches, Written, LedgerTypes, LedgerKeys
    <2>2. n[h].stamp = r[h].stamp /\ (n[h].stamp = 0 \/ n[h].cost = r[h].cost)
      BY <1>2 DEF Touches, Written, LedgerTypes, LedgerKeys
    <2> QED
      BY <2>1, <2>2, ChainStays
  <1>3. ASSUME NEW g \in Hauls, NEW e \in Entries, Records(r, w, g, e)
        PROVE  Chained(n, h)
    <2>1. CASE g = h
      BY <1>3, <2>1, ChainGrows
    <2>2. CASE g # h
      <3>1. n[h] = r[h]
        BY <1>3, <2>2, KeysDiffer DEF Records, Written, LedgerTypes, LedgerKeys
      <3>2. \A o \in Entries : n[o] = r[o] \/ (r[o] = None /\ n[o].load # h)
        BY <1>3, <2>2, KeysDiffer DEF Records, Written, LedgerTypes, LedgerKeys
      <3> QED
        BY <3>1, <3>2, ChainStays
    <2> QED
      BY <2>1, <2>2
  <1> QED
    BY <1>1, <1>2, <1>3 DEF LedgerPlan

(* A plan outlives a commit that writes none of its rows: the observation    *)
(* that it supersedes is written by nobody.                                *)
LEMMA PlanOutlives ==
  ASSUME NEW r, NEW w, NEW n, NEW v, LedgerTypes(r), LedgerPlan(r, w), Written(r, w, n),
         LedgerPlan(r, v), DOMAIN v \cap DOMAIN w = {}
  PROVE  LedgerPlan(n, v)
  <1>1. \A k \in DOMAIN v : n[k] = r[k]
    BY LedgerPlanInside DEF LedgerTypes, Written
  <1>2. CASE DOMAIN v = {}
    BY <1>2 DEF LedgerPlan
  <1>3. ASSUME NEW h \in Hauls, Touches(r, v, h)
        PROVE  LedgerPlan(n, v)
    BY <1>1, <1>3 DEF Touches, LedgerPlan
  <1>4. ASSUME NEW h \in Hauls, NEW e \in Entries, Records(r, v, h, e)
        PROVE  LedgerPlan(n, v)
    <2>1. n[h] = r[h] /\ n[e] = r[e]
      BY <1>1, <1>4 DEF Records
    <2>2. \A o \in Entries : r[o] # None => n[o] = r[o]
      BY KeysDiffer DEF LedgerPlan, Touches, Records, Written, LedgerTypes, LedgerKeys
    <2>3. \A o \in Observed(r, h) : o \in Observed(n, h) /\ n[o] = r[o]
      BY <2>2 DEF Observed
    <2>4. Records(n, v, h, e)
      BY <1>4, <2>1, <2>3 DEF Records
    <2> QED
      BY <2>4 DEF LedgerPlan
  <1> QED
    BY <1>2, <1>3, <1>4 DEF LedgerPlan

LEMMA LedgerInitKeeps == LedgerInit => LedgerInv
  <1> SUFFICES ASSUME LedgerInit PROVE LedgerInv
    OBVIOUS
  <1>1. rows = [k \in LedgerKeys |->
                  IF k \in Hauls THEN [locked |-> FALSE, cost |-> 0, stamp |-> 0] ELSE None]
    BY DEF LedgerInit, Start, LedgerRows, LedgerKeys
  <1>2. \A h \in Hauls : rows[h] = [locked |-> FALSE, cost |-> 0, stamp |-> 0]
    BY <1>1 DEF LedgerKeys
  <1>3. \A e \in Entries : rows[e] = None
    BY <1>1, KeysDiffer DEF LedgerKeys
  <1> DEFINE haul == [locked |-> FALSE, cost |-> 0, stamp |-> 0]
  <1>9. haul \in HaulRow /\ haul.stamp = 0
    BY DEF HaulRow
  <1> HIDE DEF haul
  <1>4. \A h \in Hauls : rows[h] \in HaulRow /\ rows[h].stamp = 0
    BY <1>2, <1>9 DEF haul
  <1>5. LedgerTypes(rows)
    BY <1>1, <1>3, <1>4 DEF LedgerTypes
  <1>6. \A h \in Hauls : Chained(rows, h)
    BY <1>3, <1>4 DEF Chained, Observed
  <1>7. DOMAIN request = Session /\ \A s \in Session : request[s].writes = <<>>
    BY DEF LedgerInit, Start, NoRequest
  <1>8. \A s \in Session : LedgerPlan(rows, request[s].writes)
    BY <1>7 DEF LedgerPlan
  <1> QED
    BY <1>5, <1>6, <1>7, <1>8 DEF LedgerInv

LEMMA LedgerBeginKeeps ==
  ASSUME LedgerInv, NEW s \in Session, NEW plan, NEW events, Begin(s, plan, events),
         LedgerPlan(rows, request'[s].writes)
  PROVE  LedgerInv'
  <1>1. /\ UNCHANGED <<rows, stale>> /\ DOMAIN request' = Session
        /\ \A o \in Session \ {s} : request'[o] = request[o]
    BY BeginPlans DEF LedgerInv
  <1>2. \A o \in Session \ stale' : LedgerPlan(rows, request'[o].writes)
    BY <1>1 DEF LedgerInv
  <1> QED
    BY <1>1, <1>2 DEF LedgerInv

LEMMA LedgerCommitKeeps ==
  ASSUME LedgerInv, NEW s \in Session, Commit(s)
  PROVE  LedgerInv'
  <1> DEFINE w == request[s].writes
  <1>1. LedgerPlan(rows, w)
    BY DEF LedgerInv, Commit
  <1>2. Written(rows, w, rows')
    BY <1>1, LedgerPlanInside, CommitWrites DEF Written, LedgerInv, LedgerTypes
  <1> HIDE DEF w
  <1>3. LedgerTypes(rows') /\ \A h \in Hauls : Chained(rows', h)
    BY <1>1, <1>2, WritingKeepsTypes, WritingKeepsChains DEF LedgerInv
  <1>4. DOMAIN request' = Session /\ DOMAIN request'[s].writes = {}
    BY CommitCloses DEF LedgerInv
  <1>5. ASSUME NEW o \in Session \ stale'
        PROVE  LedgerPlan(rows', request'[o].writes)
    <2>1. CASE o = s
      BY <2>1, <1>4 DEF LedgerPlan
    <2>2. CASE o # s
      <3>1. /\ o \notin stale /\ request'[o] = request[o]
            /\ DOMAIN request[o].writes \cap DOMAIN w = {}
        BY <2>2, Survivors DEF LedgerInv, w
      <3> QED
        BY <3>1, <1>1, <1>2, PlanOutlives DEF LedgerInv
    <2> QED
      BY <2>1, <2>2
  <1> QED
    BY <1>3, <1>4, <1>5 DEF LedgerInv

LEMMA LedgerRollbackKeeps ==
  ASSUME LedgerInv, NEW s \in Session, Rollback(s)
  PROVE  LedgerInv'
  <1>1. /\ UNCHANGED rows /\ stale' = stale \ {s}
        /\ \A o \in Session \ {s} : request'[o] = request[o]
    BY DEF Rollback, LedgerInv
  <1>2. DOMAIN request' = Session /\ DOMAIN request'[s].writes = {}
    BY CommitCloses DEF LedgerInv
  <1>3. \A o \in Session \ stale' : LedgerPlan(rows, request'[o].writes)
    BY <1>1, <1>2 DEF LedgerInv, LedgerPlan
  <1> QED
    BY <1>1, <1>2, <1>3 DEF LedgerInv

(* A plan of one load's row.                                               *)
LEMMA TouchKeeps ==
  ASSUME LedgerInv, NEW s \in Session, NEW h \in Hauls, NEW new \in HaulRow,
         Begin(s, Row(h, new), {}), new.stamp = rows[h].stamp,
         new.stamp = 0 \/ new.cost = rows[h].cost
  PROVE  LedgerInv'
  <1> DEFINE plan == Row(h, new)
  <1>1. DOMAIN plan = {h} /\ plan[h] = new
    BY DEF Row
  <1> HIDE DEF plan
  <1>2. /\ DOMAIN request'[s].writes \subseteq {h}
        /\ \A k \in DOMAIN request'[s].writes : request'[s].writes[k] = new
    BY <1>1, BeginPlans DEF LedgerInv, plan
  <1>3. Touches(rows, request'[s].writes, h)
    BY <1>2 DEF Touches
  <1>4. LedgerPlan(rows, request'[s].writes)
    BY <1>3 DEF LedgerPlan
  <1> QED
    BY <1>4, LedgerBeginKeeps

LEMMA MoveAndTypeKeep ==
  ASSUME LedgerInv, NEW s \in Session, MoveLoad(s) \/ TypeCost(s)
  PROVE  LedgerInv'
  <1>1. \A h \in Trucks : h \in Hauls /\ rows[h] \in HaulRow
    BY DEF Trucks, LedgerInv, LedgerTypes
  <1>2. ASSUME MoveLoad(s) PROVE LedgerInv'
    <2>1. PICK h \in Trucks : Begin(s, Row(h, [rows[h] EXCEPT !.locked = ~@]), {})
      BY <1>2 DEF MoveLoad
    <2> DEFINE new == [rows[h] EXCEPT !.locked = ~@]
    <2>2. new \in HaulRow /\ new.stamp = rows[h].stamp /\ new.cost = rows[h].cost
      BY <1>1 DEF HaulRow
    <2> HIDE DEF new
    <2> QED
      BY <1>1, <2>1, <2>2, TouchKeeps DEF new
  <1>3. ASSUME TypeCost(s) PROVE LedgerInv'
    <2>1. PICK h \in Trucks, cost \in Costs :
            rows[h].stamp = 0 /\ Begin(s, Row(h, [rows[h] EXCEPT !.cost = cost]), {})
      BY <1>3 DEF TypeCost
    <2> DEFINE new == [rows[h] EXCEPT !.cost = cost]
    <2>2. new \in HaulRow /\ new.stamp = rows[h].stamp /\ new.stamp = 0
      BY <1>1, <2>1, LedgerAssumption DEF HaulRow
    <2> HIDE DEF new
    <2> QED
      BY <1>1, <2>1, <2>2, TouchKeeps DEF new
  <1> QED
    BY <1>2, <1>3

NextRecording(old, cost) == [old EXCEPT !.cost = cost, !.stamp = @ + 1]

LEMMA RecordingCounts ==
  ASSUME NEW old \in HaulRow, NEW cost \in Nat
  PROVE  /\ NextRecording(old, cost) \in HaulRow /\ NextRecording(old, cost) # old
         /\ NextRecording(old, cost).stamp = old.stamp + 1
         /\ NextRecording(old, cost).cost = cost
  <1> DEFINE new == NextRecording(old, cost)
  <1>1. old.stamp \in Nat /\ old.stamp + 1 \in Nat
    BY DEF HaulRow
  <1>2. new.stamp = old.stamp + 1 /\ new.cost = cost /\ new.locked = old.locked
    BY DEF HaulRow, NextRecording
  <1>3. new \in HaulRow
    BY <1>1 DEF HaulRow, NextRecording
  <1> HIDE DEF new
  <1>4. new # old
    BY <1>1, <1>2
  <1> QED
    BY <1>2, <1>3, <1>4 DEF new

(* A recording.                                                            *)
LEMMA ObserveKeeps ==
  ASSUME LedgerInv, NEW s \in Session, NEW h \in Trucks, NEW e \in Unused, NEW cost \in Nat,
         NEW prior, NEW slot \in Slots, Observe(s, h, e, cost, prior, slot),
         IF rows[h].stamp = 0 THEN prior = None
         ELSE prior \in Observed(rows, h) /\ rows[prior].at = rows[h].stamp
  PROVE  LedgerInv'
  <1> DEFINE new == [rows[h] EXCEPT !.cost = cost, !.stamp = @ + 1]
             seen == [load |-> h, cost |-> cost, prior |-> prior, at |-> rows[h].stamp + 1]
             plan == Over(Row(h, new), Over(Row(e, seen), Row(slot, e)))
             w == request'[s].writes
  <1>1. h \in Hauls /\ rows[h] \in HaulRow /\ e \in Entries /\ rows[e] = None
    BY DEF Trucks, Unused, LedgerInv, LedgerTypes
  <1>2. /\ new \in HaulRow /\ new.stamp = rows[h].stamp + 1 /\ new.cost = cost
        /\ new # rows[h]
    <2>1. new = NextRecording(rows[h], cost)
      BY DEF NextRecording
    <2> HIDE DEF new
    <2> QED
      BY <1>1, <2>1, RecordingCounts
  <1>3. prior \in Entries \cup {None} /\ rows[h].stamp + 1 \in Nat
    BY <1>1 DEF Observed, HaulRow
  <1>4. /\ seen \in Observation /\ seen.load = h /\ seen.cost = cost
        /\ seen.prior = prior /\ seen.at = rows[h].stamp + 1
    BY <1>1, <1>3 DEF Observation
  <1>5. seen # rows[e]
    BY <1>1, <1>4, KeysDiffer
  <1> HIDE DEF new, seen
  <1>6. /\ DOMAIN plan = {h, e, slot} /\ plan[h] = new /\ plan[e] = seen
    BY <1>1, KeysDiffer DEF Row, Over
  <1>7. Begin(s, plan, {})
    BY DEF Observe, new, seen
  <1> HIDE DEF plan
  <1>8. /\ DOMAIN w \subseteq {h, e, slot}
        /\ \A k \in DOMAIN w : w[k] = plan[k]
    BY <1>6, <1>7, BeginPlans DEF LedgerInv
  <1>9. h \in DOMAIN w /\ e \in DOMAIN w
    BY <1>2, <1>5, <1>6, <1>7, ChangesAreWritten DEF LedgerInv
  <1> HIDE DEF w
  <1>10. Records(rows, w, h, e)
    BY <1>1, <1>2, <1>4, <1>6, <1>8, <1>9 DEF Records
  <1>11. LedgerPlan(rows, w)
    BY <1>1, <1>10 DEF LedgerPlan
  <1> QED
    BY <1>7, <1>11, LedgerBeginKeeps DEF w

LEMMA ObservationsAre ==
  ASSUME LedgerInv, NEW h \in Hauls
  PROVE  Observations(h) = Observed(rows, h)
  BY DEF Observations, Observed, LedgerInv, LedgerTypes, LedgerKeys

(* The newest observation is the one of the last recording.                 *)
LEMMA NewestIsLast ==
  ASSUME LedgerInv, NEW h \in Hauls, Observations(h) # {}
  PROVE  /\ Newest(h) \in Observed(rows, h) /\ rows[Newest(h)].at = rows[h].stamp
         /\ rows[h].stamp \in Nat \ {0}
  <1>1. Observations(h) = Observed(rows, h) /\ Chained(rows, h)
    BY ObservationsAre DEF LedgerInv
  <1>2. rows[h].stamp \in Nat /\ \A e \in Observed(rows, h) : rows[e].at \in Nat
    BY DEF LedgerInv, LedgerTypes, HaulRow, Observed, Observation
  <1>3. rows[h].stamp >= 1
    BY <1>1, <1>2 DEF Chained
  <1>4. PICK e \in Observed(rows, h) : rows[e].at = rows[h].stamp
    BY <1>1, <1>2, <1>3 DEF Chained
  <1>5. \A o \in Observed(rows, h) : rows[o].at <= rows[e].at
    BY <1>1, <1>4 DEF Chained
  <1>6. /\ Newest(h) \in Observed(rows, h)
        /\ \A o \in Observed(rows, h) : rows[o].at <= rows[Newest(h)].at
    BY <1>1, <1>5 DEF Newest
  <1>7. rows[Newest(h)].at = rows[h].stamp
    BY <1>1, <1>2, <1>4, <1>6 DEF Chained
  <1> QED
    BY <1>2, <1>3, <1>6, <1>7

LEMMA RecordingsKeep ==
  ASSUME LedgerInv, NEW s \in Session, RecordActual(s) \/ CorrectActual(s)
  PROVE  LedgerInv'
  <1>1. \A h \in Trucks : h \in Hauls /\ rows[h].cost \in Nat /\ rows[h].stamp \in Nat
    BY DEF Trucks, LedgerInv, LedgerTypes, HaulRow
  <1>2. ASSUME RecordActual(s) PROVE LedgerInv'
    <2>1. PICK h \in Trucks, e \in Unused :
            Observations(h) = {} /\ Observe(s, h, e, rows[h].cost, None, Initial(h))
      BY <1>2 DEF RecordActual
    <2>2. rows[h].stamp = 0
      BY <1>1, <2>1, ObservationsAre DEF LedgerInv, Chained
    <2>3. Initial(h) \in Slots
      BY <1>1 DEF Slots
    <2> QED
      BY <1>1, <2>1, <2>2, <2>3, ObserveKeeps
  <1>3. ASSUME CorrectActual(s) PROVE LedgerInv'
    <2>1. PICK h \in Trucks, e \in Unused, cost \in Costs :
            /\ Observations(h) # {}
            /\ Observe(s, h, e, cost, Newest(h), After(Newest(h)))
      BY <1>3 DEF CorrectActual
    <2>2. /\ Newest(h) \in Observed(rows, h) /\ rows[Newest(h)].at = rows[h].stamp
          /\ rows[h].stamp # 0
      BY <1>1, <2>1, NewestIsLast
    <2>3. After(Newest(h)) \in Slots
      BY <2>2 DEF Slots, Observed
    <2>4. cost \in Nat
      BY LedgerAssumption
    <2> QED
      BY <1>1, <2>1, <2>2, <2>3, <2>4, ObserveKeeps
  <1> QED
    BY <1>2, <1>3

LEMMA LedgerStepKeeps ==
  ASSUME LedgerInv, [LedgerNext]_requestVars
  PROVE  LedgerInv'
  <1>1. CASE UNCHANGED requestVars
    BY <1>1 DEF requestVars, LedgerInv
  <1>2. CASE LedgerNext
    BY <1>2, MoveAndTypeKeep, RecordingsKeep, LedgerCommitKeeps, LedgerRollbackKeeps, Zenon
    DEF LedgerNext, LedgerRequest, Served
  <1> QED
    BY <1>1, <1>2

LEMMA ChainsAreChains ==
  ASSUME LedgerInv, NEW h \in Trucks, Observations(h) # {}
  PROVE  /\ \E start \in Observations(h) : \A e \in Observations(h) :
              (rows[e].prior = None) <=> (e = start)
         /\ \A e \in Observations(h) \ {Newest(h)} :
              Cardinality({o \in Observations(h) : rows[o].prior = e}) = 1
         /\ rows[h].stamp > 0 /\ Evidence(h, None) = rows[h].cost
  <1> DEFINE O == Observations(h)
  <1>1. h \in Hauls /\ O = Observed(rows, h) /\ Chained(rows, h)
    BY ObservationsAre DEF Trucks, LedgerInv
  <1>2. /\ Newest(h) \in O /\ rows[Newest(h)].at = rows[h].stamp
        /\ rows[h].stamp \in Nat \ {0}
    BY <1>1, NewestIsLast
  <1>3. /\ \A e \in O : rows[e].at \in Nat /\ e # None
    BY <1>1, KeysDiffer DEF Observed, LedgerInv, LedgerTypes, Observation
  <1> HIDE DEF O
  <1>4. /\ \A e \in O : rows[e].at >= 1 /\ rows[e].at <= rows[h].stamp
        /\ \A n \in Nat : n >= 1 /\ n <= rows[h].stamp => \E e \in O : rows[e].at = n
        /\ \A e, o \in O : rows[e].at = rows[o].at => e = o
        /\ \A e \in O : IF rows[e].at = 1 THEN rows[e].prior = None
                        ELSE rows[e].prior \in O /\ rows[rows[e].prior].at = rows[e].at - 1
        /\ \A e \in O : rows[e].at = rows[h].stamp => rows[e].cost = rows[h].cost
    BY <1>1 DEF Chained
  <1>5. PICK start \in O : rows[start].at = 1
    BY <1>2, <1>4
  <1>6. \A e \in O : (rows[e].prior = None) <=> (e = start)
    BY <1>3, <1>4, <1>5
  <1>7. ASSUME NEW e \in O \ {Newest(h)}
        PROVE  Cardinality({o \in O : rows[o].prior = e}) = 1
    <2>1. rows[e].at + 1 <= rows[h].stamp
      BY <1>2, <1>3, <1>4
    <2>2. PICK next \in O : rows[next].at = rows[e].at + 1
      BY <1>3, <1>4, <2>1
    <2>0. rows[e].at \in Nat /\ rows[e].at >= 1
      BY <1>3, <1>4
    <2>6. rows[next].at # 1 /\ rows[next].at - 1 = rows[e].at
      BY <2>0, <2>2
    <2>7. rows[next].prior \in O /\ rows[rows[next].prior].at = rows[next].at - 1
      BY <1>4, <2>6
    <2>3. rows[next].prior = e
      BY <1>4, <2>6, <2>7
    <2>4. \A o \in O : rows[o].prior = e => o = next
      BY <1>3, <1>4, <2>2
    <2>5. {o \in O : rows[o].prior = e} = {next}
      BY <2>3, <2>4
    <2> QED
      BY <2>5, FS_Singleton
  <1>8. Evidence(h, None) = rows[h].cost
    BY <1>2, <1>4 DEF Evidence, O
  <1> QED
    BY <1>2, <1>5, <1>6, <1>7, <1>8 DEF O

(* For any loads, costs and requests open at a time, the observations of a    *)
(* load are one chain, and its end is the load's cost and what estimates     *)
(* take (FreightLedger, load.py:766).                                       *)
THEOREM OneChainPerLoad == LedgerSpec => []LedgerIsChain
  <1>1. LedgerInit => LedgerInv
    BY LedgerInitKeeps
  <1>2. LedgerInv /\ [LedgerNext]_requestVars => LedgerInv'
    BY LedgerStepKeeps
  <1>3. LedgerInv => LedgerIsChain
    BY ChainsAreChains DEF LedgerIsChain
  <1> QED
    BY <1>1, <1>2, <1>3, PTL DEF LedgerSpec

-----------------------------------------------------------------------------
(* Required documents.                                                     *)

(* A flag is raised only when its date has passed, and dates stay passed.    *)
FlagsArePast == \A i \in DOMAIN doc : doc[i].expired => doc[i].expiry < today

IsFunction(f) == f = [i \in DOMAIN f |-> f[i]]

DocInv == TypeOK /\ IsFunction(doc) /\ FlagsArePast

LEMMA TriggerTypes ==
  ASSUME DocInv, NEW docs, NEW related, Trigger(docs, related)
  PROVE  status' \in {"missing", "compliant"} /\ unseen' \in BOOLEAN
  BY DEF Trigger, Recomputed, DocInv, TypeOK

(* A document is put on file or changed.                                    *)
LEMMA PutKeeps ==
  ASSUME DocInv, NEW i \in Doc, NEW d \in Document, Put(i, d), UNCHANGED today,
         d.expired => d.expiry < today
  PROVE  /\ DOMAIN doc' \subseteq Doc /\ IsFunction(doc')
         /\ \A j \in DOMAIN doc' : doc'[j] \in Document
         /\ FlagsArePast'
  BY DEF DocInv, TypeOK, Put, FlagsArePast, IsFunction

LEMMA RewriteKeeps ==
  ASSUME DocInv, NEW i \in Doc, NEW d \in Document, Rewrite(i, d),
         d.expired => d.expiry < today
  PROVE  DocInv'
  <1>1. /\ DOMAIN doc' \subseteq Doc /\ IsFunction(doc')
        /\ \A j \in DOMAIN doc' : doc'[j] \in Document
        /\ FlagsArePast'
    BY PutKeeps DEF Rewrite
  <1>2. status' \in {"missing", "compliant"} /\ unseen' \in BOOLEAN
    BY TriggerTypes DEF Rewrite
  <1> QED
    BY <1>1, <1>2 DEF Rewrite, DocInv, TypeOK

LEMMA DaysAreNumbers ==
  /\ Day \cup {Never} \subseteq Int
  /\ \A d \in Document : d.expiry \in Int
  BY DayAssumption DEF Day, Never, Document

LEMMA FileKeeps ==
  ASSUME DocInv, NEW i \in Doc, NEW here \in BOOLEAN, NEW t \in Tag,
         NEW e \in Day \cup {Never}, File(i, here, t, e)
  PROVE  DocInv'
  <1> DEFINE d == [here |-> here, tag |-> t, active |-> TRUE, verified |-> FALSE,
                   override |-> FALSE, expiry |-> e, expired |-> Expired(e)]
  <1>1. d \in Document /\ d.expired = Expired(e) /\ d.expiry = e
    BY DEF Document, Expired
  <1>2. Rewrite(i, d)
    BY DEF File
  <1> HIDE DEF d
  <1> QED
    BY <1>1, <1>2, RewriteKeeps DEF Expired

(* The edits that leave its date alone.                                     *)
LEMMA EditKeeps ==
  ASSUME DocInv, NEW i \in Doc, i \in DOMAIN doc,
         \/ ActionVerify(i) \/ ActionOverride(i) \/ ToggleActive(i)
         \/ \E t \in Tag : Retag(i, t)
  PROVE  DocInv'
  <1>1. doc[i] \in Document
    BY DEF DocInv, TypeOK
  <1>2. ASSUME ActionVerify(i) PROVE DocInv'
    <2> DEFINE d == [doc[i] EXCEPT !.verified = TRUE]
    <2>1. d \in Document /\ d.expiry = doc[i].expiry /\ d.expired = doc[i].expired
      BY <1>1 DEF Document
    <2>2. Rewrite(i, d)
      BY <1>2 DEF ActionVerify
    <2> HIDE DEF d
    <2> QED
      BY <1>1, <2>1, <2>2, RewriteKeeps DEF DocInv, FlagsArePast
  <1>3. ASSUME ActionOverride(i) PROVE DocInv'
    <2> DEFINE d == [doc[i] EXCEPT !.override = TRUE]
    <2>1. d \in Document /\ d.expiry = doc[i].expiry /\ d.expired = doc[i].expired
      BY <1>1 DEF Document
    <2>2. Rewrite(i, d)
      BY <1>3 DEF ActionOverride
    <2> HIDE DEF d
    <2> QED
      BY <1>1, <2>1, <2>2, RewriteKeeps DEF DocInv, FlagsArePast
  <1>4. ASSUME ToggleActive(i) PROVE DocInv'
    <2> DEFINE d == [doc[i] EXCEPT !.active = ~doc[i].active]
    <2>1. d \in Document /\ d.expiry = doc[i].expiry /\ d.expired = doc[i].expired
      BY <1>1 DEF Document
    <2>2. Rewrite(i, d)
      BY <1>4 DEF ToggleActive
    <2> HIDE DEF d
    <2> QED
      BY <1>1, <2>1, <2>2, RewriteKeeps DEF DocInv, FlagsArePast
  <1>5. ASSUME NEW t \in Tag, Retag(i, t) PROVE DocInv'
    <2> DEFINE d == [doc[i] EXCEPT !.tag = t]
    <2>1. d \in Document /\ d.expiry = doc[i].expiry /\ d.expired = doc[i].expired
      BY <1>1 DEF Document
    <2>2. Rewrite(i, d)
      BY <1>5 DEF Retag
    <2> HIDE DEF d
    <2> QED
      BY <1>1, <2>1, <2>2, RewriteKeeps DEF DocInv, FlagsArePast
  <1> QED
    BY <1>2, <1>3, <1>4, <1>5

LEMMA SetExpiryKeeps ==
  ASSUME DocInv, NEW i \in Doc, NEW e \in Day \cup {Never}, SetExpiry(i, e)
  PROVE  DocInv'
  <1> DEFINE d == [doc[i] EXCEPT !.expiry = e, !.expired = Expired(e)]
  <1>1. doc[i] \in Document /\ Expired(e) \in BOOLEAN
    BY DEF DocInv, TypeOK, SetExpiry, Expired
  <1>2. d \in Document /\ d.expired = Expired(e) /\ d.expiry = e
    BY <1>1 DEF Document
  <1>3. Put(i, d) /\ Unnoticed /\ UNCHANGED <<today, audited, rule>>
    BY DEF SetExpiry
  <1> HIDE DEF d
  <1>4. /\ DOMAIN doc' \subseteq Doc /\ IsFunction(doc')
        /\ \A j \in DOMAIN doc' : doc'[j] \in Document
        /\ FlagsArePast'
    BY <1>2, <1>3, PutKeeps DEF Expired
  <1> QED
    BY <1>3, <1>4 DEF DocInv, TypeOK, Unnoticed

LEMMA MoveRecordKeeps ==
  ASSUME DocInv, NEW i \in Doc, MoveRecord(i)
  PROVE  DocInv'
  <1> DEFINE d == [doc[i] EXCEPT !.here = ~doc[i].here]
  <1>1. i \in DOMAIN doc /\ doc[i] \in Document
    BY DEF DocInv, TypeOK, MoveRecord
  <1>2. d \in Document /\ d.expired = doc[i].expired /\ d.expiry = doc[i].expiry
    BY <1>1 DEF Document
  <1>3. Put(i, d) /\ Unnoticed /\ UNCHANGED <<today, audited, rule>>
    BY DEF MoveRecord
  <1> HIDE DEF d
  <1>4. /\ DOMAIN doc' \subseteq Doc /\ IsFunction(doc')
        /\ \A j \in DOMAIN doc' : doc'[j] \in Document
        /\ FlagsArePast'
    BY <1>1, <1>2, <1>3, PutKeeps DEF DocInv, FlagsArePast
  <1> QED
    BY <1>3, <1>4 DEF DocInv, TypeOK, Unnoticed

LEMMA UnlinkKeeps ==
  ASSUME DocInv, NEW i \in Doc, Unlink(i)
  PROVE  DocInv'
  <1>1. /\ DOMAIN doc' \subseteq Doc /\ IsFunction(doc')
        /\ \A j \in DOMAIN doc' : doc'[j] \in Document
        /\ FlagsArePast'
    BY DEF Unlink, DocInv, TypeOK, FlagsArePast, IsFunction
  <1>2. status' \in {"missing", "compliant"} /\ unseen' \in BOOLEAN
    BY TriggerTypes DEF Unlink
  <1> QED
    BY <1>1, <1>2 DEF Unlink, DocInv, TypeOK

(* What the midnight cron writes.                                          *)
LEMMA MidnightKeeps ==
  ASSUME DocInv, Midnight
  PROVE  DocInv'
  <1> DEFINE M == First(Due, Batch) \cup First(Extended, Batch)
  <1>1. /\ DOMAIN doc' = DOMAIN doc /\ IsFunction(doc')
        /\ \A i \in DOMAIN doc : doc'[i] = IF i \in M THEN [doc[i] EXCEPT !.expired = Expired(doc[i].expiry)]
                                          ELSE doc[i]
    BY DEF Midnight, IsFunction
  <1> HIDE DEF M
  <1>2. ASSUME NEW i \in DOMAIN doc
        PROVE  doc'[i] \in Document /\ (doc'[i].expired => doc'[i].expiry < today)
    <2>1. doc[i] \in Document
      BY DEF DocInv, TypeOK
    <2>2. CASE i \in M
      <3> DEFINE d == [doc[i] EXCEPT !.expired = Expired(doc[i].expiry)]
      <3>0. Expired(doc[i].expiry) \in BOOLEAN
        BY DEF Expired
      <3>1. d \in Document /\ d.expiry = doc[i].expiry /\ d.expired = Expired(doc[i].expiry)
        BY <2>1, <3>0 DEF Document
      <3>2. doc'[i] = d
        BY <1>1, <2>2
      <3> HIDE DEF d
      <3> QED
        BY <3>1, <3>2 DEF Expired
    <2>3. CASE i \notin M
      BY <1>1, <2>1, <2>3 DEF DocInv, FlagsArePast
    <2> QED
      BY <2>2, <2>3
  <1>3. UNCHANGED <<today, rule, status>> /\ audited' = today /\ unseen' \in BOOLEAN
    BY DEF Midnight, Unnoticed, DocInv, TypeOK
  <1> QED
    BY <1>1, <1>2, <1>3 DEF DocInv, TypeOK, FlagsArePast

LEMMA AuditKeeps ==
  ASSUME DocInv, Audit
  PROVE  DocInv'
  <1> DEFINE D == {i \in DOMAIN doc : doc[i].verified /\ doc[i].expired /\ doc[i].active}
  <1>1. /\ DOMAIN doc' = DOMAIN doc /\ IsFunction(doc')
        /\ \A i \in DOMAIN doc : doc'[i] = IF i \in D THEN [doc[i] EXCEPT !.verified = FALSE] ELSE doc[i]
    BY DEF Audit, IsFunction
  <1> HIDE DEF D
  <1>2. ASSUME NEW i \in DOMAIN doc
        PROVE  /\ doc'[i] \in Document
               /\ doc'[i].expired = doc[i].expired /\ doc'[i].expiry = doc[i].expiry
    <2>1. doc[i] \in Document
      BY DEF DocInv, TypeOK
    <2>2. CASE i \in D
      BY <1>1, <2>1, <2>2 DEF Document
    <2>3. CASE i \notin D
      BY <1>1, <2>1, <2>3
    <2> QED
      BY <2>2, <2>3
  <1>3. UNCHANGED <<today, audited, rule>>
    BY DEF Audit
  <1>4. status' \in {"missing", "compliant"} /\ unseen' \in BOOLEAN
    BY TriggerTypes DEF Audit
  <1> QED
    BY <1>1, <1>2, <1>3, <1>4 DEF DocInv, TypeOK, FlagsArePast

LEMMA NextDayKeeps ==
  ASSUME DocInv, NextDay
  PROVE  DocInv'
  <1>1. today \in Int /\ today' = today + 1 /\ today' \in Day
    BY DayAssumption DEF NextDay, DocInv, TypeOK, Day
  <1>2. \A i \in DOMAIN doc : doc[i].expiry \in Int
    BY DaysAreNumbers DEF DocInv, TypeOK
  <1>3. FlagsArePast'
    BY <1>1, <1>2 DEF NextDay, DocInv, FlagsArePast
  <1> QED
    BY <1>1, <1>3 DEF NextDay, DocInv, TypeOK

LEMMA DocInitKeeps == Init => DocInv
  <1>1. 0 \in Day
    BY DayAssumption DEF Day
  <1>2. Init => status \in {"missing", "compliant"} /\ unseen \in BOOLEAN
    BY DEF Init
  <1>3. Init => DOMAIN doc = {} /\ IsFunction(doc)
    BY DEF Init, IsFunction
  <1> QED
    BY <1>1, <1>2, <1>3 DEF Init, DocInv, TypeOK, FlagsArePast

LEMMA DocStepKeeps ==
  ASSUME DocInv, [Next]_vars
  PROVE  DocInv'
  <1>1. CASE UNCHANGED vars
    BY <1>1 DEF vars, DocInv, TypeOK, FlagsArePast
  <1>2. ASSUME NEW t \in Tag, ToggleRule(t) PROVE DocInv'
    BY <1>2 DEF ToggleRule, Unnoticed, DocInv, TypeOK, FlagsArePast
  <1>3. \A i \in Doc, t \in Tag :
          ActionVerify(i) \/ ActionOverride(i) \/ ToggleActive(i) \/ Retag(i, t) => i \in DOMAIN doc
    BY DEF ActionVerify, ActionOverride, ToggleActive, Retag
  <1>4. \A i \in Doc :
          ActionVerify(i) \/ ActionOverride(i) \/ ToggleActive(i) => i \in DOMAIN doc
    BY DEF ActionVerify, ActionOverride, ToggleActive
  <1>5. CASE Next
    BY <1>2, <1>3, <1>4, <1>5, FileKeeps, EditKeeps, SetExpiryKeeps, MoveRecordKeeps, UnlinkKeeps,
       MidnightKeeps, AuditKeeps, NextDayKeeps, Zenon DEF Next
  <1> QED
    BY <1>1, <1>5

-----------------------------------------------------------------------------
(* No search exceeds its limit, so every document it finds is done.         *)
LEMMA FirstIsAll ==
  ASSUME NEW S, S \subseteq Doc, Cardinality(Doc) <= Batch
  PROVE  First(S, Batch) = S
  <1> SUFFICES ASSUME NEW i \in S
               PROVE  Cardinality({j \in S : j < i}) < Batch
    BY DEF First
  <1> DEFINE before == {j \in S : j < i}
  <1>1. IsFiniteSet(Doc) /\ Doc \subseteq Nat /\ Batch \in Nat
    BY DocAssumption, BatchAssumption
  <1>2. IsFiniteSet(S) /\ Cardinality(S) <= Cardinality(Doc)
    BY <1>1, FS_Subset
  <1>3. before \subseteq S /\ i \notin before
    BY <1>1
  <1>5. Cardinality(before) \in Nat /\ Cardinality(S) \in Nat /\ Cardinality(Doc) \in Nat
    BY <1>1, <1>2, <1>3, FS_Subset, FS_CardinalityType
  <1> HIDE DEF before
  <1>6. /\ Cardinality(before) <= Cardinality(S)
        /\ Cardinality(before) # Cardinality(S)
    BY <1>2, <1>3, FS_Subset
  <1>4. Cardinality(before) < Cardinality(S)
    BY <1>5, <1>6
  <1> QED
    BY <1>1, <1>2, <1>4, <1>5 DEF before

LEMMA MidnightIsExact ==
  ASSUME DocInv, Midnight, Cardinality(Doc) <= Batch, NEW i \in DOMAIN doc, doc[i].active
  PROVE  doc'[i].expired <=> doc[i].expiry < today
  <1>1. Due \subseteq Doc /\ Extended \subseteq Doc
    BY DEF Due, Extended, DocInv, TypeOK
  <1>2. First(Due, Batch) = Due /\ First(Extended, Batch) = Extended
    BY <1>1, FirstIsAll
  <1>3. doc'[i] = IF i \in Due \cup Extended
                  THEN [doc[i] EXCEPT !.expired = Expired(doc[i].expiry)] ELSE doc[i]
    BY <1>2 DEF Midnight
  <1>4. doc[i] \in Document /\ doc[i].expiry \in Int /\ today \in Int
    BY DaysAreNumbers DEF DocInv, TypeOK
  <1>5. CASE i \in Due \cup Extended
    <2>1. doc'[i].expired = Expired(doc[i].expiry)
      BY <1>3, <1>4, <1>5 DEF Document
    <2> QED
      BY <2>1 DEF Expired
  <1>6. CASE i \notin Due \cup Extended
    <2>1. doc'[i] = doc[i]
      BY <1>3, <1>6
    <2>2. ~doc[i].expired => doc[i].expiry > today
      BY <1>4, <1>6 DEF Due
    <2>3. doc[i].expired => doc[i].expiry < today
      BY DEF DocInv, FlagsArePast
    <2> QED
      BY <1>4, <2>1, <2>2, <2>3
  <1> QED
    BY <1>5, <1>6

(* After the midnight cron, every document in the list is flagged exactly,   *)
(* whatever days it missed, where its searches have room for the documents   *)
(* on file (midnight_recompute.py:35).                                      *)
THEOREM MidnightFlagsExactly ==
  ASSUME Cardinality(Doc) <= Batch
  PROVE  Spec => MidnightExact
  <1>1. Init => DocInv
    BY DocInitKeeps
  <1>2. DocInv /\ [Next]_vars => DocInv'
    BY DocStepKeeps
  <1>3. ASSUME DocInv, [Next]_vars, audited' # audited
        PROVE  Midnight
    BY <1>3 DEF Next, vars, File, Retag, SetExpiry, ActionVerify, ActionOverride, ToggleActive,
                MoveRecord, Unlink, ToggleRule, Audit, NextDay, Rewrite
  <1> DEFINE Exact == audited' # audited =>
               \A i \in DOMAIN doc : doc[i].active =>
                 (doc'[i].expired <=> doc[i].expiry < today)
  <1>4. DocInv /\ [Next]_vars => [Exact]_vars
    BY <1>3, MidnightIsExact
  <1>5. Spec => [][Exact]_vars
    BY <1>1, <1>2, <1>4, PTL DEF Spec
  <1> QED
    BY <1>5 DEF MidnightExact

(* The documents, the tags, the status and the dates keep their types.       *)
THEOREM DocumentTyping == Spec => []TypeOK
  <1>1. DocInv => TypeOK
    BY DEF DocInv
  <1> QED
    BY <1>1, DocInitKeeps, DocStepKeeps, PTL DEF Spec

-----------------------------------------------------------------------------
(* A recomputed status is the status of the documents it was given.         *)
LEMMA RecomputedFollows ==
  ASSUME Recomputed(doc'), UNCHANGED rule
  PROVE  StatusFollowsDocuments'
  <1>1. Missing(doc)' = Missing(doc')
    BY DEF Missing, Counts
  <1> QED
    BY <1>1 DEF Recomputed, StatusFollowsDocuments

(* Documents that are all on other records before and after ask for nothing. *)
Elsewhere(docs, old) ==
  \A i \in DOMAIN docs \cup DOMAIN old :
    \/ i \in DOMAIN docs /\ i \in DOMAIN old /\ docs[i] = old[i]
    \/ (i \in DOMAIN docs => ~docs[i].here) /\ (i \in DOMAIN old => ~old[i].here)

LEMMA TriggerFollows ==
  ASSUME StatusFollowsDocuments, NEW related, Trigger(doc', related), UNCHANGED rule,
         ~related => Elsewhere(doc', doc)
  PROVE  StatusFollowsDocuments'
  <1>1. CASE Recomputed(doc')
    BY <1>1, RecomputedFollows
  <1>2. CASE ~related /\ UNCHANGED <<status, unseen>>
    <2>1. Missing(doc)' = Missing(doc') /\ Missing(doc') = Missing(doc)
      BY <1>2 DEF Missing, Counts, Elsewhere
    <2> QED
      BY <1>2, <2>1 DEF StatusFollowsDocuments
  <1> QED
    BY <1>1, <1>2 DEF Trigger

LEMMA RewriteFollows ==
  ASSUME StatusFollowsDocuments, NEW i, NEW d, Rewrite(i, d),
         i \in DOMAIN doc => doc[i].here = d.here
  PROVE  StatusFollowsDocuments'
  <1>1. Trigger(doc', d.here) /\ UNCHANGED rule
    BY DEF Rewrite, Put
  <1>2. DOMAIN doc' = DOMAIN doc \cup {i} /\ doc'[i] = d /\ \A j \in DOMAIN doc : j # i => doc'[j] = doc[j]
    BY DEF Rewrite, Put
  <1>3. ~d.here => Elsewhere(doc', doc)
    BY <1>2 DEF Elsewhere
  <1> QED
    BY <1>1, <1>3, TriggerFollows

(* The edits of a document leave it on its record.                          *)
LEMMA EditFollows ==
  ASSUME DocInv, StatusFollowsDocuments, NEW i \in Doc,
         \/ ActionVerify(i) \/ ActionOverride(i) \/ ToggleActive(i)
         \/ \E t \in Tag : Retag(i, t)
  PROVE  StatusFollowsDocuments'
  <1>1. i \in DOMAIN doc /\ doc[i] \in Document
    BY DEF DocInv, TypeOK, ActionVerify, ActionOverride, ToggleActive, Retag
  <1>2. PICK d : Rewrite(i, d) /\ d.here = doc[i].here
    <2>1. CASE ActionVerify(i)
      BY <1>1, <2>1 DEF ActionVerify, Document
    <2>2. CASE ActionOverride(i)
      BY <1>1, <2>2 DEF ActionOverride, Document
    <2>3. CASE ToggleActive(i)
      BY <1>1, <2>3 DEF ToggleActive, Document
    <2>4. CASE \E t \in Tag : Retag(i, t)
      BY <1>1, <2>4 DEF Retag, Document
    <2> QED
      BY <2>1, <2>2, <2>3, <2>4
  <1> QED
    BY <1>2, RewriteFollows

LEMMA FileFollows ==
  ASSUME StatusFollowsDocuments, NEW i \in Doc, NEW here \in BOOLEAN, NEW t \in Tag,
         NEW e \in Day \cup {Never}, File(i, here, t, e)
  PROVE  StatusFollowsDocuments'
  BY RewriteFollows DEF File

LEMMA UnlinkFollows ==
  ASSUME StatusFollowsDocuments, NEW i \in Doc, Unlink(i)
  PROVE  StatusFollowsDocuments'
  <1>1. Trigger(doc', doc[i].here) /\ UNCHANGED rule
    BY DEF Unlink
  <1>2. ~doc[i].here => Elsewhere(doc', doc)
    BY DEF Unlink, Elsewhere
  <1> QED
    BY <1>1, <1>2, TriggerFollows

LEMMA AuditFollows ==
  ASSUME DocInv, StatusFollowsDocuments, Audit
  PROVE  StatusFollowsDocuments'
  <1> DEFINE D == {i \in DOMAIN doc : doc[i].verified /\ doc[i].expired /\ doc[i].active}
             related == \E i \in D : doc[i].here
  <1>1. Trigger(doc', related) /\ UNCHANGED rule
    BY DEF Audit
  <1>2. /\ DOMAIN doc' = DOMAIN doc
        /\ \A i \in DOMAIN doc : doc'[i] = IF i \in D THEN [doc[i] EXCEPT !.verified = FALSE] ELSE doc[i]
    BY DEF Audit
  <1>3. \A i \in DOMAIN doc : [doc[i] EXCEPT !.verified = FALSE].here = doc[i].here
    BY DEF DocInv, TypeOK, Document
  <1>4. ASSUME ~related PROVE Elsewhere(doc', doc)
    <2>1. \A i \in D : ~doc[i].here
      BY <1>4
    <2> HIDE DEF D
    <2> QED
      BY <1>2, <1>3, <2>1 DEF Elsewhere
  <1> HIDE DEF related
  <1> QED
    BY <1>1, <1>4, TriggerFollows

LEMMA StepFollows ==
  ASSUME DocInv, StatusFollowsDocuments, [Next]_vars
  PROVE  StatusFollowsDocuments'
  <1>1. CASE UNCHANGED <<doc, rule, status, unseen>>
    BY <1>1 DEF StatusFollowsDocuments, Missing, Counts
  <1>2. CASE Unnoticed
    BY <1>2 DEF Unnoticed, StatusFollowsDocuments
  <1>3. Midnight \/ NextDay => Unnoticed \/ UNCHANGED <<doc, rule, status, unseen>>
    BY DEF Midnight, NextDay
  <1>4. \A i \in Doc, e \in Day \cup {Never} : SetExpiry(i, e) => Unnoticed
    BY DEF SetExpiry
  <1>5. \A i \in Doc : MoveRecord(i) => Unnoticed
    BY DEF MoveRecord
  <1>6. \A t \in Tag : ToggleRule(t) => Unnoticed
    BY DEF ToggleRule
  <1>7. CASE Next
    BY <1>1, <1>2, <1>3, <1>4, <1>5, <1>6, <1>7, FileFollows, EditFollows, UnlinkFollows,
       AuditFollows, Zenon DEF Next
  <1> QED
    BY <1>1, <1>7 DEF vars

(* Whichever way a document comes, changes or goes, the status agrees with   *)
(* the documents, until one of the four changes that nothing recomputes on   *)
(* (document.py:103-109, midnight_recompute.py:35), for any documents, tags  *)
(* and rules.                                                              *)
THEOREM StatusAgreesAtOnce == Spec => []StatusFollowsDocuments
  <1>1. Init => DocInv
    BY DocInitKeeps
  <1>2. DocInv /\ [Next]_vars => DocInv'
    BY DocStepKeeps
  <1>3. Init => StatusFollowsDocuments
    BY DEF Init, StatusFollowsDocuments, Missing
  <1>4. DocInv /\ StatusFollowsDocuments /\ [Next]_vars => StatusFollowsDocuments'
    BY StepFollows
  <1> QED
    BY <1>1, <1>2, <1>3, <1>4, PTL DEF Spec

-----------------------------------------------------------------------------
(* Imports.                                                                *)

Markers == {"name", "legacy_erp", "csv_service", "wizard", "partners"} \X Nat \X Nat
Jobs ==
  [policy : Policy, commits : BOOLEAN, at : Nat, seen : SUBSET Key, seenMarks : SUBSET Markers,
   own : SUBSET Key, ownMarks : SUBSET Markers, poisoned : BOOLEAN]

LegacyMark(k) == <<"legacy_erp", k[1], k[2]>>

(* What makes a record unique: its external id among partners; the name of   *)
(* its transaction; the external id of what precedes the transactions.       *)
Protects(ps, k) ==
  IF ps = {"partners"} THEN <<"partners", k[1], k[2]>>
  ELSE IF k[1] = 0 THEN LegacyMark(k) ELSE <<"name", k[1], 0>>

(* Of the marks of a unit that the pipeline makes, all are there or none.    *)
Whole(M) == \A j, k \in Key : j[1] = k[1] /\ LegacyMark(j) \in M => LegacyMark(k) \in M

UniqueOf(job, K, M) == IF job.policy = "partners" THEN M ELSE M \cup Names(K)

HeldOf(job) ==
  IF job # NoImport /\ ~job.poisoned THEN UniqueOf(job, job.own, job.ownMarks) ELSE {}

(* An import whose records and marks fit together, and whose unique values   *)
(* are not taken.                                                          *)
FitJob(job, ps, taken) ==
  /\ job \in Jobs /\ job.policy \in ps /\ (job.policy # "legacy_erp" => job.at >= 1)
  /\ Whole(job.seenMarks) /\ Whole(job.ownMarks)
  /\ \A m \in job.ownMarks : \E k \in Key :
       m = <<job.policy, k[1], k[2]>> /\ (job.policy # "partners" => k \in job.own)
  /\ ~job.poisoned => \A k \in job.own : Protects(ps, k) \in UniqueOf(job, job.own, job.ownMarks)
  /\ HeldOf(job) \cap taken = {}

Taken == Names(Existing) \cup marks

ImportInv ==
  /\ policies \in {{"legacy_erp", "csv_service", "wizard"}, {"partners"}}
  /\ stored \in [Key -> Nat] /\ entered \subseteq Key /\ marks \subseteq Markers
  /\ Whole(marks) /\ \A k \in Key : LegacyMark(k) \in marks => stored[k] > 0
  /\ \A k \in Key : stored[k] <= 1 /\ (stored[k] > 0 => Protects(policies, k) \in Taken)
  /\ import = [w \in Importers |-> import[w]]
  /\ \A w \in Importers : import[w] = NoImport \/ FitJob(import[w], policies, Taken)
  /\ \A w, o \in Importers : w # o => HeldOf(import[w]) \cap HeldOf(import[o]) = {}

LEMMA KeysArePairs ==
  /\ \A k \in Key : k = <<k[1], k[2]>> /\ k[1] \in Nat /\ k[2] \in Nat
  /\ \A u \in Unit : Header(u) \in Key /\ Header(u)[1] = u /\ Header(u)[2] = 0 /\ u > 0
  /\ <<0, 0>> \in Key /\ \A k \in Key : k[1] = 0 => k = <<0, 0>>
  /\ \A u \in Nat : \A k \in KeysOf(u) : k \in Key /\ k[1] = u
  <1>1. LastUnit \in Nat /\ LastLine \in Nat
    BY ImportAssumption
  <1>2. \A u \in Unit : u \in Nat /\ u > 0 /\ <<u, 0>> \in Unit \X (0..LastLine)
    BY <1>1 DEF Unit
  <1>4. \A k \in Key : k = <<0, 0>> \/ k \in Unit \X (0..LastLine)
    BY DEF Key
  <1>5. ASSUME NEW k \in Key
        PROVE  /\ k = <<k[1], k[2]>> /\ k[1] \in Nat /\ k[2] \in Nat
               /\ k[1] = 0 => k = <<0, 0>>
    <2>1. CASE k = <<0, 0>>
      BY <2>1
    <2>2. CASE k \in Unit \X (0..LastLine)
      <3>1. k = <<k[1], k[2]>> /\ k[1] \in Unit /\ k[2] \in 0..LastLine
        BY <2>2
      <3> DEFINE x == k[1]
                 y == k[2]
      <3>2. x \in Unit /\ y \in 0..LastLine
        BY <3>1
      <3> HIDE DEF x, y
      <3>3. x \in Nat /\ x > 0 /\ y \in Nat
        BY <1>1, <3>2 DEF Unit
      <3> QED
        BY <3>1, <3>3 DEF x, y
    <2> QED
      BY <1>4, <2>1, <2>2
  <1>6. \A u \in Unit : Header(u) \in Key /\ Header(u)[1] = u /\ Header(u)[2] = 0 /\ u > 0
    BY <1>2 DEF Key, Header
  <1>7. <<0, 0>> \in Key
    BY DEF Key
  <1>8. \A u \in Nat : \A k \in KeysOf(u) : k \in Key /\ k[1] = u
    BY DEF KeysOf
  <1> QED
    BY <1>5, <1>6, <1>7, <1>8

LEMMA NamesAre ==
  ASSUME NEW K
  PROVE  \A x : x \in Names(K) <=>
           \E k \in K : k[1] > 0 /\ k[2] = 0 /\ x = <<"name", k[1], k[2]>>
  BY DEF Names

LEMMA NamesOfUnion ==
  ASSUME NEW K, NEW L
  PROVE  /\ Names(K \cup L) = Names(K) \cup Names(L)
         /\ K \subseteq L => Names(K) \subseteq Names(L)
         /\ Names({}) = {}
  BY NamesAre

LEMMA NamesAreNames ==
  ASSUME NEW K \in SUBSET Key
  PROVE  \A x \in Names(K) : x[1] = "name" /\ x \in Markers
  BY NamesAre, KeysArePairs DEF Markers

LEMMA NoImportIsNoJob == NoImport \notin Jobs /\ \A w : HeldOf(NoImport) = {}
  <1>1. NoImport.policy \notin Policy
    BY DEF NoImport, Policy
  <1>2. \A j \in Jobs : j.policy \in Policy
    BY DEF Jobs
  <1> QED
    BY <1>1, <1>2 DEF HeldOf

LEMMA WholeUnion ==
  ASSUME NEW M, NEW N, Whole(M), Whole(N)
  PROVE  Whole(M \cup N)
  BY DEF Whole

LEMMA WholeNothing == Whole({})
  BY DEF Whole

(* What is unique in a model of Unique.                                     *)
LEMMA UniqueIs ==
  ASSUME NEW w, NEW K, NEW M
  PROVE  Unique(w, K, M) = UniqueOf(import[w], K, M)
  BY DEF Unique, UniqueOf

LEMMA HeldIs ==
  ASSUME NEW o
  PROVE  HeldBy(o) = HeldOf(import[o])
  BY UniqueIs DEF HeldBy, HeldOf, Importing

-----------------------------------------------------------------------------
(* An import that goes on, ends or begins without a commit.                 *)
LEMMA StayKeeps ==
  ASSUME ImportInv, NEW w \in Importers, NEW job, Stay(w, job),
         job = NoImport \/ FitJob(job, policies, Taken),
         \A o \in Importers \ {w} : HeldOf(job) \cap HeldOf(import[o]) = {}
  PROVE  ImportInv'
  <1>1. UNCHANGED <<policies, stored, entered, marks>>
    BY DEF Stay
  <1>2. Taken' = Taken
    BY <1>1 DEF Taken, Existing, Names
  <1>3. /\ import' = [o \in Importers |-> import'[o]]
        /\ \A o \in Importers : import'[o] = IF o = w THEN job ELSE import[o]
    BY DEF Stay, ImportInv
  <1>4. \A o \in Importers : import'[o] = NoImport \/ FitJob(import'[o], policies, Taken)
    BY <1>3 DEF ImportInv
  <1>5. \A v, o \in Importers : v # o => HeldOf(import'[v]) \cap HeldOf(import'[o]) = {}
    BY <1>3 DEF ImportInv
  <1> QED
    BY <1>1, <1>2, <1>3, <1>4, <1>5 DEF ImportInv

LEMMA NothingHeld ==
  ASSUME NEW job, job = NoImport \/ job.poisoned \/ (job.own = {} /\ job.ownMarks = {})
  PROVE  HeldOf(job) = {}
  BY NamesOfUnion DEF HeldOf, UniqueOf

(* The records and marks of an import are committed; q is the import after.  *)
LEMMA SaveKeeps ==
  ASSUME ImportInv, NEW w \in Importers, NEW job, NEW q, Save(job),
         FitJob(job, policies, Taken),
         \A o \in Importers \ {w} : HeldOf(job) \cap HeldOf(import[o]) = {},
         import' = [import EXCEPT ![w] = q], UNCHANGED <<policies, entered>>,
         q = NoImport \/ q = Fresh(job, entered \cup {k \in Key : stored'[k] > 0}, marks')
  PROVE  ImportInv'
  <1>1. job \in Jobs /\ job # NoImport /\ job.policy \in policies
    BY NoImportIsNoJob DEF FitJob
  <1> DEFINE K == IF job.poisoned THEN {} ELSE job.own
             M == IF job.poisoned THEN {} ELSE job.ownMarks
  <1>2. /\ K \subseteq Key /\ M \subseteq Markers /\ K \subseteq job.own /\ M \subseteq job.ownMarks
        /\ Whole(M)
    BY <1>1, WholeNothing DEF FitJob, Jobs
  <1>3. HeldOf(job) = UniqueOf(job, K, M)
    <2>1. CASE job.poisoned
      <3>1. K = {} /\ M = {} /\ HeldOf(job) = {}
        BY <2>1 DEF HeldOf
      <3>2. Names({}) = {}
        BY NamesOfUnion
      <3> QED
        BY <3>1, <3>2 DEF UniqueOf
    <2>2. CASE ~job.poisoned
      BY <1>1, <2>2 DEF HeldOf
    <2> QED
      BY <2>1, <2>2
  <1>4. /\ stored' = [k \in Key |-> IF k \in K THEN stored[k] + 1 ELSE stored[k]]
        /\ marks' = marks \cup M
    BY <1>2 DEF Save, ImportInv
  <1>5. \A k \in K : Protects(policies, k) \in HeldOf(job)
    BY <1>3 DEF FitJob
  <1>6. \A m \in M : \E k \in Key :
          m = <<job.policy, k[1], k[2]>> /\ (job.policy # "partners" => k \in K)
    BY DEF FitJob
  <1> HIDE DEF K, M
  <1>7. stored' \in [Key -> Nat] /\ \A k \in Key : stored'[k] = IF k \in K THEN stored[k] + 1 ELSE stored[k]
    BY <1>4 DEF ImportInv
  <1>8. {k \in Key : stored'[k] > 0} = {k \in Key : stored[k] > 0} \cup K
    BY <1>2, <1>7 DEF ImportInv
  <1>9. Existing' = Existing \cup K
    BY <1>8 DEF Existing
  <1>10. Taken' = Taken \cup Names(K) \cup M
    <2>1. Names(Existing)' = Names(Existing')
      BY DEF Names
    <2> QED
      BY <1>4, <1>9, <2>1, NamesOfUnion DEF Taken
  <1>11. HeldOf(job) \subseteq Taken' /\ HeldOf(job) \cap Taken = {}
    BY <1>3, <1>10 DEF UniqueOf, FitJob
  <1>12. \A k \in Key : stored'[k] <= 1 /\ (stored'[k] > 0 => Protects(policies, k) \in Taken')
    <2> SUFFICES ASSUME NEW k \in Key
                 PROVE  stored'[k] <= 1 /\ (stored'[k] > 0 => Protects(policies, k) \in Taken')
      OBVIOUS
    <2>1. stored[k] \in Nat /\ stored[k] <= 1 /\ (stored[k] > 0 => Protects(policies, k) \in Taken)
      BY DEF ImportInv
    <2>2. CASE k \in K
      <3>1. Protects(policies, k) \in Taken' /\ Protects(policies, k) \notin Taken
        BY <1>5, <1>11, <2>2
      <3>2. stored[k] = 0
        BY <2>1, <3>1
      <3> QED
        BY <1>7, <2>2, <3>1, <3>2
    <2>3. CASE k \notin K
      BY <1>7, <1>10, <2>1, <2>3
    <2> QED
      BY <2>2, <2>3
  <1>13. Whole(marks') /\ marks' \subseteq Markers
    BY <1>2, <1>4, WholeUnion DEF ImportInv
  <1>14. \A k \in Key : LegacyMark(k) \in marks' => stored'[k] > 0
    <2> SUFFICES ASSUME NEW k \in Key, LegacyMark(k) \in marks'
                 PROVE  stored'[k] > 0
      OBVIOUS
    <2>1. stored[k] \in Nat
      BY DEF ImportInv
    <2>2. CASE LegacyMark(k) \in marks
      BY <1>7, <2>1, <2>2 DEF ImportInv
    <2>3. CASE LegacyMark(k) \in M
      <3>1. PICK j \in Key : LegacyMark(k) = <<job.policy, j[1], j[2]>> /\ (job.policy # "partners" => j \in K)
        BY <1>6, <2>3
      <3>2. job.policy = "legacy_erp" /\ j[1] = k[1] /\ j[2] = k[2]
        BY <3>1 DEF LegacyMark
      <3>3. j = k
        BY <3>2, KeysArePairs
      <3> QED
        BY <1>7, <2>1, <3>1, <3>2, <3>3
    <2> QED
      BY <1>4, <2>2, <2>3
  <1>15. ASSUME NEW o \in Importers \ {w}, import[o] # NoImport
         PROVE  FitJob(import[o], policies, Taken')
    <2>1. FitJob(import[o], policies, Taken)
      BY <1>15 DEF ImportInv
    <2>2. HeldOf(import[o]) \cap Taken = {} /\ HeldOf(import[o]) \cap HeldOf(job) = {}
      BY <2>1 DEF FitJob
    <2>3. CASE job.policy # "partners"
      <3>1. Taken' = Taken \cup HeldOf(job)
        BY <1>3, <1>10, <2>3 DEF UniqueOf
      <3> QED
        BY <2>1, <2>2, <3>1 DEF FitJob
    <2>4. CASE job.policy = "partners"
      <3>1. import[o].policy = "partners"
        BY <1>1, <2>1, <2>4 DEF FitJob, ImportInv
      <3>2. HeldOf(import[o]) \subseteq import[o].ownMarks
        BY <3>1 DEF HeldOf, UniqueOf
      <3>3. \A x \in import[o].ownMarks : x[1] = "partners"
        BY <2>1, <3>1 DEF FitJob
      <3>4. \A x \in Names(K) : x[1] = "name"
        BY <1>2, NamesAreNames
      <3>5. HeldOf(import[o]) \cap Names(K) = {}
        BY <3>2, <3>3, <3>4
      <3>6. HeldOf(job) = M
        BY <1>3, <2>4 DEF UniqueOf
      <3> QED
        BY <1>10, <2>1, <2>2, <3>5, <3>6 DEF FitJob
    <2> QED
      BY <2>3, <2>4
  <1>16. q = NoImport \/ FitJob(q, policies, Taken')
    <2> SUFFICES ASSUME q # NoImport PROVE FitJob(q, policies, Taken')
      OBVIOUS
    <2>1. q = Fresh(job, Existing', marks')
      BY DEF Existing
    <2>2. /\ q \in Jobs /\ q.policy = job.policy /\ q.seenMarks = marks' /\ q.at = job.at
          /\ q.own = {} /\ q.ownMarks = {}
      BY <1>1, <1>2, <1>9, <1>13, <2>1 DEF Fresh, Jobs, Existing, ImportInv
    <2>3. HeldOf(q) = {}
      BY <2>2, NothingHeld
    <2> QED
      BY <1>1, <1>13, <2>2, <2>3, WholeNothing DEF FitJob
  <1>17. /\ import' = [o \in Importers |-> import'[o]]
         /\ \A o \in Importers : import'[o] = IF o = w THEN q ELSE import[o]
    BY DEF ImportInv
  <1>18. HeldOf(q) = {}
    <2>1. CASE q = NoImport
      BY <2>1, NothingHeld
    <2>2. CASE q # NoImport
      <3>1. q.own = {} /\ q.ownMarks = {}
        BY <1>1, <2>2 DEF Fresh, Jobs
      <3> QED
        BY <3>1, NothingHeld
    <2> QED
      BY <2>1, <2>2
  <1>19. \A o \in Importers : import'[o] = NoImport \/ FitJob(import'[o], policies, Taken')
    BY <1>15, <1>16, <1>17
  <1>20. \A v, o \in Importers : v # o => HeldOf(import'[v]) \cap HeldOf(import'[o]) = {}
    BY <1>17, <1>18 DEF ImportInv
  <1> QED
    BY <1>7, <1>12, <1>13, <1>14, <1>17, <1>19, <1>20 DEF ImportInv

-----------------------------------------------------------------------------
(* What an import adds fits to what it has, when it neither clashes nor      *)
(* waits.                                                                  *)
Fits(w, K, M) ==
  /\ K \subseteq Key /\ M \subseteq Markers /\ Whole(M)
  /\ \A m \in M : \E k \in Key :
       m = <<import[w].policy, k[1], k[2]>>
         /\ (import[w].policy # "partners" => k \in K \cup import[w].own)
  /\ \A k \in K : Protects(policies, k) \in UniqueOf(import[w], K, M)
  /\ UniqueOf(import[w], K, M) \cap Taken = {}
  /\ \A o \in Importers \ {w} : UniqueOf(import[w], K, M) \cap HeldOf(import[o]) = {}

LEMMA AddedFits ==
  ASSUME ImportInv, NEW w \in Importers, import[w] # NoImport, NEW K, NEW M, Fits(w, K, M)
  PROVE  /\ FitJob(Added(w, K, M), policies, Taken)
         /\ \A o \in Importers \ {w} : HeldOf(Added(w, K, M)) \cap HeldOf(import[o]) = {}
  <1> DEFINE old == import[w]
             new == Added(w, K, M)
  <1>1. FitJob(old, policies, Taken)
    BY DEF ImportInv
  <1>2. old \in Jobs
    BY <1>1 DEF FitJob
  <1>a. /\ old.own \cup K \subseteq Key /\ old.ownMarks \cup M \subseteq Markers
        /\ old.at \in Nat /\ old.at + 1 \in Nat
    BY <1>2 DEF Fits, Jobs
  <1>b. new = [old EXCEPT !.own = @ \cup K, !.ownMarks = @ \cup M, !.at = @ + 1]
    BY DEF Added
  <1>c. DOMAIN old = {"policy", "commits", "at", "seen", "seenMarks", "own", "ownMarks", "poisoned"}
    BY <1>2 DEF Jobs
  <1>3. /\ new.policy = old.policy /\ new.seenMarks = old.seenMarks
        /\ new.own = old.own \cup K /\ new.ownMarks = old.ownMarks \cup M
        /\ new.poisoned = old.poisoned /\ new.at = old.at + 1
    BY <1>b, <1>c
  <1>d. new \in Jobs
    BY <1>2, <1>a, <1>b DEF Jobs
  <1> HIDE DEF old, new
  <1>4. UniqueOf(new, new.own, new.ownMarks)
          = UniqueOf(old, old.own, old.ownMarks) \cup UniqueOf(old, K, M)
    BY <1>3, NamesOfUnion DEF UniqueOf
  <1>5. Whole(new.ownMarks)
    BY <1>1, <1>3, WholeUnion DEF FitJob, Fits
  <1>6. \A m \in new.ownMarks : \E k \in Key :
          m = <<new.policy, k[1], k[2]>> /\ (new.policy # "partners" => k \in new.own)
    BY <1>1, <1>3 DEF FitJob, Fits, old
  <1>7. ~new.poisoned => \A k \in new.own : Protects(policies, k) \in UniqueOf(new, new.own, new.ownMarks)
    BY <1>1, <1>3, <1>4 DEF FitJob, Fits, old
  <1>8. HeldOf(new) \subseteq HeldOf(old) \cup UniqueOf(old, K, M)
    BY <1>3, <1>4 DEF HeldOf, old
  <1>9. HeldOf(new) \cap Taken = {}
    BY <1>1, <1>8 DEF FitJob, Fits, old
  <1>10. \A o \in Importers \ {w} : HeldOf(new) \cap HeldOf(import[o]) = {}
    BY <1>8 DEF ImportInv, Fits, old
  <1> QED
    <2>1. new.policy # "legacy_erp" => new.at >= 1
      BY <1>1, <1>a, <1>3 DEF FitJob
    <2>2. new.policy \in policies /\ Whole(new.seenMarks)
      BY <1>1, <1>3 DEF FitJob
    <2>3. FitJob(new, policies, Taken)
      BY <1>d, <1>5, <1>6, <1>7, <1>9, <2>1, <2>2 DEF FitJob
    <2> QED
      BY <1>10, <2>3 DEF new

LEMMA NothingFits ==
  ASSUME ImportInv, NEW w \in Importers
  PROVE  Fits(w, {}, {})
  BY WholeNothing, NamesOfUnion DEF Fits, UniqueOf

(* What neither clashes nor waits is unique.                                *)
LEMMA ClearToWrite ==
  ASSUME ImportInv, NEW w \in Importers, NEW K, NEW M, ~Clash(w, K, M), ~Waits(w, K, M)
  PROVE  /\ UniqueOf(import[w], K, M) \cap Taken = {}
         /\ \A o \in Importers \ {w} : UniqueOf(import[w], K, M) \cap HeldOf(import[o]) = {}
  BY UniqueIs, HeldIs DEF Clash, Waits, Taken

(* A batch goes on, or is committed.                                       *)
LEMMA AdvanceKeeps ==
  ASSUME ImportInv, NEW w \in Importers, import[w] # NoImport, NEW K, NEW M, Fits(w, K, M),
         Stay(w, Added(w, K, M)) \/ CommitImport(w, Added(w, K, M))
  PROVE  ImportInv'
  <1> DEFINE job == Added(w, K, M)
  <1>1. /\ FitJob(job, policies, Taken)
        /\ \A o \in Importers \ {w} : HeldOf(job) \cap HeldOf(import[o]) = {}
    BY AddedFits
  <1> HIDE DEF job
  <1>2. CASE Stay(w, job)
    BY <1>1, <1>2, StayKeeps
  <1>3. CASE CommitImport(w, job)
    <2> DEFINE q == Fresh(job, entered \cup {k \in Key : stored'[k] > 0}, marks')
    <2>1. Save(job) /\ import' = [import EXCEPT ![w] = q] /\ UNCHANGED <<policies, entered>>
      BY <1>3 DEF CommitImport
    <2> HIDE DEF q
    <2> QED
      BY <1>1, <2>1, SaveKeeps DEF q
  <1> QED
    BY <1>2, <1>3 DEF job

(* The import ends without a commit.                                       *)
LEMMA GiveUpKeeps ==
  ASSUME ImportInv, NEW w \in Importers, Stay(w, NoImport)
  PROVE  ImportInv'
  <1>1. HeldOf(NoImport) = {}
    BY NothingHeld
  <1> QED
    BY <1>1, StayKeeps

LEMMA StartKeeps ==
  ASSUME ImportInv, NEW w \in Importers, StartImport(w)
  PROVE  ImportInv'
  <1>1. PICK policy \in policies, commits \in BOOLEAN :
          import' = [import EXCEPT ![w] =
            [policy |-> policy, commits |-> commits,
             at |-> IF policy = "legacy_erp" THEN 0 ELSE 1,
             seen |-> Existing, seenMarks |-> marks, own |-> {}, ownMarks |-> {},
             poisoned |-> FALSE]]
    BY DEF StartImport
  <1> DEFINE job == [policy |-> policy, commits |-> commits,
                     at |-> IF policy = "legacy_erp" THEN 0 ELSE 1,
                     seen |-> Existing, seenMarks |-> marks, own |-> {}, ownMarks |-> {},
                     poisoned |-> FALSE]
  <1>2. policy \in Policy
    BY DEF ImportInv, Policy
  <1>3. /\ job \in Jobs /\ job.policy = policy /\ job.seenMarks = marks
        /\ job.own = {} /\ job.ownMarks = {} /\ (policy # "legacy_erp" => job.at = 1)
    BY <1>2 DEF Jobs, ImportInv, Existing
  <1>4. UNCHANGED <<policies, stored, entered, marks>> /\ import' = [import EXCEPT ![w] = job]
    BY <1>1 DEF StartImport
  <1> HIDE DEF job
  <1>5. HeldOf(job) = {}
    BY <1>3, NothingHeld
  <1>6. FitJob(job, policies, Taken)
    BY <1>3, <1>5, WholeNothing DEF FitJob, ImportInv
  <1>7. Taken' = Taken
    BY <1>4 DEF Taken, Existing, Names
  <1>8. /\ import' = [o \in Importers |-> import'[o]]
        /\ \A o \in Importers : import'[o] = IF o = w THEN job ELSE import[o]
    BY <1>4 DEF ImportInv
  <1>9. \A o \in Importers : import'[o] = NoImport \/ FitJob(import'[o], policies, Taken)
    BY <1>6, <1>8 DEF ImportInv
  <1>10. \A v, o \in Importers : v # o => HeldOf(import'[v]) \cap HeldOf(import'[o]) = {}
    BY <1>5, <1>8 DEF ImportInv
  <1> QED
    BY <1>4, <1>7, <1>8, <1>9, <1>10 DEF ImportInv

-----------------------------------------------------------------------------
(* The legacy pipeline: of a unit it finds all marks or none, so it writes   *)
(* the whole unit or nothing.                                              *)
LEMMA UnitIsWhole ==
  ASSUME ImportInv, NEW w \in Importers, import[w] # NoImport,
         import[w].policy = "legacy_erp", NEW u \in Nat
  PROVE  Unmarked(w, u) = KeysOf(u) \/ Unmarked(w, u) = {}
  <1> DEFINE M == import[w].seenMarks \cup import[w].ownMarks
  <1>1. Whole(M)
    BY WholeUnion DEF ImportInv, FitJob
  <1>2. \A k \in KeysOf(u) : HasMark(w, k) <=> LegacyMark(k) \in M
    BY DEF HasMark, LegacyMark
  <1> HIDE DEF M
  <1>3. \A j, k \in KeysOf(u) : HasMark(w, j) => HasMark(w, k)
    BY <1>1, <1>2, KeysArePairs DEF Whole
  <1> QED
    BY <1>3 DEF Unmarked

LEMMA PolicyIsKnown ==
  ASSUME ImportInv, NEW w \in Importers, import[w] # NoImport
  PROVE  /\ import[w] \in Jobs /\ import[w].policy \in policies /\ import[w].at \in Nat
         /\ import[w].policy = "partners" <=> policies = {"partners"}
         /\ ~import[w].policy = "partners" => policies = {"legacy_erp", "csv_service", "wizard"}
  BY DEF ImportInv, FitJob, Jobs

LEMMA RunningIsImport ==
  ASSUME ImportInv, NEW w \in Importers, NEW p \in Policy, At(w, p)
  PROVE  import[w] # NoImport /\ import[w].at <= LastUnit /\ import[w].policy = p
  BY DEF At, NoImport, Policy

LEMMA LegacyFits ==
  ASSUME ImportInv, NEW w \in Importers, import[w] # NoImport,
         import[w].policy = "legacy_erp", NEW u \in Nat, u <= LastUnit,
         ~Clash(w, Unmarked(w, u), Marked(w, Unmarked(w, u))),
         ~Waits(w, Unmarked(w, u), Marked(w, Unmarked(w, u)))
  PROVE  Fits(w, Unmarked(w, u), Marked(w, Unmarked(w, u)))
  <1> DEFINE K == Unmarked(w, u)
             M == Marked(w, K)
  <1>1. CASE K = {}
    <2>1. M = {}
      BY <1>1 DEF Marked
    <2> QED
      BY <1>1, <2>1, NothingFits
  <1>2. CASE K = KeysOf(u)
    <2>1. /\ UniqueOf(import[w], K, M) \cap Taken = {}
          /\ \A o \in Importers \ {w} : UniqueOf(import[w], K, M) \cap HeldOf(import[o]) = {}
      BY ClearToWrite
    <2>2. \A m : m \in M <=> \E k \in K : m = LegacyMark(k)
      BY DEF Marked, LegacyMark
    <2> HIDE DEF M
    <2>3. K \subseteq Key /\ \A k \in K : k[1] = u
      BY <1>2, KeysArePairs
    <2>4. \A k \in Key : k[1] = u => k \in K
      BY <1>2 DEF KeysOf
    <2> HIDE DEF K
    <2>5. M \subseteq Markers
      BY <2>2, <2>3, KeysArePairs DEF LegacyMark, Markers
    <2>6. \A k \in Key : LegacyMark(k) \in M => k \in K
      <3> SUFFICES ASSUME NEW k \in Key, LegacyMark(k) \in M PROVE k \in K
        OBVIOUS
      <3>1. PICK j \in K : LegacyMark(k) = LegacyMark(j)
        BY <2>2
      <3>2. j[1] = k[1] /\ j[2] = k[2]
        BY <3>1 DEF LegacyMark
      <3> QED
        BY <2>3, <3>2, <2>4
    <2>7. Whole(M)
      BY <2>2, <2>3, <2>4, <2>6 DEF Whole
    <2>8. \A m \in M : \E k \in Key : m = <<import[w].policy, k[1], k[2]>> /\ k \in K \cup import[w].own
      BY <2>2, <2>3 DEF LegacyMark
    <2>9. policies # {"partners"}
      BY PolicyIsKnown
    <2>10. ASSUME NEW k \in K PROVE Protects(policies, k) \in UniqueOf(import[w], K, M)
      <3>1. CASE u = 0
        BY <2>2, <2>3, <2>9, <3>1 DEF Protects, UniqueOf
      <3>2. CASE u # 0
        <4>1. u \in Unit
          BY <3>2 DEF Unit
        <4>2. Header(u) \in K /\ Header(u)[1] = u /\ Header(u)[2] = 0 /\ u > 0
          BY <4>1, <2>4, KeysArePairs
        <4>3. <<"name", u, 0>> \in Names(K)
          BY <4>2, NamesAre
        <4> QED
          BY <2>3, <2>9, <3>2, <4>3 DEF Protects, UniqueOf
      <3> QED
        BY <3>1, <3>2
    <2> QED
      BY <2>1, <2>3, <2>5, <2>7, <2>8, <2>10 DEF Fits, K, M
  <1> QED
    BY <1>1, <1>2, UnitIsWhole

LEMMA LegacyKeeps ==
  ASSUME ImportInv, NEW w \in Importers, ImportPartiesFirst(w) \/ ImportOneTransaction(w)
  PROVE  ImportInv'
  <1>1. /\ import[w] # NoImport /\ import[w].policy = "legacy_erp"
        /\ import[w].at <= LastUnit /\ import[w].at \in Nat
    <2>1. At(w, "legacy_erp") /\ "legacy_erp" \in Policy
      BY DEF ImportPartiesFirst, ImportOneTransaction, Policy
    <2> QED
      BY <2>1, RunningIsImport, PolicyIsKnown
  <1> DEFINE K == Unmarked(w, import[w].at)
             M == Marked(w, K)
  <1>2. ASSUME ~Waits(w, K, M), ~Clash(w, K, M), Stay(w, Added(w, K, M)) \/ CommitImport(w, Added(w, K, M))
        PROVE  ImportInv'
    BY <1>1, <1>2, LegacyFits, AdvanceKeeps
  <1>3. ASSUME NEW n \in 0..LastLine, NEW kept, kept = Kept(w, {k \in K : k[2] < n}),
               Stay(w, Added(w, kept, Marked(w, kept)))
        PROVE  ImportInv'
    <2>1. kept = {} /\ Marked(w, kept) = {}
      BY <1>3 DEF Kept, Marked
    <2> QED
      BY <1>1, <1>3, <2>1, NothingFits, AdvanceKeeps
  <1>4. CASE ImportPartiesFirst(w)
    <2>1. ~Waits(w, K, M)
      BY <1>4 DEF ImportPartiesFirst
    <2>2. (~Clash(w, K, M) /\ Stay(w, Added(w, K, M))) \/ Stay(w, NoImport)
      BY <1>4 DEF ImportPartiesFirst
    <2> QED
      BY <1>2, <2>1, <2>2, GiveUpKeeps
  <1>5. CASE ImportOneTransaction(w)
    <2>1. ~Waits(w, K, M)
      BY <1>5 DEF ImportOneTransaction
    <2>2. \/ /\ ~Clash(w, K, M)
             /\ Stay(w, Added(w, K, M)) \/ CommitImport(w, Added(w, K, M))
          \/ \E n \in 0..LastLine : LET kept == Kept(w, {k \in K : k[2] < n}) IN
               Stay(w, Added(w, kept, Marked(w, kept)))
      BY <1>5 DEF ImportOneTransaction
    <2> HIDE DEF K, M
    <2>3. CASE \E n \in 0..LastLine : LET kept == Kept(w, {k \in K : k[2] < n}) IN
                 Stay(w, Added(w, kept, Marked(w, kept)))
      BY <1>3, <2>3
    <2> QED
      BY <1>2, <2>1, <2>2, <2>3
  <1> QED
    BY <1>4, <1>5

-----------------------------------------------------------------------------
(* The older service and the wizard: a line never goes without its header.  *)
LEMMA TradeUnitFits ==
  ASSUME ImportInv, NEW w \in Importers, import[w] # NoImport,
         import[w].policy \in {"csv_service", "wizard"}, NEW u \in Unit, NEW n,
         NEW K, K = KeysOf(u) \/ K = {k \in KeysOf(u) : k[2] < n} \/ K = {},
         n \in Nat,
         ~Clash(w, K, Ids(w, K)),
         \A o \in Importers \ {w} : UniqueOf(import[w], K, Ids(w, K)) \cap HeldOf(import[o]) = {}
  PROVE  Fits(w, K, Ids(w, K))
  <1> DEFINE M == Ids(w, K)
  <1>1. UniqueOf(import[w], K, M) \cap Taken = {}
    BY UniqueIs DEF Clash, Taken
  <1>2. \A m \in M : \E k \in K : m = <<import[w].policy, k[1], k[2]>>
    BY DEF Ids, Marked
  <1> HIDE DEF M
  <1>3. u \in Nat /\ u > 0
    BY ImportAssumption DEF Unit
  <1>4. K \subseteq Key /\ \A k \in K : k[1] = u
    BY <1>3, KeysArePairs
  <1>5. \A k \in K : Header(u) \in K
    <2>1. Header(u) \in KeysOf(u) /\ Header(u)[2] = 0
      BY KeysArePairs DEF KeysOf
    <2>2. \A k \in K : k[2] < n => 0 < n
      BY <1>4, KeysArePairs
    <2> QED
      BY <2>1, <2>2
  <1>6. M \subseteq Markers
    BY <1>2, <1>4, KeysArePairs DEF Markers
  <1>7. Whole(M)
    BY <1>2 DEF Whole, LegacyMark
  <1>8. policies # {"partners"} /\ import[w].policy # "partners"
    BY PolicyIsKnown
  <1>9. ASSUME NEW k \in K PROVE Protects(policies, k) \in UniqueOf(import[w], K, M)
    <2>1. Header(u) \in K /\ Header(u)[1] = u /\ Header(u)[2] = 0
      BY <1>5, KeysArePairs
    <2>2. <<"name", u, 0>> \in Names(K)
      BY <1>3, <2>1, NamesAre
    <2> QED
      BY <1>3, <1>4, <1>8, <2>2 DEF Protects, UniqueOf
  <1> QED
    BY <1>1, <1>2, <1>4, <1>6, <1>7, <1>9 DEF Fits, M

LEMMA AbortedKeeps ==
  ASSUME ImportInv, NEW w \in Importers, import[w] # NoImport,
         Stay(w, [Added(w, {}, {}) EXCEPT !.poisoned = TRUE])
  PROVE  ImportInv'
  <1> DEFINE job == Added(w, {}, {})
             q == [job EXCEPT !.poisoned = TRUE]
  <1>1. FitJob(job, policies, Taken)
    BY NothingFits, AddedFits
  <1> HIDE DEF job
  <1>2. /\ q \in Jobs /\ q.policy = job.policy /\ q.seenMarks = job.seenMarks /\ q.at = job.at
        /\ q.own = job.own /\ q.ownMarks = job.ownMarks /\ q.poisoned
    BY <1>1 DEF FitJob, Jobs
  <1>3. HeldOf(q) = {}
    BY <1>2, NothingHeld
  <1>4. Stay(w, q)
    BY DEF job
  <1> HIDE DEF q
  <1>5. FitJob(q, policies, Taken)
    BY <1>1, <1>2, <1>3 DEF FitJob
  <1> QED
    BY <1>3, <1>4, <1>5, StayKeeps

LEMMA FewerIds ==
  ASSUME NEW w, NEW K, NEW L, K \subseteq L
  PROVE  UniqueOf(import[w], K, Ids(w, K)) \subseteq UniqueOf(import[w], L, Ids(w, L))
  <1>1. Ids(w, K) \subseteq Ids(w, L)
    BY DEF Ids, Marked
  <1>2. Names(K) \subseteq Names(L)
    BY NamesOfUnion
  <1> QED
    BY <1>1, <1>2 DEF UniqueOf

LEMMA TradeUnitKeeps ==
  ASSUME ImportInv, NEW w \in Importers, CsvUnit(w) \/ WizardUnit(w)
  PROVE  ImportInv'
  <1>1. /\ import[w] # NoImport /\ import[w].policy \in {"csv_service", "wizard"}
        /\ import[w].at <= LastUnit /\ import[w].at \in Nat
    <2>1. (At(w, "csv_service") \/ At(w, "wizard")) /\ {"csv_service", "wizard"} \subseteq Policy
      BY DEF CsvUnit, WizardUnit, Policy
    <2> QED
      BY <2>1, RunningIsImport, PolicyIsKnown
  <1>2. import[w].at \in Unit
    BY <1>1, ImportAssumption DEF Unit, ImportInv, FitJob
  <1> DEFINE L == KeysOf(import[w].at)
  <1>3. ASSUME ~Skips(w, import[w].at), ~Waits(w, L, Ids(w, L)), NEW n \in Nat, NEW K,
               K = L \/ K = {k \in L : k[2] < n},
               ~Clash(w, K, Ids(w, K))
        PROVE  Fits(w, K, Ids(w, K))
    <2>1. UniqueOf(import[w], K, Ids(w, K)) \subseteq UniqueOf(import[w], L, Ids(w, L))
      BY <1>3, FewerIds
    <2>2. \A o \in Importers \ {w} : UniqueOf(import[w], K, Ids(w, K)) \cap HeldOf(import[o]) = {}
      BY <1>3, <2>1, UniqueIs, HeldIs DEF Waits
    <2> QED
      BY <1>1, <1>2, <1>3, <2>2, TradeUnitFits
  <1>4. ASSUME UnitFails(w) PROVE ImportInv'
    <2>1. \/ Stay(w, [Added(w, {}, {}) EXCEPT !.poisoned = TRUE])
          \/ /\ ~Skips(w, import[w].at) /\ ~Waits(w, L, Ids(w, L))
             /\ \E n \in 0..LastLine : LET kept == {k \in L : k[2] < n} IN
                  ~Clash(w, kept, Ids(w, kept)) /\ Stay(w, Added(w, kept, Ids(w, kept)))
      BY <1>4 DEF UnitFails
    <2>2. CASE Stay(w, [Added(w, {}, {}) EXCEPT !.poisoned = TRUE])
      BY <1>1, <2>2, AbortedKeeps
    <2>3. ASSUME ~Skips(w, import[w].at), ~Waits(w, L, Ids(w, L)), NEW n \in 0..LastLine,
                 NEW kept, kept = {k \in L : k[2] < n},
                 ~Clash(w, kept, Ids(w, kept)), Stay(w, Added(w, kept, Ids(w, kept)))
          PROVE  ImportInv'
      <3>1. n \in Nat
        BY ImportAssumption
      <3>2. Fits(w, kept, Ids(w, kept))
        BY <1>3, <2>3, <3>1
      <3> QED
        BY <1>1, <2>3, <3>2, AdvanceKeeps
    <2> QED
      BY <2>1, <2>2, <2>3
  <1>5. ASSUME UnitPasses(w), Stay(w, Passed(w)) \/ CommitImport(w, Passed(w))
        PROVE  ImportInv'
    <2> DEFINE K == IF Skips(w, import[w].at) THEN {} ELSE L
    <2>1. Passed(w) = Added(w, K, Ids(w, K))
      BY DEF Passed
    <2>2. Fits(w, K, Ids(w, K))
      <3>1. CASE Skips(w, import[w].at)
        <4>1. K = {} /\ Ids(w, {}) = {}
          BY <3>1 DEF Ids, Marked
        <4> QED
          BY <4>1, NothingFits
      <3>2. CASE ~Skips(w, import[w].at)
        BY <1>3, <1>5, <3>2 DEF UnitPasses
      <3> QED
        BY <3>1, <3>2
    <2> HIDE DEF K
    <2> QED
      BY <1>1, <1>5, <2>1, <2>2, AdvanceKeeps
  <1> QED
    BY <1>4, <1>5 DEF CsvUnit, WizardUnit

-----------------------------------------------------------------------------
(* Partners: what is found is not created again, and everything is marked.   *)
LEMMA PartnerFits ==
  ASSUME ImportInv, NEW w \in Importers, import[w] # NoImport,
         import[w].policy = "partners", NEW u \in Nat,
         ~Clash(w, {}, Marked(w, Unmarked(w, u))), ~Waits(w, {}, Marked(w, Unmarked(w, u)))
  PROVE  Fits(w, New(w, Unmarked(w, u)), Marked(w, Unmarked(w, u)))
  <1> DEFINE K == New(w, Unmarked(w, u))
             M == Marked(w, Unmarked(w, u))
  <1>1. UniqueOf(import[w], K, M) = M /\ UniqueOf(import[w], {}, M) = M
    BY DEF UniqueOf
  <1>2. M \cap Taken = {} /\ \A o \in Importers \ {w} : M \cap HeldOf(import[o]) = {}
    BY <1>1, ClearToWrite
  <1>3. Unmarked(w, u) \subseteq Key /\ K \subseteq Unmarked(w, u)
    BY KeysArePairs DEF Unmarked, New
  <1>4. \A m : m \in M <=> \E k \in Unmarked(w, u) : m = <<"partners", k[1], k[2]>>
    BY DEF Marked
  <1>5. policies = {"partners"}
    BY PolicyIsKnown
  <1> HIDE DEF K, M
  <1>6. M \subseteq Markers
    BY <1>3, <1>4, KeysArePairs DEF Markers
  <1>7. Whole(M)
    BY <1>4 DEF Whole, LegacyMark
  <1>8. \A k \in K : Protects(policies, k) \in M
    BY <1>3, <1>4, <1>5 DEF Protects
  <1>9. \A m \in M : \E k \in Key : m = <<import[w].policy, k[1], k[2]>>
    BY <1>3, <1>4
  <1> QED
    BY <1>1, <1>2, <1>3, <1>6, <1>7, <1>8, <1>9 DEF Fits, K, M

LEMMA PartnerKeeps ==
  ASSUME ImportInv, NEW w \in Importers, PartnerRow(w)
  PROVE  ImportInv'
  <1>1. /\ import[w] # NoImport /\ import[w].policy = "partners" /\ import[w].at \in Nat
    <2>1. At(w, "partners") /\ "partners" \in Policy
      BY DEF PartnerRow, Policy
    <2> QED
      BY <2>1, RunningIsImport, PolicyIsKnown
  <1> DEFINE M == Marked(w, Unmarked(w, import[w].at))
             K == New(w, Unmarked(w, import[w].at))
  <1>2. ~Waits(w, {}, M)
    BY DEF PartnerRow
  <1>3. \/ ~Clash(w, {}, M) /\ (Stay(w, Added(w, K, M)) \/ CommitImport(w, Added(w, K, M)))
        \/ Stay(w, NoImport)
    BY DEF PartnerRow
  <1> QED
    BY <1>1, <1>2, <1>3, PartnerFits, AdvanceKeeps, GiveUpKeeps

-----------------------------------------------------------------------------
LEMMA FinishImportKeeps ==
  ASSUME ImportInv, NEW w \in Importers, FinishImport(w)
  PROVE  ImportInv'
  <1>1. FitJob(import[w], policies, Taken)
    BY DEF FinishImport, Importing, ImportInv
  <1>2. \A o \in Importers \ {w} : HeldOf(import[w]) \cap HeldOf(import[o]) = {}
    BY DEF ImportInv
  <1>3. Save(import[w]) /\ import' = [import EXCEPT ![w] = NoImport] /\ UNCHANGED <<policies, entered>>
    BY DEF FinishImport
  <1> QED
    BY <1>1, <1>2, <1>3, SaveKeeps

LEMMA EnterKeeps ==
  ASSUME ImportInv, EnterByHand
  PROVE  ImportInv'
  <1>1. PICK u \in Unit : /\ \A w \in Importers : Names({Header(u)}) \cap HeldBy(w) = {}
                          /\ entered' = entered \cup {Header(u)}
    BY DEF EnterByHand
  <1>2. UNCHANGED <<policies, stored, marks, import>>
    BY DEF EnterByHand
  <1>3. entered' \subseteq Key
    BY <1>1, KeysArePairs DEF ImportInv
  <1>4. Taken' = Taken \cup Names({Header(u)})
    <2>1. Existing' = Existing \cup {Header(u)}
      BY <1>1, <1>2 DEF Existing
    <2>2. Names(Existing)' = Names(Existing')
      BY DEF Names
    <2> QED
      BY <1>2, <2>1, <2>2, NamesOfUnion DEF Taken
  <1>5. \A w \in Importers : import[w] = NoImport \/ FitJob(import[w], policies, Taken')
    BY <1>1, <1>4, HeldIs DEF ImportInv, FitJob
  <1> QED
    BY <1>2, <1>3, <1>4, <1>5 DEF ImportInv

LEMMA ImportInitKeeps == ImportInit => ImportInv
  <1> SUFFICES ASSUME ImportInit PROVE ImportInv
    OBVIOUS
  <1>1. /\ policies \in {{"legacy_erp", "csv_service", "wizard"}, {"partners"}}
        /\ stored \in [Key -> Nat] /\ entered = {} /\ marks = {}
        /\ \A k \in Key : stored[k] = 0
    BY DEF ImportInit
  <1>2. /\ import = [w \in Importers |-> import[w]]
        /\ \A w \in Importers : import[w] = NoImport
    BY DEF ImportInit
  <1>3. HeldOf(NoImport) = {}
    BY NothingHeld
  <1> QED
    BY <1>1, <1>2, <1>3, WholeNothing DEF ImportInv

LEMMA ImportStepKeeps ==
  ASSUME ImportInv, [ImportNext]_importVars
  PROVE  ImportInv'
  <1>1. CASE UNCHANGED importVars
    <2>1. UNCHANGED <<policies, stored, entered, marks, import>>
      BY <1>1 DEF importVars
    <2>2. Taken' = Taken
      BY <2>1 DEF Taken, Existing, Names
    <2> QED
      BY <2>1, <2>2 DEF ImportInv
  <1>2. \A w \in Importers : CrashImport(w) => Stay(w, NoImport)
    BY DEF CrashImport
  <1>3. CASE ImportNext
    BY <1>2, <1>3, StartKeeps, LegacyKeeps, TradeUnitKeeps, PartnerKeeps, FinishImportKeeps,
       GiveUpKeeps, EnterKeeps, Zenon DEF ImportNext
  <1> QED
    BY <1>1, <1>3

LEMMA ImportsInductive == ImportSpec => []ImportInv
  BY ImportInitKeeps, ImportStepKeeps, PTL DEF ImportSpec

(* However often any importers run the imports of any file, after exceptions *)
(* and crashes or side by side, no record is created twice: what names it is  *)
(* held by one import at a time and, once committed, for ever (ImportRuns,   *)
(* legacy_erp_import_service.py, transaction_import_service.py).             *)
THEOREM NothingImportedTwice == ImportSpec => []ImportedOnce
  <1>1. ImportInv => ImportedOnce
    BY DEF ImportInv, ImportedOnce
  <1> QED
    BY <1>1, ImportsInductive, PTL

(* A unit that the legacy pipeline has marked is there with all its lines    *)
(* and all its marks: its savepoint undoes the marks with the records.       *)
THEOREM MarkedUnitsAreWhole == ImportSpec => []WholeUnits
  <1>1. ImportInv => WholeUnits
    <2> SUFFICES ASSUME ImportInv, NEW u \in {0} \cup Unit, NEW j \in KeysOf(u),
                        <<"legacy_erp", j[1], j[2]>> \in marks, NEW k \in KeysOf(u)
                 PROVE  <<"legacy_erp", k[1], k[2]>> \in marks /\ stored[k] > 0
      BY DEF WholeUnits
    <2>1. j \in Key /\ k \in Key /\ j[1] = k[1]
      BY DEF KeysOf
    <2> QED
      BY <2>1 DEF ImportInv, Whole, LegacyMark
  <1> QED
    BY <1>1, ImportsInductive, PTL

-----------------------------------------------------------------------------
(***************************************************************************)
(* Finite sums.  Induction is replaced by the search for a smallest        *)
(* counterexample, a set of naturals having a least element.               *)
(***************************************************************************)

(* A non-empty set of naturals has a least element.                         *)
LEMMA LeastNumber ==
  ASSUME NEW T, T \subseteq Nat, T # {}
  PROVE  \E x \in T : \A y \in T : x <= y
  <1> DEFINE R == {pair \in Nat \X Nat : pair[1] < pair[2]}
  <1>1. IsWellFoundedOn(R, Nat)
    BY NatLessThanWellFounded DEF OpToRel
  <1> HIDE DEF R
  <1>2. PICK x \in T : \A y \in T : <<y, x>> \notin R
    BY <1>1, WFMin
  <1>3. ASSUME NEW y \in T PROVE x <= y
    <2>1. x \in Nat /\ y \in Nat
      OBVIOUS
    <2>2. ~(y < x)
      BY <1>2, <2>1 DEF R
    <2> QED
      BY <2>1, <2>2
  <1> QED
    BY <1>3

(* The element a fold takes first.                                         *)
SomeOf(s) == CHOOSE x \in s : TRUE

LEMMA AnyIsIn ==
  ASSUME NEW s, s # {}
  PROVE  SomeOf(s) \in s
  BY DEF SomeOf

(* What holds of the empty set, and of a set when it holds of the set        *)
(* without its first element, holds of every subset of a finite set.        *)
LEMMA FiniteDescent ==
  ASSUME NEW S, IsFiniteSet(S), NEW Good, {} \in Good,
         \A s \in SUBSET S : s # {} /\ s \ {SomeOf(s)} \in Good => s \in Good
  PROVE  SUBSET S \subseteq Good
  <1> DEFINE Sizes == {Cardinality(s) : s \in (SUBSET S) \ Good}
  <1>1. \A s \in SUBSET S : IsFiniteSet(s) /\ Cardinality(s) \in Nat
    BY FS_Subset, FS_CardinalityType
  <1> SUFFICES ASSUME (SUBSET S) \ Good # {} PROVE FALSE
    OBVIOUS
  <1>2. Sizes \subseteq Nat /\ Sizes # {}
    BY <1>1
  <1>3. PICK n \in Sizes : \A m \in Sizes : n <= m
    BY <1>2, LeastNumber
  <1>4. PICK s \in (SUBSET S) \ Good : Cardinality(s) = n
    OBVIOUS
  <1>5. s # {} /\ SomeOf(s) \in s
    BY AnyIsIn
  <1>6. Cardinality(s \ {SomeOf(s)}) = Cardinality(s) - 1
    BY <1>1, <1>5, FS_RemoveElement
  <1>7. s \ {SomeOf(s)} \in (SUBSET S) \ Good
    BY <1>4, <1>5
  <1>8. Cardinality(s \ {SomeOf(s)}) \in Sizes
    BY <1>7
  <1>9. n <= Cardinality(s) - 1
    BY <1>3, <1>6, <1>8
  <1> QED
    BY <1>1, <1>4, <1>9

-----------------------------------------------------------------------------
(* One step of the recursion by which SumFunction is defined.               *)
SumStep(f, g) ==
  [s \in SUBSET DOMAIN f |-> IF s = {} THEN 0 ELSE f[SomeOf(s)] + g[s \ {SomeOf(s)}]]

LEMMA SumIsFold ==
  ASSUME NEW f
  PROVE  SumFunction(f) = (CHOOSE g : g = SumStep(f, g))[DOMAIN f]
  BY Zenon DEF SumFunction, SumFunctionOnSet, FoldFunctionOnSet, MapThenFoldSet, SumStep, SomeOf

(* The recursion has a solution: one that is right on sets of n - 1 elements *)
(* gives, by one step, one that is right on sets of n.                      *)
LEMMA SumStepHasFixpoint ==
  ASSUME NEW S, IsFiniteSet(S), NEW f \in [S -> Int]
  PROVE  \E g : g = SumStep(f, g)
  <1> DEFINE RightTo(g, n) == \A s \in SUBSET S : Cardinality(s) <= n => g[s] = SumStep(f, g)[s]
             Wrong == {n \in Nat : ~ \E g : RightTo(g, n) /\ DOMAIN g = SUBSET S /\ g = [s \in SUBSET S |-> g[s]]}
  <1>1. \A s \in SUBSET S : IsFiniteSet(s) /\ Cardinality(s) \in Nat
    BY FS_Subset, FS_CardinalityType
  <1>2. DOMAIN f = S
    OBVIOUS
  <1>3. Wrong = {}
    <2> SUFFICES ASSUME Wrong # {} PROVE FALSE
      OBVIOUS
    <2>1. PICK n \in Wrong : \A m \in Wrong : n <= m
      <3>1. Wrong \subseteq Nat
        OBVIOUS
      <3> HIDE DEF Wrong
      <3> QED
        BY <3>1, LeastNumber
    <2>2. CASE n = 0
      <3> DEFINE g == [s \in SUBSET S |-> 0]
      <3>1. RightTo(g, 0)
        <4> SUFFICES ASSUME NEW s \in SUBSET S, Cardinality(s) <= 0
                     PROVE  g[s] = SumStep(f, g)[s]
          OBVIOUS
        <4>1. s = {}
          BY <1>1, FS_EmptySet
        <4> QED
          BY <1>2, <4>1 DEF SumStep
      <3>2. DOMAIN g = SUBSET S /\ g = [s \in SUBSET S |-> g[s]]
        OBVIOUS
      <3> HIDE DEF g, RightTo
      <3> QED
        BY <2>2, <3>1, <3>2
    <2>3. CASE n # 0
      <3>1. n - 1 \in Nat \ Wrong
        <4> HIDE DEF RightTo
        <4>1. n \in Nat
          OBVIOUS
        <4> HIDE DEF Wrong
        <4> QED
          BY <2>1, <2>3, <4>1
      <3>2. PICK g : RightTo(g, n - 1) /\ DOMAIN g = SUBSET S /\ g = [s \in SUBSET S |-> g[s]]
        BY <3>1, Zenon
      <3> DEFINE h == [s \in SUBSET S |-> SumStep(f, g)[s]]
      <3>3. RightTo(h, n)
        <4> SUFFICES ASSUME NEW s \in SUBSET S, Cardinality(s) <= n
                     PROVE  h[s] = SumStep(f, h)[s]
          OBVIOUS
        <4>1. CASE s = {}
          BY <1>2, <4>1 DEF SumStep
        <4>2. CASE s # {}
          <5> DEFINE r == s \ {SomeOf(s)}
          <5>1. SomeOf(s) \in s /\ r \in SUBSET S
            BY <4>2, AnyIsIn
          <5>2. Cardinality(r) = Cardinality(s) - 1
            BY <1>1, <5>1, FS_RemoveElement
          <5>3. Cardinality(r) <= n - 1
            BY <1>1, <5>2
          <5>4. g[r] = SumStep(f, g)[r]
            BY <3>2, <5>1, <5>3
          <5>5. h[r] = g[r]
            BY <5>1, <5>4
          <5>6. SumStep(f, h)[s] = f[SomeOf(s)] + h[r]
            BY <1>2, <4>2 DEF SumStep
          <5>7. SumStep(f, g)[s] = f[SomeOf(s)] + g[r]
            BY <1>2, <4>2 DEF SumStep
          <5> QED
            BY <5>5, <5>6, <5>7
        <4> QED
          BY <4>1, <4>2
      <3>4. DOMAIN h = SUBSET S /\ h = [s \in SUBSET S |-> h[s]]
        OBVIOUS
      <3> HIDE DEF h, RightTo
      <3> QED
        BY <3>3, <3>4
    <2> QED
      BY <2>2, <2>3
  <1>4. Cardinality(S) \in Nat
    BY <1>1
  <1>5. PICK g : /\ RightTo(g, Cardinality(S))
                 /\ DOMAIN g = SUBSET S /\ g = [s \in SUBSET S |-> g[s]]
    BY <1>3, <1>4, Zenon
  <1>6. \A s \in SUBSET S : g[s] = SumStep(f, g)[s]
    BY <1>5, FS_Subset
  <1>7. SumStep(f, g) = [s \in SUBSET S |-> SumStep(f, g)[s]]
    BY <1>2 DEF SumStep
  <1>8. g = SumStep(f, g)
    BY <1>5, <1>6, <1>7
  <1> QED
    BY <1>8

(* The partial sums of f, in the order in which the fold takes its elements. *)
PartialSums(f) == CHOOSE g : g = SumStep(f, g)

LEMMA SumUnfolds ==
  ASSUME NEW S, IsFiniteSet(S), NEW f \in [S -> Int]
  PROVE  /\ SumFunction(f) = PartialSums(f)[S]
         /\ PartialSums(f)[{}] = 0
         /\ \A s \in SUBSET S : s # {} =>
              PartialSums(f)[s] = f[SomeOf(s)] + PartialSums(f)[s \ {SomeOf(s)}]
  <1> DEFINE g == PartialSums(f)
  <1>1. g = SumStep(f, g)
    BY SumStepHasFixpoint DEF PartialSums
  <1>2. SumFunction(f) = g[DOMAIN f] /\ DOMAIN f = S
    BY SumIsFold DEF PartialSums
  <1> HIDE DEF g
  <1>3. \A s \in SUBSET S :
          g[s] = IF s = {} THEN 0 ELSE f[SomeOf(s)] + g[s \ {SomeOf(s)}]
    BY <1>1, <1>2 DEF SumStep
  <1>4. /\ SumFunction(f) = g[S] /\ g[{}] = 0
        /\ \A s \in SUBSET S : s # {} => g[s] = f[SomeOf(s)] + g[s \ {SomeOf(s)}]
    BY <1>2, <1>3
  <1> QED
    BY <1>4 DEF g

(* A sum of integers is an integer, and sums add up.                        *)
LEMMA SumsAdd ==
  ASSUME NEW S, IsFiniteSet(S), NEW f \in [S -> Int], NEW d \in [S -> Int]
  PROVE  /\ SumFunction(f) \in Int
         /\ SumFunction([x \in S |-> f[x] + d[x]]) = SumFunction(f) + SumFunction(d)
  <1> DEFINE h == [x \in S |-> f[x] + d[x]]
             F == PartialSums(f)
             D == PartialSums(d)
             H == PartialSums(h)
             Good == {s \in SUBSET S : F[s] \in Int /\ D[s] \in Int /\ H[s] = F[s] + D[s]}
  <1>1. h \in [S -> Int] /\ \A x \in S : h[x] = f[x] + d[x]
    OBVIOUS
  <1> HIDE DEF h
  <1> HIDE DEF Good
  <1>2. /\ SumFunction(f) = F[S] /\ F[{}] = 0
        /\ \A s \in SUBSET S : s # {} => F[s] = f[SomeOf(s)] + F[s \ {SomeOf(s)}]
    BY SumUnfolds
  <1>3. /\ SumFunction(d) = D[S] /\ D[{}] = 0
        /\ \A s \in SUBSET S : s # {} => D[s] = d[SomeOf(s)] + D[s \ {SomeOf(s)}]
    BY SumUnfolds
  <1>4. /\ SumFunction(h) = H[S] /\ H[{}] = 0
        /\ \A s \in SUBSET S : s # {} => H[s] = h[SomeOf(s)] + H[s \ {SomeOf(s)}]
    <2> HIDE DEF F, D
    <2>1. ASSUME NEW e \in [S -> Int]
          PROVE  /\ SumFunction(e) = PartialSums(e)[S] /\ PartialSums(e)[{}] = 0
                 /\ \A s \in SUBSET S : s # {} =>
                      PartialSums(e)[s] = e[SomeOf(s)] + PartialSums(e)[s \ {SomeOf(s)}]
      BY SumUnfolds
    <2> QED
      BY <1>1, <2>1, Zenon
  <1> HIDE DEF F, D, H
  <1> USE DEF Good
  <1>5. {} \in Good
    BY <1>2, <1>3, <1>4
  <1>6. ASSUME NEW s \in SUBSET S, s # {}, s \ {SomeOf(s)} \in Good
        PROVE  s \in Good
    <2>1. SomeOf(s) \in S
      BY <1>6, AnyIsIn
    <2>2. f[SomeOf(s)] \in Int /\ d[SomeOf(s)] \in Int /\ h[SomeOf(s)] = f[SomeOf(s)] + d[SomeOf(s)]
      BY <1>1, <2>1
    <2>3. F[s \ {SomeOf(s)}] \in Int /\ D[s \ {SomeOf(s)}] \in Int
          /\ H[s \ {SomeOf(s)}] = F[s \ {SomeOf(s)}] + D[s \ {SomeOf(s)}]
      BY <1>6
    <2>4. /\ F[s] = f[SomeOf(s)] + F[s \ {SomeOf(s)}]
          /\ D[s] = d[SomeOf(s)] + D[s \ {SomeOf(s)}]
          /\ H[s] = h[SomeOf(s)] + H[s \ {SomeOf(s)}]
      BY <1>2, <1>3, <1>4, <1>6
    <2>5. F[s] \in Int /\ D[s] \in Int /\ H[s] = F[s] + D[s]
      BY <2>2, <2>3, <2>4
    <2> QED
      BY <2>5
  <1> HIDE DEF Good
  <1>7. SUBSET S \subseteq Good
    BY <1>5, <1>6, FiniteDescent
  <1>8. S \in Good
    BY <1>7
  <1> QED
    BY <1>2, <1>3, <1>4, <1>8 DEF Good, h

(* The number of elements of a set is the sum of its indicator.             *)
LEMMA CountIsSum ==
  ASSUME NEW S, IsFiniteSet(S), NEW U \in SUBSET S
  PROVE  Cardinality(U) = SumFunction([x \in S |-> IF x \in U THEN 1 ELSE 0])
  <1> DEFINE f == [x \in S |-> IF x \in U THEN 1 ELSE 0]
             F == PartialSums(f)
             Good == {s \in SUBSET S : F[s] = Cardinality(U \cap s)}
  <1>1. f \in [S -> Int] /\ \A x \in S : f[x] = IF x \in U THEN 1 ELSE 0
    OBVIOUS
  <1> HIDE DEF f
  <1>2. /\ SumFunction(f) = F[S] /\ F[{}] = 0
        /\ \A s \in SUBSET S : s # {} => F[s] = f[SomeOf(s)] + F[s \ {SomeOf(s)}]
    BY <1>1, SumUnfolds
  <1> HIDE DEF F
  <1>3. {} \in Good
    BY <1>2, FS_EmptySet
  <1>4. ASSUME NEW s \in SUBSET S, s # {}, s \ {SomeOf(s)} \in Good
        PROVE  s \in Good
    <2> DEFINE x == SomeOf(s)
    <2>1. x \in s
      BY <1>4, AnyIsIn
    <2>2. IsFiniteSet(U \cap s) /\ Cardinality(U \cap s) \in Nat
      BY FS_Subset, FS_CardinalityType
    <2>3. U \cap (s \ {x}) = (U \cap s) \ {x}
      OBVIOUS
    <2>4. Cardinality(U \cap (s \ {x})) =
            IF x \in U \cap s THEN Cardinality(U \cap s) - 1 ELSE Cardinality(U \cap s)
      BY <2>2, <2>3, FS_RemoveElement
    <2>5. F[s] = f[x] + F[s \ {x}] /\ F[s \ {x}] = Cardinality(U \cap (s \ {x}))
      BY <1>2, <1>4
    <2>6. f[x] = IF x \in U THEN 1 ELSE 0
      BY <1>1, <2>1
    <2> HIDE DEF x
    <2> QED
      BY <2>1, <2>2, <2>4, <2>5, <2>6
  <1> HIDE DEF Good
  <1>5. S \in Good
    BY <1>3, <1>4, FiniteDescent
  <1>6. U \cap S = U
    OBVIOUS
  <1> QED
    BY <1>2, <1>5, <1>6 DEF Good, f

(* A factor comes out of a sum, and a sum of no larger terms is no larger.   *)
LEMMA SumsScale ==
  ASSUME NEW S, IsFiniteSet(S), NEW f \in [S -> Int], NEW k \in Int
  PROVE  SumFunction([x \in S |-> k * f[x]]) = k * SumFunction(f)
  <1> DEFINE h == [x \in S |-> k * f[x]]
             F == PartialSums(f)
             H == PartialSums(h)
             Good == {s \in SUBSET S : F[s] \in Int /\ H[s] = k * F[s]}
  <1>0. h \in [S -> Int]
    OBVIOUS
  <1>1. \A x \in S : h[x] = k * f[x]
    OBVIOUS
  <1> HIDE DEF h
  <1>2. /\ SumFunction(f) = F[S] /\ F[{}] = 0
        /\ \A s \in SUBSET S : s # {} => F[s] = f[SomeOf(s)] + F[s \ {SomeOf(s)}]
    BY SumUnfolds
  <1>3. /\ SumFunction(h) = H[S] /\ H[{}] = 0
        /\ \A s \in SUBSET S : s # {} => H[s] = h[SomeOf(s)] + H[s \ {SomeOf(s)}]
    BY <1>0, SumUnfolds
  <1> HIDE DEF F, H
  <1>4. {} \in Good
    BY <1>2, <1>3
  <1>5. ASSUME NEW s \in SUBSET S, s # {}, s \ {SomeOf(s)} \in Good
        PROVE  s \in Good
    <2> DEFINE x == SomeOf(s)
               r == s \ {x}
    <2>1. x \in S /\ f[x] \in Int /\ h[x] = k * f[x]
      BY <1>1, <1>5, AnyIsIn
    <2>2. F[s] = f[x] + F[r] /\ H[s] = h[x] + H[r]
      BY <1>2, <1>3, <1>5
    <2>3. F[r] \in Int /\ H[r] = k * F[r]
      BY <1>5
    <2> HIDE DEF x, r
    <2>4. k * (f[x] + F[r]) = k * f[x] + k * F[r]
      BY <2>1, <2>3
    <2>5. F[s] \in Int /\ H[s] = k * F[s]
      BY <2>1, <2>2, <2>3, <2>4
    <2> QED
      BY <2>5
  <1> HIDE DEF Good
  <1>6. S \in Good
    BY <1>4, <1>5, FiniteDescent
  <1> QED
    BY <1>2, <1>3, <1>6 DEF Good, h

LEMMA SumsCompare ==
  ASSUME NEW S, IsFiniteSet(S), NEW f \in [S -> Int], NEW g \in [S -> Int],
         \A x \in S : f[x] <= g[x]
  PROVE  SumFunction(f) <= SumFunction(g)
  <1> DEFINE F == PartialSums(f)
             G == PartialSums(g)
             Good == {s \in SUBSET S : F[s] \in Int /\ G[s] \in Int /\ F[s] <= G[s]}
  <1>1. /\ SumFunction(f) = F[S] /\ F[{}] = 0
        /\ \A s \in SUBSET S : s # {} => F[s] = f[SomeOf(s)] + F[s \ {SomeOf(s)}]
    BY SumUnfolds
  <1>2. /\ SumFunction(g) = G[S] /\ G[{}] = 0
        /\ \A s \in SUBSET S : s # {} => G[s] = g[SomeOf(s)] + G[s \ {SomeOf(s)}]
    BY SumUnfolds
  <1> HIDE DEF F, G
  <1>3. {} \in Good
    BY <1>1, <1>2
  <1>4. ASSUME NEW s \in SUBSET S, s # {}, s \ {SomeOf(s)} \in Good
        PROVE  s \in Good
    <2> DEFINE x == SomeOf(s)
               r == s \ {x}
    <2>1. f[x] \in Int /\ g[x] \in Int /\ f[x] <= g[x]
      BY <1>4, AnyIsIn
    <2>2. F[s] = f[x] + F[r] /\ G[s] = g[x] + G[r]
      BY <1>1, <1>2, <1>4
    <2>3. F[r] \in Int /\ G[r] \in Int /\ F[r] <= G[r]
      BY <1>4
    <2> HIDE DEF x, r
    <2>4. F[s] \in Int /\ G[s] \in Int /\ F[s] <= G[s]
      BY <2>1, <2>2, <2>3
    <2> QED
      BY <2>4
  <1> HIDE DEF Good
  <1>5. S \in Good
    BY <1>3, <1>4, FiniteDescent
  <1> QED
    BY <1>1, <1>2, <1>5 DEF Good

(* A sum of ones is a number of terms.                                      *)
LEMMA SumOfConstant ==
  ASSUME NEW S, IsFiniteSet(S), NEW k \in Int
  PROVE  SumFunction([x \in S |-> k]) = k * Cardinality(S)
  <1> DEFINE one == [x \in S |-> 1]
  <1>1. one \in [S -> Int] /\ [x \in S |-> k * one[x]] = [x \in S |-> k]
    OBVIOUS
  <1>2. one = [x \in S |-> IF x \in S THEN 1 ELSE 0]
    OBVIOUS
  <1>3. SumFunction(one) = Cardinality(S)
    BY <1>2, CountIsSum
  <1> HIDE DEF one
  <1> QED
    BY <1>1, <1>3, SumsScale

(* A finite set in which of any two one comes first has a first element.     *)
LEMMA FiniteOrderHasFirst ==
  ASSUME NEW S, IsFiniteSet(S), NEW R \in SUBSET (S \X S), S # {},
         \A x, y \in S : x # y => <<x, y>> \in R \/ <<y, x>> \in R,
         \A x, y, z \in S : <<x, y>> \in R /\ <<y, z>> \in R => <<x, z>> \in R
  PROVE  \E b \in S : \A x \in S \ {b} : <<b, x>> \in R
  <1> DEFINE Good == {s \in SUBSET S : s = {} \/ \E b \in s : \A x \in s \ {b} : <<b, x>> \in R}
  <1>1. {} \in Good
    OBVIOUS
  <1>2. ASSUME NEW s \in SUBSET S, s # {}, s \ {SomeOf(s)} \in Good
        PROVE  s \in Good
    <2> DEFINE x == SomeOf(s)
    <2>1. x \in s /\ x \in S
      BY <1>2, AnyIsIn
    <2> SUFFICES \E b \in s : \A y \in s \ {b} : <<b, y>> \in R
      OBVIOUS
    <2>2. CASE s \ {x} = {}
      BY <2>1, <2>2
    <2>3. CASE s \ {x} # {}
      <3>1. PICK b \in s \ {x} : \A y \in (s \ {x}) \ {b} : <<b, y>> \in R
        BY <1>2, <2>3
      <3> HIDE DEF x
      <3>2. CASE <<b, x>> \in R
        BY <3>1, <3>2
      <3>3. CASE <<x, b>> \in R
        <4>1. \A y \in s \ {x} : <<x, y>> \in R
          BY <2>1, <3>1, <3>3
        <4> QED
          BY <2>1, <4>1
      <3> QED
        BY <2>1, <3>1, <3>2, <3>3
    <2> QED
      BY <2>2, <2>3
  <1> HIDE DEF Good
  <1>3. S \in Good
    BY <1>1, <1>2, FiniteDescent
  <1> QED
    BY <1>3 DEF Good

(* The extremes of a finite set of integers.                                *)
LEMMA Extremes ==
  ASSUME NEW S, IsFiniteSet(S), S \subseteq Int, S # {}
  PROVE  /\ Min(S) \in S /\ \A x \in S : Min(S) <= x
         /\ Max(S) \in S /\ \A x \in S : x <= Max(S)
  <1> DEFINE Up == {pair \in S \X S : pair[1] <= pair[2]}
             Down == {pair \in S \X S : pair[2] <= pair[1]}
  <1>1. \E b \in S : \A x \in S \ {b} : <<b, x>> \in Up
    <2>1. \A x, y \in S : <<x, y>> \in Up <=> x <= y
      OBVIOUS
    <2>0. Up \in SUBSET (S \X S)
      OBVIOUS
    <2> HIDE DEF Up
    <2>2. \A x, y \in S : x # y => <<x, y>> \in Up \/ <<y, x>> \in Up
      BY <2>1
    <2>3. \A x, y, z \in S : <<x, y>> \in Up /\ <<y, z>> \in Up => <<x, z>> \in Up
      BY <2>1
    <2> QED
      BY <2>0, <2>2, <2>3, FiniteOrderHasFirst
  <1>2. \E b \in S : \A x \in S \ {b} : <<b, x>> \in Down
    <2>1. \A x, y \in S : <<x, y>> \in Down <=> y <= x
      OBVIOUS
    <2>0. Down \in SUBSET (S \X S)
      OBVIOUS
    <2> HIDE DEF Down
    <2>2. \A x, y \in S : x # y => <<x, y>> \in Down \/ <<y, x>> \in Down
      BY <2>1
    <2>3. \A x, y, z \in S : <<x, y>> \in Down /\ <<y, z>> \in Down => <<x, z>> \in Down
      BY <2>1
    <2> QED
      BY <2>0, <2>2, <2>3, FiniteOrderHasFirst
  <1>3. \E b \in S : \A x \in S : b <= x
    <2>1. PICK b \in S : \A x \in S \ {b} : <<b, x>> \in Up
      BY <1>1
    <2>2. \A x \in S \ {b} : b <= x
      BY <2>1
    <2> QED
      BY <2>2
  <1>4. \E b \in S : \A x \in S : b >= x
    <2>1. PICK b \in S : \A x \in S \ {b} : <<b, x>> \in Down
      BY <1>2
    <2>2. \A x \in S \ {b} : x <= b
      BY <2>1
    <2> QED
      BY <2>2
  <1>5. Min(S) \in S /\ \A x \in S : Min(S) <= x
    BY <1>3 DEF Min
  <1>6. Max(S) \in S /\ \A x \in S : Max(S) >= x
    BY <1>4 DEF Max
  <1> QED
    BY <1>5, <1>6

-----------------------------------------------------------------------------
(***************************************************************************)
(* Claims.  A transaction stores three sums over its claims.  A plan that   *)
(* can still commit moves each of them by what its claims add and take away, *)
(* counted from rows nobody else has written: the stored sum by this much if *)
(* the plan writes the transaction, and by nothing if it does not.          *)
(***************************************************************************)
Sums == {"claims", "chargebacks", "penalties"}
ClaimFields == {"state", "kind", "amount", "tx"}
TxFields == {"balance", "closed", "claims", "quality", "chargebacks", "penalties"}

(* What one claim adds to a sum of t.                                      *)
Share(m, t, claim) ==
  CASE m = "claims" -> IF claim # None /\ claim.tx = t THEN 1 ELSE 0
    [] m = "chargebacks" -> Recovery(t, "freight_chargeback", claim)
    [] m = "penalties" -> Recovery(t, "lightweight_penalty", claim)

Shares(m, t, at) == [c \in Claims |-> Share(m, t, at[c])]
SumOver(m, t, at) == SumFunction(Shares(m, t, at))

ClaimOK(claim) ==
  claim # None => DOMAIN claim = ClaimFields /\ claim.amount \in Int /\ claim.tx \in Txs

(* What the claims of a plan add to a sum of t, less what they take away.   *)
Gain(plan, m, t) ==
  [c \in Claims |-> IF c \in DOMAIN plan THEN Share(m, t, plan[c]) - Share(m, t, rows[c]) ELSE 0]

Stored(plan, t) == IF t \in DOMAIN plan THEN plan[t] ELSE rows[t]

ClaimPlan(plan) ==
  /\ DOMAIN plan \subseteq DOMAIN rows
  /\ \A c \in Claims \cap DOMAIN plan : ClaimOK(plan[c])
  /\ \A t \in Txs \cap DOMAIN plan :
       /\ DOMAIN plan[t] = TxFields
       /\ plan[t].closed => rows[t].closed \/ GrossMargin(rows[t]) >= 0
  /\ \A t \in Txs, m \in Sums :
       Stored(plan, t)[m] = rows[t][m] + SumFunction(Gain(plan, m, t))

ClaimInv ==
  /\ DOMAIN rows = Claims \cup Txs
  /\ \A c \in Claims : ClaimOK(rows[c])
  /\ \A t \in Txs : /\ DOMAIN rows[t] = TxFields
                    /\ \A m \in Sums : rows[t][m] = SumOver(m, t, Committed)
  /\ DOMAIN request = Session
  /\ \A s \in Session \ stale : ClaimPlan(request[s].writes)

-----------------------------------------------------------------------------
LEMMA SharesAreIntegers ==
  ASSUME NEW claim, ClaimOK(claim), NEW t, NEW m \in Sums
  PROVE  Share(m, t, claim) \in Int
  BY DEF Share, Sums, ClaimOK, Recovery

(* The invariant is the property, read in the fields of the row.            *)
LEMMA TotalsAre ==
  ASSUME NEW at, NEW t
  PROVE  /\ SumOver("claims", t, at) = Cardinality(ClaimsOf(t, at))
         /\ SumOver("chargebacks", t, at) = Recovered(t, "freight_chargeback", at)
         /\ SumOver("penalties", t, at) = Recovered(t, "lightweight_penalty", at)
  <1>1. Shares("claims", t, at) = [c \in Claims |-> IF c \in ClaimsOf(t, at) THEN 1 ELSE 0]
    BY DEF Shares, Share, ClaimsOf
  <1>2. ClaimsOf(t, at) \in SUBSET Claims
    BY DEF ClaimsOf
  <1>3. Shares("chargebacks", t, at) = [c \in Claims |-> Recovery(t, "freight_chargeback", at[c])]
    BY DEF Shares, Share
  <1>4. Shares("penalties", t, at) = [c \in Claims |-> Recovery(t, "lightweight_penalty", at[c])]
    BY DEF Shares, Share
  <1> QED
    BY <1>1, <1>2, <1>3, <1>4, CountIsSum, ClaimAssumption DEF SumOver, Recovered

(* The claims as a plan leaves them.                                       *)
Planned(plan) == [c \in Claims |-> IF c \in DOMAIN plan THEN plan[c] ELSE rows[c]]

LEMMA GainIsTheDifference ==
  ASSUME NEW plan, \A c \in Claims : ClaimOK(rows[c]),
         \A c \in Claims \cap DOMAIN plan : ClaimOK(plan[c]), NEW t, NEW m \in Sums
  PROVE  /\ Gain(plan, m, t) \in [Claims -> Int]
         /\ SumFunction(Gain(plan, m, t)) \in Int /\ SumOver(m, t, Committed) \in Int
         /\ SumOver(m, t, Planned(plan)) = SumOver(m, t, Committed) + SumFunction(Gain(plan, m, t))
  <1> DEFINE f == Shares(m, t, Committed)
             d == Gain(plan, m, t)
  <1>1. /\ \A c \in Claims : Share(m, t, rows[c]) \in Int
        /\ \A c \in Claims \cap DOMAIN plan : Share(m, t, plan[c]) \in Int
    BY SharesAreIntegers
  <1>2. \A c \in Claims : Committed[c] = rows[c]
    BY DEF Committed
  <1>3. f \in [Claims -> Int] /\ d \in [Claims -> Int]
    <2> HIDE DEF Share
    <2> QED
      BY <1>1, <1>2 DEF Shares, Gain
  <1>4. Shares(m, t, Planned(plan)) = [c \in Claims |-> f[c] + d[c]]
    <2> SUFFICES ASSUME NEW c \in Claims
                 PROVE  Share(m, t, Planned(plan)[c]) = f[c] + d[c]
      BY DEF Shares
    <2>1. f[c] = Share(m, t, rows[c])
      BY <1>2 DEF Shares
    <2>2. CASE c \in DOMAIN plan
      <3>1. d[c] = Share(m, t, plan[c]) - Share(m, t, rows[c]) /\ Planned(plan)[c] = plan[c]
        BY <2>2 DEF Gain, Planned
      <3> HIDE DEF f, d
      <3> QED
        BY <1>1, <2>1, <2>2, <3>1
    <2>3. CASE c \notin DOMAIN plan
      <3>1. d[c] = 0 /\ Planned(plan)[c] = rows[c]
        BY <2>3 DEF Gain, Planned
      <3> HIDE DEF f, d
      <3> QED
        BY <1>1, <2>1, <3>1
    <2> QED
      BY <2>2, <2>3
  <1> HIDE DEF f, d
  <1>5. /\ SumFunction(f) \in Int /\ SumFunction(d) \in Int
        /\ SumFunction([c \in Claims |-> f[c] + d[c]]) = SumFunction(f) + SumFunction(d)
    BY <1>3, SumsAdd, ClaimAssumption
  <1> QED
    BY <1>3, <1>4, <1>5 DEF SumOver, f, d

(* A plan of nothing moves nothing.                                        *)
LEMMA NoClaimPlan ==
  ASSUME NEW plan, DOMAIN plan = {}, \A c \in Claims : ClaimOK(rows[c]),
         \A t \in Txs, m \in Sums : rows[t][m] = SumOver(m, t, Committed)
  PROVE  ClaimPlan(plan)
  <1>1. ASSUME NEW t \in Txs, NEW m \in Sums
        PROVE  Stored(plan, t)[m] = rows[t][m] + SumFunction(Gain(plan, m, t))
    <2>1. Planned(plan) = Committed
      BY DEF Planned, Committed
    <2>2. /\ SumFunction(Gain(plan, m, t)) \in Int /\ SumOver(m, t, Committed) \in Int
          /\ SumOver(m, t, Planned(plan)) = SumOver(m, t, Committed) + SumFunction(Gain(plan, m, t))
      BY GainIsTheDifference
    <2>3. Stored(plan, t) = rows[t]
      BY DEF Stored
    <2> QED
      BY <2>1, <2>2, <2>3
  <1> QED
    BY <1>1 DEF ClaimPlan

(* What a plan stores are the sums over the claims it leaves.               *)
LEMMA SumsMakeAPlan ==
  ASSUME ClaimInv, NEW plan, DOMAIN plan \subseteq DOMAIN rows,
         \A c \in Claims \cap DOMAIN plan : ClaimOK(plan[c]),
         \A t \in Txs \cap DOMAIN plan :
           /\ DOMAIN plan[t] = TxFields
           /\ plan[t].closed => rows[t].closed \/ GrossMargin(rows[t]) >= 0,
         \A t \in Txs, m \in Sums : Stored(plan, t)[m] = SumOver(m, t, Planned(plan))
  PROVE  ClaimPlan(plan)
  <1>1. ASSUME NEW t \in Txs, NEW m \in Sums
        PROVE  Stored(plan, t)[m] = rows[t][m] + SumFunction(Gain(plan, m, t))
    <2>1. SumOver(m, t, Planned(plan)) = SumOver(m, t, Committed) + SumFunction(Gain(plan, m, t))
      BY GainIsTheDifference DEF ClaimInv
    <2>2. rows[t][m] = SumOver(m, t, Committed)
      BY DEF ClaimInv
    <2> QED
      BY <2>1, <2>2
  <1> QED
    BY <1>1 DEF ClaimPlan

LEMMA ClaimInitKeeps == ClaimInit => ClaimInv
  <1> SUFFICES ASSUME ClaimInit PROVE ClaimInv
    OBVIOUS
  <1>1. PICK start \in [Txs -> Balances] :
          rows = [k \in Claims \cup Txs |-> IF k \in Claims THEN None ELSE NewTx(start[k])]
    BY DEF ClaimInit, Start, ClaimRows
  <1>2. DOMAIN rows = Claims \cup Txs /\ \A c \in Claims : rows[c] = None
    BY <1>1
  <1>3. \A c \in Claims : ClaimOK(rows[c])
    BY <1>2 DEF ClaimOK
  <1>4. ASSUME NEW t \in Txs
        PROVE  /\ DOMAIN rows[t] = TxFields
               /\ \A m \in Sums : rows[t][m] = SumOver(m, t, Committed)
    <2>1. rows[t] = NewTx(start[t])
      BY <1>1, ClaimAssumption
    <2>2. /\ DOMAIN NewTx(start[t]) = TxFields
          /\ \A m \in Sums : NewTx(start[t])[m] = 0
      BY DEF NewTx, TxFields, Sums
    <2>3. ASSUME NEW m \in Sums PROVE SumOver(m, t, Committed) = 0
      <3>1. \A c \in Claims : Committed[c] = None
        BY <1>2 DEF Committed
      <3>2. Share(m, t, None) = 0
        BY DEF Share, Recovery, Sums
      <3>3. Shares(m, t, Committed) = [c \in Claims |-> 0]
        BY <3>1, <3>2 DEF Shares
      <3>4. SumFunction([c \in Claims |-> 0]) = 0
        <4>1. Cardinality({}) = SumFunction([c \in Claims |-> IF c \in {} THEN 1 ELSE 0])
          BY CountIsSum, ClaimAssumption
        <4>2. [c \in Claims |-> IF c \in {} THEN 1 ELSE 0] = [c \in Claims |-> 0]
          OBVIOUS
        <4> QED
          BY <4>1, <4>2, FS_EmptySet
      <3> QED
        BY <3>3, <3>4 DEF SumOver
    <2> QED
      BY <2>1, <2>2, <2>3
  <1>5. DOMAIN request = Session /\ \A s \in Session : DOMAIN request[s].writes = {}
    BY DEF ClaimInit, Start, NoRequest
  <1>6. \A s \in Session : ClaimPlan(request[s].writes)
    BY <1>3, <1>4, <1>5, NoClaimPlan
  <1> QED
    BY <1>2, <1>3, <1>4, <1>5, <1>6 DEF ClaimInv

(* What is planned is what changes, and nothing is left of it out.           *)
LEMMA BeginWrites ==
  ASSUME DOMAIN request = Session, NEW s \in Session, NEW plan, NEW events,
         Begin(s, plan, events)
  PROVE  request'[s].writes = Changed(plan)
  <1> DEFINE r == [writes |-> Changed(plan), events |-> events]
  <1>1. request' = [request EXCEPT ![s] = r]
    BY DEF Begin
  <1>2. r.writes = Changed(plan)
    OBVIOUS
  <1> HIDE DEF r, Changed
  <1> QED
    BY <1>1, <1>2

LEMMA ClaimPlanStands ==
  ASSUME NEW plan, ClaimPlan(plan), UNCHANGED rows
  PROVE  ClaimPlan(plan)'
  BY DEF ClaimPlan, Stored, Gain

LEMMA ClaimBeginKeeps ==
  ASSUME ClaimInv, NEW s \in Session, NEW plan, NEW events,
         Begin(s, plan, events), ClaimPlan(Changed(plan))
  PROVE  ClaimInv'
  <1>1. /\ UNCHANGED <<rows, stale>> /\ DOMAIN request' = Session
        /\ \A o \in Session \ {s} : request'[o] = request[o]
    BY BeginPlans DEF ClaimInv
  <1>2. request'[s].writes = Changed(plan)
    BY BeginWrites DEF ClaimInv
  <1>3. \A o \in Session \ stale' : ClaimPlan(request'[o].writes)
    BY <1>1, <1>2 DEF ClaimInv
  <1>4. \A w : ClaimPlan(w) => ClaimPlan(w)'
    BY <1>1, ClaimPlanStands
  <1>5. \A o \in Session \ stale' : ClaimPlan(request[o].writes)'
    BY <1>3, <1>4
  <1>6. Committed' = Committed
    BY <1>1 DEF Committed
  <1>7. \A t, m : SumOver(m, t, Committed)' = SumOver(m, t, Committed)
    BY <1>6 DEF SumOver, Shares
  <1> QED
    BY <1>1, <1>5, <1>7 DEF ClaimInv

(* A commit makes the claims what its plan says, and the sums go with them.  *)
LEMMA CommitMovesSums ==
  ASSUME ClaimInv, NEW s \in Session, Commit(s)
  PROVE  /\ DOMAIN rows' = DOMAIN rows
         /\ Committed' = Planned(request[s].writes)
         /\ \A c \in Claims : ClaimOK(rows'[c])
         /\ \A t \in Txs : /\ rows'[t] = Stored(request[s].writes, t)
                           /\ DOMAIN rows'[t] = TxFields
                           /\ \A m \in Sums : rows'[t][m] = SumOver(m, t, Committed')
  <1> DEFINE w == request[s].writes
  <1>1. ClaimPlan(w)
    BY DEF ClaimInv, Commit
  <1>2. /\ DOMAIN rows' = DOMAIN rows
        /\ \A k \in DOMAIN w : rows'[k] = w[k]
        /\ \A k \in DOMAIN rows \ DOMAIN w : rows'[k] = rows[k]
    BY <1>1, CommitWrites DEF ClaimPlan
  <1> HIDE DEF w
  <1>3. Committed' = Planned(w)
    BY <1>2 DEF Committed, Planned, ClaimInv
  <1>4. \A c \in Claims : ClaimOK(rows'[c])
    BY <1>1, <1>2 DEF ClaimPlan, ClaimInv
  <1>5. \A t \in Txs : rows'[t] = Stored(w, t) /\ DOMAIN rows'[t] = TxFields
    BY <1>1, <1>2 DEF ClaimPlan, ClaimInv, Stored
  <1>6. ASSUME NEW t \in Txs, NEW m \in Sums
        PROVE  rows'[t][m] = SumOver(m, t, Committed')
    <2>1. SumOver(m, t, Planned(w)) = SumOver(m, t, Committed) + SumFunction(Gain(w, m, t))
      BY <1>1, GainIsTheDifference DEF ClaimInv, ClaimPlan
    <2>2. rows[t][m] = SumOver(m, t, Committed)
      BY DEF ClaimInv
    <2>3. Stored(w, t)[m] = rows[t][m] + SumFunction(Gain(w, m, t))
      BY <1>1 DEF ClaimPlan
    <2> QED
      BY <1>3, <1>5, <2>1, <2>2, <2>3
  <1> QED
    BY <1>2, <1>3, <1>4, <1>5, <1>6 DEF w

(* A plan that survives writes none of the committed rows: what it gains is  *)
(* what it gained, and where it leaves a transaction alone that is nothing. *)
LEMMA ClaimPlanSurvives ==
  ASSUME ClaimInv, NEW s \in Session, Commit(s), NEW v, ClaimPlan(v),
         DOMAIN v \cap DOMAIN request[s].writes = {}
  PROVE  ClaimPlan(v)'
  <1> DEFINE w == request[s].writes
  <1>1. DOMAIN w \subseteq DOMAIN rows
    BY DEF ClaimInv, Commit, ClaimPlan
  <1>2. DOMAIN rows' = DOMAIN rows /\ \A k \in DOMAIN v : rows'[k] = rows[k]
    BY <1>1, CommitWrites DEF ClaimPlan
  <1>3. \A t \in Txs, m \in Sums : Gain(v, m, t)' = Gain(v, m, t)
    BY <1>2 DEF Gain
  <1>4. /\ \A c \in Claims : ClaimOK(rows'[c])
        /\ \A t \in Txs, m \in Sums : rows'[t][m] = SumOver(m, t, Committed')
    BY CommitMovesSums
  <1>5. ASSUME NEW t \in Txs, NEW m \in Sums
        PROVE  Stored(v, t)'[m] = rows'[t][m] + SumFunction(Gain(v, m, t))
    <2>1. Stored(v, t)[m] = rows[t][m] + SumFunction(Gain(v, m, t))
      BY DEF ClaimPlan
    <2>2. CASE t \in DOMAIN v
      BY <1>2, <2>1, <2>2 DEF Stored
    <2>3. CASE t \notin DOMAIN v
      <3>1. Stored(v, t)'[m] = rows'[t][m] /\ Stored(v, t)[m] = rows[t][m]
        BY <2>3 DEF Stored
      <3>2. SumFunction(Gain(v, m, t)) \in Int /\ SumOver(m, t, Committed) \in Int
        BY GainIsTheDifference DEF ClaimInv, ClaimPlan
      <3>3. rows[t][m] = SumOver(m, t, Committed)
        BY DEF ClaimInv
      <3>4. SumFunction(Gain(v, m, t)) = 0
        BY <2>1, <3>1, <3>2, <3>3
      <3>5. SumOver(m, t, Committed') \in Int
        <4>1. Committed' = Planned(w)
          BY CommitMovesSums
        <4>2. SumOver(m, t, Planned(w)) = SumOver(m, t, Committed) + SumFunction(Gain(w, m, t))
              /\ SumFunction(Gain(w, m, t)) \in Int
          BY GainIsTheDifference DEF ClaimInv, ClaimPlan, Commit
        <4> QED
          BY <3>2, <4>1, <4>2
      <3> QED
        BY <1>4, <3>1, <3>4, <3>5
    <2> QED
      BY <2>2, <2>3
  <1> QED
    BY <1>2, <1>3, <1>5 DEF ClaimPlan

LEMMA ClaimCommitKeeps ==
  ASSUME ClaimInv, NEW s \in Session, Commit(s)
  PROVE  ClaimInv'
  <1>1. /\ DOMAIN rows' = DOMAIN rows
        /\ \A c \in Claims : ClaimOK(rows'[c])
        /\ \A t \in Txs : /\ DOMAIN rows'[t] = TxFields
                          /\ \A m \in Sums : rows'[t][m] = SumOver(m, t, Committed')
    BY CommitMovesSums
  <1>2. DOMAIN request' = Session /\ DOMAIN request'[s].writes = {}
    BY CommitCloses DEF ClaimInv
  <1>3. \A t \in Txs, m \in Sums : SumOver(m, t, Committed') = SumOver(m, t, Committed)'
    BY DEF SumOver, Shares
  <1>4. ASSUME NEW o \in Session \ stale'
        PROVE  ClaimPlan(request[o].writes)'
    <2>1. CASE o = s
      <3>1. ASSUME NEW plan, DOMAIN plan = {}
            PROVE  ClaimPlan(plan)'
        <4>1. ASSUME NEW t \in Txs, NEW m \in Sums
              PROVE  Stored(plan, t)'[m] = rows'[t][m] + SumFunction(Gain(plan, m, t)')
          <5>1. Gain(plan, m, t)' = [c \in Claims |-> IF c \in {} THEN 1 ELSE 0]
            BY <3>1 DEF Gain
          <5>2. Cardinality({}) = SumFunction([c \in Claims |-> IF c \in {} THEN 1 ELSE 0])
            BY CountIsSum, ClaimAssumption
          <5>3. SumFunction(Gain(plan, m, t)') = 0
            BY <5>1, <5>2, FS_EmptySet
          <5>4. rows'[t][m] \in Int
            <6> DEFINE w == request[s].writes
            <6>1. rows'[t][m] = SumOver(m, t, Planned(w))
              BY CommitMovesSums
            <6>2. /\ SumFunction(Gain(w, m, t)) \in Int /\ SumOver(m, t, Committed) \in Int
                  /\ SumOver(m, t, Planned(w)) = SumOver(m, t, Committed) + SumFunction(Gain(w, m, t))
              BY GainIsTheDifference DEF ClaimInv, ClaimPlan, Commit
            <6> QED
              BY <6>1, <6>2
          <5>5. Stored(plan, t)' = rows'[t]
            BY <3>1 DEF Stored
          <5> QED
            BY <5>3, <5>4, <5>5
        <4> QED
          BY <3>1, <4>1 DEF ClaimPlan
      <3>2. \A plan : DOMAIN plan = {} => ClaimPlan(plan)'
        BY <3>1
      <3> QED
        BY <1>2, <2>1, <3>2
    <2>2. CASE o # s
      <3>1. /\ o \notin stale /\ request'[o] = request[o]
            /\ DOMAIN request[o].writes \cap DOMAIN request[s].writes = {}
        BY <2>2, Survivors DEF ClaimInv
      <3>2. ClaimPlan(request[o].writes)
        BY <3>1 DEF ClaimInv
      <3>3. \A v : ClaimPlan(v) /\ DOMAIN v \cap DOMAIN request[s].writes = {} => ClaimPlan(v)'
        BY ClaimPlanSurvives
      <3> QED
        BY <3>1, <3>2, <3>3
    <2> QED
      BY <2>1, <2>2
  <1> QED
    BY <1>1, <1>2, <1>3, <1>4 DEF ClaimInv

LEMMA ClaimRollbackKeeps ==
  ASSUME ClaimInv, NEW s \in Session, Rollback(s)
  PROVE  ClaimInv'
  <1>1. /\ UNCHANGED rows /\ stale' = stale \ {s}
        /\ \A o \in Session \ {s} : request'[o] = request[o]
    BY DEF Rollback, ClaimInv
  <1>2. DOMAIN request' = Session /\ DOMAIN request'[s].writes = {}
    BY CommitCloses DEF ClaimInv
  <1>3. \A o \in Session \ stale' : ClaimPlan(request'[o].writes)
    <2>1. ClaimPlan(request'[s].writes)
      BY <1>2, NoClaimPlan DEF ClaimInv
    <2> QED
      BY <1>1, <2>1 DEF ClaimInv
  <1>4. \A w : ClaimPlan(w) => ClaimPlan(w)'
    BY <1>1, ClaimPlanStands
  <1>5. \A o \in Session \ stale' : ClaimPlan(request[o].writes)'
    BY <1>3, <1>4
  <1>6. Committed' = Committed
    BY <1>1 DEF Committed
  <1>7. \A t, m : SumOver(m, t, Committed)' = SumOver(m, t, Committed)
    BY <1>6 DEF SumOver, Shares
  <1> QED
    BY <1>1, <1>2, <1>5, <1>7 DEF ClaimInv

(* The recomputed row: its sums are those of the claims as the request will  *)
(* leave them, and a recomputation does not close.                          *)
LEMMA RecomputedRow ==
  ASSUME ClaimInv, NEW t \in Txs, NEW at, NEW changed
  PROVE  /\ DOMAIN RecomputedTx(t, at, changed) = TxFields
         /\ RecomputedTx(t, at, changed).closed = rows[t].closed
         /\ \A m \in Sums : RecomputedTx(t, at, changed)[m] = SumOver(m, t, at)
  <1> DEFINE row == rows[t]
  <1>1. DOMAIN row = TxFields
    BY DEF ClaimInv
  <1> DEFINE n == Cardinality(ClaimsOf(t, at))
             q == IF \E c \in changed : t \in Parents(c, at) /\ Face(at[c]) # Face(rows[c])
                  THEN HasQualityClaim(t, at) ELSE row.quality
             c == Recovered(t, "freight_chargeback", at)
             p == Recovered(t, "lightweight_penalty", at)
             new == [row EXCEPT !.claims = n, !.quality = q, !.chargebacks = c, !.penalties = p]
  <1>3. RecomputedTx(t, at, changed) = new
    BY Zenon DEF RecomputedTx
  <1>4. n = SumOver("claims", t, at) /\ c = SumOver("chargebacks", t, at) /\ p = SumOver("penalties", t, at)
    BY TotalsAre
  <1> HIDE DEF n, q, c, p
  <1>5. /\ DOMAIN new = TxFields /\ new.closed = row.closed
        /\ new.claims = n /\ new.chargebacks = c /\ new.penalties = p
    <2> HIDE DEF row
    <2> QED
      BY <1>1 DEF TxFields
  <1> HIDE DEF new
  <1> QED
    BY <1>3, <1>4, <1>5 DEF Sums

(* A claim that is not of t before or after adds nothing to its sums.       *)
LEMMA StrangersShareNothing ==
  ASSUME NEW t, NEW claim, claim = None \/ claim.tx # t, NEW m \in Sums
  PROVE  Share(m, t, claim) = 0
  BY DEF Share, Sums, Recovery

LEMMA WritingClaimsKeeps ==
  ASSUME ClaimInv, NEW s \in Session, NEW new, DOMAIN new \subseteq Claims,
         \A c \in DOMAIN new : ClaimOK(new[c]), WriteClaims(s, new)
  PROVE  ClaimInv'
  <1> DEFINE at == Over(new, [c \in Claims |-> rows[c]])
             changed == {c \in DOMAIN new : new[c] # rows[c]}
             touched == UNION {Parents(c, at) : c \in changed}
             plan == Over(new, [t \in touched |-> RecomputedTx(t, at, changed)])
             w == Changed(plan)
  <1>1. Begin(s, plan, {})
    BY Zenon DEF WriteClaims
  <1>2. \A c \in Claims : /\ at[c] = IF c \in DOMAIN new THEN new[c] ELSE rows[c]
                          /\ ClaimOK(at[c])
    BY DEF Over, ClaimInv
  <1> HIDE DEF at
  <1>3. touched \subseteq Txs
    BY <1>2 DEF Parents, ClaimInv, ClaimOK
  <1>4. \A t \in touched, c \in changed : at[c] = new[c]
    BY <1>2
  <1>5. \A t \in Txs \ touched, c \in changed :
          /\ rows[c] = None \/ rows[c].tx # t
          /\ at[c] = None \/ at[c].tx # t
    BY DEF Parents
  <1>6. \A c \in Claims \ changed : at[c] = rows[c]
    BY <1>2
  <1>7. changed \subseteq Claims
    OBVIOUS
  <1>8. /\ DOMAIN plan = DOMAIN new \cup touched
        /\ \A c \in DOMAIN new : plan[c] = new[c]
        /\ \A t \in touched : plan[t] = RecomputedTx(t, at, changed)
    <2> HIDE DEF touched, changed
    <2> QED
      BY <1>3, ClaimAssumption DEF Over
  <1> HIDE DEF touched, plan
  <1>9. /\ DOMAIN w = {k \in DOMAIN plan : plan[k] # rows[k]}
        /\ \A k \in DOMAIN w : w[k] = plan[k]
    BY DEF Changed
  <1> HIDE DEF w
  <1>10. ASSUME NEW t \in touched
         PROVE  /\ DOMAIN plan[t] = TxFields /\ plan[t].closed = rows[t].closed
                /\ \A m \in Sums : plan[t][m] = SumOver(m, t, at)
    <2>1. t \in Txs /\ plan[t] = RecomputedTx(t, at, changed)
      BY <1>3, <1>8
    <2> HIDE DEF changed
    <2>2. /\ DOMAIN RecomputedTx(t, at, changed) = TxFields
          /\ RecomputedTx(t, at, changed).closed = rows[t].closed
          /\ \A m \in Sums : RecomputedTx(t, at, changed)[m] = SumOver(m, t, at)
      BY <2>1, RecomputedRow
    <2> QED
      BY <2>1, <2>2
  <1>11. Planned(w) = [c \in Claims |-> at[c]]
    <2> SUFFICES ASSUME NEW c \in Claims
                 PROVE  (IF c \in DOMAIN w THEN w[c] ELSE rows[c]) = at[c]
      BY DEF Planned
    <2>1. c \notin touched
      BY <1>3, ClaimAssumption
    <2>2. CASE c \in DOMAIN w
      BY <1>2, <1>8, <1>9, <2>1, <2>2
    <2>3. CASE c \notin DOMAIN w
      BY <1>2, <1>8, <1>9, <2>1, <2>3
    <2> QED
      BY <2>2, <2>3
  <1>12. ASSUME NEW t \in Txs, NEW m \in Sums
         PROVE  Stored(w, t)[m] = SumOver(m, t, Planned(w))
    <2>1. SumOver(m, t, Planned(w)) = SumOver(m, t, at)
      BY <1>11 DEF SumOver, Shares
    <2>2. t \notin Claims
      BY ClaimAssumption
    <2>3. CASE t \in touched
      <3>1. Stored(w, t) = plan[t]
        BY <1>8, <1>9, <2>3 DEF Stored
      <3> QED
        BY <1>10, <2>1, <2>3, <3>1
    <2>4. CASE t \notin touched
      <3>1. Stored(w, t) = rows[t]
        BY <1>8, <1>9, <2>2, <2>4 DEF Stored
      <3>2. \A c \in Claims : Share(m, t, at[c]) = Share(m, t, rows[c])
        <4> SUFFICES ASSUME NEW c \in Claims PROVE Share(m, t, at[c]) = Share(m, t, rows[c])
          OBVIOUS
        <4>1. CASE c \in changed
          <5> HIDE DEF changed
          <5>1. Share(m, t, at[c]) = 0 /\ Share(m, t, rows[c]) = 0
            BY <1>5, <2>4, <4>1, StrangersShareNothing
          <5> QED
            BY <5>1
        <4>2. CASE c \notin changed
          <5> HIDE DEF changed
          <5> QED
            BY <1>6, <4>2
        <4> QED
          BY <4>1, <4>2
      <3>3. Shares(m, t, at) = Shares(m, t, Committed)
        BY <3>2 DEF Shares, Committed
      <3>4. rows[t][m] = SumOver(m, t, Committed)
        BY DEF ClaimInv
      <3> QED
        BY <2>1, <3>1, <3>3, <3>4 DEF SumOver
    <2> QED
      BY <2>3, <2>4
  <1>13. DOMAIN w \subseteq DOMAIN rows
    BY <1>3, <1>8, <1>9 DEF ClaimInv
  <1>14. \A c \in Claims \cap DOMAIN w : ClaimOK(w[c])
    BY <1>3, <1>8, <1>9, ClaimAssumption
  <1>15. \A t \in Txs \cap DOMAIN w :
           /\ DOMAIN w[t] = TxFields
           /\ w[t].closed => rows[t].closed \/ GrossMargin(rows[t]) >= 0
    <2> SUFFICES ASSUME NEW t \in Txs \cap DOMAIN w
                 PROVE  DOMAIN w[t] = TxFields /\ (w[t].closed => rows[t].closed)
      OBVIOUS
    <2>1. t \in touched /\ w[t] = plan[t]
      BY <1>8, <1>9, ClaimAssumption
    <2> QED
      BY <1>10, <2>1
  <1>16. ClaimPlan(w)
    BY <1>12, <1>13, <1>14, <1>15, SumsMakeAPlan
  <1> QED
    BY <1>1, <1>16, ClaimBeginKeeps DEF w

(* A request on the row of a transaction that leaves its sums alone.         *)
LEMMA WritingATxKeeps ==
  ASSUME ClaimInv, NEW s \in Session, NEW t \in Txs, NEW row,
         DOMAIN row = TxFields, \A m \in Sums : row[m] = rows[t][m],
         row.closed => rows[t].closed \/ GrossMargin(rows[t]) >= 0,
         Begin(s, Row(t, row), {})
  PROVE  ClaimInv'
  <1> DEFINE w == Changed(Row(t, row))
  <1>1. DOMAIN w \subseteq {t} /\ \A k \in DOMAIN w : w[k] = row
    BY DEF Changed, Row
  <1>2. t \in DOMAIN rows /\ t \notin Claims
    BY ClaimAssumption DEF ClaimInv
  <1> HIDE DEF w
  <1>3. Planned(w) = Committed
    BY <1>1, <1>2 DEF Planned, Committed
  <1>4. \A x \in Txs, m \in Sums : Stored(w, x)[m] = rows[x][m]
    BY <1>1 DEF Stored
  <1>5. \A x \in Txs, m \in Sums : Stored(w, x)[m] = SumOver(m, x, Planned(w))
    BY <1>3, <1>4 DEF ClaimInv
  <1>6. ClaimPlan(w)
    BY <1>1, <1>2, <1>5, SumsMakeAPlan
  <1> QED
    BY <1>6, ClaimBeginKeeps DEF w

LEMMA ClaimRequestKeeps ==
  ASSUME ClaimInv, NEW s \in Session, ClaimRequest(s)
  PROVE  ClaimInv'
  <1>0. \A c \in Held : c \in Claims /\ DOMAIN rows[c] = ClaimFields
                        /\ rows[c].amount \in Int /\ rows[c].tx \in Txs
    BY DEF Held, ClaimInv, ClaimOK
  <1>1. CASE CreateClaim(s)
    <2>1. PICK c \in (Claims \cap DOMAIN rows) \ Held, kind \in Kinds, amount \in Amounts, t \in Txs :
            WriteClaims(s, Row(c, [state |-> "pending", kind |-> kind, amount |-> amount, tx |-> t]))
      BY <1>1, Zenon DEF CreateClaim
    <2> DEFINE claim == [state |-> "pending", kind |-> kind, amount |-> amount, tx |-> t]
    <2>2. ClaimOK(claim)
      BY ClaimAssumption DEF ClaimOK, ClaimFields
    <2>3. WriteClaims(s, Row(c, claim))
      BY <2>1, Zenon
    <2> HIDE DEF claim
    <2>4. DOMAIN Row(c, claim) \subseteq Claims /\ \A x \in DOMAIN Row(c, claim) : ClaimOK(Row(c, claim)[x])
      BY <2>2 DEF Row
    <2> QED
      BY <2>3, <2>4, WritingClaimsKeeps
  <1>2. CASE EditClaim(s)
    <2>1. PICK c \in Held, kind \in Kinds, amount \in Amounts, t \in Txs :
            WriteClaims(s, Row(c, [rows[c] EXCEPT !.kind = kind, !.amount = amount, !.tx = t]))
      BY <1>2, Zenon DEF EditClaim
    <2> DEFINE claim == [rows[c] EXCEPT !.kind = kind, !.amount = amount, !.tx = t]
    <2>2. ClaimOK(claim)
      <3>1. DOMAIN claim = ClaimFields /\ claim.amount = amount /\ claim.tx = t
        BY <1>0 DEF ClaimFields
      <3> QED
        BY <3>1, ClaimAssumption DEF ClaimOK
    <2>3. WriteClaims(s, Row(c, claim))
      BY <2>1, Zenon
    <2> HIDE DEF claim
    <2>4. DOMAIN Row(c, claim) \subseteq Claims /\ \A x \in DOMAIN Row(c, claim) : ClaimOK(Row(c, claim)[x])
      BY <1>0, <2>2 DEF Row
    <2> QED
      BY <2>3, <2>4, WritingClaimsKeeps
  <1>3. CASE UnlinkClaim(s)
    <2>1. PICK c \in Held : WriteClaims(s, Row(c, None))
      BY <1>3, Zenon DEF UnlinkClaim
    <2>2. DOMAIN Row(c, None) \subseteq Claims /\ \A x \in DOMAIN Row(c, None) : ClaimOK(Row(c, None)[x])
      BY <1>0 DEF Row, ClaimOK
    <2> QED
      BY <2>1, <2>2, WritingClaimsKeeps
  <1>4. ASSUME NEW C \in SUBSET Held, NEW to,
               WriteClaims(s, [c \in C |-> [rows[c] EXCEPT !.state = to]])
        PROVE  ClaimInv'
    <2> DEFINE new == [c \in C |-> [rows[c] EXCEPT !.state = to]]
    <2>1. DOMAIN new = C
      OBVIOUS
    <2>2. ASSUME NEW c \in C PROVE ClaimOK(new[c])
      <3> DEFINE row == rows[c]
                 claim == [row EXCEPT !.state = to]
      <3>1. DOMAIN row = ClaimFields /\ row.amount \in Int /\ row.tx \in Txs
        BY <1>0
      <3>2. new[c] = claim
        OBVIOUS
      <3> HIDE DEF new, row
      <3>3. DOMAIN claim = ClaimFields /\ claim.amount = row.amount /\ claim.tx = row.tx
        BY <3>1 DEF ClaimFields
      <3> HIDE DEF claim
      <3> QED
        BY <3>1, <3>2, <3>3 DEF ClaimOK
    <2>3. C \subseteq Claims
      BY <1>0
    <2>4. WriteClaims(s, new)
      BY <1>4, Zenon
    <2> HIDE DEF new
    <2> QED
      BY <2>1, <2>2, <2>3, <2>4, WritingClaimsKeeps
  <1>5. CASE Press(s)
    <2>1. PICK c \in Held,
               move \in UNION {ActionStart, ActionEscalate, ActionResolve, ActionArchive, ActionReopen} :
            WriteClaims(s, Row(c, [rows[c] EXCEPT !.state = move[2]]))
      BY <1>5, Zenon DEF Press
    <2>2. Row(c, [rows[c] EXCEPT !.state = move[2]]) = [x \in {c} |-> [rows[x] EXCEPT !.state = move[2]]]
      BY DEF Row
    <2>3. WriteClaims(s, [x \in {c} |-> [rows[x] EXCEPT !.state = move[2]]])
      BY <2>1, <2>2
    <2> QED
      BY <1>4, <2>3, Zenon
  <1>6. CASE BulkStatus(s)
    <2>1. PICK to \in ClaimState, C \in SUBSET Held :
            WriteClaims(s, [c \in C |-> [rows[c] EXCEPT !.state = to]])
      <3>1. \A to : {c \in Held : rows[c].state # "archived" \/ to = "in_progress"} \subseteq Held
        OBVIOUS
      <3> QED
        BY <1>6, <3>1, Zenon DEF BulkStatus
    <2> QED
      BY <1>4, <2>1, Zenon
  <1>7. CASE CheckSla(s)
    <2>1. PICK C \in SUBSET {c \in Held : rows[c].state = "pending"} :
            WriteClaims(s, [c \in C |-> [rows[c] EXCEPT !.state = "escalated"]])
      BY <1>7, Zenon DEF CheckSla
    <2>2. C \in SUBSET Held
      OBVIOUS
    <2> QED
      BY <1>4, <2>1, <2>2, Zenon
  <1>8. CASE Amend(s)
    <2>1. PICK t \in Deals, balance \in Balances :
            Begin(s, Row(t, [rows[t] EXCEPT !.balance = balance]), {})
      BY <1>8, Zenon DEF Amend
    <2> DEFINE row == rows[t]
               new == [row EXCEPT !.balance = balance]
    <2>2. t \in Txs /\ DOMAIN row = TxFields
      BY DEF Deals, ClaimInv
    <2>3. Begin(s, Row(t, new), {})
      BY <2>1, Zenon
    <2>4. DOMAIN new = TxFields /\ (\A m \in Sums : new[m] = row[m]) /\ new.closed = row.closed
      <3> HIDE DEF row
      <3> QED
        BY <2>2 DEF TxFields, Sums
    <2> HIDE DEF new
    <2> QED
      BY <2>2, <2>3, <2>4, WritingATxKeeps
  <1>9. CASE ActionClose(s)
    <2>1. PICK t \in Deals :
            /\ GrossMargin(rows[t]) >= 0
            /\ Begin(s, Row(t, [rows[t] EXCEPT !.closed = TRUE]), {})
      BY <1>9, Zenon DEF ActionClose
    <2> DEFINE row == rows[t]
               new == [row EXCEPT !.closed = TRUE]
    <2>2. t \in Txs /\ DOMAIN row = TxFields
      BY DEF Deals, ClaimInv
    <2>3. Begin(s, Row(t, new), {})
      BY <2>1, Zenon
    <2>4. DOMAIN new = TxFields /\ (\A m \in Sums : new[m] = row[m])
      <3> HIDE DEF row
      <3> QED
        BY <2>2 DEF TxFields, Sums
    <2> HIDE DEF new
    <2> QED
      BY <2>1, <2>2, <2>3, <2>4, WritingATxKeeps
  <1> QED
    BY <1>1, <1>2, <1>3, <1>5, <1>6, <1>7, <1>8, <1>9, Zenon DEF ClaimRequest

LEMMA ClaimStepKeeps == ClaimInv /\ [ClaimNext]_requestVars => ClaimInv'
  <1> SUFFICES ASSUME ClaimInv, [ClaimNext]_requestVars PROVE ClaimInv'
    OBVIOUS
  <1>1. CASE UNCHANGED requestVars
    <2>1. UNCHANGED <<rows, request, stale>>
      BY <1>1 DEF requestVars
    <2>2. \A w : ClaimPlan(w) => ClaimPlan(w)'
      BY <2>1, ClaimPlanStands
    <2>3. \A s \in Session \ stale : ClaimPlan(request[s].writes)'
      BY <2>1, <2>2 DEF ClaimInv
    <2>4. Committed' = Committed
      BY <2>1 DEF Committed
    <2>5. \A t, m : SumOver(m, t, Committed)' = SumOver(m, t, Committed)
      BY <2>4 DEF SumOver, Shares
    <2> QED
      BY <2>1, <2>3, <2>5 DEF ClaimInv
  <1>2. CASE ClaimNext
    <2>1. PICK s \in Session : ClaimRequest(s) \/ Commit(s) \/ Rollback(s)
      BY <1>2, Zenon DEF ClaimNext, Served
    <2> QED
      BY <2>1, ClaimRequestKeeps, ClaimCommitKeeps, ClaimRollbackKeeps
  <1> QED
    BY <1>1, <1>2

LEMMA ClaimInductive == ClaimSpec => []ClaimInv
  BY ClaimInitKeeps, ClaimStepKeeps, PTL DEF ClaimSpec

(* However requests on the claims of a transaction interleave, it stores     *)
(* the number of its claims and what the resolved ones recovered, whatever   *)
(* the sign of the amounts (_compute_claim_count,                          *)
(* _compute_chargebacks_penalties, transaction_claims.py:30-70).            *)
THEOREM StoredSumsAreExact == ClaimSpec => []RecoveriesExact
  <1>1. ClaimInv => RecoveriesExact
    <2> SUFFICES ASSUME ClaimInv, NEW t \in Txs
                 PROVE  /\ rows[t].claims = Cardinality(ClaimsOf(t, Committed))
                        /\ rows[t].chargebacks = Recovered(t, "freight_chargeback", Committed)
                        /\ rows[t].penalties = Recovered(t, "lightweight_penalty", Committed)
      BY DEF RecoveriesExact, Deals
    <2>1. \A m \in Sums : rows[t][m] = SumOver(m, t, Committed)
      BY DEF ClaimInv
    <2> QED
      BY <2>1, TotalsAre DEF Sums
  <1> QED
    BY <1>1, ClaimInductive, PTL

(* Requests only plan: what is committed changes with a commit.             *)
LEMMA ClaimsOnlyPlan ==
  ASSUME ClaimInv, NEW s \in Session, ClaimRequest(s)
  PROVE  UNCHANGED rows
  <1>1. \A plan, events : Begin(s, plan, events) => UNCHANGED rows
    BY DEF Begin
  <1>2. \A new : WriteClaims(s, new) => UNCHANGED rows
    BY <1>1, Zenon DEF WriteClaims
  <1>3. CASE CreateClaim(s) \/ EditClaim(s) \/ UnlinkClaim(s)
    BY <1>2, <1>3, Zenon DEF CreateClaim, EditClaim, UnlinkClaim
  <1>4. CASE Press(s) \/ BulkStatus(s) \/ CheckSla(s)
    BY <1>2, <1>4, Zenon DEF Press, BulkStatus, CheckSla
  <1>5. CASE Amend(s) \/ ActionClose(s)
    BY <1>1, <1>5, Zenon DEF Amend, ActionClose
  <1> QED
    BY <1>3, <1>4, <1>5, Zenon DEF ClaimRequest

(* A transaction is closed on the margin of that moment (action_close,       *)
(* transaction.py:952).                                                    *)
THEOREM ClosesKeepTheMargin == ClaimSpec => LiveMargin
  <1> DEFINE Keeps == \A t \in Deals : ~rows[t].closed /\ rows'[t].closed =>
               rows[t].balance + Recovered(t, "freight_chargeback", Committed)
                               + Recovered(t, "lightweight_penalty", Committed) >= 0
  <1>1. ASSUME ClaimInv, [ClaimNext]_requestVars
        PROVE  [Keeps]_rows
    <2> SUFFICES ASSUME ~UNCHANGED rows PROVE Keeps
      OBVIOUS
    <2>1. PICK s \in Session : Commit(s)
      <3>1. ClaimNext
        BY <1>1 DEF requestVars
      <3>2. PICK s \in Session : ClaimRequest(s) \/ Commit(s) \/ Rollback(s)
        BY <3>1, Zenon DEF ClaimNext, Served
      <3> QED
        BY <1>1, <3>2, ClaimsOnlyPlan DEF Rollback
    <2> DEFINE w == request[s].writes
    <2>2. ClaimPlan(w)
      BY <1>1, <2>1 DEF ClaimInv, Commit
    <2> SUFFICES ASSUME NEW t \in Txs, ~rows[t].closed, rows'[t].closed
                 PROVE  rows[t].balance + Recovered(t, "freight_chargeback", Committed)
                                        + Recovered(t, "lightweight_penalty", Committed) >= 0
      BY DEF Deals
    <2>3. rows'[t] = Stored(w, t)
      BY <1>1, <2>1, CommitMovesSums
    <2>4. t \in DOMAIN w /\ w[t].closed
      BY <2>3 DEF Stored
    <2>5. rows[t].balance + rows[t].chargebacks + rows[t].penalties >= 0
      BY <2>2, <2>4 DEF ClaimPlan, GrossMargin
    <2>6. \A m \in Sums : rows[t][m] = SumOver(m, t, Committed)
      BY <1>1 DEF ClaimInv
    <2>7. /\ rows[t].chargebacks = Recovered(t, "freight_chargeback", Committed)
          /\ rows[t].penalties = Recovered(t, "lightweight_penalty", Committed)
      BY <2>6, TotalsAre DEF Sums
    <2> QED
      BY <2>5, <2>7
  <1> QED
    BY <1>1, ClaimInductive, PTL DEF ClaimSpec, LiveMargin

-----------------------------------------------------------------------------
(* The run of BackOffice is about the same specifications as the theorems    *)
(* above: a behaviour of the office is one of the part that it picks, with   *)
(* every operation of that part, and leaves the others as they are.         *)
THEOREM OfficeIsItsParts ==
  OfficeSpec => /\ part = "documents" => Spec
                /\ part = "claims" => ClaimSpec
                /\ part = "deals" => DealSpec
                /\ part = "imports" => ImportSpec
                /\ part = "payouts" => PayoutSpec
                /\ part = "costs" => LedgerSpec
                /\ part = "states" => TradeSpec
  <1>1. OfficeSpec => (part = "documents" => Spec)
    <2>1. OfficeInit /\ part = "documents" => Init
      BY DEF OfficeInit
    <2>2. part = "documents" /\ [OfficeNext]_officeVars => (part = "documents")' /\ [Next]_vars
      BY DEF OfficeNext, officeVars
    <2> QED
      BY <2>1, <2>2, PTL DEF OfficeSpec, Spec
  <1>2. OfficeSpec => (part = "claims" => ClaimSpec)
    <2>1. OfficeInit /\ part = "claims" => ClaimInit
      BY DEF OfficeInit
    <2>2. part = "claims" /\ [OfficeNext]_officeVars => (part = "claims")' /\ [ClaimNext]_requestVars
      BY DEF OfficeNext, officeVars
    <2> QED
      BY <2>1, <2>2, PTL DEF OfficeSpec, ClaimSpec
  <1>3. OfficeSpec => (part = "deals" => DealSpec)
    <2>1. OfficeInit /\ part = "deals" => DealInit
      BY DEF OfficeInit
    <2>2. part = "deals" /\ [OfficeNext]_officeVars => (part = "deals")' /\ [DealNext]_requestVars
      BY DEF OfficeNext, officeVars
    <2> QED
      BY <2>1, <2>2, PTL DEF OfficeSpec, DealSpec
  <1>4. OfficeSpec => (part = "imports" => ImportSpec)
    <2>1. OfficeInit /\ part = "imports" => ImportInit
      BY DEF OfficeInit
    <2>2. part = "imports" /\ [OfficeNext]_officeVars => (part = "imports")' /\ [ImportNext]_importVars
      BY DEF OfficeNext, officeVars
    <2> QED
      BY <2>1, <2>2, PTL DEF OfficeSpec, ImportSpec
  <1>5. OfficeSpec => (part = "payouts" => PayoutSpec)
    <2>1. OfficeInit /\ part = "payouts" => PayoutInit
      BY DEF OfficeInit
    <2>2. part = "payouts" /\ [OfficeNext]_officeVars => (part = "payouts")' /\ [PayoutNext]_requestVars
      BY DEF OfficeNext, officeVars
    <2> QED
      BY <2>1, <2>2, PTL DEF OfficeSpec, PayoutSpec
  <1>6. OfficeSpec => (part = "costs" => LedgerSpec)
    <2>1. OfficeInit /\ part = "costs" => LedgerInit
      BY DEF OfficeInit
    <2>2. part = "costs" /\ [OfficeNext]_officeVars => (part = "costs")' /\ [LedgerNext]_requestVars
      BY DEF OfficeNext, officeVars
    <2> QED
      BY <2>1, <2>2, PTL DEF OfficeSpec, LedgerSpec
  <1>7. OfficeSpec => (part = "states" => TradeSpec)
    <2>1. OfficeInit /\ part = "states" => TradeInit
      BY DEF OfficeInit
    <2>2. part = "states" /\ [OfficeNext]_officeVars => (part = "states")' /\ [TradeNext]_requestVars
      BY DEF OfficeNext, officeVars
    <2> QED
      BY <2>1, <2>2, PTL DEF OfficeSpec, TradeSpec
  <1> QED
    BY <1>1, <1>2, <1>3, <1>4, <1>5, <1>6, <1>7

-----------------------------------------------------------------------------
(***************************************************************************)
(* Freight advice.  A score is a fraction with a positive denominator, and   *)
(* AtMost orders these totally, so that Before is a strict order of the      *)
(* quotes and a finite set of them has one first.                           *)
(***************************************************************************)
Fraction == Int \X (Nat \ {0})

LEMMA SumIsFraction ==
  ASSUME NEW x \in Fraction, NEW y \in Fraction, NEW k \in Int
  PROVE  Plus(x, y) \in Fraction /\ Scaled(k, x) \in Fraction
  <1>1. /\ x[1] \in Int /\ x[2] \in Int /\ x[2] > 0
        /\ y[1] \in Int /\ y[2] \in Int /\ y[2] > 0
    BY DEF Fraction
  <1>2. \A a, b \in Int : a * b \in Int /\ (a > 0 /\ b > 0 => a * b > 0)
    OBVIOUS
  <1>3. /\ x[1] * y[2] \in Int /\ y[1] * x[2] \in Int /\ k * x[1] \in Int
        /\ x[2] * y[2] \in Int /\ x[2] * y[2] > 0
    BY <1>1, <1>2
  <1> QED
    BY <1>1, <1>3 DEF Fraction, Plus, Scaled

(* Factors that cancel.                                                    *)
LEMMA Cancel ==
  ASSUME NEW a \in Int, NEW b \in Int, NEW k \in Int, k > 0
  PROVE  a * k <= b * k <=> a <= b
  <1>1. CASE a <= b
    <2>1. (b - a) * k >= 0
      BY <1>1
    <2>2. (b - a) * k = b * k - a * k
      OBVIOUS
    <2> QED
      BY <1>1, <2>1, <2>2
  <1>2. CASE a > b
    <2>1. (a - b) * k > 0
      BY <1>2
    <2>2. (a - b) * k = a * k - b * k
      OBVIOUS
    <2> QED
      BY <1>2, <2>1, <2>2
  <1> QED
    BY <1>1, <1>2

LEMMA FractionsAreOrdered ==
  ASSUME NEW x \in Fraction, NEW y \in Fraction, NEW z \in Fraction
  PROVE  /\ AtMost(x, y) \/ AtMost(y, x)
         /\ AtMost(x, y) /\ AtMost(y, z) => AtMost(x, z)
  <1>1. PICK a \in Int, b \in Nat \ {0} : x[1] = a /\ x[2] = b
    BY DEF Fraction
  <1>2. PICK c \in Int, d \in Nat \ {0} : y[1] = c /\ y[2] = d
    BY DEF Fraction
  <1>3. PICK e \in Int, f \in Nat \ {0} : z[1] = e /\ z[2] = f
    BY DEF Fraction
  <1>4. a * d \in Int /\ c * b \in Int /\ c * f \in Int /\ e * d \in Int /\ a * f \in Int /\ e * b \in Int
    OBVIOUS
  <1>5. AtMost(x, y) \/ AtMost(y, x)
    BY <1>1, <1>2, <1>4 DEF AtMost
  <1>6. ASSUME a * d <= c * b, c * f <= e * d PROVE a * f <= e * b
    <2>1. (a * d) * f <= (c * b) * f
      BY <1>4, <1>6, Cancel
    <2>2. (c * f) * b <= (e * d) * b
      BY <1>4, <1>6, Cancel
    <2>3. (a * d) * f = (a * f) * d /\ (c * b) * f = (c * f) * b /\ (e * d) * b = (e * b) * d
      OBVIOUS
    <2>4. (a * f) * d \in Int /\ (c * f) * b \in Int /\ (e * b) * d \in Int
      BY <1>4
    <2>5. (a * f) * d <= (e * b) * d
      BY <2>1, <2>2, <2>3, <2>4
    <2> QED
      BY <1>4, <2>5, Cancel
  <1> QED
    BY <1>1, <1>2, <1>3, <1>5, <1>6 DEF AtMost

-----------------------------------------------------------------------------
(* The averages and the scores are fractions.                               *)
Outcomes(S) ==
  IsFiniteSet(S) /\ \A o \in S : o.amount \in Int /\ o.weight \in Nat \ {0}

LEMMA WeightsAddUp ==
  ASSUME NEW S, Outcomes(S), S # {}
  PROVE  Average(S) \in Fraction
  <1> DEFINE v == [o \in S |-> o.amount * o.weight]
             w == [o \in S |-> o.weight]
             one == [o \in S |-> 1]
  <1>1. /\ v \in [S -> Int] /\ w \in [S -> Int] /\ one \in [S -> Int]
        /\ \A o \in S : one[o] <= w[o]
    BY DEF Outcomes
  <1>2. SumFunction(one) = Cardinality(S) /\ Cardinality(S) \in Nat \ {0}
    <2>1. Cardinality(S) \in Nat \ {0}
      BY FS_CardinalityType, FS_EmptySet DEF Outcomes
    <2>2. IsFiniteSet(S) /\ 1 \in Int
      BY DEF Outcomes
    <2>3. SumFunction(one) = 1 * Cardinality(S)
      BY <2>2, SumOfConstant, Zenon
    <2> QED
      BY <2>1, <2>3
  <1>3. Average(S) = <<SumFunction(v), SumFunction(w)>>
    BY DEF Average, Total
  <1> HIDE DEF v, w, one
  <1>4. SumFunction(v) \in Int /\ SumFunction(w) \in Int
    BY <1>1, SumsAdd DEF Outcomes
  <1>5. SumFunction(one) <= SumFunction(w)
    BY <1>1, SumsCompare DEF Outcomes
  <1> QED
    BY <1>2, <1>3, <1>4, <1>5 DEF Fraction

(* Of two numbers.                                                         *)
LEMMA OfTwo ==
  ASSUME NEW a \in Int, NEW b \in Int
  PROVE  /\ Min({a, b}) = IF a <= b THEN a ELSE b
         /\ Max({a, b}) = IF a >= b THEN a ELSE b
  BY DEF Min, Max

LEMMA NearnessIsFraction ==
  ASSUME NEW S, Outcomes(S), S # {}, NEW amount \in Int
  PROVE  Nearness(amount, S) \in Fraction
  <1> DEFINE average == Average(S)
             scale == Max({average[1], average[2]})
             gap == Distance(amount * average[2], average[1])
  <1>1. average[1] \in Int /\ average[2] \in Int /\ average[2] > 0
    BY WeightsAddUp DEF Fraction
  <1>2. Nearness(amount, S) = <<Max({0, scale - gap}), scale>>
    BY DEF Nearness
  <1> HIDE DEF average
  <1>3. scale \in Int /\ scale > 0
    <2>1. scale = IF average[1] >= average[2] THEN average[1] ELSE average[2]
      BY <1>1, OfTwo, Zenon
    <2> QED
      BY <1>1, <2>1
  <1>4. amount * average[2] \in Int
    BY <1>1
  <1>5. gap \in Int
    BY <1>1, <1>4 DEF Distance
  <1> HIDE DEF scale, gap
  <1>6. Max({0, scale - gap}) \in Int
    <2>1. 0 \in Int /\ scale - gap \in Int
      BY <1>3, <1>5
    <2>2. Max({0, scale - gap}) = IF 0 >= scale - gap THEN 0 ELSE scale - gap
      BY <2>1, OfTwo, Zenon
    <2> QED
      BY <2>1, <2>2
  <1> QED
    BY <1>2, <1>3, <1>6 DEF Fraction

(* What the ranking is given: quotes with numbers of their own.             *)
Quotes(S) ==
  /\ IsFiniteSet(S)
  /\ \A q \in S : /\ q.id \in Int /\ q.amount \in Int /\ q.fresh \in Int
                  /\ q.timeliness \in DOMAIN Timeliness
  /\ \A p, q \in S : p.id = q.id => p = q

Ranked(quotes, currency) == {q \in quotes : Rankable(q, currency)}

LEMMA ScoreIsFraction ==
  ASSUME NEW quotes, Quotes(quotes), NEW outcomes, Outcomes(outcomes), NEW currency,
         NEW q \in Ranked(quotes, currency)
  PROVE  Score(q, quotes, outcomes, currency) \in Fraction
  <1> DEFINE rivals == {r.amount : r \in {p \in quotes : Rankable(p, currency)}}
  <1>1. q \in quotes /\ q.amount \in Int /\ q.amount \in rivals /\ rivals \subseteq Int
    BY DEF Ranked, Quotes
  <1>2. IsFiniteSet(rivals)
    <2> DEFINE S == {p \in quotes : Rankable(p, currency)}
               T == {r.amount : r \in S}
    <2>1. IsFiniteSet(S)
      BY FS_Subset DEF Quotes
    <2>2. [r \in S |-> r.amount] \in [S -> T]
      OBVIOUS
    <2>3. [r \in S |-> r.amount] \in Surjection(S, T)
      BY <2>2 DEF Surjection
    <2> QED
      BY <2>1, <2>3, FS_Surjection
  <1>3. PriceScore(q.amount, rivals) \in Fraction
    <2>1. Min(rivals) \in Int /\ Max(rivals) \in Int /\ Min(rivals) <= Max(rivals)
      BY <1>1, <1>2, Extremes
    <2> HIDE DEF rivals
    <2>2. CASE Min(rivals) = Max(rivals)
      BY <2>2 DEF PriceScore, Fraction
    <2>3. CASE Min(rivals) # Max(rivals)
      BY <1>1, <2>1, <2>3 DEF PriceScore, Fraction
    <2> QED
      BY <2>2, <2>3
  <1>4. \A S \in SUBSET outcomes : Outcomes(S)
    BY FS_Subset DEF Outcomes
  <1>5. LaneScore(q, outcomes) \in Fraction
    <2> DEFINE known == {o \in outcomes : o.currency = q.currency}
    <2>1. LaneScore(q, outcomes) = IF known = {} THEN <<1, 2>> ELSE Nearness(q.amount, known)
      BY DEF LaneScore
    <2>2. Outcomes(known)
      BY <1>4
    <2> HIDE DEF known
    <2>3. <<1, 2>> \in Fraction
      BY DEF Fraction
    <2> QED
      BY <1>1, <2>1, <2>2, <2>3, NearnessIsFraction
  <1>6. CarrierScore(q, outcomes) \in Fraction
    <2> DEFINE known == {o \in outcomes : o.carrier = q.carrier /\ o.currency = q.currency}
               near == Nearness(q.amount, known)
    <2>1. CarrierScore(q, outcomes) =
            IF known = {} THEN <<1, 2>>
            ELSE <<Min({Cardinality(known), 5}) * near[2] + 5 * near[1], 10 * near[2]>>
      BY DEF CarrierScore
    <2>2. Outcomes(known)
      BY <1>4
    <2> HIDE DEF known
    <2>3. CASE known = {}
      BY <2>1, <2>3 DEF Fraction
    <2>4. CASE known # {}
      <3>1. near[1] \in Int /\ near[2] \in Int /\ near[2] > 0
        BY <1>1, <2>2, <2>4, NearnessIsFraction DEF Fraction
      <3>2. Cardinality(known) \in Int
        BY <2>2, FS_CardinalityType DEF Outcomes
      <3>3. Min({Cardinality(known), 5}) \in Int
        BY <3>2, OfTwo
      <3> HIDE DEF near
      <3>4. Min({Cardinality(known), 5}) * near[2] + 5 * near[1] \in Int
        BY <3>1, <3>3
      <3> QED
        BY <2>1, <2>4, <3>1, <3>4 DEF Fraction
    <2> QED
      BY <2>3, <2>4
  <1>7. <<q.fresh + Timeliness[q.timeliness], 2>> \in Fraction
    <2>1. q.fresh \in Int /\ Timeliness[q.timeliness] \in Int
      BY <1>1 DEF Quotes, Timeliness
    <2> QED
      BY <2>1 DEF Fraction
  <1>8. Score(q, quotes, outcomes, currency) =
          Plus(Plus(Scaled(55, PriceScore(q.amount, rivals)), Scaled(20, LaneScore(q, outcomes))),
               Plus(Scaled(15, CarrierScore(q, outcomes)), <<q.fresh + Timeliness[q.timeliness], 2>>))
    BY DEF Score
  <1> HIDE DEF rivals
  <1>9. /\ Scaled(55, PriceScore(q.amount, rivals)) \in Fraction
        /\ Scaled(20, LaneScore(q, outcomes)) \in Fraction
        /\ Scaled(15, CarrierScore(q, outcomes)) \in Fraction
    BY <1>3, <1>5, <1>6, SumIsFraction
  <1> QED
    BY <1>7, <1>8, <1>9, SumIsFraction

-----------------------------------------------------------------------------
(* Rounding a score to a whole number of parts turns no two around.         *)
LEMMA RoundingKeepsOrder ==
  ASSUME NEW x \in Fraction
  PROVE  /\ Rounded(x) \in Int
         /\ \A y \in Fraction : AtMost(x, y) => Rounded(x) <= Rounded(y)
  <1> DEFINE n(z) == Grain * z[1]
             whole(z) == n(z) \div z[2]
             rest(z) == n(z) % z[2]
             Up(z) == 2 * rest(z) > z[2] \/ (2 * rest(z) = z[2] /\ whole(z) % 2 = 1)
  <1>1. \A z \in Fraction :
          /\ n(z) \in Int /\ z[1] \in Int /\ z[2] \in Int /\ z[2] > 0
          /\ whole(z) \in Int /\ rest(z) \in Int
          /\ n(z) = whole(z) * z[2] + rest(z) /\ 0 <= rest(z) /\ rest(z) < z[2]
    <2> TAKE z \in Fraction
    <2>1. z[1] \in Int /\ z[2] \in Int /\ z[2] > 0 /\ n(z) \in Int
      BY LimitAssumption DEF Fraction
    <2> HIDE DEF n
    <2>2. \A i, k \in Int : k > 0 => /\ (i \div k) \in Int /\ (i % k) \in Int
                                     /\ i = (i \div k) * k + (i % k) /\ 0 <= (i % k) /\ (i % k) < k
      OBVIOUS
    <2> QED
      BY <2>1, <2>2
  <1>2. \A z \in Fraction : Rounded(z) = IF Up(z) THEN whole(z) + 1 ELSE whole(z)
    BY DEF Rounded
  <1>3. ASSUME NEW y \in Fraction, AtMost(x, y) PROVE Rounded(x) <= Rounded(y)
    <2>1. PICK a \in Int, b \in Int : a = n(x) /\ b = x[2]
      BY <1>1
    <2>2. PICK c \in Int, d \in Int : c = n(y) /\ d = y[2]
      BY <1>1
    <2>3. a * d <= c * b
      <3>1. x[1] * y[2] <= y[1] * x[2] /\ x[1] * y[2] \in Int /\ y[1] * x[2] \in Int
        BY <1>1, <1>3 DEF AtMost
      <3>2. Grain \in Int /\ Grain > 0
        BY LimitAssumption
      <3>3. (x[1] * y[2]) * Grain <= (y[1] * x[2]) * Grain
        BY <3>1, <3>2, Cancel
      <3>4. \A u, v, w \in Int : (w * u) * v = (u * v) * w
        OBVIOUS
      <3>5. a * d = (x[1] * y[2]) * Grain /\ c * b = (y[1] * x[2]) * Grain
        <4>1. (Grain * x[1]) * y[2] = (x[1] * y[2]) * Grain
          BY <1>1, <3>2, <3>4
        <4>2. (Grain * y[1]) * x[2] = (y[1] * x[2]) * Grain
          BY <1>1, <3>2, <3>4
        <4> QED
          BY <2>1, <2>2, <4>1, <4>2
      <3> QED
        BY <3>3, <3>5
    <2>4. PICK f \in Int, g \in Int, r \in Int, t \in Int :
            /\ f = whole(x) /\ r = rest(x) /\ g = whole(y) /\ t = rest(y)
      BY <1>1
    <2>5. /\ a = f * b + r /\ 0 <= r /\ r < b
          /\ c = g * d + t /\ 0 <= t /\ t < d
          /\ b > 0 /\ d > 0
      BY <1>1, <2>1, <2>2, <2>4
    <2>6. /\ Up(x) <=> 2 * r > b \/ (2 * r = b /\ f % 2 = 1)
          /\ Up(y) <=> 2 * t > d \/ (2 * t = d /\ g % 2 = 1)
      BY <2>1, <2>2, <2>4
    <2>7. /\ Rounded(x) = IF Up(x) THEN f + 1 ELSE f
          /\ Rounded(y) = IF Up(y) THEN g + 1 ELSE g
      BY <1>2, <2>4
    <2> HIDE DEF Up, n, whole, rest
    <2>8. f * (b * d) + r * d <= g * (b * d) + t * b
      <3>1. a * d = f * (b * d) + r * d /\ c * b = g * (b * d) + t * b
        BY <2>5
      <3> QED
        BY <2>3, <3>1
    <2>9. r * d < b * d /\ t * b < b * d /\ 0 <= r * d /\ 0 <= t * b
      BY <2>5, Cancel
    <2>10. f <= g
      <3>1. SUFFICES ASSUME f >= g + 1 PROVE FALSE
        OBVIOUS
      <3>2. (g + 1) * (b * d) <= f * (b * d)
        BY <2>5, <3>1, Cancel
      <3>3. (g + 1) * (b * d) = g * (b * d) + b * d
        OBVIOUS
      <3> QED
        BY <2>8, <2>9, <3>2, <3>3
    <2>11. CASE f < g
      BY <2>7, <2>11
    <2>12. CASE f = g
      <3>1. r * d <= t * b
        BY <2>8, <2>12
      <3>2. 2 * r > b => 2 * t > d
        <4>1. SUFFICES ASSUME 2 * r > b, 2 * t <= d PROVE FALSE
          OBVIOUS
        <4>2. b * d < (2 * r) * d /\ (2 * t) * b <= d * b
          BY <2>5, <4>1, Cancel
        <4> QED
          BY <3>1, <4>2
      <3>3. 2 * r = b => 2 * t >= d
        <4>1. SUFFICES ASSUME 2 * r = b, 2 * t < d PROVE FALSE
          OBVIOUS
        <4>2. (2 * r) * d = b * d /\ (2 * t) * b < d * b
          BY <2>5, <4>1, Cancel
        <4> QED
          BY <3>1, <4>2
      <3>4. Up(x) => Up(y)
        BY <2>6, <2>12, <3>2, <3>3
      <3> QED
        BY <2>7, <2>12, <3>4
    <2> QED
      BY <2>10, <2>11, <2>12
  <1>4. Rounded(x) \in Int
    BY <1>1, <1>2
  <1> QED
    BY <1>3, <1>4

-----------------------------------------------------------------------------
(* Of the eligible quotes every two are ordered.                            *)
LEMMA QuotesAreOrdered ==
  ASSUME NEW quotes, Quotes(quotes), NEW outcomes, Outcomes(outcomes), NEW currency,
         NEW p \in Ranked(quotes, currency), NEW q \in Ranked(quotes, currency),
         NEW r \in Ranked(quotes, currency)
  PROVE  /\ p # q => Before(p, q, quotes, outcomes, currency) \/ Before(q, p, quotes, outcomes, currency)
         /\ ~(Before(p, q, quotes, outcomes, currency) /\ Before(q, p, quotes, outcomes, currency))
         /\ Before(p, q, quotes, outcomes, currency) /\ Before(q, r, quotes, outcomes, currency)
              => Before(p, r, quotes, outcomes, currency)
  <1> DEFINE B(x, y) == Before(x, y, quotes, outcomes, currency)
             s(x) == Rank(x, quotes, outcomes, currency)
             E == {p, q, r}
  <1>1. \A x \in E : s(x) \in Int
    <2>1. \A x \in E : s(x) = Rounded(Score(x, quotes, outcomes, currency))
      BY DEF Rank, Ranked
    <2> QED
      BY <2>1, ScoreIsFraction, RoundingKeepsOrder
  <1>2. \A x, y \in E : B(x, y) <=> s(x) > s(y) \/ (s(x) = s(y) /\ x.id < y.id)
    BY DEF Before, Ranked
  <1>3. \A x \in E : x.id \in Int
    BY DEF Ranked, Quotes
  <1>4. \A x, y \in E : x.id = y.id => x = y
    BY DEF Ranked, Quotes
  <1> HIDE DEF s, B
  <1> HIDE DEF E
  <1>6. p \in E /\ q \in E /\ r \in E
    BY DEF E
  <1>7. p # q => B(p, q) \/ B(q, p)
    BY <1>1, <1>2, <1>3, <1>4, <1>6
  <1>8. ~(B(p, q) /\ B(q, p))
    BY <1>1, <1>2, <1>3, <1>6
  <1>9. B(p, q) /\ B(q, r) => B(p, r)
    BY <1>1, <1>2, <1>3, <1>6
  <1> QED
    BY <1>7, <1>8, <1>9 DEF B

(* One quote is recommended if one is eligible, and none otherwise, and the  *)
(* quotes that are not eligible move nobody: rank_quotes, for any finite    *)
(* number of quotes, amounts and past outcomes.                             *)
THEOREM OneIsRecommended ==
  ASSUME NEW quotes, Quotes(quotes), NEW outcomes, Outcomes(outcomes), NEW currency
  PROVE  RecommendsOne(quotes, outcomes, currency)
  <1> DEFINE E == Ranked(quotes, currency)
             B(x, y) == Before(x, y, quotes, outcomes, currency)
             R == {pair \in E \X E : B(pair[1], pair[2])}
             best == Recommended(quotes, outcomes, currency)
  <1>1. E = {q \in quotes : Rankable(q, currency)} /\ IsFiniteSet(E)
    BY FS_Subset DEF Ranked, Quotes
  <1>2. \A q \in E, p \in quotes \ E : B(q, p)
    BY DEF Before, Ranked
  <1>3. best = {q \in E : \A p \in E \ {q} : B(q, p)}
    <2>1. best = {q \in E : \A p \in quotes \ {q} : B(q, p)}
      BY DEF Recommended, Ranked
    <2>2. E \subseteq quotes
      BY DEF Ranked
    <2> HIDE DEF E, B, best
    <2> QED
      BY <1>2, <2>1, <2>2
  <1>4. /\ \A p, q \in E : p # q => B(p, q) \/ B(q, p)
        /\ \A p, q \in E : ~(B(p, q) /\ B(q, p))
        /\ \A p, q, r \in E : B(p, q) /\ B(q, r) => B(p, r)
    BY QuotesAreOrdered
  <1>5. Cardinality(best) = IF E = {} THEN 0 ELSE 1
    <2> HIDE DEF E, B, best
    <2>1. CASE E = {}
      BY <1>3, <2>1, FS_EmptySet
    <2>2. CASE E # {}
      <3>1. R \in SUBSET (E \X E) /\ \A x, y \in E : <<x, y>> \in R <=> B(x, y)
        OBVIOUS
      <3> HIDE DEF R
      <3>2. PICK b \in E : \A x \in E \ {b} : <<b, x>> \in R
        <4>1. \A x, y \in E : x # y => <<x, y>> \in R \/ <<y, x>> \in R
          BY <1>4, <3>1
        <4>2. \A x, y, z \in E : <<x, y>> \in R /\ <<y, z>> \in R => <<x, z>> \in R
          BY <1>4, <3>1
        <4>3. IsFiniteSet(E)
          BY <1>1
        <4> QED
          BY <2>2, <3>1, <4>1, <4>2, <4>3, FiniteOrderHasFirst
      <3>3. \A x \in E \ {b} : B(b, x)
        BY <3>1, <3>2
      <3>4. best = {b}
        BY <1>3, <1>4, <3>3
      <3> QED
        BY <2>2, <3>4, FS_Singleton
    <2> QED
      BY <2>1, <2>2
  <1>6. Recommended(E, outcomes, currency) = best
    <2>1. \A q \in E : Rankable(q, currency)
      BY DEF Ranked
    <2>2. {p \in E : Rankable(p, currency)} = {p \in quotes : Rankable(p, currency)}
      BY DEF Ranked
    <2>3. \A q : Score(q, E, outcomes, currency) = Score(q, quotes, outcomes, currency)
      BY <2>2 DEF Score
    <2>4. \A p, q : Before(p, q, E, outcomes, currency) <=> B(p, q)
      BY <2>3 DEF Before, Rank
    <2> HIDE DEF E, B, best
    <2>5. Recommended(E, outcomes, currency) = {q \in E : \A p \in E \ {q} : B(q, p)}
      BY <2>1, <2>4 DEF Recommended
    <2> QED
      BY <1>3, <2>5
  <1> QED
    BY <1>1, <1>5, <1>6 DEF RecommendsOne

-----------------------------------------------------------------------------
(* The load's own lane is in the evidence, and so is the nearest of the      *)
(* loads looked at: ties are decided by age, so that one load has none      *)
(* before it.  recent_comparable_executed_evidence and the action that asks. *)
THEOREM TheNearestIsEvidence ==
  ASSUME NEW loads, \A l \in loads : l.age \in Nat /\ l.miles \in Nat \cup {-1}
  PROVE  EvidenceIsNearest(loads)
  <1> DEFINE seen == Leading(CandidateLimit, LAMBDA l : l.age, loads)
             placed == {l \in seen : l.miles # -1}
             Ahead(l) == {k \in placed : \/ k.miles < l.miles
                                         \/ k.miles = l.miles /\ k.age < l.age}
  <1>1. LaneHistory(loads, TRUE) = ExactLane(loads) \cup Comparable(loads)
    BY DEF LaneHistory
  <1>2. Comparable(loads) = {l \in placed : Cardinality(Ahead(l)) < ResultLimit}
    BY DEF Comparable
  <1>3. seen \subseteq loads
    BY DEF Leading
  <1> HIDE DEF seen
  <1>4. \A l \in placed : l.miles \in Nat /\ l.age \in Nat
    BY <1>3
  <1>5. ASSUME ResultLimit > 0, NEW l \in seen, l.miles # -1
        PROVE  \E k \in Comparable(loads) : k.miles # -1 /\ k.miles <= l.miles
    <2> DEFINE Miles == {k.miles : k \in placed}
    <2>1. l \in placed /\ Miles \subseteq Nat /\ Miles # {}
      BY <1>4, <1>5
    <2>2. PICK m \in Miles : \A n \in Miles : m <= n
      BY <2>1, LeastNumber
    <2> DEFINE Near == {k \in placed : k.miles = m}
               Ages == {k.age : k \in Near}
    <2>3. Ages \subseteq Nat /\ Ages # {}
      BY <1>4
    <2>4. PICK a \in Ages : \A n \in Ages : a <= n
      <3> HIDE DEF Ages
      <3> QED
        BY <2>3, LeastNumber
    <2>5. PICK k \in placed : k.miles = m /\ k.age = a
      OBVIOUS
    <2>6. \A j \in placed : k.miles <= j.miles /\ (j.miles = k.miles => k.age <= j.age)
      BY <2>2, <2>4, <2>5
    <2>7. Ahead(k) = {}
      BY <1>4, <2>5, <2>6
    <2>8. Cardinality(Ahead(k)) = 0
      BY <2>7, FS_EmptySet
    <2>9. k \in Comparable(loads)
      <3> HIDE DEF placed, Ahead
      <3> QED
        BY <1>2, <1>5, <2>5, <2>8
    <2> QED
      BY <2>1, <2>5, <2>6, <2>9
  <1> QED
    BY <1>1, <1>5 DEF EvidenceIsNearest, seen

-----------------------------------------------------------------------------
(* The average lies between the least and the largest amount, and what is    *)
(* said of the confidence is at most one: _check_estimate_contract never     *)
(* refuses what estimate_haversine_curve returns, whatever the evidence.    *)
UsableRows(S) ==
  /\ IsFiniteSet(S)
  /\ \A r \in S : r.amount \in Int /\ r.weight \in Nat \ {0} /\ r.fresh \in 0..10

LEMMA AverageIsBetween ==
  ASSUME NEW S, UsableRows(S), S # {}
  PROVE  /\ AtMost(<<Min({r.amount : r \in S}), 1>>, Average(S))
         /\ AtMost(Average(S), <<Max({r.amount : r \in S}), 1>>)
  <1> DEFINE A == {r.amount : r \in S}
             v == [r \in S |-> r.amount * r.weight]
             w == [r \in S |-> r.weight]
  <1>1. IsFiniteSet(A)
    <2>1. [r \in S |-> r.amount] \in Surjection(S, A)
      BY DEF Surjection
    <2> QED
      BY <2>1, FS_Surjection DEF UsableRows
  <1>2. /\ A \subseteq Int /\ A # {} /\ \A r \in S : r.amount \in A
        /\ v \in [S -> Int] /\ w \in [S -> Int]
        /\ \A r \in S : r.amount \in Int /\ w[r] \in Nat /\ v[r] = r.amount * w[r]
    BY DEF UsableRows
  <1>3. Average(S) = <<SumFunction(v), SumFunction(w)>>
    BY DEF Average, Total
  <1> HIDE DEF A, v, w
  <1>4. /\ Min(A) \in Int /\ Max(A) \in Int
        /\ \A r \in S : Min(A) <= r.amount /\ r.amount <= Max(A)
    BY <1>1, <1>2, Extremes
  <1>5. SumFunction(v) \in Int /\ SumFunction(w) \in Int /\ IsFiniteSet(S)
    BY <1>2, SumsAdd DEF UsableRows
  <1>6. ASSUME NEW k \in Int
        PROVE  /\ [r \in S |-> k * w[r]] \in [S -> Int]
               /\ SumFunction([r \in S |-> k * w[r]]) = k * SumFunction(w)
    <2>1. [r \in S |-> k * w[r]] \in [S -> Int]
      BY <1>2
    <2>2. SumFunction([r \in S |-> k * w[r]]) = k * SumFunction(w)
      BY <1>2, <1>5, SumsScale
    <2> QED
      BY <2>1, <2>2
  <1>7. \A a, b \in Int, k \in Nat : a <= b => a * k <= b * k
    OBVIOUS
  <1>8. Min(A) * SumFunction(w) <= SumFunction(v)
    <2> DEFINE low == [r \in S |-> Min(A) * w[r]]
    <2>1. low \in [S -> Int] /\ SumFunction(low) = Min(A) * SumFunction(w)
      BY <1>4, <1>6
    <2>2. \A r \in S : low[r] <= v[r]
      BY <1>2, <1>4, <1>7
    <2> HIDE DEF low
    <2> QED
      BY <1>2, <1>5, <2>1, <2>2, SumsCompare
  <1>9. SumFunction(v) <= Max(A) * SumFunction(w)
    <2> DEFINE high == [r \in S |-> Max(A) * w[r]]
    <2>1. high \in [S -> Int] /\ SumFunction(high) = Max(A) * SumFunction(w)
      BY <1>4, <1>6
    <2>2. \A r \in S : v[r] <= high[r]
      BY <1>2, <1>4, <1>7
    <2> HIDE DEF high
    <2> QED
      BY <1>2, <1>5, <2>1, <2>2, SumsCompare
  <1>10. AtMost(<<Min(A), 1>>, Average(S)) /\ AtMost(Average(S), <<Max(A), 1>>)
    BY <1>3, <1>4, <1>5, <1>8, <1>9 DEF AtMost
  <1> QED
    BY <1>10 DEF A

LEMMA ConfidenceIsBounded ==
  ASSUME NEW S, UsableRows(S), S # {}, NEW exact \in 0..Cardinality(S)
  PROVE  AtMost(<<0, 1>>, Confidence(S, exact)) /\ AtMost(Confidence(S, exact), <<1, 1>>)
  <1> DEFINE n == Cardinality(S)
             f == [r \in S |-> r.fresh]
             none == [r \in S |-> 0]
             ten == [r \in S |-> 10]
             F == SumFunction(f)
             m == Min({n, 10})
  <1>1. n \in Nat \ {0} /\ IsFiniteSet(S)
    BY FS_CardinalityType, FS_EmptySet DEF UsableRows
  <1>2. /\ f \in [S -> Int] /\ none \in [S -> Int] /\ ten \in [S -> Int]
        /\ \A r \in S : none[r] <= f[r] /\ f[r] <= ten[r]
    BY DEF UsableRows
  <1>3. SumFunction(none) = 0 * n /\ SumFunction(ten) = 10 * n
    <2>1. 0 \in Int /\ 10 \in Int
      OBVIOUS
    <2> QED
      BY <1>1, <2>1, SumOfConstant, Zenon
  <1> HIDE DEF none, ten
  <1>4. F \in Int /\ 0 <= F /\ F <= 10 * n
    <2> HIDE DEF f
    <2>1. SumFunction(f) \in Int
      BY <1>1, <1>2, SumsAdd
    <2>2. SumFunction(none) <= SumFunction(f)
      BY <1>1, <1>2, SumsCompare
    <2>3. SumFunction(f) <= SumFunction(ten)
      BY <1>1, <1>2, SumsCompare
    <2> HIDE DEF n
    <2> QED
      BY <1>1, <1>3, <2>1, <2>2, <2>3
  <1>5. m \in Int /\ 0 <= m /\ m <= 10
    <2>1. n \in Int /\ 10 \in Int
      BY <1>1
    <2>2. m = IF n <= 10 THEN n ELSE 10
      BY <2>1, OfTwo, Zenon
    <2> HIDE DEF n, m
    <2> QED
      BY <1>1, <2>2
  <1>6. Confidence(S, exact) =
          <<m * (n * (10 * n)) + (exact * (10 * n) + F * n) * 10, 3 * (10 * (n * (10 * n)))>>
    BY DEF Confidence, Plus, Total
  <1>7. exact \in Nat /\ exact <= n
    BY <1>1
  <1> HIDE DEF n, f, F, m
  <1> DEFINE q == n * n
  <1>8. /\ q \in Int /\ 0 <= q
        /\ n * (10 * n) = 10 * q
        /\ m * (10 * q) \in Int /\ 0 <= m * (10 * q) /\ m * (10 * q) <= 10 * (10 * q)
    <2>1. q \in Int /\ 0 <= q /\ n * (10 * n) = 10 * q
      BY <1>1
    <2> HIDE DEF q
    <2>2. m * q \in Int /\ 0 <= m * q /\ m * q <= 10 * q /\ m * (10 * q) = 10 * (m * q)
      BY <1>5, <2>1
    <2> QED
      BY <2>1, <2>2
  <1>9. exact * (10 * n) \in Int /\ 0 <= exact * (10 * n) /\ exact * (10 * n) <= 10 * q
    <2>1. exact * n \in Int /\ 0 <= exact * n /\ exact * (10 * n) = 10 * (exact * n)
      BY <1>1, <1>7
    <2>2. exact * n <= q
      BY <1>1, <1>7
    <2> HIDE DEF q
    <2> QED
      BY <1>8, <2>1, <2>2
  <1>10. F * n \in Int /\ 0 <= F * n /\ F * n <= 10 * q
    <2>1. F * n \in Int /\ 0 <= F * n /\ F * n <= (10 * n) * n /\ (10 * n) * n = 10 * (n * n)
      BY <1>1, <1>4
    <2> QED
      BY <2>1
  <1> HIDE DEF q
  <1>11. PICK a \in Int, b \in Int :
           /\ Confidence(S, exact) = <<a, b>>
           /\ 0 <= a /\ a <= b
    <2> DEFINE a == m * (10 * q) + (exact * (10 * n) + F * n) * 10
               b == 3 * (10 * (10 * q))
    <2>1. a \in Int /\ b \in Int /\ 0 <= a /\ a <= b
      BY <1>8, <1>9, <1>10
    <2>2. Confidence(S, exact) = <<a, b>>
      BY <1>6, <1>8
    <2> QED
      BY <2>1, <2>2
  <1> QED
    BY <1>11 DEF AtMost

THEOREM EstimatesKeepTheContract ==
  ASSUME NEW history, UsableRows(history), NEW currency
  PROVE  ContractHolds(history, currency)
  <1> DEFINE used == Matching(history, currency)
             exact == Cardinality({r \in used : r.exact})
             e == Estimate(history, currency)
  <1>1. CASE used = {}
    BY <1>1 DEF ContractHolds, Estimate
  <1>2. CASE used # {}
    <2>1. /\ e.floor = Min({r.amount : r \in used}) /\ e.ceiling = Max({r.amount : r \in used})
          /\ e.target = Average(used) /\ e.confidence = Confidence(used, exact)
      BY <1>2 DEF Estimate
    <2>2. UsableRows(used)
      BY FS_Subset DEF UsableRows, Matching
    <2> HIDE DEF used
    <2>3. exact \in 0..Cardinality(used)
      BY <2>2, FS_Subset, FS_CardinalityType DEF UsableRows
    <2> HIDE DEF exact, e
    <2>4. /\ AtMost(<<e.floor, 1>>, e.target) /\ AtMost(e.target, <<e.ceiling, 1>>)
          /\ AtMost(<<0, 1>>, e.confidence) /\ AtMost(e.confidence, <<1, 1>>)
      BY <1>2, <2>1, <2>2, <2>3, AverageIsBetween, ConfidenceIsBounded
    <2> QED
      BY <2>4 DEF ContractHolds, e
  <1> QED
    BY <1>1, <1>2

-----------------------------------------------------------------------------
(***************************************************************************)
(* Of two quotes that differ in the price the cheaper one comes first while  *)
(* the prices spread over less than twice each average.  A step in the price *)
(* moves the price score by 55 of the spread, the lane's by less than 20     *)
(* twice, the carrier's by less than 15 once: 55 is what the two add up to.  *)
(***************************************************************************)
LEMMA NearnessFalls ==
  ASSUME NEW S, Outcomes(S), S # {}, NEW a \in Int, NEW b \in Int, a <= b
  PROVE  LET W == Average(S)[2]
             l == Max({Average(S)[1], Average(S)[2]})
         IN
         /\ l \in Int /\ l > 0 /\ W \in Int
         /\ \E m \in Int, n \in Int : /\ Nearness(a, S) = <<m, l>> /\ Nearness(b, S) = <<n, l>>
                                      /\ n - m <= (b - a) * W
  <1> DEFINE A == Average(S)[1]
             W == Average(S)[2]
             l == Max({Average(S)[1], Average(S)[2]})
             Near(x) == Max({0, l - Distance(x * W, A)})
  <1>1. A \in Int /\ W \in Int /\ W > 0
    BY WeightsAddUp DEF Fraction
  <1>2. l \in Int /\ l > 0
    <2>1. l = IF A >= W THEN A ELSE W
      BY <1>1, OfTwo, Zenon
    <2> HIDE DEF l, A, W
    <2> QED
      BY <1>1, <2>1
  <1>3. Nearness(a, S) = <<Near(a), l>> /\ Nearness(b, S) = <<Near(b), l>>
    BY DEF Nearness
  <1> HIDE DEF A, W, l
  <1>4. PICK u \in Int, v \in Int : /\ u = a * W /\ v = b * W
                                    /\ v - u = (b - a) * W /\ u <= v
    <2>1. (b - a) * W = b * W - a * W /\ (b - a) * W >= 0 /\ a * W \in Int /\ b * W \in Int
      BY <1>1
    <2> QED
      BY <2>1
  <1>5. ASSUME NEW x \in Int
        PROVE  /\ Distance(x, A) = IF x < A THEN A - x ELSE x - A
               /\ Max({0, l - Distance(x, A)}) =
                    IF 0 >= l - Distance(x, A) THEN 0 ELSE l - Distance(x, A)
    <2>1. Distance(x, A) = IF x < A THEN A - x ELSE x - A
      BY DEF Distance
    <2>2. 0 \in Int /\ l - Distance(x, A) \in Int
      BY <1>1, <1>2, <2>1
    <2> QED
      BY <2>1, <2>2, OfTwo, Zenon
  <1>6. /\ Near(a) \in Int /\ Near(b) \in Int
        /\ Near(b) - Near(a) <= (b - a) * W
    <2>1. /\ Near(a) = Max({0, l - Distance(u, A)})
          /\ Near(b) = Max({0, l - Distance(v, A)})
      BY <1>4
    <2> HIDE DEF Near
    <2>2. /\ Near(a) = LET g == IF u < A THEN A - u ELSE u - A IN IF 0 >= l - g THEN 0 ELSE l - g
          /\ Near(b) = LET g == IF v < A THEN A - v ELSE v - A IN IF 0 >= l - g THEN 0 ELSE l - g
      BY <1>5, <2>1
    <2>3. Near(a) \in Int /\ Near(b) \in Int /\ Near(b) - Near(a) <= v - u
      BY <1>1, <1>2, <1>4, <2>2
    <2> QED
      BY <1>4, <2>3
  <1> HIDE DEF Near
  <1> QED
    BY <1>1, <1>2, <1>3, <1>6 DEF W, l

(* A step of d among prices that spread over s.                             *)
LEMMA StepIsSmall ==
  ASSUME NEW d \in Int, d > 0, NEW s \in Int, s > 0, NEW W \in Int, NEW l \in Int, s * W < 2 * l,
         NEW gain \in Int, gain <= d * W
  PROVE  gain * s < 2 * (l * d)
  <1>1. gain * s <= (d * W) * s
    <2>1. d * W \in Int
      OBVIOUS
    <2> QED
      BY <2>1, Cancel
  <1>2. (d * W) * s = (s * W) * d
    OBVIOUS
  <1>3. (s * W) * d < (2 * l) * d
    <2>1. s * W \in Int /\ 2 * l \in Int
      OBVIOUS
    <2>2. ~((2 * l) * d <= (s * W) * d)
      BY <2>1, Cancel
    <2>3. (s * W) * d \in Int /\ (2 * l) * d \in Int
      BY <2>1
    <2> QED
      BY <2>2, <2>3
  <1>4. (2 * l) * d = 2 * (l * d)
    OBVIOUS
  <1>5. gain * s \in Int /\ (d * W) * s \in Int /\ (2 * l) * d \in Int
    OBVIOUS
  <1> QED
    BY <1>1, <1>2, <1>3, <1>4, <1>5

(* A score of its parts, and what the parts of two scores come to.           *)
Mix(price, lane, carrier, rest) ==
  Plus(Plus(Scaled(55, price), Scaled(20, lane)), Plus(Scaled(15, carrier), rest))

Outweighs(d, s, l, c, P, L, C, L2, C2, F) ==
  LET good == Mix(<<P + d, s>>, <<L, l>>, <<C, c>>, <<F, 2>>)
      bad == Mix(<<P, s>>, <<L2, l>>, <<C2, c>>, <<F, 2>>)
  IN AtMost(bad, good) /\ ~AtMost(good, bad)

LEMMA PriceOutweighs ==
  ASSUME NEW d \in Int, NEW s \in Int, NEW l \in Int, NEW c \in Int, d > 0, s > 0, l > 0, c > 0,
         NEW P \in Int, NEW L \in Int, NEW C \in Int, NEW L2 \in Int, NEW C2 \in Int, NEW F \in Int,
         (L2 - L) * s < 2 * (l * d), (C2 - C) * s <= c * d
  PROVE  Outweighs(d, s, l, c, P, L, C, L2, C2, F)
  <1> DEFINE D == (s * l) * (c * 2)
             Num(p, x, y) == ((55 * p) * l + (20 * x) * s) * (c * 2) + ((15 * y) * 2 + F * c) * (s * l)
             good == Mix(<<P + d, s>>, <<L, l>>, <<C, c>>, <<F, 2>>)
             bad == Mix(<<P, s>>, <<L2, l>>, <<C2, c>>, <<F, 2>>)
  <1>1. good = <<Num(P + d, L, C), D>> /\ bad = <<Num(P, L2, C2), D>>
    BY DEF Mix, Plus, Scaled
  <1>2. \A x, y \in Int : x * y \in Int /\ (x > 0 /\ y > 0 => x * y > 0)
    OBVIOUS
  <1>3. s * l \in Int /\ s * l > 0 /\ c * 2 \in Int /\ c * 2 > 0 /\ D \in Int /\ D > 0
    BY <1>2
  <1>4. ASSUME NEW p \in Int, NEW x \in Int, NEW y \in Int PROVE Num(p, x, y) \in Int
    BY <1>2, <1>3
  <1>5. Num(P + d, L, C) - Num(P, L2, C2) =
          2 * (55 * ((l * d) * c) - 20 * (((L2 - L) * s) * c) - 15 * (((C2 - C) * s) * l))
    OBVIOUS
  <1>6. ((L2 - L) * s) * c < (2 * (l * d)) * c
    <2>1. (L2 - L) * s \in Int /\ 2 * (l * d) \in Int
      OBVIOUS
    <2>2. ~((2 * (l * d)) * c <= ((L2 - L) * s) * c)
      BY <2>1, Cancel
    <2>3. ((L2 - L) * s) * c \in Int /\ (2 * (l * d)) * c \in Int
      BY <2>1
    <2> QED
      BY <2>2, <2>3
  <1>7. ((C2 - C) * s) * l <= (c * d) * l
    <2>1. (C2 - C) * s \in Int /\ c * d \in Int
      OBVIOUS
    <2> QED
      BY <2>1, Cancel
  <1>8. PICK z \in Int : z = (l * d) * c /\ (2 * (l * d)) * c = 2 * z /\ (c * d) * l = z
    OBVIOUS
  <1>9. PICK x \in Int, y \in Int : x = ((L2 - L) * s) * c /\ y = ((C2 - C) * s) * l
    OBVIOUS
  <1>10. Num(P + d, L, C) - Num(P, L2, C2) > 0
    <2>1. x < 2 * z /\ y <= z
      BY <1>6, <1>7, <1>8, <1>9
    <2>2. Num(P + d, L, C) - Num(P, L2, C2) = 2 * (55 * z - 20 * x - 15 * y)
      BY <1>5, <1>8, <1>9
    <2> HIDE DEF Num
    <2> QED
      BY <2>1, <2>2
  <1>11. Num(P, L2, C2) \in Int /\ Num(P + d, L, C) \in Int
    BY <1>4
  <1> HIDE DEF Num, D, good, bad
  <1>12. Num(P, L2, C2) < Num(P + d, L, C)
    BY <1>10, <1>11
  <1>13. AtMost(bad, good) /\ ~AtMost(good, bad)
    <2>1. /\ AtMost(bad, good) <=> Num(P, L2, C2) * D <= Num(P + d, L, C) * D
          /\ AtMost(good, bad) <=> Num(P + d, L, C) * D <= Num(P, L2, C2) * D
      BY <1>1 DEF AtMost
    <2>2. /\ Num(P, L2, C2) * D <= Num(P + d, L, C) * D
          /\ ~(Num(P + d, L, C) * D <= Num(P, L2, C2) * D)
      BY <1>3, <1>11, <1>12, Cancel
    <2> QED
      BY <2>1, <2>2
  <1> QED
    BY <1>13 DEF Outweighs, good, bad

(* The fields that rank_quotes reads of a quote are there.                  *)
WholeQuotes(S) ==
  \A q \in S : {"id", "amount", "currency", "carrier", "fresh", "timeliness"} \subseteq DOMAIN q

THEOREM CheaperComesFirst ==
  ASSUME NEW quotes, Quotes(quotes), WholeQuotes(quotes), NEW outcomes, Outcomes(outcomes), NEW currency
  PROVE  FairPrices(quotes, outcomes, currency)
  <1> DEFINE E == Ranked(quotes, currency)
             rivals == {r.amount : r \in {x \in quotes : Rankable(x, currency)}}
             s == Spread(quotes, currency)
  <1> SUFFICES ASSUME Compact(quotes, outcomes, currency),
                      NEW p \in E, NEW q \in E, p.amount < q.amount, Alike(p, q)
               PROVE  \/ Before(p, q, quotes, outcomes, currency)
                      \/ /\ Rank(p, quotes, outcomes, currency) = Rank(q, quotes, outcomes, currency)
                         /\ q.id < p.id
    BY DEF FairPrices, CheaperFirst, Ranked
  <1> DEFINE d == q.amount - p.amount
  <1>1. /\ p \in quotes /\ q \in quotes /\ Rankable(p, currency) /\ Rankable(q, currency)
        /\ p.amount \in Int /\ q.amount \in Int /\ d \in Int /\ d > 0
    BY DEF Ranked, Quotes
  <1>2. q.carrier = p.carrier /\ q.currency = p.currency /\ q.fresh = p.fresh /\ q.timeliness = p.timeliness
    BY <1>1 DEF Alike, WholeQuotes
  <1>3. p.currency = currency
    <2>1. Reasons(p, currency) = {}
      BY <1>1 DEF Rankable
    <2>2. "no_price" \in Reasons(p, currency) <=> p.amount <= 0 \/ p.currency = "none"
      BY DEF Reasons
    <2>3. "currency" \in Reasons(p, currency) <=> p.amount > 0 /\ p.currency \notin {"none", currency}
      BY DEF Reasons
    <2> QED
      BY <1>1, <2>1, <2>2, <2>3
  <1>4. /\ s = Max(rivals) - Min(rivals) /\ s \in Int /\ s > 0
        /\ Max(rivals) \in Int /\ Min(rivals) \in Int
    <2> DEFINE S == {x \in quotes : Rankable(x, currency)}
               f == [r \in S |-> r.amount]
    <2>1. IsFiniteSet(S) /\ \A r \in S : r.amount \in Int
      BY FS_Subset DEF Quotes
    <2>2. f \in Surjection(S, rivals)
      BY DEF Surjection
    <2>3. IsFiniteSet(rivals) /\ rivals \subseteq Int
      BY <2>1, <2>2, FS_Surjection
    <2>4. p.amount \in rivals /\ q.amount \in rivals
      BY <1>1
    <2>5. s = Max(rivals) - Min(rivals)
      BY DEF Spread
    <2> HIDE DEF rivals, s
    <2>6. /\ Max(rivals) \in Int /\ Min(rivals) \in Int
          /\ Min(rivals) <= p.amount /\ q.amount <= Max(rivals)
      BY <2>3, <2>4, Extremes
    <2> QED
      BY <1>1, <2>5, <2>6
  <1> HIDE DEF s
  <1> DEFINE P == Max(rivals) - q.amount
  <1>5. /\ P \in Int
        /\ PriceScore(q.amount, rivals) = <<P, s>>
        /\ PriceScore(p.amount, rivals) = <<P + d, s>>
    <2> HIDE DEF rivals
    <2>1. Min(rivals) # Max(rivals) /\ Max(rivals) - p.amount = P + d
      BY <1>1, <1>4
    <2> QED
      BY <1>1, <1>4, <2>1 DEF PriceScore
  <1> HIDE DEF P
  (* One average that the two amounts are held against.                     *)
  <1>6. ASSUME NEW S \in {{o \in outcomes : o.currency = currency},
                          {o \in outcomes : o.currency = currency /\ o.carrier = p.carrier}}, S # {}
        PROVE  \E l \in Int, m \in Int, n \in Int :
                 /\ l > 0 /\ Nearness(p.amount, S) = <<m, l>> /\ Nearness(q.amount, S) = <<n, l>>
                 /\ (n - m) * s < 2 * (l * d)
    <2> DEFINE W == Average(S)[2]
               l == Max({Average(S)[1], Average(S)[2]})
    <2>1. Outcomes(S)
      BY FS_Subset DEF Outcomes
    <2>2. s * W < 2 * l
      BY <1>1, <1>6 DEF Compact, s
    <2>3. /\ l \in Int /\ l > 0 /\ W \in Int
          /\ \E m \in Int, n \in Int :
               /\ Nearness(p.amount, S) = <<m, l>> /\ Nearness(q.amount, S) = <<n, l>>
               /\ n - m <= (q.amount - p.amount) * W
      <3>1. p.amount <= q.amount
        BY <1>1
      <3> QED
        BY <1>1, <1>6, <2>1, <3>1, NearnessFalls
    <2> HIDE DEF W, l
    <2>4. PICK m \in Int, n \in Int :
            /\ Nearness(p.amount, S) = <<m, l>> /\ Nearness(q.amount, S) = <<n, l>>
            /\ n - m <= d * W
      BY <2>3
    <2> HIDE DEF d
    <2>5. (n - m) * s < 2 * (l * d)
      BY <1>1, <1>4, <2>2, <2>3, <2>4, StepIsSmall
    <2> QED
      BY <2>3, <2>4, <2>5
  <1>7. PICK l \in Int, L \in Int, L2 \in Int :
          /\ l > 0 /\ LaneScore(p, outcomes) = <<L, l>> /\ LaneScore(q, outcomes) = <<L2, l>>
          /\ (L2 - L) * s < 2 * (l * d)
    <2> DEFINE known == {o \in outcomes : o.currency = currency}
    <2>1. /\ LaneScore(p, outcomes) = IF known = {} THEN <<1, 2>> ELSE Nearness(p.amount, known)
          /\ LaneScore(q, outcomes) = IF known = {} THEN <<1, 2>> ELSE Nearness(q.amount, known)
      BY <1>2, <1>3 DEF LaneScore
    <2>2. CASE known = {}
      <3> HIDE DEF known, d
      <3>1. (1 - 1) * s < 2 * (2 * d)
        BY <1>1, <1>4
      <3> QED
        BY <2>1, <2>2, <3>1
    <2>3. CASE known # {}
      BY <1>6, <2>1, <2>3
    <2> QED
      BY <2>2, <2>3
  <1>8. PICK c \in Int, C \in Int, C2 \in Int :
          /\ c > 0 /\ CarrierScore(p, outcomes) = <<C, c>> /\ CarrierScore(q, outcomes) = <<C2, c>>
          /\ (C2 - C) * s <= c * d
    <2> DEFINE known == {o \in outcomes : o.currency = currency /\ o.carrier = p.carrier}
               k == Min({Cardinality(known), 5})
    <2>1. known = {o \in outcomes : o.carrier = p.carrier /\ o.currency = currency}
      OBVIOUS
    <2>2. \A x \in {p, q} : CarrierScore(x, outcomes) =
            IF known = {} THEN <<1, 2>>
            ELSE <<k * Nearness(x.amount, known)[2] + 5 * Nearness(x.amount, known)[1],
                   10 * Nearness(x.amount, known)[2]>>
      BY <1>2, <1>3, <2>1 DEF CarrierScore
    <2>3. CASE known = {}
      <3> HIDE DEF known, d
      <3>1. (1 - 1) * s <= 2 * d
        BY <1>1, <1>4
      <3> QED
        BY <2>2, <2>3, <3>1
    <2>4. CASE known # {}
      <3>1. PICK e \in Int, m \in Int, n \in Int :
              /\ e > 0 /\ Nearness(p.amount, known) = <<m, e>> /\ Nearness(q.amount, known) = <<n, e>>
              /\ (n - m) * s < 2 * (e * d)
        BY <1>6, <2>4
      <3>2. k \in Int
        <4>1. Cardinality(known) \in Int
          BY FS_Subset, FS_CardinalityType DEF Outcomes
        <4> QED
          BY <4>1, OfTwo
      <3> HIDE DEF known, k, d
      <3>3. /\ CarrierScore(p, outcomes) = <<k * e + 5 * m, 10 * e>>
            /\ CarrierScore(q, outcomes) = <<k * e + 5 * n, 10 * e>>
        BY <2>2, <2>4, <3>1
      <3>4. k * e + 5 * m \in Int /\ k * e + 5 * n \in Int /\ 10 * e \in Int /\ 10 * e > 0
        BY <3>1, <3>2
      <3>5. ((k * e + 5 * n) - (k * e + 5 * m)) * s <= (10 * e) * d
        <4>1. ((k * e + 5 * n) - (k * e + 5 * m)) * s = 5 * ((n - m) * s)
          BY <1>4, <3>2
        <4>2. (10 * e) * d = 5 * (2 * (e * d))
          BY <1>1
        <4>3. (n - m) * s \in Int /\ 2 * (e * d) \in Int
          BY <1>1, <1>4
        <4> QED
          BY <3>1, <4>1, <4>2, <4>3
      <3> QED
        BY <3>3, <3>4, <3>5
    <2> QED
      BY <2>3, <2>4
  <1> DEFINE F == p.fresh + Timeliness[p.timeliness]
             good == Mix(<<P + d, s>>, <<L, l>>, <<C, c>>, <<F, 2>>)
             bad == Mix(<<P, s>>, <<L2, l>>, <<C2, c>>, <<F, 2>>)
  <1>9. F \in Int
    <2>1. p.fresh \in Int /\ Timeliness[p.timeliness] \in Int
      BY <1>1 DEF Quotes, Timeliness
    <2> QED
      BY <2>1
  <1>10. Score(p, quotes, outcomes, currency) = good /\ Score(q, quotes, outcomes, currency) = bad
    BY <1>2, <1>5, <1>7, <1>8 DEF Score, Mix
  <1> HIDE DEF F
  <1>11. AtMost(bad, good) /\ ~AtMost(good, bad)
    <2> HIDE DEF rivals, E
    <2>1. P \in Int /\ d \in Int /\ d > 0 /\ s \in Int /\ s > 0
      BY <1>1, <1>4, <1>5
    <2> HIDE DEF d
    <2>2. Outweighs(d, s, l, c, P, L, C, L2, C2, F)
      BY <1>7, <1>8, <1>9, <2>1, PriceOutweighs
    <2> QED
      BY <2>2 DEF Outweighs
  <1> DEFINE ours == Rank(p, quotes, outcomes, currency)
             theirs == Rank(q, quotes, outcomes, currency)
  <1>12. ours \in Int /\ theirs \in Int /\ theirs <= ours
    <2>1. ours = Rounded(good) /\ theirs = Rounded(bad)
      BY <1>1, <1>10 DEF Rank
    <2>2. good \in Fraction /\ bad \in Fraction
      BY <1>10, ScoreIsFraction
    <2> HIDE DEF good, bad, ours, theirs
    <2> QED
      BY <1>11, <2>1, <2>2, RoundingKeepsOrder
  <1>13. p.id \in Int /\ q.id \in Int /\ p.id # q.id
    BY <1>1 DEF Quotes
  <1>14. Before(p, q, quotes, outcomes, currency) <=> ours > theirs \/ (ours = theirs /\ p.id < q.id)
    BY <1>1 DEF Before
  <1> HIDE DEF ours, theirs
  <1>15. Before(p, q, quotes, outcomes, currency) \/ (ours = theirs /\ q.id < p.id)
    BY <1>12, <1>13, <1>14
  <1> QED
    BY <1>15 DEF ours, theirs

-----------------------------------------------------------------------------
(***************************************************************************)
(* The headers of the old ERP.  A marker for "not resolved" is nobody's key, *)
(* and the rows of a trade are finitely many.                               *)
(***************************************************************************)
Trade(trade, batches) ==
  /\ IsFiniteSet(trade.payables) /\ IsFiniteSet(trade.receipts)
  /\ \A p \in trade.payables : p.party # Unresolved
  /\ \A r \in DOMAIN batches : batches[r] # Unresolved

LEMMA OnlyIsTheOne ==
  ASSUME NEW S, IsFiniteSet(S)
  PROVE  \/ S = {} /\ Cardinality(S) = 0 /\ Only(S) = Unresolved
         \/ S = {Only(S)} /\ Cardinality(S) = 1
         \/ S # {} /\ Cardinality(S) > 1 /\ Only(S) = Unresolved
  <1>1. Cardinality(S) \in Nat /\ (Cardinality(S) = 0 <=> S = {})
    BY FS_CardinalityType, FS_EmptySet
  <1>2. CASE Cardinality(S) = 1
    <2>1. PICK x : S = {x}
      BY <1>2, FS_Singleton
    <2>2. Only(S) = x
      BY <1>2, <2>1 DEF Only
    <2> QED
      BY <1>2, <2>1, <2>2
  <1>3. CASE Cardinality(S) # 1
    BY <1>1, <1>3 DEF Only
  <1> QED
    BY <1>2, <1>3

(* The parties that a trade names are finitely many.                        *)
LEMMA FewAreNamed ==
  ASSUME NEW trade, NEW batches, Trade(trade, batches)
  PROVE  /\ IsFiniteSet(NamedSellers(trade)) /\ Unresolved \notin NamedSellers(trade)
         /\ IsFiniteSet(NamedBuyers(trade, batches)) /\ Unresolved \notin NamedBuyers(trade, batches)
  <1>1. IsFiniteSet(NamedSellers(trade))
    <2> DEFINE S == {p \in trade.payables : ~p.leg}
               T == {p.party : p \in S}
    <2>1. IsFiniteSet(S)
      BY FS_Subset DEF Trade
    <2>2. [p \in S |-> p.party] \in Surjection(S, T)
      BY DEF Surjection
    <2>3. IsFiniteSet(T) /\ NamedSellers(trade) \subseteq T
      BY <2>1, <2>2, FS_Surjection DEF NamedSellers
    <2> QED
      BY <2>3, FS_Subset
  <1>2. IsFiniteSet(NamedBuyers(trade, batches))
    <2> DEFINE S == {b \in trade.receipts : b \in DOMAIN batches}
               T == {batches[r] : r \in S}
    <2>1. IsFiniteSet(S)
      BY FS_Subset DEF Trade
    <2>2. [r \in S |-> batches[r]] \in Surjection(S, T)
      BY DEF Surjection
    <2>3. IsFiniteSet(T) /\ NamedBuyers(trade, batches) \subseteq T
      BY <2>1, <2>2, FS_Surjection DEF NamedBuyers
    <2> QED
      BY <2>3, FS_Subset
  <1> QED
    BY <1>1, <1>2 DEF NamedSellers, NamedBuyers, Trade

(* A party that is not resolved has a reason among the anomalies, and one    *)
(* that is resolved was exported: reconstruct_transaction_header, for any    *)
(* rows of a trade.                                                        *)
THEOREM HeadersAreNotSilent ==
  ASSUME NEW trade, NEW batches, Trade(trade, batches),
         NEW counterparties, Unresolved \notin counterparties
  PROVE  NothingIsSilent(trade, batches, counterparties)
  <1> DEFINE sellers == NamedSellers(trade)
             buyers == NamedBuyers(trade, batches)
             why == Anomalies(trade, batches, counterparties)
  <1>1. /\ "no supplier" \in why <=> sellers = {}
        /\ "ambiguous supplier" \in why <=> Cardinality(sellers) > 1
        /\ "supplier not exported" \in why <=> Only(sellers) \notin counterparties \cup {Unresolved}
        /\ "no buyer" \in why <=> buyers = {}
        /\ "ambiguous buyer" \in why <=> Cardinality(buyers) > 1
        /\ "buyer not exported" \in why <=> Only(buyers) \notin counterparties \cup {Unresolved}
    BY DEF Anomalies
  <1>2. ASSUME NEW S, IsFiniteSet(S), Unresolved \notin S
        PROVE  /\ Exported(Only(S), counterparties) = Unresolved <=>
                    \/ S = {} \/ Cardinality(S) > 1
                    \/ Only(S) \notin counterparties \cup {Unresolved}
               /\ Exported(Only(S), counterparties) \in counterparties \cup {Unresolved}
    BY <1>2, OnlyIsTheOne DEF Exported
  <1> HIDE DEF why
  <1>3. /\ IsFiniteSet(sellers) /\ Unresolved \notin sellers
        /\ IsFiniteSet(buyers) /\ Unresolved \notin buyers
    BY FewAreNamed
  <1> HIDE DEF sellers, buyers
  <1>4. /\ Supplier(trade, counterparties) = Unresolved <=>
             why \cap {"no supplier", "ambiguous supplier", "supplier not exported"} # {}
        /\ Supplier(trade, counterparties) \in counterparties \cup {Unresolved}
    BY <1>1, <1>2, <1>3 DEF Supplier, sellers
  <1>5. /\ Buyer(trade, batches, counterparties) = Unresolved <=>
             why \cap {"no buyer", "ambiguous buyer", "buyer not exported"} # {}
        /\ Buyer(trade, batches, counterparties) \in counterparties \cup {Unresolved}
    BY <1>1, <1>2, <1>3 DEF Buyer, buyers
  <1> QED
    BY <1>4, <1>5 DEF NothingIsSilent, why

(* More rows of a trade may leave a party unresolved and never name another, *)
(* do not take the state back, and do not move the date later.              *)
THEOREM HeadersOnlyGrow ==
  ASSUME NEW trade, NEW more, NEW batches, Trade(trade, batches), Trade(more, batches),
         \A d \in more.ledger : d \in Int, NEW counterparties
  PROVE  EvidenceIsMonotone(trade, more, batches, counterparties)
  <1> SUFFICES ASSUME Extends(more, trade)
               PROVE  /\ Supplier(trade, counterparties) # Unresolved =>
                           Supplier(more, counterparties) \in {Supplier(trade, counterparties), Unresolved}
                      /\ Buyer(trade, batches, counterparties) # Unresolved =>
                           Buyer(more, batches, counterparties) \in {Buyer(trade, batches, counterparties), Unresolved}
                      /\ Progress[DeriveState(trade)] <= Progress[DeriveState(more)]
                      /\ TradeDate(trade) # 0 => TradeDate(more) \in 1..TradeDate(trade)
    BY DEF EvidenceIsMonotone
  <1>1. ASSUME NEW S, NEW U, IsFiniteSet(S), IsFiniteSet(U), S \subseteq U,
               Exported(Only(S), counterparties) # Unresolved
        PROVE  Exported(Only(U), counterparties) \in {Exported(Only(S), counterparties), Unresolved}
    <2>1. S = {Only(S)}
      BY <1>1, OnlyIsTheOne DEF Exported
    <2>2. CASE U = {Only(U)}
      BY <1>1, <2>1, <2>2
    <2>3. CASE Only(U) = Unresolved
      BY <2>3 DEF Exported
    <2> QED
      BY <1>1, <2>1, <2>2, <2>3, OnlyIsTheOne
  <1>2. Supplier(trade, counterparties) # Unresolved =>
          Supplier(more, counterparties) \in {Supplier(trade, counterparties), Unresolved}
    <2>1. NamedSellers(trade) \subseteq NamedSellers(more)
      BY DEF NamedSellers, Extends
    <2>2. IsFiniteSet(NamedSellers(trade)) /\ IsFiniteSet(NamedSellers(more))
      BY FewAreNamed
    <2> QED
      BY <1>1, <2>1, <2>2 DEF Supplier
  <1>3. Buyer(trade, batches, counterparties) # Unresolved =>
          Buyer(more, batches, counterparties) \in {Buyer(trade, batches, counterparties), Unresolved}
    <2>1. NamedBuyers(trade, batches) \subseteq NamedBuyers(more, batches)
      BY DEF NamedBuyers, Extends
    <2>2. IsFiniteSet(NamedBuyers(trade, batches)) /\ IsFiniteSet(NamedBuyers(more, batches))
      BY FewAreNamed
    <2> QED
      BY <1>1, <2>1, <2>2 DEF Buyer
  <1>4. Progress[DeriveState(trade)] <= Progress[DeriveState(more)]
    <2>1. /\ trade.ledger # {} => more.ledger # {}
          /\ trade.receipts # {} => more.receipts # {}
          /\ SupplierPaid(trade) => SupplierPaid(more)
          /\ trade.deliveries => more.deliveries
      BY DEF Extends, SupplierPaid
    <2> QED
      BY <2>1 DEF Progress, DeriveState
  <1>5. ASSUME TradeDate(trade) # 0 PROVE TradeDate(more) \in 1..TradeDate(trade)
    <2> DEFINE D == {d \in trade.ledger : d > 0}
               E == {d \in more.ledger : d > 0}
    <2>1. D \subseteq E /\ E \subseteq Nat /\ D # {}
      BY <1>5 DEF Extends, TradeDate
    <2>2. TradeDate(trade) = Min(D) /\ TradeDate(more) = Min(E)
      BY <2>1 DEF TradeDate
    <2>3. \A d \in E : d > 0
      OBVIOUS
    <2> HIDE DEF D, E
    <2>4. \A S \in {D, E} : Min(S) \in S /\ \A x \in S : Min(S) <= x
      <3> SUFFICES ASSUME NEW S \in {D, E} PROVE Min(S) \in S /\ \A x \in S : Min(S) <= x
        OBVIOUS
      <3>1. \E x \in S : \A y \in S : x <= y
        <4>1. S \subseteq Nat /\ S # {}
          BY <2>1
        <4> QED
          BY <4>1, LeastNumber
      <3> QED
        BY <3>1 DEF Min
    <2>5. Min(D) \in E /\ Min(E) \in E /\ Min(E) <= Min(D)
      BY <2>1, <2>4
    <2>6. Min(D) \in Nat /\ Min(E) \in Nat /\ Min(E) > 0
      BY <2>1, <2>3, <2>5
    <2> QED
      BY <2>2, <2>5, <2>6
  <1> QED
    BY <1>2, <1>3, <1>4, <1>5

(* Every child is attached to one parent or reported once.  _link_children.  *)
THEOREM ChildrenAreNotLost ==
  ASSUME NEW children, IsFiniteSet(DOMAIN children), NEW parents
  PROVE  ChildrenAreAccounted(children, parents)
  <1> DEFINE left == DOMAIN children \ Attached(children, parents)
             report == [c \in left |->
                          <<c, IF children[c] = Blank THEN "missing_parent_key" ELSE "unresolved">>]
             R == Reported(children, parents)
  <1>1. R = {report[c] : c \in left}
    BY DEF Reported
  <1>2. {r[1] : r \in R} = left
    <2>1. \A c \in left : report[c] \in R /\ report[c][1] = c
      BY <1>1
    <2> HIDE DEF left, report, R
    <2> QED
      BY <1>1, <2>1
  <1>3. IsFiniteSet(left) /\ Cardinality(left) <= Cardinality(DOMAIN children)
    BY FS_Subset
  <1>4. report \in Surjection(left, R)
    BY <1>1 DEF Surjection
  <1>5. Cardinality(R) <= Cardinality(left) /\ IsFiniteSet(R)
    BY <1>3, <1>4, FS_Surjection
  <1>6. Cardinality(R) \in Nat /\ Cardinality(left) \in Nat /\ Cardinality(DOMAIN children) \in Nat
    BY <1>3, <1>5, FS_CardinalityType
  <1>7. Cardinality(R) <= Cardinality(DOMAIN children)
    BY <1>3, <1>5, <1>6
  <1>8. Attached(children, parents) \subseteq DOMAIN children
    BY DEF Attached
  <1> QED
    BY <1>2, <1>7, <1>8 DEF ChildrenAreAccounted

(* What is loaded is sound and has every table, of one kind of payload.      *)
Payload(p) == DOMAIN p = {"tables", "sound"} /\ p.sound \in BOOLEAN

THEOREM PayloadsAreWhole ==
  ASSUME NEW statements, Payload(statements), NEW grid, Payload(grid)
  PROVE  PayloadIsWhole(statements, grid)
  <1> DEFINE loaded == LoadPayload(statements, grid)
             found == IF statements.tables = {} THEN grid ELSE statements
             read == statements.sound /\ (statements.tables = {} => grid.sound)
  <1>1. loaded = IF read /\ Tables \subseteq found.tables THEN found ELSE [refused |-> TRUE]
    BY DEF LoadPayload
  <1>2. "refused" \in DOMAIN [refused |-> TRUE]
    OBVIOUS
  <1>3. found \in {statements, grid} /\ (statements.tables # {} => found = statements)
    OBVIOUS
  <1>4. read => found.sound
    OBVIOUS
  <1> HIDE DEF loaded, found, read
  <1>5. "refused" \notin DOMAIN loaded => loaded = found /\ read /\ Tables \subseteq found.tables
    BY <1>1, <1>2
  <1> QED
    BY <1>3, <1>4, <1>5 DEF PayloadIsWhole, loaded

(* The role and the ranks of any code agree, though they are two tables, and *)
(* a unit that is taken for shared is one both sides agree on.              *)
THEOREM CodesAreReadAlike ==
  ASSUME NEW code, NEW sale, NEW purchase
  PROVE  RolesAgree(code) /\ UomIsShared(sale, purchase)
  <1>1. RolesAgree(code)
    <2>1. DOMAIN CompanyRole = {"V", "S", "D", "X", "C", "A", "P"}
      BY DEF CompanyRole
    <2>2. CASE code \in DOMAIN CompanyRole
      BY <2>1, <2>2 DEF RolesAgree, RoleOf, TradeRanks, CompanyRole
    <2>3. CASE code \notin DOMAIN CompanyRole
      BY <2>1, <2>3 DEF RolesAgree, RoleOf, TradeRanks, Unresolved
    <2> QED
      BY <2>2, <2>3
  <1>2. UomIsShared(sale, purchase)
    <2> DEFINE named == {sale, purchase} \ {Blank}
    <2> SUFFICES ASSUME WeightUom(sale, purchase) # Unresolved
                 PROVE  {sale, purchase} \subseteq {Blank, WeightUom(sale, purchase)}
      BY DEF UomIsShared
    <2>1. Cardinality(named) = 1 /\ WeightUom(sale, purchase) = Only(named)
      BY DEF WeightUom
    <2>2. IsFiniteSet({sale, purchase})
      <3>1. IsFiniteSet({sale}) /\ {sale, purchase} = {sale} \cup {purchase}
        BY FS_Singleton
      <3> QED
        BY <3>1, FS_AddElement
    <2>3. named = {Only(named)}
      BY <2>1, <2>2, FS_Subset, OnlyIsTheOne
    <2> QED
      BY <2>1, <2>3
  <1> QED
    BY <1>1, <1>2
=============================================================================
