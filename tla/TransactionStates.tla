--------------------------- MODULE TransactionStates ---------------------------
(***************************************************************************)
(* The states of a transaction between its creation and its end            *)
(* (plasticos_transaction): the commands of the supplier's confirmation and  *)
(* of the delivery, the bulk wizard, the cron and the purchase that link a    *)
(* delivery order, and the automation that notices a delivery.              *)
(*                                                                         *)
(* The documents, moves and margin that a close asks for, and the           *)
(* commission it locks, are in TransactionClose.  The load is on the road or  *)
(* not (FreightDesk).  services/status_cascade.py has no caller.            *)
(***************************************************************************)
EXTENDS SnapshotRequests

CONSTANTS
  Trades,    \* transactions
  Beginning  \* states of a run's transactions at its beginning

TxState == {"draft", "active", "pending_supplier", "supplier_not_ready", "supplier_ready",
            "do_created", "dispatched", "in_progress", "in_transit", "delivered",
            "invoiced", "closed", "cancelled"}

(* Beside a transaction's row: whether its load, if any, is on the road, and  *)
(* the picking its purchase makes.                                         *)
Road(t) == <<"road", t>>
Picking(t) == <<"picking", t>>
Beside == {Road(t) : t \in Trades} \cup {Picking(t) : t \in Trades}

(* A transaction can be in these states without an order.                  *)
ASSUME TradeAssumption ==
  /\ Beginning \subseteq TxState \ {"do_created"}
  /\ Trades \cap Beside = {}

TradeRows == {[k \in Trades \cup Beside |->
                 CASE k \in Trades -> [state |-> start[k], order |-> FALSE, confirmed |-> FALSE]
                   [] k \in {Road(t) : t \in Trades} -> FALSE
                   [] OTHER -> "none"] : start \in [Trades -> Beginning]}

Book == Trades \cap DOMAIN rows

-----------------------------------------------------------------------------
(* The commands: from which states to which.                               *)
Activation == {<<"draft", "active">>}
Reactivation == TxState \X {"active"}  \* a plain write of this value passes
MarkDoCreated == {<<"supplier_ready", "do_created">>}
MarkDispatched == {"do_created", "supplier_ready"} \X {"dispatched"}
MarkInTransit == {"dispatched", "do_created", "in_progress"} \X {"in_transit"}
MarkDelivered == {<<"in_transit", "delivered">>}
MarkNotReady == {"pending_supplier", "active"} \X {"supplier_not_ready"}
MarkReady == {"pending_supplier", "supplier_not_ready", "active"} \X {"supplier_ready"}
Closing == (TxState \ {"closed"}) \X {"closed"}

Command(s) == \E t \in Book :
  \E move \in UNION {Activation, Reactivation, MarkDoCreated, MarkDispatched, MarkInTransit,
                     MarkDelivered, MarkNotReady, MarkReady, Closing} :
    /\ rows[t].state = move[1]
    /\ move \in MarkDoCreated => rows[t].order
    /\ move \in MarkDispatched => rows[Road(t)]
    /\ Begin(s, Row(t, [rows[t] EXCEPT !.state = move[2],
                                       !.confirmed = @ \/ move \in MarkReady]), {})

\* Mutation: the wizard moves closed transactions too.
BulkUpdateAny(s) == \E T \in SUBSET Book, new \in {"active", "in_transit", "cancelled"} :
  Begin(s, [t \in T |-> [rows[t] EXCEPT !.state = new]], {})

(* The bulk wizard: one transaction that is closed or cancelled refuses all. *)
BulkStates == {"active", "pending_supplier", "supplier_ready", "in_progress", "in_transit",
               "delivered", "invoiced", "cancelled"}

BulkUpdate(s) == \E T \in SUBSET Book, new \in BulkStates :
  /\ \A t \in T : rows[t].state \notin {"closed", "cancelled"}
  /\ Begin(s, [t \in T |-> [rows[t] EXCEPT !.state = new]], {})

-----------------------------------------------------------------------------
(* The form links an order or takes it away, and notes a confirmation, in any *)
(* state.                                                                  *)
EditTrade(s) == \E t \in Book, order, confirmed \in BOOLEAN :
  Begin(s, Row(t, [rows[t] EXCEPT !.order = order, !.confirmed = confirmed]), {})

(* button_approve: the purchase makes its picking, and links it to the        *)
(* transaction if that has none.                                           *)
ApprovePurchase(s) == \E t \in Book :
  /\ rows[Picking(t)] = "none"
  /\ Begin(s, Over(Row(Picking(t), "open"), Row(t, [rows[t] EXCEPT !.order = TRUE])), {})

(* _cron_auto_create_delivery_orders links a picking that is there, and marks *)
(* the transaction; or it confirms the purchase, which marks nothing.  What   *)
(* fails for one transaction is passed over.                               *)
ToLink == {t \in Book : /\ rows[t].confirmed /\ ~rows[t].order
                        /\ rows[t].state \in {"supplier_ready", "active", "pending_supplier"}
                        /\ rows[Picking(t)] # "cancel"}

CronDeliveryOrders(s) == \E T \in SUBSET ToLink :
  LET approved == {t \in T : rows[Picking(t)] = "none"}
      marked == {t \in T \ approved : rows[t].state = "supplier_ready"}
  IN Begin(s, Over([t \in T |-> [rows[t] EXCEPT !.order = TRUE,
                                   !.state = IF t \in marked THEN "do_created" ELSE @]],
                   [k \in {Picking(t) : t \in approved} |-> "open"]), {})

(* The automation on a picking that becomes done reads the transaction of its *)
(* sale order.                                                             *)
PickingDone(s) == \E t \in Book :
  /\ rows[Picking(t)] = "open"
  /\ Begin(s, Over(Row(Picking(t), "done"),
                   IF rows[t].state \in {"in_progress", "in_transit"}
                   THEN Row(t, [rows[t] EXCEPT !.state = "delivered"]) ELSE <<>>), {})

CancelPicking(s) == \E t \in Book :
  rows[Picking(t)] = "open" /\ Begin(s, Row(Picking(t), "cancel"), {})

MoveTruck(s) == \E t \in Book : Begin(s, Row(Road(t), ~rows[Road(t)]), {})

TradeRequest(s) ==
  \/ Command(s) \/ BulkUpdate(s) \/ EditTrade(s) \/ ApprovePurchase(s)
  \/ CronDeliveryOrders(s) \/ PickingDone(s) \/ CancelPicking(s) \/ MoveTruck(s)

TradeInit == Start(TradeRows, {})
TradeNext == \E s \in Session : TradeRequest(s) \/ Served(s)
TradeSpec == TradeInit /\ [][TradeNext]_requestVars

-----------------------------------------------------------------------------
(* A closed transaction leaves its state only when somebody activates it, and *)
(* a cancelled one only by that or by being closed: no wizard, cron, command  *)
(* or notice of a delivery that began before the end moves it on.            *)
EndsStand == [][\A t \in Book :
  /\ rows[t].state = "closed" => rows'[t].state \in {"closed", "active"}
  /\ rows[t].state = "cancelled" => rows'[t].state \in {"cancelled", "active", "closed"}]_rows
=============================================================================
