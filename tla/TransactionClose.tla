--------------------------- MODULE TransactionClose ---------------------------
(***************************************************************************)
(* The closing of a brokerage transaction (plasticos_transaction and its   *)
(* extensions in plasticos_commission, plasticos_documents), with the      *)
(* requests that race with it.                                             *)
(*                                                                         *)
(* Every request runs in one database transaction at REPEATABLE READ: it   *)
(* reads a snapshot, its guards and computed values come from the snapshot,*)
(* and its rows are written at commit, where a row that another request    *)
(* committed since the snapshot makes the whole request fail and rerun.    *)
(* A request is therefore begun (guards pass on the snapshot, the writes   *)
(* are planned) and later committed or aborted.  A request whose guard     *)
(* fails raises, rolls back and changes nothing: it is not a step.         *)
(***************************************************************************)
EXTENDS Integers, FiniteSets

CONSTANTS
  Tx,        \* transactions
  Move,      \* account moves: records [tx, kind, no]
  Session,   \* concurrent requests
  Margins,   \* values a recomputed gross margin may take
  Rate,      \* commission per unit of gross margin
  Ops,       \* the operations the users and crons of a run perform
  NoSession  \* "lock is free"

Kind == {"invoice", "bill", "freight"}
MoveState == {"draft", "posted", "cancel"}

AllOps == {"action_close", "action_post", "button_cancel", "button_draft",
           "link", "unlink", "amend", "action_verify", "revoke",
           "write_active", "write_closed", "write_unlocked"}

ASSUME MoveAssumption == Move \subseteq [tx : Tx, kind : Kind, no : Nat]
ASSUME MarginAssumption == Margins \subseteq Int /\ Margins # {}
ASSUME RateAssumption == Rate \in Nat
ASSUME OpsAssumption == Ops \subseteq AllOps
ASSUME SessionAssumption == NoSession \notin Session

VARIABLES
  state,        \* [Tx -> {"active", "closed"}]: "active" is any state before closed
  margin,       \* [Tx -> Margins]: stored gross_margin
  locked,       \* SUBSET Tx: commission_locked
  lockedAmount, \* [Tx -> Int]: commission_locked_amount
  docs,         \* SUBSET Tx: is_compliant, every required document is there
  compliant,    \* SUBSET Tx: the stored compliance_status
  loadClosed,   \* SUBSET Tx: no load, or load closed
  linked,       \* SUBSET Move: moves on the transaction's accounting fields
  moveState,    \* [Move -> MoveState]
  closeLock,    \* [Tx -> Session \cup {NoSession}]: advisory lock of action_close
  request,      \* [Session -> the request the session is running]
  stale,        \* SUBSET Session: requests that will write a row which
                \* another request committed after their snapshot
  drifted       \* SUBSET Session: requests during which the completeness of
                \* the documents changed without a write of the transaction

txVars == <<state, margin, locked, lockedAmount, docs, compliant, linked>>
sessionVars == <<request, stale, drifted>>
vars == <<state, margin, locked, lockedAmount, docs, compliant, loadClosed,
          linked, moveState, closeLock, request, stale, drifted>>

(***************************************************************************)
(* A request: its operation, the transaction and moves it is about, and    *)
(* the value computed from its snapshot: the commission for a close, the   *)
(* gross margin for an edit of the accounting links.                       *)
(***************************************************************************)
Step == {"begun", "locked", "applied"}
Request == [op : Ops, tx : Tx, moves : SUBSET Move,
            value : Int, step : Step]
NoRequest == [op |-> "none"]

Idle(s) == request[s] = NoRequest
Running(s, ops) == ~Idle(s) /\ request[s].op \in ops

MovesOf(t) == {m \in linked : m.tx = t}
Invoices(t) == {m \in MovesOf(t) : m.kind = "invoice"}
Bills(t) == {m \in MovesOf(t) : m.kind = "bill"}

-----------------------------------------------------------------------------
\* Mutation: a second close computes the commission afresh.
CommissionAtRecomputed(t) == IF margin[t] <= 0 THEN 0 ELSE margin[t] * Rate

(* compute_commission: the locked amount wins, a non-positive margin earns  *)
(* nothing, otherwise the applicable rate applies to the margin.            *)
CommissionAt(t) ==
  IF t \in locked THEN lockedAmount[t]
  ELSE IF margin[t] <= 0 THEN 0 ELSE margin[t] * Rate

\* Mutation: the sign of the margin is not checked.
CanCloseAnyMargin(t) ==
  /\ state[t] # "closed"
  /\ \E m \in Invoices(t) : moveState[m] = "posted"
  /\ \A m \in Bills(t) : moveState[m] = "posted"
  /\ t \in loadClosed /\ t \in docs

(* _validate_close_preconditions, on the snapshot.  Freight bills are not   *)
(* looked at.                                                               *)
CanClose(t) ==
  /\ state[t] # "closed"
  /\ \E m \in Invoices(t) : moveState[m] = "posted"
  /\ \A m \in Bills(t) : moveState[m] = "posted"
  /\ t \in loadClosed
  /\ t \in docs
  /\ margin[t] >= 0

(* Posting writes the link to the transaction, which a closed transaction   *)
(* refuses and which cannot replace another customer invoice.               *)
Origin(m) == m.kind \in {"invoice", "bill"}

\* Mutation: the links of a closed transaction are not protected.
CanLinkClosed(m) == m.kind = "invoice" => Invoices(m.tx) \subseteq {m}

\* Mutation: the customer invoice may be reassigned.
CanLinkAgain(m) == state[m.tx] # "closed"

CanLink(m) ==
  /\ state[m.tx] # "closed"
  /\ m.kind = "invoice" => Invoices(m.tx) \subseteq {m}

CanPost(m) ==
  /\ moveState[m] = "draft"
  /\ m.kind = "invoice" => m.tx \in docs
  /\ Origin(m) => CanLink(m)

(* button_cancel refuses a move linked to a closed transaction; the native  *)
(* method then takes a draft or posted move to cancel.                      *)
CanCancel(m) ==
  /\ moveState[m] # "cancel"
  /\ ~(m \in linked /\ state[m.tx] = "closed")

(* _auto_post_pending_invoices: the linked draft moves.                     *)
Pending(t) == {m \in MovesOf(t) : moveState[m] = "draft"}

(* A write of a document (action_verify, an override, a filing) leaves the  *)
(* documents complete.  It recomputes compliance_status; when that goes     *)
(* from "missing" to "compliant", the pending moves are posted in the same  *)
(* request, by action_post.                                                 *)
AutoPosted(t) == IF t \in compliant THEN {} ELSE Pending(t)

CanVerify(t) ==
  /\ t \notin docs \cap compliant
  /\ \A m \in AutoPosted(t) : Origin(m) => CanLink(m)

-----------------------------------------------------------------------------
\* Mutation: revoking a document does not reach the transaction's row.
WritesTxNotOnRevoke(r) ==
  IF r.op \in {"button_cancel", "button_draft", "revoke"} THEN {} ELSE {r.tx}

(* Which rows a request writes.  Filing or revoking a document recomputes   *)
(* compliance_status with a write on the transaction; cancelling or         *)
(* resetting a move writes the move only.                                   *)
WritesTx(r) ==
  IF r.op \in {"button_cancel", "button_draft"} THEN {}
  ELSE IF r.op = "action_post" /\ \A m \in r.moves : ~Origin(m) THEN {}
  ELSE {r.tx}

WritesMove(r) ==
  IF r.op \in {"link", "unlink"} THEN {} ELSE r.moves

Overlap(q, r) ==
  \/ WritesTx(q) \cap WritesTx(r) # {}
  \/ WritesMove(q) \cap WritesMove(r) # {}

-----------------------------------------------------------------------------
Begin(s, op, t, ms, v) ==
  /\ op \in Ops
  /\ Idle(s)
  /\ request' = [request EXCEPT ![s] =
       [op |-> op, tx |-> t, moves |-> ms, value |-> v, step |-> "begun"]]
  /\ UNCHANGED <<txVars, loadClosed, moveState, closeLock, stale, drifted>>

BeginClose(s, t) ==
  /\ CanClose(t)
  /\ Begin(s, "action_close", t, {}, CommissionAt(t))

BeginPost(s, m, v) ==
  /\ CanPost(m)
  /\ (m \in linked \/ ~Origin(m)) => v = margin[m.tx]
  /\ Begin(s, "action_post", m.tx, {m}, v)

BeginCancel(s, m) ==
  /\ CanCancel(m)
  /\ Begin(s, "button_cancel", m.tx, {m}, 0)

(* button_draft is Odoo's own: no guard of this repository applies.         *)
BeginDraft(s, m) ==
  /\ moveState[m] # "draft"
  /\ Begin(s, "button_draft", m.tx, {m}, 0)

(* The accounting fields edited on the transaction form.  A move names its  *)
(* transaction here, so none is ever a bill of another one.                 *)
BeginLink(s, m, v) ==
  /\ m \notin linked /\ CanLink(m)
  /\ Begin(s, "link", m.tx, {m}, v)

BeginUnlink(s, m, v) ==
  /\ m \in linked /\ m.kind # "invoice" /\ state[m.tx] # "closed"
  /\ Begin(s, "unlink", m.tx, {m}, v)

(* The amounts of a draft linked move are edited: gross_margin recomputes.  *)
BeginAmend(s, m, v) ==
  /\ m \in linked /\ moveState[m] = "draft" /\ v # margin[m.tx]
  /\ Begin(s, "amend", m.tx, {m}, v)

BeginVerify(s, t) ==
  /\ CanVerify(t)
  /\ Begin(s, "action_verify", t, AutoPosted(t), 0)

(* verified reset by the compliance cron, or a document archived.           *)
BeginRevoke(s, t) ==
  /\ t \in docs \cup compliant
  /\ Begin(s, "revoke", t, {}, 0)

(* write({"state": "active"}) passes _validate_state_transition, and so     *)
(* does write({"state": "closed", "commission_locked": True}), from any     *)
(* state and without any of the conditions of action_close.                 *)
BeginWriteActive(s, t) ==
  /\ state[t] = "closed"
  /\ Begin(s, "write_active", t, {}, 0)

BeginWriteClosed(s, t) ==
  /\ state[t] # "closed" \/ t \notin locked
  /\ Begin(s, "write_closed", t, {}, 0)

(* write({"commission_locked": False}): no guard names the field.           *)
BeginWriteUnlocked(s, t) ==
  /\ t \in locked
  /\ Begin(s, "write_unlocked", t, {}, 0)

-----------------------------------------------------------------------------
(* pg_try_advisory_lock after the preconditions; failing to get it raises.  *)
LockClose(s) ==
  LET r == request[s] IN
  /\ Running(s, {"action_close"}) /\ r.step = "begun"
  /\ closeLock[r.tx] = NoSession
  /\ closeLock' = [closeLock EXCEPT ![r.tx] = s]
  /\ request' = [request EXCEPT ![s].step = "locked"]
  /\ UNCHANGED <<txVars, loadClosed, moveState, stale, drifted>>

(* _apply_close writes in the request's own snapshot, and the finally       *)
(* clause unlocks: the lock is free again before the request commits.       *)
ApplyClose(s) ==
  LET r == request[s] IN
  /\ Running(s, {"action_close"}) /\ r.step = "locked"
  /\ closeLock' = [closeLock EXCEPT ![r.tx] = NoSession]
  /\ request' = [request EXCEPT ![s].step = "applied"]
  /\ UNCHANGED <<txVars, loadClosed, moveState, stale, drifted>>

(* The request commits; the open requests that write one of its rows can no *)
(* longer commit.                                                           *)
Committing(s) ==
  /\ ~Idle(s) /\ s \notin stale
  /\ request' = [request EXCEPT ![s] = NoRequest]
  /\ stale' = stale \cup {q \in Session \ {s} :
                          ~Idle(q) /\ Overlap(request[q], request[s])}
  /\ drifted' = drifted \ {s}
  /\ UNCHANGED <<loadClosed, closeLock>>

CommitClose(s) ==
  LET r == request[s] IN
  /\ Running(s, {"action_close"}) /\ r.step = "applied"
  /\ Committing(s)
  /\ state' = [state EXCEPT ![r.tx] = "closed"]
  /\ locked' = locked \cup {r.tx}
  /\ lockedAmount' = [lockedAmount EXCEPT ![r.tx] = r.value]
  /\ UNCHANGED <<margin, docs, compliant, linked, moveState>>

SetMoves(ms, st) ==
  moveState' = [m \in Move |-> IF m \in ms THEN st ELSE moveState[m]]

CommitPost(s) ==
  LET r == request[s] IN
  /\ Running(s, {"action_post"})
  /\ Committing(s)
  /\ SetMoves(r.moves, "posted")
  /\ linked' = linked \cup {m \in r.moves : Origin(m)}
  /\ IF WritesTx(r) # {}
     THEN margin' = [margin EXCEPT ![r.tx] = r.value]
     ELSE UNCHANGED margin
  /\ UNCHANGED <<state, locked, lockedAmount, docs, compliant>>

CommitMoveState(s) ==
  LET r == request[s] IN
  /\ Running(s, {"button_cancel", "button_draft"})
  /\ Committing(s)
  /\ SetMoves(r.moves, IF r.op = "button_cancel" THEN "cancel" ELSE "draft")
  /\ UNCHANGED txVars

CommitLinks(s) ==
  LET r == request[s] IN
  /\ Running(s, {"link", "unlink", "amend"})
  /\ Committing(s)
  /\ linked' = CASE r.op = "link" -> linked \cup r.moves
                 [] r.op = "unlink" -> linked \ r.moves
                 [] OTHER -> linked
  /\ margin' = [margin EXCEPT ![r.tx] = r.value]
  /\ UNCHANGED <<state, locked, lockedAmount, docs, compliant, moveState>>

(* What a write of one document makes of their completeness is what it is   *)
(* on the snapshot, unless other things it depends on changed meanwhile.    *)
Completeness(s, now) == docs' \in IF s \in drifted THEN {docs, now} ELSE {now}

CommitVerify(s) ==
  LET r == request[s] IN
  /\ Running(s, {"action_verify"})
  /\ Committing(s)
  /\ Completeness(s, docs \cup {r.tx})
  /\ compliant' = compliant \cup {r.tx}
  /\ SetMoves(r.moves, "posted")
  /\ UNCHANGED <<state, margin, locked, lockedAmount, linked>>

CommitRevoke(s) ==
  LET r == request[s] IN
  /\ Running(s, {"revoke"})
  /\ Committing(s)
  /\ Completeness(s, docs \ {r.tx})
  /\ compliant' = compliant \ {r.tx}
  /\ UNCHANGED <<state, margin, locked, lockedAmount, linked, moveState>>

(* The closing write captures no commission, and sets the lock all the same. *)
CommitWrite(s) ==
  LET r == request[s] IN
  /\ Running(s, {"write_active", "write_closed", "write_unlocked"})
  /\ Committing(s)
  /\ state' = CASE r.op = "write_active" -> [state EXCEPT ![r.tx] = "active"]
                [] r.op = "write_closed" -> [state EXCEPT ![r.tx] = "closed"]
                [] OTHER -> state
  /\ locked' = CASE r.op = "write_closed" -> locked \cup {r.tx}
                 [] r.op = "write_unlocked" -> locked \ {r.tx}
                 [] OTHER -> locked
  /\ UNCHANGED <<margin, lockedAmount, docs, compliant, linked, moveState>>

(* A request may fail at any point before it commits: a row changed since   *)
(* the snapshot, the advisory lock was taken, the worker died.  It changes  *)
(* nothing; Odoo reruns it from its start, on a new snapshot.               *)
Abort(s) ==
  /\ ~Idle(s)
  /\ request' = [request EXCEPT ![s] = NoRequest]
  /\ stale' = stale \ {s}
  /\ drifted' = drifted \ {s}
  /\ closeLock' = [t \in Tx |-> IF closeLock[t] = s THEN NoSession ELSE closeLock[t]]
  /\ UNCHANGED <<txVars, loadClosed, moveState>>

(* What is_compliant reads besides the documents' own writes: a document's  *)
(* expiry date is edited or passes, a rule is switched on or off, a         *)
(* document is moved to another record or from it.  None of it writes the   *)
(* transaction, so no open request becomes stale.                           *)
DocsDrift(t) ==
  /\ docs' = IF t \in docs THEN docs \ {t} ELSE docs \cup {t}
  /\ drifted' = drifted \cup {s \in Session : ~Idle(s) /\ request[s].tx = t}
  /\ UNCHANGED <<state, margin, locked, lockedAmount, compliant, loadClosed,
                 linked, moveState, closeLock, request, stale>>

(* The load's own workflow reaches its terminal state.                      *)
CloseLoad(t) ==
  /\ t \notin loadClosed
  /\ loadClosed' = loadClosed \cup {t}
  /\ UNCHANGED <<txVars, moveState, closeLock, sessionVars>>

-----------------------------------------------------------------------------
Init ==
  /\ state = [t \in Tx |-> "active"]
  /\ margin \in [Tx -> Margins]
  /\ locked = {}
  /\ lockedAmount = [t \in Tx |-> 0]
  /\ docs = {}
  /\ compliant = {}
  /\ loadClosed = {}
  /\ linked = {}
  /\ moveState = [m \in Move |-> "draft"]
  /\ closeLock = [t \in Tx |-> NoSession]
  /\ request = [s \in Session |-> NoRequest]
  /\ stale = {}
  /\ drifted = {}

BeginOnTx(s) == \E t \in Tx :
  BeginClose(s, t) \/ BeginVerify(s, t) \/ BeginRevoke(s, t)
    \/ BeginWriteActive(s, t) \/ BeginWriteClosed(s, t) \/ BeginWriteUnlocked(s, t)

BeginOnMove(s) == \E m \in Move :
  \/ BeginCancel(s, m) \/ BeginDraft(s, m)
  \/ \E v \in Margins : BeginPost(s, m, v) \/ BeginLink(s, m, v)
                          \/ BeginUnlink(s, m, v) \/ BeginAmend(s, m, v)

Commit(s) ==
  CommitClose(s) \/ CommitPost(s) \/ CommitMoveState(s) \/ CommitLinks(s)
    \/ CommitVerify(s) \/ CommitRevoke(s) \/ CommitWrite(s)

Next ==
  \/ \E s \in Session : BeginOnTx(s) \/ BeginOnMove(s) \/ LockClose(s)
                          \/ ApplyClose(s) \/ Commit(s) \/ Abort(s)
  \/ \E t \in Tx : CloseLoad(t) \/ DocsDrift(t)

Spec == Init /\ [][Next]_vars

-----------------------------------------------------------------------------
TypeOK ==
  /\ state \in [Tx -> {"active", "closed"}]
  /\ margin \in [Tx -> Int]
  /\ locked \subseteq Tx
  /\ lockedAmount \in [Tx -> Int]
  /\ docs \subseteq Tx
  /\ compliant \subseteq Tx
  /\ loadClosed \subseteq Tx
  /\ linked \subseteq Move
  /\ moveState \in [Move -> MoveState]
  /\ closeLock \in [Tx -> Session \cup {NoSession}]
  /\ request \in [Session -> Request \cup {NoRequest}]
  /\ stale \subseteq Session
  /\ drifted \subseteq Session

(* The step ends a request of session s on transaction t: it commits.       *)
Ends(s, t) == ~Idle(s) /\ Idle(s)' /\ request[s].tx = t

(* However requests interleave, the commit that closes a transaction finds  *)
(* what action_close validated still true of the database: the load is      *)
(* closed, the margin is not negative, and the commission that is locked is *)
(* the one that margin earns (or the amount an earlier close locked).  The  *)
(* only other way to close is the plain write of state and lock together,   *)
(* which _validate_state_transition lets pass unchecked.                    *)
CloseIsJustified == [][\A t \in Tx :
  (state[t] # "closed" /\ state'[t] = "closed") =>
    \/ \E s \in Session : Ends(s, t) /\ request[s].op = "write_closed"
    \/ /\ t \in loadClosed
       /\ margin[t] >= 0
       /\ t \in locked'
       /\ lockedAmount'[t] = CommissionAt(t)]_vars

(* A locked commission is never captured again: neither a second close that *)
(* was validated concurrently, nor a close after the state was written back *)
(* to "active", nor the unchecked closing write, changes the amount, whatever the margin became meanwhile.   *)
CommissionFrozen == [][\A t \in Tx :
  (t \in locked /\ t \in locked') => lockedAmount'[t] = lockedAmount[t]]_vars

(* The accounting links of a closed transaction do not move, also when the  *)
(* linking request was validated before the close committed.                *)
ClosedLinksFrozen == [][\A m \in Move :
  state[m.tx] = "closed" => (m \in linked' <=> m \in linked)]_vars

(* The documents gate both: action_close closes a transaction, and a        *)
(* customer invoice turns posted, only while they are complete, also when a *)
(* document is revoked between the check and the commit.  What may go wrong *)
(* is a change that does not write the transaction (an expiry date, a rule, *)
(* a document moved) while that very request is running.                    *)
DocumentsGate == [][\A t \in Tx :
  (\/ state[t] # "closed" /\ state'[t] = "closed"
   \/ \E m \in Move : m.tx = t /\ m.kind = "invoice"
                      /\ moveState[m] # "posted" /\ moveState'[m] = "posted")
    => \/ t \in docs'
       \/ \E s \in Session :
            Ends(s, t) /\ (s \in drifted \/ request[s].op = "write_closed")]_vars

(* The customer invoice, once linked, is never replaced.                    *)
OneInvoice == \A t \in Tx : Cardinality(Invoices(t)) <= 1

(* What makes the four properties above hold: while a request can still      *)
(* commit, whatever its guard read from the transaction's row, and the      *)
(* commission it computed, is what the row holds now.  The load is outside  *)
(* that row, and is safe because its workflow never leaves "closed"; the    *)
(* documents are too, and are not safe from drifting.                       *)
FreshRequest(s, r) ==
  /\ r.op = "action_close" =>
       /\ state[r.tx] # "closed"
       /\ s \notin drifted => r.tx \in docs
       /\ r.tx \in loadClosed
       /\ margin[r.tx] >= 0
       /\ r.value = CommissionAt(r.tx)
  /\ r.op \in {"link", "unlink"} => state[r.tx] # "closed"
  /\ \A m \in r.moves : (r.op = "action_post" /\ Origin(m)) =>
       /\ state[r.tx] # "closed"
       /\ (m.kind = "invoice" /\ s \notin drifted) => r.tx \in docs

Fresh == \A s \in Session : ~Idle(s) =>
  /\ \A m \in request[s].moves : m.tx = request[s].tx
  /\ s \notin stale => FreshRequest(s, request[s])
=============================================================================
