------------------------------ MODULE FreightDesk ------------------------------
(***************************************************************************)
(* The freight desk of one load (plasticos_logistics): its state machine,  *)
(* Same-As-Last (SAL) resolution, the RFQ episodes with the carriers'      *)
(* quotes, and the confirmation of a freight rate.                         *)
(*                                                                         *)
(* Operators work concurrently.  A command runs in one REPEATABLE READ     *)
(* transaction: it plans its row writes from a snapshot (Begin) and they   *)
(* take effect together (Commit) unless another command committed a write  *)
(* to one of the rows in between (stale), when it fails and is rerun.  The *)
(* pg_advisory_xact_lock calls are not modelled: the authorisation query   *)
(* has taken the snapshot by the time a lock is granted, so waiting for    *)
(* one hides no concurrent commit and invalidate_recordset() rereads the   *)
(* same snapshot.                                                          *)
(*                                                                         *)
(* The freight context of the load is built from its own row and from rows *)
(* of others: the addresses of its partners and the intake of its          *)
(* transaction.  Those are written without the load's row or any lock of   *)
(* the desk, in any state of the load.                                     *)
(***************************************************************************)
EXTENDS Integers, FiniteSets, TLC

CONSTANTS
  Context,       \* freight contexts (fingerprints of lane, weight, intake)
  Quote,         \* carrier responses: records [ctx, no]
  Session,       \* concurrent commands
  None, NoRate, Typed, History

LoadState == {"draft", "awaiting_ready", "ready_confirmed", "rate_confirmed",
              "scheduled", "dispatched", "picked_up", "delivered", "closed",
              "exception"}
Locked == {"dispatched", "picked_up", "delivered", "closed"}

ASSUME QuoteAssumption == Quote \subseteq [ctx : Context, no : Nat]
ASSUME ValueAssumption ==
  /\ None \notin Context \cup Quote
  /\ {NoRate, Typed, History} \cap Quote = {}
  /\ NoRate \notin {Typed, History}

VARIABLES
  load,     \* the load's row
  lane,     \* the context build_freight_context builds now; None: a fact is missing
  request,  \* [Context -> RFQ episode], one per idempotency key (load, context)
  quote,    \* [Quote -> carrier response]
  plan,     \* [Session -> row writes of the running command]
  stale,    \* SUBSET Session: commands that will write a row changed since
  moved,    \* history, SUBSET Session: commands to dispatch, the lane moved since their snapshot
  strayed   \* history: it did since the snapshot of the command that dispatched the load

vars == <<load, lane, request, quote, plan, stale, moved, strayed>>

LoadRow == [
  state : LoadState,
  rate : Quote \cup {NoRate, Typed, History},  \* where carrier and amount come from
  rated : BOOLEAN,                      \* rate_confirmed_at is set
  method : {"none", "manual", "sal", "live_quote"},
  fingerprint : Context \cup {None},    \* freight_context_fingerprint
  sal : {"none", "hit", "miss", "not_eligible"},
  chosen : Quote \cup {None},           \* selected_freight_quote_id
  bulk : BOOLEAN]                       \* history: the wizard confirmed or dispatched it

RequestRow == [state : {"none", "draft", "resolved", "cancelled"},
               quote : Quote \cup {None}]
QuoteRow == [state : {"none", "active", "superseded"}, selected : BOOLEAN]

-----------------------------------------------------------------------------
(* VALID_TRANSITIONS of services/state_machine.py.                          *)
Allowed == [
  draft           |-> {"awaiting_ready"},
  awaiting_ready  |-> {"ready_confirmed", "exception"},
  ready_confirmed |-> {"rate_confirmed", "exception"},
  rate_confirmed  |-> {"scheduled", "exception"},
  scheduled       |-> {"dispatched", "exception"},
  dispatched      |-> {"picked_up", "exception"},
  picked_up       |-> {"delivered", "exception"},
  delivered       |-> {"closed", "exception"},
  closed          |-> {},
  exception       |-> {"draft"}]

Active == {c \in Context : request[c].state = "draft"}

(* _ensure_active_for_child_evidence and action_select_quote: the episode   *)
(* is active and its context is the load's current one.                     *)
Usable(c) == c \in Active /\ lane = c

(* _cancel_stale_freight_quote_requests, as a function on the rows written. *)
Cancelled(cs) == [c \in cs |-> [state |-> "cancelled", quote |-> None]]

\* Mutation: only a reused rate is checked against the lane.
ContextCurrentSalOnly == load.method = "sal" => lane = load.fingerprint

(* _ensure_sal_context_current.                                             *)
ContextCurrent ==
  (load.method # "none" /\ load.fingerprint # None) => lane = load.fingerprint

-----------------------------------------------------------------------------
(* A plan names the rows a command writes and their new values.  slots are  *)
(* the entries of the unique index on the selected quote of a request.      *)
Plan == [load : UNION {[S -> LoadRow] : S \in {{}, {1}}},
         lane : UNION {[S -> Context \cup {None}] : S \in {{}, {1}}},
         request : UNION {[S -> RequestRow] : S \in SUBSET Context},
         quote : UNION {[S -> QuoteRow] : S \in SUBSET Quote},
         slots : SUBSET Context]
Nothing == [load |-> <<>>, lane |-> <<>>, request |-> <<>>, quote |-> <<>>, slots |-> {}]

Idle(s) == plan[s] = Nothing

Overlap(p, q) ==
  \/ p.load # <<>> /\ q.load # <<>>
  \/ DOMAIN p.request \cap DOMAIN q.request # {}
  \/ DOMAIN p.quote \cap DOMAIN q.quote # {}
  \/ p.slots \cap q.slots # {}

Begin(s, p) ==
  /\ Idle(s)
  /\ plan' = [plan EXCEPT ![s] = p]
  /\ UNCHANGED <<load, lane, request, quote, stale, moved, strayed>>

(* Some rows of a table rewritten, the others as they were.                 *)
Over(written, rows) ==
  [x \in DOMAIN rows |-> IF x \in DOMAIN written THEN written[x] ELSE rows[x]]

BeginLoad(s, row) == Begin(s, [Nothing EXCEPT !.load = <<row>>])

-----------------------------------------------------------------------------
(* The form: another partner or weight.                                     *)
EditLane(s, c) ==
  /\ load.state \notin Locked /\ c # lane
  /\ Begin(s, [Nothing EXCEPT !.load = <<load>>, !.lane = <<c>>])

(* A partner's address or coordinates are written, or another intake is     *)
(* linked to the transaction.                                               *)
LaneMoves(c) ==
  /\ c # lane
  /\ lane' = c
  /\ moved' = {s \in Session : \E i \in DOMAIN plan[s].load : plan[s].load[i].state \in Locked}
  /\ strayed' = (load.state \in Locked)
  /\ UNCHANGED <<load, request, quote, plan, stale>>

(* The form: carrier and rate typed in, or cleared, until a rate has been   *)
(* confirmed.                                                               *)
EditRate(s, r) ==
  /\ load.state \notin Locked /\ ~load.rated /\ r # load.rate
  /\ BeginLoad(s, [load EXCEPT !.rate = r])

(* action_confirm_ready, action_close and the bulk wizard, which makes any  *)
(* move there is and checks nothing else.                                   *)
Transition(s, new) ==
  /\ new \in Allowed[load.state]
  /\ BeginLoad(s, [load EXCEPT
       !.state = new,
       !.bulk = (load.bulk /\ new # "draft") \/ new \in {"rate_confirmed", "dispatched"}])

ActionSchedule(s) ==
  /\ load.state = "rate_confirmed" /\ ContextCurrent
  /\ BeginLoad(s, [load EXCEPT !.state = "scheduled"])

ActionDispatch(s) ==
  /\ load.state = "scheduled" /\ ContextCurrent /\ load.rate # NoRate
  /\ BeginLoad(s, [load EXCEPT !.state = "dispatched"])

(* action_create_freight_quote_request: one episode per context, ever.  It  *)
(* does not write the load.                                                 *)
CreateRequest(s) ==
  LET c == lane IN
  /\ load.state = "ready_confirmed"
  /\ load.sal \in {"miss", "not_eligible"}
  /\ c # None /\ load.fingerprint = c
  /\ request[c].state = "none"
  /\ Begin(s, [Nothing EXCEPT !.request =
                 [x \in {c} |-> [state |-> "draft", quote |-> None]]])

(* A carrier response is recorded; it may supersede an earlier one that is  *)
(* neither selected nor superseded yet.                                     *)
RecordQuote(s, q) ==
  /\ Usable(q.ctx) /\ quote[q].state = "none"
  /\ \E prior \in SUBSET {p \in Quote : p.ctx = q.ctx /\ quote[p].state = "active"
                                          /\ ~quote[p].selected} :
       /\ Cardinality(prior) <= 1
       /\ Begin(s, [Nothing EXCEPT !.quote =
            [p \in {q} \cup prior |->
               [state |-> IF p = q THEN "active" ELSE "superseded", selected |-> FALSE]]])

\* Mutation: the state of the episode is not checked.
SelectQuoteLate(s, q) ==
  /\ lane = q.ctx /\ quote[q].state = "active"
  /\ Begin(s, [Nothing EXCEPT
       !.quote = [p \in {q} \cup {p \in Quote : p.ctx = q.ctx /\ quote[p].selected} |->
                    [state |-> quote[p].state, selected |-> p = q]]])

(* plasticos.freight.quote.action_select.                                   *)
SelectQuote(s, q) ==
  /\ Usable(q.ctx) /\ quote[q].state = "active"
  /\ Begin(s, [Nothing EXCEPT
       !.slots = {q.ctx},
       !.quote = [p \in {q} \cup {p \in Quote : p.ctx = q.ctx /\ quote[p].selected} |->
                    [state |-> quote[p].state, selected |-> p = q]]])

(* _confirm_freight_rate: the load's new row, and every other active        *)
(* episode cancelled.                                                       *)
CanConfirm(rate, ctx) ==
  /\ load.state = "ready_confirmed"
  /\ rate # NoRate
  /\ ctx # None /\ lane = ctx

Confirmed(rate, method, ctx) ==
  [load EXCEPT !.state = "rate_confirmed", !.rate = rate, !.rated = TRUE,
               !.method = method, !.fingerprint = ctx,
               !.sal = IF method = "sal" THEN "hit" ELSE load.sal]

\* Mutation: the active episodes are left alone.
ActionConfirmRateOnly(s) ==
  /\ CanConfirm(load.rate, lane)
  /\ BeginLoad(s, Confirmed(load.rate, "manual", lane))

ActionConfirmRate(s) ==
  /\ CanConfirm(load.rate, lane)
  /\ Begin(s, [Nothing EXCEPT
       !.load = <<Confirmed(load.rate, "manual", lane)>>,
       !.request = Cancelled(Active)])

(* plasticos.freight.quote.request.action_select_quote.                     *)
\* Mutation: the episode being resolved is cancelled with the others.
ActionSelectQuoteCancelled(s, c, q) ==
  /\ Usable(c)
  /\ {p \in Quote : p.ctx = c /\ quote[p].selected} = {q}
  /\ quote[q].state = "active" /\ CanConfirm(q, c)
  /\ Begin(s, [Nothing EXCEPT
       !.load = <<[Confirmed(q, "live_quote", c) EXCEPT !.chosen = q]>>,
       !.request = Cancelled(Active)])

ActionSelectQuote(s, c, q) ==
  /\ Usable(c)
  /\ {p \in Quote : p.ctx = c /\ quote[p].selected} = {q}
  /\ quote[q].state = "active"
  /\ CanConfirm(q, c)
  /\ Begin(s, [Nothing EXCEPT
       !.load = <<[Confirmed(q, "live_quote", c) EXCEPT !.chosen = q]>>,
       !.request = Over([x \in {c} |-> [state |-> "resolved", quote |-> q]],
                        Cancelled(Active))])

(* action_resolve_freight.  resolve_sal decides; hit is the outcome of its  *)
(* search among the earlier loads.  A load whose rate is confirmed only     *)
(* loses its active episodes.                                               *)
Eligible == load.state = "ready_confirmed" /\ load.rate = NoRate /\ lane # None

ResolveConfirmed(s) ==
  /\ load.rated \/ load.state = "rate_confirmed"
  /\ Active # {}
  /\ Begin(s, [Nothing EXCEPT !.request = Cancelled(Active)])

ResolveHit(s) ==
  /\ ~load.rated /\ Eligible
  /\ Begin(s, [Nothing EXCEPT
       !.load = <<Confirmed(History, "sal", lane)>>,
       !.request = Cancelled(Active)])

\* Mutation: a load whose rate is confirmed is evaluated again.
ResolveMissAgain(s) ==
  /\ load.state \notin Locked
  /\ BeginLoad(s, [load EXCEPT !.fingerprint = None, !.sal = "not_eligible"])

ResolveMiss(s) ==
  LET ctx == IF Eligible THEN lane ELSE None IN
  /\ ~load.rated /\ load.state \notin {"rate_confirmed"} \cup Locked
  /\ Begin(s, [Nothing EXCEPT
       !.load = <<[load EXCEPT !.fingerprint = ctx,
                               !.sal = IF Eligible THEN "miss" ELSE "not_eligible"]>>,
       !.request = Cancelled(Active \ {ctx})])

-----------------------------------------------------------------------------
Commit(s) ==
  LET p == plan[s] IN
  /\ ~Idle(s) /\ s \notin stale
  /\ load' = IF p.load = <<>> THEN load ELSE p.load[1]
  /\ lane' = IF p.lane = <<>> THEN lane ELSE p.lane[1]
  /\ request' = Over(p.request, request)
  /\ quote' = Over(p.quote, quote)
  /\ plan' = [plan EXCEPT ![s] = Nothing]
  /\ stale' = stale \cup {q \in Session \ {s} : ~Idle(q) /\ Overlap(plan[q], p)}
  /\ moved' = moved \ {s}
  /\ strayed' = (load'.state \in Locked /\ IF load.state \in Locked THEN strayed ELSE s \in moved)

(* A command fails before it commits, for a changed row or any other        *)
(* reason, and changes nothing.                                             *)
Abort(s) ==
  /\ ~Idle(s)
  /\ plan' = [plan EXCEPT ![s] = Nothing]
  /\ stale' = stale \ {s} /\ moved' = moved \ {s}
  /\ UNCHANGED <<load, lane, request, quote, strayed>>

Init ==
  /\ load = [state |-> "draft", rate |-> NoRate, rated |-> FALSE, method |-> "none",
             fingerprint |-> None, sal |-> "none", chosen |-> None, bulk |-> FALSE]
  /\ lane = None
  /\ request = [c \in Context |-> [state |-> "none", quote |-> None]]
  /\ quote = [q \in Quote |-> [state |-> "none", selected |-> FALSE]]
  /\ plan = [s \in Session |-> Nothing]
  /\ stale = {} /\ moved = {}
  /\ strayed = FALSE

Edit(s) ==
  \/ \E c \in Context \cup {None} : EditLane(s, c)
  \/ \E r \in {NoRate, Typed} : EditRate(s, r)

Move(s) ==
  \/ \E new \in LoadState : Transition(s, new)
  \/ ActionSchedule(s) \/ ActionDispatch(s)

Rfq(s) ==
  \/ CreateRequest(s)
  \/ \E q \in Quote : RecordQuote(s, q) \/ SelectQuote(s, q)

Rate(s) ==
  \/ ActionConfirmRate(s)
  \/ \E q \in Quote : ActionSelectQuote(s, q.ctx, q)
  \/ ResolveConfirmed(s) \/ ResolveHit(s) \/ ResolveMiss(s)

Next ==
  \/ \E s \in Session : Edit(s) \/ Move(s) \/ Rfq(s) \/ Rate(s) \/ Commit(s) \/ Abort(s)
  \/ \E c \in Context \cup {None} : LaneMoves(c)

Spec == Init /\ [][Next]_vars

-----------------------------------------------------------------------------
TypeOK ==
  /\ load \in LoadRow
  /\ request \in [Context -> RequestRow]
  /\ quote \in [Quote -> QuoteRow]
  /\ plan \in [Session -> Plan]
  /\ stale \subseteq Session
  /\ lane \in Context \cup {None}
  /\ moved \subseteq Session /\ strayed \in BOOLEAN

(* A load on the road runs on a rate that was confirmed for the lane it     *)
(* runs: edits of the load that race with confirmation, scheduling or       *)
(* dispatch are caught, every change of its context up to the snapshot of    *)
(* the dispatching command is seen by it, and a load recovered from an       *)
(* exception has to be confirmed again.  Two ways around it are open: the    *)
(* wizard confirms or dispatches a load without a check, and a context that  *)
(* moves outside the load after that snapshot is seen by no one.            *)
RunsOnConfirmedLane == (load.state \in Locked /\ ~load.bulk) =>
  /\ load.rated /\ load.rate # NoRate
  /\ load.fingerprint = lane \/ strayed

(* Once confirmed, the rate and where it came from stay what they are until *)
(* the load is back at "ready_confirmed" through the exception path: no     *)
(* resolution, selection or form edit that was begun earlier overwrites it. *)
RateIsStable == [][
  (load.rated /\ load.state # "ready_confirmed") =>
    /\ load'.rate = load.rate /\ load'.method = load.method
    /\ load'.fingerprint = load.fingerprint
    /\ load'.sal = load.sal /\ load'.chosen = load.chosen]_vars

(* A rate that is said to come from a live quote is the quote that the      *)
(* resolved episode of the same context names.                              *)
LiveQuoteIsResolved == (load.rated /\ load.method = "live_quote") =>
  /\ load.rate = load.chosen
  /\ request[load.fingerprint] = [state |-> "resolved", quote |-> load.chosen]

-----------------------------------------------------------------------------
(* load.py:1041: a confirmed rate leaves no active RFQ episode behind, with *)
(* no one having to run Resolve Freight again.  The wizard confirms none.   *)
NoOrphanRequest == (load.state = "rate_confirmed" /\ ~load.bulk) => Active = {}

(* freight_quote.py:205: a resolved request references its own selected     *)
(* quote.                                                                   *)
ResolvedOwnsSelection == \A c \in Context :
  request[c].state = "resolved" =>
    request[c].quote \in Quote /\ quote[request[c].quote].selected

(* load.py:988: _confirm_freight_rate is the one way to a confirmed rate;    *)
(* only the wizard puts a load past it that has none.                       *)
RateIsConfirmed == (load.state \in {"rate_confirmed", "scheduled"} \cup Locked /\ ~load.bulk) =>
  load.rated /\ load.rate # NoRate
=============================================================================
