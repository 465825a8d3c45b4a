# PlasticOS on Odoo 19: a verification project

This directory holds TLA+ models of the business core of PlasticOS, a set of
Odoo modules a plastics broker runs its deals on, with TLC runs on small
instances and TLAPS proofs for every instance. The modules are translated from
the Python source; `PROJECT.json` ("map") names the lines behind every
definition.

## The system

A deal starts as an *intake* or a *web lead*, is matched with buyers through
an external service (*Gate*), is offered, and becomes a *transaction* with a
sale order, purchase orders, a *load* to be moved by a carrier, required
*documents*, invoices and bills, claims, and the sales representative's
*commission*. PostgreSQL holds all the state; users, RPC clients and crons work
on it concurrently.

| Part | State it keeps | Operations | Modelled in |
|---|---|---|---|
| web_leads, crm_bridge | leads under an idempotency key, evidence, review, links to an intake and a CRM lead | admission and replay, triage, conversion, retries, overrides, review | `LeadTriage`, `WebLeads` (implements `IdempotentAdmission`) |
| intake, offer | an intake's status, match lines, offers | matching, sending offers, answers, purchase, bulk wizard, expiry | `DealDesk` (implements `MatchingBudget`) |
| gate, matching | match runs, results under an operation id, display lines | match, retry, durable failure, review | `MatchRuns` |
| gate, enrichment | enrichment runs, attempt number, the partner's fields and their provenance | execute, retry, write-back, approval, durable failure | `EnrichmentRuns` |
| transaction | state, accounting links, margin, compliance status | action_close, link edits, hooks on account moves; delivery states, bulk wizard, delivery orders | `TransactionClose` (implements `AtomicRequests`), `TransactionStates`, `SettlementRules` (weights) |
| commission | lock flag and locked amount, rules and tiers, payouts | compute, lock at close, payout states | `TransactionClose` (lock), `CommissionRules` (amount), `PayoutDesk` (payouts) |
| documents | documents, rules, flags | file, verify, override, archive, delete, audit cron | `DocumentCompliance`, `TransactionClose` |
| base | none | midnight recompute | `DocumentCompliance` |
| logistics | load row, RFQ episodes, quotes, estimates, calibration ledger | state transitions, Same-As-Last, RFQ, rate confirmation | `FreightDesk`, `FreightShifts`, `SameAsLast`, `FreightLedger` (actual costs), `FreightAdvice` (estimates, ranking) |
| claims | claims, sums on the transaction | states, recoveries, bulk updates, escalation | `ClaimLedger` |
| automation; crons of documents, claims, offers, loads, sales; intake_normalizer | markers of the last notice; penalty rules | search, notify, remember; penalties | `ChasingCrons`, `SettlementRules` (penalties) |
| legacy_erp_import (pipeline, CSV service, wizard), partner_import | external ids, imported records | read, derive, run, rerun | `ImportRuns`, `LegacyHeaders` (the reading) |
| crm_sync | leads, external references, call events, orphan buffer, two watermarks, audit run | hourly catch-up, full import, webhook | `CrmSync` |
| profiles, product, order lines, dashboards, CI | | | not modelled, see below |

How they interact:

* A request (button, RPC call or cron) is one PostgreSQL transaction at
  REPEATABLE READ. It reads one snapshot; a row that somebody else committed
  since the snapshot makes its own write of that row fail, and Odoo reruns it.
  There are no locks on rows that are only read.
* Advisory locks are taken in the middle of a request, after its snapshot, so
  a lock granted late does not show the earlier holder's commits. The session
  locks (`pg_try_advisory_lock`) are released in a `finally`, before the commit.
* Stored computed fields are pushed by hand between modules: a document write
  calls `_compute_compliance` of the transaction, which may post the pending
  moves, which links them back to the transaction.
* What depends on the date is made current by a cron at 00:05.

Hard behaviours, with their lines, are listed in `PROJECT.json` ("hazards"):
check-then-act across a commit, write skew between two rows, stale snapshots
under advisory locks, stored flags that miss a dependency, boundaries of dates
and batch limits, and commands that skip the workflow.

## Modules

How PostgreSQL serves concurrent requests recurs in every module: `stale`
(or a field of a request of that name) says that a row the request writes was
committed by another since its snapshot, and such a request can only roll back.

### The deal

**`SnapshotRequests`** - that rule by itself, for components whose requests are
one plan: `Begin` reads the snapshot `rows` and plans the rows that change,
`Commit` writes them and makes every session stale that plans to write one of
them, `Rollback` drops a stale plan. Rows that are only read protect nothing.
`log` counts committed events that leave no row behind.

**`DealDesk`** extends it - an intake from draft to its purchase, its match lines and its
offers. Every button, the bulk wizard, edits, deletion and the expiry cron are
plans; so are writes with a state among their values (`WriteState`: a card
dragged in the kanban), which `write` lets pass on any offer. The kanban of
intakes, whose drag writes `status` without a guard (`intake_views.xml:140`), is
left out: `WithinBudget` is about the buttons and the wizard. It is the refinement of **`MatchingBudget`**, which knows
three counters only: a matching pays for one sending of offers and one
purchase. **`ClaimLedger`** extends it too - claims on transactions; a request
that writes a claim recomputes the sums stored on the transaction from its own
snapshot, and a close reads the margin they enter (a close is `action_close`; the
plain write that closes is in `TransactionClose`).

**`MatchRuns`** - matching through Gate. A run is created inside the request
that asks Gate, so a failure rolls it back and creates it anew, under another
row id, on a second cursor; the identity given to Gate comes from the first.
**`EnrichmentRuns`** - enrichment through Gate, with the row lock, taken before
or after the call as the ORM flushes, and the durable failure on a second
cursor. Gate is external: it answers an identity it has answered from its
cache.

**`LeadTriage`** - pure: what the classification makes of the evidence
(`ColdGate`, `Hot`, `NeedsReview`) and of weights (`Lbs`, where a count of
pallets is not a weight). Amounts are small integers and three thresholds are
constants. **`WebLeads`** - deliveries of submissions by senders that resend,
admitted under a key, triaged with calls that take minutes, converted; users
retry, override, review and delete. `AdmitsOnce` is the refinement of
**`IdempotentAdmission`**: a key is received once, converted at most once
while its intake lives, and a delivery is answered once, never before its
receipt is durable.

**`TransactionClose`** - the closing of transactions, in the presence of every
request that can disturb it. A request of a session is *begun* (its guard holds
in the snapshot; its operation, its moves and the value it computed are
recorded in `request`), passes for a close the advisory lock (`LockClose`,
`ApplyClose`), and then commits or aborts. `WritesTx` and `WritesMove` say
which rows an operation writes; so it is visible which guards are protected by
a row conflict (everything read from the transaction's own row) and which are
not (the moves' state, the documents' expiry). The constant `Ops` selects the
operations that happen in a run. There are two ways to close: `action_close`,
and the plain write of state and lock together (`BeginWriteClosed`), which
`_validate_state_transition` lets pass without a look at load, margin or
documents and which computes no commission. Documents become complete or
incomplete by a request that also writes the transaction (a verification, an
audit), or without one (`DocsDrift`: expiry dates, the midnight cron, rules, the
record of a document); `drifted` remembers the requests that were open at such
a moment. **`AtomicRequests`** says what the same requests would do if each
happened at once, without snapshots, commits and locks. **`OrderlyRequests`**
leaves out the steps that change what other requests only read: cancellation
and reset to draft (`Skewing`), and drift under an open request. `Serializable`
is the refinement: without them every commit is one step of `AtomicRequests`, so
nothing a request read or computed is out of date when it takes effect. Any one
of them alone breaks it. Left out is the check that a bill belongs to no other
transaction (`transaction.py:911`): a move is meant for one transaction here.

**`TransactionStates`** - the states between creation and end: the commands of
the form, the bulk wizard, the cron and the purchase that link a delivery
order, the automation that notices a delivery. What a close asks for is in
`TransactionClose`; here it is only a move to "closed". Left out: the
reminders (`ChasingCrons`), and `services/status_cascade.py`, which has no
caller.

**`CommissionRules`** - pure: the amount `compute_commission` returns, as a
relation, because the product is a float before it is rounded and tiers with
equal minima come in no specified order. **`PayoutDesk`** - the lists of closed
transactions a representative is paid for: generated, edited, confirmed, paid,
reset, cancelled, deleted. The stored sum is recomputed by whoever writes the
list. Dates and the text of the reference are left out.

**`FreightDesk`** - one load: the ten states of `VALID_TRANSITIONS`, the
freight context (lane, weight, intake, abstracted to a context value), SAL
resolution, the RFQ episodes keyed by context, the carriers' responses, and
the three ways to a confirmed rate. The context `build_freight_context` makes is
a variable of its own (`lane`): the form moves it with the load's row
(`EditLane`), and addresses, coordinates and the intake of the transaction move
it without that row, without a lock and in every state (`LaneMoves`).
`Transition` is any move of the bulk wizard; `load.bulk` remembers that it
confirmed or dispatched the load, `strayed` that the lane moved after the
snapshot of the command that dispatched it. Left out: cancellation reasons, quote
validity dates and declines (they only remove selectable quotes), chatter and
event records; the ranking is in `FreightAdvice`. **`FreightShifts`** - the
desk with a given number of operators at work, to say what holds with one of
them only (`EpisodesEndWell`). **`SameAsLast`** - the search among earlier loads
that `FreightDesk` leaves open between `ResolveHit` and `ResolveMiss`.
**`FreightLedger`** - the actual cost of a load, typed, recorded, and corrected
by observations that supersede one another under two partial unique indexes
(their entries are rows, so two requests that enter the same key conflict).
**`FreightAdvice`** - pure: which earlier loads are evidence, the estimate made
of them, and the order of the quotes. Fractions are exact pairs, and the
exponentials of the code are positive integers. Only the score is rounded, as in
the code: `Grain` parts of a hundredth, ties to the even one.

**`SettlementRules`** - pure: gross, tare and net weight of a transaction, the
flag of a discrepancy, the deduction for a light load, and the penalty of an
invoice. **`LegacyHeaders`** - pure: which export of the old ERP is loaded, how
rows are attached, and the parties, date and state derived of the accounting
rows of a trade. Cells are codes; the parsing of SQL text is left out.

**`DocumentCompliance`** - the documents of one transaction over a few days:
filing, verification, override, archiving, re-tagging, deletion, new expiry
dates, documents moved to another record and back (`here`, `MoveRecord`), rules
switched on and off, the midnight cron with its batch limit, the audit cron. The
status is recomputed for the transactions related to the documents written
(`Trigger`), and four changes have no such effect: an expiry date, the record
of a document, a rule, and the cron's flags (`Unnoticed`, remembered in
`unseen`). A step is a whole request; the races are in `TransactionClose`.
Left out: `action_supersede`, which writes nothing the status depends on, and
the limit of 500 documents of the audit cron.

### What runs beside it

**`ChasingCrons`** - sixteen crons as one machine with a *policy*: the order of
the search, what it finds, when a record is due again, where the notice is
remembered. The lock is asked for after the snapshot, released before the
commit, and outlives a rollback: after a failed statement the unlock in
`finally` fails as well, and the pooled connection keeps the lock (`leaked`)
until it is recycled. Left out: the geocoding backfill (it commits after each
success), dispatch acknowledgments and the cron that links delivery orders.

**`ImportRuns`** - four imports as policies: units, savepoints, commits after a
batch, identity by name or external id, transactions poisoned by a failed
statement. Left out: `skip_existing=False` of the wizard, and the deletion of
imported records. A partner somebody enters by hand while an import is running
may be created again by it; only what imports create is counted.

**`CrmSync`** - the synchronization of VanillaSoft contacts and calls into
leads. `sync` is the session that holds the connection's advisory lock: it
requests a page, plans it on a snapshot (`LeadPlan` is what `_upsert_lead`
would write), and commits it with the watermark; then it reads the calls one
window of a day at a time, and at last resolves the orphans. `phase` tells the
bootstrap of a full import from its catch-up. `hook` is the webhook, which
upserts a contact without the lock. A plan carries its rows and unique keys
(`Rows`); whatever another transaction commits to one of them dooms it (`Hit`),
and a doomed session fails, rolls back and records the failure on a second
cursor. The provider is the environment: contacts are modified or deleted,
calls recorded, with a clock that may lag by `Skew`, and it may clamp
`modified_after` silently. Left out: custom table rows, counters, the pages
within one window of calls, versions of a call, and the mapping of fields (a
contact's values are its modification time). A worker that crashes leaves its
audit run "running", as in the code.

**`BackOffice`** composes `DocumentCompliance`, `ClaimLedger`, `DealDesk`,
`ImportRuns`, `PayoutDesk`, `FreightLedger` and `TransactionStates` for one
run. They share no row, so a behaviour picks one part
(`part`) and leaves the others as they are: an interleaving of independent
parts would show nothing more about any of them.

The `MC*` modules give the instances. The modules ending in `Proofs` hold the
proofs of the module they are named after. `TransactionCloseProofs` holds also
those of `CommissionRules`, `SettlementRules` and the refinement of
`AtomicRequests`, `FreightDeskProofs` those of `FreightShifts` and `SameAsLast`,
`WebLeadsProofs` those of `LeadTriage` and of the refinement, and `OfficeProofs`
those of `BackOffice` and its parts, of `FreightAdvice` and of `LegacyHeaders`.

## Runs

Constants are small sets; sessions are symmetric. Properties are in the order
of the configuration.

| Run | Instance | Distinct states | What it shows |
|---|---|---|---|
| `close` | 1 transaction with an invoice and a bill, 2 sessions, margins -1 and 2; every operation, and documents that drift | 2.1M | `CloseIsJustified`, `ClosedLinksFrozen`, `CommissionFrozen`, `DocumentsGate` |
| `close_orderly` | the same with 2 competing invoices and a freight bill, without the steps of `Skewing` and drift under open requests | 0.3M | `OneInvoice`; `Serializable`: every request acts as if at once |
| `freight` | 2 contexts, which move with and without the load. Concurrent: 1 quote, 2 sessions, up to "dispatched", the bulk wizard for what it neither confirms nor dispatches. Sequential: 2 quotes, 1 session, all states, the whole wizard | 2.7M | `RunsOnConfirmedLane`, `LiveQuoteIsResolved`, `RateIsStable`; `EpisodesEndWell`: what the comments promise of RFQ episodes, without concurrency |
| `web_leads` | 1 key, 3 deliveries, 2 workers, 1 crash or lost answer, 2 requests of users | 1.1M | `OneConversion`, `ApprovalIsCurrent`, `ConvertedIsHandedOff`, `EveryDeliveryAnswered`, `AdmitsOnce` |
| `matching` | 2 intakes alone or together, 1 buyer, 2 operators, 3 requests, all failures of Gate | 2.3M | `ReceiptsAreExact` |
| `enrichment` | 2 runs, 2 fields, 2 operators, 3 requests, all failures of Gate | 215k | `MergeOnly`, `RequestsEnd` |
| `gate_replayed` | 1 run, 1 field, 2 operators, 3 requests | | a retry is answered from Gate's cache (violated) |
| `crons` | every policy, limits 1 and 2, 2 records, 2 workers, 1 exception, crash or edit | 0.8M | `NoticesAreDue`, `EveryoneReached` |
| `back_office` | 2 documents, 2 tags, days 0..2, batch 2; 2 claims on 1 transaction, amounts -1 and 1, balances -1 and 0; 1 intake, 2 buyers, 2 offers, prices 1 and 2; 2 sessions, 5 requests; 3 imports of 2 units of 2 records by 2 sessions, batch 2, 2 exceptions or crashes; 2 payouts of 3 transactions; 1 load, 3 observations, 2 costs; 2 transactions with their pickings and loads, 3 requests | 1.0M | `WithinBudget`, `MidnightExact`, `StatusFollowsDocuments`, `RecoveriesExact`, `LiveMargin`, `AcceptedStands`, `ImportedOnce`, `WholeUnits`, `PaymentsStand`, `LedgerIsChain`, `EndsStand` |
| `payouts_twice` | 2 payouts, 2 transactions, 2 sessions | | a transaction is paid by two payouts (violated) |
| `crm` | 2 contacts, one to a page, one of them with a lead from before; 1 call; lookback 3, days up to 4; 1 fault or crash, 1 webhook or user edit; contacts refused by validation | 1.4M | `NoDuplicateLead`, `ContactsAcknowledged`, `CallsAcknowledged`, `UserArchiveStands`, `SuccessIsComplete`, `CatchesUp`, `RunsEnd` |
| `crm_import` | the same with full imports, outages, a clamping provider, clocks 1 apart, days up to 5 | 13.2M | `CensusIsProven`, `NoSeam` |

The pure modules are checked by `ASSUME`s of the MC module that extends them,
over every input of a small set: `TriageIsSound`
(`MCWebLeads`; `HeavierIsNoColder` and `CountsAreNotPounds`: more weight never makes a lead colder, and a count of pieces is
never taken for pounds), `CommissionsAreSound` and `TiersAreFirstFitting`
(`MCTransactionClose`: tiers as a set against the loop over a sorted list),
`SalIsExact` (`MCFreightDesk`: the walk over up to three earlier loads against
what it is to find, `NothingIsMissed`, and what it may say otherwise,
`ReasonIsTrue`), `EvidenceIsSound`, `EstimatesAreSound` and `RankingIsSound`
(`MCFreightDesk`: a load's own lane and the nearest loads are used; an estimate
keeps its contract and stays the newest while its evidence does; one of the
eligible quotes is recommended and the others move nobody; the cheaper of two
alike comes first, or their rounded scores are one, while prices spread less than
twice the average of the past; `Grain` is 1 there, so that ties occur),
`LoadsAreSettled` and `PenaltiesAreDue` (`MCTransactionClose`: no more is settled
than was weighed or deducted than the minimum, a heavier load is not deducted
more, a penalty is capped, first in order, and computed once),
`HeadersAreDerived` and `RowsAreAccounted` (`MCBackOffice`: more evidence never
names another party nor takes a state back, nothing unresolved is silent, every
row is attached or reported). `PriceMayLose`, `UnsetIsNotZero`,
`GraceNeedsThreshold` and `ClosedMayBeUnsettled` are inputs beyond the limits of
these ("Known").

Every state machine with variables of its own, except those of `back_office`,
has a `TypeOK`. It is proved of all of them (of `ChasingCrons` without the order
of notices, `line`, whose sorting is a library definition); the runs spend their
time on the rest, and it can be added to their INVARIANTS.

Two sessions are enough for the conflicts: every guard of a request is
disturbed by the commit of *one* other. One transaction is enough because no
operation reads two. Two documents and two tags distinguish "one of several"
from "all"; three days give a day before, on and after an expiry date and a
day on which the cron did not run. Three deliveries of one key are a first, a
concurrent one and a replay; keys share no row. Two intakes let the ids of
match runs cross, and two records with a limit of one make a batch that is too
small. Two payouts can hold the same transaction, and three observations are
a first and two corrections that race for the same place. The concurrent half of
`freight` has the lane filled in, stops at "dispatched", from which the desk does
not tell the states after it, and leaves out the bulk moves that set `load.bulk`,
of which `RunsOnConfirmedLane` claims nothing; its sequential half has the rest.
One transaction of claims leaves re-parenting to the theorem, and the batch of
the midnight cron is never full: where it is, flags wait for another night. Of the two documents one at a time is overridden and one archived
(`FewExceptions`).
A closed load, an intake that has been bought and a finished import are ends of
their workflow, and bounded runs stop at their bound; those configurations do
not check deadlock.

In `CrmSync` two contacts, one to a page, make the enumeration cross pages and
transactions; one fault can fall on any step, and one webhook or user edit on
any step too. The lookback of `crm` is long enough that a page can be open for
two days, in which a contact and its call appear behind it: that is how a call
gets into the orphan buffer. The clamp to the lookback bites in `crm_import`,
where outages happen. Three assumptions on the
environment are stated in the module: each modification has its own time stamp
and `modified_after` is exclusive; a run without "outage" requests every
modification within the lookback (`Timely`: the hourly cron against 30 days);
and the first page of a phase is requested while a snapshot is already open,
the later ones just after a commit. `CensusIsProven` speaks of imports whose
floor is older than the lookback when they start; within seconds of that
boundary the code's own comparison decides.

Fairness is stated where the code's scheduling gives it, and nowhere else:

* `CrmSync`: the cron starts a run (it is hourly when enabled), a started
  session and an open webhook go on (the worker runs).
* `WebLeads`: a request that has begun goes on, and a sender that has no answer
  resends (the providers' webhooks and the agent do; nothing in the code makes
  them).
* `EnrichmentRuns`: a worker goes on; Gate answers or its time-out expires
  (the client has one).
* `ChasingCrons`: the scheduler begins runs, runs go on, and a session that has
  kept a lock is closed at last (Odoo recycles idle connections and workers).

Faults are never fair and always bounded. In the other components everything is
started by users, so nothing is assumed and no liveness is stated.
`EveryoneReached` speaks of policies and limits with room for everyone
(`Reaches`); see below for the others.

### What the violated runs say

`gate_replayed`: `enrichment_run.py:97` says that an operator's retry is a new
identity and is never served Gate's cached response to the failed attempt
(`gate_builders.py:63`). The number of the attempt is raised in the transaction
that a failure rolls back, and the durable record of the failure does not hold
it; the second retry asks under the identity of the first.

`payouts_twice`: `commission_payout.py:179` calls the generator safe to call
from a cron or a wizard and says that it finds unpaid transactions. It leaves
out what *confirmed and paid* payouts hold (`:184`), and nothing looks again
when a payout is confirmed or paid. Two drafts made before either is confirmed
hold one transaction, and both are paid.

### Known, and not given a run

What the models contain, or what was met while they were written, and no
property claims:

*Closing.* `write({"state": "closed", "commission_locked": True})` closes from
any state without the checks of `action_close` and locks whatever amount was
stored (`transaction.py:884`); `CloseIsJustified` and `DocumentsGate` except this
write by name, and nothing else. `write({"state": "active"})` reopens a closed
transaction, and `commission_locked` can be reset by a plain write. `account_move_inherit.py:10`
wants a closed transaction's moves not undone: `button_cancel` is guarded,
Odoo's `button_draft` is not (`BeginDraft`). `document.py:125` promises
real-time updates, and `expiry_date`, `res_model` and `res_id` are not among the
fields that trigger them, nor do rules and the midnight cron: the status stays
stale until the next recompute (`StatusFollowsDocuments` names the four), and
such a change during a close or a posting slips past `DocumentsGate`. A fixed
commission may exceed the margin and the default rate is not bounded
(`CommissionIsAShare` excludes the first by hypothesis and the second by type);
an override of 0 means none; that a representative has one active rule is
checked, then acted on.

*Settlement.* 0 is "not set": a typed tare of 0 does not survive a change of
the unit, and a load nobody has weighed is deducted its whole minimum. Negative
counts are not excluded; with one, more is settled than was weighed. The help of
`grace_period_days` says "Days before penalty starts accruing"; a rule with the
default threshold of 0 charges a percentage or a fixed amount within them.

*Freight.* When prices spread over twice the average of the past or more, a
cheaper quote may rank below a dearer one that is nearer to it; and when their
scores are one to six digits, below a dearer one with a smaller id. A carrier's
or a facility's address that changes after the snapshot of a dispatch leaves a
load on the road with a rate for another lane, and nobody looks again. Evidence that
returns to an earlier fingerprint records no estimate, so that the newest one is
of other evidence. `load.py:1041` promises that no active episode survives a
confirmation; creation and confirmation take different locks, write different
rows and read snapshots, so with two operators one may, and a response may be
recorded on, or selected for, an episode that has just ended. The bulk wizard
reaches "rate_confirmed" without a rate, and dispatches without a look at the
lane; `RunsOnConfirmedLane` claims nothing of such a load.

*Leads and intakes.* A lead without a source intake that is converted twice
concurrently from the CRM gets two intakes, and two leads of one company two
partners. A bulk force that fails for one lead commits half a conversion. When a
lead in error is deleted and its sender resends, a second intake is made. The
economic qualifier of `classification_engine.py:258` and its gate share one
threshold. A second intake for a facility's material cannot create its profile
(the triple is unique).

*Deals.* Matching sets "matched" from any status
(`intake_extension.py:38`), so an intake that was won can be matched and bought
again, which `action_reset_to_draft` refuses; `WithinBudget` therefore counts
matchings. An accepted offer is changed by a write that carries a state
(`offer.py:287`), so a card dragged in the default kanban undoes an acceptance;
`AcceptedStands` excepts the write that saw the acceptance, and one that began
before it is caught. Lost and expired are set from any status, and lead around that
refusal too. `action_mark_won` posts that a PO was created without creating a
transaction. `offer_id` of a match line is documented as set by the sending of
offers and is never set. `has_quality_claim` is computed from other claims than
those a concurrent request writes, so it may be wrong in both directions
(`RecoveriesExact` leaves it out); archiving a resolved claim takes its recovery
out of the stored sums.

*Matching.* Two operators that retry one failed run concurrently both do so,
against `match_orchestrator.py:353`, and the form may show a buyer twice; an
exception in a batch loses the receipts of the intakes before it. A durable
failure of an enrichment may overwrite the success of another request.

*Crons.* Where the search keeps finding what was dealt with (scale tickets at
`transaction_docs.py:266`, load SLA, escalations, stock alerts) a batch that is
full of it never reaches the next record; follow-ups sort records that were
never notified last; invoice reminders start with the oldest. Kinds that
remember a notice in a log entry (contract renewal, stock, escalation of missing
documents) may alert twice when runs overlap. The supplier confirmation is sent
before the commit and goes out again after a rollback. One exception in a batch
of follow-ups rolls all of it back.

*Imports.* The CSV service and the wizard leave partial units that a rerun
skips (`WholeUnits` is about the legacy pipeline). A failed statement poisons
the CSV service's transaction, and units it goes on to count as created are
lost.
`header_forensics.py:196` calls a trade closed when the "customer receipt
settled"; any receipt closes it, also one without a batch, of which the buyer's
lookup says "no settled receipt". A role code outside the table has no role and
the ranks (0, 0).

*CRM.* A deletion at the provider also marks a lead that a user has archived,
so a restored contact reopens it (against `crm_lead_sync.py:24`). A contact
that fails is passed by the page's watermark (`orchestrator.py:808`, `:623`) in a
run that ends as success, against I1 of `docs/runbooks/LAUNCH_GATES.md:20`: the
watermark covers what a lead holds *or a page counted as failed*, which is what
`ContactsAcknowledged` says; a version counted as failed is not requested again. After an outage longer
than the lookback, contacts modified before it are skipped
(`orchestrator.py:588`). The windows of successive catch-ups abut without an
overlap (`:681`). Orphans are replayed newest first (`:1075`), so of two
versions of a call the older is written last.

*Payouts.* `plasticos_commission/README.md:63` has accounting lock the list when a payout is
confirmed; only the view is read-only. The period of a payout is read by
nothing, so a generator for one month takes all months. The reference of a
payment is documented as required, but only its date is. A paid payout can be
deleted, and its transactions are then due again. `commission_payout_state` is
never updated.

*Freight costs.* The actual cost can be typed only until the load is dispatched,
so recording it on a delivered load records what was typed before, or 0. The
variance of a correction (`load.py:781`) compares with an estimate of 0 after
corrections into another currency and back. A tare override of 0 counts as none.

*States.* A delivery order linked by `button_approve`, or because the cron
confirmed the purchase (`transaction.py:1287`, `purchase_inherit.py:68`), never
marks the transaction as "DO created". A picking that is done while the
transaction is elsewhere than "in progress" and "in transit" never marks it
delivered. `action_close` accepts a cancelled transaction, although the wizard
says that it can only be reopened as a draft; a draft is not among the wizard's
choices.

## Proofs

From the assumptions on the constants (types; for `CrmSync` also that there
are finitely many contacts and that the lookback is at least a day; for
`DealDesk` that intakes, lines and offers have different keys), for any number
of transactions, moves, contexts, quotes, intakes, buyers, contacts, calls and
sessions:

* `Typing` (`TransactionClose`, `CrmSync`), `DeskTyping` (`FreightDesk`),
  `TypeCorrect` (`WebLeads`, `MatchRuns`, `EnrichmentRuns`) and `DocumentTyping`:
  `[]TypeOK`. In `MatchRuns` this is also that results and display lines are of
  committed runs, and that a retry follows the run it retries.
* `Freshness`: `[]Fresh`. `Fresh` is the inductive invariant (with `TypeOK`;
  TLC confirms it on the instance of `close`):
  while a session is not in `stale`, what its guard read from the
  transaction's row, and the commission it computed, is what the row holds.
  Its proof is the argument of the design: `RowKept` (a commit changes only
  the row it writes), then a request that writes the same row becomes stale.
* `ClosesAreJustified`, `LockedCommissionIsFrozen`, `ClosedLinksAreFrozen`,
  `DocumentsAreAGate` follow from `Fresh` at the commit, without hypotheses on
  the operations. A close is justified by the database it commits to, or is
  the unchecked plain write; the documents are complete at a close or a posting,
  or drifted while that very request ran. "Frozen" is about closes: a plain RPC
  write of `commission_locked_amount` is outside the model.
* `SettlementIsFair`: whatever weights, counts and rates a load has, the net
  weight is not negative, nor more than the gross unless the tare is negative,
  the deduction is not more than the whole minimum, a heavier load is never
  deducted more, and the discrepancy flag treats buyer and supplier alike. The
  product of a count and a tare and that of a weight and a rate are the only
  nonlinear terms; `ProductIsInt` and `ProductGrows` isolate them.
* `CommissionIsAShare`: the commission of an open transaction is between 0 and
  a positive margin, for any rates, rules and amounts, unless a fixed amount
  pays it; rounding cannot carry it past a whole number of cents.
  `DisjointTiersDecide`: tiers that do not meet give one rate, whatever their
  order.
* `OneInvoiceEach`: `OneInvoice`, by `InvoiceInv`. A request that posts or
  links an invoice and can still commit is `Alone`: it moves this one invoice,
  and no other of the transaction has been linked since. Whoever links another
  writes the transaction's row, which makes the first one stale.
* `RequestsActAtOnce`: `Serializable`, for any moves and sessions.
  `OrderlyIsClose` lets it use what holds of `TransactionClose`. `SerialInv`: the plan of a request that is not stale is one it could
  make now (`Planned`). It survives the commits of others because they leave its
  rows alone (`RowStands`, `MovesStand`), and moves it only reads can meanwhile
  have been posted, never unposted. `CommitActsAtOnce` maps the commit, operation
  by operation.
* `PenaltiesStayDue`, `GraceIsKept`, `TypedTaresStay` of `SettlementRules`, for
  any number of rules in any order: the penalty is that of the first rule that
  charges, within its cap, and is not calculated twice; no charge within the
  grace period of a rule that has a threshold; a typed tare other than 0
  outlives a change of the unit.
* `LoadsRunOnConfirmedLane`, `RatesAreConfirmed`, `RatesAreStable` of
  `FreightDesk` rest on `DeskInv`: the load's row is well formed (`RowOK`) and
  every plan that can still commit rewrites it soundly (`RewriteOK`), whatever
  the wizard does. `LaneInv` adds the lane: a load on the road, and a plan to
  dispatch that can still commit, has the fingerprint of the lane as it is,
  unless that moved since the snapshot of the dispatch. `LiveQuotesAreResolved`:
  by `QuoteInv` a row that names a live quote is backed by the resolved episode of
  its context, and no plan that can still commit rewrites a resolved episode.
* `EpisodesDoEndWell`: `EpisodesEndWell`, what the comments promise of RFQ
  episodes, where one operator works at a time, with
  finitely many sessions (so that "one at a time" can be counted). By
  `EpisodeInv` the only open plan leaves the episodes as promised if it commits.
  It is false for two operators.
* `SearchMissesNothing`, `SearchReasonIsTrue` of `SameAsLast`, for lists of any
  length. `ResolveSal` is a recursive function over the list. `Known` says
  without recursion what it has found after `i` loads; that solves the
  recursion, and a smallest index where the walk knew something else would
  follow one where it does not (`WalkKnows`).
* `HeavierStaysHot`, `CountsStayCounts` of `LeadTriage`, for any evidence and
  thresholds.
* `OneConversionEach`, `ApprovalStaysCurrent`, `ConversionHandsOff` of
  `WebLeads` rest on one invariant (`IInv` of `WebLeadsProofs`): every row is
  sound by itself (an approval binds the present evidence), and an admission
  that inserted its key is alone with it (`AdmissionsOK`). `PromiseKept` is the
  refinement of `IdempotentAdmission`, action by action from the same invariant.
* `ReceiptsStayExact` of `MatchRuns`: an identity that Gate was given has
  `OneHolder`, a committed run or one request that may create it again.
* `FillsOnlyEmpty` of `EnrichmentRuns`: fields that a request found empty are
  empty as long as it does not know that the partner was written since
  (`SeenEmpty`).
* `NotifiedOnlyWhenDue` of `ChasingCrons`: what a run is about to notify is open
  and due, or one of its rows was written since (`BatchIsDue`). The property is
  about notices that are remembered in the row; others are in "Known".
* `MatchingsAreSpentOnce`, `AcceptancesStand` and `DeskKeepsBudget` of
  `DealDesk` rest on `DealInv`: the status of an intake leaves a matching to
  spend exactly as far as the log says (`Unspent`), and every plan that can
  still commit (`DealPlanOK`) writes no accepted offer, unless it saw the
  acceptance and writes a state, and buys or offers only from a status whose
  matching is unspent. It is inductive because a plan that survives a commit writes none of the committed rows (`SurvivorsKeep`).
  `DeskKeepsBudget` is the refinement: a commit is a step of `MatchingBudget`
  or leaves its three counts alone.
* `StoredSumsAreExact` and `ClosesKeepTheMargin` of `ClaimLedger`, for any
  finite set of claims and amounts of either sign. `ClaimInv`: the stored sums
  are exact, and a plan that can still commit moves each of them by exactly
  what its claims gain (`Gain`). A plan that survives a commit names other
  claims, so that its gain is the same afterwards. Under it lies a small theory of
  finite sums (`SumUnfolds`, `SumsAdd`, `CountIsSum`); where it would use
  induction over the size of a set it takes a smallest counterexample
  (`FiniteDescent`).
* `OneChainPerLoad` of `FreightLedger`: the observations of a load are one chain
  that ends in its cost, and a plan that can still commit records one
  observation at its end (`LedgerPlan`).
* `OfficeIsItsParts`: a behaviour of `OfficeSpec` is one of the specification
  of the part it picks, so that the theorems about the parts speak of what the
  run `back_office` explores.
* `OneIsRecommended`, `CheaperComesFirst`, `TheNearestIsEvidence`,
  `EstimatesKeepTheContract` of `FreightAdvice`, for finitely many quotes, loads
  and outcomes, integer amounts and positive weights. Scores are fractions, and
  `Before` compares them by products: the comparison is total and transitive
  (`FractionsAreOrdered`, `QuotesAreOrdered`), so that a finite set of quotes with
  distinct ids has a first one (`FiniteOrderHasFirst`). An average lies between
  the extremes of what it averages (`AverageIsBetween`), which is the contract of
  an estimate. For the price, 55 of 100 points outweigh what the other two parts
  can give back, 2 * 20 + 15, as long as prices spread over less than twice the
  averages (`NearnessFalls`, `PriceOutweighs`); rounding keeps an order or makes
  a tie, never turns it. See "Known" for what happens beyond. Sums are those of the claims (`SumsScale`, `SumsCompare`).
* `HeadersAreNotSilent`, `HeadersOnlyGrow`, `ChildrenAreNotLost`,
  `PayloadsAreWhole`, `CodesAreReadAlike` of `LegacyHeaders`, for finitely many
  rows of a trade and codes of any kind, where the marker of an unresolved
  party is nobody's key.
* `MidnightFlagsExactly` of `DocumentCompliance` needs
  `Cardinality(Doc) <= Batch`: the two searches of the cron have room for the
  documents on file. A flag is raised only of a past date (`FlagsArePast`), and
  dates stay past. `StatusAgreesAtOnce` is `StatusFollowsDocuments`, for documents that
  come, move, change and go in any order: the status is that of the documents of
  its last recompute, and only `Unnoticed` changes have followed it.
* `NothingImportedTwice`, `MarkedUnitsAreWhole` of `ImportRuns` rest on
  `ImportInv`: a mark is committed with the whole unit it stands for, and what an
  open import has created is protected by a unique key, or its transaction is
  poisoned.
* `PaymentsAreExactAndStand` of `PayoutDesk` and `EndedTradesStand` of
  `TransactionStates` need, besides types, only that every plan which can still
  commit was made for rows as they are: the sums of such a plan are those of its
  list, and it takes a transaction out of its end only to activate or close it.
* `Typing` of `CrmSync` types the sessions' pages, plans and cursors too
  (`TypeInv`). A page has a last contact because it is finite; as induction is
  not available, a greatest element is found by way of a smallest
  counterexample (`GreatestNatural`), `<` being well founded.
* `LeadsAreNotDuplicated` rests on `FreshInv`: a plan that is not doomed
  creates a lead only where there is none. A commit keeps it for every other
  plan because plans that survive a commit name other leads
  (`SurvivorsAreDisjoint`).
* `ArchivesStand` needs `NoDeletion` (see "Known" for what a deletion does).
  `ArchiveInv`: every plan that is not doomed leaves the active flag of its
  leads as it is.
* `ContactsAreAcknowledged` needs `Faithful`: no outage beyond the lookback and
  no silent clamping (the first is in "Known", both in `crm_import`). Rows may be
  refused: a contact below the watermark is `Accounted` for. `AckInv` follows a page from request to commit: nothing unread lies between
  the watermark and the cursor, the page holds everything up to its end, and
  what is modified meanwhile is newer than the page.
* `CallsAreAcknowledged` needs `ClocksAgree`: a provider clock that lags would
  put a new call below a watermark that has passed. `CallInv` says how far each
  phase has read, across the bootstrap and its catch-up. It starts from
  `callMark`, from the floor, or from where the bootstrap ended.
* `SuccessMeansComplete` needs both, and a history read from its beginning
  (`AllHistory`). `DoneInv` follows the last page and the last window of a run
  to the end: with them the watermarks pass everything that was there when it
  began.
* `NothingInTheSeam` needs `LagCovered` (`Skew <= Overlap`): `SeamInv` puts
  every call into the bootstrap, if it was recorded before that began, or else
  behind the start of the catch-up. Outages, clamping and refusals may happen.
* `SuccessProvesCensus` needs no hypothesis. `CensusInv`: the oldest contact
  of the first page proves that the floor was not clamped, and then everything
  up to the cursor has been read.

The invariants of `CrmSync` are stronger than the properties because the
properties say nothing about a session at work. They can be given to TLC as
invariants: `AckInv` and `CallInv` hold on the instance of `crm`, `CallInv` on
that of `crm_import` with floor 0 and equal clocks. `RateIsConfirmed` of
`FreightDesk` is stated for its theorem only: no run checks it.

Assumptions on constants restrict what the code does not restrict only where a
count or a sum is taken: claims, contacts and documents are finitely many, and
sessions where they are counted. Keys of different tables differ, and bounds are
natural numbers. The hypotheses of single theorems (`Faithful`, `ClocksAgree`, `NoDeletion`, ...) are named above
with each; the instance of a run that states the property satisfies them.

Every safety property of the passing runs, and every refinement of an abstract
specification, is the subject of a theorem. Only model-checked are the liveness
properties (`EveryDeliveryAnswered`, `RequestsEnd`, `EveryoneReached`,
`CatchesUp`, `RunsEnd`), because liveness under fairness, and `ENABLED`, are out of
the prover's reach. Of the pure modules only
`NewestIsCurrent` of `FreightAdvice` is: it is about a fold over a sequence, and
would need induction over data.

## Plan

Done: closing, freight, documents and CRM synchronization with their proofs;
web leads, Gate's two clients, the deal desk, claims, crons and imports; the
amounts and payouts of commissions; the search of Same-As-Last, the ledger of
freight costs, estimates and the ranking of quotes; the states and weights of a
transaction; penalties; the reading of the old ERP; closing as atomic requests.
Left: the mirror of `documents_native`, and the onboarding of a supplier from a
CRM lead.

## Not modelled

* `material_profile`, `facility_profile`, `product`, `order_lines`,
  `geolocalize`, `semantic_kernel`: master data with computed names and
  constraints, no workflow and no concurrent protocol.
* `admin_dashboard` and the sales dashboard: read-only figures.
* `documents_native`: the mirror is written by a batch for documents that have
  none; the update of an existing mirror has no caller, so a verification does
  not reach it, and an exception after the legacy record is created leaves a
  mirror without its original.
* Parsing of packets, answers of AI providers, address and material mapping,
  file readers, e-mail bodies, image downloads: conversions of data whose
  outcome is a choice in the models.
* `ci/`, `scripts/`, `tools/`, the manifests and the views: they are not part
  of the running system. They and the data mappings are most of the lines of
  the repository, which is why the map covers a small share of them; what has a
  state that two actors can touch is in the modules above, or in the plan.
