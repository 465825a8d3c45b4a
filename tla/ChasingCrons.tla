------------------------------ MODULE ChasingCrons ------------------------------
(***************************************************************************)
(* The crons that chase people or clear what has run out: follow-ups of     *)
(* purchase orders and pickings, reminders of invoices, claims and missing  *)
(* documents, alerts, expiries, the normalization of intakes.  They have    *)
(* one shape and differ in a few choices, which make up a policy: a run     *)
(* takes an advisory lock or gives up, searches a batch of records in some  *)
(* order, passes over those it has dealt with already, notifies the others, *)
(* remembers that, releases the lock, and commits.                          *)
(*                                                                         *)
(* A run is one transaction at REPEATABLE READ.  The lock belongs to the    *)
(* session: it is released before the commit, and it outlives a rollback.   *)
(* A cron's method is public, so runs of the scheduler and of callers may   *)
(* overlap.                                                                 *)
(***************************************************************************)
EXTENDS Integers, Sequences, SequencesExt, FiniteSets

CONSTANTS
  Items,     \* records of the cron's model: integers in their order by age
             \* (creation, due date, expiry, whichever the search sorts by)
  Workers, None,
  Crons,     \* policies of a run
  Limits,    \* batch limits of a run (100 to 500 in the code)
  MaxFaults  \* bound: exceptions, crashes, and users' edits of a record that
             \* leave it open

ASSUME CronAssumption ==
  Items \subseteq Nat /\ Limits \subseteq Nat /\ None \notin Workers
ASSUME CronBoundAssumption == MaxFaults \in Nat

(***************************************************************************)
(* Policies.                                                               *)
(*   by      the order of the search: by age, or by the time of the last    *)
(*           notice with those never notified at the end (PostgreSQL sorts  *)
(*           nulls last);                                                   *)
(*   finds   what the search finds: the open records that are due, all open *)
(*           ones, or also records that need nothing (a transaction whose   *)
(*           documents are complete, a load within its limit);              *)
(*   again   when a record is due again: the next calendar day, after 24    *)
(*           hours, or never;                                              *)
(*   memory  where a notice is remembered: in the record's own row, or in a *)
(*           log entry or activity;                                        *)
(*   direct  the mail leaves before the commit (force_send).               *)
(***************************************************************************)
Policy(by, finds, again, memory) ==
  [by |-> by, finds |-> finds, again |-> again, memory |-> memory, direct |-> FALSE]

SupplierFollowup == Policy("last", "due", "24h", "row")
TruckerFollowup == Policy("last", "due", "24h", "row")
InvoiceReminder == Policy("age", "due", "day", "row")
ClaimReminder == Policy("last", "open", "24h", "row")
SupplierConfirmation == [Policy("age", "open", "day", "row") EXCEPT !.direct = TRUE]
MissingDocsReminder == Policy("age", "all", "day", "row")
MissingDocsEscalation == Policy("age", "all", "day", "log")
ScaleTickets == Policy("age", "all", "never", "row")
ContractAlert == Policy("age", "open", "day", "log")
StockAlert == Policy("age", "all", "day", "log")
LoadSLA == Policy("age", "all", "never", "row")
EscalationCheck == Policy("age", "all", "never", "row")
SaleApprovals == Policy("age", "due", "never", "row")
ExpireOffers == Policy("age", "due", "never", "row")
ExpireExclusions == Policy("age", "due", "never", "row")
NormalizeIntakes == Policy("age", "due", "never", "row")

AllCrons ==
  {SupplierFollowup, TruckerFollowup, InvoiceReminder, ClaimReminder,
   SupplierConfirmation, MissingDocsReminder, MissingDocsEscalation, ScaleTickets,
   ContractAlert, StockAlert, LoadSLA, EscalationCheck, SaleApprovals,
   ExpireOffers, ExpireExclusions, NormalizeIntakes}

VARIABLES
  cron, limit, \* the policy and the batch limit, chosen once
  state,       \* [Items -> "absent", "open", "closed"]; closed: confirmed, paid,
               \* resolved, complete, no longer low, withdrawn
  recent,      \* SUBSET Items: notified, and not due again yet
  line,        \* items by the time of their last notice
  notices,     \* [Items -> Nat]: notices since the item was last due
  holder,      \* the session that holds the lock, or None
  leaked,      \* the session will hold it when its run is over
  run,         \* [Workers -> run]
  faults       \* counter that bounds a run

vars == <<cron, limit, state, recent, line, notices, holder, leaked, run, faults>>

Idle == [phase |-> "idle"]
Busy(w) == run[w].phase # "idle"
At(w, phase) == run[w].phase = phase

Init ==
  /\ cron \in Crons /\ limit \in Limits
  /\ state \in [Items -> {"absent", "open"}]
  /\ recent = {} /\ line = <<>>
  /\ notices = [i \in Items |-> 0]
  /\ holder = None /\ leaked = FALSE
  /\ run = [w \in Workers |-> Idle]
  /\ faults = 0

-----------------------------------------------------------------------------
(***************************************************************************)
(* A run.                                                                  *)
(***************************************************************************)
Open == {i \in Items : state[i] = "open"}

\* Mutation: the search does not leave out what was dealt with.
FoundAlways == IF cron.finds = "all" THEN {i \in Items : state[i] # "absent"} ELSE Open

(* The domain of the search.                                               *)
Found ==
  CASE cron.finds = "due" -> Open \ recent
    [] cron.finds = "open" -> Open
    [] OTHER -> {i \in Items : state[i] # "absent"}

ByAge(s) == SetToSortSeq(s, <)

Ordered(s) ==
  IF cron.by = "age" THEN ByAge(s)
  ELSE SelectSeq(line, LAMBDA i : i \in s) \o ByAge(s \ ToSet(line))

Searched == LET found == Ordered(Found) IN {found[k] : k \in DOMAIN found \cap 1..limit}

\* Mutation: the loop does not pass over what was notified today.
BatchAgain == Searched \cap Open

(* What the loop notifies.                                                 *)
Batch == (Searched \cap Open) \ recent

(* The snapshot is taken no later than the statement that asks for the lock.*)
Begin(w) ==
  /\ ~Busy(w)
  /\ run' = [run EXCEPT ![w] =
       [phase |-> "begun", batch |-> Batch, stale |-> FALSE, late |-> FALSE]]
  /\ UNCHANGED <<cron, limit, state, recent, line, notices, holder, leaked, faults>>

(* pg_try_advisory_lock; a session that holds the lock gets it again.       *)
TryLock(w) ==
  /\ At(w, "begun")
  /\ IF holder \in {None, w}
       THEN /\ holder' = w
            /\ run' = [run EXCEPT ![w].phase = "working"]
       ELSE /\ run' = [run EXCEPT ![w] = Idle]
            /\ UNCHANGED holder
  /\ UNCHANGED <<cron, limit, state, recent, line, notices, leaked, faults>>

Released == IF leaked THEN holder ELSE None

(* What leaves in the loop: mail that is not queued.  (More than one of     *)
(* them in a day counts as two.)                                           *)
Sent(batch) ==
  IF cron.direct
    THEN [i \in Items |-> IF i \in batch /\ notices[i] < 2 THEN notices[i] + 1 ELSE notices[i]]
    ELSE notices

(* The loop ends, and the lock is released in its "finally".                *)
Finish(w) ==
  /\ At(w, "working")
  /\ notices' = Sent(run[w].batch)
  /\ holder' = Released
  /\ run' = [run EXCEPT ![w].phase = "unlocked"]
  /\ UNCHANGED <<cron, limit, state, recent, line, leaked, faults>>

(* A statement of the loop hits a row that somebody has written since the   *)
(* snapshot.  The transaction is aborted, so the unlock in "finally" fails  *)
(* as well: the session keeps the lock through the rollback.                *)
Collide(w) ==
  /\ At(w, "working") /\ run[w].stale
  /\ \E sent \in SUBSET run[w].batch : notices' = Sent(sent)
  /\ leaked' = TRUE
  /\ run' = [run EXCEPT ![w] = Idle]
  /\ UNCHANGED <<cron, limit, state, recent, line, holder, faults>>

(* Any other exception in the loop: the lock is released and the whole      *)
(* batch rolled back; where the loop catches it, it costs one record.       *)
Raise(w) ==
  /\ At(w, "working") /\ faults < MaxFaults
  /\ faults' = faults + 1
  /\ IF cron.direct
       THEN /\ \E i \in run[w].batch :
                 run' = [run EXCEPT ![w].batch = @ \ {i}]
            /\ UNCHANGED holder
       ELSE /\ run' = [run EXCEPT ![w] = Idle]
            /\ holder' = Released
  /\ UNCHANGED <<cron, limit, state, recent, line, notices, leaked>>

(* Runs that would write a row which somebody has written.                  *)
Outdated(rows) ==
  [v \in Workers |->
     IF Busy(v) /\ cron.memory = "row" /\ run[v].batch \cap rows # {}
       THEN [run[v] EXCEPT !.stale = TRUE] ELSE run[v]]

LineAfter(batch) == SelectSeq(line, LAMBDA i : i \notin batch) \o ByAge(batch)

(* A run that began yesterday has remembered yesterday's date.              *)
Commit(w) ==
  LET batch == IF run[w].late THEN {} ELSE run[w].batch IN
  /\ At(w, "unlocked") /\ ~run[w].stale
  /\ recent' = recent \cup batch
  /\ line' = LineAfter(batch)
  /\ notices' = IF cron.direct THEN notices
                ELSE [i \in Items |-> notices[i] + IF i \in batch THEN 1 ELSE 0]
  /\ run' = [Outdated(run[w].batch) EXCEPT ![w] = Idle]
  /\ UNCHANGED <<cron, limit, state, holder, leaked, faults>>

(* The writes are flushed by the commit, and fail there.                    *)
Abort(w) ==
  /\ At(w, "unlocked") /\ run[w].stale
  /\ run' = [run EXCEPT ![w] = Idle]
  /\ UNCHANGED <<cron, limit, state, recent, line, notices, holder, leaked, faults>>

(* The session ends: its worker dies, or is idle and closes the connection. *)
EndSession(w) ==
  /\ holder' = IF holder = w THEN None ELSE holder
  /\ leaked' = (leaked /\ holder # w)

Crash(w) ==
  /\ Busy(w) /\ faults < MaxFaults
  /\ faults' = faults + 1
  /\ EndSession(w)
  /\ run' = [run EXCEPT ![w] = Idle]
  /\ UNCHANGED <<cron, limit, state, recent, line, notices>>

Recycle(w) ==
  /\ ~Busy(w) /\ holder = w
  /\ EndSession(w)
  /\ UNCHANGED <<cron, limit, state, recent, line, notices, run, faults>>

-----------------------------------------------------------------------------
(***************************************************************************)
(* The records, their users, and the calendar.                             *)
(***************************************************************************)
Add(i) ==
  /\ state[i] = "absent"
  /\ state' = [state EXCEPT ![i] = "open"]
  /\ UNCHANGED <<cron, limit, recent, line, notices, holder, leaked, run, faults>>

Close(i) ==
  /\ state[i] = "open"
  /\ state' = [state EXCEPT ![i] = "closed"]
  /\ run' = Outdated({i})
  /\ UNCHANGED <<cron, limit, recent, line, notices, holder, leaked, faults>>

Edit(i) ==
  /\ state[i] = "open" /\ faults < MaxFaults
  /\ faults' = faults + 1
  /\ run' = Outdated({i})
  /\ UNCHANGED <<cron, limit, state, recent, line, notices, holder, leaked>>

(* A calendar day passes for all records at once, 24 hours for one after    *)
(* the other.  A run takes less than 24 hours, but may span midnight.       *)
Lapse ==
  LET due == IF cron.again = "day" THEN recent
             ELSE {Head(SelectSeq(line, LAMBDA i : i \in recent))} IN
  /\ cron.again # "never" /\ recent # {}
  /\ recent' = recent \ due
  /\ notices' = [i \in Items |-> IF i \in due THEN 0 ELSE notices[i]]
  /\ run' = [w \in Workers |->
       IF Busy(w) /\ cron.again = "day" THEN [run[w] EXCEPT !.late = TRUE] ELSE run[w]]
  /\ UNCHANGED <<cron, limit, state, line, holder, leaked, faults>>

-----------------------------------------------------------------------------
Work(w) == TryLock(w) \/ Finish(w) \/ Collide(w) \/ Commit(w) \/ Abort(w)

Next ==
  \/ \E w \in Workers : Begin(w) \/ Work(w) \/ Raise(w) \/ Crash(w) \/ Recycle(w)
  \/ \E i \in Items : Add(i) \/ Close(i) \/ Edit(i)
  \/ Lapse

Spec == Init /\ [][Next]_vars

(* The scheduler starts runs, runs go on, and a session that holds the lock *)
(* for nothing is closed when its worker is recycled.                       *)
FairSpec ==
  /\ Spec
  /\ WF_vars(\E w \in Workers : Begin(w))
  /\ \A w \in Workers : WF_vars(Work(w)) /\ WF_vars(Recycle(w))

-----------------------------------------------------------------------------
CronRuns ==
  {Idle} \cup [phase : {"begun", "working", "unlocked"}, batch : SUBSET Items,
               stale : BOOLEAN, late : BOOLEAN]

(* Every variable has its type, and a record has one place in the order.    *)
TypeOK ==
  /\ cron \in Crons /\ limit \in Limits
  /\ state \in [Items -> {"absent", "open", "closed"}]
  /\ recent \subseteq Items
  /\ ToSet(line) \subseteq Items /\ IsInjective(line)
  /\ notices \in [Items -> Nat]
  /\ holder \in Workers \cup {None} /\ leaked \in BOOLEAN
  /\ run \in [Workers -> CronRuns]
  /\ faults \in 0..MaxFaults

(* Where the notice is remembered in the record's row and the mail waits    *)
(* for the commit, overlapping runs never notify a record twice before it   *)
(* is due again, nor one that a user has closed meanwhile: the conflict on  *)
(* the row does what the lock does not (purchase_order_automation.py:26).   *)
NoticesAreDue ==
  [][\A i \in Items :
       notices'[i] > notices[i] /\ cron.memory = "row" /\ ~cron.direct =>
         state[i] = "open" /\ i \notin recent]_vars

(* A batch has room for every record, or what was dealt with leaves the     *)
(* search.  Where neither holds, the oldest keep the newest waiting.        *)
Reaches ==
  \/ limit >= Cardinality(Items)
  \/ cron.finds = "due" /\ cron.again = "never"

(* Every record that stays open is notified, and again whenever it is due,  *)
(* whatever fails, overlaps or keeps the lock                              *)
(* (plasticos_offer/models/offer.py:483, transaction_docs.py:237).          *)
EveryoneReached ==
  Reaches => \A i \in Items : []<>(state[i] # "open" \/ i \in recent)
=============================================================================
