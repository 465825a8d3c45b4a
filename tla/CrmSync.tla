-------------------------------- MODULE CrmSync --------------------------------
(***************************************************************************)
(* The synchronization of VanillaSoft contacts and calls into Odoo leads   *)
(* (plasticos_crm_sync): the orchestrator's rolling catch-up and one-shot  *)
(* full import, the webhook that upserts one contact, and what they share: *)
(* leads, external references, call events, the orphan buffer, the two     *)
(* watermarks and the audit run.                                           *)
(*                                                                         *)
(* A page is fetched over HTTP, planned against a snapshot of the database *)
(* and committed with its watermark in one transaction at REPEATABLE READ; *)
(* a row (or a unique key) another transaction committed since dooms it.   *)
(* The first request of a phase finds the transaction already open; later  *)
(* ones follow a commit, so their snapshot is younger than their response. *)
(*                                                                         *)
(* Time is counted in the days of the code's windows and lookbacks.  The   *)
(* provider gives each modification its own time stamp, which identifies   *)
(* the version of the contact.                                             *)
(***************************************************************************)
EXTENDS Integers, FiniteSets, FiniteSetsExt

CONSTANTS
  Contacts, Calls,
  ContactOf,      \* [Calls -> Contacts]
  LegacyLeads,    \* [Contacts -> 0..2]: leads that carry the id before any sync
  Lookback,       \* INCREMENTAL_CONTACT_LOOKBACK_DAYS
  ApiLookback,    \* CONTACT_LOOKBACK_MAX_DAYS
  CallDays,       \* default rolling start of the call history
  BackfillFloor,  \* call_backfill_floor_utc, -1 when unset
  Overlap,        \* CATCHUP_OVERLAP
  Skew,           \* how far the provider's clock may lag behind Odoo's
  PageSize,       \* contacts in a page
  MaxTime, MaxFaults, MaxEdits,  \* bounds
  Ops             \* what the environment does in a run

AllOps == {"catch_up", "full_import", "webhook", "user", "delete", "reject",
           "outage", "clamp"}

ASSUME FiniteAssumption == IsFiniteSet(Contacts)
ASSUME ContactOfAssumption == ContactOf \in [Calls -> Contacts]
ASSUME LegacyAssumption == LegacyLeads \in [Contacts -> 0..2]
ASSUME BoundAssumption ==
  /\ {ApiLookback, CallDays, Overlap, Skew, MaxTime, MaxFaults, MaxEdits}
       \subseteq Nat
  /\ Lookback \in Nat \ {0}
  /\ BackfillFloor \in Nat \cup {-1}
  /\ PageSize \in Nat \ {0}
ASSUME OpsAssumption == Ops \subseteq AllOps

VARIABLES
  now,          \* Odoo's clock
  contact,      \* provider: [Contacts -> [at, deleted]], at = 0: no such contact
  call,         \* provider: [Calls -> [at, real]], real = 0: no such call;
                \* at is the provider's stamp, real the time it was recorded
  clamps,       \* the provider silently clamps modified_after
  lead,         \* [Contacts -> [copies, at, active, flag]]: leads by vanillasoft_id
  ref,          \* SUBSET Contacts: external references
  event,        \* SUBSET Calls: imported call events
  orphans,      \* SUBSET Calls: unresolved rows of the orphan buffer
  contactMark, callMark, \* watermarks, 0 when unset
  run,          \* status of the last audit run
  sync,         \* the synchronization that holds the connection's lock
  hook,         \* the webhook request
  faults, edits, \* counters that bound a run
  userArchived, \* history: leads a user archived, and no user restored since
  failed        \* history: of each contact, the version that a committed page last
                \* counted as failed

provider == <<contact, call, clamps>>
db == <<lead, ref, event, orphans>>
marks == <<contactMark, callMark>>
vars == <<now, contact, call, clamps, lead, ref, event, orphans, contactMark,
          callMark, run, sync, hook, faults, edits, userArchived, failed>>

Later(a, b) == IF a >= b THEN a ELSE b
Earlier(a, b) == IF a <= b THEN a ELSE b

-----------------------------------------------------------------------------
(***************************************************************************)
(* What a transaction plans to write.                                      *)
(***************************************************************************)
NoWork == [plan |-> {}, failed |-> {}, events |-> {}, buffer |-> {}, resolved |-> {},
           doomed |-> FALSE]

Dto(c) == [id |-> c, at |-> contact[c].at, deleted |-> contact[c].deleted]

(* Two leads with the source id and no reference that chooses between them. *)
Ambiguous(c) == c \notin ref /\ lead[c].copies > 1

\* Mutation: the provider's flag is mirrored on active.
LeadValuesMirrored(d) ==
  [at |-> d.at, active |-> ~d.deleted, flag |-> d.deleted]

(* _lead_vals_from_dto and the archival provenance of _upsert_lead.         *)
LeadValues(d) ==
  LET l == lead[d.id] IN
  [at |-> d.at,
   active |-> IF d.deleted THEN FALSE ELSE l.flag \/ l.active,
   flag |-> d.deleted]

Current(c) == [at |-> lead[c].at, active |-> lead[c].active, flag |-> lead[c].flag]

(* The writes of _upsert_lead for the contacts ds: an ambiguous identity is *)
(* rejected, a lead that already has the values is left alone.              *)
LeadPlan(ds) ==
  {[id |-> d.id, new |-> lead[d.id].copies = 0, row |-> LeadValues(d)] :
     d \in {e \in ds : /\ ~Ambiguous(e.id)
                       /\ \/ lead[e.id].copies = 0
                          \/ e.id \notin ref
                          \/ Current(e.id) # LeadValues(e)}}

Planned(plan) == {p.id : p \in plan}
HasLead(c, plan) == lead[c].copies > 0 \/ c \in Planned(plan)

\* Mutation: a reference may be inserted twice.
RowsWithoutKey(w) ==
  {<<"lead", p.id>> : p \in {q \in w.plan : ~q.new}}
    \cup {<<"call", k>> : k \in w.events \cup w.resolved}

(* The rows and unique keys (of references and call events) a transaction  *)
(* writes; an orphan's row goes with its call.                             *)
Rows(w) ==
  {<<"lead", p.id>> : p \in w.plan}
    \cup {<<"call", k>> : k \in w.events \cup w.resolved}

Hit(w, rows) == [w EXCEPT !.doomed = w.doomed \/ Rows(w) \cap rows # {}]

LeadAfter(c, plan) ==
  IF c \in Planned(plan)
  THEN LET p == CHOOSE q \in plan : q.id = c IN
       [copies |-> IF p.new THEN lead[c].copies + 1 ELSE lead[c].copies,
        at |-> p.row.at, active |-> p.row.active, flag |-> p.row.flag]
  ELSE lead[c]

Write(w) ==
  /\ lead' = [c \in Contacts |-> LeadAfter(c, w.plan)]
  /\ ref' = ref \cup Planned(w.plan)
  /\ event' = event \cup w.events \cup w.resolved
  /\ orphans' = (orphans \cup w.buffer) \ w.resolved

(* Contacts whose lead could not be written: Python validation refused it.  *)
(* An ambiguous one is rejected before.                                     *)
Refusals(ds) == IF "reject" \in Ops THEN SUBSET {d \in ds : ~Ambiguous(d.id)} ELSE {{}}

-----------------------------------------------------------------------------
(***************************************************************************)
(* The synchronization session.  pc:                                       *)
(*   contacts  about to request a page    page    planned, not committed   *)
(*   fetched   page received              batch   planned, not committed   *)
(*   calls     about to request a window  window  batch received           *)
(*   mark      window consumed            resolve about to read orphans    *)
(*   finish    orphans planned            failing rolled back              *)
(***************************************************************************)
Idle == [pc |-> "idle", mode |-> "catch_up", phase |-> "only", cursor |-> 0,
         end |-> 0, started |-> 0, oldest |-> -1, gap |-> FALSE, more |-> FALSE,
         first |-> FALSE, held |-> FALSE, page |-> {}, work |-> NoWork]

NoHook == [pc |-> "idle", work |-> NoWork]

Modes == Ops \cap {"catch_up", "full_import"}

(* default_contact_modified_after, clamped to the rolling lookback.         *)
ContactStart == Later(contactMark, Later(0, now - Lookback))

(* The floor of a full import is the beginning of time.                     *)
Start(mode) ==
  /\ sync.pc = "idle"
  /\ sync' = [Idle EXCEPT !.pc = "contacts", !.mode = mode, !.started = now,
                          !.phase = IF mode = "full_import" THEN "boot" ELSE "only",
                          !.cursor = IF mode = "full_import" THEN 0 ELSE ContactStart,
                          !.first = TRUE, !.held = TRUE]
  /\ run' = "running"
  /\ UNCHANGED <<now, provider, db, marks, hook, faults, edits, userArchived, failed>>

ServedFrom == IF clamps THEN Later(sync.cursor, now - ApiLookback) ELSE sync.cursor
Unread == {c \in Contacts : contact[c].at > ServedFrom}
Page == {c \in Unread :
           Cardinality({d \in Unread : contact[d].at < contact[c].at}) < PageSize}

\* Mutation: the watermark is the time of the commit.
BatchEndNow(ds) == now

(* The watermark of a complete page names the last contact persisted, the   *)
(* cursor of a partial one comes from the provider.                         *)
BatchEnd(ds) == Max({d.at : d \in ds})

\* Mutation: the catch-up abuts on the bootstrap.
CallStartAbutting(s) ==
  CASE s.phase = "boot" -> 0
    [] s.phase = "catch" -> s.started
    [] OTHER -> callMark

(* _sync_calls opens with its own window bounds, once per phase.            *)
CallStart(s) ==
  CASE s.phase = "boot" -> 0
    [] s.phase = "catch" -> Later(0, s.started - Overlap)
    [] OTHER -> IF callMark > 0 THEN callMark
                ELSE IF BackfillFloor >= 0 THEN BackfillFloor
                ELSE Later(0, now - CallDays)

\* Mutation: any old contact counts as the proof.
CensusGapLenient(s) ==
  /\ 0 < s.started - ApiLookback
  /\ s.oldest = -1

(* _contact_enumeration_gap.                                                *)
CensusGap(s) ==
  /\ 0 < s.started - ApiLookback
  /\ ~(s.oldest >= 0 /\ s.oldest < s.started - ApiLookback)

BeginCalls(s) ==
  [s EXCEPT !.pc = "calls", !.cursor = CallStart(s), !.first = TRUE,
            !.end = IF s.phase = "boot" THEN s.started ELSE now,
            !.gap = IF s.phase = "boot" THEN CensusGap(s) ELSE s.gap,
            !.page = {}, !.more = FALSE, !.work = NoWork]

PagePlan(s) ==
  {[s EXCEPT !.pc = "page", !.work.plan = LeadPlan(s.page \ refused),
             !.work.failed = refused] :
     refused \in Refusals(s.page)}

(* An empty page ends the phase.  The first page of a phase is planned on   *)
(* the snapshot that was open when it was requested.                        *)
FetchPage ==
  /\ sync.pc = "contacts"
  /\ LET ds == {Dto(c) : c \in Page}
         s == [sync EXCEPT !.page = ds, !.more = Page # Unread,
                           !.oldest = IF sync.oldest >= 0 \/ ds = {} THEN sync.oldest
                                      ELSE Min({d.at : d \in ds})]
     IN IF ds = {} THEN sync' = BeginCalls(sync)
        ELSE IF sync.first THEN sync' \in PagePlan(s)
        ELSE sync' = [s EXCEPT !.pc = "fetched"]
  /\ UNCHANGED <<now, provider, db, marks, run, hook, faults, edits, userArchived, failed>>

UpsertPage ==
  /\ sync.pc = "fetched"
  /\ sync' \in PagePlan(sync)
  /\ UNCHANGED <<now, provider, db, marks, run, hook, faults, edits, userArchived, failed>>

(* _forward_only.                                                           *)
Forward(mark, candidate) == Later(mark, candidate)

\* Mutation: a partial page ends the enumeration.
AfterPageShort(s) == BeginCalls(s)

(* iter_contacts goes on while the provider reports partial fulfilment.     *)
AfterPage(s) ==
  IF s.more
  THEN [s EXCEPT !.pc = "contacts", !.cursor = BatchEnd(s.page), !.first = FALSE,
                 !.page = {}, !.more = FALSE, !.work = NoWork]
  ELSE BeginCalls(s)

CommitPage ==
  /\ sync.pc = "page" /\ ~sync.work.doomed
  /\ Write(sync.work)
  /\ failed' = sync.work.failed \cup {v \in failed : \A d \in sync.work.failed : d.id # v.id}
  /\ contactMark' = Forward(contactMark, BatchEnd(sync.page))
  /\ sync' = AfterPage(sync)
  /\ hook' = [hook EXCEPT !.work = Hit(@, Rows(sync.work))]
  /\ UNCHANGED <<now, provider, callMark, run, faults, edits, userArchived>>

-----------------------------------------------------------------------------
(* The calls the provider lists in one window of a day.                     *)
WindowEnd == Earlier(sync.cursor + 1, sync.end)
Window == {k \in Calls : /\ call[k].real > 0
                         /\ call[k].at >= sync.cursor /\ call[k].at < WindowEnd}

(* _upsert_calls: an event that exists stays, a call without a lead is      *)
(* buffered.                                                                *)
CallPlan(ks, plan) ==
  [NoWork EXCEPT !.plan = plan,
                 !.events = {k \in ks \ event : HasLead(ContactOf[k], plan)},
                 !.buffer = {k \in ks \ event : ~HasLead(ContactOf[k], plan)}]

BatchPlan(s) == [s EXCEPT !.pc = "batch", !.work = CallPlan(s.page, {})]

FetchWindow ==
  /\ sync.pc = "calls" /\ sync.cursor < sync.end
  /\ LET s == [sync EXCEPT !.page = Window] IN
     sync' = IF Window = {} THEN [s EXCEPT !.pc = "mark"]
             ELSE IF sync.first THEN BatchPlan(s)
             ELSE [s EXCEPT !.pc = "window"]
  /\ UNCHANGED <<now, provider, db, marks, run, hook, faults, edits, userArchived, failed>>

UpsertBatch ==
  /\ sync.pc = "window"
  /\ sync' = BatchPlan(sync)
  /\ UNCHANGED <<now, provider, db, marks, run, hook, faults, edits, userArchived, failed>>

CommitBatch ==
  /\ sync.pc = "batch" /\ ~sync.work.doomed
  /\ Write(sync.work)
  /\ sync' = [sync EXCEPT !.pc = "mark", !.work = NoWork, !.page = {}]
  /\ hook' = [hook EXCEPT !.work = Hit(@, Rows(sync.work))]
  /\ UNCHANGED <<now, provider, marks, run, faults, edits, userArchived, failed>>

\* Mutation: the watermark jumps to the end of the whole interval.
MarkedToEnd(s) == s.end

(* The watermark acknowledges one consumed window.                          *)
Marked(s) == Earlier(s.cursor + 1, s.end)

AdvanceCalls ==
  /\ sync.pc = "mark"
  /\ callMark' = Forward(callMark, Marked(sync))
  /\ sync' = [sync EXCEPT !.pc = "calls", !.cursor = WindowEnd, !.first = FALSE,
                          !.page = {}]
  /\ UNCHANGED <<now, provider, db, contactMark, run, hook, faults, edits, userArchived, failed>>

(* After its calls the bootstrap runs the incremental passes once more.     *)
EndCalls ==
  /\ sync.pc = "calls" /\ sync.cursor >= sync.end
  /\ sync' = IF sync.phase = "boot"
             THEN [sync EXCEPT !.pc = "contacts", !.phase = "catch",
                               !.cursor = ContactStart, !.first = TRUE]
             ELSE [sync EXCEPT !.pc = "resolve"]
  /\ UNCHANGED <<now, provider, db, marks, run, hook, faults, edits, userArchived, failed>>

\* Mutation: only the orphans of leads this transaction wrote.
ResolvableOwn(plan) == {k \in orphans : ContactOf[k] \in Planned(plan)}

(* _resolve_orphans: those whose lead is found.                             *)
Resolvable(plan) == {k \in orphans : HasLead(ContactOf[k], plan)}

ResolveOrphans ==
  /\ sync.pc = "resolve"
  /\ sync' = [sync EXCEPT !.pc = "finish", !.work.resolved = Resolvable({})]
  /\ UNCHANGED <<now, provider, db, marks, run, hook, faults, edits, userArchived, failed>>

\* Mutation: a status that is not in the selection.
VerdictUnlisted(s) == IF s.gap THEN "partial" ELSE "done"

Verdict(s) == IF s.gap THEN "partial" ELSE "success"

Finish ==
  /\ sync.pc = "finish" /\ ~sync.work.doomed
  /\ Write(sync.work)
  /\ run' = Verdict(sync)
  /\ sync' = Idle
  /\ hook' = [hook EXCEPT !.work = Hit(@, Rows(sync.work))]
  /\ UNCHANGED <<now, provider, marks, faults, edits, userArchived, failed>>

\* Mutation: the transaction is not rolled back before the failure is written.
RolledBackNot(s) == [Idle EXCEPT !.pc = "failing", !.held = s.held]

(* The session releases the rows of its transaction, the run's among them.  *)
RolledBack(s) == [Idle EXCEPT !.pc = "failing"]

Fallible == {"contacts", "fetched", "page", "calls", "window", "batch", "mark",
             "resolve", "finish"}

(* An adapter error, or a serialization failure of a doomed transaction.    *)
Fail ==
  /\ sync.pc \in Fallible
  /\ sync.work.doomed \/ faults < MaxFaults
  /\ faults' = IF sync.work.doomed THEN faults ELSE faults + 1
  /\ sync' = RolledBack(sync)
  /\ UNCHANGED <<now, provider, db, marks, run, hook, edits, userArchived, failed>>

(* _persist_sync_failure_durable waits while the first transaction still    *)
(* holds the run's row.                                                     *)
PersistFailure ==
  /\ sync.pc = "failing" /\ ~sync.held
  /\ run' = "failed"
  /\ sync' = Idle
  /\ UNCHANGED <<now, provider, db, marks, hook, faults, edits, userArchived, failed>>

(* The worker dies; its session lock goes with it.                          *)
Crash ==
  /\ sync.pc # "idle" /\ faults < MaxFaults
  /\ faults' = faults + 1
  /\ sync' = Idle
  /\ UNCHANGED <<now, provider, db, marks, run, hook, edits, userArchived, failed>>

-----------------------------------------------------------------------------
(***************************************************************************)
(* upsert_contact_external_id: contact, its calls, then the orphans, in    *)
(* one transaction and without the advisory lock.                          *)
(***************************************************************************)
CallsOf(c) == {k \in Calls : ContactOf[k] = c /\ call[k].real > 0}

HookWork(c, refused) ==
  LET plan == LeadPlan({Dto(c)} \ refused)
      calls == IF Ambiguous(c) \/ refused # {} THEN {} ELSE CallsOf(c)
  IN [CallPlan(calls, plan) EXCEPT !.resolved = Resolvable(plan)]

BeginHook(c) ==
  /\ "webhook" \in Ops /\ hook.pc = "idle" /\ edits < MaxEdits
  /\ contact[c].at > 0
  /\ edits' = edits + 1
  /\ \E refused \in Refusals({Dto(c)}) :
       hook' = [pc |-> "begun", work |-> HookWork(c, refused)]
  /\ UNCHANGED <<now, provider, db, marks, run, sync, faults, userArchived, failed>>

CommitHook ==
  /\ hook.pc = "begun" /\ ~hook.work.doomed
  /\ Write(hook.work)
  /\ sync' = [sync EXCEPT !.work = Hit(@, Rows(hook.work))]
  /\ hook' = NoHook
  /\ UNCHANGED <<now, provider, marks, run, faults, edits, userArchived, failed>>

(* The provider is answered with an error.                                  *)
AbortHook ==
  /\ hook.pc = "begun" /\ hook.work.doomed
  /\ hook' = NoHook
  /\ UNCHANGED <<now, provider, db, marks, run, sync, faults, edits, userArchived, failed>>

-----------------------------------------------------------------------------
(* Every unread modification can still be requested at time t.              *)
Timely(t) ==
  "outage" \in Ops
    \/ \A c \in Contacts : contact[c].at > contactMark => contact[c].at > t - Lookback

Modify(c) ==
  /\ now < MaxTime /\ Timely(now + 1)
  /\ now' = now + 1
  /\ \E deleted \in IF "delete" \in Ops THEN BOOLEAN ELSE {FALSE} :
       contact' = [contact EXCEPT ![c] = [at |-> now + 1, deleted |-> deleted]]
  /\ UNCHANGED <<call, clamps, db, marks, run, sync, hook, faults, edits, userArchived, failed>>

RecordCall(k) ==
  /\ call[k].real = 0 /\ contact[ContactOf[k]].at > 0
  /\ \E lag \in 0..Skew :
       call' = [call EXCEPT ![k] = [at |-> Later(0, now - lag), real |-> now]]
  /\ UNCHANGED <<now, contact, clamps, db, marks, run, sync, hook,
                 faults, edits, userArchived, failed>>

Tick ==
  /\ now < MaxTime /\ Timely(now + 1)
  /\ now' = now + 1
  /\ UNCHANGED <<provider, db, marks, run, sync, hook, faults, edits, userArchived, failed>>

(* A user archives or restores a lead.                                      *)
SetActive(c, on) ==
  /\ "user" \in Ops /\ edits < MaxEdits
  /\ lead[c].copies = 1 /\ lead[c].active # on
  /\ edits' = edits + 1
  /\ lead' = [lead EXCEPT ![c].active = on]
  /\ userArchived' = IF on THEN userArchived \ {c} ELSE userArchived \cup {c}
  /\ sync' = [sync EXCEPT !.work = Hit(@, {<<"lead", c>>})]
  /\ hook' = [hook EXCEPT !.work = Hit(@, {<<"lead", c>>})]
  /\ UNCHANGED <<now, provider, ref, event, orphans, marks, run, faults, failed>>

-----------------------------------------------------------------------------
Init ==
  /\ now = 1
  /\ contact = [c \in Contacts |-> [at |-> 0, deleted |-> FALSE]]
  /\ call = [k \in Calls |-> [at |-> 0, real |-> 0]]
  /\ clamps \in IF "clamp" \in Ops THEN BOOLEAN ELSE {FALSE}
  /\ lead = [c \in Contacts |->
               [copies |-> LegacyLeads[c], at |-> 0, active |-> TRUE, flag |-> FALSE]]
  /\ ref = {} /\ event = {} /\ orphans = {}
  /\ contactMark = 0 /\ callMark = 0
  /\ run = "none"
  /\ sync = Idle /\ hook = NoHook
  /\ faults = 0 /\ edits = 0
  /\ userArchived = {} /\ failed = {}

SyncStep ==
  \/ FetchPage \/ UpsertPage \/ CommitPage
  \/ FetchWindow \/ UpsertBatch \/ CommitBatch \/ AdvanceCalls \/ EndCalls
  \/ ResolveOrphans \/ Finish
  \/ sync.work.doomed /\ Fail
  \/ PersistFailure

Next ==
  \/ \E mode \in Modes : Start(mode)
  \/ SyncStep
  \/ Fail
  \/ Crash
  \/ \E c \in Contacts : BeginHook(c)
  \/ CommitHook
  \/ AbortHook
  \/ \E c \in Contacts : Modify(c)
  \/ \E k \in Calls : RecordCall(k)
  \/ Tick
  \/ \E c \in Contacts, on \in BOOLEAN : SetActive(c, on)

Spec == Init /\ [][Next]_vars

(* The cron starts a run every hour, and a started one goes on.             *)
FairSpec ==
  /\ Spec
  /\ WF_vars(\E mode \in Modes : Start(mode))
  /\ WF_vars(SyncStep)
  /\ WF_vars(CommitHook \/ AbortHook)

-----------------------------------------------------------------------------
(***************************************************************************)
(* Properties.                                                             *)
(***************************************************************************)
(* A contact as the provider reported it.                                   *)
Version == [id : Contacts, at : Nat, deleted : BOOLEAN]

Work == [plan : SUBSET [id : Contacts, new : BOOLEAN,
                        row : [at : Nat, active : BOOLEAN, flag : BOOLEAN]],
         failed : SUBSET Version, events : SUBSET Calls, buffer : SUBSET Calls,
         resolved : SUBSET Calls, doomed : BOOLEAN]

(* The type invariant: every variable, the plans of the two sessions        *)
(* included, has its type.                                                  *)
TypeOK ==
  /\ now \in Nat
  /\ contact \in [Contacts -> [at : Nat, deleted : BOOLEAN]]
  /\ call \in [Calls -> [at : Nat, real : Nat]]
  /\ clamps \in BOOLEAN
  /\ lead \in [Contacts -> [copies : Nat, at : Nat, active : BOOLEAN, flag : BOOLEAN]]
  /\ ref \subseteq Contacts /\ event \subseteq Calls /\ orphans \subseteq Calls
  /\ contactMark \in Nat /\ callMark \in Nat
  /\ run \in {"none", "running", "success", "partial", "failed"}
  /\ sync.pc \in Fallible \cup {"idle", "failing"}
  /\ sync.work \in Work /\ hook.work \in Work
  /\ faults \in Nat /\ edits \in Nat
  /\ userArchived \subseteq Contacts
  /\ failed \subseteq Version

(* No source id ever gets a second lead, however the webhook and a page     *)
(* race: leads are only duplicated if they were before the first sync.      *)
NoDuplicateLead == \A c \in Contacts : lead[c].copies <= Later(1, LegacyLeads[c])

(* A lead holds the contact, or the operator is told: its identity is       *)
(* ambiguous, or a page counted this very version as failed.                *)
Accounted(c) ==
  lead[c].at = contact[c].at \/ Ambiguous(c) \/ \E v \in failed : v.id = c /\ v.at = contact[c].at

(* The watermark covers only modifications that are accounted for.  That is *)
(* less than invariant I1 of the launch gates says: a page is committed past *)
(* the contacts of it that failed, and no later page brings them again.     *)
ContactsAcknowledged ==
  \A c \in Contacts : contact[c].at \in 1..contactMark => Accounted(c)

(* I1 for calls: below the watermark, and from the floor the operator asked *)
(* for, every call is an event or waits in the orphan buffer.               *)
CallsAcknowledged ==
  BackfillFloor >= 0 =>
    \A k \in Calls :
      call[k].real > 0 /\ call[k].at >= BackfillFloor /\ call[k].at < callMark
        => k \in event \cup orphans

EndsWell == run = "running" /\ run' = "success"

(* A rolling catch-up that reports success has read every contact and call  *)
(* that was there when it started, over all pages and windows, whatever     *)
(* failed before.                                                           *)
SuccessIsComplete ==
  [][EndsWell /\ sync.mode = "catch_up" =>
       /\ \A c \in Contacts : contact[c].at \in 1..sync.started => Accounted(c)
       /\ \A k \in Calls :
            call[k].real > 0 /\ call[k].at < sync.started => k \in (event \cup orphans)']_vars

(* A full import that asks for a floor beyond the lookback and reports      *)
(* success took the whole census up to the time it began, although the      *)
(* provider may silently clamp the floor.                                   *)
CensusIsProven ==
  [][EndsWell /\ sync.mode = "full_import" /\ sync.started > ApiLookback =>
       \A c \in Contacts : contact[c].at \in 1..sync.started => Accounted(c)]_vars

(* No call recorded before the catch-up of a full import reads the calls is *)
(* lost in the seam with the bootstrap, with clocks that differ by the skew.*)
NoSeam ==
  [][EndsWell /\ sync.mode = "full_import" =>
       \A k \in Calls : call[k].real \in 1..(sync.end - 1) => k \in (event \cup orphans)']_vars

(* A lead a user archived is never reopened by the sync, whatever the       *)
(* provider reports and however pages, webhook and users race.  True as     *)
(* long as the provider never deletes the contact; the documentation of     *)
(* vanillasoft_sync_archived claims it without that condition.              *)
UserArchiveStands == \A c \in userArchived : ~lead[c].active

(* With finitely many faults a synchronization never hangs: again and again *)
(* a run ends without an error.                                             *)
RunsEnd == []<>(run \in {"success", "partial"})

InSync ==
  /\ \A c \in Contacts : contact[c].at > 0 => Accounted(c)
  /\ \A k \in orphans : lead[ContactOf[k]].copies = 0

(* Once the provider is quiet, every lead catches up with its contact, those *)
(* that failed excepted, and no orphan whose lead exists is left: stale     *)
(* pages and races heal.                                                    *)
CatchesUp == <>[]InSync
=============================================================================
