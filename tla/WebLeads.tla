-------------------------------- MODULE WebLeads --------------------------------
(***************************************************************************)
(* Web leads (plasticos_web_leads): submissions that a provider sends and   *)
(* resends, admitted under an idempotency key, triaged, and converted into *)
(* an intake and a CRM lead; and what brokers do with them.                 *)
(*                                                                         *)
(* A request runs in one transaction at REPEATABLE READ.  An admission      *)
(* looks for its key in its snapshot, inserts the lead (waiting for a       *)
(* concurrent insert of the key to end) and triages it, with calls to AI    *)
(* providers and downloads that may take minutes, before anything commits.  *)
(* A user's request on a lead that another request has written since it     *)
(* began cannot commit.                                                    *)
(***************************************************************************)
EXTENDS LeadTriage

CONSTANTS
  Keys, Deliveries, Workers,
  KeyOf,        \* [Deliveries -> Keys]
  Submission,   \* [Deliveries -> Submissions]: provider and its external id;
                \* NoSubmission for the agent's endpoint, which names none
  NoSubmission, Unseen,
  Findings,     \* what normalization may find, a subset of Evidence
  MaxFaults, MaxEdits,  \* bounds: crashes and lost answers; users' requests
  Ops           \* the users' requests of a run

AllOps == {"retry_triage", "retry_processing", "force_create", "force_hot",
           "bulk_force_hot", "mark_skipped", "route_review", "approve",
           "clarify", "reject", "unlink", "delete_intake"}

ASSUME DeliveryAssumption ==
  /\ KeyOf \in [Deliveries -> Keys]
  /\ Unseen \notin {Submission[d] : d \in Deliveries} \cup {NoSubmission}
ASSUME WebLeadBoundAssumption == {MaxFaults, MaxEdits} \subseteq Nat
ASSUME WebLeadOpsAssumption == Ops \subseteq AllOps

VARIABLES
  lead,      \* [Keys -> row of plasticos.web.lead]
  intakes,   \* [Keys -> Nat]: live intakes made for the present row
  crmLeads,  \* [Keys -> Nat]: CRM leads made for the present row
  delivery,  \* [Deliveries -> "none", "accepted", "refused"]: the last answer
             \* its sender received; it resends while there is none
  req,       \* [Workers -> request]
  faults, edits,  \* counters that bound a run
  bulkFailed \* history: leads a bulk action listed among its errors

db == <<lead, intakes, crmLeads>>
vars == <<lead, intakes, crmLeads, delivery, req, faults, edits, bulkFailed>>

NoRow == [state |-> "absent", decision |-> "cold", review |-> "pending",
          intake |-> FALSE, crm |-> FALSE, handoff |-> FALSE, assessed |-> FALSE,
          evidence |-> 0, snapshot |-> 0, submission |-> NoSubmission]
NoLead == {"absent", "deleted"}
Exists(k) == lead[k].state \notin NoLead

Idle == [op |-> "idle"]

-----------------------------------------------------------------------------
(***************************************************************************)
(* Conversion and triage, as functions of the row.                         *)
(***************************************************************************)

(* Where conversion can raise: creating the intake, scheduling the review,  *)
(* creating the CRM lead.                                                  *)
ConversionFaults == {"none", "intake", "handoff", "crm"}

Linked(l) == [l EXCEPT !.intake = TRUE, !.state = "intake_created"]

(* _process_hot_lead_triage, up to the statement that raises.  An intake    *)
(* that is linked already is kept, and neither its state nor its handoff    *)
(* is written again.  (handoff: a reviewer was given the intake, or the     *)
(* lead is marked as blocked for want of one.)                             *)
Converted(l, fault) ==
  LET linked == IF l.intake THEN l ELSE Linked(l)
      handed == IF l.intake THEN l ELSE [linked EXCEPT !.handoff = TRUE]
  IN CASE fault = "intake" -> l
       [] fault = "handoff" -> linked
       [] fault = "crm" -> handed
       [] OTHER -> [handed EXCEPT !.crm = TRUE]

\* Mutation: every triage creates an intake, linked one or not.
MakesIntakeAgain(l, m) == m.intake /\ (~l.intake \/ m.evidence > l.evidence)

(* Intakes and CRM leads a transaction made are told from the row.          *)
MakesIntake(l, m) == ~l.intake /\ m.intake
MakesCrmLead(l, m) == ~l.crm /\ m.crm

(* A run of the pipeline: what was found, whether the economic assessment   *)
(* of a packet succeeds and leaves doubts, and the statement that raises:   *)
(* before anything is written ("early"), in the conversion, or after it     *)
(* ("copy").                                                               *)
TriageRuns ==
  {t \in [found : Findings, assessed : BOOLEAN, doubts : BOOLEAN,
          fault : ConversionFaults \cup {"early", "copy"}] :
     /\ t.assessed => t.found.packet
     /\ t.doubts => t.assessed
     /\ ~Hot(t.found) => t.fault \in {"none", "early"}
     /\ t.fault = "early" => ~t.assessed}

IsPacket(l) == l.submission # NoSubmission

\* Mutation: a new triage leaves the broker's decision on the old evidence.
ClassifiedKept(l, t) ==
  [l EXCEPT !.decision = IF Hot(t.found) THEN "hot" ELSE "cold",
            !.evidence = @ + 1,
            !.assessed = IF IsPacket(l) THEN t.assessed ELSE @]

(* The classification and its evidence, written before any conversion.      *)
Classified(l, t) ==
  LET reviewed == /\ Hot(t.found)
                  /\ \/ NeedsReview(t.found)
                     \/ IsPacket(l) /\ (t.doubts \/ ~t.assessed)
  IN [l EXCEPT !.decision = IF Hot(t.found) THEN "hot" ELSE "cold",
               !.review = IF reviewed THEN "clarification_required" ELSE "pending",
               !.evidence = @ + 1,
               !.assessed = IF IsPacket(l) THEN t.assessed ELSE @]

\* Mutation: an exception after the classification is only logged.
TriagedLogged(l, t) ==
  LET m == Converted(Classified(l, t), t.fault)
  IN IF t.fault = "early" \/ Unusable(t.found) THEN [l EXCEPT !.state = "error"]
     ELSE IF ~Hot(t.found) THEN [Classified(l, t) EXCEPT !.state = "skipped"]
     ELSE m

(* _run_triage_pipeline.                                                   *)
Triaged(l, t) ==
  LET c == Classified(l, t)
      m == Converted(c, t.fault)
  IN IF t.fault = "early" \/ Unusable(t.found) THEN [l EXCEPT !.state = "error"]
     ELSE IF ~Hot(t.found) THEN [c EXCEPT !.state = "skipped"]
     ELSE IF t.fault = "none" THEN m
     ELSE [m EXCEPT !.state = "error"]

(* The runs on a given row: nothing is created twice that could raise.      *)
RunsOf(l) ==
  {t \in TriageRuns :
     /\ t.found.packet = IsPacket(l)
     /\ l.intake => t.fault \notin {"intake", "handoff"}
     /\ l.crm => t.fault # "crm"}

-----------------------------------------------------------------------------
Init ==
  /\ lead = [k \in Keys |-> NoRow]
  /\ intakes = [k \in Keys |-> 0]
  /\ crmLeads = [k \in Keys |-> 0]
  /\ delivery = [d \in Deliveries |-> "none"]
  /\ req = [w \in Workers |-> Idle]
  /\ faults = 0 /\ edits = 0
  /\ bulkFailed = {}

(* Requests on a lead that was written since they began cannot write it.    *)
Doomed(w, k) ==
  [v \in Workers |-> IF v = w THEN Idle
                     ELSE IF req[v].op \in AllOps /\ req[v].key = k
                          THEN [req[v] EXCEPT !.stale = TRUE] ELSE req[v]]

Commit(w, k, m) ==
  /\ lead' = [lead EXCEPT ![k] = m]
  /\ intakes' = [intakes EXCEPT ![k] = @ + (IF MakesIntake(lead[k], m) THEN 1 ELSE 0)]
  /\ crmLeads' = [crmLeads EXCEPT ![k] = @ + (IF MakesCrmLead(lead[k], m) THEN 1 ELSE 0)]
  /\ req' = Doomed(w, k)

End(w) == req' = [req EXCEPT ![w] = Idle]

-----------------------------------------------------------------------------
(***************************************************************************)
(* Admission.                                                              *)
(***************************************************************************)

(* The sender (re)sends; _find_existing_lead in the request's snapshot.     *)
BeginAdmit(w, d) ==
  LET k == KeyOf[d] IN
  /\ delivery[d] = "none" /\ req[w] = Idle
  /\ req' = [req EXCEPT ![w] =
       [op |-> "admit", delivery |-> d, inserted |-> FALSE,
        seen |-> IF Exists(k) THEN lead[k].submission ELSE Unseen]]
  /\ UNCHANGED <<lead, intakes, crmLeads, delivery, faults, edits, bulkFailed>>

Admitting(w) == req[w].op = "admit"

\* Mutation: requests of one key wait for each other from the start.
InsertReadyAlone(w) ==
  /\ Admitting(w) /\ req[w].seen = Unseen /\ ~req[w].inserted
  /\ \A v \in Workers \ {w} :
       Admitting(v) => KeyOf[req[v].delivery] # KeyOf[req[w].delivery]

(* The insert of a key waits while another transaction has inserted it.     *)
InsertReady(w) ==
  /\ Admitting(w) /\ req[w].seen = Unseen /\ ~req[w].inserted
  /\ \A v \in Workers \ {w} :
       Admitting(v) /\ req[v].inserted => KeyOf[req[v].delivery] # KeyOf[req[w].delivery]

\* Mutation: the sender is answered before the triage.
InsertAnswered(w) ==
  /\ InsertReady(w) /\ ~Exists(KeyOf[req[w].delivery])
  /\ req' = [req EXCEPT ![w].inserted = TRUE]
  /\ delivery' = [delivery EXCEPT ![req[w].delivery] = "accepted"]
  /\ UNCHANGED <<lead, intakes, crmLeads, faults, edits, bulkFailed>>

Insert(w) ==
  /\ InsertReady(w) /\ ~Exists(KeyOf[req[w].delivery])
  /\ req' = [req EXCEPT ![w].inserted = TRUE]
  /\ UNCHANGED <<lead, intakes, crmLeads, delivery, faults, edits, bulkFailed>>

(* A winner has committed; it is invisible to the snapshot.  The controller *)
(* turns the ConcurrencyError into a 500 and the dispatcher retries nothing.*)
Collide(w) ==
  /\ InsertReady(w) /\ Exists(KeyOf[req[w].delivery])
  /\ End(w)
  /\ UNCHANGED <<lead, intakes, crmLeads, delivery, faults, edits, bulkFailed>>

(* The answer arrives, unless it is lost; only the first one counts.        *)
Answered(d, a) ==
  \/ /\ delivery' = [delivery EXCEPT ![d] = IF @ = "none" THEN a ELSE @]
     /\ UNCHANGED faults
  \/ /\ delivery[d] = "none" /\ faults < MaxFaults
     /\ faults' = faults + 1 /\ UNCHANGED delivery

(* create_from_packet, create_from_agent: the triage ends, the transaction  *)
(* commits, then the sender is answered.                                   *)
FinishAdmit(w) ==
  LET d == req[w].delivery
      new == [NoRow EXCEPT !.state = "received", !.submission = Submission[d]]
  IN
  /\ Admitting(w) /\ req[w].inserted
  /\ \E t \in RunsOf(new) : Commit(w, KeyOf[d], Triaged(new, t))
  /\ Answered(d, "accepted")
  /\ UNCHANGED <<edits, bulkFailed>>

(* _assert_equivalent_packet_replay; the agent's endpoint checks nothing.   *)
Equivalent(s, seen) == s = NoSubmission \/ seen = NoSubmission \/ s = seen

Replay(w) ==
  LET d == req[w].delivery IN
  /\ Admitting(w) /\ req[w].seen # Unseen
  /\ End(w)
  /\ Answered(d, IF Equivalent(Submission[d], req[w].seen) THEN "accepted" ELSE "refused")
  /\ UNCHANGED <<lead, intakes, crmLeads, edits, bulkFailed>>

(* A crash; that of a user's request is EndUser.                            *)
Crash(w) ==
  /\ Admitting(w) /\ faults < MaxFaults
  /\ faults' = faults + 1
  /\ End(w)
  /\ UNCHANGED <<lead, intakes, crmLeads, delivery, edits, bulkFailed>>

-----------------------------------------------------------------------------
(***************************************************************************)
(* Users.  A request that is not stale has the committed row in its         *)
(* snapshot; one that is stale, or refused, ends without effect.            *)
(***************************************************************************)
BeginUser(w, op, k) ==
  /\ op \in Ops /\ Exists(k) /\ req[w] = Idle /\ edits < MaxEdits
  /\ edits' = edits + 1
  /\ req' = [req EXCEPT ![w] = [op |-> op, key |-> k, stale |-> FALSE]]
  /\ UNCHANGED <<lead, intakes, crmLeads, delivery, faults, bulkFailed>>

Serving(w, op) == req[w].op = op /\ ~req[w].stale /\ Exists(req[w].key)

EndUser(w) ==
  /\ req[w].op \in AllOps
  /\ End(w)
  /\ UNCHANGED <<lead, intakes, crmLeads, delivery, faults, edits, bulkFailed>>

Retry(w) ==
  \E op \in {"retry_triage", "retry_processing"} :
    LET k == req[w].key IN
    /\ Serving(w, op)
    /\ lead[k].state \in IF op = "retry_triage" THEN {"error", "skipped", "received"}
                                               ELSE {"error"}
    /\ \E t \in RunsOf(lead[k]) : Commit(w, k, Triaged(lead[k], t))
    /\ UNCHANGED <<delivery, faults, edits, bulkFailed>>

(* After conversion only states may be written, so a lead whose intake was  *)
(* deleted is refused another one.                                         *)
Writable(l) == l.state # "intake_created"

(* An exception rolls the request back.                                    *)
ForceCreate(w) ==
  LET k == req[w].key IN
  /\ Serving(w, "force_create")
  /\ ~lead[k].intake /\ Writable(lead[k])
  /\ Commit(w, k, Converted(lead[k], "none"))
  /\ UNCHANGED <<delivery, faults, edits, bulkFailed>>

ForceHot(w) ==
  LET k == req[w].key IN
  /\ Serving(w, "force_hot")
  /\ ~lead[k].intake /\ Writable(lead[k])
  /\ Commit(w, k, Converted([lead[k] EXCEPT !.decision = "hot"], "none"))
  /\ UNCHANGED <<delivery, faults, edits, bulkFailed>>

(* The wizard lists an exception among its errors, has no savepoint, and    *)
(* commits what was written before the statement that raised.               *)
BulkForceHot(w, fault) ==
  LET k == req[w].key IN
  /\ Serving(w, "bulk_force_hot")
  /\ lead[k].decision = "cold" /\ ~lead[k].intake /\ Writable(lead[k])
  /\ lead[k].crm => fault # "crm"
  /\ Commit(w, k, Converted([lead[k] EXCEPT !.decision = "hot"], fault))
  /\ bulkFailed' = IF fault = "none" THEN bulkFailed ELSE bulkFailed \cup {k}
  /\ UNCHANGED <<delivery, faults, edits>>

MarkSkipped(w) ==
  LET k == req[w].key IN
  /\ Serving(w, "mark_skipped")
  /\ Writable(lead[k])
  /\ Commit(w, k, [lead[k] EXCEPT !.state = "skipped", !.decision = "cold"])
  /\ UNCHANGED <<delivery, faults, edits, bulkFailed>>

RouteReview(w) ==
  LET k == req[w].key IN
  /\ Serving(w, "route_review")
  /\ lead[k].intake
  /\ Commit(w, k, [lead[k] EXCEPT !.handoff = TRUE])
  /\ UNCHANGED <<delivery, faults, edits, bulkFailed>>

(* action_approve_for_commercial_preparation: an approval that stands is    *)
(* shown, not repeated.                                                    *)
Approve(w) ==
  LET k == req[w].key IN
  /\ Serving(w, "approve")
  /\ ~(lead[k].review = "approved" /\ lead[k].snapshot > 0)
  /\ lead[k].decision = "hot" /\ lead[k].intake /\ lead[k].assessed
  /\ Commit(w, k, [lead[k] EXCEPT !.review = "approved", !.snapshot = lead[k].evidence])
  /\ UNCHANGED <<delivery, faults, edits, bulkFailed>>

Review(w) ==
  LET k == req[w].key IN
  \E op \in {"clarify", "reject"} :
    /\ Serving(w, op)
    /\ Commit(w, k, [lead[k] EXCEPT !.review =
         IF op = "clarify" THEN "clarification_required" ELSE "rejected"])
    /\ UNCHANGED <<delivery, faults, edits, bulkFailed>>

(* The snapshots of a lead are kept for audit, with the lead they bind.     *)
Unlink(w) ==
  LET k == req[w].key IN
  /\ Serving(w, "unlink")
  /\ Writable(lead[k]) /\ lead[k].snapshot = 0
  /\ lead' = [lead EXCEPT ![k] = [NoRow EXCEPT !.state = "deleted"]]
  /\ intakes' = [intakes EXCEPT ![k] = 0]
  /\ crmLeads' = [crmLeads EXCEPT ![k] = 0]
  /\ req' = Doomed(w, k)
  /\ bulkFailed' = bulkFailed \ {k}
  /\ UNCHANGED <<delivery, faults, edits>>

(* Deleting the intake clears the lead's link (ondelete "set null"), and is *)
(* refused by a snapshot (ondelete "restrict").                             *)
DeleteIntake(w) ==
  LET k == req[w].key IN
  /\ Serving(w, "delete_intake")
  /\ lead[k].intake /\ lead[k].snapshot = 0
  /\ lead' = [lead EXCEPT ![k].intake = FALSE]
  /\ intakes' = [intakes EXCEPT ![k] = @ - 1]
  /\ req' = Doomed(w, k)
  /\ UNCHANGED <<crmLeads, delivery, faults, edits, bulkFailed>>

-----------------------------------------------------------------------------
Admission(w) ==
  Insert(w) \/ Collide(w) \/ Replay(w) \/ FinishAdmit(w)

UserStep(w) ==
  \/ EndUser(w) \/ MarkSkipped(w) \/ Approve(w) \/ Review(w) \/ Unlink(w)
  \/ DeleteIntake(w) \/ Retry(w)
  \/ ForceCreate(w) \/ ForceHot(w) \/ RouteReview(w)
  \/ \E f \in ConversionFaults : BulkForceHot(w, f)

Next ==
  \E w \in Workers :
    \/ \E d \in Deliveries : BeginAdmit(w, d)
    \/ \E op \in Ops, k \in Keys : BeginUser(w, op, k)
    \/ Admission(w) \/ UserStep(w) \/ Crash(w)

Spec == Init /\ [][Next]_vars

(* A request ends, and a sender that was not answered sends again.          *)
FairSpec ==
  /\ Spec
  /\ \A w \in Workers : WF_vars(Admission(w)) /\ WF_vars(EndUser(w))
  /\ \A d \in Deliveries : WF_vars(\E w \in Workers : BeginAdmit(w, d))

-----------------------------------------------------------------------------
Row == [state : {"absent", "deleted", "received", "intake_created", "skipped", "error"},
        decision : {"hot", "cold"},
        review : {"pending", "clarification_required", "approved", "rejected"},
        intake : BOOLEAN, crm : BOOLEAN, handoff : BOOLEAN,
        assessed : BOOLEAN, evidence : Nat, snapshot : Nat,
        submission : {Submission[d] : d \in Deliveries} \cup {NoSubmission}]

Requests ==
  {Idle}
    \cup [op : {"admit"}, delivery : Deliveries, inserted : BOOLEAN,
          seen : {Submission[d] : d \in Deliveries} \cup {NoSubmission, Unseen}]
    \cup [op : AllOps, key : Keys, stale : BOOLEAN]

(* Every variable has its type.                                            *)
TypeOK ==
  /\ lead \in [Keys -> Row]
  /\ intakes \in [Keys -> Nat] /\ crmLeads \in [Keys -> Nat]
  /\ delivery \in [Deliveries -> {"none", "accepted", "refused"}]
  /\ req \in [Workers -> Requests]
  /\ faults \in 0..MaxFaults /\ edits \in 0..MaxEdits
  /\ bulkFailed \subseteq Keys

(* A lead never has a second live intake or a second CRM lead, whichever of *)
(* admission, retry and the users' overrides race for it, and its link is   *)
(* never lost (web_lead.py:1103, crm_bridge web_lead.py:20).                *)
OneConversion ==
  \A k \in Keys :
    /\ intakes[k] = IF lead[k].intake THEN 1 ELSE 0
    /\ crmLeads[k] = IF lead[k].crm THEN 1 ELSE 0

(* A standing approval is of the evidence the lead has now: no triage that  *)
(* raced it or came after it has replaced what the broker approved.         *)
ApprovalIsCurrent ==
  \A k \in Keys :
    lead[k].review = "approved" =>
      lead[k].snapshot = lead[k].evidence /\ lead[k].intake

(* A converted lead was handed to a reviewer (or is recorded as blocked)    *)
(* and to the CRM, whatever raised on the way, unless a bulk action         *)
(* reported it among its errors.                                           *)
ConvertedIsHandedOff ==
  \A k \in Keys \ bulkFailed :
    lead[k].state = "intake_created" => lead[k].handoff /\ lead[k].crm

(* Every delivery is answered, if its sender keeps resending.               *)
EveryDeliveryAnswered == <>(\A d \in Deliveries : delivery[d] # "none")

(* The admission implements IdempotentAdmission.                            *)
Receipt ==
  [k \in Keys |->
     CASE lead[k].state = "absent" -> "none"
       [] lead[k].state = "deleted" -> "withdrawn"
       [] Exists(k) /\ intakes[k] = 0 -> "open"
       [] Exists(k) /\ intakes[k] = 1 -> "converted"
       [] OTHER -> "converted twice"]
Promise == INSTANCE IdempotentAdmission WITH receipt <- Receipt, answer <- delivery
AdmitsOnce == Promise!Spec
=============================================================================
