----------------------------- MODULE WebLeadsProofs -----------------------------
(***************************************************************************)
(* Proofs about WebLeads, for any number of keys, deliveries and workers    *)
(* and whatever triage finds: how a finding is classified (Hot, Unusable,   *)
(* NeedsReview) is expanded only in the last part, which is about that.     *)
(***************************************************************************)
EXTENDS WebLeads, FiniteSetTheorems, TLAPS

(* What a row satisfies on its own: a key without a lead has nothing        *)
(* converted, an assessment comes with evidence, and an approval binds the  *)
(* present evidence by a snapshot, of a lead that has its intake.           *)
RowOK(l) ==
  /\ l.state \in NoLead => ~l.intake /\ ~l.crm /\ l.review # "approved"
  /\ l.assessed => l.evidence > 0
  /\ l.review = "approved" =>
       l.snapshot > 0 /\ l.snapshot = l.evidence /\ l.intake

HandedOff(l) == l.state = "intake_created" => l.handoff /\ l.crm

(* An admission that inserted its key is alone with it: there is no lead    *)
(* and no other inserter.  One that found its key found a lead there.       *)
AdmissionsOK ==
  /\ \A w \in Workers : Admitting(w) /\ req[w].inserted =>
       ~Exists(KeyOf[req[w].delivery])
  /\ \A v, w \in Workers :
       /\ v # w
       /\ Admitting(v) /\ req[v].inserted
       /\ Admitting(w) /\ req[w].inserted
       => KeyOf[req[v].delivery] # KeyOf[req[w].delivery]
  /\ \A w \in Workers : Admitting(w) /\ req[w].seen # Unseen =>
       lead[KeyOf[req[w].delivery]].state # "absent"

RowsOK == \A k \in Keys : RowOK(lead[k])

IInv == TypeOK /\ OneConversion /\ RowsOK /\ ConvertedIsHandedOff /\ AdmissionsOK

-----------------------------------------------------------------------------
(***************************************************************************)
(* What conversion and triage do to a row.                                 *)
(***************************************************************************)

(* m may follow the live row l: it is live and keeps what was made for l.   *)
Continues(l, m) ==
  /\ m \in Row /\ RowOK(m) /\ m.state \notin NoLead
  /\ l.intake => m.intake
  /\ l.crm => m.crm

LEMMA ConvertedContinues ==
  ASSUME NEW l \in Row, RowOK(l), l.state \notin NoLead,
         NEW f \in ConversionFaults
  PROVE  /\ Continues(l, Converted(l, f))
         /\ f = "none" /\ l.state # "intake_created" => HandedOff(Converted(l, f))
  BY DEF Continues, Converted, Linked, ConversionFaults, Row, RowOK, NoLead, HandedOff

LEMMA ClassifiedRow ==
  ASSUME NEW l \in Row, l.state \notin NoLead, NEW t \in TriageRuns
  PROVE  /\ Classified(l, t) \in Row
         /\ RowOK(Classified(l, t))
         /\ Classified(l, t).state = l.state
         /\ Classified(l, t).intake = l.intake
         /\ Classified(l, t).crm = l.crm
<1> DEFINE d == IF Hot(t.found) THEN "hot" ELSE "cold"
           r == IF /\ Hot(t.found)
                   /\ \/ NeedsReview(t.found)
                      \/ IsPacket(l) /\ (t.doubts \/ ~t.assessed)
                THEN "clarification_required" ELSE "pending"
           a == IF IsPacket(l) THEN t.assessed ELSE l.assessed
           e == l.evidence + 1
           new == [l EXCEPT !.decision = d, !.review = r, !.evidence = e, !.assessed = a]
<1>1. Classified(l, t) = new
  BY Zenon DEF Classified
<1>2. d \in {"hot", "cold"} /\ r \in {"clarification_required", "pending"}
  OBVIOUS
<1>3. a \in BOOLEAN
  BY DEF TriageRuns, Row
<1>4. e \in Nat /\ e > 0
  BY DEF Row
<1> HIDE DEF d, r, a, e
<1>5. new \in Row
  BY <1>2, <1>3, <1>4 DEF Row
<1>6. /\ new.state = l.state /\ new.intake = l.intake /\ new.crm = l.crm
      /\ new.evidence = e /\ new.review = r
  BY DEF Row
<1> HIDE DEF new
<1>. QED
  BY <1>1, <1>2, <1>4, <1>5, <1>6 DEF RowOK

LEMMA TriagedContinues ==
  ASSUME NEW l \in Row, RowOK(l), l.state \notin NoLead, l.state # "intake_created",
         NEW t \in RunsOf(l)
  PROVE  Continues(l, Triaged(l, t)) /\ HandedOff(Triaged(l, t))
<1> DEFINE c == Classified(l, t)
           m == Converted(c, t.fault)
<1>0. t \in TriageRuns
  BY DEF RunsOf
<1>1. c \in Row /\ RowOK(c) /\ c.state = l.state /\ c.intake = l.intake /\ c.crm = l.crm
  BY <1>0, ClassifiedRow
<1>2. CASE t.fault = "early" \/ Unusable(t.found)
  <2>1. Triaged(l, t) = [l EXCEPT !.state = "error"]
    BY <1>2 DEF Triaged
  <2>. QED
    BY <2>1 DEF Continues, HandedOff, Row, RowOK, NoLead
<1>3. CASE ~(t.fault = "early" \/ Unusable(t.found)) /\ ~Hot(t.found)
  <2>1. Triaged(l, t) = [c EXCEPT !.state = "skipped"]
    BY <1>3 DEF Triaged
  <2> HIDE DEF c
  <2>. QED
    BY <2>1, <1>1 DEF Continues, HandedOff, Row, RowOK, NoLead
<1>4. CASE ~(t.fault = "early" \/ Unusable(t.found)) /\ Hot(t.found)
  <2>1. CASE t.fault = "none"
    <3>1. Triaged(l, t) = m
      BY <1>4, <2>1 DEF Triaged
    <3> HIDE DEF c
    <3>2. "none" \in ConversionFaults
      BY DEF ConversionFaults
    <3>. QED
      BY <3>1, <3>2, <2>1, <1>1, ConvertedContinues DEF Continues
  <2>2. CASE t.fault # "none" /\ t.fault \in ConversionFaults
    <3>1. Triaged(l, t) = [m EXCEPT !.state = "error"]
      BY <1>4, <2>2 DEF Triaged
    <3> HIDE DEF c
    <3>2. Continues(c, m)
      BY <2>2, <1>1, ConvertedContinues
    <3> HIDE DEF m
    <3>. QED
      BY <3>1, <3>2, <1>1 DEF Continues, HandedOff, Row, RowOK, NoLead
  <2>3. CASE t.fault = "copy"
    <3>1. Triaged(l, t) = [m EXCEPT !.state = "error"]
      BY <1>4, <2>3 DEF Triaged
    <3> HIDE DEF c
    <3>2. m = Converted(c, "none")
      BY <2>3 DEF Converted
    <3>3. Continues(c, m)
      BY <3>2, <1>1, ConvertedContinues DEF ConversionFaults
    <3> HIDE DEF m
    <3>. QED
      BY <3>1, <3>3, <1>1 DEF Continues, HandedOff, Row, RowOK, NoLead
  <2>. QED
    BY <1>0, <1>4, <2>1, <2>2, <2>3 DEF TriageRuns
<1>. QED
  BY <1>2, <1>3, <1>4
-----------------------------------------------------------------------------
(***************************************************************************)
(* The requests that are left when one ends or commits.                    *)
(***************************************************************************)

LEMMA RequestFields ==
  ASSUME TypeOK, NEW w \in Workers
  PROVE  /\ Admitting(w) => /\ req[w].delivery \in Deliveries
                            /\ KeyOf[req[w].delivery] \in Keys
                            /\ req[w].inserted \in BOOLEAN
         /\ req[w].op \in AllOps => req[w].key \in Keys /\ ~Admitting(w)
<1>1. req[w] \in Requests
  BY DEF TypeOK
<1>2. CASE req[w] = Idle
  BY <1>2 DEF Idle, Admitting, AllOps
<1>3. CASE req[w] \in [op : {"admit"}, delivery : Deliveries, inserted : BOOLEAN,
          seen : {Submission[d] : d \in Deliveries} \cup {NoSubmission, Unseen}]
  BY <1>3, DeliveryAssumption DEF Admitting, AllOps
<1>4. CASE req[w] \in [op : AllOps, key : Keys, stale : BOOLEAN]
  BY <1>4 DEF Admitting, AllOps
<1>. QED
  BY <1>1, <1>2, <1>3, <1>4 DEF Requests

(* w's request has ended, the admissions of the others are as they were.    *)
Dropped(w) ==
  /\ req' \in [Workers -> Requests]
  /\ \A v \in Workers : Admitting(v)' => v # w /\ req'[v] = req[v]

LEMMA EndDrops ==
  ASSUME TypeOK, NEW w \in Workers, End(w)
  PROVE  Dropped(w)
  BY DEF TypeOK, End, Dropped, Requests, Admitting, Idle

LEMMA DoomedDrops ==
  ASSUME TypeOK, NEW w \in Workers, NEW k \in Keys, req' = Doomed(w, k)
  PROVE  Dropped(w)
<1>1. ASSUME NEW v \in Workers
      PROVE  req'[v] \in Requests /\ (Admitting(v)' => v # w /\ req'[v] = req[v])
  <2>1. CASE v = w
    <3>1. req'[v] = Idle
      BY <2>1 DEF Doomed
    <3>. QED
      BY <3>1 DEF Idle, Requests, Admitting
  <2>2. CASE v # w /\ req[v].op \in AllOps /\ req[v].key = k
    <3>1. req'[v] = [req[v] EXCEPT !.stale = TRUE]
      BY <2>2 DEF Doomed
    <3>2. req[v] \in [op : AllOps, key : Keys, stale : BOOLEAN]
      BY <2>2 DEF TypeOK, Requests, Idle, AllOps
    <3>. QED
      BY <3>1, <3>2 DEF Requests, Admitting, AllOps
  <2>3. CASE v # w /\ ~(req[v].op \in AllOps /\ req[v].key = k)
    <3>1. req'[v] = req[v]
      BY <2>3 DEF Doomed
    <3>. QED
      BY <3>1, <2>3 DEF TypeOK
  <2>. QED
    BY <2>1, <2>2, <2>3
<1>2. req' = [v \in Workers |-> req'[v]]
  BY DEF Doomed
<1>. QED
  BY <1>1, <1>2 DEF Dropped

(* No admission but w's has inserted k.                                    *)
Alone(w, k) ==
  \A v \in Workers \ {w} :
    Admitting(v) /\ req[v].inserted => KeyOf[req[v].delivery] # k

LEMMA ExistingIsAlone ==
  ASSUME AdmissionsOK, NEW k \in Keys, Exists(k), NEW w \in Workers
  PROVE  Alone(w, k)
  BY DEF AdmissionsOK, Alone

LEMMA AdmissionsKept ==
  ASSUME TypeOK, AdmissionsOK, NEW w \in Workers, NEW k \in Keys, Dropped(w),
         \A j \in Keys \ {k} : lead'[j] = lead[j],
         lead[k].state # "absent" => lead'[k].state # "absent",
         Exists(k)' => Alone(w, k)
  PROVE  AdmissionsOK'
<1>1. ASSUME NEW v \in Workers, Admitting(v)'
      PROVE  /\ v # w /\ req'[v] = req[v] /\ Admitting(v)
             /\ KeyOf[req[v].delivery] \in Keys
  BY <1>1, RequestFields DEF Dropped, Admitting
<1>2. ASSUME NEW v \in Workers, Admitting(v)', req'[v].inserted
      PROVE  ~Exists(KeyOf[req[v].delivery])'
  BY <1>1, <1>2 DEF AdmissionsOK, Exists, Alone
<1>3. ASSUME NEW u \in Workers, NEW v \in Workers, u # v,
             Admitting(u)', req'[u].inserted, Admitting(v)', req'[v].inserted
      PROVE  KeyOf[req'[u].delivery] # KeyOf[req'[v].delivery]
  BY <1>1, <1>3 DEF AdmissionsOK
<1>4. ASSUME NEW v \in Workers, Admitting(v)', req'[v].seen # Unseen
      PROVE  lead'[KeyOf[req'[v].delivery]].state # "absent"
  BY <1>1, <1>4 DEF AdmissionsOK
<1>. QED
  BY <1>2, <1>3, <1>4 DEF AdmissionsOK

-----------------------------------------------------------------------------
(***************************************************************************)
(* The invariant, step by step.                                            *)
(***************************************************************************)

LEMMA InitKeeps == Init => IInv
<1> SUFFICES ASSUME Init PROVE IInv
  OBVIOUS
<1>1. NoRow \in Row /\ RowOK(NoRow) /\ NoRow.intake = FALSE /\ NoRow.crm = FALSE
      /\ NoRow.state = "absent"
  BY DEF NoRow, Row, RowOK, NoLead
<1> HIDE DEF NoRow
<1>2. TypeOK
  BY <1>1, WebLeadBoundAssumption DEF Init, TypeOK, Requests
<1>3. OneConversion /\ RowsOK /\ ConvertedIsHandedOff
  BY <1>1 DEF Init, OneConversion, RowsOK, ConvertedIsHandedOff
<1>4. AdmissionsOK
  BY DEF Init, AdmissionsOK, Admitting, Idle
<1>. QED
  BY <1>2, <1>3, <1>4 DEF IInv

(* What a step leaves in the two counters of faults and edits, and in what  *)
(* the senders know.                                                       *)
Bounded ==
  /\ delivery' \in [Deliveries -> {"none", "accepted", "refused"}]
  /\ faults' \in 0..MaxFaults /\ edits' \in 0..MaxEdits

(* A request that ends without effect on the leads.                        *)
LEMMA EndKeeps ==
  ASSUME IInv, NEW w \in Workers, End(w), Bounded,
         UNCHANGED <<lead, intakes, crmLeads, bulkFailed>>
  PROVE  IInv'
<1>1. Dropped(w)
  BY EndDrops DEF IInv
<1>2. TypeOK'
  BY <1>1 DEF IInv, TypeOK, Dropped, Bounded
<1>3. OneConversion' /\ RowsOK' /\ ConvertedIsHandedOff'
  BY DEF IInv, OneConversion, RowsOK, RowOK, ConvertedIsHandedOff
<1>4. AdmissionsOK'
  BY <1>1, RequestFields DEF IInv, AdmissionsOK, Dropped, Admitting, Exists
<1>. QED
  BY <1>2, <1>3, <1>4 DEF IInv

(* A transaction that leaves a live lead with key k, and no less converted. *)
LEMMA CommitKeeps ==
  ASSUME IInv, NEW w \in Workers, NEW k \in Keys, NEW m, Commit(w, k, m), Bounded,
         Alone(w, k), Continues(lead[k], m),
         bulkFailed \subseteq bulkFailed', bulkFailed' \subseteq Keys,
         k \notin bulkFailed' => HandedOff(m)
  PROVE  IInv'
<1>1. Dropped(w)
  BY DoomedDrops DEF IInv, Commit
<1>2. /\ lead \in [Keys -> Row] /\ lead' = [lead EXCEPT ![k] = m] /\ m \in Row
      /\ intakes \in [Keys -> Nat] /\ crmLeads \in [Keys -> Nat]
      /\ intakes' = [intakes EXCEPT ![k] = @ + (IF MakesIntake(lead[k], m) THEN 1 ELSE 0)]
      /\ crmLeads' = [crmLeads EXCEPT ![k] = @ + (IF MakesCrmLead(lead[k], m) THEN 1 ELSE 0)]
  BY DEF Commit, IInv, TypeOK, Continues
<1>3. TypeOK'
  <2>1. lead' \in [Keys -> Row]
    BY <1>2
  <2>2. intakes' \in [Keys -> Nat] /\ crmLeads' \in [Keys -> Nat]
    BY <1>2
  <2>. QED
    BY <1>1, <2>1, <2>2 DEF TypeOK, Dropped, Bounded
<1>4. OneConversion'
  <2>1. /\ intakes'[k] = IF m.intake THEN 1 ELSE 0
        /\ crmLeads'[k] = IF m.crm THEN 1 ELSE 0
    BY <1>2 DEF IInv, OneConversion, Continues, MakesIntake, MakesCrmLead, Row
  <2>2. \A j \in Keys \ {k} : /\ lead'[j] = lead[j] /\ intakes'[j] = intakes[j]
                              /\ crmLeads'[j] = crmLeads[j]
    BY <1>2
  <2>3. lead'[k] = m
    BY <1>2
  <2>. QED
    BY <2>1, <2>2, <2>3 DEF IInv, OneConversion
<1>5. RowsOK'
  <2>1. \A j \in Keys : lead'[j] = IF j = k THEN m ELSE lead[j]
    BY <1>2
  <2>. QED
    BY <2>1 DEF IInv, RowsOK, RowOK, Continues
<1>6. ConvertedIsHandedOff'
  <2>1. \A j \in Keys : lead'[j] = IF j = k THEN m ELSE lead[j]
    BY <1>2
  <2>. QED
    BY <2>1 DEF IInv, ConvertedIsHandedOff, HandedOff
<1>7. AdmissionsOK'
  <2>1. \A j \in Keys \ {k} : lead'[j] = lead[j]
    BY <1>2
  <2>2. lead'[k].state # "absent"
    BY <1>2 DEF Continues, NoLead
  <2>. QED
    BY <1>1, <2>1, <2>2, AdmissionsKept DEF IInv
<1>. QED
  BY <1>3, <1>4, <1>5, <1>6, <1>7 DEF IInv
LEMMA BeginAdmitKeeps ==
  ASSUME IInv, NEW w \in Workers, NEW d \in Deliveries, BeginAdmit(w, d)
  PROVE  IInv'
<1> DEFINE k == KeyOf[d]
           r == [op |-> "admit", delivery |-> d, inserted |-> FALSE,
                 seen |-> IF Exists(k) THEN lead[k].submission ELSE Unseen]
<1>1. k \in Keys
  BY DeliveryAssumption
<1>2. /\ req' = [req EXCEPT ![w] = r]
      /\ UNCHANGED <<lead, intakes, crmLeads, delivery, faults, edits, bulkFailed>>
  BY Zenon DEF BeginAdmit
<1>3. /\ r \in Requests /\ r.op = "admit" /\ r.inserted = FALSE /\ r.delivery = d
      /\ r.seen # Unseen => lead[k].state # "absent"
  BY <1>1 DEF IInv, TypeOK, Row, Requests, Exists, NoLead
<1> HIDE DEF r, k
<1>4. \A v \in Workers : req'[v] = IF v = w THEN r ELSE req[v]
  BY <1>2 DEF IInv, TypeOK
<1>5. TypeOK'
  BY <1>2, <1>3 DEF IInv, TypeOK
<1>6. OneConversion' /\ RowsOK' /\ ConvertedIsHandedOff'
  BY <1>2 DEF IInv, OneConversion, RowsOK, RowOK, ConvertedIsHandedOff
<1>7. AdmissionsOK'
  BY <1>2, <1>3, <1>4 DEF IInv, AdmissionsOK, Admitting, Exists, k
<1>. QED
  BY <1>5, <1>6, <1>7 DEF IInv

LEMMA BeginUserKeeps ==
  ASSUME IInv, NEW w \in Workers, NEW op \in Ops, NEW k \in Keys, BeginUser(w, op, k)
  PROVE  IInv'
<1> DEFINE r == [op |-> op, key |-> k, stale |-> FALSE]
<1>1. /\ req' = [req EXCEPT ![w] = r]
      /\ edits < MaxEdits /\ edits' = edits + 1
      /\ UNCHANGED <<lead, intakes, crmLeads, delivery, faults, bulkFailed>>
  BY DEF BeginUser
<1>2. r \in Requests /\ r.op # "admit"
  BY WebLeadOpsAssumption DEF Requests, AllOps
<1> HIDE DEF r
<1>3. \A v \in Workers : req'[v] = IF v = w THEN r ELSE req[v]
  BY <1>1 DEF IInv, TypeOK
<1>4. TypeOK'
  BY <1>1, <1>2, WebLeadBoundAssumption DEF IInv, TypeOK
<1>5. OneConversion' /\ RowsOK' /\ ConvertedIsHandedOff'
  BY <1>1 DEF IInv, OneConversion, RowsOK, RowOK, ConvertedIsHandedOff
<1>6. AdmissionsOK'
  BY <1>1, <1>2, <1>3 DEF IInv, AdmissionsOK, Admitting, Exists
<1>. QED
  BY <1>4, <1>5, <1>6 DEF IInv

(* The insert waits for other inserters of the key, so w is alone.          *)
LEMMA InsertKeeps ==
  ASSUME IInv, NEW w \in Workers, Insert(w)
  PROVE  IInv'
<1>1. /\ req' = [req EXCEPT ![w].inserted = TRUE]
      /\ UNCHANGED <<lead, intakes, crmLeads, delivery, faults, edits, bulkFailed>>
      /\ Admitting(w) /\ ~Exists(KeyOf[req[w].delivery])
      /\ \A v \in Workers \ {w} : Admitting(v) /\ req[v].inserted =>
            KeyOf[req[v].delivery] # KeyOf[req[w].delivery]
  BY DEF Insert, InsertReady
<1> DEFINE r == [req[w] EXCEPT !.inserted = TRUE]
<1>2. req[w] \in [op : {"admit"}, delivery : Deliveries, inserted : BOOLEAN,
          seen : {Submission[d] : d \in Deliveries} \cup {NoSubmission, Unseen}]
  BY <1>1 DEF IInv, TypeOK, Requests, Admitting, Idle, AllOps
<1>3. /\ r \in Requests /\ r.op = "admit" /\ r.delivery = req[w].delivery
      /\ r.seen = req[w].seen
  BY <1>2 DEF Requests
<1>4. \A v \in Workers : req'[v] = IF v = w THEN r ELSE req[v]
  BY <1>1 DEF IInv, TypeOK
<1> HIDE DEF r
<1>5. TypeOK'
  <2>1. req' = [req EXCEPT ![w] = r]
    BY <1>1 DEF r
  <2>. QED
    BY <1>1, <1>3, <2>1 DEF IInv, TypeOK
<1>6. OneConversion' /\ RowsOK' /\ ConvertedIsHandedOff'
  BY <1>1 DEF IInv, OneConversion, RowsOK, RowOK, ConvertedIsHandedOff
<1>7. AdmissionsOK'
  BY <1>1, <1>3, <1>4 DEF IInv, AdmissionsOK, Admitting, Exists
<1>. QED
  BY <1>5, <1>6, <1>7 DEF IInv

LEMMA AnsweredBounded ==
  ASSUME IInv, NEW d \in Deliveries, NEW a \in {"accepted", "refused"},
         Answered(d, a), UNCHANGED edits
  PROVE  Bounded
  BY WebLeadBoundAssumption DEF Answered, Bounded, IInv, TypeOK

LEMMA FinishAdmitKeeps ==
  ASSUME IInv, NEW w \in Workers, FinishAdmit(w)
  PROVE  IInv'
<1> DEFINE d == req[w].delivery
           k == KeyOf[d]
           new == [NoRow EXCEPT !.state = "received", !.submission = Submission[d]]
<1>1. d \in Deliveries /\ k \in Keys /\ Admitting(w) /\ req[w].inserted
  BY RequestFields DEF FinishAdmit, IInv
<1>2. PICK t \in RunsOf(new) : Commit(w, k, Triaged(new, t))
  BY Zenon DEF FinishAdmit
<1>3. Bounded
  BY <1>1, AnsweredBounded DEF FinishAdmit
<1>4. new \in Row /\ RowOK(new) /\ new.state = "received"
  BY <1>1 DEF NoRow, Row, RowOK, NoLead
<1>5. Continues(new, Triaged(new, t)) /\ HandedOff(Triaged(new, t))
  <2> HIDE DEF new
  <2>. QED
    BY <1>2, <1>4, TriagedContinues DEF NoLead
<1>6. ~lead[k].intake /\ ~lead[k].crm /\ Alone(w, k)
  BY <1>1 DEF IInv, RowsOK, RowOK, AdmissionsOK, Exists, Alone
<1>7. Continues(lead[k], Triaged(new, t))
  BY <1>5, <1>6 DEF Continues
<1>8. bulkFailed' = bulkFailed /\ bulkFailed \subseteq Keys
  BY DEF FinishAdmit, IInv, TypeOK
<1> HIDE DEF new, k, d
<1>. QED
  BY <1>1, <1>2, <1>3, <1>5, <1>6, <1>7, <1>8, CommitKeeps

LEMMA EndingKeeps ==
  ASSUME IInv, NEW w \in Workers,
         Collide(w) \/ Replay(w) \/ Crash(w) \/ EndUser(w)
  PROVE  IInv'
<1>1. /\ End(w) /\ UNCHANGED <<lead, intakes, crmLeads, bulkFailed>>
  BY DEF Collide, Replay, Crash, EndUser
<1>2. Bounded
  <2>1. CASE Collide(w) \/ EndUser(w)
    BY <2>1 DEF Collide, EndUser, Bounded, IInv, TypeOK
  <2>2. CASE Replay(w)
    <3>1. req[w].delivery \in Deliveries
      BY <2>2, RequestFields DEF Replay, IInv
    <3>. QED
      BY <2>2, <3>1, AnsweredBounded DEF Replay
  <2>3. CASE Crash(w)
    BY <2>3, WebLeadBoundAssumption DEF Crash, Bounded, IInv, TypeOK
  <2>. QED
    BY <2>1, <2>2, <2>3
<1>. QED
  BY <1>1, <1>2, EndKeeps

(* A user's request that commits serves a live lead.                       *)
LEMMA ServedLead ==
  ASSUME IInv, NEW w \in Workers, NEW op \in AllOps, Serving(w, op)
  PROVE  /\ req[w].key \in Keys /\ Exists(req[w].key) /\ Alone(w, req[w].key)
         /\ lead[req[w].key] \in Row /\ RowOK(lead[req[w].key])
         /\ lead[req[w].key].state \notin NoLead
<1>1. req[w].key \in Keys /\ Exists(req[w].key)
  BY RequestFields DEF Serving, IInv
<1>. QED
  BY <1>1, ExistingIsAlone DEF IInv, TypeOK, RowsOK, Exists

(* It replaces the lead's row by m, which keeps what was made for it.       *)
Rewrites(w, k, m) ==
  /\ Commit(w, k, m) /\ Exists(k) /\ Continues(lead[k], m)
  /\ bulkFailed \subseteq bulkFailed' /\ bulkFailed' \subseteq Keys
  /\ k \notin bulkFailed' => HandedOff(m)
  /\ UNCHANGED <<delivery, faults, edits>>

RewritesOne(w) == \E k \in Keys, m \in Row : Rewrites(w, k, m)

LEMMA RewriteKeeps ==
  ASSUME IInv, NEW w \in Workers, RewritesOne(w)
  PROVE  IInv'
<1>1. PICK k \in Keys, m \in Row : Rewrites(w, k, m)
  BY DEF RewritesOne
<1>2. Bounded /\ Alone(w, k)
  BY <1>1, ExistingIsAlone DEF Rewrites, Bounded, IInv, TypeOK
<1>. QED
  BY <1>1, <1>2, CommitKeeps DEF Rewrites

LEMMA ServedRewrite ==
  ASSUME IInv, NEW w \in Workers, NEW op \in AllOps, Serving(w, op), NEW m,
         Commit(w, req[w].key, m), Continues(lead[req[w].key], m),
         UNCHANGED <<delivery, faults, edits, bulkFailed>>,
         req[w].key \notin bulkFailed => HandedOff(m)
  PROVE  RewritesOne(w)
<1>1. bulkFailed' = bulkFailed /\ bulkFailed \subseteq Keys
  BY DEF IInv, TypeOK
<1>2. m \in Row
  BY DEF Continues
<1>. QED
  BY <1>1, <1>2, ServedLead DEF RewritesOne, Rewrites

LEMMA RetryRewrites ==
  ASSUME IInv, NEW w \in Workers, Retry(w)
  PROVE  RewritesOne(w)
<1> DEFINE k == req[w].key
<1>1. PICK op \in {"retry_triage", "retry_processing"} :
        /\ Serving(w, op)
        /\ lead[k].state \in {"error", "skipped", "received"}
        /\ \E t \in RunsOf(lead[k]) : Commit(w, k, Triaged(lead[k], t))
        /\ UNCHANGED <<delivery, faults, edits, bulkFailed>>
  BY DEF Retry
<1>2. PICK t \in RunsOf(lead[k]) : Commit(w, k, Triaged(lead[k], t))
  BY <1>1
<1>3. op \in AllOps
  BY DEF AllOps
<1>4. /\ lead[k] \in Row /\ RowOK(lead[k]) /\ lead[k].state \notin NoLead
  BY <1>1, <1>3, ServedLead
<1>5. Continues(lead[k], Triaged(lead[k], t)) /\ HandedOff(Triaged(lead[k], t))
  BY <1>1, <1>4, TriagedContinues
<1>. QED
  BY <1>1, <1>2, <1>3, <1>5, ServedRewrite

(* ForceCreate, ForceHot, BulkForceHot: a conversion of a lead whose state  *)
(* may still be written.                                                    *)
LEMMA ForceRewrites ==
  ASSUME IInv, NEW w \in Workers,
         \/ ForceCreate(w) \/ ForceHot(w)
         \/ \E f \in ConversionFaults : BulkForceHot(w, f)
  PROVE  RewritesOne(w)
<1> DEFINE k == req[w].key
           hot == [lead[k] EXCEPT !.decision = "hot"]
<1>1. ASSUME NEW op \in AllOps, Serving(w, op), Writable(lead[k])
      PROVE  /\ k \in Keys /\ Alone(w, k)
             /\ lead[k] \in Row /\ RowOK(lead[k]) /\ lead[k].state \notin NoLead
             /\ hot \in Row /\ RowOK(hot) /\ hot.state = lead[k].state
             /\ hot.intake = lead[k].intake /\ hot.crm = lead[k].crm
             /\ lead[k].state # "intake_created"
  <2>1. /\ k \in Keys /\ Alone(w, k) /\ lead[k].state # "intake_created"
        /\ lead[k] \in Row /\ RowOK(lead[k]) /\ lead[k].state \notin NoLead
    BY <1>1, ServedLead DEF Writable
  <2> HIDE DEF k
  <2>. QED
    BY <2>1 DEF Row, RowOK
<1>2. CASE ForceCreate(w)
  <2>1. /\ Serving(w, "force_create") /\ Writable(lead[k]) /\ "force_create" \in AllOps
        /\ Commit(w, k, Converted(lead[k], "none"))
        /\ UNCHANGED <<delivery, faults, edits, bulkFailed>>
    BY <1>2 DEF ForceCreate, AllOps
  <2>2. /\ Continues(lead[k], Converted(lead[k], "none"))
        /\ HandedOff(Converted(lead[k], "none"))
    BY <1>1, <2>1, ConvertedContinues DEF ConversionFaults
  <2>. QED
    BY <2>1, <2>2, ServedRewrite
<1>3. CASE ForceHot(w)
  <2>1. /\ Serving(w, "force_hot") /\ Writable(lead[k]) /\ "force_hot" \in AllOps
        /\ Commit(w, k, Converted(hot, "none"))
        /\ UNCHANGED <<delivery, faults, edits, bulkFailed>>
    BY <1>3 DEF ForceHot, AllOps
  <2>2. /\ Continues(hot, Converted(hot, "none")) /\ HandedOff(Converted(hot, "none"))
        /\ hot.intake = lead[k].intake /\ hot.crm = lead[k].crm
    <3>1. /\ hot \in Row /\ RowOK(hot) /\ hot.state \notin NoLead
          /\ hot.state # "intake_created"
          /\ hot.intake = lead[k].intake /\ hot.crm = lead[k].crm
      BY <1>1, <2>1
    <3> HIDE DEF hot
    <3>. QED
      BY <3>1, ConvertedContinues DEF ConversionFaults
  <2>3. Continues(lead[k], Converted(hot, "none"))
    BY <2>2 DEF Continues
  <2>. QED
    BY <2>1, <2>2, <2>3, ServedRewrite
<1>4. CASE \E f \in ConversionFaults : BulkForceHot(w, f)
  <2>1. PICK f \in ConversionFaults : BulkForceHot(w, f)
    BY <1>4
  <2>2. /\ Serving(w, "bulk_force_hot") /\ Writable(lead[k])
        /\ "bulk_force_hot" \in AllOps
        /\ Commit(w, k, Converted(hot, f))
        /\ bulkFailed' = IF f = "none" THEN bulkFailed ELSE bulkFailed \cup {k}
        /\ UNCHANGED <<delivery, faults, edits>>
    BY <2>1 DEF BulkForceHot, AllOps
  <2>3. /\ Continues(hot, Converted(hot, f))
        /\ f = "none" => HandedOff(Converted(hot, f))
        /\ hot.intake = lead[k].intake /\ hot.crm = lead[k].crm
    <3>1. /\ hot \in Row /\ RowOK(hot) /\ hot.state \notin NoLead
          /\ hot.state # "intake_created"
          /\ hot.intake = lead[k].intake /\ hot.crm = lead[k].crm
      BY <1>1, <2>2
    <3> HIDE DEF hot
    <3>. QED
      BY <3>1, ConvertedContinues
  <2>4. Continues(lead[k], Converted(hot, f))
    BY <2>3 DEF Continues
  <2>5. k \in Keys /\ Alone(w, k)
    BY <1>1, <2>2
  <2>6. bulkFailed \subseteq Keys /\ Exists(k)
    BY <2>2, ServedLead DEF IInv, TypeOK
  <2>7. /\ bulkFailed \subseteq bulkFailed' /\ bulkFailed' \subseteq Keys
        /\ k \notin bulkFailed' => HandedOff(Converted(hot, f))
    BY <2>2, <2>3, <2>5, <2>6
  <2>8. Converted(hot, f) \in Row
    BY <2>4 DEF Continues
  <2> HIDE DEF k, hot
  <2>. QED
    BY <2>2, <2>4, <2>5, <2>6, <2>7, <2>8 DEF RewritesOne, Rewrites
<1>. QED
  BY <1>2, <1>3, <1>4

(* MarkSkipped, RouteReview, Approve, Review.                              *)
LEMMA EditRewrites ==
  ASSUME IInv, NEW w \in Workers,
         MarkSkipped(w) \/ RouteReview(w) \/ Approve(w) \/ Review(w)
  PROVE  RewritesOne(w)
<1> DEFINE k == req[w].key
<1>0. ASSUME NEW op \in AllOps, Serving(w, op)
      PROVE  /\ k \in Keys /\ lead[k] \in Row /\ RowOK(lead[k])
             /\ lead[k].state \notin NoLead
             /\ k \notin bulkFailed => HandedOff(lead[k])
  BY <1>0, ServedLead DEF IInv, ConvertedIsHandedOff, HandedOff
<1>1. CASE MarkSkipped(w)
  <2> DEFINE m == [lead[k] EXCEPT !.state = "skipped", !.decision = "cold"]
  <2>1. Serving(w, "mark_skipped") /\ "mark_skipped" \in AllOps /\ Commit(w, k, m)
        /\ UNCHANGED <<delivery, faults, edits, bulkFailed>>
    BY <1>1 DEF MarkSkipped, AllOps
  <2>2. Continues(lead[k], m) /\ HandedOff(m)
    BY <1>0, <2>1 DEF Continues, HandedOff, Row, RowOK, NoLead
  <2> HIDE DEF m
  <2>. QED
    BY <2>1, <2>2, ServedRewrite
<1>2. CASE RouteReview(w)
  <2> DEFINE m == [lead[k] EXCEPT !.handoff = TRUE]
  <2>1. Serving(w, "route_review") /\ "route_review" \in AllOps /\ Commit(w, k, m)
        /\ UNCHANGED <<delivery, faults, edits, bulkFailed>>
    BY <1>2 DEF RouteReview, AllOps
  <2>2. Continues(lead[k], m) /\ (k \notin bulkFailed => HandedOff(m))
    BY <1>0, <2>1 DEF Continues, HandedOff, Row, RowOK, NoLead
  <2> HIDE DEF m
  <2>. QED
    BY <2>1, <2>2, ServedRewrite
<1>3. CASE Approve(w)
  <2> DEFINE m == [lead[k] EXCEPT !.review = "approved", !.snapshot = lead[k].evidence]
  <2>1. Serving(w, "approve") /\ "approve" \in AllOps /\ Commit(w, k, m)
        /\ lead[k].intake /\ lead[k].assessed
        /\ UNCHANGED <<delivery, faults, edits, bulkFailed>>
    BY <1>3 DEF Approve, AllOps
  <2>2. Continues(lead[k], m) /\ (k \notin bulkFailed => HandedOff(m))
    BY <1>0, <2>1 DEF Continues, HandedOff, Row, RowOK, NoLead
  <2> HIDE DEF m
  <2>. QED
    BY <2>1, <2>2, ServedRewrite
<1>4. CASE Review(w)
  <2>1. PICK op \in {"clarify", "reject"} :
          /\ Serving(w, op)
          /\ Commit(w, k, [lead[k] EXCEPT !.review =
               IF op = "clarify" THEN "clarification_required" ELSE "rejected"])
          /\ UNCHANGED <<delivery, faults, edits, bulkFailed>>
    BY <1>4 DEF Review
  <2> DEFINE r == IF op = "clarify" THEN "clarification_required" ELSE "rejected"
             m == [lead[k] EXCEPT !.review = r]
  <2>2. op \in AllOps
    BY DEF AllOps
  <2>3. r \in {"clarification_required", "rejected"}
    OBVIOUS
  <2>4. Serving(w, op) /\ Commit(w, k, m)
        /\ UNCHANGED <<delivery, faults, edits, bulkFailed>>
    BY <2>1
  <2> HIDE DEF r
  <2>5. Continues(lead[k], m) /\ (k \notin bulkFailed => HandedOff(m))
    BY <1>0, <2>2, <2>3, <2>4 DEF Continues, HandedOff, Row, RowOK, NoLead
  <2> HIDE DEF m
  <2>. QED
    BY <2>2, <2>4, <2>5, ServedRewrite
<1>. QED
  BY <1>1, <1>2, <1>3, <1>4

(* A lead that is deleted leaves nothing that counts.                       *)
LEMMA UnlinkKeeps ==
  ASSUME IInv, NEW w \in Workers, Unlink(w)
  PROVE  IInv'
<1>0. PICK k \in Keys : k = req[w].key
  BY RequestFields DEF Unlink, Serving, IInv, AllOps
<1> DEFINE gone == [NoRow EXCEPT !.state = "deleted"]
<1>1. /\ Serving(w, "unlink") /\ "unlink" \in AllOps
      /\ lead' = [lead EXCEPT ![k] = gone]
      /\ intakes' = [intakes EXCEPT ![k] = 0] /\ crmLeads' = [crmLeads EXCEPT ![k] = 0]
      /\ req' = Doomed(w, k) /\ bulkFailed' = bulkFailed \ {k}
      /\ UNCHANGED <<delivery, faults, edits>>
  BY <1>0 DEF Unlink, AllOps
<1>2. Exists(k)
  BY <1>0, <1>1, ServedLead
<1>3. /\ gone \in Row /\ RowOK(gone) /\ gone.intake = FALSE /\ gone.crm = FALSE
      /\ gone.state = "deleted"
  BY DEF NoRow, Row, RowOK, NoLead
<1> HIDE DEF gone
<1>4. Dropped(w)
  BY <1>1, <1>2, DoomedDrops DEF IInv
<1>5. \A j \in Keys : /\ lead'[j] = IF j = k THEN gone ELSE lead[j]
                      /\ intakes'[j] = IF j = k THEN 0 ELSE intakes[j]
                      /\ crmLeads'[j] = IF j = k THEN 0 ELSE crmLeads[j]
  BY <1>1 DEF IInv, TypeOK
<1>6. TypeOK'
  BY <1>1, <1>2, <1>3, <1>4 DEF IInv, TypeOK, Dropped
<1>7. OneConversion'
  BY <1>3, <1>5 DEF IInv, OneConversion
<1>8. RowsOK' /\ ConvertedIsHandedOff'
  BY <1>1, <1>3, <1>5 DEF IInv, RowsOK, RowOK, ConvertedIsHandedOff
<1>9. AdmissionsOK'
  <2>1. /\ \A j \in Keys \ {k} : lead'[j] = lead[j]
        /\ lead'[k].state # "absent" /\ ~Exists(k)'
    BY <1>2, <1>3, <1>5 DEF Exists, NoLead
  <2>. QED
    BY <1>2, <1>4, <2>1, AdmissionsKept DEF IInv
<1>. QED
  BY <1>6, <1>7, <1>8, <1>9 DEF IInv

(* A snapshot keeps the intake, so no approval loses the one it binds.      *)
LEMMA DeleteIntakeKeeps ==
  ASSUME IInv, NEW w \in Workers, DeleteIntake(w)
  PROVE  IInv'
<1>0. PICK k \in Keys : k = req[w].key
  BY RequestFields DEF DeleteIntake, Serving, IInv, AllOps
<1> DEFINE m == [lead[k] EXCEPT !.intake = FALSE]
<1>1. /\ Serving(w, "delete_intake") /\ "delete_intake" \in AllOps
      /\ lead[k].intake /\ lead[k].snapshot = 0
      /\ lead' = [lead EXCEPT ![k] = m]
      /\ intakes' = [intakes EXCEPT ![k] = @ - 1]
      /\ req' = Doomed(w, k)
      /\ UNCHANGED <<crmLeads, delivery, faults, edits, bulkFailed>>
  BY <1>0 DEF DeleteIntake, AllOps
<1>2. Exists(k) /\ Alone(w, k) /\ lead[k] \in Row /\ RowOK(lead[k])
  BY <1>0, <1>1, ServedLead
<1>3. /\ m \in Row /\ m.intake = FALSE /\ m.state = lead[k].state /\ m.crm = lead[k].crm
      /\ m.handoff = lead[k].handoff /\ RowOK(m)
  <2>1. m \in Row
    BY <1>2 DEF Row
  <2>2. /\ m.intake = FALSE /\ m.state = lead[k].state /\ m.crm = lead[k].crm
        /\ m.handoff = lead[k].handoff /\ m.review = lead[k].review
        /\ m.assessed = lead[k].assessed /\ m.evidence = lead[k].evidence
    BY <1>2 DEF Row
  <2> HIDE DEF m
  <2>. QED
    BY <1>1, <1>2, <2>1, <2>2 DEF RowOK, Exists
<1>4. intakes[k] = 1
  BY <1>1, <1>2 DEF IInv, OneConversion
<1> HIDE DEF m
<1>5. Dropped(w)
  BY <1>1, <1>2, DoomedDrops DEF IInv
<1>6. \A j \in Keys : /\ lead'[j] = IF j = k THEN m ELSE lead[j]
                      /\ intakes'[j] = IF j = k THEN 0 ELSE intakes[j]
  BY <1>1, <1>2, <1>4 DEF IInv, TypeOK
<1>7. TypeOK'
  <2>1. intakes' \in [Keys -> Nat]
    BY <1>1, <1>4 DEF IInv, TypeOK
  <2>2. lead' \in [Keys -> Row]
    BY <1>1, <1>3 DEF IInv, TypeOK
  <2>. QED
    BY <1>1, <1>5, <2>1, <2>2 DEF IInv, TypeOK, Dropped
<1>8. OneConversion'
  BY <1>1, <1>3, <1>6 DEF IInv, OneConversion
<1>9. RowsOK' /\ ConvertedIsHandedOff'
  BY <1>1, <1>3, <1>6 DEF IInv, RowsOK, RowOK, ConvertedIsHandedOff
<1>10. AdmissionsOK'
  <2>1. /\ \A j \in Keys \ {k} : lead'[j] = lead[j]
        /\ lead'[k].state # "absent"
    BY <1>2, <1>3, <1>6 DEF Exists, NoLead
  <2>. QED
    BY <1>2, <1>5, <2>1, AdmissionsKept DEF IInv
<1>. QED
  BY <1>7, <1>8, <1>9, <1>10 DEF IInv

LEMMA StepKeeps == IInv /\ [Next]_vars => IInv'
<1> SUFFICES ASSUME IInv, [Next]_vars PROVE IInv'
  OBVIOUS
<1>1. CASE UNCHANGED vars
  BY <1>1 DEF vars, IInv, TypeOK, OneConversion, RowsOK, RowOK, ConvertedIsHandedOff,
     AdmissionsOK, Admitting, Exists
<1>2. CASE Next
  <2>1. PICK w \in Workers :
          \/ \E d \in Deliveries : BeginAdmit(w, d)
          \/ \E op \in Ops, k \in Keys : BeginUser(w, op, k)
          \/ Admission(w) \/ UserStep(w) \/ Crash(w)
    BY <1>2 DEF Next
  <2>2. CASE \E d \in Deliveries : BeginAdmit(w, d)
    BY <2>2, BeginAdmitKeeps
  <2>3. CASE \E op \in Ops, k \in Keys : BeginUser(w, op, k)
    BY <2>3, BeginUserKeeps
  <2>4. CASE Admission(w) \/ Crash(w)
    BY <2>4, InsertKeeps, FinishAdmitKeeps, EndingKeeps DEF Admission
  <2>5. CASE UserStep(w)
    BY <2>5, EndingKeeps, UnlinkKeeps, DeleteIntakeKeeps, RewriteKeeps, EditRewrites,
       RetryRewrites, ForceRewrites DEF UserStep
  <2>. QED
    BY <2>1, <2>2, <2>3, <2>4, <2>5
<1>. QED
  BY <1>1, <1>2
LEMMA Invariance == Spec => []IInv
<1>1. Init => IInv
  BY InitKeeps
<1>2. IInv /\ [Next]_vars => IInv'
  BY StepKeeps
<1>. QED
  BY <1>1, <1>2, PTL DEF Spec

(* Every variable has its type.                                            *)
THEOREM TypeCorrect == Spec => []TypeOK
<1>1. IInv => TypeOK
  BY DEF IInv
<1>. QED
  BY <1>1, Invariance, PTL

(* Admission, retry, the users' overrides and the deletion of an intake may *)
(* race in any number: a lead has one live intake exactly while it is       *)
(* linked to one, and one CRM lead exactly while it is linked to one        *)
(* (web_lead.py:1103, crm_bridge web_lead.py:20).                           *)
THEOREM OneConversionEach == Spec => []OneConversion
<1>1. IInv => OneConversion
  BY DEF IInv
<1>. QED
  BY <1>1, Invariance, PTL

(* A standing approval binds the evidence the lead has now, and its intake. *)
THEOREM ApprovalStaysCurrent == Spec => []ApprovalIsCurrent
<1>1. IInv => ApprovalIsCurrent
  BY DEF IInv, RowsOK, RowOK, ApprovalIsCurrent
<1>. QED
  BY <1>1, Invariance, PTL

(* A converted lead was handed to a reviewer and to the CRM, wherever the   *)
(* conversion raised, unless a bulk action listed it among its errors.      *)
THEOREM ConversionHandsOff == Spec => []ConvertedIsHandedOff
<1>1. IInv => ConvertedIsHandedOff
  BY DEF IInv
<1>. QED
  BY <1>1, Invariance, PTL

-----------------------------------------------------------------------------
(***************************************************************************)
(* The refinement: what each step is, seen from the promise.               *)
(***************************************************************************)

ReceiptFor(l, n) ==
  CASE l.state = "absent" -> "none"
    [] l.state = "deleted" -> "withdrawn"
    [] l.state \notin NoLead /\ n = 0 -> "open"
    [] l.state \notin NoLead /\ n = 1 -> "converted"
    [] OTHER -> "converted twice"

LEMMA ReceiptForLead ==
  ASSUME NEW l, NEW n, n = IF l.intake THEN 1 ELSE 0
  PROVE  ReceiptFor(l, n) = IF l.state = "absent" THEN "none"
                            ELSE IF l.state = "deleted" THEN "withdrawn"
                            ELSE IF l.intake THEN "converted" ELSE "open"
<1>1. CASE l.state = "absent"
  BY <1>1 DEF ReceiptFor, NoLead
<1>2. CASE l.state = "deleted"
  BY <1>2 DEF ReceiptFor, NoLead
<1>3. CASE l.state \notin NoLead /\ l.intake
  <2>1. n = 1
    BY <1>3
  <2>. QED
    BY <1>3, <2>1 DEF ReceiptFor, NoLead
<1>4. CASE l.state \notin NoLead /\ ~l.intake
  <2>1. n = 0
    BY <1>4
  <2>. QED
    BY <1>4, <2>1 DEF ReceiptFor, NoLead
<1>. QED
  BY <1>1, <1>2, <1>3, <1>4 DEF NoLead

LEMMA ReceiptValues == Receipt = [k \in Keys |-> ReceiptFor(lead[k], intakes[k])]
  BY DEF Receipt, ReceiptFor, Exists

LEMMA ReceiptOf ==
  ASSUME IInv, NEW k \in Keys
  PROVE  Receipt[k] = IF lead[k].state = "absent" THEN "none"
                      ELSE IF lead[k].state = "deleted" THEN "withdrawn"
                      ELSE IF lead[k].intake THEN "converted" ELSE "open"
<1>1. Receipt[k] = ReceiptFor(lead[k], intakes[k])
  BY ReceiptValues
<1>2. intakes[k] = IF lead[k].intake THEN 1 ELSE 0
  BY DEF IInv, OneConversion
<1>. QED
  BY <1>1, <1>2, ReceiptForLead

LEMMA ReceiptAfter ==
  ASSUME IInv', NEW k \in Keys
  PROVE  Receipt'[k] = IF lead'[k].state = "absent" THEN "none"
                       ELSE IF lead'[k].state = "deleted" THEN "withdrawn"
                       ELSE IF lead'[k].intake THEN "converted" ELSE "open"
<1>1. Receipt' = [j \in Keys |-> ReceiptFor(lead'[j], intakes'[j])]
  BY DEF Receipt, ReceiptFor, Exists
<1>2. Receipt'[k] = ReceiptFor(lead'[k], intakes'[k])
  BY <1>1
<1>3. intakes'[k] = IF lead'[k].intake THEN 1 ELSE 0
  BY DEF IInv, OneConversion
<1>. QED
  BY <1>2, <1>3, ReceiptForLead

LEMMA ReceiptIsFunction == Receipt = [k \in Keys |-> Receipt[k]]
  BY DEF Receipt

(* A step on the lead of one key changes one receipt.                       *)
LEMMA ReceiptsElsewhere ==
  ASSUME NEW k \in Keys,
         \A j \in Keys \ {k} : lead'[j] = lead[j] /\ intakes'[j] = intakes[j]
  PROVE  Receipt' = [Receipt EXCEPT ![k] = Receipt'[k]]
<1>1. Receipt' = [j \in Keys |-> ReceiptFor(lead'[j], intakes'[j])]
  BY DEF Receipt, ReceiptFor, Exists
<1>. QED
  BY <1>1, ReceiptValues

LEMMA CommitElsewhere ==
  ASSUME IInv, NEW w \in Workers, NEW k \in Keys, NEW m, Commit(w, k, m)
  PROVE  /\ \A j \in Keys \ {k} : lead'[j] = lead[j] /\ intakes'[j] = intakes[j]
         /\ lead'[k] = m
  BY DEF Commit, IInv, TypeOK

LEMMA InitPromised == Init => Promise!Init
<1> SUFFICES ASSUME Init PROVE Promise!Init
  OBVIOUS
<1>1. NoRow.state = "absent" /\ NoRow.intake = FALSE
  BY DEF NoRow
<1> HIDE DEF NoRow
<1>2. ASSUME NEW k \in Keys PROVE ReceiptFor(lead[k], intakes[k]) = "none"
  BY <1>1, ReceiptForLead DEF Init
<1>3. Receipt = [k \in Keys |-> "none"]
  BY <1>2, ReceiptValues
<1>. QED
  BY <1>3 DEF Init, Promise!Init

LEMMA AnsweredDelivery ==
  ASSUME IInv, NEW d \in Deliveries, NEW a \in {"accepted", "refused"}, Answered(d, a)
  PROVE  \/ delivery[d] = "none" /\ delivery' = [delivery EXCEPT ![d] = a]
         \/ UNCHANGED delivery
<1>1. CASE delivery[d] = "none" /\ delivery' = [delivery EXCEPT ![d] = IF @ = "none" THEN a ELSE @]
  BY <1>1
<1>2. CASE delivery[d] # "none" /\ delivery' = [delivery EXCEPT ![d] = IF @ = "none" THEN a ELSE @]
  BY <1>2 DEF IInv, TypeOK
<1>3. CASE UNCHANGED delivery
  BY <1>3
<1>. QED
  BY <1>1, <1>2, <1>3 DEF Answered

Promised == Promise!Next \/ UNCHANGED <<Receipt, delivery>>

LEMMA FinishAdmitPromised ==
  ASSUME IInv, IInv', NEW w \in Workers, FinishAdmit(w)
  PROVE  Promised
<1>0. PICK d \in Deliveries : d = req[w].delivery
  BY RequestFields DEF FinishAdmit, IInv
<1> DEFINE new == [NoRow EXCEPT !.state = "received", !.submission = Submission[d]]
<1>1. PICK k \in Keys : k = KeyOf[d]
  BY DeliveryAssumption
<1>2. PICK t \in RunsOf(new) : Commit(w, k, Triaged(new, t))
  BY <1>0, <1>1, Zenon DEF FinishAdmit
<1>3. ~Exists(k)
  BY <1>0, <1>1 DEF FinishAdmit, IInv, AdmissionsOK
<1>4. Triaged(new, t).state \notin NoLead
  <2>1. new \in Row /\ RowOK(new) /\ new.state = "received"
    BY DEF NoRow, Row, RowOK, NoLead
  <2> HIDE DEF new
  <2>. QED
    BY <1>2, <2>1, TriagedContinues DEF Continues, NoLead
<1>5. Receipt[k] \in {"none", "withdrawn"}
  BY <1>3, ReceiptOf DEF Exists, NoLead
<1>6. Receipt'[k] \in {"open", "converted"}
  <2>1. lead'[k].state \notin NoLead
    BY <1>2, <1>4, CommitElsewhere
  <2>2. Receipt'[k] = IF lead'[k].state = "absent" THEN "none"
                      ELSE IF lead'[k].state = "deleted" THEN "withdrawn"
                      ELSE IF lead'[k].intake THEN "converted" ELSE "open"
    BY ReceiptAfter
  <2>. QED
    BY <2>1, <2>2 DEF NoLead
<1>7. Receipt' = [Receipt EXCEPT ![k] = Receipt'[k]]
  BY <1>2, CommitElsewhere, ReceiptsElsewhere
<1>8. \/ delivery[d] = "none" /\ delivery' = [delivery EXCEPT ![d] = "accepted"]
      \/ UNCHANGED delivery
  BY <1>0, AnsweredDelivery DEF FinishAdmit
<1>9. Promise!Admit(d)
  BY <1>1, <1>5, <1>6, <1>7, <1>8 DEF Promise!Admit
<1>. QED
  BY <1>9 DEF Promised, Promise!Next

(* What a replay found is still there, whatever became of it.               *)
LEMMA ReplayPromised ==
  ASSUME IInv, NEW w \in Workers, Replay(w)
  PROVE  Promised
<1>0. PICK d \in Deliveries : d = req[w].delivery
  BY RequestFields DEF Replay, IInv
<1>1. PICK k \in Keys : k = KeyOf[d]
  BY DeliveryAssumption
<1>2. UNCHANGED Receipt
  BY DEF Replay, Receipt, Exists
<1>3. Receipt[k] # "none"
  BY <1>0, <1>1, ReceiptOf DEF Replay, IInv, AdmissionsOK
<1>4. PICK a \in {"accepted", "refused"} : Answered(d, a)
  BY <1>0 DEF Replay
<1>5. \/ delivery[d] = "none" /\ delivery' = [delivery EXCEPT ![d] = a]
      \/ UNCHANGED delivery
  BY <1>4, AnsweredDelivery
<1>. QED
  BY <1>1, <1>2, <1>3, <1>5 DEF Promised, Promise!Next, Promise!Answer

(* A user's commit converts the lead or leaves its receipt.                 *)
LEMMA RewritePromised ==
  ASSUME IInv, IInv', NEW w \in Workers, RewritesOne(w)
  PROVE  Promised
<1>0. PICK k \in Keys, m \in Row : Rewrites(w, k, m)
  BY DEF RewritesOne
<1>1. lead'[k] = m /\ Receipt' = [Receipt EXCEPT ![k] = Receipt'[k]]
  BY <1>0, CommitElsewhere, ReceiptsElsewhere DEF Rewrites
<1>2. /\ Exists(k) /\ m.state \notin NoLead
      /\ lead[k].intake => m.intake
      /\ UNCHANGED delivery
  BY <1>0 DEF Rewrites, Continues
<1>3. Receipt[k] = IF lead[k].intake THEN "converted" ELSE "open"
  BY <1>2, ReceiptOf DEF Exists, NoLead
<1>4. Receipt'[k] = IF m.intake THEN "converted" ELSE "open"
  BY <1>1, <1>2, ReceiptAfter DEF NoLead
<1>5. CASE lead[k].intake \/ ~m.intake
  <2>1. Receipt'[k] = Receipt[k]
    BY <1>2, <1>3, <1>4, <1>5
  <2>2. Receipt' = Receipt
    BY <1>1, <2>1, ReceiptIsFunction
  <2>. QED
    BY <1>2, <2>2 DEF Promised
<1>6. CASE ~lead[k].intake /\ m.intake
  BY <1>1, <1>2, <1>3, <1>4, <1>6 DEF Promised, Promise!Next, Promise!Convert
<1>. QED
  BY <1>5, <1>6

LEMMA UnlinkPromised ==
  ASSUME IInv, IInv', NEW w \in Workers, Unlink(w)
  PROVE  Promised
<1>0. PICK k \in Keys : k = req[w].key
  BY RequestFields DEF Unlink, Serving, IInv, AllOps
<1> DEFINE gone == [NoRow EXCEPT !.state = "deleted"]
<1>1. /\ Exists(k)
      /\ lead' = [lead EXCEPT ![k] = gone] /\ intakes' = [intakes EXCEPT ![k] = 0]
      /\ UNCHANGED delivery
  BY <1>0 DEF Unlink, Serving
<1>2. gone.state = "deleted"
  BY DEF NoRow
<1> HIDE DEF gone
<1>3. /\ lead'[k] = gone
      /\ \A j \in Keys \ {k} : lead'[j] = lead[j] /\ intakes'[j] = intakes[j]
  BY <1>1 DEF IInv, TypeOK
<1>4. Receipt' = [Receipt EXCEPT ![k] = "withdrawn"]
  BY <1>2, <1>3, ReceiptAfter, ReceiptsElsewhere
<1>5. Receipt[k] \in {"open", "converted"}
  BY <1>1, ReceiptOf DEF Exists, NoLead
<1>. QED
  BY <1>1, <1>4, <1>5 DEF Promised, Promise!Next, Promise!Withdraw

LEMMA DeleteIntakePromised ==
  ASSUME IInv, IInv', NEW w \in Workers, DeleteIntake(w)
  PROVE  Promised
<1>0. PICK k \in Keys : k = req[w].key
  BY RequestFields DEF DeleteIntake, Serving, IInv, AllOps
<1> DEFINE m == [lead[k] EXCEPT !.intake = FALSE]
<1>1. /\ Exists(k) /\ lead[k].intake
      /\ lead' = [lead EXCEPT ![k] = m] /\ intakes' = [intakes EXCEPT ![k] = @ - 1]
      /\ UNCHANGED delivery
  BY <1>0 DEF DeleteIntake, Serving
<1>2. m.state = lead[k].state /\ m.intake = FALSE
  BY DEF IInv, TypeOK, Row
<1> HIDE DEF m
<1>3. /\ lead'[k] = m
      /\ \A j \in Keys \ {k} : lead'[j] = lead[j] /\ intakes'[j] = intakes[j]
  BY <1>1 DEF IInv, TypeOK
<1>4. Receipt' = [Receipt EXCEPT ![k] = "open"]
  BY <1>1, <1>2, <1>3, ReceiptAfter, ReceiptsElsewhere DEF Exists, NoLead
<1>5. Receipt[k] = "converted"
  BY <1>1, ReceiptOf DEF Exists, NoLead
<1>. QED
  BY <1>1, <1>4, <1>5 DEF Promised, Promise!Next, Promise!Reopen

LEMMA StepPromised == IInv /\ IInv' /\ [Next]_vars => [Promise!Next]_<<Receipt, delivery>>
<1> SUFFICES ASSUME IInv, IInv', [Next]_vars PROVE Promised
  BY DEF Promised
<1>1. ASSUME UNCHANGED <<lead, intakes, delivery>> PROVE Promised
  BY <1>1 DEF Promised, Receipt, Exists
<1>2. CASE UNCHANGED vars
  BY <1>1, <1>2 DEF vars
<1>3. CASE Next
  <2>1. PICK w \in Workers :
          \/ \E d \in Deliveries : BeginAdmit(w, d)
          \/ \E op \in Ops, k \in Keys : BeginUser(w, op, k)
          \/ Admission(w) \/ UserStep(w) \/ Crash(w)
    BY <1>3 DEF Next
  <2>2. CASE \/ \E d \in Deliveries : BeginAdmit(w, d)
             \/ \E op \in Ops, k \in Keys : BeginUser(w, op, k)
             \/ Insert(w) \/ Collide(w) \/ Crash(w) \/ EndUser(w)
    BY <1>1, <2>2 DEF BeginAdmit, BeginUser, Insert, Collide, Crash, EndUser
  <2>3. CASE Admission(w)
    BY <2>2, <2>3, FinishAdmitPromised, ReplayPromised DEF Admission
  <2>4. CASE UserStep(w)
    BY <2>2, <2>4, UnlinkPromised, DeleteIntakePromised, RewritePromised, EditRewrites,
       RetryRewrites, ForceRewrites DEF UserStep
  <2>. QED
    BY <2>1, <2>2, <2>3, <2>4
<1>. QED
  BY <1>2, <1>3

(* The admission keeps IdempotentAdmission's promise, for any number of     *)
(* senders, keys and workers: a key has one receipt, which is converted by  *)
(* one atomic step, and a delivery is answered once and never before its    *)
(* receipt is durable.                                                      *)
THEOREM PromiseKept == Spec => AdmitsOnce
<1>1. Init => Promise!Init
  BY InitPromised
<1>2. IInv /\ IInv' /\ [Next]_vars => [Promise!Next]_<<Receipt, delivery>>
  BY StepPromised
<1>. QED
  BY <1>1, <1>2, Invariance, PTL DEF Spec, AdmitsOnce, Promise!Spec

-----------------------------------------------------------------------------
(* The classification itself.                                                *)

(* A count of qualifiers is a number.                                        *)
LEMMA QualifiersAreFinite ==
  ASSUME NEW e
  PROVE  IsFiniteSet(Qualifiers(e)) /\ Cardinality(Qualifiers(e)) \in Nat
  <1> DEFINE all == {"weight", "economic", "polymer", "commercial", "post_industrial"}
  <1>1. IsFiniteSet(all)
    <2>1. IsFiniteSet({"weight"})
      BY FS_Singleton
    <2>2. IsFiniteSet({"weight"} \cup {"economic"})
      BY <2>1, FS_AddElement
    <2>3. IsFiniteSet(({"weight"} \cup {"economic"}) \cup {"polymer"})
      BY <2>2, FS_AddElement
    <2>4. IsFiniteSet((({"weight"} \cup {"economic"}) \cup {"polymer"}) \cup {"commercial"})
      BY <2>3, FS_AddElement
    <2>5. IsFiniteSet(((({"weight"} \cup {"economic"}) \cup {"polymer"}) \cup {"commercial"}) \cup {"post_industrial"})
      BY <2>4, FS_AddElement
    <2>6. all = ((({"weight"} \cup {"economic"}) \cup {"polymer"}) \cup {"commercial"}) \cup {"post_industrial"}
      OBVIOUS
    <2> QED
      BY <2>5, <2>6
  <1>2. Qualifiers(e) \subseteq all
    BY DEF Qualifiers
  <1> HIDE DEF all
  <1> QED
    BY <1>1, <1>2, FS_Subset, FS_CardinalityType

(* More weight takes no qualifier away: only one of them looks at it.        *)
LEMMA HeavierKeepsQualifiers ==
  ASSUME NEW e, NEW f,
         Eligible(e) => Eligible(f),
         f.polymer = e.polymer, f.commercial = e.commercial,
         f.keyword = e.keyword, f.industrial = e.industrial
  PROVE  Cardinality(Qualifiers(e)) <= Cardinality(Qualifiers(f))
  <1>1. Qualifiers(e) \subseteq Qualifiers(f)
    BY DEF Qualifiers
  <1> QED
    BY <1>1, QualifiersAreFinite, FS_Subset

(* classify_lead: of two packets that differ only in the weight the seller   *)
(* states the heavier one is HOT when the lighter one is, for any weights,   *)
(* any evidence and any thresholds.                                          *)
THEOREM HeavierStaysHot ==
  HeavierIsNoColder(Evidence(BOOLEAN, Nat \cup {NaN}, Nat \cup {NaN}), Nat)
  <1> SUFFICES ASSUME NEW e \in Evidence(BOOLEAN, Nat \cup {NaN}, Nat \cup {NaN}), NEW w \in Nat,
                      e.packet, e.seller > 0, w >= e.seller, Hot(e)
               PROVE  Hot([e EXCEPT !.seller = w])
    BY DEF HeavierIsNoColder
  <1> DEFINE f == [e EXCEPT !.seller = w]
  <1>1. /\ f.packet = e.packet /\ f.seller = w /\ f.plastic = e.plastic
        /\ f.commercial = e.commercial /\ f.rejected = e.rejected
        /\ f.reusable = e.reusable /\ f.polymer = e.polymer
        /\ f.keyword = e.keyword /\ f.industrial = e.industrial
        /\ f.ai = e.ai
    BY DEF Evidence
  <1>2. e.seller \in Nat \ {0} /\ w \in Nat \ {0}
    BY DEF Evidence, NaN
  <1> HIDE DEF f
  <1>3. Lbs(e) = e.seller /\ Lbs(f) = w
    BY <1>1, <1>2 DEF Lbs
  <1>4. Threshold(f) = Threshold(e) /\ Threshold(e) \in Nat /\ ColdMax \in Nat
    BY <1>1, ThresholdAssumption DEF Threshold
  <1>5. Eligible(e) => Eligible(f)
    BY <1>2, <1>3, <1>4 DEF Eligible, NaN
  <1>6. Cardinality(Qualifiers(e)) <= Cardinality(Qualifiers(f))
    BY <1>1, <1>5, HeavierKeepsQualifiers
  <1>7. ~ColdGate(f)
    BY <1>1, <1>2, <1>3, <1>4 DEF Hot, ColdGate, Less, NaN
  <1>8. ~Less(Lbs(f), Threshold(f))
    BY <1>2, <1>3, <1>4 DEF Hot, Less, NaN
  <1>9. Cardinality(Qualifiers(f)) >= MinHotQualifiers
    BY <1>6, QualifiersAreFinite DEF Hot, MinHotQualifiers
  <1>10. Hot(f)
    BY <1>7, <1>8, <1>9 DEF Hot
  <1> QED
    BY <1>10 DEF f

(* _merge_ai_and_vision: on the packet path a count of units is never taken  *)
(* for pounds, whatever the evidence.                                        *)
THEOREM CountsStayCounts ==
  CountsAreNotPounds(Evidence(BOOLEAN, Nat \cup {NaN}, Nat \cup {NaN}))
  <1> SUFFICES ASSUME NEW e \in Evidence(BOOLEAN, Nat \cup {NaN}, Nat \cup {NaN}), e.packet
               PROVE  Hot(e) = Hot([e EXCEPT !.pallets = 0])
    BY DEF CountsAreNotPounds
  <1> DEFINE f == [e EXCEPT !.pallets = 0]
  <1>1. /\ f.packet = e.packet /\ f.seller = e.seller /\ f.plastic = e.plastic
        /\ f.commercial = e.commercial /\ f.rejected = e.rejected
        /\ f.reusable = e.reusable /\ f.polymer = e.polymer
        /\ f.keyword = e.keyword /\ f.industrial = e.industrial
        /\ f.ai = e.ai
    BY DEF Evidence
  <1> HIDE DEF f
  <1>2. Lbs(f) = Lbs(e) /\ Threshold(f) = Threshold(e)
    BY <1>1 DEF Lbs, Threshold
  <1>3. ColdGate(f) = ColdGate(e)
    BY <1>1, <1>2 DEF ColdGate
  <1>4. Qualifiers(f) = Qualifiers(e)
    BY <1>1, <1>2 DEF Qualifiers, Eligible
  <1>5. Hot(f) = Hot(e)
    BY <1>2, <1>3, <1>4 DEF Hot
  <1> QED
    BY <1>5 DEF f
=============================================================================
