---------------------------- MODULE ChasingCronsProofs ----------------------------
(***************************************************************************)
(* Proofs about ChasingCrons, for any records, workers, policies and batch  *)
(* limits.  How a search orders and cuts what it finds is never looked      *)
(* into: a batch has open records that are due, whichever they are.         *)
(***************************************************************************)
EXTENDS ChasingCrons, TLAPS

ActiveRuns ==
  [phase : {"begun", "working", "unlocked"}, batch : SUBSET Items,
   stale : BOOLEAN, late : BOOLEAN]

(* What the arithmetic and the records of the proofs need.                  *)
TypesOK ==
  /\ DOMAIN state = Items
  /\ notices \in [Items -> Nat]
  /\ run \in [Workers -> CronRuns]

(* What a run means to notify is open and due, unless one of its rows was   *)
(* written since its snapshot, so that it cannot commit.                    *)
BatchIsDue ==
  \A w \in Workers : Busy(w) /\ cron.memory = "row" /\ ~run[w].stale =>
    \A i \in run[w].batch : state[i] = "open" /\ i \notin recent

IInv == TypesOK /\ BatchIsDue

LEMMA BusyIsActive ==
  ASSUME TypesOK, NEW w \in Workers, Busy(w)
  PROVE  run[w] \in ActiveRuns
  BY DEF TypesOK, CronRuns, Busy, Idle, ActiveRuns

LEMMA ActiveIsRun == ActiveRuns \subseteq CronRuns /\ Idle \in CronRuns
  BY DEF ActiveRuns, CronRuns

LEMMA BatchDue ==
  /\ Batch \in SUBSET Items
  /\ \A i \in Batch : state[i] = "open" /\ i \notin recent
  BY DEF Batch, Open

LEMMA SentCounts ==
  ASSUME TypesOK, NEW batch
  PROVE  Sent(batch) \in [Items -> Nat] /\ (~cron.direct => Sent(batch) = notices)
  BY DEF Sent, TypesOK

-----------------------------------------------------------------------------
(***************************************************************************)
(* What happens to runs.                                                   *)
(***************************************************************************)

(* w's run becomes q, the others stay, and so do the records.               *)
LEMMA RunKeeps ==
  ASSUME IInv, NEW w \in Workers, NEW q, run' = [run EXCEPT ![w] = q],
         UNCHANGED <<cron, state, recent>>,
         \/ q = Idle
         \/ /\ q \in ActiveRuns
            /\ cron.memory = "row" /\ ~q.stale =>
                 \A i \in q.batch : state[i] = "open" /\ i \notin recent
  PROVE  run' \in [Workers -> CronRuns] /\ BatchIsDue'
<1>1. q \in CronRuns
  BY ActiveIsRun
<1>2. run' \in [Workers -> CronRuns]
  BY <1>1 DEF IInv, TypesOK
<1>3. \A v \in Workers : run'[v] = IF v = w THEN q ELSE run[v]
  BY DEF IInv, TypesOK
<1>4. BatchIsDue'
  BY <1>3 DEF IInv, BatchIsDue, Busy, Idle
<1>. QED
  BY <1>2, <1>4

(* A run that goes on as it was, with no more in its batch.                 *)
LEMMA StepKeeps ==
  ASSUME IInv, NEW w \in Workers, Busy(w), NEW q, run' = [run EXCEPT ![w] = q],
         UNCHANGED <<cron, state, recent>>,
         q \in ActiveRuns, q.batch \subseteq run[w].batch, q.stale = run[w].stale
  PROVE  run' \in [Workers -> CronRuns] /\ BatchIsDue'
<1>1. cron.memory = "row" /\ ~q.stale => \A i \in q.batch : state[i] = "open" /\ i \notin recent
  BY DEF IInv, BatchIsDue
<1>. QED
  BY <1>1, RunKeeps

(* Rows were written: whoever would write one of them as well is stale.     *)
LEMMA OutdatedKeeps ==
  ASSUME IInv, NEW rows, NEW v \in Workers
  PROVE  /\ Outdated(rows)[v] \in CronRuns
         /\ Outdated(rows)[v].phase = run[v].phase
         /\ Busy(v) => /\ Outdated(rows)[v].batch = run[v].batch
                       /\ ~Outdated(rows)[v].stale =>
                            /\ ~run[v].stale
                            /\ cron.memory = "row" => run[v].batch \cap rows = {}
<1>1. CASE Busy(v) /\ cron.memory = "row" /\ run[v].batch \cap rows # {}
  <2> DEFINE q == [run[v] EXCEPT !.stale = TRUE]
  <2>1. Outdated(rows)[v] = q
    BY <1>1 DEF Outdated
  <2>2. run[v] \in ActiveRuns
    BY <1>1, BusyIsActive DEF IInv
  <2>3. /\ q \in ActiveRuns /\ q.batch = run[v].batch /\ q.phase = run[v].phase
        /\ q.stale = TRUE
    BY <2>2 DEF ActiveRuns
  <2> HIDE DEF q
  <2>. QED
    BY <2>1, <2>3, ActiveIsRun
<1>2. CASE ~(Busy(v) /\ cron.memory = "row" /\ run[v].batch \cap rows # {})
  <2>1. Outdated(rows)[v] = run[v]
    BY <1>2 DEF Outdated
  <2>2. run[v] \in CronRuns
    BY DEF IInv, TypesOK
  <2>. QED
    BY <1>2, <2>1, <2>2
<1>. QED
  BY <1>1, <1>2

(* Rows were written, and nothing else happened to the records.             *)
LEMMA RowsKeep ==
  ASSUME IInv, NEW rows, run' = Outdated(rows), UNCHANGED cron,
         \A i \in Items \ rows : state'[i] = state[i] /\ (i \in recent' <=> i \in recent)
  PROVE  run' \in [Workers -> CronRuns] /\ BatchIsDue'
<1>1. run' = [v \in Workers |-> run'[v]]
  BY DEF Outdated
<1>2. \A v \in Workers : run'[v] \in CronRuns
  BY OutdatedKeeps
<1>3. ASSUME NEW v \in Workers, Busy(v)', cron.memory = "row", ~run'[v].stale
      PROVE  \A i \in run'[v].batch : state'[i] = "open" /\ i \notin recent'
  <2>1. Busy(v)
    BY <1>3, OutdatedKeeps DEF Busy
  <2>2. run'[v].batch = run[v].batch /\ ~run[v].stale /\ run[v].batch \cap rows = {}
    BY <1>3, <2>1, OutdatedKeeps
  <2>3. run[v].batch \subseteq Items
    BY <2>1, BusyIsActive DEF IInv, ActiveRuns
  <2>4. \A i \in run[v].batch : state[i] = "open" /\ i \notin recent
    BY <1>3, <2>1, <2>2 DEF IInv, BatchIsDue
  <2>. QED
    BY <2>2, <2>3, <2>4
<1>. QED
  BY <1>1, <1>2, <1>3 DEF BatchIsDue

-----------------------------------------------------------------------------
(***************************************************************************)
(* The invariant, step by step.                                            *)
(***************************************************************************)

LEMMA InitKeeps == Init => IInv
  BY DEF Init, IInv, TypesOK, BatchIsDue, Busy, Idle, CronRuns

LEMMA BeginKeeps ==
  ASSUME IInv, NEW w \in Workers, Begin(w)
  PROVE  IInv'
<1> DEFINE q == [phase |-> "begun", batch |-> Batch, stale |-> FALSE, late |-> FALSE]
<1>1. q \in ActiveRuns /\ q.batch = Batch
  BY BatchDue DEF ActiveRuns
<1>2. run' = [run EXCEPT ![w] = q] /\ UNCHANGED <<cron, state, recent, notices>>
  BY DEF Begin
<1> HIDE DEF q
<1>3. run' \in [Workers -> CronRuns] /\ BatchIsDue'
  BY <1>1, <1>2, BatchDue, RunKeeps
<1>. QED
  BY <1>2, <1>3 DEF IInv, TypesOK

LEMMA IdleKeeps ==
  ASSUME IInv, NEW w \in Workers, run' = [run EXCEPT ![w] = Idle],
         UNCHANGED <<cron, state, recent>>
  PROVE  run' \in [Workers -> CronRuns] /\ BatchIsDue'
  BY RunKeeps

LEMMA TryLockKeeps ==
  ASSUME IInv, NEW w \in Workers, TryLock(w)
  PROVE  IInv'
<1> DEFINE q == [run[w] EXCEPT !.phase = "working"]
<1>1. Busy(w)
  BY DEF TryLock, At, Busy
<1>2. q \in ActiveRuns /\ q.batch = run[w].batch /\ q.stale = run[w].stale
  BY <1>1, BusyIsActive DEF IInv, ActiveRuns
<1>3. UNCHANGED <<cron, state, recent, notices>>
  BY DEF TryLock
<1>4. run' = [run EXCEPT ![w] = q] \/ run' = [run EXCEPT ![w] = Idle]
  BY DEF TryLock
<1> HIDE DEF q
<1>5. run' \in [Workers -> CronRuns] /\ BatchIsDue'
  BY <1>1, <1>2, <1>3, <1>4, StepKeeps, IdleKeeps
<1>. QED
  BY <1>3, <1>5 DEF IInv, TypesOK

LEMMA FinishKeeps ==
  ASSUME IInv, NEW w \in Workers, Finish(w)
  PROVE  IInv'
<1> DEFINE q == [run[w] EXCEPT !.phase = "unlocked"]
<1>1. Busy(w)
  BY DEF Finish, At, Busy
<1>2. q \in ActiveRuns /\ q.batch = run[w].batch /\ q.stale = run[w].stale
  BY <1>1, BusyIsActive DEF IInv, ActiveRuns
<1>3. UNCHANGED <<cron, state, recent>> /\ run' = [run EXCEPT ![w] = q]
  BY DEF Finish
<1> HIDE DEF q
<1>4. run' \in [Workers -> CronRuns] /\ BatchIsDue'
  BY <1>1, <1>2, <1>3, StepKeeps
<1>5. notices' \in [Items -> Nat]
  BY SentCounts DEF Finish, IInv
<1>. QED
  BY <1>4, <1>5 DEF Finish, IInv, TypesOK

LEMMA CollideKeeps ==
  ASSUME IInv, NEW w \in Workers, Collide(w)
  PROVE  IInv'
<1>1. run' \in [Workers -> CronRuns] /\ BatchIsDue'
  BY IdleKeeps DEF Collide
<1>2. notices' \in [Items -> Nat]
  BY SentCounts DEF Collide, IInv
<1>. QED
  BY <1>1, <1>2 DEF Collide, IInv, TypesOK

LEMMA RaiseKeeps ==
  ASSUME IInv, NEW w \in Workers, Raise(w)
  PROVE  IInv'
<1>1. UNCHANGED <<cron, state, recent, notices>>
  BY DEF Raise
<1>2. CASE cron.direct
  <2>1. PICK i \in run[w].batch : run' = [run EXCEPT ![w].batch = @ \ {i}]
    BY <1>2 DEF Raise
  <2> DEFINE q == [run[w] EXCEPT !.batch = @ \ {i}]
  <2>2. Busy(w)
    BY DEF Raise, At, Busy
  <2>3. q \in ActiveRuns /\ q.batch \subseteq run[w].batch /\ q.stale = run[w].stale
    BY <2>2, BusyIsActive DEF IInv, ActiveRuns
  <2>4. run' = [run EXCEPT ![w] = q]
    BY <2>1 DEF IInv, TypesOK
  <2> HIDE DEF q
  <2>5. run' \in [Workers -> CronRuns] /\ BatchIsDue'
    BY <1>1, <2>2, <2>3, <2>4, StepKeeps
  <2>. QED
    BY <1>1, <2>5 DEF IInv, TypesOK
<1>3. CASE ~cron.direct
  <2>1. run' \in [Workers -> CronRuns] /\ BatchIsDue'
    BY <1>1, <1>3, IdleKeeps DEF Raise
  <2>. QED
    BY <1>1, <2>1 DEF IInv, TypesOK
<1>. QED
  BY <1>2, <1>3

LEMMA CommitKeeps ==
  ASSUME IInv, NEW w \in Workers, Commit(w)
  PROVE  IInv'
<1> DEFINE rows == run[w].batch
           batch == IF run[w].late THEN {} ELSE rows
<1>1. run[w] \in ActiveRuns
  BY BusyIsActive DEF IInv, Commit, At, Busy
<1>2. batch \subseteq rows
  OBVIOUS
<1>3. /\ recent' = recent \cup batch
      /\ run' = [Outdated(rows) EXCEPT ![w] = Idle]
      /\ UNCHANGED <<cron, state>>
  BY DEF Commit
<1>4. notices' \in [Items -> Nat]
  BY DEF Commit, IInv, TypesOK
<1> HIDE DEF rows, batch
<1>5. \A v \in Workers : run'[v] = IF v = w THEN Idle ELSE Outdated(rows)[v]
  BY <1>3 DEF Outdated
<1>6. run' = [v \in Workers |-> run'[v]]
  BY <1>3 DEF Outdated
<1>7. \A v \in Workers : run'[v] \in CronRuns
  BY <1>5, OutdatedKeeps, ActiveIsRun
<1>8. ASSUME NEW v \in Workers, Busy(v)', cron.memory = "row", ~run'[v].stale
      PROVE  \A i \in run'[v].batch : state[i] = "open" /\ i \notin recent'
  <2>1. v # w /\ run'[v] = Outdated(rows)[v]
    BY <1>5, <1>8 DEF Busy, Idle
  <2>2. Busy(v)
    BY <1>8, <2>1, OutdatedKeeps DEF Busy
  <2>3. run'[v].batch = run[v].batch /\ ~run[v].stale /\ run[v].batch \cap rows = {}
    BY <1>8, <2>1, <2>2, OutdatedKeeps
  <2>4. \A i \in run[v].batch : state[i] = "open" /\ i \notin recent
    BY <1>8, <2>2, <2>3 DEF IInv, BatchIsDue
  <2>. QED
    BY <1>2, <1>3, <2>3, <2>4
<1>9. BatchIsDue'
  BY <1>3, <1>8 DEF BatchIsDue
<1>. QED
  BY <1>4, <1>6, <1>7, <1>9 DEF Commit, IInv, TypesOK

LEMMA EndKeeps ==
  ASSUME IInv, NEW w \in Workers, Abort(w) \/ Crash(w)
  PROVE  IInv'
<1>1. run' \in [Workers -> CronRuns] /\ BatchIsDue'
  BY IdleKeeps DEF Abort, Crash
<1>. QED
  BY <1>1 DEF Abort, Crash, IInv, TypesOK

LEMMA RecordsKeep ==
  ASSUME IInv, NEW i \in Items, Close(i) \/ Edit(i)
  PROVE  IInv'
<1>1. run' = Outdated({i}) /\ UNCHANGED <<cron, recent, notices>>
  BY DEF Close, Edit
<1>2. DOMAIN state' = Items /\ \A j \in Items \ {i} : state'[j] = state[j]
  BY DEF Close, Edit, IInv, TypesOK
<1>3. run' \in [Workers -> CronRuns] /\ BatchIsDue'
  BY <1>1, <1>2, RowsKeep
<1>. QED
  BY <1>1, <1>2, <1>3 DEF IInv, TypesOK

LEMMA AddKeeps ==
  ASSUME IInv, NEW i \in Items, Add(i)
  PROVE  IInv'
<1>1. DOMAIN state' = Items /\ \A j \in Items : state[j] = "open" => state'[j] = "open"
  BY DEF Add, IInv, TypesOK
<1>2. UNCHANGED <<cron, recent, run, notices>>
  BY DEF Add
<1>3. \A v \in Workers : Busy(v) => run[v].batch \subseteq Items
  BY BusyIsActive DEF IInv, ActiveRuns
<1>. QED
  BY <1>1, <1>2, <1>3 DEF IInv, TypesOK, BatchIsDue, Busy

LEMMA LapseKeeps ==
  ASSUME IInv, Lapse
  PROVE  IInv'
<1>1. recent' \subseteq recent /\ UNCHANGED <<cron, state>>
  BY DEF Lapse
<1>2. notices' \in [Items -> Nat]
  BY DEF Lapse, IInv, TypesOK
<1>3. ASSUME NEW v \in Workers
      PROVE  /\ run'[v] \in CronRuns /\ run'[v].phase = run[v].phase
             /\ Busy(v) => run'[v].batch = run[v].batch /\ run'[v].stale = run[v].stale
  <2>1. CASE Busy(v) /\ cron.again = "day"
    <3> DEFINE q == [run[v] EXCEPT !.late = TRUE]
    <3>1. run'[v] = q
      BY <2>1 DEF Lapse
    <3>2. /\ q \in ActiveRuns /\ q.phase = run[v].phase
          /\ q.batch = run[v].batch /\ q.stale = run[v].stale
      BY <2>1, BusyIsActive DEF IInv, ActiveRuns
    <3> HIDE DEF q
    <3>. QED
      BY <3>1, <3>2, ActiveIsRun
  <2>2. CASE ~(Busy(v) /\ cron.again = "day")
    <3>1. run'[v] = run[v]
      BY <2>2 DEF Lapse
    <3>. QED
      BY <3>1 DEF IInv, TypesOK
  <2>. QED
    BY <2>1, <2>2
<1>4. run' = [v \in Workers |-> run'[v]]
  BY DEF Lapse
<1>5. BatchIsDue'
  BY <1>1, <1>3 DEF IInv, BatchIsDue, Busy
<1>. QED
  BY <1>2, <1>3, <1>4, <1>5 DEF Lapse, IInv, TypesOK

LEMMA NextKeeps ==
  ASSUME IInv, [Next]_vars
  PROVE  IInv'
<1>1. CASE UNCHANGED vars
  BY <1>1 DEF vars, IInv, TypesOK, BatchIsDue, Busy
<1>2. ASSUME NEW w \in Workers, Recycle(w)
      PROVE  IInv'
  BY <1>2 DEF Recycle, IInv, TypesOK, BatchIsDue, Busy
<1>3. CASE Next
  BY <1>2, <1>3, BeginKeeps, TryLockKeeps, FinishKeeps, CollideKeeps, RaiseKeeps,
     CommitKeeps, EndKeeps, RecordsKeep, AddKeeps, LapseKeeps, Zenon DEF Next, Work
<1>. QED
  BY <1>1, <1>3

-----------------------------------------------------------------------------
(* Of all steps, only a commit of a cron that queues its mail adds notices. *)
LEMMA OnlyCommitNotifies ==
  ASSUME IInv, [Next]_vars, ~cron.direct, NEW i \in Items, notices'[i] > notices[i]
  PROVE  \E w \in Workers : Commit(w)
<1>1. ~(UNCHANGED notices)
  BY DEF IInv, TypesOK
<1>2. ~(UNCHANGED vars)
  BY <1>1 DEF vars
<1>3. \A w \in Workers : ~(Begin(w) \/ TryLock(w) \/ Raise(w) \/ Abort(w) \/ Crash(w) \/ Recycle(w))
  BY <1>1 DEF Begin, TryLock, Raise, Abort, Crash, Recycle
<1>4. \A w \in Workers : ~(Finish(w) \/ Collide(w))
  BY <1>1, SentCounts DEF Finish, Collide, IInv
<1>5. \A j \in Items : ~(Add(j) \/ Close(j) \/ Edit(j))
  BY <1>1 DEF Add, Close, Edit
<1>6. ~Lapse
  <2> SUFFICES ASSUME Lapse PROVE FALSE
    OBVIOUS
  <2>1. notices'[i] \in {0, notices[i]} /\ notices[i] \in Nat
    BY DEF Lapse, IInv, TypesOK
  <2>. QED
    BY <2>1
<1>. QED
  BY <1>2, <1>3, <1>4, <1>5, <1>6, Zenon DEF Next, Work

LEMMA StepNotifiesDue ==
  ASSUME IInv, [Next]_vars, NEW i \in Items, notices'[i] > notices[i],
         cron.memory = "row", ~cron.direct
  PROVE  state[i] = "open" /\ i \notin recent
<1>1. PICK w \in Workers : Commit(w)
  BY OnlyCommitNotifies
<1>2. Busy(w) /\ ~run[w].stale
  BY <1>1 DEF Commit, At, Busy
<1>3. notices'[i] = notices[i]
        + IF i \in (IF run[w].late THEN {} ELSE run[w].batch) THEN 1 ELSE 0
  BY <1>1 DEF Commit
<1>4. i \in run[w].batch
  BY <1>3 DEF IInv, TypesOK
<1>. QED
  BY <1>2, <1>4 DEF IInv, BatchIsDue

(* Overlapping runs, whatever their policy, batch and order, never notify a *)
(* record twice before it is due again, nor one that was closed meanwhile,  *)
(* where the notice is remembered in the record's row and the mail waits    *)
(* for the commit (purchase_order_automation.py:26).                        *)
THEOREM NotifiedOnlyWhenDue == Spec => NoticesAreDue
<1>1. Init => IInv
  BY InitKeeps
<1>2. IInv /\ [Next]_vars => IInv'
  BY NextKeeps
<1> DEFINE Due ==
      \A i \in Items :
        notices'[i] > notices[i] /\ cron.memory = "row" /\ ~cron.direct =>
          state[i] = "open" /\ i \notin recent
<1>3. IInv /\ [Next]_vars => [Due]_vars
  BY StepNotifiesDue
<1>4. Spec => [][Due]_vars
  BY <1>1, <1>2, <1>3, PTL DEF Spec
<1>. QED
  BY <1>4 DEF NoticesAreDue
=============================================================================
