--------------------------- MODULE EnrichmentRunsProofs ---------------------------
(***************************************************************************)
(* Proofs about EnrichmentRuns, for any runs, fields and operators, and     *)
(* whatever Gate answers, loses or replays.                                *)
(***************************************************************************)
EXTENDS EnrichmentRuns, TLAPS

(* The fields a request found empty are empty, unless it knows that the     *)
(* partner was written since it began.                                     *)
SeenEmpty ==
  \A w \in Workers : Busy(w) /\ ~req[w].overtaken =>
    \A f \in req[w].seen : partner[f] = Empty

IInv == TypeOK /\ SeenEmpty

Active ==
  [phase : {"begun", "asking", "writing", "failing", "persisting"},
   op : {"execute", "retry"}, run : Runs, stale : BOOLEAN, overtaken : BOOLEAN,
   attempt : 1..MaxAttempt, seen : SUBSET Fields, outcome : Outcomes]

LEMMA BusyIsActive ==
  ASSUME TypeOK, NEW w \in Workers, Busy(w)
  PROVE  req[w] \in Active
  BY DEF TypeOK, Requests, Busy, Idle, Active

LEMMA ActiveIsRequest == Active \subseteq Requests /\ Idle \in Requests
  BY DEF Active, Requests

-----------------------------------------------------------------------------
(***************************************************************************)
(* What happens to requests.                                               *)
(***************************************************************************)

(* w's request becomes q, and the partner is left alone.                    *)
LEMMA RequestKeeps ==
  ASSUME IInv, NEW w \in Workers, NEW q,
         req' = [req EXCEPT ![w] = q], UNCHANGED partner,
         q = Idle \/ (q \in Active /\ (~q.overtaken => \A f \in q.seen : partner[f] = Empty))
  PROVE  req' \in [Workers -> Requests] /\ SeenEmpty'
<1>1. q \in Requests
  BY ActiveIsRequest
<1>2. req' \in [Workers -> Requests]
  BY <1>1 DEF IInv, TypeOK
<1>3. \A v \in Workers : req'[v] = IF v = w THEN q ELSE req[v]
  BY DEF IInv, TypeOK
<1>4. SeenEmpty'
  BY <1>3 DEF IInv, SeenEmpty, Busy, Idle
<1>. QED
  BY <1>2, <1>4

(* w's request ends, or none does, and the others learn what was written.    *)
LEMMA OutdateKeeps ==
  ASSUME IInv, NEW w, NEW r, NEW fields, req' = Outdate(w, Idle, r, fields),
         \A f \in Fields \ fields : partner'[f] = partner[f]
  PROVE  req' \in [Workers -> Requests] /\ SeenEmpty'
<1>1. ASSUME NEW v \in Workers
      PROVE  /\ req'[v] \in Requests
             /\ Busy(v)' /\ ~req'[v].overtaken => \A f \in req'[v].seen : partner'[f] = Empty
  <2>1. CASE v = w
    <3>1. req'[v] = Idle
      BY <2>1 DEF Outdate
    <3>. QED
      BY <3>1, ActiveIsRequest DEF Busy, Idle
  <2>2. CASE v # w /\ ~Busy(v)
    <3>1. req'[v] = req[v]
      BY <2>2 DEF Outdate
    <3>. QED
      BY <2>2, <3>1 DEF IInv, TypeOK, Busy
  <2>3. CASE v # w /\ Busy(v)
    <3> DEFINE q == [req[v] EXCEPT !.stale = @ \/ req[v].run = r,
                                   !.overtaken = @ \/ fields # {}]
    <3>1. req'[v] = q
      BY <2>3 DEF Outdate
    <3>2. req[v] \in Active
      BY <2>3, BusyIsActive DEF IInv
    <3>3. /\ q \in Active /\ q.seen = req[v].seen
          /\ q.overtaken = (req[v].overtaken \/ fields # {})
      BY <3>2 DEF Active
    <3> HIDE DEF q
    <3>4. q.seen \subseteq Fields
      BY <3>3 DEF Active
    <3>. QED
      BY <2>3, <3>1, <3>3, <3>4, ActiveIsRequest DEF IInv, SeenEmpty
  <2>. QED
    BY <2>1, <2>2, <2>3
<1>2. req' = [v \in Workers |-> req'[v]]
  BY DEF Outdate
<1>. QED
  BY <1>1, <1>2 DEF SeenEmpty

LEMMA UnlockedType ==
  ASSUME TypeOK, NEW w \in Workers
  PROVE  Unlocked(w) \in [Runs -> Workers \cup {None}]
  BY DEF TypeOK, Unlocked

-----------------------------------------------------------------------------
(***************************************************************************)
(* The invariant, step by step.                                            *)
(***************************************************************************)

LEMMA InitKeeps == Init => IInv
<1> SUFFICES ASSUME Init PROVE IInv
  OBVIOUS
<1>1. 1 \in 1..MaxAttempt /\ 0 \in 0..MaxRequests
  BY EnrichmentAssumption
<1>2. run \in [Runs -> [state : States, attempt : 1..MaxAttempt, proposal : BOOLEAN]]
  BY <1>1 DEF Init, States
<1>3. TypeOK
  BY <1>1, <1>2 DEF Init, TypeOK, Answers, Requests
<1>4. SeenEmpty
  BY DEF Init, SeenEmpty, Busy, Idle
<1>. QED
  BY <1>3, <1>4 DEF IInv

LEMMA BeginKeeps ==
  ASSUME IInv, NEW w \in Workers, NEW r \in Runs, NEW op \in {"execute", "retry"},
         Begin(w, r, op)
  PROVE  IInv'
<1> DEFINE seen == {f \in Fields : partner[f] = Empty}
           n == run[r].attempt + (IF op = "retry" THEN 1 ELSE 0)
           q == [phase |-> "begun", op |-> op, run |-> r, stale |-> FALSE,
                 overtaken |-> FALSE, attempt |-> n, seen |-> seen,
                 outcome |-> "unknown"]
<1>1. run[r].attempt \in 1..MaxAttempt /\ run[r].attempt < MaxAttempt
  BY DEF Begin, IInv, TypeOK
<1>2. n \in 1..MaxAttempt
  BY <1>1, EnrichmentAssumption
<1> HIDE DEF n
<1>3. q \in Active
  BY <1>2 DEF Active, Outcomes
<1>4. q.seen = seen
  OBVIOUS
<1>5. req' = [req EXCEPT ![w] = q] /\ UNCHANGED partner
  BY DEF Begin, db, n
<1> HIDE DEF q
<1>6. req' \in [Workers -> Requests] /\ SeenEmpty'
  BY <1>3, <1>4, <1>5, RequestKeeps
<1>7. requests' \in 0..MaxRequests
  BY EnrichmentAssumption DEF Begin, IInv, TypeOK
<1>8. TypeOK'
  BY <1>6, <1>7 DEF Begin, db, IInv, TypeOK
<1>. QED
  BY <1>6, <1>8 DEF IInv

(* A request that only changes what it is about to do.                      *)
LEMMA StepKeeps ==
  ASSUME IInv, NEW w \in Workers, Busy(w), NEW q,
         req' = [req EXCEPT ![w] = q], UNCHANGED partner,
         q \in Active, q.seen = req[w].seen, q.overtaken = req[w].overtaken
  PROVE  req' \in [Workers -> Requests] /\ SeenEmpty'
<1>1. ~q.overtaken => \A f \in q.seen : partner[f] = Empty
  BY DEF IInv, SeenEmpty
<1>. QED
  BY <1>1, RequestKeeps

LEMMA FlushKeeps ==
  ASSUME IInv, NEW w \in Workers, Flush(w)
  PROVE  IInv'
<1> DEFINE q == [req[w] EXCEPT !.phase = "asking"]
<1>1. Busy(w)
  BY DEF Flush, At, Busy
<1>2. req[w] \in Active
  BY <1>1, BusyIsActive DEF IInv
<1>3. q \in Active /\ q.seen = req[w].seen /\ q.overtaken = req[w].overtaken
  BY <1>2 DEF Active
<1>4. req' = [req EXCEPT ![w] = q] /\ UNCHANGED partner
  BY DEF Flush, db
<1> HIDE DEF q
<1>5. req' \in [Workers -> Requests] /\ SeenEmpty'
  BY <1>1, <1>3, <1>4, StepKeeps
<1>6. lock' \in [Runs -> Workers \cup {None}]
  BY <1>2 DEF Flush, IInv, TypeOK
<1>. QED
  BY <1>5, <1>6 DEF Flush, db, IInv, TypeOK

LEMMA AskKeeps ==
  ASSUME IInv, NEW w \in Workers, Ask(w)
  PROVE  IInv'
<1>1. Busy(w)
  BY DEF Ask, At, Busy
<1>2. req[w] \in Active
  BY <1>1, BusyIsActive DEF IInv
<1>3. Identity(w) \in Runs \X (1..MaxAttempt)
  BY <1>2 DEF Identity, Active
<1>4. UNCHANGED <<run, partner, provenance, auto, lock, requests>>
  BY DEF Ask, db
<1>5. ASSUME NEW p \in {"writing", "failing"}, NEW c \in Outcomes,
             req' = [req EXCEPT ![w].phase = p, ![w].outcome = c]
      PROVE  req' \in [Workers -> Requests] /\ SeenEmpty'
  <2> DEFINE q == [req[w] EXCEPT !.phase = p, !.outcome = c]
  <2>1. q \in Active /\ q.seen = req[w].seen /\ q.overtaken = req[w].overtaken
    BY <1>2 DEF Active
  <2>2. req' = [req EXCEPT ![w] = q]
    BY <1>5 DEF IInv, TypeOK
  <2> HIDE DEF q
  <2>. QED
    BY <1>1, <1>4, <2>1, <2>2, StepKeeps
<1>6. CASE \E c \in {"retryable", "permanent", "unknown"} :
             /\ req' = [req EXCEPT ![w].phase = "failing", ![w].outcome = c]
             /\ UNCHANGED <<cache, replayed>>
  <2>1. req' \in [Workers -> Requests] /\ SeenEmpty'
    BY <1>5, <1>6 DEF Outcomes
  <2>. QED
    BY <1>4, <1>6, <2>1 DEF IInv, TypeOK
<1>7. CASE \E a \in {"fields", "failure"}, lost \in BOOLEAN :
             LET known == cache[Identity(w)] # "none"
                 answer == IF known THEN cache[Identity(w)] ELSE a IN
             /\ cache' = [cache EXCEPT ![Identity(w)] = answer]
             /\ replayed' = (replayed \/ (req[w].op = "retry" /\ known /\ answer = "failure"))
             /\ req' = [req EXCEPT
                  ![w].phase = IF answer = "fields" /\ ~lost THEN "writing" ELSE "failing",
                  ![w].outcome = IF lost THEN "retryable"
                                 ELSE IF answer = "fields" THEN "fields" ELSE "unknown"]
  <2> PICK a \in {"fields", "failure"}, lost \in BOOLEAN :
             LET known == cache[Identity(w)] # "none"
                 answer == IF known THEN cache[Identity(w)] ELSE a IN
             /\ cache' = [cache EXCEPT ![Identity(w)] = answer]
             /\ replayed' = (replayed \/ (req[w].op = "retry" /\ known /\ answer = "failure"))
             /\ req' = [req EXCEPT
                  ![w].phase = IF answer = "fields" /\ ~lost THEN "writing" ELSE "failing",
                  ![w].outcome = IF lost THEN "retryable"
                                 ELSE IF answer = "fields" THEN "fields" ELSE "unknown"]
    BY <1>7, Zenon
  <2> DEFINE answer == IF cache[Identity(w)] # "none" THEN cache[Identity(w)] ELSE a
             p == IF answer = "fields" /\ ~lost THEN "writing" ELSE "failing"
             c == IF lost THEN "retryable"
                  ELSE IF answer = "fields" THEN "fields" ELSE "unknown"
  <2>1. cache' = [cache EXCEPT ![Identity(w)] = answer] /\ answer \in Answers
    BY <1>3 DEF IInv, TypeOK, Answers
  <2>2. p \in {"writing", "failing"} /\ c \in Outcomes
    BY DEF Outcomes
  <2>3. req' = [req EXCEPT ![w].phase = p, ![w].outcome = c]
    OBVIOUS
  <2>4. replayed' \in BOOLEAN
    BY DEF IInv, TypeOK
  <2> HIDE DEF answer, p, c
  <2>5. req' \in [Workers -> Requests] /\ SeenEmpty'
    BY <1>5, <2>2, <2>3
  <2>6. cache' \in [Runs \X (1..MaxAttempt) -> Answers]
    BY <1>3, <2>1 DEF IInv, TypeOK
  <2>. QED
    BY <1>4, <2>4, <2>5, <2>6 DEF IInv, TypeOK
<1>. QED
  BY <1>6, <1>7, Zenon DEF Ask

LEMMA IdleKeeps ==
  ASSUME IInv, NEW w \in Workers, req' = [req EXCEPT ![w] = Idle], UNCHANGED partner
  PROVE  req' \in [Workers -> Requests] /\ SeenEmpty'
  BY RequestKeeps

LEMMA CollideKeeps ==
  ASSUME IInv, NEW w \in Workers, Collide(w)
  PROVE  IInv'
<1>1. Busy(w)
  BY DEF Collide, At, Busy
<1>2. req[w] \in Active
  BY <1>1, BusyIsActive DEF IInv
<1>3. UNCHANGED <<run, partner, provenance, auto, cache, requests, replayed>>
  BY DEF Collide, db
<1>4. CASE /\ req' = [req EXCEPT ![w].phase = "failing", ![w].outcome = "unknown"]
           /\ UNCHANGED lock
  <2> DEFINE q == [req[w] EXCEPT !.phase = "failing", !.outcome = "unknown"]
  <2>1. q \in Active /\ q.seen = req[w].seen /\ q.overtaken = req[w].overtaken
    BY <1>2 DEF Active, Outcomes
  <2>2. req' = [req EXCEPT ![w] = q]
    BY <1>4 DEF IInv, TypeOK
  <2> HIDE DEF q
  <2>3. req' \in [Workers -> Requests] /\ SeenEmpty'
    BY <1>1, <1>3, <2>1, <2>2, StepKeeps
  <2>. QED
    BY <1>3, <1>4, <2>3 DEF IInv, TypeOK
<1>5. CASE req' = [req EXCEPT ![w] = Idle] /\ lock' = Unlocked(w)
  <2>1. req' \in [Workers -> Requests] /\ SeenEmpty'
    BY <1>3, <1>5, IdleKeeps
  <2>. QED
    BY <1>3, <1>5, <2>1, UnlockedType DEF IInv, TypeOK
<1>. QED
  BY <1>4, <1>5 DEF Collide

LEMMA WriteBackType ==
  ASSUME TypeOK, NEW r \in Runs, NEW fields \in SUBSET Fields, WriteBack(r, fields)
  PROVE  /\ partner' \in [Fields -> {Empty, User} \cup Runs]
         /\ provenance' \subseteq Runs \X Fields
         /\ \A f \in Fields : partner'[f] = IF f \in fields THEN r ELSE partner[f]
         /\ \A f \in fields : <<r, f>> \in provenance'
  BY DEF TypeOK, WriteBack

LEMMA StoreKeeps ==
  ASSUME IInv, NEW w \in Workers, Store(w)
  PROVE  IInv'
<1> DEFINE r == req[w].run
           fields == IF auto THEN req[w].seen ELSE {}
<1>1. req[w] \in Active
  BY BusyIsActive DEF IInv, Store, At, Busy
<1>2. r \in Runs /\ fields \subseteq Fields /\ req[w].attempt \in 1..MaxAttempt
  BY <1>1 DEF Active
<1>3. /\ partner' \in [Fields -> {Empty, User} \cup Runs]
      /\ provenance' \subseteq Runs \X Fields
      /\ \A f \in Fields \ fields : partner'[f] = partner[f]
  <2>1. CASE auto
    BY <1>2, <2>1, WriteBackType DEF IInv, Store
  <2>2. CASE ~auto
    BY <2>2 DEF IInv, TypeOK, Store
  <2>. QED
    BY <2>1, <2>2
<1>4. run' \in [Runs -> [state : States, attempt : 1..MaxAttempt, proposal : BOOLEAN]]
  BY <1>2 DEF IInv, TypeOK, Store, States
<1>5. req' = Outdate(w, Idle, r, fields)
  BY DEF Store
<1>6. lock' \in [Runs -> Workers \cup {None}]
  BY UnlockedType DEF IInv, Store
<1>7. UNCHANGED <<auto, cache, requests, replayed>>
  BY DEF Store
<1> HIDE DEF r, fields
<1>8. req' \in [Workers -> Requests] /\ SeenEmpty'
  BY <1>3, <1>5, OutdateKeeps
<1>. QED
  BY <1>3, <1>4, <1>6, <1>7, <1>8 DEF IInv, TypeOK

LEMMA RollBackKeeps ==
  ASSUME IInv, NEW w \in Workers, RollBack(w)
  PROVE  IInv'
<1> DEFINE q == [req[w] EXCEPT !.phase = "persisting", !.stale = FALSE]
<1>1. Busy(w)
  BY DEF RollBack, At, Busy
<1>2. req[w] \in Active
  BY <1>1, BusyIsActive DEF IInv
<1>3. q \in Active /\ q.seen = req[w].seen /\ q.overtaken = req[w].overtaken
  BY <1>2 DEF Active
<1>4. req' = [req EXCEPT ![w] = q] /\ UNCHANGED partner
  BY DEF RollBack, db, IInv, TypeOK
<1> HIDE DEF q
<1>5. req' \in [Workers -> Requests] /\ SeenEmpty'
  BY <1>1, <1>3, <1>4, StepKeeps
<1>6. lock' \in [Runs -> Workers \cup {None}]
  BY UnlockedType DEF IInv, RollBack, RolledBack
<1>. QED
  BY <1>5, <1>6 DEF RollBack, db, IInv, TypeOK

LEMMA PersistKeeps ==
  ASSUME IInv, NEW w \in Workers, Persist(w)
  PROVE  IInv'
<1>1. req[w] \in Active
  BY BusyIsActive DEF IInv, Persist, At, Busy
<1>2. StateForFailure(req[w].outcome) \in States
  BY DEF StateForFailure, States
<1>3. run' \in [Runs -> [state : States, attempt : 1..MaxAttempt, proposal : BOOLEAN]]
  BY <1>1, <1>2 DEF IInv, TypeOK, Persist, Active
<1>4. req' \in [Workers -> Requests] /\ SeenEmpty'
  BY OutdateKeeps DEF Persist
<1>. QED
  BY <1>3, <1>4 DEF Persist, IInv, TypeOK

LEMMA CrashKeeps ==
  ASSUME IInv, NEW w \in Workers, Crash(w) \/ PersistLost(w)
  PROVE  IInv'
<1>1. req' \in [Workers -> Requests] /\ SeenEmpty'
  BY IdleKeeps DEF Crash, PersistLost, db
<1>2. lock' \in [Runs -> Workers \cup {None}]
  BY UnlockedType DEF IInv, TypeOK, Crash, PersistLost
<1>. QED
  BY <1>1, <1>2 DEF Crash, PersistLost, db, IInv, TypeOK

LEMMA InjectKeeps ==
  ASSUME IInv, NEW r \in Runs, Inject(r)
  PROVE  IInv'
<1> DEFINE fields == {f \in Fields : partner[f] = Empty}
<1>1. fields \in SUBSET Fields /\ WriteBack(r, fields)
  BY DEF Inject
<1>2. run' = [run EXCEPT ![r].state = "injected"] /\ requests' = requests + 1
  BY DEF Inject
<1>3. requests < MaxRequests /\ req' = Outdate(None, Idle, r, fields)
  BY DEF Inject
<1>4. UNCHANGED <<auto, cache, lock, replayed>>
  BY DEF Inject
<1> HIDE DEF fields
<1>5. /\ partner' \in [Fields -> {Empty, User} \cup Runs]
      /\ provenance' \subseteq Runs \X Fields
      /\ \A f \in Fields \ fields : partner'[f] = partner[f]
  BY <1>1, WriteBackType DEF IInv
<1>6. run' \in [Runs -> [state : States, attempt : 1..MaxAttempt, proposal : BOOLEAN]]
  BY <1>2 DEF IInv, TypeOK, States
<1>7. requests' \in 0..MaxRequests
  BY <1>2, <1>3, EnrichmentAssumption DEF IInv, TypeOK
<1>8. req' \in [Workers -> Requests] /\ SeenEmpty'
  BY <1>3, <1>5, OutdateKeeps
<1>. QED
  BY <1>4, <1>5, <1>6, <1>7, <1>8 DEF IInv, TypeOK

LEMMA EditKeeps ==
  ASSUME IInv, NEW f \in Fields, EditPartner(f)
  PROVE  IInv'
<1>1. PICK v \in {User, Empty} \ {partner[f]} : partner' = [partner EXCEPT ![f] = v]
  BY DEF EditPartner
<1>2. /\ partner' \in [Fields -> {Empty, User} \cup Runs]
      /\ \A g \in Fields \ {f} : partner'[g] = partner[g]
  BY <1>1 DEF IInv, TypeOK
<1>3. req' \in [Workers -> Requests] /\ SeenEmpty'
  BY <1>2, OutdateKeeps DEF EditPartner
<1>4. requests' \in 0..MaxRequests
  BY EnrichmentAssumption DEF EditPartner, IInv, TypeOK
<1>. QED
  BY <1>2, <1>3, <1>4 DEF EditPartner, IInv, TypeOK

LEMMA NextKeeps ==
  ASSUME IInv, [Next]_vars
  PROVE  IInv'
<1>1. CASE UNCHANGED vars
  BY <1>1 DEF vars, IInv, TypeOK, SeenEmpty, Busy
<1>2. CASE Next
  BY <1>2, BeginKeeps, FlushKeeps, AskKeeps, CollideKeeps, StoreKeeps, RollBackKeeps,
     PersistKeeps, CrashKeeps, InjectKeeps, EditKeeps, Zenon DEF Next, Work
<1>. QED
  BY <1>1, <1>2

-----------------------------------------------------------------------------
(* Every variable keeps its type.                                           *)
THEOREM TypeCorrect == Spec => []TypeOK
<1>1. Init => IInv
  BY InitKeeps
<1>2. IInv /\ [Next]_vars => IInv'
  BY NextKeeps
<1>3. IInv => TypeOK
  BY DEF IInv
<1>. QED
  BY <1>1, <1>2, <1>3, PTL DEF Spec

(* Only a write-back writes a run's value.                                  *)
LEMMA OthersLeavePartner ==
  ASSUME IInv, [Next]_vars
  PROVE  \/ UNCHANGED partner
         \/ \E w \in Workers : Store(w)
         \/ \E r \in Runs : Inject(r)
         \/ \E f \in Fields : EditPartner(f)
<1>1. \A w \in Workers, r \in Runs, op \in {"execute", "retry"} :
        Begin(w, r, op) => UNCHANGED partner
  BY DEF Begin, db
<1>2. \A w \in Workers : Flush(w) \/ Ask(w) \/ Collide(w) \/ RollBack(w) \/ Persist(w)
                         \/ PersistLost(w) \/ Crash(w) => UNCHANGED partner
  BY DEF Flush, Ask, Collide, RollBack, Persist, PersistLost, Crash, db
<1>3. UNCHANGED vars => UNCHANGED partner
  BY DEF vars
<1>. QED
  BY <1>1, <1>2, <1>3, Zenon DEF Next, Work

LEMMA StepMerges ==
  ASSUME IInv, [Next]_vars, NEW f \in Fields, partner'[f] # partner[f], partner'[f] \in Runs
  PROVE  partner[f] = Empty /\ <<partner'[f], f>> \in provenance'
<1>1. ASSUME NEW w \in Workers, Store(w)
      PROVE  partner[f] = Empty /\ <<partner'[f], f>> \in provenance'
  <2>1. Busy(w) /\ req[w] \in Active
    BY <1>1, BusyIsActive DEF IInv, Store, At, Busy
  <2>2. auto
    BY <1>1 DEF Store
  <2>3. WriteBack(req[w].run, req[w].seen) /\ ~Conflict(w)
    BY <1>1, <2>2 DEF Store
  <2>4. req[w].run \in Runs /\ req[w].seen \in SUBSET Fields
    BY <2>1 DEF Active
  <2>5. /\ partner'[f] = IF f \in req[w].seen THEN req[w].run ELSE partner[f]
        /\ \A g \in req[w].seen : <<req[w].run, g>> \in provenance'
    BY <2>3, <2>4, WriteBackType DEF IInv
  <2>6. f \in req[w].seen
    BY <2>5
  <2>7. ~req[w].overtaken
    BY <2>2, <2>3, <2>6 DEF Conflict
  <2>. QED
    BY <2>1, <2>5, <2>6, <2>7 DEF IInv, SeenEmpty
<1>2. ASSUME NEW r \in Runs, Inject(r)
      PROVE  partner[f] = Empty /\ <<partner'[f], f>> \in provenance'
  <2> DEFINE fields == {g \in Fields : partner[g] = Empty}
  <2>1. fields \in SUBSET Fields /\ WriteBack(r, fields)
    BY <1>2 DEF Inject
  <2>2. f \in fields => partner[f] = Empty
    OBVIOUS
  <2> HIDE DEF fields
  <2>3. /\ partner'[f] = IF f \in fields THEN r ELSE partner[f]
        /\ \A g \in fields : <<r, g>> \in provenance'
    BY <2>1, WriteBackType DEF IInv
  <2>. QED
    BY <2>2, <2>3
<1>3. ASSUME NEW g \in Fields, EditPartner(g)
      PROVE  FALSE
  <2>1. PICK v \in {User, Empty} \ {partner[g]} : partner' = [partner EXCEPT ![g] = v]
    BY <1>3 DEF EditPartner
  <2>. QED
    BY <2>1, EnrichmentAssumption DEF IInv, TypeOK
<1>. QED
  BY <1>1, <1>2, <1>3, OthersLeavePartner

(* Whatever users and other runs write while Gate is asked, a run's value   *)
(* only ever replaces an empty one, and is attributed to its run            *)
(* (enrichment_run.py:263).                                                *)
THEOREM FillsOnlyEmpty == Spec => MergeOnly
<1>1. Init => IInv
  BY InitKeeps
<1>2. IInv /\ [Next]_vars => IInv'
  BY NextKeeps
<1> DEFINE Merges ==
      \A f \in Fields : partner'[f] # partner[f] /\ partner'[f] \in Runs =>
        partner[f] = Empty /\ <<partner'[f], f>> \in provenance'
<1>3. IInv /\ [Next]_vars => [Merges]_vars
  BY StepMerges
<1>4. Spec => [][Merges]_vars
  BY <1>1, <1>2, <1>3, PTL DEF Spec
<1>. QED
  BY <1>4 DEF MergeOnly
=============================================================================
