----------------------------- MODULE EnrichmentRuns -----------------------------
(***************************************************************************)
(* Partner enrichment through Gate (plasticos_enrichment,                   *)
(* plasticos_gate): an operator executes a run or retries it, Gate answers  *)
(* with fields for the partner, which are written at once when automatic   *)
(* write-back is on and otherwise stored for an approval.                   *)
(*                                                                         *)
(* A request is one transaction at REPEATABLE READ; its first write of the  *)
(* run takes the row's lock before Gate is called, or only when it ends     *)
(* (whenever the ORM flushes).  A failure rolls the transaction back and    *)
(* then writes the run's state on a cursor of its own.                     *)
(*                                                                         *)
(* Gate is external: it answers an identity it has answered before from     *)
(* its cache (gate_builders.py:63).                                        *)
(***************************************************************************)
EXTENDS Integers, FiniteSets

CONSTANTS
  Runs, Fields, Workers,
  Empty, User, None, \* an empty field; a value a user entered; nobody, nothing
  MaxRequests,       \* bound: requests of operators, edits of users
  MaxAttempt         \* bound on attempts, for the types

ASSUME EnrichmentAssumption ==
  /\ {Empty, User} \cap Runs = {} /\ Empty # User /\ None \notin Workers
  /\ MaxRequests \in Nat /\ MaxAttempt \in Nat \ {0}

VARIABLES
  run,        \* [Runs -> [state, attempt, proposal]]
  partner,    \* [Fields -> Empty, User, or the run that wrote the value]
  provenance, \* SUBSET (Runs \X Fields)
  auto,       \* both switches of automatic write-back are on
  cache,      \* Gate: [Runs \X (1..MaxAttempt) -> answer]
  lock,       \* [Runs -> the worker that holds the row's lock, or None]
  req,        \* [Workers -> request]
  requests,   \* counter that bounds a run
  replayed    \* history: a retry was answered with a cached failure

vars == <<run, partner, provenance, auto, cache, lock, req, requests, replayed>>
db == <<run, partner, provenance>>

States == {"draft", "review", "injected", "retryable", "degraded", "failed"}
Answers == {"none", "fields", "failure"}      \* what Gate has cached
Outcomes == {"fields", "retryable", "permanent", "unknown"}
Idle == [phase |-> "idle"]

Init ==
  /\ run = [r \in Runs |-> [state |-> "draft", attempt |-> 1, proposal |-> FALSE]]
  /\ partner = [f \in Fields |-> Empty]
  /\ provenance = {}
  /\ auto \in BOOLEAN
  /\ cache = [i \in Runs \X (1..MaxAttempt) |-> "none"]
  /\ lock = [r \in Runs |-> None]
  /\ req = [w \in Workers |-> Idle]
  /\ requests = 0
  /\ replayed = FALSE

Busy(w) == req[w].phase # "idle"
At(w, phase) == req[w].phase = phase

(* Others that have this row in their snapshot can no longer write it.      *)
Outdate(w, q, r, fields) ==
  [v \in Workers |->
     IF v = w THEN q
     ELSE IF ~Busy(v) THEN req[v]
     ELSE [req[v] EXCEPT !.stale = @ \/ req[v].run = r,
                         !.overtaken = @ \/ fields # {}]]

Unlocked(w) == [r \in Runs |-> IF lock[r] = w THEN None ELSE lock[r]]
Free(w) == lock[req[w].run] \in {None, w}

-----------------------------------------------------------------------------
(***************************************************************************)
(* An execution.                                                           *)
(***************************************************************************)

(* action_execute refuses an injected or failed run by its first write      *)
(* (without "state"); action_retry_enrichment resets the run and raises its *)
(* attempt, in the same transaction.                                       *)
Begin(w, r, op) ==
  /\ ~Busy(w) /\ requests < MaxRequests
  /\ IF op = "retry" THEN run[r].state \in {"retryable", "failed", "degraded"}
                     ELSE run[r].state \notin {"injected", "failed"}
  /\ run[r].attempt < MaxAttempt
  /\ requests' = requests + 1
  /\ req' = [req EXCEPT ![w] =
       [phase |-> "begun", op |-> op, run |-> r, stale |-> FALSE, overtaken |-> FALSE,
        attempt |-> run[r].attempt + (IF op = "retry" THEN 1 ELSE 0),
        seen |-> {f \in Fields : partner[f] = Empty}, outcome |-> "unknown"]]
  /\ UNCHANGED <<db, auto, cache, lock, replayed>>

(* The first write is flushed, which waits for the row's lock, or is not.   *)
Flush(w) ==
  /\ At(w, "begun") /\ ~req[w].stale
  /\ \/ lock[req[w].run] = None /\ lock' = [lock EXCEPT ![req[w].run] = w]
     \/ UNCHANGED lock
  /\ req' = [req EXCEPT ![w].phase = "asking"]
  /\ UNCHANGED <<db, auto, cache, requests, replayed>>

Identity(w) == <<req[w].run, req[w].attempt>>

(* Availability, admission, and one request to Gate.  A transport failure   *)
(* may come before Gate saw the request or after it answered; a failure of  *)
(* the service is an answer, and its class is unknown to Odoo.              *)
Ask(w) ==
  /\ At(w, "asking")
  /\ \/ \E c \in {"retryable", "permanent", "unknown"} :
          /\ req' = [req EXCEPT ![w].phase = "failing", ![w].outcome = c]
          /\ UNCHANGED <<cache, replayed>>
     \/ \E a \in {"fields", "failure"}, lost \in BOOLEAN :
          LET known == cache[Identity(w)] # "none"
              answer == IF known THEN cache[Identity(w)] ELSE a IN
          /\ cache' = [cache EXCEPT ![Identity(w)] = answer]
          /\ replayed' = (replayed \/ (req[w].op = "retry" /\ known /\ answer = "failure"))
          /\ req' = [req EXCEPT
               ![w].phase = IF answer = "fields" /\ ~lost THEN "writing" ELSE "failing",
               ![w].outcome = IF lost THEN "retryable"
                              ELSE IF answer = "fields" THEN "fields" ELSE "unknown"]
  /\ UNCHANGED <<db, auto, lock, requests>>

\* Mutation: the write-back does not notice a concurrent edit of the partner.
ConflictOfRun(w) == req[w].stale

(* A row this request writes was committed by another since it began.       *)
Conflict(w) == req[w].stale \/ (auto /\ req[w].seen # {} /\ req[w].overtaken)

(* The flush fails.  Inside the try block any exception is a degraded run;  *)
(* outside it (at commit) the dispatcher rolls back and serves the request  *)
(* anew.                                                                   *)
Collide(w) ==
  /\ \/ At(w, "begun") /\ req[w].stale
     \/ At(w, "writing") /\ Conflict(w) /\ Free(w)
  /\ \/ req' = [req EXCEPT ![w].phase = "failing", ![w].outcome = "unknown"] /\ UNCHANGED lock
     \/ req' = [req EXCEPT ![w] = Idle] /\ lock' = Unlocked(w)
  /\ UNCHANGED <<db, auto, cache, requests, replayed>>

(* merge-not-overwrite, with a provenance row for each field written.       *)
WriteBack(r, fields) ==
  /\ partner' = [f \in Fields |-> IF f \in fields THEN r ELSE partner[f]]
  /\ provenance' = provenance \cup ({r} \X fields)

(* _run_gate_converge: the request commits with what Gate proposed.         *)
Store(w) ==
  LET r == req[w].run IN
  /\ At(w, "writing") /\ Free(w) /\ ~Conflict(w)
  /\ IF auto THEN WriteBack(r, req[w].seen) ELSE UNCHANGED <<partner, provenance>>
  /\ run' = [run EXCEPT ![r] =
       [state |-> IF auto THEN "injected" ELSE "review",
        attempt |-> req[w].attempt, proposal |-> TRUE]]
  /\ req' = Outdate(w, Idle, r, IF auto THEN req[w].seen ELSE {})
  /\ lock' = Unlocked(w)
  /\ UNCHANGED <<auto, cache, requests, replayed>>

-----------------------------------------------------------------------------
(***************************************************************************)
(* _rollback_then_persist_operator_state.                                  *)
(***************************************************************************)

\* Mutation: the failed transaction is flushed, not rolled back.
RolledBackFlushed(w) == [lock EXCEPT ![req[w].run] = IF @ = None THEN w ELSE @]

(* The rollback frees the row that the durable write needs.                *)
RolledBack(w) == Unlocked(w)

(* The owned cursor takes its snapshot when it looks the run up.            *)
RollBack(w) ==
  /\ At(w, "failing")
  /\ lock' = RolledBack(w)
  /\ req' = [req EXCEPT ![w].phase = "persisting", ![w].stale = FALSE]
  /\ UNCHANGED <<db, auto, cache, requests, replayed>>

StateForFailure(class) ==
  CASE class = "retryable" -> "retryable"
    [] class = "permanent" -> "failed"
    [] OTHER -> "degraded"

(* The write names the state, so the guard on injected and failed runs lets *)
(* it pass whatever another request has stored since.  It names no attempt.  *)
Persist(w) ==
  LET r == req[w].run IN
  /\ At(w, "persisting") /\ lock[r] = None /\ ~req[w].stale
  /\ run' = [run EXCEPT ![r].state = StateForFailure(req[w].outcome)]
  /\ req' = Outdate(w, Idle, r, {})
  /\ UNCHANGED <<partner, provenance, auto, cache, lock, requests, replayed>>

(* The durable write itself collides: the dispatcher serves the request     *)
(* anew, and this failure leaves no trace.                                 *)
PersistLost(w) ==
  /\ At(w, "persisting") /\ lock[req[w].run] = None /\ req[w].stale
  /\ req' = [req EXCEPT ![w] = Idle]
  /\ UNCHANGED <<db, auto, cache, lock, requests, replayed>>

Crash(w) ==
  /\ Busy(w)
  /\ req' = [req EXCEPT ![w] = Idle]
  /\ lock' = Unlocked(w)
  /\ UNCHANGED <<db, auto, cache, requests, replayed>>

-----------------------------------------------------------------------------
(* action_inject of a run in review: its stored proposal, merged into what  *)
(* the partner has now.  A short request, in one step.                     *)
Inject(r) ==
  LET fields == {f \in Fields : partner[f] = Empty} IN
  /\ requests < MaxRequests /\ lock[r] = None
  /\ run[r].state = "review" /\ run[r].proposal /\ fields # {}
  /\ WriteBack(r, fields)
  /\ run' = [run EXCEPT ![r].state = "injected"]
  /\ req' = Outdate(None, Idle, r, fields)
  /\ requests' = requests + 1
  /\ UNCHANGED <<auto, cache, lock, replayed>>

(* A user fills in or clears a field of the partner.                       *)
EditPartner(f) ==
  /\ requests < MaxRequests
  /\ requests' = requests + 1
  /\ \E v \in {User, Empty} \ {partner[f]} : partner' = [partner EXCEPT ![f] = v]
  /\ req' = Outdate(None, Idle, None, {f})
  /\ UNCHANGED <<run, provenance, auto, cache, lock, replayed>>

-----------------------------------------------------------------------------
Work(w) ==
  \/ Flush(w) \/ Ask(w) \/ Collide(w) \/ Store(w)
  \/ RollBack(w) \/ Persist(w) \/ PersistLost(w)

Next ==
  \/ \E w \in Workers :
       \/ \E r \in Runs, op \in {"execute", "retry"} : Begin(w, r, op)
       \/ Work(w) \/ Crash(w)
  \/ \E r \in Runs : Inject(r)
  \/ \E f \in Fields : EditPartner(f)

Spec == Init /\ [][Next]_vars

(* A worker is not stopped in the middle of a request, and the call to Gate *)
(* has a timeout.                                                          *)
FairSpec == Spec /\ \A w \in Workers : WF_vars(Work(w))

-----------------------------------------------------------------------------
Requests ==
  {Idle} \cup
  [phase : {"begun", "asking", "writing", "failing", "persisting"},
   op : {"execute", "retry"}, run : Runs, stale : BOOLEAN, overtaken : BOOLEAN,
   attempt : 1..MaxAttempt, seen : SUBSET Fields, outcome : Outcomes]

(* Every variable has its type.                                            *)
TypeOK ==
  /\ run \in [Runs -> [state : States, attempt : 1..MaxAttempt, proposal : BOOLEAN]]
  /\ partner \in [Fields -> {Empty, User} \cup Runs]
  /\ provenance \subseteq Runs \X Fields
  /\ auto \in BOOLEAN
  /\ cache \in [Runs \X (1..MaxAttempt) -> Answers]
  /\ lock \in [Runs -> Workers \cup {None}]
  /\ req \in [Workers -> Requests]
  /\ requests \in 0..MaxRequests
  /\ replayed \in BOOLEAN

(* Enrichment fills fields that are empty when it commits, whatever users   *)
(* and other runs wrote while Gate was asked, and what it fills is          *)
(* attributed to the run (enrichment_run.py:263).                          *)
MergeOnly ==
  [][\A f \in Fields :
       partner'[f] # partner[f] /\ partner'[f] \in Runs =>
         partner[f] = Empty /\ <<partner'[f], f>> \in provenance']_vars

(* Every request ends: no durable write waits for a lock that its own       *)
(* request, or a circle of requests, keeps (enrichment_run.py:316).         *)
RequestsEnd == \A w \in Workers : []<>(req[w] = Idle)

(* A retry is never answered from Gate's cache of a failed attempt          *)
(* (enrichment_run.py:94).                                                 *)
NeverReplayed == ~replayed
=============================================================================
