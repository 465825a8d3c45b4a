------------------------------- MODULE MatchRuns -------------------------------
(***************************************************************************)
(* Buyer matching through Gate (plasticos_matching).  An operator matches    *)
(* one or several intakes, or retries a failed run.  A run is created inside *)
(* the request that asks Gate, and its row id names the request to Gate; a   *)
(* failure rolls the request back, run and all, and then creates the run     *)
(* anew on a cursor of its own, with the identity Gate was given.            *)
(*                                                                         *)
(* A request is one transaction at REPEATABLE READ, so what it creates is    *)
(* seen by nobody before it commits.  Ids come from a sequence, which a      *)
(* rollback does not turn back.  An answer is the set of buyers Gate returns *)
(* less those excluded for the supplier.                                   *)
(***************************************************************************)
EXTENDS Integers, Sequences, FiniteSets

CONSTANTS
  Intakes, Buyers, Workers,
  Classes,    \* what Gate's failures are classified as, of the three
  Selections, \* sequences of intakes an operator selects together
  None,       \* no identity, no answer
  MaxRequests \* bound: requests of operators

ASSUME MatchAssumption ==
  /\ Classes \subseteq {"retryable", "permanent", "unknown"}
  /\ Selections \subseteq Seq(Intakes)
  /\ \A s \in Selections : \A i, j \in DOMAIN s : s[i] = s[j] => i = j
  /\ MaxRequests \in Nat

VARIABLES
  runs,     \* the committed runs (plasticos.match.run)
  results,  \* canonical results (plasticos.match.result)
  lines,    \* what the intake's form shows (plasticos.intake.match)
  matched,  \* SUBSET Intakes: status "matched"
  nextId,   \* the sequence of run ids
  req,      \* [Workers -> request]
  requests  \* counter that bounds a run

vars == <<runs, results, lines, matched, nextId, req, requests>>
db == <<runs, results, lines, matched>>

Idle == [phase |-> "idle"]
Busy(w) == req[w].phase # "idle"
At(w, phase) == req[w].phase = phase

Init ==
  /\ runs = {} /\ results = {} /\ lines = {} /\ matched = {}
  /\ nextId = 1
  /\ req = [w \in Workers |-> Idle]
  /\ requests = 0

-----------------------------------------------------------------------------
(***************************************************************************)
(* A request: action_match_to_buyers over a selection, or a retry.          *)
(***************************************************************************)
Begin(w, todo, retryOf, attempt) ==
  /\ ~Busy(w) /\ requests < MaxRequests
  /\ requests' = requests + 1
  /\ req' = [req EXCEPT ![w] =
       [phase |-> "open", todo |-> todo, retryOf |-> retryOf, attempt |-> attempt,
        cur |-> None, class |-> "unknown", done |-> {}, lines |-> lines, matched |-> matched]]
  /\ UNCHANGED <<db, nextId>>

Match(w, todo) == Begin(w, todo, 0, 1)

(* The search for a pending retry finds committed runs only.               *)
Retry(w, r) ==
  /\ r.state # "ok"
  /\ ~\E s \in runs : s.intake = r.intake /\ s.state = "pending" /\ s.retryOf = r.id
  /\ Begin(w, <<r.intake>>, r.id, r.attempt + 1)

\* Mutation: the request is identified by the intake it is about.
IdentityOfIntake(run) == <<run.intake, run.attempt>>

(* build_operation_id of the run.                                          *)
Identity(run) == <<run.id, run.attempt>>

NewRun(w, state) ==
  [id |-> nextId, intake |-> Head(req[w].todo), state |-> state,
   attempt |-> req[w].attempt, retryOf |-> req[w].retryOf, op |-> None, answer |-> None]

Fail(w, run, class) ==
  req' = [req EXCEPT ![w].phase = "failing", ![w].cur = run, ![w].class = class]

(* Matching is switched off, or the request cannot be built.               *)
Unsent(w) ==
  /\ At(w, "open") /\ req[w].todo # <<>>
  /\ \E c \in Classes \ {"retryable"} : Fail(w, NewRun(w, "pending"), c)
  /\ UNCHANGED <<db, nextId, requests>>

Filed(op) == {x.buyer : x \in {y \in results : y.op = op}}

(* One intake: the run gets its id, then its identity, then Gate is asked.   *)
(* Gate may fail, or answer with what cannot be mapped; persist_match_lines *)
(* refuses rows it finds invalid and an answer that lacks what is filed     *)
(* under its identity already.  Nobody sees the steps in between.           *)
Ask(w) ==
  LET new == NewRun(w, "pending")
      run == [new EXCEPT !.op = Identity(new)] IN
  /\ At(w, "open") /\ req[w].todo # <<>>
  /\ nextId' = nextId + 1
  /\ \/ \E c \in Classes : Fail(w, run, c)
     \/ \E answer \in SUBSET Buyers :
          LET answered == [run EXCEPT !.answer = answer] IN
          \/ \E c \in Classes \ {"retryable"} : Fail(w, answered, c)
          \/ /\ Filed(run.op) \subseteq answer
             /\ req' = [req EXCEPT ![w].todo = Tail(@),
                                   ![w].done = @ \cup {[answered EXCEPT !.state = "ok"]}]
  /\ UNCHANGED <<db, requests>>

Of(rows, done) == {x \in rows : \E run \in done : x.intake = run.intake}

ResultsOf(done) ==
  UNION {{[op |-> r.op, intake |-> r.intake, buyer |-> b, state |-> "pending"] :
            b \in r.answer} : r \in done}

LinesOf(done) ==
  UNION {{[intake |-> r.intake, run |-> r.id, buyer |-> b] : b \in r.answer} : r \in done}

(* A retry leaves the status of the intake alone.                          *)
NewlyMatched(w) ==
  {r.intake : r \in {s \in req[w].done : s.retryOf = 0 /\ s.answer # {}}} \ req[w].matched

(* The request deletes display lines another one has deleted, or writes a   *)
(* status another one has written, or files a result twice.                *)
Conflict(w) ==
  \/ ~(Of(req[w].lines, req[w].done) \subseteq lines)
  \/ NewlyMatched(w) \cap matched # {}
  \/ \E r \in req[w].done : Filed(r.op) \cap r.answer # {}

Commit(w) ==
  LET done == req[w].done IN
  /\ At(w, "open") /\ req[w].todo = <<>> /\ ~Conflict(w)
  /\ runs' = runs \cup done
  /\ results' = results \cup ResultsOf(done)
  /\ lines' = (lines \ Of(req[w].lines, done)) \cup LinesOf(done)
  /\ matched' = matched \cup NewlyMatched(w)
  /\ req' = [req EXCEPT ![w] = Idle]
  /\ UNCHANGED <<nextId, requests>>

(* A crash, a conflict (the dispatcher serves the request anew), an intake  *)
(* without partner or profile, an error of a kind nothing catches.         *)
Abandon(w) ==
  /\ Busy(w)
  /\ req' = [req EXCEPT ![w] = Idle]
  /\ UNCHANGED <<db, nextId, requests>>

-----------------------------------------------------------------------------
StateForFailure(class) ==
  CASE class = "retryable" -> "retryable"
    [] class = "permanent" -> "failed"
    [] OTHER -> "degraded"

(* _rollback_then_persist_failed_run_durable: the rollback discards the run *)
(* and those of the intakes before it; the run is created again, with what  *)
(* Gate received and answered, under a new id.                             *)
Record(w) ==
  /\ At(w, "failing")
  /\ runs' = runs \cup {[req[w].cur EXCEPT !.id = nextId,
                                           !.state = StateForFailure(req[w].class)]}
  /\ nextId' = nextId + 1
  /\ req' = [req EXCEPT ![w] = Idle]
  /\ UNCHANGED <<results, lines, matched, requests>>

-----------------------------------------------------------------------------
(* action_accept, action_reject of a pending result.                       *)
Review(x) ==
  /\ x.state = "pending"
  /\ \E s \in {"accepted", "rejected"} :
       results' = (results \ {x}) \cup {[x EXCEPT !.state = s]}
  /\ UNCHANGED <<runs, lines, matched, nextId, req, requests>>

(* An administrator may delete a result nobody has accepted or rejected.    *)
DeleteResult(x) ==
  /\ x.state \notin {"accepted", "rejected"}
  /\ results' = results \ {x}
  /\ UNCHANGED <<runs, lines, matched, nextId, req, requests>>

-----------------------------------------------------------------------------
Next ==
  \/ \E w \in Workers :
       \/ \E todo \in Selections : Match(w, todo)
       \/ \E r \in runs : Retry(w, r)
       \/ Unsent(w) \/ Ask(w) \/ Commit(w)
       \/ Record(w) \/ Abandon(w)
  \/ \E x \in results : Review(x) \/ DeleteResult(x)

Spec == Init /\ [][Next]_vars

-----------------------------------------------------------------------------
RunStates == {"pending", "ok", "retryable", "failed", "degraded"}

(* Every committed row has its type, and a committed run is not pending.    *)
TypeOK ==
  /\ \A r \in runs :
       /\ r.id \in 1..(nextId - 1) /\ r.intake \in Intakes
       /\ r.state \in RunStates \ {"pending"}
       /\ r.attempt \in 1..MaxRequests /\ r.retryOf \in 0..(r.id - 1)
       /\ r.answer = None \/ r.answer \subseteq Buyers
  /\ results \subseteq [op : {r.op : r \in runs}, intake : Intakes, buyer : Buyers,
                        state : {"pending", "accepted", "rejected"}]
  /\ lines \subseteq [intake : Intakes, run : {r.id : r \in runs}, buyer : Buyers]
  /\ matched \subseteq Intakes
  /\ nextId \in Nat /\ requests \in 0..MaxRequests

(* An identity given to Gate stands for one run at most, and the results    *)
(* filed under it are of that run's intake and answer, and only if the run  *)
(* ended well: whatever was rolled back, retried or asked concurrently, no  *)
(* result is attributed to another request (match_orchestrator.py:66).      *)
ReceiptsAreExact ==
  /\ \A r, s \in runs : r.op = s.op /\ r.op # None => r = s
  /\ \A x \in results : \E r \in runs :
       r.op = x.op /\ r.state = "ok" /\ r.intake = x.intake /\ x.buyer \in r.answer
=============================================================================
