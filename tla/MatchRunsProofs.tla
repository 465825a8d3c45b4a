----------------------------- MODULE MatchRunsProofs -----------------------------
(***************************************************************************)
(* Proofs about MatchRuns, for any operators, intakes, buyers and           *)
(* selections.                                                             *)
(***************************************************************************)
EXTENDS MatchRuns, TLAPS

RunFields == {"id", "intake", "state", "attempt", "retryOf", "op", "answer"}
ResultFields == {"op", "intake", "buyer", "state"}
RequestFields == {"phase", "todo", "retryOf", "attempt", "cur", "class", "done",
                  "lines", "matched"}

(* An identity names the run id it was built from, which has been drawn.    *)
Drawn(x, next) ==
  /\ DOMAIN x = RunFields
  /\ x.op # None => x.op[1] \in Nat /\ x.op[1] < next

(* Runs of an open or failing request, which nobody else sees.  A failing   *)
(* request has lost all but the one that failed.                           *)
HeldBy(q) == IF q.phase = "open" THEN q.done
             ELSE IF q.phase = "failing" THEN {q.cur} ELSE {}
Held(w) == HeldBy(req[w])

RequestsOK ==
  /\ DOMAIN req = Workers
  /\ \A w \in Workers :
       /\ Busy(w) => DOMAIN req[w] = RequestFields /\ req[w].phase \in {"open", "failing"}
       /\ At(w, "open") => \A x \in req[w].done : x.state = "ok"
       /\ \A x \in Held(w) : Drawn(x, nextId)

(* An identity that Gate was given belongs to one run, committed or not.    *)
OneHolder ==
  /\ \A w \in Workers : \A x \in Held(w) : x.op # None =>
       /\ \A r \in runs : r.op # x.op
       /\ \A v \in Workers : \A y \in Held(v) : y.op = x.op => v = w /\ y = x

IInv ==
  /\ nextId \in Nat
  /\ \A r \in runs : Drawn(r, nextId)
  /\ RequestsOK
  /\ OneHolder
  /\ \A x \in results : DOMAIN x = ResultFields
  /\ ReceiptsAreExact

-----------------------------------------------------------------------------
LEMMA InitKeeps == Init => IInv
  BY DEF Init, IInv, RequestsOK, OneHolder, ReceiptsAreExact, Idle, Busy, At, Held, HeldBy

(* A request of w that becomes q holds no run that w did not hold, or one    *)
(* with an identity that no run had.                                       *)
Fits(w, q) ==
  /\ q.phase # "idle" => DOMAIN q = RequestFields /\ q.phase \in {"open", "failing"}
  /\ q.phase = "open" => \A x \in q.done : x.state = "ok"
  /\ \A x \in HeldBy(q) : Drawn(x, nextId')
  /\ \A x \in HeldBy(q) : x.op # None =>
       /\ \A r \in runs : r.op # x.op
       /\ \A v \in Workers \ {w} : \A y \in Held(v) : y.op # x.op
       /\ \A y \in HeldBy(q) : y.op = x.op => y = x

LEMMA RequestKeeps ==
  ASSUME IInv, NEW w \in Workers, NEW q, Fits(w, q),
         req' = [req EXCEPT ![w] = q], UNCHANGED db,
         nextId' = nextId \/ nextId' = nextId + 1
  PROVE  IInv'
<1>1. \A v \in Workers : req'[v] = IF v = w THEN q ELSE req[v]
  BY DEF IInv, RequestsOK
<1>2. Held(w)' = HeldBy(q) /\ \A v \in Workers \ {w} : Held(v)' = Held(v)
  BY <1>1 DEF Held
<1>3. \A x : Drawn(x, nextId) => Drawn(x, nextId')
  BY DEF Drawn, IInv
<1>4. RequestsOK'
  <2>1. DOMAIN req' = Workers
    BY DEF IInv, RequestsOK
  <2>2. ASSUME NEW v \in Workers
        PROVE  /\ Busy(v)' => /\ DOMAIN req'[v] = RequestFields
                              /\ req'[v].phase \in {"open", "failing"}
               /\ At(v, "open")' => \A x \in req'[v].done : x.state = "ok"
               /\ \A x \in Held(v)' : Drawn(x, nextId')
    <3>1. CASE v = w
      BY <3>1, <1>1, <1>2 DEF Busy, At, Fits
    <3>2. CASE v # w
      BY <3>2, <1>1, <1>2, <1>3 DEF IInv, RequestsOK, Busy, At
    <3>. QED
      BY <3>1, <3>2
  <2>. QED
    BY <2>1, <2>2 DEF RequestsOK
<1>5. OneHolder'
  <2>1. ASSUME NEW v \in Workers, NEW x \in Held(v)', x.op # None
        PROVE  /\ \A r \in runs : r.op # x.op
               /\ \A u \in Workers : \A y \in Held(u)' : y.op = x.op => u = v /\ y = x
    <3>1. CASE v = w
      BY <2>1, <3>1, <1>2 DEF Fits
    <3>2. CASE v # w
      BY <2>1, <3>2, <1>2 DEF IInv, OneHolder, Fits
    <3>. QED
      BY <3>1, <3>2
  <2>2. runs' = runs
    BY DEF db
  <2>. QED
    BY <2>1, <2>2 DEF OneHolder
<1>6. ReceiptsAreExact'
  BY DEF db, IInv, ReceiptsAreExact
<1>7. \A r \in runs' : Drawn(r, nextId')
  BY <1>3 DEF db, IInv
<1>8. nextId' \in Nat /\ \A x \in results' : DOMAIN x = ResultFields
  BY DEF db, IInv
<1>. QED
  BY <1>4, <1>5, <1>6, <1>7, <1>8 DEF IInv

LEMMA BeginKeeps ==
  ASSUME IInv, NEW w \in Workers, NEW todo, NEW retryOf, NEW attempt,
         Begin(w, todo, retryOf, attempt)
  PROVE  IInv'
<1> DEFINE q == [phase |-> "open", todo |-> todo, retryOf |-> retryOf,
                 attempt |-> attempt, cur |-> None, class |-> "unknown",
                 done |-> {}, lines |-> lines, matched |-> matched]
<1>1. req' = [req EXCEPT ![w] = q] /\ UNCHANGED <<db, nextId>>
  BY DEF Begin
<1>2. DOMAIN q = RequestFields /\ q.phase = "open" /\ q.done = {}
  BY DEF RequestFields
<1> HIDE DEF q
<1>3. Fits(w, q)
  BY <1>2 DEF Fits, HeldBy
<1>. QED
  BY <1>1, <1>3, RequestKeeps

(* The request ends without effect.                                        *)
LEMMA AbandonKeeps ==
  ASSUME IInv, NEW w \in Workers, Abandon(w)
  PROVE  IInv'
<1>1. req' = [req EXCEPT ![w] = Idle] /\ UNCHANGED <<db, nextId>>
  BY DEF Abandon
<1>2. Fits(w, Idle)
  BY DEF Fits, HeldBy, Idle
<1>. QED
  BY <1>1, <1>2, RequestKeeps

(* The request fails with run x.                                           *)
LEMMA FailKeeps ==
  ASSUME IInv, NEW w \in Workers, At(w, "open"), NEW x, NEW c, Fail(w, x, c),
         UNCHANGED db, nextId' = nextId \/ nextId' = nextId + 1, Drawn(x, nextId'),
         x.op # None => x.op[1] = nextId
  PROVE  IInv'
<1> DEFINE q == [req[w] EXCEPT !.phase = "failing", !.cur = x, !.class = c]
<1>1. req' = [req EXCEPT ![w] = q]
  BY DEF Fail
<1>2. DOMAIN q = RequestFields /\ q.phase = "failing" /\ q.cur = x
  BY DEF IInv, RequestsOK, Busy, At, RequestFields
<1> HIDE DEF q
<1>3. HeldBy(q) = {x}
  BY <1>2 DEF HeldBy
<1>4. x.op # None =>
        /\ \A r \in runs : r.op # x.op
        /\ \A v \in Workers \ {w} : \A y \in Held(v) : y.op # x.op
  BY DEF IInv, Drawn, RequestsOK
<1>5. Fits(w, q)
  BY <1>2, <1>3, <1>4 DEF Fits
<1>. QED
  BY <1>1, <1>5, RequestKeeps

LEMMA UnsentKeeps ==
  ASSUME IInv, NEW w \in Workers, Unsent(w)
  PROVE  IInv'
<1> DEFINE x == NewRun(w, "pending")
<1>1. PICK c \in Classes : Fail(w, x, c)
  BY DEF Unsent
<1>2. DOMAIN x = RunFields /\ x.op = None
  BY DEF NewRun, RunFields
<1> HIDE DEF x
<1>3. Drawn(x, nextId')
  BY <1>2 DEF Drawn
<1>. QED
  BY <1>1, <1>2, <1>3, FailKeeps DEF Unsent

(* The identity is built from a fresh id, whatever Gate does with it.       *)
LEMMA AskKeeps ==
  ASSUME IInv, NEW w \in Workers, Ask(w)
  PROVE  IInv'
<1> DEFINE new == NewRun(w, "pending")
           run == [new EXCEPT !.op = Identity(new)]
           Answered(answer) == [run EXCEPT !.answer = answer]
<1>1. /\ At(w, "open") /\ nextId' = nextId + 1 /\ UNCHANGED db
      /\ \/ \E c \in Classes : Fail(w, run, c)
         \/ \E answer \in SUBSET Buyers :
              \/ \E c \in Classes \ {"retryable"} : Fail(w, Answered(answer), c)
              \/ req' = [req EXCEPT ![w].todo = Tail(@),
                                    ![w].done = @ \cup {[Answered(answer) EXCEPT !.state = "ok"]}]
  BY DEF Ask
<1>2. /\ DOMAIN run = RunFields
      /\ run.op # None => run.op[1] = nextId
  BY DEF NewRun, RunFields, Identity
<1>3. ASSUME NEW answer
      PROVE  DOMAIN Answered(answer) = RunFields /\ Answered(answer).op = run.op
  <2> HIDE DEF run
  <2>. QED
    BY <1>2 DEF RunFields
<1> HIDE DEF run
<1>4. \A x : DOMAIN x = RunFields /\ x.op = run.op => Drawn(x, nextId') /\ (x.op # None => x.op[1] = nextId)
  <2>1. nextId \in Nat
    BY DEF IInv
  <2>2. nextId' = nextId + 1
    BY <1>1
  <2>3. nextId < nextId'
    BY <2>1, <2>2
  <2>. QED
    BY <1>2, <2>1, <2>3 DEF Drawn
<1>5. CASE \E c \in Classes : Fail(w, run, c)
  BY <1>1, <1>2, <1>4, <1>5, FailKeeps
<1>6. CASE \E answer \in SUBSET Buyers, c \in Classes : Fail(w, Answered(answer), c)
  <2>1. PICK answer \in SUBSET Buyers, c \in Classes : Fail(w, Answered(answer), c)
    BY <1>6
  <2>2. Drawn(Answered(answer), nextId') /\ (Answered(answer).op # None => Answered(answer).op[1] = nextId)
    BY <1>3, <1>4
  <2> HIDE DEF Answered
  <2>. QED
    BY <1>1, <2>1, <2>2, FailKeeps
<1>7. CASE \E answer \in SUBSET Buyers :
             req' = [req EXCEPT ![w].todo = Tail(@),
                                ![w].done = @ \cup {[Answered(answer) EXCEPT !.state = "ok"]}]
  <2>1. PICK answer \in SUBSET Buyers :
             req' = [req EXCEPT ![w].todo = Tail(@),
                                ![w].done = @ \cup {[Answered(answer) EXCEPT !.state = "ok"]}]
    BY <1>7
  <2> DEFINE ok == [Answered(answer) EXCEPT !.state = "ok"]
             q == [req[w] EXCEPT !.todo = Tail(@), !.done = @ \cup {ok}]
  <2>2. DOMAIN ok = RunFields /\ ok.op = run.op /\ ok.state = "ok"
    <3>1. DOMAIN Answered(answer) = RunFields /\ Answered(answer).op = run.op
      BY <1>3
    <3> HIDE DEF Answered
    <3>. QED
      BY <3>1 DEF RunFields
  <2>3. req' = [req EXCEPT ![w] = q]
    BY <2>1
  <2> HIDE DEF Answered, ok
  <2>4. DOMAIN q = RequestFields /\ q.phase = "open" /\ q.done = req[w].done \cup {ok}
    BY <1>1 DEF IInv, RequestsOK, Busy, At, RequestFields
  <2> HIDE DEF q
  <2>5. HeldBy(q) = req[w].done \cup {ok} /\ Held(w) = req[w].done
    BY <1>1, <2>4 DEF Held, HeldBy, At
  <2>6. /\ Drawn(ok, nextId')
        /\ ok.op # None => ok.op[1] = nextId
    BY <2>2, <1>4
  <2>7. \A x : Drawn(x, nextId) => Drawn(x, nextId') /\ (ok.op # None => x.op # ok.op)
    BY <1>1, <2>6 DEF Drawn, IInv
  <2>8. /\ \A x \in HeldBy(q) : Drawn(x, nextId')
        /\ \A x \in req[w].done : x.state = "ok"
    BY <1>1, <2>5, <2>6, <2>7 DEF IInv, RequestsOK
  <2>9. \A v \in Workers : \A x \in Held(v) : Drawn(x, nextId)
    BY DEF IInv, RequestsOK
  <2>10. ASSUME NEW x \in HeldBy(q), x.op # None
         PROVE  /\ \A r \in runs : r.op # x.op
                /\ \A v \in Workers \ {w} : \A y \in Held(v) : y.op # x.op
                /\ \A y \in HeldBy(q) : y.op = x.op => y = x
    <3>1. CASE x = ok
      BY <2>10, <3>1, <2>5, <2>7, <2>9 DEF IInv
    <3>2. CASE x \in req[w].done
      BY <2>10, <3>2, <2>5, <2>7, <2>9 DEF IInv, OneHolder
    <3>. QED
      BY <3>1, <3>2, <2>5
  <2>11. Fits(w, q)
    BY <2>2, <2>4, <2>8, <2>10 DEF Fits
  <2>. QED
    BY <1>1, <2>3, <2>11, RequestKeeps
<1>. QED
  BY <1>1, <1>5, <1>6, <1>7

(* Runs N that w's request commits, with identities that it held.           *)
CommitsOf(w, N) ==
  /\ \A x \in N : Drawn(x, nextId')
  /\ \A x \in N : x.op # None => \E y \in Held(w) : y.op = x.op
  /\ \A x, y \in N : x.op = y.op /\ x.op # None => x = y

Attributed(rs, results_) ==
  \A x \in results_ :
    /\ DOMAIN x = ResultFields
    /\ \E r \in rs : /\ r.op = x.op /\ r.state = "ok" /\ r.intake = x.intake
                     /\ x.buyer \in r.answer

LEMMA RunsKeep ==
  ASSUME IInv, NEW w \in Workers, NEW N, CommitsOf(w, N),
         req' = [req EXCEPT ![w] = Idle], runs' = runs \cup N,
         nextId' = nextId \/ nextId' = nextId + 1, Attributed(runs', results')
  PROVE  IInv'
<1>1. \A v \in Workers : req'[v] = IF v = w THEN Idle ELSE req[v]
  BY DEF IInv, RequestsOK
<1>2. Held(w)' = {} /\ \A v \in Workers \ {w} : Held(v)' = Held(v)
  BY <1>1 DEF Held, HeldBy, Idle
<1>3. \A x : Drawn(x, nextId) => Drawn(x, nextId')
  BY DEF Drawn, IInv
<1>4. RequestsOK'
  <2>1. DOMAIN req' = Workers
    BY DEF IInv, RequestsOK
  <2>2. ASSUME NEW v \in Workers
        PROVE  /\ Busy(v)' => /\ DOMAIN req'[v] = RequestFields
                              /\ req'[v].phase \in {"open", "failing"}
               /\ At(v, "open")' => \A x \in req'[v].done : x.state = "ok"
               /\ \A x \in Held(v)' : Drawn(x, nextId')
    BY <1>1, <1>2, <1>3 DEF IInv, RequestsOK, Busy, At, Idle
  <2>. QED
    BY <2>1, <2>2 DEF RequestsOK
<1>5. OneHolder'
  <2>1. ASSUME NEW v \in Workers \ {w}, NEW x \in Held(v), x.op # None
        PROVE  /\ \A r \in runs' : r.op # x.op
               /\ \A u \in Workers : \A y \in Held(u) : y.op = x.op => u = v /\ y = x
    BY <2>1 DEF IInv, OneHolder, CommitsOf
  <2>. QED
    BY <1>2, <2>1 DEF OneHolder
<1>6. \A r, s \in runs' : r.op = s.op /\ r.op # None => r = s
  BY DEF IInv, ReceiptsAreExact, OneHolder, CommitsOf
<1>7. ReceiptsAreExact' /\ \A x \in results' : DOMAIN x = ResultFields
  BY <1>6 DEF ReceiptsAreExact, Attributed
<1>8. nextId' \in Nat /\ \A r \in runs' : Drawn(r, nextId')
  BY <1>3 DEF IInv, CommitsOf
<1>. QED
  BY <1>4, <1>5, <1>7, <1>8 DEF IInv

LEMMA CommitKeeps ==
  ASSUME IInv, NEW w \in Workers, Commit(w)
  PROVE  IInv'
<1> DEFINE done == req[w].done
<1>1. /\ At(w, "open") /\ runs' = runs \cup done /\ results' = results \cup ResultsOf(done)
      /\ req' = [req EXCEPT ![w] = Idle] /\ nextId' = nextId
  BY DEF Commit
<1>2. Held(w) = done
  BY <1>1 DEF Held, HeldBy, At
<1>3. \A x \in done : Drawn(x, nextId') /\ x.state = "ok"
  BY <1>1, <1>2 DEF IInv, RequestsOK, Drawn
<1>4. \A x, y \in done : x.op = y.op /\ x.op # None => x = y
  BY <1>2 DEF IInv, OneHolder
<1>5. ASSUME NEW x \in results'
      PROVE  /\ DOMAIN x = ResultFields
             /\ \E r \in runs' : /\ r.op = x.op /\ r.state = "ok" /\ r.intake = x.intake
                                 /\ x.buyer \in r.answer
  <2>1. CASE x \in results
    BY <1>1, <2>1 DEF IInv, ReceiptsAreExact
  <2>2. CASE x \in ResultsOf(done)
    <3>1. PICK r \in done : \E b \in r.answer :
            x = [op |-> r.op, intake |-> r.intake, buyer |-> b, state |-> "pending"]
      BY <2>2 DEF ResultsOf
    <3>2. DOMAIN x = ResultFields
      BY <3>1 DEF ResultFields
    <3>. QED
      BY <1>1, <1>3, <3>1, <3>2
  <2>. QED
    BY <1>1, <1>5, <2>1, <2>2
<1>6. CommitsOf(w, done) /\ Attributed(runs', results')
  BY <1>2, <1>3, <1>4, <1>5 DEF CommitsOf, Attributed
<1> HIDE DEF done
<1>. QED
  BY <1>1, <1>6, RunsKeep

(* The run that is created again keeps the identity Gate was given.         *)
LEMMA RecordKeeps ==
  ASSUME IInv, NEW w \in Workers, Record(w)
  PROVE  IInv'
<1> DEFINE cur == req[w].cur
           x == [cur EXCEPT !.id = nextId, !.state = StateForFailure(req[w].class)]
<1>1. /\ At(w, "failing") /\ runs' = runs \cup {x} /\ nextId' = nextId + 1
      /\ req' = [req EXCEPT ![w] = Idle] /\ UNCHANGED results
  BY DEF Record
<1>2. Held(w) = {cur}
  BY <1>1 DEF Held, HeldBy, At
<1>3. Drawn(cur, nextId)
  BY <1>2 DEF IInv, RequestsOK
<1> HIDE DEF cur
<1>4. DOMAIN x = RunFields /\ x.op = cur.op
  BY <1>3 DEF Drawn, RunFields
<1> HIDE DEF x
<1>5. Drawn(x, nextId')
  BY <1>1, <1>3, <1>4 DEF Drawn, IInv
<1>6. \A y \in results' :
        /\ DOMAIN y = ResultFields
        /\ \E r \in runs' : /\ r.op = y.op /\ r.state = "ok" /\ r.intake = y.intake
                            /\ y.buyer \in r.answer
  BY <1>1 DEF IInv, ReceiptsAreExact
<1>7. CommitsOf(w, {x}) /\ Attributed(runs', results')
  BY <1>2, <1>4, <1>5, <1>6 DEF CommitsOf, Attributed
<1>. QED
  BY <1>1, <1>7, RunsKeep

(* A reviewed or deleted result leaves what it is attributed to.            *)
LEMMA ResultsKeep ==
  ASSUME IInv, NEW x \in results, Review(x) \/ DeleteResult(x)
  PROVE  IInv'
<1>1. UNCHANGED <<runs, nextId, req>>
  BY DEF Review, DeleteResult
<1>2. \A y \in results' :
        /\ DOMAIN y = ResultFields
        /\ y \in results \/ (y.op = x.op /\ y.intake = x.intake /\ y.buyer = x.buyer)
  <2>1. CASE Review(x)
    <3>1. PICK s \in {"accepted", "rejected"} :
            results' = (results \ {x}) \cup {[x EXCEPT !.state = s]}
      BY <2>1 DEF Review
    <3> DEFINE y == [x EXCEPT !.state = s]
    <3>2. DOMAIN y = ResultFields /\ y.op = x.op /\ y.intake = x.intake /\ y.buyer = x.buyer
      BY DEF IInv, ResultFields
    <3> HIDE DEF y
    <3>. QED
      BY <3>1, <3>2 DEF IInv, y
  <2>2. CASE DeleteResult(x)
    BY <2>2 DEF DeleteResult, IInv
  <2>. QED
    BY <2>1, <2>2
<1>3. ReceiptsAreExact'
  BY <1>1, <1>2 DEF IInv, ReceiptsAreExact
<1>. QED
  BY <1>1, <1>2, <1>3 DEF IInv, RequestsOK, OneHolder, Held, HeldBy, At, Busy, Drawn

LEMMA StepKeeps == IInv /\ [Next]_vars => IInv'
<1> SUFFICES ASSUME IInv, [Next]_vars PROVE IInv'
  OBVIOUS
<1>1. CASE UNCHANGED vars
  BY <1>1 DEF vars, IInv, RequestsOK, OneHolder, Held, HeldBy, At, Busy, Drawn, ReceiptsAreExact
<1>2. ASSUME NEW w \in Workers, NEW todo \in Selections, Match(w, todo) PROVE IInv'
  BY <1>2, BeginKeeps DEF Match
<1>3. ASSUME NEW w \in Workers, NEW r \in runs, Retry(w, r) PROVE IInv'
  BY <1>3, BeginKeeps DEF Retry
<1>. QED
  BY <1>1, <1>2, <1>3, UnsentKeeps, AskKeeps, CommitKeeps, RecordKeeps, AbandonKeeps,
     ResultsKeep DEF Next

(* Whatever is rolled back, retried or asked concurrently, an identity that *)
(* was given to Gate stands for one run at most, and a result filed under   *)
(* it is of that run's intake and answer (match_orchestrator.py:66).        *)
THEOREM ReceiptsStayExact == Spec => []ReceiptsAreExact
<1>1. Init => IInv
  BY InitKeeps
<1>2. IInv /\ [Next]_vars => IInv'
  BY StepKeeps
<1>3. IInv => ReceiptsAreExact
  BY DEF IInv
<1>. QED
  BY <1>1, <1>2, <1>3, PTL DEF Spec

-----------------------------------------------------------------------------
(* Types, where n is the next run id and k counts requests.  A run that      *)
(* failed keeps no id of its own until it is recorded; one that ended well   *)
(* has the id it was given, and retries an earlier one, if any.             *)
RunTyped(r, n, k) ==
  /\ DOMAIN r = RunFields
  /\ r.intake \in Intakes /\ r.attempt \in 1..k /\ r.retryOf \in 0..(n - 1)
  /\ r.answer = None \/ r.answer \subseteq Buyers

Numbered(r, n) == r.id \in 1..(n - 1) /\ r.retryOf \in 0..(r.id - 1)

DoneTyped(r, n, k) ==
  RunTyped(r, n, k) /\ Numbered(r, n) /\ r.state = "ok" /\ r.answer \subseteq Buyers

RequestTyped(q, n, k) ==
  q.phase # "idle" =>
    /\ DOMAIN q = RequestFields /\ q.phase \in {"open", "failing"}
    /\ q.todo \in Seq(Intakes) /\ q.attempt \in 1..k /\ q.retryOf \in 0..(n - 1)
    /\ q.phase = "open" => \A x \in q.done : DoneTyped(x, n, k)
    /\ q.phase = "failing" => RunTyped(q.cur, n, k)

RunsTyped(rs, n, k) ==
  \A r \in rs : RunTyped(r, n, k) /\ Numbered(r, n) /\ r.state \in RunStates \ {"pending"}

ResultOf(ops) ==
  [op : ops, intake : Intakes, buyer : Buyers, state : {"pending", "accepted", "rejected"}]
LineOf(ids) == [intake : Intakes, run : ids, buyer : Buyers]

ShownTyped ==
  /\ results \subseteq ResultOf({r.op : r \in runs})
  /\ lines \subseteq LineOf({r.id : r \in runs})
  /\ matched \subseteq Intakes

Types ==
  /\ nextId \in Nat \ {0} /\ requests \in 0..MaxRequests
  /\ DOMAIN req = Workers
  /\ \A w \in Workers : RequestTyped(req[w], nextId, requests)
  /\ RunsTyped(runs, nextId, requests)
  /\ ShownTyped

(* Ids and requests only grow, and types with them.                         *)
LEMMA TypesGrow ==
  ASSUME NEW n \in Nat, NEW m \in Nat, NEW k \in Nat, NEW l \in Nat, n <= m, k <= l
  PROVE  /\ \A r : RunTyped(r, n, k) => RunTyped(r, m, l)
         /\ \A r : Numbered(r, n) => Numbered(r, m)
         /\ \A r : DoneTyped(r, n, k) => DoneTyped(r, m, l)
         /\ \A q : RequestTyped(q, n, k) => RequestTyped(q, m, l)
         /\ \A rs : RunsTyped(rs, n, k) => RunsTyped(rs, m, l)
  <1>1. \A r : RunTyped(r, n, k) => RunTyped(r, m, l)
    BY DEF RunTyped
  <1>2. \A r : Numbered(r, n) => Numbered(r, m)
    BY DEF Numbered
  <1>3. \A r : DoneTyped(r, n, k) => DoneTyped(r, m, l)
    BY <1>1, <1>2, Zenon DEF DoneTyped
  <1>4. \A q : RequestTyped(q, n, k) => RequestTyped(q, m, l)
    <2>1. (1..k) \subseteq 1..l /\ (0..(n - 1)) \subseteq 0..(m - 1)
      OBVIOUS
    <2> QED
      BY <1>1, <1>3, <2>1, Zenon DEF RequestTyped
  <1>5. \A rs : RunsTyped(rs, n, k) => RunsTyped(rs, m, l)
    BY <1>1, <1>2, Zenon DEF RunsTyped
  <1> QED
    BY <1>1, <1>2, <1>3, <1>4, <1>5

(* A request of w becomes q, and nothing is committed.                      *)
LEMMA RequestTypes ==
  ASSUME Types, NEW w \in Workers, NEW q, req' = [req EXCEPT ![w] = q], UNCHANGED db,
         nextId' \in {nextId, nextId + 1}, requests' \in {requests, requests + 1},
         requests' <= MaxRequests, RequestTyped(q, nextId', requests')
  PROVE  Types'
  <1>1. /\ nextId' \in Nat \ {0} /\ requests' \in 0..MaxRequests
        /\ nextId <= nextId' /\ requests <= requests'
        /\ nextId \in Nat /\ requests \in Nat /\ requests' \in Nat /\ nextId' \in Nat
    BY MatchAssumption DEF Types
  <1>2. \A v \in Workers : req'[v] = IF v = w THEN q ELSE req[v]
    BY DEF Types
  <1>3. \A v \in Workers : RequestTyped(req[v], nextId', requests')
    BY <1>1, TypesGrow DEF Types
  <1>4. \A v \in Workers : RequestTyped(req'[v], nextId', requests')
    BY <1>2, <1>3, Zenon
  <1>5. RunsTyped(runs', nextId', requests')
    BY <1>1, TypesGrow DEF Types, db
  <1>6. ShownTyped'
    BY DEF Types, ShownTyped, db
  <1> QED
    BY <1>1, <1>4, <1>5, <1>6 DEF Types

LEMMA BeginTyped ==
  ASSUME Types, NEW w \in Workers, NEW todo \in Seq(Intakes), NEW retryOf \in 0..(nextId - 1),
         NEW attempt \in 1..(requests + 1), Begin(w, todo, retryOf, attempt)
  PROVE  Types'
  <1> DEFINE q == [phase |-> "open", todo |-> todo, retryOf |-> retryOf,
                   attempt |-> attempt, cur |-> None, class |-> "unknown",
                   done |-> {}, lines |-> lines, matched |-> matched]
  <1>1. req' = [req EXCEPT ![w] = q] /\ UNCHANGED <<db, nextId>> /\ requests' = requests + 1
        /\ requests < MaxRequests
    BY DEF Begin
  <1>2. /\ DOMAIN q = RequestFields /\ q.phase = "open" /\ q.done = {}
        /\ q.todo = todo /\ q.retryOf = retryOf /\ q.attempt = attempt
    BY DEF RequestFields
  <1> HIDE DEF q
  <1>3. RequestTyped(q, nextId', requests')
    BY <1>1, <1>2 DEF RequestTyped
  <1>4. requests' <= MaxRequests
    BY <1>1, MatchAssumption DEF Types
  <1> QED
    BY <1>1, <1>3, <1>4, RequestTypes

LEMMA AbandonTyped ==
  ASSUME Types, NEW w \in Workers, Abandon(w) PROVE Types'
  <1>1. RequestTyped(Idle, nextId', requests')
    BY DEF RequestTyped, Idle
  <1>2. requests' \in {requests, requests + 1} /\ requests' <= MaxRequests
    BY MatchAssumption DEF Abandon, Types
  <1> QED
    BY <1>1, <1>2, RequestTypes DEF Abandon

(* The next run of a request.                                               *)
LEMMA NewRunTyped ==
  ASSUME Types, NEW w \in Workers, At(w, "open"), req[w].todo # <<>>
  PROVE  LET x == NewRun(w, "pending")
         IN RunTyped(x, nextId, requests) /\ x.id = nextId
  <1>1. req[w].todo \in Seq(Intakes) /\ req[w].attempt \in 1..requests
        /\ req[w].retryOf \in 0..(nextId - 1)
    BY DEF Types, RequestTyped, At
  <1>2. Head(req[w].todo) \in Intakes
    BY <1>1
  <1> QED
    BY <1>1, <1>2 DEF NewRun, RunTyped, RunFields

LEMMA FailTyped ==
  ASSUME Types, NEW w \in Workers, At(w, "open"), NEW x, NEW c, Fail(w, x, c),
         UNCHANGED <<db, requests>>, nextId' \in {nextId, nextId + 1},
         RunTyped(x, nextId, requests)
  PROVE  Types'
  <1> DEFINE q == [req[w] EXCEPT !.phase = "failing", !.cur = x, !.class = c]
  <1>0. RequestTyped(req[w], nextId, requests) /\ req[w].phase = "open"
    BY DEF Types, At
  <1>1. req' = [req EXCEPT ![w] = q]
    BY DEF Fail
  <1>2. /\ DOMAIN q = RequestFields /\ q.phase = "failing" /\ q.cur = x
        /\ q.todo = req[w].todo /\ q.attempt = req[w].attempt /\ q.retryOf = req[w].retryOf
    BY <1>0 DEF RequestTyped, RequestFields
  <1> HIDE DEF q
  <1>3. RequestTyped(q, nextId, requests)
    BY <1>0, <1>2 DEF RequestTyped
  <1>4. /\ requests' <= MaxRequests /\ requests' = requests /\ nextId <= nextId'
        /\ requests <= requests' /\ nextId \in Nat /\ nextId' \in Nat /\ requests \in Nat
        /\ requests' \in Nat
    BY MatchAssumption DEF Types
  <1>5. RequestTyped(q, nextId', requests')
    BY <1>3, <1>4, TypesGrow
  <1> QED
    BY <1>1, <1>4, <1>5, RequestTypes

LEMMA UnsentTyped ==
  ASSUME Types, NEW w \in Workers, Unsent(w) PROVE Types'
  <1>1. PICK c \in Classes : Fail(w, NewRun(w, "pending"), c)
    BY DEF Unsent
  <1> QED
    BY <1>1, NewRunTyped, FailTyped DEF Unsent

LEMMA AskTyped ==
  ASSUME Types, NEW w \in Workers, Ask(w) PROVE Types'
  <1> DEFINE new == NewRun(w, "pending")
             run == [new EXCEPT !.op = Identity(new)]
             Answered(answer) == [run EXCEPT !.answer = answer]
             Ended(answer) == [Answered(answer) EXCEPT !.state = "ok"]
  <1>1. /\ At(w, "open") /\ req[w].todo # <<>> /\ nextId' = nextId + 1
        /\ UNCHANGED <<db, requests>>
        /\ \/ \E c \in Classes : Fail(w, run, c)
           \/ \E answer \in SUBSET Buyers :
                \/ \E c \in Classes \ {"retryable"} : Fail(w, Answered(answer), c)
                \/ req' = [req EXCEPT ![w].todo = Tail(@), ![w].done = @ \cup {Ended(answer)}]
    BY DEF Ask
  <1>2. RunTyped(new, nextId, requests) /\ new.id = nextId
    BY <1>1, NewRunTyped
  <1> HIDE DEF new
  <1>3. RunTyped(run, nextId, requests) /\ run.id = nextId
    BY <1>2 DEF RunTyped, RunFields
  <1> HIDE DEF run
  <1>4. ASSUME NEW answer \in SUBSET Buyers
        PROVE  RunTyped(Answered(answer), nextId, requests) /\ Answered(answer).id = nextId
               /\ Answered(answer).answer = answer
    BY <1>3 DEF RunTyped, RunFields
  <1> HIDE DEF Answered
  <1>5. ASSUME NEW answer \in SUBSET Buyers
        PROVE  /\ RunTyped(Ended(answer), nextId, requests) /\ Ended(answer).id = nextId
               /\ Ended(answer).answer = answer /\ Ended(answer).state = "ok"
    BY <1>4 DEF RunTyped, RunFields
  <1> HIDE DEF Ended
  <1>6. nextId' \in {nextId, nextId + 1}
    BY <1>1
  <1>7. CASE \E c \in Classes : Fail(w, run, c)
    BY <1>1, <1>3, <1>6, <1>7, FailTyped
  <1>8. CASE \E answer \in SUBSET Buyers, c \in Classes : Fail(w, Answered(answer), c)
    BY <1>1, <1>4, <1>6, <1>8, FailTyped
  <1>9. ASSUME NEW answer \in SUBSET Buyers,
               req' = [req EXCEPT ![w].todo = Tail(@), ![w].done = @ \cup {Ended(answer)}]
        PROVE  Types'
    <2> DEFINE q == [req[w] EXCEPT !.todo = Tail(@), !.done = @ \cup {Ended(answer)}]
    <2>1. req' = [req EXCEPT ![w] = q]
      BY <1>9 DEF Types
    <2>2. RequestTyped(req[w], nextId, requests) /\ req[w].phase = "open"
      BY <1>1 DEF Types, At
    <2>3. /\ nextId \in Nat /\ nextId' \in Nat /\ requests \in Nat /\ requests' \in Nat
          /\ nextId <= nextId' /\ requests <= requests' /\ requests' <= MaxRequests
          /\ nextId \in 1..(nextId' - 1)
      BY <1>1, MatchAssumption DEF Types
    <2>4. RequestTyped(req[w], nextId', requests')
      BY <2>2, <2>3, TypesGrow
    <2>5. DoneTyped(Ended(answer), nextId', requests')
      <3>1. RunTyped(Ended(answer), nextId', requests')
        BY <1>5, <2>3, TypesGrow
      <3>2. Numbered(Ended(answer), nextId')
        BY <1>5, <2>3 DEF Numbered, RunTyped
      <3> QED
        BY <1>5, <3>1, <3>2 DEF DoneTyped
    <2>6. /\ DOMAIN q = RequestFields /\ q.phase = "open"
          /\ q.todo = Tail(req[w].todo) /\ q.attempt = req[w].attempt
          /\ q.retryOf = req[w].retryOf /\ q.done = req[w].done \cup {Ended(answer)}
      BY <2>2 DEF RequestTyped, RequestFields
    <2>7. Tail(req[w].todo) \in Seq(Intakes)
      BY <1>1, <2>2 DEF RequestTyped
    <2> HIDE DEF q
    <2>8. RequestTyped(q, nextId', requests')
      BY <2>2, <2>4, <2>5, <2>6, <2>7 DEF RequestTyped
    <2>9. requests' \in {requests, requests + 1}
      BY <1>1
    <2> QED
      BY <1>1, <1>6, <2>1, <2>3, <2>8, <2>9, RequestTypes
  <1> QED
    BY <1>1, <1>7, <1>8, <1>9

(* A committed request leaves the session, and its runs are numbered.       *)
LEMMA RunsTypes ==
  ASSUME Types, NEW w \in Workers, NEW N, req' = [req EXCEPT ![w] = Idle],
         runs' = runs \cup N, RunsTyped(N, nextId', requests'), ShownTyped',
         nextId' \in {nextId, nextId + 1}, requests' = requests
  PROVE  Types'
  <1>1. /\ nextId' \in Nat \ {0} /\ requests' \in 0..MaxRequests
        /\ nextId <= nextId' /\ requests <= requests'
        /\ nextId \in Nat /\ requests \in Nat /\ requests' \in Nat /\ nextId' \in Nat
    BY MatchAssumption DEF Types
  <1>2. \A v \in Workers : req'[v] = IF v = w THEN Idle ELSE req[v]
    BY DEF Types
  <1>3. \A v \in Workers : RequestTyped(req[v], nextId', requests')
    BY <1>1, TypesGrow DEF Types
  <1>4. RequestTyped(Idle, nextId', requests')
    BY DEF RequestTyped, Idle
  <1>5. \A v \in Workers : RequestTyped(req'[v], nextId', requests')
    BY <1>2, <1>3, <1>4, Zenon
  <1>6. RunsTyped(runs, nextId', requests')
    BY <1>1, TypesGrow DEF Types
  <1>7. RunsTyped(runs', nextId', requests')
    BY <1>6, Zenon DEF RunsTyped
  <1>8. DOMAIN req' = Workers
    BY DEF Types
  <1> QED
    BY <1>1, <1>5, <1>7, <1>8 DEF Types

LEMMA CommitTyped ==
  ASSUME Types, NEW w \in Workers, Commit(w) PROVE Types'
  <1> DEFINE done == req[w].done
  <1>1. /\ At(w, "open") /\ runs' = runs \cup done /\ results' = results \cup ResultsOf(done)
        /\ req' = [req EXCEPT ![w] = Idle] /\ nextId' = nextId /\ requests' = requests
        /\ lines' = (lines \ Of(req[w].lines, done)) \cup LinesOf(done)
        /\ matched' = matched \cup NewlyMatched(w)
    BY DEF Commit
  <1>2. \A x \in done : DoneTyped(x, nextId, requests)
    BY <1>1 DEF Types, RequestTyped, At
  <1>3. NewlyMatched(w) \subseteq Intakes
    BY <1>2 DEF NewlyMatched, DoneTyped, RunTyped
  <1> HIDE DEF done
  <1>4. RunsTyped(done, nextId', requests')
    BY <1>1, <1>2 DEF RunsTyped, DoneTyped, RunStates
  <1>5. results' \subseteq ResultOf({r.op : r \in runs'})
    <2>1. ASSUME NEW x \in results PROVE x \in ResultOf({r.op : r \in runs'})
      BY <1>1, <2>1 DEF Types, ShownTyped, ResultOf
    <2>2. ASSUME NEW x \in ResultsOf(done) PROVE x \in ResultOf({r.op : r \in runs'})
      <3>1. PICK r \in done : \E b \in r.answer :
              x = [op |-> r.op, intake |-> r.intake, buyer |-> b, state |-> "pending"]
        BY DEF ResultsOf
      <3>2. r.intake \in Intakes /\ r.answer \subseteq Buyers /\ r \in runs'
        BY <1>1, <1>2 DEF DoneTyped, RunTyped
      <3> QED
        BY <3>1, <3>2 DEF ResultOf
    <2> QED
      BY <1>1, <2>1, <2>2
  <1>6. lines' \subseteq LineOf({r.id : r \in runs'})
    <2>1. ASSUME NEW x \in lines PROVE x \in LineOf({r.id : r \in runs'})
      BY <1>1, <2>1 DEF Types, ShownTyped, LineOf
    <2>2. ASSUME NEW x \in LinesOf(done) PROVE x \in LineOf({r.id : r \in runs'})
      <3>1. PICK r \in done : \E b \in r.answer :
              x = [intake |-> r.intake, run |-> r.id, buyer |-> b]
        BY DEF LinesOf
      <3>2. r.intake \in Intakes /\ r.answer \subseteq Buyers /\ r \in runs'
        BY <1>1, <1>2 DEF DoneTyped, RunTyped
      <3> QED
        BY <3>1, <3>2 DEF LineOf
    <2> QED
      BY <1>1, <2>1, <2>2
  <1>7. ShownTyped'
    BY <1>1, <1>3, <1>5, <1>6 DEF ShownTyped, Types
  <1> QED
    BY <1>1, <1>4, <1>7, RunsTypes

LEMMA RecordTyped ==
  ASSUME Types, NEW w \in Workers, Record(w) PROVE Types'
  <1> DEFINE cur == req[w].cur
             x == [cur EXCEPT !.id = nextId, !.state = StateForFailure(req[w].class)]
  <1>1. /\ At(w, "failing") /\ runs' = runs \cup {x} /\ nextId' = nextId + 1
        /\ req' = [req EXCEPT ![w] = Idle] /\ UNCHANGED <<results, lines, matched, requests>>
    BY DEF Record
  <1>2. RunTyped(cur, nextId, requests) /\ nextId \in Nat \ {0} /\ requests \in Nat
    BY <1>1, MatchAssumption DEF Types, RequestTyped, At
  <1>3. StateForFailure(req[w].class) \in {"retryable", "failed", "degraded"}
    BY DEF StateForFailure
  <1> HIDE DEF cur
  <1>4. /\ RunTyped(x, nextId, requests) /\ x.id = nextId
        /\ x.state \in {"retryable", "failed", "degraded"}
    BY <1>2, <1>3 DEF RunTyped, RunFields
  <1> HIDE DEF x
  <1>5. RunTyped(x, nextId', requests') /\ Numbered(x, nextId')
    <2>1. nextId' \in Nat /\ nextId <= nextId' /\ requests' = requests /\ requests <= requests
      BY <1>1, <1>2
    <2>2. Numbered(x, nextId')
      BY <1>1, <1>2, <1>4 DEF Numbered, RunTyped
    <2> QED
      BY <1>2, <1>4, <2>1, <2>2, TypesGrow
  <1>6. RunsTyped({x}, nextId', requests')
    BY <1>4, <1>5 DEF RunsTyped, RunStates
  <1>7. ShownTyped'
    BY <1>1 DEF Types, ShownTyped, ResultOf, LineOf
  <1> QED
    BY <1>1, <1>6, <1>7, RunsTypes

LEMMA ResultTyped ==
  ASSUME Types, NEW x \in results, Review(x) \/ DeleteResult(x) PROVE Types'
  <1>1. UNCHANGED <<runs, lines, matched, nextId, req, requests>>
    BY DEF Review, DeleteResult
  <1>2. x \in ResultOf({r.op : r \in runs})
    BY DEF Types, ShownTyped
  <1>3. \A s \in {"accepted", "rejected"} : [x EXCEPT !.state = s] \in ResultOf({r.op : r \in runs})
    BY <1>2 DEF ResultOf
  <1>4. results' \subseteq ResultOf({r.op : r \in runs})
    BY <1>3 DEF Types, ShownTyped, Review, DeleteResult
  <1>5. ShownTyped'
    BY <1>1, <1>4 DEF Types, ShownTyped
  <1> QED
    BY <1>1, <1>5 DEF Types

LEMMA StepTyped == Types /\ [Next]_vars => Types'
  <1> SUFFICES ASSUME Types, [Next]_vars PROVE Types'
    OBVIOUS
  <1>1. CASE UNCHANGED vars
    BY <1>1 DEF vars, Types, ShownTyped
  <1>2. ASSUME NEW w \in Workers, NEW todo \in Selections, Match(w, todo) PROVE Types'
    <2>1. todo \in Seq(Intakes) /\ 0 \in 0..(nextId - 1) /\ 1 \in 1..(requests + 1)
      BY MatchAssumption DEF Types
    <2> QED
      BY <1>2, <2>1, BeginTyped DEF Match
  <1>3. ASSUME NEW w \in Workers, NEW r \in runs, Retry(w, r) PROVE Types'
    <2>1. /\ RunTyped(r, nextId, requests) /\ Numbered(r, nextId)
          /\ nextId \in Nat /\ requests \in Nat
      BY MatchAssumption DEF Types, RunsTyped
    <2>2. <<r.intake>> \in Seq(Intakes)
      BY <2>1 DEF RunTyped
    <2>3. r.id \in 0..(nextId - 1) /\ r.attempt + 1 \in 1..(requests + 1)
      BY <2>1 DEF RunTyped, Numbered
    <2> QED
      BY <1>3, <2>2, <2>3, BeginTyped DEF Retry
  <1>4. CASE Next
    BY <1>2, <1>3, <1>4, UnsentTyped, AskTyped, CommitTyped, RecordTyped, AbandonTyped,
       ResultTyped, Zenon DEF Next
  <1> QED
    BY <1>1, <1>4

(* Every committed row has its type: a retry follows the run it retries, and *)
(* results and lines are of committed runs, whatever was rolled back.       *)
THEOREM TypeCorrect == Spec => []TypeOK
  <1>1. Init => Types
    BY MatchAssumption DEF Init, Types, RequestTyped, RunsTyped, ShownTyped, Idle
  <1>2. Types => TypeOK
    <2> SUFFICES ASSUME Types PROVE TypeOK
      OBVIOUS
    <2>1. \A r \in runs : r.attempt \in 1..MaxRequests
      BY MatchAssumption DEF Types, RunsTyped, RunTyped
    <2> QED
      BY <2>1 DEF Types, TypeOK, RunsTyped, RunTyped, Numbered, ShownTyped, ResultOf, LineOf
  <1> QED
    BY <1>1, <1>2, StepTyped, PTL DEF Spec
=============================================================================
