------------------------ MODULE TransactionCloseProofs ------------------------
(* Proofs about TransactionClose for any number of transactions, moves and   *)
(* concurrent requests, any margins and any commission rate, and about the   *)
(* arithmetic of commissions, settlements and penalties.                     *)
EXTENDS OrderlyRequests, CommissionRules, SettlementRules, FiniteSetTheorems,
        WellFoundedInduction, TLAPS

LEMMA TypingBegin ==
  ASSUME TypeOK, NEW s \in Session, NEW op, NEW t \in Tx,
         NEW ms \in SUBSET Move, NEW v \in Int, Begin(s, op, t, ms, v)
  PROVE  TypeOK'
  <1>1. [op |-> op, tx |-> t, moves |-> ms, value |-> v, step |-> "begun"] \in Request
    BY DEF Begin, Request, Step
  <1>2. request' \in [Session -> Request \cup {NoRequest}]
    BY <1>1 DEF Begin, TypeOK
  <1> QED
    BY <1>2 DEF Begin, TypeOK, txVars

LEMMA CommissionType ==
  ASSUME TypeOK, NEW t \in Tx PROVE CommissionAt(t) \in Int
  BY RateAssumption DEF CommissionAt, TypeOK

LEMMA MoveType ==
  ASSUME NEW m \in Move
  PROVE  m.tx \in Tx /\ m.kind \in Kind
  BY MoveAssumption DEF Kind

LEMMA RequestType ==
  ASSUME TypeOK, NEW s \in Session, ~Idle(s)
  PROVE  /\ request[s] \in Request
         /\ request[s].tx \in Tx
         /\ request[s].moves \subseteq Move
         /\ request[s].value \in Int
  BY DEF TypeOK, Idle, Request

LEMMA TypingCommit ==
  ASSUME TypeOK, NEW s \in Session, Commit(s)
  PROVE  TypeOK'
  <1> DEFINE r == request[s]
  <1>1. ~Idle(s) /\ Committing(s)
    BY DEF Commit, Committing, CommitClose, CommitPost, CommitMoveState,
           CommitLinks, CommitVerify, CommitRevoke, CommitWrite, Running
  <1>2. r.tx \in Tx /\ r.moves \subseteq Move /\ r.value \in Int
    BY <1>1, RequestType
  <1>3. /\ request' \in [Session -> Request \cup {NoRequest}]
        /\ stale' \subseteq Session
        /\ drifted' \subseteq Session
        /\ loadClosed' = loadClosed /\ closeLock' = closeLock
    BY <1>1 DEF Committing, TypeOK
  <1>4. ASSUME NEW st \in MoveState, NEW ms, SetMoves(ms, st)
        PROVE  moveState' \in [Move -> MoveState]
    BY <1>4 DEF SetMoves, TypeOK
  <1> SUFFICES /\ state' \in [Tx -> {"active", "closed"}]
               /\ margin' \in [Tx -> Int]
               /\ locked' \subseteq Tx
               /\ lockedAmount' \in [Tx -> Int]
               /\ docs' \subseteq Tx
               /\ compliant' \subseteq Tx
               /\ linked' \subseteq Move
               /\ moveState' \in [Move -> MoveState]
    BY <1>3 DEF TypeOK
  <1>5. CASE CommitClose(s)
    BY <1>2, <1>5 DEF CommitClose, TypeOK
  <1>6. CASE CommitPost(s)
    BY <1>2, <1>4, <1>6 DEF CommitPost, TypeOK, MoveState
  <1>7. CASE CommitMoveState(s)
    BY <1>2, <1>4, <1>7 DEF CommitMoveState, TypeOK, MoveState, txVars
  <1>8. CASE CommitLinks(s)
    BY <1>2, <1>8 DEF CommitLinks, TypeOK
  <1>9. CASE CommitVerify(s)
    BY <1>2, <1>4, <1>9 DEF CommitVerify, Completeness, TypeOK, MoveState
  <1>10. CASE CommitRevoke(s)
    BY <1>2, <1>10 DEF CommitRevoke, Completeness, TypeOK
  <1>11. CASE CommitWrite(s)
    BY <1>2, <1>11 DEF CommitWrite, TypeOK
  <1> QED
    BY <1>5, <1>6, <1>7, <1>8, <1>9, <1>10, <1>11 DEF Commit

(* TypeOK: every variable keeps its type.                                    *)
THEOREM Typing == Spec => []TypeOK
  <1>1. ASSUME Init PROVE TypeOK
    <2>1. margin \in [Tx -> Int]
      BY <1>1, MarginAssumption DEF Init
    <2>2. moveState \in [Move -> MoveState]
      BY <1>1 DEF Init, MoveState
    <2> QED
      BY <1>1, <2>1, <2>2 DEF Init, TypeOK
  <1>2. TypeOK /\ [Next]_vars => TypeOK'
    <2> SUFFICES ASSUME TypeOK, [Next]_vars PROVE TypeOK'
      OBVIOUS
    <2>1. ASSUME NEW s \in Session, BeginOnTx(s) PROVE TypeOK'
      <3>1. PICK t \in Tx : \/ BeginClose(s, t) \/ BeginVerify(s, t) \/ BeginRevoke(s, t)
                            \/ BeginWriteActive(s, t) \/ BeginWriteClosed(s, t) \/ BeginWriteUnlocked(s, t)
        BY <2>1 DEF BeginOnTx
      <3>2. /\ AutoPosted(t) \in SUBSET Move
            /\ {} \in SUBSET Move
            /\ 0 \in Int
        BY DEF AutoPosted, Pending, MovesOf, TypeOK
      <3> QED
        BY <3>1, <3>2, TypingBegin, CommissionType
           DEF BeginClose, BeginVerify, BeginRevoke, BeginWriteActive, BeginWriteClosed,
               BeginWriteUnlocked
    <2>2. ASSUME NEW s \in Session, BeginOnMove(s) PROVE TypeOK'
      <3>1. PICK m \in Move :
               \/ BeginCancel(s, m) \/ BeginDraft(s, m)
               \/ \E v \in Margins : BeginPost(s, m, v) \/ BeginLink(s, m, v)
                                       \/ BeginUnlink(s, m, v) \/ BeginAmend(s, m, v)
        BY <2>2 DEF BeginOnMove
      <3>2. m.tx \in Tx /\ {m} \in SUBSET Move /\ 0 \in Int /\ Margins \subseteq Int
        BY MoveType, MarginAssumption
      <3> QED
        BY <3>1, <3>2, TypingBegin
           DEF BeginCancel, BeginDraft, BeginPost, BeginLink, BeginUnlink, BeginAmend
    <2>3. ASSUME NEW s \in Session, LockClose(s) \/ ApplyClose(s) PROVE TypeOK'
      <3>1. request[s] \in Request /\ request[s].tx \in Tx
        BY <2>3, RequestType DEF LockClose, ApplyClose, Running
      <3>2. \A st \in Step : [request[s] EXCEPT !.step = st] \in Request
        BY <3>1 DEF Request
      <3> QED
        BY <2>3, <3>1, <3>2 DEF LockClose, ApplyClose, TypeOK, txVars, Step
    <2>4. ASSUME NEW s \in Session, Commit(s) PROVE TypeOK'
      BY <2>4, TypingCommit
    <2>5. ASSUME NEW s \in Session, Abort(s) PROVE TypeOK'
      BY <2>5 DEF Abort, TypeOK, txVars
    <2>6. ASSUME NEW t \in Tx, CloseLoad(t) PROVE TypeOK'
      BY <2>6 DEF CloseLoad, TypeOK, txVars, sessionVars
    <2>7. ASSUME NEW t \in Tx, DocsDrift(t) PROVE TypeOK'
      BY <2>7 DEF DocsDrift, TypeOK
    <2>8. CASE UNCHANGED vars
      BY <2>8 DEF vars, TypeOK
    <2> QED
      BY <2>1, <2>2, <2>3, <2>4, <2>5, <2>6, <2>7, <2>8 DEF Next
  <1> QED
    BY <1>1, <1>2, PTL DEF Spec

-----------------------------------------------------------------------------
(* A committing request changes the row of no transaction but its own, and  *)
(* not that one unless it writes it: the request of another session that    *)
(* writes the row and stays fresh sees it unchanged.                        *)
Row(t) == <<state[t], margin[t], lockedAmount[t], t \in locked, t \in docs>>

LEMMA RowKept ==
  ASSUME TypeOK, NEW q \in Session, Commit(q), NEW t \in Tx,
         t \notin WritesTx(request[q])
  PROVE  /\ state'[t] = state[t] /\ margin'[t] = margin[t]
         /\ lockedAmount'[t] = lockedAmount[t]
         /\ (t \in locked' <=> t \in locked)
         /\ (t \in docs' <=> t \in docs)
  <1> DEFINE r == request[q]
  <1>1. ~Idle(q) /\ r.tx \in Tx
    BY RequestType DEF Commit, Committing, CommitClose, CommitPost, CommitMoveState,
           CommitLinks, CommitVerify, CommitRevoke, CommitWrite, Running
  <1>2. CASE CommitClose(q)
    <2>1. t # r.tx
      BY <1>2 DEF CommitClose, Running, WritesTx
    <2> QED
      BY <1>1, <1>2, <2>1 DEF CommitClose, TypeOK
  <1>3. CASE CommitPost(q)
    <2>1. WritesTx(r) # {} => t # r.tx
      BY <1>3 DEF WritesTx
    <2> QED
      BY <1>1, <1>3, <2>1 DEF CommitPost, TypeOK
  <1>4. CASE CommitMoveState(q)
    BY <1>4 DEF CommitMoveState, txVars
  <1>5. CASE CommitLinks(q)
    <2>1. t # r.tx
      BY <1>5 DEF CommitLinks, Running, WritesTx
    <2> QED
      BY <1>1, <1>5, <2>1 DEF CommitLinks, TypeOK
  <1>6. CASE CommitVerify(q)
    <2>1. t # r.tx
      BY <1>6 DEF CommitVerify, Running, WritesTx
    <2> QED
      BY <1>1, <1>6, <2>1 DEF CommitVerify, Completeness, TypeOK
  <1>7. CASE CommitRevoke(q)
    <2>1. t # r.tx
      BY <1>7 DEF CommitRevoke, Running, WritesTx
    <2> QED
      BY <1>1, <1>7, <2>1 DEF CommitRevoke, Completeness, TypeOK
  <1>8. CASE CommitWrite(q)
    <2>1. t # r.tx
      BY <1>8 DEF CommitWrite, Running, WritesTx
    <2> QED
      BY <1>1, <1>8, <2>1 DEF CommitWrite, TypeOK
  <1> QED
    BY <1>2, <1>3, <1>4, <1>5, <1>6, <1>7, <1>8 DEF Commit

(* Freshness of a request reads nothing but the row of its transaction and  *)
(* whether the load is closed.                                              *)
LEMMA FreshReads ==
  ASSUME TypeOK, NEW s \in Session, NEW r \in Request, FreshRequest(s, r),
         state'[r.tx] = state[r.tx], margin'[r.tx] = margin[r.tx],
         lockedAmount'[r.tx] = lockedAmount[r.tx],
         r.tx \in locked' <=> r.tx \in locked,
         s \notin drifted' => s \notin drifted /\ (r.tx \in docs' <=> r.tx \in docs),
         loadClosed \subseteq loadClosed'
  PROVE  FreshRequest(s, r)'
  BY DEF FreshRequest, CommissionAt

LEMMA FreshCommit ==
  ASSUME TypeOK, Fresh, NEW q \in Session, Commit(q)
  PROVE  Fresh'
  <1>1. Committing(q)
    BY DEF Commit, CommitClose, CommitPost, CommitMoveState,
           CommitLinks, CommitVerify, CommitRevoke, CommitWrite
  <1> SUFFICES ASSUME NEW s \in Session, ~Idle(s)'
               PROVE  /\ \A m \in request'[s].moves : m.tx = request'[s].tx
                      /\ s \notin stale' => FreshRequest(s, request[s])'
    BY DEF Fresh
  <1>2. s # q /\ request'[s] = request[s] /\ ~Idle(s)
    BY <1>1 DEF Committing, Idle, TypeOK
  <1>3. PICK r \in Request : r = request[s] /\ r = request'[s]
    BY <1>2, RequestType
  <1>4. \A m \in r.moves : m.tx = r.tx
    BY <1>2, <1>3 DEF Fresh
  <1>5. ASSUME s \notin stale' PROVE FreshRequest(s, r)'
    <2>1. s \notin stale /\ ~Overlap(r, request[q])
      BY <1>1, <1>2, <1>3, <1>5 DEF Committing
    <2>2. FreshRequest(s, r)
      BY <1>2, <1>3, <2>1 DEF Fresh
    <2>3. CASE WritesTx(r) = {r.tx}
      <3>1. r.tx \notin WritesTx(request[q])
        BY <2>1, <2>3 DEF Overlap
      <3>2. r.tx \in Tx /\ loadClosed' = loadClosed /\ (s \in drifted' <=> s \in drifted)
        BY <1>1, <1>2 DEF Request, Committing
      <3> QED
        BY <2>2, <3>1, <3>2, RowKept, FreshReads
    <2>4. CASE WritesTx(r) # {r.tx}
      <3>1. r.op \in {"button_cancel", "button_draft"} \/ \A m \in r.moves : ~Origin(m)
        BY <2>4 DEF WritesTx
      <3>2. ~(r.op \in {"action_close", "link", "unlink"})
        BY <2>4 DEF WritesTx
      <3> QED
        BY <3>1, <3>2 DEF FreshRequest, Origin
    <2> QED
      BY <2>3, <2>4
  <1> QED
    BY <1>3, <1>4, <1>5

LEMMA FreshBegin ==
  ASSUME TypeOK, Fresh, NEW s \in Session, NEW op, NEW t \in Tx,
         NEW ms \in SUBSET Move, NEW v \in Int, Begin(s, op, t, ms, v),
         \A m \in ms : m.tx = t,
         FreshRequest(s, [op |-> op, tx |-> t, moves |-> ms, value |-> v, step |-> "begun"])
  PROVE  Fresh'
  <1> DEFINE new == [op |-> op, tx |-> t, moves |-> ms, value |-> v, step |-> "begun"]
  <1>1. UNCHANGED <<state, margin, locked, lockedAmount, docs, loadClosed, stale, drifted>>
    BY DEF Begin, txVars
  <1>2. \A q, r : FreshRequest(q, r) => FreshRequest(q, r)'
    BY <1>1 DEF FreshRequest, CommissionAt
  <1> SUFFICES ASSUME NEW q \in Session, ~Idle(q)'
               PROVE  /\ \A m \in request'[q].moves : m.tx = request'[q].tx
                      /\ q \notin stale' => FreshRequest(q, request[q])'
    BY DEF Fresh
  <1>3. CASE q = s
    <2>1. request'[q] = new
      BY <1>3 DEF Begin, TypeOK
    <2>2. new.tx = t /\ new.moves = ms
      OBVIOUS
    <2>3. PICK r : r = new
      OBVIOUS
    <2>4. FreshRequest(q, r)'
      BY <1>2, <1>3, <2>3
    <2> QED
      BY <2>1, <2>2, <2>3, <2>4
  <1>4. CASE q # s
    <2>1. request'[q] = request[q] /\ ~Idle(q)
      BY <1>4 DEF Begin, TypeOK, Idle
    <2> QED
      BY <2>1, <1>1 DEF FreshRequest, CommissionAt, Fresh
  <1> QED
    BY <1>3, <1>4

LEMMA FreshStep ==
  ASSUME TypeOK, Fresh, NEW s \in Session,
         LockClose(s) \/ ApplyClose(s)
  PROVE  Fresh'
  <1>1. UNCHANGED <<state, margin, locked, lockedAmount, docs, loadClosed, stale, drifted>>
    BY DEF LockClose, ApplyClose, txVars
  <1>2. ~Idle(s) /\ request[s] \in Request
    BY RequestType DEF LockClose, ApplyClose, Running
  <1>3. PICK st : request' = [request EXCEPT ![s].step = st]
    BY DEF LockClose, ApplyClose
  <1>4. \A q \in Session : ~Idle(q)' =>
          /\ ~Idle(q)
          /\ request'[q].op = request[q].op /\ request'[q].tx = request[q].tx
          /\ request'[q].moves = request[q].moves
          /\ request'[q].value = request[q].value
    BY <1>2, <1>3 DEF TypeOK, Request, Idle
  <1> QED
    BY <1>1, <1>4 DEF Fresh, FreshRequest, CommissionAt, Origin

(* A drift leaves every row alone, and marks the requests on its transaction. *)
LEMMA DriftedFresh ==
  ASSUME TypeOK, Fresh, NEW t \in Tx, DocsDrift(t)
  PROVE  Fresh'
  <1>1. UNCHANGED <<state, margin, locked, lockedAmount, loadClosed, request, stale>>
    BY DEF DocsDrift
  <1> SUFFICES ASSUME NEW s \in Session, ~Idle(s), s \notin stale
               PROVE  FreshRequest(s, request[s])'
    BY <1>1 DEF Fresh, Idle
  <1>2. PICK r \in Request : r = request[s]
    BY RequestType
  <1>3. FreshRequest(s, r)
    BY <1>2 DEF Fresh
  <1>4. ASSUME s \notin drifted' PROVE s \notin drifted /\ (r.tx \in docs' <=> r.tx \in docs)
    BY <1>2, <1>4 DEF DocsDrift
  <1>5. FreshRequest(s, r)'
    BY <1>1, <1>3, <1>4, FreshReads
  <1> QED
    BY <1>1, <1>2, <1>5

(* Fresh is inductive: every open request that can still commit was planned *)
(* from what the database still holds.                                      *)
THEOREM Freshness == Spec => []Fresh
  <1>1. Init => Fresh
    BY DEF Init, Fresh, Idle
  <1>2. TypeOK /\ Fresh /\ [Next]_vars => Fresh'
    <2> SUFFICES ASSUME TypeOK, Fresh, [Next]_vars PROVE Fresh'
      OBVIOUS
    <2>1. ASSUME NEW s \in Session, BeginOnTx(s) PROVE Fresh'
      <3>1. PICK t \in Tx : \/ BeginClose(s, t) \/ BeginVerify(s, t) \/ BeginRevoke(s, t)
                            \/ BeginWriteActive(s, t) \/ BeginWriteClosed(s, t) \/ BeginWriteUnlocked(s, t)
        BY <2>1 DEF BeginOnTx
      <3>2. CASE BeginClose(s, t)
        <4>1. CommissionAt(t) \in Int
          BY CommissionType
        <4>2. FreshRequest(s, [op |-> "action_close", tx |-> t, moves |-> {},
                            value |-> CommissionAt(t), step |-> "begun"])
          BY <3>2 DEF BeginClose, CanClose, FreshRequest
        <4> QED
          BY <3>2, <4>1, <4>2, FreshBegin DEF BeginClose
      <3>3. CASE BeginVerify(s, t)
        <4>1. AutoPosted(t) \in SUBSET Move /\ \A m \in AutoPosted(t) : m.tx = t
          BY DEF AutoPosted, Pending, MovesOf, TypeOK
        <4>2. FreshRequest(s, [op |-> "action_verify", tx |-> t, moves |-> AutoPosted(t),
                            value |-> 0, step |-> "begun"])
          BY DEF FreshRequest
        <4> QED
          BY <3>3, <4>1, <4>2, FreshBegin DEF BeginVerify
      <3>4. CASE BeginRevoke(s, t) \/ BeginWriteActive(s, t)
                 \/ BeginWriteClosed(s, t) \/ BeginWriteUnlocked(s, t)
        <4>1. \A op \in {"revoke", "write_active", "write_closed", "write_unlocked"} :
                FreshRequest(s, [op |-> op, tx |-> t, moves |-> {}, value |-> 0,
                              step |-> "begun"])
          BY DEF FreshRequest
        <4> QED
          BY <3>4, <4>1, FreshBegin
             DEF BeginRevoke, BeginWriteActive, BeginWriteClosed, BeginWriteUnlocked
      <3> QED
        BY <3>1, <3>2, <3>3, <3>4
    <2>2. ASSUME NEW s \in Session, BeginOnMove(s) PROVE Fresh'
      <3>1. PICK m \in Move :
               \/ BeginCancel(s, m) \/ BeginDraft(s, m)
               \/ \E v \in Margins : BeginPost(s, m, v) \/ BeginLink(s, m, v)
                                       \/ BeginUnlink(s, m, v) \/ BeginAmend(s, m, v)
        BY <2>2 DEF BeginOnMove
      <3> DEFINE new(op, v) == [op |-> op, tx |-> m.tx, moves |-> {m}, value |-> v,
                                step |-> "begun"]
      <3>2. m.tx \in Tx /\ {m} \in SUBSET Move
        BY MoveType
      <3>3. CASE BeginCancel(s, m) \/ BeginDraft(s, m)
        <4>1. FreshRequest(s, new("button_cancel", 0)) /\ FreshRequest(s, new("button_draft", 0))
          BY DEF FreshRequest
        <4> QED
          BY <3>2, <3>3, <4>1, FreshBegin DEF BeginCancel, BeginDraft
      <3>4. ASSUME NEW v \in Margins,
                   BeginPost(s, m, v) \/ BeginLink(s, m, v)
                     \/ BeginUnlink(s, m, v) \/ BeginAmend(s, m, v)
            PROVE  Fresh'
        <4>1. v \in Int
          BY MarginAssumption
        <4>2. CASE BeginPost(s, m, v)
          <5>1. FreshRequest(s, new("action_post", v))
            BY <4>2 DEF BeginPost, CanPost, CanLink, FreshRequest
          <5> QED
            BY <3>2, <4>1, <4>2, <5>1, FreshBegin DEF BeginPost
        <4>3. CASE BeginLink(s, m, v)
          <5>1. FreshRequest(s, new("link", v))
            BY <4>3 DEF BeginLink, CanLink, FreshRequest
          <5> QED
            BY <3>2, <4>1, <4>3, <5>1, FreshBegin DEF BeginLink
        <4>4. CASE BeginUnlink(s, m, v)
          <5>1. FreshRequest(s, new("unlink", v))
            BY <4>4 DEF BeginUnlink, FreshRequest
          <5> QED
            BY <3>2, <4>1, <4>4, <5>1, FreshBegin DEF BeginUnlink
        <4>5. CASE BeginAmend(s, m, v)
          <5>1. FreshRequest(s, new("amend", v))
            BY DEF FreshRequest
          <5> QED
            BY <3>2, <4>1, <4>5, <5>1, FreshBegin DEF BeginAmend
        <4> QED
          BY <3>4, <4>2, <4>3, <4>4, <4>5
      <3> QED
        BY <3>1, <3>3, <3>4
    <2>3. ASSUME NEW s \in Session, LockClose(s) \/ ApplyClose(s) PROVE Fresh'
      BY <2>3, FreshStep
    <2>4. ASSUME NEW s \in Session, Commit(s) PROVE Fresh'
      BY <2>4, FreshCommit
    <2>5. ASSUME NEW s \in Session, Abort(s) PROVE Fresh'
      <3>1. UNCHANGED <<state, margin, locked, lockedAmount, docs, loadClosed>>
        BY <2>5 DEF Abort, txVars
      <3>2. \A q \in Session : ~Idle(q)' =>
              /\ request'[q] = request[q] /\ ~Idle(q)
              /\ q \notin stale' => q \notin stale
              /\ q \notin drifted' => q \notin drifted
        BY <2>5 DEF Abort, Idle, TypeOK
      <3> QED
        BY <3>1, <3>2 DEF Fresh, FreshRequest, CommissionAt, Origin
    <2>6. ASSUME NEW t \in Tx, CloseLoad(t) PROVE Fresh'
      BY <2>6 DEF CloseLoad, Fresh, FreshRequest, CommissionAt, Origin, txVars, sessionVars, Idle
    <2>7. ASSUME NEW t \in Tx, DocsDrift(t) PROVE Fresh'
      BY <2>7, DriftedFresh
    <2>8. CASE UNCHANGED vars
      BY <2>8 DEF vars, Fresh, FreshRequest, CommissionAt, Origin, Idle
    <2> QED
      BY <2>1, <2>2, <2>3, <2>4, <2>5, <2>6, <2>7, <2>8 DEF Next
  <1> QED
    BY <1>1, <1>2, Typing, PTL DEF Spec

-----------------------------------------------------------------------------
(* Only a commit changes the database, except for the load and what the      *)
(* documents depend on.                                                     *)
Kept == <<state, margin, locked, lockedAmount, linked, moveState>>

LEMMA OnlyCommits ==
  ASSUME TypeOK, [Next]_vars
  PROVE  \/ UNCHANGED Kept
         \/ \E s \in Session : Commit(s)
  <1>1. ASSUME NEW s \in Session, BeginOnTx(s) \/ BeginOnMove(s)
        PROVE  UNCHANGED Kept
    BY <1>1 DEF BeginOnTx, BeginOnMove, Begin, BeginClose, BeginVerify, BeginRevoke,
         BeginWriteActive, BeginWriteClosed, BeginWriteUnlocked, BeginCancel, BeginDraft, BeginPost,
         BeginLink, BeginUnlink, BeginAmend, Kept, txVars
  <1>2. ASSUME NEW s \in Session, LockClose(s) \/ ApplyClose(s) \/ Abort(s)
        PROVE  UNCHANGED Kept
    BY <1>2 DEF LockClose, ApplyClose, Abort, Kept, txVars
  <1>3. ASSUME NEW t \in Tx, CloseLoad(t) \/ DocsDrift(t) PROVE UNCHANGED Kept
    BY <1>3 DEF CloseLoad, DocsDrift, Kept, txVars
  <1>4. ASSUME UNCHANGED vars PROVE UNCHANGED Kept
    BY <1>4 DEF vars, Kept
  <1> QED
    BY <1>1, <1>2, <1>3, <1>4 DEF Next

(* What a close commits is what its guard validated, on the current row.    *)
LEMMA CloseFresh ==
  ASSUME TypeOK, Fresh, NEW s \in Session, CommitClose(s)
  PROVE  LET t == request[s].tx IN
         /\ t \in Tx /\ t \in loadClosed /\ margin[t] >= 0
         /\ s \notin drifted => t \in docs
         /\ state' = [state EXCEPT ![t] = "closed"]
         /\ locked' = locked \cup {t}
         /\ lockedAmount' = [lockedAmount EXCEPT ![t] = CommissionAt(t)]
  <1>1. ~Idle(s) /\ s \notin stale /\ request[s].op = "action_close"
    BY DEF CommitClose, Committing, Running
  <1>2. FreshRequest(s, request[s])
    BY <1>1 DEF Fresh
  <1> QED
    BY <1>1, <1>2, RequestType DEF CommitClose, FreshRequest

(* A transaction turns closed in the commit of a close, or of the write that *)
(* passes the guard with state and lock together.                           *)
LEMMA Closing ==
  ASSUME TypeOK, [Next]_vars, NEW t \in Tx, state[t] # "closed", state'[t] = "closed"
  PROVE  \E s \in Session : /\ Ends(s, t)
                            /\ CommitClose(s) \/ request[s].op = "write_closed"
  <1>1. PICK s \in Session : Commit(s)
    BY OnlyCommits DEF Kept
  <1>2. CommitClose(s) \/ CommitWrite(s)
    BY <1>1 DEF Commit, CommitPost, CommitMoveState, CommitLinks, CommitVerify, CommitRevoke, txVars
  <1>3. ~Idle(s) /\ Idle(s)' /\ request[s].tx \in Tx
    BY <1>2, RequestType DEF CommitClose, CommitWrite, Committing, Idle, TypeOK
  <1>4. CASE CommitClose(s)
    BY <1>3, <1>4 DEF CommitClose, Ends, TypeOK
  <1>5. CASE CommitWrite(s)
    BY <1>3, <1>5 DEF CommitWrite, Running, Ends, TypeOK
  <1> QED
    BY <1>2, <1>4, <1>5

(* CloseIsJustified: the commit that closes a transaction finds everything  *)
(* action_close validated true, and locks the commission of that margin,    *)
(* unless it is the closing write that the guard lets pass.                 *)
THEOREM ClosesAreJustified == Spec => CloseIsJustified
  <1> DEFINE Just(t) == /\ t \in loadClosed
                        /\ margin[t] >= 0
                        /\ t \in locked'
                        /\ lockedAmount'[t] = CommissionAt(t)
             A == \A t \in Tx :
        (state[t] # "closed" /\ state'[t] = "closed") =>
          \/ \E s \in Session : Ends(s, t) /\ request[s].op = "write_closed"
          \/ Just(t)
  <1>1. TypeOK /\ Fresh /\ [Next]_vars => A
    <2> SUFFICES ASSUME TypeOK, Fresh, [Next]_vars,
                        NEW t \in Tx, state[t] # "closed", state'[t] = "closed"
                 PROVE  \/ \E s \in Session : Ends(s, t) /\ request[s].op = "write_closed"
                        \/ Just(t)
      OBVIOUS
    <2>1. PICK s \in Session : Ends(s, t) /\ (CommitClose(s) \/ request[s].op = "write_closed")
      BY Closing
    <2>2. CASE CommitClose(s)
      BY <2>1, <2>2, CloseFresh DEF TypeOK, Ends
    <2> QED
      BY <2>1, <2>2
  <1> QED
    BY <1>1, Typing, Freshness, PTL DEF Spec, CloseIsJustified

(* CommissionFrozen: an amount once locked is never captured again.         *)
THEOREM LockedCommissionIsFrozen == Spec => CommissionFrozen
  <1> DEFINE A == \A t \in Tx :
        (t \in locked /\ t \in locked') => lockedAmount'[t] = lockedAmount[t]
  <1>1. TypeOK /\ Fresh /\ [Next]_vars => A
    <2> SUFFICES ASSUME TypeOK, Fresh, [Next]_vars, NEW t \in Tx, t \in locked
                 PROVE  lockedAmount'[t] = lockedAmount[t]
      OBVIOUS
    <2>1. CASE UNCHANGED lockedAmount
      BY <2>1
    <2>2. ASSUME NEW s \in Session, CommitClose(s) PROVE lockedAmount'[t] = lockedAmount[t]
      BY <2>2, CloseFresh DEF TypeOK, CommissionAt
    <2> QED
      BY <2>1, <2>2, OnlyCommits DEF Kept, txVars, Commit, CommitPost, CommitMoveState,
           CommitLinks, CommitVerify, CommitRevoke, CommitWrite
  <1> QED
    BY <1>1, Typing, Freshness, PTL DEF Spec, CommissionFrozen

(* ClosedLinksFrozen: no accounting link of a closed transaction moves.     *)
THEOREM ClosedLinksAreFrozen == Spec => ClosedLinksFrozen
  <1> DEFINE A == \A m \in Move :
        state[m.tx] = "closed" => (m \in linked' <=> m \in linked)
  <1>1. TypeOK /\ Fresh /\ [Next]_vars => A
    <2> SUFFICES ASSUME TypeOK, Fresh, [Next]_vars, NEW m \in Move, state[m.tx] = "closed"
                 PROVE  m \in linked' <=> m \in linked
      OBVIOUS
    <2>1. CASE UNCHANGED linked
      BY <2>1
    <2>2. ASSUME NEW s \in Session, CommitPost(s) \/ CommitLinks(s)
          PROVE  m \in linked' <=> m \in linked
      <3>1. ~Idle(s) /\ s \notin stale
        BY <2>2 DEF CommitPost, CommitLinks, Committing
      <3>2. FreshRequest(s, request[s]) /\ \A n \in request[s].moves : n.tx = request[s].tx
        BY <3>1 DEF Fresh
      <3>3. CASE CommitPost(s)
        BY <3>2, <3>3 DEF CommitPost, Running, FreshRequest
      <3>4. CASE CommitLinks(s) /\ request[s].op \in {"link", "unlink"}
        BY <3>2, <3>4 DEF CommitLinks, FreshRequest
      <3>5. CASE CommitLinks(s) /\ request[s].op = "amend"
        BY <3>5 DEF CommitLinks
      <3> QED
        BY <2>2, <3>3, <3>4, <3>5 DEF CommitLinks, Running
    <2> QED
      BY <2>1, <2>2, OnlyCommits DEF Kept, txVars, Commit, CommitClose, CommitMoveState,
           CommitVerify, CommitRevoke, CommitWrite
  <1> QED
    BY <1>1, Typing, Freshness, PTL DEF Spec, ClosedLinksFrozen

(* DocumentsGate: a transaction is closed, and a customer invoice turns      *)
(* posted, only with complete documents, unless what their completeness     *)
(* depends on changed while that request ran, or it is the closing write    *)
(* that the guard lets pass.                                                *)
THEOREM DocumentsAreAGate == Spec => DocumentsGate
  <1> DEFINE Gated(t) ==
               \/ t \in docs'
               \/ \E s \in Session :
                    Ends(s, t) /\ (s \in drifted \/ request[s].op = "write_closed")
             A == \A t \in Tx :
        (\/ state[t] # "closed" /\ state'[t] = "closed"
         \/ \E m \in Move : m.tx = t /\ m.kind = "invoice"
                            /\ moveState[m] # "posted" /\ moveState'[m] = "posted")
          => Gated(t)
  <1>1. ASSUME TypeOK, Fresh, [Next]_vars, NEW t \in Tx,
               state[t] # "closed", state'[t] = "closed"
        PROVE  Gated(t)
    <2>1. PICK s \in Session : Ends(s, t) /\ (CommitClose(s) \/ request[s].op = "write_closed")
      BY <1>1, Closing
    <2>2. CASE CommitClose(s)
      <3>1. s \notin drifted => t \in docs
        BY <1>1, <2>1, <2>2, CloseFresh DEF Ends
      <3> QED
        BY <2>1, <2>2, <3>1 DEF CommitClose
    <2> QED
      BY <2>1, <2>2
  <1>2. ASSUME TypeOK, Fresh, [Next]_vars, NEW m \in Move, m.kind = "invoice",
               moveState[m] # "posted", moveState'[m] = "posted"
        PROVE  Gated(m.tx)
    <2>1. PICK s \in Session : Commit(s)
      BY <1>2, OnlyCommits DEF Kept
    <2>2. ~Idle(s) /\ s \notin stale /\ Idle(s)'
      BY <1>2, <2>1 DEF Commit, Committing, CommitClose, CommitPost, CommitMoveState,
           CommitLinks, CommitVerify, CommitRevoke, CommitWrite, TypeOK, Idle
    <2>3. FreshRequest(s, request[s]) /\ \A n \in request[s].moves : n.tx = request[s].tx
      BY <1>2, <2>2 DEF Fresh
    <2>4. CASE CommitPost(s)
      <3>1. m \in request[s].moves
        BY <1>2, <2>4 DEF CommitPost, SetMoves
      <3>2. m.tx = request[s].tx /\ (s \notin drifted => m.tx \in docs)
        BY <1>2, <2>3, <2>4, <3>1 DEF CommitPost, Running, FreshRequest, Origin
      <3> QED
        BY <2>2, <2>4, <3>2 DEF CommitPost, Ends
    <2>5. CASE CommitVerify(s)
      <3>1. m.tx = request[s].tx
        BY <1>2, <2>3, <2>5 DEF CommitVerify, SetMoves
      <3>2. CASE s \in drifted
        BY <2>2, <3>1, <3>2 DEF Ends
      <3>3. CASE s \notin drifted
        BY <2>5, <3>1, <3>3 DEF CommitVerify, Completeness
      <3> QED
        BY <3>2, <3>3
    <2>6. CASE CommitMoveState(s)
      BY <1>2, <2>6 DEF CommitMoveState, SetMoves
    <2> QED
      BY <1>2, <2>1, <2>4, <2>5, <2>6
         DEF Commit, CommitClose, CommitLinks, CommitRevoke, CommitWrite
  <1>3. TypeOK /\ Fresh /\ [Next]_vars => A
    BY <1>1, <1>2
  <1> QED
    BY <1>3, Typing, Freshness, PTL DEF Spec, DocumentsGate

-----------------------------------------------------------------------------
(* One customer invoice.  A request that links an invoice found no other one *)
(* on the transaction in its snapshot; as it writes the transaction's row,   *)
(* no other one was linked since, or the request is stale.                   *)
Alone(r, links) == r.op \in {"link", "action_post"} =>
  \A m \in r.moves : m.kind = "invoice" =>
    /\ r.moves = {m}
    /\ \A n \in links : (n.tx = m.tx /\ n.kind = "invoice") => n = m

InvoiceInv ==
  /\ \A m, n \in linked :
       (m.kind = "invoice" /\ n.kind = "invoice" /\ m.tx = n.tx) => m = n
  /\ \A s \in Session \ stale : ~Idle(s) => Alone(request[s], linked)

(* What a commit links, it had planned to, in a request that writes the      *)
(* transaction's row.                                                        *)
LEMMA LinksWritten ==
  ASSUME TypeOK, Fresh, NEW q \in Session, Commit(q), NEW m \in linked' \ linked
  PROVE  /\ request[q].op \in {"link", "action_post"}
         /\ m \in request[q].moves
         /\ m.tx = request[q].tx
         /\ m.kind = "invoice" => WritesTx(request[q]) = {m.tx}
  <1>1. /\ request[q].op \in {"link", "action_post"}
        /\ m \in request[q].moves
        /\ ~Idle(q)
    BY DEF Commit, Committing, CommitClose, CommitPost, CommitMoveState,
           CommitLinks, CommitVerify, CommitRevoke, CommitWrite, Running, txVars
  <1>2. m.tx = request[q].tx
    BY <1>1 DEF Fresh
  <1> QED
    BY <1>1, <1>2 DEF WritesTx, Origin

LEMMA InvoiceCommit ==
  ASSUME TypeOK, Fresh, InvoiceInv, NEW q \in Session, Commit(q)
  PROVE  InvoiceInv'
  <1>1. ~Idle(q) /\ q \notin stale /\ Committing(q)
    BY DEF Commit, Committing, CommitClose, CommitPost, CommitMoveState,
           CommitLinks, CommitVerify, CommitRevoke, CommitWrite
  <1>2. Alone(request[q], linked)
    BY <1>1 DEF InvoiceInv
  <1>3. ASSUME NEW m \in linked', NEW n \in linked',
               m.kind = "invoice", n.kind = "invoice", m.tx = n.tx
        PROVE  m = n
    <2>1. CASE m \in linked /\ n \in linked
      BY <1>3, <2>1 DEF InvoiceInv
    <2>2. CASE m \notin linked
      BY <1>2, <1>3, <2>2, LinksWritten DEF Alone
    <2>3. CASE n \notin linked
      BY <1>2, <1>3, <2>3, LinksWritten DEF Alone
    <2> QED
      BY <2>1, <2>2, <2>3
  <1>4. ASSUME NEW s \in Session \ stale', ~Idle(s)'
        PROVE  Alone(request'[s], linked')
    <2>1. /\ s # q /\ request'[s] = request[s] /\ ~Idle(s) /\ s \notin stale
          /\ ~Overlap(request[s], request[q])
      BY <1>1, <1>4 DEF Committing, Idle, TypeOK
    <2>2. Alone(request[s], linked)
      BY <2>1 DEF InvoiceInv
    <2> SUFFICES ASSUME request[s].op \in {"link", "action_post"},
                        NEW m \in request[s].moves, m.kind = "invoice",
                        NEW n \in linked', n.tx = m.tx, n.kind = "invoice"
                 PROVE  request[s].moves = {m} /\ n = m
      BY <2>1, <2>2 DEF Alone
    <2>3. WritesTx(request[s]) = {m.tx}
      BY <2>1 DEF Fresh, WritesTx, Origin
    <2>4. n \in linked
      BY <2>1, <2>3, LinksWritten DEF Overlap
    <2> QED
      BY <2>2, <2>4 DEF Alone
  <1> QED
    BY <1>3, <1>4 DEF InvoiceInv

LEMMA InvoiceBegin ==
  ASSUME TypeOK, InvoiceInv, NEW s \in Session, NEW op, NEW t, NEW ms, NEW v,
         Begin(s, op, t, ms, v),
         Alone([op |-> op, tx |-> t, moves |-> ms, value |-> v, step |-> "begun"], linked)
  PROVE  InvoiceInv'
  <1>1. linked' = linked /\ stale' = stale
    BY DEF Begin, txVars
  <1>2. ASSUME NEW q \in Session \ stale, ~Idle(q)' PROVE Alone(request'[q], linked)
    <2>1. CASE q = s
      BY <2>1 DEF Begin, TypeOK
    <2>2. CASE q # s
      BY <1>2, <2>2 DEF Begin, TypeOK, Idle, InvoiceInv
    <2> QED
      BY <2>1, <2>2
  <1> QED
    BY <1>1, <1>2 DEF InvoiceInv

LEMMA InvoiceStep ==
  ASSUME TypeOK, Fresh, InvoiceInv, [Next]_vars PROVE InvoiceInv'
  <1> USE DEF Alone
  <1>1. ASSUME NEW s \in Session, BeginOnTx(s) PROVE InvoiceInv'
    <2>1. PICK op, t, ms, v : /\ Begin(s, op, t, ms, v)
                              /\ op \notin {"link", "action_post"}
      BY <1>1 DEF BeginOnTx, BeginClose, BeginVerify, BeginRevoke, BeginWriteActive,
           BeginWriteClosed, BeginWriteUnlocked
    <2> QED
      BY <2>1, InvoiceBegin
  <1>2. ASSUME NEW s \in Session, BeginOnMove(s) PROVE InvoiceInv'
    <2>1. PICK m \in Move :
             \/ BeginCancel(s, m) \/ BeginDraft(s, m)
             \/ \E v \in Margins : BeginPost(s, m, v) \/ BeginLink(s, m, v)
                                     \/ BeginUnlink(s, m, v) \/ BeginAmend(s, m, v)
      BY <1>2 DEF BeginOnMove
    <2>2. PICK op, v :
            /\ Begin(s, op, m.tx, {m}, v)
            /\ op \in {"link", "action_post"} => (Origin(m) => CanLink(m))
      BY <2>1 DEF BeginCancel, BeginDraft, BeginPost, BeginLink, BeginUnlink, BeginAmend,
           CanPost
    <2>3. Alone([op |-> op, tx |-> m.tx, moves |-> {m}, value |-> v, step |-> "begun"],
                linked)
      BY <2>2 DEF Origin, CanLink, Invoices, MovesOf
    <2> QED
      BY <2>2, <2>3, InvoiceBegin
  <1>3. ASSUME NEW s \in Session, LockClose(s) \/ ApplyClose(s) PROVE InvoiceInv'
    <2>1. linked' = linked /\ stale' = stale
      BY <1>3 DEF LockClose, ApplyClose, txVars
    <2>2. ~Idle(s) /\ request[s] \in Request
      BY <1>3, RequestType DEF LockClose, ApplyClose, Running
    <2>3. PICK st : request' = [request EXCEPT ![s].step = st]
      BY <1>3 DEF LockClose, ApplyClose
    <2>4. \A q \in Session : ~Idle(q)' =>
            /\ ~Idle(q)
            /\ request'[q].op = request[q].op /\ request'[q].moves = request[q].moves
      BY <2>2, <2>3 DEF TypeOK, Request, Idle
    <2> QED
      BY <2>1, <2>4 DEF InvoiceInv
  <1>4. ASSUME NEW s \in Session, Commit(s) PROVE InvoiceInv'
    BY <1>4, InvoiceCommit
  <1>5. ASSUME NEW s \in Session, Abort(s) PROVE InvoiceInv'
    <2>1. linked' = linked
      BY <1>5 DEF Abort, txVars
    <2>2. \A q \in Session : ~Idle(q)' =>
            /\ request'[q] = request[q] /\ ~Idle(q)
            /\ q \notin stale' => q \notin stale
      BY <1>5 DEF Abort, Idle, TypeOK
    <2> QED
      BY <2>1, <2>2 DEF InvoiceInv
  <1>6. ASSUME UNCHANGED <<linked, request, stale>> PROVE InvoiceInv'
    BY <1>6 DEF InvoiceInv, Idle
  <1>7. ASSUME NEW t \in Tx, CloseLoad(t) PROVE InvoiceInv'
    BY <1>6, <1>7 DEF CloseLoad, txVars, sessionVars
  <1>8. ASSUME NEW t \in Tx, DocsDrift(t) PROVE InvoiceInv'
    BY <1>6, <1>8 DEF DocsDrift
  <1>9. CASE UNCHANGED vars
    BY <1>6, <1>9 DEF vars
  <1> QED
    BY <1>1, <1>2, <1>3, <1>4, <1>5, <1>7, <1>8, <1>9 DEF Next

(* OneInvoice: the customer invoice, once linked, is never joined by         *)
(* another, although two requests may both have found the field empty        *)
(* (account_move_inherit.py:action_post, transaction.py:write).              *)
THEOREM OneInvoiceEach == Spec => []OneInvoice
  <1>1. Init => InvoiceInv
    BY DEF Init, InvoiceInv, Idle
  <1>2. TypeOK /\ Fresh /\ InvoiceInv /\ [Next]_vars => InvoiceInv'
    BY InvoiceStep
  <1>3. TypeOK /\ InvoiceInv => OneInvoice
    <2> SUFFICES ASSUME TypeOK, InvoiceInv, NEW t \in Tx
                 PROVE  Cardinality(Invoices(t)) <= 1
      BY DEF OneInvoice
    <2>1. CASE Invoices(t) = {}
      BY <2>1, FS_EmptySet
    <2>2. CASE Invoices(t) # {}
      <3>1. PICK m : m \in Invoices(t)
        BY <2>2
      <3>2. Invoices(t) = {m}
        BY <3>1 DEF InvoiceInv, Invoices, MovesOf
      <3>3. Cardinality({m}) = 1
        BY FS_Singleton, Zenon
      <3> QED
        BY <3>2, <3>3
    <2> QED
      BY <2>1, <2>2
  <1> QED
    BY <1>1, <1>2, <1>3, Typing, Freshness, PTL DEF Spec

-----------------------------------------------------------------------------
(* Requests act at once.  As long as a request can commit, its guard holds   *)
(* of the database as it is, and what it computed is what it would compute   *)
(* now: the guards read the row of the transaction, which the request        *)
(* writes, the state of moves it writes, and moves being posted and loads    *)
(* being closed, which nothing takes back (Orderly).                         *)
Planned(r) ==
  /\ r.op = "action_close" => CanClose(r.tx) /\ r.value = CommissionAt(r.tx)
  /\ r.op = "action_post" => \E m \in Move :
       /\ r.moves = {m} /\ m.tx = r.tx /\ r.value \in Margins /\ CanPost(m)
       /\ m \in linked /\ Origin(m) => r.value = margin[r.tx]
  /\ r.op \in {"link", "unlink", "amend"} => \E m \in Move :
       /\ r.moves = {m} /\ m.tx = r.tx /\ r.value \in Margins
       /\ r.op = "link" => m \notin linked /\ CanLink(m)
       /\ r.op = "unlink" => m \in linked /\ m.kind # "invoice" /\ state[r.tx] # "closed"
       /\ r.op = "amend" => m \in linked /\ moveState[m] = "draft" /\ r.value # margin[r.tx]
  /\ r.op = "action_verify" => CanVerify(r.tx) /\ r.moves = AutoPosted(r.tx)
  /\ r.op = "revoke" => r.tx \in docs \cup compliant
  /\ r.op = "write_active" => state[r.tx] = "closed"
  /\ r.op = "write_closed" => state[r.tx] # "closed" \/ r.tx \notin locked
  /\ r.op = "write_unlocked" => r.tx \in locked

SerialInv == \A s \in Session \ stale : ~Idle(s) => Planned(request[s])

(* What a step leaves alone for a request r: the row of its transaction, and *)
(* the moves it does not write unless they turn posted.                      *)
RowStands(t) ==
  /\ state'[t] = state[t] /\ margin'[t] = margin[t] /\ lockedAmount'[t] = lockedAmount[t]
  /\ t \in locked' <=> t \in locked
  /\ t \in docs' <=> t \in docs
  /\ t \in compliant' <=> t \in compliant
  /\ \A m \in Move : m.tx = t => (m \in linked' <=> m \in linked)

MovesStand(ms) ==
  \A m \in Move : moveState'[m] = moveState[m] \/ (m \notin ms /\ moveState'[m] = "posted")

LEMMA LinkReads ==
  ASSUME TypeOK, TypeOK', NEW m \in Move, RowStands(m.tx)
  PROVE  CanLink(m)' <=> CanLink(m)
  <1>1. Invoices(m.tx)' = Invoices(m.tx)
    BY DEF Invoices, MovesOf, RowStands, TypeOK
  <1> QED
    BY <1>1 DEF CanLink, RowStands

LEMMA PostReads ==
  ASSUME TypeOK, TypeOK', NEW m \in Move, moveState'[m] = moveState[m], CanPost(m),
         Origin(m) => RowStands(m.tx)
  PROVE  CanPost(m)'
  BY LinkReads DEF CanPost, Origin, RowStands

LEMMA CloseReads ==
  ASSUME TypeOK, TypeOK', NEW t \in Tx, RowStands(t), MovesStand({}),
         loadClosed \subseteq loadClosed', CanClose(t)
  PROVE  CanClose(t)' /\ CommissionAt(t)' = CommissionAt(t)
  <1>1. Invoices(t)' = Invoices(t) /\ Bills(t)' = Bills(t) /\ Invoices(t) \subseteq Move /\ Bills(t) \subseteq Move
    BY DEF Invoices, Bills, MovesOf, RowStands, TypeOK
  <1>2. \A m \in Move : moveState[m] = "posted" => moveState'[m] = "posted"
    BY DEF MovesStand
  <1> QED
    BY <1>1, <1>2 DEF CanClose, CommissionAt, RowStands

LEMMA VerifyReads ==
  ASSUME TypeOK, TypeOK', NEW t \in Tx, RowStands(t), MovesStand(AutoPosted(t)), CanVerify(t)
  PROVE  CanVerify(t)' /\ AutoPosted(t)' = AutoPosted(t)
  <1>1. Pending(t) \subseteq Move /\ \A m \in Pending(t) : m.tx = t
    BY DEF Pending, MovesOf, TypeOK
  <1>2. AutoPosted(t)' = AutoPosted(t)
    <2>1. CASE t \in compliant
      BY <2>1 DEF AutoPosted, RowStands
    <2>2. CASE t \notin compliant
      <3>1. AutoPosted(t) = Pending(t) /\ AutoPosted(t)' = Pending(t)'
        BY <2>2 DEF AutoPosted, RowStands
      <3>2. \A m \in Move : m \in Pending(t)' <=> m \in Pending(t)
        BY <3>1 DEF Pending, MovesOf, RowStands, MovesStand
      <3>3. Pending(t)' \subseteq Move
        BY DEF Pending, MovesOf, TypeOK
      <3> QED
        BY <1>1, <3>1, <3>2, <3>3
    <2> QED
      BY <2>1, <2>2
  <1>3. \A m \in AutoPosted(t) : m \in Move /\ m.tx = t
    BY <1>1 DEF AutoPosted
  <1>4. \A m \in AutoPosted(t) : CanLink(m)' <=> CanLink(m)
    BY <1>3, LinkReads
  <1> QED
    BY <1>2, <1>4 DEF CanVerify, RowStands, Origin

(* The plan of a request depends on no more than that.                       *)
LEMMA PlanReads ==
  ASSUME TypeOK, TypeOK', NEW r \in Request, Planned(r),
         WritesTx(r) # {} => RowStands(r.tx), MovesStand(WritesMove(r)),
         loadClosed \subseteq loadClosed', r.op \notin Skewing
  PROVE  Planned(r)'
  <1>0. r.tx \in Tx /\ r.op \in Ops
    BY DEF Request
  <1>1. CASE r.op = "action_close"
    <2>1. RowStands(r.tx) /\ MovesStand({})
      BY <1>1 DEF WritesTx, MovesStand
    <2> QED
      BY <1>0, <1>1, <2>1, CloseReads DEF Planned
  <1>2. CASE r.op = "action_post"
    <2>1. PICK m \in Move : /\ r.moves = {m} /\ m.tx = r.tx /\ r.value \in Margins /\ CanPost(m)
                            /\ m \in linked /\ Origin(m) => r.value = margin[r.tx]
      BY <1>2 DEF Planned
    <2>2. moveState'[m] = moveState[m]
      BY <1>2, <2>1 DEF MovesStand, WritesMove
    <2>3. Origin(m) => RowStands(m.tx)
      BY <1>2, <2>1 DEF WritesTx
    <2>4. CanPost(m)'
      BY <2>1, <2>2, <2>3, PostReads
    <2>5. m \in linked' /\ Origin(m) => r.value = margin'[r.tx]
      BY <2>1, <2>3 DEF RowStands
    <2> QED
      BY <1>2, <2>1, <2>4, <2>5 DEF Planned, Origin
  <1>3. CASE r.op \in {"link", "unlink", "amend"}
    <2>1. PICK m \in Move :
            /\ r.moves = {m} /\ m.tx = r.tx /\ r.value \in Margins
            /\ r.op = "link" => m \notin linked /\ CanLink(m)
            /\ r.op = "unlink" => m \in linked /\ m.kind # "invoice" /\ state[r.tx] # "closed"
            /\ r.op = "amend" => m \in linked /\ moveState[m] = "draft" /\ r.value # margin[r.tx]
      BY <1>3 DEF Planned
    <2>2. RowStands(m.tx)
      BY <1>3, <2>1 DEF WritesTx
    <2>3. r.op = "amend" => moveState'[m] = moveState[m]
      BY <2>1 DEF MovesStand, WritesMove
    <2>4. /\ r.op = "link" => m \notin linked' /\ CanLink(m)'
          /\ r.op = "unlink" => m \in linked' /\ m.kind # "invoice" /\ state'[r.tx] # "closed"
          /\ r.op = "amend" => m \in linked' /\ moveState'[m] = "draft" /\ r.value # margin'[r.tx]
      BY <2>1, <2>2, <2>3, LinkReads DEF RowStands
    <2> QED
      BY <1>3, <2>1, <2>4 DEF Planned
  <1>4. CASE r.op = "action_verify"
    <2>1. CanVerify(r.tx) /\ r.moves = AutoPosted(r.tx)
      BY <1>4 DEF Planned
    <2>2. RowStands(r.tx) /\ MovesStand(AutoPosted(r.tx))
      BY <1>4, <2>1 DEF WritesTx, WritesMove
    <2>3. CanVerify(r.tx)' /\ AutoPosted(r.tx)' = AutoPosted(r.tx)
      BY <1>0, <2>1, <2>2, VerifyReads
    <2> QED
      BY <1>4, <2>1, <2>3 DEF Planned
  <1>5. CASE r.op \in {"revoke", "write_active", "write_closed", "write_unlocked"}
    <2>1. RowStands(r.tx)
      BY <1>5 DEF WritesTx
    <2> QED
      BY <1>5, <2>1 DEF Planned, RowStands
  <1> QED
    BY <1>0, <1>1, <1>2, <1>3, <1>4, <1>5, OpsAssumption DEF Skewing, AllOps

(* A commit leaves alone what another request reads that can still commit.   *)
LEMMA CommitStands ==
  ASSUME TypeOK, Fresh, Orderly, NEW q \in Session, Commit(q)
  PROVE  /\ \A t \in Tx \ WritesTx(request[q]) : RowStands(t)
         /\ \A ms : ms \cap WritesMove(request[q]) = {} => MovesStand(ms)
  <1> DEFINE r == request[q]
  <1>1. /\ ~Idle(q) /\ r \in Request /\ r.tx \in Tx /\ r.moves \subseteq Move
        /\ \A m \in r.moves : m.tx = r.tx
    BY RequestType DEF Commit, Committing, CommitClose, CommitPost, CommitMoveState,
           CommitLinks, CommitVerify, CommitRevoke, CommitWrite, Running, Fresh
  <1>2. r.op \notin {"button_cancel", "button_draft"} /\ q \notin drifted
    BY <1>1 DEF Orderly, Skewing, Running
  <1>3. \/ CommitClose(q) \/ CommitPost(q) \/ CommitLinks(q) \/ CommitVerify(q)
        \/ CommitRevoke(q) \/ CommitWrite(q)
    BY <1>2 DEF Commit, CommitMoveState, Running
  <1>4. ASSUME NEW t \in Tx \ WritesTx(r) PROVE RowStands(t)
    <2>1. /\ t \in compliant' <=> t \in compliant
          /\ t \in docs' <=> t \in docs
          /\ \A m \in Move : m.tx = t => (m \in linked' <=> m \in linked)
      <3>1. CASE CommitPost(q)
        <4>1. WritesTx(r) = {} \/ WritesTx(r) = {r.tx}
          BY DEF WritesTx
        <4>2. CASE WritesTx(r) = {}
          <5>1. \A m \in r.moves : ~Origin(m)
            BY <1>2, <4>2 DEF WritesTx
          <5> QED
            BY <3>1, <5>1 DEF CommitPost
        <4>3. CASE WritesTx(r) = {r.tx}
          BY <1>1, <1>4, <3>1, <4>3 DEF CommitPost
        <4> QED
          BY <4>1, <4>2, <4>3
      <3>2. CASE ~CommitPost(q)
        <4>1. t # r.tx
          BY <1>2, <1>3, <1>4, <3>2 DEF WritesTx, Running, CommitClose, CommitLinks, CommitVerify,
               CommitRevoke, CommitWrite
        <4> QED
          BY <1>1, <1>2, <1>3, <3>2, <4>1 DEF CommitClose, CommitLinks, CommitVerify,
               CommitRevoke, CommitWrite, Completeness
      <3> QED
        BY <3>1, <3>2
    <2> QED
      BY <1>2, <1>4, <2>1, RowKept DEF RowStands
  <1>5. ASSUME NEW ms, ms \cap WritesMove(r) = {} PROVE MovesStand(ms)
    <2>1. CASE CommitPost(q) \/ CommitVerify(q)
      <3>1. WritesMove(r) = r.moves
        BY <2>1 DEF CommitPost, CommitVerify, Running, WritesMove
      <3> QED
        BY <1>5, <2>1, <3>1 DEF CommitPost, CommitVerify, SetMoves, MovesStand
    <2>2. CASE CommitClose(q) \/ CommitLinks(q) \/ CommitRevoke(q) \/ CommitWrite(q)
      BY <2>2 DEF CommitClose, CommitLinks, CommitRevoke, CommitWrite, MovesStand
    <2> QED
      BY <1>3, <2>1, <2>2
  <1> QED
    BY <1>4, <1>5

LEMMA SerialCommit ==
  ASSUME TypeOK, TypeOK', Fresh, SerialInv, Orderly, NEW q \in Session, Commit(q)
  PROVE  SerialInv'
  <1>1. ~Idle(q) /\ Committing(q)
    BY DEF Commit, Committing, CommitClose, CommitPost, CommitMoveState,
           CommitLinks, CommitVerify, CommitRevoke, CommitWrite
  <1> SUFFICES ASSUME NEW s \in Session \ stale', ~Idle(s)'
               PROVE  Planned(request[s])'
    BY DEF SerialInv
  <1>2. /\ s # q /\ request'[s] = request[s] /\ ~Idle(s) /\ s \notin stale
        /\ ~Overlap(request[s], request[q])
    BY <1>1 DEF Committing, Idle, TypeOK
  <1>3. PICK r \in Request : r = request[s] /\ r = request'[s]
    BY <1>2, RequestType
  <1>4. Planned(r)
    BY <1>2, <1>3 DEF SerialInv
  <1>5. r.tx \in Tx /\ (WritesTx(r) # {} => r.tx \in WritesTx(r))
    BY DEF Request, WritesTx
  <1>6. /\ WritesTx(r) # {} => RowStands(r.tx)
        /\ MovesStand(WritesMove(r))
    BY <1>2, <1>3, <1>5, CommitStands DEF Overlap
  <1>7. loadClosed' = loadClosed
    BY <1>1 DEF Committing
  <1>8. Planned(r)'
    BY <1>2, <1>3, <1>4, <1>6, <1>7, PlanReads DEF Orderly, Running
  <1> QED
    BY <1>3, <1>8

(* A request begins with the plan it may make now.                           *)
LEMMA BegunAsPlanned ==
  ASSUME TypeOK, NEW s \in Session, BeginOnTx(s) \/ BeginOnMove(s)
  PROVE  \E r \in Request : /\ Planned(r)
                            /\ request' = [request EXCEPT ![s] = r]
                            /\ UNCHANGED <<txVars, loadClosed, moveState, stale>>
  <1>1. ASSUME NEW op, NEW t \in Tx, NEW ms \in SUBSET Move, NEW v \in Int, Begin(s, op, t, ms, v),
               Planned([op |-> op, tx |-> t, moves |-> ms, value |-> v, step |-> "begun"])
        PROVE  \E r \in Request : /\ Planned(r)
                                  /\ request' = [request EXCEPT ![s] = r]
                                  /\ UNCHANGED <<txVars, loadClosed, moveState, stale>>
    BY <1>1 DEF Begin, Request, Step
  <1>2. CASE BeginOnTx(s)
    <2>1. PICK t \in Tx : \/ BeginClose(s, t) \/ BeginVerify(s, t) \/ BeginRevoke(s, t)
                          \/ BeginWriteActive(s, t) \/ BeginWriteClosed(s, t) \/ BeginWriteUnlocked(s, t)
      BY <1>2 DEF BeginOnTx
    <2>2. AutoPosted(t) \in SUBSET Move /\ {} \in SUBSET Move /\ 0 \in Int /\ CommissionAt(t) \in Int
      BY CommissionType DEF AutoPosted, Pending, MovesOf, TypeOK
    <2>3. CASE BeginClose(s, t)
      BY <1>1, <2>2, <2>3 DEF BeginClose, Planned
    <2>4. CASE BeginVerify(s, t)
      BY <1>1, <2>2, <2>4 DEF BeginVerify, Planned
    <2>5. CASE BeginRevoke(s, t)
      BY <1>1, <2>2, <2>5 DEF BeginRevoke, Planned
    <2>6. CASE BeginWriteActive(s, t)
      BY <1>1, <2>2, <2>6 DEF BeginWriteActive, Planned
    <2>7. CASE BeginWriteClosed(s, t)
      BY <1>1, <2>2, <2>7 DEF BeginWriteClosed, Planned
    <2>8. CASE BeginWriteUnlocked(s, t)
      BY <1>1, <2>2, <2>8 DEF BeginWriteUnlocked, Planned
    <2> QED
      BY <2>1, <2>3, <2>4, <2>5, <2>6, <2>7, <2>8
  <1>3. CASE BeginOnMove(s)
    <2>1. PICK m \in Move :
             \/ BeginCancel(s, m) \/ BeginDraft(s, m)
             \/ \E v \in Margins : BeginPost(s, m, v) \/ BeginLink(s, m, v)
                                     \/ BeginUnlink(s, m, v) \/ BeginAmend(s, m, v)
      BY <1>3 DEF BeginOnMove
    <2>2. m.tx \in Tx /\ {m} \in SUBSET Move /\ 0 \in Int /\ Margins \subseteq Int
      BY MoveType, MarginAssumption
    <2>3. CASE BeginCancel(s, m)
      BY <1>1, <2>2, <2>3 DEF BeginCancel, Planned
    <2>4. CASE BeginDraft(s, m)
      BY <1>1, <2>2, <2>4 DEF BeginDraft, Planned
    <2>5. ASSUME NEW v \in Margins, BeginPost(s, m, v)
          PROVE  Planned([op |-> "action_post", tx |-> m.tx, moves |-> {m}, value |-> v, step |-> "begun"])
      BY <2>5 DEF BeginPost, Planned
    <2>6. ASSUME NEW v \in Margins, BeginLink(s, m, v)
          PROVE  Planned([op |-> "link", tx |-> m.tx, moves |-> {m}, value |-> v, step |-> "begun"])
      BY <2>6 DEF BeginLink, Planned
    <2>7. ASSUME NEW v \in Margins, BeginUnlink(s, m, v)
          PROVE  Planned([op |-> "unlink", tx |-> m.tx, moves |-> {m}, value |-> v, step |-> "begun"])
      BY <2>7 DEF BeginUnlink, Planned
    <2>8. ASSUME NEW v \in Margins, BeginAmend(s, m, v)
          PROVE  Planned([op |-> "amend", tx |-> m.tx, moves |-> {m}, value |-> v, step |-> "begun"])
      BY <2>8 DEF BeginAmend, Planned
    <2>9. ASSUME NEW v \in Margins,
                 BeginPost(s, m, v) \/ BeginLink(s, m, v) \/ BeginUnlink(s, m, v) \/ BeginAmend(s, m, v)
          PROVE  \E op : /\ Begin(s, op, m.tx, {m}, v)
                         /\ Planned([op |-> op, tx |-> m.tx, moves |-> {m}, value |-> v, step |-> "begun"])
      BY <2>5, <2>6, <2>7, <2>8, <2>9 DEF BeginPost, BeginLink, BeginUnlink, BeginAmend
    <2> QED
      BY <1>1, <2>1, <2>2, <2>3, <2>4, <2>9
  <1> QED
    BY <1>2, <1>3

LEMMA SerialStep ==
  ASSUME TypeOK, TypeOK', Fresh, SerialInv, Orderly, Orderly', [Next]_vars
  PROVE  SerialInv'
  <1>1. ASSUME UNCHANGED <<txVars, moveState>>, loadClosed \subseteq loadClosed', NEW r \in Request, Planned(r),
               r.op \notin Skewing
        PROVE  Planned(r)'
    <2>1. RowStands(r.tx) /\ MovesStand(WritesMove(r))
      BY <1>1 DEF RowStands, MovesStand, txVars
    <2> QED
      BY <1>1, <2>1, PlanReads
  <1>2. ASSUME UNCHANGED <<txVars, moveState>>, loadClosed \subseteq loadClosed',
               \A s \in Session \ stale' : ~Idle(s)' =>
                 /\ request'[s] \in Request
                 /\ \E r \in Request : Planned(r) /\ r = request'[s]
        PROVE  SerialInv'
    <2> SUFFICES ASSUME NEW s \in Session \ stale', ~Idle(s)' PROVE Planned(request[s])'
      BY DEF SerialInv
    <2>1. PICK r \in Request : Planned(r) /\ r = request'[s]
      BY <1>2
    <2>2. Planned(r)'
      BY <1>1, <1>2, <2>1 DEF Orderly, Running
    <2> QED
      BY <2>1, <2>2
  <1>3. \A s \in Session \ stale : ~Idle(s) => request[s] \in Request /\ Planned(request[s])
    BY RequestType DEF SerialInv
  <1>4. ASSUME NEW s \in Session, BeginOnTx(s) \/ BeginOnMove(s) PROVE SerialInv'
    <2>1. PICK r \in Request : /\ Planned(r)
                              /\ request' = [request EXCEPT ![s] = r]
                              /\ UNCHANGED <<txVars, loadClosed, moveState, stale>>
      BY <1>4, BegunAsPlanned
    <2>2. ASSUME NEW q \in Session \ stale', ~Idle(q)'
          PROVE  /\ request'[q] \in Request
                 /\ \E p \in Request : Planned(p) /\ p = request'[q]
      <3>1. CASE q = s
        BY <2>1, <3>1 DEF TypeOK
      <3>2. CASE q # s
        BY <1>3, <2>1, <2>2, <3>2 DEF TypeOK, Idle
      <3> QED
        BY <3>1, <3>2
    <2> QED
      BY <1>2, <2>1, <2>2
  <1>5. ASSUME NEW s \in Session, LockClose(s) \/ ApplyClose(s) PROVE SerialInv'
    <2>1. UNCHANGED <<txVars, moveState, loadClosed, stale>> /\ ~Idle(s) /\ request[s] \in Request
          /\ request[s].op = "action_close"
      BY <1>5, RequestType DEF LockClose, ApplyClose, Running
    <2>2. PICK st \in Step : request' = [request EXCEPT ![s].step = st]
      BY <1>5 DEF LockClose, ApplyClose, Step
    <2>3. ASSUME NEW q \in Session \ stale', ~Idle(q)'
          PROVE  /\ request'[q] \in Request
                 /\ \E p \in Request : Planned(p) /\ p = request'[q]
      <3>1. CASE q = s
        <4>1. request'[s] = [request[s] EXCEPT !.step = st] /\ [request[s] EXCEPT !.step = st] \in Request
          BY <2>1, <2>2 DEF TypeOK, Request
        <4>2. Planned(request[s])
          BY <1>3, <2>1, <2>3, <3>1
        <4>3. Planned([request[s] EXCEPT !.step = st])
          BY <2>1, <4>2 DEF Planned, Request
        <4> QED
          BY <3>1, <4>1, <4>3
      <3>2. CASE q # s
        BY <1>3, <2>1, <2>2, <2>3, <3>2 DEF TypeOK, Idle
      <3> QED
        BY <3>1, <3>2
    <2> QED
      BY <1>2, <2>1, <2>3
  <1>6. ASSUME NEW s \in Session, Commit(s) PROVE SerialInv'
    BY <1>6, SerialCommit
  <1>7. ASSUME NEW s \in Session, Abort(s) PROVE SerialInv'
    <2>1. UNCHANGED <<txVars, moveState, loadClosed>>
      BY <1>7 DEF Abort
    <2>2. \A q \in Session \ stale' : ~Idle(q)' => request'[q] = request[q] /\ ~Idle(q) /\ q \notin stale
      BY <1>7 DEF Abort, Idle, TypeOK
    <2> QED
      BY <1>2, <1>3, <2>1, <2>2
  <1>8. ASSUME NEW t \in Tx, CloseLoad(t) PROVE SerialInv'
    <2>1. UNCHANGED <<txVars, moveState, request, stale>> /\ loadClosed \subseteq loadClosed'
      BY <1>8 DEF CloseLoad, sessionVars
    <2> QED
      BY <1>2, <1>3, <2>1 DEF Idle
  <1>9. ASSUME NEW t \in Tx, DocsDrift(t) PROVE SerialInv'
    <2> SUFFICES ASSUME NEW s \in Session \ stale, ~Idle(s) PROVE Planned(request[s])'
      BY <1>9 DEF SerialInv, DocsDrift, Idle
    <2>1. PICK r \in Request : r = request[s] /\ Planned(r) /\ r.op \notin Skewing
      BY <1>3 DEF Orderly, Running
    <2>2. r.tx # t
      BY <1>9, <2>1 DEF DocsDrift, Orderly
    <2>3. RowStands(r.tx) /\ MovesStand(WritesMove(r)) /\ loadClosed' = loadClosed /\ request' = request
      BY <1>9, <2>2 DEF DocsDrift, RowStands, MovesStand
    <2>4. Planned(r)'
      BY <2>1, <2>3, PlanReads
    <2> QED
      BY <2>1, <2>3, <2>4
  <1>10. CASE UNCHANGED vars
    <2>1. UNCHANGED <<txVars, moveState, request, stale, loadClosed>>
      BY <1>10 DEF vars, txVars
    <2> QED
      BY <1>2, <1>3, <2>1 DEF Idle
  <1> QED
    BY <1>4, <1>5, <1>6, <1>7, <1>8, <1>9, <1>10 DEF Next

(* The commit of a planned request is the operation, done at once.           *)
LEMMA CommitActsAtOnce ==
  ASSUME TypeOK, Fresh, SerialInv, Orderly, NEW s \in Session, Commit(s)
  PROVE  Atomic!Next
  <1> DEFINE r == request[s]
             t == request[s].tx
  <1>1. /\ ~Idle(s) /\ s \notin stale /\ Committing(s)
        /\ r.op \in Ops /\ t \in Tx /\ r.moves \subseteq Move
    BY RequestType DEF Commit, Committing, CommitClose, CommitPost, CommitMoveState,
           CommitLinks, CommitVerify, CommitRevoke, CommitWrite, Request
  <1>2. Planned(r)
    BY <1>1 DEF SerialInv
  <1>3. loadClosed' = loadClosed
    BY <1>1 DEF Committing
  <1>4. \A x \in Tx : /\ Invoices(x) = Atomic!Of(x, "invoice") /\ Bills(x) = Atomic!Of(x, "bill")
                      /\ Pending(x) = Atomic!Drafts(x)
                      /\ Atomic!Open(x) <=> state[x] # "closed"
    BY DEF Invoices, Bills, MovesOf, Pending, Atomic!Of, Atomic!Drafts, Atomic!Open
  <1>5. ASSUME NEW m \in Move PROVE (Origin(m) => CanLink(m)) <=> Atomic!Linkable(m)
    BY <1>4, MoveType DEF Origin, CanLink, Atomic!Linkable, Kind
  <1>6. CASE CommitClose(s)
    <2>1. CanClose(t) /\ r.value = CommissionAt(t)
      BY <1>2, <1>6 DEF CommitClose, Running, Planned
    <2>2. r.value = Atomic!Earned(t)
      BY <1>1, <2>1 DEF CommissionAt, Atomic!Earned, TypeOK
    <2>3. Atomic!Close(t)
      BY <1>1, <1>3, <1>4, <1>6, <2>1, <2>2 DEF CommitClose, CanClose, Atomic!Close, Atomic!Posted
    <2> QED
      BY <1>1, <2>3 DEF Atomic!Next
  <1>7. CASE CommitPost(s)
    <2>1. PICK m \in Move : /\ r.moves = {m} /\ m.tx = t /\ r.value \in Margins /\ CanPost(m)
                            /\ m \in linked /\ Origin(m) => r.value = margin[t]
      BY <1>2, <1>7 DEF CommitPost, Running, Planned
    <2>2. Origin(m) <=> m.kind # "freight"
      BY MoveType DEF Origin, Kind
    <2>3. Atomic!SetTo({m}, "posted")
      BY <1>7, <2>1 DEF CommitPost, SetMoves, Atomic!SetTo
    <2>4. WritesTx(r) = IF Origin(m) THEN {t} ELSE {}
      BY <1>7, <2>1 DEF CommitPost, Running, WritesTx
    <2>5. IF m.kind = "freight" THEN UNCHANGED <<linked, margin>>
          ELSE /\ m \in linked => r.value = margin[m.tx]
               /\ linked' = linked \cup {m} /\ Atomic!Remargin(m.tx, r.value)
      BY <1>7, <2>1, <2>2, <2>4 DEF CommitPost, Atomic!Remargin
    <2>6. Atomic!PostMove(m, r.value)
      BY <1>3, <1>5, <1>7, <2>1, <2>3, <2>5 DEF CommitPost, CanPost, Atomic!PostMove
    <2> QED
      BY <2>1, <2>6 DEF Atomic!Next
  <1>8. CASE CommitLinks(s)
    <2>1. PICK m \in Move :
            /\ r.moves = {m} /\ m.tx = t /\ r.value \in Margins
            /\ r.op = "link" => m \notin linked /\ CanLink(m)
            /\ r.op = "unlink" => m \in linked /\ m.kind # "invoice" /\ state[t] # "closed"
            /\ r.op = "amend" => m \in linked /\ moveState[m] = "draft" /\ r.value # margin[t]
      BY <1>2, <1>8 DEF CommitLinks, Running, Planned
    <2>2. Atomic!Remargin(m.tx, r.value)
      BY <1>8, <2>1 DEF CommitLinks, Atomic!Remargin
    <2>3. CASE r.op = "link"
      <3>1. Atomic!Link(m, r.value)
        BY <1>1, <1>3, <1>4, <1>8, <2>1, <2>2, <2>3 DEF CommitLinks, CanLink, Atomic!Link
      <3> QED
        BY <2>1, <3>1 DEF Atomic!Next
    <2>4. CASE r.op = "unlink"
      <3>1. Atomic!Unlink(m, r.value)
        BY <1>1, <1>3, <1>4, <1>8, <2>1, <2>2, <2>4 DEF CommitLinks, Atomic!Unlink
      <3> QED
        BY <2>1, <3>1 DEF Atomic!Next
    <2>5. CASE r.op = "amend"
      <3>1. Atomic!Amend(m, r.value)
        BY <1>3, <1>8, <2>1, <2>2, <2>5 DEF CommitLinks, Atomic!Amend, Atomic!Drafts
      <3> QED
        BY <2>1, <3>1 DEF Atomic!Next
    <2> QED
      BY <1>8, <2>3, <2>4, <2>5 DEF CommitLinks, Running
  <1>9. CASE CommitVerify(s)
    <2>1. CanVerify(t) /\ r.moves = AutoPosted(t)
      BY <1>2, <1>9 DEF CommitVerify, Running, Planned
    <2>2. AutoPosted(t) = (IF t \in compliant THEN {} ELSE Atomic!Drafts(t)) /\ AutoPosted(t) \subseteq Move
      BY <1>1, <1>4, <2>1 DEF AutoPosted
    <2>3. docs' = docs \cup {t}
      BY <1>1, <1>9 DEF CommitVerify, Completeness, Orderly
    <2>4. Atomic!Verify(t)
      BY <1>3, <1>5, <1>9, <2>1, <2>2, <2>3 DEF CommitVerify, CanVerify, SetMoves, Atomic!Verify, Atomic!SetTo
    <2> QED
      BY <1>1, <2>4 DEF Atomic!Next
  <1>10. CASE CommitRevoke(s)
    <2>1. Atomic!Revoke(t)
      BY <1>2, <1>3, <1>10 DEF CommitRevoke, Completeness, Orderly, Running, Planned, Atomic!Revoke
    <2> QED
      BY <1>1, <2>1 DEF Atomic!Next
  <1>11. CASE CommitWrite(s)
    <2>1. Atomic!Reopen(t) \/ Atomic!CloseUnchecked(t) \/ Atomic!Unlock(t)
      BY <1>1, <1>2, <1>3, <1>4, <1>11
         DEF CommitWrite, Running, Planned, Atomic!Reopen, Atomic!CloseUnchecked, Atomic!Unlock
    <2> QED
      BY <1>1, <2>1 DEF Atomic!Next
  <1>12. CASE CommitMoveState(s)
    BY <1>1, <1>12 DEF CommitMoveState, Orderly, Skewing, Running
  <1> QED
    BY <1>6, <1>7, <1>8, <1>9, <1>10, <1>11, <1>12 DEF Commit

(* Whatever holds of TransactionClose holds of its orderly behaviours.       *)
LEMMA OrderlyIsClose == OrderlySpec => Spec
  BY PTL DEF OrderlySpec, Spec

(* Serializable: without the steps that change what others only read, a       *)
(* transaction's requests act as if one followed the other, in the order of   *)
(* their commits, whatever their number: what action_close, action_post, the  *)
(* edits of the links and the documents' hooks do on stale snapshots is never *)
(* seen.                                                                      *)
THEOREM RequestsActAtOnce == OrderlySpec => Serializable
  <1> DEFINE Inv == Orderly /\ SerialInv
  <1>1. Init => Inv /\ Atomic!Init
    BY DEF Init, SerialInv, Orderly, Running, Idle, Atomic!Init
  <1>2. TypeOK /\ TypeOK' /\ Fresh /\ Inv /\ [Next /\ Orderly']_vars => Inv'
    <2> SUFFICES ASSUME TypeOK, TypeOK', Fresh, Inv, [Next /\ Orderly']_vars
                 PROVE  Orderly' /\ SerialInv'
      OBVIOUS
    <2>1. Orderly'
      BY DEF Orderly, Running, Idle, vars
    <2> QED
      BY <2>1, SerialStep
  <1>3. TypeOK /\ Fresh /\ Inv /\ [Next /\ Orderly']_vars => [Atomic!Next]_(Atomic!rows)
    <2> SUFFICES ASSUME TypeOK, Fresh, Orderly, SerialInv, [Next]_vars
                 PROVE  Atomic!Next \/ UNCHANGED Atomic!rows
      OBVIOUS
    <2>1. ASSUME NEW s \in Session, Commit(s) PROVE Atomic!Next
      BY <2>1, CommitActsAtOnce
    <2>2. ASSUME NEW t \in Tx, CloseLoad(t) PROVE Atomic!Next
      <3>1. Atomic!CloseLoad(t)
        BY <2>2 DEF CloseLoad, Atomic!CloseLoad, txVars
      <3> QED
        BY <3>1 DEF Atomic!Next
    <2>3. ASSUME NEW t \in Tx, DocsDrift(t) PROVE Atomic!Next
      <3>1. Atomic!DocsDrift(t)
        BY <2>3 DEF DocsDrift, Atomic!DocsDrift
      <3> QED
        BY <3>1 DEF Atomic!Next
    <2>4. ASSUME UNCHANGED <<txVars, loadClosed, moveState>> PROVE UNCHANGED Atomic!rows
      BY <2>4 DEF txVars, Atomic!rows
    <2>5. ASSUME NEW s \in Session, BeginOnTx(s) \/ BeginOnMove(s) \/ LockClose(s) \/ ApplyClose(s) \/ Abort(s)
          PROVE  UNCHANGED Atomic!rows
      <3>1. CASE BeginOnTx(s) \/ BeginOnMove(s)
        BY <2>4, <3>1, BegunAsPlanned
      <3>2. CASE LockClose(s) \/ ApplyClose(s) \/ Abort(s)
        BY <2>4, <3>2 DEF LockClose, ApplyClose, Abort
      <3> QED
        BY <2>5, <3>1, <3>2
    <2>6. CASE UNCHANGED vars
      BY <2>4, <2>6 DEF vars, txVars
    <2> QED
      BY <2>1, <2>2, <2>3, <2>5, <2>6 DEF Next
  <1> QED
    BY <1>1, <1>2, <1>3, OrderlyIsClose, Typing, Freshness, PTL
       DEF OrderlySpec, Serializable, Atomic!Spec

-----------------------------------------------------------------------------
(* The commission an open transaction earns.                               *)

LEMMA ShareIsBounded ==
  ASSUME NEW m \in Nat, NEW r \in Rates
  PROVE  m * r \in Int /\ 0 <= m * r /\ m * r <= m * Unit
  BY UnitAssumption DEF Rates

LEMMA NearestIsBetween ==
  ASSUME NEW m \in Nat, NEW x \in Int, 0 <= x, x <= m * Unit, NEW n, Nearest(n, x)
  PROVE  n \in 0..m
  <1>1. /\ n \in Int /\ Unit \in Int /\ Unit > 0
        /\ n * Unit \in Int /\ m * Unit \in Int
        /\ 2 * (n * Unit - x) <= Unit /\ -Unit <= 2 * (n * Unit - x)
    BY UnitAssumption DEF Nearest
  <1>2. n >= 0
    <2> SUFFICES ASSUME n <= -1 PROVE FALSE
      BY <1>1
    <2>1. n * Unit <= -Unit
      BY <1>1
    <2> QED
      BY <1>1, <2>1
  <1>3. n <= m
    <2> SUFFICES ASSUME n >= m + 1 PROVE FALSE
      BY <1>1
    <2>1. n * Unit >= (m + 1) * Unit
      BY <1>1
    <2>2. (m + 1) * Unit = m * Unit + Unit
      BY <1>1
    <2> QED
      BY <1>1, <2>1, <2>2
  <1> QED
    BY <1>1, <1>2, <1>3

LEMMA TierRatesAreRates ==
  ASSUME NEW rule, IsRule(rule), NEW amount
  PROVE  TierRates(rule, amount) \subseteq Rates
  BY DEF TierRates, IsRule, Tier

(* A commission by an override, a percentage, tiers or the default rate is   *)
(* at least 0 and at most the gross margin, so that the net margin is not    *)
(* negative ("always >= 0" of compute_commission).  A fixed amount is not    *)
(* bounded by the margin.                                                   *)
THEOREM CommissionIsAShare ==
  ASSUME NEW tx, NEW default, Shared(tx, default),
         NEW n, ComputeCommission(tx, default, n)
  PROVE  /\ n \in Int /\ 0 <= n
         /\ tx.margin > 0 => n <= tx.margin /\ NetMargin(tx, n) >= 0
         /\ tx.margin <= 0 => n = 0
  <1>1. CASE tx.margin <= 0
    BY <1>1 DEF ComputeCommission, Shared
  <1>2. CASE tx.margin > 0
    <2>1. tx.margin \in Nat
      BY <1>2 DEF Shared
    <2>2. ASSUME NEW r \in Rates, Nearest(n, tx.margin * r)
          PROVE  n \in 0..tx.margin
      <3>1. tx.margin * r \in Int /\ 0 <= tx.margin * r /\ tx.margin * r <= tx.margin * Unit
        BY <2>1, ShareIsBounded
      <3> QED
        BY <2>1, <2>2, <3>1, NearestIsBetween
    <2>3. n = 0 \/ \E r \in Rates : Nearest(n, tx.margin * r)
      <3>1. CASE tx.override > 0
        BY <1>2, <3>1 DEF ComputeCommission, Shared
      <3>2. CASE ~(tx.override > 0) /\ tx.rule # None /\ IsApplicable(tx.rule, tx)
        <4>1. CalculateCommission(tx.rule, tx, n) /\ IsRule(tx.rule) /\ tx.rule.kind # "fixed"
          BY <1>2, <3>2 DEF ComputeCommission, Shared
        <4>2. CASE tx.rule.kind = "percentage"
          BY <4>1, <4>2 DEF CalculateCommission, IsRule
        <4>3. CASE tx.rule.kind = "tiered"
          <5>1. \E rate \in TierRates(tx.rule, tx.revenue) : Nearest(n, tx.margin * rate)
            BY <4>1, <4>3 DEF CalculateCommission
          <5> QED
            BY <4>1, <5>1, TierRatesAreRates
        <4> QED
          BY <4>1, <4>2, <4>3 DEF IsRule
      <3>3. CASE ~(tx.override > 0) /\ ~(tx.rule # None /\ IsApplicable(tx.rule, tx))
        BY <1>2, <3>3 DEF ComputeCommission, Shared
      <3> QED
        BY <3>1, <3>2, <3>3
    <2>4. n \in 0..tx.margin
      BY <2>1, <2>2, <2>3
    <2> QED
      BY <1>2, <2>1, <2>4 DEF NetMargin
  <1> QED
    BY <1>1, <1>2 DEF Shared

(* When no two tiers contain one amount, the tier that contains it decides,  *)
(* whatever the order in which they are looked at.                          *)
THEOREM DisjointTiersDecide ==
  ASSUME NEW rule, IsRule(rule), Disjoint(rule.tiers), NEW amount \in Int,
         NEW tier \in rule.tiers, Fits(tier, amount)
  PROVE  TierRates(rule, amount) = {tier.rate}
  <1> DEFINE fit == {t \in rule.tiers : Fits(t, amount)}
  <1>1. ASSUME NEW t \in fit PROVE t = tier
    <2>1. /\ t \in rule.tiers /\ Fits(t, amount)
          /\ t.min \in Int /\ t.max \in Int /\ tier.min \in Int /\ tier.max \in Int
      BY DEF IsRule, Tier
    <2>2. CASE t.min <= tier.min
      <3>1. Fits(t, tier.min)
        BY <2>1, <2>2 DEF Fits
      <3> QED
        BY <2>1, <2>2, <3>1 DEF Disjoint
    <2>3. CASE tier.min <= t.min
      <3>1. Fits(tier, t.min)
        BY <2>1, <2>3 DEF Fits
      <3> QED
        BY <2>1, <2>3, <3>1 DEF Disjoint
    <2> QED
      BY <2>1, <2>2, <2>3
  <1>2. tier.min <= tier.min
    BY DEF IsRule, Tier
  <1>3. fit = {tier}
    BY <1>1
  <1> QED
    BY <1>2, <1>3 DEF TierRates

-----------------------------------------------------------------------------
(* The settlement of a weight difference.                                  *)

LEMMA LargerIsOne ==
  ASSUME NEW a \in Int, NEW b \in Int
  PROVE  Larger(a, b) \in {a, b} /\ Larger(a, b) >= a /\ Larger(a, b) >= b
  BY DEF Larger

LEMMA ProductIsInt ==
  ASSUME NEW a \in Int, NEW b \in Int
  PROVE  a * b \in Int
  OBVIOUS

LEMMA ProductGrows ==
  ASSUME NEW a \in Int, NEW b \in Int, NEW r \in Nat, a <= b
  PROVE  a * r \in Int /\ b * r \in Int /\ a * r <= b * r
  OBVIOUS

LEMMA WeightsAreInts ==
  ASSUME NEW tx \in Load
  PROVE  /\ TotalTare(tx) \in Int /\ Gross(tx) \in Nat /\ Net(tx) \in Nat
         /\ Net(tx) = Larger(Gross(tx) - TotalTare(tx), 0)
         /\ DeductionRate(tx) \in Nat /\ tx.minimum \in Int /\ tx.cost \in Int
  <1>1. tx.count \in Int /\ tx.tare \in Int /\ tx.scale \in Int /\ tx.buyer \in Int
        /\ tx.supplier \in Int /\ tx.minimum \in Int /\ tx.cost \in Int /\ tx.rate \in Nat
    BY DEF Load
  <1>2. TotalTare(tx) \in Int
    BY <1>1, ProductIsInt DEF TotalTare
  <1>3. Gross(tx) \in Nat
    BY <1>1 DEF Gross, Source
  <1>4. DeductionRate(tx) \in Nat
    BY <1>1 DEF DeductionRate
  <1> QED
    BY <1>1, <1>2, <1>3, <1>4, LargerIsOne DEF Net

LEMMA FairlySettled ==
  ASSUME NEW tx \in Load
  PROVE  SettledFairly(tx)
  <1> DEFINE net == Net(tx)
             rate == DeductionRate(tx)
             whole == Larger(tx.minimum, 0)
  <1>1. /\ TotalTare(tx) \in Int /\ Gross(tx) \in Nat /\ net \in Nat
        /\ net = Larger(Gross(tx) - TotalTare(tx), 0)
        /\ rate \in Nat /\ tx.minimum \in Int /\ tx.cost \in Int
    BY WeightsAreInts
  <1>2. TotalTare(tx) >= 0 => net <= Gross(tx)
    BY <1>1 DEF Larger
  <1>3. Deduction(tx) \in 0..(whole * rate)
    <2>1. whole \in Nat /\ whole * rate \in Int /\ 0 <= whole * rate
      <3>1. whole \in Nat
        BY <1>1 DEF Larger
      <3> QED
        BY <1>1, <3>1, ProductGrows
    <2>2. CASE tx.minimum > 0 /\ net < tx.minimum
      <3>1. tx.minimum - net \in Int /\ 0 <= tx.minimum - net /\ tx.minimum - net <= whole
        BY <1>1, <2>2 DEF Larger
      <3>2. 0 * rate <= (tx.minimum - net) * rate
        BY <1>1, <3>1, ProductGrows
      <3>3. /\ (tx.minimum - net) * rate \in Int
            /\ (tx.minimum - net) * rate <= whole * rate
        BY <1>1, <2>1, <3>1, ProductGrows
      <3>4. 0 * rate = 0
        BY <1>1
      <3>5. Deduction(tx) = (tx.minimum - net) * rate
        BY <2>2 DEF Deduction
      <3> HIDE DEF net, rate, whole
      <3> QED
        BY <2>1, <3>2, <3>3, <3>4, <3>5
    <2>3. CASE ~(tx.minimum > 0 /\ net < tx.minimum)
      BY <2>1, <2>3 DEF Deduction
    <2> QED
      BY <2>2, <2>3
  <1>4. LET weighed == {s \in {"scale", "buyer", "supplier"} : tx[s] > 0} IN
        weighed # {} => \E s \in weighed : Gross(tx) = tx[s]
    <2>1. tx.scale \in Int /\ tx.buyer \in Int /\ tx.supplier \in Int
      BY DEF Load
    <2> QED
      BY <2>1 DEF Gross, Source
  <1> QED
    BY <1>1, <1>2, <1>3, <1>4 DEF SettledFairly, DeadFreight

LEMMA NeverDeductedMore ==
  ASSUME NEW tx \in Load, NEW pounds \in Nat
  PROVE  HeavierIsBetter(tx, pounds)
  <1> SUFFICES ASSUME Source(tx) # "none"
               PROVE  Deduction([tx EXCEPT ![Source(tx)] = @ + pounds]) <= Deduction(tx)
    BY DEF HeavierIsBetter
  <1> DEFINE more == [tx EXCEPT ![Source(tx)] = @ + pounds]
  <1>1. Source(tx) \in {"scale", "buyer", "supplier"}
    BY DEF Source
  <1>2. more \in Load
    BY <1>1 DEF Load
  <1>3. /\ more.minimum = tx.minimum /\ more.rate = tx.rate
        /\ more.count = tx.count /\ more.tare = tx.tare
    BY <1>1 DEF Load
  <1>4. Source(more) = Source(tx)
    BY <1>1 DEF Load, Source
  <1>5. Gross(more) = Gross(tx) + pounds
    BY <1>1, <1>4 DEF Gross, Load
  <1>6. TotalTare(more) = TotalTare(tx) /\ DeductionRate(more) = DeductionRate(tx)
    BY <1>3 DEF TotalTare, DeductionRate
  <1>7. /\ TotalTare(tx) \in Int /\ Gross(tx) \in Nat /\ Net(tx) \in Nat
        /\ Net(tx) = Larger(Gross(tx) - TotalTare(tx), 0)
        /\ DeductionRate(tx) \in Nat /\ tx.minimum \in Int
        /\ Net(more) \in Nat /\ Net(more) = Larger(Gross(more) - TotalTare(more), 0)
    BY <1>2, WeightsAreInts
  <1>8. Net(tx) <= Net(more)
    BY <1>5, <1>6, <1>7 DEF Larger
  <1>9. Deduction(tx) \in Nat
    <2>1. SettledFairly(tx)
      BY FairlySettled
    <2> QED
      BY <2>1 DEF SettledFairly
  <1>10. CASE tx.minimum > 0 /\ Net(more) < tx.minimum
    <2>1. Net(tx) < tx.minimum
      BY <1>7, <1>8, <1>10
    <2>2. /\ Deduction(more) = (tx.minimum - Net(more)) * DeductionRate(tx)
          /\ Deduction(tx) = (tx.minimum - Net(tx)) * DeductionRate(tx)
      BY <1>3, <1>6, <1>10, <2>1 DEF Deduction
    <2>3. tx.minimum - Net(more) <= tx.minimum - Net(tx)
      BY <1>7, <1>8
    <2> QED
      BY <1>7, <2>2, <2>3, ProductGrows
  <1>11. CASE ~(tx.minimum > 0 /\ Net(more) < tx.minimum)
    BY <1>3, <1>9, <1>11 DEF Deduction
  <1> QED
    BY <1>10, <1>11

(* Whatever was weighed, typed and agreed: a load is settled on a weight     *)
(* that was taken and not on more, a deduction stays within the whole        *)
(* minimum and never grows with the weight, and the discrepancy flag takes   *)
(* the buyer's side no more than the supplier's.                            *)
THEOREM SettlementIsFair ==
  ASSUME NEW tx \in Load, NEW pounds \in Nat
  PROVE  SettledFairly(tx) /\ HeavierIsBetter(tx, pounds) /\ FlagIsSymmetric(tx)
  <1>1. FlagIsSymmetric(tx)
    <2>1. tx.supplier \in Int /\ tx.buyer \in Int
      BY DEF Load
    <2> DEFINE swapped == [tx EXCEPT !.supplier = tx.buyer, !.buyer = tx.supplier]
    <2>2. swapped.supplier = tx.buyer /\ swapped.buyer = tx.supplier
      BY DEF Load
    <2> QED
      BY <2>1, <2>2 DEF FlagIsSymmetric, Flagged, Larger
  <1> QED
    BY <1>1, FairlySettled, NeverDeductedMore

-----------------------------------------------------------------------------
(* Penalties.  No field of a rule or of an invoice is bounded by the code.   *)
PenaltyFields(rule) ==
  /\ rule.rate \in Int /\ rule.max \in Int /\ rule.threshold \in Int /\ rule.grace \in Int
  /\ rule.method \in {"percentage", "fixed", "per_unit"}

InvoiceFields(invoice) ==
  /\ "penalty" \in DOMAIN invoice
  /\ invoice.total \in Int /\ invoice.variance \in Int /\ invoice.due \in Int /\ invoice.penalty \in Int

LEMMA ChargeIsCapped ==
  ASSUME NEW rule, PenaltyFields(rule), NEW invoice, InvoiceFields(invoice), NEW today \in Int
  PROVE  /\ Charge(rule, invoice, today) \in Int
         /\ rule.max > 0 => Charge(rule, invoice, today) <= 100 * rule.max
         /\ Charge(rule, invoice, today) > 0 => IsFor(rule, invoice)
  <1> DEFINE late == DaysLate(invoice, today)
             counted == Larger(0, late - rule.grace)
             due == CASE ~IsFor(rule, invoice) -> 0
                      [] IsFor(rule, invoice) /\ rule.type = "weight_variance" ->
                           IF invoice.variance > 0 /\ invoice.variance >= rule.threshold
                           THEN Amount(rule, invoice, invoice.variance) ELSE 0
                      [] IsFor(rule, invoice) /\ rule.type = "late_delivery" ->
                           IF late > 0 /\ counted >= rule.threshold
                           THEN Amount(rule, invoice, counted) ELSE 0
                      [] OTHER -> 0
  <1>1. Charge(rule, invoice, today) =
          IF due > 100 * rule.max /\ rule.max > 0 THEN 100 * rule.max ELSE due
    BY DEF Charge
  <1>2. late \in Int /\ counted \in Int
    BY DEF DaysLate, Larger, InvoiceFields, PenaltyFields
  <1>3. ASSUME NEW value \in Int PROVE Amount(rule, invoice, value) \in Int
    <2>1. \A a, b \in Int : a * b \in Int
      OBVIOUS
    <2>2. /\ invoice.total * rule.rate \in Int /\ 100 * rule.rate \in Int
          /\ 100 * rule.rate * value \in Int
      BY <2>1 DEF InvoiceFields, PenaltyFields
    <2> QED
      BY <2>2 DEF Amount, PenaltyFields
  <1> HIDE DEF late, counted
  <1>4. due \in Int
    BY <1>2, <1>3 DEF InvoiceFields
  <1>5. ~IsFor(rule, invoice) => due = 0
    OBVIOUS
  <1> HIDE DEF due
  <1>6. rule.max \in Int /\ 100 * rule.max \in Int
    BY DEF PenaltyFields
  <1> QED
    BY <1>1, <1>4, <1>5, <1>6

(* A non-empty set of naturals has a least element.                         *)
LEMMA LeastIsThere ==
  ASSUME NEW T, T \subseteq Nat, T # {}
  PROVE  Min(T) \in T /\ \A y \in T : Min(T) <= y
  <1> DEFINE R == {pair \in Nat \X Nat : pair[1] < pair[2]}
  <1>1. IsWellFoundedOn(R, Nat)
    BY NatLessThanWellFounded DEF OpToRel
  <1> HIDE DEF R
  <1>2. PICK x \in T : \A y \in T : <<y, x>> \notin R
    BY <1>1, WFMin
  <1>3. ASSUME NEW y \in T PROVE x <= y
    <2>1. x \in Nat /\ y \in Nat
      OBVIOUS
    <2>2. ~(y < x)
      BY <1>2, <2>1 DEF R
    <2> QED
      BY <2>1, <2>2
  <1> QED
    BY <1>3 DEF Min

(* A penalty is within the cap of a rule that is for the invoice, no rule    *)
(* before it in the order charges, and no later calculation changes it,      *)
(* whatever rules and date that has: calculate_penalties, for any rules.    *)
THEOREM PenaltiesStayDue ==
  ASSUME NEW rules, DOMAIN rules \subseteq Nat \ {0}, \A i \in DOMAIN rules : PenaltyFields(rules[i]),
         \A i \in DOMAIN rules, j \in Nat \ {0} : j < i => j \in DOMAIN rules,
         NEW invoice, InvoiceFields(invoice), NEW today \in Int, NEW others, NEW later
  PROVE  PenaltyIsDue(rules, invoice, today, others, later)
  <1> DEFINE i == PenaltyRule(rules, invoice, today)
             after == Penalised(rules, invoice, today)
             Owed(j) == Charge(rules[j], invoice, today)
             charging == {j \in DOMAIN rules : Owed(j) > 0}
  <1>1. i = IF charging = {} THEN 0 ELSE Min(charging)
    BY DEF PenaltyRule
  <1>2. after = IF invoice.penalty # 0 \/ i = 0 THEN invoice
                ELSE [invoice EXCEPT !.penalty = Owed(i)]
    BY DEF Penalised
  <1>3. after.penalty # 0 => Penalised(others, after, later) = after
    BY DEF Penalised
  <1> HIDE DEF i, after
  <1>4. ASSUME i # 0, invoice.penalty = 0
        PROVE  /\ after.penalty > 0
               /\ IsFor(rules[i], invoice)
               /\ rules[i].max > 0 => after.penalty <= 100 * rules[i].max
               /\ \A j \in 1..(i - 1) : Owed(j) <= 0
    <2>1. charging \subseteq Nat /\ charging # {}
      BY <1>1, <1>4
    <2>2. i \in charging /\ \A j \in charging : i <= j
      <3> HIDE DEF charging
      <3> QED
        BY <1>1, <2>1, LeastIsThere
    <2>3. after.penalty = Owed(i)
      BY <1>2, <1>4 DEF InvoiceFields
    <2>4. i \in DOMAIN rules /\ i \in Nat \ {0} /\ Owed(i) > 0
      BY <2>2
    <2>5. \A j \in DOMAIN rules : Owed(j) \in Int
      BY ChargeIsCapped
    <2>6. /\ IsFor(rules[i], invoice)
          /\ rules[i].max > 0 => Owed(i) <= 100 * rules[i].max
      BY <2>4, ChargeIsCapped
    <2> HIDE DEF Owed
    <2>7. ASSUME NEW j \in 1..(i - 1) PROVE Owed(j) <= 0
      <3>1. j \in DOMAIN rules /\ j < i
        BY <2>4
      <3>2. j \notin charging
        BY <2>2, <2>4, <3>1
      <3> QED
        BY <2>5, <3>1, <3>2
    <2> QED
      BY <2>3, <2>4, <2>6, <2>7
  <1> QED
    BY <1>3, <1>4 DEF PenaltyIsDue, i, after

(* A tare that was typed outlives a change of the unit, except for 0, which  *)
(* the code takes for "not set": _inverse_tare_per_unit.                    *)
THEOREM TypedTaresStay ==
  ASSUME NEW tx \in Load, NEW pounds \in Int \ {0}, NEW unit \in DOMAIN DefaultTare, NEW override \in Int
  PROVE  TypedTareStays(tx, pounds, unit, override)
  BY DEF TypedTareStays, EditUnit, EditOverride, TypeTare, Recomputed, TarePerUnit, Load

(* A rule whose threshold is set charges nothing within its grace period.    *)
THEOREM GraceIsKept ==
  ASSUME NEW rule, PenaltyFields(rule), rule.threshold > 0, NEW invoice, InvoiceFields(invoice),
         NEW today \in Int
  PROVE  GraceHolds(rule, invoice, today)
  <1> SUFFICES ASSUME rule.type = "late_delivery", DaysLate(invoice, today) <= rule.grace
               PROVE  Charge(rule, invoice, today) <= 0
    BY DEF GraceHolds
  <1> DEFINE late == DaysLate(invoice, today)
             counted == Larger(0, late - rule.grace)
  <1>1. late \in Int /\ rule.grace \in Int /\ rule.threshold \in Int /\ rule.max \in Int
    BY DEF DaysLate, Larger, InvoiceFields, PenaltyFields
  <1>2. ~(counted >= rule.threshold)
    BY <1>1 DEF Larger
  <1>3. Charge(rule, invoice, today) = IF 0 > 100 * rule.max /\ rule.max > 0 THEN 100 * rule.max ELSE 0
    BY <1>2 DEF Charge
  <1> QED
    BY <1>1, <1>3
=============================================================================
