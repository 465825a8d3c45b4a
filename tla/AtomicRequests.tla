---------------------------- MODULE AtomicRequests ----------------------------
(***************************************************************************)
(* What the requests on a transaction would do if each happened at once:    *)
(* no snapshots, no commits, no locks.  TransactionClose implements this     *)
(* as long as no request takes back what others only read.                  *)
(***************************************************************************)
EXTENDS Integers

CONSTANTS Tx, Move, Margins, Rate

VARIABLES state, margin, locked, lockedAmount, docs, compliant, loadClosed, linked, moveState

rows == <<state, margin, locked, lockedAmount, docs, compliant, loadClosed, linked, moveState>>

Open(t) == state[t] # "closed"
Of(t, kind) == {m \in linked : m.tx = t /\ m.kind = kind}
Posted(m) == moveState[m] = "posted"
Drafts(t) == {m \in linked : m.tx = t /\ moveState[m] = "draft"}

(* A freight bill is no customer invoice nor supplier bill of the deal.     *)
Linkable(m) == m.kind # "freight" => Open(m.tx) /\ (m.kind = "invoice" => Of(m.tx, "invoice") \subseteq {m})

Earned(t) == IF t \in locked THEN lockedAmount[t] ELSE IF margin[t] > 0 THEN margin[t] * Rate ELSE 0

SetTo(ms, st) == moveState' = [m \in Move |-> IF m \in ms THEN st ELSE moveState[m]]
Remargin(t, v) == margin' = [margin EXCEPT ![t] = v]

-----------------------------------------------------------------------------
Close(t) ==
  /\ Open(t) /\ t \in loadClosed /\ t \in docs /\ margin[t] >= 0
  /\ \E m \in Of(t, "invoice") : Posted(m)
  /\ \A m \in Of(t, "bill") : Posted(m)
  /\ state' = [state EXCEPT ![t] = "closed"]
  /\ locked' = locked \cup {t}
  /\ lockedAmount' = [lockedAmount EXCEPT ![t] = Earned(t)]
  /\ UNCHANGED <<margin, docs, compliant, loadClosed, linked, moveState>>

(* An invoice or bill is linked as it is posted, and the margin recomputed.  *)
PostMove(m, v) ==
  /\ moveState[m] = "draft" /\ Linkable(m)
  /\ m.kind = "invoice" => m.tx \in docs
  /\ SetTo({m}, "posted")
  /\ IF m.kind = "freight" THEN UNCHANGED <<linked, margin>>
     ELSE /\ m \in linked => v = margin[m.tx]
          /\ linked' = linked \cup {m} /\ Remargin(m.tx, v)
  /\ UNCHANGED <<state, locked, lockedAmount, docs, compliant, loadClosed>>

Link(m, v) ==
  /\ m \notin linked /\ Open(m.tx)
  /\ m.kind = "invoice" => Of(m.tx, "invoice") \subseteq {m}
  /\ linked' = linked \cup {m} /\ Remargin(m.tx, v)
  /\ UNCHANGED <<state, locked, lockedAmount, docs, compliant, loadClosed, moveState>>

Unlink(m, v) ==
  /\ m \in linked /\ m.kind # "invoice" /\ Open(m.tx)
  /\ linked' = linked \ {m} /\ Remargin(m.tx, v)
  /\ UNCHANGED <<state, locked, lockedAmount, docs, compliant, loadClosed, moveState>>

Amend(m, v) ==
  /\ m \in Drafts(m.tx) /\ v # margin[m.tx]
  /\ Remargin(m.tx, v)
  /\ UNCHANGED <<state, locked, lockedAmount, docs, compliant, loadClosed, linked, moveState>>

(* The documents are complete: what was waiting for them is posted.         *)
Verify(t) ==
  LET due == IF t \in compliant THEN {} ELSE Drafts(t) IN
  /\ ~(t \in docs /\ t \in compliant)
  /\ \A m \in due : Linkable(m)
  /\ docs' = docs \cup {t} /\ compliant' = compliant \cup {t}
  /\ SetTo(due, "posted")
  /\ UNCHANGED <<state, margin, locked, lockedAmount, loadClosed, linked>>

Revoke(t) ==
  /\ t \in docs \/ t \in compliant
  /\ docs' = docs \ {t} /\ compliant' = compliant \ {t}
  /\ UNCHANGED <<state, margin, locked, lockedAmount, loadClosed, linked, moveState>>

(* What changes only what other operations read.                            *)
Cancel(m) ==
  /\ moveState[m] # "cancel" /\ (m \in linked => Open(m.tx))
  /\ SetTo({m}, "cancel")
  /\ UNCHANGED <<state, margin, locked, lockedAmount, docs, compliant, loadClosed, linked>>

Redraft(m) ==
  /\ moveState[m] # "draft"
  /\ SetTo({m}, "draft")
  /\ UNCHANGED <<state, margin, locked, lockedAmount, docs, compliant, loadClosed, linked>>

(* A date, a rule or the record of a document changed.                      *)
DocsDrift(t) ==
  /\ docs' = IF t \in docs THEN docs \ {t} ELSE docs \cup {t}
  /\ UNCHANGED <<state, margin, locked, lockedAmount, compliant, loadClosed, linked, moveState>>

Reopen(t) ==
  /\ ~Open(t)
  /\ state' = [state EXCEPT ![t] = "active"]
  /\ UNCHANGED <<margin, locked, lockedAmount, docs, compliant, loadClosed, linked, moveState>>

(* The closing write that is not checked: no commission is captured.        *)
CloseUnchecked(t) ==
  /\ Open(t) \/ t \notin locked
  /\ state' = [state EXCEPT ![t] = "closed"]
  /\ locked' = locked \cup {t}
  /\ UNCHANGED <<margin, lockedAmount, docs, compliant, loadClosed, linked, moveState>>

Unlock(t) ==
  /\ t \in locked
  /\ locked' = locked \ {t}
  /\ UNCHANGED <<state, margin, lockedAmount, docs, compliant, loadClosed, linked, moveState>>

CloseLoad(t) ==
  /\ t \notin loadClosed
  /\ loadClosed' = loadClosed \cup {t}
  /\ UNCHANGED <<state, margin, locked, lockedAmount, docs, compliant, linked, moveState>>

-----------------------------------------------------------------------------
Init ==
  /\ state = [t \in Tx |-> "active"] /\ margin \in [Tx -> Margins]
  /\ locked = {} /\ lockedAmount = [t \in Tx |-> 0]
  /\ docs = {} /\ compliant = {} /\ loadClosed = {}
  /\ linked = {} /\ moveState = [m \in Move |-> "draft"]

Next ==
  \/ \E t \in Tx : \/ Close(t) \/ Verify(t) \/ Revoke(t) \/ Reopen(t) \/ Unlock(t)
                    \/ CloseUnchecked(t) \/ DocsDrift(t) \/ CloseLoad(t)
  \/ \E m \in Move : Cancel(m) \/ Redraft(m)
  \/ \E m \in Move, v \in Margins : PostMove(m, v) \/ Link(m, v) \/ Unlink(m, v) \/ Amend(m, v)

Spec == Init /\ [][Next]_rows
=============================================================================
