------------------------------ MODULE ClaimLedger ------------------------------
(***************************************************************************)
(* Claims on transactions (plasticos_claims) and the money they bring back. *)
(* A transaction's row stores sums over its claims; whoever writes a claim   *)
(* computes them anew from his own snapshot, and they enter the gross margin *)
(* that a close asks for.                                                   *)
(*                                                                         *)
(* The resolution note is left out: a request without it raises.  The gross *)
(* margin is the balance of the accounting documents plus the recoveries.   *)
(***************************************************************************)
EXTENDS SnapshotRequests, Functions

CONSTANTS
  Claims,     \* slots for claims
  Txs,        \* transactions
  Kinds,      \* case types of a run
  Amounts,    \* recovery amounts
  Balances    \* revenue less costs, without recoveries

AllKinds == {"buyer_claim", "inspection", "freight_chargeback", "lightweight_penalty", "other"}
QualityKinds == {"buyer_claim", "inspection"}
Settled == {"resolved", "archived"}
ClaimState == {"pending", "in_progress", "escalated"} \cup Settled

ASSUME ClaimAssumption ==
  /\ Kinds \subseteq AllKinds /\ Amounts \subseteq Int /\ Balances \subseteq Int
  /\ IsFiniteSet(Claims) /\ Claims \cap Txs = {}

NewTx(balance) == [balance |-> balance, closed |-> FALSE, claims |-> 0,
                   quality |-> FALSE, chargebacks |-> 0, penalties |-> 0]

ClaimRows == {[k \in Claims \cup Txs |-> IF k \in Claims THEN None ELSE NewTx(start[k])] :
                start \in [Txs -> Balances]}

(* The claims in the database: their slots, unless the run has none.        *)
Held == {c \in Claims \cap DOMAIN rows : rows[c] # None}
Deals == Txs \cap DOMAIN rows

-----------------------------------------------------------------------------
(* The stored fields computed from the claims of t, where at gives the      *)
(* claims as the request will leave them.                                  *)
ClaimsOf(t, at) == {c \in Claims : at[c] # None /\ at[c].tx = t}

Recovery(t, kind, claim) ==
  IF claim # None /\ claim.tx = t /\ claim.state = "resolved" /\ claim.kind = kind
  THEN claim.amount ELSE 0

Recovered(t, kind, at) == SumFunction([c \in Claims |-> Recovery(t, kind, at[c])])

HasQualityClaim(t, at) ==
  \E c \in ClaimsOf(t, at) : at[c].kind \in QualityKinds /\ at[c].state \notin Settled

(* What a claim shows to the flag: a new amount does not recompute it.      *)
Face(claim) == IF claim = None THEN None ELSE <<claim.state, claim.kind, claim.tx>>

\* Mutation: the transaction that loses a claim is forgotten.
ParentsAfter(c, at) == {claim.tx : claim \in {at[c]} \ {None}}

(* The transactions a claim belongs to before or after the request.         *)
Parents(c, at) == {claim.tx : claim \in {rows[c], at[c]} \ {None}}

RecomputedTx(t, at, changed) ==
  [rows[t] EXCEPT
     !.claims = Cardinality(ClaimsOf(t, at)),
     !.quality = IF \E c \in changed : t \in Parents(c, at) /\ Face(at[c]) # Face(rows[c])
                 THEN HasQualityClaim(t, at) ELSE @,
     !.chargebacks = Recovered(t, "freight_chargeback", at),
     !.penalties = Recovered(t, "lightweight_penalty", at)]

(* A request that leaves the claims in DOMAIN new as new says; only their   *)
(* transactions are recomputed.                                            *)
WriteClaims(s, new) ==
  LET at == Over(new, [c \in Claims |-> rows[c]])
      changed == {c \in DOMAIN new : new[c] # rows[c]}
      touched == UNION {Parents(c, at) : c \in changed}
  IN Begin(s, Over(new, [t \in touched |-> RecomputedTx(t, at, changed)]), {})

-----------------------------------------------------------------------------
(* A claim is filed by hand, or by the upload of claim pictures.            *)
CreateClaim(s) == \E c \in (Claims \cap DOMAIN rows) \ Held,
                     kind \in Kinds, amount \in Amounts, t \in Txs :
  WriteClaims(s, Row(c, [state |-> "pending", kind |-> kind, amount |-> amount, tx |-> t]))

EditClaim(s) == \E c \in Held, kind \in Kinds, amount \in Amounts, t \in Txs :
  /\ rows[c].state # "archived"
  /\ WriteClaims(s, Row(c, [rows[c] EXCEPT !.kind = kind, !.amount = amount, !.tx = t]))

UnlinkClaim(s) == \E c \in Held :
  /\ rows[c].state \notin Settled
  /\ WriteClaims(s, Row(c, None))

(* The buttons of a claim: from which states to which.                     *)
ActionStart == {<<"pending", "in_progress">>}
ActionEscalate == {"pending", "in_progress"} \X {"escalated"}
ActionResolve == ClaimState \X {"resolved"}
ActionArchive == {<<"resolved", "archived">>}
ActionReopen == Settled \X {"in_progress"}

Press(s) == \E c \in Held :
  \E move \in UNION {ActionStart, ActionEscalate, ActionResolve, ActionArchive, ActionReopen} :
    /\ rows[c].state = move[1]
    /\ WriteClaims(s, Row(c, [rows[c] EXCEPT !.state = move[2]]))

(* The bulk wizard passes over archived claims unless it reopens them.      *)
BulkStatus(s) == \E new \in ClaimState :
  LET chosen == {c \in Held : rows[c].state # "archived" \/ new = "in_progress"} IN
  \E C \in SUBSET chosen : WriteClaims(s, [c \in C |-> [rows[c] EXCEPT !.state = new]])

(* The cron escalates pending claims that are late.                        *)
CheckSla(s) == \E C \in SUBSET {c \in Held : rows[c].state = "pending"} :
  WriteClaims(s, [c \in C |-> [rows[c] EXCEPT !.state = "escalated"]])

-----------------------------------------------------------------------------
(* An invoice or a bill changes.                                           *)
Amend(s) == \E t \in Deals, balance \in Balances :
  Begin(s, Row(t, [rows[t] EXCEPT !.balance = balance]), {})

GrossMargin(row) == row.balance + row.chargebacks + row.penalties

\* Mutation: the margin is not checked.
ActionCloseUnchecked(s) == \E t \in Deals :
  /\ ~rows[t].closed
  /\ Begin(s, Row(t, [rows[t] EXCEPT !.closed = TRUE]), {})

ActionClose(s) == \E t \in Deals :
  /\ ~rows[t].closed /\ GrossMargin(rows[t]) >= 0
  /\ Begin(s, Row(t, [rows[t] EXCEPT !.closed = TRUE]), {})

ClaimRequest(s) ==
  \/ CreateClaim(s) \/ EditClaim(s) \/ UnlinkClaim(s)
  \/ Press(s) \/ BulkStatus(s) \/ CheckSla(s)
  \/ Amend(s) \/ ActionClose(s)

ClaimInit == Start(ClaimRows, {})
ClaimNext == \E s \in Session : ClaimRequest(s) \/ Served(s)
ClaimSpec == ClaimInit /\ [][ClaimNext]_requestVars

-----------------------------------------------------------------------------
Committed == [c \in Claims |-> rows[c]]

(* However requests on the claims of one transaction interleave, each with  *)
(* the sums of its own snapshot, what the transaction stores is the number  *)
(* of its claims and what those resolved have recovered.                    *)
RecoveriesExact == \A t \in Deals :
  /\ rows[t].claims = Cardinality(ClaimsOf(t, Committed))
  /\ rows[t].chargebacks = Recovered(t, "freight_chargeback", Committed)
  /\ rows[t].penalties = Recovered(t, "lightweight_penalty", Committed)

(* A close commits on a margin that is not negative by the accounting and   *)
(* the claims of that moment, not only of the snapshot it was checked on.   *)
LiveMargin == [][\A t \in Deals : ~rows[t].closed /\ rows'[t].closed =>
  rows[t].balance + Recovered(t, "freight_chargeback", Committed)
                  + Recovered(t, "lightweight_penalty", Committed) >= 0]_rows
=============================================================================
