-------------------------- MODULE DocumentCompliance --------------------------
(***************************************************************************)
(* The required documents of one transaction (plasticos_documents), the    *)
(* stored status computed from them, and the passing of days, which the    *)
(* midnight cron of plasticos_base makes visible.                          *)
(*                                                                         *)
(* Every write of a document that recomputes the status also writes the    *)
(* transaction's row, so two of them never overlap (TransactionClose has   *)
(* the races with the other requests): a step here is a whole request.     *)
(***************************************************************************)
EXTENDS Integers, FiniteSets

CONSTANTS
  Doc,      \* document ids, which order the batches
  Tag,      \* document tags; a rule requires one
  LastDay,  \* bound on the days: 0..LastDay
  Batch     \* limit of the midnight searches (1000 in the code)

ASSUME DocAssumption == Doc \subseteq Nat /\ IsFiniteSet(Doc)
ASSUME DayAssumption == LastDay \in Nat
ASSUME BatchAssumption == Batch \in Nat \ {0}

Day == 0..LastDay
Never == LastDay + 1  \* no expiry date: never before today

VARIABLES
  today,    \* Day
  audited,  \* Day \cup {-1}: the day the midnight cron last ran
  doc,      \* [a set of ids -> document]: the documents on file
  rule,     \* SUBSET Tag: tags with an active rule
  status,   \* compliance_status
  unseen    \* history: a change the stored status was not computed after

vars == <<today, audited, doc, rule, status, unseen>>

(* here: res_model and res_id name this transaction.                        *)
Document == [here : BOOLEAN, tag : Tag, active : BOOLEAN, verified : BOOLEAN, override : BOOLEAN,
             expiry : Day \cup {Never}, expired : BOOLEAN]

-----------------------------------------------------------------------------
(* _compute_is_expired.                                                     *)
Expired(expiry) == expiry < today

(* get_missing_documents: the stored flag decides whether a document still  *)
(* counts.                                                                  *)
Counts(d) == d.here /\ d.active /\ (d.verified \/ d.override) /\ ~d.expired
Missing(docs) ==
  {t \in rule : \A i \in DOMAIN docs : ~(docs[i].tag = t /\ Counts(docs[i]))}

(* _compute_compliance, run by _trigger_transaction_recompute; the invoices  *)
(* that a status turning compliant posts are in TransactionClose.           *)
Recomputed(docs) ==
  /\ status' = IF Missing(docs) = {} THEN "compliant" ELSE "missing"
  /\ unseen' = FALSE

(* _get_related_transactions of the documents written: this transaction when *)
(* one of them is here; otherwise it may still be related to one through its *)
(* load, its sale order or the transaction_id of the document.              *)
Trigger(docs, related) ==
  Recomputed(docs) \/ (~related /\ UNCHANGED <<status, unseen>>)

(* A change after which nothing is recomputed.                              *)
Unnoticed == unseen' = TRUE /\ UNCHANGED status

Put(i, d) == doc' = [j \in DOMAIN doc \cup {i} |-> IF j = i THEN d ELSE doc[j]]

(* A write of a document whose fields include one of compliance_fields.     *)
Rewrite(i, d) ==
  /\ Put(i, d)
  /\ Trigger([j \in DOMAIN doc \cup {i} |-> IF j = i THEN d ELSE doc[j]], d.here)
  /\ UNCHANGED <<today, audited, rule>>

-----------------------------------------------------------------------------
File(i, here, tag, expiry) ==
  /\ i \notin DOMAIN doc
  /\ Rewrite(i, [here |-> here, tag |-> tag, active |-> TRUE, verified |-> FALSE,
                 override |-> FALSE, expiry |-> expiry, expired |-> Expired(expiry)])

ActionVerify(i) == i \in DOMAIN doc /\ Rewrite(i, [doc[i] EXCEPT !.verified = TRUE])

ActionOverride(i) == i \in DOMAIN doc /\ Rewrite(i, [doc[i] EXCEPT !.override = TRUE])

(* active: archived from, and brought back to, the list.                    *)
ToggleActive(i) ==
  i \in DOMAIN doc /\ Rewrite(i, [doc[i] EXCEPT !.active = ~doc[i].active])

Retag(i, tag) == i \in DOMAIN doc /\ Rewrite(i, [doc[i] EXCEPT !.tag = tag])

\* Mutation: the transaction is not recomputed after the delete.
UnlinkQuietly(i) ==
  /\ i \in DOMAIN doc
  /\ doc' = [j \in DOMAIN doc \ {i} |-> doc[j]]
  /\ UNCHANGED <<today, audited, rule, status, unseen>>

Unlink(i) ==
  /\ i \in DOMAIN doc
  /\ doc' = [j \in DOMAIN doc \ {i} |-> doc[j]]
  /\ Trigger([j \in DOMAIN doc \ {i} |-> doc[j]], doc[i].here)
  /\ UNCHANGED <<today, audited, rule>>

(* expiry_date is not one of compliance_fields: the flag follows, the       *)
(* status does not.                                                         *)
SetExpiry(i, expiry) ==
  /\ i \in DOMAIN doc
  /\ Put(i, [doc[i] EXCEPT !.expiry = expiry, !.expired = Expired(expiry)])
  /\ Unnoticed
  /\ UNCHANGED <<today, audited, rule>>

(* Nor are res_model and res_id, which the form edits: a document moved to   *)
(* this transaction or away from it leaves the status of both.              *)
MoveRecord(i) ==
  /\ i \in DOMAIN doc
  /\ Put(i, [doc[i] EXCEPT !.here = ~doc[i].here])
  /\ Unnoticed
  /\ UNCHANGED <<today, audited, rule>>

(* A rule is activated or deactivated: nothing is recomputed.               *)
ToggleRule(tag) ==
  /\ rule' = IF tag \in rule THEN rule \ {tag} ELSE rule \cup {tag}
  /\ Unnoticed
  /\ UNCHANGED <<today, audited, doc>>

-----------------------------------------------------------------------------
(* The first n of a set of ids, in id order.                                *)
First(S, n) == {i \in S : Cardinality({j \in S : j < i}) < n}

\* Mutation: a document is looked for on its last day only.
DueOnTheDay == {i \in DOMAIN doc : doc[i].active /\ ~doc[i].expired /\ doc[i].expiry = today - 1}

(* _recompute_document_expiry: the two searches.                            *)
Due == {i \in DOMAIN doc : doc[i].active /\ ~doc[i].expired /\ doc[i].expiry <= today}
Extended == {i \in DOMAIN doc : doc[i].active /\ doc[i].expired /\ doc[i].expiry > today}

(* _cron_midnight_recompute.  It writes the flag and nothing else.          *)
Midnight ==
  /\ audited < today
  /\ doc' = [i \in DOMAIN doc |->
       IF i \in First(Due, Batch) \cup First(Extended, Batch)
       THEN [doc[i] EXCEPT !.expired = Expired(doc[i].expiry)] ELSE doc[i]]
  /\ audited' = today
  /\ IF doc' = doc THEN UNCHANGED <<status, unseen>> ELSE Unnoticed
  /\ UNCHANGED <<today, rule>>

(* _cron_compliance_audit: the verification of expired documents is reset.  *)
Audit ==
  LET due == {i \in DOMAIN doc : doc[i].verified /\ doc[i].expired /\ doc[i].active}
      new == [i \in DOMAIN doc |-> IF i \in due THEN [doc[i] EXCEPT !.verified = FALSE]
                                   ELSE doc[i]]
  IN /\ due # {}
     /\ doc' = new
     /\ Trigger(new, \E i \in due : doc[i].here)
     /\ UNCHANGED <<today, audited, rule>>

NextDay ==
  /\ today < LastDay
  /\ today' = today + 1
  /\ UNCHANGED <<audited, doc, rule, status, unseen>>

Init ==
  /\ today = 0 /\ audited = -1
  /\ doc = << >>
  /\ rule = Tag
  /\ status = IF rule = {} THEN "compliant" ELSE "missing"
  /\ unseen = FALSE

Next ==
  \/ \E i \in Doc :
       \/ \E here \in BOOLEAN, t \in Tag, e \in Day \cup {Never} : File(i, here, t, e)
       \/ \E t \in Tag : Retag(i, t)
       \/ \E e \in Day \cup {Never} : SetExpiry(i, e)
       \/ ActionVerify(i) \/ ActionOverride(i) \/ ToggleActive(i)
       \/ MoveRecord(i) \/ Unlink(i)
  \/ \E t \in Tag : ToggleRule(t)
  \/ Midnight \/ Audit \/ NextDay

Spec == Init /\ [][Next]_vars

-----------------------------------------------------------------------------
TypeOK ==
  /\ today \in Day /\ audited \in {-1} \cup Day
  /\ DOMAIN doc \subseteq Doc
  /\ \A i \in DOMAIN doc : doc[i] \in Document
  /\ rule \subseteq Tag
  /\ status \in {"missing", "compliant"}
  /\ unseen \in BOOLEAN

(* The midnight cron leaves every document in the list flagged exactly, also *)
(* after days on which it did not run, when no search exceeds its limit.    *)
MidnightExact == [][audited' # audited =>
  \A i \in DOMAIN doc : doc[i].active =>
    (doc'[i].expired <=> doc[i].expiry < today)]_vars

(* Whichever way a document comes, changes or goes, the stored status agrees *)
(* with the documents of the transaction, until an expiry date or the record *)
(* of a document is edited, a rule is switched or the midnight cron moves a  *)
(* flag: these four leave it stale, up to the next recompute.               *)
StatusFollowsDocuments == ~unseen => (status = "compliant" <=> Missing(doc) = {})

=============================================================================
