---------------------------- MODULE OrderlyRequests ----------------------------
(* TransactionClose without the steps that change what other requests only    *)
(* read: a close reads the state of its moves, which button_cancel and         *)
(* button_draft take back, and a close or a posting reads whether the          *)
(* documents are complete, which may drift while it runs.                      *)
EXTENDS TransactionClose

Skewing == {"button_cancel", "button_draft"}
Orderly == drifted = {} /\ \A s \in Session : ~Running(s, Skewing)

OrderlySpec == Init /\ [][Next /\ Orderly']_vars

Atomic == INSTANCE AtomicRequests

(* Then every request has the effect it would have if it happened in one       *)
(* piece as it commits, so that nothing action_close, action_post, the edits   *)
(* of the links or the documents' hook read or computed is out of date by      *)
(* then: a behaviour is one of AtomicRequests.                                 *)
Serializable == Atomic!Spec
=============================================================================
