-------------------------- MODULE IdempotentAdmission --------------------------
(***************************************************************************)
(* What the admission of web leads promises to its senders and its owners, *)
(* whatever is retried, replayed or raced: a submission key has at most one *)
(* receipt; a receipt is converted into an intake by one atomic step, and   *)
(* not again while that intake lives; a delivery is answered once, and      *)
(* never before its receipt is durable.                                     *)
(***************************************************************************)
CONSTANTS Keys, Deliveries, KeyOf

VARIABLES
  receipt,  \* [Keys -> "none", "open", "converted", "withdrawn"]
  answer    \* [Deliveries -> "none", "accepted", "refused"]

Receipts == {"none", "open", "converted", "withdrawn"}
Answers == {"none", "accepted", "refused"}

Init ==
  /\ receipt = [k \in Keys |-> "none"]
  /\ answer = [d \in Deliveries |-> "none"]

(* The receipt and its conversion become durable together, or not at all;  *)
(* the answer may be given with it, later, or get lost.                     *)
Admit(d) ==
  /\ receipt[KeyOf[d]] \in {"none", "withdrawn"}
  /\ \E r \in {"open", "converted"} : receipt' = [receipt EXCEPT ![KeyOf[d]] = r]
  /\ \/ answer[d] = "none" /\ answer' = [answer EXCEPT ![d] = "accepted"]
     \/ UNCHANGED answer

Answer(d) ==
  /\ answer[d] = "none" /\ receipt[KeyOf[d]] # "none"
  /\ \E a \in {"accepted", "refused"} : answer' = [answer EXCEPT ![d] = a]
  /\ UNCHANGED receipt

Convert(k) ==
  /\ receipt[k] = "open"
  /\ receipt' = [receipt EXCEPT ![k] = "converted"]
  /\ UNCHANGED answer

(* A user deletes the intake.                                              *)
Reopen(k) ==
  /\ receipt[k] = "converted"
  /\ receipt' = [receipt EXCEPT ![k] = "open"]
  /\ UNCHANGED answer

Withdraw(k) ==
  /\ receipt[k] \in {"open", "converted"}
  /\ receipt' = [receipt EXCEPT ![k] = "withdrawn"]
  /\ UNCHANGED answer

Next ==
  \/ \E d \in Deliveries : Admit(d) \/ Answer(d)
  \/ \E k \in Keys : Convert(k) \/ Reopen(k) \/ Withdraw(k)

Spec == Init /\ [][Next]_<<receipt, answer>>
=============================================================================
