-------------------------- MODULE MCOrderlyRequests --------------------------
(* One transaction that two invoices and a freight bill are meant for, two   *)
(* concurrent requests, and margins on both sides of zero.                   *)
EXTENDS OrderlyRequests, TLC

CONSTANTS t1, s1, s2

MCTx == {t1}
MCSession == {s1, s2}
MCMove == [tx : {t1}, kind : {"invoice"}, no : {1, 2}] \cup [tx : {t1}, kind : {"freight"}, no : {1}]
MCMargins == {-1, 2}
MCOps == AllOps \ Skewing

Sessions == Permutations(MCSession)
=============================================================================
