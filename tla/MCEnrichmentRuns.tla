---------------------------- MODULE MCEnrichmentRuns ----------------------------
(***************************************************************************)
(* Two runs over one partner with two fields, two concurrent operators.     *)
(***************************************************************************)
EXTENDS EnrichmentRuns
CONSTANTS r1, r2, f1, f2, w1, w2
=============================================================================
