------------------------------- MODULE MCCrmSync -------------------------------
(***************************************************************************)
(* Instances of CrmSync: the hourly catch-up with the webhook, the full    *)
(* import, and users who archive leads.                                    *)
(***************************************************************************)
EXTENDS CrmSync
CONSTANTS a, b, k

MCContactOf == [x \in Calls |-> a]
\* A lead for b was entered before the first synchronization.
MCLegacy == [c \in Contacts |-> IF c = b THEN 1 ELSE 0]
MCUnset == -1
MCHourly == {"catch_up", "webhook", "user", "reject"}
MCImport == {"catch_up", "full_import", "reject", "outage", "clamp"}
=============================================================================
