--------------------------- MODULE SnapshotRequests ---------------------------
(***************************************************************************)
(* How Odoo serves concurrent requests on PostgreSQL at REPEATABLE READ: a  *)
(* request reads the rows as they were when it began, and plans the rows it *)
(* writes.  The ORM writes a row only when a value in it changes.  A row    *)
(* that somebody else committed in the meantime makes the flush fail, and   *)
(* the request is rolled back; it may then be run again.  A row that was    *)
(* only read protects nothing.                                             *)
(*                                                                         *)
(* Components that EXTEND this module say which rows there are and which    *)
(* plans their operations make.                                            *)
(***************************************************************************)
EXTENDS Integers, FiniteSets, TLC

CONSTANTS
  Session,     \* requests that can be open at one time
  None,        \* no such row
  MaxRequests  \* bound: requests begun in a behaviour

ASSUME RequestAssumption == MaxRequests \in Nat

VARIABLES
  rows,     \* function from the keys of rows to their committed contents
  log,      \* how often an event of interest was committed
  request,  \* [Session -> what the session will write and log]
  stale,    \* SUBSET Session: a row it writes was committed by another
  begun     \* counter for the bound

requestVars == <<rows, log, request, stale, begun>>

(* One row, and rows over others.                                           *)
Row(k, content) == [x \in {k} |-> content]
Over(f, g) == [x \in DOMAIN f \cup DOMAIN g |-> IF x \in DOMAIN f THEN f[x] ELSE g[x]]

NoRequest == [writes |-> <<>>, events |-> {}]
Open(s) == request[s] # NoRequest

(* The plan as far as it changes the snapshot.                             *)
Changed(plan) == [k \in {x \in DOMAIN plan : plan[x] # rows[x]} |-> plan[k]]

Begin(s, plan, events) ==
  /\ ~Open(s) /\ begun < MaxRequests
  /\ begun' = begun + 1
  /\ Changed(plan) # <<>>
  /\ request' = [request EXCEPT ![s] = [writes |-> Changed(plan), events |-> events]]
  /\ UNCHANGED <<rows, log, stale>>

Collide(s, o) == DOMAIN request[s].writes \cap DOMAIN request[o].writes # {}

Commit(s) ==
  /\ Open(s) /\ s \notin stale
  /\ rows' = Over(request[s].writes, rows)
  /\ log' = [e \in DOMAIN log |-> IF e \in request[s].events THEN log[e] + 1 ELSE log[e]]
  /\ request' = [request EXCEPT ![s] = NoRequest]
  /\ stale' = stale \cup {o \in Session \ {s} : Collide(s, o)}
  /\ UNCHANGED begun

Rollback(s) ==
  /\ s \in stale
  /\ request' = [request EXCEPT ![s] = NoRequest]
  /\ stale' = stale \ {s}
  /\ UNCHANGED <<rows, log, begun>>

(* The database a behaviour starts from.                                   *)
Start(tables, events) ==
  /\ rows \in tables
  /\ log = [e \in events |-> 0]
  /\ request = [s \in Session |-> NoRequest]
  /\ stale = {} /\ begun = 0

Served(s) == Commit(s) \/ Rollback(s)
=============================================================================
