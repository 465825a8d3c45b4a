--------------------------- MODULE FreightDeskProofs ---------------------------
(* Proofs about FreightDesk for any contexts, carrier responses and number   *)
(* of concurrent operators, and about the search of SameAsLast.             *)
EXTENDS FreightShifts, SameAsLast, WellFoundedInduction, FiniteSetTheorems, TLAPS

(* Types.                                                                   *)

(* The parts of a plan: at most the load's row, a lane, episodes, quotes.    *)
LoadPart == UNION {[S -> LoadRow] : S \in {{}, {1}}}
LanePart == UNION {[S -> Context \cup {None}] : S \in {{}, {1}}}
RequestPart == UNION {[S -> RequestRow] : S \in SUBSET Context}
QuotePart == UNION {[S -> QuoteRow] : S \in SUBSET Quote}

LEMMA PlanParts == Plan = [load : LoadPart, lane : LanePart, request : RequestPart,
                           quote : QuotePart, slots : SUBSET Context]
  BY Zenon DEF Plan, LoadPart, LanePart, RequestPart, QuotePart

LEMMA PartsTyped ==
  /\ <<>> \in LoadPart /\ <<>> \in RequestPart /\ <<>> \in QuotePart
  /\ \A row \in LoadRow : <<row>> \in LoadPart
  /\ <<>> \in LanePart /\ \A c \in Context \cup {None} : <<c>> \in LanePart
  /\ \A cs \in SUBSET Context : \A r \in [cs -> RequestRow] : r \in RequestPart
  /\ \A qs \in SUBSET Quote : \A r \in [qs -> QuoteRow] : r \in QuotePart
  <1>1. <<>> \in [{} -> LoadRow] /\ <<>> \in [{} -> RequestRow] /\ <<>> \in [{} -> QuoteRow]
    OBVIOUS
  <1>2. ASSUME NEW row \in LoadRow PROVE <<row>> \in [{1} -> LoadRow]
    OBVIOUS
  <1>3. {} \in SUBSET Context /\ {} \in SUBSET Quote /\ {} \in {{}, {1}} /\ {1} \in {{}, {1}}
    OBVIOUS
  <1>4. <<>> \in LoadPart /\ <<>> \in RequestPart /\ <<>> \in QuotePart
    BY <1>1, <1>3, Zenon DEF LoadPart, RequestPart, QuotePart
  <1>5. \A row \in LoadRow : <<row>> \in LoadPart
    BY <1>2, <1>3, Zenon DEF LoadPart
  <1>6. \A cs \in SUBSET Context : \A r \in [cs -> RequestRow] : r \in RequestPart
    BY Zenon DEF RequestPart
  <1>7. \A qs \in SUBSET Quote : \A r \in [qs -> QuoteRow] : r \in QuotePart
    BY Zenon DEF QuotePart
  <1>8. <<>> \in LanePart
    <2>1. <<>> \in [{} -> Context \cup {None}]
      OBVIOUS
    <2> QED
      BY <1>3, <2>1, Zenon DEF LanePart
  <1>9. ASSUME NEW c \in Context \cup {None} PROVE <<c>> \in LanePart
    <2>1. <<c>> \in [{1} -> Context \cup {None}]
      OBVIOUS
    <2> QED
      BY <1>3, <2>1, Zenon DEF LanePart
  <1> QED
    BY <1>4, <1>5, <1>6, <1>7, <1>8, <1>9

LEMMA PlansTyped ==
  ASSUME NEW l \in LoadPart, NEW w \in LanePart, NEW r \in RequestPart, NEW q \in QuotePart, NEW c \in SUBSET Context
  PROVE  /\ Nothing \in Plan
         /\ [Nothing EXCEPT !.load = l] \in Plan
         /\ [Nothing EXCEPT !.load = l, !.lane = w] \in Plan
         /\ [Nothing EXCEPT !.request = r] \in Plan
         /\ [Nothing EXCEPT !.quote = q] \in Plan
         /\ [Nothing EXCEPT !.load = l, !.request = r] \in Plan
         /\ [Nothing EXCEPT !.slots = c, !.quote = q] \in Plan
  BY PartsTyped, PlanParts DEF Nothing

LEMMA BeginTyped ==
  ASSUME TypeOK, NEW s \in Session, NEW p \in Plan, Begin(s, p)
  PROVE  TypeOK'
  BY DEF TypeOK, Begin

LEMMA BeginLoadTyped ==
  ASSUME TypeOK, NEW s \in Session, NEW row \in LoadRow, BeginLoad(s, row)
  PROVE  TypeOK'
  <1>1. [Nothing EXCEPT !.load = <<row>>] \in Plan
    BY PartsTyped, PlansTyped, Zenon
  <1> QED
    BY <1>1, BeginTyped, Zenon DEF BeginLoad

LEMMA EditTyped ==
  ASSUME TypeOK, NEW s \in Session, Edit(s) PROVE TypeOK'
  <1>1. ASSUME NEW c \in Context \cup {None}, EditLane(s, c) PROVE TypeOK'
    <2>1. load \in LoadRow
      BY DEF TypeOK
    <2>2. [Nothing EXCEPT !.load = <<load>>, !.lane = <<c>>] \in Plan
      BY <2>1, PartsTyped, PlansTyped, Zenon
    <2> QED
      BY <1>1, <2>2, BeginTyped, Zenon DEF EditLane
  <1>2. ASSUME NEW r \in {NoRate, Typed}, EditRate(s, r) PROVE TypeOK'
    <2>1. [load EXCEPT !.rate = r] \in LoadRow
      BY DEF TypeOK, LoadRow
    <2> QED
      BY <1>2, <2>1, BeginLoadTyped, Zenon DEF EditRate
  <1> QED
    BY <1>1, <1>2 DEF Edit

LEMMA MoveTyped ==
  ASSUME TypeOK, NEW s \in Session, Move(s) PROVE TypeOK'
  <1>1. ASSUME NEW new \in LoadState PROVE [load EXCEPT !.state = new] \in LoadRow
    BY DEF TypeOK, LoadRow
  <1>2. "scheduled" \in LoadState /\ "dispatched" \in LoadState
    BY DEF LoadState
  <1>3. ASSUME NEW new \in LoadState, NEW b \in BOOLEAN
        PROVE  [load EXCEPT !.state = new, !.bulk = b] \in LoadRow
    BY DEF TypeOK, LoadRow
  <1>4. ASSUME NEW new \in LoadState, Transition(s, new) PROVE TypeOK'
    <2> DEFINE b == (load.bulk /\ new # "draft") \/ new \in {"rate_confirmed", "dispatched"}
    <2>1. b \in BOOLEAN
      OBVIOUS
    <2>2. BeginLoad(s, [load EXCEPT !.state = new, !.bulk = b])
      BY <1>4 DEF Transition
    <2> HIDE DEF b
    <2> QED
      BY <1>3, <2>1, <2>2, BeginLoadTyped
  <1> QED
    BY <1>1, <1>2, <1>4, BeginLoadTyped, Zenon DEF Move, ActionSchedule, ActionDispatch

LEMMA RfqTyped ==
  ASSUME TypeOK, NEW s \in Session, Rfq(s) PROVE TypeOK'
  <1>1. CASE CreateRequest(s)
    <2> DEFINE c == lane
               r == [x \in {c} |-> [state |-> "draft", quote |-> None]]
    <2>1. c \in Context
      BY <1>1 DEF CreateRequest, TypeOK
    <2>2. r \in [{c} -> RequestRow]
      BY DEF RequestRow
    <2>3. r \in RequestPart
      BY <2>1, <2>2, PartsTyped
    <2>4. [Nothing EXCEPT !.request = r] \in Plan
      BY <2>3, PartsTyped, PlansTyped, Zenon
    <2> QED
      BY <1>1, <2>4, BeginTyped DEF CreateRequest
  <1>2. ASSUME NEW q \in Quote, RecordQuote(s, q) PROVE TypeOK'
    <2>1. PICK prior \in SUBSET Quote :
            Begin(s, [Nothing EXCEPT !.quote =
              [p \in {q} \cup prior |->
                 [state |-> IF p = q THEN "active" ELSE "superseded", selected |-> FALSE]]])
      BY <1>2 DEF RecordQuote
    <2> DEFINE r == [p \in {q} \cup prior |->
                 [state |-> IF p = q THEN "active" ELSE "superseded", selected |-> FALSE]]
    <2>2. r \in [{q} \cup prior -> QuoteRow] /\ {q} \cup prior \in SUBSET Quote
      BY DEF QuoteRow
    <2>3. r \in QuotePart
      BY <2>2, PartsTyped, Zenon
    <2>4. [Nothing EXCEPT !.quote = r] \in Plan
      BY <2>3, PartsTyped, PlansTyped, Zenon
    <2> QED
      BY <2>1, <2>4, BeginTyped
  <1>3. ASSUME NEW q \in Quote, SelectQuote(s, q) PROVE TypeOK'
    <2> DEFINE qs == {q} \cup {p \in Quote : p.ctx = q.ctx /\ quote[p].selected}
               r == [p \in qs |-> [state |-> quote[p].state, selected |-> p = q]]
    <2>1. qs \in SUBSET Quote
      OBVIOUS
    <2>2. q.ctx \in Context
      BY QuoteAssumption
    <2>3. \A p \in Quote : quote[p].state \in {"none", "active", "superseded"}
      BY DEF TypeOK, QuoteRow
    <2>4. r \in [qs -> QuoteRow]
      BY <2>1, <2>3 DEF QuoteRow
    <2> HIDE DEF qs
    <2>5. r \in QuotePart
      BY <2>1, <2>4, PartsTyped, Zenon
    <2>6. [Nothing EXCEPT !.slots = {q.ctx}, !.quote = r] \in Plan
      <3>1. {q.ctx} \in SUBSET Context
        BY <2>2
      <3> HIDE DEF r
      <3> QED
        BY <2>5, <3>1, PartsTyped, PlansTyped, Zenon
    <2>7. Begin(s, [Nothing EXCEPT !.slots = {q.ctx}, !.quote = r])
      BY <1>3, Zenon DEF SelectQuote, qs
    <2> HIDE DEF r
    <2> QED
      BY <2>6, <2>7, BeginTyped
  <1> QED
    BY <1>1, <1>2, <1>3 DEF Rfq

(* Episodes that are cancelled are episodes.                                 *)
LEMMA CancelledTyped ==
  ASSUME NEW cs \in SUBSET Context
  PROVE  Cancelled(cs) \in RequestPart /\ Cancelled(cs) \in [cs -> RequestRow]
  <1>1. Cancelled(cs) \in [cs -> RequestRow]
    BY DEF Cancelled, RequestRow
  <1> QED
    BY <1>1, PartsTyped, Zenon

LEMMA ActiveAreContexts == Active \in SUBSET Context
  BY DEF Active

LEMMA ConfirmedTyped ==
  ASSUME TypeOK, NEW rate \in Quote \cup {NoRate, Typed, History},
         NEW method \in {"none", "manual", "sal", "live_quote"}, NEW ctx \in Context \cup {None}
  PROVE  Confirmed(rate, method, ctx) \in LoadRow
  <1> DEFINE sal == IF method = "sal" THEN "hit" ELSE load.sal
  <1>1. load \in LoadRow /\ sal \in {"none", "hit", "miss", "not_eligible"}
    BY DEF TypeOK, LoadRow
  <1>2. "rate_confirmed" \in LoadState
    BY DEF LoadState
  <1>3. Confirmed(rate, method, ctx) =
          [load EXCEPT !.state = "rate_confirmed", !.rate = rate, !.rated = TRUE,
                       !.method = method, !.fingerprint = ctx, !.sal = sal]
    BY Zenon DEF Confirmed
  <1> HIDE DEF sal
  <1> QED
    BY <1>1, <1>2, <1>3 DEF LoadRow

(* A plan of a row of the load and some episodes.                            *)
LEMMA DecideTyped ==
  ASSUME TypeOK, NEW s \in Session, NEW row \in LoadRow, NEW r \in RequestPart,
         Begin(s, [Nothing EXCEPT !.load = <<row>>, !.request = r])
  PROVE  TypeOK'
  <1>1. [Nothing EXCEPT !.load = <<row>>, !.request = r] \in Plan
    BY PartsTyped, PlansTyped, Zenon
  <1> QED
    BY <1>1, BeginTyped, Zenon

LEMMA RateTyped ==
  ASSUME TypeOK, NEW s \in Session, Rate(s) PROVE TypeOK'
  <1>1. lane \in Context \cup {None} /\ load.rate \in Quote \cup {NoRate, Typed, History}
    BY DEF TypeOK, LoadRow
  <1>2. CASE ActionConfirmRate(s)
    <2>1. Confirmed(load.rate, "manual", lane) \in LoadRow
      BY <1>1, ConfirmedTyped
    <2> QED
      BY <1>2, <2>1, ActiveAreContexts, CancelledTyped, DecideTyped, Zenon DEF ActionConfirmRate
  <1>3. ASSUME NEW q \in Quote, ActionSelectQuote(s, q.ctx, q) PROVE TypeOK'
    <2> DEFINE c == q.ctx
               row == [Confirmed(q, "live_quote", c) EXCEPT !.chosen = q]
               r == Over([x \in {c} |-> [state |-> "resolved", quote |-> q]], Cancelled(Active))
    <2>1. c \in Context
      BY QuoteAssumption
    <2>2. Confirmed(q, "live_quote", c) \in LoadRow
      BY <2>1, ConfirmedTyped
    <2>3. row \in LoadRow
      BY <2>2 DEF LoadRow
    <2>4. r \in [Active -> RequestRow]
      <3>1. Cancelled(Active) \in [Active -> RequestRow]
        BY ActiveAreContexts, CancelledTyped
      <3>2. [state |-> "resolved", quote |-> q] \in RequestRow
        BY DEF RequestRow
      <3> QED
        BY <3>1, <3>2 DEF Over
    <2>5. r \in RequestPart
      BY <2>4, ActiveAreContexts, PartsTyped, Zenon
    <2>6. Begin(s, [Nothing EXCEPT !.load = <<row>>, !.request = r])
      BY <1>3, Zenon DEF ActionSelectQuote
    <2> HIDE DEF row, r
    <2> QED
      BY <2>3, <2>5, <2>6, DecideTyped, Zenon
  <1>4. CASE ResolveConfirmed(s)
    <2>1. [Nothing EXCEPT !.request = Cancelled(Active)] \in Plan
      BY ActiveAreContexts, CancelledTyped, PartsTyped, PlansTyped, Zenon
    <2> QED
      BY <1>4, <2>1, BeginTyped, Zenon DEF ResolveConfirmed
  <1>5. CASE ResolveHit(s)
    <2>1. Confirmed(History, "sal", lane) \in LoadRow
      BY <1>1, ConfirmedTyped
    <2> QED
      BY <1>5, <2>1, ActiveAreContexts, CancelledTyped, DecideTyped, Zenon DEF ResolveHit
  <1>6. CASE ResolveMiss(s)
    <2> DEFINE ctx == IF Eligible THEN lane ELSE None
               row == [load EXCEPT !.fingerprint = ctx,
                               !.sal = IF Eligible THEN "miss" ELSE "not_eligible"]
    <2>1. row \in LoadRow
      BY <1>1 DEF TypeOK, LoadRow
    <2>2. Cancelled(Active \ {ctx}) \in RequestPart
      <3>1. Active \ {ctx} \in SUBSET Context
        BY ActiveAreContexts
      <3> QED
        BY <3>1, CancelledTyped, Zenon
    <2>3. Begin(s, [Nothing EXCEPT !.load = <<row>>, !.request = Cancelled(Active \ {ctx})])
      BY <1>6, Zenon DEF ResolveMiss
    <2> HIDE DEF row, ctx
    <2> QED
      BY <2>1, <2>2, <2>3, DecideTyped, Zenon
  <1> QED
    BY <1>2, <1>3, <1>4, <1>5, <1>6 DEF Rate

LEMMA CommitTyped ==
  ASSUME TypeOK, NEW s \in Session, Commit(s) PROVE TypeOK'
  <1> DEFINE p == plan[s]
  <1>1. p.load \in LoadPart /\ p.lane \in LanePart /\ p.request \in RequestPart /\ p.quote \in QuotePart
    BY PlanParts DEF TypeOK
  <1>2. load' \in LoadRow
    <2>1. p.load = <<>> \/ p.load[1] \in LoadRow
      <3>1. PICK S \in {{}, {1}} : p.load \in [S -> LoadRow]
        BY <1>1 DEF LoadPart
      <3>2. CASE S = {}
        <4>1. p.load = <<>>
          BY <3>1, <3>2
        <4> QED
          BY <4>1
      <3>3. CASE S = {1}
        BY <3>1, <3>3
      <3> QED
        BY <3>1, <3>2, <3>3
    <2> QED
      BY <2>1 DEF Commit, TypeOK
  <1>6. lane' \in Context \cup {None}
    <2>1. p.lane = <<>> \/ p.lane[1] \in Context \cup {None}
      <3>1. PICK S \in {{}, {1}} : p.lane \in [S -> Context \cup {None}]
        BY <1>1 DEF LanePart
      <3>2. CASE S = {}
        <4>1. p.lane = <<>>
          BY <3>1, <3>2
        <4> QED
          BY <4>1
      <3>3. CASE S = {1}
        BY <3>1, <3>3
      <3> QED
        BY <3>1, <3>2, <3>3
    <2> QED
      BY <2>1 DEF Commit, TypeOK
  <1>3. request' \in [Context -> RequestRow]
    <2>1. PICK cs \in SUBSET Context : p.request \in [cs -> RequestRow]
      BY <1>1 DEF RequestPart
    <2>2. request' = Over(p.request, request)
      BY DEF Commit
    <2> HIDE DEF p
    <2> QED
      BY <2>1, <2>2 DEF Over, TypeOK
  <1>4. quote' \in [Quote -> QuoteRow]
    <2>1. PICK qs \in SUBSET Quote : p.quote \in [qs -> QuoteRow]
      BY <1>1 DEF QuotePart
    <2>2. quote' = Over(p.quote, quote)
      BY DEF Commit
    <2> HIDE DEF p
    <2> QED
      BY <2>1, <2>2 DEF Over, TypeOK
  <1>5. plan' \in [Session -> Plan] /\ stale' \subseteq Session
    <2>1. Nothing \in Plan
      BY PartsTyped, PlansTyped
    <2> QED
      BY <2>1 DEF Commit, TypeOK
  <1>7. moved' \subseteq Session /\ strayed' \in BOOLEAN
    BY DEF Commit, TypeOK
  <1> QED
    BY <1>2, <1>3, <1>4, <1>5, <1>6, <1>7 DEF TypeOK

(* Every row keeps its type, and every plan the type of the rows it writes,  *)
(* whatever the bulk wizard is used for and wherever the lane moves.         *)
THEOREM DeskTyping == Spec => []TypeOK
  <1>0. Nothing \in Plan
    BY PartsTyped, PlansTyped
  <1>1. Init => TypeOK
    <2> SUFFICES ASSUME Init PROVE TypeOK
      OBVIOUS
    <2>1. load \in LoadRow
      BY DEF Init, LoadRow, LoadState
    <2>2. request \in [Context -> RequestRow] /\ quote \in [Quote -> QuoteRow]
      BY DEF Init, RequestRow, QuoteRow
    <2>3. plan \in [Session -> Plan]
      BY <1>0 DEF Init
    <2> QED
      BY <2>1, <2>2, <2>3 DEF Init, TypeOK
  <1>2. TypeOK /\ [Next]_vars => TypeOK'
    <2> SUFFICES ASSUME TypeOK, [Next]_vars PROVE TypeOK'
      OBVIOUS
    <2>1. CASE UNCHANGED vars
      BY <2>1 DEF vars, TypeOK
    <2>2. ASSUME NEW s \in Session, Abort(s) PROVE TypeOK'
      BY <1>0, <2>2 DEF Abort, TypeOK
    <2>4. ASSUME NEW c \in Context \cup {None}, LaneMoves(c) PROVE TypeOK'
      BY <2>4 DEF LaneMoves, TypeOK
    <2>3. CASE Next
      BY <2>2, <2>3, <2>4, EditTyped, MoveTyped, RfqTyped, RateTyped, CommitTyped, Zenon DEF Next
    <2> QED
      BY <2>1, <2>3
  <1> QED
    BY <1>1, <1>2, PTL DEF Spec

-----------------------------------------------------------------------------
(* What a load's row may look like, and what a rewrite of it keeps.          *)
RowOK(row) ==
  (row.state \in {"rate_confirmed", "scheduled"} \cup Locked /\ ~row.bulk) =>
    row.rated /\ row.rate # NoRate /\ row.method # "none" /\ row.fingerprint # None

SameRate(row, new) ==
  /\ new.rate = row.rate /\ new.method = row.method
  /\ new.fingerprint = row.fingerprint
  /\ new.sal = row.sal /\ new.chosen = row.chosen

RewriteOK(row, new) ==
  /\ new \in LoadRow
  /\ RowOK(new)
  /\ (row.rated /\ row.state # "ready_confirmed") => SameRate(row, new)

(* Every plan that can still commit a write of the load was made from the    *)
(* row the load has now.                                                     *)
PlansOK == \A s \in Session :
  (plan[s].load # <<>> /\ s \notin stale) => RewriteOK(load, plan[s].load[1])

DeskInv ==
  /\ load \in LoadRow
  /\ lane \in Context \cup {None}
  /\ DOMAIN plan = Session
  /\ RowOK(load)
  /\ PlansOK

(* A plan that leaves the load alone, or rewrites it soundly, keeps DeskInv. *)
LEMMA BeginKeeps ==
  ASSUME DeskInv, NEW s \in Session, NEW p, Begin(s, p),
         p.load # <<>> => RewriteOK(load, p.load[1])
  PROVE  DeskInv'
  BY DEF DeskInv, PlansOK, Begin, RewriteOK, RowOK, SameRate

LEMMA BeginLoadKeeps ==
  ASSUME DeskInv, NEW s \in Session, NEW row, BeginLoad(s, row), RewriteOK(load, row)
  PROVE  DeskInv'
  <1> DEFINE p == [Nothing EXCEPT !.load = <<row>>]
  <1>1. p.load = <<row>> /\ p.load[1] = row
    BY DEF Nothing
  <1>2. Begin(s, p)
    BY DEF BeginLoad
  <1> HIDE DEF p
  <1> QED
    BY <1>1, <1>2, BeginKeeps

LEMMA RowKinds ==
  ASSUME DeskInv
  PROVE  /\ load.state \in LoadState /\ load.rated \in BOOLEAN /\ load.bulk \in BOOLEAN
         /\ lane \in Context \cup {None}
  BY DEF DeskInv, LoadRow

LEMMA EditKeeps ==
  ASSUME DeskInv, NEW s \in Session, Edit(s) PROVE DeskInv'
  <1>1. ASSUME NEW c \in Context \cup {None}, EditLane(s, c) PROVE DeskInv'
    <2> DEFINE p == [Nothing EXCEPT !.load = <<load>>, !.lane = <<c>>]
    <2>1. p.load = <<load>> /\ p.load[1] = load
      BY DEF Nothing
    <2>2. Begin(s, p) /\ RewriteOK(load, load)
      BY <1>1 DEF EditLane, RewriteOK, SameRate, DeskInv
    <2> HIDE DEF p
    <2> QED
      BY <2>1, <2>2, BeginKeeps
  <1>2. ASSUME NEW r \in {NoRate, Typed}, EditRate(s, r) PROVE DeskInv'
    <2>1. RewriteOK(load, [load EXCEPT !.rate = r])
      BY <1>2 DEF EditRate, RewriteOK, RowOK, SameRate, DeskInv, LoadRow, Locked
    <2> QED
      BY <1>2, <2>1, BeginLoadKeeps DEF EditRate
  <1> QED
    BY <1>1, <1>2 DEF Edit

(* A move of the wizard, which is marked, or of a load that is on its way.   *)
Moved(row, new) ==
  [row EXCEPT !.state = new,
              !.bulk = (row.bulk /\ new # "draft") \/ new \in {"rate_confirmed", "dispatched"}]

LEMMA MovedFields ==
  ASSUME DeskInv, NEW new \in LoadState
  PROVE  LET row == Moved(load, new) IN
         /\ row \in LoadRow /\ row.state = new /\ SameRate(load, row) /\ row.rated = load.rated
         /\ row.bulk = ((load.bulk /\ new # "draft") \/ new \in {"rate_confirmed", "dispatched"})
  <1> DEFINE b == (load.bulk /\ new # "draft") \/ new \in {"rate_confirmed", "dispatched"}
             row == [load EXCEPT !.state = new, !.bulk = b]
  <1>1. b \in BOOLEAN /\ load \in LoadRow
    BY DEF DeskInv
  <1>2. Moved(load, new) = row
    BY DEF Moved
  <1> HIDE DEF b
  <1>3. row \in LoadRow /\ row.state = new /\ SameRate(load, row) /\ row.rated = load.rated /\ row.bulk = b
    BY <1>1 DEF LoadRow, SameRate
  <1> QED
    BY <1>2, <1>3 DEF b

(* Where the states the wizard does not mark are entered from.               *)
LEMMA Predecessors ==
  ASSUME NEW st \in LoadState, NEW new \in Allowed[st],
         new \in {"rate_confirmed", "scheduled"} \cup Locked, new \notin {"rate_confirmed", "dispatched"}
  PROVE  /\ st \in {"rate_confirmed", "scheduled"} \cup Locked
         /\ new \in Locked => st \in Locked
  BY DEF Allowed, LoadState, Locked

(* The wizard's own moves apart, it moves no load past a confirmation that   *)
(* was not past it.                                                         *)
LEMMA MovedOK ==
  ASSUME DeskInv, NEW new \in Allowed[load.state], new \in LoadState
  PROVE  RewriteOK(load, Moved(load, new))
  <1> DEFINE row == Moved(load, new)
  <1>1. /\ row \in LoadRow /\ row.state = new /\ SameRate(load, row) /\ row.rated = load.rated
        /\ row.bulk = ((load.bulk /\ new # "draft") \/ new \in {"rate_confirmed", "dispatched"})
    BY MovedFields
  <1> HIDE DEF row
  <1>2. ASSUME new \in {"rate_confirmed", "scheduled"} \cup Locked, ~row.bulk
        PROVE  load.state \in {"rate_confirmed", "scheduled"} \cup Locked /\ ~load.bulk
    <2>1. new \notin {"rate_confirmed", "dispatched"} /\ new # "draft" /\ ~load.bulk
      BY <1>1, <1>2 DEF Locked
    <2> QED
      BY <1>2, <2>1, RowKinds, Predecessors
  <1>3. RowOK(row)
    <2> SUFFICES ASSUME row.state \in {"rate_confirmed", "scheduled"} \cup Locked, ~row.bulk
                 PROVE  /\ row.rated /\ row.rate # NoRate
                        /\ row.method # "none" /\ row.fingerprint # None
      BY DEF RowOK
    <2>1. load.state \in {"rate_confirmed", "scheduled"} \cup Locked /\ ~load.bulk
      BY <1>1, <1>2
    <2> QED
      BY <1>1, <2>1 DEF RowOK, SameRate, DeskInv
  <1> QED
    BY <1>1, <1>3 DEF RewriteOK, row

LEMMA MoveKeeps ==
  ASSUME DeskInv, NEW s \in Session, Move(s) PROVE DeskInv'
  <1>1. ASSUME NEW new \in LoadState, Transition(s, new) PROVE DeskInv'
    BY <1>1, MovedOK, BeginLoadKeeps DEF Transition, Moved
  <1>2. ASSUME ActionSchedule(s) PROVE DeskInv'
    <2>1. RewriteOK(load, [load EXCEPT !.state = "scheduled"])
      BY <1>2 DEF ActionSchedule, RewriteOK, RowOK, SameRate, DeskInv, LoadRow, Locked, LoadState
    <2> QED
      BY <1>2, <2>1, BeginLoadKeeps DEF ActionSchedule
  <1>3. ASSUME ActionDispatch(s) PROVE DeskInv'
    <2>2. RewriteOK(load, [load EXCEPT !.state = "dispatched"])
      BY <1>3 DEF ActionDispatch, RewriteOK, RowOK, SameRate, DeskInv, LoadRow, Locked, LoadState
    <2> QED
      BY <1>3, <2>2, BeginLoadKeeps DEF ActionDispatch
  <1> QED
    BY <1>1, <1>2, <1>3 DEF Move

LEMMA RfqKeeps ==
  ASSUME DeskInv, NEW s \in Session, Rfq(s) PROVE DeskInv'
  <1>1. \A r : [Nothing EXCEPT !.request = r].load = <<>>
    BY DEF Nothing
  <1>2. \A r : [Nothing EXCEPT !.quote = r].load = <<>>
    BY DEF Nothing
  <1>3. \A x, r : [Nothing EXCEPT !.slots = x, !.quote = r].load = <<>>
    BY DEF Nothing
  <1>4. CASE CreateRequest(s)
    BY <1>1, <1>4, BeginKeeps DEF CreateRequest
  <1>5. ASSUME NEW q \in Quote, RecordQuote(s, q) PROVE DeskInv'
    BY <1>2, <1>5, BeginKeeps DEF RecordQuote
  <1>6. ASSUME NEW q \in Quote, SelectQuote(s, q) PROVE DeskInv'
    BY <1>3, <1>6, BeginKeeps DEF SelectQuote
  <1> QED
    BY <1>4, <1>5, <1>6 DEF Rfq

(* The row _confirm_freight_rate writes.                                     *)
LEMMA ConfirmedOK ==
  ASSUME DeskInv, NEW rate \in Quote \cup {Typed, History},
         NEW method \in {"manual", "sal", "live_quote"}, NEW ctx,
         CanConfirm(rate, ctx)
  PROVE  RewriteOK(load, Confirmed(rate, method, ctx))
  <1>1. ctx \in Context \cup {None} /\ ctx # None
    BY RowKinds DEF CanConfirm
  <1> DEFINE row == Confirmed(rate, method, ctx)
             sal == IF method = "sal" THEN "hit" ELSE load.sal
  <1>2. sal \in {"none", "hit", "miss", "not_eligible"}
    BY DEF DeskInv, LoadRow
  <1>3. row = [load EXCEPT !.state = "rate_confirmed", !.rate = rate, !.rated = TRUE,
                           !.method = method, !.fingerprint = ctx, !.sal = sal]
    BY DEF Confirmed
  <1> HIDE DEF sal, row
  <1>4. /\ row \in LoadRow
        /\ row.state = "rate_confirmed" /\ row.rated /\ row.rate = rate
        /\ row.fingerprint = ctx /\ row.method = method
    BY <1>1, <1>2, <1>3 DEF DeskInv, LoadRow, LoadState
  <1>5. rate # NoRate
    BY DEF CanConfirm
  <1>6. RowOK(row)
    BY <1>1, <1>4, <1>5 DEF RowOK, Locked
  <1> QED
    BY <1>4, <1>6 DEF RewriteOK, CanConfirm, row

(* A command that confirms a rate and closes episodes.                       *)
LEMMA ConfirmKeeps ==
  ASSUME DeskInv, NEW s \in Session, NEW row, NEW r,
         Begin(s, [Nothing EXCEPT !.load = <<row>>, !.request = r]),
         RewriteOK(load, row)
  PROVE  DeskInv'
  <1> DEFINE p == [Nothing EXCEPT !.load = <<row>>, !.request = r]
  <1>1. p.load = <<row>> /\ p.load[1] = row
    BY DEF Nothing
  <1> HIDE DEF p
  <1> QED
    BY <1>1, BeginKeeps DEF p

LEMMA RateKeeps ==
  ASSUME DeskInv, NEW s \in Session, Rate(s) PROVE DeskInv'
  <1>1. ASSUME ActionConfirmRate(s) PROVE DeskInv'
    <2>2. load.rate \in Quote \cup {Typed, History}
      BY <1>1 DEF ActionConfirmRate, CanConfirm, DeskInv, LoadRow
    <2>3. RewriteOK(load, Confirmed(load.rate, "manual", lane))
      BY <1>1, <2>2, ConfirmedOK DEF ActionConfirmRate
    <2> QED
      BY <1>1, <2>3, ConfirmKeeps DEF ActionConfirmRate
  <1>2. ASSUME NEW q \in Quote, ActionSelectQuote(s, q.ctx, q) PROVE DeskInv'
    <2> DEFINE base == Confirmed(q, "live_quote", q.ctx)
               row == [base EXCEPT !.chosen = q]
    <2>2. RewriteOK(load, base)
      BY <1>2, ConfirmedOK DEF ActionSelectQuote
    <2>3. load.state = "ready_confirmed"
      BY <1>2 DEF ActionSelectQuote, CanConfirm
    <2>4. RewriteOK(load, row)
      <3> HIDE DEF base
      <3> QED
        BY <2>2, <2>3 DEF RewriteOK, RowOK, LoadRow
    <2> QED
      BY <1>2, <2>4, ConfirmKeeps DEF ActionSelectQuote
  <1>3. ASSUME ResolveConfirmed(s) PROVE DeskInv'
    <2>1. PICK p : Begin(s, p) /\ p.load = <<>>
      BY <1>3 DEF ResolveConfirmed, Nothing
    <2> QED
      BY <2>1, BeginKeeps
  <1>4. ASSUME ResolveHit(s) PROVE DeskInv'
    <2>2. CanConfirm(History, lane)
      BY <1>4, ValueAssumption DEF ResolveHit, Eligible, CanConfirm
    <2>3. RewriteOK(load, Confirmed(History, "sal", lane))
      BY <2>2, ConfirmedOK
    <2> QED
      BY <1>4, <2>3, ConfirmKeeps DEF ResolveHit
  <1>5. ASSUME ResolveMiss(s) PROVE DeskInv'
    <2> DEFINE ctx == IF Eligible THEN lane ELSE None
               sal == IF Eligible THEN "miss" ELSE "not_eligible"
    <2>1. ctx \in Context \cup {None} /\ sal \in {"miss", "not_eligible"}
      BY RowKinds
    <2>2. ~load.rated
      BY <1>5 DEF ResolveMiss
    <2>3. RewriteOK(load, [load EXCEPT !.fingerprint = ctx, !.sal = sal])
      <3> HIDE DEF ctx, sal
      <3>1. ~(load.state \in {"rate_confirmed", "scheduled"} \cup Locked /\ ~load.bulk)
        BY <2>2 DEF DeskInv, RowOK
      <3> QED
        BY <2>1, <2>2, <3>1 DEF RewriteOK, RowOK, DeskInv, LoadRow, Locked
    <2> QED
      BY <1>5, <2>3, ConfirmKeeps DEF ResolveMiss
  <1> QED
    BY <1>1, <1>2, <1>3, <1>4, <1>5 DEF Rate

LEMMA CommitKeeps ==
  ASSUME DeskInv, TypeOK', NEW s \in Session, Commit(s)
  PROVE  DeskInv' /\ (load' = load \/ RewriteOK(load, load'))
  <1>1. CASE plan[s].load = <<>>
    BY <1>1 DEF Commit, DeskInv, PlansOK, Nothing, TypeOK
  <1>2. CASE plan[s].load # <<>>
    <2>1. load' = plan[s].load[1] /\ RewriteOK(load, load')
      BY <1>2 DEF Commit, DeskInv, PlansOK
    <2>3. lane' \in Context \cup {None}
      BY DEF TypeOK
    <2>2. PlansOK'
      <3> SUFFICES ASSUME NEW q \in Session, plan'[q].load # <<>>, q \notin stale'
                   PROVE  FALSE
        BY DEF PlansOK
      <3>1. q # s /\ plan'[q] = plan[q]
        BY DEF Commit, DeskInv, Nothing
      <3>2. ~Idle(q) /\ Overlap(plan[q], plan[s])
        BY <1>2, <3>1 DEF Idle, Nothing, Overlap
      <3> QED
        BY <3>1, <3>2 DEF Commit
    <2> QED
      BY <2>1, <2>2, <2>3 DEF DeskInv, RewriteOK, Commit
  <1> QED
    BY <1>1, <1>2

LEMMA DeskStep ==
  ASSUME DeskInv, TypeOK', [Next]_vars
  PROVE  DeskInv' /\ (load' = load \/ RewriteOK(load, load'))
  <1>1. ASSUME NEW s \in Session, Edit(s) \/ Move(s) \/ Rfq(s) \/ Rate(s)
        PROVE  DeskInv' /\ load' = load
    <2>1. DeskInv'
      BY <1>1, EditKeeps, MoveKeeps, RfqKeeps, RateKeeps
    <2>2. load' = load
      BY <1>1 DEF Edit, Move, Rfq, Rate, EditLane, EditRate, Transition, ActionSchedule,
           ActionDispatch, CreateRequest, RecordQuote, SelectQuote, ActionConfirmRate,
           ActionSelectQuote, ResolveConfirmed, ResolveHit, ResolveMiss, BeginLoad, Begin
    <2> QED
      BY <2>1, <2>2
  <1>2. ASSUME NEW s \in Session, Commit(s)
        PROVE  DeskInv' /\ (load' = load \/ RewriteOK(load, load'))
    BY <1>2, CommitKeeps
  <1>3. ASSUME NEW s \in Session, Abort(s) PROVE DeskInv' /\ load' = load
    BY <1>3 DEF Abort, DeskInv, PlansOK, Nothing
  <1>4. ASSUME UNCHANGED vars PROVE DeskInv' /\ load' = load
    BY <1>4 DEF vars, DeskInv, PlansOK
  <1>5. ASSUME NEW c \in Context \cup {None}, LaneMoves(c) PROVE DeskInv' /\ load' = load
    BY <1>5 DEF LaneMoves, DeskInv, PlansOK
  <1> QED
    BY <1>1, <1>2, <1>3, <1>4, <1>5 DEF Next

LEMMA DeskInvariant == Spec => []DeskInv
  <1>1. Init => DeskInv
    BY DEF Init, DeskInv, RowOK, PlansOK, LoadRow, LoadState, Locked, Nothing
  <1>2. DeskInv /\ TypeOK' /\ [Next]_vars => DeskInv'
    BY DeskStep
  <1> QED
    BY <1>1, <1>2, DeskTyping, PTL DEF Spec

(* RateIsConfirmed: a load past the confirmation has a confirmed rate, or    *)
(* the wizard took it there (load.py:988, load_bulk_update_wizard.py:73).     *)
THEOREM RatesAreConfirmed == Spec => []RateIsConfirmed
  <1>1. DeskInv => RateIsConfirmed
    BY DEF DeskInv, RowOK, RateIsConfirmed
  <1> QED
    BY <1>1, DeskInvariant, PTL

(* RateIsStable: no command begun earlier overwrites a confirmed rate,        *)
(* whatever the wizard is used for.                                          *)
THEOREM RatesAreStable == Spec => RateIsStable
  <1>1. DeskInv /\ TypeOK' /\ [Next]_vars =>
          [(load.rated /\ load.state # "ready_confirmed") => SameRate(load, load')]_vars
    BY DeskStep DEF RewriteOK, SameRate
  <1> QED
    BY <1>1, DeskInvariant, DeskTyping, PTL DEF Spec, RateIsStable, SameRate

-----------------------------------------------------------------------------
(* The lane.  A plan that puts the load on the road, or leaves it there,     *)
(* does not change the lane, and the lane it was dispatched on was the one   *)
(* of its snapshot: since then it has moved only outside the load, as a     *)
(* commit that changes it writes the load's row.                            *)
PlanLane(p, s) ==
  /\ p.load # <<>> => 1 \in DOMAIN p.load
  /\ p.lane # <<>> => p.load # <<>> /\ p.load[1].state \notin Locked
  /\ (p.load # <<>> /\ p.load[1].state \in Locked /\ ~p.load[1].bulk) =>
       IF load.state \in Locked THEN ~load.bulk /\ p.load[1].fingerprint = load.fingerprint
       ELSE s \in moved \/ p.load[1].fingerprint = lane

LaneInv ==
  /\ DOMAIN plan = Session
  /\ (load.state \in Locked /\ ~load.bulk) => load.fingerprint = lane \/ strayed
  /\ \A s \in Session \ stale : PlanLane(plan[s], s)

LEMMA BeginLane ==
  ASSUME LaneInv, NEW s \in Session, NEW p, Begin(s, p), PlanLane(p, s)
  PROVE  LaneInv'
  <1>1. UNCHANGED <<load, lane, stale, moved, strayed>> /\ plan' = [plan EXCEPT ![s] = p]
    BY DEF Begin
  <1>2. ASSUME NEW q \in Session \ stale PROVE PlanLane(plan[q], q)'
    BY <1>1 DEF LaneInv, PlanLane
  <1> QED
    BY <1>1, <1>2 DEF LaneInv

(* A plan that leaves the lane, and the load off the road or untouched.      *)
LEMMA OffRoad ==
  ASSUME NEW s, NEW p, p.lane = <<>>, p.load = <<>> \/ \E row : p.load = <<row>> /\ row.state \notin Locked
  PROVE  PlanLane(p, s)
  BY DEF PlanLane

LEMMA EditLanes ==
  ASSUME DeskInv, LaneInv, NEW s \in Session, Edit(s) PROVE LaneInv'
  <1>1. ASSUME NEW c \in Context \cup {None}, EditLane(s, c) PROVE LaneInv'
    <2> DEFINE p == [Nothing EXCEPT !.load = <<load>>, !.lane = <<c>>]
    <2>1. p.load = <<load>> /\ p.lane = <<c>>
      BY DEF Nothing
    <2>2. Begin(s, p) /\ load.state \notin Locked
      BY <1>1 DEF EditLane
    <2> HIDE DEF p
    <2>3. PlanLane(p, s)
      BY <2>1, <2>2 DEF PlanLane
    <2> QED
      BY <2>2, <2>3, BeginLane
  <1>2. ASSUME NEW r \in {NoRate, Typed}, EditRate(s, r) PROVE LaneInv'
    <2> DEFINE row == [load EXCEPT !.rate = r]
               p == [Nothing EXCEPT !.load = <<row>>]
    <2>1. p.load = <<row>> /\ p.lane = <<>>
      BY DEF Nothing
    <2>2. Begin(s, p) /\ row.state \notin Locked
      BY <1>2 DEF EditRate, BeginLoad, DeskInv, LoadRow
    <2> HIDE DEF p, row
    <2> QED
      BY <2>1, <2>2, OffRoad, BeginLane
  <1> QED
    BY <1>1, <1>2 DEF Edit

LEMMA MoveLanes ==
  ASSUME DeskInv, LaneInv, NEW s \in Session, Move(s) PROVE LaneInv'
  <1>1. ASSUME NEW row, BeginLoad(s, row),
               (row.state \in Locked /\ ~row.bulk) =>
                 IF load.state \in Locked THEN ~load.bulk /\ row.fingerprint = load.fingerprint
                 ELSE row.fingerprint = lane
        PROVE  LaneInv'
    <2> DEFINE p == [Nothing EXCEPT !.load = <<row>>]
    <2>1. p.load = <<row>> /\ p.load[1] = row /\ 1 \in DOMAIN p.load /\ p.lane = <<>>
      BY DEF Nothing
    <2>2. Begin(s, p)
      BY <1>1 DEF BeginLoad
    <2> HIDE DEF p
    <2>3. PlanLane(p, s)
      BY <1>1, <2>1 DEF PlanLane
    <2> QED
      BY <2>2, <2>3, BeginLane
  <1>2. ASSUME NEW new \in LoadState, Transition(s, new) PROVE LaneInv'
    <2> DEFINE row == Moved(load, new)
    <2>1. new \in Allowed[load.state] /\ BeginLoad(s, row)
      BY <1>2 DEF Transition, Moved
    <2>2. /\ row.state = new /\ row.fingerprint = load.fingerprint
          /\ row.bulk = ((load.bulk /\ new # "draft") \/ new \in {"rate_confirmed", "dispatched"})
      BY MovedFields DEF SameRate
    <2> HIDE DEF row
    <2>3. ASSUME row.state \in Locked, ~row.bulk
          PROVE  load.state \in Locked /\ ~load.bulk
      <3>1. new \notin {"rate_confirmed", "dispatched"} /\ new # "draft" /\ ~load.bulk
        BY <2>2, <2>3 DEF Locked
      <3> QED
        BY <2>1, <2>2, <2>3, <3>1, RowKinds, Predecessors
    <2> QED
      BY <1>1, <2>1, <2>2, <2>3
  <1>3. CASE ActionSchedule(s)
    <2> DEFINE row == [load EXCEPT !.state = "scheduled"]
    <2>1. BeginLoad(s, row) /\ row.state \notin Locked
      BY <1>3 DEF ActionSchedule, DeskInv, LoadRow, Locked
    <2> QED
      BY <1>1, <2>1
  <1>4. CASE ActionDispatch(s)
    <2> DEFINE row == [load EXCEPT !.state = "dispatched"]
    <2>1. /\ BeginLoad(s, row) /\ load.state = "scheduled" /\ ContextCurrent
          /\ row.bulk = load.bulk /\ row.fingerprint = load.fingerprint
      BY <1>4 DEF ActionDispatch, DeskInv, LoadRow
    <2>2. ~load.bulk => load.fingerprint = lane
      BY <2>1 DEF ContextCurrent, DeskInv, RowOK
    <2>3. load.state \notin Locked
      BY <2>1 DEF Locked
    <2> HIDE DEF row
    <2> QED
      BY <1>1, <2>1, <2>2, <2>3
  <1> QED
    BY <1>2, <1>3, <1>4 DEF Move

(* The commands of the desk leave the load off the road.                     *)
LEMMA RfqLanes ==
  ASSUME LaneInv, NEW s \in Session, Rfq(s) PROVE LaneInv'
  <1>1. \A p : Begin(s, p) /\ p.load = <<>> /\ p.lane = <<>> => LaneInv'
    BY OffRoad, BeginLane
  <1>2. \A r : LET p == [Nothing EXCEPT !.request = r] IN p.load = <<>> /\ p.lane = <<>>
    BY DEF Nothing
  <1>3. \A r : LET p == [Nothing EXCEPT !.quote = r] IN p.load = <<>> /\ p.lane = <<>>
    BY DEF Nothing
  <1>4. \A c, r : LET p == [Nothing EXCEPT !.slots = c, !.quote = r]
                  IN p.load = <<>> /\ p.lane = <<>>
    BY DEF Nothing
  <1>5. CASE CreateRequest(s)
    BY <1>1, <1>2, <1>5 DEF CreateRequest
  <1>6. ASSUME NEW q \in Quote, RecordQuote(s, q) PROVE LaneInv'
    BY <1>1, <1>3, <1>6 DEF RecordQuote
  <1>7. ASSUME NEW q \in Quote, SelectQuote(s, q) PROVE LaneInv'
    BY <1>1, <1>4, <1>7 DEF SelectQuote
  <1> QED
    BY <1>5, <1>6, <1>7 DEF Rfq

LEMMA RateLanes ==
  ASSUME DeskInv, LaneInv, NEW s \in Session, Rate(s) PROVE LaneInv'
  <1>1. ASSUME NEW row, NEW r, row.state \notin Locked,
               Begin(s, [Nothing EXCEPT !.load = <<row>>, !.request = r])
        PROVE  LaneInv'
    <2> DEFINE p == [Nothing EXCEPT !.load = <<row>>, !.request = r]
    <2>1. p.load = <<row>> /\ p.lane = <<>>
      BY DEF Nothing
    <2> HIDE DEF p
    <2> QED
      BY <1>1, <2>1, OffRoad, BeginLane DEF p
  <1>2. \A rate, method, ctx : Confirmed(rate, method, ctx).state \notin Locked
    BY DEF Confirmed, DeskInv, LoadRow, Locked
  <1>3. CASE ActionConfirmRate(s)
    BY <1>1, <1>2, <1>3 DEF ActionConfirmRate
  <1>4. ASSUME NEW q \in Quote, ActionSelectQuote(s, q.ctx, q) PROVE LaneInv'
    <2> DEFINE base == Confirmed(q, "live_quote", q.ctx)
               row == [base EXCEPT !.chosen = q]
    <2>1. row.state = base.state
      BY DEF Confirmed, DeskInv, LoadRow
    <2>2. row.state \notin Locked
      BY <1>2, <2>1
    <2>3. \E r : Begin(s, [Nothing EXCEPT !.load = <<row>>, !.request = r])
      BY <1>4 DEF ActionSelectQuote
    <2> HIDE DEF row
    <2> QED
      BY <1>1, <2>2, <2>3
  <1>5. CASE ResolveConfirmed(s)
    <2>1. PICK p : Begin(s, p) /\ p.load = <<>> /\ p.lane = <<>>
      BY <1>5 DEF ResolveConfirmed, Nothing
    <2> QED
      BY <2>1, OffRoad, BeginLane
  <1>6. CASE ResolveHit(s)
    BY <1>1, <1>2, <1>6 DEF ResolveHit
  <1>7. CASE ResolveMiss(s)
    <2>1. PICK f, d, r : Begin(s, [Nothing EXCEPT !.load = <<[load EXCEPT !.fingerprint = f, !.sal = d]>>,
                                                  !.request = r])
      BY <1>7, Zenon DEF ResolveMiss
    <2>2. [load EXCEPT !.fingerprint = f, !.sal = d].state \notin Locked
      BY <1>7 DEF ResolveMiss, DeskInv, LoadRow
    <2> QED
      BY <1>1, <2>1, <2>2
  <1> QED
    BY <1>3, <1>4, <1>5, <1>6, <1>7 DEF Rate

LEMMA CommitLanes ==
  ASSUME LaneInv, NEW s \in Session, Commit(s) PROVE LaneInv'
  <1> DEFINE p == plan[s]
  <1>1. /\ s \notin stale /\ PlanLane(p, s)
        /\ load' = (IF p.load = <<>> THEN load ELSE p.load[1])
        /\ lane' = (IF p.lane = <<>> THEN lane ELSE p.lane[1])
        /\ plan' = [plan EXCEPT ![s] = Nothing] /\ DOMAIN plan' = Session
        /\ moved' = moved \ {s}
        /\ strayed' = (load'.state \in Locked /\ IF load.state \in Locked THEN strayed ELSE s \in moved)
    BY DEF Commit, LaneInv
  <1>2. (load'.state \in Locked /\ ~load'.bulk) => load'.fingerprint = lane' \/ strayed'
    <2> HIDE DEF p
    <2> QED
      BY <1>1 DEF LaneInv, PlanLane
  <1>3. ASSUME NEW q \in Session \ stale' PROVE PlanLane(plan[q], q)'
    <2>1. CASE q = s \/ Idle(q)
      <3>1. plan'[q] = Nothing
        BY <1>1, <2>1 DEF Idle, LaneInv
      <3> QED
        BY <3>1 DEF PlanLane, Nothing
    <2>2. CASE q # s /\ ~Idle(q)
      <3>1. plan'[q] = plan[q] /\ q \notin stale /\ ~Overlap(plan[q], p)
        BY <1>3, <2>2 DEF Commit, LaneInv
      <3>2. PlanLane(plan[q], q) /\ (plan[q].load = <<>> \/ p.load = <<>>)
        BY <3>1 DEF LaneInv, Overlap
      <3>3. p.load = <<>> => UNCHANGED <<load, lane>>
        BY <1>1 DEF PlanLane
      <3>4. q \in moved' <=> q \in moved
        BY <1>1, <2>2
      <3> HIDE DEF p
      <3> QED
        BY <3>1, <3>2, <3>3, <3>4 DEF PlanLane
    <2> QED
      BY <2>1, <2>2
  <1> QED
    BY <1>1, <1>2, <1>3 DEF LaneInv

LEMMA LaneStep ==
  ASSUME DeskInv, LaneInv, [Next]_vars PROVE LaneInv'
  <1>1. ASSUME NEW s \in Session, Abort(s) PROVE LaneInv'
    <2>1. /\ UNCHANGED <<load, lane, strayed>> /\ plan' = [plan EXCEPT ![s] = Nothing]
          /\ stale' = stale \ {s} /\ moved' = moved \ {s}
      BY <1>1 DEF Abort
    <2>2. ASSUME NEW q \in Session \ stale' PROVE PlanLane(plan[q], q)'
      <3>1. CASE q = s
        BY <2>1, <3>1 DEF LaneInv, PlanLane, Nothing
      <3>2. CASE q # s
        BY <2>1, <2>2, <3>2 DEF LaneInv, PlanLane
      <3> QED
        BY <3>1, <3>2
    <2> QED
      BY <2>1, <2>2 DEF LaneInv
  <1>2. ASSUME NEW c \in Context \cup {None}, LaneMoves(c) PROVE LaneInv'
    <2>1. /\ UNCHANGED <<load, plan, stale>> /\ strayed' = (load.state \in Locked)
          /\ moved' = {s \in Session : \E i \in DOMAIN plan[s].load : plan[s].load[i].state \in Locked}
      BY <1>2 DEF LaneMoves
    <2>2. ASSUME NEW q \in Session \ stale PROVE PlanLane(plan[q], q)'
      BY <2>1 DEF LaneInv, PlanLane
    <2> QED
      BY <2>1, <2>2 DEF LaneInv
  <1>3. CASE UNCHANGED vars
    BY <1>3 DEF vars, LaneInv, PlanLane
  <1> QED
    BY <1>1, <1>2, <1>3, EditLanes, MoveLanes, RfqLanes, RateLanes, CommitLanes, Zenon DEF Next

(* RunsOnConfirmedLane: whatever the operators do concurrently, and wherever *)
(* the context of the load moves meanwhile (freight_context.py:51), a load    *)
(* the wizard did not confirm or dispatch runs on a rate confirmed for its   *)
(* lane, unless the lane moved after the dispatching command's snapshot.     *)
THEOREM LoadsRunOnConfirmedLane == Spec => []RunsOnConfirmedLane
  <1>1. Init => LaneInv
    BY DEF Init, LaneInv, PlanLane, Nothing, Locked
  <1>2. DeskInv /\ LaneInv /\ [Next]_vars => LaneInv'
    BY LaneStep
  <1>3. DeskInv /\ LaneInv => RunsOnConfirmedLane
    BY DEF DeskInv, LaneInv, RowOK, RunsOnConfirmedLane
  <1> QED
    BY <1>1, <1>2, <1>3, DeskInvariant, PTL DEF Spec

-----------------------------------------------------------------------------
(* Where a confirmed rate came from.  A row that names a live quote as its   *)
(* source is backed by the resolved episode of its context, and no plan      *)
(* that can still commit rewrites a resolved episode: commands write only    *)
(* episodes that were not resolved in their snapshot, and a commit that      *)
(* resolves one makes the other plans for its row stale.                     *)
Live(row) == row.rated /\ row.method = "live_quote"

Resolved(q) == [state |-> "resolved", quote |-> q]

LoadFields == {"state", "rate", "rated", "method", "fingerprint", "sal", "chosen", "bulk"}

Backed(row, rows) == Live(row) =>
  /\ row.rate = row.chosen
  /\ row.fingerprint \in Context
  /\ rows[row.fingerprint] = Resolved(row.chosen)

(* A rewrite takes a live quote over from the row it was made from, ...      *)
Inherits(row, new) ==
  /\ Live(row)
  /\ new.rate = row.rate /\ new.chosen = row.chosen /\ new.fingerprint = row.fingerprint

(* ... or resolves the quote's episode in the same transaction.              *)
Resolves(new, written) ==
  /\ new.rate = new.chosen
  /\ new.fingerprint \in DOMAIN written
  /\ written[new.fingerprint] = Resolved(new.chosen)

LeavesResolved(written, rows) ==
  /\ DOMAIN written \subseteq Context
  /\ \A c \in DOMAIN written : rows[c].state # "resolved"

SourceOK(row, new, written) ==
  /\ DOMAIN new = LoadFields
  /\ Live(new) => Inherits(row, new) \/ Resolves(new, written)

PlanBacked(p, row, rows) ==
  /\ LeavesResolved(p.request, rows)
  /\ p.load # <<>> => SourceOK(row, p.load[1], p.request)

QuoteInv ==
  /\ DOMAIN load = LoadFields
  /\ DOMAIN request = Context
  /\ DOMAIN plan = Session
  /\ Backed(load, request)
  /\ \A s \in Session \ stale : PlanBacked(plan[s], load, request)

LEMMA BeginBacked ==
  ASSUME QuoteInv, NEW s \in Session, NEW p, Begin(s, p), PlanBacked(p, load, request)
  PROVE  QuoteInv'
  <1>1. UNCHANGED <<load, request, stale>> /\ DOMAIN plan' = Session
    BY DEF Begin, QuoteInv
  <1>2. ASSUME NEW q \in Session \ stale PROVE PlanBacked(plan'[q], load, request)
    BY DEF Begin, QuoteInv
  <1> QED
    BY <1>1, <1>2 DEF QuoteInv

(* The plans the commands make, by what they write.                          *)
LEMMA LoadPlan ==
  ASSUME NEW row
  PROVE  LET p == [Nothing EXCEPT !.load = <<row>>]
         IN  p.load = <<row>> /\ p.load[1] = row /\ p.request = <<>>
  BY DEF Nothing

LEMMA RequestPlan ==
  ASSUME NEW r
  PROVE  LET p == [Nothing EXCEPT !.request = r] IN p.load = <<>> /\ p.request = r
  BY DEF Nothing

LEMMA BothPlan ==
  ASSUME NEW row, NEW r
  PROVE  LET p == [Nothing EXCEPT !.load = <<row>>, !.request = r]
         IN  p.load = <<row>> /\ p.load[1] = row /\ p.request = r
  BY DEF Nothing

LEMMA LoadBacked ==
  ASSUME QuoteInv, NEW s \in Session, NEW row, BeginLoad(s, row),
         SourceOK(load, row, <<>>)
  PROVE  QuoteInv'
  <1> DEFINE p == [Nothing EXCEPT !.load = <<row>>]
  <1>1. p.load = <<row>> /\ p.load[1] = row /\ p.request = <<>>
    BY LoadPlan
  <1>2. Begin(s, p)
    BY DEF BeginLoad
  <1> HIDE DEF p
  <1>3. LeavesResolved(p.request, request)
    BY <1>1 DEF LeavesResolved
  <1>4. PlanBacked(p, load, request)
    BY <1>1, <1>3 DEF PlanBacked
  <1> QED
    BY <1>2, <1>4, BeginBacked

LEMMA RequestBacked ==
  ASSUME QuoteInv, NEW s \in Session, NEW r,
         Begin(s, [Nothing EXCEPT !.request = r]), LeavesResolved(r, request)
  PROVE  QuoteInv'
  <1> DEFINE p == [Nothing EXCEPT !.request = r]
  <1>1. p.load = <<>> /\ p.request = r
    BY RequestPlan
  <1>2. Begin(s, p)
    OBVIOUS
  <1> HIDE DEF p
  <1>3. PlanBacked(p, load, request)
    BY <1>1 DEF PlanBacked
  <1> QED
    BY <1>2, <1>3, BeginBacked

LEMMA BothBacked ==
  ASSUME QuoteInv, NEW s \in Session, NEW row, NEW r,
         Begin(s, [Nothing EXCEPT !.load = <<row>>, !.request = r]),
         LeavesResolved(r, request), SourceOK(load, row, r)
  PROVE  QuoteInv'
  <1> DEFINE p == [Nothing EXCEPT !.load = <<row>>, !.request = r]
  <1>1. p.load = <<row>> /\ p.load[1] = row /\ p.request = r
    BY BothPlan
  <1>2. Begin(s, p)
    OBVIOUS
  <1> HIDE DEF p
  <1>3. PlanBacked(p, load, request)
    BY <1>1 DEF PlanBacked
  <1> QED
    BY <1>2, <1>3, BeginBacked

(* Only drafts are cancelled, so a resolved episode is left alone.           *)
LEMMA CancelledLeaves ==
  ASSUME NEW cs, cs \subseteq Active
  PROVE  LeavesResolved(Cancelled(cs), request)
  BY DEF Cancelled, LeavesResolved, Active

LEMMA EditBacked ==
  ASSUME QuoteInv, NEW s \in Session, Edit(s) PROVE QuoteInv'
  <1>1. ASSUME NEW c \in Context \cup {None}, EditLane(s, c) PROVE QuoteInv'
    <2> DEFINE p == [Nothing EXCEPT !.load = <<load>>, !.lane = <<c>>]
    <2>1. p.load[1] = load /\ p.request = <<>>
      BY DEF Nothing
    <2>2. Begin(s, p)
      BY <1>1 DEF EditLane
    <2>3. SourceOK(load, load, <<>>)
      BY DEF SourceOK, Inherits, QuoteInv
    <2> HIDE DEF p
    <2>4. PlanBacked(p, load, request)
      BY <2>1, <2>3 DEF PlanBacked, LeavesResolved
    <2> QED
      BY <2>2, <2>4, BeginBacked
  <1>2. ASSUME NEW r \in {NoRate, Typed}, EditRate(s, r) PROVE QuoteInv'
    <2>1. ~load.rated
      BY <1>2 DEF EditRate
    <2>2. SourceOK(load, [load EXCEPT !.rate = r], <<>>)
      BY <2>1 DEF SourceOK, Live, QuoteInv, LoadFields
    <2> QED
      BY <1>2, <2>2, LoadBacked DEF EditRate
  <1> QED
    BY <1>1, <1>2 DEF Edit

LEMMA MoveBacked ==
  ASSUME QuoteInv, NEW s \in Session, Move(s) PROVE QuoteInv'
  <1>1. ASSUME NEW new PROVE SourceOK(load, [load EXCEPT !.state = new], <<>>)
    BY DEF SourceOK, Inherits, Live, QuoteInv, LoadFields
  <1>2. ASSUME NEW new, NEW b PROVE SourceOK(load, [load EXCEPT !.state = new, !.bulk = b], <<>>)
    BY DEF SourceOK, Inherits, Live, QuoteInv, LoadFields
  <1>3. \/ \E new : BeginLoad(s, [load EXCEPT !.state = new])
        \/ \E new, b : BeginLoad(s, [load EXCEPT !.state = new, !.bulk = b])
    BY Zenon DEF Move, Transition, ActionSchedule, ActionDispatch
  <1> QED
    BY <1>1, <1>2, <1>3, LoadBacked

LEMMA RfqBacked ==
  ASSUME TypeOK, QuoteInv, NEW s \in Session, Rfq(s) PROVE QuoteInv'
  <1>1. CASE CreateRequest(s)
    <2> DEFINE r == [x \in {lane} |-> [state |-> "draft", quote |-> None]]
    <2>1. lane \in Context
      BY <1>1 DEF CreateRequest, TypeOK
    <2>2. LeavesResolved(r, request)
      BY <1>1, <2>1 DEF CreateRequest, LeavesResolved
    <2>3. Begin(s, [Nothing EXCEPT !.request = r])
      BY <1>1 DEF CreateRequest
    <2> HIDE DEF r
    <2> QED
      BY <2>2, <2>3, RequestBacked
  <1>2. ASSUME NEW p, Begin(s, p), p.load = <<>>, p.request = <<>> PROVE QuoteInv'
    BY <1>2, BeginBacked DEF PlanBacked, LeavesResolved
  <1>3. ASSUME NEW r PROVE LET p == [Nothing EXCEPT !.quote = r]
                           IN p.load = <<>> /\ p.request = <<>>
    BY DEF Nothing
  <1>4. ASSUME NEW x, NEW r PROVE LET p == [Nothing EXCEPT !.slots = x, !.quote = r]
                                  IN p.load = <<>> /\ p.request = <<>>
    BY DEF Nothing
  <1>5. ASSUME NEW q \in Quote, RecordQuote(s, q) PROVE QuoteInv'
    BY <1>2, <1>3, <1>5 DEF RecordQuote
  <1>6. ASSUME NEW q \in Quote, SelectQuote(s, q) PROVE QuoteInv'
    BY <1>2, <1>4, <1>6 DEF SelectQuote
  <1> QED
    BY <1>1, <1>5, <1>6 DEF Rfq

LEMMA ConfirmedFields ==
  ASSUME QuoteInv, NEW rate, NEW method, NEW ctx
  PROVE  LET row == Confirmed(rate, method, ctx)
         IN  /\ DOMAIN row = LoadFields
             /\ row.rate = rate /\ row.method = method /\ row.fingerprint = ctx
  BY DEF Confirmed, QuoteInv, LoadFields

LEMMA RateBacked ==
  ASSUME QuoteInv, NEW s \in Session, Rate(s) PROVE QuoteInv'
  <1>1. ASSUME NEW rate, NEW method, method # "live_quote", NEW ctx, NEW r
        PROVE  SourceOK(load, Confirmed(rate, method, ctx), r)
    BY <1>1, ConfirmedFields DEF SourceOK, Live, QuoteInv
  <1>2. CASE ActionConfirmRate(s)
    BY <1>1, <1>2, CancelledLeaves, BothBacked DEF ActionConfirmRate
  <1>3. ASSUME NEW q \in Quote, ActionSelectQuote(s, q.ctx, q) PROVE QuoteInv'
    <2> DEFINE c == q.ctx
               base == Confirmed(q, "live_quote", c)
               row == [base EXCEPT !.chosen = q]
               mine == [x \in {c} |-> Resolved(q)]
               r == Over(mine, Cancelled(Active))
    <2>1. c \in Active
      BY <1>3 DEF ActionSelectQuote, Usable
    <2>2. DOMAIN base = LoadFields /\ base.rate = q /\ base.fingerprint = c
      BY ConfirmedFields
    <2>3. DOMAIN row = LoadFields /\ row.rate = q /\ row.fingerprint = c /\ row.chosen = q
      <3> HIDE DEF base
      <3> QED
        BY <2>2 DEF LoadFields
    <2>4. DOMAIN r = Active /\ r[c] = Resolved(q)
      BY <2>1 DEF Over, Cancelled
    <2>5. Begin(s, [Nothing EXCEPT !.load = <<row>>, !.request = r])
      BY <1>3 DEF ActionSelectQuote, Resolved
    <2> HIDE DEF c, base, row, mine, r
    <2>6. LeavesResolved(r, request)
      BY <2>4 DEF LeavesResolved, Active
    <2>7. SourceOK(load, row, r)
      BY <2>1, <2>3, <2>4 DEF SourceOK, Resolves, QuoteInv
    <2> QED
      BY <2>5, <2>6, <2>7, BothBacked
  <1>4. CASE ResolveConfirmed(s)
    BY <1>4, CancelledLeaves, RequestBacked DEF ResolveConfirmed
  <1>5. CASE ResolveHit(s)
    BY <1>1, <1>5, CancelledLeaves, BothBacked DEF ResolveHit
  <1>6. CASE ResolveMiss(s)
    <2> DEFINE ctx == IF Eligible THEN lane ELSE None
               sal == IF Eligible THEN "miss" ELSE "not_eligible"
               row == [load EXCEPT !.fingerprint = ctx, !.sal = sal]
               r == Cancelled(Active \ {ctx})
    <2>1. ~load.rated /\ Begin(s, [Nothing EXCEPT !.load = <<row>>, !.request = r])
      BY <1>6 DEF ResolveMiss
    <2>2. LeavesResolved(r, request)
      BY CancelledLeaves
    <2> HIDE DEF ctx, sal
    <2>3. SourceOK(load, row, r)
      BY <2>1 DEF SourceOK, Live, QuoteInv, LoadFields
    <2> HIDE DEF row, r
    <2> QED
      BY <2>1, <2>2, <2>3, BothBacked
  <1> QED
    BY <1>2, <1>3, <1>4, <1>5, <1>6 DEF Rate

(* A commit that leaves the load alone keeps its quote's episode; one that   *)
(* writes it inherits that episode or resolves one.                          *)
LEMMA CommitBacks ==
  ASSUME NEW row, NEW rows, NEW p, NEW after, DOMAIN rows = Context,
         Backed(row, rows), PlanBacked(p, row, rows),
         after = IF p.load = <<>> THEN row ELSE p.load[1]
  PROVE  Backed(after, Over(p.request, rows))
  <1>1. ASSUME NEW c \in Context, rows[c].state = "resolved"
        PROVE  Over(p.request, rows)[c] = rows[c]
    BY <1>1 DEF PlanBacked, LeavesResolved, Over
  <1>2. Live(row) => Over(p.request, rows)[row.fingerprint] = Resolved(row.chosen)
    BY <1>1 DEF Backed, Resolved
  <1>3. CASE p.load = <<>>
    BY <1>2, <1>3 DEF Backed
  <1>4. CASE p.load # <<>>
    <2>1. SourceOK(row, after, p.request)
      BY <1>4 DEF PlanBacked
    <2>2. ASSUME Inherits(row, after) PROVE Backed(after, Over(p.request, rows))
      BY <1>2, <2>2 DEF Inherits, Backed
    <2>3. ASSUME Resolves(after, p.request) PROVE Backed(after, Over(p.request, rows))
      <3>1. after.fingerprint \in Context
        BY <2>3 DEF Resolves, PlanBacked, LeavesResolved
      <3> QED
        BY <2>3, <3>1 DEF Resolves, Backed, Over
    <2>4. CASE ~Live(after)
      BY <2>4 DEF Backed
    <2> QED
      BY <2>1, <2>2, <2>3, <2>4 DEF SourceOK
  <1> QED
    BY <1>3, <1>4

(* A plan that shares no row with the commit is as good as it was.           *)
LEMMA OthersStayBacked ==
  ASSUME NEW row, NEW rows, NEW p, NEW q, NEW after, DOMAIN rows = Context,
         PlanBacked(q, row, rows), ~Overlap(p, q),
         after = IF p.load = <<>> THEN row ELSE p.load[1]
  PROVE  PlanBacked(q, after, Over(p.request, rows))
  <1>1. LeavesResolved(q.request, Over(p.request, rows))
    BY DEF PlanBacked, LeavesResolved, Over, Overlap
  <1>2. q.load # <<>> => after = row
    BY DEF Overlap
  <1> QED
    BY <1>1, <1>2 DEF PlanBacked

LEMMA NothingBacked ==
  ASSUME NEW row, NEW rows PROVE PlanBacked(Nothing, row, rows)
  BY DEF PlanBacked, LeavesResolved, Nothing

LEMMA CommitBacked ==
  ASSUME QuoteInv, NEW s \in Session, Commit(s) PROVE QuoteInv'
  <1> DEFINE p == plan[s]
  <1>1. /\ s \notin stale
        /\ load' = IF p.load = <<>> THEN load ELSE p.load[1]
        /\ request' = Over(p.request, request)
        /\ plan' = [plan EXCEPT ![s] = Nothing]
        /\ stale' = stale \cup {q \in Session \ {s} : ~Idle(q) /\ Overlap(plan[q], p)}
    BY DEF Commit
  <1>2. PlanBacked(p, load, request)
    BY <1>1 DEF QuoteInv
  <1>3. Backed(load', request')
    BY <1>1, <1>2, CommitBacks DEF QuoteInv
  <1>4. ASSUME NEW q \in Session \ stale' PROVE PlanBacked(plan'[q], load', request')
    <2>1. CASE q = s \/ Idle(q)
      <3>1. plan'[q] = Nothing
        BY <1>1, <2>1 DEF QuoteInv, Idle
      <3> QED
        BY <3>1, NothingBacked
    <2>2. CASE q # s /\ ~Idle(q)
      <3>1. plan'[q] = plan[q] /\ q \notin stale /\ ~Overlap(p, plan[q])
        BY <1>1, <1>4, <2>2 DEF QuoteInv, Overlap
      <3>2. PlanBacked(plan[q], load, request)
        BY <3>1 DEF QuoteInv
      <3> HIDE DEF p
      <3> QED
        BY <1>1, <3>1, <3>2, OthersStayBacked DEF QuoteInv
    <2> QED
      BY <2>1, <2>2
  <1>5. DOMAIN load' = LoadFields
    BY <1>1, <1>2 DEF QuoteInv, PlanBacked, SourceOK
  <1>6. DOMAIN request' = Context /\ DOMAIN plan' = Session
    BY <1>1 DEF QuoteInv, Over
  <1> QED
    BY <1>3, <1>4, <1>5, <1>6 DEF QuoteInv

LEMMA QuoteStep ==
  ASSUME TypeOK, QuoteInv, [Next]_vars PROVE QuoteInv'
  <1>1. ASSUME NEW s \in Session, Abort(s) PROVE QuoteInv'
    <2>1. UNCHANGED <<load, request>> /\ stale' = stale \ {s} /\ DOMAIN plan' = Session
      BY <1>1 DEF Abort, QuoteInv
    <2>2. ASSUME NEW q \in Session \ stale' PROVE PlanBacked(plan'[q], load, request)
      BY <1>1, <2>1, NothingBacked DEF Abort, QuoteInv
    <2> QED
      BY <2>1, <2>2 DEF QuoteInv
  <1>2. ASSUME UNCHANGED vars PROVE QuoteInv'
    BY <1>2 DEF vars, QuoteInv
  <1>3. ASSUME NEW c \in Context \cup {None}, LaneMoves(c) PROVE QuoteInv'
    BY <1>3 DEF LaneMoves, QuoteInv
  <1> QED
    BY <1>1, <1>2, <1>3, EditBacked, MoveBacked, RfqBacked, RateBacked, CommitBacked DEF Next

(* LiveQuoteIsResolved: a rate that is said to come from a live quote is the *)
(* quote the resolved episode of the same context names, whatever the        *)
(* operators do concurrently and wherever the bulk wizard moves the load     *)
(* (load.py:_confirm_freight_rate, freight_quote.py:action_select_quote).    *)
THEOREM LiveQuotesAreResolved == Spec => []LiveQuoteIsResolved
  <1>1. Init => QuoteInv
    <2> SUFFICES ASSUME Init PROVE QuoteInv
      OBVIOUS
    <2>1. \A s \in Session : PlanBacked(plan[s], load, request)
      BY NothingBacked DEF Init
    <2> QED
      BY <2>1 DEF Init, QuoteInv, LoadFields, Backed, Live
  <1>2. TypeOK /\ QuoteInv /\ [Next]_vars => QuoteInv'
    BY QuoteStep
  <1>3. QuoteInv => LiveQuoteIsResolved
    BY DEF QuoteInv, Backed, Live, Resolved, LiveQuoteIsResolved
  <1> QED
    BY <1>1, <1>2, <1>3, DeskTyping, PTL DEF Spec

-----------------------------------------------------------------------------
(***************************************************************************)
(* The end of an episode, for commands that run one after another: a        *)
(* confirmed rate has cancelled every active episode, and the quote of a     *)
(* resolved one is selected, as only the quotes of an active episode are     *)
(* selected or superseded.                                                 *)
(***************************************************************************)
Serial == \A s, o \in Session : s = o \/ Idle(s) \/ Idle(o)

EpisodesOK(row, requests, quotes) ==
  /\ (row.state = "rate_confirmed" /\ ~row.bulk) =>
       \A c \in Context : requests[c].state # "draft"
  /\ \A c \in Context : requests[c].state = "resolved" =>
       /\ requests[c].quote \in Quote /\ requests[c].quote.ctx = c
       /\ quotes[requests[c].quote].selected

LoadAfter(p) == IF p.load = <<>> THEN load ELSE p.load[1]

EndsWell(p) == EpisodesOK(LoadAfter(p), Over(p.request, request), Over(p.quote, quote))

EpisodeInv ==
  /\ QuoteInv
  /\ DOMAIN quote = Quote
  /\ EpisodesOK(load, request, quote)
  /\ \A s \in Session : Idle(s) \/ EndsWell(plan[s])

LEMMA EndsWellStands ==
  ASSUME UNCHANGED <<load, request, quote>>, NEW q, EndsWell(q)
  PROVE  EndsWell(q)'
  <1>1. LoadAfter(q)' = LoadAfter(q)
    BY DEF LoadAfter
  <1>2. Over(q.request, request)' = Over(q.request, request)
    OBVIOUS
  <1>3. Over(q.quote, quote)' = Over(q.quote, quote)
    OBVIOUS
  <1> QED
    BY <1>1, <1>2, <1>3 DEF EndsWell, EpisodesOK

LEMMA BeginEndsWell ==
  ASSUME EpisodeInv, QuoteInv', NEW s \in Session, NEW p, Begin(s, p), EndsWell(p)
  PROVE  EpisodeInv'
  <1>1. UNCHANGED <<load, request, quote>> /\ DOMAIN plan = Session
        /\ plan' = [plan EXCEPT ![s] = p]
    BY DEF Begin, EpisodeInv, QuoteInv
  <1>2. \A q : EndsWell(q) => EndsWell(q)'
    BY <1>1, EndsWellStands
  <1>3. \A o \in Session : Idle(o)' \/ EndsWell(plan'[o])
    BY <1>1 DEF EpisodeInv, Idle, Nothing
  <1>4. \A o \in Session : Idle(o)' \/ EndsWell(plan[o])'
    BY <1>2, <1>3
  <1> QED
    BY <1>1, <1>4 DEF EpisodeInv, EpisodesOK

(* What a plan of each kind leaves.                                        *)
LEMMA LoadEndsWell ==
  ASSUME EpisodeInv, NEW row, NEW r,
         (row.state = "rate_confirmed" /\ ~row.bulk) => \A c \in Active : c \in DOMAIN r,
         \A c \in Context \cap DOMAIN r :
           /\ r[c].state # "draft"
           /\ r[c].state = "resolved" => /\ r[c].quote \in Quote /\ r[c].quote.ctx = c
                                         /\ quote[r[c].quote].selected
  PROVE  EpisodesOK(row, Over(r, request), Over(<<>>, quote))
  <1>1. \A c \in Context : Over(r, request)[c] = IF c \in DOMAIN r THEN r[c] ELSE request[c]
    BY DEF EpisodeInv, QuoteInv, Over
  <1>2. \A q \in Quote : Over(<<>>, quote)[q] = quote[q]
    BY DEF EpisodeInv, Over
  <1>3. \A c \in Context : request[c].state = "resolved" =>
          /\ request[c].quote \in Quote /\ request[c].quote.ctx = c
          /\ quote[request[c].quote].selected
    BY DEF EpisodeInv, EpisodesOK
  <1>4. (row.state = "rate_confirmed" /\ ~row.bulk) =>
          \A c \in Context : Over(r, request)[c].state # "draft"
    BY <1>1 DEF Active
  <1>5. ASSUME NEW c \in Context, Over(r, request)[c].state = "resolved"
        PROVE  LET q == Over(r, request)[c].quote
               IN  q \in Quote /\ q.ctx = c /\ Over(<<>>, quote)[q].selected
    <2>1. CASE c \in DOMAIN r
      BY <1>1, <1>2, <1>5, <2>1
    <2>2. CASE c \notin DOMAIN r
      BY <1>1, <1>2, <1>3, <1>5, <2>2
    <2> QED
      BY <2>1, <2>2
  <1> QED
    BY <1>4, <1>5 DEF EpisodesOK

LEMMA NothingWritten ==
  ASSUME EpisodeInv
  PROVE  /\ \A c \in Context : Over(<<>>, request)[c] = request[c]
         /\ \A q \in Quote : Over(<<>>, quote)[q] = quote[q]
  BY DEF EpisodeInv, QuoteInv, Over

(* Only the quotes of an active episode are written, none of a resolved one. *)
LEMMA QuotesEndWell ==
  ASSUME EpisodeInv, NEW u, NEW c \in Active,
         \A q \in Quote \cap DOMAIN u : q.ctx = c
  PROVE  EpisodesOK(load, Over(<<>>, request), Over(u, quote))
  <1>1. \A x \in Context : Over(<<>>, request)[x] = request[x]
    BY NothingWritten
  <1>2. \A q \in Quote : q.ctx # c => Over(u, quote)[q] = quote[q]
    BY DEF EpisodeInv, Over
  <1>3. request[c].state = "draft"
    BY DEF Active
  <1> QED
    BY <1>1, <1>2, <1>3 DEF EpisodeInv, EpisodesOK

LEMMA CancelledFields ==
  ASSUME NEW cs
  PROVE  DOMAIN Cancelled(cs) = cs /\ \A c \in cs : Cancelled(cs)[c].state = "cancelled"
  BY DEF Cancelled

LEMMA PlanOfLoad ==
  ASSUME NEW row
  PROVE  LET p == [Nothing EXCEPT !.load = <<row>>]
         IN  LoadAfter(p) = row /\ p.request = <<>> /\ p.quote = <<>>
  BY DEF Nothing, LoadAfter

LEMMA PlanOfRequests ==
  ASSUME NEW r
  PROVE  LET p == [Nothing EXCEPT !.request = r]
         IN  LoadAfter(p) = load /\ p.request = r /\ p.quote = <<>>
  BY DEF Nothing, LoadAfter

LEMMA PlanOfBoth ==
  ASSUME NEW row, NEW r
  PROVE  LET p == [Nothing EXCEPT !.load = <<row>>, !.request = r]
         IN  LoadAfter(p) = row /\ p.request = r /\ p.quote = <<>>
  BY DEF Nothing, LoadAfter

LEMMA PlanOfQuotes ==
  ASSUME NEW u
  PROVE  LET p == [Nothing EXCEPT !.quote = u]
         IN  LoadAfter(p) = load /\ p.request = <<>> /\ p.quote = u
  BY DEF Nothing, LoadAfter

LEMMA PlanOfSelection ==
  ASSUME NEW x, NEW u
  PROVE  LET p == [Nothing EXCEPT !.slots = x, !.quote = u]
         IN  LoadAfter(p) = load /\ p.request = <<>> /\ p.quote = u
  BY DEF Nothing, LoadAfter

-----------------------------------------------------------------------------
LEMMA LoadOnly ==
  ASSUME EpisodeInv, QuoteInv', NEW s \in Session, NEW row, BeginLoad(s, row),
         (row.state = "rate_confirmed" /\ ~row.bulk) => Active = {}
  PROVE  EpisodeInv'
  <1> DEFINE p == [Nothing EXCEPT !.load = <<row>>]
  <1>1. LoadAfter(p) = row /\ p.request = <<>> /\ p.quote = <<>>
    BY PlanOfLoad
  <1>2. Begin(s, p)
    BY DEF BeginLoad
  <1>3. EpisodesOK(row, Over(<<>>, request), Over(<<>>, quote))
    BY LoadEndsWell
  <1> HIDE DEF p
  <1>4. EndsWell(p)
    BY <1>1, <1>3 DEF EndsWell
  <1> QED
    BY <1>2, <1>4, BeginEndsWell

(* A command that writes the load, or leaves it, and cancels episodes.       *)
LEMMA LoadAndCancels ==
  ASSUME EpisodeInv, QuoteInv', NEW s \in Session, NEW row, NEW cs,
         (row.state = "rate_confirmed" /\ ~row.bulk) => Active \subseteq cs,
         \/ Begin(s, [Nothing EXCEPT !.load = <<row>>, !.request = Cancelled(cs)])
         \/ row = load /\ Begin(s, [Nothing EXCEPT !.request = Cancelled(cs)])
  PROVE  EpisodeInv'
  <1> DEFINE both == [Nothing EXCEPT !.load = <<row>>, !.request = Cancelled(cs)]
             only == [Nothing EXCEPT !.request = Cancelled(cs)]
  <1>1. EpisodesOK(row, Over(Cancelled(cs), request), Over(<<>>, quote))
    BY CancelledFields, LoadEndsWell
  <1>2. CASE Begin(s, both)
    <2>1. LoadAfter(both) = row /\ both.request = Cancelled(cs) /\ both.quote = <<>>
      BY PlanOfBoth
    <2> HIDE DEF both
    <2>2. EndsWell(both)
      BY <1>1, <2>1 DEF EndsWell
    <2> QED
      BY <1>2, <2>2, BeginEndsWell
  <1>3. CASE row = load /\ Begin(s, only)
    <2>1. LoadAfter(only) = row /\ only.request = Cancelled(cs) /\ only.quote = <<>>
      BY <1>3, PlanOfRequests
    <2> HIDE DEF only
    <2>2. EndsWell(only)
      BY <1>1, <2>1 DEF EndsWell
    <2> QED
      BY <1>3, <2>2, BeginEndsWell
  <1> QED
    BY <1>2, <1>3

LEMMA EditEnds ==
  ASSUME EpisodeInv, QuoteInv', NEW s \in Session, Edit(s) PROVE EpisodeInv'
  <1>0. (load.state = "rate_confirmed" /\ ~load.bulk) => Active = {}
    BY DEF EpisodeInv, EpisodesOK, Active
  <1>1. ASSUME NEW c, EditLane(s, c) PROVE EpisodeInv'
    <2> DEFINE p == [Nothing EXCEPT !.load = <<load>>, !.lane = <<c>>]
    <2>1. LoadAfter(p) = load /\ p.request = <<>> /\ p.quote = <<>>
      BY DEF Nothing, LoadAfter
    <2>2. Begin(s, p)
      BY <1>1 DEF EditLane
    <2>3. EpisodesOK(load, Over(<<>>, request), Over(<<>>, quote))
      BY <1>0, LoadEndsWell
    <2> HIDE DEF p
    <2>4. EndsWell(p)
      BY <2>1, <2>3 DEF EndsWell
    <2> QED
      BY <2>2, <2>4, BeginEndsWell
  <1>2. ASSUME NEW r, BeginLoad(s, [load EXCEPT !.rate = r]) PROVE EpisodeInv'
    <2>1. [load EXCEPT !.rate = r].state = load.state /\ [load EXCEPT !.rate = r].bulk = load.bulk
      BY DEF EpisodeInv, QuoteInv, LoadFields
    <2> QED
      BY <1>0, <1>2, <2>1, LoadOnly
  <1> QED
    BY <1>1, <1>2, Zenon DEF Edit, EditRate

(* Only the wizard moves a load to "rate_confirmed" without a confirmation.  *)
LEMMA MoveEnds ==
  ASSUME EpisodeInv, QuoteInv', NEW s \in Session, Move(s) PROVE EpisodeInv'
  <1>1. ASSUME NEW new \in LoadState, Transition(s, new) PROVE EpisodeInv'
    <2> DEFINE b == (load.bulk /\ new # "draft") \/ new \in {"rate_confirmed", "dispatched"}
               row == [load EXCEPT !.state = new, !.bulk = b]
    <2>1. BeginLoad(s, row)
      BY <1>1 DEF Transition
    <2>2. row.state = new /\ row.bulk = b
      BY DEF EpisodeInv, QuoteInv, LoadFields
    <2> HIDE DEF row
    <2> QED
      BY <2>1, <2>2, LoadOnly
  <1>2. ASSUME NEW new \in {"scheduled", "dispatched"}, BeginLoad(s, [load EXCEPT !.state = new])
        PROVE  EpisodeInv'
    <2>1. [load EXCEPT !.state = new].state # "rate_confirmed"
      BY DEF EpisodeInv, QuoteInv, LoadFields
    <2> QED
      BY <1>2, <2>1, LoadOnly
  <1> QED
    BY <1>1, <1>2 DEF Move, ActionSchedule, ActionDispatch

LEMMA RfqEnds ==
  ASSUME EpisodeInv, QuoteInv', NEW s \in Session, Rfq(s) PROVE EpisodeInv'
  <1>1. CASE CreateRequest(s)
    <2> DEFINE r == [x \in {lane} |-> [state |-> "draft", quote |-> None]]
               p == [Nothing EXCEPT !.request = r]
    <2>1. load.state = "ready_confirmed" /\ Begin(s, p)
      BY <1>1 DEF CreateRequest
    <2>2. LoadAfter(p) = load /\ p.request = r /\ p.quote = <<>>
      BY PlanOfRequests
    <2>3. \A c \in Context : Over(r, request)[c] =
            IF c = lane THEN [state |-> "draft", quote |-> None] ELSE request[c]
      BY DEF EpisodeInv, QuoteInv, Over
    <2> HIDE DEF p, r
    <2>4. EpisodesOK(load, Over(r, request), Over(<<>>, quote))
      BY <2>1, <2>3, NothingWritten DEF EpisodesOK, EpisodeInv
    <2>5. EndsWell(p)
      BY <2>2, <2>4 DEF EndsWell
    <2> QED
      BY <2>1, <2>5, BeginEndsWell
  <1>2. ASSUME NEW p, Begin(s, p), LoadAfter(p) = load, p.request = <<>>,
               NEW c \in Active, \A q \in Quote \cap DOMAIN p.quote : q.ctx = c
        PROVE  EpisodeInv'
    <2>1. EndsWell(p)
      BY <1>2, QuotesEndWell DEF EndsWell
    <2> QED
      BY <1>2, <2>1, BeginEndsWell
  <1>3. ASSUME NEW q \in Quote, RecordQuote(s, q) PROVE EpisodeInv'
    <2>1. PICK prior \in SUBSET {p \in Quote : p.ctx = q.ctx /\ quote[p].state = "active"
                                                 /\ ~quote[p].selected} :
            Begin(s, [Nothing EXCEPT !.quote =
              [p \in {q} \cup prior |->
                 [state |-> IF p = q THEN "active" ELSE "superseded", selected |-> FALSE]]])
      BY <1>3, Zenon DEF RecordQuote
    <2> DEFINE u == [p \in {q} \cup prior |->
                       [state |-> IF p = q THEN "active" ELSE "superseded", selected |-> FALSE]]
               p == [Nothing EXCEPT !.quote = u]
    <2>2. q.ctx \in Active
      BY <1>3 DEF RecordQuote, Usable
    <2>3. \A x \in DOMAIN u : x.ctx = q.ctx
      OBVIOUS
    <2>4. Begin(s, p)
      BY <2>1
    <2> HIDE DEF u
    <2>5. LoadAfter(p) = load /\ p.request = <<>> /\ p.quote = u
      BY PlanOfQuotes
    <2> HIDE DEF p
    <2> QED
      BY <1>2, <2>2, <2>3, <2>4, <2>5
  <1>4. ASSUME NEW q \in Quote, SelectQuote(s, q) PROVE EpisodeInv'
    <2> DEFINE u == [p \in {q} \cup {p \in Quote : p.ctx = q.ctx /\ quote[p].selected} |->
                       [state |-> quote[p].state, selected |-> p = q]]
               p == [Nothing EXCEPT !.slots = {q.ctx}, !.quote = u]
    <2>1. q.ctx \in Active /\ Begin(s, p)
      BY <1>4, Zenon DEF SelectQuote, Usable
    <2>2. \A x \in DOMAIN u : x.ctx = q.ctx
      OBVIOUS
    <2> HIDE DEF u
    <2>3. LoadAfter(p) = load /\ p.request = <<>> /\ p.quote = u
      BY PlanOfSelection
    <2> HIDE DEF p
    <2> QED
      BY <1>2, <2>1, <2>2, <2>3
  <1> QED
    BY <1>1, <1>3, <1>4, Zenon DEF Rfq

LEMMA RateEnds ==
  ASSUME EpisodeInv, QuoteInv', NEW s \in Session, Rate(s) PROVE EpisodeInv'
  <1>1. CASE ActionConfirmRate(s)
    BY <1>1, LoadAndCancels DEF ActionConfirmRate
  <1>2. CASE ResolveConfirmed(s)
    BY <1>2, LoadAndCancels DEF ResolveConfirmed
  <1>3. CASE ResolveHit(s)
    BY <1>3, LoadAndCancels DEF ResolveHit
  <1>4. CASE ResolveMiss(s)
    <2> DEFINE ctx == IF Eligible THEN lane ELSE None
               sal == IF Eligible THEN "miss" ELSE "not_eligible"
               row == [load EXCEPT !.fingerprint = ctx, !.sal = sal]
    <2>1. /\ load.state # "rate_confirmed"
          /\ Begin(s, [Nothing EXCEPT !.load = <<row>>, !.request = Cancelled(Active \ {ctx})])
      BY <1>4 DEF ResolveMiss
    <2> HIDE DEF ctx, sal
    <2>2. row.state = load.state
      BY DEF EpisodeInv, QuoteInv, LoadFields
    <2> HIDE DEF row
    <2> QED
      BY <2>1, <2>2, LoadAndCancels
  <1>5. ASSUME NEW q \in Quote, ActionSelectQuote(s, q.ctx, q) PROVE EpisodeInv'
    <2> DEFINE c == q.ctx
               row == [Confirmed(q, "live_quote", c) EXCEPT !.chosen = q]
               r == Over([x \in {c} |-> Resolved(q)], Cancelled(Active))
               p == [Nothing EXCEPT !.load = <<row>>, !.request = r]
    <2>1. c \in Active /\ {x \in Quote : x.ctx = c /\ quote[x].selected} = {q}
      BY <1>5 DEF ActionSelectQuote, Usable
    <2>2. quote[q].selected
      BY <2>1
    <2>3. /\ DOMAIN r = Active /\ r[c] = Resolved(q)
          /\ \A x \in Active \ {c} : r[x].state = "cancelled"
      BY <2>1 DEF Over, Cancelled
    <2>4. Begin(s, p)
      BY <1>5 DEF ActionSelectQuote, Resolved
    <2>5. LoadAfter(p) = row /\ p.request = r /\ p.quote = <<>>
      BY PlanOfBoth
    <2> HIDE DEF row, r, p
    <2>6. EpisodesOK(row, Over(r, request), Over(<<>>, quote))
      <3>1. \A x \in Context \cap DOMAIN r :
              /\ r[x].state # "draft"
              /\ r[x].state = "resolved" => /\ r[x].quote \in Quote /\ r[x].quote.ctx = x
                                            /\ quote[r[x].quote].selected
        BY <2>2, <2>3 DEF Resolved
      <3> QED
        BY <2>3, <3>1, LoadEndsWell
    <2>7. EndsWell(p)
      BY <2>5, <2>6 DEF EndsWell
    <2> QED
      BY <2>4, <2>7, BeginEndsWell
  <1> QED
    BY <1>1, <1>2, <1>3, <1>4, <1>5, Zenon DEF Rate

LEMMA CommitEnds ==
  ASSUME Serial, EpisodeInv, QuoteInv', NEW s \in Session, Commit(s) PROVE EpisodeInv'
  <1>1. /\ load' = LoadAfter(plan[s]) /\ request' = Over(plan[s].request, request)
        /\ quote' = Over(plan[s].quote, quote) /\ ~Idle(s)
        /\ plan' = [plan EXCEPT ![s] = Nothing]
    BY DEF Commit, LoadAfter
  <1>2. EpisodesOK(load', request', quote')
    BY <1>1 DEF EpisodeInv, EndsWell
  <1>3. \A o \in Session : plan'[o] = Nothing
    BY <1>1 DEF Serial, Idle, EpisodeInv, QuoteInv
  <1>4. DOMAIN quote' = Quote
    BY <1>1 DEF EpisodeInv, Over
  <1> QED
    BY <1>2, <1>3, <1>4 DEF EpisodeInv, EpisodesOK, Idle

LEMMA AbortEnds ==
  ASSUME EpisodeInv, QuoteInv', NEW s \in Session, Abort(s) PROVE EpisodeInv'
  <1>1. /\ UNCHANGED <<load, request, quote>> /\ plan' = [plan EXCEPT ![s] = Nothing]
        /\ DOMAIN plan = Session
    BY DEF Abort, EpisodeInv, QuoteInv
  <1>2. \A q : EndsWell(q) => EndsWell(q)'
    BY <1>1, EndsWellStands
  <1>3. \A o \in Session : Idle(o)' \/ EndsWell(plan'[o])
    BY <1>1 DEF EpisodeInv, Idle
  <1>4. \A o \in Session : Idle(o)' \/ EndsWell(plan[o])'
    BY <1>2, <1>3
  <1> QED
    BY <1>1, <1>4 DEF EpisodeInv, EpisodesOK

LEMMA EpisodeStep ==
  Serial /\ EpisodeInv /\ QuoteInv' /\ [Next]_vars => EpisodeInv'
  <1> SUFFICES ASSUME Serial, EpisodeInv, QuoteInv', [Next]_vars PROVE EpisodeInv'
    OBVIOUS
  <1>1. CASE UNCHANGED vars
    <2>1. UNCHANGED <<load, request, quote, plan>>
      BY <1>1 DEF vars
    <2>2. \A q : EndsWell(q) => EndsWell(q)'
      BY <2>1, EndsWellStands
    <2>3. \A o \in Session : Idle(o)' \/ EndsWell(plan[o])'
      BY <2>1, <2>2 DEF EpisodeInv, Idle
    <2> QED
      BY <2>1, <2>3 DEF EpisodeInv, EpisodesOK
  <1>3. ASSUME NEW c \in Context \cup {None}, LaneMoves(c) PROVE EpisodeInv'
    <2>1. UNCHANGED <<load, request, quote, plan>>
      BY <1>3 DEF LaneMoves
    <2>2. \A q : EndsWell(q) => EndsWell(q)'
      BY <2>1, EndsWellStands
    <2>3. \A o \in Session : Idle(o)' \/ EndsWell(plan[o])'
      BY <2>1, <2>2 DEF EpisodeInv, Idle
    <2> QED
      BY <2>1, <2>3 DEF EpisodeInv, EpisodesOK
  <1>2. CASE \E s \in Session : Edit(s) \/ Move(s) \/ Rfq(s) \/ Rate(s) \/ Commit(s) \/ Abort(s)
    <2>1. PICK s \in Session : Edit(s) \/ Move(s) \/ Rfq(s) \/ Rate(s) \/ Commit(s) \/ Abort(s)
      BY <1>2
    <2> QED
      BY <2>1, EditEnds, MoveEnds, RfqEnds, RateEnds, CommitEnds, AbortEnds
  <1> QED
    BY <1>1, <1>2, <1>3, Zenon DEF Next

LEMMA OnlyOne ==
  ASSUME NEW S, IsFiniteSet(S), Cardinality(S) <= 1
  PROVE  \A a, b \in S : a = b
  <1>1. Cardinality(S) \in Nat /\ (Cardinality(S) = 0 => S = {})
    BY FS_CardinalityType, FS_EmptySet
  <1>2. Cardinality(S) = 0 \/ Cardinality(S) = 1
    BY <1>1
  <1>3. Cardinality(S) = 1 => \E x : S = {x}
    BY FS_Singleton
  <1> QED
    BY <1>1, <1>2, <1>3

(* EpisodesEndWell: one operator, whose commands run one after another,      *)
(* leaves no active episode behind a confirmed rate (load.py:1041), except    *)
(* where the wizard confirms without one, and every resolved episode names    *)
(* its selected quote (freight_quote.py:205).  Two operators may break        *)
(* either.                                                                  *)
THEOREM EpisodesDoEndWell ==
  ASSUME IsFiniteSet(Session)
  PROVE  ShiftSpec => []EpisodesEndWell
  <1> DEFINE Inv == QuoteInv /\ (operators = 1 => Serial /\ EpisodeInv)
  <1>2. ShiftInit => Inv
    <2> SUFFICES ASSUME Init PROVE QuoteInv /\ Serial /\ EpisodeInv
      BY DEF ShiftInit
    <2>1. \A s \in Session : PlanBacked(plan[s], load, request)
      BY NothingBacked DEF Init
    <2>2. QuoteInv
      BY <2>1 DEF Init, QuoteInv, LoadFields, Backed, Live
    <2>3. \A c \in Context : request[c].state = "none"
      BY DEF Init
    <2>4. load.state = "draft" /\ DOMAIN quote = Quote /\ \A s \in Session : Idle(s)
      BY DEF Init, Idle
    <2> QED
      BY <2>2, <2>3, <2>4 DEF EpisodeInv, EpisodesOK, Serial
  <1>5. ShiftSpec => []TypeOK
    <2>1. ShiftInit => Init
      BY DEF ShiftInit
    <2>2. [ShiftNext]_shiftVars => [Next]_vars
      BY DEF ShiftNext, shiftVars
    <2> QED
      BY <2>1, <2>2, DeskTyping, PTL DEF Spec, ShiftSpec
  <1>3. TypeOK /\ Inv /\ [ShiftNext]_shiftVars => Inv'
    <2> SUFFICES ASSUME TypeOK, Inv, [ShiftNext]_shiftVars PROVE Inv'
      OBVIOUS
    <2>1. [Next]_vars /\ operators' = operators
      BY DEF ShiftNext, shiftVars
    <2>2. QuoteInv'
      BY <2>1, QuoteStep
    <2>3. operators = 1 => EpisodeInv'
      BY <2>1, <2>2, EpisodeStep
    <2>4. operators = 1 => Serial'
      <3>1. CASE ShiftNext
        <4> DEFINE Busy == {s \in Session : plan[s] # Nothing}
        <4>1. Busy' \subseteq Session /\ (operators = 1 => Cardinality(Busy') <= 1)
          BY <2>1, <3>1 DEF ShiftNext, FewEnough
        <4>2. operators = 1 => \A s, o \in Busy' : s = o
          BY <4>1, FS_Subset, OnlyOne
        <4> QED
          BY <4>2 DEF Serial, Idle
      <3>2. CASE UNCHANGED shiftVars
        BY <3>2 DEF shiftVars, vars, Serial, Idle
      <3> QED
        BY <3>1, <3>2
    <2> QED
      BY <2>1, <2>2, <2>3, <2>4
  <1>4. Inv => EpisodesEndWell
    BY DEF EpisodeInv, EpisodesOK, EpisodesEndWell, NoOrphanRequest, ResolvedOwnsSelection, Active
  <1> QED
    BY <1>2, <1>3, <1>4, <1>5, PTL DEF ShiftSpec

-----------------------------------------------------------------------------
(* A set of numbers has a smallest one.                                     *)
LEMMA SmallestNumber ==
  ASSUME NEW T, T \subseteq Nat, T # {}
  PROVE  \E x \in T : \A y \in T : x <= y
  <1> DEFINE R == {pair \in Nat \X Nat : pair[1] < pair[2]}
  <1>1. IsWellFoundedOn(R, Nat)
    BY NatLessThanWellFounded DEF OpToRel
  <1> HIDE DEF R
  <1>2. PICK x \in T : \A y \in T : <<y, x>> \notin R
    BY <1>1, WFMin
  <1>3. ASSUME NEW y \in T PROVE x <= y
    <2>1. x \in Nat /\ y \in Nat
      OBVIOUS
    <2>2. ~(y < x)
      BY <1>2, <2>1 DEF R
    <2> QED
      BY <2>1, <2>2
  <1> QED
    BY <1>3

-----------------------------------------------------------------------------
(* The search of Same-As-Last, over any list of earlier loads.               *)

(* The recursion by which ResolveSal walks, and the walk it defines.         *)
WalkStep(candidates, now, walk) ==
  [i \in 0..Len(candidates) |->
     IF i = 0 THEN [hit |-> 0, seen |-> {}]
     ELSE Visit(walk[i - 1], i, candidates[i], now)]

Walk(candidates, now) == CHOOSE walk : walk = WalkStep(candidates, now, walk)

LEMMA ResolveWalks ==
  ASSUME NEW candidates, NEW now
  PROVE  LET end == Walk(candidates, now)[Len(candidates)]
         IN ResolveSal(candidates, now) =
              IF end.hit # 0 THEN <<"hit", end.hit>> ELSE <<"miss", Reason(end.seen)>>
  BY Zenon DEF ResolveSal, Walk, WalkStep

(* What the walk knows after i candidates, said without recursion.           *)
UsableIn(candidates, now, i) == {j \in 1..i : Qualifies(candidates[j], now)}

SeenIn(candidates, now, i) == UNION {Seen(candidates[j], now) : j \in 1..i}

FirstOf(s) == CHOOSE j \in s : \A k \in s : j <= k

Known(candidates, now, i) ==
  LET usable == UsableIn(candidates, now, i) IN
  IF usable = {} THEN [hit |-> 0, seen |-> SeenIn(candidates, now, i)]
  ELSE [hit |-> FirstOf(usable), seen |-> SeenIn(candidates, now, FirstOf(usable) - 1)]

(* There is nothing before the first candidate.                              *)
LEMMA KnownAtFirst ==
  ASSUME NEW candidates, NEW now
  PROVE  Known(candidates, now, 0) = [hit |-> 0, seen |-> {}]
  <1>1. 1..0 = {}
    OBVIOUS
  <1> QED
    BY <1>1 DEF Known, UsableIn, SeenIn

(* A set of numbers has its first.                                           *)
LEMMA FirstIsLeast ==
  ASSUME NEW s, s \subseteq Nat, s # {}
  PROVE  FirstOf(s) \in s /\ \A k \in s : FirstOf(s) <= k
  BY SmallestNumber, Zenon DEF FirstOf

(* and it is the only one that is.                                           *)
LEMMA LeastIsFirst ==
  ASSUME NEW s, s \subseteq Nat, NEW j \in s, \A k \in s : j <= k
  PROVE  FirstOf(s) = j
  <1>1. FirstOf(s) \in s /\ FirstOf(s) <= j
    BY FirstIsLeast
  <1>2. j <= FirstOf(s)
    BY <1>1
  <1>3. FirstOf(s) \in Nat /\ j \in Nat
    BY <1>1
  <1> HIDE DEF FirstOf
  <1> QED
    BY <1>1, <1>2, <1>3

(* One more candidate is one turn of the loop.                               *)
LEMMA KnownGrows ==
  ASSUME NEW candidates, NEW now, NEW i \in Nat \ {0}
  PROVE  Known(candidates, now, i) =
           Visit(Known(candidates, now, i - 1), i, candidates[i], now)
  <1> DEFINE old == UsableIn(candidates, now, i - 1)
             new == UsableIn(candidates, now, i)
             c == candidates[i]
  <1>1. 1..i = (1..i - 1) \cup {i}
    OBVIOUS
  <1>2. new = old \cup (IF Qualifies(c, now) THEN {i} ELSE {})
    BY <1>1, Zenon DEF UsableIn
  <1>3. SeenIn(candidates, now, i) = SeenIn(candidates, now, i - 1) \cup Seen(c, now)
    BY <1>1, Zenon DEF SeenIn
  <1>4. old \subseteq 1..i - 1 /\ old \subseteq Nat /\ new \subseteq Nat
    <2>1. (1..i - 1) \subseteq Nat /\ (1..i) \subseteq Nat
      OBVIOUS
    <2> QED
      BY <2>1, Zenon DEF UsableIn
  <1> HIDE DEF old, new
  <1>5. CASE old # {}
    <2>1. FirstOf(old) \in old /\ \A k \in old : FirstOf(old) <= k
      BY <1>4, <1>5, FirstIsLeast
    <2>2. FirstOf(old) \in 1..i - 1
      BY <1>4, <2>1
    <2>3. FirstOf(old) \in new /\ \A k \in new : FirstOf(old) <= k
      BY <1>2, <2>1, <2>2
    <2>4. FirstOf(new) = FirstOf(old) /\ new # {}
      BY <1>4, <2>3, LeastIsFirst
    <2>5. Known(candidates, now, i) = Known(candidates, now, i - 1)
      BY <1>5, <2>4, Zenon DEF Known, old, new
    <2>6. Known(candidates, now, i - 1).hit = FirstOf(old) /\ FirstOf(old) # 0
      BY <1>5, <2>2 DEF Known, old
    <2> QED
      BY <2>5, <2>6 DEF Visit
  <1>6. CASE old = {} /\ Qualifies(c, now)
    <2>1. new = {i}
      BY <1>2, <1>6
    <2>2. FirstOf(new) = i
      BY <1>4, <2>1, LeastIsFirst
    <2>3. Known(candidates, now, i) = [hit |-> i, seen |-> SeenIn(candidates, now, i - 1)]
      BY <2>1, <2>2 DEF Known, new
    <2>4. Known(candidates, now, i - 1) = [hit |-> 0, seen |-> SeenIn(candidates, now, i - 1)]
      BY <1>6 DEF Known, old
    <2> QED
      BY <1>6, <2>3, <2>4 DEF Visit
  <1>7. CASE old = {} /\ ~Qualifies(c, now)
    <2>1. new = {}
      BY <1>2, <1>7
    <2>2. Known(candidates, now, i) = [hit |-> 0, seen |-> SeenIn(candidates, now, i)]
      BY <2>1 DEF Known, new
    <2>3. Known(candidates, now, i - 1) = [hit |-> 0, seen |-> SeenIn(candidates, now, i - 1)]
      BY <1>7 DEF Known, old
    <2>4. /\ Known(candidates, now, i - 1).hit = 0
          /\ Known(candidates, now, i - 1).seen = SeenIn(candidates, now, i - 1)
      BY <2>3
    <2>5. Visit(Known(candidates, now, i - 1), i, c, now)
            = [hit |-> 0, seen |-> SeenIn(candidates, now, i - 1) \cup Seen(c, now)]
      BY <1>7, <2>4, Zenon DEF Visit
    <2> QED
      BY <1>3, <2>2, <2>5, Zenon
  <1> QED
    BY <1>5, <1>6, <1>7

(* The recursion has a solution, which is the walk.                          *)
LEMMA WalkUnfolds ==
  ASSUME NEW candidates, NEW now, Len(candidates) \in Nat
  PROVE  Walk(candidates, now) = WalkStep(candidates, now, Walk(candidates, now))
  <1> DEFINE n == Len(candidates)
             known == [i \in 0..n |-> Known(candidates, now, i)]
  <1>1. ASSUME NEW i \in 0..n
        PROVE  known[i] = WalkStep(candidates, now, known)[i]
    <2>1. CASE i = 0
      BY <2>1, KnownAtFirst DEF WalkStep
    <2>2. CASE i # 0
      <3>1. i \in Nat \ {0} /\ i - 1 \in 0..n
        BY <2>2
      <3>2. known[i] = Visit(known[i - 1], i, candidates[i], now)
        BY <3>1, KnownGrows
      <3> QED
        BY <2>2, <3>2, Zenon DEF WalkStep
    <2> QED
      BY <2>1, <2>2
  <1>2. known = [i \in 0..n |-> known[i]]
    BY Zenon
  <1> HIDE DEF known
  <1>3. WalkStep(candidates, now, known)
          = [i \in 0..n |-> WalkStep(candidates, now, known)[i]]
    BY DEF WalkStep
  <1>4. known = WalkStep(candidates, now, known)
    BY <1>1, <1>2, <1>3, Zenon
  <1> QED
    BY <1>4, Zenon DEF Walk

(* The walk knows just that: a first candidate where it does not would be    *)
(* one turn after a candidate where it does.                                 *)
LEMMA WalkKnows ==
  ASSUME NEW candidates, NEW now, Len(candidates) \in Nat,
         NEW i \in 0..Len(candidates)
  PROVE  Walk(candidates, now)[i] = Known(candidates, now, i)
  <1> DEFINE n == Len(candidates)
             Wrong == {j \in 0..n : Walk(candidates, now)[j] # Known(candidates, now, j)}
  <1>1. ASSUME NEW j \in 0..n
        PROVE  Walk(candidates, now)[j] =
                 IF j = 0 THEN [hit |-> 0, seen |-> {}]
                 ELSE Visit(Walk(candidates, now)[j - 1], j, candidates[j], now)
    <2>1. WalkStep(candidates, now, Walk(candidates, now))[j] =
                 IF j = 0 THEN [hit |-> 0, seen |-> {}]
                 ELSE Visit(Walk(candidates, now)[j - 1], j, candidates[j], now)
      BY Zenon DEF WalkStep
    <2> QED
      BY <2>1, WalkUnfolds
  <1>2. SUFFICES ASSUME Wrong # {} PROVE FALSE
    BY Zenon
  <1>3. Wrong \subseteq Nat
    BY SMT
  <1>4. PICK j \in Wrong : \A k \in Wrong : j <= k
    BY <1>2, <1>3, SmallestNumber
  <1>5. j \in 0..n /\ Walk(candidates, now)[j] # Known(candidates, now, j)
    OBVIOUS
  <1>6. j # 0
    BY <1>1, <1>5, KnownAtFirst
  <1>7. j \in Nat \ {0} /\ j - 1 \in 0..n /\ ~(j <= j - 1)
    BY <1>5, <1>6
  <1>8. j - 1 \notin Wrong
    BY <1>4, <1>7
  <1>9. Walk(candidates, now)[j - 1] = Known(candidates, now, j - 1)
    BY <1>7, <1>8
  <1>10. Walk(candidates, now)[j] = Visit(Known(candidates, now, j - 1), j, candidates[j], now)
    BY <1>1, <1>5, <1>6, <1>9
  <1> QED
    BY <1>5, <1>7, <1>10, KnownGrows

LEMMA ResolvesToKnown ==
  ASSUME NEW candidates, NEW now, Len(candidates) \in Nat
  PROVE  LET end == Known(candidates, now, Len(candidates))
         IN ResolveSal(candidates, now) =
              IF end.hit # 0 THEN <<"hit", end.hit>> ELSE <<"miss", Reason(end.seen)>>
  <1>1. Len(candidates) \in 0..Len(candidates)
    OBVIOUS
  <1> QED
    BY <1>1, ResolveWalks, WalkKnows, Zenon

(* resolve_sal reuses a load exactly if one qualifies, and then the first of *)
(* them in the order of the database, whatever and however many unusable     *)
(* loads the search meets before.                                            *)
THEOREM SearchMissesNothing ==
  ASSUME NEW Moments, NEW candidates \in Seq(Candidate(Moments)), NEW now
  PROVE  NothingIsMissed(candidates, now)
  <1> DEFINE n == Len(candidates)
             usable == UsableIn(candidates, now, n)
  <1>1. n \in Nat /\ DOMAIN candidates = 1..n
    OBVIOUS
  <1>2. usable = {i \in DOMAIN candidates : Qualifies(candidates[i], now)}
    BY <1>1, Zenon DEF UsableIn
  <1>3. CASE usable = {}
    <2>1. Known(candidates, now, n).hit = 0
      BY <1>3 DEF Known
    <2>2. ResolveSal(candidates, now) = <<"miss", Reason(Known(candidates, now, n).seen)>>
      BY <1>1, <2>1, ResolvesToKnown, Zenon
    <2> QED
      BY <1>2, <1>3, <2>2 DEF NothingIsMissed
  <1>4. CASE usable # {}
    <2>1. usable \subseteq Nat /\ 0 \notin usable
      BY <1>1 DEF UsableIn
    <2>2. FirstOf(usable) \in usable /\ FirstOf(usable) # 0
      BY <1>4, <2>1, FirstIsLeast, Zenon
    <2>3. Known(candidates, now, n).hit = FirstOf(usable)
      BY <1>4 DEF Known
    <2>4. ResolveSal(candidates, now) = <<"hit", FirstOf(usable)>>
      BY <1>1, <2>2, <2>3, ResolvesToKnown, Zenon
    <2>5. FirstOf(usable) = Min(usable)
      BY Zenon DEF FirstOf, Min
    <2> QED
      BY <1>2, <1>4, <2>4, <2>5, Zenon DEF NothingIsMissed
  <1> QED
    BY <1>3, <1>4

(* A load of the same freight that moved within the window and is not usable *)
(* leaves its reason.                                                        *)
LEMMA FreshLeavesReason ==
  ASSUME NEW Moments, NEW c \in Candidate(Moments), NEW now,
         c.moved # 0, c.same, Fresh(c, now), ~Qualifies(c, now)
  PROVE  Seen(c, now) \cap {"inactive", "missing"} # {}
  <1>1. c.carrier \in {"none", "active", "inactive"}
    BY DEF Candidate
  <1> QED
    BY <1>1 DEF Seen, Qualifies

(* "Too old" and "no movement" are said only of lists without such a reason. *)
LEMMA ReasonOfAge ==
  ASSUME NEW seen, Reason(seen) \in {"prior_movement_too_old", "no_prior_movement"},
         seen \cap {"inactive", "missing"} # {}
  PROVE  FALSE
  <1>1. CASE "inactive" \in seen
    <2>1. Reason(seen) = "prior_carrier_inactive"
      BY <1>1 DEF Reason
    <2> QED
      BY <2>1
  <1>2. CASE "inactive" \notin seen /\ "missing" \in seen
    <2>1. Reason(seen) = "prior_rate_missing"
      BY <1>2 DEF Reason
    <2> QED
      BY <2>1
  <1> QED
    BY <1>1, <1>2

(* resolve_sal says "too old" or "no movement" only if no load of this       *)
(* freight moved within the window, however long the list.                   *)
THEOREM SearchReasonIsTrue ==
  ASSUME NEW Moments, NEW candidates \in Seq(Candidate(Moments)), NEW now
  PROVE  ReasonIsTrue(candidates, now)
  <1> DEFINE n == Len(candidates)
             end == Known(candidates, now, n)
             Ages == {"prior_movement_too_old", "no_prior_movement"}
  <1>1. n \in Nat /\ DOMAIN candidates = 1..n
    OBVIOUS
  <1>2. SUFFICES ASSUME ResolveSal(candidates, now) \in {"miss"} \X Ages,
                        NEW i \in 1..n,
                        candidates[i].moved # 0, candidates[i].same,
                        Fresh(candidates[i], now)
                 PROVE  FALSE
    BY <1>1, Zenon DEF ReasonIsTrue
  <1>3. end.hit = 0 /\ Reason(end.seen) \in Ages
    <2>1. ResolveSal(candidates, now) =
            IF end.hit # 0 THEN <<"hit", end.hit>> ELSE <<"miss", Reason(end.seen)>>
      BY <1>1, ResolvesToKnown, Zenon
    <2>2. ResolveSal(candidates, now)[1] = "miss" /\ ResolveSal(candidates, now)[2] \in Ages
      BY <1>2
    <2> HIDE DEF end, Ages
    <2> QED
      BY <2>1, <2>2
  <1>4. UsableIn(candidates, now, n) = {}
    <2>1. SUFFICES ASSUME UsableIn(candidates, now, n) # {} PROVE FALSE
      BY Zenon
    <2>2. UsableIn(candidates, now, n) \subseteq Nat \ {0}
      BY <1>1 DEF UsableIn
    <2>3. FirstOf(UsableIn(candidates, now, n)) # 0
      BY <2>1, <2>2, FirstIsLeast
    <2> QED
      BY <1>3, <2>1, <2>3 DEF Known
  <1>5. end.seen = SeenIn(candidates, now, n) /\ ~Qualifies(candidates[i], now)
    BY <1>4 DEF Known, UsableIn
  <1>6. candidates[i] \in Candidate(Moments)
    BY <1>1
  <1>7. Seen(candidates[i], now) \cap {"inactive", "missing"} # {}
    BY <1>2, <1>5, <1>6, FreshLeavesReason
  <1>8. Seen(candidates[i], now) \subseteq end.seen
    BY <1>5, Zenon DEF SeenIn
  <1> HIDE DEF end
  <1>9. end.seen \cap {"inactive", "missing"} # {}
    BY <1>7, <1>8
  <1> QED
    BY <1>3, <1>9, ReasonOfAge
=============================================================================
