----------------------------- MODULE CrmSyncProofs -----------------------------
(***************************************************************************)
(* Proofs about CrmSync, for any number of contacts and calls: types, the  *)
(* uniqueness of leads, the archive flag, the two watermarks, and what a   *)
(* run that reports success has read: its work, its seam and its census.   *)
(***************************************************************************)
EXTENDS CrmSync, TLAPS, WellFoundedInduction, FiniteSetTheorems

-----------------------------------------------------------------------------
(***************************************************************************)
(* Greatest and least elements.  Induction is replaced by the search for a *)
(* smallest counterexample: < is well founded on the naturals.             *)
(***************************************************************************)

(* A non-empty set of naturals has a least element.                         *)
LEMMA LeastNatural ==
  ASSUME NEW T, T \subseteq Nat, T # {}
  PROVE  \E x \in T : \A y \in T : x <= y
<1> DEFINE R == {pair \in Nat \X Nat : pair[1] < pair[2]}
<1>1. IsWellFoundedOn(R, Nat)
  BY NatLessThanWellFounded DEF OpToRel
<1> HIDE DEF R
<1>2. PICK x \in T : \A y \in T : <<y, x>> \notin R
  BY <1>1, WFMin
<1>3. ASSUME NEW y \in T PROVE x <= y
  <2>1. x \in Nat /\ y \in Nat
    OBVIOUS
  <2>2. ~(y < x)
    BY <1>2, <2>1 DEF R
  <2> QED BY <2>1, <2>2
<1> QED BY <1>3

(* A non-empty finite set of naturals has a greatest element: of the        *)
(* subsets without one, a smallest would lose any of its elements.          *)
LEMMA GreatestNatural ==
  ASSUME NEW S, S \subseteq Nat, S # {}, IsFiniteSet(S)
  PROVE  \E x \in S : \A y \in S : x >= y
<1> DEFINE HasMax(U) == \E x \in U : \A y \in U : x >= y
           Bad == {U \in SUBSET S : U # {} /\ ~HasMax(U)}
           Sizes == {Cardinality(U) : U \in Bad}
<1>1. SUFFICES ASSUME Bad # {} PROVE FALSE
  OBVIOUS
<1>2. \A U \in SUBSET S : IsFiniteSet(U) /\ Cardinality(U) \in Nat
  BY FS_Subset, FS_CardinalityType
<1>3. Sizes \subseteq Nat /\ Sizes # {}
  BY <1>1, <1>2
<1>4. PICK n \in Sizes : \A m \in Sizes : n <= m
  <2> HIDE DEF Sizes
  <2> QED BY <1>3, LeastNatural
<1>5. PICK U \in Bad : n = Cardinality(U)
  OBVIOUS
<1>6. PICK x \in U : TRUE
  BY <1>5
<1> DEFINE W == U \ {x}
<1>7. Cardinality(W) < n /\ Cardinality(W) \in Nat /\ W \in SUBSET S
  BY <1>2, <1>5, <1>6, FS_RemoveElement
<1>8. W \notin Bad
  <2>1. SUFFICES ASSUME W \in Bad PROVE FALSE
    OBVIOUS
  <2>2. Cardinality(W) \in Sizes
    BY <2>1
  <2> QED BY <1>3, <1>4, <1>7, <2>2
<1>9. CASE W = {}
  <2>1. U = {x}
    BY <1>6, <1>9
  <2> QED BY <1>5, <1>6, <2>1
<1>10. CASE W # {}
  <2>1. PICK w \in W : \A y \in W : w >= y
    BY <1>7, <1>8, <1>10
  <2>2. w \in Nat /\ x \in Nat /\ U \subseteq Nat
    BY <1>5, <1>6, <1>7
  <2>3. CASE w >= x
    BY <1>5, <2>1, <2>2, <2>3
  <2>4. CASE x >= w
    BY <1>5, <1>6, <2>1, <2>2, <2>4
  <2> QED BY <2>2, <2>3, <2>4
<1> QED BY <1>9, <1>10

(* The image of a finite set is finite.                                     *)
LEMMA TimesAreFinite ==
  ASSUME NEW ds, IsFiniteSet(ds)
  PROVE  IsFiniteSet({d.at : d \in ds})
<1> DEFINE f == [d \in ds |-> d.at]
<1>1. f \in Surjection(ds, {d.at : d \in ds})
  BY DEF Surjection
<1> QED BY <1>1, FS_Surjection

LEMMA DtosAreFinite ==
  ASSUME NEW C \in SUBSET Contacts
  PROVE  IsFiniteSet({Dto(c) : c \in C})
<1> DEFINE f == [c \in C |-> Dto(c)]
<1>1. IsFiniteSet(C)
  BY FiniteAssumption, FS_Subset
<1>2. f \in Surjection(C, {Dto(c) : c \in C})
  BY DEF Surjection
<1> QED BY <1>1, <1>2, FS_Surjection

(* The watermark of a page is the time of its last contact.                 *)
LEMMA BatchEndIsLast ==
  ASSUME NEW ds \in SUBSET Version, IsFiniteSet(ds), ds # {}
  PROVE  /\ BatchEnd(ds) \in Nat
         /\ \E d \in ds : BatchEnd(ds) = d.at
         /\ \A d \in ds : d.at <= BatchEnd(ds)
<1> DEFINE S == {d.at : d \in ds}
<1>1. S \subseteq Nat /\ S # {} /\ IsFiniteSet(S)
  BY TimesAreFinite DEF Version
<1>2. \E x \in S : \A y \in S : x >= y
  <2> HIDE DEF S
  <2> QED BY <1>1, GreatestNatural
<1>3. Max(S) \in S /\ \A y \in S : Max(S) >= y
  BY <1>2 DEF Max
<1> QED BY <1>1, <1>3 DEF BatchEnd

LEMMA OldestIsNatural ==
  ASSUME NEW ds \in SUBSET Version, ds # {}
  PROVE  /\ Min({d.at : d \in ds}) \in Nat
         /\ \A d \in ds : Min({e.at : e \in ds}) <= d.at
<1> DEFINE S == {d.at : d \in ds}
<1>1. S \subseteq Nat /\ S # {}
  BY DEF Version
<1>2. \E x \in S : \A y \in S : x <= y
  <2> HIDE DEF S
  <2> QED BY <1>1, LeastNatural
<1>3. Min(S) \in S /\ \A y \in S : Min(S) =< y
  BY <1>2 DEF Min
<1> QED BY <1>1, <1>3

-----------------------------------------------------------------------------
(***************************************************************************)
(* Types.  TypeOK types the plans; the session's bookkeeping is typed here.*)
(***************************************************************************)
PlanRows == [id : Contacts, new : BOOLEAN,
             row : [at : Nat, active : BOOLEAN, flag : BOOLEAN]]

Session == [pc : Fallible \cup {"idle", "failing"},
            mode : {"catch_up", "full_import"}, phase : {"only", "boot", "catch"},
            cursor : Nat, end : Nat, started : Nat, oldest : Nat \cup {-1},
            gap : BOOLEAN, more : BOOLEAN, first : BOOLEAN, held : BOOLEAN,
            page : SUBSET (Version \cup Calls), work : Work]

(* The page holds contacts or calls, depending on where the session is.     *)
PageOK(s) ==
  /\ s.pc \in {"fetched", "page"} =>
       s.page \in SUBSET Version /\ s.page # {} /\ IsFiniteSet(s.page)
  /\ s.pc \in {"window", "batch"} => s.page \in SUBSET Calls

SessionOK == sync \in Session /\ PageOK(sync)

TypeInv ==
  /\ TypeOK
  /\ SessionOK
  /\ hook \in [pc : {"idle", "begun"}, work : Work]

LEMMA BoundsTyped ==
  /\ Lookback \in Nat \ {0} /\ ApiLookback \in Nat /\ CallDays \in Nat
  /\ Overlap \in Nat /\ Skew \in Nat /\ MaxTime \in Nat /\ MaxFaults \in Nat
  /\ MaxEdits \in Nat /\ BackfillFloor \in Nat \cup {-1} /\ PageSize \in Nat \ {0}
BY BoundAssumption

LEMMA NoWorkTyped == NoWork \in Work
BY DEF NoWork, Work

(* What is planned from well-typed contacts is well typed.                  *)
LEMMA LeadPlanTyped ==
  ASSUME TypeOK, NEW ds \in SUBSET Version
  PROVE  LeadPlan(ds) \in SUBSET PlanRows
<1> SUFFICES ASSUME NEW d \in ds
             PROVE  [id |-> d.id, new |-> lead[d.id].copies = 0, row |-> LeadValues(d)]
                      \in PlanRows
  BY DEF LeadPlan
<1> QED BY DEF PlanRows, LeadValues, TypeOK, Version

LEMMA DtoTyped ==
  ASSUME TypeOK, NEW c \in Contacts
  PROVE  Dto(c) \in Version /\ Dto(c).id = c /\ Dto(c).at = contact[c].at
         /\ Dto(c).deleted = contact[c].deleted
BY DEF Dto, Version, TypeOK

(* A conflict dooms a plan and changes nothing else of it.                  *)
LEMMA HitTyped ==
  ASSUME NEW w \in Work, NEW rows
  PROVE  /\ Hit(w, rows) \in Work
         /\ Hit(w, rows).plan = w.plan
         /\ Hit(w, rows).failed = w.failed
         /\ Hit(w, rows).events = w.events
         /\ Hit(w, rows).buffer = w.buffer
         /\ Hit(w, rows).resolved = w.resolved
         /\ ~Hit(w, rows).doomed => ~w.doomed /\ Rows(w) \cap rows = {}
BY DEF Hit, Work

LEMMA LeadAfterTyped ==
  ASSUME TypeOK, NEW plan \in SUBSET PlanRows, NEW c \in Contacts
  PROVE  LeadAfter(c, plan) \in [copies : Nat, at : Nat, active : BOOLEAN, flag : BOOLEAN]
<1>1. CASE c \in Planned(plan)
  <2>1. PICK p \in plan : p.id = c /\ p = CHOOSE q \in plan : q.id = c
    BY <1>1 DEF Planned
  <2>2. p \in PlanRows
    OBVIOUS
  <2> QED BY <1>1, <2>1, <2>2 DEF LeadAfter, PlanRows, TypeOK
<1>2. CASE c \notin Planned(plan)
  BY <1>2 DEF LeadAfter, TypeOK
<1> QED BY <1>1, <1>2

(* A write keeps the database well typed.                                   *)
LEMMA WriteTyped ==
  ASSUME TypeOK, NEW w \in Work, Write(w)
  PROVE  /\ lead' \in [Contacts -> [copies : Nat, at : Nat, active : BOOLEAN, flag : BOOLEAN]]
         /\ ref' \subseteq Contacts
         /\ event' \subseteq Calls
         /\ orphans' \subseteq Calls
<1>1. w.plan \in SUBSET PlanRows /\ w.events \in SUBSET Calls
      /\ w.buffer \in SUBSET Calls /\ w.resolved \in SUBSET Calls
  BY DEF Work, PlanRows
<1>2. \A c \in Contacts : LeadAfter(c, w.plan)
        \in [copies : Nat, at : Nat, active : BOOLEAN, flag : BOOLEAN]
  BY <1>1, LeadAfterTyped
<1>3. Planned(w.plan) \subseteq Contacts
  BY <1>1 DEF Planned, PlanRows
<1> QED BY <1>1, <1>2, <1>3 DEF Write, TypeOK

LEMMA CallPlanTyped ==
  ASSUME TypeOK, NEW ks \in SUBSET Calls, NEW plan \in SUBSET PlanRows
  PROVE  CallPlan(ks, plan) \in Work
BY DEF CallPlan, NoWork, Work, PlanRows, TypeOK

(* The cursors of the phases are natural numbers.                           *)
LEMMA CallStartTyped ==
  ASSUME TypeOK, NEW s \in Session
  PROVE  CallStart(s) \in Nat
<1> USE BoundsTyped DEF CallStart, TypeOK, Session, Later
<1>1. CASE s.phase = "boot"
  BY <1>1
<1>2. CASE s.phase = "catch"
  BY <1>2
<1>3. CASE s.phase = "only"
  BY <1>3
<1> QED BY <1>1, <1>2, <1>3

LEMMA ContactStartTyped ==
  ASSUME TypeOK
  PROVE  ContactStart \in Nat
BY BoundsTyped DEF ContactStart, Later, TypeOK

LEMMA BeginCallsTyped ==
  ASSUME TypeOK, NEW s \in Session
  PROVE  /\ BeginCalls(s) \in Session
         /\ BeginCalls(s).pc = "calls" /\ BeginCalls(s).work = NoWork
<1>1. CallStart(s) \in Nat
  BY CallStartTyped
<1>2. CensusGap(s) \in BOOLEAN
  BY DEF CensusGap
<1> QED BY <1>1, <1>2, NoWorkTyped DEF BeginCalls, Session, TypeOK, Fallible

LEMMA AfterPageTyped ==
  ASSUME TypeOK, NEW s \in Session, s.pc = "page", PageOK(s)
  PROVE  AfterPage(s) \in Session /\ PageOK(AfterPage(s)) /\ AfterPage(s).work = NoWork
<1>1. BatchEnd(s.page) \in Nat
  BY BatchEndIsLast DEF PageOK
<1>2. BeginCalls(s) \in Session /\ PageOK(BeginCalls(s)) /\ BeginCalls(s).work = NoWork
  BY BeginCallsTyped DEF PageOK
<1>3. CASE s.more
  BY <1>1, <1>3, NoWorkTyped DEF AfterPage, Session, PageOK, Fallible
<1>4. CASE ~s.more
  BY <1>2, <1>4 DEF AfterPage
<1> QED BY <1>3, <1>4 DEF Session

LEMMA PagePlanTyped ==
  ASSUME TypeOK, NEW s \in Session, s.page \in SUBSET Version, s.page # {},
         IsFiniteSet(s.page), NEW t \in PagePlan(s)
  PROVE  t \in Session /\ PageOK(t)
<1>1. PICK refused \in Refusals(s.page) :
        t = [s EXCEPT !.pc = "page", !.work.plan = LeadPlan(s.page \ refused),
                      !.work.failed = refused]
  BY DEF PagePlan
<1>2. LeadPlan(s.page \ refused) \in SUBSET PlanRows /\ refused \in SUBSET Version
  BY LeadPlanTyped DEF Refusals
<1>3. s.work \in Work
  BY DEF Session
<1>4. [s.work EXCEPT !.plan = LeadPlan(s.page \ refused), !.failed = refused] \in Work
  BY <1>2, <1>3 DEF Work, PlanRows
<1> QED BY <1>1, <1>4 DEF Session, PageOK, Fallible

LEMMA InitTyped == Init => TypeInv
<1> SUFFICES ASSUME Init PROVE TypeInv
  OBVIOUS
<1>1. TypeOK
  <2>1. lead \in [Contacts -> [copies : Nat, at : Nat, active : BOOLEAN, flag : BOOLEAN]]
    BY LegacyAssumption DEF Init
  <2>2. sync.work \in Work /\ hook.work \in Work /\ sync.pc = "idle"
    BY NoWorkTyped DEF Init, Idle, NoHook
  <2>3. contact \in [Contacts -> [at : Nat, deleted : BOOLEAN]]
        /\ call \in [Calls -> [at : Nat, real : Nat]]
    BY DEF Init
  <2> QED BY <2>1, <2>2, <2>3 DEF Init, TypeOK
<1>2. SessionOK
  BY NoWorkTyped DEF Init, SessionOK, Session, PageOK, Idle
<1>3. hook \in [pc : {"idle", "begun"}, work : Work]
  BY NoWorkTyped DEF Init, NoHook
<1> QED BY <1>1, <1>2, <1>3 DEF TypeInv

(* The database and the provider, apart from the sessions.                  *)
Tables ==
  /\ now \in Nat
  /\ contact \in [Contacts -> [at : Nat, deleted : BOOLEAN]]
  /\ call \in [Calls -> [at : Nat, real : Nat]]
  /\ clamps \in BOOLEAN
  /\ lead \in [Contacts -> [copies : Nat, at : Nat, active : BOOLEAN, flag : BOOLEAN]]
  /\ ref \subseteq Contacts /\ event \subseteq Calls /\ orphans \subseteq Calls
  /\ contactMark \in Nat /\ callMark \in Nat
  /\ run \in {"none", "running", "success", "partial", "failed"}
  /\ faults \in Nat /\ edits \in Nat
  /\ userArchived \subseteq Contacts
  /\ failed \subseteq Version

HookOK == hook \in [pc : {"idle", "begun"}, work : Work]

LEMMA TypeParts == TypeInv <=> Tables /\ SessionOK /\ HookOK
BY DEF TypeInv, TypeOK, Tables, SessionOK, Session, HookOK

LEMMA TypePartsNext == TypeInv' <=> Tables' /\ SessionOK' /\ HookOK'
BY DEF TypeInv, TypeOK, Tables, SessionOK, Session, HookOK

(* A step of the session that leaves the database alone.                    *)
LEMMA QuietTyped ==
  ASSUME TypeInv, sync' \in Session, PageOK(sync'),
         UNCHANGED <<provider, db, marks, hook, edits, userArchived, failed>>,
         now' = now, faults' \in Nat,
         run' \in {"none", "running", "success", "partial", "failed"}
  PROVE  TypeInv'
BY TypeParts, TypePartsNext DEF Tables, SessionOK, HookOK, provider, db, marks

LEMMA FetchPageTyped ==
  ASSUME TypeInv, FetchPage
  PROVE  TypeInv'
<1> DEFINE ds == {Dto(c) : c \in Page}
           s == [sync EXCEPT !.page = ds, !.more = Page # Unread,
                             !.oldest = IF sync.oldest >= 0 \/ ds = {} THEN sync.oldest
                                        ELSE Min({d.at : d \in ds})]
<1> USE DEF TypeInv, SessionOK
<1>1. Page \in SUBSET Contacts
  BY DEF Page, Unread
<1>2. ds \in SUBSET Version /\ IsFiniteSet(ds)
  BY <1>1, DtoTyped, DtosAreFinite
<1>3. (IF sync.oldest >= 0 \/ ds = {} THEN sync.oldest
       ELSE Min({d.at : d \in ds})) \in Nat \cup {-1}
  BY <1>2, OldestIsNatural DEF Session
<1>4. s \in Session
  <2> HIDE DEF ds
  <2> QED BY <1>2, <1>3 DEF Session
<1>5. ds # {} => s.page = ds
  BY DEF Session
<1>6. CASE ds = {}
  <2>1. sync' = BeginCalls(sync)
    BY <1>6 DEF FetchPage
  <2>2. PageOK(sync') /\ sync' \in Session
    BY <2>1, BeginCallsTyped DEF PageOK
  <2> QED BY <2>2, QuietTyped DEF FetchPage, TypeOK
<1>7. CASE ds # {} /\ sync.first
  <2>1. sync' \in PagePlan(s)
    BY <1>7 DEF FetchPage
  <2>2. PageOK(sync') /\ sync' \in Session
    <3> HIDE DEF ds, s
    <3> QED BY <1>2, <1>4, <1>5, <1>7, <2>1, PagePlanTyped
  <2> QED BY <2>2, QuietTyped DEF FetchPage, TypeOK
<1>8. CASE ds # {} /\ ~sync.first
  <2>1. sync' = [s EXCEPT !.pc = "fetched"]
    BY <1>8 DEF FetchPage
  <2>2. PageOK(sync') /\ sync' \in Session
    <3> HIDE DEF ds, s
    <3> QED BY <1>2, <1>4, <1>5, <1>8, <2>1 DEF Session, PageOK, Fallible
  <2> QED BY <2>2, QuietTyped DEF FetchPage, TypeOK
<1> QED BY <1>6, <1>7, <1>8

LEMMA IdleTyped == Idle \in Session /\ PageOK(Idle)
BY NoWorkTyped DEF Idle, Session, PageOK

LEMMA StartTyped ==
  ASSUME TypeInv, NEW mode \in Modes, Start(mode)
  PROVE  TypeInv'
<1>1. ContactStart \in Nat /\ now \in Nat
  BY ContactStartTyped DEF TypeInv, TypeOK
<1>2. sync' \in Session /\ PageOK(sync')
  BY <1>1, IdleTyped DEF Start, Modes, Session, PageOK, Fallible
<1> QED BY <1>2, QuietTyped DEF Start, TypeInv, TypeOK

LEMMA SessionStepTyped ==
  ASSUME TypeInv,
         UpsertPage \/ FetchWindow \/ UpsertBatch \/ EndCalls \/ ResolveOrphans
           \/ Fail \/ PersistFailure \/ Crash
  PROVE  TypeInv'
<1> USE DEF TypeInv, SessionOK
<1>1. CASE UpsertPage
  <2>1. sync' \in Session /\ PageOK(sync')
    BY <1>1, PagePlanTyped DEF UpsertPage, PageOK
  <2> QED BY <1>1, <2>1, QuietTyped DEF UpsertPage, TypeOK
<1>2. CASE FetchWindow
  <2> DEFINE s == [sync EXCEPT !.page = Window]
  <2>1. Window \in SUBSET Calls
    BY DEF Window
  <2>2. CallPlan(Window, {}) \in Work
    BY <2>1, CallPlanTyped
  <2>3. s \in Session /\ s.page = Window
    BY <2>1 DEF Session
  <2>4. BatchPlan(s) \in Session /\ PageOK(BatchPlan(s))
    BY <2>1, <2>2, <2>3 DEF BatchPlan, Session, PageOK, Fallible
  <2>5. [s EXCEPT !.pc = "mark"] \in Session /\ PageOK([s EXCEPT !.pc = "mark"])
        /\ [s EXCEPT !.pc = "window"] \in Session /\ PageOK([s EXCEPT !.pc = "window"])
    BY <2>1, <2>3 DEF Session, PageOK, Fallible
  <2>6. sync' \in Session /\ PageOK(sync')
    <3>1. sync' = [s EXCEPT !.pc = "mark"] \/ sync' = [s EXCEPT !.pc = "window"]
          \/ sync' = BatchPlan(s)
      BY <1>2 DEF FetchWindow
    <3> HIDE DEF s
    <3> QED BY <2>4, <2>5, <3>1
  <2> QED BY <1>2, <2>6, QuietTyped DEF FetchWindow, TypeOK
<1>3. CASE UpsertBatch
  <2>1. sync.page \in SUBSET Calls
    BY <1>3 DEF UpsertBatch, PageOK
  <2>2. CallPlan(sync.page, {}) \in Work
    BY <2>1, CallPlanTyped
  <2>3. sync' \in Session /\ PageOK(sync')
    BY <1>3, <2>1, <2>2 DEF UpsertBatch, BatchPlan, Session, PageOK, Fallible
  <2> QED BY <1>3, <2>3, QuietTyped DEF UpsertBatch, TypeOK
<1>4. CASE EndCalls
  <2>1. ContactStart \in Nat
    BY ContactStartTyped
  <2>2. sync' \in Session /\ PageOK(sync')
    BY <1>4, <2>1 DEF EndCalls, Session, PageOK, Fallible
  <2> QED BY <1>4, <2>2, QuietTyped DEF EndCalls, TypeOK
<1>5. CASE ResolveOrphans
  <2>1. Resolvable({}) \in SUBSET Calls
    BY DEF Resolvable, TypeOK
  <2>2. [sync.work EXCEPT !.resolved = Resolvable({})] \in Work
    BY <2>1 DEF Session, Work
  <2>3. sync' \in Session /\ PageOK(sync')
    BY <1>5, <2>2 DEF ResolveOrphans, Session, PageOK, Fallible
  <2> QED BY <1>5, <2>3, QuietTyped DEF ResolveOrphans, TypeOK
<1>6. CASE Fail
  <2>1. sync' \in Session /\ PageOK(sync')
    BY <1>6, IdleTyped DEF Fail, RolledBack, Session, PageOK, Fallible
  <2> QED BY <1>6, <2>1, QuietTyped DEF Fail, TypeOK
<1>7. CASE PersistFailure
  BY <1>7, IdleTyped, QuietTyped DEF PersistFailure, TypeOK
<1>8. CASE Crash
  BY <1>8, IdleTyped, QuietTyped DEF Crash, TypeOK
<1> QED BY <1>1, <1>2, <1>3, <1>4, <1>5, <1>6, <1>7, <1>8

LEMMA AdvanceCallsTyped ==
  ASSUME TypeInv, AdvanceCalls
  PROVE  TypeInv'
<1>1. WindowEnd \in Nat /\ Marked(sync) \in Nat
  BY DEF WindowEnd, Marked, Earlier, TypeInv, SessionOK, Session
<1>2. sync' \in Session /\ PageOK(sync') /\ callMark' \in Nat
  BY <1>1 DEF AdvanceCalls, Forward, Later, TypeInv, TypeOK, SessionOK, Session,
              PageOK, Fallible
<1> QED BY <1>2, TypeParts, TypePartsNext
        DEF AdvanceCalls, Tables, SessionOK, HookOK, provider, db

(* A step of the session that writes.                                       *)
LEMMA SessionWriteTyped ==
  ASSUME TypeInv, Write(sync.work), sync' \in Session, PageOK(sync'),
         UNCHANGED <<provider, callMark, faults, edits, userArchived>>,
         now' = now, contactMark' \in Nat, failed' \subseteq Version,
         run' \in {"none", "running", "success", "partial", "failed"},
         hook' = [hook EXCEPT !.work = Hit(@, Rows(sync.work))]
  PROVE  TypeInv'
<1>1. sync.work \in Work /\ hook.work \in Work /\ TypeOK
  BY DEF TypeInv, SessionOK, Session
<1>2. Hit(hook.work, Rows(sync.work)) \in Work
  BY <1>1, HitTyped
<1>3. HookOK'
  BY <1>2 DEF TypeInv, HookOK
<1>4. Tables'
  BY <1>1, WriteTyped, TypeParts DEF Tables, provider
<1> QED BY <1>3, <1>4, TypePartsNext DEF SessionOK

LEMMA CommitTyped ==
  ASSUME TypeInv, CommitPage \/ CommitBatch \/ Finish
  PROVE  TypeInv'
<1> USE DEF TypeInv, SessionOK
<1>1. CASE CommitPage
  <2>1. sync' \in Session /\ PageOK(sync')
    BY <1>1, AfterPageTyped DEF CommitPage
  <2>2. BatchEnd(sync.page) \in Nat
    BY <1>1, BatchEndIsLast DEF CommitPage, PageOK
  <2>3. contactMark' \in Nat
    BY <1>1, <2>2 DEF CommitPage, Forward, Later, TypeOK
  <2>4. failed' \subseteq Version
    BY <1>1 DEF CommitPage, TypeOK, Session, Work
  <2> QED BY <1>1, <2>1, <2>3, <2>4, SessionWriteTyped DEF CommitPage, TypeOK
<1>2. CASE CommitBatch
  <2>1. sync' \in Session /\ PageOK(sync')
    BY <1>2, NoWorkTyped DEF CommitBatch, Session, PageOK, Fallible
  <2> QED BY <1>2, <2>1, SessionWriteTyped DEF CommitBatch, marks, TypeOK
<1>3. CASE Finish
  <2>1. run' \in {"none", "running", "success", "partial", "failed"}
    BY <1>3 DEF Finish, Verdict
  <2> QED BY <1>3, <2>1, IdleTyped, SessionWriteTyped DEF Finish, marks, TypeOK
<1> QED BY <1>1, <1>2, <1>3

(* A conflict leaves the other session's bookkeeping as it is.              *)
LEMMA HitSession ==
  ASSUME SessionOK, NEW rows, sync' = [sync EXCEPT !.work = Hit(@, rows)]
  PROVE  /\ SessionOK'
         /\ sync'.work = Hit(sync.work, rows)
         /\ sync'.pc = sync.pc /\ sync'.page = sync.page /\ sync'.phase = sync.phase
         /\ sync'.cursor = sync.cursor /\ sync'.end = sync.end
         /\ sync'.started = sync.started
<1>1. sync.work \in Work
  BY DEF SessionOK, Session
<1>2. Hit(sync.work, rows) \in Work
  BY <1>1, HitTyped
<1> QED BY <1>2 DEF SessionOK, Session, PageOK

LEMMA HookTyped ==
  ASSUME TypeInv,
         \/ \E c \in Contacts : BeginHook(c)
         \/ CommitHook \/ AbortHook
  PROVE  TypeInv'
<1> USE DEF TypeInv
<1>1. ASSUME NEW c \in Contacts, BeginHook(c)
      PROVE  TypeInv'
  <2>1. PICK refused \in Refusals({Dto(c)}) :
          hook' = [pc |-> "begun", work |-> HookWork(c, refused)]
    BY <1>1 DEF BeginHook
  <2> DEFINE plan == LeadPlan({Dto(c)} \ refused)
             calls == IF Ambiguous(c) \/ refused # {} THEN {} ELSE CallsOf(c)
  <2>2. plan \in SUBSET PlanRows
    <3>1. {Dto(c)} \ refused \in SUBSET Version
      BY DtoTyped
    <3> QED BY <3>1, LeadPlanTyped
  <2>3. calls \in SUBSET Calls
    BY DEF CallsOf
  <2>4. CallPlan(calls, plan) \in Work
    <3> HIDE DEF calls, plan
    <3> QED BY <2>2, <2>3, CallPlanTyped
  <2>5. Resolvable(plan) \in SUBSET Calls
    BY DEF Resolvable, TypeOK
  <2>6. HookWork(c, refused) \in Work
    <3>1. HookWork(c, refused) = [CallPlan(calls, plan) EXCEPT !.resolved = Resolvable(plan)]
      BY DEF HookWork
    <3> HIDE DEF calls, plan
    <3> QED BY <2>4, <2>5, <3>1 DEF Work
  <2>7. HookOK'
    BY <2>1, <2>6 DEF HookOK
  <2> QED BY <1>1, <2>7, TypeParts, TypePartsNext
          DEF BeginHook, Tables, SessionOK, provider, db, marks
<1>2. CASE CommitHook
  <2>1. SessionOK'
    BY <1>2, HitSession DEF CommitHook
  <2>2. HookOK'
    BY <1>2, NoWorkTyped DEF CommitHook, HookOK, NoHook
  <2>3. Tables'
    BY <1>2, WriteTyped, TypeParts DEF CommitHook, Tables, HookOK, provider, marks
  <2> QED BY <2>1, <2>2, <2>3, TypePartsNext
<1>3. CASE AbortHook
  <2>1. HookOK'
    BY <1>3, NoWorkTyped DEF AbortHook, HookOK, NoHook
  <2> QED BY <1>3, <2>1, TypeParts, TypePartsNext
          DEF AbortHook, Tables, SessionOK, provider, db, marks
<1> QED BY <1>1, <1>2, <1>3

LEMMA EnvironmentTyped ==
  ASSUME TypeInv,
         \/ \E c \in Contacts : Modify(c)
         \/ \E k \in Calls : RecordCall(k)
         \/ Tick
         \/ \E c \in Contacts, on \in BOOLEAN : SetActive(c, on)
  PROVE  TypeInv'
<1>1. ASSUME NEW c \in Contacts, Modify(c)
      PROVE  TypeInv'
  <2>1. PICK deleted \in BOOLEAN :
          contact' = [contact EXCEPT ![c] = [at |-> now + 1, deleted |-> deleted]]
    BY <1>1 DEF Modify
  <2>2. contact' \in [Contacts -> [at : Nat, deleted : BOOLEAN]] /\ now' \in Nat
    BY <1>1, <2>1, TypeParts DEF Modify, Tables
  <2> QED BY <1>1, <2>2, TypeParts, TypePartsNext
          DEF Modify, Tables, SessionOK, HookOK, db, marks
<1>2. ASSUME NEW k \in Calls, RecordCall(k)
      PROVE  TypeInv'
  <2>1. PICK lag \in 0..Skew : call' = [call EXCEPT ![k] = [at |-> Later(0, now - lag), real |-> now]]
    BY <1>2 DEF RecordCall
  <2>2. Later(0, now - lag) \in Nat
    BY BoundsTyped, TypeParts DEF Later, Tables
  <2>3. call' \in [Calls -> [at : Nat, real : Nat]]
    BY <2>1, <2>2, TypeParts DEF Tables
  <2> QED BY <1>2, <2>3, TypeParts, TypePartsNext
          DEF RecordCall, Tables, SessionOK, HookOK, db, marks
<1>3. CASE Tick
  BY <1>3, TypeParts, TypePartsNext DEF Tick, Tables, SessionOK, HookOK, provider, db, marks
<1>4. ASSUME NEW c \in Contacts, NEW on \in BOOLEAN, SetActive(c, on)
      PROVE  TypeInv'
  <2>1. SessionOK'
    BY <1>4, HitSession, TypeParts DEF SetActive
  <2>2. HookOK'
    BY <1>4, HitTyped, TypeParts DEF SetActive, HookOK
  <2>3. Tables'
    BY <1>4, TypeParts DEF SetActive, Tables, provider, marks
  <2> QED BY <2>1, <2>2, <2>3, TypePartsNext
<1> QED BY <1>1, <1>2, <1>3, <1>4

LEMMA StutterTyped ==
  ASSUME TypeInv, UNCHANGED vars
  PROVE  TypeInv'
BY DEF vars, TypeInv, TypeOK, SessionOK, PageOK

LEMMA NextTyped == TypeInv /\ [Next]_vars => TypeInv'
<1> SUFFICES ASSUME TypeInv, [Next]_vars PROVE TypeInv'
  OBVIOUS
<1>1. CASE SyncStep
  BY <1>1, FetchPageTyped, CommitTyped, SessionStepTyped, AdvanceCallsTyped DEF SyncStep
<1>2. CASE ~SyncStep /\ Next
  BY <1>2, StartTyped, SessionStepTyped, HookTyped, EnvironmentTyped DEF Next
<1> QED BY <1>1, <1>2, StutterTyped

(* The type invariant holds in every reachable state, the plans, pages and  *)
(* cursors of the sessions included.                                        *)
THEOREM Typing == Spec => []TypeOK
<1>1. Spec => []TypeInv
  BY InitTyped, NextTyped, PTL DEF Spec
<1>2. TypeInv => TypeOK
  BY DEF TypeInv
<1> QED BY <1>1, <1>2, PTL

-----------------------------------------------------------------------------
(***************************************************************************)
(* What the steps do to plans.  A step writes a plan that is not doomed,   *)
(* plans anew from the present database, or leaves the plans alone.        *)
(***************************************************************************)

(* Writing a plan changes the leads it names and no other.                  *)
LEMMA WriteEffect ==
  ASSUME TypeOK, NEW w \in Work, Write(w), NEW c \in Contacts
  PROVE  /\ c \notin Planned(w.plan) =>
              lead'[c] = lead[c] /\ (c \in ref' <=> c \in ref)
         /\ c \in Planned(w.plan) =>
              /\ c \in ref'
              /\ \E p \in w.plan :
                   /\ p.id = c
                   /\ lead'[c] = [copies |-> IF p.new THEN lead[c].copies + 1
                                             ELSE lead[c].copies,
                                  at |-> p.row.at, active |-> p.row.active,
                                  flag |-> p.row.flag]
<1>1. lead'[c] = LeadAfter(c, w.plan)
  BY DEF Write
<1>2. CASE c \notin Planned(w.plan)
  BY <1>1, <1>2 DEF Write, LeadAfter
<1>3. CASE c \in Planned(w.plan)
  <2>1. PICK p \in w.plan : p.id = c /\ p = CHOOSE q \in w.plan : q.id = c
    BY <1>3 DEF Planned
  <2>2. lead'[c] = [copies |-> IF p.new THEN lead[c].copies + 1 ELSE lead[c].copies,
                    at |-> p.row.at, active |-> p.row.active, flag |-> p.row.flag]
    BY <1>1, <1>3, <2>1 DEF LeadAfter
  <2> QED BY <1>3, <2>1, <2>2 DEF Write
<1> QED BY <1>2, <1>3

(* Plans that survive each other's commit name different leads.             *)
LEMMA SurvivorsAreDisjoint ==
  ASSUME NEW v \in Work, NEW w \in Work, ~Hit(v, Rows(w)).doomed
  PROVE  \A p \in v.plan : p.id \notin Planned(w.plan)
<1> SUFFICES ASSUME NEW p \in v.plan, p.id \in Planned(w.plan) PROVE FALSE
  OBVIOUS
<1>1. <<"lead", p.id>> \in Rows(v)
  BY DEF Rows
<1>2. <<"lead", p.id>> \in Rows(w)
  BY DEF Rows, Planned
<1> QED BY <1>1, <1>2, HitTyped

(* The contacts a session may plan from in its next step.                   *)
Sources == {Dto(c) : c \in Contacts} \cup (IF sync.pc = "fetched" THEN sync.page ELSE {})

(* The transaction w writes the contacts ds but those that fail.            *)
PlansFor(ds, w) == w.failed \subseteq ds /\ w.plan = LeadPlan(ds \ w.failed)

LEMMA PagePlanEffect ==
  ASSUME NEW s \in Session, NEW t \in PagePlan(s)
  PROVE  /\ t.pc = "page" /\ t.page = s.page /\ t.cursor = s.cursor
         /\ t.phase = s.phase /\ t.started = s.started /\ t.more = s.more
         /\ PlansFor(s.page, t.work)
<1>1. PICK refused \in Refusals(s.page) :
        t = [s EXCEPT !.pc = "page", !.work.plan = LeadPlan(s.page \ refused),
                      !.work.failed = refused]
  BY DEF PagePlan
<1>2. s.work \in Work
  BY DEF Session
<1>3. PlansFor(s.page, t.work)
  <2>1. t.work.plan = LeadPlan(s.page \ refused) /\ t.work.failed = refused
    BY <1>1, <1>2 DEF Session, Work
  <2> QED BY <2>1 DEF PlansFor, Refusals
<1>4. t.pc = "page" /\ t.page = s.page /\ t.cursor = s.cursor
      /\ t.phase = s.phase /\ t.started = s.started /\ t.more = s.more
  BY <1>1 DEF Session
<1> QED BY <1>3, <1>4

LEMMA CallPlanEffect ==
  ASSUME NEW s \in Session
  PROVE  BatchPlan(s).work = CallPlan(s.page, {}) /\ BatchPlan(s).pc = "batch"
         /\ BatchPlan(s).work.plan = {}
<1>1. CallPlan(s.page, {}).plan = {}
  BY DEF CallPlan, NoWork
<1> QED BY <1>1 DEF BatchPlan, Session

QuietStep ==
  \/ \E mode \in Modes : Start(mode)
  \/ FetchPage \/ UpsertPage \/ FetchWindow \/ UpsertBatch \/ AdvanceCalls
  \/ EndCalls \/ ResolveOrphans \/ Fail \/ PersistFailure \/ Crash

LEMMA QuietEffect ==
  ASSUME TypeInv, QuietStep, sync.pc # "page" => sync.work.plan = {}
  PROVE  /\ UNCHANGED <<now, contact, lead, ref, hook, userArchived>>
         /\ \/ sync'.pc # "page" /\ sync'.work.plan = {}
            \/ /\ sync'.pc = "page"
               /\ \E ds \in SUBSET Sources : sync'.work.plan = LeadPlan(ds)
<1> USE DEF TypeInv, SessionOK
<1> DEFINE Quiet == sync'.pc # "page" /\ sync'.work.plan = {}
           Replans == /\ sync'.pc = "page"
                      /\ \E ds \in SUBSET Sources : sync'.work.plan = LeadPlan(ds)
<1>9. UNCHANGED <<now, contact, lead, ref, hook, userArchived>>
  BY DEF QuietStep, Start, FetchPage, UpsertPage, FetchWindow, UpsertBatch, AdvanceCalls,
         EndCalls, ResolveOrphans, Fail, PersistFailure, Crash, db, provider
<1> SUFFICES Quiet \/ Replans
  BY <1>9
<1>0. NoWork.plan = {} /\ Idle.work = NoWork
  BY DEF NoWork, Idle
<1>1. ASSUME NEW mode \in Modes, Start(mode)
      PROVE  Quiet
  BY <1>0, <1>1 DEF Start, Idle
<1>2. CASE FetchPage
  <2> DEFINE ds == {Dto(c) : c \in Page}
             s == [sync EXCEPT !.page = ds, !.more = Page # Unread,
                               !.oldest = IF sync.oldest >= 0 \/ ds = {} THEN sync.oldest
                                          ELSE Min({d.at : d \in ds})]
  <2>0. sync.pc = "contacts" /\ sync.work.plan = {}
    BY <1>2 DEF FetchPage
  <2>1. Page \in SUBSET Contacts
    BY DEF Page, Unread
  <2>2. ds \in SUBSET Version /\ ds \in SUBSET Sources
    BY <2>1, DtoTyped DEF Sources
  <2>3. (IF sync.oldest >= 0 \/ ds = {} THEN sync.oldest
         ELSE Min({d.at : d \in ds})) \in Nat \cup {-1}
    BY <2>2, OldestIsNatural DEF Session
  <2>4. s \in Session /\ s.page = ds /\ s.work = sync.work
    <3> HIDE DEF ds
    <3> QED BY <2>2, <2>3 DEF Session
  <2>5. CASE ds = {}
    <3>1. sync' = BeginCalls(sync)
      BY <1>2, <2>5 DEF FetchPage
    <3> QED BY <1>0, <3>1, BeginCallsTyped
  <2>6. CASE ds # {} /\ sync.first
    <3>1. sync' \in PagePlan(s)
      BY <1>2, <2>6 DEF FetchPage
    <3>2. sync'.pc = "page" /\ sync'.work.plan = LeadPlan(s.page \ sync'.work.failed)
      <4> HIDE DEF s
      <4> QED BY <2>4, <3>1, PagePlanEffect DEF PlansFor
    <3>3. s.page \ sync'.work.failed \in SUBSET Sources
      BY <2>2, <2>4
    <3>4. Replans
      <4> HIDE DEF s
      <4> QED BY <3>2, <3>3
    <3> QED BY <3>4
  <2>7. CASE ds # {} /\ ~sync.first
    <3>1. sync' = [s EXCEPT !.pc = "fetched"]
      BY <1>2, <2>7 DEF FetchPage
    <3>2. sync'.pc = "fetched" /\ sync'.work = sync.work
      <4> HIDE DEF s
      <4> QED BY <2>4, <3>1 DEF Session
    <3>3. Quiet
      BY <2>0, <3>2
    <3> QED BY <3>3
  <2> QED BY <2>5, <2>6, <2>7
<1>3. CASE UpsertPage
  <2>1. sync'.work.plan = LeadPlan(sync.page \ sync'.work.failed) /\ sync'.pc = "page"
    BY <1>3, PagePlanEffect DEF UpsertPage, PlansFor
  <2>2. sync.page \ sync'.work.failed \in SUBSET Sources
    BY <1>3 DEF UpsertPage, Sources
  <2> QED BY <2>1, <2>2
<1>4. CASE FetchWindow
  <2> DEFINE s == [sync EXCEPT !.page = Window]
  <2>1. s \in Session /\ s.work = sync.work /\ sync.work.plan = {}
    <3>1. Window \in SUBSET Calls
      BY DEF Window
    <3> QED BY <1>4, <3>1 DEF FetchWindow, Session
  <2>2. sync' = [s EXCEPT !.pc = "mark"] \/ sync' = [s EXCEPT !.pc = "window"]
        \/ sync' = BatchPlan(s)
    BY <1>4 DEF FetchWindow
  <2> HIDE DEF s
  <2>3. Quiet
    BY <2>1, <2>2, CallPlanEffect DEF Session
  <2> QED BY <2>3
<1>5. CASE UpsertBatch
  <2>1. Quiet
    BY <1>5, CallPlanEffect DEF UpsertBatch
  <2> QED BY <2>1
<1>6. CASE AdvanceCalls \/ EndCalls
  <2>1. Quiet
    BY <1>6 DEF AdvanceCalls, EndCalls, Session
  <2> QED BY <2>1
<1>7. CASE ResolveOrphans
  <2>1. sync.work \in Work
    BY DEF Session
  <2>2. Quiet
    BY <1>7, <2>1 DEF ResolveOrphans, Session, Work
  <2> QED BY <2>2
<1>8. CASE Fail \/ PersistFailure \/ Crash
  <2>1. Quiet
    BY <1>0, <1>8 DEF Fail, PersistFailure, Crash, RolledBack, Idle
  <2> QED BY <2>1
<1> QED BY <1>1, <1>2, <1>3, <1>4, <1>5, <1>6, <1>7, <1>8 DEF QuietStep

(* The steps of the session that write its plan.                            *)
LEMMA CommitEffect ==
  ASSUME TypeInv, CommitPage \/ CommitBatch \/ Finish
  PROVE  /\ Write(sync.work) /\ ~sync.work.doomed /\ sync.work \in Work
         /\ sync'.work = NoWork /\ sync'.pc \notin {"page", "fetched"}
         /\ hook'.pc = hook.pc /\ hook'.work = Hit(hook.work, Rows(sync.work))
         /\ UNCHANGED <<now, contact, userArchived>>
<1> USE DEF TypeInv, SessionOK
<1>1. sync.work \in Work
  BY DEF Session
<1>2. CASE CommitPage
  <2>1. sync' = AfterPage(sync) /\ sync'.work = NoWork
    BY <1>2, AfterPageTyped DEF CommitPage
  <2>2. sync'.pc \in {"contacts", "calls"}
    BY <2>1, BeginCallsTyped DEF AfterPage, Session
  <2> QED BY <1>1, <1>2, <2>1, <2>2 DEF CommitPage, provider
<1>3. CASE CommitBatch
  BY <1>1, <1>3 DEF CommitBatch, Session, provider
<1>4. CASE Finish
  BY <1>1, <1>4 DEF Finish, Idle, provider
<1> QED BY <1>2, <1>3, <1>4

(* The steps around the session: the webhook, users, the provider.          *)
LEMMA CommitHookEffect ==
  ASSUME TypeInv, CommitHook
  PROVE  /\ Write(hook.work) /\ ~hook.work.doomed /\ hook.work \in Work
         /\ hook'.work = NoWork /\ sync'.work = Hit(sync.work, Rows(hook.work))
         /\ sync'.pc = sync.pc /\ sync'.page = sync.page
         /\ UNCHANGED <<now, contact, userArchived>>
BY HitSession DEF CommitHook, TypeInv, NoHook, provider

LEMMA BeginHookEffect ==
  ASSUME TypeInv, NEW c \in Contacts, BeginHook(c)
  PROVE  /\ \E ds \in SUBSET {Dto(c)} : hook'.work.plan = LeadPlan(ds)
         /\ UNCHANGED <<now, contact, lead, ref, sync, userArchived>>
<1>1. PICK refused \in Refusals({Dto(c)}) : hook'.work = HookWork(c, refused)
  BY DEF BeginHook
<1> DEFINE calls == IF Ambiguous(c) \/ refused # {} THEN {} ELSE CallsOf(c)
           plan == LeadPlan({Dto(c)} \ refused)
<1>2. HookWork(c, refused) = [CallPlan(calls, plan) EXCEPT !.resolved = Resolvable(plan)]
  BY DEF HookWork
<1>3. HookWork(c, refused).plan = plan
  <2> HIDE DEF calls, plan
  <2> QED BY <1>2 DEF CallPlan, NoWork
<1> QED BY <1>1, <1>3 DEF BeginHook, db, provider

LEMMA SetActiveEffect ==
  ASSUME TypeInv, NEW c \in Contacts, NEW on \in BOOLEAN, SetActive(c, on)
  PROVE  /\ \A d \in Contacts \ {c} : lead'[d] = lead[d]
         /\ lead'[c] = [lead[c] EXCEPT !.active = on]
         /\ sync'.work = Hit(sync.work, {<<"lead", c>>})
         /\ hook'.work = Hit(hook.work, {<<"lead", c>>})
         /\ sync'.pc = sync.pc /\ sync'.page = sync.page
         /\ userArchived' = IF on THEN userArchived \ {c} ELSE userArchived \cup {c}
         /\ UNCHANGED <<now, contact, ref>>
BY HitSession DEF SetActive, TypeInv, TypeOK, provider

(* Every step is one of these kinds.                                        *)
LEMMA Steps ==
  ASSUME Next
  PROVE  \/ QuietStep
         \/ CommitPage \/ CommitBatch \/ Finish
         \/ CommitHook \/ AbortHook
         \/ \E c \in Contacts : BeginHook(c)
         \/ \E c \in Contacts : Modify(c)
         \/ \E k \in Calls : RecordCall(k)
         \/ Tick
         \/ \E c \in Contacts, on \in BOOLEAN : SetActive(c, on)
BY DEF Next, SyncStep, QuietStep

-----------------------------------------------------------------------------
(***************************************************************************)
(* One lead for a contact.  A plan that is not doomed still fits the rows  *)
(* it will write: it creates a lead only where there is none.              *)
(***************************************************************************)
PlanFresh(w, leads, refs) ==
  ~w.doomed => \A p \in w.plan :
    /\ p.new <=> leads[p.id].copies = 0
    /\ p.id \in refs \/ leads[p.id].copies <= 1

FreshInv ==
  /\ PlanFresh(sync.work, lead, ref)
  /\ PlanFresh(hook.work, lead, ref)
  /\ sync.pc # "page" => sync.work.plan = {}
  /\ NoDuplicateLead

(* A plan is fresh when it is made.                                         *)
LEMMA PlansStartFresh ==
  ASSUME TypeOK, NEW ds \in SUBSET Version, NEW w, w.plan = LeadPlan(ds)
  PROVE  PlanFresh(w, lead, ref)
<1> SUFFICES ASSUME NEW p \in LeadPlan(ds)
             PROVE  /\ p.new <=> lead[p.id].copies = 0
                    /\ p.id \in ref \/ lead[p.id].copies <= 1
  BY DEF PlanFresh
<1>1. PICK d \in ds : /\ ~Ambiguous(d.id)
                      /\ p = [id |-> d.id, new |-> lead[d.id].copies = 0,
                              row |-> LeadValues(d)]
  BY DEF LeadPlan
<1>2. p.id = d.id /\ (p.new <=> lead[d.id].copies = 0)
  BY <1>1
<1>3. lead[d.id].copies \in Nat
  BY DEF TypeOK, Version
<1> QED BY <1>1, <1>2, <1>3 DEF Ambiguous

LEMMA SourcesAreDtos ==
  ASSUME TypeInv
  PROVE  Sources \in SUBSET Version
BY DtoTyped DEF Sources, TypeInv, SessionOK, PageOK

(* A commit dooms the plans that it would make stale.                       *)
LEMMA CommitKeepsFresh ==
  ASSUME TypeInv, NEW v \in Work, NEW w \in Work, PlanFresh(v, lead, ref), Write(w)
  PROVE  PlanFresh(Hit(v, Rows(w)), lead', ref')
<1> SUFFICES ASSUME ~Hit(v, Rows(w)).doomed, NEW p \in v.plan
             PROVE  /\ p.new <=> lead'[p.id].copies = 0
                    /\ p.id \in ref' \/ lead'[p.id].copies <= 1
  BY HitTyped DEF PlanFresh
<1>1. p.id \in Contacts /\ p.id \notin Planned(w.plan)
  BY SurvivorsAreDisjoint DEF Work
<1>2. lead'[p.id] = lead[p.id] /\ (p.id \in ref' <=> p.id \in ref)
  BY <1>1, WriteEffect DEF TypeInv
<1> QED BY <1>2, HitTyped DEF PlanFresh

LEMMA CommitKeepsSingle ==
  ASSUME TypeInv, NEW w \in Work, PlanFresh(w, lead, ref), ~w.doomed, Write(w),
         NoDuplicateLead
  PROVE  NoDuplicateLead'
<1> SUFFICES ASSUME NEW c \in Contacts
             PROVE  lead'[c].copies <= Later(1, LegacyLeads[c])
  BY DEF NoDuplicateLead
<1>0. lead[c].copies \in Nat /\ LegacyLeads[c] \in Nat
      /\ lead[c].copies <= Later(1, LegacyLeads[c])
  BY LegacyAssumption DEF TypeInv, TypeOK, NoDuplicateLead
<1>1. CASE c \notin Planned(w.plan)
  BY <1>0, <1>1, WriteEffect DEF TypeInv
<1>2. CASE c \in Planned(w.plan)
  <2>1. PICK p \in w.plan :
          /\ p.id = c
          /\ lead'[c] = [copies |-> IF p.new THEN lead[c].copies + 1 ELSE lead[c].copies,
                         at |-> p.row.at, active |-> p.row.active, flag |-> p.row.flag]
    BY <1>2, WriteEffect DEF TypeInv
  <2>2. lead'[c].copies = IF p.new THEN lead[c].copies + 1 ELSE lead[c].copies
    BY <2>1
  <2>3. p.new => lead[c].copies = 0
    BY <2>1 DEF PlanFresh
  <2> QED BY <1>0, <2>2, <2>3 DEF Later
<1> QED BY <1>1, <1>2

LEMMA InitFresh == Init => FreshInv
<1> SUFFICES ASSUME Init PROVE FreshInv
  OBVIOUS
<1>1. sync.work.plan = {} /\ hook.work.plan = {}
  BY DEF Init, Idle, NoHook, NoWork
<1>2. NoDuplicateLead
  BY LegacyAssumption DEF Init, NoDuplicateLead, Later
<1> QED BY <1>1, <1>2 DEF FreshInv, PlanFresh

LEMMA NextFresh == TypeInv /\ FreshInv /\ [Next]_vars => FreshInv'
<1> SUFFICES ASSUME TypeInv, FreshInv, [Next]_vars PROVE FreshInv'
  OBVIOUS
<1> USE DEF FreshInv
<1>0. sync.work \in Work /\ hook.work \in Work /\ TypeOK /\ NoWork.plan = {}
  BY DEF TypeInv, SessionOK, Session, NoWork
<1>1. CASE QuietStep
  <2>1. PlanFresh(sync'.work, lead, ref)
    <3>1. CASE sync'.work.plan = {}
      BY <3>1 DEF PlanFresh
    <3>2. CASE \E ds \in SUBSET Sources : sync'.work.plan = LeadPlan(ds)
      <4>1. PICK ds \in SUBSET Sources : sync'.work.plan = LeadPlan(ds)
        BY <3>2
      <4> QED BY <1>0, <4>1, SourcesAreDtos, PlansStartFresh
    <3> QED BY <1>1, <3>1, <3>2, QuietEffect
  <2> QED BY <1>1, <2>1, QuietEffect DEF NoDuplicateLead
<1>2. CASE CommitPage \/ CommitBatch \/ Finish
  <2>1. PlanFresh(hook'.work, lead', ref')
    BY <1>0, <1>2, CommitEffect, CommitKeepsFresh
  <2>2. PlanFresh(sync'.work, lead', ref') /\ (sync'.pc # "page" => sync'.work.plan = {})
    BY <1>0, <1>2, CommitEffect DEF PlanFresh
  <2>3. NoDuplicateLead'
    BY <1>2, CommitEffect, CommitKeepsSingle
  <2> QED BY <2>1, <2>2, <2>3
<1>3. CASE CommitHook
  <2>1. PlanFresh(sync'.work, lead', ref') /\ (sync'.pc # "page" => sync'.work.plan = {})
    BY <1>0, <1>3, CommitHookEffect, CommitKeepsFresh, HitTyped
  <2>2. PlanFresh(hook'.work, lead', ref')
    BY <1>0, <1>3, CommitHookEffect DEF PlanFresh
  <2>3. NoDuplicateLead'
    BY <1>3, CommitHookEffect, CommitKeepsSingle
  <2> QED BY <2>1, <2>2, <2>3
<1>4. CASE AbortHook
  <2>1. PlanFresh(hook'.work, lead, ref)
    BY <1>0, <1>4 DEF AbortHook, NoHook, PlanFresh
  <2> QED BY <1>4, <2>1 DEF AbortHook, db, NoDuplicateLead
<1>5. ASSUME NEW c \in Contacts, BeginHook(c)
      PROVE  FreshInv'
  <2>1. PICK ds \in SUBSET {Dto(c)} : hook'.work.plan = LeadPlan(ds)
    BY <1>5, BeginHookEffect
  <2>2. ds \in SUBSET Version
    BY <1>0, DtoTyped
  <2>3. PlanFresh(hook'.work, lead, ref)
    BY <1>0, <2>1, <2>2, PlansStartFresh
  <2> QED BY <1>5, <2>3, BeginHookEffect DEF NoDuplicateLead
<1>6. CASE \/ \E c \in Contacts : Modify(c)
           \/ \E k \in Calls : RecordCall(k)
           \/ Tick
  BY <1>6 DEF Modify, RecordCall, Tick, db, NoDuplicateLead
<1>7. ASSUME NEW c \in Contacts, NEW on \in BOOLEAN, SetActive(c, on)
      PROVE  FreshInv'
  <2>1. \A d \in Contacts : lead'[d].copies = lead[d].copies
    <3>1. lead[c] \in [copies : Nat, at : Nat, active : BOOLEAN, flag : BOOLEAN]
      BY <1>0 DEF TypeOK
    <3>2. lead'[c].copies = lead[c].copies
      BY <1>7, <3>1, SetActiveEffect
    <3> QED BY <1>7, <3>2, SetActiveEffect
  <2>2. ref' = ref
    BY <1>7, SetActiveEffect
  <2>3. ASSUME NEW w \in Work, NEW rows, PlanFresh(w, lead, ref)
        PROVE  PlanFresh(Hit(w, rows), lead', ref')
    <3>1. \A p \in w.plan : p.id \in Contacts
      BY DEF Work
    <3>2. PlanFresh(w, lead', ref')
      BY <2>1, <2>2, <2>3, <3>1 DEF PlanFresh
    <3> QED BY <3>2, HitTyped DEF PlanFresh
  <2>4. PlanFresh(Hit(sync.work, {<<"lead", c>>}), lead', ref')
        /\ PlanFresh(Hit(hook.work, {<<"lead", c>>}), lead', ref')
    BY <1>0, <2>3
  <2>5. /\ sync'.pc = sync.pc
        /\ sync'.work = Hit(sync.work, {<<"lead", c>>})
        /\ hook'.work = Hit(hook.work, {<<"lead", c>>})
    BY <1>7, SetActiveEffect
  <2>6. Hit(sync.work, {<<"lead", c>>}).plan = sync.work.plan
    BY <1>0, HitTyped
  <2>7. NoDuplicateLead'
    BY <2>1 DEF NoDuplicateLead
  <2> QED BY <2>4, <2>5, <2>6, <2>7
<1>8. CASE UNCHANGED vars
  BY <1>8 DEF vars, NoDuplicateLead
<1> QED BY <1>1, <1>2, <1>3, <1>4, <1>5, <1>6, <1>7, <1>8, Steps

(* No contact ever gets a second lead by synchronization, for any number of *)
(* pages, webhooks, faults and crashes in any order.                        *)
THEOREM LeadsAreNotDuplicated == Spec => []NoDuplicateLead
<1>1. Spec => [](TypeInv /\ FreshInv)
  BY InitTyped, NextTyped, InitFresh, NextFresh, PTL DEF Spec
<1>2. FreshInv => NoDuplicateLead
  BY DEF FreshInv
<1> QED BY <1>1, <1>2, PTL

-----------------------------------------------------------------------------
(***************************************************************************)
(* The archive flag.  Without deletions at the provider no plan reopens a  *)
(* lead: it keeps the flag "active" it found, and a user's change of the   *)
(* row dooms it.                                                           *)
(***************************************************************************)
NoDeletion == "delete" \notin Ops

PlanKeeps(w, leads) ==
  \A p \in w.plan : ~p.row.flag /\ (w.doomed \/ p.row.active = leads[p.id].active)

ArchiveInv ==
  /\ \A c \in Contacts : ~contact[c].deleted /\ ~lead[c].flag
  /\ sync.pc = "fetched" => \A d \in sync.page : ~d.deleted
  /\ PlanKeeps(sync.work, lead)
  /\ PlanKeeps(hook.work, lead)
  /\ UserArchiveStands

(* The pages a step of the session brings in.                               *)
LEMMA FetchedEffect ==
  ASSUME TypeInv, QuietStep, sync'.pc = "fetched"
  PROVE  FetchPage /\ sync'.page = {Dto(c) : c \in Page}
<1> USE DEF TypeInv, SessionOK
<1>1. \/ FetchPage
      \/ sync'.pc # "fetched"
  <2>1. UpsertPage => sync'.pc # "fetched"
    BY PagePlanEffect DEF UpsertPage
  <2>2. FetchWindow => sync'.pc # "fetched"
    <3> DEFINE s == [sync EXCEPT !.page = Window]
    <3>1. s \in Session
      BY DEF Window, Session
    <3>2. FetchWindow => sync' = [s EXCEPT !.pc = "mark"] \/ sync' = [s EXCEPT !.pc = "window"]
                          \/ sync' = BatchPlan(s)
      BY DEF FetchWindow
    <3> HIDE DEF s
    <3> QED BY <3>1, <3>2, CallPlanEffect DEF Session
  <2>3. UpsertBatch => sync'.pc # "fetched"
    BY CallPlanEffect DEF UpsertBatch
  <2>4. (\E mode \in Modes : Start(mode)) => sync'.pc # "fetched"
    BY DEF Start, Idle
  <2>5. AdvanceCalls \/ EndCalls \/ ResolveOrphans => sync'.pc # "fetched"
    BY DEF AdvanceCalls, EndCalls, ResolveOrphans, Session
  <2>6. Fail \/ PersistFailure \/ Crash => sync'.pc # "fetched"
    BY DEF Fail, RolledBack, PersistFailure, Crash, Idle
  <2> QED BY <2>1, <2>2, <2>3, <2>4, <2>5, <2>6 DEF QuietStep
<1> DEFINE ds == {Dto(c) : c \in Page}
           s == [sync EXCEPT !.page = ds, !.more = Page # Unread,
                             !.oldest = IF sync.oldest >= 0 \/ ds = {} THEN sync.oldest
                                        ELSE Min({d.at : d \in ds})]
<1>2. FetchPage
  BY <1>1
<1>3. Page \in SUBSET Contacts
  BY DEF Page, Unread
<1>4. ds \in SUBSET Version
  BY <1>3, DtoTyped
<1>5. (IF sync.oldest >= 0 \/ ds = {} THEN sync.oldest
       ELSE Min({d.at : d \in ds})) \in Nat \cup {-1}
  BY <1>4, OldestIsNatural DEF Session
<1>6. s \in Session /\ s.page = ds
  <2> HIDE DEF ds
  <2> QED BY <1>4, <1>5 DEF Session
<1>7. ds # {} /\ ~sync.first
  <2>1. ds = {} => sync'.pc # "fetched"
    BY <1>2, BeginCallsTyped DEF FetchPage
  <2>2. ds # {} /\ sync.first => sync' \in PagePlan(s)
    BY <1>2 DEF FetchPage
  <2> HIDE DEF ds, s
  <2> QED BY <1>6, <2>1, <2>2, PagePlanEffect
<1>8. sync' = [s EXCEPT !.pc = "fetched"]
  BY <1>2, <1>7 DEF FetchPage
<1>9. sync'.page = ds
  <2> HIDE DEF ds, s
  <2> QED BY <1>6, <1>8 DEF Session
<1> QED BY <1>2, <1>9

(* A plan made from contacts that are not deleted keeps the archive flags.  *)
LEMMA PlansStartKeeping ==
  ASSUME TypeOK, NEW ds \in SUBSET Version, \A d \in ds : ~d.deleted,
         \A c \in Contacts : ~lead[c].flag, NEW w, w.plan = LeadPlan(ds)
  PROVE  PlanKeeps(w, lead)
<1> SUFFICES ASSUME NEW p \in LeadPlan(ds)
             PROVE  ~p.row.flag /\ p.row.active = lead[p.id].active
  BY DEF PlanKeeps
<1>1. PICK d \in ds : p = [id |-> d.id, new |-> lead[d.id].copies = 0,
                           row |-> LeadValues(d)]
  BY DEF LeadPlan
<1>2. p.id = d.id /\ p.row = LeadValues(d) /\ d.id \in Contacts /\ ~d.deleted
  BY <1>1 DEF Version
<1>3. LeadValues(d).flag = d.deleted
      /\ LeadValues(d).active = IF d.deleted THEN FALSE ELSE lead[d.id].flag \/ lead[d.id].active
  BY DEF LeadValues
<1>4. d.deleted \in BOOLEAN /\ lead[d.id].flag \in BOOLEAN /\ lead[d.id].active \in BOOLEAN
  BY <1>2 DEF TypeOK, Version
<1> QED BY <1>2, <1>3, <1>4

LEMMA CommitKeepsKeeping ==
  ASSUME TypeInv, NEW v \in Work, NEW w \in Work, PlanKeeps(v, lead), Write(w)
  PROVE  PlanKeeps(Hit(v, Rows(w)), lead')
<1> SUFFICES ASSUME NEW p \in v.plan, ~Hit(v, Rows(w)).doomed
             PROVE  p.row.active = lead'[p.id].active
  BY HitTyped DEF PlanKeeps
<1>1. p.id \in Contacts /\ p.id \notin Planned(w.plan)
  BY SurvivorsAreDisjoint DEF Work
<1>2. lead'[p.id] = lead[p.id]
  BY <1>1, WriteEffect DEF TypeInv
<1> QED BY <1>2, HitTyped DEF PlanKeeps

(* Such a write leaves the archive flags of all leads as they are.          *)
LEMMA CommitKeepsActive ==
  ASSUME TypeInv, NEW w \in Work, PlanKeeps(w, lead), ~w.doomed, Write(w),
         NEW c \in Contacts, ~lead[c].flag
  PROVE  lead'[c].active = lead[c].active /\ ~lead'[c].flag
<1>0. TypeOK
  BY DEF TypeInv
<1>1. CASE c \notin Planned(w.plan)
  BY <1>0, <1>1, WriteEffect
<1>2. CASE c \in Planned(w.plan)
  <2>1. PICK p \in w.plan :
          /\ p.id = c
          /\ lead'[c] = [copies |-> IF p.new THEN lead[c].copies + 1 ELSE lead[c].copies,
                         at |-> p.row.at, active |-> p.row.active, flag |-> p.row.flag]
    BY <1>0, <1>2, WriteEffect
  <2>2. lead'[c].active = p.row.active /\ lead'[c].flag = p.row.flag
    BY <2>1
  <2> QED BY <2>1, <2>2 DEF PlanKeeps
<1> QED BY <1>1, <1>2

LEMMA InitArchive == NoDeletion /\ Init => ArchiveInv
<1> SUFFICES ASSUME Init PROVE ArchiveInv
  OBVIOUS
<1>1. sync.work.plan = {} /\ hook.work.plan = {} /\ sync.pc = "idle"
  BY DEF Init, Idle, NoHook, NoWork
<1>2. \A c \in Contacts : ~contact[c].deleted /\ ~lead[c].flag
  BY DEF Init
<1> QED BY <1>1, <1>2 DEF ArchiveInv, PlanKeeps, UserArchiveStands, Init

LEMMA NextArchive ==
  NoDeletion /\ TypeInv /\ FreshInv /\ ArchiveInv /\ [Next]_vars => ArchiveInv'
<1> SUFFICES ASSUME NoDeletion, TypeInv, FreshInv, ArchiveInv, [Next]_vars
             PROVE  ArchiveInv'
  OBVIOUS
<1> USE DEF ArchiveInv
<1>0. sync.work \in Work /\ hook.work \in Work /\ TypeOK /\ NoWork.plan = {}
      /\ (sync.pc # "page" => sync.work.plan = {}) /\ userArchived \in SUBSET Contacts
  BY DEF TypeInv, TypeOK, SessionOK, Session, NoWork, FreshInv
<1>1. CASE QuietStep
  <2>1. Sources \in SUBSET Version
    BY SourcesAreDtos
  <2>2. \A d \in Sources : ~d.deleted
    BY <1>0, DtoTyped DEF Sources
  <2>3. PlanKeeps(sync'.work, lead)
    <3>1. CASE sync'.work.plan = {}
      BY <3>1 DEF PlanKeeps
    <3>2. CASE \E ds \in SUBSET Sources : sync'.work.plan = LeadPlan(ds)
      <4>1. PICK ds \in SUBSET Sources : sync'.work.plan = LeadPlan(ds)
        BY <3>2
      <4>2. ds \in SUBSET Version /\ \A d \in ds : ~d.deleted
        BY <2>1, <2>2
      <4> QED BY <1>0, <4>1, <4>2, PlansStartKeeping
    <3> QED BY <1>0, <1>1, <3>1, <3>2, QuietEffect
  <2>4. sync'.pc = "fetched" => \A d \in sync'.page : ~d.deleted
    <3> SUFFICES ASSUME sync'.pc = "fetched", NEW d \in sync'.page PROVE ~d.deleted
      OBVIOUS
    <3>1. sync'.page = {Dto(c) : c \in Page}
      BY <1>1, FetchedEffect
    <3>2. PICK c \in Contacts : d = Dto(c)
      BY <3>1 DEF Page, Unread
    <3> QED BY <1>0, <3>2, DtoTyped
  <2>5. UNCHANGED <<contact, lead, hook, userArchived>>
    BY <1>0, <1>1, QuietEffect
  <2> QED BY <2>3, <2>4, <2>5 DEF UserArchiveStands
<1>2. CASE CommitPage \/ CommitBatch \/ Finish
  <2>1. /\ Write(sync.work) /\ ~sync.work.doomed
        /\ sync'.work = NoWork /\ sync'.pc # "fetched"
        /\ hook'.work = Hit(hook.work, Rows(sync.work))
        /\ contact' = contact /\ userArchived' = userArchived
    BY <1>2, CommitEffect
  <2>2. PlanKeeps(hook'.work, lead')
    BY <1>0, <2>1, CommitKeepsKeeping
  <2>3. PlanKeeps(sync'.work, lead')
    BY <1>0, <2>1 DEF PlanKeeps
  <2>4. \A c \in Contacts : lead'[c].active = lead[c].active /\ ~lead'[c].flag
    BY <1>0, <2>1, CommitKeepsActive
  <2> QED BY <1>0, <2>1, <2>2, <2>3, <2>4 DEF UserArchiveStands
<1>3. CASE CommitHook
  <2>1. /\ Write(hook.work) /\ ~hook.work.doomed
        /\ hook'.work = NoWork /\ sync'.pc = sync.pc /\ sync'.page = sync.page
        /\ sync'.work = Hit(sync.work, Rows(hook.work))
        /\ contact' = contact /\ userArchived' = userArchived
    BY <1>3, CommitHookEffect
  <2>2. PlanKeeps(sync'.work, lead')
    BY <1>0, <2>1, CommitKeepsKeeping
  <2>3. PlanKeeps(hook'.work, lead')
    BY <1>0, <2>1 DEF PlanKeeps
  <2>4. \A c \in Contacts : lead'[c].active = lead[c].active /\ ~lead'[c].flag
    BY <1>0, <2>1, CommitKeepsActive
  <2> QED BY <1>0, <2>1, <2>2, <2>3, <2>4 DEF UserArchiveStands
<1>4. CASE AbortHook
  <2>1. PlanKeeps(hook'.work, lead)
    BY <1>0, <1>4 DEF AbortHook, NoHook, PlanKeeps
  <2> QED BY <1>4, <2>1 DEF AbortHook, db, provider, UserArchiveStands
<1>5. ASSUME NEW c \in Contacts, BeginHook(c)
      PROVE  ArchiveInv'
  <2>1. PICK ds \in SUBSET {Dto(c)} : hook'.work.plan = LeadPlan(ds)
    BY <1>5, BeginHookEffect
  <2>2. ds \in SUBSET Version /\ \A d \in ds : ~d.deleted
    BY <1>0, DtoTyped
  <2>3. PlanKeeps(hook'.work, lead)
    BY <1>0, <2>1, <2>2, PlansStartKeeping
  <2>4. UNCHANGED <<contact, lead, sync, userArchived>>
    BY <1>5, BeginHookEffect
  <2> QED BY <2>3, <2>4 DEF UserArchiveStands
<1>6. ASSUME NEW c \in Contacts, Modify(c)
      PROVE  ArchiveInv'
  <2>1. contact' = [contact EXCEPT ![c] = [at |-> now + 1, deleted |-> FALSE]]
    BY <1>6 DEF Modify, NoDeletion
  <2>2. \A d \in Contacts : ~contact'[d].deleted
    BY <1>0, <2>1 DEF TypeOK
  <2> QED BY <1>6, <2>2 DEF Modify, db, UserArchiveStands
<1>7. CASE Tick \/ \E k \in Calls : RecordCall(k)
  BY <1>7 DEF RecordCall, Tick, db, provider, UserArchiveStands
<1>8. ASSUME NEW c \in Contacts, NEW on \in BOOLEAN, SetActive(c, on)
      PROVE  ArchiveInv'
  <2> DEFINE rows == {<<"lead", c>>}
  <2>1. /\ \A d \in Contacts \ {c} : lead'[d] = lead[d]
        /\ lead'[c] = [lead[c] EXCEPT !.active = on]
        /\ sync'.pc = sync.pc /\ sync'.page = sync.page
        /\ sync'.work = Hit(sync.work, rows) /\ hook'.work = Hit(hook.work, rows)
        /\ userArchived' = IF on THEN userArchived \ {c} ELSE userArchived \cup {c}
        /\ contact' = contact
    BY <1>8, SetActiveEffect
  <2>2. lead[c] \in [copies : Nat, at : Nat, active : BOOLEAN, flag : BOOLEAN]
    BY <1>0 DEF TypeOK
  <2>3. lead'[c].active = on /\ ~lead'[c].flag
    BY <2>1, <2>2
  <2>4. ASSUME NEW w \in Work, PlanKeeps(w, lead)
        PROVE  PlanKeeps(Hit(w, rows), lead')
    <3> SUFFICES ASSUME NEW p \in w.plan, ~Hit(w, rows).doomed
                 PROVE  p.row.active = lead'[p.id].active
      BY <2>4, HitTyped DEF PlanKeeps
    <3>1. p.id \in Contacts /\ <<"lead", p.id>> \in Rows(w)
      BY DEF Work, Rows
    <3>2. p.id # c /\ ~w.doomed
      BY <3>1, HitTyped
    <3> QED BY <2>1, <2>4, <3>1, <3>2 DEF PlanKeeps
  <2>5. PlanKeeps(sync'.work, lead') /\ PlanKeeps(hook'.work, lead')
    BY <1>0, <2>1, <2>4
  <2>6. UserArchiveStands'
    BY <1>0, <2>1, <2>3 DEF UserArchiveStands
  <2> QED BY <2>1, <2>3, <2>5, <2>6
<1>9. CASE UNCHANGED vars
  BY <1>9 DEF vars, UserArchiveStands
<1> QED BY <1>1, <1>2, <1>3, <1>4, <1>5, <1>6, <1>7, <1>8, <1>9, Steps

(* As long as the provider deletes no contact, a lead that a user archived  *)
(* stays archived: no page and no webhook, racing or not, reopens it.       *)
THEOREM ArchivesStand == ASSUME NoDeletion PROVE Spec => []UserArchiveStands
<1>1. Spec => [](TypeInv /\ FreshInv /\ ArchiveInv)
  BY InitTyped, NextTyped, InitFresh, NextFresh, InitArchive, NextArchive, PTL DEF Spec
<1>2. ArchiveInv => UserArchiveStands
  BY DEF ArchiveInv
<1> QED BY <1>1, <1>2, PTL

-----------------------------------------------------------------------------
(***************************************************************************)
(* The contact watermark.  The invariant follows a page from its request   *)
(* to its commit: nothing lies unread between watermark and cursor; below  *)
(* the end of a page, every contact beyond the watermark is in the page;   *)
(* and what changes meanwhile is newer than the whole page.                *)
(***************************************************************************)
(* The provider answers what it is asked: no outage beyond the lookback, no *)
(* silent clamp.                                                            *)
Faithful == Ops \cap {"outage", "clamp"} = {}

(* The contact was modified after the page was requested.                   *)
Overtakes(c, ds) == contact[c].at > contactMark /\ \A d \in ds : contact[c].at > d.at

TimesOK ==
  /\ ~clamps
  /\ contactMark <= now
  /\ \A c \in Contacts :
       /\ contact[c].at <= now
       /\ lead[c].at <= contact[c].at
       /\ contact[c].at > contactMark => contact[c].at > now - Lookback

(* A webhook that can still commit never takes a lead back.                 *)
HookForward ==
  ~hook.work.doomed =>
    \A p \in hook.work.plan :
      lead[p.id].at <= p.row.at /\ p.row.at <= contact[p.id].at

CursorOK ==
  sync.pc = "contacts" =>
    /\ sync.cursor <= now
    /\ \A c \in Contacts : contact[c].at > contactMark => contact[c].at > sync.cursor

(* The page ds holds everything it should, in versions that were current.   *)
PageCovers(ds) ==
  /\ \A d \in ds : d.at <= now /\ (contact[d.id].at = d.at \/ Overtakes(d.id, ds))
  /\ \A c \in Contacts, d \in ds :
       contactMark < contact[c].at /\ contact[c].at <= d.at =>
         \E e \in ds : e.id = c /\ e.at = contact[c].at

PlanCovers(ds, w) ==
  /\ w.failed \subseteq ds
  /\ \A p \in w.plan : \E d \in ds : p.id = d.id /\ p.row.at = d.at
  /\ \A d \in ds \ w.failed :
       d.id \notin Planned(w.plan) /\ ~Ambiguous(d.id) /\ contact[d.id].at = d.at
         => lead[d.id].at = d.at

AckInv ==
  /\ TimesOK
  /\ HookForward
  /\ CursorOK
  /\ sync.pc \in {"fetched", "page"} => PageCovers(sync.page)
  /\ sync.pc = "page" => PlanCovers(sync.page, sync.work)
  /\ ContactsAcknowledged

LEMMA InitAck == Faithful /\ Init => AckInv
<1> SUFFICES ASSUME Faithful, Init PROVE AckInv
  OBVIOUS
<1>1. hook.work.plan = {} /\ sync.pc = "idle"
  BY DEF Init, Idle, NoHook, NoWork
<1>2. TimesOK
  <2>1. ~clamps
    BY DEF Init, Faithful
  <2>2. \A c \in Contacts : contact[c].at = 0 /\ lead[c].at = 0
    BY DEF Init
  <2>3. now = 1 /\ contactMark = 0
    BY DEF Init
  <2> QED BY <2>1, <2>2, <2>3 DEF TimesOK
<1>3. ContactsAcknowledged
  BY DEF Init, ContactsAcknowledged
<1> QED BY <1>1, <1>2, <1>3 DEF AckInv, HookForward, CursorOK

(* What a fetched page holds.                                               *)
LEMMA PageIsCovering ==
  ASSUME TypeInv, AckInv, sync.pc = "contacts", NEW ds, ds = {Dto(c) : c \in Page}
  PROVE  PageCovers(ds)
<1> USE DEF TypeInv, TypeOK, AckInv, TimesOK
<1>1. ServedFrom = sync.cursor
  BY DEF ServedFrom
<1>2. ASSUME NEW d \in ds
      PROVE  /\ d.at <= now /\ contact[d.id].at = d.at
             /\ d.id \in Page /\ d = Dto(d.id)
  <2>1. PICK c \in Page : d = Dto(c)
    OBVIOUS
  <2>2. c \in Contacts
    BY <2>1 DEF Page, Unread
  <2> QED BY <2>1, <2>2, DtoTyped
<1>3. ASSUME NEW c \in Contacts, NEW d \in ds,
             contactMark < contact[c].at, contact[c].at <= d.at
      PROVE  \E e \in ds : e.id = c /\ e.at = contact[c].at
  <2> DEFINE Below(t) == {x \in Unread : contact[x].at < t}
  <2>1. c \in Unread
    BY <1>1, <1>3 DEF CursorOK, Unread
  <2>2. d.id \in Contacts /\ contact[d.id].at = d.at /\ Cardinality(Below(d.at)) < PageSize
    BY <1>2 DEF Page, Unread
  <2>3. IsFiniteSet(Below(d.at))
    BY FiniteAssumption, FS_Subset DEF Unread
  <2>4. Below(contact[c].at) \in SUBSET Below(d.at)
    BY <1>3, <2>2 DEF Unread
  <2>5. Cardinality(Below(contact[c].at)) <= Cardinality(Below(d.at))
    BY <2>3, <2>4, FS_Subset
  <2>6. Cardinality(Below(contact[c].at)) \in Nat /\ Cardinality(Below(d.at)) \in Nat
    BY <2>3, <2>4, FS_Subset, FS_CardinalityType
  <2>7. c \in Page
    <3>1. Cardinality(Below(contact[c].at)) < PageSize
      BY <2>2, <2>5, <2>6, BoundsTyped
    <3> QED BY <2>1, <3>1 DEF Page
  <2> QED BY <2>7, DtoTyped
<1> QED BY <1>2, <1>3 DEF PageCovers

(* What a plan of the whole page covers.                                    *)
LEMMA PlanIsCovering ==
  ASSUME TypeInv, NEW ds \in SUBSET Version, NEW w, PlansFor(ds, w)
  PROVE  PlanCovers(ds, w)
<1> DEFINE es == ds \ w.failed
<1>0. w.failed \subseteq ds /\ w.plan = LeadPlan(es)
  BY DEF PlansFor
<1>1. ASSUME NEW p \in LeadPlan(es)
      PROVE  \E d \in ds : p.id = d.id /\ p.row.at = d.at
  <2>1. PICK d \in es : p = [id |-> d.id, new |-> lead[d.id].copies = 0,
                             row |-> LeadValues(d)]
    BY DEF LeadPlan
  <2>2. LeadValues(d).at = d.at
    BY DEF LeadValues
  <2> QED BY <2>1, <2>2
<1>2. ASSUME NEW d \in es, d.id \notin Planned(LeadPlan(es)), ~Ambiguous(d.id)
      PROVE  lead[d.id].at = d.at
  <2>1. ~(\/ lead[d.id].copies = 0
          \/ d.id \notin ref
          \/ Current(d.id) # LeadValues(d))
    <3> SUFFICES ASSUME \/ lead[d.id].copies = 0
                        \/ d.id \notin ref
                        \/ Current(d.id) # LeadValues(d)
                 PROVE  FALSE
      OBVIOUS
    <3> DEFINE p == [id |-> d.id, new |-> lead[d.id].copies = 0, row |-> LeadValues(d)]
    <3>1. p \in LeadPlan(es)
      BY <1>2 DEF LeadPlan
    <3>2. p.id = d.id
      OBVIOUS
    <3> QED BY <1>2, <3>1, <3>2 DEF Planned
  <2>2. Current(d.id).at = LeadValues(d).at
    BY <2>1
  <2> QED BY <2>2 DEF Current, LeadValues
<1> QED BY <1>0, <1>1, <1>2 DEF PlanCovers

(* Where a step leaves the session, as far as contacts are concerned.       *)
LEMMA QuietMoves ==
  ASSUME TypeInv, QuietStep
  PROVE  /\ UNCHANGED <<now, contact, clamps, lead, ref, hook, contactMark, failed>>
         /\ \/ sync'.pc \notin {"contacts", "fetched", "page"}
            \/ sync'.pc = "contacts" /\ sync'.cursor \in {0, ContactStart}
            \/ /\ sync.pc = "contacts" /\ sync'.pc = "fetched"
               /\ sync'.page = {Dto(c) : c \in Page}
            \/ /\ sync'.pc = "page" /\ PlansFor(sync'.page, sync'.work)
               /\ \/ sync.pc = "fetched" /\ sync'.page = sync.page
                  \/ sync.pc = "contacts" /\ sync'.page = {Dto(c) : c \in Page}
<1> USE DEF TypeInv, SessionOK
<1> DEFINE Away == sync'.pc \notin {"contacts", "fetched", "page"}
           Requests == sync'.pc = "contacts" /\ sync'.cursor \in {0, ContactStart}
           Fetches == /\ sync.pc = "contacts" /\ sync'.pc = "fetched"
                      /\ sync'.page = {Dto(c) : c \in Page}
           Plans == /\ sync'.pc = "page" /\ PlansFor(sync'.page, sync'.work)
                    /\ \/ sync.pc = "fetched" /\ sync'.page = sync.page
                       \/ sync.pc = "contacts" /\ sync'.page = {Dto(c) : c \in Page}
<1>0. UNCHANGED <<now, contact, clamps, lead, ref, hook, contactMark, failed>>
  BY DEF QuietStep, Start, FetchPage, UpsertPage, FetchWindow, UpsertBatch, AdvanceCalls,
         EndCalls, ResolveOrphans, Fail, PersistFailure, Crash, db, provider, marks
<1> SUFFICES Away \/ Requests \/ Fetches \/ Plans
  BY <1>0
<1>1. ASSUME NEW s \in Session, NEW t \in PagePlan(s)
      PROVE  t.pc = "page" /\ t.page = s.page /\ PlansFor(t.page, t.work)
  BY <1>1, PagePlanEffect
<1>2. ASSUME NEW mode \in Modes, Start(mode)
      PROVE  Requests
  <2>1. sync'.pc = "contacts"
        /\ sync'.cursor = IF mode = "full_import" THEN 0 ELSE ContactStart
    BY <1>2 DEF Start, Idle
  <2> QED BY <2>1
<1>3. CASE FetchPage
  <2> DEFINE ds == {Dto(c) : c \in Page}
             s == [sync EXCEPT !.page = ds, !.more = Page # Unread,
                               !.oldest = IF sync.oldest >= 0 \/ ds = {} THEN sync.oldest
                                          ELSE Min({d.at : d \in ds})]
  <2>0. sync.pc = "contacts"
    BY <1>3 DEF FetchPage
  <2>1. Page \in SUBSET Contacts
    BY DEF Page, Unread
  <2>2. ds \in SUBSET Version
    BY <2>1, DtoTyped
  <2>3. (IF sync.oldest >= 0 \/ ds = {} THEN sync.oldest
         ELSE Min({d.at : d \in ds})) \in Nat \cup {-1}
    BY <2>2, OldestIsNatural DEF Session
  <2>4. s \in Session /\ s.page = ds
    <3> HIDE DEF ds
    <3> QED BY <2>2, <2>3 DEF Session
  <2>5. CASE ds = {}
    <3>1. sync' = BeginCalls(sync)
      BY <1>3, <2>5 DEF FetchPage
    <3>2. sync'.pc = "calls"
      BY <3>1, BeginCallsTyped
    <3> QED BY <3>2
  <2>6. CASE ds # {} /\ sync.first
    <3>1. sync' \in PagePlan(s)
      BY <1>3, <2>6 DEF FetchPage
    <3>2. sync'.pc = "page" /\ sync'.page = s.page /\ PlansFor(sync'.page, sync'.work)
      <4> HIDE DEF s
      <4> QED BY <1>1, <2>4, <3>1
    <3>3. sync'.page = ds
      BY <2>4, <3>2
    <3> QED BY <2>0, <3>2, <3>3
  <2>7. CASE ds # {} /\ ~sync.first
    <3>1. sync' = [s EXCEPT !.pc = "fetched"]
      BY <1>3, <2>7 DEF FetchPage
    <3>2. sync'.pc = "fetched" /\ sync'.page = ds
      <4> HIDE DEF s, ds
      <4> QED BY <2>4, <3>1 DEF Session
    <3> QED BY <2>0, <3>2
  <2> QED BY <2>5, <2>6, <2>7
<1>4. CASE UpsertPage
  <2>1. sync'.pc = "page" /\ sync'.page = sync.page /\ PlansFor(sync'.page, sync'.work)
    BY <1>1, <1>4 DEF UpsertPage
  <2> QED BY <1>4, <2>1 DEF UpsertPage
<1>5. CASE FetchWindow
  <2> DEFINE s == [sync EXCEPT !.page = Window]
  <2>1. s \in Session
    BY DEF Window, Session
  <2>2. sync' = [s EXCEPT !.pc = "mark"] \/ sync' = [s EXCEPT !.pc = "window"]
        \/ sync' = BatchPlan(s)
    BY <1>5 DEF FetchWindow
  <2>3. Away
    <3> HIDE DEF s
    <3> QED BY <2>1, <2>2, CallPlanEffect DEF Session
  <2> QED BY <2>3
<1>6. CASE UpsertBatch
  <2>1. Away
    BY <1>6, CallPlanEffect DEF UpsertBatch
  <2> QED BY <2>1
<1>7. CASE AdvanceCalls \/ ResolveOrphans
  <2>1. Away
    BY <1>7 DEF AdvanceCalls, ResolveOrphans, Session
  <2> QED BY <2>1
<1>8. CASE EndCalls
  <2>1. CASE sync.phase = "boot"
    <3>1. sync'.pc = "contacts" /\ sync'.cursor = ContactStart
      BY <1>8, <2>1 DEF EndCalls, Session
    <3> QED BY <3>1
  <2>2. CASE sync.phase # "boot"
    <3>1. sync'.pc = "resolve"
      BY <1>8, <2>2 DEF EndCalls, Session
    <3> QED BY <3>1
  <2> QED BY <2>1, <2>2
<1>9. CASE Fail \/ PersistFailure \/ Crash
  <2>1. Away
    BY <1>9 DEF Fail, PersistFailure, Crash, RolledBack, Idle
  <2> QED BY <2>1
<1> QED BY <1>2, <1>3, <1>4, <1>5, <1>6, <1>7, <1>8, <1>9 DEF QuietStep

(* What the session does with the database left alone.                      *)
LEMMA QuietAck ==
  ASSUME TypeInv, AckInv, QuietStep
  PROVE  AckInv'
<1> USE DEF AckInv
<1>1. UNCHANGED <<now, contact, clamps, lead, ref, hook, contactMark, failed>>
  BY QuietMoves
<1>2. TimesOK' /\ HookForward' /\ ContactsAcknowledged'
  BY <1>1 DEF TimesOK, HookForward, ContactsAcknowledged, Accounted, Ambiguous
<1>3. ASSUME NEW ds, PageCovers(ds)
      PROVE  PageCovers(ds)'
  BY <1>1, <1>3 DEF PageCovers, Overtakes
<1>4. ASSUME NEW ds, NEW w, PlanCovers(ds, w)
      PROVE  PlanCovers(ds, w)'
  BY <1>1, <1>4 DEF PlanCovers, Ambiguous
<1>5. CASE sync'.pc \notin {"contacts", "fetched", "page"}
  BY <1>2, <1>5 DEF CursorOK
<1>6. CASE sync'.pc = "contacts" /\ sync'.cursor \in {0, ContactStart}
  <2>1. sync'.cursor <= now /\ \A c \in Contacts :
           contact[c].at > contactMark => contact[c].at > sync'.cursor
    BY <1>6, BoundsTyped DEF ContactStart, Later, TimesOK, TypeInv, TypeOK
  <2>2. CursorOK'
    BY <1>1, <2>1 DEF CursorOK
  <2> QED BY <1>2, <1>6, <2>2
<1>7. CASE /\ sync.pc = "contacts" /\ sync'.pc = "fetched"
           /\ sync'.page = {Dto(c) : c \in Page}
  <2>1. PageCovers(sync'.page)
    BY <1>7, PageIsCovering
  <2>2. PageCovers(sync.page)'
    BY <1>3, <2>1
  <2> QED BY <1>2, <1>7, <2>2 DEF CursorOK
<1>8. CASE /\ sync'.pc = "page" /\ PlansFor(sync'.page, sync'.work)
           /\ \/ sync.pc = "fetched" /\ sync'.page = sync.page
              \/ sync.pc = "contacts" /\ sync'.page = {Dto(c) : c \in Page}
  <2>1. PageCovers(sync'.page) /\ sync'.page \in SUBSET Version
    <3>1. CASE sync.pc = "fetched" /\ sync'.page = sync.page
      BY <3>1 DEF TypeInv, SessionOK, PageOK
    <3>2. CASE sync.pc = "contacts" /\ sync'.page = {Dto(c) : c \in Page}
      <4>1. Page \in SUBSET Contacts /\ TypeOK
        BY DEF Page, Unread, TypeInv
      <4>2. sync'.page \in SUBSET Version
        BY <3>2, <4>1, DtoTyped
      <4> QED BY <3>2, <4>2, PageIsCovering
    <3> QED BY <1>8, <3>1, <3>2
  <2>2. PlanCovers(sync'.page, sync'.work)
    BY <1>8, <2>1, PlanIsCovering
  <2>3. PageCovers(sync.page)' /\ PlanCovers(sync.page, sync.work)'
    BY <1>3, <1>4, <2>1, <2>2
  <2> QED BY <1>2, <1>8, <2>3 DEF CursorOK
<1> QED BY <1>5, <1>6, <1>7, <1>8, QuietMoves


(* A write whose plan is fresh settles no ambiguity and creates none.       *)
LEMMA AmbiguityStands ==
  ASSUME TypeInv, NEW w \in Work, PlanFresh(w, lead, ref), ~w.doomed, Write(w),
         NEW c \in Contacts
  PROVE  Ambiguous(c)' <=> Ambiguous(c)
<1>0. TypeOK /\ lead[c].copies \in Nat
  BY DEF TypeInv, TypeOK
<1>1. CASE c \notin Planned(w.plan)
  BY <1>0, <1>1, WriteEffect DEF Ambiguous
<1>2. CASE c \in Planned(w.plan)
  <2>1. c \in ref'
    BY <1>0, <1>2, WriteEffect
  <2>2. c \in ref \/ lead[c].copies <= 1
    BY <1>2 DEF Planned, PlanFresh
  <2> QED BY <1>0, <2>1, <2>2 DEF Ambiguous
<1> QED BY <1>1, <1>2

(* A lead that goes towards its contact stays accounted for.                *)
LEMMA AccountStands ==
  ASSUME TypeInv, TypeInv', NEW c \in Contacts, Accounted(c), failed' = failed,
         contact'[c].at = contact[c].at, Ambiguous(c)' <=> Ambiguous(c),
         lead[c].at <= lead'[c].at, lead'[c].at <= contact[c].at
  PROVE  Accounted(c)'
<1>1. lead[c].at \in Nat /\ lead'[c].at \in Nat /\ contact[c].at \in Nat
  BY DEF TypeInv, TypeOK
<1>2. CASE lead[c].at = contact[c].at
  BY <1>1, <1>2 DEF Accounted
<1>3. CASE lead[c].at # contact[c].at
  BY <1>3 DEF Accounted
<1> QED BY <1>2, <1>3

(* A step that leaves the session's contacts alone and takes leads, if at   *)
(* all, towards their contacts.                                             *)
LEMMA LeadsAdvance ==
  ASSUME TypeInv, TypeInv', AckInv, HookForward',
         UNCHANGED <<now, contact, clamps, contactMark, failed>>,
         sync'.pc = sync.pc, sync'.cursor = sync.cursor, sync'.page = sync.page,
         sync'.work.plan = sync.work.plan, sync'.work.failed = sync.work.failed,
         \A c \in Contacts : /\ lead[c].at <= lead'[c].at /\ lead'[c].at <= contact[c].at
                             /\ Ambiguous(c)' <=> Ambiguous(c)
  PROVE  AckInv'
<1> USE DEF AckInv
<1>0. \A c \in Contacts : lead[c].at \in Nat /\ lead'[c].at \in Nat /\ contact[c].at \in Nat
  BY DEF TypeInv, TypeOK
<1>1. TimesOK' /\ CursorOK'
  BY DEF TimesOK, CursorOK
<1>2. ContactsAcknowledged'
  BY AccountStands DEF ContactsAcknowledged
<1>3. sync'.pc \in {"fetched", "page"} => PageCovers(sync.page)'
  BY DEF PageCovers, Overtakes
<1>4. sync'.pc = "page" => PlanCovers(sync.page, sync.work)'
  <2> SUFFICES ASSUME sync.pc = "page", NEW d \in sync.page \ sync.work.failed,
                      d.id \notin Planned(sync.work.plan), ~Ambiguous(d.id)',
                      contact[d.id].at = d.at
               PROVE  lead'[d.id].at = d.at
    BY DEF PlanCovers
  <2>1. d.id \in Contacts
    BY DEF TypeInv, SessionOK, PageOK, Version
  <2>2. lead[d.id].at = d.at
    BY <2>1 DEF PlanCovers
  <2> QED BY <1>0, <2>1, <2>2
<1> QED BY <1>1, <1>2, <1>3, <1>4

(* The webhook's commit and abort.                                          *)
LEMMA HookAck ==
  ASSUME TypeInv, TypeInv', FreshInv, AckInv, CommitHook \/ AbortHook
  PROVE  AckInv'
<1>0. sync.work \in Work /\ hook.work \in Work /\ TypeOK /\ NoWork.plan = {}
  BY DEF TypeInv, SessionOK, Session, NoWork
<1>1. CASE CommitHook
  <2>1. /\ Write(hook.work) /\ ~hook.work.doomed /\ hook'.work = NoWork
        /\ UNCHANGED <<now, contact>> /\ sync'.work = Hit(sync.work, Rows(hook.work))
    BY <1>1, CommitHookEffect
  <2>2. UNCHANGED <<clamps, contactMark, failed>>
        /\ sync'.pc = sync.pc /\ sync'.cursor = sync.cursor /\ sync'.page = sync.page
    BY <1>1, HitSession DEF CommitHook, TypeInv, provider, marks
  <2>3. sync'.work.plan = sync.work.plan /\ sync'.work.failed = sync.work.failed
    BY <1>0, <2>1, HitTyped
  <2>4. HookForward'
    BY <1>0, <2>1 DEF HookForward
  <2>5. ASSUME NEW c \in Contacts
        PROVE  /\ lead[c].at <= lead'[c].at /\ lead'[c].at <= contact[c].at
               /\ Ambiguous(c)' <=> Ambiguous(c)
    <3>0. lead[c].at \in Nat /\ contact[c].at \in Nat /\ lead[c].at <= contact[c].at
      BY <1>0 DEF TypeOK, AckInv, TimesOK
    <3>1. Ambiguous(c)' <=> Ambiguous(c)
      BY <1>0, <2>1, AmbiguityStands DEF FreshInv
    <3>2. CASE c \notin Planned(hook.work.plan)
      BY <1>0, <2>1, <3>0, <3>1, <3>2, WriteEffect
    <3>3. CASE c \in Planned(hook.work.plan)
      <4>0. TypeOK /\ hook.work \in Work /\ Write(hook.work)
        BY <1>0, <2>1
      <4>1. PICK p \in hook.work.plan :
              /\ p.id = c
              /\ lead'[c] = [copies |-> IF p.new THEN lead[c].copies + 1 ELSE lead[c].copies,
                             at |-> p.row.at, active |-> p.row.active, flag |-> p.row.flag]
        BY <3>3, <4>0, WriteEffect
      <4>2. lead'[c].at = p.row.at
        BY <4>1
      <4>3. lead[c].at <= p.row.at /\ p.row.at <= contact[c].at
        BY <2>1, <4>1 DEF AckInv, HookForward
      <4> QED BY <3>1, <4>2, <4>3
    <3> QED BY <3>2, <3>3
  <2> QED BY <2>1, <2>2, <2>3, <2>4, <2>5, LeadsAdvance
<1>2. CASE AbortHook
  <2>1. UNCHANGED <<now, contact, clamps, contactMark, sync, lead, ref, failed>>
    BY <1>2 DEF AbortHook, provider, marks, db
  <2>2. HookForward'
    BY <1>0, <1>2 DEF AbortHook, NoHook, HookForward
  <2>3. \A c \in Contacts : /\ lead[c].at <= lead'[c].at /\ lead'[c].at <= contact[c].at
                            /\ Ambiguous(c)' <=> Ambiguous(c)
    BY <1>0, <2>1 DEF TypeOK, AckInv, TimesOK, Ambiguous
  <2> QED BY <2>1, <2>2, <2>3, LeadsAdvance
<1> QED BY <1>1, <1>2

(* Users, new calls and a new webhook.                                      *)
LEMMA EditAck ==
  ASSUME TypeInv, TypeInv', AckInv,
         \/ \E c \in Contacts : BeginHook(c)
         \/ \E c \in Contacts, on \in BOOLEAN : SetActive(c, on)
         \/ \E k \in Calls : RecordCall(k)
         \/ UNCHANGED vars
  PROVE  AckInv'
<1>0. sync.work \in Work /\ hook.work \in Work /\ TypeOK
  BY DEF TypeInv, SessionOK, Session
<1>1. \A c \in Contacts : lead[c].at \in Nat /\ contact[c].at \in Nat
                          /\ lead[c].at <= contact[c].at
  BY <1>0 DEF TypeOK, AckInv, TimesOK
<1>2. ASSUME NEW c \in Contacts, BeginHook(c)
      PROVE  AckInv'
  <2>1. UNCHANGED <<now, contact, clamps, contactMark, sync, lead, ref, failed>>
    BY <1>2 DEF BeginHook, db, provider, marks
  <2>2. PICK ds \in SUBSET {Dto(c)} : hook'.work.plan = LeadPlan(ds)
    BY <1>2, BeginHookEffect
  <2>3. ASSUME NEW p \in LeadPlan(ds)
        PROVE  lead[p.id].at <= p.row.at /\ p.row.at <= contact[p.id].at
    <3>1. PICK d \in ds : p = [id |-> d.id, new |-> lead[d.id].copies = 0,
                               row |-> LeadValues(d)]
      BY DEF LeadPlan
    <3>2. d = Dto(c)
      OBVIOUS
    <3>3. d.id = c /\ d.at = contact[c].at
      BY <1>0, <3>2, DtoTyped
    <3>4. p.id = c /\ p.row.at = contact[c].at
      BY <3>1, <3>3 DEF LeadValues
    <3> QED BY <1>1, <3>4
  <2>4. HookForward'
    BY <2>1, <2>2, <2>3 DEF HookForward
  <2>5. \A x \in Contacts : /\ lead[x].at <= lead'[x].at /\ lead'[x].at <= contact[x].at
                            /\ Ambiguous(x)' <=> Ambiguous(x)
    BY <1>1, <2>1 DEF Ambiguous
  <2> QED BY <2>1, <2>4, <2>5, LeadsAdvance
<1>3. ASSUME NEW c \in Contacts, NEW on \in BOOLEAN, SetActive(c, on)
      PROVE  AckInv'
  <2> DEFINE rows == {<<"lead", c>>}
  <2>1. /\ \A d \in Contacts \ {c} : lead'[d] = lead[d]
        /\ lead'[c] = [lead[c] EXCEPT !.active = on]
        /\ sync'.work = Hit(sync.work, rows) /\ hook'.work = Hit(hook.work, rows)
        /\ UNCHANGED <<now, contact, ref>>
    BY <1>3, SetActiveEffect
  <2>2. UNCHANGED <<clamps, contactMark, failed>>
        /\ sync'.pc = sync.pc /\ sync'.cursor = sync.cursor /\ sync'.page = sync.page
    BY <1>3, HitSession DEF SetActive, TypeInv, provider, marks
  <2>3. \A x \in Contacts : lead'[x].at = lead[x].at /\ lead'[x].copies = lead[x].copies
    <3>1. lead[c] \in [copies : Nat, at : Nat, active : BOOLEAN, flag : BOOLEAN]
      BY <1>0 DEF TypeOK
    <3>2. lead'[c].at = lead[c].at /\ lead'[c].copies = lead[c].copies
      BY <2>1, <3>1
    <3> QED BY <2>1, <3>2
  <2>4. sync'.work.plan = sync.work.plan /\ sync'.work.failed = sync.work.failed
    BY <1>0, <2>1, HitTyped
  <2>5. HookForward'
    <3> SUFFICES ASSUME ~Hit(hook.work, rows).doomed, NEW p \in Hit(hook.work, rows).plan
                 PROVE  lead'[p.id].at <= p.row.at /\ p.row.at <= contact'[p.id].at
      BY <2>1 DEF HookForward
    <3>1. p \in hook.work.plan /\ ~hook.work.doomed
      BY <1>0, HitTyped
    <3>2. p.id \in Contacts
      BY <1>0, <3>1 DEF Work
    <3> QED BY <2>1, <2>3, <3>1, <3>2 DEF AckInv, HookForward
  <2>6. \A x \in Contacts : /\ lead[x].at <= lead'[x].at /\ lead'[x].at <= contact[x].at
                            /\ Ambiguous(x)' <=> Ambiguous(x)
    BY <1>1, <2>1, <2>3 DEF Ambiguous
  <2> QED BY <2>1, <2>2, <2>4, <2>5, <2>6, LeadsAdvance
<1>4. CASE UNCHANGED vars \/ \E k \in Calls : RecordCall(k)
  <2>1. UNCHANGED <<now, contact, clamps, contactMark, sync, lead, ref, hook, failed>>
    BY <1>4 DEF vars, RecordCall, db, marks
  <2>2. HookForward'
    BY <2>1 DEF HookForward, AckInv
  <2>3. \A x \in Contacts : /\ lead[x].at <= lead'[x].at /\ lead'[x].at <= contact[x].at
                            /\ Ambiguous(x)' <=> Ambiguous(x)
    BY <1>1, <2>1 DEF Ambiguous
  <2> QED BY <2>1, <2>2, <2>3, LeadsAdvance
<1> QED BY <1>2, <1>3, <1>4

(* The clock and the provider: what is modified now is newer than anything  *)
(* the session has read, and Timely says it can still be requested.         *)
LEMMA ProviderAck ==
  ASSUME TypeInv, TypeInv', Faithful, AckInv,
         Tick \/ \E c \in Contacts : Modify(c)
  PROVE  AckInv'
<1> USE DEF AckInv
<1>0. /\ now \in Nat /\ contactMark \in Nat
      /\ \A c \in Contacts : lead[c].at \in Nat /\ contact[c].at \in Nat
  BY DEF TypeInv, TypeOK
<1>1. /\ now' = now + 1
      /\ \A c \in Contacts :
           contact[c].at > contactMark => contact[c].at > now + 1 - Lookback
      /\ UNCHANGED <<clamps, lead, ref, contactMark, sync, hook, failed>>
  <2>1. "outage" \notin Ops
    BY DEF Faithful
  <2>2. now' = now + 1 /\ Timely(now + 1)
        /\ UNCHANGED <<clamps, lead, ref, contactMark, sync, hook, failed>>
    BY DEF Tick, Modify, provider, db, marks
  <2>3. \A c \in Contacts :
          contact[c].at > contactMark => contact[c].at > now + 1 - Lookback
    BY <1>0, <2>1, <2>2, BoundsTyped DEF Timely
  <2> QED BY <2>2, <2>3
<1>2. \A c \in Contacts : contact'[c].at = contact[c].at \/ contact'[c].at = now + 1
  <2>1. CASE Tick
    BY <2>1 DEF Tick, provider
  <2>2. ASSUME NEW c \in Contacts, Modify(c), NEW d \in Contacts
        PROVE  contact'[d].at = contact[d].at \/ contact'[d].at = now + 1
    <3>1. PICK deleted \in BOOLEAN :
            contact' = [contact EXCEPT ![c] = [at |-> now + 1, deleted |-> deleted]]
      BY <2>2 DEF Modify
    <3>2. contact \in [Contacts -> [at : Nat, deleted : BOOLEAN]]
      BY DEF TypeInv, TypeOK
    <3> QED BY <3>1, <3>2
  <2> QED BY <2>1, <2>2
<1>3. TimesOK'
  BY <1>0, <1>1, <1>2, BoundsTyped DEF TimesOK
<1>4. HookForward'
  <2> SUFFICES ASSUME ~hook.work.doomed, NEW p \in hook.work.plan
               PROVE  lead[p.id].at <= p.row.at /\ p.row.at <= contact'[p.id].at
    BY <1>1 DEF HookForward
  <2>1. p.id \in Contacts /\ p.row.at \in Nat
    BY DEF TypeInv, TypeOK, Work
  <2> QED BY <1>0, <1>1, <1>2, <2>1 DEF HookForward, TimesOK
<1>5. CursorOK'
  BY <1>0, <1>1, <1>2 DEF CursorOK, TypeInv, SessionOK, Session
<1>6. ContactsAcknowledged'
  <2> SUFFICES ASSUME NEW c \in Contacts, contact'[c].at \in 1..contactMark
               PROVE  Accounted(c)'
    BY <1>1 DEF ContactsAcknowledged
  <2>1. contact'[c].at = contact[c].at
    BY <1>0, <1>2 DEF TimesOK
  <2>2. Accounted(c)
    BY <2>1 DEF ContactsAcknowledged
  <2> QED BY <1>1, <2>1, <2>2 DEF Accounted, Ambiguous
<1>7. ASSUME sync.pc \in {"fetched", "page"}
      PROVE  PageCovers(sync.page)'
  <2>0. /\ sync.page \in SUBSET Version
        /\ PageCovers(sync.page) /\ TimesOK
        /\ \A d \in sync.page : d.at \in Nat /\ d.id \in Contacts
    BY <1>7 DEF TypeInv, SessionOK, PageOK, Version
  <2>1. ASSUME NEW d \in sync.page
        PROVE  d.at <= now' /\ (contact'[d.id].at = d.at \/ Overtakes(d.id, sync.page)')
    <3>1. d.at <= now
      BY <2>0 DEF PageCovers
    <3>2. CASE contact'[d.id].at = now + 1
      <4>1. Overtakes(d.id, sync.page)'
        BY <1>0, <1>1, <2>0, <3>2 DEF Overtakes, PageCovers, TimesOK
      <4> QED BY <1>0, <1>1, <2>0, <3>1, <4>1
    <3>3. CASE contact'[d.id].at = contact[d.id].at
      <4>1. contact[d.id].at = d.at \/ Overtakes(d.id, sync.page)
        BY <2>0 DEF PageCovers
      <4>2. contact'[d.id].at = d.at \/ Overtakes(d.id, sync.page)'
        BY <1>1, <3>3, <4>1 DEF Overtakes
      <4> QED BY <1>0, <1>1, <2>0, <3>1, <4>2
    <3> QED BY <1>2, <2>0, <3>2, <3>3
  <2>2. ASSUME NEW c \in Contacts, NEW d \in sync.page,
               contactMark < contact'[c].at, contact'[c].at <= d.at
        PROVE  \E e \in sync.page : e.id = c /\ e.at = contact'[c].at
    <3>1. d.at <= now
      BY <2>0 DEF PageCovers
    <3>2. contact'[c].at = contact[c].at
      BY <1>0, <1>2, <2>0, <2>2, <3>1
    <3> QED BY <2>0, <2>2, <3>2 DEF PageCovers
  <2> QED BY <1>1, <2>1, <2>2 DEF PageCovers
<1>8. ASSUME sync.pc = "page"
      PROVE  PlanCovers(sync.page, sync.work)'
  <2>0. /\ PlanCovers(sync.page, sync.work) /\ PageCovers(sync.page)
        /\ \A d \in sync.page : d.at \in Nat /\ d.id \in Contacts
    BY <1>8 DEF TypeInv, SessionOK, PageOK, Version
  <2>1. \A d \in sync.page : contact'[d.id].at = d.at => contact[d.id].at = d.at
    BY <1>0, <1>2, <2>0 DEF PageCovers
  <2> QED BY <1>1, <2>0, <2>1 DEF PlanCovers, Ambiguous
<1> QED BY <1>1, <1>3, <1>4, <1>5, <1>6, <1>7, <1>8

(* The webhook keeps going forward when another transaction commits.        *)
LEMMA CommitKeepsForward ==
  ASSUME TypeInv, NEW w \in Work, Write(w), HookForward, contact' = contact,
         hook'.work = Hit(hook.work, Rows(w))
  PROVE  HookForward'
<1>0. hook.work \in Work /\ TypeOK
  BY DEF TypeInv
<1> SUFFICES ASSUME ~Hit(hook.work, Rows(w)).doomed, NEW p \in hook.work.plan
             PROVE  lead'[p.id].at <= p.row.at /\ p.row.at <= contact[p.id].at
  BY <1>0, HitTyped DEF HookForward
<1>1. p.id \in Contacts /\ p.id \notin Planned(w.plan)
  BY <1>0, SurvivorsAreDisjoint DEF Work
<1>2. lead'[p.id] = lead[p.id]
  BY <1>0, <1>1, WriteEffect
<1> QED BY <1>0, <1>2, HitTyped DEF HookForward

(* What the commit of a page does to a lead.                                *)
LEMMA PageLeads ==
  ASSUME TypeInv, FreshInv, CommitPage, PlanCovers(sync.page, sync.work),
         NEW c \in Contacts
  PROVE  /\ Ambiguous(c)' <=> Ambiguous(c)
         /\ \/ c \notin Planned(sync.work.plan) /\ lead'[c] = lead[c]
            \/ \E d \in sync.page : d.id = c /\ lead'[c].at = d.at
<1>0. TypeOK /\ Write(sync.work) /\ ~sync.work.doomed /\ sync.work \in Work
  BY CommitEffect DEF TypeInv
<1>1. Ambiguous(c)' <=> Ambiguous(c)
  BY <1>0, AmbiguityStands DEF FreshInv
<1>2. CASE c \notin Planned(sync.work.plan)
  BY <1>0, <1>1, <1>2, WriteEffect
<1>3. CASE c \in Planned(sync.work.plan)
  <2>1. PICK p \in sync.work.plan :
          /\ p.id = c
          /\ lead'[c] = [copies |-> IF p.new THEN lead[c].copies + 1 ELSE lead[c].copies,
                         at |-> p.row.at, active |-> p.row.active, flag |-> p.row.flag]
    BY <1>0, <1>3, WriteEffect
  <2>2. lead'[c].at = p.row.at
    BY <2>1
  <2>3. PICK d \in sync.page : p.id = d.id /\ p.row.at = d.at
    BY <2>1 DEF PlanCovers
  <2> QED BY <1>1, <2>1, <2>2, <2>3
<1> QED BY <1>2, <1>3

(* A page whose rows of the contact are current accounts for it.            *)
LEMMA PageAccounts ==
  ASSUME TypeInv, FreshInv, CommitPage, PlanCovers(sync.page, sync.work),
         NEW c \in Contacts, contact'[c].at = contact[c].at,
         \A d \in sync.page : d.id = c => d.at = contact[c].at,
         Accounted(c) \/ \E d \in sync.page : d.id = c
  PROVE  Accounted(c)'
<1> DEFINE w == sync.work
<1>1. /\ Ambiguous(c)' <=> Ambiguous(c)
      /\ \/ c \notin Planned(w.plan) /\ lead'[c] = lead[c]
         \/ \E d \in sync.page : d.id = c /\ lead'[c].at = d.at
  BY PageLeads
<1>2. failed' = w.failed \cup {v \in failed : \A d \in w.failed : d.id # v.id}
  BY DEF CommitPage
<1>3. CASE \E d \in w.failed : d.id = c
  <2>1. PICK d \in w.failed : d.id = c
    BY <1>3
  <2>2. d \in failed' /\ d.at = contact'[c].at
    BY <1>2, <2>1 DEF PlanCovers
  <2> QED BY <2>1, <2>2 DEF Accounted
<1>4. CASE \E d \in sync.page : d.id = c /\ lead'[c].at = d.at
  BY <1>4 DEF Accounted
<1>5. CASE /\ \A d \in w.failed : d.id # c
           /\ c \notin Planned(w.plan) /\ lead'[c] = lead[c]
  <2>1. CASE \E v \in failed : v.id = c /\ v.at = contact[c].at
    <3>1. PICK v \in failed : v.id = c /\ v.at = contact[c].at
      BY <2>1
    <3>2. v \in failed'
      BY <1>2, <1>5, <3>1
    <3> QED BY <3>1, <3>2 DEF Accounted
  <2>2. CASE lead[c].at = contact[c].at \/ Ambiguous(c)
    BY <1>1, <1>5, <2>2 DEF Accounted
  <2>3. CASE \E d \in sync.page : d.id = c
    <3>1. PICK d \in sync.page : d.id = c /\ d.at = contact[c].at /\ d \notin w.failed
      BY <1>5, <2>3
    <3>2. Ambiguous(c) \/ lead[c].at = contact[c].at
      BY <1>5, <3>1 DEF PlanCovers
    <3> QED BY <2>2, <3>2
  <2> QED BY <2>1, <2>2, <2>3 DEF Accounted
<1> QED BY <1>1, <1>3, <1>4, <1>5

(* The commit of a page: the step that advances the watermark.              *)
LEMMA CommitPageAck ==
  ASSUME TypeInv, TypeInv', FreshInv, AckInv, CommitPage
  PROVE  AckInv'
<1> USE DEF AckInv
<1> DEFINE ds == sync.page
           last == BatchEnd(ds)
<1>0. /\ TypeOK /\ now \in Nat /\ contactMark \in Nat
      /\ \A c \in Contacts : lead[c].at \in Nat /\ contact[c].at \in Nat
  BY DEF TypeInv, TypeOK
<1>1. /\ sync.pc = "page" /\ Write(sync.work) /\ ~sync.work.doomed /\ sync.work \in Work
      /\ hook'.work = Hit(hook.work, Rows(sync.work))
      /\ UNCHANGED <<now, contact, clamps>>
  BY CommitEffect DEF CommitPage, provider
<1>2. /\ ds \in SUBSET Version /\ ds # {} /\ IsFiniteSet(ds)
      /\ PageCovers(ds) /\ PlanCovers(ds, sync.work)
  BY <1>1 DEF TypeInv, SessionOK, PageOK
<1>3. /\ last \in Nat /\ last <= now
      /\ \E d \in ds : last = d.at
      /\ \A d \in ds : d.at <= last
  <2>1. last \in Nat /\ (\E d \in ds : last = d.at) /\ \A d \in ds : d.at <= last
    BY <1>2, BatchEndIsLast
  <2>2. \A d \in ds : d.at <= now
    BY <1>2 DEF PageCovers
  <2> QED BY <2>1, <2>2
<1>4. contactMark' = IF contactMark >= last THEN contactMark ELSE last
  BY DEF CommitPage, Forward, Later
<1>5. HookForward'
  BY <1>1, CommitKeepsForward
<1>6. ASSUME NEW c \in Contacts
      PROVE  lead'[c] = lead[c] \/ \E d \in ds : d.id = c /\ lead'[c].at = d.at
  BY <1>2, PageLeads
<1>7. ASSUME NEW d \in ds
      PROVE  /\ d.id \in Contacts /\ d.at \in Nat
             /\ \/ contact[d.id].at = d.at
                \/ contact[d.id].at > contactMark /\ \A e \in ds : contact[d.id].at > e.at
  BY <1>2 DEF PageCovers, Overtakes, Version
<1>8. \A c \in Contacts : lead'[c].at <= contact[c].at
  <2> SUFFICES ASSUME NEW c \in Contacts PROVE lead'[c].at <= contact[c].at
    OBVIOUS
  <2>1. CASE lead'[c] = lead[c]
    BY <2>1 DEF TimesOK
  <2>2. CASE \E d \in ds : d.id = c /\ lead'[c].at = d.at
    <3>1. PICK d \in ds : d.id = c /\ lead'[c].at = d.at
      BY <2>2
    <3> HIDE DEF ds
    <3> QED BY <1>0, <1>7, <3>1
  <2> QED BY <1>6, <2>1, <2>2
<1>9. TimesOK'
  <2> HIDE DEF last
  <2> QED BY <1>0, <1>1, <1>3, <1>4, <1>8 DEF TimesOK
<1>10. ASSUME NEW c \in Contacts, contact[c].at >= 1, contact[c].at <= contactMark'
       PROVE  Accounted(c)'
  <2>1. ASSUME NEW d \in ds, d.id = c
        PROVE  d.at = contact[c].at
    <3>1. contact[c].at <= contactMark \/ \E e \in ds : contact[c].at <= e.at
      BY <1>3, <1>4, <1>10
    <3> HIDE DEF ds
    <3> QED BY <1>0, <1>7, <2>1, <3>1
  <2>2. Accounted(c) \/ \E d \in ds : d.id = c
    <3>1. CASE contact[c].at <= contactMark
      BY <1>0, <1>10, <3>1 DEF ContactsAcknowledged
    <3>2. CASE contactMark < contact[c].at
      <4>1. contact[c].at <= last
        BY <1>0, <1>3, <1>4, <1>10, <3>2
      <4>2. PICK e \in ds : e.id = c /\ e.at = contact[c].at
        BY <1>2, <1>3, <3>2, <4>1 DEF PageCovers
      <4> QED BY <4>2
    <3> QED BY <1>0, <3>1, <3>2
  <2> QED BY <1>1, <1>2, <2>1, <2>2, PageAccounts
<1>11. ContactsAcknowledged'
  <2>1. \A c \in Contacts : contact'[c].at \in 1..contactMark'
          => contact[c].at >= 1 /\ contact[c].at <= contactMark'
    BY <1>0, <1>1, <1>4, <1>3
  <2> QED BY <1>1, <1>10, <2>1 DEF ContactsAcknowledged
<1>12. CursorOK' /\ sync'.pc \notin {"fetched", "page"}
  <2>1. sync' = AfterPage(sync) /\ sync \in Session
    BY DEF CommitPage, TypeInv, SessionOK
  <2>2. CASE sync.more
    <3>1. sync'.pc = "contacts" /\ sync'.cursor = last
      BY <2>1, <2>2 DEF AfterPage, Session
    <3>2. \A c \in Contacts : contact'[c].at > contactMark' => contact'[c].at > last
      BY <1>0, <1>1, <1>3, <1>4
    <3>3. CursorOK'
      BY <1>1, <1>3, <3>1, <3>2 DEF CursorOK
    <3> QED BY <3>1, <3>3
  <2>3. CASE ~sync.more
    <3>1. sync'.pc = "calls"
      BY <1>0, <2>1, <2>3, BeginCallsTyped DEF AfterPage
    <3> QED BY <3>1 DEF CursorOK
  <2> QED BY <2>1, <2>2, <2>3 DEF Session
<1> QED BY <1>5, <1>9, <1>11, <1>12

(* The commits of the call phases write no lead.                            *)
LEMMA CommitCallsAck ==
  ASSUME TypeInv, TypeInv', FreshInv, AckInv, CommitBatch \/ Finish
  PROVE  AckInv'
<1> USE DEF AckInv
<1>0. TypeOK /\ sync \in Session
  BY DEF TypeInv, SessionOK
<1>1. /\ Write(sync.work) /\ sync.work \in Work
      /\ hook'.work = Hit(hook.work, Rows(sync.work))
      /\ UNCHANGED <<now, contact>>
  BY CommitEffect
<1>2. UNCHANGED <<clamps, contactMark, failed>>
  BY DEF CommitBatch, Finish, provider, marks
<1>3. sync.work.plan = {}
  BY DEF CommitBatch, Finish, FreshInv
<1>4. \A c \in Contacts : lead'[c] = lead[c] /\ (c \in ref' <=> c \in ref)
  BY <1>0, <1>1, <1>3, WriteEffect DEF Planned
<1>5. HookForward'
  BY <1>1, CommitKeepsForward
<1>6. sync'.pc \notin {"contacts", "fetched", "page"}
  <2>1. CASE CommitBatch
    BY <1>0, <2>1 DEF CommitBatch, Session
  <2>2. CASE Finish
    BY <2>2 DEF Finish, Idle
  <2> QED BY <2>1, <2>2
<1>7. TimesOK' /\ ContactsAcknowledged'
  BY <1>1, <1>2, <1>4 DEF TimesOK, ContactsAcknowledged, Accounted, Ambiguous
<1> QED BY <1>5, <1>6, <1>7 DEF CursorOK

LEMMA NextAck ==
  Faithful /\ TypeInv /\ FreshInv /\ AckInv /\ [Next]_vars => AckInv'
<1> SUFFICES ASSUME Faithful, TypeInv, FreshInv, AckInv, [Next]_vars PROVE AckInv'
  OBVIOUS
<1>1. TypeInv'
  BY NextTyped
<1>2. CASE UNCHANGED vars
  BY <1>1, <1>2, EditAck
<1>3. CASE Next
  BY <1>1, <1>3, Steps, QuietAck, CommitPageAck, CommitCallsAck, HookAck, EditAck, ProviderAck
<1> QED BY <1>2, <1>3

(* What holds of invariant I1 of the launch gates for contacts.  With a     *)
(* provider that answers what it is asked and no outage beyond the lookback *)
(* the watermark covers only modifications that a lead holds, whose contact *)
(* is ambiguous, or that a page counted as failed: over all pages, retries, *)
(* crashes and racing webhooks.                                             *)
THEOREM ContactsAreAcknowledged == ASSUME Faithful PROVE Spec => []ContactsAcknowledged
<1>1. Spec => [](TypeInv /\ FreshInv /\ AckInv)
  BY InitTyped, NextTyped, InitFresh, NextFresh, InitAck, NextAck, PTL DEF Spec
<1>2. AckInv => ContactsAcknowledged
  BY DEF AckInv
<1> QED BY <1>1, <1>2, PTL

-----------------------------------------------------------------------------
(***************************************************************************)
(* The call watermark.  The invariant says how far each phase has read:    *)
(* below the cursor every call is an event or an orphan, and a window that *)
(* is on its way holds every call of its interval.  With clocks that agree *)
(* a new call carries the present time, beyond every window that is read.  *)
(***************************************************************************)
ClocksAgree == Skew = 0

Floored == BackfillFloor >= 0

(* Every call from the floor up to t has been taken over.                   *)
Read(t) ==
  \A k \in Calls :
    call[k].real > 0 /\ call[k].at >= BackfillFloor /\ call[k].at < t
      => k \in event \cup orphans

(* A time below which no new call can appear.                               *)
Settled(t) == t <= now \/ t <= BackfillFloor

InContacts == sync.pc \in {"contacts", "fetched", "page"}
InWindow == sync.pc \in {"window", "batch"}
InCalls == sync.pc = "calls" \/ InWindow \/ sync.pc = "mark"

(* The bounds the session has taken from the clock.                         *)
BoundsPast ==
  /\ callMark <= now /\ sync.started <= now
  /\ InCalls => sync.end <= now /\ (sync.phase = "boot" => sync.end = sync.started)
  /\ InWindow \/ sync.pc = "mark" => sync.cursor < sync.end

(* The catch-up of a full import begins where its bootstrap has read.       *)
BootRead == sync.phase = "catch" /\ InContacts => Read(sync.started)

CursorRead ==
  /\ sync.pc = "calls" \/ InWindow => Read(sync.cursor) /\ Settled(sync.cursor)
  /\ sync.pc = "mark" => Read(WindowEnd)

WindowHeld ==
  /\ InWindow =>
       \A k \in Calls : call[k].real > 0 /\ call[k].at >= sync.cursor /\ call[k].at < WindowEnd
                          => k \in sync.page
  /\ sync.pc = "batch" =>
       /\ sync.work.resolved = {}
       /\ sync.page \subseteq event \cup orphans \cup sync.work.events \cup sync.work.buffer

CallInv ==
  /\ BoundsPast
  /\ BootRead
  /\ CursorRead
  /\ WindowHeld
  /\ Read(callMark)

LEMMA InitCalls == ClocksAgree /\ Floored /\ Init => CallInv
<1> SUFFICES ASSUME Init, Floored PROVE CallInv
  OBVIOUS
<1>1. /\ now = 1 /\ callMark = 0 /\ sync.started = 0 /\ sync.pc = "idle"
      /\ \A k \in Calls : call[k].real = 0
  BY DEF Init, Idle
<1> QED BY <1>1 DEF CallInv, BoundsPast, BootRead, CursorRead, WindowHeld, Read,
                    InCalls, InWindow, InContacts

(* Nothing written is lost: an orphan that is resolved becomes an event.    *)
LEMMA WritesKeepCalls ==
  ASSUME NEW w, Write(w)
  PROVE  event \cup orphans \subseteq event' \cup orphans'
BY DEF Write

(* The calls change only by a new one, which carries the present time.      *)
NewCallsAreNow ==
  \A k \in Calls : call'[k] = call[k] \/ (call[k].real = 0 /\ call'[k].at = now)

(* What has been read up to a settled time stays read.                      *)
LEMMA ReadStands ==
  ASSUME TypeInv, NEW t \in Nat, Settled(t), Read(t), NewCallsAreNow,
         now' \in Nat, now <= now',
         event \cup orphans \subseteq event' \cup orphans'
  PROVE  Read(t)' /\ Settled(t)'
<1>0. now \in Nat /\ BackfillFloor \in Nat \cup {-1}
  BY BoundsTyped DEF TypeInv, TypeOK
<1>1. Settled(t)'
  BY <1>0 DEF Settled
<1>2. ASSUME NEW k \in Calls, call'[k].real > 0, call'[k].at >= BackfillFloor,
             call'[k].at < t
      PROVE  k \in event' \cup orphans'
  <2>1. CASE call'[k] = call[k]
    BY <1>2, <2>1 DEF Read
  <2>2. CASE call'[k].at = now
    BY <1>0, <1>2, <2>2 DEF Settled
  <2> QED BY <2>1, <2>2 DEF NewCallsAreNow
<1> QED BY <1>1, <1>2 DEF Read

(* A step of another actor: the session's bookkeeping stays as it is.       *)
LEMMA OthersKeepCalls ==
  ASSUME TypeInv, TypeInv', CallInv, NewCallsAreNow, now <= now', callMark' = callMark,
         event \cup orphans \subseteq event' \cup orphans',
         sync'.pc = sync.pc, sync'.phase = sync.phase, sync'.cursor = sync.cursor,
         sync'.end = sync.end, sync'.started = sync.started, sync'.page = sync.page,
         sync'.work.events = sync.work.events, sync'.work.buffer = sync.work.buffer,
         sync'.work.resolved = sync.work.resolved
  PROVE  CallInv'
<1> USE DEF CallInv
<1>0. /\ now \in Nat /\ now' \in Nat /\ callMark \in Nat
      /\ sync.cursor \in Nat /\ sync.started \in Nat /\ sync.end \in Nat
  BY DEF TypeInv, TypeOK, SessionOK, Session
<1>1. ASSUME NEW t \in Nat, Settled(t), Read(t)
      PROVE  Read(t)' /\ Settled(t)'
  BY <1>0, <1>1, ReadStands
<1>2. InCalls' = InCalls /\ InWindow' = InWindow /\ InContacts' = InContacts
      /\ WindowEnd' = WindowEnd
  BY DEF InCalls, InWindow, InContacts, WindowEnd
<1>3. BoundsPast'
  BY <1>0, <1>2 DEF BoundsPast
<1>4. BootRead'
  BY <1>0, <1>1, <1>2 DEF BootRead, BoundsPast, Settled
<1>5. Read(callMark)'
  <2>1. Read(callMark) /\ Settled(callMark)
    BY DEF BoundsPast, Settled
  <2> QED BY <1>0, <1>1, <2>1
<1>6. CursorRead'
  <2>1. sync.pc = "mark" => WindowEnd \in Nat /\ Settled(WindowEnd)
    BY <1>0 DEF WindowEnd, Earlier, BoundsPast, Settled, InCalls
  <2>2. sync.pc = "mark" => Read(WindowEnd)'
    BY <1>1, <1>2, <2>1 DEF CursorRead
  <2>3. sync.pc = "calls" \/ InWindow => Read(sync.cursor)' /\ Settled(sync.cursor)'
    BY <1>0, <1>1 DEF CursorRead
  <2> QED BY <1>2, <2>2, <2>3 DEF CursorRead
<1>7. WindowHeld'
  <2>1. ASSUME InWindow, NEW k \in Calls, call'[k].real > 0,
               call'[k].at >= sync.cursor, call'[k].at < WindowEnd
        PROVE  k \in sync.page
    <3>1. WindowEnd <= now /\ WindowEnd \in Nat
      BY <1>0, <2>1 DEF WindowEnd, Earlier, BoundsPast, InCalls
    <3>2. call'[k] = call[k]
      BY <1>0, <2>1, <3>1 DEF NewCallsAreNow
    <3> QED BY <2>1, <3>2 DEF WindowHeld
  <2>2. sync.pc = "batch" =>
          /\ sync'.work.resolved = {}
          /\ sync'.page \subseteq event' \cup orphans' \cup sync'.work.events
                                    \cup sync'.work.buffer
    BY DEF WindowHeld
  <2> QED BY <1>2, <2>1, <2>2 DEF WindowHeld
<1> QED BY <1>3, <1>4, <1>5, <1>6, <1>7

LEMMA OthersCalls ==
  ASSUME ClocksAgree, TypeInv, TypeInv', CallInv,
         \/ CommitHook \/ AbortHook \/ Tick \/ UNCHANGED vars
         \/ \E c \in Contacts : BeginHook(c) \/ Modify(c)
         \/ \E c \in Contacts, on \in BOOLEAN : SetActive(c, on)
         \/ \E k \in Calls : RecordCall(k)
  PROVE  CallInv'
<1>0. /\ sync.work \in Work /\ now \in Nat
      /\ call \in [Calls -> [at : Nat, real : Nat]]
  BY DEF TypeInv, TypeOK, SessionOK, Session
<1>1. CASE CommitHook
  <2>1. /\ event \cup orphans \subseteq event' \cup orphans'
        /\ now' = now /\ call' = call /\ callMark' = callMark
    BY <1>1, WritesKeepCalls DEF CommitHook, provider, marks
  <2>2. /\ sync'.work = Hit(sync.work, Rows(hook.work))
        /\ sync'.pc = sync.pc /\ sync'.page = sync.page /\ sync'.phase = sync.phase
        /\ sync'.cursor = sync.cursor /\ sync'.end = sync.end
        /\ sync'.started = sync.started
    BY <1>1, HitSession DEF CommitHook, TypeInv
  <2>3. NewCallsAreNow
    BY <2>1 DEF NewCallsAreNow
  <2> QED BY <1>0, <2>1, <2>2, <2>3, HitTyped, OthersKeepCalls
<1>2. ASSUME NEW c \in Contacts, NEW on \in BOOLEAN, SetActive(c, on)
      PROVE  CallInv'
  <2>1. UNCHANGED <<now, call, callMark, event, orphans>>
    BY <1>2 DEF SetActive, provider, marks
  <2>2. /\ sync'.work = Hit(sync.work, {<<"lead", c>>})
        /\ sync'.pc = sync.pc /\ sync'.page = sync.page /\ sync'.phase = sync.phase
        /\ sync'.cursor = sync.cursor /\ sync'.end = sync.end
        /\ sync'.started = sync.started
    BY <1>2, HitSession DEF SetActive, TypeInv
  <2>3. NewCallsAreNow
    BY <2>1 DEF NewCallsAreNow
  <2> QED BY <1>0, <2>1, <2>2, <2>3, HitTyped, OthersKeepCalls
<1>3. ASSUME NEW j \in Calls, RecordCall(j)
      PROVE  CallInv'
  <2>1. UNCHANGED <<now, callMark, event, orphans, sync>>
    BY <1>3 DEF RecordCall, db, marks
  <2>2. PICK lag \in 0..Skew :
          call[j].real = 0
          /\ call' = [call EXCEPT ![j] = [at |-> Later(0, now - lag), real |-> now]]
    BY <1>3 DEF RecordCall
  <2>3. Later(0, now - lag) = now
    BY <1>0 DEF ClocksAgree, Later
  <2>4. NewCallsAreNow
    BY <1>0, <2>2, <2>3 DEF NewCallsAreNow
  <2> QED BY <1>0, <2>1, <2>4, OthersKeepCalls
<1>4. CASE AbortHook \/ Tick \/ UNCHANGED vars
           \/ \E c \in Contacts : BeginHook(c) \/ Modify(c)
  <2>1. UNCHANGED <<call, callMark, event, orphans, sync>> /\ now <= now'
    <3>1. CASE AbortHook \/ UNCHANGED vars
      BY <1>0, <3>1 DEF AbortHook, vars, provider, db, marks
    <3>2. CASE Tick
      BY <1>0, <3>2 DEF Tick, provider, db, marks
    <3>4. CASE \E c \in Contacts : Modify(c)
      BY <1>0, <3>4 DEF Modify, db, marks
    <3>3. CASE \E c \in Contacts : BeginHook(c)
      BY <1>0, <3>3 DEF BeginHook, provider, db, marks
    <3> QED BY <1>4, <3>1, <3>2, <3>3, <3>4
  <2>2. NewCallsAreNow
    BY <2>1 DEF NewCallsAreNow
  <2> QED BY <2>1, <2>2, OthersKeepCalls
<1> QED BY <1>1, <1>2, <1>3, <1>4

(* A step of the session itself: the clock stands still, nothing is lost.   *)
SessionCalls ==
  /\ now' = now /\ call' = call
  /\ event \cup orphans \subseteq event' \cup orphans'

LEMMA ReadOn ==
  ASSUME SessionCalls, NEW t
  PROVE  /\ Read(t) => Read(t)'
         /\ Settled(t)' <=> Settled(t)
BY DEF SessionCalls, Read, Settled

(* Where the calls of each phase begin, everything before has been read.    *)
LEMMA PhaseStartsRead ==
  ASSUME TypeInv, Floored, CallInv, InContacts
  PROVE  Read(CallStart(sync)) /\ Settled(CallStart(sync))
<1> USE DEF CallInv
<1>0. /\ now \in Nat /\ callMark \in Nat /\ sync.started \in Nat /\ sync.started <= now
      /\ callMark <= now /\ Overlap \in Nat /\ BackfillFloor \in Nat
      /\ sync.phase \in {"only", "boot", "catch"}
      /\ \A k \in Calls : call[k].at \in Nat
  BY BoundsTyped DEF TypeInv, TypeOK, SessionOK, Session, BoundsPast, Floored
<1>1. CASE sync.phase = "boot"
  <2>1. CallStart(sync) = 0
    BY <1>1 DEF CallStart
  <2> QED BY <1>0, <2>1 DEF Read, Settled
<1>2. CASE sync.phase = "catch"
  <2>1. CallStart(sync) = Later(0, sync.started - Overlap)
    BY <1>2 DEF CallStart
  <2>2. CallStart(sync) \in Nat /\ CallStart(sync) <= sync.started
    BY <1>0, <2>1 DEF Later
  <2>3. Read(sync.started)
    BY <1>2 DEF BootRead
  <2> QED BY <1>0, <2>2, <2>3 DEF Read, Settled
<1>3. CASE sync.phase = "only"
  <2>1. CallStart(sync) = IF callMark > 0 THEN callMark ELSE BackfillFloor
    BY <1>0, <1>3 DEF CallStart
  <2>2. CASE callMark > 0
    BY <1>0, <2>1, <2>2 DEF Settled
  <2>3. CASE ~(callMark > 0)
    BY <1>0, <2>1, <2>3 DEF Read, Settled
  <2> QED BY <2>2, <2>3
<1> QED BY <1>0, <1>1, <1>2, <1>3

(* The contacts of a phase are done, its calls begin.                       *)
LEMMA BeginCallsKeeps ==
  ASSUME TypeInv, Floored, CallInv, InContacts, SessionCalls, callMark' = callMark,
         sync' = BeginCalls(sync)
  PROVE  CallInv'
<1>0. now \in Nat /\ sync \in Session /\ sync.started <= now /\ callMark <= now
  BY DEF TypeInv, TypeOK, SessionOK, CallInv, BoundsPast
<1>1. /\ sync'.pc = "calls" /\ sync'.cursor = CallStart(sync)
      /\ sync'.phase = sync.phase /\ sync'.started = sync.started
      /\ sync'.end = IF sync.phase = "boot" THEN sync.started ELSE now
  BY <1>0 DEF BeginCalls, Session
<1>2. Read(sync.cursor)' /\ Settled(sync.cursor)'
  <2>1. Read(CallStart(sync)) /\ Settled(CallStart(sync))
    BY PhaseStartsRead
  <2> DEFINE t == CallStart(sync)
  <2>2. \A k \in Calls :
          call'[k].real > 0 /\ call'[k].at >= BackfillFloor /\ call'[k].at < t
            => k \in event' \cup orphans'
    BY <2>1 DEF SessionCalls, Read
  <2>3. t <= now' \/ t <= BackfillFloor
    BY <2>1 DEF SessionCalls, Settled
  <2> QED BY <1>1, <2>2, <2>3 DEF Read, Settled
<1>3. Read(callMark)'
  BY ReadOn DEF CallInv
<1>4. BoundsPast'
  BY <1>0, <1>1 DEF BoundsPast, InCalls, InWindow, SessionCalls
<1> QED BY <1>1, <1>2, <1>3, <1>4
        DEF CallInv, BootRead, CursorRead, WindowHeld, InWindow, InContacts

(* The contacts of a phase go on.                                           *)
LEMMA ContactsGoOn ==
  ASSUME TypeInv, CallInv, InContacts, InContacts', SessionCalls, callMark' = callMark,
         sync'.phase = sync.phase, sync'.started = sync.started
  PROVE  CallInv'
<1>1. BoundsPast'
  BY DEF CallInv, BoundsPast, InContacts, InCalls, InWindow, SessionCalls
<1>2. BootRead'
  <2>1. sync.phase = "catch" => Read(sync.started)'
    BY ReadOn DEF CallInv, BootRead
  <2> QED BY <2>1 DEF BootRead
<1>3. Read(callMark)'
  BY ReadOn DEF CallInv
<1> QED BY <1>1, <1>2, <1>3 DEF CallInv, CursorRead, WindowHeld, InWindow, InContacts

(* The session comes to rest, or starts.                                    *)
LEMMA RestKeeps ==
  ASSUME TypeInv, CallInv, SessionCalls, callMark' = callMark,
         sync'.started <= now, ~InCalls', sync'.phase = "catch" => ~InContacts'
  PROVE  CallInv'
<1>1. Read(callMark)'
  BY ReadOn DEF CallInv
<1> QED BY <1>1 DEF CallInv, BoundsPast, BootRead, CursorRead, WindowHeld, SessionCalls,
                    InCalls, InWindow

LEMMA ContactStepsKeep ==
  ASSUME TypeInv, Floored, CallInv, FetchPage \/ UpsertPage \/ CommitPage
  PROVE  CallInv'
<1>0. TypeOK /\ sync \in Session /\ PageOK(sync)
  BY DEF TypeInv, SessionOK
<1>1. InContacts /\ SessionCalls /\ callMark' = callMark
  BY WritesKeepCalls DEF FetchPage, UpsertPage, CommitPage, InContacts, SessionCalls,
                         provider, db, marks
<1>2. CASE FetchPage
  <2> DEFINE ds == {Dto(c) : c \in Page}
             s == [sync EXCEPT !.page = ds, !.more = Page # Unread,
                               !.oldest = IF sync.oldest >= 0 \/ ds = {} THEN sync.oldest
                                          ELSE Min({d.at : d \in ds})]
  <2>1. Page \in SUBSET Contacts
    BY DEF Page, Unread
  <2>2. ds \in SUBSET Version
    BY <1>0, <2>1, DtoTyped
  <2>3. (IF sync.oldest >= 0 \/ ds = {} THEN sync.oldest
         ELSE Min({d.at : d \in ds})) \in Nat \cup {-1}
    BY <1>0, <2>2, OldestIsNatural DEF Session
  <2>4. s \in Session /\ s.phase = sync.phase /\ s.started = sync.started
    <3> HIDE DEF ds
    <3> QED BY <1>0, <2>2, <2>3 DEF Session
  <2>5. CASE ds = {}
    <3>1. sync' = BeginCalls(sync)
      BY <1>2, <2>5 DEF FetchPage
    <3> QED BY <1>1, <3>1, BeginCallsKeeps
  <2>6. CASE ds # {}
    <3>1. sync' \in PagePlan(s) \/ sync' = [s EXCEPT !.pc = "fetched"]
      BY <1>2, <2>6 DEF FetchPage
    <3>2. /\ sync'.pc \in {"page", "fetched"}
          /\ sync'.phase = sync.phase /\ sync'.started = sync.started
      <4> HIDE DEF s
      <4>1. CASE sync' \in PagePlan(s)
        BY <2>4, <4>1, PagePlanEffect
      <4>2. CASE sync' = [s EXCEPT !.pc = "fetched"]
        BY <2>4, <4>2 DEF Session
      <4> QED BY <3>1, <4>1, <4>2
    <3> QED BY <1>1, <3>2, ContactsGoOn DEF InContacts
  <2> QED BY <2>5, <2>6
<1>3. CASE UpsertPage
  <2>1. /\ sync'.pc = "page"
        /\ sync'.phase = sync.phase /\ sync'.started = sync.started
    BY <1>0, <1>3, PagePlanEffect DEF UpsertPage
  <2> QED BY <1>1, <2>1, ContactsGoOn DEF InContacts
<1>4. CASE CommitPage
  <2>1. CASE sync.more
    <3>1. /\ sync'.pc = "contacts"
          /\ sync'.phase = sync.phase /\ sync'.started = sync.started
      BY <1>0, <1>4, <2>1 DEF CommitPage, AfterPage, Session
    <3> QED BY <1>1, <3>1, ContactsGoOn DEF InContacts
  <2>2. CASE ~sync.more
    <3>1. sync' = BeginCalls(sync)
      BY <1>4, <2>2 DEF CommitPage, AfterPage
    <3> QED BY <1>1, <3>1, BeginCallsKeeps
  <2> QED BY <2>1, <2>2
<1> QED BY <1>2, <1>3, <1>4

LEMMA RestStepsKeep ==
  ASSUME TypeInv, CallInv,
         \/ \E mode \in Modes : Start(mode)
         \/ ResolveOrphans \/ Finish \/ Fail \/ PersistFailure \/ Crash
  PROVE  CallInv'
<1>0. sync \in Session /\ now \in Nat /\ sync.started <= now
  BY DEF TypeInv, TypeOK, SessionOK, CallInv, BoundsPast
<1>1. SessionCalls /\ callMark' = callMark
  BY WritesKeepCalls DEF Start, ResolveOrphans, Finish, Fail, PersistFailure, Crash,
                         SessionCalls, provider, db, marks
<1>2. CASE \E mode \in Modes : Start(mode)
  <2>1. sync'.pc = "contacts" /\ sync'.started = now /\ sync'.phase \in {"boot", "only"}
    BY <1>2 DEF Start, Idle
  <2> QED BY <1>0, <1>1, <2>1, RestKeeps DEF InCalls, InWindow
<1>3. CASE ResolveOrphans
  <2>1. sync'.pc = "finish" /\ sync'.started = sync.started
    BY <1>0, <1>3 DEF ResolveOrphans, Session
  <2> QED BY <1>0, <1>1, <2>1, RestKeeps DEF InCalls, InWindow, InContacts
<1>4. CASE Finish \/ Fail \/ PersistFailure \/ Crash
  <2>1. sync'.pc \in {"idle", "failing"} /\ sync'.started = 0
    BY <1>4 DEF Finish, Fail, PersistFailure, Crash, RolledBack, Idle
  <2> QED BY <1>0, <1>1, <2>1, RestKeeps DEF InCalls, InWindow, InContacts
<1> QED BY <1>2, <1>3, <1>4

(* A batch plans every call of its page, as an event or as an orphan.       *)
LEMMA BatchIsWhole ==
  ASSUME NEW s \in Session
  PROVE  /\ BatchPlan(s).pc = "batch" /\ BatchPlan(s).page = s.page
         /\ BatchPlan(s).phase = s.phase /\ BatchPlan(s).started = s.started
         /\ BatchPlan(s).cursor = s.cursor /\ BatchPlan(s).end = s.end
         /\ BatchPlan(s).work.resolved = {}
         /\ s.page \subseteq event \cup BatchPlan(s).work.events
                               \cup BatchPlan(s).work.buffer
<1> DEFINE w == CallPlan(s.page, {})
<1>1. /\ w.resolved = {}
      /\ w.events = {k \in s.page \ event : HasLead(ContactOf[k], {})}
      /\ w.buffer = {k \in s.page \ event : ~HasLead(ContactOf[k], {})}
  BY DEF CallPlan, NoWork
<1>2. s.page \subseteq event \cup w.events \cup w.buffer
  BY <1>1
<1> HIDE DEF w
<1>3. BatchPlan(s) = [s EXCEPT !.pc = "batch", !.work = w]
  BY DEF BatchPlan, w
<1> QED BY <1>1, <1>2, <1>3 DEF Session

(* The windows of the call phases.                                          *)
LEMMA WindowStepsKeep ==
  ASSUME TypeInv, CallInv, FetchWindow \/ UpsertBatch
  PROVE  CallInv'
<1> USE DEF CallInv
<1>0. /\ sync \in Session /\ PageOK(sync) /\ now \in Nat
      /\ sync.cursor \in Nat /\ sync.end \in Nat
      /\ \A k \in Calls : call[k].at \in Nat
  BY DEF TypeInv, TypeOK, SessionOK, Session
<1>1. /\ SessionCalls /\ UNCHANGED <<now, call, callMark, event, orphans>>
  BY DEF FetchWindow, UpsertBatch, SessionCalls, provider, db, marks
<1>2. Read(callMark)'
  BY <1>1, ReadOn
<1>3. CASE FetchWindow
  <2> DEFINE s == [sync EXCEPT !.page = Window]
  <2>1. sync.pc = "calls" /\ sync.cursor < sync.end
    BY <1>3 DEF FetchWindow
  <2>2. /\ s \in Session /\ s.page = Window /\ s.phase = sync.phase
        /\ s.started = sync.started /\ s.cursor = sync.cursor /\ s.end = sync.end
    BY <1>0 DEF Window, Session
  <2>3. \/ Window = {} /\ sync' = [s EXCEPT !.pc = "mark"]
        \/ sync' = BatchPlan(s)
        \/ sync' = [s EXCEPT !.pc = "window"]
    BY <1>3 DEF FetchWindow
  <2>4. /\ \/ sync'.pc = "mark" /\ Window = {}
           \/ sync'.pc = "window"
           \/ /\ sync'.pc = "batch" /\ sync'.work.resolved = {}
              /\ Window \subseteq event \cup sync'.work.events \cup sync'.work.buffer
        /\ sync'.page = Window
        /\ sync'.phase = sync.phase /\ sync'.started = sync.started
        /\ sync'.cursor = sync.cursor /\ sync'.end = sync.end
    <3> HIDE DEF s
    <3>1. CASE Window = {} /\ sync' = [s EXCEPT !.pc = "mark"]
      BY <2>2, <3>1 DEF Session
    <3>2. CASE sync' = BatchPlan(s)
      BY <2>2, <3>2, BatchIsWhole
    <3>3. CASE sync' = [s EXCEPT !.pc = "window"]
      BY <2>2, <3>3 DEF Session
    <3> QED BY <2>3, <3>1, <3>2, <3>3
  <2> HIDE DEF s
  <2>5. BoundsPast'
    BY <1>1, <2>1, <2>4 DEF BoundsPast, InCalls, InWindow
  <2>6. Read(sync.cursor) /\ Settled(sync.cursor)
    BY <2>1 DEF CursorRead
  <2>7. CursorRead'
    <3>1. Read(sync.cursor)' /\ Settled(sync.cursor)'
      BY <1>1, <2>4, <2>6 DEF Read, Settled
    <3>2. Window = {} => Read(WindowEnd)
      <4> SUFFICES ASSUME Window = {}, NEW k \in Calls, call[k].real > 0,
                          call[k].at >= BackfillFloor, call[k].at < WindowEnd
                   PROVE  k \in event \cup orphans
        BY DEF Read
      <4>1. call[k].at < sync.cursor
        BY <1>0 DEF Window
      <4> QED BY <2>6, <4>1 DEF Read
    <3>3. Window = {} => Read(WindowEnd)'
      BY <1>1, <2>4, <3>2 DEF Read, WindowEnd
    <3> QED BY <2>4, <3>1, <3>3 DEF CursorRead, InWindow
  <2>8. WindowHeld'
    <3>1. \A k \in Calls : call'[k].real > 0 /\ call'[k].at >= sync'.cursor
                           /\ call'[k].at < WindowEnd' => k \in sync'.page
      BY <1>1, <2>4 DEF Window, WindowEnd
    <3>2. sync'.pc = "batch" =>
            /\ sync'.work.resolved = {}
            /\ sync'.page \subseteq event' \cup orphans' \cup sync'.work.events
                                      \cup sync'.work.buffer
      BY <1>1, <2>4
    <3> QED BY <3>1, <3>2 DEF WindowHeld
  <2>9. BootRead'
    BY <2>4 DEF BootRead, InContacts
  <2> QED BY <1>2, <2>5, <2>7, <2>8, <2>9
<1>4. CASE UpsertBatch
  <2>1. sync.pc = "window" /\ sync' = BatchPlan(sync)
    BY <1>4 DEF UpsertBatch
  <2>2. /\ sync'.pc = "batch" /\ sync'.page = sync.page /\ sync'.work.resolved = {}
        /\ sync.page \subseteq event \cup sync'.work.events \cup sync'.work.buffer
        /\ sync'.phase = sync.phase /\ sync'.started = sync.started
        /\ sync'.cursor = sync.cursor /\ sync'.end = sync.end
    BY <1>0, <2>1, BatchIsWhole
  <2>3. BoundsPast'
    BY <1>1, <2>1, <2>2 DEF BoundsPast, InCalls, InWindow
  <2>4. CursorRead'
    BY <1>1, <2>1, <2>2 DEF CursorRead, InWindow, Read, Settled
  <2>5. WindowHeld'
    <3>1. \A k \in Calls : call'[k].real > 0 /\ call'[k].at >= sync'.cursor
                           /\ call'[k].at < WindowEnd' => k \in sync'.page
      BY <1>1, <2>1, <2>2 DEF WindowHeld, InWindow, WindowEnd
    <3>2. sync'.page \subseteq event' \cup orphans' \cup sync'.work.events
                                 \cup sync'.work.buffer
      BY <1>1, <2>2
    <3> QED BY <2>2, <3>1, <3>2 DEF WindowHeld
  <2>6. BootRead'
    BY <2>2 DEF BootRead, InContacts
  <2> QED BY <1>2, <2>3, <2>4, <2>5, <2>6
<1> QED BY <1>3, <1>4

(* A window that is committed has been read.                                *)
LEMMA CommitBatchKeeps ==
  ASSUME TypeInv, CallInv, CommitBatch
  PROVE  CallInv'
<1> USE DEF CallInv
<1>0. /\ sync \in Session /\ sync.cursor \in Nat /\ sync.end \in Nat
      /\ \A k \in Calls : call[k].at \in Nat
  BY DEF TypeInv, TypeOK, SessionOK, Session
<1>1. /\ sync.pc = "batch" /\ Write(sync.work)
      /\ UNCHANGED <<now, call, callMark>>
  BY DEF CommitBatch, provider, marks
<1>2. SessionCalls
  BY <1>1, WritesKeepCalls DEF SessionCalls
<1>3. /\ sync'.pc = "mark" /\ sync'.phase = sync.phase /\ sync'.started = sync.started
      /\ sync'.cursor = sync.cursor /\ sync'.end = sync.end
  BY <1>0 DEF CommitBatch, Session
<1>4. sync.page \subseteq event' \cup orphans'
  BY <1>1 DEF WindowHeld, Write
<1>5. ASSUME NEW k \in Calls, call[k].real > 0, call[k].at >= BackfillFloor,
             call[k].at < WindowEnd
      PROVE  k \in event' \cup orphans'
  <2>1. CASE call[k].at >= sync.cursor
    BY <1>1, <1>4, <1>5, <2>1 DEF WindowHeld, InWindow
  <2>2. CASE call[k].at < sync.cursor
    <3>1. k \in event \cup orphans
      BY <1>1, <1>5, <2>2 DEF CursorRead, InWindow, Read
    <3> QED BY <1>2, <3>1 DEF SessionCalls
  <2> QED BY <1>0, <2>1, <2>2
<1>6. Read(WindowEnd)'
  BY <1>1, <1>3, <1>5 DEF Read, WindowEnd
<1>7. BoundsPast'
  BY <1>1, <1>3 DEF BoundsPast, InCalls, InWindow
<1>8. Read(callMark)'
  BY <1>1, <1>2, ReadOn
<1> QED BY <1>3, <1>6, <1>7, <1>8
        DEF CursorRead, BootRead, WindowHeld, InWindow, InContacts

(* The watermark and the cursor advance to the end of the window.           *)
LEMMA AdvanceKeeps ==
  ASSUME TypeInv, CallInv, AdvanceCalls
  PROVE  CallInv'
<1> USE DEF CallInv
<1>0. /\ sync \in Session /\ sync.cursor \in Nat /\ sync.end \in Nat
      /\ now \in Nat /\ callMark \in Nat
  BY DEF TypeInv, TypeOK, SessionOK, Session
<1>1. /\ sync.pc = "mark" /\ UNCHANGED <<now, call, event, orphans>>
      /\ callMark' = Later(callMark, WindowEnd)
  BY DEF AdvanceCalls, provider, db, Forward, Marked, WindowEnd
<1>2. /\ sync'.pc = "calls" /\ sync'.phase = sync.phase /\ sync'.started = sync.started
      /\ sync'.cursor = WindowEnd /\ sync'.end = sync.end
  BY <1>0 DEF AdvanceCalls, Session
<1>3. WindowEnd \in Nat /\ WindowEnd <= sync.end /\ sync.end <= now
  BY <1>0, <1>1 DEF WindowEnd, Earlier, BoundsPast, InCalls
<1>4. Read(WindowEnd) /\ Settled(WindowEnd)
  BY <1>0, <1>1, <1>3 DEF CursorRead, Settled
<1>5. CursorRead'
  BY <1>1, <1>2, <1>4 DEF CursorRead, InWindow, Read, Settled
<1>6. callMark' = callMark \/ callMark' = WindowEnd
  BY <1>1 DEF Later
<1>7. Read(callMark)'
  BY <1>1, <1>4, <1>6 DEF Read
<1>8. BoundsPast'
  BY <1>0, <1>1, <1>2, <1>3, <1>6 DEF BoundsPast, InCalls, InWindow
<1> QED BY <1>2, <1>5, <1>7, <1>8 DEF BootRead, WindowHeld, InWindow, InContacts

(* The calls of a phase are done.                                           *)
LEMMA EndCallsKeeps ==
  ASSUME TypeInv, CallInv, EndCalls
  PROVE  CallInv'
<1> USE DEF CallInv
<1>0. /\ sync \in Session /\ sync.cursor \in Nat /\ sync.end \in Nat
      /\ sync.started \in Nat /\ \A k \in Calls : call[k].at \in Nat
  BY DEF TypeInv, TypeOK, SessionOK, Session
<1>1. /\ sync.pc = "calls" /\ sync.cursor >= sync.end
      /\ SessionCalls /\ UNCHANGED <<now, call, event, orphans, callMark>>
  BY DEF EndCalls, SessionCalls, provider, db, marks
<1>2. CASE sync.phase = "boot"
  <2>1. /\ sync'.pc = "contacts" /\ sync'.phase = "catch"
        /\ sync'.started = sync.started
    BY <1>0, <1>2 DEF EndCalls, Session
  <2>2. sync.end = sync.started /\ Read(sync.cursor)
    BY <1>1, <1>2 DEF BoundsPast, InCalls, CursorRead
  <2>3. Read(sync.started)
    BY <1>0, <1>1, <2>2 DEF Read
  <2>4. BootRead'
    BY <1>1, <2>1, <2>3 DEF BootRead, Read
  <2>5. BoundsPast'
    BY <1>1, <2>1 DEF BoundsPast, InCalls, InWindow
  <2>6. Read(callMark)'
    BY <1>1 DEF Read
  <2> QED BY <2>1, <2>4, <2>5, <2>6 DEF CursorRead, WindowHeld, InWindow
<1>3. CASE sync.phase # "boot"
  <2>1. sync'.pc = "resolve" /\ sync'.started = sync.started
    BY <1>0, <1>3 DEF EndCalls, Session
  <2> QED BY <1>1, <2>1, RestKeeps DEF BoundsPast, InCalls, InWindow, InContacts
<1> QED BY <1>2, <1>3

LEMMA NextCalls ==
  ClocksAgree /\ Floored /\ TypeInv /\ CallInv /\ [Next]_vars => CallInv'
<1> SUFFICES ASSUME ClocksAgree, Floored, TypeInv, CallInv, [Next]_vars PROVE CallInv'
  OBVIOUS
<1>1. TypeInv'
  BY NextTyped
<1>2. CASE QuietStep \/ CommitPage \/ CommitBatch \/ Finish
  BY <1>2, ContactStepsKeep, RestStepsKeep, WindowStepsKeep, CommitBatchKeeps,
     AdvanceKeeps, EndCallsKeeps DEF QuietStep
<1>3. CASE UNCHANGED vars
  BY <1>1, <1>3, OthersCalls
<1>4. CASE Next /\ ~(QuietStep \/ CommitPage \/ CommitBatch \/ Finish)
  BY <1>1, <1>4, Steps, OthersCalls
<1> QED BY <1>2, <1>3, <1>4

(* Invariant I1 of the launch gates for calls.  With clocks that agree,     *)
(* below the watermark and from the floor the operator asked for, every     *)
(* call is an event or waits in the orphan buffer: over all windows, full   *)
(* imports, failed batches and crashes, for any number of calls.            *)
THEOREM CallsAreAcknowledged == ASSUME ClocksAgree PROVE Spec => []CallsAcknowledged
<1>1. Floored => (Spec => [](TypeInv /\ CallInv))
  <2> SUFFICES ASSUME Floored PROVE Spec => [](TypeInv /\ CallInv)
    OBVIOUS
  <2> QED BY InitTyped, NextTyped, InitCalls, NextCalls, PTL DEF Spec
<1>2. CallInv => CallsAcknowledged
  BY DEF CallInv, Read, CallsAcknowledged
<1>3. ~Floored => CallsAcknowledged
  BY DEF Floored, CallsAcknowledged
<1>4. CASE Floored
  BY <1>1, <1>2, <1>4, PTL
<1>5. CASE ~Floored
  BY <1>3, <1>5, PTL
<1> QED BY <1>4, <1>5

-----------------------------------------------------------------------------
(***************************************************************************)
(* How a run moves on: what each step of the session does to its records.  *)
(***************************************************************************)
SameRun ==
  /\ sync'.mode = sync.mode /\ sync'.phase = sync.phase
  /\ sync'.started = sync.started /\ sync'.gap = sync.gap

(* A page of contacts is on its way.                                        *)
OnPage == sync.pc \in {"fetched", "page"}
Rest == sync.pc \in {"idle", "failing"}
Ending == sync.pc \in {"resolve", "finish"}

LEMMA BeginCallsFields ==
  ASSUME TypeInv, sync' = BeginCalls(sync)
  PROVE  /\ sync'.pc = "calls" /\ sync'.cursor = CallStart(sync)
         /\ sync'.end = IF sync.phase = "boot" THEN sync.started ELSE now
         /\ sync'.gap = IF sync.phase = "boot" THEN CensusGap(sync) ELSE sync.gap
         /\ sync'.mode = sync.mode /\ sync'.phase = sync.phase
         /\ sync'.started = sync.started
<1>1. sync \in Session
  BY DEF TypeInv, SessionOK
<1> QED BY <1>1 DEF BeginCalls, Session

LEMMA EmptyPageEnds ==
  ASSUME TypeInv, Page = {}
  PROVE  Unread = {}
<1> SUFFICES ASSUME Unread # {} PROVE FALSE
  OBVIOUS
<1> DEFINE T == {contact[c].at : c \in Unread}
<1>0. \A c \in Unread : c \in Contacts /\ contact[c].at \in Nat
  BY DEF Unread, TypeInv, TypeOK
<1>1. T \subseteq Nat /\ T # {}
  BY <1>0
<1>2. PICK x \in T : \A y \in T : x <= y
  <2> HIDE DEF T
  <2> QED BY <1>1, LeastNatural
<1>3. PICK c \in Unread : contact[c].at = x
  OBVIOUS
<1>4. {d \in Unread : contact[d].at < contact[c].at} = {}
  <2> SUFFICES ASSUME NEW d \in Unread, contact[d].at < contact[c].at PROVE FALSE
    OBVIOUS
  <2>1. contact[d].at \in T /\ contact[d].at \in Nat /\ contact[c].at \in Nat
    BY <1>0
  <2>2. x <= contact[d].at
    <3> HIDE DEF T
    <3> QED BY <1>2, <2>1
  <2> QED BY <1>3, <2>1, <2>2
<1>5. Cardinality({d \in Unread : contact[d].at < contact[c].at}) = 0
  BY <1>4, FS_EmptySet
<1>6. 0 < PageSize
  BY BoundsTyped
<1>7. c \in Page
  BY <1>3, <1>5, <1>6 DEF Page
<1> QED BY <1>7

(* A request for a page: an empty one ends the contacts of the phase.       *)
LEMMA FetchPageFields ==
  ASSUME TypeInv, FetchPage
  PROVE  /\ sync.pc = "contacts"
         /\ UNCHANGED <<now, provider, db, marks, run, hook, faults, edits, userArchived, failed>>
         /\ \/ Page = {} /\ sync' = BeginCalls(sync)
            \/ /\ Page # {} /\ sync'.pc \in {"fetched", "page"}
               /\ sync'.page = {Dto(c) : c \in Page} /\ sync'.page # {}
               /\ (sync'.more <=> Page # Unread)
               /\ SameRun /\ sync'.cursor = sync.cursor
               /\ sync'.oldest = IF sync.oldest >= 0 THEN sync.oldest
                                 ELSE Min({d.at : d \in sync'.page})
               /\ sync'.pc = "page" => PlansFor(sync'.page, sync'.work)
<1> DEFINE ds == {Dto(c) : c \in Page}
           oldest == IF sync.oldest >= 0 \/ ds = {} THEN sync.oldest
                     ELSE Min({d.at : d \in ds})
           s == [sync EXCEPT !.page = ds, !.more = Page # Unread, !.oldest = oldest]
<1>0. sync.pc = "contacts" /\ sync \in Session /\ TypeOK
      /\ UNCHANGED <<now, provider, db, marks, run, hook, faults, edits, userArchived, failed>>
  BY DEF FetchPage, TypeInv, SessionOK
<1>1. /\ ds = {} => sync' = BeginCalls(sync)
      /\ ds # {} /\ sync.first => sync' \in PagePlan(s)
      /\ ds # {} /\ ~sync.first => sync' = [s EXCEPT !.pc = "fetched"]
  BY DEF FetchPage
<1>2. Page = {} <=> ds = {}
  OBVIOUS
<1>3. ds \in SUBSET Version
  BY <1>0, DtoTyped DEF Page, Unread
<1>4. oldest \in Nat \cup {-1}
  BY <1>0, <1>3, OldestIsNatural DEF Session
<1>5. /\ s \in Session /\ s.page = ds /\ s.more = (Page # Unread) /\ s.oldest = oldest
      /\ s.mode = sync.mode /\ s.phase = sync.phase /\ s.started = sync.started
      /\ s.gap = sync.gap /\ s.cursor = sync.cursor
  <2> HIDE DEF ds, oldest
  <2> QED BY <1>0, <1>3, <1>4 DEF Session
<1>6. CASE ds = {}
  BY <1>0, <1>1, <1>2, <1>6
<1>7. ASSUME NEW t, t \in PagePlan(s)
      PROVE  /\ t.pc = "page" /\ t.page = ds /\ t.more = (Page # Unread)
             /\ t.oldest = oldest /\ t.mode = sync.mode /\ t.phase = sync.phase
             /\ t.started = sync.started /\ t.gap = sync.gap /\ t.cursor = sync.cursor
             /\ PlansFor(ds, t.work)
  <2> HIDE DEF s
  <2>1. PICK refused \in Refusals(s.page) :
          t = [s EXCEPT !.pc = "page", !.work.plan = LeadPlan(s.page \ refused),
                        !.work.failed = refused]
    BY <1>7 DEF PagePlan
  <2>3. PlansFor(ds, t.work)
    BY <1>5, <1>7, PagePlanEffect
  <2> HIDE DEF ds, oldest
  <2>4. /\ t.pc = "page" /\ t.page = s.page /\ t.more = s.more /\ t.oldest = s.oldest
        /\ t.mode = s.mode /\ t.phase = s.phase
        /\ t.started = s.started /\ t.gap = s.gap /\ t.cursor = s.cursor
    BY <1>5, <2>1 DEF Session
  <2> QED BY <1>5, <2>1, <2>3, <2>4
<1>8. ASSUME NEW t, t = [s EXCEPT !.pc = "fetched"]
      PROVE  /\ t.pc = "fetched" /\ t.page = ds /\ t.more = (Page # Unread)
             /\ t.oldest = oldest /\ t.mode = sync.mode /\ t.phase = sync.phase
             /\ t.started = sync.started /\ t.gap = sync.gap /\ t.cursor = sync.cursor
  <2> HIDE DEF s, ds, oldest
  <2> QED BY <1>5, <1>8 DEF Session
<1>9. CASE ds # {}
  <2>1. oldest = IF sync.oldest >= 0 THEN sync.oldest ELSE Min({d.at : d \in ds})
    BY <1>9
  <2> HIDE DEF s, oldest
  <2>2. CASE sync.first
    <3>1. sync' \in PagePlan(s)
      BY <1>1, <1>9, <2>2
    <3> HIDE DEF ds
    <3>2. /\ sync'.pc = "page" /\ sync'.page = ds /\ sync'.more = (Page # Unread)
          /\ sync'.oldest = oldest /\ SameRun /\ sync'.cursor = sync.cursor
          /\ PlansFor(ds, sync'.work)
      BY <1>7, <3>1 DEF SameRun
    <3> QED BY <1>0, <1>2, <1>9, <2>1, <3>2 DEF ds
  <2>3. CASE ~sync.first
    <3>1. sync' = [s EXCEPT !.pc = "fetched"]
      BY <1>1, <1>9, <2>3
    <3> HIDE DEF ds
    <3>2. /\ sync'.pc = "fetched" /\ sync'.page = ds /\ sync'.more = (Page # Unread)
          /\ sync'.oldest = oldest /\ SameRun /\ sync'.cursor = sync.cursor
      BY <1>8, <3>1 DEF SameRun
    <3> QED BY <1>0, <1>2, <1>9, <2>1, <3>2 DEF ds
  <2> QED BY <2>2, <2>3
<1> QED BY <1>6, <1>9

LEMMA UpsertPageFields ==
  ASSUME TypeInv, UpsertPage
  PROVE  /\ sync.pc = "fetched" /\ sync'.pc = "page"
         /\ UNCHANGED <<now, provider, db, marks, run, hook, faults, edits, userArchived, failed>>
         /\ sync'.page = sync.page /\ sync'.more = sync.more /\ sync'.oldest = sync.oldest
         /\ SameRun /\ sync'.cursor = sync.cursor
         /\ PlansFor(sync.page, sync'.work)
<1>1. sync \in Session /\ sync' \in PagePlan(sync)
  BY DEF UpsertPage, TypeInv, SessionOK
<1>2. PICK refused \in Refusals(sync.page) :
        sync' = [sync EXCEPT !.pc = "page", !.work.plan = LeadPlan(sync.page \ refused),
                             !.work.failed = refused]
  BY <1>1 DEF PagePlan
<1>4. PlansFor(sync.page, sync'.work)
  BY <1>1, PagePlanEffect
<1>5. /\ sync'.pc = "page" /\ sync'.page = sync.page /\ sync'.more = sync.more
      /\ sync'.oldest = sync.oldest /\ SameRun /\ sync'.cursor = sync.cursor
  BY <1>1, <1>2 DEF Session, SameRun
<1> QED BY <1>4, <1>5 DEF UpsertPage

LEMMA CommitPageFields ==
  ASSUME TypeInv, CommitPage
  PROVE  /\ sync.pc = "page" /\ Write(sync.work)
         /\ UNCHANGED <<now, provider, callMark, run, faults, edits, userArchived>>
         /\ contactMark' = Forward(contactMark, BatchEnd(sync.page))
         /\ \/ ~sync.more /\ sync' = BeginCalls(sync)
            \/ /\ sync.more /\ sync'.pc = "contacts" /\ sync'.cursor = BatchEnd(sync.page)
               /\ SameRun /\ sync'.oldest = sync.oldest
<1>1. sync \in Session
  BY DEF TypeInv, SessionOK
<1>2. CASE sync.more
  BY <1>1, <1>2 DEF CommitPage, AfterPage, Session, SameRun
<1>3. CASE ~sync.more
  BY <1>3 DEF CommitPage, AfterPage
<1> QED BY <1>2, <1>3 DEF CommitPage

(* The steps from window to window.                                         *)
LEMMA WindowFields ==
  ASSUME TypeInv, FetchWindow \/ UpsertBatch \/ CommitBatch \/ AdvanceCalls
  PROVE  /\ InCalls /\ InCalls' /\ SameRun /\ sync'.end = sync.end
         /\ UNCHANGED <<now, contact, call, clamps, contactMark, run, failed>>
<1>0. sync \in Session
  BY DEF TypeInv, SessionOK
<1>1. UNCHANGED <<now, contact, call, clamps, contactMark, run, failed>>
  BY DEF FetchWindow, UpsertBatch, CommitBatch, AdvanceCalls, provider, marks
<1>2. CASE FetchWindow
  <2> DEFINE s == [sync EXCEPT !.page = Window]
  <2>1. s \in Session /\ s.mode = sync.mode /\ s.phase = sync.phase
        /\ s.started = sync.started /\ s.gap = sync.gap /\ s.end = sync.end
    BY <1>0 DEF Window, Session
  <2>2. sync' = [s EXCEPT !.pc = "mark"] \/ sync' = BatchPlan(s)
        \/ sync' = [s EXCEPT !.pc = "window"]
    BY <1>2 DEF FetchWindow
  <2> HIDE DEF s
  <2>3. sync'.pc \in {"mark", "batch", "window"} /\ SameRun /\ sync'.end = sync.end
    BY <2>1, <2>2 DEF BatchPlan, Session, SameRun
  <2> QED BY <1>1, <1>2, <2>3 DEF FetchWindow, InCalls, InWindow
<1>3. CASE UpsertBatch
  <2>1. sync.pc = "window" /\ sync' = BatchPlan(sync)
    BY <1>3 DEF UpsertBatch
  <2>2. sync'.pc = "batch" /\ SameRun /\ sync'.end = sync.end
    BY <1>0, <2>1 DEF BatchPlan, Session, SameRun
  <2> QED BY <1>1, <2>1, <2>2 DEF InCalls, InWindow
<1>4. CASE CommitBatch \/ AdvanceCalls
  <2>1. /\ sync.pc \in {"batch", "mark"} /\ sync'.pc \in {"mark", "calls"}
        /\ SameRun /\ sync'.end = sync.end
    BY <1>0, <1>4 DEF CommitBatch, AdvanceCalls, Session, SameRun
  <2> QED BY <1>1, <2>1 DEF InCalls, InWindow
<1> QED BY <1>2, <1>3, <1>4

LEMMA EndCallsFields ==
  ASSUME TypeInv, EndCalls
  PROVE  /\ sync.pc = "calls" /\ sync.cursor >= sync.end
         /\ UNCHANGED <<now, provider, db, marks, run, hook, failed>>
         /\ sync'.mode = sync.mode /\ sync'.started = sync.started /\ sync'.gap = sync.gap
         /\ sync'.end = sync.end
         /\ \/ /\ sync.phase = "boot" /\ sync'.pc = "contacts" /\ sync'.phase = "catch"
               /\ sync'.cursor = ContactStart
            \/ sync.phase # "boot" /\ sync'.pc = "resolve" /\ sync'.phase = sync.phase
<1>1. sync \in Session
  BY DEF TypeInv, SessionOK
<1> QED BY <1>1 DEF EndCalls, Session

LEMMA ResolveFields ==
  ASSUME TypeInv, ResolveOrphans
  PROVE  /\ sync.pc = "resolve" /\ sync'.pc = "finish" /\ SameRun /\ sync'.end = sync.end
         /\ UNCHANGED <<now, provider, db, marks, run, hook, failed>>
<1>1. sync \in Session
  BY DEF TypeInv, SessionOK
<1> QED BY <1>1 DEF ResolveOrphans, Session, SameRun

LEMMA StartFields ==
  ASSUME TypeInv, NEW mode \in Modes, Start(mode)
  PROVE  /\ sync'.pc = "contacts" /\ sync'.mode = mode /\ sync'.started = now
         /\ sync'.phase = IF mode = "full_import" THEN "boot" ELSE "only"
         /\ sync'.cursor = IF mode = "full_import" THEN 0 ELSE ContactStart
         /\ sync'.oldest = -1 /\ run' = "running"
         /\ UNCHANGED <<now, provider, db, marks, hook, failed>>
BY DEF Start, Idle

LEMMA RestFields ==
  ASSUME Finish \/ Fail \/ PersistFailure \/ Crash
  PROVE  /\ Rest' /\ sync'.mode = "catch_up" /\ sync'.phase = "only" /\ sync'.started = 0
         /\ UNCHANGED <<now, provider, marks, failed>>
BY DEF Finish, Fail, PersistFailure, Crash, RolledBack, Idle, Rest

(* Only the end of a run gives it a verdict.                                *)
LEMMA EndsByFinish ==
  ASSUME [Next]_vars, EndsWell
  PROVE  Finish
<1>1. UNCHANGED run \/ run' \in {"running", "failed"} \/ Finish
  BY DEF Next, SyncStep, vars, Start, FetchPage, UpsertPage, CommitPage, FetchWindow,
         UpsertBatch, CommitBatch, AdvanceCalls, EndCalls, ResolveOrphans, Fail,
         PersistFailure, Crash, BeginHook, CommitHook, AbortHook, Modify, RecordCall,
         Tick, SetActive
<1> QED BY <1>1 DEF EndsWell

(* The steps around the session leave its records alone.                    *)
Around ==
  \/ CommitHook \/ AbortHook \/ Tick \/ UNCHANGED vars
  \/ \E c \in Contacts : BeginHook(c)
  \/ \E c \in Contacts : Modify(c)
  \/ \E c \in Contacts, on \in BOOLEAN : SetActive(c, on)
  \/ \E k \in Calls : RecordCall(k)

SessionStands ==
  /\ sync'.pc = sync.pc /\ sync'.page = sync.page /\ sync'.cursor = sync.cursor
  /\ sync'.end = sync.end /\ sync'.more = sync.more /\ sync'.oldest = sync.oldest
  /\ SameRun
  /\ sync'.work.plan = sync.work.plan /\ sync'.work.events = sync.work.events
  /\ sync'.work.buffer = sync.work.buffer /\ sync'.work.resolved = sync.work.resolved
  /\ sync'.work.failed = sync.work.failed

LEMMA AroundFields ==
  ASSUME TypeInv, Around
  PROVE  /\ SessionStands
         /\ UNCHANGED <<clamps, contactMark, callMark, run, failed>>
         /\ now <= now' /\ now' \in Nat
         /\ \A c \in Contacts : contact'[c].at = contact[c].at \/ contact'[c].at > now
         /\ event \cup orphans \subseteq event' \cup orphans'
         /\ \A k \in Calls : call'[k] = call[k]
              \/ /\ call[k].real = 0 /\ call'[k].real = now
                 /\ call'[k].at <= now /\ call'[k].at >= now - Skew
<1>0. /\ sync \in Session /\ sync.work \in Work /\ now \in Nat
      /\ contact \in [Contacts -> [at : Nat, deleted : BOOLEAN]]
      /\ call \in [Calls -> [at : Nat, real : Nat]]
  BY DEF TypeInv, TypeOK, SessionOK, Session
<1>1. ASSUME NEW rows, sync' = [sync EXCEPT !.work = Hit(@, rows)]
      PROVE  SessionStands
  <2>1. Hit(sync.work, rows) \in Work
        /\ Hit(sync.work, rows).plan = sync.work.plan
        /\ Hit(sync.work, rows).events = sync.work.events
        /\ Hit(sync.work, rows).buffer = sync.work.buffer
        /\ Hit(sync.work, rows).resolved = sync.work.resolved
        /\ Hit(sync.work, rows).failed = sync.work.failed
    BY <1>0, HitTyped
  <2>2. sync'.work = Hit(sync.work, rows)
    BY <1>0, <1>1 DEF Session
  <2>3. /\ sync'.pc = sync.pc /\ sync'.page = sync.page /\ sync'.cursor = sync.cursor
        /\ sync'.end = sync.end /\ sync'.more = sync.more /\ sync'.oldest = sync.oldest
        /\ SameRun
    BY <1>0, <1>1 DEF Session, SameRun
  <2> QED BY <2>1, <2>2, <2>3 DEF SessionStands
<1>2. CASE CommitHook
  <2>1. SessionStands
    BY <1>1, <1>2 DEF CommitHook
  <2>2. event \cup orphans \subseteq event' \cup orphans'
    BY <1>2, WritesKeepCalls DEF CommitHook
  <2> QED BY <1>0, <1>2, <2>1, <2>2 DEF CommitHook, provider, marks
<1>3. ASSUME NEW c \in Contacts, NEW on \in BOOLEAN, SetActive(c, on)
      PROVE  /\ SessionStands
             /\ UNCHANGED <<clamps, contactMark, callMark, run, now, contact, call, event,
                            orphans, failed>>
  <2>1. SessionStands
    BY <1>1, <1>3 DEF SetActive
  <2> QED BY <1>3, <2>1 DEF SetActive, provider, marks
<1>4. ASSUME NEW j \in Calls, RecordCall(j)
      PROVE  /\ UNCHANGED <<sync, clamps, contactMark, callMark, run, now, contact, event,
                            orphans, failed>>
             /\ \A k \in Calls : call'[k] = call[k]
                  \/ /\ call[k].real = 0 /\ call'[k].real = now
                     /\ call'[k].at <= now /\ call'[k].at >= now - Skew
  <2>1. PICK lag \in 0..Skew :
          call[j].real = 0
          /\ call' = [call EXCEPT ![j] = [at |-> Later(0, now - lag), real |-> now]]
    BY <1>4 DEF RecordCall
  <2>2. Later(0, now - lag) <= now /\ Later(0, now - lag) >= now - Skew
    BY <1>0, BoundsTyped DEF Later
  <2> QED BY <1>0, <1>4, <2>1, <2>2 DEF RecordCall, db, marks
<1>5. ASSUME NEW d \in Contacts, Modify(d)
      PROVE  /\ UNCHANGED <<sync, clamps, contactMark, callMark, run, call, event, orphans,
                            failed>>
             /\ now' = now + 1
             /\ \A c \in Contacts : contact'[c].at = contact[c].at \/ contact'[c].at > now
  <2>1. PICK deleted \in BOOLEAN :
          contact' = [contact EXCEPT ![d] = [at |-> now + 1, deleted |-> deleted]]
    BY <1>5 DEF Modify
  <2> QED BY <1>0, <1>5, <2>1 DEF Modify, db, marks
<1>6. CASE AbortHook \/ Tick \/ UNCHANGED vars \/ \E c \in Contacts : BeginHook(c)
  <2>1. UNCHANGED <<sync, clamps, contactMark, callMark, run, contact, call, event, orphans,
                    failed>>
        /\ (now' = now \/ now' = now + 1)
    BY <1>6 DEF AbortHook, Tick, vars, BeginHook, provider, db, marks
  <2> QED BY <1>0, <2>1 DEF SessionStands, SameRun
<1>7. CASE \E c \in Contacts, on \in BOOLEAN : SetActive(c, on)
  BY <1>0, <1>3, <1>7
<1>8. CASE \E k \in Calls : RecordCall(k)
  BY <1>0, <1>4, <1>8 DEF SessionStands, SameRun
<1>9. CASE \E c \in Contacts : Modify(c)
  BY <1>0, <1>5, <1>9 DEF SessionStands, SameRun
<1> QED BY <1>2, <1>6, <1>7, <1>8, <1>9 DEF Around

LEMMA StepKinds ==
  ASSUME [Next]_vars
  PROVE  \/ Around
         \/ \E mode \in Modes : Start(mode)
         \/ FetchPage \/ UpsertPage \/ CommitPage
         \/ FetchWindow \/ UpsertBatch \/ CommitBatch \/ AdvanceCalls
         \/ EndCalls \/ ResolveOrphans
         \/ Finish \/ Fail \/ PersistFailure \/ Crash
<1>1. CASE UNCHANGED vars
  BY <1>1 DEF Around
<1>2. CASE Next
  BY <1>2, Steps, Zenon DEF QuietStep, Around
<1> QED BY <1>1, <1>2

-----------------------------------------------------------------------------
(***************************************************************************)
(* A run that ends well is complete.  The last page of a run is followed   *)
(* to its commit: with it the watermark passes everything that was there   *)
(* when the run began, and the windows that follow end after that time.    *)
(***************************************************************************)
AllHistory == BackfillFloor = 0

Passed(c) == contact[c].at <= sync.started => contact[c].at <= contactMark

(* The last contact of the page ds is not older than the contact c.         *)
Reached(c, ds) == \E d \in ds : contact[c].at <= d.at

DoneInv ==
  /\ OnPage /\ ~sync.more => \A c \in Contacts : Passed(c) \/ Reached(c, sync.page)
  /\ InCalls \/ Ending => \A c \in Contacts : Passed(c)
  /\ InCalls => sync.end >= sync.started
  /\ Ending => Read(sync.started)

LEMMA InitDone == Init => DoneInv
BY DEF Init, Idle, DoneInv, OnPage, InCalls, InWindow, Ending

(* What others do is newer than the run.                                    *)
LEMMA AroundDone ==
  ASSUME ClocksAgree, TypeInv, TypeInv', CallInv, DoneInv, Around
  PROVE  DoneInv'
<1>0. /\ now \in Nat /\ sync.started \in Nat /\ sync.started <= now
      /\ contactMark \in Nat /\ Skew = 0
      /\ \A c \in Contacts : contact[c].at \in Nat /\ contact'[c].at \in Nat
  BY DEF TypeInv, TypeOK, SessionOK, Session, CallInv, BoundsPast, ClocksAgree
<1>1. /\ SessionStands /\ contactMark' = contactMark /\ now <= now' /\ now' \in Nat
      /\ \A c \in Contacts : contact'[c].at = contact[c].at \/ contact'[c].at > now
      /\ event \cup orphans \subseteq event' \cup orphans'
  BY AroundFields
<1>2. NewCallsAreNow
  <2> SUFFICES ASSUME NEW k \in Calls
               PROVE  call'[k] = call[k] \/ (call[k].real = 0 /\ call'[k].at = now)
    BY DEF NewCallsAreNow
  <2>1. call'[k].at \in Nat
    BY DEF TypeInv, TypeOK
  <2>2. \/ call'[k] = call[k]
        \/ call[k].real = 0 /\ call'[k].at <= now /\ call'[k].at >= now - Skew
    BY AroundFields
  <2> QED BY <1>0, <2>1, <2>2
<1>3. /\ sync'.pc = sync.pc /\ sync'.page = sync.page /\ sync'.more = sync.more
      /\ sync'.started = sync.started /\ sync'.end = sync.end
      /\ (OnPage' <=> OnPage) /\ (InCalls' <=> InCalls) /\ (Ending' <=> Ending)
  BY <1>1 DEF SessionStands, SameRun, OnPage, InCalls, InWindow, Ending
<1>4. ASSUME NEW c \in Contacts
      PROVE  /\ Passed(c) => Passed(c)'
             /\ Passed(c) \/ Reached(c, sync.page) => Passed(c)' \/ Reached(c, sync.page)'
  <2>1. CASE contact'[c].at = contact[c].at
    BY <1>1, <1>3, <2>1 DEF Passed, Reached
  <2>2. CASE contact'[c].at > now
    BY <1>0, <1>3, <2>2 DEF Passed
  <2> QED BY <1>1, <2>1, <2>2
<1>5. ASSUME NEW t \in Nat, t <= now, Read(t)
      PROVE  Read(t)'
  BY <1>0, <1>1, <1>2, <1>5, ReadStands DEF Settled
<1>6. Ending => Read(sync.started)'
  BY <1>0, <1>3, <1>5 DEF DoneInv
<1> QED BY <1>3, <1>4, <1>6 DEF DoneInv

(* An enumeration that is complete has reached every contact.               *)
LEMMA UnreadIsBeyond ==
  ASSUME TypeInv, AckInv, sync.pc = "contacts", NEW c \in Contacts
  PROVE  c \in Unread \/ Passed(c)
<1>1. ServedFrom = sync.cursor
  BY DEF ServedFrom, AckInv, TimesOK
<1>2. contact[c].at > contactMark => contact[c].at > sync.cursor
  BY DEF AckInv, CursorOK
<1>3. contact[c].at \in Nat /\ contactMark \in Nat
  BY DEF TypeInv, TypeOK
<1> QED BY <1>1, <1>2, <1>3 DEF Unread, Passed

LEMMA ContactStepsDone ==
  ASSUME TypeInv, AckInv, CallInv, DoneInv, FetchPage \/ UpsertPage \/ CommitPage
  PROVE  DoneInv'
<1>0. /\ sync \in Session /\ sync.started \in Nat /\ now \in Nat /\ contactMark \in Nat
      /\ sync.started <= now /\ TypeOK /\ PageOK(sync)
      /\ \A c \in Contacts : contact[c].at \in Nat
  BY DEF TypeInv, TypeOK, SessionOK, Session, CallInv, BoundsPast
<1>1. CASE FetchPage
  <2>1. sync.pc = "contacts" /\ UNCHANGED <<contact, contactMark>>
    BY <1>1, FetchPageFields DEF provider, marks
  <2>2. CASE Page = {} /\ sync' = BeginCalls(sync)
    <3>1. sync'.pc = "calls" /\ sync'.started = sync.started /\ sync'.end >= sync.started
      BY <1>0, <2>2, BeginCallsFields
    <3>2. Unread = {}
      BY <2>2, EmptyPageEnds
    <3>3. \A c \in Contacts : Passed(c)'
      BY <2>1, <3>1, <3>2, UnreadIsBeyond DEF Passed
    <3> QED BY <3>1, <3>3 DEF DoneInv, OnPage, InCalls, InWindow, Ending
  <2>3. CASE ~(Page = {} /\ sync' = BeginCalls(sync))
    <3>1. /\ sync'.pc \in {"fetched", "page"} /\ sync'.page = {Dto(c) : c \in Page}
          /\ (sync'.more <=> Page # Unread) /\ sync'.started = sync.started
      BY <1>1, <2>3, FetchPageFields DEF SameRun
    <3>2. ASSUME ~sync'.more, NEW c \in Contacts
          PROVE  Passed(c) \/ Reached(c, sync'.page)
      <4>1. CASE c \in Unread
        <5>1. Dto(c) \in sync'.page /\ Dto(c).at = contact[c].at
          BY <1>0, <3>1, <3>2, <4>1, DtoTyped
        <5> QED BY <1>0, <5>1 DEF Reached
      <4> QED BY <2>1, <4>1, UnreadIsBeyond
    <3>3. ~sync'.more => \A c \in Contacts : (Passed(c) \/ Reached(c, sync.page))'
      BY <2>1, <3>1, <3>2 DEF Passed, Reached
    <3> QED BY <3>1, <3>3 DEF DoneInv, OnPage, InCalls, InWindow, Ending
  <2> QED BY <2>2, <2>3
<1>2. CASE UpsertPage
  <2>1. /\ sync.pc = "fetched" /\ sync'.pc = "page" /\ sync'.page = sync.page
        /\ sync'.more = sync.more /\ sync'.started = sync.started
        /\ UNCHANGED <<contact, contactMark>>
    BY <1>2, UpsertPageFields DEF SameRun, provider, marks
  <2> QED BY <2>1 DEF DoneInv, OnPage, InCalls, InWindow, Ending, Passed, Reached
<1>3. CASE CommitPage
  <2> DEFINE last == BatchEnd(sync.page)
  <2>1. /\ sync.pc = "page" /\ contact' = contact
        /\ contactMark' = Forward(contactMark, last)
        /\ \/ ~sync.more /\ sync' = BeginCalls(sync)
           \/ sync'.pc = "contacts"
    BY <1>3, CommitPageFields DEF provider
  <2>2. last \in Nat /\ \A d \in sync.page : d.at \in Nat /\ d.at <= last
    BY <1>0, <2>1, BatchEndIsLast DEF PageOK, Version
  <2>3. contactMark' >= contactMark /\ contactMark' >= last /\ contactMark' \in Nat
    <3> HIDE DEF last
    <3> QED BY <1>0, <2>1, <2>2 DEF Forward, Later
  <2>4. CASE sync'.pc = "contacts"
    BY <2>4 DEF DoneInv, OnPage, InCalls, InWindow, Ending
  <2>5. CASE ~sync.more /\ sync' = BeginCalls(sync)
    <3>1. sync'.pc = "calls" /\ sync'.started = sync.started /\ sync'.end >= sync.started
      BY <1>0, <2>5, BeginCallsFields
    <3>2. ASSUME NEW c \in Contacts, contact[c].at <= sync.started
          PROVE  contact[c].at <= contactMark'
      <4>1. contact[c].at <= contactMark \/ \E d \in sync.page : contact[c].at <= d.at
        BY <2>1, <2>5, <3>2 DEF DoneInv, OnPage, Passed, Reached
      <4>2. contact[c].at <= contactMark \/ contact[c].at <= last
        <5> HIDE DEF last
        <5> QED BY <1>0, <2>2, <4>1
      <4> HIDE DEF last
      <4> QED BY <1>0, <2>2, <2>3, <4>2
    <3>3. \A c \in Contacts : Passed(c)'
      BY <2>1, <3>1, <3>2 DEF Passed
    <3> QED BY <3>1, <3>3 DEF DoneInv, OnPage, InCalls, InWindow, Ending
  <2> QED BY <2>1, <2>4, <2>5
<1> QED BY <1>1, <1>2, <1>3

LEMMA CallStepsDone ==
  ASSUME TypeInv, CallInv, DoneInv,
         \/ FetchWindow \/ UpsertBatch \/ CommitBatch \/ AdvanceCalls
         \/ EndCalls \/ ResolveOrphans
  PROVE  DoneInv'
<1>0. /\ sync.started \in Nat /\ sync.end \in Nat /\ sync.cursor \in Nat
      /\ \A k \in Calls : call[k].at \in Nat
  BY DEF TypeInv, TypeOK, SessionOK, Session
<1>1. CASE FetchWindow \/ UpsertBatch \/ CommitBatch \/ AdvanceCalls
  <2>1. /\ InCalls /\ InCalls' /\ sync'.started = sync.started /\ sync'.end = sync.end
        /\ UNCHANGED <<contact, contactMark>>
    BY <1>1, WindowFields DEF SameRun
  <2>2. \A c \in Contacts : Passed(c)'
    BY <2>1 DEF DoneInv, Passed
  <2> QED BY <2>1, <2>2 DEF DoneInv, OnPage, InCalls, InWindow, Ending
<1>2. CASE EndCalls
  <2>1. /\ sync.pc = "calls" /\ sync.cursor >= sync.end /\ sync'.started = sync.started
        /\ UNCHANGED <<contact, contactMark, call, event, orphans>>
        /\ sync'.pc \in {"contacts", "resolve"}
    BY <1>2, EndCallsFields DEF provider, marks, db
  <2>2. sync.end >= sync.started /\ \A c \in Contacts : Passed(c)
    BY <2>1 DEF DoneInv, InCalls
  <2>3. Read(sync.started)
    BY <1>0, <2>1, <2>2 DEF CallInv, CursorRead, Read
  <2>4. Read(sync.started)' /\ \A c \in Contacts : Passed(c)'
    BY <2>1, <2>2, <2>3 DEF Read, Passed
  <2> QED BY <2>1, <2>4 DEF DoneInv, OnPage, InCalls, InWindow, Ending
<1>3. CASE ResolveOrphans
  <2>1. /\ sync.pc = "resolve" /\ sync'.pc = "finish" /\ sync'.started = sync.started
        /\ UNCHANGED <<contact, contactMark, call, event, orphans>>
    BY <1>3, ResolveFields DEF SameRun, provider, marks, db
  <2>2. Read(sync.started)' /\ \A c \in Contacts : Passed(c)'
    BY <2>1 DEF DoneInv, Ending, Read, Passed
  <2> QED BY <2>1, <2>2 DEF DoneInv, OnPage, InCalls, InWindow, Ending
<1> QED BY <1>1, <1>2, <1>3

LEMMA NextDone ==
  ClocksAgree /\ TypeInv /\ AckInv /\ CallInv /\ DoneInv /\ [Next]_vars => DoneInv'
<1> SUFFICES ASSUME ClocksAgree, TypeInv, AckInv, CallInv, DoneInv, [Next]_vars
             PROVE  DoneInv'
  OBVIOUS
<1>1. TypeInv'
  BY NextTyped
<1>2. ASSUME NEW mode \in Modes, Start(mode)
      PROVE  DoneInv'
  BY <1>2, StartFields DEF DoneInv, OnPage, InCalls, InWindow, Ending
<1>3. CASE Finish \/ Fail \/ PersistFailure \/ Crash
  BY <1>3, RestFields DEF DoneInv, Rest, OnPage, InCalls, InWindow, Ending
<1> QED BY <1>1, <1>2, <1>3, AroundDone, ContactStepsDone, CallStepsDone, StepKinds

(* A run that reports success has read every contact and every call that    *)
(* was there when it began, whatever failed in earlier runs (orchestrator's *)
(* run status, orchestrator.py:207 and 340).                                *)
THEOREM SuccessMeansComplete ==
  ASSUME Faithful, ClocksAgree, AllHistory
  PROVE  Spec => SuccessIsComplete
<1>1. Floored
  BY DEF AllHistory, Floored
<1>2. Spec => [](TypeInv /\ FreshInv /\ AckInv /\ CallInv /\ DoneInv)
  BY <1>1, InitTyped, NextTyped, InitFresh, NextFresh, InitAck, NextAck, InitCalls,
     NextCalls, InitDone, NextDone, PTL DEF Spec
<1>3. ASSUME TypeInv, AckInv, CallInv, DoneInv, [Next]_vars, EndsWell
      PROVE  /\ \A c \in Contacts :
                  contact[c].at \in 1..sync.started => Accounted(c)
             /\ \A k \in Calls :
                  call[k].real > 0 /\ call[k].at < sync.started => k \in (event \cup orphans)'
  <2>0. /\ sync.started \in Nat /\ contactMark \in Nat
        /\ \A c \in Contacts : contact[c].at \in Nat
        /\ \A k \in Calls : call[k].at \in Nat
    BY <1>3 DEF TypeInv, TypeOK, SessionOK, Session
  <2>1. Finish
    BY <1>3, EndsByFinish
  <2>2. Ending /\ Write(sync.work)
    BY <2>1 DEF Finish, Ending
  <2>3. \A c \in Contacts : Passed(c)
    BY <1>3, <2>2 DEF DoneInv
  <2>4. \A c \in Contacts : contact[c].at \in 1..sync.started => Accounted(c)
    BY <1>3, <2>0, <2>3 DEF AckInv, ContactsAcknowledged, Passed
  <2>5. \A k \in Calls : call[k].real > 0 /\ call[k].at < sync.started
          => k \in event \cup orphans
    BY <1>3, <2>0, <2>2 DEF DoneInv, Read, AllHistory
  <2>6. event \cup orphans \subseteq event' \cup orphans'
    BY <2>2, WritesKeepCalls
  <2> QED BY <2>4, <2>5, <2>6
<1>4. TypeInv /\ AckInv /\ CallInv /\ DoneInv /\ [Next]_vars =>
        [EndsWell /\ sync.mode = "catch_up" =>
           /\ \A c \in Contacts :
                contact[c].at \in 1..sync.started => Accounted(c)
           /\ \A k \in Calls :
                call[k].real > 0 /\ call[k].at < sync.started
                  => k \in (event \cup orphans)']_vars
  BY <1>3
<1> QED BY <1>2, <1>4, PTL DEF Spec, SuccessIsComplete

-----------------------------------------------------------------------------
(***************************************************************************)
(* The seam of a full import.  Its bootstrap takes every call recorded     *)
(* before it began; the catch-up starts earlier by the overlap, which no   *)
(* lag of the provider's clock exceeds, and takes the rest.  What is       *)
(* recorded meanwhile is recorded after the end of the phase.              *)
(***************************************************************************)
LagCovered == Skew <= Overlap

(* The calls recorded before the phase's end whose stamps are below t.      *)
Scanned(t) ==
  \A k \in Calls : call[k].real \in 1..(sync.end - 1) /\ call[k].at < t
    => k \in event \cup orphans

(* Every call recorded before t.                                            *)
Taken(t) == \A k \in Calls : call[k].real \in 1..(t - 1) => k \in event \cup orphans

StampsOK ==
  \A k \in Calls : /\ call[k].at <= call[k].real /\ call[k].real <= now
                   /\ call[k].at >= call[k].real - Skew

SeamTimes ==
  /\ sync.started <= now
  /\ InCalls \/ Ending => sync.end <= now
  /\ InCalls /\ sync.phase = "boot" => sync.end = sync.started
  /\ InWindow \/ sync.pc = "mark" => sync.cursor < sync.end

SeamWindow ==
  /\ InWindow =>
       \A k \in Calls :
         /\ call[k].real \in 1..(sync.end - 1)
         /\ call[k].at >= sync.cursor /\ call[k].at < WindowEnd
         => k \in sync.page
  /\ sync.pc = "batch" =>
       /\ sync.work.resolved = {}
       /\ sync.page \subseteq event \cup orphans \cup sync.work.events \cup sync.work.buffer

SeamReads ==
  /\ sync.phase = "catch" /\ InContacts => Taken(sync.started)
  /\ sync.pc = "calls" \/ InWindow => Scanned(sync.cursor)
  /\ sync.pc = "mark" => Scanned(WindowEnd)
  /\ Ending => Taken(sync.end)

SeamInv ==
  /\ sync.mode = "full_import" => sync.phase # "only"
  /\ StampsOK
  /\ SeamTimes
  /\ SeamWindow
  /\ sync.phase # "only" => SeamReads

LEMMA InitSeam == Init => SeamInv
<1> SUFFICES ASSUME Init PROVE SeamInv
  OBVIOUS
<1>1. /\ now = 1 /\ sync.started = 0 /\ sync.pc = "idle" /\ sync.mode = "catch_up"
      /\ sync.phase = "only"
      /\ \A k \in Calls : call[k].real = 0 /\ call[k].at = 0
  BY DEF Init, Idle
<1> QED BY <1>1, BoundsTyped
        DEF SeamInv, StampsOK, SeamTimes, SeamWindow, InCalls, InWindow, Ending

(* Others record calls, but only with the present time.                     *)
LEMMA AroundSeam ==
  ASSUME TypeInv, TypeInv', SeamInv, Around
  PROVE  SeamInv'
<1> USE DEF SeamInv
<1>0. /\ now \in Nat /\ sync.started \in Nat /\ sync.end \in Nat /\ sync.cursor \in Nat
      /\ Skew \in Nat
      /\ \A k \in Calls : call[k].at \in Nat /\ call[k].real \in Nat
  BY BoundsTyped DEF TypeInv, TypeOK, SessionOK, Session
<1>1. /\ SessionStands /\ now <= now' /\ now' \in Nat
      /\ event \cup orphans \subseteq event' \cup orphans'
      /\ \A k \in Calls : call'[k] = call[k]
           \/ /\ call[k].real = 0 /\ call'[k].real = now
              /\ call'[k].at <= now /\ call'[k].at >= now - Skew
  BY AroundFields
<1>2. /\ sync'.pc = sync.pc /\ sync'.page = sync.page /\ sync'.cursor = sync.cursor
      /\ sync'.started = sync.started /\ sync'.end = sync.end
      /\ sync'.mode = sync.mode /\ sync'.phase = sync.phase
      /\ sync'.work.events = sync.work.events
      /\ sync'.work.buffer = sync.work.buffer /\ sync'.work.resolved = sync.work.resolved
      /\ (InCalls' <=> InCalls) /\ (InWindow' <=> InWindow) /\ (Ending' <=> Ending)
      /\ (InContacts' <=> InContacts) /\ WindowEnd' = WindowEnd
  BY <1>1 DEF SessionStands, SameRun, InCalls, InWindow, Ending, InContacts, WindowEnd
<1>3. \A k \in Calls, t \in Nat :
        t <= now /\ call'[k].real \in 1..(t - 1) => call'[k] = call[k]
  BY <1>0, <1>1
<1>4. StampsOK'
  BY <1>0, <1>1 DEF StampsOK
<1>5. SeamTimes'
  BY <1>0, <1>1, <1>2 DEF SeamTimes
<1>6. ASSUME NEW t \in Nat, t <= now, Taken(t)
      PROVE  \A k \in Calls : call'[k].real \in 1..(t - 1) => k \in event' \cup orphans'
  BY <1>1, <1>3, <1>6 DEF Taken
<1>7. ASSUME sync.end <= now, NEW t \in Nat, Scanned(t)
      PROVE  \A k \in Calls : call'[k].real \in 1..(sync.end - 1) /\ call'[k].at < t
               => k \in event' \cup orphans'
  BY <1>0, <1>1, <1>3, <1>7 DEF Scanned
<1>8. SeamWindow'
  <2>1. InWindow => sync.end <= now
    BY DEF SeamTimes, InCalls
  <2>2. InWindow =>
          \A k \in Calls :
            /\ call'[k].real \in 1..(sync.end - 1)
            /\ call'[k].at >= sync.cursor /\ call'[k].at < WindowEnd
            => k \in sync.page
    BY <1>0, <1>3, <2>1 DEF SeamWindow
  <2> QED BY <1>1, <1>2, <2>2 DEF SeamWindow
<1>9. sync.phase # "only" => SeamReads'
  <2> SUFFICES ASSUME sync.phase # "only" PROVE SeamReads'
    OBVIOUS
  <2>0. WindowEnd \in Nat
    BY <1>0 DEF WindowEnd, Earlier
  <2>1. sync.phase = "catch" /\ InContacts => Taken(sync.started)'
    BY <1>0, <1>2, <1>6 DEF SeamReads, SeamTimes, Taken
  <2>2. sync.pc = "calls" \/ InWindow => Scanned(sync.cursor)'
    BY <1>0, <1>2, <1>7 DEF SeamReads, SeamTimes, Scanned, InCalls
  <2>3. sync.pc = "mark" => Scanned(WindowEnd)'
    BY <1>0, <1>2, <1>7, <2>0 DEF SeamReads, SeamTimes, Scanned, InCalls
  <2>4. Ending => Taken(sync.end)'
    BY <1>0, <1>2, <1>6 DEF SeamReads, SeamTimes, Taken
  <2> QED BY <1>2, <2>1, <2>2, <2>3, <2>4 DEF SeamReads
<1> QED BY <1>2, <1>4, <1>5, <1>8, <1>9

(* The session does not touch the calls, and loses none.                    *)
LEMMA TakenOn ==
  ASSUME SessionCalls, NEW k \in event \cup orphans
  PROVE  k \in event' \cup orphans'
BY DEF SessionCalls

(* The calls of a phase begin.                                              *)
LEMMA BeginCallsSeam ==
  ASSUME LagCovered, TypeInv, SeamInv, SessionCalls, InContacts, sync' = BeginCalls(sync)
  PROVE  SeamInv'
<1> USE DEF SeamInv
<1>0. /\ now \in Nat /\ sync.started \in Nat /\ sync.started <= now
      /\ sync.phase \in {"only", "boot", "catch"}
      /\ Skew \in Nat /\ Overlap \in Nat /\ Skew <= Overlap
      /\ \A k \in Calls : call[k].at \in Nat /\ call[k].real \in Nat
  BY BoundsTyped DEF TypeInv, TypeOK, SessionOK, Session, SeamTimes, LagCovered
<1>1. /\ sync'.pc = "calls" /\ sync'.cursor = CallStart(sync)
      /\ sync'.end = (IF sync.phase = "boot" THEN sync.started ELSE now)
      /\ sync'.mode = sync.mode /\ sync'.phase = sync.phase
      /\ sync'.started = sync.started
      /\ now' = now /\ call' = call
  BY BeginCallsFields DEF SessionCalls
<1>2. SeamTimes'
  BY <1>0, <1>1 DEF SeamTimes, InCalls, InWindow, Ending
<1>3. ASSUME sync.phase # "only", NEW k \in Calls, call[k].real \in 1..(sync'.end - 1),
             call[k].at < CallStart(sync)
      PROVE  k \in event' \cup orphans'
  <2>1. CASE sync.phase = "boot"
    BY <1>0, <1>3, <2>1 DEF CallStart
  <2>2. CASE sync.phase = "catch"
    <3>1. CallStart(sync) = Later(0, sync.started - Overlap)
      BY <2>2 DEF CallStart
    <3>2. call[k].at < sync.started - Overlap
      BY <1>0, <1>3, <3>1 DEF Later
    <3>3. call[k].at >= call[k].real - Skew
      BY DEF StampsOK
    <3>4. call[k].real \in 1..(sync.started - 1)
      BY <1>0, <1>3, <3>2, <3>3
    <3>5. k \in event \cup orphans
      BY <2>2, <3>4 DEF SeamReads, Taken
    <3> QED BY <3>5, TakenOn
  <2> QED BY <1>0, <1>3, <2>1, <2>2
<1>4. sync.phase # "only" => Scanned(sync.cursor)'
  BY <1>1, <1>3 DEF Scanned
<1> QED BY <1>1, <1>2, <1>4
        DEF StampsOK, SeamWindow, SeamReads, InCalls, InWindow, InContacts, Ending

(* The contacts of a phase go on.                                           *)
LEMMA ContactsGoOnSeam ==
  ASSUME TypeInv, SeamInv, SessionCalls, InContacts, InContacts', SameRun
  PROVE  SeamInv'
<1> USE DEF SeamInv
<1>1. now' = now /\ call' = call /\ sync'.mode = sync.mode /\ sync'.phase = sync.phase
      /\ sync'.started = sync.started
  BY DEF SessionCalls, SameRun
<1>2. sync.phase = "catch" => Taken(sync.started)'
  BY <1>1, TakenOn DEF SeamReads, Taken
<1> QED BY <1>1, <1>2 DEF StampsOK, SeamTimes, SeamWindow, SeamReads, InCalls, InWindow,
                          InContacts, Ending

LEMMA ContactStepsSeam ==
  ASSUME LagCovered, TypeInv, SeamInv, FetchPage \/ UpsertPage \/ CommitPage
  PROVE  SeamInv'
<1>1. InContacts /\ SessionCalls
  BY WritesKeepCalls DEF FetchPage, UpsertPage, CommitPage, InContacts, SessionCalls,
                         provider, db
<1>2. sync' = BeginCalls(sync) \/ (InContacts' /\ SameRun)
  BY FetchPageFields, UpsertPageFields, CommitPageFields DEF InContacts
<1> QED BY <1>1, <1>2, BeginCallsSeam, ContactsGoOnSeam

(* The windows.                                                             *)
LEMMA WindowStepsSeam ==
  ASSUME TypeInv, SeamInv, FetchWindow \/ UpsertBatch
  PROVE  SeamInv'
<1> USE DEF SeamInv
<1>0. /\ sync \in Session /\ now \in Nat
      /\ sync.cursor \in Nat /\ sync.end \in Nat
      /\ \A k \in Calls : call[k].at \in Nat /\ call[k].real \in Nat
  BY DEF TypeInv, TypeOK, SessionOK, Session
<1>1. /\ UNCHANGED <<now, call, event, orphans>> /\ SameRun /\ sync'.end = sync.end
      /\ InCalls /\ InCalls'
  BY WindowFields DEF FetchWindow, UpsertBatch, provider, db
<1>2. /\ sync'.cursor = sync.cursor
      /\ sync'.pc = "batch" =>
           /\ sync'.work.resolved = {}
           /\ sync'.page \subseteq event \cup sync'.work.events \cup sync'.work.buffer
      /\ \/ /\ sync.pc = "calls" /\ sync.cursor < sync.end /\ sync'.page = Window
            /\ sync'.pc \in {"mark", "window", "batch"}
            /\ sync'.pc = "mark" => Window = {}
         \/ sync.pc = "window" /\ sync'.pc = "batch" /\ sync'.page = sync.page
  <2>1. CASE FetchWindow
    <3> DEFINE s == [sync EXCEPT !.page = Window]
    <3>1. s \in Session /\ s.page = Window /\ s.cursor = sync.cursor
      BY <1>0 DEF Window, Session
    <3>2. \/ Window = {} /\ sync' = [s EXCEPT !.pc = "mark"]
          \/ sync' = BatchPlan(s)
          \/ sync' = [s EXCEPT !.pc = "window"]
      BY <2>1 DEF FetchWindow
    <3>3. sync.pc = "calls" /\ sync.cursor < sync.end
      BY <2>1 DEF FetchWindow
    <3> HIDE DEF s
    <3>4. CASE Window = {} /\ sync' = [s EXCEPT !.pc = "mark"]
      BY <3>1, <3>3, <3>4 DEF Session
    <3>5. CASE sync' = BatchPlan(s)
      BY <3>1, <3>3, <3>5, BatchIsWhole
    <3>6. CASE sync' = [s EXCEPT !.pc = "window"]
      BY <3>1, <3>3, <3>6 DEF Session
    <3> QED BY <3>2, <3>4, <3>5, <3>6
  <2>2. CASE UpsertBatch
    BY <1>0, <2>2, BatchIsWhole DEF UpsertBatch
  <2> QED BY <2>1, <2>2
<1>3. /\ sync'.mode = sync.mode /\ sync'.phase = sync.phase /\ sync'.started = sync.started
      /\ WindowEnd' = WindowEnd /\ StampsOK'
  BY <1>1, <1>2 DEF SameRun, WindowEnd, StampsOK
<1>4. SeamTimes'
  BY <1>1, <1>2, <1>3 DEF SeamTimes, InCalls, InWindow, Ending
<1>5. SeamWindow'
  <2>1. InWindow' =>
          \A k \in Calls :
            /\ call[k].real \in 1..(sync.end - 1)
            /\ call[k].at >= sync.cursor /\ call[k].at < WindowEnd
            => k \in sync'.page
    BY <1>0, <1>2 DEF SeamWindow, InWindow, Window
  <2> QED BY <1>1, <1>2, <1>3, <2>1 DEF SeamWindow
<1>6. sync.phase # "only" => SeamReads'
  <2> SUFFICES ASSUME sync.phase # "only" PROVE SeamReads'
    OBVIOUS
  <2>1. Scanned(sync.cursor)
    BY <1>2 DEF SeamReads, InWindow
  <2>2. Scanned(sync.cursor)'
    BY <1>1, <1>2, <2>1 DEF Scanned
  <2>3. sync'.pc = "mark" => Scanned(WindowEnd)'
    <3> SUFFICES ASSUME sync'.pc = "mark", NEW k \in Calls,
                        call[k].real \in 1..(sync.end - 1), call[k].at < WindowEnd
                 PROVE  k \in event \cup orphans
      BY <1>1, <1>3 DEF Scanned
    <3>1. Window = {}
      BY <1>2
    <3>2. call[k].at < sync.cursor
      BY <1>0, <3>1 DEF Window
    <3> QED BY <2>1, <3>2 DEF Scanned
  <2> QED BY <1>1, <1>2, <2>2, <2>3 DEF SeamReads, InContacts, InWindow, InCalls, Ending
<1> QED BY <1>3, <1>4, <1>5, <1>6

LEMMA CommitBatchSeam ==
  ASSUME TypeInv, SeamInv, CommitBatch
  PROVE  SeamInv'
<1> USE DEF SeamInv
<1>0. /\ sync \in Session /\ sync.cursor \in Nat /\ sync.end \in Nat
      /\ \A k \in Calls : call[k].at \in Nat /\ call[k].real \in Nat
  BY DEF TypeInv, TypeOK, SessionOK, Session
<1>1. /\ sync.pc = "batch" /\ Write(sync.work) /\ UNCHANGED <<now, call>>
  BY DEF CommitBatch, provider
<1>2. SessionCalls
  BY <1>1, WritesKeepCalls DEF SessionCalls
<1>3. /\ sync'.pc = "mark" /\ sync'.phase = sync.phase /\ sync'.started = sync.started
      /\ sync'.cursor = sync.cursor /\ sync'.end = sync.end /\ sync'.mode = sync.mode
      /\ WindowEnd' = WindowEnd
  BY <1>0 DEF CommitBatch, Session, WindowEnd
<1>4. sync.page \subseteq event' \cup orphans'
  BY <1>1 DEF SeamWindow, Write
<1>5. ASSUME sync.phase # "only", NEW k \in Calls, call[k].real \in 1..(sync.end - 1),
             call[k].at < WindowEnd
      PROVE  k \in event' \cup orphans'
  <2>1. CASE call[k].at >= sync.cursor
    BY <1>1, <1>4, <1>5, <2>1 DEF SeamWindow, InWindow
  <2>2. CASE call[k].at < sync.cursor
    <3>1. k \in event \cup orphans
      BY <1>1, <1>5, <2>2 DEF SeamReads, InWindow, Scanned
    <3> QED BY <1>2, <3>1, TakenOn
  <2> QED BY <1>0, <2>1, <2>2
<1>6. sync.phase # "only" => Scanned(WindowEnd)'
  BY <1>1, <1>3, <1>5 DEF Scanned
<1>7. SeamTimes' /\ StampsOK'
  BY <1>1, <1>3 DEF SeamTimes, StampsOK, InCalls, InWindow, Ending
<1> QED BY <1>3, <1>6, <1>7 DEF SeamWindow, SeamReads, InWindow, InContacts, Ending

LEMMA AdvanceSeam ==
  ASSUME TypeInv, SeamInv, AdvanceCalls
  PROVE  SeamInv'
<1> USE DEF SeamInv
<1>0. sync \in Session /\ sync.cursor \in Nat /\ sync.end \in Nat
  BY DEF TypeInv, TypeOK, SessionOK, Session
<1>1. sync.pc = "mark" /\ UNCHANGED <<now, call, event, orphans>>
  BY DEF AdvanceCalls, provider, db
<1>2. /\ sync'.pc = "calls" /\ sync'.phase = sync.phase /\ sync'.started = sync.started
      /\ sync'.cursor = WindowEnd /\ sync'.end = sync.end /\ sync'.mode = sync.mode
  BY <1>0 DEF AdvanceCalls, Session
<1>3. sync.phase # "only" => Scanned(sync.cursor)'
  BY <1>1, <1>2 DEF SeamReads, Scanned
<1>4. SeamTimes' /\ StampsOK'
  BY <1>1, <1>2 DEF SeamTimes, StampsOK, InCalls, InWindow, Ending
<1> QED BY <1>2, <1>3, <1>4 DEF SeamWindow, SeamReads, InWindow, InContacts, Ending

(* The windows of a phase have reached its end.                             *)
LEMMA EndCallsSeam ==
  ASSUME TypeInv, SeamInv, EndCalls
  PROVE  SeamInv'
<1> USE DEF SeamInv
<1>0. /\ sync.cursor \in Nat /\ sync.end \in Nat /\ sync.started \in Nat
      /\ \A k \in Calls : call[k].at \in Nat /\ call[k].real \in Nat
  BY DEF TypeInv, TypeOK, SessionOK, Session
<1>1. /\ sync.pc = "calls" /\ sync.cursor >= sync.end
      /\ UNCHANGED <<now, call, event, orphans>>
      /\ sync'.mode = sync.mode /\ sync'.started = sync.started /\ sync'.end = sync.end
      /\ \/ sync.phase = "boot" /\ sync'.pc = "contacts" /\ sync'.phase = "catch"
         \/ sync.phase # "boot" /\ sync'.pc = "resolve" /\ sync'.phase = sync.phase
  BY EndCallsFields DEF provider, db
<1>2. sync.phase # "only" => Taken(sync.end)
  <2> SUFFICES ASSUME sync.phase # "only", NEW k \in Calls,
                      call[k].real \in 1..(sync.end - 1)
               PROVE  k \in event \cup orphans
    BY DEF Taken
  <2>1. call[k].at < sync.cursor
    BY <1>0, <1>1 DEF StampsOK
  <2> QED BY <1>1, <2>1 DEF SeamReads, Scanned
<1>3. sync.end <= now /\ (sync.phase = "boot" => sync.end = sync.started)
  BY <1>1 DEF SeamTimes, InCalls
<1>4. SeamTimes' /\ StampsOK'
  BY <1>1, <1>3 DEF SeamTimes, StampsOK, InCalls, InWindow, Ending
<1>5. sync'.phase # "only" => SeamReads'
  BY <1>1, <1>2, <1>3 DEF SeamReads, Taken, InContacts, InWindow, Ending
<1> QED BY <1>1, <1>4, <1>5 DEF SeamWindow, InWindow

LEMMA RestSeam ==
  ASSUME TypeInv, SeamInv,
         \/ \E mode \in Modes : Start(mode)
         \/ ResolveOrphans \/ Finish \/ Fail \/ PersistFailure \/ Crash
  PROVE  SeamInv'
<1> USE DEF SeamInv
<1>0. now \in Nat
  BY DEF TypeInv, TypeOK
<1>1. CASE \E mode \in Modes : Start(mode)
  <2>1. /\ sync'.pc = "contacts" /\ sync'.started = now
        /\ (sync'.mode = "full_import" => sync'.phase = "boot")
        /\ sync'.phase \in {"boot", "only"}
        /\ UNCHANGED <<now, call>>
    BY <1>1, StartFields DEF provider
  <2> QED BY <1>0, <2>1 DEF StampsOK, SeamTimes, SeamWindow, SeamReads, InCalls, InWindow,
                            InContacts, Ending
<1>2. CASE ResolveOrphans
  <2>1. /\ sync.pc = "resolve" /\ sync'.pc = "finish" /\ SameRun /\ sync'.end = sync.end
        /\ UNCHANGED <<now, call, event, orphans>>
    BY <1>2, ResolveFields DEF provider, db
  <2> QED BY <2>1 DEF SameRun, StampsOK, SeamTimes, SeamWindow, SeamReads, InCalls,
                      InWindow, InContacts, Ending, Taken
<1>3. CASE Finish \/ Fail \/ PersistFailure \/ Crash
  <2>1. /\ Rest' /\ sync'.mode = "catch_up" /\ sync'.phase = "only" /\ sync'.started = 0
        /\ UNCHANGED <<now, call>>
    BY <1>3, RestFields DEF provider
  <2> QED BY <1>0, <2>1 DEF Rest, StampsOK, SeamTimes, SeamWindow, InCalls, InWindow, Ending
<1> QED BY <1>1, <1>2, <1>3

LEMMA NextSeam == LagCovered /\ TypeInv /\ SeamInv /\ [Next]_vars => SeamInv'
<1> SUFFICES ASSUME LagCovered, TypeInv, SeamInv, [Next]_vars PROVE SeamInv'
  OBVIOUS
<1>1. TypeInv'
  BY NextTyped
<1> QED BY <1>1, AroundSeam, ContactStepsSeam, WindowStepsSeam, CommitBatchSeam,
           AdvanceSeam, EndCallsSeam, RestSeam, StepKinds

(* No call falls into the seam of a full import between its bootstrap and   *)
(* its catch-up, if the overlap covers the lag of the provider's clock      *)
(* (CATCHUP_OVERLAP): for any calls, windows, failures and crashes.         *)
THEOREM NothingInTheSeam == ASSUME LagCovered PROVE Spec => NoSeam
<1>1. Spec => [](TypeInv /\ SeamInv)
  BY InitTyped, NextTyped, InitSeam, NextSeam, PTL DEF Spec
<1>2. ASSUME SeamInv, [Next]_vars, EndsWell, sync.mode = "full_import"
      PROVE  \A k \in Calls : call[k].real \in 1..(sync.end - 1) => k \in (event \cup orphans)'
  <2>1. Finish
    BY <1>2, EndsByFinish
  <2>2. Ending /\ Write(sync.work)
    BY <2>1 DEF Finish, Ending
  <2>3. Taken(sync.end)
    BY <1>2, <2>2 DEF SeamInv, SeamReads
  <2>4. event \cup orphans \subseteq event' \cup orphans'
    BY <2>2, WritesKeepCalls
  <2> QED BY <2>3, <2>4 DEF Taken
<1>3. SeamInv /\ [Next]_vars =>
        [EndsWell /\ sync.mode = "full_import" =>
           \A k \in Calls : call[k].real \in 1..(sync.end - 1)
                              => k \in (event \cup orphans)']_vars
  BY <1>2
<1> QED BY <1>1, <1>3, PTL DEF Spec, NoSeam

-----------------------------------------------------------------------------
(***************************************************************************)
(* The census of a full import.  The oldest contact of the first page      *)
(* proves that the provider has not clamped the floor; then the bootstrap  *)
(* has read every contact up to its cursor, and after it up to the time it *)
(* began.  What is stale in a page is newer than the whole page and than   *)
(* the beginning of the run.                                               *)
(***************************************************************************)
CensusRead(t) == \A c \in Contacts : contact[c].at \in 1..t => Accounted(c)

Forwards ==
  /\ sync.started <= now
  /\ \A c \in Contacts : contact[c].at <= now /\ lead[c].at <= contact[c].at
  /\ HookForward

(* The contacts of a page are current, or newer than the page and the run.  *)
PageStands(ds) ==
  \A d \in ds :
    /\ d.at <= now
    /\ \/ contact[d.id].at = d.at
       \/ contact[d.id].at > sync.started /\ \A e \in ds : contact[d.id].at > e.at

(* The page holds what the provider owes beyond the cursor.                 *)
Owed(c, ds) ==
  /\ contact[c].at > sync.cursor
  /\ Reached(c, ds) \/ (~sync.more /\ contact[c].at <= sync.started)

Enumerates(ds) ==
  /\ \A d \in ds : d.at > sync.cursor
  /\ \A c \in Contacts : Owed(c, ds) => \E e \in ds : e.id = c /\ e.at = contact[c].at

Unclamped == sync.oldest >= 0 /\ sync.oldest < sync.started - ApiLookback

Boot == sync.phase = "boot" /\ InContacts
Proven ==
  /\ sync.phase # "only" /\ (sync.phase = "catch" \/ ~InContacts)
  /\ ~sync.gap /\ sync.started > ApiLookback

BootOK ==
  /\ sync.cursor <= now
  /\ Unclamped => ~clamps
  /\ ~clamps => CensusRead(sync.cursor) /\ (OnPage => Enumerates(sync.page))

CensusInv ==
  /\ sync.mode = "full_import" => sync.phase # "only"
  /\ Forwards
  /\ OnPage => PageStands(sync.page)
  /\ sync.pc = "page" => PlanCovers(sync.page, sync.work)
  /\ Boot => BootOK
  /\ Proven => CensusRead(sync.started)

LEMMA InitCensus == Init => CensusInv
<1> SUFFICES ASSUME Init PROVE CensusInv
  OBVIOUS
<1>1. /\ now = 1 /\ sync.started = 0 /\ sync.pc = "idle" /\ sync.phase = "only"
      /\ sync.mode = "catch_up" /\ hook.work.plan = {}
      /\ \A c \in Contacts : contact[c].at = 0 /\ lead[c].at = 0
  BY DEF Init, Idle, NoHook, NoWork
<1> QED BY <1>1 DEF CensusInv, Forwards, HookForward, OnPage, Boot, InContacts, Proven

(* What the steps around the session do to leads.                           *)
LEMMA AroundLeads ==
  ASSUME TypeInv, TypeInv', FreshInv, Forwards, Around
  PROVE  /\ HookForward'
         /\ \A c \in Contacts : /\ lead[c].at <= lead'[c].at /\ lead'[c].at <= contact[c].at
                                /\ Ambiguous(c)' <=> Ambiguous(c)
<1>0. /\ sync.work \in Work /\ hook.work \in Work /\ TypeOK /\ NoWork.plan = {} /\ now \in Nat
      /\ \A c \in Contacts : /\ lead[c].at \in Nat /\ contact[c].at \in Nat
                             /\ lead[c].at <= contact[c].at
  BY DEF TypeInv, TypeOK, SessionOK, Session, NoWork, Forwards
<1>1. CASE CommitHook
  <2>1. /\ Write(hook.work) /\ ~hook.work.doomed /\ hook'.work = NoWork
        /\ contact' = contact
    BY <1>1, CommitHookEffect
  <2>2. HookForward'
    BY <1>0, <2>1 DEF HookForward
  <2>3. ASSUME NEW c \in Contacts
        PROVE  /\ lead[c].at <= lead'[c].at /\ lead'[c].at <= contact[c].at
               /\ Ambiguous(c)' <=> Ambiguous(c)
    <3>1. Ambiguous(c)' <=> Ambiguous(c)
      BY <1>0, <2>1, AmbiguityStands DEF FreshInv
    <3>2. CASE c \notin Planned(hook.work.plan)
      BY <1>0, <2>1, <3>1, <3>2, WriteEffect
    <3>3. CASE c \in Planned(hook.work.plan)
      <4>0. TypeOK /\ hook.work \in Work /\ Write(hook.work)
        BY <1>0, <2>1
      <4>1. PICK p \in hook.work.plan :
              /\ p.id = c
              /\ lead'[c] = [copies |-> IF p.new THEN lead[c].copies + 1 ELSE lead[c].copies,
                             at |-> p.row.at, active |-> p.row.active, flag |-> p.row.flag]
        BY <3>3, <4>0, WriteEffect
      <4>2. lead'[c].at = p.row.at
        BY <4>1
      <4>3. lead[c].at <= p.row.at /\ p.row.at <= contact[c].at
        BY <2>1, <4>1 DEF Forwards, HookForward
      <4> QED BY <3>1, <4>2, <4>3
    <3> QED BY <3>2, <3>3
  <2> QED BY <2>2, <2>3
<1>2. ASSUME NEW c \in Contacts, BeginHook(c)
      PROVE  HookForward' /\ UNCHANGED <<lead, ref>>
  <2>1. UNCHANGED <<contact, lead, ref>>
    BY <1>2 DEF BeginHook, db, provider
  <2>2. PICK ds \in SUBSET {Dto(c)} : hook'.work.plan = LeadPlan(ds)
    BY <1>2, BeginHookEffect
  <2>3. ASSUME NEW p \in LeadPlan(ds)
        PROVE  lead[p.id].at <= p.row.at /\ p.row.at <= contact[p.id].at
    <3>1. PICK d \in ds : p = [id |-> d.id, new |-> lead[d.id].copies = 0,
                               row |-> LeadValues(d)]
      BY DEF LeadPlan
    <3>2. d = Dto(c)
      OBVIOUS
    <3>3. d.id = c /\ d.at = contact[c].at
      BY <1>0, <3>2, DtoTyped
    <3>4. p.id = c /\ p.row.at = contact[c].at
      BY <3>1, <3>3 DEF LeadValues
    <3> QED BY <1>0, <3>4
  <2> QED BY <2>1, <2>2, <2>3 DEF HookForward
<1>3. ASSUME NEW c \in Contacts, NEW on \in BOOLEAN, SetActive(c, on)
      PROVE  /\ HookForward'
             /\ \A x \in Contacts : /\ lead'[x].at = lead[x].at
                                    /\ Ambiguous(x)' <=> Ambiguous(x)
  <2> DEFINE rows == {<<"lead", c>>}
  <2>1. /\ \A d \in Contacts \ {c} : lead'[d] = lead[d]
        /\ lead'[c] = [lead[c] EXCEPT !.active = on]
        /\ hook'.work = Hit(hook.work, rows)
        /\ UNCHANGED <<contact, ref>>
    BY <1>3, SetActiveEffect
  <2>2. \A x \in Contacts : lead'[x].at = lead[x].at /\ lead'[x].copies = lead[x].copies
    <3>1. lead[c] \in [copies : Nat, at : Nat, active : BOOLEAN, flag : BOOLEAN]
      BY <1>0 DEF TypeOK
    <3>2. lead'[c].at = lead[c].at /\ lead'[c].copies = lead[c].copies
      BY <2>1, <3>1
    <3> QED BY <2>1, <3>2
  <2>3. HookForward'
    <3> SUFFICES ASSUME ~Hit(hook.work, rows).doomed, NEW p \in Hit(hook.work, rows).plan
                 PROVE  lead'[p.id].at <= p.row.at /\ p.row.at <= contact'[p.id].at
      BY <2>1 DEF HookForward
    <3>1. p \in hook.work.plan /\ ~hook.work.doomed
      BY <1>0, HitTyped
    <3>2. p.id \in Contacts
      BY <1>0, <3>1 DEF Work
    <3> QED BY <2>1, <2>2, <3>1, <3>2 DEF Forwards, HookForward
  <2> QED BY <2>1, <2>2, <2>3 DEF Ambiguous
<1>4. CASE AbortHook
  BY <1>0, <1>4 DEF AbortHook, NoHook, HookForward, Ambiguous, db
<1>5. CASE UNCHANGED vars \/ Tick \/ \E k \in Calls : RecordCall(k)
  <2>1. UNCHANGED <<contact, lead, ref, hook>>
    BY <1>5 DEF vars, Tick, RecordCall, provider, db
  <2> QED BY <1>0, <2>1 DEF Forwards, HookForward, Ambiguous
<1>6. ASSUME NEW c \in Contacts, Modify(c)
      PROVE  HookForward' /\ UNCHANGED <<lead, ref>>
  <2>1. UNCHANGED <<lead, ref, hook>>
    BY <1>6 DEF Modify, db
  <2>2. \A x \in Contacts : contact'[x].at = contact[x].at \/ contact'[x].at > now
    BY <1>6, AroundFields
  <2>3. \A p \in hook.work.plan : p.id \in Contacts /\ p.row.at \in Nat
    BY <1>0 DEF Work
  <2>4. \A x \in Contacts : contact'[x].at \in Nat /\ contact[x].at <= now
    BY DEF TypeInv, TypeOK, Forwards
  <2>5. HookForward'
    <3> SUFFICES ASSUME ~hook.work.doomed, NEW p \in hook.work.plan
                 PROVE  lead[p.id].at <= p.row.at /\ p.row.at <= contact'[p.id].at
      BY <2>1 DEF HookForward
    <3>1. lead[p.id].at <= p.row.at /\ p.row.at <= contact[p.id].at
      BY DEF Forwards, HookForward
    <3> QED BY <1>0, <2>2, <2>3, <2>4, <3>1
  <2> QED BY <2>1, <2>5
<1>7. CASE \E c \in Contacts : BeginHook(c) \/ Modify(c)
  BY <1>0, <1>2, <1>6, <1>7 DEF Ambiguous
<1>8. CASE \E c \in Contacts, on \in BOOLEAN : SetActive(c, on)
  BY <1>0, <1>3, <1>8
<1> QED BY <1>1, <1>4, <1>5, <1>7, <1>8 DEF Around

LEMMA AroundCensus ==
  ASSUME TypeInv, TypeInv', FreshInv, CensusInv, Around
  PROVE  CensusInv'
<1> USE DEF CensusInv
<1>0. /\ now \in Nat /\ sync.started \in Nat /\ sync.started <= now /\ sync.cursor \in Nat
      /\ \A c \in Contacts : /\ contact[c].at \in Nat /\ contact'[c].at \in Nat
                             /\ lead[c].at \in Nat /\ lead'[c].at \in Nat
                             /\ contact[c].at <= now
  BY DEF TypeInv, TypeOK, SessionOK, Session, Forwards
<1>1. /\ SessionStands /\ clamps' = clamps /\ failed' = failed /\ now <= now' /\ now' \in Nat
      /\ \A c \in Contacts : contact'[c].at = contact[c].at \/ contact'[c].at > now
  BY AroundFields
<1>2. /\ HookForward'
      /\ \A c \in Contacts : /\ lead[c].at <= lead'[c].at /\ lead'[c].at <= contact[c].at
                             /\ Ambiguous(c)' <=> Ambiguous(c)
  BY AroundLeads
<1>3. /\ sync'.pc = sync.pc /\ sync'.page = sync.page /\ sync'.cursor = sync.cursor
      /\ sync'.more = sync.more /\ sync'.oldest = sync.oldest
      /\ sync'.started = sync.started /\ sync'.gap = sync.gap
      /\ sync'.mode = sync.mode /\ sync'.phase = sync.phase
      /\ sync'.work.plan = sync.work.plan /\ sync'.work.failed = sync.work.failed
      /\ (OnPage' <=> OnPage) /\ (Boot' <=> Boot) /\ (Proven' <=> Proven)
      /\ (Unclamped' <=> Unclamped)
  BY <1>1 DEF SessionStands, SameRun, OnPage, Boot, Proven, InContacts, Unclamped
<1>4. Forwards'
  <2>1. \A c \in Contacts : contact'[c].at <= now'
    <3>1. CASE CommitHook \/ AbortHook \/ Tick \/ UNCHANGED vars
               \/ (\E c \in Contacts : BeginHook(c)) \/ (\E k \in Calls : RecordCall(k))
               \/ \E c \in Contacts, on \in BOOLEAN : SetActive(c, on)
      <4>1. contact' = contact
        BY <3>1 DEF CommitHook, AbortHook, Tick, vars, BeginHook, RecordCall, SetActive,
                    provider
      <4> QED BY <1>0, <1>1, <4>1
    <3>2. ASSUME NEW d \in Contacts, Modify(d)
          PROVE  \A c \in Contacts : contact'[c].at <= now'
      <4>1. PICK deleted \in BOOLEAN :
              contact' = [contact EXCEPT ![d] = [at |-> now + 1, deleted |-> deleted]]
        BY <3>2 DEF Modify
      <4>2. now' = now + 1 /\ contact \in [Contacts -> [at : Nat, deleted : BOOLEAN]]
        BY <3>2 DEF Modify, TypeInv, TypeOK
      <4> QED BY <1>0, <4>1, <4>2
    <3> QED BY <3>1, <3>2, Zenon DEF Around
  <2>2. \A c \in Contacts : lead'[c].at <= contact'[c].at
    BY <1>0, <1>1, <1>2
  <2> QED BY <1>0, <1>1, <1>2, <1>3, <2>1, <2>2 DEF Forwards
<1>5. ASSUME NEW c \in Contacts, contact'[c].at <= now, Accounted(c)
      PROVE  Accounted(c)'
  <2>1. contact'[c].at = contact[c].at
    BY <1>0, <1>1, <1>5
  <2> QED BY <1>1, <1>2, <1>5, <2>1, AccountStands
<1>6. ASSUME NEW t \in Nat, t <= now, CensusRead(t)
      PROVE  \A c \in Contacts : contact'[c].at \in 1..t => Accounted(c)'
  <2> SUFFICES ASSUME NEW c \in Contacts, contact'[c].at \in 1..t PROVE Accounted(c)'
    OBVIOUS
  <2>1. contact'[c].at <= now /\ contact'[c].at = contact[c].at
    BY <1>0, <1>1, <1>6
  <2> QED BY <1>5, <1>6, <2>1 DEF CensusRead
<1>7. OnPage => /\ sync.page \in SUBSET Version
                /\ \A d \in sync.page : d.at \in Nat /\ d.id \in Contacts /\ d.at <= now
  BY DEF OnPage, TypeInv, SessionOK, PageOK, Version, PageStands
<1>8. OnPage => PageStands(sync.page)'
  <2> SUFFICES ASSUME OnPage, NEW d \in sync.page
               PROVE  /\ d.at <= now'
                      /\ \/ contact'[d.id].at = d.at
                         \/ /\ contact'[d.id].at > sync.started
                            /\ \A e \in sync.page : contact'[d.id].at > e.at
    BY <1>3 DEF PageStands
  <2>1. CASE contact'[d.id].at = contact[d.id].at
    BY <1>0, <1>1, <1>7, <2>1 DEF PageStands
  <2>2. CASE contact'[d.id].at > now
    BY <1>0, <1>1, <1>7, <2>2
  <2> QED BY <1>1, <1>7, <2>1, <2>2
<1>9. sync.pc = "page" => PlanCovers(sync.page, sync.work)'
  <2> SUFFICES ASSUME sync.pc = "page", NEW d \in sync.page \ sync.work.failed,
                      d.id \notin Planned(sync.work.plan), ~Ambiguous(d.id)',
                      contact'[d.id].at = d.at
               PROVE  lead'[d.id].at = d.at
    BY <1>3 DEF PlanCovers
  <2>1. d.id \in Contacts /\ d.at <= now /\ d.at \in Nat
    BY <1>7 DEF OnPage
  <2>2. contact[d.id].at = d.at
    BY <1>0, <1>1, <2>1
  <2>3. lead[d.id].at = d.at
    BY <1>2, <2>1, <2>2 DEF PlanCovers
  <2> QED BY <1>0, <1>2, <2>1, <2>2, <2>3
<1>10. Proven => CensusRead(sync.started)'
  BY <1>0, <1>3, <1>6 DEF CensusRead
<1>11. Boot => BootOK'
  <2> SUFFICES ASSUME Boot, ~clamps
               PROVE  CensusRead(sync.cursor)' /\ (OnPage => Enumerates(sync.page)')
    BY <1>0, <1>1, <1>3 DEF BootOK
  <2>1. CensusRead(sync.cursor)'
    BY <1>0, <1>3, <1>6 DEF BootOK, CensusRead
  <2>2. ASSUME OnPage, NEW c \in Contacts, contact'[c].at > sync.cursor,
               \/ \E d \in sync.page : contact'[c].at <= d.at
               \/ ~sync.more /\ contact'[c].at <= sync.started
        PROVE  \E e \in sync.page : e.id = c /\ e.at = contact'[c].at
    <3>1. contact'[c].at = contact[c].at
      BY <1>0, <1>1, <1>7, <2>2
    <3> QED BY <2>2, <3>1 DEF BootOK, Enumerates, Owed, Reached
  <2>3. OnPage => Enumerates(sync.page)'
    BY <1>3, <2>2 DEF BootOK, Enumerates, Owed, Reached
  <2> QED BY <2>1, <2>3
<1> QED BY <1>3, <1>4, <1>8, <1>9, <1>10, <1>11

-----------------------------------------------------------------------------
(* A page is a prefix of what is unread.                                    *)
LEMMA PageIsPrefix ==
  ASSUME TypeInv, NEW c \in Unread, NEW d \in Page, contact[c].at <= contact[d].at
  PROVE  c \in Page
<1> DEFINE Below(t) == {x \in Unread : contact[x].at < t}
<1>1. \A x \in Unread : contact[x].at \in Nat
  BY DEF Unread, TypeInv, TypeOK
<1>2. d \in Unread /\ Cardinality(Below(contact[d].at)) < PageSize
  BY DEF Page
<1>3. IsFiniteSet(Below(contact[d].at))
  BY FiniteAssumption, FS_Subset DEF Unread
<1>4. Below(contact[c].at) \in SUBSET Below(contact[d].at)
  BY <1>1, <1>2
<1>5. Cardinality(Below(contact[c].at)) <= Cardinality(Below(contact[d].at))
  BY <1>3, <1>4, FS_Subset
<1>6. /\ Cardinality(Below(contact[c].at)) \in Nat
      /\ Cardinality(Below(contact[d].at)) \in Nat
  BY <1>3, <1>4, FS_Subset, FS_CardinalityType
<1>7. Cardinality(Below(contact[c].at)) < PageSize
  BY <1>2, <1>5, <1>6, BoundsTyped
<1> QED BY <1>7 DEF Page

(* Where the contacts of the bootstrap end, its calls begin with a census   *)
(* if there is no gap.                                                      *)
LEMMA GapProves ==
  ASSUME TypeInv, Boot, BootOK, ~CensusGap(sync), sync.started > ApiLookback
  PROVE  ~clamps
<1>1. sync.started \in Nat /\ ApiLookback \in Nat
  BY BoundsTyped DEF TypeInv, SessionOK, Session
<1> QED BY <1>1 DEF CensusGap, BootOK, Unclamped

LEMMA FetchCensus ==
  ASSUME TypeInv, CensusInv, FetchPage
  PROVE  CensusInv'
<1> USE DEF CensusInv
<1>0. /\ TypeOK /\ now \in Nat /\ sync.started \in Nat /\ sync.started <= now
      /\ sync.cursor \in Nat /\ ApiLookback \in Nat /\ sync \in Session
      /\ \A c \in Contacts : contact[c].at \in Nat /\ contact[c].at <= now
  BY BoundsTyped DEF TypeInv, TypeOK, SessionOK, Session, Forwards
<1>1. sync.pc = "contacts" /\ UNCHANGED <<now, contact, clamps, lead, ref, hook, failed>>
  BY FetchPageFields DEF provider, db
<1>2. ServedFrom >= sync.cursor /\ (~clamps => ServedFrom = sync.cursor)
      /\ (clamps => ServedFrom >= now - ApiLookback)
  BY <1>0 DEF ServedFrom, Later
<1>3. ServedFrom \in Int
  BY <1>0 DEF ServedFrom, Later
<1>4. CASE Page = {} /\ sync' = BeginCalls(sync)
  <2>1. /\ sync'.pc = "calls" /\ sync'.mode = sync.mode /\ sync'.phase = sync.phase
        /\ sync'.started = sync.started
        /\ sync'.gap = IF sync.phase = "boot" THEN CensusGap(sync) ELSE sync.gap
    BY <1>4, BeginCallsFields
  <2>2. Unread = {}
    BY <1>4, EmptyPageEnds
  <2>3. ASSUME ~clamps, CensusRead(sync.cursor)
        PROVE  CensusRead(sync.started)
    <3> SUFFICES ASSUME NEW c \in Contacts, contact[c].at \in 1..sync.started
                 PROVE  Accounted(c)
      BY DEF CensusRead
    <3>1. contact[c].at <= sync.cursor
      BY <1>0, <1>2, <2>2, <2>3 DEF Unread
    <3> QED BY <1>0, <2>3, <3>1 DEF CensusRead
  <2>4. Proven' => CensusRead(sync.started)
    <3> SUFFICES ASSUME Proven' PROVE CensusRead(sync.started)
      OBVIOUS
    <3>1. CASE sync.phase = "boot"
      <4>1. Boot /\ ~CensusGap(sync) /\ sync.started > ApiLookback
        BY <1>1, <2>1, <3>1 DEF Boot, InContacts, Proven
      <4>2. ~clamps /\ CensusRead(sync.cursor)
        BY <4>1, GapProves DEF BootOK
      <4> QED BY <2>3, <4>2
    <3>2. CASE sync.phase # "boot"
      <4>1. Proven
        BY <1>0, <1>1, <2>1, <3>2 DEF Proven, InContacts, Session
      <4> QED BY <4>1
    <3> QED BY <3>1, <3>2
  <2>5. Proven' => CensusRead(sync.started)'
    BY <1>1, <2>1, <2>4 DEF CensusRead, Accounted, Ambiguous
  <2>6. Forwards'
    BY <1>1, <2>1 DEF Forwards, HookForward
  <2> QED BY <2>1, <2>5, <2>6 DEF OnPage, Boot, InContacts
<1>5. CASE ~(Page = {} /\ sync' = BeginCalls(sync))
  <2>1. /\ Page # {} /\ sync'.pc \in {"fetched", "page"}
        /\ sync'.page = {Dto(c) : c \in Page} /\ sync'.page # {}
        /\ (sync'.more <=> Page # Unread)
        /\ SameRun /\ sync'.cursor = sync.cursor
        /\ sync'.oldest = IF sync.oldest >= 0 THEN sync.oldest
                          ELSE Min({d.at : d \in sync'.page})
        /\ sync'.pc = "page" => PlansFor(sync'.page, sync'.work)
    BY <1>5, FetchPageFields
  <2>2. /\ sync'.mode = sync.mode /\ sync'.phase = sync.phase
        /\ sync'.started = sync.started /\ sync'.gap = sync.gap
    BY <2>1 DEF SameRun
  <2>3. ASSUME NEW d \in sync'.page
        PROVE  /\ d \in Version /\ d.id \in Page /\ d.id \in Unread /\ d.id \in Contacts
               /\ d.at = contact[d.id].at /\ d.at > ServedFrom /\ d.at <= now
    <3>1. PICK c \in Page : d = Dto(c)
      BY <2>1
    <3>2. c \in Unread /\ c \in Contacts
      BY DEF Page, Unread
    <3>3. contact[c].at > ServedFrom
      BY <3>2 DEF Unread
    <3> QED BY <1>0, <3>1, <3>2, <3>3, DtoTyped
  <2>4. PageStands(sync.page)'
    BY <1>1, <2>3 DEF PageStands
  <2>5. sync'.pc = "page" => PlanCovers(sync.page, sync.work)'
    <3> SUFFICES ASSUME sync'.pc = "page"
                 PROVE  PlanCovers(sync.page, sync.work)'
      OBVIOUS
    <3>1. sync'.page \in SUBSET Version
      BY <2>3
    <3>2. PlanCovers(sync'.page, sync'.work)
      BY <2>1, <3>1, PlanIsCovering
    <3> QED BY <1>1, <3>2 DEF PlanCovers, Ambiguous
  <2>6. Boot' => BootOK'
    <3> SUFFICES ASSUME Boot' PROVE BootOK'
      OBVIOUS
    <3>1. Boot
      BY <1>1, <2>2 DEF Boot, InContacts
    <3>2. Unclamped' => ~clamps
      <4> SUFFICES ASSUME Unclamped', clamps PROVE FALSE
        OBVIOUS
      <4>1. CASE sync.oldest >= 0
        BY <2>1, <2>2, <3>1, <4>1 DEF Unclamped, BootOK
      <4>2. CASE ~(sync.oldest >= 0)
        <5>1. sync'.page \in SUBSET Version
          BY <2>3
        <5> DEFINE S == {d.at : d \in sync'.page}
        <5>2. S \subseteq Nat /\ S # {}
          BY <2>1, <5>1 DEF Version
        <5>3. \E x \in S : \A y \in S : x <= y
          <6> HIDE DEF S
          <6> QED BY <5>2, LeastNatural
        <5>4. Min(S) \in S
          BY <5>3 DEF Min
        <5>5. PICK d \in sync'.page : d.at = Min(S)
          BY <5>4
        <5>6. sync'.oldest = d.at
          BY <2>1, <4>2, <5>5
        <5>7. d.at > ServedFrom /\ d.at \in Nat /\ ServedFrom >= now - ApiLookback
          BY <1>2, <2>3 DEF Version
        <5>8. d.at < sync.started - ApiLookback
          BY <2>2, <5>6 DEF Unclamped
        <5> HIDE DEF S
        <5> QED BY <1>0, <1>3, <5>7, <5>8
      <4> QED BY <4>1, <4>2
    <3>3. ~clamps => CensusRead(sync.cursor)'
      BY <1>1, <2>1, <3>1 DEF BootOK, CensusRead, Accounted, Ambiguous
    <3>4. ~clamps => Enumerates(sync.page)'
      <4> SUFFICES ASSUME ~clamps PROVE Enumerates(sync.page)'
        OBVIOUS
      <4>1. ASSUME NEW c \in Contacts, contact[c].at > sync.cursor,
                   \/ \E d \in sync'.page : contact[c].at <= d.at
                   \/ ~sync'.more
            PROVE  \E e \in sync'.page : e.id = c /\ e.at = contact[c].at
        <5>1. c \in Unread
          BY <1>2, <4>1 DEF Unread
        <5>2. CASE ~sync'.more
          <6>1. c \in Page
            BY <2>1, <5>1, <5>2
          <6> QED BY <1>0, <2>1, <6>1, DtoTyped
        <5>3. CASE \E d \in sync'.page : contact[c].at <= d.at
          <6>1. PICK d \in sync'.page : contact[c].at <= d.at
            BY <5>3
          <6>2. c \in Page
            BY <2>3, <5>1, <6>1, PageIsPrefix
          <6> QED BY <1>0, <2>1, <6>2, DtoTyped
        <5> QED BY <4>1, <5>2, <5>3
      <4>2. \A d \in sync'.page : d.at > sync.cursor
        BY <1>2, <2>3
      <4> QED BY <1>1, <2>1, <4>1, <4>2 DEF Enumerates, Owed, Reached
    <3> QED BY <1>0, <1>1, <2>1, <3>1, <3>2, <3>3, <3>4 DEF BootOK
  <2>7. Proven' => CensusRead(sync.started)'
    BY <1>1, <2>1, <2>2 DEF Proven, InContacts, CensusRead, Accounted, Ambiguous
  <2>8. Forwards'
    BY <1>1, <2>2 DEF Forwards, HookForward
  <2> QED BY <2>2, <2>4, <2>5, <2>6, <2>7, <2>8
<1> QED BY <1>4, <1>5

LEMMA UpsertCensus ==
  ASSUME TypeInv, CensusInv, UpsertPage
  PROVE  CensusInv'
<1> USE DEF CensusInv
<1>1. /\ sync.pc = "fetched" /\ sync'.pc = "page"
      /\ UNCHANGED <<now, contact, clamps, lead, ref, hook, failed>>
      /\ sync'.page = sync.page /\ sync'.more = sync.more /\ sync'.oldest = sync.oldest
      /\ sync'.cursor = sync.cursor
      /\ sync'.mode = sync.mode /\ sync'.phase = sync.phase
      /\ sync'.started = sync.started /\ sync'.gap = sync.gap
  BY UpsertPageFields DEF SameRun, provider, db
<1>2. PlansFor(sync'.page, sync'.work) /\ sync'.page \in SUBSET Version
  BY <1>1, UpsertPageFields DEF TypeInv, SessionOK, PageOK
<1>4. PlanCovers(sync'.page, sync'.work)
  BY <1>2, PlanIsCovering
<1>5. PlanCovers(sync.page, sync.work)'
  BY <1>1, <1>4 DEF PlanCovers, Ambiguous
<1>6. Boot' => BootOK'
  BY <1>1 DEF Boot, BootOK, InContacts, OnPage, Unclamped, CensusRead, Accounted, Ambiguous,
              Enumerates, Owed, Reached
<1>7. Proven' => CensusRead(sync.started)'
  BY <1>1 DEF Proven, InContacts, CensusRead, Accounted, Ambiguous
<1>8. Forwards' /\ PageStands(sync.page)'
  BY <1>1 DEF Forwards, HookForward, PageStands, OnPage
<1> QED BY <1>1, <1>5, <1>6, <1>7, <1>8

LEMMA CommitPageCensus ==
  ASSUME TypeInv, TypeInv', FreshInv, CensusInv, CommitPage
  PROVE  CensusInv'
<1> USE DEF CensusInv
<1> DEFINE ds == sync.page
           last == BatchEnd(ds)
<1>0. /\ TypeOK /\ now \in Nat /\ sync.started \in Nat /\ sync.started <= now
      /\ sync.cursor \in Nat /\ sync \in Session
      /\ \A c \in Contacts : /\ contact[c].at \in Nat /\ contact[c].at <= now
                             /\ lead[c].at \in Nat /\ lead'[c].at \in Nat
                             /\ lead[c].at <= contact[c].at
  BY DEF TypeInv, TypeOK, SessionOK, Session, Forwards
<1>1. /\ sync.pc = "page" /\ UNCHANGED <<now, contact, clamps>>
      /\ \/ ~sync.more /\ sync' = BeginCalls(sync)
         \/ /\ sync.more /\ sync'.pc = "contacts" /\ sync'.cursor = last
            /\ SameRun /\ sync'.oldest = sync.oldest
  BY CommitPageFields DEF provider
<1>2. /\ ds \in SUBSET Version /\ ds # {} /\ IsFiniteSet(ds)
      /\ PageStands(ds) /\ PlanCovers(ds, sync.work)
  BY <1>1 DEF TypeInv, SessionOK, PageOK, OnPage
<1>3. \A d \in ds : /\ d.at \in Nat /\ d.id \in Contacts /\ d.at <= now
                    /\ \/ contact[d.id].at = d.at
                       \/ contact[d.id].at > sync.started /\ \A e \in ds : contact[d.id].at > e.at
  BY <1>2 DEF Version, PageStands
<1>4. last \in Nat /\ (\E d \in ds : last = d.at) /\ \A d \in ds : d.at <= last
  BY <1>2, BatchEndIsLast
<1>5. \A c \in Contacts : lead'[c] = lead[c] \/ \E d \in ds : d.id = c /\ lead'[c].at = d.at
  BY <1>2, PageLeads
<1> HIDE DEF last
<1>6. \A c \in Contacts : lead'[c].at <= contact[c].at
  <2> SUFFICES ASSUME NEW c \in Contacts PROVE lead'[c].at <= contact[c].at
    OBVIOUS
  <2>1. CASE lead'[c] = lead[c]
    BY <1>0, <2>1
  <2>2. CASE \E d \in ds : d.id = c /\ lead'[c].at = d.at
    <3>1. PICK d \in ds : d.id = c /\ lead'[c].at = d.at
      BY <2>2
    <3> HIDE DEF ds
    <3> QED BY <1>0, <1>3, <3>1
  <2> QED BY <1>5, <2>1, <2>2
<1>7. HookForward'
  <2>1. /\ sync.work \in Work /\ Write(sync.work) /\ contact' = contact
        /\ hook'.work = Hit(hook.work, Rows(sync.work))
    BY CommitEffect
  <2> QED BY <2>1, CommitKeepsForward DEF Forwards
<1>8. sync'.mode = sync.mode /\ sync'.phase = sync.phase /\ sync'.started = sync.started
      /\ (sync.phase # "boot" => sync'.gap = sync.gap)
  BY <1>1, BeginCallsFields DEF SameRun
<1>9. Forwards'
  BY <1>0, <1>1, <1>6, <1>7, <1>8 DEF Forwards
<1>10. ASSUME CensusRead(sync.started)
       PROVE  \A c \in Contacts : contact[c].at \in 1..sync.started => Accounted(c)'
  <2> SUFFICES ASSUME NEW c \in Contacts, contact[c].at \in 1..sync.started
               PROVE  Accounted(c)'
    OBVIOUS
  <2>1. Accounted(c)
    BY <1>10 DEF CensusRead
  <2>2. ASSUME NEW d \in ds, d.id = c
        PROVE  d.at = contact[c].at
    <3>1. contact[c].at <= sync.started
      OBVIOUS
    <3> HIDE DEF ds
    <3> QED BY <1>0, <1>3, <2>2, <3>1
  <2> QED BY <1>1, <1>2, <2>1, <2>2, PageAccounts
<1>11. ASSUME Boot, ~clamps, NEW c \in Contacts, contact[c].at >= 1,
              contact[c].at <= sync.cursor \/ Owed(c, ds)
       PROVE  Accounted(c)'
  <2>0. /\ CensusRead(sync.cursor) /\ Enumerates(ds)
    BY <1>1, <1>11 DEF BootOK, OnPage
  <2>1. CASE contact[c].at <= sync.cursor
    <3>1. Accounted(c)
      BY <1>0, <1>11, <2>0, <2>1 DEF CensusRead
    <3>2. ASSUME NEW d \in ds, d.id = c
          PROVE  d.at = contact[c].at
      <4>1. d.at > sync.cursor
        BY <2>0 DEF Enumerates
      <4> HIDE DEF ds
      <4> QED BY <1>0, <1>3, <2>1, <3>2, <4>1
    <3> QED BY <1>1, <1>2, <3>1, <3>2, PageAccounts
  <2>2. CASE Owed(c, ds)
    <3>1. PICK e \in ds : e.id = c /\ e.at = contact[c].at
      BY <2>0, <2>2 DEF Enumerates
    <3>2. ASSUME NEW d \in ds, d.id = c
          PROVE  d.at = contact[c].at
      <4> HIDE DEF ds
      <4> QED BY <1>0, <1>3, <3>1, <3>2
    <3> QED BY <1>1, <1>2, <3>1, <3>2, PageAccounts
  <2> QED BY <1>11, <2>1, <2>2
<1>12. Boot <=> sync.phase = "boot"
  BY <1>1 DEF Boot, InContacts
<1>13. CASE sync.more /\ sync'.pc = "contacts"
  <2>1. /\ sync'.cursor = last /\ SameRun /\ sync'.oldest = sync.oldest /\ sync'.gap = sync.gap
    BY <1>1, <1>13, BeginCallsFields DEF SameRun
  <2>2. last <= now
    BY <1>3, <1>4
  <2>3. ASSUME Boot, ~clamps
        PROVE  CensusRead(sync.cursor)'
    <3>1. ASSUME NEW c \in Contacts, contact[c].at \in 1..last
          PROVE  Accounted(c)'
      <4>1. contact[c].at <= sync.cursor \/ Owed(c, ds)
        BY <1>0, <1>4, <3>1 DEF Owed, Reached
      <4> QED BY <1>4, <1>11, <2>3, <3>1, <4>1
    <3> QED BY <1>1, <2>1, <3>1 DEF CensusRead
  <2>4. Boot' => BootOK'
    BY <1>1, <1>8, <1>12, <1>13, <2>1, <2>2, <2>3 DEF Boot, BootOK, Unclamped, OnPage
  <2>5. Proven' => CensusRead(sync.started)'
    <3>1. Proven' => Proven
      BY <1>8, <1>13, <2>1 DEF Proven, InContacts
    <3> QED BY <1>1, <1>8, <1>10, <3>1 DEF CensusRead
  <2> QED BY <1>8, <1>9, <1>13, <2>4, <2>5 DEF OnPage
<1>14. CASE ~sync.more /\ sync' = BeginCalls(sync)
  <2>1. sync'.pc = "calls"
        /\ sync'.gap = IF sync.phase = "boot" THEN CensusGap(sync) ELSE sync.gap
    BY <1>14, BeginCallsFields
  <2>2. ASSUME Boot, ~clamps
        PROVE  \A c \in Contacts : contact[c].at \in 1..sync.started => Accounted(c)'
    <3> SUFFICES ASSUME NEW c \in Contacts, contact[c].at \in 1..sync.started
                 PROVE  Accounted(c)'
      OBVIOUS
    <3>1. contact[c].at <= sync.cursor \/ Owed(c, ds)
      BY <1>0, <1>14 DEF Owed
    <3> QED BY <1>0, <1>11, <2>2, <3>1
  <2>3. Proven' => CensusRead(sync.started)'
    <3> SUFFICES ASSUME Proven'
                 PROVE  \A c \in Contacts : contact[c].at \in 1..sync.started => Accounted(c)'
      BY <1>1, <1>8 DEF CensusRead
    <3>1. CASE sync.phase = "boot"
      <4>1. Boot /\ ~CensusGap(sync) /\ sync.started > ApiLookback
        BY <1>8, <1>12, <2>1, <3>1 DEF Proven
      <4>2. ~clamps
        BY <4>1, GapProves
      <4> QED BY <2>2, <4>1, <4>2
    <3>2. CASE sync.phase # "boot"
      <4>1. Proven
        BY <1>0, <1>8, <2>1, <3>2 DEF Proven, Session
      <4> QED BY <1>10, <4>1
    <3> QED BY <3>1, <3>2
  <2> QED BY <1>8, <1>9, <2>1, <2>3 DEF OnPage, Boot, InContacts
<1> QED BY <1>1, <1>13, <1>14

(* The calls write no lead, and leave the census as it is.                  *)
LEMMA CallStepsCensus ==
  ASSUME TypeInv, TypeInv', FreshInv, CensusInv,
         \/ FetchWindow \/ UpsertBatch \/ CommitBatch \/ AdvanceCalls
         \/ EndCalls \/ ResolveOrphans
  PROVE  CensusInv'
<1> USE DEF CensusInv
<1>0. TypeOK /\ sync \in Session
  BY DEF TypeInv, SessionOK
<1>1. /\ UNCHANGED <<now, contact, clamps, failed>> /\ ~InContacts
      /\ sync'.mode = sync.mode /\ sync'.started = sync.started /\ sync'.gap = sync.gap
      /\ \/ ~InContacts' /\ sync'.phase = sync.phase
         \/ sync'.pc = "contacts" /\ sync'.phase = "catch" /\ sync.phase = "boot"
  <2>1. CASE FetchWindow \/ UpsertBatch \/ CommitBatch \/ AdvanceCalls
    BY <2>1, WindowFields DEF SameRun, InCalls, InWindow, InContacts
  <2>2. CASE EndCalls
    BY <2>2, EndCallsFields DEF InContacts, provider
  <2>3. CASE ResolveOrphans
    BY <2>3, ResolveFields DEF SameRun, InContacts, provider
  <2> QED BY <2>1, <2>2, <2>3
<1>2. /\ HookForward'
      /\ \A c \in Contacts : lead'[c] = lead[c] /\ (c \in ref' <=> c \in ref)
  <2>1. CASE CommitBatch
    <3>1. /\ Write(sync.work) /\ sync.work \in Work /\ contact' = contact
          /\ hook'.work = Hit(hook.work, Rows(sync.work))
      BY <2>1, CommitEffect
    <3>2. sync.work.plan = {}
      BY <2>1 DEF CommitBatch, FreshInv
    <3>3. \A c \in Contacts : lead'[c] = lead[c] /\ (c \in ref' <=> c \in ref)
      BY <1>0, <3>1, <3>2, WriteEffect DEF Planned
    <3> QED BY <3>1, <3>3, CommitKeepsForward DEF Forwards
  <2>2. CASE ~CommitBatch
    <3>1. UNCHANGED <<lead, ref, hook, contact>>
      BY <2>2 DEF FetchWindow, UpsertBatch, AdvanceCalls, EndCalls, ResolveOrphans, db,
                  provider
    <3> QED BY <3>1 DEF Forwards, HookForward
  <2> QED BY <2>1, <2>2
<1>3. Forwards'
  BY <1>1, <1>2 DEF Forwards
<1>4. Proven' => Proven
  BY <1>1 DEF Proven
<1>5. Proven' => CensusRead(sync.started)'
  BY <1>1, <1>2, <1>4 DEF CensusRead, Accounted, Ambiguous
<1> QED BY <1>1, <1>3, <1>5 DEF OnPage, Boot, InContacts

LEMMA RestCensus ==
  ASSUME TypeInv, FreshInv, CensusInv,
         \/ \E mode \in Modes : Start(mode)
         \/ Finish \/ Fail \/ PersistFailure \/ Crash
  PROVE  CensusInv'
<1> USE DEF CensusInv
<1>0. TypeOK /\ now \in Nat /\ \A c \in Contacts : contact[c].at \in Nat
  BY DEF TypeInv, TypeOK
<1>1. CASE \E mode \in Modes : Start(mode)
  <2>1. /\ sync'.pc = "contacts" /\ sync'.started = now
        /\ (sync'.mode = "full_import" => sync'.phase = "boot")
        /\ (sync'.phase = "boot" => sync'.cursor = 0)
        /\ sync'.phase \in {"boot", "only"} /\ sync'.oldest = -1
        /\ UNCHANGED <<now, contact, clamps, lead, ref, hook>>
    BY <1>1, StartFields DEF provider, db
  <2>2. Forwards'
    BY <1>0, <2>1 DEF Forwards, HookForward
  <2>3. Boot' => BootOK'
    BY <1>0, <2>1 DEF Boot, BootOK, Unclamped, CensusRead, OnPage
  <2> QED BY <2>1, <2>2, <2>3 DEF OnPage, Proven, InContacts
<1>2. CASE Finish \/ Fail \/ PersistFailure \/ Crash
  <2>1. /\ Rest' /\ sync'.mode = "catch_up" /\ sync'.phase = "only" /\ sync'.started = 0
        /\ UNCHANGED <<now, contact, clamps>>
    BY <1>2, RestFields DEF provider
  <2>2. HookForward' /\ \A c \in Contacts : lead'[c] = lead[c]
    <3>1. CASE Finish
      <4>1. /\ Write(sync.work) /\ sync.work \in Work /\ contact' = contact
            /\ hook'.work = Hit(hook.work, Rows(sync.work))
        BY <3>1, CommitEffect
      <4>2. sync.work.plan = {}
        BY <3>1 DEF Finish, FreshInv
      <4>3. \A c \in Contacts : lead'[c] = lead[c]
        BY <1>0, <4>1, <4>2, WriteEffect DEF Planned
      <4> QED BY <4>1, <4>3, CommitKeepsForward DEF Forwards
    <3>2. CASE ~Finish
      <4>1. UNCHANGED <<lead, hook, contact>>
        BY <1>2, <3>2 DEF Fail, PersistFailure, Crash, db, provider
      <4> QED BY <4>1 DEF Forwards, HookForward
    <3> QED BY <3>1, <3>2
  <2>3. Forwards'
    BY <1>0, <2>1, <2>2 DEF Forwards
  <2> QED BY <2>1, <2>3 DEF Rest, OnPage, Boot, InContacts, Proven
<1> QED BY <1>1, <1>2

LEMMA NextCensus ==
  TypeInv /\ FreshInv /\ CensusInv /\ [Next]_vars => CensusInv'
<1> SUFFICES ASSUME TypeInv, FreshInv, CensusInv, [Next]_vars PROVE CensusInv'
  OBVIOUS
<1>1. TypeInv'
  BY NextTyped
<1> QED BY <1>1, AroundCensus, FetchCensus, UpsertCensus, CommitPageCensus, CallStepsCensus,
           RestCensus, StepKinds

(* A full import that reports success has read every contact up to the time *)
(* it began, whether or not the provider clamps the floor: for any contacts,*)
(* pages, refused rows, outages, failures and crashes                       *)
(* (_contact_enumeration_gap).                                              *)
THEOREM SuccessProvesCensus == Spec => CensusIsProven
<1>1. Spec => [](TypeInv /\ FreshInv /\ CensusInv)
  BY InitTyped, NextTyped, InitFresh, NextFresh, InitCensus, NextCensus, PTL DEF Spec
<1>2. ASSUME CensusInv, [Next]_vars, EndsWell, sync.mode = "full_import",
             sync.started > ApiLookback
      PROVE  \A c \in Contacts : contact[c].at \in 1..sync.started => Accounted(c)
  <2>1. Finish
    BY <1>2, EndsByFinish
  <2>2. sync.pc = "finish" /\ ~sync.gap
    BY <1>2, <2>1 DEF Finish, Verdict, EndsWell
  <2>3. Proven
    BY <1>2, <2>2 DEF CensusInv, Proven, InContacts
  <2> QED BY <1>2, <2>3 DEF CensusInv, CensusRead
<1>3. CensusInv /\ [Next]_vars =>
        [EndsWell /\ sync.mode = "full_import" /\ sync.started > ApiLookback =>
           \A c \in Contacts : contact[c].at \in 1..sync.started => Accounted(c)]_vars
  BY <1>2
<1> QED BY <1>1, <1>3, PTL DEF Spec, CensusIsProven

=============================================================================
