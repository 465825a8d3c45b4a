------------------------------- MODULE ImportRuns -------------------------------
(***************************************************************************)
(* The imports of historical data: the legacy ERP pipeline, which made the  *)
(* older service obsolete, that service, the wizard of the transaction list, *)
(* and the import of partners.  Each reads units from a file, in order, and  *)
(* writes a header and its lines for each; they differ in what identifies a  *)
(* record, what an exception undoes and when they commit.                   *)
(*                                                                         *)
(* An import works on a snapshot and its own rows.  The name of a           *)
(* transaction and an external id (ir.model.data) are unique: an insert      *)
(* waits for an open transaction that holds the same, and fails if it was    *)
(* committed.  In the steps of a unit nobody sees anything, so a unit is one *)
(* step.  Left out: the values, and updates of records found.              *)
(***************************************************************************)
EXTENDS Integers, FiniteSets

CONSTANTS
  Importers,  \* sessions that run an import
  LastUnit,   \* units of the file are 1..LastUnit
  LastLine,   \* lines of a unit are 1..LastLine
  BatchSize,  \* units between commits (100 in the code)
  MaxImports, \* bound: imports started
  MaxErrors   \* bound: exceptions and crashes

ASSUME ImportAssumption ==
  LastUnit \in Nat /\ LastLine \in Nat /\ BatchSize \in Nat \ {0}
    /\ MaxImports \in Nat /\ MaxErrors \in Nat

Policy == {"legacy_erp", "csv_service", "wizard", "partners"}

\* Unit 0 holds what the legacy pipeline imports before the transactions.
Unit == 1..LastUnit
Key == {<<0, 0>>} \cup (Unit \X (0..LastLine))
KeysOf(u) == {k \in Key : k[1] = u}
Header(u) == <<u, 0>>

VARIABLES
  policies, \* the imports of this behaviour
  stored,   \* [Key -> Nat]: records committed by imports
  entered,  \* keys of records that users committed
  marks,    \* committed external ids: <<policy, unit, line>>
  import,   \* [Importers -> the import it runs]
  ran, errors

importVars == <<policies, stored, entered, marks, import, ran, errors>>

NoImport == [policy |-> "none"]
Importing(w) == import[w] # NoImport

ImportInit ==
  /\ policies \in {{"legacy_erp", "csv_service", "wizard"}, {"partners"}}
  /\ stored = [k \in Key |-> 0] /\ entered = {} /\ marks = {}
  /\ import = [w \in Importers |-> NoImport]
  /\ ran = 0 /\ errors = 0

-----------------------------------------------------------------------------
Existing == entered \cup {k \in Key : stored[k] > 0}

(* A database transaction that begins: its snapshot, nothing of its own.    *)
Fresh(job, records, ids) ==
  [job EXCEPT !.seen = records, !.seenMarks = ids,
              !.own = {}, !.ownMarks = {}, !.poisoned = FALSE]

StartImport(w) ==
  /\ ~Importing(w) /\ ran < MaxImports
  /\ ran' = ran + 1
  /\ \E policy \in policies, commits \in BOOLEAN :
       import' = [import EXCEPT ![w] =
         [policy |-> policy, commits |-> commits,
          at |-> IF policy = "legacy_erp" THEN 0 ELSE 1,
          seen |-> Existing, seenMarks |-> marks, own |-> {}, ownMarks |-> {},
          poisoned |-> FALSE]]
  /\ UNCHANGED <<policies, stored, entered, marks, errors>>

Sees(w, k) == k \in import[w].seen \cup import[w].own
HasMark(w, k) ==
  <<import[w].policy, k[1], k[2]>> \in import[w].seenMarks \cup import[w].ownMarks

\* Mutation: the name of a transaction is not unique.
UniqueMarks(w, K, M) == M

(* The unique names and external ids among records K and marks M.           *)
Names(K) == {<<"name", k[1], k[2]>> : k \in {x \in K : x[1] > 0 /\ x[2] = 0}}
Unique(w, K, M) == IF import[w].policy = "partners" THEN M ELSE M \cup Names(K)

HeldBy(o) == IF Importing(o) /\ ~import[o].poisoned
             THEN Unique(o, import[o].own, import[o].ownMarks) ELSE {}

Clash(w, K, M) == Unique(w, K, M) \cap (Names(Existing) \cup marks) # {}
Waits(w, K, M) == \E o \in Importers \ {w} : Unique(w, K, M) \cap HeldBy(o) # {}

(* The import after the next unit added records K and marks M.              *)
Added(w, K, M) == [import[w] EXCEPT !.own = @ \cup K, !.ownMarks = @ \cup M, !.at = @ + 1]

Error == errors < MaxErrors /\ errors' = errors + 1

Stay(w, job) ==
  /\ import' = [import EXCEPT ![w] = job]
  /\ UNCHANGED <<policies, stored, entered, marks, ran>>

(* The commit of a transaction in which a statement failed rolls it back.   *)
Save(job) ==
  /\ stored' = [k \in Key |-> IF k \in job.own /\ ~job.poisoned THEN stored[k] + 1
                              ELSE stored[k]]
  /\ marks' = IF job.poisoned THEN marks ELSE marks \cup job.ownMarks

CommitImport(w, job) ==
  /\ Save(job)
  /\ import' = [import EXCEPT ![w] =
       Fresh(job, entered \cup {k \in Key : stored'[k] > 0}, marks')]
  /\ UNCHANGED <<policies, entered, ran>>

At(w, policy) == import[w].policy = policy /\ import[w].at <= LastUnit

-----------------------------------------------------------------------------
(* plasticos.legacy_erp.import: partners first, an exception ends the run;   *)
(* then one savepoint for each BuySellNo, commits between them if asked to. *)
Marked(w, K) == {<<import[w].policy, k[1], k[2]>> : k \in K}
Unmarked(w, u) == {k \in KeysOf(u) : ~HasMark(w, k)}

ImportPartiesFirst(w) ==
  LET K == Unmarked(w, 0) IN
  /\ At(w, "legacy_erp") /\ import[w].at = 0
  /\ ~Waits(w, K, Marked(w, K))
  /\ \/ /\ ~Clash(w, K, Marked(w, K))
        /\ Stay(w, Added(w, K, Marked(w, K)))
        /\ UNCHANGED errors
     \/ /\ Error \/ (Clash(w, K, Marked(w, K)) /\ UNCHANGED errors)
        /\ Stay(w, NoImport)

\* Mutation: what was written before the line that fails is kept.
KeptNoSavepoint(w, K) == K

(* What the savepoint leaves of the records K of a unit that failed.        *)
Kept(w, K) == {}

ImportOneTransaction(w) ==
  LET K == Unmarked(w, import[w].at)
      M == Marked(w, K)
      done == Added(w, K, M) IN
  /\ At(w, "legacy_erp") /\ import[w].at > 0
  /\ ~Waits(w, K, M)
  /\ \/ /\ ~Clash(w, K, M)
        /\ IF import[w].commits THEN CommitImport(w, done) ELSE Stay(w, done)
        /\ UNCHANGED errors
     \/ \E n \in 0..LastLine :
          LET kept == Kept(w, {k \in K : k[2] < n}) IN
          /\ Error \/ (Clash(w, K, M) /\ n = 0 /\ UNCHANGED errors)
          /\ Stay(w, Added(w, kept, Marked(w, kept)))

-----------------------------------------------------------------------------
(* The older service and the wizard have no savepoint.  An exception of      *)
(* Python leaves the unit as far as it came; after an error of a statement  *)
(* nothing more can be executed before the end of the transaction.          *)
Skips(w, u) == \/ import[w].policy = "csv_service" /\ HasMark(w, Header(u))
               \/ import[w].policy = "wizard" /\ Header(u) \in import[w].seen

Ids(w, K) == IF import[w].policy = "csv_service"
             THEN Marked(w, {k \in K : k[2] = 0}) ELSE {}

(* The next unit is passed over, or written whole.                          *)
UnitPasses(w) ==
  LET K == KeysOf(import[w].at) IN
  /\ ~import[w].poisoned
  /\ Skips(w, import[w].at) \/ ~(Waits(w, K, Ids(w, K)) \/ Clash(w, K, Ids(w, K)))
  /\ UNCHANGED errors

Passed(w) ==
  LET K == IF Skips(w, import[w].at) THEN {} ELSE KeysOf(import[w].at)
  IN Added(w, K, Ids(w, K))

(* Its exception is caught and noted.                                       *)
UnitFails(w) ==
  LET K == KeysOf(import[w].at)
      aborted == [Added(w, {}, {}) EXCEPT !.poisoned = TRUE] IN
  \/ import[w].poisoned /\ Stay(w, aborted) /\ UNCHANGED errors
  \/ /\ ~import[w].poisoned /\ ~Skips(w, import[w].at) /\ ~Waits(w, K, Ids(w, K))
     /\ \/ Clash(w, K, Ids(w, K)) /\ Stay(w, aborted) /\ UNCHANGED errors
        \/ Error /\ Stay(w, aborted)
        \/ /\ Error
           /\ \E n \in 0..LastLine :
                LET kept == {k \in K : k[2] < n} IN
                /\ ~Clash(w, kept, Ids(w, kept))
                /\ Stay(w, Added(w, kept, Ids(w, kept)))

(* A failed unit also misses the commit of its batch.                      *)
CsvUnit(w) ==
  /\ At(w, "csv_service")
  /\ \/ UnitFails(w)
     \/ /\ UnitPasses(w)
        /\ IF import[w].at % BatchSize = 0 THEN CommitImport(w, Passed(w))
           ELSE Stay(w, Passed(w))

WizardUnit(w) ==
  /\ At(w, "wizard")
  /\ UnitFails(w) \/ (UnitPasses(w) /\ Stay(w, Passed(w)))

-----------------------------------------------------------------------------
(* _upsert of a partner: by external id, else by what it is, else created.  *)
New(w, K) == {k \in K : ~Sees(w, k)}

(* A row and its contact; an exception ends the run.                        *)
PartnerRow(w) ==
  LET K == Unmarked(w, import[w].at)
      M == Marked(w, K)
      done == Added(w, New(w, K), M) IN
  /\ At(w, "partners")
  /\ ~Waits(w, {}, M)
  /\ \/ /\ ~Clash(w, {}, M)
        /\ IF import[w].at % BatchSize = 0 THEN CommitImport(w, done) ELSE Stay(w, done)
        /\ UNCHANGED errors
     \/ /\ Error \/ (Clash(w, {}, M) /\ UNCHANGED errors)
        /\ Stay(w, NoImport)

(* The end of the file: the caller commits, or the service itself does; the *)
(* request of the wizard fails if a statement has failed.                   *)
FinishImport(w) ==
  /\ Importing(w) /\ import[w].at > LastUnit
  /\ Save(import[w])
  /\ import' = [import EXCEPT ![w] = NoImport]
  /\ UNCHANGED <<policies, entered, ran, errors>>

CrashImport(w) == Importing(w) /\ Error /\ Stay(w, NoImport)

(* A user enters a partner, or a transaction of the same name.              *)
EnterByHand == \E u \in Unit :
  /\ Header(u) \notin Existing
  /\ \A w \in Importers : Names({Header(u)}) \cap HeldBy(w) = {}
  /\ Error
  /\ entered' = entered \cup {Header(u)}
  /\ UNCHANGED <<policies, stored, marks, import, ran>>

ImportNext ==
  \/ \E w \in Importers :
       StartImport(w) \/ ImportPartiesFirst(w) \/ ImportOneTransaction(w) \/ CsvUnit(w)
         \/ WizardUnit(w) \/ PartnerRow(w) \/ FinishImport(w) \/ CrashImport(w)
  \/ EnterByHand

ImportSpec == ImportInit /\ [][ImportNext]_importVars

-----------------------------------------------------------------------------
(* However often the imports are run, one after the other, after exceptions *)
(* and crashes or side by side, none creates a record that one of them has  *)
(* created before.                                                         *)
ImportedOnce == \A k \in Key : stored[k] <= 1

(* The legacy pipeline leaves no partial transaction and no stale identity  *)
(* marker: a marked unit has its header and all its lines, with their marks. *)
WholeUnits == \A u \in {0} \cup Unit :
  (\E k \in KeysOf(u) : <<"legacy_erp", k[1], k[2]>> \in marks) =>
    \A k \in KeysOf(u) : <<"legacy_erp", k[1], k[2]>> \in marks /\ stored[k] > 0
=============================================================================
