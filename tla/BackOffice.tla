------------------------------ MODULE BackOffice ------------------------------
(***************************************************************************)
(* The parts of the back office that share no row: the required documents,   *)
(* claims, the deal desk, the imports, payouts, actual freight costs and the *)
(* states of transactions.  A behaviour of the whole is an interleaving of   *)
(* one of each, and each property is about one part; so a behaviour here     *)
(* picks a part and leaves the others as they are.                          *)
(***************************************************************************)
EXTENDS DocumentCompliance, ClaimLedger, DealDesk, ImportRuns,
        PayoutDesk, FreightLedger, TransactionStates

CONSTANT TradeRequests  \* bound: requests of a behaviour on states of transactions

VARIABLE part

officeVars == <<part, vars, requestVars, importVars>>

(* Bound: overridden, archived and misplaced documents and tags without a    *)
(* rule, at most two at a time.                                            *)
FewExceptions ==
  Cardinality({<<"override", i>> : i \in {j \in DOMAIN doc : doc[j].override}}
         \cup {<<"archived", i>> : i \in {j \in DOMAIN doc : ~doc[j].active}}
         \cup {<<"elsewhere", i>> : i \in {j \in DOMAIN doc : ~doc[j].here}}
         \cup {<<"no rule", t>> : t \in Tag \ rule}) <= 2

OfficeInit ==
  /\ part \in {"documents", "claims", "deals", "imports", "payouts", "costs", "states"}
  /\ Init
  /\ CASE part = "claims" -> ClaimInit
       [] part = "deals" -> DealInit
       [] part = "payouts" -> PayoutInit
       [] part = "costs" -> LedgerInit
       [] part = "states" -> TradeInit
       [] OTHER -> Start({<<>>}, {})
  /\ ImportInit /\ (part # "imports" => policies = {"partners"})

OfficeNext ==
  /\ UNCHANGED part
  /\ \/ /\ part = "documents" /\ Next /\ UNCHANGED <<requestVars, importVars>>
        /\ FewExceptions'
     \/ part = "claims" /\ ClaimNext /\ UNCHANGED <<vars, importVars>>
     \/ part = "deals" /\ DealNext /\ UNCHANGED <<vars, importVars>>
     \/ part = "payouts" /\ PayoutNext /\ UNCHANGED <<vars, importVars>>
     \/ part = "costs" /\ LedgerNext /\ UNCHANGED <<vars, importVars>>
     \/ /\ part = "states" /\ TradeNext /\ UNCHANGED <<vars, importVars>>
        /\ begun' <= TradeRequests
     \/ part = "imports" /\ ImportNext /\ UNCHANGED <<vars, requestVars>>

OfficeSpec == OfficeInit /\ [][OfficeNext]_officeVars

=============================================================================
