------------------------------ MODULE LegacyHeaders ------------------------------
(***************************************************************************)
(* How the import of the old ERP reads its export (legacy_erp of             *)
(* plasticos_transaction): which payload it loads, what is attached to what, *)
(* and the header it reconstructs of the accounting rows of one trade, as    *)
(* the export has no table of headers.  ImportRuns has the writing.         *)
(*                                                                         *)
(* Blank is an empty cell or NULL after trimming.  A text is the code it is   *)
(* recognised as, and "?" one that is not.                                  *)
(***************************************************************************)
EXTENDS Integers, FiniteSetsExt, Functions

Blank == "blank"
Unresolved == "unresolved"

-----------------------------------------------------------------------------
(* load_payload: statements if there is any, else the extracts; a row of     *)
(* another width than its header, or a table that is missing, refuses all.  *)
Tables == {"CounterParty", "Address", "Contact", "ContactRoleAssignment", "WKSDetail", "GPLedger",
           "Payables", "Receipt", "ReceiptBatch", "WksDelivery"}

LoadPayload(statements, grid) ==
  LET found == IF statements.tables = {} THEN grid ELSE statements
      read == statements.sound /\ (statements.tables = {} => grid.sound)
  IN IF read /\ Tables \subseteq found.tables THEN found ELSE [refused |-> TRUE]

(* _index_by_pk: every key is there, once.                                  *)
Indexable(keys) == Blank \notin Range(keys) /\ IsInjective(keys)

(* _link_children: a row belongs to the parent its key names, if that was     *)
(* exported, and is reported otherwise.                                     *)
Attached(children, parents) == {c \in DOMAIN children : children[c] \in parents}
Reported(children, parents) ==
  {<<c, IF children[c] = Blank THEN "missing_parent_key" ELSE "unresolved">> :
     c \in DOMAIN children \ Attached(children, parents)}

-----------------------------------------------------------------------------
(* The evidence of a trade: sets of payables, receipts, ledger rows and      *)
(* delivery legs.  A payable with a leg is freight.                         *)
Only(S) == IF Cardinality(S) = 1 THEN CHOOSE x \in S : TRUE ELSE Unresolved

NamedSellers(trade) == {p.party : p \in {q \in trade.payables : ~q.leg}} \ {Blank}

NamedBuyers(trade, batches) ==
  {batches[r] : r \in {b \in trade.receipts : b \in DOMAIN batches}} \ {Blank}

Exported(party, counterparties) == IF party \in counterparties THEN party ELSE Unresolved

Supplier(trade, counterparties) == Exported(Only(NamedSellers(trade)), counterparties)
Buyer(trade, batches, counterparties) == Exported(Only(NamedBuyers(trade, batches)), counterparties)

(* The earliest date that can be read; -1 is one that cannot, 0 a blank.     *)
TradeDate(trade) == IF \E d \in trade.ledger : d > 0 THEN Min({d \in trade.ledger : d > 0}) ELSE 0

SupplierPaid(trade) == \E p \in trade.payables : ~p.leg /\ p.posted

DeriveState(trade) ==
  CASE trade.ledger # {} /\ SupplierPaid(trade) /\ trade.receipts # {} -> "closed"
    [] trade.ledger # {} /\ ~(SupplierPaid(trade) /\ trade.receipts # {}) -> "invoiced"
    [] trade.ledger = {} /\ trade.deliveries -> "delivered"
    [] OTHER -> "draft"

Anomalies(trade, batches, counterparties) ==
  {a \in {"no supplier", "ambiguous supplier", "no buyer", "ambiguous buyer", "no batch", "no date",
          "bad date", "supplier not exported", "buyer not exported"} :
     LET sellers == NamedSellers(trade)
         buyers == NamedBuyers(trade, batches)
     IN CASE a = "no supplier" -> sellers = {}
          [] a = "ambiguous supplier" -> Cardinality(sellers) > 1
          [] a = "supplier not exported" -> Only(sellers) \notin counterparties \cup {Unresolved}
          [] a = "no buyer" -> buyers = {}
          [] a = "ambiguous buyer" -> Cardinality(buyers) > 1
          [] a = "buyer not exported" -> Only(buyers) \notin counterparties \cup {Unresolved}
          [] a = "no batch" -> \E r \in trade.receipts : r \notin DOMAIN batches \cup {Blank}
          [] a = "no date" -> ~\E d \in trade.ledger : d > 0
          [] a = "bad date" -> -1 \in trade.ledger}

-----------------------------------------------------------------------------
(* mapping.py: a code that is not known is reported, never replaced.         *)
CompanyRole == [V |-> "supplier", S |-> "supplier", D |-> "carrier", X |-> "buyer", C |-> "buyer",
                A |-> "broker", P |-> "broker"]

(* The ranks, <<supplier, customer>>, are a table of their own.              *)
TradeRanks(code) ==
  <<IF code \in {"V", "S", "A", "P"} THEN 1 ELSE 0, IF code \in {"X", "C", "A", "P"} THEN 1 ELSE 0>>

RoleOf(code) == IF code \in DOMAIN CompanyRole THEN CompanyRole[code] ELSE Unresolved

WeightUom(sale, purchase) ==
  LET named == {sale, purchase} \ {Blank}
  IN IF Cardinality(named) = 1 /\ named \subseteq {"L", "S", "E"} THEN Only(named) ELSE Unresolved

(* address_kind: a label for invoices or any billing flag, else the label.   *)
AddressKind(label, invoice, remit, billing) ==
  IF label = "invoice" \/ invoice \/ remit \/ billing THEN "invoice"
  ELSE IF label \in {"primary", "delivery"} THEN label ELSE "other"

-----------------------------------------------------------------------------
(* Evidence of a trade is at least that of another.                         *)
Extends(more, trade) ==
  /\ trade.payables \subseteq more.payables /\ trade.receipts \subseteq more.receipts
  /\ trade.ledger \subseteq more.ledger /\ (trade.deliveries => more.deliveries)

Progress == [draft |-> 0, delivered |-> 1, invoiced |-> 2, closed |-> 3]

(* More evidence may leave a party unresolved, and never names another; the  *)
(* state never goes back, nor does the date move later.                     *)
EvidenceIsMonotone(trade, more, batches, counterparties) ==
  Extends(more, trade) =>
    /\ Supplier(trade, counterparties) # Unresolved =>
         Supplier(more, counterparties) \in {Supplier(trade, counterparties), Unresolved}
    /\ Buyer(trade, batches, counterparties) # Unresolved =>
         Buyer(more, batches, counterparties) \in {Buyer(trade, batches, counterparties), Unresolved}
    /\ Progress[DeriveState(trade)] <= Progress[DeriveState(more)]
    /\ TradeDate(trade) # 0 => TradeDate(more) \in 1..TradeDate(trade)

(* Whatever is not resolved has a reason, and a party that is resolved is     *)
(* one the export carries.                                                  *)
NothingIsSilent(trade, batches, counterparties) ==
  LET why == Anomalies(trade, batches, counterparties) IN
  /\ Supplier(trade, counterparties) = Unresolved <=>
       why \cap {"no supplier", "ambiguous supplier", "supplier not exported"} # {}
  /\ Buyer(trade, batches, counterparties) = Unresolved <=>
       why \cap {"no buyer", "ambiguous buyer", "buyer not exported"} # {}
  /\ {Supplier(trade, counterparties), Buyer(trade, batches, counterparties)} \subseteq
       counterparties \cup {Unresolved}

(* "closed" says that a customer's receipt is settled; the buyer comes from   *)
(* the batch that settles it.                                               *)
ClosedIsSettled(trade, batches) == DeriveState(trade) = "closed" => NamedBuyers(trade, batches) # {}

(* Every child is attached to one parent or reported once.                  *)
ChildrenAreAccounted(children, parents) ==
  /\ Attached(children, parents) \cup {r[1] : r \in Reported(children, parents)} = DOMAIN children
  /\ Attached(children, parents) \cap {r[1] : r \in Reported(children, parents)} = {}
  /\ Cardinality(Reported(children, parents)) <= Cardinality(DOMAIN children)

(* What is loaded is sound and has every table, of one kind of payload: the  *)
(* extracts never fill a table the statements lack.                         *)
PayloadIsWhole(statements, grid) ==
  LET loaded == LoadPayload(statements, grid) IN
  "refused" \notin DOMAIN loaded =>
    /\ loaded.sound /\ Tables \subseteq loaded.tables
    /\ loaded \in {statements, grid}
    /\ statements.tables # {} => loaded = statements

(* A role is a side of the trade exactly when its ranks say so.              *)
RolesAgree(code) ==
  /\ RoleOf(code) \in {"supplier", "broker"} <=> TradeRanks(code)[1] = 1
  /\ RoleOf(code) \in {"buyer", "broker"} <=> TradeRanks(code)[2] = 1

(* The shared unit is one both sides agree on or one side alone names.       *)
UomIsShared(sale, purchase) ==
  WeightUom(sale, purchase) # Unresolved => {sale, purchase} \subseteq {Blank, WeightUom(sale, purchase)}
=============================================================================
