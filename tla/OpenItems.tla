----------------------------- MODULE OpenItems -----------------------------
(***************************************************************************)
(* Receivables or payables of one party account: invoices (or bills) that  *)
(* are drafted, issued and voided, the open items they create, and the     *)
(* receipts (or payments) that settle them.                                *)
(*                                                                         *)
(* A command is one READ COMMITTED transaction.  It takes an advisory lock *)
(* on its document number; settling and voiding a document also take one   *)
(* on every open item they touch, voiding a settlement does not.  The      *)
(* triggers on the allocations lock the open item's row and read the       *)
(* balance again.  So a settlement decides on balances that a void of      *)
(* another settlement may change before its rows are inserted: it is two   *)
(* actions, with an entry in txn between them, and every other command is  *)
(* one.                                                                    *)
(*                                                                         *)
(* The documents are of one party, currency and kind.  Amounts are whole   *)
(* minor units.  Permissions, account mappings and the fiscal period are   *)
(* read first and checked again by the posting of the journal in the same  *)
(* transaction (module Journals): a refusal is a step that is not taken,   *)
(* or EndWithoutEffect.  A replay of an idempotency key has no effect.     *)
(***************************************************************************)
EXTENDS Integers, Functions

CONSTANTS
  Documents,     \* source numbers of invoices or bills
  Settlements,   \* source numbers of receipts or payments
  Amounts,       \* amounts of a document: [tx, functional]
  Parts,         \* transaction amounts a settlement may name for an item
  Txns,          \* database connections that may be inside a transaction
  MaxVersion     \* bound: versions of a document that is not voided

ASSUME AmountsAssumption ==
  \A a \in Amounts : a \in [tx : Nat \ {0}, functional : Nat \ {0}]
ASSUME PartsAssumption == Parts \subseteq Nat \ {0}
ASSUME MaxVersionAssumption == MaxVersion \in Nat

VARIABLES
  docStatus,     \* status of the current version in source_documents
  docVersion,    \* its version, 0 before the first
  amount,        \* the amounts of its snapshot
  reviewed,      \* <<d, v>>: version v of d has been shown to somebody
  paid,          \* status of the settlements in source_documents
  rows,          \* rows[s]: the APPLY rows of s, by open item
  applied,       \* open item's sum of transaction_amount over all its rows
  carried,       \* open item's sum of carrying_functional_amount
  txn            \* open settlement transactions

docVars == <<docStatus, docVersion, amount>>
itemVars == <<paid, rows, applied, carried>>
vars == <<docVars, reviewed, itemVars, txn>>

Idle == [op |-> "idle"]
NoAmount == [tx |-> 0, functional |-> 0]
NoRows == [d \in {} |-> 0]
Row == [tx : Nat \ {0}, carrying : Nat \ {0}]
IsRowSet(r) == DOMAIN r \subseteq Documents /\ r \in [DOMAIN r -> Row]
IsSettleTxn(x) ==
  /\ x = [op |-> "settle", settlement |-> x.settlement, takes |-> x.takes]
  /\ x.settlement \in Settlements /\ IsRowSet(x.takes) /\ x.takes # NoRows

\* Types, and that an open item's sums are never negative.
TypeOK ==
  /\ docStatus \in [Documents -> {"ABSENT", "DRAFT", "POSTED", "VOIDED"}]
  /\ docVersion \in [Documents -> Nat]
  /\ amount \in [Documents -> Amounts \cup {NoAmount}]
  /\ reviewed \subseteq Documents \X Nat
  /\ paid \in [Settlements -> {"ABSENT", "POSTED", "VOIDED"}]
  /\ DOMAIN rows = Settlements /\ \A s \in Settlements : IsRowSet(rows[s])
  /\ applied \in [Documents -> Nat]
  /\ carried \in [Documents -> Nat]
  /\ DOMAIN txn = Txns /\ \A t \in Txns : txn[t] = Idle \/ IsSettleTxn(txn[t])

-----------------------------------------------------------------------------
(* The arithmetic of an open item.                                         *)

\* Half up, as quantizeMoney and numeric's round do for positive amounts.
RoundHalfUp(n, m) == (2 * n + m) \div (2 * m)

RemainingTx(d) == amount[d].tx - applied[d]
RemainingCarrying(d) == amount[d].functional - carried[d]

AgainstOriginal(d, n) ==         \* mutant of WithinBalance
  amount[d].tx > 0 /\ amount[d].functional > 0 /\ n <= amount[d].tx
WithinBalance(d, n) ==
  RemainingTx(d) > 0 /\ RemainingCarrying(d) > 0 /\ n <= RemainingTx(d)

\* A settlement of all that remains takes what is left of the carrying
\* amount; any other one takes its share of the original amount.
ShareOfOriginal(d, n) ==         \* mutant of CarryingFor
  RoundHalfUp(n * amount[d].functional, amount[d].tx)
CarryingFor(d, n) ==
  IF n = RemainingTx(d) THEN RemainingCarrying(d)
  ELSE RoundHalfUp(n * amount[d].functional, amount[d].tx)

-----------------------------------------------------------------------------
(* Locks.                                                                  *)

WithoutItemLock(d) == TRUE       \* mutant of ItemFree
ItemFree(d) ==
  \A t \in Txns : txn[t].op = "settle" => d \notin DOMAIN txn[t].takes
WithoutNumberLock(s) == TRUE     \* mutant of NumberFree
NumberFree(s) ==
  \A t \in Txns : txn[t].op = "settle" => txn[t].settlement # s

\* A command names the version of the document that its author has seen.
NotNewer(d, expected) == expected <= docVersion[d]   \* mutant of IsCurrent
IsCurrent(d, expected) == expected = docVersion[d]

Init ==
  /\ docStatus = [d \in Documents |-> "ABSENT"]
  /\ docVersion = [d \in Documents |-> 0]
  /\ amount = [d \in Documents |-> NoAmount]
  /\ reviewed = {}
  /\ paid = [s \in Settlements |-> "ABSENT"]
  /\ rows = [s \in Settlements |-> NoRows]
  /\ applied = [d \in Documents |-> 0]
  /\ carried = [d \in Documents |-> 0]
  /\ txn = [t \in Txns |-> Idle]

-----------------------------------------------------------------------------
(* Documents.                                                              *)

\* The next version of the chain.
NextVersion(d, status, a) ==
  /\ docStatus' = [docStatus EXCEPT ![d] = status]
  /\ docVersion' = [docVersion EXCEPT ![d] = docVersion[d] + 1]
  /\ amount' = [amount EXCEPT ![d] = a]

\* Somebody opens the current version.  What that person then asks for may
\* arrive at any time.
Review(d) ==
  /\ docStatus[d] \in {"DRAFT", "POSTED"}
  /\ reviewed' = reviewed \cup {<<d, docVersion[d]>>}
  /\ UNCHANGED <<docVars, itemVars, txn>>

\* createBusinessDocumentDraft: the number is free in every state.
CreateDraft(d, a) ==
  /\ docStatus[d] = "ABSENT"
  /\ NextVersion(d, "DRAFT", a)
  /\ UNCHANGED <<reviewed, itemVars, txn>>

\* editBusinessDocumentDraft
EditDraft(d, expected, a) ==
  /\ <<d, expected>> \in reviewed
  /\ docStatus[d] = "DRAFT" /\ IsCurrent(d, expected)
  /\ docVersion[d] + 1 < MaxVersion
  /\ NextVersion(d, "DRAFT", a)
  /\ UNCHANGED <<reviewed, itemVars, txn>>

\* issueBusinessDocument: the snapshot becomes an open item as it is.
Issue(d, expected) ==
  /\ <<d, expected>> \in reviewed
  /\ docStatus[d] = "DRAFT" /\ IsCurrent(d, expected)
  /\ NextVersion(d, "POSTED", amount[d])
  /\ UNCHANGED <<reviewed, itemVars, txn>>

\* voidIssuedBusinessDocument, under the lock of its open item.
VoidDocument(d, expected) ==
  /\ <<d, expected>> \in reviewed
  /\ docStatus[d] = "POSTED" /\ IsCurrent(d, expected)
  /\ ItemFree(d)
  /\ applied[d] = 0
  /\ NextVersion(d, "VOIDED", amount[d])
  /\ UNCHANGED <<reviewed, itemVars, txn>>

-----------------------------------------------------------------------------
(* Settlements.                                                            *)

\* recordCustomerReceiptOrSupplierPayment up to the calculation: wanted gives
\* the transaction amount for every open item it settles.
BeginSettle(t, s, wanted) ==
  /\ txn[t] = Idle
  /\ NumberFree(s) /\ paid[s] = "ABSENT"
  /\ \A d \in DOMAIN wanted :
       /\ docStatus[d] = "POSTED" /\ ItemFree(d)
       /\ WithinBalance(d, wanted[d])
       /\ CarryingFor(d, wanted[d]) > 0
  /\ txn' = [txn EXCEPT ![t] =
       [op |-> "settle", settlement |-> s,
        takes |-> [d \in DOMAIN wanted |->
                    [tx |-> wanted[d], carrying |-> CarryingFor(d, wanted[d])]]]]
  /\ UNCHANGED <<docVars, reviewed, itemVars>>

\* guard_settlement_allocation_insert: the balance is read again.
OnlyWithinBalance(d, row) == WithinBalance(d, row.tx)   \* mutant of Admits
Admits(d, row) ==
  /\ WithinBalance(d, row.tx)
  /\ row.carrying = CarryingFor(d, row.tx)

FinishSettle(t) ==
  /\ txn[t].op = "settle"
  /\ LET s == txn[t].settlement
         takes == txn[t].takes
     IN /\ \A d \in DOMAIN takes : Admits(d, takes[d])
        /\ paid' = [paid EXCEPT ![s] = "POSTED"]
        /\ rows' = [rows EXCEPT ![s] = takes]
        /\ applied' = [d \in Documents |->
             IF d \in DOMAIN takes THEN applied[d] + takes[d].tx ELSE applied[d]]
        /\ carried' = [d \in Documents |->
             IF d \in DOMAIN takes THEN carried[d] + takes[d].carrying
             ELSE carried[d]]
  /\ txn' = [txn EXCEPT ![t] = Idle]
  /\ UNCHANGED <<docVars, reviewed>>

\* A refusal, a deadlock victim or a lost connection.
EndWithoutEffect(t) ==
  /\ txn[t] # Idle
  /\ txn' = [txn EXCEPT ![t] = Idle]
  /\ UNCHANGED <<docVars, reviewed, itemVars>>

\* The carrying amount that the REVERSAL row of s for d gives back.
ReversedAtShare(s, d) ==         \* mutant of Reversed
  ShareOfOriginal(d, rows[s][d].tx)
Reversed(s, d) == rows[s][d].carrying

\* voidSettlementAndReverseAllocations: every APPLY row gets its exact
\* reversal, whatever settlements of the same items are under way.
MarkStillPosted(s) == paid' = paid   \* mutant of MarkVoided
MarkVoided(s) == paid' = [paid EXCEPT ![s] = "VOIDED"]
VoidSettlement(s) ==
  /\ paid[s] = "POSTED"
  /\ MarkVoided(s)
  /\ applied' = [d \in Documents |->
       IF d \in DOMAIN rows[s] THEN applied[d] - rows[s][d].tx ELSE applied[d]]
  /\ carried' = [d \in Documents |->
       IF d \in DOMAIN rows[s] THEN carried[d] - Reversed(s, d) ELSE carried[d]]
  /\ UNCHANGED <<docVars, reviewed, rows, txn>>

-----------------------------------------------------------------------------
DocumentStep(d) ==
  \/ Review(d)
  \/ \E a \in Amounts : CreateDraft(d, a)
  \/ \E v \in 1..MaxVersion, a \in Amounts : EditDraft(d, v, a)
  \/ \E v \in 1..MaxVersion : Issue(d, v) \/ VoidDocument(d, v)

SettleStep(t) ==
  \/ \E s \in Settlements, D \in (SUBSET Documents) \ {{}} :
       \E wanted \in [D -> Parts] : BeginSettle(t, s, wanted)
  \/ FinishSettle(t)
  \/ EndWithoutEffect(t)

Next ==
  \/ \E d \in Documents : DocumentStep(d)
  \/ \E t \in Txns : SettleStep(t)
  \/ \E s \in Settlements : VoidSettlement(s)

Spec == Init /\ [][Next]_vars
-----------------------------------------------------------------------------
(* Correctness.                                                            *)

Live(s, d) == paid[s] = "POSTED" /\ d \in DOMAIN rows[s]

\* No sequence of concurrent settlements and voids settles an item beyond its
\* transaction amount.
NeverOverApplied == \A d \in Documents : applied[d] <= amount[d].tx

\* A voided document has nothing settled, and no settlement under way will
\* settle it: the triggers do not look for the void, so this rests on the
\* advisory locks (lockSettlementOpenItems, lockDocumentOpenItemForVoid).
VoidedUnsettled ==
  \A d \in Documents : docStatus[d] = "VOIDED" =>
    /\ applied[d] = 0 /\ carried[d] = 0
    /\ \A s \in Settlements : ~Live(s, d)
    /\ ItemFree(d)

\* An item that is settled in full has no carrying amount left on the control
\* account, whatever was rounded, voided and settled again on the way.
SettledIsClean ==
  \A d \in Documents : docStatus[d] = "POSTED" /\ applied[d] = amount[d].tx
    => carried[d] = amount[d].functional

\* The sums an open item shows are what the settlements in force hold of it:
\* a void gives back exactly what its settlement took.
Holders(d) == {s \in Settlements : Live(s, d)}
SumsOfLive ==
  \A d \in Documents :
    /\ applied[d] = SumFunction([s \in Holders(d) |-> rows[s][d].tx])
    /\ carried[d] = SumFunction([s \in Holders(d) |-> rows[s][d].carrying])

\* A settlement takes the carrying amount that the item's balance prescribes
\* when its rows are inserted, although it was calculated from an earlier one.
NoStaleCarrying ==
  [][\A d \in Documents : applied'[d] > applied[d] =>
       carried'[d] - carried[d] = CarryingFor(d, applied'[d] - applied[d])]_vars

\* An edit, an issue or a void extends a version that its author has seen: one
\* that was written for a version edited since then has no effect.
ChainExtendsReviewed ==
  [][\A d \in Documents : docVersion[d] # 0 /\ docVersion'[d] # docVersion[d] =>
       <<d, docVersion[d]>> \in reviewed]_vars

\* Settlements as the party's account sees them: each is applied and taken
\* back as a whole, to items that are not closed.
Account == INSTANCE PartyAccount WITH
  Items <- Documents,
  original <- [d \in Documents |->
    IF docStatus[d] \in {"POSTED", "VOIDED"} THEN amount[d].tx ELSE 0],
  open <- [d \in Documents |->
    IF docStatus[d] \in {"POSTED", "VOIDED"} THEN amount[d].tx - applied[d] ELSE 0],
  closed <- {d \in Documents : docStatus[d] = "VOIDED"},
  claims <- [s \in Settlements |->
    IF paid[s] # "POSTED" THEN NoRows
    ELSE [d \in DOMAIN rows[s] |-> rows[s][d].tx]],
  spent <- {s \in Settlements : paid[s] # "ABSENT"}

ImplementsPartyAccount == Account!Spec

-----------------------------------------------------------------------------
(* What a message of the code says and its rounding breaks.                *)

\* 'Settlement would over-allocate the open item'
\* (guard_settlement_allocation_insert).
CarryingWithinOriginal ==
  \A d \in Documents : carried[d] <= amount[d].functional
=============================================================================
