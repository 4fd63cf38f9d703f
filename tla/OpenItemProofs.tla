--------------------------- MODULE OpenItemProofs ---------------------------
(***************************************************************************)
(* Proofs about OpenItems.  That the sums an item shows are those of the   *)
(* settlements in force is part of the invariant: from it follows that a   *)
(* void takes an item's sums neither below zero nor to a remainder of      *)
(* carrying amount where nothing is applied.                               *)
(***************************************************************************)
EXTENDS OpenItems, FiniteSums

\* The sums an item shows, of finitely many settlements.
TotalsHold == SumsOfLive /\ \A d \in Documents : IsFiniteSet(Holders(d))

\* Only issued documents have an open item, and only posted ones are settled.
ItemsArePosted ==
  /\ \A d \in Documents :
       /\ docStatus[d] # "ABSENT" => amount[d] \in Amounts
       /\ docStatus[d] # "POSTED" => applied[d] = 0 /\ carried[d] = 0
       /\ docStatus[d] # "POSTED" => \A s \in Settlements : ~Live(s, d)
  /\ \A t \in Txns : txn[t].op = "settle" =>
       \A d \in DOMAIN txn[t].takes : docStatus[d] = "POSTED"

\* An open settlement holds its number and its items.
LocksHeld ==
  /\ \A t \in Txns : txn[t].op = "settle" => paid[txn[t].settlement] = "ABSENT"
  /\ \A t, u \in Txns : t # u /\ txn[t].op = "settle" /\ txn[u].op = "settle" =>
       /\ txn[t].settlement # txn[u].settlement
       /\ DOMAIN txn[t].takes \cap DOMAIN txn[u].takes = {}

PaidHasRows == \A s \in Settlements : paid[s] = "POSTED" => rows[s] # NoRows

AbsentHasNoVersion ==
  \A d \in Documents : docStatus[d] = "ABSENT" => docVersion[d] = 0

IInv ==
  /\ TypeOK /\ TotalsHold /\ ItemsArePosted /\ LocksHeld /\ PaidHasRows
  /\ AbsentHasNoVersion
  /\ NeverOverApplied /\ SettledIsClean

-----------------------------------------------------------------------------
(* Totals.                                                                 *)

\* The rows of a settlement name positive amounts.
LEMMA HeldTypes ==
  ASSUME TypeOK, NEW d \in Documents, NEW s \in Settlements, d \in DOMAIN rows[s]
  PROVE  rows[s][d].tx \in Nat \ {0} /\ rows[s][d].carrying \in Nat \ {0}
  BY DEF TypeOK, IsRowSet, Row

\* What the settlements of a set hold of an item.
TxOf(S, d) == [r \in S |-> rows[r][d].tx]
CarryingOf(S, d) == [r \in S |-> rows[r][d].carrying]

\* What a settlement in force holds is one summand of the item's sums.
LEMMA OneHolder ==
  ASSUME TypeOK, TotalsHold, NEW d \in Documents, NEW s \in Holders(d)
  PROVE  /\ applied[d] = rows[s][d].tx + SumFunction(TxOf(Holders(d) \ {s}, d))
         /\ carried[d] = rows[s][d].carrying + SumFunction(CarryingOf(Holders(d) \ {s}, d))
         /\ SumFunction(TxOf(Holders(d) \ {s}, d)) \in Nat
         /\ SumFunction(CarryingOf(Holders(d) \ {s}, d)) \in Nat
<1> DEFINE tx == TxOf(Holders(d), d)
           carrying == CarryingOf(Holders(d), d)
           restTx == TxOf(Holders(d) \ {s}, d)
           restCarrying == CarryingOf(Holders(d) \ {s}, d)
<1>1. IsFiniteSet(Holders(d)) /\ IsFiniteSet(Holders(d) \ {s})
  BY FS_Subset DEF TotalsHold
<1>2. \A r \in Holders(d) : rows[r][d].tx \in Nat /\ rows[r][d].carrying \in Nat
  BY HeldTypes DEF Holders, Live
<1>3. /\ DOMAIN tx = Holders(d) /\ DOMAIN carrying = Holders(d)
      /\ DOMAIN restTx = (DOMAIN tx) \ {s} /\ DOMAIN restCarrying = (DOMAIN carrying) \ {s}
      /\ tx[s] = rows[s][d].tx /\ carrying[s] = rows[s][d].carrying
  BY DEF TxOf, CarryingOf
<1>4. /\ \A r \in DOMAIN tx : tx[r] \in Int
      /\ \A r \in DOMAIN carrying : carrying[r] \in Int
      /\ \A r \in DOMAIN restTx : restTx[r] = tx[r]
      /\ \A r \in DOMAIN restCarrying : restCarrying[r] = carrying[r]
  BY <1>2 DEF TxOf, CarryingOf
<1>11. /\ \A r \in DOMAIN restTx : restTx[r] \in Nat
       /\ \A r \in DOMAIN restCarrying : restCarrying[r] \in Nat
  BY <1>2 DEF TxOf, CarryingOf
<1>5. applied[d] = SumFunction(tx) /\ carried[d] = SumFunction(carrying)
  BY DEF TotalsHold, SumsOfLive, TxOf, CarryingOf
<1> HIDE DEF tx, restTx, carrying, restCarrying
<1>6. s \in DOMAIN tx /\ s \in DOMAIN carrying
  BY <1>3
<1>7. IsFiniteSet(DOMAIN tx) /\ IsFiniteSet(DOMAIN carrying)
  BY <1>1, <1>3
<1>8. IsFiniteSet(DOMAIN restTx) /\ IsFiniteSet(DOMAIN restCarrying)
  BY <1>1, <1>3
<1>9. /\ SumFunction(tx) = tx[s] + SumFunction(restTx)
      /\ SumFunction(carrying) = carrying[s] + SumFunction(restCarrying)
  BY <1>3, <1>4, <1>6, <1>7, SumWithOneMore, Zenon
<1>10. SumFunction(restTx) \in Nat /\ SumFunction(restCarrying) \in Nat
  BY <1>8, <1>11, SumOfNats, Zenon
<1> QED
  BY <1>3, <1>5, <1>9, <1>10 DEF restTx, restCarrying

-----------------------------------------------------------------------------
(* The invariant holds initially and in every step.                        *)

LEMMA Start == Init => IInv
<1> SUFFICES ASSUME Init PROVE IInv
  OBVIOUS
<1>1. TypeOK
  BY DEF Init, TypeOK, IsRowSet, NoRows, Idle
<1>2. \A d \in Documents : Holders(d) = {}
  BY DEF Init, Holders, Live
<1>3. TotalsHold
  BY <1>2, SumOfNothing, FS_EmptySet DEF TotalsHold, SumsOfLive, Init
<1>4. ItemsArePosted /\ LocksHeld /\ PaidHasRows /\ AbsentHasNoVersion
  BY DEF Init, ItemsArePosted, LocksHeld, PaidHasRows, AbsentHasNoVersion, Live, Idle
<1>5. NeverOverApplied /\ SettledIsClean
  BY DEF Init, NeverOverApplied, SettledIsClean, NoAmount
<1> QED
  BY <1>1, <1>3, <1>4, <1>5 DEF IInv

\* What follows for the item's sums.
LEMMA HeldBounds ==
  ASSUME TypeOK, TotalsHold, NEW d \in Documents
  PROVE  /\ applied[d] = 0 => carried[d] = 0
         /\ applied[d] = 0 => \A s \in Settlements : ~Live(s, d)
         /\ \A s \in Settlements : Live(s, d) =>
              /\ applied[d] - rows[s][d].tx \in Nat
              /\ carried[d] - rows[s][d].carrying \in Nat
<1>1. ASSUME NEW s \in Settlements, Live(s, d)
      PROVE  /\ applied[d] - rows[s][d].tx \in Nat
             /\ carried[d] - rows[s][d].carrying \in Nat
             /\ applied[d] # 0
  <2>1. s \in Holders(d)
    BY <1>1 DEF Holders
  <2>2. rows[s][d].tx \in Nat \ {0} /\ rows[s][d].carrying \in Nat \ {0}
    BY <1>1, HeldTypes DEF Live
  <2> DEFINE n == SumFunction(TxOf(Holders(d) \ {s}, d))
             m == SumFunction(CarryingOf(Holders(d) \ {s}, d))
  <2>3. /\ applied[d] = rows[s][d].tx + n /\ n \in Nat
        /\ carried[d] = rows[s][d].carrying + m /\ m \in Nat
    BY <2>1, OneHolder
  <2> HIDE DEF n, m
  <2> QED
    BY <2>2, <2>3
<1>2. ASSUME applied[d] = 0 PROVE carried[d] = 0
  <2>1. Holders(d) = {}
    BY <1>1, <1>2 DEF Holders
  <2> QED
    BY <2>1, SumOfNothing DEF TotalsHold, SumsOfLive
<1> QED
  BY <1>1, <1>2

\* Steps that leave the settlements alone leave the totals alone.
LEMMA TotalsStay ==
  ASSUME TotalsHold, UNCHANGED itemVars
  PROVE  TotalsHold'
<1>1. \A d \in Documents : Holders(d)' = Holders(d)
  BY DEF itemVars, Holders, Live
<1> QED
  BY <1>1 DEF TotalsHold, SumsOfLive, itemVars

\* A settlement that is recorded holds more of its items, and holds nothing
\* before.
LEMMA FinishTotals ==
  ASSUME TypeOK, TotalsHold, LocksHeld, NEW t \in Txns, FinishSettle(t)
  PROVE  TotalsHold'
<1> DEFINE s == txn[t].settlement
           takes == txn[t].takes
<1>1. /\ s \in Settlements /\ DOMAIN takes \subseteq Documents
      /\ takes \in [DOMAIN takes -> Row] /\ paid[s] = "ABSENT"
  BY DEF TypeOK, FinishSettle, Idle, IsSettleTxn, IsRowSet, LocksHeld
<1>2. /\ paid' = [paid EXCEPT ![s] = "POSTED"]
      /\ rows' = [rows EXCEPT ![s] = takes]
  BY DEF FinishSettle
<1>3. /\ DOMAIN paid = Settlements /\ DOMAIN rows = Settlements
  BY DEF TypeOK
<1> SUFFICES ASSUME NEW d \in Documents
             PROVE  /\ IsFiniteSet(Holders(d)')
                    /\ applied'[d] = SumFunction([r \in Holders(d)' |-> rows'[r][d].tx])
                    /\ carried'[d] = SumFunction([r \in Holders(d)' |-> rows'[r][d].carrying])
  BY DEF TotalsHold, SumsOfLive
<1>4. /\ IsFiniteSet(Holders(d))
      /\ applied[d] = SumFunction([r \in Holders(d) |-> rows[r][d].tx])
      /\ carried[d] = SumFunction([r \in Holders(d) |-> rows[r][d].carrying])
  BY DEF TotalsHold, SumsOfLive
<1>5. s \notin Holders(d) /\ \A r \in Holders(d) : rows'[r] = rows[r]
  BY <1>1, <1>2, <1>3 DEF Holders, Live
<1>6. CASE d \in DOMAIN takes
  <2> DEFINE tx == [r \in Holders(d) \cup {s} |-> rows'[r][d].tx]
             carrying == [r \in Holders(d) \cup {s} |-> rows'[r][d].carrying]
  <2>1. /\ applied'[d] = applied[d] + takes[d].tx
        /\ carried'[d] = carried[d] + takes[d].carrying
    BY <1>6 DEF FinishSettle
  <2>2. Holders(d)' = Holders(d) \cup {s}
    BY <1>1, <1>2, <1>3, <1>6 DEF Holders, Live
  <2>3. rows'[s] = takes /\ takes[d].tx \in Nat /\ takes[d].carrying \in Nat
    BY <1>1, <1>2, <1>3, <1>6 DEF Row
  <2>4. \A r \in Holders(d) : rows'[r][d].tx \in Nat /\ rows'[r][d].carrying \in Nat
    BY <1>5, HeldTypes DEF Holders, Live
  <2>5. IsFiniteSet(Holders(d) \cup {s})
    BY <1>4, FS_AddElement
  <2> DEFINE oldTx == [r \in Holders(d) |-> rows[r][d].tx]
             oldCarrying == [r \in Holders(d) |-> rows[r][d].carrying]
  <2>6. /\ \A r \in DOMAIN tx : tx[r] \in Int
        /\ \A r \in DOMAIN oldTx : oldTx[r] = tx[r]
        /\ tx[s] = takes[d].tx
    <3> HIDE DEF s, takes
    <3> QED
      BY <1>5, <2>3, <2>4
  <2>11. /\ \A r \in DOMAIN carrying : carrying[r] \in Int
         /\ \A r \in DOMAIN oldCarrying : oldCarrying[r] = carrying[r]
         /\ carrying[s] = takes[d].carrying
    <3> HIDE DEF s, takes
    <3> QED
      BY <1>5, <2>3, <2>4
  <2>12. /\ DOMAIN oldTx = Holders(d) /\ DOMAIN oldCarrying = Holders(d)
         /\ DOMAIN tx = (DOMAIN oldTx) \cup {s}
         /\ DOMAIN carrying = (DOMAIN oldCarrying) \cup {s}
    OBVIOUS
  <2>13. /\ IsFiniteSet(DOMAIN oldTx) /\ s \notin DOMAIN oldTx
         /\ IsFiniteSet(DOMAIN oldCarrying) /\ s \notin DOMAIN oldCarrying
    BY <1>4, <1>5
  <2>10. applied[d] = SumFunction(oldTx) /\ carried[d] = SumFunction(oldCarrying)
    BY <1>4
  <2> HIDE DEF s, takes, tx, carrying, oldTx, oldCarrying
  <2>14. SumFunction(tx) = tx[s] + SumFunction(oldTx)
    BY <2>6, <2>12, <2>13, SumGrows, Zenon
  <2>7. SumFunction(carrying) = carrying[s] + SumFunction(oldCarrying)
    BY <2>11, <2>12, <2>13, SumGrows, Zenon
  <2>8. applied[d] \in Int /\ carried[d] \in Int
    BY DEF TypeOK
  <2>9. applied'[d] = SumFunction(tx) /\ carried'[d] = SumFunction(carrying)
    BY <2>1, <2>3, <2>6, <2>7, <2>8, <2>10, <2>11, <2>14
  <2> QED
    BY <2>2, <2>5, <2>9 DEF tx, carrying
<1>7. CASE d \notin DOMAIN takes
  <2>1. applied'[d] = applied[d] /\ carried'[d] = carried[d]
    BY <1>7 DEF FinishSettle
  <2>2. Holders(d)' = Holders(d)
    BY <1>1, <1>2, <1>3, <1>7 DEF Holders, Live
  <2>3. /\ [r \in Holders(d)' |-> rows'[r][d].tx] = [r \in Holders(d) |-> rows[r][d].tx]
        /\ [r \in Holders(d)' |-> rows'[r][d].carrying]
             = [r \in Holders(d) |-> rows[r][d].carrying]
    BY <1>5, <2>2
  <2> QED
    BY <1>4, <2>1, <2>2, <2>3
<1> QED
  BY <1>6, <1>7

\* A void takes its settlement out of the holders, and what it held out of the
\* sums.
LEMMA VoidTotals ==
  ASSUME TypeOK, TotalsHold, NEW s \in Settlements, VoidSettlement(s)
  PROVE  TotalsHold'
<1>1. /\ paid[s] = "POSTED" /\ paid' = [paid EXCEPT ![s] = "VOIDED"] /\ rows' = rows
      /\ DOMAIN paid = Settlements
  BY DEF VoidSettlement, MarkVoided, TypeOK
<1> SUFFICES ASSUME NEW d \in Documents
             PROVE  /\ IsFiniteSet(Holders(d)')
                    /\ applied'[d] = SumFunction([r \in Holders(d)' |-> rows[r][d].tx])
                    /\ carried'[d] = SumFunction([r \in Holders(d)' |-> rows[r][d].carrying])
  BY <1>1 DEF TotalsHold, SumsOfLive
<1>2. Holders(d)' = Holders(d) \ {s}
  BY <1>1 DEF Holders, Live
<1>3. IsFiniteSet(Holders(d)')
  BY <1>2, FS_Subset DEF TotalsHold
<1>4. CASE d \in DOMAIN rows[s]
  <2>1. s \in Holders(d)
    BY <1>1, <1>4 DEF Holders, Live
  <2>2. /\ applied'[d] = applied[d] - rows[s][d].tx
        /\ carried'[d] = carried[d] - rows[s][d].carrying
    BY <1>4 DEF VoidSettlement, Reversed
  <2>3. rows[s][d].tx \in Nat /\ rows[s][d].carrying \in Nat
    BY <1>4, HeldTypes
  <2>4. /\ applied'[d] = SumFunction([r \in Holders(d) \ {s} |-> rows[r][d].tx])
        /\ carried'[d] = SumFunction([r \in Holders(d) \ {s} |-> rows[r][d].carrying])
    <3> DEFINE n == SumFunction(TxOf(Holders(d) \ {s}, d))
               m == SumFunction(CarryingOf(Holders(d) \ {s}, d))
    <3>1. /\ applied[d] = rows[s][d].tx + n /\ n \in Nat
          /\ carried[d] = rows[s][d].carrying + m /\ m \in Nat
      BY <2>1, OneHolder
    <3> HIDE DEF n, m
    <3>2. applied'[d] = n /\ carried'[d] = m
      BY <2>2, <2>3, <3>1
    <3> QED
      BY <3>2 DEF n, m, TxOf, CarryingOf
  <2> QED
    BY <1>2, <1>3, <2>4
<1>5. CASE d \notin DOMAIN rows[s]
  <2>1. applied'[d] = applied[d] /\ carried'[d] = carried[d]
    BY <1>5 DEF VoidSettlement
  <2>2. Holders(d)' = Holders(d)
    BY <1>2, <1>5 DEF Holders, Live
  <2> QED
    BY <1>3, <2>1, <2>2 DEF TotalsHold, SumsOfLive
<1> QED
  BY <1>4, <1>5

\* The steps, with the parameters that matter.
LEMMA StepCases ==
  ASSUME [Next]_vars
  PROVE  \/ UNCHANGED vars
         \/ \E d \in Documents : Review(d)
         \/ \E d \in Documents, a \in Amounts : CreateDraft(d, a)
         \/ \E d \in Documents, v \in 1..MaxVersion, a \in Amounts : EditDraft(d, v, a)
         \/ \E d \in Documents, v \in 1..MaxVersion : Issue(d, v)
         \/ \E d \in Documents, v \in 1..MaxVersion : VoidDocument(d, v)
         \/ \E t \in Txns, s \in Settlements, D \in (SUBSET Documents) \ {{}} :
              \E wanted \in [D -> Parts] : BeginSettle(t, s, wanted)
         \/ \E t \in Txns : FinishSettle(t)
         \/ \E t \in Txns : EndWithoutEffect(t)
         \/ \E s \in Settlements : VoidSettlement(s)
  BY DEF Next, DocumentStep, SettleStep

LEMMA VersionTypes ==
  ASSUME TypeOK, NEW d \in Documents, NEW status \in {"DRAFT", "POSTED", "VOIDED"},
         NEW a \in Amounts \cup {NoAmount}, NextVersion(d, status, a)
  PROVE  /\ docStatus' \in [Documents -> {"ABSENT", "DRAFT", "POSTED", "VOIDED"}]
         /\ docVersion' \in [Documents -> Nat]
         /\ amount' \in [Documents -> Amounts \cup {NoAmount}]
  BY DEF TypeOK, NextVersion

\* What a settlement that begins notes is made of positive amounts.
LEMMA BeginTypes ==
  ASSUME TypeOK, NEW t \in Txns, NEW s \in Settlements,
         NEW D \in (SUBSET Documents) \ {{}}, NEW wanted \in [D -> Parts],
         BeginSettle(t, s, wanted)
  PROVE  /\ txn'[t] = [op |-> "settle", settlement |-> s, takes |-> txn'[t].takes]
         /\ DOMAIN txn'[t].takes = D /\ IsRowSet(txn'[t].takes)
         /\ IsSettleTxn(txn'[t])
         /\ \A u \in Txns \ {t} : txn'[u] = txn[u]
<1> DEFINE takes == [d \in D |->
             [tx |-> wanted[d], carrying |-> CarryingFor(d, wanted[d])]]
<1>1. /\ txn'[t] = [op |-> "settle", settlement |-> s, takes |-> takes]
      /\ \A u \in Txns \ {t} : txn'[u] = txn[u]
  BY DEF BeginSettle, TypeOK
<1>2. ASSUME NEW d \in D PROVE takes[d] \in Row
  <2>1. wanted[d] \in Nat \ {0}
    BY PartsAssumption
  <2>2. amount[d].tx \in Nat /\ amount[d].functional \in Nat
    BY AmountsAssumption DEF TypeOK, NoAmount
  <2>3. applied[d] \in Nat /\ carried[d] \in Nat
    BY DEF TypeOK
  <2>4. WithinBalance(d, wanted[d]) /\ CarryingFor(d, wanted[d]) > 0
    BY DEF BeginSettle
  <2>5. amount[d].tx > 0
    BY <2>2, <2>3, <2>4 DEF WithinBalance, RemainingTx
  <2>6. CarryingFor(d, wanted[d]) \in Int
    <3>1. RoundHalfUp(wanted[d] * amount[d].functional, amount[d].tx) \in Int
      <4>1. /\ 2 * (wanted[d] * amount[d].functional) + amount[d].tx \in Int
            /\ 2 * amount[d].tx \in Int /\ 2 * amount[d].tx > 0
        BY <2>1, <2>2, <2>5
      <4> QED
        BY <4>1 DEF RoundHalfUp
    <3> QED
      BY <2>2, <2>3, <3>1 DEF CarryingFor, RemainingTx, RemainingCarrying
  <2> QED
    BY <2>1, <2>4, <2>6 DEF Row
<1>3. DOMAIN takes = D /\ takes = [d \in D |-> takes[d]] /\ takes # NoRows
  <2>1. DOMAIN takes = D /\ takes = [d \in D |-> takes[d]]
    OBVIOUS
  <2>2. DOMAIN NoRows = {}
    BY DEF NoRows
  <2>3. D # {}
    OBVIOUS
  <2> HIDE DEF takes
  <2> QED
    BY <2>1, <2>2, <2>3
<1> HIDE DEF takes
<1>4. IsRowSet(takes)
  BY <1>2, <1>3 DEF IsRowSet
<1> QED
  BY <1>1, <1>3, <1>4 DEF IsSettleTxn

LEMMA TypeNext ==
  ASSUME TypeOK, TotalsHold, [Next]_vars
  PROVE  TypeOK'
<1>1. CASE UNCHANGED vars
  BY <1>1 DEF vars, docVars, itemVars, TypeOK, IsRowSet
<1>2. CASE \E d \in Documents : Review(d)
  BY <1>2 DEF Review, docVars, itemVars, TypeOK, IsRowSet
<1>3. ASSUME NEW d \in Documents, NEW a \in Amounts, CreateDraft(d, a) PROVE TypeOK'
  BY <1>3, VersionTypes DEF CreateDraft, itemVars, TypeOK, IsRowSet
<1>4. ASSUME NEW d \in Documents, NEW v \in 1..MaxVersion, NEW a \in Amounts,
             EditDraft(d, v, a)
      PROVE  TypeOK'
  BY <1>4, VersionTypes DEF EditDraft, itemVars, TypeOK, IsRowSet
<1>5. ASSUME NEW d \in Documents, NEW v \in 1..MaxVersion, Issue(d, v) PROVE TypeOK'
  <2>1. amount[d] \in Amounts \cup {NoAmount}
    BY DEF TypeOK
  <2> QED
    BY <1>5, <2>1, VersionTypes DEF Issue, itemVars, TypeOK, IsRowSet
<1>6. ASSUME NEW d \in Documents, NEW v \in 1..MaxVersion, VoidDocument(d, v)
      PROVE  TypeOK'
  <2>1. amount[d] \in Amounts \cup {NoAmount}
    BY DEF TypeOK
  <2> QED
    BY <1>6, <2>1, VersionTypes DEF VoidDocument, itemVars, TypeOK, IsRowSet
<1>7. ASSUME NEW t \in Txns, NEW s \in Settlements, NEW D \in (SUBSET Documents) \ {{}},
             NEW wanted \in [D -> Parts], BeginSettle(t, s, wanted)
      PROVE  TypeOK'
  <2>1. DOMAIN txn' = Txns /\ UNCHANGED <<docVars, reviewed, itemVars>>
    BY <1>7 DEF BeginSettle, TypeOK
  <2>2. \A u \in Txns : txn'[u] = Idle \/ IsSettleTxn(txn'[u])
    BY <1>7, BeginTypes DEF TypeOK
  <2> QED
    BY <2>1, <2>2 DEF TypeOK, docVars, itemVars, IsRowSet
<1>8. ASSUME NEW t \in Txns, FinishSettle(t) PROVE TypeOK'
  <2> DEFINE s == txn[t].settlement
             takes == txn[t].takes
  <2>1. s \in Settlements /\ IsRowSet(takes)
    BY <1>8 DEF TypeOK, FinishSettle, Idle, IsSettleTxn
  <2>2. paid' \in [Settlements -> {"ABSENT", "POSTED", "VOIDED"}]
    BY <1>8, <2>1 DEF FinishSettle, TypeOK
  <2>3. DOMAIN rows' = Settlements /\ \A r \in Settlements : IsRowSet(rows'[r])
    BY <1>8, <2>1 DEF FinishSettle, TypeOK
  <2>4. applied' \in [Documents -> Nat] /\ carried' \in [Documents -> Nat]
    BY <1>8, <2>1 DEF FinishSettle, TypeOK, IsRowSet, Row
  <2>5. DOMAIN txn' = Txns /\ \A u \in Txns : txn'[u] = Idle \/ IsSettleTxn(txn'[u])
    BY <1>8 DEF FinishSettle, TypeOK
  <2>6. UNCHANGED <<docVars, reviewed>>
    BY <1>8 DEF FinishSettle
  <2> QED
    BY <2>2, <2>3, <2>4, <2>5, <2>6 DEF TypeOK, docVars
<1>9. ASSUME NEW t \in Txns, EndWithoutEffect(t) PROVE TypeOK'
  BY <1>9 DEF EndWithoutEffect, TypeOK, docVars, itemVars, IsRowSet
<1>10. ASSUME NEW s \in Settlements, VoidSettlement(s) PROVE TypeOK'
  <2>1. paid' \in [Settlements -> {"ABSENT", "POSTED", "VOIDED"}]
    BY <1>10 DEF VoidSettlement, MarkVoided, TypeOK
  <2>2. \A d \in Documents : d \in DOMAIN rows[s] =>
          /\ applied[d] - rows[s][d].tx \in Nat
          /\ carried[d] - rows[s][d].carrying \in Nat
    BY <1>10, HeldBounds DEF VoidSettlement, Live
  <2>3. applied' \in [Documents -> Nat] /\ carried' \in [Documents -> Nat]
    BY <1>10, <2>2 DEF VoidSettlement, Reversed, TypeOK
  <2> QED
    BY <1>10, <2>1, <2>3 DEF VoidSettlement, TypeOK, docVars, IsRowSet
<1> QED
  BY <1>1, <1>2, <1>3, <1>4, <1>5, <1>6, <1>7, <1>8, <1>9, <1>10, StepCases

\* An issued item keeps its amount, and a draft has no settlement.
LEMMA PostedNext ==
  ASSUME IInv, [Next]_vars
  PROVE  ItemsArePosted'
<1> USE DEF IInv
<1> DEFINE Keeps == UNCHANGED <<docVars, itemVars, txn>>
<1>1. ASSUME Keeps PROVE ItemsArePosted'
  BY <1>1 DEF ItemsArePosted, docVars, itemVars, Live
<1>2. ASSUME NEW d \in Documents, NEW status \in {"DRAFT", "POSTED", "VOIDED"},
             NEW a \in Amounts, NextVersion(d, status, a), UNCHANGED <<itemVars, txn>>,
             \/ docStatus[d] # "POSTED"
             \/ applied[d] = 0 /\ ItemFree(d)
      PROVE  ItemsArePosted'
  <2>1. /\ \A e \in Documents \ {d} : docStatus'[e] = docStatus[e] /\ amount'[e] = amount[e]
        /\ docStatus'[d] = status /\ amount'[d] = a
    BY <1>2 DEF NextVersion, TypeOK
  <2>2. applied[d] = 0 /\ carried[d] = 0 /\ \A s \in Settlements : ~Live(s, d)
    BY <1>2, HeldBounds DEF ItemsArePosted
  <2>3. \A t \in Txns : txn[t].op = "settle" => d \notin DOMAIN txn[t].takes
    BY <1>2 DEF ItemsArePosted, ItemFree
  <2>4. \A t \in Txns : txn[t].op = "settle" => DOMAIN txn[t].takes \subseteq Documents
    BY DEF TypeOK, Idle, IsSettleTxn, IsRowSet
  <2>5. /\ \A s \in Settlements, e \in Documents : Live(s, e)' = Live(s, e)
        /\ applied' = applied /\ carried' = carried /\ txn' = txn
    BY <1>2 DEF itemVars, Live
  <2>6. \A e \in Documents :
          /\ docStatus'[e] # "ABSENT" => amount'[e] \in Amounts
          /\ docStatus'[e] # "POSTED" => applied'[e] = 0 /\ carried'[e] = 0
          /\ docStatus'[e] # "POSTED" => \A s \in Settlements : ~Live(s, e)'
    BY <2>1, <2>2, <2>5 DEF ItemsArePosted
  <2>7. \A t \in Txns : txn'[t].op = "settle" =>
          \A e \in DOMAIN txn'[t].takes : docStatus'[e] = "POSTED"
    BY <2>1, <2>3, <2>4, <2>5 DEF ItemsArePosted
  <2> QED
    BY <2>6, <2>7 DEF ItemsArePosted
<1>3. ASSUME NEW d \in Documents, docStatus[d] # "ABSENT" PROVE amount[d] \in Amounts
  BY <1>3 DEF ItemsArePosted
<1>4. CASE UNCHANGED vars \/ \E d \in Documents : Review(d)
  BY <1>1, <1>4 DEF vars, Review
<1>5. ASSUME NEW d \in Documents, NEW a \in Amounts, CreateDraft(d, a)
      PROVE  ItemsArePosted'
  BY <1>2, <1>5 DEF CreateDraft
<1>6. ASSUME NEW d \in Documents, NEW v \in 1..MaxVersion, NEW a \in Amounts,
             EditDraft(d, v, a)
      PROVE  ItemsArePosted'
  BY <1>2, <1>6 DEF EditDraft
<1>7. ASSUME NEW d \in Documents, NEW v \in 1..MaxVersion, Issue(d, v)
      PROVE  ItemsArePosted'
  BY <1>2, <1>3, <1>7 DEF Issue
<1>8. ASSUME NEW d \in Documents, NEW v \in 1..MaxVersion, VoidDocument(d, v)
      PROVE  ItemsArePosted'
  BY <1>2, <1>3, <1>8 DEF VoidDocument
<1>9. ASSUME NEW t \in Txns, NEW s \in Settlements, NEW D \in (SUBSET Documents) \ {{}},
             NEW wanted \in [D -> Parts], BeginSettle(t, s, wanted)
      PROVE  ItemsArePosted'
  <2>1. UNCHANGED <<docVars, itemVars>> /\ \A d \in D : docStatus[d] = "POSTED"
    BY <1>9 DEF BeginSettle
  <2>2. DOMAIN txn'[t].takes = D /\ \A u \in Txns \ {t} : txn'[u] = txn[u]
    BY <1>9, BeginTypes
  <2>3. \A u \in Txns : txn'[u].op = "settle" =>
          \A d \in DOMAIN txn'[u].takes : docStatus[d] = "POSTED"
    BY <2>1, <2>2 DEF ItemsArePosted
  <2> QED
    BY <2>1, <2>3 DEF ItemsArePosted, docVars, itemVars, Live
<1>10. ASSUME NEW t \in Txns, FinishSettle(t) PROVE ItemsArePosted'
  <2> DEFINE s == txn[t].settlement
             takes == txn[t].takes
  <2>1. /\ \A d \in DOMAIN takes : docStatus[d] = "POSTED"
        /\ UNCHANGED docVars
        /\ txn' = [txn EXCEPT ![t] = Idle]
    BY <1>10 DEF FinishSettle, ItemsArePosted
  <2>2. \A d \in Documents : docStatus[d] # "POSTED" =>
          applied'[d] = applied[d] /\ carried'[d] = carried[d]
    BY <1>10, <2>1 DEF FinishSettle
  <2>3. \A d \in Documents, r \in Settlements :
          Live(r, d)' => Live(r, d) \/ d \in DOMAIN takes
    BY <1>10 DEF FinishSettle, Live, TypeOK
  <2>4. \A u \in Txns : txn'[u].op = "settle" => txn'[u] = txn[u]
    BY <2>1 DEF Idle, TypeOK
  <2> QED
    BY <2>1, <2>2, <2>3, <2>4 DEF ItemsArePosted, docVars
<1>11. ASSUME NEW t \in Txns, EndWithoutEffect(t) PROVE ItemsArePosted'
  <2>1. \A u \in Txns : txn'[u].op = "settle" => txn'[u] = txn[u]
    BY <1>11 DEF EndWithoutEffect, Idle, TypeOK
  <2> QED
    BY <1>11, <2>1 DEF EndWithoutEffect, ItemsArePosted, docVars, itemVars, Live
<1>12. ASSUME NEW s \in Settlements, VoidSettlement(s) PROVE ItemsArePosted'
  <2>1. \A d \in DOMAIN rows[s] : d \in Documents => docStatus[d] = "POSTED"
    BY <1>12 DEF VoidSettlement, ItemsArePosted, Live
  <2>2. \A d \in Documents : docStatus[d] # "POSTED" =>
          applied'[d] = applied[d] /\ carried'[d] = carried[d]
    BY <1>12, <2>1 DEF VoidSettlement
  <2>3. \A d \in Documents, r \in Settlements : Live(r, d)' => Live(r, d)
    BY <1>12 DEF VoidSettlement, MarkVoided, Live, TypeOK
  <2> QED
    BY <1>12, <2>2, <2>3 DEF VoidSettlement, ItemsArePosted, docVars
<1> QED
  BY <1>4, <1>5, <1>6, <1>7, <1>8, <1>9, <1>10, <1>11, <1>12, StepCases

LEMMA LocksNext ==
  ASSUME IInv, [Next]_vars
  PROVE  LocksHeld'
<1> USE DEF IInv
<1>1. ASSUME UNCHANGED paid, UNCHANGED txn PROVE LocksHeld'
  BY <1>1 DEF LocksHeld
<1>2. ASSUME NEW t \in Txns, NEW s \in Settlements, NEW D \in (SUBSET Documents) \ {{}},
             NEW wanted \in [D -> Parts], BeginSettle(t, s, wanted)
      PROVE  LocksHeld'
  <2>1. /\ txn'[t].settlement = s /\ DOMAIN txn'[t].takes = D
        /\ \A u \in Txns \ {t} : txn'[u] = txn[u]
    <3>1. /\ txn'[t] = [op |-> "settle", settlement |-> s, takes |-> txn'[t].takes]
          /\ DOMAIN txn'[t].takes = D /\ \A u \in Txns \ {t} : txn'[u] = txn[u]
      BY <1>2, BeginTypes
    <3>2. [op |-> "settle", settlement |-> s, takes |-> txn'[t].takes].settlement = s
      OBVIOUS
    <3> QED
      BY <3>1, <3>2
  <2>2. paid[s] = "ABSENT" /\ paid' = paid
    BY <1>2 DEF BeginSettle, itemVars
  <2>3. \A u \in Txns : txn[u].op = "settle" =>
          txn[u].settlement # s /\ DOMAIN txn[u].takes \cap D = {}
    BY <1>2 DEF BeginSettle, NumberFree, ItemFree
  <2> QED
    BY <2>1, <2>2, <2>3 DEF LocksHeld
<1>3. ASSUME NEW t \in Txns, FinishSettle(t) PROVE LocksHeld'
  <2>1. \A u \in Txns : txn'[u].op = "settle" => u # t /\ txn'[u] = txn[u]
    BY <1>3 DEF FinishSettle, Idle, TypeOK
  <2>2. \A u \in Txns : txn'[u].op = "settle" =>
          paid'[txn[u].settlement] = paid[txn[u].settlement]
    BY <1>3, <2>1 DEF FinishSettle, LocksHeld, TypeOK
  <2> QED
    BY <2>1, <2>2 DEF LocksHeld
<1>4. ASSUME NEW t \in Txns, EndWithoutEffect(t) PROVE LocksHeld'
  <2>1. \A u \in Txns : txn'[u].op = "settle" => txn'[u] = txn[u]
    BY <1>4 DEF EndWithoutEffect, Idle, TypeOK
  <2>2. paid' = paid
    BY <1>4 DEF EndWithoutEffect, itemVars
  <2> QED
    BY <2>1, <2>2 DEF LocksHeld
<1>5. ASSUME NEW s \in Settlements, VoidSettlement(s) PROVE LocksHeld'
  <2>1. \A u \in Txns : txn[u].op = "settle" =>
          paid'[txn[u].settlement] = paid[txn[u].settlement]
    BY <1>5 DEF VoidSettlement, MarkVoided, LocksHeld, TypeOK
  <2> QED
    BY <1>5, <2>1 DEF VoidSettlement, LocksHeld
<1> QED
  BY <1>1, <1>2, <1>3, <1>4, <1>5, StepCases
     DEF vars, itemVars, Review, CreateDraft, EditDraft, Issue, VoidDocument

LEMMA RowsNext ==
  ASSUME IInv, [Next]_vars
  PROVE  PaidHasRows'
<1> USE DEF IInv
<1>1. ASSUME UNCHANGED <<paid, rows>> PROVE PaidHasRows'
  BY <1>1 DEF PaidHasRows
<1>2. ASSUME NEW t \in Txns, FinishSettle(t) PROVE PaidHasRows'
  <2>1. txn[t].takes # NoRows
    BY <1>2 DEF FinishSettle, TypeOK, Idle, IsSettleTxn
  <2> QED
    BY <1>2, <2>1 DEF FinishSettle, PaidHasRows, TypeOK
<1>3. ASSUME NEW s \in Settlements, VoidSettlement(s) PROVE PaidHasRows'
  BY <1>3 DEF VoidSettlement, MarkVoided, PaidHasRows, TypeOK
<1> QED
  BY <1>1, <1>2, <1>3, StepCases
     DEF vars, itemVars, Review, CreateDraft, EditDraft, Issue, VoidDocument,
         BeginSettle, EndWithoutEffect

\* What a settlement in force, or about to be, holds of an item.
LEMMA TakesTypes ==
  ASSUME TypeOK, NEW t \in Txns, FinishSettle(t)
  PROVE  /\ txn[t].settlement \in Settlements /\ txn[t].takes # NoRows
         /\ DOMAIN txn[t].takes \subseteq Documents
         /\ \A d \in DOMAIN txn[t].takes :
              /\ txn[t].takes[d].tx \in Nat \ {0}
              /\ txn[t].takes[d].carrying \in Nat \ {0}
  BY DEF FinishSettle, TypeOK, Idle, IsSettleTxn, IsRowSet, Row

LEMMA AmountTypes ==
  ASSUME TypeOK, NEW d \in Documents
  PROVE  /\ amount[d].tx \in Nat /\ amount[d].functional \in Nat
         /\ applied[d] \in Nat /\ carried[d] \in Nat
         /\ amount[d] \in Amounts => amount[d].tx # 0
  BY AmountsAssumption DEF TypeOK, NoAmount

\* The last settlement of an item takes all that is left of it.
LEMMA FinishBalance ==
  ASSUME TypeOK, NEW t \in Txns, FinishSettle(t), NEW d \in Documents
  PROVE  /\ \/ applied'[d] = applied[d] /\ carried'[d] = carried[d]
            \/ /\ applied'[d] > applied[d]
               /\ carried'[d] - carried[d] = CarryingFor(d, applied'[d] - applied[d])
               /\ applied'[d] <= amount[d].tx
               /\ applied'[d] = amount[d].tx => carried'[d] = amount[d].functional
<1>1. CASE d \notin DOMAIN txn[t].takes
  BY <1>1 DEF FinishSettle
<1>2. CASE d \in DOMAIN txn[t].takes
  <2> DEFINE tx == txn[t].takes[d].tx
             carrying == txn[t].takes[d].carrying
  <2>1. tx \in Nat \ {0} /\ carrying \in Nat
    BY <1>2, TakesTypes
  <2>2. applied'[d] = applied[d] + tx /\ carried'[d] = carried[d] + carrying
    BY <1>2 DEF FinishSettle
  <2>3. tx <= RemainingTx(d) /\ carrying = CarryingFor(d, tx)
    BY <1>2 DEF FinishSettle, Admits, WithinBalance
  <2>4. /\ amount[d].tx \in Nat /\ amount[d].functional \in Nat
        /\ applied[d] \in Nat /\ carried[d] \in Nat
    BY AmountTypes
  <2> HIDE DEF tx, carrying
  <2>5. applied'[d] > applied[d] /\ applied'[d] - applied[d] = tx
    BY <2>1, <2>2, <2>4
  <2>6. carried'[d] - carried[d] = carrying
    BY <2>1, <2>2, <2>4
  <2>7. applied'[d] <= amount[d].tx
    BY <2>1, <2>2, <2>3, <2>4 DEF RemainingTx
  <2>8. ASSUME applied'[d] = amount[d].tx PROVE carried'[d] = amount[d].functional
    <3>1. tx = RemainingTx(d)
      BY <2>1, <2>2, <2>4, <2>8 DEF RemainingTx
    <3>2. carrying = amount[d].functional - carried[d]
      BY <2>3, <3>1 DEF CarryingFor, RemainingCarrying
    <3> QED
      BY <2>2, <2>4, <3>2
  <2> QED
    BY <2>3, <2>5, <2>6, <2>7, <2>8
<1> QED
  BY <1>1, <1>2

\* The void of a settlement leaves an item that is not settled in full.
LEMMA VoidBalance ==
  ASSUME TypeOK, NEW s \in Settlements, VoidSettlement(s), NEW d \in Documents
  PROVE  \/ applied'[d] = applied[d] /\ carried'[d] = carried[d]
         \/ applied'[d] < applied[d]
<1>1. CASE d \notin DOMAIN rows[s]
  BY <1>1 DEF VoidSettlement
<1>2. CASE d \in DOMAIN rows[s]
  BY <1>2, HeldTypes, AmountTypes DEF VoidSettlement
<1> QED
  BY <1>1, <1>2

LEMMA SumsNext ==
  ASSUME IInv, [Next]_vars
  PROVE  NeverOverApplied' /\ SettledIsClean'
<1> USE DEF IInv
<1> DEFINE Clean(d) ==
      /\ applied[d] <= amount[d].tx
      /\ docStatus[d] = "POSTED" /\ applied[d] = amount[d].tx
           => carried[d] = amount[d].functional
<1> SUFFICES ASSUME NEW e \in Documents PROVE Clean(e)'
  BY DEF NeverOverApplied, SettledIsClean
<1>1. Clean(e)
  BY DEF NeverOverApplied, SettledIsClean
<1>2. ASSUME UNCHANGED <<docVars, applied, carried>> PROVE Clean(e)'
  BY <1>1, <1>2 DEF docVars
<1>3. ASSUME NEW d \in Documents, NEW status \in {"DRAFT", "POSTED", "VOIDED"},
             NEW a \in Amounts, NextVersion(d, status, a), UNCHANGED itemVars,
             status = "VOIDED" \/ docStatus[d] # "POSTED", applied[d] = 0
      PROVE  Clean(e)'
  <2>1. CASE e = d
    <3>1. a.tx \in Nat \ {0}
      BY AmountsAssumption
    <3>2. amount'[e] = a /\ applied'[e] = 0
      BY <1>3, <2>1 DEF NextVersion, TypeOK, itemVars
    <3> QED
      BY <3>1, <3>2
  <2>2. CASE e # d
    <3>1. /\ amount'[e] = amount[e] /\ docStatus'[e] = docStatus[e]
          /\ applied'[e] = applied[e] /\ carried'[e] = carried[e]
      BY <1>3, <2>2 DEF NextVersion, TypeOK, itemVars
    <3> QED
      BY <1>1, <3>1
  <2> QED
    BY <2>1, <2>2
<1>4. ASSUME NEW d \in Documents
      PROVE  /\ docStatus[d] # "ABSENT" => amount[d] \in Amounts
             /\ docStatus[d] # "POSTED" => applied[d] = 0
  BY DEF ItemsArePosted
<1> HIDE DEF Clean
<1>5. ASSUME NEW d \in Documents, NEW a \in Amounts, CreateDraft(d, a) PROVE Clean(e)'
  BY <1>3, <1>4, <1>5 DEF CreateDraft
<1>6. ASSUME NEW d \in Documents, NEW v \in 1..MaxVersion, NEW a \in Amounts,
             EditDraft(d, v, a)
      PROVE  Clean(e)'
  BY <1>3, <1>4, <1>6 DEF EditDraft
<1>7. ASSUME NEW d \in Documents, NEW v \in 1..MaxVersion, Issue(d, v) PROVE Clean(e)'
  BY <1>3, <1>4, <1>7 DEF Issue
<1>8. ASSUME NEW d \in Documents, NEW v \in 1..MaxVersion, VoidDocument(d, v)
      PROVE  Clean(e)'
  BY <1>3, <1>4, <1>8 DEF VoidDocument
<1>9. ASSUME NEW t \in Txns, FinishSettle(t) PROVE Clean(e)'
  <2>1. amount'[e] = amount[e] /\ docStatus'[e] = docStatus[e]
    BY <1>9 DEF FinishSettle, docVars
  <2> QED
    BY <1>1, <1>9, <2>1, FinishBalance DEF Clean
<1>10. ASSUME NEW s \in Settlements, VoidSettlement(s) PROVE Clean(e)'
  <2>1. amount'[e] = amount[e] /\ docStatus'[e] = docStatus[e] /\ applied'[e] \in Nat
    BY <1>10, TypeNext DEF VoidSettlement, docVars, TypeOK
  <2> QED
    BY <1>1, <1>10, <2>1, VoidBalance, AmountTypes DEF Clean
<1> QED
  BY <1>2, <1>5, <1>6, <1>7, <1>8, <1>9, <1>10, StepCases
     DEF vars, itemVars, Review, BeginSettle, EndWithoutEffect

LEMMA VersionsNext ==
  ASSUME IInv, [Next]_vars
  PROVE  AbsentHasNoVersion'
<1> USE DEF IInv
<1>1. ASSUME UNCHANGED docVars PROVE AbsentHasNoVersion'
  BY <1>1 DEF AbsentHasNoVersion, docVars
<1>2. ASSUME NEW d \in Documents, NEW status \in {"DRAFT", "POSTED", "VOIDED"},
             NEW a, NextVersion(d, status, a)
      PROVE  AbsentHasNoVersion'
  BY <1>2 DEF AbsentHasNoVersion, NextVersion, TypeOK
<1> QED
  BY <1>1, <1>2, StepCases
     DEF vars, Review, CreateDraft, EditDraft, Issue, VoidDocument, BeginSettle,
         FinishSettle, EndWithoutEffect, VoidSettlement

LEMMA TotalsNext ==
  ASSUME IInv, [Next]_vars
  PROVE  TotalsHold'
<1> USE DEF IInv
<1>1. ASSUME NEW t \in Txns, FinishSettle(t) PROVE TotalsHold'
  BY <1>1, FinishTotals
<1>2. ASSUME NEW s \in Settlements, VoidSettlement(s) PROVE TotalsHold'
  BY <1>2, VoidTotals
<1> QED
  BY <1>1, <1>2, TotalsStay, StepCases
     DEF vars, Review, CreateDraft, EditDraft, Issue, VoidDocument, BeginSettle,
         EndWithoutEffect

-----------------------------------------------------------------------------
(* What always holds.                                                      *)

\* The strengthened invariant, for every number of documents, settlements and
\* connections and for all amounts: every command of ar-ap-*-command(s).ts
\* keeps it.
THEOREM Inductive == Spec => []IInv
<1>1. Init => IInv
  BY Start
<1>2. IInv /\ [Next]_vars => IInv'
  <2> SUFFICES ASSUME IInv, [Next]_vars PROVE IInv'
    OBVIOUS
  <2>1. TypeOK'
    BY TypeNext DEF IInv
  <2> QED
    BY <2>1, TotalsNext, PostedNext, LocksNext, RowsNext, VersionsNext, SumsNext
       DEF IInv
<1> QED
  BY <1>1, <1>2, PTL DEF Spec

\* Every variable keeps its type; an item's sums never become negative, in
\* whatever order settlements are recorded and voided.
THEOREM TypeCorrect == Spec => []TypeOK
<1>1. IInv => TypeOK
  BY DEF IInv
<1> QED
  BY <1>1, Inductive, PTL

\* No item is settled beyond its transaction amount, whatever is read before
\* another settlement is voided.
THEOREM NotOverApplied == Spec => []NeverOverApplied
<1>1. IInv => NeverOverApplied
  BY DEF IInv
<1> QED
  BY <1>1, Inductive, PTL

\* The sums an item shows are those of the settlements in force, however often
\* settlements were recorded and voided.
THEOREM SumsAreHeld == Spec => []SumsOfLive
<1>1. IInv => SumsOfLive
  BY DEF IInv, TotalsHold
<1> QED
  BY <1>1, Inductive, PTL

\* A voided document has nothing settled and nothing about to be settled, by
\* the locks that a settlement and a document's void take on its open item.
THEOREM VoidedStaysUnsettled == Spec => []VoidedUnsettled
<1>1. IInv => VoidedUnsettled
  BY DEF IInv, VoidedUnsettled, ItemsArePosted, ItemFree
<1> QED
  BY <1>1, Inductive, PTL

\* An item settled in full has its whole functional amount taken off the
\* control account, by calculateSettlementAllocations' rule for the last part.
THEOREM SettledStaysClean == Spec => []SettledIsClean
<1>1. IInv => SettledIsClean
  BY DEF IInv
<1> QED
  BY <1>1, Inductive, PTL

\* The rows a settlement inserts carry what the balance prescribes at that
\* moment, although it was calculated before settlements were voided.
THEOREM NoneIsStale == Spec => NoStaleCarrying
<1> DEFINE Fresh ==
      \A d \in Documents : applied'[d] > applied[d] =>
        carried'[d] - carried[d] = CarryingFor(d, applied'[d] - applied[d])
<1>1. IInv /\ [Next]_vars => Fresh \/ UNCHANGED vars
  <2> SUFFICES ASSUME IInv, [Next]_vars, NEW d \in Documents, applied'[d] > applied[d]
               PROVE  carried'[d] - carried[d] = CarryingFor(d, applied'[d] - applied[d])
    OBVIOUS
  <2>1. applied[d] \in Nat /\ applied'[d] \in Nat
    BY TypeNext DEF IInv, TypeOK
  <2>2. ASSUME NEW s \in Settlements, VoidSettlement(s) PROVE FALSE
    BY <2>1, <2>2, VoidBalance DEF IInv
  <2>3. ASSUME NEW t \in Txns, FinishSettle(t)
        PROVE  carried'[d] - carried[d] = CarryingFor(d, applied'[d] - applied[d])
    BY <2>1, <2>3, FinishBalance DEF IInv
  <2>4. applied'[d] # applied[d]
    BY <2>1
  <2> QED
    BY <2>2, <2>3, <2>4, StepCases
       DEF vars, itemVars, Review, CreateDraft, EditDraft, Issue, VoidDocument,
           BeginSettle, EndWithoutEffect
<1> QED
  BY <1>1, Inductive, PTL DEF Spec, NoStaleCarrying

\* An edit, an issue or a void extends a version that its author was shown.
THEOREM ChainIsReviewed == Spec => ChainExtendsReviewed
<1> DEFINE Reviewed ==
      \A d \in Documents : docVersion[d] # 0 /\ docVersion'[d] # docVersion[d] =>
        <<d, docVersion[d]>> \in reviewed
<1>1. IInv /\ [Next]_vars => Reviewed
  <2> SUFFICES ASSUME IInv, [Next]_vars, NEW d \in Documents,
                      docVersion[d] # 0, docVersion'[d] # docVersion[d]
               PROVE  <<d, docVersion[d]>> \in reviewed
    OBVIOUS
  <2>1. ASSUME NEW e \in Documents, NEW status, NEW a, NextVersion(e, status, a)
        PROVE  d = e
    BY <2>1 DEF NextVersion, IInv, TypeOK
  <2>2. docStatus[d] # "ABSENT"
    BY DEF IInv, AbsentHasNoVersion
  <2> QED
    BY <2>1, <2>2, StepCases
       DEF vars, docVars, Review, CreateDraft, EditDraft, Issue, VoidDocument,
           IsCurrent, BeginSettle, FinishSettle, EndWithoutEffect, VoidSettlement
<1> QED
  BY <1>1, Inductive, PTL DEF Spec, ChainExtendsReviewed

-----------------------------------------------------------------------------
(* Receivables or payables implement the account of their party.           *)

Issued(d) == docStatus[d] \in {"POSTED", "VOIDED"}

\* The refinement mapping, as OpenItems substitutes it in PartyAccount.
OriginalOf == [d \in Documents |-> IF Issued(d) THEN amount[d].tx ELSE 0]
OpenOf == [d \in Documents |-> IF Issued(d) THEN amount[d].tx - applied[d] ELSE 0]
ClosedOf == {d \in Documents : docStatus[d] = "VOIDED"}
ClaimsOf ==
  [s \in Settlements |-> IF paid[s] # "POSTED" THEN NoRows
                         ELSE [d \in DOMAIN rows[s] |-> rows[s][d].tx]]
SpentOf == {s \in Settlements : paid[s] # "ABSENT"}

LEMMA AccountStart == Init => Account!AccountInit
  BY DEF Init, Account!AccountInit, Account!Nothing, NoRows

\* Whatever is done to drafts, and to settlements that are not yet recorded.
LEMMA Unseen ==
  ASSUME UNCHANGED itemVars,
         \A d \in Documents : \/ docStatus'[d] = docStatus[d] /\ amount'[d] = amount[d]
                              \/ ~Issued(d) /\ ~Issued(d)'
  PROVE  UNCHANGED Account!accountVars
<1>1. \A d \in Documents : /\ Issued(d)' = Issued(d)
                           /\ Issued(d) => amount'[d] = amount[d]
                           /\ docStatus'[d] = "VOIDED" <=> docStatus[d] = "VOIDED"
  BY DEF Issued
<1>2. UNCHANGED <<OriginalOf, OpenOf>>
  BY <1>1 DEF OriginalOf, OpenOf, itemVars
<1>3. UNCHANGED <<ClosedOf, ClaimsOf, SpentOf>>
  BY <1>1 DEF ClosedOf, ClaimsOf, SpentOf, itemVars
<1> QED
  BY <1>2, <1>3
     DEF Account!accountVars, OriginalOf, OpenOf, ClosedOf, ClaimsOf, SpentOf, Issued

LEMMA IssueOpens ==
  ASSUME IInv, NEW d \in Documents, NEW v \in 1..MaxVersion, Issue(d, v)
  PROVE  Account!Open(d)
<1>1. /\ docStatus[d] = "DRAFT" /\ docStatus' = [docStatus EXCEPT ![d] = "POSTED"]
      /\ amount' = [amount EXCEPT ![d] = amount[d]]
      /\ UNCHANGED itemVars
  BY DEF Issue, NextVersion
<1>2. /\ docStatus'[d] = "POSTED" /\ amount' = amount
      /\ \A e \in Documents \ {d} : docStatus'[e] = docStatus[e]
  BY <1>1 DEF IInv, TypeOK
<1>3. amount[d].tx \in Nat \ {0} /\ applied[d] = 0
  BY <1>1, AmountsAssumption DEF IInv, ItemsArePosted
<1>4. OriginalOf[d] = 0 /\ OriginalOf'[d] = amount[d].tx
  BY <1>1, <1>2 DEF OriginalOf, Issued
<1>5. OriginalOf' = [OriginalOf EXCEPT ![d] = amount[d].tx]
  BY <1>2 DEF OriginalOf, Issued
<1>6. OpenOf' = [OpenOf EXCEPT ![d] = amount[d].tx]
  <2>1. amount[d].tx - applied'[d] = amount[d].tx
    BY <1>1, <1>3 DEF itemVars
  <2>2. OpenOf'[d] = amount[d].tx
    BY <1>2, <2>1 DEF OpenOf, Issued
  <2>3. \A e \in Documents \ {d} : OpenOf'[e] = OpenOf[e]
    BY <1>1, <1>2 DEF OpenOf, Issued, itemVars
  <2> QED
    BY <2>2, <2>3 DEF OpenOf
<1>7. UNCHANGED <<ClosedOf, ClaimsOf, SpentOf>>
  BY <1>1, <1>2 DEF ClosedOf, ClaimsOf, SpentOf, itemVars
<1> QED
  BY <1>3, <1>4, <1>5, <1>6, <1>7
     DEF Account!Open, OriginalOf, OpenOf, ClosedOf, ClaimsOf, SpentOf, Issued

LEMMA VoidCloses ==
  ASSUME IInv, NEW d \in Documents, NEW v \in 1..MaxVersion, VoidDocument(d, v)
  PROVE  Account!Close(d)
<1>1. /\ docStatus[d] = "POSTED" /\ docStatus' = [docStatus EXCEPT ![d] = "VOIDED"]
      /\ amount' = [amount EXCEPT ![d] = amount[d]]
      /\ applied[d] = 0 /\ UNCHANGED itemVars
  BY DEF VoidDocument, NextVersion
<1>2. /\ docStatus'[d] = "VOIDED" /\ amount' = amount
      /\ \A e \in Documents \ {d} : docStatus'[e] = docStatus[e]
  BY <1>1 DEF IInv, TypeOK
<1>3. amount[d].tx \in Nat \ {0}
  BY <1>1, AmountsAssumption DEF IInv, ItemsArePosted
<1>4. OriginalOf[d] # 0 /\ OpenOf[d] = OriginalOf[d]
  BY <1>1, <1>3 DEF OriginalOf, OpenOf, Issued
<1>5. \A s \in Settlements : d \notin DOMAIN ClaimsOf[s]
  <2>1. \A s \in Settlements : ~Live(s, d)
    BY <1>1, HeldBounds DEF IInv
  <2> QED
    BY <2>1 DEF ClaimsOf, Live, NoRows
<1>6. ClosedOf' = ClosedOf \cup {d}
  BY <1>2 DEF ClosedOf
<1>7. UNCHANGED <<OriginalOf, OpenOf, ClaimsOf, SpentOf>>
  BY <1>1, <1>2 DEF OriginalOf, OpenOf, ClaimsOf, SpentOf, Issued, itemVars
<1> QED
  BY <1>4, <1>5, <1>6, <1>7
     DEF Account!Close, OriginalOf, OpenOf, ClosedOf, ClaimsOf, SpentOf, Issued

LEMMA FinishSettles ==
  ASSUME IInv, NEW t \in Txns, FinishSettle(t)
  PROVE  Account!AccountNext
<1> DEFINE s == txn[t].settlement
           D == DOMAIN txn[t].takes
           takes == [d \in D |-> txn[t].takes[d].tx]
<1>1. /\ s \in Settlements /\ D \subseteq Documents
      /\ \A d \in D : takes[d] \in Nat \ {0}
  BY TakesTypes DEF IInv
<1>2. D # {}
  <2>1. txn[t].takes \in [D -> Row] /\ txn[t].takes # NoRows
    BY DEF IInv, FinishSettle, TypeOK, Idle, IsSettleTxn, IsRowSet
  <2>2. D = {} => txn[t].takes = [d \in {} |-> 0]
    BY <2>1
  <2> QED
    BY <2>1, <2>2 DEF NoRows
<1>3. paid[s] = "ABSENT" /\ \A d \in D : docStatus[d] = "POSTED"
  BY DEF FinishSettle, IInv, LocksHeld, ItemsArePosted
<1>4. /\ paid' = [paid EXCEPT ![s] = "POSTED"]
      /\ rows' = [rows EXCEPT ![s] = txn[t].takes]
      /\ \A d \in Documents : applied'[d] = IF d \in D THEN applied[d] + takes[d]
                                            ELSE applied[d]
      /\ UNCHANGED docVars
  BY DEF FinishSettle
<1>5. DOMAIN paid = Settlements /\ DOMAIN rows = Settlements
  BY DEF IInv, TypeOK
<1>6. \A d \in D : takes[d] <= amount[d].tx - applied[d]
  BY DEF FinishSettle, Admits, WithinBalance, RemainingTx
<1>7. \A d \in Documents : amount[d].tx \in Nat /\ applied[d] \in Nat
  BY AmountTypes DEF IInv
<1>8. ClaimsOf' = [ClaimsOf EXCEPT ![s] = takes]
  BY <1>1, <1>4, <1>5 DEF ClaimsOf
<1>9. SpentOf' = SpentOf \cup {s} /\ s \notin SpentOf
  BY <1>1, <1>3, <1>4, <1>5 DEF SpentOf
<1>10. UNCHANGED <<OriginalOf, ClosedOf>>
  BY <1>4 DEF docVars, OriginalOf, ClosedOf, Issued
<1> HIDE DEF s, takes, D
<1>11. OpenOf' = [d \in Documents |-> OpenOf[d] - (IF d \in D THEN takes[d] ELSE 0)]
  <2>1. \A d \in Documents :
          OpenOf'[d] = OpenOf[d] - (IF d \in D THEN takes[d] ELSE 0)
    BY <1>1, <1>3, <1>4, <1>7 DEF OpenOf, Issued, docVars
  <2>2. OpenOf' = [d \in Documents |-> OpenOf'[d]]
    BY DEF OpenOf
  <2> QED
    BY <2>1, <2>2
<1>12. \A d \in D : d \notin ClosedOf /\ takes[d] \in 1..OpenOf[d]
  BY <1>1, <1>3, <1>6, <1>7 DEF ClosedOf, OpenOf, Issued
<1>13. DOMAIN takes = D /\ takes \in [D -> UNION {1..OpenOf[d] : d \in D}]
  <2>1. DOMAIN takes = D /\ takes = [d \in D |-> takes[d]]
    BY DEF takes
  <2>2. \A d \in D : takes[d] \in UNION {1..OpenOf[e] : e \in D}
    BY <1>12
  <2> QED
    BY <2>1, <2>2
<1>14. Account!Settle(s, takes)
  BY <1>8, <1>9, <1>10, <1>11, <1>12, <1>13
     DEF Account!Settle, OriginalOf, OpenOf, ClosedOf, ClaimsOf, SpentOf, Issued
<1>15. D \in (SUBSET Documents) \ {{}}
  BY <1>1, <1>2
<1> HIDE DEF OpenOf
<1>16. \E r \in Settlements, E \in (SUBSET Documents) \ {{}} :
         \E x \in [E -> UNION {1..OpenOf[i] : i \in E}] : Account!Settle(r, x)
  <2>1. PICK r, E, x : r = s /\ E = D /\ x = takes
    OBVIOUS
  <2>2. r \in Settlements /\ E \in (SUBSET Documents) \ {{}}
    BY <1>1, <1>15, <2>1
  <2>3. x \in [E -> UNION {1..OpenOf[i] : i \in E}]
    BY <1>13, <2>1
  <2>4. Account!Settle(r, x)
    BY <1>14, <2>1 DEF Account!Settle
  <2> QED
    BY <2>2, <2>3, <2>4
<1> QED
  BY <1>16 DEF Account!AccountNext, OpenOf, Issued

LEMMA VoidTakesBack ==
  ASSUME IInv, NEW s \in Settlements, VoidSettlement(s)
  PROVE  Account!TakeBack(s)
<1>1. /\ paid[s] = "POSTED" /\ paid' = [paid EXCEPT ![s] = "VOIDED"] /\ rows' = rows
      /\ \A d \in Documents : applied'[d] = IF d \in DOMAIN rows[s]
                                            THEN applied[d] - rows[s][d].tx
                                            ELSE applied[d]
      /\ UNCHANGED docVars
  BY DEF VoidSettlement, MarkVoided
<1>2. DOMAIN paid = Settlements
  BY DEF IInv, TypeOK
<1>3. /\ rows[s] \in [DOMAIN rows[s] -> Row] /\ rows[s] # NoRows
      /\ DOMAIN rows[s] \subseteq Documents
  BY <1>1 DEF IInv, TypeOK, IsRowSet, PaidHasRows
<1>4. ClaimsOf[s] = [d \in DOMAIN rows[s] |-> rows[s][d].tx]
  BY <1>1 DEF ClaimsOf
<1>5. ClaimsOf[s] # NoRows
  <2>1. DOMAIN rows[s] = {} => rows[s] = [d \in {} |-> 0]
    BY <1>3
  <2>2. DOMAIN rows[s] # {}
    BY <1>3, <2>1 DEF NoRows
  <2>3. DOMAIN ClaimsOf[s] = DOMAIN rows[s] /\ DOMAIN NoRows = {}
    BY <1>4 DEF NoRows
  <2> QED
    BY <2>2, <2>3
<1>6. ClaimsOf' = [ClaimsOf EXCEPT ![s] = NoRows]
  BY <1>1, <1>2 DEF ClaimsOf
<1>7. UNCHANGED <<OriginalOf, ClosedOf, SpentOf>>
  BY <1>1, <1>2 DEF docVars, OriginalOf, ClosedOf, SpentOf, Issued
<1> DEFINE held(d) == IF d \in DOMAIN ClaimsOf[s] THEN ClaimsOf[s][d] ELSE 0
<1>8. \A d \in Documents : OpenOf'[d] = OpenOf[d] + held(d)
  <2> SUFFICES ASSUME NEW d \in Documents PROVE OpenOf'[d] = OpenOf[d] + held(d)
    OBVIOUS
  <2>1. amount[d].tx \in Nat /\ applied[d] \in Nat
    BY AmountTypes DEF IInv
  <2>2. CASE d \in DOMAIN rows[s]
    <3>1. docStatus[d] = "POSTED"
      BY <1>1, <2>2 DEF IInv, ItemsArePosted, Live
    <3>2. held(d) = rows[s][d].tx /\ rows[s][d].tx \in Nat
      BY <1>4, <2>2, HeldTypes DEF IInv
    <3> QED
      BY <1>1, <2>1, <2>2, <3>1, <3>2 DEF OpenOf, Issued, docVars
  <2>3. CASE d \notin DOMAIN rows[s]
    <3>1. held(d) = 0 /\ OpenOf'[d] = OpenOf[d]
      BY <1>1, <1>4, <2>3 DEF OpenOf, Issued, docVars
    <3>2. OpenOf[d] \in Int
      BY <2>1 DEF OpenOf
    <3> QED
      BY <3>1, <3>2
  <2> QED
    BY <2>2, <2>3
<1>9. OpenOf' = [d \in Documents |-> OpenOf[d] + held(d)]
  <2>1. OpenOf' = [d \in Documents |-> OpenOf'[d]]
    BY DEF OpenOf
  <2> HIDE DEF held
  <2> QED
    BY <1>8, <2>1
<1> QED
  BY <1>5, <1>6, <1>7, <1>9
     DEF Account!TakeBack, Account!Held, Account!Nothing, NoRows, OriginalOf, OpenOf,
         ClosedOf, ClaimsOf, SpentOf, Issued

LEMMA AccountStep ==
  ASSUME IInv, [Next]_vars
  PROVE  [Account!AccountNext]_Account!accountVars
<1>1. ASSUME UNCHANGED <<docVars, itemVars>> PROVE UNCHANGED Account!accountVars
  BY <1>1, Unseen DEF docVars
<1>2. ASSUME NEW d \in Documents, NEW a, NextVersion(d, "DRAFT", a), UNCHANGED itemVars,
             docStatus[d] \in {"ABSENT", "DRAFT"}
      PROVE  UNCHANGED Account!accountVars
  <2>1. docStatus'[d] = "DRAFT"
    BY <1>2 DEF NextVersion, IInv, TypeOK
  <2>2. \A e \in Documents \ {d} : docStatus'[e] = docStatus[e] /\ amount'[e] = amount[e]
    BY <1>2 DEF NextVersion, IInv, TypeOK
  <2>3. ~Issued(d) /\ ~Issued(d)'
    BY <1>2, <2>1 DEF Issued
  <2> QED
    BY <1>2, <2>2, <2>3, Unseen
<1>3. ASSUME NEW d \in Documents, NEW v \in 1..MaxVersion, Issue(d, v)
      PROVE  Account!AccountNext
  BY <1>3, IssueOpens DEF Account!AccountNext
<1>4. ASSUME NEW d \in Documents, NEW v \in 1..MaxVersion, VoidDocument(d, v)
      PROVE  Account!AccountNext
  BY <1>4, VoidCloses DEF Account!AccountNext
<1>5. ASSUME NEW s \in Settlements, VoidSettlement(s) PROVE Account!AccountNext
  BY <1>5, VoidTakesBack DEF Account!AccountNext
<1>6. ASSUME NEW d \in Documents, NEW a \in Amounts, CreateDraft(d, a)
      PROVE  UNCHANGED Account!accountVars
  BY <1>2, <1>6 DEF CreateDraft
<1>7. ASSUME NEW d \in Documents, NEW v \in 1..MaxVersion, NEW a \in Amounts,
             EditDraft(d, v, a)
      PROVE  UNCHANGED Account!accountVars
  BY <1>2, <1>7 DEF EditDraft
<1>8. CASE \/ UNCHANGED vars
           \/ \E d \in Documents : Review(d)
           \/ \E t \in Txns : EndWithoutEffect(t)
           \/ \E t \in Txns, s \in Settlements, D \in (SUBSET Documents) \ {{}} :
                \E wanted \in [D -> Parts] : BeginSettle(t, s, wanted)
  BY <1>1, <1>8 DEF vars, Review, EndWithoutEffect, BeginSettle
<1> QED
  BY <1>3, <1>4, <1>5, <1>6, <1>7, <1>8, FinishSettles, StepCases

\* Documents and settlements implement their party's account: whatever drafts,
\* refusals and open transactions do, a settlement is applied once and as a
\* whole to items that are open, and is taken back as a whole.
THEOREM ImplementsAccount == Spec => ImplementsPartyAccount
<1>1. Init => Account!AccountInit
  BY AccountStart
<1>2. IInv /\ [Next]_vars => [Account!AccountNext]_Account!accountVars
  BY AccountStep
<1> QED
  BY <1>1, <1>2, Inductive, PTL DEF Spec, ImplementsPartyAccount, Account!Spec
=============================================================================
