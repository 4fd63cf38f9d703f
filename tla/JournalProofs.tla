--------------------------- MODULE JournalProofs ----------------------------
(***************************************************************************)
(* TLAPS proofs about Journals, for every value of its constants.          *)
(***************************************************************************)
EXTENDS Journals, TLAPS

USE DEF Idle, Statuses, PendingStatuses, ClosedStates, PeriodStates

-----------------------------------------------------------------------------
(* Types.                                                                  *)

LEMMA TypeInit == Init => TypeOK
<1> SUFFICES ASSUME Init PROVE TypeOK
  OBVIOUS
<1>1. /\ status \in [Journals -> Statuses] /\ version \in [Journals -> Nat]
      /\ number \in [Journals -> Nat] /\ highest \in [Journals -> Nat]
      /\ periodState \in [Periods -> PeriodStates] /\ periodVersion \in [Periods -> Nat]
      /\ txn \in [Txns -> {Idle} \cup CreateTxn \cup UnpostTxn \cup MatchTxn]
  BY DEF Init
<1>2. \A j \in Journals : /\ number[j] = 0 /\ version[j] = 0
                           /\ status[j] = "ABSENT"
  BY DEF Init
<1>3. /\ approvals \subseteq Approval /\ receipts \subseteq Receipt
      /\ controls \subseteq Control /\ relations \subseteq Journals \X Journals
      /\ matched \subseteq Journals
  BY DEF Init
<1>4. nextNumber \in Nat \ {0} /\ manualMode \in PostingModes
  BY DEF Init
<1>5. selfApproval \in BOOLEAN
  BY Zenon DEF Init
<1>6. QED BY <1>1, <1>2, <1>3, <1>4, <1>5 DEF TypeOK

LEMMA CommandTypes ==
  ASSUME NEW j \in Journals
  PROVE  /\ PeriodOf(j) \in Periods
         /\ Maker(j) \in Actors
         /\ Command[j].of \in Journals
BY CommandAssumption DEF PeriodOf, Maker, Commands

LEMMA EnterBookType ==
  ASSUME TypeOK, NEW j \in Journals, EnterBook(j)
  PROVE  /\ status' \in [Journals -> Statuses]
         /\ number' \in [Journals -> Nat]
         /\ nextNumber' \in Nat \ {0}
         /\ status'[j] = "POSTED" /\ number'[j] # 0
         /\ \A i \in Journals \ {j} : status'[i] = status[i] /\ number'[i] = number[i]
BY DEF TypeOK, EnterBook, AllocatedNumber

LEMMA TypeNext == TypeOK /\ [Next]_vars => TypeOK'
<1> SUFFICES ASSUME TypeOK, [Next]_vars PROVE TypeOK'
  OBVIOUS
<1> USE DEF entryVars, workflowVars, adminVars, periodVars, policyVars
<1>1. ASSUME NEW t \in Txns, NEW j \in Journals, BeginCreate(t, j) PROVE TypeOK'
  BY <1>1 DEF TypeOK, BeginCreate, CreateTxn
<1>2. ASSUME NEW t \in Txns, InsertDraft(t) PROVE TypeOK'
  <2>1. txn[t].journal \in Journals
    BY <1>2 DEF TypeOK, InsertDraft, CreateTxn, UnpostTxn, MatchTxn
  <2>2. QED BY <1>2, <2>1 DEF TypeOK, InsertDraft
<1>3. ASSUME NEW t \in Txns, InsertPosted(t) PROVE TypeOK'
  <2>1. txn[t].journal \in Journals
    BY <1>3 DEF TypeOK, InsertPosted, CreateTxn, UnpostTxn, MatchTxn
  <2>2. QED BY <1>3, <2>1, EnterBookType DEF TypeOK, InsertPosted
<1>4. ASSUME NEW t \in Txns, EndWithoutEffect(t) PROVE TypeOK'
  BY <1>4 DEF TypeOK, EndWithoutEffect
<1>5. ASSUME NEW a \in Actors, NEW j \in Journals, NEW v \in 1..MaxVersion, Submit(a, j, v)
      PROVE TypeOK'
  BY <1>5, BoundsAssumption DEF TypeOK, Submit
<1>6. ASSUME NEW a \in Actors, NEW j \in Journals, NEW v \in 1..MaxVersion,
             NEW s \in {"UI", "MCP"}, Approve(a, j, v, s)
      PROVE TypeOK'
  <2>1. SelfApproves(a, j, s) \in BOOLEAN
    BY DEF SelfApproves, TypeOK
  <2>2. approvals' \subseteq Approval
    BY <1>6, <2>1, BoundsAssumption DEF TypeOK, Approve, Approval
  <2>3. QED BY <1>6, <2>2 DEF TypeOK, Approve
<1>7. ASSUME NEW a \in Actors, NEW j \in Journals, NEW v \in 1..MaxVersion,
             NEW k \in Keys, Withdraw(a, j, v, k)
      PROVE TypeOK'
  <2>1. receipts' \subseteq Receipt
    BY <1>7, BoundsAssumption DEF TypeOK, Withdraw, ReturnToDraft, Receipt
  <2>2. QED BY <1>7, <2>1 DEF TypeOK, Withdraw, ReturnToDraft
<1>8. ASSUME NEW a \in Actors, NEW j \in Journals, NEW v \in 1..MaxVersion,
             NEW k \in Keys, Reject(a, j, v, k)
      PROVE TypeOK'
  <2>1. receipts' \subseteq Receipt
    BY <1>8, BoundsAssumption DEF TypeOK, Reject, ReturnToDraft, Receipt
  <2>2. v \in Nat
    BY BoundsAssumption
  <2>3. [journal |-> j, version |-> v, actor |-> a, decision |-> "REJECTED",
         self |-> FALSE] \in Approval
    BY <2>2, Zenon DEF Approval
  <2>4. approvals' \subseteq Approval
    BY <1>8, <2>3, Zenon DEF TypeOK, Reject
  <2>5. QED BY <1>8, <2>1, <2>4 DEF TypeOK, Reject, ReturnToDraft
<1>9. ASSUME NEW a \in Actors, NEW j \in Journals, NEW v \in 0..MaxVersion, Post(a, j, v)
      PROVE TypeOK'
  BY <1>9, EnterBookType DEF TypeOK, Post
<1>10. ASSUME NEW a \in Actors, NEW j \in Journals, NEW k \in Keys, Delete(a, j, k)
       PROVE TypeOK'
  <2>1. controls' \subseteq Control
    BY <1>10 DEF TypeOK, Delete, Control
  <2>2. QED BY <1>10, <2>1 DEF TypeOK, Delete
<1>11. ASSUME NEW r \in Journals, Reverse(r) PROVE TypeOK'
  BY <1>11, EnterBookType, CommandTypes DEF TypeOK, Reverse
<1>12. ASSUME NEW t \in Txns, NEW a \in Actors, NEW j \in Journals, NEW k \in Keys,
              BeginUnpost(t, a, j, k)
       PROVE TypeOK'
  BY <1>12 DEF TypeOK, BeginUnpost, UnpostTxn
<1>13. ASSUME NEW t \in Txns, FinishUnpost(t) PROVE TypeOK'
  <2>1. txn[t].journal \in Journals /\ txn[t].key \in Keys
    BY <1>13 DEF TypeOK, FinishUnpost, CreateTxn, UnpostTxn, MatchTxn
  <2>2. controls' \subseteq Control
    BY <1>13, <2>1 DEF TypeOK, FinishUnpost, Control
  <2>3. QED BY <1>13, <2>1, <2>2 DEF TypeOK, FinishUnpost, LeaveBook
<1>14. ASSUME NEW t \in Txns, NEW j \in Journals, BeginMatch(t, j) PROVE TypeOK'
  BY <1>14 DEF TypeOK, BeginMatch, MatchTxn
<1>15. ASSUME NEW t \in Txns, FinishMatch(t) PROVE TypeOK'
  <2>1. txn[t].journal \in Journals
    BY <1>15 DEF TypeOK, FinishMatch, CreateTxn, UnpostTxn, MatchTxn
  <2>2. QED BY <1>15, <2>1 DEF TypeOK, FinishMatch
<1>16. ASSUME NEW a \in Actors, NEW p \in Periods, NEW v \in 1..MaxPeriodVersion,
              NEW to \in PeriodStates, TransitionPeriod(a, p, v, to)
       PROVE TypeOK'
  BY <1>16, BoundsAssumption DEF TypeOK, TransitionPeriod
<1>17. ASSUME NEW a \in Actors, NEW m \in PostingModes, SetPostingPolicy(a, m)
       PROVE TypeOK'
  BY <1>17 DEF TypeOK, SetPostingPolicy
<1>18. ASSUME NEW a \in Actors, NEW b \in BOOLEAN, SetSelfApproval(a, b) PROVE TypeOK'
  BY <1>18 DEF TypeOK, SetSelfApproval
<1>19. CASE UNCHANGED vars
  BY <1>19 DEF TypeOK, vars
<1>20. QED
  BY <1>1, <1>2, <1>3, <1>4, <1>5, <1>6, <1>7, <1>8, <1>9, <1>10, <1>11, <1>12,
     <1>13, <1>14, <1>15, <1>16, <1>17, <1>18, <1>19
  DEF Next, CreateStep, AdminStep, MatchStep, WorkflowStep, PolicyStep

\* The entries, the workflow tables and the periods keep their types, and the
\* columns that are NULL are exactly those of the status of each journal.
THEOREM TypeCorrect == Spec => []TypeOK
BY TypeInit, TypeNext, PTL DEF Spec

-----------------------------------------------------------------------------
(* The steps that matter to the ledger's rows, in one list.                *)

\* A step that leaves the entries and everything they are judged by alone.
Quiet == UNCHANGED <<status, version, number, approvals, highest, receipts,
                     controls, relations, nextNumber>>

LEMMA StepCases ==
  ASSUME [Next]_vars
  PROVE  \/ Quiet
         \/ \E t \in Txns : InsertDraft(t) \/ InsertPosted(t) \/ FinishUnpost(t)
         \/ \E a \in Actors, j \in Journals : WorkflowStep(a, j)
         \/ \E r \in Journals : Reverse(r)
<1> USE DEF Quiet, entryVars, workflowVars, adminVars, periodVars, policyVars
<1>1. CASE UNCHANGED vars
  BY <1>1 DEF vars
<1>2. ASSUME NEW t \in Txns, CreateStep(t) \/ AdminStep(t) \/ MatchStep(t) \/ EndWithoutEffect(t)
      PROVE  Quiet \/ InsertDraft(t) \/ InsertPosted(t) \/ FinishUnpost(t)
  <2>1. CASE CreateStep(t)
    BY <2>1 DEF CreateStep, BeginCreate
  <2>2. CASE AdminStep(t)
    BY <2>2 DEF AdminStep, BeginUnpost
  <2>3. CASE MatchStep(t)
    BY <2>3 DEF MatchStep, BeginMatch, FinishMatch
  <2>4. CASE EndWithoutEffect(t)
    BY <2>4 DEF EndWithoutEffect
  <2>5. QED BY <1>2, <2>1, <2>2, <2>3, <2>4
<1>3. ASSUME NEW a \in Actors, PolicyStep(a) PROVE Quiet
  BY <1>3 DEF PolicyStep, TransitionPeriod, SetPostingPolicy, SetSelfApproval
<1>4. QED BY <1>1, <1>2, <1>3 DEF Next

\* The journal of an open transaction.
LEMMA TxnJournal ==
  ASSUME TypeOK, NEW t \in Txns, txn[t].op \in {"create", "unpost", "match"}
  PROVE  txn[t].journal \in Journals
BY DEF TypeOK, CreateTxn, UnpostTxn, MatchTxn

-----------------------------------------------------------------------------
(* Four eyes.                                                              *)

LEMMA FourEyesNext ==
  ASSUME TypeOK, TypeOK', FourEyes, [Next]_vars
  PROVE  FourEyes'
<1> SUFFICES ASSUME NEW i \in Journals,
                    status'[i] \in {"APPROVED", "POSTED"}, version'[i] # 0
             PROVE  ApprovedAt(i, version[i])'
  BY DEF FourEyes
<1> USE DEF entryVars, workflowVars, adminVars
\* Nothing but a posting or an approval brings a journal where it must be
\* approved, and no step takes an approval back.
<1>1. ASSUME status'[i] = status[i], version'[i] = version[i], approvals \subseteq approvals'
      PROVE  ApprovedAt(i, version[i])'
  BY <1>1 DEF FourEyes, ApprovedAt
<1>2. CASE Quiet
  BY <1>1, <1>2 DEF Quiet
<1>3. ASSUME NEW t \in Txns, InsertDraft(t) PROVE ApprovedAt(i, version[i])'
  BY <1>3, <1>1, TxnJournal DEF InsertDraft, TypeOK
<1>4. ASSUME NEW t \in Txns, InsertPosted(t) PROVE ApprovedAt(i, version[i])'
  <2>1. txn[t].journal \in Journals
    BY <1>4, TxnJournal DEF InsertPosted
  <2>2. CASE i = txn[t].journal
    BY <1>4, <2>2 DEF InsertPosted, TypeOK
  <2>3. CASE i # txn[t].journal
    BY <1>4, <2>1, <2>3, <1>1, EnterBookType DEF InsertPosted
  <2>4. QED BY <2>2, <2>3
<1>5. ASSUME NEW t \in Txns, FinishUnpost(t) PROVE ApprovedAt(i, version[i])'
  BY <1>5, <1>1, TxnJournal DEF FinishUnpost, LeaveBook, TypeOK
<1>6. ASSUME NEW r \in Journals, Reverse(r) PROVE ApprovedAt(i, version[i])'
  <2>1. CASE i = r
    BY <1>6, <2>1 DEF Reverse, TypeOK
  <2>2. CASE i # r
    BY <1>6, <2>2, <1>1, EnterBookType DEF Reverse
  <2>3. QED BY <2>1, <2>2
<1>7. ASSUME NEW a \in Actors, NEW j \in Journals, WorkflowStep(a, j)
      PROVE  ApprovedAt(i, version[i])'
  <2>1. ASSUME NEW v \in 1..MaxVersion, Submit(a, j, v) PROVE ApprovedAt(i, version[i])'
    BY <2>1, <1>1 DEF Submit, TypeOK
  <2>2. ASSUME NEW v \in 1..MaxVersion, NEW s \in {"UI", "MCP"}, Approve(a, j, v, s)
        PROVE  ApprovedAt(i, version[i])'
    <3> DEFINE d == [journal |-> j, version |-> v, actor |-> a,
                     decision |-> "APPROVED", self |-> SelfApproves(a, j, s)]
    <3>1. d \in approvals' /\ approvals \subseteq approvals' /\ version' = version
      BY <2>2 DEF Approve
    <3>2. CASE i = j
      BY <2>2, <3>1, <3>2 DEF Approve, Independent, ApprovedAt
    <3>3. CASE i # j
      BY <2>2, <3>1, <3>3, <1>1 DEF Approve, TypeOK
    <3>4. QED BY <3>2, <3>3
  <2>3. ASSUME NEW v \in 1..MaxVersion, NEW k \in Keys, Withdraw(a, j, v, k)
        PROVE  ApprovedAt(i, version[i])'
    BY <2>3, <1>1 DEF Withdraw, ReturnToDraft, TypeOK
  <2>4. ASSUME NEW v \in 1..MaxVersion, NEW k \in Keys, Reject(a, j, v, k)
        PROVE  ApprovedAt(i, version[i])'
    BY <2>4, <1>1 DEF Reject, ReturnToDraft, TypeOK
  <2>5. ASSUME NEW v \in 0..MaxVersion, Post(a, j, v) PROVE ApprovedAt(i, version[i])'
    <3>1. CASE i = j
      BY <2>5, <3>1 DEF Post, ApprovedAt
    <3>2. CASE i # j
      BY <2>5, <3>2, <1>1, EnterBookType DEF Post
    <3>3. QED BY <3>1, <3>2
  <2>6. ASSUME NEW k \in Keys, Delete(a, j, k) PROVE ApprovedAt(i, version[i])'
    BY <2>6, <1>1 DEF Delete
  <2>7. QED BY <1>7, <2>1, <2>2, <2>3, <2>4, <2>5, <2>6 DEF WorkflowStep
<1>8. QED BY <1>2, <1>3, <1>4, <1>5, <1>6, <1>7, StepCases

\* Whatever is approved or posted out of the workflow carries an independent
\* approval of exactly its own version (or a self-approval that the agent
\* policy allowed), whatever the members do and in whatever order.
THEOREM FourEyesHolds == Spec => []FourEyes
<1>1. Init => FourEyes
  BY DEF Init, FourEyes
<1>2. TypeOK /\ TypeOK' /\ FourEyes /\ [Next]_vars => FourEyes'
  BY FourEyesNext
<1>3. QED BY <1>1, <1>2, TypeCorrect, PTL DEF Spec

-----------------------------------------------------------------------------
(* Outcomes of versions.                                                   *)

OutcomesInv == OneOutcomePerVersion /\ VersionsBounded

\* Steps that decide nothing: the workflow tables stay, and what is under
\* review afterwards was under review before, in the same version.
LEMMA OutcomesStay ==
  ASSUME OutcomesInv, UNCHANGED <<approvals, highest, receipts>>,
         \A i \in Journals : status'[i] \in {"SUBMITTED", "APPROVED"}
           => status'[i] = status[i] /\ version'[i] = version[i]
  PROVE  OutcomesInv'
<1>1. \A i \in Journals : \A v : /\ Approved(i, v)' = Approved(i, v)
                                 /\ Returned(i, v)' = Returned(i, v)
  BY DEF Approved, Returned
<1>2. OneOutcomePerVersion'
  BY <1>1 DEF OutcomesInv, OneOutcomePerVersion
<1>3. VersionsBounded'
  <2>1. ASSUME NEW i \in Journals, status'[i] \in {"SUBMITTED", "APPROVED"}
        PROVE  /\ version'[i] = highest'[i]
               /\ Returned(i, version[i])' = {}
               /\ status'[i] = "SUBMITTED" => Approved(i, version[i])' = {}
    BY <2>1 DEF OutcomesInv, VersionsBounded, Approved, Returned
  <2>2. QED BY <2>1 DEF OutcomesInv, VersionsBounded
<1>4. QED BY <1>2, <1>3 DEF OutcomesInv

LEMMA SubmitOutcomes ==
  ASSUME TypeOK, OutcomesInv, NEW a \in Actors, NEW j \in Journals,
         NEW v \in 1..MaxVersion, Submit(a, j, v)
  PROVE  OutcomesInv'
<1> USE BoundsAssumption DEF workflowVars
<1>1. /\ approvals' = approvals /\ receipts' = receipts
      /\ highest' = [highest EXCEPT ![j] = v]
      /\ status' = [status EXCEPT ![j] = "SUBMITTED"]
      /\ version' = [version EXCEPT ![j] = v]
  BY DEF Submit
<1>2. v > highest[j] /\ v \in Nat /\ highest[j] \in Nat
  BY DEF Submit, IsNextVersion, TypeOK
<1>3. \A i \in Journals : \A w : /\ Approved(i, w)' = Approved(i, w)
                                 /\ Returned(i, w)' = Returned(i, w)
  BY <1>1 DEF Approved, Returned
<1>4. OneOutcomePerVersion'
  BY <1>3 DEF OutcomesInv, OneOutcomePerVersion
<1>5. /\ \A d \in approvals : d.journal \in Journals /\ d.version \in Nat
      /\ \A r \in receipts : r.journal \in Journals /\ r.version \in Nat
  BY DEF TypeOK, Approval, Receipt
<1>6. /\ \A d \in approvals : d.version <= highest'[d.journal]
      /\ \A r \in receipts : r.version <= highest'[r.journal]
  BY <1>1, <1>2, <1>5 DEF OutcomesInv, VersionsBounded, TypeOK
<1>7. Approved(j, v) = {} /\ Returned(j, v) = {}
  BY <1>2, <1>5 DEF OutcomesInv, VersionsBounded, Approved, Returned
<1>8. ASSUME NEW i \in Journals, status'[i] \in {"SUBMITTED", "APPROVED"}
      PROVE  /\ version'[i] = highest'[i]
             /\ Returned(i, version'[i]) = {}
             /\ status'[i] = "SUBMITTED" => Approved(i, version'[i]) = {}
  BY <1>1, <1>7, <1>8 DEF TypeOK, OutcomesInv, VersionsBounded
<1>9. VersionsBounded'
  BY <1>1, <1>3, <1>6, <1>8 DEF VersionsBounded
<1>10. QED BY <1>4, <1>9 DEF OutcomesInv

LEMMA ApproveOutcomes ==
  ASSUME TypeOK, OutcomesInv, NEW a \in Actors, NEW j \in Journals,
         NEW v \in 1..MaxVersion, NEW s \in {"UI", "MCP"}, Approve(a, j, v, s)
  PROVE  OutcomesInv'
<1> USE BoundsAssumption DEF workflowVars
<1> DEFINE d == [journal |-> j, version |-> v, actor |-> a,
                 decision |-> "APPROVED", self |-> SelfApproves(a, j, s)]
<1>1. /\ approvals' = approvals \cup {d} /\ receipts' = receipts
      /\ highest' = highest /\ version' = version
      /\ status' = [status EXCEPT ![j] = "APPROVED"]
  BY DEF Approve
<1>2. v = version[j] /\ v = highest[j] /\ v \in Nat
      /\ Approved(j, v) = {} /\ Returned(j, v) = {}
  BY DEF Approve, TypeOK, OutcomesInv, VersionsBounded
<1>3. \A i \in Journals : \A w : Returned(i, w)' = Returned(i, w)
  BY <1>1 DEF Returned
<1>4. \A i \in Journals : \A w : ~(i = j /\ w = v) => Approved(i, w)' = Approved(i, w)
  BY <1>1 DEF Approved
<1>5. Approved(j, v)' = {d}
  BY <1>1, <1>2 DEF Approved
<1> HIDE DEF d
<1>6. OneOutcomePerVersion'
  BY <1>2, <1>3, <1>4, <1>5 DEF OutcomesInv, OneOutcomePerVersion
<1>7. /\ \A e \in approvals' : e.version <= highest'[e.journal]
      /\ \A r \in receipts' : r.version <= highest'[r.journal]
  BY <1>1, <1>2 DEF OutcomesInv, VersionsBounded, d
<1>8. ASSUME NEW i \in Journals, status'[i] \in {"SUBMITTED", "APPROVED"}
      PROVE  /\ version'[i] = highest'[i]
             /\ Returned(i, version'[i]) = {}
             /\ status'[i] = "SUBMITTED" => i # j /\ Approved(i, version'[i]) = {}
  BY <1>1, <1>2, <1>8 DEF TypeOK, OutcomesInv, VersionsBounded
<1>9. VersionsBounded'
  BY <1>1, <1>3, <1>4, <1>7, <1>8 DEF VersionsBounded
<1>10. QED BY <1>6, <1>9 DEF OutcomesInv

LEMMA ReturnOutcomes ==
  ASSUME TypeOK, OutcomesInv, NEW j \in Journals, NEW v \in 1..MaxVersion,
         NEW k \in Keys, NEW action \in {"withdraw", "reject"},
         ReturnToDraft(j, v, k, action), approvals \subseteq approvals',
         \A d \in approvals' \ approvals :
           d.decision # "APPROVED" /\ d.journal = j /\ d.version = v
  PROVE  OutcomesInv'
<1> USE BoundsAssumption
<1> DEFINE r == [key |-> k, journal |-> j, version |-> v, action |-> action]
<1>1. /\ receipts' = receipts \cup {r} /\ highest' = highest
      /\ status' = [status EXCEPT ![j] = "DRAFT"]
      /\ version' = [version EXCEPT ![j] = 0]
  BY DEF ReturnToDraft
<1>2. v = version[j] /\ v = highest[j] /\ v \in Nat
      /\ Approved(j, v) = {} /\ Returned(j, v) = {}
  BY DEF ReturnToDraft, TypeOK, OutcomesInv, VersionsBounded
<1>3. \A i \in Journals : \A w : Approved(i, w)' = Approved(i, w)
  BY DEF Approved
<1>4. \A i \in Journals : \A w : ~(i = j /\ w = v) => Returned(i, w)' = Returned(i, w)
  BY <1>1 DEF Returned
<1>5. Returned(j, v)' = {r}
  BY <1>1, <1>2 DEF Returned
<1> HIDE DEF r
<1>6. OneOutcomePerVersion'
  BY <1>2, <1>3, <1>4, <1>5 DEF OutcomesInv, OneOutcomePerVersion
<1>7. /\ \A e \in approvals' : e.version <= highest'[e.journal]
      /\ \A e \in receipts' : e.version <= highest'[e.journal]
  BY <1>1, <1>2 DEF OutcomesInv, VersionsBounded, r
<1>8. ASSUME NEW i \in Journals, status'[i] \in {"SUBMITTED", "APPROVED"}
      PROVE  /\ i # j /\ version'[i] = highest'[i]
             /\ Returned(i, version'[i]) = {}
             /\ status'[i] = "SUBMITTED" => Approved(i, version'[i]) = {}
  BY <1>1, <1>8 DEF TypeOK, OutcomesInv, VersionsBounded
<1>9. VersionsBounded'
  BY <1>1, <1>3, <1>4, <1>7, <1>8 DEF VersionsBounded
<1>10. QED BY <1>6, <1>9 DEF OutcomesInv

LEMMA OutcomesNext ==
  ASSUME TypeOK, OutcomesInv, [Next]_vars
  PROVE  OutcomesInv'
<1> USE DEF workflowVars
<1>1. CASE Quiet
  BY <1>1, OutcomesStay DEF Quiet
<1>2. ASSUME NEW t \in Txns, InsertDraft(t) PROVE OutcomesInv'
  BY <1>2, OutcomesStay, TxnJournal DEF InsertDraft, TypeOK
<1>3. ASSUME NEW t \in Txns, InsertPosted(t) PROVE OutcomesInv'
  BY <1>3, OutcomesStay, TxnJournal DEF InsertPosted, EnterBook, TypeOK
<1>4. ASSUME NEW t \in Txns, FinishUnpost(t) PROVE OutcomesInv'
  BY <1>4, OutcomesStay, TxnJournal DEF FinishUnpost, LeaveBook, TypeOK
<1>5. ASSUME NEW r \in Journals, Reverse(r) PROVE OutcomesInv'
  BY <1>5, OutcomesStay DEF Reverse, EnterBook, TypeOK
<1>6. ASSUME NEW a \in Actors, NEW j \in Journals, WorkflowStep(a, j) PROVE OutcomesInv'
  <2>1. ASSUME NEW v \in 1..MaxVersion, NEW k \in Keys, Withdraw(a, j, v, k)
        PROVE  OutcomesInv'
    <3>1. approvals' = approvals /\ ReturnToDraft(j, v, k, "withdraw")
      BY <2>1 DEF Withdraw
    <3>2. QED BY <3>1, ReturnOutcomes
  <2>2. ASSUME NEW v \in 1..MaxVersion, NEW k \in Keys, Reject(a, j, v, k)
        PROVE  OutcomesInv'
    <3> DEFINE d == [journal |-> j, version |-> v, actor |-> a,
                     decision |-> "REJECTED", self |-> FALSE]
    <3>1. approvals' = approvals \cup {d} /\ ReturnToDraft(j, v, k, "reject")
      BY <2>2 DEF Reject
    <3>2. d.decision # "APPROVED" /\ d.journal = j /\ d.version = v
      OBVIOUS
    <3> HIDE DEF d
    <3>3. QED BY <3>1, <3>2, ReturnOutcomes
  <2>3. ASSUME NEW v \in 0..MaxVersion, Post(a, j, v) PROVE OutcomesInv'
    BY <2>3, OutcomesStay DEF Post, EnterBook, TypeOK
  <2>4. ASSUME NEW k \in Keys, Delete(a, j, k) PROVE OutcomesInv'
    BY <2>4, OutcomesStay DEF Delete, entryVars
  <2>5. QED BY <1>6, <2>1, <2>2, <2>3, <2>4, SubmitOutcomes, ApproveOutcomes
            DEF WorkflowStep
<1>7. QED BY <1>1, <1>2, <1>3, <1>4, <1>5, <1>6, StepCases

\* A submitted version ends once: approved, withdrawn or rejected; a stale
\* decision can never reach the resubmission.
THEOREM OneOutcomeHolds == Spec => []OneOutcomePerVersion
<1>1. Init => OutcomesInv
  BY DEF Init, OutcomesInv, OneOutcomePerVersion, VersionsBounded, Approved, Returned
<1>2. TypeOK /\ OutcomesInv /\ [Next]_vars => OutcomesInv'
  BY OutcomesNext
<1>3. OutcomesInv => OneOutcomePerVersion
  BY DEF OutcomesInv
<1>4. QED BY <1>1, <1>2, <1>3, TypeCorrect, PTL DEF Spec

-----------------------------------------------------------------------------
(* Row locks, tombstones and reversals.                                    *)

RowsInv == UnpostHoldsRow /\ DeletedIsPending /\ ReversalPinsBook

\* A step that adds no unpost transaction, no relation and no tombstone, and
\* that lets go of no journal that one of them relies on.
LEMMA RowsStay ==
  ASSUME TypeOK, TypeOK', RowsInv, UNCHANGED relations,
         \A i \in Journals : Deleted(i)' => Deleted(i),
         \A i \in Journals : (RowLocked(i) \/ Related(i)) /\ status[i] = "POSTED"
           => status'[i] = "POSTED",
         \A i \in Journals : Deleted(i) => status'[i] = status[i],
         \A t \in Txns : txn'[t].op = "unpost" => txn'[t] = txn[t]
  PROVE  RowsInv'
<1>1. \A i \in Journals : Related(i)' = Related(i)
  BY DEF Related
<1>2. ASSUME NEW t \in Txns, txn'[t].op = "unpost"
      PROVE  /\ txn'[t] = txn[t] /\ txn[t].journal \in Journals
             /\ RowLocked(txn[t].journal)
  BY <1>2, TxnJournal DEF RowLocked
<1>3. UnpostHoldsRow'
  BY <1>1, <1>2 DEF RowsInv, UnpostHoldsRow
<1>4. DeletedIsPending'
  BY <1>1 DEF RowsInv, DeletedIsPending
<1>5. ASSUME NEW r \in relations
      PROVE  /\ status'[r[1]] = "POSTED" /\ status'[r[2]] = "POSTED"
             /\ ~Deleted(r[1])' /\ ~Deleted(r[2])'
  <2>1. r[1] \in Journals /\ r[2] \in Journals /\ Related(r[1]) /\ Related(r[2])
    BY DEF TypeOK, Related
  <2>2. QED BY <2>1 DEF RowsInv, ReversalPinsBook
<1>6. ReversalPinsBook'
  BY <1>5 DEF RowsInv, ReversalPinsBook
<1>7. QED BY <1>3, <1>4, <1>6 DEF RowsInv

\* The row of j is free: what changes in it concerns nobody else.
LEMMA RowsFree ==
  ASSUME TypeOK, TypeOK', RowsInv, UNCHANGED <<relations, controls>>,
         NEW j \in Journals, ~RowLocked(j), ~Deleted(j),
         status[j] # "POSTED" \/ status'[j] = "POSTED",
         \A i \in Journals \ {j} : status'[i] = status[i],
         \A t \in Txns : txn'[t].op = "unpost" => txn'[t] = txn[t]
  PROVE  RowsInv'
<1>1. \A i \in Journals : Deleted(i)' = Deleted(i)
  BY DEF Deleted
<1>2. QED BY <1>1, RowsStay

LEMMA BeginUnpostRows ==
  ASSUME TypeOK, RowsInv, NEW t \in Txns, NEW a \in Actors, NEW j \in Journals,
         NEW k \in Keys, BeginUnpost(t, a, j, k)
  PROVE  RowsInv'
<1> USE DEF entryVars, adminVars
<1>1. /\ txn' = [txn EXCEPT ![t] = [op |-> "unpost", journal |-> j, key |-> k]]
      /\ UNCHANGED <<status, controls, relations>>
      /\ status[j] = "POSTED" /\ ~Related(j) /\ ~RowLocked(j)
  BY DEF BeginUnpost, MayControl, Available
<1>2. \A i : Related(i)' = Related(i) /\ Deleted(i)' = Deleted(i)
  BY <1>1 DEF Related, Deleted
<1>3. \A u \in Txns \ {t} : txn'[u] = txn[u] /\ (txn[u].op = "unpost" => txn[u].journal # j)
  BY <1>1 DEF TypeOK, RowLocked
<1>4. txn'[t].op = "unpost" /\ txn'[t].journal = j
  BY <1>1 DEF TypeOK
<1>5. UnpostHoldsRow'
  BY <1>1, <1>2, <1>3, <1>4 DEF RowsInv, UnpostHoldsRow
<1>6. DeletedIsPending' /\ ReversalPinsBook'
  BY <1>1, <1>2 DEF RowsInv, DeletedIsPending, ReversalPinsBook
<1>7. QED BY <1>5, <1>6 DEF RowsInv

LEMMA FinishUnpostRows ==
  ASSUME TypeOK, TypeOK', RowsInv, NEW t \in Txns, FinishUnpost(t)
  PROVE  RowsInv'
<1> DEFINE j == txn[t].journal
<1>1. /\ txn' = [txn EXCEPT ![t] = Idle] /\ relations' = relations
      /\ status' = [status EXCEPT ![j] = "DRAFT"]
      /\ txn[t].op = "unpost" /\ j \in Journals
  BY TxnJournal DEF FinishUnpost, LeaveBook
<1>2. status[j] = "POSTED" /\ ~Related(j) /\ ~Deleted(j)
  BY <1>1 DEF RowsInv, UnpostHoldsRow, DeletedIsPending, PendingStatuses
<1>3. controls' = controls \cup {[key |-> txn[t].key, journal |-> j,
                                  outcome |-> "UNPOSTED", number |-> number[j]]}
  BY DEF FinishUnpost
<1>4. \A i \in Journals : Related(i)' = Related(i) /\ Deleted(i)' = Deleted(i)
  BY <1>1, <1>3 DEF Related, Deleted
<1> HIDE DEF j
<1>5. \A u \in Txns \ {t} : txn'[u] = txn[u] /\ (txn[u].op = "unpost" => txn[u].journal # j)
  BY <1>1 DEF TypeOK, RowsInv, UnpostHoldsRow, j
<1>6. txn'[t].op # "unpost"
  BY <1>1 DEF TypeOK
<1>7. UnpostHoldsRow'
  <2>1. ASSUME NEW u \in Txns, txn'[u].op = "unpost"
        PROVE  /\ u # t /\ txn'[u] = txn[u] /\ txn[u].journal \in Journals \ {j}
               /\ status'[txn[u].journal] = "POSTED"
               /\ ~Related(txn[u].journal)'
    <3>1. u # t /\ txn'[u] = txn[u] /\ txn[u].journal \in Journals \ {j}
      BY <2>1, <1>5, <1>6, TxnJournal
    <3>2. QED BY <2>1, <3>1, <1>1, <1>4 DEF RowsInv, UnpostHoldsRow, TypeOK
  <2>2. QED BY <2>1 DEF RowsInv, UnpostHoldsRow
<1>8. DeletedIsPending'
  BY <1>1, <1>2, <1>4 DEF RowsInv, DeletedIsPending, TypeOK, PendingStatuses
<1>9. ASSUME NEW r \in relations
      PROVE  /\ status'[r[1]] = "POSTED" /\ status'[r[2]] = "POSTED"
             /\ ~Deleted(r[1])' /\ ~Deleted(r[2])'
  <2>1. r[1] \in Journals \ {j} /\ r[2] \in Journals \ {j}
    BY <1>2 DEF TypeOK, Related
  <2>2. QED BY <2>1, <1>1, <1>4 DEF RowsInv, ReversalPinsBook, TypeOK
<1>10. ReversalPinsBook'
  BY <1>1, <1>9 DEF RowsInv, ReversalPinsBook
<1>11. QED BY <1>7, <1>8, <1>10 DEF RowsInv

LEMMA ReverseRows ==
  ASSUME TypeOK, TypeOK', RowsInv, NEW r \in Journals, Reverse(r)
  PROVE  RowsInv'
<1> DEFINE o == Command[r].of
<1>1. /\ relations' = relations \cup {<<r, o>>} /\ controls' = controls /\ txn' = txn
      /\ o \in Journals /\ status[o] = "POSTED" /\ ~RowLocked(o) /\ ~Reversed(o)
      /\ status[r] = "ABSENT"
  BY CommandTypes DEF Reverse
<1>2. status'[r] = "POSTED" /\ \A i \in Journals \ {r} : status'[i] = status[i]
  BY EnterBookType DEF Reverse
<1>3. \A i \in Journals : Deleted(i)' = Deleted(i)
  BY <1>1 DEF Deleted
<1>4. ~Deleted(r) /\ ~Deleted(o) /\ r # o
  BY <1>1 DEF RowsInv, DeletedIsPending, PendingStatuses
<1>5. \A i \in Journals : Related(i)' <=> Related(i) \/ i = r \/ i = o
  <2> DEFINE p == <<r, o>>
  <2>1. p[1] = r /\ p[2] = o
    OBVIOUS
  <2>2. relations' = relations \cup {p}
    BY <1>1
  <2> HIDE DEF p
  <2>3. QED BY <2>1, <2>2 DEF Related
<1> HIDE DEF o
<1>6. UnpostHoldsRow'
  <2>1. ASSUME NEW t \in Txns, txn[t].op = "unpost"
        PROVE  /\ txn[t].journal \in Journals /\ txn[t].journal # o
               /\ txn[t].journal # r
    BY <2>1, <1>1, TxnJournal DEF RowLocked, RowsInv, UnpostHoldsRow
  <2>2. QED BY <2>1, <1>1, <1>2, <1>5 DEF RowsInv, UnpostHoldsRow
<1>7. DeletedIsPending'
  BY <1>2, <1>3, <1>4, <1>5 DEF RowsInv, DeletedIsPending
<1>8. ASSUME NEW s \in relations'
      PROVE  /\ status'[s[1]] = "POSTED" /\ status'[s[2]] = "POSTED"
             /\ ~Deleted(s[1])' /\ ~Deleted(s[2])'
  <2>1. CASE s = <<r, o>>
    BY <2>1, <1>1, <1>2, <1>3, <1>4
  <2>2. CASE s \in relations
    BY <2>2, <1>1, <1>2, <1>3 DEF RowsInv, ReversalPinsBook, TypeOK
  <2>3. QED BY <1>1, <2>1, <2>2
<1>9. \A s, u \in relations' : s[2] = u[2] => s = u
  BY <1>1 DEF RowsInv, ReversalPinsBook, Reversed
<1>10. ReversalPinsBook'
  BY <1>8, <1>9 DEF ReversalPinsBook
<1>11. QED BY <1>6, <1>7, <1>10 DEF RowsInv

LEMMA RowsNext ==
  ASSUME TypeOK, TypeOK', RowsInv, [Next]_vars
  PROVE  RowsInv'
<1> USE DEF entryVars, workflowVars, adminVars, periodVars, policyVars
<1>1. CASE UNCHANGED <<status, controls, relations, txn>>
  <2>1. \A i \in Journals : Deleted(i)' = Deleted(i)
    BY <1>1 DEF Deleted
  <2>2. QED BY <1>1, <2>1, RowsStay
<1>2. ASSUME NEW t \in Txns, NEW j \in Journals, BeginCreate(t, j) \/ BeginMatch(t, j)
      PROVE  RowsInv'
  <2>1. /\ UNCHANGED <<status, controls, relations>>
        /\ \A u \in Txns : txn'[u].op = "unpost" => txn'[u] = txn[u]
    BY <1>2 DEF BeginCreate, BeginMatch, TypeOK
  <2>2. \A i \in Journals : Deleted(i)' = Deleted(i)
    BY <2>1 DEF Deleted
  <2>3. QED BY <2>1, <2>2, RowsStay
<1>3. ASSUME NEW t \in Txns, EndWithoutEffect(t) \/ FinishMatch(t) PROVE RowsInv'
  <2>1. /\ UNCHANGED <<status, controls, relations>>
        /\ \A u \in Txns : txn'[u].op = "unpost" => txn'[u] = txn[u]
    BY <1>3 DEF EndWithoutEffect, FinishMatch, TypeOK
  <2>2. \A i \in Journals : Deleted(i)' = Deleted(i)
    BY <2>1 DEF Deleted
  <2>3. QED BY <2>1, <2>2, RowsStay
<1>4. ASSUME NEW t \in Txns, InsertDraft(t) PROVE RowsInv'
  <2> DEFINE j == txn[t].journal
  <2>1. /\ j \in Journals /\ status[j] = "ABSENT" /\ status' = [status EXCEPT ![j] = "DRAFT"]
        /\ UNCHANGED <<controls, relations>> /\ txn' = [txn EXCEPT ![t] = Idle]
    BY <1>4, TxnJournal DEF InsertDraft
  <2>2. ~RowLocked(j) /\ ~Deleted(j)
    BY <2>1 DEF RowLocked, RowsInv, UnpostHoldsRow, DeletedIsPending
  <2> HIDE DEF j
  <2>3. /\ \A i \in Journals \ {j} : status'[i] = status[i]
        /\ \A u \in Txns : txn'[u].op = "unpost" => txn'[u] = txn[u]
    BY <2>1 DEF TypeOK
  <2>4. QED BY <2>1, <2>2, <2>3, RowsFree
<1>5. ASSUME NEW t \in Txns, InsertPosted(t) PROVE RowsInv'
  <2> DEFINE j == txn[t].journal
  <2>1. /\ j \in Journals /\ status[j] = "ABSENT" /\ EnterBook(j)
        /\ UNCHANGED <<controls, relations>> /\ txn' = [txn EXCEPT ![t] = Idle]
    BY <1>5, TxnJournal DEF InsertPosted
  <2>2. ~RowLocked(j) /\ ~Deleted(j)
    BY <2>1 DEF RowLocked, RowsInv, UnpostHoldsRow, DeletedIsPending
  <2> HIDE DEF j
  <2>3. /\ \A i \in Journals \ {j} : status'[i] = status[i]
        /\ \A u \in Txns : txn'[u].op = "unpost" => txn'[u] = txn[u]
    BY <2>1, EnterBookType DEF TypeOK
  <2>4. QED BY <2>1, <2>2, <2>3, RowsFree
<1>6. ASSUME NEW a \in Actors, NEW j \in Journals, WorkflowStep(a, j) PROVE RowsInv'
  <2>1. ASSUME NEW k \in Keys, Delete(a, j, k) PROVE RowsInv'
    <3>1. /\ ~Related(j) /\ status[j] \in PendingStatuses
          /\ UNCHANGED <<status, relations, txn>>
          /\ \A i \in Journals : Deleted(i)' => Deleted(i) \/ i = j
      BY <2>1 DEF Delete, MayControl, Deleted
    <3>2. \A i \in Journals : Related(i)' = Related(i)
      BY <3>1 DEF Related
    <3>3. UnpostHoldsRow' /\ DeletedIsPending'
      BY <3>1, <3>2, TxnJournal DEF RowsInv, UnpostHoldsRow, DeletedIsPending
    <3>4. ASSUME NEW r \in relations PROVE ~Deleted(r[1])' /\ ~Deleted(r[2])'
      <4>1. r[1] \in Journals \ {j} /\ r[2] \in Journals \ {j}
        BY <3>1 DEF TypeOK, Related
      <4>2. QED BY <4>1, <3>1 DEF RowsInv, ReversalPinsBook
    <3>5. ReversalPinsBook'
      BY <3>1, <3>4 DEF RowsInv, ReversalPinsBook
    <3>6. QED BY <3>3, <3>5 DEF RowsInv
  <2>2. ASSUME UNCHANGED <<controls, relations, txn>>, Available(j),
               status[j] \in PendingStatuses,
               \A i \in Journals \ {j} : status'[i] = status[i]
        PROVE  RowsInv'
    BY <2>2, RowsFree DEF Available
  <2>3. ASSUME NEW v \in 1..MaxVersion, Submit(a, j, v) PROVE RowsInv'
    BY <2>3, <2>2 DEF Submit, TypeOK
  <2>4. ASSUME NEW v \in 1..MaxVersion, NEW s \in {"UI", "MCP"}, Approve(a, j, v, s)
        PROVE  RowsInv'
    BY <2>4, <2>2 DEF Approve, TypeOK
  <2>5. ASSUME NEW v \in 1..MaxVersion, NEW k \in Keys,
               Withdraw(a, j, v, k) \/ Reject(a, j, v, k)
        PROVE  RowsInv'
    BY <2>5, <2>2 DEF Withdraw, Reject, ReturnToDraft, TypeOK
  <2>6. ASSUME NEW v \in 0..MaxVersion, Post(a, j, v) PROVE RowsInv'
    BY <2>6, <2>2, EnterBookType DEF Post
  <2>7. QED BY <1>6, <2>1, <2>3, <2>4, <2>5, <2>6 DEF WorkflowStep
<1>7. ASSUME NEW a \in Actors, PolicyStep(a) PROVE RowsInv'
  BY <1>7, <1>1 DEF PolicyStep, TransitionPeriod, SetPostingPolicy, SetSelfApproval
<1>8. ASSUME NEW t \in Txns, CreateStep(t) \/ AdminStep(t) \/ MatchStep(t) \/ EndWithoutEffect(t)
      PROVE  RowsInv'
  <2>1. CASE CreateStep(t)
    BY <2>1, <1>2, <1>4, <1>5 DEF CreateStep
  <2>2. CASE AdminStep(t)
    BY <2>2, BeginUnpostRows, FinishUnpostRows DEF AdminStep
  <2>3. CASE MatchStep(t)
    BY <2>3, <1>2, <1>3 DEF MatchStep
  <2>4. QED BY <1>8, <2>1, <2>2, <2>3, <1>3
<1>9. CASE UNCHANGED vars
  BY <1>9, <1>1 DEF vars
<1>10. QED BY <1>6, <1>7, <1>8, <1>9, ReverseRows DEF Next

LEMMA RowsHold == Spec => []RowsInv
<1>1. Init => RowsInv
  BY DEF Init, RowsInv, UnpostHoldsRow, DeletedIsPending, ReversalPinsBook, Deleted
<1>2. TypeOK /\ TypeOK' /\ RowsInv /\ [Next]_vars => RowsInv'
  BY RowsNext
<1>3. QED BY <1>1, <1>2, TypeCorrect, PTL DEF Spec

\* A reversal and an unpost of one journal never both take effect, and an
\* original is reversed at most once.
THEOREM ReversalPins == Spec => []ReversalPinsBook
<1>1. RowsInv => ReversalPinsBook
  BY DEF RowsInv
<1>2. QED BY <1>1, RowsHold, PTL

-----------------------------------------------------------------------------
(* Journal numbers.                                                        *)

NumbersInv == NumbersBounded /\ NumbersAccountedFor

LEMMA NumbersStay ==
  ASSUME NumbersInv, UNCHANGED <<number, nextNumber>>,
         \A i \in Journals : status'[i] = "POSTED" <=> status[i] = "POSTED",
         \A c \in controls' \ controls : c.outcome # "UNPOSTED",
         controls \subseteq controls'
  PROVE  NumbersInv'
<1>1. \A n : Holders(n)' = Holders(n) /\ GivenUp(n)' = GivenUp(n)
  BY DEF Holders, GivenUp
<1>2. NumbersBounded'
  BY DEF NumbersInv, NumbersBounded
<1>3. NumbersAccountedFor'
  BY <1>1 DEF NumbersInv, NumbersAccountedFor
<1>4. QED BY <1>2, <1>3 DEF NumbersInv

LEMMA EnterBookNumbers ==
  ASSUME TypeOK, TypeOK', NumbersInv, NEW j \in Journals, status[j] # "POSTED",
         EnterBook(j), controls' = controls
  PROVE  NumbersInv'
<1> USE BoundsAssumption
<1> PICK m : m = nextNumber
  OBVIOUS
<1>1. /\ nextNumber <= MaxNumber /\ nextNumber \in Nat \ {0}
      /\ nextNumber' = nextNumber + 1
      /\ status'[j] = "POSTED" /\ number'[j] = nextNumber
      /\ \A i \in Journals \ {j} : status'[i] = status[i] /\ number'[i] = number[i]
  BY DEF EnterBook, AllocatedNumber, TypeOK
<1>2. number[j] = 0 /\ \A i \in Journals : number[i] \in Nat /\ number[i] < nextNumber
  BY DEF TypeOK, NumbersInv, NumbersBounded
<1>3. NumbersBounded'
  <2>1. nextNumber' <= MaxNumber + 1
    BY <1>1
  <2>2. \A i \in Journals : number'[i] < nextNumber'
    BY <1>1, <1>2
  <2>3. \A c \in controls : c.outcome = "UNPOSTED" => c.number \in 1..(nextNumber' - 1)
    BY <1>1 DEF NumbersInv, NumbersBounded, TypeOK, Control
  <2>4. QED BY <2>1, <2>2, <2>3 DEF NumbersBounded
<1>4. \A n \in Nat : n # m => Holders(n)' = Holders(n)
  BY <1>1, <1>2 DEF Holders
<1>5. Holders(m)' = {j}
  <2>1. \A i \in Journals \ {j} : number[i] # m
    BY <1>1, <1>2
  <2>2. QED BY <1>1, <2>1 DEF Holders
<1>6. \A n : GivenUp(n)' = GivenUp(n)
  BY DEF GivenUp
<1>7. GivenUp(m) = {}
  BY <1>1 DEF GivenUp, NumbersInv, NumbersBounded
<1>8. ASSUME NEW n \in 1..MaxNumber
      PROVE  /\ n < nextNumber' <=> Holders(n)' # {} \/ GivenUp(n)' # {}
             /\ Holders(n)' = {} \/ GivenUp(n)' = {}
             /\ \A x, y \in Holders(n)' : x = y
             /\ \A c, d \in GivenUp(n)' : c = d
  <2>1. CASE n = m
    BY <2>1, <1>1, <1>5, <1>6, <1>7
  <2>2. CASE n # m
    <3>1. n < nextNumber' <=> n < nextNumber
      BY <2>2, <1>1
    <3>2. Holders(n)' = Holders(n) /\ GivenUp(n)' = GivenUp(n)
      BY <2>2, <1>4, <1>6
    <3>3. QED BY <3>1, <3>2 DEF NumbersInv, NumbersAccountedFor
  <2>3. QED BY <2>1, <2>2
<1>9. NumbersAccountedFor'
  BY <1>8 DEF NumbersAccountedFor
<1>10. QED BY <1>3, <1>9 DEF NumbersInv

LEMMA FinishUnpostNumbers ==
  ASSUME TypeOK, TypeOK', NumbersInv, UnpostHoldsRow, NEW t \in Txns, FinishUnpost(t)
  PROVE  NumbersInv'
<1> USE BoundsAssumption
<1> PICK j : j = txn[t].journal
  OBVIOUS
<1> PICK m : m = number[j]
  OBVIOUS
<1> PICK c0 : c0 = [key |-> txn[t].key, journal |-> j, outcome |-> "UNPOSTED", number |-> m]
  OBVIOUS
<1>1. /\ j \in Journals /\ status[j] = "POSTED" /\ m \in Nat \ {0} /\ m < nextNumber
      /\ nextNumber' = nextNumber /\ nextNumber \in Nat /\ nextNumber <= MaxNumber + 1
  BY TxnJournal DEF FinishUnpost, UnpostHoldsRow, TypeOK, NumbersInv, NumbersBounded
<1>2. /\ status'[j] = "DRAFT" /\ number'[j] = 0
      /\ \A i \in Journals \ {j} : status'[i] = status[i] /\ number'[i] = number[i]
  BY <1>1 DEF FinishUnpost, LeaveBook, TypeOK
<1>3. controls' = controls \cup {c0}
  BY DEF FinishUnpost
<1>4. c0.outcome = "UNPOSTED" /\ c0.number = m
  OBVIOUS
<1>5. m \in 1..MaxNumber /\ j \in Holders(m)
  BY <1>1 DEF Holders
<1>6. GivenUp(m) = {} /\ Holders(m) = {j}
  BY <1>5 DEF NumbersInv, NumbersAccountedFor
<1>7. Holders(m)' = {} /\ \A n : n # m => Holders(n)' = Holders(n)
  BY <1>1, <1>2, <1>6 DEF Holders
<1>8. GivenUp(m)' = {c0} /\ \A n : n # m => GivenUp(n)' = GivenUp(n)
  BY <1>3, <1>4, <1>6 DEF GivenUp
<1>9. NumbersBounded'
  <2>1. \A i \in Journals : number'[i] < nextNumber'
    BY <1>1, <1>2 DEF NumbersInv, NumbersBounded
  <2>2. \A c \in controls' : c.outcome = "UNPOSTED" => c.number \in 1..(nextNumber' - 1)
    BY <1>1, <1>3, <1>4 DEF NumbersInv, NumbersBounded
  <2>3. QED BY <1>1, <2>1, <2>2 DEF NumbersBounded
<1>10. ASSUME NEW n \in 1..MaxNumber
       PROVE  /\ n < nextNumber' <=> Holders(n)' # {} \/ GivenUp(n)' # {}
              /\ Holders(n)' = {} \/ GivenUp(n)' = {}
              /\ \A x, y \in Holders(n)' : x = y
              /\ \A c, d \in GivenUp(n)' : c = d
  <2>1. CASE n = m
    BY <2>1, <1>1, <1>7, <1>8
  <2>2. CASE n # m
    BY <2>2, <1>1, <1>7, <1>8 DEF NumbersInv, NumbersAccountedFor
  <2>3. QED BY <2>1, <2>2
<1>11. NumbersAccountedFor'
  BY <1>10 DEF NumbersAccountedFor
<1>12. QED BY <1>9, <1>11 DEF NumbersInv

LEMMA NumbersNext ==
  ASSUME TypeOK, TypeOK', UnpostHoldsRow, NumbersInv, [Next]_vars
  PROVE  NumbersInv'
<1> USE DEF entryVars, workflowVars, adminVars
<1>1. CASE Quiet
  BY <1>1, NumbersStay DEF Quiet
<1>2. ASSUME NEW t \in Txns, InsertDraft(t) PROVE NumbersInv'
  BY <1>2, NumbersStay, TxnJournal DEF InsertDraft, TypeOK
<1>3. ASSUME NEW t \in Txns, InsertPosted(t) PROVE NumbersInv'
  BY <1>3, EnterBookNumbers, TxnJournal DEF InsertPosted
<1>4. ASSUME NEW r \in Journals, Reverse(r) PROVE NumbersInv'
  BY <1>4, EnterBookNumbers DEF Reverse
<1>5. ASSUME NEW a \in Actors, NEW j \in Journals, WorkflowStep(a, j) PROVE NumbersInv'
  <2>1. ASSUME NEW v \in 1..MaxVersion, Submit(a, j, v) PROVE NumbersInv'
    BY <2>1, NumbersStay DEF Submit, TypeOK
  <2>2. ASSUME NEW v \in 1..MaxVersion, NEW s \in {"UI", "MCP"}, Approve(a, j, v, s)
        PROVE  NumbersInv'
    BY <2>2, NumbersStay DEF Approve, TypeOK
  <2>3. ASSUME NEW v \in 1..MaxVersion, NEW k \in Keys,
               Withdraw(a, j, v, k) \/ Reject(a, j, v, k)
        PROVE  NumbersInv'
    BY <2>3, NumbersStay DEF Withdraw, Reject, ReturnToDraft, TypeOK
  <2>4. ASSUME NEW v \in 0..MaxVersion, Post(a, j, v) PROVE NumbersInv'
    BY <2>4, EnterBookNumbers DEF Post
  <2>5. ASSUME NEW k \in Keys, Delete(a, j, k) PROVE NumbersInv'
    BY <2>5, NumbersStay DEF Delete
  <2>6. QED BY <1>5, <2>1, <2>2, <2>3, <2>4, <2>5 DEF WorkflowStep
<1>6. QED BY <1>1, <1>2, <1>3, <1>4, <1>5, FinishUnpostNumbers, StepCases

\* Every journal number ever issued is accounted for exactly once, by the
\* posted journal that has it or by the unpost that gave it up.
THEOREM NumbersAccounted == Spec => []NumbersAccountedFor
<1>1. Init => NumbersInv
  BY BoundsAssumption DEF Init, NumbersInv, NumbersBounded, NumbersAccountedFor, Holders, GivenUp
<1>2. TypeOK /\ TypeOK' /\ RowsInv /\ NumbersInv /\ [Next]_vars => NumbersInv'
  BY NumbersNext DEF RowsInv
<1>3. NumbersInv => NumbersAccountedFor
  BY DEF NumbersInv
<1>4. QED BY <1>1, <1>2, <1>3, TypeCorrect, RowsHold, PTL DEF Spec

-----------------------------------------------------------------------------
(* Periods.                                                                *)

\* No journal comes under review, and no period changes.
LEMMA ReviewStays ==
  ASSUME ReviewKeepsPeriodOpen, UNCHANGED periodState, controls \subseteq controls',
         \A i \in Journals : status'[i] \in {"SUBMITTED", "APPROVED"}
           => status'[i] = status[i]
  PROVE  ReviewKeepsPeriodOpen'
<1>1. \A i \in Journals : Deleted(i) => Deleted(i)'
  BY DEF Deleted
<1>2. \A i \in Journals : PeriodOf(i)' = PeriodOf(i)
  BY DEF PeriodOf
<1>3. QED BY <1>1, <1>2 DEF ReviewKeepsPeriodOpen

\* One journal comes under review, or moves on in it, in an admissible period.
LEMMA ReviewBegins ==
  ASSUME TypeOK, ReviewKeepsPeriodOpen, UNCHANGED <<periodState, controls>>,
         NEW j \in Journals, Eligible(j),
         \A i \in Journals \ {j} : status'[i] = status[i]
  PROVE  ReviewKeepsPeriodOpen'
<1>1. \A i \in Journals : Deleted(i)' = Deleted(i) /\ PeriodOf(i)' = PeriodOf(i)
  BY DEF Deleted, PeriodOf
<1>2. periodState[PeriodOf(j)] \notin ClosedStates
  BY DEF Eligible
<1>3. QED BY <1>1, <1>2 DEF ReviewKeepsPeriodOpen

LEMMA ReviewNext ==
  ASSUME TypeOK, TypeOK', ReviewKeepsPeriodOpen, [Next]_vars
  PROVE  ReviewKeepsPeriodOpen'
<1> USE DEF entryVars, workflowVars, adminVars, periodVars, policyVars
<1>1. CASE UNCHANGED <<status, controls, periodState>>
  BY <1>1, ReviewStays
<1>2. ASSUME NEW t \in Txns, CreateStep(t) PROVE ReviewKeepsPeriodOpen'
  <2>1. ASSUME NEW j \in Journals, BeginCreate(t, j) PROVE ReviewKeepsPeriodOpen'
    BY <2>1, <1>1 DEF BeginCreate
  <2>2. CASE InsertDraft(t)
    BY <2>2, ReviewStays, TxnJournal DEF InsertDraft, TypeOK
  <2>3. CASE InsertPosted(t)
    BY <2>3, ReviewStays, TxnJournal DEF InsertPosted, EnterBook, TypeOK
  <2>4. QED BY <1>2, <2>1, <2>2, <2>3 DEF CreateStep
<1>3. ASSUME NEW t \in Txns, AdminStep(t) PROVE ReviewKeepsPeriodOpen'
  <2>1. CASE FinishUnpost(t)
    BY <2>1, ReviewStays, TxnJournal DEF FinishUnpost, LeaveBook, TypeOK
  <2>2. QED BY <1>3, <2>1, <1>1 DEF AdminStep, BeginUnpost
<1>4. ASSUME NEW t \in Txns, MatchStep(t) \/ EndWithoutEffect(t)
      PROVE  ReviewKeepsPeriodOpen'
  BY <1>4, <1>1 DEF MatchStep, BeginMatch, FinishMatch, EndWithoutEffect
<1>5. ASSUME NEW a \in Actors, NEW j \in Journals, WorkflowStep(a, j)
      PROVE  ReviewKeepsPeriodOpen'
  <2>1. ASSUME NEW v \in 1..MaxVersion, Submit(a, j, v) PROVE ReviewKeepsPeriodOpen'
    BY <2>1, ReviewBegins DEF Submit, TypeOK
  <2>2. ASSUME NEW v \in 1..MaxVersion, NEW s \in {"UI", "MCP"}, Approve(a, j, v, s)
        PROVE  ReviewKeepsPeriodOpen'
    BY <2>2, ReviewBegins DEF Approve, TypeOK
  <2>3. ASSUME NEW v \in 1..MaxVersion, NEW k \in Keys,
               Withdraw(a, j, v, k) \/ Reject(a, j, v, k)
        PROVE  ReviewKeepsPeriodOpen'
    BY <2>3, ReviewStays DEF Withdraw, Reject, ReturnToDraft, TypeOK
  <2>4. ASSUME NEW v \in 0..MaxVersion, Post(a, j, v) PROVE ReviewKeepsPeriodOpen'
    BY <2>4, ReviewStays DEF Post, EnterBook, TypeOK
  <2>5. ASSUME NEW k \in Keys, Delete(a, j, k) PROVE ReviewKeepsPeriodOpen'
    BY <2>5, ReviewStays DEF Delete
  <2>6. QED BY <1>5, <2>1, <2>2, <2>3, <2>4, <2>5 DEF WorkflowStep
<1>6. ASSUME NEW r \in Journals, Reverse(r) PROVE ReviewKeepsPeriodOpen'
  BY <1>6, ReviewStays DEF Reverse, EnterBook, TypeOK
<1>7. ASSUME NEW a \in Actors, PolicyStep(a) PROVE ReviewKeepsPeriodOpen'
  <2>1. ASSUME NEW p \in Periods, NEW v \in 1..MaxPeriodVersion, NEW to \in PeriodStates,
               TransitionPeriod(a, p, v, to)
        PROVE  ReviewKeepsPeriodOpen'
    <3>1. /\ periodState' = [periodState EXCEPT ![p] = to]
          /\ UNCHANGED <<status, controls>>
          /\ to \in ClosedStates => PendingIn(p) = {}
      BY <2>1 DEF TransitionPeriod
    <3>2. SUFFICES ASSUME NEW i \in Journals, status[i] \in {"SUBMITTED", "APPROVED"},
                          ~Deleted(i), periodState'[PeriodOf(i)] \in ClosedStates
                   PROVE  FALSE
      BY <3>1 DEF ReviewKeepsPeriodOpen, Deleted, PeriodOf
    <3>3. CASE PeriodOf(i) = p
      BY <3>1, <3>2, <3>3, CommandTypes DEF PendingIn, TypeOK
    <3>4. CASE PeriodOf(i) # p
      BY <3>1, <3>2, <3>4, CommandTypes DEF ReviewKeepsPeriodOpen, TypeOK
    <3>5. QED BY <3>3, <3>4
  <2>2. QED BY <1>7, <2>1, <1>1 DEF PolicyStep, SetPostingPolicy, SetSelfApproval
<1>8. CASE UNCHANGED vars
  BY <1>8, <1>1 DEF vars
<1>9. QED BY <1>2, <1>3, <1>4, <1>5, <1>6, <1>7, <1>8 DEF Next

\* While a journal waits for its review or for its posting, its period cannot
\* be closed, and nothing is submitted into a closed period.
THEOREM ReviewHoldsPeriod == Spec => []ReviewKeepsPeriodOpen
<1>1. Init => ReviewKeepsPeriodOpen
  BY DEF Init, ReviewKeepsPeriodOpen
<1>2. TypeOK /\ TypeOK' /\ ReviewKeepsPeriodOpen /\ [Next]_vars => ReviewKeepsPeriodOpen'
  BY ReviewNext
<1>3. QED BY <1>1, <1>2, TypeCorrect, PTL DEF Spec

-----------------------------------------------------------------------------
(* What a step may never do.                                               *)

LEMMA ClosedBookStep ==
  ASSUME TypeOK, [Next]_vars, NEW j \in Journals,
         status[j] # "POSTED", status'[j] = "POSTED"
  PROVE  periodState[PeriodOf(j)] \notin ClosedStates
<1> USE DEF MayPostInto, Eligible
<1>1. CASE Quiet
  BY <1>1 DEF Quiet
<1>2. ASSUME NEW t \in Txns, InsertDraft(t) \/ FinishUnpost(t) PROVE FALSE
  BY <1>2, TxnJournal DEF InsertDraft, FinishUnpost, LeaveBook, TypeOK
<1>3. ASSUME NEW t \in Txns, InsertPosted(t)
      PROVE  periodState[PeriodOf(j)] \notin ClosedStates
  <2>1. j = txn[t].journal
    BY <1>3, TxnJournal DEF InsertPosted, EnterBook, TypeOK
  <2>2. QED BY <1>3, <2>1 DEF InsertPosted
<1>4. ASSUME NEW r \in Journals, Reverse(r)
      PROVE  periodState[PeriodOf(j)] \notin ClosedStates
  BY <1>4, EnterBookType DEF Reverse
<1>5. ASSUME NEW a \in Actors, NEW i \in Journals, WorkflowStep(a, i)
      PROVE  periodState[PeriodOf(j)] \notin ClosedStates
  <2>1. ASSUME NEW v \in 0..MaxVersion, Post(a, i, v)
        PROVE  periodState[PeriodOf(j)] \notin ClosedStates
    BY <2>1, EnterBookType DEF Post
  <2>2. ASSUME NEW v, NEW k, NEW s,
               \/ Submit(a, i, v) \/ Approve(a, i, v, s) \/ Delete(a, i, k)
               \/ Withdraw(a, i, v, k) \/ Reject(a, i, v, k)
        PROVE  FALSE
    BY <2>2 DEF Submit, Approve, Delete, Withdraw, Reject, ReturnToDraft, TypeOK, entryVars
  <2>3. QED BY <1>5, <2>1, <2>2 DEF WorkflowStep
<1>6. QED BY <1>1, <1>2, <1>3, <1>4, <1>5, StepCases

\* No path posts into a closed period, not even an automatic posting or a
\* reversal that read the period before somebody closed it.
THEOREM ClosedBook == Spec => ClosedBookNeverGrows
<1>1. ASSUME TypeOK, [Next]_vars
      PROVE  [\A j \in Journals : status[j] # "POSTED" /\ status'[j] = "POSTED"
               => periodState[PeriodOf(j)] \notin ClosedStates]_vars
  BY <1>1, ClosedBookStep
<1>2. QED BY <1>1, TypeCorrect, PTL DEF Spec, ClosedBookNeverGrows

LEMMA TombstoneStep ==
  ASSUME TypeOK, TypeOK', RowsInv, RowsInv', [Next]_vars,
         NEW j \in Journals, Deleted(j)
  PROVE  /\ status'[j] = status[j] /\ version'[j] = version[j]
         /\ number'[j] = number[j] /\ ~Related(j)'
<1> USE DEF entryVars, workflowVars, adminVars
<1>1. status[j] \in PendingStatuses
  BY DEF RowsInv, DeletedIsPending
<1>2. controls \subseteq controls'
  <2>1. CASE Quiet
    BY <2>1 DEF Quiet
  <2>2. ASSUME NEW t \in Txns, InsertDraft(t) \/ InsertPosted(t) \/ FinishUnpost(t)
        PROVE  controls \subseteq controls'
    BY <2>2 DEF InsertDraft, InsertPosted, FinishUnpost
  <2>3. ASSUME NEW a \in Actors, NEW i \in Journals, WorkflowStep(a, i)
        PROVE  controls \subseteq controls'
    BY <2>3 DEF WorkflowStep, Submit, Approve, Withdraw, Reject, ReturnToDraft, Post, Delete
  <2>4. ASSUME NEW r \in Journals, Reverse(r) PROVE controls \subseteq controls'
    BY <2>4 DEF Reverse
  <2>5. QED BY <2>1, <2>2, <2>3, <2>4, StepCases
<1>3. ~Related(j)'
  BY <1>2 DEF Deleted, RowsInv, DeletedIsPending
<1>4. CASE Quiet
  BY <1>3, <1>4 DEF Quiet
<1>5. ASSUME NEW i \in Journals, i # j,
             \A k \in Journals \ {i} : /\ status'[k] = status[k]
                                      /\ version'[k] = version[k]
                                      /\ number'[k] = number[k]
      PROVE  status'[j] = status[j] /\ version'[j] = version[j] /\ number'[j] = number[j]
  BY <1>5
<1>6. ASSUME NEW t \in Txns, InsertDraft(t) \/ InsertPosted(t) \/ FinishUnpost(t)
      PROVE  status'[j] = status[j] /\ version'[j] = version[j] /\ number'[j] = number[j]
  <2>1. txn[t].journal \in Journals
    BY <1>6, TxnJournal DEF InsertDraft, InsertPosted, FinishUnpost
  <2>2. txn[t].journal # j
    BY <1>6, <1>1 DEF InsertDraft, InsertPosted, FinishUnpost, RowsInv, UnpostHoldsRow
  <2>3. CASE InsertDraft(t)
    BY <2>1, <2>2, <2>3 DEF InsertDraft, TypeOK
  <2>4. CASE InsertPosted(t)
    BY <2>1, <2>2, <2>4, EnterBookType DEF InsertPosted
  <2>5. CASE FinishUnpost(t)
    BY <2>1, <2>2, <2>5 DEF FinishUnpost, LeaveBook, TypeOK
  <2>6. QED BY <1>6, <2>3, <2>4, <2>5
<1>7. ASSUME NEW a \in Actors, NEW i \in Journals, WorkflowStep(a, i)
      PROVE  status'[j] = status[j] /\ version'[j] = version[j] /\ number'[j] = number[j]
  <2>1. ASSUME NEW k \in Keys, Delete(a, i, k)
        PROVE  status'[j] = status[j] /\ version'[j] = version[j] /\ number'[j] = number[j]
    BY <2>1 DEF Delete
  <2>2. ASSUME NEW v \in 1..MaxVersion, Submit(a, i, v)
        PROVE  status'[j] = status[j] /\ version'[j] = version[j] /\ number'[j] = number[j]
    BY <2>2, <1>5 DEF Submit, Available, TypeOK
  <2>3. ASSUME NEW v \in 1..MaxVersion, NEW s \in {"UI", "MCP"}, Approve(a, i, v, s)
        PROVE  status'[j] = status[j] /\ version'[j] = version[j] /\ number'[j] = number[j]
    BY <2>3, <1>5 DEF Approve, Available, TypeOK
  <2>4. ASSUME NEW v \in 1..MaxVersion, NEW k \in Keys,
               Withdraw(a, i, v, k) \/ Reject(a, i, v, k)
        PROVE  status'[j] = status[j] /\ version'[j] = version[j] /\ number'[j] = number[j]
    BY <2>4, <1>5 DEF Withdraw, Reject, ReturnToDraft, Available, TypeOK
  <2>5. ASSUME NEW v \in 0..MaxVersion, Post(a, i, v)
        PROVE  status'[j] = status[j] /\ version'[j] = version[j] /\ number'[j] = number[j]
    BY <2>5, EnterBookType DEF Post, Available
  <2>6. QED BY <1>7, <2>1, <2>2, <2>3, <2>4, <2>5 DEF WorkflowStep
<1>8. ASSUME NEW r \in Journals, Reverse(r)
      PROVE  status'[j] = status[j] /\ version'[j] = version[j] /\ number'[j] = number[j]
  BY <1>8, <1>1, EnterBookType DEF Reverse
<1>9. QED BY <1>3, <1>4, <1>6, <1>7, <1>8, StepCases

\* A deleted journal is a tombstone: no command, and no transaction that was
\* open when it was deleted, changes it afterwards.
THEOREM Tombstones == Spec => TombstoneFrozen
<1>1. ASSUME TypeOK, TypeOK', RowsInv, RowsInv', [Next]_vars
      PROVE  [\A j \in Journals : Deleted(j) =>
                /\ status'[j] = status[j] /\ version'[j] = version[j]
                /\ number'[j] = number[j] /\ ~Related(j)']_vars
  BY <1>1, TombstoneStep
<1>2. QED BY <1>1, TypeCorrect, RowsHold, PTL DEF Spec, TombstoneFrozen

-----------------------------------------------------------------------------
\* All of it together: the inductive invariant of the ledger core, which the
\* reachable states of every instance satisfy.
THEOREM Inductive == Spec => []IInv
<1>1. Init => OutcomesInv /\ NumbersInv
  BY BoundsAssumption DEF Init, OutcomesInv, OneOutcomePerVersion, VersionsBounded,
       Approved, Returned, NumbersInv, NumbersBounded, NumbersAccountedFor, Holders, GivenUp
<1>2. TypeOK /\ OutcomesInv /\ [Next]_vars => OutcomesInv'
  BY OutcomesNext
<1>3. TypeOK /\ TypeOK' /\ RowsInv /\ NumbersInv /\ [Next]_vars => NumbersInv'
  BY NumbersNext DEF RowsInv
<1>4. TypeOK /\ FourEyes /\ ReviewKeepsPeriodOpen /\ OutcomesInv /\ RowsInv /\ NumbersInv
        => IInv
  BY DEF IInv, OutcomesInv, RowsInv, NumbersInv
<1>5. QED
  BY <1>1, <1>2, <1>3, <1>4, TypeCorrect, FourEyesHolds, ReviewHoldsPeriod, RowsHold, PTL
  DEF Spec
=============================================================================
