------------------------------ MODULE Journals ------------------------------
(***************************************************************************)
(* The journal lifecycle of one ledger: drafts, the maker-checker          *)
(* workflow, posting, administrative unpost and delete, full reversals,    *)
(* fiscal periods and the posting policies.                                *)
(*                                                                         *)
(* Every command of src/modules/ledger runs in one READ COMMITTED          *)
(* transaction.  A command whose decisions are all read under a lock it    *)
(* keeps until it commits is one action here: it takes the journal row     *)
(* FOR UPDATE, and the database triggers re-read the period under FOR      *)
(* SHARE or FOR UPDATE.  Three transactions decide on a row they do not    *)
(* lock, and are two actions with an entry in txn between them:            *)
(*   - creating a manual journal (period state and posting mode),          *)
(*   - unposting (period state and bank allocations),                      *)
(*   - allocating a bank observation to a posted line (journal status).    *)
(*                                                                         *)
(* A journal is named by its idempotency key, which is unique in the       *)
(* organization and bound to one command: Command[j] is that command, and  *)
(* a different command with the same key is refused without an effect.     *)
(* No code path edits the lines of a journal after it is created, so the   *)
(* canonical content hash of a journal never changes and is left out:      *)
(* an approval is bound to a version.                                      *)
(***************************************************************************)
EXTENDS Naturals, FiniteSets

CONSTANTS
  Actors,             \* members of the organization
  Permissions,        \* Permissions[a]: the permission keys of a's active roles
  Journals,           \* idempotency keys of journal commands
  Command,            \* Command[j]: the command bound to the key j
  Periods,            \* fiscal periods of the ledger
  Txns,               \* database connections that may be inside a transaction
  Keys,               \* idempotency keys of recovery and administration commands
  MaxVersion,         \* bound: approval versions of one journal
  MaxNumber,          \* bound: journal numbers issued
  MaxPeriodVersion    \* bound: versions of one period

PermissionKeys == {"draft", "submit", "approve", "post", "post_adjustment",
                   "reverse", "administer", "close", "reopen", "seal",
                   "posting_policy", "owner"}

PeriodStates == {"OPEN", "ADJUSTMENT_ONLY", "HARD_CLOSED", "SEALED"}
ClosedStates == {"HARD_CLOSED", "SEALED"}
\* ADJUSTING stands for every purpose of a manual journal that an
\* ADJUSTMENT_ONLY period admits, ROUTINE for the others.
Purposes == {"ROUTINE", "ADJUSTING", "REVERSAL"}
AdjustmentPurposes == {"ADJUSTING", "REVERSAL"}
PostingModes == {"REVIEW_REQUIRED", "AUTO_POST"}
Statuses == {"ABSENT", "DRAFT", "SUBMITTED", "APPROVED", "POSTED"}
PendingStatuses == {"DRAFT", "SUBMITTED", "APPROVED"}

\* A manual journal names itself in "of"; a reversal names its original.  The
\* origin MCP stands for API as well: neither is posted automatically.
Commands == [kind : {"ledger.manual", "ledger.reversal"}, origin : {"USER", "MCP"},
             by : Actors, period : Periods, purpose : Purposes, of : Journals]

ASSUME PermissionsAssumption == Permissions \in [Actors -> SUBSET PermissionKeys]
ASSUME CommandAssumption == Command \in [Journals -> Commands]
ASSUME BoundsAssumption ==
  MaxVersion \in Nat /\ MaxNumber \in Nat /\ MaxPeriodVersion \in Nat

VARIABLES
  status,         \* journal_entries.status, "ABSENT" before the insert
  version,        \* journal_entries.approval_version, 0 for NULL
  number,         \* journal_entries.journal_number, 0 for NULL
  approvals,      \* rows of journal_approvals
  highest,        \* highest approvalVersion in the workflow audit events
  receipts,       \* audit events of withdraw and reject, with their key
  controls,       \* rows of journal_transaction_controls
  relations,      \* REVERSAL_OF rows <<from, to>> of journal_entry_relations
  matched,        \* journals with a line in bank_match_allocations
  nextNumber,     \* ledger_number_sequences.next_value
  periodState, periodVersion,  \* fiscal_periods
  manualMode,     \* ledger_posting_policies.manual_mode
  selfApproval,   \* mcp_agent_self_approval_policy.enabled
  txn             \* open transactions that decided on an unlocked row

entryVars == <<status, version, number>>
workflowVars == <<approvals, highest, receipts>>
adminVars == <<controls, relations>>
periodVars == <<periodState, periodVersion>>
policyVars == <<manualMode, selfApproval>>
vars == <<entryVars, workflowVars, adminVars, matched, nextNumber,
          periodVars, policyVars, txn>>

Idle == [op |-> "idle"]
CreateTxn == [op : {"create"}, journal : Journals, autoPost : BOOLEAN]
UnpostTxn == [op : {"unpost"}, journal : Journals, key : Keys]
MatchTxn == [op : {"match"}, journal : Journals]

Approval == [journal : Journals, version : Nat, actor : Actors,
             decision : {"APPROVED", "REJECTED"}, self : BOOLEAN]
Receipt == [key : Keys, journal : Journals, version : Nat,
            action : {"withdraw", "reject"}]
Control == [key : Keys, journal : Journals, outcome : {"UNPOSTED", "DELETED"},
            number : Nat]

\* Types, and which columns are NULL in which status.
TypeOK ==
  /\ status \in [Journals -> Statuses]
  /\ version \in [Journals -> Nat]
  /\ number \in [Journals -> Nat]
  /\ approvals \subseteq Approval
  /\ highest \in [Journals -> Nat]
  /\ receipts \subseteq Receipt
  /\ controls \subseteq Control
  /\ relations \subseteq Journals \X Journals
  /\ matched \subseteq Journals
  /\ nextNumber \in Nat \ {0}
  /\ periodState \in [Periods -> PeriodStates]
  /\ periodVersion \in [Periods -> Nat]
  /\ manualMode \in PostingModes
  /\ selfApproval \in BOOLEAN
  /\ txn \in [Txns -> {Idle} \cup CreateTxn \cup UnpostTxn \cup MatchTxn]
  /\ \A j \in Journals :
       /\ number[j] # 0 <=> status[j] = "POSTED"
       /\ status[j] \in {"ABSENT", "DRAFT"} => version[j] = 0
       /\ status[j] \in {"SUBMITTED", "APPROVED"} => version[j] # 0

-----------------------------------------------------------------------------
(* What the commands ask of the database.                                  *)

Holds(a, permission) == permission \in Permissions[a]
PeriodOf(j) == Command[j].period
Maker(j) == Command[j].by

Deleted(j) == \E c \in controls : c.journal = j /\ c.outcome = "DELETED"
Related(j) == \E r \in relations : j = r[1] \/ j = r[2]
Reversed(j) == \E r \in relations : r[2] = j

\* An open unpost holds the row lock of its journal and the advisory lock of
\* its key; whoever wants either waits.
WithoutForUpdate(j) == FALSE   \* mutant of RowLocked: the row is not locked
RowLocked(j) == \E t \in Txns : txn[t].op = "unpost" /\ txn[t].journal = j
KeyLocked(k) == \E t \in Txns : txn[t].op = "unpost" /\ txn[t].key = k

\* The journal row can be locked and is not a tombstone.
Available(j) == ~RowLocked(j) /\ ~Deleted(j)

\* The period admits a workflow step of a journal with this purpose.
Eligible(j) ==
  \/ periodState[PeriodOf(j)] = "OPEN"
  \/ /\ periodState[PeriodOf(j)] = "ADJUSTMENT_ONLY"
     /\ Command[j].purpose \in AdjustmentPurposes

\* The period admits a posting of j by a, re-read FOR UPDATE by the trigger.
UnlessSealed(a, j) ==            \* mutant of MayPostInto
  /\ periodState[PeriodOf(j)] # "SEALED"
  /\ periodState[PeriodOf(j)] = "ADJUSTMENT_ONLY" => Holds(a, "post_adjustment")
MayPostInto(a, j) ==
  /\ Eligible(j)
  /\ periodState[PeriodOf(j)] = "ADJUSTMENT_ONLY" => Holds(a, "post_adjustment")

\* An independent approval of exactly version v, or one that the agent
\* self-approval policy allowed when it was recorded.
ApprovedAt(j, v) ==
  \E d \in approvals : /\ d.journal = j /\ d.version = v
                       /\ d.decision = "APPROVED"
                       /\ d.actor # Maker(j) \/ d.self

SetOfVersions(j) == {d.version : d \in {e \in approvals : e.journal = j}}

\* The next approval version is above every decided and every audited one.
AboveDecided(j, v) ==            \* mutant of IsNextVersion: decisions only
  /\ \A w \in SetOfVersions(j) : v > w
  /\ v = 1 \/ \E w \in SetOfVersions(j) : v = w + 1
IsNextVersion(j, v) ==
  /\ v > highest[j] /\ \A w \in SetOfVersions(j) : v > w
  /\ v = highest[j] + 1 \/ \E w \in SetOfVersions(j) : v = w + 1

\* The sequence row is updated in the posting transaction itself.
CountedNumber ==                 \* mutant of AllocatedNumber
  Cardinality({j \in Journals : status[j] = "POSTED"}) + 1
AllocatedNumber == nextNumber

Init ==
  /\ status = [j \in Journals |-> "ABSENT"]
  /\ version = [j \in Journals |-> 0]
  /\ number = [j \in Journals |-> 0]
  /\ approvals = {} /\ highest = [j \in Journals |-> 0] /\ receipts = {}
  /\ controls = {} /\ relations = {} /\ matched = {}
  /\ nextNumber = 1
  /\ periodState = [p \in Periods |-> "OPEN"]
  /\ periodVersion = [p \in Periods |-> 1]
  /\ manualMode \in PostingModes /\ selfApproval = FALSE
  /\ txn = [t \in Txns |-> Idle]

-----------------------------------------------------------------------------
(* Creating manual journals.                                               *)

\* createManualJournal up to the insert: the period state and the posting
\* mode come from a plain SELECT, and nothing keeps them as they are.
BeginCreate(t, j) ==
  LET a == Maker(j) IN
  /\ txn[t] = Idle
  /\ Command[j].kind = "ledger.manual"
  /\ Holds(a, "draft")
  /\ periodState[PeriodOf(j)] \notin ClosedStates
  /\ txn' = [txn EXCEPT ![t] =
       [op |-> "create", journal |-> j,
        autoPost |-> /\ manualMode = "AUTO_POST"
                     /\ Command[j].origin = "USER"
                     /\ Holds(a, "post")
                     /\ \/ periodState[PeriodOf(j)] # "ADJUSTMENT_ONLY"
                        \/ Holds(a, "post_adjustment")]]
  /\ UNCHANGED <<entryVars, workflowVars, adminVars, matched, nextNumber,
                 periodVars, policyVars>>

\* The insert that keeps the journal a draft.  Nothing re-reads the period.
InsertDraft(t) ==
  /\ txn[t].op = "create" /\ ~txn[t].autoPost
  /\ status[txn[t].journal] = "ABSENT"
  /\ status' = [status EXCEPT ![txn[t].journal] = "DRAFT"]
  /\ txn' = [txn EXCEPT ![t] = Idle]
  /\ UNCHANGED <<version, number, workflowVars, adminVars, matched, nextNumber,
                 periodVars, policyVars>>

\* The status change every posting ends with: the number is allocated and
\* the journal enters the book in the same transaction.
EnterBook(j) ==
  /\ nextNumber <= MaxNumber
  /\ status' = [status EXCEPT ![j] = "POSTED"]
  /\ number' = [number EXCEPT ![j] = AllocatedNumber]
  /\ nextNumber' = nextNumber + 1

\* What an unpost does to the entry: it is a clean draft again.
LeaveBookKeepingVersion(j) ==         \* mutant of LeaveBook
  /\ status' = [status EXCEPT ![j] = "DRAFT"]
  /\ number' = [number EXCEPT ![j] = 0]
  /\ UNCHANGED version
LeaveBook(j) ==
  /\ status' = [status EXCEPT ![j] = "DRAFT"]
  /\ version' = [version EXCEPT ![j] = 0]
  /\ number' = [number EXCEPT ![j] = 0]

\* The insert that posts at once, on the mode read before it.  The posting
\* trigger re-reads the period, and a refusal rolls the insert back too.
InsertPosted(t) ==
  /\ txn[t].op = "create" /\ txn[t].autoPost
  /\ status[txn[t].journal] = "ABSENT"
  /\ MayPostInto(Maker(txn[t].journal), txn[t].journal)
  /\ EnterBook(txn[t].journal)
  /\ txn' = [txn EXCEPT ![t] = Idle]
  /\ UNCHANGED <<version, workflowVars, adminVars, matched, periodVars, policyVars>>

\* A replay of a key that exists, a refusal, a deadlock victim or a lost
\* connection: the transaction ends without an effect.
EndWithoutEffect(t) ==
  /\ txn[t] # Idle
  /\ txn' = [txn EXCEPT ![t] = Idle]
  /\ UNCHANGED <<entryVars, workflowVars, adminVars, matched, nextNumber,
                 periodVars, policyVars>>

-----------------------------------------------------------------------------
(* The maker-checker workflow and posting.                                 *)

\* submitJournalForApproval; v is the version the trigger computes.
Submit(a, j, v) ==
  /\ Holds(a, "submit") /\ Command[j].kind = "ledger.manual"
  /\ Available(j) /\ status[j] = "DRAFT"
  /\ Eligible(j)
  /\ IsNextVersion(j, v)
  /\ status' = [status EXCEPT ![j] = "SUBMITTED"]
  /\ version' = [version EXCEPT ![j] = v]
  /\ highest' = [highest EXCEPT ![j] = v]
  /\ UNCHANGED <<number, approvals, receipts, adminVars, matched, nextNumber,
                 periodVars, policyVars, txn>>

\* The agent self-approval policy lets a maker approve over MCP.
SelfApproves(a, j, surface) ==
  a = Maker(j) /\ surface = "MCP" /\ selfApproval

\* Whoever decides is not the maker, or may approve for itself.
AnyApprover(a, j, surface) == TRUE    \* mutant of Independent
Independent(a, j, surface) == a # Maker(j) \/ SelfApproves(a, j, surface)

\* approveSubmittedJournal: the caller names the version it reviewed.
Approve(a, j, expected, surface) ==
  /\ Holds(a, "approve")
  /\ Available(j) /\ status[j] = "SUBMITTED"
  /\ Independent(a, j, surface)
  /\ expected = version[j]
  /\ Eligible(j)
  /\ approvals' = approvals \cup
       {[journal |-> j, version |-> expected, actor |-> a,
         decision |-> "APPROVED", self |-> SelfApproves(a, j, surface)]}
  /\ status' = [status EXCEPT ![j] = "APPROVED"]
  /\ UNCHANGED <<version, number, highest, receipts, adminVars, matched,
                 nextNumber, periodVars, policyVars, txn>>

\* What withdrawing and rejecting share: a key not used before, the exact
\* submitted version, an admissible period and no accounting dependency.
ReturnToDraft(j, expected, key, action) ==
  /\ \A r \in receipts : r.key # key
  /\ Available(j) /\ status[j] = "SUBMITTED"
  /\ expected = version[j]
  /\ Eligible(j)
  /\ ~Related(j) /\ j \notin matched
  /\ status' = [status EXCEPT ![j] = "DRAFT"]
  /\ version' = [version EXCEPT ![j] = 0]
  /\ receipts' = receipts \cup
       {[key |-> key, journal |-> j, version |-> expected, action |-> action]}
  /\ UNCHANGED <<number, highest, adminVars, matched, nextNumber, periodVars,
                 policyVars, txn>>

Withdraw(a, j, expected, key) ==
  /\ Holds(a, "submit") /\ a = Maker(j)
  /\ ReturnToDraft(j, expected, key, "withdraw")
  /\ UNCHANGED approvals

Reject(a, j, expected, key) ==
  /\ Holds(a, "approve") /\ a # Maker(j)
  /\ ReturnToDraft(j, expected, key, "reject")
  /\ approvals' = approvals \cup
       {[journal |-> j, version |-> expected, actor |-> a,
         decision |-> "REJECTED", self |-> FALSE]}

\* postJournal: a draft is posted as it is, and anything that carries an
\* approval version only with an approval of exactly that version.  expected
\* is 0 when the caller names no version.
Post(a, j, expected) ==
  /\ Holds(a, "post") /\ Command[j].kind = "ledger.manual"
  /\ Available(j) /\ status[j] \in PendingStatuses
  /\ status[j] = "APPROVED" => expected # 0
  /\ expected # 0 => expected = version[j]
  /\ version[j] # 0 => ApprovedAt(j, version[j])
  /\ MayPostInto(a, j)
  /\ EnterBook(j)
  /\ UNCHANGED <<version, workflowVars, adminVars, matched, periodVars,
                 policyVars, txn>>

\* reversePostedJournal: the original stays locked until the reversal, its
\* posting and the relation commit together.
Reverse(r) ==
  LET a == Maker(r)
      o == Command[r].of
  IN /\ Command[r].kind = "ledger.reversal" /\ Command[r].purpose = "REVERSAL"
     /\ Holds(a, "reverse") /\ Holds(a, "draft") /\ Holds(a, "post")
     /\ ~RowLocked(o) /\ status[o] = "POSTED"
     /\ Command[o].kind = "ledger.manual"
     /\ ~Reversed(o)
     /\ status[r] = "ABSENT"
     /\ MayPostInto(a, r)
     /\ EnterBook(r)
     /\ relations' = relations \cup {<<r, o>>}
     /\ UNCHANGED <<version, workflowVars, controls, matched, periodVars,
                    policyVars, txn>>

-----------------------------------------------------------------------------
(* Administration: unpost and delete.                                      *)

\* Both controls are for a manual journal that is not deleted, not part of a
\* reversal and not reconciled, under a key that has no control row yet.
MayControlReversed(a, j, key) ==      \* mutant of MayControl
  /\ Holds(a, "administer") /\ Holds(a, "owner")
  /\ ~KeyLocked(key) /\ \A c \in controls : c.key # key
  /\ Command[j].kind = "ledger.manual"
  /\ Available(j) /\ j \notin matched
MayControl(a, j, key) ==
  /\ Holds(a, "administer") /\ Holds(a, "owner")
  /\ ~KeyLocked(key) /\ \A c \in controls : c.key # key
  /\ Command[j].kind = "ledger.manual"
  /\ Available(j) /\ ~Related(j) /\ j \notin matched

\* admin_control_journal_transaction('UNPOST') up to the update: the journal
\* row is locked, the period and the bank allocations are only read.
BeginUnpost(t, a, j, key) ==
  /\ txn[t] = Idle
  /\ MayControl(a, j, key)
  /\ status[j] = "POSTED"
  /\ periodState[PeriodOf(j)] = "OPEN"
  /\ txn' = [txn EXCEPT ![t] = [op |-> "unpost", journal |-> j, key |-> key]]
  /\ UNCHANGED <<entryVars, workflowVars, adminVars, matched, nextNumber,
                 periodVars, policyVars>>

\* The update and the control row, which keeps the number given up.
FinishUnpost(t) ==
  /\ txn[t].op = "unpost"
  /\ LET j == txn[t].journal IN
     /\ LeaveBook(j)
     /\ controls' = controls \cup
          {[key |-> txn[t].key, journal |-> j, outcome |-> "UNPOSTED",
            number |-> number[j]]}
  /\ txn' = [txn EXCEPT ![t] = Idle]
  /\ UNCHANGED <<workflowVars, relations, matched, nextNumber, periodVars,
                 policyVars>>

\* admin_control_journal_transaction('DELETE'): a tombstone, not a deletion.
Delete(a, j, key) ==
  /\ MayControl(a, j, key)
  /\ status[j] \in PendingStatuses
  /\ controls' = controls \cup
       {[key |-> key, journal |-> j, outcome |-> "DELETED", number |-> number[j]]}
  /\ UNCHANGED <<entryVars, workflowVars, relations, matched, nextNumber,
                 periodVars, policyVars, txn>>

-----------------------------------------------------------------------------
(* Bank reconciliation, as far as it touches the ledger.                   *)

\* guard_bank_match_allocation_cap reads the journal's status without a lock.
BeginMatch(t, j) ==
  /\ txn[t] = Idle
  /\ status[j] = "POSTED"
  /\ txn' = [txn EXCEPT ![t] = [op |-> "match", journal |-> j]]
  /\ UNCHANGED <<entryVars, workflowVars, adminVars, matched, nextNumber,
                 periodVars, policyVars>>

\* The allocation becomes visible to others when its transaction commits.
FinishMatch(t) ==
  /\ txn[t].op = "match"
  /\ matched' = matched \cup {txn[t].journal}
  /\ txn' = [txn EXCEPT ![t] = Idle]
  /\ UNCHANGED <<entryVars, workflowVars, adminVars, nextNumber, periodVars,
                 policyVars>>

-----------------------------------------------------------------------------
(* Fiscal periods and policies.                                            *)

PeriodSteps == {<<"OPEN", "ADJUSTMENT_ONLY">>,
                <<"ADJUSTMENT_ONLY", "OPEN">>, <<"ADJUSTMENT_ONLY", "HARD_CLOSED">>,
                <<"HARD_CLOSED", "OPEN">>, <<"HARD_CLOSED", "ADJUSTMENT_ONLY">>,
                <<"HARD_CLOSED", "SEALED">>}

PeriodPermission(from, to) ==
  CASE to = "SEALED" -> "seal"
    [] to = "OPEN" \/ <<from, to>> = <<"HARD_CLOSED", "ADJUSTMENT_ONLY">> -> "reopen"
    [] OTHER -> "close"

\* Journals of the period that still wait for a posting, by what is committed.
DraftsIn(p) ==                        \* mutant of PendingIn
  {j \in Journals : PeriodOf(j) = p /\ status[j] = "DRAFT" /\ ~Deleted(j)}
PendingIn(p) ==
  {j \in Journals : /\ PeriodOf(j) = p /\ status[j] \in PendingStatuses
                    /\ ~Deleted(j)}

\* transitionFiscalPeriod: the period row is locked before anything is read.
TransitionPeriod(a, p, expected, to) ==
  /\ expected = periodVersion[p] /\ expected < MaxPeriodVersion
  /\ <<periodState[p], to>> \in PeriodSteps
  /\ Holds(a, PeriodPermission(periodState[p], to))
  /\ to \in ClosedStates => PendingIn(p) = {}
  /\ periodState' = [periodState EXCEPT ![p] = to]
  /\ periodVersion' = [periodVersion EXCEPT ![p] = expected + 1]
  /\ UNCHANGED <<entryVars, workflowVars, adminVars, matched, nextNumber,
                 policyVars, txn>>

SetPostingPolicy(a, mode) ==
  /\ Holds(a, "posting_policy") /\ mode # manualMode
  /\ manualMode' = mode
  /\ UNCHANGED <<entryVars, workflowVars, adminVars, matched, nextNumber,
                 periodVars, selfApproval, txn>>

SetSelfApproval(a, enabled) ==
  /\ Holds(a, "owner") /\ enabled # selfApproval
  /\ selfApproval' = enabled
  /\ UNCHANGED <<entryVars, workflowVars, adminVars, matched, nextNumber,
                 periodVars, manualMode, txn>>

-----------------------------------------------------------------------------
CreateStep(t) ==
  \/ \E j \in Journals : BeginCreate(t, j)
  \/ InsertDraft(t)
  \/ InsertPosted(t)

AdminStep(t) ==
  \/ \E a \in Actors, j \in Journals, k \in Keys : BeginUnpost(t, a, j, k)
  \/ FinishUnpost(t)

MatchStep(t) ==
  \/ \E j \in Journals : BeginMatch(t, j)
  \/ FinishMatch(t)

WorkflowStep(a, j) ==
  \/ \E v \in 1..MaxVersion : Submit(a, j, v)
  \/ \E v \in 1..MaxVersion, s \in {"UI", "MCP"} : Approve(a, j, v, s)
  \/ \E v \in 1..MaxVersion, k \in Keys : Withdraw(a, j, v, k)
  \/ \E v \in 1..MaxVersion, k \in Keys : Reject(a, j, v, k)
  \/ \E v \in 0..MaxVersion : Post(a, j, v)
  \/ \E k \in Keys : Delete(a, j, k)

PolicyStep(a) ==
  \/ \E p \in Periods, v \in 1..MaxPeriodVersion, to \in PeriodStates :
       TransitionPeriod(a, p, v, to)
  \/ \E m \in PostingModes : SetPostingPolicy(a, m)
  \/ \E b \in BOOLEAN : SetSelfApproval(a, b)

Next ==
  \/ \E t \in Txns : CreateStep(t) \/ AdminStep(t) \/ MatchStep(t) \/ EndWithoutEffect(t)
  \/ \E a \in Actors, j \in Journals : WorkflowStep(a, j)
  \/ \E r \in Journals : Reverse(r)
  \/ \E a \in Actors : PolicyStep(a)

Spec == Init /\ [][Next]_vars

-----------------------------------------------------------------------------
(* Correctness.                                                            *)

\* Four eyes: whatever is approved, or posted out of the workflow, carries an
\* approval of exactly its own version by somebody other than its maker,
\* unless the self-approval policy was on when that approval was recorded.
\* Submissions, withdrawals, resubmissions, unposts and policy changes in any
\* order keep it (validate_posting_approval, guard_journal_workflow_transition).
FourEyes ==
  \A j \in Journals :
    (status[j] \in {"APPROVED", "POSTED"} /\ version[j] # 0)
      => ApprovedAt(j, version[j])

\* A submitted version comes to one end: approved once, or withdrawn or
\* rejected once.  An approval sent for a version that was withdrawn can
\* therefore never take effect on the resubmission that followed.
Approved(j, v) == {d \in approvals : /\ d.journal = j /\ d.version = v
                                      /\ d.decision = "APPROVED"}
Returned(j, v) == {r \in receipts : r.journal = j /\ r.version = v}

OneOutcomePerVersion ==
  \A j \in Journals, v \in 1..MaxVersion :
    /\ Approved(j, v) = {} \/ Returned(j, v) = {}
    /\ \A d, e \in Approved(j, v) : d = e
    /\ \A r, s \in Returned(j, v) : r = s

\* No journal waits for a review or for its posting in a closed period: a
\* submission re-reads the period under a lock, and closing counts what is
\* pending under the lock of the period.
ReviewKeepsPeriodOpen ==
  \A j \in Journals :
    status[j] \in {"SUBMITTED", "APPROVED"} /\ ~Deleted(j)
      => periodState[PeriodOf(j)] \notin ClosedStates

\* A tombstone is final: nothing that a command does changes a deleted journal.
TombstoneFrozen ==
  [][\A j \in Journals : Deleted(j) =>
       /\ status'[j] = status[j] /\ version'[j] = version[j]
       /\ number'[j] = number[j] /\ ~Related(j)']_vars

\* No path posts into a closed period, not even the automatic posting that
\* read the period as open before somebody closed it.
ClosedBookNeverGrows ==
  [][\A j \in Journals : status[j] # "POSTED" /\ status'[j] = "POSTED"
       => periodState[PeriodOf(j)] \notin ClosedStates]_vars

\* Journal numbers: each number below the next one is accounted for exactly
\* once, by the posted journal that has it or by the control row of the
\* unpost that gave it up.  So numbers have no unexplained gap, and a number
\* is never used again.
Holders(n) == {j \in Journals : status[j] = "POSTED" /\ number[j] = n}
GivenUp(n) == {c \in controls : c.outcome = "UNPOSTED" /\ c.number = n}

NumbersAccountedFor ==
  \A n \in 1..MaxNumber :
    /\ n < nextNumber <=> Holders(n) # {} \/ GivenUp(n) # {}
    /\ Holders(n) = {} \/ GivenUp(n) = {}
    /\ \A i, j \in Holders(n) : i = j
    /\ \A c, d \in GivenUp(n) : c = d

\* A reversal pins both of its journals in the book, and an original has at
\* most one: an unpost and a reversal of one journal cannot both succeed.
ReversalPinsBook ==
  /\ \A r \in relations : /\ status[r[1]] = "POSTED" /\ status[r[2]] = "POSTED"
                          /\ ~Deleted(r[1]) /\ ~Deleted(r[2])
  /\ \A r, s \in relations : r[2] = s[2] => r = s

\* The journals of the ledger as a book of numbers: what PostedBook promises,
\* whatever the workflow, the periods and the open transactions do.
IssuedTo(n) ==
  CHOOSE j \in Journals :
    \/ status[j] = "POSTED" /\ number[j] = n
    \/ \E c \in GivenUp(n) : c.journal = j

Book == INSTANCE PostedBook WITH
  issued <- [n \in 1..(nextNumber - 1) |-> IssuedTo(n)],
  live <- {number[j] : j \in {i \in Journals : status[i] = "POSTED"}},
  pinned <- {number[j] : j \in {i \in Journals : Related(i)}}

ImplementsPostedBook == Book!Spec

-----------------------------------------------------------------------------
(* The inductive strengthening.                                            *)

\* Every version seen anywhere is at most the highest audited one, which is
\* the version under review; a version under review has no outcome yet.
VersionsBounded ==
  /\ \A d \in approvals : d.version <= highest[d.journal]
  /\ \A r \in receipts : r.version <= highest[r.journal]
  /\ \A j \in Journals : status[j] \in {"SUBMITTED", "APPROVED"}
       => /\ version[j] = highest[j]
          /\ Returned(j, version[j]) = {}
          /\ status[j] = "SUBMITTED" => Approved(j, version[j]) = {}

\* Only the transaction that holds its row unposts a journal, and that
\* journal stays as the transaction found it.
UnpostHoldsRow ==
  \A t \in Txns : txn[t].op = "unpost" =>
    /\ status[txn[t].journal] = "POSTED"
    /\ ~Related(txn[t].journal)
    /\ \A u \in Txns \ {t} :
         txn[u].op = "unpost" => txn[u].journal # txn[t].journal

DeletedIsPending ==
  \A j \in Journals : Deleted(j) => status[j] \in PendingStatuses /\ ~Related(j)

NumbersBounded ==
  /\ nextNumber <= MaxNumber + 1
  /\ \A j \in Journals : number[j] < nextNumber
  /\ \A c \in controls : c.outcome = "UNPOSTED" => c.number \in 1..(nextNumber - 1)

IInv ==
  /\ TypeOK
  /\ FourEyes /\ OneOutcomePerVersion /\ VersionsBounded
  /\ ReviewKeepsPeriodOpen /\ DeletedIsPending
  /\ UnpostHoldsRow /\ ReversalPinsBook
  /\ NumbersBounded /\ NumbersAccountedFor

-----------------------------------------------------------------------------
(* What messages and comments of the code say and its interleavings break. *)

\* "Fiscal period has unposted journals that must be resolved before hard
\* close or seal" (period-service.ts).
ClosedPeriodHasNothingPending ==
  \A p \in Periods : periodState[p] \in ClosedStates => PendingIn(p) = {}

\* "A journal can be unposted only while its accounting period is open"
\* (admin_control_journal_transaction).
UnpostOnlyWhileOpen ==
  [][\A j \in Journals : status[j] = "POSTED" /\ status'[j] = "DRAFT"
       => periodState[PeriodOf(j)] = "OPEN"]_vars

\* The command "safely unposts or tombstones dependency-free manual journals",
\* and a match needs a posted cash line: a reconciled journal stays posted.
MatchedStaysPosted == \A j \in matched : status[j] = "POSTED"
=============================================================================
