------------------------- MODULE BankReconciliation -------------------------
(***************************************************************************)
(* Bank evidence and its reconciliation with the ledger: synchronizations  *)
(* with the bank and statement imports append versions of observations; a  *)
(* session matches the observations of one account and statement period to *)
(* posted cash lines and is submitted, reviewed and finalized.             *)
(*                                                                         *)
(* Sessions take turns by row locks, users of one account's evidence by an *)
(* advisory lock, matches of one line or version by two more.  What reads  *)
(* under these locks and commits later is two actions (a match, a          *)
(* transition, an ingestion), what only waits for them is one.  Posting    *)
(* and unposting a journal take none of the locks.                         *)
(*                                                                         *)
(* Statement periods are consecutive numbers; two different ones do not    *)
(* overlap.  Idempotency keys stand for allocation ids: a key that comes   *)
(* again changes nothing.  Everything is in one currency.                  *)
(***************************************************************************)
EXTENDS FiniteSets, Functions, Integers, Sequences

CONSTANTS
  Accounts,      \* mapped external accounts
  Fed,           \* those of the SimpleFIN connection; the others hold files
  Observations,
  AccountOf,     \* the account of each observation
  Shown,         \* what the bank shows of each observation, one after another
  Imported,      \* observations that are rows of a statement file
  Lines,         \* journal lines
  LinePeriod, LineAmount,
  CashLines,     \* lines of each account's cash account combination
  Periods,       \* statement periods
  Sessions,      \* what sessions may be created; nothing of it ever changes
  Amounts,       \* allocated amounts
  Keys, Runs, Clients,
  Null

Content == [period : Periods, amount : Int, status : {"PENDING", "POSTED"}]
Allocation == [key : Keys, session : Sessions, observation : Observations,
               number : Nat, line : Lines, amount : Nat]

ASSUME AccountAssumption ==
  /\ Fed \subseteq Accounts
  /\ AccountOf \in [Observations -> Accounts]
  /\ Imported \subseteq Observations
  /\ \A o \in Observations \ Imported : AccountOf[o] \in Fed
ASSUME ShownAssumption ==
  /\ IsFiniteSet(Observations)
  /\ Shown \in [Observations -> Seq(Content)]
  /\ \A o \in Imported : Shown[o] # <<>>
ASSUME LineAssumption ==
  /\ LinePeriod \in [Lines -> Periods]
  /\ LineAmount \in [Lines -> Int]
  /\ CashLines \in [Accounts -> SUBSET Lines]
ASSUME NumberAssumption ==
  Periods \subseteq Nat /\ Amounts \subseteq Nat
ASSUME SessionAssumption ==
  Sessions \subseteq [id : Nat, account : Accounts, period : Periods,
                      opening : Int, closing : Int]
ASSUME NullAssumption ==
  /\ Null \notin Sessions \cup Allocation
  /\ Null \notin {"SUBMITTED", "REVIEWED", "FINALIZED"}
  /\ Null \notin [Observations \ Imported -> Nat]

VARIABLES
  shown,         \* how much of Shown the bank has shown so far
  run,           \* bank_sync_runs.status, "NONE" before its insertion
  reply,         \* what the process of each run fetched, or Null
  ingesting,     \* runs whose ingestion transaction is open
  versions,      \* bank_observation_versions: positions in Shown
  posted,        \* lines of POSTED journals
  status,        \* bank_reconciliation_sessions.status, "NONE" before
  allocations,   \* bank_match_allocations
  voided,        \* keys of bank_match_allocation_voids
  holds,         \* the session a client's open transaction has locked, or Null
  target,        \* the status that transaction sets, or Null
  plan           \* the allocation it inserts, or Null

evidence == <<shown, run, reply, ingesting, versions>>
matches == <<allocations, voided>>
transactions == <<holds, target, plan>>
vars == <<evidence, posted, status, matches, transactions>>

-----------------------------------------------------------------------------
(* What the queries read.                                                  *)

Feed == Observations \ Imported
Latest(o) == Len(versions[o])
Facts(o, n) == Shown[o][versions[o][n]]
Newest(o) == Facts(o, Latest(o))
Abs(i) == IF i < 0 THEN -i ELSE i
Total(S) == SumFunction([a \in S |-> a.amount])

(* Allocations without a void: of a session; of any session not voided.    *)
Live(s) == {a \in allocations : a.session = s /\ a.key \notin voided}
Counted ==
  {a \in allocations : status[a.session] # "VOIDED" /\ a.key \notin voided}
OnVersion(S, o, n) == {a \in S : a.observation = o /\ a.number = n}
OnLine(S, l) == {a \in S : a.line = l}

(* Newest versions of an account dated in a period, and those that count.  *)
InPeriod(a, p) ==
  {o \in Observations :
     AccountOf[o] = a /\ Latest(o) > 0 /\ Newest(o).period = p}
PostedIn(a, p) == {o \in InPeriod(a, p) : Newest(o).status = "POSTED"}
LinesIn(a, p) == {l \in CashLines[a] \cap posted : LinePeriod[l] = p}

SameSign(i, j) == (i > 0 /\ j > 0) \/ (i < 0 /\ j < 0)

(* A match of the newest version of an observation with a posted line.     *)
Matching(s, o, l) ==
  /\ o \in PostedIn(s.account, s.period)
  /\ l \in LinesIn(s.account, s.period)
  /\ SameSign(Newest(o).amount, LineAmount[l])

(* reconciliationProof and assertBalancedProof.                            *)
Valid(s) ==
  \A a \in Live(s) :
    /\ Matching(s, a.observation, a.line)
    /\ a.number = Latest(a.observation)
ObservationsMatched(s) ==
  \A o \in PostedIn(s.account, s.period) :
    Total(OnVersion(Live(s), o, Latest(o))) = Abs(Newest(o).amount)
LinesMatched(s) ==
  \A l \in LinesIn(s.account, s.period) :
    Total(OnLine(Counted, l)) = Abs(LineAmount[l])
Movement(s) == s.closing - s.opening
BankMovement(s) == SumFunction([o \in PostedIn(s.account, s.period) |-> Newest(o).amount])
LedgerMovement(s) == SumFunction([l \in LinesIn(s.account, s.period) |-> LineAmount[l]])
BalancedToLedger(s) ==   \* mutant of Balanced: statementToBankDifference left out
  /\ Movement(s) = LedgerMovement(s)
  /\ ObservationsMatched(s)
  /\ LinesMatched(s)
  /\ Valid(s)
Balanced(s) ==
  /\ Movement(s) = BankMovement(s)
  /\ Movement(s) = LedgerMovement(s)
  /\ ObservationsMatched(s)
  /\ LinesMatched(s)
  /\ Valid(s)

-----------------------------------------------------------------------------
(* Locks.                                                                  *)

SessionFree(s) == \A c \in Clients : holds[c] # s
EvidenceOfRuns(a) ==   \* mutant of EvidenceFree: users do not lock it
  a \in Fed => ingesting = {}
EvidenceFree(a) ==
  /\ \A c \in Clients : holds[c] # Null => holds[c].account # a
  /\ a \in Fed => ingesting = {}
LineUnlocked(l) == l \in Lines   \* mutant of LineFree
LineFree(l) == \A c \in Clients : plan[c] # Null => plan[c].line # l

Idle(c) == holds[c] = Null
Begin(c, s, t, a) ==
  /\ holds' = [holds EXCEPT ![c] = s]
  /\ target' = [target EXCEPT ![c] = t]
  /\ plan' = [plan EXCEPT ![c] = a]
End(c) == Begin(c, Null, Null, Null)

-----------------------------------------------------------------------------
Init ==
  /\ shown = [o \in Feed |-> 0]
  /\ run = [r \in Runs |-> "NONE"]
  /\ reply = [r \in Runs |-> Null]
  /\ ingesting = {}
  /\ versions = [o \in Observations |-> <<>>]
  /\ posted = {}
  /\ status = [s \in Sessions |-> "NONE"]
  /\ allocations = {}
  /\ voided = {}
  /\ holds = [c \in Clients |-> Null]
  /\ target = [c \in Clients |-> Null]
  /\ plan = [c \in Clients |-> Null]

-----------------------------------------------------------------------------
(* The bank and the ledger.                                                *)

(* The bank shows an observation, or shows it changed.                     *)
Show(o) ==
  /\ shown[o] < Len(Shown[o])
  /\ shown' = [shown EXCEPT ![o] = @ + 1]
  /\ UNCHANGED <<run, reply, ingesting, versions, posted, status, matches, transactions>>

Post(l) ==
  /\ l \notin posted
  /\ posted' = posted \cup {l}
  /\ UNCHANGED <<evidence, status, matches, transactions>>

UnpostFreely(l) ==   \* mutant of Unpost: of matched journals too
  /\ l \in posted
  /\ posted' = posted \ {l}
  /\ UNCHANGED <<evidence, status, matches, transactions>>

(* UNPOST refuses a journal with an allocation, also one voided since.     *)
Unpost(l) ==
  /\ l \in posted
  /\ OnLine(allocations, l) = {}
  /\ posted' = posted \ {l}
  /\ UNCHANGED <<evidence, status, matches, transactions>>

-----------------------------------------------------------------------------
(* Synchronization: begun in a transaction, fetched outside one, ingested  *)
(* in another.  A run older than 15 minutes is abandoned by the next; how  *)
(* long a run takes is left open.                                          *)

BeginSyncAbandoning(r) ==   \* mutant of BeginSync: an unknown status
  /\ run[r] = "NONE"
  /\ run' = [q \in Runs |-> IF q = r THEN "RUNNING"
                            ELSE IF run[q] = "RUNNING" THEN "ABANDONED" ELSE run[q]]
  /\ UNCHANGED <<shown, reply, ingesting, versions, posted, status, matches, transactions>>

BeginSync(r) ==
  /\ run[r] = "NONE"
  /\ \E abandoned \in SUBSET {q \in Runs : run[q] = "RUNNING"} :
       /\ \A q \in Runs \ abandoned : run[q] # "RUNNING"
       /\ run' = [q \in Runs |-> IF q = r THEN "RUNNING"
                                 ELSE IF q \in abandoned THEN "FAILED" ELSE run[q]]
  /\ UNCHANGED <<shown, reply, ingesting, versions, posted, status, matches, transactions>>

Fetch(r) ==
  /\ run[r] = "RUNNING" /\ reply[r] = Null
  /\ reply' = [reply EXCEPT ![r] = shown]
  /\ UNCHANGED <<shown, run, ingesting, versions, posted, status, matches, transactions>>

(* guard_bank_sync_lineage: evidence is appended while its run is RUNNING. *)
AnyRun(r) == run[r] # "NONE"   \* mutant of Lineage
Lineage(r) == run[r] = "RUNNING"

(* The locks of every account are taken and the rows inserted.             *)
Ingest(r) ==
  /\ reply[r] # Null
  /\ Lineage(r)
  /\ \A a \in Fed : EvidenceFree(a)
  /\ ingesting' = ingesting \cup {r}
  /\ UNCHANGED <<shown, run, reply, versions, posted, status, matches, transactions>>

(* A version with the content of an earlier one is not inserted again.     *)
Known(o, i) == \E n \in DOMAIN versions[o] : Facts(o, n) = Shown[o][i]
Extended(o, i) ==
  IF i = 0 \/ Known(o, i) THEN versions[o] ELSE Append(versions[o], i)

CommitIngest(r) ==
  /\ r \in ingesting
  /\ versions' = [o \in Observations |->
       IF o \in Feed THEN Extended(o, reply[r][o]) ELSE versions[o]]
  /\ run' = [run EXCEPT ![r] = IF @ = "RUNNING" THEN "SUCCEEDED" ELSE @]
  /\ reply' = [reply EXCEPT ![r] = Null]
  /\ ingesting' = ingesting \ {r}
  /\ UNCHANGED <<shown, posted, status, matches, transactions>>

(* finishFailedSync: the fetch or the ingestion fails, its rows are gone.  *)
FailSync(r) ==
  /\ run[r] = "RUNNING" \/ r \in ingesting
  /\ run' = [run EXCEPT ![r] = IF @ = "RUNNING" THEN "FAILED" ELSE @]
  /\ reply' = [reply EXCEPT ![r] = Null]
  /\ ingesting' = ingesting \ {r}
  /\ UNCHANGED <<shown, versions, posted, status, matches, transactions>>

-----------------------------------------------------------------------------
(* Sessions.                                                               *)

Open == {s \in Sessions : status[s] \notin {"NONE", "VOIDED"}}
Before(s) == {p \in Open : p.account = s.account /\ p.period < s.period}

ContinuesAny(s) ==   \* mutant of Continues: whatever the status of the one before
  /\ \A p \in Open : p.account = s.account => p.period < s.period
  /\ \A p \in Before(s) : p.period + 1 = s.period => p.closing = s.opening

(* No overlap, no later session, and the one before is finalized, adjacent *)
(* and closes with the balance this one opens with.                        *)
Continues(s) ==
  /\ \A p \in Open : p.account = s.account => p.period < s.period
  /\ \A p \in Before(s) :
       (\A q \in Before(s) : q.period <= p.period) =>
         /\ status[p] = "FINALIZED"
         /\ p.period + 1 = s.period
         /\ p.closing = s.opening

Create(s) ==
  /\ status[s] = "NONE"
  /\ Continues(s)
  /\ status' = [status EXCEPT ![s] = "DRAFT"]
  /\ UNCHANGED <<evidence, posted, matches, transactions>>

(* Rows of the files of an account and period.                             *)
Rows(a, p) ==
  {o \in Imported : AccountOf[o] = a /\ Shown[o][1].period = p}
Importable(a) ==
  /\ EvidenceFree(a)
  /\ a \in Fed => \A r \in Runs : run[r] # "RUNNING"
AppendRows(a, p) ==
  versions' = [o \in Observations |->
    IF o \in Rows(a, p) THEN Extended(o, 1) ELSE versions[o]]

(* A statement with balances: previewed as balanced, it opens a session or *)
(* adds to the same one while it is a draft.                               *)
ImportStatement(s) ==
  /\ Rows(s.account, s.period) # {}
  /\ Movement(s) =
       SumFunction([o \in Rows(s.account, s.period) |-> Shown[o][1].amount])
  /\ Importable(s.account)
  /\ \/ status[s] = "NONE" /\ Continues(s)
     \/ status[s] = "DRAFT" /\ SessionFree(s)
  /\ status' = [status EXCEPT ![s] = "DRAFT"]
  /\ AppendRows(s.account, s.period)
  /\ UNCHANGED <<shown, run, reply, ingesting, posted, matches, transactions>>

(* An export of transactions without balances.                             *)
ImportTransactions(a, p) ==
  /\ Rows(a, p) # {}
  /\ Importable(a)
  /\ AppendRows(a, p)
  /\ UNCHANGED <<shown, run, reply, ingesting, posted, status, matches, transactions>>

-----------------------------------------------------------------------------
(* Matches.                                                                *)

Remaining(o, l) ==
  LET m == Abs(Newest(o).amount) - Total(OnVersion(Counted, o, Latest(o)))
      n == Abs(LineAmount[l]) - Total(OnLine(Counted, l))
  IN IF m < n THEN m ELSE n

Matchable(s, a) ==
  /\ a.session = s
  /\ status[s] = "DRAFT"
  /\ \A b \in allocations : b.key # a.key
  /\ Matching(s, a.observation, a.line)
  /\ a.number = Latest(a.observation)
  /\ 0 < a.amount /\ a.amount <= Remaining(a.observation, a.line)

(* createBankMatchAllocation up to its insertion, and its commit.          *)
BeginMatch(c, s, k, o, l, i) ==
  LET a == [key |-> k, session |-> s, observation |-> o, number |-> Latest(o),
            line |-> l, amount |-> i]
  IN /\ Idle(c)
     /\ SessionFree(s) /\ EvidenceFree(s.account) /\ LineFree(l)
     /\ \A d \in Clients : plan[d] # Null => plan[d].key # k
     /\ Matchable(s, a)
     /\ Begin(c, s, Null, a)
     /\ UNCHANGED <<evidence, posted, status, matches>>

CommitMatch(c) ==
  /\ plan[c] # Null
  /\ allocations' = allocations \cup {plan[c]}
  /\ End(c)
  /\ UNCHANGED <<evidence, posted, status, voided>>

VoidMatchAnyTime(a) ==   \* mutant of VoidMatch: of a submitted session too
  /\ a.key \notin voided
  /\ SessionFree(a.session)
  /\ voided' = voided \cup {a.key}
  /\ UNCHANGED <<evidence, posted, status, allocations, transactions>>

VoidMatch(a) ==
  /\ a.key \notin voided
  /\ SessionFree(a.session)
  /\ status[a.session] = "DRAFT"
  /\ voided' = voided \cup {a.key}
  /\ UNCHANGED <<evidence, posted, status, allocations, transactions>>

-----------------------------------------------------------------------------
(* Transitions of a session.                                               *)

From == [SUBMITTED |-> "DRAFT", REVIEWED |-> "SUBMITTED", FINALIZED |-> "REVIEWED"]

(* The session and the evidence are locked and the proof is taken.         *)
BeginAdvance(c, s, t) ==
  /\ Idle(c)
  /\ SessionFree(s) /\ EvidenceFree(s.account)
  /\ status[s] = From[t]
  /\ Balanced(s)
  /\ Begin(c, s, t, Null)
  /\ UNCHANGED <<evidence, posted, status, matches>>

CommitAdvance(c) ==
  /\ target[c] # Null
  /\ status' = [status EXCEPT ![holds[c]] = target[c]]
  /\ End(c)
  /\ UNCHANGED <<evidence, posted, matches>>

Voidable == {"DRAFT", "SUBMITTED", "REVIEWED"}
Void(s) ==
  /\ SessionFree(s) /\ EvidenceFree(s.account)
  /\ status[s] \in Voidable
  /\ status' = [status EXCEPT ![s] = "VOIDED"]
  /\ UNCHANGED <<evidence, posted, matches, transactions>>

(* The transaction of a client ends without a commit.                      *)
Abort(c) ==
  /\ holds[c] # Null
  /\ End(c)
  /\ UNCHANGED <<evidence, posted, status, matches>>

Next ==
  \/ \E o \in Feed : Show(o)
  \/ \E l \in Lines : Post(l) \/ Unpost(l)
  \/ \E r \in Runs :
       BeginSync(r) \/ Fetch(r) \/ Ingest(r) \/ CommitIngest(r) \/ FailSync(r)
  \/ \E s \in Sessions : Create(s) \/ ImportStatement(s) \/ Void(s)
  \/ \E a \in Accounts, p \in Periods : ImportTransactions(a, p)
  \/ \E c \in Clients, s \in Sessions, k \in Keys, o \in Observations, l \in Lines,
        i \in Amounts : BeginMatch(c, s, k, o, l, i)
  \/ \E c \in Clients, s \in Sessions, t \in DOMAIN From : BeginAdvance(c, s, t)
  \/ \E c \in Clients : CommitMatch(c) \/ CommitAdvance(c) \/ Abort(c)
  \/ \E a \in allocations : VoidMatch(a)

Spec == Init /\ [][Next]_vars

-----------------------------------------------------------------------------
(* Properties.                                                             *)

(* Every variable has its type.                                            *)
TypeOK ==
  /\ shown \in [Feed -> Nat] /\ \A o \in Feed : shown[o] <= Len(Shown[o])
  /\ run \in [Runs -> {"NONE", "RUNNING", "SUCCEEDED", "FAILED"}]
  /\ reply \in [Runs -> [Feed -> Nat] \cup {Null}]
  /\ ingesting \subseteq Runs
  /\ versions \in [Observations -> Seq(Nat)]
  /\ posted \subseteq Lines
  /\ status \in [Sessions -> {"NONE", "DRAFT", "SUBMITTED", "REVIEWED",
                              "FINALIZED", "VOIDED"}]
  /\ allocations \subseteq Allocation /\ voided \subseteq Keys
  /\ holds \in [Clients -> Sessions \cup {Null}]
  /\ target \in [Clients -> DOMAIN From \cup {Null}]
  /\ plan \in [Clients -> Allocation \cup {Null}]

(* Whatever sessions match at once, of whatever accounts, no version of an *)
(* observation and no journal line is matched for more than its amount.    *)
WithinEvidence ==
  /\ \A o \in Observations : \A n \in 1..Latest(o) :
       Total(OnVersion(Counted, o, n)) <= Abs(Facts(o, n).amount)
  /\ \A l \in Lines : Total(OnLine(Counted, l)) <= Abs(LineAmount[l])

(* The sessions of an account that are not voided form one chain: each but *)
(* the last is finalized, and the next one follows it without a gap, a     *)
(* repeated period or a difference in balance.                             *)
Chained ==
  \A s, q \in Open : s # q /\ s.account = q.account =>
    /\ s.period # q.period
    /\ s.period < q.period => status[s] = "FINALIZED"
    /\ s.period + 1 = q.period => s.closing = q.opening
    /\ s.period + 1 < q.period =>
         \E p \in Open : p.account = s.account /\ p.period = s.period + 1

(* What a finalized session was matched with stays in the books: although  *)
(* a match and an unpost of its journal may miss each other, the proofs    *)
(* that follow do not, and unposting is refused from then on.              *)
FinalizedLinesPosted ==
  \A s \in Sessions : status[s] = "FINALIZED" =>
    \A a \in Live(s) : a.line \in posted /\ a.line \in CashLines[s.account]

(* The matches of a finalized session explain its statement to the last    *)
(* unit for good: the versions it matched are matched in full, and their   *)
(* amounts add up to the movement of the statement.                        *)
MatchedVersions(s) == {<<a.observation, a.number>> : a \in Live(s)}
FinalizedExplained ==
  \A s \in Sessions : status[s] = "FINALIZED" =>
    /\ \A v \in MatchedVersions(s) :
         Total(OnVersion(Live(s), v[1], v[2])) = Abs(Facts(v[1], v[2]).amount)
    /\ Movement(s) =
         SumFunction([v \in MatchedVersions(s) |-> Facts(v[1], v[2]).amount])

(* A session is finalized on the evidence there is at that moment, not on  *)
(* what there was when it was proved: every posted observation of its      *)
(* period is matched in full, and none in a version superseded since.      *)
CurrentAtFinalization ==
  [][\A s \in Sessions : status[s] # "FINALIZED" /\ status'[s] = "FINALIZED" =>
       /\ ObservationsMatched(s)'
       /\ (\A a \in Live(s) : a.number = Latest(a.observation))']_vars

(* From its submission on the matches of a session are those that were     *)
(* submitted, and those reviewed are those finalized.                      *)
MatchesStand ==
  [][\A s \in Sessions : status[s] # "DRAFT" \/ status'[s] # "DRAFT" =>
       Live(s)' = Live(s)]_vars

(* Reconciliation as those who do it see it: although proofs and caps are  *)
(* computed before they take effect, and others run in between, everything *)
(* is as if each match and each transition were decided at its commit.     *)
Record == [o \in Observations |-> [n \in 1..Latest(o) |-> Facts(o, n)]]
Standing == {a \in allocations : a.key \notin voided}
Book == INSTANCE StatementBook WITH record <- Record, matched <- Standing
ImplementsStatementBook == Book!Spec

(* The versions of an observation are in the order in which the bank       *)
(* showed them, although an abandoned run may ingest its reply late.       *)
InBankOrder ==
  \A o \in Observations : \A m, n \in 1..Latest(o) :
    m < n => versions[o][m] < versions[o][n]

=============================================================================
