# A verification development for Finlynq

Finlynq is a multi-tenant accounting system: a Next.js application whose
services (`src/src/modules`) run every command in one PostgreSQL transaction at
READ COMMITTED, under row-level security, with most accounting rules enforced a
second time by triggers (`src/migrations/drizzle`). What is hard about it is
not a single handler but what commands of several people do to each other: a
handler reads a row without locking it and writes later, a trigger re-reads some
rows under a lock and not others, a client repeats a command whose answer was
lost, a period closes while a journal waits for its review.

This directory holds TLA+ modules translated from that code, the TLC
configurations that check them on small instances, and proofs, checked by
TLAPS, that the most important properties hold for every value of the
constants.

    tlc -config JournalBook.cfg MCJournals        # one of the runs below
    tlapm JournalProofs.tla                       # one of the proof modules

## 1. The system

### Components

| component | state it keeps | operations | what must be correct |
|---|---|---|---|
| Journal lifecycle (`modules/ledger/journal-service`, `posting-engine`, `0053`) | `journal_entries`, `journal_entry_relations`, `ledger_number_sequences`, `journal_transaction_controls` | create (draft or posted at once), post, reverse, administrative unpost and delete | nothing enters a closed period; numbers have no unexplained gap and are never reused; a reversal pins both of its journals; a tombstone is final |
| Journal approval (`journal-workflow-service`, `0078`, `0086`) | `approval_version`, `journal_approvals`, audit events of the workflow, `mcp_agent_self_approval_policy` | submit, approve, withdraw, reject, set the self-approval policy | four eyes; a version comes to one end; a late answer to a withdrawn version has no effect on its successor |
| Fiscal periods, posting policy (`period-service`, `posting-policy-service`, `0006`) | `fiscal_periods`, `ledger_posting_policies` | transition, set the posting mode | a closed period holds nothing that waits |
| Bank reconciliation (`modules/banking`) | sessions, matches, allocations, voids, cutovers | create, match, void, transition, cut over | allocations stay within the observation and the line; a finalized session explains its period and stays explained |
| Bank data ingestion (`statement-import-service`, `simplefin-client`, `proposal-service`) | sync runs, import batches, observation versions, proposals | sync, import, propose, accept | a late answer of the bank does not replace a newer one; an observation is imported once |
| Receivables and payables (`modules/subledger`, `0011`) | source documents and their versions, open items, settlements and their allocations | draft, edit, issue, settle, void a document or a settlement | no item is settled beyond what is open; a void leaves nothing settled; the control account ties out |
| Chart of accounts, accounting configuration | accounts, dimensions, defaults | optimistic edits | no lost update |
| Identity (`modules/identity`) | users, sessions, trusted browsers, sign-ups, recovery tokens, e-mail outbox | log in, rotate, revoke, sign up, recover, send | a revoked session stays revoked; a token is consumed once; a mail is sent at least once and at most its number of attempts |
| Document inbox and storage (`modules/document-inbox`) | connections, inbox items with leases, the files of a drive | sync, upload, claim, read, complete, file | one record per document; what was completed is what was read and what is filed; no file is lost between two steps |
| Accounting e-mail (`modules/email`) | inbound messages and attachments, delivery attempts, customer preferences | stage, claim, settle, clear; send, retry, call back | received mail is settled in the end; one message per command; bounces are not forgotten |
| MCP server | authorization codes, token families, executions | authorize, exchange, refresh, execute | a code and a refresh token work once; an execution takes effect once |
| Tax, FX, assets, parties, close checklist | filings, rates, schedules, parties, checklist items | life cycles of one row each | states move forward only |
| Organizations, onboarding, demo | organizations, write activation, demo sessions | create, activate, reset at night | a demo session does not outlive the reset it was fenced against |
| Reporting, user interface, database access, deployment | none of its own | queries, pages, the transaction wrapper, shell scripts | not modelled |

### How they interact

Everything meets in the ledger. Receivables and payables, banking, tax and
assets create journals through the same posting engine and are told of nothing
afterwards: whether a journal may leave the book again is decided by the ledger
reading *their* tables (`bank_match_allocations`, `journal_entry_relations`).
Periods are shared by all of them. Idempotency keys tie a command to its effect
across retries (down to the mail provider and the drive), advisory locks serialize equal keys, and audit events are not
only a log: the next approval version is computed from them. Received mail ends as files of the document inbox, a completed
inbox item becomes a draft or evidence, and an issued invoice becomes a delivery.

| part of this project | modules | proofs |
|---|---|---|
| 2. the ledger | `Journals`, abstract `PostedBook` | `JournalProofs`, `BookProofs` |
| 3. receivables and payables | `OpenItems`, abstract `PartyAccount` | `OpenItemProofs` |
| 4. accounting e-mail | `InboundEmail`, `InvoiceDelivery` | `InboundProofs`, `DeliveryProofs` |
| 5. document inbox | `DocumentInbox`, abstract `DocumentRegister` | `InboxProofs` |
| 6. banking | `BankReconciliation`, abstract `StatementBook` | `BankProofs` |
| sums over finite sets, for 3 and 6 | | `FiniteSums` |

Each of the five parts has its small instances in `MC` modules for TLC, and each run a configuration of it. The
modules meet at one operation each, which both sides model: a match of a bank line
(`BeginMatch` in `Journals` and in `BankReconciliation`) and the upload of a received
attachment (the outcome of `FinishAttachment`, the file of `NewUpload`).

### What is hard

 * Decisions on rows that were read without a lock (creation, unpost, bank match).
 * Retries and late commands: a version or a key seen again after the journal
   moved on.
 * Policies that change between two steps of one journal (posting mode,
   self-approval, period state).
 * Work outside of a transaction: an upload, a fetch from the bank or a call of the mail
   provider, with a crash, a lost answer or an expired claim around it.
 * Bookkeeping with derived counters: approval versions, journal numbers, open
   amounts.

`PROJECT.json` lists each hazard at its line, with the property that would catch
it, or why none does.

## 2. The ledger: `Journals`, `PostedBook`

### State and actions

One instance of `Journals` is one ledger. A journal is named by its idempotency
key; `Command[j]` is the one command bound to the key (a different command under
the same key is refused by the code without an effect).

| variable | column |
|---|---|
| `status`, `version`, `number` | `journal_entries.status`, `.approval_version`, `.journal_number` (`"ABSENT"` and 0 for no row and NULL) |
| `approvals` | `journal_approvals` |
| `highest` | the highest `approvalVersion` in the workflow's audit events |
| `receipts` | the audit events of withdraw and reject with their idempotency key |
| `controls` | `journal_transaction_controls`; a row `DELETED` is the tombstone |
| `relations`, `matched` | `journal_entry_relations` and `bank_match_allocations`, as far as they bind journals |
| `nextNumber` | `ledger_number_sequences.next_value` |
| `periodState`, `periodVersion`, `manualMode`, `selfApproval` | periods and policies |
| `txn` | open transactions that already decided on a row they have not locked |

A command whose decisions are all read under locks it keeps is one action:
`Submit`, `Approve`, `Withdraw`, `Reject`, `Post`, `Reverse`, `Delete`,
`TransitionPeriod`, `SetPostingPolicy`, `SetSelfApproval`. Three are not, and have
two actions each with an entry of `txn` between them: `BeginCreate` and
`InsertDraft` or `InsertPosted` (period state and posting mode),
`BeginUnpost` and `FinishUnpost` (period state and bank allocations),
`BeginMatch` and `FinishMatch` (the journal's status). `EndWithoutEffect` is
every way such a transaction ends without a commit. Guards come from the
service *and* from the triggers, because the triggers are what a second
transaction meets.

`PostedBook` is the abstract specification: journal numbers as a reader of the
book sees them. A number is issued to one journal, without a gap before it; it may
be given up once, is never issued again, and the two journals of a reversal
stay. `Journals!ImplementsPostedBook` is the refinement.

Left out, because no property depends on it: the lines and amounts of a journal (no
command edits them after the insert, so the content hash a reviewer approves is
constant), the optimistic version of the policies, changes of permissions,
`approved_by`/`posted_by`, the hash chain of the audit log, the replies of
replayed commands. `ADJUSTING` stands for every manual purpose an
`ADJUSTMENT_ONLY` period admits; the origin `MCP` stands for `API` too. The
matching of a bank observation is modelled as far as it touches a journal.

### Runs

| run | instance | states | shows |
|---|---|---|---|
| `journal_approval` | maker and checker, 1 journal, 3 approval versions, 2 numbers, 5 period versions, 1 transaction, 2 keys | 125 thousand | `TypeOK`, `FourEyes`, `OneOutcomePerVersion`, `ReviewKeepsPeriodOpen` |
| `journal_book` | 1 owner, 4 journals (two manual, two competing reversals of the first), 2 periods, 3 numbers, 2 transactions, 2 keys | 720 thousand | `NumbersAccountedFor`, `ReversalPinsBook`, `ClosedBookNeverGrows`, `ImplementsPostedBook` |
| `stranded_draft` | one draft and a closing period | violation | `ClosedPeriodHasNothingPending` |
| `unpost_after_close` | one posted journal and a period that leaves OPEN | violation | `UnpostOnlyWhileOpen` |
| `unpost_matched` | one posted journal, an unpost and a match | violation | `MatchedStaysPosted` |

Bounds are in the guards. Three versions are a first submission, a resubmission
after a recovery and one more after an unpost; two keys are a command and a
different one (the same key twice is a retry); two transactions are the two
sides of each race; three numbers are an original, its reversal and a number
given up. `Txns` and `Keys` are symmetric: no definition distinguishes them and
no property is a liveness property. `CHECK_DEADLOCK FALSE`, since users may stop, and
the bounds make them.

### What the violations mean

 * `ClosedPeriodHasNothingPending`: closing a period counts pending journals
   under the period's lock, but a creation reads the period without one. A
   draft read into an open period can be inserted after the close. What the code
   does keep is `ReviewKeepsPeriodOpen`: nothing *under review* is ever in a
   closed period, since a submission re-reads the period under a lock.
 * `UnpostOnlyWhileOpen`: an unpost reads the period without a lock; a
   transition that commits before its update is not seen.
 * `MatchedStaysPosted`: an unpost and a bank match check each other's tables
   before either commits.

### Proofs

`JournalProofs` proves, for any sets of actors, journals, periods, transactions
and keys, any permissions and any bounds (assumptions `PermissionsAssumption`,
`CommandAssumption`, `BoundsAssumption`: the constants have their types), that every
property of the two passing runs holds. `BookProofs` proves the refinement.

The invariants are not inductive alone. `IInv` adds what the code relies on
without saying so:

 * `VersionsBounded`: every version in an approval or a receipt is at most the
   highest audited one, and a version under review is exactly that one and has
   no outcome yet. This is why an approval version is never used twice although
   a withdrawn version leaves no decision behind, and gives
   `OneOutcomePerVersion`.
 * `UnpostHoldsRow`: an open unpost holds its journal's row, which is still posted
   and in no reversal. This gives `ReversalPinsBook` and that a number is given up
   once.
 * `DeletedIsPending`: a deleted journal was never posted again and is in no
   reversal. This gives `TombstoneFrozen`, which is proved (`Tombstones`) and not
   the subject of a run.
 * `NumbersBounded`: every number seen anywhere is below the next one. This gives
   `NumbersAccountedFor`.

The proof is a lemma per part (`Outcomes...`, `Rows...`, `Numbers...`) with a
step per action, then `Inductive`, and each property follows. `BookProofs` maps
each step by what it does to the numbers: a posting is `Enter`, a reversal is
`EnterReversal`, `FinishUnpost` is `GiveUp`, and everything else leaves the book
alone.

## 3. Receivables and payables: `OpenItems`, `PartyAccount`

### State and actions

One instance is the documents of one party account, kind and currency, and the
settlements (receipts or payments) that can be recorded against them. Amounts
are whole minor units, so that rounding is integer arithmetic (`RoundHalfUp`).

| variable | rows |
|---|---|
| `docStatus`, `docVersion`, `amount` | the newest version of a number in `source_documents` and the totals of its snapshot; a `POSTED` one has an open item of that amount, a `VOIDED` one an `open_item_void_events` row |
| `reviewed` | which versions have been shown to somebody: what an `expectedVersion` may be |
| `paid` | the newest version of a settlement's number in `source_documents` |
| `rows` | the `APPLY` rows of a settlement in `document_settlement_allocations` |
| `applied`, `carried` | the sums over an open item's allocation rows, `APPLY` minus `REVERSAL` |
| `txn` | settlements under way: they hold advisory locks and have computed their rows |

`applied` and `carried` are state of their own, as the sums the code computes, and not
defined from `rows`: that they agree with the settlements in force
(`SumsOfLive`) is one of the things to check.

Every command is one action but one. A settlement reads balances under advisory locks
on its number and its items and computes carrying amounts from them
(`BeginSettle`); the trigger on the inserted rows locks each item's row and
computes the balance again (`FinishSettle`). In between, the void of *another*
settlement, which takes no lock on items, may change the balances. The rows of
one settlement are inserted by one statement, and a void that shares two items
with it can only be before or after all of them, so the insertion is one action.
`EndWithoutEffect` is a refusal, the victim of a deadlock or a lost connection.

The document's void is one action: it takes the item's advisory lock before it
reads the balance, and the other command that does not, a settlement's void, only
lowers the balance, which is 0 already.

`PartyAccount` is the abstract specification: items are opened once, a
settlement takes from several items at once and never more than is open, is
taken back as a whole, and an item nobody holds may be closed for good.
`OpenItems!ImplementsPartyAccount` is the refinement.

Left out: permissions, account mappings and periods (read first, and checked again
when the journal is posted in the same transaction: a refusal is a step not
taken), settlement rates and realised gains (a function of the two amounts that
no state depends on), evidence, tax determination, the journal itself, and the version of
a settlement, whose posted version is always 1.

### Runs

| run | instance | states | shows |
|---|---|---|---|
| `settlements` | 2 documents of 3 units carried at 2 or of 2 carried at 3, with 3 versions each, 4 settlement numbers in parts of 1 or 2, 2 connections | 428 thousand | `TypeOK`, `NeverOverApplied`, `VoidedUnsettled`, `SettledIsClean`, `SumsOfLive`, `NoStaleCarrying`, `ChainExtendsReviewed`, `ImplementsPartyAccount` |
| `carrying_overrun` | one document of 6 units carried at 3, 3 settlements | violation | `CarryingWithinOriginal` |

Four settlements are two that settle an item in parts, one that is voided and one
that settles again; two documents let settlements overlap in one item. The amounts
are the smallest whose parts round up, or down, and differ from the rest. Three
versions are a draft, its edit by one person while another holds the first, and what
either makes of it. All
constants but the amounts are symmetric in `settlements`, which states no liveness.

`CarryingWithinOriginal` is what the messages "Settlement would exceed the
current open-item balance" and "Settlement would over-allocate the open item"
promise. The two checks look at the transaction amount only: a partial settlement carries its
rounded share of the original amount even when less is left. 6 units carried at
3 and settled by 1, 1 and 3 carry 1, 1 and 2. The view `open_item_balances`
hides the excess, and the last unit cannot be settled any more. An item
that does get settled in full comes out clean (`SettledIsClean`).

### Proofs

`OpenItemProofs` proves, for any documents, settlements, connections, amounts and
bounds (assumptions: amounts and parts are positive numbers), every property of the
run, the refinement included.

None of the invariants is inductive alone; `IInv` adds:

 * `TotalsHold`: `SumsOfLive`, and that finitely many settlements hold something of
   an item (`Holders`), without which a sum means nothing. A settlement adds one
   term to a sum and a void takes one away (`AddToTotals`, `TakeFromTotals`, by the
   lemmas of `FiniteSums`, below); that no sum ever becomes negative, that an item
   nothing is applied to carries nothing, and that then no settlement is in force,
   all follow (`HeldBounds`).
 * `ItemsArePosted`: only a posted document has anything settled or about to be,
   which is `VoidedUnsettled`. This is where the advisory locks are used: the
   trigger would let a settlement of a voided item pass.
 * `LocksHeld`, `PaidHasRows`, `AbsentHasNoVersion`: what an open transaction and
   a missing row exclude.

`FinishBalance` is the arithmetic of a settlement: it stays within the amount,
carries what the balance prescribes, and the last one takes all that is left.

### Sums

`FiniteSums` is about `SumFunction` of the community modules, which both this part and
banking add up with. It is defined by recursion on a set from which `CHOOSE` takes one
element after another, so everything about it takes an induction. The library's induction
theorems take a predicate as a parameter, which the provers cannot instantiate; its
principle that a well-founded relation has minimal elements (`WFMin`) speaks of *sets*
instead, and so do the inductions here (`SubsetInduction`, `FiniteInduction`): the
family of those subsets of which something holds takes the place of the predicate.
`SumExists` and `SumUnfolds` show that the recursion has a value, `SumSplit`
that it does not matter what `CHOOSE` takes, and the rest is what the models' sums need:
one term more (`SumGrows`), a part of a sum (`SumOfPart`), other names for the terms
(`SumRenamed`), terms that are 0 (`SumWithoutZeros`).
## 4. Accounting e-mail: `InboundEmail`, `InvoiceDelivery`

Mail comes in for the document inbox and goes out with issued invoices. The two
share no row.

### Inbound: state and actions

One instance is one message of one intake address. A message is processed right
after it is staged, again by the automatic worker when it is due, and when an
operator asks. Processing is a series of short transactions with an upload
between them, under a claim of the message row: a token and five minutes.

| variable | column |
|---|---|
| `status`, `retries`, `due` | `inbound_email_messages.status`, `.retry_count`, whether `.next_retry_at` has passed |
| `holder`, `live` | whose token is `processing_token`, whether `processing_expires_at` is ahead |
| `state`, `attempts` | `inbound_email_attachments.status`, `.attempt_count` |
| `cleared` | attachments an operator let out of quarantine (history) |
| `routable`, `storage` | the address and its member are active; whether it has document storage |
| `pc`, `job` | where each process is, and what it read earlier |

An action is a transaction: `Stage` or `StageQuarantined`; `Claim` and `ClaimDue`
(`loadInboundMessageForRetry`, for which the initial processing, an operator and the
worker differ in the retry they count); `ReadWork`; and for each attachment
`Renew`, `CountAttempt` and `FinishAttachment`. The last transaction
(`finishMessage`) is two actions: `SettleRead` takes the row lock and reads the
attachments, `SettleWrite` writes. Between them only `ClearQuarantine` can do
something, because it does not wait for the row. `Abandon` is an operation that
finds its claim lost, `Crash` a process that stops, `LeaseExpires` and
`RetryFallsDue` the clock, and a slow process goes on after `LeaseExpires`.

Left out: a second delivery of the same message (it waits for the lock of the address,
finds the row and changes nothing), encryption, authentication and scanning
(they decide nothing but the outcome of an attachment, which is any of three),
the content of mail, and a commit whose reply is lost. A transaction that
has checked its claim is assumed to commit before the claim can expire *and* be
taken over, which are five minutes.

### Inbound: runs

| run | instance | states | shows |
|---|---|---|---|
| `inbound_intake` | up to 2 attachments, 2 processes, 1 retry, 1 change or clearance, with fairness | 284 thousand | `TypeOK`, `AttemptsWithinRetries`, `SettledTogether`, `InboxedIsFinal`, `EventuallySettled` |
| `unconfigured_intake` | the same with 2 retries and without fairness | violation | `UnconfiguredStaysPending` |

The code allows five retries; one is enough for a first, a last and an exhausted
claim. Two processes are the holder of a claim and one that comes late. The run uses
no symmetry, since it checks liveness.

`SettledTogether` relates a message and its attachments, which different transactions
write: a message that is ready has nothing pending, what is pending and was not let out
of quarantine late has a pending message, and a dead letter has used up its retries.

`EventuallySettled` is checked under `Fairness`, which says what the code's
scheduling gives: a process that has begun goes on or stops (`Work` weakly
fair), time passes (leases expire, retries fall due), and the worker that
`startInboundRetryWorker` starts polls every minute, so that a due message is
claimed again and again (`ClaimDue` strongly fair: it is disabled while
somebody holds the claim). A process may stop in every upload; what is assumed not
to go wrong *every* time are the short transactions between a claim and its
uploads and at the end. No person has to do anything.

`UnconfiguredStaysPending` is a sentence of the operations guide
(`docs/operations/accounting-email.md:146`). Waiting for storage counts as a
failed retry, so mail received before storage is selected is given up after
about five hours, and nothing leads out of the dead letters.

What no property claims: an attachment cleared at the moment its message is settled, or
after that, waits for a retry that cannot be claimed (listed as a hazard).

### Inbound: proofs

`InboundProofs` proves every property but `EventuallySettled`, for any number of
attachments, workers, retries and changes. What makes the invariants inductive:

 * `TakenOnPending`: whoever holds the claim finds what it took on as it read it,
   since only a holder changes a waiting attachment. This gives `InboxedIsFinal`.
 * `VerdictStands`: the verdict that a settling transaction has reached is still
   right when it is written, except for attachments cleared meanwhile, which is
   why `SettledTogether` excludes a cleared attachment from what must be pending.
 * For the attempts, `Tallied`: the attempts made of an attachment and the
   workers that still *owe* one are at most the claims counted and the initial
   processing. The workers are a finite set, and the proof counts them
   (`SubsetCounts`).


### Outbound: state and actions

One instance of `InvoiceDelivery` is the deliveries to one customer. A delivery is a
transaction that records the attempt, a call of the mail provider outside of
any, and a transaction that records how it ended. An attempt is named by its
idempotency key, which the provider is given too.

| variable | column |
|---|---|
| `status`, `command`, `retries`, `known` | `invoice_delivery_attempts.status`, `.command_hash`, `.retry_count`, whether `.provider_message_id` is set |
| `recorded` | `invoice_delivery_events`, by the status they ask for |
| `accepted` | the command the provider took under the key (external) |
| `suppression`, `version` | `customer_delivery_preferences.suppression_status`, `.version` (0 for no row) |
| `pc`, `job` | where each process is, and what it remembers of the attempt |
| `seen` | the preference as each person was last shown it |
| `strikes`, `overwritten` | times a callback suppressed the customer; attempts a late failure was recorded over (history) |

`Check` and `Queue` are the transaction of a new delivery, whose read of the
suppression no lock protects. `Replay` is the same command again, which sends what is not
sent yet; `Retry` is a person's retry of a failed attempt. The call is `Accept`, `LoseAnswer`
(taken, but the process does not learn of it) or `Refuse`; what follows an answer is
`MarkSent`, `MarkRetried` or, when it fails, `MarkFails`; what follows an error is
`RecordFailure`. `Abandon` is a process that stops, or an error that nobody
records. `Callback` is an event of the provider, in any order; a repetition is
stuttering. `Look` and `Save` are a person with the preference's form.

Left out: what a delivery checks of the invoice before it begins (posted, the
exact version, its artifact), permissions and unconfigured providers, which only
refuse a command; the rendered PDF; `failure_code` and `next_retry_at`, which no
code reads; callbacks that arrive before the attempt holds the provider's id, which
are acknowledged without effect. That the provider takes one message under a key is
trusted, for as long as the key is used.

### Outbound: run

| run | instance | states | shows |
|---|---|---|---|
| `invoice_delivery` | 1 attempt, 2 commands, 2 processes, 2 people, 2 retries, 3 versions of the preference | 889 thousand | `TypeOK`, `OneMessagePerKey`, `OutcomeOfEvents`, `ReenabledAsSeen` |

One attempt is enough, as attempts share nothing but the preference, which its five
events may suppress as often. Two processes are a send and its repetition or retry; two
commands under one key are the right and a wrong one; two retries (five in the
code) are one to fail and one to be used up. No liveness: after a failure nothing
happens until a person retries.

What no property claims, because the code does otherwise:

 * `Replay` and `Retry` do not read the suppression, and `Queue` acts on an
   earlier read, although the guide says "A retry does not bypass suppression."
   (`docs/operations/accounting-email.md:269`).
 * A send that fails after another process sent the attempt makes it FAILED again, whatever
   it was (`overwritten`), and a later retry is answered by the provider with the
   message it already has.
 * A bounce that is called back before the id is stored, or of a customer without a
   preference row, suppresses nobody.
 * A late callback of an attempt that bounced before suppresses a customer again who has
   been enabled since.

### Outbound: proofs

`DeliveryProofs` proves the four properties for any number of attempts, commands,
processes, people and retries. The invariant adds three things: every process that
is sending or has sent carries the attempt's command, and one
with an answer has had a message accepted (`Jobs`); an id means an accepted message,
and an event or a status beyond FAILED means an id (`Rows`); and a form of the current version was
shown after the last strike, since a strike raises the version (`Forms`).
## 5. The document inbox: `DocumentInbox`, `DocumentRegister`

### State and actions

One instance is the inbox of one organization: files of its connected drives,
the items that record them, and the clients that claim, read, complete and file
them. The drive is part of the state, because it is changed outside of any
transaction, by the application and by its owner.

| variable | meaning |
|---|---|
| `where`, `content`, `name`, `home` | a file in the drive: folder, content, the upload key its name is made of, its connection |
| `status`, `version`, `claim`, `live` | `document_inbox_items.status`, `.content_version`, the claimant, whether `lease_until` is ahead |
| `action`, `sha`, `business` | the completion: its hash, `sha256`, `business_key` |
| `upload`, `hash` | `upload_key`, `upload_hash` |
| `pc`, `job`, `seen` | open transactions, and the content each client was last shown |
| `touched` | files the owner changed since their completion was checked or their filing done (history) |

Requests lock their connection first, so that those of one connection exclude
each other and a short one (`Sync` of a file, `Claim`, `Read`, `Review`,
`AdoptUpload`, `NewUpload`) is one action. A completion is two
(`BeginCompletion`, `CommitCompletion`): completions of other connections
overlap with it but for the advisory locks on checksum and business key, and its
lease may expire before it commits. Filing is three: `MoveFile` in the drive, `CommitFiling`
after the moved file was read again, `MarkFailed` in a transaction of its own.
`LostUpload`, `RollBack` and `Crash` are the answers, commits and
processes that are lost; the drive keeps what it did. The owner may `Drop`,
`Edit` and `Relocate` files at any time.

`CREATE` stands for drafts and for invoices over nothing, `ATTACH` for archived
documents, links to drafts and statement imports: the duplicate checks treat them
alike. `version` stands for the content itself (the md5 of Google Drive; the
tag of OneDrive also tells a restored content from the old one, which refuses more).
Replays of a command are stuttering.

Left out: nested folders and renames, changes of metadata alone, disconnection and
the refresh of credentials, the preparation of e-mail and PDF attachments (a
`Read` followed by an upload), what is created from a document.

`DocumentRegister` is the abstract specification: somebody is shown a document and
enters it as it was shown, unless the same original is entered already; the entry is
never changed, and the document is put away once, for good.
`DocumentInbox!ImplementsRegister` is the refinement: the entries are the
completed items, those put away the filed ones. It says that what a completion has checked before
its commit is as good as checked at its commit, and it includes
`CompletionStands`.

### Runs

| run | instance | states | shows |
|---|---|---|---|
| `inbox_filing` | 2 files, 2 connections, 2 clients, 3 contents of which one is of an unsupported format, 1 business key, 1 upload key, 1 change by the owner | 1.3 million | `TypeOK`, `OneRecordPerOriginal`, `CompletesWhatWasRead`, `ImplementsRegister`, `FilingStaysPossible`, `FiledAsCompleted`, `UploadKeysStandForContent` |

Two files and two clients are the least for two completions to overlap, one
upload key for an upload to be lost, filed and sent again, and one change for a
file to be edited under a reader, during its move or after it.

There is no liveness here: nobody but a client retries a completion or a filing.
`FilingStaysPossible` says instead that a retry can always succeed.

### Proofs

`InboxProofs` proves every property of the run and `CompletionStands`, for any number of files,
connections, clients, contents and changes. Open transactions belong to
different connections (`OnePerConnection`), so what a completion has checked
stays true (`Completing`) but for a completion of another connection, and that
one holds different advisory locks (`LocksExclude`, `LocksHeld`). With them
`OneRecordPerOriginal` is inductive; the others follow from the same invariant. The refinement
(`KeepsRegister`) has one lemma for each step that moves the register: a `Read` shows
(`ReadShows`), the commit of a filing puts away (`FilingPutsAway`), and the commit of a
completion enters (`CompletionEnters`), which finds no twin because
`OneRecordPerOriginal` holds after it. All other steps are stuttering.

## 6. Banking: `BankReconciliation`

### State and actions

One instance is the bank evidence of one ledger in one currency: mapped accounts, those of a
SimpleFIN connection (`Fed`) and those filled from files, and the sessions that
reconcile an account's statement period. Everything a session is created with is
immutable (a trigger of `0083` sees to it), so a session *is* the record of its columns
and only its status is state.

| variable | rows |
|---|---|
| `shown` | how much of `Shown` the bank has shown of an observation: it may be shown again, changed |
| `run`, `reply`, `ingesting` | `bank_sync_runs.status`; what a run's process has fetched; its open second transaction |
| `versions` | `bank_observation_versions`, by what of `Shown` they hold |
| `posted` | lines of posted journals |
| `status` | `bank_reconciliation_sessions.status` |
| `allocations`, `voided` | `bank_match_allocations` and their voids |
| `holds`, `target`, `plan` | open transactions: the session they lock, the status they set or the allocation they insert |

A synchronization is `BeginSync`, `Fetch` outside of any transaction, `Ingest`
and `CommitIngest`. A run that seems to be running for 15 minutes is abandoned by the
next one; time is left open, so any running run may be, and its process may
still ingest (`guard_bank_sync_lineage` is what stops it). `FailSync` is every
failure. A run that never goes on is a process that stopped.

A match (`BeginMatch`, `CommitMatch`) and a transition (`BeginAdvance`,
`CommitAdvance`) read under the lock of the session, the lock of the account's evidence
and the locks of line and version, and commit later: others run in between where no
lock keeps them out. `Abort` is every end without a commit. What only waits for
these locks is one action: `Create`, `ImportStatement`, `ImportTransactions`,
`VoidMatch`, `Void`. `Post` and `Unpost` are the ledger's. `Unpost` is one
action here, because its race with a match is the subject of run `unpost_matched`
and `Post`/`Unpost` between the two halves of a match give the same states.

`StatementBook` is the abstract specification: reconciliation as if each command
were decided and took effect at one moment. A match is made of a newest version that is
due, where version and line have room; it is unmade in a draft only; a session is opened as the
continuation of its account's chain; and it advances while its matches are posted lines and
newest versions, match what is due in full and make up its statement's movement.
`ImplementsStatementBook` is the refinement: what was told of an observation
(`Record`) and the matches without a void (`Standing`) are mapped, and locks, runs
and open transactions disappear. The ledger's side of a proof is not claimed at that moment: lines may be
posted, and other accounts' matches of the same lines unmade, while it is taken.

An allocation is identified by its idempotency key, and a key that comes again
changes nothing. Left out: `expectedVersion` (optional), permissions, step-up
authentication and rate limits, rules and proposals, balance anchors, cutovers,
mappings and their changes, credentials, encryption.

### Runs

| run | instance | states | shows |
|---|---|---|---|
| `bank_reconciliation` | 2 accounts on one cash account, 2 observations of which one is shown twice, 2 lines, 3 sessions, 2 keys, runs and clients | 299 thousand | `TypeOK`, `WithinEvidence`, `Chained`, `FinalizedLinesPosted`, `FinalizedExplained`, `CurrentAtFinalization`, `InBankOrder`, `ImplementsStatementBook` |

Two accounts share a cash account, so that sessions that share no lock compete
for a line; one observation is shown again with another date and amount, which a line of
the next period matches, so that it moves from one session to the next, before or after
the first is finalized; two sessions of one account follow each other; two runs are an abandoned one and
its successor. The last clause of `Chained`, that periods leave no gap, needs three sessions
of one account and is exercised by the proof only.

No liveness: a reconciliation is the work of people, and a synchronization
begins when somebody asks for it.

What no property claims, though a reader may expect it: a finalized session may
count lines as matched that only a *draft* session of another account matches and
that is voided later; when an observation changes after its session was finalized, its
new version can be reconciled again; content that is shown again after a change
is taken as known, so that the last version is not what the bank shows. No
document of the repository says otherwise.

### Proofs

`BankProofs` proves all properties of the run and `MatchesStand` for any accounts, lines, sessions,
runs and clients, and any finite set of observations, of which each shows any sequence
of contents. The assumptions are the foreign keys (every observation and session is of an
account, every line of a period), that what has no file is shown by the bank, and
that a row of a file has a content.

 * The evidence (`EInv`): a run is abandoned when another begins, so there is one
   running (`OneRunning`); what a run that can still ingest holds is at least as
   new as every version (`Ahead`) and, if it is being ingested while its successor
   has fetched, no newer than the successor's (`Succession`). Hence `InBankOrder`.
 * The sessions (`SInv`): what a transition has proved of its session stays true
   until it commits (`Proved`), because one open transaction uses an account's
   evidence (`OnePerAccount`), alone (`IngestionAlone`), and lines it matched
   cannot be unposted. Hence `CurrentAtFinalization`, `FinalizedLinesPosted` and
   `MatchesStand`.
 * `Chained` uses that the sessions of an account have a last one: among the
   periods of a set there is a least by well-founded induction on the numbers
   (`LeastNat`), and what comes before a period has a greatest (`LastSession`).
 * The amounts (`AInv`). `WithinEvidence` is kept because an open match has *room*: its
   amount and what counts already stay within its version and its line (`Room`). Others
   cannot use the room up, because two open matches are of different lines (the
   advisory lock) and of different versions (`OnePerAccount`), and that nothing of
   a voided session counts again is a fact of the life cycle (`VoidedStays`). `FinalizedExplained`
   follows from the moment of the proof: a balanced session matches every posted
   version of its period in full, the others have no amount, so the matched versions add up to what all
   of them do (`BalancedExplained`: `SumWithoutZeros` and `SumRenamed`), and neither its matches
   nor the contents of versions on record ever change (`ExplainedKept`, `NumberedStays`).
 * The refinement (`ImplementsBook`). What open transactions have read of versions is
   still so when they commit (`RInv`, by the evidence lock), so that a match
   finds its room (`Commits`) and a transition its proof (`Advances`) in the books of that moment. That a session
   continues the last one of its account is `Opens`.

`Frames` names, for each variable, the few actions that change it; every lemma that
follows splits on these instead of all actions.

## 7. What the checks do not show

Liveness is claimed where the code promises it: received mail, which a worker polls
(`EventuallySettled`, under the fairness of section 4; no other property assumes any).
Everywhere else each step is the decision of a person, an agent or a
client, and nothing is promised when they stop. `CHECK_DEADLOCK FALSE` is set in
every configuration for the same reason, and because the bounds end a run.

Out of the prover's reach, and so model-checked only: liveness under fairness
(`EventuallySettled`). The violations are model-checked only. Every other property of a
passing run is proved for all values of the constants, the four refinements included.

The models trust PostgreSQL for row locks, advisory locks, unique indexes and
READ COMMITTED snapshots, and row-level security for the separation of tenants.

## 8. Not modelled, and plan

Parts without a module, with the reason:

 * *Reporting, user interface, deployment, database access*: queries, pages, shell scripts
   and the transaction wrapper; they have no state of their own to model, or only
   services outside of the repository.
 * *Chart of accounts, parties, tax, assets, exchange rates, close checklist*: rows
   that change one at a time under an optimistic version, with arithmetic that a
   table of examples tests as well.
 * *Identity, MCP server, demo*: real concurrency, not modelled yet; they are next.

Inside of the modelled parts, each section names what it leaves out. The largest are bank
cutovers and proposals, the connection of drives and banks, and the booking
rules of received mail.

Next, in this order:

 1. `Sessions` and `AuthMail`: session rotation, trusted browsers, sign-up and
    recovery, and the worker of the outbox with its leases. Runs: a crash
    between send and mark, a token used twice. Liveness: every mail is sent or given up.
 2. `McpTokens` and `McpExecution`: authorization codes, refresh-token rotation and
    idempotent executions. Theorems: a code is redeemed once; an execution has
    one outcome.
 3. `LockOrder`: the row and advisory locks of the ledger and the subledgers in
    the order the commands take them, for the deadlocks that are listed as a hazard.
    Theorem: commands that lock in key order do not deadlock.
 4. `DemoFence`: the lease of a demo session against the nightly reset, and the
    write activation of an organization.
 5. Bank cutovers and proposals on top of `BankReconciliation`.
 6. Abstract specifications of the e-mail parts, which have none: the fate of a received
    message, and of an invoice that was sent.

Each module is written with its bounds as constants, one action per operation
and no recursive operator, so that its invariants can be proved after its runs pass.
