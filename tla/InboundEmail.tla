---------------------------- MODULE InboundEmail ----------------------------
(***************************************************************************)
(* One accounting e-mail of one intake address: its staging when the relay *)
(* delivers it, and the initial, automatic and manual processing that      *)
(* uploads its attachments to the document inbox.                          *)
(*                                                                         *)
(* Processing is a sequence of short READ COMMITTED transactions with an   *)
(* upload between them.  It starts by claiming the message row: a token    *)
(* and an expiry five minutes ahead.  A process may stop at any point, and *)
(* a slow one may go on after its claim has expired and another process    *)
(* has claimed the message.  So every transaction is an action of the      *)
(* worker that runs it, and what a worker read earlier is kept in job.     *)
(*                                                                         *)
(* The last transaction locks the message row, reads the attachments and   *)
(* then writes the row.  Clearing a quarantine does not wait for that lock *)
(* (its UPDATE looks for rows that are settled already), so it is split in *)
(* two: SettleRead and SettleWrite.                                        *)
(*                                                                         *)
(* A second delivery of the same message finds its row under the lock of   *)
(* the address and changes nothing; it is left out.  The upload itself is  *)
(* the subject of module DocumentInbox; here it stores the attachment,     *)
(* refuses it, or fails in a way worth retrying.                           *)
(***************************************************************************)
EXTENDS Naturals, FiniteSets

CONSTANTS
  Attachments,   \* attachments the message may have
  Workers,       \* processes that may work on it at once
  MaxRetries,    \* retries after the initial processing (5 in the code)
  MaxChanges,    \* bound: changes of the address and clearances of a quarantine
  NoOne          \* processing_token IS NULL

ASSUME MaxRetriesAssumption == MaxRetries \in Nat \ {0}
ASSUME MaxChangesAssumption == MaxChanges \in Nat
ASSUME WorkersAssumption == IsFiniteSet(Workers)
ASSUME NoOneAssumption == NoOne \notin Workers

VARIABLES
  status,        \* inbound_email_messages.status, "NONE" before staging
  retries,       \* retry_count
  due,           \* next_retry_at is null or has passed
  holder,        \* the worker whose token is processing_token
  live,          \* processing_expires_at is in the future
  state,         \* status of each attachment, "NONE" if the message has no such
  attempts,      \* attempt_count of each attachment
  cleared,       \* attachments whose quarantine was cleared (history)
  routable,      \* the address is active and its member too
  storage,       \* connection_id: "NEVER" selected so far, "SELECTED", "REMOVED"
  changes,       \* changes made so far, for MaxChanges
  pc, job        \* where each worker is, and what it remembers

row == <<status, retries, due, holder, live>>
files == <<state, attempts, cleared>>
address == <<routable, storage, changes>>
workers == <<pc, job>>
vars == <<row, files, address, workers>>

Settled == {"READY", "NEEDS_REVIEW", "QUARANTINED", "DEAD_LETTER"}
Outcome == {"INBOXED", "RETRY_PENDING", "QUARANTINED"}
\* UNSUPPORTED is QUARANTINED with a code that cannot be cleared.
State == Outcome \cup {"NONE", "UNSUPPORTED", "DEAD_LETTER"}
Place == {"idle", "staged", "asked", "claimed", "working", "renewed",
          "counted", "settling"}

(* What a worker remembers: the attachments it is to process, the one it   *)
(* is at or is to give up, the retry count, the storage, the verdict.      *)
Job == [todo : SUBSET Attachments, at : SUBSET Attachments, tries : 0 .. MaxRetries,
        storage : BOOLEAN,
        out : Settled \cup {"NONE", "RETRY_PENDING"}]
NoJob == [todo |-> {}, at |-> {}, tries |-> 0, storage |-> FALSE,
          out |-> "NONE"]

Pending == {a \in Attachments : state[a] = "RETRY_PENDING"}
Holds(w) == holder = w /\ live
RowLocked == \E w \in Workers : pc[w] = "settling"
Change == changes < MaxChanges /\ changes' = changes + 1

Goto(w, place, j) == /\ pc' = [pc EXCEPT ![w] = place]
                     /\ job' = [job EXCEPT ![w] = j]

-----------------------------------------------------------------------------
(* Staging.                                                                *)

Init ==
  /\ status = "NONE" /\ retries = 0 /\ due = FALSE /\ holder = NoOne /\ live = FALSE
  /\ state = [a \in Attachments |-> "NONE"]
  /\ attempts = [a \in Attachments |-> 0]
  /\ cleared = {}
  /\ routable = TRUE /\ storage \in {"NEVER", "SELECTED"} /\ changes = 0
  /\ pc = [w \in Workers |-> "idle"]
  /\ job = [w \in Workers |-> NoJob]

(* The rate, size and count limits quarantine the whole message.           *)
StageQuarantined(w, arrived) ==
  /\ status = "NONE" /\ routable /\ pc[w] = "idle"
  /\ status' = "QUARANTINED"
  /\ state' = [a \in Attachments |-> IF a \in arrived THEN "QUARANTINED" ELSE "NONE"]
  /\ UNCHANGED <<retries, due, holder, live, attempts, cleared, address, workers>>

Stage(w, arrived, unsupported) ==
  /\ status = "NONE" /\ routable /\ pc[w] = "idle"
  /\ status' = "RETRY_PENDING" /\ due' = FALSE
  /\ state' = [a \in Attachments |->
                 IF a \in unsupported THEN "UNSUPPORTED"
                 ELSE IF a \in arrived THEN "RETRY_PENDING" ELSE "NONE"]
  /\ Goto(w, "staged", [NoJob EXCEPT !.todo = Attachments])
  /\ UNCHANGED <<retries, holder, live, attempts, cleared, address>>

-----------------------------------------------------------------------------
(* Requests of an operator; the automatic worker needs none.               *)

RetryMessage(w) ==
  /\ status # "NONE" /\ pc[w] = "idle"
  /\ Goto(w, "asked", [NoJob EXCEPT !.todo = Attachments])
  /\ UNCHANGED <<row, files, address>>

RetryAttachment(w, a) ==
  /\ pc[w] = "idle" /\ state[a] = "RETRY_PENDING"
  /\ Goto(w, "asked", [NoJob EXCEPT !.todo = {a}])
  /\ UNCHANGED <<row, files, address>>

(* The clearance commits before it asks for the attachment's retry.        *)
ClearQuarantine(w, a) ==
  /\ pc[w] = "idle" /\ state[a] = "QUARANTINED" /\ Change
  /\ state' = [state EXCEPT ![a] = "RETRY_PENDING"]
  /\ cleared' = cleared \cup {a}
  /\ IF status \in {"NEEDS_REVIEW", "QUARANTINED"}
     THEN status' = "RETRY_PENDING" /\ due' = TRUE
     ELSE UNCHANGED <<status, due>>
  /\ Goto(w, "asked", [NoJob EXCEPT !.todo = {a}])
  /\ UNCHANGED <<retries, holder, live, attempts, routable, storage>>

-----------------------------------------------------------------------------
(* Claiming.                                                               *)

\* Mutant: a claim is never taken over.
ClaimableOnce(dueOnly) ==
  status = "RETRY_PENDING" /\ holder = NoOne /\ routable /\ (dueOnly => due)
Claimable(dueOnly) ==
  status = "RETRY_PENDING" /\ ~live /\ routable /\ (dueOnly => due)

\* Mutant: the count goes on past its limit.
RetriesUnlimited(initial) == IF initial THEN retries ELSE retries + 1
(* retry_count counts at the claim, so a crash uses up the retry.          *)
RetriesAfter(initial) ==
  IF initial \/ retries >= MaxRetries THEN retries ELSE retries + 1

\* Mutant: the recovery of the last retry grants another one.
TakeClaimAfterLast(w, only, initial) ==
  /\ retries' = RetriesAfter(initial)
  /\ due' = TRUE /\ holder' = w /\ live' = TRUE
  /\ Goto(w, "claimed", [NoJob EXCEPT !.todo = only, !.tries = retries',
                           !.storage = (storage = "SELECTED")])
  /\ UNCHANGED <<status, files, address>>
(* A claim that finds the retries used up is to settle, without an upload. *)
TakeClaim(w, only, initial) ==
  /\ retries' = RetriesAfter(initial)
  /\ due' = TRUE /\ holder' = w /\ live' = TRUE
  /\ Goto(w, "claimed", [NoJob EXCEPT
       !.todo = IF retries >= MaxRetries THEN {} ELSE only,
       !.tries = retries', !.storage = (storage = "SELECTED")])
  /\ UNCHANGED <<status, files, address>>

ClaimDue(w) ==
  /\ pc[w] = "idle" /\ ~RowLocked /\ Claimable(TRUE)
  /\ TakeClaim(w, Attachments, FALSE)

Claim(w) ==
  /\ pc[w] \in {"staged", "asked"} /\ ~RowLocked /\ Claimable(FALSE)
  /\ TakeClaim(w, job[w].todo, pc[w] = "staged")

(* Nothing to claim, or the address is unavailable: to an operator also    *)
(* when it is the personal address of another member.                      *)
NoClaim(w) ==
  /\ \/ pc[w] = "staged" /\ ~Claimable(FALSE)
     \/ pc[w] = "asked"
  /\ ~RowLocked
  /\ Goto(w, "idle", NoJob)
  /\ UNCHANGED <<row, files, address>>

-----------------------------------------------------------------------------
(* Processing under the claim.                                             *)

\* Mutant: a retry takes every attachment, not only those that wait for one.
ReadWorkAll(w) ==
  /\ pc[w] = "claimed"
  /\ Goto(w, "working", job[w])
  /\ UNCHANGED <<row, files, address>>
ReadWork(w) ==
  /\ pc[w] = "claimed"
  /\ Goto(w, "working", [job[w] EXCEPT !.todo = @ \cap Pending])
  /\ UNCHANGED <<row, files, address>>

Renew(w, a) ==
  /\ pc[w] = "working" /\ a \in job[w].todo /\ Holds(w) /\ routable
  /\ Goto(w, "renewed", [job[w] EXCEPT !.todo = @ \ {a}, !.at = {a}])
  /\ UNCHANGED <<row, files, address>>

(* Not guarded by the token.  It waits for a transaction that is about to  *)
(* move the attachment to the dead letters.                                *)
CountAttempt(w) ==
  /\ pc[w] = "renewed" /\ ~RowLocked
  /\ attempts' = [a \in Attachments |->
                    IF a \in job[w].at \cap Pending THEN attempts[a] + 1
                                                    ELSE attempts[a]]
  /\ Goto(w, "counted", job[w])
  /\ UNCHANGED <<row, state, cleared, address>>

(* The content is read, scanned and uploaded, which takes any time, and    *)
(* the outcome recorded if the claim is still held then.                   *)
FinishAttachment(w, out) ==
  /\ pc[w] = "counted" /\ Holds(w)
  /\ job[w].storage \/ out = "RETRY_PENDING"
  /\ state' = [a \in Attachments |-> IF a \in job[w].at THEN out ELSE state[a]]
  /\ Goto(w, "working", [job[w] EXCEPT !.at = {}])
  /\ UNCHANGED <<row, attempts, cleared, address>>

(* The attachments that become dead letters, and the status that follows.  *)
Dead(w) == IF job[w].tries >= MaxRetries THEN Pending ELSE {}
Has(w, S) == \E a \in Attachments \ Dead(w) : state[a] \in S
\* Mutant: what is in the inbox decides first.
VerdictInboxedFirst(w) ==
  IF Has(w, {"RETRY_PENDING"}) THEN "RETRY_PENDING"
  ELSE IF Dead(w) # {} \/ Has(w, {"DEAD_LETTER"}) THEN "DEAD_LETTER"
  ELSE IF Has(w, {"INBOXED"}) THEN "READY" ELSE "NEEDS_REVIEW"
Verdict(w) ==
  IF Has(w, {"RETRY_PENDING"}) THEN "RETRY_PENDING"
  ELSE IF Dead(w) # {} \/ Has(w, {"DEAD_LETTER"}) THEN "DEAD_LETTER"
  ELSE IF Has(w, {"QUARANTINED", "UNSUPPORTED"}) THEN "NEEDS_REVIEW"
  ELSE IF Has(w, {"INBOXED"}) THEN "READY" ELSE "QUARANTINED"

SettleRead(w) ==
  /\ pc[w] = "working" /\ job[w].todo = {} /\ Holds(w) /\ ~RowLocked
  /\ Goto(w, "settling", [job[w] EXCEPT !.at = Dead(w), !.out = Verdict(w)])
  /\ UNCHANGED <<row, files, address>>

SettleWrite(w) ==
  /\ pc[w] = "settling"
  /\ state' = [a \in Attachments |-> IF a \in job[w].at THEN "DEAD_LETTER" ELSE state[a]]
  /\ status' = job[w].out /\ due' = FALSE /\ holder' = NoOne /\ live' = FALSE
  /\ Goto(w, "idle", NoJob)
  /\ UNCHANGED <<retries, attempts, cleared, address>>

(* The claim was lost or the address is gone: the error ends the           *)
(* processing and leaves the row as it is.                                 *)
Refused(w) ==
  \/ pc[w] = "working" /\ job[w].todo # {} /\ ~(Holds(w) /\ routable)
  \/ pc[w] = "working" /\ job[w].todo = {} /\ ~Holds(w)
  \/ pc[w] = "counted" /\ ~Holds(w)
Abandon(w) ==
  /\ Refused(w)
  /\ Goto(w, "idle", NoJob)
  /\ UNCHANGED <<row, files, address>>

(* The process stops, or the database fails it; open transactions roll     *)
(* back.                                                                   *)
Crash(w) ==
  /\ pc[w] # "idle"
  /\ Goto(w, "idle", NoJob)
  /\ UNCHANGED <<row, files, address>>

-----------------------------------------------------------------------------
(* Time and the address.                                                   *)

LeaseExpires ==
  /\ live /\ live' = FALSE
  /\ UNCHANGED <<status, retries, due, holder, files, address, workers>>

RetryFallsDue ==
  /\ status = "RETRY_PENDING" /\ ~due /\ due' = TRUE
  /\ UNCHANGED <<status, retries, holder, live, files, address, workers>>

SelectStorage ==
  /\ storage # "SELECTED" /\ Change /\ storage' = "SELECTED"
  /\ UNCHANGED <<row, files, routable, workers>>

RemoveStorage ==
  /\ storage = "SELECTED" /\ Change /\ storage' = "REMOVED"
  /\ UNCHANGED <<row, files, routable, workers>>

Reroute ==
  /\ Change /\ routable' = ~routable
  /\ UNCHANGED <<row, files, storage, workers>>

-----------------------------------------------------------------------------

Work(w) ==
  \/ Claim(w) \/ NoClaim(w) \/ ReadWork(w)
  \/ \E a \in Attachments : Renew(w, a)
  \/ CountAttempt(w) \/ (\E out \in Outcome : FinishAttachment(w, out))
  \/ SettleRead(w) \/ SettleWrite(w) \/ Abandon(w)

Request(w) ==
  \/ \E arrived \in SUBSET Attachments :
       \/ StageQuarantined(w, arrived)
       \/ \E unsupported \in SUBSET arrived : Stage(w, arrived, unsupported)
  \/ RetryMessage(w)
  \/ \E a \in Attachments : RetryAttachment(w, a) \/ ClearQuarantine(w, a)

Environment ==
  \/ LeaseExpires \/ RetryFallsDue \/ SelectStorage \/ RemoveStorage \/ Reroute

Next ==
  \/ \E w \in Workers : Request(w) \/ ClaimDue(w) \/ Work(w) \/ Crash(w)
  \/ Environment

Spec == Init /\ [][Next]_vars

(* A process that has begun goes on until it ends or stops, the automatic  *)
(* worker of a running process looks for due messages, and time passes.    *)
(* Nobody has to deliver, retry, clear or change anything.  A process may  *)
(* stop in every upload, but it does not stop, or stay for five minutes,   *)
(* between the short transactions of a claim every time.                   *)
Fairness ==
  /\ \A w \in Workers : WF_vars(Work(w))
  /\ SF_vars(\E w \in Workers : ClaimDue(w))
  /\ SF_vars(\E w \in Workers : Holds(w) /\ ReadWork(w))
  /\ SF_vars(\E w \in Workers : SettleRead(w))
  /\ SF_vars(\E w \in Workers : SettleWrite(w))
  /\ WF_vars(LeaseExpires) /\ WF_vars(RetryFallsDue)

FairSpec == Spec /\ Fairness

-----------------------------------------------------------------------------
(* Properties.                                                             *)

(* Every variable has its type.  The retry count stays within its limit    *)
(* though claims are taken concurrently and after crashes.                 *)
TypeOK ==
  /\ status \in Settled \cup {"NONE", "RETRY_PENDING"}
  /\ retries \in 0 .. MaxRetries /\ due \in BOOLEAN
  /\ holder \in Workers \cup {NoOne} /\ live \in BOOLEAN
  /\ state \in [Attachments -> State]
  /\ attempts \in [Attachments -> Nat] /\ cleared \in SUBSET Attachments
  /\ routable \in BOOLEAN /\ storage \in {"NEVER", "SELECTED", "REMOVED"}
  /\ changes \in 0 .. MaxChanges
  /\ pc \in [Workers -> Place]
  /\ job \in [Workers -> Job]

(* Once an attachment is in the document inbox no process takes it out of  *)
(* that state: not the holder of a claim that has expired, which may still *)
(* be uploading it when another process has finished it.                   *)
InboxedIsFinal ==
  [][\A a \in Attachments : state[a] = "INBOXED" => state'[a] = "INBOXED"]_vars

(* No attachment is processed more often than the retries counted and the  *)
(* initial processing allow, whoever asks, crashes or comes late; so never *)
(* more than MaxRetries + 1 times.                                         *)
AttemptsWithinRetries ==
  \A a \in Attachments : attempts[a] <= retries + 1

(* A message that reports READY has all its attachments in the document    *)
(* inbox, and at least one.                                                *)
ReadyIsComplete ==
  status = "READY" =>
    /\ \A a \in Attachments : state[a] \in {"NONE", "INBOXED"}
    /\ \E a \in Attachments : state[a] = "INBOXED"

(* An attachment that waits for a retry belongs to a message that can be   *)
(* claimed for one, unless it was let out of quarantine: no interleaving   *)
(* of a late finish and a settlement leaves it behind.                     *)
PendingHasPendingMessage ==
  \A a \in Attachments \ cleared :
    state[a] = "RETRY_PENDING" => status = "RETRY_PENDING"

(* Attachments are given up only together with their message, and only     *)
(* when the last retry has been claimed.                                   *)
DeadLettersAreSpent ==
  \A a \in Attachments :
    state[a] = "DEAD_LETTER" => status = "DEAD_LETTER" /\ retries = MaxRetries

(* A message and its attachments are settled together, in every            *)
(* interleaving of uploads, late finishes and clearances: READY means all  *)
(* of them, and none is left to wait or given up on its own.               *)
SettledTogether ==
  ReadyIsComplete /\ PendingHasPendingMessage /\ DeadLettersAreSpent

(* A pending message is settled in the end, whatever fails and however     *)
(* often its workers stop, unless its address is not available.            *)
EventuallySettled ==
  status = "RETRY_PENDING" ~> (status # "RETRY_PENDING" \/ ~routable)

(* What the operations guide says: mail received before document storage   *)
(* is selected remains retry-pending.                                      *)
UnconfiguredStaysPending ==
  storage = "NEVER" => \A a \in Attachments : state[a] # "DEAD_LETTER"
=============================================================================
