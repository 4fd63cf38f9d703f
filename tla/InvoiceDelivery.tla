-------------------------- MODULE InvoiceDelivery --------------------------
(***************************************************************************)
(* The delivery of issued invoices to one customer by e-mail: the attempts *)
(* a person or the issue of an invoice starts, their retries, the          *)
(* callbacks of the mail provider, and the suppression of a customer whose *)
(* address bounced or who complained.                                      *)
(*                                                                         *)
(* A delivery is a transaction that records the attempt, a call of the     *)
(* provider outside of any transaction, and a transaction that records how *)
(* it ended.  The same command may come again at any time, also while the  *)
(* first is still under way, and a process may stop at any point; so every *)
(* step is an action of the process that runs it.                          *)
(*                                                                         *)
(* An attempt is identified by its idempotency key, which the provider is  *)
(* given, too: it takes one message under a key and answers a repetition   *)
(* with the id of the first (external; the code relies on it).  A callback *)
(* that comes before the attempt holds that id is acknowledged without     *)
(* effect, so it is a step of nobody here.                                 *)
(***************************************************************************)
EXTENDS Naturals

CONSTANTS
  Attempts,      \* idempotency keys of deliveries to the customer
  Commands,      \* commands a client may send under a key, by their hash
  Processes,     \* processes that may deliver at once
  People,        \* people who may save the customer's preference
  MaxRetries,    \* the bound of retry_count (5 in the code)
  MaxVersion,    \* bound: versions of the preference made by saving it
  None           \* a column or a memory that is empty

ASSUME MaxRetriesAssumption == MaxRetries \in Nat
ASSUME MaxVersionAssumption == MaxVersion \in Nat

\* The statuses of an attempt that is about to be sent or to be sent again,
\* and those a callback asks for.
Unsent == {"QUEUED", "FAILED"}
Events == {"SENT", "DELIVERED", "BOUNCED", "COMPLAINED", "FAILED"}
Final == {"BOUNCED", "COMPLAINED"}

ASSUME NoneAssumption == None \notin Commands \cup Events \cup {"QUEUED"}

VARIABLES
  status,        \* invoice_delivery_attempts.status, None before the insert
  command,       \* its command_hash
  retries,       \* its retry_count
  known,         \* its provider_message_id is set
  recorded,      \* its invoice_delivery_events, by the status they ask for
  accepted,      \* the command the provider took under the key (external)
  suppression,   \* customer_delivery_preferences.suppression_status
  version,       \* customer_delivery_preferences.version, 0 without a row
  pc, job,       \* where each process is, and what it remembers
  seen,          \* what each person was last shown of the preference
  strikes,       \* times a callback suppressed the customer (history)
  overwritten    \* attempts a late failure was recorded over (history)

attempts == <<status, command, retries, known, recorded>>
preference == <<suppression, version, seen, strikes>>
vars == <<attempts, accepted, preference, pc, job, overwritten>>

Place == {"idle", "checked", "sending", "answered", "failed"}
Job == [attempt : Attempts, kind : {"SEND", "RETRY"}, command : Commands]
Snapshot == [version : Nat, strikes : Nat]

TypeOK ==
  /\ status \in [Attempts -> Events \cup {"QUEUED", None}]
  /\ command \in [Attempts -> Commands \cup {None}]
  /\ retries \in [Attempts -> 0 .. MaxRetries]
  /\ known \in [Attempts -> BOOLEAN]
  /\ recorded \in [Attempts -> SUBSET Events]
  /\ accepted \in [Attempts -> Commands \cup {None}]
  /\ suppression \in {"NONE", "SUPPRESSED"} /\ version \in Nat
  /\ pc \in [Processes -> Place]
  /\ job \in [Processes -> Job \cup {None}]
  /\ \A p \in Processes : pc[p] # "idle" => job[p] \in Job
  /\ seen \in [People -> Snapshot]
  /\ strikes \in Nat /\ overwritten \subseteq Attempts

Init ==
  /\ status = [a \in Attempts |-> None] /\ command = [a \in Attempts |-> None]
  /\ retries = [a \in Attempts |-> 0] /\ known = [a \in Attempts |-> FALSE]
  /\ recorded = [a \in Attempts |-> {}] /\ accepted = [a \in Attempts |-> None]
  /\ suppression = "NONE" /\ version = 0
  /\ pc = [p \in Processes |-> "idle"] /\ job = [p \in Processes |-> None]
  /\ seen = [e \in People |-> [version |-> 0, strikes |-> 0]]
  /\ strikes = 0 /\ overwritten = {}

(* Process p goes on to a place, with the job it has or takes up.          *)
Go(p, place) == pc' = [pc EXCEPT ![p] = place] /\ UNCHANGED job
Start(p, place, a, kind, c) ==
  /\ pc' = [pc EXCEPT ![p] = place]
  /\ job' = [job EXCEPT ![p] = [attempt |-> a, kind |-> kind, command |-> c]]
Leave(p) ==
  /\ pc' = [pc EXCEPT ![p] = "idle"] /\ job' = [job EXCEPT ![p] = None]

-----------------------------------------------------------------------------
(* Sending.  Nothing locks the preference that is read here: a callback    *)
(* may suppress the customer before the attempt is inserted.               *)

Check(p, a, c) ==
  /\ pc[p] = "idle" /\ status[a] = None
  /\ suppression = "NONE"
  /\ Start(p, "checked", a, "SEND", c)
  /\ UNCHANGED <<attempts, accepted, preference, overwritten>>

\* The insert fails if the key was used meanwhile: Abandon.
Queue(p) ==
  LET a == job[p].attempt IN
  /\ pc[p] = "checked" /\ status[a] = None
  /\ status' = [status EXCEPT ![a] = "QUEUED"]
  /\ command' = [command EXCEPT ![a] = job[p].command]
  /\ Go(p, "sending")
  /\ UNCHANGED <<retries, known, recorded, accepted, preference, overwritten>>

ReplayAnything(p, a, c) ==   \* mutant of Replay: command_hash is not compared
  /\ pc[p] = "idle" /\ status[a] \in Unsent
  /\ Start(p, "sending", a, "SEND", c)
  /\ UNCHANGED <<attempts, accepted, preference, overwritten>>
\* The command comes again: it must be the same, and only an attempt that is
\* not sent yet is sent.  The suppression is not read again.
Replay(p, a, c) ==
  /\ pc[p] = "idle" /\ status[a] \in Unsent
  /\ c = command[a]
  /\ Start(p, "sending", a, "SEND", c)
  /\ UNCHANGED <<attempts, accepted, preference, overwritten>>

\* A retry sends the stored command again; it does not read the suppression.
Retry(p, a) ==
  /\ pc[p] = "idle" /\ status[a] = "FAILED" /\ retries[a] < MaxRetries
  /\ Start(p, "sending", a, "RETRY", command[a])
  /\ UNCHANGED <<attempts, accepted, preference, overwritten>>

(* The call of the provider: it takes the message and answers, takes it    *)
(* while the answer is lost or comes too late, or does not take it.        *)
Take(p) ==
  LET a == job[p].attempt IN
  accepted' = [accepted EXCEPT ![a] = IF @ = None THEN job[p].command ELSE @]

Accept(p) ==
  /\ pc[p] = "sending" /\ Take(p) /\ Go(p, "answered")
  /\ UNCHANGED <<attempts, preference, overwritten>>

LoseAnswer(p) ==
  /\ pc[p] = "sending" /\ Take(p) /\ Go(p, "failed")
  /\ UNCHANGED <<attempts, preference, overwritten>>

Refuse(p) ==
  /\ pc[p] = "sending" /\ Go(p, "failed")
  /\ UNCHANGED <<attempts, accepted, preference, overwritten>>

(* The transaction after an answer.  A send that finds the attempt sent    *)
(* changes nothing; a retry that finds it so, or finds its count used up,  *)
(* fails and goes on to record a failure, as does any other error here.    *)
Sent(a) ==
  /\ status' = [status EXCEPT ![a] = "SENT"]
  /\ known' = [known EXCEPT ![a] = TRUE]
  /\ UNCHANGED <<command, recorded>>

MarkSent(p) ==
  LET a == job[p].attempt IN
  /\ pc[p] = "answered" /\ job[p].kind = "SEND"
  /\ \/ status[a] \in Unsent /\ Sent(a) /\ UNCHANGED retries
     \/ status[a] \notin Unsent /\ UNCHANGED attempts
  /\ Leave(p)
  /\ UNCHANGED <<accepted, preference, overwritten>>

MarkRetried(p) ==
  LET a == job[p].attempt IN
  /\ pc[p] = "answered" /\ job[p].kind = "RETRY"
  /\ status[a] = "FAILED" /\ retries[a] < MaxRetries
  /\ Sent(a) /\ retries' = [retries EXCEPT ![a] = @ + 1]
  /\ Leave(p)
  /\ UNCHANGED <<accepted, preference, overwritten>>

MarkFails(p) ==
  /\ pc[p] = "answered" /\ Go(p, "failed")
  /\ UNCHANGED <<attempts, accepted, preference, overwritten>>

RecordAnyFailure(p) ==   \* mutant of RecordFailure: nothing bounds the count
  LET a == job[p].attempt IN
  /\ pc[p] = "failed" /\ retries' = [retries EXCEPT ![a] = @ + 1] /\ Leave(p)
  /\ UNCHANGED <<status, command, known, recorded, accepted, preference, overwritten>>
(* The transaction after an error.  It does not look at the status: what a *)
(* send finds there becomes FAILED.  It is refused when the count is used  *)
(* up (a CHECK constraint).                                                *)
RecordFailure(p) ==
  LET a == job[p].attempt IN
  /\ pc[p] = "failed" /\ retries[a] < MaxRetries
  /\ retries' = [retries EXCEPT ![a] = @ + 1]
  /\ \/ /\ job[p].kind = "SEND"
        /\ status' = [status EXCEPT ![a] = "FAILED"]
        /\ overwritten' = IF status[a] \in Unsent THEN overwritten
                          ELSE overwritten \cup {a}
     \/ job[p].kind = "RETRY" /\ UNCHANGED <<status, overwritten>>
  /\ Leave(p)
  /\ UNCHANGED <<command, known, recorded, accepted, preference>>

\* A process gives up on an error nobody records, or stops.
Abandon(p) ==
  /\ pc[p] # "idle" /\ Leave(p)
  /\ UNCHANGED <<attempts, accepted, preference, overwritten>>

-----------------------------------------------------------------------------
(* Callbacks.  An event is recorded once; what it makes of the attempt     *)
(* depends on the status it finds, under the lock of the attempt.          *)

LastWins(s, e) == IF s \in Final THEN s ELSE e   \* mutant of Outcome
Outcome(s, e) ==
  CASE s \in Final -> s
    [] s = "DELIVERED" /\ e \in {"SENT", "FAILED"} -> s
    [] OTHER -> e

SuppressQuietly(s) ==   \* mutant of Suppress: the version stays
  IF s \in Final /\ version > 0
    THEN suppression' = "SUPPRESSED" /\ strikes' = strikes + 1 /\ UNCHANGED version
    ELSE UNCHANGED <<suppression, version, strikes>>
\* The UPDATE of a preference that does not exist has no effect.
Suppress(s) ==
  IF s \in Final /\ version > 0
    THEN /\ suppression' = "SUPPRESSED" /\ version' = version + 1
         /\ strikes' = strikes + 1
    ELSE UNCHANGED <<suppression, version, strikes>>

Callback(a, e) ==
  LET s == Outcome(status[a], e) IN
  /\ known[a] /\ e \notin recorded[a]
  /\ recorded' = [recorded EXCEPT ![a] = @ \cup {e}]
  /\ status' = [status EXCEPT ![a] = s]
  /\ Suppress(s)
  /\ UNCHANGED <<command, retries, known, accepted, pc, job, seen, overwritten>>

-----------------------------------------------------------------------------
(* A person reads the preference and saves it on the version that was      *)
(* read, with or without enabling the customer again.                      *)

Look(e) ==
  /\ seen' = [seen EXCEPT ![e] = [version |-> version, strikes |-> strikes]]
  /\ UNCHANGED <<attempts, accepted, suppression, version, strikes, pc, job, overwritten>>

Save(e, reenable) ==
  /\ seen[e].version = version
  /\ version < MaxVersion
  /\ suppression' = IF reenable THEN "NONE" ELSE suppression
  /\ version' = version + 1
  /\ seen' = [seen EXCEPT ![e] = [version |-> version + 1, strikes |-> strikes]]
  /\ UNCHANGED <<attempts, accepted, strikes, pc, job, overwritten>>

-----------------------------------------------------------------------------
Step(p) ==
  \/ \E a \in Attempts, c \in Commands : Check(p, a, c) \/ Replay(p, a, c)
  \/ \E a \in Attempts : Retry(p, a)
  \/ Queue(p) \/ Accept(p) \/ LoseAnswer(p) \/ Refuse(p)
  \/ MarkSent(p) \/ MarkRetried(p) \/ MarkFails(p)
  \/ RecordFailure(p) \/ Abandon(p)

Next ==
  \/ \E p \in Processes : Step(p)
  \/ \E a \in Attempts, e \in Events : Callback(a, e)
  \/ \E e \in People : Look(e)
  \/ \E e \in People, reenable \in BOOLEAN : Save(e, reenable)

Spec == Init /\ [][Next]_vars

-----------------------------------------------------------------------------
(* A key stands for one message: what the provider took under it is what   *)
(* the attempt says, whichever of several processes called it and whatever *)
(* a client sent under the key; and an attempt that is shown as sent, or   *)
(* as anything a callback says, is one the provider took.                  *)
OneMessagePerKey ==
  \A a \in Attempts :
    /\ accepted[a] # None => accepted[a] = command[a]
    /\ status[a] \in Events \ {"FAILED"} => accepted[a] # None

(* Callbacks come in any order, between the steps of processes that send   *)
(* the same attempt, and the status says what they said together: a bounce *)
(* or a complaint wins over a delivery, and that over anything else.  Only *)
(* the failure of a send that ends after the attempt was sent can undo it. *)
OutcomeOfEvents ==
  \A a \in Attempts \ overwritten :
    \/ status[a] \in recorded[a] \cap Final
    \/ status[a] = "DELIVERED" /\ "DELIVERED" \in recorded[a] /\ recorded[a] \cap Final = {}
    \/ status[a] \in {None, "QUEUED", "SENT", "FAILED"} /\ recorded[a] \subseteq {"SENT", "FAILED"}

(* A customer is enabled again only by somebody who was shown the          *)
(* preference after the last bounce or complaint that suppressed it: one   *)
(* that comes while the form is open is not cleared unseen.                *)
ReenabledAsSeen ==
  [][\A e \in People :
       Save(e, TRUE) /\ suppression = "SUPPRESSED" => seen[e].strikes = strikes]_vars
=============================================================================
