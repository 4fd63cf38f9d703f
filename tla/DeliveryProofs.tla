--------------------------- MODULE DeliveryProofs ---------------------------
(***************************************************************************)
(* What holds of InvoiceDelivery for any number of attempts, commands,     *)
(* processes, people, retries and versions.                                *)
(*                                                                         *)
(* A process that calls the provider has the command its attempt says      *)
(* (Jobs), because a replay must bring that command and an insert under a  *)
(* used key fails.  An attempt without a provider's id has no events       *)
(* (Rows), so callbacks find it sent.  And a version of the preference     *)
(* stands for what was known of the customer when it was made (Forms).     *)
(***************************************************************************)
EXTENDS InvoiceDelivery, TLAPS

(* A process past the first transaction delivers a recorded attempt.       *)
Jobs ==
  \A p \in Processes :
    /\ pc[p] \in {"sending", "answered", "failed"} =>
         /\ status[job[p].attempt] # None
         /\ command[job[p].attempt] = job[p].command
    /\ pc[p] = "answered" => accepted[job[p].attempt] # None

(* What the columns of an attempt say of each other, and of the provider.  *)
Rows ==
  \A a \in Attempts :
    /\ status[a] = None => accepted[a] = None
    /\ status[a] # None => command[a] # None
    /\ status[a] \in {None, "QUEUED"} => ~known[a]
    /\ ~known[a] => recorded[a] = {}
    /\ known[a] => accepted[a] # None
    /\ status[a] \in Events \ {"FAILED"} => known[a]

(* Who was shown the current version knows every bounce so far.            *)
Forms ==
  \A e \in People :
    /\ seen[e].version <= version
    /\ seen[e].version = version => seen[e].strikes = strikes

Columns == Rows /\ OneMessagePerKey /\ OutcomeOfEvents
IInv == TypeOK /\ Jobs /\ Columns /\ Forms

-----------------------------------------------------------------------------
LEMMA InitIInv == Init => IInv
<1> SUFFICES ASSUME Init PROVE IInv
  OBVIOUS
<1>1. TypeOK
  BY MaxRetriesAssumption DEF Init, TypeOK, Place, Snapshot
<1>2. Jobs
  BY DEF Init, Jobs
<1>3. Columns
  BY NoneAssumption DEF Init, Columns, Rows, OneMessagePerKey, OutcomeOfEvents, Events
<1>4. Forms
  BY DEF Init, Forms
<1> QED
  BY <1>1, <1>2, <1>3, <1>4 DEF IInv

(* A process that takes up a delivery.                                     *)
LEMMA StartTypes ==
  ASSUME TypeOK, NEW p \in Processes, NEW a \in Attempts, NEW c \in Commands,
         NEW kind \in {"SEND", "RETRY"}, NEW place \in Place, Start(p, place, a, kind, c)
  PROVE  /\ pc' \in [Processes -> Place] /\ job' \in [Processes -> Job \cup {None}]
         /\ \A q \in Processes : pc'[q] # "idle" => job'[q] \in Job
<1>1. [attempt |-> a, kind |-> kind, command |-> c] \in Job
  BY DEF Job
<1> QED
  BY <1>1 DEF Start, TypeOK

LEMMA LeaveTypes ==
  ASSUME TypeOK, NEW p \in Processes, Leave(p)
  PROVE  /\ pc' \in [Processes -> Place] /\ job' \in [Processes -> Job \cup {None}]
         /\ \A q \in Processes : pc'[q] # "idle" => job'[q] \in Job
  BY DEF Leave, TypeOK, Place

LEMMA GoTypes ==
  ASSUME TypeOK, NEW p \in Processes, NEW place \in Place, Go(p, place), pc[p] # "idle"
  PROVE  /\ pc' \in [Processes -> Place] /\ job' \in [Processes -> Job \cup {None}]
         /\ \A q \in Processes : pc'[q] # "idle" => job'[q] \in Job
  BY DEF Go, TypeOK

(* A process that has a job has one of its attempts and commands.          *)
LEMMA JobTypes ==
  ASSUME TypeOK, NEW p \in Processes, pc[p] # "idle"
  PROVE  /\ job[p].attempt \in Attempts /\ job[p].command \in Commands
         /\ job[p].kind \in {"SEND", "RETRY"}
  BY DEF TypeOK, Job

(* A recorded attempt says its command.                                    *)
LEMMA CommandTypes ==
  ASSUME TypeOK, Rows, NEW a \in Attempts, status[a] # None
  PROVE  command[a] \in Commands
  BY DEF TypeOK, Rows

-----------------------------------------------------------------------------
LEMMA StartStep ==
  ASSUME IInv, NEW p \in Processes, NEW a \in Attempts, NEW c \in Commands,
         NEW kind \in {"SEND", "RETRY"}, NEW place \in {"checked", "sending"},
         pc[p] = "idle", Start(p, place, a, kind, c),
         place = "sending" => status[a] # None /\ command[a] = c,
         UNCHANGED <<attempts, accepted, preference, overwritten>>
  PROVE  IInv'
<1>1. place \in Place
  BY DEF Place
<1>2. TypeOK'
  BY <1>1, StartTypes DEF IInv, TypeOK, attempts, preference
<1>3. Jobs'
  <2> SUFFICES ASSUME NEW q \in Processes
      PROVE /\ pc'[q] \in {"sending", "answered", "failed"} =>
                 /\ status[job'[q].attempt] # None
                 /\ command[job'[q].attempt] = job'[q].command
            /\ pc'[q] = "answered" => accepted[job'[q].attempt] # None
    BY DEF Jobs, attempts
  <2>1. CASE q = p
    BY <2>1 DEF Start, IInv, TypeOK
  <2>2. CASE q # p
    BY <2>2 DEF Start, IInv, TypeOK, Jobs
  <2> QED
    BY <2>1, <2>2
<1>4. Columns' /\ Forms'
  BY DEF IInv, Columns, Rows, OneMessagePerKey, OutcomeOfEvents, Forms, attempts, preference
<1> QED
  BY <1>2, <1>3, <1>4 DEF IInv

LEMMA CheckStep ==
  ASSUME IInv, NEW p \in Processes, NEW a \in Attempts, NEW c \in Commands, Check(p, a, c)
  PROVE  IInv'
  BY StartStep DEF Check

LEMMA ReplayStep ==
  ASSUME IInv, NEW p \in Processes, NEW a \in Attempts, NEW c \in Commands, Replay(p, a, c)
  PROVE  IInv'
<1>1. status[a] # None
  BY NoneAssumption DEF Replay, Unsent, Events
<1> QED
  BY <1>1, StartStep DEF Replay

LEMMA RetryStep ==
  ASSUME IInv, NEW p \in Processes, NEW a \in Attempts, Retry(p, a)
  PROVE  IInv'
<1>1. status[a] # None
  BY NoneAssumption DEF Retry, Events
<1>2. command[a] \in Commands
  BY <1>1, CommandTypes DEF IInv, Columns
<1> QED
  BY <1>1, <1>2, StartStep DEF Retry

LEMMA QueueStep ==
  ASSUME IInv, NEW p \in Processes, Queue(p)
  PROVE  IInv'
<1> DEFINE a == job[p].attempt
<1>1. pc[p] # "idle" /\ a \in Attempts /\ job[p].command \in Commands
  BY JobTypes DEF IInv, Queue
<1>2. status[a] = None /\ accepted[a] = None /\ ~known[a] /\ recorded[a] = {}
  BY <1>1 DEF Queue, IInv, Columns, Rows
<1>3. TypeOK'
  <2>1. "sending" \in Place
    BY DEF Place
  <2> QED
    BY <1>1, <2>1, GoTypes DEF Queue, IInv, TypeOK, preference
<1>4. Jobs'
  <2> SUFFICES ASSUME NEW q \in Processes
      PROVE /\ pc'[q] \in {"sending", "answered", "failed"} =>
                 /\ status'[job[q].attempt] # None
                 /\ command'[job[q].attempt] = job[q].command
            /\ pc'[q] = "answered" => accepted[job[q].attempt] # None
    BY DEF Jobs, Queue, Go
  <2>1. CASE q = p
    BY <1>1, <2>1, NoneAssumption DEF Queue, Go, IInv, TypeOK
  <2>2. CASE q # p
    <3>1. pc'[q] = pc[q]
      BY <2>2 DEF Queue, Go, IInv, TypeOK
    <3>2. SUFFICES ASSUME pc[q] \in {"sending", "answered", "failed"}
          PROVE /\ status'[job[q].attempt] = status[job[q].attempt]
                /\ command'[job[q].attempt] = command[job[q].attempt]
      BY <3>1 DEF IInv, Jobs
    <3>3. job[q].attempt # a
      BY <1>2, <3>2 DEF IInv, Jobs
    <3> QED
      BY <3>2, <3>3, JobTypes DEF Queue, IInv, TypeOK
  <2> QED
    BY <2>1, <2>2
<1>5. Rows' /\ OneMessagePerKey'
  <2> SUFFICES ASSUME NEW b \in Attempts
      PROVE /\ status'[b] = None => accepted[b] = None
            /\ status'[b] # None => command'[b] # None
            /\ status'[b] \in {None, "QUEUED"} => ~known[b]
            /\ status'[b] \in Events \ {"FAILED"} => known[b]
            /\ accepted[b] # None => accepted[b] = command'[b]
            /\ status'[b] \in Events \ {"FAILED"} => accepted[b] # None
    BY DEF Queue, Rows, OneMessagePerKey, IInv, Columns
  <2>1. CASE b = a
    BY <1>1, <1>2, <2>1, NoneAssumption DEF Queue, IInv, TypeOK, Events
  <2>2. CASE b # a
    BY <1>1, <2>2 DEF Queue, IInv, TypeOK, Columns, Rows, OneMessagePerKey
  <2> QED
    BY <2>1, <2>2
<1>6. OutcomeOfEvents'
  <2> SUFFICES ASSUME NEW b \in Attempts \ overwritten
      PROVE \/ status'[b] \in recorded[b] \cap Final
            \/ status'[b] = "DELIVERED" /\ "DELIVERED" \in recorded[b] /\ recorded[b] \cap Final = {}
            \/ status'[b] \in {None, "QUEUED", "SENT", "FAILED"} /\ recorded[b] \subseteq {"SENT", "FAILED"}
    BY DEF Queue, OutcomeOfEvents
  <2>1. CASE b = a
    BY <1>2, <2>1 DEF Queue, IInv, TypeOK
  <2>2. CASE b # a
    BY <1>1, <2>2 DEF Queue, IInv, TypeOK, Columns, OutcomeOfEvents
  <2> QED
    BY <2>1, <2>2
<1>7. Forms'
  BY DEF Queue, preference, IInv, Forms
<1> QED
  BY <1>3, <1>4, <1>5, <1>6, <1>7 DEF IInv, Columns

-----------------------------------------------------------------------------
(* The provider's side: it takes the command of the job, which is the one  *)
(* the attempt says.                                                       *)
LEMMA TakeStep ==
  ASSUME IInv, NEW p \in Processes, pc[p] = "sending", Take(p),
         NEW place \in {"answered", "failed"}, Go(p, place),
         UNCHANGED <<attempts, preference, overwritten>>
  PROVE  IInv'
<1> DEFINE a == job[p].attempt
<1>1. a \in Attempts /\ job[p].command \in Commands
  BY JobTypes DEF IInv
<1>2. command[a] = job[p].command /\ status[a] # None
  BY DEF IInv, Jobs
<1>3. accepted' \in [Attempts -> Commands \cup {None}]
  BY <1>1 DEF Take, IInv, TypeOK
<1>4. accepted'[a] = command[a] /\ accepted'[a] # None
  BY <1>1, <1>2, NoneAssumption DEF Take, IInv, TypeOK, Columns, OneMessagePerKey
<1>5. \A b \in Attempts : b # a => accepted'[b] = accepted[b]
  BY <1>1 DEF Take, IInv, TypeOK
<1>6. TypeOK'
  <2>1. place \in Place /\ pc[p] # "idle"
    BY DEF Place
  <2> QED
    BY <1>3, <2>1, GoTypes DEF IInv, TypeOK, attempts, preference
<1>7. Jobs'
  <2> SUFFICES ASSUME NEW q \in Processes
      PROVE /\ pc'[q] \in {"sending", "answered", "failed"} =>
                 /\ status[job[q].attempt] # None
                 /\ command[job[q].attempt] = job[q].command
            /\ pc'[q] = "answered" => accepted'[job[q].attempt] # None
    BY DEF Jobs, attempts, Go
  <2>1. CASE q = p
    BY <1>2, <1>4, <2>1
  <2>2. CASE q # p
    <3>1. pc'[q] = pc[q]
      BY <2>2 DEF Go, IInv, TypeOK
    <3>2. pc[q] = "answered" => job[q].attempt \in Attempts
      BY JobTypes DEF IInv
    <3> QED
      BY <1>4, <1>5, <3>1, <3>2 DEF IInv, Jobs
  <2> QED
    BY <2>1, <2>2
<1>8. Columns'
  BY <1>2, <1>4, <1>5 DEF IInv, Columns, Rows, OneMessagePerKey, OutcomeOfEvents, attempts
<1>9. Forms'
  BY DEF IInv, Forms, preference
<1> QED
  BY <1>6, <1>7, <1>8, <1>9 DEF IInv

(* A process that goes on or leaves, while nothing else changes.           *)
LEMMA GoStep ==
  ASSUME IInv, NEW p \in Processes, pc[p] \in {"sending", "answered"}, Go(p, "failed"),
         UNCHANGED <<attempts, accepted, preference, overwritten>>
  PROVE  IInv'
<1>1. TypeOK'
  <2>1. "failed" \in Place /\ pc[p] # "idle"
    BY DEF Place
  <2> QED
    BY <2>1, GoTypes DEF IInv, TypeOK, attempts, preference
<1>2. Jobs'
  BY DEF IInv, TypeOK, Jobs, Go, attempts
<1>3. Columns' /\ Forms'
  BY DEF IInv, Columns, Rows, OneMessagePerKey, OutcomeOfEvents, Forms, attempts, preference
<1> QED
  BY <1>1, <1>2, <1>3 DEF IInv

LEMMA AbandonStep ==
  ASSUME IInv, NEW p \in Processes, Abandon(p)
  PROVE  IInv'
<1>1. TypeOK'
  BY LeaveTypes DEF Abandon, IInv, TypeOK, attempts, preference
<1>2. Jobs'
  BY DEF IInv, TypeOK, Jobs, Abandon, Leave, attempts
<1>3. Columns' /\ Forms'
  BY DEF Abandon, IInv, Columns, Rows, OneMessagePerKey, OutcomeOfEvents, Forms,
         attempts, preference
<1> QED
  BY <1>1, <1>2, <1>3 DEF IInv

-----------------------------------------------------------------------------
(* The transaction that ends a delivery leaves the jobs of the others      *)
(* valid: it takes no attempt away and changes no command.                 *)
LEMMA EndJobs ==
  ASSUME IInv, NEW p \in Processes, Leave(p), UNCHANGED <<command, accepted>>,
         \A a \in Attempts : status[a] # None => status'[a] # None
  PROVE  Jobs'
<1> SUFFICES ASSUME NEW q \in Processes, pc'[q] # "idle"
    PROVE /\ pc'[q] \in {"sending", "answered", "failed"} =>
               /\ status'[job'[q].attempt] # None
               /\ command[job'[q].attempt] = job'[q].command
          /\ pc'[q] = "answered" => accepted[job'[q].attempt] # None
  BY DEF Jobs
<1>1. pc'[q] = pc[q] /\ job'[q] = job[q]
  BY DEF Leave, IInv, TypeOK
<1>2. job[q].attempt \in Attempts
  BY <1>1, JobTypes DEF IInv
<1> QED
  BY <1>1, <1>2 DEF IInv, Jobs

LEMMA SentStep ==
  ASSUME IInv, NEW p \in Processes, pc[p] = "answered", status[job[p].attempt] \in Unsent,
         Sent(job[p].attempt), Leave(p), retries' \in [Attempts -> 0 .. MaxRetries],
         UNCHANGED <<accepted, preference, overwritten>>
  PROVE  IInv'
<1> DEFINE a == job[p].attempt
<1>1. a \in Attempts
  BY JobTypes DEF IInv
<1>2. accepted[a] # None /\ command[a] # None
  BY <1>1, NoneAssumption DEF IInv, Jobs, Columns, Rows, Unsent, Events
<1>3. /\ status'[a] = "SENT" /\ known'[a] = TRUE
      /\ \A b \in Attempts : b # a => status'[b] = status[b] /\ known'[b] = known[b]
  BY <1>1 DEF Sent, IInv, TypeOK
<1>4. TypeOK'
  BY <1>1, LeaveTypes DEF Sent, IInv, TypeOK, preference, Events
<1>5. Jobs'
  BY <1>3, EndJobs, NoneAssumption DEF Sent, Events
<1>6. Rows' /\ OneMessagePerKey'
  BY <1>1, <1>2, <1>3, NoneAssumption DEF Sent, IInv, Columns, Rows, OneMessagePerKey, Events
<1>7. OutcomeOfEvents'
  <2> SUFFICES ASSUME NEW b \in Attempts \ overwritten
      PROVE \/ status'[b] \in recorded[b] \cap Final
            \/ status'[b] = "DELIVERED" /\ "DELIVERED" \in recorded[b] /\ recorded[b] \cap Final = {}
            \/ status'[b] \in {None, "QUEUED", "SENT", "FAILED"} /\ recorded[b] \subseteq {"SENT", "FAILED"}
    BY DEF OutcomeOfEvents, Sent
  <2>1. CASE b = a
    BY <1>3, <2>1 DEF IInv, Columns, OutcomeOfEvents, Unsent, Final
  <2>2. CASE b # a
    BY <1>3, <2>2 DEF IInv, Columns, OutcomeOfEvents
  <2> QED
    BY <2>1, <2>2
<1>8. Forms'
  BY DEF IInv, Forms, preference
<1> QED
  BY <1>4, <1>5, <1>6, <1>7, <1>8 DEF IInv, Columns

LEMMA MarkSentStep ==
  ASSUME IInv, NEW p \in Processes, MarkSent(p)
  PROVE  IInv'
<1>1. CASE status[job[p].attempt] \in Unsent
  BY <1>1, SentStep DEF MarkSent, IInv, TypeOK
<1>2. CASE status[job[p].attempt] \notin Unsent
  <2>1. Abandon(p)
    BY <1>2 DEF MarkSent, Abandon
  <2> QED
    BY <2>1, AbandonStep
<1> QED
  BY <1>1, <1>2

LEMMA MarkRetriedStep ==
  ASSUME IInv, NEW p \in Processes, MarkRetried(p)
  PROVE  IInv'
<1>1. job[p].attempt \in Attempts
  BY JobTypes DEF IInv, MarkRetried
<1>2. retries' \in [Attempts -> 0 .. MaxRetries]
  BY <1>1, MaxRetriesAssumption DEF MarkRetried, IInv, TypeOK
<1> QED
  BY <1>2, SentStep DEF MarkRetried, Unsent

LEMMA RecordFailureStep ==
  ASSUME IInv, NEW p \in Processes, RecordFailure(p)
  PROVE  IInv'
<1> DEFINE a == job[p].attempt
<1>1. a \in Attempts /\ status[a] # None
  BY JobTypes DEF IInv, RecordFailure, Jobs
<1>2. retries' \in [Attempts -> 0 .. MaxRetries]
  BY <1>1, MaxRetriesAssumption DEF RecordFailure, IInv, TypeOK
<1>3. /\ status'[a] \in {status[a], "FAILED"}
      /\ \A b \in Attempts : b # a => status'[b] = status[b]
      /\ status' \in [Attempts -> Events \cup {"QUEUED", None}]
  BY <1>1 DEF RecordFailure, IInv, TypeOK, Events
<1>4. TypeOK'
  BY <1>1, <1>2, <1>3, LeaveTypes DEF RecordFailure, IInv, TypeOK, preference
<1>5. Jobs'
  BY <1>1, <1>3, EndJobs, NoneAssumption DEF RecordFailure, Events
<1>6. Rows' /\ OneMessagePerKey'
  BY <1>1, <1>3, NoneAssumption
     DEF RecordFailure, IInv, Columns, Rows, OneMessagePerKey, Events
<1>7. OutcomeOfEvents'
  <2> SUFFICES ASSUME NEW b \in Attempts \ overwritten'
      PROVE \/ status'[b] \in recorded[b] \cap Final
            \/ status'[b] = "DELIVERED" /\ "DELIVERED" \in recorded[b] /\ recorded[b] \cap Final = {}
            \/ status'[b] \in {None, "QUEUED", "SENT", "FAILED"} /\ recorded[b] \subseteq {"SENT", "FAILED"}
    BY DEF OutcomeOfEvents, RecordFailure
  <2>1. b \notin overwritten
    BY DEF RecordFailure
  <2>2. CASE status'[b] = status[b]
    BY <2>1, <2>2 DEF IInv, Columns, OutcomeOfEvents
  <2>3. CASE status'[b] # status[b]
    <3>1. b = a /\ status'[b] = "FAILED" /\ status[b] \in Unsent
      BY <1>3, <2>3 DEF RecordFailure
    <3> QED
      BY <2>1, <3>1 DEF IInv, Columns, OutcomeOfEvents, Unsent, Final
  <2> QED
    BY <2>2, <2>3
<1>8. Forms'
  BY DEF RecordFailure, IInv, Forms, preference
<1> QED
  BY <1>4, <1>5, <1>6, <1>7, <1>8 DEF IInv, Columns

LEMMA ProcessStep ==
  ASSUME IInv, NEW p \in Processes, Step(p)
  PROVE  IInv'
<1>1. ASSUME NEW a \in Attempts, NEW c \in Commands, Check(p, a, c) \/ Replay(p, a, c)
      PROVE IInv'
  BY <1>1, CheckStep, ReplayStep
<1>2. ASSUME NEW a \in Attempts, Retry(p, a) PROVE IInv'
  BY <1>2, RetryStep
<1>3. CASE Queue(p)
  BY <1>3, QueueStep
<1>4. CASE Accept(p)
  BY <1>4, TakeStep DEF Accept
<1>5. CASE LoseAnswer(p)
  BY <1>5, TakeStep DEF LoseAnswer
<1>6. CASE Refuse(p)
  BY <1>6, GoStep DEF Refuse
<1>7. CASE MarkSent(p)
  BY <1>7, MarkSentStep
<1>8. CASE MarkRetried(p)
  BY <1>8, MarkRetriedStep
<1>9. CASE MarkFails(p)
  BY <1>9, GoStep DEF MarkFails
<1>10. CASE RecordFailure(p)
  BY <1>10, RecordFailureStep
<1>11. CASE Abandon(p)
  BY <1>11, AbandonStep
<1> QED
  BY <1>1, <1>2, <1>3, <1>4, <1>5, <1>6, <1>7, <1>8, <1>9, <1>10, <1>11 DEF Step

-----------------------------------------------------------------------------
(* The order of callbacks: what each of them makes of the status is what   *)
(* the recorded events and it say together.                                *)
LEMMA CallbackStep ==
  ASSUME IInv, NEW a \in Attempts, NEW e \in Events, Callback(a, e)
  PROVE  IInv'
<1> DEFINE s == Outcome(status[a], e)
<1>1. known[a] /\ accepted[a] # None /\ status[a] \notin {None, "QUEUED"}
  BY DEF Callback, IInv, Columns, Rows
<1>2. status[a] \in Events /\ s \in Events
  BY <1>1 DEF IInv, TypeOK, Outcome, Final, Events
<1>3. /\ status'[a] = s /\ recorded'[a] = recorded[a] \cup {e}
      /\ \A b \in Attempts : b # a => status'[b] = status[b] /\ recorded'[b] = recorded[b]
  BY DEF Callback, IInv, TypeOK
<1>4. /\ suppression' \in {"NONE", "SUPPRESSED"} /\ version' \in Nat /\ strikes' \in Nat
      /\ \/ version' = version /\ strikes' = strikes
         \/ version' = version + 1
  BY DEF Callback, Suppress, IInv, TypeOK
<1>5. TypeOK'
  <2>1. status' \in [Attempts -> Events \cup {"QUEUED", None}]
    BY <1>2 DEF Callback, IInv, TypeOK
  <2>2. recorded' \in [Attempts -> SUBSET Events]
    BY DEF Callback, IInv, TypeOK
  <2> QED
    BY <1>4, <2>1, <2>2 DEF Callback, IInv, TypeOK
<1>6. Jobs'
  <2> SUFFICES ASSUME NEW q \in Processes, pc[q] \in {"sending", "answered", "failed"}
      PROVE status'[job[q].attempt] # None
    BY DEF Jobs, Callback, IInv
  <2>1. job[q].attempt \in Attempts
    BY JobTypes DEF IInv
  <2> QED
    BY <1>2, <1>3, <2>1, NoneAssumption DEF IInv, Jobs
<1>7. Rows' /\ OneMessagePerKey'
  BY <1>1, <1>2, <1>3, NoneAssumption
     DEF Callback, IInv, Columns, Rows, OneMessagePerKey, Events
<1>8. OutcomeOfEvents'
  <2> SUFFICES ASSUME NEW b \in Attempts \ overwritten
      PROVE \/ status'[b] \in recorded'[b] \cap Final
            \/ status'[b] = "DELIVERED" /\ "DELIVERED" \in recorded'[b] /\ recorded'[b] \cap Final = {}
            \/ status'[b] \in {None, "QUEUED", "SENT", "FAILED"} /\ recorded'[b] \subseteq {"SENT", "FAILED"}
    BY DEF OutcomeOfEvents, Callback
  <2>1. CASE b # a
    BY <1>3, <2>1 DEF IInv, Columns, OutcomeOfEvents
  <2>2. CASE b = a /\ status[a] \in recorded[a] \cap Final
    BY <1>3, <2>2 DEF Outcome
  <2>3. CASE b = a /\ status[a] = "DELIVERED" /\ recorded[a] \cap Final = {} /\ "DELIVERED" \in recorded[a]
    BY <1>3, <2>3 DEF Outcome, Final, Events
  <2>4. CASE b = a /\ status[a] \in {"SENT", "FAILED"} /\ recorded[a] \subseteq {"SENT", "FAILED"}
    BY <1>3, <2>4 DEF Outcome, Final, Events
  <2> QED
    BY <1>1, <2>1, <2>2, <2>3, <2>4 DEF IInv, Columns, OutcomeOfEvents
<1>9. Forms'
  BY <1>4 DEF Callback, IInv, Forms, TypeOK, Snapshot
<1> QED
  BY <1>5, <1>6, <1>7, <1>8, <1>9 DEF IInv, Columns

LEMMA PersonStep ==
  ASSUME IInv, NEW e \in People, Look(e) \/ \E reenable \in BOOLEAN : Save(e, reenable)
  PROVE  IInv'
<1>1. /\ UNCHANGED <<attempts, accepted, strikes, pc, job, overwritten>>
      /\ suppression' \in {"NONE", "SUPPRESSED"}
      /\ version' \in {version, version + 1}
      /\ seen' = [seen EXCEPT ![e] = [version |-> version', strikes |-> strikes']]
  BY DEF Look, Save, IInv, TypeOK
<1>2. TypeOK'
  BY <1>1 DEF IInv, TypeOK, Snapshot, attempts
<1>3. Jobs' /\ Columns'
  BY <1>1 DEF IInv, Jobs, Columns, Rows, OneMessagePerKey, OutcomeOfEvents, attempts
<1>4. Forms'
  BY <1>1 DEF IInv, TypeOK, Snapshot, Forms
<1> QED
  BY <1>2, <1>3, <1>4 DEF IInv

LEMMA NextIInv == IInv /\ [Next]_vars => IInv'
<1> SUFFICES ASSUME IInv, [Next]_vars PROVE IInv'
  OBVIOUS
<1>1. ASSUME NEW p \in Processes, Step(p) PROVE IInv'
  BY <1>1, ProcessStep
<1>2. ASSUME NEW a \in Attempts, NEW e \in Events, Callback(a, e) PROVE IInv'
  BY <1>2, CallbackStep
<1>3. ASSUME NEW e \in People, Look(e) \/ \E reenable \in BOOLEAN : Save(e, reenable)
      PROVE IInv'
  BY <1>3, PersonStep
<1>4. CASE UNCHANGED vars
  BY <1>4 DEF vars, attempts, preference, IInv, TypeOK, Jobs, Columns, Rows,
              OneMessagePerKey, OutcomeOfEvents, Forms
<1> QED
  BY <1>1, <1>2, <1>3, <1>4 DEF Next

(* The invariant that the theorems below rest on.                          *)
THEOREM DeliveryInvariant == Spec => []IInv
  BY InitIInv, NextIInv, PTL DEF Spec

(* Every variable keeps its type; no retry count passes its bound, however *)
(* many processes count on at once (outbound.ts:443-468 and 623-650).      *)
THEOREM DeliveryTypes == Spec => []TypeOK
<1>1. IInv => TypeOK
  BY DEF IInv
<1> QED
  BY <1>1, DeliveryInvariant, PTL

(* A key stands for one message, which is the one the attempt says         *)
(* (outbound.ts:374-422), and an attempt shown as sent was taken.          *)
THEOREM DeliveryOneMessagePerKey == Spec => []OneMessagePerKey
<1>1. IInv => OneMessagePerKey
  BY DEF IInv, Columns
<1> QED
  BY <1>1, DeliveryInvariant, PTL

(* The status of an attempt does not depend on the order of its callbacks, *)
(* unless a late failure was recorded over it (outbound.ts:654-706).       *)
THEOREM DeliveryOutcomeOfEvents == Spec => []OutcomeOfEvents
<1>1. IInv => OutcomeOfEvents
  BY DEF IInv, Columns
<1> QED
  BY <1>1, DeliveryInvariant, PTL

(* A customer is enabled again only by somebody who was shown the last     *)
(* bounce or complaint that suppressed it (configuration.ts:609-656).      *)
THEOREM DeliveryReenabledAsSeen == Spec => ReenabledAsSeen
<1>1. IInv => \A e \in People :
                Save(e, TRUE) /\ suppression = "SUPPRESSED" => seen[e].strikes = strikes
  BY DEF IInv, Forms, Save
<1>2. IInv /\ [Next]_vars =>
        [\A e \in People :
           Save(e, TRUE) /\ suppression = "SUPPRESSED" => seen[e].strikes = strikes]_vars
  BY <1>1
<1> QED
  BY <1>2, DeliveryInvariant, PTL DEF Spec, ReenabledAsSeen
=============================================================================
