--------------------------- MODULE InboundProofs ---------------------------
(***************************************************************************)
(* What holds of InboundEmail for any number of attachments, workers,      *)
(* retries and changes of the address.                                     *)
(*                                                                         *)
(* Only the holder of the claim changes an attachment that waits for a     *)
(* retry, so what it has taken on stays as it read it (TakenOnPending);    *)
(* and only the settling transaction ends the claim while it has the row,  *)
(* so its verdict still stands when it is written (VerdictStands), except  *)
(* for attachments let out of quarantine meanwhile.                        *)
(***************************************************************************)
EXTENDS InboundEmail, FiniteSetTheorems, TLAPS

Taken == {"working", "renewed", "counted", "settling"}

(* Before staging the message has no attachment.                           *)
StartClean == status = "NONE" => \A a \in Attachments : state[a] = "NONE"

LiveIsPending == live => status = "RETRY_PENDING"
SettlerHolds ==
  \A w \in Workers : pc[w] = "settling" => holder = w /\ status = "RETRY_PENDING"
TriesCounted == \A w \in Workers : job[w].tries <= retries

(* A worker is at one attachment at most, which it has taken off its list. *)
OneAtATime ==
  \A w \in Workers :
    /\ pc[w] \in {"claimed", "working"} => job[w].at = {}
    /\ pc[w] \in {"renewed", "counted"} => job[w].at \cap job[w].todo = {}
    /\ pc[w] = "settling" => job[w].todo = {}

TakenOnPending ==
  \A w \in Workers : pc[w] \in Taken /\ holder = w =>
    \A a \in job[w].todo \cup job[w].at : state[a] = "RETRY_PENDING"

Complete ==
  /\ \A a \in Attachments : state[a] \in {"NONE", "INBOXED"}
  /\ \E a \in Attachments : state[a] = "INBOXED"

Stands(w) ==
  /\ job[w].out # "NONE"
  /\ job[w].out # "RETRY_PENDING" =>
       \A a \in Attachments \ cleared : state[a] = "RETRY_PENDING" => a \in job[w].at
  /\ job[w].at # {} => job[w].out = "DEAD_LETTER" /\ retries = MaxRetries
  /\ job[w].out = "READY" => Complete
VerdictStands == \A w \in Workers : pc[w] = "settling" => Stands(w)

Safe ==
  /\ StartClean /\ LiveIsPending /\ SettlerHolds /\ TriesCounted
  /\ OneAtATime /\ TakenOnPending /\ VerdictStands
  /\ ReadyIsComplete /\ PendingHasPendingMessage /\ DeadLettersAreSpent
IInv == TypeOK /\ Safe

-----------------------------------------------------------------------------
(* Types.                                                                  *)

LEMMA NoJobIsJob == NoJob \in Job
  BY MaxRetriesAssumption DEF NoJob, Job

LEMMA AskIsJob ==
  ASSUME NEW only \in SUBSET Attachments
  PROVE  \E j \in Job : j = [NoJob EXCEPT !.todo = only] /\ j.tries = 0
<1>1. [NoJob EXCEPT !.todo = only] \in Job
  BY NoJobIsJob DEF Job
<1>2. [NoJob EXCEPT !.todo = only].tries = 0
  BY DEF NoJob
<1> QED
  BY <1>1, <1>2

LEMMA InitTypeOK == Init => TypeOK
<1> SUFFICES ASSUME Init PROVE TypeOK
  OBVIOUS
<1>1. retries \in 0 .. MaxRetries /\ changes \in 0 .. MaxChanges
  BY MaxRetriesAssumption, MaxChangesAssumption DEF Init
<1>2. pc \in [Workers -> Place] /\ job \in [Workers -> Job]
  BY NoJobIsJob DEF Init, Place
<1>3. state \in [Attachments -> State] /\ attempts \in [Attachments -> Nat]
  BY DEF Init, State
<1> QED
  BY <1>1, <1>2, <1>3 DEF Init, TypeOK

LEMMA GotoTyped ==
  ASSUME TypeOK, NEW w \in Workers, NEW place \in Place, NEW j \in Job,
         pc' = [pc EXCEPT ![w] = place], job' = [job EXCEPT ![w] = j]
  PROVE  pc' \in [Workers -> Place] /\ job' \in [Workers -> Job]
  BY DEF TypeOK

LEMMA ClaimTyped ==
  ASSUME TypeOK, NEW w \in Workers, NEW only \in SUBSET Attachments,
         NEW initial \in BOOLEAN, TakeClaim(w, only, initial)
  PROVE  TypeOK'
<1>1. retries' \in 0 .. MaxRetries
  BY MaxRetriesAssumption DEF TakeClaim, RetriesAfter, TypeOK
<1> DEFINE j == [NoJob EXCEPT !.todo = IF retries >= MaxRetries THEN {} ELSE only,
                 !.tries = retries', !.storage = (storage = "SELECTED")]
<1>2. j \in Job
  <2>1. PICK c \in BOOLEAN : c = (storage = "SELECTED")
    OBVIOUS
  <2>2. PICK todo \in SUBSET Attachments :
          todo = IF retries >= MaxRetries THEN {} ELSE only
    OBVIOUS
  <2>3. j = [NoJob EXCEPT !.todo = todo, !.tries = retries', !.storage = c]
    BY <2>1, <2>2
  <2> QED
    BY <1>1, <2>3 DEF NoJob, Job
<1>3. pc' = [pc EXCEPT ![w] = "claimed"] /\ job' = [job EXCEPT ![w] = j]
  BY DEF TakeClaim, Goto
<1> HIDE DEF j
<1>4. pc' \in [Workers -> Place] /\ job' \in [Workers -> Job]
  BY <1>2, <1>3 DEF TypeOK, Place
<1> QED
  BY <1>1, <1>4 DEF TakeClaim, TypeOK, files, address

LEMMA NextTypeOK == TypeOK /\ [Next]_vars => TypeOK'
<1> SUFFICES ASSUME TypeOK, [Next]_vars PROVE TypeOK'
  OBVIOUS
<1> USE MaxRetriesAssumption, MaxChangesAssumption, NoJobIsJob
<1>1. ASSUME NEW w \in Workers, NEW arrived \in SUBSET Attachments,
             StageQuarantined(w, arrived)
      PROVE  TypeOK'
  BY <1>1 DEF StageQuarantined, TypeOK, State, Outcome, Settled, address, workers
<1>2. ASSUME NEW w \in Workers, NEW arrived \in SUBSET Attachments,
             NEW unsupported \in SUBSET arrived, Stage(w, arrived, unsupported)
      PROVE  TypeOK'
  BY <1>2 DEF Stage, Goto, TypeOK, State, Outcome, Settled, Place, NoJob, Job, address
<1>3. ASSUME NEW w \in Workers, RetryMessage(w) PROVE TypeOK'
  BY <1>3 DEF RetryMessage, Goto, TypeOK, Place, NoJob, Job, row, files, address
<1>4. ASSUME NEW w \in Workers, NEW a \in Attachments, RetryAttachment(w, a)
      PROVE  TypeOK'
  BY <1>4 DEF RetryAttachment, Goto, TypeOK, Place, NoJob, Job, row, files, address
<1>5. ASSUME NEW w \in Workers, NEW a \in Attachments, ClearQuarantine(w, a)
      PROVE  TypeOK'
  <2>1. pc' \in [Workers -> Place] /\ job' \in [Workers -> Job]
    BY <1>5 DEF ClearQuarantine, Goto, TypeOK, Place, NoJob, Job
  <2>2. state' \in [Attachments -> State] /\ cleared' \in SUBSET Attachments
    BY <1>5 DEF ClearQuarantine, TypeOK, State, Outcome
  <2>3. changes' \in 0 .. MaxChanges
    BY <1>5 DEF ClearQuarantine, Change, TypeOK
  <2>4. status' \in Settled \cup {"NONE", "RETRY_PENDING"} /\ due' \in BOOLEAN
    BY <1>5 DEF ClearQuarantine, TypeOK
  <2> QED
    BY <1>5, <2>1, <2>2, <2>3, <2>4 DEF ClearQuarantine, TypeOK
<1>6. ASSUME NEW w \in Workers, ClaimDue(w) PROVE TypeOK'
  BY <1>6, ClaimTyped DEF ClaimDue
<1>7. ASSUME NEW w \in Workers, Claim(w) PROVE TypeOK'
  <2>1. PICK only \in SUBSET Attachments : only = job[w].todo
    BY DEF TypeOK, Job
  <2>2. PICK initial \in BOOLEAN : initial = (pc[w] = "staged")
    OBVIOUS
  <2>3. TakeClaim(w, only, initial)
    BY <1>7, <2>1, <2>2 DEF Claim, TakeClaim, RetriesAfter, Goto
  <2> QED
    BY <2>3, ClaimTyped
<1>8. ASSUME NEW w \in Workers, NoClaim(w) \/ Abandon(w) \/ Crash(w)
      PROVE  TypeOK'
  BY <1>8 DEF NoClaim, Abandon, Crash, Goto, TypeOK, Place, row, files, address
<1>9. ASSUME NEW w \in Workers, ReadWork(w) PROVE TypeOK'
  BY <1>9 DEF ReadWork, Goto, TypeOK, Place, Job, row, files, address
<1>10. ASSUME NEW w \in Workers, NEW a \in Attachments, Renew(w, a) PROVE TypeOK'
  BY <1>10 DEF Renew, Goto, TypeOK, Place, Job, row, files, address
<1>11. ASSUME NEW w \in Workers, CountAttempt(w) PROVE TypeOK'
  BY <1>11 DEF CountAttempt, Goto, TypeOK, Place, row, address
<1>12. ASSUME NEW w \in Workers, NEW out \in Outcome, FinishAttachment(w, out)
       PROVE  TypeOK'
  BY <1>12 DEF FinishAttachment, Goto, TypeOK, Place, Job, State, row, address
<1>13. ASSUME NEW w \in Workers, SettleRead(w) PROVE TypeOK'
  <2>1. Dead(w) \subseteq Attachments
    BY DEF Dead, Pending
  <2>2. Verdict(w) \in Settled \cup {"NONE", "RETRY_PENDING"}
    BY DEF Verdict, Settled
  <2> HIDE DEF Dead, Verdict
  <2> QED
    BY <1>13, <2>1, <2>2 DEF SettleRead, Goto, TypeOK, Place, Job, row, files, address
<1>14. ASSUME NEW w \in Workers, SettleWrite(w) PROVE TypeOK'
  BY <1>14 DEF SettleWrite, Goto, TypeOK, Place, Job, State, Settled, address
<1>15. CASE Environment
  <2>1. CASE LeaseExpires \/ RetryFallsDue
    BY <2>1 DEF LeaseExpires, RetryFallsDue, TypeOK, files, address, workers
  <2>2. CASE SelectStorage \/ RemoveStorage
    BY <2>2 DEF SelectStorage, RemoveStorage, Change, TypeOK, row, files, workers
  <2>3. CASE Reroute
    <3>1. routable' \in BOOLEAN /\ changes' \in 0 .. MaxChanges
      BY <2>3 DEF Reroute, Change, TypeOK
    <3> QED
      BY <2>3, <3>1 DEF Reroute, TypeOK, row, files, workers
  <2> QED
    BY <1>15, <2>1, <2>2, <2>3 DEF Environment
<1>16. CASE UNCHANGED vars
  BY <1>16 DEF vars, row, files, address, workers, TypeOK
<1> QED
  BY <1>1, <1>2, <1>3, <1>4, <1>5, <1>6, <1>7, <1>8, <1>9, <1>10, <1>11, <1>12,
     <1>13, <1>14, <1>15, <1>16
  DEF Next, Request, Work

(* Every reachable state is well typed.                                    *)
THEOREM TypeCorrect == Spec => []TypeOK
  BY InitTypeOK, NextTypeOK, PTL DEF Spec

-----------------------------------------------------------------------------
(* The safety invariant.                                                   *)

LEMMA InitSafe == Init => Safe
  BY DEF Init, Safe, StartClean, LiveIsPending, SettlerHolds, TriesCounted, OneAtATime,
     TakenOnPending, VerdictStands, ReadyIsComplete, PendingHasPendingMessage,
     DeadLettersAreSpent, NoJob, Taken

(* Steps that change no row but time, or only what a worker is about to ask.*)
LEMMA UnmovedSafe ==
  ASSUME IInv, live' => live,
         UNCHANGED <<status, retries, holder, files, workers>>
  PROVE  Safe'
<1> USE DEF IInv, Safe, files, workers
<1>1. StartClean' /\ LiveIsPending' /\ SettlerHolds' /\ TriesCounted' /\ OneAtATime'
  BY DEF StartClean, LiveIsPending, SettlerHolds, TriesCounted, OneAtATime
<1>2. TakenOnPending'
  BY DEF TakenOnPending
<1>3. VerdictStands'
  BY DEF VerdictStands, Stands, Complete
<1>4. ReadyIsComplete' /\ PendingHasPendingMessage' /\ DeadLettersAreSpent'
  BY DEF ReadyIsComplete, PendingHasPendingMessage, DeadLettersAreSpent
<1> QED
  BY <1>1, <1>2, <1>3, <1>4

LEMMA ParkedSafe ==
  ASSUME IInv, NEW w \in Workers, NEW place \in {"idle", "staged", "asked"},
         NEW j \in Job, j.tries = 0,
         pc' = [pc EXCEPT ![w] = place], job' = [job EXCEPT ![w] = j],
         UNCHANGED <<row, files>>
  PROVE  Safe'
<1> USE DEF IInv, Safe, row, files
<1>0. /\ pc \in [Workers -> Place] /\ job \in [Workers -> Job] /\ retries \in Nat
      /\ pc'[w] = place /\ job'[w] = j
      /\ \A v \in Workers \ {w} : pc'[v] = pc[v] /\ job'[v] = job[v]
  BY DEF TypeOK
<1> HIDE DEF TypeOK
<1>1. StartClean' /\ LiveIsPending' /\ SettlerHolds' /\ TriesCounted' /\ OneAtATime'
  BY <1>0 DEF StartClean, LiveIsPending, SettlerHolds, TriesCounted, OneAtATime
<1>2. TakenOnPending'
  BY <1>0 DEF TakenOnPending, Taken
<1>3. VerdictStands'
  <2> SUFFICES ASSUME NEW v \in Workers, pc'[v] = "settling" PROVE Stands(v)'
    BY DEF VerdictStands
  <2>1. v # w /\ Stands(v) /\ job'[v] = job[v]
    BY <1>0 DEF VerdictStands
  <2> QED
    BY <2>1 DEF Stands, Complete
<1>4. ReadyIsComplete' /\ PendingHasPendingMessage' /\ DeadLettersAreSpent'
  BY DEF ReadyIsComplete, PendingHasPendingMessage, DeadLettersAreSpent
<1> QED
  BY <1>1, <1>2, <1>3, <1>4

LEMMA StageSafe ==
  ASSUME IInv, NEW w \in Workers, NEW arrived \in SUBSET Attachments,
         \/ StageQuarantined(w, arrived)
         \/ \E unsupported \in SUBSET arrived : Stage(w, arrived, unsupported)
  PROVE  Safe'
<1> USE DEF IInv, Safe
<1>0. /\ status = "NONE" /\ pc[w] = "idle" /\ status' \in {"QUARANTINED", "RETRY_PENDING"}
      /\ \A a \in Attachments : state'[a] \in {"NONE", "QUARANTINED", "UNSUPPORTED", "RETRY_PENDING"}
      /\ \A a \in Attachments : state'[a] = "RETRY_PENDING" => status' = "RETRY_PENDING"
      /\ UNCHANGED <<retries, holder, live, cleared>>
  BY DEF StageQuarantined, Stage
<1>1. /\ pc'[w] \in {"idle", "staged"} /\ job'[w].tries <= retries
      /\ \A v \in Workers \ {w} : pc'[v] = pc[v] /\ job'[v] = job[v]
  BY DEF StageQuarantined, Stage, Goto, TypeOK, NoJob, workers, TriesCounted
<1>2. \A v \in Workers : pc'[v] # "settling"
  BY <1>0, <1>1 DEF SettlerHolds
<1>3. ~live
  BY <1>0 DEF LiveIsPending
<1>4. StartClean' /\ LiveIsPending' /\ SettlerHolds' /\ TriesCounted' /\ VerdictStands'
  BY <1>0, <1>1, <1>2, <1>3 DEF StartClean, LiveIsPending, SettlerHolds, TriesCounted, VerdictStands
<1>5. OneAtATime'
  BY <1>0, <1>1 DEF OneAtATime
<1>6. TakenOnPending'
  <2> SUFFICES ASSUME NEW v \in Workers, pc'[v] \in Taken, holder' = v
               PROVE  \A a \in job'[v].todo \cup job'[v].at : state'[a] = "RETRY_PENDING"
    BY DEF TakenOnPending
  <2>1. v # w /\ pc[v] \in Taken /\ holder = v /\ job'[v] = job[v]
    BY <1>0, <1>1 DEF Taken
  <2>2. job[v].todo \cup job[v].at \subseteq Attachments
    BY DEF TypeOK, Job
  <2>3. job[v].todo \cup job[v].at = {}
    BY <1>0, <2>1, <2>2 DEF TakenOnPending, StartClean
  <2> QED
    BY <2>1, <2>3
<1>7. ReadyIsComplete' /\ PendingHasPendingMessage' /\ DeadLettersAreSpent'
  BY <1>0 DEF ReadyIsComplete, PendingHasPendingMessage, DeadLettersAreSpent
<1> QED
  BY <1>4, <1>5, <1>6, <1>7

LEMMA ClearSafe ==
  ASSUME IInv, NEW w \in Workers, NEW a \in Attachments, ClearQuarantine(w, a)
  PROVE  Safe'
<1> USE DEF IInv, Safe
<1>0. /\ pc[w] = "idle" /\ state[a] = "QUARANTINED" /\ status # "NONE"
      /\ state'[a] = "RETRY_PENDING" /\ cleared' = cleared \cup {a}
      /\ \A b \in Attachments \ {a} : state'[b] = state[b]
      /\ pc'[w] = "asked" /\ job'[w].tries = 0
      /\ \A v \in Workers \ {w} : pc'[v] = pc[v] /\ job'[v] = job[v]
      /\ UNCHANGED <<retries, holder, live>>
      /\ \/ status \in {"NEEDS_REVIEW", "QUARANTINED"} /\ status' = "RETRY_PENDING"
         \/ status \notin {"NEEDS_REVIEW", "QUARANTINED"} /\ status' = status
  BY DEF ClearQuarantine, Goto, TypeOK, NoJob, StartClean
<1>1. StartClean' /\ LiveIsPending' /\ SettlerHolds' /\ OneAtATime'
  BY <1>0 DEF StartClean, LiveIsPending, SettlerHolds, OneAtATime
<1>2. TriesCounted'
  BY <1>0 DEF TriesCounted, TypeOK
<1>3. TakenOnPending'
  <2> SUFFICES ASSUME NEW v \in Workers, pc'[v] \in Taken, holder' = v,
                      NEW b \in job'[v].todo \cup job'[v].at
               PROVE  state'[b] = "RETRY_PENDING"
    BY DEF TakenOnPending
  <2>1. v # w /\ pc[v] \in Taken /\ job'[v] = job[v]
    BY <1>0 DEF Taken
  <2>2. state[b] = "RETRY_PENDING"
    BY <1>0, <2>1 DEF TakenOnPending
  <2>3. b \in Attachments
    BY <2>1 DEF TypeOK, Job
  <2> QED
    BY <1>0, <2>2, <2>3
<1>4. VerdictStands'
  <2> SUFFICES ASSUME NEW v \in Workers, pc'[v] = "settling" PROVE Stands(v)'
    BY DEF VerdictStands
  <2>1. v # w /\ Stands(v) /\ job'[v] = job[v]
    BY <1>0 DEF VerdictStands
  <2> QED
    BY <1>0, <2>1 DEF Stands, Complete
<1>5. ReadyIsComplete' /\ PendingHasPendingMessage' /\ DeadLettersAreSpent'
  BY <1>0 DEF ReadyIsComplete, PendingHasPendingMessage, DeadLettersAreSpent
<1> QED
  BY <1>1, <1>2, <1>3, <1>4, <1>5

LEMMA ClaimSafe ==
  ASSUME IInv, NEW w \in Workers, NEW only \in SUBSET Attachments,
         NEW initial \in BOOLEAN, ~RowLocked, Claimable(FALSE),
         TakeClaim(w, only, initial)
  PROVE  Safe'
<1> USE DEF IInv, Safe
<1>1. /\ status = "RETRY_PENDING" /\ UNCHANGED <<status, state, cleared>>
      /\ holder' = w /\ pc'[w] = "claimed" /\ job'[w].at = {} /\ job'[w].tries = retries'
      /\ \A v \in Workers \ {w} : pc'[v] = pc[v] /\ job'[v] = job[v]
      /\ \A v \in Workers : pc[v] # "settling"
  BY DEF TakeClaim, Goto, TypeOK, NoJob, Claimable, RowLocked, files
<1>2. retries \in Nat /\ retries' \in Nat /\ retries <= retries'
  BY MaxRetriesAssumption DEF TakeClaim, RetriesAfter, TypeOK
<1>3. retries' = retries \/ retries # MaxRetries
  BY MaxRetriesAssumption DEF TakeClaim, RetriesAfter, TypeOK
<1>4. StartClean' /\ LiveIsPending' /\ SettlerHolds' /\ OneAtATime'
  BY <1>1 DEF StartClean, LiveIsPending, SettlerHolds, OneAtATime
<1>5. TriesCounted'
  BY <1>1, <1>2 DEF TriesCounted, TypeOK, Job
<1>6. TakenOnPending' /\ VerdictStands'
  BY <1>1 DEF TakenOnPending, Taken, VerdictStands
<1>7. ReadyIsComplete' /\ PendingHasPendingMessage' /\ DeadLettersAreSpent'
  BY <1>1, <1>3 DEF ReadyIsComplete, PendingHasPendingMessage, DeadLettersAreSpent
<1> QED
  BY <1>4, <1>5, <1>6, <1>7

LEMMA ReadSafe ==
  ASSUME IInv, NEW w \in Workers,
         ReadWork(w) \/ (\E a \in Attachments : Renew(w, a)) \/ CountAttempt(w)
  PROVE  Safe'
<1> USE DEF IInv, Safe
<1>0. /\ pc \in [Workers -> Place] /\ job \in [Workers -> Job]
      /\ job[w] \in Job /\ job[w].todo \in SUBSET Attachments
  BY DEF TypeOK, Job
<1> DEFINE Step ==
      /\ pc[w] \in {"claimed", "working", "renewed"}
      /\ pc'[w] \in {"working", "renewed", "counted"} /\ job'[w].tries = job[w].tries
      /\ job'[w].todo \cup job'[w].at \subseteq
           IF pc[w] = "claimed" THEN Pending ELSE job[w].todo \cup job[w].at
      /\ pc'[w] = "working" => job'[w].at = {}
      /\ job'[w].at \cap job'[w].todo = {}
<1>1. Step
  <2>1. CASE ReadWork(w)
    <3>1. job'[w] = [job[w] EXCEPT !.todo = @ \cap Pending] /\ pc'[w] = "working"
      BY <1>0, <2>1 DEF ReadWork, Goto
    <3>2. job'[w].todo \subseteq Pending /\ job'[w].at = {} /\ job'[w].tries = job[w].tries
      BY <1>0, <2>1, <3>1 DEF ReadWork, OneAtATime, Job
    <3> QED
      BY <2>1, <3>1, <3>2 DEF ReadWork
  <2>2. ASSUME NEW a \in Attachments, Renew(w, a) PROVE Step
    <3>1. /\ job'[w] = [job[w] EXCEPT !.todo = @ \ {a}, !.at = {a}]
          /\ pc[w] = "working" /\ pc'[w] = "renewed" /\ a \in job[w].todo
      BY <1>0, <2>2 DEF Renew, Goto
    <3>2. /\ job'[w].todo = job[w].todo \ {a} /\ job'[w].at = {a}
          /\ job'[w].tries = job[w].tries
      BY <1>0, <3>1 DEF Job
    <3> QED
      BY <3>1, <3>2
  <2>3. CASE CountAttempt(w)
    <3>1. job'[w] = job[w] /\ pc[w] = "renewed" /\ pc'[w] = "counted"
      BY <1>0, <2>3 DEF CountAttempt, Goto
    <3> QED
      BY <3>1 DEF OneAtATime
  <2> QED
    BY <2>1, <2>2, <2>3
<1>2. /\ \A v \in Workers \ {w} : pc'[v] = pc[v] /\ job'[v] = job[v]
      /\ UNCHANGED <<row, state, cleared>>
  BY <1>0 DEF ReadWork, Renew, CountAttempt, Goto, files
<1>3. \A v \in Workers : pc'[v] = "settling" => v # w
  BY <1>1
<1>4. StartClean' /\ LiveIsPending' /\ SettlerHolds' /\ TriesCounted'
  BY <1>1, <1>2 DEF StartClean, LiveIsPending, SettlerHolds, TriesCounted, row
<1>5. OneAtATime'
  BY <1>1, <1>2 DEF OneAtATime
<1>6. TakenOnPending'
  <2> SUFFICES ASSUME NEW v \in Workers, pc'[v] \in Taken, holder' = v,
                      NEW b \in job'[v].todo \cup job'[v].at
               PROVE  state'[b] = "RETRY_PENDING"
    BY DEF TakenOnPending
  <2>1. CASE v = w
    BY <1>1, <1>2, <2>1 DEF TakenOnPending, Taken, Pending, row
  <2>2. CASE v # w
    BY <1>2, <2>2 DEF TakenOnPending, Taken, row
  <2> QED
    BY <2>1, <2>2
<1>7. VerdictStands'
  <2> SUFFICES ASSUME NEW v \in Workers, pc'[v] = "settling" PROVE Stands(v)'
    BY DEF VerdictStands
  <2>1. v # w /\ Stands(v) /\ job'[v] = job[v]
    BY <1>2, <1>3 DEF VerdictStands
  <2> QED
    BY <1>2, <2>1 DEF Stands, Complete, row
<1>8. ReadyIsComplete' /\ PendingHasPendingMessage' /\ DeadLettersAreSpent'
  BY <1>2 DEF ReadyIsComplete, PendingHasPendingMessage, DeadLettersAreSpent, row
<1> QED
  BY <1>4, <1>5, <1>6, <1>7, <1>8

LEMMA FinishSafe ==
  ASSUME IInv, NEW w \in Workers, NEW out \in Outcome, FinishAttachment(w, out)
  PROVE  Safe'
<1> USE DEF IInv, Safe
<1>1. /\ pc[w] = "counted" /\ holder = w /\ status = "RETRY_PENDING"
      /\ pc'[w] = "working" /\ job'[w].tries = job[w].tries
      /\ job'[w].at = {} /\ job'[w].todo = job[w].todo
      /\ \A v \in Workers \ {w} : pc'[v] = pc[v] /\ job'[v] = job[v]
      /\ UNCHANGED <<status, retries, holder, live, cleared>>
  BY DEF FinishAttachment, Holds, LiveIsPending, Goto, TypeOK, Job, row
<1>2. \A a \in Attachments : state'[a] = IF a \in job[w].at THEN out ELSE state[a]
  BY DEF FinishAttachment
<1>3. \A v \in Workers : pc[v] # "settling" /\ pc'[v] # "settling"
  BY <1>1 DEF SettlerHolds
<1>4. StartClean' /\ LiveIsPending' /\ SettlerHolds' /\ TriesCounted' /\ VerdictStands'
  BY <1>1, <1>3 DEF StartClean, LiveIsPending, SettlerHolds, TriesCounted, VerdictStands
<1>5. OneAtATime'
  BY <1>1 DEF OneAtATime
<1>6. TakenOnPending'
  <2> SUFFICES ASSUME NEW v \in Workers, pc'[v] \in Taken, holder' = v,
                      NEW b \in job'[v].todo \cup job'[v].at
               PROVE  state'[b] = "RETRY_PENDING"
    BY DEF TakenOnPending
  <2>1. v = w /\ b \in job[w].todo
    BY <1>1
  <2>2. b \in Attachments /\ b \notin job[w].at
    BY <1>1, <2>1 DEF OneAtATime, TypeOK, Job
  <2>3. state[b] = "RETRY_PENDING"
    BY <1>1, <2>1 DEF TakenOnPending, Taken
  <2> QED
    BY <1>2, <2>2, <2>3
<1>7. ReadyIsComplete' /\ PendingHasPendingMessage'
  BY <1>1 DEF ReadyIsComplete, PendingHasPendingMessage
<1>8. DeadLettersAreSpent'
  BY <1>1, <1>2 DEF DeadLettersAreSpent, Outcome
<1> QED
  BY <1>4, <1>5, <1>6, <1>7, <1>8

(* The verdict of the settling transaction, when it has read.              *)
LEMMA VerdictRead ==
  ASSUME IInv, NEW w \in Workers, Holds(w)
  PROVE  /\ Dead(w) \subseteq Pending
         /\ Verdict(w) # "NONE"
         /\ Verdict(w) # "RETRY_PENDING" => Pending \subseteq Dead(w)
         /\ Dead(w) # {} => Verdict(w) = "DEAD_LETTER" /\ retries = MaxRetries
         /\ Verdict(w) = "READY" => Complete
<1> USE DEF IInv, Safe
<1>1. Dead(w) = {} \/ (Dead(w) = Pending /\ retries = MaxRetries)
  BY MaxRetriesAssumption DEF Dead, TriesCounted, TypeOK, Job
<1>2. Has(w, {"RETRY_PENDING"}) <=> Dead(w) # Pending
  BY <1>1 DEF Has, Pending
<1>3. Verdict(w) # "NONE" /\ (Verdict(w) # "RETRY_PENDING" => Pending \subseteq Dead(w))
  BY <1>1, <1>2 DEF Verdict
<1>4. Dead(w) # {} => Verdict(w) = "DEAD_LETTER" /\ retries = MaxRetries
  BY <1>1, <1>2 DEF Verdict
<1>5. ASSUME Verdict(w) = "READY" PROVE Complete
  <2>1. /\ Dead(w) = {}
        /\ ~Has(w, {"RETRY_PENDING"}) /\ ~Has(w, {"DEAD_LETTER"})
        /\ ~Has(w, {"QUARANTINED", "UNSUPPORTED"}) /\ Has(w, {"INBOXED"})
    BY <1>5 DEF Verdict
  <2> QED
    BY <2>1 DEF Has, Complete, TypeOK, State, Outcome
<1> QED
  BY <1>1, <1>3, <1>4, <1>5

LEMMA SettleReadSafe ==
  ASSUME IInv, NEW w \in Workers, SettleRead(w)
  PROVE  Safe'
<1> USE DEF IInv, Safe
<1>0. /\ Dead(w) \subseteq Pending
      /\ Verdict(w) # "NONE"
      /\ Verdict(w) # "RETRY_PENDING" => Pending \subseteq Dead(w)
      /\ Dead(w) # {} => Verdict(w) = "DEAD_LETTER" /\ retries = MaxRetries
      /\ Verdict(w) = "READY" => Complete
  BY VerdictRead DEF SettleRead
<1>1. /\ pc[w] = "working" /\ holder = w /\ status = "RETRY_PENDING"
      /\ pc'[w] = "settling" /\ job'[w].tries = job[w].tries /\ job'[w].todo = {}
      /\ job'[w].at = Dead(w) /\ job'[w].out = Verdict(w)
      /\ \A v \in Workers \ {w} : pc'[v] = pc[v] /\ job'[v] = job[v]
      /\ UNCHANGED <<row, files>>
  BY DEF SettleRead, Holds, LiveIsPending, Goto, TypeOK, Job
<1> HIDE DEF Dead, Verdict
<1>2. StartClean' /\ LiveIsPending' /\ SettlerHolds' /\ TriesCounted' /\ OneAtATime'
  BY <1>1 DEF StartClean, LiveIsPending, SettlerHolds, TriesCounted, OneAtATime, row, files
<1>3. TakenOnPending'
  BY <1>0, <1>1 DEF TakenOnPending, Taken, Pending, row, files
<1>4. VerdictStands'
  <2> SUFFICES ASSUME NEW v \in Workers, pc'[v] = "settling" PROVE Stands(v)'
    BY DEF VerdictStands
  <2>1. CASE v = w
    BY <1>0, <1>1, <2>1 DEF Stands, Complete, Pending, row, files
  <2>2. CASE v # w
    <3>1. Stands(v) /\ job'[v] = job[v]
      BY <1>1, <2>2 DEF VerdictStands
    <3> QED
      BY <1>1, <3>1 DEF Stands, Complete, row, files
  <2> QED
    BY <2>1, <2>2
<1>5. ReadyIsComplete' /\ PendingHasPendingMessage' /\ DeadLettersAreSpent'
  BY <1>1 DEF ReadyIsComplete, PendingHasPendingMessage, DeadLettersAreSpent, row, files
<1> QED
  BY <1>2, <1>3, <1>4, <1>5

LEMMA SettleWriteSafe ==
  ASSUME IInv, NEW w \in Workers, SettleWrite(w)
  PROVE  Safe'
<1> USE DEF IInv, Safe
<1>1. /\ pc[w] = "settling" /\ Stands(w) /\ holder = w /\ status = "RETRY_PENDING"
      /\ status' = job[w].out /\ holder' = NoOne /\ live' = FALSE
      /\ pc'[w] = "idle" /\ job'[w].tries = 0
      /\ \A v \in Workers \ {w} : pc'[v] = pc[v] /\ job'[v] = job[v]
      /\ UNCHANGED <<retries, cleared>>
  BY DEF SettleWrite, SettlerHolds, VerdictStands, Goto, TypeOK, NoJob
<1>2. \A a \in Attachments :
        state'[a] = IF a \in job[w].at THEN "DEAD_LETTER" ELSE state[a]
  BY DEF SettleWrite
<1>3. \A v \in Workers : pc'[v] # "settling"
  BY <1>1 DEF SettlerHolds
<1>4. StartClean' /\ LiveIsPending' /\ SettlerHolds' /\ VerdictStands'
  BY <1>1, <1>3 DEF StartClean, LiveIsPending, SettlerHolds, VerdictStands, Stands
<1>5. TriesCounted' /\ OneAtATime'
  BY <1>1 DEF TriesCounted, OneAtATime, TypeOK
<1>6. TakenOnPending'
  BY <1>1, NoOneAssumption DEF TakenOnPending
<1>7. ReadyIsComplete'
  BY <1>1, <1>2 DEF ReadyIsComplete, Stands, Complete
<1>8. PendingHasPendingMessage'
  BY <1>1, <1>2 DEF PendingHasPendingMessage, Stands
<1>9. DeadLettersAreSpent'
  BY <1>1, <1>2 DEF DeadLettersAreSpent, Stands
<1> QED
  BY <1>4, <1>5, <1>6, <1>7, <1>8, <1>9

LEMMA NextSafe == IInv /\ [Next]_vars => Safe'
<1> SUFFICES ASSUME IInv, [Next]_vars PROVE Safe'
  OBVIOUS
<1>1. ASSUME NEW w \in Workers, Request(w) PROVE Safe'
  <2>1. CASE \E arrived \in SUBSET Attachments :
               \/ StageQuarantined(w, arrived)
               \/ \E unsupported \in SUBSET arrived : Stage(w, arrived, unsupported)
    BY <2>1, StageSafe
  <2>2. CASE RetryMessage(w)
    <3>1. PICK j \in Job : j = [NoJob EXCEPT !.todo = Attachments] /\ j.tries = 0
      BY AskIsJob
    <3>2. /\ pc' = [pc EXCEPT ![w] = "asked"] /\ job' = [job EXCEPT ![w] = j]
          /\ UNCHANGED <<row, files>>
      BY <2>2, <3>1 DEF RetryMessage, Goto
    <3> QED
      BY <3>1, <3>2, ParkedSafe
  <2>3. ASSUME NEW a \in Attachments, RetryAttachment(w, a) PROVE Safe'
    <3>1. PICK j \in Job : j = [NoJob EXCEPT !.todo = {a}] /\ j.tries = 0
      BY AskIsJob
    <3>2. /\ pc' = [pc EXCEPT ![w] = "asked"] /\ job' = [job EXCEPT ![w] = j]
          /\ UNCHANGED <<row, files>>
      BY <2>3, <3>1 DEF RetryAttachment, Goto
    <3> QED
      BY <3>1, <3>2, ParkedSafe
  <2>4. ASSUME NEW a \in Attachments, ClearQuarantine(w, a) PROVE Safe'
    BY <2>4, ClearSafe
  <2> QED
    BY <1>1, <2>1, <2>2, <2>3, <2>4 DEF Request
<1>2. ASSUME NEW w \in Workers, ClaimDue(w) PROVE Safe'
  <2>1. ~RowLocked /\ Claimable(FALSE) /\ TakeClaim(w, Attachments, FALSE)
    BY <1>2 DEF ClaimDue, Claimable
  <2> QED
    BY <2>1, ClaimSafe
<1>3. ASSUME NEW w \in Workers, Claim(w) PROVE Safe'
  <2>1. PICK only \in SUBSET Attachments : only = job[w].todo
    BY DEF IInv, TypeOK, Job
  <2>2. PICK initial \in BOOLEAN : initial = (pc[w] = "staged")
    OBVIOUS
  <2>3. ~RowLocked /\ Claimable(FALSE) /\ TakeClaim(w, only, initial)
    BY <1>3, <2>1, <2>2 DEF Claim, TakeClaim, RetriesAfter, Goto
  <2> QED
    BY <2>3, ClaimSafe
<1>4. ASSUME NEW w \in Workers, NoClaim(w) \/ Abandon(w) \/ Crash(w) PROVE Safe'
  <2>1. NoJob \in Job /\ NoJob.tries = 0
    BY NoJobIsJob DEF NoJob
  <2> QED
    BY <1>4, <2>1, ParkedSafe DEF NoClaim, Abandon, Crash, Goto
<1>5. ASSUME NEW w \in Workers,
             ReadWork(w) \/ (\E a \in Attachments : Renew(w, a)) \/ CountAttempt(w)
      PROVE  Safe'
  BY <1>5, ReadSafe
<1>6. ASSUME NEW w \in Workers, NEW out \in Outcome, FinishAttachment(w, out)
      PROVE  Safe'
  BY <1>6, FinishSafe
<1>7. ASSUME NEW w \in Workers, SettleRead(w) \/ SettleWrite(w) PROVE Safe'
  BY <1>7, SettleReadSafe, SettleWriteSafe
<1>8. CASE Environment
  <2>1. (live' => live) /\ UNCHANGED <<status, retries, holder, files, workers>>
    BY <1>8 DEF Environment, LeaseExpires, RetryFallsDue, SelectStorage, RemoveStorage,
       Reroute, row
  <2> QED
    BY <2>1, UnmovedSafe
<1>9. CASE UNCHANGED vars
  BY <1>9, UnmovedSafe DEF vars, row
<1> QED
  BY <1>1, <1>2, <1>3, <1>4, <1>5, <1>6, <1>7, <1>8, <1>9 DEF Next, Work

(* The inductive invariant holds throughout.                               *)
THEOREM Invariance == Spec => []IInv
<1>1. Init => IInv
  BY InitTypeOK, InitSafe DEF IInv
<1>2. IInv /\ [Next]_vars => IInv'
  BY NextTypeOK, NextSafe DEF IInv
<1> QED
  BY <1>1, <1>2, PTL DEF Spec

(* A message that reports READY has everything in the document inbox.      *)
THEOREM ReadyComplete == Spec => []ReadyIsComplete
  BY Invariance, PTL DEF IInv, Safe

(* No attachment waits in a settled message, but for cleared quarantines.  *)
THEOREM PendingClaimable == Spec => []PendingHasPendingMessage
  BY Invariance, PTL DEF IInv, Safe

(* Attachments are given up after the last retry, with their message.      *)
THEOREM DeadSpent == Spec => []DeadLettersAreSpent
  BY Invariance, PTL DEF IInv, Safe

(* A message and its attachments are settled together.                     *)
THEOREM SettlesTogether == Spec => []SettledTogether
  BY ReadyComplete, PendingClaimable, DeadSpent, PTL DEF SettledTogether

(* What is in the document inbox stays in it.                              *)
THEOREM InboxedStays == Spec => InboxedIsFinal
<1> DEFINE Kept == \A a \in Attachments : state[a] = "INBOXED" => state'[a] = "INBOXED"
<1>1. IInv /\ [Next]_vars => [Kept]_vars
  <2> SUFFICES ASSUME IInv, Next, NEW a \in Attachments, state[a] = "INBOXED",
                      state'[a] # "INBOXED"
               PROVE  FALSE
    OBVIOUS
  <2> USE DEF IInv, Safe
  <2>1. status # "NONE"
    BY DEF StartClean
  <2>2. ASSUME NEW w \in Workers, NEW out \in Outcome, FinishAttachment(w, out)
        PROVE  FALSE
    <3>1. pc[w] = "counted" /\ holder = w /\ a \in job[w].at
      BY <2>2 DEF FinishAttachment, Holds
    <3> QED
      BY <3>1 DEF TakenOnPending, Taken
  <2>3. ASSUME NEW w \in Workers, SettleWrite(w) PROVE FALSE
    <3>1. pc[w] = "settling" /\ a \in job[w].at /\ holder = w
      BY <2>3 DEF SettleWrite, SettlerHolds
    <3> QED
      BY <3>1 DEF TakenOnPending, Taken
  <2>4. ASSUME NEW w \in Workers, NEW b \in Attachments, ClearQuarantine(w, b)
        PROVE  FALSE
    BY <2>4 DEF ClearQuarantine, TypeOK
  <2>5. state' # state
    OBVIOUS
  <2> QED
    BY <2>1, <2>2, <2>3, <2>4, <2>5
    DEF Next, Request, Work, Environment, StageQuarantined, Stage, RetryMessage,
        RetryAttachment, ClaimDue, Claim, NoClaim, TakeClaim, ReadWork, Renew,
        CountAttempt, SettleRead, Abandon, Crash, LeaseExpires, RetryFallsDue,
        SelectStorage, RemoveStorage, Reroute, files
<1> QED
  BY <1>1, Invariance, PTL DEF InboxedIsFinal, Spec

-----------------------------------------------------------------------------
(* The ceiling of the retries.  Every count of an attempt is foreseen: by  *)
(* the initial processing while it has not begun, or by a claim that was   *)
(* counted as a retry and still has the attachment before it.              *)

Owing(a) ==
  {w \in Workers :
     \/ pc[w] \in {"claimed", "working", "renewed", "counted"} /\ a \in job[w].todo
     \/ pc[w] = "renewed" /\ a \in job[w].at}
InitialOpen == status = "NONE" \/ \E w \in Workers : pc[w] = "staged"
Foreseen == IF InitialOpen THEN 1 ELSE 0

OneInitial ==
  \A w \in Workers : pc[w] = "staged" =>
    status # "NONE" /\ \A v \in Workers : pc[v] = "staged" => v = w
Tally(a) == attempts[a] + Cardinality(Owing(a)) + Foreseen
Tallied == \A a \in Attachments : Tally(a) <= retries + 1
AInv == IInv /\ OneInitial /\ Tallied

LEMMA SubsetCounts ==
  ASSUME NEW S \in SUBSET Workers, NEW T \in SUBSET Workers
  PROVE  /\ Cardinality(S) \in Nat
         /\ S \subseteq T => Cardinality(S) <= Cardinality(T)
         /\ \A w \in Workers : S \subseteq T \cup {w} =>
              Cardinality(S) <= Cardinality(T) + 1
         /\ \A w \in T : S \subseteq T \ {w} => Cardinality(S) + 1 <= Cardinality(T)
<1>1. IsFiniteSet(S) /\ IsFiniteSet(T)
  BY WorkersAssumption, FS_Subset
<1>2. Cardinality(S) \in Nat /\ Cardinality(T) \in Nat
  BY <1>1, FS_CardinalityType
<1>3. S \subseteq T => Cardinality(S) <= Cardinality(T)
  BY <1>1, FS_Subset
<1>4. ASSUME NEW w \in Workers, S \subseteq T \cup {w}
      PROVE  Cardinality(S) <= Cardinality(T) + 1
  <2>1. /\ IsFiniteSet(T \cup {w})
        /\ \/ Cardinality(T \cup {w}) = Cardinality(T)
           \/ Cardinality(T \cup {w}) = Cardinality(T) + 1
    BY <1>1, FS_AddElement
  <2>2. Cardinality(S) <= Cardinality(T \cup {w})
    BY <1>4, <2>1, FS_Subset
  <2> QED
    BY <1>2, <2>1, <2>2
<1>5. ASSUME NEW w \in T, S \subseteq T \ {w} PROVE Cardinality(S) + 1 <= Cardinality(T)
  <2>1. IsFiniteSet(T \ {w}) /\ Cardinality(T \ {w}) = Cardinality(T) - 1
    BY <1>1, FS_RemoveElement
  <2>2. Cardinality(S) <= Cardinality(T \ {w})
    BY <1>5, <2>1, FS_Subset
  <2> QED
    BY <1>2, <2>1, <2>2
<1> QED
  BY <1>2, <1>3, <1>4, <1>5

LEMMA InitTallied == Init => OneInitial /\ Tallied
<1> SUFFICES ASSUME Init PROVE OneInitial /\ Tallied
  OBVIOUS
<1>1. OneInitial
  BY DEF Init, OneInitial
<1>2. ASSUME NEW a \in Attachments PROVE Tally(a) <= retries + 1
  <2>1. Owing(a) = {}
    BY DEF Init, Owing
  <2>2. Cardinality(Owing(a)) = 0
    BY <2>1, FS_EmptySet
  <2> QED
    BY <2>2 DEF Init, Tally, Foreseen
<1> QED
  BY <1>1, <1>2 DEF Tallied

(* Steps that count no attempt and foresee none.                           *)
LEMMA QuietTallied ==
  ASSUME AInv, UNCHANGED retries,
         \A a \in Attachments : attempts'[a] = attempts[a],
         status # "NONE" => status' # "NONE",
         \A v \in Workers : pc'[v] = "staged" => pc[v] = "staged",
         \A a \in Attachments : Owing(a)' \subseteq Owing(a)
  PROVE  OneInitial' /\ Tallied'
<1>1. OneInitial'
  BY DEF AInv, OneInitial
<1>2. InitialOpen' => InitialOpen
  BY DEF InitialOpen
<1>3. ASSUME NEW a \in Attachments PROVE Tally(a)' <= retries' + 1
  <2>1. Owing(a)' \in SUBSET Workers /\ Owing(a) \in SUBSET Workers
    BY DEF Owing
  <2>2. PICK S \in SUBSET Workers, T \in SUBSET Workers :
          S = Owing(a)' /\ T = Owing(a)
    BY <2>1
  <2>3. Cardinality(S) <= Cardinality(T) /\ Cardinality(S) \in Nat /\ Cardinality(T) \in Nat
    BY <2>2, SubsetCounts
  <2>4. attempts[a] + Cardinality(T) + Foreseen <= retries + 1
    BY <2>2 DEF AInv, Tallied, Tally
  <2>5. attempts[a] \in Nat /\ retries \in Nat
    BY DEF AInv, IInv, TypeOK
  <2>6. Foreseen' <= Foreseen /\ Foreseen \in Nat /\ Foreseen' \in Nat
    BY <1>2 DEF Foreseen
  <2>7. attempts'[a] + Cardinality(S) + Foreseen' <= retries' + 1
    BY <2>3, <2>4, <2>5, <2>6
  <2> QED
    BY <2>2, <2>7 DEF Tally
<1> QED
  BY <1>1, <1>3 DEF Tallied

LEMMA StageTallied ==
  ASSUME AInv, NEW w \in Workers, NEW arrived \in SUBSET Attachments,
         NEW unsupported \in SUBSET arrived, Stage(w, arrived, unsupported)
  PROVE  OneInitial' /\ Tallied'
<1>1. /\ status = "NONE" /\ status' = "RETRY_PENDING" /\ pc'[w] = "staged"
      /\ \A v \in Workers \ {w} : pc'[v] = pc[v] /\ job'[v] = job[v]
      /\ UNCHANGED <<retries, attempts>>
  BY DEF Stage, Goto, AInv, IInv, TypeOK
<1>2. OneInitial'
  BY <1>1 DEF AInv, OneInitial
<1>3. Foreseen = 1 /\ Foreseen' = 1
  BY <1>1 DEF Foreseen, InitialOpen
<1>4. ASSUME NEW a \in Attachments PROVE Tally(a)' <= retries' + 1
  <2>1. Owing(a)' \in SUBSET Workers /\ Owing(a) \in SUBSET Workers
        /\ Owing(a)' \subseteq Owing(a)
    BY <1>1 DEF Owing
  <2>2. PICK S \in SUBSET Workers, T \in SUBSET Workers :
          S = Owing(a)' /\ T = Owing(a)
    BY <2>1
  <2>3. Cardinality(S) <= Cardinality(T) /\ Cardinality(S) \in Nat /\ Cardinality(T) \in Nat
    BY <2>1, <2>2, SubsetCounts
  <2>4. attempts[a] + Cardinality(T) + Foreseen <= retries + 1
    BY <2>2 DEF AInv, Tallied, Tally
  <2>5. attempts[a] \in Nat /\ retries \in Nat
    BY DEF AInv, IInv, TypeOK
  <2>6. attempts'[a] + Cardinality(S) + Foreseen' <= retries' + 1
    BY <1>1, <1>3, <2>3, <2>4, <2>5
  <2> QED
    BY <2>2, <2>6 DEF Tally
<1> QED
  BY <1>2, <1>4 DEF Tallied

LEMMA ClaimTallied ==
  ASSUME AInv, NEW w \in Workers, NEW only \in SUBSET Attachments,
         NEW initial \in BOOLEAN, initial <=> pc[w] = "staged",
         pc[w] \in {"idle", "asked", "staged"},
         status # "NONE", TakeClaim(w, only, initial)
  PROVE  OneInitial' /\ Tallied'
<1>1. /\ pc'[w] = "claimed" /\ job'[w].at = {} /\ UNCHANGED <<status, attempts>>
      /\ job'[w].todo = IF retries >= MaxRetries THEN {} ELSE only
      /\ \A v \in Workers \ {w} : pc'[v] = pc[v] /\ job'[v] = job[v]
      /\ retries' = IF initial \/ retries >= MaxRetries THEN retries ELSE retries + 1
  BY DEF TakeClaim, RetriesAfter, Goto, AInv, IInv, TypeOK, NoJob, files
<1>2. OneInitial'
  BY <1>1 DEF AInv, OneInitial
<1>3. InitialOpen' => InitialOpen /\ ~initial
  BY <1>1 DEF InitialOpen, AInv, OneInitial
<1>4. initial => InitialOpen
  BY DEF InitialOpen
<1>5. ASSUME NEW a \in Attachments PROVE Tally(a)' <= retries' + 1
  <2>1. /\ Owing(a)' \in SUBSET Workers /\ Owing(a) \in SUBSET Workers
        /\ Owing(a)' \subseteq Owing(a) \cup {w}
        /\ retries >= MaxRetries => Owing(a)' \subseteq Owing(a)
    BY <1>1 DEF Owing
  <2>2. PICK S \in SUBSET Workers, T \in SUBSET Workers :
          S = Owing(a)' /\ T = Owing(a)
    BY <2>1
  <2>3. /\ Cardinality(S) <= Cardinality(T) + 1
        /\ retries >= MaxRetries => Cardinality(S) <= Cardinality(T)
        /\ Cardinality(S) \in Nat /\ Cardinality(T) \in Nat
    BY <2>1, <2>2, SubsetCounts
  <2>4. attempts[a] + Cardinality(T) + Foreseen <= retries + 1
    BY <2>2 DEF AInv, Tallied, Tally
  <2>5. attempts[a] \in Nat /\ retries \in Nat /\ MaxRetries \in Nat
    BY MaxRetriesAssumption DEF AInv, IInv, TypeOK
  <2>6. attempts[a] + Cardinality(S) + Foreseen' <= retries' + 1
    <3>1. CASE initial
      <4>1. Foreseen' = 0 /\ Foreseen = 1 /\ retries' = retries
        BY <1>1, <1>3, <1>4, <3>1 DEF Foreseen
      <4> QED
        BY <2>3, <2>4, <2>5, <4>1
    <3>2. CASE ~initial
      <4>1. Foreseen' <= Foreseen /\ Foreseen \in Nat /\ Foreseen' \in Nat
        BY <1>3 DEF Foreseen
      <4>2. CASE retries >= MaxRetries
        BY <1>1, <2>3, <2>4, <2>5, <4>1, <4>2
      <4>3. CASE ~(retries >= MaxRetries)
        BY <1>1, <2>3, <2>4, <2>5, <3>2, <4>1, <4>3
      <4> QED
        BY <4>2, <4>3
    <3> QED
      BY <3>1, <3>2
  <2> QED
    BY <1>1, <2>2, <2>6 DEF Tally
<1> QED
  BY <1>2, <1>5 DEF Tallied

LEMMA CountTallied ==
  ASSUME AInv, NEW w \in Workers, CountAttempt(w)
  PROVE  OneInitial' /\ Tallied'
<1>1. /\ pc[w] = "renewed" /\ pc'[w] = "counted" /\ job' = job
      /\ \A v \in Workers \ {w} : pc'[v] = pc[v]
      /\ UNCHANGED <<status, retries>>
  BY DEF CountAttempt, Goto, AInv, IInv, TypeOK, row
<1>2. \A a \in Attachments :
        attempts'[a] = IF a \in job[w].at \cap Pending THEN attempts[a] + 1 ELSE attempts[a]
  BY DEF CountAttempt
<1>3. OneInitial' /\ (InitialOpen' => InitialOpen)
  BY <1>1 DEF AInv, OneInitial, InitialOpen
<1>4. ASSUME NEW a \in Attachments PROVE Tally(a)' <= retries' + 1
  <2>1. /\ Owing(a)' \in SUBSET Workers /\ Owing(a) \in SUBSET Workers
        /\ Owing(a)' \subseteq Owing(a)
        /\ a \in job[w].at => w \in Owing(a) /\ Owing(a)' \subseteq Owing(a) \ {w}
    BY <1>1 DEF Owing, AInv, IInv, Safe, OneAtATime
  <2>2. PICK S \in SUBSET Workers, T \in SUBSET Workers :
          S = Owing(a)' /\ T = Owing(a)
    BY <2>1
  <2>3. /\ Cardinality(S) <= Cardinality(T)
        /\ a \in job[w].at => Cardinality(S) + 1 <= Cardinality(T)
        /\ Cardinality(S) \in Nat /\ Cardinality(T) \in Nat
    BY <2>1, <2>2, SubsetCounts
  <2>4. attempts[a] + Cardinality(T) + Foreseen <= retries + 1
    BY <2>2 DEF AInv, Tallied, Tally
  <2>5. attempts[a] \in Nat /\ retries \in Nat
    BY DEF AInv, IInv, TypeOK
  <2>6. Foreseen' <= Foreseen /\ Foreseen \in Nat /\ Foreseen' \in Nat
    BY <1>3 DEF Foreseen
  <2>7. attempts'[a] + Cardinality(S) + Foreseen' <= retries' + 1
    BY <1>1, <1>2, <2>3, <2>4, <2>5, <2>6
  <2> QED
    BY <2>2, <2>7 DEF Tally
<1> QED
  BY <1>3, <1>4 DEF Tallied

LEMMA NextTallied == AInv /\ [Next]_vars => OneInitial' /\ Tallied'
<1> SUFFICES ASSUME AInv, [Next]_vars PROVE OneInitial' /\ Tallied'
  OBVIOUS
<1> DEFINE Quiet ==
      /\ UNCHANGED retries
      /\ \A a \in Attachments : attempts'[a] = attempts[a]
      /\ status # "NONE" => status' # "NONE"
      /\ \A v \in Workers : pc'[v] = "staged" => pc[v] = "staged"
      /\ \A a \in Attachments : Owing(a)' \subseteq Owing(a)
<1>0. Quiet => OneInitial' /\ Tallied'
  BY QuietTallied
<1>t. /\ pc \in [Workers -> Place] /\ job \in [Workers -> Job]
      /\ \A w \in Workers : job[w] \in Job
  BY DEF AInv, IInv, TypeOK
<1>1. ASSUME NEW w \in Workers, NEW arrived \in SUBSET Attachments,
             StageQuarantined(w, arrived)
      PROVE  Quiet
  BY <1>1 DEF StageQuarantined, Owing, workers
<1>2. ASSUME NEW w \in Workers,
             RetryMessage(w) \/ \E a \in Attachments :
               RetryAttachment(w, a) \/ ClearQuarantine(w, a)
      PROVE  Quiet
  BY <1>t, <1>2 DEF RetryMessage, RetryAttachment, ClearQuarantine, Goto, Owing, row, files
<1>3. ASSUME NEW w \in Workers, ClaimDue(w) PROVE OneInitial' /\ Tallied'
  BY <1>3, ClaimTallied DEF ClaimDue, Claimable
<1>4. ASSUME NEW w \in Workers, Claim(w) PROVE OneInitial' /\ Tallied'
  <2>1. PICK only \in SUBSET Attachments : only = job[w].todo
    BY <1>t DEF Job
  <2>2. PICK initial \in BOOLEAN : initial = (pc[w] = "staged")
    OBVIOUS
  <2>3. TakeClaim(w, only, initial) /\ status # "NONE"
        /\ pc[w] \in {"idle", "asked", "staged"}
    BY <1>4, <2>1, <2>2 DEF Claim, Claimable, TakeClaim, RetriesAfter, Goto
  <2> QED
    BY <2>2, <2>3, ClaimTallied
<1>5. ASSUME NEW w \in Workers, NoClaim(w) \/ Abandon(w) \/ Crash(w) PROVE Quiet
  BY <1>t, <1>5 DEF NoClaim, Abandon, Crash, Goto, Owing, row, files
<1>6. ASSUME NEW w \in Workers, ReadWork(w) PROVE Quiet
  <2>1. /\ pc[w] = "claimed" /\ pc'[w] = "working"
        /\ job'[w].todo \subseteq job[w].todo
        /\ \A v \in Workers \ {w} : pc'[v] = pc[v] /\ job'[v] = job[v]
    BY <1>t, <1>6 DEF ReadWork, Goto, Job
  <2> QED
    BY <1>6, <2>1 DEF ReadWork, Owing, row, files
<1>7. ASSUME NEW w \in Workers, NEW a \in Attachments, Renew(w, a) PROVE Quiet
  <2>1. /\ pc[w] = "working" /\ pc'[w] = "renewed"
        /\ job'[w].todo \cup job'[w].at \subseteq job[w].todo
        /\ \A v \in Workers \ {w} : pc'[v] = pc[v] /\ job'[v] = job[v]
    BY <1>t, <1>7 DEF Renew, Goto, Job
  <2> QED
    BY <1>7, <2>1 DEF Renew, Owing, row, files
<1>8. ASSUME NEW w \in Workers, CountAttempt(w) PROVE OneInitial' /\ Tallied'
  BY <1>8, CountTallied
<1>9. ASSUME NEW w \in Workers, NEW out \in Outcome, FinishAttachment(w, out)
      PROVE  Quiet
  <2>1. /\ pc[w] = "counted" /\ pc'[w] = "working" /\ job'[w].todo = job[w].todo
        /\ \A v \in Workers \ {w} : pc'[v] = pc[v] /\ job'[v] = job[v]
    BY <1>t, <1>9 DEF FinishAttachment, Goto, Job
  <2> QED
    BY <1>9, <2>1 DEF FinishAttachment, Owing, row
<1>10. ASSUME NEW w \in Workers, SettleRead(w) PROVE Quiet
  BY <1>t, <1>10 DEF SettleRead, Goto, Owing, row, files
<1>11. ASSUME NEW w \in Workers, SettleWrite(w) PROVE Quiet
  <2>1. status' # "NONE"
    BY <1>11 DEF SettleWrite, AInv, IInv, Safe, VerdictStands, Stands
  <2> QED
    BY <1>t, <1>11, <2>1 DEF SettleWrite, Goto, Owing
<1>12. CASE Environment
  <2>1. UNCHANGED <<status, retries, attempts, pc, job>>
    BY <1>12 DEF Environment, LeaseExpires, RetryFallsDue, SelectStorage, RemoveStorage,
       Reroute, row, files, workers
  <2> QED
    BY <2>1, <1>0 DEF Owing
<1>13. CASE UNCHANGED vars
  BY <1>13, <1>0 DEF vars, row, files, workers, Owing
<1> QED
  <2> HIDE DEF Quiet
  <2>1. ASSUME NEW w \in Workers, Request(w) PROVE OneInitial' /\ Tallied'
    BY <1>0, <1>1, <1>2, <2>1, StageTallied DEF Request
  <2>2. ASSUME NEW w \in Workers, Work(w) PROVE OneInitial' /\ Tallied'
    BY <1>0, <1>4, <1>5, <1>6, <1>7, <1>8, <1>9, <1>10, <1>11, <2>2 DEF Work
  <2> QED
    BY <1>0, <1>3, <1>5, <1>12, <1>13, <2>1, <2>2 DEF Next

(* No attachment is processed more often than its message's retries allow. *)
THEOREM RetriesBoundAttempts == Spec => []AttemptsWithinRetries
<1>1. Init => AInv
  BY InitTypeOK, InitSafe, InitTallied DEF AInv, IInv
<1>2. AInv /\ [Next]_vars => AInv'
  BY NextTypeOK, NextSafe, NextTallied DEF AInv, IInv
<1>3. AInv => AttemptsWithinRetries
  <2> SUFFICES ASSUME AInv, NEW a \in Attachments PROVE attempts[a] <= retries + 1
    BY DEF AttemptsWithinRetries
  <2>1. Owing(a) \in SUBSET Workers
    BY DEF Owing
  <2>2. Cardinality(Owing(a)) \in Nat
    BY <2>1, SubsetCounts
  <2>3. Foreseen \in Nat /\ attempts[a] \in Nat /\ retries \in Nat
    BY DEF Foreseen, AInv, IInv, TypeOK
  <2> QED
    BY <2>2, <2>3 DEF AInv, Tallied, Tally
<1> QED
  BY <1>1, <1>2, <1>3, PTL DEF Spec
=============================================================================
