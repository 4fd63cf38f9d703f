----------------------------- MODULE BookProofs -----------------------------
(***************************************************************************)
(* Journals implements PostedBook, for every value of the constants.       *)
(***************************************************************************)
EXTENDS JournalProofs, SequenceTheorems

USE DEF Idle, Statuses, PendingStatuses

\* Only reversals are the first journal of a relation, so an original that was
\* not reversed is not part of a reversal at all.
RelationKinds == \A r \in relations : Command[r[1]].kind = "ledger.reversal"

BookInv == TypeOK /\ RowsInv /\ NumbersInv /\ RelationKinds

LEMMA RelationKindsNext ==
  ASSUME TypeOK, RelationKinds, [Next]_vars
  PROVE  RelationKinds'
<1> USE DEF entryVars, workflowVars, adminVars
<1>1. CASE relations' = relations
  BY <1>1 DEF RelationKinds
<1>2. ASSUME NEW t \in Txns, InsertDraft(t) \/ InsertPosted(t) \/ FinishUnpost(t)
      PROVE  relations' = relations
  BY <1>2 DEF InsertDraft, InsertPosted, FinishUnpost
<1>3. ASSUME NEW a \in Actors, NEW i \in Journals, WorkflowStep(a, i)
      PROVE  relations' = relations
  BY <1>3 DEF WorkflowStep, Submit, Approve, Withdraw, Reject, ReturnToDraft, Post, Delete
<1>4. ASSUME NEW r \in Journals, Reverse(r) PROVE RelationKinds'
  <2>1. relations' = relations \cup {<<r, Command[r].of>>} /\ Command[r].kind = "ledger.reversal"
    BY <1>4 DEF Reverse
  <2>2. QED BY <2>1 DEF RelationKinds
<1>5. QED BY <1>1, <1>2, <1>3, <1>4, StepCases DEF Quiet

LEMMA BookInvHolds == Spec => []BookInv
<1>1. Init => RelationKinds /\ NumbersInv
  BY BoundsAssumption DEF Init, RelationKinds, NumbersInv, NumbersBounded,
       NumbersAccountedFor, Holders, GivenUp
<1>2. TypeOK /\ RelationKinds /\ [Next]_vars => RelationKinds'
  BY RelationKindsNext
<1>3. TypeOK /\ TypeOK' /\ RowsInv /\ NumbersInv /\ [Next]_vars => NumbersInv'
  BY NumbersNext DEF RowsInv
<1>4. QED BY <1>1, <1>2, <1>3, TypeCorrect, RowsHold, PTL DEF Spec, BookInv

-----------------------------------------------------------------------------
(* The refinement mapping.                                                 *)

\* Number n went to journal j, which has it or gave it up.
WentTo(n, j) ==
  \/ status[j] = "POSTED" /\ number[j] = n
  \/ \E c \in GivenUp(n) : c.journal = j

Issued == [n \in 1..(nextNumber - 1) |-> IssuedTo(n)]
Live == {number[j] : j \in {i \in Journals : status[i] = "POSTED"}}
Pinned == {number[j] : j \in {i \in Journals : Related(i)}}

LEMMA WentToOne ==
  ASSUME TypeOK, NumbersInv, NEW n \in 1..(nextNumber - 1)
  PROVE  /\ \E j \in Journals : WentTo(n, j)
         /\ \A i, j \in Journals : WentTo(n, i) /\ WentTo(n, j) => i = j
<1> USE BoundsAssumption
<1>1. n \in 1..MaxNumber /\ n < nextNumber
  BY DEF TypeOK, NumbersInv, NumbersBounded
<1>2. /\ Holders(n) # {} \/ GivenUp(n) # {}
      /\ Holders(n) = {} \/ GivenUp(n) = {}
      /\ \A i, j \in Holders(n) : i = j
      /\ \A c, d \in GivenUp(n) : c = d
  BY <1>1 DEF NumbersInv, NumbersAccountedFor
<1>3. \A c \in GivenUp(n) : c.journal \in Journals
  BY DEF GivenUp, TypeOK, Control
<1>4. \A j \in Journals : WentTo(n, j) <=> j \in Holders(n) \/ \E c \in GivenUp(n) : c.journal = j
  BY DEF WentTo, Holders
<1>5. \E j \in Journals : WentTo(n, j)
  <2>1. CASE Holders(n) # {}
    <3>1. PICK j : j \in Holders(n)
      BY <2>1
    <3>2. j \in Journals
      BY <3>1 DEF Holders
    <3>3. QED BY <3>1, <3>2, <1>4
  <2>2. CASE GivenUp(n) # {}
    BY <2>2, <1>3, <1>4
  <2>3. QED BY <2>1, <2>2, <1>2
<1>6. \A i, j \in Journals : WentTo(n, i) /\ WentTo(n, j) => i = j
  BY <1>2, <1>4
<1>7. QED BY <1>5, <1>6

LEMMA IssuedToIs ==
  ASSUME TypeOK, NumbersInv, NEW n \in 1..(nextNumber - 1)
  PROVE  /\ IssuedTo(n) \in Journals
         /\ \A j \in Journals : WentTo(n, j) <=> j = IssuedTo(n)
<1>1. IssuedTo(n) = CHOOSE j \in Journals : WentTo(n, j)
  BY DEF IssuedTo, WentTo
<1>2. IssuedTo(n) \in Journals /\ WentTo(n, IssuedTo(n))
  BY <1>1, WentToOne
<1>3. QED BY <1>2, WentToOne

\* The same in every state, and so in the next one.
IssuedIsWentTo ==
  \A n \in 1..(nextNumber - 1), j \in Journals : WentTo(n, j) <=> j = IssuedTo(n)

LEMMA IssuedNow == BookInv => IssuedIsWentTo
BY IssuedToIs DEF BookInv, IssuedIsWentTo

LEMMA IssuedNext == BookInv' => IssuedIsWentTo'
BY IssuedNow, PTL

LEMMA IssuedIsSeq ==
  ASSUME TypeOK, NumbersInv
  PROVE  Issued \in Seq(Journals) /\ Len(Issued) = nextNumber - 1
<1>1. nextNumber - 1 \in Nat
  BY DEF TypeOK
<1>2. Issued \in [1..(nextNumber - 1) -> Journals]
  BY IssuedToIs DEF Issued
<1>3. QED BY <1>1, <1>2

\* What PostedBook calls the live numbers of a journal.
LEMMA LiveNumbers ==
  ASSUME TypeOK, NumbersInv, NEW j \in Journals, status[j] # "POSTED"
  PROVE  \A n \in Live : n \in 1..(nextNumber - 1) /\ IssuedTo(n) # j
<1> SUFFICES ASSUME NEW i \in Journals, status[i] = "POSTED"
             PROVE  /\ number[i] \in 1..(nextNumber - 1)
                    /\ IssuedTo(number[i]) # j
  BY DEF Live
<1>1. number[i] \in 1..(nextNumber - 1)
  BY DEF TypeOK, NumbersInv, NumbersBounded
<1>2. WentTo(number[i], i)
  BY DEF WentTo
<1>3. QED BY <1>1, <1>2, IssuedToIs

LEMMA RangeGrows ==
  ASSUME NEW x \in Nat, NEW y \in Nat, x <= y, NEW n \in 1..(x - 1)
  PROVE  n \in 1..(y - 1)
OBVIOUS

\* A step keeps the journal of a number when whoever it went to keeps it or
\* gives it up.
LEMMA IssuedStays ==
  ASSUME BookInv, BookInv', nextNumber' \in {nextNumber, nextNumber + 1},
         \A n \in 1..(nextNumber - 1), j \in Journals : WentTo(n, j) => WentTo(n, j)'
  PROVE  /\ \A n \in 1..(nextNumber - 1) : IssuedTo(n)' = IssuedTo(n)
         /\ nextNumber' = nextNumber => Issued' = Issued
<1>1. ASSUME NEW n \in 1..(nextNumber - 1) PROVE IssuedTo(n)' = IssuedTo(n)
  <2>1. IssuedTo(n) \in Journals /\ WentTo(n, IssuedTo(n))
    BY IssuedToIs DEF BookInv
  <2>2. nextNumber \in Nat /\ nextNumber' \in Nat /\ nextNumber <= nextNumber'
    BY DEF BookInv, TypeOK
  <2>3. n \in 1..(nextNumber' - 1)
    BY <2>2, RangeGrows
  <2>4. QED BY <2>1, <2>3, IssuedNext DEF IssuedIsWentTo
<1>2. QED BY <1>1 DEF Issued

LEMMA EnterBookMaps ==
  ASSUME BookInv, BookInv', NEW j \in Journals, status[j] # "POSTED", EnterBook(j),
         controls' = controls
  PROVE  Book!Issue(j) /\ Live' = Live \cup {nextNumber}
<1> PICK m : m = nextNumber
  OBVIOUS
<1>1. /\ m \in Nat \ {0} /\ nextNumber' = m + 1
      /\ status'[j] = "POSTED" /\ number'[j] = m
      /\ \A i \in Journals \ {j} : status'[i] = status[i] /\ number'[i] = number[i]
  BY DEF EnterBook, AllocatedNumber, BookInv, TypeOK
<1>2. \A n : GivenUp(n)' = GivenUp(n)
  BY DEF GivenUp
<1>3. \A n \in 1..(m - 1), i \in Journals : WentTo(n, i) => WentTo(n, i)'
  BY <1>1, <1>2 DEF WentTo
<1>4. \A n \in 1..(m - 1) : IssuedTo(n)' = IssuedTo(n)
  BY <1>1, <1>3, IssuedStays
<1>5. IssuedTo(m)' = j
  <2>1. WentTo(m, j)'
    BY <1>1 DEF WentTo
  <2>2. QED BY <1>1, <2>1, IssuedNext DEF IssuedIsWentTo
<1>6. Issued \in Seq(Journals) /\ Len(Issued) = m - 1
  BY IssuedIsSeq DEF BookInv
<1>7. Issued' = [n \in 1..m |-> IF n = m THEN j ELSE IssuedTo(n)]
  BY <1>1, <1>4, <1>5 DEF Issued
<1>8. Issued' = Append(Issued, j)
  <2>1. /\ Append(Issued, j) \in Seq(Journals) /\ Len(Append(Issued, j)) = m
        /\ \A n \in 1..(m - 1) : Append(Issued, j)[n] = Issued[n]
        /\ Append(Issued, j)[m] = j
    BY <1>1, <1>6, AppendProperties
  <2>2. Append(Issued, j) = [n \in 1..m |-> Append(Issued, j)[n]]
    BY <2>1, LenProperties
  <2>3. \A n \in 1..m : Append(Issued, j)[n] = IF n = m THEN j ELSE IssuedTo(n)
    BY <1>1, <2>1 DEF Issued
  <2>4. QED BY <1>7, <2>2, <2>3
<1>9. Live' = Live \cup {m}
  <2>1. {i \in Journals : status'[i] = "POSTED"} = {i \in Journals : status[i] = "POSTED"} \cup {j}
    BY <1>1
  <2>2. QED BY <1>1, <2>1 DEF Live
<1>10. Book!LiveNumbersOf(j) = {}
  <2>1. \A n \in Live : Issued[n] # j
    BY LiveNumbers DEF BookInv, Issued
  <2>2. QED BY <2>1 DEF Book!LiveNumbersOf, Live, Issued
<1>11. Book!NextInBook = m
  BY <1>1, <1>6 DEF Book!NextInBook, Issued
<1>12. QED BY <1>8, <1>9, <1>10, <1>11 DEF Book!Issue, Live, Issued

-----------------------------------------------------------------------------
(* Every step maps to a step of the book, or to none.                      *)

LEMMA BookStays ==
  ASSUME BookInv, BookInv', UNCHANGED <<number, nextNumber, relations>>,
         controls \subseteq controls',
         \A i \in Journals : status'[i] = "POSTED" <=> status[i] = "POSTED"
  PROVE  UNCHANGED Book!bookVars
<1>1. \A n \in 1..(nextNumber - 1), j \in Journals : WentTo(n, j) => WentTo(n, j)'
  BY DEF WentTo, GivenUp
<1>2. Issued' = Issued
  BY <1>1, IssuedStays
<1>3. Live' = Live /\ Pinned' = Pinned
  BY DEF Live, Pinned, Related
<1>4. QED BY <1>2, <1>3 DEF Book!bookVars, Issued, Live, Pinned

\* Entering the book changes the number of no journal that was pinned.
LEMMA PinnedNumbers ==
  ASSUME BookInv, NEW i \in Journals, Related(i)
  PROVE  status[i] = "POSTED"
BY DEF BookInv, RowsInv, ReversalPinsBook, Related

LEMMA EnterMaps ==
  ASSUME BookInv, BookInv', NEW j \in Journals, status[j] # "POSTED", EnterBook(j),
         UNCHANGED <<controls, relations>>
  PROVE  Book!BookNext
<1>1. Book!Issue(j)
  BY EnterBookMaps
<1>2. \A i \in Journals \ {j} : number'[i] = number[i]
  BY EnterBookType DEF BookInv
<1>3. \A i \in Journals : Related(i)' = Related(i)
  BY DEF Related
<1>4. Pinned' = Pinned
  <2>1. \A i \in Journals : Related(i) => number'[i] = number[i]
    BY <1>2, PinnedNumbers
  <2>2. QED BY <1>3, <2>1 DEF Pinned
<1>5. Book!Enter(j)
  BY <1>1, <1>4 DEF Book!Enter, Pinned
<1>6. QED BY <1>5 DEF Book!BookNext

LEMMA ReverseMaps ==
  ASSUME BookInv, BookInv', NEW r \in Journals, Reverse(r)
  PROVE  Book!BookNext
<1> PICK o : o = Command[r].of
  OBVIOUS
<1> PICK m : m = number[o]
  OBVIOUS
<1> PICK last : last = Len(Issued)
  OBVIOUS
<1>1. /\ o \in Journals /\ status[o] = "POSTED" /\ status[r] = "ABSENT" /\ r # o
      /\ EnterBook(r) /\ controls' = controls /\ relations' = relations \cup {<<r, o>>}
      /\ Command[o].kind = "ledger.manual" /\ ~Reversed(o)
  BY CommandTypes DEF Reverse, adminVars
<1>2. Book!Issue(r)
  BY <1>1, EnterBookMaps
<1>3. /\ number'[r] = last + 1 /\ number'[o] = m
      /\ \A i \in Journals \ {r} : number'[i] = number[i]
  <2>1. nextNumber \in Nat /\ last = nextNumber - 1 /\ TypeOK
    BY IssuedIsSeq DEF BookInv, TypeOK
  <2>2. nextNumber = last + 1
    BY <2>1
  <2>3. number'[r] = nextNumber
    BY <2>1, <1>1 DEF EnterBook, AllocatedNumber, TypeOK
  <2>4. QED BY <2>1, <2>2, <2>3, <1>1, EnterBookType
<1>4. ~Related(o) /\ ~Related(r)
  BY <1>1, PinnedNumbers DEF Related, Reversed, BookInv, RelationKinds
<1>5. m \in Live \ Pinned
  <2>1. m \in Live
    BY <1>1 DEF Live
  <2>2. ASSUME NEW i \in Journals, Related(i), number[i] = m PROVE FALSE
    <3>1. status[i] = "POSTED" /\ i # o
      BY <2>2, <1>4, PinnedNumbers
    <3>2. i \in Holders(m) /\ o \in Holders(m)
      BY <1>1, <2>2, <3>1 DEF Holders
    <3>3. m \in Nat \ {0} /\ m < nextNumber /\ nextNumber \in Nat
          /\ nextNumber <= MaxNumber + 1
      BY <1>1 DEF BookInv, TypeOK, NumbersInv, NumbersBounded
    <3>4. m \in 1..MaxNumber
      BY <3>3, BoundsAssumption
    <3>5. QED BY <3>1, <3>2, <3>4 DEF BookInv, NumbersInv, NumbersAccountedFor
  <2>3. QED BY <2>1, <2>2 DEF Pinned
<1>6. Pinned' = Pinned \cup {m, last + 1}
  <2>1. \A i \in Journals : Related(i)' <=> Related(i) \/ i = r \/ i = o
    <3> DEFINE p == <<r, o>>
    <3>1. p[1] = r /\ p[2] = o
      OBVIOUS
    <3>2. relations' = relations \cup {p}
      BY <1>1
    <3> HIDE DEF p
    <3>3. QED BY <3>1, <3>2 DEF Related
  <2>2. {i \in Journals : Related(i)'} = {i \in Journals : Related(i)} \cup {r, o}
    BY <1>1, <2>1
  <2>3. \A i \in Journals : Related(i) => number'[i] = number[i]
    BY <1>3, <1>4
  <2>4. QED BY <1>3, <2>2, <2>3 DEF Pinned
<1>7. Book!NextInBook = last + 1
  BY DEF Book!NextInBook, Issued
<1>8. Book!EnterReversal(r, m)
  BY <1>2, <1>5, <1>6, <1>7 DEF Book!EnterReversal, Live, Pinned
<1>9. QED BY <1>5, <1>8 DEF Book!BookNext, Live

LEMMA UnpostMaps ==
  ASSUME BookInv, BookInv', NEW t \in Txns, FinishUnpost(t)
  PROVE  Book!BookNext
<1> PICK j : j = txn[t].journal
  OBVIOUS
<1> PICK m : m = number[j]
  OBVIOUS
<1>1. /\ j \in Journals /\ status[j] = "POSTED" /\ ~Related(j)
      /\ UNCHANGED <<nextNumber, relations>>
      /\ controls' = controls \cup {[key |-> txn[t].key, journal |-> j,
                                     outcome |-> "UNPOSTED", number |-> m]}
  BY TxnJournal DEF FinishUnpost, BookInv, RowsInv, UnpostHoldsRow
<1>2. /\ status'[j] = "DRAFT" /\ number'[j] = 0
      /\ \A i \in Journals \ {j} : status'[i] = status[i] /\ number'[i] = number[i]
  BY <1>1 DEF FinishUnpost, LeaveBook, BookInv, TypeOK
<1>3. m \in 1..MaxNumber /\ Holders(m) = {j}
  <2>1. m \in 1..MaxNumber /\ j \in Holders(m)
    BY <1>1, BoundsAssumption DEF BookInv, TypeOK, NumbersInv, NumbersBounded, Holders
  <2>2. QED BY <2>1 DEF BookInv, NumbersInv, NumbersAccountedFor
<1>4. \A n \in 1..(nextNumber - 1), i \in Journals : WentTo(n, i) => WentTo(n, i)'
  <2>1. ASSUME NEW n \in 1..(nextNumber - 1), NEW i \in Journals, WentTo(n, i)
        PROVE  WentTo(n, i)'
    <3>1. CASE i = j /\ n = m
      <4> PICK c : c = [key |-> txn[t].key, journal |-> j, outcome |-> "UNPOSTED", number |-> m]
        OBVIOUS
      <4>1. c \in controls' /\ c.outcome = "UNPOSTED" /\ c.number = m /\ c.journal = j
        BY <1>1
      <4>2. QED BY <3>1, <4>1 DEF WentTo, GivenUp
    <3>2. CASE ~(i = j /\ n = m)
      BY <3>2, <2>1, <1>1, <1>2 DEF WentTo, GivenUp
    <3>3. QED BY <3>1, <3>2
  <2>2. QED BY <2>1
<1>5. Issued' = Issued
  BY <1>1, <1>4, IssuedStays
<1>6. Live' = Live \ {m}
  <2>1. {i \in Journals : status'[i] = "POSTED"} = {i \in Journals : status[i] = "POSTED"} \ {j}
    BY <1>1, <1>2
  <2>2. \A i \in Journals \ {j} : status[i] = "POSTED" => number[i] # m
    BY <1>3 DEF Holders
  <2>3. QED BY <1>2, <2>1, <2>2 DEF Live
<1>7. \A i \in Journals : Related(i)' = Related(i)
  BY <1>1 DEF Related
<1>8. Pinned' = Pinned
  BY <1>1, <1>2, <1>7 DEF Pinned
<1>9. m \in Live \ Pinned
  <2>1. m \in Live
    BY <1>1 DEF Live
  <2>2. ASSUME NEW i \in Journals, Related(i) PROVE number[i] # m
    BY <2>2, <1>1, <1>3, PinnedNumbers DEF Holders
  <2>3. QED BY <2>1, <2>2 DEF Pinned
<1>10. Book!GiveUp(m)
  BY <1>5, <1>6, <1>8, <1>9 DEF Book!GiveUp, Issued, Live, Pinned
<1>11. QED BY <1>9, <1>10 DEF Book!BookNext, Live

LEMMA BookStep ==
  ASSUME BookInv, BookInv', [Next]_vars
  PROVE  [Book!BookNext]_Book!bookVars
<1> USE DEF entryVars, workflowVars, adminVars
<1>1. CASE Quiet
  BY <1>1, BookStays DEF Quiet
<1>2. ASSUME NEW t \in Txns, InsertDraft(t) PROVE UNCHANGED Book!bookVars
  <2>1. /\ txn[t].journal \in Journals /\ status[txn[t].journal] = "ABSENT"
        /\ status' = [status EXCEPT ![txn[t].journal] = "DRAFT"]
        /\ UNCHANGED <<number, nextNumber, relations, controls>>
    BY <1>2, TxnJournal DEF InsertDraft, BookInv
  <2>2. \A i \in Journals : status'[i] = "POSTED" <=> status[i] = "POSTED"
    BY <2>1 DEF BookInv, TypeOK
  <2>3. QED BY <2>1, <2>2, BookStays
<1>3. ASSUME NEW t \in Txns, InsertPosted(t) PROVE Book!BookNext
  BY <1>3, EnterMaps, TxnJournal DEF InsertPosted, BookInv
<1>4. ASSUME NEW a \in Actors, NEW j \in Journals, WorkflowStep(a, j)
      PROVE  [Book!BookNext]_Book!bookVars
  <2>1. ASSUME NEW v \in 0..MaxVersion, Post(a, j, v) PROVE Book!BookNext
    BY <2>1, EnterMaps DEF Post
  <2>2. ASSUME UNCHANGED <<number, nextNumber, relations>>, controls \subseteq controls',
               status[j] \in PendingStatuses, status'[j] \in PendingStatuses,
               \A i \in Journals \ {j} : status'[i] = status[i]
        PROVE  UNCHANGED Book!bookVars
    BY <2>2, BookStays
  <2>3. ASSUME NEW v \in 1..MaxVersion, Submit(a, j, v) PROVE UNCHANGED Book!bookVars
    BY <2>3, <2>2 DEF Submit, BookInv, TypeOK
  <2>4. ASSUME NEW v \in 1..MaxVersion, NEW s \in {"UI", "MCP"}, Approve(a, j, v, s)
        PROVE  UNCHANGED Book!bookVars
    BY <2>4, <2>2 DEF Approve, BookInv, TypeOK
  <2>5. ASSUME NEW v \in 1..MaxVersion, NEW k \in Keys,
               Withdraw(a, j, v, k) \/ Reject(a, j, v, k)
        PROVE  UNCHANGED Book!bookVars
    BY <2>5, <2>2 DEF Withdraw, Reject, ReturnToDraft, BookInv, TypeOK
  <2>6. ASSUME NEW k \in Keys, Delete(a, j, k) PROVE UNCHANGED Book!bookVars
    BY <2>6, <2>2 DEF Delete
  <2>7. QED BY <1>4, <2>1, <2>3, <2>4, <2>5, <2>6 DEF WorkflowStep
<1>5. QED BY <1>1, <1>2, <1>3, <1>4, ReverseMaps, UnpostMaps, StepCases

LEMMA BookStart == Init => Book!BookInit
<1> SUFFICES ASSUME Init PROVE Book!BookInit
  OBVIOUS
<1>1. nextNumber = 1 /\ relations = {} /\ \A j \in Journals : status[j] = "ABSENT"
  BY DEF Init
<1>2. Issued = <<>>
  <2>1. 1..(nextNumber - 1) = {}
    BY <1>1
  <2>2. QED BY <2>1 DEF Issued
<1>3. Live = {} /\ Pinned = {}
  BY <1>1 DEF Live, Pinned, Related
<1>4. QED BY <1>2, <1>3 DEF Book!BookInit, Issued, Live, Pinned

\* The journals of a ledger implement the book of numbers: whatever the
\* workflow, the periods and the open transactions do, a number is issued once
\* and in order, and the two journals of a reversal keep theirs.
THEOREM Refinement == Spec => ImplementsPostedBook
<1>1. Init => Book!BookInit
  BY BookStart
<1>2. BookInv /\ BookInv' /\ [Next]_vars => [Book!BookNext]_Book!bookVars
  BY BookStep
<1>3. QED BY <1>1, <1>2, BookInvHolds, PTL DEF Spec, ImplementsPostedBook, Book!Spec
=============================================================================
