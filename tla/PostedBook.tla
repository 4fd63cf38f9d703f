----------------------------- MODULE PostedBook -----------------------------
(***************************************************************************)
(* What the journal numbers of a ledger promise to whoever reads its book: *)
(* a number is issued once, to one journal, without a gap before it; a     *)
(* journal is in the book under at most one number; a number may be given  *)
(* up, but is not issued again; and the two journals of a reversal stay.   *)
(***************************************************************************)
EXTENDS Naturals, Sequences

CONSTANT Journals

VARIABLES
  issued,    \* issued[n]: the journal that number n was issued to
  live,      \* numbers under which a journal is in the book now
  pinned     \* live numbers of journals that are part of a reversal

bookVars == <<issued, live, pinned>>

LiveNumbersOf(j) == {n \in live : issued[n] = j}
NextInBook == Len(issued) + 1

BookInit == issued = <<>> /\ live = {} /\ pinned = {}

Issue(j) ==
  /\ LiveNumbersOf(j) = {}
  /\ issued' = Append(issued, j)
  /\ live' = live \cup {NextInBook}

Enter(j) == Issue(j) /\ UNCHANGED pinned

GiveUp(n) ==
  /\ n \in live \ pinned
  /\ live' = live \ {n}
  /\ UNCHANGED <<issued, pinned>>

\* A reversal enters the book and pins itself together with its original.
EnterReversal(j, n) ==
  /\ n \in live \ pinned
  /\ Issue(j)
  /\ pinned' = pinned \cup {n, NextInBook}

BookNext ==
  \/ \E j \in Journals : Enter(j)
  \/ \E n \in live : GiveUp(n)
  \/ \E j \in Journals, n \in live : EnterReversal(j, n)

Spec == BookInit /\ [][BookNext]_bookVars
=============================================================================
