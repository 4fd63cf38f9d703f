----------------------------- MODULE MCJournals -----------------------------
(* Small instances of Journals for TLC.                                    *)
EXTENDS Journals, TLC

CONSTANTS maker, checker, m1, m2, r1, r2, p1, p2

\* A maker who drafts, submits, posts and would approve; a checker who holds
\* every permission.
PairPermissions ==
  (maker :> {"draft", "submit", "approve", "post"}) @@
  (checker :> PermissionKeys)

Manual(j, a, p, purpose) ==
  [kind |-> "ledger.manual", origin |-> "USER", by |-> a, period |-> p,
   purpose |-> purpose, of |-> j]
Reversal(o, a, p) ==
  [kind |-> "ledger.reversal", origin |-> "USER", by |-> a, period |-> p,
   purpose |-> "REVERSAL", of |-> o]

\* One manual journal, for the long workflows.
OneJournal == m1 :> Manual(m1, maker, p1, "ADJUSTING")

\* One person with every permission, and one journal.
SoloPermissions == checker :> PermissionKeys
SoloJournal == m1 :> Manual(m1, checker, p1, "ADJUSTING")
\* Two journals of one period, and two commands that reverse the first one,
\* in its own and in the next period.
BookCommands ==
  (m1 :> Manual(m1, checker, p1, "ADJUSTING")) @@
  (m2 :> Manual(m2, checker, p1, "ROUTINE")) @@
  (r1 :> Reversal(m1, checker, p1)) @@
  (r2 :> Reversal(m1, checker, p2))

Symmetry == Permutations(Txns) \cup Permutations(Keys)
=============================================================================
