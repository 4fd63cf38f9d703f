----------------------- MODULE MCBankReconciliation -----------------------
(***************************************************************************)
(* Two accounts with the same cash account combination: aa, fed by the     *)
(* bank, and bb, filled from files.                                        *)
(***************************************************************************)
EXTENDS BankReconciliation, TLC

CONSTANTS aa, bb, x, y, l1, l2, k1, k2, r1, r2, c1, c2

MCAccounts == {aa, bb}
MCFed == {aa}
MCObservations == {x, y}
MCImported == {y}
MCAccountOf == (x :> aa) @@ (y :> bb)

Posted(p, i) == [period |-> p, amount |-> i, status |-> "POSTED"]
(* x is shown, and later with another date and amount; y is a row of a file. *)
MCShown ==
  (x :> <<Posted(1, 2), Posted(2, 1)>>) @@ (y :> <<Posted(1, 2)>>)

MCLines == {l1, l2}
MCLinePeriod == (l1 :> 1) @@ (l2 :> 2)
MCLineAmount == (l1 :> 2) @@ (l2 :> 1)
MCCashLines == [c \in MCAccounts |-> MCLines]

Session(i, c, p, open, close) ==
  [id |-> i, account |-> c, period |-> p, opening |-> open, closing |-> close]
(* Two consecutive periods of aa, and the first one of bb. *)
MCSessions ==
  {Session(1, aa, 1, 0, 2), Session(2, aa, 2, 2, 3), Session(3, bb, 1, 0, 2)}

Symmetry ==
  Permutations({k1, k2}) \cup Permutations({r1, r2}) \cup Permutations({c1, c2})
=============================================================================
