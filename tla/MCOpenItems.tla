---------------------------- MODULE MCOpenItems ----------------------------
(* Small instances of OpenItems for TLC.                                   *)
EXTENDS OpenItems, TLC

\* 3 units carried at 2, of which a third carries a rounded 1 and so does the
\* next; and 2 carried at 3, of which one unit carries a rounded 2.
Rounded == {[tx |-> 3, functional |-> 2], [tx |-> 2, functional |-> 3]}

\* 6 units carried at 3: one unit carries a rounded 1, three carry 2.
Halves == {[tx |-> 6, functional |-> 3]}

Symmetry ==
  Permutations(Documents) \cup Permutations(Settlements) \cup Permutations(Txns)
=============================================================================
