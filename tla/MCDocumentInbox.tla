-------------------------- MODULE MCDocumentInbox --------------------------
(* Small instances of DocumentInbox for TLC.                               *)
EXTENDS DocumentInbox, TLC

Symmetry == Permutations(Files) \cup Permutations(Connections)
            \cup Permutations(Clients) \cup Permutations(Supported)
            \cup Permutations(Invoices)
=============================================================================
