------------------------ MODULE MCInvoiceDelivery ------------------------
(* Small instances of InvoiceDelivery for TLC.                             *)
EXTENDS InvoiceDelivery, TLC

Symmetry == Permutations(Attempts) \cup Permutations(Commands)
            \cup Permutations(Processes) \cup Permutations(People)
=============================================================================
