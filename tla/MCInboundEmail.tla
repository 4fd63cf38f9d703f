-------------------------- MODULE MCInboundEmail --------------------------
(* Small instances of InboundEmail for TLC.                                *)
EXTENDS InboundEmail, TLC

Symmetry == Permutations(Attachments) \cup Permutations(Workers)
=============================================================================
