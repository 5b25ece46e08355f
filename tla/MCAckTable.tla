----------------------------- MODULE MCAckTable -----------------------------
(* AckTable for TLC, with the inductive invariant of its proofs.           *)
EXTENDS AckTable_proofs, TLC

Perms == Permutations(Workers)

=============================================================================
