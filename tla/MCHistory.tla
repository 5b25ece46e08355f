------------------------------ MODULE MCHistory ------------------------------
(* Module Pedometer for TLC: what one task or one count of steps does, any  *)
(* other may do as well.                                                    *)
EXTENDS Pedometer, TLC

Symmetry == Permutations(Task) \cup Permutations(Steps)

=============================================================================
