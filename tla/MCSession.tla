------------------------------ MODULE MCSession ------------------------------
(* DeviceSession for TLC, with the inductive invariant of its proofs.      *)
EXTENDS DeviceSession_proofs

=============================================================================
