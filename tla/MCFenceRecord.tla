---------------------------- MODULE MCFenceRecord ----------------------------
(* FenceRecord for TLC.                                                     *)
EXTENDS FenceRecord, TLC

CONSTANTS f1, f2

MCFence == {f1, f2}
MCFenceLists == {<<>>, <<f1, f2>>}
MCAddress == {"a", "b"}

At2(address, s1, s2) == [address |-> address, side |-> (f1 :> s1 @@ f2 :> s2)]

MCPlace == {At2("a", "in", "out"), At2("b", "out", "in"), At2("", "out", "on")}

Tasks == Permutations(Task)

=============================================================================
