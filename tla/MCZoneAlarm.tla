---------------------------- MODULE MCZoneAlarm ----------------------------
(* ZoneAlarm for TLC.                                                       *)
EXTENDS ZoneAlarm_proofs, TLC

F(area, model) == [area |-> area, model |-> model]

MCFenceLists ==
  {<<>>, <<F(1, "0"), F(2, "0")>>, <<F(1, "2"), F(2, "1")>>, <<F(2, "0"), F(1, "0")>>,
   <<F(3, "0")>>, <<F(1, "0"), F(2, "0"), F(3, "0")>>}
  \cup {<<F(a, m)>> : a \in {1, 2}, m \in {"0", "1"}}

Tasks == Permutations(Task)

=============================================================================
