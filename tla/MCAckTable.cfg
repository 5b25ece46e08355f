SPECIFICATION TableSpec
CONSTANTS
  Sn = {s1, s2}
  Cmd = {c1, c2}
  Listener = listener
  Workers = {w1, w2}
  MaxPackets = 3
SYMMETRY Perms
INVARIANT TableTypeOK
INVARIANT NoEmptySetStays
INVARIANT CheckNeverDropsPending
PROPERTY OnlyOwnAcksSettle
INVARIANT IInv
