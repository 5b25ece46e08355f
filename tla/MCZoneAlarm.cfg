SPECIFICATION Spec
CONSTANTS
  Task = {t1, t2}
  FenceLists <- MCFenceLists
INVARIANT TypeOK
INVARIANT EfIsLastZone
INVARIANT ToldMatchesZone
INVARIANT ZInv
PROPERTY WarningsAlternate
SYMMETRY Tasks
