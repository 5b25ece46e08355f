SPECIFICATION Spec
CONSTANTS
  f1 = f1
  f2 = f2
  Fence <- MCFence
  FenceLists <- MCFenceLists
  Address <- MCAddress
  Place <- MCPlace
  Task = {t1, t2}
  MaxFailures = 1
INVARIANT TypeOK
INVARIANT PushedMatchesRow
INVARIANT FilterLosesNoCrossing
INVARIANT GpsIsRecorded
SYMMETRY Tasks
