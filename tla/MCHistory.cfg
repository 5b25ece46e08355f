SPECIFICATION RecordsSpec
CONSTANTS
  Place = {p1, p2}
  Task = {t1, t2}
  Keep = 2
  TrimTime = {2, 4}
  MaxTime = 4
  MaxLocations = 4
  Steps = {n1, n2}
  Week = 2
  MaxReports = 3
  MaxFrames = 4
  MaxFailures = 1
INVARIANT TypeOK
INVARIANT ColumnsInOrder
INVARIANT LocationKept
INVARIANT TextKept
INVARIANT PedTypeOK
INVARIANT WeekKept
PROPERTY TrimForgetsTheOld
SYMMETRY Symmetry
CHECK_DEADLOCK FALSE
