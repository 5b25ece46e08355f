SPECIFICATION Spec
CONSTANTS
  f1 = f1
  f2 = f2
  Fence <- MCFence
  FenceLists <- MCFenceLists
  Address <- MCAddress
  Place <- MCPlace
  Task = {t1}
  MaxFailures = 0
PROPERTY LeftOutIsRepeated
