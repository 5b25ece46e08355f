SPECIFICATION FairSpec
CONSTANTS
  MaxFrames = 3
  Streams <- MCStreams
  MaxFrame = 8192
  MinFrame = 17
  Task = {1, 2}
  MaxFailures = 1
CHECK_DEADLOCK FALSE
INVARIANTS
  TypeOK
  CleanFrameAccepted
  DamagedFrameIgnored
  OneRowEach
  NoOrphanRows
  CompleteOnceHandled
PROPERTIES
  RegistersInTheEnd
  
