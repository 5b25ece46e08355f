SPECIFICATION Spec
CONSTANTS
  Sn = {s1, s2}
  Cmd = {c1}
  Listener = listener
  Workers = {w1}
  MaxCommands = 2
  MaxRedeliveries = 0
  MaxCrashes = 1
  MaxPackets = 2
INVARIANT TypeOK
INVARIANT InOnePlace
INVARIANT SilentDeviceStaysTracked
PROPERTY OkNeedsAck
PROPERTY ImplementsQueue
