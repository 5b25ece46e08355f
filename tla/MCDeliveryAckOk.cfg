SPECIFICATION Spec
CONSTANTS
  Sn = {s1}
  Cmd = {c1}
  Listener = listener
  Workers = {w1}
  MaxCommands = 2
  MaxRedeliveries = 0
  MaxCrashes = 0
  MaxPackets = 2
INVARIANT AckOkMeansExecuted
