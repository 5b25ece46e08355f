SPECIFICATION Spec
CONSTANTS
  Sn = {s1}
  Cmd = {c1}
  Listener = listener
  Workers = {w1}
  MaxCommands = 1
  MaxRedeliveries = 0
  MaxCrashes = 0
  MaxPackets = 2
PROPERTY TimeoutMeansUnanswered
