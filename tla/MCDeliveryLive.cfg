SPECIFICATION FairSpec
CONSTANTS
  Sn = {s1}
  Cmd = {c1}
  Listener = listener
  Workers = {w1}
  MaxCommands = 1
  MaxRedeliveries = 1
  MaxCrashes = 1
  MaxPackets = 2
PROPERTY ListenerGetsOn
PROPERTY EveryQueuedCommandFinishes
