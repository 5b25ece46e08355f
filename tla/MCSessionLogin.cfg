SPECIFICATION Spec
CONSTANTS
  Sn = {s1}
  Channel = {ch1, ch2}
  NoChannel = none
  Task = {t1, t2}
  Kind = {"beat", "login", "logout", "row"}
PROPERTY LoginLeavesDeviceMapped
