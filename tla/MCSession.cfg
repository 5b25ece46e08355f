SPECIFICATION Spec
CONSTANTS
  Sn = {s1, s2}
  Channel = {ch1, ch2}
  NoChannel = none
  Task = {t1}
  Kind = {"beat", "login", "logout", "row"}
INVARIANT TypeOK
INVARIANT NoCrossWiring
INVARIANT OnlineOnlyIfHeard
INVARIANT InStepUnlessDisturbed
INVARIANT SInv
