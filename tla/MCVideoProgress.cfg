\* Liveness: no symmetry; one live channel, one slot, two sessions.
CONSTANTS
  Keys = {chan}
  Vods = {}
  Qualities = {q1}
  Modes = {m1, m2}
  Clients = {c1, c2}
  Sessions = {s1, s2}
  RelayCap = 1
  MaxRestarts = 1
  Backends = 1
  None = None
SPECIFICATION SumFairSpec
CHECK_DEADLOCK FALSE
PROPERTIES StartsAnswered StoppedReleased EndIsNoticed
