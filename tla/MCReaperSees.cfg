\* A promise of the browser's prewarm hook, checked alone: TLC finds it broken.
\* One live channel, two slots, two concurrent handlers.
CONSTANTS
  Keys = {chan}
  Vods = {}
  Qualities = {q1}
  Modes = {m1}
  Clients = {c1, c2}
  Sessions = {s1, s2}
  RelayCap = 2
  MaxRestarts = 1
  Backends = 1
  None = None
SPECIFICATION Spec
CHECK_DEADLOCK FALSE
INVARIANT ReaperSees
