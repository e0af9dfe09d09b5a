\* What a test expects of a subscribe, checked alone: TLC finds it broken.
CONSTANTS
  Channels = {x}
  Clients = {c1, c2}
  Feeds = {f1, f2}
  MaxGrace = 2
  MaxJoins = 3
  None = None
SPECIFICATION Spec
CHECK_DEADLOCK FALSE
INVARIANT SubscribedIsServed
