\* What a comment says of the first delta, checked alone: TLC finds it broken.
CONSTANTS
  Emotes = {e1}
  Aliased = {}
  Handlers = {h1}
  Loop = Loop
  MaxEdits = 1
  MaxExpiries = 0
  MaxFaults = 0
SPECIFICATION FairSpec
CHECK_DEADLOCK FALSE
PROPERTY DeltaFills
