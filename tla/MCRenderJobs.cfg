\* Two jobs of one emote, two workers, two requests, one retry, one fault.
CONSTANTS
  one = one
  both = both
  s1 = s1
  s2 = s2
  Jobs = {one, both}
  Scales = {s1, s2}
  ScalesOf <- ScalesOfJobs
  Workers = {w1, w2}
  Callers = {c1, c2}
  maxAttempts = 1
  MaxRequests = 2
  MaxFaults = 1
  MaxOverruns = 1
  None = None
SPECIFICATION Spec
SYMMETRY Symmetry
CHECK_DEADLOCK FALSE
INVARIANTS OneHolder DoneIsRendered
