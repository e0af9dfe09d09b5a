\* One live channel and one VOD, two concurrent handlers, two slots, two sessions, a fallback
\* backend; two starts that want tokens.
CONSTANTS
  Keys = {chan, vod}
  Vods = {vod}
  Qualities = {q1}
  Modes = {m1, m2}
  Clients = {c1, c2}
  Sessions = {s1, s2}
  RelayCap = 2
  MaxRestarts = 1
  Backends = 2
  None = None
  pl_Urls <- MCUrls
  pl_MaxRedirect = 1
  pl_Segments = 6
  pl_Window = 4
  pl_None = None
  pb_Callers = {d1, d2}
  pb_Viewers = {"v1", "v2"}
  pb_Entitled = {"v1"}
  pb_Threshold = 2
  pb_MaxFaults = 2
  pb_None = None
  st_Configured <- MCConfigured
  st_Listings <- MCListings
  st_Qualities <- MCQualities
  st_Full = 5
  st_Fast = 3
  st_Window = 1
SPECIFICATION SumSpec
SYMMETRY Symmetry
CHECK_DEADLOCK FALSE
INVARIANTS SlotAccounting LeakNeedsRestart FollowsApproved Cleaned AnonymousIsAnonymous NothingLeftRunning
