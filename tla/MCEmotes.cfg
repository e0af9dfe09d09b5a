\* Two emotes, one handler and the rebuild loop, two changes, one expiry, one fault.
CONSTANTS
  Emotes = {e1, e2}
  Aliased = {e1}
  Handlers = {h1}
  Loop = Loop
  MaxEdits = 2
  MaxExpiries = 1
  MaxFaults = 1
  ev_Logins = {"l1", "l2"}
  ev_WithSet = {"l1", "l2"}
  ev_Sets = {"s1"}
  ev_Handlers = {"h1"}
  ev_Conns = {"k1", "k2"}
  ev_MaxChanges = 1
  ev_None = None
  ob_Handlers = {"h1", "h2"}
  ob_Slots = {"p1"}
  ob_MaxPuts = 2
  hi_Emotes = {"e1", "e2"}
  hi_Chats = {"c1", "c2"}
  hi_MaxLen = 1
  hi_Limit = 1
  hi_None = None
SPECIFICATION SumFairSpec
CHECK_DEADLOCK FALSE
INVARIANTS Truthful StaleIsKnown ActiveSubscribed StaysReadable OneHint
PROPERTIES Settles
