\* The hub: one channel, two clients, two feeds, two grace goroutines in each phase.  The
\* queue: two feeds and the read loop, three frames of each, room for two.  The words: every
\* text of up to five runes, the names and spans of the module.
CONSTANTS
  Channels = {x}
  Clients = {c1, c2}
  Feeds = {f1, f2}
  MaxGrace = 2
  MaxJoins = 3
  None = None
  q_Feeds = {f1, f2}
  q_Size = 2
  q_MaxFrames = 3
  w_Letters = {"a", "b"}
  w_Names <- MCNames
  w_Tags <- MCTags
  w_MaxLen = 5
  w_None = None
SPECIFICATION SumSpec
CHECK_DEADLOCK FALSE
INVARIANTS NoFeedLeaks SubscribersServed ClosedIsLeft Tokenized
PROPERTY InOrder
