\* Two providers of one emote each, three that seed, one fault.
CONSTANTS
  Emotes <- MCEmotes
  Providers = {"7tv", "twitch"}
  From <- MCFrom
  Globals = {}
  Shared = {}
  Eager = {"twitch"}
  Lists <- MCLists
  Preloaded = {"7tv"}
  Renamed = {"7tv"}
  Workers = {"seed", "preload", "event"}
  MaxFaults = 1
  None = None
SPECIFICATION FairSpec
CHECK_DEADLOCK FALSE
INVARIANT NeverHollow
PROPERTY RequestsSettle
