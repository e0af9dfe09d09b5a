\* The limit: two clients, a bucket of two requests.  Two requests at a time elsewhere.
CONSTANTS
  Clients = {k1, k2}
  Rate = 2
  Capacity = 6
  Cost = 3
  MaxTime = 4
  md_Handlers = {h1, h2}
  md_Views = {"streams", "lsf"}
  md_MaxChanges = 1
  md_MaxFaults = 1
  md_None = None
  rd_Callers = {h1, h2}
  rd_Configured = {"official", "third_party", "scraper"}
  rd_Settings <- MCSettings
  rd_Budgets = {1}
  pg_Streams = {1, 2, 3, 4}
  pg_Limits = {1, 3}
  pg_PageSize = 2
  pg_HelixPage = 2
  pg_MaxMoves = 1
  pg_MaxFaults = 1
  acc_Browsers = {b1, b2}
  acc_Local = {b1, b2}
  acc_Handlers = {h1, h2}
  acc_Sessions = {s1}
  acc_Devices = {d1}
  acc_MaxGen = 2
  acc_None = None
SPECIFICATION SumSpec
CHECK_DEADLOCK FALSE
INVARIANTS Bounded BudgetKept NothingSkipped SessionNotShared LogoutRevokes
PROPERTIES NeverBack StaleStandsIn
