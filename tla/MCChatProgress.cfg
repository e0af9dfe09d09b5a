\* Liveness: no symmetry; two channels that fit one connection, each joined twice at most.
\* The senders: two clients of one session, two connections.
CONSTANTS
  Channels = {x, y}
  Callers = {p1, p2}
  Conns = {k1, k2}
  MaxPerSocket = 2
  MaxSubs = 2
  None = None
  snd_Clients = {c1, c2}
  snd_Conns = {o1, o2}
  snd_None = None
SPECIFICATION SumFairSpec
CHECK_DEADLOCK FALSE
INVARIANT SingleConnection
PROPERTIES OnlyGivingUpStrands Rejoined IdleFeedsClose SocketsClose
