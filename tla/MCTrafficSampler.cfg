CONSTANTS
  Ifaces = {"wan0", "veth1"}
  Ignored = {"veth1"}
  Conns = {"ssh", "web", "dns"}
  Udp = {"dns"}
  Requests = {r1, r2}
  MaxConns = 1
  None = None
  Budgets <- MCBudgets
SYMMETRY Symmetry
SPECIFICATION Spec
INVARIANT TypeOK
INVARIANT NothingLost
INVARIANT NoSpike
INVARIANT StableAreCounted
INVARIANT EstablishedIsReal
CHECK_DEADLOCK FALSE
