CONSTANTS
  Addrs = {"a", "b", "x"}
  Devices = {"wan0", "gre0"}
  Kinds = {"new", "reply"}
  ListNames = {"iran"}
  Any = Any
  Policies <- MCPolicies
  Rules <- MCRules
  NATs <- MCNATs
  Forwards <- MCForwards
  Pushes <- Everything
  MaxPushes = 1
  MaxEdits = 1
SPECIFICATION Spec
INVARIANT EgressIsAccepted
INVARIANT EgressIsTranslated
INVARIANT DirectFollowsList
INVARIANT DenyHolds
CHECK_DEADLOCK FALSE
