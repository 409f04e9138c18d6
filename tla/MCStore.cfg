SPECIFICATION Spec
CHECK_DEADLOCK FALSE
CONSTANTS
  Clients = {"c1", "c2"}
  Replaced = {"policies", "firewall"}
  Skipping = {"firewall"}
  Merged = {"routes"}
  Lists = {"lists"}
  Sysctls = {"sysctls"}
  Demanding = {"policies", "firewall"}
  DesiredOrder <- MCOrder
  Ids = {1, 2}
  Names = {1, 3, 4}
  Values = {"x", "y", "bad"}
  Bad = "bad"
  Pushes <- MCPushes
  Edits <- MCEdits
  MaxRequests = 3
INVARIANT UniqueNames
INVARIANT PushIsIdempotent
