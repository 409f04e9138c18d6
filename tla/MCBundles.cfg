CONSTANTS
  Addrs = {"a", "x"}
  Devices = {"wan0", "gre0"}
  Any = Any
  ListNames = {"vips", "none"}
  KnownLists <- MCLists
  Services = {"ssh", "web"}
  Forms <- MCForms
  Numberings <- MCNumberings
  MaxAttempts = 3
  MaxCalls = 5
  MaxFailures = 1
SPECIFICATION Spec
INVARIANT StoredInOrder
INVARIANT DoneIsComplete
INVARIANT RetryIsHarmless
INVARIANT RepliesPass
INVARIANT BlocksHold
CHECK_DEADLOCK FALSE
