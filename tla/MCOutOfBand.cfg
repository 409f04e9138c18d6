CONSTANTS
  Sources = {"a", "b"}
  NameOrder <- TwoNames
  Handmade = {}
  Scenarios <- Leaving
SPECIFICATION Spec
INVARIANT GoneIsPruned
CHECK_DEADLOCK FALSE
