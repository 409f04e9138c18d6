CONSTANTS
  Sources = {"a", "b"}
  NameOrder <- TwoNames
  Handmade = {}
  Scenarios <- Guarding
SPECIFICATION Spec
PROPERTY FailClosed
CHECK_DEADLOCK FALSE
