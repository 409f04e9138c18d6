CONSTANTS
  Sources = {"a", "b"}
  NameOrder <- TwoNames
  Handmade <- Manual
  Scenarios <- MCScenarios
SPECIFICATION Spec
INVARIANT TypeOK
INVARIANT NoSiblings
INVARIANT Converged
INVARIANT NeverElsewhere
INVARIANT TablesLeadHome
INVARIANT FlowsFollowEgress
PROPERTY EmptyPlanPrunesNothing
CHECK_DEADLOCK FALSE
