CONSTANTS
  t1 = t1
  t2 = t2
  Threads = {t1, t2}
  NoThread = NoThread
  Collections = {"policies", "lists"}
  Replaced = {"policies"}
  Lists = {"lists"}
  DesiredOrder <- MCDesiredOrder
  PlanOrder <- MCPlanOrder
  Gens = {7}
  Requests <- Everyone
  MaxRequests = 2
  MaxRestarts = 0
SPECIFICATION Spec
SYMMETRY Symmetry
INVARIANT StatusShowsLastApply
CHECK_DEADLOCK FALSE
