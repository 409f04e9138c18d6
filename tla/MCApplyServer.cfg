CONSTANTS
  t1 = t1
  t2 = t2
  Threads = {t1, t2}
  NoThread = NoThread
  Collections = {"policies", "lists"}
  Replaced = {"policies"}
  Lists = {"lists"}
  DesiredOrder <- MCDesiredOrder
  PlanOrder <- MCPlanOrder
  Gens = {7}
  Requests <- Varied
  MaxRequests = 2
  MaxRestarts = 1
SPECIFICATION FairSpec
INVARIANT TypeOK
INVARIANT ReadYourWrites
INVARIANT OnePlanOnHost
INVARIANT GenerationIsProgrammed
PROPERTY NoRollback
PROPERTY OnlyRealApplies
PROPERTY MockNeverTouchesHost
PROPERTY ImplementsReconciler
PROPERTY EveryRequestAnswered
CHECK_DEADLOCK FALSE
