SPECIFICATION FairSpec
CONSTANTS
  t1 = t1
  t2 = t2
  Task = {t1, t2}
  Main = Main
  None = None
  Callers <- CallersOf
  Cancellable = {t2}
  PoolSize = 1
INVARIANTS CompletesRight FunctionUndisturbed Lifetimes
PROPERTY EveryTaskReturns
CHECK_DEADLOCK FALSE
