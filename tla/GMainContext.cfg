SPECIFICATION FairSpec
CONSTANTS
  t1 = t1
  c1 = c1
  Timer = {t1}
  Custom = {c1}
  CanRecurse = {t1}
  Movable = {c1}
  InitPrio <- AllUrgent
  Prios = {1, 2}
  None = None
  MaxDepth = 2
  MaxTime = 1
INVARIANTS NoOversleep PendingSound PassedOverStaysReady DispatchFlags IterListLives
PROPERTY UrgentIsDispatched
