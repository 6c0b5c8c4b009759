SPECIFICATION FairSpec
CONSTANTS
  t1 = t1
  t2 = t2
  t3 = t3
  Thread = {t1, t2, t3}
  CounterSize = 3
INVARIANTS NoForgottenSleeper BroadcastReleasesAll
PROPERTIES SignalReleasesOne ImplementsMonitor LockIsTaken
