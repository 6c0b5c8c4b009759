SPECIFICATION FairSpec
CONSTANTS
  t1 = t1
  t2 = t2
  t3 = t3
  l1 = l1
  l2 = l2
  Thread = {t1, t2}
  Loop = {l1, l2}
  NoThread = NoThread
  NoLoop = NoLoop
  MaxDepth = 3
INVARIANTS OwnerBalanced QuitWakesPoll
PROPERTY QuitReturns
