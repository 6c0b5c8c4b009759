SPECIFICATION FairSpec
CONSTANTS
  t1 = t1
  t2 = t2
  t3 = t3
  l1 = l1
  l2 = l2
  Thread = {t1, t2, t3}
  Loop = {l1}
  NoThread = NoThread
  NoLoop = NoLoop
  MaxDepth = 1
PROPERTY NoStrandedWaiter
