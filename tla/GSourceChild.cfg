SPECIFICATION FairSpec
CONSTANTS
  s1 = s1
  s2 = s2
  s3 = s3
  Source = {s1, s2, s3}
  None = None
  MaxDepth = 2
  SlowDestroy = TRUE
INVARIANTS DispatchBlocks ParentFollows
PROPERTY ChildDies
