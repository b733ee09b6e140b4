CONSTANTS
  p1 = p1
  p2 = p2
  merger = merger
  observer = observer
  ann = ann
  PRs = {p1}
  Workers = {merger, observer}
  Mergers = {merger}
  Reviewers = {ann}
  Heads = {1, 2}
  Trunk = "trunk"
  Elsewhere = "elsewhere"
  Settle = 1
  Slow = 1
  MaxObs = 2
  MaxEvents = 1
  None = None
SPECIFICATION FairSpec
CHECK_DEADLOCK FALSE
INVARIANTS AnchorHonest MergeSound
PROPERTIES GrantSettled EventuallyMerged
