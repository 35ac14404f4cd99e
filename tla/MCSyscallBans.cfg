CONSTANTS
  MaxTask = 3
  BanKinds = {"k"}
  Args <- SomeArgs
  Heights = {1, 3}
SPECIFICATION FairSpec
INVARIANTS FlipClimbs FlipsOnlyAncestors QuietFlipExact
PROPERTIES BansChangeFromBelow FlipReturns
