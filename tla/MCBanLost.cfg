CONSTANTS
  MaxTask = 3
  BanKinds = {"k"}
  Args <- SomeArgs
  Heights = {1, 3}
SPECIFICATION FairSpec
PROPERTY FlipsInvert
