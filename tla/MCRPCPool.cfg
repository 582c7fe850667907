SPECIFICATION Spec
CONSTANTS
  e1 = e1 e2 = e2 e3 = e3 None = None Rejected = Rejected
  Endpoints = {e1, e2, e3}
  Wrong = {e3}
  Branches <- MCBranches
  MinAgreement = 2
  MaxHeightLag = 1
  MaxBlockAge = 1
  MaxHeight = 3
  MaxResets = 2
ACTION_CONSTRAINT InOrder
CHECK_DEADLOCK FALSE
INVARIANT UsedIsSaved
PROPERTY CheckpointContinues
PROPERTY CheckpointIsBacked
