SPECIFICATION Spec
CONSTANTS
  s1 = s1 s2 = s2 None = None
  Sessions <- MCSessions
  TTL <- MCTTL
  MaxHeight = 5
  MaxSequence = 4
  MaxEpoch = 2
CONSTRAINT PendingBound
SYMMETRY MCSymmetry
CHECK_DEADLOCK FALSE
INVARIANT OneLiveOwner
PROPERTY ImplementsFencedLog
