SPECIFICATION Spec
CONSTANTS
  a1 = a1 a2 = a2 None = None Failed = Failed Absent = Absent
  Agents <- MCAgents
  Configs <- MCConfigs
  Thresholds <- MCThresholds
  Answers <- MCAnswers
  QuorumPercent = 67
  Unanimous = TRUE
  VotingPeriod = 2
  ScanLimit = 2
  MaxHeight = 7
  MaxRound = 1
  MaxFaults = 1
ACTION_CONSTRAINT Paced
CHECK_DEADLOCK FALSE
INVARIANT ScannedIsStored
 
INVARIANT VotesAreFresh
INVARIANT VotesAreAboutTheCase
INVARIANT OpenNeverAgainstPolicy
PROPERTY ExecutesOwnReview
