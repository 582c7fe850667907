SPECIFICATION Spec
CONSTANTS
  None = None NoId = NoId
  Callers = {"worker", "operator"}
  Ids = {"baseline-compensation", "4-1-partition", "post-restart-compensation", "review"}
  Payloads = {"transfer", "review", "revoke", "plain"}
  Plain = {"plain"}
  OperatorCommands <- MCOperatorCommands
  MaxFaults = 1
  MaxOrders = 2
ACTION_CONSTRAINT Focused
CHECK_DEADLOCK FALSE
INVARIANT SentIsSaved
INVARIANT DoneIsTrue
INVARIANT PartitionHolds
 
 
