SPECIFICATION Spec
CONSTANTS
  None = None
  IdOrder <- MCIdOrder
  Signers <- MCSigners
  Operators <- MCOperators
  OperatorAccount <- MCOperatorAccount
  ValidatorId <- MCValidatorId
  Candidates <- MCCandidates
  GenesisAgents <- MCGenesisAgents
  MaxPower = 2
ACTION_CONSTRAINT Paced
INVARIANT ExportIsRestored
INVARIANT CaseCanOpen
INVARIANT ElectorateFollowsStake
