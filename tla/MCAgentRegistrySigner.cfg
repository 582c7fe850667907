SPECIFICATION Spec
CONSTANTS
  None = None
  IdOrder <- MCIdOrder
  Signers <- MCSigners
  Operators <- MCOperators
  OperatorAccount <- MCOperatorAccount
  ValidatorId <- MCValidatorId
  Candidates <- MCWithIndependent
  GenesisAgents <- MCGenesisAgents
  MaxPower = 2
ACTION_CONSTRAINT Paced
INVARIANT SignersUnique
