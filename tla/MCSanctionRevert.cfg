SPECIFICATION Spec
CONSTANTS
  a1 = a1 c1 = c1 c2 = c2 r1 = r1 r2 = r2 alice = alice bob = bob carol = carol module = module
  t1 = t1 t2 = t2 None = None
  Agents <- MCAgents
  Cases <- MCCases
  Reports <- MCReports
  ReportBodies <- MCReportBodies
  Txs <- MCTxs
  TxMsgs <- MCTxMsgs
  Accounts <- MCAccounts
  ModuleAccount = module
  InitBalance <- MCInitBalance
  ParamSets <- MCParamSets
  PowerMaps <- MCPowerMaps
  MaxReports = 2
  MaxHeight = 4
CONSTRAINT ReviewBound
SYMMETRY MCSymmetry
INVARIANTS
  TypeOK OneSettlementPerTransfer LedgerExplained ExecutedOnFreshEvidence
  RevokedAfterReview ReplacedNeverExecutes ExportIsAccepted
