SPECIFICATION Spec
CONSTANTS
  a1 = a1 c1 = c1 c2 = c2 r1 = r1 r2 = r2
  alice = alice bob = bob module = module t1 = t1 None = None
  Agents = {a1}
  Cases <- MCCases
  Reports <- MCReports
  ReportBodies <- MCReportBodies
  Txs = {t1}
  TxMsgs <- MCTxMsgs
  Accounts <- MCAccounts
  ModuleAccount = module
  InitBalance <- MCInitBalance
  ParamSets <- MCParamSets
  PowerMaps <- MCPowerMaps
  MaxReports = 1
  MaxHeight = 3
SYMMETRY MCSymmetry
INVARIANTS
  SanctionsHaveLiveOwner NoDeliveryUnderSanction
PROPERTIES
  FrozenCoinsMoveOnlyBySettlement
