SPECIFICATION Spec
CONSTANTS
  a1 = a1 a2 = a2 a3 = a3 c1 = c1 r1 = r1
  alice = alice bob = bob module = module t1 = t1 None = None
  Agents <- MCAgents
  Cases = {c1}
  Reports = {r1}
  ReportBodies <- MCReportBodies
  Txs = {t1}
  TxMsgs <- MCTxMsgs
  Accounts <- MCAccounts
  ModuleAccount = module
  InitBalance <- MCInitBalance
  ParamSets <- MCParamSets
  PowerMaps <- MCPowerMaps
  MaxReports = 1
  MaxHeight = 4
INVARIANTS
  DecisionMatchesTally RevertNeedsUnanimity
PROPERTIES
  StatusFollowsLifeCycle TermsImmutable
