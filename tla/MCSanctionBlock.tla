--------------------------- MODULE MCSanctionBlock ---------------------------
(***************************************************************************)
(* Two cases over one transaction or one recipient, of any of the actions  *)
(* that restrict without moving money: WATCH, BLOCK_TX, FREEZE_ADDRESS.    *)
(* The transaction may still be waiting for inclusion.                     *)
(***************************************************************************)
EXTENDS SanctionCases, TLC

CONSTANTS a1, c1, c2, r1, r2, alice, bob, module, t1

MCAccounts == {alice, bob, module}

Payment == [txHash |-> t1, messageIndex |-> 0, sender |-> alice,
            recipient |-> bob, amount |-> 1]

MCTxMsgs == t1 :> {Payment}
MCInitBalance == alice :> 1 @@ bob :> 0 @@ module :> 0

Evidence(score, kinds, observed, expiry) ==
  [transfer |-> Payment, score |-> score, categories |-> kinds,
   source |-> "chainalysis", observedHeight |-> observed,
   expiryHeight |-> expiry]

\* Scores just below and at the freeze threshold, the second one observed
\* later so that it can replace the first, and a low-risk report.
MCReportBodies ==
  {Evidence(84, {"scam"}, 1, 2), Evidence(85, {"scam"}, 2, 4),
   Evidence(60, {"gambling"}, 1, 2)}

MCParamSets ==
  {[watchThreshold |-> 60, blockThreshold |-> 80, freezeThreshold |-> 85,
    revertThreshold |-> 90, quorumThreshold |-> 67,
    unanimousRequiredForRevert |-> TRUE, votingPeriodBlocks |-> 1,
    acceptedRiskSources |-> {"chainalysis"}, highRiskCategories |-> {"scam"},
    allowedActions |-> SanctionActions]}

MCPowerMaps == {a1 :> 1}
MCCases == {c1, c2}
MCReports == {r1, r2}
MCSymmetry == Permutations(MCCases) \cup Permutations(MCReports)

=============================================================================
