------------------------ MODULE MCSanctionElectorate ------------------------
(***************************************************************************)
(* One case and its electorate: weighted votes in every order, before and  *)
(* after approval, while validator powers and parameters keep changing.    *)
(***************************************************************************)
EXTENDS SanctionCases, TLC

CONSTANTS a1, a2, a3, c1, r1, alice, bob, module, t1

MCAgents == {a1, a2, a3}
MCAccounts == {alice, bob, module}

Stolen == [txHash |-> t1, messageIndex |-> 0, sender |-> alice,
           recipient |-> bob, amount |-> 2]

MCTxMsgs == t1 :> {Stolen}
MCInitBalance == alice :> 2 @@ bob :> 0 @@ module :> 0

Evidence(score, expiry) ==
  [transfer |-> Stolen, score |-> score, categories |-> {"scam"},
   source |-> "chainalysis", observedHeight |-> 1, expiryHeight |-> expiry]

MCReportBodies == {Evidence(95, 5)}

Parameters(quorum, unanimous) ==
  [watchThreshold |-> 60, blockThreshold |-> 80, freezeThreshold |-> 85,
   revertThreshold |-> 90, quorumThreshold |-> quorum,
   unanimousRequiredForRevert |-> unanimous, votingPeriodBlocks |-> 1,
   acceptedRiskSources |-> {"chainalysis"}, highRiskCategories |-> {"scam"},
   allowedActions |-> {"BLOCK_TX", "REVERT_TRANSFER"}]

\* Two thirds with unanimity, a quorum both sides can reach, and a quorum of
\* zero that validation refuses.
MCParamSets ==
  {Parameters(67, TRUE), Parameters(50, FALSE), Parameters(0, TRUE)}

\* Equal powers, a dominant voter, and an agent that is not eligible.
MCPowerMaps ==
  {a1 :> 1 @@ a2 :> 1 @@ a3 :> 1,
   a1 :> 3 @@ a2 :> 2 @@ a3 :> 1,
   a1 :> 1 @@ a2 :> 1 @@ a3 :> 0}

=============================================================================
