-------------------------- MODULE MCSanctionRevert --------------------------
(***************************************************************************)
(* One suspicious transaction with two transfers, evidence that expires,   *)
(* two competing REVERT_TRANSFER cases (or a case and its replacement), and *)
(* a recipient who may spend the money first.                              *)
(***************************************************************************)
EXTENDS SanctionGenesis, TLC

CONSTANTS a1, c1, c2, r1, r2, alice, bob, carol, module, t1, t2

MCAgents == {a1}
MCAccounts == {alice, bob, carol, module}
MCTxs == {t1, t2}

Stolen == [txHash |-> t1, messageIndex |-> 0, sender |-> alice,
           recipient |-> bob, amount |-> 2]
Tip == [txHash |-> t1, messageIndex |-> 1, sender |-> alice,
        recipient |-> carol, amount |-> 1]
\* Spends part of the stolen coins: afterwards too little is left to revert.
Onward == [txHash |-> t2, messageIndex |-> 0, sender |-> bob,
           recipient |-> carol, amount |-> 3]
\* Claims more than the transaction moved.
Inflated == [Stolen EXCEPT !.amount = 3]

MCTxMsgs == t1 :> {Stolen, Tip} @@ t2 :> {Onward}
MCInitBalance ==
  alice :> 3 @@ bob :> 2 @@ carol :> 2 @@ module :> 0

Evidence(t, observed, expiry) ==
  [transfer |-> t, score |-> 95, categories |-> {"scam"},
   source |-> "chainalysis", observedHeight |-> observed,
   expiryHeight |-> expiry]

MCReportBodies ==
  {Evidence(Stolen, 1, 3), Evidence(Stolen, 2, 5), Evidence(Inflated, 2, 5)}

Parameters(quorum, unanimous) ==
  [watchThreshold |-> 60, blockThreshold |-> 80, freezeThreshold |-> 85,
   revertThreshold |-> 90, quorumThreshold |-> quorum,
   unanimousRequiredForRevert |-> unanimous, votingPeriodBlocks |-> 1,
   acceptedRiskSources |-> {"chainalysis"}, highRiskCategories |-> {"scam"},
   allowedActions |-> {"REVERT_TRANSFER"}]

MCParamSets == {Parameters(67, TRUE)}
MCPowerMaps == {a1 :> 1}

MCCases == {c1, c2}
MCReports == {r1, r2}
MCSymmetry == Permutations(MCCases) \cup Permutations(MCReports)

\* Bound: the authority reviews at most one of the cases.
MaxReviews == 1
ReviewBound == Cardinality({c \in Cases : reviews[c] # None}) <= MaxReviews

=============================================================================
