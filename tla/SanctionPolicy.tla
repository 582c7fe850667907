--------------------------- MODULE SanctionPolicy ---------------------------
(***************************************************************************)
(* The deterministic policy of the sanction chain: which action a set of   *)
(* risk reports calls for (x/sanction/keeper/policy.go), which parameters  *)
(* are accepted (x/sanction/types/genesis.go) and how vote power becomes a *)
(* percentage (roundedPercent, x/sanction/keeper/msg_server.go).           *)
(*                                                                         *)
(* A report is a record with at least a score and a set of categories;     *)
(* params is a record with the thresholds and the high-risk categories.    *)
(***************************************************************************)
EXTENDS Integers, FiniteSetsExt

\* The actions a case can request, and what the policy answers when it
\* recommends nothing.
SanctionActions ==
  {"WATCH", "BLOCK_TX", "FREEZE_ADDRESS", "ESCROW_FUNDS", "REVERT_TRANSFER"}
NoAction == "UNSPECIFIED"

TargetTypes == {"TX", "ADDRESS"}

\* Actions that move money and therefore consume an original transfer.
MonetaryActions == {"ESCROW_FUNDS", "REVERT_TRANSFER"}

\* The ladder of thresholds for a high-risk score.
Ladder(score, params) ==
  IF      score >= params.revertThreshold THEN "REVERT_TRANSFER"
  ELSE IF score >= params.freezeThreshold THEN "FREEZE_ADDRESS"
  ELSE IF score >= params.blockThreshold  THEN "BLOCK_TX"
  ELSE IF score >= params.watchThreshold  THEN "WATCH"
  ELSE NoAction

\* A TX target has no address to act on: stronger actions become BLOCK_TX.
Downcast(action, targetType) ==
  IF /\ targetType = "TX"
     /\ action \in {"REVERT_TRANSFER", "FREEZE_ADDRESS", "ESCROW_FUNDS"}
  THEN "BLOCK_TX"
  ELSE action

\* The highest score among the reports, 0 when every score is 0.
MaxScore(reports) == Max({0} \cup {r.score : r \in reports})

HighRisk(reports, params) ==
  \E r \in reports : r.categories \cap params.highRiskCategories # {}

\* One low-risk ladder with a single rung, one high-risk ladder.
ComputePolicyAction(reports, params, targetType) ==
  IF HighRisk(reports, params)
  THEN Downcast(Ladder(MaxScore(reports), params), targetType)
  ELSE IF MaxScore(reports) >= params.watchThreshold THEN "WATCH" ELSE NoAction

\* Thresholds are percentages in ascending order and quorum is 1..100.
ValidateParams(p) ==
  /\ {p.watchThreshold, p.blockThreshold, p.freezeThreshold,
      p.revertThreshold} \subseteq 0..100
  /\ p.watchThreshold <= p.blockThreshold
  /\ p.blockThreshold <= p.freezeThreshold
  /\ p.freezeThreshold <= p.revertThreshold
  /\ p.quorumThreshold \in 1..100
  /\ p.votingPeriodBlocks > 0
  /\ p.acceptedRiskSources # {}
  /\ p.highRiskCategories # {}
  /\ p.allowedActions # {}

\* Percentage of the total, rounded up.
RoundedPercent(power, total) ==
  IF total = 0 THEN 0 ELSE (power * 100 + (total - 1)) \div total

=============================================================================
