--------------------------- MODULE SanctionGenesis ---------------------------
(***************************************************************************)
(* What a chain checks of the sanction module's state when it is started   *)
(* from an exported genesis file (x/sanction/types/genesis.go), for the    *)
(* stores of SanctionCases. The agents and the leases of the file are      *)
(* those of AgentRegistry. ExportGenesis copies every store as it is, so   *)
(* the checks are conditions on the stores.                                *)
(***************************************************************************)
EXTENDS SanctionCases

\* What ExportGenesis collects from the stores.
GetAllSanctionCases == {c \in Cases : cases[c].status # "ABSENT"}
GetOriginalTransfers == {t \in Originals : receipts[t.txHash] # 0}
GetSettlements == {t \in Originals : settlements[t] # None}
GetAllExecutionRecords == executions
GetAllReviews == {c \in Cases : reviews[c] # None}

\* The snapshot of an open or closed case: somebody can vote, with a quorum.
ValidateCaseSnapshot(k) ==
  SnapshotVoters(k) # {} /\ k.quorumThreshold \in 1..100

\* A settlement rests on a receipt of an earlier block and on a monetary action.
ValidSettlement(t) ==
  LET k == cases[settlements[t]]
  IN  /\ t \in GetOriginalTransfers
      /\ k.executedHeight > receipts[t.txHash]
      /\ k.action \in MonetaryActions

\* Every execution that moved money can show its settlement.
BackedExecution(c) ==
  cases[c].action \in MonetaryActions =>
    \E t \in GetSettlements : settlements[t] = c

ValidReview(r) ==
  /\ r.reviewedHeight # 0
  /\ r.revokedHeight # 0 => r.revokedHeight >= r.reviewedHeight

validateSafetyGenesis ==
  /\ \A t \in GetSettlements : ValidSettlement(t)
  /\ \A c \in GetAllExecutionRecords : BackedExecution(c)
  /\ \A c \in GetAllReviews : ValidReview(reviews[c])

ValidateGenesis ==
  /\ ValidateParams(params)
  /\ \A c \in GetAllSanctionCases : ValidateCaseSnapshot(cases[c])
  /\ validateSafetyGenesis

\* The state can be exported at any time and a chain can start from it: no order
\* of opening, executing, reviewing and revoking leads to a state that the
\* program refuses to import (ExportGenesis, ValidateGenesis).
ExportIsAccepted == ValidateGenesis

-----------------------------------------------------------------------------
\* What the other checks of the file rest on: every case was opened with somebody
\* to vote and a valid quorum, and every review was made in some block.
SnapshotInv ==
  /\ \A c \in GetAllSanctionCases : ValidateCaseSnapshot(cases[c])
  /\ \A c \in GetAllReviews : reviews[c].reviewedHeight # 0

=============================================================================
