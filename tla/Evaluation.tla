----------------------------- MODULE Evaluation -----------------------------
(***************************************************************************)
(* How an agent turns the answers of its services into a signed review of  *)
(* the transfers in one transaction (processTx and processPendingTransfers *)
(* in dev/agent/cmd/sanction-agent, dev/agent/internal/policy and the      *)
(* risk, LLM and agent API clients).                                       *)
(*                                                                         *)
(* The services are outside this repository: an answer is any value of     *)
(* their response types, or Failed for an error, a time-out or an HTTP     *)
(* status other than success.                                              *)
(***************************************************************************)
EXTENDS SanctionPolicy

CONSTANTS
  Failed,      \* no usable answer, or no review
  Absent,      \* the agent API is not configured
  Thresholds   \* the policy part of the chain parameters

\* What the risk service says of a transfer, a score and categories. The client
\* passes it on as it is and turns every other answer into an error.
ScreenTx == [score : Nat, categories : SUBSET STRING] \cup {Failed}

\* What the agent API says: for whom, a score of its own, an action and a vote.
EvaluateResponse(agents) ==
  [agent : agents, score : Nat, evidence : {"complete", "incomplete"},
   action : SanctionActions \cup {NoAction}, approved : BOOLEAN,
   vote : {"approve", "reject"}]

AgentEvaluate(agents) == EvaluateResponse(agents) \cup {Failed, Absent}

\* The explanation is required, and decides nothing.
Explain == {"explained", Failed}

\* The action ladder as the agent computes it.
ActionFor(score, params) ==
  IF      score >= params.revertThreshold THEN "REVERT_TRANSFER"
  ELSE IF score >= params.freezeThreshold THEN "FREEZE_ADDRESS"
  ELSE IF score >= params.blockThreshold  THEN "BLOCK_TX"
  ELSE IF score >= params.watchThreshold  THEN "WATCH"
  ELSE NoAction

\* Mutant: an agent with a TX target recommends what the ladder says.
ActionNotCapped(score, categories, targetType) ==
  IF categories \cap Thresholds.highRiskCategories = {}
  THEN IF score >= Thresholds.watchThreshold THEN "WATCH" ELSE NoAction
  ELSE ActionFor(score, Thresholds)

\* The action that the agent recommends.
Action(score, categories, targetType) ==
  IF categories \cap Thresholds.highRiskCategories = {}
  THEN IF score >= Thresholds.watchThreshold THEN "WATCH" ELSE NoAction
  ELSE LET action == ActionFor(score, Thresholds)
       IN IF /\ targetType = "TX"
             /\ action \in {"REVERT_TRANSFER", "FREEZE_ADDRESS", "ESCROW_FUNDS"}
          THEN "BLOCK_TX" ELSE action

\* A decision of the agent API is used only if it is complete, for this agent,
\* and says what the chain policy says.
DecisionAccepted(decision, agent, action) ==
  /\ decision.agent = agent
  /\ decision.score <= 100
  /\ decision.evidence = "complete"
  /\ decision.action = action
  /\ decision.approved = (action # NoAction)
  /\ decision.vote = IF action # NoAction THEN "approve" ELSE "reject"

\* The review of one transfer: the action, and the score for the report, which
\* is the calibrated one if there is a decision.
ProcessTx(agent, targetType, answer) ==
  LET risk == answer.risk
      decision == answer.decision
      score == IF decision = Absent THEN risk.score ELSE decision.score
      action == Action(score, risk.categories, targetType)
  IN IF \/ Failed \in {risk, decision, answer.explanation}
        \/ decision # Absent /\ ~DecisionAccepted(decision, agent, action)
     THEN Failed
     ELSE [action |-> action, score |-> score, categories |-> risk.categories]

\* Actions in the order of their numbers in the protocol.
Strength(action) ==
  CASE action = NoAction -> 0
    [] action = "WATCH" -> 1
    [] action = "BLOCK_TX" -> 2
    [] action = "FREEZE_ADDRESS" -> 3
    [] action = "ESCROW_FUNDS" -> 4
    [] action = "REVERT_TRANSFER" -> 5

\* The strongest review of all transfers in the transaction, by action and then
\* by score; transfers are numbered by their message. One failure fails all.
ProcessPendingTransfers(reviews) ==
  LET better(s, t) ==
        \/ Strength(reviews[s].action) > Strength(reviews[t].action)
        \/ /\ reviews[s].action = reviews[t].action
           /\ reviews[s].score > reviews[t].score
      first(t) == \A s \in DOMAIN reviews : ~better(s, t) /\ (better(t, s) \/ t <= s)
      t0 == CHOOSE t \in DOMAIN reviews : first(t)
  IN IF \E t \in DOMAIN reviews : reviews[t] = Failed
     THEN Failed
     ELSE [transfer |-> t0, action |-> reviews[t0].action,
           score |-> reviews[t0].score, categories |-> reviews[t0].categories]

=============================================================================
