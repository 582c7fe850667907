------------------------------ MODULE MCDaemon ------------------------------
(***************************************************************************)
(* Two daemons for confirmed transfers and a chain that is short enough to *)
(* let evidence and voting run out once.                                   *)
(***************************************************************************)
EXTENDS Daemon, TLC

CONSTANTS a1, a2

MCAgents == <<a1, a2>>

\* Two daemons for confirmed transfers: one starts later and evidence is short;
\* or evidence outlives the voting. And one for pending transactions beside one
\* for confirmed transfers.
MCConfigs ==
  {[target |-> (a1 :> "ADDRESS") @@ (a2 :> "ADDRESS"), start |-> (a1 :> 1) @@ (a2 :> 2),
    ttl |-> 3, original |-> "ok", transfers |-> {1}],
   [target |-> (a1 :> "ADDRESS") @@ (a2 :> "ADDRESS"), start |-> (a1 :> 1) @@ (a2 :> 1),
    ttl |-> 5, original |-> "ok", transfers |-> {1, 2}],
   [target |-> (a1 :> "TX") @@ (a2 :> "ADDRESS"), start |-> (a1 :> 2) @@ (a2 :> 2),
    ttl |-> 3, original |-> "pending", transfers |-> {1}]}

MCThresholds ==
  [watchThreshold |-> 40, blockThreshold |-> 60, freezeThreshold |-> 80,
   revertThreshold |-> 90, highRiskCategories |-> {"theft"}]

\* No risk, theft, and no answer.
MCAnswers ==
  {[risk |-> [score |-> 10, categories |-> {}], decision |-> Absent,
    explanation |-> "explained"],
   [risk |-> [score |-> 95, categories |-> {"theft"}], decision |-> Absent,
    explanation |-> "explained"],
   [risk |-> Failed, decision |-> Absent, explanation |-> "explained"]}

\* Bound: a daemon that runs ticks once a block. The daemons tick in the order
\* of their ids, since ticks read only the chain and the daemon's own journal.
Local(a) == <<cursor[a], ready[a], work[a], intents[a]>>

Ticked(a) == stage[a] = "down" \/ (stage[a] = "idle" /\ ready[a] = height)

Paced ==
  /\ height' # height => \A a \in AgentSet : Ticked(a)
  /\ \A m \in DOMAIN Agents :
       /\ ready[Agents[m]] = height => ~(stage[Agents[m]] = "idle" /\ stage'[Agents[m]] = "scanned")
       /\ Local(Agents[m])' # Local(Agents[m]) => \A n \in 1..m - 1 : Ticked(Agents[n])

=============================================================================
