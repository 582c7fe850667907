--------------------------- MODULE MCAgentRegistry ---------------------------
(***************************************************************************)
(* Two validators; an agent with its own account for one of them, agents   *)
(* that share an operator or take the id of a validator's agent, and one   *)
(* that waits for the key of its validator's account.                      *)
(***************************************************************************)
EXTENDS AgentRegistry, FiniteSets

MCIdOrder == <<"agent-1", "agent-2", "validator:v1", "validator:v2">>
MCOperators == {"v1", "v2"}
MCSigners == {"s1", "s2", "account:v1", "account:v2"}
MCOperatorAccount == [op \in MCOperators |-> IF op = "v1" THEN "account:v1" ELSE "account:v2"]
MCValidatorId == [op \in MCOperators |-> IF op = "v1" THEN "validator:v1" ELSE "validator:v2"]

Agent(id, operator, signer, key, power) ==
  [id |-> id, operator |-> operator, signer |-> signer, key |-> key,
   power |-> power, active |-> power > 0]

Demo == Agent("agent-1", "v1", "s1", "own", 1)
Observer == Agent("agent-1", None, "s1", "own", 1)
Waiting == Agent("agent-2", "v2", "account:v2", "none", 0)
Second == Agent("agent-2", "v1", "s2", "own", 1)
Keyless == Agent("agent-2", "v2", "s2", "none", 1)
Squatter == Agent("validator:v2", None, "s2", "own", 1)

MCCandidates == {Demo, Observer, Waiting, Second, Keyless, Squatter}
MCGenesisAgents == {{}, {Demo}, {Observer, Waiting}}

\* Bound: one change of staking per block, before the other messages (they read
\* no validator, so their order does not matter), one lease, and a case at the end
\* (its voters do not depend on the registry any more).
Paced ==
  /\ inBlock /\ (validators' # validators \/ keyed' # keyed) => ~inBlock'
  /\ Cardinality(leases') <= 1
  /\ inBlock' => voters = None

\* An agent of nobody, whose account becomes a validator later.
Independent == Agent("agent-1", None, "account:v1", "own", 1)
MCWithIndependent == {Independent, Waiting}

=============================================================================
