---------------------------- MODULE MCAgentLease ----------------------------
(***************************************************************************)
(* Sessions competing for one signing account.                             *)
(***************************************************************************)
EXTENDS AgentLease, FiniteSets, TLC

CONSTANTS s1, s2

MCSessions == {s1, s2}
MCTTL == [s \in Sessions |-> 2]

\* Bound on the transactions that wait at the same time.
MaxPending == 2
PendingBound == Cardinality(mempool) <= MaxPending

MCSymmetry == Permutations(MCSessions)

=============================================================================
