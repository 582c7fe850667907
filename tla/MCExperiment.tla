---------------------------- MODULE MCExperiment ----------------------------
(***************************************************************************)
(* The workflow of five hosts, with an operator who uses the account for a *)
(* request of his own, once with other messages, or without a request id.  *)
(***************************************************************************)
EXTENDS Experiment

MCOperatorCommands ==
  {[id |-> "review", payload |-> "review"], [id |-> "review", payload |-> "revoke"],
   [id |-> NoId, payload |-> "plain"]}

\* Bound: the operator uses the account during the last transfer, a second time
\* only when his request is saved, in a run without faults; a run in which he
\* does so once has its fault before that, there, or when it is given up; sends
\* of the agents are counted only where the controller compares them.
Focused ==
  /\ orders' # orders => Executing /\ Step = "post-restart-compensation" /\ ~aborted
  /\ orders' = 2 /\ orders = 1 => faults = 0 /\ records["review"] # None
  /\ orders = 2 => UNCHANGED faults
  /\ orders > 0 /\ faults' # faults =>
       \/ Executing /\ Step = "post-restart-compensation"
       \/ pc.mode = "cleanup" /\ pc.at = 2
  /\ \/ sent' \subseteq sent \/ settled' # settled
     \/ Executing /\ Step \in {"4-1-partition", "3-2-halt"}

=============================================================================
