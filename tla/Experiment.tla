----------------------------- MODULE Experiment -----------------------------
(***************************************************************************)
(* The controller of the five-host experiment (internal/multihost) and its *)
(* journal (internal/controller), with the hosts that it changes over SSH. *)
(*                                                                         *)
(* The controller takes the steps of the workflow in order. A step calls   *)
(* the worker script on hosts; a call may fail, or its answer may be lost, *)
(* and the controller may be killed at any moment. A step that is not done *)
(* is entered again on resume, under the same operation id. Transfers are  *)
(* sent by g503-send on the first host, with the operation id as request   *)
(* id, and go on when the controller that asked for them is gone.          *)
(*                                                                         *)
(* The worker script and the validators are reduced to what the controller *)
(* relies on: who can reach whom, whether blocks are made, and whether all *)
(* five agents can vote.                                                   *)
(***************************************************************************)
EXTENDS RequestGuard, Sequences

CONSTANTS
  OperatorCommands,  \* commands of an operator with the same account
  MaxFaults,         \* bound: failures, kills and losses
  MaxOrders          \* bound: commands of the operator, without repetitions

VARIABLES
  journal,   \* status of each step in the controller journal
  result,    \* saved result of step 4-1-partition
  finished,  \* terminal status in the controller journal
  pc,        \* what the controller is doing
  aborted,   \* the operator has asked for a cleanup
  root,      \* hosts with the directory of this run
  nodes,     \* hosts whose validator runs
  agents,    \* hosts whose agent runs
  wall,      \* for each host, the hosts that its firewall cuts off
  grown,     \* there is a block since the heights were last noted
  stale,     \* the last block is older than the agents and commands allow
  sent,      \* agents that have sent a transaction since then
  settled,   \* transfers that have been compensated
  faults,    \* number of faults so far
  orders     \* number of commands of the operator so far

hostVars == <<root, nodes, agents, wall>>
labVars == <<grown, stale, sent, settled, orders>>
controlVars == <<journal, result, finished, pc, aborted>>
vars == <<guardVars, controlVars, hostVars, labVars, faults>>

Hosts == 1..5
Agreement == 3   \* endpoints that must agree, in the agents' configuration

Workflow ==
  <<"preflight", "provision", "start-five-validators", "start-five-agents",
    "baseline-compensation", "4-1-apply", "4-1-partition", "4-1-heal",
    "4-1-settlement", "3-2-apply", "3-2-halt", "3-2-heal", "3-2-resumed",
    "all-five-stop", "all-five-restart", "all-five-persistence",
    "post-restart-compensation", "common-block-convergence">>

Steps == {Workflow[n] : n \in DOMAIN Workflow}
TransferSteps == {"baseline-compensation", "4-1-partition", "post-restart-compensation"}

ASSUME CallersAssumption == Callers = {"worker", "operator"}
ASSUME NoneAssumption == None \notin {"passed", "cleaned"}
ASSUME IdsAssumption == TransferSteps \subseteq Ids /\ "transfer" \in Payloads \ Plain
ASSUME OperatorAssumption ==
  \A c \in OperatorCommands :
    /\ c.id \in (Ids \ TransferSteps) \cup {NoId}
    /\ c.payload \in (IF c.id = NoId THEN Plain ELSE Payloads \ (Plain \cup {"transfer"}))

EachHost(call) == [h \in Hosts |-> <<call, h>>]

\* The calls of each step, before what it waits for or checks at its end.
Calls(s) ==
  CASE s = "preflight"             -> EachHost("probe")
    [] s = "provision"             -> EachHost("init")
    [] s = "start-five-validators" -> EachHost("start-node")
    [] s = "start-five-agents"     -> <<<<"start-services", 1>>>> \o EachHost("start-agent")
    [] s \in {"baseline-compensation", "post-restart-compensation"} -> <<<<"transfer", 1>>>>
    [] s = "4-1-apply"             -> EachHost("partition-4")
    [] s = "4-1-partition"         -> <<<<"pause", 0>>, <<"states", 0>>, <<"transfer", 1>>, <<"pause", 0>>>>
    [] s = "4-1-heal"              -> EachHost("heal") \o <<<<"restart-agent", 5>>>>
    [] s = "3-2-apply"             -> EachHost("partition-3")
    [] s = "3-2-halt"              -> <<<<"pause", 0>>, <<"states", 0>>, <<"pause", 0>>>>
    [] s = "3-2-heal"              -> EachHost("heal")
    [] s = "all-five-stop"         -> EachHost("stop-node")
    [] s = "all-five-restart"      -> EachHost("start-node")
    [] OTHER                       -> <<>>

Statuses == {"absent", "pending", "interrupted", "done"}
Modes == {"down", "execute", "cleanup"}

Down == [mode |-> "down", step |-> 0, at |-> 0, asked |-> FALSE, hash |-> None, errors |-> FALSE]

TypeOK ==
  /\ GuardTypeOK
  /\ journal \in [Steps -> Statuses]
  /\ finished \in {None, "passed", "cleaned"}
  /\ pc.mode \in Modes /\ pc.step \in 0..Len(Workflow) + 1 /\ pc.at \in 0..7
  /\ aborted \in BOOLEAN
  /\ nodes \subseteq root /\ agents \subseteq root /\ root \subseteq Hosts
  /\ wall \in [Hosts -> SUBSET Hosts]
  /\ grown \in BOOLEAN /\ stale \in BOOLEAN
  /\ sent \subseteq Hosts /\ settled \subseteq committed
  /\ faults \in 0..MaxFaults /\ orders \in 0..MaxOrders

Init ==
  /\ GuardInit
  /\ journal = [s \in Steps |-> "absent"]
  /\ result = None /\ finished = None
  /\ pc = [Down EXCEPT !.mode = "execute", !.step = 1]
  /\ aborted = FALSE
  /\ root = {} /\ nodes = {} /\ agents = {}
  /\ wall = [h \in Hosts |-> {}]
  /\ grown = FALSE /\ stale = TRUE /\ sent = {} /\ settled = {}
  /\ faults = 0 /\ orders = 0

Fault == faults < MaxFaults /\ faults' = faults + 1

-----------------------------------------------------------------------------
(***************************************************************************)
(* Validators and agents                                                   *)
(***************************************************************************)

Reaches(h, g) == h = g \/ (g \notin wall[h] /\ h \notin wall[g])

Reachable(h) == {g \in nodes : Reaches(h, g)}

\* Blocks need more than two thirds of the five validators.
Quorum == \E h \in nodes : 3 * Cardinality(Reachable(h)) > 2 * 5

\* An agent that runs acts on a fresh block that enough endpoints agree on.
CanSend(h) == h \in agents /\ ~stale /\ Cardinality(Reachable(h)) >= Agreement

Block ==
  /\ Quorum
  /\ grown' = TRUE /\ stale' = FALSE
  /\ \/ CommitTx
     \/ mempool = {} /\ ~(grown /\ ~stale) /\ UNCHANGED guardVars
  /\ UNCHANGED <<controlVars, hostVars, sent, settled, orders, faults>>

RejectedInBlock ==
  /\ Quorum
  /\ Fault
  /\ grown' = TRUE /\ stale' = FALSE
  /\ RejectTx
  /\ UNCHANGED <<controlVars, hostVars, sent, settled, orders>>

Indexed == IndexTx /\ UNCHANGED <<controlVars, hostVars, labVars, faults>>

Evicted ==
  /\ Fault
  /\ Evict
  /\ UNCHANGED <<controlVars, hostVars, labVars>>

\* A transfer is compensated when all five agents have voted for it.
Settle(tx) ==
  /\ tx \in committed \ (settled \cup rejected)
  /\ tx.payload = "transfer"
  /\ Quorum /\ \A h \in Hosts : CanSend(h)
  /\ settled' = settled \cup {tx}
  /\ sent' = Hosts /\ grown' = TRUE
  /\ UNCHANGED <<guardVars, controlVars, hostVars, stale, orders, faults>>

\* Every agent that can sends a vote, or renews its lease.
AgentsSend ==
  /\ \E h \in Hosts \ sent : CanSend(h)
  /\ sent' = sent \cup {h \in Hosts : CanSend(h)}
  /\ UNCHANGED <<guardVars, controlVars, hostVars, grown, stale, settled, orders, faults>>

-----------------------------------------------------------------------------
(***************************************************************************)
(* Calls of the worker script                                              *)
(***************************************************************************)

\* Mutant: the last host of the first part is cut off with the second.
CutOffByOne(split, h) == {g \in Hosts : (h <= split + 1) # (g <= split + 1)}

\* The hosts that host h must not reach when the first "split" are a part.
CutOff(split, h) == {g \in Hosts : (h <= split) # (g <= split)}

\* What a call does; only calls on hosts that belong to the run are obeyed.
Effect(call, h) ==
  LET owned == call \in {"probe", "init"} \/ h \in root
  IN /\ owned
     /\ call = "probe" => h \notin root
     /\ root' = IF call = "init" THEN root \cup {h} ELSE root
     /\ nodes' = CASE call = "start-node"           -> nodes \cup {h}
                   [] call \in {"stop-node", "cleanup"} -> nodes \ {h}
                   [] OTHER                         -> nodes
     /\ agents' = CASE call \in {"start-agent", "restart-agent"} -> agents \cup {h}
                    [] call = "cleanup" -> agents \ {h}
                    [] OTHER            -> agents
     /\ wall' = CASE call = "partition-4" -> [wall EXCEPT ![h] = CutOff(4, h)]
                  [] call = "partition-3" -> [wall EXCEPT ![h] = CutOff(3, h)]
                  [] call \in {"heal", "cleanup"} -> [wall EXCEPT ![h] = {}]
                  [] OTHER -> wall

-----------------------------------------------------------------------------
(***************************************************************************)
(* The controller                                                          *)
(***************************************************************************)

Executing == pc.mode = "execute" /\ pc.step <= Len(Workflow)
Step == Workflow[pc.step]
InStep == Executing /\ pc.at > 0
Ending == InStep /\ pc.at > Len(Calls(Step))
Call == Calls(Step)[pc.at]
Calling == InStep /\ pc.at <= Len(Calls(Step))

NextCall == pc' = [pc EXCEPT !.at = @ + 1]

\* A done step is skipped; else it is pending before anything happens.
BeginStep ==
  /\ Executing /\ pc.at = 0
  /\ IF journal[Step] = "done"
     THEN /\ pc' = [pc EXCEPT !.step = @ + 1]
          /\ UNCHANGED journal
     ELSE /\ journal' = [journal EXCEPT ![Step] = "pending"]
          /\ pc' = [pc EXCEPT !.at = 1, !.hash = None]
  /\ UNCHANGED <<guardVars, result, finished, aborted, hostVars, labVars, faults>>

\* The step has failed; the controller records that and ends.
Interrupt ==
  /\ journal' = [journal EXCEPT ![Step] = "interrupted"]
  /\ pc' = Down
  /\ UNCHANGED <<result, finished, aborted>>

Remote == Calling /\ Call[1] \notin {"transfer", "pause", "states"}

RemoteCall ==
  /\ Remote
  /\ Effect(Call[1], Call[2])
  /\ NextCall
  /\ UNCHANGED <<guardVars, journal, result, finished, aborted, labVars, faults>>

\* The call has failed, or only its answer was lost.
RemoteCallFails ==
  /\ Remote
  /\ Fault
  /\ Effect(Call[1], Call[2]) \/ UNCHANGED hostVars
  /\ Interrupt
  /\ UNCHANGED <<guardVars, labVars>>

\* The pauses are longer than a block takes, and the first one longer than the
\* age up to which a block is fresh.
Pause ==
  /\ Calling /\ Call[1] = "pause"
  /\ grown' = (grown \/ Quorum)
  /\ stale' = ~Quorum
  /\ NextCall
  /\ UNCHANGED <<guardVars, journal, result, finished, aborted, hostVars, sent, settled, orders, faults>>

\* The validators are slower than that.
PauseWithoutBlock ==
  /\ Calling /\ Call[1] = "pause"
  /\ Quorum
  /\ Fault
  /\ NextCall
  /\ UNCHANGED <<guardVars, journal, result, finished, aborted, hostVars, labVars>>

\* All five nodes answer; blocks at one height are then the same.
AllAnswer == nodes = Hosts

\* The heights and the numbers of sends of all hosts are noted.
NoteStates ==
  /\ Calling /\ Call[1] = "states"
  /\ IF AllAnswer
     THEN /\ grown' = FALSE /\ sent' = {}
          /\ NextCall
          /\ UNCHANGED <<stale, settled, orders, journal, result, finished, aborted>>
     ELSE Interrupt /\ UNCHANGED labVars
  /\ UNCHANGED <<guardVars, hostVars, faults>>

\* The worker on the first host runs g503-send, one at a time.
StartTransfer ==
  /\ Calling /\ Call[1] = "transfer" /\ ~pc.asked
  /\ 1 \in root /\ 1 \in nodes
  /\ Start("worker", Step, "transfer")
  /\ pc' = [pc EXCEPT !.asked = TRUE]
  /\ UNCHANGED <<journal, result, finished, aborted, hostVars, labVars, faults>>

\* Mutant: the hash of what the command has signed now.
HashOfNewBytes(s) == Tx("transfer", command["worker"].sequence)

\* The hash that the command reports.
ReportedHash(s) == Saved(s)

TransferEnds ==
  /\ Calling /\ pc.asked
  /\ Collect("worker")
  /\ IF command["worker"].ok
     THEN /\ pc' = [pc EXCEPT !.at = @ + 1, !.asked = FALSE, !.hash = ReportedHash(Step)]
          /\ UNCHANGED <<journal, result, finished, aborted>>
     ELSE Interrupt
  /\ UNCHANGED <<hostVars, labVars, faults>>

\* The connection is lost; the command goes on.
TransferFails ==
  /\ Calling /\ Call[1] = "transfer"
  /\ Fault
  /\ Interrupt
  /\ UNCHANGED <<guardVars, hostVars, labVars>>

\* The account cannot be looked up, since the node does not run.
TransferRefused ==
  /\ Calling /\ Call[1] = "transfer" /\ ~pc.asked
  /\ 1 \notin nodes
  /\ Interrupt
  /\ UNCHANGED <<guardVars, hostVars, labVars, faults>>

\* Exactly one settlement, five votes, and the balances as they were.
SettlementOf(tx) ==
  /\ tx \in settled
  /\ \A other \in committed \ rejected : other.payload = "transfer" => other \in settled

\* What the steps wait for, and look up until it is so.
WaitsFor(s) ==
  CASE s = "start-five-validators" -> AllAnswer /\ Quorum /\ grown
    [] s = "start-five-agents"     -> \A h \in Hosts : CanSend(h)
    [] s \in {"baseline-compensation", "post-restart-compensation"} ->
         1 \in nodes /\ SettlementOf(pc.hash)
    [] s = "4-1-settlement"        -> 1 \in nodes /\ SettlementOf(result)
    [] s = "3-2-resumed"           -> AllAnswer /\ grown
    [] s = "all-five-persistence"  -> AllAnswer /\ SettlementOf(result)
    [] s = "common-block-convergence" -> AllAnswer
    [] OTHER                       -> TRUE

\* What the steps check once at their end.
Verifies(s) ==
  CASE s = "4-1-partition" -> AllAnswer /\ grown /\ 5 \notin sent /\ pc.hash \notin settled
    [] s = "3-2-halt"      -> AllAnswer /\ ~grown /\ sent = {}
    [] OTHER               -> TRUE

\* A completed result is never written again.
FinishStep ==
  /\ Ending
  /\ WaitsFor(Step) /\ Verifies(Step)
  /\ journal' = [journal EXCEPT ![Step] = "done"]
  /\ result' = IF Step = "4-1-partition" THEN pc.hash ELSE result
  /\ pc' = [pc EXCEPT !.step = @ + 1, !.at = 0]
  /\ UNCHANGED <<guardVars, finished, aborted, hostVars, labVars, faults>>

StepFails ==
  /\ Ending
  /\ ~Verifies(Step)
  /\ Interrupt
  /\ UNCHANGED <<guardVars, hostVars, labVars, faults>>

\* Two minutes are over. What is waited for may be out of reach, or be late.
WaitTimesOut ==
  /\ Ending
  /\ IF WaitsFor(Step) THEN Fault ELSE Fault \/ (UNCHANGED faults /\ aborted)
  /\ Interrupt
  /\ UNCHANGED <<guardVars, hostVars, labVars>>

\* The deadline of a wait whose transaction has been lost.
WaitIsVain ==
  /\ Ending
  /\ Step \in {"baseline-compensation", "post-restart-compensation"}
  /\ pc.hash \notin mempool \cup committed
  /\ Interrupt
  /\ UNCHANGED <<guardVars, hostVars, labVars, faults>>

-----------------------------------------------------------------------------
BeginCleanup ==
  /\ \/ pc.mode = "execute" /\ pc.step > Len(Workflow) /\ pc.at = 0
     \/ pc.mode = "cleanup" /\ pc.at = 0
  /\ pc' = [pc EXCEPT !.at = 1, !.errors = FALSE]
  /\ UNCHANGED <<guardVars, journal, result, finished, aborted, hostVars, labVars, faults>>

Cleaning == pc.at > 0 /\ (pc.mode = "cleanup" \/ pc.step > Len(Workflow))

\* Cleanup on one host: what belongs to the run is stopped, and the logs are
\* collected, which fails on a host that does not have the run.
CleanHost ==
  /\ Cleaning /\ pc.at \in Hosts
  /\ IF pc.at \in root THEN Effect("cleanup", pc.at) ELSE UNCHANGED hostVars
  /\ pc' = [pc EXCEPT !.at = @ + 1, !.errors = @ \/ pc.at \notin root]
  /\ UNCHANGED <<guardVars, journal, result, finished, aborted, labVars, faults>>

\* A failure on one host does not keep the controller from the others.
CleanHostFails ==
  /\ Cleaning /\ pc.at \in Hosts
  /\ Fault
  /\ UNCHANGED hostVars \/ (pc.at \in root /\ Effect("cleanup", pc.at))
  /\ pc' = [pc EXCEPT !.at = @ + 1, !.errors = TRUE]
  /\ UNCHANGED <<guardVars, journal, result, finished, aborted, labVars>>

\* Mutant: the errors of single hosts are dropped.
FinishAnyway ==
  /\ Cleaning /\ pc.at \notin Hosts
  /\ pc' = Down
  /\ finished' = IF pc.mode = "cleanup" THEN "cleaned" ELSE "passed"
  /\ UNCHANGED <<guardVars, journal, result, aborted, hostVars, labVars, faults>>

\* The run is finished if the cleanup has succeeded on every host.
FinishCleanup ==
  /\ Cleaning /\ pc.at \notin Hosts
  /\ pc' = Down
  /\ finished' = IF pc.errors THEN finished
                 ELSE IF pc.mode = "cleanup" THEN "cleaned" ELSE "passed"
  /\ UNCHANGED <<guardVars, journal, result, aborted, hostVars, labVars, faults>>

KillController ==
  /\ pc.mode # "down"
  /\ Fault
  /\ pc' = Down
  /\ UNCHANGED <<guardVars, journal, result, finished, aborted, hostVars, labVars>>

\* The operator resumes the run with its journal, or asks for a cleanup only.
Resume ==
  /\ pc.mode = "down" /\ finished # "cleaned"
  /\ pc' = [Down EXCEPT !.mode = "execute", !.step = 1]
  /\ UNCHANGED <<guardVars, journal, result, finished, aborted, hostVars, labVars, faults>>

ResumeCleanup ==
  /\ pc.mode = "down" /\ finished # "cleaned"
  /\ pc' = [Down EXCEPT !.mode = "cleanup"]
  /\ aborted' = TRUE
  /\ UNCHANGED <<guardVars, journal, result, finished, hostVars, labVars, faults>>

-----------------------------------------------------------------------------
(***************************************************************************)
(* Commands on the first host                                              *)
(***************************************************************************)

\* A command works on a fresh block of the node on the first host.
Live == 1 \in nodes /\ ~stale

Commanding(c) ==
  /\ Live
  /\ OpenGuard(c) \/ Reconciles(c) \/ Broadcast(c)
  /\ UNCHANGED <<controlVars, hostVars, labVars, faults>>

\* Without one the command fails.
CommandRefused(c) ==
  /\ command[c] # None /\ command[c].at # "exit"
  /\ ~Live
  /\ Exit(c, FALSE)
  /\ UNCHANGED <<records, chainVars, controlVars, hostVars, labVars, faults>>

CommandFails(c) ==
  /\ Fault
  /\ Kill(c) \/ BroadcastLost(c)
  /\ UNCHANGED <<controlVars, hostVars, labVars>>

\* The worker of a controller that is gone ends unheard.
Unheard ==
  /\ ~pc.asked
  /\ Collect("worker")
  /\ UNCHANGED <<controlVars, hostVars, labVars, faults>>

\* A worker that died leaves its controller without an answer.
WorkerLost ==
  /\ Calling /\ pc.asked /\ command["worker"] = None
  /\ Interrupt
  /\ UNCHANGED <<guardVars, hostVars, labVars, faults>>

\* The operator sends something new, or repeats a request, with the same or with
\* other messages.
OperatorStarts ==
  \E c \in OperatorCommands :
    /\ orders < MaxOrders /\ orders' = orders + 1
    /\ Live
    /\ Start("operator", c.id, c.payload)
    /\ UNCHANGED <<controlVars, hostVars, grown, stale, sent, settled, faults>>

OperatorEnds == Collect("operator") /\ UNCHANGED <<controlVars, hostVars, labVars, faults>>

-----------------------------------------------------------------------------
Chain == Block \/ Indexed \/ (\E tx \in committed : Settle(tx))

Controller ==
  \/ BeginStep \/ RemoteCall \/ Pause \/ NoteStates
  \/ StartTransfer \/ TransferRefused \/ TransferEnds \/ FinishStep \/ StepFails \/ WaitIsVain
  \/ WorkerLost \/ BeginCleanup \/ CleanHost \/ FinishCleanup

Next ==
  \/ Chain \/ Controller \/ Resume \/ ResumeCleanup
  \/ RejectedInBlock \/ Evicted
  \/ AgentsSend
  \/ PauseWithoutBlock \/ RemoteCallFails \/ TransferFails \/ WaitTimesOut \/ CleanHostFails \/ KillController
  \/ \E c \in Callers : Commanding(c) \/ CommandRefused(c) \/ CommandFails(c)
  \/ Unheard \/ OperatorStarts \/ OperatorEnds

\* The chain, the controller and the commands go on while they can, and the
\* operator resumes a run that has ended early; who has asked for a cleanup asks
\* for it again.
Fairness ==
  /\ WF_vars(Block) /\ WF_vars(Indexed)
  /\ WF_vars(\E tx \in committed : Settle(tx))
  /\ WF_vars(Controller)
  /\ \A c \in Callers : WF_vars(Commanding(c)) /\ WF_vars(CommandRefused(c))
  /\ WF_vars(Unheard) /\ WF_vars(OperatorEnds)
  /\ WF_vars(~aborted /\ Resume)
  /\ SF_vars(aborted /\ ResumeCleanup)
  /\ WF_vars(aborted /\ WaitTimesOut)

Spec == Init /\ [][Next]_vars /\ Fairness

-----------------------------------------------------------------------------
(***************************************************************************)
(* Properties                                                              *)
(***************************************************************************)

\* A step that the journal calls done has happened on the chain, however often
\* the controller was interrupted: the transfer that is saved under its operation
\* id is compensated, the saved result is the hash of the saved bytes, and no two
\* steps are content with one transfer (Step in controller/journal.go and
\* transferOperation in multihost/workflow.go).
DoneIsTrue ==
  /\ \A s \in {"baseline-compensation", "post-restart-compensation"} :
       journal[s] = "done" => records[s] # None /\ Saved(s) \in settled
  /\ journal["4-1-partition"] = "done" => result = Saved("4-1-partition")
  /\ journal["4-1-settlement"] = "done" => result \in settled
  /\ \A s, t \in {u \in TransferSteps : journal[u] = "done"} :
       s # t => Saved(s) # Saved(t)

\* While the journal says that the hosts are split, they are: in the 4:1 split
\* the fifth agent cannot send and the transfer of that phase stays without its
\* vote, in the 3:2 split there are no blocks (partition in multihost/lab.go).
PartitionHolds ==
  ~aborted =>
    /\ journal["4-1-apply"] = "done" /\ journal["4-1-heal"] = "absent" =>
         /\ Quorum /\ ~CanSend(5)
         /\ records["4-1-partition"] # None => Saved("4-1-partition") \notin settled
    /\ journal["3-2-apply"] = "done" /\ journal["3-2-heal"] = "absent" => ~Quorum

\* A run that is finished leaves nothing behind on any host: no process and no
\* firewall rule, although cleanup goes on when it fails on a host (cleanup and
\* Execute in multihost/workflow.go).
FinishedIsClean ==
  finished # None => nodes = {} /\ agents = {} /\ \A h \in Hosts : wall[h] = {}

\* The guard has to refuse a transfer for ever: it has failed, or its sequence
\* went to another transaction; or it was lost after its step was done.
Stuck ==
  \E s \in TransferSteps :
    /\ records[s] # None
    /\ \/ Saved(s) \in rejected
       \/ /\ Saved(s) \notin committed \cup mempool
          /\ records[s].sequence # sequence \/ journal[s] = "done"

\* Cleanup fails for ever on hosts that the run never reached.
NeedsInspection == aborted /\ root # Hosts

\* A run that is resumed after every interruption ends, unless a transfer is
\* stuck, or a run was given up before all hosts had it: no lost answer and no
\* crash leaves a step that cannot be entered again (Step in
\* controller/journal.go, Send in rpcguard/guard.go).
EveryRunEnds == <>(finished # None \/ Stuck \/ NeedsInspection)

-----------------------------------------------------------------------------
(***************************************************************************)
(* Why it works                                                            *)
(***************************************************************************)

Clean(h) == h \notin nodes /\ h \notin agents /\ wall[h] = {}

\* The controller works on one step, which is pending, with all steps before it
\* done; a cleanup without an error has left nothing on the hosts it has passed;
\* and a run that is finished is clean, and nothing is started in it again.
ControlInv ==
  /\ journal \in [Steps -> Statuses]
  /\ pc \in [mode : Modes, step : 0..Len(Workflow) + 1, at : Nat, asked : BOOLEAN,
             hash : Transactions \cup {None}, errors : BOOLEAN]
  /\ finished \in {None, "passed", "cleaned"}
  /\ root \subseteq Hosts /\ nodes \subseteq Hosts /\ agents \subseteq Hosts
  /\ wall \in [Hosts -> SUBSET Hosts]
  /\ \A n \in DOMAIN Workflow : journal[Workflow[n]] # "absent" =>
       \A m \in DOMAIN Workflow : m < n => journal[Workflow[m]] = "done"
  /\ pc.mode = "execute" =>
       /\ pc.step > 0
       /\ \A m \in DOMAIN Workflow : m < pc.step => journal[Workflow[m]] = "done"
  /\ InStep => journal[Step] = "pending"
  /\ pc.mode = "down" => pc.at = 0
  /\ pc.mode = "cleanup" => aborted
  /\ Cleaning /\ ~pc.errors => \A h \in Hosts : h < pc.at => Clean(h)
  /\ finished # None => \A h \in Hosts : Clean(h)
  /\ finished = "passed" => \A s \in Steps : journal[s] = "done"
  /\ finished = "cleaned" => pc.mode = "down"

\* The transfer of step s is over, with its hash in memory.
Transferred(s) == pc.at > (IF s = "4-1-partition" THEN 3 ELSE 1)

Before ==
  {<<"baseline-compensation", "4-1-partition">>,
   <<"baseline-compensation", "post-restart-compensation">>,
   <<"4-1-partition", "post-restart-compensation">>}

\* The transfer of step s was compensated before sequence n was looked up.
SettledBefore(s, n) == records[s] # None /\ Saved(s) \in settled /\ records[s].sequence < n

\* A transfer step works on the transfer of its own operation id, and is started
\* only when the transfers before it are compensated.
TransferInv ==
  /\ settled \subseteq committed
  /\ InStep /\ Step \in TransferSteps /\ Transferred(Step) =>
       records[Step] # None /\ pc.hash = Saved(Step)
  /\ pc.asked =>
       /\ Calling /\ Call[1] = "transfer"
       /\ command["worker"] # None => command["worker"].id = Step
  /\ \A id \in Ids : records[id] # None =>
       (records[id].intent = "transfer" <=> id \in TransferSteps)
  /\ \A c \in Callers : command[c] # None =>
       (command[c].payload = "transfer" <=> command[c].id \in TransferSteps)
  /\ \A p \in Before :
       /\ records[p[2]] # None => SettledBefore(p[1], records[p[2]].sequence)
       /\ \A c \in Callers :
            command[c] # None /\ command[c].id = p[2] => SettledBefore(p[1], command[c].sequence)
  /\ \A s \in TransferSteps : journal[s] = "done" => records[s] # None
  /\ DoneIsTrue

\* The hosts are what the journal says, step by step of a loop over the hosts.
HostsInv ==
  ~aborted =>
    /\ InStep /\ Step = "start-five-validators" => \A h \in Hosts : h < pc.at => h \in nodes
    /\ InStep /\ Step = "4-1-apply" => \A h \in Hosts : h < pc.at => wall[h] = CutOff(4, h)
    /\ InStep /\ Step = "3-2-apply" => \A h \in Hosts : h < pc.at => wall[h] = CutOff(3, h)
    /\ journal["start-five-validators"] = "done" /\ journal["all-five-stop"] = "absent" =>
         nodes = Hosts
    /\ journal["4-1-apply"] = "done" /\ journal["4-1-heal"] = "absent" =>
         \A h \in Hosts : wall[h] = CutOff(4, h)
    /\ journal["3-2-apply"] = "done" /\ journal["3-2-heal"] = "absent" =>
         \A h \in Hosts : wall[h] = CutOff(3, h)
    /\ records["4-1-partition"] # None => journal["4-1-apply"] = "done"
    /\ \A c \in Callers :
         command[c] # None /\ command[c].id = "4-1-partition" => journal["4-1-apply"] = "done"
    /\ journal["4-1-heal"] = "absent" /\ records["4-1-partition"] # None =>
         Saved("4-1-partition") \notin settled

\* The invariant that the proofs are about.
ExperimentInv == GuardInv /\ ControlInv /\ TransferInv /\ HostsInv

=============================================================================
