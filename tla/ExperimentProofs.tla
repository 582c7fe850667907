-------------------------- MODULE ExperimentProofs --------------------------
(***************************************************************************)
(* Proofs about the guard of one-shot commands and the controller of the   *)
(* five-host experiment, for any number of faults, of commands of the      *)
(* operator and of request ids.                                            *)
(***************************************************************************)
EXTENDS Experiment, SequenceTheorems, FiniteSetTheorems, TLAPS

-----------------------------------------------------------------------------
(***************************************************************************)
(* The guard                                                               *)
(***************************************************************************)

\* A command that was not started yet, or ends without a result.
Refuse(c) ==
  command[c] # None /\ Exit(c, FALSE) /\ UNCHANGED <<records, chainVars>>

CommandStep(c) ==
  OpenGuard(c) \/ Reconciles(c) \/ Broadcast(c) \/ BroadcastLost(c) \/ Kill(c) \/ Collect(c)
  \/ Refuse(c)

NodeStep == CommitTx \/ RejectTx \/ IndexTx \/ Evict

\* What is started: only plain messages are sent without a request id.
Admissible(id, payload) ==
  id \in Ids \cup {NoId} /\ payload \in Payloads /\ (id = NoId => payload \in Plain)

\* No command runs at first.
LEMMA InitGuard == GuardInit => GuardInv
BY DEF GuardInit, GuardInv, GuardTypeOK, SentIsSaved

\* A step that only changes what one command does.
LEMMA OneCommand ==
  ASSUME GuardInv, NEW c \in Callers, NEW r \in Commands \cup {None},
         SetCommand(c, r), UNCHANGED <<records, chainVars>>,
         r # None => /\ r.id = NoId => r.payload \in Plain
                     /\ r.at = "open" => r.id # NoId
                     /\ (r.at = "saved" \/ r.ok) /\ r.id # NoId =>
                          records[r.id] # None /\ records[r.id].intent = r.payload
  PROVE  GuardInv'
<1>1. command' \in [Callers -> Commands \cup {None}] /\ command'[c] = r
      /\ \A d \in Callers : d # c => command'[d] = command[d]
  BY DEF GuardInv, GuardTypeOK, SetCommand
<1>2. GuardTypeOK'
  BY <1>1 DEF GuardInv, GuardTypeOK, chainVars, Attempts, Transactions, Commands
<1>3. \A d \in Callers : command'[d] # None => CommandFits(d)'
  BY <1>1 DEF GuardInv, CommandFits
<1>4. QED
  BY <1>2, <1>3 DEF GuardInv, SentIsSaved, Saved, Tx, chainVars

\* A command starts.
LEMMA StartGuard ==
  ASSUME GuardInv, NEW c \in Callers, NEW id, NEW payload, Admissible(id, payload),
         Start(c, id, payload)
  PROVE  GuardInv'
<1> DEFINE r == [id |-> id, payload |-> payload, sequence |-> sequence,
                 pinned |-> 0, at |-> "started", ok |-> FALSE]
<1>1. r \in Commands
  BY DEF GuardInv, GuardTypeOK, Commands, Places, Admissible
<1>2. SetCommand(c, r) /\ UNCHANGED <<records, chainVars>>
  BY DEF Start
<1>3. /\ r.id = NoId => r.payload \in Plain
      /\ r.at # "open" /\ r.at # "saved" /\ ~r.ok
  BY DEF Admissible
<1>4. QED
  BY <1>1, <1>2, <1>3, OneCommand

\* The fields of a command that runs.
LEMMA CommandType ==
  ASSUME GuardInv, NEW c \in Callers, command[c] # None
  PROVE  /\ command[c] \in Commands /\ CommandFits(c)
         /\ command[c].id \in Ids \cup {NoId} /\ command[c].payload \in Payloads
         /\ command[c].sequence \in Nat
BY DEF GuardInv, GuardTypeOK, Commands

\* A command exits, and says that it succeeded only if its request is recorded.
LEMMA ExitGuard ==
  ASSUME GuardInv, NEW c \in Callers, command[c] # None, NEW ok \in BOOLEAN,
         Exit(c, ok), UNCHANGED <<records, chainVars>>,
         ok /\ command[c].id # NoId =>
           records[command[c].id] # None /\ records[command[c].id].intent = command[c].payload
  PROVE  GuardInv'
<1> DEFINE r == [command[c] EXCEPT !.at = "exit", !.ok = ok]
<1>1. r \in Commands /\ r.at = "exit" /\ r.ok = ok
      /\ r.id = command[c].id /\ r.payload = command[c].payload
  BY CommandType DEF Commands, Places
<1>2. SetCommand(c, r)
  BY DEF Exit
<1>3. r.id = NoId => r.payload \in Plain
  BY <1>1, CommandType DEF CommandFits
<1> HIDE DEF r
<1>4. r # None => /\ r.id = NoId => r.payload \in Plain
                  /\ r.at = "open" => r.id # NoId
                  /\ (r.at = "saved" \/ r.ok) /\ r.id # NoId =>
                       records[r.id] # None /\ records[r.id].intent = r.payload
  <2>1. r.at # "open" /\ r.at # "saved"
    BY <1>1
  <2>2. QED
    BY <1>1, <1>3, <2>1, Zenon
<1>5. QED
  BY <1>1, <1>2, <1>4, OneCommand

\* A command opens the guard of its request.
LEMMA OpenStep ==
  ASSUME GuardInv, NEW c \in Callers, OpenGuard(c)
  PROVE  GuardInv'
<1> DEFINE r == [command[c] EXCEPT !.at = IF command[c].id = NoId THEN "saved" ELSE "open",
                                   !.pinned = sequence]
<1>1. command[c] \in Commands /\ CommandFits(c) /\ sequence \in Nat
  BY CommandType DEF OpenGuard, GuardInv, GuardTypeOK
<1>2. r \in Commands /\ r.id = command[c].id /\ r.payload = command[c].payload /\ r.ok = command[c].ok
      /\ r.at = IF command[c].id = NoId THEN "saved" ELSE "open"
  BY <1>1 DEF Commands, Places
<1>3. SetCommand(c, r) /\ UNCHANGED <<records, chainVars>>
  BY DEF OpenGuard
<1> HIDE DEF r
<1>4. r.ok /\ r.id # NoId => records[r.id] # None /\ records[r.id].intent = r.payload
  BY <1>1, <1>2, Zenon DEF CommandFits
<1>5. r.id = NoId => r.payload \in Plain
  BY <1>1, <1>2 DEF CommandFits
<1>6. (r.at = "open" => r.id # NoId) /\ (r.at = "saved" => r.id = NoId)
  BY <1>2
<1>7. r # None => /\ r.id = NoId => r.payload \in Plain
                  /\ r.at = "open" => r.id # NoId
                  /\ (r.at = "saved" \/ r.ok) /\ r.id # NoId =>
                       records[r.id] # None /\ records[r.id].intent = r.payload
  BY <1>4, <1>5, <1>6, Zenon
<1>8. QED
  BY <1>2, <1>3, <1>7, OneCommand

\* The bytes that a command is about to send are plain, or saved under its id.
LEMMA OutgoingIsSaved ==
  ASSUME GuardInv, NEW c \in Callers, command[c] # None, command[c].at = "saved"
  PROVE  /\ Outgoing(c) \in Transactions
         /\ Outgoing(c).payload \notin Plain =>
              \E id \in Ids : records[id] # None /\ Outgoing(c) = Saved(id)
<1>1. command[c] \in Commands /\ CommandFits(c)
  BY CommandType
<1>2. CASE command[c].id = NoId
  BY <1>1, <1>2 DEF Outgoing, Tx, Transactions, Commands, CommandFits
<1>3. CASE command[c].id # NoId
  <2>1. command[c].id \in Ids
    BY <1>1, <1>3 DEF Commands
  <2>2. records[command[c].id] # None
    BY <1>1, <1>3 DEF CommandFits
  <2>3. records[command[c].id] \in Attempts
    BY <2>1, <2>2 DEF GuardInv, GuardTypeOK
  <2>4. Outgoing(c) = Saved(command[c].id)
    BY <1>3 DEF Outgoing
  <2>5. Saved(command[c].id) \in Transactions
    BY <2>3 DEF Saved, Tx, Transactions, Attempts
  <2>6. QED
    BY <2>1, <2>2, <2>4, <2>5
<1>4. QED
  BY <1>2, <1>3

\* A step that ends a command and may put its bytes into the mempool.
LEMMA SendGuard ==
  ASSUME GuardInv, NEW c \in Callers, command[c] # None, command[c].at = "saved",
         NEW ok \in BOOLEAN, Exit(c, ok),
         mempool' \in {mempool, mempool \cup {Outgoing(c)}},
         UNCHANGED <<records, sequence, committed, rejected, index>>
  PROVE  GuardInv'
<1> DEFINE r == [command[c] EXCEPT !.at = "exit", !.ok = ok]
<1>1. command[c] \in Commands /\ CommandFits(c)
  BY CommandType
<1>2. r \in Commands /\ r.at = "exit" /\ r.ok = ok
      /\ r.id = command[c].id /\ r.payload = command[c].payload
  BY <1>1 DEF Commands, Places
<1>3. command' = [command EXCEPT ![c] = r]
  BY DEF Exit, SetCommand
<1> HIDE DEF r
<1>4. command' \in [Callers -> Commands \cup {None}] /\ command'[c] = r
      /\ \A d \in Callers : d # c => command'[d] = command[d]
  BY <1>2, <1>3 DEF GuardInv, GuardTypeOK
<1>5. mempool' \subseteq Transactions
  BY OutgoingIsSaved DEF GuardInv, GuardTypeOK
<1>6. GuardTypeOK'
  BY <1>4, <1>5 DEF GuardInv, GuardTypeOK, Attempts, Transactions, Commands
<1>7. ASSUME NEW d \in Callers, command'[d] # None PROVE CommandFits(d)'
  <2>1. CASE d = c
    <3>1. command'[d].at # "open" /\ r.at # "saved" /\ command'[d] = r
      BY <1>2, <1>4, <2>1
    <3>2. r.id = NoId => r.payload \in Plain
      BY <1>1, <1>2 DEF CommandFits
    <3>3. r.id # NoId => records[r.id] # None /\ records[r.id].intent = r.payload
      BY <1>1, <1>2 DEF CommandFits
    <3>4. QED
      BY <3>1, <3>2, <3>3, Zenon DEF CommandFits
  <2>2. CASE d # c
    <3>1. command'[d] = command[d] /\ CommandFits(d)
      BY <1>4, <1>7, <2>2 DEF GuardInv
    <3>2. QED
      BY <3>1 DEF CommandFits
  <2>3. QED
    BY <2>1, <2>2
<1>8. SentIsSaved'
  <2> SUFFICES ASSUME NEW tx \in mempool' \cup committed', tx.payload \notin Plain
               PROVE  \E id \in Ids : records'[id] # None /\ tx = Saved(id)'
    BY DEF SentIsSaved
  <2>1. tx \in mempool \cup committed \/ tx = Outgoing(c)
    OBVIOUS
  <2>2. PICK id \in Ids : records[id] # None /\ tx = Saved(id)
    BY <2>1, OutgoingIsSaved DEF GuardInv, SentIsSaved
  <2>3. QED
    BY <2>2 DEF Saved, Tx
<1>9. QED
  BY <1>6, <1>7, <1>8 DEF GuardInv

\* A command reconciles its request with the chain.
LEMMA ReconcilesStep ==
  ASSUME GuardInv, NEW c \in Callers, Reconciles(c)
  PROVE  GuardInv'
<1> DEFINE id == command[c].id
           saving == [command[c] EXCEPT !.at = "saved"]
<1>1. command[c] \in Commands /\ CommandFits(c) /\ command[c].at = "open" /\ command[c] # None
  BY CommandType DEF Reconciles
<1>2. id \in Ids /\ id # NoId
  BY <1>1 DEF CommandFits, Commands
<1>3. saving \in Commands /\ saving.at = "saved" /\ saving.ok = command[c].ok
      /\ saving.id = id /\ saving.payload = command[c].payload
  BY <1>1 DEF Commands, Places
<1>4. CASE records[id] = None
  <2>1. /\ records' = [records EXCEPT ![id] =
                         [intent |-> command[c].payload, sequence |-> command[c].sequence]]
        /\ command' = [command EXCEPT ![c] = saving] /\ UNCHANGED chainVars
    BY <1>4 DEF Reconciles, SignAndSave, Proceed, SetCommand
  <2> DEFINE a == [intent |-> command[c].payload, sequence |-> command[c].sequence]
  <2>2. a \in Attempts /\ a # None /\ a.intent = command[c].payload
    BY <1>1, GuardAssumption DEF Commands, Attempts
  <2> HIDE DEF a, id, saving
  <2>3. records' \in [Ids -> Attempts \cup {None}] /\ records'[id] = a
        /\ \A i \in Ids : i # id => records'[i] = records[i]
    BY <1>2, <2>1, <2>2 DEF GuardInv, GuardTypeOK, a
  <2>4. command' \in [Callers -> Commands \cup {None}] /\ command'[c] = saving
        /\ \A d \in Callers : d # c => command'[d] = command[d]
    BY <1>3, <2>1 DEF GuardInv, GuardTypeOK
  <2>5. GuardTypeOK'
    BY <2>1, <2>3, <2>4 DEF GuardInv, GuardTypeOK, chainVars, Attempts, Transactions, Commands
  <2>6. ASSUME NEW d \in Callers, command'[d] # None PROVE CommandFits(d)'
    <3>1. CASE d = c
      <4>1. command'[d] = saving /\ records'[id] # None /\ records'[id].intent = saving.payload
        BY <1>3, <2>2, <2>3, <2>4, <3>1
      <4>2. saving.id # NoId /\ saving.id = id
        BY <1>2, <1>3
      <4>3. QED
        BY <4>1, <4>2, Zenon DEF CommandFits
    <3>2. CASE d # c
      <4>1. command'[d] = command[d] /\ CommandFits(d)
        BY <2>4, <2>6, <3>2 DEF GuardInv
      <4>2. \A i \in Ids : records[i] # None => records'[i] = records[i]
        BY <1>4, <2>3 DEF id
      <4>3. command[d].id \in Ids \cup {NoId}
        BY <2>6, <4>1, CommandType
      <4>4. QED
        BY <4>1, <4>2, <4>3 DEF CommandFits
    <3>3. QED
      BY <3>1, <3>2
  <2>7. SentIsSaved'
    <3> SUFFICES ASSUME NEW tx \in mempool' \cup committed', tx.payload \notin Plain
                 PROVE  \E i \in Ids : records'[i] # None /\ tx = Saved(i)'
      BY DEF SentIsSaved
    <3>1. PICK i \in Ids : records[i] # None /\ tx = Saved(i)
      BY <2>1 DEF GuardInv, SentIsSaved, chainVars
    <3>2. records'[i] = records[i]
      BY <1>4, <2>3, <3>1 DEF id
    <3>3. QED
      BY <3>1, <3>2 DEF Saved, Tx
  <2>8. QED
    BY <2>1, <2>5, <2>6, <2>7 DEF GuardInv, chainVars
<1>5. CASE records[id] # None
  <2>1. Reconcile(c) /\ UNCHANGED <<records, chainVars>>
    BY <1>5 DEF Reconciles, Reconcile
  <2>2. CASE Exit(c, FALSE)
    BY <1>1, <2>1, <2>2, ExitGuard
  <2>3. CASE records[id].intent = command[c].payload /\ Exit(c, Saved(id) \notin rejected)
    <3>1. (Saved(id) \notin rejected) \in BOOLEAN
      OBVIOUS
    <3>2. QED
      BY <1>1, <1>5, <2>1, <2>3, <3>1, ExitGuard
  <2>4. CASE records[id].intent = command[c].payload /\ Proceed(c)
    <3>1. SetCommand(c, saving)
      BY <2>4 DEF Proceed
    <3> HIDE DEF id, saving
    <3>2. QED
      BY <1>2, <1>3, <1>5, <2>1, <2>4, <3>1, OneCommand
  <2>5. QED
    BY <2>1, <2>2, <2>3, <2>4 DEF Reconcile
<1>6. QED
  BY <1>4, <1>5

\* Every step of a command.
LEMMA CommandGuard ==
  ASSUME GuardInv, NEW c \in Callers, CommandStep(c)
  PROVE  GuardInv'
<1>1. CASE OpenGuard(c)
  BY <1>1, OpenStep
<1>2. CASE Reconciles(c)
  BY <1>2, ReconcilesStep
<1>3. CASE Broadcast(c)
  <2>1. CheckTx(Outgoing(c)) \in BOOLEAN
    BY DEF CheckTx
  <2>2. mempool' \in {mempool, mempool \cup {Outgoing(c)}}
    BY <1>3 DEF Broadcast
  <2>3. QED
    BY <1>3, <2>1, <2>2, SendGuard DEF Broadcast
<1>4. CASE BroadcastLost(c)
  <2>1. mempool' \in {mempool, mempool \cup {Outgoing(c)}}
    BY <1>4 DEF BroadcastLost
  <2>2. QED
    BY <1>4, <2>1, SendGuard DEF BroadcastLost
<1>5. CASE Kill(c) \/ Collect(c)
  BY <1>5, OneCommand DEF Kill, Collect
<1>6. CASE Refuse(c)
  BY <1>6, ExitGuard DEF Refuse
<1>7. QED
  BY <1>1, <1>2, <1>3, <1>4, <1>5, <1>6 DEF CommandStep

\* Every step of the chain.
LEMMA NodeGuard ==
  ASSUME GuardInv, NodeStep
  PROVE  GuardInv'
<1>1. UNCHANGED <<records, command>>
  BY DEF NodeStep, CommitTx, RejectTx, IndexTx, Evict
<1>2. \A c \in Callers : command'[c] # None => CommandFits(c)'
  BY <1>1 DEF GuardInv, CommandFits
<1>3. mempool' \cup committed' \subseteq mempool \cup committed
  BY DEF NodeStep, CommitTx, RejectTx, IndexTx, Evict
<1>4. SentIsSaved'
  BY <1>1, <1>3 DEF GuardInv, SentIsSaved, Saved, Tx
<1>5. CASE CommitTx \/ RejectTx
  <2>1. PICK tx \in mempool :
          /\ tx.sequence = sequence /\ sequence' = sequence + 1
          /\ committed' = committed \cup {tx} /\ mempool' = mempool \ {tx}
          /\ rejected' \in {rejected, rejected \cup {tx}} /\ index' = index
    BY <1>5 DEF CommitTx, RejectTx
  <2>2. GuardTypeOK'
    BY <1>1, <2>1 DEF GuardInv, GuardTypeOK, Attempts, Transactions, Commands
  <2>3. \A t \in committed' : t.sequence < sequence'
    <3> SUFFICES ASSUME NEW t \in committed' PROVE t.sequence < sequence'
      OBVIOUS
    <3>1. t.sequence \in Nat /\ sequence \in Nat
      BY <2>1 DEF GuardInv, GuardTypeOK, Transactions
    <3>2. t.sequence < sequence \/ t.sequence = sequence
      BY <2>1 DEF GuardInv
    <3>3. QED
      BY <2>1, <3>1, <3>2
  <2>4. QED
    BY <1>2, <1>4, <2>2, <2>3 DEF GuardInv
<1>6. CASE IndexTx \/ Evict
  <2>1. UNCHANGED <<sequence, committed, rejected>>
    BY <1>6 DEF IndexTx, Evict
  <2>2. index' \subseteq committed /\ mempool' \subseteq mempool
    BY <1>6 DEF IndexTx, Evict, GuardInv, GuardTypeOK
  <2>3. GuardTypeOK'
    BY <1>1, <2>1, <2>2 DEF GuardInv, GuardTypeOK, Attempts, Transactions, Commands
  <2>4. QED
    BY <1>2, <1>4, <2>1, <2>3 DEF GuardInv
<1>7. QED
  BY <1>5, <1>6 DEF NodeStep

-----------------------------------------------------------------------------
(***************************************************************************)
(* The workflow                                                            *)
(***************************************************************************)

\* The steps of the experiment, in their number.
LEMMA WorkflowLength ==
  /\ Len(Workflow) = 18 /\ DOMAIN Workflow = 1..18
  /\ \A n \in 1..18 : Workflow[n] \in Steps
  /\ \A s \in Steps : \E n \in 1..18 : s = Workflow[n]
BY DEF Workflow, Steps

\* Where the steps that the proofs are about stand in the workflow.
LEMMA StepNumber ==
  ASSUME NEW n \in 1..18
  PROVE  /\ Workflow[n] = "start-five-validators" <=> n = 3
         /\ Workflow[n] = "baseline-compensation" <=> n = 5
         /\ Workflow[n] = "4-1-apply" <=> n = 6
         /\ Workflow[n] = "4-1-partition" <=> n = 7
         /\ Workflow[n] = "4-1-heal" <=> n = 8
         /\ Workflow[n] = "4-1-settlement" <=> n = 9
         /\ Workflow[n] = "3-2-apply" <=> n = 10
         /\ Workflow[n] = "3-2-heal" <=> n = 12
         /\ Workflow[n] = "all-five-stop" <=> n = 14
         /\ Workflow[n] = "post-restart-compensation" <=> n = 17
BY DEF Workflow

\* The steps that the proofs speak of, in their order.
LEMMA NamedSteps ==
  /\ Workflow[3] = "start-five-validators" /\ Workflow[5] = "baseline-compensation"
  /\ Workflow[6] = "4-1-apply" /\ Workflow[7] = "4-1-partition" /\ Workflow[8] = "4-1-heal"
  /\ Workflow[9] = "4-1-settlement" /\ Workflow[10] = "3-2-apply" /\ Workflow[12] = "3-2-heal"
  /\ Workflow[14] = "all-five-stop" /\ Workflow[17] = "post-restart-compensation"
BY DEF Workflow

\* A loop over the hosts calls them in their order.
LEMMA EachHostCalls ==
  ASSUME NEW call
  PROVE  /\ Len(EachHost(call)) = 5 /\ EachHost(call) \in Seq({call} \X Hosts)
         /\ \A i \in 1..5 : EachHost(call)[i] = <<call, i>>
<1>1. EachHost(call) \in [1..5 -> {call} \X Hosts]
  BY DEF EachHost, Hosts
<1>2. \A i \in 1..5 : EachHost(call)[i] = <<call, i>>
  BY DEF EachHost, Hosts
<1>3. EachHost(call) \in Seq({call} \X Hosts)
  <2>1. 5 \in Nat
    OBVIOUS
  <2>2. EachHost(call) \in UNION {[1..n -> {call} \X Hosts] : n \in Nat}
    BY <1>1, <2>1, Zenon
  <2>3. QED
    BY <2>2, SeqDef, Zenon
<1>4. Len(EachHost(call)) = 5
  <2>1. DOMAIN EachHost(call) = 1..5
    BY <1>1
  <2>2. DOMAIN EachHost(call) = 1..Len(EachHost(call)) /\ Len(EachHost(call)) \in Nat
    BY <1>3, LenProperties
  <2>3. QED
    BY <2>1, <2>2
<1>5. QED
  BY <1>2, <1>3, <1>4

\* The calls of a step as a sequence of names and hosts.
LEMMA CallsOfStep ==
  /\ Calls("preflight") = EachHost("probe")
  /\ Calls("provision") = EachHost("init")
  /\ Calls("start-five-validators") = EachHost("start-node")
  /\ Calls("4-1-apply") = EachHost("partition-4")
  /\ Calls("3-2-apply") = EachHost("partition-3")
  /\ Calls("3-2-heal") = EachHost("heal")
  /\ Calls("all-five-stop") = EachHost("stop-node")
  /\ Calls("all-five-restart") = EachHost("start-node")
  /\ Calls("start-five-agents") \in Seq({"start-services", "start-agent"} \X Hosts)
  /\ Calls("4-1-heal") \in Seq({"heal", "restart-agent"} \X Hosts)
  /\ Calls("baseline-compensation") = <<<<"transfer", 1>>>>
  /\ Calls("post-restart-compensation") = <<<<"transfer", 1>>>>
  /\ Calls("4-1-partition") = <<<<"pause", 0>>, <<"states", 0>>, <<"transfer", 1>>, <<"pause", 0>>>>
  /\ Calls("3-2-halt") = <<<<"pause", 0>>, <<"states", 0>>, <<"pause", 0>>>>
  /\ \A s \in {"4-1-settlement", "3-2-resumed", "all-five-persistence", "common-block-convergence"} : Calls(s) = <<>>
<1>1. Calls("preflight") = EachHost("probe")
  BY Zenon DEF Calls
<1>2. Calls("provision") = EachHost("init")
  BY Zenon DEF Calls
<1>3. Calls("start-five-validators") = EachHost("start-node")
  BY Zenon DEF Calls
<1>4. Calls("4-1-apply") = EachHost("partition-4")
  BY Zenon DEF Calls
<1>5. Calls("3-2-apply") = EachHost("partition-3")
  BY Zenon DEF Calls
<1>6. Calls("3-2-heal") = EachHost("heal")
  BY Zenon DEF Calls
<1>7. Calls("all-five-stop") = EachHost("stop-node")
  BY Zenon DEF Calls
<1>8. Calls("all-five-restart") = EachHost("start-node")
  BY Zenon DEF Calls
<1>9. Calls("start-five-agents") \in Seq({"start-services", "start-agent"} \X Hosts)
  <2> DEFINE C == {"start-services", "start-agent"} \X Hosts
  <2>1. Calls("start-five-agents") = <<<<"start-services", 1>>>> \o EachHost("start-agent")
    BY Zenon DEF Calls
  <2>2. EachHost("start-agent") \in Seq(C)
    <3>1. EachHost("start-agent") \in Seq({"start-agent"} \X Hosts)
      BY EachHostCalls
    <3>2. ({"start-agent"} \X Hosts) \subseteq C
      OBVIOUS
    <3>3. QED
      BY <3>1, <3>2, SeqMonotonic, Zenon
  <2>3. <<<<"start-services", 1>>>> \in Seq(C)
    BY DEF Hosts
  <2>4. QED
    BY <2>1, <2>2, <2>3, ConcatProperties
<1>10. Calls("4-1-heal") \in Seq({"heal", "restart-agent"} \X Hosts)
  <2> DEFINE C == {"heal", "restart-agent"} \X Hosts
  <2>1. Calls("4-1-heal") = EachHost("heal") \o <<<<"restart-agent", 5>>>>
    BY Zenon DEF Calls
  <2>2. EachHost("heal") \in Seq(C)
    <3>1. EachHost("heal") \in Seq({"heal"} \X Hosts)
      BY EachHostCalls
    <3>2. ({"heal"} \X Hosts) \subseteq C
      OBVIOUS
    <3>3. QED
      BY <3>1, <3>2, SeqMonotonic, Zenon
  <2>3. <<<<"restart-agent", 5>>>> \in Seq(C)
    BY DEF Hosts
  <2>4. QED
    BY <2>1, <2>2, <2>3, ConcatProperties
<1>11. Calls("baseline-compensation") = <<<<"transfer", 1>>>>
  BY Zenon DEF Calls
<1>12. Calls("post-restart-compensation") = <<<<"transfer", 1>>>>
  BY Zenon DEF Calls
<1>13. Calls("4-1-partition") = <<<<"pause", 0>>, <<"states", 0>>, <<"transfer", 1>>, <<"pause", 0>>>>
  BY Zenon DEF Calls
<1>14. Calls("3-2-halt") = <<<<"pause", 0>>, <<"states", 0>>, <<"pause", 0>>>>
  BY Zenon DEF Calls
<1>15. \A s \in {"4-1-settlement", "3-2-resumed", "all-five-persistence", "common-block-convergence"} : Calls(s) = <<>>
  <2>1. Calls("4-1-settlement") = <<>>
    BY Zenon DEF Calls
  <2>2. Calls("3-2-resumed") = <<>>
    BY Zenon DEF Calls
  <2>3. Calls("all-five-persistence") = <<>>
    BY Zenon DEF Calls
  <2>4. Calls("common-block-convergence") = <<>>
    BY Zenon DEF Calls
  <2>5. QED
    BY <2>1, <2>2, <2>3, <2>4
<1>16. QED
  BY <1>1, <1>2, <1>3, <1>4, <1>5, <1>6, <1>7, <1>8, <1>9, <1>10, <1>11, <1>12, <1>13, <1>14, <1>15

\* What the single calls are. Every step changes only what it is for.
LEMMA CallFacts ==
  ASSUME NEW s \in Steps, NEW i \in 1..Len(Calls(s))
  PROVE  LET c == Calls(s)[i]
         IN  /\ c[1] = "transfer" =>
                  s \in TransferSteps /\ i = (IF s = "4-1-partition" THEN 3 ELSE 1)
             /\ c[1] \notin {"transfer", "pause", "states"} => c[2] \in Hosts
             /\ c[1] # "cleanup"
             /\ c[1] = "stop-node" => s = "all-five-stop"
             /\ c[1] = "partition-4" => s = "4-1-apply"
             /\ c[1] = "partition-3" => s = "3-2-apply"
             /\ c[1] = "heal" => s \in {"4-1-heal", "3-2-heal"}
<1> DEFINE c == Calls(s)[i]
<1>1. CASE s \in {"preflight", "provision", "start-five-validators", "4-1-apply", "3-2-apply",
                  "3-2-heal", "all-five-stop", "all-five-restart"}
  <2>1. PICK call : /\ Calls(s) = EachHost(call)
                    /\ call \in {"probe", "init", "start-node", "partition-4", "partition-3",
                                 "heal", "stop-node"}
                    /\ call = "stop-node" => s = "all-five-stop"
                    /\ call = "partition-4" => s = "4-1-apply"
                    /\ call = "partition-3" => s = "3-2-apply"
                    /\ call = "heal" => s = "3-2-heal"
    BY <1>1, CallsOfStep
  <2>2. Len(Calls(s)) = 5
    BY <2>1, EachHostCalls
  <2>3. i \in 1..5
    BY <2>2
  <2>4. c = <<call, i>>
    BY <2>1, <2>3, EachHostCalls
  <2>5. c[1] = call /\ c[2] \in Hosts
    BY <2>3, <2>4 DEF Hosts
  <2>6. QED
    BY <2>1, <2>5
<1>2. CASE s = "start-five-agents"
  <2>1. c \in {"start-services", "start-agent"} \X Hosts
    BY <1>2, CallsOfStep, ElementOfSeq
  <2> HIDE DEF c
  <2>2. QED
    BY <2>1 DEF c
<1>3. CASE s = "4-1-heal"
  <2>1. c \in {"heal", "restart-agent"} \X Hosts
    BY <1>3, CallsOfStep, ElementOfSeq
  <2> HIDE DEF c
  <2>2. QED
    BY <1>3, <2>1 DEF c
<1>4. CASE s \in {"baseline-compensation", "post-restart-compensation"}
  <2>1. Calls(s) = <<<<"transfer", 1>>>>
    BY <1>4, CallsOfStep
  <2>2. i = 1 /\ c = <<"transfer", 1>>
    BY <2>1
  <2>3. QED
    BY <1>4, <2>2 DEF TransferSteps
<1>5. CASE s = "4-1-partition"
  <2>1. Calls(s) = <<<<"pause", 0>>, <<"states", 0>>, <<"transfer", 1>>, <<"pause", 0>>>>
    BY <1>5, CallsOfStep
  <2>2. \/ c = <<"pause", 0>> \/ c = <<"states", 0>>
        \/ c = <<"transfer", 1>> /\ i = 3
    BY <2>1
  <2>3. QED
    BY <1>5, <2>2 DEF TransferSteps
<1>6. CASE s = "3-2-halt"
  <2>1. Calls(s) = <<<<"pause", 0>>, <<"states", 0>>, <<"pause", 0>>>>
    BY <1>6, CallsOfStep
  <2>2. c = <<"pause", 0>> \/ c = <<"states", 0>>
    BY <2>1
  <2>3. QED
    BY <2>2
<1>7. CASE s \in {"4-1-settlement", "3-2-resumed", "all-five-persistence", "common-block-convergence"}
  BY <1>7, CallsOfStep
<1>8. QED
  BY <1>1, <1>2, <1>3, <1>4, <1>5, <1>6, <1>7 DEF Steps, Workflow

\* The loops that the proofs speak of.
LEMMA LoopCalls ==
  ASSUME NEW s, NEW call,
         <<s, call>> \in {<<"start-five-validators", "start-node">>,
                          <<"4-1-apply", "partition-4">>, <<"3-2-apply", "partition-3">>}
  PROVE  Len(Calls(s)) = 5 /\ \A i \in 1..5 : Calls(s)[i] = <<call, i>>
<1>1. Calls(s) = EachHost(call)
  BY CallsOfStep
<1>2. QED
  BY <1>1, EachHostCalls

\* Every step makes a number of calls.
LEMMA LengthOfCalls ==
  ASSUME NEW s \in Steps
  PROVE  Len(Calls(s)) \in Nat
<1>1. CASE s \in {"preflight", "provision", "start-five-validators", "4-1-apply", "3-2-apply",
                  "3-2-heal", "all-five-stop", "all-five-restart"}
  <2>1. PICK call : Calls(s) = EachHost(call)
    BY <1>1, CallsOfStep
  <2>2. QED
    BY <2>1, EachHostCalls
<1>2. CASE s \in {"start-five-agents", "4-1-heal"}
  BY <1>2, CallsOfStep, LenProperties
<1>3. CASE s \notin {"preflight", "provision", "start-five-validators", "4-1-apply", "3-2-apply",
                  "3-2-heal", "all-five-stop", "all-five-restart", "start-five-agents", "4-1-heal"}
  BY <1>3, CallsOfStep DEF Steps, Workflow
<1>4. QED
  BY <1>1, <1>2, <1>3

-----------------------------------------------------------------------------
(***************************************************************************)
(* The controller                                                          *)
(***************************************************************************)

Pcs ==
  [mode : Modes, step : 0..19, at : Nat, asked : BOOLEAN,
   hash : Transactions \cup {None}, errors : BOOLEAN]

\* What the controller keeps is well formed.
LEMMA ControlType ==
  ASSUME ControlInv
  PROVE  /\ pc \in Pcs /\ journal \in [Steps -> Statuses]
         /\ pc.mode \in Modes /\ pc.step \in 0..19 /\ pc.at \in Nat
BY WorkflowLength DEF ControlInv, Pcs

\* A step that the controller is in is not done, so the run is not finished.
LEMMA InStepFacts ==
  ASSUME ControlInv, InStep
  PROVE  /\ pc.mode = "execute" /\ pc.step \in 1..18 /\ Step \in Steps
         /\ Step = Workflow[pc.step] /\ pc.at \in Nat \ {0}
         /\ journal[Step] = "pending" /\ finished = None /\ ~Cleaning
<1>1. pc.mode = "execute" /\ pc.step \in 0..19 /\ pc.step <= 18 /\ pc.step > 0 /\ pc.at > 0 /\ pc.at \in Nat
  BY ControlType, WorkflowLength DEF InStep, Executing, ControlInv
<1>2. pc.step \in 1..18
  BY <1>1
<1>3. Step \in Steps /\ Step = Workflow[pc.step]
  BY <1>2, WorkflowLength DEF Step
<1>4. journal[Step] = "pending"
  BY DEF ControlInv
<1>5. finished # "passed" /\ finished # "cleaned"
  BY <1>1, <1>3, <1>4 DEF ControlInv
<1>6. finished = None
  BY <1>5 DEF ControlInv
<1>7. ~Cleaning
  BY <1>1, WorkflowLength DEF Cleaning
<1>8. QED
  BY <1>1, <1>2, <1>3, <1>4, <1>6, <1>7

\* A controller that makes a call is in a step, at one of its calls.
LEMMA CallingFacts ==
  ASSUME ControlInv, Calling
  PROVE  InStep /\ pc.at \in 1..Len(Calls(Step)) /\ Call = Calls(Step)[pc.at]
<1>1. InStep /\ pc.at <= Len(Calls(Step))
  BY DEF Calling
<1>2. pc.at \in Nat \ {0} /\ Step \in Steps
  BY <1>1, InStepFacts
<1>3. Len(Calls(Step)) \in Nat
  BY <1>2, LengthOfCalls
<1>4. QED
  BY <1>1, <1>2, <1>3 DEF Call

\* What a call of the worker does to the hosts.
LEMMA EffectFacts ==
  ASSUME ControlInv, NEW call, NEW h \in Hosts, Effect(call, h)
  PROVE  /\ root' \subseteq Hosts /\ nodes' \subseteq Hosts /\ agents' \subseteq Hosts
         /\ wall' \in [Hosts -> SUBSET Hosts]
         /\ call \notin {"stop-node", "cleanup"} => nodes \subseteq nodes'
         /\ call = "start-node" => h \in nodes'
         /\ call = "cleanup" => nodes' = nodes \ {h} /\ agents' = agents \ {h}
         /\ call \notin {"partition-4", "partition-3", "heal", "cleanup"} => wall' = wall
         /\ call = "partition-4" => wall' = [wall EXCEPT ![h] = CutOff(4, h)]
         /\ call = "partition-3" => wall' = [wall EXCEPT ![h] = CutOff(3, h)]
         /\ call = "cleanup" => wall' = [wall EXCEPT ![h] = {}]
<1>1. root' \in {root, root \cup {h}}
  BY Zenon DEF Effect
<1>2. /\ nodes' \in {nodes, nodes \cup {h}, nodes \ {h}}
      /\ call \notin {"stop-node", "cleanup"} => nodes' \in {nodes, nodes \cup {h}}
      /\ call = "start-node" => nodes' = nodes \cup {h}
      /\ call = "cleanup" => nodes' = nodes \ {h}
  <2>1. CASE call = "start-node"
    BY <2>1 DEF Effect
  <2>2. CASE call \in {"stop-node", "cleanup"}
    BY <2>2 DEF Effect
  <2>3. CASE call \notin {"start-node", "stop-node", "cleanup"}
    BY <2>3 DEF Effect
  <2>4. QED
    BY <2>1, <2>2, <2>3
<1>3. /\ agents' \in {agents, agents \cup {h}, agents \ {h}}
      /\ call = "cleanup" => agents' = agents \ {h}
  <2>1. CASE call \in {"start-agent", "restart-agent"}
    BY <2>1 DEF Effect
  <2>2. CASE call = "cleanup"
    BY <2>2 DEF Effect
  <2>3. CASE call \notin {"start-agent", "restart-agent", "cleanup"}
    BY <2>3 DEF Effect
  <2>4. QED
    BY <2>1, <2>2, <2>3
<1>4. /\ call \notin {"partition-4", "partition-3", "heal", "cleanup"} => wall' = wall
      /\ call = "partition-4" => wall' = [wall EXCEPT ![h] = CutOff(4, h)]
      /\ call = "partition-3" => wall' = [wall EXCEPT ![h] = CutOff(3, h)]
      /\ call \in {"heal", "cleanup"} => wall' = [wall EXCEPT ![h] = {}]
  <2>1. CASE call = "partition-4"
    BY <2>1 DEF Effect
  <2>2. CASE call = "partition-3"
    BY <2>2 DEF Effect
  <2>3. CASE call \in {"heal", "cleanup"}
    BY <2>3 DEF Effect
  <2>4. CASE call \notin {"partition-4", "partition-3", "heal", "cleanup"}
    BY <2>4 DEF Effect
  <2>5. QED
    BY <2>1, <2>2, <2>3, <2>4
<1>5. CutOff(4, h) \subseteq Hosts /\ CutOff(3, h) \subseteq Hosts
  BY DEF CutOff
<1>6. wall' \in [Hosts -> SUBSET Hosts]
  BY <1>4, <1>5 DEF ControlInv
<1>7. root' \subseteq Hosts /\ nodes' \subseteq Hosts /\ agents' \subseteq Hosts
  BY <1>1, <1>2, <1>3 DEF ControlInv
<1>8. QED
  BY <1>2, <1>3, <1>4, <1>6, <1>7

\* The steps that leave the controller and the hosts alone.
LEMMA IdleControl ==
  ASSUME ControlInv, UNCHANGED <<controlVars, hostVars>>
  PROVE  ControlInv'
BY DEF ControlInv, controlVars, hostVars, Clean, InStep, Executing, Step, Cleaning, Transactions

\* The experiment starts with an empty journal.
LEMMA InitControl == Init => ControlInv
<1> SUFFICES ASSUME Init PROVE ControlInv
  OBVIOUS
<1>1. /\ pc.mode = "execute" /\ pc.step = 1 /\ pc.at = 0 /\ pc.asked = FALSE
      /\ pc.errors = FALSE /\ pc.hash = None
      /\ pc = [mode |-> "execute", step |-> 1, at |-> 0, asked |-> FALSE, hash |-> None, errors |-> FALSE]
  BY DEF Init, Down
<1>2. pc \in Pcs
  BY <1>1 DEF Pcs, Modes
<1>3. \A s \in Steps : journal[s] = "absent"
  BY DEF Init
<1>4. journal \in [Steps -> Statuses]
  BY DEF Init, Statuses
<1>5. wall \in [Hosts -> SUBSET Hosts]
  BY DEF Init
<1>6. ~InStep /\ ~Cleaning
  BY <1>1 DEF InStep, Cleaning
<1>7. \A n \in 1..18 : journal[Workflow[n]] = "absent"
  BY <1>3, WorkflowLength
<1>8. finished = None /\ finished # "passed" /\ finished # "cleaned"
  BY NoneAssumption DEF Init
<1>9. QED
  BY <1>1, <1>2, <1>4, <1>5, <1>6, <1>7, <1>8, WorkflowLength DEF ControlInv, Pcs, Init

\* The controller goes on in its step, or records that it was interrupted.
LEMMA InStepControl ==
  ASSUME ControlInv, InStep, UNCHANGED <<finished, aborted>>,
         root' \subseteq Hosts, nodes' \subseteq Hosts, agents' \subseteq Hosts,
         wall' \in [Hosts -> SUBSET Hosts],
         \/ Interrupt
         \/ /\ journal' = journal /\ pc' \in Pcs
            /\ pc'.mode = pc.mode /\ pc'.step = pc.step /\ pc'.at > 0
  PROVE  ControlInv'
<1>1. /\ pc.mode = "execute" /\ pc.step \in 1..18 /\ Step \in Steps
      /\ Step = Workflow[pc.step] /\ journal[Step] = "pending" /\ finished = None
  BY InStepFacts
<1>2. CASE Interrupt
  <2>1. journal' = [journal EXCEPT ![Step] = "interrupted"] /\ pc' = Down
    BY <1>2 DEF Interrupt
  <2>2. journal' \in [Steps -> Statuses] /\ pc' \in Pcs
        /\ pc'.mode = "down" /\ pc'.at = 0
    BY <1>1, <2>1, ControlType DEF Statuses, Down, Pcs, Modes
  <2>3. \A s \in Steps : journal[s] = "done" => journal'[s] = "done"
    BY <1>1, <2>1, ControlType
  <2>4. \A s \in Steps : journal'[s] # "absent" => journal[s] # "absent"
    BY <1>1, <2>1, ControlType
  <2>5. \A n \in 1..18 : journal'[Workflow[n]] # "absent" =>
          \A m \in 1..18 : m < n => journal'[Workflow[m]] = "done"
    BY <2>3, <2>4, WorkflowLength DEF ControlInv
  <2>6. ~InStep' /\ ~Cleaning'
    BY <2>1, WorkflowLength DEF InStep, Executing, Cleaning, Down
  <2>7. QED
    BY <1>1, <2>2, <2>5, <2>6, WorkflowLength, NoneAssumption DEF ControlInv, Pcs
<1>3. CASE /\ journal' = journal /\ pc' \in Pcs
           /\ pc'.mode = pc.mode /\ pc'.step = pc.step /\ pc'.at > 0
  <2>1. ~Cleaning' /\ Step' = Step
    BY <1>1, <1>3, WorkflowLength DEF Cleaning, Step
  <2>2. journal'[Step'] = "pending"
    BY <1>1, <1>3, <2>1
  <2>3. QED
    BY <1>1, <1>3, <2>1, <2>2, WorkflowLength, NoneAssumption DEF ControlInv, Pcs
<1>4. QED
  BY <1>2, <1>3

\* The actions of the controller within a step.
Work ==
  \/ RemoteCall \/ Pause \/ NoteStates \/ StartTransfer \/ TransferRefused \/ TransferEnds
  \/ StepFails \/ WaitIsVain \/ WorkerLost
  \/ PauseWithoutBlock \/ RemoteCallFails \/ TransferFails \/ WaitTimesOut

Advance ==
  /\ journal' = journal /\ pc' \in Pcs
  /\ pc'.mode = pc.mode /\ pc'.step = pc.step /\ pc'.at > 0

\* A command that succeeds reports the hash of what is saved under its id.
LEMMA ReportIsSaved ==
  ASSUME GuardInv, TransferInv, pc.asked, command["worker"] # None, command["worker"].ok,
         Step \in TransferSteps
  PROVE  records[Step] # None /\ Saved(Step) \in Transactions
<1>1. "worker" \in Callers /\ Step \in Ids /\ NoId \notin Ids
  BY CallersAssumption, IdsAssumption, GuardAssumption
<1>2. command["worker"].id = Step /\ CommandFits("worker")
  BY <1>1 DEF TransferInv, GuardInv
<1>3. records[Step] # None
  BY <1>1, <1>2, Zenon DEF CommandFits
<1>4. records[Step] \in Attempts
  BY <1>1, <1>3 DEF GuardInv, GuardTypeOK
<1>5. QED
  BY <1>3, <1>4 DEF Saved, Tx, Attempts, Transactions

\* Which steps transfer, and at which of their calls.
LEMMA TransferCall ==
  ASSUME ControlInv, Calling, Call[1] = "transfer"
  PROVE  Step \in TransferSteps /\ pc.at = (IF Step = "4-1-partition" THEN 3 ELSE 1)
<1>1. InStep /\ pc.at \in 1..Len(Calls(Step)) /\ Call = Calls(Step)[pc.at]
  BY CallingFacts
<1>2. Step \in Steps
  BY <1>1, InStepFacts
<1>3. Calls(Step)[pc.at][1] = "transfer"
  BY <1>1
<1>4. QED
  BY <1>1, <1>2, <1>3, CallFacts

\* A step advances from call to call.
LEMMA NextCallAdvances ==
  ASSUME ControlInv, InStep, NextCall, journal' = journal
  PROVE  Advance
<1>1. pc \in Pcs /\ pc.at \in Nat
  BY ControlType
<1>2. pc' \in Pcs /\ pc'.mode = pc.mode /\ pc'.step = pc.step /\ pc'.at = pc.at + 1
  BY <1>1 DEF NextCall, Pcs
<1>3. QED
  BY <1>1, <1>2 DEF Advance

\* What a call does to the controller and to the hosts.
LEMMA WorkFacts ==
  ASSUME ExperimentInv, Work
  PROVE  /\ InStep /\ UNCHANGED <<finished, aborted>>
         /\ Advance \/ Interrupt
         /\ UNCHANGED hostVars \/ (Remote /\ Effect(Call[1], Call[2]))
<1>1. ControlInv /\ GuardInv /\ TransferInv
  BY DEF ExperimentInv
<1>2. CASE RemoteCall \/ Pause \/ PauseWithoutBlock
  <2>1. /\ InStep /\ NextCall /\ journal' = journal /\ UNCHANGED <<finished, aborted>>
        /\ UNCHANGED hostVars \/ (Remote /\ Effect(Call[1], Call[2]))
    BY <1>2 DEF RemoteCall, Pause, PauseWithoutBlock, Remote, Calling
  <2>2. QED
    BY <1>1, <2>1, NextCallAdvances
<1>3. CASE NoteStates
  <2>1. CASE AllAnswer
    <3>1. /\ InStep /\ NextCall /\ journal' = journal /\ UNCHANGED <<finished, aborted>>
          /\ UNCHANGED hostVars
      BY <1>3, <2>1 DEF NoteStates, Calling
    <3>2. QED
      BY <1>1, <3>1, NextCallAdvances
  <2>2. CASE ~AllAnswer
    BY <1>3, <2>2 DEF NoteStates, Calling, Interrupt
  <2>3. QED
    BY <2>1, <2>2
<1>4. CASE StartTransfer
  <2>1. /\ InStep /\ journal' = journal /\ UNCHANGED <<finished, aborted>> /\ UNCHANGED hostVars
        /\ pc' = [pc EXCEPT !.asked = TRUE]
    BY <1>4 DEF StartTransfer, Calling
  <2>2. pc \in Pcs /\ pc.at \in Nat \ {0}
    BY <1>1, <2>1, ControlType, InStepFacts
  <2>3. pc' \in Pcs /\ pc'.mode = pc.mode /\ pc'.step = pc.step /\ pc'.at = pc.at
    BY <2>1, <2>2 DEF Pcs
  <2>4. QED
    BY <2>1, <2>2, <2>3 DEF Advance
<1>5. CASE TransferEnds
  <2>1. CASE command["worker"].ok
    <3>1. /\ Calling /\ pc.asked /\ command["worker"] # None
          /\ UNCHANGED <<journal, finished, aborted>> /\ UNCHANGED hostVars
          /\ pc' = [pc EXCEPT !.at = @ + 1, !.asked = FALSE, !.hash = Saved(Step)]
      BY <1>5, <2>1 DEF TransferEnds, ReportedHash, Collect
    <3>2. Call[1] = "transfer" /\ InStep
      BY <1>1, <3>1 DEF TransferInv, Calling
    <3>3. Step \in TransferSteps
      BY <1>1, <3>1, <3>2, TransferCall
    <3>4. Saved(Step) \in Transactions
      BY <1>1, <2>1, <3>1, <3>3, ReportIsSaved
    <3>5. pc \in Pcs /\ pc.at \in Nat
      BY <1>1, ControlType
    <3>6. pc' \in Pcs /\ pc'.mode = pc.mode /\ pc'.step = pc.step /\ pc'.at = pc.at + 1
      <4>1. PICK t \in Transactions : t = Saved(Step)
        BY <3>4
      <4>2. pc' = [pc EXCEPT !.at = pc.at + 1, !.asked = FALSE, !.hash = t]
        BY <3>1, <4>1
      <4>3. pc' \in Pcs
        <5>1. pc.at + 1 \in Nat /\ FALSE \in BOOLEAN
          BY <3>5
        <5> DEFINE q == [pc EXCEPT !.at = pc.at + 1]
                   r == [q EXCEPT !.asked = FALSE]
        <5>2. q \in Pcs
          BY <3>5, <5>1 DEF Pcs
        <5>3. r \in Pcs
          <6> HIDE DEF q
          <6>1. QED
            BY <5>1, <5>2 DEF Pcs
        <5>4. [r EXCEPT !.hash = t] \in Pcs
          <6> HIDE DEF r
          <6>1. QED
            BY <5>3 DEF Pcs
        <5>5. pc' = [r EXCEPT !.hash = t]
          BY <3>5, <4>2 DEF Pcs
        <5>6. QED
          BY <5>4, <5>5
      <4>4. pc'.mode = pc.mode /\ pc'.step = pc.step /\ pc'.at = pc.at + 1
        BY <3>5, <4>2 DEF Pcs
      <4>5. QED
        BY <4>3, <4>4
    <3>7. QED
      BY <3>1, <3>2, <3>5, <3>6 DEF Advance
  <2>2. CASE ~command["worker"].ok
    BY <1>5, <2>2 DEF TransferEnds, Interrupt, Calling
  <2>3. QED
    BY <2>1, <2>2
<1>6. CASE \/ TransferRefused \/ StepFails \/ WaitIsVain \/ WorkerLost \/ RemoteCallFails
           \/ TransferFails \/ WaitTimesOut
  BY <1>6 DEF TransferRefused, StepFails, WaitIsVain, WorkerLost, RemoteCallFails, TransferFails,
              WaitTimesOut, Interrupt, Remote, Calling, Ending
<1>7. QED
  BY <1>2, <1>3, <1>4, <1>5, <1>6 DEF Work

\* A remote call is on a host, and its name is one that the step is for.
LEMMA RemoteFacts ==
  ASSUME ControlInv, Remote
  PROVE  /\ Call[2] \in Hosts /\ Call[1] # "cleanup"
         /\ Call[1] = "stop-node" => Step = "all-five-stop"
         /\ Call[1] = "partition-4" => Step = "4-1-apply"
         /\ Call[1] = "partition-3" => Step = "3-2-apply"
         /\ Call[1] = "heal" => Step \in {"4-1-heal", "3-2-heal"}
<1>1. InStep /\ pc.at \in 1..Len(Calls(Step)) /\ Call = Calls(Step)[pc.at]
  BY CallingFacts DEF Remote
<1>2. Step \in Steps
  BY <1>1, InStepFacts
<1>3. Calls(Step)[pc.at][1] \notin {"transfer", "pause", "states"}
  BY <1>1 DEF Remote
<1>4. QED
  BY <1>1, <1>2, <1>3, CallFacts

\* A call keeps the journal and the position in it together.
LEMMA WorkControl ==
  ASSUME ExperimentInv, Work
  PROVE  ControlInv'
<1>1. ControlInv
  BY DEF ExperimentInv
<1>2. /\ InStep /\ UNCHANGED <<finished, aborted>>
      /\ Advance \/ Interrupt
      /\ UNCHANGED hostVars \/ (Remote /\ Effect(Call[1], Call[2]))
  BY WorkFacts
<1>3. /\ root' \subseteq Hosts /\ nodes' \subseteq Hosts /\ agents' \subseteq Hosts
      /\ wall' \in [Hosts -> SUBSET Hosts]
  <2>1. CASE UNCHANGED hostVars
    BY <1>1, <2>1 DEF hostVars, ControlInv
  <2>2. CASE Remote /\ Effect(Call[1], Call[2])
    BY <1>1, <2>2, RemoteFacts, EffectFacts
  <2>3. QED
    BY <1>2, <2>1, <2>2
<1>4. QED
  BY <1>1, <1>2, <1>3, InStepControl DEF Advance

\* The next step begins.
LEMMA BeginStepControl == ControlInv /\ BeginStep => ControlInv'
<1> SUFFICES ASSUME ControlInv, BeginStep PROVE ControlInv'
  OBVIOUS
<1>1. /\ pc \in Pcs /\ journal \in [Steps -> Statuses] /\ pc.mode = "execute"
      /\ pc.step \in 1..18 /\ Step = Workflow[pc.step] /\ Step \in Steps /\ pc.at = 0
  <2>1. pc \in Pcs /\ journal \in [Steps -> Statuses] /\ pc.mode = "execute" /\ pc.at = 0
        /\ pc.step \in 0..19 /\ pc.step <= 18 /\ pc.step > 0
    BY ControlType, WorkflowLength DEF BeginStep, Executing, ControlInv
  <2>2. pc.step \in 1..18
    BY <2>1
  <2>3. QED
    BY <2>1, <2>2, WorkflowLength DEF Step
<1>2. UNCHANGED <<finished, aborted, root, nodes, agents, wall>>
  BY DEF BeginStep, hostVars
<1>3. CASE journal[Step] = "done"
  <2>1. journal' = journal /\ pc' = [pc EXCEPT !.step = @ + 1]
    BY <1>3 DEF BeginStep
  <2>2. pc' \in Pcs /\ pc'.mode = "execute" /\ pc'.step = pc.step + 1 /\ pc'.at = 0
    BY <1>1, <2>1 DEF Pcs
  <2>3. ~InStep' /\ ~Cleaning'
    BY <2>2 DEF InStep, Cleaning
  <2>4. \A m \in 1..18 : m < pc'.step => journal'[Workflow[m]] = "done"
    <3> SUFFICES ASSUME NEW m \in 1..18, m < pc'.step PROVE journal[Workflow[m]] = "done"
      BY <2>1
    <3>1. m < pc.step \/ m = pc.step
      BY <1>1, <2>2
    <3>2. QED
      BY <1>1, <1>3, <3>1, WorkflowLength DEF ControlInv
  <2>5. finished # "cleaned"
    BY <1>1 DEF ControlInv
  <2>6. QED
    BY <1>1, <1>2, <2>1, <2>2, <2>3, <2>4, <2>5, WorkflowLength DEF ControlInv, Pcs, Clean
<1>4. CASE journal[Step] # "done"
  <2>1. journal' = [journal EXCEPT ![Step] = "pending"] /\ pc' = [pc EXCEPT !.at = 1, !.hash = None]
    BY <1>4 DEF BeginStep
  <2>2. pc' \in Pcs /\ pc'.mode = "execute" /\ pc'.step = pc.step /\ pc'.at = 1
    BY <1>1, <2>1 DEF Pcs
  <2>3. journal' \in [Steps -> Statuses] /\ journal'[Step] = "pending"
        /\ \A s \in Steps : s # Step => journal'[s] = journal[s]
    BY <1>1, <2>1 DEF Statuses
  <2>4. \A s \in Steps : journal[s] = "done" => journal'[s] = "done"
    BY <1>4, <2>3
  <2>5. \A m \in 1..18 : m < pc.step => journal'[Workflow[m]] = "done"
    BY <1>1, <2>4, WorkflowLength DEF ControlInv
  <2>6. ASSUME NEW n \in 1..18, journal'[Workflow[n]] # "absent", NEW m \in 1..18, m < n
        PROVE  journal'[Workflow[m]] = "done"
    <3>1. CASE journal[Workflow[n]] # "absent"
      BY <2>4, <2>6, <3>1, WorkflowLength DEF ControlInv
    <3>2. CASE journal[Workflow[n]] = "absent"
      <4>1. Workflow[n] = Step
        BY <2>3, <2>6, <3>2, WorkflowLength
      <4>2. n = pc.step
        BY <1>1, <4>1 DEF Workflow
      <4>3. QED
        BY <2>5, <2>6, <4>2
    <3>3. QED
      BY <3>1, <3>2
  <2>7. Step' = Step /\ ~Cleaning'
    BY <1>1, <2>2, WorkflowLength DEF Step, Cleaning
  <2>8. finished = None
    BY <1>1, <1>4 DEF ControlInv
  <2>9. QED
    BY <1>2, <2>2, <2>3, <2>5, <2>6, <2>7, <2>8, <1>1, WorkflowLength, NoneAssumption DEF ControlInv, Pcs
<1>5. QED
  BY <1>3, <1>4

\* A step is finished.
LEMMA FinishStepControl == ControlInv /\ FinishStep => ControlInv'
<1> SUFFICES ASSUME ControlInv, FinishStep PROVE ControlInv'
  OBVIOUS
<1>1. /\ pc.mode = "execute" /\ pc.step \in 1..18 /\ Step \in Steps
      /\ Step = Workflow[pc.step] /\ journal[Step] = "pending" /\ finished = None
      /\ pc \in Pcs /\ journal \in [Steps -> Statuses]
  BY InStepFacts, ControlType DEF FinishStep, Ending
<1>2. UNCHANGED <<finished, aborted, root, nodes, agents, wall>>
  BY DEF FinishStep, hostVars
<1>3. journal' = [journal EXCEPT ![Step] = "done"] /\ pc' = [pc EXCEPT !.step = @ + 1, !.at = 0]
  BY DEF FinishStep
<1>4. pc' \in Pcs /\ pc'.mode = "execute" /\ pc'.step = pc.step + 1 /\ pc'.at = 0
  <2>1. PICK n \in 0..19 : n = pc.step + 1
    BY <1>1
  <2>2. pc' = [pc EXCEPT !.step = n, !.at = 0]
    BY <1>3, <2>1
  <2>3. pc \in Pcs /\ 0 \in Nat
    BY <1>1
  <2>4. pc' \in Pcs /\ pc'.mode = pc.mode /\ pc'.step = n /\ pc'.at = 0
    BY <2>2, <2>3 DEF Pcs
  <2>5. QED
    BY <1>1, <2>1, <2>4
<1>5. journal' \in [Steps -> Statuses] /\ journal'[Step] = "done"
      /\ \A s \in Steps : s # Step => journal'[s] = journal[s]
  BY <1>1, <1>3 DEF Statuses
<1>6. ~InStep' /\ ~Cleaning'
  BY <1>4 DEF InStep, Cleaning
<1>7. \A m \in 1..18 : m < pc'.step => journal'[Workflow[m]] = "done"
  <2> SUFFICES ASSUME NEW m \in 1..18, m < pc'.step PROVE journal'[Workflow[m]] = "done"
    OBVIOUS
  <2>1. m < pc.step \/ m = pc.step
    BY <1>1, <1>4
  <2>2. QED
    BY <1>1, <1>5, <2>1, WorkflowLength DEF ControlInv
<1>8. ASSUME NEW n \in 1..18, journal'[Workflow[n]] # "absent", NEW m \in 1..18, m < n
      PROVE  journal'[Workflow[m]] = "done"
  <2>1. journal[Workflow[n]] # "absent"
    BY <1>1, <1>5, <1>8, WorkflowLength
  <2>2. journal[Workflow[m]] = "done"
    BY <1>8, <2>1, WorkflowLength DEF ControlInv
  <2>3. QED
    BY <1>5, <2>2, WorkflowLength
<1>9. QED
  BY <1>1, <1>2, <1>4, <1>5, <1>6, <1>7, <1>8, WorkflowLength, NoneAssumption DEF ControlInv, Pcs

\* Cleaning up takes place after the last step, or on its own.
LEMMA CleaningFacts ==
  ASSUME ControlInv, Cleaning
  PROVE  /\ ~InStep /\ pc.mode # "down" /\ finished # "cleaned"
         /\ pc.mode = "execute" => pc.step = 19 /\ \A s \in Steps : journal[s] = "done"
<1>1. pc.mode \in Modes /\ pc.step \in 0..19
  BY ControlType
<1>2. CASE pc.mode = "cleanup"
  BY <1>2 DEF InStep, Executing, ControlInv
<1>3. CASE pc.mode # "cleanup"
  <2>1. pc.step = 19
    BY <1>1, <1>3, WorkflowLength DEF Cleaning
  <2>2. pc.mode # "down"
    BY DEF ControlInv, Cleaning
  <2>3. pc.mode = "execute"
    BY <1>1, <1>3, <2>2 DEF Modes
  <2>4. \A m \in 1..18 : journal[Workflow[m]] = "done"
    BY <2>1, <2>3, WorkflowLength DEF ControlInv
  <2>5. \A s \in Steps : journal[s] = "done"
    BY <2>4, WorkflowLength
  <2>6. QED
    BY <2>1, <2>3, <2>5, WorkflowLength DEF InStep, Executing, ControlInv
<1>4. QED
  BY <1>2, <1>3

\* The cleanup begins.
LEMMA BeginCleanupControl == ControlInv /\ BeginCleanup => ControlInv'
<1> SUFFICES ASSUME ControlInv, BeginCleanup PROVE ControlInv'
  OBVIOUS
<1>1. /\ pc \in Pcs /\ pc.step \in 0..19 /\ pc.at = 0 /\ pc' = [pc EXCEPT !.at = 1, !.errors = FALSE]
      /\ pc.mode = "cleanup" \/ (pc.mode = "execute" /\ pc.step > 18)
  BY ControlType, WorkflowLength DEF BeginCleanup
<1>2. pc \in Pcs /\ pc' = [pc EXCEPT !.at = 1, !.errors = FALSE]
  BY <1>1
<1>3. pc' \in Pcs /\ pc'.mode = pc.mode /\ pc'.step = pc.step /\ pc'.at = 1 /\ pc'.errors = FALSE
  BY <1>2 DEF Pcs
<1>4. UNCHANGED <<journal, finished, aborted, root, nodes, agents, wall>>
  BY DEF BeginCleanup, hostVars
<1>5. ~InStep'
  BY <1>1, <1>3, WorkflowLength DEF InStep, Executing
<1>6. \A h \in Hosts : ~(h < pc'.at)
  BY <1>3 DEF Hosts
<1>7. pc'.mode # "down"
  BY <1>1, <1>3
<1>8. finished # "cleaned"
  BY <1>1 DEF ControlInv
<1>9. QED
  BY <1>3, <1>4, <1>5, <1>6, <1>7, <1>8, WorkflowLength DEF ControlInv, Pcs, Clean

\* Cleanup of a host, or a failure there, leaves the hosts before it clean.
LEMMA CleanHostControl == ControlInv /\ (CleanHost \/ CleanHostFails) => ControlInv'
<1> SUFFICES ASSUME ControlInv, CleanHost \/ CleanHostFails PROVE ControlInv'
  OBVIOUS
<1>1. /\ Cleaning /\ pc.at \in Hosts /\ UNCHANGED <<journal, finished, aborted>>
  BY DEF CleanHost, CleanHostFails
<1>2. PICK b \in BOOLEAN :
        /\ pc' = [pc EXCEPT !.at = pc.at + 1, !.errors = b]
        /\ b \/ (~pc.errors /\ Effect("cleanup", pc.at))
        /\ UNCHANGED hostVars \/ Effect("cleanup", pc.at)
  <2>1. CASE CleanHost
    <3>1. pc.errors \in BOOLEAN
      BY ControlType DEF Pcs
    <3> DEFINE b == pc.errors \/ pc.at \notin root
    <3>2. b \in BOOLEAN
      OBVIOUS
    <3>3. /\ pc' = [pc EXCEPT !.at = pc.at + 1, !.errors = b]
          /\ UNCHANGED hostVars \/ Effect("cleanup", pc.at)
      BY <2>1, Zenon DEF CleanHost
    <3>4. b \/ (~pc.errors /\ Effect("cleanup", pc.at))
      BY <2>1, Zenon DEF CleanHost
    <3>5. QED
      BY <3>2, <3>3, <3>4, Zenon
  <2>2. CASE CleanHostFails
    BY <2>2 DEF CleanHostFails
  <2>3. QED
    BY <2>1, <2>2
<1>3. pc \in Pcs /\ pc.at \in Nat
  BY ControlType
<1>4. pc' \in Pcs /\ pc'.mode = pc.mode /\ pc'.step = pc.step /\ pc'.at = pc.at + 1 /\ pc'.errors = b
  <2>1. PICK a \in Nat : a = pc.at + 1
    BY <1>3
  <2>2. pc \in Pcs /\ pc' = [pc EXCEPT !.at = a, !.errors = b]
    BY <1>2, <1>3, <2>1
  <2>3. pc' \in Pcs
    BY <2>2 DEF Pcs
  <2>4. pc'.mode = pc.mode /\ pc'.step = pc.step /\ pc'.at = a /\ pc'.errors = b
    BY <2>2 DEF Pcs
  <2>5. QED
    BY <2>1, <2>3, <2>4
<1> DEFINE Cleaned(h) == h \notin nodes' /\ h \notin agents' /\ wall'[h] = {}
<1>5. /\ root' \subseteq Hosts /\ nodes' \subseteq nodes /\ agents' \subseteq agents
      /\ wall' \in [Hosts -> SUBSET Hosts]
      /\ \A h \in Hosts : wall'[h] \in {wall[h], {}}
      /\ Effect("cleanup", pc.at) => Cleaned(pc.at)
  <2>1. CASE Effect("cleanup", pc.at)
    <3>1. /\ nodes' = nodes \ {pc.at} /\ agents' = agents \ {pc.at} /\ root' \subseteq Hosts
          /\ wall' = [wall EXCEPT ![pc.at] = {}] /\ wall' \in [Hosts -> SUBSET Hosts]
      BY <1>1, <2>1, EffectFacts
    <3>2. wall \in [Hosts -> SUBSET Hosts]
      BY DEF ControlInv
    <3>3. QED
      BY <1>1, <3>1, <3>2
  <2>2. CASE UNCHANGED hostVars /\ ~Effect("cleanup", pc.at)
    BY <2>2 DEF hostVars, ControlInv
  <2>3. QED
    BY <1>2, <2>1, <2>2
<1>6. \A h \in Hosts : (Clean(h) => Cleaned(h)) /\ (Cleaned(h) <=> Clean(h)')
  BY <1>5 DEF Clean
<1> HIDE DEF Cleaned
<1>7. ~pc'.errors => \A h \in Hosts : h < pc'.at => Clean(h)'
  <2> SUFFICES ASSUME ~pc'.errors, NEW h \in Hosts, h < pc'.at PROVE Clean(h)'
    OBVIOUS
  <2>1. ~pc.errors /\ Effect("cleanup", pc.at)
    BY <1>2, <1>4, Zenon
  <2>2. h < pc.at \/ h = pc.at
    BY <1>3, <1>4 DEF Hosts
  <2>3. CASE h < pc.at
    BY <1>1, <1>6, <2>1, <2>3 DEF ControlInv
  <2>4. CASE h = pc.at
    BY <1>5, <1>6, <2>1, <2>4
  <2>5. QED
    BY <2>2, <2>3, <2>4
<1>8. /\ ~InStep /\ pc.mode # "down" /\ finished # "cleaned"
      /\ pc.mode = "execute" => pc.step = 19
  BY <1>1, CleaningFacts
<1>9. ~InStep'
  BY <1>4, <1>8, WorkflowLength DEF InStep, Executing
<1>10. nodes' \subseteq Hosts /\ agents' \subseteq Hosts
  BY <1>5 DEF ControlInv
<1>11. QED
  BY <1>1, <1>4, <1>5, <1>6, <1>7, <1>8, <1>9, <1>10, WorkflowLength DEF ControlInv, Pcs

\* A run is finished when all hosts are clean.
LEMMA FinishCleanupControl == ControlInv /\ FinishCleanup => ControlInv'
<1> SUFFICES ASSUME ControlInv, FinishCleanup PROVE ControlInv'
  OBVIOUS
<1>1. Cleaning /\ pc.at \notin Hosts /\ pc' = Down /\ UNCHANGED <<journal, aborted, root, nodes, agents, wall>>
  BY DEF FinishCleanup, hostVars
<1>2. pc' \in Pcs /\ pc'.mode = "down" /\ pc'.at = 0
  BY <1>1 DEF Down, Pcs, Modes
<1>3. ~InStep' /\ ~Cleaning'
  BY <1>2 DEF InStep, Cleaning
<1>4. CASE finished' = finished
  BY <1>1, <1>2, <1>3, <1>4, WorkflowLength DEF ControlInv, Pcs, Clean
<1>5. CASE finished' # finished
  <2>1. ~pc.errors /\ finished' = IF pc.mode = "cleanup" THEN "cleaned" ELSE "passed"
    BY <1>5, Zenon DEF FinishCleanup
  <2>2. pc.at > 0 /\ pc.at \in Nat
    BY <1>1, ControlType DEF Cleaning
  <2>3. \A h \in Hosts : h < pc.at
    BY <1>1, <2>2 DEF Hosts
  <2>4. \A h \in Hosts : Clean(h)
    BY <1>1, <2>1, <2>3 DEF ControlInv
  <2>5. finished' = "passed" => \A s \in Steps : journal[s] = "done"
    <3>1. pc.mode \in Modes /\ pc.mode # "down"
      BY <1>1, CleaningFacts, ControlType
    <3>2. finished' = "passed" => pc.mode = "execute"
      BY <2>1, <3>1 DEF Modes
    <3>3. QED
      BY <1>1, <3>2, CleaningFacts
  <2>6. finished' \in {"passed", "cleaned"}
    BY <2>1
  <2>7. \A h \in Hosts : Clean(h)'
    BY <1>1, <2>4 DEF Clean
  <2>8. QED
    BY <1>1, <1>2, <1>3, <2>5, <2>6, <2>7, WorkflowLength DEF ControlInv, Pcs
<1>6. QED
  BY <1>4, <1>5

\* The controller is killed, and started again to go on or to clean up.
LEMMA RestartControl == ControlInv /\ (KillController \/ Resume \/ ResumeCleanup) => ControlInv'
<1> SUFFICES ASSUME ControlInv, KillController \/ Resume \/ ResumeCleanup PROVE ControlInv'
  OBVIOUS
<1>1. UNCHANGED <<journal, finished, root, nodes, agents, wall>>
  BY DEF KillController, Resume, ResumeCleanup, hostVars
<1>2. \/ pc' = Down /\ aborted' = aborted
      \/ finished # "cleaned" /\ pc' = [Down EXCEPT !.mode = "execute", !.step = 1] /\ aborted' = aborted
      \/ finished # "cleaned" /\ pc' = [Down EXCEPT !.mode = "cleanup"] /\ aborted'
  BY DEF KillController, Resume, ResumeCleanup
<1>3. /\ pc' \in Pcs /\ pc'.at = 0
      /\ pc'.mode = "execute" => pc'.step = 1
      /\ pc'.mode = "cleanup" => aborted'
      /\ finished = "cleaned" => pc'.mode = "down"
  <2>1. CASE pc' = Down
    BY <2>1 DEF Down, Pcs, Modes
  <2>2. CASE finished # "cleaned" /\ pc' = [Down EXCEPT !.mode = "execute", !.step = 1]
    <3>1. pc' = [mode |-> "execute", step |-> 1, at |-> 0, asked |-> FALSE, hash |-> None, errors |-> FALSE]
      BY <2>2 DEF Down
    <3>2. pc' \in Pcs /\ pc'.mode = "execute" /\ pc'.at = 0 /\ pc'.step = 1
      BY <3>1 DEF Pcs, Modes
    <3>3. finished # "cleaned"
      BY <2>2
    <3>4. QED
      BY <3>2, <3>3
  <2>3. CASE finished # "cleaned" /\ pc' = [Down EXCEPT !.mode = "cleanup"] /\ aborted'
    <3>1. pc' = [mode |-> "cleanup", step |-> 0, at |-> 0, asked |-> FALSE, hash |-> None, errors |-> FALSE]
      BY <2>3 DEF Down
    <3>2. pc' \in Pcs /\ pc'.mode = "cleanup" /\ pc'.at = 0 /\ pc'.step = 0
      BY <3>1 DEF Pcs, Modes
    <3>3. finished # "cleaned" /\ aborted'
      BY <2>3
    <3>4. QED
      BY <3>2, <3>3
  <2>4. QED
    BY <1>2, <2>1, <2>2, <2>3
<1>4. ~InStep' /\ ~Cleaning'
  BY <1>3 DEF InStep, Cleaning
<1>5. QED
  BY <1>1, <1>3, <1>4, WorkflowLength DEF ControlInv, Pcs, Clean

\* Every step keeps the invariant of the controller.
LEMMA ControlStep ==
  ASSUME ExperimentInv, [Next]_vars
  PROVE  ControlInv'
<1>1. ControlInv
  BY DEF ExperimentInv
<1>2. CASE Work
  BY <1>2, WorkControl
<1>3. CASE \/ BeginStep \/ FinishStep \/ BeginCleanup \/ CleanHost \/ CleanHostFails
           \/ FinishCleanup \/ KillController \/ Resume \/ ResumeCleanup
  BY <1>1, <1>3, BeginStepControl, FinishStepControl, BeginCleanupControl, CleanHostControl,
     FinishCleanupControl, RestartControl
<1>4. CASE \/ Chain \/ RejectedInBlock \/ Evicted \/ AgentsSend
           \/ (\E c \in Callers : Commanding(c) \/ CommandRefused(c) \/ CommandFails(c))
           \/ Unheard \/ OperatorStarts \/ OperatorEnds \/ UNCHANGED vars
  <2>1. UNCHANGED <<controlVars, hostVars>>
    BY <1>4 DEF Chain, Block, Indexed, Settle, RejectedInBlock, Evicted, AgentsSend, Commanding,
                CommandRefused, CommandFails, Unheard, OperatorStarts, OperatorEnds, vars
  <2>2. QED
    BY <1>1, <2>1, IdleControl
<1>5. QED
  BY <1>2, <1>3, <1>4 DEF Next, Controller, Work

-----------------------------------------------------------------------------
(***************************************************************************)
(* The guard in the experiment                                             *)
(***************************************************************************)

\* A new command: the transfer of the step, or something of the operator.
TransferStart ==
  StartTransfer /\ Step \in TransferSteps /\ Start("worker", Step, "transfer")

OperatorStart ==
  \E id, payload :
    /\ Admissible(id, payload) /\ id \notin TransferSteps /\ payload # "transfer"
    /\ Start("operator", id, payload)

\* What a step of the experiment is to the guards of the commands.
LEMMA GuardOfStep ==
  ASSUME ControlInv, [Next]_vars
  PROVE  \/ UNCHANGED guardVars \/ NodeStep
         \/ \E c \in Callers : CommandStep(c)
         \/ TransferStart \/ OperatorStart
<1>1. "worker" \in Callers /\ "operator" \in Callers
  BY CallersAssumption
<1>2. CASE Chain \/ RejectedInBlock \/ Evicted \/ AgentsSend
  BY <1>2 DEF Chain, Block, Indexed, Settle, RejectedInBlock, Evicted, AgentsSend, NodeStep
<1>3. CASE \E c \in Callers : Commanding(c) \/ CommandRefused(c) \/ CommandFails(c)
  BY <1>3 DEF Commanding, CommandRefused, CommandFails, CommandStep, Refuse
<1>4. CASE Unheard \/ OperatorEnds \/ TransferEnds
  BY <1>1, <1>4 DEF Unheard, OperatorEnds, TransferEnds, CommandStep
<1>5. CASE StartTransfer
  BY <1>5, TransferCall DEF StartTransfer, TransferStart
<1>6. CASE OperatorStarts
  <2>1. PICK c \in OperatorCommands : Start("operator", c.id, c.payload)
    BY <1>6 DEF OperatorStarts
  <2>2. /\ c.id \in (Ids \ TransferSteps) \cup {NoId}
        /\ c.payload \in (IF c.id = NoId THEN Plain ELSE Payloads \ (Plain \cup {"transfer"}))
    BY OperatorAssumption
  <2>3. Admissible(c.id, c.payload) /\ c.id \notin TransferSteps /\ c.payload # "transfer"
    BY <2>2, GuardAssumption, IdsAssumption DEF Admissible
  <2>4. QED
    BY <2>1, <2>3 DEF OperatorStart
<1>7. CASE \/ BeginStep \/ RemoteCall \/ Pause \/ NoteStates
           \/ TransferRefused \/ FinishStep \/ StepFails \/ WaitIsVain
           \/ WorkerLost \/ BeginCleanup \/ CleanHost \/ FinishCleanup
           \/ Resume \/ ResumeCleanup \/ PauseWithoutBlock \/ RemoteCallFails \/ TransferFails
           \/ WaitTimesOut \/ CleanHostFails \/ KillController \/ UNCHANGED vars
  BY <1>7 DEF BeginStep, RemoteCall, Pause, NoteStates, TransferRefused, FinishStep, StepFails,
              WaitIsVain, WorkerLost, BeginCleanup, CleanHost, FinishCleanup, Resume, ResumeCleanup,
              PauseWithoutBlock, RemoteCallFails, TransferFails, WaitTimesOut, CleanHostFails,
              KillController, vars
<1>8. QED
  BY <1>2, <1>3, <1>4, <1>5, <1>6, <1>7 DEF Next, Controller

\* Every step keeps the invariant of the guards.
LEMMA GuardStep ==
  ASSUME ControlInv, GuardInv, [Next]_vars
  PROVE  GuardInv'
<1>1. CASE UNCHANGED guardVars
  BY <1>1 DEF GuardInv, GuardTypeOK, CommandFits, SentIsSaved, Saved, Tx, guardVars,
              Attempts, Commands, Transactions
<1>2. CASE NodeStep
  BY <1>2, NodeGuard
<1>3. CASE \E c \in Callers : CommandStep(c)
  BY <1>3, CommandGuard
<1>4. CASE TransferStart
  <2>1. "worker" \in Callers /\ Admissible(Step, "transfer")
    BY <1>4, CallersAssumption, IdsAssumption, GuardAssumption DEF TransferStart, Admissible
  <2>2. QED
    BY <1>4, <2>1, StartGuard DEF TransferStart
<1>5. CASE OperatorStart
  <2>1. "operator" \in Callers
    BY CallersAssumption
  <2>2. QED
    BY <1>5, <2>1, StartGuard DEF OperatorStart
<1>6. QED
  BY <1>1, <1>2, <1>3, <1>4, <1>5, GuardOfStep

\* What becomes of the commands.
Kept(c) ==
  /\ command[c] # None
  /\ command'[c].id = command[c].id /\ command'[c].payload = command[c].payload
  /\ command'[c].sequence = command[c].sequence

Started(c) ==
  /\ command'[c].sequence = sequence
  /\ \/ /\ c = "worker" /\ StartTransfer
        /\ command'[c].id = Step /\ command'[c].payload = "transfer" /\ Step \in TransferSteps
     \/ /\ c = "operator"
        /\ command'[c].id \notin TransferSteps /\ command'[c].payload # "transfer"

\* A record is only ever made from a command.
RecordedFrom(id) ==
  /\ records[id] = None
  /\ \E c \in Callers :
       /\ command[c] # None /\ command[c].id = id
       /\ records'[id] = [intent |-> command[c].payload, sequence |-> command[c].sequence]

\* What a step may do to the commands, their records and the chain.
LEMMA GuardChange ==
  ASSUME ControlInv, GuardInv, [Next]_vars
  PROVE  /\ \A c \in Callers : command'[c] # None => Kept(c) \/ Started(c)
         /\ \A id \in Ids : records'[id] = records[id] \/ RecordedFrom(id)
         /\ committed \subseteq committed'
<1>0. command \in [Callers -> Commands \cup {None}] /\ records \in [Ids -> Attempts \cup {None}]
  BY DEF GuardInv, GuardTypeOK
<1>1. CASE UNCHANGED guardVars
  BY <1>1 DEF guardVars, Kept
<1>2. CASE NodeStep
  BY <1>2 DEF NodeStep, CommitTx, RejectTx, IndexTx, Evict, Kept
<1>3. ASSUME NEW c \in Callers, CommandStep(c)
      PROVE  /\ \A d \in Callers : command'[d] # None => Kept(d)
             /\ \A id \in Ids : records'[id] = records[id] \/ RecordedFrom(id)
             /\ committed \subseteq committed'
  <2>1. command[c] # None /\ command[c] \in Commands /\ UNCHANGED committed
    BY <1>0, <1>3 DEF CommandStep, OpenGuard, Reconciles, Reconcile, SignAndSave, Broadcast,
                      BroadcastLost, Kill, Collect, Refuse, chainVars
  <2>2. PICK r : /\ command' = [command EXCEPT ![c] = r]
                 /\ r # None => /\ r.id = command[c].id /\ r.payload = command[c].payload
                                /\ r.sequence = command[c].sequence
    <3>1. CASE Kill(c) \/ Collect(c)
      BY <3>1 DEF Kill, Collect, SetCommand
    <3>2. CASE OpenGuard(c)
      <4>1. command' = [command EXCEPT ![c] =
              [command[c] EXCEPT !.at = IF command[c].id = NoId THEN "saved" ELSE "open",
                                 !.pinned = sequence]]
        BY <3>2 DEF OpenGuard, SetCommand
      <4> DEFINE r == [command[c] EXCEPT !.at = IF command[c].id = NoId THEN "saved" ELSE "open",
                                 !.pinned = sequence]
      <4>2. r.id = command[c].id /\ r.payload = command[c].payload /\ r.sequence = command[c].sequence
        BY <2>1 DEF Commands
      <4>3. QED
        BY <4>1, <4>2, Zenon
    <3>3. ASSUME NEW ok, Exit(c, ok)
          PROVE  \E r : /\ command' = [command EXCEPT ![c] = r]
                        /\ r.id = command[c].id /\ r.payload = command[c].payload
                        /\ r.sequence = command[c].sequence
      <4>1. command' = [command EXCEPT ![c] = [command[c] EXCEPT !.at = "exit", !.ok = ok]]
        BY <3>3 DEF Exit, SetCommand
      <4> DEFINE r == [command[c] EXCEPT !.at = "exit", !.ok = ok]
      <4>2. r.id = command[c].id /\ r.payload = command[c].payload /\ r.sequence = command[c].sequence
        BY <2>1 DEF Commands
      <4>3. QED
        BY <4>1, <4>2, Zenon
    <3>4. CASE Proceed(c)
      <4>1. command' = [command EXCEPT ![c] = [command[c] EXCEPT !.at = "saved"]]
        BY <3>4 DEF Proceed, SetCommand
      <4> DEFINE r == [command[c] EXCEPT !.at = "saved"]
      <4>2. r.id = command[c].id /\ r.payload = command[c].payload /\ r.sequence = command[c].sequence
        BY <2>1 DEF Commands
      <4>3. QED
        BY <4>1, <4>2, Zenon
    <3>5. QED
      BY <1>3, <3>1, <3>2, <3>3, <3>4
      DEF CommandStep, Reconciles, Reconcile, SignAndSave, Broadcast, BroadcastLost, Refuse
  <2>3. \A d \in Callers : command'[d] # None => Kept(d)
    BY <1>0, <2>1, <2>2 DEF Kept
  <2>4. \A id \in Ids : records'[id] = records[id] \/ RecordedFrom(id)
    <3>1. CASE records' = records
      BY <3>1
    <3>2. CASE records' # records
      <4>1. records[command[c].id] = None /\ SignAndSave(c)
        BY <1>3, <3>2 DEF CommandStep, OpenGuard, Reconciles, Reconcile, Broadcast,
                          BroadcastLost, Kill, Collect, Refuse
      <4>2. records' = [records EXCEPT ![command[c].id] =
                   [intent |-> command[c].payload, sequence |-> command[c].sequence]]
        BY <4>1 DEF SignAndSave
      <4>3. QED
        BY <1>0, <2>1, <4>1, <4>2 DEF RecordedFrom
    <3>3. QED
      BY <3>1, <3>2
  <2>5. QED
    BY <2>1, <2>3, <2>4
<1>4. CASE TransferStart
  <2>1. /\ command' = [command EXCEPT !["worker"] =
             [id |-> Step, payload |-> "transfer", sequence |-> sequence,
              pinned |-> 0, at |-> "started", ok |-> FALSE]]
        /\ UNCHANGED <<records, committed>>
    BY <1>4 DEF TransferStart, Start, SetCommand, chainVars
  <2>2. StartTransfer /\ Step \in TransferSteps
    BY <1>4 DEF TransferStart
  <2>3. command'["worker"] # None => Started("worker")
    BY <1>0, <2>1, <2>2, CallersAssumption DEF Started
  <2>4. \A c \in Callers : c # "worker" /\ command'[c] # None => Kept(c)
    BY <1>0, <2>1 DEF Kept
  <2>5. QED
    BY <2>1, <2>3, <2>4
<1>5. CASE OperatorStart
  <2>1. PICK id, payload : /\ id \notin TransferSteps /\ payload # "transfer"
                           /\ Start("operator", id, payload)
    BY <1>5 DEF OperatorStart
  <2>2. /\ command' = [command EXCEPT !["operator"] =
             [id |-> id, payload |-> payload, sequence |-> sequence,
              pinned |-> 0, at |-> "started", ok |-> FALSE]]
        /\ UNCHANGED <<records, committed>>
    BY <2>1 DEF Start, SetCommand, chainVars
  <2>3. command'["operator"] # None => Started("operator")
    BY <1>0, <2>1, <2>2, CallersAssumption DEF Started
  <2>4. \A c \in Callers : c # "operator" /\ command'[c] # None => Kept(c)
    BY <1>0, <2>2 DEF Kept
  <2>5. QED
    BY <2>2, <2>3, <2>4
<1>6. QED
  BY <1>1, <1>2, <1>3, <1>4, <1>5, GuardOfStep

-----------------------------------------------------------------------------
(***************************************************************************)
(* Transfers                                                               *)
(***************************************************************************)

\* Actions that leave the state of the controller alone.
Aside ==
  \/ Chain \/ RejectedInBlock \/ Evicted \/ AgentsSend
  \/ (\E c \in Callers : Commanding(c) \/ CommandRefused(c) \/ CommandFails(c))
  \/ Unheard \/ OperatorStarts \/ OperatorEnds \/ UNCHANGED vars

\* What neither the controller nor a host has a part in.
LEMMA AsideFacts == Aside => UNCHANGED <<controlVars, hostVars>>
BY DEF Aside, Chain, Block, Indexed, Settle, RejectedInBlock, Evicted, AgentsSend, Commanding,
       CommandRefused, CommandFails, Unheard, OperatorStarts, OperatorEnds, vars

\* Actions of the controller outside of a step.
Between ==
  \/ BeginStep \/ FinishStep \/ BeginCleanup \/ CleanHost \/ CleanHostFails
  \/ FinishCleanup \/ KillController \/ Resume \/ ResumeCleanup

\* The three kinds of steps.
LEMMA NextCases == [Next]_vars => Aside \/ Work \/ Between
BY DEF Next, Controller, Aside, Work, Between

\* The journal only moves on, and a step becomes done only when it is finished.
LEMMA JournalChange ==
  ASSUME ExperimentInv, [Next]_vars
  PROVE  /\ \A s \in Steps : journal[s] = "done" => journal'[s] = "done"
         /\ \A s \in Steps : journal'[s] = "done" /\ journal[s] # "done" => FinishStep /\ s = Step
         /\ \A s \in Steps : journal'[s] = "absent" => journal[s] = "absent"
         /\ \/ result' = result
            \/ FinishStep /\ Step = "4-1-partition" /\ result' = pc.hash /\ journal[Step] = "pending"
<1>1. ControlInv /\ journal \in [Steps -> Statuses]
  BY DEF ExperimentInv, ControlInv
<1>2. CASE UNCHANGED <<journal, result>>
  BY <1>2
<1>3. CASE Interrupt /\ InStep
  <2>1. Step \in Steps /\ journal[Step] = "pending"
    BY <1>1, <1>3, InStepFacts
  <2>2. journal' = [journal EXCEPT ![Step] = "interrupted"] /\ result' = result
    BY <1>3 DEF Interrupt
  <2>3. QED
    BY <1>1, <2>1, <2>2
<1>4. CASE BeginStep /\ journal' # journal
  <2>1. journal[Step] # "done" /\ journal' = [journal EXCEPT ![Step] = "pending"] /\ result' = result
    BY <1>4 DEF BeginStep
  <2>2. QED
    BY <1>1, <2>1
<1>5. CASE FinishStep
  <2>1. Step \in Steps /\ journal[Step] = "pending"
    BY <1>1, <1>5, InStepFacts DEF FinishStep, Ending
  <2>2. /\ journal' = [journal EXCEPT ![Step] = "done"]
        /\ result' = IF Step = "4-1-partition" THEN pc.hash ELSE result
    BY <1>5 DEF FinishStep
  <2>3. QED
    BY <1>1, <1>5, <2>1, <2>2
<1>6. CASE Aside
  BY <1>2, <1>6, AsideFacts DEF controlVars
<1>7. CASE Work
  <2>1. InStep /\ (Advance \/ Interrupt)
    BY <1>7, WorkFacts
  <2>2. Interrupt \/ result' = result
    BY <1>7 DEF Work, RemoteCall, Pause, NoteStates, StartTransfer, TransferRefused, TransferEnds,
                StepFails, WaitIsVain, WorkerLost, PauseWithoutBlock, RemoteCallFails,
                TransferFails, WaitTimesOut
  <2>3. QED
    BY <1>2, <1>3, <2>1, <2>2 DEF Advance
<1>8. CASE Between
  <2>1. FinishStep \/ (BeginStep /\ journal' # journal) \/ UNCHANGED <<journal, result>>
    BY <1>8 DEF Between, BeginStep, BeginCleanup, CleanHost, CleanHostFails,
                FinishCleanup, KillController, Resume, ResumeCleanup
  <2>2. QED
    BY <1>2, <1>4, <1>5, <2>1
<1>9. QED
  BY <1>6, <1>7, <1>8, NextCases

\* How the controller moves, as far as transfers are concerned.
LEMMA PcChange ==
  ASSUME ExperimentInv, [Next]_vars
  PROVE  \/ pc' = pc
         \/ ~InStep' /\ ~pc'.asked
         \/ ~pc'.asked /\ pc'.at = 1
         \/ InStep /\ NextCall /\ Calling /\ Call[1] # "transfer"
         \/ StartTransfer /\ pc' = [pc EXCEPT !.asked = TRUE]
         \/ /\ TransferEnds /\ command["worker"].ok
            /\ pc' = [pc EXCEPT !.at = @ + 1, !.asked = FALSE, !.hash = Saved(Step)]
<1>1. ControlInv /\ TransferInv /\ pc \in Pcs
  BY ControlType DEF ExperimentInv
<1>2. CASE Aside
  BY <1>2, AsideFacts DEF controlVars
<1>3. CASE Interrupt
  BY <1>3 DEF Interrupt, Down, InStep, Executing
<1>4. CASE Work /\ ~Interrupt
  <2>1. CASE RemoteCall \/ Pause \/ PauseWithoutBlock \/ NoteStates
    BY <1>4, <2>1 DEF RemoteCall, Pause, PauseWithoutBlock, NoteStates, Remote, Calling
  <2>2. CASE StartTransfer
    BY <2>2 DEF StartTransfer
  <2>3. CASE TransferEnds
    BY <1>4, <2>3 DEF TransferEnds, ReportedHash
  <2>4. QED
    BY <1>4, <2>1, <2>2, <2>3 DEF Work, TransferRefused, StepFails, WaitIsVain, WorkerLost,
          RemoteCallFails, TransferFails, WaitTimesOut
<1>5. CASE BeginStep
  <2>1. ~pc.asked
    BY <1>1, <1>5, InStepFacts DEF BeginStep, TransferInv, Calling
  <2>2. CASE journal[Step] = "done"
    <3>1. pc' = [pc EXCEPT !.step = @ + 1] /\ pc.at = 0
      BY <1>5, <2>2 DEF BeginStep
    <3>2. pc'.at = 0 /\ pc'.asked = pc.asked
      BY <1>1, <3>1 DEF Pcs
    <3>3. ~InStep'
      BY <3>2 DEF InStep
    <3>4. QED
      BY <2>1, <3>2, <3>3, Zenon
  <2>3. CASE journal[Step] # "done"
    <3>1. pc' = [pc EXCEPT !.at = 1, !.hash = None]
      BY <1>5, <2>3 DEF BeginStep
    <3>2. pc'.at = 1 /\ pc'.asked = pc.asked
      BY <1>1, <3>1 DEF Pcs
    <3>3. QED
      BY <2>1, <3>2, Zenon
  <2>4. QED
    BY <2>2, <2>3
<1>6. CASE FinishStep
  <2>1. ~pc.asked
    <3>1. ~Calling
      <4>1. InStep /\ pc.at > Len(Calls(Step))
        BY <1>6 DEF FinishStep, Ending
      <4>2. pc.at \in Nat /\ Len(Calls(Step)) \in Nat
        BY <1>1, <4>1, InStepFacts, LengthOfCalls
      <4>3. QED
        BY <4>1, <4>2 DEF Calling
    <3>2. QED
      BY <1>1, <3>1 DEF TransferInv
  <2>2. pc' = [pc EXCEPT !.step = @ + 1, !.at = 0]
    BY <1>6 DEF FinishStep
  <2>3. pc'.at = 0 /\ pc'.asked = pc.asked
    BY <1>1, <2>2 DEF Pcs
  <2>4. ~InStep'
    BY <2>3 DEF InStep
  <2>5. QED
    BY <2>1, <2>3, <2>4, Zenon
<1>7. CASE BeginCleanup \/ CleanHost \/ CleanHostFails
  <2>1. ~InStep
    <3>1. CASE BeginCleanup
      BY <3>1, WorkflowLength DEF BeginCleanup, InStep
    <3>2. CASE CleanHost \/ CleanHostFails
      BY <1>1, <3>2, CleaningFacts DEF CleanHost, CleanHostFails
    <3>3. QED
      BY <1>7, <3>1, <3>2
  <2>2. ~pc.asked
    BY <1>1, <2>1 DEF TransferInv, Calling
  <2>3. PICK a, b : pc' = [pc EXCEPT !.at = a, !.errors = b]
    BY <1>7 DEF BeginCleanup, CleanHost, CleanHostFails
  <2>4. pc'.asked = pc.asked /\ pc'.step = pc.step /\ pc'.mode = pc.mode
    BY <1>1, <2>3 DEF Pcs
  <2>5. ~Executing
    <3>1. CASE BeginCleanup
      BY <1>1, <3>1, WorkflowLength, ControlType DEF BeginCleanup, Executing
    <3>2. CASE CleanHost \/ CleanHostFails
      <4>1. Cleaning
        BY <3>2 DEF CleanHost, CleanHostFails
      <4>2. pc.mode = "execute" => pc.step = 19
        BY <1>1, <4>1, CleaningFacts
      <4>3. QED
        BY <4>2, WorkflowLength DEF Executing
    <3>3. QED
      BY <1>7, <3>1, <3>2
  <2>6. ~InStep'
    BY <2>4, <2>5 DEF InStep, Executing
  <2>7. QED
    BY <2>2, <2>4, <2>6, Zenon
<1>8. CASE FinishCleanup \/ KillController \/ Resume \/ ResumeCleanup
  <2>1. \/ pc' = Down \/ pc' = [Down EXCEPT !.mode = "execute", !.step = 1]
        \/ pc' = [Down EXCEPT !.mode = "cleanup"]
    BY <1>8 DEF FinishCleanup, KillController, Resume, ResumeCleanup
  <2>2. pc'.at = 0 /\ pc'.asked = FALSE
    <3>1. CASE pc' = Down
      BY <3>1 DEF Down
    <3>2. CASE pc' = [Down EXCEPT !.mode = "execute", !.step = 1]
      BY <3>2 DEF Down
    <3>3. CASE pc' = [Down EXCEPT !.mode = "cleanup"]
      BY <3>3 DEF Down
    <3>4. QED
      BY <2>1, <3>1, <3>2, <3>3
  <2>3. ~InStep'
    BY <2>2 DEF InStep
  <2>4. QED
    BY <2>2, <2>3
<1>9. QED
  BY <1>2, <1>3, <1>4, <1>5, <1>6, <1>7, <1>8, NextCases DEF Between

\* Records stay as they are, and what is compensated stays so.
LEMMA RecordsStay ==
  ASSUME ExperimentInv, [Next]_vars
  PROVE  /\ \A id \in Ids : records[id] # None =>
              records'[id] = records[id] /\ records'[id] # None /\ Saved(id)' = Saved(id)
         /\ settled \subseteq settled' /\ settled' \subseteq settled \cup committed
         /\ settled' # settled => \E tx \in committed : Settle(tx) /\ settled' = settled \cup {tx}
<1>1. ControlInv /\ GuardInv
  BY DEF ExperimentInv
<1>2. \A id \in Ids : records[id] # None => records'[id] = records[id]
  BY <1>1, GuardChange DEF RecordedFrom
<1>3. \A id \in Ids : records[id] # None => Saved(id)' = Saved(id)
  BY <1>2 DEF Saved, Tx
<1>4. settled' # settled => \E tx \in committed : Settle(tx) /\ settled' = settled \cup {tx}
  <2>1. CASE Work
    BY <2>1 DEF Work, RemoteCall, Pause, NoteStates, StartTransfer, TransferRefused, TransferEnds,
                StepFails, WaitIsVain, WorkerLost, PauseWithoutBlock, RemoteCallFails,
                TransferFails, WaitTimesOut, labVars
  <2>2. CASE Between
    BY <2>2 DEF Between, BeginStep, FinishStep, BeginCleanup, CleanHost, CleanHostFails,
                FinishCleanup, KillController, Resume, ResumeCleanup, labVars
  <2>3. CASE Aside
    BY <2>3 DEF Aside, Chain, Block, Indexed, Settle, RejectedInBlock, Evicted, AgentsSend,
                Commanding, CommandRefused, CommandFails, Unheard, OperatorStarts, OperatorEnds,
                vars, labVars
  <2>4. QED
    BY <2>1, <2>2, <2>3, NextCases
<1>5. QED
  BY <1>2, <1>3, <1>4

\* A transfer is started after the ones before it are compensated.
LEMMA StartIsLate ==
  ASSUME ExperimentInv, StartTransfer, NEW p \in Before, Step = p[2]
  PROVE  SettledBefore(p[1], sequence)
<1>1. ControlInv /\ TransferInv /\ GuardInv /\ DoneIsTrue
  BY DEF ExperimentInv, TransferInv
<1>2. InStep /\ pc.mode = "execute" /\ pc.step \in 1..18 /\ Step = Workflow[pc.step]
  BY <1>1, InStepFacts DEF StartTransfer, Calling
<1>3. \A m \in 1..18 : m < pc.step => journal[Workflow[m]] = "done"
  BY <1>1, <1>2, WorkflowLength DEF ControlInv
<1>4. records[p[1]] # None /\ Saved(p[1]) \in settled
  <2>1. CASE p[1] = "baseline-compensation"
    <3>1. p[2] \in {"4-1-partition", "post-restart-compensation"}
      BY <2>1 DEF Before
    <3>2. pc.step \in {7, 17}
      BY <1>2, <3>1, StepNumber
    <3>3. journal["baseline-compensation"] = "done"
      BY <1>3, <3>2, NamedSteps
    <3>4. QED
      BY <1>1, <2>1, <3>3 DEF DoneIsTrue
  <2>2. CASE p[1] = "4-1-partition"
    <3>1. p[2] = "post-restart-compensation"
      BY <2>2 DEF Before
    <3>2. pc.step = 17
      <4>1. Workflow[pc.step] = "post-restart-compensation"
        BY <1>2, <3>1
      <4>2. QED
        BY <1>2, <4>1, StepNumber
    <3>3. journal["4-1-partition"] = "done" /\ journal["4-1-settlement"] = "done"
      BY <1>3, <3>2, NamedSteps
    <3>4. records["4-1-partition"] # None
      BY <1>1, <3>3 DEF TransferInv, TransferSteps
    <3>5. QED
      BY <1>1, <2>2, <3>3, <3>4 DEF DoneIsTrue
  <2>3. QED
    BY <2>1, <2>2 DEF Before
<1>5. Saved(p[1]) \in committed
  BY <1>1, <1>4 DEF TransferInv
<1>6. Saved(p[1]).sequence < sequence
  BY <1>1, <1>5 DEF GuardInv
<1>7. QED
  BY <1>4, <1>6 DEF SettledBefore, Saved, Tx

\* The call in question of a transfer step.
LEMMA TransferCallOf ==
  ASSUME NEW s \in TransferSteps
  PROVE  LET k == IF s = "4-1-partition" THEN 3 ELSE 1
         IN  k \in 1..Len(Calls(s)) /\ Calls(s)[k][1] = "transfer" /\ Len(Calls(s)) \in Nat
<1>1. CASE s = "4-1-partition"
  <2>1. Calls(s) = <<<<"pause", 0>>, <<"states", 0>>, <<"transfer", 1>>, <<"pause", 0>>>>
    BY <1>1, CallsOfStep
  <2>2. QED
    BY <1>1, <2>1
<1>2. CASE s # "4-1-partition"
  <2>1. Calls(s) = <<<<"transfer", 1>>>>
    BY <1>2, CallsOfStep DEF TransferSteps
  <2>2. QED
    BY <1>2, <2>1
<1>3. QED
  BY <1>1, <1>2

\* The controller is where it was.
LEMMA SameStep ==
  ASSUME pc'.step = pc.step, pc'.mode = pc.mode, pc'.at = pc.at
  PROVE  Step' = Step /\ InStep' = InStep /\ Calling' = Calling /\ Call' = Call
BY DEF Step, InStep, Executing, Calling, Call, Calls, EachHost, Hosts

\* The first two conjuncts about a step under way.
LEMMA TransferredStep ==
  ASSUME ExperimentInv, [Next]_vars, InStep', Step' \in TransferSteps, Transferred(Step)'
  PROVE  records'[Step'] # None /\ pc'.hash = Saved(Step)'
<1>1. ControlInv /\ TransferInv /\ GuardInv /\ pc \in Pcs /\ pc.at \in Nat
  BY ControlType DEF ExperimentInv
<1>2. Step' \in Ids
  BY IdsAssumption
<1>3. ASSUME InStep, Step' = Step, Transferred(Step), pc'.hash = pc.hash
      PROVE  records'[Step'] # None /\ pc'.hash = Saved(Step)'
  <2>1. records[Step] # None /\ pc.hash = Saved(Step)
    BY <1>1, <1>3 DEF TransferInv
  <2>2. records'[Step] = records[Step] /\ Step \in Ids
    BY <1>2, <1>3, <2>1, RecordsStay
  <2>3. QED
    BY <1>3, <2>1, <2>2 DEF Saved, Tx
<1>4. CASE pc' = pc
  BY <1>3, <1>4, SameStep DEF Transferred
<1>5. CASE pc'.at = 1
  BY <1>5 DEF Transferred
<1>6. CASE InStep /\ NextCall /\ Calling /\ Call[1] # "transfer"
  <2>1. pc' = [pc EXCEPT !.at = pc.at + 1]
    BY <1>6 DEF NextCall
  <2>2. pc'.at = pc.at + 1 /\ pc'.step = pc.step /\ pc'.hash = pc.hash
    BY <1>1, <2>1 DEF Pcs
  <2>3. Step' = Step
    BY <2>2 DEF Step
  <2>4. pc.at # (IF Step = "4-1-partition" THEN 3 ELSE 1)
    <3>1. Call = Calls(Step)[pc.at]
      BY DEF Call
    <3>2. QED
      BY <1>6, <2>3, <3>1, TransferCallOf
  <2>5. Transferred(Step)
    BY <1>1, <2>2, <2>3, <2>4 DEF Transferred
  <2>6. QED
    BY <1>3, <1>6, <2>2, <2>3, <2>5
<1>7. CASE StartTransfer /\ pc' = [pc EXCEPT !.asked = TRUE]
  <2>1. pc' = [pc EXCEPT !.asked = TRUE]
    BY <1>7
  <2>2. pc'.at = pc.at /\ pc'.step = pc.step /\ pc'.hash = pc.hash
    BY <1>1, <2>1 DEF Pcs
  <2>3. Step' = Step /\ InStep
    BY <1>7, <2>2 DEF Step, StartTransfer, Calling
  <2>4. Transferred(Step)
    BY <2>2, <2>3 DEF Transferred
  <2>5. QED
    BY <1>3, <2>2, <2>3, <2>4
<1>8. CASE /\ TransferEnds /\ command["worker"].ok
           /\ pc' = [pc EXCEPT !.at = @ + 1, !.asked = FALSE, !.hash = Saved(Step)]
  <2>1. pc'.step = pc.step /\ pc'.hash = Saved(Step)
    <3>1. pc' = [pc EXCEPT !.at = pc.at + 1, !.asked = FALSE, !.hash = Saved(Step)]
      BY <1>8
    <3>2. QED
      BY <1>1, <3>1 DEF Pcs
  <2>2. Step' = Step
    BY <2>1 DEF Step
  <2>3. pc.asked /\ command["worker"] # None /\ command["worker"].ok
    BY <1>8 DEF TransferEnds, Collect
  <2>4. records[Step] # None
    BY <1>1, <2>2, <2>3, ReportIsSaved
  <2>5. records'[Step] = records[Step]
    BY <1>2, <2>2, <2>4, RecordsStay
  <2>6. QED
    BY <2>1, <2>2, <2>4, <2>5 DEF Saved, Tx
<1>9. QED
  BY <1>4, <1>5, <1>6, <1>7, <1>8, PcChange

\* While the controller waits for a transfer, it is the one of its step.
LEMMA AskedStep ==
  ASSUME ExperimentInv, [Next]_vars, pc'.asked
  PROVE  /\ Calling' /\ Call'[1] = "transfer"
         /\ command'["worker"] # None => command'["worker"].id = Step'
<1>1. ControlInv /\ TransferInv /\ GuardInv /\ pc \in Pcs /\ "worker" \in Callers
  BY ControlType, CallersAssumption DEF ExperimentInv
<1>2. CASE pc' = pc
  <2>1. pc.asked /\ ~StartTransfer
    <3>1. pc.asked
      BY <1>2
    <3>2. StartTransfer => ~pc.asked
      BY DEF StartTransfer
    <3>3. QED
      BY <3>1, <3>2
  <2>2. Calling /\ Call[1] = "transfer" /\ (command["worker"] # None => command["worker"].id = Step)
    BY <1>1, <2>1 DEF TransferInv
  <2>3. Step' = Step /\ Calling' = Calling /\ Call' = Call
    BY <1>2, SameStep
  <2>4. command'["worker"] # None => Kept("worker")
    BY <1>1, <2>1, GuardChange DEF Started
  <2>5. QED
    BY <2>2, <2>3, <2>4 DEF Kept
<1>3. CASE InStep /\ NextCall /\ Calling /\ Call[1] # "transfer"
  <2>1. pc' = [pc EXCEPT !.at = pc.at + 1]
    BY <1>3 DEF NextCall
  <2>2. pc'.asked = pc.asked
    BY <1>1, <2>1 DEF Pcs
  <2>3. pc.asked
    BY <2>2
  <2>4. QED
    BY <1>1, <1>3, <2>3 DEF TransferInv
<1>4. CASE StartTransfer /\ pc' = [pc EXCEPT !.asked = TRUE]
  <2>1. Calling /\ Call[1] = "transfer" /\ Start("worker", Step, "transfer")
    BY <1>4 DEF StartTransfer
  <2>2. pc' = [pc EXCEPT !.asked = TRUE]
    BY <1>4
  <2>3. pc'.step = pc.step /\ pc'.mode = pc.mode /\ pc'.at = pc.at
    BY <1>1, <2>2 DEF Pcs
  <2>4. Step' = Step /\ Calling' = Calling /\ Call' = Call
    BY <2>3, SameStep
  <2>5. command'["worker"].id = Step
    BY <1>1, <2>1 DEF Start, SetCommand, GuardInv, GuardTypeOK
  <2>6. QED
    BY <2>1, <2>4, <2>5
<1>5. CASE /\ TransferEnds /\ command["worker"].ok
           /\ pc' = [pc EXCEPT !.at = @ + 1, !.asked = FALSE, !.hash = Saved(Step)]
  <2>1. pc' = [pc EXCEPT !.at = pc.at + 1, !.asked = FALSE, !.hash = Saved(Step)]
    BY <1>5
  <2>2. pc'.asked = FALSE
    BY <1>1, <2>1 DEF Pcs
  <2>3. QED
    BY <2>2
<1>6. QED
  BY <1>2, <1>3, <1>4, <1>5, PcChange

\* Transfers belong to their steps, and are compensated in the order of the steps.
LEMMA RequestsStep ==
  ASSUME ExperimentInv, [Next]_vars
  PROVE  /\ \A id \in Ids : records'[id] # None =>
              (records'[id].intent = "transfer" <=> id \in TransferSteps)
         /\ \A c \in Callers : command'[c] # None =>
              (command'[c].payload = "transfer" <=> command'[c].id \in TransferSteps)
         /\ \A p \in Before :
              /\ records'[p[2]] # None => SettledBefore(p[1], records[p[2]].sequence)'
              /\ \A c \in Callers : command'[c] # None /\ command'[c].id = p[2] =>
                   SettledBefore(p[1], command[c].sequence)'
<1>1. ControlInv /\ TransferInv /\ GuardInv
  BY DEF ExperimentInv
<1>2. \A c \in Callers : command'[c] # None => Kept(c) \/ Started(c)
  BY <1>1, GuardChange
<1>3. \A id \in Ids : records'[id] = records[id] \/ RecordedFrom(id)
  BY <1>1, GuardChange
<1>4. ASSUME NEW id \in Ids, records'[id] # None
      PROVE  records'[id].intent = "transfer" <=> id \in TransferSteps
  <2>1. CASE records'[id] = records[id]
    BY <1>1, <1>4, <2>1 DEF TransferInv
  <2>2. CASE RecordedFrom(id)
    <3>1. PICK c \in Callers :
            /\ command[c] # None /\ command[c].id = id
            /\ records'[id] = [intent |-> command[c].payload, sequence |-> command[c].sequence]
      BY <2>2 DEF RecordedFrom
    <3>2. records'[id].intent = command[c].payload
      BY <3>1
    <3>3. command[c].payload = "transfer" <=> id \in TransferSteps
      BY <1>1, <3>1 DEF TransferInv
    <3>4. QED
      BY <3>2, <3>3
  <2>3. QED
    BY <1>3, <2>1, <2>2
<1>5. ASSUME NEW c \in Callers, command'[c] # None
      PROVE  command'[c].payload = "transfer" <=> command'[c].id \in TransferSteps
  BY <1>1, <1>2, <1>5 DEF Kept, Started, TransferInv
<1>6. ASSUME NEW p \in Before, NEW n, SettledBefore(p[1], n)
      PROVE  records'[p[1]] # None /\ Saved(p[1])' \in settled' /\ records'[p[1]].sequence < n
  <2>1. p[1] \in Ids
    BY IdsAssumption DEF Before, TransferSteps
  <2>2. records[p[1]] # None /\ Saved(p[1]) \in settled /\ records[p[1]].sequence < n
    BY <1>6 DEF SettledBefore
  <2>3. QED
    BY <2>1, <2>2, RecordsStay
<1>7. ASSUME NEW p \in Before, records'[p[2]] # None
      PROVE  SettledBefore(p[1], records[p[2]].sequence)'
  <2>1. p[2] \in Ids
    BY IdsAssumption DEF Before, TransferSteps
  <2>2. CASE records'[p[2]] = records[p[2]]
    <3>1. SettledBefore(p[1], records[p[2]].sequence)
      BY <1>1, <1>7, <2>2 DEF TransferInv
    <3>2. QED
      BY <1>6, <2>2, <3>1 DEF SettledBefore
  <2>3. CASE RecordedFrom(p[2])
    <3>1. PICK c \in Callers :
            /\ command[c] # None /\ command[c].id = p[2]
            /\ records'[p[2]] = [intent |-> command[c].payload, sequence |-> command[c].sequence]
      BY <2>3 DEF RecordedFrom
    <3>2. SettledBefore(p[1], command[c].sequence)
      BY <1>1, <3>1 DEF TransferInv
    <3>3. records'[p[2]].sequence = command[c].sequence
      BY <3>1
    <3>4. QED
      BY <1>6, <3>2, <3>3 DEF SettledBefore
  <2>4. QED
    BY <1>3, <2>1, <2>2, <2>3
<1>8. ASSUME NEW p \in Before, NEW c \in Callers, command'[c] # None, command'[c].id = p[2]
      PROVE  SettledBefore(p[1], command[c].sequence)'
  <2>1. SettledBefore(p[1], command'[c].sequence)
    <3>1. CASE Kept(c)
      <4>1. SettledBefore(p[1], command[c].sequence)
        BY <1>1, <1>8, <3>1 DEF TransferInv, Kept
      <4>2. QED
        BY <3>1, <4>1 DEF Kept
    <3>2. CASE Started(c)
      <4>1. p[2] \in TransferSteps
        BY DEF Before, TransferSteps
      <4>2. StartTransfer /\ Step = p[2] /\ command'[c].sequence = sequence
        BY <1>8, <3>2, <4>1 DEF Started
      <4>3. QED
        BY <4>2, StartIsLate
    <3>3. QED
      BY <1>2, <1>8, <3>1, <3>2
  <2>2. QED
    BY <1>6, <2>1 DEF SettledBefore
<1>9. QED
  BY <1>4, <1>5, <1>7, <1>8

\* A transfer step ends with its transfer in memory.
LEMMA EndingFacts ==
  ASSUME ExperimentInv, FinishStep, Step \in TransferSteps
  PROVE  records[Step] # None /\ pc.hash = Saved(Step)
<1>1. ControlInv /\ TransferInv /\ InStep /\ pc.at > Len(Calls(Step)) /\ pc.at \in Nat
  BY ControlType DEF ExperimentInv, FinishStep, Ending
<1>2. Transferred(Step)
  <2> DEFINE k == IF Step = "4-1-partition" THEN 3 ELSE 1
  <2>1. k \in 1..Len(Calls(Step)) /\ Len(Calls(Step)) \in Nat
    BY TransferCallOf
  <2>2. pc.at > k
    BY <1>1, <2>1
  <2>3. QED
    BY <2>2 DEF Transferred
<1>3. QED
  BY <1>1, <1>2 DEF TransferInv

\* What the journal says of the transfers stays true.
LEMMA DoneStep ==
  ASSUME ExperimentInv, [Next]_vars
  PROVE  /\ \A s \in TransferSteps : journal'[s] = "done" => records'[s] # None
         /\ DoneIsTrue'
<1>1. ControlInv /\ TransferInv /\ GuardInv /\ DoneIsTrue
  BY DEF ExperimentInv, TransferInv
<1>2. TransferSteps \subseteq Ids /\ TransferSteps \subseteq Steps /\ "4-1-settlement" \in Steps
  BY IdsAssumption, WorkflowLength, NamedSteps DEF TransferSteps
<1>3. ASSUME NEW s \in TransferSteps, journal'[s] = "done"
      PROVE  records'[s] # None
  <2>1. records[s] # None
    BY <1>1, <1>2, <1>3, JournalChange, EndingFacts DEF TransferInv
  <2>2. QED
    BY <1>2, <2>1, RecordsStay
<1>4. ASSUME NEW s \in {"baseline-compensation", "post-restart-compensation"}, journal'[s] = "done"
      PROVE  records'[s] # None /\ Saved(s)' \in settled'
  <2>1. s \in TransferSteps /\ s \in Ids /\ s \in Steps
    BY <1>2 DEF TransferSteps
  <2>2. records[s] # None /\ Saved(s) \in settled
    <3>1. CASE journal[s] = "done"
      BY <1>1, <3>1 DEF DoneIsTrue
    <3>2. CASE journal[s] # "done"
      <4>1. FinishStep /\ Step = s
        BY <1>4, <2>1, <3>2, JournalChange
      <4>2. records[s] # None /\ pc.hash = Saved(s)
        BY <2>1, <4>1, EndingFacts
      <4>3. pc.hash \in settled
        <5>1. WaitsFor(s)
          BY <4>1 DEF FinishStep
        <5>2. SettlementOf(pc.hash)
          <6>1. CASE s = "baseline-compensation"
            BY <5>1, <6>1, Zenon DEF WaitsFor
          <6>2. CASE s = "post-restart-compensation"
            BY <5>1, <6>2, Zenon DEF WaitsFor
          <6>3. QED
            BY <6>1, <6>2
        <5>3. QED
          BY <5>2 DEF SettlementOf
      <4>4. QED
        BY <4>2, <4>3
    <3>3. QED
      BY <3>1, <3>2
  <2>3. QED
    BY <2>1, <2>2, RecordsStay
<1>5. ASSUME journal'["4-1-partition"] = "done"
      PROVE  result' = Saved("4-1-partition")'
  <2>1. "4-1-partition" \in TransferSteps /\ "4-1-partition" \in Ids /\ "4-1-partition" \in Steps
    BY <1>2 DEF TransferSteps
  <2>2. records["4-1-partition"] # None /\ result' = Saved("4-1-partition")
    <3>1. CASE journal["4-1-partition"] = "done"
      <4>1. result' = result
        BY <3>1, JournalChange
      <4>2. QED
        BY <1>1, <2>1, <3>1, <4>1 DEF DoneIsTrue, TransferInv
    <3>2. CASE journal["4-1-partition"] # "done"
      <4>1. FinishStep /\ Step = "4-1-partition"
        BY <1>5, <2>1, <3>2, JournalChange
      <4>2. result' = pc.hash
        BY <4>1 DEF FinishStep
      <4>3. QED
        BY <2>1, <4>1, <4>2, EndingFacts
    <3>3. QED
      BY <3>1, <3>2
  <2>3. QED
    BY <2>1, <2>2, RecordsStay
<1>6. ASSUME journal'["4-1-settlement"] = "done"
      PROVE  result' \in settled'
  <2>1. result' \in settled
    <3>1. CASE journal["4-1-settlement"] = "done"
      <4>1. journal["4-1-partition"] = "done"
        <5>1. journal[Workflow[9]] # "absent" /\ 9 \in 1..18 /\ 7 \in 1..18 /\ 7 < 9
          BY <3>1, NamedSteps
        <5>2. journal[Workflow[7]] = "done"
          BY <1>1, <5>1, WorkflowLength DEF ControlInv
        <5>3. QED
          BY <5>2, NamedSteps
      <4>2. result' = result
        BY <4>1, JournalChange
      <4>3. QED
        BY <1>1, <3>1, <4>2 DEF DoneIsTrue
    <3>2. CASE journal["4-1-settlement"] # "done"
      <4>1. FinishStep /\ Step = "4-1-settlement"
        BY <1>2, <1>6, <3>2, JournalChange
      <4>2. result' = result /\ WaitsFor("4-1-settlement")
        BY <4>1 DEF FinishStep
      <4>3. SettlementOf(result)
        BY <4>2, Zenon DEF WaitsFor
      <4>4. QED
        BY <4>2, <4>3 DEF SettlementOf
    <3>3. QED
      BY <3>1, <3>2
  <2>2. QED
    BY <2>1, RecordsStay
<1>7. ASSUME NEW s \in TransferSteps, NEW t \in TransferSteps, s # t,
             journal'[s] = "done", journal'[t] = "done"
      PROVE  Saved(s)' # Saved(t)'
  <2>1. records'[s] # None /\ records'[t] # None
    BY <1>3, <1>7
  <2>2. <<s, t>> \in Before \/ <<t, s>> \in Before
    BY <1>7 DEF Before, TransferSteps
  <2>3. /\ <<s, t>> \in Before => SettledBefore(s, records[t].sequence)'
        /\ <<t, s>> \in Before => SettledBefore(t, records[s].sequence)'
    BY <2>1, RequestsStep
  <2>4. records'[s].sequence # records'[t].sequence
    <3>1. GuardInv'
      BY <1>1, GuardStep
    <3>2. records'[s] \in Attempts /\ records'[t] \in Attempts
      BY <1>2, <2>1, <3>1 DEF GuardInv, GuardTypeOK, Attempts
    <3>3. records'[s].sequence \in Nat /\ records'[t].sequence \in Nat
      BY <3>2 DEF Attempts
    <3>4. records'[s].sequence < records'[t].sequence \/ records'[t].sequence < records'[s].sequence
      BY <2>2, <2>3 DEF SettledBefore
    <3>5. QED
      BY <3>3, <3>4
  <2>5. QED
    BY <2>4 DEF Saved, Tx
<1>8. DoneIsTrue'
  BY <1>4, <1>5, <1>6, <1>7 DEF DoneIsTrue
<1>9. QED
  BY <1>3, <1>8

\* No transfer has been asked for at first.
LEMMA InitTransfer == Init => TransferInv
<1> SUFFICES ASSUME Init PROVE TransferInv
  OBVIOUS
<1>1. /\ \A id \in Ids : records[id] = None
      /\ \A c \in Callers : command[c] = None
      /\ \A s \in Steps : journal[s] = "absent"
      /\ settled = {} /\ pc.asked = FALSE /\ pc.at = 0
  BY DEF Init, GuardInit, Down
<1>2. ~InStep
  BY <1>1 DEF InStep
<1>3. TransferSteps \subseteq Ids /\ TransferSteps \subseteq Steps /\ "4-1-settlement" \in Steps
  BY IdsAssumption, WorkflowLength, NamedSteps DEF TransferSteps
<1>4. \A p \in Before : p[2] \in Ids
  BY <1>3 DEF Before, TransferSteps
<1>5. \A s \in TransferSteps : journal[s] # "done"
  BY <1>1, <1>3
<1>6. DoneIsTrue
  BY <1>1, <1>3, <1>5 DEF DoneIsTrue, TransferSteps
<1>7. QED
  BY <1>1, <1>2, <1>4, <1>5, <1>6 DEF TransferInv

\* Every step keeps the invariant of the transfers.
LEMMA TransferStep ==
  ASSUME ExperimentInv, [Next]_vars
  PROVE  TransferInv'
<1>1. settled' \subseteq committed'
  BY RecordsStay, GuardChange DEF ExperimentInv, TransferInv
<1>2. InStep' /\ Step' \in TransferSteps /\ Transferred(Step)' =>
        records'[Step'] # None /\ pc'.hash = Saved(Step)'
  BY TransferredStep
<1>3. pc'.asked => /\ Calling' /\ Call'[1] = "transfer"
                   /\ command'["worker"] # None => command'["worker"].id = Step'
  BY AskedStep
<1>4. QED
  BY <1>1, <1>2, <1>3, RequestsStep, DoneStep DEF TransferInv

-----------------------------------------------------------------------------
(***************************************************************************)
(* The hosts                                                               *)
(***************************************************************************)

\* The step under way lies between what is done and what is absent.
LEMMA StepBetween ==
  ASSUME ControlInv, InStep, NEW a \in 1..18, NEW b \in 1..18,
         journal[Workflow[a]] = "done", journal[Workflow[b]] = "absent"
  PROVE  a < pc.step /\ pc.step < b
<1>1. pc.step \in 1..18 /\ journal[Workflow[pc.step]] = "pending" /\ pc.mode = "execute"
  BY InStepFacts
<1>2. ~(pc.step < a)
  BY <1>1, WorkflowLength DEF ControlInv
<1>3. ~(b < pc.step)
  BY <1>1, WorkflowLength DEF ControlInv
<1>4. pc.step # a /\ pc.step # b
  BY <1>1
<1>5. QED
  BY <1>1, <1>2, <1>3, <1>4

\* How the hosts change while the run is not given up.
LEMMA HostChange ==
  ASSUME ExperimentInv, [Next]_vars, ~aborted'
  PROVE  \/ UNCHANGED hostVars /\ (pc' = pc \/ ~InStep' \/ pc'.at = 1)
         \/ /\ UNCHANGED hostVars /\ Calling /\ pc'.step = pc.step
            /\ Call[1] \in {"pause", "states", "transfer"}
         \/ Remote /\ Effect(Call[1], Call[2]) /\ (~InStep' \/ NextCall)
         \/ ~InStep' /\ journal' = journal /\ \A s \in Steps : journal[s] = "done"
<1>1. ControlInv /\ TransferInv /\ pc \in Pcs
  BY ControlType DEF ExperimentInv
<1>2. CASE Aside
  BY <1>2, AsideFacts DEF controlVars
<1>3. CASE Work
  <2>1. CASE Interrupt
    <3>1. ~InStep'
      BY <2>1 DEF Interrupt, Down, InStep, Executing
    <3>2. UNCHANGED hostVars \/ (Remote /\ Effect(Call[1], Call[2]))
      BY <1>3, WorkFacts
    <3>3. QED
      BY <3>1, <3>2
  <2>2. CASE ~Interrupt
    <3>1. CASE RemoteCall
      BY <3>1 DEF RemoteCall
    <3>2. CASE Pause \/ PauseWithoutBlock \/ NoteStates
      <4>1. UNCHANGED hostVars /\ Calling /\ Call[1] \in {"pause", "states"} /\ NextCall
        BY <2>2, <3>2 DEF Pause, PauseWithoutBlock, NoteStates
      <4>2. pc'.step = pc.step
        BY <1>1, <4>1 DEF NextCall, Pcs
      <4>3. QED
        BY <4>1, <4>2
    <3>3. CASE StartTransfer
      <4>1. UNCHANGED hostVars /\ Calling /\ Call[1] = "transfer" /\ pc' = [pc EXCEPT !.asked = TRUE]
        BY <3>3 DEF StartTransfer
      <4>2. pc'.step = pc.step
        BY <1>1, <4>1 DEF Pcs
      <4>3. QED
        BY <4>1, <4>2
    <3>4. CASE TransferEnds
      <4>1. UNCHANGED hostVars /\ Calling /\ pc.asked
            /\ pc' = [pc EXCEPT !.at = @ + 1, !.asked = FALSE, !.hash = Saved(Step)]
        BY <2>2, <3>4 DEF TransferEnds, ReportedHash
      <4>2. Call[1] = "transfer"
        BY <1>1, <4>1 DEF TransferInv
      <4>3. pc' = [pc EXCEPT !.at = pc.at + 1, !.asked = FALSE, !.hash = Saved(Step)]
        BY <4>1
      <4>4. pc'.step = pc.step
        BY <1>1, <4>3 DEF Pcs
      <4>5. QED
        BY <4>1, <4>2, <4>4
    <3>5. QED
      BY <1>3, <2>2, <3>1, <3>2, <3>3, <3>4
      DEF Work, TransferRefused, StepFails, WaitIsVain, WorkerLost,
          RemoteCallFails, TransferFails, WaitTimesOut
  <2>3. QED
    BY <2>1, <2>2
<1>4. CASE CleanHost \/ CleanHostFails
  <2>1. Cleaning /\ UNCHANGED <<journal, aborted>>
    BY <1>4 DEF CleanHost, CleanHostFails
  <2>2. pc.mode = "execute"
    <3>1. pc.mode # "down" /\ pc.mode \in Modes
      BY <1>1, <2>1, CleaningFacts, ControlType
    <3>2. pc.mode # "cleanup"
      BY <1>1, <2>1 DEF ControlInv
    <3>3. QED
      BY <3>1, <3>2 DEF Modes
  <2>3. pc.step = 19 /\ \A s \in Steps : journal[s] = "done"
    BY <1>1, <2>1, <2>2, CleaningFacts
  <2>4. PICK a, b : pc' = [pc EXCEPT !.at = a, !.errors = b]
    BY <1>4 DEF CleanHost, CleanHostFails
  <2>5. pc'.step = 19
    BY <1>1, <2>3, <2>4 DEF Pcs
  <2>6. ~InStep'
    BY <2>5, WorkflowLength DEF InStep, Executing
  <2>7. QED
    BY <2>1, <2>3, <2>6
<1>5. CASE Between /\ ~CleanHost /\ ~CleanHostFails
  <2>1. UNCHANGED hostVars
    BY <1>5 DEF Between, BeginStep, FinishStep, BeginCleanup, FinishCleanup, KillController,
                Resume, ResumeCleanup
  <2>2. pc' = pc \/ ~InStep' \/ pc'.at = 1
    <3>1. ~(InStep /\ NextCall /\ Calling /\ Call[1] # "transfer") \/ pc'.at = 1 \/ ~InStep'
      <4>1. CASE BeginStep
        BY <4>1 DEF BeginStep, InStep
      <4>2. CASE FinishStep
        <5>1. pc' = [pc EXCEPT !.step = @ + 1, !.at = 0]
          BY <4>2 DEF FinishStep
        <5>2. pc'.at = 0
          BY <1>1, <5>1 DEF Pcs
        <5>3. QED
          BY <5>2 DEF InStep
      <4>3. CASE BeginCleanup
        BY <4>3 DEF BeginCleanup, InStep
      <4>4. CASE FinishCleanup
        BY <1>1, <4>4, CleaningFacts DEF FinishCleanup
      <4>5. CASE KillController
        BY <4>5 DEF KillController, Down, InStep, Executing
      <4>6. CASE Resume \/ ResumeCleanup
        BY <4>6 DEF Resume, ResumeCleanup, InStep, Executing
      <4>7. QED
        BY <1>5, <4>1, <4>2, <4>3, <4>4, <4>5, <4>6 DEF Between
    <3>2. (~StartTransfer /\ ~TransferEnds) \/ pc' = pc \/ ~InStep' \/ pc'.at = 1
      <4>1. CASE BeginStep
        BY <4>1 DEF BeginStep, StartTransfer, TransferEnds, Calling, InStep
      <4>2. CASE FinishStep
        <5>1. pc' = [pc EXCEPT !.step = @ + 1, !.at = 0]
          BY <4>2 DEF FinishStep
        <5>2. pc'.at = 0
          BY <1>1, <5>1 DEF Pcs
        <5>3. QED
          BY <5>2 DEF InStep
      <4>3. CASE BeginCleanup
        BY <4>3 DEF BeginCleanup, StartTransfer, TransferEnds, Calling, InStep
      <4>4. CASE FinishCleanup
        BY <1>1, <4>4, CleaningFacts DEF FinishCleanup, StartTransfer, TransferEnds, Calling
      <4>5. CASE KillController
        BY <4>5 DEF KillController, Down, InStep, Executing
      <4>6. CASE Resume \/ ResumeCleanup
        BY <4>6 DEF Resume, ResumeCleanup, StartTransfer, TransferEnds, Calling, InStep, Executing
      <4>7. QED
        BY <1>5, <4>1, <4>2, <4>3, <4>4, <4>5, <4>6 DEF Between
    <3>3. QED
      BY <3>1, <3>2, PcChange
  <2>3. QED
    BY <2>1, <2>2
<1>6. QED
  BY <1>2, <1>3, <1>4, <1>5, NextCases DEF Between

\* A loop over the hosts: its state stays, or starts anew, or one host is done.
LEMMA LoopStep ==
  ASSUME ExperimentInv, [Next]_vars, ~aborted', NEW s, NEW call,
         <<s, call>> \in {<<"start-five-validators", "start-node">>,
                          <<"4-1-apply", "partition-4">>, <<"3-2-apply", "partition-3">>},
         InStep', Step' = s
  PROVE  \/ UNCHANGED hostVars /\ InStep /\ Step = s /\ pc' = pc
         \/ UNCHANGED hostVars /\ pc'.at = 1
         \/ /\ InStep /\ Step = s /\ pc.at \in Hosts /\ pc'.at = pc.at + 1
            /\ Effect(call, pc.at)
<1>1. ControlInv /\ pc \in Pcs
  BY ControlType DEF ExperimentInv
<1>2. Len(Calls(s)) = 5 /\ \A i \in 1..5 : Calls(s)[i] = <<call, i>>
  BY LoopCalls
<1>3. ASSUME Calling, pc'.step = pc.step
      PROVE  InStep /\ Step = s /\ pc.at \in Hosts /\ Call = <<call, pc.at>>
  <2>1. Step = s
    BY <1>3 DEF Step
  <2>2. InStep /\ pc.at \in 1..Len(Calls(Step)) /\ Call = Calls(Step)[pc.at]
    BY <1>1, <1>3, CallingFacts
  <2>3. pc.at \in 1..5 /\ Call = Calls(s)[pc.at]
    BY <1>2, <2>1, <2>2
  <2>4. QED
    BY <1>2, <2>1, <2>2, <2>3 DEF Hosts
<1>4. CASE UNCHANGED hostVars /\ (pc' = pc \/ ~InStep' \/ pc'.at = 1)
  <2>1. CASE pc' = pc
    BY <1>4, <2>1, SameStep
  <2>2. QED
    BY <1>4, <2>1
<1>5. CASE /\ UNCHANGED hostVars /\ Calling /\ pc'.step = pc.step
           /\ Call[1] \in {"pause", "states", "transfer"}
  <2>1. Call[1] = call
    BY <1>3, <1>5
  <2>2. QED
    BY <1>5, <2>1
<1>6. CASE Remote /\ Effect(Call[1], Call[2]) /\ (~InStep' \/ NextCall)
  <2>1. Calling /\ NextCall
    BY <1>6 DEF Remote
  <2>2. pc'.step = pc.step /\ pc'.at = pc.at + 1
    BY <1>1, <2>1 DEF NextCall, Pcs
  <2>3. InStep /\ Step = s /\ pc.at \in Hosts /\ Call = <<call, pc.at>>
    BY <1>3, <2>1, <2>2
  <2>4. Effect(call, pc.at)
    BY <1>6, <2>3
  <2>5. QED
    BY <2>2, <2>3, <2>4
<1>7. QED
  BY <1>4, <1>5, <1>6, HostChange

\* The loops of the three steps that the proofs speak of.
LEMMA LoopsStep ==
  ASSUME ExperimentInv, [Next]_vars, ~aborted, ~aborted', InStep'
  PROVE  \A h \in Hosts : h < pc'.at =>
           /\ Step' = "start-five-validators" => h \in nodes'
           /\ Step' = "4-1-apply" => wall'[h] = CutOff(4, h)
           /\ Step' = "3-2-apply" => wall'[h] = CutOff(3, h)
<1>1. ControlInv /\ HostsInv /\ wall \in [Hosts -> SUBSET Hosts] /\ pc.at \in Nat
  BY ControlType DEF ExperimentInv, ControlInv
<1>2. SUFFICES ASSUME NEW h \in Hosts, h < pc'.at
               PROVE  /\ Step' = "start-five-validators" => h \in nodes'
                      /\ Step' = "4-1-apply" => wall'[h] = CutOff(4, h)
                      /\ Step' = "3-2-apply" => wall'[h] = CutOff(3, h)
  OBVIOUS
<1>3. pc'.at # 1
  BY <1>2 DEF Hosts
<1>4. CASE Step' = "start-five-validators"
  <2>1. CASE UNCHANGED hostVars /\ InStep /\ Step = "start-five-validators" /\ pc' = pc
    BY <1>1, <1>2, <1>4, <2>1 DEF HostsInv, hostVars
  <2>2. CASE /\ InStep /\ Step = "start-five-validators" /\ pc.at \in Hosts /\ pc'.at = pc.at + 1
             /\ Effect("start-node", pc.at)
    <3>1. nodes \subseteq nodes' /\ pc.at \in nodes'
      BY <1>1, <2>2, EffectFacts
    <3>2. h = pc.at \/ h < pc.at
      BY <1>1, <1>2, <2>2 DEF Hosts
    <3>3. QED
      BY <1>1, <1>4, <2>2, <3>1, <3>2 DEF HostsInv
  <2>3. QED
    BY <1>3, <1>4, <2>1, <2>2, LoopStep
<1>5. CASE Step' = "4-1-apply"
  <2>1. CASE UNCHANGED hostVars /\ InStep /\ Step = "4-1-apply" /\ pc' = pc
    BY <1>1, <1>2, <1>5, <2>1 DEF HostsInv, hostVars
  <2>2. CASE /\ InStep /\ Step = "4-1-apply" /\ pc.at \in Hosts /\ pc'.at = pc.at + 1
             /\ Effect("partition-4", pc.at)
    <3>1. wall' = [wall EXCEPT ![pc.at] = CutOff(4, pc.at)]
      BY <1>1, <2>2, EffectFacts
    <3>2. h = pc.at \/ h < pc.at
      BY <1>1, <1>2, <2>2 DEF Hosts
    <3>3. h # pc.at => wall[h] = CutOff(4, h)
      BY <1>1, <2>2, <3>2 DEF HostsInv
    <3>4. wall'[h] = CutOff(4, h)
      BY <1>1, <3>1, <3>3
    <3>5. QED
      BY <1>5, <3>4
  <2>3. QED
    BY <1>3, <1>5, <2>1, <2>2, LoopStep
<1>6. CASE Step' = "3-2-apply"
  <2>1. CASE UNCHANGED hostVars /\ InStep /\ Step = "3-2-apply" /\ pc' = pc
    BY <1>1, <1>2, <1>6, <2>1 DEF HostsInv, hostVars
  <2>2. CASE /\ InStep /\ Step = "3-2-apply" /\ pc.at \in Hosts /\ pc'.at = pc.at + 1
             /\ Effect("partition-3", pc.at)
    <3>1. wall' = [wall EXCEPT ![pc.at] = CutOff(3, pc.at)]
      BY <1>1, <2>2, EffectFacts
    <3>2. h = pc.at \/ h < pc.at
      BY <1>1, <1>2, <2>2 DEF Hosts
    <3>3. h # pc.at => wall[h] = CutOff(3, h)
      BY <1>1, <2>2, <3>2 DEF HostsInv
    <3>4. wall'[h] = CutOff(3, h)
      BY <1>1, <3>1, <3>3
    <3>5. QED
      BY <1>6, <3>4
  <2>3. QED
    BY <1>3, <1>6, <2>1, <2>2, LoopStep
<1>7. QED
  BY <1>4, <1>5, <1>6

\* A loop that is finished has called every host.
LEMMA LoopEnds ==
  ASSUME ExperimentInv, FinishStep,
         Step \in {"start-five-validators", "4-1-apply", "3-2-apply"}
  PROVE  InStep /\ UNCHANGED hostVars /\ \A h \in Hosts : h < pc.at
<1>1. ControlInv /\ InStep /\ UNCHANGED hostVars /\ pc.at > Len(Calls(Step)) /\ pc.at \in Nat
  BY ControlType DEF ExperimentInv, FinishStep, Ending
<1>2. Len(Calls(Step)) = 5
  BY LoopCalls
<1>3. QED
  BY <1>1, <1>2 DEF Hosts

\* What a step has done to the hosts stays until another step undoes it.
LEMMA HostsHold ==
  ASSUME ExperimentInv, [Next]_vars, ~aborted, ~aborted'
  PROVE  /\ journal'[Workflow[3]] = "done" /\ journal'[Workflow[14]] = "absent" => nodes' = Hosts
         /\ journal'[Workflow[6]] = "done" /\ journal'[Workflow[8]] = "absent" =>
              \A h \in Hosts : wall'[h] = CutOff(4, h)
         /\ journal'[Workflow[10]] = "done" /\ journal'[Workflow[12]] = "absent" =>
              \A h \in Hosts : wall'[h] = CutOff(3, h)
<1>1. ControlInv /\ HostsInv /\ wall \in [Hosts -> SUBSET Hosts] /\ nodes \subseteq Hosts
  BY DEF ExperimentInv, ControlInv
<1>2. \A n \in 1..18 : Workflow[n] \in Steps
  BY WorkflowLength
<1>3. ASSUME NEW n \in 1..18, journal[Workflow[n]] = "absent"
      PROVE  UNCHANGED hostVars \/ (Remote /\ InStep /\ Effect(Call[1], Call[2]))
  BY <1>2, <1>3, HostChange DEF Remote, Calling
<1>4. ASSUME Remote PROVE InStep /\ pc.step \in 1..18 /\ Step = Workflow[pc.step]
  BY <1>1, <1>4, InStepFacts DEF Remote, Calling
<1>5. ASSUME journal'[Workflow[3]] = "done", journal'[Workflow[14]] = "absent"
      PROVE  nodes' = Hosts
  <2>1. journal[Workflow[14]] = "absent"
    BY <1>2, <1>5, JournalChange
  <2>2. CASE journal[Workflow[3]] # "done"
    <3>1. FinishStep /\ Step = "start-five-validators"
      BY <1>2, <1>5, <2>2, JournalChange, NamedSteps
    <3>2. InStep /\ UNCHANGED hostVars /\ \A h \in Hosts : h < pc.at
      BY <3>1, LoopEnds
    <3>3. \A h \in Hosts : h \in nodes
      BY <1>1, <3>1, <3>2 DEF HostsInv
    <3>4. QED
      BY <1>1, <3>2, <3>3 DEF hostVars
  <2>3. CASE journal[Workflow[3]] = "done"
    <3>1. nodes = Hosts
      BY <1>1, <2>1, <2>3, NamedSteps DEF HostsInv
    <3>2. CASE UNCHANGED hostVars
      BY <3>1, <3>2 DEF hostVars
    <3>3. CASE Remote /\ Effect(Call[1], Call[2])
      <4>1. pc.step < 14
        BY <1>1, <1>4, <2>1, <2>3, <3>3, StepBetween
      <4>2. Call[1] # "stop-node" /\ Call[1] # "cleanup" /\ Call[2] \in Hosts
        BY <1>1, <1>4, <3>3, <4>1, RemoteFacts, StepNumber
      <4>3. nodes \subseteq nodes' /\ nodes' \subseteq Hosts
        BY <1>1, <3>3, <4>2, EffectFacts
      <4>4. QED
        BY <3>1, <4>3
    <3>4. QED
      BY <1>3, <2>1, <3>2, <3>3
  <2>4. QED
    BY <2>2, <2>3
<1>6. ASSUME journal'[Workflow[6]] = "done", journal'[Workflow[8]] = "absent"
      PROVE  \A h \in Hosts : wall'[h] = CutOff(4, h)
  <2>1. journal[Workflow[8]] = "absent"
    BY <1>2, <1>6, JournalChange
  <2>2. CASE journal[Workflow[6]] # "done"
    <3>1. FinishStep /\ Step = "4-1-apply"
      BY <1>2, <1>6, <2>2, JournalChange, NamedSteps
    <3>2. InStep /\ UNCHANGED hostVars /\ \A h \in Hosts : h < pc.at
      BY <3>1, LoopEnds
    <3>3. \A h \in Hosts : wall[h] = CutOff(4, h)
      BY <1>1, <3>1, <3>2 DEF HostsInv
    <3>4. QED
      BY <3>2, <3>3 DEF hostVars
  <2>3. CASE journal[Workflow[6]] = "done"
    <3>1. \A h \in Hosts : wall[h] = CutOff(4, h)
      BY <1>1, <2>1, <2>3, NamedSteps DEF HostsInv
    <3>2. CASE UNCHANGED hostVars
      BY <3>1, <3>2 DEF hostVars
    <3>3. CASE Remote /\ Effect(Call[1], Call[2])
      <4>1. 6 < pc.step /\ pc.step < 8
        BY <1>1, <1>4, <2>1, <2>3, <3>3, StepBetween
      <4>2. Step \notin {"4-1-apply", "3-2-apply", "4-1-heal", "3-2-heal"}
        BY <1>4, <3>3, <4>1, StepNumber
      <4>3. Call[1] \notin {"partition-4", "partition-3", "heal", "cleanup"} /\ Call[2] \in Hosts
        BY <1>1, <3>3, <4>2, RemoteFacts
      <4>4. wall' = wall
        BY <1>1, <3>3, <4>3, EffectFacts
      <4>5. QED
        BY <3>1, <4>4
    <3>4. QED
      BY <1>3, <2>1, <3>2, <3>3
  <2>4. QED
    BY <2>2, <2>3
<1>7. ASSUME journal'[Workflow[10]] = "done", journal'[Workflow[12]] = "absent"
      PROVE  \A h \in Hosts : wall'[h] = CutOff(3, h)
  <2>1. journal[Workflow[12]] = "absent"
    BY <1>2, <1>7, JournalChange
  <2>2. CASE journal[Workflow[10]] # "done"
    <3>1. FinishStep /\ Step = "3-2-apply"
      BY <1>2, <1>7, <2>2, JournalChange, NamedSteps
    <3>2. InStep /\ UNCHANGED hostVars /\ \A h \in Hosts : h < pc.at
      BY <3>1, LoopEnds
    <3>3. \A h \in Hosts : wall[h] = CutOff(3, h)
      BY <1>1, <3>1, <3>2 DEF HostsInv
    <3>4. QED
      BY <3>2, <3>3 DEF hostVars
  <2>3. CASE journal[Workflow[10]] = "done"
    <3>1. \A h \in Hosts : wall[h] = CutOff(3, h)
      BY <1>1, <2>1, <2>3, NamedSteps DEF HostsInv
    <3>2. CASE UNCHANGED hostVars
      BY <3>1, <3>2 DEF hostVars
    <3>3. CASE Remote /\ Effect(Call[1], Call[2])
      <4>1. 10 < pc.step /\ pc.step < 12
        BY <1>1, <1>4, <2>1, <2>3, <3>3, StepBetween
      <4>2. Step \notin {"4-1-apply", "3-2-apply", "4-1-heal", "3-2-heal"}
        BY <1>4, <3>3, <4>1, StepNumber
      <4>3. Call[1] \notin {"partition-4", "partition-3", "heal", "cleanup"} /\ Call[2] \in Hosts
        BY <1>1, <3>3, <4>2, RemoteFacts
      <4>4. wall' = wall
        BY <1>1, <3>3, <4>3, EffectFacts
      <4>5. QED
        BY <3>1, <4>4
    <3>4. QED
      BY <1>3, <2>1, <3>2, <3>3
  <2>4. QED
    BY <2>2, <2>3
<1>8. QED
  BY <1>5, <1>6, <1>7

\* In the 4:1 split the fifth host reaches no other one.
LEMMA FifthIsAlone ==
  ASSUME \A h \in Hosts : wall[h] = CutOff(4, h), nodes \subseteq Hosts
  PROVE  ~CanSend(5)
<1>1. Reachable(5) \subseteq {5}
  <2>1. wall[5] = 1..4
    BY DEF CutOff, Hosts
  <2>2. \A g \in Hosts : g = 5 \/ g \in 1..4
    BY DEF Hosts
  <2>3. QED
    BY <2>1, <2>2 DEF Reachable, Reaches
<1>2. IsFiniteSet({5}) /\ Cardinality({5}) = 1
  BY FS_Singleton
<1>3. Cardinality(Reachable(5)) \in Nat /\ Cardinality(Reachable(5)) <= 1
  BY <1>1, <1>2, FS_Subset, FS_CardinalityType
<1>4. QED
  BY <1>3 DEF CanSend, Agreement

\* The transfer of the 4:1 split is asked for only in that split.
LEMMA PartitionRequests ==
  ASSUME ExperimentInv, [Next]_vars, ~aborted
  PROVE  /\ records'["4-1-partition"] # None => journal'["4-1-apply"] = "done"
         /\ \A c \in Callers : command'[c] # None /\ command'[c].id = "4-1-partition" =>
              journal'["4-1-apply"] = "done"
<1>1. ControlInv /\ GuardInv /\ HostsInv
  BY DEF ExperimentInv
<1>2. "4-1-apply" \in Steps /\ "4-1-partition" \in Ids
  BY WorkflowLength, NamedSteps, IdsAssumption DEF TransferSteps
<1>3. journal["4-1-apply"] = "done" => journal'["4-1-apply"] = "done"
  BY <1>2, JournalChange
<1>4. ASSUME records'["4-1-partition"] # None
      PROVE  journal["4-1-apply"] = "done"
  <2>1. records'["4-1-partition"] = records["4-1-partition"] \/ RecordedFrom("4-1-partition")
    BY <1>1, <1>2, GuardChange
  <2>2. CASE records["4-1-partition"] # None
    BY <1>1, <2>2 DEF HostsInv
  <2>3. CASE RecordedFrom("4-1-partition")
    BY <1>1, <2>3 DEF RecordedFrom, HostsInv
  <2>4. QED
    BY <1>4, <2>1, <2>2, <2>3
<1>5. ASSUME NEW c \in Callers, command'[c] # None, command'[c].id = "4-1-partition"
      PROVE  journal["4-1-apply"] = "done"
  <2>1. CASE Kept(c)
    <3>1. command[c] # None /\ command[c].id = "4-1-partition"
      BY <1>5, <2>1 DEF Kept
    <3>2. QED
      BY <1>1, <3>1 DEF HostsInv
  <2>2. CASE Started(c)
    <3>1. StartTransfer /\ Step = "4-1-partition"
      BY <1>5, <2>2 DEF Started, TransferSteps
    <3>2. InStep /\ pc.mode = "execute" /\ pc.step \in 1..18 /\ Step = Workflow[pc.step]
      BY <1>1, <3>1, InStepFacts DEF StartTransfer, Calling
    <3>3. pc.step = 7
      BY <3>1, <3>2, StepNumber
    <3>4. 6 \in DOMAIN Workflow /\ 6 < pc.step
      BY <3>3, WorkflowLength
    <3>5. journal[Workflow[6]] = "done"
      BY <1>1, <3>2, <3>4 DEF ControlInv
    <3>6. QED
      BY <3>5, NamedSteps
  <2>3. QED
    BY <1>1, <1>5, <2>1, <2>2, GuardChange
<1>6. QED
  BY <1>3, <1>4, <1>5

\* It is not compensated before the split is healed.
LEMMA PartitionStep ==
  ASSUME ExperimentInv, [Next]_vars, ~aborted,
         journal'["4-1-heal"] = "absent", records'["4-1-partition"] # None
  PROVE  Saved("4-1-partition")' \notin settled'
<1> DEFINE id == "4-1-partition"
<1>1. ControlInv /\ GuardInv /\ TransferInv /\ HostsInv /\ nodes \subseteq Hosts
  BY DEF ExperimentInv, ControlInv
<1>2. id \in Ids /\ id \in TransferSteps /\ "4-1-heal" \in Steps
  BY WorkflowLength, NamedSteps, IdsAssumption DEF TransferSteps
<1>3. journal["4-1-heal"] = "absent"
  BY <1>2, JournalChange
<1>4. records'[id] = records[id] \/ RecordedFrom(id)
  BY <1>1, <1>2, GuardChange
<1>5. CASE records[id] # None
  <2>1. Saved(id)' = Saved(id) /\ Saved(id) \notin settled
    BY <1>1, <1>2, <1>3, <1>5, RecordsStay DEF HostsInv
  <2>2. \A h \in Hosts : wall[h] = CutOff(4, h)
    BY <1>1, <1>3, <1>5 DEF HostsInv
  <2>3. ~CanSend(5)
    BY <1>1, <2>2, FifthIsAlone
  <2>4. settled' = settled
    <3>1. 5 \in Hosts
      BY DEF Hosts
    <3>2. \A tx \in committed : ~Settle(tx)
      BY <2>3, <3>1 DEF Settle
    <3>3. QED
      BY <3>2, RecordsStay
  <2>5. QED
    BY <2>1, <2>4
<1>6. CASE RecordedFrom(id)
  <2>1. records[id] = None /\ records'[id] # None
    BY <1>6 DEF RecordedFrom
  <2>2. settled' = settled
    BY <2>1, RecordsStay DEF Settle, guardVars
  <2>3. PICK c \in Callers :
          /\ command[c] # None /\ command[c].id = id
          /\ records'[id] = [intent |-> command[c].payload, sequence |-> command[c].sequence]
    BY <1>6 DEF RecordedFrom
  <2>4. command[c].payload = "transfer"
    BY <1>1, <1>2, <2>3 DEF TransferInv
  <2>5. Saved(id)' = Tx("transfer", command[c].sequence)
    BY <2>3, <2>4 DEF Saved, Tx
  <2> DEFINE tx == Tx("transfer", command[c].sequence)
  <2>6. SUFFICES ASSUME tx \in settled PROVE FALSE
    BY <2>2, <2>5
  <2>7. tx \in committed /\ tx.payload \notin Plain
    BY <1>1, <2>6, IdsAssumption DEF TransferInv, Tx
  <2>8. PICK i \in Ids : records[i] # None /\ tx = Saved(i)
    BY <1>1, <2>7 DEF GuardInv, SentIsSaved
  <2>9. records[i].intent = "transfer" /\ records[i].sequence = command[c].sequence
    BY <2>8 DEF Saved, Tx
  <2>10. i \in TransferSteps /\ i # id
    BY <1>1, <2>1, <2>8, <2>9 DEF TransferInv
  <2>11. CASE i = "baseline-compensation"
    <3>1. <<i, id>> \in Before
      BY <2>11 DEF Before
    <3>2. SettledBefore(i, command[c].sequence)
      BY <1>1, <2>3, <3>1 DEF TransferInv
    <3>3. records[i].sequence \in Nat
      BY <1>1, <2>8 DEF GuardInv, GuardTypeOK, Attempts
    <3>4. QED
      BY <2>9, <3>2, <3>3 DEF SettledBefore
  <2>12. CASE i = "post-restart-compensation"
    <3>1. <<id, i>> \in Before
      BY <2>12 DEF Before
    <3>2. SettledBefore(id, records[i].sequence)
      BY <1>1, <2>8, <3>1 DEF TransferInv
    <3>3. QED
      BY <2>1, <3>2 DEF SettledBefore
  <2>13. QED
    BY <2>10, <2>11, <2>12 DEF TransferSteps
<1>7. QED
  BY <1>4, <1>5, <1>6

\* All hosts are clean and connected at first.
LEMMA InitHosts == Init => HostsInv
<1> SUFFICES ASSUME Init PROVE HostsInv
  OBVIOUS
<1>1. /\ \A id \in Ids : records[id] = None
      /\ \A c \in Callers : command[c] = None
      /\ \A s \in Steps : journal[s] = "absent"
      /\ pc.at = 0
  BY DEF Init, GuardInit, Down
<1>2. ~InStep
  BY <1>1 DEF InStep
<1>3. \A n \in 1..18 : journal[Workflow[n]] = "absent"
  BY <1>1, WorkflowLength
<1>4. /\ journal["start-five-validators"] = "absent" /\ journal["4-1-apply"] = "absent"
      /\ journal["3-2-apply"] = "absent"
  BY <1>3, NamedSteps
<1>5. records["4-1-partition"] = None
  BY <1>1, IdsAssumption DEF TransferSteps
<1>6. QED
  BY <1>1, <1>2, <1>4, <1>5 DEF HostsInv

\* Every step keeps the invariant of the hosts.
LEMMA HostsStep ==
  ASSUME ExperimentInv, [Next]_vars
  PROVE  HostsInv'
<1>1. aborted => aborted'
  <2>1. CASE Aside
    BY <2>1, AsideFacts DEF controlVars
  <2>2. CASE Work
    BY <2>2, WorkFacts
  <2>3. CASE Between
    BY <2>3 DEF Between, BeginStep, FinishStep, BeginCleanup, CleanHost, CleanHostFails,
                FinishCleanup, KillController, Resume, ResumeCleanup
  <2>4. QED
    BY <2>1, <2>2, <2>3, NextCases
<1>2. SUFFICES ASSUME ~aborted' PROVE HostsInv'
  BY DEF HostsInv
<1>3. ~aborted
  BY <1>1, <1>2
<1>4. /\ InStep' /\ Step' = "start-five-validators" => \A h \in Hosts : h < pc'.at => h \in nodes'
      /\ InStep' /\ Step' = "4-1-apply" => \A h \in Hosts : h < pc'.at => wall'[h] = CutOff(4, h)
      /\ InStep' /\ Step' = "3-2-apply" => \A h \in Hosts : h < pc'.at => wall'[h] = CutOff(3, h)
  BY <1>2, <1>3, LoopsStep
<1>5. /\ journal'["start-five-validators"] = "done" /\ journal'["all-five-stop"] = "absent" =>
           nodes' = Hosts
      /\ journal'["4-1-apply"] = "done" /\ journal'["4-1-heal"] = "absent" =>
           \A h \in Hosts : wall'[h] = CutOff(4, h)
      /\ journal'["3-2-apply"] = "done" /\ journal'["3-2-heal"] = "absent" =>
           \A h \in Hosts : wall'[h] = CutOff(3, h)
  BY <1>2, <1>3, HostsHold, NamedSteps
<1>6. /\ records'["4-1-partition"] # None => journal'["4-1-apply"] = "done"
      /\ \A c \in Callers : command'[c] # None /\ command'[c].id = "4-1-partition" =>
           journal'["4-1-apply"] = "done"
  BY <1>3, PartitionRequests
<1>7. journal'["4-1-heal"] = "absent" /\ records'["4-1-partition"] # None =>
        Saved("4-1-partition")' \notin settled'
  BY <1>3, PartitionStep
<1>8. QED
  BY <1>4, <1>5, <1>6, <1>7 DEF HostsInv

-----------------------------------------------------------------------------
(***************************************************************************)
(* Theorems                                                                *)
(***************************************************************************)

\* The invariant that all that follows rests on: guard, controller, transfers and
\* hosts keep their parts of it together, through kills, losses and resumptions
\* (Step in controller/journal.go, Execute in multihost/workflow.go, Send in
\* rpcguard/guard.go).
THEOREM ExperimentInvariant == Spec => []ExperimentInv
<1>1. Init => ExperimentInv
  BY InitGuard, InitControl, InitTransfer, InitHosts DEF ExperimentInv, Init
<1>2. ExperimentInv /\ [Next]_vars => ExperimentInv'
  <2> SUFFICES ASSUME ExperimentInv, [Next]_vars PROVE ExperimentInv'
    OBVIOUS
  <2>1. GuardInv'
    BY GuardStep DEF ExperimentInv
  <2>2. QED
    BY <2>1, ControlStep, TransferStep, HostsStep DEF ExperimentInv
<1>3. QED
  BY <1>1, <1>2, PTL DEF Spec

\* Whatever was sent under a request id is what is saved under it: a command that
\* is repeated after a crash or a lost answer never sends other bytes (Send in
\* rpcguard/guard.go).
THEOREM RequestsAreSaved == Spec => []SentIsSaved
<1>1. ExperimentInv => SentIsSaved
  BY DEF ExperimentInv, GuardInv
<1>2. QED
  BY <1>1, ExperimentInvariant, PTL

\* A step that the journal calls done has happened on the chain, in every history
\* of interruptions (Step in controller/journal.go and transferOperation in
\* multihost/workflow.go).
THEOREM JournalIsTrue == Spec => []DoneIsTrue
<1>1. ExperimentInv => DoneIsTrue
  BY DEF ExperimentInv, TransferInv
<1>2. QED
  BY <1>1, ExperimentInvariant, PTL

\* A run that is finished has left no process and no firewall rule on any host
\* (cleanup and Execute in multihost/workflow.go).
THEOREM FinishedRunIsClean == Spec => []FinishedIsClean
<1>1. ExperimentInv => FinishedIsClean
  BY DEF ExperimentInv, ControlInv, FinishedIsClean, Clean
<1>2. QED
  BY <1>1, ExperimentInvariant, PTL

\* The number of hosts that reach each other, in the two splits.
LEMMA FourReach ==
  ASSUME \A h \in Hosts : wall[h] = CutOff(4, h), nodes = Hosts
  PROVE  Quorum
<1>1. 1..4 \subseteq Reachable(1)
  BY DEF Reachable, Reaches, CutOff, Hosts
<1>2. IsFiniteSet(Reachable(1))
  <2>1. 1 \in Int /\ 5 \in Int
    OBVIOUS
  <2>2. IsFiniteSet(1..5)
    BY <2>1, FS_Interval
  <2>3. Reachable(1) \subseteq 1..5
    BY DEF Reachable, Hosts
  <2>4. QED
    BY <2>2, <2>3, FS_Subset
<1>3. Cardinality(1..4) = 4
  <2>1. 1 \in Int /\ 4 \in Int
    OBVIOUS
  <2>2. Cardinality(1..4) = IF 1 > 4 THEN 0 ELSE 4 - 1 + 1
    BY <2>1, FS_Interval
  <2>3. QED
    BY <2>2
<1>4. Cardinality(Reachable(1)) \in Nat /\ 4 <= Cardinality(Reachable(1))
  BY <1>1, <1>2, <1>3, FS_Subset, FS_CardinalityType
<1>5. QED
  BY <1>4 DEF Quorum, Hosts

\* In the 3-2 partition no side has a quorum.
LEMMA ThreeReach ==
  ASSUME \A h \in Hosts : wall[h] = CutOff(3, h), nodes \subseteq Hosts
  PROVE  ~Quorum
<1>1. SUFFICES ASSUME NEW h \in nodes PROVE ~(3 * Cardinality(Reachable(h)) > 2 * 5)
  BY DEF Quorum
<1>2. Reachable(h) \subseteq 1..3 \/ Reachable(h) \subseteq 4..5
  <2>1. h \in 1..5
    BY DEF Hosts
  <2>2. CASE h <= 3
    <3>1. wall[h] = 4..5
      BY <2>1, <2>2 DEF CutOff, Hosts
    <3>2. \A g \in Hosts : g \in 4..5 \/ g \in 1..3
      BY DEF Hosts
    <3>3. h \in 1..3
      BY <2>1, <2>2
    <3>4. QED
      BY <3>1, <3>2, <3>3 DEF Reachable, Reaches
  <2>3. CASE ~(h <= 3)
    <3>1. wall[h] = 1..3
      BY <2>1, <2>3 DEF CutOff, Hosts
    <3>2. \A g \in Hosts : g \in 4..5 \/ g \in 1..3
      BY DEF Hosts
    <3>3. h \in 4..5
      BY <2>1, <2>3
    <3>4. QED
      BY <3>1, <3>2, <3>3 DEF Reachable, Reaches
  <2>4. QED
    BY <2>2, <2>3
<1>3. IsFiniteSet(1..3) /\ Cardinality(1..3) <= 3
  <2>1. 1 \in Int /\ 3 \in Int
    OBVIOUS
  <2>2. IsFiniteSet(1..3) /\ Cardinality(1..3) = IF 1 > 3 THEN 0 ELSE 3 - 1 + 1
    BY <2>1, FS_Interval
  <2>3. QED
    BY <2>2
<1>4. IsFiniteSet(4..5) /\ Cardinality(4..5) <= 3
  <2>1. 4 \in Int /\ 5 \in Int
    OBVIOUS
  <2>2. IsFiniteSet(4..5) /\ Cardinality(4..5) = IF 4 > 5 THEN 0 ELSE 5 - 4 + 1
    BY <2>1, FS_Interval
  <2>3. QED
    BY <2>2
<1>5. Cardinality(Reachable(h)) \in Nat /\ Cardinality(Reachable(h)) <= 3
  <2>1. CASE Reachable(h) \subseteq 1..3
    <3>1. IsFiniteSet(Reachable(h)) /\ Cardinality(Reachable(h)) <= Cardinality(1..3)
      BY <1>3, <2>1, FS_Subset
    <3>2. Cardinality(Reachable(h)) \in Nat /\ Cardinality(1..3) \in Nat
      BY <1>3, <3>1, FS_CardinalityType
    <3>3. QED
      BY <1>3, <3>1, <3>2
  <2>2. CASE Reachable(h) \subseteq 4..5
    <3>1. IsFiniteSet(Reachable(h)) /\ Cardinality(Reachable(h)) <= Cardinality(4..5)
      BY <1>4, <2>2, FS_Subset
    <3>2. Cardinality(Reachable(h)) \in Nat /\ Cardinality(4..5) \in Nat
      BY <1>4, <3>1, FS_CardinalityType
    <3>3. QED
      BY <1>4, <3>1, <3>2
  <2>3. QED
    BY <1>2, <2>1, <2>2
<1>6. QED
  BY <1>5

\* While the journal says that the hosts are split, they are, and the split does
\* what the experiment is about: blocks but no fifth vote in 4:1, no block in 3:2
\* (partition in multihost/lab.go).
THEOREM SplitsHold == Spec => []PartitionHolds
<1>1. ExperimentInv => PartitionHolds
  <2> SUFFICES ASSUME ExperimentInv, ~aborted
               PROVE  /\ journal["4-1-apply"] = "done" /\ journal["4-1-heal"] = "absent" =>
                           /\ Quorum /\ ~CanSend(5)
                           /\ records["4-1-partition"] # None => Saved("4-1-partition") \notin settled
                      /\ journal["3-2-apply"] = "done" /\ journal["3-2-heal"] = "absent" => ~Quorum
    BY DEF PartitionHolds
  <2>1. ControlInv /\ HostsInv /\ nodes \subseteq Hosts
    BY DEF ExperimentInv, ControlInv
  <2>2. ASSUME journal["4-1-apply"] = "done", journal["4-1-heal"] = "absent"
        PROVE  nodes = Hosts
    <3>1. journal[Workflow[6]] # "absent" /\ journal[Workflow[8]] # "done"
      BY <2>2, NamedSteps
    <3>2. journal[Workflow[3]] = "done"
      BY <2>1, <3>1, WorkflowLength DEF ControlInv
    <3>3. journal[Workflow[14]] = "absent"
      BY <2>1, <3>1, WorkflowLength DEF ControlInv
    <3>4. QED
      BY <2>1, <3>2, <3>3, NamedSteps DEF HostsInv
  <2>3. ASSUME journal["4-1-apply"] = "done", journal["4-1-heal"] = "absent"
        PROVE  \A h \in Hosts : wall[h] = CutOff(4, h)
    BY <2>1, <2>3 DEF HostsInv
  <2>4. ASSUME journal["3-2-apply"] = "done", journal["3-2-heal"] = "absent"
        PROVE  ~Quorum
    <3>1. \A h \in Hosts : wall[h] = CutOff(3, h)
      BY <2>1, <2>4 DEF HostsInv
    <3>2. QED
      BY <2>1, <3>1, ThreeReach
  <2>5. journal["4-1-heal"] = "absent" /\ records["4-1-partition"] # None =>
          Saved("4-1-partition") \notin settled
    BY <2>1 DEF HostsInv
  <2>6. QED
    BY <2>1, <2>2, <2>3, <2>4, <2>5, FourReach, FifthIsAlone
<1>2. QED
  BY <1>1, ExperimentInvariant, PTL

=============================================================================
