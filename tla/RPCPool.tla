------------------------------ MODULE RPCPool ------------------------------
(***************************************************************************)
(* The RPC pool of an agent or of a guarded command                        *)
(* (dev/agent/internal/chainclient, pool.go). A round probes all endpoints *)
(* at once, takes a height that the fresh ones have in common, and adopts  *)
(* the block that enough of them agree on as checkpoint, after saving it.  *)
(*                                                                         *)
(* Endpoints lag, stop answering, or are set up again with another chain   *)
(* of the same chain id between rounds. Some endpoints are wrong: they     *)
(* answer every probe as they like. A block is named by its branch and its *)
(* height; branches share the blocks up to where they part.                *)
(***************************************************************************)
EXTENDS Integers, FiniteSets, FiniteSetsExt

CONSTANTS
  Endpoints,
  Wrong,         \* endpoints that answer as they like
  Branches,      \* chains with this chain id, a function to the height they part at
  MinAgreement, MaxHeightLag, MaxBlockAge,   \* RPCSafety
  None,
  Rejected,      \* an endpoint that the round does without
  MaxHeight,     \* bound: block height
  MaxResets      \* bound: endpoints set up again, and writes that fail

VARIABLES
  tip,       \* height of the branches; they grow at the same pace
  age,       \* time since the last block
  node,      \* what each correct endpoint has: a branch, up to a height
  resets,    \* number of resets and failures so far
  saved,     \* the checkpoint in the journal
  pool,      \* the pool in memory, None while the process is down
  probes,    \* candidates of the round, None between rounds
  common     \* height that the candidates have in common, once it is known

vars == <<tip, age, node, resets, saved, pool, probes, common>>
worldVars == <<tip, age, node, resets>>

ASSUME BranchesAssumption ==
  1 \in DOMAIN Branches /\ \A b \in DOMAIN Branches : Branches[b] \in Int
ASSUME AgreementAssumption ==
  /\ IsFiniteSet(Endpoints) /\ MinAgreement \in 1..Cardinality(Endpoints)
  /\ Wrong \subseteq Endpoints /\ Cardinality(Wrong) < MinAgreement
ASSUME BoundsAssumption ==
  MaxHeight \in Nat \ {0} /\ MaxHeightLag \in Nat /\ MaxBlockAge \in Nat /\ MaxResets \in Nat

\* The hash of a block: a branch that parts at height n has the blocks of the
\* first branch up to n. The genesis is the block at height 0.
Hash(b, h) == IF h <= Branches[b] THEN <<1, h>> ELSE <<b, h>>

GenesisHash(b) == Hash(b, 0)

Hashes == (DOMAIN Branches) \X (0..MaxHeight)

Checkpoints == [genesis : Hashes, height : 1..MaxHeight, hash : Hashes]

\* The block is younger than MaxBlockAge.
Young(h) == tip - h + age <= MaxBlockAge

Candidates ==
  [height : 1..MaxHeight, genesis : Hashes, hash : Hashes, block : Hashes \cup {None}]

Pools ==
  [checkpoint : Checkpoints \cup {None}, selected : Endpoints \cup {None},
   genesis : [Endpoints -> Hashes \cup {None}]]

ASSUME NoneAssumption ==
  /\ None # Rejected /\ None \notin Pools
  /\ {None, Rejected} \cap Candidates = {}
  /\ None \notin Hashes /\ None \notin 1..MaxHeight

TypeOK ==
  /\ tip \in 1..MaxHeight /\ age \in 0..MaxBlockAge + 1
  /\ node \in [Endpoints -> [branch : DOMAIN Branches, height : 1..MaxHeight]]
  /\ resets \in 0..MaxResets
  /\ saved \in Checkpoints \cup {None}
  /\ pool \in Pools \cup {None}
  /\ probes = None \/ probes \in [Endpoints -> Candidates \cup {None, Rejected}]
  /\ common \in 1..MaxHeight \cup {None}

NewPool == [checkpoint |-> saved, selected |-> None, genesis |-> [e \in Endpoints |-> None]]

Init ==
  /\ tip = 1 /\ age = 0
  /\ node = [e \in Endpoints |-> [branch |-> 1, height |-> 1]]
  /\ resets = 0
  /\ saved = None /\ pool = NewPool
  /\ probes = None /\ common = None

-----------------------------------------------------------------------------
(***************************************************************************)
(* Endpoints                                                               *)
(***************************************************************************)

NewBlock ==
  /\ tip < MaxHeight
  /\ tip' = tip + 1 /\ age' = 0
  /\ UNCHANGED <<node, resets, saved, pool, probes, common>>

Wait ==
  /\ age <= MaxBlockAge
  /\ age' = age + 1
  /\ UNCHANGED <<tip, node, resets, saved, pool, probes, common>>

Sync(e) ==
  /\ e \notin Wrong
  /\ node[e].height < tip
  /\ node' = [node EXCEPT ![e].height = tip]
  /\ UNCHANGED <<tip, age, resets, saved, pool, probes, common>>

\* An endpoint gets another chain, or an old copy of its own.
Reset(e) ==
  /\ e \notin Wrong
  /\ resets < MaxResets /\ resets' = resets + 1
  /\ probes = None
  /\ \E b \in DOMAIN Branches, h \in 1..tip :
       node' = [node EXCEPT ![e] = [branch |-> b, height |-> h]]
  /\ UNCHANGED <<tip, age, saved, pool, probes, common>>

-----------------------------------------------------------------------------
(***************************************************************************)
(* A round                                                                 *)
(***************************************************************************)

Checkpoint == pool.checkpoint

\* A block that endpoint e may show at height h.
Block(e, h) ==
  IF e \in Wrong THEN {Hash(b, h) : b \in DOMAIN Branches}
  ELSE IF h <= node[e].height THEN {Hash(node[e].branch, h)} ELSE {}

\* The statuses that e may answer with: height and hash of its last block.
Status(e) ==
  IF e \in Wrong THEN {[height |-> h, hash |-> Hash(b, h)] : h \in 1..MaxHeight, b \in DOMAIN Branches}
  ELSE {[height |-> node[e].height, hash |-> Hash(node[e].branch, node[e].height)]}

\* The genesis that e may answer with, unless it is known from an earlier round.
Genesis(e) ==
  IF pool.genesis[e] # None THEN {pool.genesis[e]}
  ELSE IF e \in Wrong THEN {GenesisHash(b) : b \in DOMAIN Branches}
  ELSE {GenesisHash(node[e].branch)}

\* Wrong endpoints give their blocks the time they like.
Fresh(e, status) ==
  /\ Checkpoint # None => status.height >= Checkpoint.height
  /\ e \in Wrong \/ Young(status.height)

GenesisMatches(g) == Checkpoint # None => g = Checkpoint.genesis

\* Mutant: the block at the checkpoint is not compared.
ContinuousUnchecked(block) == TRUE

Continuous(block) == Checkpoint # None => block = Checkpoint.hash

\* What a probe of e may find: a candidate, or Rejected.
Probed(e) ==
  {[height |-> s.height, genesis |-> g, hash |-> s.hash, block |-> None] :
     s \in {t \in Status(e) : Fresh(e, t)},
     g \in {x \in Genesis(e) :
              /\ GenesisMatches(x)
              /\ Checkpoint # None =>
                   \E block \in Block(e, Checkpoint.height) : Continuous(block)}}

StartRound ==
  /\ pool # None /\ probes = None
  /\ pool' = [pool EXCEPT !.selected = None]
  /\ probes' = [e \in Endpoints |-> None]
  /\ common' = None
  /\ UNCHANGED <<worldVars, saved>>

\* The probe of an endpoint ends. It may always time out.
Probe(e) ==
  /\ pool # None /\ probes # None
  /\ probes[e] = None
  /\ \E c \in Probed(e) \cup {Rejected} : probes' = [probes EXCEPT ![e] = c]
  /\ UNCHANGED <<worldVars, saved, pool, common>>

Eligible == {e \in Endpoints : probes[e] # Rejected}

Highest == Max({probes[e].height : e \in Eligible})

Near == {e \in Eligible : Highest - probes[e].height <= MaxHeightLag}

\* All probes are in: endpoints too far behind the highest are left out, and the
\* others are asked for the block at the lowest of their heights.
FindCommon ==
  /\ pool # None /\ probes # None
  /\ common = None
  /\ \A e \in Endpoints : probes[e] # None
  /\ Eligible # {}
  /\ probes' = [e \in Endpoints |-> IF e \in Near THEN probes[e] ELSE Rejected]
  /\ common' = Min({probes[e].height : e \in Near})
  /\ UNCHANGED <<worldVars, saved, pool>>

\* The block must be young, and the one of the status if it is the last.
Consistent(e, block) ==
  /\ common = probes[e].height => block = probes[e].hash
  /\ e \in Wrong \/ Young(common)

ProbeCommon(e) ==
  /\ pool # None /\ probes # None
  /\ common # None /\ e \in Eligible
  /\ probes[e].block = None
  /\ \/ \E block \in Block(e, common) :
          /\ Consistent(e, block)
          /\ probes' = [probes EXCEPT ![e].block = block]
     \/ probes' = [probes EXCEPT ![e] = Rejected]
  /\ UNCHANGED <<worldVars, saved, pool, common>>

\* Mutant: endpoints at the same height agree.
GroupByHeight(e) == Eligible

\* The endpoints that agree with e.
Group(e) ==
  {f \in Eligible : probes[f].genesis = probes[e].genesis /\ probes[f].block = probes[e].block}

Groups == {g \in {Group(e) : e \in Eligible} : Cardinality(g) >= MinAgreement}

Answered == probes # None /\ common # None /\ \A e \in Eligible : probes[e].block # None

\* The checkpoint of a group is that of the endpoint chosen from it.
NextCheckpoint(e) ==
  [genesis |-> probes[e].genesis, height |-> common, hash |-> probes[e].block]

EndRound == probes' = None /\ common' = None

\* Mutant: what is in memory does not wait for the journal.
AdoptFirst(next, e, group) ==
  /\ \/ saved' = next /\ UNCHANGED resets
     \/ UNCHANGED saved /\ resets < MaxResets /\ resets' = resets + 1
  /\ pool' = [pool EXCEPT !.checkpoint = next, !.selected = e]

\* The new checkpoint is saved, or else nothing changes. The height must not go
\* back. Then it is adopted, and one endpoint is used from now on, unless the
\* block has become too old.
Adopt(next, e, group) ==
  \/ /\ Checkpoint # None => next.height >= Checkpoint.height
     /\ saved' = next
     /\ \E used \in {None} \cup (IF Young(next.height) \/ e \in Wrong THEN {e} ELSE {}) :
          pool' = [pool EXCEPT !.checkpoint = next, !.selected = used,
                               !.genesis = [f \in Endpoints |->
                                  IF f \in group THEN probes[f].genesis ELSE pool.genesis[f]]]
     /\ UNCHANGED resets
  \/ /\ next # Checkpoint
     /\ resets < MaxResets /\ resets' = resets + 1
     /\ UNCHANGED <<saved, pool>>

\* Exactly one group is large enough: one with the highest status is chosen.
SelectEndpoint ==
  /\ pool # None /\ Answered
  /\ Cardinality(Groups) = 1
  /\ \E group \in Groups : \E e \in group :
       /\ \A f \in group : probes[f].height <= probes[e].height
       /\ Adopt(NextCheckpoint(e), e, group)
  /\ EndRound
  /\ UNCHANGED <<tip, age, node>>

\* No group is large enough, or more than one is.
RefuseRound ==
  /\ pool # None /\ probes # None
  /\ \/ (\A e \in Endpoints : probes[e] = Rejected)
     \/ Answered /\ Cardinality(Groups) # 1
  /\ EndRound
  /\ UNCHANGED <<worldVars, saved, pool>>

-----------------------------------------------------------------------------
Crash ==
  /\ pool # None
  /\ pool' = None
  /\ EndRound
  /\ UNCHANGED <<worldVars, saved>>

\* A new process reads the saved checkpoint.
Restart ==
  /\ pool = None
  /\ pool' = NewPool
  /\ UNCHANGED <<worldVars, saved, probes, common>>

Next ==
  \/ NewBlock \/ Wait
  \/ \E e \in Endpoints : Sync(e) \/ Reset(e) \/ Probe(e) \/ ProbeCommon(e)
  \/ StartRound \/ FindCommon \/ SelectEndpoint \/ RefuseRound
  \/ Crash \/ Restart

Spec == Init /\ [][Next]_vars

-----------------------------------------------------------------------------
(***************************************************************************)
(* Properties                                                              *)
(***************************************************************************)

\* A correct endpoint has the block.
Backed(c) == \E e \in Endpoints \ Wrong : c.hash \in Block(e, c.height)

\* The saved checkpoint is only ever followed by one on the same history, at the
\* same height or higher, whatever happens to the endpoints between rounds and
\* whenever the process dies: a chain that was set up again is not followed
\* (selectEndpoint in chainclient/pool.go).
CheckpointContinues ==
  [][saved # None /\ saved' # saved =>
       /\ saved'.height >= saved.height
       /\ saved'.genesis = saved.genesis
       /\ \E b \in DOMAIN Branches :
            Hash(b, saved.height) = saved.hash /\ Hash(b, saved'.height) = saved'.hash]_saved

\* A checkpoint is only saved when a correct endpoint has its block, although
\* wrong endpoints may say what they like and probes may fail (selectEndpoint:
\* "Probe failures never lower the agreement requirement").
CheckpointIsBacked == [][saved' # saved => Backed(saved')]_saved

\* Endpoints are only judged by a checkpoint that is in the journal, so that a
\* process that starts again never accepts less (selectEndpoint and call in
\* chainclient/pool.go).
UsedIsSaved == pool # None => pool.checkpoint = saved

-----------------------------------------------------------------------------
(***************************************************************************)
(* Why it works                                                            *)
(***************************************************************************)

\* A candidate has passed the checks against the checkpoint in memory. What a
\* correct endpoint has shown is on its branch, which stays during a round.
CandidateFits(e) ==
  LET c == probes[e]
      branch == node[e].branch
  IN  /\ Checkpoint # None => c.genesis = Checkpoint.genesis
      /\ e \notin Wrong =>
           /\ Checkpoint # None => Hash(branch, Checkpoint.height) = Checkpoint.hash
           /\ c.block # None => /\ common # None /\ common <= node[e].height
                                /\ c.block = Hash(branch, common)

RoundInv ==
  probes # None =>
    /\ pool # None
    /\ common # None => \A e \in Endpoints : probes[e] # None
    /\ \A e \in Endpoints : probes[e] \notin {None, Rejected} => CandidateFits(e)

\* The invariant that the proofs are about.
PoolInv == TypeOK /\ UsedIsSaved /\ RoundInv

=============================================================================
