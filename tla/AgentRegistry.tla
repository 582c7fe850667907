---------------------------- MODULE AgentRegistry ----------------------------
(***************************************************************************)
(* The registry of agents on the chain and what is derived from it: the    *)
(* agents by id and the index from signers to ids                          *)
(* (x/sanction/keeper/store.go), registration by the authority             *)
(* (msg_server.go), the synchronisation with the staking validators at the *)
(* end of every block (validator_sync.go, app/app.go), the voters that a   *)
(* case takes from it when it is opened (voting_snapshot.go) and its way   *)
(* through an exported genesis file (genesis.go, types/genesis.go).        *)
(*                                                                         *)
(* Staking is external: validators are created, gain and lose stake, are   *)
(* jailed and disappear between two ends of blocks.                        *)
(***************************************************************************)
EXTENDS Naturals, Sequences

CONSTANTS
  IdOrder,          \* the agent ids, in the order of their keys
  Signers,          \* account addresses
  Operators,        \* validator operator addresses
  OperatorAccount,  \* operator -> the account with the same bytes
  ValidatorId,      \* operator -> the id "validator:" + operator
  Candidates,       \* what the authority may register, records with an id
  GenesisAgents,    \* sets of candidates a chain may start with
  MaxPower,         \* bound on the stake of a validator
  None

AgentIds == {IdOrder[i] : i \in DOMAIN IdOrder}
Injective(f) == \A x, y \in DOMAIN f : f[x] = f[y] => x = y

ASSUME NamesAssumption ==
  /\ IdOrder \in Seq(AgentIds) /\ Injective(IdOrder)
  /\ OperatorAccount \in [Operators -> Signers] /\ Injective(OperatorAccount)
  /\ ValidatorId \in [Operators -> AgentIds] /\ Injective(ValidatorId)

\* The public key of an agent: none yet, that of its signer, or another one.
Keys == {"none", "own", "foreign"}

AgentInfo ==
  [operator : Operators \cup {None}, signer : Signers, key : Keys,
   power : Nat, active : BOOLEAN]

Validator == [bonded : BOOLEAN, jailed : BOOLEAN, power : 0..MaxPower]

\* What is registered or starts in a genesis is an agent with an id.
Applicants == Candidates \cup UNION GenesisAgents

ASSUME ApplicantsAssumption ==
  \A c \in Applicants :
    c \in [id : AgentIds, operator : Operators \cup {None}, signer : Signers,
          key : Keys, power : Nat, active : BOOLEAN]

ASSUME BoundsAssumption == MaxPower \in Nat

ASSUME NoneAssumption ==
  None \notin AgentIds \cup Operators /\ None \notin AgentInfo /\ None \notin Validator

VARIABLES
  agents,      \* id -> AgentInfo or None
  bySigner,    \* the index: signer -> id or None
  leases,      \* signers with a signing lease
  voters,      \* the snapshot of a case that was opened, or None
  validators,  \* staking: operator -> [bonded, jailed, power] or None
  keyed,       \* operators whose account has a public key
  unsynced,    \* ids that no synchronisation has seen yet
  inBlock      \* a transaction of the next block was executed

registryVars == <<agents, bySigner, leases, voters>>
vars == <<agents, bySigner, leases, voters, validators, keyed, unsynced, inBlock>>

TypeOK ==
  /\ agents \in [AgentIds -> AgentInfo \cup {None}]
  /\ bySigner \in [Signers -> AgentIds \cup {None}]
  /\ leases \subseteq Signers
  /\ voters # None => DOMAIN voters \subseteq AgentIds /\ voters \in [DOMAIN voters -> AgentInfo]
  /\ validators \in [Operators -> Validator \cup {None}]
  /\ keyed \subseteq Operators
  /\ unsynced \subseteq AgentIds
  /\ inBlock \in BOOLEAN

Registered == {id \in AgentIds : agents[id] # None}
Position(id) == CHOOSE i \in DOMAIN IdOrder : IdOrder[i] = id

-----------------------------------------------------------------------------
(***************************************************************************)
(* Validation                                                              *)
(***************************************************************************)

ValidateAgent(a) == a.active => a.power > 0

\* A snapshot of voters that a case may carry.
ValidateCaseSnapshot(v) ==
  /\ DOMAIN v # {}
  /\ \A id \in DOMAIN v : v[id].active /\ v[id].power > 0 /\ v[id].key = "own"
  /\ \A i, j \in DOMAIN v : v[i].signer = v[j].signer => i = j

\* The parts of a genesis file that come from the registry: agents by id, the
\* signers with leases, and the voters of an open case.
ValidateGenesis(as, ls, vs) ==
  /\ \A id \in DOMAIN as : ValidateAgent(as[id])
  /\ \A i, j \in DOMAIN as : as[i].signer = as[j].signer => i = j
  /\ vs # None => ValidateCaseSnapshot(vs)
  /\ ls \subseteq {as[id].signer : id \in DOMAIN as}

Writers(as, ids, s) == {id \in ids : as[id].signer = s}

\* The index after the agents in ids were written in the order of their ids: of
\* those with one signer, the last one stays.
SetAgents(as, index, ids) ==
  [s \in Signers |->
    LET writers == Writers(as, ids, s)
    IN  IF writers = {} THEN index[s]
        ELSE CHOOSE id \in writers : \A o \in writers \ {id} : Position(o) < Position(id)]

-----------------------------------------------------------------------------
(***************************************************************************)
(* Genesis, export and import                                              *)
(***************************************************************************)

AsFunction(A) ==
  [id \in {a.id : a \in A} |->
    LET a == CHOOSE b \in A : b.id = id
    IN  [operator |-> a.operator, signer |-> a.signer, key |-> a.key,
         power |-> a.power, active |-> a.active]]

NoIndex == [s \in Signers |-> None]

ExportGenesis == [agents |-> [id \in Registered |-> agents[id]],
                  leases |-> leases, voters |-> voters]

\* The registry that InitGenesis writes for the agents of a genesis file.
Imported(as) == [id \in AgentIds |-> IF id \in DOMAIN as THEN as[id] ELSE None]
ImportedIndex(as) == SetAgents(as, NoIndex, DOMAIN as)

InitGenesis(g) ==
  /\ agents' = Imported(g.agents)
  /\ bySigner' = ImportedIndex(g.agents)
  /\ leases' = g.leases
  /\ voters' = g.voters

\* A chain starts with a genesis that InitChainer accepts; validators of the
\* staking genesis have an account, which may not have signed anything yet.
Init ==
  /\ \E A \in GenesisAgents :
       /\ ValidateGenesis(AsFunction(A), {}, None)
       /\ agents = Imported(AsFunction(A))
       /\ bySigner = ImportedIndex(AsFunction(A))
       /\ unsynced = {a.id : a \in A}
  /\ leases = {} /\ voters = None
  /\ validators \in
       [Operators -> {None, [bonded |-> TRUE, jailed |-> FALSE, power |-> MaxPower]}]
  /\ keyed = {}
  /\ inBlock = FALSE

\* The chain is stopped, exported and started again from the exported file.
Restart ==
  /\ ~inBlock
  /\ LET g == ExportGenesis
     IN  /\ ValidateGenesis(g.agents, g.leases, g.voters)
         /\ InitGenesis(g)
  /\ UNCHANGED <<validators, keyed, unsynced, inBlock>>

-----------------------------------------------------------------------------
(***************************************************************************)
(* Messages                                                                *)
(***************************************************************************)

\* The authority registers an agent whose id and signer are new.
RegisterAgent(c) ==
  /\ ValidateAgent(c)
  /\ agents[c.id] = None
  /\ bySigner[c.signer] = None
  /\ agents' = [agents EXCEPT ![c.id] = AsFunction({c})[c.id]]
  /\ bySigner' = [bySigner EXCEPT ![c.signer] = c.id]
  /\ unsynced' = unsynced \cup {c.id}
  /\ inBlock' = TRUE
  /\ UNCHANGED <<leases, voters, validators, keyed>>

\* Only the account of a registered agent can have a lease; the epochs and
\* terms of leases are those of AgentLease.
ClaimAgentLease(s) ==
  /\ bySigner[s] # None
  /\ leases' = leases \cup {s}
  /\ inBlock' = TRUE
  /\ UNCHANGED <<agents, bySigner, voters, validators, keyed, unsynced>>

\* Mutant: agents without a key are asked to vote as well.
EligibleWithoutKey(a) == a.active /\ a.power > 0

\* An agent that is asked to vote on a case opened now.
Eligible(a) == a.active /\ a.power > 0 /\ a.key # "none"

Electorate == {id \in Registered : Eligible(agents[id])}
SnapshotCaseVoters == [id \in Electorate |-> agents[id]]

\* A case is opened for the agents of this moment. Its voters stay in the store;
\* one case is enough to see what becomes of them.
OpenCase ==
  /\ voters = None
  /\ ValidateCaseSnapshot(SnapshotCaseVoters)
  /\ voters' = SnapshotCaseVoters
  /\ inBlock' = TRUE
  /\ UNCHANGED <<agents, bySigner, leases, validators, keyed, unsynced>>

-----------------------------------------------------------------------------
(***************************************************************************)
(* Staking, outside of this repository                                     *)
(***************************************************************************)

SetValidator(op, v) ==
  /\ validators' = [validators EXCEPT ![op] = v]
  /\ inBlock' = TRUE
  /\ UNCHANGED <<registryVars, unsynced>>

CreateValidator(op) ==
  /\ validators[op] = None
  /\ \E p \in 1..MaxPower :
       SetValidator(op, [bonded |-> FALSE, jailed |-> FALSE, power |-> p])
  /\ keyed' = keyed \cup {op}

\* Stake is added or withdrawn, or the validator is jailed or unjailed.
ChangeValidator(op) ==
  /\ validators[op] # None
  /\ \/ \E p \in 0..MaxPower : SetValidator(op, [validators[op] EXCEPT !.power = p])
     \/ SetValidator(op, [validators[op] EXCEPT !.jailed = ~@])
  /\ UNCHANGED keyed

\* A validator without stake is removed; its unbonding has ended before.
RemoveValidator(op) ==
  /\ validators[op] # None
  /\ ~validators[op].bonded /\ validators[op].power = 0
  /\ SetValidator(op, None)
  /\ UNCHANGED keyed

\* The account of an operator signs its first transaction.
FirstSignature(op) ==
  /\ keyed' = keyed \cup {op}
  /\ inBlock' = TRUE
  /\ UNCHANGED <<registryVars, validators, unsynced>>

\* The end of a block decides who is bonded.
StakingEndBlock(op) ==
  IF validators[op] = None THEN None
  ELSE [validators[op] EXCEPT !.bonded =
          ~validators[op].jailed /\ validators[op].power > 0]

-----------------------------------------------------------------------------
(***************************************************************************)
(* The end of a block                                                      *)
(***************************************************************************)

\* What the application tells the registry about a validator v.
State(op, v) ==
  [active |-> v.bonded /\ ~v.jailed /\ v.power > 0,
   power |-> IF v.bonded /\ ~v.jailed THEN v.power ELSE 0,
   signer |-> OperatorAccount[op],
   key |-> IF op \in keyed THEN "own" ELSE "none"]

\* The account's key is taken over for an agent that signs with that account.
FilledKey(a, state) ==
  IF a.signer = state.signer /\ a.key = "none" THEN state.key ELSE a.key

\* Mutant: the power follows the validator, the activity does not.
RefreshedPowerOnly(a, v) ==
  IF v = None THEN [a EXCEPT !.power = 0]
  ELSE [a EXCEPT !.key = FilledKey(a, State(a.operator, v)),
                 !.power = State(a.operator, v).power]

\* Mutant: an agent whose validator has disappeared is left alone.
RefreshedIfFound(a, v) ==
  IF v = None THEN a
  ELSE LET s == State(a.operator, v)
           key == FilledKey(a, s)
       IN  IF s.active /\ key # "none"
           THEN [a EXCEPT !.key = key, !.active = TRUE, !.power = s.power]
           ELSE [a EXCEPT !.key = key, !.active = FALSE, !.power = 0]

\* An agent of an operator follows the validator v of that operator.
Refreshed(a, v) ==
  IF v = None THEN [a EXCEPT !.active = FALSE, !.power = 0]
  ELSE LET s == State(a.operator, v)
           next == [a EXCEPT !.key = FilledKey(a, s)]
       IN  IF s.active /\ next.key # "none"
           THEN [next EXCEPT !.active = TRUE, !.power = s.power]
           ELSE [next EXCEPT !.active = FALSE, !.power = 0]

Bound == {id \in Registered : agents[id].operator # None}

\* Operators that get an agent of their own: active, with a known key, and
\* neither the operator nor the id is taken. The signer is not looked at.
Added(vals) ==
  {op \in Operators :
    /\ vals[op] # None
    /\ State(op, vals[op]).active /\ op \in keyed
    /\ \A id \in Bound : agents[id].operator # op
    /\ agents[ValidatorId[op]] = None}

Synced(vals) ==
  [id \in AgentIds |->
    IF id \in Bound THEN Refreshed(agents[id], vals[agents[id].operator])
    ELSE IF \E op \in Added(vals) : id = ValidatorId[op]
    THEN LET op == CHOOSE o \in Added(vals) : id = ValidatorId[o]
             s == State(op, vals[op])
         IN  [operator |-> op, signer |-> s.signer, key |-> s.key,
              power |-> s.power, active |-> TRUE]
    ELSE agents[id]]

\* Agents of operators are written in the order of their ids, new ones later;
\* the new ones have different signers, so that their own order does not matter.
SyncAgentRegistryWithValidatorSet(vals) ==
  /\ agents' = Synced(vals)
  /\ bySigner' =
       SetAgents(Synced(vals), SetAgents(Synced(vals), bySigner, Bound),
                 {ValidatorId[op] : op \in Added(vals)})

\* Staking first, then the registry, which is left alone without validators.
EndBlock ==
  LET vals == [op \in Operators |-> StakingEndBlock(op)]
      empty == \A op \in Operators : vals[op] = None
  IN  /\ validators' = vals
      /\ IF empty THEN UNCHANGED <<agents, bySigner, unsynced>>
         ELSE SyncAgentRegistryWithValidatorSet(vals) /\ unsynced' = {}
      /\ inBlock' = FALSE
      /\ UNCHANGED <<leases, voters, keyed>>

Next ==
  \/ \E c \in Candidates : RegisterAgent(c)
  \/ \E s \in Signers : ClaimAgentLease(s)
  \/ OpenCase
  \/ \E op \in Operators :
       CreateValidator(op) \/ ChangeValidator(op) \/ RemoveValidator(op)
       \/ FirstSignature(op)
  \/ EndBlock
  \/ Restart

Spec == Init /\ [][Next]_vars

-----------------------------------------------------------------------------
(***************************************************************************)
(* Properties                                                              *)
(***************************************************************************)

\* The state after every block can be exported and imported again, and import
\* restores the agents and the index from signers, however registrations,
\* synchronisations and leases were mixed (ExportGenesis, ValidateGenesis and
\* InitGenesis).
ExportIsRestored ==
  ~inBlock =>
    LET g == ExportGenesis
    IN  /\ ValidateGenesis(g.agents, g.leases, g.voters)
        /\ Imported(g.agents) = agents
        /\ ImportedIndex(g.agents) = bySigner

\* As long as some agent can vote, a case can be opened: what the registry
\* calls eligible is a valid snapshot (SnapshotCaseVoters and
\* ValidateCaseSnapshot).
CaseCanOpen == Electorate # {} => ValidateCaseSnapshot(SnapshotCaseVoters)

Represented(op) ==
  \/ \E id \in Electorate : agents[id].operator = op
  \/ \E id \in Bound : agents[id].operator = op /\ agents[id].key = "none"
  \/ agents[ValidatorId[op]] # None /\ agents[ValidatorId[op]].operator # op

\* After every block, the agents of operators vote with the stake of bonded
\* validators that are not jailed, and every such validator with a known key has
\* a vote, unless its agent has no key or its id is taken
\* (SyncAgentRegistryWithValidatorSet).
ElectorateFollowsStake ==
  ~inBlock =>
    /\ \A id \in Electorate \ unsynced : agents[id].operator # None =>
         LET v == validators[agents[id].operator]
         IN  v # None /\ v.bonded /\ ~v.jailed /\ v.power = agents[id].power
    /\ \A op \in keyed :
         validators[op] # None /\ validators[op].bonded /\ unsynced = {} =>
           Represented(op)

\* Violated: no two agents have one signer (the specification of MsgRegisterAgent
\* and ValidateGenesis).
SignersUnique ==
  \A i, j \in Registered : agents[i].signer = agents[j].signer => i = j

-----------------------------------------------------------------------------
(***************************************************************************)
(* Why it works                                                            *)
(***************************************************************************)

\* An active agent of an operator has a bonded validator also within a block;
\* only its stake and whether it is jailed may differ until the block ends.
FollowsStake ==
  \A id \in Bound \ unsynced : agents[id].active =>
    LET v == validators[agents[id].operator]
    IN  v # None /\ v.bonded /\ (~inBlock => ~v.jailed /\ v.power = agents[id].power)

ValidatorsRepresented ==
  ~inBlock /\ unsynced = {} =>
    \A op \in keyed : validators[op] # None /\ validators[op].bonded => Represented(op)

StakeInv == TypeOK /\ FollowsStake /\ ValidatorsRepresented

\* The account of a validator signs for that validator's agent only, and an agent
\* has its signer's key or none. Nothing in the code asks the authority for this.
Disciplined(a) ==
  /\ a.key # "foreign"
  /\ \A op \in Operators : a.signer = OperatorAccount[op] => a.operator = op

Discipline == \A c \in Applicants : Disciplined(c)

SoundAgent(a) == ValidateAgent(a) /\ Disciplined(a)

\* The index leads from the signer of every agent to that agent and nowhere else.
IndexExact ==
  /\ \A id \in Registered : bySigner[agents[id].signer] = id
  /\ \A s \in Signers : bySigner[s] # None =>
       bySigner[s] \in Registered /\ agents[bySigner[s]].signer = s

RegistryInv ==
  /\ TypeOK
  /\ \A id \in Registered : SoundAgent(agents[id])
  /\ IndexExact
  /\ \A s \in leases : bySigner[s] # None
  /\ voters # None => ValidateCaseSnapshot(voters)

=============================================================================
