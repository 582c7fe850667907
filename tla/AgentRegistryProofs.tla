------------------------ MODULE AgentRegistryProofs ------------------------
(***************************************************************************)
(* Proofs about the agent registry, for any agents, signers and            *)
(* validators: after every block the registered votes are those of the     *)
(* bonded stake, and, if the authority gives the account of a validator to *)
(* no other agent, signers stay unique, a case can always be opened and an *)
(* exported state starts again as it was.                                  *)
(***************************************************************************)
EXTENDS AgentRegistry, WellFoundedInduction, TLAPS

\* Some natural numbers have a least one.
LEMMA LeastNatural ==
  ASSUME NEW S \in SUBSET Nat, S # {}
  PROVE  \E x \in S : \A y \in S : x <= y
<1>1. \E x \in S : \A y \in S : ~(<<y, x>> \in OpToRel(<, Nat))
  BY NatLessThanWellFounded, WFMin
<1>2. OpToRel(<, Nat) = {ss \in Nat \X Nat : ss[1] < ss[2]}
  BY Zenon DEF OpToRel
<1> HIDE DEF OpToRel
<1> DEFINE Less == {ss \in Nat \X Nat : ss[1] < ss[2]}
<1>3. PICK x \in S : \A y \in S : ~(<<y, x>> \in Less)
  BY <1>1, <1>2, Zenon
<1>4. ASSUME NEW y \in S, ~(x <= y) PROVE FALSE
  <2>1. <<y, x>> \in Nat \X Nat /\ y < x
    BY <1>4
  <2>2. <<y, x>> \in Less
    BY <2>1
  <2>3. QED
    BY <1>3, <2>2
<1>5. QED
  BY <1>4

\* Some bounded natural numbers have a greatest one.
LEMMA GreatestNatural ==
  ASSUME NEW n \in Nat, NEW S \in SUBSET (0..n), S # {}
  PROVE  \E x \in S : \A y \in S : y <= x
<1> DEFINE T == {n - x : x \in S}
<1>1. T \in SUBSET Nat /\ T # {}
  <2>1. \A x \in S : x \in 0..n
    OBVIOUS
  <2>2. \A x \in S : n - x \in Nat
    BY <2>1
  <2>3. QED
    BY <2>2
<1>2. PICK t \in T : \A y \in T : t <= y
  <2> HIDE DEF T
  <2> QED
    BY <1>1, LeastNatural
<1>3. PICK x \in S : t = n - x
  BY <1>2
<1>4. ASSUME NEW y \in S PROVE y <= x
  <2>1. x \in 0..n /\ y \in 0..n
    OBVIOUS
  <2>2. n - x <= n - y
    BY <1>2, <1>3
  <2>3. QED
    BY <2>1, <2>2
<1>5. QED
  BY <1>4

-----------------------------------------------------------------------------
(***************************************************************************)
(* The operators of the model                                              *)
(***************************************************************************)

\* Every agent id has one place in the order of keys (agentKey).
LEMMA PositionIs ==
  ASSUME NEW id \in AgentIds
  PROVE  Position(id) \in 1..Len(IdOrder) /\ IdOrder[Position(id)] = id
<1>1. \E i \in DOMAIN IdOrder : IdOrder[i] = id
  BY DEF AgentIds
<1>2. Position(id) \in DOMAIN IdOrder /\ IdOrder[Position(id)] = id
  BY <1>1, Zenon DEF Position
<1>3. QED
  BY <1>2, NamesAssumption DEF NamesAssumption

\* Of the agents with one signer that are written, one is the last (SetAgent).
LEMMA OneIsLast ==
  ASSUME NEW W \in SUBSET AgentIds, W # {}
  PROVE  (CHOOSE id \in W : \A o \in W \ {id} : Position(o) < Position(id)) \in W
<1> DEFINE P == {Position(id) : id \in W}
<1>1. Len(IdOrder) \in Nat
  BY NamesAssumption DEF NamesAssumption
<1>2. P \in SUBSET (0..Len(IdOrder)) /\ P # {}
  <2>1. \A id \in W : Position(id) \in 1..Len(IdOrder)
    BY PositionIs
  <2>2. \A id \in W : Position(id) \in 0..Len(IdOrder)
    BY <1>1, <2>1
  <2>3. QED
    BY <2>2
<1>3. PICK p \in P : \A q \in P : q <= p
  <2> HIDE DEF P
  <2> QED
    BY <1>1, <1>2, GreatestNatural
<1>4. PICK id \in W : p = Position(id)
  BY <1>3
<1>5. ASSUME NEW o \in W \ {id} PROVE Position(o) < Position(id)
  <2>1. Position(o) <= Position(id)
    BY <1>3, <1>4
  <2>2. /\ Position(o) \in 1..Len(IdOrder) /\ IdOrder[Position(o)] = o
        /\ Position(id) \in 1..Len(IdOrder) /\ IdOrder[Position(id)] = id
    BY PositionIs
  <2>3. Position(o) # Position(id)
    BY <2>2
  <2>4. QED
    BY <1>1, <2>1, <2>2, <2>3
<1>6. QED
  BY <1>5, Zenon

\* The index leads to agents that were written, and elsewhere is left alone.
LEMMA IndexAfterWrites ==
  ASSUME NEW reg, NEW index \in [Signers -> AgentIds \cup {None}],
         NEW ids \in SUBSET AgentIds
  PROVE  SetAgents(reg, index, ids) \in [Signers -> AgentIds \cup {None}]
<1>1. ASSUME NEW s \in Signers
      PROVE  SetAgents(reg, index, ids)[s] \in AgentIds \cup {None}
  <2> DEFINE W == Writers(reg, ids, s)
             Last == CHOOSE id \in W : \A o \in W \ {id} : Position(o) < Position(id)
  <2>1. SetAgents(reg, index, ids)[s] = IF W = {} THEN index[s] ELSE Last
    BY DEF SetAgents
  <2>2. W # {} => Last \in W
    <3>1. W \in SUBSET AgentIds
      BY DEF Writers
    <3> HIDE DEF W
    <3>2. QED
      BY <3>1, OneIsLast
  <2>3. W \subseteq AgentIds
    BY DEF Writers
  <2> HIDE DEF W, Last
  <2>4. QED
    BY <2>1, <2>2, <2>3
<1>2. QED
  BY <1>1 DEF SetAgents

\* Where no agent was written, the index stays.
LEMMA IndexElsewhere ==
  ASSUME NEW reg, NEW index, NEW ids, NEW s \in Signers, Writers(reg, ids, s) = {}
  PROVE  SetAgents(reg, index, ids)[s] = index[s]
BY DEF SetAgents

\* An agent that alone has its signer is found by it once it is written.
LEMMA IndexOfTheOnlyOne ==
  ASSUME NEW reg, NEW index, NEW ids, NEW s \in Signers, NEW id,
         Writers(reg, ids, s) = {id}
  PROVE  SetAgents(reg, index, ids)[s] = id
<1> DEFINE W == Writers(reg, ids, s)
<1>1. SetAgents(reg, index, ids)[s] =
        IF W = {} THEN index[s]
        ELSE CHOOSE o \in W : \A q \in W \ {o} : Position(q) < Position(o)
  BY DEF SetAgents
<1> HIDE DEF W
<1>2. W = {id}
  BY DEF W
<1>3. (CHOOSE o \in W : \A q \in W \ {o} : Position(q) < Position(o)) = id
  <2>1. \A q \in W \ {id} : Position(q) < Position(id)
    BY <1>2
  <2>2. (CHOOSE o \in W : \A q \in W \ {o} : Position(q) < Position(o)) \in W
    BY <1>2, <2>1, Zenon
  <2>3. QED
    BY <1>2, <2>2
<1>4. QED
  BY <1>1, <1>2, <1>3

\* A genesis file gives every id one of the agents listed under it (InitGenesis).
LEMMA AgentsOfGenesis ==
  ASSUME NEW A \in SUBSET Applicants
  PROVE  /\ DOMAIN AsFunction(A) = {a.id : a \in A}
         /\ \A id \in {a.id : a \in A} : \E a \in A :
              /\ a.id = id
              /\ AsFunction(A)[id] =
                   [operator |-> a.operator, signer |-> a.signer, key |-> a.key,
                    power |-> a.power, active |-> a.active]
<1>1. DOMAIN AsFunction(A) = {a.id : a \in A}
  BY DEF AsFunction
<1>2. ASSUME NEW id \in {a.id : a \in A}
      PROVE  \E a \in A :
               /\ a.id = id
               /\ AsFunction(A)[id] =
                   [operator |-> a.operator, signer |-> a.signer, key |-> a.key,
                    power |-> a.power, active |-> a.active]
  <2>1. \E b \in A : b.id = id
    OBVIOUS
  <2>2. PICK a : a = CHOOSE b \in A : b.id = id
    OBVIOUS
  <2>3. a \in A /\ a.id = id
    BY <2>1, <2>2
  <2>4. AsFunction(A)[id] =
          [operator |-> a.operator, signer |-> a.signer, key |-> a.key,
           power |-> a.power, active |-> a.active]
    BY <2>2 DEF AsFunction
  <2>5. QED
    BY <2>3, <2>4
<1>3. QED
  BY <1>1, <1>2

\* What is registered is an agent (RegisterAgent, InitGenesis).
LEMMA ApplicantIsAgent ==
  ASSUME NEW c \in Applicants
  PROVE  /\ c.id \in AgentIds
         /\ [operator |-> c.operator, signer |-> c.signer, key |-> c.key,
             power |-> c.power, active |-> c.active] \in AgentInfo
BY ApplicantsAssumption DEF ApplicantsAssumption, AgentInfo

\* The agents of a genesis file are agents under ids.
LEMMA GenesisIsTyped ==
  ASSUME NEW A \in SUBSET Applicants
  PROVE  /\ DOMAIN AsFunction(A) \in SUBSET AgentIds
         /\ \A id \in DOMAIN AsFunction(A) : AsFunction(A)[id] \in AgentInfo
<1>1. \A id \in {a.id : a \in A} : \E a \in A :
        /\ a.id = id
        /\ AsFunction(A)[id] =
             [operator |-> a.operator, signer |-> a.signer, key |-> a.key,
              power |-> a.power, active |-> a.active]
  BY AgentsOfGenesis
<1>2. DOMAIN AsFunction(A) = {a.id : a \in A}
  BY AgentsOfGenesis
<1>3. \A id \in {a.id : a \in A} : id \in AgentIds /\ AsFunction(A)[id] \in AgentInfo
  BY <1>1, ApplicantIsAgent
<1>4. QED
  BY <1>2, <1>3

\* A registered agent is stored as it came with the message (RegisterAgent).
LEMMA AgentOfMessage ==
  ASSUME NEW c \in Applicants
  PROVE  AsFunction({c})[c.id] =
           [operator |-> c.operator, signer |-> c.signer, key |-> c.key,
            power |-> c.power, active |-> c.active]
<1>1. PICK a \in {c} : AsFunction({c})[c.id] =
        [operator |-> a.operator, signer |-> a.signer, key |-> a.key,
         power |-> a.power, active |-> a.active]
  <2>1. c.id \in {a.id : a \in {c}} /\ {c} \in SUBSET Applicants
    OBVIOUS
  <2>2. \A id \in {a.id : a \in {c}} : \E a \in {c} :
          /\ a.id = id
          /\ AsFunction({c})[id] =
               [operator |-> a.operator, signer |-> a.signer, key |-> a.key,
                power |-> a.power, active |-> a.active]
    BY <2>1, AgentsOfGenesis
  <2>3. QED
    BY <2>1, <2>2, Zenon
<1>2. a = c
  OBVIOUS
<1>3. QED
  BY <1>1, <1>2

\* The fields of an agent after a synchronisation.
LEMMA AgentActivity ==
  ASSUME NEW a \in AgentInfo, NEW b, NEW p
  PROVE  [a EXCEPT !.active = b, !.power = p] =
           [operator |-> a.operator, signer |-> a.signer, key |-> a.key,
            power |-> p, active |-> b]
<1>1. a = [operator |-> a.operator, signer |-> a.signer, key |-> a.key,
           power |-> a.power, active |-> a.active]
  BY DEF AgentInfo
<1>2. PICK m : m = [a EXCEPT !.active = b]
  OBVIOUS
<1>3. m = [operator |-> a.operator, signer |-> a.signer, key |-> a.key,
           power |-> a.power, active |-> b]
  BY <1>1, <1>2
<1>4. [a EXCEPT !.active = b, !.power = p] = [m EXCEPT !.power = p]
  BY <1>2, Zenon
<1>5. [m EXCEPT !.power = p] =
        [operator |-> a.operator, signer |-> a.signer, key |-> a.key,
         power |-> p, active |-> b]
  BY <1>3
<1>6. QED
  BY <1>4, <1>5, Zenon

\* What the application tells about a validator (SyncSanctionAgentsWithStaking
\* Validators).
LEMMA StateIsTyped ==
  ASSUME NEW op \in Operators, NEW v \in Validator
  PROVE  /\ State(op, v).active \in BOOLEAN
         /\ State(op, v).power \in Nat
         /\ State(op, v).signer \in Signers
         /\ State(op, v).signer = OperatorAccount[op]
         /\ State(op, v).key \in {"own", "none"}
         /\ State(op, v).active => /\ v.bonded /\ ~v.jailed
                                   /\ State(op, v).power = v.power /\ v.power > 0
         /\ v.bonded /\ ~v.jailed /\ v.power > 0 => State(op, v).active
         /\ op \in keyed => State(op, v).key = "own"
<1>1. v.bonded \in BOOLEAN /\ v.jailed \in BOOLEAN /\ v.power \in Nat
  BY BoundsAssumption DEF Validator, BoundsAssumption
<1>2. OperatorAccount[op] \in Signers
  BY NamesAssumption DEF NamesAssumption
<1>3. QED
  BY <1>1, <1>2 DEF State

\* An agent that follows a validator keeps its operator and its signer; it is
\* active just when it has a key and the validator is in the active set, and then
\* its power is the stake.
LEMMA RefreshedFollows ==
  ASSUME NEW a \in AgentInfo, a.operator \in Operators,
         NEW v \in Validator \cup {None}
  PROVE  /\ Refreshed(a, v) \in AgentInfo
         /\ Refreshed(a, v).operator = a.operator
         /\ Refreshed(a, v).signer = a.signer
         /\ Refreshed(a, v).key \in {a.key, "own", "none"}
         /\ Refreshed(a, v).active =>
              /\ v # None /\ v.bonded /\ ~v.jailed /\ v.power > 0
              /\ Refreshed(a, v).power = v.power
         /\ /\ v # None /\ v.bonded /\ ~v.jailed /\ v.power > 0
            /\ Refreshed(a, v).key # "none"
            => Refreshed(a, v).active
<1>1. CASE v = None
  <2>1. Refreshed(a, v) = [a EXCEPT !.active = FALSE, !.power = 0]
    BY <1>1, Zenon DEF Refreshed
  <2>2. Refreshed(a, v) =
          [operator |-> a.operator, signer |-> a.signer, key |-> a.key,
           power |-> 0, active |-> FALSE]
    <3>1. [a EXCEPT !.active = FALSE, !.power = 0] =
            [operator |-> a.operator, signer |-> a.signer, key |-> a.key,
             power |-> 0, active |-> FALSE]
      BY AgentActivity, Zenon
    <3>2. QED
      BY <2>1, <3>1, Zenon
  <2>3. QED
    BY <1>1, <2>2 DEF AgentInfo
<1>2. CASE v # None
  <2>1. v \in Validator
    BY <1>2
  <2>2. PICK s : s = State(a.operator, v)
    OBVIOUS
  <2>3. /\ s.active \in BOOLEAN /\ s.power \in Nat /\ s.key \in {"own", "none"}
        /\ s.active => v.bonded /\ ~v.jailed /\ s.power = v.power /\ v.power > 0
        /\ v.bonded /\ ~v.jailed /\ v.power > 0 => s.active
    BY <2>1, <2>2, StateIsTyped
  <2>4. PICK n : n = [a EXCEPT !.key = FilledKey(a, s)]
    OBVIOUS
  <2>5. /\ n \in AgentInfo /\ n.key \in {a.key, "own", "none"}
        /\ n.operator = a.operator /\ n.signer = a.signer
    <3>1. FilledKey(a, s) \in Keys /\ FilledKey(a, s) \in {a.key, "own", "none"}
      BY <2>3 DEF FilledKey, Keys, AgentInfo
    <3>2. QED
      BY <2>4, <3>1 DEF AgentInfo
  <2>6. Refreshed(a, v) =
          IF s.active /\ n.key # "none" THEN [n EXCEPT !.active = TRUE, !.power = s.power]
          ELSE [n EXCEPT !.active = FALSE, !.power = 0]
    BY <1>2, <2>2, <2>4, Zenon DEF Refreshed
  <2>7. CASE s.active /\ n.key # "none"
    <3>1. Refreshed(a, v) = [n EXCEPT !.active = TRUE, !.power = s.power]
      BY <2>6, <2>7, Zenon
    <3>2. \A b, p : [n EXCEPT !.active = b, !.power = p] =
            [operator |-> n.operator, signer |-> n.signer, key |-> n.key,
             power |-> p, active |-> b]
      BY <2>5, AgentActivity, Zenon
    <3>3. [n EXCEPT !.active = TRUE, !.power = s.power] =
            [operator |-> n.operator, signer |-> n.signer, key |-> n.key,
             power |-> s.power, active |-> TRUE]
      BY <3>2, Zenon
    <3>4. Refreshed(a, v) =
            [operator |-> n.operator, signer |-> n.signer, key |-> n.key,
             power |-> s.power, active |-> TRUE]
      BY <3>1, <3>3, Zenon
    <3>5. Refreshed(a, v) \in AgentInfo
      BY <2>3, <2>5, <3>4 DEF AgentInfo
    <3>6. QED
      BY <1>2, <2>3, <2>5, <2>7, <3>4, <3>5
  <2>8. CASE ~(s.active /\ n.key # "none")
    <3>1. Refreshed(a, v) = [n EXCEPT !.active = FALSE, !.power = 0]
      BY <2>6, <2>8, Zenon
    <3>2. [n EXCEPT !.active = FALSE, !.power = 0] =
            [operator |-> n.operator, signer |-> n.signer, key |-> n.key,
             power |-> 0, active |-> FALSE]
      BY <2>5, AgentActivity, Zenon
    <3>3. Refreshed(a, v) =
            [operator |-> n.operator, signer |-> n.signer, key |-> n.key,
             power |-> 0, active |-> FALSE]
      BY <3>1, <3>2, Zenon
    <3>4. Refreshed(a, v) \in AgentInfo
      BY <2>3, <2>5, <3>3 DEF AgentInfo
    <3>5. QED
      BY <1>2, <2>3, <2>5, <2>8, <3>3, <3>4
  <2>9. QED
    BY <2>7, <2>8
<1>3. QED
  BY <1>1, <1>2

\* What is known of a validator that gets an agent of its own.
LEMMA AddedIsActive ==
  ASSUME NEW vals \in [Operators -> Validator \cup {None}], NEW op \in Added(vals)
  PROVE  /\ op \in Operators /\ op \in keyed /\ vals[op] \in Validator
         /\ vals[op].bonded /\ ~vals[op].jailed /\ vals[op].power > 0
         /\ State(op, vals[op]) =
              [active |-> TRUE, power |-> vals[op].power,
               signer |-> OperatorAccount[op], key |-> "own"]
         /\ ValidatorId[op] \in AgentIds /\ agents[ValidatorId[op]] = None
         /\ \A id \in Bound : agents[id].operator # op
<1>1. /\ op \in Operators /\ op \in keyed /\ vals[op] \in Validator
      /\ State(op, vals[op]).active
      /\ agents[ValidatorId[op]] = None /\ \A id \in Bound : agents[id].operator # op
  BY DEF Added
<1>2. /\ vals[op].bonded /\ ~vals[op].jailed /\ vals[op].power > 0
      /\ State(op, vals[op]).power = vals[op].power
  BY <1>1, StateIsTyped
<1>3. ValidatorId[op] \in AgentIds
  BY <1>1, NamesAssumption DEF NamesAssumption
<1>4. State(op, vals[op]) =
        [active |-> TRUE, power |-> vals[op].power,
         signer |-> OperatorAccount[op], key |-> "own"]
  BY <1>1, <1>2 DEF State
<1>5. QED
  BY <1>1, <1>2, <1>3, <1>4

\* What a synchronisation makes of each agent.
LEMMA AgentsAfterSync ==
  ASSUME NEW vals \in [Operators -> Validator \cup {None}]
  PROVE  /\ \A id \in Bound :
              Synced(vals)[id] = Refreshed(agents[id], vals[agents[id].operator])
         /\ \A id \in AgentIds \ Bound :
              (\A op \in Added(vals) : id # ValidatorId[op]) => Synced(vals)[id] = agents[id]
         /\ \A op \in Added(vals) :
              Synced(vals)[ValidatorId[op]] =
                [operator |-> op, signer |-> OperatorAccount[op], key |-> "own",
                 power |-> vals[op].power, active |-> TRUE]
<1>1. ASSUME NEW id \in Bound
      PROVE  Synced(vals)[id] = Refreshed(agents[id], vals[agents[id].operator])
  BY DEF Synced, Bound, Registered
<1>2. ASSUME NEW id \in AgentIds \ Bound, \A op \in Added(vals) : id # ValidatorId[op]
      PROVE  Synced(vals)[id] = agents[id]
  BY <1>2 DEF Synced
<1>3. ASSUME NEW op \in Added(vals)
      PROVE  Synced(vals)[ValidatorId[op]] =
               [operator |-> op, signer |-> OperatorAccount[op], key |-> "own",
                power |-> vals[op].power, active |-> TRUE]
  <2>1. ValidatorId[op] \in AgentIds \ Bound
    BY AddedIsActive DEF Bound, Registered
  <2>2. PICK o : o = CHOOSE p \in Added(vals) : ValidatorId[op] = ValidatorId[p]
    OBVIOUS
  <2>3. o \in Added(vals) /\ ValidatorId[op] = ValidatorId[o]
    BY <2>2
  <2>4. o = op
    <3>1. o \in Operators /\ op \in Operators
      BY <2>3, AddedIsActive
    <3>2. QED
      BY <2>3, <3>1, NamesAssumption DEF NamesAssumption, Injective
  <2>5. Synced(vals)[ValidatorId[op]] =
          [operator |-> o, signer |-> State(o, vals[o]).signer, key |-> State(o, vals[o]).key,
           power |-> State(o, vals[o]).power, active |-> TRUE]
    BY <2>1, <2>2 DEF Synced
  <2>6. State(op, vals[op]) =
          [active |-> TRUE, power |-> vals[op].power,
           signer |-> OperatorAccount[op], key |-> "own"]
    BY AddedIsActive
  <2>7. QED
    BY <2>4, <2>5, <2>6
<1>4. QED
  BY <1>1, <1>2, <1>3

\* The three ways in which an id has the agent a after a synchronisation.
Follows(id, a, vals) ==
  /\ id \in Bound /\ agents[id] \in AgentInfo
  /\ agents[id].operator \in Operators
  /\ vals[agents[id].operator] \in Validator \cup {None}
  /\ a = Refreshed(agents[id], vals[agents[id].operator])

Stays(id, a) == id \in AgentIds \ Bound /\ a = agents[id]

IsNew(id, a, vals) ==
  \E op \in Added(vals) :
    /\ id = ValidatorId[op]
    /\ a = [operator |-> op, signer |-> OperatorAccount[op], key |-> "own",
            power |-> vals[op].power, active |-> TRUE]

\* Every agent after a synchronisation was there before or belongs to a validator
\* that gets one; only agents of operators change.
LEMMA WhereAgentsComeFrom ==
  ASSUME NEW vals \in [Operators -> Validator \cup {None}],
         agents \in [AgentIds -> AgentInfo \cup {None}], NEW id \in AgentIds,
         NEW a, a = Synced(vals)[id]
  PROVE  Follows(id, a, vals) \/ Stays(id, a) \/ IsNew(id, a, vals)
<1>1. CASE id \in Bound
  <2>1. agents[id] \in AgentInfo /\ agents[id].operator # None
    BY <1>1 DEF Bound, Registered
  <2>2. agents[id].operator \in Operators
    BY <2>1 DEF AgentInfo
  <2>3. QED
    BY <1>1, <2>1, <2>2, AgentsAfterSync DEF Follows
<1>2. CASE id \notin Bound /\ \A op \in Added(vals) : id # ValidatorId[op]
  BY <1>2, AgentsAfterSync DEF Stays
<1>3. CASE \E op \in Added(vals) : id = ValidatorId[op]
  BY <1>3, AgentsAfterSync DEF IsNew
<1>4. QED
  BY <1>1, <1>2, <1>3

\* An agent that a validator gets is one.
LEMMA NewIsAgent ==
  ASSUME NEW vals \in [Operators -> Validator \cup {None}], NEW op \in Added(vals)
  PROVE  Synced(vals)[ValidatorId[op]] \in AgentInfo
<1>1. op \in Operators /\ vals[op] \in Validator
  BY AddedIsActive
<1>2. vals[op].power \in Nat /\ OperatorAccount[op] \in Signers
  BY <1>1, NamesAssumption, BoundsAssumption DEF Validator, NamesAssumption, BoundsAssumption
<1>3. Synced(vals)[ValidatorId[op]] =
        [operator |-> op, signer |-> OperatorAccount[op], key |-> "own",
         power |-> vals[op].power, active |-> TRUE]
  BY AgentsAfterSync
<1>4. QED
  BY <1>1, <1>2, <1>3 DEF AgentInfo, Keys

\* A synchronisation leaves agents under ids, and forgets none.
LEMMA SyncedIsTyped ==
  ASSUME NEW vals \in [Operators -> Validator \cup {None}],
         agents \in [AgentIds -> AgentInfo \cup {None}]
  PROVE  /\ Synced(vals) \in [AgentIds -> AgentInfo \cup {None}]
         /\ \A id \in Registered : Synced(vals)[id] \in AgentInfo
<1>1. ASSUME NEW id \in AgentIds
      PROVE  /\ Synced(vals)[id] \in AgentInfo \cup {None}
             /\ agents[id] # None => Synced(vals)[id] \in AgentInfo
  <2>1. PICK a : a = Synced(vals)[id]
    OBVIOUS
  <2>2. CASE Follows(id, a, vals)
    BY <2>1, <2>2, RefreshedFollows DEF Follows
  <2>3. CASE Stays(id, a)
    BY <2>1, <2>3 DEF Stays
  <2>4. CASE IsNew(id, a, vals)
    BY <2>1, <2>4, NewIsAgent DEF IsNew
  <2>5. QED
    BY <2>1, <2>2, <2>3, <2>4, WhereAgentsComeFrom
<1>2. Synced(vals) = [id \in AgentIds |-> Synced(vals)[id]]
  BY DEF Synced
<1>3. \A id \in Registered : Synced(vals)[id] \in AgentInfo
  BY <1>1 DEF Registered
<1>4. \A id \in AgentIds : Synced(vals)[id] \in AgentInfo \cup {None}
  BY <1>1
<1>5. QED
  BY <1>2, <1>3, <1>4

-----------------------------------------------------------------------------
(***************************************************************************)
(* Types                                                                   *)
(***************************************************************************)

\* The agents of an exported state are imported as they were (InitGenesis).
LEMMA ImportIsTyped ==
  ASSUME NEW reg, DOMAIN reg \in SUBSET AgentIds,
         \A id \in DOMAIN reg : reg[id] \in AgentInfo
  PROVE  /\ Imported(reg) \in [AgentIds -> AgentInfo \cup {None}]
         /\ ImportedIndex(reg) \in [Signers -> AgentIds \cup {None}]
<1>1. Imported(reg) \in [AgentIds -> AgentInfo \cup {None}]
  BY DEF Imported
<1>2. NoIndex \in [Signers -> AgentIds \cup {None}]
  BY DEF NoIndex
<1>3. QED
  BY <1>1, <1>2, IndexAfterWrites DEF ImportedIndex

\* A restart from an exported file changes the index at most.
LEMMA RestartKeeps ==
  ASSUME TypeOK, Restart
  PROVE  /\ ~inBlock
         /\ UNCHANGED <<agents, leases, voters, validators, keyed, unsynced, inBlock>>
         /\ bySigner' = ImportedIndex([id \in Registered |-> agents[id]])
         /\ bySigner' \in [Signers -> AgentIds \cup {None}]
<1> DEFINE reg == [id \in Registered |-> agents[id]]
<1>1. /\ ~inBlock
      /\ agents' = Imported(reg) /\ bySigner' = ImportedIndex(reg)
      /\ leases' = leases /\ voters' = voters
      /\ UNCHANGED <<validators, keyed, unsynced, inBlock>>
  BY DEF Restart, InitGenesis, ExportGenesis
<1>2. DOMAIN reg \in SUBSET AgentIds /\ \A id \in DOMAIN reg : reg[id] \in AgentInfo
  BY DEF TypeOK, Registered
<1>3. bySigner' \in [Signers -> AgentIds \cup {None}]
  <2> HIDE DEF reg
  <2> QED
    BY <1>1, <1>2, ImportIsTyped
<1>4. Imported(reg) = agents
  BY DEF Imported, Registered, TypeOK
<1>5. QED
  BY <1>1, <1>3, <1>4

\* What the end of a block does: staking decides who is bonded, and the registry
\* is synchronised with the validators, if there are any (EndBlocker).
LEMMA EndBlockSyncs ==
  ASSUME TypeOK, EndBlock
  PROVE  \E vals \in [Operators -> Validator \cup {None}] :
           /\ validators' = vals
           /\ \A op \in Operators : vals[op] # None =>
                (vals[op].bonded <=> ~vals[op].jailed /\ vals[op].power > 0)
           /\ \A op \in Operators : validators[op] = None <=> vals[op] = None
           /\ \/ /\ \A op \in Operators : vals[op] = None
                 /\ UNCHANGED <<agents, bySigner, unsynced>>
              \/ SyncAgentRegistryWithValidatorSet(vals) /\ unsynced' = {}
           /\ inBlock' = FALSE
           /\ UNCHANGED <<leases, voters, keyed>>
<1>1. PICK vals : vals = [op \in Operators |-> StakingEndBlock(op)]
  OBVIOUS
<1>2. ASSUME NEW op \in Operators
      PROVE  /\ vals[op] \in Validator \cup {None}
             /\ vals[op] # None =>
                  (vals[op].bonded <=> ~vals[op].jailed /\ vals[op].power > 0)
             /\ validators[op] = None <=> vals[op] = None
  <2>1. PICK v : v = validators[op]
    OBVIOUS
  <2>2. v \in Validator \cup {None}
    BY <2>1 DEF TypeOK
  <2>3. CASE v = None
    BY <1>1, <2>1, <2>3 DEF StakingEndBlock
  <2>4. CASE v # None
    <3>1. PICK b : b = (~v.jailed /\ v.power > 0)
      OBVIOUS
    <3>2. vals[op] = [v EXCEPT !.bonded = b]
      BY <1>1, <2>1, <2>4, <3>1, Zenon DEF StakingEndBlock
    <3>3. v \in Validator /\ b \in BOOLEAN
      BY <2>2, <2>4, <3>1
    <3>4. /\ vals[op] \in Validator /\ vals[op].bonded = b
          /\ vals[op].jailed = v.jailed /\ vals[op].power = v.power
      BY <3>2, <3>3 DEF Validator
    <3>5. vals[op] # None
      BY <3>4, NoneAssumption DEF NoneAssumption
    <3>6. QED
      BY <2>1, <2>4, <3>1, <3>4, <3>5
  <2>5. QED
    BY <2>3, <2>4
<1>3. vals \in [Operators -> Validator \cup {None}]
  <2>1. \A op \in Operators : vals[op] \in Validator \cup {None}
    BY <1>2
  <2>2. QED
    BY <1>1, <2>1
<1>4. /\ validators' = vals
      /\ \/ /\ \A op \in Operators : vals[op] = None
            /\ UNCHANGED <<agents, bySigner, unsynced>>
         \/ SyncAgentRegistryWithValidatorSet(vals) /\ unsynced' = {}
      /\ inBlock' = FALSE
      /\ UNCHANGED <<leases, voters, keyed>>
  BY <1>1, Zenon DEF EndBlock
<1>5. QED
  BY <1>2, <1>3, <1>4

\* Between two ends of blocks no bonded validator disappears or loses its bond;
\* stake, jailing and keys may change (staking).
LEMMA StakingKeepsBonds ==
  ASSUME TypeOK, NEW op \in Operators,
         \/ CreateValidator(op) \/ ChangeValidator(op) \/ RemoveValidator(op)
         \/ FirstSignature(op)
  PROVE  /\ validators' \in [Operators -> Validator \cup {None}]
         /\ keyed' \subseteq Operators
         /\ inBlock' = TRUE
         /\ UNCHANGED <<registryVars, unsynced>>
         /\ \A o \in Operators : validators[o] # None /\ validators[o].bonded =>
              validators'[o] # None /\ validators'[o].bonded
<1> DEFINE Goal ==
      /\ validators' \in [Operators -> Validator \cup {None}]
      /\ keyed' \subseteq Operators
      /\ inBlock' = TRUE
      /\ UNCHANGED <<registryVars, unsynced>>
      /\ \A o \in Operators : validators[o] # None /\ validators[o].bonded =>
           validators'[o] # None /\ validators'[o].bonded
<1>1. ASSUME NEW v \in Validator \cup {None},
             validators' = [validators EXCEPT ![op] = v],
             inBlock' = TRUE, UNCHANGED <<registryVars, unsynced>>,
             keyed' = keyed \/ keyed' = keyed \cup {op},
             validators[op] # None /\ validators[op].bonded => v # None /\ v.bonded
      PROVE  Goal
  <2>1. validators \in [Operators -> Validator \cup {None}] /\ keyed \subseteq Operators
    BY DEF TypeOK
  <2>2. validators' \in [Operators -> Validator \cup {None}] /\ keyed' \subseteq Operators
    BY <1>1, <2>1
  <2>3. ASSUME NEW o \in Operators, validators[o] # None, validators[o].bonded
        PROVE  validators'[o] # None /\ validators'[o].bonded
    BY <1>1, <2>1, <2>3
  <2>4. QED
    BY <1>1, <2>2, <2>3
<1>2. PICK w : w = validators[op]
  OBVIOUS
<1>3. w \in Validator \cup {None}
  BY <1>2 DEF TypeOK
<1>4. CASE CreateValidator(op)
  <2>1. PICK p \in 1..MaxPower : SetValidator(op, [bonded |-> FALSE, jailed |-> FALSE, power |-> p])
    BY <1>4 DEF CreateValidator
  <2>2. validators[op] = None /\ keyed' = keyed \cup {op}
    BY <1>4 DEF CreateValidator
  <2>3. PICK v : v = [bonded |-> FALSE, jailed |-> FALSE, power |-> p]
    OBVIOUS
  <2>4. v \in Validator
    BY <2>3, BoundsAssumption DEF Validator, BoundsAssumption
  <2>5. /\ validators' = [validators EXCEPT ![op] = v]
        /\ inBlock' = TRUE /\ UNCHANGED <<registryVars, unsynced>>
    BY <2>1, <2>3 DEF SetValidator
  <2>6. QED
    BY <1>1, <2>2, <2>4, <2>5
<1>5. CASE ChangeValidator(op)
  <2>1. w \in Validator /\ keyed' = keyed
    BY <1>2, <1>3, <1>5 DEF ChangeValidator
  <2>2. PICK v : /\ SetValidator(op, v)
                 /\ \/ \E p \in 0..MaxPower : v = [w EXCEPT !.power = p]
                    \/ v = [w EXCEPT !.jailed = ~@]
    BY <1>2, <1>5, Zenon DEF ChangeValidator
  <2>3. v \in Validator /\ v.bonded = w.bonded
    <3>1. CASE \E p \in 0..MaxPower : v = [w EXCEPT !.power = p]
      BY <2>1, <3>1 DEF Validator
    <3>2. CASE v = [w EXCEPT !.jailed = ~@]
      BY <2>1, <3>2 DEF Validator
    <3>3. QED
      BY <2>2, <3>1, <3>2
  <2>4. v # None
    BY <2>3, NoneAssumption DEF NoneAssumption
  <2>5. /\ validators' = [validators EXCEPT ![op] = v]
        /\ inBlock' = TRUE /\ UNCHANGED <<registryVars, unsynced>>
    BY <2>2 DEF SetValidator
  <2>6. QED
    BY <1>1, <1>2, <2>1, <2>3, <2>4, <2>5
<1>6. CASE RemoveValidator(op)
  <2>1. SetValidator(op, None) /\ keyed' = keyed /\ ~validators[op].bonded
    BY <1>6 DEF RemoveValidator
  <2>2. /\ validators' = [validators EXCEPT ![op] = None]
        /\ inBlock' = TRUE /\ UNCHANGED <<registryVars, unsynced>>
    BY <2>1 DEF SetValidator
  <2>3. QED
    BY <1>1, <2>1, <2>2
<1>7. CASE FirstSignature(op)
  BY <1>7 DEF FirstSignature, TypeOK
<1>8. QED
  BY <1>4, <1>5, <1>6, <1>7

\* A registration adds an agent under a new id and with a new signer.
LEMMA RegistrationAdds ==
  ASSUME TypeOK, NEW c \in Candidates, RegisterAgent(c)
  PROVE  \E a \in AgentInfo :
           /\ c.id \in AgentIds /\ c.signer \in Signers
           /\ a = [operator |-> c.operator, signer |-> c.signer, key |-> c.key,
                   power |-> c.power, active |-> c.active]
           /\ agents[c.id] = None /\ bySigner[c.signer] = None /\ ValidateAgent(c)
           /\ agents' = [agents EXCEPT ![c.id] = a]
           /\ bySigner' = [bySigner EXCEPT ![c.signer] = c.id]
           /\ unsynced' = unsynced \cup {c.id}
           /\ inBlock' = TRUE
           /\ UNCHANGED <<leases, voters, validators, keyed>>
<1>1. c \in Applicants
  BY DEF Applicants
<1>2. c.id \in AgentIds /\ c.signer \in Signers
  BY <1>1, ApplicantsAssumption DEF ApplicantsAssumption
<1>3. PICK a \in AgentInfo :
        /\ a = AsFunction({c})[c.id]
        /\ a = [operator |-> c.operator, signer |-> c.signer, key |-> c.key,
                power |-> c.power, active |-> c.active]
  BY <1>1, ApplicantIsAgent, AgentOfMessage
<1>4. /\ agents[c.id] = None /\ bySigner[c.signer] = None /\ ValidateAgent(c)
      /\ agents' = [agents EXCEPT ![c.id] = a]
      /\ bySigner' = [bySigner EXCEPT ![c.signer] = c.id]
      /\ unsynced' = unsynced \cup {c.id}
      /\ inBlock' = TRUE
      /\ UNCHANGED <<leases, voters, validators, keyed>>
  BY <1>3, Zenon DEF RegisterAgent
<1>5. QED
  BY <1>2, <1>3, <1>4

\* The index after a synchronisation: first the agents of operators, then the new ones.
LEMMA SyncedIndexIsTyped ==
  ASSUME TypeOK, NEW vals \in [Operators -> Validator \cup {None}],
         SyncAgentRegistryWithValidatorSet(vals)
  PROVE  /\ agents' = Synced(vals)
         /\ bySigner' \in [Signers -> AgentIds \cup {None}]
<1> DEFINE New == {ValidatorId[op] : op \in Added(vals)}
<1>1. PICK reg : reg = Synced(vals)
  OBVIOUS
<1>2. PICK index : index = SetAgents(reg, bySigner, Bound)
  OBVIOUS
<1>3. agents' = reg /\ bySigner' = SetAgents(reg, index, New)
  BY <1>1, <1>2 DEF SyncAgentRegistryWithValidatorSet
<1>4. Bound \in SUBSET AgentIds /\ New \in SUBSET AgentIds
  BY AddedIsActive DEF Bound, Registered
<1>5. bySigner \in [Signers -> AgentIds \cup {None}]
  BY DEF TypeOK
<1>6. index \in [Signers -> AgentIds \cup {None}]
  BY <1>2, <1>4, <1>5, IndexAfterWrites
<1> HIDE DEF New
<1>7. QED
  BY <1>1, <1>3, <1>4, <1>6, IndexAfterWrites

\* The genesis of a chain is well typed.
LEMMA InitIsTyped == Init => TypeOK
<1> SUFFICES ASSUME Init PROVE TypeOK
  OBVIOUS
<1>1. PICK A \in GenesisAgents :
        /\ agents = Imported(AsFunction(A)) /\ bySigner = ImportedIndex(AsFunction(A))
        /\ unsynced = {a.id : a \in A}
  BY DEF Init
<1>2. A \in SUBSET Applicants
  BY DEF Applicants
<1>3. /\ agents \in [AgentIds -> AgentInfo \cup {None}]
      /\ bySigner \in [Signers -> AgentIds \cup {None}]
  BY <1>1, <1>2, GenesisIsTyped, ImportIsTyped
<1>4. unsynced \subseteq AgentIds
  BY <1>1, <1>2, ApplicantIsAgent
<1>5. [bonded |-> TRUE, jailed |-> FALSE, power |-> MaxPower] \in Validator
  BY BoundsAssumption DEF Validator, BoundsAssumption
<1>6. validators \in [Operators -> Validator \cup {None}]
  BY <1>5 DEF Init
<1>7. leases = {} /\ voters = None /\ keyed = {} /\ inBlock = FALSE
  BY DEF Init
<1>8. QED
  BY <1>3, <1>4, <1>6, <1>7 DEF TypeOK

\* Every step keeps the types.
LEMMA StepIsTyped == TypeOK /\ [Next]_vars => TypeOK'
<1> SUFFICES ASSUME TypeOK, [Next]_vars PROVE TypeOK'
  OBVIOUS
<1>1. CASE \E c \in Candidates : RegisterAgent(c)
  <2>1. PICK c \in Candidates : RegisterAgent(c)
    BY <1>1
  <2>2. PICK a \in AgentInfo :
          /\ c.id \in AgentIds /\ c.signer \in Signers
          /\ agents' = [agents EXCEPT ![c.id] = a]
          /\ bySigner' = [bySigner EXCEPT ![c.signer] = c.id]
          /\ unsynced' = unsynced \cup {c.id}
          /\ inBlock' = TRUE
          /\ UNCHANGED <<leases, voters, validators, keyed>>
    BY <2>1, RegistrationAdds, Zenon
  <2>3. QED
    BY <2>2 DEF TypeOK
<1>2. CASE \E s \in Signers : ClaimAgentLease(s)
  BY <1>2 DEF ClaimAgentLease, TypeOK
<1>3. CASE OpenCase
  <2>1. voters' = [id \in Electorate |-> agents[id]]
    BY <1>3 DEF OpenCase, SnapshotCaseVoters
  <2>2. Electorate \subseteq AgentIds /\ \A id \in Electorate : agents[id] \in AgentInfo
    BY DEF Electorate, Registered, TypeOK
  <2>3. DOMAIN voters' \subseteq AgentIds /\ voters' \in [DOMAIN voters' -> AgentInfo]
    BY <2>1, <2>2
  <2>4. inBlock' = TRUE
        /\ UNCHANGED <<agents, bySigner, leases, validators, keyed, unsynced>>
    BY <1>3 DEF OpenCase
  <2>5. QED
    BY <2>3, <2>4 DEF TypeOK
<1>4. CASE \E op \in Operators : \/ CreateValidator(op) \/ ChangeValidator(op)
                                 \/ RemoveValidator(op) \/ FirstSignature(op)
  <2>1. /\ validators' \in [Operators -> Validator \cup {None}]
        /\ keyed' \subseteq Operators /\ inBlock' = TRUE
        /\ UNCHANGED <<registryVars, unsynced>>
    BY <1>4, StakingKeepsBonds
  <2>2. QED
    BY <2>1 DEF TypeOK, registryVars
<1>5. CASE EndBlock
  <2>1. PICK vals \in [Operators -> Validator \cup {None}] :
          /\ validators' = vals
          /\ \/ UNCHANGED <<agents, bySigner, unsynced>>
             \/ SyncAgentRegistryWithValidatorSet(vals) /\ unsynced' = {}
          /\ inBlock' = FALSE
          /\ UNCHANGED <<leases, voters, keyed>>
    BY <1>5, EndBlockSyncs, Zenon
  <2>2. /\ agents' \in [AgentIds -> AgentInfo \cup {None}]
        /\ bySigner' \in [Signers -> AgentIds \cup {None}]
        /\ unsynced' \subseteq AgentIds
    <3>1. CASE UNCHANGED <<agents, bySigner, unsynced>>
      BY <3>1 DEF TypeOK
    <3>2. CASE SyncAgentRegistryWithValidatorSet(vals) /\ unsynced' = {}
      <4>1. agents' = Synced(vals) /\ bySigner' \in [Signers -> AgentIds \cup {None}]
        BY <3>2, SyncedIndexIsTyped
      <4>2. agents \in [AgentIds -> AgentInfo \cup {None}]
        BY DEF TypeOK
      <4>3. QED
        BY <3>2, <4>1, <4>2, SyncedIsTyped
    <3>3. QED
      BY <2>1, <3>1, <3>2
  <2>3. QED
    BY <2>1, <2>2 DEF TypeOK
<1>6. CASE Restart
  BY <1>6, RestartKeeps DEF TypeOK
<1>7. CASE UNCHANGED vars
  BY <1>7 DEF TypeOK, vars
<1>8. QED
  BY <1>1, <1>2, <1>3, <1>4, <1>5, <1>6, <1>7 DEF Next

-----------------------------------------------------------------------------
(***************************************************************************)
(* Votes follow stake                                                      *)
(***************************************************************************)

\* Within a block agents stay with bonded validators.
LEMMA BondsSuffice ==
  ASSUME TypeOK, FollowsStake, agents' = agents, unsynced' = unsynced, inBlock' = TRUE,
         \A o \in Operators : validators[o] # None /\ validators[o].bonded =>
           validators'[o] # None /\ validators'[o].bonded
  PROVE  FollowsStake'
<1>1. ASSUME NEW id \in (Bound \ unsynced)', agents'[id].active
      PROVE  /\ validators'[agents'[id].operator] # None
             /\ validators'[agents'[id].operator].bonded
  <2>1. id \in Bound \ unsynced /\ agents[id].active
    BY <1>1 DEF Bound, Registered
  <2>2. agents[id].operator \in Operators
    BY <2>1 DEF Bound, Registered, TypeOK, AgentInfo
  <2>3. QED
    BY <2>1, <2>2 DEF FollowsStake
<1>2. QED
  BY <1>1 DEF FollowsStake

\* After a synchronisation the agents of operators have the power of validators in
\* the active set, and every such validator with a known key is represented.
LEMMA SyncFollowsStake ==
  ASSUME TypeOK, NEW vals \in [Operators -> Validator \cup {None}],
         SyncAgentRegistryWithValidatorSet(vals), validators' = vals, keyed' = keyed,
         \A op \in Operators : vals[op] # None =>
           (vals[op].bonded <=> ~vals[op].jailed /\ vals[op].power > 0)
  PROVE  /\ FollowsStake'
         /\ \A op \in keyed' : validators'[op] # None /\ validators'[op].bonded =>
              Represented(op)'
<1>1. PICK reg : reg = Synced(vals) /\ agents' = reg
  BY DEF SyncAgentRegistryWithValidatorSet
<1>2. reg \in [AgentIds -> AgentInfo \cup {None}] /\ \A id \in Registered : reg[id] \in AgentInfo
  BY <1>1, SyncedIsTyped DEF TypeOK
<1>3. \A id \in AgentIds :
        Follows(id, reg[id], vals) \/ Stays(id, reg[id]) \/ IsNew(id, reg[id], vals)
  BY <1>1, WhereAgentsComeFrom DEF TypeOK
<1>4. ASSUME NEW id \in AgentIds, reg[id] # None, reg[id].operator # None, reg[id].active
      PROVE  /\ vals[reg[id].operator] # None
             /\ vals[reg[id].operator].bonded /\ ~vals[reg[id].operator].jailed
             /\ vals[reg[id].operator].power = reg[id].power
  <2>1. CASE Follows(id, reg[id], vals)
    BY <1>4, <2>1, RefreshedFollows DEF Follows
  <2>2. CASE Stays(id, reg[id])
    BY <1>4, <2>2 DEF Stays, Bound, Registered
  <2>3. CASE IsNew(id, reg[id], vals)
    <3>1. PICK op \in Added(vals) :
            reg[id] = [operator |-> op, signer |-> OperatorAccount[op], key |-> "own",
                      power |-> vals[op].power, active |-> TRUE]
      BY <2>3 DEF IsNew
    <3>2. vals[op] \in Validator /\ vals[op].bonded /\ ~vals[op].jailed
      BY AddedIsActive
    <3>3. QED
      BY <3>1, <3>2, NoneAssumption DEF NoneAssumption
  <2>4. QED
    BY <1>3, <2>1, <2>2, <2>3
<1>5. FollowsStake'
  <2>1. \A id \in Bound' : id \in AgentIds /\ reg[id] # None /\ reg[id].operator # None
    BY <1>1 DEF Bound, Registered
  <2>2. QED
    BY <1>1, <1>4, <2>1 DEF FollowsStake
<1>6. ASSUME NEW op \in keyed, vals[op] # None, vals[op].bonded
      PROVE  \/ \E id \in AgentIds : /\ reg[id] # None /\ reg[id].operator = op
                                     /\ Eligible(reg[id])
             \/ \E id \in AgentIds : /\ reg[id] # None /\ reg[id].operator = op
                                     /\ reg[id].key = "none"
             \/ reg[ValidatorId[op]] # None /\ reg[ValidatorId[op]].operator # op
  <2>1. op \in Operators /\ vals[op] \in Validator /\ ValidatorId[op] \in AgentIds
    BY <1>6, NamesAssumption DEF TypeOK, NamesAssumption
  <2>2. ~vals[op].jailed /\ vals[op].power > 0
    BY <1>6, <2>1
  <2>3. CASE \E id \in Bound : agents[id].operator = op
    <3>1. PICK id \in Bound : agents[id].operator = op
      BY <2>3
    <3>2. id \in AgentIds /\ agents[id] \in AgentInfo
      BY DEF Bound, Registered, TypeOK
    <3>3. reg[id] = Refreshed(agents[id], vals[op])
      BY <1>1, <3>1, AgentsAfterSync
    <3>4. /\ reg[id] \in AgentInfo /\ reg[id].operator = op
          /\ reg[id].key # "none" => reg[id].active /\ reg[id].power = vals[op].power
      BY <1>6, <2>1, <2>2, <3>1, <3>2, <3>3, RefreshedFollows
    <3>5. reg[id] # None
      BY <3>4, NoneAssumption DEF NoneAssumption
    <3>6. CASE reg[id].key = "none"
      BY <3>2, <3>4, <3>5, <3>6
    <3>7. CASE reg[id].key # "none"
      <4>1. Eligible(reg[id])
        BY <2>2, <3>4, <3>7 DEF Eligible
      <4>2. QED
        BY <3>2, <3>4, <3>5, <4>1
    <3>8. QED
      BY <3>6, <3>7
  <2>4. CASE (\A id \in Bound : agents[id].operator # op) /\ agents[ValidatorId[op]] = None
    <3>1. State(op, vals[op]).active
      BY <1>6, <2>1, <2>2, StateIsTyped
    <3>2. op \in Added(vals)
      BY <1>6, <2>1, <2>4, <3>1 DEF Added
    <3>3. reg[ValidatorId[op]] =
            [operator |-> op, signer |-> OperatorAccount[op], key |-> "own",
             power |-> vals[op].power, active |-> TRUE]
      BY <1>1, <3>2, AgentsAfterSync
    <3>4. Eligible(reg[ValidatorId[op]])
      BY <2>2, <3>3 DEF Eligible
    <3>5. reg[ValidatorId[op]] \in AgentInfo
      <4>1. vals[op].power \in Nat /\ OperatorAccount[op] \in Signers
        BY <2>1, NamesAssumption, BoundsAssumption
           DEF Validator, NamesAssumption, BoundsAssumption
      <4>2. QED
        BY <2>1, <3>3, <4>1 DEF AgentInfo, Keys
    <3>6. reg[ValidatorId[op]] # None
      BY <3>5, NoneAssumption DEF NoneAssumption
    <3>7. reg[ValidatorId[op]].operator = op
      BY <3>3
    <3>8. QED
      BY <2>1, <3>4, <3>6, <3>7
  <2>5. CASE (\A id \in Bound : agents[id].operator # op) /\ agents[ValidatorId[op]] # None
    <3>1. PICK i : i = ValidatorId[op]
      OBVIOUS
    <3>2. i \in AgentIds /\ agents[i] \in AgentInfo /\ i \in Registered
      BY <2>1, <2>5, <3>1 DEF Registered, TypeOK
    <3>3. agents[i].operator # op
      <4>1. op # None
        BY <2>1, NoneAssumption DEF NoneAssumption
      <4>2. agents[i].operator = op => i \in Bound
        BY <3>2, <4>1 DEF Bound
      <4>3. QED
        BY <2>5, <4>2
    <3>4. reg[i] \in AgentInfo
      BY <1>2, <3>2
    <3>5. reg[i].operator = agents[i].operator
      <4>1. CASE Follows(i, reg[i], vals)
        BY <4>1, RefreshedFollows DEF Follows
      <4>2. CASE Stays(i, reg[i])
        BY <4>2 DEF Stays
      <4>3. CASE IsNew(i, reg[i], vals)
        BY <2>5, <3>1, <4>3, AddedIsActive DEF IsNew
      <4>4. QED
        BY <1>3, <3>2, <4>1, <4>2, <4>3
    <3>6. reg[i] # None
      BY <3>4, NoneAssumption DEF NoneAssumption
    <3>7. QED
      BY <3>1, <3>3, <3>5, <3>6
  <2>6. QED
    BY <2>3, <2>4, <2>5
<1>7. ASSUME NEW op \in keyed', validators'[op] # None, validators'[op].bonded
      PROVE  Represented(op)'
  <2>1. op \in keyed /\ vals[op] # None /\ vals[op].bonded
    BY <1>7
  <2>2. op # None
    BY <2>1, NoneAssumption DEF NoneAssumption, TypeOK
  <2>3. Registered' = {id \in AgentIds : reg[id] # None}
    BY <1>1 DEF Registered
  <2>4. Electorate' = {id \in Registered' : Eligible(reg[id])}
    BY <1>1 DEF Electorate, Eligible
  <2>5. Bound' = {id \in Registered' : reg[id].operator # None}
    BY <1>1 DEF Bound, Registered
  <2>6. QED
    BY <1>1, <1>6, <2>1, <2>2, <2>3, <2>4, <2>5 DEF Represented
<1>8. QED
  BY <1>5, <1>7

\* A chain starts with agents that no synchronisation has seen.
LEMMA StakeAtGenesis == Init => StakeInv
<1> SUFFICES ASSUME Init PROVE StakeInv
  OBVIOUS
<1>1. TypeOK
  BY InitIsTyped
<1>2. PICK A \in GenesisAgents :
        agents = Imported(AsFunction(A)) /\ unsynced = {a.id : a \in A}
  BY DEF Init
<1>3. DOMAIN AsFunction(A) = {a.id : a \in A}
  BY DEF AsFunction
<1>4. Registered \subseteq unsynced
  BY <1>2, <1>3 DEF Registered, Imported
<1>5. FollowsStake
  BY <1>4 DEF FollowsStake, Bound
<1>6. keyed = {}
  BY DEF Init
<1>7. ValidatorsRepresented
  BY <1>6 DEF ValidatorsRepresented
<1>8. QED
  BY <1>1, <1>5, <1>7 DEF StakeInv

\* Every step keeps the votes on the bonded stake.
LEMMA StakeStep == StakeInv /\ [Next]_vars => StakeInv'
<1> SUFFICES ASSUME StakeInv, [Next]_vars PROVE StakeInv'
  OBVIOUS
<1>1. TypeOK /\ TypeOK' /\ FollowsStake /\ ValidatorsRepresented
  BY StepIsTyped DEF StakeInv
<1>2. CASE \E c \in Candidates : RegisterAgent(c)
  <2>1. PICK c \in Candidates : RegisterAgent(c)
    BY <1>2
  <2>2. PICK a \in AgentInfo :
          /\ c.id \in AgentIds
          /\ agents' = [agents EXCEPT ![c.id] = a]
          /\ unsynced' = unsynced \cup {c.id}
          /\ inBlock' = TRUE
          /\ validators' = validators
    BY <1>1, <2>1, RegistrationAdds, Zenon
  <2>3. ASSUME NEW id \in (Bound \ unsynced)', agents'[id].active
        PROVE  /\ validators'[agents'[id].operator] # None
               /\ validators'[agents'[id].operator].bonded
    <3>1. agents \in [AgentIds -> AgentInfo \cup {None}]
      BY <1>1 DEF TypeOK
    <3>2. id \in AgentIds /\ id # c.id /\ id \notin unsynced
      BY <2>2, <2>3 DEF Bound, Registered
    <3>3. agents'[id] = agents[id]
      BY <2>2, <3>1, <3>2
    <3>4. id \in Bound \ unsynced
      BY <2>3, <3>2, <3>3 DEF Bound, Registered
    <3>5. QED
      BY <1>1, <2>2, <2>3, <3>3, <3>4 DEF FollowsStake
  <2>4. FollowsStake'
    BY <2>2, <2>3 DEF FollowsStake
  <2>5. QED
    BY <1>1, <2>2, <2>4 DEF StakeInv, ValidatorsRepresented
<1>3. CASE (\E s \in Signers : ClaimAgentLease(s)) \/ OpenCase
  <2>1. inBlock' = TRUE /\ UNCHANGED <<agents, validators, unsynced>>
    BY <1>3 DEF ClaimAgentLease, OpenCase
  <2>2. FollowsStake'
    BY <1>1, <2>1, BondsSuffice
  <2>3. QED
    BY <1>1, <2>1, <2>2 DEF StakeInv, ValidatorsRepresented
<1>4. CASE \E op \in Operators : \/ CreateValidator(op) \/ ChangeValidator(op)
                                 \/ RemoveValidator(op) \/ FirstSignature(op)
  <2>1. /\ inBlock' = TRUE /\ UNCHANGED <<registryVars, unsynced>>
        /\ \A o \in Operators : validators[o] # None /\ validators[o].bonded =>
             validators'[o] # None /\ validators'[o].bonded
    BY <1>1, <1>4, StakingKeepsBonds
  <2>2. agents' = agents /\ unsynced' = unsynced
    BY <2>1 DEF registryVars
  <2>3. FollowsStake'
    BY <1>1, <2>1, <2>2, BondsSuffice
  <2>4. QED
    BY <1>1, <2>1, <2>3 DEF StakeInv, ValidatorsRepresented
<1>5. CASE EndBlock
  <2>1. PICK vals \in [Operators -> Validator \cup {None}] :
          /\ validators' = vals
          /\ \A op \in Operators : vals[op] # None =>
               (vals[op].bonded <=> ~vals[op].jailed /\ vals[op].power > 0)
          /\ \A op \in Operators : validators[op] = None <=> vals[op] = None
          /\ \/ /\ \A op \in Operators : vals[op] = None
                /\ UNCHANGED <<agents, bySigner, unsynced>>
             \/ SyncAgentRegistryWithValidatorSet(vals) /\ unsynced' = {}
          /\ UNCHANGED <<leases, voters, keyed>>
    BY <1>1, <1>5, EndBlockSyncs, Zenon
  <2>2. CASE /\ \A op \in Operators : vals[op] = None
             /\ UNCHANGED <<agents, bySigner, unsynced>>
    <3>1. \A op \in Operators : validators[op] = None /\ validators'[op] = None
      BY <2>1, <2>2
    <3>2. \A id \in Bound : agents[id].operator \in Operators
      BY <1>1 DEF Bound, Registered, TypeOK, AgentInfo
    <3>3. \A id \in Bound \ unsynced : ~agents[id].active
      BY <1>1, <3>1, <3>2 DEF FollowsStake
    <3>4. FollowsStake'
      BY <2>2, <3>3 DEF FollowsStake, Bound, Registered
    <3>5. keyed' \subseteq Operators
      BY <1>1 DEF TypeOK
    <3>6. ValidatorsRepresented'
      BY <3>1, <3>5 DEF ValidatorsRepresented
    <3>7. QED
      BY <1>1, <3>4, <3>6 DEF StakeInv
  <2>3. CASE SyncAgentRegistryWithValidatorSet(vals) /\ unsynced' = {}
    <3>1. /\ FollowsStake'
          /\ \A op \in keyed' : validators'[op] # None /\ validators'[op].bonded =>
               Represented(op)'
      BY <1>1, <2>1, <2>3, SyncFollowsStake
    <3>2. ValidatorsRepresented'
      BY <3>1 DEF ValidatorsRepresented
    <3>3. QED
      BY <1>1, <3>1, <3>2 DEF StakeInv
  <2>4. QED
    BY <2>1, <2>2, <2>3
<1>6. CASE Restart \/ UNCHANGED vars
  <2>1. UNCHANGED <<agents, validators, keyed, unsynced, inBlock>>
    BY <1>1, <1>6, RestartKeeps DEF vars
  <2>2. FollowsStake'
    BY <1>1, <2>1 DEF FollowsStake, Bound, Registered
  <2>3. ValidatorsRepresented'
    BY <1>1, <2>1
       DEF ValidatorsRepresented, Represented, Electorate, Bound, Registered, Eligible
  <2>4. QED
    BY <1>1, <2>2, <2>3 DEF StakeInv
<1>7. QED
  BY <1>2, <1>3, <1>4, <1>5, <1>6 DEF Next

\* What holds of votes and stake in every reachable state.
THEOREM StakeInvariant == Spec => []StakeInv
<1>1. Init => StakeInv
  BY StakeAtGenesis
<1>2. StakeInv /\ [Next]_vars => StakeInv'
  BY StakeStep
<1>3. QED
  BY <1>1, <1>2, PTL DEF Spec

\* After every block the agents of operators vote with the stake of validators in
\* the active set, and every such validator with a known key is represented, for
\* any agents and validators (SyncAgentRegistryWithValidatorSet).
THEOREM VotesFollowStake == Spec => []ElectorateFollowsStake
<1>1. StakeInv => ElectorateFollowsStake
  <2> SUFFICES ASSUME StakeInv, ~inBlock PROVE ElectorateFollowsStake
    BY DEF ElectorateFollowsStake
  <2>1. ASSUME NEW id \in Electorate \ unsynced, agents[id].operator # None
        PROVE  LET v == validators[agents[id].operator]
               IN  v # None /\ v.bonded /\ ~v.jailed /\ v.power = agents[id].power
    <3>1. id \in Bound \ unsynced /\ agents[id].active
      BY <2>1 DEF Electorate, Eligible, Bound
    <3>2. QED
      BY <3>1 DEF StakeInv, FollowsStake
  <2>2. \A op \in keyed :
          validators[op] # None /\ validators[op].bonded /\ unsynced = {} => Represented(op)
    BY DEF StakeInv, ValidatorsRepresented
  <2>3. QED
    BY <2>1, <2>2 DEF ElectorateFollowsStake
<1>2. QED
  BY <1>1, StakeInvariant, PTL

-----------------------------------------------------------------------------
(***************************************************************************)
(* Signers, cases and exported states                                      *)
(***************************************************************************)

\* The import of agents with different signers makes an index that finds them.
LEMMA ImportedIndexIsExact ==
  ASSUME NEW reg, DOMAIN reg \in SUBSET AgentIds,
         \A id \in DOMAIN reg : reg[id] \in AgentInfo,
         \A i, j \in DOMAIN reg : reg[i].signer = reg[j].signer => i = j
  PROVE  /\ \A id \in DOMAIN reg : ImportedIndex(reg)[reg[id].signer] = id
         /\ \A s \in Signers : ImportedIndex(reg)[s] # None =>
              /\ ImportedIndex(reg)[s] \in DOMAIN reg
              /\ reg[ImportedIndex(reg)[s]].signer = s
<1>1. ASSUME NEW id \in DOMAIN reg
      PROVE  reg[id].signer \in Signers /\ ImportedIndex(reg)[reg[id].signer] = id
  <2>1. PICK s : s = reg[id].signer
    OBVIOUS
  <2>2. s \in Signers /\ \A o \in DOMAIN reg : reg[o].signer = s => o = id
    BY <2>1 DEF AgentInfo
  <2>3. SetAgents(reg, NoIndex, DOMAIN reg)[s] = id
    <3>1. Writers(reg, DOMAIN reg, s) = {id}
      BY <2>1, <2>2 DEF Writers
    <3>2. QED
      BY <2>2, <3>1, IndexOfTheOnlyOne
  <2>4. QED
    BY <2>1, <2>2, <2>3 DEF ImportedIndex
<1>2. ASSUME NEW s \in Signers, ImportedIndex(reg)[s] # None
      PROVE  /\ ImportedIndex(reg)[s] \in DOMAIN reg
             /\ reg[ImportedIndex(reg)[s]].signer = s
  <2>1. CASE \E id \in DOMAIN reg : reg[id].signer = s
    BY <1>1, <2>1
  <2>2. CASE \A id \in DOMAIN reg : reg[id].signer # s
    <3>1. SetAgents(reg, NoIndex, DOMAIN reg)[s] = NoIndex[s]
      <4>1. Writers(reg, DOMAIN reg, s) = {}
        BY <2>2 DEF Writers
      <4>2. QED
        BY <4>1, IndexElsewhere
    <3>2. QED
      BY <1>2, <3>1 DEF ImportedIndex, NoIndex
  <2>3. QED
    BY <2>1, <2>2
<1>3. QED
  BY <1>1, <1>2

\* Discipline is a matter of three fields.
LEMMA DisciplineOfFields ==
  ASSUME NEW c, Disciplined(c), NEW a,
         a.operator = c.operator, a.signer = c.signer, a.key # "foreign"
  PROVE  Disciplined(a)
BY DEF Disciplined

\* A chain starts with exact signers.
LEMMA RegistryAtGenesis == Discipline /\ Init => RegistryInv
<1> SUFFICES ASSUME Discipline, Init PROVE RegistryInv
  OBVIOUS
<1>1. PICK A \in GenesisAgents :
        /\ ValidateGenesis(AsFunction(A), {}, None)
        /\ agents = Imported(AsFunction(A)) /\ bySigner = ImportedIndex(AsFunction(A))
  BY DEF Init
<1>2. A \in SUBSET Applicants
  BY DEF Applicants
<1>3. PICK reg : reg = AsFunction(A)
  OBVIOUS
<1>4. /\ DOMAIN reg \in SUBSET AgentIds /\ \A id \in DOMAIN reg : reg[id] \in AgentInfo
      /\ \A id \in DOMAIN reg : ValidateAgent(reg[id])
      /\ \A i, j \in DOMAIN reg : reg[i].signer = reg[j].signer => i = j
  BY <1>1, <1>2, <1>3, GenesisIsTyped DEF ValidateGenesis
<1>5. ASSUME NEW id \in DOMAIN reg PROVE Disciplined(reg[id])
  <2>1. PICK a \in A :
          reg[id] = [operator |-> a.operator, signer |-> a.signer, key |-> a.key,
                    power |-> a.power, active |-> a.active]
    <3>1. /\ DOMAIN reg = {a.id : a \in A}
          /\ \A i \in {a.id : a \in A} : \E a \in A :
               /\ a.id = i
               /\ reg[i] = [operator |-> a.operator, signer |-> a.signer, key |-> a.key,
                           power |-> a.power, active |-> a.active]
      BY <1>2, <1>3, AgentsOfGenesis, Zenon
    <3>2. QED
      BY <3>1
  <2>2. Disciplined(a)
    BY <1>2 DEF Discipline
  <2>3. QED
    BY <2>1, <2>2 DEF Disciplined
<1>6. Registered = DOMAIN reg /\ \A id \in Registered : agents[id] = reg[id]
  BY <1>1, <1>3, <1>4, NoneAssumption DEF Registered, Imported, NoneAssumption
<1>7. /\ \A id \in DOMAIN reg : bySigner[reg[id].signer] = id
      /\ \A s \in Signers : bySigner[s] # None =>
           bySigner[s] \in DOMAIN reg /\ reg[bySigner[s]].signer = s
  BY <1>1, <1>3, <1>4, ImportedIndexIsExact
<1>8. IndexExact
  BY <1>6, <1>7 DEF IndexExact
<1>9. leases = {} /\ voters = None
  BY DEF Init
<1>10. QED
  BY <1>4, <1>5, <1>6, <1>8, <1>9, InitIsTyped DEF RegistryInv, SoundAgent

\* With an exact index no two agents have one signer.
LEMMA ExactMeansUnique ==
  ASSUME IndexExact
  PROVE  \A i, j \in Registered : agents[i].signer = agents[j].signer => i = j
BY DEF IndexExact

\* A registration keeps the index exact.
LEMMA RegistrationIsExact ==
  ASSUME Discipline, RegistryInv, NEW c \in Candidates, RegisterAgent(c)
  PROVE  /\ \A id \in Registered' : SoundAgent(agents'[id])
         /\ IndexExact'
         /\ \A s \in leases' : bySigner'[s] # None
<1>1. /\ agents \in [AgentIds -> AgentInfo \cup {None}]
      /\ bySigner \in [Signers -> AgentIds \cup {None}] /\ leases \subseteq Signers
  BY DEF RegistryInv, TypeOK
<1>2. PICK a \in AgentInfo :
        /\ c.id \in AgentIds /\ c.signer \in Signers
        /\ a = [operator |-> c.operator, signer |-> c.signer, key |-> c.key,
                power |-> c.power, active |-> c.active]
        /\ agents[c.id] = None /\ bySigner[c.signer] = None /\ ValidateAgent(c)
        /\ agents' = [agents EXCEPT ![c.id] = a]
        /\ bySigner' = [bySigner EXCEPT ![c.signer] = c.id]
        /\ leases' = leases
  BY RegistrationAdds, Zenon DEF RegistryInv
<1>3. PICK k : k = c.id
  OBVIOUS
<1>4. PICK t : t = c.signer
  OBVIOUS
<1>5. /\ k \in AgentIds /\ t \in Signers /\ a.signer = t
      /\ agents[k] = None /\ bySigner[t] = None
      /\ agents' = [agents EXCEPT ![k] = a] /\ bySigner' = [bySigner EXCEPT ![t] = k]
  BY <1>2, <1>3, <1>4
<1>6. a # None
  BY NoneAssumption DEF NoneAssumption
<1>7. /\ Registered' = Registered \cup {k} /\ k \notin Registered
      /\ agents'[k] = a /\ \A id \in Registered : agents'[id] = agents[id]
  BY <1>1, <1>5, <1>6 DEF Registered
<1>8. SoundAgent(a)
  <2>1. Disciplined(c)
    BY DEF Discipline, Applicants
  <2>2. QED
    BY <1>2, <2>1 DEF SoundAgent, Disciplined, ValidateAgent
<1>9. \A id \in Registered' : SoundAgent(agents'[id])
  BY <1>7, <1>8 DEF RegistryInv
<1>10. /\ \A id \in Registered : /\ id \in AgentIds /\ agents[id].signer \in Signers
                                /\ bySigner[agents[id].signer] = id
       /\ \A s \in Signers : bySigner[s] # None =>
            bySigner[s] \in Registered /\ agents[bySigner[s]].signer = s
  BY <1>1 DEF RegistryInv, IndexExact, Registered, AgentInfo
<1>11. k # None /\ \A id \in Registered : id # None
  BY <1>5, <1>10, NoneAssumption DEF NoneAssumption
<1>12. ASSUME NEW id \in Registered' PROVE bySigner'[agents'[id].signer] = id
  BY <1>1, <1>5, <1>7, <1>10, <1>11
<1>13. ASSUME NEW s \in Signers, bySigner'[s] # None
       PROVE  bySigner'[s] \in Registered' /\ agents'[bySigner'[s]].signer = s
  BY <1>1, <1>5, <1>7, <1>10, <1>13
<1>14. IndexExact'
  BY <1>12, <1>13 DEF IndexExact
<1>15. \A s \in leases' : bySigner'[s] # None
  BY <1>1, <1>2, <1>5, <1>11 DEF RegistryInv
<1>16. QED
  BY <1>9, <1>14, <1>15

\* A synchronisation keeps agents sound: they keep their operators and signers, and
\* the agents that it adds have the accounts of their own validators.
LEMMA SyncKeepsSound ==
  ASSUME TypeOK, \A id \in Registered : SoundAgent(agents[id]),
         NEW vals \in [Operators -> Validator \cup {None}],
         NEW reg, reg = Synced(vals), NEW id \in AgentIds, reg[id] # None
  PROVE  SoundAgent(reg[id])
<1>1. PICK a : a = reg[id]
  OBVIOUS
<1>2. Follows(id, a, vals) \/ Stays(id, a) \/ IsNew(id, a, vals)
  BY <1>1, WhereAgentsComeFrom DEF TypeOK
<1>3. CASE Follows(id, a, vals)
  <2>1. PICK b : b = agents[id]
    OBVIOUS
  <2>2. PICK v \in Validator \cup {None} : v = vals[b.operator]
    BY <1>3, <2>1 DEF Follows
  <2>3. b \in AgentInfo /\ b.operator \in Operators /\ a = Refreshed(b, v)
    BY <1>3, <2>1, <2>2 DEF Follows
  <2>4. SoundAgent(b)
    BY <1>3, <2>1 DEF Follows, Bound
  <2>5. /\ a.operator = b.operator /\ a.signer = b.signer
        /\ a.key \in {b.key, "own", "none"}
        /\ a.active => v # None /\ v.power > 0 /\ a.power = v.power
    BY <2>3, RefreshedFollows
  <2>6. a.key # "foreign" /\ ValidateAgent(a)
    BY <2>4, <2>5 DEF SoundAgent, Disciplined, ValidateAgent
  <2>7. Disciplined(a)
    BY <2>4, <2>5, <2>6, DisciplineOfFields DEF SoundAgent
  <2>8. QED
    BY <1>1, <2>6, <2>7 DEF SoundAgent
<1>4. CASE Stays(id, a)
  BY <1>1, <1>4 DEF Stays, Registered
<1>5. CASE IsNew(id, a, vals)
  <2>1. PICK op \in Added(vals) :
          a = [operator |-> op, signer |-> OperatorAccount[op], key |-> "own",
               power |-> vals[op].power, active |-> TRUE]
    BY <1>5 DEF IsNew
  <2>2. op \in Operators /\ vals[op].power > 0
    BY AddedIsActive
  <2>3. \A o \in Operators : OperatorAccount[o] = OperatorAccount[op] => o = op
    BY <2>2, NamesAssumption DEF NamesAssumption, Injective
  <2>4. /\ a.operator = op /\ a.signer = OperatorAccount[op] /\ a.key = "own"
        /\ a.power = vals[op].power
    BY <2>1
  <2>5. Disciplined(a)
    BY <2>3, <2>4 DEF Disciplined
  <2>6. ValidateAgent(a)
    BY <2>2, <2>4 DEF ValidateAgent
  <2>7. QED
    BY <1>1, <2>5, <2>6 DEF SoundAgent
<1>6. QED
  BY <1>2, <1>3, <1>4, <1>5

\* An agent that was registered keeps its signer.
LEMMA SyncKeepsSigners ==
  ASSUME TypeOK, NEW vals \in [Operators -> Validator \cup {None}],
         NEW reg, reg = Synced(vals), NEW id \in Registered
  PROVE  reg[id].signer = agents[id].signer
<1>1. PICK a : a = reg[id]
  OBVIOUS
<1>2. id \in AgentIds /\ agents[id] # None
  BY DEF Registered
<1>3. Follows(id, a, vals) \/ Stays(id, a) \/ IsNew(id, a, vals)
  BY <1>1, <1>2, WhereAgentsComeFrom DEF TypeOK
<1>4. CASE Follows(id, a, vals)
  BY <1>1, <1>4, RefreshedFollows DEF Follows
<1>5. CASE Stays(id, a)
  BY <1>1, <1>5 DEF Stays
<1>6. CASE IsNew(id, a, vals)
  BY <1>2, <1>6, AddedIsActive DEF IsNew
<1>7. QED
  BY <1>3, <1>4, <1>5, <1>6

\* A synchronisation keeps the index exact: the agents of operators are found
\* already, and the account of a validator that gets an agent signs for no other.
LEMMA SyncIsExact ==
  ASSUME RegistryInv, NEW vals \in [Operators -> Validator \cup {None}],
         SyncAgentRegistryWithValidatorSet(vals)
  PROVE  /\ IndexExact'
         /\ \A s \in Signers : bySigner[s] # None => bySigner'[s] # None
<1> DEFINE New == {ValidatorId[op] : op \in Added(vals)}
<1>1. PICK reg : reg = Synced(vals)
  OBVIOUS
<1>2. PICK index : index = SetAgents(reg, bySigner, Bound)
  OBVIOUS
<1>3. agents' = reg /\ bySigner' = SetAgents(reg, index, New)
  BY <1>1, <1>2 DEF SyncAgentRegistryWithValidatorSet
<1>4. /\ TypeOK /\ \A id \in Registered : Disciplined(agents[id])
      /\ agents \in [AgentIds -> AgentInfo \cup {None}]
      /\ bySigner \in [Signers -> AgentIds \cup {None}]
  BY DEF RegistryInv, TypeOK, SoundAgent
<1>5. \A id \in Registered : /\ id \in AgentIds /\ reg[id] # None
                             /\ reg[id].signer = agents[id].signer
                             /\ agents[id].signer \in Signers
                             /\ bySigner[agents[id].signer] = id
  <2>1. \A id \in Registered : reg[id] \in AgentInfo
    BY <1>1, <1>4, SyncedIsTyped
  <2>2. \A id \in Registered : reg[id].signer = agents[id].signer
    BY <1>1, <1>4, SyncKeepsSigners
  <2>3. \A id \in Registered : id \in AgentIds /\ agents[id].signer \in Signers
    BY <1>4 DEF Registered, AgentInfo
  <2>4. \A id \in Registered : bySigner[agents[id].signer] = id
    BY DEF RegistryInv, IndexExact
  <2>5. QED
    BY <2>1, <2>2, <2>3, <2>4, NoneAssumption DEF NoneAssumption
<1>6. \A s \in Signers : bySigner[s] # None =>
        bySigner[s] \in Registered /\ agents[bySigner[s]].signer = s
  BY DEF RegistryInv, IndexExact
<1>7. ASSUME NEW op \in Added(vals)
      PROVE  /\ op \in Operators /\ ValidatorId[op] \in AgentIds \ Registered
             /\ ValidatorId[op] # None
             /\ reg[ValidatorId[op]].signer = OperatorAccount[op]
             /\ \A id \in Registered : agents[id].signer # OperatorAccount[op]
  <2>1. /\ op \in Operators /\ ValidatorId[op] \in AgentIds
        /\ agents[ValidatorId[op]] = None /\ \A id \in Bound : agents[id].operator # op
    BY AddedIsActive
  <2>2. reg[ValidatorId[op]] =
          [operator |-> op, signer |-> OperatorAccount[op], key |-> "own",
           power |-> vals[op].power, active |-> TRUE]
    BY <1>1, AgentsAfterSync
  <2>3. ASSUME NEW id \in Registered, agents[id].signer = OperatorAccount[op]
        PROVE  FALSE
    <3>1. agents[id].operator = op
      BY <1>4, <2>1, <2>3 DEF Disciplined
    <3>2. op # None
      BY <2>1, NoneAssumption DEF NoneAssumption
    <3>3. id \in Bound
      BY <3>1, <3>2 DEF Bound
    <3>4. QED
      BY <2>1, <3>1, <3>3
  <2>4. reg[ValidatorId[op]].signer = OperatorAccount[op]
    BY <2>2
  <2>5. QED
    BY <2>1, <2>3, <2>4, NoneAssumption DEF Registered, NoneAssumption
<1>8. ASSUME NEW s \in Signers PROVE index[s] = bySigner[s]
  <2>1. Bound \subseteq Registered
    BY DEF Bound
  <2>2. CASE \E id \in Bound : reg[id].signer = s
    <3>1. PICK id \in Bound : reg[id].signer = s
      BY <2>2
    <3>2. \A o \in Bound : reg[o].signer = s => o = bySigner[s]
      BY <1>5, <2>1
    <3>3. Writers(reg, Bound, s) = {id}
      BY <3>1, <3>2 DEF Writers
    <3>4. index[s] = id
      BY <1>2, <3>3, IndexOfTheOnlyOne
    <3>5. QED
      BY <3>1, <3>2, <3>4
  <2>3. CASE \A id \in Bound : reg[id].signer # s
    <3>1. Writers(reg, Bound, s) = {}
      BY <2>3 DEF Writers
    <3>2. QED
      BY <1>2, <3>1, IndexElsewhere
  <2>4. QED
    BY <2>2, <2>3
<1>9. ASSUME NEW op \in Added(vals) PROVE bySigner'[OperatorAccount[op]] = ValidatorId[op]
  <2>1. PICK s : s = OperatorAccount[op]
    OBVIOUS
  <2>2. s \in Signers
    BY <1>7, <2>1, NamesAssumption DEF NamesAssumption
  <2>3. \A o \in Added(vals) : reg[ValidatorId[o]].signer = OperatorAccount[o]
    BY <1>7
  <2>4. \A o \in Added(vals) : OperatorAccount[o] = s => o = op
    BY <1>7, <2>1, NamesAssumption DEF NamesAssumption, Injective
  <2>5. Writers(reg, New, s) = {ValidatorId[op]}
    BY <2>1, <2>3, <2>4 DEF Writers
  <2>6. SetAgents(reg, index, New)[s] = ValidatorId[op]
    BY <2>2, <2>5, IndexOfTheOnlyOne
  <2>7. QED
    BY <1>3, <2>1, <2>6
<1>10. ASSUME NEW s \in Signers, \A op \in Added(vals) : OperatorAccount[op] # s
       PROVE  bySigner'[s] = bySigner[s]
  <2>1. \A op \in Added(vals) : reg[ValidatorId[op]].signer = OperatorAccount[op]
    BY <1>7
  <2>2. Writers(reg, New, s) = {}
    BY <1>10, <2>1 DEF Writers
  <2>3. SetAgents(reg, index, New)[s] = index[s]
    BY <2>2, IndexElsewhere
  <2>4. QED
    BY <1>3, <1>8, <2>3
<1>11. Registered' = {id \in AgentIds : reg[id] # None}
  BY <1>3 DEF Registered
<1>12. ASSUME NEW id \in Registered' PROVE bySigner'[reg[id].signer] = id
  <2>1. id \in AgentIds /\ reg[id] # None
    BY <1>11
  <2>2. CASE id \in Registered
    <3>1. PICK s \in Signers : s = agents[id].signer
      BY <1>5, <2>2
    <3>2. \A op \in Added(vals) : OperatorAccount[op] # s
      BY <1>7, <2>2, <3>1
    <3>3. bySigner'[s] = bySigner[s]
      BY <1>10, <3>2
    <3>4. QED
      BY <1>5, <2>2, <3>1, <3>3
  <2>3. CASE id \notin Registered
    <3>1. \E op \in Added(vals) : id = ValidatorId[op]
      <4>1. id \notin Bound /\ agents[id] = None
        BY <2>1, <2>3 DEF Bound, Registered
      <4>2. QED
        BY <1>1, <2>1, <4>1, AgentsAfterSync
    <3>2. PICK op \in Added(vals) : id = ValidatorId[op]
      BY <3>1
    <3>3. reg[id].signer = OperatorAccount[op]
      BY <1>7, <3>2
    <3>4. QED
      BY <1>9, <3>2, <3>3
  <2>4. QED
    BY <2>2, <2>3
<1>13. ASSUME NEW s \in Signers, bySigner'[s] # None
       PROVE  bySigner'[s] \in Registered' /\ reg[bySigner'[s]].signer = s
  <2>1. CASE \E op \in Added(vals) : OperatorAccount[op] = s
    <3>1. PICK op \in Added(vals) : OperatorAccount[op] = s
      BY <2>1
    <3>2. /\ bySigner'[s] = ValidatorId[op] /\ ValidatorId[op] \in AgentIds
          /\ reg[ValidatorId[op]].signer = s
      BY <1>7, <1>9, <3>1
    <3>3. reg[ValidatorId[op]] # None
      BY <1>1, NewIsAgent, NoneAssumption DEF NoneAssumption
    <3>4. QED
      BY <1>11, <3>2, <3>3
  <2>2. CASE \A op \in Added(vals) : OperatorAccount[op] # s
    <3>1. bySigner'[s] = bySigner[s]
      BY <1>10, <2>2
    <3>2. bySigner[s] \in Registered /\ agents[bySigner[s]].signer = s
      BY <1>6, <1>13, <3>1
    <3>3. QED
      BY <1>5, <1>11, <3>1, <3>2
  <2>3. QED
    BY <2>1, <2>2
<1>14. IndexExact'
  BY <1>3, <1>12, <1>13 DEF IndexExact
<1>15. ASSUME NEW s \in Signers, bySigner[s] # None PROVE bySigner'[s] # None
  <2>1. CASE \E op \in Added(vals) : OperatorAccount[op] = s
    BY <1>7, <1>9, <2>1
  <2>2. CASE \A op \in Added(vals) : OperatorAccount[op] # s
    BY <1>10, <1>15, <2>2
  <2>3. QED
    BY <2>1, <2>2
<1>16. QED
  BY <1>14, <1>15

\* A restart from an exported file makes the same index.
LEMMA RestartIsExact ==
  ASSUME RegistryInv
  PROVE  \A s \in Signers :
           ImportedIndex([id \in Registered |-> agents[id]])[s] = bySigner[s]
<1>1. PICK reg : reg = [id \in Registered |-> agents[id]]
  OBVIOUS
<1>2. /\ DOMAIN reg = Registered /\ DOMAIN reg \in SUBSET AgentIds
      /\ \A id \in DOMAIN reg : reg[id] = agents[id] /\ reg[id] \in AgentInfo
  BY <1>1 DEF Registered, RegistryInv, TypeOK
<1>3. \A i, j \in DOMAIN reg : reg[i].signer = reg[j].signer => i = j
  BY <1>2, ExactMeansUnique DEF RegistryInv
<1>4. /\ \A id \in DOMAIN reg : ImportedIndex(reg)[reg[id].signer] = id
      /\ \A s \in Signers : ImportedIndex(reg)[s] # None =>
           /\ ImportedIndex(reg)[s] \in DOMAIN reg
           /\ reg[ImportedIndex(reg)[s]].signer = s
  BY <1>2, <1>3, ImportedIndexIsExact
<1>5. /\ \A id \in Registered : bySigner[agents[id].signer] = id
      /\ \A s \in Signers : bySigner[s] # None =>
           bySigner[s] \in Registered /\ agents[bySigner[s]].signer = s
  BY DEF RegistryInv, IndexExact
<1>6. ASSUME NEW s \in Signers PROVE ImportedIndex(reg)[s] = bySigner[s]
  <2>1. CASE \E id \in Registered : agents[id].signer = s
    BY <1>2, <1>4, <1>5, <2>1
  <2>2. CASE \A id \in Registered : agents[id].signer # s
    BY <1>2, <1>4, <1>5, <2>2
  <2>3. QED
    BY <2>1, <2>2
<1>7. QED
  BY <1>1, <1>6

\* Every step keeps the registry, if the authority keeps the discipline.
LEMMA RegistryStep == Discipline /\ RegistryInv /\ [Next]_vars => RegistryInv'
<1> SUFFICES ASSUME Discipline, RegistryInv, [Next]_vars PROVE RegistryInv'
  OBVIOUS
<1>1. TypeOK /\ TypeOK'
  BY StepIsTyped DEF RegistryInv
<1>2. CASE \E c \in Candidates : RegisterAgent(c)
  <2>1. PICK c \in Candidates : RegisterAgent(c)
    BY <1>2
  <2>2. voters' = voters
    BY <2>1 DEF RegisterAgent
  <2>3. voters' # None => ValidateCaseSnapshot(voters')
    BY <2>2 DEF RegistryInv
  <2>4. /\ \A id \in Registered' : SoundAgent(agents'[id])
        /\ IndexExact'
        /\ \A s \in leases' : bySigner'[s] # None
    BY <2>1, RegistrationIsExact
  <2>5. QED
    BY <1>1, <2>3, <2>4 DEF RegistryInv
<1>3. CASE \E s \in Signers : ClaimAgentLease(s)
  <2>1. PICK s \in Signers : ClaimAgentLease(s)
    BY <1>3
  <2>2. /\ leases' = leases \cup {s} /\ bySigner[s] # None
        /\ agents' = agents /\ bySigner' = bySigner /\ voters' = voters
    BY <2>1 DEF ClaimAgentLease
  <2>3. \A t \in leases' : bySigner'[t] # None
    BY <2>2 DEF RegistryInv
  <2>4. /\ \A id \in Registered' : SoundAgent(agents'[id])
        /\ IndexExact'
        /\ voters' # None => ValidateCaseSnapshot(voters')
    BY <2>2 DEF RegistryInv, IndexExact, Registered
  <2>5. QED
    BY <1>1, <2>3, <2>4 DEF RegistryInv
<1>4. CASE OpenCase
  <2>1. /\ ValidateCaseSnapshot(SnapshotCaseVoters) /\ voters' = SnapshotCaseVoters
        /\ agents' = agents /\ bySigner' = bySigner /\ leases' = leases
    BY <1>4 DEF OpenCase
  <2>2. ValidateCaseSnapshot(voters')
    BY <2>1, Zenon
  <2>3. /\ \A id \in Registered' : SoundAgent(agents'[id])
        /\ IndexExact'
        /\ \A s \in leases' : bySigner'[s] # None
    BY <2>1 DEF RegistryInv, IndexExact, Registered
  <2>4. QED
    BY <1>1, <2>2, <2>3 DEF RegistryInv
<1>5. CASE \E op \in Operators : \/ CreateValidator(op) \/ ChangeValidator(op)
                                 \/ RemoveValidator(op) \/ FirstSignature(op)
  <2>1. UNCHANGED registryVars
    BY <1>1, <1>5, StakingKeepsBonds
  <2>2. QED
    BY <1>1, <2>1 DEF RegistryInv, IndexExact, Registered, registryVars
<1>6. CASE EndBlock
  <2>1. PICK vals \in [Operators -> Validator \cup {None}] :
          /\ \/ UNCHANGED <<agents, bySigner, unsynced>>
             \/ SyncAgentRegistryWithValidatorSet(vals) /\ unsynced' = {}
          /\ UNCHANGED <<leases, voters, keyed>>
    BY <1>1, <1>6, EndBlockSyncs, Zenon
  <2>2. CASE UNCHANGED <<agents, bySigner, unsynced>>
    BY <1>1, <2>1, <2>2 DEF RegistryInv, IndexExact, Registered
  <2>3. CASE SyncAgentRegistryWithValidatorSet(vals)
    <3>1. /\ IndexExact'
          /\ \A s \in Signers : bySigner[s] # None => bySigner'[s] # None
      BY <2>3, SyncIsExact
    <3>2. PICK reg : reg = Synced(vals) /\ agents' = reg
      BY <2>3 DEF SyncAgentRegistryWithValidatorSet
    <3>3. Registered' = {id \in AgentIds : reg[id] # None}
      BY <3>2 DEF Registered
    <3>4. \A id \in AgentIds : reg[id] # None => SoundAgent(reg[id])
      BY <1>1, <3>2, SyncKeepsSound DEF RegistryInv
    <3>5. \A id \in Registered' : SoundAgent(agents'[id])
      BY <3>2, <3>3, <3>4
    <3>6. \A s \in leases' : bySigner'[s] # None
      BY <1>1, <2>1, <3>1 DEF RegistryInv, TypeOK
    <3>7. voters' # None => ValidateCaseSnapshot(voters')
      BY <2>1 DEF RegistryInv
    <3>8. QED
      BY <1>1, <3>1, <3>5, <3>6, <3>7 DEF RegistryInv
  <2>4. QED
    BY <2>1, <2>2, <2>3
<1>7. CASE Restart
  <2>1. /\ UNCHANGED <<agents, leases, voters>>
        /\ bySigner' = ImportedIndex([id \in Registered |-> agents[id]])
        /\ bySigner' \in [Signers -> AgentIds \cup {None}]
    BY <1>1, <1>7, RestartKeeps
  <2>2. bySigner \in [Signers -> AgentIds \cup {None}]
    BY <1>1 DEF TypeOK
  <2>3. \A s \in Signers : bySigner'[s] = bySigner[s]
    BY <2>1, RestartIsExact
  <2>4. bySigner' = bySigner
    BY <2>1, <2>2, <2>3
  <2>5. QED
    BY <1>1, <2>1, <2>4 DEF RegistryInv, IndexExact, Registered
<1>8. CASE UNCHANGED vars
  BY <1>1, <1>8 DEF RegistryInv, IndexExact, Registered, vars
<1>9. QED
  BY <1>2, <1>3, <1>4, <1>5, <1>6, <1>7, <1>8 DEF Next

\* What holds of the registry in every reachable state, if the authority registers
\* the account of a validator for the agent of that validator only, and no key but
\* that of the signer. Without this, SignersUnique fails.
THEOREM RegistryInvariant ==
  ASSUME \A c \in Applicants : Disciplined(c)
  PROVE  Spec => []RegistryInv
<1>1. Init => RegistryInv
  BY RegistryAtGenesis DEF Discipline
<1>2. RegistryInv /\ [Next]_vars => RegistryInv'
  BY RegistryStep DEF Discipline
<1>3. QED
  BY <1>1, <1>2, PTL DEF Spec

\* No two agents have one signer (MsgRegisterAgent, SyncAgentRegistryWithValidatorSet).
THEOREM SignersStayUnique ==
  ASSUME \A c \in Applicants : Disciplined(c)
  PROVE  Spec => []SignersUnique
<1>1. RegistryInv => SignersUnique
  BY ExactMeansUnique DEF RegistryInv, SignersUnique
<1>2. Spec => []RegistryInv
  BY RegistryInvariant
<1>3. QED
  BY <1>1, <1>2, PTL

\* Whenever some agent can vote, a case can be opened (SnapshotCaseVoters).
THEOREM CasesCanOpen ==
  ASSUME \A c \in Applicants : Disciplined(c)
  PROVE  Spec => []CaseCanOpen
<1>1. RegistryInv => CaseCanOpen
  <2> SUFFICES ASSUME RegistryInv, Electorate # {}
               PROVE  ValidateCaseSnapshot(SnapshotCaseVoters)
    BY DEF CaseCanOpen
  <2>1. PICK v : v = SnapshotCaseVoters
    OBVIOUS
  <2>2. /\ DOMAIN v = Electorate /\ \A id \in Electorate : v[id] = agents[id]
    BY <2>1 DEF SnapshotCaseVoters
  <2>3. ASSUME NEW id \in Electorate
        PROVE  agents[id].active /\ agents[id].power > 0 /\ agents[id].key = "own"
    <3>1. id \in Registered /\ Eligible(agents[id])
      BY DEF Electorate
    <3>2. agents[id] \in AgentInfo /\ Disciplined(agents[id])
      BY <3>1 DEF RegistryInv, TypeOK, Registered, SoundAgent
    <3>3. QED
      BY <3>1, <3>2 DEF Eligible, AgentInfo, Keys, Disciplined
  <2>4. \A i, j \in Electorate : agents[i].signer = agents[j].signer => i = j
    BY ExactMeansUnique DEF RegistryInv, Electorate
  <2>5. ValidateCaseSnapshot(v)
    BY <2>2, <2>3, <2>4 DEF ValidateCaseSnapshot
  <2>6. QED
    BY <2>1, <2>5
<1>2. Spec => []RegistryInv
  BY RegistryInvariant
<1>3. QED
  BY <1>1, <1>2, PTL

\* The state after every block is exported to a file that is accepted and restores
\* the agents and the index (ExportGenesis, ValidateGenesis, InitGenesis).
THEOREM ExportsAreRestored ==
  ASSUME \A c \in Applicants : Disciplined(c)
  PROVE  Spec => []ExportIsRestored
<1>1. RegistryInv => ExportIsRestored
  <2> SUFFICES ASSUME RegistryInv PROVE ExportIsRestored
    OBVIOUS
  <2>1. PICK reg : reg = [id \in Registered |-> agents[id]]
    OBVIOUS
  <2>2. /\ DOMAIN reg = Registered
        /\ \A id \in Registered : reg[id] = agents[id] /\ ValidateAgent(reg[id])
    BY <2>1 DEF RegistryInv, SoundAgent
  <2>3. Imported(reg) = agents
    BY <2>1 DEF Imported, Registered, RegistryInv, TypeOK
  <2>4. ImportedIndex(reg) = bySigner
    <3>1. \A s \in Signers : ImportedIndex(reg)[s] = bySigner[s]
      BY <2>1, RestartIsExact
    <3>2. /\ DOMAIN reg \in SUBSET AgentIds /\ \A id \in DOMAIN reg : reg[id] \in AgentInfo
          /\ bySigner \in [Signers -> AgentIds \cup {None}]
      BY <2>2 DEF RegistryInv, TypeOK, Registered
    <3>3. ImportedIndex(reg) \in [Signers -> AgentIds \cup {None}]
      BY <3>2, ImportIsTyped
    <3>4. QED
      BY <3>1, <3>2, <3>3
  <2>5. ValidateGenesis(reg, leases, voters)
    <3>1. \A i, j \in DOMAIN reg : reg[i].signer = reg[j].signer => i = j
      BY <2>2, ExactMeansUnique DEF RegistryInv
    <3>2. leases \subseteq {reg[id].signer : id \in DOMAIN reg}
      <4>1. \A s \in leases : bySigner[s] \in Registered /\ agents[bySigner[s]].signer = s
        BY DEF RegistryInv, IndexExact, TypeOK
      <4>2. QED
        BY <2>2, <4>1
    <3>3. voters # None => ValidateCaseSnapshot(voters)
      BY DEF RegistryInv
    <3>4. QED
      BY <2>2, <3>1, <3>2, <3>3 DEF ValidateGenesis
  <2>6. PICK g : g = ExportGenesis
    OBVIOUS
  <2>7. g.agents = reg /\ g.leases = leases /\ g.voters = voters
    BY <2>1, <2>6 DEF ExportGenesis
  <2>8. /\ ValidateGenesis(g.agents, g.leases, g.voters)
        /\ Imported(g.agents) = agents
        /\ ImportedIndex(g.agents) = bySigner
    BY <2>3, <2>4, <2>5, <2>7, Zenon
  <2>9. QED
    BY <2>6, <2>8, Zenon DEF ExportIsRestored
<1>2. Spec => []RegistryInv
  BY RegistryInvariant
<1>3. QED
  BY <1>1, <1>2, PTL

=============================================================================
