--------------------------- MODULE RPCPoolProofs ---------------------------
(***************************************************************************)
(* Proofs about the RPC pool, for any number of endpoints and branches and *)
(* every setting of RPCSafety: what judges the endpoints is always in the  *)
(* journal, a saved checkpoint is followed only by one on the same         *)
(* history, and a correct endpoint stands behind each of them.             *)
(***************************************************************************)
EXTENDS RPCPool, FiniteSetTheorems, TLAPS

\* The least of some natural numbers is one of them (the lowest common height).
LEMMA LeastNatural ==
  ASSUME NEW S \in SUBSET Nat, S # {}
  PROVE  Min(S) \in S /\ \A y \in S : Min(S) <= y
<1>1. \E x \in S : \A y \in S : ~(<<y, x>> \in OpToRel(<, Nat))
  BY NatLessThanWellFounded, WFMin
<1>2. OpToRel(<, Nat) = {ss \in Nat \X Nat : ss[1] < ss[2]}
  BY Zenon DEF OpToRel
<1> HIDE DEF OpToRel
<1> DEFINE Less == {ss \in Nat \X Nat : ss[1] < ss[2]}
<1>3. \E x \in S : \A y \in S : ~(<<y, x>> \in Less)
  BY <1>1, <1>2, Zenon
<1>4. \E x \in S : \A y \in S : x <= y
  <2>1. PICK x \in S : \A y \in S : ~(<<y, x>> \in Less)
    BY <1>3
  <2>2. ASSUME NEW y \in S, ~(x <= y) PROVE FALSE
    <3>1. <<y, x>> \in Nat \X Nat /\ y < x
      BY <2>2
    <3>2. <<y, x>> \in Less
      BY <3>1
    <3>3. QED
      BY <2>1, <3>2
  <2>3. QED
    BY <2>2
<1>5. QED
  BY <1>4, Zenon DEF Min

\* The greatest of some bounded natural numbers is one of them (the highest status).
LEMMA GreatestNatural ==
  ASSUME NEW n \in Nat, NEW S \in SUBSET (0..n), S # {}
  PROVE  Max(S) \in S /\ \A y \in S : Max(S) >= y
<1> DEFINE T == {n - x : x \in S}
<1>1. T \in SUBSET Nat /\ T # {}
  <2>1. \A x \in S : x \in 0..n
    OBVIOUS
  <2>2. \A x \in S : n - x \in Nat
    BY <2>1
  <2>3. QED
    BY <2>2
<1> HIDE DEF T
<1>2. PICK t \in T : \A y \in T : t <= y
  BY <1>1, LeastNatural
<1>3. PICK x \in S : t = n - x
  BY <1>2 DEF T
<1>4. \A y \in S : x >= y
  <2> SUFFICES ASSUME NEW y \in S PROVE x >= y
    OBVIOUS
  <2>1. n - y \in T
    BY DEF T
  <2>2. n - x <= n - y
    BY <1>2, <1>3, <2>1
  <2>3. QED
    BY <2>2
<1>5. QED
  BY <1>4 DEF Max

\* A block is named by a branch and a height.
LEMMA HashType ==
  ASSUME NEW b \in DOMAIN Branches, NEW h \in 0..MaxHeight
  PROVE  Hash(b, h) \in Hashes
BY BranchesAssumption, BoundsAssumption DEF Hash, Hashes

\* What an endpoint shows at a height is a block. A correct endpoint shows the one
\* of its branch, and only up to its own height.
LEMMA BlockType ==
  ASSUME TypeOK, NEW e \in Endpoints, NEW h \in 1..MaxHeight, NEW block \in Block(e, h)
  PROVE  /\ block \in Hashes
         /\ e \notin Wrong => h <= node[e].height /\ block = Hash(node[e].branch, h)
<1>1. node[e].branch \in DOMAIN Branches /\ node[e].height \in 1..MaxHeight
  BY DEF TypeOK
<1>2. h \in 0..MaxHeight
  BY BoundsAssumption
<1>3. CASE e \in Wrong
  BY <1>2, <1>3, HashType DEF Block
<1>4. CASE e \notin Wrong
  BY <1>1, <1>2, <1>4, HashType DEF Block
<1>5. QED
  BY <1>3, <1>4

\* A probe finds a candidate that fits the checkpoint in memory.
LEMMA ProbedFits ==
  ASSUME TypeOK, pool # None, NEW e \in Endpoints, NEW c \in Probed(e)
  PROVE  /\ c \in Candidates /\ c.block = None
         /\ Checkpoint # None => c.genesis = Checkpoint.genesis
         /\ Checkpoint # None /\ e \notin Wrong =>
              Hash(node[e].branch, Checkpoint.height) = Checkpoint.hash
<1>1. node[e].branch \in DOMAIN Branches /\ node[e].height \in 1..MaxHeight
  BY DEF TypeOK
<1>2. 1..MaxHeight \subseteq 0..MaxHeight /\ 0 \in 0..MaxHeight
  BY BoundsAssumption
<1>3. pool \in Pools
  BY DEF TypeOK
<1>4. PICK s \in {t \in Status(e) : Fresh(e, t)},
           g \in {x \in Genesis(e) :
              /\ GenesisMatches(x)
              /\ Checkpoint # None =>
                   \E block \in Block(e, Checkpoint.height) : Continuous(block)} :
        c = [height |-> s.height, genesis |-> g, hash |-> s.hash, block |-> None]
  BY DEF Probed
<1>5. s \in Status(e) /\ g \in Genesis(e) /\ GenesisMatches(g)
  BY <1>4
<1>6. s.height \in 1..MaxHeight /\ s.hash \in Hashes
  BY <1>1, <1>2, <1>5, HashType DEF Status
<1>7. g \in Hashes
  <2>1. CASE pool.genesis[e] # None
    BY <1>3, <1>5, <2>1 DEF Genesis, Pools
  <2>2. CASE pool.genesis[e] = None
    BY <1>1, <1>2, <1>5, <2>2, HashType DEF Genesis, GenesisHash
  <2>3. QED
    BY <2>1, <2>2
<1>8. c \in Candidates /\ c.block = None /\ c.genesis = g
  BY <1>4, <1>6, <1>7 DEF Candidates
<1>9. ASSUME Checkpoint # None, e \notin Wrong
      PROVE  Hash(node[e].branch, Checkpoint.height) = Checkpoint.hash
  <2>1. PICK block \in Block(e, Checkpoint.height) : Continuous(block)
    BY <1>4, <1>9
  <2>2. Checkpoint.height \in 1..MaxHeight
    BY <1>3, <1>9 DEF Pools, Checkpoint, Checkpoints
  <2>3. block = Hash(node[e].branch, Checkpoint.height)
    BY <1>9, <2>1, <2>2, BlockType
  <2>4. QED
    BY <1>9, <2>1, <2>3 DEF Continuous
<1>10. QED
  BY <1>5, <1>8, <1>9 DEF GenesisMatches

\* A pool starts from what its store holds.
LEMMA InitPool == Init => PoolInv
<1> SUFFICES ASSUME Init PROVE PoolInv
  OBVIOUS
<1>1. 1 \in DOMAIN Branches
  BY BranchesAssumption
<1>2. NewPool \in Pools /\ NewPool.checkpoint = saved
  BY DEF Init, NewPool, Pools
<1>3. node \in [Endpoints -> [branch : DOMAIN Branches, height : 1..MaxHeight]]
  BY <1>1, BoundsAssumption DEF Init
<1>4. tip \in 1..MaxHeight /\ age \in 0..MaxBlockAge + 1 /\ resets \in 0..MaxResets
  BY BoundsAssumption DEF Init
<1>5. TypeOK
  BY <1>2, <1>3, <1>4 DEF Init, TypeOK
<1>6. UsedIsSaved /\ RoundInv
  BY <1>2 DEF Init, UsedIsSaved, RoundInv
<1>7. QED
  BY <1>5, <1>6 DEF PoolInv

\* What the proofs need to know of the candidates of a round.
LEMMA CandidateType ==
  ASSUME TypeOK, probes # None, NEW e \in Endpoints
  PROVE  /\ probes \in [Endpoints -> Candidates \cup {None, Rejected}]
         /\ probes[e] \in Candidates \cup {None, Rejected}
         /\ probes[e] \notin {None, Rejected} => probes[e] \in Candidates
BY DEF TypeOK

\* The chain goes on: no candidate of the round is touched.
LEMMA WorldStep ==
  ASSUME PoolInv, NewBlock \/ Wait \/ \E e \in Endpoints : Sync(e) \/ Reset(e)
  PROVE  PoolInv'
<1>1. TypeOK /\ UsedIsSaved /\ RoundInv
  BY DEF PoolInv
<1>2. UNCHANGED <<saved, pool, probes, common>>
  BY DEF NewBlock, Wait, Sync, Reset
<1>3. /\ tip' \in 1..MaxHeight /\ age' \in 0..MaxBlockAge + 1 /\ resets' \in 0..MaxResets
      /\ node' \in [Endpoints -> [branch : DOMAIN Branches, height : 1..MaxHeight]]
  <2>1. CASE NewBlock
    BY <1>1, <2>1, BoundsAssumption DEF NewBlock, TypeOK
  <2>2. CASE Wait
    BY <1>1, <2>2, BoundsAssumption DEF Wait, TypeOK
  <2>3. ASSUME NEW e \in Endpoints, Sync(e)
        PROVE  /\ tip' = tip /\ age' = age /\ resets' = resets
               /\ node' \in [Endpoints -> [branch : DOMAIN Branches, height : 1..MaxHeight]]
    BY <1>1, <2>3 DEF Sync, TypeOK
  <2>4. ASSUME NEW e \in Endpoints, Reset(e)
        PROVE  /\ tip' = tip /\ age' = age /\ resets' \in 0..MaxResets
               /\ node' \in [Endpoints -> [branch : DOMAIN Branches, height : 1..MaxHeight]]
    <3>1. resets' \in 0..MaxResets
      BY <1>1, <2>4, BoundsAssumption DEF Reset, TypeOK
    <3>2. PICK b \in DOMAIN Branches, h \in 1..tip :
            node' = [node EXCEPT ![e] = [branch |-> b, height |-> h]]
      BY <2>4 DEF Reset
    <3>3. h \in 1..MaxHeight
      BY <1>1, BoundsAssumption DEF TypeOK
    <3>4. QED
      BY <1>1, <2>4, <3>1, <3>2, <3>3 DEF Reset, TypeOK
  <2>5. QED
    BY <1>1, <2>1, <2>2, <2>3, <2>4 DEF TypeOK
<1>4. TypeOK'
  BY <1>1, <1>2, <1>3 DEF TypeOK, Pools, Checkpoints, Candidates, Hashes
<1>5. UsedIsSaved'
  BY <1>1, <1>2 DEF UsedIsSaved
<1>6. ASSUME probes # None, NEW e \in Endpoints
      PROVE  node'[e].branch = node[e].branch /\ node'[e].height >= node[e].height
  <2>1. node[e].height \in 1..MaxHeight /\ tip \in 1..MaxHeight
    BY <1>1 DEF TypeOK
  <2>2. CASE NewBlock \/ Wait
    BY <2>1, <2>2 DEF NewBlock, Wait
  <2>3. ASSUME NEW f \in Endpoints, Sync(f)
        PROVE  node'[e].branch = node[e].branch /\ node'[e].height >= node[e].height
    <3>1. CASE f = e
      BY <1>1, <2>1, <2>3, <3>1 DEF Sync, TypeOK
    <3>2. CASE f # e
      BY <1>1, <2>1, <2>3, <3>2 DEF Sync, TypeOK
    <3>3. QED
      BY <3>1, <3>2
  <2>4. ASSUME NEW f \in Endpoints PROVE ~Reset(f)
    BY <1>6 DEF Reset
  <2>5. QED
    BY <2>2, <2>3, <2>4
<1>7. ASSUME probes # None, NEW e \in Endpoints, probes[e] \notin {None, Rejected}
      PROVE  CandidateFits(e)'
  <2>1. CandidateFits(e)
    BY <1>1, <1>7 DEF RoundInv
  <2>2. node'[e].branch = node[e].branch /\ node'[e].height >= node[e].height
    BY <1>6, <1>7
  <2>3. node[e].height \in Int /\ node'[e].height \in Int
    BY <1>1, <1>3 DEF TypeOK
  <2>4. common # None => common \in Int
    BY <1>1 DEF TypeOK
  <2>5. common # None /\ common <= node[e].height => common <= node'[e].height
    BY <2>2, <2>3, <2>4
  <2>6. QED
    BY <1>2, <2>1, <2>2, <2>5 DEF CandidateFits, Checkpoint, Hash
<1>8. RoundInv'
  BY <1>1, <1>2, <1>7 DEF RoundInv
<1>9. QED
  BY <1>4, <1>5, <1>8 DEF PoolInv

\* A round of probes starts.
LEMMA StartRoundStep == PoolInv /\ StartRound => PoolInv'
<1> SUFFICES ASSUME PoolInv, StartRound PROVE PoolInv'
  OBVIOUS
<1>1. TypeOK /\ UsedIsSaved /\ pool \in Pools
  BY DEF PoolInv, TypeOK, StartRound
<1>2. pool' \in Pools /\ pool'.checkpoint = pool.checkpoint
  BY <1>1 DEF StartRound, Pools
<1>3. probes' \in [Endpoints -> Candidates \cup {None, Rejected}]
  BY DEF StartRound
<1>4. TypeOK'
  BY <1>1, <1>2, <1>3 DEF TypeOK, StartRound, worldVars, Pools, Checkpoints, Candidates, Hashes
<1>5. UsedIsSaved'
  BY <1>1, <1>2 DEF UsedIsSaved, StartRound
<1>6. pool' # None
  BY <1>2, NoneAssumption
<1>7. \A e \in Endpoints : probes'[e] = None /\ common' = None
  BY DEF StartRound
<1>8. common' = None
  BY DEF StartRound
<1>9. RoundInv'
  BY <1>6, <1>7, <1>8 DEF RoundInv
<1>10. QED
  BY <1>4, <1>5, <1>9 DEF PoolInv

\* An endpoint answers a probe, or does not.
LEMMA ProbeStep ==
  ASSUME PoolInv, NEW e \in Endpoints, Probe(e)
  PROVE  PoolInv'
<1>1. TypeOK /\ UsedIsSaved /\ RoundInv /\ pool # None /\ probes # None /\ probes[e] = None
  BY DEF PoolInv, Probe
<1>2. UNCHANGED <<tip, age, node, resets, saved, pool, common>>
  BY DEF Probe, worldVars
<1>3. probes \in [Endpoints -> Candidates \cup {None, Rejected}]
  BY <1>1 DEF TypeOK
<1>4. PICK c \in Probed(e) \cup {Rejected} : probes' = [probes EXCEPT ![e] = c]
  BY DEF Probe
<1>5. c \in Candidates \cup {Rejected}
  BY <1>1, ProbedFits
<1>6. probes' \in [Endpoints -> Candidates \cup {None, Rejected}] /\ probes'[e] = c
      /\ \A f \in Endpoints : f # e => probes'[f] = probes[f]
  BY <1>3, <1>4, <1>5
<1>7. TypeOK'
  BY <1>1, <1>2, <1>6 DEF TypeOK, Pools, Checkpoints, Candidates, Hashes
<1>8. UsedIsSaved'
  BY <1>1, <1>2 DEF UsedIsSaved
<1>9. common = None
  BY <1>1 DEF RoundInv
<1>10. ASSUME NEW f \in Endpoints, probes'[f] \notin {None, Rejected} PROVE CandidateFits(f)'
  <2>1. CASE f = e
    <3>1. c \in Probed(e) /\ probes'[f] = c
      BY <1>4, <1>6, <1>10, <2>1
    <3>2. c.block = None
         /\ (Checkpoint # None => c.genesis = Checkpoint.genesis)
         /\ (Checkpoint # None /\ f \notin Wrong =>
              Hash(node[f].branch, Checkpoint.height) = Checkpoint.hash)
      BY <1>1, <2>1, <3>1, ProbedFits
    <3>3. QED
      BY <1>2, <3>1, <3>2 DEF CandidateFits, Checkpoint, Hash
  <2>2. CASE f # e
    <3>1. probes'[f] = probes[f]
      BY <1>6, <2>2
    <3>2. CandidateFits(f)
      BY <1>1, <1>10, <3>1 DEF RoundInv
    <3>3. QED
      BY <1>2, <3>1, <3>2 DEF CandidateFits, Checkpoint, Hash
  <2>3. QED
    BY <2>1, <2>2
<1>11. RoundInv'
  BY <1>1, <1>2, <1>9, <1>10 DEF RoundInv
<1>12. QED
  BY <1>7, <1>8, <1>11 DEF PoolInv

\* The endpoints near the highest have a lowest height in common.
LEMMA CommonHeight ==
  ASSUME TypeOK, probes # None, \A e \in Endpoints : probes[e] # None, Eligible # {}
  PROVE  Min({probes[e].height : e \in Near}) \in 1..MaxHeight
<1>1. \A e \in Eligible : probes[e] \in Candidates
  BY CandidateType DEF Eligible
<1>2. \A e \in Eligible : probes[e].height \in 1..MaxHeight
  BY <1>1 DEF Candidates
<1> DEFINE H == {probes[e].height : e \in Eligible}
<1>3. H \in SUBSET (1..MaxHeight) /\ H \in SUBSET (0..MaxHeight) /\ H # {}
  BY <1>2, BoundsAssumption
<1>4. Max(H) \in H
  <2> HIDE DEF H
  <2>1. QED
    BY <1>3, GreatestNatural, BoundsAssumption
<1>5. PICK e \in Eligible : Highest = probes[e].height
  BY <1>4 DEF Highest
<1>6. e \in Near
  BY <1>2, <1>5, BoundsAssumption DEF Near
<1> DEFINE L == {probes[f].height : f \in Near}
<1>7. L \in SUBSET (1..MaxHeight) /\ L \in SUBSET Nat /\ L # {}
  BY <1>2, <1>6, BoundsAssumption DEF Near
<1>8. Min(L) \in L
  <2> HIDE DEF L
  <2>1. QED
    BY <1>7, LeastNatural
<1>9. QED
  BY <1>7, <1>8

\* The common height of the endpoints is chosen.
LEMMA FindCommonStep == PoolInv /\ FindCommon => PoolInv'
<1> SUFFICES ASSUME PoolInv, FindCommon PROVE PoolInv'
  OBVIOUS
<1>1. TypeOK /\ UsedIsSaved /\ RoundInv /\ pool # None /\ probes # None /\ common = None
  BY DEF PoolInv, FindCommon
<1>2. UNCHANGED <<tip, age, node, resets, saved, pool>>
  BY DEF FindCommon, worldVars
<1>3. probes \in [Endpoints -> Candidates \cup {None, Rejected}]
  BY <1>1 DEF TypeOK
<1>4. \A e \in Endpoints : probes[e] # None
  BY DEF FindCommon
<1>5. probes' \in [Endpoints -> Candidates \cup {None, Rejected}]
      /\ \A e \in Endpoints : probes'[e] \in {probes[e], Rejected}
  BY <1>3 DEF FindCommon
<1>6. common' \in 1..MaxHeight
  BY <1>1, CommonHeight DEF FindCommon
<1>7. TypeOK'
  BY <1>1, <1>2, <1>5, <1>6 DEF TypeOK, Pools, Checkpoints, Candidates, Hashes
<1>8. UsedIsSaved'
  BY <1>1, <1>2 DEF UsedIsSaved
<1>9. \A e \in Endpoints : probes'[e] # None
  BY <1>4, <1>5, NoneAssumption
<1>10. ASSUME NEW e \in Endpoints, probes'[e] \notin {None, Rejected} PROVE CandidateFits(e)'
  <2>1. probes'[e] = probes[e]
    BY <1>5, <1>10
  <2>2. CandidateFits(e)
    BY <1>1, <1>10, <2>1 DEF RoundInv
  <2>3. e \notin Wrong => probes[e].block = None
    BY <1>1, <2>2 DEF CandidateFits
  <2>4. QED
    BY <1>2, <2>1, <2>2, <2>3 DEF CandidateFits, Checkpoint, Hash
<1>11. RoundInv'
  BY <1>1, <1>2, <1>9, <1>10 DEF RoundInv
<1>12. QED
  BY <1>7, <1>8, <1>11 DEF PoolInv

\* An endpoint is asked for the common height.
LEMMA ProbeCommonStep ==
  ASSUME PoolInv, NEW e \in Endpoints, ProbeCommon(e)
  PROVE  PoolInv'
<1>1. /\ TypeOK /\ UsedIsSaved /\ RoundInv /\ pool # None /\ probes # None
      /\ common # None /\ e \in Eligible
  BY DEF PoolInv, ProbeCommon
<1>2. UNCHANGED <<tip, age, node, resets, saved, pool, common>>
  BY DEF ProbeCommon, worldVars
<1>3. probes \in [Endpoints -> Candidates \cup {None, Rejected}]
  BY <1>1 DEF TypeOK
<1>4. \A f \in Endpoints : probes[f] # None
  BY <1>1 DEF RoundInv
<1>5. probes[e] \in Candidates /\ common \in 1..MaxHeight
  BY <1>1, <1>3, <1>4 DEF Eligible, TypeOK
<1>6. PICK c \in Candidates \cup {Rejected} :
        /\ probes' = [probes EXCEPT ![e] = c]
        /\ c # Rejected => /\ c.genesis = probes[e].genesis
                           /\ c.block \in Block(e, common)
  <2>1. CASE probes' = [probes EXCEPT ![e] = Rejected]
    BY <2>1
  <2>2. ASSUME NEW block \in Block(e, common), probes' = [probes EXCEPT ![e].block = block]
        PROVE  \E c \in Candidates \cup {Rejected} :
                 /\ probes' = [probes EXCEPT ![e] = c]
                 /\ c # Rejected => /\ c.genesis = probes[e].genesis
                                    /\ c.block \in Block(e, common)
    <3>1. block \in Hashes
      BY <1>1, <1>5, BlockType
    <3>2. [probes[e] EXCEPT !.block = block] \in Candidates
      BY <1>5, <3>1 DEF Candidates
    <3>3. probes' = [probes EXCEPT ![e] = [probes[e] EXCEPT !.block = block]]
      BY <1>3, <2>2
    <3>4. /\ [probes[e] EXCEPT !.block = block].genesis = probes[e].genesis
          /\ [probes[e] EXCEPT !.block = block].block = block
      BY <1>5 DEF Candidates
    <3>5. QED
      BY <3>2, <3>3, <3>4
  <2>3. QED
    BY <2>1, <2>2 DEF ProbeCommon
<1>7. probes' \in [Endpoints -> Candidates \cup {None, Rejected}] /\ probes'[e] = c
      /\ \A f \in Endpoints : f # e => probes'[f] = probes[f]
  BY <1>3, <1>6
<1>8. TypeOK'
  BY <1>1, <1>2, <1>7 DEF TypeOK, Pools, Checkpoints, Candidates, Hashes
<1>9. UsedIsSaved'
  BY <1>1, <1>2 DEF UsedIsSaved
<1>10. \A f \in Endpoints : probes'[f] # None
  BY <1>4, <1>7, NoneAssumption
<1>11. ASSUME NEW f \in Endpoints, probes'[f] \notin {None, Rejected} PROVE CandidateFits(f)'
  <2>1. CASE f = e
    <3>1. probes'[f] = c /\ c.genesis = probes[f].genesis /\ c.block \in Block(f, common)
      BY <1>6, <1>7, <1>11, <2>1
    <3>2. probes[f] \notin {None, Rejected}
      BY <1>1, <1>4, <2>1 DEF Eligible
    <3>3. CandidateFits(f)
      BY <1>1, <3>2 DEF RoundInv
    <3>4. f \notin Wrong => common <= node[f].height /\ c.block = Hash(node[f].branch, common)
      BY <1>1, <1>5, <3>1, BlockType
    <3>5. QED
      BY <1>1, <1>2, <3>1, <3>3, <3>4 DEF CandidateFits, Checkpoint, Hash
  <2>2. CASE f # e
    <3>1. probes'[f] = probes[f]
      BY <1>7, <2>2
    <3>2. CandidateFits(f)
      BY <1>1, <1>11, <3>1 DEF RoundInv
    <3>3. QED
      BY <1>2, <3>1, <3>2 DEF CandidateFits, Checkpoint, Hash
  <2>3. QED
    BY <2>1, <2>2
<1>12. RoundInv'
  BY <1>1, <1>2, <1>10, <1>11 DEF RoundInv
<1>13. QED
  BY <1>8, <1>9, <1>12 DEF PoolInv

\* A group that is large enough has a correct endpoint in it.
LEMMA GroupHasCorrect ==
  ASSUME NEW group \in Groups
  PROVE  group \subseteq Eligible /\ \E f \in group : f \notin Wrong
<1>1. group \subseteq Eligible /\ Cardinality(group) >= MinAgreement
  BY DEF Groups, Group
<1>2. IsFiniteSet(Endpoints) /\ Wrong \subseteq Endpoints
      /\ Cardinality(Wrong) < MinAgreement /\ MinAgreement \in Int
  BY AgreementAssumption
<1>3. IsFiniteSet(Wrong)
  BY <1>2, FS_Subset
<1>4. ASSUME group \subseteq Wrong PROVE FALSE
  <2>1. Cardinality(group) <= Cardinality(Wrong) /\ IsFiniteSet(group)
    BY <1>3, <1>4, FS_Subset
  <2>2. Cardinality(group) \in Nat /\ Cardinality(Wrong) \in Nat
    BY <1>3, <2>1, FS_CardinalityType
  <2>3. QED
    BY <1>1, <1>2, <2>1, <2>2
<1>5. QED
  BY <1>1, <1>4

\* What the round adopts: a block that a correct endpoint has, whose branch also
\* has the block of the checkpoint before.
LEMMA NextCheckpointFits ==
  ASSUME PoolInv, pool # None, Answered, NEW group \in Groups, NEW e \in group
  PROVE  /\ NextCheckpoint(e) \in Checkpoints
         /\ \A f \in group : probes[f].genesis \in Hashes
         /\ Checkpoint # None => NextCheckpoint(e).genesis = Checkpoint.genesis
         /\ \E f \in Endpoints \ Wrong :
              /\ common <= node[f].height
              /\ NextCheckpoint(e).hash = Hash(node[f].branch, common)
              /\ Checkpoint # None => Hash(node[f].branch, Checkpoint.height) = Checkpoint.hash
<1>1. TypeOK /\ RoundInv /\ probes # None /\ common # None /\ common \in 1..MaxHeight
  BY DEF PoolInv, TypeOK, Answered
<1>2. group \subseteq Eligible /\ e \in Eligible
  BY GroupHasCorrect
<1>3. \A f \in Eligible : probes[f] \in Candidates /\ probes[f].block # None /\ CandidateFits(f)
  <2> SUFFICES ASSUME NEW f \in Eligible
               PROVE  probes[f] \in Candidates /\ probes[f].block # None /\ CandidateFits(f)
    OBVIOUS
  <2>1. f \in Endpoints /\ probes[f] \notin {None, Rejected}
    BY <1>1 DEF Eligible, RoundInv
  <2>2. probes[f] \in Candidates
    BY <1>1, <2>1, CandidateType
  <2>3. QED
    BY <1>1, <2>1, <2>2 DEF RoundInv, Answered
<1>4. \A f \in Eligible : probes[f].genesis \in Hashes /\ probes[f].block \in Hashes
  BY <1>3 DEF Candidates
<1>5. NextCheckpoint(e) \in Checkpoints
  BY <1>1, <1>2, <1>4 DEF NextCheckpoint, Checkpoints
<1>6. NextCheckpoint(e).genesis = probes[e].genesis /\ NextCheckpoint(e).hash = probes[e].block
  BY DEF NextCheckpoint
<1>7. Checkpoint # None => NextCheckpoint(e).genesis = Checkpoint.genesis
  BY <1>2, <1>3, <1>6 DEF CandidateFits
<1>8. \A f \in group : probes[f].block = probes[e].block
  BY DEF Groups, Group
<1>9. PICK f \in group : f \notin Wrong
  BY GroupHasCorrect
<1>10. f \in Endpoints \ Wrong /\ CandidateFits(f) /\ probes[f].block # None
  BY <1>2, <1>3, <1>9 DEF Eligible
<1>11. /\ common <= node[f].height
       /\ NextCheckpoint(e).hash = Hash(node[f].branch, common)
       /\ Checkpoint # None => Hash(node[f].branch, Checkpoint.height) = Checkpoint.hash
  BY <1>6, <1>8, <1>9, <1>10 DEF CandidateFits
<1>12. QED
  BY <1>2, <1>4, <1>5, <1>7, <1>10, <1>11

\* An endpoint is selected.
LEMMA SelectEndpointStep == PoolInv /\ SelectEndpoint => PoolInv'
<1> SUFFICES ASSUME PoolInv, SelectEndpoint PROVE PoolInv'
  OBVIOUS
<1>1. TypeOK /\ UsedIsSaved /\ pool # None /\ Answered /\ pool \in Pools
  BY DEF PoolInv, SelectEndpoint, TypeOK
<1>2. UNCHANGED <<tip, age, node>> /\ probes' = None /\ common' = None
  BY DEF SelectEndpoint, EndRound
<1>3. PICK group \in Groups : \E e \in group : Adopt(NextCheckpoint(e), e, group)
  BY DEF SelectEndpoint
<1>3a. PICK e \in group : Adopt(NextCheckpoint(e), e, group)
  BY <1>3
<1>4. NextCheckpoint(e) \in Checkpoints /\ (\A f \in group : probes[f].genesis \in Hashes)
      /\ e \in Endpoints
  BY <1>1, NextCheckpointFits, GroupHasCorrect DEF Eligible
<1> DEFINE genesis == [f \in Endpoints |->
                         IF f \in group THEN probes[f].genesis ELSE pool.genesis[f]]
<1>5. genesis \in [Endpoints -> Hashes \cup {None}]
  BY <1>1, <1>4 DEF Pools
<1>6. /\ saved' \in Checkpoints \cup {None} /\ resets' \in 0..MaxResets
      /\ pool' \in Pools /\ pool'.checkpoint = saved'
  <2>1. CASE /\ saved' = NextCheckpoint(e)
             /\ \E used \in {None, e} :
                  pool' = [pool EXCEPT !.checkpoint = NextCheckpoint(e), !.selected = used,
                                       !.genesis = genesis]
             /\ UNCHANGED resets
    <3> HIDE DEF genesis
    <3>1. QED
      BY <1>1, <1>4, <1>5, <2>1 DEF TypeOK, Pools
  <2>2. CASE resets < MaxResets /\ resets' = resets + 1 /\ UNCHANGED <<saved, pool>>
    BY <1>1, <2>2, BoundsAssumption DEF TypeOK, UsedIsSaved
  <2>3. QED
    BY <1>3a, <2>1, <2>2 DEF Adopt
<1>7. TypeOK'
  BY <1>1, <1>2, <1>6 DEF TypeOK, Pools, Checkpoints, Candidates, Hashes
<1>8. QED
  BY <1>2, <1>6, <1>7 DEF PoolInv, UsedIsSaved, RoundInv

\* A round is given up, or the process ends and starts again.
LEMMA OtherSteps == PoolInv /\ (RefuseRound \/ Crash \/ Restart \/ UNCHANGED vars) => PoolInv'
<1>1. ASSUME PoolInv, RefuseRound PROVE PoolInv'
  BY <1>1 DEF PoolInv, TypeOK, UsedIsSaved, RoundInv, RefuseRound, EndRound, worldVars,
              Pools, Checkpoints, Candidates, Hashes
<1>2. ASSUME PoolInv, Crash PROVE PoolInv'
  BY <1>2 DEF PoolInv, TypeOK, UsedIsSaved, RoundInv, Crash, EndRound, worldVars,
              Pools, Checkpoints, Candidates, Hashes
<1>3. ASSUME PoolInv, Restart PROVE PoolInv'
  <2>1. TypeOK /\ RoundInv /\ pool = None
    BY <1>3 DEF PoolInv, Restart
  <2>2. pool' \in Pools /\ pool'.checkpoint = saved /\ UNCHANGED <<tip, age, node, resets, saved, probes, common>>
    BY <1>3, <2>1 DEF Restart, NewPool, Pools, TypeOK, worldVars
  <2>3. TypeOK'
    BY <2>1, <2>2 DEF TypeOK, Pools, Checkpoints, Candidates, Hashes
  <2>4. probes = None
    BY <2>1 DEF RoundInv
  <2>5. QED
    BY <2>2, <2>3, <2>4 DEF PoolInv, UsedIsSaved, RoundInv
<1>4. ASSUME PoolInv, UNCHANGED vars PROVE PoolInv'
  BY <1>4 DEF PoolInv, TypeOK, UsedIsSaved, RoundInv, CandidateFits, Checkpoint, Hash, vars,
              Pools, Checkpoints, Candidates, Hashes
<1>5. QED
  BY <1>1, <1>2, <1>3, <1>4

\* The invariant of the pool holds in every state: the checkpoint in memory is the
\* saved one, and every candidate of a round was checked against it.
THEOREM PoolInvariant == Spec => []PoolInv
<1>1. Init => PoolInv
  BY InitPool
<1>2. PoolInv /\ [Next]_vars => PoolInv'
  <2> SUFFICES ASSUME PoolInv, [Next]_vars PROVE PoolInv'
    OBVIOUS
  <2>1. CASE NewBlock \/ Wait \/ \E e \in Endpoints : Sync(e) \/ Reset(e)
    BY <2>1, WorldStep
  <2>2. CASE \E e \in Endpoints : Probe(e) \/ ProbeCommon(e)
    BY <2>2, ProbeStep, ProbeCommonStep
  <2>3. CASE StartRound \/ FindCommon \/ SelectEndpoint
    BY <2>3, StartRoundStep, FindCommonStep, SelectEndpointStep
  <2>4. CASE RefuseRound \/ Crash \/ Restart \/ UNCHANGED vars
    BY <2>4, OtherSteps
  <2>5. QED
    BY <2>1, <2>2, <2>3, <2>4 DEF Next
<1>3. QED
  BY <1>1, <1>2, PTL DEF Spec

\* Endpoints are only judged by a checkpoint that is in the journal (selectEndpoint
\* saves before it adopts; NewRPCPool reads what was saved).
THEOREM CheckpointInUseIsSaved == Spec => []UsedIsSaved
<1>1. PoolInv => UsedIsSaved
  BY DEF PoolInv
<1>2. QED
  BY <1>1, PoolInvariant, PTL

\* Only the end of a round saves a checkpoint, and a correct endpoint has its block.
LEMMA SavedStep ==
  ASSUME PoolInv, [Next]_vars, saved' # saved
  PROVE  /\ saved # None => saved'.height >= saved.height /\ saved'.genesis = saved.genesis
         /\ \E f \in Endpoints \ Wrong :
              /\ node[f].branch \in DOMAIN Branches /\ UNCHANGED node
              /\ saved'.height <= node[f].height
              /\ saved'.hash = Hash(node[f].branch, saved'.height)
              /\ saved # None => Hash(node[f].branch, saved.height) = saved.hash
<1>1. SelectEndpoint
  BY DEF Next, NewBlock, Wait, Sync, Reset, Probe, ProbeCommon, StartRound, FindCommon,
         RefuseRound, Crash, Restart, vars
<1>2. TypeOK /\ pool # None /\ Answered /\ Checkpoint = saved /\ UNCHANGED node
  BY <1>1 DEF PoolInv, UsedIsSaved, SelectEndpoint, Checkpoint
<1>3. PICK group \in Groups : \E e \in group : Adopt(NextCheckpoint(e), e, group)
  BY <1>1 DEF SelectEndpoint
<1>3a. PICK e \in group : Adopt(NextCheckpoint(e), e, group)
  BY <1>3
<1>4. /\ saved' = NextCheckpoint(e)
      /\ Checkpoint # None => NextCheckpoint(e).height >= Checkpoint.height
  BY <1>3a DEF Adopt
<1>5. saved'.height = common
  BY <1>4 DEF NextCheckpoint
<1>6. Checkpoint # None => NextCheckpoint(e).genesis = Checkpoint.genesis
  BY <1>2, NextCheckpointFits
<1>7. PICK f \in Endpoints \ Wrong :
              /\ common <= node[f].height
              /\ NextCheckpoint(e).hash = Hash(node[f].branch, common)
              /\ Checkpoint # None => Hash(node[f].branch, Checkpoint.height) = Checkpoint.hash
  BY <1>2, NextCheckpointFits
<1>8. node[f].branch \in DOMAIN Branches
  BY <1>2 DEF TypeOK
<1>9. QED
  BY <1>2, <1>4, <1>5, <1>6, <1>7, <1>8

\* The saved checkpoint is only followed by one on the same history, not lower,
\* whatever the endpoints and crashes do.
THEOREM CheckpointHistory == Spec => CheckpointContinues
<1> DEFINE Step == saved # None /\ saved' # saved =>
                     /\ saved'.height >= saved.height
                     /\ saved'.genesis = saved.genesis
                     /\ \E b \in DOMAIN Branches :
                          Hash(b, saved.height) = saved.hash /\ Hash(b, saved'.height) = saved'.hash
<1>1. PoolInv /\ [Next]_vars => [Step]_saved
  BY SavedStep
<1>2. QED
  BY <1>1, PoolInvariant, PTL DEF Spec, CheckpointContinues

\* A checkpoint is only saved when a correct endpoint has its block: less than
\* MinAgreement wrong endpoints never make one.
THEOREM CheckpointAgreement == Spec => CheckpointIsBacked
<1>1. PoolInv /\ [Next]_vars => [saved' # saved => Backed(saved')]_saved
  <2> SUFFICES ASSUME PoolInv, [Next]_vars, saved' # saved PROVE Backed(saved')
    OBVIOUS
  <2>1. PICK f \in Endpoints \ Wrong :
              /\ UNCHANGED node
              /\ saved'.height <= node[f].height
              /\ saved'.hash = Hash(node[f].branch, saved'.height)
    BY SavedStep
  <2>2. saved'.hash \in Block(f, saved'.height)
    BY <2>1 DEF Block
  <2>3. QED
    BY <2>1, <2>2 DEF Backed
<1>2. QED
  BY <1>1, PoolInvariant, PTL DEF Spec, CheckpointIsBacked

=============================================================================
