------------------------- MODULE SanctionCasesProofs -------------------------
(***************************************************************************)
(* Proofs about the sanction case machine, for every set of agents, cases, *)
(* reports, transactions, accounts and parameters.                         *)
(***************************************************************************)
EXTENDS SanctionCases, FiniteSetTheorems, WellFoundedInduction, TLAPS

-----------------------------------------------------------------------------
(***************************************************************************)
(* Finite sums                                                             *)
(*                                                                         *)
(* MapThenSumSet takes the elements of a set one by one, by a function     *)
(* that is defined by recursion over the subsets. That such a function     *)
(* exists, that it is unique, and that the order does not matter is proved *)
(* here by looking at a smallest set that would be an exception.           *)
(***************************************************************************)

\* Some natural numbers have a least one.
LEMMA LeastNatural ==
  ASSUME NEW S \in SUBSET Nat, S # {}
  PROVE  \E x \in S : \A y \in S : x <= y
<1>1. \E x \in S : \A y \in S : ~(<<y, x>> \in OpToRel(<, Nat))
  BY NatLessThanWellFounded, WFMin
<1>2. OpToRel(<, Nat) = {ss \in Nat \X Nat : ss[1] < ss[2]}
  BY Zenon DEF OpToRel
<1> HIDE DEF OpToRel
<1> DEFINE Less == {ss \in Nat \X Nat : ss[1] < ss[2]}
<1>3. PICK x \in S : \A y \in S : ~(<<y, x>> \in Less)
  BY <1>1, <1>2, Zenon
<1>4. ASSUME NEW y \in S, ~(x <= y) PROVE FALSE
  <2>1. <<y, x>> \in Nat \X Nat /\ y < x
    BY <1>4
  <2>2. <<y, x>> \in Less
    BY <2>1
  <2>3. QED
    BY <1>3, <2>2
<1>5. QED
  BY <1>4

\* The element of s that is taken first.
Some(s) == CHOOSE x \in s : TRUE

\* Function it sums f over each of the sets in S.
Iterates(it, f, S) ==
  it = [s \in S |->
          IF s = {} THEN 0
          ELSE f[Some(s)] + it[s \ {Some(s)}]]

\* The sum of f over S.
Sum(f, S) == (CHOOSE it : Iterates(it, f, SUBSET S))[S]

\* There is one to take.
LEMMA SomeIsIn ==
  ASSUME NEW s, s # {}
  PROVE  Some(s) \in s
  BY DEF Some

\* Over the subsets of a finite set there is such a function.
LEMMA IterationExists ==
  ASSUME NEW f, NEW S, IsFiniteSet(S)
  PROVE  \E it : Iterates(it, f, SUBSET S)
<1> DEFINE Small(n) == {s \in SUBSET S : Cardinality(s) <= n}
           Ok(n) == \E it : Iterates(it, f, Small(n))
<1>1. \A s \in SUBSET S : IsFiniteSet(s) /\ Cardinality(s) \in Nat
  BY FS_Subset, FS_CardinalityType
<1>2. Ok(0)
  <2>1. \A s \in Small(0) : s = {}
    <3> SUFFICES ASSUME NEW s \in Small(0) PROVE s = {}
      OBVIOUS
    <3>1. Cardinality(s) = 0 /\ IsFiniteSet(s)
      BY <1>1
    <3>2. QED
      BY <3>1, FS_EmptySet
  <2> DEFINE it == [s \in Small(0) |-> 0]
  <2>2. Iterates(it, f, Small(0))
    <3> HIDE DEF Small
    <3> QED
      BY <2>1 DEF Iterates
  <2>3. QED
    BY <2>2
<1>3. ASSUME NEW n \in Nat, Ok(n) PROVE Ok(n + 1)
  <2>1. PICK it : Iterates(it, f, Small(n))
    BY <1>3
  <2> DEFINE jt == [s \in Small(n + 1) |->
                      IF s = {} THEN 0
                      ELSE f[Some(s)] + it[s \ {Some(s)}]]
  <2>2. ASSUME NEW s \in Small(n) PROVE s \in Small(n + 1) /\ jt[s] = it[s]
    <3>1. s \in Small(n + 1)
      BY <1>1
    <3>2. QED
      <4> HIDE DEF Small
      <4> QED
        BY <2>1, <3>1 DEF Iterates
  <2>3. ASSUME NEW s \in Small(n + 1), s # {}
        PROVE  s \ {Some(s)} \in Small(n)
    <3>1. Some(s) \in s
      BY <2>3, SomeIsIn
    <3>2. Cardinality(s \ {Some(s)}) = Cardinality(s) - 1
      BY <1>1, <3>1, FS_RemoveElement
    <3>3. QED
      BY <1>1, <3>2
  <2>4. Iterates(jt, f, Small(n + 1))
    <3>1. ASSUME NEW s \in Small(n + 1)
          PROVE jt[s] = IF s = {} THEN 0
                        ELSE f[Some(s)] + jt[s \ {Some(s)}]
      <4>1. CASE s = {}
        BY <4>1
      <4>2. CASE s # {}
        <5>1. s \ {Some(s)} \in Small(n)
          BY <2>3, <4>2
        <5>2. jt[s \ {Some(s)}] = it[s \ {Some(s)}]
          BY <2>2, <5>1
        <5>3. jt[s] = f[Some(s)] + it[s \ {Some(s)}]
          <6> HIDE DEF Small
          <6> QED
            BY <4>2
        <5>4. QED
          BY <4>2, <5>2, <5>3
      <4>3. QED
        BY <4>1, <4>2
    <3> DEFINE kt == [s \in Small(n + 1) |->
                      IF s = {} THEN 0
                      ELSE f[Some(s)] + jt[s \ {Some(s)}]]
    <3>2. jt = kt
      <4> HIDE DEF Small
      <4> QED
        BY <3>1
    <3>3. QED
      BY <3>2 DEF Iterates
  <2>5. QED
    BY <2>4
<1> DEFINE N == Cardinality(S)
<1>4. Ok(N)
  <2> SUFFICES ASSUME ~Ok(N) PROVE FALSE
    OBVIOUS
  <2> DEFINE Bad == {n \in Nat : ~Ok(n)}
  <2>1. N \in Nat
    BY FS_CardinalityType
  <2> HIDE DEF Ok, N
  <2>2. PICK m \in Bad : \A n \in Bad : m <= n
    <3>1. Bad \in SUBSET Nat /\ Bad # {}
      BY <2>1
    <3>2. QED
      BY <3>1, LeastNatural
  <2>3. m # 0
    BY <1>2
  <2>4. m - 1 \in Nat /\ Ok(m - 1)
    BY <2>2, <2>3
  <2>5. Ok((m - 1) + 1)
    BY <1>3, <2>4
  <2>6. QED
    BY <2>4, <2>5
<1>5. Small(N) = SUBSET S
  BY FS_Subset
<1>6. QED
  BY <1>4, <1>5

\* There is only one, whatever the finite set is a part of.
LEMMA IterationUnique ==
  ASSUME NEW f, NEW S, NEW T, IsFiniteSet(S), IsFiniteSet(T),
         NEW i, NEW j,
         Iterates(i, f, SUBSET S), Iterates(j, f, SUBSET T)
  PROVE  \A r \in (SUBSET S) \cap (SUBSET T) : i[r] = j[r]
<1> SUFFICES ASSUME NEW r \in (SUBSET S) \cap (SUBSET T), i[r] # j[r]
             PROVE  FALSE
  OBVIOUS
<1> DEFINE Bad == {n \in Nat : \E s \in (SUBSET S) \cap (SUBSET T) :
                                 Cardinality(s) = n /\ i[s] # j[s]}
<1>1. \A s \in SUBSET S : IsFiniteSet(s) /\ Cardinality(s) \in Nat
  BY FS_Subset, FS_CardinalityType
<1>2. Bad \in SUBSET Nat /\ Bad # {}
  BY <1>1
<1>3. PICK m \in Bad : \A n \in Bad : m <= n
  BY <1>2, LeastNatural
<1>4. PICK s \in (SUBSET S) \cap (SUBSET T) : Cardinality(s) = m /\ i[s] # j[s]
  BY <1>3
<1>5. i[{}] = 0 /\ j[{}] = 0
  BY DEF Iterates
<1>6. s # {} /\ Some(s) \in s
  BY <1>4, <1>5, SomeIsIn
<1>7. /\ i[s] = f[Some(s)] + i[s \ {Some(s)}]
      /\ j[s] = f[Some(s)] + j[s \ {Some(s)}]
  BY <1>4, <1>6 DEF Iterates
<1>8. i[s \ {Some(s)}] # j[s \ {Some(s)}]
  BY <1>4, <1>7
<1>9. s \ {Some(s)} \in (SUBSET S) \cap (SUBSET T)
  BY <1>4
<1>10. Cardinality(s \ {Some(s)}) = m - 1
  BY <1>1, <1>4, <1>6, FS_RemoveElement
<1>11. m - 1 \in Bad
  BY <1>1, <1>8, <1>9, <1>10
<1>12. QED
  BY <1>3, <1>11

\* A sum over a finite set is what its own iteration computes.
LEMMA SumIterates ==
  ASSUME NEW f, NEW S, IsFiniteSet(S)
  PROVE  \E it : /\ Iterates(it, f, SUBSET S)
                 /\ \A s \in SUBSET S : Sum(f, s) = it[s]
<1> DEFINE It(T) == CHOOSE it : Iterates(it, f, SUBSET T)
<1>1. \A T : IsFiniteSet(T) => Iterates(It(T), f, SUBSET T)
  BY IterationExists
<1>2. ASSUME NEW s \in SUBSET S PROVE Sum(f, s) = It(S)[s]
  <2>1. IsFiniteSet(s)
    BY FS_Subset
  <2>2. Sum(f, s) = It(s)[s]
    BY DEF Sum
  <2> HIDE DEF It
  <2>3. PICK i : i = It(s) /\ Iterates(i, f, SUBSET s)
    BY <1>1, <2>1
  <2>4. PICK j : j = It(S) /\ Iterates(j, f, SUBSET S)
    BY <1>1
  <2>5. i[s] = j[s]
    <3>1. Iterates(i, f, SUBSET s) /\ Iterates(j, f, SUBSET S)
      BY <2>3, <2>4
    <3>2. \A r \in (SUBSET s) \cap (SUBSET S) : i[r] = j[r]
      BY <2>1, <3>1, IterationUnique
    <3>3. s \in (SUBSET s) \cap (SUBSET S)
      OBVIOUS
    <3>4. QED
      BY <3>2, <3>3
  <2>6. QED
    BY <2>2, <2>3, <2>4, <2>5
<1>3. QED
  BY <1>1, <1>2

\* Nothing adds up to zero.
LEMMA SumEmpty ==
  ASSUME NEW f
  PROVE  Sum(f, {}) = 0
<1>1. PICK it : Iterates(it, f, SUBSET {}) /\ Sum(f, {}) = it[{}]
  BY SumIterates, FS_EmptySet
<1>2. QED
  BY <1>1 DEF Iterates

\* The first element and the rest.
LEMMA SumSome ==
  ASSUME NEW f, NEW S, IsFiniteSet(S), S # {}
  PROVE  Sum(f, S) = f[Some(S)] + Sum(f, S \ {Some(S)})
<1>1. PICK it : /\ Iterates(it, f, SUBSET S)
                /\ \A s \in SUBSET S : Sum(f, s) = it[s]
  BY SumIterates
<1>2. it[S] = f[Some(S)] + it[S \ {Some(S)}]
  BY <1>1 DEF Iterates
<1>3. QED
  BY <1>1, <1>2

\* A sum of natural numbers is natural.
LEMMA SumType ==
  ASSUME NEW f, NEW S, IsFiniteSet(S), \A x \in S : f[x] \in Nat
  PROVE  Sum(f, S) \in Nat
<1> DEFINE Bad == {n \in Nat : \E s \in SUBSET S :
                                 Cardinality(s) = n /\ Sum(f, s) \notin Nat}
<1>1. \A s \in SUBSET S : IsFiniteSet(s) /\ Cardinality(s) \in Nat
  BY FS_Subset, FS_CardinalityType
<1> SUFFICES ASSUME Sum(f, S) \notin Nat PROVE FALSE
  OBVIOUS
<1>2. Bad \in SUBSET Nat /\ Bad # {}
  BY <1>1
<1>3. PICK m \in Bad : \A n \in Bad : m <= n
  BY <1>2, LeastNatural
<1>4. PICK s \in SUBSET S : Cardinality(s) = m /\ Sum(f, s) \notin Nat
  BY <1>3
<1>5. s # {} /\ Some(s) \in s
  BY <1>4, SumEmpty, SomeIsIn
<1>6. Sum(f, s) = f[Some(s)] + Sum(f, s \ {Some(s)})
  BY <1>1, <1>5, SumSome
<1>7. Sum(f, s \ {Some(s)}) \notin Nat
  BY <1>4, <1>5, <1>6
<1>8. Cardinality(s \ {Some(s)}) = m - 1
  BY <1>1, <1>4, <1>5, FS_RemoveElement
<1>9. m - 1 \in Bad
  BY <1>1, <1>7, <1>8
<1>10. QED
  BY <1>3, <1>9

\* The order of the terms does not matter: any element may be taken first.
LEMMA SumRemove ==
  ASSUME NEW f, NEW S, IsFiniteSet(S), \A x \in S : f[x] \in Nat, NEW y \in S
  PROVE  Sum(f, S) = f[y] + Sum(f, S \ {y})
<1> DEFINE Bad == {n \in Nat : \E s \in SUBSET S :
                     /\ Cardinality(s) = n
                     /\ \E z \in s : Sum(f, s) # f[z] + Sum(f, s \ {z})}
<1>1. \A s \in SUBSET S : IsFiniteSet(s) /\ Cardinality(s) \in Nat
  BY FS_Subset, FS_CardinalityType
<1> SUFFICES ASSUME Sum(f, S) # f[y] + Sum(f, S \ {y}) PROVE FALSE
  OBVIOUS
<1>2. Bad \in SUBSET Nat /\ Bad # {}
  BY <1>1
<1>3. PICK m \in Bad : \A n \in Bad : m <= n
  BY <1>2, LeastNatural
<1>4. PICK s \in SUBSET S :
        /\ Cardinality(s) = m
        /\ \E z \in s : Sum(f, s) # f[z] + Sum(f, s \ {z})
  BY <1>3
<1>5. PICK z \in s : Sum(f, s) # f[z] + Sum(f, s \ {z})
  BY <1>4
<1> DEFINE x == Some(s)
<1>6. x \in s /\ Sum(f, s) = f[x] + Sum(f, s \ {x})
  BY <1>1, SomeIsIn, SumSome
<1> HIDE DEF x
<1>7. x # z
  BY <1>5, <1>6
<1>8. ASSUME NEW u \in s, NEW v \in s \ {u}
      PROVE  Sum(f, s \ {u}) = f[v] + Sum(f, (s \ {u}) \ {v})
  <2>1. Cardinality(s \ {u}) = m - 1
    BY <1>1, <1>4, FS_RemoveElement
  <2>2. m - 1 \notin Bad /\ m - 1 \in Nat
    BY <1>1, <1>3, <2>1
  <2>3. QED
    BY <2>1, <2>2
<1>9. Sum(f, s \ {x}) = f[z] + Sum(f, (s \ {x}) \ {z})
  BY <1>6, <1>7, <1>8
<1>10. Sum(f, s \ {z}) = f[x] + Sum(f, (s \ {z}) \ {x})
  BY <1>6, <1>7, <1>8
<1>11. (s \ {x}) \ {z} = (s \ {z}) \ {x}
  OBVIOUS
<1>12. /\ f[x] \in Nat /\ f[z] \in Nat
       /\ Sum(f, (s \ {x}) \ {z}) \in Nat
  <2>1. IsFiniteSet((s \ {x}) \ {z})
    BY <1>1
  <2>2. QED
    BY <1>6, <2>1, SumType
<1>13. PICK rest \in Nat : rest = Sum(f, (s \ {x}) \ {z})
  BY <1>12
<1>14. /\ Sum(f, s \ {x}) = f[z] + rest
       /\ Sum(f, s \ {z}) = f[x] + rest
  BY <1>9, <1>10, <1>11, <1>13
<1>15. Sum(f, s) = f[x] + (f[z] + rest)
  BY <1>6, <1>14
<1>16. Sum(f, s) = f[z] + (f[x] + rest)
  BY <1>12, <1>15
<1>17. QED
  BY <1>5, <1>14, <1>16

\* One more term.
LEMMA SumAdd ==
  ASSUME NEW f, NEW S, IsFiniteSet(S), NEW y, y \notin S,
         \A x \in S \cup {y} : f[x] \in Nat
  PROVE  Sum(f, S \cup {y}) = f[y] + Sum(f, S)
<1>1. IsFiniteSet(S \cup {y})
  BY FS_AddElement
<1>2. (S \cup {y}) \ {y} = S
  OBVIOUS
<1>3. QED
  BY <1>1, <1>2, SumRemove

\* More terms, no smaller sum.
LEMMA SumMonotone ==
  ASSUME NEW f, NEW S, IsFiniteSet(S), \A x \in S : f[x] \in Nat, NEW T \in SUBSET S
  PROVE  Sum(f, T) <= Sum(f, S)
<1> DEFINE Bad == {n \in Nat : \E s \in SUBSET S :
                     Cardinality(s) = n /\ T \subseteq s /\ ~(Sum(f, T) <= Sum(f, s))}
<1>1. \A s \in SUBSET S : IsFiniteSet(s) /\ Cardinality(s) \in Nat /\ Sum(f, s) \in Nat
  BY FS_Subset, FS_CardinalityType, SumType
<1> SUFFICES ASSUME ~(Sum(f, T) <= Sum(f, S)) PROVE FALSE
  OBVIOUS
<1>2. Bad \in SUBSET Nat /\ Bad # {}
  BY <1>1
<1>3. PICK m \in Bad : \A n \in Bad : m <= n
  BY <1>2, LeastNatural
<1>4. PICK s \in SUBSET S :
        Cardinality(s) = m /\ T \subseteq s /\ ~(Sum(f, T) <= Sum(f, s))
  BY <1>3
<1>5. PICK y \in s : y \notin T
  <2>1. s # T
    BY <1>1, <1>4
  <2>2. QED
    BY <1>4, <2>1
<1>6. Sum(f, s) = f[y] + Sum(f, s \ {y})
  BY <1>1, SumRemove
<1>7. s \ {y} \in SUBSET S /\ T \subseteq s \ {y} /\ f[y] \in Nat
  BY <1>4, <1>5
<1>8. ~(Sum(f, T) <= Sum(f, s \ {y}))
  BY <1>1, <1>4, <1>6, <1>7
<1>9. Cardinality(s \ {y}) = m - 1
  BY <1>1, <1>4, FS_RemoveElement
<1>10. m - 1 \in Bad
  BY <1>1, <1>7, <1>8, <1>9
<1>11. QED
  BY <1>3, <1>10
-----------------------------------------------------------------------------
(***************************************************************************)
(* The sums of the model                                                   *)
(***************************************************************************)

\* What an original transfer moved.
AmountOf == [t \in Originals |-> t.amount]

\* The amounts of some original transfers are summed in this way.
LEMMA AmountsAreSums ==
  ASSUME NEW S, IsFiniteSet(S), S \subseteq Originals
  PROVE  MapThenSumSet(LAMBDA m : m.amount, S) = Sum(AmountOf, S)
<1> DEFINE Steps(it) ==
      it = [s \in SUBSET S |->
              IF s = {} THEN 0
              ELSE (CHOOSE x \in s : TRUE).amount + it[s \ {CHOOSE x \in s : TRUE}]]
<1>1. MapThenSumSet(LAMBDA m : m.amount, S) = (CHOOSE it : Steps(it))[S]
  BY DEF MapThenSumSet, MapThenFoldSet
<1>2. ASSUME NEW s \in SUBSET S, s # {}
      PROVE  AmountOf[Some(s)] = (CHOOSE x \in s : TRUE).amount
  BY <1>2, SomeIsIn DEF AmountOf, Some
<1>3. ASSUME NEW it PROVE Steps(it) <=> Iterates(it, AmountOf, SUBSET S)
  <2>1. [s \in SUBSET S |->
           IF s = {} THEN 0
           ELSE (CHOOSE x \in s : TRUE).amount + it[s \ {CHOOSE x \in s : TRUE}]]
        = [s \in SUBSET S |->
             IF s = {} THEN 0 ELSE AmountOf[Some(s)] + it[s \ {Some(s)}]]
    BY <1>2 DEF Some
  <2>2. QED
    BY <2>1 DEF Iterates
<1> HIDE DEF Steps
<1>4. QED
  BY <1>1, <1>3, Zenon DEF Sum

\* Some messages of one transaction have a natural amount together.
LEMMA AmountsOfMessages ==
  ASSUME NEW tx \in Txs, NEW S \in SUBSET TxMsgs[tx]
  PROVE  /\ MapThenSumSet(LAMBDA m : m.amount, S) \in Nat
         /\ S = {} => MapThenSumSet(LAMBDA m : m.amount, S) = 0
<1>1. IsFiniteSet(S) /\ S \subseteq Originals
  BY ConstantsAssumption, FS_Subset DEF Originals
<1>2. \A t \in S : AmountOf[t] \in Nat
  BY <1>1, ConstantsAssumption DEF AmountOf, Originals, Transfer
<1>3. QED
  BY <1>1, <1>2, AmountsAreSums, SumType, SumEmpty

\* A transaction moves natural amounts, and nothing where it has no message.
LEMMA FlowsAreNatural ==
  \A tx \in Txs, x \in Accounts :
    /\ Outflow(tx, x) \in Nat
    /\ Inflow(tx, x) \in Nat
    /\ (\A m \in TxMsgs[tx] : m.sender # x) => Outflow(tx, x) = 0
    /\ (\A m \in TxMsgs[tx] : m.recipient # x) => Inflow(tx, x) = 0
<1> SUFFICES ASSUME NEW tx \in Txs, NEW x \in Accounts
             PROVE  /\ Outflow(tx, x) \in Nat
                    /\ Inflow(tx, x) \in Nat
                    /\ (\A m \in TxMsgs[tx] : m.sender # x) => Outflow(tx, x) = 0
                    /\ (\A m \in TxMsgs[tx] : m.recipient # x) => Inflow(tx, x) = 0
  OBVIOUS
<1> DEFINE Sent == {m \in TxMsgs[tx] : m.sender = x}
           Got == {m \in TxMsgs[tx] : m.recipient = x}
<1>1. /\ Outflow(tx, x) \in Nat
      /\ Sent = {} => Outflow(tx, x) = 0
  BY AmountsOfMessages DEF Outflow
<1>2. /\ Inflow(tx, x) \in Nat
      /\ Got = {} => Inflow(tx, x) = 0
  BY AmountsOfMessages DEF Inflow
<1>3. QED
  BY <1>1, <1>2

\* A list of report ids has a first element.
LEMMA ReportIdListFirst ==
  ASSUME NEW ids \in ReportIdLists
  PROVE  /\ 1 \in DOMAIN ids
         /\ ids[1] \in Reports
         /\ ids # <<>>
<1>1. PICK n \in 1..MaxReports : ids \in [1..n -> Reports]
  BY DEF ReportIdLists
<1>2. 1 \in 1..n
  BY ConstantsAssumption
<1>3. 1 \in DOMAIN ids /\ ids[1] \in Reports
  BY <1>1, <1>2
<1>4. QED
  BY <1>3

\* Changing the status of a case changes nothing else.
LEMMA WithStatusFields ==
  ASSUME NEW k \in Case, NEW s \in CaseStatuses
  PROVE  /\ WithStatus(k, s) \in Case
         /\ WithStatus(k, s).status = s
         /\ WithStatus(k, s).action = k.action
         /\ WithStatus(k, s).txHash = k.txHash
         /\ WithStatus(k, s).targetType = k.targetType
         /\ WithStatus(k, s).targetAddress = k.targetAddress
         /\ WithStatus(k, s).reportIds = k.reportIds
         /\ WithStatus(k, s).deadline = k.deadline
         /\ WithStatus(k, s).quorumThreshold = k.quorumThreshold
         /\ WithStatus(k, s).voters = k.voters
         /\ WithStatus(k, s).unanimousRequired = k.unanimousRequired
         /\ WithStatus(k, s).previousCaseId = k.previousCaseId
         /\ WithStatus(k, s).executedHeight = k.executedHeight
  BY DEF WithStatus, Case

\* Marking a case as executed changes its status and execution height only.
LEMMA AsExecutedFields ==
  ASSUME NEW k \in Case, height \in Nat
  PROVE  /\ AsExecuted(k) \in Case
         /\ AsExecuted(k).status = "EXECUTED"
         /\ AsExecuted(k).executedHeight = height
         /\ AsExecuted(k).action = k.action
         /\ AsExecuted(k).txHash = k.txHash
         /\ AsExecuted(k).targetType = k.targetType
         /\ AsExecuted(k).targetAddress = k.targetAddress
         /\ AsExecuted(k).reportIds = k.reportIds
         /\ AsExecuted(k).deadline = k.deadline
         /\ AsExecuted(k).quorumThreshold = k.quorumThreshold
         /\ AsExecuted(k).voters = k.voters
         /\ AsExecuted(k).unanimousRequired = k.unanimousRequired
         /\ AsExecuted(k).previousCaseId = k.previousCaseId
  BY DEF AsExecuted, Case, CaseStatuses

\* The stores' types together with the well-formedness of cases.
BaseInv == TypeOK /\ CasesWellFormed

\* The evidence of an open case is about a transaction of the chain.
LEMMA CaseEvidence ==
  ASSUME BaseInv, NEW c \in Cases, cases[c].status # "ABSENT"
  PROVE  /\ CaseTransfer(c) \in Transfer
         /\ cases[c].txHash \in Txs
         /\ cases[c].reportIds[1] \in Reports
         /\ reports[cases[c].reportIds[1]] \in ReportBodies
<1>1. /\ cases[c].reportIds \in ReportIdLists
      /\ PrimaryReport(cases[c]) \in ReportBodies
      /\ cases[c].txHash = CaseTransfer(c).txHash
  BY DEF BaseInv, CasesWellFormed
<1>2. PrimaryReport(cases[c]) \in ReportBody
  BY <1>1, ConstantsAssumption
<1>3. CaseTransfer(c) \in Transfer
  BY <1>2 DEF CaseTransfer, ReportBody
<1>4. QED
  BY <1>1, <1>3, ReportIdListFirst DEF Transfer, PrimaryReport

\* Rewriting one open case without touching its evidence keeps all cases
\* well formed.
LEMMA CaseUpdateWellFormed ==
  ASSUME BaseInv, NEW c \in Cases, NEW k \in Case,
         cases' = [cases EXCEPT ![c] = k],
         reports' = reports,
         cases[c].status # "ABSENT",
         k.status # "ABSENT",
         k.reportIds = cases[c].reportIds,
         k.txHash = cases[c].txHash,
         k.targetAddress = cases[c].targetAddress,
         executions' \subseteq executions \cup {c},
         c \in executions' => k.status \in {"EXECUTED", "REVOKED"}
  PROVE  CasesWellFormed'
<1>1. ASSUME NEW d \in Cases
      PROVE  /\ cases'[d].reportIds = cases[d].reportIds
             /\ cases'[d].txHash = cases[d].txHash
             /\ cases'[d].targetAddress = cases[d].targetAddress
             /\ cases'[d] = IF d = c THEN k ELSE cases[d]
  BY DEF BaseInv, TypeOK
<1>2. \A d \in Cases : CaseTransfer(d)' = CaseTransfer(d)
  BY <1>1 DEF CaseTransfer, PrimaryReport
<1>3. \A d \in Cases : PrimaryReport(cases[d])' = PrimaryReport(cases[d])
  BY <1>1 DEF PrimaryReport
<1>4. QED
  BY <1>1, <1>2, <1>3 DEF BaseInv, CasesWellFormed

\* What a vote changes, for the status it leaves the case with.
VoteStep(c, a, option, status) ==
  /\ \/ cases[c].status = "PENDING"
     \/ cases[c].status = "APPROVED" /\ cases[c].action = "REVERT_TRANSFER"
  /\ status # "ABSENT"
  /\ status \in {"PENDING", "APPROVED", "REJECTED"}
  /\ votes[c][a] = "NONE"
  /\ votes' = [votes EXCEPT ![c][a] = option]
  /\ cases' = [cases EXCEPT ![c] = WithStatus(cases[c], status)]
  /\ active' = IF status = "APPROVED" /\ cases[c].action = "BLOCK_TX"
               THEN [active EXCEPT ![cases[c].txHash] =
                       [caseId |-> c, activatedHeight |-> height]]
               ELSE active
  /\ UNCHANGED <<height, params, registry, reports, executions, reviews,
                 committedActive, freeze, fundVars>>

\* Every vote is such a change, and leaves a decided or pending case.
LEMMA VoteStepExists ==
  ASSUME NEW c \in Cases, NEW a \in Agents, NEW option \in VoteOptions,
         SubmitSanctionVote(c, a, option)
  PROVE  \E status \in CaseStatuses : VoteStep(c, a, option, status)
<1> DEFINE status == RecomputedStatus(cases[c],
             VotersFor(c, "APPROVE") \cup {x \in {a} : option = "APPROVE"},
             VotersFor(c, "REJECT") \cup {x \in {a} : option = "REJECT"})
<1>1. cases[c].status \in {"PENDING", "APPROVED"}
  BY DEF SubmitSanctionVote
<1>2. status \in {"PENDING", "APPROVED", "REJECTED"}
  BY <1>1 DEF RecomputedStatus
<1>3. status \in CaseStatuses /\ status # "ABSENT"
  BY <1>2 DEF CaseStatuses
<1>4. VoteStep(c, a, option, status)
  BY <1>2, <1>3 DEF SubmitSanctionVote, VoteStep
<1>5. QED
  BY <1>3, <1>4

\* What opening case c does, k being the new record.
OpenStep(c, ids, previous, k) ==
  /\ cases[c].status = "ABSENT"
  /\ reports[ids[1]] \in ReportBodies
  /\ k.status = "PENDING"
  /\ k.reportIds = ids
  /\ k.txHash = reports[ids[1]].transfer.txHash
  /\ k.targetAddress \in {None, reports[ids[1]].transfer.recipient}
  /\ k.previousCaseId = previous
  /\ k.executedHeight = 0
  /\ k.voters = registry /\ \E a \in Agents : registry[a] > 0
  /\ k.quorumThreshold = params.quorumThreshold
  /\ previous # None => \E type \in TargetTypes :
                          Replaceable(previous, ids[1], type)
  /\ cases' = [x \in Cases |->
                 IF x = c THEN k
                 ELSE IF x = previous THEN WithStatus(cases[x], "EXPIRED")
                      ELSE cases[x]]
  /\ UNCHANGED <<height, params, registry, reports, votes, executions,
                 reviews, active, committedActive, freeze, fundVars>>

\* Every opening of a case is such a change, with a well-typed new record.
LEMMA OpenStepExists ==
  ASSUME BaseInv, NEW c \in Cases, NEW targetType \in TargetTypes,
         NEW target \in Accounts \cup {None}, NEW ids \in ReportIdLists,
         NEW previous \in Cases \cup {None},
         OpenSanctionCase(c, targetType, target, ids, previous)
  PROVE  \E k \in Case : OpenStep(c, ids, previous, k)
<1> DEFINE cited == {reports[ids[i]] : i \in DOMAIN ids}
           action == ComputePolicyAction(cited, params, targetType)
           k == [status |-> "PENDING", action |-> action,
                 txHash |-> reports[ids[1]].transfer.txHash,
                 targetType |-> targetType, targetAddress |-> target,
                 reportIds |-> ids,
                 deadline |-> height + params.votingPeriodBlocks,
                 voters |-> registry,
                 quorumThreshold |-> params.quorumThreshold,
                 unanimousRequired |-> params.unanimousRequiredForRevert,
                 previousCaseId |-> previous, executedHeight |-> 0]
<1>1. /\ cases[c].status = "ABSENT"
      /\ None \notin cited
      /\ action \in params.allowedActions
      /\ \A i \in DOMAIN ids : ReportSupports(ids[i], ids[1], target, action)
      /\ previous # None => Replaceable(previous, ids[1], targetType)
      /\ \E a \in Agents : registry[a] > 0
      /\ cases' = [x \in Cases |->
                     IF x = c THEN k
                     ELSE IF x = previous
                          THEN WithStatus(cases[x], "EXPIRED")
                          ELSE cases[x]]
      /\ UNCHANGED <<height, params, registry, reports, votes, executions,
                     reviews, active, committedActive, freeze, fundVars>>
  BY DEF OpenSanctionCase
<1>2. 1 \in DOMAIN ids /\ ids[1] \in Reports
  BY ReportIdListFirst
<1>3. reports[ids[1]] \in ReportBodies
  BY <1>1, <1>2 DEF BaseInv, TypeOK
<1>4. reports[ids[1]].transfer.txHash \in Txs
  BY <1>3, ConstantsAssumption DEF ReportBody, Transfer
<1>5. target \in {None, reports[ids[1]].transfer.recipient}
  <2>1. ReportSupports(ids[1], ids[1], target, action)
    BY <1>1, <1>2
  <2>2. QED
    BY <2>1 DEF ReportSupports
<1>6. params \in ParamRecord
  BY ConstantsAssumption DEF BaseInv, TypeOK, ValidParamSets
<1> HIDE DEF action
<1>7. k \in Case
  <2>1. action \in SanctionActions
    BY <1>1, <1>6 DEF ParamRecord
  <2>2. /\ height + params.votingPeriodBlocks \in Nat
        /\ params.quorumThreshold \in Nat
        /\ params.unanimousRequiredForRevert \in BOOLEAN
    BY <1>6 DEF ParamRecord, BaseInv, TypeOK
  <2>3. registry \in [Agents -> Nat]
    BY DEF BaseInv, TypeOK
  <2>4. QED
    BY <1>4, <2>1, <2>2, <2>3 DEF Case, CaseStatuses
<1>8. /\ k.status = "PENDING"
      /\ k.reportIds = ids
      /\ k.txHash = reports[ids[1]].transfer.txHash
      /\ k.targetAddress = target
      /\ k.previousCaseId = previous
      /\ k.executedHeight = 0
      /\ k.voters = registry
      /\ k.quorumThreshold = params.quorumThreshold
  OBVIOUS
<1> HIDE DEF k
<1>9. OpenStep(c, ids, previous, k)
  BY <1>1, <1>3, <1>5, <1>8 DEF OpenStep
<1>10. QED
  BY <1>7, <1>9

\* The genesis state of the model satisfies the base invariant.
LEMMA BaseInit == Init => BaseInv
<1> SUFFICES ASSUME Init PROVE BaseInv
  OBVIOUS
<1>1. AbsentCase \in Case
  BY DEF AbsentCase, Case, CaseStatuses, TargetTypes, NoAction
<1>2. TypeOK
  BY <1>1, ConstantsAssumption DEF Init, TypeOK, Originals
<1>3. CasesWellFormed
  BY DEF Init, CasesWellFormed, AbsentCase
<1>4. QED
  BY <1>2, <1>3 DEF BaseInv

\* Every step preserves the base invariant.
LEMMA BaseStep == BaseInv /\ [Next]_vars => BaseInv'
<1> SUFFICES ASSUME BaseInv, [Next]_vars PROVE BaseInv'
  OBVIOUS
<1> USE DEF BaseInv
<1>1. ASSUME NEW tx \in Txs, DeliverTx(tx) PROVE BaseInv'
  <2>1. \A x \in Accounts :
          (balance[x] - Outflow(tx, x)) + Inflow(tx, x) \in Nat
    BY <1>1, FlowsAreNatural DEF DeliverTx, SufficientFunds, TypeOK
  <2>2. TypeOK'
    BY <1>1, <2>1, ConstantsAssumption DEF DeliverTx, TypeOK, caseVars
  <2>3. CasesWellFormed'
    BY <1>1 DEF DeliverTx, CasesWellFormed, PrimaryReport, CaseTransfer,
                caseVars
  <2>4. QED
    BY <2>2, <2>3
<1>2. ASSUME NEW powers \in PowerMaps, EndBlock(powers) PROVE BaseInv'
  <2>1. TypeOK'
    BY <1>2, ConstantsAssumption DEF EndBlock, TypeOK, caseVars, fundVars
  <2>2. CasesWellFormed'
    BY <1>2 DEF EndBlock, CasesWellFormed, PrimaryReport, CaseTransfer,
                caseVars
  <2>3. QED
    BY <2>1, <2>2
<1>3. ASSUME NEW p \in ParamSets, UpdateParams(p) PROVE BaseInv'
  <2>1. TypeOK'
    BY <1>3 DEF UpdateParams, TypeOK, ValidParamSets, caseVars, fundVars
  <2>2. CasesWellFormed'
    BY <1>3 DEF UpdateParams, CasesWellFormed, PrimaryReport, CaseTransfer,
                caseVars
  <2>3. QED
    BY <2>1, <2>2
<1>4. ASSUME NEW r \in Reports, NEW body \in ReportBodies,
             SubmitRiskReport(r, body)
      PROVE  BaseInv'
  <2>1. TypeOK'
    BY <1>4 DEF SubmitRiskReport, TypeOK, caseVars, fundVars
  <2>2. \A c \in Cases : cases[c].status # "ABSENT" =>
          PrimaryReport(cases[c])' = PrimaryReport(cases[c])
    BY <1>4, ReportIdListFirst, ConstantsAssumption
    DEF SubmitRiskReport, TypeOK, CasesWellFormed, PrimaryReport, caseVars
  <2>3. CasesWellFormed'
    BY <1>4, <2>2 DEF SubmitRiskReport, CasesWellFormed, CaseTransfer,
                      caseVars, PrimaryReport
  <2>4. QED
    BY <2>1, <2>3
<1>5. ASSUME NEW c \in Cases, NEW targetType \in TargetTypes,
             NEW target \in Accounts \cup {None}, NEW ids \in ReportIdLists,
             NEW previous \in Cases \cup {None},
             OpenSanctionCase(c, targetType, target, ids, previous)
      PROVE  BaseInv'
  <2>1. PICK k \in Case : OpenStep(c, ids, previous, k)
    BY <1>5, OpenStepExists
  <2>2. ASSUME NEW x \in Cases
        PROVE  /\ x = c => cases'[x] = k
               /\ x # c /\ x = previous =>
                    cases'[x] = WithStatus(cases[x], "EXPIRED")
               /\ x # c /\ x # previous => cases'[x] = cases[x]
    BY <2>1 DEF OpenStep
  <2>3. cases' \in [Cases -> Case]
    BY <2>1, WithStatusFields DEF OpenStep, TypeOK, CaseStatuses
  <2>4. TypeOK'
    BY <2>1, <2>3 DEF OpenStep, TypeOK, fundVars
  <2>5. ASSUME NEW x \in Cases, x # c
        PROVE  /\ cases'[x].reportIds = cases[x].reportIds
               /\ cases'[x].txHash = cases[x].txHash
               /\ cases'[x].targetAddress = cases[x].targetAddress
               /\ cases'[x].previousCaseId = cases[x].previousCaseId
               /\ \/ cases'[x].status = cases[x].status
                  \/ /\ cases'[x].status = "EXPIRED"
                     /\ cases[x].status # "ABSENT"
                     /\ x \notin executions
    <3>1. CASE x # previous
      BY <2>2, <2>5, <3>1
    <3>2. CASE x = previous
      <4>1. cases'[x] = WithStatus(cases[x], "EXPIRED")
        BY <2>2, <2>5, <3>2
      <4>2. previous # None
        BY <3>2, ConstantsAssumption
      <4>3. cases[x].status # "ABSENT" /\ x \notin executions
        BY <2>1, <3>2, <4>2 DEF OpenStep, Replaceable
      <4>4. cases[x] \in Case /\ "EXPIRED" \in CaseStatuses
        BY DEF TypeOK, CaseStatuses
      <4>5. QED
        BY <4>1, <4>3, <4>4, WithStatusFields
    <3>3. QED
      BY <3>1, <3>2
  <2>6. CasesWellFormed'
    <3> SUFFICES ASSUME NEW x \in Cases
                 PROVE  /\ cases'[x].status # "ABSENT" =>
                             /\ cases'[x].reportIds \in ReportIdLists
                             /\ reports'[cases'[x].reportIds[1]] \in ReportBodies
                             /\ cases'[x].txHash =
                                  reports'[cases'[x].reportIds[1]].transfer.txHash
                             /\ cases'[x].targetAddress \in
                                  {None, reports'[cases'[x].reportIds[1]].transfer.recipient}
                        /\ x \in executions' =>
                             cases'[x].status \in {"EXECUTED", "REVOKED"}
                        /\ cases'[x].status = "ABSENT" =>
                             cases'[x].previousCaseId = None
      BY DEF CasesWellFormed, PrimaryReport, CaseTransfer
    <3>1. reports' = reports /\ executions' = executions
      BY <2>1 DEF OpenStep
    <3>2. CASE x = c
      <4>1. c \notin executions
        BY <2>1 DEF OpenStep, CasesWellFormed
      <4>2. QED
        BY <2>1, <2>2, <3>1, <3>2, <4>1 DEF OpenStep
    <3>3. CASE x # c
      BY <2>5, <3>1, <3>3 DEF CasesWellFormed, PrimaryReport, CaseTransfer
    <3>4. QED
      BY <3>2, <3>3
  <2>7. QED
    BY <2>4, <2>6
<1>6. ASSUME NEW c \in Cases, NEW a \in Agents, NEW option \in VoteOptions,
             SubmitSanctionVote(c, a, option)
      PROVE  BaseInv'
  <2>1. PICK status \in CaseStatuses : VoteStep(c, a, option, status)
    BY <1>6, VoteStepExists
  <2>2. cases' \in [Cases -> Case]
    BY <2>1, WithStatusFields DEF VoteStep, TypeOK
  <2>3. cases[c].txHash \in Txs
    BY <2>1, CaseEvidence DEF VoteStep
  <2>4. active' \in [Txs -> ActiveSanction \cup {None}]
    BY <2>1, <2>3 DEF VoteStep, TypeOK, ActiveSanction
  <2>5. votes' \in [Cases -> [Agents -> VoteOptions \cup {"NONE"}]]
    BY <2>1 DEF VoteStep, TypeOK
  <2>6. TypeOK'
    BY <2>1, <2>2, <2>4, <2>5 DEF VoteStep, TypeOK, fundVars
  <2>7. c \notin executions
    BY <2>1 DEF VoteStep, CasesWellFormed
  <2>8. CasesWellFormed'
    <3> DEFINE k == WithStatus(cases[c], status)
    <3>1. /\ k \in Case
          /\ k.status # "ABSENT"
          /\ k.reportIds = cases[c].reportIds
          /\ k.txHash = cases[c].txHash
          /\ k.targetAddress = cases[c].targetAddress
      BY <2>1, WithStatusFields DEF VoteStep, TypeOK
    <3> HIDE DEF k
    <3>2. cases' = [cases EXCEPT ![c] = k]
      BY <2>1 DEF VoteStep, k
    <3>3. QED
      BY <2>1, <2>7, <3>1, <3>2, CaseUpdateWellFormed DEF VoteStep
  <2>9. QED
    BY <2>6, <2>8
<1>7. ASSUME NEW c \in Cases, ExecuteSanction(c) PROVE BaseInv'
  <2>1. Executable(c) /\ RecordExecution(c)
    BY <1>7 DEF ExecuteSanction, ExecuteWatch, ExecuteBlockTx, ExecuteFreeze,
                ExecuteSettlement
  <2>2. cases[c].status = "APPROVED"
    BY <2>1 DEF Executable
  <2> DEFINE k == AsExecuted(cases[c])
  <2>3. /\ k \in Case
        /\ k.status = "EXECUTED"
        /\ k.reportIds = cases[c].reportIds
        /\ k.txHash = cases[c].txHash
        /\ k.targetAddress = cases[c].targetAddress
    BY AsExecutedFields DEF TypeOK
  <2>4. cases' = [cases EXCEPT ![c] = k]
    BY <2>1 DEF RecordExecution
  <2> HIDE DEF k
  <2>5. cases' \in [Cases -> Case]
    BY <2>3, <2>4 DEF TypeOK
  <2>6. /\ active' \in [Txs -> ActiveSanction \cup {None}]
        /\ freeze' \in [Accounts -> Cases \cup {None}]
        /\ settlements' \in [Originals -> Cases \cup {None}]
        /\ balance' \in [Accounts -> Nat]
    <3>1. cases[c].txHash \in Txs /\ CaseTransfer(c) \in Transfer
      BY <2>2, CaseEvidence
    <3>2. CASE ExecuteWatch(c)
      BY <3>2 DEF ExecuteWatch, TypeOK
    <3>3. CASE ExecuteBlockTx(c)
      BY <3>1, <3>3 DEF ExecuteBlockTx, TypeOK, ActiveSanction
    <3>4. CASE ExecuteFreeze(c)
      BY <3>4 DEF ExecuteFreeze, TypeOK
    <3>5. CASE ExecuteSettlement(c)
      <4> DEFINE t == CaseTransfer(c)
      <4>1. /\ t.recipient \in Accounts
            /\ t.amount \in Nat
            /\ SettlementPayee(cases[c].action, t) \in Accounts
        BY <3>1, ConstantsAssumption DEF Transfer, SettlementPayee
      <4>2. /\ SufficientFunds(t.recipient, t.amount)
            /\ balance' = Moved(t.recipient, SettlementPayee(cases[c].action, t),
                                t.amount)
            /\ settlements' = [settlements EXCEPT ![t] = c]
            /\ UNCHANGED <<active, freeze>>
        BY <3>5 DEF ExecuteSettlement, CaseTransfer
      <4> HIDE DEF t
      <4>3. balance' \in [Accounts -> Nat]
        BY <4>1, <4>2 DEF SufficientFunds, TypeOK, Moved
      <4>4. QED
        BY <4>2, <4>3 DEF TypeOK
    <3>6. QED
      BY <1>7, <3>2, <3>3, <3>4, <3>5 DEF ExecuteSanction
  <2>7. TypeOK'
    BY <2>1, <2>5, <2>6 DEF RecordExecution, TypeOK
  <2>8. CasesWellFormed'
    BY <2>1, <2>2, <2>3, <2>4, CaseUpdateWellFormed DEF RecordExecution
  <2>9. QED
    BY <2>7, <2>8
<1>8. ASSUME NEW c \in Cases, ReviewSanction(c) PROVE BaseInv'
  <2>1. TypeOK'
    BY <1>8 DEF ReviewSanction, TypeOK, Review, caseVars, fundVars
  <2>2. CasesWellFormed'
    BY <1>8 DEF ReviewSanction, CasesWellFormed, PrimaryReport, CaseTransfer,
                caseVars
  <2>3. QED
    BY <2>1, <2>2
<1>9. ASSUME NEW c \in Cases, RevokeSanction(c) PROVE BaseInv'
  <2> DEFINE k == WithStatus(cases[c], "REVOKED")
  <2>1. /\ k \in Case
        /\ k.status = "REVOKED"
        /\ k.reportIds = cases[c].reportIds
        /\ k.txHash = cases[c].txHash
        /\ k.targetAddress = cases[c].targetAddress
    BY WithStatusFields DEF TypeOK, CaseStatuses
  <2>2. cases' = [cases EXCEPT ![c] = k]
    BY <1>9 DEF RevokeSanction
  <2> HIDE DEF k
  <2>3. cases' \in [Cases -> Case]
    BY <2>1, <2>2 DEF TypeOK
  <2>4. reviews' \in [Cases -> Review \cup {None}]
    BY <1>9 DEF RevokeSanction, ReviewPermitsRevoke, TypeOK, Review
  <2>5. TypeOK'
    BY <1>9, <2>3, <2>4 DEF RevokeSanction, ActiveWithout, FreezeWithout,
                            TypeOK, fundVars
  <2>6. CasesWellFormed'
    BY <1>9, <2>1, <2>2, CaseUpdateWellFormed DEF RevokeSanction
  <2>7. QED
    BY <2>5, <2>6
<1>10. ASSUME NEW powers \in PowerMaps, RegisterAgent(powers) PROVE BaseInv'
  <2>1. TypeOK'
    BY <1>10, ConstantsAssumption DEF RegisterAgent, TypeOK, caseVars, fundVars
  <2>2. CasesWellFormed'
    BY <1>10 DEF RegisterAgent, CasesWellFormed, PrimaryReport, CaseTransfer,
                 caseVars
  <2>3. QED
    BY <2>1, <2>2
<1>11. CASE UNCHANGED vars
  BY <1>11 DEF vars, TypeOK, CasesWellFormed, PrimaryReport, CaseTransfer
<1>12. QED
  BY <1>1, <1>2, <1>3, <1>4, <1>5, <1>6, <1>7, <1>8, <1>9, <1>10, <1>11 DEF Next

\* Every reachable state is well typed, and every open case cites stored
\* evidence about its own transaction and target.
THEOREM BaseCorrect == Spec => []BaseInv
  BY BaseInit, BaseStep, PTL DEF Spec

\* Every store holds records of its type in every reachable state; in
\* particular no balance becomes negative.
THEOREM TypeCorrect == Spec => []TypeOK
<1>1. BaseInv => TypeOK
  BY DEF BaseInv
<1>2. QED
  BY BaseCorrect, <1>1, PTL

=============================================================================
