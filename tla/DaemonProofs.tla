---------------------------- MODULE DaemonProofs ----------------------------
(***************************************************************************)
(* Proofs about the agent daemons, for any agents, configurations, answers *)
(* of the services and number of rounds: no transaction is missed, work    *)
(* ends only for good reasons, votes are fresh and about the case, and     *)
(* agents recommend and execute what the chain's policy calls for.         *)
(***************************************************************************)
EXTENDS Daemon, FiniteSetTheorems, SequenceTheorems, WellFoundedInduction, TLAPS

-----------------------------------------------------------------------------
(***************************************************************************)
(* Numbers and finite sets                                                 *)
(***************************************************************************)

\* Some natural numbers have a least one.
LEMMA LeastNatural ==
  ASSUME NEW S \in SUBSET Nat, S # {}
  PROVE  \E x \in S : \A y \in S : x <= y
<1>1. \E x \in S : \A y \in S : ~(<<y, x>> \in OpToRel(<, Nat))
  BY NatLessThanWellFounded, WFMin
<1>2. OpToRel(<, Nat) = {ss \in Nat \X Nat : ss[1] < ss[2]}
  BY Zenon DEF OpToRel
<1> HIDE DEF OpToRel
<1> DEFINE Less == {ss \in Nat \X Nat : ss[1] < ss[2]}
<1>3. PICK x \in S : \A y \in S : ~(<<y, x>> \in Less)
  BY <1>1, <1>2, Zenon
<1>4. ASSUME NEW y \in S, ~(x <= y) PROVE FALSE
  <2>1. <<y, x>> \in Nat \X Nat /\ y < x
    BY <1>4
  <2>2. <<y, x>> \in Less
    BY <2>1
  <2>3. QED
    BY <1>3, <2>2
<1>5. QED
  BY <1>4

\* The smallest of some natural numbers is one of them.
LEMMA MinIs ==
  ASSUME NEW S \in SUBSET Nat, S # {}
  PROVE  Min(S) \in S /\ \A y \in S : Min(S) <= y
<1>1. \E x \in S : \A y \in S : x <= y
  BY LeastNatural
<1>2. QED
  BY <1>1, Zenon DEF Min

\* A number is the largest beside zero.
LEMMA MaxIs ==
  ASSUME NEW n \in Nat
  PROVE  Max({0} \cup {n}) = n
<1>1. n \in {0} \cup {n} /\ \A y \in {0} \cup {n} : n >= y
  OBVIOUS
<1>2. /\ Max({0} \cup {n}) \in {0} \cup {n}
      /\ \A y \in {0} \cup {n} : Max({0} \cup {n}) >= y
  BY <1>1, Zenon DEF Max
<1>3. QED
  BY <1>2

\* A measure has a largest value on a finite set.
LEMMA FiniteGreatest ==
  ASSUME NEW T, IsFiniteSet(T), T # {}, NEW f \in [T -> Nat]
  PROVE  \E x \in T : \A y \in T : f[y] <= f[x]
<1> DEFINE Top(S) == \E x \in S : \A y \in S : f[y] <= f[x]
           Bad == {n \in Nat : \E S \in SUBSET T :
                     S # {} /\ Cardinality(S) = n /\ ~Top(S)}
<1>1. SUFFICES ASSUME ~Top(T) PROVE FALSE
  OBVIOUS
<1>2. Cardinality(T) \in Bad
  <2>1. Cardinality(T) \in Nat
    BY FS_CardinalityType
  <2>2. QED
    BY <1>1, <2>1
<1>3. PICK n \in Bad : \A m \in Bad : n <= m
  <2>1. Bad \in SUBSET Nat /\ Bad # {}
    BY <1>2
  <2> HIDE DEF Bad
  <2>2. QED
    BY <2>1, LeastNatural
<1>4. PICK S \in SUBSET T : S # {} /\ Cardinality(S) = n /\ ~Top(S)
  BY <1>3
<1>5. IsFiniteSet(S) /\ n \in Nat
  BY <1>3, FS_Subset
<1>6. PICK x \in S : TRUE
  BY <1>4
<1> DEFINE R == S \ {x}
<1>7. IsFiniteSet(R) /\ Cardinality(R) = n - 1
  BY <1>4, <1>5, <1>6, FS_RemoveElement
<1>8. Cardinality(R) \in Nat
  BY <1>7, FS_CardinalityType
<1>9. CASE R = {}
  <2>1. \A y \in S : f[y] <= f[x]
    <3>1. \A y \in S : y = x
      BY <1>9
    <3>2. f[x] \in Nat
      BY <1>6
    <3>3. QED
      BY <3>1, <3>2
  <2>2. QED
    BY <1>4, <1>6, <2>1
<1>10. CASE R # {}
  <2>1. Top(R)
    <3>1. R \in SUBSET T
      OBVIOUS
    <3>2. ~(Cardinality(R) \in Bad)
      <4>1. ~(n <= Cardinality(R))
        BY <1>5, <1>7, <1>8
      <4>2. QED
        BY <1>3, <4>1
    <3> HIDE DEF R, Top
    <3>3. QED
      BY <1>8, <1>10, <3>1, <3>2
  <2>2. PICK z \in R : \A y \in R : f[y] <= f[z]
    BY <2>1
  <2>3. \A y \in S : f[y] \in Nat
    OBVIOUS
  <2>4. CASE f[x] <= f[z]
    <3>1. \A y \in S : f[y] <= f[z]
      BY <2>2, <2>4
    <3>2. QED
      BY <1>4, <2>2, <3>1
  <2>5. CASE ~(f[x] <= f[z])
    <3>1. f[z] <= f[x]
      BY <1>6, <2>2, <2>3, <2>5
    <3>2. \A y \in S : f[y] <= f[x]
      BY <1>6, <2>2, <2>3, <3>1
    <3>3. QED
      BY <1>4, <1>6, <3>2
  <2>6. QED
    BY <2>4, <2>5
<1>11. QED
  BY <1>9, <1>10

-----------------------------------------------------------------------------
(***************************************************************************)
(* The review of a transaction                                             *)
(***************************************************************************)

\* An agent's copy of the policy (policy.Action) gives the action that the chain
\* computes from the same report (ComputePolicyAction).
THEOREM PoliciesAgree ==
  ASSUME NEW report \in Evidence, NEW target
  PROVE  Action(report.score, report.categories, target) =
           ComputePolicyAction({report}, Thresholds, target)
<1>1. report.score \in Nat
  BY DEF Evidence
<1>2. MaxScore({report}) = report.score
  <2>1. {r.score : r \in {report}} = {report.score}
    OBVIOUS
  <2>2. QED
    BY <1>1, <2>1, MaxIs DEF MaxScore
<1>3. HighRisk({report}, Thresholds) <=>
        ~(report.categories \cap Thresholds.highRiskCategories = {})
  BY DEF HighRisk
<1>4. ActionFor(report.score, Thresholds) = Ladder(report.score, Thresholds)
  BY Zenon DEF ActionFor, Ladder
<1>5. ASSUME NEW action
      PROVE  Downcast(action, target) =
               IF /\ target = "TX"
                  /\ action \in {"REVERT_TRANSFER", "FREEZE_ADDRESS", "ESCROW_FUNDS"}
               THEN "BLOCK_TX" ELSE action
  BY Zenon DEF Downcast
<1>6. QED
  BY <1>2, <1>3, <1>4, <1>5, Zenon DEF Action, ComputePolicyAction

\* The ladder leads to an action of the protocol or to none.
LEMMA ActionIsTyped ==
  ASSUME NEW score, NEW categories, NEW target
  PROVE  Action(score, categories, target) \in SanctionActions \cup {NoAction}
BY DEF Action, ActionFor, SanctionActions, NoAction

\* The strength of an action tells which one it is.
LEMMA StrengthIs ==
  /\ \A x \in SanctionActions \cup {NoAction} : Strength(x) \in Nat
  /\ \A x, y \in SanctionActions \cup {NoAction} : Strength(x) = Strength(y) => x = y
<1>1. Strength("UNSPECIFIED") = 0
  BY DEF Strength, NoAction
<1>2. Strength("WATCH") = 1
  BY DEF Strength, NoAction
<1>3. Strength("BLOCK_TX") = 2
  BY DEF Strength, NoAction
<1>4. Strength("FREEZE_ADDRESS") = 3
  BY DEF Strength, NoAction
<1>5. Strength("ESCROW_FUNDS") = 4
  BY DEF Strength, NoAction
<1>6. Strength("REVERT_TRANSFER") = 5
  BY DEF Strength, NoAction
<1>7. QED
  BY <1>1, <1>2, <1>3, <1>4, <1>5, <1>6 DEF SanctionActions, NoAction

\* The review of one transfer, unless there is none, carries the action that the
\* policy gives for its score and categories (processTx).
LEMMA ProcessTxIs ==
  ASSUME NEW a \in AgentSet, NEW target, NEW x \in Answers,
         NEW v, v = ProcessTx(a, target, x), v # Failed
  PROVE  /\ v = [action |-> v.action, score |-> v.score, categories |-> v.categories]
         /\ v.score \in Nat /\ v.categories \in SUBSET STRING
         /\ v.action \in SanctionActions \cup {NoAction}
         /\ v.action = Action(v.score, v.categories, target)
<1>1. x.risk \in ScreenTx /\ x.decision \in AgentEvaluate(AgentSet)
  BY AnswersAssumption DEF AnswersAssumption
<1> DEFINE score == IF x.decision = Absent THEN x.risk.score ELSE x.decision.score
           action == Action(score, x.risk.categories, target)
<1>2. /\ x.risk # Failed /\ x.decision # Failed
      /\ v = [action |-> action, score |-> score, categories |-> x.risk.categories]
  BY Zenon DEF ProcessTx
<1>3. x.risk \in [score : Nat, categories : SUBSET STRING]
  BY <1>1, <1>2 DEF ScreenTx
<1>4. x.decision # Absent => x.decision \in EvaluateResponse(AgentSet)
  BY <1>1, <1>2 DEF AgentEvaluate
<1>5. x.decision # Absent => x.decision.score \in Nat
  BY <1>4 DEF EvaluateResponse
<1>6. score \in Nat
  BY <1>3, <1>5
<1>7. action \in SanctionActions \cup {NoAction}
  BY ActionIsTyped
<1> HIDE DEF action
<1>8. v.action = action /\ v.score = score /\ v.categories = x.risk.categories
  BY <1>2
<1>9. QED
  BY <1>2, <1>3, <1>6, <1>7, <1>8 DEF action

\* Of the reviews of some transfers one is the strongest, by action and then by
\* score, and the first of its kind (processPendingTransfers).
LEMMA StrongestIs ==
  ASSUME NEW T \in SUBSET Nat, T # {}, IsFiniteSet(T), NEW reviews, DOMAIN reviews = T,
         \A t \in T : reviews[t] # Failed,
         \A t \in T : reviews[t].action \in SanctionActions \cup {NoAction},
         \A t \in T : reviews[t].score \in Nat
  PROVE  \E t \in T :
           ProcessPendingTransfers(reviews) =
             [transfer |-> t, action |-> reviews[t].action,
              score |-> reviews[t].score, categories |-> reviews[t].categories]
<1> DEFINE strength == [t \in T |-> Strength(reviews[t].action)]
           score == [t \in T |-> reviews[t].score]
           better(s, t) ==
             \/ Strength(reviews[s].action) > Strength(reviews[t].action)
             \/ /\ reviews[s].action = reviews[t].action
                /\ reviews[s].score > reviews[t].score
           first(t) == \A s \in T : ~better(s, t) /\ (better(t, s) \/ t <= s)
<1>1. strength \in [T -> Nat] /\ score \in [T -> Nat]
  BY StrengthIs
<1>2. PICK m \in T : \A s \in T : strength[s] <= strength[m]
  <2> HIDE DEF strength
  <2> QED
    BY <1>1, FiniteGreatest
<1> DEFINE U == {t \in T : strength[t] = strength[m]}
<1>3. PICK n \in U : \A s \in U : score[s] <= score[n]
  <2>1. IsFiniteSet(U)
    <3>1. U \in SUBSET T
      OBVIOUS
    <3> HIDE DEF U
    <3>2. QED
      BY <3>1, FS_Subset
  <2>2. m \in U
    OBVIOUS
  <2> DEFINE f == [t \in U |-> score[t]]
  <2>3. f \in [U -> Nat]
    BY <1>1
  <2>4. PICK k \in U : \A s \in U : f[s] <= f[k]
    <3> HIDE DEF f, U
    <3> QED
      BY <2>1, <2>2, <2>3, FiniteGreatest
  <2>5. QED
    BY <2>4
<1> DEFINE V == {t \in U : score[t] = score[n]}
<1>4. PICK t \in V : \A s \in V : t <= s
  <2>1. V \in SUBSET Nat /\ V # {}
    BY <1>3
  <2> HIDE DEF V
  <2>2. QED
    BY <2>1, LeastNatural
<1>5. /\ t \in T /\ strength[t] = strength[m] /\ score[t] = score[n]
      /\ \A s \in T : strength[s] \in Nat /\ score[s] \in Nat
  BY <1>1
<1>6. first(t)
  <2> SUFFICES ASSUME NEW s \in T
               PROVE  ~better(s, t) /\ (better(t, s) \/ t <= s)
    OBVIOUS
  <2>1. /\ Strength(reviews[s].action) = strength[s]
        /\ Strength(reviews[t].action) = strength[t]
        /\ reviews[s].score = score[s] /\ reviews[t].score = score[t]
        /\ reviews[s].action = reviews[t].action <=> strength[s] = strength[t]
    BY <1>5, StrengthIs
  <2>2. strength[s] <= strength[t]
    BY <1>2, <1>5
  <2>3. strength[s] = strength[t] => score[s] <= score[t]
    BY <1>3, <1>5
  <2>4. strength[s] = strength[t] /\ score[s] = score[t] => t <= s
    BY <1>4, <1>5
  <2> HIDE DEF strength, score
  <2>5. QED
    BY <1>5, <2>1, <2>2, <2>3, <2>4
<1> HIDE DEF first, better
<1>7. PICK u : u = CHOOSE k \in T : first(k)
  OBVIOUS
<1>8. u \in T
  BY <1>5, <1>6, <1>7, Zenon
<1>9. ProcessPendingTransfers(reviews) =
        [transfer |-> u, action |-> reviews[u].action,
         score |-> reviews[u].score, categories |-> reviews[u].categories]
  <2>1. ~\E k \in DOMAIN reviews : reviews[k] = Failed
    OBVIOUS
  <2>2. u = CHOOSE k \in DOMAIN reviews : first(k)
    BY <1>7
  <2>3. QED
    BY <2>1, <2>2, Zenon DEF ProcessPendingTransfers, first, better
<1>10. QED
  BY <1>8, <1>9

\* A review that a daemon stores is about one of the transfers and calls for what
\* the chain's policy does.
LEMMA ReviewIs ==
  ASSUME NEW a \in AgentSet, NEW T \in SUBSET Nat, T # {}, IsFiniteSet(T),
         NEW review \in Review(a, T) \ {Failed}
  PROVE  /\ review.transfer \in T
         /\ review.score \in Nat /\ review.categories \in SUBSET STRING
         /\ review.action \in SanctionActions \cup {NoAction}
         /\ review.action = Action(review.score, review.categories, TargetOf(a))
<1>1. PICK x \in [T -> Answers] :
        review = ProcessPendingTransfers([t \in T |-> ProcessTx(a, TargetOf(a), x[t])])
  BY DEF Review
<1>2. PICK reviews : reviews = [t \in T |-> ProcessTx(a, TargetOf(a), x[t])]
  OBVIOUS
<1>3. \A t \in T : reviews[t] # Failed
  <2>1. ~\E t \in DOMAIN reviews : reviews[t] = Failed
    BY <1>1, <1>2, Zenon DEF ProcessPendingTransfers
  <2>2. QED
    BY <1>2, <2>1
<1>4. ASSUME NEW t \in T
      PROVE  /\ reviews[t].score \in Nat /\ reviews[t].categories \in SUBSET STRING
             /\ reviews[t].action \in SanctionActions \cup {NoAction}
             /\ reviews[t].action =
                  Action(reviews[t].score, reviews[t].categories, TargetOf(a))
  <2>1. reviews[t] = ProcessTx(a, TargetOf(a), x[t]) /\ x[t] \in Answers
    BY <1>2
  <2>2. QED
    BY <1>3, <2>1, ProcessTxIs
<1>5. DOMAIN reviews = T
  BY <1>2
<1>6. PICK t \in T : ProcessPendingTransfers(reviews) =
        [transfer |-> t, action |-> reviews[t].action,
         score |-> reviews[t].score, categories |-> reviews[t].categories]
  BY <1>3, <1>4, <1>5, StrongestIs
<1>7. /\ review.transfer = t /\ review.action = reviews[t].action
      /\ review.score = reviews[t].score /\ review.categories = reviews[t].categories
  BY <1>1, <1>2, <1>6
<1>8. QED
  BY <1>4, <1>7

-----------------------------------------------------------------------------
(***************************************************************************)
(* The handlers of the chain                                               *)
(***************************************************************************)

\* A case with other votes and another status.
LEMMA CaseEdited ==
  ASSUME NEW c \in Cases, NEW b \in Ballots, NEW s \in CaseStatuses, NEW e \in BOOLEAN,
         NEW d, d = [action |-> c.action, target |-> c.target, transfer |-> c.transfer,
                     observed |-> c.observed, expiry |-> c.expiry,
                     deadline |-> c.deadline, opened |-> c.opened, voters |-> c.voters,
                     votes |-> b, status |-> s, executed |-> e]
  PROVE  /\ d \in Cases /\ d.target = c.target /\ d.transfer = c.transfer
         /\ d.expiry = c.expiry /\ d.deadline = c.deadline
         /\ d.status = s /\ d.executed = e
<1>1. /\ c.action \in SanctionActions \cup {NoAction} /\ c.target \in TargetTypes
      /\ c.transfer \in Nat /\ c.observed \in Nat /\ c.expiry \in Nat
      /\ c.deadline \in Nat /\ c.opened \in Nat /\ c.voters \in SUBSET AgentSet
  BY DEF Cases
<1>2. QED
  BY <1>1 DEF Cases

\* A vote changes the votes and perhaps the status (SubmitSanctionVote).
LEMMA VotedIs ==
  ASSUME NEW c \in Cases, NEW tx \in Messages, tx.kind = "vote",
         NEW d, d = Voted(c, tx)
  PROVE  /\ d \in Cases /\ d.target = c.target /\ d.transfer = c.transfer
         /\ d.expiry = c.expiry /\ d.deadline = c.deadline
         /\ d.status \in {c.status, "APPROVED", "REJECTED"} /\ d.executed = c.executed
<1>1. c = [action |-> c.action, target |-> c.target, transfer |-> c.transfer,
           observed |-> c.observed, expiry |-> c.expiry,
           deadline |-> c.deadline, opened |-> c.opened, voters |-> c.voters,
           votes |-> c.votes, status |-> c.status, executed |-> c.executed]
      /\ c.votes \in Ballots /\ c.status \in CaseStatuses /\ c.executed \in BOOLEAN
  BY DEF Cases
<1>2. tx.from \in AgentSet /\ tx.option \in {"approve", "reject"} /\ tx.observed \in Nat
  BY DEF Messages
<1>3. PICK b : b = [c.votes EXCEPT ![tx.from] =
                     [option |-> tx.option, observed |-> tx.observed]]
  OBVIOUS
<1>4. b \in Ballots
  BY <1>1, <1>2, <1>3 DEF Ballots, Options
<1>5. PICK v : v = [c EXCEPT !.votes = b]
  OBVIOUS
<1>6. v = [action |-> c.action, target |-> c.target, transfer |-> c.transfer,
           observed |-> c.observed, expiry |-> c.expiry,
           deadline |-> c.deadline, opened |-> c.opened, voters |-> c.voters,
           votes |-> b, status |-> c.status, executed |-> c.executed]
  BY <1>1, <1>5
<1>7. PICK s : s = Tally(v)
  OBVIOUS
<1>8. d = [v EXCEPT !.status = s]
  BY <1>3, <1>5, <1>7, Zenon DEF Voted
<1>9. d = [action |-> c.action, target |-> c.target, transfer |-> c.transfer,
           observed |-> c.observed, expiry |-> c.expiry,
           deadline |-> c.deadline, opened |-> c.opened, voters |-> c.voters,
           votes |-> b, status |-> s, executed |-> c.executed]
  BY <1>6, <1>8
<1>10. s \in {c.status, "APPROVED", "REJECTED"}
  <2>1. v.status = c.status
    BY <1>6
  <2>2. QED
    BY <1>7, <2>1, Zenon DEF Tally
<1>11. s \in CaseStatuses
  BY <1>1, <1>10 DEF CaseStatuses
<1>12. QED
  BY <1>1, <1>4, <1>9, <1>10, <1>11, CaseEdited

\* An execution marks the case (ExecuteSanction).
LEMMA ExecutedIs ==
  ASSUME NEW c \in Cases, NEW d, d = Executed(c)
  PROVE  /\ d \in Cases /\ d.target = c.target /\ d.transfer = c.transfer
         /\ d.expiry = c.expiry /\ d.deadline = c.deadline
         /\ d.status = "EXECUTED" /\ d.executed = TRUE
<1>1. c = [action |-> c.action, target |-> c.target, transfer |-> c.transfer,
           observed |-> c.observed, expiry |-> c.expiry,
           deadline |-> c.deadline, opened |-> c.opened, voters |-> c.voters,
           votes |-> c.votes, status |-> c.status, executed |-> c.executed]
      /\ c.votes \in Ballots
  BY DEF Cases
<1>2. PICK v : v = [c EXCEPT !.status = "EXECUTED"]
  OBVIOUS
<1>3. v = [action |-> c.action, target |-> c.target, transfer |-> c.transfer,
           observed |-> c.observed, expiry |-> c.expiry,
           deadline |-> c.deadline, opened |-> c.opened, voters |-> c.voters,
           votes |-> c.votes, status |-> "EXECUTED", executed |-> c.executed]
  BY <1>1, <1>2
<1>4. PICK e \in BOOLEAN : e = TRUE
  OBVIOUS
<1>5. d = [v EXCEPT !.executed = e]
  BY <1>2, <1>4, Zenon DEF Executed
<1>6. d = [action |-> c.action, target |-> c.target, transfer |-> c.transfer,
           observed |-> c.observed, expiry |-> c.expiry,
           deadline |-> c.deadline, opened |-> c.opened, voters |-> c.voters,
           votes |-> c.votes, status |-> "EXECUTED", executed |-> e]
  BY <1>3, <1>5
<1>7. "EXECUTED" \in CaseStatuses
  BY DEF CaseStatuses
<1>8. /\ d \in Cases /\ d.target = c.target /\ d.transfer = c.transfer
      /\ d.expiry = c.expiry /\ d.deadline = c.deadline
      /\ d.status = "EXECUTED" /\ d.executed = e
  BY <1>1, <1>6, <1>7, CaseEdited
<1>9. QED
  BY <1>4, <1>8, Zenon

\* A case with another status (expireForReplacement, RevokeSanction).
LEMMA MarkedIs ==
  ASSUME NEW c \in Cases, NEW s \in CaseStatuses, NEW d, d = [c EXCEPT !.status = s]
  PROVE  /\ d \in Cases /\ d.target = c.target /\ d.transfer = c.transfer
         /\ d.expiry = c.expiry /\ d.deadline = c.deadline
         /\ d.status = s /\ d.executed = c.executed
<1>1. c = [action |-> c.action, target |-> c.target, transfer |-> c.transfer,
           observed |-> c.observed, expiry |-> c.expiry,
           deadline |-> c.deadline, opened |-> c.opened, voters |-> c.voters,
           votes |-> c.votes, status |-> c.status, executed |-> c.executed]
      /\ c.votes \in Ballots /\ c.executed \in BOOLEAN
  BY DEF Cases
<1>2. d = [action |-> c.action, target |-> c.target, transfer |-> c.transfer,
           observed |-> c.observed, expiry |-> c.expiry,
           deadline |-> c.deadline, opened |-> c.opened, voters |-> c.voters,
           votes |-> c.votes, status |-> s, executed |-> c.executed]
  BY <1>1
<1>3. QED
  BY <1>1, <1>2, CaseEdited

\* A new case is pending, about the transfer of its report (OpenSanctionCase).
LEMMA OpenedIs ==
  ASSUME registry \subseteq AgentSet, NEW tx \in Messages, tx.kind = "open",
         NEW h \in Nat, NEW d, d = Opened(tx, h)
  PROVE  /\ d \in Cases /\ d.target = tx.target /\ d.transfer = tx.transfer
         /\ d.status = "PENDING" /\ d.executed = FALSE
<1>1. /\ tx.action \in SanctionActions \cup {NoAction} /\ tx.target \in TargetTypes
      /\ tx.transfer \in Nat /\ tx.observed \in Nat /\ tx.expiry \in Nat
  BY DEF Messages
<1>2. h + VotingPeriod \in Nat
  BY BoundsAssumption DEF BoundsAssumption
<1>3. PICK b : b = [a \in AgentSet |-> None]
  OBVIOUS
<1>4. b \in Ballots
  BY <1>3 DEF Ballots
<1>5. PICK k \in Nat : k = h + VotingPeriod
  BY <1>2
<1>6. d = [action |-> tx.action, target |-> tx.target, transfer |-> tx.transfer,
           observed |-> tx.observed, expiry |-> tx.expiry, deadline |-> k,
           opened |-> h, voters |-> registry, votes |-> b,
           status |-> "PENDING", executed |-> FALSE]
  BY <1>3, <1>5, Zenon DEF Opened
<1>7. QED
  BY <1>1, <1>4, <1>6 DEF Cases, CaseStatuses

-----------------------------------------------------------------------------
(***************************************************************************)
(* The rounds of the case, before and after a block                        *)
(***************************************************************************)

RanOut(c, h) == c.expiry <= h \/ c.deadline < h

Overdue(c, h) == c.expiry <= h \/ (c.status = "PENDING" /\ c.deadline < h)

\* RoundsInv of these rounds at this height.
Rounds(cs, h) ==
  /\ \A r \in 1..Len(cs) :
       /\ cs[r].target = cs[Len(cs)].target
       /\ cs[r].transfer = cs[Len(cs)].transfer
       /\ cs[r].executed => cs[r].status \in {"EXECUTED", "REVOKED"}
       /\ cs[r].status = "EXECUTED" => cs[r].executed
       /\ r < Len(cs) <=> cs[r].status = "EXPIRED"
       /\ r < Len(cs) => RanOut(cs[r], h)
  /\ Len(cs) > 1 => cs[Len(cs)].target = "ADDRESS"

\* What blocks may do to the last round, c before and d after them.
LastMoves(c, d, same, h, k) ==
  /\ d.target = c.target /\ d.transfer = c.transfer
  /\ Final(c) => same /\ Final(d)
  /\ c.status \in {"REJECTED", "REVOKED"} => d.status \in {c.status, "REVOKED"}
  /\ same /\ Overdue(c, h) => Overdue(d, k) \/ Final(d)

\* What blocks from height h to k may do to the rounds.
Moves(cs, h, ds, k) ==
  /\ h <= k
  /\ Len(ds) = Len(cs) \/ Len(ds) = Len(cs) + 1
  /\ \A r \in 1..Len(cs) :
       /\ ds[r].expiry = cs[r].expiry /\ ds[r].deadline = cs[r].deadline
       /\ cs[r].executed => ds[r].executed
  /\ Len(cs) > 0 =>
       LastMoves(cs[Len(cs)], ds[Len(ds)], Len(ds) = Len(cs), h, k)

\* Time passes.
LEMMA HeightMoves ==
  ASSUME NEW cs \in Seq(Cases), NEW h \in Nat, NEW k \in Nat, h <= k, Rounds(cs, h)
  PROVE  Rounds(cs, k) /\ Moves(cs, h, cs, k)
<1>1. Len(cs) \in Nat /\ \A r \in 1..Len(cs) : cs[r] \in Cases
  OBVIOUS
<1>2. \A r \in 1..Len(cs) : cs[r].expiry \in Nat /\ cs[r].deadline \in Nat
  BY <1>1 DEF Cases
<1>3. \A r \in 1..Len(cs) : /\ RanOut(cs[r], h) => RanOut(cs[r], k)
                            /\ Overdue(cs[r], h) => Overdue(cs[r], k)
  BY <1>2 DEF RanOut, Overdue
<1>4. Rounds(cs, k)
  BY <1>3 DEF Rounds
<1>5. Len(cs) > 0 => Len(cs) \in 1..Len(cs)
  BY <1>1
<1>6. Len(cs) > 0 => LastMoves(cs[Len(cs)], cs[Len(cs)], TRUE, h, k)
  BY <1>3, <1>5 DEF LastMoves
<1>7. Moves(cs, h, cs, k)
  BY <1>6 DEF Moves
<1>8. QED
  BY <1>4, <1>7

\* A handler may make d of the round c.
Edits(c, d, h, k) ==
  /\ d.target = c.target /\ d.transfer = c.transfer
  /\ d.expiry = c.expiry /\ d.deadline = c.deadline
  /\ c.status # "EXPIRED" /\ d.status # "EXPIRED"
  /\ c.executed => d.executed
  /\ d.executed => d.status \in {"EXECUTED", "REVOKED"}
  /\ d.status = "EXECUTED" => d.executed
  /\ Final(c) => Final(d)
  /\ c.status \in {"REJECTED", "REVOKED"} => d.status \in {c.status, "REVOKED"}
  /\ Overdue(c, h) => Overdue(d, k) \/ Final(d)

\* A handler changes a round that is not replaced, hence the last one.
LEMMA EditMoves ==
  ASSUME NEW cs \in Seq(Cases), NEW h \in Nat, NEW k \in Nat, h <= k, Rounds(cs, h),
         NEW n \in 1..Len(cs), NEW d \in Cases, Edits(cs[n], d, h, k),
         NEW ds, ds = [cs EXCEPT ![n] = d]
  PROVE  ds \in Seq(Cases) /\ Len(ds) = Len(cs) /\ Rounds(ds, k) /\ Moves(cs, h, ds, k)
<1> USE DEF Edits
<1>1. Len(cs) \in Nat /\ \A r \in 1..Len(cs) : cs[r] \in Cases
  OBVIOUS
<1>2. n = Len(cs)
  BY <1>1 DEF Rounds
<1>3. /\ ds \in Seq(Cases) /\ Len(ds) = Len(cs) /\ ds[n] = d
      /\ \A r \in 1..Len(cs) : r # n => ds[r] = cs[r]
  OBVIOUS
<1>4. Rounds(cs, k)
  BY HeightMoves
<1>5. d.target = cs[n].target /\ d.transfer = cs[n].transfer
  OBVIOUS
<1>6. ASSUME NEW r \in 1..Len(cs)
      PROVE  /\ ds[r].target = d.target
             /\ ds[r].transfer = d.transfer
             /\ ds[r].executed => ds[r].status \in {"EXECUTED", "REVOKED"}
             /\ ds[r].status = "EXECUTED" => ds[r].executed
             /\ r < Len(cs) <=> ds[r].status = "EXPIRED"
             /\ r < Len(cs) => RanOut(ds[r], k)
  <2>1. CASE r = n
    BY <1>1, <1>2, <1>3, <2>1
  <2>2. CASE r # n
    BY <1>1, <1>2, <1>3, <1>4, <1>5, <2>2 DEF Rounds
  <2>3. QED
    BY <2>1, <2>2
<1>7. Rounds(ds, k)
  <2>1. Len(cs) > 1 => d.target = "ADDRESS"
    BY <1>2, <1>5 DEF Rounds
  <2>2. QED
    BY <1>2, <1>3, <1>6, <2>1 DEF Rounds
<1>8. Moves(cs, h, ds, k)
  <2>1. ASSUME NEW r \in 1..Len(cs)
        PROVE  /\ ds[r].expiry = cs[r].expiry /\ ds[r].deadline = cs[r].deadline
               /\ cs[r].executed => ds[r].executed
    BY <1>3
  <2>2. LastMoves(cs[Len(cs)], ds[Len(ds)], Len(ds) = Len(cs), h, k)
    BY <1>2, <1>3 DEF LastMoves
  <2>3. QED
    BY <1>3, <2>1, <2>2 DEF Moves
<1>9. QED
  BY <1>3, <1>7, <1>8

\* A new round replaces the last one, which has run out, or is the first.
LEMMA AppendMoves ==
  ASSUME NEW cs \in Seq(Cases), NEW h \in Nat, NEW k \in Nat, h <= k, Rounds(cs, h),
         NEW e \in Cases, e.status = "PENDING", e.executed = FALSE,
         Len(cs) > 0 =>
           /\ ~Final(cs[Len(cs)]) /\ RanOut(cs[Len(cs)], k)
           /\ cs[Len(cs)].target = "ADDRESS" /\ e.target = "ADDRESS"
           /\ e.transfer = cs[Len(cs)].transfer,
         NEW bs, bs = [r \in 1..Len(cs) |->
                        IF r = Len(cs) THEN [cs[r] EXCEPT !.status = "EXPIRED"] ELSE cs[r]],
         NEW ds, ds = Append(bs, e)
  PROVE  /\ ds \in Seq(Cases) /\ Len(ds) = Len(cs) + 1
         /\ Rounds(ds, k) /\ Moves(cs, h, ds, k)
<1>1. Len(cs) \in Nat /\ \A r \in 1..Len(cs) : cs[r] \in Cases
  OBVIOUS
<1>2. PICK n \in Nat : n = Len(cs)
  BY <1>1
<1>3. ASSUME NEW r \in 1..n
      PROVE  /\ bs[r] \in Cases /\ bs[r].target = cs[r].target
             /\ bs[r].transfer = cs[r].transfer
             /\ bs[r].expiry = cs[r].expiry /\ bs[r].deadline = cs[r].deadline
             /\ bs[r].executed = cs[r].executed
             /\ bs[r].status = "EXPIRED"
  <2>1. CASE r = n
    <3>1. bs[r] = [cs[r] EXCEPT !.status = "EXPIRED"] /\ cs[r] \in Cases
      BY <1>1, <1>2, <2>1
    <3>2. "EXPIRED" \in CaseStatuses
      BY DEF CaseStatuses
    <3>3. QED
      BY <3>1, <3>2, MarkedIs
  <2>2. CASE r # n
    <3>1. bs[r] = cs[r] /\ cs[r] \in Cases
      BY <1>1, <1>2, <2>2
    <3>2. cs[r].status = "EXPIRED"
      BY <1>2, <2>2 DEF Rounds
    <3>3. QED
      BY <3>1, <3>2
  <2>3. QED
    BY <2>1, <2>2
<1>4. bs \in Seq(Cases) /\ Len(bs) = n
  <2>1. \A r \in 1..n : bs[r] \in Cases
    BY <1>3
  <2>2. bs \in [1..n -> Cases]
    BY <1>2, <2>1
  <2>3. QED
    BY <2>2
<1>5. /\ ds \in Seq(Cases) /\ Len(ds) = n + 1 /\ ds[n + 1] = e
      /\ \A r \in 1..n : ds[r] = bs[r]
  BY <1>4
<1>6. Rounds(cs, k)
  BY HeightMoves
<1>7. n > 0 => /\ ~Final(cs[n]) /\ RanOut(cs[n], k)
               /\ cs[n].target = "ADDRESS" /\ e.target = "ADDRESS"
               /\ e.transfer = cs[n].transfer
  BY <1>2
<1>8. ASSUME NEW r \in 1..n + 1
      PROVE  /\ ds[r].target = e.target
             /\ ds[r].transfer = e.transfer
             /\ ds[r].executed => ds[r].status \in {"EXECUTED", "REVOKED"}
             /\ ds[r].status = "EXECUTED" => ds[r].executed
             /\ r < n + 1 <=> ds[r].status = "EXPIRED"
             /\ r < n + 1 => RanOut(ds[r], k)
  <2>1. CASE r = n + 1
    BY <1>5, <2>1
  <2>2. CASE r # n + 1
    <3>1. r \in 1..n /\ n > 0
      BY <2>2
    <3>2. ds[r] = bs[r]
      BY <1>5, <3>1
    <3>3. /\ cs[r].target = cs[n].target /\ cs[r].transfer = cs[n].transfer
          /\ cs[r].executed => cs[r].status \in {"EXECUTED", "REVOKED"}
          /\ r < n => RanOut(cs[r], k) /\ cs[r].status = "EXPIRED"
      BY <1>2, <1>6, <3>1 DEF Rounds
    <3>4. RanOut(cs[r], k)
      BY <1>7, <3>1, <3>3
    <3>5. ~cs[r].executed
      <4>1. r < n => ~cs[r].executed
        BY <3>3
      <4>2. ~cs[n].executed
        BY <1>7, <3>1 DEF Final
      <4>3. QED
        BY <3>1, <4>1, <4>2
    <3>6. RanOut(ds[r], k)
      <4>1. ds[r].expiry = cs[r].expiry /\ ds[r].deadline = cs[r].deadline
        BY <1>3, <3>1, <3>2
      <4>2. QED
        BY <3>4, <4>1 DEF RanOut
    <3>7. ds[r].status = "EXPIRED" /\ ~ds[r].executed
      BY <1>3, <3>1, <3>2, <3>5
    <3>8. ds[r].target = e.target /\ ds[r].transfer = e.transfer
      <4>1. ds[r].target = cs[r].target /\ ds[r].transfer = cs[r].transfer
        BY <1>3, <3>1, <3>2
      <4>2. e.target = cs[n].target /\ e.transfer = cs[n].transfer
        BY <1>7, <3>1
      <4>3. QED
        BY <3>3, <4>1, <4>2
    <3>9. r < n + 1
      BY <3>1
    <3>10. QED
      BY <3>6, <3>7, <3>8, <3>9
  <2>3. QED
    BY <2>1, <2>2
<1>9. Rounds(ds, k)
  <2>1. Len(ds) > 1 => e.target = "ADDRESS"
    BY <1>5, <1>7
  <2> DEFINE Upto(m) ==
        /\ \A r \in 1..m :
             /\ ds[r].target = ds[m].target
             /\ ds[r].transfer = ds[m].transfer
             /\ ds[r].executed => ds[r].status \in {"EXECUTED", "REVOKED"}
             /\ ds[r].status = "EXECUTED" => ds[r].executed
             /\ r < m <=> ds[r].status = "EXPIRED"
             /\ r < m => RanOut(ds[r], k)
        /\ m > 1 => ds[m].target = "ADDRESS"
  <2>2. Upto(n + 1)
    <3>1. n + 1 > 1 => ds[n + 1].target = "ADDRESS"
      BY <1>5, <2>1
    <3>2. ds[n + 1] = e
      BY <1>5
    <3>3. QED
      BY <1>8, <3>1, <3>2
  <2>3. Rounds(ds, k) <=> Upto(Len(ds))
    BY Zenon DEF Rounds
  <2> HIDE DEF Upto
  <2>4. QED
    BY <1>5, <2>2, <2>3
<1>10. Moves(cs, h, ds, k)
  <2>1. ASSUME NEW r \in 1..n
        PROVE  /\ ds[r].expiry = cs[r].expiry /\ ds[r].deadline = cs[r].deadline
               /\ cs[r].executed => ds[r].executed
    BY <1>3, <1>5
  <2>2. n > 0 => LastMoves(cs[n], ds[n + 1], FALSE, h, k)
    BY <1>5, <1>7 DEF LastMoves, Final
  <2>3. (Len(ds) = Len(cs)) = FALSE
    BY <1>2, <1>5
  <2>4. QED
    BY <1>2, <1>5, <2>1, <2>2, <2>3 DEF Moves
<1>11. QED
  BY <1>2, <1>5, <1>9, <1>10

-----------------------------------------------------------------------------
(***************************************************************************)
(* The invariant, as one of the values of the variables                    *)
(***************************************************************************)

FreshFor(cs, r, h) == r > 0 => r <= Len(cs) /\ RanOut(cs[r], h)

DueIn(cs, r, h) ==
  /\ r <= Len(cs) /\ FreshFor(cs, r, h)
  /\ r = Len(cs) =>
       \/ Len(cs) = 0
       \/ Final(cs[Len(cs)])
       \/ cs[Len(cs)].target = "ADDRESS" /\ Overdue(cs[Len(cs)], h)

\* WorkFits of a daemon with this target type.
WorkGood(cs, h, target, w) ==
  /\ DueIn(cs, w.round, h)
  /\ IsFiniteSet(w.transfers)
  /\ w.transfers = {} \/ w.done \in {"REJECTED", "REVOKED", "different_target_type"}
       => Len(cs) > 0
  /\ w.review # None =>
       /\ w.review.action = ComputePolicyAction({w.review.report}, Thresholds, target)
       /\ FreshFor(cs, w.round, w.review.observed) \/ Final(cs[Len(cs)])

\* DoneIsJustified for one daemon.
DoneGood(cs, where, target, done) ==
  /\ done = "executed" => \E r \in 1..Len(cs) : cs[r].executed
  /\ done \in {"REJECTED", "REVOKED"} => cs[Len(cs)].status \in {done, "REVOKED"}
  /\ done = "different_target_type" => \A r \in 1..Len(cs) : cs[r].target # target
  /\ done = "failed_original" => where = "failed"
  /\ done = "already_finalized" => where = "ok"

\* TxFits, with these target types of the daemons.
TxGood(cs, h, targets, tx) ==
  /\ DueIn(cs, tx.round, h)
  /\ tx.kind = "open" =>
       /\ tx.target = targets[tx.from]
       /\ tx.action = ComputePolicyAction({tx.report}, Thresholds, tx.target)
  /\ tx.kind # "open" => tx.round < Len(cs)
  /\ tx.kind = "vote" =>
       /\ FreshFor(cs, tx.round, tx.observed)
       /\ cs[Len(cs)].target = "ADDRESS" => tx.transfer = cs[Len(cs)].transfer

Stored(cs, h, targets, where, works) ==
  \A a \in AgentSet : works[a] # None =>
    /\ WorkGood(cs, h, targets[a], works[a])
    /\ DoneGood(cs, where, targets[a], works[a].done)

Planned(cs, h, targets, works, journals) ==
  \A a \in AgentSet : \A key \in DOMAIN journals[a] :
    /\ works[a] # None
    /\ journals[a][key].tx.from = a
    /\ journals[a][key].tx.kind = key[1]
    /\ journals[a][key].tx.round = key[2]
    /\ TxGood(cs, h, targets, journals[a][key].tx)

Sent(cs, h, targets, txs) == \A tx \in txs : TxGood(cs, h, targets, tx)

\* The last round (GetCase).
LEMMA LastIs ==
  ASSUME cases \in Seq(Cases)
  PROVE  /\ Len(cases) \in Nat
         /\ Last = cases[Len(cases)]
         /\ cases = <<>> <=> Len(cases) = 0
         /\ \A r \in Nat : GetCase(r) = IF r < Len(cases) THEN cases[r + 1] ELSE None
         /\ \A r \in 1..Len(cases) : cases[r] \in Cases
         /\ DOMAIN cases = 1..Len(cases)
<1>1. Len(cases) \in Nat
  OBVIOUS
<1>2. Len(cases) > Len(cases) - 1 /\ (Len(cases) - 1) + 1 = Len(cases)
  BY <1>1
<1>3. Last = cases[Len(cases)]
  BY <1>2 DEF Last, GetCase
<1>4. \A r \in Nat : GetCase(r) = IF r < Len(cases) THEN cases[r + 1] ELSE None
  BY <1>1 DEF GetCase
<1>5. QED
  BY <1>1, <1>3, <1>4

\* The rounds are what RoundsInv says of them.
LEMMA RoundsAre ==
  ASSUME cases \in Seq(Cases), height \in Nat
  PROVE  RoundsInv <=> Rounds(cases, height)
<1>1. /\ Len(cases) \in Nat /\ Last = cases[Len(cases)] /\ DOMAIN cases = 1..Len(cases)
  BY LastIs
<1>2. \A r \in 1..Len(cases) : Fresh(r, height) <=> RanOut(cases[r], height)
  BY <1>1 DEF Fresh, RanOut
<1>3. QED
  BY <1>1, <1>2, Zenon DEF RoundsInv, Rounds

\* When a daemon works towards a new round (recoveryCase).
LEMMA RecoveringIs ==
  ASSUME cases \in Seq(Cases), height \in Nat, Rounds(cases, height)
  PROVE  Recovering <=>
           /\ Len(cases) > 0 /\ ~Final(cases[Len(cases)])
           /\ cases[Len(cases)].target = "ADDRESS"
           /\ Overdue(cases[Len(cases)], height)
<1>1. /\ Len(cases) \in Nat /\ Last = cases[Len(cases)]
      /\ cases = <<>> <=> Len(cases) = 0
      /\ \A r \in 1..Len(cases) : cases[r] \in Cases
  BY LastIs
<1>2. CASE Len(cases) = 0
  BY <1>1, <1>2 DEF Recovering
<1>3. CASE Len(cases) # 0
  <2>1. PICK c \in Cases : c = cases[Len(cases)]
    BY <1>1, <1>3
  <2>2. c.status # "EXPIRED"
    BY <1>1, <1>3, <2>1 DEF Rounds
  <2>3. c.expiry \in Nat /\ c.deadline \in Nat
    BY DEF Cases
  <2>4. RunOut(c) /\ ~LastValidBlock(c) <=> Overdue(c, height)
    BY <2>2, <2>3 DEF RunOut, LastValidBlock, VotingOver, Overdue
  <2>5. QED
    BY <1>1, <1>3, <2>1, <2>4 DEF Recovering
<1>4. QED
  BY <1>2, <1>3

\* The invariant says the same of the variables one by one.
InvParts ==
  /\ CursorInv /\ ScannedIsStored /\ OpenNeverAgainstPolicy
  /\ Rounds(cases, height)
  /\ Stored(cases, height, config.target, original.where, work)
  /\ Planned(cases, height, config.target, work, intents)
  /\ Sent(cases, height, config.target, mempool)

\* In this state.
LEMMA InvIs == TypeOK => (DaemonInv <=> InvParts)
<1> SUFFICES ASSUME TypeOK PROVE DaemonInv <=> InvParts
  OBVIOUS
<1>1. /\ cases \in Seq(Cases) /\ height \in Nat
      /\ original.where \in {"pending", "ok", "failed"}
  BY DEF TypeOK
<1>2. /\ Len(cases) \in Nat /\ Last = cases[Len(cases)]
      /\ cases = <<>> <=> Len(cases) = 0
      /\ DOMAIN cases = 1..Len(cases)
  BY <1>1, LastIs
<1>3. RoundsInv <=> Rounds(cases, height)
  BY <1>1, RoundsAre
<1>4. CASE ~Rounds(cases, height)
  BY <1>3, <1>4 DEF DaemonInv, InvParts
<1>5. CASE Rounds(cases, height)
  <2>1. Recovering <=>
          /\ Len(cases) > 0 /\ ~Final(cases[Len(cases)])
          /\ cases[Len(cases)].target = "ADDRESS"
          /\ Overdue(cases[Len(cases)], height)
    BY <1>1, <1>5, RecoveringIs
  <2>2. \A r, h : Fresh(r, h) <=> FreshFor(cases, r, h)
    BY Zenon DEF Fresh, FreshFor, RanOut
  <2>3. \A r : Due(r) <=> DueIn(cases, r, height)
    <3>1. ASSUME NEW r PROVE Due(r) <=> DueIn(cases, r, height)
      <4>1. cases # <<>> => Len(cases) > 0
        BY <1>2
      <4>2. QED
        BY <1>2, <2>1, <2>2, <4>1, Zenon DEF Due, DueIn
    <3>2. QED
      BY <3>1
  <2>4. \A a \in AgentSet : TargetOf(a) = config.target[a]
    BY Zenon DEF TargetOf
  <2>5. cases # <<>> <=> Len(cases) > 0
    BY <1>2
  <2>6. ASSUME NEW a \in AgentSet, NEW w
        PROVE  WorkFits(a, w) <=> WorkGood(cases, height, config.target[a], w)
    BY <1>2, <2>2, <2>3, <2>4, <2>5, Zenon DEF WorkFits, WorkGood
  <2>7. ASSUME NEW tx, tx.from \in AgentSet
        PROVE  TxFits(tx) <=> TxGood(cases, height, config.target, tx)
    BY <1>2, <2>2, <2>3, <2>4, <2>7, Zenon DEF TxFits, TxGood
  <2>8. (\A a \in AgentSet : work[a] # None => WorkFits(a, work[a])) /\ DoneIsJustified <=>
          Stored(cases, height, config.target, original.where, work)
    <3>1. ASSUME NEW a \in AgentSet, WorkFits(a, work[a])
          PROVE  (CASE work[a].done = "executed" -> \E r \in DOMAIN cases : cases[r].executed
                    [] work[a].done \in {"REJECTED", "REVOKED"} ->
                         Last.status = work[a].done \/ Last.status = "REVOKED"
                    [] work[a].done = "different_target_type" -> \A r \in DOMAIN cases :
                         cases[r].target # TargetOf(a)
                    [] work[a].done = "failed_original" -> original.where = "failed"
                    [] work[a].done = "already_finalized" -> original.where = "ok"
                    [] OTHER -> TRUE)
                 <=> DoneGood(cases, original.where, config.target[a], work[a].done)
      <4>1. PICK d : d = work[a].done
        OBVIOUS
      <4>2. TargetOf(a) = config.target[a]
        BY <2>4
      <4>3. QED
        BY <1>2, <4>1, <4>2 DEF DoneGood
    <3>2. DoneIsJustified <=> \A a \in AgentSet : work[a] # None =>
            (CASE work[a].done = "executed" -> \E r \in DOMAIN cases : cases[r].executed
               [] work[a].done \in {"REJECTED", "REVOKED"} ->
                    Last.status = work[a].done \/ Last.status = "REVOKED"
               [] work[a].done = "different_target_type" -> \A r \in DOMAIN cases :
                    cases[r].target # TargetOf(a)
               [] work[a].done = "failed_original" -> original.where = "failed"
               [] work[a].done = "already_finalized" -> original.where = "ok"
               [] OTHER -> TRUE)
      BY Zenon DEF DoneIsJustified
    <3>3. QED
      BY <2>6, <3>1, <3>2, Zenon DEF Stored
  <2>9. (\A a \in AgentSet : \A key \in DOMAIN intents[a] :
           /\ work[a] # None
           /\ LET tx == intents[a][key].tx
              IN tx.from = a /\ tx.kind = key[1] /\ tx.round = key[2] /\ TxFits(tx)) <=>
          Planned(cases, height, config.target, work, intents)
    BY <2>7, Zenon DEF Planned
  <2>10. (\A tx \in mempool : TxFits(tx)) <=> Sent(cases, height, config.target, mempool)
    <3>1. \A tx \in mempool : tx.from \in AgentSet
      BY DEF TypeOK, Messages
    <3>2. QED
      BY <2>7, <3>1, Zenon DEF Sent
  <2>11. QED
    BY <1>3, <1>5, <2>8, <2>9, <2>10, Zenon DEF DaemonInv, InvParts
<1>6. QED
  BY <1>4, <1>5

\* In the next state.
LEMMA InvIsPrimed == TypeOK' => (DaemonInv' <=> InvParts')
BY InvIs, PTL

-----------------------------------------------------------------------------
(***************************************************************************)
(* What the chain does leaves the daemons' stores right                    *)
(***************************************************************************)

\* Evidence that was new enough for a round stays so, and a round stays due.
LEMMA DueStays ==
  ASSUME NEW cs \in Seq(Cases), NEW ds \in Seq(Cases), NEW h \in Nat, NEW k \in Nat,
         Moves(cs, h, ds, k)
  PROVE  /\ \A r \in Nat : \A o : FreshFor(cs, r, o) => FreshFor(ds, r, o)
         /\ \A r \in Nat : DueIn(cs, r, h) => DueIn(ds, r, k)
<1>1. /\ Len(cs) \in Nat /\ Len(ds) \in Nat
      /\ \A r \in 1..Len(cs) : cs[r] \in Cases
  OBVIOUS
<1>2. /\ h <= k
      /\ Len(ds) = Len(cs) \/ Len(ds) = Len(cs) + 1
      /\ \A r \in 1..Len(cs) : ds[r].expiry = cs[r].expiry /\ ds[r].deadline = cs[r].deadline
      /\ Len(cs) > 0 => LastMoves(cs[Len(cs)], ds[Len(ds)], Len(ds) = Len(cs), h, k)
  BY DEF Moves
<1>3. ASSUME NEW r \in 1..Len(cs), NEW o
      PROVE  RanOut(cs[r], o) <=> RanOut(ds[r], o)
  BY <1>2 DEF RanOut
<1>4. ASSUME NEW r \in Nat, NEW o, FreshFor(cs, r, o) PROVE FreshFor(ds, r, o)
  <2>1. CASE r = 0
    BY <2>1 DEF FreshFor
  <2>2. CASE r # 0
    <3>1. r > 0 /\ r <= Len(cs) /\ RanOut(cs[r], o)
      BY <1>4, <2>2 DEF FreshFor
    <3>2. r \in 1..Len(cs) /\ r <= Len(ds)
      BY <1>1, <1>2, <3>1
    <3>3. QED
      BY <1>3, <3>1, <3>2 DEF FreshFor
  <2>3. QED
    BY <2>1, <2>2
<1>5. ASSUME NEW r \in Nat, DueIn(cs, r, h) PROVE DueIn(ds, r, k)
  <2>1. r <= Len(cs) /\ FreshFor(cs, r, h)
    BY <1>5 DEF DueIn
  <2>2. FreshFor(ds, r, k)
    <3>1. CASE r = 0
      BY <3>1 DEF FreshFor
    <3>2. CASE r # 0
      <4>1. r \in 1..Len(cs) /\ r <= Len(ds)
        BY <1>1, <1>2, <2>1, <3>2
      <4>2. RanOut(ds[r], h)
        <5>1. r > 0
          BY <3>2
        <5>2. RanOut(cs[r], h)
          BY <2>1, <5>1 DEF FreshFor
        <5>3. QED
          BY <1>3, <4>1, <5>2
      <4>3. ds[r].expiry \in Nat /\ ds[r].deadline \in Nat
        <5>1. ds[r] \in Cases
          BY <4>1
        <5>2. QED
          BY <5>1 DEF Cases
      <4>4. RanOut(ds[r], k)
        BY <1>2, <4>2, <4>3 DEF RanOut
      <4>5. QED
        BY <4>1, <4>4 DEF FreshFor
    <3>3. QED
      BY <3>1, <3>2
  <2>3. r <= Len(ds)
    BY <1>1, <1>2, <2>1
  <2>4. ASSUME r = Len(ds)
        PROVE  \/ Len(ds) = 0
               \/ Final(ds[Len(ds)])
               \/ ds[Len(ds)].target = "ADDRESS" /\ Overdue(ds[Len(ds)], k)
    <3>1. Len(ds) = Len(cs) /\ r = Len(cs)
      BY <1>1, <1>2, <2>1, <2>4
    <3>2. CASE Len(cs) = 0
      BY <3>1, <3>2
    <3>3. CASE Len(cs) # 0
      <4>1. PICK c, d : c = cs[Len(cs)] /\ d = ds[Len(ds)]
        OBVIOUS
      <4>2. LastMoves(c, d, Len(ds) = Len(cs), h, k)
        BY <1>1, <1>2, <3>3, <4>1
      <4>3. Final(c) \/ (c.target = "ADDRESS" /\ Overdue(c, h))
        BY <1>5, <3>1, <3>3, <4>1 DEF DueIn
      <4>4. Final(d) \/ (d.target = "ADDRESS" /\ Overdue(d, k))
        BY <3>1, <4>2, <4>3 DEF LastMoves
      <4>5. QED
        BY <4>1, <4>4
    <3>4. QED
      BY <3>2, <3>3
  <2>5. QED
    BY <2>2, <2>3, <2>4 DEF DueIn
<1>6. QED
  BY <1>4, <1>5

\* The last round is about the same, and an end stays one.
LEMMA LastStays ==
  ASSUME NEW cs \in Seq(Cases), NEW ds \in Seq(Cases), NEW h \in Nat, NEW k \in Nat,
         Moves(cs, h, ds, k), Len(cs) > 0
  PROVE  /\ Len(ds) > 0 /\ Len(ds) >= Len(cs)
         /\ ds[Len(ds)].target = cs[Len(cs)].target
         /\ ds[Len(ds)].transfer = cs[Len(cs)].transfer
         /\ Final(cs[Len(cs)]) => Final(ds[Len(ds)])
         /\ cs[Len(cs)].status \in {"REJECTED", "REVOKED"} =>
              ds[Len(ds)].status \in {cs[Len(cs)].status, "REVOKED"}
<1>1. Len(ds) > 0 /\ Len(ds) >= Len(cs)
  BY DEF Moves
<1>2. LastMoves(cs[Len(cs)], ds[Len(ds)], Len(ds) = Len(cs), h, k)
  BY DEF Moves
<1>3. PICK c, d : c = cs[Len(cs)] /\ d = ds[Len(ds)]
  OBVIOUS
<1>4. LastMoves(c, d, Len(ds) = Len(cs), h, k)
  BY <1>2, <1>3
<1>5. /\ d.target = c.target /\ d.transfer = c.transfer
      /\ Final(c) => Final(d)
      /\ c.status \in {"REJECTED", "REVOKED"} => d.status \in {c.status, "REVOKED"}
  BY <1>4 DEF LastMoves
<1>6. QED
  BY <1>1, <1>3, <1>5

\* What a daemon has stored stays right.
LEMMA WorkStays ==
  ASSUME NEW cs \in Seq(Cases), NEW ds \in Seq(Cases), NEW h \in Nat, NEW k \in Nat,
         Moves(cs, h, ds, k), NEW w \in Works, NEW target, WorkGood(cs, h, target, w)
  PROVE  WorkGood(ds, k, target, w)
<1>1. w.round \in Nat
  <2>1. w.round \in 0..MaxRound + 1
    BY DEF Works
  <2>2. QED
    BY <2>1
<1>2. Len(cs) \in Nat /\ Len(ds) \in Nat /\ (Len(cs) > 0 => Len(ds) > 0)
  BY DEF Moves
<1>3. DueIn(ds, w.round, k)
  BY <1>1, DueStays DEF WorkGood
<1>4. ASSUME w.review # None
      PROVE  FreshFor(ds, w.round, w.review.observed) \/ Final(ds[Len(ds)])
  <2>1. FreshFor(cs, w.round, w.review.observed) \/ Final(cs[Len(cs)])
    BY <1>4 DEF WorkGood
  <2>2. CASE FreshFor(cs, w.round, w.review.observed)
    BY <1>1, <2>2, DueStays
  <2>3. CASE Len(cs) > 0 /\ Final(cs[Len(cs)])
    BY <2>3, LastStays
  <2>4. CASE Len(cs) = 0
    <3>1. w.round = 0
      BY <1>1, <1>2, <2>4 DEF WorkGood, DueIn
    <3>2. QED
      BY <3>1 DEF FreshFor
  <2>5. QED
    BY <1>2, <2>1, <2>2, <2>3, <2>4
<1>5. QED
  BY <1>2, <1>3, <1>4 DEF WorkGood

\* A reason to stop working stays one.
LEMMA DoneStays ==
  ASSUME NEW cs \in Seq(Cases), NEW ds \in Seq(Cases), NEW h \in Nat, NEW k \in Nat,
         Moves(cs, h, ds, k), Rounds(ds, k), NEW done, NEW target, NEW where, NEW there,
         where = "pending" \/ there = where,
         done \in {"REJECTED", "REVOKED", "different_target_type"} => Len(cs) > 0,
         DoneGood(cs, where, target, done)
  PROVE  DoneGood(ds, there, target, done)
<1>1. Len(cs) \in Nat /\ Len(ds) \in Nat /\ (Len(cs) > 0 => Len(ds) > 0)
  BY DEF Moves
<1>2. CASE done = "executed"
  <2>1. PICK r \in 1..Len(cs) : cs[r].executed
    BY <1>2 DEF DoneGood
  <2>2. r \in 1..Len(ds) /\ ds[r].executed
    BY <2>1 DEF Moves
  <2>3. QED
    BY <1>2, <2>2 DEF DoneGood
<1>3. CASE done \in {"REJECTED", "REVOKED"}
  <2>1. cs[Len(cs)].status \in {done, "REVOKED"} /\ Len(cs) > 0
    BY <1>3 DEF DoneGood
  <2>2. cs[Len(cs)].status \in {"REJECTED", "REVOKED"}
    BY <1>3, <2>1
  <2>3. ds[Len(ds)].status \in {cs[Len(cs)].status, "REVOKED"}
    BY <2>1, <2>2, LastStays
  <2>4. QED
    BY <1>3, <2>1, <2>3 DEF DoneGood
<1>4. CASE done = "different_target_type"
  <2>1. Len(cs) > 0 /\ Len(cs) \in 1..Len(cs)
    BY <1>1, <1>4
  <2>2. cs[Len(cs)].target # target
    BY <1>4, <2>1 DEF DoneGood
  <2>3. ds[Len(ds)].target # target
    BY <2>1, <2>2, LastStays
  <2>4. \A r \in 1..Len(ds) : ds[r].target # target
    BY <2>3 DEF Rounds
  <2>5. QED
    BY <1>4, <2>4 DEF DoneGood
<1>5. CASE done \in {"failed_original", "already_finalized"}
  BY <1>5 DEF DoneGood
<1>6. QED
  BY <1>2, <1>3, <1>4, <1>5 DEF DoneGood

\* What a daemon sends stays right.
LEMMA TxStays ==
  ASSUME NEW cs \in Seq(Cases), NEW ds \in Seq(Cases), NEW h \in Nat, NEW k \in Nat,
         Moves(cs, h, ds, k), NEW tx \in Messages, NEW targets, TxGood(cs, h, targets, tx)
  PROVE  TxGood(ds, k, targets, tx)
<1>1. tx.round \in Nat /\ tx.kind \in {"open", "vote", "execute"}
  <2>1. tx.round \in 0..MaxRound /\ tx.kind \in {"open", "vote", "execute"}
    BY DEF Messages
  <2>2. QED
    BY <2>1
<1>2. Len(cs) \in Nat /\ Len(ds) \in Nat /\ Len(cs) <= Len(ds)
  BY DEF Moves
<1>3. DueIn(ds, tx.round, k)
  BY <1>1, DueStays DEF TxGood
<1>4. ASSUME tx.kind # "open" PROVE tx.round < Len(ds)
  BY <1>1, <1>2, <1>4 DEF TxGood
<1>5. ASSUME tx.kind = "vote"
      PROVE  /\ FreshFor(ds, tx.round, tx.observed)
             /\ ds[Len(ds)].target = "ADDRESS" => tx.transfer = ds[Len(ds)].transfer
  <2>1. /\ tx.round < Len(cs) /\ FreshFor(cs, tx.round, tx.observed)
        /\ cs[Len(cs)].target = "ADDRESS" => tx.transfer = cs[Len(cs)].transfer
    BY <1>5 DEF TxGood
  <2>2. Len(cs) > 0
    BY <1>1, <1>2, <2>1
  <2>3. ds[Len(ds)].target = cs[Len(cs)].target /\ ds[Len(ds)].transfer = cs[Len(cs)].transfer
    BY <2>2, LastStays
  <2>4. FreshFor(ds, tx.round, tx.observed)
    BY <1>1, <2>1, DueStays
  <2>5. QED
    BY <2>1, <2>3, <2>4
<1>6. /\ tx.kind = "open" =>
           /\ tx.target = targets[tx.from]
           /\ tx.action = ComputePolicyAction({tx.report}, Thresholds, tx.target)
  BY DEF TxGood
<1>7. QED
  BY <1>3, <1>4, <1>5, <1>6, Zenon DEF TxGood

\* No failure on record is one that the policy could be the reason of.
FailuresFit == \A tx \in DOMAIN failures : failures[tx] \in Reasons \ {"policy"}

\* A step of the chain keeps the invariant if it leaves the stores alone and does
\* to the rounds what it may.
LEMMA ChainKeeps ==
  ASSUME DaemonInv, UNCHANGED <<config, cursor, work, intents>>,
         height' \in Nat, height <= height',
         original' \in [where : {"pending", "ok", "failed"}, height : Nat],
         original.where = "pending" \/ original'.where = original.where,
         cases' \in Seq(Cases), Len(cases') <= MaxRound + 1,
         registry' \subseteq registry, mempool' \subseteq mempool,
         Rounds(cases', height'), Moves(cases, height, cases', height'),
         ScannedIsStored', FailuresFit'
  PROVE  DaemonInv'
<1>1. TypeOK /\ InvParts
  BY InvIs DEF DaemonInv
<1>2. TypeOK'
  <2>1. \A tx \in DOMAIN failures' : failures'[tx] \in Reasons
    BY DEF FailuresFit
  <2>2. QED
    BY <1>1, <2>1, Zenon DEF TypeOK
<1>3. PICK cs \in Seq(Cases), ds \in Seq(Cases), h \in Nat, k \in Nat :
        cs = cases /\ ds = cases' /\ h = height /\ k = height'
  BY <1>1 DEF TypeOK
<1>4. PICK targets, w, there, where, journals :
        /\ targets = config.target /\ w = work /\ journals = intents
        /\ where = original.where /\ there = original'.where
  OBVIOUS
<1>5. Rounds(ds, k) /\ Moves(cs, h, ds, k)
  BY <1>3
<1>6. Stored(ds, k, targets, there, w)
  <2>1. Stored(cs, h, targets, where, w)
    BY <1>1, <1>3, <1>4 DEF InvParts
  <2>2. \A a \in AgentSet : w[a] # None => w[a] \in Works
    BY <1>1, <1>4 DEF TypeOK
  <2>3. where = "pending" \/ there = where
    BY <1>4
  <2>4. ASSUME NEW a \in AgentSet, w[a] # None
        PROVE  /\ WorkGood(ds, k, targets[a], w[a])
               /\ DoneGood(ds, there, targets[a], w[a].done)
    <3>1. /\ WorkGood(cs, h, targets[a], w[a])
          /\ DoneGood(cs, where, targets[a], w[a].done)
      BY <2>1, <2>4 DEF Stored
    <3>2. WorkGood(ds, k, targets[a], w[a])
      BY <1>5, <2>2, <2>4, <3>1, WorkStays
    <3>3. w[a].done \in {"REJECTED", "REVOKED", "different_target_type"} => Len(cs) > 0
      BY <3>1 DEF WorkGood
    <3>4. DoneGood(ds, there, targets[a], w[a].done)
      BY <1>5, <2>3, <3>1, <3>3, DoneStays
    <3>5. QED
      BY <3>2, <3>4
  <2>5. QED
    BY <2>4 DEF Stored
<1>7. Planned(ds, k, targets, w, journals)
  <2>1. Planned(cs, h, targets, w, journals)
    BY <1>1, <1>3, <1>4 DEF InvParts
  <2>2. ASSUME NEW a \in AgentSet, NEW key \in DOMAIN journals[a]
        PROVE  journals[a][key].tx \in Messages
    <3>1. journals[a] \in [DOMAIN journals[a] -> Intents]
      BY <1>1, <1>4 DEF TypeOK
    <3>2. QED
      BY <3>1 DEF Intents
  <2>3. QED
    BY <1>5, <2>1, <2>2, TxStays DEF Planned
<1>8. Sent(ds, k, targets, mempool')
  <2>1. Sent(cs, h, targets, mempool) /\ mempool \subseteq Messages
    BY <1>1, <1>3, <1>4 DEF InvParts, TypeOK
  <2>2. QED
    BY <1>5, <2>1, TxStays DEF Sent
<1>9. CursorInv'
  <2>1. /\ cursor \in [AgentSet -> Nat] /\ height \in Nat
        /\ \A a \in AgentSet : cursor[a] <= height \/ cursor[a] = config.start[a] - 1
    BY <1>1 DEF InvParts, TypeOK, CursorInv
  <2>2. \A a \in AgentSet : cursor[a] <= height' \/ cursor[a] = config.start[a] - 1
    BY <2>1
  <2>3. QED
    BY <2>2 DEF CursorInv
<1>10. InvParts'
  <2>1. /\ Stored(cases', height', config'.target, original'.where, work')
        /\ Planned(cases', height', config'.target, work', intents')
        /\ Sent(cases', height', config'.target, mempool')
    BY <1>3, <1>4, <1>6, <1>7, <1>8
  <2>2. OpenNeverAgainstPolicy'
    BY DEF FailuresFit, OpenNeverAgainstPolicy
  <2>3. QED
    BY <1>9, <2>1, <2>2 DEF InvParts
<1>11. QED
  BY <1>2, <1>10, InvIsPrimed

\* The handlers do not change more of the chain than they say.
LEMMA ChainHas ==
  ASSUME DaemonInv
  PROVE  /\ cases \in Seq(Cases) /\ Len(cases) \in Nat /\ Len(cases) <= MaxRound + 1
         /\ height \in Nat /\ Rounds(cases, height)
         /\ original \in [where : {"pending", "ok", "failed"}, height : Nat]
         /\ registry \subseteq AgentSet
         /\ mempool \subseteq Messages /\ Sent(cases, height, config.target, mempool)
         /\ cursor \in [AgentSet -> Nat] /\ config \in Configs
         /\ ScannedIsStored /\ FailuresFit /\ CursorInv
BY InvIs DEF DaemonInv, TypeOK, InvParts, OpenNeverAgainstPolicy, FailuresFit

\* A block without a case.
LEMMA EmptyBlockKeeps == DaemonInv /\ EmptyBlock => DaemonInv'
<1> SUFFICES ASSUME DaemonInv, EmptyBlock PROVE DaemonInv'
  OBVIOUS
<1>1. /\ height' = height + 1
      /\ UNCHANGED <<config, registry, cursor, work, intents, original, cases, mempool, failures>>
  BY DEF EmptyBlock, Block
<1>2. height' \in Nat /\ height <= height'
  BY <1>1, ChainHas
<1>3. Rounds(cases', height') /\ Moves(cases, height, cases', height')
  BY <1>1, <1>2, ChainHas, HeightMoves
<1>4. ScannedIsStored' /\ FailuresFit'
  BY <1>1, ChainHas DEF ScannedIsStored, FailuresFit
<1>5. QED
  BY <1>1, <1>2, <1>3, <1>4, ChainHas, ChainKeeps

\* A block with the original transaction is one that no daemon has scanned.
LEMMA IncludeOriginalKeeps == DaemonInv /\ IncludeOriginal => DaemonInv'
<1> SUFFICES ASSUME DaemonInv, IncludeOriginal PROVE DaemonInv'
  OBVIOUS
<1>1. /\ height' = height + 1
      /\ UNCHANGED <<config, registry, cursor, work, intents, cases, mempool, failures>>
      /\ original.where = "pending"
  BY DEF IncludeOriginal, Block
<1>2. PICK result \in {"ok", "failed"} : original' = [where |-> result, height |-> height + 1]
  BY DEF IncludeOriginal
<1>3. height' \in Nat /\ height <= height'
  BY <1>1, ChainHas
<1>4. original' \in [where : {"pending", "ok", "failed"}, height : Nat]
  BY <1>1, <1>2, <1>3
<1>5. Rounds(cases', height') /\ Moves(cases, height, cases', height')
  BY <1>1, <1>3, ChainHas, HeightMoves
<1>6. FailuresFit'
  BY <1>1, ChainHas DEF FailuresFit
<1>7. ScannedIsStored'
  <2>1. ASSUME NEW a \in AgentSet
        PROVE  ~(original'.height \in config'.start[a]..cursor'[a])
    <3>1. config.start[a] \in Nat /\ cursor[a] \in Nat /\ height \in Nat
      BY ChainHas, ConfigsAssumption DEF ConfigsAssumption
    <3>2. cursor[a] <= height \/ cursor[a] = config.start[a] - 1
      BY ChainHas DEF CursorInv
    <3>3. original'.height = height + 1
      BY <1>2
    <3>4. QED
      BY <1>1, <3>1, <3>2, <3>3
  <2>2. QED
    BY <2>1 DEF ScannedIsStored
<1>8. QED
  BY <1>1, <1>3, <1>4, <1>5, <1>6, <1>7, ChainHas, ChainKeeps

\* A transaction is in a block, and fails for another reason than the policy.
LEMMA FailureKeeps ==
  ASSUME DaemonInv, NEW tx \in mempool, Block, mempool' = mempool \ {tx},
         NEW reason \in Reasons \ {"policy"}, failures' = Failing(tx, reason),
         UNCHANGED <<original, cases>>
  PROVE  DaemonInv'
<1>1. /\ height' = height + 1 /\ UNCHANGED <<config, registry, cursor, work, intents>>
  BY DEF Block
<1>2. height' \in Nat /\ height <= height'
  BY <1>1, ChainHas
<1>3. Rounds(cases', height') /\ Moves(cases, height, cases', height')
  BY <1>2, ChainHas, HeightMoves
<1>4. ScannedIsStored'
  BY <1>1, ChainHas DEF ScannedIsStored
<1>5. FailuresFit'
  BY ChainHas DEF FailuresFit, Failing
<1>6. QED
  BY <1>1, <1>2, <1>3, <1>4, <1>5, ChainHas, ChainKeeps

\* A transaction fails for want of gas.
LEMMA FailTxKeeps ==
  ASSUME DaemonInv, NEW tx \in mempool, FailTx(tx)
  PROVE  DaemonInv'
<1>1. "gas" \in Reasons \ {"policy"}
  BY DEF Reasons
<1>2. QED
  BY <1>1, FailureKeeps DEF FailTx

\* An agent leaves.
LEMMA LeaveKeeps ==
  ASSUME DaemonInv, NEW a \in AgentSet, Leave(a)
  PROVE  DaemonInv'
<1>1. /\ registry' \subseteq registry
      /\ UNCHANGED <<config, height, original, cases, mempool, failures, cursor, work, intents>>
  BY DEF Leave
<1>2. Rounds(cases', height') /\ Moves(cases, height, cases', height')
  BY <1>1, ChainHas, HeightMoves
<1>3. ScannedIsStored' /\ FailuresFit'
  BY <1>1, ChainHas DEF ScannedIsStored, FailuresFit
<1>4. QED
  BY <1>1, <1>2, <1>3, ChainHas, ChainKeeps

\* One round is changed by a handler, and nothing else but the mempool.
LEMMA EditKeeps ==
  ASSUME DaemonInv, UNCHANGED <<config, original, registry, failures, cursor, work, intents>>,
         height' \in Nat, height <= height', mempool' \subseteq mempool,
         NEW n \in 1..Len(cases), NEW d \in Cases, Edits(cases[n], d, height, height'),
         cases' = [cases EXCEPT ![n] = d]
  PROVE  DaemonInv'
<1>1. PICK cs, ds, h, k : cs = cases /\ ds = cases' /\ h = height /\ k = height'
  OBVIOUS
<1>2. /\ cs \in Seq(Cases) /\ h \in Nat /\ k \in Nat /\ h <= k /\ Rounds(cs, h)
      /\ n \in 1..Len(cs) /\ Edits(cs[n], d, h, k) /\ ds = [cs EXCEPT ![n] = d]
  BY <1>1, ChainHas
<1>3. Rounds(ds, k)
  BY <1>2, EditMoves, ZenonT(60)
<1>4. Moves(cs, h, ds, k)
  BY <1>2, EditMoves, ZenonT(60)
<1>5. ds \in Seq(Cases) /\ Len(ds) = Len(cs)
  BY <1>2
<1>6. /\ Rounds(cases', height') /\ Moves(cases, height, cases', height')
      /\ cases' \in Seq(Cases) /\ Len(cases') <= MaxRound + 1
  BY <1>1, <1>3, <1>4, <1>5, ChainHas
<1>7. ScannedIsStored' /\ FailuresFit'
  BY ChainHas DEF ScannedIsStored, FailuresFit
<1>8. QED
  BY <1>6, <1>7, ChainHas, ChainKeeps

\* The authority revokes the last round.
LEMMA RevokeKeeps == DaemonInv /\ Revoke => DaemonInv'
<1> SUFFICES ASSUME DaemonInv, Revoke PROVE DaemonInv'
  OBVIOUS
<1>1. /\ cases # <<>> /\ cases' = [cases EXCEPT ![Len(cases)].status = "REVOKED"]
      /\ UNCHANGED <<config, height, original, registry, mempool, failures, cursor, work, intents>>
  BY DEF Revoke
<1>2. PICK n : n = Len(cases)
  OBVIOUS
<1>3. n \in 1..Len(cases) /\ cases[n] \in Cases
  BY <1>1, <1>2, ChainHas, LastIs
<1>4. PICK c \in Cases : c = cases[n]
  BY <1>3
<1>5. PICK d : d = [c EXCEPT !.status = "REVOKED"]
  OBVIOUS
<1>6. /\ d \in Cases /\ d.target = c.target /\ d.transfer = c.transfer
      /\ d.expiry = c.expiry /\ d.deadline = c.deadline
      /\ d.status = "REVOKED" /\ d.executed = c.executed
  <2>1. "REVOKED" \in CaseStatuses
    BY DEF CaseStatuses
  <2>2. QED
    BY <1>5, <2>1, MarkedIs
<1>7. /\ c.status # "EXPIRED"
      /\ c.executed => c.status \in {"EXECUTED", "REVOKED"}
  BY <1>2, <1>3, <1>4, ChainHas DEF Rounds
<1>8. Edits(c, d, height, height')
  BY <1>6, <1>7 DEF Edits, Final
<1>9. cases' = [cases EXCEPT ![n] = d]
  <2>1. cases' = [cases EXCEPT ![n] = [cases[n] EXCEPT !.status = "REVOKED"]]
    BY <1>1, <1>2
  <2>2. QED
    BY <1>4, <1>5, <2>1
<1>10. Edits(cases[n], d, height, height')
  BY <1>4, <1>8
<1>11. height' \in Nat /\ height <= height' /\ mempool' \subseteq mempool
  BY <1>1, ChainHas
<1>12. QED
  BY <1>1, <1>3, <1>6, <1>9, <1>10, <1>11, EditKeeps

\* What a waiting transaction is like.
LEMMA WaitingIs ==
  ASSUME DaemonInv, NEW tx \in mempool
  PROVE  /\ tx \in Messages /\ tx.from \in AgentSet /\ tx.round \in 0..MaxRound
         /\ tx.round \in Nat /\ tx.kind \in {"open", "vote", "execute"}
         /\ TxGood(cases, height, config.target, tx)
<1>1. tx \in Messages /\ TxGood(cases, height, config.target, tx)
  BY ChainHas DEF Sent
<1>2. tx.from \in AgentSet /\ tx.round \in 0..MaxRound /\ tx.kind \in {"open", "vote", "execute"}
  BY <1>1 DEF Messages
<1>3. tx.round \in Nat
  BY <1>2, BoundsAssumption DEF BoundsAssumption
<1>4. QED
  BY <1>1, <1>2, <1>3

\* A vote or an execution is about a round that there is.
LEMMA RoundOfTx ==
  ASSUME DaemonInv, NEW tx \in mempool, tx.kind # "open"
  PROVE  tx.round + 1 \in 1..Len(cases) /\ cases[tx.round + 1] \in Cases
<1>1. tx.round \in Nat /\ tx.round < Len(cases)
  BY WaitingIs DEF TxGood
<1>2. tx.round + 1 \in 1..Len(cases)
  BY <1>1, ChainHas
<1>3. QED
  BY <1>2, ChainHas

\* A vote is counted (SubmitSanctionVote).
LEMMA VoteKeeps ==
  ASSUME DaemonInv, NEW tx \in mempool, IncludeTx(tx), tx.kind = "vote",
         Verdict(tx, height + 1) = "ok"
  PROVE  DaemonInv'
<1>1. PICK n : n = tx.round + 1
  OBVIOUS
<1>2. n \in 1..Len(cases) /\ cases[n] \in Cases
  BY <1>1, RoundOfTx
<1>3. PICK c \in Cases : c = cases[n]
  BY <1>2
<1>4. PICK d : d = Voted(c, tx)
  OBVIOUS
<1>5. /\ d \in Cases /\ d.target = c.target /\ d.transfer = c.transfer
      /\ d.expiry = c.expiry /\ d.deadline = c.deadline
      /\ d.status \in {c.status, "APPROVED", "REJECTED"} /\ d.executed = c.executed
  BY <1>4, WaitingIs, VotedIs
<1>6. /\ height' = height + 1 /\ mempool' \subseteq mempool
      /\ UNCHANGED <<config, original, registry, failures, cursor, work, intents>>
      /\ cases' = Applied(tx, height + 1)
  BY DEF IncludeTx, Block
<1>7. cases' = [cases EXCEPT ![n] = d]
  BY <1>1, <1>3, <1>4, <1>6 DEF Applied
<1>8. height' \in Nat /\ height <= height' /\ height \in Nat
  BY <1>6, ChainHas
<1>9. \/ c.status = "PENDING" /\ height + 1 <= c.deadline
      \/ c.status = "APPROVED"
  BY <1>1, <1>3, Zenon DEF Verdict
<1>10. c.executed => c.status \in {"EXECUTED", "REVOKED"}
  BY <1>2, <1>3, ChainHas DEF Rounds
<1>11. c.deadline \in Nat /\ c.expiry \in Nat
  BY DEF Cases
<1>12. Edits(c, d, height, height')
  <2>1. ~c.executed /\ ~d.executed
    BY <1>5, <1>9, <1>10
  <2>2. /\ c.status \notin {"EXPIRED", "REJECTED", "REVOKED"}
        /\ d.status \notin {"EXPIRED", "EXECUTED"}
    BY <1>5, <1>9
  <2>3. Overdue(c, height) => Overdue(d, height')
    BY <1>5, <1>6, <1>8, <1>9, <1>11 DEF Overdue
  <2>4. QED
    BY <1>5, <2>1, <2>2, <2>3 DEF Edits, Final
<1>13. Edits(cases[n], d, height, height')
  BY <1>3, <1>12
<1>14. QED
  BY <1>2, <1>5, <1>6, <1>7, <1>8, <1>13, EditKeeps

\* A case is executed (ExecuteSanction).
LEMMA ExecuteKeeps ==
  ASSUME DaemonInv, NEW tx \in mempool, IncludeTx(tx), tx.kind = "execute",
         Verdict(tx, height + 1) = "ok"
  PROVE  DaemonInv'
<1>1. PICK n : n = tx.round + 1
  OBVIOUS
<1>2. n \in 1..Len(cases) /\ cases[n] \in Cases
  BY <1>1, RoundOfTx
<1>3. PICK c \in Cases : c = cases[n]
  BY <1>2
<1>4. PICK d : d = Executed(c)
  OBVIOUS
<1>5. /\ d \in Cases /\ d.target = c.target /\ d.transfer = c.transfer
      /\ d.expiry = c.expiry /\ d.deadline = c.deadline
      /\ d.status = "EXECUTED" /\ d.executed
  BY <1>4, ExecutedIs
<1>6. /\ height' = height + 1 /\ mempool' \subseteq mempool
      /\ UNCHANGED <<config, original, registry, failures, cursor, work, intents>>
      /\ cases' = Applied(tx, height + 1)
  BY DEF IncludeTx, Block
<1>7. cases' = [cases EXCEPT ![n] = d]
  BY <1>1, <1>3, <1>4, <1>6 DEF Applied
<1>8. height' \in Nat /\ height <= height'
  BY <1>6, ChainHas
<1>9. c.status = "APPROVED"
  BY <1>1, <1>3, Zenon DEF Verdict
<1>10. Edits(c, d, height, height')
  BY <1>5, <1>9 DEF Edits, Final
<1>11. Edits(cases[n], d, height, height')
  BY <1>3, <1>10
<1>12. QED
  BY <1>2, <1>5, <1>6, <1>7, <1>8, <1>11, EditKeeps

\* A case is opened, or a round replaced (OpenSanctionCase).
LEMMA OpenKeeps ==
  ASSUME DaemonInv, NEW tx \in mempool, IncludeTx(tx), tx.kind = "open",
         Verdict(tx, height + 1) = "ok"
  PROVE  DaemonInv'
<1>1. PICK cs, h, k, e : cs = cases /\ h = height /\ k = height + 1 /\ e = Opened(tx, k)
  OBVIOUS
<1>2. cs \in Seq(Cases) /\ Len(cs) \in Nat /\ h \in Nat /\ k \in Nat /\ h <= k /\ Rounds(cs, h)
  BY <1>1, ChainHas
<1>3. /\ e \in Cases /\ e.target = tx.target /\ e.transfer = tx.transfer
      /\ e.status = "PENDING" /\ e.executed = FALSE
  <2>1. registry \subseteq AgentSet /\ tx \in Messages /\ k \in Nat /\ e = Opened(tx, k)
    BY <1>1, <1>2, ChainHas, WaitingIs
  <2>2. QED
    BY <2>1, OpenedIs, Zenon
<1>4. /\ height' = k /\ mempool' \subseteq mempool
      /\ UNCHANGED <<config, original, registry, failures, cursor, work, intents>>
      /\ cases' = Applied(tx, k)
  BY <1>1 DEF IncludeTx, Block
<1>5. tx.round = Len(cs) /\ tx.round \in 0..MaxRound
  <2>1. ~(Len(cases) > tx.round \/ Len(cases) < tx.round)
    BY Zenon DEF Verdict
  <2>2. QED
    BY <1>1, <1>2, <2>1, WaitingIs
<1>6. ASSUME Len(cs) > 0
      PROVE  /\ ~Final(cs[Len(cs)]) /\ RanOut(cs[Len(cs)], k)
             /\ cs[Len(cs)].target = "ADDRESS" /\ e.target = "ADDRESS"
             /\ e.transfer = cs[Len(cs)].transfer
  <2>1. Replaceable(cs[Len(cs)], tx, k)
    <3>1. tx.round > 0
      BY <1>5, <1>6
    <3>2. Replaceable(cases[tx.round], tx, height + 1)
      BY <3>1, Zenon DEF Verdict
    <3>3. QED
      BY <1>1, <1>5, <3>2
  <2>2. QED
    BY <1>3, <2>1 DEF Replaceable, Final, RanOut
<1>7. PICK bs : bs = [r \in 1..Len(cs) |->
                       IF r = Len(cs) THEN [cs[r] EXCEPT !.status = "EXPIRED"] ELSE cs[r]]
  OBVIOUS
<1>8. PICK ds : ds = Append(bs, e)
  OBVIOUS
<1>9. cases' = ds
  <2>1. DOMAIN cases = 1..Len(cs)
    BY <1>1, <1>2
  <2>2. bs = [r \in DOMAIN cases |-> IF r = tx.round
                THEN [cases[r] EXCEPT !.status = "EXPIRED"] ELSE cases[r]]
    BY <1>1, <1>5, <1>7, <2>1
  <2>3. Applied(tx, k) =
          Append([r \in DOMAIN cases |-> IF r = tx.round
                    THEN [cases[r] EXCEPT !.status = "EXPIRED"] ELSE cases[r]],
                 Opened(tx, k))
    BY Zenon DEF Applied
  <2>4. Applied(tx, k) = Append(bs, e)
    BY <1>1, <2>2, <2>3, Zenon
  <2>5. QED
    BY <1>4, <1>8, <2>4
<1>10. ds \in Seq(Cases) /\ Len(ds) = Len(cs) + 1
  <2>1. ds \in Seq(Cases)
    BY <1>2, <1>3, <1>6, <1>7, <1>8, AppendMoves
  <2>2. Len(ds) = Len(cs) + 1
    BY <1>2, <1>3, <1>6, <1>7, <1>8, AppendMoves
  <2>3. QED
    BY <2>1, <2>2
<1>11. Rounds(ds, k) /\ Moves(cs, h, ds, k)
  BY <1>2, <1>3, <1>6, <1>7, <1>8, AppendMoves
<1>12. Len(ds) <= MaxRound + 1
  BY <1>2, <1>5, <1>10, BoundsAssumption DEF BoundsAssumption
<1>13. ScannedIsStored' /\ FailuresFit'
  BY <1>4, ChainHas DEF ScannedIsStored, FailuresFit
<1>14. /\ Rounds(cases', height') /\ Moves(cases, height, cases', height')
       /\ cases' \in Seq(Cases) /\ Len(cases') <= MaxRound + 1
       /\ height' \in Nat /\ height <= height'
  BY <1>1, <1>2, <1>4, <1>9, <1>10, <1>11, <1>12
<1>15. QED
  BY <1>4, <1>13, <1>14, ChainHas, ChainKeeps

\* A transaction is in a block. An opening says what the policy of the chain does.
LEMMA IncludeTxKeeps ==
  ASSUME DaemonInv, NEW tx \in mempool, IncludeTx(tx)
  PROVE  DaemonInv'
<1>1. CASE Verdict(tx, height + 1) = "ok"
  BY <1>1, WaitingIs, VoteKeeps, ExecuteKeeps, OpenKeeps
<1>2. CASE Verdict(tx, height + 1) # "ok"
  <2>1. PICK verdict : verdict = Verdict(tx, height + 1)
    OBVIOUS
  <2>2. /\ Block /\ mempool' = mempool \ {tx}
        /\ failures' = Failing(tx, verdict) /\ UNCHANGED <<original, cases>>
    BY <1>2, <2>1 DEF IncludeTx
  <2>3. verdict \in Reasons \ {"policy"}
    <3>1. CASE tx.kind = "open"
      <4>1. tx.action = ComputePolicyAction({tx.report}, Thresholds, tx.target)
        BY <3>1, WaitingIs DEF TxGood
      <4>2. verdict \in {"refused", "expired", "ok"}
        BY <2>1, <3>1, <4>1, Zenon DEF Verdict
      <4>3. QED
        BY <1>2, <2>1, <4>2 DEF Reasons
    <3>2. CASE tx.kind # "open"
      <4>1. verdict \in {"refused", "expired", "ok"}
        BY <2>1, <3>2, Zenon DEF Verdict
      <4>2. QED
        BY <1>2, <2>1, <4>1 DEF Reasons
    <3>3. QED
      BY <3>1, <3>2
  <2>4. QED
    BY <2>2, <2>3, FailureKeeps
<1>3. QED
  BY <1>1, <1>2

-----------------------------------------------------------------------------
(***************************************************************************)
(* What a daemon stores                                                    *)
(***************************************************************************)

\* Work, and intents, as the invariant has them for this daemon.
WorkOk(a, w) ==
  /\ w \in Works
  /\ WorkGood(cases, height, config.target[a], w)
  /\ DoneGood(cases, original.where, config.target[a], w.done)

PlanOk(a, known) ==
  /\ DOMAIN known \subseteq Keys /\ known \in [DOMAIN known -> Intents]
  /\ \A key \in DOMAIN known :
       /\ known[key].tx.from = a
       /\ known[key].tx.kind = key[1]
       /\ known[key].tx.round = key[2]
       /\ TxGood(cases, height, config.target, known[key].tx)

\* What the invariant says of the store of one daemon.
LEMMA StoreIs ==
  ASSUME DaemonInv, NEW a \in AgentSet
  PROVE  /\ work \in [AgentSet -> Works \cup {None}]
         /\ work[a] # None => WorkOk(a, work[a])
         /\ PlanOk(a, intents[a])
         /\ DOMAIN intents[a] # {} => work[a] # None
<1>1. TypeOK /\ InvParts
  BY InvIs DEF DaemonInv
<1>2. work \in [AgentSet -> Works \cup {None}]
  BY <1>1 DEF TypeOK
<1>3. work[a] # None => WorkOk(a, work[a])
  BY <1>1, <1>2 DEF InvParts, Stored, WorkOk
<1>4. DOMAIN intents[a] \subseteq Keys /\ intents[a] \in [DOMAIN intents[a] -> Intents]
  BY <1>1 DEF TypeOK
<1>5. PlanOk(a, intents[a])
  BY <1>1, <1>4 DEF InvParts, Planned, PlanOk
<1>6. DOMAIN intents[a] # {} => work[a] # None
  BY <1>1 DEF InvParts, Planned
<1>7. QED
  BY <1>2, <1>3, <1>5, <1>6

\* A step of one daemon keeps the invariant if what it stores and sends is right.
LEMMA AgentKeeps ==
  ASSUME DaemonInv, NEW a \in AgentSet, UNCHANGED chainVars,
         NEW w, w # None => WorkOk(a, w), work[a] # None => w # None,
         work' = [work EXCEPT ![a] = w],
         NEW known, PlanOk(a, known), DOMAIN known # {} => w # None,
         intents' = [intents EXCEPT ![a] = known],
         cursor' \in [AgentSet -> Nat], CursorInv', ScannedIsStored',
         \A tx \in mempool' : tx \in mempool \/ \E key \in DOMAIN known : tx = known[key].tx
  PROVE  DaemonInv'
<1>1. TypeOK /\ InvParts
  BY InvIs DEF DaemonInv
<1>2. UNCHANGED <<config, height, original, cases, registry, failures>>
  BY DEF chainVars
<1>3. w \in Works \cup {None}
  BY DEF WorkOk
<1>4. work \in [AgentSet -> Works \cup {None}] /\ intents = [b \in AgentSet |-> intents[b]]
  BY <1>1 DEF TypeOK
<1>5. /\ work'[a] = w /\ intents'[a] = known
      /\ \A b \in AgentSet : b # a => work'[b] = work[b] /\ intents'[b] = intents[b]
      /\ work' \in [AgentSet -> Works \cup {None}]
      /\ intents' = [b \in AgentSet |-> intents'[b]]
  BY <1>3, <1>4
<1>6. mempool' \subseteq Messages
  <2>1. mempool \subseteq Messages
    BY <1>1 DEF TypeOK
  <2>2. \A key \in DOMAIN known : known[key].tx \in Messages
    BY DEF PlanOk, Intents
  <2>3. QED
    BY <2>1, <2>2
<1>7. \A b \in AgentSet : PlanOk(b, intents'[b]) /\ (DOMAIN intents'[b] # {} => work'[b] # None)
  <2>1. ASSUME NEW b \in AgentSet
        PROVE  PlanOk(b, intents'[b]) /\ (DOMAIN intents'[b] # {} => work'[b] # None)
    <3>1. CASE b = a
      BY <1>5, <3>1
    <3>2. CASE b # a
      BY <1>5, <3>2, StoreIs
    <3>3. QED
      BY <3>1, <3>2
  <2>2. QED
    BY <2>1
<1>8. \A b \in AgentSet : /\ DOMAIN intents'[b] \subseteq Keys
                          /\ intents'[b] \in [DOMAIN intents'[b] -> Intents]
  BY <1>7 DEF PlanOk
<1>9. TypeOK'
  <2>1. /\ config' \in Configs /\ height' \in Nat
        /\ original' \in [where : {"pending", "ok", "failed"}, height : Nat]
        /\ cases' \in Seq(Cases) /\ Len(cases') <= MaxRound + 1
        /\ registry' \subseteq AgentSet
        /\ \A tx \in DOMAIN failures' : failures'[tx] \in Reasons
    BY <1>1, <1>2 DEF TypeOK
  <2>2. QED
    BY <1>5, <1>6, <1>8, <2>1, Zenon DEF TypeOK
<1>10. Stored(cases, height, config.target, original.where, work')
  <2>1. ASSUME NEW b \in AgentSet, work'[b] # None
        PROVE  /\ WorkGood(cases, height, config.target[b], work'[b])
               /\ DoneGood(cases, original.where, config.target[b], work'[b].done)
    <3>1. CASE b = a
      BY <1>5, <2>1, <3>1 DEF WorkOk
    <3>2. CASE b # a
      BY <1>5, <2>1, <3>2, StoreIs DEF WorkOk
    <3>3. QED
      BY <3>1, <3>2
  <2>2. QED
    BY <2>1 DEF Stored
<1>11. Planned(cases, height, config.target, work', intents')
  BY <1>7 DEF PlanOk, Planned
<1>12. Sent(cases, height, config.target, mempool')
  <2>1. \A tx \in mempool : TxGood(cases, height, config.target, tx)
    BY ChainHas DEF Sent
  <2>2. \A key \in DOMAIN known : TxGood(cases, height, config.target, known[key].tx)
    BY DEF PlanOk
  <2>3. QED
    BY <2>1, <2>2 DEF Sent
<1>13. InvParts'
  <2>1. /\ Stored(cases', height', config'.target, original'.where, work')
        /\ Planned(cases', height', config'.target, work', intents')
        /\ Sent(cases', height', config'.target, mempool')
        /\ Rounds(cases', height')
    BY <1>2, <1>10, <1>11, <1>12, ChainHas
  <2>2. OpenNeverAgainstPolicy'
    BY <1>1, <1>2 DEF InvParts, OpenNeverAgainstPolicy
  <2>3. QED
    BY <2>1, <2>2 DEF InvParts
<1>14. QED
  BY <1>9, <1>13, InvIsPrimed

\* A step that leaves the cursor alone, and keeps work if there is some.
LEMMA StepKeeps ==
  ASSUME DaemonInv, NEW a \in AgentSet, UNCHANGED chainVars, UNCHANGED cursor,
         NEW w, w # None => WorkOk(a, w), work[a] # None => w # None,
         work' = [work EXCEPT ![a] = w],
         NEW known, PlanOk(a, known), DOMAIN known # {} => w # None,
         intents' = [intents EXCEPT ![a] = known],
         \A tx \in mempool' : tx \in mempool \/ \E key \in DOMAIN known : tx = known[key].tx
  PROVE  DaemonInv'
<1>1. UNCHANGED <<config, height, original, cases, registry, failures>>
  BY DEF chainVars
<1>2. cursor' \in [AgentSet -> Nat] /\ CursorInv'
  BY <1>1, ChainHas DEF CursorInv
<1>3. ScannedIsStored'
  <2>1. \A b \in AgentSet : work[b] # None => work'[b] # None
    BY StoreIs
  <2>2. QED
    BY <1>1, <2>1, ChainHas DEF ScannedIsStored
<1>4. QED
  BY <1>2, <1>3, AgentKeeps

-----------------------------------------------------------------------------
(***************************************************************************)
(* Work, edited field by field                                             *)
(***************************************************************************)

\* Some fields of the work, whatever is put into them.
LEMMA WorkHas ==
  ASSUME NEW w \in Works
  PROVE  /\ w = [round |-> w.round, seen |-> w.seen, transfers |-> w.transfers,
                 approved |-> w.approved, review |-> w.review, done |-> w.done]
         /\ w.round \in 0..MaxRound + 1 /\ w.round \in Nat /\ w.seen \in Nat
         /\ w.transfers \in SUBSET Nat
         /\ w.approved \in Nat /\ w.review \in Reviews \cup {None} /\ w.done \in Results
<1>1. /\ w = [round |-> w.round, seen |-> w.seen, transfers |-> w.transfers,
              approved |-> w.approved, review |-> w.review, done |-> w.done]
      /\ w.round \in 0..MaxRound + 1 /\ w.seen \in Nat /\ w.transfers \in SUBSET Nat
      /\ w.approved \in Nat /\ w.review \in Reviews \cup {None} /\ w.done \in Results
  BY DEF Works
<1>2. w.round \in Nat
  BY <1>1, BoundsAssumption DEF BoundsAssumption
<1>3. QED
  BY <1>1, <1>2

\* A record with these fields is work.
LEMMA WorkOf ==
  ASSUME NEW r \in 0..MaxRound + 1, NEW s \in Nat, NEW t \in SUBSET Nat, NEW n \in Nat,
         NEW v \in Reviews \cup {None}, NEW f \in Results,
         NEW d, d = [round |-> r, seen |-> s, transfers |-> t, approved |-> n,
                     review |-> v, done |-> f]
  PROVE  /\ d \in Works /\ d.round = r /\ d.seen = s /\ d.transfers = t /\ d.approved = n
         /\ d.review = v /\ d.done = f
BY DEF Works

\* Work for another round.
LEMMA RoundSet ==
  ASSUME NEW w \in Works, NEW r \in 0..MaxRound + 1, NEW d, d = [w EXCEPT !.round = r]
  PROVE  /\ d \in Works /\ d.round = r /\ d.seen = w.seen /\ d.transfers = w.transfers
         /\ d.approved = w.approved /\ d.review = w.review /\ d.done = w.done
<1>1. d = [round |-> r, seen |-> w.seen, transfers |-> w.transfers,
           approved |-> w.approved, review |-> w.review, done |-> w.done]
  BY WorkHas
<1>2. QED
  BY <1>1, WorkHas, WorkOf

\* Work that was first seen at another height.
LEMMA SeenSet ==
  ASSUME NEW w \in Works, NEW s \in Nat, NEW d, d = [w EXCEPT !.seen = s]
  PROVE  /\ d \in Works /\ d.round = w.round /\ d.seen = s /\ d.transfers = w.transfers
         /\ d.approved = w.approved /\ d.review = w.review /\ d.done = w.done
<1>1. d = [round |-> w.round, seen |-> s, transfers |-> w.transfers,
           approved |-> w.approved, review |-> w.review, done |-> w.done]
  BY WorkHas
<1>2. QED
  BY <1>1, WorkHas, WorkOf

\* Work for other transfers.
LEMMA TransfersSet ==
  ASSUME NEW w \in Works, NEW t \in SUBSET Nat, NEW d, d = [w EXCEPT !.transfers = t]
  PROVE  /\ d \in Works /\ d.round = w.round /\ d.seen = w.seen /\ d.transfers = t
         /\ d.approved = w.approved /\ d.review = w.review /\ d.done = w.done
<1>1. d = [round |-> w.round, seen |-> w.seen, transfers |-> t,
           approved |-> w.approved, review |-> w.review, done |-> w.done]
  BY WorkHas
<1>2. QED
  BY <1>1, WorkHas, WorkOf

\* Work with another height of the approval.
LEMMA ApprovedSet ==
  ASSUME NEW w \in Works, NEW n \in Nat, NEW d, d = [w EXCEPT !.approved = n]
  PROVE  /\ d \in Works /\ d.round = w.round /\ d.seen = w.seen
         /\ d.transfers = w.transfers
         /\ d.approved = n /\ d.review = w.review /\ d.done = w.done
<1>1. d = [round |-> w.round, seen |-> w.seen, transfers |-> w.transfers,
           approved |-> n, review |-> w.review, done |-> w.done]
  BY WorkHas
<1>2. QED
  BY <1>1, WorkHas, WorkOf

\* Work with another review.
LEMMA ReviewSet ==
  ASSUME NEW w \in Works, NEW v \in Reviews \cup {None}, NEW d, d = [w EXCEPT !.review = v]
  PROVE  /\ d \in Works /\ d.round = w.round /\ d.seen = w.seen
         /\ d.transfers = w.transfers
         /\ d.approved = w.approved /\ d.review = v /\ d.done = w.done
<1>1. d = [round |-> w.round, seen |-> w.seen, transfers |-> w.transfers,
           approved |-> w.approved, review |-> v, done |-> w.done]
  BY WorkHas
<1>2. QED
  BY <1>1, WorkHas, WorkOf

\* Work that has come to an end.
LEMMA DoneSet ==
  ASSUME NEW w \in Works, NEW f \in Results, NEW d, d = [w EXCEPT !.done = f]
  PROVE  /\ d \in Works /\ d.round = w.round /\ d.seen = w.seen
         /\ d.transfers = w.transfers
         /\ d.approved = w.approved /\ d.review = w.review /\ d.done = f
<1>1. d = [round |-> w.round, seen |-> w.seen, transfers |-> w.transfers,
           approved |-> w.approved, review |-> w.review, done |-> f]
  BY WorkHas
<1>2. QED
  BY <1>1, WorkHas, WorkOf

\* Work that is bound to a transfer keeps only a review of that one (bindOriginal).
LEMMA BindIs ==
  ASSUME NEW w \in Works, NEW c \in Cases, NEW d, d = BindOriginal(w, c)
  PROVE  /\ d \in Works /\ d.round = w.round /\ d.transfers = {c.transfer}
         /\ d.done = w.done
         /\ d.review # None => d.review = w.review /\ d.review.transfer = c.transfer
<1>1. PICK t \in SUBSET Nat : t = {c.transfer}
  BY DEF Cases
<1>2. PICK mid : mid = [w EXCEPT !.transfers = t]
  OBVIOUS
<1>a. /\ mid \in Works /\ mid.round = w.round /\ mid.transfers = t
       /\ mid.review = w.review /\ mid.done = w.done
  BY <1>2, TransfersSet
<1>3. /\ mid \in Works /\ mid.round = w.round /\ mid.transfers = {c.transfer}
      /\ mid.review = w.review /\ mid.done = w.done
  BY <1>1, <1>a
<1>4. PICK v : v = IF w.review # None /\ w.review.transfer # c.transfer
                   THEN None ELSE w.review
  OBVIOUS
<1>5. d = [mid EXCEPT !.review = v]
  <2>1. d = [mid EXCEPT !.review = IF mid.review # None /\ mid.review.transfer # c.transfer
                                   THEN None ELSE mid.review]
    BY <1>1, <1>2, Zenon DEF BindOriginal
  <2>2. QED
    BY <1>3, <1>4, <2>1, Zenon
<1>6. v \in Reviews \cup {None}
  BY <1>4, WorkHas
<1>7. /\ d \in Works /\ d.round = mid.round /\ d.transfers = mid.transfers
      /\ d.done = mid.done /\ d.review = v
  BY <1>3, <1>5, <1>6, ReviewSet
<1>8. v # None => v = w.review /\ v.transfer = c.transfer
  BY <1>4
<1>9. QED
  BY <1>3, <1>7, <1>8

\* Work for another round starts without a review (resetRoundWork).
Restarted(w, r) == [w EXCEPT !.round = r, !.review = None, !.approved = 0]

\* Such work has no review.
LEMMA RestartIs ==
  ASSUME NEW w \in Works, NEW r \in 0..MaxRound + 1
  PROVE  /\ Restarted(w, r) \in Works /\ Restarted(w, r).round = r
         /\ Restarted(w, r).transfers = w.transfers
         /\ Restarted(w, r).done = w.done /\ Restarted(w, r).review = None
<1>1. PICK u : u = [w EXCEPT !.round = r]
  OBVIOUS
<1>2. PICK v : v = [u EXCEPT !.review = None]
  OBVIOUS
<1>3. PICK z \in Nat : z = 0
  OBVIOUS
<1>4. PICK e : e = [v EXCEPT !.approved = z]
  OBVIOUS
<1>5. /\ u \in Works /\ u.round = r /\ u.transfers = w.transfers /\ u.done = w.done
  BY <1>1, RoundSet
<1>6. /\ v \in Works /\ v.round = u.round /\ v.transfers = u.transfers /\ v.done = u.done
      /\ v.review = None
  BY <1>2, <1>5, ReviewSet
<1>7. /\ e \in Works /\ e.round = v.round /\ e.transfers = v.transfers /\ e.done = v.done
      /\ e.review = v.review
  BY <1>3, <1>4, <1>6, ApprovedSet
<1>8. /\ e \in Works /\ e.round = r /\ e.transfers = w.transfers
      /\ e.done = w.done /\ e.review = None
  BY <1>5, <1>6, <1>7
<1>9. Restarted(w, r) = e
  BY <1>1, <1>2, <1>3, <1>4, Zenon DEF Restarted
<1>10. QED
  BY <1>8, <1>9

-----------------------------------------------------------------------------
(***************************************************************************)
(* Work as progress sees it                                                *)
(***************************************************************************)

\* The last round is due, and the next one when the last has run out.
LEMMA DueNow ==
  ASSUME NEW cs \in Seq(Cases), NEW h \in Nat, Rounds(cs, h), Len(cs) > 0
  PROVE  /\ DueIn(cs, Len(cs) - 1, h)
         /\ cs[Len(cs)].target = "ADDRESS" /\ Overdue(cs[Len(cs)], h) => DueIn(cs, Len(cs), h)
<1>1. PICK n \in Nat : n = Len(cs)
  OBVIOUS
<1>2. \A r \in 1..n : r < n => RanOut(cs[r], h)
  BY <1>1 DEF Rounds
<1>3. DueIn(cs, n - 1, h)
  <2>1. n - 1 > 0 => RanOut(cs[n - 1], h)
    BY <1>1, <1>2
  <2>2. n - 1 <= Len(cs) /\ n - 1 # Len(cs)
    BY <1>1
  <2>3. QED
    BY <2>1, <2>2 DEF DueIn, FreshFor
<1>4. ASSUME cs[n].target = "ADDRESS", Overdue(cs[n], h) PROVE DueIn(cs, n, h)
  <2>1. RanOut(cs[n], h)
    BY <1>4 DEF Overdue, RanOut
  <2>2. QED
    BY <1>1, <1>4, <2>1 DEF DueIn, FreshFor
<1>5. QED
  BY <1>1, <1>3, <1>4

\* Evidence from a height at which a round is due is new enough for it.
LEMMA DueIsFresh ==
  ASSUME NEW cs, NEW r, NEW h, DueIn(cs, r, h)
  PROVE  FreshFor(cs, r, h)
BY DEF DueIn

\* Work that is bound to a transfer fits if it did before.
LEMMA BindFits ==
  ASSUME NEW cs, NEW h, NEW target, NEW w, NEW v, NEW t,
         WorkGood(cs, h, target, w),
         v.round = w.round, v.transfers = {t}, v.done = w.done,
         v.review # None => v.review = w.review
  PROVE  WorkGood(cs, h, target, v)
<1>1. DueIn(cs, v.round, h)
  BY DEF WorkGood
<1>2. IsFiniteSet(v.transfers) /\ v.transfers # {}
  BY FS_Singleton
<1>3. v.done \in {"REJECTED", "REVOKED", "different_target_type"} => Len(cs) > 0
  BY DEF WorkGood
<1>4. v.review # None =>
        /\ v.review.action = ComputePolicyAction({v.review.report}, Thresholds, target)
        /\ FreshFor(cs, v.round, v.review.observed) \/ Final(cs[Len(cs)])
  BY DEF WorkGood
<1>5. QED
  BY <1>1, <1>2, <1>3, <1>4, Zenon DEF WorkGood

\* Work for a round that is due fits, without a review or with one that does not
\* matter any more.
LEMMA RoundFits ==
  ASSUME NEW cs, NEW h, NEW target, NEW w, NEW v,
         WorkGood(cs, h, target, w), DueIn(cs, v.round, h),
         v.transfers = w.transfers, v.done = w.done,
         v.review = w.review, v.round = w.round \/ v.review = None \/ Final(cs[Len(cs)])
  PROVE  WorkGood(cs, h, target, v)
<1>1. IsFiniteSet(v.transfers)
  BY DEF WorkGood
<1>2. v.transfers = {} \/ v.done \in {"REJECTED", "REVOKED", "different_target_type"}
        => Len(cs) > 0
  BY DEF WorkGood
<1>3. v.review # None =>
        /\ v.review.action = ComputePolicyAction({v.review.report}, Thresholds, target)
        /\ FreshFor(cs, v.round, v.review.observed) \/ Final(cs[Len(cs)])
  BY DEF WorkGood
<1>4. QED
  BY <1>1, <1>2, <1>3, Zenon DEF WorkGood

\* Work without a review fits for every round that is due.
LEMMA NoReviewFits ==
  ASSUME NEW cs, NEW h, NEW target, NEW w, NEW v,
         WorkGood(cs, h, target, w), DueIn(cs, v.round, h),
         v.transfers = w.transfers, v.done = w.done, v.review = None
  PROVE  WorkGood(cs, h, target, v)
BY Zenon DEF WorkGood

\* The case as a daemon sees it (caseForWork).
LEMMA CaseIs ==
  ASSUME DaemonInv
  PROVE  /\ cases # <<>> => /\ Len(cases) > 0 /\ Len(cases) \in 1..Len(cases)
                            /\ Last \in Cases /\ Last = cases[Len(cases)]
                            /\ DueIn(cases, Len(cases) - 1, height)
                            /\ Last.status # "EXPIRED"
         /\ Recovering => /\ cases # <<>> /\ ~Final(Last) /\ Last.target = "ADDRESS"
                          /\ DueIn(cases, Len(cases), height)
         /\ Recovering <=> /\ Len(cases) > 0 /\ ~Final(cases[Len(cases)])
                           /\ cases[Len(cases)].target = "ADDRESS"
                           /\ Overdue(cases[Len(cases)], height)
         /\ Current # None => cases # <<>> /\ ~Recovering /\ Current = Last
<1>1. /\ Len(cases) \in Nat /\ Last = cases[Len(cases)]
      /\ cases = <<>> <=> Len(cases) = 0
      /\ \A r \in 1..Len(cases) : cases[r] \in Cases
  BY ChainHas, LastIs
<1>2. cases # <<>> => /\ Len(cases) > 0 /\ Len(cases) \in 1..Len(cases)
                      /\ Last \in Cases /\ Last = cases[Len(cases)]
  BY <1>1
<1>3. cases # <<>> => DueIn(cases, Len(cases) - 1, height)
  BY <1>2, ChainHas, DueNow
<1>4. cases # <<>> => Last.status # "EXPIRED"
  BY <1>2, ChainHas DEF Rounds
<1>5. Recovering <=> /\ Len(cases) > 0 /\ ~Final(cases[Len(cases)])
                     /\ cases[Len(cases)].target = "ADDRESS"
                     /\ Overdue(cases[Len(cases)], height)
  BY ChainHas, RecoveringIs
<1>6. Recovering => DueIn(cases, Len(cases), height)
  BY <1>5, ChainHas, DueNow
<1>7. Current # None => cases # <<>> /\ ~Recovering /\ Current = Last
  BY Zenon DEF Current
<1>8. Recovering => cases # <<>> /\ ~Final(Last) /\ Last.target = "ADDRESS"
  BY Zenon DEF Recovering
<1>9. QED
  BY <1>2, <1>3, <1>4, <1>5, <1>6, <1>7, <1>8

\* Work that is moved to another round (the last two alternatives of Follow).
Moved(w, r) == IF w.round = r THEN w ELSE Restarted(w, r)

\* Such work fits if the round is due.
LEMMA MovedFits ==
  ASSUME DaemonInv, NEW a \in AgentSet, NEW w, WorkOk(a, w), NEW r \in 0..MaxRound + 1,
         DueIn(cases, r, height)
  PROVE  /\ WorkOk(a, Moved(w, r)) /\ Moved(w, r).done = w.done
         /\ Moved(w, r).transfers = w.transfers
<1>1. CASE w.round = r
  BY <1>1 DEF Moved
<1>2. CASE w.round # r
  <2>1. PICK u : u = Restarted(w, r)
    OBVIOUS
  <2>2. /\ u \in Works /\ u.round = r /\ u.transfers = w.transfers
        /\ u.done = w.done /\ u.review = None
    BY <2>1, RestartIs DEF WorkOk
  <2>3. WorkOk(a, u)
    <3>1. WorkGood(cases, height, config.target[a], u)
      BY <2>2, NoReviewFits DEF WorkOk
    <3>2. QED
      BY <2>2, <3>1 DEF WorkOk
  <2>4. QED
    BY <1>2, <2>1, <2>2, <2>3 DEF Moved
<1>3. QED
  BY <1>1, <1>2

\* Work after it was bound to a transfer.
LEMMA BoundFits ==
  ASSUME DaemonInv, NEW a \in AgentSet, NEW w, WorkOk(a, w), NEW c \in Cases,
         NEW v, v = BindOriginal(w, c)
  PROVE  /\ WorkOk(a, v) /\ v.done = w.done /\ v.transfers = {c.transfer}
         /\ v.round = w.round
         /\ v.review # None => v.review.transfer = c.transfer
<1>1. w \in Works
  BY DEF WorkOk
<1>2. /\ v \in Works /\ v.round = w.round /\ v.transfers = {c.transfer}
      /\ v.done = w.done
      /\ v.review # None => v.review = w.review /\ v.review.transfer = c.transfer
  BY <1>1, BindIs
<1>3. WorkGood(cases, height, config.target[a], v)
  BY <1>2, BindFits DEF WorkOk
<1>4. QED
  BY <1>2, <1>3 DEF WorkOk

\* Work follows the rounds of the case.
LEMMA FollowIs ==
  ASSUME DaemonInv, NEW a \in AgentSet, NEW w, WorkOk(a, w), NEW v, v = Follow(w)
  PROVE  WorkOk(a, v) /\ v.done = w.done /\ (v.transfers = {} => ~Recovering)
<1>1. PICK last : last = Len(cases) - 1
  OBVIOUS
<1>2. cases # <<>> =>
        /\ last \in 0..MaxRound + 1 /\ last + 1 \in 0..MaxRound + 1
        /\ last + 1 = Len(cases)
        /\ DueIn(cases, last, height)
  BY <1>1, ChainHas, CaseIs, BoundsAssumption DEF BoundsAssumption
<1>3. w \in Works
  BY DEF WorkOk
<1>4. CASE cases = <<>>
  <2>1. v = w
    BY <1>4, Zenon DEF Follow
  <2>2. QED
    BY <1>4, <2>1, CaseIs
<1>5. CASE cases # <<>> /\ Final(Last)
  <2>1. v = [w EXCEPT !.round = last]
    BY <1>1, <1>5, Zenon DEF Follow
  <2>2. /\ v \in Works /\ v.round = last /\ v.transfers = w.transfers
        /\ v.review = w.review /\ v.done = w.done
    BY <1>2, <1>3, <1>5, <2>1, RoundSet
  <2>3. WorkGood(cases, height, config.target[a], v)
    BY <1>2, <1>5, <2>2, CaseIs, RoundFits DEF WorkOk
  <2>4. QED
    BY <1>5, <2>2, <2>3, CaseIs DEF WorkOk
<1>6. CASE cases # <<>> /\ ~Final(Last) /\ Recovering
  <2>1. PICK u : u = BindOriginal(w, Last)
    OBVIOUS
  <2>2. WorkOk(a, u) /\ u.done = w.done /\ u.transfers # {} /\ u.round = w.round
    <3>1. Last \in Cases
      BY <1>6, CaseIs
    <3>2. PICK c \in Cases : c = Last
      BY <3>1
    <3>3. WorkOk(a, u) /\ u.done = w.done /\ u.transfers = {c.transfer} /\ u.round = w.round
      BY <2>1, <3>2, BoundFits
    <3>4. QED
      BY <3>3
  <2>3. PICK r : r = last + 1
    OBVIOUS
  <2>4. r \in 0..MaxRound + 1 /\ DueIn(cases, r, height)
    BY <1>2, <1>6, <2>3, CaseIs
  <2>5. PICK x : x = Moved(u, r)
    OBVIOUS
  <2>6. x = IF w.round = r THEN u
            ELSE [u EXCEPT !.round = r, !.review = None, !.approved = 0]
    BY <2>2, <2>5, Zenon DEF Moved, Restarted
  <2>7. WorkOk(a, x) /\ x.done = u.done /\ x.transfers = u.transfers
    BY <2>2, <2>4, <2>5, MovedFits
  <2>8. PICK s : s = IF w.round # r THEN height ELSE x.seen
    OBVIOUS
  <2>9. v = [x EXCEPT !.seen = s]
    <3>1. v = [x EXCEPT !.seen = IF w.round # last + 1 THEN height ELSE x.seen]
      <4>1. v = [(IF w.round = last + 1 THEN BindOriginal(w, Last)
                  ELSE [BindOriginal(w, Last) EXCEPT
                          !.round = last + 1, !.review = None, !.approved = 0])
                   EXCEPT !.seen = IF w.round # last + 1 THEN height ELSE @]
        BY <1>1, <1>6, Zenon DEF Follow
      <4>2. QED
        BY <2>1, <2>3, <2>6, <4>1, Zenon
    <3>2. QED
      BY <2>3, <2>8, <3>1, Zenon
  <2>10. x \in Works /\ s \in Nat
    <3>1. x \in Works
      BY <2>7 DEF WorkOk
    <3>2. x.seen \in Nat
      BY <3>1, WorkHas
    <3>3. QED
      BY <2>8, <3>1, <3>2, ChainHas
  <2>11. /\ v \in Works /\ v.round = x.round /\ v.transfers = x.transfers
         /\ v.review = x.review /\ v.done = x.done
    BY <2>9, <2>10, SeenSet
  <2>12. WorkGood(cases, height, config.target[a], v)
    <3>1. WorkGood(cases, height, config.target[a], x)
      BY <2>7 DEF WorkOk
    <3>2. DueIn(cases, v.round, height)
      BY <2>11, <3>1 DEF WorkGood
    <3>3. QED
      BY <2>11, <3>1, <3>2, RoundFits
  <2>13. QED
    BY <2>2, <2>7, <2>11, <2>12 DEF WorkOk
<1>7. CASE cases # <<>> /\ ~Final(Last) /\ ~Recovering
  <2>1. CASE Last.target = "ADDRESS" /\ RunOut(Last)
    <3>1. v = w
      BY <1>7, <2>1, Zenon DEF Follow
    <3>2. QED
      BY <1>7, <3>1
  <2>2. CASE ~(Last.target = "ADDRESS" /\ RunOut(Last))
    <3>1. v = Moved(w, last)
      BY <1>1, <1>7, <2>2, Zenon DEF Follow, Moved, Restarted
    <3>2. last \in 0..MaxRound + 1 /\ DueIn(cases, last, height)
      BY <1>2, <1>7
    <3>3. WorkOk(a, v) /\ v.done = w.done
      BY <3>1, <3>2, MovedFits
    <3>4. QED
      BY <1>7, <3>3
  <2>3. QED
    BY <2>1, <2>2
<1>8. QED
  BY <1>4, <1>5, <1>6, <1>7

\* What progress goes on with fits, and its review is about the case (processWork).
LEMMA SeenIs ==
  ASSUME DaemonInv, NEW a \in AgentSet, work[a] # None, NEW v, v = Seen(a)
  PROVE  /\ WorkOk(a, v) /\ v.done = work[a].done
         /\ v.transfers = {} => ~Recovering
         /\ Current # None /\ Current.target = "ADDRESS" /\ TargetOf(a) = "ADDRESS"
              /\ v.review # None => v.review.transfer = Current.transfer
<1>1. WorkOk(a, work[a])
  BY StoreIs
<1>2. PICK w : w = Follow(work[a])
  OBVIOUS
<1>3. WorkOk(a, w) /\ w.done = work[a].done /\ (w.transfers = {} => ~Recovering)
  BY <1>1, <1>2, FollowIs
<1>4. CASE Current # None /\ Current.target = "ADDRESS" /\ TargetOf(a) = "ADDRESS"
  <2>1. v = BindOriginal(w, Current)
    BY <1>2, <1>4, Zenon DEF Seen
  <2>2. Current \in Cases
    BY <1>4, CaseIs
  <2>3. /\ WorkOk(a, v) /\ v.done = w.done /\ v.transfers = {Current.transfer}
        /\ v.review # None => v.review.transfer = Current.transfer
    BY <1>3, <2>1, <2>2, BoundFits
  <2>4. QED
    BY <1>3, <1>4, <2>3
<1>5. CASE ~(Current # None /\ Current.target = "ADDRESS" /\ TargetOf(a) = "ADDRESS")
  <2>1. v = w
    BY <1>2, <1>5, Zenon DEF Seen
  <2>2. QED
    BY <1>3, <1>5, <2>1
<1>6. QED
  BY <1>4, <1>5

-----------------------------------------------------------------------------
(***************************************************************************)
(* The scan                                                                *)
(***************************************************************************)

\* New work is work.
LEMMA NewWorkIs ==
  ASSUME NEW r \in 0..MaxRound + 1, NEW t \in SUBSET Nat, NEW h \in Nat
  PROVE  NewWork(r, t, h) \in Works
<1>1. None \in Results /\ None \in Reviews \cup {None}
  BY DEF Results
<1>2. PICK z \in Nat : z = 0
  OBVIOUS
<1>3. PICK w : w = [round |-> r, seen |-> h, transfers |-> t, approved |-> z,
                    review |-> None, done |-> None]
  OBVIOUS
<1>4. w \in Works
  BY <1>1, <1>3 DEF Works
<1>5. w = NewWork(r, t, h)
  BY <1>2, <1>3, Zenon DEF NewWork
<1>6. QED
  BY <1>4, <1>5, Zenon

\* New work is work, for a round that is due, that has not come to an end.
LEMMA NewWorkFits ==
  ASSUME DaemonInv, NEW a \in AgentSet, NEW r \in 0..MaxRound + 1, NEW t \in SUBSET Nat,
         NEW h \in Nat, DueIn(cases, r, height), IsFiniteSet(t), t = {} => Len(cases) > 0
  PROVE  WorkOk(a, NewWork(r, t, h)) /\ NewWork(r, t, h) # None
<1>1. PICK w : w = NewWork(r, t, h)
  OBVIOUS
<1>2. /\ w.round = r /\ w.transfers = t /\ w.review = None /\ w.done = None
      /\ w = [round |-> r, seen |-> h, transfers |-> t, approved |-> 0,
              review |-> None, done |-> None]
  BY <1>1 DEF NewWork
<1>4. w \in Works
  BY <1>1, NewWorkIs
<1>5. w.done \notin {"executed", "REJECTED", "REVOKED", "different_target_type",
                     "failed_original", "already_finalized"}
  BY <1>2, NoneAssumption DEF NoneAssumption, Endings
<1>6. WorkGood(cases, height, config.target[a], w)
  BY <1>2, <1>5 DEF WorkGood
<1>7. DoneGood(cases, original.where, config.target[a], w.done)
  BY <1>5 DEF DoneGood
<1>8. w # None
  BY <1>4, NoneAssumption DEF NoneAssumption
<1>9. QED
  BY <1>1, <1>4, <1>6, <1>7, <1>8 DEF WorkOk

\* The first round is always due before there are any.
LEMMA FirstRoundIsDue ==
  ASSUME DaemonInv
  PROVE  0 \in 0..MaxRound + 1 /\ DueIn(cases, 0, height)
<1>1. 0 \in 0..MaxRound + 1
  BY BoundsAssumption DEF BoundsAssumption
<1>2. DueIn(cases, 0, height)
  BY ChainHas DEF DueIn, FreshFor
<1>3. QED
  BY <1>1, <1>2

\* The transfers in the transaction.
LEMMA TransfersAre ==
  ASSUME DaemonInv
  PROVE  Transfers \in SUBSET Nat /\ IsFiniteSet(Transfers) /\ Transfers # {}
BY ChainHas, ConfigsAssumption DEF ConfigsAssumption, Transfers

\* What a daemon sees in blocks is work that fits, and it does not miss a thing
\* (scanBlocks).
LEMMA ObservedIs ==
  ASSUME DaemonInv, NEW a \in AgentSet, NEW h, NEW w, w = Observed(a, h)
  PROVE  /\ w # None => WorkOk(a, w)
         /\ work[a] # None => w # None
         /\ original.where = "ok" /\ original.height \in cursor[a] + 1..h => w # None
<1>1. PICK blocks : blocks = cursor[a] + 1..h
  OBVIOUS
<1>2. PICK opens : opens = {r \in DOMAIN cases : cases[r].opened \in blocks}
  OBVIOUS
<1>3. PICK included \in BOOLEAN :
        included <=> original.where = "ok" /\ original.height \in blocks
  OBVIOUS
<1>4. BlockTxs(blocks) = [opens |-> opens, original |-> included]
  <2>1. PICK there : there = (original.where = "ok" /\ original.height \in blocks)
    OBVIOUS
  <2>2. there = included
    BY <1>3, <2>1
  <2>3. QED
    BY <1>2, <2>1, <2>2, Zenon DEF BlockTxs
<1>5. BlockTxs(blocks).opens = opens /\ BlockTxs(blocks).original = included
  BY <1>4
<1>6. w = IF work[a] # None THEN work[a]
          ELSE IF opens # {} /\ (included => cases[Min(opens)].opened < original.height)
          THEN NewWork(Min(opens) - 1, {}, cases[Min(opens)].opened)
          ELSE IF included THEN NewWork(0, Transfers, original.height)
          ELSE None
  BY <1>1, <1>5, Zenon DEF Observed
<1>7. CASE work[a] # None
  BY <1>6, <1>7, StoreIs
<1>8. CASE work[a] = None /\ opens # {} /\ (included => cases[Min(opens)].opened < original.height)
  <2>1. w = NewWork(Min(opens) - 1, {}, cases[Min(opens)].opened)
    BY <1>6, <1>8
  <2>2. opens \in SUBSET Nat /\ opens \subseteq 1..Len(cases)
    BY <1>2, ChainHas
  <2>3. PICK m \in 1..Len(cases) : m = Min(opens)
    BY <1>8, <2>2, MinIs
  <2>4. PICK o \in Nat : o = cases[m].opened
    <3>1. cases[m] \in Cases
      BY ChainHas
    <3>2. QED
      BY <3>1 DEF Cases
  <2>5. PICK r : r = m - 1
    OBVIOUS
  <2>6. r \in 0..MaxRound + 1 /\ r \in Nat /\ r < Len(cases) /\ Len(cases) > 0
    BY <2>3, <2>5, ChainHas, BoundsAssumption DEF BoundsAssumption
  <2>7. DueIn(cases, r, height)
    <3>1. r > 0 => RanOut(cases[r], height)
      BY <2>6, ChainHas DEF Rounds
    <3>2. QED
      BY <2>6, <3>1, ChainHas DEF DueIn, FreshFor
  <2>8. PICK t \in SUBSET Nat : t = {} /\ IsFiniteSet(t)
    BY FS_EmptySet
  <2>9. WorkOk(a, NewWork(r, t, o)) /\ NewWork(r, t, o) # None
    BY <2>4, <2>6, <2>7, <2>8, NewWorkFits
  <2>10. w = NewWork(r, t, o)
    BY <2>1, <2>3, <2>4, <2>5, <2>8, Zenon
  <2>11. QED
    BY <2>9, <2>10
<1>9. CASE work[a] = None
           /\ ~(opens # {} /\ (included => cases[Min(opens)].opened < original.height))
  <2>1. CASE included
    <3>1. w = NewWork(0, Transfers, original.height)
      BY <1>6, <1>9, <2>1
    <3>2. original.height \in Nat
      BY ChainHas
    <3>3. WorkOk(a, w) /\ w # None
      BY <3>1, <3>2, NewWorkFits, FirstRoundIsDue, TransfersAre
    <3>4. QED
      BY <1>9, <3>3
  <2>2. CASE ~included
    <3>1. w = None
      BY <1>6, <1>9, <2>2
    <3>2. QED
      BY <1>1, <1>3, <1>9, <2>2, <3>1
  <2>3. QED
    BY <2>1, <2>2
<1>10. QED
  BY <1>7, <1>8, <1>9

\* Blocks up to h are scanned, and the cursor is stored as far as c at most.
LEMMA CursorKeeps ==
  ASSUME DaemonInv, NEW a \in AgentSet, UNCHANGED <<chainVars, mempool, intents>>,
         NEW c \in Nat, c <= height, cursor' = [cursor EXCEPT ![a] = c],
         NEW w, w # None => WorkOk(a, w), work[a] # None => w # None,
         original.where = "ok" /\ original.height \in cursor[a] + 1..c => w # None,
         work' = [work EXCEPT ![a] = w]
  PROVE  DaemonInv'
<1>1. UNCHANGED <<config, height, original, cases, registry, failures>>
  BY DEF chainVars
<1>2. /\ cursor' \in [AgentSet -> Nat] /\ cursor'[a] = c
      /\ \A b \in AgentSet : b # a => cursor'[b] = cursor[b]
  BY ChainHas
<1>3. CursorInv'
  BY <1>1, <1>2, ChainHas DEF CursorInv
<1>4. work'[a] = w /\ \A b \in AgentSet : b # a => work'[b] = work[b]
  BY StoreIs
<1>5. ScannedIsStored'
  <2>1. ASSUME NEW b \in AgentSet, original.where = "ok",
               original.height \in config.start[b]..cursor'[b]
        PROVE  work'[b] # None
    <3>1. CASE b # a
      BY <1>2, <1>4, <2>1, <3>1, ChainHas DEF ScannedIsStored
    <3>2. CASE b = a
      <4>1. original.height \in Nat /\ cursor[a] \in Nat /\ config.start[a] \in Nat
        BY ChainHas, ConfigsAssumption DEF ConfigsAssumption
      <4>2. CASE original.height <= cursor[a]
        <5>1. original.height \in config.start[a]..cursor[a]
          BY <2>1, <3>2, <4>1, <4>2
        <5>2. work[a] # None
          BY <2>1, <5>1, ChainHas DEF ScannedIsStored
        <5>3. QED
          BY <1>4, <3>2, <5>2
      <4>3. CASE ~(original.height <= cursor[a])
        <5>1. original.height \in cursor[a] + 1..c
          BY <1>2, <2>1, <3>2, <4>1, <4>3
        <5>2. QED
          BY <1>4, <2>1, <3>2, <5>1
      <4>4. QED
        BY <4>2, <4>3
    <3>3. QED
      BY <3>1, <3>2
  <2>2. QED
    BY <1>1, <2>1 DEF ScannedIsStored
<1>6. PICK known : known = intents[a]
  OBVIOUS
<1>7. PlanOk(a, known) /\ (DOMAIN known # {} => w # None)
  BY <1>6, StoreIs
<1>8. intents' = [intents EXCEPT ![a] = known]
  <2>1. intents = [b \in AgentSet |-> intents[b]]
    BY DEF DaemonInv, TypeOK
  <2>2. QED
    BY <1>6, <2>1
<1>9. \A tx \in mempool' : tx \in mempool \/ \E key \in DOMAIN known : tx = known[key].tx
  OBVIOUS
<1>10. QED
  BY <1>2, <1>3, <1>5, <1>7, <1>8, <1>9, AgentKeeps

\* A scan ends at the height of the chain at the latest.
LEMMA ScanEndIs ==
  ASSUME DaemonInv, NEW a \in AgentSet
  PROVE  ScanEnd(a) \in Nat /\ ScanEnd(a) <= height
<1>1. PICK S : S = {height, cursor[a] + ScanLimit}
  OBVIOUS
<1>2. S \in SUBSET Nat /\ S # {} /\ height \in S
  BY <1>1, ChainHas, BoundsAssumption DEF BoundsAssumption
<1>3. Min(S) \in S /\ \A y \in S : Min(S) <= y
  BY <1>2, MinIs
<1>4. ScanEnd(a) = Min(S)
  BY <1>1, Zenon DEF ScanEnd
<1>5. QED
  BY <1>2, <1>3, <1>4

\* A scan, whether it comes to its end or is interrupted.
LEMMA ScanKeeps ==
  ASSUME DaemonInv, NEW a \in AgentSet, Scan(a)
  PROVE  DaemonInv'
<1>1. UNCHANGED <<chainVars, mempool, intents>> /\ cursor[a] <= height
  BY DEF Scan
<1>2. /\ cursor \in [AgentSet -> Nat] /\ cursor[a] \in Nat /\ height \in Nat
      /\ original.height \in Nat
  BY ChainHas
<1>3. CASE /\ cursor' = [cursor EXCEPT ![a] = Scanned(a, ScanEnd(a)).cursor]
           /\ work' = [work EXCEPT ![a] = Scanned(a, ScanEnd(a)).work]
  <2>1. PICK h \in Nat : h = ScanEnd(a)
    BY ScanEndIs
  <2>2. h <= height
    BY <2>1, ScanEndIs
  <2>3. PICK seen : seen = Observed(a, h)
    OBVIOUS
  <2>4. PICK w : w = IF seen = None /\ PendingTransactions # {}
                     THEN NewWork(0, Transfers, height) ELSE seen
    OBVIOUS
  <2>5. Scanned(a, h) = [cursor |-> h, work |-> w]
    BY <2>3, <2>4, Zenon DEF Scanned
  <2>6. cursor' = [cursor EXCEPT ![a] = h] /\ work' = [work EXCEPT ![a] = w]
    BY <1>3, <2>1, <2>5
  <2>7. /\ seen # None => WorkOk(a, seen)
        /\ work[a] # None => seen # None
        /\ original.where = "ok" /\ original.height \in cursor[a] + 1..h => seen # None
    BY <2>3, ObservedIs
  <2>8. WorkOk(a, NewWork(0, Transfers, height)) /\ NewWork(0, Transfers, height) # None
    BY <1>2, NewWorkFits, FirstRoundIsDue, TransfersAre
  <2>9. /\ w # None => WorkOk(a, w)
        /\ work[a] # None => w # None
        /\ original.where = "ok" /\ original.height \in cursor[a] + 1..h => w # None
    BY <2>4, <2>7, <2>8
  <2>10. QED
    BY <1>1, <2>2, <2>6, <2>9, CursorKeeps
<1>4. CASE \E h \in cursor[a] + 1..ScanEnd(a) :
             /\ cursor' = [cursor EXCEPT ![a] = ScanInterrupted(a, h).cursor]
             /\ work' = [work EXCEPT ![a] = ScanInterrupted(a, h).work]
  <2>1. PICK h \in cursor[a] + 1..ScanEnd(a) :
          /\ cursor' = [cursor EXCEPT ![a] = ScanInterrupted(a, h).cursor]
          /\ work' = [work EXCEPT ![a] = ScanInterrupted(a, h).work]
    BY <1>4
  <2>2. PICK w : w = Observed(a, h)
    OBVIOUS
  <2>3. PICK c \in Nat : c = h - 1 /\ c <= height /\ h \in Nat /\ c < h
    BY <1>2, <2>1, ScanEndIs
  <2>4. ScanInterrupted(a, h) = [cursor |-> c, work |-> w]
    BY <2>2, <2>3, Zenon DEF ScanInterrupted
  <2>5. cursor' = [cursor EXCEPT ![a] = c] /\ work' = [work EXCEPT ![a] = w]
    BY <2>1, <2>4
  <2>6. /\ w # None => WorkOk(a, w)
        /\ work[a] # None => w # None
        /\ original.where = "ok" /\ original.height \in cursor[a] + 1..h => w # None
    BY <2>2, ObservedIs
  <2>7. original.height \in cursor[a] + 1..c => original.height \in cursor[a] + 1..h
    BY <1>2, <2>3
  <2>8. c <= height
    BY <2>3
  <2>9. QED
    BY <1>1, <2>5, <2>6, <2>7, <2>8, CursorKeeps
<1>5. QED
  BY <1>3, <1>4, Zenon DEF Scan

\* Only the stage changes.
LEMMA StageKeeps ==
  ASSUME DaemonInv, UNCHANGED <<chainVars, mempool, cursor, work, intents>>
  PROVE  DaemonInv'
<1>1. /\ UNCHANGED <<config, height, original, cases, registry, failures>>
      /\ UNCHANGED <<mempool, cursor, work, intents>>
  BY DEF chainVars
<1>2. Rounds(cases', height') /\ Moves(cases, height, cases', height')
  BY <1>1, ChainHas, HeightMoves
<1>3. ScannedIsStored' /\ FailuresFit'
  BY <1>1, ChainHas DEF ScannedIsStored, FailuresFit
<1>4. QED
  BY <1>1, <1>2, <1>3, ChainHas, ChainKeeps

\* Work is stored, and neither planned nor sent.
LEMMA ProgressKeeps ==
  ASSUME DaemonInv, NEW a \in AgentSet, NEW w, WorkOk(a, w), SetWork(a, w),
         UNCHANGED <<chainVars, mempool, cursor, intents>>
  PROVE  DaemonInv'
<1>1. w # None
  BY NoneAssumption DEF NoneAssumption, WorkOk
<1>2. PICK known : known = intents[a]
  OBVIOUS
<1>3. PlanOk(a, known)
  BY <1>2, StoreIs
<1>4. intents' = [intents EXCEPT ![a] = known]
  <2>1. intents = [b \in AgentSet |-> intents[b]]
    BY DEF DaemonInv, TypeOK
  <2>2. QED
    BY <1>2, <2>1
<1>5. work' = [work EXCEPT ![a] = w]
  BY DEF SetWork
<1>6. QED
  BY <1>1, <1>3, <1>4, <1>5, StepKeeps

\* Work is stored, and intents that fit with it.
LEMMA PlanKeeps ==
  ASSUME DaemonInv, NEW a \in AgentSet, NEW w, WorkOk(a, w), SetWork(a, w),
         NEW known, PlanOk(a, known), SetIntents(a, known),
         UNCHANGED <<chainVars, mempool, cursor>>
  PROVE  DaemonInv'
<1>1. w # None
  BY NoneAssumption DEF NoneAssumption, WorkOk
<1>2. work' = [work EXCEPT ![a] = w] /\ intents' = [intents EXCEPT ![a] = known]
  BY DEF SetWork, SetIntents
<1>3. QED
  BY <1>1, <1>2, StepKeeps

-----------------------------------------------------------------------------
(***************************************************************************)
(* The tick                                                                *)
(***************************************************************************)

\* Work that ends for a good reason fits.
LEMMA EndedFits ==
  ASSUME DaemonInv, NEW a \in AgentSet, NEW v, WorkOk(a, v), NEW f \in Results,
         DoneGood(cases, original.where, config.target[a], f),
         f \in {"REJECTED", "REVOKED", "different_target_type"} => Len(cases) > 0,
         NEW w, w = [v EXCEPT !.done = f]
  PROVE  WorkOk(a, w)
<1>1. v \in Works /\ WorkGood(cases, height, config.target[a], v)
  BY DEF WorkOk
<1>2. /\ w \in Works /\ w.round = v.round /\ w.transfers = v.transfers
      /\ w.review = v.review /\ w.done = f
  BY <1>1, DoneSet
<1>3. WorkGood(cases, height, config.target[a], w)
  BY <1>1, <1>2 DEF WorkGood
<1>4. QED
  BY <1>2, <1>3 DEF WorkOk

\* A daemon that is busy has work that fits.
LEMMA BusyIs ==
  ASSUME DaemonInv, NEW a \in AgentSet, Busy(a), NEW v, v = Seen(a)
  PROVE  work[a] # None /\ WorkOk(a, v) /\ v \in Works
<1>1. work[a] # None
  BY DEF Busy
<1>2. QED
  BY <1>1, SeenIs DEF WorkOk

\* An end, for a reason that holds.
LEMMA DoneKeeps ==
  ASSUME DaemonInv, NEW a \in AgentSet, Busy(a), NEW f \in Results, Done(a, f),
         DoneGood(cases, original.where, config.target[a], f),
         f \in {"REJECTED", "REVOKED", "different_target_type"} => Len(cases) > 0
  PROVE  DaemonInv'
<1>1. PICK v, w : v = Seen(a) /\ w = [v EXCEPT !.done = f]
  OBVIOUS
<1>2. WorkOk(a, w)
  BY <1>1, BusyIs, EndedFits
<1>3. SetWork(a, w) /\ UNCHANGED <<chainVars, mempool, cursor, intents>>
  BY <1>1 DEF Done, Progressed
<1>4. QED
  BY <1>2, <1>3, ProgressKeeps

\* There is nothing to progress with.
LEMMA ProgressNothingKeeps ==
  ASSUME DaemonInv, NEW a \in AgentSet, ProgressNothing(a)
  PROVE  DaemonInv'
<1>1. /\ work' = [work EXCEPT ![a] = work[a]]
      /\ UNCHANGED <<chainVars, mempool, cursor, intents>>
  BY DEF ProgressNothing, Progressed, SetWork
<1>2. work' = work
  BY <1>1, StoreIs
<1>3. QED
  BY <1>1, <1>2, StageKeeps

\* The case is decided, or not of this kind.
LEMMA ProgressDecidedKeeps ==
  ASSUME DaemonInv, NEW a \in AgentSet, ProgressDecided(a)
  PROVE  DaemonInv'
<1>1. Busy(a) /\ Current # None
  BY DEF ProgressDecided
<1>2. /\ Current = Last /\ Len(cases) > 0 /\ Len(cases) \in 1..Len(cases)
      /\ Last = cases[Len(cases)] /\ Last.status # "EXPIRED"
  BY <1>1, CaseIs
<1>3. CASE Current.executed /\ Done(a, "executed")
  <2>1. "executed" \in Results
    BY DEF Results, Endings
  <2>2. DoneGood(cases, original.where, config.target[a], "executed")
    <3>1. \E r \in 1..Len(cases) : cases[r].executed
      BY <1>2, <1>3
    <3>2. QED
      BY <3>1 DEF DoneGood
  <2>3. QED
    BY <1>1, <1>3, <2>1, <2>2, DoneKeeps
<1>4. CASE /\ Current.status \in {"REJECTED", "REVOKED", "EXPIRED"}
           /\ Done(a, Current.status)
  <2>1. PICK f : f = Current.status
    OBVIOUS
  <2>2. f \in {"REJECTED", "REVOKED"} /\ cases[Len(cases)].status = f
    BY <1>2, <1>4, <2>1
  <2>3. f \in Results
    BY <2>2 DEF Results, Endings
  <2>4. DoneGood(cases, original.where, config.target[a], f)
    BY <2>2 DEF DoneGood
  <2>5. Done(a, f)
    BY <1>4, <2>1
  <2>6. QED
    BY <1>1, <1>2, <2>3, <2>4, <2>5, DoneKeeps
<1>5. CASE Current.target # TargetOf(a) /\ Done(a, "different_target_type")
  <2>1. "different_target_type" \in Results
    BY DEF Results, Endings
  <2>2. \A r \in 1..Len(cases) : cases[r].target # config.target[a]
    BY <1>2, <1>5, ChainHas DEF Rounds, TargetOf
  <2>3. DoneGood(cases, original.where, config.target[a], "different_target_type")
    BY <2>2 DEF DoneGood
  <2>4. QED
    BY <1>1, <1>2, <1>5, <2>1, <2>3, DoneKeeps
<1>6. QED
  BY <1>3, <1>4, <1>5 DEF ProgressDecided

\* There is no case, and none can be opened.
LEMMA ProgressWithoutCaseKeeps ==
  ASSUME DaemonInv, NEW a \in AgentSet, ProgressWithoutCase(a)
  PROVE  DaemonInv'
<1>1. Busy(a)
  BY DEF ProgressWithoutCase
<1>2. CASE Progressed(a, Seen(a)) /\ UNCHANGED intents
  <2>1. PICK v : v = Seen(a)
    OBVIOUS
  <2>2. WorkOk(a, v)
    BY <1>1, <2>1, BusyIs
  <2>3. SetWork(a, v) /\ UNCHANGED <<chainVars, mempool, cursor, intents>>
    BY <1>2, <2>1 DEF Progressed
  <2>4. QED
    BY <2>2, <2>3, ProgressKeeps
<1>3. CASE original.where = "failed" /\ Done(a, "failed_original")
  <2>1. "failed_original" \in Results
    BY DEF Results, Endings
  <2>2. DoneGood(cases, original.where, config.target[a], "failed_original")
    BY <1>3 DEF DoneGood
  <2>3. QED
    BY <1>1, <1>3, <2>1, <2>2, DoneKeeps
<1>4. CASE original.where = "ok" /\ Done(a, "already_finalized")
  <2>1. "already_finalized" \in Results
    BY DEF Results, Endings
  <2>2. DoneGood(cases, original.where, config.target[a], "already_finalized")
    BY <1>4 DEF DoneGood
  <2>3. QED
    BY <1>1, <1>4, <2>1, <2>2, DoneKeeps
<1>5. QED
  <2>1. original.where \in {"pending", "ok", "failed"}
    BY ChainHas
  <2>2. \/ Progressed(a, Seen(a)) /\ UNCHANGED intents
        \/ /\ original.where # "pending"
           /\ Done(a, IF original.where = "failed" THEN "failed_original"
                      ELSE "already_finalized")
    BY Zenon DEF ProgressWithoutCase
  <2>3. original.where = "failed" =>
          \/ Progressed(a, Seen(a)) /\ UNCHANGED intents
          \/ Done(a, "failed_original")
    BY <2>2
  <2>4. original.where = "ok" =>
          \/ Progressed(a, Seen(a)) /\ UNCHANGED intents
          \/ Done(a, "already_finalized")
    BY <2>2
  <2>5. original.where = "pending" => Progressed(a, Seen(a)) /\ UNCHANGED intents
    BY <2>2
  <2>6. QED
    BY <1>2, <1>3, <1>4, <2>1, <2>3, <2>4, <2>5

\* A review that is stored (a step of processWork) is the chain's answer to its own
\* report, and new enough for the round that is due.
LEMMA EvaluatedFits ==
  ASSUME DaemonInv, NEW a \in AgentSet, NEW w, WorkOk(a, w), w.transfers # {},
         NEW review \in Review(a, w.transfers) \ {Failed},
         NEW v, v = Evaluated(a, w, review)
  PROVE  /\ WorkOk(a, v) /\ v.round = w.round /\ v.review \in Reviews
         /\ v.review.action = review.action /\ v.review.observed = height
         /\ v.review.transfer \in w.transfers
<1>1. w \in Works /\ WorkGood(cases, height, config.target[a], w)
  BY DEF WorkOk
<1>2. w.transfers \in SUBSET Nat /\ IsFiniteSet(w.transfers)
  BY <1>1, WorkHas DEF WorkGood
<1>3. PICK T \in SUBSET Nat : T = w.transfers
  BY <1>2
<1>4. /\ review.transfer \in T
      /\ review.score \in Nat /\ review.categories \in SUBSET STRING
      /\ review.action \in SanctionActions \cup {NoAction}
      /\ review.action = Action(review.score, review.categories, TargetOf(a))
  BY <1>2, <1>3, ReviewIs
<1>5. height \in Nat /\ height + config.ttl \in Nat
  BY ChainHas, ConfigsAssumption DEF ConfigsAssumption, DaemonInv, TypeOK
<1>6. PICK report : report = [score |-> review.score, categories |-> review.categories]
  OBVIOUS
<1>7. report \in Evidence
  BY <1>4, <1>6 DEF Evidence
<1>8. PICK e \in Nat : e = height + config.ttl
  BY <1>5
<1>9. PICK x : x = [transfer |-> review.transfer, action |-> review.action,
                    report |-> report, observed |-> height, expiry |-> e]
  OBVIOUS
<1>10. x \in Reviews
  BY <1>3, <1>4, <1>5, <1>7, <1>9 DEF Reviews
<1>11. v = [w EXCEPT !.review = x]
  BY <1>6, <1>8, <1>9, Zenon DEF Evaluated
<1>12. /\ v \in Works /\ v.round = w.round /\ v.transfers = w.transfers
       /\ v.review = x /\ v.done = w.done
  BY <1>1, <1>10, <1>11, ReviewSet
<1>13. x.action = ComputePolicyAction({x.report}, Thresholds, config.target[a])
  <2>1. report.score = review.score /\ report.categories = review.categories
    BY <1>6
  <2>2. Action(report.score, report.categories, config.target[a]) =
          ComputePolicyAction({report}, Thresholds, config.target[a])
    BY <1>7, PoliciesAgree
  <2>3. x.action = review.action /\ x.report = report
    BY <1>9
  <2>4. QED
    BY <1>4, <2>1, <2>2, <2>3, Zenon DEF TargetOf
<1>14. FreshFor(cases, v.round, x.observed)
  <2>1. x.observed = height /\ DueIn(cases, w.round, height)
    BY <1>1, <1>9 DEF WorkGood
  <2>2. QED
    BY <1>12, <2>1, DueIsFresh
<1>15. WorkGood(cases, height, config.target[a], v)
  <2>1. /\ DueIn(cases, v.round, height) /\ IsFiniteSet(v.transfers)
        /\ v.transfers = {} \/ v.done \in {"REJECTED", "REVOKED", "different_target_type"}
             => Len(cases) > 0
    BY <1>1, <1>12, Zenon DEF WorkGood
  <2>2. QED
    BY <1>12, <1>13, <1>14, <2>1, Zenon DEF WorkGood
<1>16. x.action = review.action /\ x.observed = height /\ x.transfer \in w.transfers
  BY <1>3, <1>4, <1>9
<1>17. DoneGood(cases, original.where, config.target[a], v.done)
  BY <1>12 DEF WorkOk
<1>18. QED
  BY <1>10, <1>12, <1>15, <1>16, <1>17 DEF WorkOk

\* Work whose transfers are known.
LEMMA KnownFits ==
  ASSUME DaemonInv, NEW a \in AgentSet, NEW v, WorkOk(a, v),
         NEW T \in SUBSET Nat, T # {}, IsFiniteSet(T),
         NEW w, w = [v EXCEPT !.transfers = T]
  PROVE  WorkOk(a, w) /\ w.transfers = T /\ w.round = v.round
<1>1. v \in Works /\ WorkGood(cases, height, config.target[a], v)
  BY DEF WorkOk
<1>2. /\ w \in Works /\ w.round = v.round /\ w.transfers = T
      /\ w.review = v.review /\ w.done = v.done
  BY <1>1, TransfersSet
<1>3. WorkGood(cases, height, config.target[a], w)
  BY <1>1, <1>2, Zenon DEF WorkGood
<1>4. QED
  BY <1>2, <1>3 DEF WorkOk

\* The transfers that a busy daemon reviews.
LEMMA KnownIs ==
  ASSUME DaemonInv, NEW a \in AgentSet, Busy(a), NEW v, v = Seen(a)
  PROVE  /\ KnownTransfers(v) \in SUBSET Nat /\ KnownTransfers(v) # {}
         /\ IsFiniteSet(KnownTransfers(v))
<1>1. work[a] # None /\ WorkOk(a, v) /\ v \in Works
  BY BusyIs
<1>2. CASE v.transfers = {} /\ Current # None
  <2>1. KnownTransfers(v) = {Current.transfer}
    BY <1>2 DEF KnownTransfers
  <2>2. Current.transfer \in Nat
    <3>1. Current \in Cases
      BY <1>2, CaseIs
    <3>2. QED
      BY <3>1 DEF Cases
  <2>3. QED
    BY <2>1, <2>2, FS_Singleton
<1>3. CASE ~(v.transfers = {} /\ Current # None)
  <2>1. KnownTransfers(v) = v.transfers
    BY <1>3 DEF KnownTransfers
  <2>2. v.transfers \in SUBSET Nat /\ IsFiniteSet(v.transfers)
    BY <1>1, WorkHas DEF WorkOk, WorkGood
  <2>3. v.transfers # {}
    <3>1. ASSUME v.transfers = {} PROVE FALSE
      <4>1. Len(cases) > 0
        BY <1>1, <3>1 DEF WorkOk, WorkGood
      <4>2. ~Recovering /\ cases # <<>>
        BY <1>1, <3>1, <4>1, SeenIs, ChainHas, LastIs
      <4>3. Current = Last /\ Last \in Cases
        BY <4>2, CaseIs, Zenon DEF Current
      <4>4. Last # None
        BY <4>3, NoneAssumption DEF NoneAssumption
      <4>5. QED
        BY <1>3, <3>1, <4>3, <4>4
    <3>2. QED
      BY <3>1
  <2>4. QED
    BY <2>1, <2>2, <2>3
<1>4. QED
  BY <1>2, <1>3

\* A review is stored, or none is reached.
LEMMA EvaluateKeeps ==
  ASSUME DaemonInv, NEW a \in AgentSet, Evaluate(a)
  PROVE  DaemonInv'
<1>1. Busy(a) /\ UNCHANGED <<chainVars, mempool, cursor, ready, intents>>
  BY DEF Evaluate
<1>2. PICK v : v = Seen(a)
  OBVIOUS
<1>3. PICK T \in SUBSET Nat : T = KnownTransfers(v)
  BY <1>1, <1>2, KnownIs
<1>4. PICK w : w = [v EXCEPT !.transfers = T]
  OBVIOUS
<1>5. WorkOk(a, v) /\ T # {} /\ IsFiniteSet(T)
  BY <1>1, <1>2, <1>3, BusyIs, KnownIs
<1>6. WorkOk(a, w) /\ w.transfers = T
  BY <1>4, <1>5, KnownFits
<1>7. CASE UNCHANGED work
  BY <1>1, <1>7, StageKeeps
<1>8. CASE \E review \in Review(a, w.transfers) \ {Failed} :
             SetWork(a, Evaluated(a, w, review))
  <2>1. PICK review \in Review(a, w.transfers) \ {Failed} :
          SetWork(a, Evaluated(a, w, review))
    BY <1>8
  <2>2. PICK d : d = Evaluated(a, w, review)
    OBVIOUS
  <2>3. WorkOk(a, d)
    BY <1>5, <1>6, <2>2, EvaluatedFits
  <2>4. SetWork(a, d)
    BY <2>1, <2>2
  <2>5. QED
    BY <1>1, <2>3, <2>4, ProgressKeeps
<1>9. QED
  BY <1>2, <1>3, <1>4, <1>7, <1>8, Zenon DEF Evaluate

\* Nothing is to be sanctioned.
LEMMA ProgressNoActionKeeps ==
  ASSUME DaemonInv, NEW a \in AgentSet, ProgressNoAction(a)
  PROVE  DaemonInv'
<1>1. Busy(a) /\ Done(a, "no_action")
  BY DEF ProgressNoAction, Reviewed
<1>2. "no_action" \in Results
  BY DEF Results, Endings
<1>3. DoneGood(cases, original.where, config.target[a], "no_action")
  BY DEF DoneGood
<1>4. QED
  BY <1>1, <1>2, <1>3, DoneKeeps

-----------------------------------------------------------------------------
(***************************************************************************)
(* What a daemon plans to send                                             *)
(***************************************************************************)

\* A round that there may be is one that messages and intents can name.
LEMMA NamedRound ==
  ASSUME DaemonInv, NEW r \in Nat, r < Len(cases)
  PROVE  r \in 0..MaxRound
<1>1. Len(cases) <= MaxRound + 1 /\ MaxRound \in Nat /\ Len(cases) \in Nat
  BY ChainHas, BoundsAssumption DEF BoundsAssumption, DaemonInv, TypeOK
<1>2. QED
  BY <1>1

\* An opening that is queued, with any number of attempts.
LEMMA OpenIs ==
  ASSUME DaemonInv, NEW a \in AgentSet, NEW w, WorkOk(a, w),
         w.review \in Reviews, w.review # None, w.round \in 0..MaxRound, NEW n \in Nat,
         NEW m, m = [from |-> a, kind |-> "open", round |-> w.round, target |-> TargetOf(a),
                     action |-> w.review.action, transfer |-> w.review.transfer,
                     report |-> w.review.report, observed |-> w.review.observed,
                     expiry |-> w.review.expiry, attempt |-> n]
  PROVE  /\ m \in Messages /\ m.from = a /\ m.kind = "open" /\ m.round = w.round
         /\ m.attempt = n
         /\ TxGood(cases, height, config.target, m)
<1>1. PICK v \in Reviews : v = w.review
  OBVIOUS
<1>2. /\ v.action \in SanctionActions \cup {NoAction} /\ v.transfer \in Nat
      /\ v.report \in Evidence /\ v.observed \in Nat /\ v.expiry \in Nat
  BY DEF Reviews
<1>3. PICK t \in TargetTypes : t = TargetOf(a)
  BY ConfigsAssumption DEF ConfigsAssumption, TargetOf, DaemonInv, TypeOK
<1>4. PICK r \in 0..MaxRound : r = w.round
  OBVIOUS
<1>5. m = [from |-> a, kind |-> "open", round |-> r, target |-> t,
           action |-> v.action, transfer |-> v.transfer,
           report |-> v.report, observed |-> v.observed,
           expiry |-> v.expiry, attempt |-> n]
  BY <1>1, <1>3, <1>4
<1>6. m \in Messages
  BY <1>2, <1>5, <1>4, <1>3 DEF Messages
<1>7. /\ m.from = a /\ m.kind = "open" /\ m.round = w.round /\ m.attempt = n
      /\ m.target = config.target[a] /\ m.action = v.action /\ m.report = v.report
  BY <1>3, <1>4, <1>5 DEF TargetOf
<1>8. v.action = ComputePolicyAction({v.report}, Thresholds, config.target[a])
  BY <1>1 DEF WorkOk, WorkGood
<1>9. m.action = ComputePolicyAction({m.report}, Thresholds, m.target)
  BY <1>7, <1>8, Zenon
<1>10. DueIn(cases, m.round, height)
  BY <1>7 DEF WorkOk, WorkGood
<1>11. m.target = config.target[m.from] /\ m.kind # "vote"
  BY <1>7
<1>12. TxGood(cases, height, config.target, m)
  BY <1>7, <1>9, <1>10, <1>11 DEF TxGood
<1>13. QED
  BY <1>6, <1>7, <1>12

\* A vote that is queued, with a review made for the round.
LEMMA VoteIs ==
  ASSUME DaemonInv, NEW a \in AgentSet, NEW w, WorkOk(a, w),
         w.review \in Reviews, FreshFor(cases, w.round, w.review.observed),
         w.round < Len(cases),
         Last.target = "ADDRESS" => w.review.transfer = Last.transfer,
         NEW n \in Nat, NEW o \in {"approve", "reject"},
         NEW m, m = [from |-> a, kind |-> "vote", round |-> w.round,
                     observed |-> w.review.observed, transfer |-> w.review.transfer,
                     attempt |-> n, option |-> o]
  PROVE  /\ m \in Messages /\ m.from = a /\ m.kind = "vote" /\ m.round = w.round
         /\ m.attempt = n
         /\ TxGood(cases, height, config.target, m)
<1>1. PICK v \in Reviews : v = w.review
  OBVIOUS
<1>2. v.transfer \in Nat /\ v.observed \in Nat
  BY DEF Reviews
<1>3. w.round \in Nat
  BY WorkHas DEF WorkOk
<1>4. PICK r \in 0..MaxRound : r = w.round
  BY <1>3, NamedRound
<1>5. m = [from |-> a, kind |-> "vote", round |-> r, observed |-> v.observed,
           transfer |-> v.transfer, attempt |-> n, option |-> o]
  BY <1>1, <1>4
<1>6. m \in Messages
  BY <1>2, <1>5, <1>4 DEF Messages
<1>7. /\ m.from = a /\ m.kind = "vote" /\ m.round = w.round /\ m.attempt = n
      /\ m.observed = w.review.observed /\ m.transfer = w.review.transfer
  BY <1>5, <1>4, <1>1
<1>8. DueIn(cases, m.round, height)
  BY <1>7 DEF WorkOk, WorkGood
<1>9. Last = cases[Len(cases)]
  BY ChainHas, LastIs
<1>10. TxGood(cases, height, config.target, m)
  BY <1>7, <1>8, <1>9 DEF TxGood
<1>11. QED
  BY <1>6, <1>7, <1>10

\* An execution that is queued.
LEMMA ExecuteIs ==
  ASSUME DaemonInv, NEW a \in AgentSet, NEW r \in Nat, DueIn(cases, r, height),
         r < Len(cases), NEW n \in Nat,
         NEW m, m = [from |-> a, kind |-> "execute", round |-> r, attempt |-> n]
  PROVE  /\ m \in Messages /\ m.from = a /\ m.kind = "execute" /\ m.round = r
         /\ m.attempt = n
         /\ TxGood(cases, height, config.target, m)
<1>1. r \in 0..MaxRound
  BY NamedRound
<1>2. /\ m \in Messages /\ m.from = a /\ m.kind = "execute" /\ m.round = r
      /\ m.attempt = n
  BY <1>1 DEF Messages
<1>3. TxGood(cases, height, config.target, m)
  BY <1>2 DEF TxGood
<1>4. QED
  BY <1>2, <1>3

\* An intent that is queued is one.
LEMMA QueuedIs ==
  ASSUME NEW tx \in Messages
  PROVE  Queued(tx) \in Intents /\ Queued(tx).tx = tx
<1>1. None \in Reasons \cup {None}
  OBVIOUS
<1>2. QED
  BY <1>1 DEF Queued, Intents

\* A message that may be planned under a key.
Plannable(a, key, tx) ==
  /\ key \in Keys /\ tx \in Messages
  /\ tx.from = a /\ tx.kind = key[1] /\ tx.round = key[2]
  /\ TxGood(cases, height, config.target, tx)

\* An intent is put under its key (enqueue), or in the place of another one.
LEMMA QueuedFits ==
  ASSUME NEW a, NEW known, PlanOk(a, known), NEW key, NEW tx, Plannable(a, key, tx),
         NEW new, \/ new = Enqueued(known, key, tx)
                  \/ key \in DOMAIN known /\ new = [known EXCEPT ![key] = Queued(tx)]
  PROVE  PlanOk(a, new)
<1>1. PICK i \in Intents : i = Queued(tx) /\ i.tx = tx
  BY QueuedIs DEF Plannable
<1>2. DOMAIN known \subseteq Keys /\ \A k \in DOMAIN known : known[k] \in Intents
  BY DEF PlanOk
<1>3. /\ DOMAIN new \subseteq DOMAIN known \cup {key}
      /\ new = [k \in DOMAIN new |-> new[k]]
      /\ \A k \in DOMAIN new :
           (new[k] = i /\ k = key) \/ (k \in DOMAIN known /\ new[k] = known[k])
  <2>1. CASE new = Enqueued(known, key, tx)
    <3>1. new = [k \in DOMAIN known \cup {key} |-> IF k \in DOMAIN known THEN known[k] ELSE i]
      BY <1>1, <2>1, Zenon DEF Enqueued
    <3>2. QED
      BY <3>1
  <2>2. CASE key \in DOMAIN known /\ new = [known EXCEPT ![key] = Queued(tx)]
    <3>1. new = [known EXCEPT ![key] = i]
      BY <1>1, <2>2, Zenon
    <3>2. known = [k \in DOMAIN known |-> known[k]]
      BY DEF PlanOk
    <3>3. QED
      BY <2>2, <3>1, <3>2
  <2>3. QED
    BY <2>1, <2>2
<1>4. \A k \in DOMAIN new : new[k] \in Intents
  BY <1>2, <1>3
<1>5. DOMAIN new \subseteq Keys /\ new \in [DOMAIN new -> Intents]
  BY <1>2, <1>3, <1>4 DEF Plannable
<1>6. ASSUME NEW k \in DOMAIN new
      PROVE  /\ new[k].tx.from = a
             /\ new[k].tx.kind = k[1]
             /\ new[k].tx.round = k[2]
             /\ TxGood(cases, height, config.target, new[k].tx)
  <2>1. CASE new[k] = i /\ k = key
    BY <1>1, <2>1 DEF Plannable
  <2>2. CASE k \in DOMAIN known /\ new[k] = known[k]
    BY <2>2 DEF PlanOk
  <2>3. QED
    BY <1>3, <2>1, <2>2
<1>7. QED
  BY <1>5, <1>6 DEF PlanOk

\* A busy daemon that has a valid review.
LEMMA ReviewedIs ==
  ASSUME DaemonInv, NEW a \in AgentSet, Reviewed(a), NEW v, v = Seen(a)
  PROVE  /\ Busy(a) /\ work[a] # None /\ WorkOk(a, v) /\ v \in Works
         /\ v.review \in Reviews /\ v.review # None
<1>1. Busy(a) /\ ~Stale(v.review)
  BY DEF Reviewed
<1>2. work[a] # None /\ WorkOk(a, v) /\ v \in Works
  BY <1>1, BusyIs
<1>3. v.review # None
  BY <1>1 DEF Stale
<1>4. QED
  BY <1>1, <1>2, <1>3, WorkHas

\* An opening is queued, or waits for the daemon's turn.
LEMMA ProgressOpenKeeps ==
  ASSUME DaemonInv, NEW a \in AgentSet, ProgressOpen(a)
  PROVE  DaemonInv'
<1>1. PICK w : w = Seen(a)
  OBVIOUS
<1>2. PICK key : key = <<"open", w.round>>
  OBVIOUS
<1>3. PICK tx : tx = OpenMessages(a, w)
  OBVIOUS
<1>4. PICK known : known = intents[a]
  OBVIOUS
<1>5. Reviewed(a) /\ w.round <= MaxRound
  BY <1>1 DEF ProgressOpen
<1>6. /\ WorkOk(a, w) /\ w \in Works /\ w.review \in Reviews /\ w.review # None
      /\ w.round \in 0..MaxRound
  BY <1>1, <1>5, ReviewedIs, WorkHas, BoundsAssumption DEF BoundsAssumption
<1>7. Plannable(a, key, tx)
  <2>1. PICK n \in Nat : n = 1
    OBVIOUS
  <2>2. tx = [from |-> a, kind |-> "open", round |-> w.round, target |-> TargetOf(a),
              action |-> w.review.action, transfer |-> w.review.transfer,
              report |-> w.review.report, observed |-> w.review.observed,
              expiry |-> w.review.expiry, attempt |-> n]
    BY <1>3, <2>1, Zenon DEF OpenMessages
  <2>3. /\ tx \in Messages /\ tx.from = a /\ tx.kind = "open" /\ tx.round = w.round
        /\ TxGood(cases, height, config.target, tx)
    BY <1>6, <2>2, OpenIs
  <2>4. key \in Keys /\ key[1] = "open" /\ key[2] = w.round
    BY <1>2, <1>6 DEF Keys
  <2>5. QED
    BY <2>3, <2>4 DEF Plannable
<1>8. PlanOk(a, known)
  BY <1>4, StoreIs
<1>9. SetWork(a, w) /\ UNCHANGED <<chainVars, mempool, cursor>>
  BY <1>1 DEF ProgressOpen, Progressed
<1>10. \/ UNCHANGED intents
       \/ SetIntents(a, Enqueued(known, key, tx))
       \/ key \in DOMAIN known /\ SetIntents(a, [known EXCEPT ![key] = Queued(tx)])
  BY <1>1, <1>2, <1>3, <1>4, Zenon DEF ProgressOpen
<1>11. CASE UNCHANGED intents
  BY <1>6, <1>9, <1>11, ProgressKeeps
<1>12. ASSUME NEW new, \/ new = Enqueued(known, key, tx)
                       \/ key \in DOMAIN known /\ new = [known EXCEPT ![key] = Queued(tx)],
              SetIntents(a, new)
       PROVE  DaemonInv'
  <2>1. PlanOk(a, new)
    BY <1>7, <1>8, <1>12, QueuedFits
  <2>2. QED
    BY <1>6, <1>9, <1>12, <2>1, PlanKeeps
<1>13. QED
  BY <1>10, <1>11, <1>12

\* There is a case to vote on or to execute, and a review for its round.
LEMMA VotableIs ==
  ASSUME DaemonInv, NEW a \in AgentSet, Reviewed(a), Votable(a), NEW v, v = Seen(a)
  PROVE  /\ Current = Last /\ Len(cases) > 0
         /\ v.round \in Nat /\ v.round < Len(cases)
         /\ DueIn(cases, v.round, height)
         /\ FreshFor(cases, v.round, v.review.observed)
         /\ Last.target = "ADDRESS" => v.review.transfer = Last.transfer
<1>1. Current # None /\ ~Final(Current) /\ Current.target = TargetOf(a)
  BY DEF Votable
<1>2. /\ Current = Last /\ Len(cases) > 0 /\ Last = cases[Len(cases)] /\ ~Recovering
  BY <1>1, CaseIs
<1>3. /\ work[a] # None /\ WorkOk(a, v) /\ v \in Works /\ v.review # None
  BY ReviewedIs
<1>4. v.round \in Nat /\ DueIn(cases, v.round, height)
  BY <1>3, WorkHas DEF WorkOk, WorkGood
<1>5. v.round # Len(cases)
  BY <1>1, <1>2, <1>4, CaseIs DEF DueIn
<1>6. v.round < Len(cases)
  BY <1>4, <1>5, ChainHas DEF DueIn
<1>7. FreshFor(cases, v.round, v.review.observed)
  BY <1>1, <1>2, <1>3 DEF WorkOk, WorkGood
<1>8. Last.target = "ADDRESS" => v.review.transfer = Last.transfer
  BY <1>1, <1>2, <1>3, SeenIs
<1>9. QED
  BY <1>2, <1>4, <1>6, <1>7, <1>8

\* A vote and an execution are queued, or neither.
LEMMA ProgressCaseKeeps ==
  ASSUME DaemonInv, NEW a \in AgentSet, ProgressCase(a)
  PROVE  DaemonInv'
<1>1. PICK seen : seen = Seen(a)
  OBVIOUS
<1>2. Reviewed(a) /\ Votable(a)
  BY DEF ProgressCase
<1>3. PICK r : r = seen.round
  OBVIOUS
<1>4. /\ WorkOk(a, seen) /\ seen \in Works /\ seen.review \in Reviews /\ seen.review # None
  BY <1>1, <1>2, ReviewedIs
<1>5. /\ Current = Last /\ r \in Nat /\ r < Len(cases) /\ DueIn(cases, r, height)
      /\ FreshFor(cases, r, seen.review.observed)
      /\ Last.target = "ADDRESS" => seen.review.transfer = Last.transfer
  BY <1>1, <1>2, <1>3, VotableIs
<1>6. PICK n \in Nat : n = height
  BY ChainHas
<1>7. PICK late : late = [seen EXCEPT !.approved = n]
  OBVIOUS
<1>8. WorkOk(a, late) /\ late.round = r /\ late.review = seen.review
  <2>1. /\ late \in Works /\ late.round = seen.round /\ late.transfers = seen.transfers
        /\ late.review = seen.review /\ late.done = seen.done
    BY <1>4, <1>7, ApprovedSet
  <2>2. WorkGood(cases, height, config.target[a], late)
    <3>1. DueIn(cases, late.round, height)
      BY <1>3, <1>5, <2>1
    <3>2. QED
      BY <1>4, <2>1, <3>1, RoundFits DEF WorkOk
  <2>3. QED
    BY <1>3, <1>4, <2>1, <2>2 DEF WorkOk
<1>9. PICK w : w = IF MayExecute(seen, Current) /\ seen.approved = 0
                   THEN [seen EXCEPT !.approved = height] ELSE seen
  OBVIOUS
<1>10. w = seen \/ w = late
  BY <1>6, <1>7, <1>9, Zenon
<1>11. WorkOk(a, w) /\ w.round = r /\ w.review = seen.review
  BY <1>3, <1>4, <1>8, <1>10
<1>12. PICK known : known = intents[a]
  OBVIOUS
<1>13. PlanOk(a, known)
  BY <1>12, StoreIs
<1>14. r \in 0..MaxRound
  BY <1>5, NamedRound
<1>15. PICK voted : voted = IF MayVote(a, Current)
                            THEN Enqueued(known, <<"vote", r>>, VoteMessage(a, w)) ELSE known
  OBVIOUS
<1>16. PlanOk(a, voted)
  <2>1. CASE voted = known
    BY <1>13, <2>1
  <2>2. CASE voted = Enqueued(known, <<"vote", r>>, VoteMessage(a, w))
    <3>1. PICK key : key = <<"vote", r>>
      OBVIOUS
    <3>2. PICK tx : tx = VoteMessage(a, w)
      OBVIOUS
    <3>3. PICK n1 \in Nat : n1 = 1
      OBVIOUS
    <3>4. PICK o \in {"approve", "reject"} :
            o = IF w.review.action = Current.action THEN "approve" ELSE "reject"
      OBVIOUS
    <3>5. tx = [from |-> a, kind |-> "vote", round |-> w.round,
                observed |-> w.review.observed, transfer |-> w.review.transfer,
                attempt |-> n1, option |-> o]
      BY <3>2, <3>3, <3>4, Zenon DEF VoteMessage
    <3>6. /\ w.review \in Reviews /\ FreshFor(cases, w.round, w.review.observed)
          /\ w.round < Len(cases)
          /\ Last.target = "ADDRESS" => w.review.transfer = Last.transfer
      BY <1>4, <1>5, <1>11
    <3>7. /\ tx \in Messages /\ tx.from = a /\ tx.kind = "vote" /\ tx.round = w.round
          /\ TxGood(cases, height, config.target, tx)
      BY <1>11, <3>5, <3>6, VoteIs
    <3>8. key \in Keys /\ key[1] = "vote" /\ key[2] = r
      BY <1>14, <3>1 DEF Keys
    <3>9. Plannable(a, key, tx)
      BY <1>11, <3>7, <3>8 DEF Plannable
    <3>10. voted = Enqueued(known, key, tx)
      BY <2>2, <3>1, <3>2
    <3>11. QED
      BY <1>13, <3>9, <3>10, QueuedFits
  <2>3. QED
    BY <1>15, <2>1, <2>2
<1>17. PICK new : new = IF MayExecute(seen, Current) /\ height >= w.approved + 2 * Rank(a)
                        THEN Enqueued(voted, <<"execute", r>>, ExecuteMessage(a, r))
                        ELSE voted
  OBVIOUS
<1>18. PlanOk(a, new)
  <2>1. CASE new = voted
    BY <1>16, <2>1
  <2>2. CASE new = Enqueued(voted, <<"execute", r>>, ExecuteMessage(a, r))
    <3>1. PICK key : key = <<"execute", r>>
      OBVIOUS
    <3>2. PICK tx : tx = ExecuteMessage(a, r)
      OBVIOUS
    <3>3. PICK n1 \in Nat : n1 = 1
      OBVIOUS
    <3>4. tx = [from |-> a, kind |-> "execute", round |-> r, attempt |-> n1]
      BY <3>2, <3>3, Zenon DEF ExecuteMessage
    <3>5. /\ tx \in Messages /\ tx.from = a /\ tx.kind = "execute" /\ tx.round = r
          /\ TxGood(cases, height, config.target, tx)
      BY <1>5, <3>4, ExecuteIs
    <3>6. key \in Keys /\ key[1] = "execute" /\ key[2] = r
      BY <1>14, <3>1 DEF Keys
    <3>7. Plannable(a, key, tx)
      BY <3>5, <3>6 DEF Plannable
    <3>8. new = Enqueued(voted, key, tx)
      BY <2>2, <3>1, <3>2
    <3>9. QED
      BY <1>16, <3>7, <3>8, QueuedFits
  <2>3. QED
    BY <1>17, <2>1, <2>2
<1>19. SetWork(a, w) /\ SetIntents(a, new) /\ UNCHANGED <<chainVars, mempool, cursor>>
  BY <1>1, <1>3, <1>9, <1>12, <1>15, <1>17, Zenon DEF ProgressCase, Progressed
<1>20. QED
  BY <1>11, <1>18, <1>19, PlanKeeps

-----------------------------------------------------------------------------
(***************************************************************************)
(* Sending                                                                 *)
(***************************************************************************)

\* An intent with another status.
LEMMA StatusSet ==
  ASSUME NEW i \in Intents,
         NEW s \in {"queued", "pending", "failed", "satisfied", "cancelled"},
         NEW d, d = [i EXCEPT !.status = s]
  PROVE  d \in Intents /\ d.tx = i.tx /\ d.status = s
BY DEF Intents

\* An intent that Step has handled is one, for the same message.
LEMMA HandledIs ==
  ASSUME DaemonInv, NEW a \in AgentSet, NEW key \in DOMAIN intents[a]
  PROVE  /\ Handled(a, key) \in Intents
         /\ Handled(a, key).tx = intents[a][key].tx
<1>1. intents[a][key] \in Intents
  BY StoreIs DEF PlanOk
<1>2. PICK i \in Intents : i = intents[a][key]
  BY <1>1
<1>3. PICK h : h = Handled(a, key)
  OBVIOUS
<1>4. \/ h = [i EXCEPT !.status = Settled(a, key)]
      \/ h = i
      \/ /\ i.tx \in DOMAIN failures
         /\ h = [i EXCEPT !.status = "failed", !.reason = failures[i.tx]]
      \/ h = [i EXCEPT !.status = "pending"]
  BY <1>2, <1>3, Zenon DEF Handled
<1>5. CASE h = [i EXCEPT !.status = Settled(a, key)]
  <2>1. PICK s \in {"satisfied", "cancelled"} : s = Settled(a, key)
    BY DEF Settled
  <2>2. h = [i EXCEPT !.status = s]
    BY <1>5, <2>1
  <2>3. s \in {"queued", "pending", "failed", "satisfied", "cancelled"}
    OBVIOUS
  <2>4. h \in Intents /\ h.tx = i.tx
    BY <2>2, <2>3, StatusSet
  <2>5. QED
    BY <1>2, <1>3, <2>4
<1>6. CASE h = i
  BY <1>2, <1>3, <1>6
<1>7. CASE /\ i.tx \in DOMAIN failures
           /\ h = [i EXCEPT !.status = "failed", !.reason = failures[i.tx]]
  <2>1. PICK f \in Reasons : f = failures[i.tx]
    BY <1>7 DEF DaemonInv, TypeOK
  <2>2. PICK d : d = [i EXCEPT !.status = "failed"]
    OBVIOUS
  <2>3. d \in Intents /\ d.tx = i.tx
    BY <2>2, StatusSet
  <2>4. h = [d EXCEPT !.reason = f]
    BY <1>7, <2>1, <2>2, Zenon
  <2>5. h \in Intents /\ h.tx = d.tx
    BY <2>3, <2>4 DEF Intents
  <2>6. QED
    BY <1>2, <1>3, <2>3, <2>5
<1>8. CASE h = [i EXCEPT !.status = "pending"]
  <2>1. h \in Intents /\ h.tx = i.tx
    BY <1>8, StatusSet
  <2>2. QED
    BY <1>2, <1>3, <2>1
<1>9. QED
  BY <1>4, <1>5, <1>6, <1>7, <1>8

\* Plans whose intents have changed in everything but their messages.
LEMMA SamePlan ==
  ASSUME NEW a, NEW known, PlanOk(a, known),
         NEW new, new = [key \in DOMAIN known |-> new[key]],
         \A key \in DOMAIN known : new[key] \in Intents /\ new[key].tx = known[key].tx
  PROVE  PlanOk(a, new) /\ DOMAIN new = DOMAIN known
<1>1. DOMAIN new = DOMAIN known
  OBVIOUS
<1>2. DOMAIN new \subseteq Keys /\ new \in [DOMAIN new -> Intents]
  BY <1>1 DEF PlanOk
<1>3. QED
  BY <1>1, <1>2 DEF PlanOk

\* An attempt to send (stepOwned), whatever it finds.
LEMMA SendKeeps ==
  ASSUME DaemonInv, NEW a \in AgentSet, Step(a)
  PROVE  DaemonInv'
<1>1. PICK known : known = intents[a]
  OBVIOUS
<1>2. UNCHANGED <<chainVars, cursor, work>>
  BY DEF Step
<1>3. PICK new : new = [key \in DOMAIN known |->
                          IF Reached(a, key) THEN Handled(a, key) ELSE known[key]]
  OBVIOUS
<1>4. intents' = [intents EXCEPT ![a] = new]
  BY <1>1, <1>3, Zenon DEF Step, SetIntents
<1>5. \A key \in DOMAIN known : new[key] \in Intents /\ new[key].tx = known[key].tx
  <2>1. ASSUME NEW key \in DOMAIN known
        PROVE  new[key] \in Intents /\ new[key].tx = known[key].tx
    <3>1. new[key] = Handled(a, key) \/ new[key] = known[key]
      BY <1>3
    <3>2. Handled(a, key) \in Intents /\ Handled(a, key).tx = known[key].tx
      BY <1>1, HandledIs
    <3>3. known[key] \in Intents
      BY <1>1, StoreIs DEF PlanOk
    <3>4. QED
      BY <3>1, <3>2, <3>3
  <2>2. QED
    BY <2>1
<1>6. new = [key \in DOMAIN known |-> new[key]]
  BY <1>3
<1>7. PlanOk(a, known) /\ (DOMAIN known # {} => work[a] # None)
  BY <1>1, StoreIs
<1>8. PlanOk(a, new) /\ DOMAIN new = DOMAIN known
  BY <1>5, <1>6, <1>7, SamePlan
<1>9. PICK w : w = work[a]
  OBVIOUS
<1>10. /\ w # None => WorkOk(a, w)
       /\ work' = [work EXCEPT ![a] = w]
  BY <1>2, <1>9, StoreIs
<1>11. \A tx \in mempool' : tx \in mempool \/ \E key \in DOMAIN new : tx = new[key].tx
  <2>1. ASSUME NEW tx \in mempool', tx \notin mempool
        PROVE  \E key \in DOMAIN new : tx = new[key].tx
    <3>1. PICK key \in DOMAIN known : tx = known[key].tx
      BY <1>1, <2>1 DEF Step
    <3>2. QED
      BY <1>5, <1>8, <3>1
  <2>2. QED
    BY <2>1
<1>12. DOMAIN new # {} => w # None
  BY <1>7, <1>8, <1>9
<1>13. UNCHANGED chainVars /\ UNCHANGED cursor /\ (work[a] # None => w # None)
  BY <1>2, <1>9
<1>14. QED
  BY <1>4, <1>8, <1>10, <1>11, <1>12, <1>13, StepKeeps

-----------------------------------------------------------------------------
(***************************************************************************)
(* Recovery of a failed intent                                             *)
(***************************************************************************)

\* A failed intent is given up, with or without a new review.
LEMMA CancelKeeps ==
  ASSUME DaemonInv, NEW a \in AgentSet, NEW key \in DOMAIN intents[a],
         SetStatus(a, key, "cancelled"), UNCHANGED <<chainVars, mempool, cursor>>,
         NEW w, WorkOk(a, w), SetWork(a, w)
  PROVE  DaemonInv'
<1>1. PICK known : known = intents[a]
  OBVIOUS
<1>2. PlanOk(a, known) /\ key \in DOMAIN known
  BY <1>1, StoreIs
<1>3. known[key] \in Intents /\ \A k \in DOMAIN known : known[k] \in Intents
  BY <1>2 DEF PlanOk
<1>4. PICK i \in Intents : i = known[key]
  BY <1>3
<1>5. PICK d : d = [i EXCEPT !.status = "cancelled"]
  OBVIOUS
<1>6. d \in Intents /\ d.tx = i.tx
  BY <1>5, StatusSet
<1>7. PICK new : new = [known EXCEPT ![key] = d]
  OBVIOUS
<1>8. known = [k \in DOMAIN known |-> known[k]]
  BY <1>2 DEF PlanOk
<1>9. /\ new = [k \in DOMAIN known |-> new[k]]
      /\ \A k \in DOMAIN known : new[k] = IF k = key THEN d ELSE known[k]
  BY <1>2, <1>7, <1>8
<1>10. \A k \in DOMAIN known : new[k] \in Intents /\ new[k].tx = known[k].tx
  BY <1>3, <1>4, <1>6, <1>9
<1>11. PlanOk(a, new)
  BY <1>2, <1>9, <1>10, SamePlan
<1>12. SetIntents(a, new)
  BY <1>1, <1>4, <1>5, <1>7, Zenon DEF SetIntents, SetStatus
<1>13. QED
  BY <1>11, <1>12, PlanKeeps

\* A failed intent is queued again with a new message.
LEMMA RetryKeeps ==
  ASSUME DaemonInv, NEW a \in AgentSet, NEW key \in DOMAIN intents[a],
         NEW m, Plannable(a, key, m), intents' = [intents EXCEPT ![a][key] = Queued(m)],
         UNCHANGED <<chainVars, mempool, cursor>>,
         NEW w, WorkOk(a, w), SetWork(a, w)
  PROVE  DaemonInv'
<1>1. PICK known : known = intents[a]
  OBVIOUS
<1>2. PICK new : new = [known EXCEPT ![key] = Queued(m)]
  OBVIOUS
<1>3. PlanOk(a, known) /\ key \in DOMAIN known
  BY <1>1, StoreIs
<1>4. PlanOk(a, new)
  BY <1>2, <1>3, QueuedFits
<1>5. SetIntents(a, new)
  BY <1>1, <1>2, Zenon DEF SetIntents
<1>6. QED
  BY <1>4, <1>5, PlanKeeps

\* What there is under a key.
LEMMA PlannedIs ==
  ASSUME DaemonInv, NEW a \in AgentSet, NEW key \in DOMAIN intents[a]
  PROVE  /\ key \in Keys /\ key[1] \in {"execute", "open", "vote"}
         /\ key[2] \in 0..MaxRound /\ key[2] \in Nat
         /\ DueIn(cases, key[2], height)
         /\ key[1] # "open" => key[2] < Len(cases)
         /\ intents[a][key].tx.attempt \in Nat
         /\ work[a] # None /\ WorkOk(a, work[a])
<1>1. PlanOk(a, intents[a])
  BY StoreIs
<1>2. key \in Keys /\ intents[a][key] \in Intents
  BY <1>1 DEF PlanOk
<1>3. key[1] \in {"execute", "open", "vote"} /\ key[2] \in 0..MaxRound
  BY <1>2 DEF Keys
<1>4. key[2] \in Nat
  BY <1>3, BoundsAssumption DEF BoundsAssumption
<1>5. PICK tx \in Messages : tx = intents[a][key].tx
  BY <1>2 DEF Intents
<1>6. tx.attempt \in Nat
  BY DEF Messages
<1>7. tx.kind = key[1] /\ tx.round = key[2] /\ TxGood(cases, height, config.target, tx)
  BY <1>1, <1>5 DEF PlanOk
<1>8. DueIn(cases, key[2], height) /\ (key[1] # "open" => key[2] < Len(cases))
  BY <1>7 DEF TxGood
<1>9. work[a] # None /\ WorkOk(a, work[a])
  BY StoreIs
<1>10. QED
  BY <1>2, <1>3, <1>4, <1>5, <1>6, <1>8, <1>9

\* Such work has no review, and fits.
LEMMA ReopenedIs ==
  ASSUME NEW a, NEW w, WorkOk(a, w), NEW r \in 0..MaxRound + 1, DueIn(cases, r, height)
  PROVE  WorkOk(a, Reopened(w, r)) /\ Reopened(w, r).round = r
<1>1. PICK u : u = [w EXCEPT !.round = r]
  OBVIOUS
<1>2. PICK v : v = [u EXCEPT !.review = None]
  OBVIOUS
<1>3. /\ u \in Works /\ u.round = r /\ u.transfers = w.transfers /\ u.done = w.done
  BY <1>1, RoundSet DEF WorkOk
<1>4. /\ v \in Works /\ v.round = u.round /\ v.transfers = u.transfers /\ v.done = u.done
      /\ v.review = None
  BY <1>2, <1>3, ReviewSet
<1>5. v.round = r /\ v.transfers = w.transfers /\ v.done = w.done
  BY <1>3, <1>4
<1>6. WorkGood(cases, height, config.target[a], v)
  BY <1>4, <1>5, NoReviewFits DEF WorkOk
<1>7. WorkOk(a, v)
  BY <1>4, <1>5, <1>6 DEF WorkOk
<1>8. Reopened(w, r) = v
  BY <1>1, <1>2, Zenon DEF Reopened
<1>9. QED
  BY <1>5, <1>7, <1>8

\* The work is bound to the case of the round, or to the transaction.
LEMMA ReboundIs ==
  ASSUME DaemonInv, NEW a \in AgentSet, NEW key \in DOMAIN intents[a],
         NEW w, w = Rebound(a, key), NEW c, c = GetCase(key[2])
  PROVE  /\ WorkOk(a, w) /\ w.round = key[2] /\ w.transfers # {}
         /\ key[2] < Len(cases) <=> c # None
         /\ c # None => /\ c \in Cases /\ c = cases[key[2] + 1]
                        /\ w.transfers = {c.transfer}
<1>1. PICK r : r = key[2]
  OBVIOUS
<1>2. r \in 0..MaxRound + 1 /\ r \in Nat /\ DueIn(cases, r, height) /\ WorkOk(a, work[a])
  BY <1>1, PlannedIs, BoundsAssumption DEF BoundsAssumption
<1>3. PICK w0 : w0 = Reopened(work[a], r)
  OBVIOUS
<1>4. WorkOk(a, w0) /\ w0.round = r
  BY <1>2, <1>3, ReopenedIs
<1>5. c = IF r < Len(cases) THEN cases[r + 1] ELSE None
  BY <1>1, <1>2, ChainHas, LastIs
<1>6. r < Len(cases) => cases[r + 1] \in Cases /\ cases[r + 1] # None
  BY <1>2, ChainHas, NoneAssumption DEF NoneAssumption
<1>7. r < Len(cases) <=> c # None
  BY <1>5, <1>6
<1>8. w = IF c # None THEN BindOriginal(w0, c) ELSE [w0 EXCEPT !.transfers = Transfers]
  BY <1>1, <1>3, Zenon DEF Rebound
<1>9. CASE c # None
  <2>1. c \in Cases /\ c = cases[r + 1]
    BY <1>5, <1>6, <1>7, <1>9
  <2>2. w = BindOriginal(w0, c)
    BY <1>8, <1>9
  <2>3. WorkOk(a, w) /\ w.transfers = {c.transfer} /\ w.round = w0.round
    BY <1>4, <2>1, <2>2, BoundFits
  <2>4. QED
    BY <1>1, <1>4, <1>7, <2>1, <2>3
<1>10. CASE c = None
  <2>1. PICK T \in SUBSET Nat : T = Transfers
    BY TransfersAre
  <2>2. w = [w0 EXCEPT !.transfers = T]
    BY <1>8, <1>10, <2>1
  <2>3. T # {} /\ IsFiniteSet(T)
    BY <2>1, TransfersAre
  <2>4. WorkOk(a, w) /\ w.transfers = T /\ w.round = w0.round
    BY <1>4, <2>2, <2>3, KnownFits
  <2>5. QED
    BY <1>1, <1>4, <1>7, <1>10, <2>3, <2>4
<1>11. QED
  BY <1>9, <1>10

\* A new review fits, and so does the message that it leads to.
LEMMA ReconsiderKeeps ==
  ASSUME DaemonInv, NEW a \in AgentSet, NEW key \in DOMAIN intents[a],
         NEW review \in Review(a, Rebound(a, key).transfers) \ {Failed},
         Reconsider(a, key, review), UNCHANGED <<chainVars, mempool, cursor>>
  PROVE  DaemonInv'
<1>1. PICK r : r = key[2]
  OBVIOUS
<1>2. PICK c : c = GetCase(r)
  OBVIOUS
<1>3. PICK u : u = Rebound(a, key)
  OBVIOUS
<1>4. PICK w : w = Evaluated(a, u, review)
  OBVIOUS
<1>5. /\ WorkOk(a, u) /\ u.round = r /\ u.transfers # {}
      /\ r < Len(cases) <=> c # None
      /\ c # None => c \in Cases /\ c = cases[r + 1] /\ u.transfers = {c.transfer}
  BY <1>1, <1>2, <1>3, ReboundIs
<1>6. /\ WorkOk(a, w) /\ w.round = r /\ w.review \in Reviews
      /\ w.review.observed = height /\ w.review.transfer \in u.transfers
  BY <1>3, <1>4, <1>5, EvaluatedFits
<1>7. w.review # None
  BY <1>6, NoneAssumption DEF NoneAssumption
<1>8. /\ key \in Keys /\ r \in 0..MaxRound /\ r \in Nat /\ DueIn(cases, r, height)
      /\ key[1] # "open" => r < Len(cases)
  BY <1>1, PlannedIs
<1>9. PICK k \in Nat : k = intents[a][key].tx.attempt
  BY PlannedIs
<1>10. SetWork(a, w)
  BY <1>3, <1>4, Zenon DEF Reconsider
<1>11. PICK n \in Nat : n = 1 + k
  OBVIOUS
<1>12. CASE SetStatus(a, key, "cancelled")
  BY <1>6, <1>10, <1>12, CancelKeeps
<1>13. CASE key[1] = "open" /\ Retry(a, key, OpenMessages(a, w))
  <2>1. PICK m : m = [OpenMessages(a, w) EXCEPT !.attempt = @ + k]
    OBVIOUS
  <2>2. m = [from |-> a, kind |-> "open", round |-> w.round, target |-> TargetOf(a),
             action |-> w.review.action, transfer |-> w.review.transfer,
             report |-> w.review.report, observed |-> w.review.observed,
             expiry |-> w.review.expiry, attempt |-> n]
    BY <1>11, <2>1 DEF OpenMessages
  <2>3. w.round \in 0..MaxRound
    BY <1>6, <1>8
  <2>4. /\ m \in Messages /\ m.from = a /\ m.kind = "open" /\ m.round = w.round
        /\ TxGood(cases, height, config.target, m)
    BY <1>6, <1>7, <2>2, <2>3, OpenIs
  <2>5. Plannable(a, key, m)
    BY <1>1, <1>6, <1>8, <1>13, <2>4 DEF Plannable
  <2>6. intents' = [intents EXCEPT ![a][key] = Queued(m)]
    BY <1>9, <1>13, <2>1, Zenon DEF Retry
  <2>7. QED
    BY <1>6, <1>10, <2>5, <2>6, RetryKeeps
<1>14. CASE key[1] = "vote" /\ ~SetStatus(a, key, "cancelled")
  <2>1. PICK o \in {"approve", "reject"} :
          o = IF review.action = c.action THEN "approve" ELSE "reject"
    OBVIOUS
  <2>2. Retry(a, key, [VoteMessage(a, w) EXCEPT !.option = o])
    <3>1. \/ SetStatus(a, key, "cancelled")
          \/ Retry(a, key, [VoteMessage(a, w) EXCEPT !.option =
                              IF review.action = c.action THEN "approve" ELSE "reject"])
      <4>1. key[1] # "open" /\ key[1] # "execute"
        BY <1>14
      <4>2. QED
        BY <1>1, <1>2, <1>3, <1>4, <4>1, Zenon DEF Reconsider
    <3>2. QED
      BY <1>14, <2>1, <3>1, Zenon
  <2>3. PICK d : d = [VoteMessage(a, w) EXCEPT !.option = o]
    OBVIOUS
  <2>4. PICK m : m = [d EXCEPT !.attempt = @ + k]
    OBVIOUS
  <2>5. d = [from |-> a, kind |-> "vote", round |-> w.round,
             observed |-> w.review.observed, transfer |-> w.review.transfer,
             attempt |-> 1, option |-> o]
    BY <2>3 DEF VoteMessage
  <2>6. m = [from |-> a, kind |-> "vote", round |-> w.round,
             observed |-> w.review.observed, transfer |-> w.review.transfer,
             attempt |-> n, option |-> o]
    BY <1>11, <2>4, <2>5
  <2>7. r < Len(cases) /\ FreshFor(cases, w.round, w.review.observed)
    BY <1>6, <1>8, <1>14, DueIsFresh
  <2>8. Last.target = "ADDRESS" => w.review.transfer = Last.transfer
    <3>1. c # None /\ w.review.transfer = c.transfer
      BY <1>5, <1>6, <2>7
    <3>2. r + 1 \in 1..Len(cases) /\ Last = cases[Len(cases)]
      BY <1>8, <2>7, ChainHas, LastIs
    <3>3. cases[r + 1].transfer = cases[Len(cases)].transfer
      BY <3>2, ChainHas DEF Rounds
    <3>4. QED
      BY <1>5, <3>1, <3>2, <3>3
  <2>9. /\ m \in Messages /\ m.from = a /\ m.kind = "vote" /\ m.round = w.round
        /\ TxGood(cases, height, config.target, m)
    BY <1>6, <2>6, <2>7, <2>8, VoteIs
  <2>10. Plannable(a, key, m)
    BY <1>1, <1>6, <1>8, <1>14, <2>9 DEF Plannable
  <2>11. intents' = [intents EXCEPT ![a][key] = Queued(m)]
    BY <1>9, <2>2, <2>3, <2>4, Zenon DEF Retry
  <2>12. QED
    BY <1>6, <1>10, <2>10, <2>11, RetryKeeps
<1>15. CASE key[1] = "execute" /\ Retry(a, key, ExecuteMessage(a, key[2]))
  <2>1. PICK m : m = [ExecuteMessage(a, key[2]) EXCEPT !.attempt = @ + k]
    OBVIOUS
  <2>2. m = [from |-> a, kind |-> "execute", round |-> r, attempt |-> n]
    BY <1>1, <1>11, <2>1 DEF ExecuteMessage
  <2>3. r < Len(cases)
    BY <1>8, <1>15
  <2>4. /\ m \in Messages /\ m.from = a /\ m.kind = "execute" /\ m.round = r
        /\ TxGood(cases, height, config.target, m)
    BY <1>8, <2>2, <2>3, ExecuteIs
  <2>5. Plannable(a, key, m)
    BY <1>1, <1>8, <1>15, <2>4 DEF Plannable
  <2>6. intents' = [intents EXCEPT ![a][key] = Queued(m)]
    BY <1>9, <1>15, <2>1, Zenon DEF Retry
  <2>7. QED
    BY <1>6, <1>10, <2>5, <2>6, RetryKeeps
<1>16. QED
  <2>1. \/ SetStatus(a, key, "cancelled")
        \/ key[1] = "open" /\ Retry(a, key, OpenMessages(a, w))
        \/ key[1] = "vote"
        \/ key[1] = "execute" /\ Retry(a, key, ExecuteMessage(a, key[2]))
    BY <1>3, <1>4, Zenon DEF Reconsider
  <2>2. QED
    BY <1>12, <1>13, <1>14, <1>15, <2>1

\* The operator has a failed intent retried (recoverFailed).
LEMMA RecoverFailedKeeps ==
  ASSUME DaemonInv, NEW a \in AgentSet, NEW key, RecoverFailed(a, key)
  PROVE  DaemonInv'
<1>1. key \in DOMAIN intents[a] /\ UNCHANGED <<chainVars, mempool, cursor>>
  BY DEF RecoverFailed
<1>2. \/ SetStatus(a, key, "cancelled") /\ UNCHANGED work
      \/ \E review \in Review(a, Rebound(a, key).transfers) \ {Failed} :
           Reconsider(a, key, review)
  BY Zenon DEF RecoverFailed
<1>3. CASE SetStatus(a, key, "cancelled") /\ UNCHANGED work
  <2>1. PICK w : w = work[a]
    OBVIOUS
  <2>2. WorkOk(a, w)
    BY <1>1, <2>1, PlannedIs
  <2>3. SetWork(a, w)
    BY <1>3, <2>1, StoreIs DEF SetWork
  <2>4. QED
    BY <1>1, <1>3, <2>2, <2>3, CancelKeeps
<1>4. CASE \E review \in Review(a, Rebound(a, key).transfers) \ {Failed} :
             Reconsider(a, key, review)
  BY <1>1, <1>4, ReconsiderKeeps
<1>5. QED
  BY <1>2, <1>3, <1>4

-----------------------------------------------------------------------------
(***************************************************************************)
(* The invariant                                                           *)
(***************************************************************************)

\* A daemon is stopped, or started again: its store is as it was.
LEMMA CrashKeeps ==
  ASSUME DaemonInv, NEW a \in AgentSet, Crash(a) \/ Start(a)
  PROVE  DaemonInv'
BY StageKeeps DEF Crash, Start

\* Every step of a tick.
LEMMA TickKeeps ==
  ASSUME DaemonInv, NEW a \in AgentSet, Tick(a)
  PROVE  DaemonInv'
<1>1. CASE Scan(a)
  BY <1>1, ScanKeeps
<1>2. CASE ProgressNothing(a)
  BY <1>2, ProgressNothingKeeps
<1>3. CASE ProgressDecided(a)
  BY <1>3, ProgressDecidedKeeps
<1>4. CASE ProgressWithoutCase(a)
  BY <1>4, ProgressWithoutCaseKeeps
<1>5. CASE Evaluate(a)
  BY <1>5, EvaluateKeeps
<1>6. CASE ProgressNoAction(a)
  BY <1>6, ProgressNoActionKeeps
<1>7. CASE ProgressOpen(a)
  BY <1>7, ProgressOpenKeeps
<1>8. CASE ProgressCase(a)
  BY <1>8, ProgressCaseKeeps
<1>9. CASE Step(a)
  BY <1>9, SendKeeps
<1>10. QED
  BY <1>1, <1>2, <1>3, <1>4, <1>5, <1>6, <1>7, <1>8, <1>9 DEF Tick

\* Daemons start with an empty journal on a chain without cases.
LEMMA InitHolds == Init => DaemonInv
<1> SUFFICES ASSUME Init PROVE DaemonInv
  OBVIOUS
<1>1. /\ config \in Configs /\ height = 1 /\ cases = <<>> /\ registry = AgentSet
      /\ original = [where |-> config.original, height |-> 1]
      /\ cursor = [a \in AgentSet |-> config.start[a] - 1]
      /\ mempool = {} /\ failures = <<>>
      /\ work = [a \in AgentSet |-> None] /\ intents = [a \in AgentSet |-> <<>>]
  BY DEF Init
<1>2. /\ config.start \in [AgentSet -> Nat \ {0}]
      /\ config.original \in {"pending", "ok"}
  BY <1>1, ConfigsAssumption DEF ConfigsAssumption
<1>3. DOMAIN failures = {}
  BY <1>1
<1>4. \A a \in AgentSet : cursor[a] = config.start[a] - 1 /\ cursor[a] \in Nat
                          /\ config.start[a] \in Nat
  BY <1>1, <1>2
<1>5. TypeOK
  <2>1. original \in [where : {"pending", "ok", "failed"}, height : Nat]
    BY <1>1, <1>2
  <2>2. cursor \in [AgentSet -> Nat]
    BY <1>1, <1>4
  <2>3. cases \in Seq(Cases) /\ Len(cases) <= MaxRound + 1
    <3>1. cases \in Seq(Cases) /\ Len(cases) = 0
      BY <1>1
    <3>2. QED
      BY <3>1, BoundsAssumption DEF BoundsAssumption
  <2>4. work \in [AgentSet -> Works \cup {None}]
    BY <1>1
  <2>5. intents = [a \in AgentSet |-> intents[a]]
    BY <1>1
  <2>6. \A a \in AgentSet : DOMAIN intents[a] = {} /\ intents[a] \in [{} -> Intents]
    BY <1>1
  <2>7. \A a \in AgentSet : /\ DOMAIN intents[a] \subseteq Keys
                            /\ intents[a] \in [DOMAIN intents[a] -> Intents]
    BY <2>6
  <2>8. height \in Nat /\ registry \subseteq AgentSet /\ mempool \subseteq Messages
    BY <1>1
  <2>9. QED
    BY <1>1, <1>3, <2>1, <2>2, <2>3, <2>4, <2>5, <2>7, <2>8 DEF TypeOK
<1>6. CursorInv
  BY <1>4 DEF CursorInv
<1>7. RoundsInv
  <2>1. DOMAIN cases = {} /\ Len(cases) = 0
    BY <1>1
  <2>2. QED
    BY <2>1 DEF RoundsInv
<1>8. \A a \in AgentSet : work[a] = None /\ DOMAIN intents[a] = {}
  BY <1>1
<1>9. ScannedIsStored
  BY <1>4 DEF ScannedIsStored
<1>10. DoneIsJustified
  BY <1>8 DEF DoneIsJustified
<1>11. OpenNeverAgainstPolicy
  BY <1>3 DEF OpenNeverAgainstPolicy
<1>12. \A a \in AgentSet : work[a] # None => WorkFits(a, work[a])
  BY <1>8
<1>13. \A a \in AgentSet : \A key \in DOMAIN intents[a] :
         /\ work[a] # None
         /\ LET tx == intents[a][key].tx
            IN tx.from = a /\ tx.kind = key[1] /\ tx.round = key[2] /\ TxFits(tx)
  BY <1>8
<1>14. \A tx \in mempool : TxFits(tx)
  BY <1>1
<1>15. QED
  BY <1>5, <1>6, <1>7, <1>9, <1>10, <1>11, <1>12, <1>13, <1>14, Zenon DEF DaemonInv

\* Every step of the chain, of the daemons and of the operator.
LEMMA NextHolds == DaemonInv /\ [Next]_vars => DaemonInv'
<1> SUFFICES ASSUME DaemonInv, [Next]_vars PROVE DaemonInv'
  OBVIOUS
<1>1. CASE UNCHANGED vars
  <2>1. UNCHANGED <<chainVars, mempool, cursor, work, intents>>
    BY <1>1 DEF vars, chainVars
  <2>2. QED
    BY <2>1, StageKeeps
<1>2. CASE EmptyBlock \/ IncludeOriginal \/ Revoke
  BY <1>2, EmptyBlockKeeps, IncludeOriginalKeeps, RevokeKeeps
<1>3. ASSUME NEW tx \in mempool, IncludeTx(tx) \/ FailTx(tx) PROVE DaemonInv'
  BY <1>3, IncludeTxKeeps, FailTxKeeps
<1>4. ASSUME NEW a \in AgentSet, Tick(a) PROVE DaemonInv'
  BY <1>4, TickKeeps
<1>5. ASSUME NEW a \in AgentSet, Crash(a) \/ Start(a) \/ Leave(a) PROVE DaemonInv'
  BY <1>5, CrashKeeps, LeaveKeeps
<1>6. ASSUME NEW a \in AgentSet, NEW n \in DOMAIN IntentOrder,
             RecoverFailed(a, IntentOrder[n])
      PROVE  DaemonInv'
  BY <1>6, RecoverFailedKeeps
<1>7. QED
  BY <1>1, <1>2, <1>3, <1>4, <1>5, <1>6 DEF Next

\* The store of every daemon, the rounds of the case and what is on its way fit
\* together in every state.
THEOREM DaemonInvariant == Spec => []DaemonInv
BY InitHolds, NextHolds, PTL DEF Spec

-----------------------------------------------------------------------------
(***************************************************************************)
(* What follows from it                                                    *)
(***************************************************************************)

\* No daemon misses the transaction, whenever it crashes between its cursor and its
\* store (scan).
THEOREM EverythingIsScanned == Spec => []ScannedIsStored
<1>1. DaemonInv => ScannedIsStored
  BY DEF DaemonInv
<1>2. QED
  BY <1>1, DaemonInvariant, PTL

\* No daemon stops working before there is nothing left to do (processWork).
THEOREM WorkEndsForGoodReasons == Spec => []DoneIsJustified
<1>1. DaemonInv => DoneIsJustified
  BY DEF DaemonInv
<1>2. QED
  BY <1>1, DaemonInvariant, PTL

\* No vote rests on evidence that a round which ran out relied on.
THEOREM VotesRestOnNewEvidence == Spec => []VotesAreFresh
<1>1. DaemonInv => VotesAreFresh
  <2> SUFFICES ASSUME DaemonInv, NEW tx \in mempool, tx.kind = "vote", tx.round > 0
               PROVE  \/ tx.observed >= cases[tx.round].expiry
                      \/ tx.observed > cases[tx.round].deadline
    BY DEF VotesAreFresh
  <2>1. Fresh(tx.round, tx.observed)
    BY DEF DaemonInv, TxFits
  <2>2. tx \in Messages /\ tx.round \in 1..Len(cases)
    BY <2>1, WaitingIs, ChainHas DEF Fresh
  <2>3. tx.observed \in Nat
    BY <2>2 DEF Messages
  <2>4. cases[tx.round].expiry \in Nat /\ cases[tx.round].deadline \in Nat
    <3>1. cases[tx.round] \in Cases
      BY <2>2, ChainHas
    <3>2. QED
      BY <3>1 DEF Cases
  <2>5. QED
    BY <2>1, <2>3, <2>4 DEF Fresh
<1>2. QED
  BY <1>1, DaemonInvariant, PTL

\* All votes on a case against an address are about its transfer (bindOriginal).
THEOREM VotesAgreeOnTheTransfer == Spec => []VotesAreAboutTheCase
<1>1. DaemonInv => VotesAreAboutTheCase
  <2> SUFFICES ASSUME DaemonInv, NEW tx \in mempool, tx.kind = "vote",
                      cases[tx.round + 1].target = "ADDRESS"
               PROVE  tx.transfer = cases[tx.round + 1].transfer
    BY DEF VotesAreAboutTheCase
  <2>1. tx.round + 1 \in 1..Len(cases)
    BY RoundOfTx
  <2>2. /\ cases[tx.round + 1].target = cases[Len(cases)].target
        /\ cases[tx.round + 1].transfer = cases[Len(cases)].transfer
    BY <2>1, ChainHas DEF Rounds
  <2>3. TxGood(cases, height, config.target, tx)
    BY WaitingIs
  <2>4. QED
    BY <2>2, <2>3 DEF TxGood
<1>2. QED
  BY <1>1, DaemonInvariant, PTL

\* The chain refuses no opening for its action.
THEOREM OpeningsFollowThePolicy == Spec => []OpenNeverAgainstPolicy
<1>1. DaemonInv => OpenNeverAgainstPolicy
  BY DEF DaemonInv
<1>2. QED
  BY <1>1, DaemonInvariant, PTL

\* A transaction that Step sends was queued, and neither settled nor blocked.
LEMMA SentIs ==
  ASSUME DaemonInv, NEW a \in AgentSet, NEW key \in DOMAIN intents[a], Sends(a, key)
  PROVE  ~Satisfied(a, key) /\ ~Obsolete(a, key) /\ ~Blocked(a, key)
<1>1. PICK i \in Intents : i = intents[a][key]
  BY StoreIs DEF PlanOk
<1>2. i.status = "queued" /\ Handled(a, key).status = "pending"
  BY <1>1 DEF Sends
<1>3. ASSUME Satisfied(a, key) \/ Obsolete(a, key) PROVE FALSE
  <2>1. PICK s \in {"satisfied", "cancelled"} : s = Settled(a, key)
    BY DEF Settled
  <2>2. Handled(a, key) = [i EXCEPT !.status = s]
    BY <1>1, <1>3, <2>1, Zenon DEF Handled
  <2>3. s \in {"queued", "pending", "failed", "satisfied", "cancelled"}
    OBVIOUS
  <2>4. Handled(a, key).status = s
    BY <2>2, <2>3, StatusSet
  <2>5. QED
    BY <1>2, <2>4
<1>4. ASSUME Blocked(a, key) PROVE FALSE
  <2>1. Handled(a, key) = i
    BY <1>1, <1>3, <1>4, Zenon DEF Handled
  <2>2. QED
    BY <1>2, <2>1
<1>5. QED
  BY <1>3, <1>4

\* Only Step sends.
LEMMA OnlyStepSends ==
  ASSUME DaemonInv, [Next]_vars, NEW tx \in mempool' \ mempool
  PROVE  \E a \in AgentSet : \E key \in DOMAIN intents[a] :
           Sends(a, key) /\ tx = intents[a][key].tx
<1>1. CASE \E a \in AgentSet : Step(a)
  BY <1>1 DEF Step
<1>2. CASE mempool' \subseteq mempool
  BY <1>2
<1>3. CASE UNCHANGED vars
  BY <1>3 DEF vars
<1>4. CASE EmptyBlock \/ IncludeOriginal \/ Revoke
  BY <1>4 DEF EmptyBlock, IncludeOriginal, Revoke
<1>5. ASSUME NEW t \in mempool, IncludeTx(t) \/ FailTx(t) PROVE mempool' \subseteq mempool
  BY <1>5 DEF IncludeTx, FailTx
<1>6. ASSUME NEW a \in AgentSet, Tick(a), ~Step(a) PROVE mempool' \subseteq mempool
  BY <1>6 DEF Tick, Scan, ProgressNothing, ProgressDecided, ProgressWithoutCase, Evaluate,
              ProgressNoAction, ProgressOpen, ProgressCase, Done, Progressed
<1>7. ASSUME NEW a \in AgentSet, Crash(a) \/ Start(a) \/ Leave(a)
      PROVE  mempool' \subseteq mempool
  BY <1>7 DEF Crash, Start, Leave
<1>8. ASSUME NEW a \in AgentSet, NEW key, RecoverFailed(a, key)
      PROVE  mempool' \subseteq mempool
  BY <1>8 DEF RecoverFailed
<1>9. QED
  BY <1>1, <1>2, <1>3, <1>4, <1>5, <1>6, <1>7, <1>8 DEF Next

\* No daemon sends an execution that its own valid review does not call for
\* (Reconciler.Step, Obsolete and ReevaluationRequired).
THEOREM ExecutionsAreReviewed == Spec => ExecutesOwnReview
<1>1. DaemonInv /\ [Next]_vars =>
        \A tx \in mempool' \ mempool :
          tx.kind = "execute" =>
            LET review == work[tx.from].review
            IN ~Stale(review) /\ review.action = cases[tx.round + 1].action
  <2> SUFFICES ASSUME DaemonInv, [Next]_vars, NEW tx \in mempool' \ mempool,
                      tx.kind = "execute"
               PROVE  /\ ~Stale(work[tx.from].review)
                      /\ work[tx.from].review.action = cases[tx.round + 1].action
    OBVIOUS
  <2>1. PICK a \in AgentSet : \E key \in DOMAIN intents[a] :
          Sends(a, key) /\ tx = intents[a][key].tx
    BY OnlyStepSends
  <2>2. PICK key \in DOMAIN intents[a] : Sends(a, key) /\ tx = intents[a][key].tx
    BY <2>1
  <2>3. tx.from = a /\ tx.kind = key[1] /\ tx.round = key[2]
    BY <2>2, StoreIs DEF PlanOk
  <2>4. ~Satisfied(a, key) /\ ~Obsolete(a, key) /\ ~Blocked(a, key)
    BY <2>2, SentIs
  <2>5. ~Stale(work[a].review)
    BY <2>3, <2>4 DEF Blocked, ReevaluationRequired
  <2>6. key[2] \in Nat /\ key[2] < Len(cases)
    BY <2>3, PlannedIs
  <2>7. GetCase(key[2]) = cases[key[2] + 1]
    BY <2>6, ChainHas, LastIs
  <2>8. work[a].review.action = GetCase(key[2]).action
    BY <2>3, <2>4, <2>5, Zenon DEF Obsolete
  <2>9. QED
    BY <2>3, <2>5, <2>7, <2>8
<1>2. QED
  BY <1>1, DaemonInvariant, PTL DEF Spec, ExecutesOwnReview

=============================================================================
