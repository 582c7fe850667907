------------------------- MODULE SanctionSafetyProofs -------------------------
(***************************************************************************)
(* The safety theorems of the sanction case machine. Each rests on the     *)
(* base invariant (types and well-formed cases) and on two facts about     *)
(* steps: the terms of an open case never change, and an execution record  *)
(* is written once, under the conditions of Executable.                    *)
(***************************************************************************)
EXTENDS SanctionCasesProofs, SanctionGenesis

-----------------------------------------------------------------------------
(***************************************************************************)
(* What steps do to cases                                                  *)
(***************************************************************************)

\* A report that is stored is never overwritten.
LEMMA ReportsStay ==
  ASSUME BaseInv, [Next]_vars, NEW r \in Reports, reports[r] # None
  PROVE  reports'[r] = reports[r]
<1>1. CASE \E q \in Reports, body \in ReportBodies : SubmitRiskReport(q, body)
  BY <1>1 DEF SubmitRiskReport, BaseInv, TypeOK
<1>2. CASE \/ \E tx \in Txs : DeliverTx(tx)
           \/ \E powers \in PowerMaps : EndBlock(powers)
           \/ \E powers \in PowerMaps : RegisterAgent(powers)
           \/ \E p \in ParamSets : UpdateParams(p)
           \/ \E c \in Cases : ReviewSanction(c)
           \/ \E c \in Cases : RevokeSanction(c)
  BY <1>2 DEF DeliverTx, EndBlock, RegisterAgent, UpdateParams, ReviewSanction,
              RevokeSanction
<1>3. CASE \E c \in Cases, targetType \in TargetTypes,
              target \in Accounts \cup {None}, ids \in ReportIdLists,
              previous \in Cases \cup {None} :
             OpenSanctionCase(c, targetType, target, ids, previous)
  BY <1>3 DEF OpenSanctionCase
<1>4. CASE \E c \in Cases, a \in Agents, option \in VoteOptions :
             SubmitSanctionVote(c, a, option)
  BY <1>4 DEF SubmitSanctionVote
<1>5. CASE \E c \in Cases : ExecuteSanction(c)
  BY <1>5 DEF ExecuteSanction, ExecuteWatch, ExecuteBlockTx, ExecuteFreeze,
              ExecuteSettlement, RecordExecution
<1>6. CASE UNCHANGED vars
  BY <1>6 DEF vars
<1>7. QED
  BY <1>1, <1>2, <1>3, <1>4, <1>5, <1>6 DEF Next

\* A step changes the case store in one of four ways or not at all.
LEMMA CaseSteps ==
  ASSUME BaseInv, [Next]_vars
  PROVE  \/ UNCHANGED caseVars
         \/ \E c \in Cases, ids \in ReportIdLists,
               previous \in Cases \cup {None}, k \in Case :
              OpenStep(c, ids, previous, k)
         \/ \E c \in Cases, a \in Agents, option \in VoteOptions,
               status \in CaseStatuses :
              SubmitSanctionVote(c, a, option) /\ VoteStep(c, a, option, status)
         \/ \E c \in Cases : ExecuteSanction(c)
         \/ \E c \in Cases : RevokeSanction(c)
<1>1. CASE \E c \in Cases, targetType \in TargetTypes,
              target \in Accounts \cup {None}, ids \in ReportIdLists,
              previous \in Cases \cup {None} :
             OpenSanctionCase(c, targetType, target, ids, previous)
  BY <1>1, OpenStepExists
<1>2. CASE \E c \in Cases, a \in Agents, option \in VoteOptions :
             SubmitSanctionVote(c, a, option)
  BY <1>2, VoteStepExists
<1>3. CASE UNCHANGED vars
  BY <1>3 DEF vars, caseVars
<1>4. CASE \/ \E tx \in Txs : DeliverTx(tx)
           \/ \E powers \in PowerMaps : EndBlock(powers)
           \/ \E powers \in PowerMaps : RegisterAgent(powers)
           \/ \E p \in ParamSets : UpdateParams(p)
           \/ \E r \in Reports, body \in ReportBodies :
                SubmitRiskReport(r, body)
           \/ \E c \in Cases : ReviewSanction(c)
  BY <1>4 DEF DeliverTx, EndBlock, RegisterAgent, UpdateParams, SubmitRiskReport,
              ReviewSanction
<1>5. QED
  BY <1>1, <1>2, <1>3, <1>4 DEF Next

\* An open case keeps its terms, its evidence and its being open.
LEMMA TermsKept ==
  ASSUME BaseInv, [Next]_vars, NEW c \in Cases, cases[c].status # "ABSENT"
  PROVE  /\ cases'[c].status # "ABSENT"
         /\ SameTerms(cases[c], cases'[c])
         /\ PrimaryReport(cases[c])' = PrimaryReport(cases[c])
<1>1. cases \in [Cases -> Case] /\ height \in Nat
  BY DEF BaseInv, TypeOK
<1>2. cases'[c].status # "ABSENT" /\ SameTerms(cases[c], cases'[c])
  <2>1. CASE UNCHANGED caseVars
    BY <2>1 DEF caseVars, SameTerms
  <2>2. ASSUME NEW d \in Cases, NEW ids \in ReportIdLists,
               NEW previous \in Cases \cup {None}, NEW k \in Case,
               OpenStep(d, ids, previous, k)
        PROVE  cases'[c].status # "ABSENT" /\ SameTerms(cases[c], cases'[c])
    <3>1. c # d
      BY <2>2 DEF OpenStep
    <3>2. cases'[c] = IF c = previous THEN WithStatus(cases[c], "EXPIRED")
                                      ELSE cases[c]
      BY <2>2, <3>1 DEF OpenStep
    <3>3. "EXPIRED" \in CaseStatuses
      BY DEF CaseStatuses
    <3>4. QED
      BY <1>1, <3>2, <3>3, WithStatusFields DEF SameTerms
  <2>3. ASSUME NEW d \in Cases, NEW a \in Agents, NEW option \in VoteOptions,
               NEW status \in CaseStatuses, VoteStep(d, a, option, status)
        PROVE  cases'[c].status # "ABSENT" /\ SameTerms(cases[c], cases'[c])
    <3>1. /\ status # "ABSENT"
          /\ cases'[c] = IF c = d THEN WithStatus(cases[c], status)
                                  ELSE cases[c]
      BY <1>1, <2>3 DEF VoteStep
    <3>2. QED
      BY <1>1, <3>1, WithStatusFields DEF SameTerms
  <2>4. ASSUME NEW d \in Cases, ExecuteSanction(d)
        PROVE  cases'[c].status # "ABSENT" /\ SameTerms(cases[c], cases'[c])
    <3>1. cases'[c] = IF c = d THEN AsExecuted(cases[c]) ELSE cases[c]
      BY <1>1, <2>4
      DEF ExecuteSanction, ExecuteWatch, ExecuteBlockTx, ExecuteFreeze,
          ExecuteSettlement, RecordExecution
    <3>2. QED
      BY <1>1, <3>1, AsExecutedFields DEF SameTerms
  <2>5. ASSUME NEW d \in Cases, RevokeSanction(d)
        PROVE  cases'[c].status # "ABSENT" /\ SameTerms(cases[c], cases'[c])
    <3>1. cases'[c] = IF c = d THEN WithStatus(cases[c], "REVOKED")
                               ELSE cases[c]
      BY <1>1, <2>5 DEF RevokeSanction
    <3>2. "REVOKED" \in CaseStatuses
      BY DEF CaseStatuses
    <3>3. QED
      BY <1>1, <3>1, <3>2, WithStatusFields DEF SameTerms
  <2>6. QED
    BY <2>1, <2>2, <2>3, <2>4, <2>5, CaseSteps
<1>3. PrimaryReport(cases[c])' = PrimaryReport(cases[c])
  <2>1. /\ cases[c].reportIds[1] \in Reports
        /\ reports[cases[c].reportIds[1]] # None
    BY CaseEvidence, ConstantsAssumption
  <2>2. cases'[c].reportIds = cases[c].reportIds
    BY <1>2 DEF SameTerms
  <2>3. QED
    BY <2>1, <2>2, ReportsStay DEF PrimaryReport
<1>4. QED
  BY <1>2, <1>3

\* What is put to the vote never changes (OpenSanctionCase writes the terms
\* once; votes, execution, replacement and revocation touch the status only).
THEOREM TermsImmutableCorrect == Spec => TermsImmutable
<1>1. BaseInv /\ [Next]_vars =>
        [\A c \in Cases : cases[c].status # "ABSENT" =>
           /\ cases'[c].status # "ABSENT"
           /\ SameTerms(cases[c], cases'[c])
           /\ PrimaryReport(cases[c])' = PrimaryReport(cases[c])]_vars
  BY TermsKept
<1>2. QED
  BY BaseCorrect, <1>1, PTL DEF Spec, TermsImmutable

-----------------------------------------------------------------------------
(***************************************************************************)
(* What steps do to execution records                                      *)
(***************************************************************************)

\* Any execution starts from the common checks and leaves the common record.
LEMMA ExecutionParts ==
  ASSUME NEW c \in Cases, ExecuteSanction(c)
  PROVE  Executable(c) /\ RecordExecution(c)
  BY DEF ExecuteSanction, ExecuteWatch, ExecuteBlockTx, ExecuteFreeze,
         ExecuteSettlement

\* An execution record stays, with its height and the votes it rested on.
LEMMA ExecutionsKept ==
  ASSUME BaseInv, [Next]_vars, NEW c \in executions
  PROVE  /\ c \in Cases
         /\ c \in executions'
         /\ cases[c].status # "ABSENT"
         /\ cases'[c].executedHeight = cases[c].executedHeight
         /\ votes'[c] = votes[c]
<1>1. /\ cases \in [Cases -> Case] /\ height \in Nat
      /\ votes \in [Cases -> [Agents -> VoteOptions \cup {"NONE"}]]
      /\ c \in Cases
      /\ cases[c].status \in {"EXECUTED", "REVOKED"}
  BY DEF BaseInv, TypeOK, CasesWellFormed
<1>2. CASE UNCHANGED caseVars
  BY <1>1, <1>2 DEF caseVars
<1>3. ASSUME NEW d \in Cases, NEW ids \in ReportIdLists,
             NEW previous \in Cases \cup {None}, NEW k \in Case,
             OpenStep(d, ids, previous, k)
      PROVE  /\ c \in executions'
             /\ cases'[c].executedHeight = cases[c].executedHeight
             /\ votes'[c] = votes[c]
  <2>1. c # d /\ executions' = executions /\ votes' = votes
    BY <1>1, <1>3 DEF OpenStep
  <2>2. cases'[c] = IF c = previous THEN WithStatus(cases[c], "EXPIRED")
                                    ELSE cases[c]
    BY <1>1, <1>3, <2>1 DEF OpenStep
  <2>3. "EXPIRED" \in CaseStatuses
    BY DEF CaseStatuses
  <2>4. QED
    BY <1>1, <2>1, <2>2, <2>3, WithStatusFields
<1>4. ASSUME NEW d \in Cases, NEW a \in Agents, NEW option \in VoteOptions,
             NEW status \in CaseStatuses, VoteStep(d, a, option, status)
      PROVE  /\ c \in executions'
             /\ cases'[c].executedHeight = cases[c].executedHeight
             /\ votes'[c] = votes[c]
  <2>1. c # d
    BY <1>1, <1>4 DEF VoteStep
  <2>2. QED
    BY <1>1, <1>4, <2>1 DEF VoteStep
<1>5. ASSUME NEW d \in Cases, ExecuteSanction(d)
      PROVE  /\ c \in executions'
             /\ cases'[c].executedHeight = cases[c].executedHeight
             /\ votes'[c] = votes[c]
  <2>1. Executable(d) /\ RecordExecution(d)
    BY <1>5, ExecutionParts
  <2>2. c # d
    BY <2>1 DEF Executable
  <2>3. QED
    BY <1>1, <2>1, <2>2 DEF RecordExecution
<1>6. ASSUME NEW d \in Cases, RevokeSanction(d)
      PROVE  /\ c \in executions'
             /\ cases'[c].executedHeight = cases[c].executedHeight
             /\ votes'[c] = votes[c]
  <2>1. /\ executions' = executions /\ votes' = votes
        /\ cases'[c] = IF c = d THEN WithStatus(cases[c], "REVOKED")
                                ELSE cases[c]
    BY <1>1, <1>6 DEF RevokeSanction
  <2>2. "REVOKED" \in CaseStatuses
    BY DEF CaseStatuses
  <2>3. QED
    BY <1>1, <2>1, <2>2, WithStatusFields
<1>7. QED
  BY <1>1, <1>2, <1>3, <1>4, <1>5, <1>6, CaseSteps

\* Execution records come from ExecuteSanction only.
LEMMA NewExecution ==
  ASSUME BaseInv, [Next]_vars, NEW c \in executions', c \notin executions
  PROVE  /\ c \in Cases
         /\ ExecuteSanction(c)
         /\ Executable(c)
         /\ cases'[c].executedHeight = height
         /\ votes' = votes
<1>1. cases \in [Cases -> Case] /\ height \in Nat
  BY DEF BaseInv, TypeOK
<1>2. PICK d \in Cases : ExecuteSanction(d)
  <2>1. ~UNCHANGED executions
    OBVIOUS
  <2>2. QED
    BY <2>1, CaseSteps DEF caseVars, OpenStep, VoteStep, RevokeSanction
<1>3. Executable(d) /\ RecordExecution(d)
  BY <1>2, ExecutionParts
<1>4. c = d
  BY <1>3 DEF RecordExecution
<1>5. cases'[c] = AsExecuted(cases[c]) /\ votes' = votes
  BY <1>1, <1>3, <1>4 DEF RecordExecution
<1>6. QED
  BY <1>1, <1>2, <1>3, <1>4, <1>5, AsExecutedFields

-----------------------------------------------------------------------------
(***************************************************************************)
(* Execution rests on fresh evidence and on unanimity where required       *)
(***************************************************************************)

\* Nothing is executed on evidence that has expired or that is about another
\* transaction or target (ExecuteSanction, msg_server.go).
THEOREM ExecutedOnFreshEvidenceCorrect == Spec => []ExecutedOnFreshEvidence
<1>1. Init => ExecutedOnFreshEvidence
  BY DEF Init, ExecutedOnFreshEvidence
<1>2. BaseInv /\ BaseInv' /\ ExecutedOnFreshEvidence /\ [Next]_vars
        => ExecutedOnFreshEvidence'
  <2> SUFFICES ASSUME BaseInv, BaseInv', ExecutedOnFreshEvidence, [Next]_vars,
                      NEW c \in executions'
               PROVE  /\ PrimaryReport(cases[c])' # None
                      /\ cases'[c].executedHeight
                           < PrimaryReport(cases[c])'.expiryHeight
                      /\ cases'[c].txHash
                           = PrimaryReport(cases[c])'.transfer.txHash
                      /\ cases'[c].targetAddress \in
                           {None, PrimaryReport(cases[c])'.transfer.recipient}
    BY DEF ExecutedOnFreshEvidence, CaseTransfer
  <2>1. c \in Cases /\ cases[c].status # "ABSENT"
    BY NewExecution, ExecutionsKept DEF Executable
  <2>2. /\ PrimaryReport(cases[c])' = PrimaryReport(cases[c])
        /\ SameTerms(cases[c], cases'[c])
    BY <2>1, TermsKept
  <2>3. /\ PrimaryReport(cases[c]) # None
        /\ cases[c].txHash = CaseTransfer(c).txHash
        /\ cases[c].targetAddress \in {None, CaseTransfer(c).recipient}
    BY <2>1, ConstantsAssumption DEF BaseInv, CasesWellFormed
  <2>4. cases'[c].executedHeight < PrimaryReport(cases[c]).expiryHeight
    <3>1. CASE c \in executions
      BY <3>1, ExecutionsKept DEF ExecutedOnFreshEvidence
    <3>2. CASE c \notin executions
      <4>1. PrimaryReport(cases[c]) \in ReportBody
        BY <2>1, ConstantsAssumption DEF BaseInv, CasesWellFormed
      <4>2. PrimaryReport(cases[c]).expiryHeight > height
        BY <3>2, NewExecution DEF Executable, EvidenceFresh
      <4>3. QED
        BY <3>2, <4>1, <4>2, NewExecution DEF ReportBody, BaseInv, TypeOK
    <3>3. QED
      BY <3>1, <3>2
  <2>5. QED
    BY <2>2, <2>3, <2>4 DEF SameTerms, CaseTransfer
<1>3. QED
  BY <1>1, <1>2, BaseCorrect, PTL DEF Spec

\* A revert under the unanimity rule has every snapshot member's approval
\* (hasUnanimousApproval), also after execution.
THEOREM RevertNeedsUnanimityCorrect == Spec => []RevertNeedsUnanimity
<1>1. Init => RevertNeedsUnanimity
  BY DEF Init, RevertNeedsUnanimity
<1>2. BaseInv /\ RevertNeedsUnanimity /\ [Next]_vars => RevertNeedsUnanimity'
  <2> SUFFICES ASSUME BaseInv, RevertNeedsUnanimity, [Next]_vars,
                      NEW c \in executions',
                      cases'[c].action = "REVERT_TRANSFER",
                      cases'[c].unanimousRequired
               PROVE  HasUnanimousApproval(c)'
    BY DEF RevertNeedsUnanimity
  <2>1. c \in Cases /\ cases[c].status # "ABSENT" /\ votes'[c] = votes[c]
    BY NewExecution, ExecutionsKept DEF Executable
  <2>2. SameTerms(cases[c], cases'[c])
    BY <2>1, TermsKept
  <2>3. HasUnanimousApproval(c)
    <3>1. CASE c \in executions
      BY <2>2, <3>1 DEF RevertNeedsUnanimity, SameTerms
    <3>2. CASE c \notin executions
      BY <2>2, <3>2, NewExecution DEF Executable, UnanimityRequired, SameTerms
    <3>3. QED
      BY <3>1, <3>2
  <2>4. QED
    BY <2>1, <2>2, <2>3 DEF HasUnanimousApproval, SnapshotVoters, SameTerms
<1>3. QED
  BY <1>1, <1>2, BaseCorrect, PTL DEF Spec

-----------------------------------------------------------------------------
(***************************************************************************)
(* Settlements                                                             *)
(***************************************************************************)

\* Which actions write each of the stores that cases act on.
LEMMA Writers ==
  ASSUME [Next]_vars
  PROVE  /\ UNCHANGED settlements \/ \E c \in Cases : ExecuteSettlement(c)
         /\ UNCHANGED receipts \/ \E tx \in Txs : DeliverTx(tx)
         /\ \/ UNCHANGED balance
            \/ \E tx \in Txs : DeliverTx(tx)
            \/ \E c \in Cases : ExecuteSettlement(c)
         /\ \/ UNCHANGED freeze
            \/ \E c \in Cases : ExecuteFreeze(c) \/ RevokeSanction(c)
         /\ \/ UNCHANGED active
            \/ \E c \in Cases, a \in Agents, option \in VoteOptions :
                 SubmitSanctionVote(c, a, option)
            \/ \E c \in Cases : ExecuteBlockTx(c) \/ RevokeSanction(c)
         /\ \/ UNCHANGED reviews
            \/ \E c \in Cases : ReviewSanction(c) \/ RevokeSanction(c)
         /\ \/ UNCHANGED <<height, committedActive>>
            \/ \E powers \in PowerMaps : EndBlock(powers)
<1>1. CASE \E tx \in Txs : DeliverTx(tx)
  BY <1>1 DEF DeliverTx
<1>2. CASE \E powers \in PowerMaps : EndBlock(powers)
  BY <1>2 DEF EndBlock, fundVars
<1>3. CASE \/ \E powers \in PowerMaps : RegisterAgent(powers)
           \/ \E p \in ParamSets : UpdateParams(p)
           \/ \E r \in Reports, body \in ReportBodies :
                SubmitRiskReport(r, body)
           \/ \E c \in Cases : ReviewSanction(c)
  BY <1>3 DEF RegisterAgent, UpdateParams, SubmitRiskReport, ReviewSanction, fundVars
<1>4. CASE \E c \in Cases, targetType \in TargetTypes,
              target \in Accounts \cup {None}, ids \in ReportIdLists,
              previous \in Cases \cup {None} :
             OpenSanctionCase(c, targetType, target, ids, previous)
  BY <1>4 DEF OpenSanctionCase, fundVars
<1>5. CASE \E c \in Cases, a \in Agents, option \in VoteOptions :
             SubmitSanctionVote(c, a, option)
  <2>1. UNCHANGED <<height, reviews, committedActive, freeze, fundVars>>
    BY <1>5 DEF SubmitSanctionVote
  <2>2. QED
    BY <1>5, <2>1 DEF fundVars
<1>6. CASE \E c \in Cases : ExecuteSanction(c)
  BY <1>6 DEF ExecuteSanction, ExecuteWatch, ExecuteBlockTx, ExecuteFreeze,
              ExecuteSettlement, RecordExecution
<1>7. CASE \E c \in Cases : RevokeSanction(c)
  BY <1>7 DEF RevokeSanction, fundVars
<1>8. CASE UNCHANGED vars
  BY <1>8 DEF vars
<1>9. QED
  BY <1>1, <1>2, <1>3, <1>4, <1>5, <1>6, <1>7, <1>8 DEF Next

\* A receipt is written once.
LEMMA ReceiptsKept ==
  ASSUME BaseInv, [Next]_vars, NEW tx \in Txs, receipts[tx] # 0
  PROVE  receipts'[tx] = receipts[tx]
  BY Writers DEF DeliverTx, BaseInv, TypeOK

\* A settlement consumes an original transfer that nobody settled before, in
\* a block after the transfer, and is recorded under the executing case.
LEMMA SettlementStep ==
  ASSUME BaseInv, NEW c \in Cases, ExecuteSettlement(c)
  PROVE  /\ CaseTransfer(c) \in Originals
         /\ CaseTransfer(c).txHash \in Txs
         /\ settlements[CaseTransfer(c)] = None
         /\ receipts[CaseTransfer(c).txHash] # 0
         /\ receipts[CaseTransfer(c).txHash] < height
         /\ settlements' = [settlements EXCEPT ![CaseTransfer(c)] = c]
         /\ receipts' = receipts
         /\ executions' = executions \cup {c}
         /\ cases[c].action \in MonetaryActions
         /\ cases[c].status # "ABSENT"
         /\ c \notin executions
<1>1. /\ Executable(c)
      /\ UnsettledOriginal(CaseTransfer(c))
      /\ settlements' = [settlements EXCEPT ![CaseTransfer(c)] = c]
      /\ RecordExecution(c)
      /\ cases[c].action \in MonetaryActions
  BY DEF ExecuteSettlement, CaseTransfer
<1>2. cases[c].status # "ABSENT" /\ c \notin executions
  BY <1>1 DEF Executable
<1>3. CaseTransfer(c).txHash \in Txs
  BY <1>2, CaseEvidence DEF Transfer
<1>4. QED
  BY <1>1, <1>2, <1>3 DEF UnsettledOriginal, Originals, RecordExecution

\* No transfer is settled twice, whichever cases are approved for it, and no
\* case is executed without settling its own transfer (unsettledOriginal,
\* SetSettlement).
THEOREM OneSettlementPerTransferCorrect == Spec => []OneSettlementPerTransfer
<1>1. Init => OneSettlementPerTransfer
  BY DEF Init, OneSettlementPerTransfer
<1>2. BaseInv /\ OneSettlementPerTransfer /\ [Next]_vars
        => OneSettlementPerTransfer'
  <2> SUFFICES ASSUME BaseInv, OneSettlementPerTransfer, [Next]_vars
               PROVE  OneSettlementPerTransfer'
    OBVIOUS
  <2>1. /\ settlements \in [Originals -> Cases \cup {None}]
        /\ None \notin Cases
        /\ executions \subseteq Cases
    BY ConstantsAssumption DEF BaseInv, TypeOK
  <2>2. ASSUME NEW c \in executions', cases'[c].action \in MonetaryActions
        PROVE  /\ CaseTransfer(c)' \in Originals
               /\ settlements'[CaseTransfer(c)'] = c
    <3>1. c \in Cases /\ cases[c].status # "ABSENT"
      BY NewExecution, ExecutionsKept DEF Executable
    <3>2. /\ CaseTransfer(c)' = CaseTransfer(c)
          /\ cases'[c].action = cases[c].action
      BY <3>1, TermsKept DEF SameTerms, CaseTransfer
    <3>3. CASE c \in executions
      <4>1. /\ CaseTransfer(c) \in Originals
            /\ settlements[CaseTransfer(c)] = c
        BY <2>2, <3>2, <3>3 DEF OneSettlementPerTransfer
      <4>2. settlements'[CaseTransfer(c)] = c
        <5>1. CASE UNCHANGED settlements
          BY <4>1, <5>1
        <5>2. ASSUME NEW d \in Cases, ExecuteSettlement(d)
              PROVE  settlements'[CaseTransfer(c)] = c
          <6>1. CaseTransfer(d) # CaseTransfer(c)
            BY <2>1, <3>1, <4>1, <5>2, SettlementStep
          <6>2. QED
            BY <2>1, <4>1, <5>2, <6>1, SettlementStep
        <5>3. QED
          BY <5>1, <5>2, Writers
      <4>3. QED
        BY <3>2, <4>1, <4>2
    <3>4. CASE c \notin executions
      <4>1. ExecuteSanction(c)
        BY <3>4, NewExecution
      <4>2. ExecuteSettlement(c)
        BY <2>2, <3>2, <4>1 DEF ExecuteSanction, ExecuteWatch, ExecuteBlockTx,
                                ExecuteFreeze, MonetaryActions
      <4>3. QED
        BY <2>1, <3>1, <3>2, <4>2, SettlementStep
    <3>5. QED
      BY <3>3, <3>4
  <2>3. ASSUME NEW t \in Originals, settlements'[t] # None
        PROVE  /\ settlements'[t] \in executions'
               /\ cases'[settlements'[t]].action \in MonetaryActions
               /\ CaseTransfer(settlements[t])' = t
               /\ receipts'[t.txHash] # 0
               /\ receipts'[t.txHash] < cases'[settlements'[t]].executedHeight
    <3>1. CASE settlements'[t] = settlements[t]
      <4>0. PICK d \in Cases : d = settlements[t]
        BY <2>1, <2>3, <3>1
      <4>1. /\ d \in executions
            /\ cases[d].action \in MonetaryActions
            /\ CaseTransfer(d) = t
            /\ receipts[t.txHash] # 0
            /\ receipts[t.txHash] < cases[d].executedHeight
        BY <2>3, <3>1, <4>0 DEF OneSettlementPerTransfer
      <4>2. /\ d \in Cases
            /\ d \in executions'
            /\ cases[d].status # "ABSENT"
            /\ cases'[d].executedHeight = cases[d].executedHeight
        BY <4>1, ExecutionsKept
      <4>3. /\ PrimaryReport(cases[d])' = PrimaryReport(cases[d])
            /\ cases'[d].action = cases[d].action
        BY <4>2, TermsKept DEF SameTerms
      <4>4. t.txHash \in Txs
        BY <4>1, <4>2, CaseEvidence DEF Transfer
      <4>5. receipts'[t.txHash] = receipts[t.txHash]
        BY <4>1, <4>4, ReceiptsKept
      <4>6. QED
        BY <3>1, <4>0, <4>1, <4>2, <4>3, <4>5 DEF CaseTransfer, PrimaryReport
    <3>2. CASE settlements'[t] # settlements[t]
      <4>1. PICK d \in Cases : ExecuteSettlement(d)
        BY <3>2, Writers
      <4>2. t = CaseTransfer(d) /\ settlements'[t] = d
        BY <2>1, <3>2, <4>1, SettlementStep
      <4>3. d \in executions' /\ d \notin executions
        BY <4>1, SettlementStep
      <4>4. cases'[d].executedHeight = height
        BY <4>3, NewExecution
      <4>5. /\ PrimaryReport(cases[d])' = PrimaryReport(cases[d])
            /\ cases'[d].action = cases[d].action
        BY <4>1, SettlementStep, TermsKept DEF SameTerms
      <4>6. QED
        BY <4>1, <4>2, <4>3, <4>4, <4>5, SettlementStep
        DEF CaseTransfer, PrimaryReport
    <3>3. QED
      BY <3>1, <3>2
  <2>4. QED
    BY <2>2, <2>3 DEF OneSettlementPerTransfer
<1>3. QED
  BY <1>1, <1>2, BaseCorrect, PTL DEF Spec

-----------------------------------------------------------------------------
(***************************************************************************)
(* Statuses, owners of sanctions, and revocation                           *)
(***************************************************************************)

\* How the status of one case can move in a step.
LEMMA StatusMoves ==
  ASSUME BaseInv, [Next]_vars, NEW c \in Cases
  PROVE  \/ cases'[c].status = cases[c].status
         \/ cases[c].status = "ABSENT" /\ cases'[c].status = "PENDING"
         \/ /\ cases[c].status \in {"PENDING", "APPROVED", "EXPIRED"}
            /\ cases'[c].status = "EXPIRED"
         \/ /\ \/ cases[c].status = "PENDING"
               \/ /\ cases[c].status = "APPROVED"
                  /\ cases[c].action = "REVERT_TRANSFER"
            /\ cases'[c].status \in {"PENDING", "APPROVED", "REJECTED"}
            /\ \E a \in Agents, option \in VoteOptions :
                 SubmitSanctionVote(c, a, option)
         \/ cases[c].status = "APPROVED" /\ cases'[c].status = "EXECUTED"
         \/ RevokeSanction(c) /\ cases'[c].status = "REVOKED"
<1>1. /\ cases \in [Cases -> Case] /\ height \in Nat
      /\ {"EXPIRED", "REVOKED"} \subseteq CaseStatuses
  BY DEF BaseInv, TypeOK, CaseStatuses
<1> DEFINE Move == \/ cases'[c].status = cases[c].status
                   \/ cases[c].status = "ABSENT" /\ cases'[c].status = "PENDING"
                   \/ /\ cases[c].status \in {"PENDING", "APPROVED", "EXPIRED"}
                      /\ cases'[c].status = "EXPIRED"
                   \/ /\ \/ cases[c].status = "PENDING"
                         \/ /\ cases[c].status = "APPROVED"
                            /\ cases[c].action = "REVERT_TRANSFER"
                      /\ cases'[c].status \in {"PENDING", "APPROVED", "REJECTED"}
                      /\ \E a \in Agents, option \in VoteOptions :
                           SubmitSanctionVote(c, a, option)
                   \/ cases[c].status = "APPROVED" /\ cases'[c].status = "EXECUTED"
                   \/ RevokeSanction(c) /\ cases'[c].status = "REVOKED"
<1>2. CASE UNCHANGED caseVars
  BY <1>2 DEF caseVars
<1>3. ASSUME NEW d \in Cases, NEW ids \in ReportIdLists,
             NEW previous \in Cases \cup {None}, NEW k \in Case,
             OpenStep(d, ids, previous, k)
      PROVE  Move
  <2>1. CASE c = d
    BY <1>3, <2>1 DEF OpenStep
  <2>2. CASE c # d /\ c = previous
    <3>1. cases'[c] = WithStatus(cases[c], "EXPIRED")
      BY <1>3, <2>2 DEF OpenStep
    <3>2. cases[c].status \in {"PENDING", "APPROVED", "EXPIRED"}
      BY <1>3, <2>2, ConstantsAssumption DEF OpenStep, Replaceable
    <3>3. QED
      BY <1>1, <3>1, <3>2, WithStatusFields
  <2>3. CASE c # d /\ c # previous
    BY <1>3, <2>3 DEF OpenStep
  <2>4. QED
    BY <2>1, <2>2, <2>3
<1>4. ASSUME NEW d \in Cases, NEW a \in Agents, NEW option \in VoteOptions,
             NEW status \in CaseStatuses, VoteStep(d, a, option, status),
             SubmitSanctionVote(d, a, option)
      PROVE  Move
  <2>1. CASE c = d
    BY <1>1, <1>4, <2>1, WithStatusFields DEF VoteStep
  <2>2. CASE c # d
    BY <1>1, <1>4, <2>2 DEF VoteStep
  <2>3. QED
    BY <2>1, <2>2
<1>5. ASSUME NEW d \in Cases, ExecuteSanction(d)
      PROVE  Move
  BY <1>1, <1>5, ExecutionParts, AsExecutedFields
  DEF Executable, RecordExecution
<1>6. ASSUME NEW d \in Cases, RevokeSanction(d)
      PROVE  Move
  <2>1. cases' = [cases EXCEPT ![d] = WithStatus(cases[d], "REVOKED")]
    BY <1>6 DEF RevokeSanction
  <2>2. QED
    BY <1>1, <1>6, <2>1, WithStatusFields
<1>7. QED
  BY <1>2, <1>3, <1>4, <1>5, <1>6, CaseSteps

\* A case is revoked only after a review in an earlier block (ReviewSanction,
\* RevokeSanction), and a closed review means a revoked case.
THEOREM RevokedAfterReviewCorrect == Spec => []RevokedAfterReview
<1>1. Init => RevokedAfterReview
  BY DEF Init, RevokedAfterReview, AbsentCase
<1>2. BaseInv /\ RevokedAfterReview /\ [Next]_vars => RevokedAfterReview'
  <2> SUFFICES ASSUME BaseInv, RevokedAfterReview, [Next]_vars, NEW c \in Cases
               PROVE  /\ cases'[c].status = "REVOKED" =>
                           /\ reviews'[c] # None
                           /\ reviews'[c].revokedHeight # 0
                      /\ reviews'[c] # None /\ reviews'[c].revokedHeight # 0 =>
                           /\ cases'[c].status = "REVOKED"
                           /\ reviews'[c].reviewedHeight
                                < reviews'[c].revokedHeight
    BY DEF RevokedAfterReview
  <2>1. /\ reviews \in [Cases -> Review \cup {None}]
        /\ height \in Nat \ {0}
    BY DEF BaseInv, TypeOK
  <2>2. CASE RevokeSanction(c)
    <3>1. cases'[c].status = "REVOKED"
      BY <2>2, WithStatusFields DEF RevokeSanction, BaseInv, TypeOK, CaseStatuses
    <3>2. /\ reviews[c].reviewedHeight < height
          /\ reviews'[c] = [reviewedHeight |-> reviews[c].reviewedHeight,
                            revokedHeight |-> height]
      BY <2>1, <2>2 DEF RevokeSanction, ReviewPermitsRevoke
    <3>3. reviews'[c] # None
      <4>1. reviews[c] \in Review
        BY <2>1, <2>2 DEF RevokeSanction, ReviewPermitsRevoke
      <4>2. reviews'[c] \in Review
        BY <2>1, <3>2, <4>1 DEF Review
      <4>3. QED
        BY <4>2, ConstantsAssumption
    <3>4. QED
      BY <2>1, <3>1, <3>2, <3>3
  <2>3. CASE ~RevokeSanction(c)
    <3>1. (cases'[c].status = "REVOKED") <=> (cases[c].status = "REVOKED")
      BY <2>3, StatusMoves
    <3>2. \/ reviews'[c] = reviews[c]
          \/ ReviewSanction(c)
      BY <2>1, <2>3, Writers DEF ReviewSanction, RevokeSanction
    <3>3. CASE reviews'[c] = reviews[c]
      BY <3>1, <3>3 DEF RevokedAfterReview
    <3>4. CASE ReviewSanction(c)
      <4>1. reviews'[c].revokedHeight = 0 /\ cases[c].status # "REVOKED"
        BY <2>1, <3>4 DEF ReviewSanction
      <4>2. QED
        BY <3>1, <4>1
    <3>5. QED
      BY <3>2, <3>3, <3>4
  <2>4. QED
    BY <2>2, <2>3
<1>3. QED
  BY <1>1, <1>2, BaseCorrect, PTL DEF Spec

\* The records a vote or an execution writes for a BLOCK_TX case.
LEMMA ActiveSteps ==
  ASSUME BaseInv, [Next]_vars, NEW tx \in Txs, active'[tx] # active[tx]
  PROVE  \/ /\ active'[tx] = None
            /\ \E c \in Cases : /\ RevokeSanction(c)
                                /\ active[tx].caseId = c
         \/ \E c \in Cases :
              /\ active'[tx] = [caseId |-> c, activatedHeight |-> height]
              /\ cases[c].txHash = tx
              /\ cases[c].action = "BLOCK_TX"
              /\ cases[c].status # "ABSENT"
              /\ cases'[c].status \in {"APPROVED", "EXECUTED"}
              /\ UNCHANGED <<height, receipts, committedActive>>
<1>1. /\ cases \in [Cases -> Case] /\ height \in Nat
      /\ active \in [Txs -> ActiveSanction \cup {None}]
  BY DEF BaseInv, TypeOK
<1>2. ASSUME NEW c \in Cases, NEW a \in Agents, NEW option \in VoteOptions,
             SubmitSanctionVote(c, a, option)
      PROVE  /\ active'[tx] = [caseId |-> c, activatedHeight |-> height]
             /\ cases[c].txHash = tx
             /\ cases[c].action = "BLOCK_TX"
             /\ cases[c].status # "ABSENT"
             /\ cases'[c].status \in {"APPROVED", "EXECUTED"}
             /\ UNCHANGED <<height, receipts, committedActive>>
  <2>1. PICK status \in CaseStatuses : VoteStep(c, a, option, status)
    BY <1>2, VoteStepExists
  <2>2. status = "APPROVED" /\ cases[c].action = "BLOCK_TX"
    BY <2>1 DEF VoteStep
  <2>3. cases'[c].status = "APPROVED"
    BY <1>1, <2>1, <2>2, WithStatusFields DEF VoteStep
  <2>4. active' = [active EXCEPT ![cases[c].txHash] =
                     [caseId |-> c, activatedHeight |-> height]]
    BY <2>1, <2>2 DEF VoteStep
  <2>5. QED
    BY <1>1, <2>1, <2>2, <2>3, <2>4 DEF VoteStep, fundVars
<1>3. ASSUME NEW c \in Cases, ExecuteBlockTx(c)
      PROVE  /\ active'[tx] = [caseId |-> c, activatedHeight |-> height]
             /\ cases[c].txHash = tx
             /\ cases[c].action = "BLOCK_TX"
             /\ cases[c].status # "ABSENT"
             /\ cases'[c].status \in {"APPROVED", "EXECUTED"}
             /\ UNCHANGED <<height, receipts, committedActive>>
  <2>1. cases'[c].status = "EXECUTED"
    BY <1>1, <1>3, AsExecutedFields DEF ExecuteBlockTx, RecordExecution
  <2>2. QED
    BY <1>1, <1>3, <2>1 DEF ExecuteBlockTx, RecordExecution, Executable
<1>4. ASSUME NEW c \in Cases, RevokeSanction(c)
      PROVE  active'[tx] = None /\ active[tx].caseId = c
  BY <1>4 DEF RevokeSanction, ActiveWithout
<1>5. QED
  BY <1>2, <1>3, <1>4, Writers

\* A sanction or a freeze in force always has a decided, unrevoked owner: what
\* a case put in force is gone once the case is revoked (recomputeCaseStatus,
\* ExecuteSanction, RevokeSanction).
THEOREM SanctionsHaveLiveOwnerCorrect == Spec => []SanctionsHaveLiveOwner
<1>1. Init => SanctionsHaveLiveOwner
  BY DEF Init, SanctionsHaveLiveOwner
<1>2. BaseInv /\ SanctionsHaveLiveOwner /\ [Next]_vars
        => SanctionsHaveLiveOwner'
  <2> SUFFICES ASSUME BaseInv, SanctionsHaveLiveOwner, [Next]_vars
               PROVE  SanctionsHaveLiveOwner'
    OBVIOUS
  <2>1. /\ cases \in [Cases -> Case] /\ height \in Nat
        /\ active \in [Txs -> ActiveSanction \cup {None}]
        /\ freeze \in [Accounts -> Cases \cup {None}]
        /\ None \notin Cases
    BY ConstantsAssumption DEF BaseInv, TypeOK
  <2>2. ASSUME NEW tx \in Txs, active'[tx] # None
        PROVE  /\ cases'[active'[tx].caseId].action = "BLOCK_TX"
               /\ cases'[active'[tx].caseId].txHash = tx
               /\ cases'[active'[tx].caseId].status
                    \in {"APPROVED", "EXECUTED", "EXPIRED"}
    <3>1. CASE active'[tx] = active[tx]
      <4>1. PICK c \in Cases : c = active[tx].caseId
        BY <2>1, <2>2, <3>1 DEF ActiveSanction
      <4>2. /\ cases[c].action = "BLOCK_TX"
            /\ cases[c].txHash = tx
            /\ cases[c].status \in {"APPROVED", "EXECUTED", "EXPIRED"}
        BY <2>2, <3>1, <4>1 DEF SanctionsHaveLiveOwner
      <4>3. ~RevokeSanction(c)
        BY <2>2, <3>1, <4>1, <4>2 DEF RevokeSanction, ActiveWithout
      <4>4. cases'[c].status \in {"APPROVED", "EXECUTED", "EXPIRED"}
        BY <4>2, <4>3, StatusMoves
      <4>5. SameTerms(cases[c], cases'[c])
        BY <4>2, TermsKept
      <4>6. QED
        BY <3>1, <4>1, <4>2, <4>4, <4>5 DEF SameTerms
    <3>2. CASE active'[tx] # active[tx]
      <4>1. PICK c \in Cases :
              /\ active'[tx] = [caseId |-> c, activatedHeight |-> height]
              /\ cases[c].txHash = tx
              /\ cases[c].action = "BLOCK_TX"
              /\ cases[c].status # "ABSENT"
              /\ cases'[c].status \in {"APPROVED", "EXECUTED"}
        BY <2>2, <3>2, ActiveSteps
      <4>2. SameTerms(cases[c], cases'[c])
        BY <4>1, TermsKept
      <4>3. QED
        BY <4>1, <4>2 DEF SameTerms
    <3>3. QED
      BY <3>1, <3>2
  <2>3. ASSUME NEW x \in Accounts, freeze'[x] # None
        PROVE  /\ cases'[freeze'[x]].action = "FREEZE_ADDRESS"
               /\ cases'[freeze'[x]].targetAddress = x
               /\ cases'[freeze'[x]].status = "EXECUTED"
    <3>1. CASE freeze'[x] = freeze[x]
      <4>1. PICK c \in Cases : c = freeze[x]
        BY <2>1, <2>3, <3>1
      <4>2. /\ cases[c].action = "FREEZE_ADDRESS"
            /\ cases[c].targetAddress = x
            /\ cases[c].status = "EXECUTED"
        BY <2>3, <3>1, <4>1 DEF SanctionsHaveLiveOwner
      <4>3. ~RevokeSanction(c)
        BY <2>3, <3>1, <4>1, <4>2 DEF RevokeSanction, FreezeWithout
      <4>4. cases'[c].status = "EXECUTED"
        BY <4>2, <4>3, StatusMoves
      <4>5. SameTerms(cases[c], cases'[c])
        BY <4>2, TermsKept
      <4>6. QED
        BY <3>1, <4>1, <4>2, <4>4, <4>5 DEF SameTerms
    <3>2. CASE freeze'[x] # freeze[x]
      <4>1. PICK c \in Cases : ExecuteFreeze(c)
        BY <2>1, <2>3, <3>2, Writers DEF RevokeSanction, FreezeWithout
      <4>2. /\ freeze'[x] = c
            /\ cases[c].targetAddress = x
            /\ cases[c].action = "FREEZE_ADDRESS"
            /\ cases[c].status = "APPROVED"
        BY <2>1, <3>2, <4>1 DEF ExecuteFreeze, Executable
      <4>3. cases'[c].status = "EXECUTED"
        BY <2>1, <4>1, AsExecutedFields DEF ExecuteFreeze, RecordExecution
      <4>4. SameTerms(cases[c], cases'[c])
        BY <4>2, TermsKept
      <4>5. QED
        BY <4>2, <4>3, <4>4 DEF SameTerms
    <3>3. QED
      BY <3>1, <3>2
  <2>4. QED
    BY <2>2, <2>3 DEF SanctionsHaveLiveOwner
<1>3. QED
  BY <1>1, <1>2, BaseCorrect, PTL DEF Spec

-----------------------------------------------------------------------------
(***************************************************************************)
(* Deliveries, frozen coins and replacements                               *)
(***************************************************************************)

\* A sanctioned transaction is not delivered after the block that sanctioned
\* it. The invariant that carries the proof, SanctionTiming, says that a
\* sanction the proposals cannot see yet is of the current block.
THEOREM NoDeliveryUnderSanctionCorrect == Spec => []NoDeliveryUnderSanction
<1> DEFINE Timed == SanctionTiming /\ NoDeliveryUnderSanction
<1>1. Init => Timed
  BY DEF Init, SanctionTiming, NoDeliveryUnderSanction
<1>2. BaseInv /\ Timed /\ [Next]_vars => Timed'
  <2> SUFFICES ASSUME BaseInv, Timed, [Next]_vars, NEW tx \in Txs
               PROVE  /\ receipts'[tx] <= height'
                      /\ active'[tx] # None =>
                           /\ active'[tx].activatedHeight <= height'
                           /\ tx \notin committedActive' =>
                                active'[tx].activatedHeight = height'
                           /\ receipts'[tx] <= active'[tx].activatedHeight
    BY DEF SanctionTiming, NoDeliveryUnderSanction
  <2>1. /\ height \in Nat /\ receipts \in [Txs -> Nat]
        /\ active \in [Txs -> ActiveSanction \cup {None}]
    BY DEF BaseInv, TypeOK
  <2>2. /\ receipts[tx] <= height
        /\ active[tx] # None =>
             /\ active[tx].activatedHeight \in Nat
             /\ active[tx].activatedHeight <= height
             /\ tx \notin committedActive =>
                  active[tx].activatedHeight = height
             /\ receipts[tx] <= active[tx].activatedHeight
    BY <2>1 DEF SanctionTiming, NoDeliveryUnderSanction, ActiveSanction
  <2>3. CASE active'[tx] # active[tx]
    <3>1. CASE active'[tx] = None
      <4>1. PICK c \in Cases : RevokeSanction(c)
        <5>1. \A c \in Cases :
                [caseId |-> c, activatedHeight |-> height] # None
          BY <2>1, ConstantsAssumption DEF ActiveSanction
        <5>2. QED
          BY <2>3, <3>1, <5>1, ActiveSteps
      <4>2. UNCHANGED <<height, receipts>>
        BY <4>1 DEF RevokeSanction, fundVars
      <4>3. QED
        BY <2>2, <3>1, <4>2
    <3>2. CASE active'[tx] # None
      <4>1. PICK c \in Cases :
              /\ active'[tx] = [caseId |-> c, activatedHeight |-> height]
              /\ UNCHANGED <<height, receipts, committedActive>>
        BY <2>3, <3>2, ActiveSteps
      <4>2. QED
        BY <2>1, <2>2, <4>1
    <3>3. QED
      BY <3>1, <3>2
  <2>4. CASE active'[tx] = active[tx]
    <3>1. ASSUME NEW powers \in PowerMaps, EndBlock(powers)
          PROVE  /\ receipts' = receipts
                 /\ height' = height + 1
                 /\ active[tx] # None => tx \in committedActive'
      BY <3>1 DEF EndBlock, fundVars
    <3>2. ASSUME NEW t \in Txs, DeliverTx(t)
          PROVE  /\ UNCHANGED <<height, committedActive>>
                 /\ tx = t => receipts'[tx] = height /\ tx \notin committedActive
                 /\ tx # t => receipts'[tx] = receipts[tx]
      BY <2>1, <3>2 DEF DeliverTx, ProposalAllows
    <3>3. CASE \E powers \in PowerMaps : EndBlock(powers)
      BY <2>1, <2>2, <2>4, <3>1, <3>3
    <3>4. CASE \E t \in Txs : DeliverTx(t)
      BY <2>1, <2>2, <2>4, <3>2, <3>4
    <3>5. CASE UNCHANGED <<height, committedActive, receipts>>
      BY <2>2, <2>4, <3>5
    <3>6. QED
      BY <3>3, <3>4, <3>5, Writers
  <2>5. QED
    BY <2>3, <2>4
<1>3. Timed => NoDeliveryUnderSanction
  OBVIOUS
<1> HIDE DEF Timed
<1>4. QED
  BY <1>1, <1>2, <1>3, BaseCorrect, PTL DEF Spec

\* The coins of a frozen address move by a settlement or not at all (the
\* send restriction SendCoinsAllowed and its settlement exemption).
THEOREM FrozenCoinsCorrect == Spec => FrozenCoinsMoveOnlyBySettlement
<1>1. BaseInv /\ [Next]_vars =>
        [\A x \in Accounts : freeze[x] # None /\ balance'[x] # balance[x] =>
           settlements' # settlements]_vars
  <2> SUFFICES ASSUME BaseInv, [Next]_vars, NEW x \in Accounts,
                      freeze[x] # None, balance'[x] # balance[x]
               PROVE  settlements' # settlements
    OBVIOUS
  <2>1. ASSUME NEW tx \in Txs, DeliverTx(tx) PROVE FALSE
    <3>1. \A m \in TxMsgs[tx] : m.sender # x /\ m.recipient # x
      BY <2>1 DEF DeliverTx, SendCoinsAllowed
    <3>2. Outflow(tx, x) = 0 /\ Inflow(tx, x) = 0
      BY <3>1, FlowsAreNatural
    <3>3. balance'[x] = (balance[x] - 0) + 0
      BY <2>1, <3>2 DEF DeliverTx
    <3>4. QED
      BY <3>3 DEF BaseInv, TypeOK
  <2>2. ASSUME NEW c \in Cases, ExecuteSettlement(c)
        PROVE  settlements' # settlements
    BY <2>2, SettlementStep, ConstantsAssumption DEF BaseInv, TypeOK
  <2>3. QED
    BY <2>1, <2>2, Writers
<1>2. QED
  BY <1>1, BaseCorrect, PTL DEF Spec, FrozenCoinsMoveOnlyBySettlement

\* A case that names a predecessor after a step was there before it, or the
\* step opened it.
LEMMA PredecessorSteps ==
  ASSUME BaseInv, [Next]_vars, NEW c \in Cases, NEW p \in Cases,
         cases'[c].previousCaseId = p
  PROVE  \/ cases[c].status # "ABSENT" /\ cases[c].previousCaseId = p
         \/ /\ cases[c].status = "ABSENT"
            /\ ~HasReplacement(p)
            /\ cases[p].status \in {"PENDING", "APPROVED", "EXPIRED"}
            /\ p \notin executions
            /\ cases'[p].status = "EXPIRED"
            /\ executions' = executions
            /\ CaseTransfer(c)' = CaseTransfer(p)
            /\ \A d \in Cases \ {c} :
                 cases'[d].previousCaseId = cases[d].previousCaseId
<1>1. /\ cases \in [Cases -> Case] /\ None \notin Cases
      /\ "EXPIRED" \in CaseStatuses
  BY ConstantsAssumption DEF BaseInv, TypeOK, CaseStatuses
<1>2. CASE cases[c].status # "ABSENT"
  BY <1>2, TermsKept DEF SameTerms
<1>3. CASE cases[c].status = "ABSENT"
  <2>1. cases[c].previousCaseId = None
    BY <1>3 DEF BaseInv, CasesWellFormed
  <2>2. cases'[c] # cases[c]
    BY <1>1, <2>1
  <2>3. PICK d \in Cases, ids \in ReportIdLists,
             previous \in Cases \cup {None}, k \in Case :
          OpenStep(d, ids, previous, k)
    <3>1. ~UNCHANGED caseVars
      BY <2>2 DEF caseVars
    <3>2. \A d \in Cases, a \in Agents, option \in VoteOptions,
             status \in CaseStatuses : ~VoteStep(d, a, option, status)
      BY <1>1, <1>3, <2>2 DEF VoteStep
    <3>3. \A d \in Cases : ~ExecuteSanction(d)
      BY <1>1, <1>3, <2>2, ExecutionParts DEF Executable, RecordExecution
    <3>4. \A d \in Cases : ~RevokeSanction(d)
      BY <1>1, <1>3, <2>2 DEF RevokeSanction
    <3>5. QED
      BY <3>1, <3>2, <3>3, <3>4, CaseSteps
  <2>4. \A x \in Cases : cases'[x] =
          IF x = d THEN k
          ELSE IF x = previous THEN WithStatus(cases[x], "EXPIRED")
               ELSE cases[x]
    BY <2>3 DEF OpenStep
  <2>5. c = d
    <3>1. CASE c # d
      <4>1. cases'[c].previousCaseId = cases[c].previousCaseId
        BY <1>1, <2>4, <3>1, WithStatusFields
      <4>2. QED
        BY <1>1, <2>1, <4>1
    <3>2. QED
      BY <3>1
  <2>6. previous = p
    BY <2>3, <2>4, <2>5 DEF OpenStep
  <2>7. PICK type \in TargetTypes : Replaceable(p, ids[1], type)
    BY <1>1, <2>3, <2>6 DEF OpenStep
  <2>8. /\ cases[p].status \in {"PENDING", "APPROVED", "EXPIRED"}
        /\ p \notin executions
        /\ reports[ids[1]].transfer = PrimaryReport(cases[p]).transfer
        /\ ~HasReplacement(p)
    BY <2>7 DEF Replaceable
  <2>9. p # c
    BY <1>3, <2>8
  <2>10. cases'[p].status = "EXPIRED"
    BY <1>1, <2>4, <2>5, <2>6, <2>9, WithStatusFields
  <2>11. \A x \in Cases \ {c} :
           cases'[x].previousCaseId = cases[x].previousCaseId
    BY <1>1, <2>4, <2>5, WithStatusFields
  <2>12. CaseTransfer(c)' = CaseTransfer(p)
    BY <2>3, <2>4, <2>5, <2>8 DEF OpenStep, CaseTransfer, PrimaryReport
  <2>13. executions' = executions
    BY <2>3 DEF OpenStep
  <2>14. QED
    BY <1>3, <2>8, <2>10, <2>11, <2>12, <2>13
<1>4. QED
  BY <1>2, <1>3

\* Of a chain of replacements at most the last case can take effect
\* (expireForReplacement): a replaced case is never executed, and it is
\* replaced once.
THEOREM ReplacedNeverExecutesCorrect == Spec => []ReplacedNeverExecutes
<1>1. Init => ReplacedNeverExecutes
  BY DEF Init, ReplacedNeverExecutes, AbsentCase
<1>2. BaseInv /\ BaseInv' /\ ReplacedNeverExecutes /\ [Next]_vars
        => ReplacedNeverExecutes'
  <2> SUFFICES ASSUME BaseInv, BaseInv', ReplacedNeverExecutes, [Next]_vars
               PROVE  ReplacedNeverExecutes'
    OBVIOUS
  <2>0. \A c \in Cases : cases'[c].previousCaseId \in Cases \cup {None}
    <3>1. cases' \in [Cases -> Case]
      BY DEF BaseInv, TypeOK
    <3>2. \A k \in Case : k.previousCaseId \in Cases \cup {None}
      BY DEF Case
    <3>3. QED
      BY <3>1, <3>2
  <2> SUFFICES ASSUME NEW c \in Cases, NEW p \in Cases,
                      cases'[c].previousCaseId = p
               PROVE  /\ cases'[p].status \in {"EXPIRED", "REVOKED"}
                      /\ p \notin executions'
                      /\ cases'[p].reportIds # <<>>
                      /\ CaseTransfer(p)' = CaseTransfer(c)'
                      /\ \A d \in Cases : cases'[d].previousCaseId = p => d = c
    BY <2>0 DEF ReplacedNeverExecutes, CaseTransfer, PrimaryReport
  <2>1. None \notin Cases
    BY ConstantsAssumption
  <2>2. CASE cases[c].status # "ABSENT" /\ cases[c].previousCaseId = p
    <3>1. /\ cases[p].status \in {"EXPIRED", "REVOKED"}
          /\ p \notin executions
          /\ cases[p].reportIds # <<>>
          /\ CaseTransfer(p) = CaseTransfer(c)
          /\ \A d \in Cases : cases[d].previousCaseId = p => d = c
      BY <2>1, <2>2 DEF ReplacedNeverExecutes
    <3>2. cases'[p].status \in {"EXPIRED", "REVOKED"}
      BY <3>1, StatusMoves
    <3>3. p \notin executions'
      BY <3>1, NewExecution DEF Executable
    <3>4. /\ SameTerms(cases[p], cases'[p])
          /\ CaseTransfer(p)' = CaseTransfer(p)
          /\ CaseTransfer(c)' = CaseTransfer(c)
      BY <2>2, <3>1, TermsKept DEF CaseTransfer
    <3>5. ASSUME NEW d \in Cases, cases'[d].previousCaseId = p
          PROVE  d = c
      BY <2>2, <3>1, <3>5, PredecessorSteps DEF HasReplacement
    <3>6. QED
      BY <3>1, <3>2, <3>3, <3>4, <3>5 DEF SameTerms
  <2>3. CASE /\ ~HasReplacement(p)
             /\ cases[p].status \in {"PENDING", "APPROVED", "EXPIRED"}
             /\ p \notin executions
             /\ cases'[p].status = "EXPIRED"
             /\ executions' = executions
             /\ CaseTransfer(c)' = CaseTransfer(p)
             /\ \A d \in Cases \ {c} :
                  cases'[d].previousCaseId = cases[d].previousCaseId
    <3>1. /\ SameTerms(cases[p], cases'[p])
          /\ CaseTransfer(p)' = CaseTransfer(p)
      BY <2>3, TermsKept DEF CaseTransfer
    <3>2. cases[p].reportIds # <<>>
      BY <2>3, ReportIdListFirst DEF BaseInv, CasesWellFormed
    <3>3. \A d \in Cases : cases'[d].previousCaseId = p => d = c
      BY <2>3 DEF HasReplacement
    <3>4. QED
      BY <2>3, <3>1, <3>2, <3>3 DEF SameTerms
  <2>4. QED
    BY <2>2, <2>3, PredecessorSteps
<1>3. QED
  BY <1>1, <1>2, BaseCorrect, PTL DEF Spec

-----------------------------------------------------------------------------
(***************************************************************************)
(* What is exported can be imported                                        *)
(***************************************************************************)

\* A case that is there was there before, with its terms, or has just been opened.
LEMMA CaseOrigin ==
  ASSUME BaseInv, [Next]_vars, NEW c \in Cases, cases'[c].status # "ABSENT"
  PROVE  \/ cases[c].status # "ABSENT" /\ SameTerms(cases[c], cases'[c])
         \/ /\ cases'[c].voters = registry /\ \E a \in Agents : registry[a] > 0
            /\ cases'[c].quorumThreshold = params.quorumThreshold
<1>1. CASE cases[c].status # "ABSENT"
  BY <1>1, TermsKept
<1>2. CASE cases[c].status = "ABSENT"
  <2>1. cases'[c] # cases[c] /\ cases \in [Cases -> Case]
    BY <1>2 DEF BaseInv, TypeOK
  <2>2. PICK d \in Cases, ids \in ReportIdLists, previous \in Cases \cup {None}, k \in Case :
          OpenStep(d, ids, previous, k)
    BY <1>2, <2>1, CaseSteps
    DEF caseVars, VoteStep, ExecuteSanction, ExecuteWatch, ExecuteBlockTx, ExecuteFreeze,
        ExecuteSettlement, RecordExecution, Executable, RevokeSanction
  <2>3. c = d
    <3>1. cases'[c] = IF c = d THEN k
                      ELSE IF c = previous THEN WithStatus(cases[c], "EXPIRED") ELSE cases[c]
      BY <2>2 DEF OpenStep
    <3>2. c = previous => cases[c].status # "ABSENT"
      BY <2>2, ConstantsAssumption DEF OpenStep, Replaceable
    <3>3. QED
      BY <1>2, <2>1, <3>1, <3>2
  <2>4. cases'[c] = k
    BY <2>2, <2>3 DEF OpenStep
  <2>5. QED
    BY <2>2, <2>4 DEF OpenStep
<1>3. QED
  BY <1>1, <1>2

\* In every reachable state the program accepts the genesis file that it would
\* export: snapshots have voters and a valid quorum, settlements rest on a receipt
\* of an earlier block and on a monetary action, executions that moved money show
\* their settlement, and no review was closed before it was made (ValidateGenesis
\* and validateSafetyGenesis).
THEOREM ExportIsAcceptedCorrect == Spec => []ExportIsAccepted
<1>1. Init => SnapshotInv
  BY DEF Init, SnapshotInv, GetAllSanctionCases, GetAllReviews, AbsentCase
<1>2. BaseInv /\ SnapshotInv /\ [Next]_vars => SnapshotInv'
  <2> SUFFICES ASSUME BaseInv, SnapshotInv, [Next]_vars, NEW c \in Cases
               PROVE  /\ cases'[c].status # "ABSENT" =>
                           /\ \E a \in Agents : cases'[c].voters[a] > 0
                           /\ cases'[c].quorumThreshold \in 1..100
                      /\ reviews'[c] # None => reviews'[c].reviewedHeight # 0
    BY DEF SnapshotInv, GetAllSanctionCases, GetAllReviews, ValidateCaseSnapshot, SnapshotVoters
  <2>1. height \in Nat \ {0} /\ reviews \in [Cases -> Review \cup {None}]
    BY DEF BaseInv, TypeOK
  <2>2. params.quorumThreshold \in 1..100
    BY DEF BaseInv, TypeOK, ValidParamSets, ValidateParams
  <2>3. ASSUME cases'[c].status # "ABSENT"
        PROVE  (\E a \in Agents : cases'[c].voters[a] > 0) /\ cases'[c].quorumThreshold \in 1..100
    <3>1. CASE cases[c].status # "ABSENT" /\ SameTerms(cases[c], cases'[c])
      <4>1. (\E a \in Agents : cases[c].voters[a] > 0) /\ cases[c].quorumThreshold \in 1..100
        BY <3>1 DEF SnapshotInv, GetAllSanctionCases, ValidateCaseSnapshot, SnapshotVoters
      <4>2. QED
        BY <3>1, <4>1 DEF SameTerms
    <3>2. CASE /\ cases'[c].voters = registry /\ \E a \in Agents : registry[a] > 0
               /\ cases'[c].quorumThreshold = params.quorumThreshold
      BY <2>2, <3>2
    <3>3. QED
      BY <2>3, <3>1, <3>2, CaseOrigin
  <2>4. ASSUME reviews'[c] # None
        PROVE  reviews'[c].reviewedHeight # 0
    <3>1. CASE reviews'[c] = reviews[c]
      BY <2>4, <3>1 DEF SnapshotInv, GetAllReviews
    <3>2. CASE ReviewSanction(c)
      BY <2>1, <3>2 DEF ReviewSanction
    <3>3. CASE RevokeSanction(c)
      <4>1. reviews[c] # None
        BY <3>3 DEF RevokeSanction, ReviewPermitsRevoke
      <4>2. reviews[c].reviewedHeight # 0
        BY <4>1 DEF SnapshotInv, GetAllReviews
      <4>3. QED
        BY <2>1, <3>3, <4>2 DEF RevokeSanction
    <3>4. QED
      BY <2>1, <3>1, <3>2, <3>3, Writers DEF ReviewSanction, RevokeSanction
  <2>5. QED
    BY <2>3, <2>4
<1>3. /\ BaseInv /\ SnapshotInv /\ OneSettlementPerTransfer /\ RevokedAfterReview
      => ExportIsAccepted
  <2> SUFFICES ASSUME BaseInv, SnapshotInv, OneSettlementPerTransfer, RevokedAfterReview
               PROVE  ValidateGenesis
    BY DEF ExportIsAccepted
  <2>1. /\ None \notin Cases /\ executions \subseteq Cases
        /\ settlements \in [Originals -> Cases \cup {None}]
        /\ reviews \in [Cases -> Review \cup {None}]
        /\ ValidateParams(params)
    BY ConstantsAssumption DEF BaseInv, TypeOK, ValidParamSets
  <2>2. ASSUME NEW t \in GetSettlements PROVE ValidSettlement(t)
    <3>1. /\ t \in Originals /\ settlements[t] \in executions /\ settlements[t] \in Cases
          /\ cases[settlements[t]].action \in MonetaryActions
          /\ receipts[t.txHash] # 0
          /\ receipts[t.txHash] < cases[settlements[t]].executedHeight
          /\ CaseTransfer(settlements[t]) = t
      BY <2>1 DEF GetSettlements, OneSettlementPerTransfer
    <3>2. PICK d \in Cases : d = settlements[t] /\ cases[d].status # "ABSENT"
      BY <3>1 DEF BaseInv, CasesWellFormed
    <3>3. t.txHash \in Txs
      BY <3>1, <3>2, CaseEvidence DEF Transfer
    <3>4. receipts[t.txHash] \in Nat /\ cases[d].executedHeight \in Nat
      BY <3>2, <3>3, ConstantsAssumption DEF BaseInv, TypeOK, Case
    <3>5. cases[settlements[t]].executedHeight > receipts[t.txHash]
      BY <3>1, <3>2, <3>4
    <3>6. QED
      BY <3>1, <3>5 DEF ValidSettlement, GetOriginalTransfers
  <2>3. ASSUME NEW c \in GetAllExecutionRecords PROVE BackedExecution(c)
    <3>1. c \in Cases /\ c \in executions
      BY <2>1 DEF GetAllExecutionRecords
    <3>2. cases[c].action \in MonetaryActions =>
            CaseTransfer(c) \in Originals /\ settlements[CaseTransfer(c)] = c
      BY <3>1 DEF OneSettlementPerTransfer
    <3>3. QED
      BY <2>1, <3>1, <3>2 DEF BackedExecution, GetSettlements
  <2>4. ASSUME NEW c \in GetAllReviews PROVE ValidReview(reviews[c])
    <3>1. c \in Cases /\ reviews[c] # None /\ reviews[c] \in Review
      BY <2>1 DEF GetAllReviews
    <3>2. reviews[c].reviewedHeight \in Nat /\ reviews[c].revokedHeight \in Nat
      BY <3>1 DEF Review
    <3>3. reviews[c].revokedHeight # 0 => reviews[c].reviewedHeight < reviews[c].revokedHeight
      BY <3>1 DEF RevokedAfterReview
    <3>4. reviews[c].revokedHeight # 0 => reviews[c].revokedHeight >= reviews[c].reviewedHeight
      BY <3>2, <3>3
    <3>5. QED
      BY <3>4 DEF ValidReview, SnapshotInv
  <2>5. QED
    BY <2>1, <2>2, <2>3, <2>4 DEF ValidateGenesis, validateSafetyGenesis, SnapshotInv
<1>4. QED
  BY <1>1, <1>2, <1>3, BaseCorrect, OneSettlementPerTransferCorrect, RevokedAfterReviewCorrect, PTL
  DEF Spec

-----------------------------------------------------------------------------
(***************************************************************************)
(* Decisions and tallies                                                   *)
(***************************************************************************)

\* More power is no smaller percentage.
LEMMA PercentMonotone ==
  ASSUME NEW total \in Nat, NEW p \in Nat, NEW q \in Nat, p <= q
  PROVE  RoundedPercent(p, total) <= RoundedPercent(q, total)
<1>1. CASE total = 0
  BY <1>1 DEF RoundedPercent
<1>2. CASE total # 0
  <2> DEFINE a == p * 100 + (total - 1)
             b == q * 100 + (total - 1)
  <2>1. a \in Nat /\ b \in Nat /\ a <= b /\ total \in Nat /\ total > 0
    BY <1>2
  <2> HIDE DEF a, b
  <2>2. a \div total <= b \div total
    BY <2>1
  <2>3. QED
    BY <1>2, <2>2 DEF RoundedPercent, a, b
<1>3. QED
  BY <1>1, <1>2

\* No power is no percentage.
LEMMA PercentOfNothing ==
  ASSUME NEW total \in Nat
  PROVE  RoundedPercent(0, total) = 0
<1>1. CASE total = 0
  BY <1>1 DEF RoundedPercent
<1>2. CASE total # 0
  <2>1. (total - 1) \div total = 0
    BY <1>2
  <2>2. QED
    BY <1>2, <2>1 DEF RoundedPercent
<1>3. QED
  BY <1>1, <1>2

\* A percentage is a natural number.
LEMMA PercentType ==
  ASSUME NEW total \in Nat, NEW p \in Nat
  PROVE  RoundedPercent(p, total) \in Nat
<1>1. CASE total = 0
  BY <1>1 DEF RoundedPercent
<1>2. CASE total # 0
  <2> DEFINE a == p * 100 + (total - 1)
  <2>1. a \in Nat
    BY <1>2
  <2> HIDE DEF a
  <2>2. a \div total \in Nat
    BY <1>2, <2>1
  <2>3. QED
    BY <1>2, <2>2 DEF RoundedPercent, a
<1>3. QED
  BY <1>1, <1>2

\* The power of a set of agents is a sum.
LEMMA PowerIsSum ==
  ASSUME NEW k, NEW S
  PROVE  PowerOf(k, S) = Sum(k.voters, S)
<1> DEFINE Steps(it) ==
      it = [s \in SUBSET S |->
              IF s = {} THEN 0
              ELSE k.voters[CHOOSE x \in s : TRUE] + it[s \ {CHOOSE x \in s : TRUE}]]
<1>1. PowerOf(k, S) = (CHOOSE it : Steps(it))[S]
  BY DEF PowerOf, MapThenSumSet, MapThenFoldSet
<1>2. Sum(k.voters, S) = (CHOOSE it : Steps(it))[S]
  BY DEF Sum, Iterates, Some
<1>3. QED
  BY <1>1, <1>2

\* A quorum that some voters reach is reached by more voters, too.
LEMMA QuorumMonotone ==
  ASSUME NEW k \in Case, NEW S \in SUBSET Agents, NEW T \in SUBSET S, ReachesQuorum(k, T)
  PROVE  ReachesQuorum(k, S)
<1>1. IsFiniteSet(S) /\ IsFiniteSet(T) /\ IsFiniteSet(Agents)
  BY FS_Subset, ConstantsAssumption
<1>2. k.voters \in [Agents -> Nat] /\ k.quorumThreshold \in Nat
  BY DEF Case
<1>3. /\ Sum(k.voters, T) \in Nat /\ Sum(k.voters, S) \in Nat
      /\ Sum(k.voters, Agents) \in Nat
  BY <1>1, <1>2, SumType
<1>4. Sum(k.voters, T) <= Sum(k.voters, S)
  BY <1>1, <1>2, SumMonotone
<1>5. /\ RoundedPercent(Sum(k.voters, T), Sum(k.voters, Agents)) \in Nat
      /\ RoundedPercent(Sum(k.voters, S), Sum(k.voters, Agents)) \in Nat
      /\ RoundedPercent(Sum(k.voters, T), Sum(k.voters, Agents))
           <= RoundedPercent(Sum(k.voters, S), Sum(k.voters, Agents))
  BY <1>3, <1>4, PercentMonotone, PercentType
<1>6. QED
  BY <1>2, <1>5, PowerIsSum DEF ReachesQuorum

\* Nobody's votes reach no quorum.
LEMMA NobodyReaches ==
  ASSUME NEW k \in Case, k.quorumThreshold > 0
  PROVE  ~ReachesQuorum(k, {})
<1>1. Sum(k.voters, {}) = 0
  BY SumEmpty
<1>2. Sum(k.voters, Agents) \in Nat
  BY SumType, ConstantsAssumption DEF Case
<1>3. RoundedPercent(Sum(k.voters, {}), Sum(k.voters, Agents)) = 0
  BY <1>1, <1>2, PercentOfNothing
<1>4. k.quorumThreshold \in Nat
  BY DEF Case
<1>5. QED
  BY <1>3, <1>4, PowerIsSum DEF ReachesQuorum

\* The tally depends on the snapshot and its quorum only.
LEMMA SameQuorum ==
  ASSUME NEW k, NEW j, NEW S, k.voters = j.voters, k.quorumThreshold = j.quorumThreshold
  PROVE  ReachesQuorum(k, S) <=> ReachesQuorum(j, S)
<1>1. \A T : PowerOf(k, T) = PowerOf(j, T)
  BY PowerIsSum
<1>2. QED
  BY <1>1 DEF ReachesQuorum

\* Case c has its quorum for one of the sides.
Approved(c) == ReachesQuorum(cases[c], VotersFor(c, "APPROVE"))
Rejected(c) == ReachesQuorum(cases[c], VotersFor(c, "REJECT"))

\* The decision on case c agrees with the votes; a case that was never opened
\* has none, and an open one has a quorum that takes at least one vote.
Decided(c) ==
  /\ cases[c].status = "PENDING" => ~Approved(c) /\ ~Rejected(c)
  /\ cases[c].status = "APPROVED" \/ c \in executions => Approved(c)
  /\ cases[c].status = "REJECTED" => Rejected(c) /\ ~Approved(c)
  /\ cases[c].status = "ABSENT" => \A a \in Agents : votes[c][a] = "NONE"
  /\ cases[c].status # "ABSENT" => cases[c].quorumThreshold > 0

\* The invariant that the decisions rest on.
TallyInv == \A c \in Cases : Decided(c)

\* Same snapshot and same votes, same tally.
LEMMA TallyKept ==
  ASSUME NEW c \in Cases,
         cases'[c].voters = cases[c].voters,
         cases'[c].quorumThreshold = cases[c].quorumThreshold,
         votes'[c] = votes[c]
  PROVE  (Approved(c)' <=> Approved(c)) /\ (Rejected(c)' <=> Rejected(c))
<1>1. \A option \in VoteOptions : VotersFor(c, option)' = VotersFor(c, option)
  BY DEF VotersFor
<1>2. "APPROVE" \in VoteOptions /\ "REJECT" \in VoteOptions
  BY DEF VoteOptions
<1>3. \A S : ReachesQuorum(cases'[c], S) <=> ReachesQuorum(cases[c], S)
  BY SameQuorum
<1>4. QED
  BY <1>1, <1>2, <1>3 DEF Approved, Rejected

\* A vote adds its voter to one side of the tally.
LEMMA VoteCounted ==
  ASSUME BaseInv, NEW c \in Cases, NEW a \in Agents, NEW option \in VoteOptions,
         SubmitSanctionVote(c, a, option)
  PROVE  /\ VotersFor(c, "APPROVE")' =
              VotersFor(c, "APPROVE") \cup {x \in {a} : option = "APPROVE"}
         /\ VotersFor(c, "REJECT")' =
              VotersFor(c, "REJECT") \cup {x \in {a} : option = "REJECT"}
<1>1. /\ votes \in [Cases -> [Agents -> VoteOptions \cup {"NONE"}]]
      /\ votes[c][a] = "NONE"
      /\ votes' = [votes EXCEPT ![c][a] = option]
  BY DEF SubmitSanctionVote, BaseInv, TypeOK
<1>2. \A b \in Agents : votes'[c][b] = IF b = a THEN option ELSE votes[c][b]
  BY <1>1
<1>3. QED
  BY <1>1, <1>2 DEF VotersFor

\* A vote leaves the case with the status that the tally gives.
LEMMA VoteDecides ==
  ASSUME BaseInv, NEW c \in Cases, NEW a \in Agents, NEW option \in VoteOptions,
         SubmitSanctionVote(c, a, option), TallyInv
  PROVE  /\ Decided(c)'
         /\ cases[c].status = "APPROVED" => cases'[c].status = "APPROVED"
         /\ cases'[c].status \in {"PENDING", "APPROVED", "REJECTED"}
<1> DEFINE yes == VotersFor(c, "APPROVE") \cup {x \in {a} : option = "APPROVE"}
           no == VotersFor(c, "REJECT") \cup {x \in {a} : option = "REJECT"}
           status == RecomputedStatus(cases[c], yes, no)
<1>1. /\ cases \in [Cases -> Case]
      /\ cases[c].status \in {"PENDING", "APPROVED"}
      /\ cases' = [cases EXCEPT ![c] = WithStatus(cases[c], status)]
      /\ c \notin executions /\ executions' = executions
  <2>1. /\ cases \in [Cases -> Case]
        /\ cases[c].status \in {"PENDING", "APPROVED"}
        /\ executions' = executions
    BY DEF SubmitSanctionVote, BaseInv, TypeOK
  <2>2. c \notin executions
    BY <2>1 DEF BaseInv, CasesWellFormed
  <2>3. cases' = [cases EXCEPT ![c] = WithStatus(cases[c], status)]
    BY DEF SubmitSanctionVote
  <2>4. QED
    BY <2>1, <2>2, <2>3
<1>2. VotersFor(c, "APPROVE")' = yes /\ VotersFor(c, "REJECT")' = no
  BY VoteCounted
<1>3. VotersFor(c, "APPROVE") \in SUBSET yes /\ yes \in SUBSET Agents
  BY DEF VotersFor
<1> HIDE DEF yes, no
<1>4. status \in {"PENDING", "APPROVED", "REJECTED"}
  BY <1>1 DEF RecomputedStatus
<1>5. status = IF ReachesQuorum(cases[c], yes) THEN "APPROVED"
               ELSE IF ReachesQuorum(cases[c], no) THEN "REJECTED"
               ELSE cases[c].status
  BY DEF RecomputedStatus
<1> HIDE DEF status
<1>6. /\ cases'[c].status = status
      /\ cases'[c].voters = cases[c].voters
      /\ cases'[c].quorumThreshold = cases[c].quorumThreshold
  BY <1>1, <1>4, WithStatusFields DEF CaseStatuses
<1>7. /\ Approved(c)' <=> ReachesQuorum(cases[c], yes)
      /\ Rejected(c)' <=> ReachesQuorum(cases[c], no)
  BY <1>2, <1>6, SameQuorum DEF Approved, Rejected
<1>8. Approved(c) => Approved(c)'
  BY <1>1, <1>3, <1>7, QuorumMonotone DEF Approved
<1>9. Decided(c)
  BY DEF TallyInv
<1>10. /\ cases[c].status = "APPROVED" => Approved(c)
       /\ cases[c].quorumThreshold > 0
  BY <1>1, <1>9 DEF Decided
<1>11. cases[c].status = "APPROVED" => status = "APPROVED"
  BY <1>5, <1>7, <1>8, <1>10
<1>12. /\ status = "PENDING" => ~Approved(c)' /\ ~Rejected(c)'
       /\ status = "APPROVED" => Approved(c)'
       /\ status = "REJECTED" => Rejected(c)' /\ ~Approved(c)'
  BY <1>1, <1>5, <1>7, <1>8, <1>10
<1>13. c \notin executions' /\ cases'[c].status # "ABSENT"
  BY <1>1, <1>4, <1>6
<1>14. Decided(c)'
  BY <1>6, <1>10, <1>12, <1>13 DEF Decided
<1>15. QED
  BY <1>4, <1>6, <1>11, <1>14

\* Every step keeps decisions and tallies together.
LEMMA TallyStep == BaseInv /\ TallyInv /\ [Next]_vars => TallyInv'
<1> SUFFICES ASSUME BaseInv, TallyInv, [Next]_vars, NEW c \in Cases
             PROVE  Decided(c)'
  BY DEF TallyInv
<1>1. /\ cases \in [Cases -> Case] /\ params \in ValidParamSets
      /\ Decided(c)
      /\ {"EXPIRED", "REVOKED"} \subseteq CaseStatuses
  BY DEF BaseInv, TypeOK, TallyInv, CaseStatuses
<1>2. CASE UNCHANGED caseVars
  BY <1>1, <1>2 DEF caseVars, Decided, Approved, Rejected, VotersFor
<1>3. ASSUME cases'[c].status \in {cases[c].status, "EXPIRED", "REVOKED"},
             cases[c].status # "ABSENT",
             cases'[c].voters = cases[c].voters,
             cases'[c].quorumThreshold = cases[c].quorumThreshold,
             votes'[c] = votes[c],
             c \in executions' => c \in executions
      PROVE  Decided(c)'
  BY <1>1, <1>3, TallyKept DEF Decided
<1>4. ASSUME cases'[c] = cases[c], votes'[c] = votes[c],
             c \in executions' => c \in executions
      PROVE  Decided(c)'
  BY <1>1, <1>4, TallyKept DEF Decided
<1>5. ASSUME NEW d \in Cases, NEW ids \in ReportIdLists,
             NEW previous \in Cases \cup {None}, NEW k \in Case,
             OpenStep(d, ids, previous, k)
      PROVE  Decided(c)'
  <2>1. /\ votes' = votes /\ executions' = executions
        /\ k.status = "PENDING" /\ k.quorumThreshold = params.quorumThreshold
        /\ cases[d].status = "ABSENT"
        /\ cases'[c] = IF c = d THEN k
                       ELSE IF c = previous THEN WithStatus(cases[c], "EXPIRED")
                            ELSE cases[c]
    BY <1>5 DEF OpenStep
  <2>2. CASE c = d
    <3>1. cases'[c] = k /\ k.quorumThreshold > 0
      BY <1>1, <2>1, <2>2 DEF ValidParamSets, ValidateParams
    <3>2. VotersFor(c, "APPROVE")' = {} /\ VotersFor(c, "REJECT")' = {}
      BY <1>1, <2>1, <2>2 DEF Decided, VotersFor
    <3>3. ~Approved(c)' /\ ~Rejected(c)'
      BY <3>1, <3>2, NobodyReaches DEF Approved, Rejected
    <3>4. c \notin executions
      BY <2>1, <2>2 DEF BaseInv, CasesWellFormed
    <3>5. QED
      BY <2>1, <3>1, <3>3, <3>4 DEF Decided
  <2>3. CASE c # d /\ c = previous
    <3>1. cases'[c] = WithStatus(cases[c], "EXPIRED")
      BY <2>1, <2>3
    <3>2. cases[c].status # "ABSENT"
      BY <1>5, <2>3, ConstantsAssumption DEF OpenStep, Replaceable
    <3>3. QED
      BY <1>1, <1>3, <2>1, <3>1, <3>2, WithStatusFields
  <2>4. CASE c # d /\ c # previous
    BY <1>4, <2>1, <2>4
  <2>5. QED
    BY <2>2, <2>3, <2>4
<1>6. ASSUME NEW d \in Cases, NEW a \in Agents, NEW option \in VoteOptions,
             SubmitSanctionVote(d, a, option)
      PROVE  Decided(c)'
  <2>1. CASE c = d
    BY <1>6, <2>1, VoteDecides
  <2>2. CASE c # d
    <3>1. cases'[c] = cases[c] /\ votes'[c] = votes[c] /\ executions' = executions
      BY <1>1, <1>6, <2>2 DEF SubmitSanctionVote, BaseInv, TypeOK
    <3>2. QED
      BY <1>4, <3>1
  <2>3. QED
    BY <2>1, <2>2
<1>7. ASSUME NEW d \in Cases, ExecuteSanction(d) PROVE Decided(c)'
  <2>1. Executable(d) /\ RecordExecution(d)
    BY <1>7, ExecutionParts
  <2>2. CASE c = d
    <3>1. /\ cases[c].status = "APPROVED" /\ votes' = votes
          /\ cases'[c] = AsExecuted(cases[c])
      BY <1>1, <2>1, <2>2 DEF Executable, RecordExecution
    <3>2. /\ cases'[c].status = "EXECUTED"
          /\ cases'[c].voters = cases[c].voters
          /\ cases'[c].quorumThreshold = cases[c].quorumThreshold
      BY <1>1, <3>1, AsExecutedFields DEF BaseInv, TypeOK
    <3>3. Approved(c)'
      BY <1>1, <3>1, <3>2, TallyKept DEF Decided
    <3>4. QED
      BY <1>1, <3>1, <3>2, <3>3 DEF Decided
  <2>3. CASE c # d
    BY <1>1, <1>4, <2>1, <2>3 DEF RecordExecution
  <2>4. QED
    BY <2>2, <2>3
<1>8. ASSUME NEW d \in Cases, RevokeSanction(d) PROVE Decided(c)'
  <2>1. /\ cases' = [cases EXCEPT ![d] = WithStatus(cases[d], "REVOKED")]
        /\ votes' = votes /\ executions' = executions
        /\ cases[d].status # "ABSENT"
    BY <1>8 DEF RevokeSanction
  <2>2. CASE c = d
    BY <1>1, <1>3, <2>1, <2>2, WithStatusFields
  <2>3. CASE c # d
    BY <1>1, <1>4, <2>1, <2>3
  <2>4. QED
    BY <2>2, <2>3
<1>9. QED
  BY <1>2, <1>5, <1>6, <1>7, <1>8, CaseSteps

\* Decisions are those of the tally in every reachable state.
THEOREM TallyCorrect == Spec => []TallyInv
<1>1. Init => TallyInv
  BY DEF Init, AbsentCase, TallyInv, Decided
<1>2. QED
  BY <1>1, TallyStep, BaseCorrect, PTL DEF Spec

\* The status of a case always agrees with the tally over its snapshot
\* (recomputeCaseStatus, tallySnapshotVotes): neither later votes, nor
\* changes of the registry or the parameters, separate the two.
THEOREM DecisionMatchesTallyCorrect == Spec => []DecisionMatchesTally
<1>1. TallyInv => DecisionMatchesTally
  BY DEF TallyInv, Decided, Approved, Rejected, DecisionMatchesTally
<1>2. QED
  BY <1>1, TallyCorrect, PTL

\* A case only moves along its life cycle (recomputeCaseStatus looks at
\* approval first, so that a revert that collects votes for unanimity stays
\* approved; nothing but a revocation leaves a decided case).
THEOREM StatusFollowsLifeCycleCorrect == Spec => StatusFollowsLifeCycle
<1>1. ASSUME BaseInv, TallyInv, [Next]_vars, NEW c \in Cases,
             cases'[c].status # cases[c].status
      PROVE  <<cases[c].status, cases'[c].status>> \in LegalTransitions
  <2>1. CASE \E a \in Agents, option \in VoteOptions :
               SubmitSanctionVote(c, a, option)
    <3>1. /\ cases[c].status = "APPROVED" => cases'[c].status = "APPROVED"
          /\ cases'[c].status \in {"PENDING", "APPROVED", "REJECTED"}
      BY <1>1, <2>1, VoteDecides
    <3>2. cases[c].status \in {"PENDING", "APPROVED"}
      BY <2>1 DEF SubmitSanctionVote
    <3>3. QED
      BY <1>1, <3>1, <3>2 DEF LegalTransitions
  <2>2. CASE RevokeSanction(c) /\ cases'[c].status = "REVOKED"
    <3>1. cases[c].status \in {"PENDING", "APPROVED", "REJECTED", "EXECUTED",
                               "EXPIRED"}
      <4>1. cases[c].status \notin {"ABSENT", "REVOKED"}
        BY <2>2 DEF RevokeSanction
      <4>2. cases[c] \in Case
        BY <1>1 DEF BaseInv, TypeOK
      <4>3. QED
        BY <4>1, <4>2 DEF Case, CaseStatuses
    <3>2. QED
      BY <2>2, <3>1 DEF LegalTransitions
  <2>3. CASE \/ cases[c].status = "ABSENT" /\ cases'[c].status = "PENDING"
             \/ /\ cases[c].status \in {"PENDING", "APPROVED", "EXPIRED"}
                /\ cases'[c].status = "EXPIRED"
             \/ cases[c].status = "APPROVED" /\ cases'[c].status = "EXECUTED"
    BY <1>1, <2>3 DEF LegalTransitions
  <2>4. QED
    BY <1>1, <2>1, <2>2, <2>3, StatusMoves
<1>2. BaseInv /\ TallyInv /\ [Next]_vars =>
        [\A c \in Cases : cases'[c].status # cases[c].status =>
           <<cases[c].status, cases'[c].status>> \in LegalTransitions]_vars
  BY <1>1
<1>3. QED
  BY <1>2, BaseCorrect, TallyCorrect, PTL DEF Spec, StatusFollowsLifeCycle

-----------------------------------------------------------------------------
(***************************************************************************)
(* The ledger                                                              *)
(***************************************************************************)

\* What delivered transactions move out of account x, or into it.
OutflowsOf(x) == [tx \in Txs |-> Outflow(tx, x)]
InflowsOf(x) == [tx \in Txs |-> Inflow(tx, x)]

\* What transactions take from an account is summed in this way.
LEMMA OutflowsAreSums ==
  ASSUME NEW x \in Accounts, NEW S, IsFiniteSet(S), S \subseteq Txs
  PROVE  MapThenSumSet(LAMBDA tx : Outflow(tx, x), S) = Sum(OutflowsOf(x), S)
<1> DEFINE Steps(it) ==
      it = [s \in SUBSET S |->
              IF s = {} THEN 0
              ELSE Outflow(CHOOSE tx \in s : TRUE, x)
                     + it[s \ {CHOOSE tx \in s : TRUE}]]
<1>1. MapThenSumSet(LAMBDA tx : Outflow(tx, x), S) = (CHOOSE it : Steps(it))[S]
  BY DEF MapThenSumSet, MapThenFoldSet
<1>2. ASSUME NEW s \in SUBSET S, s # {}
      PROVE  OutflowsOf(x)[Some(s)] = Outflow(CHOOSE tx \in s : TRUE, x)
  BY <1>2, SomeIsIn DEF OutflowsOf, Some
<1>3. ASSUME NEW it PROVE Steps(it) <=> Iterates(it, OutflowsOf(x), SUBSET S)
  <2>1. [s \in SUBSET S |->
           IF s = {} THEN 0
           ELSE Outflow(CHOOSE tx \in s : TRUE, x)
                  + it[s \ {CHOOSE tx \in s : TRUE}]]
        = [s \in SUBSET S |->
             IF s = {} THEN 0 ELSE OutflowsOf(x)[Some(s)] + it[s \ {Some(s)}]]
    BY <1>2 DEF Some
  <2>2. QED
    BY <2>1 DEF Iterates
<1> HIDE DEF Steps
<1>4. QED
  BY <1>1, <1>3, Zenon DEF Sum
\* And what they bring to it.
LEMMA InflowsAreSums ==
  ASSUME NEW x \in Accounts, NEW S, IsFiniteSet(S), S \subseteq Txs
  PROVE  MapThenSumSet(LAMBDA tx : Inflow(tx, x), S) = Sum(InflowsOf(x), S)
<1> DEFINE Steps(it) ==
      it = [s \in SUBSET S |->
              IF s = {} THEN 0
              ELSE Inflow(CHOOSE tx \in s : TRUE, x)
                     + it[s \ {CHOOSE tx \in s : TRUE}]]
<1>1. MapThenSumSet(LAMBDA tx : Inflow(tx, x), S) = (CHOOSE it : Steps(it))[S]
  BY DEF MapThenSumSet, MapThenFoldSet
<1>2. ASSUME NEW s \in SUBSET S, s # {}
      PROVE  InflowsOf(x)[Some(s)] = Inflow(CHOOSE tx \in s : TRUE, x)
  BY <1>2, SomeIsIn DEF InflowsOf, Some
<1>3. ASSUME NEW it PROVE Steps(it) <=> Iterates(it, InflowsOf(x), SUBSET S)
  <2>1. [s \in SUBSET S |->
           IF s = {} THEN 0
           ELSE Inflow(CHOOSE tx \in s : TRUE, x)
                  + it[s \ {CHOOSE tx \in s : TRUE}]]
        = [s \in SUBSET S |->
             IF s = {} THEN 0 ELSE InflowsOf(x)[Some(s)] + it[s \ {Some(s)}]]
    BY <1>2 DEF Some
  <2>2. QED
    BY <2>1 DEF Iterates
<1> HIDE DEF Steps
<1>4. QED
  BY <1>1, <1>3, Zenon DEF Sum

\* The delivered transactions and the settled transfers.
Delivered == {tx \in Txs : receipts[tx] # 0}
Settled == {t \in Originals : settlements[t] # None}

\* Who got the coins of a settled transfer, and the transfers whose coins
\* account x lost or got by a settlement.
PayeeOf(t) == SettlementPayee(cases[settlements[t]].action, t)
TakenFrom(x) == {t \in Settled : t.recipient = x}
PaidTo(x) == {t \in Settled : PayeeOf(t) = x}

\* The balances as sums of functions over finite sets.
LedgerInv ==
  /\ IsFiniteSet(Delivered)
  /\ IsFiniteSet(Settled)
  /\ \A x \in Accounts :
       balance[x] + Sum(OutflowsOf(x), Delivered) + Sum(AmountOf, TakenFrom(x))
         = InitBalance[x] + Sum(InflowsOf(x), Delivered) + Sum(AmountOf, PaidTo(x))

\* All of these sums are natural numbers.
LEMMA LedgerType ==
  ASSUME NEW x \in Accounts, NEW D \in SUBSET Txs, NEW S \in SUBSET Originals,
         IsFiniteSet(D), IsFiniteSet(S)
  PROVE  /\ Sum(OutflowsOf(x), D) \in Nat
         /\ Sum(InflowsOf(x), D) \in Nat
         /\ Sum(AmountOf, S) \in Nat
<1>1. \A tx \in D : OutflowsOf(x)[tx] \in Nat /\ InflowsOf(x)[tx] \in Nat
  BY FlowsAreNatural DEF OutflowsOf, InflowsOf
<1>2. \A t \in S : AmountOf[t] \in Nat
  BY ConstantsAssumption DEF AmountOf, Originals, Transfer
<1>3. QED
  BY <1>1, <1>2, SumType

\* A settlement was made by a case that is there.
LEMMA SettlersAreCases ==
  ASSUME BaseInv, OneSettlementPerTransfer, NEW t \in Settled
  PROVE  settlements[t] \in Cases /\ cases[settlements[t]].status # "ABSENT"
<1>1. settlements[t] \in executions /\ executions \in SUBSET Cases
  BY DEF OneSettlementPerTransfer, Settled, BaseInv, TypeOK
<1>2. QED
  BY <1>1 DEF BaseInv, CasesWellFormed

\* A settlement stays, and its coins stay where they went.
LEMMA PayeesKept ==
  ASSUME BaseInv, [Next]_vars, OneSettlementPerTransfer, NEW t \in Settled,
         settlements'[t] = settlements[t]
  PROVE  PayeeOf(t)' = PayeeOf(t)
<1>1. PICK c \in Cases : c = settlements[t] /\ cases[c].status # "ABSENT"
  BY SettlersAreCases
<1>2. cases'[c].action = cases[c].action
  BY <1>1, TermsKept DEF SameTerms
<1>3. QED
  BY <1>1, <1>2 DEF PayeeOf, SettlementPayee

\* A transaction delivered in this step.
LEMMA LedgerDelivery ==
  ASSUME BaseInv, [Next]_vars, OneSettlementPerTransfer, LedgerInv,
         NEW tx \in Txs, DeliverTx(tx)
  PROVE  LedgerInv'
<1>1. /\ settlements' = settlements /\ height # 0
      /\ receipts \in [Txs -> 0..MaxHeight] /\ receipts[tx] = 0
      /\ receipts' = [receipts EXCEPT ![tx] = height]
      /\ balance \in [Accounts -> Nat]
      /\ \A x \in Accounts :
           balance'[x] = (balance[x] - Outflow(tx, x)) + Inflow(tx, x)
  BY DEF DeliverTx, BaseInv, TypeOK
<1>2. Delivered' = Delivered \cup {tx} /\ tx \notin Delivered
  BY <1>1 DEF Delivered
<1>3. Settled' = Settled
  BY <1>1 DEF Settled
<1>4. IsFiniteSet(Delivered)' /\ IsFiniteSet(Settled)'
  BY <1>2, <1>3, FS_AddElement DEF LedgerInv
<1>5. ASSUME NEW x \in Accounts
      PROVE  TakenFrom(x)' = TakenFrom(x) /\ PaidTo(x)' = PaidTo(x)
  <2>1. \A t \in Settled : PayeeOf(t)' = PayeeOf(t)
    BY <1>1, PayeesKept
  <2>2. QED
    BY <1>3, <2>1 DEF TakenFrom, PaidTo
<1>6. ASSUME NEW x \in Accounts
      PROVE  /\ Sum(OutflowsOf(x), Delivered)' = Outflow(tx, x) + Sum(OutflowsOf(x), Delivered)
             /\ Sum(InflowsOf(x), Delivered)' = Inflow(tx, x) + Sum(InflowsOf(x), Delivered)
  <2>1. \A d \in Delivered \cup {tx} :
          OutflowsOf(x)[d] \in Nat /\ InflowsOf(x)[d] \in Nat
    BY FlowsAreNatural DEF OutflowsOf, InflowsOf, Delivered
  <2>2. OutflowsOf(x)[tx] = Outflow(tx, x) /\ InflowsOf(x)[tx] = Inflow(tx, x)
    BY DEF OutflowsOf, InflowsOf
  <2>3. /\ Sum(OutflowsOf(x), Delivered \cup {tx})
             = OutflowsOf(x)[tx] + Sum(OutflowsOf(x), Delivered)
        /\ Sum(InflowsOf(x), Delivered \cup {tx})
             = InflowsOf(x)[tx] + Sum(InflowsOf(x), Delivered)
    BY <1>2, <2>1, SumAdd DEF LedgerInv
  <2>4. QED
    BY <1>2, <2>2, <2>3
<1>7. ASSUME NEW x \in Accounts
      PROVE  (balance[x] + Sum(OutflowsOf(x), Delivered) + Sum(AmountOf, TakenFrom(x))
               = InitBalance[x] + Sum(InflowsOf(x), Delivered) + Sum(AmountOf, PaidTo(x)))'
  <2> DEFINE o == Sum(OutflowsOf(x), Delivered)
             i == Sum(InflowsOf(x), Delivered)
             lost == Sum(AmountOf, TakenFrom(x))
             won == Sum(AmountOf, PaidTo(x))
  <2>1. IsFiniteSet(TakenFrom(x)) /\ IsFiniteSet(PaidTo(x))
    BY FS_Subset DEF TakenFrom, PaidTo, LedgerInv
  <2>2. o \in Nat /\ i \in Nat /\ lost \in Nat /\ won \in Nat
    BY <2>1, LedgerType DEF LedgerInv, Delivered, Settled, TakenFrom, PaidTo
  <2>3. /\ balance[x] \in Nat /\ Outflow(tx, x) \in Nat /\ Inflow(tx, x) \in Nat
        /\ InitBalance[x] \in Nat
    BY <1>1, FlowsAreNatural, ConstantsAssumption
  <2>4. balance[x] + o + lost = InitBalance[x] + i + won
    BY DEF LedgerInv
  <2>5. /\ o' = Outflow(tx, x) + o
        /\ i' = Inflow(tx, x) + i
        /\ lost' = lost /\ won' = won
    BY <1>5, <1>6
  <2> HIDE DEF o, i, lost, won
  <2>6. balance'[x] + o' + lost' = InitBalance[x] + i' + won'
    BY <1>1, <2>2, <2>3, <2>4, <2>5
  <2>7. QED
    BY <2>6 DEF o, i, lost, won
<1>8. QED
  BY <1>4, <1>7 DEF LedgerInv

\* A settlement made in this step.
LEMMA LedgerSettlement ==
  ASSUME BaseInv, [Next]_vars, OneSettlementPerTransfer, LedgerInv,
         NEW c \in Cases, ExecuteSettlement(c)
  PROVE  LedgerInv'
<1>1. PICK t \in Originals : t = CaseTransfer(c)
  BY SettlementStep
<1>2. PICK payee \in Accounts : payee = SettlementPayee(cases[c].action, t)
  BY ConstantsAssumption DEF SettlementPayee, Originals, Transfer
<1>3. /\ settlements[t] = None
      /\ settlements' = [settlements EXCEPT ![t] = c]
      /\ settlements \in [Originals -> Cases \cup {None}]
      /\ receipts' = receipts
      /\ cases[c].status # "ABSENT"
      /\ c # None
  BY <1>1, SettlementStep, ConstantsAssumption DEF BaseInv, TypeOK
<1>4. /\ t.recipient \in Accounts /\ t.amount \in Nat
      /\ balance \in [Accounts -> Nat]
      /\ balance' = Moved(t.recipient, payee, t.amount)
  <2>1. t.recipient \in Accounts /\ t.amount \in Nat
    BY ConstantsAssumption DEF Originals, Transfer
  <2>2. balance \in [Accounts -> Nat]
    BY DEF BaseInv, TypeOK
  <2>3. balance' = Moved(t.recipient, payee, t.amount)
    BY <1>1, <1>2 DEF ExecuteSettlement, CaseTransfer
  <2>4. QED
    BY <2>1, <2>2, <2>3
<1>5. PayeeOf(t)' = payee
  <2>1. settlements'[t] = c /\ cases'[c].action = cases[c].action
    BY <1>3, TermsKept DEF SameTerms
  <2>2. QED
    BY <1>2, <2>1 DEF PayeeOf, SettlementPayee
<1>6. Settled' = Settled \cup {t} /\ t \notin Settled /\ Delivered' = Delivered
  BY <1>3 DEF Settled, Delivered
<1>7. \A s \in Settled : PayeeOf(s)' = PayeeOf(s)
  <2> SUFFICES ASSUME NEW s \in Settled PROVE PayeeOf(s)' = PayeeOf(s)
    OBVIOUS
  <2>1. settlements'[s] = settlements[s]
    BY <1>3, <1>6 DEF Settled
  <2>2. QED
    BY <2>1, PayeesKept
<1>8. IsFiniteSet(Delivered)' /\ IsFiniteSet(Settled)'
  BY <1>6, FS_AddElement DEF LedgerInv
<1>9. ASSUME NEW S, S \subseteq Settled
      PROVE  Sum(AmountOf, S \cup {t}) = t.amount + Sum(AmountOf, S)
  <2>1. IsFiniteSet(S) /\ t \notin S
    BY <1>6, <1>9, FS_Subset DEF LedgerInv
  <2>2. \A s \in S \cup {t} : AmountOf[s] \in Nat
    BY <1>1, <1>9, ConstantsAssumption DEF AmountOf, Originals, Transfer, Settled
  <2>3. AmountOf[t] = t.amount
    BY <1>1 DEF AmountOf
  <2>4. QED
    BY <2>1, <2>2, <2>3, SumAdd
<1>10. ASSUME NEW x \in Accounts
       PROVE  (balance[x] + Sum(OutflowsOf(x), Delivered) + Sum(AmountOf, TakenFrom(x))
                = InitBalance[x] + Sum(InflowsOf(x), Delivered) + Sum(AmountOf, PaidTo(x)))'
  <2> DEFINE o == Sum(OutflowsOf(x), Delivered)
             i == Sum(InflowsOf(x), Delivered)
             lost == Sum(AmountOf, TakenFrom(x))
             won == Sum(AmountOf, PaidTo(x))
             less == IF x = t.recipient THEN t.amount ELSE 0
             more == IF x = payee THEN t.amount ELSE 0
  <2>1. IsFiniteSet(TakenFrom(x)) /\ IsFiniteSet(PaidTo(x))
    BY FS_Subset DEF TakenFrom, PaidTo, LedgerInv
  <2>2. o \in Nat /\ i \in Nat /\ lost \in Nat /\ won \in Nat
    BY <2>1, LedgerType DEF LedgerInv, Delivered, Settled, TakenFrom, PaidTo
  <2>3. balance[x] + o + lost = InitBalance[x] + i + won
    BY DEF LedgerInv
  <2>4. o' = o /\ i' = i
    BY <1>6
  <2>5. lost' = less + lost
    <3>1. TakenFrom(x)' = IF x = t.recipient THEN TakenFrom(x) \cup {t} ELSE TakenFrom(x)
      BY <1>6 DEF TakenFrom
    <3>2. CASE x = t.recipient
      BY <1>9, <3>1, <3>2 DEF TakenFrom
    <3>3. CASE x # t.recipient
      BY <2>2, <3>1, <3>3
    <3>4. QED
      BY <3>2, <3>3
  <2>6. won' = more + won
    <3>1. PaidTo(x)' = IF x = payee THEN PaidTo(x) \cup {t} ELSE PaidTo(x)
      BY <1>5, <1>6, <1>7 DEF PaidTo
    <3>2. CASE x = payee
      BY <1>9, <3>1, <3>2 DEF PaidTo
    <3>3. CASE x # payee
      BY <2>2, <3>1, <3>3
    <3>4. QED
      BY <3>2, <3>3
  <2>7. balance'[x] = (balance[x] - less) + more
    BY <1>4 DEF Moved
  <2>8. less \in Nat /\ more \in Nat /\ balance[x] \in Nat /\ InitBalance[x] \in Nat
    BY <1>4, ConstantsAssumption
  <2> HIDE DEF o, i, lost, won, less, more
  <2>9. balance'[x] + o' + lost' = InitBalance[x] + i' + won'
    BY <2>2, <2>3, <2>4, <2>5, <2>6, <2>7, <2>8
  <2>10. QED
    BY <2>9 DEF o, i, lost, won
<1>11. QED
  BY <1>8, <1>10 DEF LedgerInv

\* Every step keeps the account of the balances.
LEMMA LedgerStep ==
  BaseInv /\ OneSettlementPerTransfer /\ LedgerInv /\ [Next]_vars => LedgerInv'
<1> SUFFICES ASSUME BaseInv, OneSettlementPerTransfer, LedgerInv, [Next]_vars
             PROVE  LedgerInv'
  OBVIOUS
<1>1. CASE \E tx \in Txs : DeliverTx(tx)
  BY <1>1, LedgerDelivery
<1>2. CASE \E c \in Cases : ExecuteSettlement(c)
  BY <1>2, LedgerSettlement
<1>3. CASE UNCHANGED fundVars
  <2>1. settlements' = settlements /\ receipts' = receipts /\ balance' = balance
    BY <1>3 DEF fundVars
  <2>2. Settled' = Settled /\ Delivered' = Delivered
    BY <2>1 DEF Settled, Delivered
  <2>3. \A t \in Settled : PayeeOf(t)' = PayeeOf(t)
    BY <2>1, PayeesKept
  <2>4. \A x \in Accounts : TakenFrom(x)' = TakenFrom(x) /\ PaidTo(x)' = PaidTo(x)
    BY <2>2, <2>3 DEF TakenFrom, PaidTo
  <2>5. QED
    BY <2>1, <2>2, <2>4 DEF LedgerInv
<1>4. QED
  BY <1>1, <1>2, <1>3, Writers DEF fundVars

\* At genesis no money has moved.
LEMMA LedgerInit == Init => LedgerInv
<1> SUFFICES ASSUME Init PROVE LedgerInv
  OBVIOUS
<1>1. Delivered = {} /\ Settled = {} /\ balance = InitBalance
  BY DEF Init, Delivered, Settled
<1>2. \A x \in Accounts : TakenFrom(x) = {} /\ PaidTo(x) = {}
  BY <1>1 DEF TakenFrom, PaidTo
<1>3. QED
  BY <1>1, <1>2, SumEmpty, FS_EmptySet DEF LedgerInv

\* The sums of the property are those of the invariant.
LEMMA LedgerMeaning == LedgerInv => LedgerExplained
<1> SUFFICES ASSUME LedgerInv, NEW x \in Accounts
    PROVE  balance[x] + MapThenSumSet(LAMBDA tx : Outflow(tx, x), Delivered)
                      + MapThenSumSet(LAMBDA t : t.amount, TakenFrom(x))
             = InitBalance[x] + MapThenSumSet(LAMBDA tx : Inflow(tx, x), Delivered)
                      + MapThenSumSet(LAMBDA t : t.amount, PaidTo(x))
  BY Zenon DEF LedgerExplained, Delivered, Settled, TakenFrom, PaidTo, PayeeOf, SettlementPayee
<1>1. IsFiniteSet(TakenFrom(x)) /\ IsFiniteSet(PaidTo(x)) /\ IsFiniteSet(Delivered)
  BY FS_Subset DEF TakenFrom, PaidTo, LedgerInv
<1>2. /\ TakenFrom(x) \subseteq Originals /\ PaidTo(x) \subseteq Originals
      /\ Delivered \subseteq Txs
  BY DEF TakenFrom, PaidTo, Settled, Delivered
<1>3. /\ MapThenSumSet(LAMBDA tx : Outflow(tx, x), Delivered) = Sum(OutflowsOf(x), Delivered)
      /\ MapThenSumSet(LAMBDA tx : Inflow(tx, x), Delivered) = Sum(InflowsOf(x), Delivered)
      /\ MapThenSumSet(LAMBDA t : t.amount, TakenFrom(x)) = Sum(AmountOf, TakenFrom(x))
      /\ MapThenSumSet(LAMBDA t : t.amount, PaidTo(x)) = Sum(AmountOf, PaidTo(x))
  BY <1>1, <1>2, OutflowsAreSums, InflowsAreSums, AmountsAreSums
<1>4. QED
  BY <1>3 DEF LedgerInv

\* The balances are exactly explained by genesis, the receipts of delivered
\* transactions and the settlements (RecordOriginalTransfers, executeEscrow,
\* executeRevert): money moves once, to the right account, for a transfer that
\* happened.
THEOREM LedgerExplainedCorrect == Spec => []LedgerExplained
<1>1. Spec => []LedgerInv
  BY LedgerInit, LedgerStep, BaseCorrect, OneSettlementPerTransferCorrect, PTL DEF Spec
<1>2. QED
  BY <1>1, LedgerMeaning, PTL

=============================================================================
