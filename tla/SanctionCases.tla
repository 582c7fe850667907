---------------------------- MODULE SanctionCases ----------------------------
(***************************************************************************)
(* The case machine of x/sanction: risk reports, sanction cases and their  *)
(* voter snapshots, votes, execution, review and revocation, replacement   *)
(* of stale cases, and the state they act on: active transaction           *)
(* sanctions, freezes, original-transfer receipts, settlements and bank    *)
(* balances.                                                               *)
(*                                                                         *)
(* A step is one successfully delivered transaction or the end of a block. *)
(* A message whose handler returns an error leaves no trace, because       *)
(* baseapp discards the writes of a failed transaction; the handlers'      *)
(* early returns are therefore the guards of the actions below.            *)
(*                                                                         *)
(* Of the agent registry only the eligible voting power of each agent is   *)
(* kept here; an agent id stands for its signer and key as well.           *)
(***************************************************************************)
EXTENDS SanctionPolicy, Sequences, FiniteSets

CONSTANTS
  Agents,         \* agent ids
  Cases,          \* case ids
  Reports,        \* risk report ids
  ReportBodies,   \* the report contents that can be submitted
  Txs,            \* hashes of the bank transactions
  TxMsgs,         \* the MsgSends of each bank transaction
  Accounts,       \* bech32 addresses, ModuleAccount among them
  ModuleAccount,  \* the sanction module's own account (escrow)
  InitBalance,    \* genesis balances
  ParamSets,      \* parameter records the authority can propose
  PowerMaps,      \* voting power per agent after a validator-set sync
  MaxReports,     \* bound: reports cited by one case
  MaxHeight,      \* bound: last block height
  None            \* absent record

\* What a MsgSend moves, and what a report claims that one moved. The pair
\* (txHash, messageIndex) is the receipt key; one denomination is modelled.
Transfer ==
  [txHash : Txs, messageIndex : Nat, sender : Accounts, recipient : Accounts,
   amount : Nat]

ReportBody ==
  [transfer : Transfer, score : 0..100, categories : SUBSET STRING,
   source : STRING, observedHeight : Nat, expiryHeight : Nat]

ParamRecord ==
  [watchThreshold : Nat, blockThreshold : Nat, freezeThreshold : Nat,
   revertThreshold : Nat, quorumThreshold : Nat,
   unanimousRequiredForRevert : BOOLEAN, votingPeriodBlocks : Nat,
   acceptedRiskSources : SUBSET STRING, highRiskCategories : SUBSET STRING,
   allowedActions : SUBSET SanctionActions]

Review == [reviewedHeight : Nat, revokedHeight : Nat]

ActiveSanction == [caseId : Cases, activatedHeight : Nat]

ValidParamSets == {p \in ParamSets : ValidateParams(p)}

ASSUME ConstantsAssumption ==
  /\ IsFiniteSet(Agents)
  /\ ReportBodies \subseteq ReportBody
  /\ TxMsgs \in [Txs -> SUBSET Transfer] /\ \A tx \in Txs : IsFiniteSet(TxMsgs[tx])
  /\ ModuleAccount \in Accounts
  /\ InitBalance \in [Accounts -> Nat]
  /\ ParamSets \subseteq ParamRecord
  /\ PowerMaps \subseteq [Agents -> Nat]
  /\ MaxReports \in Nat \ {0}
  /\ MaxHeight \in Nat \ {0}
  /\ None \notin Cases \cup Accounts \cup Txs \cup Reports \cup ReportBodies
  /\ None \notin Review \cup ActiveSanction

\* A transaction contains its own messages, each under its own index, and
\* does not spend in one message what an earlier one brought.
ASSUME TxMsgsAssumption ==
  \A tx \in Txs : \A m, n \in TxMsgs[tx] :
    /\ m.txHash = tx
    /\ m.messageIndex = n.messageIndex => m = n
    /\ m.messageIndex < n.messageIndex => n.sender # m.recipient

VARIABLES
  height,          \* height of the block being executed
  params,          \* module parameters
  registry,        \* eligible voting power per agent, 0 if not eligible
  reports,         \* risk report store
  cases,           \* sanction case store
  votes,           \* vote store
  executions,      \* cases with an execution record
  reviews,         \* review record per case
  active,          \* ActiveTxSanction: owning case and activation height
  committedActive, \* the transactions sanctioned when the block started
  freeze,          \* FreezeRecord: owning case per address
  receipts,        \* height of a transaction's transfer receipts, 0 if none
  settlements,     \* case that settled an original transfer
  balance          \* bank balances

caseVars == <<cases, votes, executions>>
fundVars == <<receipts, settlements, balance>>
vars == <<height, params, registry, reports, cases, votes, executions,
          reviews, active, committedActive, freeze, receipts, settlements,
          balance>>

CaseStatuses ==
  {"ABSENT", "PENDING", "APPROVED", "REJECTED", "EXECUTED", "EXPIRED",
   "REVOKED"}
VoteOptions == {"APPROVE", "REJECT", "ABSTAIN"}
ReportIdLists == UNION {[1..n -> Reports] : n \in 1..MaxReports}

Case ==
  [status : CaseStatuses, action : SanctionActions \cup {NoAction},
   txHash : Txs \cup {None}, targetType : TargetTypes,
   targetAddress : Accounts \cup {None}, reportIds : ReportIdLists \cup {<<>>},
   deadline : Nat, voters : [Agents -> Nat], quorumThreshold : Nat,
   unanimousRequired : BOOLEAN, previousCaseId : Cases \cup {None},
   executedHeight : Nat]

Originals == UNION {TxMsgs[tx] : tx \in Txs}

AbsentCase ==
  [status |-> "ABSENT", action |-> NoAction, txHash |-> None,
   targetType |-> "TX", targetAddress |-> None, reportIds |-> <<>>,
   deadline |-> 0, voters |-> [a \in Agents |-> 0], quorumThreshold |-> 0,
   unanimousRequired |-> FALSE, previousCaseId |-> None, executedHeight |-> 0]

\* Mutant: a change of status takes a new snapshot of the electorate.
Resnapshot(k, status) == [k EXCEPT !.status = status, !.voters = registry]

\* Mutant: that a case has expired is not saved.
ExpiryNotSaved(k, status) ==
  [k EXCEPT !.status = IF status = "EXPIRED" THEN @ ELSE status]

\* A case with a new status, and one that has just been executed.
WithStatus(k, status) == [k EXCEPT !.status = status]
AsExecuted(k) == [k EXCEPT !.status = "EXECUTED", !.executedHeight = height]

Init ==
  /\ height = 1
  /\ params \in ValidParamSets
  /\ registry \in PowerMaps
  /\ reports = [r \in Reports |-> None]
  /\ cases = [c \in Cases |-> AbsentCase]
  /\ votes = [c \in Cases |-> [a \in Agents |-> "NONE"]]
  /\ executions = {}
  /\ reviews = [c \in Cases |-> None]
  /\ active = [tx \in Txs |-> None]
  /\ committedActive = {}
  /\ freeze = [x \in Accounts |-> None]
  /\ receipts = [tx \in Txs |-> 0]
  /\ settlements = [t \in Originals |-> None]
  /\ balance = InitBalance

-----------------------------------------------------------------------------
(***************************************************************************)
(* Evidence and voting helpers                                             *)
(***************************************************************************)

\* The report a case rests on: the first one it cites.
PrimaryReport(k) == reports[k.reportIds[1]]

\* Mutant: the settlement store is not consulted.
ResettlableOriginal(t) ==
  /\ t \in TxMsgs[t.txHash]
  /\ receipts[t.txHash] # 0
  /\ receipts[t.txHash] < height

\* A receipt of this very transfer is committed and nobody settled it yet.
UnsettledOriginal(t) ==
  /\ t \in TxMsgs[t.txHash]
  /\ receipts[t.txHash] # 0
  /\ receipts[t.txHash] < height
  /\ settlements[t] = None

VotersFor(c, option) == {a \in Agents : votes[c][a] = option}
PowerOf(k, S) == MapThenSumSet(LAMBDA a : k.voters[a], S)

\* Does the power of S reach the case's quorum, by snapshot powers?
ReachesQuorum(k, S) ==
  /\ PowerOf(k, Agents) # 0
  /\ RoundedPercent(PowerOf(k, S), PowerOf(k, Agents)) >= k.quorumThreshold

SnapshotVoters(k) == {a \in Agents : k.voters[a] > 0}

HasUnanimousApproval(c) ==
  /\ SnapshotVoters(cases[c]) # {}
  /\ \A a \in SnapshotVoters(cases[c]) : votes[c][a] = "APPROVE"

\* Mutant: the percentage is taken of the votes cast, not of the electorate.
StatusByVotesCast(k, approvers, rejecters) ==
  LET cast == PowerOf(k, approvers \cup rejecters)
      Reaches(S) == RoundedPercent(PowerOf(k, S), cast) >= k.quorumThreshold
  IN  IF Reaches(approvers) THEN "APPROVED"
      ELSE IF Reaches(rejecters) THEN "REJECTED" ELSE k.status

\* Mutant: rejection is looked at first.
StatusRejectFirst(k, approvers, rejecters) ==
  IF ReachesQuorum(k, rejecters) THEN "REJECTED"
  ELSE IF ReachesQuorum(k, approvers) THEN "APPROVED" ELSE k.status

\* The status recomputeCaseStatus leaves behind: approval is looked at first,
\* and a tally short of both quorums changes nothing.
RecomputedStatus(k, approvers, rejecters) ==
  IF ReachesQuorum(k, approvers) THEN "APPROVED"
  ELSE IF ReachesQuorum(k, rejecters) THEN "REJECTED"
  ELSE k.status

-----------------------------------------------------------------------------
(***************************************************************************)
(* Bank transactions and blocks                                            *)
(***************************************************************************)

Outflow(tx, x) ==
  MapThenSumSet(LAMBDA m : m.amount, {m \in TxMsgs[tx] : m.sender = x})
Inflow(tx, x) ==
  MapThenSumSet(LAMBDA m : m.amount, {m \in TxMsgs[tx] : m.recipient = x})

\* Mutant: an account may be overdrawn.
Overdraft(x, amount) == TRUE

\* The bank refuses to send what the account does not hold.
SufficientFunds(x, amount) == amount <= balance[x]

\* Mutant: only the sender's freeze is looked at.
SenderNotFrozen(from, to) == freeze[from] = None

\* The bank's send restriction for an ordinary transfer.
SendCoinsAllowed(from, to) == freeze[from] = None /\ freeze[to] = None

\* Mutant: proposals are not filtered.
AcceptAnyTx(tx) == TRUE

\* Proposers drop, and validators reject proposals with, a transaction that
\* is sanctioned in the committed state.
ProposalAllows(tx) == tx \notin committedActive

\* A bank transaction is included in the block and succeeds. A signed
\* transaction runs at most once (its account sequence is used up). The
\* post-handler records a receipt for every MsgSend.
DeliverTx(tx) ==
  /\ ProposalAllows(tx)
  /\ receipts[tx] = 0
  /\ \A m \in TxMsgs[tx] : SendCoinsAllowed(m.sender, m.recipient)
  /\ \A x \in Accounts : SufficientFunds(x, Outflow(tx, x))
  /\ balance' = [x \in Accounts |->
                   (balance[x] - Outflow(tx, x)) + Inflow(tx, x)]
  /\ receipts' = [receipts EXCEPT ![tx] = height]
  /\ UNCHANGED <<height, params, registry, reports, caseVars, reviews, active,
                 committedActive, freeze, settlements>>

\* The block ends: the registry is synchronised with the validator set and
\* the state is committed.
EndBlock(powers) ==
  /\ height < MaxHeight
  /\ height' = height + 1
  /\ registry' = powers
  /\ committedActive' = {tx \in Txs : active[tx] # None}
  /\ UNCHANGED <<params, reports, caseVars, reviews, active, freeze, fundVars>>

-----------------------------------------------------------------------------
(***************************************************************************)
(* Messages of the sanction module                                         *)
(***************************************************************************)

\* The authority registers an agent, which becomes eligible at once. An agent
\* without power may be one that the registry does not know.
RegisterAgent(powers) ==
  /\ \E a \in Agents : /\ registry[a] = 0
                       /\ powers = [registry EXCEPT ![a] = powers[a]]
  /\ registry' = powers
  /\ UNCHANGED <<height, params, reports, caseVars, reviews, active,
                 committedActive, freeze, fundVars>>

\* The authority replaces the parameters.
UpdateParams(p) ==
  /\ ValidateParams(p)
  /\ params' = p
  /\ UNCHANGED <<height, registry, reports, caseVars, reviews, active,
                 committedActive, freeze, fundVars>>

\* What a report must be, its score among it, which ReportBody bounds.
ValidateRiskReport(body) ==
  /\ body.expiryHeight > height
  /\ body.source \in params.acceptedRiskSources

\* Anyone submits evidence under a fresh report id.
SubmitRiskReport(r, body) ==
  /\ ValidateRiskReport(body)
  /\ reports[r] = None
  /\ reports' = [reports EXCEPT ![r] = body]
  /\ UNCHANGED <<height, params, registry, caseVars, reviews, active,
                 committedActive, freeze, fundVars>>

\* Report r may be cited, next to the primary report, for this case.
ReportSupports(r, primary, target, action) ==
  /\ reports[r].expiryHeight > height
  /\ target # None => reports[r].transfer.recipient = target
  /\ reports[r].transfer = reports[primary].transfer
  /\ action \in MonetaryActions =>
       UnsettledOriginal(reports[r].transfer) /\ reports[r].transfer.amount > 0

\* Some case, whatever became of it, was opened to replace p.
HasReplacement(p) == \E other \in Cases : cases[other].previousCaseId = p

\* The stale case p may be replaced on the strength of report r.
Replaceable(p, r, targetType) ==
  LET old == PrimaryReport(cases[p])
      new == reports[r]
  IN  /\ cases[p].status \in {"PENDING", "APPROVED", "EXPIRED"}
      /\ cases[p].executedHeight = 0
      /\ p \notin executions
      /\ targetType = "ADDRESS"
      /\ cases[p].targetType = targetType
      /\ cases[p].targetAddress = new.transfer.recipient
      /\ cases[p].txHash = new.transfer.txHash
      /\ new.transfer = old.transfer
      /\ r # cases[p].reportIds[1]
      /\ new.observedHeight > old.observedHeight
      /\ new.observedHeight <= height
      /\ \/ old.expiryHeight <= height
         \/ cases[p].status = "PENDING" /\ cases[p].deadline < height
         \/ cases[p].status = "EXPIRED"
      /\ ~HasReplacement(p)

\* A case is opened. Its electorate and its quorum rules are copied into it.
\* The message also names the transaction and the action; both must agree
\* with the evidence and the policy, so they are computed here, not chosen.
OpenSanctionCase(c, targetType, target, ids, previous) ==
  LET cited == {reports[ids[i]] : i \in DOMAIN ids}
      tx == reports[ids[1]].transfer.txHash
      action == ComputePolicyAction(cited, params, targetType)
      opened == [status |-> "PENDING", action |-> action, txHash |-> tx,
                 targetType |-> targetType, targetAddress |-> target,
                 reportIds |-> ids,
                 deadline |-> height + params.votingPeriodBlocks,
                 voters |-> registry,
                 quorumThreshold |-> params.quorumThreshold,
                 unanimousRequired |-> params.unanimousRequiredForRevert,
                 previousCaseId |-> previous, executedHeight |-> 0]
  IN  /\ cases[c].status = "ABSENT"
      /\ targetType = "ADDRESS" => target # None
      /\ None \notin cited
      /\ action \in params.allowedActions
      /\ \A i \in DOMAIN ids : ReportSupports(ids[i], ids[1], target, action)
      /\ action = "BLOCK_TX" => active[tx] = None
      /\ target # None /\ action = "FREEZE_ADDRESS" => freeze[target] = None
      /\ previous # None => Replaceable(previous, ids[1], targetType)
      /\ \E a \in Agents : registry[a] > 0
      /\ cases' = [x \in Cases |->
                     IF x = c THEN opened
                     ELSE IF x = previous
                          THEN WithStatus(cases[x], "EXPIRED")
                          ELSE cases[x]]
      /\ UNCHANGED <<height, params, registry, reports, votes, executions,
                     reviews, active, committedActive, freeze, fundVars>>

\* A snapshot member votes. A REVERT_TRANSFER case keeps collecting votes
\* after approval, for unanimity. The deadline binds pending cases only; the
\* EXPIRED status a late vote writes is discarded with its failed transaction.
\* An approval must name the case's own action, so the action is not an input.
SubmitSanctionVote(c, a, option) ==
  LET approvers == VotersFor(c, "APPROVE") \cup {x \in {a} : option = "APPROVE"}
      rejecters == VotersFor(c, "REJECT") \cup {x \in {a} : option = "REJECT"}
      status == RecomputedStatus(cases[c], approvers, rejecters)
  IN  /\ \/ cases[c].status = "PENDING" /\ height <= cases[c].deadline
         \/ cases[c].status = "APPROVED" /\ cases[c].action = "REVERT_TRANSFER"
      /\ cases[c].voters[a] > 0
      /\ votes[c][a] = "NONE"
      /\ votes' = [votes EXCEPT ![c][a] = option]
      /\ cases' = [cases EXCEPT ![c] = WithStatus(cases[c], status)]
      /\ active' = IF status = "APPROVED" /\ cases[c].action = "BLOCK_TX"
                   THEN [active EXCEPT ![cases[c].txHash] =
                           [caseId |-> c, activatedHeight |-> height]]
                   ELSE active
      /\ UNCHANGED <<height, params, registry, reports, executions, reviews,
                     committedActive, freeze, fundVars>>

\* Mutant: unanimity is a matter of the current parameters.
UnanimityByParams(c) ==
  cases[c].action = "REVERT_TRANSFER" /\ params.unanimousRequiredForRevert

\* The snapshot asks for unanimity before this transfer is reverted.
UnanimityRequired(c) ==
  cases[c].action = "REVERT_TRANSFER" /\ cases[c].unanimousRequired

\* Mutant: evidence is usable up to and including its expiry height.
FreshThroughExpiry(c) == PrimaryReport(cases[c]).expiryHeight >= height

\* The primary report has not expired.
EvidenceFresh(c) == PrimaryReport(cases[c]).expiryHeight > height

\* What execution of any action requires.
Executable(c) ==
  /\ cases[c].status = "APPROVED"
  /\ c \notin executions
  /\ UnanimityRequired(c) => HasUnanimousApproval(c)
  /\ EvidenceFresh(c)

\* What execution of any action records.
RecordExecution(c) ==
  /\ cases' = [cases EXCEPT ![c] = AsExecuted(cases[c])]
  /\ executions' = executions \cup {c}
  /\ UNCHANGED <<height, params, registry, reports, votes, reviews,
                 committedActive, receipts>>

ExecuteWatch(c) ==
  /\ Executable(c)
  /\ cases[c].action = "WATCH"
  /\ RecordExecution(c)
  /\ UNCHANGED <<active, freeze, settlements, balance>>

\* The sanction is written again, with this case as its owner.
ExecuteBlockTx(c) ==
  /\ Executable(c)
  /\ cases[c].action = "BLOCK_TX"
  /\ active' = [active EXCEPT ![cases[c].txHash] =
                  [caseId |-> c, activatedHeight |-> height]]
  /\ RecordExecution(c)
  /\ UNCHANGED <<freeze, settlements, balance>>

ExecuteFreeze(c) ==
  /\ Executable(c)
  /\ cases[c].action = "FREEZE_ADDRESS"
  /\ cases[c].targetAddress # None
  /\ freeze' = [freeze EXCEPT ![cases[c].targetAddress] = c]
  /\ RecordExecution(c)
  /\ UNCHANGED <<active, settlements, balance>>

\* Mutant: a revert pays the module account.
PayeeIsModule(action, t) == ModuleAccount

\* A revert returns the coins to the sender, escrow keeps them in the module.
SettlementPayee(action, t) ==
  IF action = "REVERT_TRANSFER" THEN t.sender ELSE ModuleAccount

\* The balances after a payment; payer and payee may be one account.
Moved(from, to, amount) ==
  [x \in Accounts |-> (balance[x] - IF x = from THEN amount ELSE 0)
                       + IF x = to THEN amount ELSE 0]

\* executeRevert and executeEscrow: the recipient's coins go to the payee
\* and the transfer is marked as settled. The settlement context exempts these two
\* endpoints from the freeze, so only the funds can be missing.
ExecuteSettlement(c) ==
  LET t == PrimaryReport(cases[c]).transfer
      payee == SettlementPayee(cases[c].action, t)
  IN  /\ Executable(c)
      /\ cases[c].action \in MonetaryActions
      /\ t.recipient = cases[c].targetAddress
      /\ t.txHash = cases[c].txHash
      /\ UnsettledOriginal(t)
      /\ SufficientFunds(t.recipient, t.amount)
      /\ balance' = Moved(t.recipient, payee, t.amount)
      /\ settlements' = [settlements EXCEPT ![t] = c]
      /\ RecordExecution(c)
      /\ UNCHANGED <<active, freeze>>

ExecuteSanction(c) ==
  \/ ExecuteWatch(c)
  \/ ExecuteBlockTx(c)
  \/ ExecuteFreeze(c)
  \/ ExecuteSettlement(c)

\* The authority reviews a case once; the record is immutable.
ReviewSanction(c) ==
  /\ cases[c].status \notin {"ABSENT", "REVOKED"}
  /\ reviews[c] = None
  /\ reviews' = [reviews EXCEPT ![c] =
                   [reviewedHeight |-> height, revokedHeight |-> 0]]
  /\ UNCHANGED <<height, params, registry, reports, caseVars, active,
                 committedActive, freeze, fundVars>>

\* Mutant: review and revocation may share a block.
ReviewedByNow(c) ==
  /\ reviews[c] # None
  /\ reviews[c].reviewedHeight <= height
  /\ reviews[c].revokedHeight = 0

\* The case was reviewed in an earlier block and not revoked since.
ReviewPermitsRevoke(c) ==
  /\ reviews[c] # None
  /\ reviews[c].reviewedHeight < height
  /\ reviews[c].revokedHeight = 0

\* Mutant: only an executed case has a sanction to lift.
ActiveWithoutExecuted(c) ==
  [tx \in Txs |->
     IF /\ tx = cases[c].txHash /\ c \in executions
        /\ active[tx] # None /\ active[tx].caseId = c
     THEN None ELSE active[tx]]

\* Sanctions and freezes that remain when those of case c are lifted.
ActiveWithout(c) ==
  [tx \in Txs |->
     IF tx = cases[c].txHash /\ active[tx] # None /\ active[tx].caseId = c
     THEN None ELSE active[tx]]
FreezeWithout(c) ==
  [x \in Accounts |->
     IF x = cases[c].targetAddress /\ freeze[x] = c THEN None ELSE freeze[x]]

\* A reviewed case is revoked. Sanction and freeze are lifted only where this
\* case owns them; settled money stays where it is.
RevokeSanction(c) ==
  /\ cases[c].status \notin {"ABSENT", "REVOKED"}
  /\ ReviewPermitsRevoke(c)
  /\ active' = ActiveWithout(c)
  /\ freeze' = FreezeWithout(c)
  /\ cases' = [cases EXCEPT ![c] = WithStatus(cases[c], "REVOKED")]
  /\ reviews' = [reviews EXCEPT ![c] =
                   [reviewedHeight |-> reviews[c].reviewedHeight,
                    revokedHeight |-> height]]
  /\ UNCHANGED <<height, params, registry, reports, votes, executions,
                 committedActive, fundVars>>

Next ==
  \/ \E tx \in Txs : DeliverTx(tx)
  \/ \E powers \in PowerMaps : EndBlock(powers)
  \/ \E powers \in PowerMaps : RegisterAgent(powers)
  \/ \E p \in ParamSets : UpdateParams(p)
  \/ \E r \in Reports, body \in ReportBodies : SubmitRiskReport(r, body)
  \/ \E c \in Cases, targetType \in TargetTypes,
        target \in Accounts \cup {None}, ids \in ReportIdLists,
        previous \in Cases \cup {None} :
       OpenSanctionCase(c, targetType, target, ids, previous)
  \/ \E c \in Cases, a \in Agents, option \in VoteOptions :
       SubmitSanctionVote(c, a, option)
  \/ \E c \in Cases : ExecuteSanction(c)
  \/ \E c \in Cases : ReviewSanction(c)
  \/ \E c \in Cases : RevokeSanction(c)

Spec == Init /\ [][Next]_vars

\* Blocks keep coming, and agents who can still vote on a case do so.
FairSpec ==
  /\ Spec
  /\ WF_vars(\E powers \in PowerMaps : EndBlock(powers))
  /\ \A c \in Cases, a \in Agents :
       WF_vars(\E option \in VoteOptions : SubmitSanctionVote(c, a, option))

-----------------------------------------------------------------------------
(***************************************************************************)
(* Properties                                                              *)
(***************************************************************************)

\* Every store holds records of its type.
TypeOK ==
  /\ height \in 1..MaxHeight
  /\ params \in ValidParamSets
  /\ registry \in [Agents -> Nat]
  /\ reports \in [Reports -> ReportBodies \cup {None}]
  /\ cases \in [Cases -> Case]
  /\ votes \in [Cases -> [Agents -> VoteOptions \cup {"NONE"}]]
  /\ executions \in SUBSET Cases
  /\ reviews \in [Cases -> Review \cup {None}]
  /\ active \in [Txs -> ActiveSanction \cup {None}]
  /\ committedActive \in SUBSET Txs
  /\ freeze \in [Accounts -> Cases \cup {None}]
  /\ receipts \in [Txs -> 0..MaxHeight]
  /\ settlements \in [Originals -> Cases \cup {None}]
  /\ balance \in [Accounts -> Nat]

\* The original transfer a case is about.
CaseTransfer(c) == PrimaryReport(cases[c]).transfer

\* What a case record owes to its opening: it cites stored evidence about its
\* own transaction and target, and a case that was never opened has left no
\* trace in the other stores.
CasesWellFormed ==
  \A c \in Cases :
    /\ cases[c].status # "ABSENT" =>
         /\ cases[c].reportIds \in ReportIdLists
         /\ PrimaryReport(cases[c]) \in ReportBodies
         /\ cases[c].txHash = CaseTransfer(c).txHash
         /\ cases[c].targetAddress \in {None, CaseTransfer(c).recipient}
    /\ c \in executions => cases[c].status \in {"EXECUTED", "REVOKED"}
    /\ cases[c].status = "ABSENT" => cases[c].previousCaseId = None

\* Sanctions not yet in the committed state were activated in this block.
SanctionTiming ==
  \A tx \in Txs :
    /\ receipts[tx] <= height
    /\ active[tx] # None =>
         /\ active[tx].activatedHeight <= height
         /\ tx \notin committedActive => active[tx].activatedHeight = height

\* Each original transfer is settled at most once, by exactly the case that
\* was executed for it, and in a block after the transfer itself
\* (unsettledOriginal, SetSettlement). Two cases over one transfer can both be
\* approved; only one of them may move its money.
OneSettlementPerTransfer ==
  /\ \A c \in executions : cases[c].action \in MonetaryActions =>
       /\ CaseTransfer(c) \in Originals
       /\ settlements[CaseTransfer(c)] = c
  /\ \A t \in Originals : settlements[t] # None =>
       /\ settlements[t] \in executions
       /\ cases[settlements[t]].action \in MonetaryActions
       /\ CaseTransfer(settlements[t]) = t
       /\ receipts[t.txHash] # 0
       /\ receipts[t.txHash] < cases[settlements[t]].executedHeight

\* The balances are exactly explained by genesis, the receipts of delivered
\* transactions and the settlements: no execution moves money twice, to the
\* wrong account, or for a transfer that did not happen.
LedgerExplained ==
  LET Delivered == {tx \in Txs : receipts[tx] # 0}
      Settled == {t \in Originals : settlements[t] # None}
      Payee(t) == IF cases[settlements[t]].action = "REVERT_TRANSFER"
                  THEN t.sender ELSE ModuleAccount
      Amounts(S) == MapThenSumSet(LAMBDA t : t.amount, S)
  IN  \A x \in Accounts :
        balance[x] + MapThenSumSet(LAMBDA tx : Outflow(tx, x), Delivered)
                   + Amounts({t \in Settled : t.recipient = x})
          = InitBalance[x] + MapThenSumSet(LAMBDA tx : Inflow(tx, x), Delivered)
                   + Amounts({t \in Settled : Payee(t) = x})

\* The status of a case always agrees with the tally over its snapshot:
\* a decided case has its quorum, an undecided one has none, and neither
\* later votes nor registry or parameter changes can separate the two.
DecisionMatchesTally ==
  \A c \in Cases :
    LET approved == ReachesQuorum(cases[c], VotersFor(c, "APPROVE"))
        rejected == ReachesQuorum(cases[c], VotersFor(c, "REJECT"))
    IN  /\ cases[c].status = "PENDING" => ~approved /\ ~rejected
        /\ cases[c].status = "APPROVED" \/ c \in executions => approved
        /\ cases[c].status = "REJECTED" => rejected /\ ~approved

\* What the members of a snapshot vote on.
SameTerms(j, k) ==
  /\ j.action = k.action
  /\ j.txHash = k.txHash
  /\ j.targetType = k.targetType
  /\ j.targetAddress = k.targetAddress
  /\ j.reportIds = k.reportIds
  /\ j.deadline = k.deadline
  /\ j.voters = k.voters
  /\ j.quorumThreshold = k.quorumThreshold
  /\ j.unanimousRequired = k.unanimousRequired
  /\ j.previousCaseId = k.previousCaseId

\* What is put to the vote stays what it was: once a case is open, nothing
\* changes its action, target, deadline, electorate or rules, nor the evidence
\* it rests on, although parameters, registry and report store go on changing.
TermsImmutable ==
  [][\A c \in Cases : cases[c].status # "ABSENT" =>
       /\ cases'[c].status # "ABSENT"
       /\ SameTerms(cases[c], cases'[c])
       /\ PrimaryReport(cases[c])' = PrimaryReport(cases[c])]_vars

\* A transfer is reverted under the unanimity rule only when every member of
\* the snapshot approved, although quorum approved the case earlier and votes
\* keep arriving after approval.
RevertNeedsUnanimity ==
  \A c \in executions :
    cases[c].action = "REVERT_TRANSFER" /\ cases[c].unanimousRequired =>
      HasUnanimousApproval(c)

\* Whatever was executed rested on evidence about the case's own transaction
\* and target that had not expired at that height.
ExecutedOnFreshEvidence ==
  \A c \in executions :
    /\ PrimaryReport(cases[c]) # None
    /\ cases[c].executedHeight < PrimaryReport(cases[c]).expiryHeight
    /\ cases[c].txHash = CaseTransfer(c).txHash
    /\ cases[c].targetAddress \in {None, CaseTransfer(c).recipient}

\* A case has at most one replacement, over the same transfer, and once it is
\* replaced it can no longer be executed: of a chain of replacements at most
\* the last member ever takes effect (expireForReplacement).
ReplacedNeverExecutes ==
  \A c \in Cases : cases[c].previousCaseId # None =>
    LET p == cases[c].previousCaseId
    IN  /\ cases[p].status \in {"EXPIRED", "REVOKED"}
        /\ p \notin executions
        /\ cases[p].reportIds # <<>>
        /\ CaseTransfer(p) = CaseTransfer(c)
        /\ \A d \in Cases : cases[d].previousCaseId = p => d = c

\* A transaction sanction or a freeze always belongs to a case that decided
\* on it and was not revoked, so that revoking a case leaves nothing of it in
\* force, however many cases wrote the same record before.
SanctionsHaveLiveOwner ==
  /\ \A tx \in Txs : active[tx] # None =>
       LET k == cases[active[tx].caseId]
       IN  /\ k.action = "BLOCK_TX"
           /\ k.txHash = tx
           /\ k.status \in {"APPROVED", "EXECUTED", "EXPIRED"}
  /\ \A x \in Accounts : freeze[x] # None =>
       LET k == cases[freeze[x]]
       IN  /\ k.action = "FREEZE_ADDRESS"
           /\ k.targetAddress = x
           /\ k.status = "EXECUTED"

\* A transaction is never delivered in a block after the one that sanctioned
\* it, while the sanction stands (PrepareProposal and ProcessProposal).
NoDeliveryUnderSanction ==
  \A tx \in Txs : active[tx] # None =>
    receipts[tx] <= active[tx].activatedHeight

\* A revoked case was reviewed in an earlier block, and only revocation closes
\* a review.
RevokedAfterReview ==
  \A c \in Cases :
    /\ cases[c].status = "REVOKED" =>
         reviews[c] # None /\ reviews[c].revokedHeight # 0
    /\ reviews[c] # None /\ reviews[c].revokedHeight # 0 =>
         /\ cases[c].status = "REVOKED"
         /\ reviews[c].reviewedHeight < reviews[c].revokedHeight

\* The life cycle of a case.
LegalTransitions ==
  {<<"ABSENT", "PENDING">>, <<"PENDING", "APPROVED">>,
   <<"PENDING", "REJECTED">>, <<"APPROVED", "EXECUTED">>,
   <<"PENDING", "EXPIRED">>, <<"APPROVED", "EXPIRED">>}
  \cup ({"PENDING", "APPROVED", "REJECTED", "EXECUTED", "EXPIRED"}
          \X {"REVOKED"})

\* A case only moves along its life cycle. In particular a vote after approval
\* never turns APPROVED into REJECTED, and nothing leaves REVOKED.
StatusFollowsLifeCycle ==
  [][\A c \in Cases : cases'[c].status # cases[c].status =>
       <<cases[c].status, cases'[c].status>> \in LegalTransitions]_vars

\* Once an address is frozen, no bank transfer moves coins from it or to it:
\* its balance changes by settlements only, which the settlement context lets
\* pass (SendCoinsAllowed).
FrozenCoinsMoveOnlyBySettlement ==
  [][\A x \in Accounts : freeze[x] # None /\ balance'[x] # balance[x] =>
       settlements' # settlements]_vars

-----------------------------------------------------------------------------
(***************************************************************************)
(* What the documents say and the code does not do                         *)
(***************************************************************************)

\* docs/ai-sanction-system-spec.md: an approved BLOCK_TX case is reflected in
\* ActiveTxSanction. recomputeCaseStatus overwrites another case's record and
\* RevokeSanction deletes it, which leaves the other approved case without one.
ApprovedBlockIsActive ==
  \A c \in Cases :
    cases[c].status = "APPROVED" /\ cases[c].action = "BLOCK_TX" =>
      active[cases[c].txHash] # None

\* docs/ai-sanction-system-spec.md and TestVotingDeadlineExpiresPendingCase: a
\* case without quorum expires when its voting deadline has passed.
ExpiresAfterDeadline ==
  \A c \in Cases :
    (cases[c].status = "PENDING" /\ height > cases[c].deadline)
      ~> (cases[c].status # "PENDING")

=============================================================================
