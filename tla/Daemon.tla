-------------------------------- MODULE Daemon --------------------------------
(***************************************************************************)
(* The agent daemons (dev/agent/cmd/sanction-agent, daemon.go and          *)
(* daemon_recovery.go) at work on one suspicious transaction: each daemon  *)
(* discovers it, reviews it, and by rank opens a case, votes and executes; *)
(* when evidence or voting runs out, a new round of the case follows.      *)
(*                                                                         *)
(* A tick reads the chain at one committed height and writes the daemon's  *)
(* journal in several steps, with a crash possible after each; since       *)
(* nobody else reads the journal, a tick is over before the next block.    *)
(* Sending is reduced to what module TxManager shows it to be: one         *)
(* transaction at a time, in the order of the keys, whose outcome is found *)
(* out later. The chain is reduced to the handlers that the daemons call.  *)
(***************************************************************************)
EXTENDS Evaluation, Sequences

CONSTANTS
  Agents,         \* agents in the order of their ids, a sequence
  Configs,        \* how daemons are configured, and what they start from
  Answers,        \* answers of the services for a transfer
  QuorumPercent, Unanimous, VotingPeriod,   \* chain parameters
  ScanLimit,      \* bound of the code: blocks that one tick scans
  None,
  MaxHeight,      \* bound: block height
  MaxRound,       \* bound: rounds of the case
  MaxFaults       \* bound: events outside the daemons

VARIABLES
  config,    \* the configuration of the daemons, which never changes
  height,    \* committed height
  original,  \* the transaction: where it is, and since which height
  cases,     \* rounds of the automatic case, round r at r + 1
  registry,  \* active agents
  mempool,   \* transactions of daemons, on their way into a block
  failures,  \* included transactions that failed, with the reason
  cursor,    \* last block that each daemon has scanned
  stage,     \* how far each daemon's tick has come
  ready,     \* height of each daemon's last tick
  work,      \* what each daemon stores about the transaction
  intents,   \* intents of each daemon
  faults     \* number of outside events so far

chainVars == <<config, height, original, cases, registry, failures>>
vars == <<config, height, original, cases, registry, mempool, failures, cursor,
          stage, ready, work, intents, faults>>

AgentSet == {Agents[n] : n \in DOMAIN Agents}

ASSUME AnswersAssumption ==
  \A x \in Answers :
    /\ x.risk \in ScreenTx
    /\ x.decision \in AgentEvaluate(AgentSet)
    /\ x.explanation \in Explain

\* Each daemon has a target type and a start height; evidence is valid for the
\* smaller of the configured and the chain's number of blocks, at least three.
ASSUME ConfigsAssumption ==
  \A c \in Configs :
    /\ c.target \in [AgentSet -> TargetTypes]
    /\ c.start \in [AgentSet -> Nat \ {0}]
    /\ c.ttl \in Nat /\ c.ttl >= 3
    /\ c.original \in {"pending", "ok"}
    /\ c.transfers \in (SUBSET Nat) \ {{}} /\ IsFiniteSet(c.transfers)

ASSUME BoundsAssumption == VotingPeriod \in Nat /\ ScanLimit \in Nat /\ MaxRound \in Nat

Stages == {"down", "idle", "scanned", "progressed"}

\* Intents in the order of their keys in the journal.
IntentOrder ==
  LET rounds(kind) == [r \in 1..MaxRound + 1 |-> <<kind, r - 1>>]
  IN rounds("execute") \o rounds("open") \o rounds("vote")

NewWork(r, transfers, h) ==
  [round |-> r, seen |-> h, transfers |-> transfers, approved |-> 0,
   review |-> None, done |-> None]

TargetOf(a) == config.target[a]

\* Message numbers of the bank sends in the transaction.
Transfers == config.transfers

\* The transaction is pending, or in a block before some daemons start.
Init ==
  /\ config \in Configs
  /\ height = 1
  /\ original = [where |-> config.original, height |-> 1]
  /\ cursor = [a \in AgentSet |-> config.start[a] - 1]
  /\ cases = <<>>
  /\ registry = AgentSet
  /\ mempool = {} /\ failures = <<>>
  /\ stage = [a \in AgentSet |-> "idle"]
  /\ ready = [a \in AgentSet |-> 0]
  /\ work = [a \in AgentSet |-> None]
  /\ intents = [a \in AgentSet |-> <<>>]
  /\ faults = 0

-----------------------------------------------------------------------------
(***************************************************************************)
(* The chain                                                               *)
(***************************************************************************)

Voters(votes, option) == {a \in DOMAIN votes : votes[a] # None /\ votes[a].option = option}

Percent(votes, option, voters) ==
  RoundedPercent(Cardinality(Voters(votes, option)), Cardinality(voters))

\* The status after a vote.
Tally(c) ==
  IF Percent(c.votes, "approve", c.voters) >= QuorumPercent THEN "APPROVED"
  ELSE IF Percent(c.votes, "reject", c.voters) >= QuorumPercent THEN "REJECTED"
  ELSE c.status

\* A new round replaces one that ran out, with newer evidence.
Replaceable(prev, tx, h) ==
  /\ ~prev.executed
  /\ prev.status \in {"PENDING", "APPROVED", "EXPIRED"}
  /\ prev.target = "ADDRESS" /\ tx.target = "ADDRESS"
  /\ prev.transfer = tx.transfer
  /\ tx.observed > prev.observed
  /\ prev.expiry <= h \/ (prev.status = "PENDING" /\ prev.deadline < h)

\* A new case, a case with one more vote, and one that is executed.
Opened(tx, h) ==
  [action |-> tx.action, target |-> tx.target, transfer |-> tx.transfer,
   observed |-> tx.observed, expiry |-> tx.expiry, deadline |-> h + VotingPeriod,
   opened |-> h, voters |-> registry, votes |-> [a \in AgentSet |-> None],
   status |-> "PENDING", executed |-> FALSE]

Voted(c, tx) ==
  LET voted == [c EXCEPT !.votes = [@ EXCEPT ![tx.from] =
                  [option |-> tx.option, observed |-> tx.observed]]]
  IN [voted EXCEPT !.status = Tally(voted)]

Executed(c) == [c EXCEPT !.status = "EXECUTED", !.executed = TRUE]

\* What the handler of a transaction in a block at height h answers.
Verdict(tx, h) ==
  IF tx.kind = "open" THEN
    IF Len(cases) > tx.round \/ Len(cases) < tx.round THEN "refused"
    ELSE IF tx.expiry <= h THEN "expired"
    ELSE IF tx.action # ComputePolicyAction({tx.report}, Thresholds, tx.target)
    THEN "policy"
    ELSE IF tx.action \in MonetaryActions /\ original.where # "ok" THEN "refused"
    ELSE IF tx.round > 0 /\ ~Replaceable(cases[tx.round], tx, h) THEN "refused"
    ELSE "ok"
  ELSE LET c == cases[tx.round + 1] IN
    IF tx.kind = "vote" THEN
      IF /\ \/ c.status = "PENDING" /\ h <= c.deadline
            \/ c.status = "APPROVED" /\ c.action = "REVERT_TRANSFER"
         /\ tx.from \in c.voters /\ c.votes[tx.from] = None
      THEN "ok" ELSE "refused"
    ELSE IF \/ c.status # "APPROVED"
            \/ /\ c.action = "REVERT_TRANSFER" /\ Unanimous
               /\ Voters(c.votes, "approve") # c.voters
    THEN "refused"
    ELSE IF c.expiry <= h THEN "expired" ELSE "ok"

\* The cases after a successful transaction in a block at height h.
Applied(tx, h) ==
  LET n == tx.round + 1
  IN IF tx.kind = "open"
     THEN Append([r \in DOMAIN cases |-> IF r = tx.round
                    THEN [cases[r] EXCEPT !.status = "EXPIRED"] ELSE cases[r]],
                 Opened(tx, h))
     ELSE IF tx.kind = "vote" THEN [cases EXCEPT ![n] = Voted(@, tx)]
     ELSE [cases EXCEPT ![n] = Executed(@)]

Outside ==
  /\ faults < MaxFaults
  /\ faults' = faults + 1

\* The failures with one more transaction, or a later result of the same one.
Failing(tx, reason) ==
  [t \in DOMAIN failures \cup {tx} |-> IF t = tx THEN reason ELSE failures[t]]

\* A block has at most one transaction that matters here.
Block ==
  /\ height < MaxHeight
  /\ \A a \in AgentSet : stage[a] \in {"down", "idle"}
  /\ height' = height + 1
  /\ UNCHANGED <<config, registry, cursor, stage, ready, work, intents>>

\* A block that leaves waiting transactions out is one of the outside events.
EmptyBlock ==
  /\ Block
  /\ IF mempool = {} THEN UNCHANGED faults ELSE Outside
  /\ UNCHANGED <<original, cases, mempool, failures>>

IncludeOriginal ==
  /\ Block
  /\ original.where = "pending"
  /\ \E result \in {"ok", "failed"} :
       original' = [where |-> result, height |-> height + 1]
  /\ UNCHANGED <<cases, mempool, failures, faults>>

IncludeTx(tx) ==
  /\ Block
  /\ mempool' = mempool \ {tx}
  /\ LET verdict == Verdict(tx, height + 1)
     IN IF verdict = "ok"
        THEN cases' = Applied(tx, height + 1) /\ UNCHANGED failures
        ELSE failures' = Failing(tx, verdict) /\ UNCHANGED cases
  /\ UNCHANGED <<original, faults>>

\* A transaction runs out of gas or of fees; it can be retried.
FailTx(tx) ==
  /\ Block
  /\ Outside
  /\ mempool' = mempool \ {tx}
  /\ failures' = Failing(tx, "gas")
  /\ UNCHANGED <<original, cases>>

\* The authority revokes the last round after a review.
Revoke ==
  /\ Outside
  /\ cases # <<>> /\ cases[Len(cases)].status # "REVOKED"
  /\ cases' = [cases EXCEPT ![Len(cases)].status = "REVOKED"]
  /\ UNCHANGED <<config, height, original, registry, mempool, failures, cursor, stage, ready,
                 work, intents>>

\* A validator leaves the set, and its agent with it.
Leave(a) ==
  /\ Outside
  /\ a \in registry /\ registry # {a}
  /\ registry' = registry \ {a}
  /\ UNCHANGED <<config, height, original, cases, mempool, failures, cursor, stage, ready,
                 work, intents>>

-----------------------------------------------------------------------------
(***************************************************************************)
(* What a daemon makes of the chain                                        *)
(***************************************************************************)

\* Position among the active agents; one that has left comes after them.
Rank(a) ==
  IF a \in registry
  THEN Cardinality({n \in DOMAIN Agents : /\ Agents[n] \in registry
                                          /\ \E m \in DOMAIN Agents : m > n /\ Agents[m] = a})
  ELSE Cardinality(registry)

\* Round r of the case, if there is one.
GetCase(r) == IF Len(cases) > r THEN cases[r + 1] ELSE None

Last == GetCase(Len(cases) - 1)

Final(c) == c.executed \/ c.status \in {"REVOKED", "REJECTED"}

VotingOver(c) == c.status = "PENDING" /\ c.deadline < height

RunOut(c) == c.expiry <= height + 1 \/ c.status = "EXPIRED" \/ VotingOver(c)

\* The last block in which the evidence is valid is left to an execution.
LastValidBlock(c) == c.expiry > height /\ c.status # "EXPIRED" /\ ~VotingOver(c)

\* The last round has run out, and the daemon works towards the next one.
Recovering ==
  /\ cases # <<>> /\ ~Final(Last)
  /\ Last.target = "ADDRESS"
  /\ RunOut(Last) /\ ~LastValidBlock(Last)

\* The case that there is to vote on or to execute.
Current == IF cases = <<>> \/ Recovering THEN None ELSE Last

OriginalConfirmed == original.where = "ok"

\* Mutant: the review of another transfer is kept.
BindKeepsReview(w, c) == [w EXCEPT !.transfers = {c.transfer}]

\* The work, bound to the transfer that the case is about.
BindOriginal(w, c) ==
  [w EXCEPT !.transfers = {c.transfer},
            !.review = IF @ # None /\ @.transfer # c.transfer THEN None ELSE @]

\* Mutant: the review of the last round is kept for the next one.
FollowKeepsReview(w) ==
  IF cases = <<>> \/ (~Final(Last) /\ ~Recovering /\ RunOut(Last)) THEN w
  ELSE IF Recovering
  THEN [BindOriginal(w, Last) EXCEPT !.round = Len(cases), !.approved = 0,
          !.seen = IF w.round # Len(cases) THEN height ELSE @]
  ELSE [w EXCEPT !.round = Len(cases) - 1]

\* The work, moved to the round that is due; a new round starts afresh.
Follow(w) ==
  LET last == Len(cases) - 1
      restart(v, r) == IF w.round = r THEN v
                       ELSE [v EXCEPT !.round = r, !.review = None, !.approved = 0]
  IN IF cases = <<>> THEN w
     ELSE IF Final(Last) THEN [w EXCEPT !.round = last]
     ELSE IF Recovering
     THEN [restart(BindOriginal(w, Last), last + 1) EXCEPT
             !.seen = IF w.round # last + 1 THEN height ELSE @]
     ELSE IF Last.target = "ADDRESS" /\ RunOut(Last) THEN w
     ELSE restart(w, last)

Stale(review) == review # None => review.expiry <= height + 1

\* The transaction is one to open a case for.
Openable(a) ==
  /\ Current = None
  /\ a \in registry
  /\ IF TargetOf(a) = "ADDRESS" THEN OriginalConfirmed
     ELSE original.where \notin {"ok", "failed"}

\* There is a case of this daemon's kind, about a confirmed transfer.
Votable(a) ==
  /\ Current # None /\ ~Final(Current) /\ Current.status # "EXPIRED"
  /\ Current.target = TargetOf(a)
  /\ TargetOf(a) = "ADDRESS" => OriginalConfirmed

\* The work as progress sees it after it has looked at the case.
Seen(a) ==
  LET w == Follow(work[a])
  IN IF Current # None /\ Current.target = "ADDRESS" /\ TargetOf(a) = "ADDRESS"
     THEN BindOriginal(w, Current) ELSE w

\* The daemon has work to progress with. A round that ran out is not replaced
\* unless its transfer is confirmed.
Busy(a) ==
  /\ stage[a] = "scanned"
  /\ work[a] # None /\ work[a].done \in {None, "EXPIRED"}
  /\ Recovering => OriginalConfirmed

-----------------------------------------------------------------------------
(***************************************************************************)
(* The tick of a daemon                                                    *)
(***************************************************************************)

\* Of the transactions that succeeded in these blocks: the rounds that they
\* opened, and whether the original is one of them.
BlockTxs(blocks) ==
  [opens |-> {r \in DOMAIN cases : cases[r].opened \in blocks},
   original |-> original.where = "ok" /\ original.height \in blocks]

PendingTransactions == {t \in {original} : t.where = "pending"}

\* What the blocks up to h tell about the transaction.
Observed(a, h) ==
  LET txs == BlockTxs(cursor[a] + 1..h)
      opens == txs.opens
      included == txs.original
  IN IF work[a] # None THEN work[a]
     ELSE IF opens # {} /\ (included => cases[Min(opens)].opened < original.height)
     THEN NewWork(Min(opens) - 1, {}, cases[Min(opens)].opened)
     ELSE IF included THEN NewWork(0, Transfers, original.height)
     ELSE None

\* Mutant: the cursor is stored before the block is looked at.
CursorFirst(a, h) == [cursor |-> h, work |-> Observed(a, h - 1)]

\* The store after a crash in block h: what the block shows is stored before
\* the cursor moves past it.
ScanInterrupted(a, h) == [cursor |-> h - 1, work |-> Observed(a, h)]

\* The store after the blocks up to h and the mempool.
Scanned(a, h) ==
  LET w == Observed(a, h)
  IN [cursor |-> h,
      work |-> IF w = None /\ PendingTransactions # {}
               THEN NewWork(0, Transfers, height) ELSE w]

\* The last block that a tick scans.
ScanEnd(a) == Min({height, cursor[a] + ScanLimit})

SetStage(a, s) == stage' = [stage EXCEPT ![a] = s]

\* Blocks since the cursor are scanned, at most ScanLimit of them, and then the
\* mempool. A crash in between leaves the store as it is, to start again from.
\* Nothing is done while the chain is behind the cursor.
Scan(a) ==
  /\ stage[a] = "idle" /\ cursor[a] <= height
  /\ LET store(x) == /\ cursor' = [cursor EXCEPT ![a] = x.cursor]
                     /\ work' = [work EXCEPT ![a] = x.work]
     IN \/ store(Scanned(a, ScanEnd(a))) /\ SetStage(a, "scanned") /\ UNCHANGED faults
        \/ /\ Outside /\ SetStage(a, "down")
           /\ \E h \in cursor[a] + 1..ScanEnd(a) : store(ScanInterrupted(a, h))
  /\ ready' = [ready EXCEPT ![a] = height]
  /\ UNCHANGED <<chainVars, mempool, intents>>

\* A daemon is stopped between two writes and started again.
Crash(a) ==
  /\ Outside
  /\ stage[a] # "down" /\ SetStage(a, "down")
  /\ UNCHANGED <<chainVars, mempool, cursor, ready, work, intents>>

Start(a) ==
  /\ stage[a] = "down" /\ SetStage(a, "idle")
  /\ UNCHANGED <<chainVars, mempool, cursor, ready, work, intents, faults>>

SetWork(a, w) == work' = [work EXCEPT ![a] = w]

\* The end of progress, with the work that is stored.
Progressed(a, w) ==
  /\ SetWork(a, w) /\ SetStage(a, "progressed")
  /\ UNCHANGED <<chainVars, mempool, cursor, ready, faults>>

Done(a, result) == Progressed(a, [Seen(a) EXCEPT !.done = result]) /\ UNCHANGED intents

\* No work, work that is done, or a case whose transfer is not confirmed.
ProgressNothing(a) ==
  /\ stage[a] = "scanned" /\ ~Busy(a)
  /\ Progressed(a, work[a]) /\ UNCHANGED intents

\* Mutant: an approval is taken for an execution.
DecidedWhenApproved(a) ==
  /\ Busy(a) /\ Current # None
  /\ Current.status = "APPROVED"
  /\ Done(a, "executed")

\* The case is executed or decided, or not of this daemon's kind.
ProgressDecided(a) ==
  /\ Busy(a) /\ Current # None
  /\ \/ Current.executed /\ Done(a, "executed")
     \/ /\ ~Current.executed /\ Current.status \in {"REJECTED", "REVOKED", "EXPIRED"}
        /\ Done(a, Current.status)
     \/ /\ ~Final(Current) /\ Current.status # "EXPIRED"
        /\ Current.target # TargetOf(a)
        /\ Done(a, "different_target_type")

\* There is no case, and none can be opened: the daemon waits or is done.
ProgressWithoutCase(a) ==
  /\ Busy(a) /\ Current = None /\ ~Openable(a)
  /\ IF a \notin registry \/ original.where = "pending"
     THEN Progressed(a, Seen(a)) /\ UNCHANGED intents
     ELSE Done(a, IF original.where = "failed" THEN "failed_original" ELSE "already_finalized")

\* The daemon's own review, from fresh answers of the services. A daemon that
\* knows the transaction only from a case takes the transfer from its report.
Review(a, transfers) ==
  {ProcessPendingTransfers([t \in transfers |-> ProcessTx(a, TargetOf(a), x[t])]) :
   x \in [transfers -> Answers]}

Evaluated(a, w, review) ==
  [w EXCEPT !.review = [transfer |-> review.transfer, action |-> review.action,
                        report |-> [score |-> review.score,
                                    categories |-> review.categories],
                        observed |-> height, expiry |-> height + config.ttl]]

KnownTransfers(w) ==
  IF w.transfers = {} /\ Current # None THEN {Current.transfer} ELSE w.transfers

\* A review is stored before it is acted on. Without one, work is left as it is.
Evaluate(a) ==
  /\ Busy(a) /\ (Openable(a) \/ Votable(a))
  /\ Stale(Seen(a).review)
  /\ LET w == [Seen(a) EXCEPT !.transfers = KnownTransfers(Seen(a))]
     IN \/ /\ \E review \in Review(a, w.transfers) \ {Failed} :
               SetWork(a, Evaluated(a, w, review))
           /\ UNCHANGED <<stage, faults>>
        \/ /\ Outside
           /\ Failed \in Review(a, w.transfers)
           /\ SetStage(a, "progressed") /\ UNCHANGED work
  /\ UNCHANGED <<chainVars, mempool, cursor, ready, intents>>

Reviewed(a) == Busy(a) /\ ~Stale(Seen(a).review)

ProgressNoAction(a) ==
  /\ Reviewed(a) /\ Openable(a)
  /\ Seen(a).review.action = NoAction
  /\ Done(a, "no_action")

\* Intents are put once under their key.
Queued(tx) == [status |-> "queued", tx |-> tx, reason |-> None]

Enqueued(known, key, tx) ==
  [k \in DOMAIN known \cup {key} |-> IF k \in DOMAIN known THEN known[k] ELSE Queued(tx)]

SetIntents(a, known) == intents' = [intents EXCEPT ![a] = known]

OpenMessages(a, w) ==
  [from |-> a, kind |-> "open", round |-> w.round, target |-> TargetOf(a),
   action |-> w.review.action, transfer |-> w.review.transfer,
   report |-> w.review.report, observed |-> w.review.observed,
   expiry |-> w.review.expiry, attempt |-> 1]

\* The daemon whose turn it is queues the case; evidence that expired before or
\* after it was sent is replaced by the fresh review.
ProgressOpen(a) ==
  /\ Reviewed(a) /\ Openable(a)
  /\ Seen(a).review.action # NoAction
  /\ Seen(a).round <= MaxRound
  /\ LET w == Seen(a)
         key == <<"open", w.round>>
         tx == OpenMessages(a, w)
         known == intents[a]
     IN /\ Progressed(a, w)
        /\ IF height < w.seen + 2 * Rank(a) THEN UNCHANGED intents
           ELSE IF key \notin DOMAIN known THEN SetIntents(a, Enqueued(known, key, tx))
           ELSE IF \/ known[key].status = "queued"
                   \/ known[key].status = "failed" /\ known[key].reason = "expired"
           THEN SetIntents(a, [known EXCEPT ![key] = Queued(tx)])
           ELSE UNCHANGED intents

VoteMessage(a, w) ==
  [from |-> a, kind |-> "vote", round |-> w.round, observed |-> w.review.observed,
   transfer |-> w.review.transfer, attempt |-> 1,
   option |-> IF w.review.action = Current.action THEN "approve" ELSE "reject"]

ExecuteMessage(a, r) == [from |-> a, kind |-> "execute", round |-> r, attempt |-> 1]

\* A voter of the case that has not voted says what its own review says.
MayVote(a, c) ==
  /\ a \in c.voters /\ c.votes[a] = None
  /\ c.status = "PENDING" \/ (c.status = "APPROVED" /\ c.action = "REVERT_TRANSFER")

\* An approved case that the daemon's review agrees with.
MayExecute(w, c) ==
  /\ c.status = "APPROVED" /\ w.review.action = c.action
  /\ c.action = "REVERT_TRANSFER" /\ Unanimous => Voters(c.votes, "approve") = c.voters

\* A vote is queued, and an execution when it is this daemon's turn, counted
\* from where it first saw the approval.
ProgressCase(a) ==
  /\ Reviewed(a) /\ Votable(a)
  /\ LET seen == Seen(a)
         r == seen.round
         due == MayExecute(seen, Current)
         w == IF due /\ seen.approved = 0 THEN [seen EXCEPT !.approved = height] ELSE seen
         voted == IF MayVote(a, Current)
                  THEN Enqueued(intents[a], <<"vote", r>>, VoteMessage(a, w))
                  ELSE intents[a]
     IN /\ Progressed(a, w)
        /\ SetIntents(a, IF due /\ height >= w.approved + 2 * Rank(a)
                         THEN Enqueued(voted, <<"execute", r>>, ExecuteMessage(a, r))
                         ELSE voted)

-----------------------------------------------------------------------------
(***************************************************************************)
(* Sending                                                                 *)
(***************************************************************************)

\* The operation of an intent is on chain.
Satisfied(a, key) ==
  LET c == GetCase(key[2])
  IN /\ c # None
     /\ CASE key[1] = "open" -> TRUE
          [] key[1] = "vote" -> a \in c.voters /\ c.votes[a] # None
          [] key[1] = "execute" -> c.executed

\* Mutant: an execution is not compared with the daemon's review.
ObsoleteByStatus(a, key) ==
  /\ ~Satisfied(a, key)
  /\ IF key[1] = "open" THEN GetCase(key[2]) = None /\ work[a].done = "no_action"
     ELSE GetCase(key[2]).status \in {"REJECTED", "REVOKED", "EXPIRED", "EXECUTED"}

\* The operation has become pointless: the work ended without a case, the case
\* was decided, or an execution is not what the daemon's review says.
Obsolete(a, key) ==
  LET r == key[2]
      c == GetCase(r)
  IN /\ ~Satisfied(a, key)
     /\ IF key[1] = "open" THEN c = None /\ work[a].done = "no_action"
        ELSE \/ c.status \in {"REJECTED", "REVOKED", "EXPIRED", "EXECUTED"}
             \/ /\ key[1] = "vote" /\ c.status = "APPROVED"
                /\ c.action # "REVERT_TRANSFER"
             \/ key[1] = "execute" /\ work[a].round # r
             \/ /\ key[1] = "execute" /\ ~Stale(work[a].review)
                /\ work[a].review.action # c.action

\* An execution waits until the daemon has a valid review of its own.
ReevaluationRequired(a, key) ==
  /\ key[1] = "execute"
  /\ ~Satisfied(a, key) /\ ~Obsolete(a, key)
  /\ Stale(work[a].review)

SetStatus(a, key, status) == intents' = [intents EXCEPT ![a][key].status = status]

Settled(a, key) == IF Satisfied(a, key) THEN "satisfied" ELSE "cancelled"

Blocked(a, key) ==
  /\ ~Satisfied(a, key) /\ ~Obsolete(a, key) /\ ReevaluationRequired(a, key)

Order(key) == CHOOSE n \in DOMAIN IntentOrder : IntentOrder[n] = key

\* Where Step stops: an intent to send or to wait for, or one that is blocked.
StopsAt(a, key) ==
  \/ intents[a][key].status \in {"queued", "pending"}
  \/ intents[a][key].status = "failed" /\ Blocked(a, key)

\* An intent after Step has looked at it: settled from what the chain shows,
\* failed as its transaction did, or sent.
Handled(a, key) ==
  LET i == intents[a][key]
  IN IF Satisfied(a, key) \/ Obsolete(a, key)
     THEN [i EXCEPT !.status = Settled(a, key)]
     ELSE IF i.status = "failed" \/ Blocked(a, key) THEN i
     ELSE IF i.status = "pending" /\ i.tx \in DOMAIN failures
     THEN [i EXCEPT !.status = "failed", !.reason = failures[i.tx]]
     ELSE [i EXCEPT !.status = "pending"]

\* Failed intents are reconciled, up to the first one that Step stops at.
Reached(a, key) ==
  /\ StopsAt(a, key) \/ intents[a][key].status = "failed"
  /\ \A other \in DOMAIN intents[a] : StopsAt(a, other) => Order(key) <= Order(other)

Sends(a, key) ==
  Reached(a, key) /\ intents[a][key].status = "queued" /\ Handled(a, key).status = "pending"

\* A transaction that is sent again is the same one.
Step(a) ==
  /\ stage[a] = "progressed" /\ SetStage(a, "idle")
  /\ SetIntents(a, [key \in DOMAIN intents[a] |->
                      IF Reached(a, key) THEN Handled(a, key) ELSE intents[a][key]])
  /\ mempool' = mempool \cup
       {intents[a][key].tx : key \in {k \in DOMAIN intents[a] : Sends(a, k)}}
  /\ UNCHANGED <<chainVars, cursor, ready, work, faults>>

\* The work with which the round of a failed intent is reviewed again.
Reopened(w, r) == [w EXCEPT !.round = r, !.review = None]

Rebound(a, key) ==
  LET w == Reopened(work[a], key[2])
      c == GetCase(key[2])
  IN IF c # None THEN BindOriginal(w, c) ELSE [w EXCEPT !.transfers = Transfers]

Retry(a, key, tx) ==
  intents' = [intents EXCEPT ![a][key] =
                Queued([tx EXCEPT !.attempt = @ + intents[a][key].tx.attempt])]

\* What is done with a failed intent once there is a new review.
Reconsider(a, key, review) ==
  LET c == GetCase(key[2])
      w == Evaluated(a, Rebound(a, key), review)
  IN /\ SetWork(a, w)
     /\ \/ /\ key[1] = "open"
           /\ IF review.action = NoAction THEN SetStatus(a, key, "cancelled")
              ELSE Retry(a, key, OpenMessages(a, w))
        \/ /\ key[1] = "vote"
           /\ IF a \notin c.voters THEN SetStatus(a, key, "cancelled")
              ELSE Retry(a, key, [VoteMessage(a, w) EXCEPT !.option =
                     IF review.action = c.action THEN "approve" ELSE "reject"])
        \/ /\ key[1] = "execute"
           /\ IF c.status # "APPROVED" \/ review.action # c.action
              THEN SetStatus(a, key, "cancelled")
              ELSE Retry(a, key, ExecuteMessage(a, key[2]))

\* An operator starts the daemon with a failed intent to retry. The case is
\* looked at again, and the review that is stored is for the intent's round.
RecoverFailed(a, key) ==
  /\ stage[a] \in {"down", "idle"} /\ SetStage(a, "idle")
  /\ key \in DOMAIN intents[a]
  /\ intents[a][key].status = "failed" /\ intents[a][key].reason \in {"gas", "expired"}
  /\ ~Satisfied(a, key) /\ ~Obsolete(a, key)
  /\ OriginalConfirmed
  /\ LET c == GetCase(key[2])
     IN IF c # None /\ (Final(c) \/ c.status = "EXPIRED" \/ c.expiry <= height
                              \/ VotingOver(c))
        THEN SetStatus(a, key, "cancelled") /\ UNCHANGED work
        ELSE /\ c = None => key[1] = "open" /\ TargetOf(a) = "ADDRESS"
             /\ \E review \in Review(a, Rebound(a, key).transfers) \ {Failed} :
                  Reconsider(a, key, review)
  /\ UNCHANGED <<chainVars, mempool, cursor, ready, faults>>

-----------------------------------------------------------------------------
Tick(a) ==
  \/ Scan(a)
  \/ ProgressNothing(a) \/ ProgressDecided(a) \/ ProgressWithoutCase(a)
  \/ Evaluate(a) \/ ProgressNoAction(a) \/ ProgressOpen(a) \/ ProgressCase(a)
  \/ Step(a)

Next ==
  \/ EmptyBlock \/ IncludeOriginal \/ Revoke
  \/ \E tx \in mempool : IncludeTx(tx) \/ FailTx(tx)
  \/ \E a \in AgentSet : \/ Tick(a) \/ Crash(a) \/ Start(a) \/ Leave(a)
                         \/ \E n \in DOMAIN IntentOrder : RecoverFailed(a, IntentOrder[n])

Spec == Init /\ [][Next]_vars

-----------------------------------------------------------------------------
(***************************************************************************)
(* Properties                                                              *)
(***************************************************************************)

Evidence == [score : Nat, categories : SUBSET STRING]

Endings ==
  {"executed", "REJECTED", "REVOKED", "EXPIRED", "different_target_type",
   "failed_original", "already_finalized", "no_action"}

Results == Endings \cup {None}

Reviews ==
  [transfer : Nat, action : SanctionActions \cup {NoAction}, report : Evidence,
   observed : Nat, expiry : Nat]

Works ==
  [round : 0..MaxRound + 1, seen : Nat, transfers : SUBSET Nat, approved : Nat,
   review : Reviews \cup {None}, done : Results]

Options == [option : {"approve", "reject"}, observed : Nat]

Ballots == [AgentSet -> Options \cup {None}]

CaseStatuses == {"PENDING", "APPROVED", "REJECTED", "REVOKED", "EXPIRED", "EXECUTED"}

Cases ==
  [action : SanctionActions \cup {NoAction}, target : TargetTypes, transfer : Nat,
   observed : Nat, expiry : Nat, deadline : Nat, opened : Nat,
   voters : SUBSET AgentSet, votes : Ballots, status : CaseStatuses, executed : BOOLEAN]

Messages ==
  [from : AgentSet, kind : {"open"}, round : 0..MaxRound, target : TargetTypes,
   action : SanctionActions \cup {NoAction}, transfer : Nat, report : Evidence,
   observed : Nat, expiry : Nat, attempt : Nat]
  \cup
  [from : AgentSet, kind : {"vote"}, round : 0..MaxRound, observed : Nat,
   transfer : Nat, attempt : Nat, option : {"approve", "reject"}]
  \cup
  [from : AgentSet, kind : {"execute"}, round : 0..MaxRound, attempt : Nat]

Keys == {"execute", "open", "vote"} \X (0..MaxRound)

Reasons == {"refused", "expired", "policy", "gas"}

Intents ==
  [status : {"queued", "pending", "failed", "satisfied", "cancelled"}, tx : Messages,
   reason : Reasons \cup {None}]

ASSUME NoneAssumption ==
  None \notin Reviews /\ None \notin Works /\ None \notin Cases /\ None \notin Endings

\* The stored work and intents of every daemon are well formed.
TypeOK ==
  /\ config \in Configs
  /\ height \in Nat
  /\ original \in [where : {"pending", "ok", "failed"}, height : Nat]
  /\ cases \in Seq(Cases) /\ Len(cases) <= MaxRound + 1
  /\ registry \subseteq AgentSet
  /\ mempool \subseteq Messages
  /\ \A tx \in DOMAIN failures : failures[tx] \in Reasons
  /\ cursor \in [AgentSet -> Nat]
  /\ work \in [AgentSet -> Works \cup {None}]
  /\ intents = [a \in AgentSet |-> intents[a]]
  /\ \A a \in AgentSet : /\ DOMAIN intents[a] \subseteq Keys
                        /\ intents[a] \in [DOMAIN intents[a] -> Intents]

\* No block that a daemon has put behind it held the transaction without the
\* daemon's having stored work for it, whenever it crashed.
ScannedIsStored ==
  \A a \in AgentSet :
    /\ original.where = "ok" /\ original.height \in config.start[a]..cursor[a]
    => work[a] # None

\* A daemon stops working on the transaction only for a reason that stays
\* true, so that nothing is left for it to do.
DoneIsJustified ==
  \A a \in AgentSet :
    work[a] # None =>
      CASE work[a].done = "executed" -> \E r \in DOMAIN cases : cases[r].executed
        [] work[a].done \in {"REJECTED", "REVOKED"} -> Last.status = work[a].done
             \/ Last.status = "REVOKED"
        [] work[a].done = "different_target_type" -> \A r \in DOMAIN cases :
             cases[r].target # TargetOf(a)
        [] work[a].done = "failed_original" -> original.where = "failed"
        [] work[a].done = "already_finalized" -> original.where = "ok"
        [] OTHER -> TRUE

\* "Votes are not copied into the new case": whoever votes on a new round has
\* reviewed the transfer again after the round before it had run out.
VotesAreFresh ==
  \A tx \in mempool :
    tx.kind = "vote" /\ tx.round > 0 =>
      \/ tx.observed >= cases[tx.round].expiry
      \/ tx.observed > cases[tx.round].deadline

\* A vote on a case against an address is about the transfer of the case,
\* whichever transfer of the transaction the voter itself had found the worst.
\* (A case against a transaction is about all of its transfers.)
VotesAreAboutTheCase ==
  \A tx \in mempool :
    LET c == cases[tx.round + 1]
    IN tx.kind = "vote" /\ c.target = "ADDRESS" => tx.transfer = c.transfer

\* A daemon sends an execution only while it holds a valid review of its own
\* that calls for the action of the case, however long the intent has waited.
ExecutesOwnReview ==
  [][\A tx \in mempool' \ mempool :
       tx.kind = "execute" =>
         LET review == work[tx.from].review
         IN ~Stale(review) /\ review.action = cases[tx.round + 1].action]_vars

\* An agent's recommendation is the one that the chain computes from the same
\* report, so no opening transaction is refused for its action.
OpenNeverAgainstPolicy == \A tx \in DOMAIN failures : failures[tx] # "policy"

-----------------------------------------------------------------------------
(***************************************************************************)
(* Why it works                                                            *)
(***************************************************************************)

\* A block that holds the original is in front of every cursor when it comes.
CursorInv == \A a \in AgentSet : cursor[a] <= height \/ cursor[a] = config.start[a] - 1

\* Evidence observed at height h is newer than what the round before r relied on.
Fresh(r, h) ==
  r > 0 => r <= Len(cases) /\ (cases[r].expiry <= h \/ cases[r].deadline < h)

\* All rounds are about one transfer; a round is replaced only when it has run
\* out, and is never acted on again.
RoundsInv ==
  /\ \A r \in DOMAIN cases :
       /\ cases[r].target = Last.target
       /\ cases[r].transfer = Last.transfer
       /\ cases[r].executed => cases[r].status \in {"EXECUTED", "REVOKED"}
       /\ cases[r].status = "EXECUTED" => cases[r].executed
       /\ r < Len(cases) <=> cases[r].status = "EXPIRED"
       /\ r < Len(cases) => Fresh(r, height)
  /\ Len(cases) > 1 => Last.target = "ADDRESS"

\* A round that there is, or the next one after a round that has run out.
Due(r) ==
  /\ r <= Len(cases) /\ Fresh(r, height)
  /\ r = Len(cases) => cases = <<>> \/ Final(Last) \/ Recovering

\* What a daemon has stored: its round is due, and its review is the chain's
\* answer to its report and was made for this round. Once the case has come to an
\* end, the review does not matter any more.
WorkFits(a, w) ==
  /\ Due(w.round)
  /\ IsFiniteSet(w.transfers)
  /\ w.transfers = {} \/ w.done \in {"REJECTED", "REVOKED", "different_target_type"}
       => cases # <<>>
  /\ w.review # None =>
       /\ w.review.action =
            ComputePolicyAction({w.review.report}, Thresholds, TargetOf(a))
       /\ Fresh(w.round, w.review.observed) \/ Final(Last)

\* What a daemon sends: an opening with the chain's action, or a vote on a round
\* that there is, with a review made for this round.
TxFits(tx) ==
  /\ Due(tx.round)
  /\ tx.kind = "open" =>
       /\ tx.target = TargetOf(tx.from)
       /\ tx.action = ComputePolicyAction({tx.report}, Thresholds, tx.target)
  /\ tx.kind # "open" => tx.round < Len(cases)
  /\ tx.kind = "vote" =>
       /\ Fresh(tx.round, tx.observed)
       /\ Last.target = "ADDRESS" => tx.transfer = Last.transfer

\* The invariant that the proofs are about.
DaemonInv ==
  /\ TypeOK /\ CursorInv /\ RoundsInv
  /\ \A a \in AgentSet : work[a] # None => WorkFits(a, work[a])
  /\ \A a \in AgentSet : \A key \in DOMAIN intents[a] :
       /\ work[a] # None
       /\ LET tx == intents[a][key].tx
          IN tx.from = a /\ tx.kind = key[1] /\ tx.round = key[2] /\ TxFits(tx)
  /\ \A tx \in mempool : TxFits(tx)
  /\ ScannedIsStored /\ DoneIsJustified /\ OpenNeverAgainstPolicy

=============================================================================
