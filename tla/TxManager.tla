------------------------------ MODULE TxManager ------------------------------
(***************************************************************************)
(* The transaction manager of an agent daemon (dev/agent/internal/         *)
(* txmanager): every intended operation is a durable intent, which Step    *)
(* signs, broadcasts and reconciles with the chain, one at a time and in   *)
(* key order, over a connection that loses requests and answers and a      *)
(* process that can stop between any two writes.                           *)
(*                                                                         *)
(* The chain is seen from one account; a Step reads it at one committed    *)
(* height, kept as what that height shows. The lease is reduced to its     *)
(* epoch; how it is won and kept is module AgentLease.                     *)
(***************************************************************************)
EXTENDS JournalStore

CONSTANTS
  Requests,     \* ids of recovery requests
  Evidence,     \* intents whose messages carry evidence that can expire
  MaxVersion,   \* bound: evaluations an intent's messages can stem from
  MaxEpoch,     \* bound: lease epochs
  MaxFaults     \* bound: events that the manager does not control

ASSUME BoundsAssumption == MaxVersion \in Nat

VARIABLES
  journal,     \* database file of this host, None if there is none
  archive,     \* backup archive, None if there is none
  memo,        \* epoch the running process signs with, 0 when it is down
  pc,          \* "idle", in the loop of Step ("scan") or before I/O ("send")
  snap,        \* the chain at the height that the running Step reads
  todo,        \* rows that the running Step has still to look at
  held,        \* intent about to be broadcast, as the process holds it
  seq,         \* account sequence
  epoch,       \* lease epoch on chain
  effect,      \* intents whose operation has taken effect
  obsolete,    \* intents that are no longer applicable
  mempool,     \* broadcast transactions that a proposer can include
  results,     \* results of included transactions
  unindexed,   \* included transactions that lookups do not find yet
  faults       \* number of those events so far

procVars == <<memo, pc, snap, todo, held>>
chainVars == <<seq, epoch, effect, obsolete, results, unindexed>>
vars == <<journal, archive, memo, pc, snap, todo, held, seq, epoch, effect,
          obsolete, mempool, results, unindexed, faults>>

\* Results of transactions: "retry" stands for the allow-listed failures, and
\* "reject" for all others.
CheckCodes == {"retry", "reject", "fenced"}
Codes == CheckCodes \cup {"ok", "wrongseq"}

\* What a read at the current height returns.
Ledger == [seq |-> seq, effect |-> effect, obsolete |-> obsolete,
           included |-> DOMAIN results]

Me == "this agent"
Genesis == "this chain"

Messages == [intent : Intents, version : 0..MaxVersion + 1]
Tx == [messages : Messages, seq : Nat, epoch : Nat]
Attempt == [tx : Tx, code : Codes \cup {None}, check : CheckCodes \cup {None},
            resolved : BOOLEAN]
Intent == [status : Statuses, messages : Messages, attempts : Seq(Attempt),
           recoveries : Seq(Requests)]

NewIntent(i) ==
  [status |-> "queued", messages |-> [intent |-> i, version |-> 0],
   attempts |-> <<>>, recoveries |-> <<>>]

\* A journal from before genesis binding, indexes and leases, with an attempt
\* that a node refused; an archive from before the first intent; and an archive
\* with a forged manifest.
LegacyJournal ==
  LET i == KeyOrder[1]
      tx == [messages |-> NewIntent(i).messages, seq |-> 0, epoch |-> 0]
      row == [NewIntent(i) EXCEPT !.status = "failed",
                !.attempts = <<[tx |-> tx, code |-> None, check |-> "retry",
                                resolved |-> FALSE]>>]
  IN [EmptyJournal(Me) EXCEPT !.rows = [k \in {i} |-> row]]
OldArchive ==
  Archive(BindGenesis(MigrateIndexes(EmptyJournal(Me)), Genesis))
ForeignArchive ==
  LET j == BindGenesis(MigrateIndexes(EmptyJournal("another agent")), Genesis)
  IN [manifest |-> [valid |-> TRUE, identity |-> Me, genesis |-> Genesis],
      journal |-> j, sealed |-> FALSE]

Init ==
  /\ \/ journal = None /\ archive \in {None, OldArchive, ForeignArchive}
     \/ journal = LegacyJournal /\ archive = None
  /\ memo = 0 /\ pc = "idle" /\ snap = None /\ todo = {} /\ held = None
  /\ seq = 0 /\ epoch = 0
  /\ effect = {} /\ obsolete = {}
  /\ mempool = {}
  /\ results = <<>> /\ unindexed = {}
  /\ faults = 0

\* An event that the bound limits, or one that it does not.
Count(limited) ==
  /\ limited => faults < MaxFaults
  /\ faults' = IF limited THEN faults + 1 ELSE faults

-----------------------------------------------------------------------------
(***************************************************************************)
(* The chain                                                               *)
(***************************************************************************)

\* The lease fence is in front of the sequence check. A transaction that
\* passes neither uses up no sequence number.
Stale(tx, s, e) == tx.epoch # e \/ tx.seq < s
Refusal(tx, e) == IF tx.epoch # e THEN "fenced" ELSE "wrongseq"

\* A block that leaves the account at sequence s and the lease at epoch e, with
\* the results own. Transactions that it makes stale are in the same block and
\* refused there, or dropped when the mempool checks them again.
Commit(own, s, e) ==
  LET stale == {tx \in mempool : tx \notin DOMAIN own /\ Stale(tx, s, e)}
  IN /\ seq' = s
     /\ epoch' = e
     /\ mempool' = mempool \ (stale \cup DOMAIN own)
     /\ \E refused \in SUBSET stale :
          results' = [tx \in DOMAIN own \cup refused \cup DOMAIN results |->
                        IF tx \in DOMAIN own THEN own[tx]
                        ELSE IF tx \in refused THEN Refusal(tx, e)
                        ELSE results[tx]]

\* The transaction passes the ante handler and uses up its sequence number,
\* whatever its messages do; the operation of an intent takes effect once.
\* A node may index the result later.
DeliverTx(tx) ==
  /\ tx \in mempool
  /\ ~Stale(tx, seq, epoch) /\ tx.seq = seq
  /\ \E code \in {"ok", "retry", "reject"}, late \in BOOLEAN :
       /\ code = "ok" => tx.messages.intent \notin effect
       /\ Commit([own \in {tx} |-> code], seq + 1, epoch)
       /\ effect' = IF code = "ok" THEN effect \cup {tx.messages.intent} ELSE effect
       /\ unindexed' = IF late THEN unindexed \cup {tx} ELSE unindexed
       /\ Count(late \/ (code # "ok" /\ tx.messages.intent \notin effect))
  /\ UNCHANGED <<journal, archive, procVars, obsolete>>

IndexTx(tx) ==
  /\ tx \in unindexed
  /\ unindexed' = unindexed \ {tx}
  /\ UNCHANGED <<journal, archive, procVars, seq, epoch, effect, obsolete,
                 mempool, results, faults>>

\* A renewal of the lease, a command run with the same key, or (with a new
\* epoch) the claim of another daemon.
OtherTx(e) ==
  /\ Count(TRUE)
  /\ e \in {epoch} \cup {n \in {epoch + 1} : n < MaxEpoch}
  /\ Commit(<<>>, seq + 1, e)
  /\ UNCHANGED <<journal, archive, procVars, effect, obsolete, unindexed>>

\* Another agent opens the case or executes it, or it is decided otherwise.
EffectByOther(i) ==
  /\ Count(TRUE)
  /\ i \notin effect
  /\ effect' = effect \cup {i}
  /\ UNCHANGED <<journal, archive, procVars, seq, epoch, obsolete, mempool,
                 results, unindexed>>

BecomeObsolete(i) ==
  /\ Count(TRUE)
  /\ i \notin obsolete \cup effect
  /\ obsolete' = obsolete \cup {i}
  /\ UNCHANGED <<journal, archive, procVars, seq, epoch, effect, mempool,
                 results, unindexed>>

Evict(tx) ==
  /\ Count(TRUE)
  /\ tx \in mempool
  /\ mempool' = mempool \ {tx}
  /\ UNCHANGED <<journal, archive, procVars, chainVars>>

-----------------------------------------------------------------------------
(***************************************************************************)
(* What the manager reads                                                  *)
(***************************************************************************)

Found(tx) == tx \in DOMAIN results \ unindexed

\* Mutant: a transaction that is in a block has done its work.
IncludedIsExecuted(tx) == TRUE

Executed(tx) == results[tx] = "ok"

\* Mutant: the chain is not asked for the operation itself.
SatisfiedUnread(i, at) == FALSE

\* Satisfied, for the committed height: the operation is on chain.
Satisfied(i, at) == i \in at.effect
ErrObsolete(i, at) == ~Satisfied(i, at) /\ i \in at.obsolete

FencedMemo(tx) == tx.epoch # memo

Last(row) == row.attempts[Len(row.attempts)]

Resolve(a) == [a EXCEPT !.resolved = TRUE]

\* The attempt with the result that the node returned.
WithResult(a) ==
  [a EXCEPT !.resolved = TRUE, !.code = results[a.tx]]

\* An intent can be finished from what the chain shows.
Settle(i, row, at) ==
  [row EXCEPT !.status = IF Satisfied(i, at) THEN "satisfied" ELSE "cancelled"]

\* Every attempt is looked up, oldest first, until one is ahead of the
\* committed height (an error) or has executed; then the operation itself.
Reconcile(i, row, at) ==
  LET tx(n) == row.attempts[n].tx
      found == {n \in DOMAIN row.attempts : Found(tx(n))}
      stops == {n \in found : tx(n) \notin at.included \/ Executed(tx(n))}
      first == CHOOSE n \in stops : \A m \in stops : n <= m
      upTo(k) == [n \in DOMAIN row.attempts |->
                    IF n \in found /\ n <= k THEN WithResult(row.attempts[n])
                    ELSE row.attempts[n]]
      seen == [row EXCEPT !.attempts = upTo(Len(row.attempts))]
  IN IF stops # {} /\ tx(first) \notin at.included
     THEN [outcome |-> "error", row |-> row]
     ELSE IF stops # {}
     THEN [outcome |-> "done", row |-> [row EXCEPT !.status = "confirmed",
                                                   !.attempts = upTo(first)]]
     ELSE IF Satisfied(i, at) \/ ErrObsolete(i, at)
     THEN [outcome |-> "done", row |-> Settle(i, seen, at)]
     ELSE [outcome |-> "open", row |-> seen]

-----------------------------------------------------------------------------
(***************************************************************************)
(* Step                                                                    *)
(***************************************************************************)

Save(i, row) == journal' = Put(journal, i, row)

EndStep ==
  pc' = "idle" /\ snap' = None /\ todo' = {} /\ held' = None /\ memo' = memo

\* The tick has checked the lease and read the committed height.
StepBegin ==
  /\ pc = "idle" /\ memo # 0
  /\ memo = epoch
  /\ Listable(journal)
  /\ ListActive(journal) # {}
  /\ pc' = "scan" /\ snap' = Ledger /\ todo' = ListActive(journal)
  /\ UNCHANGED <<journal, archive, memo, held, chainVars, mempool, faults>>

\* The newest attempt was refused for the epoch of an earlier owner.
DefinitelyFenced(row) ==
  /\ row.attempts # <<>>
  /\ Last(row).code = "fenced" \/ Last(row).check = "fenced"
  /\ FencedMemo(Last(row).tx)

\* A failed intent is reconciled, resumed if it was only fenced, and otherwise
\* left as it is (what the lookups returned is not saved) for the next row.
ReconcileFailed ==
  /\ pc = "scan" /\ todo # {}
  /\ LET i == FirstKey(todo)
         row == journal.rows[i]
         r == Reconcile(i, row, snap)
     IN /\ row.status = "failed"
        /\ \/ r.outcome = "error" /\ EndStep /\ UNCHANGED journal
           \/ /\ r.outcome = "done"
              /\ Save(i, r.row)
              /\ todo' = todo \ {i} /\ UNCHANGED <<memo, pc, snap, held>>
           \/ /\ r.outcome = "open" /\ DefinitelyFenced(r.row)
              /\ Save(i, [r.row EXCEPT !.status = "queued",
                            !.attempts[Len(row.attempts)] = Resolve(@)])
              /\ EndStep
           \/ /\ r.outcome = "open" /\ ~DefinitelyFenced(r.row)
              /\ todo' = todo \ {i} /\ UNCHANGED <<journal, memo, pc, snap, held>>
  /\ UNCHANGED <<archive, chainVars, mempool, faults>>

\* Nothing is left to do in this Step.
StepEnd ==
  /\ pc = "scan" /\ todo = {}
  /\ EndStep
  /\ UNCHANGED <<journal, archive, chainVars, mempool, faults>>

\* The first row that is not failed: looking its open attempt up can confirm
\* the intent, or wait for the committed height to reach the result.
LookupLast(row) ==
  IF row.attempts = <<>> \/ Last(row).resolved \/ ~Found(Last(row).tx)
  THEN [outcome |-> "open", row |-> row]
  ELSE LET seen == [row EXCEPT !.attempts[Len(row.attempts)] = WithResult(@)]
       IN IF Last(row).tx \notin snap.included
          THEN [outcome |-> "wait", row |-> row]
          ELSE IF Executed(Last(row).tx)
          THEN [outcome |-> "done", row |-> [seen EXCEPT !.status = "confirmed"]]
          ELSE [outcome |-> "open", row |-> seen]

\* A newer epoch fences the open attempt of an earlier owner for good, even
\* one that still waits in a mempool.
ResumeFenced(row) ==
  IF /\ row.attempts # <<>>
     /\ FencedMemo(Last(row).tx)
     /\ ~Last(row).resolved \/ Last(row).code = "fenced"
  THEN [row EXCEPT !.status = "queued",
                   !.attempts[Len(row.attempts)] = Resolve(@)]
  ELSE row

\* Mutant: the account's sequence is not compared.
NeedsSignatureOnce(row) == row.attempts = <<>> \/ Last(row).resolved

\* A new attempt is due when there is none, the last one has a result, or its
\* sequence number was used by another transaction.
NeedsSignature(row) ==
  \/ row.attempts = <<>>
  \/ Last(row).resolved
  \/ snap.seq > Last(row).tx.seq

\* Mutant: signs for the number after the one in flight.
SignNext(row) ==
  [tx |-> [messages |-> row.messages, epoch |-> memo,
           seq |-> snap.seq + (IF row.attempts = <<>> THEN 0 ELSE 1)],
   code |-> None, check |-> None, resolved |-> FALSE]

Sign(row) ==
  [tx |-> [messages |-> row.messages, seq |-> snap.seq, epoch |-> memo],
   code |-> None, check |-> None, resolved |-> FALSE]

\* A result without success ends the intent unless it was queued again;
\* otherwise the next attempt is signed.
NextAttempt(row) ==
  IF ~NeedsSignature(row) THEN row
  ELSE IF row.attempts # <<>> /\ Last(row).resolved /\ row.status # "queued"
  THEN [row EXCEPT !.status = "failed"]
  ELSE [row EXCEPT !.status = "pending", !.attempts = Append(@, Sign(row))]

\* Mutant: nothing is saved before the broadcast.
SendUnsaved(i, row) == journal' = Put(journal, i, journal.rows[i])

\* The signed bytes are durable before any network I/O.
SaveBeforeSend(i, row) == Save(i, row)

HandleIntent ==
  /\ pc = "scan" /\ todo # {}
  /\ LET i == FirstKey(todo)
         found == LookupLast(journal.rows[i])
         row == NextAttempt(ResumeFenced(found.row))
         open == found.outcome = "open" /\ ~Satisfied(i, snap) /\ ~ErrObsolete(i, snap)
     IN /\ journal.rows[i].status \in {"queued", "pending"}
        /\ \/ found.outcome = "wait" /\ EndStep /\ UNCHANGED journal
           \/ found.outcome = "done" /\ Save(i, found.row) /\ EndStep
           \/ /\ found.outcome = "open" /\ ~open
              /\ Save(i, Settle(i, found.row, snap)) /\ EndStep
           \/ open /\ row.status = "failed" /\ Save(i, row) /\ EndStep
           \/ /\ open /\ row.status # "failed"
              /\ memo = epoch
              /\ SaveBeforeSend(i, row)
              /\ pc' = "send" /\ held' = row /\ UNCHANGED <<memo, snap, todo>>
  /\ UNCHANGED <<archive, chainVars, mempool, faults>>

\* What CheckTx of the node that is asked can say.
CheckTx(tx, code) ==
  IF tx.epoch # epoch THEN code = "fenced"
  ELSE IF tx.seq < seq THEN code = "wrongseq"
  ELSE code \in {"ok", "retry", "reject"}

\* A refusal is final unless it is about the sequence number (or the bytes are
\* already in the mempool, which is like being accepted here).
Definite(code) == code \in CheckCodes

Accept(tx, code) ==
  mempool' = IF code = "ok" /\ tx \notin DOMAIN results THEN mempool \cup {tx}
             ELSE mempool

\* The node answers, and the answer is saved.
Broadcast ==
  /\ pc = "send"
  /\ \E code \in Codes :
       /\ CheckTx(Last(held).tx, code)
       /\ Count(code \in {"retry", "reject"})
       /\ Accept(Last(held).tx, code)
       /\ Save(FirstKey(todo),
               IF Definite(code)
               THEN [held EXCEPT !.status = "failed",
                       !.attempts[Len(held.attempts)].check = code]
               ELSE held)
  /\ EndStep
  /\ UNCHANGED <<archive, chainVars>>

\* The request or its answer is lost; only the error is saved.
BroadcastLost ==
  /\ pc = "send"
  /\ Count(TRUE)
  /\ \E code \in Codes : /\ CheckTx(Last(held).tx, code)
                         /\ Accept(Last(held).tx, code)
  /\ EndStep
  /\ UNCHANGED <<journal, archive, chainVars>>

\* An RPC call fails, or the broadcast is not due yet: Step returns.
StepError ==
  /\ pc = "scan"
  /\ Count(TRUE)
  /\ EndStep
  /\ UNCHANGED <<journal, archive, chainVars, mempool>>

-----------------------------------------------------------------------------
(***************************************************************************)
(* Other operations of the manager                                         *)
(***************************************************************************)

Enqueue(i) ==
  /\ pc = "idle" /\ memo # 0
  /\ i \notin DOMAIN journal.rows
  /\ Save(i, NewIntent(i))
  /\ UNCHANGED <<archive, procVars, chainVars, mempool, faults>>

Retryable(row) ==
  /\ row.status = "failed"
  /\ row.attempts # <<>>
  /\ LET a == Last(row)
     IN (IF a.check # None THEN a.check ELSE a.code) \in {"retry", "wrongseq"}

\* An attempt of unknown outcome may still execute.
Uncertain(row) ==
  \E n \in DOMAIN row.attempts :
    LET a == row.attempts[n]
    IN ~a.resolved /\ a.check = None /\ seq <= a.tx.seq

\* A new evaluation, for an intent with evidence.
Prepare(row) ==
  IF row.messages.intent \in Evidence
  THEN [row EXCEPT !.messages.version = @ + 1] ELSE row

\* The intent with the messages that a retry sends.
Prepared(row) ==
  [Prepare(row) EXCEPT !.status = "queued",
              !.attempts = [n \in DOMAIN @ |-> Resolve(@[n])]]

\* Mutant: the request id is not remembered.
RequestUnchecked(row, r) == TRUE

FreshRequest(row, r) == \A n \in DOMAIN row.recoveries : row.recoveries[n] # r

\* An operator, or the daemon for expired evidence, retries a failed intent.
\* The chain is asked first; an unknown outcome blocks the retry, and the new
\* evaluation may find that the operation no longer applies.
Recover(i, r) ==
  /\ pc = "idle" /\ memo # 0 /\ memo = epoch
  /\ i \in DOMAIN journal.rows
  /\ LET row == journal.rows[i]
         found == Reconcile(i, row, Ledger)
         again == found.outcome = "open" /\ Retryable(found.row) /\ ~Uncertain(found.row)
     IN /\ row.status = "failed"
        /\ FreshRequest(row, r)
        /\ \/ found.outcome = "done" /\ Save(i, found.row) /\ UNCHANGED <<obsolete, faults>>
           \/ /\ again /\ i \in Evidence
              /\ Count(TRUE)
              /\ Save(i, [Prepared(found.row) EXCEPT !.status = "cancelled",
                            !.messages = row.messages])
              /\ obsolete' = obsolete \cup {i}
           \/ /\ again
              /\ row.messages.version <= MaxVersion
              /\ Save(i, [Prepared(found.row) EXCEPT !.recoveries = Append(@, r)])
              /\ UNCHANGED <<obsolete, faults>>
  /\ UNCHANGED <<archive, procVars, seq, epoch, effect, results, unindexed, mempool>>

\* Evidence that has not been sent is replaced by a newer evaluation.
RefreshQueued(i) ==
  /\ pc = "idle" /\ memo # 0
  /\ i \in DOMAIN journal.rows \cap Evidence
  /\ LET row == journal.rows[i]
     IN /\ row.status = "queued"
        /\ \A n \in DOMAIN row.attempts : row.attempts[n].resolved
        /\ row.messages.version < MaxVersion
        /\ Save(i, Prepare(row))
  /\ UNCHANGED <<archive, procVars, chainVars, mempool, faults>>

-----------------------------------------------------------------------------
(***************************************************************************)
(* The process, its host and its backups                                   *)
(***************************************************************************)

\* A start opens the journal, binds it to the chain and claims the lease with
\* a transaction of its own.
Start(trusted) ==
  /\ memo = 0
  /\ epoch < MaxEpoch
  /\ Openable(journal, Me)
  /\ Bindable(Open(journal, Me), Genesis, trusted)
  /\ journal' = BindGenesis(Open(journal, Me), Genesis)
  /\ memo' = epoch + 1
  /\ Commit(<<>>, seq + 1, epoch + 1)
  /\ UNCHANGED <<archive, pc, snap, todo, held, effect, obsolete, unindexed,
                 faults>>

Stop == memo' = 0 /\ pc' = "idle" /\ snap' = None /\ todo' = {} /\ held' = None

\* The process ends, and perhaps its host is lost with the journal. The bound
\* leaves an epoch for the restart.
Crash ==
  /\ memo # 0 /\ epoch < MaxEpoch
  /\ Count(TRUE)
  /\ Stop
  /\ journal' \in {journal, None}
  /\ UNCHANGED <<archive, chainVars, mempool>>

\* The daemon ends when it no longer owns the account.
OwnershipLost ==
  /\ memo # 0 /\ memo # epoch /\ pc # "send"
  /\ Stop
  /\ UNCHANGED <<journal, archive, chainVars, mempool, faults>>

\* Archives are taken offline and never overwritten.
Backup ==
  /\ memo = 0 /\ journal # None /\ archive = None
  /\ ManifestFor(journal).valid
  /\ archive' = Archive(journal)
  /\ UNCHANGED <<journal, procVars, chainVars, mempool, faults>>

Restore ==
  /\ memo = 0 /\ journal = None /\ archive # None
  /\ Restorable(archive, Me, Genesis)
  /\ journal' = archive.journal
  /\ UNCHANGED <<archive, procVars, chainVars, mempool, faults>>

-----------------------------------------------------------------------------
Process == StepBegin \/ ReconcileFailed \/ HandleIntent \/ StepEnd \/ Broadcast

Chain == (\E tx \in mempool : DeliverTx(tx)) \/ (\E tx \in unindexed : IndexTx(tx))

Environment ==
  \/ \E e \in 0..MaxEpoch : OtherTx(e)
  \/ \E i \in Intents : EffectByOther(i) \/ BecomeObsolete(i)
  \/ \E tx \in mempool : Evict(tx)
  \/ BroadcastLost \/ StepError \/ Crash

Operator ==
  \/ \E i \in Intents : Enqueue(i) \/ RefreshQueued(i)
  \/ \E i \in Intents, r \in Requests : Recover(i, r)
  \/ Backup \/ Restore

Next ==
  \/ Process \/ Chain \/ Environment \/ Operator
  \/ OwnershipLost
  \/ \E trusted \in BOOLEAN : Start(trusted)

\* The ticker runs Step again and again, a supervisor restarts the daemon, and
\* proposers include what their mempools hold. Faults end at their bound.
Fairness ==
  /\ WF_vars(Process)
  /\ WF_vars(OwnershipLost)
  /\ WF_vars(Start(TRUE))
  /\ WF_vars(Chain)

Spec == Init /\ [][Next]_vars /\ Fairness

-----------------------------------------------------------------------------
(***************************************************************************)
(* Properties                                                              *)
(***************************************************************************)

\* Every row of the journal is a well-formed intent, and the process is in
\* the middle of a Step only while it runs.
TypeOK ==
  /\ journal # None => \A i \in DOMAIN journal.rows : journal.rows[i] \in Intent
  /\ pc \in {"idle", "scan", "send"}
  /\ memo = 0 => pc = "idle"
  /\ memo <= epoch
  /\ pc = "send" <=> held # None
  /\ pc = "idle" <=> snap = None

\* The journal in use is this agent's own and its index is exactly the set of
\* unfinished intents, whichever old journal or archive it came from: a row
\* missing there would never be looked at again.
JournalSound ==
  journal # None =>
    /\ journal.identity = Me
    /\ journal.genesis \in {None, Genesis}
    /\ memo # 0 => /\ journal.genesis = Genesis
                   /\ journal.index = {i \in DOMAIN journal.rows :
                        journal.rows[i].status \notin
                          {"confirmed", "satisfied", "cancelled"}}

\* A final status is true on chain: a confirmed intent's own transaction
\* executed, a satisfied one's operation has taken effect, and a cancelled
\* one has become inapplicable.
OutcomeIsTrue ==
  journal # None =>
    \A i \in DOMAIN journal.rows :
      LET row == journal.rows[i]
      IN /\ row.status = "confirmed" =>
              \E n \in DOMAIN row.attempts :
                /\ row.attempts[n].tx \in DOMAIN results
                /\ results[row.attempts[n].tx] = "ok"
         /\ row.status = "satisfied" => i \in effect
         /\ row.status = "cancelled" => i \in obsolete

\* A transaction that is out and can still execute.
Executable(tx) == tx \in mempool /\ tx.epoch = epoch /\ tx.seq >= seq

\* While a daemon owns the account, it has in its journal every transaction of
\* the account that can still execute, even after a crash between writing and
\* sending, a lost answer, or a restore of an old archive.
ExecutableIsJournaled ==
  memo = epoch /\ memo # 0 =>
    \A tx \in mempool : Executable(tx) =>
      /\ tx.messages.intent \in DOMAIN journal.rows
      /\ \E n \in DOMAIN journal.rows[tx.messages.intent].attempts :
           journal.rows[tx.messages.intent].attempts[n].tx = tx

\* All transactions of an account that can still execute compete for one
\* sequence number, so at most one of them does ("confirm before using the
\* next sequence").
OneSequenceInFlight ==
  \A tx \in mempool : Executable(tx) => tx.seq = seq

\* Once one of its transactions has executed, an intent is never signed again
\* for a later sequence number, by this journal or one restored from an
\* archive: neither a lost answer, a late index, a retry nor a new owner does
\* an operation twice.
ExecutedIsLast ==
  \A done \in DOMAIN results :
    results[done] = "ok" =>
      LET i == done.messages.intent
          later(tx) == tx.messages.intent = i /\ tx.seq > done.seq
      IN /\ \A tx \in mempool \cup DOMAIN results : ~later(tx)
         /\ journal # None /\ i \in DOMAIN journal.rows =>
              \A n \in DOMAIN journal.rows[i].attempts :
                ~later(journal.rows[i].attempts[n].tx)

\* A recovery request that is repeated, because its answer was lost, retries an
\* intent once.
RequestAppliedOnce ==
  journal # None =>
    \A i \in DOMAIN journal.rows :
      LET done == journal.rows[i].recoveries
      IN \A m, n \in DOMAIN done : done[m] = done[n] => m = n

Waiting(i) ==
  /\ journal # None /\ i \in DOMAIN journal.rows
  /\ journal.rows[i].status \in {"queued", "pending"}

\* Every intent is settled or declared failed once faults have stopped: no
\* crash, lost answer, eviction, stolen sequence number or new owner leaves
\* one waiting for ever.
EveryIntentSettles == \A i \in Intents : Waiting(i) ~> ~Waiting(i)

-----------------------------------------------------------------------------
(***************************************************************************)
(* Why it works                                                            *)
(***************************************************************************)

RowFits(i, row) ==
  /\ row \in Intent
  /\ row.messages.intent = i
  /\ \A n \in DOMAIN row.attempts : row.attempts[n].tx.messages.intent = i
  /\ \A m, n \in DOMAIN row.recoveries :
       row.recoveries[m] = row.recoveries[n] => m = n

JournalFits(j) ==
  /\ DOMAIN j.rows \subseteq Intents
  /\ j \in [identity : {Me, "another agent"}, genesis : {None, Genesis},
            version : {None, "1"}, rows : [DOMAIN j.rows -> Intent],
            index : SUBSET Intents]
  /\ j.version # None => j.index = ActiveRows(j)
  /\ \A i \in DOMAIN j.rows : RowFits(i, j.rows[i])

\* A transaction is signed for no sequence number or epoch that the chain has
\* not reached, and for none after one that executed for the same intent.
TxFits(tx) ==
  /\ tx \in Tx
  /\ tx.seq <= seq
  /\ tx.epoch <= epoch
  /\ \A done \in DOMAIN results :
       results[done] = "ok" /\ done.messages.intent = tx.messages.intent
         => tx.seq <= done.seq

OutcomeHolds(i, row) ==
  /\ row.status = "confirmed" =>
       \E n \in DOMAIN row.attempts :
         /\ row.attempts[n].tx \in DOMAIN results
         /\ results[row.attempts[n].tx] = "ok"
  /\ row.status = "satisfied" => i \in effect
  /\ row.status = "cancelled" => i \in obsolete

RowHolds(i, row) ==
  /\ \A n \in DOMAIN row.attempts : TxFits(row.attempts[n].tx)
  /\ OutcomeHolds(i, row)

JournalHolds(j) ==
  /\ JournalFits(j)
  /\ \A i \in DOMAIN j.rows : RowHolds(i, j.rows[i])

\* Whatever journal or archive comes back into use, old or of a lost host, it
\* says nothing of the chain that is not so. The archive can be another
\* agent's.
StoreInv ==
  /\ journal # None => JournalHolds(journal) /\ journal.identity = Me
  /\ archive # None => JournalHolds(archive.journal)

InUse(j) ==
  /\ JournalHolds(j)
  /\ j.identity = Me
  /\ j.genesis = Genesis
  /\ j.index = ActiveRows(j)

Journaled(tx) ==
  /\ tx.messages.intent \in DOMAIN journal.rows
  /\ \E n \in DOMAIN journal.rows[tx.messages.intent].attempts :
       journal.rows[tx.messages.intent].attempts[n].tx = tx

\* What a Step has read may be old, but an operation that it does not show can
\* only have been done by a sequence number that is not used up there.
SnapHolds ==
  /\ snap.seq \in Nat /\ snap.seq <= seq
  /\ snap.effect \subseteq effect
  /\ snap.obsolete \subseteq obsolete
  /\ \A done \in DOMAIN results :
       /\ results[done] = "ok"
       /\ done.messages.intent \notin snap.effect
       => done.seq >= snap.seq

ProcessInv ==
  /\ memo \in Nat /\ memo <= epoch
  /\ memo # 0 => InUse(journal)
  /\ memo = 0 => pc = "idle"
  /\ pc # "idle" => SnapHolds /\ todo \subseteq DOMAIN journal.rows
  /\ pc = "send" => /\ todo # {}
                    /\ held = journal.rows[FirstKey(todo)]
                    /\ held.attempts # <<>>

ChainInv ==
  /\ seq \in Nat /\ epoch \in Nat
  /\ mempool \cap DOMAIN results = {}
  /\ \A tx \in mempool \cup DOMAIN results : TxFits(tx)
  /\ \A done \in DOMAIN results :
       /\ results[done] \in Codes
       /\ results[done] = "ok" => done.messages.intent \in effect
  /\ memo # 0 => \A tx \in mempool : tx.epoch = memo => Journaled(tx)

TxInv == StoreInv /\ ProcessInv /\ ChainInv

=============================================================================
