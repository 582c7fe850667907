----------------------------- MODULE AgentLease -----------------------------
(***************************************************************************)
(* Ownership of one signing account: the chain's lease record and fence    *)
(* (x/sanction/keeper/lease.go) and the daemon sessions that claim, renew, *)
(* check and use it (dev/agent/internal/ownership, and the daemon loop).   *)
(*                                                                         *)
(* A session is one run of a daemon process, named by the random holder id *)
(* it draws at startup; a restart, a copied journal or a second host is    *)
(* another session. Sessions see the chain only through RPC reads of       *)
(* committed blocks, which may lag but never go back, and their            *)
(* transactions wait in mempools, where they can be delayed or lost. Tools *)
(* that hold the same key may send without knowing of leases.              *)
(***************************************************************************)
EXTENDS Integers, Sequences

CONSTANTS
  Sessions,     \* holder ids
  TTL,          \* lease length each session asks for, in blocks
  MaxHeight,    \* bound: last block height
  MaxSequence,  \* bound: transactions of the account that are executed
  MaxEpoch,     \* last lease epoch (the largest uint64 in the code)
  None          \* no session, no lease, no transaction

VARIABLES
  height,    \* height of the block being executed
  lease,     \* AgentLease record of the account; epoch 0 if there is none
  sequence,  \* account sequence
  history,   \* lease and sequence as committed by each earlier block
  mempool,   \* signed transactions on their way to a block
  pc,        \* where each session is
  view,      \* latest height each session has seen
  owned,     \* Session.Lease: what each session believes it holds
  expected,  \* epoch a session saw run out when it decided to claim
  outbox,    \* last transaction the session's manager signed
  granted,   \* history variable: holder of each epoch
  executed   \* history variable: signer of each executed operation

chainVars == <<height, lease, sequence, history, granted, executed>>
vars == <<height, lease, sequence, history, mempool, pc, view, owned,
          expected, outbox, granted, executed>>

Lease == [epoch : Nat, holder : Sessions \cup {None}, expires : Nat]
Snapshot == [lease : Lease, sequence : Nat]
Owned == [epoch : Nat, expires : Nat]

\* A claim (or renewal) names the epoch it expects; any other transaction of
\* the daemon carries epoch and holder in its memo (LeaseMemo), and one that
\* the key's owner sends by hand has no memo.
Tx == [kind : {"claim", "renew", "send"}, holder : Sessions \cup {None},
       epoch : Nat, seq : Nat]

ASSUME LeaseAssumption ==
  /\ TTL \in [Sessions -> Nat \ {0}]
  /\ MaxHeight \in Nat \ {0}
  /\ MaxSequence \in Nat
  /\ MaxEpoch \in Nat

ASSUME NoneAssumption == None \notin Sessions \cup Owned \cup Tx

Steps == {"acquire", "claim", "confirm", "reconcile", "tick", "step", "send", "broadcast",
          "stopped"}

NoLease == [epoch |-> 0, holder |-> None, expires |-> 0]

Init ==
  /\ height = 1
  /\ lease = NoLease
  /\ sequence = 0
  /\ history = [h \in 0..MaxHeight |-> [lease |-> NoLease, sequence |-> 0]]
  /\ mempool = {}
  /\ pc = [s \in Sessions |-> "acquire"]
  /\ view = [s \in Sessions |-> 0]
  /\ owned = [s \in Sessions |-> None]
  /\ expected = [s \in Sessions |-> 0]
  /\ outbox = [s \in Sessions |-> None]
  /\ granted = <<>>
  /\ executed = <<>>

-----------------------------------------------------------------------------
(***************************************************************************)
(* The chain                                                               *)
(***************************************************************************)

\* Mutant: the memo is not compared, any live lease lets the account act.
AnyLiveLease(tx) ==
  tx.kind = "send" /\ lease.epoch # 0 => lease.expires > height

\* The fence in front of the ante handler: a claim is exempt, anything else
\* needs the memo of the live lease, if the account has ever been leased.
CheckAgentLeaseTx(tx) ==
  tx.kind = "send" /\ lease.epoch # 0 =>
    /\ tx.epoch = lease.epoch
    /\ tx.holder = lease.holder
    /\ lease.expires > height

\* The handler accepts a renewal only from the live holder.
RenewAllowed(tx) ==
  /\ tx.kind = "renew"
  /\ lease.epoch = tx.epoch
  /\ lease.epoch # 0
  /\ lease.holder = tx.holder
  /\ lease.expires > height

\* The handler lets a new holder in only when the lease has run out.
ClaimAllowed(tx) ==
  /\ tx.kind = "claim"
  /\ lease.epoch = tx.epoch
  /\ lease.expires <= height
  /\ lease.epoch < MaxEpoch

\* An executed transaction used up the account's next sequence number,
\* whether or not its message handler succeeds.
ConsumeSequence(tx) ==
  /\ tx \in mempool
  /\ sequence < MaxSequence
  /\ CheckAgentLeaseTx(tx)
  /\ tx.seq = sequence
  /\ sequence' = sequence + 1
  /\ mempool' = mempool \ {tx}
  /\ UNCHANGED <<height, history, pc, view, owned, expected, outbox>>

DeliverClaim(tx) ==
  /\ ConsumeSequence(tx)
  /\ ClaimAllowed(tx)
  /\ lease' = [epoch |-> lease.epoch + 1, holder |-> tx.holder,
               expires |-> height + TTL[tx.holder]]
  /\ granted' = Append(granted, tx.holder)
  /\ UNCHANGED executed

DeliverRenewal(tx) ==
  /\ ConsumeSequence(tx)
  /\ RenewAllowed(tx)
  /\ lease' = [lease EXCEPT !.expires = height + TTL[tx.holder]]
  /\ UNCHANGED <<granted, executed>>

\* The claim handler returns an error: only the sequence is used up.
DeliverRefused(tx) ==
  /\ ConsumeSequence(tx)
  /\ tx.kind # "send"
  /\ ~ClaimAllowed(tx)
  /\ ~RenewAllowed(tx)
  /\ UNCHANGED <<lease, granted, executed>>

\* A transaction of the agent is executed. Whether its own messages succeed
\* is the business of SanctionCases.
DeliverSend(tx) ==
  /\ ConsumeSequence(tx)
  /\ tx.kind = "send"
  /\ executed' = Append(executed, tx.holder)
  /\ UNCHANGED <<lease, granted>>

\* A transaction is evicted, or fails the fence or the sequence check.
Drop(tx) ==
  /\ tx \in mempool
  /\ mempool' = mempool \ {tx}
  /\ UNCHANGED <<chainVars, pc, view, owned, expected, outbox>>

\* The block is committed and becomes visible to queries.
EndBlock ==
  /\ height < MaxHeight
  /\ history' = [history EXCEPT ![height] =
                   [lease |-> lease, sequence |-> sequence]]
  /\ height' = height + 1
  /\ UNCHANGED <<lease, sequence, mempool, pc, view, owned, expected,
                 outbox, granted, executed>>

-----------------------------------------------------------------------------
(***************************************************************************)
(* A session                                                               *)
(***************************************************************************)

\* Status: a committed height, never one below what was seen before.
Sees(s, h) == h \in view[s]..(height - 1) /\ view' = [view EXCEPT ![s] = h]

Goto(s, label) == pc' = [pc EXCEPT ![s] = label]

\* A failed RPC ends a process that does not own a lease yet; the daemon loop
\* of an owner logs the error and starts its next tick.
AfterError(s) == IF owned[s] = None THEN "stopped" ELSE "tick"

\* Acquire: wait until no lease is live at the height seen, or give up.
AcquireLook(s, h) ==
  LET seen == history[h].lease
  IN  /\ pc[s] = "acquire"
      /\ Sees(s, h)
      /\ \/ /\ seen.expires <= h
            /\ expected' = [expected EXCEPT ![s] = seen.epoch]
            /\ Goto(s, "claim")
         \/ /\ seen.expires > h
            /\ \E label \in {"acquire", "stopped"} : Goto(s, label)
            /\ UNCHANGED expected
      /\ UNCHANGED <<chainVars, mempool, owned, outbox>>

\* claim: sign for the account sequence seen and broadcast once. The
\* transaction may arrive without an acknowledgement, and the other way round.
\* A session that already owns the lease renews it.
SubmitClaim(s, h) ==
  LET tx == [kind |-> IF owned[s] = None THEN "claim" ELSE "renew",
             holder |-> s,
             epoch |-> IF owned[s] = None THEN expected[s] ELSE owned[s].epoch,
             seq |-> history[h].sequence]
  IN  /\ pc[s] = "claim"
      /\ Sees(s, h)
      /\ \E arrives, ack \in BOOLEAN :
           /\ mempool' = IF arrives THEN mempool \cup {tx} ELSE mempool
           /\ Goto(s, IF ack THEN "confirm" ELSE "reconcile")
      /\ UNCHANGED <<chainVars, owned, expected, outbox>>

\* The epoch the session will own if its claim succeeds.
TargetEpoch(s) == IF owned[s] = None THEN expected[s] + 1 ELSE owned[s].epoch

\* Mutant: the holder of the new epoch is not compared.
ConfirmedByEpoch(s, h) ==
  LET seen == history[h].lease
  IN  /\ seen.epoch = TargetEpoch(s)
      /\ seen.expires > h
      /\ owned[s] # None => seen.expires > owned[s].expires

\* The finalized lease is this session's, live, and newer than the one held.
Confirmed(s, h) ==
  LET seen == history[h].lease
  IN  /\ seen.epoch = TargetEpoch(s)
      /\ seen.holder = s
      /\ seen.expires > h
      /\ owned[s] # None => seen.expires > owned[s].expires

\* Somebody else was granted that epoch, or a later one.
LostTo(s, h) ==
  LET seen == history[h].lease
  IN  \/ seen.epoch > TargetEpoch(s)
      \/ seen.epoch = TargetEpoch(s) /\ seen.holder # s

\* The claim is reconciled against finalized state only.
ConfirmOwned(s, h) ==
  /\ pc[s] \in {"confirm", "reconcile"}
  /\ Sees(s, h)
  /\ Confirmed(s, h)
  /\ owned' = [owned EXCEPT ![s] = [epoch |-> history[h].lease.epoch,
                                    expires |-> history[h].lease.expires]]
  /\ Goto(s, IF owned[s] = None THEN "tick" ELSE "step")
  /\ UNCHANGED <<chainVars, mempool, expected, outbox>>

ConfirmLost(s, h) ==
  /\ pc[s] \in {"confirm", "reconcile"}
  /\ Sees(s, h)
  /\ ~Confirmed(s, h)
  /\ LostTo(s, h)
  /\ Goto(s, "stopped")
  /\ UNCHANGED <<chainVars, mempool, owned, expected, outbox>>

\* No answer yet: keep looking until the deadline, unless the broadcast failed.
ConfirmWait(s, h) ==
  /\ pc[s] \in {"confirm", "reconcile"}
  /\ Sees(s, h)
  /\ ~Confirmed(s, h)
  /\ ~LostTo(s, h)
  /\ \E label \in {AfterError(s)} \cup ({pc[s]} \cap {"confirm"}) :
       Goto(s, label)
  /\ UNCHANGED <<chainVars, mempool, owned, expected, outbox>>

\* Validate: the finalized lease is the one this session holds, and is live.
Validated(s, h) ==
  LET seen == history[h].lease
  IN  /\ seen.epoch = owned[s].epoch
      /\ seen.holder = s
      /\ seen.expires > h

\* Ensure, at the start of every tick: stop when the lease is lost, renew when
\* half of it is used up, otherwise go on.
Ensure(s, h) ==
  /\ pc[s] = "tick"
  /\ Sees(s, h)
  /\ \/ /\ ~Validated(s, h)
        /\ Goto(s, "stopped")
     \/ /\ Validated(s, h)
        /\ owned[s].expires <= h + (TTL[s] \div 2)
        /\ Goto(s, "claim")
     \/ /\ Validated(s, h)
        /\ owned[s].expires > h + (TTL[s] \div 2)
        /\ Goto(s, "step")
  /\ UNCHANGED <<chainVars, mempool, owned, expected, outbox>>

\* The rest of the tick: nothing to send, or the transaction manager has an
\* attempt to send, a new one when the last one's sequence number is used up.
ManagerStep(s, h) ==
  LET seq == history[h].sequence
  IN  /\ pc[s] = "step"
      /\ Sees(s, h)
      /\ \/ Goto(s, "tick") /\ UNCHANGED outbox
         \/ /\ outbox' = [outbox EXCEPT ![s] =
                 IF outbox[s] = None \/ outbox[s].seq < seq
                 THEN [kind |-> "send", holder |-> s, epoch |-> owned[s].epoch,
                       seq |-> seq]
                 ELSE outbox[s]]
            /\ Goto(s, "send")
      /\ UNCHANGED <<chainVars, mempool, owned, expected>>

\* BeforeSend: the lease is validated once more.
BeforeSend(s, h) ==
  /\ pc[s] = "send"
  /\ Sees(s, h)
  /\ Goto(s, IF Validated(s, h) THEN "broadcast" ELSE "stopped")
  /\ UNCHANGED <<chainVars, mempool, owned, expected, outbox>>

\* The broadcast; blocks may have passed since the validation.
Broadcast(s) ==
  /\ pc[s] = "broadcast"
  /\ \E arrives \in BOOLEAN :
       mempool' = IF arrives THEN mempool \cup {outbox[s]} ELSE mempool
  /\ Goto(s, "tick")
  /\ UNCHANGED <<chainVars, view, owned, expected, outbox>>

\* A one-shot tool that has the same key signs and sends a transaction; it
\* knows nothing of leases.
ManualSend(h) ==
  /\ h < height
  /\ mempool' = mempool \cup {[kind |-> "send", holder |-> None, epoch |-> 0,
                                seq |-> history[h].sequence]}
  /\ UNCHANGED <<chainVars, pc, view, owned, expected, outbox>>

\* Any other error in a tick of an owner: the loop retries.
RetryTick(s) ==
  /\ pc[s] \in {"claim", "confirm", "reconcile", "step", "send"}
  /\ owned[s] # None
  /\ Goto(s, "tick")
  /\ UNCHANGED <<chainVars, mempool, view, owned, expected, outbox>>

\* The process ends, for whatever reason.
Crash(s) ==
  /\ pc[s] # "stopped"
  /\ Goto(s, "stopped")
  /\ UNCHANGED <<chainVars, mempool, view, owned, expected, outbox>>

Deliver(tx) ==
  \/ DeliverClaim(tx)
  \/ DeliverRenewal(tx)
  \/ DeliverRefused(tx)
  \/ DeliverSend(tx)

Read(s, h) ==
  \/ AcquireLook(s, h)
  \/ SubmitClaim(s, h)
  \/ ConfirmOwned(s, h)
  \/ ConfirmLost(s, h)
  \/ ConfirmWait(s, h)
  \/ Ensure(s, h)
  \/ ManagerStep(s, h)
  \/ BeforeSend(s, h)

Next ==
  \/ \E tx \in mempool : Deliver(tx)
  \/ \E tx \in mempool : Drop(tx)
  \/ EndBlock
  \/ \E s \in Sessions, h \in 0..MaxHeight : Read(s, h)
  \/ \E s \in Sessions : Broadcast(s)
  \/ \E h \in 0..MaxHeight : ManualSend(h)
  \/ \E s \in Sessions : RetryTick(s)
  \/ \E s \in Sessions : Crash(s)

Spec == Init /\ [][Next]_vars

-----------------------------------------------------------------------------
(***************************************************************************)
(* Properties                                                              *)
(***************************************************************************)

\* Records have their types and the epoch never leaves its range.
TypeOK ==
  /\ height \in 1..MaxHeight
  /\ lease \in Lease /\ lease.epoch <= MaxEpoch
  /\ sequence \in 0..MaxSequence
  /\ history \in [0..MaxHeight -> Snapshot]
  /\ mempool \in SUBSET Tx
  /\ pc \in [Sessions -> Steps]
  /\ view \in [Sessions -> 0..MaxHeight]
  /\ owned \in [Sessions -> Owned \cup {None}]
  /\ expected \in [Sessions -> Nat]
  /\ outbox \in [Sessions -> Tx \cup {None}]
  /\ granted \in Seq(Sessions)
  /\ executed \in Seq(Sessions \cup {None})

\* As long as the lease a session last confirmed has not run out, the chain
\* agrees that this session is the owner; so two sessions never both hold a
\* lease that is still running, whatever they read late, renew late or were
\* never told (ClaimAgentLease, claim).
OneLiveOwner ==
  \A s \in Sessions :
    owned[s] # None /\ owned[s].expires > height =>
      /\ lease.holder = s
      /\ lease.epoch = owned[s].epoch

\* Ownership passes from session to session and never returns, and every
\* operation executed for a leased account was signed by the owner of that
\* moment, although old owners' and hand-made transactions may sit in a
\* mempool (CheckAgentLeaseTx) and claims are reconciled late (claim).
FencedExecution ==
  INSTANCE FencedLog WITH Signers <- Sessions \cup {None},
                          owners <- granted, log <- executed
ImplementsFencedLog == FencedExecution!Spec

-----------------------------------------------------------------------------
(***************************************************************************)
(* The inductive invariant behind them                                     *)
(***************************************************************************)

\* The lease record l was committed earlier: its epoch is over and it has run
\* out, or it is the current epoch and was only extended since.
Past(l) ==
  /\ l.epoch <= lease.epoch
  /\ l.epoch = lease.epoch => /\ l.holder = lease.holder
                              /\ l.expires <= lease.expires
  /\ l.epoch < lease.epoch => l.expires <= height

LeaseTerm ==
  /\ lease.epoch = 0 => lease = NoLease
  /\ lease.epoch # 0 => /\ lease.holder \in Sessions
                        /\ lease.expires <= height + TTL[lease.holder]

\* What was read, and what is believed, is past.
ReadsArePast ==
  /\ \A h \in 0..(height - 1) : Past(history[h].lease)
  /\ \A s \in Sessions : view[s] < height
  /\ \A s \in Sessions : owned[s] # None =>
       Past([epoch |-> owned[s].epoch, holder |-> s,
             expires |-> owned[s].expires])

\* Only owners tick, with something to send once they are about to.
OwnersTick ==
  \A s \in Sessions :
    /\ pc[s] = "acquire" => owned[s] = None
    /\ pc[s] \in {"tick", "step", "send", "broadcast"} => owned[s] # None
    /\ pc[s] \in {"send", "broadcast"} => outbox[s] # None
    /\ outbox[s] # None => outbox[s].kind = "send"

\* Epochs are granted in order, to a new session each, because a session
\* submits a single claim that is not a renewal.
IsGranted(s) == \E i \in 1..Len(granted) : granted[i] = s

SingleClaim ==
  /\ Len(granted) = lease.epoch
  /\ lease.epoch # 0 => granted[lease.epoch] = lease.holder
  /\ \A s \in Sessions :
       pc[s] \in {"acquire", "claim"} /\ owned[s] = None =>
         /\ ~IsGranted(s)
         /\ \A tx \in mempool : tx.kind = "claim" => tx.holder # s
  /\ \A tx \in mempool : tx.kind # "send" => tx.holder \in Sessions
  /\ \A tx \in mempool : tx.kind = "claim" => ~IsGranted(tx.holder)
  /\ \A t, u \in mempool :
       t.kind = "claim" /\ u.kind = "claim" /\ t.holder = u.holder => t = u

LeaseInv == TypeOK /\ LeaseTerm /\ ReadsArePast /\ OwnersTick /\ SingleClaim

=============================================================================
