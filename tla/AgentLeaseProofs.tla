-------------------------- MODULE AgentLeaseProofs --------------------------
(***************************************************************************)
(* Proofs about the signing lease, for any number of sessions, lease       *)
(* lengths and blocks: every confirmed lease that still runs is the        *)
(* chain's, and the chain implements FencedLog.                            *)
(***************************************************************************)
EXTENDS AgentLease, TLAPS

\* The initial state satisfies the invariant.
LEMMA InitLeaseInv == Init => LeaseInv
<1> SUFFICES ASSUME Init PROVE LeaseInv
  OBVIOUS
<1> USE LeaseAssumption DEF Init
<1>1. NoLease \in Lease
  BY DEF NoLease, Lease
<1>2. TypeOK
  BY <1>1 DEF TypeOK, Snapshot, Steps, Owned, NoLease
<1>3. LeaseTerm
  BY DEF LeaseTerm, NoLease
<1>4. ReadsArePast
  BY DEF ReadsArePast, Past, NoLease
<1>5. OwnersTick
  BY DEF OwnersTick
<1>6. SingleClaim
  BY DEF SingleClaim, IsGranted, NoLease
<1>7. QED
  BY <1>2, <1>3, <1>4, <1>5, <1>6 DEF LeaseInv

-----------------------------------------------------------------------------
(***************************************************************************)
(* Steps of the chain                                                      *)
(***************************************************************************)

\* A committed block shows a lease record and a sequence number.
LEMMA SnapshotTypes ==
  ASSUME TypeOK, NEW h \in 0..MaxHeight
  PROVE  /\ history[h].lease \in Lease
         /\ history[h].lease.epoch \in Nat
         /\ history[h].lease.expires \in Nat
         /\ history[h].sequence \in Nat
<1>1. history[h] \in Snapshot
  BY DEF TypeOK
<1>2. history[h].lease \in Lease /\ history[h].sequence \in Nat
  BY <1>1 DEF Snapshot
<1>3. QED
  BY <1>2 DEF Lease

\* What the types say about the parts of the records a delivery looks at.
LEMMA DeliveryTypes ==
  ASSUME LeaseInv, NEW tx \in mempool
  PROVE  /\ tx \in Tx
         /\ tx.holder \in Sessions \cup {None} /\ tx.seq \in Nat
         /\ tx.kind # "send" => /\ tx.holder \in Sessions
                                /\ TTL[tx.holder] \in Nat \ {0}
         /\ lease.epoch \in Nat /\ lease.expires \in Nat
         /\ height \in Nat /\ sequence \in Nat
         /\ \A h \in 0..(height - 1) :
              /\ history[h].lease.epoch \in Nat
              /\ history[h].lease.expires \in Nat
         /\ \A s \in Sessions : owned[s] # None =>
              owned[s].epoch \in Nat /\ owned[s].expires \in Nat
<1> USE LeaseAssumption DEF LeaseInv, TypeOK
<1>1. tx \in Tx
  OBVIOUS
<1>2. tx.holder \in Sessions \cup {None} /\ tx.seq \in Nat
  BY <1>1 DEF Tx
<1>3. tx.kind # "send" => tx.holder \in Sessions
  BY DEF SingleClaim
<1>4. lease.epoch \in Nat /\ lease.expires \in Nat
  BY DEF Lease
<1>5. \A h \in 0..(height - 1) :
        /\ history[h].lease.epoch \in Nat
        /\ history[h].lease.expires \in Nat
  <2>1. \A h \in 0..(height - 1) : h \in 0..MaxHeight
    OBVIOUS
  <2>2. TypeOK
    OBVIOUS
  <2> HIDE DEF TypeOK
  <2>3. QED
    BY <2>1, <2>2, SnapshotTypes
<1>6. \A s \in Sessions : owned[s] # None =>
        owned[s].epoch \in Nat /\ owned[s].expires \in Nat
  BY DEF Owned
<1>7. QED
  BY <1>1, <1>2, <1>3, <1>4, <1>5, <1>6

\* A claim is granted: the epoch before has run out.
LEMMA DeliverClaimInv ==
  ASSUME LeaseInv, NEW tx \in mempool, DeliverClaim(tx)
  PROVE  LeaseInv'
<1> USE DEF LeaseInv
<1>1. /\ tx.kind = "claim"
      /\ tx.holder \in Sessions
      /\ TTL[tx.holder] \in Nat \ {0}
      /\ lease.epoch \in Nat /\ lease.expires \in Nat /\ height \in Nat
      /\ lease.expires <= height
      /\ lease.epoch < MaxEpoch
  BY DeliveryTypes DEF DeliverClaim, ClaimAllowed
<1>2. /\ height' = height
      /\ lease'.epoch = lease.epoch + 1
      /\ lease'.holder = tx.holder
      /\ lease'.expires = height + TTL[tx.holder]
      /\ lease' \in Lease
  BY <1>1 DEF DeliverClaim, ConsumeSequence, Lease
<1>3. /\ mempool' = mempool \ {tx}
      /\ sequence' = sequence + 1 /\ sequence < MaxSequence
      /\ UNCHANGED <<history, pc, view, owned, expected, outbox, executed>>
      /\ granted' = Append(granted, tx.holder)
  BY DEF DeliverClaim, ConsumeSequence
<1>4. /\ granted' \in Seq(Sessions)
      /\ Len(granted') = Len(granted) + 1
      /\ granted'[Len(granted) + 1] = tx.holder
      /\ \A i \in 1..Len(granted) : granted'[i] = granted[i]
  BY <1>1, <1>3 DEF TypeOK
<1>5. TypeOK'
  <2>1. /\ height' \in 1..MaxHeight
        /\ lease' \in Lease /\ lease'.epoch <= MaxEpoch
        /\ sequence' \in 0..MaxSequence
    BY <1>1, <1>2, <1>3, LeaseAssumption DEF TypeOK
  <2>2. mempool' \in SUBSET Tx
    BY <1>3 DEF TypeOK
  <2>3. QED
    BY <1>3, <1>4, <2>1, <2>2 DEF TypeOK
<1>6. LeaseTerm'
  BY <1>1, <1>2 DEF LeaseTerm
<1>7. ReadsArePast'
  <2>1. ASSUME NEW h \in 0..(height - 1) PROVE Past(history[h].lease)'
    <3>1. /\ Past(history[h].lease)
          /\ history[h].lease.epoch \in Nat
          /\ history[h].lease.expires \in Nat
      BY DeliveryTypes DEF ReadsArePast
    <3>2. history[h].lease.expires <= height
      BY <1>1, <3>1 DEF Past
    <3>3. history[h].lease.epoch < lease'.epoch
      BY <1>1, <1>2, <3>1 DEF Past
    <3>4. history'[h].lease = history[h].lease
      BY <1>3
    <3>5. QED
      BY <1>1, <1>2, <3>1, <3>2, <3>3, <3>4 DEF Past
  <2>2. \A s \in Sessions : owned'[s] # None =>
          Past([epoch |-> owned[s].epoch, holder |-> s,
                expires |-> owned[s].expires])'
    <3> SUFFICES ASSUME NEW s \in Sessions, owned'[s] # None
                 PROVE  Past([epoch |-> owned[s].epoch, holder |-> s,
                              expires |-> owned[s].expires])'
      OBVIOUS
    <3> DEFINE seen == [epoch |-> owned[s].epoch, holder |-> s,
                        expires |-> owned[s].expires]
    <3>1. owned[s] # None /\ seen' = seen
      BY <1>3
    <3>2. Past(seen) /\ seen.epoch \in Nat /\ seen.expires \in Nat
      BY <3>1, DeliveryTypes DEF ReadsArePast
    <3> HIDE DEF seen
    <3>3. seen.expires <= height /\ seen.epoch < lease'.epoch
      BY <1>1, <1>2, <3>2 DEF Past
    <3>4. QED
      BY <1>1, <1>2, <3>1, <3>2, <3>3 DEF Past, seen
  <2>3. QED
    BY <1>2, <1>3, <2>1, <2>2 DEF ReadsArePast
<1>8. OwnersTick'
  BY <1>3 DEF OwnersTick
<1>9. SingleClaim'
  <2>1. ASSUME NEW s PROVE IsGranted(s)' => IsGranted(s) \/ s = tx.holder
    <3>1. Len(granted) \in Nat
      BY DEF TypeOK
    <3>2. \A i \in 1..(Len(granted) + 1) :
            i \in 1..Len(granted) \/ i = Len(granted) + 1
      BY <3>1
    <3>3. QED
      BY <1>4, <3>2 DEF IsGranted
  <2>2. /\ Len(granted)' = lease'.epoch
        /\ granted'[lease'.epoch] = lease'.holder
    BY <1>2, <1>4 DEF SingleClaim
  <2>3. \A u \in mempool' : u.kind = "claim" => u.holder # tx.holder
    BY <1>1, <1>3 DEF SingleClaim
  <2>4. QED
    BY <1>1, <1>2, <1>3, <2>1, <2>2, <2>3 DEF SingleClaim
<1>10. QED
  BY <1>5, <1>6, <1>7, <1>8, <1>9

\* A renewal only moves the end of the current epoch, and never back.
LEMMA DeliverRenewalInv ==
  ASSUME LeaseInv, NEW tx \in mempool, DeliverRenewal(tx)
  PROVE  LeaseInv'
<1> USE DEF LeaseInv
<1>1. /\ tx.holder \in Sessions
      /\ TTL[tx.holder] \in Nat \ {0}
      /\ lease.epoch \in Nat /\ lease.expires \in Nat /\ height \in Nat
      /\ lease.epoch # 0 /\ lease.holder = tx.holder
      /\ lease.expires <= height + TTL[tx.holder]
  BY DeliveryTypes DEF DeliverRenewal, RenewAllowed, LeaseTerm
<1>2. /\ height' = height
      /\ lease'.epoch = lease.epoch
      /\ lease'.holder = lease.holder
      /\ lease'.expires = height + TTL[tx.holder]
      /\ lease' \in Lease
  <2>1. /\ height' = height
        /\ lease' = [lease EXCEPT !.expires = height + TTL[tx.holder]]
    BY DEF DeliverRenewal, ConsumeSequence
  <2>2. lease \in Lease
    BY DEF TypeOK
  <2>3. QED
    BY <1>1, <2>1, <2>2 DEF Lease
<1>3. /\ mempool' = mempool \ {tx}
      /\ sequence' = sequence + 1 /\ sequence < MaxSequence
      /\ UNCHANGED <<history, pc, view, owned, expected, outbox, executed,
                     granted>>
  BY DEF DeliverRenewal, ConsumeSequence
<1>4. TypeOK'
  BY <1>1, <1>2, <1>3, LeaseAssumption DEF TypeOK
<1>5. LeaseTerm'
  BY <1>1, <1>2 DEF LeaseTerm
<1>6. ReadsArePast'
  <2>1. ASSUME NEW h \in 0..(height - 1) PROVE Past(history[h].lease)'
    <3>1. /\ Past(history[h].lease)
          /\ history[h].lease.epoch \in Nat
          /\ history[h].lease.expires \in Nat
      BY DeliveryTypes DEF ReadsArePast
    <3>2. QED
      BY <1>1, <1>2, <1>3, <3>1 DEF Past
  <2>2. \A s \in Sessions : owned'[s] # None =>
          Past([epoch |-> owned[s].epoch, holder |-> s,
                expires |-> owned[s].expires])'
    BY <1>1, <1>2, <1>3, DeliveryTypes DEF ReadsArePast, Past
  <2>3. QED
    BY <1>2, <1>3, <2>1, <2>2 DEF ReadsArePast
<1>7. OwnersTick'
  BY <1>3 DEF OwnersTick
<1>8. SingleClaim'
  BY <1>2, <1>3 DEF SingleClaim, IsGranted
<1>9. QED
  BY <1>4, <1>5, <1>6, <1>7, <1>8

\* Nothing but the mempool, the sequence and the log changes.
LEMMA MempoolShrinksInv ==
  ASSUME LeaseInv, mempool' \subseteq mempool,
         sequence' \in 0..MaxSequence,
         executed' \in Seq(Sessions \cup {None}),
         UNCHANGED <<height, lease, history, pc, view, owned, expected, outbox,
                     granted>>
  PROVE  LeaseInv'
<1> USE DEF LeaseInv
<1>1. TypeOK'
  BY DEF TypeOK
<1>2. LeaseTerm'
  BY DEF LeaseTerm
<1>3. ReadsArePast'
  BY DEF ReadsArePast, Past
<1>4. OwnersTick'
  BY DEF OwnersTick
<1>5. SingleClaim'
  BY DEF SingleClaim, IsGranted
<1>6. QED
  BY <1>1, <1>2, <1>3, <1>4, <1>5

\* A transaction reaches the chain, or is lost.
LEMMA DeliverInv ==
  ASSUME LeaseInv, NEW tx \in mempool, Deliver(tx) \/ Drop(tx)
  PROVE  LeaseInv'
<1>1. sequence \in Nat /\ tx.holder \in Sessions \cup {None}
  BY DeliveryTypes
<1>2. CASE DeliverRefused(tx)
  <2>1. /\ sequence' \in 0..MaxSequence
        /\ executed' \in Seq(Sessions \cup {None})
    BY <1>1, <1>2, LeaseAssumption
    DEF DeliverRefused, ConsumeSequence, LeaseInv, TypeOK
  <2>2. QED
    BY <1>2, <2>1, MempoolShrinksInv DEF DeliverRefused, ConsumeSequence
<1>3. CASE DeliverSend(tx)
  <2>1. executed' \in Seq(Sessions \cup {None})
    BY <1>1, <1>3 DEF DeliverSend, LeaseInv, TypeOK
  <2>2. sequence' \in 0..MaxSequence
    BY <1>1, <1>3, LeaseAssumption DEF DeliverSend, ConsumeSequence
  <2>3. QED
    BY <1>3, <2>1, <2>2, MempoolShrinksInv DEF DeliverSend, ConsumeSequence
<1>4. CASE Drop(tx)
  BY <1>4, MempoolShrinksInv DEF Drop, chainVars, LeaseInv, TypeOK
<1>5. QED
  BY <1>2, <1>3, <1>4, DeliverClaimInv, DeliverRenewalInv DEF Deliver

\* The block that is committed is the current state, hence past.
LEMMA EndBlockInv ==
  ASSUME LeaseInv, EndBlock
  PROVE  LeaseInv'
<1> USE LeaseAssumption DEF LeaseInv, EndBlock
<1>1. /\ height \in 1..MaxHeight /\ height + 1 \in 1..MaxHeight
      /\ lease \in Lease /\ lease.epoch \in Nat /\ lease.expires \in Nat
      /\ [lease |-> lease, sequence |-> sequence] \in Snapshot
  BY DEF TypeOK, Lease, Snapshot
<1>2. TypeOK'
  BY <1>1 DEF TypeOK
<1>3. LeaseTerm'
  BY <1>1 DEF LeaseTerm
<1>4. ReadsArePast'
  <2>1. \A h \in 0..(height - 1) : history'[h] = history[h]
    BY <1>1 DEF TypeOK
  <2>2. history'[height].lease = lease
    BY <1>1 DEF TypeOK
  <2>3. \A h \in 0..(height - 1) :
          /\ history[h].lease.epoch \in Nat
          /\ history[h].lease.expires \in Nat
    BY <1>1, SnapshotTypes
  <2>4. \A s \in Sessions : owned[s] # None =>
          owned[s].epoch \in Nat /\ owned[s].expires \in Nat
    BY DEF TypeOK, Owned
  <2>5. ASSUME NEW h \in 0..height PROVE Past(history[h].lease)'
    BY <1>1, <2>1, <2>2, <2>3 DEF ReadsArePast, Past
  <2>6. \A s \in Sessions : owned'[s] # None =>
          Past([epoch |-> owned[s].epoch, holder |-> s,
                expires |-> owned[s].expires])'
    BY <1>1, <2>4 DEF ReadsArePast, Past
  <2>7. \A s \in Sessions : view'[s] < height'
    BY <1>1 DEF ReadsArePast, TypeOK
  <2>8. QED
    BY <1>1, <2>5, <2>6, <2>7 DEF ReadsArePast
<1>5. OwnersTick'
  BY DEF OwnersTick
<1>6. SingleClaim'
  BY DEF SingleClaim, IsGranted
<1>7. QED
  BY <1>2, <1>3, <1>4, <1>5, <1>6

-----------------------------------------------------------------------------
(***************************************************************************)
(* Steps of a session                                                      *)
(***************************************************************************)

\* A read moves the session's view to a committed height.
LEMMA SeesTypes ==
  ASSUME LeaseInv, NEW s \in Sessions, NEW h \in 0..MaxHeight, Sees(s, h)
  PROVE  /\ view' \in [Sessions -> 0..MaxHeight]
         /\ \A x \in Sessions : view'[x] < height
         /\ h \in 0..(height - 1)
         /\ history[h].lease.epoch \in Nat
         /\ history[h].lease.expires \in Nat
         /\ history[h].sequence \in Nat
         /\ Past(history[h].lease)
<1>1. h \in 0..(height - 1)
  BY DEF LeaseInv, TypeOK, Sees
<1>2. /\ view' \in [Sessions -> 0..MaxHeight]
      /\ \A x \in Sessions : view'[x] < height
  BY <1>1 DEF LeaseInv, TypeOK, ReadsArePast, Sees
<1>3. Past(history[h].lease)
  BY <1>1 DEF LeaseInv, ReadsArePast
<1>4. QED
  BY <1>1, <1>2, <1>3, SnapshotTypes DEF LeaseInv

\* A step of one session that leaves chain, mempool and ownership alone: it
\* must not go back to acquiring, and must not tick without a lease.
LEMMA QuietStepInv ==
  ASSUME LeaseInv, NEW s \in Sessions, NEW label \in Steps,
         UNCHANGED <<chainVars, mempool, owned>>,
         pc' = [pc EXCEPT ![s] = label],
         view' \in [Sessions -> 0..MaxHeight],
         \A x \in Sessions : view'[x] < height,
         expected' \in [Sessions -> Nat],
         outbox' \in [Sessions -> Tx \cup {None}],
         \A x \in Sessions :
           outbox'[x] # outbox[x] => x = s /\ outbox'[x].kind = "send",
         label = "acquire" => pc[s] = "acquire",
         label = "claim" /\ owned[s] = None => pc[s] = "acquire",
         label \in {"tick", "step", "send", "broadcast"} => owned[s] # None,
         label \in {"send", "broadcast"} => outbox'[s] # None
  PROVE  LeaseInv'
<1> USE DEF LeaseInv, chainVars
<1>1. TypeOK'
  BY DEF TypeOK
<1>2. LeaseTerm'
  BY DEF LeaseTerm
<1>3. ReadsArePast'
  BY DEF ReadsArePast, Past
<1>4. \A x \in Sessions : pc'[x] = IF x = s THEN label ELSE pc[x]
  BY DEF TypeOK
<1>5. OwnersTick'
  BY <1>4 DEF OwnersTick
<1>6. SingleClaim'
  BY <1>4 DEF SingleClaim, IsGranted
<1>7. QED
  BY <1>1, <1>2, <1>3, <1>5, <1>6

\* A session looks at the lease before it asks for it.
LEMMA AcquireLookInv ==
  ASSUME LeaseInv, NEW s \in Sessions, NEW h \in 0..MaxHeight, AcquireLook(s, h)
  PROVE  LeaseInv'
<1>1. PICK label \in {"acquire", "claim", "stopped"} :
        pc' = [pc EXCEPT ![s] = label]
  BY DEF AcquireLook, Goto
<1>2. expected' \in [Sessions -> Nat]
  BY SeesTypes DEF AcquireLook, LeaseInv, TypeOK
<1>3. outbox' \in [Sessions -> Tx \cup {None}] /\ outbox' = outbox
  BY DEF AcquireLook, LeaseInv, TypeOK
<1>4. pc[s] = "acquire" /\ UNCHANGED <<chainVars, mempool, owned>>
  BY DEF AcquireLook
<1>5. label \in Steps
  BY DEF Steps
<1>6. /\ view' \in [Sessions -> 0..MaxHeight]
      /\ \A x \in Sessions : view'[x] < height
  BY SeesTypes DEF AcquireLook
<1>7. QED
  BY <1>1, <1>2, <1>3, <1>4, <1>5, <1>6, QuietStepInv

\* The steps that only move the session on.
LEMMA MoveOnInv ==
  ASSUME LeaseInv, NEW s \in Sessions, NEW h \in 0..MaxHeight,
         \/ ConfirmLost(s, h)
         \/ ConfirmWait(s, h)
         \/ Ensure(s, h)
         \/ BeforeSend(s, h)
  PROVE  LeaseInv'
<1>1. /\ Sees(s, h)
      /\ UNCHANGED <<chainVars, mempool, owned, expected, outbox>>
  BY DEF ConfirmLost, ConfirmWait, Ensure, BeforeSend
<1>2. /\ expected' \in [Sessions -> Nat]
      /\ outbox' \in [Sessions -> Tx \cup {None}]
  BY <1>1 DEF LeaseInv, TypeOK
<1>3. /\ pc[s] \in {"tick", "send"} => owned[s] # None
      /\ pc[s] = "send" => outbox[s] # None
  BY DEF LeaseInv, OwnersTick
<1>4. PICK label \in Steps :
        /\ pc' = [pc EXCEPT ![s] = label]
        /\ label # "acquire"
        /\ label = "claim" => owned[s] # None
        /\ label \in {"tick", "step", "send", "broadcast"} => owned[s] # None
        /\ label \in {"send", "broadcast"} => outbox[s] # None
  <2>1. CASE ConfirmLost(s, h)
    BY <2>1 DEF ConfirmLost, Goto, Steps
  <2>2. CASE ConfirmWait(s, h)
    BY <2>2 DEF ConfirmWait, AfterError, Goto, Steps
  <2>3. CASE Ensure(s, h)
    BY <1>3, <2>3 DEF Ensure, Goto, Steps
  <2>4. CASE BeforeSend(s, h)
    BY <1>3, <2>4 DEF BeforeSend, Goto, Steps
  <2>5. QED
    BY <2>1, <2>2, <2>3, <2>4
<1>5. QED
  BY <1>1, <1>2, <1>4, SeesTypes, QuietStepInv

\* The lease manager takes a step.
LEMMA ManagerStepInv ==
  ASSUME LeaseInv, NEW s \in Sessions, NEW h \in 0..MaxHeight, ManagerStep(s, h)
  PROVE  LeaseInv'
<1> DEFINE tx == [kind |-> "send", holder |-> s, epoch |-> owned[s].epoch,
                  seq |-> history[h].sequence]
<1>1. /\ Sees(s, h)
      /\ UNCHANGED <<chainVars, mempool, owned, expected>>
      /\ pc[s] = "step"
  BY DEF ManagerStep
<1>2. owned[s] # None /\ owned[s].epoch \in Nat
  BY <1>1 DEF LeaseInv, OwnersTick, TypeOK, Owned
<1>3. tx \in Tx /\ tx # None /\ tx.kind = "send"
  <2>1. tx \in Tx
    BY <1>1, <1>2, SeesTypes DEF Tx
  <2>2. QED
    BY <2>1, NoneAssumption
<1>4. PICK label \in {"tick", "send"} :
        /\ pc' = [pc EXCEPT ![s] = label]
        /\ label = "tick" => outbox' = outbox
        /\ label = "send" => outbox' = [outbox EXCEPT ![s] =
                IF outbox[s] = None \/ outbox[s].seq < history[h].sequence
                THEN tx ELSE outbox[s]]
  <2>1. CASE Goto(s, "tick") /\ UNCHANGED outbox
    BY <2>1 DEF Goto
  <2>2. CASE /\ Goto(s, "send")
             /\ outbox' = [outbox EXCEPT ![s] =
                  IF outbox[s] = None \/ outbox[s].seq < history[h].sequence
                  THEN tx ELSE outbox[s]]
    BY <2>2 DEF Goto
  <2>3. QED
    BY <2>1, <2>2 DEF ManagerStep
<1>5. /\ outbox' \in [Sessions -> Tx \cup {None}]
      /\ \A x \in Sessions :
           outbox'[x] # outbox[x] => x = s /\ outbox'[x].kind = "send"
      /\ label = "send" => outbox'[s] # None
  <2> HIDE DEF tx
  <2>1. CASE label = "tick"
    BY <1>4, <2>1 DEF LeaseInv, TypeOK
  <2>2. CASE label = "send"
    BY <1>3, <1>4, <2>2 DEF LeaseInv, TypeOK
  <2>3. QED
    BY <2>1, <2>2
<1>6. expected' \in [Sessions -> Nat] /\ label \in Steps
  BY <1>1 DEF LeaseInv, TypeOK, Steps
<1>7. QED
  BY <1>1, <1>2, <1>4, <1>5, <1>6, SeesTypes, QuietStepInv

\* A session waits for its next attempt, or ends.
LEMMA RetryOrCrashInv ==
  ASSUME LeaseInv, NEW s \in Sessions, RetryTick(s) \/ Crash(s)
  PROVE  LeaseInv'
<1>1. UNCHANGED <<chainVars, mempool, view, owned, expected, outbox>>
  BY DEF RetryTick, Crash
<1>2. PICK label \in {"tick", "stopped"} :
        /\ pc' = [pc EXCEPT ![s] = label]
        /\ label = "tick" => owned[s] # None
  BY DEF RetryTick, Crash, Goto
<1>3. /\ view' \in [Sessions -> 0..MaxHeight]
      /\ \A x \in Sessions : view'[x] < height
      /\ expected' \in [Sessions -> Nat]
      /\ outbox' \in [Sessions -> Tx \cup {None}]
      /\ label \in Steps
  BY <1>1 DEF LeaseInv, TypeOK, ReadsArePast, Steps
<1>4. QED
  BY <1>1, <1>2, <1>3, QuietStepInv

\* A transaction that is not a claim joins the mempool.
LEMMA MempoolGrowsInv ==
  ASSUME LeaseInv, NEW tx \in Tx, tx.kind # "claim",
         tx.kind # "send" => tx.holder \in Sessions,
         mempool' \subseteq mempool \cup {tx},
         UNCHANGED <<chainVars, pc, view, owned, expected, outbox>>
  PROVE  LeaseInv'
<1> USE DEF LeaseInv, chainVars
<1>1. TypeOK'
  BY DEF TypeOK
<1>2. LeaseTerm'
  BY DEF LeaseTerm
<1>3. ReadsArePast'
  BY DEF ReadsArePast, Past
<1>4. OwnersTick'
  BY DEF OwnersTick
<1>5. SingleClaim'
  BY DEF SingleClaim, IsGranted
<1>6. QED
  BY <1>1, <1>2, <1>3, <1>4, <1>5

\* A transaction that is sent by hand.
LEMMA ManualSendInv ==
  ASSUME LeaseInv, NEW h \in 0..MaxHeight, ManualSend(h)
  PROVE  LeaseInv'
<1> DEFINE tx == [kind |-> "send", holder |-> None, epoch |-> 0,
                  seq |-> history[h].sequence]
<1>1. tx \in Tx
  BY SnapshotTypes DEF LeaseInv, Tx
<1>2. mempool' \subseteq mempool \cup {tx}
  BY DEF ManualSend
<1>3. QED
  BY <1>1, <1>2, MempoolGrowsInv DEF ManualSend

\* A new claim meets no other of its session; a renewal is no claim.
LEMMA SubmitClaimInv ==
  ASSUME LeaseInv, NEW s \in Sessions, NEW h \in 0..MaxHeight, SubmitClaim(s, h)
  PROVE  LeaseInv'
<1> DEFINE tx ==
      [kind |-> IF owned[s] = None THEN "claim" ELSE "renew", holder |-> s,
       epoch |-> IF owned[s] = None THEN expected[s] ELSE owned[s].epoch,
       seq |-> history[h].sequence]
<1> USE DEF LeaseInv, chainVars
<1>1. /\ pc[s] = "claim"
      /\ Sees(s, h)
      /\ UNCHANGED <<chainVars, owned, expected, outbox>>
      /\ mempool' \subseteq mempool \cup {tx}
  BY DEF SubmitClaim
<1>2. PICK label \in {"confirm", "reconcile"} : pc' = [pc EXCEPT ![s] = label]
  BY DEF SubmitClaim, Goto
<1>3. owned[s] # None => owned[s].epoch \in Nat
  BY DEF TypeOK, Owned
<1>4. tx \in Tx
  <2>1. history[h].sequence \in Nat
    BY <1>1, SeesTypes
  <2>2. expected[s] \in Nat
    BY DEF TypeOK
  <2>3. QED
    BY <1>3, <2>1, <2>2 DEF Tx
<1>5. \A x \in Sessions : pc'[x] = IF x = s THEN label ELSE pc[x]
  BY <1>2 DEF TypeOK
<1>6. TypeOK'
  BY <1>1, <1>2, <1>4, SeesTypes DEF TypeOK, Steps
<1>7. LeaseTerm'
  BY <1>1 DEF LeaseTerm
<1>8. ReadsArePast'
  BY <1>1, SeesTypes DEF ReadsArePast, Past
<1>9. OwnersTick'
  BY <1>1, <1>5 DEF OwnersTick
<1>10. SingleClaim'
  <2>1. /\ tx.holder = s
        /\ tx.kind = "claim" => owned[s] = None
        /\ tx.kind # "send"
    OBVIOUS
  <2>2. owned[s] = None => /\ ~IsGranted(s)
                           /\ \A t \in mempool : t.kind = "claim" => t.holder # s
    BY <1>1 DEF SingleClaim
  <2> HIDE DEF tx
  <2>3. QED
    BY <1>1, <1>5, <2>1, <2>2 DEF SingleClaim, IsGranted
<1>11. QED
  BY <1>6, <1>7, <1>8, <1>9, <1>10

\* What is confirmed was committed, hence is past.
LEMMA ConfirmOwnedInv ==
  ASSUME LeaseInv, NEW s \in Sessions, NEW h \in 0..MaxHeight, ConfirmOwned(s, h)
  PROVE  LeaseInv'
<1> DEFINE seen == history[h].lease
           mine == [epoch |-> seen.epoch, expires |-> seen.expires]
<1> USE DEF LeaseInv, chainVars
<1>1. /\ Sees(s, h)
      /\ UNCHANGED <<chainVars, mempool, expected, outbox>>
      /\ owned' = [owned EXCEPT ![s] = mine]
      /\ seen.holder = s
      /\ pc[s] \in {"confirm", "reconcile"}
  BY DEF ConfirmOwned, Confirmed
<1>2. PICK label \in {"tick", "step"} : pc' = [pc EXCEPT ![s] = label]
  BY DEF ConfirmOwned, Goto
<1>3. mine \in Owned /\ mine # None /\ Past(seen)
  <2>1. seen.epoch \in Nat /\ seen.expires \in Nat /\ Past(seen)
    BY <1>1, SeesTypes
  <2>2. mine \in Owned
    BY <2>1 DEF Owned
  <2>3. QED
    BY <2>1, <2>2, NoneAssumption
<1>4. /\ \A x \in Sessions : pc'[x] = IF x = s THEN label ELSE pc[x]
      /\ \A x \in Sessions : owned'[x] = IF x = s THEN mine ELSE owned[x]
  BY <1>1, <1>2 DEF TypeOK
<1>5. TypeOK'
  <2>1. /\ owned' \in [Sessions -> Owned \cup {None}]
        /\ pc' \in [Sessions -> Steps]
    BY <1>1, <1>2, <1>3 DEF TypeOK, Steps
  <2>2. QED
    BY <1>1, <2>1, SeesTypes DEF TypeOK
<1>6. LeaseTerm'
  BY <1>1 DEF LeaseTerm
<1>7. ReadsArePast'
  <2>1. ASSUME NEW x \in Sessions, owned'[x] # None
        PROVE  Past([epoch |-> owned[x].epoch, holder |-> x,
                     expires |-> owned[x].expires])'
    <3>1. CASE x = s
      BY <1>1, <1>3, <1>4, <3>1 DEF Past
    <3>2. CASE x # s
      BY <1>1, <1>4, <2>1, <3>2 DEF ReadsArePast, Past
    <3>3. QED
      BY <3>1, <3>2
  <2>2. \A i \in 0..(height' - 1) : Past(history[i].lease)'
    BY <1>1 DEF ReadsArePast, Past
  <2>3. QED
    BY <1>1, <2>1, <2>2, SeesTypes DEF ReadsArePast
<1>8. OwnersTick'
  BY <1>1, <1>3, <1>4 DEF OwnersTick
<1>9. SingleClaim'
  BY <1>1, <1>3, <1>4 DEF SingleClaim, IsGranted
<1>10. QED
  BY <1>5, <1>6, <1>7, <1>8, <1>9

\* A signed transaction goes out; the session's next tick begins.
LEMMA BroadcastInv ==
  ASSUME LeaseInv, NEW s \in Sessions, Broadcast(s)
  PROVE  LeaseInv'
<1> USE DEF LeaseInv, chainVars
<1>1. /\ pc[s] = "broadcast"
      /\ UNCHANGED <<chainVars, view, owned, expected, outbox>>
      /\ mempool' \subseteq mempool \cup {outbox[s]}
      /\ pc' = [pc EXCEPT ![s] = "tick"]
  BY DEF Broadcast, Goto
<1>2. outbox[s] \in Tx /\ outbox[s].kind = "send" /\ owned[s] # None
  BY <1>1 DEF OwnersTick, TypeOK
<1>3. TypeOK'
  BY <1>1, <1>2 DEF TypeOK, Steps
<1>4. \A x \in Sessions : pc'[x] = IF x = s THEN "tick" ELSE pc[x]
  BY <1>1 DEF TypeOK
<1>5. LeaseTerm'
  BY <1>1 DEF LeaseTerm
<1>6. ReadsArePast'
  BY <1>1 DEF ReadsArePast, Past
<1>7. OwnersTick'
  BY <1>1, <1>2, <1>4 DEF OwnersTick
<1>8. SingleClaim'
  BY <1>1, <1>2, <1>4 DEF SingleClaim, IsGranted
<1>9. QED
  BY <1>3, <1>5, <1>6, <1>7, <1>8

-----------------------------------------------------------------------------
(***************************************************************************)
(* Theorems                                                                *)
(***************************************************************************)

\* Every step keeps the invariant.
LEMMA NextLeaseInv == LeaseInv /\ [Next]_vars => LeaseInv'
<1> SUFFICES ASSUME LeaseInv, [Next]_vars PROVE LeaseInv'
  OBVIOUS
<1>1. CASE \E tx \in mempool : Deliver(tx) \/ Drop(tx)
  BY <1>1, DeliverInv
<1>2. CASE EndBlock
  BY <1>2, EndBlockInv
<1>3. ASSUME NEW s \in Sessions, NEW h \in 0..MaxHeight, Read(s, h)
      PROVE  LeaseInv'
  BY <1>3, AcquireLookInv, SubmitClaimInv, ConfirmOwnedInv, MoveOnInv,
     ManagerStepInv DEF Read
<1>4. CASE \E s \in Sessions : Broadcast(s)
  BY <1>4, BroadcastInv
<1>5. CASE \E h \in 0..MaxHeight : ManualSend(h)
  BY <1>5, ManualSendInv
<1>6. CASE \E s \in Sessions : RetryTick(s) \/ Crash(s)
  BY <1>6, RetryOrCrashInv
<1>7. CASE UNCHANGED vars
  <2>1. /\ mempool' \subseteq mempool
        /\ sequence' \in 0..MaxSequence
        /\ executed' \in Seq(Sessions \cup {None})
        /\ UNCHANGED <<height, lease, history, pc, view, owned, expected,
                       outbox, granted>>
    BY <1>7 DEF vars, LeaseInv, TypeOK
  <2>2. QED
    BY <2>1, MempoolShrinksInv
<1>8. QED
  BY <1>1, <1>2, <1>3, <1>4, <1>5, <1>6, <1>7 DEF Next

\* The inductive invariant of leases, reads and claims.
THEOREM LeaseInvCorrect == Spec => []LeaseInv
  BY InitLeaseInv, NextLeaseInv, PTL DEF Spec

\* A session's confirmed lease that still runs is the chain's lease
\* (ClaimAgentLease, Session.claim): there is one live owner.
THEOREM OneLiveOwnerCorrect == Spec => []OneLiveOwner
<1>1. LeaseInv => OneLiveOwner
  <2> SUFFICES ASSUME LeaseInv, NEW s \in Sessions, owned[s] # None,
                      owned[s].expires > height
               PROVE  lease.holder = s /\ lease.epoch = owned[s].epoch
    BY DEF OneLiveOwner
  <2>1. /\ owned[s].epoch \in Nat /\ owned[s].expires \in Nat
        /\ lease.epoch \in Nat /\ height \in Nat
    BY DEF LeaseInv, TypeOK, Owned, Lease
  <2>2. Past([epoch |-> owned[s].epoch, holder |-> s,
              expires |-> owned[s].expires])
    BY DEF LeaseInv, ReadsArePast
  <2>3. QED
    BY <2>1, <2>2 DEF Past
<1>2. QED
  BY <1>1, LeaseInvCorrect, PTL

\* The lease and the fence implement FencedLog: epochs go to ever new
\* sessions, and what a leased account executes was signed by its owner
\* (ClaimAgentLease, CheckAgentLeaseTx).
THEOREM ImplementsFencedLogCorrect == Spec => ImplementsFencedLog
<1>1. Init => FencedExecution!Init
  BY DEF Init, FencedExecution!Init
<1>2. LeaseInv /\ [Next]_vars => [FencedExecution!Next]_<<granted, executed>>
  <2> SUFFICES ASSUME LeaseInv, [Next]_vars
               PROVE  FencedExecution!Next \/ UNCHANGED <<granted, executed>>
    OBVIOUS
  <2>1. ASSUME NEW tx \in mempool, DeliverClaim(tx)
        PROVE  FencedExecution!Next
    <3>1. tx.kind = "claim" /\ tx.holder \in Sessions
      BY <2>1, DeliveryTypes DEF DeliverClaim, ClaimAllowed
    <3>2. \A i \in 1..Len(granted) : granted[i] # tx.holder
      BY <3>1 DEF LeaseInv, SingleClaim, IsGranted
    <3>3. FencedExecution!Grant(tx.holder)
      BY <2>1, <3>2 DEF DeliverClaim, FencedExecution!Grant
    <3>4. QED
      BY <3>1, <3>3 DEF FencedExecution!Next
  <2>2. ASSUME NEW tx \in mempool, DeliverSend(tx)
        PROVE  FencedExecution!Next
    <3>1. tx.holder \in Sessions \cup {None}
      BY DeliveryTypes
    <3>2. granted # <<>> => tx.holder = granted[Len(granted)]
      <4>1. granted # <<>> => Len(granted) # 0
        BY DEF LeaseInv, TypeOK
      <4>2. QED
        BY <2>2, <4>1 DEF LeaseInv, SingleClaim, DeliverSend, ConsumeSequence,
           CheckAgentLeaseTx
    <3>3. FencedExecution!Execute(tx.holder)
      BY <2>2, <3>2 DEF DeliverSend, FencedExecution!Execute
    <3>4. QED
      BY <3>1, <3>3 DEF FencedExecution!Next
  <2>3. ASSUME NEW tx \in mempool, DeliverRenewal(tx) \/ DeliverRefused(tx)
        PROVE  UNCHANGED <<granted, executed>>
    BY <2>3 DEF DeliverRenewal, DeliverRefused
  <2>4. ASSUME \/ \E tx \in mempool : Drop(tx)
               \/ EndBlock
               \/ \E s \in Sessions : Broadcast(s) \/ RetryTick(s) \/ Crash(s)
               \/ \E h \in 0..MaxHeight : ManualSend(h)
               \/ UNCHANGED vars
        PROVE  UNCHANGED <<granted, executed>>
    BY <2>4 DEF Drop, EndBlock, Broadcast, RetryTick, Crash, ManualSend,
       chainVars, vars
  <2>5. ASSUME NEW s \in Sessions, NEW h \in 0..MaxHeight, Read(s, h)
        PROVE  UNCHANGED <<granted, executed>>
    BY <2>5 DEF Read, AcquireLook, SubmitClaim, ConfirmOwned, ConfirmLost,
       ConfirmWait, Ensure, ManagerStep, BeforeSend, chainVars
  <2>6. QED
    BY <2>1, <2>2, <2>3, <2>4, <2>5 DEF Next, Deliver
<1>3. QED
  BY <1>1, <1>2, LeaseInvCorrect, PTL
  DEF Spec, ImplementsFencedLog, FencedExecution!Spec, FencedExecution!logVars

=============================================================================
