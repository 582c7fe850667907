---------------------------- MODULE RequestGuard ----------------------------
(***************************************************************************)
(* One-shot commands (g503-send, g503-validator, g503-ops) that send one   *)
(* transaction of one account through dev/agent/internal/rpcguard.         *)
(*                                                                         *)
(* A command is started with the account sequence of its caller, opens the *)
(* account's database, which locks out every other command, and saves the  *)
(* signed bytes under the request id before it sends them. A command that  *)
(* is repeated under its id reconciles the saved bytes.                    *)
(*                                                                         *)
(* The bytes of a transaction are determined by its messages and its       *)
(* sequence. The node that commands talk to is external.                   *)
(***************************************************************************)
EXTENDS Naturals, FiniteSets

CONSTANTS
  Callers,   \* who starts commands
  Ids,       \* request ids
  NoId,      \* no request id
  Payloads,  \* messages, with the fee, gas and memo they are sent with
  Plain,     \* those that are sent without a request id
  None

VARIABLES
  records,    \* saved attempt of each request id
  command,    \* the command that each caller runs, or has run
  sequence,   \* sequence of the account in the last block
  committed,  \* transactions in blocks
  rejected,   \* those of them whose execution failed
  index,      \* those of them that can be looked up
  mempool     \* transactions that wait for a block

chainVars == <<sequence, committed, rejected, index, mempool>>
guardVars == <<records, command, sequence, committed, rejected, index, mempool>>

Tx(payload, n) == [payload |-> payload, sequence |-> n]

\* The transaction whose bytes are saved under a request id.
Saved(id) == Tx(records[id].intent, records[id].sequence)

Transactions == [payload : Payloads, sequence : Nat]

Attempts == [intent : Payloads, sequence : Nat]

ASSUME GuardAssumption == NoId \notin Ids /\ None \notin Attempts /\ Plain \subseteq Payloads

Places == {"started", "open", "saved", "exit"}

Commands ==
  [id : Ids \cup {NoId}, payload : Payloads, sequence : Nat, pinned : Nat,
   at : Places, ok : BOOLEAN]

GuardTypeOK ==
  /\ records \in [Ids -> Attempts \cup {None}]
  /\ command \in [Callers -> Commands \cup {None}]
  /\ sequence \in Nat
  /\ committed \subseteq Transactions
  /\ rejected \subseteq committed /\ index \subseteq committed
  /\ mempool \subseteq Transactions

GuardInit ==
  /\ records = [id \in Ids |-> None]
  /\ command = [c \in Callers |-> None]
  /\ sequence = 0
  /\ committed = {} /\ rejected = {} /\ index = {} /\ mempool = {}

-----------------------------------------------------------------------------
(***************************************************************************)
(* Commands                                                                *)
(***************************************************************************)

SetCommand(c, r) == command' = [command EXCEPT ![c] = r]

\* A caller looks up the sequence of the account and starts a command.
Start(c, id, payload) ==
  /\ command[c] = None
  /\ SetCommand(c, [id |-> id, payload |-> payload, sequence |-> sequence,
                    pinned |-> 0, at |-> "started", ok |-> FALSE])
  /\ UNCHANGED <<records, chainVars>>

Locked == \E c \in Callers : command[c] # None /\ command[c].at \in {"open", "saved"}

\* The database is locked. Without a request id the transaction is signed and
\* sent; else the height of the last block is read, which pins the sequence.
OpenGuard(c) ==
  /\ command[c] # None /\ command[c].at = "started"
  /\ ~Locked
  /\ SetCommand(c, [command[c] EXCEPT !.at = IF command[c].id = NoId THEN "saved" ELSE "open",
                                      !.pinned = sequence])
  /\ UNCHANGED <<records, chainVars>>

Exit(c, ok) == SetCommand(c, [command[c] EXCEPT !.at = "exit", !.ok = ok])

Proceed(c) == SetCommand(c, [command[c] EXCEPT !.at = "saved"])

\* Mutant: a sequence that has moved on means that a new signature is needed.
ReconcileResigns(c) ==
  LET id == command[c].id
  IN /\ IF Saved(id) \in index THEN Exit(c, Saved(id) \notin rejected) ELSE Proceed(c)
     /\ records' = [records EXCEPT ![id].sequence = command[c].pinned]
     /\ UNCHANGED chainVars

\* Mutant: what is saved has been sent.
ReconcileNeverResends(c) ==
  LET id == command[c].id
  IN /\ Exit(c, Saved(id) \in index \ rejected)
     /\ UNCHANGED <<records, chainVars>>

\* The id has a saved attempt: it must be the same operation; if it is in a
\* block that is its result; if its sequence is used up the outcome is unknown;
\* else the same bytes may be sent again.
Reconcile(c) ==
  LET id == command[c].id
  IN /\ IF records[id].intent # command[c].payload THEN Exit(c, FALSE)
        ELSE IF Saved(id) \in index THEN Exit(c, Saved(id) \notin rejected)
        ELSE IF command[c].pinned # records[id].sequence THEN Exit(c, FALSE)
        ELSE Proceed(c)
     /\ UNCHANGED <<records, chainVars>>

\* The id is new: the transaction is signed and saved.
SignAndSave(c) ==
  /\ records' = [records EXCEPT ![command[c].id] =
                   [intent |-> command[c].payload, sequence |-> command[c].sequence]]
  /\ Proceed(c)
  /\ UNCHANGED chainVars

Reconciles(c) ==
  /\ command[c] # None /\ command[c].at = "open"
  /\ IF records[command[c].id] = None THEN SignAndSave(c) ELSE Reconcile(c)

\* The bytes that a command sends.
Outgoing(c) ==
  IF command[c].id = NoId THEN Tx(command[c].payload, command[c].sequence)
  ELSE Saved(command[c].id)

\* The node takes a transaction with the next sequence that it does not have.
CheckTx(tx) ==
  /\ tx \notin mempool
  /\ tx.sequence = sequence + Cardinality(mempool)

\* The bytes are sent to one endpoint, and never to another.
Broadcast(c) ==
  /\ command[c] # None /\ command[c].at = "saved"
  /\ Exit(c, CheckTx(Outgoing(c)))
  /\ mempool' = IF CheckTx(Outgoing(c)) THEN mempool \cup {Outgoing(c)} ELSE mempool
  /\ UNCHANGED <<records, sequence, committed, rejected, index>>

\* The request or the answer is lost.
BroadcastLost(c) ==
  /\ command[c] # None /\ command[c].at = "saved"
  /\ Exit(c, FALSE)
  /\ mempool' \in {mempool, IF CheckTx(Outgoing(c)) THEN mempool \cup {Outgoing(c)} ELSE mempool}
  /\ UNCHANGED <<records, sequence, committed, rejected, index>>

\* The command is killed.
Kill(c) ==
  /\ command[c] # None /\ command[c].at # "exit"
  /\ SetCommand(c, None)
  /\ UNCHANGED <<records, chainVars>>

\* The caller takes the result of the command.
Collect(c) ==
  /\ command[c] # None /\ command[c].at = "exit"
  /\ SetCommand(c, None)
  /\ UNCHANGED <<records, chainVars>>

-----------------------------------------------------------------------------
(***************************************************************************)
(* The node                                                                *)
(***************************************************************************)

\* The next transaction is put into a block; its sequence is used, whether it
\* succeeds or not.
CommitTx ==
  \E tx \in mempool :
    /\ tx.sequence = sequence
    /\ sequence' = sequence + 1
    /\ committed' = committed \cup {tx}
    /\ mempool' = mempool \ {tx}
    /\ UNCHANGED <<records, command, index, rejected>>

\* As CommitTx, but the messages fail.
RejectTx ==
  \E tx \in mempool :
    /\ tx.sequence = sequence
    /\ sequence' = sequence + 1
    /\ committed' = committed \cup {tx}
    /\ rejected' = rejected \cup {tx}
    /\ mempool' = mempool \ {tx}
    /\ UNCHANGED <<records, command, index>>

IndexTx ==
  /\ index # committed
  /\ index' = committed
  /\ UNCHANGED <<records, command, sequence, committed, rejected, mempool>>

\* The mempool is not persistent.
Evict ==
  /\ mempool # {}
  /\ mempool' = {}
  /\ UNCHANGED <<records, command, sequence, committed, rejected, index>>

-----------------------------------------------------------------------------
\* What has been sent for requests is what is saved for them now, so that nothing
\* is done twice under one id: a command that is repeated after a lost answer or
\* a crash sends the saved bytes or none (Send in rpcguard/guard.go).
SentIsSaved ==
  \A tx \in mempool \cup committed :
    tx.payload \notin Plain => \E id \in Ids : records[id] # None /\ tx = Saved(id)

-----------------------------------------------------------------------------
\* What is sent without a request id is plain. A command that is about to send, or
\* has succeeded, has a saved attempt of its own operation under its id.
CommandFits(c) ==
  LET r == command[c]
  IN  /\ r.id = NoId => r.payload \in Plain
      /\ r.at = "open" => r.id # NoId
      /\ (r.at = "saved" \/ r.ok) /\ r.id # NoId =>
           records[r.id] # None /\ records[r.id].intent = r.payload

\* The invariant of the guard.
GuardInv ==
  /\ GuardTypeOK
  /\ \A c \in Callers : command[c] # None => CommandFits(c)
  /\ \A tx \in committed : tx.sequence < sequence
  /\ SentIsSaved

=============================================================================
