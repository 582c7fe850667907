---------------------------- MODULE JournalStore ----------------------------
(***************************************************************************)
(* The durable journal of one agent daemon (dev/agent/internal/txmanager,  *)
(* store.go, index.go, backup.go): what one bolt transaction writes, the   *)
(* index of unfinished intents, and the checks that a journal or an        *)
(* archive of it has to pass. A journal is a value here; the modules that  *)
(* use it keep the current one in a variable.                              *)
(***************************************************************************)
EXTENDS Naturals, Sequences

CONSTANTS
  KeyOrder,  \* the intents, in the order of their keys in the bucket
  None       \* no journal, no genesis hash, no index version

Intents == {KeyOrder[n] : n \in DOMAIN KeyOrder}

ASSUME KeyOrderAssumption == KeyOrder \in Seq(Intents) /\ KeyOrder # <<>>

Statuses == {"queued", "pending", "confirmed", "satisfied", "failed", "cancelled"}

Terminal(status) == status \in {"confirmed", "satisfied", "failed", "cancelled"}

\* Buckets meta, intents and active_intents of one database file.
EmptyJournal(identity) ==
  [identity |-> identity, genesis |-> None, version |-> None, rows |-> <<>>,
   index |-> {}]

-----------------------------------------------------------------------------
(***************************************************************************)
(* The index of unfinished intents                                         *)
(***************************************************************************)

\* Mutant: a failed intent counts as finished.
FailedIsInactive(row) == row.status \in {"queued", "pending"}

\* A failed intent stays active: it still has to be reconciled.
ActiveRow(row) == row.status \in {"queued", "pending", "failed"}

ActiveRows(j) == {i \in DOMAIN j.rows : ActiveRow(j.rows[i])}

\* Row and index entry are written by one database transaction.
Put(j, i, row) ==
  [j EXCEPT !.rows = [k \in DOMAIN @ \cup {i} |-> IF k = i THEN row ELSE @[k]],
            !.index = IF ActiveRow(row) THEN @ \cup {i} ELSE @ \ {i}]

\* A journal of the time before the index gets it when it is next opened.
MigrateIndexes(j) ==
  IF j.version = None
  THEN [j EXCEPT !.version = "1", !.index = ActiveRows(j)]
  ELSE j

\* The listing fails on an entry without a row or with a finished one.
Listable(j) == j.index \subseteq ActiveRows(j)

\* The listing keeps the order of the keys, which FirstKey stands for.
ListActive(j) == j.index

FirstKey(S) ==
  LET n == CHOOSE n \in DOMAIN KeyOrder :
             /\ KeyOrder[n] \in S
             /\ \A m \in DOMAIN KeyOrder : KeyOrder[m] \in S => n <= m
  IN KeyOrder[n]

ValidateIndexes(j) == j.version # None => j.index = ActiveRows(j)

-----------------------------------------------------------------------------
(***************************************************************************)
(* Opening, binding, archiving                                             *)
(***************************************************************************)

\* Opening creates the file, or refuses the journal of another agent.
Openable(j, identity) == j # None => j.identity = identity

Open(j, identity) ==
  MigrateIndexes(IF j = None THEN EmptyJournal(identity) ELSE j)

\* A journal that already has content is bound to a genesis only when the
\* operator names it.
Bindable(j, genesis, allowLegacy) ==
  \/ j.genesis = genesis
  \/ j.genesis = None /\ (allowLegacy \/ j.rows = <<>>)

BindGenesis(j, genesis) == [j EXCEPT !.genesis = genesis]

\* An intent's messages are those of its own case and kind.
ValidateMessages(i, row) == row.messages.intent = i

\* What makes a journal fit to be archived or used after a restore.
ManifestFor(j) ==
  [valid |-> /\ j.genesis # None
             /\ \A i \in DOMAIN j.rows :
                  /\ j.rows[i].status \in Statuses
                  /\ ValidateMessages(i, j.rows[i])
             /\ ValidateIndexes(j),
   identity |-> j.identity, genesis |-> j.genesis]

\* An archive carries the manifest of the journal inside it; the operator
\* keeps the checksum of the whole.
Archive(j) == [manifest |-> ManifestFor(j), journal |-> j, sealed |-> TRUE]

\* Restoring compares the checksum and both the manifest and the journal with
\* the identity and genesis that the operator expects.
Restorable(a, identity, genesis) ==
  /\ a.sealed
  /\ a.manifest.identity = identity
  /\ a.manifest.genesis = genesis
  /\ ManifestFor(a.journal).valid
  /\ a.journal.identity = identity
  /\ a.journal.genesis = genesis

=============================================================================
