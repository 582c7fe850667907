-------------------------- MODULE TxManagerProofs --------------------------
(***************************************************************************)
(* Proofs about the transaction manager, for any intents, requests and     *)
(* bounds: the journal in use is sound, its outcomes are true on chain,    *)
(* and whatever can still execute is journaled, competes for one sequence  *)
(* number and is not a second execution of its intent.                     *)
(***************************************************************************)
EXTENDS TxManager, WellFoundedInduction, TLAPS

\* Some natural numbers have a least one.
LEMMA LeastNatural ==
  ASSUME NEW S \in SUBSET Nat, S # {}
  PROVE  \E x \in S : \A y \in S : x <= y
<1>1. \E x \in S : \A y \in S : ~(<<y, x>> \in OpToRel(<, Nat))
  BY NatLessThanWellFounded, WFMin
<1>2. OpToRel(<, Nat) = {ss \in Nat \X Nat : ss[1] < ss[2]}
  BY Zenon DEF OpToRel
<1> HIDE DEF OpToRel
<1> DEFINE Less == {ss \in Nat \X Nat : ss[1] < ss[2]}
<1>3. PICK x \in S : \A y \in S : ~(<<y, x>> \in Less)
  BY <1>1, <1>2, Zenon
<1>4. ASSUME NEW y \in S, ~(x <= y) PROVE FALSE
  <2>1. <<y, x>> \in Nat \X Nat /\ y < x
    BY <1>4
  <2>2. <<y, x>> \in Less
    BY <2>1
  <2>3. QED
    BY <1>3, <2>2
<1>5. QED
  BY <1>4

-----------------------------------------------------------------------------
(***************************************************************************)
(* The journal as a value                                                  *)
(***************************************************************************)

\* The rows that a Step looks at have a first one in key order (ListActive).
LEMMA FirstKeyIsListed ==
  ASSUME NEW S \in SUBSET Intents, S # {}
  PROVE  FirstKey(S) \in S
<1> DEFINE At == {n \in DOMAIN KeyOrder : KeyOrder[n] \in S}
<1>1. DOMAIN KeyOrder \subseteq Nat
  BY KeyOrderAssumption
<1>2. At \in SUBSET Nat
  BY <1>1
<1>3. At # {}
  BY DEF Intents
<1>4. PICK n \in At : \A m \in At : n <= m
  <2> HIDE DEF At
  <2> QED
    BY <1>2, <1>3, LeastNatural
<1> DEFINE Least(k) == /\ KeyOrder[k] \in S
                       /\ \A m \in DOMAIN KeyOrder : KeyOrder[m] \in S => k <= m
<1>5. n \in DOMAIN KeyOrder /\ Least(n)
  BY <1>4
<1> DEFINE first == CHOOSE k \in DOMAIN KeyOrder : Least(k)
<1>6. Least(first)
  <2> HIDE DEF Least
  <2> QED
    BY <1>5
<1>7. FirstKey(S) = KeyOrder[first]
  BY Zenon DEF FirstKey
<1>8. QED
  BY <1>6, <1>7

\* Writing a fitting row keeps the journal fit and its index exact (store.go Put).
LEMMA PutFits ==
  ASSUME NEW j, JournalFits(j), NEW i \in Intents, NEW row, RowFits(i, row)
  PROVE  /\ JournalFits(Put(j, i, row))
         /\ Put(j, i, row).identity = j.identity
         /\ Put(j, i, row).genesis = j.genesis
         /\ j.index = ActiveRows(j) =>
              Put(j, i, row).index = ActiveRows(Put(j, i, row))
         /\ DOMAIN Put(j, i, row).rows = DOMAIN j.rows \cup {i}
         /\ Put(j, i, row).rows[i] = row
         /\ \A k \in DOMAIN j.rows : k # i => Put(j, i, row).rows[k] = j.rows[k]
<1> DEFINE p == Put(j, i, row)
           rows == [k \in DOMAIN j.rows \cup {i} |->
                      IF k = i THEN row ELSE j.rows[k]]
           index == IF ActiveRow(row) THEN j.index \cup {i} ELSE j.index \ {i}
<1>3. p = [identity |-> j.identity, genesis |-> j.genesis,
           version |-> j.version, rows |-> rows, index |-> index]
  <2>1. p = [j EXCEPT !.rows = rows, !.index = index]
    BY DEF Put
  <2>2. QED
    BY <2>1, Zenon DEF JournalFits
<1> HIDE DEF p
<1>4. row \in Intent /\ j.rows \in [DOMAIN j.rows -> Intent]
  BY Zenon DEF JournalFits, RowFits
<1>5. rows \in [DOMAIN rows -> Intent] /\ DOMAIN rows \subseteq Intents
  BY <1>4 DEF JournalFits
<1>6. \A k \in DOMAIN rows : RowFits(k, rows[k])
  BY DEF JournalFits
<1>7. ActiveRows(p) = IF ActiveRow(row) THEN ActiveRows(j) \cup {i}
                                        ELSE ActiveRows(j) \ {i}
  BY <1>3 DEF ActiveRows
<1>8. j.index = ActiveRows(j) => p.index = ActiveRows(p)
  BY <1>3, <1>7
<1>9. index \in SUBSET Intents
  BY DEF JournalFits
<1>10. JournalFits(p)
  <2> HIDE DEF rows, index
  <2>1. p.rows = rows /\ p.index = index /\ p.version = j.version
    BY <1>3
  <2>2. p \in [identity : {Me, "another agent"}, genesis : {None, Genesis},
               version : {None, "1"}, rows : [DOMAIN rows -> Intent],
               index : SUBSET Intents]
    BY <1>3, <1>5, <1>9 DEF JournalFits
  <2>3. j.version # None => j.index = ActiveRows(j)
    BY DEF JournalFits
  <2>4. QED
    BY <1>5, <1>6, <1>8, <2>1, <2>2, <2>3, Zenon DEF JournalFits
<1>11. QED
  BY <1>3, <1>8, <1>10 DEF p

-----------------------------------------------------------------------------
(***************************************************************************)
(* Rows                                                                    *)
(***************************************************************************)

\* A row that differs in its status and in what is known of its attempts.
SameAttempts(row, new) ==
  /\ new \in Intent
  /\ new.messages = row.messages
  /\ new.recoveries = row.recoveries
  /\ DOMAIN new.attempts = DOMAIN row.attempts
  /\ \A n \in DOMAIN row.attempts : new.attempts[n].tx = row.attempts[n].tx

\* The fields of an intent (types of manager.go).
LEMMA IntentFields ==
  ASSUME NEW row \in Intent
  PROVE  /\ row = [status |-> row.status, messages |-> row.messages,
                   attempts |-> row.attempts, recoveries |-> row.recoveries]
         /\ row.status \in Statuses
         /\ row.messages \in Messages
         /\ row.attempts \in Seq(Attempt)
         /\ row.recoveries \in Seq(Requests)
         /\ Len(row.attempts) \in Nat
         /\ DOMAIN row.attempts = 1..Len(row.attempts)
         /\ \A n \in DOMAIN row.attempts : row.attempts[n] \in Attempt
         /\ row.attempts # <<>> => /\ Len(row.attempts) \in DOMAIN row.attempts
                                   /\ Last(row) \in Attempt
<1>1. /\ row = [status |-> row.status, messages |-> row.messages,
                attempts |-> row.attempts, recoveries |-> row.recoveries]
      /\ row.status \in Statuses
      /\ row.messages \in Messages
      /\ row.attempts \in Seq(Attempt)
      /\ row.recoveries \in Seq(Requests)
  BY DEF Intent
<1> DEFINE s == row.attempts
<1>2. s \in Seq(Attempt)
  BY <1>1
<1> HIDE DEF s
<1>3. /\ Len(s) \in Nat
      /\ DOMAIN s = 1..Len(s)
      /\ \A n \in DOMAIN s : s[n] \in Attempt
      /\ s # <<>> => Len(s) \in DOMAIN s
  BY <1>2
<1>4. QED
  BY <1>1, <1>3 DEF s, Last

\* Two fields of an intent are set at once.
LEMMA RowChange ==
  ASSUME NEW row \in Intent, NEW status, NEW atts
  PROVE  [row EXCEPT !.status = status, !.attempts = atts]
           = [status |-> status, messages |-> row.messages,
              attempts |-> atts, recoveries |-> row.recoveries]
<1>1. PICK mid : mid = [row EXCEPT !.status = status]
  OBVIOUS
<1>2. [row EXCEPT !.status = status, !.attempts = atts]
        = [mid EXCEPT !.attempts = atts]
  BY <1>1, Zenon
<1>3. mid = [status |-> status, messages |-> row.messages,
             attempts |-> row.attempts, recoveries |-> row.recoveries]
  BY <1>1 DEF Intent
<1>4. [mid EXCEPT !.attempts = atts]
        = [status |-> status, messages |-> row.messages,
           attempts |-> atts, recoveries |-> row.recoveries]
  BY <1>3
<1>5. QED
  BY <1>2, <1>4

\* Another status and other knowledge of the attempts keep a row an intent.
LEMMA RowWith ==
  ASSUME NEW row \in Intent, NEW status \in Statuses,
         NEW atts \in [DOMAIN row.attempts -> Attempt],
         \A n \in DOMAIN row.attempts : atts[n].tx = row.attempts[n].tx,
         NEW new, new = [status |-> status, messages |-> row.messages,
                         attempts |-> atts, recoveries |-> row.recoveries]
  PROVE  /\ SameAttempts(row, new)
         /\ new.status = status
         /\ new.attempts = atts
<1>1. /\ row = [status |-> row.status, messages |-> row.messages,
                attempts |-> row.attempts, recoveries |-> row.recoveries]
      /\ row.messages \in Messages
      /\ row.recoveries \in Seq(Requests)
      /\ Len(row.attempts) \in Nat
      /\ DOMAIN row.attempts = 1..Len(row.attempts)
  BY IntentFields
<1>2. atts \in Seq(Attempt) /\ DOMAIN atts = DOMAIN row.attempts
  BY <1>1
<1>3. new \in Intent
  BY <1>1, <1>2 DEF Intent
<1>4. SameAttempts(row, new)
  BY <1>2, <1>3 DEF SameAttempts
<1>5. QED
  BY <1>4

\* Only the last attempt is marked (setAttempt of manager.go).
LEMMA LastWith ==
  ASSUME NEW row \in Intent, row.attempts # <<>>, NEW status \in Statuses,
         NEW a \in Attempt, a.tx = Last(row).tx,
         NEW new, new = [status |-> status, messages |-> row.messages,
                         attempts |-> [row.attempts EXCEPT
                                         ![Len(row.attempts)] = a],
                         recoveries |-> row.recoveries]
  PROVE  /\ SameAttempts(row, new)
         /\ new.status = status
         /\ new.attempts # <<>> /\ Last(new) = a
<1> DEFINE k == Len(row.attempts)
           atts == [row.attempts EXCEPT ![k] = a]
<1>1. /\ row.attempts \in Seq(Attempt)
      /\ k \in DOMAIN row.attempts
      /\ DOMAIN row.attempts = 1..k
      /\ \A n \in DOMAIN row.attempts : row.attempts[n] \in Attempt
  BY IntentFields
<1>2. /\ atts \in [DOMAIN row.attempts -> Attempt]
      /\ \A n \in DOMAIN row.attempts : atts[n].tx = row.attempts[n].tx
      /\ atts[k] = a
  BY <1>1 DEF Last
<1>3. Len(atts) = k
  <2>1. atts \in [1..k -> Attempt] /\ k \in Nat
    BY <1>1, <1>2
  <2> HIDE DEF atts, k
  <2>2. QED
    BY <2>1
<1>4. new = [status |-> status, messages |-> row.messages,
             attempts |-> atts, recoveries |-> row.recoveries]
  OBVIOUS
<1> HIDE DEF atts
<1>5. /\ SameAttempts(row, new)
      /\ new.status = status
      /\ new.attempts = atts
  BY <1>2, <1>4, RowWith
<1>6. QED
  BY <1>1, <1>2, <1>3, <1>5 DEF Last

\* A result, or that there will be none, leaves an attempt's bytes alone.
LEMMA AttemptMarked ==
  ASSUME NEW a \in Attempt
  PROVE  /\ Resolve(a) \in Attempt /\ Resolve(a).tx = a.tx
         /\ Resolve(a).resolved
         /\ \A code \in CheckCodes :
              [a EXCEPT !.check = code] \in Attempt
              /\ [a EXCEPT !.check = code].tx = a.tx
         /\ results[a.tx] \in Codes =>
              WithResult(a) \in Attempt /\ WithResult(a).tx = a.tx
  BY DEF Attempt, Resolve, WithResult

-----------------------------------------------------------------------------
(***************************************************************************)
(* What the manager makes of a row                                         *)
(***************************************************************************)

CodesFit == \A done \in DOMAIN results : results[done] \in Codes

\* A finished row is finished for what the chain shows at one height.
OutcomeAt(i, row, at) ==
  /\ row.status = "confirmed" =>
       \E n \in DOMAIN row.attempts :
         /\ row.attempts[n].tx \in DOMAIN results
         /\ results[row.attempts[n].tx] = "ok"
  /\ row.status = "satisfied" => i \in at.effect
  /\ row.status = "cancelled" => i \in at.obsolete

\* An intent is settled only for what the height shows (settle in manager.go).
LEMMA SettleHolds ==
  ASSUME NEW row \in Intent, NEW i, NEW at,
         Satisfied(i, at) \/ ErrObsolete(i, at)
  PROVE  /\ SameAttempts(row, Settle(i, row, at))
         /\ OutcomeAt(i, Settle(i, row, at), at)
<1> DEFINE status == IF Satisfied(i, at) THEN "satisfied" ELSE "cancelled"
           new == [status |-> status, messages |-> row.messages,
                   attempts |-> row.attempts, recoveries |-> row.recoveries]
<1>1. Settle(i, row, at) = new
  BY DEF Settle, Intent
<1>2. status \in Statuses
  BY DEF Statuses
<1>3. row.attempts \in [DOMAIN row.attempts -> Attempt]
  BY IntentFields
<1>4. SameAttempts(row, new)
  <2> HIDE DEF status
  <2>1. QED
    BY <1>2, <1>3, RowWith
<1>5. new.status = status
  OBVIOUS
<1> HIDE DEF new
<1>6. OutcomeAt(i, new, at)
  BY <1>5 DEF OutcomeAt, Satisfied, ErrObsolete
<1>7. QED
  BY <1>1, <1>4, <1>6

\* Reconciling changes what is known of a row and nothing else, and finishes it
\* only for a result or an effect that the chain shows (reconcile in manager.go).
LEMMA ReconcileHolds ==
  ASSUME CodesFit, NEW row \in Intent, NEW i, NEW at,
         NEW r, r = Reconcile(i, row, at)
  PROVE  /\ SameAttempts(row, r.row)
         /\ r.outcome = "done" => OutcomeAt(i, r.row, at)
         /\ r.outcome = "open" => r.row.status = row.status
<1> DEFINE tx(n) == row.attempts[n].tx
           found == {n \in DOMAIN row.attempts : Found(tx(n))}
           stops == {n \in found : tx(n) \notin at.included \/ Executed(tx(n))}
           first == CHOOSE n \in stops : \A m \in stops : n <= m
           upTo(k) == [n \in DOMAIN row.attempts |->
                         IF n \in found /\ n <= k THEN WithResult(row.attempts[n])
                         ELSE row.attempts[n]]
           whole == upTo(Len(row.attempts))
           seen == [row EXCEPT !.attempts = whole]
           done == [row EXCEPT !.status = "confirmed", !.attempts = upTo(first)]
<1>1. Reconcile(i, row, at) =
        IF stops # {} /\ tx(first) \notin at.included
        THEN [outcome |-> "error", row |-> row]
        ELSE IF stops # {}
        THEN [outcome |-> "done", row |-> done]
        ELSE IF Satisfied(i, at) \/ ErrObsolete(i, at)
        THEN [outcome |-> "done", row |-> Settle(i, seen, at)]
        ELSE [outcome |-> "open", row |-> seen]
  BY Zenon DEF Reconcile
<1>2. /\ row.status \in Statuses
      /\ DOMAIN row.attempts \in SUBSET Nat
      /\ \A n \in DOMAIN row.attempts : row.attempts[n] \in Attempt
  BY IntentFields
<1>3. \A n \in found : results[tx(n)] \in Codes
  BY DEF Found, CodesFit
<1>4. ASSUME NEW k
      PROVE  /\ upTo(k) \in [DOMAIN row.attempts -> Attempt]
             /\ \A n \in DOMAIN row.attempts : upTo(k)[n].tx = row.attempts[n].tx
  <2>1. ASSUME NEW n \in DOMAIN row.attempts
        PROVE  upTo(k)[n] \in Attempt /\ upTo(k)[n].tx = row.attempts[n].tx
    <3>1. CASE n \in found /\ n <= k
      <4>1. WithResult(row.attempts[n]) \in Attempt
            /\ WithResult(row.attempts[n]).tx = row.attempts[n].tx
        BY <1>2, <1>3, <3>1, AttemptMarked
      <4>2. upTo(k)[n] = WithResult(row.attempts[n])
        BY <3>1
      <4>3. QED
        BY <4>1, <4>2
    <3>2. CASE ~(n \in found /\ n <= k)
      BY <1>2, <3>2
    <3>3. QED
      BY <3>1, <3>2
  <2>2. QED
    BY <2>1
<1>5. SameAttempts(row, row)
  BY DEF SameAttempts
<1> HIDE DEF upTo
<1>6. SameAttempts(row, seen) /\ seen.status = row.status
  <2>1. seen = [status |-> row.status, messages |-> row.messages,
                attempts |-> whole, recoveries |-> row.recoveries]
    BY IntentFields
  <2>2. /\ whole \in [DOMAIN row.attempts -> Attempt]
        /\ \A n \in DOMAIN row.attempts : whole[n].tx = row.attempts[n].tx
    BY <1>4
  <2> HIDE DEF whole, seen
  <2>3. QED
    BY <1>2, <2>1, <2>2, RowWith
<1>7. ASSUME stops # {}
      PROVE  /\ SameAttempts(row, done)
             /\ done.status = "confirmed"
             /\ first \in stops
  <2>1. done = [status |-> "confirmed", messages |-> row.messages,
                attempts |-> upTo(first), recoveries |-> row.recoveries]
    BY RowChange, Zenon
  <2>2. /\ upTo(first) \in [DOMAIN row.attempts -> Attempt]
        /\ \A n \in DOMAIN row.attempts : upTo(first)[n].tx = row.attempts[n].tx
    BY <1>4
  <2>3. first \in stops
    <3>1. stops \in SUBSET Nat
      BY <1>2
    <3> HIDE DEF stops
    <3>2. \E n \in stops : \A m \in stops : n <= m
      BY <1>7, <3>1, LeastNatural
    <3>3. QED
      BY <3>2
  <2> HIDE DEF first, done
  <2>4. "confirmed" \in Statuses
    BY DEF Statuses
  <2>5. QED
    BY <2>1, <2>2, <2>3, <2>4, RowWith
<1> HIDE DEF seen, done
<1>8. CASE stops # {} /\ tx(first) \notin at.included
  <2>1. r = [outcome |-> "error", row |-> row]
    BY <1>1, <1>8
  <2>2. QED
    BY <1>5, <2>1
<1>9. CASE stops # {} /\ ~(tx(first) \notin at.included)
  <2>1. r = [outcome |-> "done", row |-> done]
    BY <1>1, <1>9
  <2>2. /\ first \in DOMAIN row.attempts
        /\ row.attempts[first].tx \in DOMAIN results
        /\ results[row.attempts[first].tx] = "ok"
    BY <1>7, <1>9 DEF Found, Executed
  <2>3. /\ first \in DOMAIN done.attempts
        /\ done.attempts[first].tx \in DOMAIN results
        /\ results[done.attempts[first].tx] = "ok"
    BY <1>7, <1>9, <2>2 DEF SameAttempts
  <2> HIDE DEF stops, first
  <2>4. OutcomeAt(i, done, at)
    BY <1>7, <1>9, <2>3 DEF OutcomeAt
  <2>5. QED
    BY <1>7, <1>9, <2>1, <2>4
<1>10. CASE stops = {} /\ (Satisfied(i, at) \/ ErrObsolete(i, at))
  <2>1. r = [outcome |-> "done", row |-> Settle(i, seen, at)]
    BY <1>1, <1>10
  <2>2. seen \in Intent
    BY <1>6 DEF SameAttempts
  <2>3. /\ SameAttempts(seen, Settle(i, seen, at))
        /\ OutcomeAt(i, Settle(i, seen, at), at)
    BY <1>10, <2>2, SettleHolds
  <2>4. SameAttempts(row, Settle(i, seen, at))
    BY <1>6, <2>3 DEF SameAttempts
  <2>5. QED
    BY <2>1, <2>3, <2>4
<1>11. CASE stops = {} /\ ~(Satisfied(i, at) \/ ErrObsolete(i, at))
  <2>1. r = [outcome |-> "open", row |-> seen]
    BY <1>1, <1>11
  <2>2. QED
    BY <1>6, <2>1
<1>12. QED
  BY <1>8, <1>9, <1>10, <1>11

\* The status "pending", "failed" or "queued" claims nothing of the chain.
LEMMA UnfinishedHolds ==
  ASSUME NEW i, NEW row, row.status \in {"queued", "pending", "failed"}
  PROVE  OutcomeHolds(i, row)
BY DEF OutcomeHolds

\* A lookup of the last attempt confirms a row only if it executed (HandleIntent,
\* reconcileLast).
LEMMA LookupHolds ==
  ASSUME CodesFit, NEW row \in Intent, NEW i,
         NEW r, r = LookupLast(row)
  PROVE  /\ SameAttempts(row, r.row)
         /\ r.outcome = "done" => OutcomeHolds(i, r.row)
         /\ r.outcome = "open" => r.row.status = row.status
<1>1. SameAttempts(row, row)
  BY DEF SameAttempts
<1> DEFINE open == row.attempts = <<>> \/ Last(row).resolved \/ ~Found(Last(row).tx)
           seen == [row EXCEPT !.attempts[Len(row.attempts)] = WithResult(@)]
           done == [seen EXCEPT !.status = "confirmed"]
<1>2. LookupLast(row) =
        IF open THEN [outcome |-> "open", row |-> row]
        ELSE IF Last(row).tx \notin snap.included
             THEN [outcome |-> "wait", row |-> row]
             ELSE IF Executed(Last(row).tx)
             THEN [outcome |-> "done", row |-> done]
             ELSE [outcome |-> "open", row |-> seen]
  BY Zenon DEF LookupLast
<1>3. ASSUME ~open
      PROVE  /\ SameAttempts(row, seen) /\ seen.status = row.status
             /\ seen.attempts # <<>> /\ Last(seen).tx = Last(row).tx
  <2> DEFINE a == WithResult(Last(row))
             atts == [row.attempts EXCEPT ![Len(row.attempts)] = a]
  <2>1. row.status \in Statuses /\ Last(row) \in Attempt
    BY <1>3, IntentFields
  <2>2. results[Last(row).tx] \in Codes
    BY <1>3 DEF Found, CodesFit
  <2>3. a \in Attempt /\ a.tx = Last(row).tx
    BY <2>1, <2>2, AttemptMarked
  <2>4. seen = [row EXCEPT !.attempts = atts]
    BY Zenon DEF Last
  <2> HIDE DEF a, seen
  <2>5. seen = [status |-> row.status, messages |-> row.messages,
                attempts |-> atts, recoveries |-> row.recoveries]
    <3> HIDE DEF atts
    <3>1. row = [status |-> row.status, messages |-> row.messages,
                 attempts |-> row.attempts, recoveries |-> row.recoveries]
      BY IntentFields
    <3>2. QED
      BY <2>4, <3>1
  <2>6. SameAttempts(row, seen) /\ seen.status = row.status
        /\ seen.attempts # <<>> /\ Last(seen) = a
    BY <1>3, <2>1, <2>3, <2>5, LastWith
  <2>7. QED
    BY <2>3, <2>6
<1> HIDE DEF seen
<1>4. CASE open
  BY <1>1, <1>2, <1>4
<1>5. CASE ~open /\ Last(row).tx \notin snap.included
  BY <1>1, <1>2, <1>5
<1>6. CASE ~open /\ Last(row).tx \in snap.included /\ Executed(Last(row).tx)
  <2>1. r = [outcome |-> "done", row |-> done]
    BY <1>2, <1>6
  <2>2. seen \in Intent
    BY <1>3, <1>6 DEF SameAttempts
  <2>3. done = [status |-> "confirmed", messages |-> seen.messages,
                attempts |-> seen.attempts, recoveries |-> seen.recoveries]
    BY <2>2, IntentFields
  <2>4. seen.attempts \in [DOMAIN seen.attempts -> Attempt]
    BY <2>2, IntentFields
  <2>5. "confirmed" \in Statuses
    BY DEF Statuses
  <2> HIDE DEF done
  <2>6. SameAttempts(seen, done) /\ done.status = "confirmed"
        /\ done.attempts = seen.attempts
    BY <2>2, <2>3, <2>4, <2>5, RowWith
  <2>7. SameAttempts(row, done)
    BY <1>3, <1>6, <2>6 DEF SameAttempts
  <2>8. Len(seen.attempts) \in DOMAIN seen.attempts
    BY <1>3, <1>6, <2>2, IntentFields
  <2>9. /\ done.attempts[Len(seen.attempts)].tx \in DOMAIN results
        /\ results[done.attempts[Len(seen.attempts)].tx] = "ok"
    BY <1>3, <1>6, <2>6 DEF Last, Found, Executed
  <2>10. OutcomeHolds(i, done)
    BY <2>6, <2>8, <2>9 DEF OutcomeHolds
  <2>11. QED
    BY <2>1, <2>7, <2>10
<1>7. CASE ~open /\ Last(row).tx \in snap.included /\ ~Executed(Last(row).tx)
  <2>1. r = [outcome |-> "open", row |-> seen]
    BY <1>2, <1>7
  <2>2. QED
    BY <1>3, <1>7, <2>1
<1>8. QED
  BY <1>4, <1>5, <1>6, <1>7

\* Marking the last attempt as resolved (resumeFenced, recoverFenced).
LEMMA ResolveLastHolds ==
  ASSUME NEW row \in Intent, row.attempts # <<>>,
         NEW new, new = [row EXCEPT !.status = "queued",
                           !.attempts[Len(row.attempts)] = Resolve(@)]
  PROVE  SameAttempts(row, new) /\ new.status = "queued"
<1> DEFINE a == Resolve(Last(row))
           atts == [row.attempts EXCEPT ![Len(row.attempts)] = a]
<1>1. Last(row) \in Attempt
  BY IntentFields
<1>2. a \in Attempt /\ a.tx = Last(row).tx
  BY <1>1, AttemptMarked
<1>3. new = [row EXCEPT !.status = "queued", !.attempts = atts]
  BY Zenon DEF Last
<1> HIDE DEF a
<1>4. new = [status |-> "queued", messages |-> row.messages,
             attempts |-> atts, recoveries |-> row.recoveries]
  BY <1>3, RowChange, Zenon
<1>5. "queued" \in Statuses
  BY DEF Statuses
<1>6. QED
  BY <1>2, <1>4, <1>5, LastWith

\* An intent that was fenced keeps its attempts when it is resumed.
LEMMA ResumeFencedHolds ==
  ASSUME NEW row \in Intent
  PROVE  /\ SameAttempts(row, ResumeFenced(row))
         /\ ResumeFenced(row).status \in {row.status, "queued"}
<1>1. CASE /\ row.attempts # <<>>
           /\ FencedMemo(Last(row).tx)
           /\ ~Last(row).resolved \/ Last(row).code = "fenced"
  <2> DEFINE new == [row EXCEPT !.status = "queued",
                       !.attempts[Len(row.attempts)] = Resolve(@)]
  <2>1. ResumeFenced(row) = new
    BY <1>1, Zenon DEF ResumeFenced
  <2>2. \E x : x = new
    OBVIOUS
  <2> HIDE DEF new
  <2>3. PICK x : x = new
    BY <2>2
  <2>4. SameAttempts(row, x) /\ x.status = "queued"
    BY <1>1, <2>3, ResolveLastHolds, Zenon DEF new
  <2>5. QED
    BY <2>1, <2>3, <2>4
<1>2. CASE ~(/\ row.attempts # <<>>
             /\ FencedMemo(Last(row).tx)
             /\ ~Last(row).resolved \/ Last(row).code = "fenced")
  <2>1. ResumeFenced(row) = row
    BY <1>2, Zenon DEF ResumeFenced
  <2>2. QED
    BY <2>1 DEF SameAttempts
<1>3. QED
  BY <1>1, <1>2

\* A row that has kept its attempts and may have got one more, with the bytes tx.
Extends(row, new, tx) ==
  /\ new \in Intent
  /\ new.messages = row.messages
  /\ new.recoveries = row.recoveries
  /\ DOMAIN row.attempts \subseteq DOMAIN new.attempts
  /\ \A n \in DOMAIN row.attempts : new.attempts[n].tx = row.attempts[n].tx
  /\ \A n \in DOMAIN new.attempts :
       n \notin DOMAIN row.attempts => new.attempts[n].tx = tx

\* The next attempt is the old one, or one signed for the sequence number of
\* the height that the Step reads (sign in manager.go).
LEMMA NextAttemptHolds ==
  ASSUME NEW row \in Intent, memo \in Nat, snap.seq \in Nat
  PROVE  /\ Extends(row, NextAttempt(row), Sign(row).tx)
         /\ NextAttempt(row).status \in {row.status, "failed", "pending"}
         /\ NextAttempt(row).attempts # <<>>
<1>1. /\ row.attempts \in Seq(Attempt) /\ row.messages \in Messages
      /\ row.recoveries \in Seq(Requests)
  BY IntentFields
<1>2. CASE ~NeedsSignature(row)
  <2>1. NextAttempt(row) = row
    BY <1>2, Zenon DEF NextAttempt
  <2>2. QED
    BY <1>2, <2>1 DEF NeedsSignature, Extends
<1>3. CASE /\ NeedsSignature(row)
           /\ row.attempts # <<>> /\ Last(row).resolved /\ row.status # "queued"
  <2> DEFINE new == [row EXCEPT !.status = "failed"]
  <2>1. NextAttempt(row) = new
    BY <1>3, Zenon DEF NextAttempt
  <2>2. new = [status |-> "failed", messages |-> row.messages,
               attempts |-> row.attempts, recoveries |-> row.recoveries]
    BY IntentFields
  <2>3. "failed" \in Statuses
    BY DEF Statuses
  <2>4. row.attempts \in [DOMAIN row.attempts -> Attempt]
    BY IntentFields
  <2> HIDE DEF new
  <2>5. /\ SameAttempts(row, new) /\ new.status = "failed"
        /\ new.attempts = row.attempts
    BY <2>2, <2>3, <2>4, RowWith
  <2>6. QED
    BY <1>3, <2>1, <2>5 DEF SameAttempts, Extends
<1>4. CASE /\ NeedsSignature(row)
           /\ ~(row.attempts # <<>> /\ Last(row).resolved /\ row.status # "queued")
  <2> DEFINE s == row.attempts
             a == Sign(row)
             atts == Append(s, a)
             new == [row EXCEPT !.status = "pending", !.attempts = atts]
  <2>1. NextAttempt(row) = new
    BY <1>4, Zenon DEF NextAttempt
  <2>2. a \in Attempt
    <3>1. [messages |-> row.messages, seq |-> snap.seq, epoch |-> memo] \in Tx
      BY <1>1 DEF Tx
    <3>2. QED
      BY <3>1 DEF Sign, Attempt
  <2>3. s \in Seq(Attempt)
    BY <1>1
  <2> HIDE DEF s, a
  <2>4. /\ atts \in Seq(Attempt) /\ atts # <<>>
        /\ DOMAIN s \subseteq DOMAIN atts
        /\ \A n \in DOMAIN s : atts[n] = s[n]
        /\ \A n \in DOMAIN atts : n \notin DOMAIN s => atts[n] = a
    BY <2>2, <2>3
  <2> HIDE DEF atts
  <2>5. new = [status |-> "pending", messages |-> row.messages,
               attempts |-> atts, recoveries |-> row.recoveries]
    BY RowChange, Zenon
  <2> HIDE DEF new
  <2>6. "pending" \in Statuses
    BY DEF Statuses
  <2>7. new \in Intent
    BY <1>1, <2>4, <2>5, <2>6 DEF Intent
  <2>8. Extends(row, new, a.tx)
    BY <2>4, <2>5, <2>7 DEF Extends, s
  <2>9. QED
    BY <2>1, <2>4, <2>5, <2>8 DEF a
<1>5. QED
  BY <1>2, <1>3, <1>4

\* A retry keeps the bytes of the earlier attempts, which are all resolved
\* (Recover in manager.go).
LEMMA PreparedIs ==
  ASSUME NEW row \in Intent
  PROVE  LET messages == IF row.messages.intent \in Evidence
                         THEN [row.messages EXCEPT !.version = @ + 1]
                         ELSE row.messages
         IN Prepared(row) =
              [status |-> "queued", messages |-> messages,
               attempts |-> [n \in DOMAIN row.attempts |-> Resolve(row.attempts[n])],
               recoveries |-> row.recoveries]
<1> DEFINE messages == IF row.messages.intent \in Evidence
                       THEN [row.messages EXCEPT !.version = @ + 1]
                       ELSE row.messages
           atts == [n \in DOMAIN row.attempts |-> Resolve(row.attempts[n])]
<1>1. Prepare(row) = [status |-> row.status, messages |-> messages,
                      attempts |-> row.attempts, recoveries |-> row.recoveries]
  <2>1. CASE row.messages.intent \in Evidence
    <3> DEFINE m == [row.messages EXCEPT !.version = @ + 1]
    <3>1. Prepare(row) = [row EXCEPT !.messages = m]
      BY <2>1, Zenon DEF Prepare
    <3>2. messages = m
      BY <2>1
    <3> HIDE DEF m, messages
    <3>3. QED
      BY <3>1, <3>2, IntentFields
  <2>2. CASE row.messages.intent \notin Evidence
    BY <2>2, IntentFields DEF Prepare
  <2>3. QED
    BY <2>1, <2>2
<1> HIDE DEF messages
<1>2. PICK p : p = Prepare(row)
  OBVIOUS
<1>3. p.attempts = row.attempts
  BY <1>1, <1>2
<1>4. Prepared(row) = [p EXCEPT !.status = "queued", !.attempts = atts]
  BY <1>2, <1>3, Zenon DEF Prepared
<1> HIDE DEF atts
<1>5. PICK mid : mid = [p EXCEPT !.status = "queued"]
  OBVIOUS
<1>6. mid = [status |-> "queued", messages |-> messages,
             attempts |-> row.attempts, recoveries |-> row.recoveries]
  BY <1>1, <1>2, <1>5
<1>7. Prepared(row) = [mid EXCEPT !.attempts = atts]
  BY <1>4, <1>5, Zenon
<1>8. Prepared(row) = [status |-> "queued", messages |-> messages,
                       attempts |-> atts, recoveries |-> row.recoveries]
  BY <1>6, <1>7
<1>9. QED
  BY <1>8 DEF atts, messages

\* A row keeps its shape when an attempt at its own intent is added.
LEMMA ExtendsFits ==
  ASSUME NEW i, NEW row, RowFits(i, row), NEW tx, tx.messages.intent = i,
         NEW new, Extends(row, new, tx)
  PROVE  RowFits(i, new)
BY DEF RowFits, Extends

\* A row that keeps its attempts fits if it did before.
LEMMA SameFits ==
  ASSUME NEW i, NEW row, RowFits(i, row), NEW new, SameAttempts(row, new)
  PROVE  RowFits(i, new)
BY DEF RowFits, SameAttempts

-----------------------------------------------------------------------------
(***************************************************************************)
(* What is true of the chain stays true                                    *)
(***************************************************************************)

\* No step takes an effect or a result back, and what executes newly has the
\* sequence number that the account was at.
ChainGrows ==
  /\ seq \in Nat /\ seq' \in Nat /\ seq <= seq'
  /\ epoch \in Nat /\ epoch' \in Nat /\ epoch <= epoch'
  /\ effect \subseteq effect' /\ obsolete \subseteq obsolete'
  /\ \A done \in DOMAIN results :
       done \in DOMAIN results' /\ results'[done] = results[done]
  /\ \A done \in DOMAIN results' :
       results'[done] = "ok" =>
         \/ done \in DOMAIN results /\ results[done] = "ok"
         \/ done \in Tx /\ done.seq >= seq

\* A signed transaction stays one that nothing of its intent has overtaken.
LEMMA TxGrows ==
  ASSUME ChainGrows, NEW tx, TxFits(tx)
  PROVE  TxFits(tx)'
<1>1. tx \in Tx /\ tx.seq \in Nat /\ tx.epoch \in Nat
  BY DEF TxFits, Tx
<1>2. tx.seq <= seq' /\ tx.epoch <= epoch'
  BY <1>1 DEF TxFits, ChainGrows
<1>3. ASSUME NEW done \in DOMAIN results', results'[done] = "ok",
             done.messages.intent = tx.messages.intent
      PROVE  tx.seq <= done.seq
  <2>1. CASE done \in DOMAIN results /\ results[done] = "ok"
    BY <1>3, <2>1 DEF TxFits
  <2>2. CASE done \in Tx /\ done.seq >= seq
    <3>1. done.seq \in Nat /\ seq \in Nat /\ tx.seq <= seq
      BY <2>2 DEF Tx, TxFits, ChainGrows
    <3>2. QED
      BY <1>1, <2>2, <3>1
  <2>3. QED
    BY <1>3, <2>1, <2>2 DEF ChainGrows
<1>4. QED
  BY <1>1, <1>2, <1>3 DEF TxFits

\* What a row says of the chain stays true.
LEMMA RowGrows ==
  ASSUME ChainGrows, NEW i, NEW row, RowHolds(i, row)
  PROVE  RowHolds(i, row)'
<1>1. ASSUME NEW n \in DOMAIN row.attempts
      PROVE  TxFits(row.attempts[n].tx)'
  <2>1. PICK tx : tx = row.attempts[n].tx
    OBVIOUS
  <2>2. TxFits(tx)
    BY <2>1 DEF RowHolds
  <2>3. TxFits(tx)'
    BY <2>2, TxGrows
  <2>4. QED
    BY <2>1, <2>3
<1>2. OutcomeHolds(i, row)
  BY DEF RowHolds
<1>3. OutcomeHolds(i, row)'
  BY <1>2 DEF OutcomeHolds, ChainGrows
<1>4. QED
  BY <1>1, <1>3 DEF RowHolds

\* And so does what an old journal says of it.
LEMMA JournalGrows ==
  ASSUME ChainGrows, NEW j, JournalHolds(j)
  PROVE  JournalHolds(j)'
<1>1. ASSUME NEW i \in DOMAIN j.rows
      PROVE  RowHolds(i, j.rows[i])'
  <2>1. PICK row : row = j.rows[i]
    OBVIOUS
  <2>2. RowHolds(i, row)'
    BY <2>1, RowGrows DEF JournalHolds
  <2>3. QED
    BY <2>1, <2>2
<1>2. JournalFits(j)'
  BY DEF JournalHolds
<1>3. QED
  BY <1>1, <1>2 DEF JournalHolds

\* The height that a Step has read stays one of the past.
LEMMA SnapGrows ==
  ASSUME ChainGrows, SnapHolds, snap' = snap
  PROVE  SnapHolds'
<1>1. snap.seq \in Nat /\ snap.seq <= seq'
  BY DEF ChainGrows, SnapHolds
<1>2. snap.effect \subseteq effect' /\ snap.obsolete \subseteq obsolete'
  BY DEF ChainGrows, SnapHolds
<1>3. ASSUME NEW done \in DOMAIN results', results'[done] = "ok",
             done.messages.intent \notin snap.effect
      PROVE  done.seq >= snap.seq
  <2>1. CASE done \in DOMAIN results /\ results[done] = "ok"
    BY <1>3, <2>1 DEF SnapHolds
  <2>2. CASE done \in Tx /\ done.seq >= seq
    <3>1. done.seq \in Nat /\ seq \in Nat /\ snap.seq <= seq
      BY <2>2 DEF Tx, SnapHolds, ChainGrows
    <3>2. QED
      BY <1>1, <2>2, <3>1
  <2>3. QED
    BY <1>3, <2>1, <2>2 DEF ChainGrows
<1>4. QED
  BY <1>1, <1>2, <1>3 DEF SnapHolds

\* A block uses a sequence number up, which leaves nothing in the mempool that
\* could still pass (the ante handler and the recheck).
LEMMA CommitHolds ==
  ASSUME ChainInv, NEW own, NEW e \in Nat, epoch <= e,
         DOMAIN own \subseteq mempool,
         \A tx \in DOMAIN own :
           /\ own[tx] \in Codes
           /\ own[tx] = "ok" => tx.seq = seq /\ tx.messages.intent \in effect',
         effect \subseteq effect', obsolete \subseteq obsolete',
         Commit(own, seq + 1, e)
  PROVE  ChainGrows /\ ChainInv' /\ mempool' = {}
<1> DEFINE stale == {tx \in mempool : tx \notin DOMAIN own /\ Stale(tx, seq + 1, e)}
<1>1. /\ seq' = seq + 1 /\ epoch' = e
      /\ mempool' = mempool \ (stale \cup DOMAIN own)
  BY DEF Commit
<1>2. PICK refused \in SUBSET stale :
        results' = [tx \in DOMAIN own \cup refused \cup DOMAIN results |->
                      IF tx \in DOMAIN own THEN own[tx]
                      ELSE IF tx \in refused THEN Refusal(tx, e)
                      ELSE results[tx]]
  BY DEF Commit
<1>3. /\ seq \in Nat /\ epoch \in Nat
      /\ mempool \cap DOMAIN results = {}
      /\ \A tx \in mempool \cup DOMAIN results : TxFits(tx)
      /\ \A done \in DOMAIN results :
           /\ results[done] \in Codes
           /\ results[done] = "ok" => done.messages.intent \in effect
  BY DEF ChainInv
<1>4. \A tx \in mempool : tx \in Tx /\ tx.seq \in Nat /\ tx.seq <= seq
  BY <1>3 DEF TxFits, Tx
<1>5. mempool' = {}
  <2>1. \A tx \in mempool : Stale(tx, seq + 1, e)
    BY <1>3, <1>4 DEF Stale
  <2>2. QED
    BY <1>1, <2>1
<1>6. \A tx \in mempool : Refusal(tx, e) \in Codes /\ Refusal(tx, e) # "ok"
  BY DEF Refusal, Codes, CheckCodes
<1> HIDE DEF stale
<1>7. refused \subseteq mempool
  BY <1>2 DEF stale
<1>8. DOMAIN results' = DOMAIN own \cup refused \cup DOMAIN results
  BY <1>2
<1>9. \A done \in DOMAIN results :
        done \in DOMAIN results' /\ results'[done] = results[done]
  BY <1>2, <1>3, <1>7
<1>10. ASSUME NEW done \in DOMAIN results'
       PROVE  /\ done \in mempool \cup DOMAIN results
              /\ results'[done] \in Codes
              /\ results'[done] = "ok" =>
                   /\ done.messages.intent \in effect'
                   /\ \/ done \in DOMAIN results /\ results[done] = "ok"
                      \/ done \in Tx /\ done.seq >= seq
  <2>1. CASE done \in DOMAIN own
    <3>1. results'[done] = own[done]
      BY <1>2, <2>1
    <3>2. QED
      BY <1>3, <1>4, <2>1, <3>1
  <2>2. CASE done \notin DOMAIN own /\ done \in refused
    <3>1. results'[done] = Refusal(done, e)
      BY <1>2, <2>2
    <3>2. QED
      BY <1>6, <1>7, <2>2, <3>1
  <2>3. CASE done \notin DOMAIN own /\ done \notin refused /\ done \in DOMAIN results
    BY <1>3, <1>9, <2>3
  <2>4. QED
    BY <1>8, <2>1, <2>2, <2>3
<1>11. ChainGrows
  BY <1>1, <1>3, <1>9, <1>10 DEF ChainGrows
<1>12. ASSUME NEW done \in DOMAIN results' PROVE TxFits(done)'
  BY <1>3, <1>10, <1>11, <1>12, TxGrows
<1>13. ChainInv'
  BY <1>1, <1>3, <1>5, <1>10, <1>12 DEF ChainInv
<1>14. QED
  BY <1>5, <1>11, <1>13

\* With no new block, only the mempool and what others do can change.
LEMMA QuietChain ==
  ASSUME ChainInv, seq' = seq, epoch' = epoch, results' = results,
         effect \subseteq effect', obsolete \subseteq obsolete'
  PROVE  /\ ChainGrows
         /\ \A tx : TxFits(tx) => TxFits(tx)'
         /\ \A done \in DOMAIN results' :
              /\ TxFits(done)'
              /\ results'[done] \in Codes
              /\ results'[done] = "ok" => done.messages.intent \in effect'
<1>1. seq \in Nat /\ epoch \in Nat
  BY DEF ChainInv
<1>2. ChainGrows
  BY <1>1 DEF ChainGrows
<1>3. \A tx : TxFits(tx) => TxFits(tx)'
  BY <1>2, TxGrows
<1>4. QED
  BY <1>2, <1>3 DEF ChainInv

\* With the same journal and archive, what they say stays true.
LEMMA NothingSaved ==
  ASSUME TxInv, ChainGrows, UNCHANGED <<journal, archive>>
  PROVE  /\ StoreInv'
         /\ memo # 0 => InUse(journal)'
         /\ \A tx : Journaled(tx) => Journaled(tx)'
<1> USE DEF TxInv
<1>1. PICK j : j = journal
  OBVIOUS
<1>2. PICK a : a = archive.journal
  OBVIOUS
<1>3. JournalHolds(j) => JournalHolds(j)'
  BY JournalGrows
<1>4. JournalHolds(a) => JournalHolds(a)'
  BY JournalGrows
<1>5. j = journal' /\ a = archive'.journal
  BY <1>1, <1>2
<1>6. StoreInv'
  <2>1. journal # None => JournalHolds(j) /\ journal.identity = Me
    BY <1>1 DEF StoreInv
  <2>2. archive # None => JournalHolds(a)
    BY <1>2 DEF StoreInv
  <2>3. QED
    BY <1>3, <1>4, <1>5, <2>1, <2>2 DEF StoreInv
<1>7. memo # 0 => InUse(journal)'
  BY <1>1, <1>3, <1>5 DEF ProcessInv, InUse
<1>8. QED
  BY <1>6, <1>7 DEF Journaled

\* The journal, the archive and the process do not notice what happens outside.
LEMMA OutsideHolds ==
  ASSUME TxInv, ChainGrows, journal' = journal, archive' = archive,
         UNCHANGED procVars
  PROVE  StoreInv' /\ ProcessInv'
<1> USE DEF TxInv
<1>1. StoreInv' /\ (memo # 0 => InUse(journal)')
  BY NothingSaved
<1>2. memo \in Nat /\ memo <= epoch'
  BY DEF ProcessInv, ChainGrows
<1>3. pc # "idle" => SnapHolds'
  BY SnapGrows DEF ProcessInv, procVars
<1>4. memo' = memo /\ pc' = pc /\ todo' = todo /\ held' = held
  BY DEF procVars
<1>5. /\ pc' # "idle" => todo' \subseteq DOMAIN journal'.rows
      /\ pc' = "send" => /\ todo' # {}
                         /\ held' = journal'.rows[FirstKey(todo')]
                         /\ held'.attempts # <<>>
  BY <1>4 DEF ProcessInv
<1>6. memo = 0 => pc = "idle"
  BY DEF ProcessInv
<1>7. ProcessInv'
  BY <1>1, <1>2, <1>3, <1>4, <1>5, <1>6 DEF ProcessInv
<1>8. QED
  BY <1>1, <1>7

\* A transaction reaches a block.
LEMMA DeliverHolds ==
  ASSUME TxInv, NEW tx \in mempool, DeliverTx(tx)
  PROVE  TxInv'
<1> USE DEF TxInv
<1>1. PICK code \in {"ok", "retry", "reject"}, late \in BOOLEAN :
        /\ code = "ok" => tx.messages.intent \notin effect
        /\ Commit([own \in {tx} |-> code], seq + 1, epoch)
        /\ effect' = IF code = "ok" THEN effect \cup {tx.messages.intent} ELSE effect
        /\ unindexed' = IF late THEN unindexed \cup {tx} ELSE unindexed
        /\ Count(late \/ (code # "ok" /\ tx.messages.intent \notin effect))
  BY DEF DeliverTx
<1> DEFINE own == [x \in {tx} |-> code]
<1>2. tx.seq = seq /\ UNCHANGED <<journal, archive, procVars, obsolete>>
  BY DEF DeliverTx
<1>3. /\ DOMAIN own \subseteq mempool
      /\ \A x \in DOMAIN own : own[x] = code /\ x = tx
      /\ code \in Codes
  BY DEF Codes, CheckCodes
<1>4. effect \subseteq effect' /\ code = "ok" => tx.messages.intent \in effect'
  BY <1>1
<1>5. epoch \in Nat
  BY DEF ChainInv
<1>6. Commit(own, seq + 1, epoch)
  BY <1>1, Zenon
<1> HIDE DEF own
<1>7. ChainGrows /\ ChainInv'
  BY <1>1, <1>2, <1>3, <1>4, <1>5, <1>6, CommitHolds
<1>8. StoreInv' /\ ProcessInv'
  BY <1>2, <1>7, OutsideHolds DEF procVars
<1>9. QED
  BY <1>7, <1>8

\* Another transaction of the account or another epoch is committed.
LEMMA OtherTxHolds ==
  ASSUME TxInv, NEW e, OtherTx(e)
  PROVE  TxInv'
<1> USE DEF TxInv
<1>1. epoch \in Nat
  BY DEF ChainInv
<1>2. e \in Nat /\ epoch <= e
  BY <1>1 DEF OtherTx
<1>3. /\ Commit(<<>>, seq + 1, e)
      /\ UNCHANGED <<journal, archive, procVars, effect, obsolete, unindexed>>
  BY DEF OtherTx
<1>4. DOMAIN <<>> = {}
  OBVIOUS
<1>5. ChainGrows /\ ChainInv'
  BY <1>2, <1>3, <1>4, CommitHolds
<1>6. StoreInv' /\ ProcessInv'
  BY <1>3, <1>5, OutsideHolds DEF procVars
<1>7. QED
  BY <1>5, <1>6

\* Transactions that leave the mempool, and effects of other agents.
LEMMA OtherEventsHold ==
  ASSUME TxInv, UNCHANGED <<journal, archive, procVars, seq, epoch, results>>,
         effect \subseteq effect', obsolete \subseteq obsolete',
         mempool' \subseteq mempool
  PROVE  TxInv'
<1> USE DEF TxInv
<1>1. /\ ChainGrows
      /\ \A tx : TxFits(tx) => TxFits(tx)'
      /\ \A done \in DOMAIN results' :
           /\ TxFits(done)'
           /\ results'[done] \in Codes
           /\ results'[done] = "ok" => done.messages.intent \in effect'
  BY QuietChain
<1>2. StoreInv' /\ ProcessInv'
  BY <1>1, OutsideHolds DEF procVars
<1>3. \A tx : Journaled(tx) => Journaled(tx)'
  BY DEF Journaled
<1>4. ChainInv'
  <2>1. \A tx \in mempool' \cup DOMAIN results' : TxFits(tx)'
    BY <1>1 DEF ChainInv
  <2>2. memo' # 0 => \A tx \in mempool' : tx.epoch = memo' => Journaled(tx)'
    BY <1>3 DEF ChainInv, procVars
  <2>3. QED
    BY <1>1, <2>1, <2>2 DEF ChainInv
<1>5. QED
  BY <1>2, <1>4

-----------------------------------------------------------------------------
(***************************************************************************)
(* Writing to the journal                                                  *)
(***************************************************************************)

Kept(row, new) ==
  \A n \in DOMAIN row.attempts :
    n \in DOMAIN new.attempts /\ new.attempts[n].tx = row.attempts[n].tx

\* A row that keeps its attempts has nothing else to show.
LEMMA SameHolds ==
  ASSUME NEW i, NEW row, RowHolds(i, row),
         NEW new, SameAttempts(row, new), OutcomeHolds(i, new)
  PROVE  RowHolds(i, new) /\ Kept(row, new)
BY DEF RowHolds, SameAttempts, Kept

\* A row with one more attempt holds if the attempt fits.
LEMMA ExtendsHolds ==
  ASSUME NEW i, NEW row, RowHolds(i, row), NEW tx, TxFits(tx),
         NEW new, Extends(row, new, tx), OutcomeHolds(i, new)
  PROVE  RowHolds(i, new) /\ Kept(row, new)
<1>1. ASSUME NEW n \in DOMAIN new.attempts PROVE TxFits(new.attempts[n].tx)
  <2>1. CASE n \in DOMAIN row.attempts
    BY <2>1 DEF RowHolds, Extends
  <2>2. CASE n \notin DOMAIN row.attempts
    BY <2>2 DEF Extends
  <2>3. QED
    BY <2>1, <2>2
<1>2. QED
  BY <1>1 DEF RowHolds, Extends, Kept

\* The journal in use, and the row of an intent that is in it.
LEMMA RowsInUse ==
  ASSUME InUse(journal), NEW i \in DOMAIN journal.rows
  PROVE  /\ i \in Intents
         /\ RowFits(i, journal.rows[i]) /\ RowHolds(i, journal.rows[i])
         /\ journal.rows[i] \in Intent
BY DEF InUse, JournalHolds, JournalFits, RowFits

\* Saving a row that is true keeps the journal sound, forgets no transaction,
\* and leaves the index exact (store.go Put).
LEMMA SaveHolds ==
  ASSUME StoreInv, InUse(journal), ChainGrows, archive' = archive,
         NEW i \in Intents, NEW row, RowFits(i, row), RowHolds(i, row)',
         i \in DOMAIN journal.rows => Kept(journal.rows[i], row),
         Save(i, row)
  PROVE  /\ StoreInv' /\ InUse(journal)'
         /\ \A tx : Journaled(tx) => Journaled(tx)'
         /\ DOMAIN journal'.rows = DOMAIN journal.rows \cup {i}
         /\ journal'.rows[i] = row
<1>1. PICK j : j = journal
  OBVIOUS
<1>2. PICK p : p = Put(j, i, row)
  OBVIOUS
<1>3. JournalHolds(j) /\ JournalFits(j) /\ JournalHolds(j)'
  BY <1>1, JournalGrows DEF InUse, JournalHolds
<1>4. /\ JournalFits(p)
      /\ p.identity = j.identity /\ p.genesis = j.genesis
      /\ j.index = ActiveRows(j) => p.index = ActiveRows(p)
      /\ DOMAIN p.rows = DOMAIN j.rows \cup {i}
      /\ p.rows[i] = row
      /\ \A k \in DOMAIN j.rows : k # i => p.rows[k] = j.rows[k]
  BY <1>2, <1>3, PutFits
<1>5. p = journal'
  BY <1>1, <1>2 DEF Save
<1>6. JournalHolds(p)'
  <2>1. ASSUME NEW k \in DOMAIN p.rows PROVE RowHolds(k, p.rows[k])'
    <3>1. CASE k = i
      BY <1>4, <3>1
    <3>2. CASE k # i
      <4>1. k \in DOMAIN j.rows /\ p.rows[k] = j.rows[k]
        BY <1>4, <3>2
      <4>2. RowHolds(k, j.rows[k])'
        BY <1>3, <4>1 DEF JournalHolds
      <4>3. QED
        BY <4>1, <4>2
    <3>3. QED
      BY <3>1, <3>2
  <2>2. JournalFits(p)'
    BY <1>4
  <2>3. QED
    BY <2>1, <2>2 DEF JournalHolds
<1>7. InUse(journal)'
  <2>1. p.identity = Me /\ p.genesis = Genesis /\ p.index = ActiveRows(p)
    BY <1>1, <1>4 DEF InUse
  <2>2. InUse(p)'
    BY <1>6, <2>1 DEF InUse
  <2>3. QED
    BY <1>5, <2>2
<1>8. StoreInv'
  <2>1. PICK a : a = archive.journal
    OBVIOUS
  <2>2. archive # None => JournalHolds(a)'
    BY <2>1, JournalGrows DEF StoreInv
  <2>3. a = archive'.journal
    BY <2>1
  <2>4. archive' # None => JournalHolds(archive.journal)'
    BY <2>2, <2>3
  <2>5. QED
    BY <1>7, <2>4 DEF StoreInv, InUse
<1>9. ASSUME NEW tx, Journaled(tx) PROVE Journaled(tx)'
  <2> DEFINE k == tx.messages.intent
  <2>1. k \in DOMAIN j.rows /\ \E n \in DOMAIN j.rows[k].attempts :
                                 j.rows[k].attempts[n].tx = tx
    BY <1>1, <1>9 DEF Journaled
  <2>2. k \in DOMAIN p.rows /\ \E n \in DOMAIN p.rows[k].attempts :
                                 p.rows[k].attempts[n].tx = tx
    <3>1. CASE k = i
      <4>1. Kept(j.rows[k], row) /\ p.rows[k] = row
        BY <1>1, <1>4, <2>1, <3>1
      <4>2. QED
        BY <1>4, <2>1, <4>1 DEF Kept
    <3>2. CASE k # i
      BY <1>4, <2>1, <3>2
    <3>3. QED
      BY <3>1, <3>2
  <2>3. QED
    BY <1>5, <2>2 DEF Journaled
<1>10. QED
  BY <1>1, <1>4, <1>5, <1>7, <1>8, <1>9

\* How a step of the process leaves everything in order when no block is made.
LEMMA ProcessStepHolds ==
  ASSUME TxInv, memo # 0, memo' = memo, UNCHANGED <<seq, epoch, results>>,
         effect \subseteq effect', obsolete \subseteq obsolete',
         StoreInv', InUse(journal)', \A tx : Journaled(tx) => Journaled(tx)',
         \A tx \in mempool' :
           tx \in mempool \/ (/\ tx \notin DOMAIN results
                              /\ TxFits(tx) /\ Journaled(tx)'),
         pc' # "idle" => SnapHolds' /\ todo' \subseteq DOMAIN journal'.rows,
         pc' = "send" => /\ todo' # {}
                         /\ held' = journal'.rows[FirstKey(todo')]
                         /\ held'.attempts # <<>>
  PROVE  TxInv'
<1> USE DEF TxInv
<1>1. /\ \A tx : TxFits(tx) => TxFits(tx)'
      /\ \A done \in DOMAIN results' :
           /\ TxFits(done)'
           /\ results'[done] \in Codes
           /\ results'[done] = "ok" => done.messages.intent \in effect'
  BY QuietChain
<1>2. ProcessInv'
  <2>1. memo' \in Nat /\ memo' <= epoch'
    BY DEF ProcessInv
  <2>2. QED
    BY <2>1 DEF ProcessInv
<1>3. ChainInv'
  <2>1. \A tx \in mempool' : TxFits(tx)' /\ tx \notin DOMAIN results'
    BY <1>1 DEF ChainInv
  <2>2. \A tx \in mempool' : tx.epoch = memo' => Journaled(tx)'
    BY DEF ChainInv
  <2>3. seq' \in Nat /\ epoch' \in Nat
    BY DEF ChainInv
  <2>4. QED
    BY <1>1, <2>1, <2>2, <2>3 DEF ChainInv
<1>4. QED
  BY <1>2, <1>3

-----------------------------------------------------------------------------
(***************************************************************************)
(* Step                                                                    *)
(***************************************************************************)

\* The first row of a running Step.
LEMMA FirstRow ==
  ASSUME ProcessInv, pc # "idle", todo # {}
  PROVE  /\ memo # 0 /\ InUse(journal)
         /\ FirstKey(todo) \in todo
         /\ FirstKey(todo) \in DOMAIN journal.rows
         /\ FirstKey(todo) \in Intents
<1>1. memo # 0 /\ InUse(journal) /\ todo \subseteq DOMAIN journal.rows
  BY DEF ProcessInv
<1>2. todo \subseteq Intents
  BY <1>1, RowsInUse
<1>3. QED
  BY <1>1, <1>2, FirstKeyIsListed

\* A step starts with the intents that are active.
LEMMA StepBeginHolds ==
  ASSUME TxInv, StepBegin
  PROVE  TxInv'
<1> USE DEF TxInv
<1>1. /\ memo # 0 /\ memo' = memo
      /\ pc' = "scan" /\ snap' = Ledger /\ todo' = journal.index
      /\ UNCHANGED <<journal, archive, seq, epoch, effect, obsolete, results>>
      /\ mempool' = mempool
  BY DEF StepBegin, ListActive, chainVars
<1>2. ChainGrows
  BY <1>1, QuietChain
<1>3. /\ StoreInv' /\ InUse(journal)'
      /\ \A tx : Journaled(tx) => Journaled(tx)'
  BY <1>1, <1>2, NothingSaved
<1>4. SnapHolds'
  <2>1. /\ snap'.seq = seq /\ snap'.effect = effect /\ snap'.obsolete = obsolete
    BY <1>1 DEF Ledger
  <2>2. seq \in Nat /\ \A done \in DOMAIN results :
                         results[done] = "ok" => done.messages.intent \in effect
    BY DEF ChainInv
  <2>3. QED
    BY <1>1, <2>1, <2>2 DEF SnapHolds
<1>5. todo' \subseteq DOMAIN journal'.rows
  BY <1>1 DEF ProcessInv, InUse, ActiveRows
<1>6. QED
  BY <1>1, <1>3, <1>4, <1>5, ProcessStepHolds

\* Step returns without writing anything.
LEMMA StepReturnsHolds ==
  ASSUME TxInv, pc # "idle", EndStep, UNCHANGED <<journal, archive, chainVars>>,
         \A tx \in mempool' :
           tx \in mempool \/ (/\ tx \notin DOMAIN results
                              /\ TxFits(tx) /\ Journaled(tx))
  PROVE  TxInv'
<1> USE DEF TxInv
<1>1. /\ memo # 0 /\ memo' = memo /\ pc' = "idle"
      /\ UNCHANGED <<journal, archive, seq, epoch, effect, obsolete, results>>
  BY DEF EndStep, chainVars, ProcessInv
<1>2. ChainGrows
  BY <1>1, QuietChain
<1>3. /\ StoreInv' /\ InUse(journal)'
      /\ \A tx : Journaled(tx) => Journaled(tx)'
  BY <1>1, <1>2, NothingSaved
<1>4. QED
  BY <1>1, <1>3, ProcessStepHolds

\* Step saves a row that is true and returns.
LEMMA StepSavesHolds ==
  ASSUME TxInv, pc # "idle", EndStep, UNCHANGED <<archive, chainVars>>,
         NEW i \in Intents, NEW row, RowFits(i, row), RowHolds(i, row),
         i \in DOMAIN journal.rows => Kept(journal.rows[i], row),
         Save(i, row),
         \A tx \in mempool' :
           tx \in mempool \/ (/\ tx \notin DOMAIN results
                              /\ TxFits(tx) /\ Journaled(tx))
  PROVE  TxInv'
<1> USE DEF TxInv
<1>1. /\ memo # 0 /\ memo' = memo /\ pc' = "idle" /\ InUse(journal)
      /\ UNCHANGED <<archive, seq, epoch, effect, obsolete, results>>
  BY DEF EndStep, chainVars, ProcessInv
<1>2. ChainGrows
  BY <1>1, QuietChain
<1>3. RowHolds(i, row)'
  BY <1>2, RowGrows
<1>4. /\ StoreInv' /\ InUse(journal)'
      /\ \A tx : Journaled(tx) => Journaled(tx)'
  BY <1>1, <1>2, <1>3, SaveHolds
<1>5. QED
  BY <1>1, <1>4, ProcessStepHolds

\* What is done at the height of a Step is done.
LEMMA SnapOutcome ==
  ASSUME SnapHolds, NEW i, NEW row, OutcomeAt(i, row, snap)
  PROVE  OutcomeHolds(i, row)
BY DEF SnapHolds, OutcomeAt, OutcomeHolds

\* A failed intent is reconciled with the chain.
LEMMA ReconcileFailedHolds ==
  ASSUME TxInv, ReconcileFailed
  PROVE  TxInv'
<1> USE DEF TxInv
<1>1. pc = "scan" /\ todo # {} /\ UNCHANGED <<archive, chainVars, mempool, faults>>
  BY DEF ReconcileFailed
<1>2. PICK i : i = FirstKey(todo)
  OBVIOUS
<1>3. /\ memo # 0 /\ InUse(journal)
      /\ i \in todo /\ i \in DOMAIN journal.rows /\ i \in Intents
  BY <1>1, <1>2, FirstRow
<1>4. PICK row : row = journal.rows[i]
  OBVIOUS
<1>5. RowFits(i, row) /\ RowHolds(i, row) /\ row \in Intent
  BY <1>3, <1>4, RowsInUse
<1>6. PICK r : r = Reconcile(i, row, snap)
  OBVIOUS
<1>7. CodesFit
  BY DEF ChainInv, CodesFit
<1>8. SnapHolds
  BY <1>1 DEF ProcessInv
<1>9. /\ SameAttempts(row, r.row)
      /\ r.outcome = "done" => OutcomeAt(i, r.row, snap)
      /\ r.outcome = "open" => r.row.status = row.status
  <2>1. PICK at : at = snap
    OBVIOUS
  <2>2. r = Reconcile(i, row, at)
    BY <1>6, <2>1
  <2>3. QED
    BY <1>5, <1>7, <2>1, <2>2, ReconcileHolds
<1> DEFINE again == [r.row EXCEPT !.status = "queued",
                       !.attempts[Len(row.attempts)] = Resolve(@)]
<1>10. \/ r.outcome = "error" /\ EndStep /\ UNCHANGED journal
       \/ /\ r.outcome = "done"
          /\ Save(i, r.row)
          /\ todo' = todo \ {i} /\ UNCHANGED <<memo, pc, snap, held>>
       \/ /\ r.outcome = "open" /\ DefinitelyFenced(r.row)
          /\ Save(i, again) /\ EndStep
       \/ /\ r.outcome = "open" /\ ~DefinitelyFenced(r.row)
          /\ todo' = todo \ {i} /\ UNCHANGED <<journal, memo, pc, snap, held>>
  BY <1>2, <1>4, <1>6, Zenon DEF ReconcileFailed
<1>11. UNCHANGED <<seq, epoch, effect, obsolete, results>>
  BY <1>1 DEF chainVars
<1>12. ChainGrows
  BY <1>11, QuietChain
<1>13. CASE r.outcome = "error" /\ EndStep /\ UNCHANGED journal
  BY <1>1, <1>13, StepReturnsHolds
<1>14. CASE /\ r.outcome = "done"
            /\ Save(i, r.row)
            /\ todo' = todo \ {i} /\ UNCHANGED <<memo, pc, snap, held>>
  <2>1. OutcomeHolds(i, r.row)
    BY <1>8, <1>9, <1>14, SnapOutcome
  <2>2. RowFits(i, r.row) /\ RowHolds(i, r.row) /\ Kept(row, r.row)
    BY <1>5, <1>9, <2>1, SameFits, SameHolds
  <2>3. PICK new : new = r.row
    OBVIOUS
  <2>4. RowHolds(i, new)'
    BY <1>12, <2>2, <2>3, RowGrows
  <2>5. /\ StoreInv' /\ InUse(journal)'
        /\ \A tx : Journaled(tx) => Journaled(tx)'
        /\ DOMAIN journal'.rows = DOMAIN journal.rows \cup {i}
    BY <1>1, <1>3, <1>4, <1>12, <1>14, <2>2, <2>3, <2>4, SaveHolds
  <2>6. SnapHolds'
    BY <1>8, <1>12, <1>14, SnapGrows
  <2>7. todo' \subseteq DOMAIN journal'.rows
    BY <1>1, <1>14, <2>5 DEF ProcessInv
  <2>8. memo' = memo /\ pc' = "scan" /\ mempool' = mempool
    BY <1>1, <1>14
  <2>9. QED
    BY <1>3, <1>11, <2>5, <2>6, <2>7, <2>8, ProcessStepHolds
<1>15. CASE /\ r.outcome = "open" /\ DefinitelyFenced(r.row)
            /\ Save(i, again) /\ EndStep
  <2>1. r.row \in Intent /\ r.row.attempts # <<>>
    BY <1>9, <1>15 DEF SameAttempts, DefinitelyFenced
  <2>2. Len(row.attempts) = Len(r.row.attempts)
    <3>1. /\ Len(row.attempts) \in Nat /\ Len(r.row.attempts) \in Nat
          /\ DOMAIN row.attempts = 1..Len(row.attempts)
          /\ DOMAIN r.row.attempts = 1..Len(r.row.attempts)
      BY <1>5, <2>1, IntentFields
    <3>2. 1..Len(row.attempts) = 1..Len(r.row.attempts)
      BY <1>9, <3>1 DEF SameAttempts
    <3>3. QED
      BY <3>1, <3>2
  <2>3. PICK found : found = r.row
    OBVIOUS
  <2>4. PICK new : new = again
    OBVIOUS
  <2>5. new = [found EXCEPT !.status = "queued",
                 !.attempts[Len(found.attempts)] = Resolve(@)]
    BY <2>2, <2>3, <2>4, Zenon
  <2>6. SameAttempts(found, new) /\ new.status = "queued"
    BY <2>1, <2>3, <2>5, ResolveLastHolds, Zenon
  <2>7. SameAttempts(row, new)
    BY <1>9, <2>3, <2>6 DEF SameAttempts
  <2>8. OutcomeHolds(i, new)
    BY <2>6, UnfinishedHolds
  <2>9. RowFits(i, new) /\ RowHolds(i, new) /\ Kept(row, new)
    BY <1>5, <2>7, <2>8, SameFits, SameHolds
  <2>10. Save(i, new)
    BY <1>15, <2>4, Zenon
  <2>11. QED
    BY <1>1, <1>3, <1>4, <1>15, <2>9, <2>10, StepSavesHolds
<1>16. CASE /\ r.outcome = "open" /\ ~DefinitelyFenced(r.row)
            /\ todo' = todo \ {i} /\ UNCHANGED <<journal, memo, pc, snap, held>>
  <2>1. /\ StoreInv' /\ InUse(journal)'
        /\ \A tx : Journaled(tx) => Journaled(tx)'
    BY <1>1, <1>3, <1>12, <1>16, NothingSaved
  <2>2. SnapHolds'
    BY <1>8, <1>12, <1>16, SnapGrows
  <2>3. todo' \subseteq DOMAIN journal'.rows
    BY <1>1, <1>16 DEF ProcessInv
  <2>4. memo' = memo /\ pc' = "scan" /\ mempool' = mempool
    BY <1>1, <1>16
  <2>5. QED
    BY <1>3, <1>11, <2>1, <2>2, <2>3, <2>4, ProcessStepHolds
<1>17. QED
  BY <1>10, <1>13, <1>14, <1>15, <1>16

\* A signed transaction is for a sequence number that no execution of its
\* intent has passed, because the height shows no effect of the intent.
LEMMA SignFits ==
  ASSUME ProcessInv, ChainInv, SnapHolds, NEW i, i \notin snap.effect,
         NEW row \in Intent, row.messages.intent = i
  PROVE  TxFits(Sign(row).tx) /\ Sign(row).tx.messages.intent = i
<1> DEFINE tx == [messages |-> row.messages, seq |-> snap.seq, epoch |-> memo]
<1>1. Sign(row).tx = tx
  BY DEF Sign
<1>2. row.messages \in Messages
  BY IntentFields
<1>3. tx \in Tx /\ tx.seq = snap.seq /\ tx.epoch = memo /\ tx.messages.intent = i
  BY <1>2 DEF Tx, ProcessInv, SnapHolds
<1> HIDE DEF tx
<1>4. tx.seq <= seq /\ tx.epoch <= epoch
  BY <1>3 DEF ProcessInv, SnapHolds
<1>5. ASSUME NEW done \in DOMAIN results, results[done] = "ok",
             done.messages.intent = tx.messages.intent
      PROVE  tx.seq <= done.seq
  <2>1. done.seq \in Nat
    BY DEF ChainInv, TxFits, Tx
  <2>2. done.seq >= snap.seq
    BY <1>3, <1>5 DEF SnapHolds
  <2>3. QED
    BY <1>3, <2>1, <2>2 DEF SnapHolds
<1>6. QED
  BY <1>1, <1>3, <1>4, <1>5 DEF TxFits

\* An intent is handled in its turn.
LEMMA HandleIntentHolds ==
  ASSUME TxInv, HandleIntent
  PROVE  TxInv'
<1> USE DEF TxInv
<1>1. pc = "scan" /\ todo # {} /\ UNCHANGED <<archive, chainVars, mempool, faults>>
  BY DEF HandleIntent
<1>2. PICK i : i = FirstKey(todo)
  OBVIOUS
<1>3. /\ memo # 0 /\ InUse(journal)
      /\ i \in todo /\ i \in DOMAIN journal.rows /\ i \in Intents
  BY <1>1, <1>2, FirstRow
<1>4. PICK old : old = journal.rows[i]
  OBVIOUS
<1>5. RowFits(i, old) /\ RowHolds(i, old) /\ old \in Intent
  BY <1>3, <1>4, RowsInUse
<1>6. PICK found : found = LookupLast(old)
  OBVIOUS
<1>7. PICK resumed : resumed = ResumeFenced(found.row)
  OBVIOUS
<1>8. PICK row : row = NextAttempt(resumed)
  OBVIOUS
<1>9. CodesFit /\ SnapHolds /\ memo \in Nat /\ snap.seq \in Nat
  BY <1>1 DEF ChainInv, CodesFit, ProcessInv, SnapHolds
<1>10. /\ SameAttempts(old, found.row)
       /\ found.outcome = "done" => OutcomeHolds(i, found.row)
       /\ found.outcome = "open" => found.row.status = old.status
  BY <1>5, <1>6, <1>9, LookupHolds
<1>11. found.row \in Intent
  BY <1>10 DEF SameAttempts
<1>12. /\ SameAttempts(found.row, resumed)
       /\ resumed.status \in {found.row.status, "queued"}
  BY <1>7, <1>11, ResumeFencedHolds
<1>13. SameAttempts(old, resumed) /\ resumed \in Intent
  BY <1>10, <1>12 DEF SameAttempts
<1>14. /\ Extends(resumed, row, Sign(resumed).tx)
       /\ row.status \in {resumed.status, "failed", "pending"}
       /\ row.attempts # <<>>
  BY <1>8, <1>9, <1>13, NextAttemptHolds
<1> DEFINE open == found.outcome = "open" /\ ~Satisfied(i, snap) /\ ~ErrObsolete(i, snap)
<1>15. /\ old.status \in {"queued", "pending"}
       /\ \/ found.outcome = "wait" /\ EndStep /\ UNCHANGED journal
          \/ found.outcome = "done" /\ Save(i, found.row) /\ EndStep
          \/ /\ found.outcome = "open" /\ ~open
             /\ Save(i, Settle(i, found.row, snap)) /\ EndStep
          \/ open /\ row.status = "failed" /\ Save(i, row) /\ EndStep
          \/ /\ open /\ row.status # "failed"
             /\ memo = epoch
             /\ Save(i, row)
             /\ pc' = "send" /\ held' = row /\ UNCHANGED <<memo, snap, todo>>
  BY <1>2, <1>4, <1>6, <1>7, <1>8, Zenon DEF HandleIntent, SaveBeforeSend
<1>16. ASSUME open
       PROVE  RowFits(i, row) /\ RowHolds(i, row) /\ Kept(old, row)
  <2>1. resumed.messages.intent = i /\ i \notin snap.effect
    BY <1>5, <1>13, <1>16 DEF RowFits, SameAttempts, Satisfied
  <2>2. TxFits(Sign(resumed).tx) /\ Sign(resumed).tx.messages.intent = i
    BY <1>9, <1>13, <2>1, SignFits
  <2>3. PICK tx : tx = Sign(resumed).tx
    OBVIOUS
  <2>4. RowFits(i, resumed) /\ RowHolds(i, resumed) /\ Kept(old, resumed)
    <3>1. resumed.status \in {"queued", "pending", "failed"}
      BY <1>10, <1>12, <1>15, <1>16
    <3>2. OutcomeHolds(i, resumed)
      BY <3>1, UnfinishedHolds
    <3>3. QED
      BY <1>5, <1>13, <3>2, SameFits, SameHolds
  <2>5. OutcomeHolds(i, row)
    <3>1. row.status \in {"queued", "pending", "failed"}
      BY <1>10, <1>12, <1>14, <1>15, <1>16
    <3>2. QED
      BY <3>1, UnfinishedHolds
  <2>6. RowFits(i, row)
    BY <1>14, <2>2, <2>3, <2>4, ExtendsFits
  <2>7. RowHolds(i, row) /\ Kept(resumed, row)
    BY <1>14, <2>2, <2>3, <2>4, <2>5, ExtendsHolds
  <2>8. QED
    BY <2>4, <2>6, <2>7 DEF Kept
<1>17. CASE found.outcome = "wait" /\ EndStep /\ UNCHANGED journal
  BY <1>1, <1>17, StepReturnsHolds
<1>18. CASE found.outcome = "done" /\ Save(i, found.row) /\ EndStep
  <2>1. RowFits(i, found.row) /\ RowHolds(i, found.row) /\ Kept(old, found.row)
    BY <1>5, <1>10, <1>18, SameFits, SameHolds
  <2>2. PICK new : new = found.row
    OBVIOUS
  <2>3. QED
    BY <1>1, <1>3, <1>4, <1>18, <2>1, <2>2, StepSavesHolds
<1>19. CASE /\ found.outcome = "open" /\ ~open
            /\ Save(i, Settle(i, found.row, snap)) /\ EndStep
  <2>1. PICK at : at = snap
    OBVIOUS
  <2>2. PICK new : new = Settle(i, found.row, at)
    OBVIOUS
  <2>3. SameAttempts(found.row, new) /\ OutcomeAt(i, new, at)
    BY <1>11, <1>19, <2>1, <2>2, SettleHolds
  <2>4. SameAttempts(old, new)
    BY <1>10, <2>3 DEF SameAttempts
  <2>5. OutcomeHolds(i, new)
    BY <1>9, <2>1, <2>3, SnapOutcome
  <2>6. RowFits(i, new) /\ RowHolds(i, new) /\ Kept(old, new)
    BY <1>5, <2>4, <2>5, SameFits, SameHolds
  <2>7. Save(i, new)
    BY <1>19, <2>1, <2>2
  <2>8. QED
    BY <1>1, <1>3, <1>4, <1>19, <2>6, <2>7, StepSavesHolds
<1>20. CASE open /\ row.status = "failed" /\ Save(i, row) /\ EndStep
  BY <1>1, <1>3, <1>4, <1>16, <1>20, StepSavesHolds
<1>21. CASE /\ open /\ row.status # "failed"
            /\ memo = epoch
            /\ Save(i, row)
            /\ pc' = "send" /\ held' = row /\ UNCHANGED <<memo, snap, todo>>
  <2>1. UNCHANGED <<archive, seq, epoch, effect, obsolete, results>>
    BY <1>1 DEF chainVars
  <2>2. ChainGrows
    BY <2>1, QuietChain
  <2>3. RowHolds(i, row)'
    BY <1>16, <1>21, <2>2, RowGrows
  <2>4. /\ StoreInv' /\ InUse(journal)'
        /\ \A tx : Journaled(tx) => Journaled(tx)'
        /\ DOMAIN journal'.rows = DOMAIN journal.rows \cup {i}
        /\ journal'.rows[i] = row
    BY <1>3, <1>4, <1>16, <1>21, <2>1, <2>2, <2>3, SaveHolds
  <2>5. SnapHolds'
    BY <1>9, <1>21, <2>2, SnapGrows
  <2>6. todo' \subseteq DOMAIN journal'.rows
    BY <1>1, <1>21, <2>4 DEF ProcessInv
  <2>7. /\ todo' # {}
        /\ held' = journal'.rows[FirstKey(todo')]
        /\ held'.attempts # <<>>
    BY <1>1, <1>2, <1>14, <1>21, <2>4
  <2>8. mempool' = mempool /\ memo' = memo
    BY <1>1, <1>21
  <2>9. QED
    BY <1>3, <2>1, <2>4, <2>5, <2>6, <2>7, <2>8, ProcessStepHolds
<1>22. QED
  BY <1>15, <1>17, <1>18, <1>19, <1>20, <1>21

\* The bytes that are about to be sent are those of the journal.
LEMMA HeldIsJournaled ==
  ASSUME TxInv, pc = "send"
  PROVE  /\ FirstKey(todo) \in DOMAIN journal.rows
         /\ held = journal.rows[FirstKey(todo)] /\ held.attempts # <<>>
         /\ TxFits(Last(held).tx) /\ Journaled(Last(held).tx)
<1> USE DEF TxInv
<1>1. PICK i : i = FirstKey(todo)
  OBVIOUS
<1>2. todo # {} /\ held = journal.rows[i] /\ held.attempts # <<>>
  BY <1>1 DEF ProcessInv
<1>3. InUse(journal) /\ i \in DOMAIN journal.rows
  BY <1>1, <1>2, FirstRow
<1>4. RowFits(i, held) /\ RowHolds(i, held) /\ held \in Intent
  BY <1>2, <1>3, RowsInUse
<1>5. PICK n : n = Len(held.attempts)
  OBVIOUS
<1>6. n \in DOMAIN held.attempts /\ Last(held) = held.attempts[n]
  BY <1>2, <1>4, <1>5, IntentFields DEF Last
<1>7. TxFits(Last(held).tx) /\ Last(held).tx.messages.intent = i
  BY <1>4, <1>6 DEF RowHolds, RowFits
<1>8. Journaled(Last(held).tx)
  BY <1>2, <1>3, <1>6, <1>7 DEF Journaled
<1>9. QED
  BY <1>1, <1>2, <1>3, <1>7, <1>8

\* A signed transaction is sent.
LEMMA BroadcastHolds ==
  ASSUME TxInv, Broadcast
  PROVE  TxInv'
<1> USE DEF TxInv
<1>1. PICK code \in Codes :
        /\ CheckTx(Last(held).tx, code)
        /\ Count(code \in {"retry", "reject"})
        /\ Accept(Last(held).tx, code)
        /\ Save(FirstKey(todo),
                IF Definite(code)
                THEN [held EXCEPT !.status = "failed",
                        !.attempts[Len(held.attempts)].check = code]
                ELSE held)
  BY DEF Broadcast
<1>2. pc = "send" /\ EndStep /\ UNCHANGED <<archive, chainVars>>
  BY DEF Broadcast
<1>3. PICK i : i = FirstKey(todo)
  OBVIOUS
<1>4. PICK old : old = held
  OBVIOUS
<1>5. /\ i \in DOMAIN journal.rows /\ old = journal.rows[i] /\ old.attempts # <<>>
      /\ TxFits(Last(old).tx) /\ Journaled(Last(old).tx)
  BY <1>2, <1>3, <1>4, HeldIsJournaled
<1>6. InUse(journal)
  BY <1>2 DEF ProcessInv
<1>7. RowFits(i, old) /\ RowHolds(i, old) /\ old \in Intent /\ i \in Intents
  BY <1>5, <1>6, RowsInUse
<1>8. \A tx \in mempool' :
        tx \in mempool \/ (/\ tx \notin DOMAIN results
                           /\ TxFits(tx) /\ Journaled(tx))
  BY <1>1, <1>4, <1>5 DEF Accept
<1>9. CASE Definite(code)
  <2> DEFINE last == Last(old)
             a == [last EXCEPT !.check = code]
             atts == [old.attempts EXCEPT ![Len(old.attempts)] = a]
  <2>1. PICK new : new = [old EXCEPT !.status = "failed",
                            !.attempts[Len(old.attempts)].check = code]
    OBVIOUS
  <2>2. Save(i, new)
    BY <1>1, <1>3, <1>4, <1>9, <2>1, Zenon
  <2>3. new = [old EXCEPT !.status = "failed", !.attempts = atts]
    BY <2>1, Zenon DEF Last
  <2>4. last \in Attempt
    BY <1>5, <1>7, IntentFields
  <2>5. a \in Attempt /\ a.tx = last.tx
    BY <1>9, <2>4, AttemptMarked DEF Definite
  <2> HIDE DEF a
  <2>6. new = [status |-> "failed", messages |-> old.messages,
               attempts |-> atts, recoveries |-> old.recoveries]
    BY <1>7, <2>3, RowChange, Zenon
  <2>7. "failed" \in Statuses
    BY DEF Statuses
  <2>8. SameAttempts(old, new) /\ new.status = "failed"
    BY <1>5, <1>7, <2>5, <2>6, <2>7, LastWith
  <2>9. OutcomeHolds(i, new)
    BY <2>8, UnfinishedHolds
  <2>10. RowFits(i, new) /\ RowHolds(i, new) /\ Kept(old, new)
    BY <1>7, <2>8, <2>9, SameFits, SameHolds
  <2>11. QED
    BY <1>2, <1>5, <1>7, <1>8, <2>2, <2>10, StepSavesHolds
<1>10. CASE ~Definite(code)
  <2>1. Save(i, old)
    BY <1>1, <1>3, <1>4, <1>10
  <2>2. Kept(old, old)
    BY DEF Kept
  <2>3. QED
    BY <1>2, <1>5, <1>7, <1>8, <2>1, <2>2, StepSavesHolds
<1>11. QED
  BY <1>9, <1>10

\* A signed transaction is sent, and it or the answer is lost.
LEMMA BroadcastLostHolds ==
  ASSUME TxInv, BroadcastLost
  PROVE  TxInv'
<1>1. /\ pc = "send" /\ EndStep /\ UNCHANGED <<journal, archive, chainVars>>
      /\ \E code \in Codes : Accept(Last(held).tx, code)
  BY DEF BroadcastLost
<1>2. \A tx \in mempool' :
        tx \in mempool \/ (/\ tx \notin DOMAIN results
                           /\ TxFits(tx) /\ Journaled(tx))
  BY <1>1, HeldIsJournaled DEF Accept
<1>3. QED
  BY <1>1, <1>2, StepReturnsHolds

-----------------------------------------------------------------------------
(***************************************************************************)
(* Operators, restarts and backups                                         *)
(***************************************************************************)

\* An operation of the idle manager saves a row that is true afterwards.
LEMMA OperatorSavesHolds ==
  ASSUME TxInv, pc = "idle", memo # 0,
         UNCHANGED <<archive, procVars, seq, epoch, effect, results, mempool>>,
         obsolete \subseteq obsolete',
         NEW i \in Intents, NEW row, RowFits(i, row), RowHolds(i, row)',
         i \in DOMAIN journal.rows => Kept(journal.rows[i], row),
         Save(i, row)
  PROVE  TxInv'
<1> USE DEF TxInv
<1>1. memo' = memo /\ pc' = "idle" /\ InUse(journal)
  BY DEF procVars, ProcessInv
<1>2. ChainGrows
  BY QuietChain
<1>3. /\ StoreInv' /\ InUse(journal)'
      /\ \A tx : Journaled(tx) => Journaled(tx)'
  BY <1>1, <1>2, SaveHolds
<1>4. QED
  BY <1>1, <1>3, ProcessStepHolds

\* An intent is queued.
LEMMA EnqueueHolds ==
  ASSUME TxInv, NEW i \in Intents, Enqueue(i)
  PROVE  TxInv'
<1> USE DEF TxInv
<1>1. PICK row : row = NewIntent(i)
  OBVIOUS
<1>2. /\ row.status = "queued" /\ row.messages = [intent |-> i, version |-> 0]
      /\ row.attempts = <<>> /\ row.recoveries = <<>>
  BY <1>1 DEF NewIntent
<1>3. row \in Intent
  <2>1. [intent |-> i, version |-> 0] \in Messages
    BY BoundsAssumption DEF Messages
  <2>2. "queued" \in Statuses
    BY DEF Statuses
  <2>3. QED
    BY <1>1, <2>1, <2>2 DEF NewIntent, Intent
<1>4. RowFits(i, row)
  BY <1>2, <1>3 DEF RowFits
<1>5. RowHolds(i, row)'
  <2>1. \A n \in DOMAIN row.attempts : FALSE
    BY <1>2
  <2>2. QED
    BY <1>2, <2>1 DEF RowHolds, OutcomeHolds
<1>6. /\ pc = "idle" /\ memo # 0 /\ i \notin DOMAIN journal.rows /\ Save(i, row)
      /\ UNCHANGED <<archive, procVars, seq, epoch, effect, obsolete, results, mempool>>
  BY <1>1 DEF Enqueue, chainVars
<1>7. QED
  BY <1>4, <1>5, <1>6, OperatorSavesHolds

\* A queued intent is replaced by a newer one.
LEMMA RefreshQueuedHolds ==
  ASSUME TxInv, NEW i \in Intents, RefreshQueued(i)
  PROVE  TxInv'
<1> USE DEF TxInv
<1>1. PICK old : old = journal.rows[i]
  OBVIOUS
<1>2. /\ pc = "idle" /\ memo # 0
      /\ i \in DOMAIN journal.rows /\ i \in Evidence
      /\ old.status = "queued" /\ old.messages.version < MaxVersion
      /\ Save(i, Prepare(old))
      /\ UNCHANGED <<archive, procVars, seq, epoch, effect, obsolete, results, mempool>>
  BY <1>1 DEF RefreshQueued, chainVars
<1>3. RowFits(i, old) /\ RowHolds(i, old) /\ old \in Intent
  BY <1>1, <1>2, RowsInUse DEF ProcessInv
<1> DEFINE m == [old.messages EXCEPT !.version = @ + 1]
<1>4. PICK row : row = Prepare(old)
  OBVIOUS
<1>5. row = [status |-> old.status, messages |-> m,
             attempts |-> old.attempts, recoveries |-> old.recoveries]
  <2>1. row = [old EXCEPT !.messages = m]
    BY <1>2, <1>3, <1>4, Zenon DEF Prepare, RowFits
  <2> HIDE DEF m
  <2>2. QED
    BY <1>3, <2>1, IntentFields
<1>6. m \in Messages /\ m.intent = i
  <2>1. /\ old.messages \in Messages /\ old.messages.intent = i
        /\ old.messages.version \in 0..MaxVersion + 1
    BY <1>3, IntentFields DEF RowFits, Messages
  <2>2. old.messages.version + 1 \in 0..MaxVersion + 1
    BY <1>2, <2>1, BoundsAssumption
  <2>3. QED
    BY <2>1, <2>2 DEF Messages
<1> HIDE DEF m
<1>7. row \in Intent
  BY <1>3, <1>5, <1>6 DEF Intent
<1>8. RowFits(i, row)
  BY <1>3, <1>5, <1>6, <1>7 DEF RowFits
<1>9. OutcomeHolds(i, row)
  BY <1>2, <1>5, UnfinishedHolds
<1>10. RowHolds(i, row) /\ Kept(old, row)
  BY <1>3, <1>5, <1>9 DEF RowHolds, Kept
<1>11. RowHolds(i, row)'
  BY <1>2, <1>10, QuietChain, RowGrows
<1>12. QED
  BY <1>1, <1>2, <1>4, <1>8, <1>10, <1>11, OperatorSavesHolds

\* A retry that finds the operation no longer applicable, or queues it again
\* with the request remembered.
LEMMA RecoverHolds ==
  ASSUME TxInv, NEW i \in Intents, NEW r \in Requests, Recover(i, r)
  PROVE  TxInv'
<1> USE DEF TxInv
<1>1. PICK old : old = journal.rows[i]
  OBVIOUS
<1>2. PICK found : found = Reconcile(i, old, Ledger)
  OBVIOUS
<1> DEFINE again == found.outcome = "open" /\ Retryable(found.row) /\ ~Uncertain(found.row)
<1>3. /\ pc = "idle" /\ memo # 0 /\ i \in DOMAIN journal.rows
      /\ UNCHANGED <<archive, procVars, seq, epoch, effect, results, mempool>>
      /\ old.status = "failed" /\ FreshRequest(old, r)
      /\ \/ found.outcome = "done" /\ Save(i, found.row) /\ UNCHANGED <<obsolete, faults>>
         \/ /\ again /\ i \in Evidence
            /\ Count(TRUE)
            /\ Save(i, [Prepared(found.row) EXCEPT !.status = "cancelled",
                          !.messages = old.messages])
            /\ obsolete' = obsolete \cup {i}
         \/ /\ again
            /\ old.messages.version <= MaxVersion
            /\ Save(i, [Prepared(found.row) EXCEPT !.recoveries = Append(@, r)])
            /\ UNCHANGED <<obsolete, faults>>
  BY <1>1, <1>2, Zenon DEF Recover
<1>4. RowFits(i, old) /\ RowHolds(i, old) /\ old \in Intent
  BY <1>1, <1>3, RowsInUse DEF ProcessInv
<1>5. /\ SameAttempts(old, found.row)
      /\ found.outcome = "done" => OutcomeAt(i, found.row, Ledger)
  <2>1. PICK at : at = Ledger
    OBVIOUS
  <2>2. found = Reconcile(i, old, at) /\ CodesFit
    BY <1>2, <2>1 DEF ChainInv, CodesFit
  <2>3. QED
    BY <1>4, <2>1, <2>2, ReconcileHolds
<1>6. obsolete \subseteq obsolete'
  BY <1>3
<1>7. ChainGrows
  BY <1>3, <1>6, QuietChain
<1>8. CASE found.outcome = "done" /\ Save(i, found.row)
  <2>1. OutcomeHolds(i, found.row)
    BY <1>5, <1>8 DEF OutcomeAt, OutcomeHolds, Ledger
  <2>2. RowFits(i, found.row) /\ RowHolds(i, found.row) /\ Kept(old, found.row)
    BY <1>4, <1>5, <2>1, SameFits, SameHolds
  <2>3. PICK row : row = found.row
    OBVIOUS
  <2>4. RowHolds(i, row)'
    BY <1>7, <2>2, <2>3, RowGrows
  <2>5. QED
    BY <1>1, <1>3, <1>6, <1>8, <2>2, <2>3, <2>4, OperatorSavesHolds
<1> DEFINE seen == found.row
           messages == IF seen.messages.intent \in Evidence
                       THEN [seen.messages EXCEPT !.version = @ + 1]
                       ELSE seen.messages
           atts == [n \in DOMAIN seen.attempts |-> Resolve(seen.attempts[n])]
<1>9. seen \in Intent /\ seen.messages = old.messages /\ seen.recoveries = old.recoveries
  BY <1>5 DEF SameAttempts
<1>10. PICK p : p = Prepared(seen)
  OBVIOUS
<1>11. p = [status |-> "queued", messages |-> messages,
            attempts |-> atts, recoveries |-> old.recoveries]
  BY <1>9, <1>10, PreparedIs
<1>12. /\ atts \in Seq(Attempt)
       /\ DOMAIN atts = DOMAIN old.attempts
       /\ \A n \in DOMAIN old.attempts : atts[n].tx = old.attempts[n].tx
  <2>1. /\ DOMAIN seen.attempts = 1..Len(seen.attempts) /\ Len(seen.attempts) \in Nat
        /\ \A n \in DOMAIN seen.attempts : seen.attempts[n] \in Attempt
    BY <1>9, IntentFields
  <2>2. \A n \in DOMAIN seen.attempts :
          /\ Resolve(seen.attempts[n]) \in Attempt
          /\ Resolve(seen.attempts[n]).tx = seen.attempts[n].tx
    BY <2>1, AttemptMarked
  <2>3. \A n \in DOMAIN seen.attempts : atts[n] = Resolve(seen.attempts[n])
    OBVIOUS
  <2>4. atts \in [DOMAIN seen.attempts -> Attempt]
    BY <2>2
  <2>5. DOMAIN atts = DOMAIN seen.attempts
    OBVIOUS
  <2> HIDE DEF atts
  <2>6. atts \in Seq(Attempt)
    BY <2>1, <2>4
  <2>7. QED
    BY <1>5, <2>2, <2>3, <2>5, <2>6 DEF SameAttempts
<1> HIDE DEF seen, messages, atts
<1>13. /\ old.messages \in Messages /\ old.messages.intent = i
       /\ old.recoveries \in Seq(Requests)
       /\ \A n \in DOMAIN old.attempts : TxFits(old.attempts[n].tx)
  BY <1>4, IntentFields DEF RowFits, RowHolds
<1>14. ASSUME NEW row, row \in Intent, row.messages.intent = i, row.attempts = atts,
              \A m, n \in DOMAIN row.recoveries :
                row.recoveries[m] = row.recoveries[n] => m = n,
              OutcomeHolds(i, row)'
       PROVE  RowFits(i, row) /\ RowHolds(i, row)' /\ Kept(old, row)
  <2>1. RowFits(i, row)
    BY <1>4, <1>12, <1>14 DEF RowFits
  <2>2. ASSUME NEW n \in DOMAIN row.attempts PROVE TxFits(row.attempts[n].tx)'
    <3>1. PICK tx : tx = old.attempts[n].tx
      OBVIOUS
    <3>2. TxFits(tx) /\ tx = row.attempts[n].tx
      BY <1>12, <1>13, <1>14, <2>2, <3>1
    <3>3. TxFits(tx)'
      BY <1>7, <3>2, TxGrows
    <3>4. QED
      BY <3>2, <3>3
  <2>3. RowHolds(i, row)'
    BY <1>14, <2>2 DEF RowHolds
  <2>4. QED
    BY <1>12, <1>14, <2>1, <2>3 DEF Kept
<1>15. CASE /\ again /\ i \in Evidence
            /\ Save(i, [Prepared(found.row) EXCEPT !.status = "cancelled",
                          !.messages = old.messages])
            /\ obsolete' = obsolete \cup {i}
  <2>1. PICK row : row = [p EXCEPT !.status = "cancelled", !.messages = old.messages]
    OBVIOUS
  <2>2. PICK mid : mid = [p EXCEPT !.status = "cancelled"]
    OBVIOUS
  <2>3. row = [mid EXCEPT !.messages = old.messages]
    BY <2>1, <2>2, Zenon
  <2>4. mid = [status |-> "cancelled", messages |-> messages,
               attempts |-> atts, recoveries |-> old.recoveries]
    BY <1>11, <2>2
  <2>5. row = [status |-> "cancelled", messages |-> old.messages,
               attempts |-> atts, recoveries |-> old.recoveries]
    BY <2>3, <2>4
  <2>6. Save(i, row)
    BY <1>10, <1>15, <2>1, Zenon DEF seen
  <2>7. "cancelled" \in Statuses
    BY DEF Statuses
  <2>8. row \in Intent
    BY <1>12, <1>13, <2>5, <2>7 DEF Intent
  <2>9. OutcomeHolds(i, row)'
    BY <1>15, <2>5 DEF OutcomeHolds
  <2>10. \A m, n \in DOMAIN row.recoveries :
           row.recoveries[m] = row.recoveries[n] => m = n
    BY <1>4, <2>5 DEF RowFits
  <2>11. row.messages.intent = i /\ row.attempts = atts
    BY <1>13, <2>5
  <2>12. RowFits(i, row) /\ RowHolds(i, row)' /\ Kept(old, row)
    BY <1>14, <2>8, <2>9, <2>10, <2>11
  <2>13. QED
    BY <1>1, <1>3, <1>6, <2>6, <2>12, OperatorSavesHolds
<1>16. CASE /\ again
            /\ old.messages.version <= MaxVersion
            /\ Save(i, [Prepared(found.row) EXCEPT !.recoveries = Append(@, r)])
  <2> DEFINE recs == Append(old.recoveries, r)
  <2>1. PICK row : row = [p EXCEPT !.recoveries = Append(@, r)]
    OBVIOUS
  <2>2. row = [p EXCEPT !.recoveries = recs]
    <3>1. p.recoveries = old.recoveries
      BY <1>11
    <3>2. QED
      BY <2>1, <3>1, Zenon
  <2>3. /\ recs \in Seq(Requests)
        /\ \A m, n \in DOMAIN recs : recs[m] = recs[n] => m = n
    <3>1. \A n \in DOMAIN old.recoveries : old.recoveries[n] # r
      BY <1>3 DEF FreshRequest
    <3>2. \A m, n \in DOMAIN old.recoveries :
            old.recoveries[m] = old.recoveries[n] => m = n
      BY <1>4 DEF RowFits
    <3> DEFINE s == old.recoveries
    <3>3. s \in Seq(Requests)
      BY <1>13
    <3>4. /\ Len(recs) = Len(s) + 1 /\ DOMAIN s = 1..Len(s) /\ Len(s) \in Nat
          /\ DOMAIN recs = 1..Len(s) + 1
          /\ recs[Len(s) + 1] = r
          /\ \A n \in 1..Len(s) : recs[n] = s[n]
      <4> HIDE DEF s
      <4>1. /\ Append(s, r) \in Seq(Requests)
            /\ Len(Append(s, r)) = Len(s) + 1 /\ DOMAIN s = 1..Len(s)
            /\ Len(s) \in Nat
            /\ DOMAIN Append(s, r) = 1..Len(s) + 1
            /\ Append(s, r)[Len(s) + 1] = r
            /\ \A n \in 1..Len(s) : Append(s, r)[n] = s[n]
        BY <3>3
      <4>2. QED
        BY <4>1 DEF s
    <3>5. recs \in Seq(Requests)
      BY <3>3
    <3> HIDE DEF recs, s
    <3>6. ASSUME NEW m \in DOMAIN recs, NEW n \in DOMAIN recs, recs[m] = recs[n]
          PROVE  m = n
      <4>1. CASE m \in 1..Len(s) /\ n \in 1..Len(s)
        BY <3>2, <3>4, <3>6, <4>1 DEF s
      <4>2. CASE m = Len(s) + 1 /\ n \in 1..Len(s)
        BY <3>1, <3>4, <3>6, <4>2 DEF s
      <4>3. CASE n = Len(s) + 1 /\ m \in 1..Len(s)
        BY <3>1, <3>4, <3>6, <4>3 DEF s
      <4>4. CASE m = Len(s) + 1 /\ n = Len(s) + 1
        BY <4>4
      <4>5. QED
        BY <3>4, <4>1, <4>2, <4>3, <4>4
    <3>7. QED
      BY <3>5, <3>6
  <2>4. messages \in Messages /\ messages.intent = i
    <3>1. old.messages.version + 1 \in 0..MaxVersion + 1
      BY <1>13, <1>16, BoundsAssumption DEF Messages
    <3>2. QED
      BY <1>9, <1>13, <3>1 DEF messages, Messages
  <2> HIDE DEF recs
  <2>5. row = [status |-> "queued", messages |-> messages,
               attempts |-> atts, recoveries |-> recs]
    BY <1>11, <2>2
  <2>6. Save(i, row)
    BY <1>10, <1>16, <2>1, Zenon DEF seen
  <2>7. "queued" \in Statuses
    BY DEF Statuses
  <2>8. row \in Intent
    BY <1>12, <2>3, <2>4, <2>5, <2>7 DEF Intent
  <2>9. OutcomeHolds(i, row)'
    BY <2>5 DEF OutcomeHolds
  <2>10. row.messages.intent = i /\ row.attempts = atts /\ row.recoveries = recs
    BY <2>4, <2>5
  <2>11. RowFits(i, row) /\ RowHolds(i, row)' /\ Kept(old, row)
    BY <1>14, <2>3, <2>8, <2>9, <2>10
  <2>12. QED
    BY <1>1, <1>3, <1>6, <2>6, <2>11, OperatorSavesHolds
<1>17. QED
  BY <1>3, <1>8, <1>15, <1>16

KnownAgent(id) == id \in {Me, "another agent"}

OwnedBy(j, id) == j # None => JournalFits(j) /\ j.identity = id

\* Opening and binding give a journal that can be used, whatever its age
\* (store.go Open, index.go migrateIndexes, backup.go BindGenesis).
LEMMA OpenFits ==
  ASSUME NEW id, KnownAgent(id),
         NEW j, OwnedBy(j, id),
         NEW b, b = BindGenesis(Open(j, id), Genesis)
  PROVE  /\ JournalFits(b)
         /\ b.identity = id /\ b.genesis = Genesis
         /\ b.index = ActiveRows(b)
         /\ DOMAIN b.rows = {} \/ (j # None /\ b.rows = j.rows)
<1>1. PICK o : o = IF j = None THEN EmptyJournal(id) ELSE j
  OBVIOUS
<1>2. /\ JournalFits(o) /\ o.identity = id
      /\ DOMAIN o.rows = {} \/ (j # None /\ o.rows = j.rows)
  <2>1. CASE j = None
    <3>1. o = [identity |-> id, genesis |-> None, version |-> None,
               rows |-> <<>>, index |-> {}]
      BY <1>1, <2>1 DEF EmptyJournal
    <3>2. DOMAIN o.rows = {} /\ o.rows \in [DOMAIN o.rows -> Intent]
      <4>1. DOMAIN <<>> = {} /\ <<>> \in [{} -> Intent]
        OBVIOUS
      <4>2. QED
        BY <3>1, <4>1
    <3>3. ActiveRows(o) = {}
      BY <3>2 DEF ActiveRows
    <3>4. o \in [identity : {Me, "another agent"}, genesis : {None, Genesis},
                 version : {None, "1"}, rows : [DOMAIN o.rows -> Intent],
                 index : SUBSET Intents]
      BY <3>1, <3>2 DEF KnownAgent
    <3>5. QED
      BY <3>1, <3>2, <3>4 DEF JournalFits
  <2>2. CASE j # None
    BY <1>1, <2>2 DEF OwnedBy
  <2>3. QED
    BY <2>1, <2>2
<1>3. o = [identity |-> o.identity, genesis |-> o.genesis,
           version |-> o.version, rows |-> o.rows, index |-> o.index]
      /\ o.rows \in [DOMAIN o.rows -> Intent] /\ DOMAIN o.rows \subseteq Intents
      /\ o.version \in {None, "1"} /\ o.index \in SUBSET Intents
      /\ o.identity \in {Me, "another agent"}
  BY <1>2 DEF JournalFits
<1> DEFINE index == ActiveRows(o)
           version == IF o.version = None THEN "1" ELSE o.version
<1>4. PICK m : m = MigrateIndexes(o)
  OBVIOUS
<1>5. m = [identity |-> o.identity, genesis |-> o.genesis,
           version |-> version, rows |-> o.rows, index |-> index]
  <2>1. CASE o.version = None
    <3>1. m = [o EXCEPT !.version = "1", !.index = index]
      BY <1>4, <2>1, Zenon DEF MigrateIndexes
    <3>2. PICK mid : mid = [o EXCEPT !.version = "1"]
      OBVIOUS
    <3>3. m = [mid EXCEPT !.index = index]
      BY <3>1, <3>2, Zenon
    <3> HIDE DEF index
    <3>4. mid = [identity |-> o.identity, genesis |-> o.genesis,
                 version |-> "1", rows |-> o.rows, index |-> o.index]
      BY <1>3, <3>2
    <3>5. QED
      BY <2>1, <3>3, <3>4
  <2>2. CASE o.version # None
    <3>1. m = o
      BY <1>4, <2>2, Zenon DEF MigrateIndexes
    <3>2. o.index = index
      BY <1>2, <2>2 DEF JournalFits
    <3> HIDE DEF index
    <3>3. QED
      BY <1>3, <2>2, <3>1, <3>2
  <2>3. QED
    BY <2>1, <2>2
<1>6. b = [m EXCEPT !.genesis = Genesis]
  BY <1>1, <1>4, Zenon DEF BindGenesis, Open
<1> HIDE DEF index, version
<1>7. b = [identity |-> o.identity, genesis |-> Genesis,
           version |-> version, rows |-> o.rows, index |-> index]
  BY <1>5, <1>6
<1>8. b.index = ActiveRows(b)
  BY <1>7 DEF ActiveRows, index
<1>9. index \in SUBSET Intents /\ version \in {None, "1"}
  BY <1>3 DEF index, ActiveRows, version
<1>10. JournalFits(b)
  <2>1. b.rows = o.rows
    BY <1>7
  <2>2. \A i \in DOMAIN b.rows : RowFits(i, b.rows[i])
    BY <1>2, <2>1 DEF JournalFits
  <2>3. b \in [identity : {Me, "another agent"}, genesis : {None, Genesis},
               version : {None, "1"}, rows : [DOMAIN o.rows -> Intent],
               index : SUBSET Intents]
    <3> DEFINE ids == {Me, "another agent"}
    <3>1. PICK x : x = o.identity
      OBVIOUS
    <3>2. PICK r : r = o.rows
      OBVIOUS
    <3>3. /\ x \in ids /\ r \in [DOMAIN o.rows -> Intent]
          /\ b = [identity |-> x, genesis |-> Genesis,
                  version |-> version, rows |-> r, index |-> index]
      BY <1>3, <1>7, <3>1, <3>2
    <3> HIDE DEF ids
    <3>4. b \in [identity : ids, genesis : {None, Genesis},
                 version : {None, "1"}, rows : [DOMAIN o.rows -> Intent],
                 index : SUBSET Intents]
      BY <1>9, <3>3
    <3>5. QED
      BY <3>4 DEF ids
  <2>4. QED
    BY <1>3, <1>8, <2>1, <2>2, <2>3, Zenon DEF JournalFits
<1>11. QED
  BY <1>2, <1>7, <1>8, <1>10

\* The daemon starts with the journal that it finds.
LEMMA StartHolds ==
  ASSUME TxInv, NEW trusted, Start(trusted)
  PROVE  TxInv'
<1> USE DEF TxInv
<1>1. /\ memo = 0 /\ memo' = epoch + 1
      /\ journal' = BindGenesis(Open(journal, Me), Genesis)
      /\ Commit(<<>>, seq + 1, epoch + 1)
      /\ UNCHANGED <<archive, pc, snap, todo, held, effect, obsolete>>
  BY DEF Start
<1>2. epoch \in Nat /\ epoch + 1 \in Nat /\ epoch <= epoch + 1
  BY DEF ChainInv
<1>3. DOMAIN <<>> = {}
  OBVIOUS
<1>4. ChainGrows /\ ChainInv' /\ epoch' = epoch + 1
  BY <1>1, <1>2, <1>3, CommitHolds DEF Commit
<1>5. PICK j : j = journal
  OBVIOUS
<1>6. PICK b : b = BindGenesis(Open(j, Me), Genesis)
  OBVIOUS
<1>7. j # None => JournalHolds(j) /\ JournalFits(j) /\ j.identity = Me
  BY <1>5 DEF StoreInv, JournalHolds
<1>8. /\ JournalFits(b)
      /\ b.identity = Me /\ b.genesis = Genesis
      /\ b.index = ActiveRows(b)
      /\ DOMAIN b.rows = {} \/ (j # None /\ b.rows = j.rows)
  BY <1>6, <1>7, OpenFits DEF KnownAgent, OwnedBy
<1>9. b = journal'
  BY <1>1, <1>5, <1>6
<1>10. InUse(b)'
  <2>1. ASSUME NEW i \in DOMAIN b.rows PROVE RowHolds(i, b.rows[i])'
    <3>1. j # None /\ b.rows = j.rows
      BY <1>8
    <3>2. JournalHolds(j)'
      BY <1>4, <1>7, <3>1, JournalGrows
    <3>3. QED
      BY <3>1, <3>2 DEF JournalHolds
  <2>2. JournalFits(b)'
    BY <1>8
  <2>3. JournalHolds(b)'
    BY <2>1, <2>2 DEF JournalHolds
  <2>4. QED
    BY <1>8, <2>3 DEF InUse
<1>11. InUse(journal)'
  BY <1>9, <1>10
<1>12. StoreInv'
  <2>1. PICK a : a = archive.journal
    OBVIOUS
  <2>2. archive # None => JournalHolds(a)'
    BY <1>4, <2>1, JournalGrows DEF StoreInv
  <2>3. a = archive'.journal
    BY <1>1, <2>1
  <2>4. archive' # None => JournalHolds(archive.journal)'
    BY <1>1, <2>2, <2>3
  <2>5. QED
    BY <1>11, <2>4 DEF StoreInv, InUse
<1>13. ProcessInv'
  <2>1. pc' = "idle"
    BY <1>1 DEF ProcessInv
  <2>2. memo' \in Nat /\ memo' <= epoch'
    BY <1>1, <1>2, <1>4
  <2>3. QED
    BY <1>11, <2>1, <2>2 DEF ProcessInv
<1>14. QED
  BY <1>4, <1>12, <1>13

\* A process that ends leaves what is on chain and in the archive alone.
LEMMA DownHolds ==
  ASSUME TxInv, memo' = 0, pc' = "idle", StoreInv',
         UNCHANGED <<chainVars, mempool>>
  PROVE  TxInv'
<1> USE DEF TxInv
<1>1. UNCHANGED <<seq, epoch, effect, obsolete, results>>
  BY DEF chainVars
<1>2. /\ \A tx : TxFits(tx) => TxFits(tx)'
      /\ \A done \in DOMAIN results' :
           /\ TxFits(done)'
           /\ results'[done] \in Codes
           /\ results'[done] = "ok" => done.messages.intent \in effect'
  BY <1>1, QuietChain
<1>3. ChainInv'
  BY <1>1, <1>2 DEF ChainInv
<1>4. ProcessInv'
  BY <1>1 DEF ProcessInv, ChainInv
<1>5. QED
  BY <1>3, <1>4

\* The process ends, or the journal is archived or restored.
LEMMA HostHolds ==
  ASSUME TxInv, Crash \/ OwnershipLost \/ Backup \/ Restore
  PROVE  TxInv'
<1> USE DEF TxInv
<1>1. UNCHANGED <<chainVars, mempool>> /\ UNCHANGED <<seq, epoch, effect, obsolete, results>>
  BY DEF Crash, OwnershipLost, Backup, Restore, chainVars
<1>2. ChainGrows
  BY <1>1, QuietChain
<1>3. memo' = 0 /\ pc' = "idle"
  BY DEF Crash, OwnershipLost, Backup, Restore, Stop, procVars, ProcessInv
<1>4. PICK j : j = journal
  OBVIOUS
<1>5. PICK a : a = archive.journal
  OBVIOUS
<1>6. /\ j # None => JournalHolds(j)' /\ j.identity = Me
      /\ archive # None => JournalHolds(a)'
  BY <1>2, <1>4, <1>5, JournalGrows DEF StoreInv
<1>7. CASE Crash \/ OwnershipLost
  <2>1. archive' = archive /\ journal' \in {j, None}
    BY <1>4, <1>7 DEF Crash, OwnershipLost
  <2>2. a = archive'.journal
    BY <1>5, <2>1
  <2>3. archive' # None => JournalHolds(archive.journal)'
    BY <1>6, <2>1, <2>2
  <2>4. journal' # None => journal' = j
    BY <2>1
  <2>5. journal' # None => JournalHolds(journal)' /\ journal'.identity = Me
    BY <1>6, <2>4
  <2>6. QED
    BY <1>1, <1>3, <2>3, <2>5, DownHolds DEF StoreInv
<1>8. CASE Backup
  <2>1. journal' = j /\ j # None /\ archive' = Archive(journal)
    BY <1>4, <1>8 DEF Backup
  <2>2. archive'.journal = j
    BY <1>4, <2>1 DEF Archive
  <2>3. JournalHolds(archive.journal)' /\ JournalHolds(journal)'
    BY <1>6, <2>1, <2>2
  <2>4. QED
    BY <1>1, <1>3, <1>6, <2>1, <2>3, DownHolds DEF StoreInv
<1>9. CASE Restore
  <2>1. /\ archive # None /\ archive' = archive /\ journal' = a
        /\ a.identity = Me
    BY <1>5, <1>9 DEF Restore, Restorable
  <2>2. a = archive'.journal
    BY <1>5, <2>1
  <2>3. JournalHolds(archive.journal)' /\ JournalHolds(journal)'
    BY <1>6, <2>1, <2>2
  <2>4. QED
    BY <1>1, <1>3, <2>1, <2>3, DownHolds DEF StoreInv
<1>10. QED
  BY <1>7, <1>8, <1>9

-----------------------------------------------------------------------------
(***************************************************************************)
(* The invariant                                                           *)
(***************************************************************************)

\* An archive of an empty journal says nothing.
LEMMA EmptyHolds ==
  ASSUME NEW id, KnownAgent(id),
         NEW b, b = BindGenesis(MigrateIndexes(EmptyJournal(id)), Genesis)
  PROVE  JournalHolds(b)
<1>1. b = BindGenesis(Open(None, id), Genesis)
  BY DEF Open
<1>2. JournalFits(b) /\ DOMAIN b.rows = {}
  BY <1>1, OpenFits DEF OwnedBy
<1>3. QED
  BY <1>2 DEF JournalHolds

\* The attempt of a journal from before leases holds before the first block.
LEMMA LegacyHolds ==
  ASSUME seq = 0, epoch = 0, results = <<>>
  PROVE  JournalHolds(LegacyJournal) /\ LegacyJournal.identity = Me
<1> DEFINE i == KeyOrder[1]
           m == [intent |-> i, version |-> 0]
           tx == [messages |-> m, seq |-> 0, epoch |-> 0]
           a == [tx |-> tx, code |-> None, check |-> "retry", resolved |-> FALSE]
           row == [status |-> "failed", messages |-> m, attempts |-> <<a>>,
                   recoveries |-> <<>>]
           rows == [k \in {i} |-> row]
<1>1. i \in Intents
  BY KeyOrderAssumption DEF Intents
<1>2. m \in Messages /\ m.intent = i
  BY <1>1, BoundsAssumption DEF Messages
<1>3. LegacyJournal = [identity |-> Me, genesis |-> None, version |-> None,
                       rows |-> rows, index |-> {}]
  <2>1. PICK new : new = NewIntent(i)
    OBVIOUS
  <2>2. new = [status |-> "queued", messages |-> m, attempts |-> <<>>,
               recoveries |-> <<>>]
    BY <2>1 DEF NewIntent
  <2>3. PICK changed : changed = [new EXCEPT !.status = "failed", !.attempts = <<a>>]
    OBVIOUS
  <2>4. PICK mid : mid = [new EXCEPT !.status = "failed"]
    OBVIOUS
  <2>5. changed = [mid EXCEPT !.attempts = <<a>>]
    BY <2>3, <2>4, Zenon
  <2>6. changed = row
    <3> HIDE DEF a, m
    <3>1. mid = [status |-> "failed", messages |-> m, attempts |-> <<>>,
                 recoveries |-> <<>>]
      BY <2>2, <2>4
    <3>2. QED
      BY <2>5, <3>1
  <2>7. new.messages = m
    BY <2>2
  <2>8. LegacyJournal = [EmptyJournal(Me) EXCEPT !.rows = [k \in {i} |-> changed]]
    BY <2>1, <2>3, <2>7, Zenon DEF LegacyJournal
  <2> HIDE DEF row
  <2>9. QED
    BY <2>6, <2>8 DEF EmptyJournal
<1> HIDE DEF m
<1>4. tx \in Tx /\ tx.messages.intent = i /\ tx.seq = 0 /\ tx.epoch = 0
  BY <1>2 DEF Tx
<1> HIDE DEF tx
<1>5. a \in Attempt /\ a.tx = tx
  BY <1>4 DEF Attempt, CheckCodes
<1> HIDE DEF a
<1>6. row \in Intent
  <2>1. <<a>> \in Seq(Attempt) /\ <<>> \in Seq(Requests)
    BY <1>5
  <2>2. "failed" \in Statuses
    BY DEF Statuses
  <2> HIDE DEF i
  <2>3. QED
    BY <1>2, <2>1, <2>2 DEF Intent
<1>7. /\ row.status = "failed" /\ row.messages = m
      /\ row.attempts = <<a>> /\ row.recoveries = <<>>
  OBVIOUS
<1>8. \A n \in DOMAIN <<a>> : <<a>>[n] = a
  OBVIOUS
<1>9. DOMAIN <<>> = {}
  OBVIOUS
<1> HIDE DEF row, i
<1>10. RowFits(i, row)
  BY <1>2, <1>4, <1>5, <1>6, <1>7, <1>8, <1>9 DEF RowFits
<1>11. RowHolds(i, row)
  <2>1. TxFits(tx)
    BY <1>4, <1>9 DEF TxFits
  <2>2. OutcomeHolds(i, row)
    BY <1>7, UnfinishedHolds
  <2>3. QED
    BY <1>5, <1>7, <1>8, <2>1, <2>2 DEF RowHolds
<1>12. rows \in [{i} -> Intent] /\ DOMAIN rows = {i} /\ rows[i] = row
  BY <1>6
<1> HIDE DEF rows
<1>13. PICK j : j = LegacyJournal
  OBVIOUS
<1>14. /\ j.rows = rows /\ j.version = None /\ j.identity = Me
       /\ j \in [identity : {Me, "another agent"}, genesis : {None, Genesis},
                 version : {None, "1"}, rows : [{i} -> Intent],
                 index : SUBSET Intents]
  BY <1>3, <1>12, <1>13
<1>15. JournalFits(j)
  BY <1>1, <1>10, <1>12, <1>14 DEF JournalFits
<1>16. JournalHolds(j)
  BY <1>11, <1>12, <1>14, <1>15 DEF JournalHolds
<1>17. QED
  BY <1>13, <1>14, <1>16

\* An empty journal fits.
LEMMA InitHolds == Init => TxInv
<1> SUFFICES ASSUME Init PROVE TxInv
  OBVIOUS
<1>1. /\ memo = 0 /\ pc = "idle" /\ seq = 0 /\ epoch = 0
      /\ mempool = {} /\ results = <<>>
  BY DEF Init
<1>2. StoreInv
  <2>1. CASE journal = None /\ archive \in {None, OldArchive, ForeignArchive}
    <3>1. JournalHolds(OldArchive.journal)
      BY EmptyHolds DEF OldArchive, Archive, KnownAgent
    <3>2. JournalHolds(ForeignArchive.journal)
      BY EmptyHolds DEF ForeignArchive, KnownAgent
    <3>3. QED
      BY <2>1, <3>1, <3>2 DEF StoreInv
  <2>2. CASE journal = LegacyJournal /\ archive = None
    BY <1>1, <2>2, LegacyHolds DEF StoreInv
  <2>3. QED
    BY <2>1, <2>2 DEF Init
<1>3. DOMAIN results = {}
  BY <1>1
<1>4. ProcessInv /\ ChainInv
  BY <1>1, <1>3 DEF ProcessInv, ChainInv
<1>5. QED
  BY <1>2, <1>4 DEF TxInv

\* Every step keeps the invariant.
LEMMA NextHolds ==
  ASSUME TxInv, [Next]_vars
  PROVE  TxInv'
<1>1. CASE Process
  <2>1. CASE StepBegin
    BY <2>1, StepBeginHolds
  <2>2. CASE ReconcileFailed
    BY <2>2, ReconcileFailedHolds
  <2>3. CASE HandleIntent
    BY <2>3, HandleIntentHolds
  <2>4. CASE StepEnd
    BY <2>4, StepReturnsHolds DEF StepEnd
  <2>5. CASE Broadcast
    BY <2>5, BroadcastHolds
  <2>6. QED
    BY <1>1, <2>1, <2>2, <2>3, <2>4, <2>5 DEF Process
<1>2. CASE Chain
  <2>1. ASSUME NEW tx \in mempool, DeliverTx(tx) PROVE TxInv'
    BY <2>1, DeliverHolds
  <2>2. ASSUME NEW tx \in unindexed, IndexTx(tx) PROVE TxInv'
    BY <2>2, OtherEventsHold DEF IndexTx
  <2>3. QED
    BY <1>2, <2>1, <2>2 DEF Chain
<1>3. CASE Environment
  <2>1. ASSUME NEW e \in 0..MaxEpoch, OtherTx(e) PROVE TxInv'
    BY <2>1, OtherTxHolds
  <2>2. ASSUME NEW i \in Intents, EffectByOther(i) \/ BecomeObsolete(i) PROVE TxInv'
    BY <2>2, OtherEventsHold DEF EffectByOther, BecomeObsolete
  <2>3. ASSUME NEW tx \in mempool, Evict(tx) PROVE TxInv'
    BY <2>3, OtherEventsHold DEF Evict, chainVars
  <2>4. CASE BroadcastLost
    BY <2>4, BroadcastLostHolds
  <2>5. CASE StepError
    BY <2>5, StepReturnsHolds DEF StepError
  <2>6. CASE Crash
    BY <2>6, HostHolds
  <2>7. QED
    BY <1>3, <2>1, <2>2, <2>3, <2>4, <2>5, <2>6 DEF Environment
<1>4. CASE Operator
  <2>1. ASSUME NEW i \in Intents, Enqueue(i) \/ RefreshQueued(i) PROVE TxInv'
    BY <2>1, EnqueueHolds, RefreshQueuedHolds
  <2>2. ASSUME NEW i \in Intents, NEW r \in Requests, Recover(i, r) PROVE TxInv'
    BY <2>2, RecoverHolds
  <2>3. CASE Backup \/ Restore
    BY <2>3, HostHolds
  <2>4. QED
    BY <1>4, <2>1, <2>2, <2>3 DEF Operator
<1>5. CASE OwnershipLost
  BY <1>5, HostHolds
<1>6. ASSUME NEW trusted \in BOOLEAN, Start(trusted) PROVE TxInv'
  BY <1>6, StartHolds
<1>7. CASE UNCHANGED vars
  BY <1>7, OtherEventsHold DEF vars, procVars
<1>8. QED
  BY <1>1, <1>2, <1>3, <1>4, <1>5, <1>6, <1>7 DEF Next

\* At every moment the journal and its archive are true of the chain, the
\* running Step knows no more than was so, and what the chain could still
\* execute is in the journal of the owner.
THEOREM TxManagerInvariant == Spec => []TxInv
<1>1. TxInv /\ [Next]_vars => TxInv'
  BY NextHolds
<1>2. QED
  BY InitHolds, <1>1, PTL DEF Spec

\* Every journal in use is this agent's own, bound to this chain, and indexes
\* exactly its unfinished intents (store.go Put, index.go migrateIndexes).
THEOREM JournalIsSound == Spec => []JournalSound
<1>1. TxInv => JournalSound
  <2> SUFFICES ASSUME TxInv, journal # None
               PROVE  /\ journal.identity = Me
                      /\ journal.genesis \in {None, Genesis}
                      /\ memo # 0 => /\ journal.genesis = Genesis
                                     /\ journal.index = {i \in DOMAIN journal.rows :
                                          journal.rows[i].status \notin
                                            {"confirmed", "satisfied", "cancelled"}}
    BY DEF JournalSound
  <2>1. JournalFits(journal) /\ journal.identity = Me
    BY DEF TxInv, StoreInv, JournalHolds
  <2>2. \A i \in DOMAIN journal.rows :
          ActiveRow(journal.rows[i])
            <=> journal.rows[i].status \notin {"confirmed", "satisfied", "cancelled"}
    BY <2>1 DEF JournalFits, RowFits, Intent, Statuses, ActiveRow
  <2>3. memo # 0 => journal.genesis = Genesis /\ journal.index = ActiveRows(journal)
    BY DEF TxInv, ProcessInv, InUse
  <2>4. journal.genesis \in {None, Genesis}
    BY <2>1 DEF JournalFits
  <2>5. QED
    BY <2>1, <2>2, <2>3, <2>4 DEF ActiveRows
<1>2. QED
  BY <1>1, TxManagerInvariant, PTL

\* A final status is true on chain, in a restored journal too (settle and
\* reconcile in manager.go).
THEOREM OutcomesAreTrue == Spec => []OutcomeIsTrue
<1>1. TxInv => OutcomeIsTrue
  BY DEF TxInv, StoreInv, JournalHolds, RowHolds, OutcomeHolds, OutcomeIsTrue
<1>2. QED
  BY <1>1, TxManagerInvariant, PTL

\* The owner's journal has every transaction that can still execute: bytes are
\* saved before they are sent, and older ones are fenced.
THEOREM ExecutablesAreJournaled == Spec => []ExecutableIsJournaled
<1>1. TxInv => ExecutableIsJournaled
  BY DEF TxInv, ChainInv, Journaled, Executable, ExecutableIsJournaled
<1>2. QED
  BY <1>1, TxManagerInvariant, PTL

\* What can still execute competes for the account's next sequence number.
THEOREM OneSequence == Spec => []OneSequenceInFlight
<1>1. TxInv => OneSequenceInFlight
  BY DEF TxInv, ChainInv, TxFits, Tx, Executable, OneSequenceInFlight
<1>2. QED
  BY <1>1, TxManagerInvariant, PTL

\* An executed transaction is the last one of its intent, in the mempool, in
\* blocks and in the journal.
THEOREM NothingIsDoneTwice == Spec => []ExecutedIsLast
<1>1. ASSUME TxInv, NEW done \in DOMAIN results, results[done] = "ok",
             NEW tx, TxFits(tx), tx.messages.intent = done.messages.intent
      PROVE  ~(tx.seq > done.seq)
  BY <1>1 DEF TxInv, ChainInv, TxFits, Tx
<1>2. TxInv => ExecutedIsLast
  <2> SUFFICES ASSUME TxInv, NEW done \in DOMAIN results, results[done] = "ok"
               PROVE  /\ \A tx \in mempool \cup DOMAIN results :
                           ~(tx.messages.intent = done.messages.intent
                             /\ tx.seq > done.seq)
                      /\ journal # None /\ done.messages.intent \in DOMAIN journal.rows =>
                           \A n \in DOMAIN journal.rows[done.messages.intent].attempts :
                             LET tx == journal.rows[done.messages.intent].attempts[n].tx
                             IN ~(tx.messages.intent = done.messages.intent
                                  /\ tx.seq > done.seq)
    BY DEF ExecutedIsLast
  <2>1. \A tx \in mempool \cup DOMAIN results : TxFits(tx)
    BY DEF TxInv, ChainInv
  <2>2. journal # None => \A i \in DOMAIN journal.rows :
          \A n \in DOMAIN journal.rows[i].attempts : TxFits(journal.rows[i].attempts[n].tx)
    BY DEF TxInv, StoreInv, JournalHolds, RowHolds
  <2>3. QED
    BY <1>1, <2>1, <2>2
<1>3. QED
  BY <1>2, TxManagerInvariant, PTL

\* A recovery request is applied once, whoever repeats it (Recover in manager.go).
THEOREM RequestsAreAppliedOnce == Spec => []RequestAppliedOnce
<1>1. TxInv => RequestAppliedOnce
  BY DEF TxInv, StoreInv, JournalHolds, JournalFits, RowFits, RequestAppliedOnce
<1>2. QED
  BY <1>1, TxManagerInvariant, PTL

=============================================================================
