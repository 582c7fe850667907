SPECIFICATION Spec
CONSTANTS
  openCase = openCase castVote = castVote request1 = request1 None = None
  KeyOrder <- MCKeyOrder
  Requests <- MCRequests
  Evidence <- MCEvidence
  MaxVersion = 1
  MaxEpoch = 3
  MaxFaults = 1
CHECK_DEADLOCK FALSE
INVARIANT JournalSound
INVARIANT OutcomeIsTrue
INVARIANT ExecutableIsJournaled
INVARIANT OneSequenceInFlight
INVARIANT ExecutedIsLast
INVARIANT RequestAppliedOnce
PROPERTY EveryIntentSettles
