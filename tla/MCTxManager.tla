----------------------------- MODULE MCTxManager -----------------------------
(***************************************************************************)
(* One daemon with a journal of two intents, seen through faults.          *)
(***************************************************************************)
EXTENDS TxManager

CONSTANTS openCase, castVote, request1

MCKeyOrder == <<openCase, castVote>>
MCEvidence == {openCase}
MCRequests == {request1}

=============================================================================
