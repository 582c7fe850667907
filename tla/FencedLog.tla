------------------------------ MODULE FencedLog ------------------------------
(***************************************************************************)
(* What a signing lease promises: ownership of the signing account passes  *)
(* from session to session, no session ever gets it back once it was       *)
(* passed on, and whatever is executed for the account after it was first  *)
(* leased was signed by the session that owned it at that moment.          *)
(***************************************************************************)
EXTENDS Naturals, Sequences

CONSTANTS
  Sessions,  \* those who can own the account
  Signers    \* those who can sign for it

VARIABLES
  owners,  \* the sessions that owned the account, the current one last
  log      \* the executed operations, each as the session that signed it

logVars == <<owners, log>>

Init == owners = <<>> /\ log = <<>>

Grant(s) ==
  /\ \A i \in 1..Len(owners) : owners[i] # s
  /\ owners' = Append(owners, s)
  /\ UNCHANGED log

\* An account that was never leased is open to every signer.
Execute(s) ==
  /\ owners # <<>> => s = owners[Len(owners)]
  /\ log' = Append(log, s)
  /\ UNCHANGED owners

Next ==
  \/ \E s \in Sessions : Grant(s)
  \/ \E s \in Signers : Execute(s)

Spec == Init /\ [][Next]_logVars

=============================================================================
