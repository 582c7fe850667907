----------------------------- MODULE MCRPCPool -----------------------------
(***************************************************************************)
(* Three endpoints, one of them wrong, and besides the chain a fork after  *)
(* its first block and another chain with the same chain id.               *)
(***************************************************************************)
EXTENDS RPCPool

CONSTANTS e1, e2, e3

MCBranches == <<3, 1, -1>>

\* The probes of a round are independent of each other: they end in one order.
Order == <<e1, e2, e3>>

InOrder ==
  (probes # None /\ probes' # None /\ common' = common) =>
    \A m \in DOMAIN Order : probes'[Order[m]] # probes[Order[m]] =>
      \A n \in 1..m - 1 :
        /\ probes[Order[n]] # None
        /\ common # None /\ probes[Order[n]] # Rejected => probes[Order[n]].block # None

=============================================================================
