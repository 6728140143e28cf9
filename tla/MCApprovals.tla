------------------------------ MODULE MCApprovals ------------------------------
(***************************************************************************)
(* Instances of Approvals for TLC: two turns of one thread, and a request. *)
(***************************************************************************)
EXTENDS Approvals, TLC

CONSTANTS a1, t1, t2, th, c1

OneThread == (t1 :> th) @@ (t2 :> th)

\* A workspace request with its turn id, another request without it, a workspace
\* request that offers no acceptance, and one of a kind the proxy does not support.
FourShapes ==
  {[named |-> TRUE, inside |-> TRUE, supported |-> TRUE, offered |-> {"accept", "decline"}],
   [named |-> FALSE, inside |-> FALSE, supported |-> TRUE, offered |-> {"cancel"}],
   [named |-> TRUE, inside |-> TRUE, supported |-> TRUE, offered |-> {"cancel"}],
   [named |-> TRUE, inside |-> FALSE, supported |-> FALSE, offered |-> {"decline"}]}

\* A client that can decide and wants to, and one that cannot and lets the
\* workspace requests pass.
TwoRules ==
  {[interactive |-> TRUE, suppress |-> TRUE], [interactive |-> FALSE, suppress |-> FALSE]}
=============================================================================
