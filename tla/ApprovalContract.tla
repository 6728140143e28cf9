--------------------------- MODULE ApprovalContract ---------------------------
(***************************************************************************)
(* What Codex and the clients are promised of the requests for approval,   *)
(* without tasks, timers, contexts and queues: a request that is settled   *)
(* stays so, as the reducer of approval.rs has it, and Codex is told at    *)
(* most once, what it was settled as - or nothing, when the request was    *)
(* withdrawn.  A request the proxy does not support is refused and never   *)
(* recorded.  Approvals implements it.                                     *)
(***************************************************************************)
EXTENDS Sequences

CONSTANT Requests

VARIABLES
  verdict,   \* per request: "none", "pending", "withdrawn" or one of Verdicts
  answers    \* per request: what Codex was told, in order

vars == <<verdict, answers>>

\* "cancel" is what an automatic approval comes to that Codex offers no
\* acceptance for; all others are a client's, a timer's or the proxy's.
Verdicts == {"accept", "accept_for_session", "cancel", "denied", "expired", "cancelled"}

\* The decision Codex is told.
Wire(v) ==
  CASE v \in {"accept", "accept_for_session"} -> v
    [] v \in {"denied", "expired"} -> "decline"
    [] OTHER -> "cancel"

Init ==
  /\ verdict = [i \in Requests |-> "none"]
  /\ answers = [i \in Requests |-> <<>>]

Untold(i) == answers[i] = <<>>

Open(i) ==
  /\ verdict[i] = "none" /\ Untold(i)
  /\ verdict' = [verdict EXCEPT ![i] = "pending"]
  /\ UNCHANGED answers

Settle(i, v) ==
  /\ verdict[i] \in {"none", "pending"} /\ Untold(i)
  /\ verdict' = [verdict EXCEPT ![i] = v]
  /\ UNCHANGED answers

Withdraw(is) ==
  /\ \A i \in is : verdict[i] = "pending" /\ Untold(i)
  /\ verdict' = [i \in Requests |-> IF i \in is THEN "withdrawn" ELSE verdict[i]]
  /\ UNCHANGED answers

Tell(i) ==
  /\ verdict[i] \in Verdicts /\ Untold(i)
  /\ answers' = [answers EXCEPT ![i] = <<Wire(verdict[i])>>]
  /\ UNCHANGED verdict

Refuse(i) ==
  /\ verdict[i] = "none" /\ Untold(i)
  /\ answers' = [answers EXCEPT ![i] = <<"error">>]
  /\ UNCHANGED verdict

Next ==
  \/ \E i \in Requests : Open(i) \/ (\E v \in Verdicts : Settle(i, v)) \/ Tell(i) \/ Refuse(i)
  \/ \E is \in SUBSET Requests : Withdraw(is)

Spec == Init /\ [][Next]_vars
=============================================================================
