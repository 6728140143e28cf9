---------------------------- MODULE ExecutionRecord ----------------------------
(***************************************************************************)
(* The execution record of control.rs and the changes the HTTP handlers    *)
(* apply to it.  One record stands for one accepted POST /v1/responses (or *)
(* one ephemeral chat completion); ControlStore keeps it durable and       *)
(* TurnLifecycle drives it.  Every change below is the closure one call of *)
(* ControlStore::update passes, so it is applied to the record as it is    *)
(* under the store's lock.                                                 *)
(*                                                                         *)
(* Left out of the record: response_id (the records are a function of it), *)
(* model_id and cwd (inherited by a continuation, planned as a module of   *)
(* their own) and the two timestamps, which nothing decides on.            *)
(***************************************************************************)
EXTENDS Naturals

CONSTANTS
  Threads,   \* Codex thread ids
  Turns,     \* Codex turn ids
  Keys,      \* client request ids (the Idempotency-Key header)
  Bodies,    \* fingerprints of a canonical request body
  None       \* an absent Option

Phases == {"received", "dispatching", "started", "rejected", "finished", "unknown"}

Terminal == {"completed", "failed", "interrupted"}

Statuses == {"unknown", "inProgress"} \cup Terminal

Execution ==
  [key : Keys \cup {None}, body : Bodies \cup {None}, seq : Nat,
   phase : Phases, thread : Threads \cup {None}, turn : Turns \cup {None},
   status : Statuses, suppress : BOOLEAN,
   intr : {"none", "unknown", "accepted"}]

ASSUME NoneAssumption ==
  None \notin Threads \cup Turns \cup Keys \cup Bodies \cup Execution

\* Execution::new, with the sequence number reserve assigns.
NewExecution(key, body, seq) ==
  [key |-> key, body |-> body, seq |-> seq, phase |-> "received",
   thread |-> None, turn |-> None, status |-> "unknown",
   suppress |-> FALSE, intr |-> "none"]

\* A mutation of Reopened: a send that was cut off is reported as failed.
ReopenedAsFailed(r) ==
  IF r.phase \in {"dispatching", "started"} /\ r.status \notin Terminal
  THEN [r EXCEPT !.phase = "finished", !.status = "failed"]
  ELSE r

\* What ControlStore::open makes of a stored record, in memory only: a send
\* whose outcome no one recorded is unknown from now on.
Reopened(r) ==
  IF r.phase \in {"dispatching", "started"} /\ r.status \notin Terminal
  THEN [r EXCEPT !.phase = "unknown"]
  ELSE r

-----------------------------------------------------------------------------
(* The closures.                                                           *)

\* The send boundary, written before any upstream call.
DispatchEdit(r, thread) == [r EXCEPT !.phase = "dispatching", !.thread = thread]

\* The thread is known; the approval suppression that holds on it is recorded.
ThreadEdit(r, thread, suppress) ==
  [r EXCEPT !.thread = thread, !.suppress = suppress]

\* A mutation of StartEdit: the status Codex reports is taken for the phase.
StartEditStatusAsPhase(r, turn) ==
  [r EXCEPT !.turn = turn, !.status = "inProgress",
            !.phase = IF turn = None THEN "unknown" ELSE "inProgress"]

\* The answer to turn/start, which may lack the turn id.
StartEdit(r, turn) ==
  [r EXCEPT !.turn = turn,
            !.phase = IF turn = None THEN "unknown" ELSE "started",
            !.status = IF turn = None THEN "unknown" ELSE "inProgress"]

\* start_error: Codex refused the parameters (-32602).
RejectEdit(r) == [r EXCEPT !.phase = "rejected"]

\* A mutation of BeginErrorEdit: every failed start is reported as rejected.
BeginErrorEditAlwaysRejects(r) == [r EXCEPT !.phase = "rejected"]

\* A mutation of BeginErrorEdit: the client may send the request again.
BeginErrorEditRetryable(r) == [r EXCEPT !.phase = "received"]

\* A mutation of BeginErrorEdit: the status of the answer is taken for the phase.
BeginErrorEditStatusAsPhase(r) == [r EXCEPT !.phase = "failed"]

\* create_response, when begin_turn returned an error.
BeginErrorEdit(r) ==
  [r EXCEPT !.phase = IF @ \in {"received", "rejected"}
                      THEN "rejected" ELSE "unknown"]

\* control_interrupt, before ("unknown") and after ("accepted") it sends.
InterruptEdit(r, state) == [r EXCEPT !.intr = state]

\* ControlStore::observe.
ObserveEdit(r, status) ==
  [r EXCEPT !.status = status,
            !.phase = IF status \in Terminal THEN "finished" ELSE @]
=============================================================================
