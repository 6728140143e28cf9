----------------------------- MODULE TurnLifecycle -----------------------------
(***************************************************************************)
(* The life of POST /v1/responses (and of an ephemeral chat completion) in *)
(* http.rs: reservation, the idle check of the conversation, the provider  *)
(* permit, the send boundary, thread/start or thread/resume, turn/start,   *)
(* reading the turn to its end, and everything that can cut it short - an  *)
(* error, a client that goes away, a store that stops, a crash.  With it   *)
(* run the tasks that share its state: the observer of turn/completed and  *)
(* the control clients (turn status, interrupt, steer).                    *)
(*                                                                         *)
(* A response starts at most one thread and one turn, so both are named    *)
(* by the response: turn r is the turn response r asked for, thread r the  *)
(* one it opened when it continued nothing.  All responses go to one       *)
(* provider; other providers have permits of their own and share nothing   *)
(* else.  A store operation is one step here: it runs under the store's    *)
(* mutex without yielding (ControlStore opens it up).                      *)
(***************************************************************************)
EXTENDS Naturals, Sequences, FiniteSets

CONSTANTS
  Responses,    \* response ids
  Restored,     \* responses an earlier session completed
  Keys,         \* Idempotency-Key values
  Clients,      \* control clients
  Asks,         \* what they may ask: [op, at] - status, interrupt or steer of a turn
  Inputs,       \* per response, the requests [mode, key, prev, suppress] it may be
  Outcomes,     \* the terminal statuses Codex gives a turn
  PermitLimit,  \* the provider's max_concurrent_turns
  MaxFaults,    \* bound: store failures and crashes
  None

Fields == INSTANCE ExecutionRecord
            WITH Threads <- Responses, Turns <- Responses, Bodies <- {}

\* A Responses request and an ephemeral chat completion, each answered at once
\* or as a stream.
Chats == {"chat", "chatStream"}
Streams == {"stream", "chatStream"}
Modes == {"json"} \cup Chats \cup Streams

ASSUME ResponsesAssumption == IsFiniteSet(Responses)
ASSUME NamesAssumption ==
  /\ None \notin Responses \cup Keys \cup Clients \cup Fields!Execution
  /\ Responses \cap Clients = {}
ASSUME RestoredAssumption ==       \* at most one conversation was restored
  Restored \subseteq Responses /\ \A p, q \in Restored : p = q
ASSUME LimitAssumption == PermitLimit \in Nat \ {0} /\ MaxFaults \in Nat
ASSUME OutcomesAssumption == Outcomes \subseteq Fields!Terminal
ASSUME AsksAssumption ==
  Asks \subseteq [op : {"status", "interrupt", "steer"}, at : Responses]
ASSUME InputsAssumption ==
  /\ Inputs \in [Responses -> SUBSET [mode : Modes, key : Keys \cup {None},
                                      prev : Responses \cup {None}, suppress : BOOLEAN]]
  /\ \A r \in Responses : \A x \in Inputs[r] :
       x.prev # r /\ (x.mode \in Chats => x.key = None /\ x.prev = None)

VARIABLES
  records,     \* ControlStore: the memory map
  db,          \* ControlStore: the durable rows
  failed,      \* ControlStore: refuses every call
  mapped,      \* ResponseStore: responses with a mapping to their thread
  faults,      \* store failures and crashes so far
  pc,          \* per response: where its handler is
  req,         \* per response: the request - mode, key, prev, suppress
  conv,        \* per response: the thread it runs on, once it has one
  scan,        \* per response: check_thread_idle - todo, at, got
  guard,       \* thread_locks: per thread, the response that owns it
  control,     \* control_locks: per thread, the response or client inside
  permits,     \* responses that hold a provider permit
  start,       \* Codex: per response, the turn/start request and its answer
  turn,        \* Codex: per response, the state of its turn
  unobserved,  \* turn/completed events the observer has still to take
  cl,          \* per control client: op, at, got, stage
  sent,        \* history: the responses whose turn/start was written, in order
  stops        \* history: per response, the turn/interrupt requests of the API

store == <<records, db, failed, mapped, faults>>
handlers == <<pc, req, conv, scan>>
locks == <<guard, control, permits>>
codex == <<start, turn, unobserved>>
history == <<sent, stops>>
vars == <<store, handlers, locks, codex, cl, history>>

Terminal == Fields!Terminal

\* The places where a handler waits: for what it does next, or, refreshing,
\* joining and starting, for the end of a call that holds an inner lock.
Before == {"received", "locking", "checking", "reading", "refreshing", "waiting",
           "dispatching", "opening", "joining", "sending", "starting"}
Owning == {"announcing", "running", "saving", "interrupting"}
Over == {"done", "gone"}

Idle == [op |-> "none", at |-> None, got |-> None, stage |-> "idle"]
NoScan == [todo |-> {}, at |-> None, got |-> None]

\* A mutation of Holder: a request whose outcome is unknown may be repeated.
HolderKnownOutcome(key) ==
  {r \in Responses : /\ key # None /\ records[r] # None
                     /\ records[r].key = key /\ records[r].phase # "unknown"}

Holder(key) ==
  {r \in Responses : key # None /\ records[r] # None /\ records[r].key = key}

NextSequence ==
  LET seqs == {records[r].seq : r \in {q \in Responses : records[q] # None}}
  IN 1 + (IF seqs = {} THEN 0 ELSE CHOOSE s \in seqs : \A t \in seqs : s >= t)

-----------------------------------------------------------------------------
(* The store as its callers see it.                                        *)

Stores(r, new) ==
  /\ ~failed
  /\ records' = [records EXCEPT ![r] = new]
  /\ db' = [db EXCEPT ![r] = new]
  /\ UNCHANGED <<failed, faults, mapped>>

\* The call returns an error: the store had failed before, or fails now, with
\* the row written or not.
StoreRefuses(r, new) ==
  /\ \/ failed /\ UNCHANGED <<db, faults>>
     \/ /\ ~failed
        /\ faults < MaxFaults
        /\ faults' = faults + 1
        /\ db' \in {db, [db EXCEPT ![r] = new]}
  /\ failed' = TRUE
  /\ UNCHANGED <<records, mapped>>

\* ControlStore::observe: nothing to do for a turn no record has.
Observes(r, status) ==
  IF records[r] # None /\ records[r].turn = r
  THEN Stores(r, Fields!ObserveEdit(records[r], status))
  ELSE ~failed /\ UNCHANGED store

ObserveRefused(r, status) ==
  IF records[r] # None /\ records[r].turn = r
  THEN StoreRefuses(r, Fields!ObserveEdit(records[r], status))
  ELSE failed /\ UNCHANGED store

-----------------------------------------------------------------------------
(* Locks.                                                                  *)

\* Two locks inside the calls a handler makes; whoever holds one is named by its
\* place.  The catalog's refresh lock is held by the request whose model is being
\* resolved (its other users hold no lock of this module), mcp_refresh by the
\* one whose thread/start, thread/resume or turn/start is being answered.
Executing == {"joining", "starting"}

CatalogFree == \A q \in Responses : pc[q] # "refreshing"

RuntimeFree == \A q \in Responses : pc[q] \notin Executing

Without(lock, x) ==
  [t \in Responses |-> IF lock[t] = x THEN None ELSE lock[t]]

\* Everything a handler owns is dropped when it returns or is dropped itself.
Leaves(r) ==
  /\ guard' = Without(guard, r)
  /\ control' = Without(control, r)
  /\ permits' = permits \ {r}

\* begin_turn returns an error: its guards drop, its caller records the error.
Fails(r) ==
  /\ pc' = [pc EXCEPT ![r] = "failing"]
  /\ Leaves(r)

Goes(r, place) == pc' = [pc EXCEPT ![r] = place]

-----------------------------------------------------------------------------
(* create_response and create_chat_completion up to the provider permit.   *)

\* A duplicate key is answered from the record; a new one is reserved.  A chat
\* completion is reserved without key or history, after it was validated.
Reserve(r, x) ==
  LET new == Fields!NewExecution(x.key, None, NextSequence) IN
  /\ pc[r] = "idle"
  /\ x \in Inputs[r]
  /\ req' = [req EXCEPT ![r] = x]
  /\ \/ /\ ~failed /\ Holder(x.key) # {}
        /\ Goes(r, "done")
        /\ UNCHANGED store
     \/ /\ Holder(x.key) = {}
        /\ Stores(r, new)
        /\ Goes(r, IF x.mode \in Chats THEN "waiting" ELSE "received")
     \/ /\ Holder(x.key) = {} \/ failed
        /\ StoreRefuses(r, new)
        /\ Goes(r, "done")
  /\ UNCHANGED <<conv, scan, locks, codex, cl, history>>

\* Only a response that succeeded, and has a mapping, can be continued.
Continuable(p) ==
  /\ p \in mapped
  /\ records[p] # None =>
       records[p].status = "completed" /\ records[p].phase = "finished"

\* The thread is the one the mapping was saved for.
MayClaim(p) == ~failed /\ Continuable(p) /\ guard[conv[p]] = None

\* The previous response is looked up and its thread claimed, without waiting.
ClaimThread(r) ==
  LET p == req[r].prev IN
  /\ pc[r] = "received" /\ p # None
  /\ MayClaim(p)
  /\ guard' = [guard EXCEPT ![conv[p]] = r]
  /\ conv' = [conv EXCEPT ![r] = conv[p]]
  /\ Goes(r, "locking")
  /\ UNCHANGED <<store, req, scan, control, permits, codex, cl, history>>

ClaimRefused(r) ==
  LET p == req[r].prev IN
  /\ pc[r] = "received" /\ p # None
  /\ ~MayClaim(p)
  /\ Fails(r)
  /\ UNCHANGED <<store, req, conv, scan, codex, cl, history>>

\* The executions of a thread whose end is not recorded.
Unsettled(t) ==
  {q \in Responses : /\ records[q] # None /\ records[q].thread = t
                     /\ records[q].status \notin Terminal
                     /\ records[q].phase # "rejected"}

\* A mutation of IdleTodo: an execution no turn id is known for is passed over.
IdleTodoKnownTurns(t) == {q \in Unsettled(t) : records[q].turn # None}

\* check_thread_idle: the records to ask Codex about, read once.
IdleTodo(t) == Unsettled(t)

LockControl(r) ==
  /\ pc[r] = "locking"
  /\ control[conv[r]] = None
  /\ control' = [control EXCEPT ![conv[r]] = r]
  /\ scan' = [scan EXCEPT ![r] = [NoScan EXCEPT !.todo = IdleTodo(conv[r])]]
  /\ Goes(r, "checking")
  /\ UNCHANGED <<store, req, conv, guard, permits, codex, cl, history>>

\* What thread/read says of a turn now, or "unknown" when it cannot say.
ReadAnswers(q) ==
  {"unknown"} \cup (IF turn[q] = "running" THEN {"inProgress"}
                    ELSE IF turn[q] \in Terminal THEN {turn[q]} ELSE {})

\* One record at a time: its turn is read, or is not known and may run.
CheckNext(r, q) ==
  /\ pc[r] = "checking"
  /\ q \in scan[r].todo
  /\ IF records[q].turn = None
     THEN Fails(r) /\ UNCHANGED scan
     ELSE /\ \E s \in ReadAnswers(q) :
               scan' = [scan EXCEPT ![r].at = q, ![r].got = s]
          /\ Goes(r, "reading")
          /\ UNCHANGED locks
  /\ UNCHANGED <<store, req, conv, codex, cl, history>>

\* turn_snapshot records what it read; only a terminal turn lets the check go on.
RecordRead(r) ==
  LET q == scan[r].at
      s == scan[r].got IN
  /\ pc[r] = "reading"
  /\ IF s \in Terminal
     THEN \/ /\ Observes(q, s)
             /\ scan' = [scan EXCEPT ![r] = [NoScan EXCEPT !.todo = scan[r].todo \ {q}]]
             /\ Goes(r, "checking")
             /\ UNCHANGED locks
          \/ ObserveRefused(q, s) /\ Fails(r) /\ UNCHANGED scan
     ELSE /\ IF s = "unknown" THEN UNCHANGED store
             ELSE Observes(q, s) \/ ObserveRefused(q, s)
          /\ Fails(r) /\ UNCHANGED scan
  /\ UNCHANGED <<req, conv, codex, cl, history>>

\* catalog.resolve waits for the refresh lock and refreshes - a continued
\* conversation does so inside its control lock, after it read the store for the
\* model it inherits.
Resolve(r) ==
  /\ \/ pc[r] = "received" /\ req[r].prev = None
     \/ pc[r] = "checking" /\ scan[r].todo = {} /\ ~failed
  /\ CatalogFree
  /\ Goes(r, "refreshing")
  /\ UNCHANGED <<store, req, conv, scan, locks, codex, cl, history>>

\* A mutation of Validated: the control lock is kept while waiting for a permit.
ValidatedKeepsControl(r) ==
  /\ pc[r] = "refreshing"
  /\ req[r].prev # None => ~failed
  /\ Goes(r, "waiting")
  /\ UNCHANGED <<store, req, conv, scan, locks, codex, cl, history>>

\* The model is resolved and the rest of the validation (cwd, input, schema)
\* passes; a continued conversation reads its cwd from the store.
Validated(r) ==
  /\ pc[r] = "refreshing"
  /\ req[r].prev # None => ~failed
  /\ control' = Without(control, r)
  /\ Goes(r, "waiting")
  /\ UNCHANGED <<store, req, conv, scan, guard, permits, codex, cl, history>>

\* Or does not.
Invalid(r) ==
  /\ \/ pc[r] = "refreshing"
     \/ pc[r] = "checking" /\ scan[r].todo = {} /\ failed
  /\ Fails(r)
  /\ UNCHANGED <<store, req, conv, scan, codex, cl, history>>

\* The provider's semaphore.
AcquirePermit(r) ==
  /\ pc[r] = "waiting"
  /\ Cardinality(permits) < PermitLimit
  /\ permits' = permits \cup {r}
  /\ Goes(r, "dispatching")
  /\ UNCHANGED <<store, req, conv, scan, guard, control, codex, cl, history>>

-----------------------------------------------------------------------------
(* begin_turn from the send boundary to the answer of turn/start.          *)

\* A continued conversation takes its control lock again; the boundary is
\* stored before anything is sent.
Dispatch(r) ==
  LET new == Fields!DispatchEdit(records[r], conv[r]) IN
  /\ pc[r] = "dispatching"
  /\ conv[r] # None => control[conv[r]] = None
  /\ \/ /\ Stores(r, new)
        /\ control' = [t \in Responses |-> IF t = conv[r] THEN r ELSE control[t]]
        /\ Goes(r, "opening")
        /\ UNCHANGED <<guard, permits>>
     \/ StoreRefuses(r, new) /\ Fails(r)
  /\ UNCHANGED <<req, conv, scan, codex, cl, history>>

\* start_error: an explicit refusal (-32602) is recorded as such.
RefusalRecorded(r) ==
  LET new == Fields!RejectEdit(records[r])
  IN (Stores(r, new) \/ StoreRefuses(r, new)) /\ Fails(r)

\* thread/start or thread/resume gets its turn at mcp_refresh; the lock is held
\* until the answer, over the reload of the tool servers that may come first.
OpenThread(r) ==
  /\ pc[r] = "opening"
  /\ RuntimeFree
  /\ Goes(r, "joining")
  /\ UNCHANGED <<store, req, conv, scan, locks, codex, cl, history>>

\* It is refused, fails, times out, or answers without a thread id.
ThreadNotOpened(r) ==
  /\ pc[r] = "joining"
  /\ \/ RefusalRecorded(r)
     \/ Fails(r) /\ UNCHANGED store
  /\ UNCHANGED <<req, conv, scan, codex, cl, history>>

\* A mutation of Suppressed: only the request itself is looked at.
SuppressedByRequest(r, t) == req[r].suppress

\* Suppression asked for now, or by any execution of the thread before.
Suppressed(r, t) ==
  \/ req[r].suppress
  \/ \E q \in Responses :
       records[q] # None /\ records[q].thread = t /\ records[q].suppress

\* thread/resume or thread/start succeeds.  A new thread is nobody else's, so
\* its two locks are free; the thread and its suppression are stored.
ThreadOpened(r) ==
  LET t == IF conv[r] = None THEN r ELSE conv[r]
      new == Fields!ThreadEdit(records[r], t, Suppressed(r, t)) IN
  /\ pc[r] = "joining"
  /\ guard[t] \in {None, r} /\ control[t] \in {None, r}
  /\ conv' = [conv EXCEPT ![r] = t]
  /\ \/ /\ Stores(r, new)
        /\ guard' = [guard EXCEPT ![t] = r]
        /\ control' = [control EXCEPT ![t] = r]
        /\ Goes(r, "sending")
        /\ UNCHANGED permits
     \/ StoreRefuses(r, new) /\ Fails(r)
  /\ UNCHANGED <<req, scan, codex, cl, history>>

\* turn/start gets its turn at mcp_refresh and is written.
SendStart(r) ==
  /\ pc[r] = "sending"
  /\ RuntimeFree
  /\ start' = [start EXCEPT ![r] = "sent"]
  /\ sent' = Append(sent, r)
  /\ Goes(r, "starting")
  /\ UNCHANGED <<store, req, conv, scan, locks, turn, unobserved, cl, stops>>

\* Or it is not: the reload before it fails or is refused, or the transport is
\* closed.
StartNotSent(r) ==
  /\ pc[r] = "sending"
  /\ RuntimeFree
  /\ \/ RefusalRecorded(r)
     \/ Fails(r) /\ UNCHANGED store
  /\ UNCHANGED <<req, conv, scan, codex, cl, history>>

\* The answer names the turn: begin_turn stores it and returns, and with it
\* goes the control lock.  If the store refuses, the turn is interrupted.
Started(r) ==
  LET new == Fields!StartEdit(records[r], r) IN
  /\ pc[r] = "starting" /\ start[r] = "accepted"
  /\ \/ /\ Stores(r, new)
        /\ Goes(r, IF req[r].mode \in Streams THEN "announcing" ELSE "running")
        /\ control' = Without(control, r)
        /\ UNCHANGED <<guard, permits>>
     \/ StoreRefuses(r, new) /\ Fails(r)
  /\ UNCHANGED <<req, conv, scan, codex, cl, history>>

\* A stream goes on in a task of its own, started once the response is logged.
Announced(r) ==
  /\ pc[r] = "announcing"
  /\ Goes(r, "running")
  /\ UNCHANGED <<store, req, conv, scan, locks, codex, cl, history>>

\* The answer names no turn.
StartedUnnamed(r) ==
  LET new == Fields!StartEdit(records[r], None) IN
  /\ pc[r] = "starting" /\ start[r] = "unnamed"
  /\ Stores(r, new) \/ StoreRefuses(r, new)
  /\ Fails(r)
  /\ UNCHANGED <<req, conv, scan, codex, cl, history>>

\* turn/start was refused; any other error or a timeout says nothing.
NotStarted(r) ==
  /\ pc[r] = "starting"
  /\ \/ start[r] = "refused" /\ RefusalRecorded(r)
     \/ start[r] # "refused" /\ Fails(r) /\ UNCHANGED store
  /\ UNCHANGED <<req, conv, scan, codex, cl, history>>

\* create_response records that begin_turn failed; a chat completion does not.
RecordFailure(r) ==
  LET new == Fields!BeginErrorEdit(records[r]) IN
  /\ pc[r] = "failing"
  /\ IF req[r].mode \in Chats THEN UNCHANGED store
     ELSE Stores(r, new) \/ StoreRefuses(r, new)
  /\ Goes(r, "done")
  /\ UNCHANGED <<req, conv, scan, locks, codex, cl, history>>

-----------------------------------------------------------------------------
(* Reading the turn to its end: collect_turn_text, run_stream and          *)
(* run_chat_stream.                                                        *)

Ends(r) == Goes(r, "done") /\ Leaves(r)

\* turn/completed.  A stream only logs a store error; the others stop on it.
\* Of a chat completion no mapping is saved.
SeesEnd(r) ==
  /\ pc[r] = "running" /\ turn[r] \in Terminal
  /\ \/ /\ \/ Observes(r, turn[r])
           \/ req[r].mode \in Streams /\ ObserveRefused(r, turn[r])
        /\ CASE turn[r] = "completed" /\ req[r].mode \notin Chats ->
                  Goes(r, "saving") /\ UNCHANGED locks
             [] turn[r] # "completed" /\ req[r].mode \notin Streams ->
                  Goes(r, "interrupting") /\ UNCHANGED locks
             [] OTHER -> Ends(r)
     \/ /\ req[r].mode \notin Streams /\ ObserveRefused(r, turn[r])
        /\ Goes(r, "interrupting") /\ UNCHANGED locks
  /\ UNCHANGED <<req, conv, scan, codex, cl, history>>

\* The mapping that makes the response continuable.
SaveMapping(r) ==
  /\ pc[r] = "saving"
  /\ \/ ~failed /\ mapped' = mapped \cup {r} /\ UNCHANGED <<records, db, failed, faults>>
     \/ StoreRefuses(r, records[r])
  /\ Ends(r)
  /\ UNCHANGED <<req, conv, scan, codex, cl, history>>

\* Idle timeout, stall, or an interaction the client cannot handle: the turn is
\* interrupted, and the handler ends when that request has an answer.
GivesUp(r) ==
  /\ pc[r] = "running"
  /\ Goes(r, "interrupting")
  /\ UNCHANGED <<store, req, conv, scan, locks, codex, cl, history>>

\* The event channel lagged or closed: the stream of a response just ends.
LosesEvents(r) ==
  /\ pc[r] = "running"
  /\ IF req[r].mode = "stream" THEN Ends(r)
     ELSE Goes(r, "interrupting") /\ UNCHANGED locks
  /\ UNCHANGED <<store, req, conv, scan, codex, cl, history>>

InterruptAnswered(r) ==
  /\ pc[r] = "interrupting"
  /\ Ends(r)
  /\ UNCHANGED <<store, req, conv, scan, codex, cl, history>>

\* A stream that runs in a task of its own.
Streaming(r) == req[r].mode \in Streams /\ pc[r] \in Owning \ {"announcing"}

\* The client goes away.  The handler is dropped where it waits; the task of a
\* stream interrupts the turn first.
Disconnect(r) ==
  /\ pc[r] \in Before \cup Owning
  /\ IF Streaming(r)
     THEN /\ pc[r] = "running"
          /\ Goes(r, "interrupting") /\ UNCHANGED locks
     ELSE Goes(r, "gone") /\ Leaves(r)
  /\ UNCHANGED <<store, req, conv, scan, codex, cl, history>>

-----------------------------------------------------------------------------
(* Codex, as this code uses it (external), and the observer task.          *)

\* It takes a turn/start whether or not its sender still waits.
TakeStart(r) ==
  /\ start[r] = "sent"
  /\ \/ /\ start' = [start EXCEPT ![r] = "accepted"]
        /\ turn' = [turn EXCEPT ![r] = "running"]
     \/ /\ start' = [start EXCEPT ![r] = "unnamed"]
        /\ turn' = [turn EXCEPT ![r] = "running"]
     \/ /\ start' = [start EXCEPT ![r] = "refused"]
        /\ UNCHANGED turn
  /\ UNCHANGED <<store, handlers, locks, unobserved, cl, history>>

\* A turn ends and turn/completed is broadcast.
FinishTurn(r) ==
  /\ turn[r] = "running"
  /\ \E s \in Outcomes : turn' = [turn EXCEPT ![r] = s]
  /\ unobserved' = unobserved \cup {r}
  /\ UNCHANGED <<store, handlers, locks, start, cl, history>>

\* The background task of AppState::new; it goes on after a store error.
ObserveEnd(r) ==
  /\ r \in unobserved
  /\ Observes(r, turn[r]) \/ ObserveRefused(r, turn[r])
  /\ unobserved' = unobserved \ {r}
  /\ UNCHANGED <<handlers, locks, start, turn, cl, history>>

\* Lagged: the event is overwritten before the observer reads it.
ObserverLags(r) ==
  /\ r \in unobserved
  /\ unobserved' = unobserved \ {r}
  /\ UNCHANGED <<store, handlers, locks, start, turn, cl, history>>

-----------------------------------------------------------------------------
(* Control clients: turn status, interrupt and steer.                      *)

\* A mutation of FirstStage: interrupt and steer do not take the control lock.
FirstStageUnlocked(op) == "read"

FirstStage(op) == IF op = "status" THEN "read" ELSE "lock"

Ask(c, a) ==
  /\ cl[c].stage = "idle"
  /\ ~failed /\ records[a.at] # None /\ records[a.at].turn = a.at
  /\ cl' = [cl EXCEPT ![c] = [op |-> a.op, at |-> a.at, got |-> None,
                             stage |-> FirstStage(a.op)]]
  /\ UNCHANGED <<store, handlers, locks, codex, history>>

ClientLock(c) ==
  LET t == records[cl[c].at].thread IN
  /\ cl[c].stage = "lock"
  /\ control[t] = None
  /\ control' = [control EXCEPT ![t] = c]
  /\ cl' = [cl EXCEPT ![c].stage = "read"]
  /\ UNCHANGED <<store, handlers, guard, permits, codex, history>>

ClientReads(c) ==
  /\ cl[c].stage = "read"
  /\ \E s \in ReadAnswers(cl[c].at) :
       cl' = [cl EXCEPT ![c].got = s, ![c].stage = "observe"]
  /\ UNCHANGED <<store, handlers, locks, codex, history>>

\* A mutation of ClientEnds: the control lock outlives the request.
ClientEndsKeepsControl(c) == cl' = [cl EXCEPT ![c] = Idle] /\ UNCHANGED locks

\* The client's request is over, answered or dropped with its connection.
ClientEnds(c) ==
  /\ cl' = [cl EXCEPT ![c] = Idle]
  /\ control' = Without(control, c)
  /\ UNCHANGED <<guard, permits>>

\* What thread/read said is recorded, however long ago it said it.
ClientObserves(c) ==
  LET r == cl[c].at
      s == cl[c].got IN
  /\ cl[c].stage = "observe"
  /\ \/ /\ IF s = "unknown" THEN UNCHANGED store ELSE Observes(r, s)
        /\ IF cl[c].op = "status" THEN ClientEnds(c)
           ELSE cl' = [cl EXCEPT ![c].stage = "decide"] /\ UNCHANGED locks
     \/ s # "unknown" /\ ObserveRefused(r, s) /\ ClientEnds(c)
  /\ UNCHANGED <<handlers, codex, history>>

\* A mutation of MayAct: an interruption asked for before is not looked at.
MayActAgain(c) == ~failed /\ cl[c].got = "inProgress"

\* Steer and interrupt go on only for a turn read as in progress with no
\* interruption asked for; an interrupt is stored before it is sent, and a
\* steer is refused as well while the turn waits for an approval or for input.
MayAct(c) ==
  /\ ~failed
  /\ cl[c].got = "inProgress"
  /\ records[cl[c].at].intr = "none"

ClientDecides(c) ==
  LET r == cl[c].at
      new == Fields!InterruptEdit(records[r], "unknown") IN
  /\ cl[c].stage = "decide"
  /\ \/ (~MayAct(c) \/ cl[c].op = "steer") /\ ClientEnds(c) /\ UNCHANGED store
     \/ /\ MayAct(c)
        /\ \/ /\ IF cl[c].op = "interrupt" THEN Stores(r, new) ELSE UNCHANGED store
              /\ cl' = [cl EXCEPT ![c].stage = "send"]
              /\ UNCHANGED locks
           \/ cl[c].op = "interrupt" /\ StoreRefuses(r, new) /\ ClientEnds(c)
  /\ UNCHANGED <<handlers, codex, history>>

ClientSends(c) ==
  /\ cl[c].stage = "send"
  /\ cl' = [cl EXCEPT ![c].stage = "sent"]
  /\ stops' = IF cl[c].op = "interrupt"
              THEN [stops EXCEPT ![cl[c].at] = @ + 1] ELSE stops
  /\ UNCHANGED <<store, handlers, locks, codex, sent>>

\* The request is accepted; an error leaves the interruption unknown.
ClientAnswered(c) ==
  LET r == cl[c].at
      new == Fields!InterruptEdit(records[r], "accepted") IN
  /\ cl[c].stage = "sent"
  /\ \/ cl[c].op = "interrupt" /\ (Stores(r, new) \/ StoreRefuses(r, new))
     \/ UNCHANGED store
  /\ ClientEnds(c)
  /\ UNCHANGED <<handlers, codex, history>>

ClientGone(c) ==
  /\ cl[c].stage # "idle"
  /\ ClientEnds(c)
  /\ UNCHANGED <<store, handlers, codex, history>>

-----------------------------------------------------------------------------
(* The process dies, its Codex with it, and a new one opens the store.     *)

Reopen == [r \in Responses |-> IF db[r] = None THEN None ELSE Fields!Reopened(db[r])]

Crash ==
  /\ faults < MaxFaults
  /\ faults' = faults + 1
  /\ records' = Reopen
  /\ failed' = FALSE
  /\ pc' = [r \in Responses |-> IF pc[r] \in {"idle", "done"} THEN pc[r] ELSE "gone"]
  /\ scan' = [r \in Responses |-> NoScan]
  /\ guard' = [t \in Responses |-> None]
  /\ control' = [t \in Responses |-> None]
  /\ permits' = {}
  /\ start' = [r \in Responses |-> IF start[r] = "sent" THEN "lost" ELSE start[r]]
  /\ turn' = [r \in Responses |-> IF turn[r] = "running" THEN "interrupted" ELSE turn[r]]
  /\ unobserved' = {}
  /\ cl' = [c \in Clients |-> Idle]
  /\ UNCHANGED <<db, mapped, req, conv, history>>

-----------------------------------------------------------------------------
\* What an earlier session left of a response it completed.
RestoredRecord(r) ==
  [Fields!NewExecution(None, None, 1) EXCEPT !.phase = "finished", !.thread = r,
     !.turn = r, !.status = "completed"]

Init ==
  /\ db = [r \in Responses |-> IF r \in Restored THEN RestoredRecord(r) ELSE None]
  /\ records = db /\ mapped = Restored /\ failed = FALSE /\ faults = 0
  /\ pc = [r \in Responses |-> IF r \in Restored THEN "done" ELSE "idle"]
  /\ req = [r \in Responses |-> [mode |-> "json", key |-> None, prev |-> None,
                             suppress |-> FALSE]]
  /\ conv = [r \in Responses |-> IF r \in Restored THEN r ELSE None]
  /\ scan = [r \in Responses |-> NoScan]
  /\ guard = [t \in Responses |-> None] /\ control = [t \in Responses |-> None]
  /\ permits = {}
  /\ start = [r \in Responses |-> IF r \in Restored THEN "accepted" ELSE "none"]
  /\ turn = [r \in Responses |-> IF r \in Restored THEN "completed" ELSE "none"]
  /\ unobserved = {}
  /\ cl = [c \in Clients |-> Idle]
  /\ sent = <<>>
  /\ stops = [r \in Responses |-> 0]

Handle(r) ==
  \/ ClaimThread(r) \/ ClaimRefused(r) \/ LockControl(r)
  \/ (\E q \in Responses : CheckNext(r, q)) \/ RecordRead(r)
  \/ Resolve(r) \/ Validated(r) \/ Invalid(r) \/ AcquirePermit(r)
  \/ Dispatch(r) \/ OpenThread(r) \/ ThreadOpened(r) \/ ThreadNotOpened(r)
  \/ SendStart(r) \/ StartNotSent(r) \/ Started(r) \/ Announced(r)
  \/ StartedUnnamed(r) \/ NotStarted(r)
  \/ RecordFailure(r) \/ SeesEnd(r) \/ SaveMapping(r) \/ GivesUp(r)
  \/ LosesEvents(r) \/ InterruptAnswered(r)

Serve(c) ==
  \/ ClientLock(c) \/ ClientReads(c) \/ ClientObserves(c) \/ ClientDecides(c)
  \/ ClientSends(c) \/ ClientAnswered(c)

Next ==
  \/ \E r \in Responses :
       \/ (\E x \in Inputs[r] : Reserve(r, x)) \/ Handle(r) \/ Disconnect(r)
       \/ TakeStart(r) \/ FinishTurn(r) \/ ObserveEnd(r) \/ ObserverLags(r)
  \/ \E c \in Clients :
       \/ (\E a \in Asks : Ask(c, a))
       \/ Serve(c) \/ ClientGone(c)
  \/ Crash

Spec == Init /\ [][Next]_vars

\* Every RPC a handler or a control client waits for is answered or times out,
\* and a running handler leaves its turn (the turn ends, or its idle timeout
\* runs out).  Strong fairness where a task waits for a lock or a permit: the
\* tokio mutexes and semaphores serve their waiters in order.
Fairness ==
  /\ \A r \in Responses \ Restored : SF_vars(Handle(r))
  /\ \A c \in Clients : SF_vars(Serve(c))

FairSpec == Spec /\ Fairness

-----------------------------------------------------------------------------
(* Invariants.                                                             *)

Places == {"idle", "failing"} \cup Before \cup Owning \cup Over

Starts == {"none", "sent", "accepted", "unnamed", "refused", "lost"}

TurnStates == {"none", "running"} \cup Terminal

Reads == Fields!Statuses

\* The shape of the state.
TypeOK ==
  /\ records \in [Responses -> Fields!Execution \cup {None}]
  /\ db \in [Responses -> Fields!Execution \cup {None}]
  /\ failed \in BOOLEAN /\ mapped \subseteq Responses /\ faults \in Nat
  /\ pc \in [Responses -> Places]
  /\ req \in [Responses -> [mode : Modes, key : Keys \cup {None},
                            prev : Responses \cup {None}, suppress : BOOLEAN]]
  /\ conv \in [Responses -> Responses \cup {None}]
  /\ scan \in [Responses -> [todo : SUBSET Responses, at : Responses \cup {None},
                             got : Reads \cup {None}]]
  /\ guard \in [Responses -> Responses \cup {None}]
  /\ control \in [Responses -> Responses \cup Clients \cup {None}]
  /\ permits \subseteq Responses
  /\ start \in [Responses -> Starts] /\ turn \in [Responses -> TurnStates]
  /\ unobserved \subseteq Responses
  /\ cl \in [Clients -> [op : {"none", "status", "interrupt", "steer"},
                         at : Responses \cup {None}, got : Reads \cup {None},
                         stage : {"idle", "lock", "read", "observe", "decide",
                                  "send", "sent"}]]
  /\ sent \in Seq(Responses) /\ stops \in [Responses -> Nat]

\* A turn that runs, or will run unless Codex refuses it.
Active(r) == start[r] = "sent" \/ turn[r] = "running"

\* A thread never has two turns that run or are about to: not after a client
\* went away in the middle of a start, nor after a timeout whose turn Codex
\* starts later, nor after a restart (docs/...-system-design.md:2179).
OneActiveTurnPerThread ==
  \A r, q \in Responses :
    Active(r) /\ Active(q) /\ conv[r] = conv[q] => r = q

Written == {sent[n] : n \in DOMAIN sent}

\* One client request id never starts two turns, over restarts and after
\* failed writes (docs/control-api.ja.md:25, docs/api-reference.md:289).
KeyStartsOneTurn ==
  /\ \A m, n \in DOMAIN sent : sent[m] = sent[n] => m = n
  /\ \A r, q \in Written :
       r # q /\ db[r] # None /\ db[q] # None /\ db[r].key # None => db[r].key # db[q].key

\* What was sent is known to the disk before it is sent: no restart finds a
\* response "received" whose turn/start was written, and none "rejected"
\* whose turn Codex ran (docs/control-api.ja.md:83-89).
SendBoundaryDurable ==
  \A r \in Written :
    /\ db[r] # None /\ db[r].phase # "received"
    /\ turn[r] # "none" => db[r].phase # "rejected"

\* A recorded outcome is the outcome Codex gave the turn, in memory and on
\* disk, and a response that can be continued succeeded.
OutcomesAreReal ==
  /\ \A table \in {records, db}, r \in Responses :
       table[r] # None /\ table[r].status \in Terminal => turn[r] = table[r].status
  /\ \A r \in mapped : turn[r] = "completed"

\* Once approval suppression holds on a thread it holds for every later turn
\* of the thread (docs/control-api.ja.md:52).
SuppressionSticks ==
  \A m, n \in DOMAIN sent :
    /\ m < n /\ conv[sent[m]] = conv[sent[n]] /\ db[sent[m]].suppress
    => db[sent[n]].suppress

\* The interrupt API makes at most one interruption request per turn, whatever
\* clients repeat and whoever crashes (docs/control-api.ja.md:43).  One request
\* includes its retries of an explicit "no active turn" (request_interrupt).
InterruptSentOnce == \A r \in Responses : stops[r] <= 1

\* While an interrupt or a steer of a turn is on its way, no other turn of its
\* thread is being started (docs/control-api.ja.md:46).
ControlNeverRacesNextStart ==
  \A c \in Clients, q \in Responses :
    cl[c].stage \in {"send", "sent"} /\ q # cl[c].at /\ conv[q] = conv[cl[c].at]
      => start[q] # "sent" /\ pc[q] # "sending"

\* The locks a request waits for have an order: the permit, the control lock of
\* a thread, the catalog's refresh lock, mcp_refresh.  (The guard of a thread is
\* never waited for: a thread in use is refused.)
Awaits(r) ==
  CASE pc[r] = "waiting" -> 1
    [] pc[r] \in {"locking", "dispatching"} -> 2
    [] pc[r] = "received" /\ req[r].prev = None -> 3
    [] pc[r] = "checking" /\ scan[r].todo = {} -> 3
    [] pc[r] \in {"opening", "sending"} -> 4
    [] OTHER -> 5

Holds(r) ==
  {n \in 1..4 :
     \/ n = 1 /\ r \in permits
     \/ n = 2 /\ \E t \in Responses : control[t] = r
     \/ n = 3 /\ pc[r] = "refreshing"
     \/ n = 4 /\ pc[r] \in Executing}

\* Nobody waits for a lock while holding that lock or a later one, so tasks that
\* wait for locks never wait in a circle.  Inside the control lock a handler does
\* wait - for the catalog's refresh (http.rs:1113), for mcp_refresh
\* (runtime.rs:236) and for answers - but never for a permit or for a control
\* lock (http.rs:1075-1276), and a control client waits for answers only.
LocksTakenInOrder ==
  /\ \A r \in Responses : \A n \in Holds(r) : n < Awaits(r)
  /\ \A t \in Responses :
       control[t] \in Clients => cl[control[t]].stage \notin {"idle", "lock"}

\* The handlers keep the promises of the execution ledger.
Ledger == INSTANCE ExecutionLedger
            WITH Ids <- Responses, Threads <- Responses, Turns <- Responses,
                 Bodies <- {}, ledger <- db
LedgerKept == [][Ledger!LedgerNext]_db

\* Every accepted request comes to an end, and with it its thread, its permit and
\* its turns at the inner locks come free, whoever else wants them: no order in
\* which they are taken makes the tasks wait on one another.  (A restored response
\* ended in the session before.)
RequestsSettle ==
  \A r \in Responses \ Restored : pc[r] \notin Over \cup {"idle"} ~> pc[r] \in Over

\* So does every control request.
ControlSettles == \A c \in Clients : cl[c].stage # "idle" ~> cl[c].stage = "idle"

\* A recorded terminal status does not change (docs/...-system-design.md:1043).
TerminalStatusIsFinal ==
  [][\A r \in Responses :
       records[r] # None /\ records[r].status \in Terminal /\ records'[r] # None
         => records'[r].status = records[r].status]_vars

=============================================================================
