------------------------------ MODULE CodexRuntime ------------------------------
(***************************************************************************)
(* runtime.rs with the reducer of domain.rs, the MCP refresh of            *)
(* user_config.rs and the supervision in main.rs: one Codex app-server     *)
(* process, spoken to over its stdin and stdout.                           *)
(*                                                                         *)
(* A task that calls Codex registers a numbered request, writes its line   *)
(* inside the stdin lock and waits for the answer the reader hands it, or  *)
(* for a timeout.  Calls that begin an execution first hold the refresh    *)
(* lock, compare the user's MCP settings with those Codex was last told    *)
(* of, and have Codex reload them when they differ.  Answers to server     *)
(* requests and notifications are only written.  A write that does not     *)
(* complete - its task was dropped, or the pipe broke - may leave half a   *)
(* line behind, so its guard fences the transport: it closes it, and fails *)
(* the requests that wait.  The reader does the same at the end of stdout. *)
(* A monitor polls for the exit of the process, and main stops the proxy   *)
(* for its supervisor to restart when the transport or the process is gone.*)
(*                                                                         *)
(* One task stands for one call or one answer.  Lines keep their number,   *)
(* what they are, and whether they are whole.                              *)
(***************************************************************************)
EXTENDS Naturals, Sequences

CONSTANTS
  Calls,       \* calls of handlers, of control clients and of the catalog
  Gated,       \* those of them that begin or resume an execution
  Answers,     \* answers to server requests
  Settings,    \* what the user's MCP settings may be
  FirstSettings,  \* what they are when the proxy starts
  MaxEdits,    \* bound: changes of the user's settings
  MaxAsks,     \* bound: server requests
  None

Boot == "boot"
Tasks == {Boot} \cup Calls \cup Answers
Callers == {Boot} \cup Calls

\* What a line is: a reload of the settings, a task's own request, or one that
\* waits for no answer; and what the channel of a call may hold.
Lines == {"reload", "main", "note"}
Results == [task : Tasks \cup {None}, line : Lines, ok : BOOLEAN]

ASSUME TasksAssumption ==
  Boot \notin Calls \cup Answers /\ Calls \cap Answers = {} /\ Gated \subseteq Calls
ASSUME SettingsAssumption == FirstSettings \in Settings
ASSUME BoundsAssumption == MaxEdits \in Nat /\ MaxAsks \in Nat
ASSUME NoneAssumption == None \notin Tasks \cup Settings /\ None \notin Results

VARIABLES
  state,      \* RuntimeState
  child,      \* the Option holds the process
  main,       \* where main, with launch and shutdown, is
  reader,     \* where the reader of stdout is
  monitor,    \* where the process monitor is
  closed,     \* transport_closed
  nextId,     \* next_id
  pending,    \* registered requests: [id, task]
  stdin,      \* holder of the stdin lock
  refresh,    \* holder of the mcp_refresh lock
  applied,    \* McpRefresh: settings acknowledged last
  reloading,  \* McpRefresh.pending: a reload is not acknowledged
  generated,  \* settings in the generated config.toml
  at,         \* where each task is
  line,       \* per task, what it writes now: "reload", "main", "note"
  id,         \* per task, the number of its request
  slot,       \* per task, what its oneshot channel holds
  seen,       \* per task, the user's settings it found
  source,     \* environment: the user's MCP settings
  edits, asks,  \* environment: how often it acted
  process,    \* Codex: it runs
  pipe,       \* Codex: lines written to its stdin and not read yet
  open,       \* Codex: requests it has read and not answered
  loaded,     \* Codex: the MCP settings it uses
  out,        \* Codex: lines it has written and the reader has not read
  ran         \* history: per gated call, the settings it was run with

supervision == <<state, child, main, monitor>>
requests == <<nextId, pending, id, slot>>
mcp == <<refresh, applied, reloading, generated, seen>>
codex == <<process, pipe, open, loaded, out, ran>>
environment == <<source, edits, asks>>
vars == <<supervision, reader, closed, requests, stdin, mcp, at, line, codex, environment>>

-----------------------------------------------------------------------------
(* The state of the runtime.                                               *)

Failing == {"Recovering", "Failed"}

\* reduce_runtime, as far as its events occur: a process is spawned once.
Reduce(s, event) ==
  CASE event = "InitializeSucceeded" /\ s = "Initializing" -> "Ready"
    [] event = "InitializeFailed" /\ s = "Initializing" -> "Failed"
    [] event = "ProcessExited" /\ s \in {"Starting", "Initializing", "Ready"} -> "Recovering"
    [] event = "ShutdownRequested" /\ s \notin {"Stopped", "ShuttingDown"} -> "ShuttingDown"
    [] event = "ShutdownCompleted" /\ s = "ShuttingDown" -> "Stopped"
    [] OTHER -> s

-----------------------------------------------------------------------------
(* Calls and answers.                                                      *)

\* A task is through; if it held the refresh lock it lets go of it.
Leaves(t, where) ==
  /\ at' = [at EXCEPT ![t] = where]
  /\ refresh' = IF refresh = t THEN None ELSE refresh

Unregistered(t) == {p \in pending : p.id # id[t]}

\* What the requests in the table get when it is drained.
Lost == [task |-> None, line |-> "note", ok |-> FALSE]

Drained ==
  /\ slot' = [t \in Tasks |-> IF \E p \in pending : p.task = t THEN Lost ELSE slot[t]]
  /\ pending' = {}

FirstPlace(t) ==
  CASE t \in Gated -> "refresh" [] t \in Calls \ Gated -> "register" [] OTHER -> "lock"

\* The HTTP server calls once launch has succeeded, and until the proxy exits.
Begin(t) ==
  /\ t # Boot /\ at[t] = "idle" /\ at[Boot] = "done"
  /\ main \notin {"initializing", "stopped"}
  /\ at' = [at EXCEPT ![t] = FirstPlace(t)]
  /\ line' = [line EXCEPT ![t] = IF t \in Calls THEN "main" ELSE "note"]
  /\ UNCHANGED <<supervision, reader, closed, requests, stdin, mcp, codex, environment>>

\* A refresh that trusts the settings it acknowledged last.
NeedsReloadOnChange == source # applied

\* Whether the task has Codex reload the settings before its own request.
NeedsReload == source # applied \/ reloading

Prepare(t) ==
  /\ at[t] = "refresh" /\ refresh = None
  /\ refresh' = t /\ seen' = [seen EXCEPT ![t] = source]
  /\ IF NeedsReload
     THEN reloading' = TRUE /\ generated' = source /\ line' = [line EXCEPT ![t] = "reload"]
     ELSE line' = [line EXCEPT ![t] = "main"] /\ UNCHANGED <<reloading, generated>>
  /\ at' = [at EXCEPT ![t] = "register"]
  /\ UNCHANGED <<supervision, reader, closed, requests, stdin, applied, codex, environment>>

\* The user's file is unreadable, or the generated one cannot be written.
PrepareFails(t) ==
  /\ at[t] = "refresh" /\ refresh = None
  /\ reloading' \in {reloading, reloading \/ NeedsReload}
  /\ at' = [at EXCEPT ![t] = "failed"]
  /\ UNCHANGED <<supervision, reader, closed, requests, stdin, refresh, applied, generated,
                 seen, line, codex, environment>>

\* The counter read after it was advanced.
NewIdAhead == nextId + 1

NewId == nextId

Register(t) ==
  /\ at[t] = "register" /\ ~closed
  /\ id' = [id EXCEPT ![t] = NewId] /\ nextId' = nextId + 1
  /\ pending' = {p \in pending : p.id # NewId} \cup {[id |-> NewId, task |-> t]}
  /\ slot' = [slot EXCEPT ![t] = None]
  /\ at' = [at EXCEPT ![t] = "lock"]
  /\ UNCHANGED <<supervision, reader, closed, stdin, mcp, line, codex, environment>>

RegisterRefused(t) ==
  /\ at[t] = "register" /\ closed
  /\ Leaves(t, "failed")
  /\ UNCHANGED <<supervision, reader, closed, requests, stdin, applied, reloading, generated,
                 seen, line, codex, environment>>

\* A write_line that does not look at transport_closed once it has the lock.
TakeStdinUnchecked(t) ==
  /\ at[t] = "lock" /\ stdin = None
  /\ stdin' = t /\ at' = [at EXCEPT ![t] = "write"]
  /\ UNCHANGED <<supervision, reader, closed, requests, mcp, line, codex, environment>>

TakeStdin(t) ==
  /\ at[t] = "lock" /\ stdin = None /\ ~closed
  /\ stdin' = t /\ at' = [at EXCEPT ![t] = "write"]
  /\ UNCHANGED <<supervision, reader, closed, requests, mcp, line, codex, environment>>

StdinRefused(t) ==
  /\ at[t] = "lock" /\ stdin = None /\ closed
  /\ pending' = Unregistered(t) /\ Leaves(t, "failed")
  /\ UNCHANGED <<supervision, reader, closed, nextId, id, slot, stdin, applied, reloading,
                 generated, seen, line, codex, environment>>

Frame(t, whole) == [id |-> id[t], task |-> t, line |-> line[t], whole |-> whole]

Write(t) ==
  /\ at[t] = "write" /\ process
  /\ pipe' = Append(pipe, Frame(t, TRUE)) /\ stdin' = None
  /\ at' = [at EXCEPT ![t] = IF line[t] = "note" THEN "done" ELSE "await"]
  /\ UNCHANGED <<supervision, reader, closed, requests, mcp, line, process, open, loaded, out,
                 ran, environment>>

\* The write guard closes the transport, with the lock still held.
Fence(t) ==
  /\ at[t] = "write"
  /\ closed' = TRUE /\ at' = [at EXCEPT ![t] = "fencing"]
  /\ UNCHANGED <<supervision, reader, requests, stdin, mcp, line, process, open, loaded, out,
                 ran, environment>>

PipeBroken(t) == ~process /\ Fence(t) /\ UNCHANGED pipe

\* The task is dropped with nothing or with a part of its line written.
DroppedInWrite(t) ==
  /\ process /\ t # Boot
  /\ Fence(t) /\ pipe' \in {pipe, Append(pipe, Frame(t, FALSE))}

\* A guard that fails only the request whose line it was.
FenceDrainsOwn(t) ==
  /\ at[t] = "fencing"
  /\ pending' = Unregistered(t) /\ stdin' = None /\ Leaves(t, "failed")
  /\ UNCHANGED <<supervision, reader, closed, nextId, id, slot, applied, reloading, generated,
                 seen, line, codex, environment>>

\* It fails the registered requests, its own with them, and the lock comes free.
FenceDrains(t) ==
  /\ at[t] = "fencing"
  /\ Drained /\ stdin' = None /\ Leaves(t, "failed")
  /\ UNCHANGED <<supervision, reader, closed, nextId, id, applied, reloading, generated, seen,
                 line, codex, environment>>

AnsweredBadly(t) ==
  /\ at[t] = "await" /\ slot[t] # None /\ ~slot[t].ok
  /\ pending' = Unregistered(t) /\ Leaves(t, "failed")
  /\ UNCHANGED <<supervision, reader, closed, nextId, id, slot, stdin, applied, reloading,
                 generated, seen, line, codex, environment>>

\* A task that sends it like any call, refresh lock and all.
AfterReloadLocks == "refresh"

\* The task's own request follows the reload, inside the same refresh lock.
AfterReload == "register"

Reloaded(t) ==
  /\ at[t] = "await" /\ slot[t] # None /\ slot[t].ok /\ line[t] = "reload"
  /\ applied' = seen[t] /\ reloading' = FALSE
  /\ line' = [line EXCEPT ![t] = "main"] /\ at' = [at EXCEPT ![t] = AfterReload]
  /\ UNCHANGED <<supervision, reader, closed, requests, stdin, refresh, generated, seen, codex,
                 environment>>

\* initialize is followed by the notification that it was received.
Answered(t) ==
  /\ at[t] = "await" /\ slot[t] # None /\ slot[t].ok /\ line[t] = "main"
  /\ IF t = Boot
     THEN line' = [line EXCEPT ![t] = "note"] /\ Leaves(t, "lock")
     ELSE Leaves(t, "done") /\ UNCHANGED line
  /\ UNCHANGED <<supervision, reader, closed, requests, stdin, applied, reloading, generated,
                 seen, codex, environment>>

TimesOut(t) ==
  /\ at[t] = "await" /\ slot[t] = None
  /\ pending' = Unregistered(t) /\ Leaves(t, "failed")
  /\ UNCHANGED <<supervision, reader, closed, nextId, id, slot, stdin, applied, reloading,
                 generated, seen, line, codex, environment>>

\* The task is dropped at an await outside the write.
ClientGone(t) ==
  /\ t # Boot /\ at[t] \in {"refresh", "lock", "await"}
  /\ pending' = Unregistered(t) /\ Leaves(t, "failed")
  /\ UNCHANGED <<supervision, reader, closed, nextId, id, slot, stdin, applied, reloading,
                 generated, seen, line, codex, environment>>

-----------------------------------------------------------------------------
(* Codex, its user's settings, and the reader of its stdout.               *)

EditSettings(s) ==
  /\ edits < MaxEdits /\ s # source /\ main # "stopped"
  /\ source' = s /\ edits' = edits + 1
  /\ UNCHANGED <<supervision, reader, closed, requests, stdin, mcp, at, line, codex, asks>>

\* Codex reads the lines in order.  A reload that fails may have taken effect.
ReadLine(ok, takes) ==
  /\ process /\ pipe # <<>> /\ Head(pipe).whole /\ pipe' = Tail(pipe)
  /\ LET f == Head(pipe) IN
       /\ open' = IF f.line = "note" THEN open
                  ELSE open \cup {[id |-> f.id, task |-> f.task, line |-> f.line, ok |-> ok]}
       /\ loaded' = IF f.line = "reload" /\ (ok \/ takes) THEN generated ELSE loaded
       /\ ran' = IF f.line = "main" /\ f.task \in Gated
                 THEN [ran EXCEPT ![f.task] = loaded] ELSE ran
  /\ UNCHANGED <<supervision, reader, closed, requests, stdin, mcp, at, line, process, out,
                 environment>>

\* It answers them in any order.
AnswerOne(q) ==
  /\ process /\ q \in open
  /\ open' = open \ {q}
  /\ out' = Append(out, [kind |-> "response", id |-> q.id, task |-> q.task, line |-> q.line,
                         ok |-> q.ok])
  /\ UNCHANGED <<supervision, reader, closed, requests, stdin, mcp, at, line, process, pipe,
                 loaded, ran, environment>>

\* A server request carries a number of Codex's own, perhaps that of a call:
\* the numbers that no call has make no difference to the reader.
AskProxy(n) ==
  /\ process /\ asks < MaxAsks /\ asks' = asks + 1
  /\ out' = Append(out, [kind |-> "request", id |-> n, task |-> None, line |-> "note",
                         ok |-> TRUE])
  /\ UNCHANGED <<supervision, reader, closed, requests, stdin, mcp, at, line, process, pipe,
                 open, loaded, ran, source, edits>>

Dies == process' = FALSE /\ pipe' = <<>> /\ open' = {}

CodexExits ==
  /\ process /\ Dies
  /\ UNCHANGED <<supervision, reader, closed, requests, stdin, mcp, at, line, loaded, out, ran,
                 environment>>

\* A reader that goes by the number alone.
MatchingById(f) == {p \in pending : p.id = f.id}

\* The registered request a line answers: a line with a method answers none.
Matching(f) == {p \in pending : f.kind = "response" /\ p.id = f.id}

ReadAnswer ==
  /\ reader = "reading" /\ out # <<>> /\ out' = Tail(out)
  /\ LET f == Head(out)
         given == [task |-> f.task, line |-> f.line, ok |-> f.ok] IN
       /\ slot' = [t \in Tasks |-> IF \E p \in Matching(f) : p.task = t THEN given ELSE slot[t]]
       /\ pending' = pending \ Matching(f)
  /\ UNCHANGED <<supervision, reader, closed, nextId, id, stdin, mcp, at, line, process, pipe,
                 open, loaded, ran, environment>>

\* stdout ends, or holds a line too long to be read.
ReaderEnds ==
  /\ reader = "reading" /\ (out = <<>> => ~process)
  /\ reader' = "closing" /\ closed' = TRUE
  /\ UNCHANGED <<supervision, requests, stdin, mcp, at, line, codex, environment>>

ReaderDrains ==
  /\ reader = "closing" /\ reader' = "over" /\ Drained
  /\ UNCHANGED <<supervision, closed, nextId, id, stdin, mcp, at, line, codex, environment>>

-----------------------------------------------------------------------------
(* Launch, supervision and shutdown.                                       *)

\* What the steps of main and of the monitor leave alone.
Unsupervised == <<reader, closed, requests, stdin, mcp, environment>>

\* initialize sets the state by itself, whatever the monitor has made of it.
BeginInitialize ==
  /\ main = "launching" /\ main' = "initializing" /\ state' = "Initializing"
  /\ at' = [at EXCEPT ![Boot] = "register"] /\ line' = [line EXCEPT ![Boot] = "main"]
  /\ UNCHANGED <<child, monitor, codex, Unsupervised>>

Initialized ==
  /\ main = "initializing" /\ at[Boot] \in {"done", "failed"}
  /\ IF at[Boot] = "done"
     THEN main' = "serving" /\ state' = Reduce(state, "InitializeSucceeded")
     ELSE main' = "unlaunched" /\ state' = Reduce(state, "InitializeFailed")
  /\ UNCHANGED <<child, monitor, at, line, codex, Unsupervised>>

MonitorPolls ==
  /\ monitor = "polling" /\ (child => ~process)
  /\ monitor' = IF child THEN "exited" ELSE "over"
  /\ child' = FALSE
  /\ UNCHANGED <<state, main, at, line, codex, Unsupervised>>

MonitorRecords ==
  /\ monitor = "exited" /\ monitor' = "over" /\ state' = Reduce(state, "ProcessExited")
  /\ UNCHANGED <<child, main, at, line, codex, Unsupervised>>

\* A wait that goes by the state alone.
FailureByState == state \in Failing

\* wait_for_failure.
Failure == closed \/ state \in Failing

RequestShutdown ==
  /\ main' = "killing" /\ state' = Reduce(state, "ShutdownRequested")
  /\ UNCHANGED <<child, monitor, at, line, codex, Unsupervised>>

NoticeFailure ==
  (main = "unlaunched" \/ (main = "serving" /\ Failure)) /\ RequestShutdown

\* SIGTERM, or a server that ends by itself.
Terminate == main = "serving" /\ RequestShutdown

Kill ==
  /\ main = "killing" /\ main' = "reaped" /\ child' = FALSE
  /\ IF child THEN Dies ELSE UNCHANGED <<process, pipe, open>>
  /\ UNCHANGED <<state, monitor, at, line, loaded, out, ran, Unsupervised>>

CompleteShutdown ==
  /\ main = "reaped" /\ main' = "draining" /\ state' = Reduce(state, "ShutdownCompleted")
  /\ UNCHANGED <<child, monitor, at, line, codex, Unsupervised>>

\* The requests have ended, or five seconds have passed; the tasks that are
\* left end with the proxy.
Exit ==
  /\ main = "draining" /\ main' = "stopped"
  /\ at' = [t \in Tasks |-> IF at[t] \in {"idle", "done"} THEN at[t] ELSE "failed"]
  /\ reader' = "over" /\ monitor' = "over"
  /\ pending' = {} /\ stdin' = None /\ refresh' = None
  /\ UNCHANGED <<state, child, closed, nextId, id, slot, applied, reloading, generated, seen,
                 line, codex, environment>>

-----------------------------------------------------------------------------
\* launch, once the process is spawned and the reader and the monitor run.
Init ==
  /\ state = "Initializing" /\ child = TRUE /\ main = "launching" /\ monitor = "polling"
  /\ reader = "reading" /\ closed = FALSE
  /\ nextId = 1 /\ pending = {} /\ stdin = None /\ refresh = None
  /\ source = FirstSettings /\ generated = FirstSettings /\ applied = FirstSettings
  /\ loaded = FirstSettings /\ reloading = FALSE /\ edits = 0 /\ asks = 0
  /\ at = [t \in Tasks |-> "idle"] /\ line = [t \in Tasks |-> "note"]
  /\ id = [t \in Tasks |-> 0] /\ slot = [t \in Tasks |-> None]
  /\ seen = [t \in Tasks |-> None] /\ ran = [t \in Tasks |-> None]
  /\ process = TRUE /\ pipe = <<>> /\ open = {} /\ out = <<>>

\* What a task does unless it is dropped or loses its patience.
Goes(t) ==
  \/ Prepare(t) \/ PrepareFails(t) \/ Register(t) \/ RegisterRefused(t)
  \/ TakeStdin(t) \/ StdinRefused(t) \/ Write(t) \/ PipeBroken(t) \/ FenceDrains(t)
  \/ AnsweredBadly(t) \/ Reloaded(t) \/ Answered(t) \/ TimesOut(t)

Reading == ReadAnswer \/ ReaderEnds \/ ReaderDrains

Monitoring == MonitorPolls \/ MonitorRecords

Supervising ==
  \/ BeginInitialize \/ Initialized \/ NoticeFailure \/ Kill \/ CompleteShutdown \/ Exit

Next ==
  \/ \E t \in Tasks : Begin(t) \/ Goes(t) \/ DroppedInWrite(t) \/ ClientGone(t)
  \/ (\E s \in Settings : EditSettings(s))
  \/ (\E ok, takes \in BOOLEAN : ReadLine(ok, takes))
  \/ (\E q \in open : AnswerOne(q)) \/ (\E p \in pending : AskProxy(p.id)) \/ CodexExits
  \/ Reading \/ Monitoring \/ Supervising \/ Terminate

Spec == Init /\ [][Next]_vars

\* While a task of the proxy can do something, one of them does: they are run,
\* Codex reads its stdin while it runs, a call that gets no answer times out,
\* and the pollers poll.  Each task has finitely many steps, so no order among
\* them need be assumed; nor that Codex answers, exits or is asked to stop.
Proceed == (\E t \in Tasks : Goes(t)) \/ Reading \/ Monitoring \/ Supervising

FairSpec == Spec /\ WF_vars(Proceed)

-----------------------------------------------------------------------------
(* Properties.                                                             *)

States ==
  {"Starting", "Initializing", "Ready", "Recovering", "Failed", "ShuttingDown", "Stopped"}
Places ==
  {"idle", "refresh", "register", "lock", "write", "fencing", "await", "done", "failed"}
Frames == [id : Nat, task : Tasks, line : Lines, whole : BOOLEAN]
Requests == [id : Nat, task : Callers, line : {"reload", "main"}, ok : BOOLEAN]
Messages == [kind : {"response", "request"}, id : Nat, task : Callers \cup {None},
             line : Lines, ok : BOOLEAN]

\* The shape of the state; request numbers are below the next one.
TypeOK ==
  /\ state \in States /\ child \in BOOLEAN
  /\ main \in {"launching", "initializing", "unlaunched", "serving", "killing", "reaped",
               "draining", "stopped"}
  /\ reader \in {"reading", "closing", "over"} /\ monitor \in {"polling", "exited", "over"}
  /\ closed \in BOOLEAN /\ nextId \in Nat /\ pending \subseteq [id : Nat, task : Callers]
  /\ stdin \in Tasks \cup {None} /\ refresh \in Gated \cup {None}
  /\ applied \in Settings /\ reloading \in BOOLEAN /\ generated \in Settings
  /\ at \in [Tasks -> Places] /\ line \in [Tasks -> Lines] /\ id \in [Tasks -> Nat]
  /\ \A t \in Tasks : id[t] < nextId
  /\ slot \in [Tasks -> Results \cup {None}] /\ seen \in [Tasks -> Settings \cup {None}]
  /\ source \in Settings /\ edits \in Nat /\ asks \in Nat
  /\ process \in BOOLEAN /\ loaded \in Settings /\ ran \in [Tasks -> Settings \cup {None}]
  /\ pipe \in Seq(Frames) /\ open \subseteq Requests /\ out \in Seq(Messages)

\* Nothing is written behind half a line, so Codex never reads a line put
\* together from two: whoever is dropped in a write closes the transport
\* before anyone else can write (WriteGuard, write_line).
NothingBehindHalfALine ==
  \A n \in DOMAIN pipe : ~pipe[n].whole => n = Len(pipe)

\* What a call takes for the answer to its request is Codex's answer to that
\* very request: not a late answer to one that timed out or was dropped, nor a
\* server request with the same number (tests/runtime_integration.rs:64, :210).
AnswersReachTheirCall ==
  \A t \in Tasks :
    at[t] = "await" /\ slot[t] # None /\ slot[t] # Lost
      => slot[t].task = t /\ slot[t].line = line[t]

\* Once the transport has been closed and whoever closed it has drained the
\* table, no call waits for an answer that cannot come
\* (docs/codex-hoshikage-proxy-system-design.md, section 30.2).
NobodyWaitsInVain ==
  closed /\ reader # "closing" /\ (\A t \in Tasks : at[t] # "fencing")
    => \A t \in Tasks : at[t] = "await" => slot[t] # None

\* Codex runs a turn, or opens its thread, with the very MCP settings the proxy
\* found when it accepted the call, over failed, late and unacknowledged
\* reloads and settings that change back (docs/codex-user-extensions.ja.md:18).
RunsWithItsSettings ==
  \A t \in Gated : ran[t] # None => ran[t] = seen[t]

\* Once the transport or the process is gone, in the middle of the launch or
\* later, the proxy stops, and its supervisor can start it again
\* (docs/server-operations.md:22, runtime.rs:469).  Two sections of the documents
\* have the proxy start and initialize Codex again instead
\* (docs/codex-hoshikage-proxy-requirements.md:560-571,
\* docs/codex-hoshikage-proxy-system-design.md:836-843); the code does not.
FailureStopsProxy == closed \/ ~process ~> main = "stopped"

\* Every call and every answer comes to an end: no order of the refresh lock, the stdin
\* lock and the awaits leaves one of them stuck.
CallsEnd == []<>(\A t \in Tasks : at[t] \in {"idle", "done", "failed"})
=============================================================================
