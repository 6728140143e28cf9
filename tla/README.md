# Formal models of codex-hoshikage-proxy

The proxy puts an HTTP API (OpenAI-style Responses and Chat Completions, a
control API and an approval API) in front of one Codex app-server process that
it talks to over stdin and stdout. These modules model its core logic in TLA+,
check it with TLC on small instances, and prove the most important results with
TLAPS for every value of the constants.

Paths below are relative to the repository; `http.rs:574` means `src/http.rs`,
line 574.

## 1. The system

### 1.1 Components, their state and operations

| Component | Source | State | Operations |
|---|---|---|---|
| Control store | `control.rs`, `control_db.rs`, `store.rs` | memory map of execution records, SQLite rows, JSONL mirror, fail-closed flag, response-to-thread mappings | open with import of v1 files, reserve, update, observe, append, persist_mapping, put |
| Turn handlers | `http.rs`, `turn.rs` | per request: place in the handler, thread guard, permit, stream | create_response, create_chat_completion (each plain or streamed), begin_turn, check_thread_idle, collect/stream to the end, disconnect |
| Control API | `http.rs` | none of its own; per thread a control lock | turn status (turn_snapshot), interrupt, steer |
| Permits | `permit.rs` | one semaphore per provider | acquire; release by drop |
| Approvals | `approval.rs`, `approval_manager.rs` | records, contexts per thread, timers | register/bind/invalidate turn, listener of runtime events, decide, expire, answer |
| Codex runtime | `runtime.rs`, `runtime/wire.rs`, `domain.rs`, `main.rs` | runtime state, pending table, stdin lock, closed flag, broadcast ring, child process | launch, initialize, request, respond, reader, monitor, wait_for_failure, shutdown |
| MCP refresh | `user_config.rs`, `runtime.rs` | acknowledged settings, unacknowledged flag, generated config.toml | prepare, reload, acknowledge |
| Model catalog | `catalog.rs`, `model.rs` | registry, availability, provider statuses (three locks), refresh lock | refresh, list, resolve, statuses, account observer |
| Event streams | `http.rs` | position in the ring, pieces sent so far, silence and probe counters, channel to the client | run_stream, run_chat_stream, collect_turn_text, turn_events_stream, probe_turn |
| Native bridge | `native.rs` | connection semaphore, one child per connection | connect, copy both ways, kill after grace |
| Generated images | `generated_images.rs` | none | read-only listing |
| Configuration | `config.rs` | none after start | parse, validate |
| Journal | `journal.rs` | append-only log | append |
| HTTP surface | `http.rs`, `lib.rs` | none | routing, authentication, error mapping |
| Open WebUI pipe | `openwebui/codex_hoshikage_pipe.py` | conversation mapping in the chat | a client of the API |

### 1.2 How they interact

A request handler is one tokio task that is *dropped at its current await* when
the client disconnects (a stream, once its reader task is spawned, is not). It
reserves an execution record, claims the thread of the conversation
(`thread_locks`, held to the end of the turn), checks inside the control lock
that nothing on the thread is still running, waits for a permit, records that it
is about to send (`dispatching`), opens the thread, records the thread, sends
turn/start, and records the turn. Status, interrupt and steer take the same
control lock. A background observer records `turn/completed` events; the
approval listener takes the same events from its own place in the broadcast
ring. So does the reader of each answer, in its own place, and passes them on to
its client. A request that names a model first refreshes the catalog, which asks
the providers and Codex. All of them write through one control store, and all of them reach Codex
through one runtime: a table of pending requests, a lock around stdin, a reader
that hands answers out, and an idea of "closed" that main turns into the end of
the proxy, for systemd to restart.

### 1.3 What is hard

* **Interleaving**: handlers, control clients, observer, listener and timers
  share records, locks and events, and hold state across awaits.
* **Dropped tasks**: a client may leave at any await - also in the middle of a
  line written to Codex, and between a decision and its delivery.
* **Lost and late answers**: every RPC can time out at the proxy and still take
  effect; events can be missed when a receiver lags.
* **Crash and restart**: three places are written for one record; a restart must
  neither repeat a turn nor invent an outcome.
* **Locks over RPCs**: thread guard, control lock, permit, the two refresh locks
  and stdin lock are all held over waits, some of them for one another: inside
  the control lock a handler waits for the catalog's refresh lock (http.rs:1113,
  catalog.rs:149), later for `mcp_refresh` (runtime.rs:236) and for stdin.
* **Several locks for one fact**: registry, availability and status are written
  one after the other, and read so.
* **Back-pressure**: a slow client fills its channel, a slow reader falls out of
  the ring.

### 1.4 What makes each component correct

* Control store: what memory says is on disk; ids and sequence numbers name one
  execution for ever; nothing in flight survives a restart as such.
* Turn handlers: one active turn per thread; one turn per client request id; a
  sent start is never reported as not sent; recorded outcomes are Codex's;
  every request ends.
* Control API: an interrupt is requested once; it never races the start of the
  next turn; the locks are taken in one order, so that the waits inside the
  control lock end.
* Approvals: a request is answered once, with what the record says; suppressed
  turns are not auto-approved; nothing stays pending.
* Runtime: lines to Codex are never torn together; answers reach their own
  call; a closed transport leaves no call waiting and stops the proxy; an
  execution runs with the MCP settings it found.
* Catalog: no answer rests on a check older than the request; what is offered
  is shown as usable; every request gets its turn at the refresh.
* Event streams: an answer that says "completed" is whole; a reader that leaves
  does not leave a running turn behind; a monitor misses no approval; every
  reader ends, however busy the ring is.

The hazards behind these, each at its line, are the `hazards` of `PROJECT.json`.

## 2. The modules

| Module | Models |
|---|---|
| `ExecutionRecord` | one record and the edits handlers make to it; shared by the next three |
| `ExecutionLedger` | abstract specification: a table of executions with the promises of the control store, without files, locks or restarts |
| `ControlStore` | the store itself, write by write |
| `TurnLifecycle` | handlers, observer, control API, permits, locks and restarts over a store whose operations are single steps |
| `ApprovalContract` | abstract specification: what Codex and the clients are promised of a request for approval |
| `Approvals` | listener, records, contexts, decisions, timers and answers |
| `CodexRuntime` | calls, pending table, stdin fence, reader, MCP refresh, launch and supervision |
| `ModelCatalog` | one refresh at a time, the requests that wait for it and read its results, the account observer |
| `ResponseStream` | abstract specification: what the client of an answer is promised |
| `EventStream` | the four readers of a turn's events, the ring, the channel and the watchdog |
| `LargestNumber` | a lemma: a finite set of numbers has a largest member |
| `ControlStoreProofs`, `ApprovalsProofs`, `CodexRuntimeProofs`, `ModelCatalogProofs`, `EventStreamProofs` | the theorems about the module in the name |
| `TurnLifecycleProofs`, `TurnControlProofs` | the theorems about `TurnLifecycle`: one active turn per thread; what was sent, who may send it, and the ledger |
| `MCControlStore`, `MCTurnLifecycle`, `MCApprovals`, `MCCodexRuntime`, `MCModelCatalog`, `MCEventStream` | instances for TLC |

`TurnLifecycle` and `ControlStore` meet in `ExecutionLedger`: the store
implements it (`LedgerSafe`), and the handlers' edits keep to it (`LedgerKept`).
What `TurnLifecycle` takes for one step is therefore a step whose insides
`ControlStore` has opened up.

### 2.1 ControlStore

`db`, `imported`, `mapped` are durable (`mapped` the responses with a mapping row); `records`, `mappings`, `failed` and the
rest are lost in a `Crash`. The mutex of `control.rs` is `writer`: an append is
in progress from `BeginAppend` through `PutRow` and `WriteMirror` or
`AppendFails`, and no other operation starts meanwhile. `observe` is two
sections in the code (by_turn, update) and two actions here. `Import` is the
transaction of `import_existing`: the executions of the older log, and the
mappings of the older versions (`LegacyMapped`), of which some are of responses
that have no execution record. `Open` reads the rows and turns everything in
flight into `unknown` (`Restored`). The mirror is never read again after the
import, so only the outcome of its writes matters.

### 2.2 TurnLifecycle

`pc[r]` is where the handler of response `r` waits; every action runs from one
await to the next. Because a response starts at most one turn and opens at most
one thread, both are named by it. `start[r]` is the fate of its turn/start at
Codex (`sent`, `accepted`, `unnamed`, `refused`, `lost` for an answer that timed
out), `turn[r]` the turn itself. `TakeStart` may come long after the proxy has
given up; `FinishTurn` ends a turn; `ObserveEnd`/`ObserverLags` are the
observer. Two locks inside the calls of a handler are held from one place to the
next: the catalog's refresh lock at `refreshing` (`Resolve` takes it,
`Validated` or `Invalid` gives it back), `mcp_refresh` at `joining`
(`OpenThread`: thread/start or thread/resume is under way) and `starting`
(`SendStart`: turn/start is). Who has them is read off the places
(`CatalogFree`, `RuntimeFree`); what happens inside them is `ModelCatalog` and
`CodexRuntime`. A reload that goes before turn/start is part of `SendStart`, or
of `StartNotSent` when it fails. Left out are the other users of these locks
(model lists, and chat completions, which resolve their model before they
reserve a record): they hold no lock of this module while they wait, and that
they end is `EveryAskEnds` and `CallsEnd`. `Disconnect` drops a handler at its await. Clients of the control API
are `cl[c]`, with one action per await (`ClientLock`, `ClientReads`,
`ClientObserves`, `ClientDecides`, `ClientSends`, `ClientAnswered`). `Crash` is
a restart: everything but `db`, the mappings and Codex' own history is lost, and
running turns end with the old app-server. When the store refuses a write after
turn/start (http.rs:1345-1356) the interrupt that follows is part of the same
step.

### 2.3 Approvals

Whoever settles an approval changes the record under the lock, writes the answer
outside it and then marks it written: three actions, and a client may leave
between them. `queue` is the listener's part of the broadcast ring; `Lag` drops
one event (at most `MaxLags`). One approval is enough: two of them share
nothing but the listener, and the only thing the listener does to one on account
of the other is to be late, which its scheduling covers.

`ApprovalContract` knows only what a request came to and what Codex was told of
it: opened, settled or withdrawn once, then told once, or refused. `Approvals`
implements it (`ContractKept`), by the mapping `verdict[a] <- Verdict(a)`, read
off the record, and `answers <- replies`; contexts, queue, timers and the answer
on its way are its own business. A request cancelled before anything was sent is
`withdrawn`, one that is told "cancel" is `cancelled`.

### 2.4 CodexRuntime

One task is one call or one written answer; `at[t]` is where it waits. `Prepare`
to `Reloaded` is the refresh inside `mcp_refresh`; `Register`, `TakeStdin`,
`Write` are request_raw and write_line; `Fence` and `FenceDrains` are the drop of
`WriteGuard`, in two steps because another thread can act between the flag and
the drain. `Exit` ends what is left of the tasks. Codex reads lines in order,
answers in any order, and may exit at any time; a reload that fails may have
taken effect.

### 2.5 ModelCatalog

`registry`, `available` and `shown` are the three maps of `catalog.rs`, each
behind its own lock. `round` is the refresh that holds `refresh_lock`: what its
discovery has found so far, the statuses it copied before it asked Codex
(`AskAccount`, catalog.rs:327), and, from stage `registry` on, what it is about
to write (`WriteRegistry`, `WriteAvailable`, `WriteStatuses`). The waiters of
the lock are `queue`, since tokio's mutex is fair. A request (`list`, `resolve`,
`status`) goes through `queued`, `refreshing`, `refreshed` and then reads map by
map; `holding` and `denying` are the places where it keeps the registry's read
lock, during which `WriteRegistry` waits. `Note` and `Withdraw` are the two
writes of the account observer, in the opposite order of a refresh's. `Gone`
drops a request at any await; if it was the one refreshing, the lock is free and
nothing of the round is written, or only the maps it had come to. `heard` is
history: what the checks that began after a request's arrival found, in
`<<provider, None>>` and `<<provider, model>>` pairs.

### 2.6 EventStream and ResponseStream

`mode` is the reader: the two streams that own a turn (`responses`, `chat`), the
plain answer (`json`) and the monitor of a turn that somebody else owns. `unread`
is the broadcast ring from the reader's position on; `lagged` is what tokio says
as `RecvError::Lagged` at the next receive. A reader alternates between waiting
for an event (`TakePiece`, `TakeEnd`, `TakeLoss`, ..., `Forward`, `TimeOut`) and
doing what follows from it: `todo` lists that, one await each - sends to the
client, `stop` (the interrupt), `probe`, the calls before the loop. Its head is
done by `Send`, `AskStop`, `Probe` and so on, and the rest waits, so a full
channel (`Slots`) holds back what comes after it, the interrupt included.
`turn`, `up`, `made` and `ask` are Codex and the approval manager, as far as a
reader can tell them apart; an approval is recorded before it is published, and
so is its decision, which is what makes a snapshot and the events after it
overlap. One reader is enough: readers share the ring only, and each has its own
position there. The turn id is taken as known once turn/start is answered; the
case that Codex does not name the turn is in `TurnLifecycle`.

`ResponseStream` is the contract: pieces in order, none skipped or repeated,
one ending, and "completed" only for a completed turn whose text was given
whole. `EventStream` implements it for every mode (`StreamKept`), by the
mapping `produced <- made`, `result <- turn`, `given <- text`.

## 3. The checks

| Run | Instance | Shows |
|---|---|---|
| `control_store` | 4 ids (one with an older execution, one with an older mapping only), 1 thread, 1 turn, 2 keys, 2 starts, 1 observe between its sections | `TypeOK`, `StoredIdentitiesDistinct`, `MemoryIsStored`, `LedgerSafe` |
| `turn_lifecycle` | a restored response and 2 new ones that may continue it or one another and share a key, 1 permit, 2 store failures or crashes | `TypeOK`, `OneActiveTurnPerThread`, `KeyStartsOneTurn`, `SendBoundaryDurable`, `OutcomesAreReal`, `SuppressionSticks`, `LedgerKept` |
| `turn_control` | 2 turns of one thread, 1 control client that interrupts either or steers one, 1 fault | `InterruptSentOnce`, `ControlNeverRacesNextStart`, `LocksTakenInOrder` |
| `turn_live` | 2 requests, of which one opens a thread or continues the restored response and the other continues either, 1 control client that interrupts the restored turn, 1 permit, no faults | `RequestsSettle`, `ControlSettles` |
| `approvals` | 1 approval of four shapes, 2 turns of a thread, 1 client, 1 missed event | `TypeOK`, `AnswerIsRecorded`, `RunningTurnHasItsContext`, `SuppressedNeverAutoApproved`, `CompletedTurnHasNoPending`, `ContractKept` (and with it `AnsweredOnce`), `PendingSettles`, `RequestsAnswered` |
| `runtime` | an execution, a plain call and an answer, 1 colliding server request | `TypeOK`, `NothingBehindHalfALine`, `AnswersReachTheirCall`, `NobodyWaitsInVain` |
| `runtime_live` | 2 executions, 2 changes of the settings | `RunsWithItsSettings`, `FailureStopsProxy`, `CallsEnd` |
| `catalog` | 2 requests of two kinds each, ChatGPT and one HTTP provider that offer the same model, an alias configured, 2 pages at most, 1 account event | `TypeOK`, `UsableIsShown`, `AnswersAreFresh`, `EveryAskEnds` |
| `stream` | each reader, a ring of 2, a channel of 1, 2 pieces of text, 3 heartbeats of silence, 2 confirmations, 1 approval | `TypeOK`, `LeftTurnIsStopped`, `MonitorKnowsPending`, `StreamKept`, `StreamEnds` |
| `store_upgrade` | as `control_store`, a log of four lines for one id | violated: see below |
| `turn_stale` | one turn and a status request | violated: see below |
| `monitor_end` | a monitor and the end of its turn | violated: see below |

**Bounds.** Two new responses are the fewest for which one turn can be started
while another is unsettled, and one restored response gives the conversation
they meet on; three writers are the fewest for which one can be torn, one
waiting and one next. Two starts let a crash fall between any two writes, and
the restart be followed by a retry. Two changes of the settings let them change
and change back. One permit makes every wait for it
real; in `turn_live`, two requests and a client are enough for every lock but
one to be wanted by two at a time: the permit and the catalog's refresh lock by
a request that opens a thread and one that continues the restored response, the
guard of that response's thread by two that continue it (the second is refused,
it never waits), its control lock by a request and the client. Only
`mcp_refresh`, which a handler wants after its permit, has no contender under
one permit; its order is in `LocksTakenInOrder`, proved for any `PermitLimit`,
and its waiters are in `runtime_live`. Counters that would
grow are bounded by `MaxStarts`, `MaxObserving`, `MaxFaults`, `MaxLags`,
`MaxEdits`, `MaxAsks`, `MaxNews` and `MaxPieces`, all named constants. The
catalog needs two requests, so that one reads while the other's refresh writes,
and one account event to fall between any two of those; a page limit of two
makes both of its limits (a repeated cursor, too many pages) happen. A ring of
two lets a reader be current, behind or lagged, a channel of one makes every
send wait, and three heartbeats with a stall after one let a turn be probed
twice before it is given up. Symmetry is used in
`control_store` only, over the two new ids, which no value of a constant tells
apart. No run checks for deadlock: requests, clients and bounded inputs run out,
and the system then rightly stops; that nobody waits for ever is what the
liveness properties say.

**Fairness.** `TurnLifecycle`: strong fairness of each handler (a restored
response has none) and each control client. tokio's mutex and semaphore serve waiters in order, every RPC has a
30 second timeout, and a handler that reads a turn leaves it because the turn
ends or the idle timeout fires. Nothing is assumed of Codex, disconnects or
crashes. `Approvals`: weak fairness of the listener, of the clock and the
timers, and of the writes of answers (Codex reads its stdin); none of clients or
turns. `CodexRuntime`: while some task of the proxy can step, one does; as every
task has finitely many steps this is all that is needed. A write is a step the
task can take while Codex runs, so Codex is assumed to read its stdin: the code
has no timeout there (runtime.rs:314). `ModelCatalog`: every question to a provider
or to Codex ends, if only after its 5 seconds, the locks are handed on in order,
and requests and the observer run; no answer of a provider and no departure of a
client is assumed. `EventStream`: the reader runs when it can, its timer fires
when no event of its turn comes, and a client that keeps its connection reads
what it is sent - one that does neither blocks its reader and the watchdog with
it, since both are the same task (http.rs:1414). Codex need not do anything, and
other turns may talk for ever; the turn itself says at most `MaxPieces` pieces,
for one that speaks for ever is followed for ever, by design.

### 3.1 Where code and documents disagree

* `store_upgrade`: importing `executions.jsonl` keeps the *first* line of each
  id (control_db.rs:100), so an execution of the older version reopens in its
  oldest state.
* `turn_stale`: a thread/read answered before the end of a turn and recorded
  after it replaces the terminal status (control.rs:237).
* `monitor_end`: the monitoring stream forwards events that name the turn in
  `turnId` (http.rs:2150) and drops a `turn/completed` that names it only in
  `turn.id`, which the rest of the code accepts.

`PROJECT.json` quotes the documents under `findings`. The models show some more,
which no run is spent on:

* when Codex exits under a proxy that serves, the proxy stops and systemd starts
  it again (main.rs:84-101, server-operations.md:22, and the notes at the head of
  the two documents, codex-hoshikage-proxy-requirements.md:32 and
  codex-hoshikage-proxy-system-design.md:34); but requirements 14.4
  (codex-hoshikage-proxy-requirements.md:560-571: /healthz unhealthy, restart the
  App Server, initialize again, become ready) and design 10.4
  (codex-hoshikage-proxy-system-design.md:836-843: Recovering,
  RestartDelayElapsed, Starting and SpawnProcess) have it recover in place.
  `FailureStopsProxy` is what the code does, so it holds against those two
  sections: no step of `CodexRuntime`, as none of the code, leaves Recovering for
  Starting (domain.rs:73 has the transition, for an event nobody sends there);
* the permit belongs to the handler (http.rs:1362), which can be dropped while
  Codex runs the turn, though codex-hoshikage-proxy-requirements.md:651 bounds the running turns;
* a start abandoned by its client stays `dispatching` until the next restart
  (http.rs:574), though control-api.ja.md:27 has it become unknown;
* a refresh writes back the availability it found over account news that came
  meanwhile (catalog.rs:327, against docs/openwebui-pipe-v07-design.ja.md:31); the
  next request corrects it before it reads (`AnswersAreFresh`);
* a model list that cannot be decoded leaves no entry, and the status shown
  stays what it was (catalog.rs:558, 591, against line 59 of the same document);
* withdrawing an approval publishes nothing (approval_manager.rs:256-270), so a
  monitor's client goes on showing it - `MonitorKnowsPending` makes no claim
  about a withdrawn one;
* an automatic approval for which Codex offers no acceptance is recorded as
  approved and told "cancel" (approval_manager.rs:414, 540), the verdict `cancel`
  of `ApprovalContract`;
* run_stream, when it loses events, ends the answer and not the turn
  (http.rs:1587), the exception in `LeftTurnIsStopped`;
* a probe that finds the turn waiting does not reset the count of stalled
  probes (http.rs:1497): confirmations need not be consecutive.

Reading what is not modelled showed three more:

* the model a conversation inherits is that of the highest reserve sequence
  (http.rs:1091), which is not the turn started last when two requests of one
  conversation reach its lock in the other order (docs/control-api.ja.md:62);
* the Open WebUI pipe decides from its mapping whether to send the history and,
  after an await (the images), again whether to name the previous response
  (codex_hoshikage_pipe.py:213-225): another chat of the same user that changes
  the mapping in between makes it open a thread with the last message only,
  though openwebui/README.md:24 has a new thread seeded with the history;
* the native bridge writes to its child inside a branch of its select
  (native.rs:87): while the child does not read, it hears neither the client
  nor the child's output.

## 4. The proofs

`ControlStoreProofs` proves `TypeCorrect`, `IdentitiesDistinct`,
`MemoryStored`, `MappingsStored`, `ReopenedSettled` and `ImplementsLedger`. The
properties are not inductive: an append is half done most of the time, so
`IInv` adds what holds in between - which of row and memory is ahead
(`MemoryAgrees`, `AppendInvariant`), what a store that is down has
(`Dormant`), and that whoever works on a record works on one that is there
(`CallersKnown`). `MappingsStored` tells the mappings this version wrote, each
of a stored record with its turn, from the imported ones, which need not have a
record: the import leaves none of them behind, and no new response takes the id
of one. One lemma per action shows that it keeps `IInv`; the
refinement then needs only `PutRow` and `Import`, the two actions that change
the table.

`TurnLifecycleProofs` proves `TypeCorrect`, `OneActiveTurn` and `RealOutcomes`,
for any number of responses, clients, inputs and faults. That a thread has one
active turn rests on a chain that `IInv` spells out: a turn that may be running
is on record with its thread and past "received" (`ActiveOnRecord`); a handler
between its claim and the answer to turn/start owns the thread's guard
(`OwnsThread`); of the others on its thread, those that may still run are on the
list it is checking, and once the check is over none does (`OthersChecked`); and
what it read about them was true when read and, being terminal, still is
(`EndsReal`). `OutcomesAreReal` is part of the same invariant (`TablesReal`).

`TurnControlProofs` builds on that invariant and proves `OneTurnPerKey`,
`DurableSend`, `StickySuppression`, `OneInterrupt`, `NoRaceWithStart`,
`LockOrder` and `ImplementsLedger`, the refinement of `ExecutionLedger`.
Three facts carry them.

* Memory and disk differ only while the store refuses every call (`Synced`,
  `MemoryAsFar`): what holds of an entry and is kept by every edit (`Kept`)
  holds of both tables (`EntriesHold`), a crash included, since a reopened
  record takes back neither a send nor an interruption.
* What was sent was stored before: an entry past the send boundary stands from
  `Dispatch` on, and its suppression is at least that of the turns sent before
  it on the thread (`SuppressionKnown`); an interruption is on record before
  the one client that stored it sends it (`InterruptsKnown`).
* The control lock is held from before the first look at the turns of a thread
  until the request that followed has its answer (`HandlersLock`,
  `ClientsLock`), so a turn that a client read as in progress has no successor
  yet when the client acts on it (`NoStartBehind`).

`LockOrder` is for the locks a request waits for: permit, control lock, catalog's
refresh lock, `mcp_refresh`, in that order. A permit is held only from the wait
for it on (`PermitsLate`), so nobody waits for a permit with one; `HandlersLock`
says where a handler has a control lock - never where it waits for a permit or a
control lock, though it may wait there for the two inner locks, which are held
only where the handler waits for their calls to end. That those calls end is
liveness (`RequestsSettle`, and `EveryAskEnds` and `CallsEnd` for what happens
inside them), which stays with TLC.

For the ledger, `NumbersAgree` says that both tables give an execution the same
number and no two the same; a new number is above all of memory's
(`SequenceFacts`), and a store that takes calls has in memory whatever is on
disk. Every step that changes the disk is then an edit or a new execution
(`StepRevises`).

`ApprovalsProofs` proves `TypeCorrect`, `OneAnswer`, `TrueRecord`, `OwnContext`,
`SuppressionHolds`, `NothingLeftPending` and `KeepsContract` (the refinement of
`ApprovalContract`) for any approvals, turns, threads, clients and missed events.
The right to answer a request passes from hand to
hand: from the one request in the queue (`RequestsWait`) to the pending record
(`RecordsHold`), and from there to the one task that took it out of pending and
carries what the record says (`AnswersHold`, `AllRecorded`). The end of a turn
stands in the queue behind all that the turn asked (`EndsLast`), and a thread has
one turn that is not over, for which its context is (`OneTurnPerThread`,
`ContextHolds`). The handlers are not part of `Approvals`: that a turn is
registered only when the one before it on the thread is over (`MayFollow`), and
with its suppression (`Allowed`), are guards there, and what they stand on is
proved of the handlers, as `OneActiveTurn` and `StickySuppression`. The
refinement needs two facts more (`ToBeTold`): an answer without a record is a
refusal, and an approval says one of three decisions. Every step is then one of
four kinds: no verdict changes (`Unnoticed`, `Apart`), pending requests are
withdrawn (`WithdrawnStep`), one request is opened or settled (`SettledStep`), or
Codex is told what the record says (`WriteAnswerWithin`).

`CodexRuntimeProofs` proves `TypeCorrect`, `LinesStayWhole`, `RightAnswers`,
`NoVainWait` and `OwnSettings` for any calls, answers, settings and changes.
Whoever writes holds the lock of stdin (`HoldsStdin`), and half a line means a
closed transport and no writer (`HalfLineClosed`). A request number is given
once (`OwnNumber`), so what is under way under the number of a registered call
is the call's own (`AnswersKnown`), and whoever closes the transport has still
to drain the table (`ClosedDrains`). For the settings, a gated call keeps the
refresh lock from its look at them to its answer: the reload it waits for is the
last in the pipe (`LastReload`), so that once it is acknowledged Codex uses what
the proxy generated (`AcknowledgedIsLoaded`), and a call that Codex has still to
read has no reload before it (`CallsInOrder`).

`ModelCatalogProofs` proves `TypeCorrect`, `UsableShown` and `FreshAnswers` for
any callers, requests, models and providers. The invariant says stage by stage
what a refresh carries: what all who wait for it have learned since they came
(`RoundHeard`), what it will show of what it found (`RoundShown`, `HttpShown`),
what a request knows that reads after it (`ReadersHeard`), and that what a
request found in the registry stays there while it holds the lock (`HolderFinds`).
Account news only ever take availability away, so what a reader found usable it
has heard of since it came.

`EventStreamProofs` proves `TypeCorrect`, `LeftTurnStopped`, `KeepsContract`
(every reader implements `ResponseStream`) and `MonitorIsCurrent` for any ring,
channel, timeouts and number of pieces. Two things stand for the future: the
plan of the reader, of which `Orderly`, `StopPlanned` and `OneEnding` speak, and
the ring, which continues the text as long as nothing was lost (`RingContinues`:
the pieces not yet taken are in it in order, and the end of the turn behind
them). The lemmas about plans are about every suffix of them, because a plan is
dealt with from its head; the actions then fall into four kinds
(`EnvironmentKeeps`, `FinishKeeps`, `GoOnKeeps`, `DoneKeeps`). That a monitor is
current is one more statement about what is to come (`WillKnow`): what became of
the approval is what the monitor has told its client, or is in its plan, or is in
the ring, unless it has still to take the list or to report a gap.

**Assumptions** are the named `ASSUME`s of the modules: finitely many ids, `None`
no member of any set of ids and none of the records it stands in for (a record
is not a model value, nor is an `Option` that is there ever absent), at most one
response restored from an earlier session, and the shape of the inputs. TLC
evaluates them in every run.

**What remains to TLC.** Every invariant and action property of a passing run is
proved, for all values of the constants. The liveness properties
(`RequestsSettle`, `ControlSettles`, `PendingSettles`, `RequestsAnswered`,
`FailureStopsProxy`, `CallsEnd`, `EveryAskEnds`, `StreamEnds`) are
model-checked only: they rest on fairness, that is on `ENABLED`, which tlapm
cannot reason about. The three violated properties are, of course, not theorems.
`MappingsStored` and `ReopenedSettled` are proved only. That `TurnLifecycle`
may take a store operation for one step rests on the two refinements of
`ExecutionLedger`, each proved; that the store's mutex makes it so is an argument
about the code (control.rs:150, 174), not a theorem.

## 5. Not modelled

The native bridge, the choice of model and working directory of a conversation,
and the Open WebUI pipe are left for later modules (below). Configuration, journal, generated
images, authentication, routing and the wording of errors have no behaviour over
time worth a model. In what is modelled, data is abstracted: contents of
messages, timestamps (a timer that may fire), diff texts and path tests (a
request is inside the workspace or not), request validation (it passes or not),
reasoning efforts of models, the wording of SSE events.

## 6. Plan

Done, in this order: `ExecutionRecord`, `ExecutionLedger`, `ControlStore` with
its proofs; `TurnLifecycle` with its first proofs; `Approvals`; `CodexRuntime`;
`ModelCatalog` and `ResponseStream` with `EventStream`, with their proofs; the
proofs of `CodexRuntime`, `Approvals`, the monitor, and `TurnControlProofs`;
`ApprovalContract` and its refinement.

Next:

1. An abstract specification of a conversation (a thread and its turns, one
   after the other) that `TurnLifecycle` implements, from `OneActiveTurn`, with
   the refinement proved.
2. `ConversationSelection`: the inherited model and working directory.
3. `NativeBridge`, and the Open WebUI pipe as a client of the API.
