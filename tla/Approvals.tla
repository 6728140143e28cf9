------------------------------- MODULE Approvals -------------------------------
(***************************************************************************)
(* approval_manager.rs with the reducer of approval.rs: what becomes of    *)
(* the server requests in which Codex asks for an approval.                *)
(*                                                                         *)
(* Five kinds of task touch the approvals.  One listener takes the runtime *)
(* events in order: requests, their withdrawal, the end of a turn, the end *)
(* of the transport; it can lag, and it waits for the answers it gives     *)
(* itself.  The handler of a turn registers the turn's rules on its thread *)
(* before turn/start and binds the turn id when it has it; whoever learns  *)
(* that a turn is over invalidates it.  Control clients decide.  Each      *)
(* pending approval has a timer.  Whoever settles an approval changes the  *)
(* record under the records lock, writes the answer to Codex outside it,   *)
(* and then marks the answer as written: three steps, and a client may be  *)
(* gone between any two.                                                   *)
(*                                                                         *)
(* One approval id stands for one server request (a fresh UUID and a fresh *)
(* rpc id).  The file-change paths that notifications supply to a later    *)
(* request are part of whether it is inside the workspace.                 *)
(***************************************************************************)
EXTENDS Naturals, Sequences, FiniteSets

CONSTANTS
  Approvals,    \* approval ids, one per server request
  Turns,        \* turns of the API
  Threads,
  ThreadOf,     \* the thread of each turn
  Clients,      \* control clients
  Shapes,       \* what a request may look like
  Rules,        \* what a turn may be registered with
  AutoApprove,  \* [approval] auto_approve_workspace
  MaxLags,      \* bound: events the listener misses
  None

Decisions == {"accept", "accept_for_session", "decline", "cancel"}

ASSUME NamesAssumption ==
  /\ None \notin Approvals \cup Turns \cup Threads \cup Clients \cup Decisions
  /\ Approvals \cap Clients = {} /\ "listener" \notin Approvals \cup Clients
\* A context of a thread, a request, a record of an approval and an answer on its
\* way are not None.
Contexts == [by : Turns, turn : Turns \cup {None}]
Asks == [turn : Turns, shape : Shapes]
States == {"pending", "approved", "denied", "expired", "cancelled"}
Records == [turn : Turns \cup {None}, state : States, decision : Decisions \cup {None},
            auto : BOOLEAN, status : {"not_sent", "unknown", "written"}]
AnswersOnTheWay == [id : Approvals, what : Decisions \cup {"error"}, stage : {"write", "mark"}]

ASSUME NoneAssumption ==
  None \notin Contexts /\ None \notin Asks /\ None \notin Records /\ None \notin AnswersOnTheWay
ASSUME ThreadsAssumption == ThreadOf \in [Turns -> Threads]
\* named: it carries its turn id; inside: it touches the workspace only;
\* supported: a command or file approval, and not another kind of request.
ASSUME ShapesAssumption ==
  Shapes \subseteq [named : BOOLEAN, inside : BOOLEAN, supported : BOOLEAN,
                    offered : SUBSET Decisions \ {{}}]
ASSUME RulesAssumption == Rules \subseteq [interactive : BOOLEAN, suppress : BOOLEAN]
ASSUME BoundsAssumption == AutoApprove \in BOOLEAN /\ MaxLags \in Nat

VARIABLES
  context,   \* turn_contexts: per thread, [by, turn] - by is the turn it is for
  record,    \* records: per approval, [turn, state, decision, auto, status]
  due,       \* approvals whose expires_at_ms has passed
  cancelling,  \* turns some task has begun to invalidate, their context gone
  answer,    \* per task, the answer it has on its way: [id, what, stage]
  queue,     \* runtime events the listener has still to take
  ending,    \* the turn the listener is invalidating, its context gone
  lags,      \* events missed so far
  handler,   \* per turn: where its HTTP handler is
  rules,     \* per turn: what it was registered with
  run,       \* Codex: the state of each turn
  ask,       \* Codex: per request, [turn, shape]
  waits,     \* Codex: the requests it waits for
  closed,    \* the transport is gone
  replies,   \* history: per request, the answers written to it
  missed,    \* history: requests the listener missed
  dropped,   \* history: approvals whose client left with the answer
  told       \* history: turns whose end the listener has dealt with

manager == <<context, record, due, answer, cancelling>>
events == <<queue, ending, lags>>
turns == <<handler, rules>>
codex == <<run, ask, waits, closed>>
history == <<replies, missed, dropped, told>>
vars == <<manager, events, turns, codex, history>>

Tasks == Clients \cup Approvals \cup {"listener"}

Pending(a) == record[a] # None /\ record[a].state = "pending"

-----------------------------------------------------------------------------
(* The handler of a turn.                                                  *)

\* An earlier turn of the thread is over for good: its end is recorded and its
\* handler has left, or Codex refused it (TurnLifecycle: OneActiveTurnPerThread).
MayFollow(u) ==
  handler[u] = "idle" \/ (handler[u] = "over" /\ run[u] \in {"ended", "refused"})

\* Suppression on a thread is there to stay (TurnLifecycle: SuppressionSticks).
Allowed(t, x) ==
  \A u \in Turns :
    ThreadOf[u] = ThreadOf[t] /\ handler[u] # "idle" /\ rules[u].suppress => x.suppress

\* register_turn, before turn/start: whatever was registered is replaced.
Register(t, x) ==
  /\ handler[t] = "idle"
  /\ \A u \in Turns \ {t} : ThreadOf[u] = ThreadOf[t] => MayFollow(u)
  /\ Allowed(t, x)
  /\ context' = [context EXCEPT ![ThreadOf[t]] = [by |-> t, turn |-> None]]
  /\ handler' = [handler EXCEPT ![t] = "starting"]
  /\ rules' = [rules EXCEPT ![t] = x]
  /\ UNCHANGED <<record, due, answer, cancelling, events, codex, history>>

\* bind_turn, when turn/start is answered - Codex may have gone on meanwhile.
Bind(t) ==
  LET thread == ThreadOf[t] IN
  /\ handler[t] = "starting" /\ run[t] \in {"running", "ended"}
  /\ handler' = [handler EXCEPT ![t] = "bound"]
  /\ context' = [context EXCEPT ![thread] = IF @ = None THEN None ELSE [@ EXCEPT !.turn = t]]
  /\ record' = [a \in Approvals |->
                 IF record[a] # None /\ ThreadOf[ask[a].turn] = thread
                    /\ record[a].turn = None
                 THEN [record[a] EXCEPT !.turn = t] ELSE record[a]]
  /\ UNCHANGED <<due, answer, cancelling, events, rules, codex, history>>

\* A mutation of WithoutContext: whatever turn the context is bound to.
WithoutContextOfThread(t) == [context EXCEPT ![ThreadOf[t]] = None]

\* invalidate_turn, its first half: the context goes if it is bound to the turn.
WithoutContext(t) ==
  [context EXCEPT ![ThreadOf[t]] = IF @ # None /\ @.turn = t THEN None ELSE @]

\* Pending approvals are cancelled without an answer to Codex.
Cancelled(as) ==
  [a \in Approvals |-> IF a \in as /\ Pending(a)
                       THEN [record[a] EXCEPT !.state = "cancelled"] ELSE record[a]]

\* A mutation of OfTurn: only a thread that still has a context is looked at.
OfTurnWithContext(t) ==
  {a \in Approvals : record[a] # None /\ record[a].turn = t /\ context[ThreadOf[t]] # None}

OfTurn(t) == {a \in Approvals : record[a] # None /\ record[a].turn = t}

\* invalidate_turn outside the listener: by whoever learns that the turn is over
\* - its own handler, or any request that read it (turn_snapshot).
Invalidate(t) ==
  /\ run[t] = "ended"
  /\ context' = WithoutContext(t)
  /\ cancelling' = cancelling \cup {t}
  /\ UNCHANGED <<record, due, answer, events, turns, codex, history>>

\* Its second half, any time later, or never: the request may be dropped, and
\* another one may come.
CancelApprovals(t) ==
  /\ t \in cancelling
  /\ record' = Cancelled(OfTurn(t))
  /\ UNCHANGED <<context, due, answer, cancelling, events, turns, codex, history>>

\* It ends: the turn is over, or an error, a timeout, a client that went away.
HandlerEnds(t) ==
  /\ handler[t] \in {"starting", "bound"}
  /\ handler' = [handler EXCEPT ![t] = "over"]
  /\ UNCHANGED <<manager, events, rules, codex, history>>

-----------------------------------------------------------------------------
(* Codex, as this code uses it (external).                                 *)

\* It takes a turn/start, late perhaps, or refuses it.
TakeStart(t) ==
  /\ handler[t] # "idle" /\ run[t] = "none" /\ ~closed
  /\ \E s \in {"running", "refused"} : run' = [run EXCEPT ![t] = s]
  /\ UNCHANGED <<manager, events, turns, ask, waits, closed, history>>

Request(a, t, x) ==
  /\ run[t] = "running" /\ ask[a] = None
  /\ ask' = [ask EXCEPT ![a] = [turn |-> t, shape |-> x]]
  /\ waits' = waits \cup {a}
  /\ queue' = Append(queue, [kind |-> "request", of |-> a])
  /\ UNCHANGED <<manager, ending, lags, turns, run, closed, history>>

\* serverRequest/resolved: it needs no answer any more.
Withdraw(a) ==
  /\ a \in waits
  /\ waits' = waits \ {a}
  /\ queue' = Append(queue, [kind |-> "resolved", of |-> a])
  /\ UNCHANGED <<manager, ending, lags, turns, run, ask, closed, history>>

\* turn/completed.
EndTurn(t) ==
  /\ run[t] = "running"
  /\ run' = [run EXCEPT ![t] = "ended"]
  /\ waits' = {a \in waits : ask[a].turn # t}
  /\ queue' = Append(queue, [kind |-> "completed", of |-> t])
  /\ UNCHANGED <<manager, ending, lags, turns, ask, closed, history>>

\* The process, or the connection to it, is gone.
Close ==
  /\ ~closed
  /\ closed' = TRUE
  /\ run' = [t \in Turns |-> IF run[t] = "running" THEN "lost" ELSE run[t]]
  /\ waits' = {}
  /\ queue' = Append(queue, [kind |-> "closed", of |-> None])
  /\ UNCHANGED <<manager, ending, lags, turns, ask, history>>

-----------------------------------------------------------------------------
(* The listener.                                                           *)

Listening == answer["listener"] = None /\ ending = None /\ queue # <<>>

Takes(kind) == Listening /\ Head(queue).kind = kind /\ queue' = Tail(queue)

Answering(task, id, what) ==
  answer' = [answer EXCEPT ![task] = [id |-> id, what |-> what, stage |-> "write"]]

PreferredAccept(offered) ==
  IF "accept" \in offered THEN "accept"
  ELSE IF "accept_for_session" \in offered THEN "accept_for_session" ELSE "cancel"

\* A mutation of AutoApproves: suppression is left to the client's decision.
AutoApprovesSuppressed(c, x) == AutoApprove /\ c # None /\ x.inside

\* The workspace approvals of a turn are granted unless it suppressed that.
AutoApproves(c, x) ==
  AutoApprove /\ c # None /\ ~rules[c.by].suppress /\ x.inside

\* The context of the thread, unless it is bound to another turn.
Usable(c, turn) == c # None /\ (c.turn = None \/ turn = None \/ c.turn = turn)

\* handle_request: chosen and recorded under both locks.
TakeRequest ==
  LET a == Head(queue).of
      x == ask[a].shape
      known == context[ThreadOf[ask[a].turn]]
      turn == IF x.named THEN ask[a].turn ELSE IF known # None THEN known.turn ELSE None
      c == IF Usable(known, turn) THEN known ELSE None
      auto == AutoApproves(c, x)
      new == [turn |-> turn, auto |-> auto, decision |-> None,
              state |-> "cancelled", status |-> "unknown"]
      yes == PreferredAccept(x.offered) IN
  /\ Takes("request")
  /\ x.supported
  /\ \/ /\ auto
        /\ record' = [record EXCEPT ![a] = [new EXCEPT !.state = "approved", !.decision = yes]]
        /\ Answering("listener", a, yes)
     \/ /\ ~auto /\ c # None /\ rules[c.by].interactive
        /\ record' = [record EXCEPT ![a] = [new EXCEPT !.state = "pending", !.status = "not_sent"]]
        /\ UNCHANGED answer
     \/ /\ ~auto /\ ~(c # None /\ rules[c.by].interactive)
        /\ record' = [record EXCEPT ![a] = new]
        /\ Answering("listener", a, "cancel")
  /\ UNCHANGED <<context, due, cancelling, ending, lags, turns, codex, history>>

\* A mutation of TakeUnsupported: it is passed over in silence.
TakeUnsupportedSilently ==
  /\ Takes("request")
  /\ ~ask[Head(queue).of].shape.supported
  /\ UNCHANGED <<manager, ending, lags, turns, codex, history>>

\* Another kind of request is refused with an error, and not recorded.
TakeUnsupported ==
  LET a == Head(queue).of IN
  /\ Takes("request")
  /\ ~ask[a].shape.supported
  /\ Answering("listener", a, "error")
  /\ UNCHANGED <<context, record, due, cancelling, ending, lags, turns, codex,
                 history>>

TakeResolved ==
  /\ Takes("resolved")
  /\ record' = Cancelled({Head(queue).of})
  /\ UNCHANGED <<context, due, answer, cancelling, ending, lags, turns, codex,
                 history>>

TakeCompleted ==
  LET t == Head(queue).of IN
  /\ Takes("completed")
  /\ context' = WithoutContext(t)
  /\ ending' = t
  /\ UNCHANGED <<record, due, answer, cancelling, lags, turns, codex, history>>

ListenerCancels ==
  /\ ending # None
  /\ record' = Cancelled(OfTurn(ending))
  /\ ending' = None
  /\ told' = told \cup {ending}
  /\ UNCHANGED <<context, due, answer, cancelling, queue, lags, turns, codex,
                 replies, missed, dropped>>

TakeClosed ==
  /\ Takes("closed")
  /\ record' = Cancelled(Approvals)
  /\ UNCHANGED <<context, due, answer, cancelling, ending, lags, turns, codex,
                 history>>

\* The event is overwritten in the broadcast channel before it is read.
Lag ==
  /\ queue # <<>> /\ lags < MaxLags
  /\ queue' = Tail(queue)
  /\ lags' = lags + 1
  /\ missed' = IF Head(queue).kind = "request" THEN missed \cup {Head(queue).of} ELSE missed
  /\ UNCHANGED <<manager, ending, turns, codex, replies, dropped, told>>

-----------------------------------------------------------------------------
(* Deciding and expiring.                                                  *)

\* The clock passes expires_at_ms.
ClockPasses(a) ==
  /\ Pending(a) /\ a \notin due
  /\ due' = due \cup {a}
  /\ UNCHANGED <<context, record, answer, cancelling, events, turns, codex, history>>

\* A mutation of Expirable: the timer settles the approval whatever its state.
ExpirableAlways(a) == record[a] # None /\ a \in due

\* A mutation of Expirable: only approvals of a known turn expire.
ExpirableOfTurn(a) == Pending(a) /\ a \in due /\ record[a].turn # None

Expirable(a) == Pending(a) /\ a \in due

\* expire: by the timer of the approval, or by a client that decides too late.
Expire(task, a) ==
  /\ answer[task] = None
  /\ Expirable(a)
  /\ record' = [record EXCEPT ![a].state = "expired", ![a].status = "unknown"]
  /\ Answering(task, a, "decline")
  /\ UNCHANGED <<context, due, cancelling, events, turns, codex, history>>

\* A mutation of StateAfter: the wire name of a decision is taken for the state.
StateAfterWire(d) == IF d = "accept" THEN "approved" ELSE d

StateAfter(d) ==
  IF d \in {"accept", "accept_for_session"} THEN "approved"
  ELSE IF d = "decline" THEN "denied" ELSE "cancelled"

MayDecide(a, d) == Pending(a) /\ a \notin due /\ d \in ask[a].shape.offered

\* decide, in time and with a decision Codex offered; any other is refused.
Decide(c, a, d) ==
  /\ answer[c] = None
  /\ MayDecide(a, d)
  /\ record' = [record EXCEPT ![a].state = StateAfter(d), ![a].status = "unknown",
                              ![a].decision = IF StateAfter(d) = "approved" THEN d ELSE None]
  /\ Answering(c, a, d)
  /\ UNCHANGED <<context, due, cancelling, events, turns, codex, history>>

-----------------------------------------------------------------------------
(* The answer on its way.                                                  *)

\* respond_to_server_request succeeds.
WriteAnswer(task) ==
  /\ answer[task] # None /\ answer[task].stage = "write"
  /\ ~closed
  /\ replies' = [replies EXCEPT ![answer[task].id] = Append(@, answer[task].what)]
  /\ waits' = waits \ {answer[task].id}
  /\ answer' = [answer EXCEPT ![task].stage = "mark"]
  /\ UNCHANGED <<context, record, due, cancelling, events, turns, run, ask,
                 closed, missed, dropped, told>>

\* A mutation of WriteFails: the approval is marked although nothing was written.
WriteFailsUnchecked(task) ==
  /\ answer[task] # None /\ answer[task].stage = "write"
  /\ closed
  /\ answer' = [answer EXCEPT ![task].stage = "mark"]
  /\ UNCHANGED <<context, record, due, cancelling, events, turns, codex, history>>

\* Or not: the record keeps "unknown" for good.
WriteFails(task) ==
  /\ answer[task] # None /\ answer[task].stage = "write"
  /\ closed
  /\ answer' = [answer EXCEPT ![task] = None]
  /\ UNCHANGED <<context, record, due, cancelling, events, turns, codex, history>>

MarkWritten(task) ==
  LET a == answer[task].id IN
  /\ answer[task] # None /\ answer[task].stage = "mark"
  /\ record' = [record EXCEPT ![a] = IF @ = None THEN None ELSE [@ EXCEPT !.status = "written"]]
  /\ answer' = [answer EXCEPT ![task] = None]
  /\ UNCHANGED <<context, due, cancelling, events, turns, codex, history>>

\* The connection of a deciding client closes, and its handler is dropped.
ClientGone(c) ==
  /\ answer[c] # None
  /\ answer' = [answer EXCEPT ![c] = None]
  /\ dropped' = dropped \cup {answer[c].id}
  /\ UNCHANGED <<context, record, due, cancelling, events, turns, codex, replies,
                 missed, told>>

-----------------------------------------------------------------------------
Init ==
  /\ context = [t \in Threads |-> None]
  /\ record = [a \in Approvals |-> None] /\ due = {} /\ cancelling = {}
  /\ answer = [t \in Tasks |-> None]
  /\ queue = <<>> /\ ending = None /\ lags = 0
  /\ handler = [t \in Turns |-> "idle"]
  /\ rules = [t \in Turns |-> [interactive |-> FALSE, suppress |-> TRUE]]
  /\ run = [t \in Turns |-> "none"]
  /\ ask = [a \in Approvals |-> None] /\ waits = {} /\ closed = FALSE
  /\ replies = [a \in Approvals |-> <<>>]
  /\ missed = {} /\ dropped = {} /\ told = {}

Listen ==
  TakeRequest \/ TakeUnsupported \/ TakeResolved \/ TakeCompleted \/ ListenerCancels
  \/ TakeClosed

Answer(task) == WriteAnswer(task) \/ WriteFails(task) \/ MarkWritten(task)

Next ==
  \/ \E t \in Turns :
       \/ (\E x \in Rules : Register(t, x)) \/ Bind(t)
       \/ Invalidate(t) \/ CancelApprovals(t) \/ HandlerEnds(t)
       \/ TakeStart(t) \/ EndTurn(t)
       \/ \E a \in Approvals, x \in Shapes : Request(a, t, x)
  \/ \E a \in Approvals : Withdraw(a) \/ ClockPasses(a) \/ Expire(a, a)
  \/ Close \/ Listen \/ Lag
  \/ \E c \in Clients, a \in Approvals :
       Expire(c, a) \/ (\E d \in Decisions : Decide(c, a, d))
  \/ \E task \in Tasks : Answer(task)
  \/ \E c \in Clients : ClientGone(c)

Spec == Init /\ [][Next]_vars

\* The clock and the timers run, the listener is served, and Codex reads what
\* is written to it.
Fairness ==
  /\ WF_vars(Listen)
  /\ \A a \in Approvals : WF_vars(ClockPasses(a)) /\ WF_vars(Expire(a, a))
  /\ \A task \in Tasks : WF_vars(Answer(task))

FairSpec == Spec /\ Fairness

-----------------------------------------------------------------------------
(* Invariants.                                                             *)

\* The shape of the state.
TypeOK ==
  /\ context \in [Threads -> Contexts \cup {None}]
  /\ record \in [Approvals -> Records \cup {None}]
  /\ due \subseteq Approvals /\ cancelling \subseteq Turns
  /\ answer \in [Tasks -> AnswersOnTheWay \cup {None}]
  /\ ending \in Turns \cup {None} /\ lags \in Nat
  /\ handler \in [Turns -> {"idle", "starting", "bound", "over"}]
  /\ rules \in [Turns -> [interactive : BOOLEAN, suppress : BOOLEAN]]
  /\ run \in [Turns -> {"none", "running", "ended", "refused", "lost"}]
  /\ ask \in [Approvals -> Asks \cup {None}]
  /\ waits \subseteq Approvals /\ closed \in BOOLEAN
  /\ replies \in [Approvals -> Seq(Decisions \cup {"error"})]
  /\ missed \subseteq Approvals /\ dropped \subseteq Approvals /\ told \subseteq Turns

\* A request is answered at most once, whoever decides, expires or gives up on
\* it at the same time (docs/codex-hoshikage-proxy-system-design.md:1124):
\* part of what ContractKept says, and a step of its proof.
AnsweredOnce == \A a \in Approvals : Len(replies[a]) <= 1

\* What Codex is told, or is about to be told, is what the record says, and
\* what it says of the delivery is true (docs/control-api.ja.md:50).
AnswerIsRecorded ==
  \A a \in Approvals : record[a] # None =>
    /\ \A n \in DOMAIN replies[a] :
         CASE record[a].state = "approved" -> replies[a][n] = record[a].decision
           [] record[a].state \in {"denied", "expired"} -> replies[a][n] = "decline"
           [] record[a].state = "cancelled" -> replies[a][n] = "cancel"
           [] OTHER -> FALSE
    /\ record[a].status = "written" => replies[a] # <<>>
    /\ record[a].status = "not_sent" => replies[a] = <<>>

\* While a turn runs, its thread has the context of that very turn: nothing an
\* earlier turn left in the queue takes it away or stands in for it.
RunningTurnHasItsContext ==
  \A t \in Turns : run[t] = "running" =>
    context[ThreadOf[t]] # None /\ context[ThreadOf[t]].by = t

\* No request of a turn that suppressed it is approved without a decision,
\* even when it is taken after its turn (docs/control-api.ja.md:52).
SuppressedNeverAutoApproved ==
  \A a \in Approvals : record[a] # None /\ record[a].auto => ~rules[ask[a].turn].suppress

\* Once the listener has dealt with the end of a turn no approval of it is
\* pending, whatever the handler and the clients do (invalidate_turn).
CompletedTurnHasNoPending ==
  \A a \in Approvals :
    Pending(a) /\ ask[a].shape.named => ask[a].turn \notin told

\* What a request came to, as far as Codex and the clients can tell.
Verdict(a) ==
  LET r == record[a] IN
  CASE r = None -> "none"
    [] r # None /\ r.state = "approved" -> r.decision
    [] r # None /\ r.state = "cancelled" /\ r.status = "not_sent" -> "withdrawn"
    [] OTHER -> r.state

\* A request is settled once and for good and Codex told no more than that,
\* whichever tasks race for it (approval.rs: reduce_approval, whose test
\* terminal_approval_rejects_second_decision states it of one reducer).
Contract == INSTANCE ApprovalContract
              WITH Requests <- Approvals, verdict <- [a \in Approvals |-> Verdict(a)],
                   answers <- replies
ContractKept == Contract!Spec

\* Nothing stays pending.
PendingSettles == \A a \in Approvals : Pending(a) ~> ~Pending(a)

\* Codex gets an answer to whatever it asks, unless the listener missed the
\* request or the client that decided left before the answer was written.
RequestsAnswered ==
  \A a \in Approvals : a \in waits ~> a \notin waits \/ a \in missed \cup dropped
=============================================================================
