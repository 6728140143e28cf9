------------------------------ MODULE EventStream ------------------------------
(***************************************************************************)
(* How http.rs reads a turn's events: run_stream, run_chat_stream and      *)
(* collect_turn_text, which own the turn they read, and the monitoring     *)
(* stream of GET /v1/codex/turns/{turn_id}/events/stream, which does not.  *)
(*                                                                         *)
(* Codex's events, those of other turns among them, and the approval       *)
(* events of the proxy go through one broadcast ring.  A reader that falls *)
(* more than the ring behind loses the oldest events and is told so once.  *)
(* What it makes of the others it puts into a bounded channel, whose full  *)
(* slots make it wait, and whose other end leaves when the client does.  A *)
(* turn that stays silent is probed, and given up after a while.           *)
(*                                                                         *)
(* There is one turn and one reader, of any mode; readers share nothing    *)
(* but the ring, of which each has its own position.  A piece of text is   *)
(* known by its number.  Silence is counted in heartbeat periods.          *)
(***************************************************************************)
EXTENDS Naturals, Sequences

CONSTANTS
  Modes,          \* the readers considered: "responses", "chat", "json", "monitor"
  Ring,           \* events the ring holds (256 in the code)
  Slots,          \* events the channel to the client holds (32)
  StallAfter,     \* turn_stall_detection, in heartbeats
  IdleAfter,      \* turn_idle_timeout, in heartbeats
  Confirmations,  \* turn_stall_confirmation_count
  MaxPieces       \* bound: pieces of text of the turn

ASSUME ModesAssumption == Modes \subseteq {"responses", "chat", "json", "monitor"}
ASSUME LimitsAssumption ==
  /\ Ring \in Nat \ {0} /\ Slots \in Nat \ {0} /\ MaxPieces \in Nat
  /\ StallAfter \in Nat \ {0} /\ IdleAfter \in Nat \ {0} /\ Confirmations \in Nat \ {0}

VARIABLES
  mode,        \* which reader this is
  turn,        \* Codex: "none" before turn/start, "running", then how it ended
  up,          \* Codex: its output is open
  made,        \* Codex: pieces of text it has sent
  ask,         \* the turn's approval: "none", "recorded" and then "pending", or
               \*   withdrawn before ("recalled") or after ("withdrawn") it is
               \*   published; "decided", and "settled" when that is published
  stopAsked,   \* history: the reader asked Codex to interrupt the turn
  subscribed,  \* the reader has its position in the ring
  unread,      \* the events from that position on
  lagged,      \* older events were overwritten, and the reader not told yet
  todo,        \* what the reader does before it waits for an event again
  over,        \* the reader has returned
  silence,     \* silent_since, in heartbeats
  probes,      \* stalled_probe_count
  channel,     \* events in the channel
  here,        \* the client holds the other end
  text,        \* the pieces sent, or collected, so far
  ending,      \* how the answer ended, or "none"
  known        \* what a monitor has told its client of the turn's end and its
               \* approval, and history: whether the reader noticed a gap

codex == <<turn, up, made, ask>>
ring == <<subscribed, unread, lagged>>
watch == <<silence, probes>>
client == <<channel, here>>
told == <<text, ending, known>>
vars == <<mode, codex, stopAsked, ring, todo, over, watch, client, told>>

Owners == {"responses", "chat", "json"}
Ended == {"completed", "failed"}

\* Events: a piece of text, the end of the turn (with its id in turnId or only
\* in turn.id), an approval published, withdrawn or impossible, the end of the
\* transport, and those of other turns.
Piece(n) == [is |-> "delta", n |-> n]
End(flat) == [is |-> "end", flat |-> flat]
Event(kind) == [is |-> kind]

\* What a reader has to do, by name, in the order it does it.
Steps(names) == [i \in DOMAIN names |-> Event(names[i])]

-----------------------------------------------------------------------------
(* Codex, the approval manager and the ring.                               *)

\* A mutation of Publish: the ring grows.
PublishKeepsAll(e) ==
  IF ~subscribed THEN UNCHANGED ring
  ELSE unread' = Append(unread, e) /\ UNCHANGED <<subscribed, lagged>>

\* broadcast::Sender::send: the oldest event makes room.
Publish(e) ==
  IF ~subscribed THEN UNCHANGED ring
  ELSE /\ unread' = IF Len(unread) < Ring THEN Append(unread, e) ELSE Append(Tail(unread), e)
       /\ lagged' = (lagged \/ Len(unread) = Ring)
       /\ UNCHANGED subscribed

Reader == <<mode, stopAsked, todo, over, watch, client, told>>

Speak ==
  /\ turn = "running" /\ up /\ made < MaxPieces
  /\ made' = made + 1
  /\ Publish(Piece(made + 1))
  /\ UNCHANGED <<turn, up, ask, Reader>>

EndTurn(how, flat) ==
  /\ turn = "running" /\ up
  /\ turn' = how
  /\ Publish(End(flat))
  /\ UNCHANGED <<up, made, ask, Reader>>

OtherTurn ==
  /\ up /\ Publish(Event("other")) /\ UNCHANGED <<codex, Reader>>

CloseTransport ==
  /\ up
  /\ up' = FALSE /\ turn' = IF turn = "running" THEN "failed" ELSE turn
  /\ Publish(Event("closed"))
  /\ UNCHANGED <<made, ask, Reader>>

\* The approval is recorded before it is published, and so is its decision, by a
\* client or by its timer.
RecordAsk ==
  /\ turn = "running" /\ up /\ ask = "none"
  /\ ask' = "recorded" /\ UNCHANGED <<turn, up, made, ring, Reader>>

PublishAsk ==
  /\ ask \in {"recorded", "recalled"}
  /\ ask' = IF ask = "recorded" THEN "pending" ELSE "withdrawn"
  /\ Publish(Event("asked"))
  /\ UNCHANGED <<turn, up, made, Reader>>

DecideAsk ==
  /\ ask = "pending"
  /\ ask' = "decided" /\ UNCHANGED <<turn, up, made, ring, Reader>>

PublishDecision ==
  /\ ask = "decided"
  /\ ask' = "settled" /\ Publish(Event("resolved")) /\ UNCHANGED <<turn, up, made, Reader>>

\* Nothing is published of an approval that Codex, the end of the turn or of the
\* transport withdraws, or whose decision could not be written.
WithdrawAsk ==
  /\ ask \in {"recorded", "pending", "decided"}
  /\ ask' = IF ask = "recorded" THEN "recalled" ELSE "withdrawn"
  /\ UNCHANGED <<turn, up, made, ring, Reader>>

\* An approval nobody is asked about: accepted automatically, or cancelled and
\* reported.
AnswerAsk ==
  /\ turn = "running" /\ up /\ ask = "none"
  /\ ask' = "settled"
  /\ \E kind \in {"resolved", "required"} : Publish(Event(kind))
  /\ UNCHANGED <<turn, up, made, Reader>>

-----------------------------------------------------------------------------
(* The reader: what it waits for, and what it then has to do.              *)

System == <<mode, codex, stopAsked, client>>

\* A mutation of Opening: turn/start goes out before the subscription.
OpeningUnsubscribed(m) ==
  Steps(IF m = "monitor" THEN <<"read", "reset", "list", "subscribe">>
        ELSE <<"start", "subscribe">>)

Tells(k) == known' = k /\ UNCHANGED <<text, ending>>

\* Before its loop a reader subscribes, and only then starts the turn, or takes
\* the snapshot that the events continue.
Opening(m) ==
  Steps(CASE m = "monitor" -> <<"subscribe", "read", "reset", "list">>
          [] m = "chat" -> <<"subscribe", "start", "role">>
          [] OTHER -> <<"subscribe", "start">>)

Waiting == todo = <<>> /\ ~over

\* A mutation of Failure: only the error is sent.
FailureUnstopped == Steps(<<"failed", "return">>)

\* How an answer ends; a chat stream says [DONE] after it.
Ending(how) == IF mode = "chat" THEN <<how, "done", "return">> ELSE <<how, "return">>

\* An answer that ends because of the reader: the turn is interrupted first.
Failure == Steps(<<"stop">> \o Ending("failed"))

\* A mutation of OnLoss: a reader that goes on as the observers of http.rs do.
OnLossContinues == <<>>

\* The reader missed events, or no more will come.
OnLoss == IF mode = "responses" THEN Steps(Ending("failed")) ELSE Failure

\* The turn ended; collect_turn_text does not look whether there is something
\* left to interrupt.
OnEnd ==
  IF turn = "completed" THEN Steps(Ending("completed"))
  ELSE IF mode = "json" THEN Failure ELSE Steps(Ending("failed"))

Heard(rest) ==
  /\ unread' = rest /\ silence' = 0 /\ probes' = 0
  /\ UNCHANGED <<subscribed, System, over>>

\* recv_turn_event and the branches of the loops that follow it.
TakePiece ==
  /\ mode \in Owners /\ Waiting /\ ~lagged /\ unread # <<>> /\ Head(unread).is = "delta"
  /\ Heard(Tail(unread))
  /\ IF mode = "json"
       THEN text' = Append(text, Head(unread).n) /\ UNCHANGED <<todo, ending, known>>
       ELSE todo' = <<Head(unread)>> /\ UNCHANGED told
  /\ UNCHANGED lagged

\* The mapping of a Responses answer is stored before "completed" is sent, and
\* collect_turn_text records the status: when a write fails the answer fails.
TakeEnd ==
  /\ mode \in Owners /\ Waiting /\ ~lagged /\ unread # <<>> /\ Head(unread).is = "end"
  /\ Heard(Tail(unread))
  /\ \/ todo' = OnEnd
     \/ mode # "chat" /\ todo' = Steps(Ending("failed"))
     \/ mode = "json" /\ todo' = Failure
  /\ UNCHANGED <<lagged, told>>

TakeRequired ==
  /\ mode \in Owners /\ Waiting /\ ~lagged /\ unread # <<>> /\ Head(unread).is = "required"
  /\ Heard(Tail(unread))
  /\ todo' = Failure
  /\ UNCHANGED <<lagged, told>>

\* An approval event names its thread and turn at the top level: it breaks the
\* silence, and the loop goes on, since it has no params to look at.
TakeApproval ==
  /\ mode \in Owners /\ Waiting /\ ~lagged /\ unread # <<>>
  /\ Head(unread).is \in {"asked", "resolved"}
  /\ Heard(Tail(unread))
  /\ UNCHANGED <<todo, lagged, told>>

\* A mutation of Skip: traffic of other turns counts as a sign of life.
SkipAwake ==
  /\ mode \in Owners /\ Waiting /\ ~lagged /\ unread # <<>> /\ Head(unread).is = "other"
  /\ unread' = Tail(unread) /\ silence' = 0
  /\ UNCHANGED <<subscribed, lagged, System, todo, over, probes, told>>

Skip ==
  /\ mode \in Owners /\ Waiting /\ ~lagged /\ unread # <<>> /\ Head(unread).is = "other"
  /\ unread' = Tail(unread)
  /\ UNCHANGED <<subscribed, lagged, System, todo, over, watch, told>>

TakeLoss ==
  /\ mode \in Owners /\ Waiting
  /\ \/ lagged /\ lagged' = FALSE /\ UNCHANGED unread
     \/ /\ ~lagged /\ unread # <<>> /\ Head(unread).is = "closed"
        /\ unread' = Tail(unread) /\ UNCHANGED lagged
  /\ todo' = OnLoss
  /\ Tells([known EXCEPT !.gap = TRUE])
  /\ UNCHANGED <<subscribed, System, over, watch>>

\* The wait for an event of the turn runs out.  run_stream waits a heartbeat at
\* a time and looks after the turn; the others wait for the idle timeout.
TimeOut ==
  /\ mode \in Owners /\ Waiting /\ ~lagged
  /\ unread # <<>> => Head(unread).is = "other"
  /\ silence' = IF mode = "responses" THEN silence + 1 ELSE IdleAfter
  /\ todo' = IF silence' >= IdleAfter THEN Failure
             ELSE Steps(IF silence' < StallAfter THEN <<"beat">> ELSE <<"beat", "probe">>)
  /\ UNCHANGED <<ring, System, over, probes, told>>

\* sender.closed().
SeesClientGone ==
  /\ Waiting /\ ~here /\ mode # "json"
  /\ todo' = Steps(IF mode = "monitor" THEN <<"return">> ELSE <<"stop", "return">>)
  /\ UNCHANGED <<ring, System, over, watch, told>>

\* turn_events_stream: what names the turn is passed on; a gap is reported.
\* matches_turn_event looks at turnId only.
Names(e) == e.is \in {"delta", "asked", "resolved", "required"} \/ (e.is = "end" /\ e.flat)

Forward ==
  /\ mode = "monitor" /\ Waiting /\ ~lagged /\ unread # <<>> /\ Head(unread).is # "closed"
  /\ unread' = Tail(unread)
  /\ todo' = IF Names(Head(unread)) THEN <<Head(unread)>> ELSE <<>>
  /\ UNCHANGED <<subscribed, lagged, System, over, watch, told>>

ForwardGap ==
  /\ mode = "monitor" /\ Waiting
  /\ \/ lagged /\ lagged' = FALSE /\ todo' = Steps(<<"gap">>) /\ UNCHANGED unread
     \/ /\ ~lagged /\ unread # <<>> /\ Head(unread).is = "closed"
        /\ unread' = Tail(unread) /\ todo' = Steps(<<"gap", "return">>) /\ UNCHANGED lagged
  /\ UNCHANGED <<subscribed, System, over, watch, told>>

-----------------------------------------------------------------------------
(* The reader: the things it does, in the order todo gives.                *)

Doing(x) == ~over /\ todo # <<>> /\ Head(todo).is = x
Done == todo' = Tail(todo)
Then(more) == todo' = more \o Tail(todo)

Subscribe ==
  /\ Doing("subscribe") /\ Done
  /\ subscribed' = TRUE
  /\ UNCHANGED <<unread, lagged, System, over, watch, told>>

\* Codex may begin, and end, before the answer to turn/start is read; when its
\* output is closed the handler gets an error for an answer.
StartTurn ==
  /\ Doing("start")
  /\ IF up THEN turn' = "running" /\ Done ELSE todo' = Steps(<<"return">>) /\ UNCHANGED turn
  /\ UNCHANGED <<mode, up, made, ask, stopAsked, ring, over, watch, client, told>>

AskStop ==
  /\ Doing("stop") /\ Done
  /\ stopAsked' = TRUE
  /\ UNCHANGED <<mode, codex, ring, over, watch, client, told>>

\* probe_turn: thread/read says that the turn waits for the user (for an approval
\* or for input), that it runs, what else became of it, or fails.
Probe ==
  /\ Doing("probe")
  /\ \/ turn = "running" /\ Then(Steps(<<"beat">>)) /\ UNCHANGED probes
     \/ /\ turn = "running" /\ ask \notin {"recorded", "pending"}
        /\ probes' = probes + 1
        /\ Then(IF probes + 1 >= Confirmations THEN Failure ELSE <<>>)
     \/ turn \in Ended /\ Then(Steps(<<"beat">>)) /\ UNCHANGED probes
     \/ Done /\ UNCHANGED probes
  /\ UNCHANGED <<ring, System, over, silence, told>>

\* turn_snapshot of the monitor: thread/read answers, or fails and the status is
\* reported as unknown.
ReadTurn ==
  /\ Doing("read") /\ Done
  /\ \/ Tells([known EXCEPT !.end = turn \in Ended])
     \/ Tells([known EXCEPT !.gap = TRUE])
  /\ UNCHANGED <<ring, System, over, watch>>

\* A send waits for a slot, and fails when the client is gone.  The generating
\* streams notice that with the text; a monitor always.
Sent(x) ==
  CASE x.is = "delta" -> IF mode = "monitor" THEN UNCHANGED told
                         ELSE text' = Append(text, x.n) /\ UNCHANGED <<ending, known>>
    [] x.is = "end" -> Tells([known EXCEPT !.end = TRUE])
    [] x.is = "asked" -> Tells([known EXCEPT !.ask = TRUE])
    [] x.is = "resolved" -> Tells([known EXCEPT !.ask = FALSE])
    [] x.is = "gap" -> Tells([known EXCEPT !.gap = TRUE])
    [] x.is = "list" -> Tells([known EXCEPT !.ask = ask = "pending"])
    [] x.is \in {"completed", "failed"} -> ending' = x.is /\ UNCHANGED <<text, known>>
    [] OTHER -> UNCHANGED told

Calls == {"subscribe", "start", "stop", "probe", "read", "return"}
Sending == ~over /\ todo # <<>> /\ Head(todo).is \notin Calls

Send ==
  /\ Sending /\ here /\ Done
  /\ IF mode = "json" THEN UNCHANGED channel ELSE channel < Slots /\ channel' = channel + 1
  /\ Sent(Head(todo))
  /\ UNCHANGED <<mode, codex, stopAsked, ring, over, watch, here>>

SendFails ==
  /\ Sending /\ ~here
  /\ CASE mode = "monitor" -> todo' = Steps(<<"return">>)
       [] mode # "monitor" /\ Head(todo).is \in {"delta", "role"} ->
            todo' = Steps(<<"stop", "return">>)
       [] OTHER -> Done
  /\ UNCHANGED <<ring, System, over, watch, told>>

Return ==
  /\ Doing("return")
  /\ over' = TRUE /\ todo' = <<>>
  /\ UNCHANGED <<ring, System, watch, told>>

-----------------------------------------------------------------------------
(* The client.                                                             *)

ClientReads ==
  /\ here /\ channel > 0
  /\ channel' = channel - 1
  /\ UNCHANGED <<mode, codex, stopAsked, ring, todo, over, watch, here, told>>

\* A stream's task outlives its client (that a client may leave before the task
\* is spawned is in TurnLifecycle); the handler of a request does not.
ClientLeaves ==
  /\ here /\ \A i \in DOMAIN todo : todo[i].is \notin {"subscribe", "start"}
  /\ here' = FALSE /\ channel' = 0
  /\ IF mode = "json" /\ ~over THEN over' = TRUE /\ todo' = <<>> ELSE UNCHANGED <<over, todo>>
  /\ UNCHANGED <<mode, codex, stopAsked, ring, watch, told>>

-----------------------------------------------------------------------------
Init ==
  /\ mode \in Modes
  /\ turn = IF mode = "monitor" THEN "running" ELSE "none"
  /\ up = TRUE /\ made = 0 /\ ask = "none" /\ stopAsked = FALSE
  /\ subscribed = FALSE /\ unread = <<>> /\ lagged = FALSE
  /\ todo = Opening(mode) /\ over = FALSE
  /\ silence = 0 /\ probes = 0
  /\ channel = 0 /\ here = TRUE
  /\ text = <<>> /\ ending = "none"
  /\ known = [end |-> FALSE, ask |-> FALSE, gap |-> FALSE]

Codex ==
  \/ Speak \/ OtherTurn \/ CloseTransport
  \/ \E how \in Ended, flat \in BOOLEAN : EndTurn(how, flat)

Approving == RecordAsk \/ PublishAsk \/ DecideAsk \/ PublishDecision \/ WithdrawAsk \/ AnswerAsk

Takes ==
  \/ TakePiece \/ TakeEnd \/ TakeRequired \/ TakeApproval \/ Skip \/ TakeLoss
  \/ SeesClientGone \/ Forward \/ ForwardGap

Acts == Subscribe \/ StartTurn \/ AskStop \/ Probe \/ ReadTurn \/ Send \/ SendFails \/ Return

Next == Codex \/ Approving \/ Takes \/ TimeOut \/ Acts \/ ClientReads \/ ClientLeaves

Spec == Init /\ [][Next]_vars

\* The reader runs when it can, its timer fires, and the client reads what it is
\* sent or leaves.  Codex need not say or end anything, and other turns may
\* talk for ever.
Fairness ==
  WF_vars(Takes) /\ WF_vars(Acts) /\ WF_vars(TimeOut) /\ WF_vars(ClientReads)

FairSpec == Spec /\ Fairness

-----------------------------------------------------------------------------
(* What the streams promise.                                               *)

\* The state has its shape (the ring and the channel keep their bounds).
TypeOK ==
  /\ mode \in Modes /\ turn \in {"none", "running"} \cup Ended
  /\ ask \in {"none", "recorded", "recalled", "pending", "withdrawn", "decided", "settled"}
  /\ made \in 0..MaxPieces
  /\ Len(unread) <= Ring /\ channel \in 0..Slots
  /\ silence \in 0..IdleAfter /\ probes \in 0..Confirmations
  /\ (over => todo = <<>>) /\ (unread # <<>> => subscribed)

Contract == INSTANCE ResponseStream
  WITH produced <- made, result <- IF turn \in Ended THEN turn ELSE "none",
       given <- text, ending <- ending

\* The answer keeps the contract of ResponseStream: whole and in order when it
\* says completed, one ending, nothing after it - although events of the ring
\* are lost under load and the first may come before turn/start is answered.
StreamKept == Contract!Spec

\* A stream's task does not leave a turn behind that runs: it ended, or Codex
\* was asked to stop it - the exception is run_stream when it loses events
\* (http.rs:1587), which ends only the answer.
LeftTurnIsStopped ==
  (over /\ mode \in {"responses", "chat"} /\ turn = "running") =>
    stopAsked \/ (mode = "responses" /\ known.gap)

\* Subscribing, the snapshot, the list of approvals and the events that follow
\* leave no hole: a monitor that is up to date and reported no gap has shown its
\* client the approval that is pending, and taken back the one that was decided
\* (of a withdrawn one nothing is published).
MonitorKnowsPending ==
  (mode = "monitor" /\ Waiting /\ unread = <<>> /\ ~lagged /\ here /\ ~known.gap) =>
    /\ ask = "pending" => known.ask
    /\ ask = "settled" => ~known.ask

\* docs/api-reference.md:483: the monitor forwards matching upstream
\* notifications, so that its client, up to date, knows that the turn ended.
MonitorLearnsEnd ==
  (mode = "monitor" /\ Waiting /\ unread = <<>> /\ ~lagged /\ here /\ ~known.gap) =>
    (turn \in Ended => known.end)

\* A reader that owns a turn ends, even if Codex falls silent in the middle of it
\* or never ends it, and however busy other turns keep the ring.  Not if the turn
\* itself speaks for ever: the code sets no limit to that, and the model has it say
\* MaxPieces pieces at most.  Nor, for a stream, if the client stays and stops
\* reading (Fairness).
StreamEnds == (mode \in Owners) ~> over
=============================================================================
