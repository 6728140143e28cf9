---------------------------- MODULE ApprovalsProofs ----------------------------
(***************************************************************************)
(* What Approvals promises, proved for any number of approvals, turns,     *)
(* threads and clients, any rules and shapes, and any number of events the *)
(* listener misses.                                                        *)
(*                                                                         *)
(* An approval is settled once because the right to answer it passes from  *)
(* hand to hand: from the request in the queue to the pending record, and  *)
(* from that to the one task that took it out of pending.  The end of a    *)
(* turn is the last thing in the queue about it, and a thread has one turn *)
(* that is not over, which its context is for.                             *)
(*                                                                         *)
(* In a proof about a step the lettered steps (<1>a, <1>b, ...) are facts  *)
(* about it, and the numbered ones the conjuncts it has to keep.           *)
(***************************************************************************)
EXTENDS Approvals, TLAPS

Events ==
  [kind : {"request", "resolved"}, of : Approvals] \cup [kind : {"completed"}, of : Turns]
    \cup [kind : {"closed"}, of : {None}]

Shape == TypeOK /\ queue \in Seq(Events)

IsRequest(n) == queue[n].kind = "request"

\* Nobody has an answer to it on its way, and none was written.
Untouched(a) ==
  replies[a] = <<>> /\ \A task \in Tasks : answer[task] # None => answer[task].id # a

\* A request is queued once, and nothing is done about it before it is taken.
RequestsWait ==
  /\ \A n \in DOMAIN queue : IsRequest(n) =>
       ask[queue[n].of] # None /\ record[queue[n].of] = None /\ Untouched(queue[n].of)
  /\ \A m, n \in DOMAIN queue :
       IsRequest(m) /\ IsRequest(n) /\ queue[m].of = queue[n].of => m = n

\* What the record says of a decision.
Says(a, what) ==
  CASE record[a].state = "approved" -> what = record[a].decision
    [] record[a].state \in {"denied", "expired"} -> what = "decline"
    [] record[a].state = "cancelled" -> what = "cancel"
    [] OTHER -> FALSE

\* Everything that was written is what the record says, and so is the status.
AllRecorded ==
  \A a \in Approvals : record[a] # None =>
    /\ \A n \in DOMAIN replies[a] : Says(a, replies[a][n])
    /\ record[a].status = "written" => replies[a] # <<>>
    /\ record[a].status = "not_sent" => replies[a] = <<>>

\* A record is of a request; as long as nothing was sent nobody is about to.
RecordsHold ==
  \A a \in Approvals :
    /\ record[a] # None =>
         /\ ask[a] # None
         /\ ask[a].shape.named => record[a].turn = ask[a].turn
         /\ record[a].state = "pending" => record[a].status = "not_sent"
         /\ record[a].status = "not_sent" => Untouched(a)
    /\ ask[a] = None => replies[a] = <<>>

\* One task has the answer to a request, and it is what the record says.
AnswersHold ==
  /\ \A task \in Tasks : answer[task] # None =>
       LET a == answer[task].id IN
       /\ ask[a] # None
       /\ answer[task].stage = "write" => replies[a] = <<>>
       /\ answer[task].stage = "mark" => Len(replies[a]) = 1
       /\ record[a] # None => Says(a, answer[task].what)
  /\ \A t, u \in Tasks :
       answer[t] # None /\ answer[u] # None /\ answer[t].id = answer[u].id => t = u

\* The end of a turn is behind everything it asked.
EndsLast ==
  /\ \A n \in DOMAIN queue : queue[n].kind = "completed" => run[queue[n].of] = "ended"
  /\ \A m, n \in DOMAIN queue :
       m < n /\ queue[m].kind = "completed" /\ IsRequest(n) =>
         ask[queue[n].of].turn # queue[m].of
  /\ \A t \in Turns : t \in told \/ t = ending =>
       /\ run[t] = "ended"
       /\ \A n \in DOMAIN queue : IsRequest(n) => ask[queue[n].of].turn # t

\* A turn runs after it was registered; a thread has one turn that is not over.
OneTurnPerThread ==
  /\ \A t \in Turns : handler[t] = "idle" => run[t] = "none"
  /\ \A t, u \in Turns :
       ThreadOf[t] = ThreadOf[u] /\ ~MayFollow(t) /\ ~MayFollow(u) => t = u
  /\ \A a \in Approvals : ask[a] # None => handler[ask[a].turn] # "idle"

\* The context of a thread is for that turn until it ends, and suppresses the
\* workspace approvals if any turn of the thread does.
ContextHolds ==
  /\ \A t \in Turns : handler[t] # "idle" /\ run[t] \in {"none", "running"} =>
       LET c == context[ThreadOf[t]] IN c # None /\ c.by = t /\ c.turn \in {None, t}
  /\ \A th \in Threads : context[th] # None =>
       /\ handler[context[th].by] # "idle" /\ ThreadOf[context[th].by] = th
       /\ \A u \in Turns :
            ThreadOf[u] = th /\ handler[u] # "idle" /\ rules[u].suppress =>
              rules[context[th].by].suppress

IInv ==
  /\ Shape
  /\ RequestsWait /\ RecordsHold /\ AnswersHold
  /\ AnsweredOnce /\ AllRecorded
  /\ EndsLast /\ CompletedTurnHasNoPending
  /\ OneTurnPerThread /\ ContextHolds /\ SuppressedNeverAutoApproved
-----------------------------------------------------------------------------
(* The queue of events.                                                    *)

LEMMA TailFacts ==
  ASSUME NEW S, NEW s \in Seq(S), s # <<>>
  PROVE  /\ Tail(s) \in Seq(S) /\ Head(s) = s[1] /\ Head(s) \in S /\ 1 \in DOMAIN s
         /\ DOMAIN s = 1..Len(s) /\ DOMAIN Tail(s) = 1..(Len(s) - 1) /\ Len(s) \in Nat
         /\ Len(Tail(s)) = Len(s) - 1
         /\ \A n \in DOMAIN Tail(s) : n + 1 \in DOMAIN s /\ Tail(s)[n] = s[n + 1]
<1>1. /\ Len(s) \in Nat \ {0} /\ DOMAIN s = 1..Len(s) /\ Tail(s) \in Seq(S)
      /\ Len(Tail(s)) = Len(s) - 1 /\ DOMAIN Tail(s) = 1..(Len(s) - 1)
  OBVIOUS
<1>2. Head(s) = s[1] /\ Head(s) \in S
  OBVIOUS
<1>3. \A n \in 1..(Len(s) - 1) : Tail(s)[n] = s[n + 1]
  OBVIOUS
<1> QED BY <1>1, <1>2, <1>3

LEMMA AppendFacts ==
  ASSUME NEW S, NEW s \in Seq(S), NEW e \in S
  PROVE  /\ Append(s, e) \in Seq(S) /\ Len(Append(s, e)) = Len(s) + 1 /\ Len(s) \in Nat
         /\ DOMAIN s = 1..Len(s) /\ DOMAIN Append(s, e) = 1..(Len(s) + 1)
         /\ \A n \in DOMAIN s : Append(s, e)[n] = s[n]
         /\ Append(s, e)[Len(s) + 1] = e
OBVIOUS

LEMMA QueueTypes ==
  ASSUME queue \in Seq(Events)
  PROVE  \A n \in DOMAIN queue :
           /\ queue[n] \in Events
           /\ queue[n].kind \in {"request", "resolved"} => queue[n].of \in Approvals
           /\ queue[n].kind = "completed" => queue[n].of \in Turns
<1>1. \A e \in Events : /\ e.kind \in {"request", "resolved"} => e.of \in Approvals
                        /\ e.kind = "completed" => e.of \in Turns
  BY DEF Events
<1>2. \A n \in DOMAIN queue : queue[n] \in Events
  OBVIOUS
<1> QED BY <1>1, <1>2

-----------------------------------------------------------------------------
(* The handler of a turn.                                                  *)

LEMMA RegisterKeeps ==
  ASSUME IInv, NEW t \in Turns, NEW x \in Rules, Register(t, x)
  PROVE  IInv'
<1> USE DEF IInv, Register, events, codex, history
<1>1. /\ RequestsWait' /\ RecordsHold' /\ AnswersHold' /\ AnsweredOnce'
      /\ AllRecorded' /\ EndsLast' /\ CompletedTurnHasNoPending'
  BY DEF RequestsWait, Untouched, IsRequest, RecordsHold, AnswersHold, Says,
    AnsweredOnce, AllRecorded, EndsLast, CompletedTurnHasNoPending, Pending
<1>2. Shape'
  <2>1. [by |-> t, turn |-> None] \in Contexts /\ ThreadOf[t] \in Threads
    BY ThreadsAssumption DEF Contexts
  <2>2. context' \in [Threads -> Contexts \cup {None}]
    BY <2>1 DEF Shape, TypeOK
  <2>3. rules' \in [Turns -> [interactive : BOOLEAN, suppress : BOOLEAN]]
    BY RulesAssumption DEF Shape, TypeOK
  <2>4. handler' \in [Turns -> {"idle", "starting", "bound", "over"}]
    BY DEF Shape, TypeOK
  <2> QED BY <2>2, <2>3, <2>4 DEF Shape, TypeOK
<1>3. OneTurnPerThread'
  BY NoneAssumption, ThreadsAssumption, RulesAssumption DEF Shape, TypeOK,
    OneTurnPerThread, MayFollow
<1>4. ContextHolds'
  <2> DEFINE new == [by |-> t, turn |-> None]
  <2>0. /\ ThreadOf[t] \in Threads /\ context'[ThreadOf[t]] = new /\ new # None
        /\ new.by = t /\ new.turn = None
        /\ \A th \in Threads : th # ThreadOf[t] => context'[th] = context[th]
        /\ \A u \in Turns : ThreadOf[u] \in Threads
        /\ handler'[t] = "starting" /\ rules'[t] = x
        /\ \A u \in Turns : u # t => handler'[u] = handler[u] /\ rules'[u] = rules[u]
    <3>1. new \in Contexts
      BY DEF Contexts
    <3> QED BY <3>1, NoneAssumption, ThreadsAssumption DEF Shape, TypeOK
  <2> HIDE DEF new
  <2>1. ASSUME NEW u \in Turns, handler'[u] # "idle", run[u] \in {"none", "running"}
        PROVE  LET c == context'[ThreadOf[u]] IN c # None /\ c.by = u /\ c.turn \in {None, u}
    <3>1. CASE u = t
      BY <3>1, <2>0
    <3>2. CASE u # t
      <4>1. ThreadOf[u] # ThreadOf[t]
        BY <3>2, <2>0, <2>1 DEF MayFollow
      <4> QED BY <3>2, <4>1, <2>0, <2>1 DEF ContextHolds
    <3> QED BY <3>1, <3>2
  <2>2. ASSUME NEW th \in Threads, context'[th] # None
        PROVE  /\ handler'[context'[th].by] # "idle" /\ ThreadOf[context'[th].by] = th
               /\ \A u \in Turns :
                    ThreadOf[u] = th /\ handler'[u] # "idle" /\ rules'[u].suppress =>
                      rules'[context'[th].by].suppress
    <3>1. CASE th = ThreadOf[t]
      BY <3>1, <2>0 DEF Allowed
    <3>2. CASE th # ThreadOf[t]
      <4>1. /\ context'[th] = context[th] /\ context[th].by \in Turns
            /\ ThreadOf[context[th].by] = th
            /\ handler[context[th].by] # "idle"
        BY <3>2, <2>0, <2>2 DEF ContextHolds, Shape, TypeOK, Contexts
      <4>2. context[th].by # t
        BY <3>2, <4>1
      <4> QED BY <3>2, <4>1, <4>2, <2>0, <2>2 DEF ContextHolds
    <3> QED BY <3>1, <3>2
  <2> QED BY <2>1, <2>2 DEF ContextHolds
<1>5. SuppressedNeverAutoApproved'
  BY NoneAssumption, ThreadsAssumption, RulesAssumption DEF Shape, TypeOK,
    SuppressedNeverAutoApproved, RecordsHold, Untouched, OneTurnPerThread, MayFollow
<1> QED BY <1>1, <1>2, <1>3, <1>4, <1>5

LEMMA BindKeeps ==
  ASSUME IInv, NEW t \in Turns, Bind(t)
  PROVE  IInv'
<1> USE DEF IInv, Bind, events, codex, history
<1>a. /\ context' \in [Threads -> Contexts \cup {None}]
      /\ ThreadOf[t] \in Threads
      /\ \A th \in Threads : th # ThreadOf[t] => context'[th] = context[th]
      /\ context'[ThreadOf[t]] = None <=> context[ThreadOf[t]] = None
      /\ context[ThreadOf[t]] # None =>
           context'[ThreadOf[t]].by = context[ThreadOf[t]].by /\ context'[ThreadOf[t]].turn = t
  <2>1. ThreadOf[t] \in Threads
    BY ThreadsAssumption
  <2>2. \A c \in Contexts : /\ [c EXCEPT !.turn = t] \in Contexts /\ [c EXCEPT !.turn = t].by = c.by
                            /\ [c EXCEPT !.turn = t].turn = t
    BY DEF Contexts
  <2>3. context[ThreadOf[t]] # None => context[ThreadOf[t]] \in Contexts
    BY <2>1 DEF Shape, TypeOK
  <2> QED BY <2>1, <2>2, <2>3, NoneAssumption DEF Shape, TypeOK
<1>b. /\ record' \in [Approvals -> Records \cup {None}]
      /\ \A a \in Approvals :
           /\ record'[a] = None <=> record[a] = None
           /\ record[a] # None =>
                /\ record'[a].turn = record[a].turn \/ record[a].turn = None
                /\ record'[a].state = record[a].state /\ record'[a].decision = record[a].decision
                /\ record'[a].auto = record[a].auto /\ record'[a].status = record[a].status
  <2>1. \A r \in Records : LET s == [r EXCEPT !.turn = t] IN
          s \in Records /\ s.state = r.state /\ s.decision = r.decision /\ s.auto = r.auto
          /\ s.status = r.status
    BY DEF Records
  <2>2. \A a \in Approvals : record[a] # None => record[a] \in Records
    BY DEF Shape, TypeOK
  <2>3. \A a \in Approvals :
          record'[a] = record[a] \/ (record[a] # None /\ record[a].turn = None
                                     /\ record'[a] = [record[a] EXCEPT !.turn = t])
    OBVIOUS
  <2>4. \A a \in Approvals : record'[a] \in Records \cup {None}
    BY <2>1, <2>2, <2>3
  <2>5. record' = [a \in Approvals |-> record'[a]]
    OBVIOUS
  <2> QED BY <2>1, <2>2, <2>3, <2>4, <2>5, NoneAssumption
\* The turn that binds is the one the context is for.
<1>c. \A u \in Turns : ThreadOf[u] = ThreadOf[t] /\ handler[u] # "idle"
        /\ run[u] \in {"none", "running"} => u = t
  BY DEF OneTurnPerThread, MayFollow
<1>1. /\ AnsweredOnce' /\ EndsLast'
  BY DEF AnsweredOnce, EndsLast, IsRequest
<1>2. Shape'
  BY <1>a, <1>b DEF Shape, TypeOK
<1>3. RequestsWait'
  <2>1. \A n \in DOMAIN queue : IsRequest(n) => queue[n].of \in Approvals
    BY QueueTypes DEF Shape, IsRequest
  <2> QED BY <1>b, <2>1 DEF RequestsWait, Untouched, IsRequest
<1>4. RecordsHold'
  <2> SUFFICES ASSUME NEW a \in Approvals, record[a] # None
               PROVE  /\ ask[a].shape.named => record'[a].turn = ask[a].turn
                      /\ record'[a].state = "pending" => record'[a].status = "not_sent"
                      /\ record'[a].status = "not_sent" => Untouched(a)
    BY <1>b DEF RecordsHold, Untouched
  <2>1. ask[a].shape.named => record[a].turn # None
    BY NamesAssumption DEF RecordsHold, Shape, TypeOK, Asks
  <2> QED BY <2>1, <1>b DEF RecordsHold
<1>5. AnswersHold'
  <2>1. \A task \in Tasks : answer[task] # None => answer[task].id \in Approvals
    BY DEF Shape, TypeOK, AnswersOnTheWay
  <2>2. \A a \in Approvals : \A what : record[a] # None => (Says(a, what)' <=> Says(a, what))
    BY <1>b DEF Says
  <2> QED BY <1>b, <2>1, <2>2 DEF AnswersHold
<1>6. AllRecorded'
  BY <1>b DEF AllRecorded, Says
<1>7. CompletedTurnHasNoPending'
  BY <1>b DEF CompletedTurnHasNoPending, Pending
<1>8. OneTurnPerThread'
  BY NoneAssumption DEF Shape, TypeOK, OneTurnPerThread, MayFollow
<1>9. ContextHolds'
  BY <1>a, <1>c, ThreadsAssumption DEF ContextHolds, Shape, TypeOK
<1>10. SuppressedNeverAutoApproved'
  BY <1>b DEF SuppressedNeverAutoApproved
<1> QED BY <1>1, <1>2, <1>3, <1>4, <1>5, <1>6, <1>7, <1>8, <1>9, <1>10

\* A context that was for a turn goes when that turn has ended, and no other.
LEMMA WithoutContextKeeps ==
  ASSUME IInv, NEW t \in Turns, run[t] = "ended", context' = WithoutContext(t),
         UNCHANGED <<turns, codex>>
  PROVE  context' \in [Threads -> Contexts \cup {None}] /\ ContextHolds'
<1> USE DEF IInv, turns, codex
<1>1. /\ context' \in [Threads -> Contexts \cup {None}]
      /\ \A th \in Threads :
           context'[th] = context[th] \/ (context'[th] = None /\ context[th].turn = t)
  BY ThreadsAssumption DEF WithoutContext, Shape, TypeOK
<1>2. ASSUME NEW u \in Turns, handler[u] # "idle", run[u] \in {"none", "running"}
      PROVE  LET c == context'[ThreadOf[u]] IN c # None /\ c.by = u /\ c.turn \in {None, u}
  <2>1. LET c == context[ThreadOf[u]] IN c # None /\ c.by = u /\ c.turn \in {None, u}
    BY <1>2 DEF ContextHolds
  <2>2. u # t /\ t # None /\ ThreadOf[u] \in Threads
    BY <1>2, ThreadsAssumption, NamesAssumption
  <2> QED BY <1>1, <2>1, <2>2
<1>3. ASSUME NEW th \in Threads, context'[th] # None
      PROVE  context'[th] = context[th]
  BY <1>1, <1>3
<1> QED BY <1>1, <1>2, <1>3 DEF ContextHolds

LEMMA InvalidateKeeps ==
  ASSUME IInv, NEW t \in Turns, Invalidate(t)
  PROVE  IInv'
<1> USE DEF IInv, Invalidate, events, turns, codex, history
<1>a. context' \in [Threads -> Contexts \cup {None}] /\ ContextHolds'
  BY WithoutContextKeeps DEF turns, codex
<1>1. /\ RequestsWait' /\ RecordsHold' /\ AnswersHold' /\ AnsweredOnce'
      /\ AllRecorded' /\ EndsLast' /\ CompletedTurnHasNoPending'
      /\ OneTurnPerThread' /\ SuppressedNeverAutoApproved'
  BY DEF RequestsWait, Untouched, IsRequest, RecordsHold, AnswersHold, Says,
    AnsweredOnce, AllRecorded, EndsLast, CompletedTurnHasNoPending, Pending,
    OneTurnPerThread, MayFollow, SuppressedNeverAutoApproved
<1>2. Shape'
  BY <1>a DEF Shape, TypeOK
<1>3. ContextHolds'
  BY <1>a
<1> QED BY <1>1, <1>2, <1>3

LEMMA HandlerEndsKeeps ==
  ASSUME IInv, NEW t \in Turns, HandlerEnds(t)
  PROVE  IInv'
<1> USE DEF IInv, HandlerEnds, manager, events, codex, history
<1>1. /\ RequestsWait' /\ RecordsHold' /\ AnswersHold' /\ AnsweredOnce'
      /\ AllRecorded' /\ EndsLast' /\ CompletedTurnHasNoPending'
      /\ SuppressedNeverAutoApproved'
  BY DEF RequestsWait, Untouched, IsRequest, RecordsHold, AnswersHold, Says,
    AnsweredOnce, AllRecorded, EndsLast, CompletedTurnHasNoPending, Pending,
    SuppressedNeverAutoApproved
<1>2. Shape'
  BY NoneAssumption DEF Shape, TypeOK
<1>3. OneTurnPerThread'
  BY NoneAssumption DEF Shape, TypeOK, OneTurnPerThread, MayFollow
<1>4. ContextHolds'
  BY NoneAssumption DEF Shape, TypeOK, ContextHolds, OneTurnPerThread, MayFollow
<1> QED BY <1>1, <1>2, <1>3, <1>4

LEMMA TakeStartKeeps ==
  ASSUME IInv, NEW t \in Turns, TakeStart(t)
  PROVE  IInv'
<1> USE DEF IInv, TakeStart, manager, events, turns, history
<1>1. /\ RequestsWait' /\ RecordsHold' /\ AnswersHold' /\ AnsweredOnce'
      /\ AllRecorded' /\ CompletedTurnHasNoPending' /\ SuppressedNeverAutoApproved'
  BY DEF RequestsWait, Untouched, IsRequest, RecordsHold, AnswersHold, Says,
    AnsweredOnce, AllRecorded, CompletedTurnHasNoPending, Pending,
    SuppressedNeverAutoApproved
<1>2. Shape'
  BY NoneAssumption DEF Shape, TypeOK
<1>3. EndsLast'
  BY NoneAssumption DEF Shape, TypeOK, EndsLast, IsRequest
<1>4. OneTurnPerThread'
  BY NoneAssumption DEF Shape, TypeOK, OneTurnPerThread, MayFollow
<1>5. ContextHolds'
  BY NoneAssumption DEF Shape, TypeOK, ContextHolds, OneTurnPerThread, MayFollow
<1> QED BY <1>1, <1>2, <1>3, <1>4, <1>5

LEMMA ClockPassesKeeps ==
  ASSUME IInv, NEW a \in Approvals, ClockPasses(a)
  PROVE  IInv'
<1> USE DEF IInv, ClockPasses, events, turns, codex, history
<1>1. /\ RequestsWait' /\ RecordsHold' /\ AnswersHold' /\ AnsweredOnce'
      /\ AllRecorded' /\ EndsLast' /\ CompletedTurnHasNoPending'
      /\ OneTurnPerThread' /\ ContextHolds' /\ SuppressedNeverAutoApproved'
  BY DEF RequestsWait, Untouched, IsRequest, RecordsHold, AnswersHold, Says,
    AnsweredOnce, AllRecorded, EndsLast, CompletedTurnHasNoPending, Pending,
    OneTurnPerThread, MayFollow, ContextHolds, SuppressedNeverAutoApproved
<1>2. Shape'
  BY NoneAssumption DEF Shape, TypeOK
<1> QED BY <1>1, <1>2

-----------------------------------------------------------------------------
(* Cancelling.                                                             *)

\* What a cancellation does to a record.
LEMMA CancelledFacts ==
  ASSUME TypeOK, NEW as \in SUBSET Approvals, record' = Cancelled(as)
  PROVE  /\ record' \in [Approvals -> Records \cup {None}]
         /\ \A a \in Approvals :
              \/ record'[a] = record[a] /\ (a \in as => ~Pending(a))
              \/ /\ a \in as /\ Pending(a) /\ record'[a].state = "cancelled" /\ record'[a] # None
                 /\ record'[a].turn = record[a].turn /\ record'[a].auto = record[a].auto
                 /\ record'[a].status = record[a].status
<1>1. \A a \in Approvals : Pending(a) => record[a] \in Records
  BY DEF TypeOK, Pending
<1>2. \A a \in Approvals : record'[a] = IF a \in as /\ Pending(a)
                                       THEN [record[a] EXCEPT !.state = "cancelled"] ELSE record[a]
  BY DEF Cancelled
<1>3. \A a \in Approvals : Pending(a) => [record[a] EXCEPT !.state = "cancelled"] \in Records
  BY <1>1 DEF Records, States
<1>4. record' \in [Approvals -> Records \cup {None}]
  BY <1>2, <1>3 DEF Cancelled, TypeOK
<1>5. \A a \in Approvals : a \in as /\ Pending(a) =>
        /\ record'[a] \in Records /\ record'[a].state = "cancelled"
        /\ record'[a].turn = record[a].turn /\ record'[a].auto = record[a].auto
        /\ record'[a].status = record[a].status
  BY <1>1, <1>2, <1>3 DEF Records
<1>6. \A a \in Approvals : ~(a \in as /\ Pending(a)) => record'[a] = record[a]
  BY <1>2
<1>7. \A a \in Approvals : a \in as /\ Pending(a) => record'[a] # None
  BY <1>5, NoneAssumption
<1> QED BY <1>4, <1>5, <1>6, <1>7

LEMMA CancellingKeeps ==
  ASSUME IInv, NEW as \in SUBSET Approvals, record' = Cancelled(as),
         UNCHANGED <<context, due, answer, cancelling, lags, turns, codex, replies,
                     missed, dropped>>
  PROVE  /\ record' \in [Approvals -> Records \cup {None}]
         /\ RecordsHold' /\ AnswersHold' /\ AllRecorded' /\ SuppressedNeverAutoApproved'
         /\ \A a \in Approvals : record'[a] = None <=> record[a] = None
         /\ \A a \in Approvals : Pending(a)' => Pending(a) /\ record'[a] = record[a]
<1> USE DEF IInv, turns, codex
<1>1. /\ record' \in [Approvals -> Records \cup {None}]
      /\ \A a \in Approvals :
           \/ record'[a] = record[a] /\ (a \in as => ~Pending(a))
           \/ /\ a \in as /\ Pending(a) /\ record'[a].state = "cancelled" /\ record'[a] # None
              /\ record'[a].turn = record[a].turn /\ record'[a].auto = record[a].auto
              /\ record'[a].status = record[a].status
  BY CancelledFacts DEF Shape
<1>2. RecordsHold'
  <2> SUFFICES ASSUME NEW a \in Approvals
               PROVE  /\ record'[a] # None =>
                           /\ ask[a] # None
                           /\ ask[a].shape.named => record'[a].turn = ask[a].turn
                           /\ record'[a].state = "pending" => record'[a].status = "not_sent"
                           /\ record'[a].status = "not_sent" => Untouched(a)
                      /\ ask[a] = None => replies[a] = <<>>
    BY DEF RecordsHold, Untouched
  <2>1. CASE record'[a] = record[a]
    BY <2>1 DEF RecordsHold
  <2>2. CASE record'[a] # record[a]
    BY <2>2, <1>1 DEF RecordsHold, Pending
  <2> QED BY <2>1, <2>2
<1>3. \A a \in Approvals : Pending(a) => Untouched(a)
  BY DEF RecordsHold, Pending
<1>4. AnswersHold'
  <2>1. ASSUME NEW task \in Tasks, answer[task] # None, record'[answer[task].id] # None
        PROVE  Says(answer[task].id, answer[task].what)'
    <3> DEFINE a == answer[task].id
    <3>1. a \in Approvals
      BY <2>1 DEF Shape, TypeOK, AnswersOnTheWay
    <3>2. ~Pending(a)
      BY <2>1, <3>1, <1>3 DEF Untouched
    <3>3. record'[a] = record[a] /\ Says(a, answer[task].what)
      BY <2>1, <3>1, <3>2, <1>1 DEF AnswersHold
    <3> QED BY <3>3 DEF Says
  <2> QED BY <2>1 DEF AnswersHold
<1>5. AllRecorded'
  <2> SUFFICES ASSUME NEW a \in Approvals, record'[a] # None
               PROVE  /\ \A n \in DOMAIN replies[a] : Says(a, replies[a][n])'
                      /\ record'[a].status = "written" => replies[a] # <<>>
                      /\ record'[a].status = "not_sent" => replies[a] = <<>>
    BY DEF AllRecorded
  <2>1. CASE record'[a] = record[a]
    BY <2>1 DEF AllRecorded, Says
  <2>2. CASE record'[a] # record[a]
    <3>1. replies[a] = <<>> /\ record'[a].status = record[a].status /\ record[a].status = "not_sent"
      BY <2>2, <1>1, <1>3 DEF Untouched, RecordsHold, Pending
    <3> QED BY <3>1
  <2> QED BY <2>1, <2>2
<1>6. SuppressedNeverAutoApproved'
  BY <1>1 DEF SuppressedNeverAutoApproved, Pending
<1> QED BY <1>1, <1>2, <1>4, <1>5, <1>6 DEF Pending

LEMMA CancelApprovalsKeeps ==
  ASSUME IInv, NEW t \in Turns, CancelApprovals(t)
  PROVE  IInv'
<1> USE DEF IInv, CancelApprovals, events, turns, codex, history
<1>a. /\ record' \in [Approvals -> Records \cup {None}]
      /\ RecordsHold' /\ AnswersHold' /\ AllRecorded' /\ SuppressedNeverAutoApproved'
      /\ \A a \in Approvals : record'[a] = None <=> record[a] = None
      /\ \A a \in Approvals : Pending(a)' => Pending(a) /\ record'[a] = record[a]
  BY CancellingKeeps DEF OfTurn
<1>1. /\ AnsweredOnce' /\ EndsLast' /\ OneTurnPerThread' /\ ContextHolds'
  BY DEF AnsweredOnce, EndsLast, IsRequest, OneTurnPerThread, MayFollow, ContextHolds
<1>2. Shape'
  BY <1>a DEF Shape, TypeOK
<1>3. RequestsWait'
  <2>1. \A n \in DOMAIN queue : IsRequest(n) => queue[n].of \in Approvals
    BY QueueTypes DEF Shape, IsRequest
  <2> QED BY <1>a, <2>1 DEF RequestsWait, Untouched, IsRequest
<1>4. RecordsHold'
  BY <1>a
<1>5. AnswersHold'
  BY <1>a
<1>6. AllRecorded'
  BY <1>a
<1>7. CompletedTurnHasNoPending'
  BY <1>a DEF CompletedTurnHasNoPending
<1>8. SuppressedNeverAutoApproved'
  BY <1>a
<1> QED BY <1>1, <1>2, <1>3, <1>4, <1>5, <1>6, <1>7, <1>8

-----------------------------------------------------------------------------
(* What comes into the queue.                                              *)

LEMMA QueueShrinks ==
  ASSUME IInv, queue # <<>>, queue' = Tail(queue)
  PROVE  /\ queue' \in Seq(Events) /\ 1 \in DOMAIN queue /\ Head(queue) = queue[1]
         /\ Head(queue) \in Events
         /\ \A n \in DOMAIN queue' : /\ n + 1 \in DOMAIN queue /\ queue'[n] = queue[n + 1]
                                     /\ n \in Nat /\ 1 < n + 1
<1>1. queue \in Seq(Events)
  BY DEF IInv, Shape
<1> QED BY <1>1, TailFacts

\* What the queue promises holds of its rest, as long as no new end of a turn
\* is dealt with.
LEMMA RestKeeps ==
  ASSUME IInv, queue # <<>>, queue' = Tail(queue), UNCHANGED <<run, ask>>
  PROVE  /\ told' \subseteq told /\ ending' \in {ending, None} => EndsLast'
         /\ /\ UNCHANGED <<replies, answer>>
            /\ \A a \in Approvals : record[a] = None => record'[a] = None
            => RequestsWait'
<1> USE DEF IInv
<1>1. /\ 1 \in DOMAIN queue
      /\ \A n \in DOMAIN queue' : /\ n + 1 \in DOMAIN queue /\ queue'[n] = queue[n + 1]
                                  /\ n \in Nat /\ 1 < n + 1
  BY QueueShrinks
<1>2. \A n \in DOMAIN queue : IsRequest(n) => queue[n].of \in Approvals
  BY QueueTypes DEF Shape, IsRequest
<1>3. ASSUME told' \subseteq told, ending' \in {ending, None}
      PROVE  EndsLast'
  <2>1. \A m, n \in DOMAIN queue' : m < n => m + 1 < n + 1
    BY <1>1
  <2>2. \A t \in Turns : t # None
    BY NamesAssumption
  <2> QED BY <1>1, <1>3, <2>1, <2>2 DEF EndsLast, IsRequest
<1>4. ASSUME UNCHANGED <<replies, answer>>,
             \A a \in Approvals : record[a] = None => record'[a] = None
      PROVE  RequestsWait'
  <2>1. \A m, n \in DOMAIN queue' : m + 1 = n + 1 => m = n
    BY <1>1
  <2> QED BY <1>1, <1>2, <1>4, <2>1 DEF RequestsWait, Untouched, IsRequest
<1> QED BY <1>3, <1>4

\* A new event comes last.
LEMMA QueueGrows ==
  ASSUME IInv, NEW e \in Events, queue' = Append(queue, e)
  PROVE  /\ queue' \in Seq(Events) /\ Len(queue) \in Nat
         /\ DOMAIN queue = 1..Len(queue) /\ DOMAIN queue' = 1..(Len(queue) + 1)
         /\ \A n \in DOMAIN queue' :
              \/ n \in DOMAIN queue /\ n < Len(queue) + 1 /\ queue'[n] = queue[n]
              \/ n = Len(queue) + 1 /\ queue'[n] = e
<1>1. queue \in Seq(Events)
  BY DEF IInv, Shape
<1> QED BY <1>1, AppendFacts

LEMMA NewEventKeeps ==
  ASSUME IInv, NEW e \in Events, queue' = Append(queue, e), e.kind # "request",
         UNCHANGED <<record, answer, replies, ask, told, ending>>,
         \A t \in Turns : run[t] = "ended" => run'[t] = "ended",
         e.kind = "completed" => run'[e.of] = "ended"
  PROVE  queue' \in Seq(Events) /\ RequestsWait' /\ EndsLast'
<1> USE DEF IInv
<1>1. /\ queue' \in Seq(Events) /\ Len(queue) \in Nat
      /\ DOMAIN queue = 1..Len(queue) /\ DOMAIN queue' = 1..(Len(queue) + 1)
      /\ \A n \in DOMAIN queue' :
           \/ n \in DOMAIN queue /\ n < Len(queue) + 1 /\ queue'[n] = queue[n]
           \/ n = Len(queue) + 1 /\ queue'[n] = e
  BY QueueGrows
<1>2. \A n \in DOMAIN queue' :
        IsRequest(n)' => n \in DOMAIN queue /\ IsRequest(n) /\ queue'[n] = queue[n]
  BY <1>1 DEF IsRequest
<1>3. RequestsWait'
  BY <1>2 DEF RequestsWait, Untouched
<1>4. EndsLast'
  <2>1. \A m, n \in DOMAIN queue' :
          m < n /\ n \in DOMAIN queue => m \in DOMAIN queue /\ queue'[m] = queue[m]
    BY <1>1
  <2>2. \A n \in DOMAIN queue : queue[n].kind = "completed" => queue[n].of \in Turns
    BY QueueTypes DEF Shape
  <2>3. \A n \in DOMAIN queue' : queue'[n].kind = "completed" => run'[queue'[n].of] = "ended"
    BY <1>1, <2>2 DEF EndsLast
  <2>4. \A m, n \in DOMAIN queue' : m < n /\ queue'[m].kind = "completed" /\ IsRequest(n)' =>
          ask[queue'[n].of].turn # queue'[m].of
    BY <1>2, <2>1 DEF EndsLast
  <2> QED BY <1>2, <2>3, <2>4 DEF EndsLast
<1> QED BY <1>1, <1>3, <1>4

LEMMA WithdrawKeeps ==
  ASSUME IInv, NEW a \in Approvals, Withdraw(a)
  PROVE  IInv'
<1> USE DEF IInv, Withdraw, manager, turns, history
<1>a. queue' \in Seq(Events) /\ RequestsWait' /\ EndsLast'
  <2>1. [kind |-> "resolved", of |-> a] \in Events
    BY DEF Events
  <2> QED BY <2>1, NewEventKeeps
<1>1. /\ RecordsHold' /\ AnswersHold' /\ AnsweredOnce' /\ AllRecorded'
      /\ CompletedTurnHasNoPending' /\ OneTurnPerThread' /\ ContextHolds'
      /\ SuppressedNeverAutoApproved'
  BY DEF RecordsHold, Untouched, AnswersHold, Says, AnsweredOnce, AllRecorded,
    CompletedTurnHasNoPending, Pending, OneTurnPerThread, MayFollow, ContextHolds,
    SuppressedNeverAutoApproved
<1>2. Shape'
  BY <1>a DEF Shape, TypeOK
<1>3. RequestsWait'
  BY <1>a
<1>4. EndsLast'
  BY <1>a
<1> QED BY <1>1, <1>2, <1>3, <1>4

LEMMA EndTurnKeeps ==
  ASSUME IInv, NEW t \in Turns, EndTurn(t)
  PROVE  IInv'
<1> USE DEF IInv, EndTurn, manager, turns, history
<1>a. queue' \in Seq(Events) /\ RequestsWait' /\ EndsLast'
  <2>1. [kind |-> "completed", of |-> t] \in Events
    BY DEF Events
  <2> QED BY <2>1, NewEventKeeps DEF Shape, TypeOK
<1>1. /\ RecordsHold' /\ AnswersHold' /\ AnsweredOnce' /\ AllRecorded'
      /\ CompletedTurnHasNoPending' /\ SuppressedNeverAutoApproved'
  BY DEF RecordsHold, Untouched, AnswersHold, Says, AnsweredOnce, AllRecorded,
    CompletedTurnHasNoPending, Pending, SuppressedNeverAutoApproved
<1>2. Shape'
  BY <1>a DEF Shape, TypeOK
<1>3. RequestsWait'
  BY <1>a
<1>4. EndsLast'
  BY <1>a
<1>5. OneTurnPerThread'
  BY NoneAssumption DEF Shape, TypeOK, OneTurnPerThread, MayFollow
<1>6. ContextHolds'
  BY DEF ContextHolds, Shape, TypeOK
<1> QED BY <1>1, <1>2, <1>3, <1>4, <1>5, <1>6

LEMMA CloseKeeps ==
  ASSUME IInv, Close
  PROVE  IInv'
<1> USE DEF IInv, Close, manager, turns, history
<1>a. queue' \in Seq(Events) /\ RequestsWait' /\ EndsLast'
  <2>1. [kind |-> "closed", of |-> None] \in Events
    BY DEF Events
  <2> QED BY <2>1, NewEventKeeps DEF Shape, TypeOK
<1>1. /\ RecordsHold' /\ AnswersHold' /\ AnsweredOnce' /\ AllRecorded'
      /\ CompletedTurnHasNoPending' /\ SuppressedNeverAutoApproved'
  BY DEF RecordsHold, Untouched, AnswersHold, Says, AnsweredOnce, AllRecorded,
    CompletedTurnHasNoPending, Pending, SuppressedNeverAutoApproved
<1>2. Shape'
  BY <1>a DEF Shape, TypeOK
<1>3. RequestsWait'
  BY <1>a
<1>4. EndsLast'
  BY <1>a
<1>5. OneTurnPerThread'
  BY NoneAssumption DEF Shape, TypeOK, OneTurnPerThread, MayFollow
<1>6. ContextHolds'
  BY DEF ContextHolds, Shape, TypeOK
<1> QED BY <1>1, <1>2, <1>3, <1>4, <1>5, <1>6

LEMMA RequestKeeps ==
  ASSUME IInv, NEW a \in Approvals, NEW t \in Turns, NEW x \in Shapes, Request(a, t, x)
  PROVE  IInv'
<1> USE DEF IInv, Request, manager, turns, history
<1> DEFINE new == [kind |-> "request", of |-> a]
<1>a. /\ queue' \in Seq(Events) /\ Len(queue) \in Nat /\ new.kind = "request" /\ new.of = a
      /\ DOMAIN queue = 1..Len(queue) /\ DOMAIN queue' = 1..(Len(queue) + 1)
      /\ \A n \in DOMAIN queue' :
           \/ n \in DOMAIN queue /\ n < Len(queue) + 1 /\ queue'[n] = queue[n]
           \/ n = Len(queue) + 1 /\ queue'[n] = new
  <2>1. new \in Events
    BY DEF Events
  <2> QED BY <2>1, QueueGrows
<1>b. /\ ask' \in [Approvals -> Asks \cup {None}] /\ ask'[a] # None /\ ask'[a].turn = t
      /\ \A b \in Approvals : b # a => ask'[b] = ask[b]
  <2>1. [turn |-> t, shape |-> x] \in Asks
    BY DEF Asks
  <2> QED BY <2>1, NoneAssumption DEF Shape, TypeOK
<1> HIDE DEF new
<1>1. /\ AnsweredOnce' /\ AllRecorded' /\ ContextHolds'
  BY DEF AnsweredOnce, AllRecorded, Says, ContextHolds
<1>2. Shape'
  BY <1>a, <1>b DEF Shape, TypeOK
<1>3. RequestsWait'
  <2>1. Untouched(a) /\ record[a] = None
    BY DEF Untouched, RecordsHold, AnswersHold
  <2>2. \A n \in DOMAIN queue : IsRequest(n) => queue[n].of # a
    BY DEF RequestsWait
  <2>3. \A n \in DOMAIN queue : IsRequest(n) => queue[n].of \in Approvals
    BY QueueTypes DEF Shape, IsRequest
  <2> QED BY <1>a, <1>b, <2>1, <2>2, <2>3 DEF RequestsWait, Untouched, IsRequest
<1>4. RecordsHold'
  BY <1>b DEF RecordsHold, Untouched
<1>5. AnswersHold'
  <2>1. \A task \in Tasks : answer[task] # None => answer[task].id \in Approvals
    BY DEF Shape, TypeOK, AnswersOnTheWay
  <2> QED BY <1>b, <2>1 DEF AnswersHold, Says
<1>6. EndsLast'
  <2>1. \A n \in DOMAIN queue : IsRequest(n) => queue[n].of \in Approvals /\ queue[n].of # a
    BY QueueTypes DEF Shape, IsRequest, RequestsWait
  <2>2. \A n \in DOMAIN queue : queue[n].kind = "completed" => queue[n].of # t
    BY DEF EndsLast
  <2>3. \A m, n \in DOMAIN queue' : m < n => m \in DOMAIN queue /\ queue'[m] = queue[m]
    BY <1>a
  <2>4. \A n \in DOMAIN queue' : queue'[n].kind = "completed" => run[queue'[n].of] = "ended"
    BY <1>a DEF EndsLast
  <2>5. \A m, n \in DOMAIN queue' : m < n /\ queue'[m].kind = "completed" /\ IsRequest(n)' =>
          ask'[queue'[n].of].turn # queue'[m].of
    BY <1>a, <1>b, <2>1, <2>2, <2>3 DEF EndsLast, IsRequest
  <2>6. ASSUME NEW u \in Turns, u \in told \/ u = ending
        PROVE  \A n \in DOMAIN queue' : IsRequest(n)' => ask'[queue'[n].of].turn # u
    BY <1>a, <1>b, <2>1, <2>6 DEF EndsLast, IsRequest
  <2> QED BY <2>4, <2>5, <2>6 DEF EndsLast
<1>7. CompletedTurnHasNoPending'
  BY <1>b DEF CompletedTurnHasNoPending, Pending, RecordsHold
<1>8. OneTurnPerThread'
  BY <1>b DEF OneTurnPerThread, MayFollow
<1>9. SuppressedNeverAutoApproved'
  BY <1>b DEF SuppressedNeverAutoApproved, RecordsHold
<1> QED BY <1>1, <1>2, <1>3, <1>4, <1>5, <1>6, <1>7, <1>8, <1>9

-----------------------------------------------------------------------------
(* A request is taken.                                                     *)

\* The request at the head of the queue is the only one of its kind in it.
LEMMA HeadRequest ==
  ASSUME IInv, Listening, Head(queue).kind = "request", queue' = Tail(queue)
  PROVE  LET a == Head(queue).of IN
         /\ a \in Approvals /\ ask[a] \in Asks /\ ask[a] # None /\ record[a] = None /\ Untouched(a)
         /\ \A n \in DOMAIN queue' : IsRequest(n)' => queue'[n].of # a
<1> DEFINE a == Head(queue).of
<1>1. /\ 1 \in DOMAIN queue /\ Head(queue) = queue[1] /\ IsRequest(1)
      /\ \A n \in DOMAIN queue' : /\ n + 1 \in DOMAIN queue /\ queue'[n] = queue[n + 1]
                                  /\ n \in Nat /\ 1 < n + 1
  BY QueueShrinks DEF Listening, IsRequest
<1>2. a \in Approvals
  BY <1>1, QueueTypes DEF IInv, Shape, IsRequest
<1>3. ask[a] # None /\ record[a] = None /\ Untouched(a)
  BY <1>1 DEF IInv, RequestsWait
<1>4. \A n \in DOMAIN queue' : IsRequest(n)' => queue'[n].of # a
  <2> SUFFICES ASSUME NEW n \in DOMAIN queue', IsRequest(n)', queue'[n].of = a
               PROVE  FALSE
    OBVIOUS
  <2>1. n + 1 \in DOMAIN queue /\ IsRequest(n + 1) /\ queue[n + 1].of = queue[1].of
    BY <1>1 DEF IsRequest
  <2>2. n + 1 = 1
    BY <1>1, <2>1 DEF IInv, RequestsWait
  <2> QED BY <1>1, <2>2
<1>5. ask[a] \in Asks
  BY <1>2, <1>3 DEF IInv, Shape, TypeOK
<1> QED BY <1>2, <1>3, <1>4, <1>5

\* A task takes up the answer to a request nobody has answered.
LEMMA TakesItUp ==
  ASSUME IInv, NEW task \in Tasks, NEW a \in Approvals, NEW what \in Decisions \cup {"error"},
         answer[task] = None, Answering(task, a, what)
  PROVE  /\ answer' \in [Tasks -> AnswersOnTheWay \cup {None}]
         /\ answer'[task] # None /\ answer'[task].id = a /\ answer'[task].what = what
         /\ answer'[task].stage = "write"
         /\ \A u \in Tasks : u # task => answer'[u] = answer[u]
<1>1. [id |-> a, what |-> what, stage |-> "write"] \in AnswersOnTheWay
  BY DEF AnswersOnTheWay
<1> QED BY <1>1, NoneAssumption DEF IInv, Shape, TypeOK, Answering

\* A record that is settled, and the task that settled it has the answer.
LEMMA SettledKeeps ==
  ASSUME IInv, NEW task \in Tasks, NEW a \in Approvals, NEW what \in Decisions,
         answer[task] = None, ask[a] # None, Untouched(a), Answering(task, a, what),
         record' \in [Approvals -> Records \cup {None}],
         \A b \in Approvals : b # a => record'[b] = record[b],
         record'[a] # None, record'[a].status = "unknown", record'[a].state # "pending",
         ask[a].shape.named => record'[a].turn = ask[a].turn, Says(a, what)',
         UNCHANGED <<ask, replies>>
  PROVE  /\ answer' \in [Tasks -> AnswersOnTheWay \cup {None}]
         /\ RecordsHold' /\ AnswersHold' /\ AllRecorded'
         /\ \A b \in Approvals : b # a /\ Untouched(b) => Untouched(b)'
<1>1. /\ answer' \in [Tasks -> AnswersOnTheWay \cup {None}]
      /\ answer'[task] # None /\ answer'[task].id = a /\ answer'[task].what = what
      /\ answer'[task].stage = "write"
      /\ \A u \in Tasks : u # task => answer'[u] = answer[u]
  BY TakesItUp
<1>2. \A b \in Approvals : b # a /\ Untouched(b) => Untouched(b)'
  BY <1>1 DEF Untouched
<1>3. RecordsHold'
  <2>1. \A b \in Approvals : record'[b] # None =>
          /\ ask[b] # None
          /\ ask[b].shape.named => record'[b].turn = ask[b].turn
          /\ record'[b].state = "pending" => record'[b].status = "not_sent"
          /\ record'[b].status = "not_sent" => Untouched(b)'
    BY <1>2 DEF IInv, RecordsHold
  <2> QED BY <2>1 DEF IInv, RecordsHold
<1>4. AnswersHold'
  <2>1. \A u \in Tasks : answer[u] # None => answer[u].id \in Approvals /\ answer[u].id # a
    BY DEF IInv, Shape, TypeOK, AnswersOnTheWay, Untouched
  <2>2. \A b \in Approvals : \A w : b # a => (Says(b, w)' <=> Says(b, w))
    BY DEF Says
  <2>3. ASSUME NEW u \in Tasks, answer'[u] # None
        PROVE  /\ ask[answer'[u].id] # None
               /\ answer'[u].stage = "write" => replies[answer'[u].id] = <<>>
               /\ answer'[u].stage = "mark" => Len(replies[answer'[u].id]) = 1
               /\ record'[answer'[u].id] # None => Says(answer[u].id, answer[u].what)'
    <3>1. CASE u = task
      BY <3>1, <1>1 DEF Untouched
    <3>2. CASE u # task
      BY <3>2, <2>3, <1>1, <2>1, <2>2 DEF IInv, AnswersHold
    <3> QED BY <3>1, <3>2
  <2>4. \A t, u \in Tasks :
          answer'[t] # None /\ answer'[u] # None /\ answer'[t].id = answer'[u].id => t = u
    BY <1>1, <2>1 DEF IInv, AnswersHold
  <2> QED BY <2>3, <2>4 DEF AnswersHold
<1>5. AllRecorded'
  <2> SUFFICES ASSUME NEW b \in Approvals, record'[b] # None
               PROVE  /\ \A n \in DOMAIN replies[b] : Says(b, replies[b][n])'
                      /\ record'[b].status = "written" => replies[b] # <<>>
                      /\ record'[b].status = "not_sent" => replies[b] = <<>>
    BY DEF AllRecorded
  <2>1. CASE b = a
    BY <2>1 DEF Untouched
  <2>2. CASE b # a
    BY <2>2 DEF IInv, AllRecorded, Says
  <2> QED BY <2>1, <2>2
<1> QED BY <1>1, <1>2, <1>3, <1>4, <1>5

-----------------------------------------------------------------------------
(* The other events.                                                       *)

LEMMA TakeResolvedKeeps ==
  ASSUME IInv, TakeResolved
  PROVE  IInv'
<1> USE DEF IInv, TakeResolved, turns, codex, history
<1>c. {Head(queue).of} \in SUBSET Approvals
  BY QueueShrinks, QueueTypes DEF Shape, Takes, Listening
<1>a. /\ record' \in [Approvals -> Records \cup {None}]
      /\ RecordsHold' /\ AnswersHold' /\ AllRecorded' /\ SuppressedNeverAutoApproved'
      /\ \A a \in Approvals : record'[a] = None <=> record[a] = None
      /\ \A a \in Approvals : Pending(a)' => Pending(a) /\ record'[a] = record[a]
  BY <1>c, CancellingKeeps
<1>b. queue' \in Seq(Events) /\ RequestsWait' /\ EndsLast'
  BY <1>a, QueueShrinks, RestKeeps DEF Takes, Listening
<1>1. /\ AnsweredOnce' /\ OneTurnPerThread' /\ ContextHolds'
  BY DEF AnsweredOnce, OneTurnPerThread, MayFollow, ContextHolds
<1>2. Shape'
  BY <1>a, <1>b DEF Shape, TypeOK
<1>3. RequestsWait'
  BY <1>b
<1>4. RecordsHold'
  BY <1>a
<1>5. AnswersHold'
  BY <1>a
<1>6. AllRecorded'
  BY <1>a
<1>7. EndsLast'
  BY <1>b
<1>8. CompletedTurnHasNoPending'
  BY <1>a DEF CompletedTurnHasNoPending
<1>9. SuppressedNeverAutoApproved'
  BY <1>a
<1> QED BY <1>1, <1>2, <1>3, <1>4, <1>5, <1>6, <1>7, <1>8, <1>9

LEMMA TakeClosedKeeps ==
  ASSUME IInv, TakeClosed
  PROVE  IInv'
<1> USE DEF IInv, TakeClosed, turns, codex, history
<1>a. /\ record' \in [Approvals -> Records \cup {None}]
      /\ RecordsHold' /\ AnswersHold' /\ AllRecorded' /\ SuppressedNeverAutoApproved'
      /\ \A a \in Approvals : record'[a] = None <=> record[a] = None
      /\ \A a \in Approvals : Pending(a)' => Pending(a) /\ record'[a] = record[a]
  BY CancellingKeeps
<1>b. queue' \in Seq(Events) /\ RequestsWait' /\ EndsLast'
  BY <1>a, QueueShrinks, RestKeeps DEF Takes, Listening
<1>1. /\ AnsweredOnce' /\ OneTurnPerThread' /\ ContextHolds'
  BY DEF AnsweredOnce, OneTurnPerThread, MayFollow, ContextHolds
<1>2. Shape'
  BY <1>a, <1>b DEF Shape, TypeOK
<1>3. RequestsWait'
  BY <1>b
<1>4. RecordsHold'
  BY <1>a
<1>5. AnswersHold'
  BY <1>a
<1>6. AllRecorded'
  BY <1>a
<1>7. EndsLast'
  BY <1>b
<1>8. CompletedTurnHasNoPending'
  BY <1>a DEF CompletedTurnHasNoPending
<1>9. SuppressedNeverAutoApproved'
  BY <1>a
<1> QED BY <1>1, <1>2, <1>3, <1>4, <1>5, <1>6, <1>7, <1>8, <1>9

LEMMA LagKeeps ==
  ASSUME IInv, Lag
  PROVE  IInv'
<1> USE DEF IInv, Lag, manager, turns, codex
<1>b. queue' \in Seq(Events) /\ RequestsWait' /\ EndsLast'
  BY QueueShrinks, RestKeeps
<1>1. /\ RecordsHold' /\ AnswersHold' /\ AnsweredOnce' /\ AllRecorded'
      /\ CompletedTurnHasNoPending' /\ OneTurnPerThread' /\ ContextHolds'
      /\ SuppressedNeverAutoApproved'
  BY DEF RecordsHold, Untouched, AnswersHold, Says, AnsweredOnce, AllRecorded,
    CompletedTurnHasNoPending, Pending, OneTurnPerThread, MayFollow, ContextHolds,
    SuppressedNeverAutoApproved
<1>2. Shape'
  <2>1. missed' \subseteq Approvals
    BY QueueShrinks, QueueTypes DEF Shape, TypeOK
  <2> QED BY <1>b, <2>1 DEF Shape, TypeOK
<1>3. RequestsWait'
  BY <1>b
<1>4. EndsLast'
  BY <1>b
<1> QED BY <1>1, <1>2, <1>3, <1>4

LEMMA ListenerCancelsKeeps ==
  ASSUME IInv, ListenerCancels
  PROVE  IInv'
<1> USE DEF IInv, ListenerCancels, turns, codex
<1>c. OfTurn(ending) \in SUBSET Approvals
  BY DEF OfTurn
<1>a. /\ record' \in [Approvals -> Records \cup {None}]
      /\ RecordsHold' /\ AnswersHold' /\ AllRecorded' /\ SuppressedNeverAutoApproved'
      /\ \A a \in Approvals : record'[a] = None <=> record[a] = None
      /\ \A a \in Approvals : Pending(a)' => Pending(a) /\ record'[a] = record[a]
  BY <1>c, CancellingKeeps
<1>1. /\ AnsweredOnce' /\ OneTurnPerThread' /\ ContextHolds'
  BY DEF AnsweredOnce, OneTurnPerThread, MayFollow, ContextHolds
<1>2. Shape'
  BY <1>a DEF Shape, TypeOK
<1>3. RequestsWait'
  <2>1. \A n \in DOMAIN queue : IsRequest(n) => queue[n].of \in Approvals
    BY QueueTypes DEF Shape, IsRequest
  <2> QED BY <1>a, <2>1 DEF RequestsWait, Untouched, IsRequest
<1>4. RecordsHold'
  BY <1>a
<1>5. AnswersHold'
  BY <1>a
<1>6. AllRecorded'
  BY <1>a
<1>7. EndsLast'
  BY NamesAssumption DEF EndsLast, IsRequest
<1>8. CompletedTurnHasNoPending'
  <2> SUFFICES ASSUME NEW a \in Approvals, Pending(a)', ask[a].shape.named
               PROVE  ask[a].turn \notin told /\ ask[a].turn # ending
    BY DEF CompletedTurnHasNoPending
  <2>1. Pending(a) /\ record'[a] = record[a]
    BY <1>a
  <2>2. record[a].turn = ask[a].turn
    BY <2>1 DEF RecordsHold, Pending
  <2>3. a \notin OfTurn(ending)
    BY <2>1, CancelledFacts DEF Shape, OfTurn, Pending
  <2> QED BY <2>1, <2>2, <2>3 DEF CompletedTurnHasNoPending, OfTurn, Pending
<1>9. SuppressedNeverAutoApproved'
  BY <1>a
<1> QED BY <1>1, <1>2, <1>3, <1>4, <1>5, <1>6, <1>7, <1>8, <1>9

LEMMA TakeCompletedKeeps ==
  ASSUME IInv, TakeCompleted
  PROVE  IInv'
<1> USE DEF IInv, TakeCompleted, turns, codex, history
<1> DEFINE t == Head(queue).of
<1>b. queue' \in Seq(Events) /\ RequestsWait'
  BY QueueShrinks, RestKeeps DEF Takes, Listening
<1>c. /\ t \in Turns /\ run[t] = "ended" /\ queue[1].kind = "completed" /\ queue[1].of = t
      /\ 1 \in DOMAIN queue /\ ending' = t
      /\ \A n \in DOMAIN queue' : /\ n + 1 \in DOMAIN queue /\ queue'[n] = queue[n + 1]
                                  /\ n \in Nat /\ 1 < n + 1
  BY QueueShrinks, QueueTypes DEF Shape, EndsLast, Takes, Listening
<1>d. context' \in [Threads -> Contexts \cup {None}] /\ ContextHolds'
  BY <1>c, WithoutContextKeeps
<1> HIDE DEF t
<1>1. /\ RecordsHold' /\ AnswersHold' /\ AnsweredOnce' /\ AllRecorded'
      /\ CompletedTurnHasNoPending' /\ OneTurnPerThread'
      /\ SuppressedNeverAutoApproved'
  BY DEF RecordsHold, Untouched, AnswersHold, Says, AnsweredOnce, AllRecorded,
    CompletedTurnHasNoPending, Pending, OneTurnPerThread, MayFollow,
    SuppressedNeverAutoApproved
<1>2. Shape'
  BY <1>b, <1>c, <1>d DEF Shape, TypeOK
<1>3. RequestsWait'
  BY <1>b
<1>4. EndsLast'
  <2>1. \A m, n \in DOMAIN queue' : m < n => m + 1 < n + 1
    BY <1>c
  <2>2. ASSUME NEW m \in DOMAIN queue', NEW n \in DOMAIN queue', m < n,
               queue'[m].kind = "completed", IsRequest(n)'
        PROVE  ask[queue'[n].of].turn # queue'[m].of
    BY <1>c, <2>1, <2>2 DEF EndsLast, IsRequest
  <2>3. ASSUME NEW n \in DOMAIN queue', IsRequest(n)'
        PROVE  /\ ask[queue'[n].of].turn # t
               /\ \A u \in told : ask[queue'[n].of].turn # u
    BY <1>c, <2>3 DEF EndsLast, IsRequest, Shape, TypeOK
  <2> QED BY <1>c, <2>2, <2>3 DEF EndsLast, IsRequest
<1>5. ContextHolds'
  BY <1>d
<1> QED BY <1>1, <1>2, <1>3, <1>4, <1>5

\* What the queue promises holds of its rest when its head, a request, is taken.
LEMMA TakenKeeps ==
  ASSUME IInv, Listening, Head(queue).kind = "request", queue' = Tail(queue),
         NEW a \in Approvals, a = Head(queue).of,
         \A b \in Approvals : b # a =>
           record'[b] = record[b] /\ (Untouched(b) => Untouched(b)'),
         UNCHANGED <<ask, run, told, ending>>
  PROVE  queue' \in Seq(Events) /\ RequestsWait' /\ EndsLast'
<1>1. /\ queue' \in Seq(Events)
      /\ \A n \in DOMAIN queue' : /\ n + 1 \in DOMAIN queue /\ queue'[n] = queue[n + 1]
                                  /\ n \in Nat
  BY QueueShrinks DEF Listening
<1>2. \A n \in DOMAIN queue' : IsRequest(n)' =>
        /\ queue'[n].of # a /\ queue'[n].of \in Approvals
        /\ IsRequest(n + 1) /\ queue'[n] = queue[n + 1]
  BY <1>1, HeadRequest, QueueTypes DEF IInv, Shape, IsRequest
<1>3. RequestsWait'
  <2>1. \A m, n \in DOMAIN queue' : m + 1 = n + 1 => m = n
    BY <1>1
  <2>2. ASSUME NEW b \in Approvals, NEW n \in DOMAIN queue', IsRequest(n)', queue'[n].of = b
        PROVE  ask[b] # None /\ record'[b] = None /\ Untouched(b)'
    BY <1>1, <1>2, <2>2 DEF IInv, RequestsWait
  <2>3. \A m, n \in DOMAIN queue' :
          IsRequest(m)' /\ IsRequest(n)' /\ queue'[m].of = queue'[n].of => m = n
    BY <1>1, <1>2, <2>1 DEF IInv, RequestsWait
  <2> QED BY <1>2, <2>2, <2>3 DEF RequestsWait, Untouched
<1>4. EndsLast'
  BY RestKeeps DEF Listening
<1> QED BY <1>1, <1>3, <1>4

LEMMA TakeUnsupportedKeeps ==
  ASSUME IInv, TakeUnsupported
  PROVE  IInv'
<1> USE DEF IInv, TakeUnsupported, turns, codex, history
<1>0. PICK a \in Approvals : a = Head(queue).of
  BY HeadRequest DEF Takes
<1>a. ask[a] # None /\ record[a] = None /\ Untouched(a)
  BY <1>0, HeadRequest DEF Takes
<1>b. /\ answer' \in [Tasks -> AnswersOnTheWay \cup {None}]
      /\ answer'["listener"] # None /\ answer'["listener"].id = a
      /\ answer'["listener"].what = "error" /\ answer'["listener"].stage = "write"
      /\ \A u \in Tasks : u # "listener" => answer'[u] = answer[u]
  BY <1>0, TakesItUp DEF Takes, Listening, Tasks, Answering
<1>c. \A b \in Approvals : b # a /\ Untouched(b) => Untouched(b)'
  BY <1>b DEF Untouched
<1>d. queue' \in Seq(Events) /\ RequestsWait' /\ EndsLast'
  BY <1>0, <1>c, TakenKeeps DEF Takes
<1>1. /\ AnsweredOnce' /\ AllRecorded' /\ CompletedTurnHasNoPending'
      /\ OneTurnPerThread' /\ ContextHolds' /\ SuppressedNeverAutoApproved'
  BY DEF AnsweredOnce, AllRecorded, Says, CompletedTurnHasNoPending, Pending,
    OneTurnPerThread, MayFollow, ContextHolds, SuppressedNeverAutoApproved
<1>2. Shape'
  BY <1>b, <1>d DEF Shape, TypeOK
<1>3. RequestsWait'
  BY <1>d
<1>4. RecordsHold'
  <2>1. ASSUME NEW b \in Approvals, record[b] # None, record[b].status = "not_sent"
        PROVE  Untouched(b)'
    BY <1>a, <1>c, <2>1 DEF RecordsHold
  <2> QED BY <2>1 DEF RecordsHold
<1>5. AnswersHold'
  <2>1. \A u \in Tasks : answer[u] # None => answer[u].id \in Approvals /\ answer[u].id # a
    BY <1>a DEF Shape, TypeOK, AnswersOnTheWay, Untouched
  <2> QED BY <1>a, <1>b, <2>1 DEF AnswersHold, Says, Untouched
<1>6. EndsLast'
  BY <1>d
<1> QED BY <1>1, <1>2, <1>3, <1>4, <1>5, <1>6

\* How a request that is taken is recorded, and what the listener answers.
LEMMA RequestTaken ==
  ASSUME IInv, TakeRequest
  PROVE  \E a \in Approvals :
           /\ a = Head(queue).of /\ record' \in [Approvals -> Records \cup {None}]
           /\ \A b \in Approvals : b # a => record'[b] = record[b]
           /\ record'[a] # None /\ (ask[a].shape.named => record'[a].turn = ask[a].turn)
           /\ LET known == context[ThreadOf[ask[a].turn]] IN
                record'[a].auto => known # None /\ ~rules[known.by].suppress
           /\ record'[a].state = "approved" =>
                record'[a].decision \in {"accept", "accept_for_session", "cancel"}
           /\ \/ record'[a].status = "not_sent" /\ record'[a].state = "pending" /\ UNCHANGED answer
              \/ \E what \in Decisions :
                   /\ Answering("listener", a, what)
                   /\ record'[a].status = "unknown"
                   /\ record'[a].state \in {"approved", "cancelled"} /\ Says(a, what)'
<1> USE DEF IInv, turns, codex, history
<1>1. PICK a \in Approvals : a = Head(queue).of
  BY HeadRequest DEF TakeRequest, Takes
<1> DEFINE x == ask[a].shape
           known == context[ThreadOf[ask[a].turn]]
           turn == IF x.named THEN ask[a].turn ELSE IF known # None THEN known.turn ELSE None
           c == IF Usable(known, turn) THEN known ELSE None
           auto == AutoApproves(c, x)
           yes == PreferredAccept(x.offered)
<1>2. /\ Listening /\ Head(queue).kind = "request" /\ queue' = Tail(queue)
      /\ UNCHANGED <<context, due, cancelling, ending, lags, handler, rules, run, ask, waits,
                     closed, replies, missed, dropped, told>>
  BY DEF TakeRequest, Takes
<1>3. ask[a] \in Asks /\ ask[a] # None /\ record[a] = None /\ Untouched(a)
  BY <1>1, <1>2, HeadRequest
<1>4. /\ ask[a].turn \in Turns /\ ThreadOf[ask[a].turn] \in Threads /\ x.named \in BOOLEAN
      /\ turn \in Turns \cup {None} /\ yes \in Decisions /\ (x.named => turn = ask[a].turn)
      /\ known \in Contexts \cup {None}
      /\ yes \in {"accept", "accept_for_session", "cancel"}
  <2>1. ask[a].turn \in Turns /\ x \in Shapes /\ ThreadOf[ask[a].turn] \in Threads
    BY <1>3, ThreadsAssumption DEF Asks
  <2>2. known \in Contexts \cup {None}
    BY <2>1 DEF Shape, TypeOK
  <2>3. yes \in Decisions /\ yes \in {"accept", "accept_for_session", "cancel"}
    BY DEF PreferredAccept, Decisions
  <2> QED BY <2>1, <2>2, <2>3, ShapesAssumption DEF Contexts
<1>5. auto \in BOOLEAN /\ (auto => known # None /\ ~rules[known.by].suppress)
  BY DEF AutoApproves, Usable
<1>6. /\ record' \in [Approvals -> Records \cup {None}]
      /\ \A b \in Approvals : b # a => record'[b] = record[b]
      /\ record'[a] # None /\ record'[a].turn = turn /\ record'[a].auto = auto
      /\ record'[a].state = "approved" =>
           record'[a].decision \in {"accept", "accept_for_session", "cancel"}
      /\ \/ record'[a].status = "not_sent" /\ record'[a].state = "pending" /\ UNCHANGED answer
         \/ \E what \in Decisions :
              /\ Answering("listener", a, what)
              /\ record'[a].status = "unknown" /\ record'[a].state \in {"approved", "cancelled"}
              /\ Says(a, what)'
  <2> DEFINE new(s, d, w) == [turn |-> turn, auto |-> auto, decision |-> d, state |-> s,
                              status |-> w]
  <2>1. ASSUME NEW s \in States, NEW d \in Decisions \cup {None},
               NEW w \in {"not_sent", "unknown"}, record' = [record EXCEPT ![a] = new(s, d, w)]
        PROVE  /\ record' \in [Approvals -> Records \cup {None}]
               /\ \A b \in Approvals : b # a => record'[b] = record[b]
               /\ record'[a] # None /\ record'[a].turn = turn /\ record'[a].auto = auto
               /\ record'[a].state = s /\ record'[a].decision = d /\ record'[a].status = w
    <3>1. new(s, d, w) \in Records
      BY <1>4, <1>5 DEF Records
    <3>2. /\ new(s, d, w).turn = turn /\ new(s, d, w).auto = auto /\ new(s, d, w).state = s
          /\ new(s, d, w).decision = d /\ new(s, d, w).status = w
      OBVIOUS
    <3> HIDE DEF new, turn, auto
    <3> QED BY <2>1, <3>1, <3>2, NoneAssumption DEF Shape, TypeOK
  <2>2. \/ record' = [record EXCEPT ![a] = new("approved", yes, "unknown")]
             /\ Answering("listener", a, yes)
        \/ record' = [record EXCEPT ![a] = new("pending", None, "not_sent")] /\ UNCHANGED answer
        \/ record' = [record EXCEPT ![a] = new("cancelled", None, "unknown")]
             /\ Answering("listener", a, "cancel")
    BY <1>1 DEF TakeRequest
  <2>3. "cancel" \in Decisions /\ {"approved", "pending", "cancelled"} \subseteq States
    BY DEF Decisions, States
  <2> HIDE DEF new, turn, auto, yes
  <2>4. CASE record' = [record EXCEPT ![a] = new("approved", yes, "unknown")]
             /\ Answering("listener", a, yes)
    <3>1. PICK what \in Decisions : what = yes
      BY <1>4
    <3>2. /\ record' \in [Approvals -> Records \cup {None}]
          /\ \A b \in Approvals : b # a => record'[b] = record[b]
          /\ record'[a] # None /\ record'[a].turn = turn /\ record'[a].auto = auto
          /\ record'[a].state = "approved" /\ record'[a].decision = yes
          /\ record'[a].status = "unknown"
      BY <1>4, <2>1, <2>3, <2>4
    <3>3. Says(a, what)'
      BY <3>1, <3>2 DEF Says
    <3> QED BY <1>4, <2>4, <3>1, <3>2, <3>3
  <2>5. CASE record' = [record EXCEPT ![a] = new("pending", None, "not_sent")] /\ UNCHANGED answer
    BY <2>1, <2>3, <2>5
  <2>6. CASE record' = [record EXCEPT ![a] = new("cancelled", None, "unknown")]
             /\ Answering("listener", a, "cancel")
    BY <2>1, <2>3, <2>6 DEF Says
  <2> QED BY <2>2, <2>4, <2>5, <2>6
<1> HIDE DEF turn, auto, yes, c
<1>7. /\ a = Head(queue).of /\ (ask[a].shape.named => record'[a].turn = ask[a].turn)
      /\ record'[a].auto => known # None /\ ~rules[known.by].suppress
  BY <1>1, <1>4, <1>5, <1>6
<1> QED BY <1>6, <1>7

LEMMA TakeRequestKeeps ==
  ASSUME IInv, TakeRequest
  PROVE  IInv'
<1> USE DEF IInv, turns, codex, history
<1> DEFINE known(a) == context[ThreadOf[ask[a].turn]]
<1>6. PICK a \in Approvals :
        /\ a = Head(queue).of /\ record' \in [Approvals -> Records \cup {None}]
        /\ \A b \in Approvals : b # a => record'[b] = record[b]
        /\ record'[a] # None /\ (ask[a].shape.named => record'[a].turn = ask[a].turn)
        /\ record'[a].auto => known(a) # None /\ ~rules[known(a).by].suppress
        /\ \/ record'[a].status = "not_sent" /\ record'[a].state = "pending" /\ UNCHANGED answer
           \/ \E what \in Decisions :
                /\ Answering("listener", a, what)
                /\ record'[a].status = "unknown" /\ record'[a].state # "pending" /\ Says(a, what)'
  <2>1. \A st : st \in {"approved", "cancelled"} => st # "pending"
    OBVIOUS
  <2> QED BY <2>1, RequestTaken
<1>1. a = Head(queue).of
  BY <1>6
<1>2. /\ Listening /\ Head(queue).kind = "request" /\ queue' = Tail(queue)
      /\ UNCHANGED <<context, due, cancelling, ending, lags, handler, rules, run, ask, waits,
                     closed, replies, missed, dropped, told>>
  BY DEF TakeRequest, Takes
<1>3. ask[a] \in Asks /\ ask[a] # None /\ record[a] = None /\ Untouched(a)
  BY <1>1, <1>2, HeadRequest
<1>4. ask[a].turn \in Turns /\ ThreadOf[ask[a].turn] \in Threads
  BY <1>3, ThreadsAssumption DEF Asks
<1>7. /\ answer' \in [Tasks -> AnswersOnTheWay \cup {None}]
      /\ RecordsHold' /\ AnswersHold' /\ AllRecorded'
      /\ \A b \in Approvals : b # a /\ Untouched(b) => Untouched(b)'
  <2>1. CASE \E what \in Decisions :
               /\ Answering("listener", a, what)
               /\ record'[a].status = "unknown" /\ record'[a].state # "pending" /\ Says(a, what)'
    <3>1. PICK what \in Decisions :
            /\ Answering("listener", a, what)
            /\ record'[a].status = "unknown" /\ record'[a].state # "pending" /\ Says(a, what)'
      BY <2>1
    <3>2. "listener" \in Tasks /\ answer["listener"] = None
      BY <1>2 DEF Tasks, Listening
    <3> QED BY <1>2, <1>3, <1>4, <1>6, <3>1, <3>2, SettledKeeps
  <2>2. CASE record'[a].status = "not_sent" /\ record'[a].state = "pending" /\ UNCHANGED answer
    <3>1. \A b \in Approvals : Untouched(b)' <=> Untouched(b)
      BY <1>2, <2>2 DEF Untouched
    <3>2. RecordsHold'
      <4>1. \A b \in Approvals : record'[b] # None =>
              /\ ask[b] # None
              /\ ask[b].shape.named => record'[b].turn = ask[b].turn
              /\ record'[b].state = "pending" => record'[b].status = "not_sent"
              /\ record'[b].status = "not_sent" => Untouched(b)'
        BY <1>3, <1>4, <1>6, <2>2, <3>1 DEF RecordsHold
      <4> QED BY <1>2, <4>1 DEF RecordsHold
    <3>3. AnswersHold'
      <4>1. \A u \in Tasks : answer[u] # None => answer[u].id \in Approvals /\ answer[u].id # a
        BY <1>3 DEF Shape, TypeOK, AnswersOnTheWay, Untouched
      <4> QED BY <1>2, <1>6, <2>2, <4>1 DEF AnswersHold, Says
    <3>4. AllRecorded'
      <4> SUFFICES ASSUME NEW b \in Approvals, record'[b] # None
                   PROVE  /\ \A n \in DOMAIN replies[b] : Says(b, replies[b][n])'
                          /\ record'[b].status = "written" => replies[b] # <<>>
                          /\ record'[b].status = "not_sent" => replies[b] = <<>>
        BY <1>2 DEF AllRecorded
      <4>1. CASE b = a
        BY <4>1, <1>3, <2>2 DEF Untouched
      <4>2. CASE b # a
        BY <4>2, <1>2, <1>6 DEF AllRecorded, Says
      <4> QED BY <4>1, <4>2
    <3> QED BY <2>2, <3>1, <3>2, <3>3, <3>4 DEF Shape, TypeOK
  <2> QED BY <1>6, <2>1, <2>2
<1>8. queue' \in Seq(Events) /\ RequestsWait' /\ EndsLast'
  BY <1>1, <1>2, <1>6, <1>7, TakenKeeps
<1>9. Shape'
  BY <1>2, <1>6, <1>7, <1>8 DEF Shape, TypeOK
<1>10. CompletedTurnHasNoPending'
  <2>1. ask[a].turn \notin told
    BY <1>1, <1>2, <1>4, QueueShrinks DEF EndsLast, IsRequest, Listening
  <2> QED BY <1>2, <1>6, <2>1 DEF CompletedTurnHasNoPending, Pending
<1>11. SuppressedNeverAutoApproved'
  <2>1. handler[ask[a].turn] # "idle"
    BY <1>3 DEF OneTurnPerThread
  <2>2. record'[a].auto => ~rules[ask[a].turn].suppress
    BY <1>4, <1>6, <2>1 DEF ContextHolds
  <2> QED BY <1>2, <1>6, <2>2 DEF SuppressedNeverAutoApproved
<1>12. AnsweredOnce' /\ OneTurnPerThread' /\ ContextHolds'
  BY <1>2 DEF AnsweredOnce, OneTurnPerThread, MayFollow, ContextHolds
<1> QED BY <1>7, <1>8, <1>9, <1>10, <1>11, <1>12

-----------------------------------------------------------------------------
(* Deciding and expiring.                                                  *)

\* A pending approval is settled by the one task that has its answer from then on.
LEMMA PendingSettled ==
  ASSUME IInv, NEW task \in Tasks, NEW a \in Approvals, NEW what \in Decisions,
         NEW s \in States, NEW d \in Decisions \cup {None},
         answer[task] = None, Pending(a), s # "pending", Answering(task, a, what),
         record' = [record EXCEPT ![a].state = s, ![a].status = "unknown", ![a].decision = d],
         CASE s = "approved" -> what = d
           [] s \in {"denied", "expired"} -> what = "decline"
           [] s = "cancelled" -> what = "cancel"
           [] OTHER -> FALSE,
         UNCHANGED <<context, due, cancelling, events, turns, codex, history>>
  PROVE  IInv'
<1> USE DEF IInv, events, turns, codex, history
<1>1. record[a] \in Records /\ record[a] # None /\ ask[a] # None /\ Untouched(a)
  BY DEF Pending, RecordsHold, Shape, TypeOK
<1>2. /\ record' \in [Approvals -> Records \cup {None}]
      /\ \A b \in Approvals : b # a => record'[b] = record[b]
      /\ record'[a] # None /\ record'[a].turn = record[a].turn /\ record'[a].auto = record[a].auto
      /\ record'[a].state = s /\ record'[a].decision = d /\ record'[a].status = "unknown"
  <2> DEFINE r == [record[a] EXCEPT !.state = s, !.status = "unknown", !.decision = d]
  <2>1. /\ r \in Records /\ r.turn = record[a].turn /\ r.auto = record[a].auto
        /\ r.state = s /\ r.decision = d /\ r.status = "unknown"
    BY <1>1 DEF Records
  <2>2. record' = [record EXCEPT ![a] = r]
    BY DEF Shape, TypeOK
  <2>3. record \in [Approvals -> Records \cup {None}]
    BY DEF Shape, TypeOK
  <2> HIDE DEF r
  <2>4. r \in Records \cup {None}
    BY <2>1
  <2>5. [record EXCEPT ![a] = r] \in [Approvals -> Records \cup {None}]
    BY <2>3, <2>4
  <2>6. record'[a] = r
    BY <2>2, <2>3
  <2>7. \A b \in Approvals : b # a => record'[b] = record[b]
    BY <2>2, <2>3
  <2> QED BY <2>1, <2>2, <2>5, <2>6, <2>7, NoneAssumption
<1>3. Says(a, what)'
  BY <1>2 DEF Says
<1>4. ask[a].shape.named => record'[a].turn = ask[a].turn
  BY <1>1, <1>2 DEF RecordsHold
<1>5. /\ answer' \in [Tasks -> AnswersOnTheWay \cup {None}]
      /\ RecordsHold' /\ AnswersHold' /\ AllRecorded'
      /\ \A b \in Approvals : b # a /\ Untouched(b) => Untouched(b)'
  BY <1>1, <1>2, <1>3, <1>4, SettledKeeps
<1>6. Shape'
  BY <1>2, <1>5 DEF Shape, TypeOK
<1>7. RequestsWait'
  <2>1. \A n \in DOMAIN queue : IsRequest(n) => queue[n].of \in Approvals /\ queue[n].of # a
    BY <1>1, QueueTypes DEF Shape, IsRequest, RequestsWait
  <2>2. ASSUME NEW b \in Approvals, NEW n \in DOMAIN queue, IsRequest(n), queue[n].of = b
        PROVE  ask[b] # None /\ record'[b] = None /\ Untouched(b)'
    BY <1>2, <1>5, <2>1, <2>2 DEF RequestsWait
  <2> QED BY <2>1, <2>2 DEF RequestsWait, IsRequest, Untouched
<1>8. CompletedTurnHasNoPending'
  BY <1>2 DEF CompletedTurnHasNoPending, Pending
<1>9. SuppressedNeverAutoApproved'
  BY <1>1, <1>2 DEF SuppressedNeverAutoApproved
<1>10. AnsweredOnce' /\ EndsLast' /\ OneTurnPerThread' /\ ContextHolds'
  BY DEF AnsweredOnce, EndsLast, IsRequest, OneTurnPerThread, MayFollow, ContextHolds
<1> QED BY <1>5, <1>6, <1>7, <1>8, <1>9, <1>10

LEMMA DecideKeeps ==
  ASSUME IInv, NEW c \in Clients, NEW a \in Approvals, NEW d \in Decisions, Decide(c, a, d)
  PROVE  IInv'
<1> DEFINE s == StateAfter(d)
           chosen == IF s = "approved" THEN d ELSE None
<1>1. /\ s \in States /\ s # "pending" /\ chosen \in Decisions \cup {None}
      /\ CASE s = "approved" -> d = chosen
           [] s \in {"denied", "expired"} -> d = "decline"
           [] s = "cancelled" -> d = "cancel"
           [] OTHER -> FALSE
  BY DEF StateAfter, States, Decisions
<1>2. /\ answer[c] = None /\ Pending(a) /\ Answering(c, a, d) /\ c \in Tasks
      /\ record' = [record EXCEPT ![a].state = s, ![a].status = "unknown",
                                  ![a].decision = chosen]
      /\ UNCHANGED <<context, due, cancelling, events, turns, codex, history>>
  BY DEF Decide, MayDecide, Tasks
<1> HIDE DEF s, chosen
<1> QED BY <1>1, <1>2, PendingSettled

LEMMA ExpireKeeps ==
  ASSUME IInv, NEW task \in Tasks, NEW a \in Approvals, Expire(task, a)
  PROVE  IInv'
<1>1. Pending(a) /\ record[a] \in Records
  BY DEF IInv, Shape, TypeOK, Expire, Expirable, Pending
<1>2. record[a].decision \in Decisions \cup {None}
  BY <1>1 DEF Records
<1>3. record' = [record EXCEPT ![a].state = "expired", ![a].status = "unknown",
                               ![a].decision = record[a].decision]
  <2> DEFINE r == [record[a] EXCEPT !.state = "expired", !.status = "unknown"]
             q == [record[a] EXCEPT !.state = "expired", !.status = "unknown",
                                    !.decision = record[a].decision]
  <2>1. r = q
    BY <1>1 DEF Records
  <2>2. record' = [record EXCEPT ![a] = r]
    BY DEF Expire, IInv, Shape, TypeOK
  <2>3. [record EXCEPT ![a] = q] = [record EXCEPT ![a].state = "expired", ![a].status = "unknown",
                                                  ![a].decision = record[a].decision]
    BY DEF IInv, Shape, TypeOK
  <2> HIDE DEF r, q
  <2> QED BY <2>1, <2>2, <2>3
<1>4. "expired" \in States /\ "decline" \in Decisions
  BY DEF States, Decisions
<1>5. /\ answer[task] = None /\ Answering(task, a, "decline")
      /\ UNCHANGED <<context, due, cancelling, events, turns, codex, history>>
  BY DEF Expire
<1> QED BY <1>1, <1>2, <1>3, <1>4, <1>5, PendingSettled

-----------------------------------------------------------------------------
(* The answer on its way.                                                  *)

\* Of the answer a task has on its way.
LEMMA AnswerFacts ==
  ASSUME IInv, NEW task \in Tasks, answer[task] # None
  PROVE  \E a \in Approvals, what \in Decisions \cup {"error"} :
           /\ a = answer[task].id /\ what = answer[task].what /\ answer[task] \in AnswersOnTheWay
           /\ ask[a] # None /\ (record[a] # None => Says(a, what))
           /\ \A b \in Approvals : Untouched(b) => b # a
           /\ \A u \in Tasks : answer[u] # None /\ answer[u].id = a => u = task
<1>1. answer[task] \in AnswersOnTheWay
  BY DEF IInv, Shape, TypeOK
<1>2. PICK a \in Approvals : a = answer[task].id
  BY <1>1 DEF AnswersOnTheWay
<1>3. PICK what \in Decisions \cup {"error"} : what = answer[task].what
  BY <1>1 DEF AnswersOnTheWay
<1>4. \A b \in Approvals : Untouched(b) => b # a
  BY <1>2 DEF Untouched
<1>5. ask[a] # None /\ (record[a] # None => Says(a, what))
  BY <1>2, <1>3 DEF IInv, AnswersHold
<1>6. \A u \in Tasks : answer[u] # None /\ answer[u].id = a => u = task
  BY <1>2 DEF IInv, AnswersHold
<1> QED BY <1>1, <1>2, <1>3, <1>4, <1>5, <1>6

\* A task drops the answer it has.
LEMMA AnswerGone ==
  ASSUME IInv, NEW task \in Tasks, answer' = [answer EXCEPT ![task] = None],
         UNCHANGED <<record, ask, replies, queue>>
  PROVE  /\ answer' \in [Tasks -> AnswersOnTheWay \cup {None}]
         /\ RequestsWait' /\ RecordsHold' /\ AnswersHold'
<1>1. /\ answer' \in [Tasks -> AnswersOnTheWay \cup {None}]
      /\ \A u \in Tasks : answer'[u] # None => answer[u] # None /\ answer'[u] = answer[u]
  BY DEF IInv, Shape, TypeOK
<1>2. RequestsWait'
  BY <1>1 DEF IInv, RequestsWait, IsRequest, Untouched
<1>3. RecordsHold'
  BY <1>1 DEF IInv, RecordsHold, Untouched
<1>4. AnswersHold'
  BY <1>1 DEF IInv, AnswersHold, Says
<1> QED BY <1>1, <1>2, <1>3, <1>4

LEMMA WriteFailsKeeps ==
  ASSUME IInv, NEW task \in Tasks, WriteFails(task)
  PROVE  IInv'
<1> USE DEF IInv, WriteFails, events, turns, codex, history
<1>a. /\ answer' \in [Tasks -> AnswersOnTheWay \cup {None}]
      /\ RequestsWait' /\ RecordsHold' /\ AnswersHold'
  BY AnswerGone DEF Tasks
<1>1. /\ AnsweredOnce' /\ AllRecorded' /\ EndsLast' /\ CompletedTurnHasNoPending'
      /\ OneTurnPerThread' /\ ContextHolds' /\ SuppressedNeverAutoApproved'
  BY DEF AnsweredOnce, AllRecorded, Says, EndsLast, IsRequest, CompletedTurnHasNoPending,
    Pending, OneTurnPerThread, MayFollow, ContextHolds, SuppressedNeverAutoApproved
<1>2. Shape'
  BY <1>a DEF Shape, TypeOK
<1>3. RequestsWait'
  BY <1>a
<1>4. RecordsHold'
  BY <1>a
<1>5. AnswersHold'
  BY <1>a
<1> QED BY <1>1, <1>2, <1>3, <1>4, <1>5

LEMMA ClientGoneKeeps ==
  ASSUME IInv, NEW c \in Clients, ClientGone(c)
  PROVE  IInv'
<1> USE DEF IInv, ClientGone, events, turns, codex
<1>a. /\ answer' \in [Tasks -> AnswersOnTheWay \cup {None}]
      /\ RequestsWait' /\ RecordsHold' /\ AnswersHold'
  BY AnswerGone DEF Tasks
<1>1. /\ AnsweredOnce' /\ AllRecorded' /\ EndsLast' /\ CompletedTurnHasNoPending'
      /\ OneTurnPerThread' /\ ContextHolds' /\ SuppressedNeverAutoApproved'
  BY DEF AnsweredOnce, AllRecorded, Says, EndsLast, IsRequest, CompletedTurnHasNoPending,
    Pending, OneTurnPerThread, MayFollow, ContextHolds, SuppressedNeverAutoApproved
<1>2. Shape'
  <2>1. dropped' \subseteq Approvals
    BY AnswerFacts DEF Shape, TypeOK, Tasks
  <2> QED BY <1>a, <2>1 DEF Shape, TypeOK
<1>3. RequestsWait'
  BY <1>a
<1>4. RecordsHold'
  BY <1>a
<1>5. AnswersHold'
  BY <1>a
<1> QED BY <1>1, <1>2, <1>3, <1>4, <1>5

LEMMA WriteAnswerKeeps ==
  ASSUME IInv, NEW task \in Tasks, WriteAnswer(task)
  PROVE  IInv'
<1> USE DEF IInv, WriteAnswer, events, turns
<1>p. PICK a \in Approvals, what \in Decisions \cup {"error"} :
        /\ a = answer[task].id /\ what = answer[task].what /\ answer[task] \in AnswersOnTheWay
        /\ ask[a] # None /\ (record[a] # None => Says(a, what))
        /\ \A b \in Approvals : Untouched(b) => b # a
        /\ \A u \in Tasks : answer[u] # None /\ answer[u].id = a => u = task
  BY AnswerFacts
<1>b. /\ replies' \in [Approvals -> Seq(Decisions \cup {"error"})]
      /\ replies'[a] = <<what>> /\ Len(replies'[a]) = 1 /\ DOMAIN replies'[a] = {1}
      /\ replies'[a][1] = what /\ replies'[a] # <<>>
      /\ \A b \in Approvals : b # a => replies'[b] = replies[b]
  <2>1. replies[a] = <<>>
    BY <1>p DEF AnswersHold
  <2>2. <<what>> \in Seq(Decisions \cup {"error"}) /\ Append(<<>>, what) = <<what>>
    OBVIOUS
  <2>3. replies' = [replies EXCEPT ![a] = <<what>>]
    BY <1>p, <2>1, <2>2
  <2>4. Len(<<what>>) = 1 /\ DOMAIN <<what>> = {1} /\ <<what>>[1] = what /\ <<what>> # <<>>
    OBVIOUS
  <2>5. replies \in [Approvals -> Seq(Decisions \cup {"error"})]
    BY DEF Shape, TypeOK
  <2>6. /\ replies' \in [Approvals -> Seq(Decisions \cup {"error"})] /\ replies'[a] = <<what>>
        /\ \A b \in Approvals : b # a => replies'[b] = replies[b]
    BY <2>2, <2>3, <2>5
  <2> QED BY <2>4, <2>6
<1>c. /\ answer' \in [Tasks -> AnswersOnTheWay \cup {None}]
      /\ answer'[task] # None /\ answer'[task].id = a /\ answer'[task].what = what
      /\ answer'[task].stage = "mark"
      /\ \A u \in Tasks : u # task => answer'[u] = answer[u]
  <2> DEFINE new == [answer[task] EXCEPT !.stage = "mark"]
  <2>1. new \in AnswersOnTheWay /\ new.id = a /\ new.what = what /\ new.stage = "mark"
    BY <1>p DEF AnswersOnTheWay
  <2> HIDE DEF new
  <2>2. answer' = [answer EXCEPT ![task] = new]
    BY DEF new
  <2>3. answer \in [Tasks -> AnswersOnTheWay \cup {None}]
    BY DEF Shape, TypeOK
  <2>4. answer' \in [Tasks -> AnswersOnTheWay \cup {None}] /\ answer'[task] = new
    BY <2>1, <2>2, <2>3
  <2>5. \A u \in Tasks : u # task => answer'[u] = answer[u]
    BY <2>2, <2>3
  <2> QED BY <2>1, <2>4, <2>5, NoneAssumption
<1>d. \A b \in Approvals : Untouched(b) => Untouched(b)' /\ b # a
  <2> SUFFICES ASSUME NEW b \in Approvals, Untouched(b)
               PROVE  Untouched(b)' /\ b # a
    OBVIOUS
  <2>1. b # a
    BY <1>p
  <2> QED BY <2>1, <1>b, <1>c DEF Untouched
<1>1. /\ EndsLast' /\ CompletedTurnHasNoPending' /\ OneTurnPerThread'
      /\ ContextHolds' /\ SuppressedNeverAutoApproved'
  BY DEF EndsLast, IsRequest, CompletedTurnHasNoPending, Pending, OneTurnPerThread,
    MayFollow, ContextHolds, SuppressedNeverAutoApproved
<1>2. Shape'
  BY <1>b, <1>c DEF Shape, TypeOK
<1>3. RequestsWait'
  <2>1. \A n \in DOMAIN queue : IsRequest(n) => queue[n].of \in Approvals
    BY QueueTypes DEF Shape, IsRequest
  <2>2. ASSUME NEW b \in Approvals, NEW n \in DOMAIN queue, IsRequest(n), queue[n].of = b
        PROVE  ask[b] # None /\ record[b] = None /\ Untouched(b)'
    BY <1>d, <2>2 DEF RequestsWait
  <2> QED BY <2>1, <2>2 DEF RequestsWait, IsRequest, Untouched
<1>4. RecordsHold'
  <2>1. ASSUME NEW b \in Approvals, record[b] # None, record[b].status = "not_sent"
        PROVE  Untouched(b)'
    BY <1>d, <2>1 DEF RecordsHold
  <2>2. ASSUME NEW b \in Approvals, ask[b] = None
        PROVE  replies'[b] = <<>>
    BY <1>b, <1>p, <2>2 DEF RecordsHold
  <2> QED BY <2>1, <2>2 DEF RecordsHold
<1>5. AnswersHold'
  <2>1. ASSUME NEW u \in Tasks, answer'[u] # None
        PROVE  /\ ask[answer'[u].id] # None
               /\ answer'[u].stage = "write" => replies'[answer'[u].id] = <<>>
               /\ answer'[u].stage = "mark" => Len(replies'[answer'[u].id]) = 1
               /\ record[answer'[u].id] # None => Says(answer[u].id, answer[u].what)
               /\ answer'[u].id = answer[u].id /\ answer'[u].what = answer[u].what
               /\ answer[u] # None
    <3>1. CASE u = task
      BY <3>1, <1>b, <1>c, <1>p
    <3>2. CASE u # task
      <4>1. answer[u].id \in Approvals \ {a}
        BY <3>2, <2>1, <1>c, <1>p DEF Shape, TypeOK, AnswersOnTheWay
      <4> QED BY <3>2, <4>1, <2>1, <1>b, <1>c DEF AnswersHold
    <3> QED BY <3>1, <3>2
  <2> QED BY <2>1 DEF AnswersHold, Says
<1>6. AnsweredOnce'
  BY <1>b DEF AnsweredOnce
<1>7. AllRecorded'
  <2> SUFFICES ASSUME NEW b \in Approvals, record[b] # None
               PROVE  /\ \A n \in DOMAIN replies'[b] : Says(b, replies[b][n])'
                      /\ record[b].status = "written" => replies'[b] # <<>>
                      /\ record[b].status = "not_sent" => replies'[b] = <<>>
    BY DEF AllRecorded
  <2>1. CASE b = a
    <3>1. record[a].status # "not_sent"
      BY <2>1, <1>p DEF RecordsHold
    <3>2. \A n \in DOMAIN replies'[a] : replies'[a][n] = what
      BY <1>b
    <3> QED BY <2>1, <3>1, <3>2, <1>b, <1>p DEF Says
  <2>2. CASE b # a
    BY <2>2, <1>b DEF AllRecorded, Says
  <2> QED BY <2>1, <2>2
<1> QED BY <1>1, <1>2, <1>3, <1>4, <1>5, <1>6, <1>7

LEMMA MarkWrittenKeeps ==
  ASSUME IInv, NEW task \in Tasks, MarkWritten(task)
  PROVE  IInv'
<1> USE DEF IInv, MarkWritten, events, turns, codex, history
<1>p. PICK a \in Approvals, what \in Decisions \cup {"error"} :
        /\ a = answer[task].id /\ what = answer[task].what /\ answer[task] \in AnswersOnTheWay
        /\ ask[a] # None /\ (record[a] # None => Says(a, what))
        /\ \A b \in Approvals : Untouched(b) => b # a
        /\ \A u \in Tasks : answer[u] # None /\ answer[u].id = a => u = task
  BY AnswerFacts
<1>b. /\ record' \in [Approvals -> Records \cup {None}]
      /\ \A b \in Approvals : b # a => record'[b] = record[b]
      /\ record'[a] = None <=> record[a] = None
      /\ record[a] # None =>
           /\ record'[a].turn = record[a].turn /\ record'[a].state = record[a].state
           /\ record'[a].decision = record[a].decision /\ record'[a].auto = record[a].auto
           /\ record'[a].status = "written"
  <2>1. \A r \in Records : LET s == [r EXCEPT !.status = "written"] IN
          s \in Records /\ s.turn = r.turn /\ s.state = r.state /\ s.decision = r.decision
          /\ s.auto = r.auto /\ s.status = "written"
    BY DEF Records
  <2>2. /\ record[a] = None => record' = [record EXCEPT ![a] = None]
        /\ record[a] # None =>
             record' = [record EXCEPT ![a] = [record[a] EXCEPT !.status = "written"]]
    BY <1>p DEF Shape, TypeOK
  <2>3. record[a] \in Records \cup {None} /\ record \in [Approvals -> Records \cup {None}]
    BY DEF Shape, TypeOK
  <2>4. CASE record[a] = None
    BY <2>2, <2>3, <2>4
  <2>5. CASE record[a] # None
    <3> DEFINE new == [record[a] EXCEPT !.status = "written"]
    <3>1. /\ new \in Records /\ new.turn = record[a].turn /\ new.state = record[a].state
          /\ new.decision = record[a].decision /\ new.auto = record[a].auto
          /\ new.status = "written" /\ new # None
      BY <2>1, <2>3, <2>5, NoneAssumption
    <3>2. record' = [record EXCEPT ![a] = new]
      BY <2>2, <2>5
    <3> HIDE DEF new
    <3>3. record' \in [Approvals -> Records \cup {None}] /\ record'[a] = new
      BY <2>3, <3>1, <3>2
    <3>4. \A b \in Approvals : b # a => record'[b] = record[b]
      BY <2>3, <3>2
    <3> QED BY <2>5, <3>1, <3>3, <3>4
  <2> QED BY <2>4, <2>5
<1>c. /\ answer' \in [Tasks -> AnswersOnTheWay \cup {None}]
      /\ \A u \in Tasks : answer'[u] # None => answer[u] # None /\ answer'[u] = answer[u]
  BY DEF Shape, TypeOK
<1>d. /\ Len(replies[a]) = 1 /\ replies[a] # <<>>
      /\ record[a] # None => record[a].state # "pending"
  <2>1. Len(replies[a]) = 1
    BY <1>p DEF AnswersHold
  <2>2. replies[a] # <<>>
    BY <2>1
  <2> QED BY <2>1, <2>2, <1>p DEF Says
<1>1. /\ AnsweredOnce' /\ EndsLast' /\ OneTurnPerThread' /\ ContextHolds'
  BY DEF AnsweredOnce, EndsLast, IsRequest, OneTurnPerThread, MayFollow, ContextHolds
<1>2. Shape'
  BY <1>b, <1>c DEF Shape, TypeOK
<1>3. RequestsWait'
  <2>1. \A n \in DOMAIN queue : IsRequest(n) => queue[n].of \in Approvals
    BY QueueTypes DEF Shape, IsRequest
  <2> QED BY <1>b, <1>c, <2>1 DEF RequestsWait, Untouched, IsRequest
<1>4. RecordsHold'
  <2>1. \A b \in Approvals : Untouched(b) => Untouched(b)'
    BY <1>c DEF Untouched
  <2>2. ASSUME NEW b \in Approvals, record'[b] # None
        PROVE  /\ ask[b] # None
               /\ ask[b].shape.named => record'[b].turn = ask[b].turn
               /\ record'[b].state = "pending" => record'[b].status = "not_sent"
               /\ record'[b].status = "not_sent" => Untouched(b)'
    <3>1. CASE b = a
      BY <3>1, <1>b, <1>d, <2>2 DEF RecordsHold
    <3>2. CASE b # a
      <4>1. record'[b] = record[b] /\ record[b] # None
        BY <3>2, <1>b, <2>2
      <4>2. record[b].status = "not_sent" => Untouched(b)'
        BY <4>1, <2>1 DEF RecordsHold
      <4> QED BY <4>1, <4>2 DEF RecordsHold
    <3> QED BY <3>1, <3>2
  <2> QED BY <2>2 DEF RecordsHold
<1>5. AnswersHold'
  <2>1. \A u \in Tasks : answer'[u] # None => answer'[u].id \in Approvals
    BY <1>c DEF AnswersOnTheWay
  <2>2. \A b \in Approvals : \A w : record[b] # None => (Says(b, w)' <=> Says(b, w))
    BY <1>b DEF Says
  <2>3. ASSUME NEW u \in Tasks, answer'[u] # None, record'[answer[u].id] # None
        PROVE  Says(answer[u].id, answer[u].what)'
    <3>1. PICK b \in Approvals : b = answer[u].id
      BY <2>1, <2>3, <1>c
    <3>2. record[b] # None /\ Says(b, answer[u].what)
      BY <2>3, <3>1, <1>b, <1>c DEF AnswersHold
    <3> QED BY <3>1, <3>2, <1>b, <1>c, <2>3 DEF Says
  <2> QED BY <1>c, <2>1, <2>3 DEF AnswersHold, Says
<1>6. AllRecorded'
  <2> SUFFICES ASSUME NEW b \in Approvals, record'[b] # None
               PROVE  /\ \A n \in DOMAIN replies[b] : Says(b, replies[b][n])'
                      /\ record'[b].status = "written" => replies[b] # <<>>
                      /\ record'[b].status = "not_sent" => replies[b] = <<>>
    BY DEF AllRecorded
  <2>1. \A n \in DOMAIN replies[b] : Says(b, replies[b][n])'
    BY <1>b DEF AllRecorded, Says
  <2>2. record'[b].status = "written" => replies[b] # <<>>
    BY <1>b, <1>d DEF AllRecorded
  <2>3. record'[b].status = "not_sent" => replies[b] = <<>>
    BY <1>b DEF AllRecorded
  <2> QED BY <2>1, <2>2, <2>3
<1>7. CompletedTurnHasNoPending'
  BY <1>b DEF CompletedTurnHasNoPending, Pending
<1>8. SuppressedNeverAutoApproved'
  BY <1>b DEF SuppressedNeverAutoApproved
<1> QED BY <1>1, <1>2, <1>3, <1>4, <1>5, <1>6, <1>7, <1>8

-----------------------------------------------------------------------------
(* Every step of the specification.                                        *)

LEMMA Starts ==
  ASSUME Init
  PROVE  IInv
<1>1. queue \in Seq(Events) /\ DOMAIN queue = {}
  BY DEF Init
<1>2. Shape
  <2>1. \A a \in Approvals : replies[a] \in Seq(Decisions \cup {"error"})
    BY DEF Init
  <2>2. replies \in [Approvals -> Seq(Decisions \cup {"error"})]
    BY <2>1 DEF Init
  <2> QED BY <1>1, <2>2 DEF Init, Shape, TypeOK
<1>3. AnsweredOnce
  <2>1. \A a \in Approvals : replies[a] = <<>>
    BY DEF Init
  <2>2. Len(<<>>) = 0
    OBVIOUS
  <2> QED BY <2>1, <2>2 DEF AnsweredOnce
<1>4. RequestsWait /\ RecordsHold /\ AllRecorded /\ CompletedTurnHasNoPending
      /\ SuppressedNeverAutoApproved
  BY <1>1 DEF Init, RequestsWait, RecordsHold, AllRecorded, CompletedTurnHasNoPending, Pending,
    SuppressedNeverAutoApproved, Untouched
<1>5. AnswersHold
  BY DEF Init, AnswersHold
<1>6. EndsLast
  BY <1>1, NamesAssumption DEF Init, EndsLast
<1>7. OneTurnPerThread /\ ContextHolds
  BY DEF Init, OneTurnPerThread, MayFollow, ContextHolds
<1> QED BY <1>2, <1>3, <1>4, <1>5, <1>6, <1>7 DEF IInv

LEMMA StutterKeeps ==
  ASSUME IInv, UNCHANGED vars
  PROVE  IInv'
<1> USE DEF IInv, vars, manager, events, turns, codex, history
<1>1. Shape'
  BY DEF Shape, TypeOK
<1>2. /\ RequestsWait' /\ RecordsHold' /\ AnswersHold' /\ AnsweredOnce'
      /\ AllRecorded' /\ EndsLast' /\ CompletedTurnHasNoPending'
  BY DEF RequestsWait, Untouched, IsRequest, RecordsHold, AnswersHold, Says, AnsweredOnce,
    AllRecorded, EndsLast, CompletedTurnHasNoPending, Pending
<1>3. OneTurnPerThread' /\ ContextHolds' /\ SuppressedNeverAutoApproved'
  BY DEF OneTurnPerThread, MayFollow, ContextHolds, SuppressedNeverAutoApproved
<1> QED BY <1>1, <1>2, <1>3

LEMMA Inductive ==
  ASSUME IInv, [Next]_vars
  PROVE  IInv'
<1>1. ASSUME NEW t \in Turns, NEW x \in Rules, Register(t, x) PROVE IInv'
  BY <1>1, RegisterKeeps
<1>2. ASSUME NEW t \in Turns, Bind(t) PROVE IInv'
  BY <1>2, BindKeeps
<1>3. ASSUME NEW t \in Turns, Invalidate(t) PROVE IInv'
  BY <1>3, InvalidateKeeps
<1>4. ASSUME NEW t \in Turns, CancelApprovals(t) PROVE IInv'
  BY <1>4, CancelApprovalsKeeps
<1>5. ASSUME NEW t \in Turns, HandlerEnds(t) PROVE IInv'
  BY <1>5, HandlerEndsKeeps
<1>6. ASSUME NEW t \in Turns, TakeStart(t) PROVE IInv'
  BY <1>6, TakeStartKeeps
<1>7. ASSUME NEW t \in Turns, EndTurn(t) PROVE IInv'
  BY <1>7, EndTurnKeeps
<1>8. ASSUME NEW t \in Turns, NEW a \in Approvals, NEW x \in Shapes, Request(a, t, x) PROVE IInv'
  BY <1>8, RequestKeeps
<1>9. ASSUME NEW a \in Approvals, Withdraw(a) PROVE IInv'
  BY <1>9, WithdrawKeeps
<1>10. ASSUME NEW a \in Approvals, ClockPasses(a) PROVE IInv'
  BY <1>10, ClockPassesKeeps
<1>11. ASSUME NEW task \in Tasks, NEW a \in Approvals, Expire(task, a) PROVE IInv'
  BY <1>11, ExpireKeeps
<1>12. CASE Close
  BY <1>12, CloseKeeps
<1>13. CASE Listen
  BY <1>13, TakeRequestKeeps, TakeUnsupportedKeeps, TakeResolvedKeeps, TakeCompletedKeeps,
    ListenerCancelsKeeps, TakeClosedKeeps DEF Listen
<1>14. CASE Lag
  BY <1>14, LagKeeps
<1>15. ASSUME NEW c \in Clients, NEW a \in Approvals, NEW d \in Decisions, Decide(c, a, d)
       PROVE  IInv'
  BY <1>15, DecideKeeps
<1>16. ASSUME NEW task \in Tasks, Answer(task) PROVE IInv'
  BY <1>16, WriteAnswerKeeps, WriteFailsKeeps, MarkWrittenKeeps DEF Answer
<1>17. ASSUME NEW c \in Clients, ClientGone(c) PROVE IInv'
  BY <1>17, ClientGoneKeeps
<1>18. CASE UNCHANGED vars
  BY <1>18, StutterKeeps
<1>19. Approvals \subseteq Tasks /\ Clients \subseteq Tasks
  BY DEF Tasks
<1> QED
  BY <1>1, <1>2, <1>3, <1>4, <1>5, <1>6, <1>7, <1>8, <1>9, <1>10, <1>11, <1>12, <1>13, <1>14,
    <1>15, <1>16, <1>17, <1>18, <1>19 DEF Next

-----------------------------------------------------------------------------
(* What the runs check, for every value of the constants.                  *)

\* The inductive invariant holds in every state the approvals can reach.
THEOREM Invariant == Spec => []IInv
<1>1. Init => IInv
  BY Starts
<1>2. IInv /\ [Next]_vars => IInv'
  BY Inductive
<1> QED BY <1>1, <1>2, PTL DEF Spec

\* The state keeps its shape.
THEOREM TypeCorrect == Spec => []TypeOK
<1>1. IInv => TypeOK
  BY DEF IInv, Shape
<1> QED BY <1>1, Invariant, PTL

\* No request is answered twice, whoever decides, expires or gives up on it at
\* the same time (settle under the records lock, the answer outside it).
THEOREM OneAnswer == Spec => []AnsweredOnce
<1>1. IInv => AnsweredOnce
  BY DEF IInv
<1> QED BY <1>1, Invariant, PTL

\* The record tells the truth about what Codex was told and whether it was.
THEOREM TrueRecord == Spec => []AnswerIsRecorded
<1>1. IInv => AnswerIsRecorded
  BY DEF IInv, AllRecorded, AnswerIsRecorded, Says
<1> QED BY <1>1, Invariant, PTL

\* A turn that runs is never without its own context, whatever is still queued
\* about an earlier one (register_turn, bind_turn, invalidate_turn).
THEOREM OwnContext == Spec => []RunningTurnHasItsContext
<1>1. IInv => RunningTurnHasItsContext
  BY DEF IInv, OneTurnPerThread, ContextHolds, RunningTurnHasItsContext
<1> QED BY <1>1, Invariant, PTL

\* Suppression is never got round: the context a request is judged by suppresses
\* whatever any turn of its thread does (handle_request).
THEOREM SuppressionHolds == Spec => []SuppressedNeverAutoApproved
<1>1. IInv => SuppressedNeverAutoApproved
  BY DEF IInv
<1> QED BY <1>1, Invariant, PTL

\* A turn the listener has seen the end of leaves no approval pending.
THEOREM NothingLeftPending == Spec => []CompletedTurnHasNoPending
<1>1. IInv => CompletedTurnHasNoPending
  BY DEF IInv
<1> QED BY <1>1, Invariant, PTL

-----------------------------------------------------------------------------
(* The contract with Codex and the clients.                                *)

\* Besides the inductive invariant: a request without a record is only refused,
\* and what an approval says is one of three decisions.
ToBeTold ==
  /\ \A task \in Tasks : answer[task] # None /\ record[answer[task].id] = None =>
       answer[task].what = "error"
  /\ \A a \in Approvals : record[a] # None /\ record[a].state = "approved" =>
       record[a].decision \in {"accept", "accept_for_session", "cancel"}

\* No step goes beyond what the contract allows.
Within == [Contract!Next]_(Contract!vars)

\* The verdict on a record, by its fields.
LEMMA VerdictFacts ==
  ASSUME NEW a \in Approvals
  PROVE  /\ record[a] = None => Verdict(a) = "none"
         /\ record[a] # None /\ record[a].state = "approved" => Verdict(a) = record[a].decision
         /\ record[a] # None /\ record[a].state \in {"pending", "denied", "expired"} =>
              Verdict(a) = record[a].state
         /\ record[a] # None /\ record[a].state = "cancelled" /\ record[a].status = "not_sent" =>
              Verdict(a) = "withdrawn"
         /\ record[a] # None /\ record[a].state = "cancelled" /\ record[a].status # "not_sent" =>
              Verdict(a) = "cancelled"
BY DEF Verdict

\* The same verdict: whatever else changed about the record.
LEMMA SameVerdict ==
  ASSUME NEW a \in Approvals, record'[a] = None <=> record[a] = None,
         record[a] # None =>
           /\ record[a].state \in States
           /\ record'[a].state = record[a].state /\ record'[a].decision = record[a].decision
           /\ record'[a].status = "not_sent" <=> record[a].status = "not_sent"
  PROVE  Verdict(a)' = Verdict(a)
BY DEF Verdict

\* A step that changes no verdict and no answer is none of the contract's business.
LEMMA Unnoticed ==
  ASSUME \A a \in Approvals : Verdict(a)' = Verdict(a), UNCHANGED replies
  PROVE  Within
<1>1. [a \in Approvals |-> Verdict(a)]' = [a \in Approvals |-> Verdict(a)]
  OBVIOUS
<1> QED BY <1>1 DEF Within, Contract!vars

\* Neither is one that leaves the records and the answers alone, but for answers dropped.
LEMMA Apart ==
  ASSUME ToBeTold, UNCHANGED <<record, replies>>,
         \A task \in Tasks : answer'[task] # None => answer'[task] = answer[task]
  PROVE  ToBeTold' /\ Within
<1>1. ToBeTold'
  BY DEF ToBeTold
<1>2. \A a \in Approvals : Verdict(a)' = Verdict(a)
  BY DEF Verdict
<1> QED BY <1>1, <1>2, Unnoticed

\* Pending approvals are withdrawn.
LEMMA WithdrawnStep ==
  ASSUME IInv, ToBeTold, NEW as \in SUBSET Approvals, record' = Cancelled(as),
         UNCHANGED <<answer, replies>>
  PROVE  ToBeTold' /\ Within
<1> DEFINE is == {a \in as : Pending(a)}
<1>1. \A a \in Approvals :
        \/ a \notin is /\ record'[a] = record[a]
        \/ /\ a \in is /\ record'[a] # None /\ record'[a].state = "cancelled"
           /\ record'[a].status = record[a].status /\ Pending(a)
  BY CancelledFacts DEF IInv, Shape
<1>2. ToBeTold'
  <2>1. \A task \in Tasks : answer[task] # None => answer[task].id \in Approvals
    BY DEF IInv, Shape, TypeOK, AnswersOnTheWay
  <2>2. \A a \in Approvals : /\ record'[a] = None => record[a] = None
                             /\ record'[a].state = "approved" => record'[a] = record[a]
    BY <1>1
  <2>3. answer' = answer
    OBVIOUS
  <2>4. ASSUME NEW a \in Approvals, record'[a] # None, record'[a].state = "approved"
        PROVE  record'[a].decision \in {"accept", "accept_for_session", "cancel"}
    <3>1. record'[a] = record[a]
      BY <2>2, <2>4
    <3> QED BY <2>4, <3>1 DEF ToBeTold
  <2>5. ASSUME NEW task \in Tasks, answer[task] # None, record'[answer[task].id] = None
        PROVE  answer[task].what = "error"
    <3>1. record[answer[task].id] = None
      BY <2>1, <2>2, <2>5
    <3> QED BY <2>5, <3>1 DEF ToBeTold
  <2> QED BY <2>3, <2>4, <2>5 DEF ToBeTold
<1>3. \A a \in is : /\ Verdict(a) = "pending" /\ Verdict(a)' = "withdrawn" /\ replies[a] = <<>>
  <2> SUFFICES ASSUME NEW a \in is
               PROVE  Verdict(a) = "pending" /\ Verdict(a)' = "withdrawn" /\ replies[a] = <<>>
    OBVIOUS
  <2>1. /\ a \in Approvals /\ record[a] # None /\ record[a].state = "pending"
        /\ record'[a] # None /\ record'[a].state = "cancelled"
        /\ record'[a].status = record[a].status
    BY <1>1 DEF Pending
  <2>2. record[a].status = "not_sent" /\ replies[a] = <<>>
    BY <2>1 DEF IInv, RecordsHold, Untouched
  <2> QED BY <2>1, <2>2 DEF Verdict
<1>4. \A a \in Approvals : a \notin is => Verdict(a)' = Verdict(a)
  BY <1>1 DEF Verdict
<1>5. is \in SUBSET Approvals
  OBVIOUS
<1> HIDE DEF is
<1>6. Contract!Withdraw(is)
  BY <1>3, <1>4, <1>5 DEF Contract!Withdraw, Contract!Untold
<1> QED BY <1>2, <1>5, <1>6 DEF Within, Contract!Next

\* One request is opened or settled.
LEMMA SettledStep ==
  ASSUME NEW a \in Approvals, Verdict(a) \in {"none", "pending"}, replies[a] = <<>>,
         \/ Verdict(a)' \in Contract!Verdicts
         \/ Verdict(a) = "none" /\ Verdict(a)' = "pending",
         \A b \in Approvals : b # a => Verdict(b)' = Verdict(b), UNCHANGED replies
  PROVE  Within
<1> DEFINE was == [b \in Approvals |-> Verdict(b)]
<1>1. was' = [was EXCEPT ![a] = Verdict(a)']
  OBVIOUS
<1>2. CASE Verdict(a)' \in Contract!Verdicts
  <2>1. Contract!Settle(a, Verdict(a)')
    BY <1>1 DEF Contract!Settle, Contract!Untold
  <2> QED BY <1>2, <2>1 DEF Within, Contract!Next
<1>3. CASE Verdict(a) = "none" /\ Verdict(a)' = "pending"
  <2>1. Contract!Open(a)
    BY <1>1, <1>3 DEF Contract!Open, Contract!Untold
  <2> QED BY <2>1 DEF Within, Contract!Next
<1> QED BY <1>2, <1>3

\* A pending approval is decided or expires.
LEMMA DecidedStep ==
  ASSUME IInv, ToBeTold, NEW task \in Tasks, NEW a \in Approvals, NEW what \in Decisions,
         NEW s \in {"approved", "denied", "cancelled", "expired"},
         answer[task] = None, Pending(a), Answering(task, a, what),
         \A b \in Approvals : b # a => record'[b] = record[b],
         record'[a] # None, record'[a].state = s, record'[a].status = "unknown",
         s = "approved" => record'[a].decision \in {"accept", "accept_for_session"},
         UNCHANGED replies
  PROVE  ToBeTold' /\ Within
<1>1. ToBeTold'
  <2>1. /\ answer'[task] # None /\ answer'[task].id = a
        /\ \A u \in Tasks : u # task => answer'[u] = answer[u]
    BY TakesItUp
  <2>2. \A u \in Tasks : answer[u] # None => answer[u].id \in Approvals
    BY DEF IInv, Shape, TypeOK, AnswersOnTheWay
  <2>3. ASSUME NEW u \in Tasks, answer'[u] # None, record'[answer'[u].id] = None
        PROVE  answer'[u].what = "error"
    <3>1. u # task /\ answer'[u] = answer[u] /\ answer[u].id # a
      BY <2>1, <2>3
    <3> QED BY <2>2, <2>3, <3>1 DEF ToBeTold
  <2>4. ASSUME NEW b \in Approvals, record'[b] # None, record'[b].state = "approved"
        PROVE  record'[b].decision \in {"accept", "accept_for_session", "cancel"}
    <3>1. CASE b = a
      BY <2>4, <3>1
    <3>2. CASE b # a
      BY <2>4, <3>2 DEF ToBeTold
    <3> QED BY <3>1, <3>2
  <2> QED BY <2>3, <2>4 DEF ToBeTold
<1>2. Verdict(a) = "pending" /\ replies[a] = <<>>
  BY VerdictFacts DEF Pending, IInv, RecordsHold, Untouched
<1>3. Verdict(a)' \in Contract!Verdicts
  BY DEF Verdict, Contract!Verdicts
<1>4. \A b \in Approvals : b # a => Verdict(b)' = Verdict(b)
  BY DEF Verdict
<1> QED BY <1>1, <1>2, <1>3, <1>4, SettledStep

LEMMA DecideWithin ==
  ASSUME IInv, ToBeTold, NEW c \in Clients, NEW a \in Approvals, NEW d \in Decisions,
         Decide(c, a, d)
  PROVE  ToBeTold' /\ Within
<1> DEFINE s == StateAfter(d)
           chosen == IF s = "approved" THEN d ELSE None
<1>1. /\ s \in {"approved", "denied", "cancelled", "expired"}
      /\ s = "approved" => chosen \in {"accept", "accept_for_session"}
  BY DEF StateAfter
<1>2. /\ answer[c] = None /\ Pending(a) /\ Answering(c, a, d) /\ c \in Tasks
      /\ UNCHANGED replies
      /\ record' = [record EXCEPT ![a].state = s, ![a].status = "unknown",
                                  ![a].decision = chosen]
  BY DEF Decide, MayDecide, Tasks, history
<1>3. /\ record \in [Approvals -> Records \cup {None}] /\ record[a] \in Records
      /\ s \in States /\ chosen \in Decisions \cup {None}
  BY <1>1, <1>2 DEF IInv, Shape, TypeOK, Pending, States
<1> HIDE DEF s, chosen
<1> DEFINE r == [record[a] EXCEPT !.state = s, !.status = "unknown", !.decision = chosen]
<1>4. r \in Records /\ r.state = s /\ r.status = "unknown" /\ r.decision = chosen
  BY <1>3 DEF Records
<1>5. record' = [record EXCEPT ![a] = r]
  BY <1>2, <1>3
<1> HIDE DEF r
<1>6. record'[a] = r /\ r # None /\ \A b \in Approvals : b # a => record'[b] = record[b]
  BY <1>3, <1>4, <1>5, NoneAssumption
<1> QED BY <1>1, <1>2, <1>4, <1>6, DecidedStep

LEMMA ExpireWithin ==
  ASSUME IInv, ToBeTold, NEW task \in Tasks, NEW a \in Approvals, Expire(task, a)
  PROVE  ToBeTold' /\ Within
<1>1. /\ answer[task] = None /\ Pending(a) /\ Answering(task, a, "decline")
      /\ UNCHANGED replies /\ "decline" \in Decisions
      /\ record' = [record EXCEPT ![a].state = "expired", ![a].status = "unknown"]
  BY DEF Expire, Expirable, history, Decisions
<1>2. record \in [Approvals -> Records \cup {None}] /\ record[a] \in Records
  BY <1>1 DEF IInv, Shape, TypeOK, Pending
<1>3. /\ \A b \in Approvals : b # a => record'[b] = record[b]
      /\ record'[a].state = "expired" /\ record'[a].status = "unknown" /\ record'[a] \in Records
  BY <1>1, <1>2 DEF Records, States
<1>4. record'[a] # None
  BY <1>3, NoneAssumption
<1> QED BY <1>1, <1>3, <1>4, DecidedStep

LEMMA TakeRequestWithin ==
  ASSUME IInv, ToBeTold, TakeRequest
  PROVE  ToBeTold' /\ Within
<1>1. PICK a \in Approvals :
        /\ a = Head(queue).of /\ record' \in [Approvals -> Records \cup {None}]
        /\ \A b \in Approvals : b # a => record'[b] = record[b]
        /\ record'[a] # None
        /\ record'[a].state = "approved" =>
             record'[a].decision \in {"accept", "accept_for_session", "cancel"}
        /\ \/ record'[a].status = "not_sent" /\ record'[a].state = "pending" /\ UNCHANGED answer
           \/ /\ \E what \in Decisions : Answering("listener", a, what)
              /\ record'[a].status = "unknown" /\ record'[a].state \in {"approved", "cancelled"}
  BY RequestTaken
<1>2. /\ Listening /\ Head(queue).kind = "request" /\ queue' = Tail(queue) /\ UNCHANGED replies
      /\ "listener" \in Tasks /\ answer["listener"] = None
  BY DEF TakeRequest, Takes, history, Listening, Tasks
<1>3. record[a] = None /\ Untouched(a)
  BY <1>1, <1>2, HeadRequest
<1>4. \A task \in Tasks : answer'[task] # None =>
        answer'[task].id = a \/ (answer'[task] = answer[task] /\ answer[task].id \in Approvals)
  <2>1. \A task \in Tasks : answer[task] # None => answer[task].id \in Approvals
    BY DEF IInv, Shape, TypeOK, AnswersOnTheWay
  <2>2. CASE \E what \in Decisions : Answering("listener", a, what)
    BY <1>2, <2>1, <2>2, TakesItUp
  <2> QED BY <1>1, <2>1, <2>2
<1>5. ToBeTold'
  <2>1. ASSUME NEW task \in Tasks, answer'[task] # None, record'[answer'[task].id] = None
        PROVE  answer'[task].what = "error"
    <3>1. answer'[task] = answer[task] /\ answer[task].id \in Approvals /\ answer[task].id # a
      BY <1>1, <1>4, <2>1
    <3> QED BY <1>1, <2>1, <3>1 DEF ToBeTold
  <2>2. ASSUME NEW b \in Approvals, record'[b] # None, record'[b].state = "approved"
        PROVE  record'[b].decision \in {"accept", "accept_for_session", "cancel"}
    <3>1. CASE b = a
      BY <1>1, <2>2, <3>1
    <3>2. CASE b # a
      <4>1. record'[b] = record[b]
        BY <1>1, <3>2
      <4> QED BY <2>2, <4>1 DEF ToBeTold
    <3> QED BY <3>1, <3>2
  <2> QED BY <2>1, <2>2 DEF ToBeTold
<1>6. Verdict(a) = "none" /\ replies[a] = <<>>
  BY <1>3 DEF Verdict, Untouched
<1>7. Verdict(a)' \in Contract!Verdicts \cup {"pending"}
  BY <1>1 DEF Verdict, Contract!Verdicts
<1>8. \A b \in Approvals : b # a => Verdict(b)' = Verdict(b)
  BY <1>1 DEF Verdict
<1> QED BY <1>2, <1>5, <1>6, <1>7, <1>8, SettledStep

\* The refusal of a request that is not supported is on its way.
LEMMA TakeUnsupportedWithin ==
  ASSUME IInv, ToBeTold, TakeUnsupported
  PROVE  ToBeTold' /\ Within
<1>1. PICK a \in Approvals : a = Head(queue).of
  BY HeadRequest DEF TakeUnsupported, Takes
<1>2. /\ Answering("listener", a, "error") /\ "listener" \in Tasks /\ answer["listener"] = None
      /\ UNCHANGED <<record, replies>>
  BY <1>1 DEF TakeUnsupported, Takes, Listening, Tasks, history
<1>3. /\ answer'["listener"].what = "error"
      /\ \A task \in Tasks : task # "listener" => answer'[task] = answer[task]
  BY <1>2, TakesItUp
<1>4. ToBeTold'
  BY <1>2, <1>3 DEF ToBeTold
<1>5. \A b \in Approvals : Verdict(b)' = Verdict(b)
  BY <1>2 DEF Verdict
<1> QED BY <1>2, <1>4, <1>5, Unnoticed

\* Codex is told the verdict, or that its request is refused.
LEMMA WriteAnswerWithin ==
  ASSUME IInv, ToBeTold, NEW task \in Tasks, WriteAnswer(task)
  PROVE  ToBeTold' /\ Within
<1>1. PICK a \in Approvals, what \in Decisions \cup {"error"} :
        /\ a = answer[task].id /\ what = answer[task].what /\ answer[task] \in AnswersOnTheWay
        /\ ask[a] # None /\ (record[a] # None => Says(a, what))
        /\ \A b \in Approvals : Untouched(b) => b # a
        /\ \A u \in Tasks : answer[u] # None /\ answer[u].id = a => u = task
  BY AnswerFacts DEF WriteAnswer
<1>2. /\ answer[task] # None /\ replies[a] = <<>> /\ UNCHANGED record
      /\ replies' = [replies EXCEPT ![a] = Append(@, what)]
      /\ answer' = [answer EXCEPT ![task].stage = "mark"]
  BY <1>1 DEF WriteAnswer, IInv, AnswersHold
<1>3. replies' = [replies EXCEPT ![a] = <<what>>]
  BY <1>2
<1>4. ToBeTold'
  <2>1. \A u \in Tasks : answer'[u] # None =>
          answer[u] # None /\ answer'[u].id = answer[u].id /\ answer'[u].what = answer[u].what
    BY <1>1, <1>2 DEF IInv, Shape, TypeOK, AnswersOnTheWay
  <2> QED BY <1>2, <2>1 DEF ToBeTold
<1> DEFINE was == [b \in Approvals |-> Verdict(b)]
<1>5. was' = was
  BY <1>2 DEF Verdict
<1>6. CASE record[a] = None
  <2>1. what = "error" /\ Verdict(a) = "none"
    BY <1>1, <1>2, <1>6 DEF ToBeTold, Verdict
  <2>2. Contract!Refuse(a)
    BY <1>2, <1>3, <1>5, <2>1 DEF Contract!Refuse, Contract!Untold
  <2> QED BY <1>4, <2>2 DEF Within, Contract!Next
<1>7. CASE record[a] # None
  <2>1. Says(a, what) /\ record[a].status # "not_sent"
    BY <1>1, <1>7 DEF IInv, RecordsHold
  <2>2. record[a].state = "approved" =>
          record[a].decision \in {"accept", "accept_for_session", "cancel"}
    BY <1>7 DEF ToBeTold
  <2>3. Verdict(a) \in Contract!Verdicts /\ what = Contract!Wire(Verdict(a))
    BY <1>7, <2>1, <2>2 DEF Verdict, Says, Contract!Verdicts, Contract!Wire
  <2>4. Contract!Tell(a)
    BY <1>2, <1>3, <1>5, <2>3 DEF Contract!Tell, Contract!Untold
  <2> QED BY <1>4, <2>4 DEF Within, Contract!Next
<1> QED BY <1>6, <1>7

LEMMA MarkWrittenWithin ==
  ASSUME IInv, ToBeTold, NEW task \in Tasks, MarkWritten(task)
  PROVE  ToBeTold' /\ Within
<1>1. PICK a \in Approvals, what \in Decisions \cup {"error"} :
        /\ a = answer[task].id /\ what = answer[task].what /\ answer[task] \in AnswersOnTheWay
        /\ ask[a] # None /\ (record[a] # None => Says(a, what))
        /\ \A b \in Approvals : Untouched(b) => b # a
        /\ \A u \in Tasks : answer[u] # None /\ answer[u].id = a => u = task
  BY AnswerFacts DEF MarkWritten
<1>2. /\ UNCHANGED replies /\ answer' = [answer EXCEPT ![task] = None]
      /\ record' = [record EXCEPT ![a] = IF @ = None THEN None ELSE [@ EXCEPT !.status = "written"]]
  BY <1>1 DEF MarkWritten, history
<1>3. /\ record \in [Approvals -> Records \cup {None}]
      /\ answer \in [Tasks -> AnswersOnTheWay \cup {None}]
  BY DEF IInv, Shape, TypeOK
<1>4. \A b \in Approvals : b # a => record'[b] = record[b]
  BY <1>2, <1>3
<1>5. /\ record'[a] = None <=> record[a] = None
      /\ record[a] # None =>
           /\ record[a].state \in States /\ record[a].status # "not_sent"
           /\ record'[a].state = record[a].state /\ record'[a].decision = record[a].decision
           /\ record'[a].status = "written"
  <2>1. CASE record[a] = None
    BY <1>2, <1>3, <2>1
  <2>2. CASE record[a] # None
    <3> DEFINE r == [record[a] EXCEPT !.status = "written"]
    <3>1. /\ r \in Records /\ r.state = record[a].state /\ r.decision = record[a].decision
          /\ r.status = "written" /\ record[a].state \in States
      BY <1>3, <2>2 DEF Records
    <3>2. record' = [record EXCEPT ![a] = r]
      BY <1>2, <1>3, <2>2
    <3>3. record[a].status # "not_sent"
      BY <1>1, <2>2 DEF IInv, RecordsHold
    <3> HIDE DEF r
    <3> QED BY <1>3, <2>2, <3>1, <3>2, <3>3, NoneAssumption
  <2> QED BY <2>1, <2>2
<1>6. ToBeTold'
  <2>1. \A u \in Tasks : answer'[u] # None => answer'[u] = answer[u] /\ answer[u].id \in Approvals
    BY <1>2, <1>3 DEF AnswersOnTheWay
  <2>2. \A b \in Approvals : record'[b] = None <=> record[b] = None
    BY <1>4, <1>5
  <2>3. \A b \in Approvals : record'[b] # None =>
          record'[b].state = record[b].state /\ record'[b].decision = record[b].decision
    BY <1>4, <1>5
  <2>4. ASSUME NEW u \in Tasks, answer'[u] # None, record'[answer'[u].id] = None
        PROVE  answer'[u].what = "error"
    BY <2>1, <2>2, <2>4 DEF ToBeTold
  <2>5. ASSUME NEW b \in Approvals, record'[b] # None, record'[b].state = "approved"
        PROVE  record'[b].decision \in {"accept", "accept_for_session", "cancel"}
    BY <2>2, <2>3, <2>5 DEF ToBeTold
  <2> QED BY <2>4, <2>5 DEF ToBeTold
<1>7. Verdict(a)' = Verdict(a)
  BY <1>5, SameVerdict
<1>8. \A b \in Approvals : b # a => Verdict(b)' = Verdict(b)
  BY <1>4 DEF Verdict
<1> QED BY <1>2, <1>6, <1>7, <1>8, Unnoticed

\* Which turn a record is of makes no difference to its verdict.
LEMMA BindWithin ==
  ASSUME IInv, ToBeTold, NEW t \in Turns, Bind(t)
  PROVE  ToBeTold' /\ Within
<1>1. UNCHANGED <<answer, replies>>
  BY DEF Bind, history
<1>2. \A a \in Approvals :
        /\ record'[a] = None <=> record[a] = None
        /\ record[a] # None =>
             /\ record[a].state \in States
             /\ record'[a].state = record[a].state /\ record'[a].decision = record[a].decision
             /\ record'[a].status = record[a].status
  <2>1. \A r \in Records : LET s == [r EXCEPT !.turn = t] IN
          /\ s \in Records /\ s.state = r.state /\ s.decision = r.decision
          /\ s.status = r.status /\ r.state \in States
    BY DEF Records
  <2>2. \A a \in Approvals : record[a] # None => record[a] \in Records
    BY DEF IInv, Shape, TypeOK
  <2>3. \A a \in Approvals :
          record'[a] = record[a] \/ (record[a] # None /\ record'[a] = [record[a] EXCEPT !.turn = t])
    BY DEF Bind
  <2> TAKE a \in Approvals
  <2>4. CASE record'[a] = record[a]
    BY <2>2, <2>4 DEF Records
  <2>5. CASE record[a] # None /\ record'[a] = [record[a] EXCEPT !.turn = t]
    <3> DEFINE s == [record[a] EXCEPT !.turn = t]
    <3>1. /\ s \in Records /\ s.state = record[a].state /\ s.decision = record[a].decision
          /\ s.status = record[a].status /\ record[a].state \in States
      BY <2>1, <2>2, <2>5
    <3>2. record'[a] = s
      BY <2>5
    <3> HIDE DEF s
    <3> QED BY <2>5, <3>1, <3>2, NoneAssumption
  <2> QED BY <2>3, <2>4, <2>5
<1>3. ToBeTold'
  <2>1. \A u \in Tasks : answer[u] # None => answer[u].id \in Approvals
    BY DEF IInv, Shape, TypeOK, AnswersOnTheWay
  <2>2. ASSUME NEW u \in Tasks, answer[u] # None, record'[answer[u].id] = None
        PROVE  answer[u].what = "error"
    BY <1>2, <2>1, <2>2 DEF ToBeTold
  <2>3. ASSUME NEW b \in Approvals, record'[b] # None, record'[b].state = "approved"
        PROVE  record'[b].decision \in {"accept", "accept_for_session", "cancel"}
    BY <1>2, <2>3 DEF ToBeTold
  <2> QED BY <1>1, <2>2, <2>3 DEF ToBeTold
<1>4. \A a \in Approvals : Verdict(a)' = Verdict(a)
  BY <1>2, SameVerdict
<1> QED BY <1>1, <1>3, <1>4, Unnoticed

\* Every step stays within the contract.
LEMMA StepWithin ==
  ASSUME IInv, ToBeTold, [Next]_vars
  PROVE  ToBeTold' /\ Within
<1> USE DEF manager, events, turns, codex, history
<1>1. ASSUME UNCHANGED <<record, answer, replies>> PROVE ToBeTold' /\ Within
  BY <1>1, Apart
<1>2. ASSUME NEW t \in Turns, NEW x \in Rules, Register(t, x) PROVE ToBeTold' /\ Within
  BY <1>1, <1>2 DEF Register
<1>3. ASSUME NEW t \in Turns, Bind(t) PROVE ToBeTold' /\ Within
  BY <1>3, BindWithin
<1>4. ASSUME NEW t \in Turns, Invalidate(t) \/ HandlerEnds(t) \/ TakeStart(t) \/ EndTurn(t)
      PROVE  ToBeTold' /\ Within
  BY <1>1, <1>4 DEF Invalidate, HandlerEnds, TakeStart, EndTurn
<1>5. ASSUME NEW t \in Turns, CancelApprovals(t) PROVE ToBeTold' /\ Within
  <2>1. OfTurn(t) \in SUBSET Approvals
    BY DEF OfTurn
  <2> QED BY <1>5, <2>1, WithdrawnStep DEF CancelApprovals
<1>6. ASSUME NEW t \in Turns, NEW a \in Approvals, NEW x \in Shapes, Request(a, t, x)
      PROVE  ToBeTold' /\ Within
  BY <1>1, <1>6 DEF Request
<1>7. ASSUME NEW a \in Approvals, Withdraw(a) \/ ClockPasses(a) PROVE ToBeTold' /\ Within
  BY <1>1, <1>7 DEF Withdraw, ClockPasses
<1>8. ASSUME NEW task \in Tasks, NEW a \in Approvals, Expire(task, a) PROVE ToBeTold' /\ Within
  BY <1>8, ExpireWithin
<1>9. CASE Close \/ Lag
  BY <1>1, <1>9 DEF Close, Lag
<1>10. CASE Listen
  <2>1. CASE TakeRequest
    BY <2>1, TakeRequestWithin
  <2>2. CASE TakeUnsupported
    BY <2>2, TakeUnsupportedWithin
  <2>3. CASE TakeResolved
    <3>1. Cancelled({Head(queue).of}) = Cancelled({Head(queue).of} \cap Approvals)
      BY DEF Cancelled
    <3> QED BY <2>3, <3>1, WithdrawnStep DEF TakeResolved
  <2>4. CASE TakeCompleted
    BY <1>1, <2>4 DEF TakeCompleted
  <2>5. CASE ListenerCancels
    <3>1. OfTurn(ending) \in SUBSET Approvals
      BY DEF OfTurn
    <3> QED BY <2>5, <3>1, WithdrawnStep DEF ListenerCancels
  <2>6. CASE TakeClosed
    BY <2>6, WithdrawnStep DEF TakeClosed
  <2> QED BY <1>10, <2>1, <2>2, <2>3, <2>4, <2>5, <2>6 DEF Listen
<1>11. ASSUME NEW c \in Clients, NEW a \in Approvals, NEW d \in Decisions, Decide(c, a, d)
       PROVE  ToBeTold' /\ Within
  BY <1>11, DecideWithin
<1>12. ASSUME NEW task \in Tasks, Answer(task) PROVE ToBeTold' /\ Within
  <2>1. CASE WriteFails(task)
    <3>1. \A u \in Tasks : answer'[u] # None => answer'[u] = answer[u]
      BY <2>1 DEF WriteFails, IInv, Shape, TypeOK
    <3> QED BY <2>1, <3>1, Apart DEF WriteFails
  <2> QED BY <1>12, <2>1, WriteAnswerWithin, MarkWrittenWithin DEF Answer
<1>13. ASSUME NEW c \in Clients, ClientGone(c) PROVE ToBeTold' /\ Within
  <2>1. \A u \in Tasks : answer'[u] # None => answer'[u] = answer[u]
    BY <1>13 DEF ClientGone, IInv, Shape, TypeOK
  <2> QED BY <1>13, <2>1, Apart DEF ClientGone
<1>14. CASE UNCHANGED vars
  BY <1>1, <1>14 DEF vars
<1>15. Approvals \subseteq Tasks /\ Clients \subseteq Tasks
  BY DEF Tasks
<1> QED
  BY <1>2, <1>3, <1>4, <1>5, <1>6, <1>7, <1>8, <1>9, <1>10, <1>11, <1>12, <1>13, <1>14, <1>15
    DEF Next

\* Whichever tasks race for a request, it is settled once and for good, and Codex
\* is told that and nothing else: the approvals implement their contract (the
\* reducer of approval.rs under the locks of approval_manager.rs).
THEOREM KeepsContract == Spec => ContractKept
<1>1. Init => IInv /\ ToBeTold /\ Contract!Init
  <2>1. Init => IInv
    BY Starts
  <2>2. Init => ToBeTold /\ Contract!Init
    BY DEF Init, ToBeTold, Contract!Init, Verdict
  <2> QED BY <2>1, <2>2
<1>2. IInv /\ ToBeTold /\ [Next]_vars => (IInv /\ ToBeTold)' /\ Within
  BY Inductive, StepWithin
<1>3. Within <=> [Contract!Next]_(Contract!vars)
  BY DEF Within
<1> QED BY <1>1, <1>2, <1>3, PTL DEF Spec, ContractKept, Contract!Spec
=============================================================================
