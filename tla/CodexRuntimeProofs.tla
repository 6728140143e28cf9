--------------------------- MODULE CodexRuntimeProofs ---------------------------
(***************************************************************************)
(* What CodexRuntime promises, proved for any set of calls and answers,    *)
(* any settings and any number of changes and server requests.             *)
(*                                                                         *)
(* Two locks and one number carry it all.  Whoever writes holds the lock   *)
(* of stdin, and a write that stops half way closes the transport before   *)
(* it lets go.  A request number is given once, so what is under way under *)
(* the number of a registered request is the answer to it.  And whoever    *)
(* has Codex reload or run something holds the refresh lock from the look  *)
(* at the settings to the answer, so a reload that is acknowledged is the  *)
(* last one in the pipe.                                                   *)
(***************************************************************************)
EXTENDS CodexRuntime, TLAPS

\* Inside request_checked, and with a registered request.
Active == {"register", "lock", "write", "fencing", "await"}
Sending == {"lock", "write", "fencing", "await"}
Unsent == {"lock", "write"}

\* Which task may be where, with which line.
Placed ==
  /\ main = "launching" => at[Boot] = "idle"
  /\ \A t \in Tasks :
       /\ at[t] = "refresh" => t \in Gated
       /\ at[t] = "register" => line[t] # "note"
       /\ at[t] = "await" => line[t] # "note"
       /\ line[t] # "note" => t \in Callers
       /\ line[t] = "reload" => t \in Gated
       /\ at[t] \in Active /\ t \in Gated => refresh = t /\ line[t] # "note"

\* Whoever is in a write holds the lock of stdin.
HoldsStdin == \A t \in Tasks : at[t] \in {"write", "fencing"} => stdin = t

\* Half a line in the pipe means that the transport is closed and nobody writes.
HalfLineClosed ==
  (\E n \in DOMAIN pipe : ~pipe[n].whole) => closed /\ \A t \in Tasks : at[t] # "write"

\* A number is given once.
OwnNumber == \A t, u \in Tasks : id[t] = id[u] /\ id[t] # 0 => t = u

\* The table holds requests that are sent or about to be, not answered yet ...
Registered ==
  \A p \in pending :
    /\ p.id # 0 /\ p.id = id[p.task]
    /\ at[p.task] \in Sending /\ slot[p.task] = None /\ line[p.task] # "note"

\* ... and every one of them.
Waiting ==
  \A t \in Tasks : at[t] \in Sending /\ line[t] # "note" =>
    id[t] # 0 /\ (slot[t] = None => [id |-> id[t], task |-> t] \in pending)

\* Whoever closes the transport drains the table.
ClosedDrains ==
  closed => reader = "closing" \/ (\E t \in Tasks : at[t] = "fencing") \/ pending = {}

\* Under way with Codex: a request in the pipe or open, or the answer to it.
InPipe(i, t, l) == \E n \in DOMAIN pipe : pipe[n].id = i /\ pipe[n].task = t /\ pipe[n].line = l
InOpen(i, t, l) == \E q \in open : q.id = i /\ q.task = t /\ q.line = l
InOut(i, t, l) == \E n \in DOMAIN out : out[n].id = i /\ out[n].task = t /\ out[n].line = l
UnderWay(i, t, l) == l # "note" /\ (InPipe(i, t, l) \/ InOpen(i, t, l) \/ InOut(i, t, l))

\* What is under way under the number of a call belongs to it, and was sent.
AnswersKnown ==
  /\ \A n \in DOMAIN out :
       /\ out[n].kind = "response" <=> out[n].line # "note"
       /\ out[n].kind = "response" => out[n].task \in Callers
  /\ \A i \in Nat, t \in Tasks, l \in Lines : UnderWay(i, t, l) =>
       /\ i # 0 /\ i < nextId /\ t \in Callers /\ at[t] \notin {"idle", "refresh"}
       /\ \A u \in Tasks : at[u] \in Sending /\ line[u] # "note" /\ id[u] = i =>
            u = t /\ line[u] = l /\ at[u] \notin Unsent

SlotFits ==
  \A t \in Tasks : at[t] \in Sending /\ line[t] # "note" /\ slot[t] \notin {None, Lost} =>
    at[t] \notin Unsent /\ slot[t].task = t /\ slot[t].line = line[t]

\* What the holder of the refresh lock knows of the settings.
HolderKnows ==
  \A t \in Gated : at[t] \in Active =>
    IF line[t] = "reload" THEN reloading /\ generated = seen[t]
    ELSE ~reloading /\ applied = seen[t]

NoReload == \A n \in DOMAIN pipe : pipe[n].line # "reload"

\* Without a reload to come Codex uses the settings it acknowledged last.
Settled == ~reloading => NoReload /\ loaded = applied

\* A reload somebody waits for is the last one in the pipe.
LastReload ==
  \A t \in Tasks : at[t] = "await" /\ line[t] = "reload" =>
    \A m, n \in DOMAIN pipe :
      m < n /\ pipe[m].line = "reload" /\ pipe[m].id = id[t] => pipe[n].line # "reload"

\* Codex has acknowledged the reload that t waits for.
Acknowledged(t) ==
  \/ \E q \in open : q.id = id[t] /\ q.ok
  \/ \E n \in DOMAIN out : out[n].kind = "response" /\ out[n].id = id[t] /\ out[n].ok
  \/ slot[t] # None /\ slot[t].ok

AcknowledgedIsLoaded ==
  \A t \in Tasks : at[t] = "await" /\ line[t] = "reload" /\ Acknowledged(t) =>
    NoReload /\ loaded = generated

\* A call of a turn that Codex has still to read finds the settings in place.
CallsInOrder ==
  \A n \in DOMAIN pipe : pipe[n].line = "main" /\ pipe[n].task \in Gated =>
    /\ loaded = seen[pipe[n].task]
    /\ \A m \in DOMAIN pipe : m < n => pipe[m].line # "reload"

NotRunYet == \A t \in Tasks : at[t] \in {"idle", "refresh"} => ran[t] = None

IInv ==
  /\ TypeOK /\ Placed
  /\ HoldsStdin /\ HalfLineClosed /\ NothingBehindHalfALine
  /\ OwnNumber /\ Registered /\ Waiting /\ ClosedDrains
  /\ AnswersKnown /\ SlotFits
  /\ HolderKnows /\ Settled /\ LastReload /\ AcknowledgedIsLoaded /\ CallsInOrder
  /\ NotRunYet /\ RunsWithItsSettings
-----------------------------------------------------------------------------
(* Sequences, and what is under way.                                       *)

LEMMA TailFacts ==
  ASSUME NEW S, NEW s \in Seq(S), s # <<>>
  PROVE  /\ Tail(s) \in Seq(S) /\ Head(s) = s[1] /\ Head(s) \in S /\ 1 \in DOMAIN s
         /\ DOMAIN s = 1..Len(s) /\ DOMAIN Tail(s) = 1..(Len(s) - 1) /\ Len(s) \in Nat
         /\ Len(Tail(s)) = Len(s) - 1
         /\ \A n \in DOMAIN Tail(s) : n + 1 \in DOMAIN s /\ Tail(s)[n] = s[n + 1]
<1>1. /\ Len(s) \in Nat \ {0} /\ DOMAIN s = 1..Len(s) /\ Tail(s) \in Seq(S)
      /\ Len(Tail(s)) = Len(s) - 1 /\ DOMAIN Tail(s) = 1..(Len(s) - 1)
  OBVIOUS
<1>2. Head(s) = s[1] /\ Head(s) \in S
  OBVIOUS
<1>3. \A n \in 1..(Len(s) - 1) : Tail(s)[n] = s[n + 1]
  OBVIOUS
<1> QED BY <1>1, <1>2, <1>3

LEMMA AppendFacts ==
  ASSUME NEW S, NEW s \in Seq(S), NEW e \in S
  PROVE  /\ Append(s, e) \in Seq(S) /\ Len(Append(s, e)) = Len(s) + 1 /\ Len(s) \in Nat
         /\ DOMAIN s = 1..Len(s) /\ DOMAIN Append(s, e) = 1..(Len(s) + 1)
         /\ \A n \in DOMAIN s : Append(s, e)[n] = s[n]
         /\ Append(s, e)[Len(s) + 1] = e
OBVIOUS

LEMMA LostIsNotNone == Lost # None
<1>1. Lost \in Results
  BY DEF Lost, Results, Lines
<1> QED BY <1>1, NoneAssumption

\* Nothing new under way, no new request, no task back before its line.
LEMMA FewerUnderWay ==
  ASSUME AnswersKnown,
         \A n \in DOMAIN out' : /\ out'[n].kind = "response" <=> out'[n].line # "note"
                                /\ out'[n].kind = "response" => out'[n].task \in Callers,
         \A i \in Nat, t \in Tasks, l \in Lines : UnderWay(i, t, l)' => UnderWay(i, t, l),
         UNCHANGED <<nextId, id, line>>,
         \A t \in Tasks : /\ at'[t] \in {"idle", "refresh"} => at[t] \in {"idle", "refresh"}
                          /\ at'[t] \in Sending => at[t] \in Sending
                          /\ at'[t] \in Unsent => at[t] \in Unsent
  PROVE  AnswersKnown'
<1> SUFFICES ASSUME NEW i \in Nat, NEW t \in Tasks, NEW l \in Lines, UnderWay(i, t, l)'
             PROVE  /\ i # 0 /\ i < nextId /\ t \in Callers /\ at'[t] \notin {"idle", "refresh"}
                    /\ \A u \in Tasks : at'[u] \in Sending /\ line[u] # "note" /\ id[u] = i =>
                         u = t /\ line[u] = l /\ at'[u] \notin Unsent
  BY DEF AnswersKnown
<1>1. UnderWay(i, t, l)
  OBVIOUS
<1>2. /\ i # 0 /\ i < nextId /\ t \in Callers /\ at[t] \notin {"idle", "refresh"}
      /\ \A u \in Tasks : at[u] \in Sending /\ line[u] # "note" /\ id[u] = i =>
           u = t /\ line[u] = l /\ at[u] \notin Unsent
  BY <1>1 DEF AnswersKnown
<1> QED BY <1>2

-----------------------------------------------------------------------------
(* The steps of a call.                                                    *)

LEMMA BeginKeeps ==
  ASSUME IInv, NEW t \in Tasks, Begin(t)
  PROVE  IInv'
<1> USE DEF IInv, Begin, FirstPlace, supervision, requests, mcp, codex, environment
<1>1. /\ NothingBehindHalfALine' /\ OwnNumber' /\ Settled' /\ CallsInOrder'
      /\ RunsWithItsSettings'
  BY DEF NothingBehindHalfALine, OwnNumber, Settled, NoReload, CallsInOrder,
    RunsWithItsSettings
<1>2. TypeOK'
  BY DEF TypeOK, Lines, Places
<1>3. Placed'
  BY DEF TypeOK, Placed, Active, Callers
<1>4. HoldsStdin'
  BY DEF HoldsStdin
<1>5. HalfLineClosed'
  BY DEF HalfLineClosed
<1>6. Registered'
  BY DEF Registered, Sending
<1>7. Waiting'
  BY DEF TypeOK, Waiting, Sending
<1>8. ClosedDrains'
  BY DEF ClosedDrains
<1>9. AnswersKnown'
  BY DEF TypeOK, AnswersKnown, UnderWay, InPipe, InOpen, InOut, Sending
<1>10. SlotFits'
  BY DEF TypeOK, SlotFits, Sending
<1>11. HolderKnows'
  BY DEF HolderKnows, Active
<1>12. LastReload'
  BY DEF LastReload
<1>13. AcknowledgedIsLoaded'
  BY DEF AcknowledgedIsLoaded, Acknowledged, NoReload
<1>14. NotRunYet'
  BY DEF NotRunYet
<1> QED BY <1>1, <1>2, <1>3, <1>4, <1>5, <1>6, <1>7, <1>8, <1>9, <1>10, <1>11, <1>12,
  <1>13, <1>14

LEMMA PrepareKeeps ==
  ASSUME IInv, NEW t \in Tasks, Prepare(t)
  PROVE  IInv'
<1> USE DEF IInv, Prepare, NeedsReload, supervision, requests, codex, environment
<1>1. /\ NothingBehindHalfALine' /\ OwnNumber'
  BY DEF NothingBehindHalfALine, OwnNumber
<1>2. TypeOK'
  <2>1. t \in Gated /\ at' \in [Tasks -> Places] /\ seen' \in [Tasks -> Settings \cup {None}]
    BY TasksAssumption DEF TypeOK, Placed, Places
  <2>2. reloading' \in BOOLEAN /\ generated' \in Settings /\ line' \in [Tasks -> Lines]
    BY DEF TypeOK, Lines
  <2> QED BY <2>1, <2>2 DEF TypeOK
<1>3. Placed'
  BY NoneAssumption, TasksAssumption DEF TypeOK, Placed, Callers
<1>4. HoldsStdin'
  BY DEF HoldsStdin
<1>5. HalfLineClosed'
  BY DEF HalfLineClosed
<1>6. Registered'
  BY DEF TypeOK, Registered, Sending, Callers, Tasks
<1>7. Waiting'
  BY DEF TypeOK, Waiting, Sending
<1>8. ClosedDrains'
  BY DEF ClosedDrains
<1>9. AnswersKnown'
  BY DEF TypeOK, AnswersKnown, UnderWay, InPipe, InOpen, InOut, Unsent, Sending, Tasks
<1>10. SlotFits'
  BY DEF TypeOK, SlotFits, Sending
<1>11. HolderKnows'
  BY NoneAssumption, TasksAssumption DEF TypeOK, HolderKnows, Placed, Tasks
<1>12. Settled'
  BY DEF Settled, NoReload
<1>13. LastReload'
  BY DEF TypeOK, LastReload
<1>14. AcknowledgedIsLoaded'
  BY NoneAssumption DEF TypeOK, AcknowledgedIsLoaded, Placed, Active
<1>15. CallsInOrder'
  <2>1. \A n \in DOMAIN pipe : pipe[n] \in Frames
    BY DEF TypeOK
  <2>2. \A n \in DOMAIN pipe : pipe[n].line = "main" => pipe[n].task # t
    BY <2>1 DEF AnswersKnown, UnderWay, InPipe, Frames, Lines
  <2> QED BY <2>1, <2>2 DEF CallsInOrder, TypeOK, Frames
<1>16. NotRunYet'
  BY DEF NotRunYet
<1>17. RunsWithItsSettings'
  BY DEF RunsWithItsSettings, NotRunYet
<1> QED BY <1>1, <1>2, <1>3, <1>4, <1>5, <1>6, <1>7, <1>8, <1>9, <1>10, <1>11, <1>12,
  <1>13, <1>14, <1>15, <1>16, <1>17

LEMMA PrepareFailsKeeps ==
  ASSUME IInv, NEW t \in Tasks, PrepareFails(t)
  PROVE  IInv'
<1> USE DEF IInv, PrepareFails, supervision, requests, codex, environment
<1>1. /\ NothingBehindHalfALine' /\ OwnNumber' /\ CallsInOrder'
      /\ RunsWithItsSettings'
  BY DEF NothingBehindHalfALine, OwnNumber, CallsInOrder, RunsWithItsSettings
<1>2. TypeOK'
  <2>1. reloading' \in BOOLEAN
    BY Zenon DEF TypeOK, NeedsReload
  <2>2. at' \in [Tasks -> Places]
    BY DEF TypeOK, Places
  <2> QED BY <2>1, <2>2 DEF TypeOK
<1>3. Placed'
  BY DEF Placed, Active
<1>4. HoldsStdin'
  BY DEF HoldsStdin
<1>5. HalfLineClosed'
  BY DEF HalfLineClosed
<1>6. Registered'
  BY DEF Registered, Sending
<1>7. Waiting'
  BY DEF Waiting, Sending
<1>8. ClosedDrains'
  BY DEF ClosedDrains
<1>9. AnswersKnown'
  BY TasksAssumption DEF AnswersKnown, UnderWay, InPipe, InOpen, InOut, Sending
<1>10. SlotFits'
  BY DEF SlotFits, Sending
<1>11. HolderKnows'
  BY NoneAssumption, TasksAssumption DEF HolderKnows, Active, Placed, Tasks
<1>12. Settled'
  BY DEF Settled, NoReload
<1>13. LastReload'
  BY DEF LastReload
<1>14. AcknowledgedIsLoaded'
  BY DEF AcknowledgedIsLoaded, Acknowledged, NoReload
<1>15. NotRunYet'
  BY DEF NotRunYet
<1> QED BY <1>1, <1>2, <1>3, <1>4, <1>5, <1>6, <1>7, <1>8, <1>9, <1>10, <1>11, <1>12,
  <1>13, <1>14, <1>15

LEMMA RegisterKeeps ==
  ASSUME IInv, NEW t \in Tasks, Register(t)
  PROVE  IInv'
<1> USE DEF IInv, Register, NewId, supervision, mcp, codex, environment
<1>1. /\ NothingBehindHalfALine' /\ Settled' /\ CallsInOrder'
      /\ RunsWithItsSettings'
  BY DEF NothingBehindHalfALine, Settled, NoReload, CallsInOrder, RunsWithItsSettings
<1>2. TypeOK'
  BY DEF TypeOK, Places, Placed
<1>3. Placed'
  BY DEF Placed, Active
<1>4. HoldsStdin'
  BY DEF HoldsStdin
<1>5. HalfLineClosed'
  BY DEF HalfLineClosed
<1>6. OwnNumber'
  BY DEF TypeOK, OwnNumber
<1>7. Registered'
  BY DEF TypeOK, Registered, Sending, Placed
<1>8. Waiting'
  BY DEF TypeOK, Waiting
<1>9. ClosedDrains'
  BY DEF ClosedDrains
<1>10. AnswersKnown'
  BY TasksAssumption DEF TypeOK, AnswersKnown, UnderWay, InPipe, InOpen, InOut, Unsent,
    Sending, OwnNumber
<1>11. SlotFits'
  BY DEF TypeOK, SlotFits
<1>12. HolderKnows'
  BY DEF HolderKnows, Active
<1>13. LastReload'
  BY DEF LastReload
<1>14. AcknowledgedIsLoaded'
  BY DEF AcknowledgedIsLoaded, Acknowledged, NoReload
<1>15. NotRunYet'
  BY DEF NotRunYet
<1> QED BY <1>1, <1>2, <1>3, <1>4, <1>5, <1>6, <1>7, <1>8, <1>9, <1>10, <1>11, <1>12,
  <1>13, <1>14, <1>15

\* A task that leaves gives up its number and the refresh lock.
LEMMA LeavingKeeps ==
  ASSUME IInv, NEW t \in Tasks, at[t] \in {"refresh", "register", "lock", "await"},
         NEW w \in {"done", "failed"}, Leaves(t, w), 
         pending' = Unregistered(t) \/ (pending' = pending /\ \A p \in pending : p.task # t),
         UNCHANGED <<supervision, reader, closed, nextId, id, slot, stdin, applied,
                     reloading, generated, seen, line, codex, environment>>
  PROVE  IInv'
<1> USE DEF IInv, Leaves, Unregistered, supervision, codex, environment
<1>1. /\ NothingBehindHalfALine' /\ OwnNumber' /\ Settled' /\ CallsInOrder'
      /\ RunsWithItsSettings'
  BY DEF NothingBehindHalfALine, OwnNumber, Settled, NoReload, CallsInOrder,
    RunsWithItsSettings
<1>2. TypeOK'
  BY DEF TypeOK, Places
<1>3. Placed'
  BY DEF TypeOK, Placed, Active
<1>4. HoldsStdin'
  BY DEF HoldsStdin
<1>5. HalfLineClosed'
  BY DEF HalfLineClosed
<1>6. Registered'
  BY DEF Registered
<1>7. Waiting'
  BY DEF TypeOK, Waiting, Sending, OwnNumber
<1>8. ClosedDrains'
  BY DEF ClosedDrains
<1>9. AnswersKnown'
  BY DEF AnswersKnown, UnderWay, InPipe, InOpen, InOut, Sending, Callers
<1>10. SlotFits'
  BY DEF SlotFits, Sending
<1>11. HolderKnows'
  BY DEF HolderKnows, Active
<1>12. LastReload'
  BY DEF LastReload
<1>13. AcknowledgedIsLoaded'
  BY DEF AcknowledgedIsLoaded, Acknowledged, NoReload
<1>14. NotRunYet'
  BY DEF NotRunYet
<1> QED BY <1>1, <1>2, <1>3, <1>4, <1>5, <1>6, <1>7, <1>8, <1>9, <1>10, <1>11, <1>12,
  <1>13, <1>14

LEMMA TakeStdinKeeps ==
  ASSUME IInv, NEW t \in Tasks, TakeStdin(t)
  PROVE  IInv'
<1> USE DEF IInv, TakeStdin, supervision, requests, mcp, codex, environment
<1>1. /\ NothingBehindHalfALine' /\ OwnNumber' /\ Settled' /\ CallsInOrder'
      /\ RunsWithItsSettings'
  BY DEF NothingBehindHalfALine, OwnNumber, Settled, NoReload, CallsInOrder,
    RunsWithItsSettings
<1>2. TypeOK'
  BY DEF TypeOK, Places
<1>3. Placed'
  BY DEF Placed, Active
<1>4. HoldsStdin'
  BY NoneAssumption DEF HoldsStdin
<1>5. HalfLineClosed'
  BY DEF HalfLineClosed
<1>6. Registered'
  BY DEF Registered, Sending
<1>7. Waiting'
  BY DEF Waiting, Sending
<1>8. ClosedDrains'
  BY DEF ClosedDrains
<1>9. AnswersKnown'
  BY DEF AnswersKnown, UnderWay, InPipe, InOpen, InOut, Unsent, Sending
<1>10. SlotFits'
  BY DEF SlotFits, Sending, Unsent
<1>11. HolderKnows'
  BY DEF HolderKnows, Active
<1>12. LastReload'
  BY DEF LastReload
<1>13. AcknowledgedIsLoaded'
  BY DEF AcknowledgedIsLoaded, Acknowledged, NoReload
<1>14. NotRunYet'
  BY DEF NotRunYet
<1> QED BY <1>1, <1>2, <1>3, <1>4, <1>5, <1>6, <1>7, <1>8, <1>9, <1>10, <1>11, <1>12,
  <1>13, <1>14

LEMMA FenceDrainsKeeps ==
  ASSUME IInv, NEW t \in Tasks, FenceDrains(t)
  PROVE  IInv'
<1> USE DEF IInv, FenceDrains, Drained, Leaves, supervision, codex, environment
<1>1. /\ NothingBehindHalfALine' /\ OwnNumber' /\ Settled' /\ CallsInOrder'
      /\ RunsWithItsSettings'
  BY DEF NothingBehindHalfALine, OwnNumber, Settled, NoReload, CallsInOrder,
    RunsWithItsSettings
<1>2. TypeOK'
  BY DEF TypeOK, Results, Lines, Places, Lost
<1>3. Placed'
  BY DEF TypeOK, Placed, Active
<1>4. HoldsStdin'
  BY DEF TypeOK, HoldsStdin
<1>5. HalfLineClosed'
  BY DEF HalfLineClosed
<1>6. Registered'
  BY DEF Registered
<1>7. Waiting'
  <2>1. \A u \in Tasks : slot'[u] = None => \A p \in pending : p.task # u
    BY LostIsNotNone DEF TypeOK
  <2>2. \A u \in Tasks : slot'[u] = None => slot[u] = None
    BY <2>1 DEF TypeOK
  <2>3. \A u \in Tasks : at'[u] \in Sending => u # t /\ at[u] \in Sending
    BY DEF TypeOK, Sending
  <2> QED BY <2>1, <2>2, <2>3 DEF Waiting
<1>8. ClosedDrains'
  BY DEF ClosedDrains
<1>9. AnswersKnown'
  BY TasksAssumption DEF AnswersKnown, UnderWay, InPipe, InOpen, InOut, Sending
<1>10. SlotFits'
  BY DEF SlotFits, Sending
<1>11. HolderKnows'
  BY DEF HolderKnows, Active
<1>12. LastReload'
  BY DEF LastReload
<1>13. AcknowledgedIsLoaded'
  BY DEF AcknowledgedIsLoaded, Acknowledged, NoReload, Lost
<1>14. NotRunYet'
  BY DEF NotRunYet
<1> QED BY <1>1, <1>2, <1>3, <1>4, <1>5, <1>6, <1>7, <1>8, <1>9, <1>10, <1>11, <1>12,
  <1>13, <1>14

LEMMA ReloadedKeeps ==
  ASSUME IInv, NEW t \in Tasks, Reloaded(t)
  PROVE  IInv'
<1> USE DEF IInv, Reloaded, AfterReload, supervision, requests, codex, environment
<1>1. /\ NothingBehindHalfALine' /\ OwnNumber' /\ CallsInOrder'
      /\ RunsWithItsSettings'
  BY DEF NothingBehindHalfALine, OwnNumber, CallsInOrder, RunsWithItsSettings
<1>2. TypeOK'
  <2>1. line' \in [Tasks -> Lines] /\ at' \in [Tasks -> Places]
    BY DEF TypeOK, Lines, Places
  <2>2. applied' \in Settings /\ reloading' \in BOOLEAN
    BY DEF TypeOK, HolderKnows, Placed, Active
  <2> QED BY <2>1, <2>2 DEF TypeOK
<1>3. Placed'
  BY DEF Placed, Active
<1>4. HoldsStdin'
  BY DEF HoldsStdin
<1>5. HalfLineClosed'
  BY DEF HalfLineClosed
<1>6. Registered'
  BY DEF Registered
<1>7. Waiting'
  BY DEF Waiting, Sending
<1>8. ClosedDrains'
  BY DEF ClosedDrains
<1>9. AnswersKnown'
  BY NoneAssumption, TasksAssumption DEF TypeOK, AnswersKnown, UnderWay, InPipe, InOpen,
    InOut, Sending, Callers
<1>10. SlotFits'
  BY DEF TypeOK, SlotFits, Sending
<1>11. HolderKnows'
  BY TasksAssumption DEF TypeOK, HolderKnows, Active, Placed, Tasks
<1>12. Settled'
  BY DEF Settled, NoReload, AcknowledgedIsLoaded, Acknowledged, HolderKnows, Active,
    Placed
<1>13. LastReload'
  BY DEF LastReload
<1>14. AcknowledgedIsLoaded'
  BY DEF AcknowledgedIsLoaded, Acknowledged, NoReload
<1>15. NotRunYet'
  BY DEF NotRunYet
<1> QED BY <1>1, <1>2, <1>3, <1>4, <1>5, <1>6, <1>7, <1>8, <1>9, <1>10, <1>11, <1>12,
  <1>13, <1>14, <1>15

LEMMA BootAnsweredKeeps ==
  ASSUME IInv, Answered(Boot)
  PROVE  IInv'
<1> USE DEF IInv, Answered, Leaves, supervision, requests, codex, environment
<1>1. /\ NothingBehindHalfALine' /\ OwnNumber' /\ Settled' /\ CallsInOrder'
      /\ RunsWithItsSettings'
  BY DEF NothingBehindHalfALine, OwnNumber, Settled, NoReload, CallsInOrder,
    RunsWithItsSettings
<1>2. TypeOK'
  BY DEF TypeOK, Lines, Places, Tasks
<1>3. Placed'
  BY TasksAssumption DEF TypeOK, Placed
<1>4. HoldsStdin'
  BY DEF TypeOK, HoldsStdin
<1>5. HalfLineClosed'
  BY DEF TypeOK, HalfLineClosed
<1>6. Registered'
  BY DEF TypeOK, Registered, Callers, Tasks
<1>7. Waiting'
  BY DEF TypeOK, Waiting
<1>8. ClosedDrains'
  BY DEF TypeOK, ClosedDrains
<1>9. AnswersKnown'
  <2>1. \A t \in Tasks :
          /\ at'[t] \in {"idle", "refresh"} => at[t] \in {"idle", "refresh"}
          /\ at'[t] \in Sending /\ line'[t] # "note" => at'[t] = at[t] /\ line'[t] = line[t]
    BY DEF TypeOK
  <2>2. \A i \in Nat, t \in Tasks, l \in Lines : UnderWay(i, t, l)' <=> UnderWay(i, t, l)
    BY DEF UnderWay, InPipe, InOpen, InOut
  <2> QED BY <2>1, <2>2 DEF AnswersKnown
<1>10. SlotFits'
  BY DEF TypeOK, SlotFits, Sending
<1>11. HolderKnows'
  BY TasksAssumption DEF TypeOK, HolderKnows, Tasks
<1>12. LastReload'
  BY DEF TypeOK, LastReload, Tasks
<1>13. AcknowledgedIsLoaded'
  BY DEF TypeOK, AcknowledgedIsLoaded, Acknowledged, NoReload
<1>14. NotRunYet'
  BY DEF TypeOK, NotRunYet
<1> QED BY <1>1, <1>2, <1>3, <1>4, <1>5, <1>6, <1>7, <1>8, <1>9, <1>10, <1>11, <1>12,
  <1>13, <1>14

-----------------------------------------------------------------------------
(* The settings, main and the monitor.                                     *)

LEMMA EditKeeps ==
  ASSUME IInv, NEW s \in Settings, EditSettings(s)
  PROVE  IInv'
<1> USE DEF IInv, EditSettings, supervision, requests, mcp, codex
<1>1. /\ Placed' /\ HoldsStdin' /\ HalfLineClosed' /\ NothingBehindHalfALine'
      /\ OwnNumber' /\ Registered' /\ Waiting' /\ ClosedDrains' /\ AnswersKnown'
      /\ SlotFits' /\ HolderKnows' /\ Settled' /\ LastReload'
      /\ AcknowledgedIsLoaded' /\ CallsInOrder' /\ NotRunYet'
      /\ RunsWithItsSettings'
  BY DEF Placed, Active, HoldsStdin, HalfLineClosed, NothingBehindHalfALine, OwnNumber,
    Registered, Sending, Waiting, Sending, ClosedDrains, AnswersKnown, UnderWay,
    InPipe, InOpen, InOut, Unsent, Sending, SlotFits, Sending, Unsent, Lost,
    HolderKnows, Active, Settled, NoReload, LastReload, AcknowledgedIsLoaded,
    Acknowledged, NoReload, CallsInOrder, NotRunYet, RunsWithItsSettings
<1>2. TypeOK'
  BY BoundsAssumption, NoneAssumption, TasksAssumption DEF TypeOK, Results, Lines,
    Places, States, Placed, Active, Callers, Tasks
<1> QED BY <1>1, <1>2

\* What main and the monitor do beside the launch, the kill and the exit.
LEMMA SupervisionKeeps ==
  ASSUME IInv, state' \in States, child' \in BOOLEAN, monitor' \in {"polling", "exited", "over"},
         main' \in {"unlaunched", "serving", "killing", "draining"} \/ main' = main,
         UNCHANGED <<at, line, codex, Unsupervised>>
  PROVE  IInv'
<1> USE DEF IInv, Unsupervised, requests, mcp, codex, environment
<1>1. /\ HoldsStdin' /\ HalfLineClosed' /\ NothingBehindHalfALine' /\ OwnNumber'
      /\ Registered' /\ Waiting' /\ ClosedDrains' /\ AnswersKnown' /\ SlotFits'
      /\ HolderKnows' /\ Settled' /\ LastReload' /\ AcknowledgedIsLoaded'
      /\ CallsInOrder' /\ NotRunYet' /\ RunsWithItsSettings'
  BY DEF HoldsStdin, HalfLineClosed, NothingBehindHalfALine, OwnNumber, Registered,
    Sending, Waiting, Sending, ClosedDrains, AnswersKnown, UnderWay, InPipe, InOpen,
    InOut, Unsent, Sending, SlotFits, Sending, Unsent, Lost, HolderKnows, Active,
    Settled, NoReload, LastReload, AcknowledgedIsLoaded, Acknowledged, NoReload,
    CallsInOrder, NotRunYet, RunsWithItsSettings
<1>2. TypeOK'
  BY DEF TypeOK
<1>3. Placed'
  BY DEF Placed
<1> QED BY <1>1, <1>2, <1>3

LEMMA BeginInitializeKeeps ==
  ASSUME IInv, BeginInitialize
  PROVE  IInv'
<1> USE DEF IInv, BeginInitialize, Unsupervised, requests, mcp, codex, environment
<1>1. /\ NothingBehindHalfALine' /\ OwnNumber' /\ Settled' /\ CallsInOrder'
      /\ RunsWithItsSettings'
  BY DEF NothingBehindHalfALine, OwnNumber, Settled, NoReload, CallsInOrder,
    RunsWithItsSettings
<1>2. TypeOK'
  BY DEF TypeOK, Lines, Places, States
<1>3. Placed'
  BY TasksAssumption DEF TypeOK, Placed, Callers
<1>4. HoldsStdin'
  BY DEF HoldsStdin
<1>5. HalfLineClosed'
  BY DEF HalfLineClosed
<1>6. Registered'
  BY DEF Registered, Sending, Placed
<1>7. Waiting'
  BY DEF TypeOK, Waiting, Sending
<1>8. ClosedDrains'
  BY DEF ClosedDrains, Placed
<1>9. AnswersKnown'
  BY DEF TypeOK, AnswersKnown, UnderWay, InPipe, InOpen, InOut, Sending
<1>10. SlotFits'
  BY DEF TypeOK, SlotFits, Sending
<1>11. HolderKnows'
  BY TasksAssumption DEF HolderKnows
<1>12. LastReload'
  BY DEF LastReload
<1>13. AcknowledgedIsLoaded'
  BY DEF AcknowledgedIsLoaded, Acknowledged, NoReload
<1>14. NotRunYet'
  BY DEF NotRunYet
<1> QED BY <1>1, <1>2, <1>3, <1>4, <1>5, <1>6, <1>7, <1>8, <1>9, <1>10, <1>11, <1>12,
  <1>13, <1>14

-----------------------------------------------------------------------------
(* The end of Codex, and of its reader.                                    *)

LEMMA KillKeeps ==
  ASSUME IInv, Kill
  PROVE  IInv'
<1> USE DEF IInv, Kill, Dies, Unsupervised, requests, mcp, environment
<1>1. /\ HoldsStdin' /\ OwnNumber' /\ Registered' /\ Waiting' /\ ClosedDrains'
      /\ SlotFits' /\ HolderKnows' /\ NotRunYet' /\ RunsWithItsSettings'
  BY DEF HoldsStdin, OwnNumber, Registered, Sending, Waiting, Sending, ClosedDrains,
    SlotFits, Sending, Unsent, Lost, HolderKnows, Active, NotRunYet,
    RunsWithItsSettings
<1>2. TypeOK'
  <2>0. <<>> \in Seq(Frames)
    OBVIOUS
  <2>1. pipe' \in Seq(Frames) /\ open' \subseteq Requests /\ process' \in BOOLEAN
    BY <2>0 DEF TypeOK
  <2> QED BY <2>1 DEF TypeOK
<1>3. Placed'
  BY DEF Placed
<1>4. HalfLineClosed'
  BY DEF HalfLineClosed
<1>5. NothingBehindHalfALine'
  BY DEF NothingBehindHalfALine
<1>6. AnswersKnown'
  <2>1. \A i \in Nat, t \in Tasks, l \in Lines : UnderWay(i, t, l)' => UnderWay(i, t, l)
    BY DEF UnderWay, InPipe, InOpen, InOut
  <2> QED BY <2>1, FewerUnderWay DEF AnswersKnown
<1>7. Settled'
  BY DEF Settled, NoReload
<1>8. LastReload'
  BY DEF LastReload
<1>9. AcknowledgedIsLoaded'
  BY DEF AcknowledgedIsLoaded, Acknowledged, NoReload
<1>10. CallsInOrder'
  BY DEF CallsInOrder
<1> QED BY <1>1, <1>2, <1>3, <1>4, <1>5, <1>6, <1>7, <1>8, <1>9, <1>10

LEMMA CodexExitsKeeps ==
  ASSUME IInv, CodexExits
  PROVE  IInv'
<1> USE DEF IInv, CodexExits, Dies, supervision, requests, mcp, environment
<1>1. /\ Placed' /\ HoldsStdin' /\ OwnNumber' /\ Registered' /\ Waiting'
      /\ ClosedDrains' /\ SlotFits' /\ HolderKnows' /\ NotRunYet'
      /\ RunsWithItsSettings'
  BY DEF Placed, Active, HoldsStdin, OwnNumber, Registered, Sending, Waiting, Sending,
    ClosedDrains, SlotFits, Sending, Unsent, Lost, HolderKnows, Active, NotRunYet,
    RunsWithItsSettings
<1>2. TypeOK'
  <2>0. <<>> \in Seq(Frames)
    OBVIOUS
  <2>1. pipe' \in Seq(Frames) /\ open' \subseteq Requests /\ process' \in BOOLEAN
    BY <2>0 DEF TypeOK
  <2> QED BY <2>1 DEF TypeOK
<1>3. HalfLineClosed'
  BY DEF HalfLineClosed
<1>4. NothingBehindHalfALine'
  BY DEF NothingBehindHalfALine
<1>5. AnswersKnown'
  <2>1. \A i \in Nat, t \in Tasks, l \in Lines : UnderWay(i, t, l)' => UnderWay(i, t, l)
    BY DEF UnderWay, InPipe, InOpen, InOut
  <2> QED BY <2>1, FewerUnderWay DEF AnswersKnown
<1>6. Settled'
  BY DEF Settled, NoReload
<1>7. LastReload'
  BY DEF LastReload
<1>8. AcknowledgedIsLoaded'
  BY DEF AcknowledgedIsLoaded, Acknowledged, NoReload
<1>9. CallsInOrder'
  BY DEF CallsInOrder
<1> QED BY <1>1, <1>2, <1>3, <1>4, <1>5, <1>6, <1>7, <1>8, <1>9

LEMMA ExitKeeps ==
  ASSUME IInv, Exit
  PROVE  IInv'
<1> USE DEF IInv, Exit, codex, environment
<1>1. /\ NothingBehindHalfALine' /\ OwnNumber' /\ Settled' /\ CallsInOrder'
      /\ RunsWithItsSettings'
  BY DEF NothingBehindHalfALine, OwnNumber, Settled, NoReload, CallsInOrder,
    RunsWithItsSettings
<1>2. TypeOK'
  BY DEF TypeOK, Places
<1>3. Placed'
  BY DEF Placed, Active
<1>4. HoldsStdin'
  BY DEF HoldsStdin
<1>5. HalfLineClosed'
  BY DEF HalfLineClosed
<1>6. Registered'
  BY DEF Registered
<1>7. Waiting'
  BY DEF Waiting, Sending
<1>8. ClosedDrains'
  BY DEF ClosedDrains
<1>9. AnswersKnown'
  BY TasksAssumption DEF AnswersKnown, UnderWay, InPipe, InOpen, InOut, Sending, Placed
<1>10. SlotFits'
  BY DEF SlotFits, Sending
<1>11. HolderKnows'
  BY TasksAssumption DEF HolderKnows, Active, Tasks
<1>12. LastReload'
  BY DEF LastReload
<1>13. AcknowledgedIsLoaded'
  BY DEF AcknowledgedIsLoaded
<1>14. NotRunYet'
  BY DEF NotRunYet
<1> QED BY <1>1, <1>2, <1>3, <1>4, <1>5, <1>6, <1>7, <1>8, <1>9, <1>10, <1>11, <1>12,
  <1>13, <1>14

LEMMA ReaderEndsKeeps ==
  ASSUME IInv, ReaderEnds
  PROVE  IInv'
<1> USE DEF IInv, ReaderEnds, supervision, requests, mcp, codex, environment
<1>1. /\ Placed' /\ HoldsStdin' /\ NothingBehindHalfALine' /\ OwnNumber'
      /\ Registered' /\ Waiting' /\ AnswersKnown' /\ SlotFits' /\ HolderKnows'
      /\ Settled' /\ LastReload' /\ AcknowledgedIsLoaded' /\ CallsInOrder'
      /\ NotRunYet' /\ RunsWithItsSettings'
  BY DEF Placed, Active, HoldsStdin, NothingBehindHalfALine, OwnNumber, Registered,
    Sending, Waiting, Sending, AnswersKnown, UnderWay, InPipe, InOpen, InOut, Unsent,
    Sending, SlotFits, Sending, Unsent, Lost, HolderKnows, Active, Settled, NoReload,
    LastReload, AcknowledgedIsLoaded, Acknowledged, NoReload, CallsInOrder, NotRunYet,
    RunsWithItsSettings
<1>2. TypeOK'
  BY DEF TypeOK
<1>3. HalfLineClosed'
  BY DEF HalfLineClosed
<1>4. ClosedDrains'
  BY DEF ClosedDrains
<1> QED BY <1>1, <1>2, <1>3, <1>4

LEMMA ReaderDrainsKeeps ==
  ASSUME IInv, ReaderDrains
  PROVE  IInv'
<1> USE DEF IInv, ReaderDrains, Drained, supervision, mcp, codex, environment
<1>1. /\ Placed' /\ HoldsStdin' /\ HalfLineClosed' /\ NothingBehindHalfALine'
      /\ OwnNumber' /\ HolderKnows' /\ Settled' /\ LastReload' /\ CallsInOrder'
      /\ NotRunYet' /\ RunsWithItsSettings'
  BY DEF Placed, Active, HoldsStdin, HalfLineClosed, NothingBehindHalfALine, OwnNumber,
    HolderKnows, Active, Settled, NoReload, LastReload, CallsInOrder, NotRunYet,
    RunsWithItsSettings
<1>2. TypeOK'
  BY DEF TypeOK, Results, Lines, Lost
<1>3. Registered'
  BY DEF Registered
<1>4. Waiting'
  <2>2. \A u \in Tasks : slot'[u] = None => slot[u] = None /\ \A p \in pending : p.task # u
    BY LostIsNotNone DEF TypeOK
  <2> QED BY <2>2 DEF Waiting
<1>5. ClosedDrains'
  BY DEF ClosedDrains
<1>6. AnswersKnown'
  BY DEF AnswersKnown, UnderWay, InPipe, InOpen, InOut
<1>7. SlotFits'
  BY DEF SlotFits
<1>8. AcknowledgedIsLoaded'
  BY DEF AcknowledgedIsLoaded, Acknowledged, NoReload, Lost
<1> QED BY <1>1, <1>2, <1>3, <1>4, <1>5, <1>6, <1>7, <1>8

-----------------------------------------------------------------------------
(* Writing a line.                                                         *)

\* The line that t puts into the pipe, whole or not, keeps what is known of
\* the answers and of the reloads.
LEMMA WrittenLine ==
  ASSUME IInv, NEW t \in Tasks, at[t] = "write", NEW whole \in BOOLEAN,
         pipe' = Append(pipe, Frame(t, whole)),
         NEW w \in {"fencing", "await", "done"}, at' = [at EXCEPT ![t] = w],
         UNCHANGED <<open, out, nextId, pending, line, id, slot, refresh, reloading, generated,
                     applied, seen, loaded>>
  PROVE  /\ pipe' \in Seq(Frames) /\ Len(pipe) \in Nat /\ DOMAIN pipe = 1..Len(pipe)
         /\ DOMAIN pipe' = 1..(Len(pipe) + 1) /\ Len(pipe') = Len(pipe) + 1
         /\ \A n \in DOMAIN pipe : pipe'[n] = pipe[n]
         /\ pipe'[Len(pipe) + 1] = Frame(t, whole)
         /\ AnswersKnown' /\ Settled' /\ LastReload' /\ AcknowledgedIsLoaded' /\ CallsInOrder'
<1> USE DEF IInv
<1> DEFINE last == Len(pipe) + 1
<1>1. Frame(t, whole) \in Frames
  BY DEF Frame, Frames, TypeOK
<1>2. /\ pipe' \in Seq(Frames) /\ Len(pipe) \in Nat /\ DOMAIN pipe = 1..Len(pipe)
      /\ DOMAIN pipe' = 1..last /\ Len(pipe') = last
      /\ \A n \in DOMAIN pipe : pipe'[n] = pipe[n]
      /\ pipe'[last] = Frame(t, whole)
  BY <1>1, AppendFacts DEF TypeOK
<1>3. /\ \A n \in DOMAIN pipe' : n = last \/ (n \in DOMAIN pipe /\ pipe'[n] = pipe[n] /\ n < last)
      /\ pipe'[last].id = id[t] /\ pipe'[last].task = t /\ pipe'[last].line = line[t]
  BY <1>2 DEF Frame
<1> HIDE DEF last
<1>4. \A u \in Tasks : at'[u] \in Unsent => u # t /\ at[u] \in Unsent
  BY DEF TypeOK, Unsent
<1>5. AnswersKnown'
  <2>1. ASSUME NEW i \in Nat, NEW u \in Tasks, NEW l \in Lines, UnderWay(i, u, l)'
        PROVE  UnderWay(i, u, l) \/ (i = id[t] /\ u = t /\ l = line[t] /\ line[t] # "note")
    BY <2>1, <1>3 DEF UnderWay, InPipe, InOpen, InOut
  <2>2. line[t] # "note" => id[t] # 0 /\ id[t] < nextId /\ t \in Callers
    BY DEF Waiting, Sending, TypeOK, Placed
  <2>3. \A u \in Tasks : /\ at'[u] \in {"idle", "refresh"} => at[u] \in {"idle", "refresh"}
                         /\ at'[u] \in Sending => at[u] \in Sending
    BY DEF TypeOK, Sending
  <2>4. \A u \in Tasks : line[t] # "note" /\ id[u] = id[t] => u = t
    BY <2>2 DEF OwnNumber
  <2>5. at'[t] \notin Unsent /\ at'[t] \notin {"idle", "refresh"}
    BY DEF TypeOK, Unsent
  <2> SUFFICES ASSUME NEW i \in Nat, NEW u \in Tasks, NEW l \in Lines, UnderWay(i, u, l)'
               PROVE  /\ i # 0 /\ i < nextId /\ u \in Callers /\ at'[u] \notin {"idle", "refresh"}
                      /\ \A v \in Tasks : at'[v] \in Sending /\ line[v] # "note" /\ id[v] = i =>
                           v = u /\ line[v] = l /\ at'[v] \notin Unsent
    <3>1. \A n \in DOMAIN out : /\ out[n].kind = "response" <=> out[n].line # "note"
                                /\ out[n].kind = "response" => out[n].task \in Callers
      BY DEF AnswersKnown
    <3> QED BY <3>1 DEF AnswersKnown
  <2>6. CASE UnderWay(i, u, l)
    <3>1. /\ i # 0 /\ i < nextId /\ u \in Callers /\ at[u] \notin {"idle", "refresh"}
          /\ \A v \in Tasks : at[v] \in Sending /\ line[v] # "note" /\ id[v] = i =>
               v = u /\ line[v] = l /\ at[v] \notin Unsent
      BY <2>6 DEF AnswersKnown
    <3> QED BY <3>1, <2>3, <1>4
  <2>7. CASE i = id[t] /\ u = t /\ l = line[t] /\ line[t] # "note"
    BY <2>7, <2>2, <2>4, <2>5
  <2> QED BY <2>1, <2>6, <2>7
<1>6. line[t] = "reload" => /\ reloading
                            /\ \A u \in Tasks : at[u] \in Active /\ line[u] = "reload" => u = t
  BY DEF Placed, HolderKnows, Active
<1>7. Settled'
  BY <1>3, <1>6 DEF Settled, NoReload, TypeOK
<1>8. \A i \in Nat, l \in Lines : l # "note" /\ line[t] # "note" /\ i = id[t] =>
        (\A u \in Tasks : ~InOpen(i, u, l) /\ ~InOut(i, u, l) /\ ~InPipe(i, u, l))
  BY DEF AnswersKnown, UnderWay, Unsent, Sending
<1>9. LastReload'
  <2> SUFFICES ASSUME NEW u \in Tasks, at'[u] = "await", line[u] = "reload",
                      NEW m \in DOMAIN pipe', NEW n \in DOMAIN pipe', m < n,
                      pipe'[m].line = "reload", pipe'[m].id = id[u]
               PROVE  pipe'[n].line # "reload"
    BY DEF LastReload
  <2>1. m \in DOMAIN pipe /\ pipe'[m] = pipe[m]
    BY <1>2, <1>3 DEF last
  <2>2. CASE u = t
    <3>0. pipe[m] \in Frames /\ id[t] \in Nat
      BY <2>1 DEF TypeOK
    <3>1. InPipe(id[t], pipe[m].task, "reload") /\ pipe[m].task \in Tasks /\ id[t] \in Nat
      BY <2>1, <2>2, <3>0 DEF InPipe, Frames
    <3> QED BY <3>1, <1>8, <2>2 DEF Lines
  <2>3. CASE u # t
    <3>1. at[u] = "await"
      BY <2>3 DEF TypeOK
    <3>2. CASE n = last
      BY <1>3, <1>6, <2>3, <3>1, <3>2 DEF Active
    <3>3. CASE n # last
      BY <1>3, <2>1, <3>1, <3>3 DEF LastReload
    <3> QED BY <3>2, <3>3
  <2> QED BY <2>2, <2>3
<1>10. AcknowledgedIsLoaded'
  <2> SUFFICES ASSUME NEW u \in Tasks, at'[u] = "await", line[u] = "reload", Acknowledged(u)'
               PROVE  NoReload' /\ loaded = generated
    BY DEF AcknowledgedIsLoaded
  <2>0. Acknowledged(u)
    BY DEF Acknowledged
  <2>1. CASE u = t
    <3>1. slot[t] \in {None, Lost}
      BY <2>1 DEF SlotFits, Sending, Unsent
    <3>2. ~(slot[t] # None /\ slot[t].ok)
      BY <3>1 DEF Lost
    <3>3. \A q \in open : q.id = id[t] => InOpen(id[t], q.task, q.line) /\ q.task \in Tasks
                                         /\ q.line \in Lines /\ q.line # "note"
      BY DEF InOpen, TypeOK, Requests, Lines, Callers, Tasks
    <3>4. \A n \in DOMAIN out : out[n] \in Messages
      BY DEF TypeOK
    <3>5. \A n \in DOMAIN out : out[n].kind = "response" /\ out[n].id = id[t] =>
            out[n].line # "note" /\ InOut(id[t], out[n].task, out[n].line) /\ out[n].line \in Lines
      BY <3>4 DEF InOut, AnswersKnown, Messages
    <3>6. \A n \in DOMAIN out : out[n].kind = "response" => out[n].task \in Tasks
      BY DEF AnswersKnown, Callers, Tasks
    <3> QED BY <2>0, <2>1, <3>2, <3>3, <3>5, <3>6, <1>8 DEF Acknowledged, TypeOK
  <2>2. CASE u # t
    <3>1. at[u] = "await"
      BY <2>2 DEF TypeOK
    <3>2. NoReload /\ loaded = generated
      BY <2>0, <3>1 DEF AcknowledgedIsLoaded
    <3>3. line[t] # "reload"
      BY <1>6, <2>2, <3>1 DEF Active
    <3> QED BY <3>2, <3>3, <1>3 DEF NoReload
  <2> QED BY <2>1, <2>2
<1>11. CallsInOrder'
  <2>1. line[t] = "main" /\ t \in Gated => NoReload /\ loaded = seen[t]
    BY DEF HolderKnows, Settled, Active, TypeOK
  <2> QED BY <2>1, <1>2, <1>3 DEF CallsInOrder, NoReload
<1> QED BY <1>2, <1>5, <1>7, <1>9, <1>10, <1>11 DEF last

LEMMA WriteKeeps ==
  ASSUME IInv, NEW t \in Tasks, Write(t)
  PROVE  IInv'
<1> USE DEF IInv, Write, supervision, requests, mcp, environment
<1>a. /\ pipe' \in Seq(Frames) /\ Len(pipe) \in Nat /\ DOMAIN pipe = 1..Len(pipe)
      /\ DOMAIN pipe' = 1..(Len(pipe) + 1) /\ Len(pipe') = Len(pipe) + 1
      /\ \A n \in DOMAIN pipe : pipe'[n] = pipe[n]
      /\ pipe'[Len(pipe) + 1] = Frame(t, TRUE)
      /\ AnswersKnown' /\ Settled' /\ LastReload' /\ AcknowledgedIsLoaded' /\ CallsInOrder'
  BY WrittenLine
<1>1. /\ OwnNumber' /\ RunsWithItsSettings'
  BY DEF OwnNumber, RunsWithItsSettings
<1>2. TypeOK'
  <2>1. at' \in [Tasks -> Places]
    BY DEF TypeOK, Places
  <2>2. closed' \in BOOLEAN /\ stdin' \in Tasks \cup {None}
    BY DEF TypeOK
  <2> QED BY <2>1, <2>2, <1>a DEF TypeOK
<1>3. Placed'
  BY DEF Placed, Active
<1>4. HoldsStdin'
  BY DEF TypeOK, HoldsStdin
<1>5. HalfLineClosed'
  BY <1>a DEF HalfLineClosed, HoldsStdin, TypeOK, Frame
<1>6. NothingBehindHalfALine'
  <2>1. \A n \in DOMAIN pipe : pipe[n].whole
    BY DEF HalfLineClosed
  <2>2. \A n \in DOMAIN pipe' : n \in DOMAIN pipe \/ n = Len(pipe) + 1
    BY <1>a
  <2> QED BY <1>a, <2>1, <2>2 DEF NothingBehindHalfALine
<1>7. Registered'
  BY DEF Registered, Sending
<1>8. Waiting'
  BY DEF Waiting, Sending
<1>9. ClosedDrains'
  BY DEF ClosedDrains
<1>10. AnswersKnown'
  BY <1>a
<1>11. SlotFits'
  BY DEF SlotFits, Sending, Unsent
<1>12. HolderKnows'
  BY DEF HolderKnows, Active
<1>13. Settled'
  BY <1>a
<1>14. LastReload'
  BY <1>a
<1>15. AcknowledgedIsLoaded'
  BY <1>a
<1>16. CallsInOrder'
  BY <1>a
<1>17. NotRunYet'
  BY DEF NotRunYet
<1> QED BY <1>1, <1>2, <1>3, <1>4, <1>5, <1>6, <1>7, <1>8, <1>9, <1>10, <1>11, <1>12,
  <1>13, <1>14, <1>15, <1>16, <1>17

\* The guard closes the transport; nothing of the line may be left in the pipe ...
LEMMA FenceKeeps ==
  ASSUME IInv, NEW t \in Tasks, Fence(t), UNCHANGED pipe
  PROVE  IInv'
<1> USE DEF IInv, Fence, supervision, requests, mcp, environment
<1>1. /\ NothingBehindHalfALine' /\ OwnNumber' /\ Settled' /\ CallsInOrder'
      /\ RunsWithItsSettings'
  BY DEF NothingBehindHalfALine, OwnNumber, Settled, NoReload, CallsInOrder,
    RunsWithItsSettings
<1>2. TypeOK'
  BY DEF TypeOK, Places
<1>3. Placed'
  BY DEF Placed, Active
<1>4. HoldsStdin'
  BY DEF HoldsStdin
<1>5. HalfLineClosed'
  BY DEF HalfLineClosed
<1>6. Registered'
  BY DEF Registered, Sending
<1>7. Waiting'
  BY DEF Waiting, Sending
<1>8. ClosedDrains'
  BY DEF TypeOK, ClosedDrains
<1>9. AnswersKnown'
  <2>1. \A i \in Nat, u \in Tasks, l \in Lines : UnderWay(i, u, l)' => UnderWay(i, u, l)
    BY DEF UnderWay, InPipe, InOpen, InOut
  <2>2. \A u \in Tasks : /\ at'[u] \in {"idle", "refresh"} => at[u] \in {"idle", "refresh"}
                         /\ at'[u] \in Sending => at[u] \in Sending
                         /\ at'[u] \in Unsent => at[u] \in Unsent
    BY DEF TypeOK, Unsent, Sending
  <2> QED BY <2>1, <2>2, FewerUnderWay DEF AnswersKnown
<1>10. SlotFits'
  BY DEF SlotFits, Sending, Unsent
<1>11. HolderKnows'
  BY DEF HolderKnows, Active
<1>12. LastReload'
  BY DEF LastReload
<1>13. AcknowledgedIsLoaded'
  BY DEF AcknowledgedIsLoaded, Acknowledged, NoReload
<1>14. NotRunYet'
  BY DEF NotRunYet
<1> QED BY <1>1, <1>2, <1>3, <1>4, <1>5, <1>6, <1>7, <1>8, <1>9, <1>10, <1>11, <1>12,
  <1>13, <1>14

\* ... or half of it.
LEMMA HalfLineKeeps ==
  ASSUME IInv, NEW t \in Tasks, Fence(t), pipe' = Append(pipe, Frame(t, FALSE))
  PROVE  IInv'
<1> USE DEF IInv, Fence, supervision, requests, mcp, environment
<1>a. /\ pipe' \in Seq(Frames) /\ Len(pipe) \in Nat /\ DOMAIN pipe = 1..Len(pipe)
      /\ DOMAIN pipe' = 1..(Len(pipe) + 1) /\ Len(pipe') = Len(pipe) + 1
      /\ \A n \in DOMAIN pipe : pipe'[n] = pipe[n]
      /\ pipe'[Len(pipe) + 1] = Frame(t, FALSE)
      /\ AnswersKnown' /\ Settled' /\ LastReload' /\ AcknowledgedIsLoaded' /\ CallsInOrder'
  BY WrittenLine
<1>1. /\ OwnNumber' /\ RunsWithItsSettings'
  BY DEF OwnNumber, RunsWithItsSettings
<1>2. TypeOK'
  <2>1. at' \in [Tasks -> Places]
    BY DEF TypeOK, Places
  <2>2. closed' \in BOOLEAN /\ stdin' \in Tasks \cup {None}
    BY DEF TypeOK
  <2> QED BY <2>1, <2>2, <1>a DEF TypeOK
<1>3. Placed'
  BY DEF Placed, Active
<1>4. HoldsStdin'
  BY DEF HoldsStdin
<1>5. HalfLineClosed'
  BY <1>a DEF HalfLineClosed, HoldsStdin, TypeOK, Frame
<1>6. NothingBehindHalfALine'
  <2>1. \A n \in DOMAIN pipe : pipe[n].whole
    BY DEF HalfLineClosed
  <2>2. \A n \in DOMAIN pipe' : n \in DOMAIN pipe \/ n = Len(pipe) + 1
    BY <1>a
  <2> QED BY <1>a, <2>1, <2>2 DEF NothingBehindHalfALine
<1>7. Registered'
  BY DEF Registered, Sending
<1>8. Waiting'
  BY DEF Waiting, Sending
<1>9. ClosedDrains'
  BY DEF TypeOK, ClosedDrains
<1>10. AnswersKnown'
  BY <1>a
<1>11. SlotFits'
  BY DEF SlotFits, Sending, Unsent
<1>12. HolderKnows'
  BY DEF HolderKnows, Active
<1>13. Settled'
  BY <1>a
<1>14. LastReload'
  BY <1>a
<1>15. AcknowledgedIsLoaded'
  BY <1>a
<1>16. CallsInOrder'
  BY <1>a
<1>17. NotRunYet'
  BY DEF NotRunYet
<1> QED BY <1>1, <1>2, <1>3, <1>4, <1>5, <1>6, <1>7, <1>8, <1>9, <1>10, <1>11, <1>12,
  <1>13, <1>14, <1>15, <1>16, <1>17

-----------------------------------------------------------------------------
(* Codex takes and answers lines, and the reader hands the answers on.     *)

LEMMA ReadLineKeeps ==
  ASSUME IInv, NEW ok \in BOOLEAN, NEW takes \in BOOLEAN, ReadLine(ok, takes)
  PROVE  IInv'
<1> USE DEF IInv, ReadLine, supervision, requests, mcp, environment
<1>a. /\ pipe' \in Seq(Frames) /\ Head(pipe) \in Frames /\ 1 \in DOMAIN pipe
      /\ Head(pipe) = pipe[1] /\ Len(pipe) \in Nat /\ Len(pipe') = Len(pipe) - 1
      /\ \A n \in DOMAIN pipe' : n \in Nat /\ n + 1 \in DOMAIN pipe /\ pipe'[n] = pipe[n + 1]
      /\ \A n \in DOMAIN pipe : n \in Nat /\ pipe[n] \in Frames /\ (n = 1 \/ n > 1)
  <2>1. pipe \in Seq(Frames) /\ pipe # <<>>
    BY DEF TypeOK
  <2> QED BY <2>1, TailFacts
<1>b. open' \subseteq Requests /\ loaded' \in Settings /\ ran' \in [Tasks -> Settings \cup {None}]
  <2>1. Head(pipe).line # "note" => Head(pipe).task \in Callers
    BY <1>a DEF AnswersKnown, UnderWay, InPipe, Frames
  <2>2. open' \subseteq Requests
    BY <1>a, <2>1 DEF TypeOK, Frames, Requests, Lines
  <2> QED BY <2>2, <1>a DEF TypeOK, Frames
<1>1. /\ Placed' /\ HoldsStdin' /\ OwnNumber' /\ Registered' /\ Waiting'
      /\ ClosedDrains' /\ SlotFits' /\ HolderKnows'
  BY DEF Placed, Active, HoldsStdin, OwnNumber, Registered, Sending, Waiting, Sending,
    ClosedDrains, SlotFits, Sending, Unsent, Lost, HolderKnows, Active
<1>2. TypeOK'
  BY <1>a, <1>b DEF TypeOK
<1>3. HalfLineClosed'
  BY <1>a DEF HalfLineClosed
<1>4. NothingBehindHalfALine'
  BY <1>a DEF NothingBehindHalfALine
<1>5. AnswersKnown'
  <2>1. \A i \in Nat, t \in Tasks, l \in Lines : InPipe(i, t, l)' => InPipe(i, t, l)
    BY <1>a DEF InPipe
  <2>2. \A i \in Nat, t \in Tasks, l \in Lines :
          InOpen(i, t, l)' => InOpen(i, t, l) \/ InPipe(i, t, l)
    BY <1>a DEF InPipe, InOpen
  <2>3. \A i \in Nat, t \in Tasks, l \in Lines : UnderWay(i, t, l)' => UnderWay(i, t, l)
    BY <2>1, <2>2 DEF UnderWay, InOut
  <2> QED BY <2>3, FewerUnderWay DEF AnswersKnown
<1>6. Settled'
  BY <1>a DEF Settled, NoReload
<1>7. LastReload'
  <2> SUFFICES ASSUME NEW t \in Tasks, at[t] = "await", line[t] = "reload",
                      NEW m \in DOMAIN pipe', NEW n \in DOMAIN pipe', m < n,
                      pipe'[m].line = "reload", pipe'[m].id = id[t]
               PROVE  pipe'[n].line # "reload"
    BY DEF LastReload
  <2>1. m + 1 < n + 1
    BY <1>a
  <2> QED BY <2>1, <1>a DEF LastReload
<1>8. AcknowledgedIsLoaded'
  <2> SUFFICES ASSUME NEW t \in Tasks, at[t] = "await", line[t] = "reload", Acknowledged(t)'
               PROVE  NoReload' /\ loaded' = generated
    BY DEF AcknowledgedIsLoaded
  <2>1. CASE Acknowledged(t)
    <3>1. NoReload /\ loaded = generated
      BY <2>1 DEF AcknowledgedIsLoaded
    <3> QED BY <3>1, <1>a DEF NoReload
  <2>2. CASE ~Acknowledged(t)
    <3>1. Head(pipe).id = id[t] /\ ok /\ Head(pipe).line # "note"
      BY <2>2 DEF Acknowledged
    <3>2. Head(pipe).line = "reload"
      BY <3>1, <1>a DEF AnswersKnown, UnderWay, InPipe, Frames, Sending
    <3> QED BY <3>1, <3>2, <1>a DEF LastReload, NoReload
  <2> QED BY <2>1, <2>2
<1>9. CallsInOrder'
  <2> SUFFICES ASSUME NEW n \in DOMAIN pipe', pipe'[n].line = "main", pipe'[n].task \in Gated
               PROVE  /\ loaded' = seen[pipe'[n].task]
                      /\ \A m \in DOMAIN pipe' : m < n => pipe'[m].line # "reload"
    BY DEF CallsInOrder
  <2>1. /\ loaded = seen[pipe[n + 1].task]
        /\ \A m \in DOMAIN pipe : m < n + 1 => pipe[m].line # "reload"
    BY <1>a DEF CallsInOrder
  <2>2. 1 < n + 1
    BY <1>a
  <2>3. Head(pipe).line # "reload"
    BY <1>a, <2>1, <2>2
  <2> QED BY <1>a, <2>1, <2>3
<1>10. NotRunYet'
  <2>1. Head(pipe).line = "main" => at[Head(pipe).task] \notin {"idle", "refresh"}
    BY <1>a DEF AnswersKnown, UnderWay, InPipe, Frames, Lines
  <2> QED BY <2>1, <1>a DEF NotRunYet, TypeOK, Frames
<1>11. RunsWithItsSettings'
  <2>1. Head(pipe).line = "main" /\ Head(pipe).task \in Gated => loaded = seen[Head(pipe).task]
    BY <1>a DEF CallsInOrder
  <2> QED BY <2>1, <1>a, TasksAssumption DEF RunsWithItsSettings, TypeOK, Frames, Tasks
<1> QED BY <1>1, <1>2, <1>3, <1>4, <1>5, <1>6, <1>7, <1>8, <1>9, <1>10, <1>11

LEMMA AnswerOneKeeps ==
  ASSUME IInv, NEW q \in open, AnswerOne(q)
  PROVE  IInv'
<1> USE DEF IInv, AnswerOne, supervision, requests, mcp, environment
<1> DEFINE answer == [kind |-> "response", id |-> q.id, task |-> q.task, line |-> q.line,
                      ok |-> q.ok]
<1>a. /\ answer \in Messages /\ out' \in Seq(Messages) /\ Len(out) \in Nat
      /\ \A n \in DOMAIN out' : n \in DOMAIN out \/ n = Len(out) + 1
      /\ \A n \in DOMAIN out : out'[n] = out[n]
      /\ out'[Len(out) + 1] = answer
  <2>1. answer \in Messages
    BY DEF TypeOK, Requests, Messages, Lines
  <2> QED BY <2>1, AppendFacts DEF TypeOK
<1>1. /\ Placed' /\ HoldsStdin' /\ HalfLineClosed' /\ NothingBehindHalfALine'
      /\ OwnNumber' /\ Registered' /\ Waiting' /\ ClosedDrains' /\ SlotFits'
      /\ HolderKnows' /\ Settled' /\ LastReload' /\ CallsInOrder' /\ NotRunYet'
      /\ RunsWithItsSettings'
  BY DEF Placed, Active, HoldsStdin, HalfLineClosed, NothingBehindHalfALine, OwnNumber,
    Registered, Sending, Waiting, Sending, ClosedDrains, SlotFits, Sending, Unsent,
    Lost, HolderKnows, Active, Settled, NoReload, LastReload, CallsInOrder, NotRunYet,
    RunsWithItsSettings
<1>2. TypeOK'
  BY <1>a DEF TypeOK
<1>3. AnswersKnown'
  <2>1. \A n \in DOMAIN out' : /\ out'[n].kind = "response" <=> out'[n].line # "note"
                               /\ out'[n].kind = "response" => out'[n].task \in Callers
    <3>1. answer.kind = "response" /\ answer.line # "note" /\ answer.task \in Callers
      BY DEF TypeOK, Requests
    <3> HIDE DEF answer
    <3> QED BY <3>1, <1>a DEF AnswersKnown
  <2>2. \A i \in Nat, t \in Tasks, l \in Lines :
          InOut(i, t, l)' => InOut(i, t, l) \/ InOpen(i, t, l)
    BY <1>a DEF InOut, InOpen
  <2>3. \A i \in Nat, t \in Tasks, l \in Lines : InOpen(i, t, l)' => InOpen(i, t, l)
    BY DEF InOpen
  <2>4. \A i \in Nat, t \in Tasks, l \in Lines : UnderWay(i, t, l)' => UnderWay(i, t, l)
    BY <2>2, <2>3 DEF UnderWay, InPipe
  <2> QED BY <2>1, <2>4, FewerUnderWay DEF AnswersKnown
<1>4. AcknowledgedIsLoaded'
  <2>1. \A t \in Tasks : Acknowledged(t)' => Acknowledged(t)
    BY <1>a DEF Acknowledged
  <2> QED BY <2>1 DEF AcknowledgedIsLoaded, NoReload
<1> QED BY <1>1, <1>2, <1>3, <1>4

LEMMA AskProxyKeeps ==
  ASSUME IInv, NEW p \in pending, AskProxy(p.id)
  PROVE  IInv'
<1> USE DEF IInv, AskProxy, supervision, requests, mcp
<1> DEFINE ask == [kind |-> "request", id |-> p.id, task |-> None, line |-> "note", ok |-> TRUE]
<1>a. /\ ask \in Messages /\ out' \in Seq(Messages) /\ Len(out) \in Nat
      /\ \A n \in DOMAIN out' : n \in DOMAIN out \/ n = Len(out) + 1
      /\ \A n \in DOMAIN out : out'[n] = out[n]
      /\ out'[Len(out) + 1] = ask
  <2>1. ask \in Messages
    BY DEF TypeOK, Messages, Lines
  <2> QED BY <2>1, AppendFacts DEF TypeOK
<1>1. /\ Placed' /\ HoldsStdin' /\ HalfLineClosed' /\ NothingBehindHalfALine'
      /\ OwnNumber' /\ Registered' /\ Waiting' /\ ClosedDrains' /\ SlotFits'
      /\ HolderKnows' /\ Settled' /\ LastReload' /\ CallsInOrder' /\ NotRunYet'
      /\ RunsWithItsSettings'
  BY DEF Placed, Active, HoldsStdin, HalfLineClosed, NothingBehindHalfALine, OwnNumber,
    Registered, Sending, Waiting, Sending, ClosedDrains, SlotFits, Sending, Unsent,
    Lost, HolderKnows, Active, Settled, NoReload, LastReload, CallsInOrder, NotRunYet,
    RunsWithItsSettings
<1>2. TypeOK'
  BY <1>a DEF TypeOK
<1>3. AnswersKnown'
  <2>1. \A n \in DOMAIN out' : /\ out'[n].kind = "response" <=> out'[n].line # "note"
                               /\ out'[n].kind = "response" => out'[n].task \in Callers
    BY <1>a DEF AnswersKnown
  <2>2. \A i \in Nat, t \in Tasks, l \in Lines : l # "note" /\ InOut(i, t, l)' => InOut(i, t, l)
    BY <1>a DEF InOut
  <2>3. \A i \in Nat, t \in Tasks, l \in Lines : UnderWay(i, t, l)' => UnderWay(i, t, l)
    BY <2>2 DEF UnderWay, InPipe, InOpen
  <2> QED BY <2>1, <2>3, FewerUnderWay DEF AnswersKnown
<1>4. AcknowledgedIsLoaded'
  <2>1. \A t \in Tasks : Acknowledged(t)' => Acknowledged(t)
    BY <1>a DEF Acknowledged
  <2> QED BY <2>1 DEF AcknowledgedIsLoaded, NoReload
<1> QED BY <1>1, <1>2, <1>3, <1>4

LEMMA ReadAnswerKeeps ==
  ASSUME IInv, ReadAnswer
  PROVE  IInv'
<1> USE DEF IInv, ReadAnswer, supervision, mcp, environment
<1> DEFINE f == Head(out)
           given == [task |-> f.task, line |-> f.line, ok |-> f.ok]
<1>0. /\ slot' = [t \in Tasks |-> IF \E p \in Matching(f) : p.task = t THEN given ELSE slot[t]]
      /\ pending' = pending \ Matching(f)
      /\ given.task = f.task /\ given.line = f.line /\ given.ok = f.ok
      /\ UNCHANGED <<supervision, reader, closed, nextId, id, stdin, mcp, at, line, process,
                     pipe, open, loaded, ran, environment>>
  OBVIOUS
<1>a. /\ out' \in Seq(Messages) /\ f \in Messages /\ 1 \in DOMAIN out /\ f = out[1]
      /\ \A n \in DOMAIN out' : n + 1 \in DOMAIN out /\ out'[n] = out[n + 1]
  <2>1. out \in Seq(Messages) /\ out # <<>>
    BY DEF TypeOK
  <2> QED BY <2>1, TailFacts
<1>b. given \in Results /\ given # None
  <2>1. given \in Results
    BY <1>a DEF Messages, Results, Callers, Tasks
  <2> QED BY <2>1, NoneAssumption
<1> HIDE DEF f, given
\* The answer is to a request of the task that registered its number.
<1>c. \A p \in Matching(f) :
        /\ p \in pending /\ f.kind = "response" /\ f.id = p.id /\ p.id = id[p.task]
        /\ p.task \in Tasks /\ f.task = p.task /\ f.line = line[p.task] /\ at[p.task] \notin Unsent
  <2> SUFFICES ASSUME NEW p \in pending, p.id = f.id, f.kind = "response"
               PROVE  /\ p.id = id[p.task] /\ p.task \in Tasks /\ f.task = p.task
                      /\ f.line = line[p.task] /\ at[p.task] \notin Unsent
    BY DEF Matching
  <2>1. f.line # "note" /\ f.task \in Callers /\ InOut(f.id, f.task, f.line)
    BY <1>a DEF AnswersKnown, InOut
  <2>2. /\ UnderWay(f.id, f.task, f.line) /\ f.id \in Nat /\ f.line \in Lines /\ f.task \in Tasks
    BY <2>1, <1>a DEF UnderWay, Messages, Callers, Tasks
  <2>3. /\ p.task \in Tasks /\ p.id = id[p.task] /\ at[p.task] \in Sending /\ line[p.task] # "note"
    BY DEF Registered, TypeOK, Callers, Tasks
  <2> QED BY <2>2, <2>3 DEF AnswersKnown
<1>1. /\ Placed' /\ HoldsStdin' /\ HalfLineClosed' /\ NothingBehindHalfALine'
      /\ OwnNumber' /\ HolderKnows' /\ Settled' /\ LastReload' /\ CallsInOrder'
      /\ NotRunYet' /\ RunsWithItsSettings'
  BY DEF Placed, Active, HoldsStdin, HalfLineClosed, NothingBehindHalfALine, OwnNumber,
    HolderKnows, Active, Settled, NoReload, LastReload, CallsInOrder, NotRunYet,
    RunsWithItsSettings
<1>2. TypeOK'
  <2>1. slot' \in [Tasks -> Results \cup {None}]
    BY <1>0, <1>b DEF TypeOK
  <2> QED BY <2>1, <1>0, <1>a DEF TypeOK, Matching
<1>3. Registered'
  <2> SUFFICES ASSUME NEW p \in pending'
               PROVE  slot'[p.task] = None
    BY <1>0 DEF Registered
  <2>1. p \in pending /\ p \notin Matching(f) /\ p.id = id[p.task] /\ p.task \in Tasks
    BY <1>0 DEF Registered, TypeOK, Callers, Tasks
  <2>2. \A q \in Matching(f) : q.task # p.task
    BY <2>1, <1>c DEF Matching
  <2> QED BY <2>1, <2>2, <1>0 DEF Registered, TypeOK
<1>4. Waiting'
  <2> SUFFICES ASSUME NEW t \in Tasks, at[t] \in Sending, line[t] # "note", slot'[t] = None
               PROVE  [id |-> id[t], task |-> t] \in pending'
    BY <1>0 DEF Waiting
  <2>1. slot[t] = None /\ \A p \in Matching(f) : p.task # t
    BY <1>0, <1>b DEF TypeOK
  <2> QED BY <2>1, <1>0 DEF Waiting
<1>5. ClosedDrains'
  BY <1>0 DEF ClosedDrains
<1>6. AnswersKnown'
  <2>1. \A n \in DOMAIN out' : /\ out'[n].kind = "response" <=> out'[n].line # "note"
                               /\ out'[n].kind = "response" => out'[n].task \in Callers
    BY <1>a DEF AnswersKnown
  <2>2. \A i \in Nat, t \in Tasks, l \in Lines : InOut(i, t, l)' => InOut(i, t, l)
    BY <1>a DEF InOut
  <2>3. \A i \in Nat, t \in Tasks, l \in Lines : UnderWay(i, t, l)' => UnderWay(i, t, l)
    BY <1>0, <2>2 DEF UnderWay, InPipe, InOpen
  <2> QED BY <1>0, <2>1, <2>3, FewerUnderWay DEF AnswersKnown
<1>7. SlotFits'
  <2> SUFFICES ASSUME NEW t \in Tasks, at[t] \in Sending, line[t] # "note",
                      slot'[t] \notin {None, Lost}
               PROVE  at[t] \notin Unsent /\ slot'[t].task = t /\ slot'[t].line = line[t]
    BY <1>0 DEF SlotFits
  <2>1. CASE \E p \in Matching(f) : p.task = t
    BY <2>1, <1>0, <1>c DEF TypeOK
  <2>2. CASE ~\E p \in Matching(f) : p.task = t
    BY <2>2, <1>0 DEF TypeOK, SlotFits
  <2> QED BY <2>1, <2>2
<1>8. AcknowledgedIsLoaded'
  <2> SUFFICES ASSUME NEW t \in Tasks, at[t] = "await", Acknowledged(t)'
               PROVE  Acknowledged(t)
    BY <1>0 DEF AcknowledgedIsLoaded, NoReload
  <2>1. CASE \E p \in Matching(f) : p.task = t
    <3>1. slot'[t] = given /\ f.kind = "response" /\ f.id = id[t]
      BY <2>1, <1>0, <1>c
    <3>2. CASE f.ok
      BY <3>1, <3>2, <1>a DEF Acknowledged
    <3>3. CASE ~f.ok
      BY <3>1, <3>3, <1>0, <1>a DEF Acknowledged
    <3> QED BY <3>2, <3>3
  <2>2. CASE ~\E p \in Matching(f) : p.task = t
    BY <2>2, <1>0, <1>a DEF TypeOK, Acknowledged
  <2> QED BY <2>1, <2>2
<1> QED BY <1>1, <1>2, <1>3, <1>4, <1>5, <1>6, <1>7, <1>8

-----------------------------------------------------------------------------
(* The invariant is inductive.                                             *)

\* The initial state is as the invariant has it ...
LEMMA Starts == Init => IInv
<1> SUFFICES ASSUME Init PROVE IInv
  OBVIOUS
<1> USE DEF Init
<1>1. TypeOK
  <2>1. <<>> \in Seq(Frames) /\ <<>> \in Seq(Messages)
    OBVIOUS
  <2>2. /\ at \in [Tasks -> Places] /\ line \in [Tasks -> Lines] /\ id \in [Tasks -> Nat]
        /\ slot \in [Tasks -> Results \cup {None}] /\ seen \in [Tasks -> Settings \cup {None}]
        /\ ran \in [Tasks -> Settings \cup {None}] /\ \A t \in Tasks : id[t] < nextId
    BY DEF Places, Lines
  <2>3. /\ state \in States /\ applied \in Settings /\ generated \in Settings
        /\ source \in Settings /\ loaded \in Settings
    BY SettingsAssumption DEF States
  <2> QED BY <2>1, <2>2, <2>3 DEF TypeOK
<1>2. Placed /\ HoldsStdin /\ HalfLineClosed /\ NothingBehindHalfALine
  BY DEF Placed, Active, HoldsStdin, HalfLineClosed, NothingBehindHalfALine, Tasks
<1>3. OwnNumber /\ Registered /\ Waiting /\ ClosedDrains
  BY DEF OwnNumber, Registered, Waiting, Sending, ClosedDrains
<1>4. AnswersKnown /\ SlotFits
  BY DEF AnswersKnown, UnderWay, InPipe, InOpen, InOut, SlotFits, Sending
<1>5. HolderKnows /\ Settled /\ LastReload /\ AcknowledgedIsLoaded /\ CallsInOrder
  BY TasksAssumption DEF HolderKnows, Settled, NoReload, LastReload, AcknowledgedIsLoaded,
    CallsInOrder, Active, Tasks
<1>6. NotRunYet /\ RunsWithItsSettings
  BY TasksAssumption DEF NotRunYet, RunsWithItsSettings, Tasks
<1> QED BY <1>1, <1>2, <1>3, <1>4, <1>5, <1>6 DEF IInv

\* It holds at the start, and every step of a task,
LEMMA GoesKeeps ==
  ASSUME IInv, NEW t \in Tasks, Goes(t)
  PROVE  IInv'
<1>1. CASE Prepare(t)
  BY <1>1, PrepareKeeps
<1>2. CASE PrepareFails(t)
  BY <1>2, PrepareFailsKeeps
<1>3. CASE Register(t)
  BY <1>3, RegisterKeeps
<1>4. CASE RegisterRefused(t)
  <2>1. \A p \in pending : p.task # t
    BY <1>4 DEF RegisterRefused, IInv, Registered, Sending
  <2> QED BY <1>4, <2>1, LeavingKeeps DEF RegisterRefused, requests
<1>5. CASE TakeStdin(t)
  BY <1>5, TakeStdinKeeps
<1>6. CASE StdinRefused(t)
  BY <1>6, LeavingKeeps DEF StdinRefused
<1>7. CASE Write(t)
  BY <1>7, WriteKeeps
<1>8. CASE PipeBroken(t)
  BY <1>8, FenceKeeps DEF PipeBroken
<1>9. CASE FenceDrains(t)
  BY <1>9, FenceDrainsKeeps
<1>10. CASE AnsweredBadly(t)
  BY <1>10, LeavingKeeps DEF AnsweredBadly
<1>11. CASE Reloaded(t)
  BY <1>11, ReloadedKeeps
<1>12. CASE Answered(t) /\ t = Boot
  BY <1>12, BootAnsweredKeeps
<1>13. CASE Answered(t) /\ t # Boot
  <2>1. \A p \in pending : p.task # t
    BY <1>13 DEF Answered, IInv, Registered
  <2> QED BY <1>13, <2>1, LeavingKeeps DEF Answered, requests
<1>14. CASE TimesOut(t)
  BY <1>14, LeavingKeeps DEF TimesOut
<1> QED
  BY <1>1, <1>2, <1>3, <1>4, <1>5, <1>6, <1>7, <1>8, <1>9, <1>10, <1>11, <1>12, <1>13, <1>14
    DEF Goes

\* ... of its client,
LEMMA DroppedKeeps ==
  ASSUME IInv, NEW t \in Tasks, DroppedInWrite(t) \/ ClientGone(t)
  PROVE  IInv'
<1>1. CASE DroppedInWrite(t) /\ UNCHANGED pipe
  BY <1>1, FenceKeeps DEF DroppedInWrite
<1>2. CASE DroppedInWrite(t) /\ pipe' = Append(pipe, Frame(t, FALSE))
  BY <1>2, HalfLineKeeps DEF DroppedInWrite
<1>3. CASE ClientGone(t)
  BY <1>3, LeavingKeeps DEF ClientGone
<1> QED BY <1>1, <1>2, <1>3 DEF DroppedInWrite

\* ... of main and the monitor,
LEMMA SupervisingKeeps ==
  ASSUME IInv, Supervising \/ Monitoring \/ Terminate
  PROVE  IInv'
<1>1. state \in States /\ child \in BOOLEAN /\ monitor \in {"polling", "exited", "over"}
  BY DEF IInv, TypeOK
<1>2. \A s \in States, e \in {"InitializeSucceeded", "InitializeFailed", "ProcessExited",
                             "ShutdownRequested", "ShutdownCompleted"} : Reduce(s, e) \in States
  BY DEF Reduce, States
<1>3. CASE BeginInitialize
  BY <1>3, BeginInitializeKeeps
<1>4. CASE Kill
  BY <1>4, KillKeeps
<1>5. CASE Exit
  BY <1>5, ExitKeeps
<1>6. CASE Initialized
  BY <1>1, <1>2, <1>6, SupervisionKeeps DEF Initialized
<1>7. CASE NoticeFailure \/ Terminate
  BY <1>1, <1>2, <1>7, SupervisionKeeps DEF NoticeFailure, Terminate, RequestShutdown
<1>8. CASE CompleteShutdown
  BY <1>1, <1>2, <1>8, SupervisionKeeps DEF CompleteShutdown
<1>9. CASE MonitorPolls
  BY <1>1, <1>2, <1>9, SupervisionKeeps DEF MonitorPolls
<1>10. CASE MonitorRecords
  BY <1>1, <1>2, <1>10, SupervisionKeeps DEF MonitorRecords
<1> QED BY <1>3, <1>4, <1>5, <1>6, <1>7, <1>8, <1>9, <1>10 DEF Supervising, Monitoring

LEMMA StutterKeeps ==
  ASSUME IInv, UNCHANGED vars
  PROVE  IInv'
<1> USE DEF IInv, vars, supervision, requests, mcp, codex, environment
<1>1. TypeOK' /\ Placed' /\ HoldsStdin' /\ HalfLineClosed' /\ NothingBehindHalfALine'
  BY DEF TypeOK, Placed, HoldsStdin, HalfLineClosed, NothingBehindHalfALine
<1>2. OwnNumber' /\ Registered' /\ Waiting' /\ ClosedDrains'
  BY DEF OwnNumber, Registered, Waiting, ClosedDrains
<1>3. AnswersKnown' /\ SlotFits'
  BY DEF AnswersKnown, UnderWay, InPipe, InOpen, InOut, SlotFits
<1>4. HolderKnows' /\ Settled' /\ LastReload' /\ AcknowledgedIsLoaded' /\ CallsInOrder'
  BY DEF HolderKnows, Settled, NoReload, LastReload, AcknowledgedIsLoaded, Acknowledged,
    CallsInOrder
<1>5. NotRunYet' /\ RunsWithItsSettings'
  BY DEF NotRunYet, RunsWithItsSettings
<1> QED BY <1>1, <1>2, <1>3, <1>4, <1>5

\* ... of Codex, its user and the reader keeps it.
LEMMA Inductive == IInv /\ [Next]_vars => IInv'
<1> SUFFICES ASSUME IInv, [Next]_vars PROVE IInv'
  OBVIOUS
<1>1. CASE \E t \in Tasks : Begin(t)
  BY <1>1, BeginKeeps
<1>2. CASE \E t \in Tasks : Goes(t)
  BY <1>2, GoesKeeps
<1>3. CASE \E t \in Tasks : DroppedInWrite(t) \/ ClientGone(t)
  BY <1>3, DroppedKeeps
<1>4. CASE \E s \in Settings : EditSettings(s)
  BY <1>4, EditKeeps
<1>5. CASE \E ok, takes \in BOOLEAN : ReadLine(ok, takes)
  BY <1>5, ReadLineKeeps
<1>6. CASE \E q \in open : AnswerOne(q)
  BY <1>6, AnswerOneKeeps
<1>7. CASE \E p \in pending : AskProxy(p.id)
  BY <1>7, AskProxyKeeps
<1>8. CASE CodexExits
  BY <1>8, CodexExitsKeeps
<1>9. CASE Reading
  BY <1>9, ReadAnswerKeeps, ReaderEndsKeeps, ReaderDrainsKeeps DEF Reading
<1>10. CASE Supervising \/ Monitoring \/ Terminate
  BY <1>10, SupervisingKeeps
<1>11. CASE UNCHANGED vars
  BY <1>11, StutterKeeps
<1> QED
  BY <1>1, <1>2, <1>3, <1>4, <1>5, <1>6, <1>7, <1>8, <1>9, <1>10, <1>11 DEF Next

-----------------------------------------------------------------------------
(* What the runtime promises.                                              *)

\* The inductive invariant holds of every state of the runtime.
THEOREM Invariant == Spec => []IInv
<1> QED BY Starts, Inductive, PTL DEF Spec

\* The state has its shape (runtime.rs, domain.rs).
THEOREM TypeCorrect == Spec => []TypeOK
<1>1. IInv => TypeOK
  BY DEF IInv
<1> QED BY <1>1, Invariant, PTL

\* Nothing is ever written behind half a line, whoever is dropped in a write
\* and whoever waits for the lock of stdin (runtime.rs: write_line, WriteGuard).
THEOREM LinesStayWhole == Spec => []NothingBehindHalfALine
<1>1. IInv => NothingBehindHalfALine
  BY DEF IInv
<1> QED BY <1>1, Invariant, PTL

\* What a call takes for its answer is Codex's answer to that very request, over
\* timeouts, late answers and server requests with the same number
\* (runtime.rs: request_raw, spawn_reader).
THEOREM RightAnswers == Spec => []AnswersReachTheirCall
<1>1. IInv => AnswersReachTheirCall
  BY DEF IInv, AnswersReachTheirCall, SlotFits, Sending, Placed
<1> QED BY <1>1, Invariant, PTL

\* A closed transport leaves no call waiting, whether the reader or a write
\* closed it (runtime.rs: spawn_reader, WriteGuard).
THEOREM NoVainWait == Spec => []NobodyWaitsInVain
<1>1. IInv => NobodyWaitsInVain
  BY DEF IInv, NobodyWaitsInVain, ClosedDrains, Waiting, Sending, Placed
<1> QED BY <1>1, Invariant, PTL

\* Codex runs a call of a turn with the settings the proxy found for it, over
\* any failed, late and unacknowledged reloads (user_config.rs,
\* runtime.rs: request_checked).
THEOREM OwnSettings == Spec => []RunsWithItsSettings
<1>1. IInv => RunsWithItsSettings
  BY DEF IInv
<1> QED BY <1>1, Invariant, PTL
=============================================================================
