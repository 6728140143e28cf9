--------------------------- MODULE TurnControlProofs ---------------------------
(***************************************************************************)
(* The theorems of TurnLifecycle about what was sent and who may send it,  *)
(* for every set of responses, clients and requests: what the disk knows   *)
(* of a turn/start and of an interruption, one turn per client request id, *)
(* suppression over the turns of a thread, the control locks, and the      *)
(* promises of ExecutionLedger.                                            *)
(*                                                                         *)
(* They rest on the invariant of TurnLifecycleProofs and on three facts.   *)
(* Memory and disk differ only while the store refuses every call, so what *)
(* holds of one record and is kept by every edit holds of both.  What is   *)
(* sent was stored before, and no edit takes it back.  And a control lock  *)
(* is held from before the first look at the turns of its thread until the *)
(* request that followed from it has its answer.                           *)
(***************************************************************************)
EXTENDS TurnLifecycleProofs

\* What memory or disk has on record of a response: nothing before it is
\* reserved; past the send boundary an entry that says so, and from the opened
\* thread on an entry that names the thread.
Entry(e, r) ==
  /\ e # None =>
       /\ e.key = req[r].key
       /\ e.turn # None => start[r] = "accepted" /\ e.thread = conv[r]
  /\ pc[r] = "idle" => e = None
  /\ r \in Written \/ pc[r] \in Sending => e # None /\ e.phase # "received"
  /\ r \in Written \/ pc[r] = "sending" => e.thread = conv[r]
  /\ \/ r \in Written /\ start[r] \in {"sent", "accepted", "unnamed"}
     \/ pc[r] \in Sending
     => e.phase # "rejected"

EntriesHold == \A r \in Responses : Entry(records[r], r) /\ Entry(db[r], r)

\* The disk has what memory has, and has more only while the store has failed.
Synced ==
  \A r \in Responses :
    /\ records[r] # None => db[r] # None
    /\ ~failed /\ db[r] # None => records[r] # None

\* A turn/start is written once, by a handler that waits for the answer then.
SentOnce ==
  /\ \A r \in Written : start[r] # "none"
  /\ \A r \in Responses : pc[r] = "starting" => r \in Written
  /\ \A m, n \in DOMAIN sent : sent[m] = sent[n] => m = n

KeysOnce ==
  \A r, q \in Responses :
    r # q /\ db[r] # None /\ db[q] # None /\ req[r].key # None => req[r].key # req[q].key

\* The suppression of a turn is the same on disk, and covers that of the turns
\* sent before on its thread.
SuppressionKnown ==
  /\ \A r \in Responses :
       r \in Written \/ pc[r] = "sending" => db[r].suppress = records[r].suppress
  /\ \A r \in Responses, q \in Written :
       pc[r] = "sending" /\ conv[q] = conv[r] /\ db[q].suppress => db[r].suppress

\* An interruption is on record before it is sent, and one client sends it.
InterruptsKnown ==
  /\ \A r \in Responses : stops[r] # 0 =>
       /\ records[r] # None /\ records[r].intr # "none"
       /\ db[r] # None /\ db[r].intr # "none"
  /\ \A c \in Clients : cl[c].stage = "send" /\ cl[c].op = "interrupt" =>
       LET r == cl[c].at IN
       /\ stops[r] = 0
       /\ records[r].intr # "none"
       /\ db[r] # None /\ db[r].intr # "none"
  /\ \A c, d \in Clients :
       /\ cl[c].stage = "send" /\ cl[c].op = "interrupt"
       /\ cl[d].stage = "send" /\ cl[d].op = "interrupt" /\ cl[c].at = cl[d].at
       => c = d

\* The control lock of a thread is held to start a turn on it, ...
Holding == {"checking", "reading", "refreshing"} \cup Sending

HandlersLock ==
  /\ \A t \in Responses : control[t] \in Responses => pc[control[t]] \in Holding
  /\ \A r \in Responses : pc[r] \in Sending /\ conv[r] # None => control[conv[r]] = r

\* ... and to interrupt or steer one; what was read as in progress then was not
\* followed by another turn.
Inside(c) == cl[c].stage \notin {"idle", "lock"} /\ cl[c].op # "status"

ClientsLock ==
  /\ \A t \in Responses : control[t] \in Clients => cl[control[t]].stage \notin {"idle", "lock"}
  /\ \A c \in Clients : cl[c].stage # "idle" =>
       start[cl[c].at] = "accepted" /\ records[cl[c].at].thread = conv[cl[c].at]
  /\ \A c \in Clients :
       /\ cl[c].stage \in {"lock", "decide", "send", "sent"} => cl[c].op # "status"
       /\ cl[c].stage \in {"send", "sent"} => cl[c].got = "inProgress"
       /\ Inside(c) => control[conv[cl[c].at]] = c

NoStartBehind ==
  \A c \in Clients, q \in Responses :
    /\ Inside(c) /\ cl[c].stage # "read" /\ cl[c].got = "inProgress"
    /\ q # cl[c].at /\ conv[q] = conv[cl[c].at]
    => start[q] # "sent"

TInv ==
  /\ EntriesHold /\ Synced /\ SentOnce /\ KeysOnce
  /\ SuppressionKnown /\ SuppressionSticks
CInv == HandlersLock /\ ClientsLock /\ NoStartBehind
JInv == TInv /\ CInv /\ InterruptsKnown /\ InterruptSentOnce
-----------------------------------------------------------------------------
(* The store, and the edits, as far as the invariant looks at them.        *)

Expected == {"sent", "accepted", "unnamed"}

\* A call of the store about r: nothing changes, the call fails with the row
\* written, or both tables have it.
Call(r, new) ==
  /\ \/ UNCHANGED <<records, db>>
     \/ UNCHANGED records /\ db' = [db EXCEPT ![r] = new] /\ failed'
     \/ records' = [records EXCEPT ![r] = new] /\ db' = [db EXCEPT ![r] = new]
  /\ failed => failed' /\ UNCHANGED <<records, db>>

\* An edit takes back neither the send boundary nor an interruption.
Kept(new, old) ==
  /\ new \in Fields!Execution
  /\ new.key = old.key /\ new.thread = old.thread /\ new.suppress = old.suppress
  /\ old.phase # "received" => new.phase # "received"
  /\ old.intr # "none" => new.intr # "none"

KeepsTurn(new, old) ==
  /\ Kept(new, old)
  /\ new.turn = old.turn
  /\ old.phase \notin {"received", "rejected"} => new.phase # "rejected"

LEMMA CallFacts ==
  ASSUME IInv, NEW r \in Responses, NEW new,
         Stores(r, new) \/ StoreRefuses(r, new) \/ UNCHANGED store
  PROVE  Call(r, new)
<1>1. CASE Stores(r, new)
  BY <1>1 DEF Call, Stores
<1>2. CASE StoreRefuses(r, new)
  BY <1>2 DEF Call, StoreRefuses
<1>3. CASE UNCHANGED store
  BY <1>3 DEF Call, store
<1> QED BY <1>1, <1>2, <1>3

LEMMA EditFacts ==
  ASSUME NEW old \in Fields!Execution
  PROVE  /\ old # None
         /\ \A s \in Fields!Statuses : KeepsTurn(Fields!ObserveEdit(old, s), old)
         /\ KeepsTurn(Fields!BeginErrorEdit(old), old)
         /\ \A m \in {"unknown", "accepted"} :
              /\ KeepsTurn(Fields!InterruptEdit(old, m), old)
              /\ Fields!InterruptEdit(old, m).intr = m
         /\ KeepsTurn(old, old)
         /\ Kept(Fields!RejectEdit(old), old) /\ Fields!RejectEdit(old).turn = old.turn
         /\ \A t \in Responses \cup {None} :
              LET new == Fields!StartEdit(old, t) IN
              Kept(new, old) /\ new.turn = t /\ new.phase # "rejected"
         /\ \A t \in Responses \cup {None} :
              LET new == Fields!DispatchEdit(old, t) IN
              /\ new \in Fields!Execution /\ new.key = old.key /\ new.turn = old.turn
              /\ new.thread = t /\ new.phase = "dispatching" /\ new.suppress = old.suppress
              /\ new.intr = old.intr
         /\ KeepsTurn(Fields!Reopened(old), old)
<1>0. old # None
  BY NamesAssumption
<1> USE DEF Fields!Execution, Kept, KeepsTurn
<1>1. ASSUME NEW s \in Fields!Statuses PROVE KeepsTurn(Fields!ObserveEdit(old, s), old)
  <2>1. CASE s \in Terminal
    BY <2>1 DEF Fields!ObserveEdit, Fields!Phases, Terminal
  <2>2. CASE s \notin Terminal
    BY <2>2 DEF Fields!ObserveEdit, Fields!Phases, Terminal
  <2> QED BY <2>1, <2>2
<1>2. KeepsTurn(Fields!BeginErrorEdit(old), old)
  <2>1. CASE old.phase \in {"received", "rejected"}
    BY <2>1 DEF Fields!BeginErrorEdit, Fields!Phases
  <2>2. CASE old.phase \notin {"received", "rejected"}
    BY <2>2 DEF Fields!BeginErrorEdit, Fields!Phases
  <2> QED BY <2>1, <2>2
<1>3. \A m \in {"unknown", "accepted"} :
        /\ KeepsTurn(Fields!InterruptEdit(old, m), old)
        /\ Fields!InterruptEdit(old, m).intr = m
  BY DEF Fields!InterruptEdit
<1>4. Kept(Fields!RejectEdit(old), old) /\ Fields!RejectEdit(old).turn = old.turn
  BY DEF Fields!RejectEdit, Fields!Phases
<1>5. ASSUME NEW t \in Responses \cup {None}
      PROVE  LET new == Fields!StartEdit(old, t) IN
             Kept(new, old) /\ new.turn = t /\ new.phase # "rejected"
  <2>1. CASE t = None
    BY <2>1 DEF Fields!StartEdit, Fields!Phases, Fields!Statuses, Fields!Terminal
  <2>2. CASE t # None
    BY <2>2 DEF Fields!StartEdit, Fields!Phases, Fields!Statuses, Fields!Terminal
  <2> QED BY <2>1, <2>2
<1>6. ASSUME NEW t \in Responses \cup {None}
      PROVE  LET new == Fields!DispatchEdit(old, t) IN
             /\ new \in Fields!Execution /\ new.key = old.key /\ new.turn = old.turn
             /\ new.thread = t /\ new.phase = "dispatching" /\ new.suppress = old.suppress
             /\ new.intr = old.intr
  BY DEF Fields!DispatchEdit, Fields!Phases
<1>7. KeepsTurn(Fields!Reopened(old), old)
  BY DEF Fields!Reopened, Fields!Phases
<1>8. KeepsTurn(old, old)
  OBVIOUS
<1> QED BY <1>0, <1>1, <1>2, <1>3, <1>4, <1>5, <1>6, <1>7, <1>8
-----------------------------------------------------------------------------
(* Steps that send nothing and open no thread.                             *)

\* The step may change the entry of r, as an edit of what memory has.
Edits(r, new) ==
  /\ Call(r, new)
  /\ \/ UNCHANGED <<records, db>>
     \/ /\ records[r] # None /\ Kept(new, records[r])
        /\ new.turn \in {records[r].turn, None} \/ (start[r] = "accepted" /\ pc[r] = "starting")
        /\ /\ pc'[r] \in Sending \/ start[r] \in Expected
           /\ records[r].phase \notin {"received", "rejected"}
           => new.phase # "rejected"

\* Codex may answer, and a handler goes to a place from which nothing is sent at
\* once; one that owns no thread may find it.
Placid ==
  /\ UNCHANGED <<req, sent>>
  /\ \A q \in Responses :
       /\ conv'[q] = conv[q] \/ pc[q] = "received"
       /\ \/ start'[q] = start[q]
          \/ start[q] = "sent" /\ start'[q] \in {"accepted", "unnamed", "refused"}
       /\ \/ pc'[q] = pc[q]
          \/ pc[q] # "idle" /\ pc'[q] \notin {"idle"} \cup Sending
          \/ pc[q] = "opening" /\ pc'[q] = "joining"

LEMMA SameWritten == ASSUME UNCHANGED sent PROVE Written' = Written
BY DEF Written

LEMMA WrittenFacts ==
  ASSUME IInv, TInv, NEW q \in Responses, q \in Written
  PROVE  /\ start[q] # "none" /\ pc[q] \notin {"idle"} \cup (Before \ {"starting"})
         /\ conv[q] \in Responses
         /\ \A table \in {records, db} : table[q] \in Fields!Execution /\ table[q].thread = conv[q]
BY DEF IInv, TInv, SentOnce, StartsInOrder, TypeOK, EntriesHold, Entry

LEMMA SticksKept ==
  ASSUME SuppressionSticks, sent \in Seq(Responses), UNCHANGED sent,
         \A q \in Written : db'[q].suppress = db[q].suppress /\ conv'[q] = conv[q]
  PROVE  SuppressionSticks'
BY DEF SuppressionSticks, Written

LEMMA PlacidTables ==
  ASSUME IInv, TInv, TypeOK', NEW r \in Responses, NEW new, Edits(r, new), Placid
  PROVE  TInv'
<1> USE DEF TInv
<1>0. /\ records \in [Responses -> Fields!Execution \cup {None}]
      /\ db \in [Responses -> Fields!Execution \cup {None}]
      /\ pc \in [Responses -> Places] /\ sent \in Seq(Responses)
  BY DEF IInv, TypeOK
<1>1. Written' = Written /\ Written \subseteq Responses
  BY <1>0 DEF Placid, Written
<1>2. \A q \in Responses \ {r} : records'[q] = records[q] /\ db'[q] = db[q]
  BY <1>0 DEF Edits, Call
<1>3. /\ records'[r] \in {records[r], new} /\ db'[r] \in {db[r], new}
      /\ \/ records'[r] = records[r] /\ db'[r] = db[r]
         \/ records[r] # None /\ new # None /\ db'[r] = new /\ Kept(new, records[r])
  BY <1>0, NamesAssumption DEF Edits, Call, Kept
<1>4. \A q \in Responses : q \in Written => conv'[q] = conv[q] /\ pc[q] \notin {"idle", "received"}
  BY WrittenFacts DEF Placid, Before
<1>5. \A q \in Responses : pc[q] = "sending" \/ start[q] # "none" => conv'[q] = conv[q]
  BY DEF Placid, IInv, StartsInOrder, Before
<1>6. ASSUME NEW q \in Responses, q # r
      PROVE  Entry(records[q], q)' /\ Entry(db[q], q)'
  <2>1. Entry(records[q], q) /\ Entry(db[q], q)
    BY DEF EntriesHold
  <2> QED BY <1>1, <1>2, <1>4, <1>5, <1>6, <2>1 DEF Entry, Placid, Sending
<1>7. ASSUME NEW e, e = new, records[r] # None, Kept(new, records[r]),
             ~UNCHANGED <<records, db>>
      PROVE  /\ e.key = req'[r].key
             /\ e.turn # None => start'[r] = "accepted" /\ e.thread = conv'[r]
             /\ pc'[r] # "idle"
             /\ r \in Written \/ pc'[r] \in Sending => e # None /\ e.phase # "received"
             /\ r \in Written \/ pc'[r] = "sending" => e.thread = conv'[r]
             /\ \/ r \in Written /\ start'[r] \in {"sent", "accepted", "unnamed"}
                \/ pc'[r] \in Sending
                => e.phase # "rejected"
  <2>1. Entry(records[r], r) /\ (pc[r] = "starting" => r \in Written)
    BY DEF EntriesHold, SentOnce
  <2>2. e \in Fields!Execution /\ e # None
    BY <1>7, NamesAssumption DEF Kept
  <2>3. e.key = req'[r].key /\ pc'[r] # "idle"
    BY <1>7, <2>1 DEF Kept, Entry, Placid
  <2>4. e.turn # None => start'[r] = "accepted" /\ e.thread = conv'[r]
    BY <1>4, <1>5, <1>7, <2>1 DEF Kept, Entry, Placid, Edits
  <2>5. r \in Written \/ pc'[r] \in Sending => e # None /\ e.phase # "received"
    BY <1>7, <2>1, <2>2 DEF Kept, Entry, Placid, Sending
  <2>6. r \in Written \/ pc'[r] = "sending" => e.thread = conv'[r]
    BY <1>4, <1>5, <1>7, <2>1 DEF Kept, Entry, Placid, Sending
  <2>7. \/ r \in Written /\ start'[r] \in {"sent", "accepted", "unnamed"}
        \/ pc'[r] \in Sending
        => e.phase # "rejected"
    BY <1>7, <2>1 DEF Entry, Placid, Sending, Edits, Expected
  <2> QED BY <2>2, <2>3, <2>4, <2>5, <2>6, <2>7
<1>8. Entry(records[r], r)' /\ Entry(db[r], r)'
  <2>1. Entry(records[r], r) /\ Entry(db[r], r)
    BY DEF EntriesHold
  <2>2. CASE UNCHANGED <<records, db>>
    BY <1>1, <1>4, <1>5, <2>1, <2>2 DEF Entry, Placid, Sending
  <2>3. CASE ~UNCHANGED <<records, db>>
    <3>1. records[r] # None /\ Kept(new, records[r])
      BY <2>3 DEF Edits
    <3>2. \A e \in {records'[r], db'[r]} : e = new \/ (e = records[r] /\ e = records'[r])
      BY <1>3, <2>3, <1>0 DEF Edits, Call
    <3> QED BY <1>1, <1>4, <1>5, <1>7, <2>1, <2>3, <3>1, <3>2 DEF Entry, Placid, Sending
  <2> QED BY <2>2, <2>3
<1>9. EntriesHold'
  BY <1>6, <1>8 DEF EntriesHold
<1>10. Synced'
  BY <1>0, <1>2, <1>3 DEF Synced, Edits, Call, Kept
<1>11. SentOnce'
  BY <1>1 DEF SentOnce, Placid, Sending
<1>12. KeysOnce'
  <2>1. \A q \in Responses : db'[q] # None => db[q] # None
    BY <1>2, <1>3 DEF Synced
  <2> QED BY <2>1 DEF KeysOnce, Placid
<1>13. \A q \in Responses : q \in Written \/ pc[q] = "sending" =>
         db'[q].suppress = db[q].suppress /\ records'[q].suppress = records[q].suppress
  BY <1>2, <1>3 DEF SuppressionKnown, Kept
<1>14. SuppressionKnown'
  BY <1>1, <1>4, <1>5, <1>13 DEF SuppressionKnown, Placid, Sending
<1>15. SuppressionSticks'
  BY <1>0, <1>1, <1>4, <1>13, SticksKept DEF Placid
<1> QED BY <1>9, <1>10, <1>11, <1>12, <1>14, <1>15
-----------------------------------------------------------------------------
(* The control locks, when a handler or Codex takes a step.                *)

\* A handler takes or drops control locks of its own, as its next place needs.
Passes(r) ==
  /\ \A t \in Responses :
       \/ control'[t] = control[t]
       \/ control[t] = r /\ control'[t] = None
       \/ control[t] = None /\ control'[t] = r
  /\ \A t \in Responses : control'[t] = r => pc'[r] \in Holding
  /\ pc'[r] \in Sending /\ conv'[r] # None => control'[conv'[r]] = r

ClientFacts(c) ==
  /\ cl[c].at \in Responses /\ conv[cl[c].at] \in Responses
  /\ records[cl[c].at] \in Fields!Execution

LEMMA AtFacts ==
  ASSUME IInv, CInv, NEW c \in Clients, cl[c].stage # "idle"
  PROVE  ClientFacts(c)
BY DEF IInv, TypeOK, CallersOnRecord, CInv, ClientsLock, StartsInOrder, ClientFacts

LEMMA HandlerLocks ==
  ASSUME IInv, CInv, TypeOK', NEW r \in Responses, Passes(r), UNCHANGED cl,
         \A q \in Responses \ {r} : pc'[q] = pc[q] /\ conv'[q] = conv[q],
         conv'[r] = conv[r] \/ start[r] = "none",
         \A q \in Responses :
           /\ start[q] = "accepted" => start'[q] = "accepted"
           /\ start'[q] = "sent" => start[q] = "sent" \/ (/\ control[conv[q]] = q
                                                        /\ conv'[q] = conv[q]
                                                        /\ conv[q] # None)
           /\ start[q] = "accepted" /\ records[q] # None => records'[q].thread = records[q].thread
  PROVE  CInv'
<1> USE DEF CInv
<1>0. /\ conv \in [Responses -> Responses \cup {None}]
      /\ control \in [Responses -> Responses \cup Clients \cup {None}]
      /\ control' \in [Responses -> Responses \cup Clients \cup {None}]
      /\ conv' \in [Responses -> Responses \cup {None}]
      /\ None \notin Responses \cup Clients /\ Responses \cap Clients = {}
  BY NamesAssumption DEF IInv, TypeOK
<1>1. HandlersLock'
  <2>1. ASSUME NEW t \in Responses, control'[t] \in Responses
        PROVE  pc'[control'[t]] \in Holding
    BY <1>0, <2>1 DEF HandlersLock, Passes, Holding, Sending
  <2>2. ASSUME NEW q \in Responses, pc'[q] \in Sending, conv'[q] # None
        PROVE  control'[conv'[q]] = q
    BY <1>0, <2>2 DEF HandlersLock, Passes
  <2> QED BY <2>1, <2>2 DEF HandlersLock, Holding, Sending
<1>2. ASSUME NEW c \in Clients, cl[c].stage # "idle"
      PROVE  /\ ClientFacts(c) /\ start[cl[c].at] = "accepted" /\ start'[cl[c].at] = "accepted"
             /\ records[cl[c].at].thread = conv[cl[c].at] /\ conv'[cl[c].at] = conv[cl[c].at]
             /\ records'[cl[c].at].thread = conv[cl[c].at]
             /\ Inside(c) => control[conv[cl[c].at]] = c /\ control'[conv[cl[c].at]] = c
  <2>1. ClientFacts(c) /\ start[cl[c].at] = "accepted"
        /\ records[cl[c].at].thread = conv[cl[c].at] /\ records[cl[c].at] # None
    BY <1>2, AtFacts, NamesAssumption DEF ClientsLock, ClientFacts
  <2>2. start'[cl[c].at] = "accepted" /\ conv'[cl[c].at] = conv[cl[c].at]
        /\ records'[cl[c].at].thread = conv[cl[c].at]
    BY <2>1 DEF ClientFacts
  <2>3. Inside(c) => control[conv[cl[c].at]] = c
    BY DEF ClientsLock
  <2>4. Inside(c) => control'[conv[cl[c].at]] = c
    BY <1>0, <2>1, <2>3 DEF Passes, ClientFacts
  <2> QED BY <2>1, <2>2, <2>3, <2>4
<1>3. ClientsLock'
  <2>1. \A t \in Responses :
          control'[t] \in Clients => cl[control'[t]].stage \notin {"idle", "lock"}
    BY <1>0 DEF ClientsLock, Passes
  <2>2. \A c \in Clients : cl[c].stage # "idle" =>
          start'[cl[c].at] = "accepted" /\ records'[cl[c].at].thread = conv'[cl[c].at]
    BY <1>2
  <2>3. \A c \in Clients : Inside(c) => control'[conv'[cl[c].at]] = c
    BY <1>2 DEF Inside
  <2>4. \A c \in Clients :
          /\ cl[c].stage \in {"lock", "decide", "send", "sent"} => cl[c].op # "status"
          /\ cl[c].stage \in {"send", "sent"} => cl[c].got = "inProgress"
    BY DEF ClientsLock
  <2> QED BY <2>1, <2>2, <2>3, <2>4 DEF ClientsLock, Inside
<1>4. NoStartBehind'
  <2> SUFFICES ASSUME NEW c \in Clients, NEW q \in Responses,
                      Inside(c), cl[c].stage # "read", cl[c].got = "inProgress",
                      q # cl[c].at, conv'[q] = conv'[cl[c].at], start'[q] = "sent"
               PROVE  FALSE
    BY DEF NoStartBehind, Inside
  <2>1. /\ conv'[cl[c].at] = conv[cl[c].at] /\ control[conv[cl[c].at]] = c
        /\ conv[cl[c].at] \in Responses
    BY <1>2 DEF Inside, ClientFacts
  <2>2. CASE start[q] = "sent"
    BY <2>1, <2>2 DEF NoStartBehind
  <2>3. CASE start[q] # "sent"
    BY <1>0, <2>1, <2>3
  <2> QED BY <2>2, <2>3
<1> QED BY <1>1, <1>3, <1>4

\* What is on record of interruptions, when none is being sent.
LEMMA InterruptsStay ==
  ASSUME IInv, InterruptsKnown, TypeOK', NEW r \in Responses, NEW new, Call(r, new),
         \/ UNCHANGED <<records, db>>
         \/ /\ new \in Fields!Execution
            /\ records[r] # None /\ records[r].intr # "none" => new.intr # "none"
            /\ records[r] = None => db[r] = None
         ,
         UNCHANGED stops, \A c \in Clients : cl'[c].stage = "send" => cl'[c] = cl[c]
  PROVE  InterruptsKnown'
<1>0. /\ records \in [Responses -> Fields!Execution \cup {None}]
      /\ db \in [Responses -> Fields!Execution \cup {None}]
      /\ None \notin Fields!Execution
  BY NamesAssumption DEF IInv, TypeOK
<1>1. \A q \in Responses :
        /\ records[q] # None /\ records[q].intr # "none" /\ db[q] # None /\ db[q].intr # "none"
        => /\ records'[q] # None /\ records'[q].intr # "none"
           /\ db'[q] # None /\ db'[q].intr # "none"
  BY <1>0 DEF Call
<1>2. \A c \in Clients : cl[c].stage = "send" => cl[c].at \in Responses /\ records[cl[c].at] # None
  BY DEF IInv, CallersOnRecord
<1>3. \A q \in Responses : stops'[q] # 0 =>
        /\ records'[q] # None /\ records'[q].intr # "none"
        /\ db'[q] # None /\ db'[q].intr # "none"
  BY <1>1 DEF InterruptsKnown
<1>4. ASSUME NEW c \in Clients, cl'[c].stage = "send" /\ cl'[c].op = "interrupt"
      PROVE  /\ stops'[cl'[c].at] = 0
             /\ records'[cl'[c].at].intr # "none"
             /\ db'[cl'[c].at] # None /\ db'[cl'[c].at].intr # "none"
  <2>1. cl'[c] = cl[c] /\ cl[c].at \in Responses /\ records[cl[c].at] # None
    BY <1>2, <1>4
  <2>2. /\ stops[cl[c].at] = 0 /\ records[cl[c].at].intr # "none"
        /\ db[cl[c].at] # None /\ db[cl[c].at].intr # "none"
    BY <1>4, <2>1 DEF InterruptsKnown
  <2> QED BY <1>1, <2>1, <2>2
<1>5. \A c, d \in Clients :
        /\ cl'[c].stage = "send" /\ cl'[c].op = "interrupt"
        /\ cl'[d].stage = "send" /\ cl'[d].op = "interrupt" /\ cl'[c].at = cl'[d].at
        => c = d
  BY DEF InterruptsKnown
<1> QED BY <1>3, <1>4, <1>5 DEF InterruptsKnown

\* Steps of a handler that send nothing and open no thread.
LEMMA PlacidKeeps ==
  ASSUME IInv, IInv', JInv, NEW r \in Responses, NEW y \in Responses, NEW new,
         Edits(y, new), Placid, Passes(r), UNCHANGED <<cl, stops>>,
         \A q \in Responses \ {r} : pc'[q] = pc[q] /\ conv'[q] = conv[q]
  PROVE  JInv'
<1> USE DEF JInv
<1>1. TypeOK'
  BY DEF IInv
<1>2. TInv'
  BY <1>1, PlacidTables
<1>3. CInv'
  <2>0. /\ records \in [Responses -> Fields!Execution \cup {None}]
    BY DEF IInv, TypeOK
  <2>1. conv'[r] = conv[r] \/ start[r] = "none"
    BY DEF Placid, IInv, StartsInOrder, Before
  <2>2. \A q \in Responses :
           /\ start[q] = "accepted" => start'[q] = "accepted"
           /\ start'[q] = "sent" => start[q] = "sent"
    BY DEF Placid
  <2>3. \A q \in Responses :
          records[q] # None => records'[q].thread = records[q].thread
    BY <2>0 DEF Edits, Call, Kept
  <2> QED BY <1>1, <2>1, <2>2, <2>3, HandlerLocks
<1>4. InterruptsKnown' /\ InterruptSentOnce'
  <2>1. \/ UNCHANGED <<records, db>>
        \/ /\ new \in Fields!Execution
           /\ records[y] # None /\ records[y].intr # "none" => new.intr # "none"
           /\ records[y] = None => db[y] = None
    BY DEF Edits, Kept
  <2> QED BY <1>1, <2>1, InterruptsStay DEF Edits, InterruptSentOnce
<1> QED BY <1>2, <1>3, <1>4
-----------------------------------------------------------------------------
(* The handler's steps of that kind.                                       *)

LEMMA UnchangedEdits ==
  ASSUME NEW r, UNCHANGED store
  PROVE  Edits(r, records[r])
BY DEF Edits, Call, store

LEMMA TurnKept ==
  ASSUME IInv, NEW r \in Responses, records[r] # None, NEW new, KeepsTurn(new, records[r]),
         Stores(r, new) \/ StoreRefuses(r, new)
  PROVE  Edits(r, new)
BY CallFacts DEF Edits, KeepsTurn

LEMMA Entered ==
  ASSUME IInv, NEW r \in Responses, records[r] # None
  PROVE  records[r] \in Fields!Execution
BY DEF IInv, TypeOK

LEMMA ObservesEdits ==
  ASSUME IInv, NEW q \in Responses, NEW s \in Fields!Statuses,
         Observes(q, s) \/ ObserveRefused(q, s)
  PROVE  Edits(q, Fields!ObserveEdit(records[q], s))
<1>1. CASE records[q] # None /\ records[q].turn = q
  BY <1>1, Entered, EditFacts, TurnKept DEF Observes, ObserveRefused
<1>2. CASE ~(records[q] # None /\ records[q].turn = q)
  BY <1>2 DEF Observes, ObserveRefused, Edits, Call, store
<1> QED BY <1>1, <1>2

LEMMA MovePasses ==
  ASSUME IInv, CInv, NEW r \in Responses, pc'[r] \notin Sending,
         \/ control' = Without(control, r)
         \/ control' = control /\ (pc[r] \notin Holding \/ pc'[r] \in Holding)
  PROVE  Passes(r)
<1>1. control \in [Responses -> Responses \cup Clients \cup {None}] /\ r # None
  BY NamesAssumption DEF IInv, TypeOK
<1>2. \A t \in Responses : control[t] = r => pc[r] \in Holding
  BY DEF CInv, HandlersLock, Holding, Sending
<1> QED BY <1>1, <1>2 DEF Passes, Without

LEMMA PlaceMoves ==
  ASSUME IInv, NEW r \in Responses, NEW place, Goes(r, place)
  PROVE  pc'[r] = place /\ \A q \in Responses \ {r} : pc'[q] = pc[q]
BY DEF Goes, IInv, TypeOK

LEMMA Moves ==
  ASSUME IInv, IInv', JInv, NEW r \in Responses, NEW y \in Responses, NEW new,
         Edits(y, new), pc[r] # "idle", NEW place, Goes(r, place),
         place \notin {"idle"} \cup Sending,
         \/ control' = Without(control, r)
         \/ control' = control /\ (pc[r] \notin Holding \/ place \in Holding)
         ,
         UNCHANGED <<req, conv, codex, cl, history>>
  PROVE  JInv'
<1>1. pc'[r] = place /\ \A q \in Responses \ {r} : pc'[q] = pc[q]
  BY PlaceMoves
<1>2. Placid
  BY <1>1 DEF Placid, codex, history
<1>3. Passes(r)
  BY <1>1, MovePasses DEF JInv
<1> QED BY <1>1, <1>2, <1>3, PlacidKeeps DEF history

LEMMA FailsMoves ==
  ASSUME IInv, IInv', JInv, NEW r \in Responses, NEW y \in Responses, NEW new,
         Edits(y, new), pc[r] # "idle", Fails(r), UNCHANGED <<req, conv, codex, cl, history>>
  PROVE  JInv'
BY Moves DEF Fails, Goes, Leaves, Sending

LEMMA EndsMoves ==
  ASSUME IInv, IInv', JInv, NEW r \in Responses, NEW y \in Responses, NEW new,
         Edits(y, new), pc[r] # "idle", Ends(r), UNCHANGED <<req, conv, codex, cl, history>>
  PROVE  JInv'
BY Moves DEF Ends, Leaves, Sending

LEMMA ClaimRefusedHolds ==
  ASSUME IInv, IInv', JInv, NEW r \in Responses, ClaimRefused(r)  PROVE JInv'
BY UnchangedEdits, FailsMoves DEF ClaimRefused

LEMMA InvalidHolds ==
  ASSUME IInv, IInv', JInv, NEW r \in Responses, Invalid(r)  PROVE JInv'
BY UnchangedEdits, FailsMoves DEF Invalid

LEMMA CheckNextHolds ==
  ASSUME IInv, IInv', JInv, NEW r \in Responses, NEW q \in Responses, CheckNext(r, q)
  PROVE  JInv'
<1>1. Edits(r, records[r]) /\ pc[r] \notin {"idle"} \cup Sending
  BY UnchangedEdits DEF CheckNext, Sending
<1>2. CASE Fails(r)
  BY <1>1, <1>2, FailsMoves DEF CheckNext
<1>3. CASE Goes(r, "reading") /\ UNCHANGED locks
  BY <1>1, <1>3, Moves DEF CheckNext, locks, Sending, Holding
<1> QED BY <1>2, <1>3 DEF CheckNext

LEMMA RecordReadHolds ==
  ASSUME IInv, IInv', JInv, NEW r \in Responses, RecordRead(r)  PROVE JInv'
<1> DEFINE q == scan[r].at
           s == scan[r].got
<1>1. q \in Responses /\ s \in Fields!Statuses /\ pc[r] = "reading"
  BY DEF RecordRead, IInv, EndsReal, Reads
<1>2. PICK new : Edits(q, new)
  BY <1>1, UnchangedEdits, ObservesEdits DEF RecordRead
<1>3. CASE Fails(r)
  BY <1>1, <1>2, <1>3, FailsMoves DEF RecordRead
<1>4. CASE Goes(r, "checking") /\ UNCHANGED locks
  BY <1>1, <1>2, <1>4, Moves DEF RecordRead, locks, Sending, Holding
<1> QED BY <1>3, <1>4 DEF RecordRead

LEMMA ResolveHolds ==
  ASSUME IInv, IInv', JInv, NEW r \in Responses, Resolve(r)  PROVE JInv'
BY UnchangedEdits, Moves DEF Resolve, Sending, Holding, locks

LEMMA ValidatedHolds ==
  ASSUME IInv, IInv', JInv, NEW r \in Responses, Validated(r)  PROVE JInv'
BY UnchangedEdits, Moves DEF Validated, Sending

LEMMA AcquirePermitHolds ==
  ASSUME IInv, IInv', JInv, NEW r \in Responses, AcquirePermit(r)  PROVE JInv'
BY UnchangedEdits, Moves DEF AcquirePermit, Sending, Holding

LEMMA OpenThreadHolds ==
  ASSUME IInv, IInv', JInv, NEW r \in Responses, OpenThread(r)  PROVE JInv'
<1>1. /\ pc[r] = "opening" /\ (conv[r] # None => control[conv[r]] = r)
      /\ \A t \in Responses : control[t] = r => pc[r] \in Holding
  BY DEF OpenThread, JInv, CInv, HandlersLock, Sending
<1>2. pc'[r] = "joining" /\ \A q \in Responses \ {r} : pc'[q] = pc[q]
  BY PlaceMoves DEF OpenThread
<1>3. UNCHANGED <<control, conv, req, start, sent, cl, stops>> /\ UNCHANGED store
  BY DEF OpenThread, locks, codex, history
<1>4. Placid
  BY <1>1, <1>2, <1>3 DEF Placid
<1>5. Passes(r)
  BY <1>1, <1>2, <1>3 DEF Passes, Holding, Sending
<1>6. Edits(r, records[r])
  BY <1>3, UnchangedEdits
<1> QED BY <1>2, <1>3, <1>4, <1>5, <1>6, PlacidKeeps

\* A refusal is recorded of a turn that was not sent, or that Codex refused.
LEMMA RefusalHolds ==
  ASSUME IInv, IInv', JInv, NEW r \in Responses, RefusalRecorded(r),
         pc[r] \in {"joining", "sending"} \/ (pc[r] = "starting" /\ start[r] = "refused"),
         UNCHANGED <<req, conv, codex, cl, history>>
  PROVE  JInv'
<1> DEFINE new == Fields!RejectEdit(records[r])
<1>1. records[r] # None /\ records[r] \in Fields!Execution
  BY OnRecord, Entered DEF Over
<1>2. Call(r, new) /\ Kept(new, records[r]) /\ new.turn = records[r].turn
  BY <1>1, EditFacts, CallFacts DEF RefusalRecorded
<1>3. start[r] \notin Expected /\ pc'[r] \notin Sending
  <2>1. Goes(r, "failing")
    BY DEF RefusalRecorded, Fails, Goes
  <2>2. pc'[r] = "failing"
    BY <2>1, PlaceMoves
  <2>3. pc[r] # "starting" => start[r] = "none"
    BY DEF IInv, StartsInOrder, Before
  <2> QED BY <2>2, <2>3 DEF Expected, Sending
<1> HIDE DEF new
<1>4. Edits(r, new)
  BY <1>1, <1>2, <1>3 DEF Edits
<1> QED BY <1>4, FailsMoves DEF RefusalRecorded

LEMMA ThreadNotOpenedHolds ==
  ASSUME IInv, IInv', JInv, NEW r \in Responses, ThreadNotOpened(r)  PROVE JInv'
<1>1. CASE RefusalRecorded(r)
  BY <1>1, RefusalHolds DEF ThreadNotOpened
<1>2. CASE Fails(r) /\ UNCHANGED store
  BY <1>2, UnchangedEdits, FailsMoves DEF ThreadNotOpened
<1> QED BY <1>1, <1>2 DEF ThreadNotOpened

LEMMA StartNotSentHolds ==
  ASSUME IInv, IInv', JInv, NEW r \in Responses, StartNotSent(r)  PROVE JInv'
<1>1. CASE RefusalRecorded(r)
  BY <1>1, RefusalHolds DEF StartNotSent
<1>2. CASE Fails(r) /\ UNCHANGED store
  BY <1>2, UnchangedEdits, FailsMoves DEF StartNotSent
<1> QED BY <1>1, <1>2 DEF StartNotSent

LEMMA NotStartedHolds ==
  ASSUME IInv, IInv', JInv, NEW r \in Responses, NotStarted(r)  PROVE JInv'
<1>1. CASE start[r] = "refused" /\ RefusalRecorded(r)
  BY <1>1, RefusalHolds DEF NotStarted
<1>2. CASE Fails(r) /\ UNCHANGED store
  BY <1>2, UnchangedEdits, FailsMoves DEF NotStarted
<1> QED BY <1>1, <1>2 DEF NotStarted

LEMMA StartEdits ==
  ASSUME IInv, NEW r \in Responses, pc[r] = "starting", NEW t \in Responses \cup {None},
         start[r] = "accepted" \/ t = None,
         \/ Stores(r, Fields!StartEdit(records[r], t))
         \/ StoreRefuses(r, Fields!StartEdit(records[r], t))
  PROVE  Edits(r, Fields!StartEdit(records[r], t))
<1> DEFINE new == Fields!StartEdit(records[r], t)
<1>1. records[r] # None /\ records[r] \in Fields!Execution
  BY OnRecord, Entered DEF Over
<1>2. Kept(new, records[r]) /\ new.turn = t /\ new.phase # "rejected"
  BY <1>1, EditFacts
<1>3. Call(r, new)
  BY CallFacts
<1> HIDE DEF new
<1>4. new.turn \in {records[r].turn, None} \/ (start[r] = "accepted" /\ pc[r] = "starting")
  BY <1>2
<1>5. Edits(r, new)
  BY <1>1, <1>2, <1>3, <1>4 DEF Edits
<1> QED BY <1>5 DEF new

LEMMA StartedHolds ==
  ASSUME IInv, IInv', JInv, NEW r \in Responses, Started(r)  PROVE JInv'
<1> DEFINE new == Fields!StartEdit(records[r], r)
<1>1. Edits(r, new)
  BY StartEdits DEF Started
<1> HIDE DEF new
<1>2. CASE Fails(r)
  BY <1>1, <1>2, FailsMoves DEF Started
<1>3. CASE /\ Goes(r, IF req[r].mode \in Streams THEN "announcing" ELSE "running")
           /\ control' = Without(control, r)
  BY <1>1, <1>3, Moves DEF Started, Sending
<1> QED BY <1>2, <1>3 DEF Started

LEMMA AnnouncedHolds ==
  ASSUME IInv, IInv', JInv, NEW r \in Responses, Announced(r)  PROVE JInv'
BY UnchangedEdits, Moves DEF Announced, Sending, Holding, locks

LEMMA StartedUnnamedHolds ==
  ASSUME IInv, IInv', JInv, NEW r \in Responses, StartedUnnamed(r)  PROVE JInv'
BY StartEdits, FailsMoves DEF StartedUnnamed

LEMMA RecordFailureHolds ==
  ASSUME IInv, IInv', JInv, NEW r \in Responses, RecordFailure(r)  PROVE JInv'
<1>1. records[r] # None /\ records[r] \in Fields!Execution
  BY OnRecord, Entered DEF Over, RecordFailure
<1>2. PICK new : Edits(r, new)
  BY <1>1, EditFacts, TurnKept, UnchangedEdits DEF RecordFailure
<1> QED BY <1>2, Moves DEF RecordFailure, Sending, Holding, locks

LEMMA SeesEndHolds ==
  ASSUME IInv, IInv', JInv, NEW r \in Responses, SeesEnd(r)  PROVE JInv'
<1>1. turn[r] \in Fields!Statuses
  BY DEF SeesEnd, Terminal, Fields!Terminal, Fields!Statuses
<1>2. PICK new : Edits(r, new)
  BY <1>1, ObservesEdits DEF SeesEnd
<1>3. CASE Ends(r)
  BY <1>2, <1>3, EndsMoves DEF SeesEnd
<1>4. CASE (Goes(r, "saving") \/ Goes(r, "interrupting")) /\ UNCHANGED locks
  BY <1>2, <1>4, Moves DEF SeesEnd, Sending, Holding, locks
<1> QED BY <1>3, <1>4 DEF SeesEnd

LEMMA SaveMappingHolds ==
  ASSUME IInv, IInv', JInv, NEW r \in Responses, SaveMapping(r)  PROVE JInv'
<1>1. records[r] # None /\ records[r] \in Fields!Execution
  BY OnRecord, Entered DEF Over, SaveMapping
<1>2. Edits(r, records[r])
  <2>1. CASE StoreRefuses(r, records[r])
    BY <1>1, <2>1, EditFacts, TurnKept
  <2>2. CASE UNCHANGED <<records, db, failed>>
    BY <2>2 DEF Edits, Call
  <2> QED BY <2>1, <2>2 DEF SaveMapping
<1> QED BY <1>2, EndsMoves DEF SaveMapping

LEMMA GivesUpHolds ==
  ASSUME IInv, IInv', JInv, NEW r \in Responses, GivesUp(r)  PROVE JInv'
BY UnchangedEdits, Moves DEF GivesUp, Sending, Holding, locks

LEMMA LosesEventsHolds ==
  ASSUME IInv, IInv', JInv, NEW r \in Responses, LosesEvents(r)  PROVE JInv'
<1>1. Edits(r, records[r]) /\ pc[r] = "running"
  BY UnchangedEdits DEF LosesEvents
<1>2. CASE Ends(r)
  BY <1>1, <1>2, EndsMoves DEF LosesEvents
<1>3. CASE Goes(r, "interrupting") /\ UNCHANGED locks
  BY <1>1, <1>3, Moves DEF LosesEvents, Sending, Holding, locks
<1> QED BY <1>2, <1>3 DEF LosesEvents

LEMMA InterruptAnsweredHolds ==
  ASSUME IInv, IInv', JInv, NEW r \in Responses, InterruptAnswered(r)  PROVE JInv'
BY UnchangedEdits, EndsMoves DEF InterruptAnswered

LEMMA DisconnectHolds ==
  ASSUME IInv, IInv', JInv, NEW r \in Responses, Disconnect(r)  PROVE JInv'
<1>1. Edits(r, records[r]) /\ pc[r] # "idle"
  BY UnchangedEdits DEF Disconnect, Before, Owning
<1>2. CASE Goes(r, "gone") /\ Leaves(r)
  BY <1>1, <1>2, Moves DEF Disconnect, Leaves, Sending
<1>3. CASE pc[r] = "running" /\ Goes(r, "interrupting") /\ UNCHANGED locks
  BY <1>1, <1>3, Moves DEF Disconnect, Sending, Holding, locks
<1> QED BY <1>2, <1>3 DEF Disconnect

\* The list of the check comes with the lock.
LEMMA LockControlHolds ==
  ASSUME IInv, IInv', JInv, NEW r \in Responses, LockControl(r)  PROVE JInv'
<1>1. /\ conv[r] \in Responses /\ control \in [Responses -> Responses \cup Clients \cup {None}]
      /\ control[conv[r]] = None /\ control' = [control EXCEPT ![conv[r]] = r]
      /\ pc[r] = "locking" /\ Goes(r, "checking")
  BY DEF LockControl, IInv, TypeOK, StartsInOrder
<1>2. pc'[r] = "checking" /\ \A q \in Responses \ {r} : pc'[q] = pc[q]
  BY <1>1, PlaceMoves
<1>3. Passes(r)
  BY <1>1, <1>2 DEF Passes, Holding, Sending
<1>4. Placid
  BY <1>1, <1>2 DEF Placid, LockControl, codex, history, Sending
<1> QED BY <1>2, <1>3, <1>4, UnchangedEdits, PlacidKeeps DEF LockControl, history

LEMMA ClaimThreadHolds ==
  ASSUME IInv, IInv', JInv, NEW r \in Responses, ClaimThread(r)  PROVE JInv'
<1>1. pc[r] = "received" /\ Goes(r, "locking") /\ UNCHANGED control
  BY DEF ClaimThread
<1>2. pc'[r] = "locking" /\ \A q \in Responses \ {r} : pc'[q] = pc[q]
  BY <1>1, PlaceMoves
<1>3. Passes(r)
  BY <1>1, <1>2, MovePasses DEF JInv, Holding, Sending
<1>4. \A q \in Responses \ {r} : conv'[q] = conv[q]
  BY DEF ClaimThread, IInv, TypeOK
<1>5. Placid
  BY <1>1, <1>2, <1>4 DEF Placid, ClaimThread, codex, history, Sending
<1> QED BY <1>2, <1>3, <1>4, <1>5, UnchangedEdits, PlacidKeeps DEF ClaimThread, history
-----------------------------------------------------------------------------
(* Codex, and the observer.                                                *)

LEMMA OthersMove ==
  ASSUME IInv, IInv', JInv, NEW y \in Responses, NEW new, Edits(y, new),
         UNCHANGED <<handlers, control, cl, history>>,
         \A q \in Responses :
           \/ start'[q] = start[q]
           \/ start[q] = "sent" /\ start'[q] \in {"accepted", "unnamed", "refused"}
  PROVE  JInv'
<1>1. Placid
  BY DEF Placid, handlers, history
<1>2. control \in [Responses -> Responses \cup Clients \cup {None}]
  BY DEF IInv, TypeOK
<1>3. Passes(y)
  BY <1>2 DEF Passes, handlers, JInv, CInv, HandlersLock, Holding, Sending
<1> QED BY <1>1, <1>3, PlacidKeeps DEF handlers, history

LEMMA TakeStartHolds ==
  ASSUME IInv, IInv', JInv, NEW r \in Responses, TakeStart(r)  PROVE JInv'
<1>1. start \in [Responses -> Starts]
  BY DEF IInv, TypeOK
<1> QED BY <1>1, UnchangedEdits, OthersMove DEF TakeStart, locks

LEMMA FinishTurnHolds ==
  ASSUME IInv, IInv', JInv, NEW r \in Responses, FinishTurn(r)  PROVE JInv'
BY UnchangedEdits, OthersMove DEF FinishTurn, locks

LEMMA ObserveEndHolds ==
  ASSUME IInv, IInv', JInv, NEW r \in Responses, ObserveEnd(r)  PROVE JInv'
<1>1. turn[r] \in Fields!Statuses
  BY DEF ObserveEnd, IInv, EndsReal, Terminal, Fields!Terminal, Fields!Statuses
<1>2. PICK new : Edits(r, new)
  BY <1>1, ObservesEdits DEF ObserveEnd
<1> QED BY <1>2, OthersMove DEF ObserveEnd, locks

LEMMA ObserverLagsHolds ==
  ASSUME IInv, IInv', JInv, NEW r \in Responses, ObserverLags(r)  PROVE JInv'
BY UnchangedEdits, OthersMove DEF ObserverLags, locks
-----------------------------------------------------------------------------
(* Reserving, the send boundary, and the opened thread: the entry of r is  *)
(* made, or is not an edit in place.                                       *)

LEMMA NotSent ==
  ASSUME IInv, TInv, NEW r \in Responses, pc[r] \in {"idle"} \cup (Before \ {"starting"})
  PROVE  /\ start[r] = "none" /\ r \notin Written
         /\ \A e \in {records[r], db[r]} : e # None => e.turn = None /\ e.key = req[r].key
<1>1. start[r] = "none"
  BY DEF IInv, StartsInOrder
<1>2. Entry(records[r], r) /\ Entry(db[r], r)
  BY DEF TInv, EntriesHold
<1>3. r \notin Written
  BY <1>1, WrittenFacts
<1> QED BY <1>1, <1>2, <1>3 DEF Entry

LEMMA NewEntry ==
  ASSUME IInv, TInv, NEW r \in Responses, NEW new, Call(r, new),
         new \in Fields!Execution, new.key = req'[r].key, new.turn = None,
         pc[r] \in {"idle"} \cup (Before \ {"starting"}), UNCHANGED <<start, sent>>,
         \A q \in Responses \ {r} : req'[q] = req[q] /\ conv'[q] = conv[q] /\ pc'[q] = pc[q],
         \A e \in {records[r], db[r]} : e # None => e.key = req'[r].key,
         pc'[r] \notin {"idle", "starting"},
         pc'[r] \in Sending =>
           /\ records'[r] = new /\ db'[r] = new
           /\ new.phase \notin {"received", "rejected"}
           /\ pc'[r] = "sending" =>
                /\ new.thread = conv'[r]
                /\ \A q \in Written : conv[q] = conv'[r] /\ db[q].suppress => new.suppress
  PROVE  EntriesHold' /\ Synced' /\ SentOnce' /\ SuppressionKnown' /\ SuppressionSticks'
<1> USE DEF TInv
<1>0. /\ records \in [Responses -> Fields!Execution \cup {None}]
      /\ db \in [Responses -> Fields!Execution \cup {None}]
      /\ sent \in Seq(Responses) /\ None \notin Fields!Execution
  BY NamesAssumption DEF IInv, TypeOK
<1>1. Written' = Written /\ Written \subseteq Responses
  BY <1>0, SameWritten DEF Written
<1>2. \A q \in Responses \ {r} : records'[q] = records[q] /\ db'[q] = db[q]
  BY <1>0 DEF Call
<1>3. /\ start[r] = "none" /\ r \notin Written
      /\ \A e \in {records[r], db[r]} : e # None => e.turn = None
  BY NotSent
<1>4. ASSUME NEW q \in Responses, q # r
      PROVE  Entry(records[q], q)' /\ Entry(db[q], q)'
  <2>1. Entry(records[q], q) /\ Entry(db[q], q)
    BY DEF EntriesHold
  <2> QED BY <1>1, <1>2, <1>4, <2>1 DEF Entry
<1>5. /\ records'[r] \in {records[r], new} /\ db'[r] \in {db[r], new}
      /\ \/ records'[r] = records[r] /\ db'[r] = db[r]
         \/ db'[r] = new /\ (records'[r] = new \/ failed')
  BY <1>0 DEF Call
<1>6. Entry(records[r], r)'
  BY <1>0, <1>1, <1>3, <1>5 DEF Entry, Sending
<1>7. Entry(db[r], r)'
  BY <1>0, <1>1, <1>3, <1>5 DEF Entry, Sending
<1>8. EntriesHold'
  BY <1>4, <1>6, <1>7 DEF EntriesHold
<1>9. Synced'
  BY <1>0, <1>2, <1>5 DEF Synced, Call
<1>10. SentOnce'
  BY <1>1 DEF SentOnce
<1>11. \A q \in Written : q # r
  BY <1>3
<1>12. SuppressionKnown'
  BY <1>0, <1>1, <1>2, <1>11 DEF SuppressionKnown, Sending
<1>13. SuppressionSticks'
  BY <1>0, <1>1, <1>2, <1>11, SticksKept
<1> QED BY <1>8, <1>9, <1>10, <1>12, <1>13

LEMMA ReserveHolds ==
  ASSUME IInv, IInv', JInv, NEW r \in Responses, NEW x \in Inputs[r], Reserve(r, x)
  PROVE  JInv'
<1> DEFINE new == Fields!NewExecution(x.key, None, NextSequence)
<1>0. /\ req \in [Responses -> [mode : Modes, key : Keys \cup {None},
                                prev : Responses \cup {None}, suppress : BOOLEAN]]
      /\ control \in [Responses -> Responses \cup Clients \cup {None}]
      /\ db \in [Responses -> Fields!Execution \cup {None}] /\ TypeOK'
      /\ None \notin Fields!Execution
  BY NamesAssumption DEF IInv, TypeOK
<1>1. x.key \in Keys \cup {None}
  BY InputsAssumption
<1>2. new \in Fields!Execution /\ new.key = x.key /\ new.turn = None
  <2>1. new \in Fields!Execution
    BY <1>1, SequenceFacts, NewFacts DEF Storable
  <2> QED BY <2>1 DEF Fields!NewExecution
<1>3. Call(r, new)
  BY CallFacts DEF Reserve
<1>4. pc[r] = "idle" /\ records[r] = None /\ db[r] = None
  BY DEF Reserve, JInv, TInv, EntriesHold, Entry
<1>5. PICK place \in {"done", "waiting", "received"} : Goes(r, place)
  BY DEF Reserve
<1>6. pc'[r] = place /\ \A q \in Responses \ {r} : pc'[q] = pc[q]
  BY <1>5, PlaceMoves
<1>7. req'[r] = x /\ \A q \in Responses \ {r} : req'[q] = req[q]
  BY <1>0 DEF Reserve
<1>8. ~failed /\ ~UNCHANGED <<records, db>> => Holder(x.key) = {}
  BY DEF Reserve, store
<1> HIDE DEF new
<1>9. EntriesHold' /\ Synced' /\ SentOnce' /\ SuppressionKnown' /\ SuppressionSticks'
  BY <1>2, <1>3, <1>4, <1>6, <1>7, NewEntry DEF JInv, Reserve, codex, history, Sending
<1>10. KeysOnce'
  <2>1. \A q \in Responses \ {r} : db'[q] = db[q]
    BY <1>0, <1>3 DEF Call
  <2>2. ASSUME NEW q \in Responses \ {r}, db'[r] # None, db[q] # None, x.key # None
        PROVE  x.key # req[q].key
    <3>1. ~failed /\ ~UNCHANGED <<records, db>>
      BY <1>3, <1>4, <2>2 DEF Call
    <3>2. records[q] # None /\ records[q].key = req[q].key
      BY <2>2, <3>1 DEF JInv, TInv, Synced, EntriesHold, Entry
    <3> QED BY <1>8, <2>2, <3>1, <3>2 DEF Holder
  <2> QED BY <1>7, <2>1, <2>2 DEF KeysOnce, JInv, TInv
<1>11. CInv'
  <2>1. Passes(r)
    BY <1>0, <1>4, <1>6 DEF Passes, Reserve, locks, JInv, CInv, HandlersLock, Holding, Sending
  <2>2. \A q \in Responses : records[q] # None => records'[q] = records[q]
    <3>1. records \in [Responses -> Fields!Execution \cup {None}]
      BY DEF IInv, TypeOK
    <3> QED BY <1>3, <1>4, <3>1 DEF Call
  <2> QED BY <1>0, <1>6, <2>1, <2>2, HandlerLocks DEF Reserve, codex, JInv
<1>12. InterruptsKnown' /\ InterruptSentOnce'
  BY <1>0, <1>2, <1>3, <1>4, InterruptsStay DEF JInv, Reserve, history, InterruptSentOnce
<1> QED BY <1>9, <1>10, <1>11, <1>12 DEF JInv, TInv

\* Nothing else of the keys changes.
LEMMA SameKeys ==
  ASSUME KeysOnce, UNCHANGED req, \A q \in Responses : db'[q] # None => db[q] # None
  PROVE  KeysOnce'
BY DEF KeysOnce

LEMMA DispatchHolds ==
  ASSUME IInv, IInv', JInv, NEW r \in Responses, Dispatch(r)  PROVE JInv'
<1> DEFINE new == Fields!DispatchEdit(records[r], conv[r])
<1>0. /\ records \in [Responses -> Fields!Execution \cup {None}]
      /\ db \in [Responses -> Fields!Execution \cup {None}]
      /\ conv \in [Responses -> Responses \cup {None}]
      /\ control \in [Responses -> Responses \cup Clients \cup {None}]
      /\ None \notin Fields!Execution \cup Responses /\ TypeOK'
  BY NamesAssumption DEF IInv, TypeOK
<1>1. /\ pc[r] = "dispatching" /\ records[r] # None /\ records[r] \in Fields!Execution
      /\ conv[r] # None => control[conv[r]] = None
  BY OnRecord, Entered DEF Dispatch, Over
<1>2. /\ new \in Fields!Execution /\ new.key = records[r].key /\ new.turn = records[r].turn
      /\ new.phase = "dispatching" /\ new.intr = records[r].intr
  BY <1>0, <1>1, EditFacts
<1>3. /\ start[r] = "none" /\ r \notin Written /\ records[r].turn = None
      /\ \A e \in {records[r], db[r]} : e # None => e.key = req[r].key
  BY <1>1, NotSent DEF JInv, Before
<1>4. Call(r, new)
  BY CallFacts DEF Dispatch
<1>5. \/ /\ Goes(r, "opening") /\ records' = [records EXCEPT ![r] = new]
         /\ db' = [db EXCEPT ![r] = new]
         /\ control' = [t \in Responses |-> IF t = conv[r] THEN r ELSE control[t]]
      \/ Goes(r, "failing") /\ control' = Without(control, r)
  BY DEF Dispatch, Stores, Fails, Goes, Leaves
<1>6. PICK place \in {"opening", "failing"} : Goes(r, place)
  BY <1>5
<1>7. pc'[r] = place /\ \A q \in Responses \ {r} : pc'[q] = pc[q]
  BY <1>6, PlaceMoves
<1> HIDE DEF new
<1>8. Passes(r)
  <2>1. CASE /\ Goes(r, "opening")
             /\ control' = [t \in Responses |-> IF t = conv[r] THEN r ELSE control[t]]
    <3>1. pc'[r] = "opening"
      BY <2>1, PlaceMoves
    <3> QED BY <1>0, <1>1, <2>1, <3>1 DEF Passes, Dispatch, Holding, Sending
  <2>2. CASE Goes(r, "failing") /\ control' = Without(control, r)
    <3>1. pc'[r] = "failing"
      BY <2>2, PlaceMoves
    <3> QED BY <2>2, <3>1, MovePasses DEF JInv, Sending
  <2> QED BY <1>5, <2>1, <2>2
<1>9. pc'[r] \in Sending => records'[r] = new /\ db'[r] = new /\ pc'[r] = "opening"
  <2>1. pc'[r] \in Sending => ~Goes(r, "failing")
    BY PlaceMoves DEF Sending
  <2> QED BY <1>0, <1>5, <1>7, <2>1 DEF Sending
<1>10. EntriesHold' /\ Synced' /\ SentOnce' /\ SuppressionKnown' /\ SuppressionSticks'
  <2>1. UNCHANGED <<req, conv, start, sent>>
    BY DEF Dispatch, codex, history
  <2>2. pc'[r] \notin {"idle", "starting"} /\ pc[r] \in Before \ {"starting"}
    BY <1>1, <1>7 DEF Before
  <2>3. new.key = req'[r].key /\ new.turn = None
    BY <1>1, <1>2, <1>3, <2>1
  <2> QED BY <1>2, <1>3, <1>4, <1>7, <1>9, <2>1, <2>2, <2>3, NewEntry DEF JInv
<1>11. KeysOnce'
  <2>1. \A q \in Responses : db'[q] # None => db[q] # None
    BY <1>0, <1>1, <1>4 DEF Call, JInv, TInv, Synced
  <2> QED BY <2>1, SameKeys DEF JInv, TInv, Dispatch
<1>12. CInv'
  <2>1. \A q \in Responses : q # r => records'[q] = records[q]
    BY <1>0, <1>4 DEF Call
  <2> QED BY <1>0, <1>3, <1>7, <1>8, <2>1, HandlerLocks DEF Dispatch, codex, JInv
<1>13. InterruptsKnown' /\ InterruptSentOnce'
  BY <1>0, <1>1, <1>2, <1>4, InterruptsStay DEF JInv, Dispatch, history, InterruptSentOnce
<1> QED BY <1>10, <1>11, <1>12, <1>13 DEF JInv, TInv

LEMMA ThreadOpenedHolds ==
  ASSUME IInv, IInv', JInv, NEW r \in Responses, ThreadOpened(r)  PROVE JInv'
<1> DEFINE t == IF conv[r] = None THEN r ELSE conv[r]
           s == Suppressed(r, t)
           new == Fields!ThreadEdit(records[r], t, s)
<1>0. /\ records \in [Responses -> Fields!Execution \cup {None}]
      /\ db \in [Responses -> Fields!Execution \cup {None}]
      /\ conv \in [Responses -> Responses \cup {None}]
      /\ control \in [Responses -> Responses \cup Clients \cup {None}]
      /\ None \notin Fields!Execution \cup Responses /\ TypeOK'
  BY NamesAssumption DEF IInv, TypeOK
<1>1. /\ pc[r] = "joining" /\ records[r] # None /\ records[r] \in Fields!Execution
      /\ t \in Responses /\ control[t] \in {None, r} /\ conv' = [conv EXCEPT ![r] = t]
  BY <1>0, OnRecord, Entered DEF ThreadOpened, Over
<1>2. s \in BOOLEAN
  BY <1>1 DEF Suppressed, IInv, TypeOK, Fields!Execution
<1>3. /\ new \in Fields!Execution /\ new.key = records[r].key /\ new.turn = records[r].turn
      /\ new.phase = records[r].phase /\ new.intr = records[r].intr
      /\ new.thread = t /\ new.suppress = s
  <2>1. ASSUME NEW b \in BOOLEAN, NEW u \in Responses, NEW e,
               e = Fields!ThreadEdit(records[r], u, b)
        PROVE  /\ e \in Fields!Execution /\ e.key = records[r].key
               /\ e.turn = records[r].turn /\ e.phase = records[r].phase
               /\ e.intr = records[r].intr /\ e.thread = u /\ e.suppress = b
    <3>1. records[r] \in Fields!Execution
      BY <1>1
    <3> QED BY <2>1, <3>1 DEF Fields!ThreadEdit, Fields!Execution
  <2> HIDE DEF s, t
  <2> QED BY <1>1, <1>2, <2>1
<1>4. /\ start[r] = "none" /\ r \notin Written /\ records[r].turn = None
      /\ \A e \in {records[r], db[r]} : e # None => e.key = req[r].key
  BY <1>1, NotSent DEF JInv, Before
<1>5. records[r].phase \notin {"received", "rejected"}
  BY <1>1 DEF JInv, TInv, EntriesHold, Entry, Sending
<1>6. \A q \in Written : conv[q] = t /\ db[q].suppress => s
  <2> SUFFICES ASSUME NEW q \in Written, conv[q] = t, db[q].suppress
               PROVE  \E p \in Responses :
                        records[p] # None /\ records[p].thread = t /\ records[p].suppress
    BY DEF Suppressed
  <2>1. q \in Responses
    BY DEF Written, IInv, TypeOK
  <2>2. records[q] \in Fields!Execution /\ records[q].thread = conv[q]
    BY <2>1, WrittenFacts DEF JInv
  <2>3. records[q].suppress
    BY <2>1 DEF JInv, TInv, SuppressionKnown
  <2> QED BY <1>0, <2>1, <2>2, <2>3
<1>7. Call(r, new)
  BY CallFacts DEF ThreadOpened
<1>8. \/ /\ Goes(r, "sending") /\ records' = [records EXCEPT ![r] = new]
         /\ db' = [db EXCEPT ![r] = new] /\ control' = [control EXCEPT ![t] = r]
      \/ Goes(r, "failing") /\ control' = Without(control, r)
  BY DEF ThreadOpened, Stores, Fails, Goes, Leaves
<1>9. PICK place \in {"sending", "failing"} : Goes(r, place)
  BY <1>8
<1>10. /\ pc'[r] = place /\ \A q \in Responses \ {r} : pc'[q] = pc[q]
       /\ conv'[r] = t /\ \A q \in Responses \ {r} : conv'[q] = conv[q]
  BY <1>0, <1>1, <1>9, PlaceMoves
<1> HIDE DEF new, s, t
<1>11. Passes(r)
  <2>1. CASE Goes(r, "sending") /\ control' = [control EXCEPT ![t] = r]
    <3>1. pc'[r] = "sending"
      BY <2>1, PlaceMoves
    <3> QED BY <1>0, <1>1, <1>10, <2>1, <3>1 DEF Passes, Holding, Sending
  <2>2. CASE Goes(r, "failing") /\ control' = Without(control, r)
    <3>1. pc'[r] = "failing"
      BY <2>2, PlaceMoves
    <3> QED BY <2>2, <3>1, MovePasses DEF JInv, Sending
  <2> QED BY <1>8, <2>1, <2>2
<1>12. pc'[r] \in Sending => records'[r] = new /\ db'[r] = new
  <2>1. pc'[r] \in Sending => ~Goes(r, "failing")
    BY PlaceMoves DEF Sending
  <2> QED BY <1>0, <1>8, <2>1
<1>13. EntriesHold' /\ Synced' /\ SentOnce' /\ SuppressionKnown' /\ SuppressionSticks'
  <2>1. UNCHANGED <<req, start, sent>>
    BY DEF ThreadOpened, codex, history
  <2>2. pc'[r] \notin {"idle", "starting"} /\ pc[r] \in Before \ {"starting"}
    BY <1>1, <1>10 DEF Before
  <2>3. new.key = req'[r].key /\ new.turn = None
    BY <1>1, <1>3, <1>4, <2>1
  <2> QED
    BY <1>3, <1>4, <1>5, <1>6, <1>7, <1>10, <1>12, <2>1, <2>2, <2>3, NewEntry DEF JInv
<1>14. KeysOnce'
  <2>1. \A q \in Responses : db'[q] # None => db[q] # None
    BY <1>0, <1>1, <1>7 DEF Call, JInv, TInv, Synced
  <2> QED BY <2>1, SameKeys DEF JInv, TInv, ThreadOpened
<1>15. CInv'
  <2>1. \A q \in Responses : q # r => records'[q] = records[q]
    BY <1>0, <1>7 DEF Call
  <2> QED BY <1>0, <1>4, <1>10, <1>11, <2>1, HandlerLocks DEF ThreadOpened, codex, JInv
<1>16. InterruptsKnown' /\ InterruptSentOnce'
  BY <1>0, <1>1, <1>3, <1>7, InterruptsStay DEF JInv, ThreadOpened, history, InterruptSentOnce
<1> QED BY <1>13, <1>14, <1>15, <1>16 DEF JInv, TInv

\* The turn/start is written, by the one handler that may write one on its
\* thread.
LEMMA SendStartHolds ==
  ASSUME IInv, IInv', JInv, NEW r \in Responses, SendStart(r)  PROVE JInv'
<1> USE DEF JInv, TInv
<1>0. /\ start \in [Responses -> Starts] /\ sent \in Seq(Responses) /\ TypeOK'
      /\ conv \in [Responses -> Responses \cup {None}]
      /\ control \in [Responses -> Responses \cup Clients \cup {None}]
      /\ None \notin Responses
  BY NamesAssumption DEF IInv, TypeOK
<1>1. /\ pc[r] = "sending" /\ Goes(r, "starting") /\ start' = [start EXCEPT ![r] = "sent"]
      /\ sent' = Append(sent, r)
      /\ UNCHANGED <<store, req, conv, scan, locks, turn, unobserved, cl, stops>>
  BY DEF SendStart
<1>2. pc'[r] = "starting" /\ \A q \in Responses \ {r} : pc'[q] = pc[q]
  BY <1>1, PlaceMoves
<1>3. start[r] = "none" /\ r \notin Written /\ conv[r] \in Responses
  BY <1>0, <1>1, NotSent DEF Before, IInv, StartsInOrder
<1>4. /\ Len(sent) \in Nat /\ DOMAIN sent = 1..Len(sent)
      /\ DOMAIN sent' = 1..(Len(sent) + 1) /\ sent'[Len(sent) + 1] = r
      /\ \A n \in DOMAIN sent : sent'[n] = sent[n] /\ sent[n] \in Responses
  BY <1>0, <1>1
<1>5. Written' = Written \cup {r}
  BY <1>4 DEF Written
<1>6. EntriesHold'
  <2>1. ASSUME NEW q \in Responses PROVE Entry(records[q], q)' /\ Entry(db[q], q)'
    <3>1. Entry(records[q], q) /\ Entry(db[q], q)
      BY DEF EntriesHold
    <3>2. CASE q = r
      BY <1>0, <1>1, <1>2, <1>3, <1>5, <3>1, <3>2 DEF Entry, store, Sending
    <3>3. CASE q # r
      BY <1>0, <1>1, <1>2, <1>5, <3>1, <3>3 DEF Entry, store, Sending
    <3> QED BY <3>2, <3>3
  <2> QED BY <2>1 DEF EntriesHold
<1>7. Synced' /\ KeysOnce'
  BY <1>1 DEF Synced, KeysOnce, store
<1>8. SentOnce'
  <2>1. \A q \in Written' : start'[q] # "none"
    BY <1>0, <1>1, <1>4, <1>5 DEF SentOnce, Written
  <2>2. \A q \in Responses : pc'[q] = "starting" => q \in Written'
    BY <1>2, <1>5 DEF SentOnce
  <2>3. \A n \in DOMAIN sent : sent[n] # r
    BY <1>3 DEF Written
  <2>4. \A m, n \in DOMAIN sent' : sent'[m] = sent'[n] => m = n
    BY <1>4, <2>3 DEF SentOnce
  <2> QED BY <2>1, <2>2, <2>4 DEF SentOnce
<1>9. SuppressionKnown'
  <2>1. \A q \in Responses \ {r} : pc'[q] = "sending" => conv'[q] # conv'[r]
    BY <1>1, <1>2, <1>3, OneStarter, NamesAssumption DEF Before
  <2> QED BY <1>1, <1>2, <1>5, <2>1 DEF SuppressionKnown, store
<1>10. SuppressionSticks'
  <2> SUFFICES ASSUME NEW m \in DOMAIN sent', NEW n \in DOMAIN sent', m < n,
                      conv[sent'[m]] = conv[sent'[n]], db[sent'[m]].suppress
               PROVE  db[sent'[n]].suppress
    BY <1>1 DEF SuppressionSticks, store
  <2>1. m \in DOMAIN sent
    BY <1>4
  <2>2. CASE n \in DOMAIN sent
    BY <1>4, <2>1, <2>2 DEF SuppressionSticks
  <2>3. CASE n = Len(sent) + 1
    BY <1>1, <1>4, <2>1, <2>3 DEF SuppressionKnown, Written
  <2> QED BY <1>4, <2>2, <2>3
<1>11. CInv'
  <2>1. control[conv[r]] = r
    BY <1>1, <1>3, <1>0 DEF CInv, HandlersLock, Sending
  <2>2. \A t \in Responses : control[t] = r => pc'[r] \in Holding
    BY <1>2 DEF Holding, Sending
  <2>3. Passes(r)
    BY <1>0, <1>1, <2>1, <2>2 DEF Passes, locks
  <2>4. \A q \in Responses : start'[q] = start[q] \/ (q = r /\ start[q] = "none")
    BY <1>0, <1>1, <1>3
  <2> QED BY <1>0, <1>1, <1>2, <1>3, <2>1, <2>3, <2>4, HandlerLocks DEF store
<1>12. InterruptsKnown' /\ InterruptSentOnce'
  BY <1>1 DEF InterruptsKnown, InterruptSentOnce, store
<1> QED BY <1>6, <1>7, <1>8, <1>9, <1>10, <1>11, <1>12
-----------------------------------------------------------------------------
(* The control clients.                                                    *)

\* A client takes or drops the control lock, and what it is at fits.
ClientPasses(c) ==
  /\ \A d \in Clients \ {c} : cl'[d] = cl[d]
  /\ \A t \in Responses :
       \/ control'[t] = control[t]
       \/ control[t] = c /\ control'[t] = None
       \/ control[t] = None /\ control'[t] = c
  /\ \A t \in Responses : control'[t] = c => cl'[c].stage \notin {"idle", "lock"}
  /\ cl'[c].stage # "idle" => LET q == cl'[c].at IN
       /\ start[q] = "accepted" /\ records[q] # None /\ records[q].thread = conv[q]
       /\ cl'[c].stage \in {"lock", "decide", "send", "sent"} => cl'[c].op # "status"
       /\ cl'[c].stage \in {"send", "sent"} => cl'[c].got = "inProgress"
       /\ cl'[c].stage # "lock" /\ cl'[c].op # "status" =>
            /\ control'[conv[q]] = c
            /\ cl'[c].stage # "read" /\ cl'[c].got = "inProgress" =>
                 \A p \in Responses : p # q /\ conv[p] = conv[q] => start[p] # "sent"

LEMMA ClientLocks ==
  ASSUME IInv, IInv', CInv, NEW c \in Clients, ClientPasses(c), UNCHANGED <<conv, pc, start>>,
         \A q \in Responses : records[q] # None => records'[q].thread = records[q].thread
  PROVE  CInv'
<1> USE DEF CInv
<1>0. /\ conv \in [Responses -> Responses \cup {None}]
      /\ control \in [Responses -> Responses \cup Clients \cup {None}]
      /\ control' \in [Responses -> Responses \cup Clients \cup {None}]
      /\ None \notin Responses \cup Clients /\ Responses \cap Clients = {}
  BY NamesAssumption DEF IInv, TypeOK
<1>1. HandlersLock'
  <2>1. ASSUME NEW t \in Responses, control'[t] \in Responses
        PROVE  pc[control'[t]] \in Holding
    BY <1>0, <2>1 DEF HandlersLock, ClientPasses
  <2>2. ASSUME NEW r \in Responses, pc[r] \in Sending, conv[r] # None
        PROVE  control'[conv[r]] = r
    BY <1>0, <2>2 DEF HandlersLock, ClientPasses
  <2> QED BY <2>1, <2>2 DEF HandlersLock
<1>2. \A d \in Clients : cl'[d].stage # "idle" => cl'[d].at \in Responses
  BY DEF IInv, CallersOnRecord
<1>3. ClientsLock'
  <2>1. \A t \in Responses :
          control'[t] \in Clients => cl'[control'[t]].stage \notin {"idle", "lock"}
    BY <1>0 DEF ClientsLock, ClientPasses
  <2>2. ASSUME NEW d \in Clients, cl'[d].stage # "idle"
        PROVE  start[cl'[d].at] = "accepted" /\ records'[cl'[d].at].thread = conv[cl'[d].at]
    <3>1. CASE d = c
      BY <1>2, <2>2, <3>1 DEF ClientPasses
    <3>2. CASE d # c
      <4>1. cl'[d] = cl[d]
        BY <3>2 DEF ClientPasses
      <4>2. ClientFacts(d)
        BY <2>2, <4>1, AtFacts
      <4> QED BY <2>2, <4>1, <4>2, NamesAssumption DEF ClientsLock, ClientFacts
    <3> QED BY <3>1, <3>2
  <2>3. ASSUME NEW d \in Clients
        PROVE  /\ cl'[d].stage \in {"lock", "decide", "send", "sent"} => cl'[d].op # "status"
               /\ cl'[d].stage \in {"send", "sent"} => cl'[d].got = "inProgress"
               /\ cl'[d].stage \notin {"idle", "lock"} /\ cl'[d].op # "status" =>
                    control'[conv[cl'[d].at]] = d
    <3>1. CASE d = c
      BY <3>1 DEF ClientPasses
    <3>2. CASE d # c
      <4>1. cl'[d] = cl[d]
        BY <3>2 DEF ClientPasses
      <4>2. cl[d].stage # "idle" => ClientFacts(d)
        BY AtFacts
      <4> QED BY <1>0, <3>2, <4>1, <4>2 DEF ClientsLock, ClientFacts, ClientPasses, Inside
    <3> QED BY <3>1, <3>2
  <2> QED BY <2>1, <2>2, <2>3 DEF ClientsLock, Inside
<1>4. NoStartBehind'
  <2> SUFFICES ASSUME NEW d \in Clients, NEW p \in Responses,
                      Inside(d)', cl'[d].stage # "read", cl'[d].got = "inProgress",
                      p # cl'[d].at, conv[p] = conv[cl'[d].at]
               PROVE  start[p] # "sent"
    BY DEF NoStartBehind
  <2>1. CASE d = c
    BY <2>1 DEF ClientPasses, Inside
  <2>2. CASE d # c
    BY <2>2 DEF ClientPasses, NoStartBehind, Inside
  <2> QED BY <2>1, <2>2
<1> QED BY <1>1, <1>3, <1>4

\* A step of a client, but for what it says of interruptions.
LEMMA ClientMoves ==
  ASSUME IInv, IInv', JInv, NEW c \in Clients, NEW y \in Responses, NEW new, Edits(y, new),
         ClientPasses(c), UNCHANGED <<handlers, codex, sent>>
  PROVE  TInv' /\ CInv'
<1>1. Placid
  BY DEF Placid, handlers, codex
<1>2. TInv'
  BY <1>1, PlacidTables DEF JInv, IInv
<1>3. \A q \in Responses : records[q] # None => records'[q].thread = records[q].thread
  <2>1. records \in [Responses -> Fields!Execution \cup {None}]
    BY DEF IInv, TypeOK
  <2> QED BY <2>1 DEF Edits, Call, Kept
<1> QED BY <1>2, <1>3, ClientLocks DEF JInv, handlers, codex

LEMMA ClientHolds ==
  ASSUME IInv, IInv', JInv, NEW c \in Clients, NEW y \in Responses, NEW new, Edits(y, new),
         ClientPasses(c), UNCHANGED <<handlers, codex, history>>, cl'[c].stage # "send"
  PROVE  JInv'
<1>1. TInv' /\ CInv'
  BY ClientMoves DEF history
<1>2. \/ UNCHANGED <<records, db>>
      \/ /\ new \in Fields!Execution
         /\ records[y] # None /\ records[y].intr # "none" => new.intr # "none"
         /\ records[y] = None => db[y] = None
  BY DEF Edits, Kept
<1>3. \A d \in Clients : cl'[d].stage = "send" => cl'[d] = cl[d]
  BY DEF ClientPasses
<1> QED BY <1>1, <1>2, <1>3, InterruptsStay DEF JInv, IInv, Edits, InterruptSentOnce, history

LEMMA ClientEndsHolds ==
  ASSUME IInv, IInv', JInv, NEW c \in Clients, NEW y \in Responses, NEW new, Edits(y, new),
         ClientEnds(c), UNCHANGED <<handlers, codex, history>>
  PROVE  JInv'
<1>1. /\ control \in [Responses -> Responses \cup Clients \cup {None}] /\ c # None
      /\ cl' = [cl EXCEPT ![c] = Idle] /\ control' = Without(control, c)
  BY NamesAssumption DEF IInv, TypeOK, ClientEnds
<1>2. cl'[c].stage = "idle" /\ \A d \in Clients \ {c} : cl'[d] = cl[d]
  BY <1>1 DEF IInv, TypeOK, Idle
<1>3. ClientPasses(c)
  BY <1>1, <1>2 DEF ClientPasses, Without
<1> QED BY <1>2, <1>3, ClientHolds

LEMMA AskHolds ==
  ASSUME IInv, IInv', JInv, NEW c \in Clients, NEW a \in Asks, Ask(c, a)  PROVE JInv'
<1> DEFINE new == [op |-> a.op, at |-> a.at, got |-> None, stage |-> FirstStage(a.op)]
<1>1. /\ a.at \in Responses /\ a.op \in {"status", "interrupt", "steer"}
      /\ records[a.at] # None /\ records[a.at].turn = a.at /\ a.at # None
      /\ cl[c].stage = "idle" /\ cl' = [cl EXCEPT ![c] = new] /\ UNCHANGED control
  BY AsksAssumption, NamesAssumption DEF Ask, locks
<1>2. /\ new.op = a.op /\ new.at = a.at
      /\ new.stage = IF a.op = "status" THEN "read" ELSE "lock"
  BY DEF FirstStage
<1> HIDE DEF new
<1>3. cl'[c] = new /\ \A d \in Clients \ {c} : cl'[d] = cl[d]
  BY <1>1 DEF IInv, TypeOK
<1>4. start[a.at] = "accepted" /\ records[a.at].thread = conv[a.at]
  BY <1>1 DEF JInv, TInv, EntriesHold, Entry
<1>5. \A t \in Responses : control[t] # c
  BY <1>1 DEF JInv, CInv, ClientsLock
<1>6. ClientPasses(c)
  BY <1>1, <1>2, <1>3, <1>4, <1>5 DEF ClientPasses
<1>7. cl'[c].stage # "send"
  BY <1>2, <1>3
<1> QED BY <1>1, <1>6, <1>7, UnchangedEdits, ClientHolds DEF Ask

LEMMA ClientLockHolds ==
  ASSUME IInv, IInv', JInv, NEW c \in Clients, ClientLock(c)  PROVE JInv'
<1> DEFINE t == records[cl[c].at].thread
<1>1. ClientFacts(c) /\ start[cl[c].at] = "accepted" /\ t = conv[cl[c].at]
      /\ cl[c].op # "status" /\ cl[c].stage = "lock"
  BY AtFacts DEF ClientLock, JInv, CInv, ClientsLock
<1>2. /\ control \in [Responses -> Responses \cup Clients \cup {None}] /\ t \in Responses
      /\ control[t] = None /\ control' = [control EXCEPT ![t] = c]
      /\ \A d \in Clients \ {c} : cl'[d] = cl[d]
      /\ cl'[c].op = cl[c].op /\ cl'[c].at = cl[c].at /\ cl'[c].stage = "read"
  BY <1>1 DEF ClientLock, IInv, TypeOK, ClientFacts
<1>3. records[cl[c].at] # None
  BY <1>1, NamesAssumption DEF ClientFacts
<1> HIDE DEF t
<1>4. ClientPasses(c)
  BY <1>1, <1>2, <1>3, NamesAssumption DEF ClientPasses, JInv, CInv, ClientsLock
<1> QED BY <1>1, <1>2, <1>4, UnchangedEdits, ClientHolds DEF ClientLock, ClientFacts

\* The client stays inside the lock, at the turn it asked about.
LEMMA StaysInside ==
  ASSUME IInv, JInv, NEW c \in Clients, cl[c].stage \notin {"idle", "lock"},
         \A d \in Clients \ {c} : cl'[d] = cl[d],
         cl'[c].op = cl[c].op, cl'[c].at = cl[c].at, UNCHANGED control,
         cl'[c].stage \notin {"idle", "lock", "read"},
         cl'[c].stage \in {"decide", "send", "sent"} => cl[c].op # "status",
         cl'[c].stage \in {"send", "sent"} => cl'[c].got = "inProgress",
         cl[c].op # "status" /\ cl'[c].got = "inProgress" =>
           \A p \in Responses :
             p # cl[c].at /\ conv[p] = conv[cl[c].at] => start[p] # "sent"
  PROVE  ClientPasses(c)
<1>1. /\ ClientFacts(c) /\ start[cl[c].at] = "accepted"
      /\ records[cl[c].at].thread = conv[cl[c].at] /\ records[cl[c].at] # None
  BY AtFacts, NamesAssumption DEF JInv, CInv, ClientsLock, ClientFacts
<1>2. cl[c].op # "status" => control[conv[cl[c].at]] = c
  BY DEF JInv, CInv, ClientsLock, Inside
<1> QED BY <1>1, <1>2 DEF ClientPasses

LEMMA ClientReadsHolds ==
  ASSUME IInv, IInv', JInv, NEW c \in Clients, ClientReads(c)  PROVE JInv'
<1>1. PICK s \in ReadAnswers(cl[c].at) :
        cl' = [cl EXCEPT ![c].got = s, ![c].stage = "observe"]
  BY DEF ClientReads
<1>2. /\ cl[c].stage = "read" /\ \A d \in Clients \ {c} : cl'[d] = cl[d]
      /\ cl'[c].op = cl[c].op /\ cl'[c].at = cl[c].at /\ cl'[c].stage = "observe"
      /\ cl'[c].got = s /\ UNCHANGED control
  BY <1>1 DEF ClientReads, IInv, TypeOK, locks
<1>3. cl[c].at \in Responses
  BY <1>2 DEF IInv, CallersOnRecord
<1>4. ASSUME s = "inProgress", NEW p \in Responses, p # cl[c].at, conv[p] = conv[cl[c].at]
      PROVE  start[p] # "sent"
  <2>1. turn[cl[c].at] = "running"
    BY <1>4 DEF ReadAnswers, Terminal, Fields!Terminal
  <2> QED BY <1>3, <1>4, <2>1 DEF IInv, OneActiveTurnPerThread, Active
<1>5. ClientPasses(c)
  BY <1>2, <1>4, StaysInside
<1> QED BY <1>2, <1>3, <1>5, UnchangedEdits, ClientHolds DEF ClientReads

\* ... and goes on.
LEMMA GoesOn ==
  ASSUME IInv, IInv', JInv, NEW c \in Clients, cl[c].stage \in {"observe", "decide", "send"},
         cl[c].op # "status", NEW stage \in {"decide", "send", "sent"},
         cl' = [cl EXCEPT ![c].stage = stage], UNCHANGED control,
         stage \in {"send", "sent"} => cl[c].got = "inProgress"
  PROVE  /\ ClientPasses(c) /\ \A d \in Clients \ {c} : cl'[d] = cl[d]
         /\ cl'[c].op = cl[c].op /\ cl'[c].at = cl[c].at /\ cl'[c].stage = stage
         /\ cl[c].at \in Responses
<1>1. /\ \A d \in Clients \ {c} : cl'[d] = cl[d]
      /\ cl'[c].op = cl[c].op /\ cl'[c].at = cl[c].at /\ cl'[c].stage = stage
      /\ cl'[c].got = cl[c].got
  BY DEF IInv, TypeOK
<1>2. cl[c].got = "inProgress" =>
        \A p \in Responses : p # cl[c].at /\ conv[p] = conv[cl[c].at] => start[p] # "sent"
  BY DEF JInv, CInv, NoStartBehind, Inside
<1>3. cl[c].at \in Responses
  BY DEF IInv, CallersOnRecord
<1> QED BY <1>1, <1>2, <1>3, StaysInside

LEMMA ClientObservesHolds ==
  ASSUME IInv, IInv', JInv, NEW c \in Clients, ClientObserves(c)  PROVE JInv'
<1> DEFINE r == cl[c].at
           s == cl[c].got
<1>1. r \in Responses /\ s \in Fields!Statuses
  BY DEF ClientObserves, IInv, CallersOnRecord, EndsReal, Reads
<1>2. PICK new : Edits(r, new)
  BY <1>1, UnchangedEdits, ObservesEdits DEF ClientObserves
<1>3. CASE ClientEnds(c)
  BY <1>1, <1>2, <1>3, ClientEndsHolds DEF ClientObserves
<1>4. CASE /\ cl[c].op # "status" /\ cl' = [cl EXCEPT ![c].stage = "decide"]
           /\ UNCHANGED locks
  <2>1. ClientPasses(c) /\ cl'[c].stage = "decide"
    BY <1>4, GoesOn DEF ClientObserves, locks
  <2> QED BY <1>1, <1>2, <2>1, ClientHolds DEF ClientObserves
<1> QED BY <1>3, <1>4 DEF ClientObserves

\* What an interrupt or its answer leaves on record.
LEMMA MarkEdits ==
  ASSUME IInv, NEW r \in Responses, records[r] # None, NEW mark \in {"unknown", "accepted"},
         LET new == Fields!InterruptEdit(records[r], mark)
         IN  Stores(r, new) \/ StoreRefuses(r, new)
  PROVE  /\ Edits(r, Fields!InterruptEdit(records[r], mark))
         /\ Fields!InterruptEdit(records[r], mark).intr = mark
         /\ Fields!InterruptEdit(records[r], mark) # None
<1> DEFINE new == Fields!InterruptEdit(records[r], mark)
<1>1. KeepsTurn(new, records[r]) /\ new.intr = mark
  BY Entered, EditFacts
<1>2. new # None
  BY <1>1, NamesAssumption DEF KeepsTurn, Kept
<1>3. Edits(r, new)
  <2> HIDE DEF new
  <2>1. Stores(r, new) \/ StoreRefuses(r, new)
    BY DEF new
  <2> QED BY <1>1, <2>1, TurnKept
<1> QED BY <1>1, <1>2, <1>3

LEMMA ClientAnsweredHolds ==
  ASSUME IInv, IInv', JInv, NEW c \in Clients, ClientAnswered(c)  PROVE JInv'
<1>1. cl[c].at \in Responses /\ records[cl[c].at] # None
  BY DEF ClientAnswered, IInv, CallersOnRecord
<1>2. PICK new : Edits(cl[c].at, new)
  BY <1>1, UnchangedEdits, MarkEdits DEF ClientAnswered
<1> QED BY <1>1, <1>2, ClientEndsHolds DEF ClientAnswered

LEMMA ClientGoneHolds ==
  ASSUME IInv, IInv', JInv, NEW c \in Clients, ClientGone(c)  PROVE JInv'
<1>1. cl[c].at \in Responses
  BY DEF ClientGone, IInv, CallersOnRecord
<1> QED BY <1>1, UnchangedEdits, ClientEndsHolds DEF ClientGone

\* An interruption is stored by one client, before any was sent.
LEMMA ClientDecidesHolds ==
  ASSUME IInv, IInv', JInv, NEW c \in Clients, ClientDecides(c)  PROVE JInv'
<1> DEFINE r == cl[c].at
           new == Fields!InterruptEdit(records[r], "unknown")
<1>1. /\ r \in Responses /\ records[r] # None /\ cl[c].stage = "decide"
      /\ cl[c].op # "status"
  BY DEF ClientDecides, IInv, CallersOnRecord, JInv, CInv, ClientsLock
<1>2. CASE ClientEnds(c)
  <2>1. \E e : Edits(r, e)
    BY <1>1, <1>2, UnchangedEdits, MarkEdits DEF ClientDecides
  <2> QED BY <1>1, <1>2, <2>1, ClientEndsHolds DEF ClientDecides
<1>3. CASE /\ MayAct(c) /\ cl' = [cl EXCEPT ![c].stage = "send"] /\ UNCHANGED locks
           /\ IF cl[c].op = "interrupt" THEN Stores(r, new) ELSE UNCHANGED store
  <2>1. /\ ClientPasses(c) /\ \A d \in Clients \ {c} : cl'[d] = cl[d]
        /\ cl'[c].op = cl[c].op /\ cl'[c].at = r /\ cl'[c].stage = "send"
    BY <1>1, <1>3, GoesOn DEF MayAct, locks
  <2>2. CASE cl[c].op = "interrupt"
    <3>1. Edits(r, new) /\ new.intr = "unknown" /\ new # None
      BY <1>1, <1>3, <2>2, MarkEdits
    <3> HIDE DEF new
    <3>2. TInv' /\ CInv'
      BY <1>1, <2>1, <3>1, ClientMoves DEF ClientDecides, history
    <3>3. /\ \A q \in Responses \ {r} : records'[q] = records[q] /\ db'[q] = db[q]
          /\ records'[r] = new /\ db'[r] = new
      BY <1>1, <1>3, <2>2 DEF IInv, TypeOK, Stores
    <3>4. records[r].intr = "none"
      BY <1>3 DEF MayAct
    <3>5. stops[r] = 0
      BY <1>1, <3>4 DEF JInv, InterruptsKnown
    <3>6. \A d \in Clients \ {c} :
            cl[d].stage = "send" /\ cl[d].op = "interrupt" => cl[d].at \in Responses \ {r}
      BY <3>4 DEF JInv, InterruptsKnown, IInv, CallersOnRecord
    <3>7. InterruptsKnown' /\ InterruptSentOnce'
      <4>1. UNCHANGED stops
        BY DEF ClientDecides, history
      <4>2. \A q \in Responses : stops[q] # 0 =>
              /\ records'[q] # None /\ records'[q].intr # "none"
              /\ db'[q] # None /\ db'[q].intr # "none"
        BY <3>3, <3>5 DEF JInv, InterruptsKnown
      <4>3. ASSUME NEW d \in Clients, cl'[d].stage = "send", cl'[d].op = "interrupt"
            PROVE  /\ stops[cl'[d].at] = 0 /\ records'[cl'[d].at].intr # "none"
                   /\ db'[cl'[d].at] # None /\ db'[cl'[d].at].intr # "none"
        <5>1. CASE d = c
          BY <2>1, <3>1, <3>3, <3>5, <5>1
        <5>2. CASE d # c
          BY <2>1, <3>3, <3>6, <4>3, <5>2 DEF JInv, InterruptsKnown
        <5> QED BY <5>1, <5>2
      <4>4. \A d, e \in Clients :
              /\ cl'[d].stage = "send" /\ cl'[d].op = "interrupt"
              /\ cl'[e].stage = "send" /\ cl'[e].op = "interrupt" /\ cl'[d].at = cl'[e].at
              => d = e
        BY <2>1, <3>6 DEF JInv, InterruptsKnown
      <4> QED BY <4>1, <4>2, <4>3, <4>4 DEF InterruptsKnown, InterruptSentOnce, JInv
    <3> QED BY <3>2, <3>7 DEF JInv
  <2>3. CASE cl[c].op # "interrupt"
    <3>1. TInv' /\ CInv'
      BY <1>1, <1>3, <2>1, <2>3, UnchangedEdits, ClientMoves DEF ClientDecides, history
    <3>2. UNCHANGED <<records, db, stops>>
      BY <1>3, <2>3 DEF ClientDecides, history, store
    <3>3. \A d \in Clients : cl'[d].stage = "send" /\ cl'[d].op = "interrupt" => cl'[d] = cl[d]
      BY <2>1, <2>3
    <3>4. InterruptsKnown' /\ InterruptSentOnce'
      BY <3>2, <3>3 DEF JInv, InterruptsKnown, InterruptSentOnce
    <3> QED BY <3>1, <3>4 DEF JInv
  <2> QED BY <2>2, <2>3
<1> QED BY <1>2, <1>3 DEF ClientDecides

\* It is sent by that client, once.
LEMMA ClientSendsHolds ==
  ASSUME IInv, IInv', JInv, NEW c \in Clients, ClientSends(c)  PROVE JInv'
<1> DEFINE r == cl[c].at
<1>1. /\ cl[c].stage = "send" /\ cl[c].op # "status" /\ cl[c].got = "inProgress"
      /\ r \in Responses /\ records[r] # None /\ stops \in [Responses -> Nat]
  BY DEF ClientSends, JInv, CInv, ClientsLock, IInv, CallersOnRecord, TypeOK
<1>2. /\ ClientPasses(c) /\ \A d \in Clients \ {c} : cl'[d] = cl[d]
      /\ cl'[c].op = cl[c].op /\ cl'[c].at = r /\ cl'[c].stage = "sent"
  BY <1>1, GoesOn DEF ClientSends, locks
<1>3. TInv' /\ CInv'
  BY <1>1, <1>2, UnchangedEdits, ClientMoves DEF ClientSends
<1>4. UNCHANGED <<records, db>>
  BY DEF ClientSends, store
<1>5. CASE cl[c].op = "interrupt"
  <2>1. stops' = [stops EXCEPT ![r] = @ + 1]
    BY <1>5 DEF ClientSends
  <2>2. stops[r] = 0 /\ records[r].intr # "none" /\ db[r] # None /\ db[r].intr # "none"
    BY <1>1, <1>5 DEF JInv, InterruptsKnown
  <2>3. \A d \in Clients : cl'[d].stage = "send" /\ cl'[d].op = "interrupt" =>
          cl'[d] = cl[d] /\ cl[d].at # r
    BY <1>1, <1>2, <1>5 DEF JInv, InterruptsKnown
  <2>4. stops'[r] = 1 /\ \A q \in Responses \ {r} : stops'[q] = stops[q]
    BY <1>1, <2>1, <2>2
  <2>5. \A d \in Clients : cl'[d].stage = "send" => cl'[d].at \in Responses
    BY DEF IInv, CallersOnRecord
  <2>6. InterruptsKnown'
    BY <1>1, <1>4, <2>2, <2>3, <2>4, <2>5 DEF JInv, InterruptsKnown
  <2>7. InterruptSentOnce'
    BY <2>4 DEF JInv, InterruptSentOnce
  <2> QED BY <1>3, <2>6, <2>7 DEF JInv
<1>6. CASE cl[c].op # "interrupt"
  <2>1. UNCHANGED stops
    BY <1>6 DEF ClientSends
  <2>2. \A d \in Clients : cl'[d].stage = "send" => cl'[d] = cl[d]
    BY <1>2
  <2>3. InterruptsKnown' /\ InterruptSentOnce'
    BY <1>4, <2>1, <2>2 DEF JInv, InterruptsKnown, InterruptSentOnce
  <2> QED BY <1>3, <2>3 DEF JInv
<1> QED BY <1>5, <1>6

LEMMA ServeHolds ==
  ASSUME IInv, IInv', JInv, NEW c \in Clients, Serve(c)  PROVE JInv'
BY ClientLockHolds, ClientReadsHolds, ClientObservesHolds, ClientDecidesHolds,
   ClientSendsHolds, ClientAnsweredHolds DEF Serve

LEMMA HandleHolds ==
  ASSUME IInv, IInv', JInv, NEW r \in Responses, Handle(r)  PROVE JInv'
BY ClaimThreadHolds, ClaimRefusedHolds, LockControlHolds, CheckNextHolds, RecordReadHolds,
   ResolveHolds, ValidatedHolds, InvalidHolds, AcquirePermitHolds, DispatchHolds,
   OpenThreadHolds, ThreadOpenedHolds, ThreadNotOpenedHolds, StartNotSentHolds, SendStartHolds, StartedHolds, AnnouncedHolds, StartedUnnamedHolds,
   NotStartedHolds, RecordFailureHolds, SeesEndHolds, SaveMappingHolds, GivesUpHolds,
   LosesEventsHolds, InterruptAnsweredHolds DEF Handle
-----------------------------------------------------------------------------
(* A crash: memory is read back from the disk, and nobody holds anything.  *)

LEMMA CrashHolds == ASSUME IInv, IInv', JInv, Crash  PROVE JInv'
<1> USE DEF JInv, TInv
<1>0. /\ db \in [Responses -> Fields!Execution \cup {None}] /\ sent \in Seq(Responses)
      /\ None \notin Responses \cup Clients \cup Fields!Execution
  BY NamesAssumption DEF IInv, TypeOK
<1>1. Written' = Written /\ Written \subseteq Responses
  BY <1>0 DEF Crash, history, Written
<1>2. \A q \in Responses :
        /\ db[q] = None => records'[q] = None
        /\ db[q] # None => records'[q] # None /\ KeepsTurn(records'[q], db[q])
  <2> SUFFICES ASSUME NEW q \in Responses, db[q] # None
               PROVE  records'[q] # None /\ KeepsTurn(records'[q], db[q])
    BY DEF Crash, Reopen
  <2>1. records'[q] = Fields!Reopened(db[q]) /\ db[q] \in Fields!Execution
    BY <1>0 DEF Crash, Reopen
  <2>2. KeepsTurn(records'[q], db[q])
    BY <2>1, EditFacts
  <2> QED BY <1>0, <2>2 DEF KeepsTurn, Kept
<1>3. /\ \A q \in Responses :
           pc'[q] \in {"idle", "done", "gone"} /\ (pc'[q] = "idle" => pc[q] = "idle")
      /\ \A q \in Responses :
           start'[q] = start[q] \/ (start[q] = "sent" /\ start'[q] = "lost")
      /\ \A t \in Responses : control'[t] = None
      /\ \A c \in Clients : cl'[c] = Idle
      /\ ~failed' /\ UNCHANGED <<db, req, conv, sent, stops>>
  BY DEF Crash, history
<1>4. EntriesHold'
  <2> SUFFICES ASSUME NEW q \in Responses PROVE Entry(records[q], q)' /\ Entry(db[q], q)'
    BY DEF EntriesHold
  <2>1. Entry(db[q], q)
    BY DEF EntriesHold
  <2>2. Entry(db[q], q)'
    BY <1>1, <1>3, <2>1 DEF Entry, Sending
  <2>3. Entry(records[q], q)'
    BY <1>1, <1>2, <1>3, <2>1 DEF Entry, Sending, KeepsTurn, Kept
  <2> QED BY <2>2, <2>3
<1>5. Synced'
  BY <1>2, <1>3 DEF Synced
<1>6. SentOnce' /\ KeysOnce'
  BY <1>1, <1>3 DEF SentOnce, KeysOnce
<1>7. SuppressionKnown'
  <2>1. \A q \in Written : db[q] # None
    BY <1>1, WrittenFacts, <1>0
  <2> QED BY <1>1, <1>2, <1>3, <2>1 DEF SuppressionKnown, KeepsTurn, Kept
<1>8. SuppressionSticks'
  BY <1>3 DEF SuppressionSticks
<1>9. CInv'
  <2>1. \A c \in Clients : cl'[c].stage = "idle"
    BY <1>3 DEF Idle
  <2>2. HandlersLock'
    BY <1>0, <1>3 DEF HandlersLock, Sending
  <2>3. ClientsLock'
    BY <1>0, <1>3, <2>1 DEF ClientsLock, Inside
  <2>4. NoStartBehind'
    BY <2>1 DEF NoStartBehind, Inside
  <2> QED BY <2>2, <2>3, <2>4 DEF CInv
<1>10. InterruptsKnown' /\ InterruptSentOnce'
  BY <1>2, <1>3 DEF InterruptsKnown, InterruptSentOnce, Idle, KeepsTurn, Kept
<1> QED BY <1>4, <1>5, <1>6, <1>7, <1>8, <1>9, <1>10
-----------------------------------------------------------------------------
(* The invariant is inductive.                                             *)

LEMMA StutterHolds == ASSUME JInv, UNCHANGED vars  PROVE JInv'
<1> USE DEF JInv, vars, store, handlers, locks, codex, history
<1>1. EntriesHold'
  BY DEF TInv, EntriesHold, Entry, Written
<1>2. Synced' /\ SentOnce' /\ KeysOnce' /\ SuppressionKnown' /\ SuppressionSticks'
  BY DEF TInv, Synced, SentOnce, KeysOnce, SuppressionKnown, SuppressionSticks, Written
<1>3. CInv'
  BY DEF CInv, HandlersLock, ClientsLock, NoStartBehind, Inside
<1>4. InterruptsKnown' /\ InterruptSentOnce'
  BY DEF InterruptsKnown, InterruptSentOnce
<1> QED BY <1>1, <1>2, <1>3, <1>4 DEF TInv

LEMMA StepHolds == ASSUME IInv, IInv', JInv, [Next]_vars  PROVE JInv'
<1>1. CASE \E r \in Responses : \E x \in Inputs[r] : Reserve(r, x)
  BY <1>1, ReserveHolds
<1>2. CASE \E r \in Responses : Handle(r) \/ Disconnect(r)
  BY <1>2, HandleHolds, DisconnectHolds
<1>3. CASE \E r \in Responses :
             TakeStart(r) \/ FinishTurn(r) \/ ObserveEnd(r) \/ ObserverLags(r)
  BY <1>3, TakeStartHolds, FinishTurnHolds, ObserveEndHolds, ObserverLagsHolds
<1>4. CASE \E c \in Clients : \E a \in Asks : Ask(c, a)
  BY <1>4, AskHolds
<1>5. CASE \E c \in Clients : Serve(c) \/ ClientGone(c)
  BY <1>5, ServeHolds, ClientGoneHolds
<1>6. CASE Crash
  BY <1>6, CrashHolds
<1>7. CASE UNCHANGED vars
  BY <1>7, StutterHolds
<1> QED BY <1>1, <1>2, <1>3, <1>4, <1>5, <1>6, <1>7 DEF Next

LEMMA StartHolds == ASSUME Init  PROVE JInv
<1> USE DEF Init
<1>1. Written = {} /\ DOMAIN sent = {}
  BY DEF Written
<1>2. ASSUME NEW r \in Responses, r \in Restored
      PROVE  /\ db[r].key = None /\ db[r].thread = r /\ db[r].turn = r
             /\ req[r].key = None /\ conv[r] = r /\ start[r] = "accepted" /\ pc[r] = "done"
  BY <1>2 DEF RestoredRecord, Fields!NewExecution
<1>3. ASSUME NEW r \in Responses PROVE Entry(records[r], r) /\ Entry(db[r], r)
  <2>1. CASE r \in Restored
    BY <1>1, <1>2, <2>1 DEF Entry, Sending
  <2>2. CASE r \notin Restored
    BY <1>1, <2>2 DEF Entry, Sending
  <2> QED BY <2>1, <2>2
<1>4. EntriesHold
  BY <1>3 DEF EntriesHold
<1>5. Synced /\ SentOnce /\ KeysOnce /\ SuppressionKnown /\ SuppressionSticks
  BY <1>1 DEF Synced, SentOnce, KeysOnce, SuppressionKnown, SuppressionSticks
<1>6. CInv
  BY NamesAssumption
    DEF CInv, HandlersLock, ClientsLock, NoStartBehind, Inside, Idle, Sending
<1>7. InterruptsKnown /\ InterruptSentOnce
  BY DEF InterruptsKnown, InterruptSentOnce, Idle
<1> QED BY <1>4, <1>5, <1>6, <1>7 DEF JInv, TInv

\* Both invariants hold of every reachable state.
LEMMA ControlInvariance == Spec => [](IInv /\ JInv)
<1>1. Init => IInv /\ JInv
  BY InitHolds, StartHolds
<1>2. IInv /\ JInv /\ [Next]_vars => (IInv /\ JInv)'
  BY StepKeeps, StepHolds
<1> QED BY <1>1, <1>2, PTL DEF Spec

-----------------------------------------------------------------------------
(* What was sent, and who may send.                                        *)

\* One client request id never starts two turns, over restarts and after failed
\* writes (http.rs: create_response; control.rs: reserve).
THEOREM OneTurnPerKey == Spec => []KeyStartsOneTurn
<1>1. IInv /\ JInv => KeyStartsOneTurn
  <2> SUFFICES ASSUME IInv, JInv PROVE KeyStartsOneTurn
    OBVIOUS
  <2>1. Written \subseteq Responses
    BY DEF Written, IInv, TypeOK
  <2>2. \A r \in Responses : db[r] # None => db[r].key = req[r].key
    BY DEF JInv, TInv, EntriesHold, Entry
  <2> QED BY <2>1, <2>2 DEF KeyStartsOneTurn, JInv, TInv, SentOnce, KeysOnce
<1> QED BY <1>1, ControlInvariance, PTL

\* No restart finds a response unsent whose turn/start was written, and none
\* rejected whose turn ran (http.rs: begin_turn; control.rs: update, open).
THEOREM DurableSend == Spec => []SendBoundaryDurable
<1>1. IInv /\ JInv => SendBoundaryDurable
  <2> SUFFICES ASSUME IInv, JInv, NEW r \in Written
               PROVE  /\ db[r] # None /\ db[r].phase # "received"
                      /\ turn[r] # "none" => db[r].phase # "rejected"
    BY DEF SendBoundaryDurable
  <2>1. r \in Responses
    BY DEF Written, IInv, TypeOK
  <2>2. turn[r] # "none" => start[r] \in {"accepted", "unnamed"}
    BY <2>1 DEF IInv, StartsInOrder
  <2> QED BY <2>1, <2>2 DEF JInv, TInv, EntriesHold, Entry
<1> QED BY <1>1, ControlInvariance, PTL

\* Suppression of approvals, once it holds on a thread, is on disk for every
\* later turn of the thread (http.rs: begin_turn, suppression_for_thread).
THEOREM StickySuppression == Spec => []SuppressionSticks
<1>1. JInv => SuppressionSticks
  BY DEF JInv, TInv
<1> QED BY <1>1, ControlInvariance, PTL

\* At most one interruption per turn, for any number of clients and crashes
\* (http.rs: control_interrupt).
THEOREM OneInterrupt == Spec => []InterruptSentOnce
<1>1. JInv => InterruptSentOnce
  BY DEF JInv
<1> QED BY <1>1, ControlInvariance, PTL

\* Nothing starts on the thread of a turn that is being interrupted or steered
\* (http.rs: control_interrupt, control_steer, begin_turn).
THEOREM NoRaceWithStart == Spec => []ControlNeverRacesNextStart
<1>1. IInv /\ JInv => ControlNeverRacesNextStart
  <2> SUFFICES ASSUME IInv, JInv, NEW c \in Clients, NEW q \in Responses,
                      cl[c].stage \in {"send", "sent"}, q # cl[c].at,
                      conv[q] = conv[cl[c].at]
               PROVE  start[q] # "sent" /\ pc[q] # "sending"
    BY DEF ControlNeverRacesNextStart
  <2>1. Inside(c) /\ cl[c].got = "inProgress" /\ cl[c].stage # "read" /\ ClientFacts(c)
    BY AtFacts DEF JInv, CInv, ClientsLock, Inside
  <2>2. start[q] # "sent"
    BY <2>1 DEF JInv, CInv, NoStartBehind
  <2>3. control[conv[q]] = c /\ conv[q] # None /\ c # q
    BY <2>1, NamesAssumption DEF JInv, CInv, ClientsLock, ClientFacts
  <2> QED BY <2>2, <2>3 DEF JInv, CInv, HandlersLock, Sending
<1> QED BY <1>1, ControlInvariance, PTL

\* A permit is held from the wait for it to the end, so nobody waits for one
\* with one.
Early == {"idle", "received", "locking", "checking", "reading", "refreshing", "waiting"}

PermitsLate == \A r \in permits : pc[r] \notin Early

\* A step gives a permit to whoever waits for one, and moves nobody who holds one
\* back before the wait.
LEMMA PermitsStep ==
  ASSUME IInv, PermitsLate, NEW r \in Responses, NEW place, Goes(r, place),
         \A q \in permits' : q \in permits \/ q = r,
         place \in Early => pc[r] \in Early /\ permits' \subseteq permits
  PROVE  PermitsLate'
<1>1. pc' = [pc EXCEPT ![r] = place] /\ pc \in [Responses -> Places] /\ permits \subseteq Responses
  BY DEF Goes, IInv, TypeOK
<1>2. pc'[r] = place /\ \A q \in Responses \ {r} : pc'[q] = pc[q]
  BY <1>1
<1> QED BY <1>1, <1>2 DEF PermitsLate

LEMMA HandlePermits ==
  ASSUME IInv, PermitsLate, NEW r \in Responses, Handle(r)
  PROVE  PermitsLate'
<1> USE PermitsStep DEF Early, Goes, Fails, Leaves, Ends, locks
<1>1. CASE ClaimThread(r) \/ ClaimRefused(r) \/ LockControl(r)
  BY <1>1 DEF ClaimThread, ClaimRefused, LockControl
<1>2. CASE \E q \in Responses : CheckNext(r, q)
  BY <1>2 DEF CheckNext
<1>3. CASE RecordRead(r)
  BY <1>3 DEF RecordRead
<1>4. CASE Resolve(r) \/ Validated(r) \/ Invalid(r) \/ AcquirePermit(r)
  BY <1>4 DEF Resolve, Validated, Invalid, AcquirePermit
<1>5. CASE Dispatch(r) \/ OpenThread(r) \/ ThreadOpened(r) \/ ThreadNotOpened(r)
  BY <1>5 DEF Dispatch, OpenThread, ThreadOpened, ThreadNotOpened, RefusalRecorded
<1>6. CASE SendStart(r) \/ StartNotSent(r) \/ Started(r) \/ Announced(r)
  BY <1>6 DEF SendStart, StartNotSent, Started, Announced, RefusalRecorded
<1>7. CASE StartedUnnamed(r) \/ NotStarted(r) \/ RecordFailure(r)
  BY <1>7 DEF StartedUnnamed, NotStarted, RecordFailure, RefusalRecorded
<1>8. CASE SeesEnd(r) \/ SaveMapping(r) \/ GivesUp(r)
  BY <1>8 DEF SeesEnd, SaveMapping, GivesUp
<1>9. CASE LosesEvents(r) \/ InterruptAnswered(r)
  BY <1>9 DEF LosesEvents, InterruptAnswered
<1> QED BY <1>1, <1>2, <1>3, <1>4, <1>5, <1>6, <1>7, <1>8, <1>9 DEF Handle

LEMMA StepPermits == ASSUME IInv, PermitsLate, [Next]_vars  PROVE PermitsLate'
<1>1. ASSUME NEW r \in Responses, NEW x \in Inputs[r], Reserve(r, x)
      PROVE  PermitsLate'
  <2>1. permits' = permits /\ pc[r] = "idle"
    BY <1>1 DEF Reserve, locks
  <2>2. PICK place : Goes(r, place)
    BY <1>1 DEF Reserve
  <2> QED BY <2>1, <2>2, PermitsStep DEF Early
<1>2. ASSUME NEW r \in Responses, Disconnect(r)
      PROVE  PermitsLate'
  BY <1>2, PermitsStep DEF Disconnect, Leaves, Goes, locks, Early
<1>3. ASSUME NEW r \in Responses, \/ TakeStart(r) \/ FinishTurn(r) \/ ObserveEnd(r)
                                   \/ ObserverLags(r)
      PROVE  PermitsLate'
  BY <1>3 DEF TakeStart, FinishTurn, ObserveEnd, ObserverLags, handlers, locks, PermitsLate
<1>4. ASSUME NEW c \in Clients, \/ (\E a \in Asks : Ask(c, a)) \/ Serve(c) \/ ClientGone(c)
      PROVE  PermitsLate'
  <2>1. UNCHANGED <<pc, permits>>
    BY <1>4 DEF Ask, Serve, ClientLock, ClientReads, ClientObserves, ClientDecides,
       ClientSends, ClientAnswered, ClientGone, ClientEnds, handlers, locks
  <2> QED BY <2>1 DEF PermitsLate
<1>5. CASE Crash
  BY <1>5 DEF Crash, PermitsLate
<1>6. CASE UNCHANGED vars
  BY <1>6 DEF vars, handlers, locks, PermitsLate
<1> QED BY <1>1, <1>2, <1>3, <1>4, <1>5, <1>6, HandlePermits DEF Next

\* The permit, the control locks, the catalog's refresh lock and mcp_refresh are
\* taken in this order, and nobody waits for a permit or for a control lock while
\* holding one of the four that comes later, so no waits go round in a circle
\* (http.rs: begin_turn, lock_turn_control; catalog.rs: refresh; runtime.rs:
\* request_checked).  What is waited for inside a control lock are the two inner
\* locks, whose holders take none of the others, and answers of Codex.
THEOREM LockOrder == Spec => []LocksTakenInOrder
<1>1. Init => PermitsLate
  BY DEF Init, PermitsLate
<1>2. IInv /\ PermitsLate /\ [Next]_vars => PermitsLate'
  BY StepPermits
<1>3. Spec => []PermitsLate
  BY <1>1, <1>2, Invariance, PTL DEF Spec
<1>4. JInv /\ PermitsLate => LocksTakenInOrder
  <2> SUFFICES ASSUME JInv, PermitsLate
               PROVE  LocksTakenInOrder
    OBVIOUS
  <2>1. ASSUME NEW r \in Responses, NEW n \in Holds(r)
        PROVE  n < Awaits(r)
    <3>1. CASE n = 1
      BY <2>1, <3>1 DEF Holds, Awaits, PermitsLate, Early, Executing
    <3>2. CASE n = 2
      <4>1. pc[r] \in Holding
        BY <2>1, <3>2 DEF Holds, JInv, CInv, HandlersLock
      <4> QED BY <3>2, <4>1 DEF Awaits, Holding, Sending
    <3>3. CASE n \in {3, 4}
      <4>1. pc[r] \in {"refreshing"} \cup Executing
        BY <2>1, <3>3 DEF Holds
      <4> QED BY <3>3, <4>1 DEF Awaits, Executing
    <3> QED BY <2>1, <3>1, <3>2, <3>3 DEF Holds
  <2>2. ASSUME NEW t \in Responses, control[t] \in Clients
        PROVE  cl[control[t]].stage \notin {"idle", "lock"}
    BY <2>2 DEF JInv, CInv, ClientsLock
  <2> QED BY <2>1, <2>2 DEF LocksTakenInOrder
<1> QED BY <1>3, <1>4, ControlInvariance, PTL

-----------------------------------------------------------------------------
(* The promises of the execution ledger.  Every change of the disk is an   *)
(* edit of what memory has of an execution, or a new execution under a     *)
(* number above all of memory's.  That is enough, because while the store  *)
(* takes calls memory has everything the disk has, under the same numbers, *)
(* and a restart took back neither a send nor an interruption.             *)

NumbersAgree ==
  /\ \A r \in Responses : records[r] # None /\ db[r] # None => records[r].seq = db[r].seq
  /\ \A r, q \in Responses :
       r # q /\ db[r] # None /\ db[q] # None => db[r].seq # db[q].seq

MemoryAsFar ==
  ~failed => \A r \in Responses : db[r] # None =>
    /\ db[r].phase # "received" => records[r].phase # "received"
    /\ db[r].intr # "none" => records[r].intr # "none"

LInv == NumbersAgree /\ MemoryAsFar

\* A call of the store edits an execution, or takes a new one.
Revises(r, new) ==
  /\ Call(r, new)
  /\ \/ UNCHANGED <<records, db>>
     \/ /\ new \in Fields!Execution
        /\ \/ records[r] # None /\ Ledger!Succeeds(new, records[r])
           \/ /\ records[r] = None /\ db[r] = None
              /\ new.phase = "received" /\ new.seq = NextSequence

Revision == \E r \in Responses : \E new : Revises(r, new)

LEMMA EditsSucceed ==
  ASSUME NEW old \in Fields!Execution
  PROVE  /\ Ledger!Succeeds(old, old)
         /\ Ledger!Succeeds(Fields!BeginErrorEdit(old), old)
         /\ Ledger!Succeeds(Fields!RejectEdit(old), old)
         /\ Ledger!Succeeds(Fields!Reopened(old), old)
         /\ \A s \in Fields!Statuses : Ledger!Succeeds(Fields!ObserveEdit(old, s), old)
         /\ \A m \in {"unknown", "accepted"} : Ledger!Succeeds(Fields!InterruptEdit(old, m), old)
         /\ \A t \in Responses \cup {None} :
              /\ Ledger!Succeeds(Fields!StartEdit(old, t), old)
              /\ Ledger!Succeeds(Fields!DispatchEdit(old, t), old)
              /\ \A s \in BOOLEAN : Ledger!Succeeds(Fields!ThreadEdit(old, t, s), old)
BY DEF Ledger!Succeeds, Fields!Execution, Fields!BeginErrorEdit, Fields!RejectEdit,
       Fields!Reopened, Fields!ObserveEdit, Fields!InterruptEdit, Fields!StartEdit,
       Fields!DispatchEdit, Fields!ThreadEdit

LEMMA SameRevises ==
  ASSUME UNCHANGED <<records, db, failed>>, Responses # {}
  PROVE  Revision
<1>1. PICK r \in Responses : TRUE
  OBVIOUS
<1>2. Revises(r, None)
  BY DEF Revises, Call
<1> QED BY <1>2 DEF Revision

\* The edits of http.rs keep the promises.
LEMMA EditRevises ==
  ASSUME IInv, NEW r \in Responses, records[r] # None, NEW new \in Fields!Execution,
         Ledger!Succeeds(new, records[r]),
         Stores(r, new) \/ StoreRefuses(r, new) \/ UNCHANGED store
  PROVE  Revision
BY CallFacts DEF Revises, Revision

LEMMA ObservesRevises ==
  ASSUME IInv, NEW q \in Responses, NEW s \in Fields!Statuses,
         Observes(q, s) \/ ObserveRefused(q, s)
  PROVE  Revision
<1> DEFINE new == Fields!ObserveEdit(records[q], s)
<1>1. CASE records[q] # None /\ records[q].turn = q
  <2>1. records[q] \in Fields!Execution
    BY <1>1, Entered
  <2>2. new \in Fields!Execution /\ Ledger!Succeeds(new, records[q])
    BY <2>1, EditFacts, EditsSucceed DEF KeepsTurn, Kept
  <2>3. Stores(q, new) \/ StoreRefuses(q, new)
    BY <1>1 DEF Observes, ObserveRefused
  <2> HIDE DEF new
  <2> QED BY <1>1, <2>2, <2>3, EditRevises
<1>2. CASE ~(records[q] # None /\ records[q].turn = q)
  BY <1>2, SameRevises DEF Observes, ObserveRefused, store
<1> QED BY <1>1, <1>2

LEMMA ReserveRevises ==
  ASSUME IInv, JInv, NEW r \in Responses, NEW x \in Inputs[r], Reserve(r, x)
  PROVE  Revision
<1> DEFINE new == Fields!NewExecution(x.key, None, NextSequence)
<1>1. x.key \in Keys \cup {None}
  BY InputsAssumption
<1>2. new \in Fields!Execution
  BY <1>1, SequenceFacts, NewFacts DEF Storable
<1>3. new.phase = "received" /\ new.seq = NextSequence
  BY DEF Fields!NewExecution
<1>4. Call(r, new)
  BY CallFacts DEF Reserve
<1>5. records[r] = None /\ db[r] = None
  BY DEF Reserve, JInv, TInv, EntriesHold, Entry
<1> HIDE DEF new
<1> QED BY <1>2, <1>3, <1>4, <1>5 DEF Revises, Revision

\* Before the turn is running.
LEMMA StartRevises ==
  ASSUME IInv, NEW r \in Responses,
         \/ Dispatch(r) \/ ThreadOpened(r) \/ ThreadNotOpened(r) \/ StartNotSent(r)
         \/ Started(r) \/ StartedUnnamed(r) \/ NotStarted(r) \/ RecordFailure(r)
  PROVE  Revision
<1> DEFINE old == records[r]
<1>1. pc[r] \notin {"idle"} \cup Over
  BY DEF Dispatch, ThreadOpened, ThreadNotOpened, StartNotSent, Started, StartedUnnamed,
         NotStarted, RecordFailure, Over
<1>2. old # None /\ old \in Fields!Execution
  BY <1>1, OnRecord, Entered
<1>3. conv[r] \in Responses \cup {None} /\ None \notin Responses
  BY NamesAssumption, HandlerTypes
<1>4. CASE Dispatch(r)
  <2> DEFINE new == Fields!DispatchEdit(old, conv[r])
  <2>1. new \in Fields!Execution /\ Ledger!Succeeds(new, old)
    BY <1>2, <1>3, EditFacts, EditsSucceed
  <2>2. Stores(r, new) \/ StoreRefuses(r, new)
    BY <1>4 DEF Dispatch
  <2> HIDE DEF new
  <2> QED BY <1>2, <2>1, <2>2, EditRevises
<1>5. CASE ThreadOpened(r)
  <2> DEFINE t == IF conv[r] = None THEN r ELSE conv[r]
             s == Suppressed(r, t)
             new == Fields!ThreadEdit(old, t, s)
  <2>1. t \in Responses /\ s \in BOOLEAN
    BY <1>3 DEF Suppressed, IInv, TypeOK
  <2>2. Stores(r, new) \/ StoreRefuses(r, new)
    BY <1>5 DEF ThreadOpened
  <2> HIDE DEF t, s
  <2>3. new \in Fields!Execution /\ Ledger!Succeeds(new, old)
    BY <1>2, <2>1, EditsSucceed DEF Fields!ThreadEdit, Fields!Execution
  <2> HIDE DEF new
  <2> QED BY <1>2, <2>2, <2>3, EditRevises
<1>6. CASE ThreadNotOpened(r) \/ StartNotSent(r) \/ NotStarted(r)
  <2> DEFINE new == Fields!RejectEdit(old)
  <2>1. new \in Fields!Execution /\ Ledger!Succeeds(new, old)
    BY <1>2, EditFacts, EditsSucceed DEF Kept
  <2>2. Stores(r, new) \/ StoreRefuses(r, new) \/ UNCHANGED store
    BY <1>6 DEF ThreadNotOpened, StartNotSent, NotStarted, RefusalRecorded
  <2> HIDE DEF new
  <2> QED BY <1>2, <2>1, <2>2, EditRevises
<1>7. CASE Started(r) \/ StartedUnnamed(r)
  <2> PICK t \in {r, None} : LET new == Fields!StartEdit(old, t) IN
                             Stores(r, new) \/ StoreRefuses(r, new)
    BY <1>7 DEF Started, StartedUnnamed
  <2> DEFINE new == Fields!StartEdit(old, t)
  <2>1. new \in Fields!Execution /\ Ledger!Succeeds(new, old)
    BY <1>2, EditFacts, EditsSucceed DEF Kept
  <2>2. Stores(r, new) \/ StoreRefuses(r, new)
    OBVIOUS
  <2> HIDE DEF new
  <2> QED BY <1>2, <2>1, <2>2, EditRevises
<1>8. CASE RecordFailure(r)
  <2> DEFINE new == Fields!BeginErrorEdit(old)
  <2>1. new \in Fields!Execution /\ Ledger!Succeeds(new, old)
    BY <1>2, EditFacts, EditsSucceed DEF KeepsTurn, Kept
  <2>2. Stores(r, new) \/ StoreRefuses(r, new) \/ UNCHANGED store
    BY <1>8 DEF RecordFailure
  <2> HIDE DEF new
  <2> QED BY <1>2, <2>1, <2>2, EditRevises
<1> QED BY <1>4, <1>5, <1>6, <1>7, <1>8

\* Reading turns, and their end.
LEMMA ReadingRevises ==
  ASSUME IInv, NEW r \in Responses,
         RecordRead(r) \/ SeesEnd(r) \/ SaveMapping(r) \/ ObserveEnd(r)
  PROVE  Revision
<1>1. CASE RecordRead(r)
  <2>1. scan[r].at \in Responses /\ scan[r].got \in Fields!Statuses
    BY <1>1 DEF RecordRead, IInv, EndsReal, Reads
  <2> QED BY <1>1, <2>1, ObservesRevises, SameRevises DEF RecordRead, store
<1>2. CASE SeesEnd(r) \/ ObserveEnd(r)
  <2>1. turn[r] \in Fields!Statuses
    BY <1>2 DEF SeesEnd, ObserveEnd, IInv, EndsReal, Terminal, Fields!Statuses
  <2> QED BY <1>2, <2>1, ObservesRevises DEF SeesEnd, ObserveEnd
<1>3. CASE SaveMapping(r)
  <2>1. records[r] # None /\ records[r] \in Fields!Execution
    BY <1>3, OnRecord, Entered DEF SaveMapping, Over
  <2>2. Ledger!Succeeds(records[r], records[r])
    BY <2>1, EditsSucceed
  <2> QED BY <1>3, <2>1, <2>2, EditRevises, SameRevises DEF SaveMapping
<1> QED BY <1>1, <1>2, <1>3

LEMMA HandleRevises ==
  ASSUME IInv, NEW r \in Responses, Handle(r)
  PROVE  Revision
<1>1. CASE \/ ClaimThread(r) \/ ClaimRefused(r) \/ LockControl(r)
           \/ (\E q \in Responses : CheckNext(r, q))
           \/ Resolve(r) \/ Validated(r) \/ Invalid(r) \/ AcquirePermit(r) \/ OpenThread(r)
           \/ SendStart(r) \/ Announced(r)
           \/ GivesUp(r) \/ LosesEvents(r) \/ InterruptAnswered(r)
  <2>1. UNCHANGED store
    BY <1>1 DEF ClaimThread, ClaimRefused, LockControl, CheckNext, Resolve, Validated, Invalid,
       AcquirePermit, OpenThread, SendStart, Announced, GivesUp, LosesEvents, InterruptAnswered
  <2> QED BY <2>1, SameRevises DEF store
<1> QED BY <1>1, StartRevises, ReadingRevises DEF Handle

LEMMA ServeRevises ==
  ASSUME IInv, NEW c \in Clients, Serve(c)
  PROVE  Revision
<1> DEFINE r == cl[c].at
<1>1. cl[c].stage # "idle"
  BY DEF Serve, ClientLock, ClientReads, ClientObserves, ClientDecides, ClientSends,
         ClientAnswered
<1>2. r \in Responses /\ records[r] # None /\ records[r] \in Fields!Execution
  BY <1>1, Entered DEF IInv, CallersOnRecord
<1>3. CASE ClientObserves(c)
  <2>1. cl[c].got \in Fields!Statuses
    BY <1>3 DEF ClientObserves, IInv, EndsReal, Reads
  <2> QED BY <1>2, <1>3, <2>1, ObservesRevises, SameRevises DEF ClientObserves, store
<1>4. CASE ClientDecides(c) \/ ClientAnswered(c)
  <2>1. PICK m \in {"unknown", "accepted"} : LET new == Fields!InterruptEdit(records[r], m) IN
          Stores(r, new) \/ StoreRefuses(r, new) \/ UNCHANGED store
    BY <1>4 DEF ClientDecides, ClientAnswered
  <2> DEFINE new == Fields!InterruptEdit(records[r], m)
  <2>2. new \in Fields!Execution /\ Ledger!Succeeds(new, records[r])
    BY <1>2, EditFacts, EditsSucceed DEF KeepsTurn, Kept
  <2>3. Stores(r, new) \/ StoreRefuses(r, new) \/ UNCHANGED store
    BY <2>1
  <2> HIDE DEF new
  <2> QED BY <1>2, <2>2, <2>3, EditRevises
<1>5. CASE ClientLock(c) \/ ClientReads(c) \/ ClientSends(c)
  <2>1. UNCHANGED store
    BY <1>5 DEF ClientLock, ClientReads, ClientSends
  <2> QED BY <1>2, <2>1, SameRevises DEF store
<1> QED BY <1>3, <1>4, <1>5 DEF Serve

\* A step is a call of the store, or a crash, or does not touch the tables.
LEMMA StepRevises ==
  ASSUME IInv, JInv, [Next]_vars
  PROVE  Revision \/ UNCHANGED <<records, db, failed>> \/ Crash
<1>1. CASE \E r \in Responses : \E x \in Inputs[r] : Reserve(r, x)
  BY <1>1, ReserveRevises
<1>2. CASE \E r \in Responses : Handle(r) \/ ObserveEnd(r)
  BY <1>2, HandleRevises, ReadingRevises
<1>3. CASE \E c \in Clients : Serve(c)
  BY <1>3, ServeRevises
<1>4. CASE \/ \E r \in Responses :
                Disconnect(r) \/ TakeStart(r) \/ FinishTurn(r) \/ ObserverLags(r)
           \/ \E c \in Clients : (\E a \in Asks : Ask(c, a)) \/ ClientGone(c)
           \/ UNCHANGED vars
  BY <1>4 DEF Disconnect, TakeStart, FinishTurn, ObserverLags, Ask, ClientGone, vars, store
<1> QED BY <1>1, <1>2, <1>3, <1>4 DEF Next

LEMMA LedgerKeeps == ASSUME IInv, JInv, LInv, [Next]_vars  PROVE LInv'
<1> USE DEF LInv
<1>0. /\ records \in [Responses -> Fields!Execution \cup {None}]
      /\ db \in [Responses -> Fields!Execution \cup {None}]
      /\ None \notin Fields!Execution
  BY NamesAssumption DEF IInv, TypeOK
<1>1. CASE UNCHANGED <<records, db, failed>>
  BY <1>1 DEF NumbersAgree, MemoryAsFar
<1>2. CASE Crash
  <2>1. UNCHANGED db
    BY <1>2 DEF Crash
  <2>2. \A r \in Responses :
          /\ db[r] = None => records'[r] = None
          /\ db[r] # None => Ledger!Succeeds(records'[r], db[r])
    BY <1>0, <1>2, EditsSucceed DEF Crash, Reopen
  <2> QED BY <2>1, <2>2 DEF NumbersAgree, MemoryAsFar, Ledger!Succeeds
<1>3. CASE Revision
  <2>0. PICK r \in Responses : \E new : Revises(r, new)
    BY <1>3 DEF Revision
  <2>1. PICK new : Revises(r, new)
    BY <2>0
  <2>2. CASE UNCHANGED <<records, db>>
    <3>1. failed => failed'
      BY <2>1 DEF Revises, Call
    <3> QED BY <2>2, <3>1 DEF NumbersAgree, MemoryAsFar
  <2>3. CASE ~UNCHANGED <<records, db>>
    <3>1. /\ ~failed /\ new \in Fields!Execution /\ db'[r] = new
          /\ records'[r] = new \/ (UNCHANGED records /\ failed')
          /\ \A q \in Responses \ {r} : records'[q] = records[q] /\ db'[q] = db[q]
      BY <1>0, <2>1, <2>3 DEF Revises, Call
    <3>2. \A q \in Responses : db[q] # None => records[q] # None /\ records[q].seq = db[q].seq
      BY <3>1 DEF JInv, TInv, Synced, NumbersAgree
    <3>3. \/ records[r] # None /\ db[r] # None /\ new.seq = records[r].seq
          \/ /\ records[r] = None
             /\ \A q \in Responses : records[q] # None => new.seq # records[q].seq
      <4>1. CASE records[r] # None
        BY <2>1, <2>3, <4>1 DEF Revises, Ledger!Succeeds, JInv, TInv, Synced
      <4>2. CASE records[r] = None
        <5>1. new.seq = NextSequence
          BY <2>1, <2>3, <4>2 DEF Revises
        <5>2. \A q \in Responses : records[q] # None => records[q].seq \in Nat
          BY <1>0 DEF Fields!Execution
        <5> QED BY <4>2, <5>1, <5>2, SequenceFacts
      <4> QED BY <4>1, <4>2
    <3>4. \A q \in Responses \ {r} : db[q] # None => new.seq # db[q].seq
      BY <3>2, <3>3 DEF NumbersAgree
    <3>5. NumbersAgree'
      BY <1>0, <3>1, <3>3, <3>4 DEF NumbersAgree
    <3>6. MemoryAsFar'
      BY <3>1 DEF MemoryAsFar
    <3> QED BY <3>5, <3>6
  <2> QED BY <2>2, <2>3
<1> QED BY <1>1, <1>2, <1>3, StepRevises

\* What is written is an acceptance or an amendment.
LEMMA RevisionKept ==
  ASSUME IInv, JInv, LInv, IInv', JInv', LInv', Revision, db' # db
  PROVE  Ledger!LedgerNext
<1>0. /\ db \in [Responses -> Fields!Execution \cup {None}] /\ None \notin Fields!Execution
  BY NamesAssumption DEF IInv, TypeOK
<1>a. PICK r \in Responses : \E new : Revises(r, new)
  BY DEF Revision
<1>1. PICK new : Revises(r, new)
  BY <1>a
<1>2. ~failed /\ new \in Fields!Execution /\ db' = [db EXCEPT ![r] = new]
  BY <1>1 DEF Revises, Call
<1>3. db'[r] = new /\ new # None
  BY <1>0, <1>2
<1>4. CASE records[r] # None /\ Ledger!Succeeds(new, records[r])
  <2>1. db[r] # None /\ new.key = db[r].key
    BY <1>4 DEF JInv, TInv, Synced, EntriesHold, Entry, Ledger!Succeeds
  <2>2. db[r] \in Fields!Execution /\ new.body = db[r].body
    BY <1>0, <1>2, <2>1 DEF Fields!Execution
  <2>3. Ledger!Succeeds(new, db[r])
    BY <1>2, <1>4, <2>1, <2>2 DEF Ledger!Succeeds, LInv, NumbersAgree, MemoryAsFar
  <2>4. Ledger!Amend(r, db'[r])
    BY <1>2, <1>3, <2>1, <2>3 DEF Ledger!Amend
  <2> QED BY <2>4 DEF Ledger!LedgerNext
<1>5. CASE ~(records[r] # None /\ Ledger!Succeeds(new, records[r]))
  <2>1. db[r] = None /\ new.phase = "received"
    BY <1>1, <1>5 DEF Revises
  <2>2. Ledger!SequencesDistinct(db')
    BY DEF LInv, NumbersAgree, Ledger!SequencesDistinct, Ledger!Accepted
  <2>3. Ledger!KeysDistinct(db')
    BY DEF JInv, TInv, EntriesHold, Entry, KeysOnce, Ledger!KeysDistinct, Ledger!Accepted
  <2>4. Ledger!Accept(r, db'[r])
    BY <1>2, <1>3, <2>1, <2>2, <2>3 DEF Ledger!Accept, Ledger!Consistent
  <2> QED BY <2>4 DEF Ledger!LedgerNext
<1> QED BY <1>4, <1>5

LEMMA StepKept ==
  ASSUME IInv, JInv, LInv, IInv', JInv', LInv', [Next]_vars
  PROVE  [Ledger!LedgerNext]_db
<1>1. CASE db' = db
  BY <1>1
<1>2. CASE db' # db
  <2>1. Revision
    BY <1>2, StepRevises DEF Crash
  <2> QED BY <1>2, <2>1, RevisionKept
<1> QED BY <1>1, <1>2

LEMMA LedgerStarts == ASSUME Init  PROVE LInv
<1>1. \A r \in Responses : db[r] # None => r \in Restored
  BY DEF Init
<1> QED BY <1>1, RestoredAssumption DEF Init, LInv, NumbersAgree, MemoryAsFar

\* The handlers, the observer and the control clients keep the promises of the
\* execution ledger, over failed writes and restarts (http.rs, control.rs).
THEOREM ImplementsLedger == Spec => LedgerKept
<1>1. Init => IInv /\ JInv /\ LInv
  BY InitHolds, StartHolds, LedgerStarts
<1>2. IInv /\ JInv /\ LInv /\ [Next]_vars => (IInv /\ JInv /\ LInv)'
  BY StepKeeps, StepHolds, LedgerKeeps
<1>3. IInv /\ JInv /\ LInv /\ (IInv /\ JInv /\ LInv)' /\ [Next]_vars => [Ledger!LedgerNext]_db
  BY StepKept
<1> QED BY <1>1, <1>2, <1>3, PTL DEF Spec, LedgerKept
=============================================================================
