-------------------------- MODULE TurnLifecycleProofs --------------------------
(***************************************************************************)
(* The theorems of TurnLifecycle, for every set of responses, clients and  *)
(* requests: the shape of the state, that a thread never has two turns     *)
(* that run or are about to, and that a recorded outcome is the real one.  *)
(***************************************************************************)
EXTENDS TurnLifecycle, FiniteSetTheorems, LargestNumber, TLAPS

-----------------------------------------------------------------------------
(* The inductive invariant behind OneActiveTurnPerThread.  A handler on its *)
(* way to turn/start owns the thread, so nobody else on that thread gets    *)
(* there; and whoever got there earlier, even if its handler is long gone,  *)
(* is found by check_thread_idle, because its record names the thread, is   *)
(* past the send boundary, and cannot claim an end its turn does not have.  *)

\* Both tables: an end on record is real, and the thread is the handler's.  A
\* mapping is to the thread of a turn that completed.
TablesReal ==
  /\ \A table \in {records, db} : \A r \in Responses : table[r] # None =>
       /\ table[r].status \in Terminal => turn[r] = table[r].status
       /\ table[r].thread \in {None, conv[r]}
  /\ \A r \in mapped : conv[r] # None /\ turn[r] = "completed"

\* A thread is named by the response that opened it.
ThreadsRooted ==
  \A r \in Responses : conv[r] # None => conv[conv[r]] = conv[r]

\* A handler that reads a turn has a thread; one that saves its mapping has seen
\* the turn complete.
Fits(place, r) ==
  /\ place \in {"announcing", "running", "saving"} => conv[r] # None
  /\ place = "saving" => turn[r] = "completed"

\* Where the start of a turn stands, by the place of its handler.
StartsInOrder ==
  \A r \in Responses :
    /\ start[r] \notin {"accepted", "unnamed"} => turn[r] = "none"
    /\ pc[r] \in {"idle"} \cup (Before \ {"starting"}) => start[r] = "none"
    /\ start[r] # "none" => conv[r] # None
    /\ pc[r] \in {"idle", "received"} => conv[r] = None
    /\ pc[r] \in {"locking", "checking", "reading", "sending", "starting"} => conv[r] # None
    /\ Fits(pc[r], r)

\* A handler between its check and the answer to turn/start owns the thread.
OwnsThread ==
  \A r \in Responses :
    pc[r] \in Before /\ conv[r] # None => guard[conv[r]] = r

Sending == {"opening", "joining", "sending", "starting"}

\* The places after the check of the conversation.
Checked == {"refreshing", "waiting", "dispatching"} \cup Sending

\* What is being started, or runs, is on record as such.
ActiveOnRecord ==
  \A r \in Responses : Active(r) \/ pc[r] \in Sending =>
    /\ records[r] # None /\ records[r].thread = conv[r]
    /\ records[r].phase \notin {"received", "rejected"}

\* Who works on a record works on one that is there.
CallersOnRecord ==
  /\ \A r \in Responses : pc[r] \notin {"idle"} \cup Over => records[r] # None
  /\ \A c \in Clients : cl[c].stage # "idle" => cl[c].at \in Responses /\ records[cl[c].at] # None

\* An end read from the thread, or announced, is the turn's, and stays so.
EndsReal ==
  /\ \A r \in Responses : pc[r] = "reading" =>
       /\ scan[r].at \in Responses /\ scan[r].got \in Reads
       /\ scan[r].got \in Terminal => turn[scan[r].at] = scan[r].got
  /\ \A c \in Clients : cl[c].stage = "observe" =>
       /\ cl[c].got \in Reads
       /\ cl[c].got \in Terminal => turn[cl[c].at] = cl[c].got
  /\ \A r \in unobserved : turn[r] \in Terminal

\* The others on its thread: what may still run is on the list of the check,
\* and after the check nothing does.
OthersChecked ==
  \A r, q \in Responses : r # q /\ conv[r] # None /\ conv[q] = conv[r] /\ Active(q) =>
    /\ pc[r] \in {"checking", "reading"} => q \in scan[r].todo
    /\ pc[r] \notin Checked

IInv ==
  /\ TypeOK
  /\ TablesReal /\ ThreadsRooted /\ StartsInOrder /\ OwnsThread
  /\ ActiveOnRecord /\ CallersOnRecord /\ EndsReal /\ OthersChecked
  /\ OneActiveTurnPerThread
-----------------------------------------------------------------------------
(* The record operations, as far as the invariant looks at them.            *)

USE NamesAssumption, OutcomesAssumption DEF Sending, Checked, Fits

\* A record that may be stored for r: it claims no end the turn does not have,
\* and no thread but r's.
Storable(new, r) ==
  /\ new \in Fields!Execution
  /\ new.status \in Terminal => turn[r] = new.status
  /\ new.thread \in {None, conv[r]}

\* It does not take r back before the send boundary, nor off its thread.
KeepsSent(new, old) ==
  /\ new.thread = old.thread
  /\ old.phase \notin {"received", "rejected"} => new.phase \notin {"received", "rejected"}

LEMMA RecordFacts ==
  ASSUME TypeOK, TablesReal, NEW r \in Responses, records[r] # None
  PROVE  Storable(records[r], r)
BY DEF TypeOK, TablesReal, Storable

LEMMA NewFacts ==
  ASSUME NEW key \in Keys \cup {None}, NEW seq \in Nat, NEW r \in Responses
  PROVE  Storable(Fields!NewExecution(key, None, seq), r)
BY DEF Storable, Fields!NewExecution, Fields!Execution, Fields!Phases, Fields!Statuses,
       Fields!Terminal, Terminal

LEMMA DispatchFacts ==
  ASSUME NEW r \in Responses, NEW old, Storable(old, r), conv[r] \in Responses \cup {None}
  PROVE  LET new == Fields!DispatchEdit(old, conv[r]) IN
           Storable(new, r) /\ new.thread = conv[r] /\ new.phase = "dispatching"
BY DEF Storable, Fields!DispatchEdit, Fields!Execution, Fields!Phases

LEMMA ThreadFacts ==
  ASSUME NEW r \in Responses, NEW old, Storable(old, r), NEW t \in Responses,
         NEW s \in BOOLEAN
  PROVE  LET new == Fields!ThreadEdit(old, t, s) IN
           /\ new \in Fields!Execution /\ new.thread = t /\ new.phase = old.phase
           /\ new.status = old.status
BY DEF Storable, Fields!ThreadEdit, Fields!Execution

LEMMA StartFacts ==
  ASSUME NEW r \in Responses, NEW old, Storable(old, r), NEW t \in Responses \cup {None}
  PROVE  Storable(Fields!StartEdit(old, t), r) /\ KeepsSent(Fields!StartEdit(old, t), old)
<1>1. CASE t = None
  BY <1>1 DEF Storable, KeepsSent, Fields!StartEdit, Fields!Execution, Fields!Phases,
     Fields!Statuses, Terminal, Fields!Terminal
<1>2. CASE t # None
  BY <1>2 DEF Storable, KeepsSent, Fields!StartEdit, Fields!Execution, Fields!Phases,
     Fields!Statuses, Terminal, Fields!Terminal
<1> QED  BY <1>1, <1>2

LEMMA RejectFacts ==
  ASSUME NEW r \in Responses, NEW old, Storable(old, r)
  PROVE  Storable(Fields!RejectEdit(old), r)
BY DEF Storable, Fields!RejectEdit, Fields!Execution, Fields!Phases

LEMMA BeginErrorFacts ==
  ASSUME NEW r \in Responses, NEW old, Storable(old, r)
  PROVE  Storable(Fields!BeginErrorEdit(old), r) /\ KeepsSent(Fields!BeginErrorEdit(old), old)
<1>1. CASE old.phase \in {"received", "rejected"}
  BY <1>1 DEF Storable, KeepsSent, Fields!BeginErrorEdit, Fields!Execution, Fields!Phases
<1>2. CASE old.phase \notin {"received", "rejected"}
  BY <1>2 DEF Storable, KeepsSent, Fields!BeginErrorEdit, Fields!Execution, Fields!Phases
<1> QED  BY <1>1, <1>2

LEMMA InterruptFacts ==
  ASSUME NEW r \in Responses, NEW old, Storable(old, r), NEW mark \in {"unknown", "accepted"}
  PROVE  Storable(Fields!InterruptEdit(old, mark), r)
         /\ KeepsSent(Fields!InterruptEdit(old, mark), old)
BY DEF Storable, KeepsSent, Fields!InterruptEdit, Fields!Execution

LEMMA ObserveFacts ==
  ASSUME NEW r \in Responses, NEW old, Storable(old, r), NEW status \in Fields!Statuses,
         status \in Terminal => turn[r] = status
  PROVE  Storable(Fields!ObserveEdit(old, status), r)
         /\ KeepsSent(Fields!ObserveEdit(old, status), old)
<1>1. CASE status \in Terminal
  BY <1>1 DEF Storable, KeepsSent, Fields!ObserveEdit, Fields!Execution, Fields!Phases, Terminal
<1>2. CASE status \notin Terminal
  BY <1>2 DEF Storable, KeepsSent, Fields!ObserveEdit, Fields!Execution, Fields!Phases, Terminal
<1> QED  BY <1>1, <1>2

LEMMA ReopenedFacts ==
  ASSUME NEW r \in Responses, NEW old, Storable(old, r)
  PROVE  Storable(Fields!Reopened(old), r) /\ KeepsSent(Fields!Reopened(old), old)
BY DEF Storable, KeepsSent, Fields!Reopened, Fields!Execution, Fields!Phases
-----------------------------------------------------------------------------
(* Steps that start nothing and claim no thread: a handler that fails, ends *)
(* or reads on, a control client, the observer.                             *)

StoreTyped ==
  /\ records \in [Responses -> Fields!Execution \cup {None}]
  /\ db \in [Responses -> Fields!Execution \cup {None}]
  /\ failed \in BOOLEAN /\ mapped \subseteq Responses /\ faults \in Nat

\* A step changes at most the record of r, and that within bounds.
StoreKept(r) ==
  /\ StoreTyped' /\ TablesReal'
  /\ \A q \in Responses \ {r} : records'[q] = records[q]
  /\ records[r] # None =>
       /\ records'[r] # None
       /\ Active(r) \/ (pc[r] \in Sending /\ pc'[r] \in Sending) =>
            KeepsSent(records'[r], records[r])

LEMMA StoreUnchanged ==
  ASSUME TypeOK, TablesReal, UNCHANGED <<store, conv, turn>>, NEW r \in Responses
  PROVE  StoreKept(r)
BY DEF TypeOK, TablesReal, StoreKept, StoreTyped, store, KeepsSent

\* The call returned or failed; r may get its thread in the same step.
LEMMA StoreStepOn ==
  ASSUME TypeOK, TablesReal, NEW r \in Responses, NEW new, new \in Fields!Execution,
         new.status \in Terminal => turn[r] = new.status, new.thread \in {None, conv'[r]},
         Stores(r, new) \/ StoreRefuses(r, new), UNCHANGED turn,
         \A q \in Responses : conv'[q] = conv[q] \/ (q = r /\ conv[q] = None)
  PROVE  /\ StoreTyped' /\ TablesReal'
         /\ \A q \in Responses \ {r} : records'[q] = records[q]
         /\ records'[r] \in {records[r], new}
<1>0. StoreTyped
  BY DEF TypeOK, StoreTyped
<1>1. /\ records' \in {records, [records EXCEPT ![r] = new]}
      /\ db' \in {db, [db EXCEPT ![r] = new]}
  BY DEF Stores, StoreRefuses
<1>2. failed' \in BOOLEAN /\ mapped' = mapped /\ faults' \in Nat
  <2>1. CASE Stores(r, new)
    BY <1>0, <2>1 DEF Stores, StoreTyped
  <2>2. CASE StoreRefuses(r, new)
    BY <1>0, <2>2 DEF StoreRefuses, StoreTyped
  <2> QED  BY <2>1, <2>2
<1>4. StoreTyped'
  BY <1>0, <1>1, <1>2 DEF StoreTyped
<1>5. ASSUME NEW q \in Responses
      PROVE  /\ records'[q] \in {records[q]} \cup (IF q = r THEN {new} ELSE {})
             /\ db'[q] \in {db[q]} \cup (IF q = r THEN {new} ELSE {})
  BY <1>0, <1>1 DEF StoreTyped
<1>6. ASSUME NEW q \in Responses, NEW e, e # None,
             e \in {records[q], db[q]} \cup (IF q = r THEN {new} ELSE {})
      PROVE  (e.status \in Terminal => turn'[q] = e.status) /\ e.thread \in {None, conv'[q]}
  BY <1>6 DEF TablesReal
<1>7. TablesReal'
  <2>3. \A q \in mapped' : conv'[q] # None /\ turn'[q] = "completed"
    BY <1>0, <1>2 DEF TablesReal, StoreTyped
  <2> SUFFICES ASSUME NEW table \in {records', db'}, NEW q \in Responses, table[q] # None
               PROVE  /\ table[q].status \in Terminal => turn'[q] = table[q].status
                      /\ table[q].thread \in {None, conv'[q]}
    BY <2>3 DEF TablesReal
  <2>1. table[q] \in {records[q], db[q]} \cup (IF q = r THEN {new} ELSE {})
    BY <1>5
  <2> QED  BY <1>6, <2>1
<1> QED
  BY <1>4, <1>5, <1>7

LEMMA StoreStep ==
  ASSUME TypeOK, TablesReal, NEW r \in Responses, NEW new, Storable(new, r),
         Stores(r, new) \/ StoreRefuses(r, new), UNCHANGED <<conv, turn>>
  PROVE  /\ StoreTyped' /\ TablesReal'
         /\ \A q \in Responses \ {r} : records'[q] = records[q]
         /\ records'[r] \in {records[r], new}
BY StoreStepOn DEF Storable

LEMMA StoreStepKept ==
  ASSUME TypeOK, TablesReal, NEW r \in Responses, NEW new, Storable(new, r),
         Stores(r, new) \/ StoreRefuses(r, new), UNCHANGED <<conv, turn>>,
         Active(r) \/ (pc[r] \in Sending /\ pc'[r] \in Sending) => KeepsSent(new, records[r])
  PROVE  StoreKept(r)
<1>1. new # None
  BY DEF Storable
<1> QED
  BY <1>1, StoreStep DEF StoreKept, KeepsSent

\* Recording what thread/read or turn/completed said of q.
LEMMA ObservesKept ==
  ASSUME TypeOK, TablesReal, NEW q \in Responses, NEW status \in Fields!Statuses,
         status \in Terminal => turn[q] = status,
         Observes(q, status) \/ ObserveRefused(q, status), UNCHANGED <<conv, turn>>
  PROVE  StoreKept(q)
<1>1. CASE records[q] # None /\ records[q].turn = q
  <2> DEFINE new == Fields!ObserveEdit(records[q], status)
  <2>1. Stores(q, new) \/ StoreRefuses(q, new)
    BY <1>1 DEF Observes, ObserveRefused
  <2>2. Storable(new, q) /\ KeepsSent(new, records[q])
    BY <1>1, RecordFacts, ObserveFacts
  <2> HIDE DEF new
  <2> QED  BY <2>1, <2>2, StoreStepKept
<1>2. CASE ~(records[q] # None /\ records[q].turn = q)
  <2>1. UNCHANGED store
    BY <1>2 DEF Observes, ObserveRefused
  <2> QED  BY <2>1, StoreUnchanged
<1> QED  BY <1>1, <1>2

\* The part of the invariant that is not about types.
LEMMA QuietKeeps ==
  ASSUME IInv, TypeOK', NEW x \in Responses, StoreKept(x),
         UNCHANGED <<conv, scan, start, turn>>, unobserved' \subseteq unobserved,
         \A c \in Clients :
           /\ cl'[c].stage = "observe" => cl'[c] = cl[c]
           /\ cl'[c].stage # "idle" => cl[c].stage # "idle" /\ cl'[c].at = cl[c].at
         \* a handler stays where it is, or is past its start
         ,
         \A r \in Responses : pc'[r] = pc[r] \/ (/\ pc'[r] \notin {"idle"} \cup Before
                                              /\ pc[r] # "idle")
         ,
         \A r \in Responses : pc'[r] \notin {"idle"} \cup Over => pc[r] \notin {"idle"} \cup Over,
         \A r \in Responses : pc'[r] \in Before /\ conv[r] # None =>
                               guard'[conv[r]] = guard[conv[r]]
         ,
         \A r \in Responses : Fits(pc'[r], r)
  PROVE  IInv'
<1> USE DEF IInv
<1>1. TablesReal'
  BY DEF StoreKept
<1>2. ThreadsRooted' /\ StartsInOrder' /\ OneActiveTurnPerThread'
  BY DEF ThreadsRooted, StartsInOrder, OneActiveTurnPerThread, Active, Before
<1>3. OwnsThread'
  BY DEF OwnsThread, Before
<1>4. ActiveOnRecord'
  <2> SUFFICES ASSUME NEW r \in Responses, Active(r) \/ pc'[r] \in Sending
               PROVE  /\ records'[r] # None /\ records'[r].thread = conv[r]
                      /\ records'[r].phase \notin {"received", "rejected"}
    BY DEF ActiveOnRecord, Active
  <2>1. Active(r) \/ (pc[r] \in Sending /\ pc'[r] \in Sending)
    BY DEF Before
  <2>2. /\ records[r] # None /\ records[r].thread = conv[r]
        /\ records[r].phase \notin {"received", "rejected"}
    BY <2>1 DEF ActiveOnRecord
  <2>3. CASE r = x
    BY <2>1, <2>2, <2>3 DEF StoreKept, KeepsSent
  <2>4. CASE r # x
    BY <2>2, <2>4 DEF StoreKept
  <2> QED  BY <2>3, <2>4<1>5. CallersOnRecord'
  BY DEF CallersOnRecord, StoreKept
<1>6. EndsReal'
  BY DEF EndsReal, Before
<1>7. OthersChecked'
  BY DEF OthersChecked, Active, Before
<1> QED
  BY <1>1, <1>2, <1>3, <1>4, <1>5, <1>6, <1>7

LEMMA NotYetActive ==
  ASSUME IInv, NEW r \in Responses, pc[r] \in {"idle"} \cup (Before \ {"starting"})
  PROVE  ~Active(r)
BY DEF IInv, StartsInOrder, Active, Terminal, Fields!Terminal

LEMMA OnRecord ==
  ASSUME IInv, NEW r \in Responses, pc[r] \notin {"idle"} \cup Over
  PROVE  records[r] # None /\ Storable(records[r], r)
BY RecordFacts DEF IInv, CallersOnRecord

\* A handler goes to a place past the start, or to its end.
LEMMA HandlerMoves ==
  ASSUME IInv, NEW r \in Responses, pc[r] \notin {"idle"} \cup Over,
         NEW place \in {"failing"} \cup Owning \cup Over, Goes(r, place),
         Fits(place, r),
         NEW y \in Responses, StoreKept(y),
         guard' \in {guard, Without(guard, r)}, control' \in {control, Without(control, r)},
         permits' \subseteq permits, UNCHANGED <<req, conv, scan, codex, cl, history>>
  PROVE  IInv'
<1> USE DEF codex, history
<1>1. /\ pc' = [pc EXCEPT ![r] = place] /\ pc \in [Responses -> Places]
      /\ guard \in [Responses -> Responses \cup {None}]
      /\ control \in [Responses -> (Responses \cup Clients) \cup {None}]
  BY DEF IInv, TypeOK, Goes
<1>2. guard' \in [Responses -> Responses \cup {None}]
  BY <1>1 DEF Without
<1>3. control' \in [Responses -> (Responses \cup Clients) \cup {None}]
  BY <1>1 DEF Without
<1>4. pc' \in [Responses -> Places]
  BY <1>1 DEF Places
<1>5. TypeOK'
  BY <1>2, <1>3, <1>4 DEF IInv, TypeOK, StoreKept, StoreTyped
<1>6. \A q \in Responses : pc'[q] \in Before /\ conv[q] # None =>
                            guard'[conv[q]] = guard[conv[q]]
  <2> SUFFICES ASSUME NEW q \in Responses, pc'[q] \in Before, conv[q] # None
               PROVE  guard'[conv[q]] = guard[conv[q]]
    OBVIOUS
  <2>1. q # r /\ pc[q] \in Before
    BY <1>1 DEF Before, Owning, Over
  <2>2. conv[q] \in Responses /\ guard[conv[q]] = q
    BY <2>1 DEF IInv, TypeOK, OwnsThread
  <2> QED  BY <1>1, <2>1, <2>2 DEF Without
<1>8. \A q \in Responses : Fits(pc'[q], q)
  BY <1>1 DEF IInv, StartsInOrder
<1>7. \A q \in Responses :
        /\ pc'[q] = pc[q] \/ (pc'[q] \notin {"idle"} \cup Before /\ pc[q] # "idle")
        /\ pc'[q] \notin {"idle"} \cup Over => pc[q] \notin {"idle"} \cup Over
  BY <1>1 DEF Before, Owning, Over
<1> QED
  BY <1>5, <1>6, <1>7, <1>8, QuietKeeps

-----------------------------------------------------------------------------
(* The handler's steps of that kind.                                       *)

LEMMA FailsKeeps ==
  ASSUME IInv, NEW r \in Responses, pc[r] \notin {"idle"} \cup Over, Fails(r),
         NEW y \in Responses, StoreKept(y),
         UNCHANGED <<req, conv, scan, codex, cl, history>>
  PROVE  IInv'
BY HandlerMoves DEF Fails, Leaves, Goes

LEMMA EndsKeeps ==
  ASSUME IInv, NEW r \in Responses, pc[r] \notin {"idle"} \cup Over, Ends(r), StoreKept(r),
         UNCHANGED <<req, conv, scan, codex, cl, history>>
  PROVE  IInv'
BY HandlerMoves DEF Ends, Leaves, Goes, Over

LEMMA GoesKeeps ==
  ASSUME IInv, NEW r \in Responses, pc[r] \notin {"idle"} \cup Over, StoreKept(r),
         NEW place \in Owning \cup Over, Goes(r, place),
         Fits(place, r),
         UNCHANGED <<req, conv, scan, locks, codex, cl, history>>
  PROVE  IInv'
BY HandlerMoves DEF locks

LEMMA UnchangedKept ==
  ASSUME IInv, NEW r \in Responses, UNCHANGED <<store, conv, codex>>
  PROVE  StoreKept(r)
BY StoreUnchanged DEF IInv, codex

LEMMA ClaimRefusedKeeps == ASSUME IInv, NEW r \in Responses, ClaimRefused(r)  PROVE IInv'
BY UnchangedKept, FailsKeeps DEF ClaimRefused, Over

LEMMA InvalidKeeps == ASSUME IInv, NEW r \in Responses, Invalid(r)  PROVE IInv'
BY UnchangedKept, FailsKeeps DEF Invalid, Over

LEMMA GivesUpKeeps == ASSUME IInv, NEW r \in Responses, GivesUp(r)  PROVE IInv'
BY UnchangedKept, GoesKeeps DEF GivesUp, Over, Owning

LEMMA LosesEventsKeeps == ASSUME IInv, NEW r \in Responses, LosesEvents(r)  PROVE IInv'
BY UnchangedKept, GoesKeeps, EndsKeeps DEF LosesEvents, Over, Owning

LEMMA InterruptAnsweredKeeps ==
  ASSUME IInv, NEW r \in Responses, InterruptAnswered(r)  PROVE IInv'
BY UnchangedKept, EndsKeeps DEF InterruptAnswered, Over

LEMMA DisconnectKeeps == ASSUME IInv, NEW r \in Responses, Disconnect(r)  PROVE IInv'
<1>1. StoreKept(r) /\ pc[r] \notin {"idle"} \cup Over
  BY UnchangedKept DEF Disconnect, Before, Owning, Over
<1>2. CASE Goes(r, "interrupting") /\ UNCHANGED locks
  BY <1>1, <1>2, GoesKeeps DEF Disconnect, Owning
<1>3. CASE Goes(r, "gone") /\ Leaves(r)
  BY <1>1, <1>3, HandlerMoves DEF Disconnect, Leaves, Over
<1> QED  BY <1>2, <1>3 DEF Disconnect

\* start_error stores the refusal, of a start that did not take place.
LEMMA RefusalKept ==
  ASSUME IInv, NEW r \in Responses, RefusalRecorded(r), ~Active(r),
         pc[r] \notin {"idle"} \cup Over, UNCHANGED <<conv, codex>>
  PROVE  StoreKept(r)
<1> DEFINE new == Fields!RejectEdit(records[r])
<1>1. Storable(new, r)
  BY OnRecord, RejectFacts
<1>2. Stores(r, new) \/ StoreRefuses(r, new)
  BY DEF RefusalRecorded
<1>3. pc'[r] \notin Sending
  BY DEF RefusalRecorded, Fails, IInv, TypeOK
<1> HIDE DEF new
<1> QED  BY <1>1, <1>2, <1>3, StoreStepKept DEF IInv, codex

LEMMA ThreadNotOpenedKeeps == ASSUME IInv, NEW r \in Responses, ThreadNotOpened(r)  PROVE IInv'
<1>1. ~Active(r) /\ pc[r] \notin {"idle"} \cup Over
  BY NotYetActive DEF ThreadNotOpened, Before, Over
<1>2. StoreKept(r) /\ Fails(r)
  BY <1>1, RefusalKept, UnchangedKept DEF ThreadNotOpened, RefusalRecorded
<1> QED  BY <1>1, <1>2, FailsKeeps DEF ThreadNotOpened

LEMMA StartNotSentKeeps == ASSUME IInv, NEW r \in Responses, StartNotSent(r)  PROVE IInv'
<1>1. ~Active(r) /\ pc[r] \notin {"idle"} \cup Over
  BY NotYetActive DEF StartNotSent, Before, Over
<1>2. StoreKept(r) /\ Fails(r)
  BY <1>1, RefusalKept, UnchangedKept DEF StartNotSent, RefusalRecorded
<1> QED  BY <1>1, <1>2, FailsKeeps DEF StartNotSent

LEMMA NotStartedKeeps == ASSUME IInv, NEW r \in Responses, NotStarted(r)  PROVE IInv'
<1>1. pc[r] \notin {"idle"} \cup Over
  BY DEF NotStarted, Over
<1>2. start[r] = "refused" => ~Active(r)
  BY DEF IInv, StartsInOrder, Active
<1>3. StoreKept(r) /\ Fails(r)
  BY <1>1, <1>2, RefusalKept, UnchangedKept DEF NotStarted, RefusalRecorded
<1> QED  BY <1>1, <1>3, FailsKeeps DEF NotStarted

LEMMA StartKept ==
  ASSUME IInv, NEW r \in Responses, NEW t \in Responses \cup {None}, pc[r] = "starting",
         Stores(r, Fields!StartEdit(records[r], t))
           \/ StoreRefuses(r, Fields!StartEdit(records[r], t)),
         UNCHANGED <<conv, codex>>
  PROVE  StoreKept(r)
<1> DEFINE new == Fields!StartEdit(records[r], t)
<1>1. Storable(new, r) /\ KeepsSent(new, records[r])
  BY OnRecord, StartFacts DEF Over
<1> HIDE DEF new
<1> QED  BY <1>1, StoreStepKept DEF IInv, codex, new

LEMMA StartedKeeps == ASSUME IInv, NEW r \in Responses, Started(r)  PROVE IInv'
<1>1. StoreKept(r) /\ pc[r] \notin {"idle"} \cup Over
  BY StartKept DEF Started, Over
<1>2. CASE Fails(r)
  BY <1>1, <1>2, FailsKeeps DEF Started
<1>3. ASSUME NEW place \in {"announcing", "running"}, Goes(r, place),
             control' = Without(control, r), UNCHANGED <<guard, permits>>
      PROVE  IInv'
  <2>1. Fits(place, r)
    BY DEF Started, IInv, StartsInOrder, Fits
  <2>2. guard' = guard /\ permits' = permits /\ place \in Owning
    BY <1>3 DEF Owning
  <2> QED
    BY <1>1, <1>3, <2>1, <2>2, HandlerMoves DEF Started
<1> QED  BY <1>2, <1>3 DEF Started

LEMMA AnnouncedKeeps == ASSUME IInv, NEW r \in Responses, Announced(r)  PROVE IInv'
<1>1. Fits("running", r) /\ pc[r] \notin {"idle"} \cup Over
  BY DEF Announced, IInv, StartsInOrder, Fits, Over
<1> QED  BY <1>1, UnchangedKept, GoesKeeps DEF Announced, Owning

LEMMA StartedUnnamedKeeps == ASSUME IInv, NEW r \in Responses, StartedUnnamed(r)  PROVE IInv'
BY StartKept, FailsKeeps DEF StartedUnnamed, Over

LEMMA RecordFailureKeeps == ASSUME IInv, NEW r \in Responses, RecordFailure(r)  PROVE IInv'
<1> DEFINE new == Fields!BeginErrorEdit(records[r])
<1>1. Storable(new, r) /\ KeepsSent(new, records[r])
  BY OnRecord, BeginErrorFacts DEF RecordFailure, Over
<1>2. UNCHANGED store \/ Stores(r, new) \/ StoreRefuses(r, new)
  BY DEF RecordFailure
<1> HIDE DEF new
<1>3. StoreKept(r)
  BY <1>1, <1>2, StoreStepKept, UnchangedKept DEF RecordFailure, IInv, codex
<1> QED  BY <1>3, GoesKeeps DEF RecordFailure, Over

LEMMA SeesEndKeeps == ASSUME IInv, NEW r \in Responses, SeesEnd(r)  PROVE IInv'
<1>1. turn[r] \in Fields!Statuses /\ pc[r] \notin {"idle"} \cup Over
  BY DEF SeesEnd, Over, Terminal, Fields!Statuses
<1>2. Observes(r, turn[r]) \/ ObserveRefused(r, turn[r])
  BY DEF SeesEnd
<1>3. StoreKept(r)
  BY <1>1, <1>2, ObservesKept DEF SeesEnd, IInv, codex
<1>4. Ends(r) \/ \E place \in Owning : Fits(place, r) /\ Goes(r, place) /\ UNCHANGED locks
  <2>1. conv[r] # None
    BY DEF SeesEnd, IInv, StartsInOrder
  <2> QED  BY <2>1 DEF SeesEnd, Owning
<1> QED  BY <1>1, <1>3, <1>4, EndsKeeps, GoesKeeps DEF SeesEnd

LEMMA SaveMappingKeeps == ASSUME IInv, NEW r \in Responses, SaveMapping(r)  PROVE IInv'
<1>1. pc[r] \notin {"idle"} \cup Over
  BY DEF SaveMapping, Over
<1>2. Storable(records[r], r) /\ KeepsSent(records[r], records[r])
  BY <1>1, OnRecord DEF KeepsSent
<1>3. CASE StoreRefuses(r, records[r])
  <2>1. StoreKept(r)
    BY <1>2, <1>3, StoreStepKept DEF SaveMapping, IInv, codex
  <2> QED  BY <1>1, <2>1, EndsKeeps DEF SaveMapping
<1>4. CASE mapped' = mapped \cup {r} /\ UNCHANGED <<records, db, failed, faults>>
  <2>1. StoreKept(r)
    BY <1>4 DEF SaveMapping, IInv, codex, TypeOK, StoreKept, StoreTyped, TablesReal, KeepsSent,
       StartsInOrder
  <2> QED  BY <1>1, <2>1, EndsKeeps DEF SaveMapping
<1> QED  BY <1>3, <1>4 DEF SaveMapping

-----------------------------------------------------------------------------
(* The observer and the control clients.                                   *)

ClientState == [op : {"none", "status", "interrupt", "steer"},
                at : Responses \cup {None}, got : Reads \cup {None},
                stage : {"idle", "lock", "read", "observe", "decide", "send", "sent"}]

LEMMA RunningOnThread ==
  ASSUME IInv, UNCHANGED <<pc, conv>>
  PROVE  \A r \in Responses : Fits(pc'[r], r)
BY DEF IInv, StartsInOrder

LEMMA ObserveEndKeeps == ASSUME IInv, NEW r \in Responses, ObserveEnd(r)  PROVE IInv'
<1>1. turn[r] \in Terminal /\ turn[r] \in Fields!Statuses
  BY DEF ObserveEnd, IInv, EndsReal, Terminal, Fields!Statuses
<1>2. StoreKept(r)
  BY <1>1, ObservesKept DEF ObserveEnd, IInv, handlers
<1>3. TypeOK'
  BY <1>2 DEF ObserveEnd, IInv, TypeOK, StoreKept, StoreTyped, handlers, locks, history
<1> QED
  BY <1>2, <1>3, RunningOnThread, QuietKeeps DEF ObserveEnd, handlers, locks

LEMMA ObserverLagsKeeps == ASSUME IInv, NEW r \in Responses, ObserverLags(r)  PROVE IInv'
<1>1. StoreKept(r)
  BY StoreUnchanged DEF ObserverLags, IInv, handlers
<1>2. TypeOK'
  BY <1>1 DEF ObserverLags, IInv, TypeOK, StoreKept, StoreTyped, handlers, locks, history
<1> QED
  BY <1>1, <1>2, RunningOnThread, QuietKeeps DEF ObserverLags, handlers, locks

\* A client's step after Ask that reads nothing new.
LEMMA ClientKeeps ==
  ASSUME IInv, NEW c \in Clients, cl[c].stage # "idle", StoreKept(cl[c].at),
         NEW v \in ClientState, cl' = [cl EXCEPT ![c] = v],
         v.stage # "observe", v.stage # "idle" => v.at = cl[c].at,
         control' \in [Responses -> Responses \cup Clients \cup {None}],
         stops' \in [Responses -> Nat],
         UNCHANGED <<handlers, codex, guard, permits, sent>>
  PROVE  IInv'
<1>1. cl[c].at \in Responses /\ cl \in [Clients -> ClientState]
  BY DEF IInv, CallersOnRecord, TypeOK, ClientState
<1>2. cl' \in [Clients -> ClientState]
  BY <1>1
<1>3. TypeOK'
  BY <1>2 DEF IInv, TypeOK, StoreKept, StoreTyped, handlers, codex, ClientState
<1>4. \A d \in Clients :
        /\ cl'[d].stage = "observe" => cl'[d] = cl[d]
        /\ cl'[d].stage # "idle" => cl[d].stage # "idle" /\ cl'[d].at = cl[d].at
  BY <1>1
<1> QED
  BY <1>1, <1>3, <1>4, RunningOnThread, QuietKeeps DEF handlers, codex

LEMMA ClientTypes ==
  ASSUME IInv, NEW c \in Clients
  PROVE  /\ cl[c] \in ClientState /\ Idle \in ClientState
         /\ control \in [Responses -> Responses \cup Clients \cup {None}]
         /\ Without(control, c) \in [Responses -> Responses \cup Clients \cup {None}]
         /\ stops \in [Responses -> Nat]
         /\ cl[c].stage # "idle" => /\ cl[c].at \in Responses /\ records[cl[c].at] # None
                                   /\ Storable(records[cl[c].at], cl[c].at)
<1>1. Idle \in ClientState
  BY DEF Idle, ClientState
<1>2. cl[c].stage # "idle" => cl[c].at \in Responses /\ records[cl[c].at] # None
  BY DEF IInv, CallersOnRecord
<1> QED
  BY <1>1, <1>2, RecordFacts DEF IInv, TypeOK, ClientState, Without

LEMMA ClientLockKeeps == ASSUME IInv, NEW c \in Clients, ClientLock(c)  PROVE IInv'
<1> DEFINE v == [cl[c] EXCEPT !.stage = "read"]
<1>1. cl[c].stage # "idle" /\ StoreKept(cl[c].at)
  BY ClientTypes, StoreUnchanged DEF ClientLock, IInv, handlers, codex
<1>2. v \in ClientState /\ cl' = [cl EXCEPT ![c] = v] /\ v.stage = "read" /\ v.at = cl[c].at
  BY ClientTypes DEF ClientLock, ClientState
<1>3. control' \in [Responses -> Responses \cup Clients \cup {None}]
  BY ClientTypes DEF ClientLock
<1> HIDE DEF v
<1> QED
  BY <1>1, <1>2, <1>3, ClientTypes, ClientKeeps DEF ClientLock, history

LEMMA ClientEndsKeeps ==
  ASSUME IInv, NEW c \in Clients, cl[c].stage # "idle", StoreKept(cl[c].at), ClientEnds(c),
         UNCHANGED <<handlers, codex, history>>
  PROVE  IInv'
<1>1. cl' = [cl EXCEPT ![c] = Idle] /\ Idle.stage = "idle"
  BY DEF ClientEnds, Idle
<1> QED
  BY <1>1, ClientTypes, ClientKeeps DEF ClientEnds, history

LEMMA ClientObservesKeeps == ASSUME IInv, NEW c \in Clients, ClientObserves(c)  PROVE IInv'
<1> DEFINE r == cl[c].at
           s == cl[c].got
           v == [cl[c] EXCEPT !.stage = "decide"]
<1>1. cl[c].stage # "idle" /\ r \in Responses
  BY ClientTypes DEF ClientObserves
<1>2. s \in Fields!Statuses /\ (s \in Terminal => turn[r] = s)
  BY DEF ClientObserves, IInv, EndsReal, Reads
<1>3. UNCHANGED store \/ Observes(r, s) \/ ObserveRefused(r, s)
  BY DEF ClientObserves
<1>4. UNCHANGED <<conv, turn>>
  BY DEF ClientObserves, handlers, codex
<1>5. StoreKept(r)
  BY <1>1, <1>2, <1>3, <1>4, ObservesKept, StoreUnchanged DEF IInv
<1>6. CASE ClientEnds(c)
  BY <1>1, <1>5, <1>6, ClientEndsKeeps DEF ClientObserves
<1>7. CASE cl' = [cl EXCEPT ![c].stage = "decide"] /\ UNCHANGED locks
  <2>1. v \in ClientState /\ cl' = [cl EXCEPT ![c] = v] /\ v.stage = "decide" /\ v.at = r
    BY <1>7, ClientTypes DEF ClientState
  <2> HIDE DEF v
  <2> QED
    BY <1>1, <1>5, <1>7, <2>1, ClientTypes, ClientKeeps DEF ClientObserves, locks, history
<1> QED  BY <1>6, <1>7 DEF ClientObserves

\* The mark of an interruption, before and after it is sent.
LEMMA MarkKept ==
  ASSUME IInv, NEW c \in Clients, cl[c].stage # "idle", NEW mark \in {"unknown", "accepted"},
         \/ Stores(cl[c].at, Fields!InterruptEdit(records[cl[c].at], mark))
         \/ StoreRefuses(cl[c].at, Fields!InterruptEdit(records[cl[c].at], mark))
         \/ UNCHANGED store,
         UNCHANGED <<handlers, codex>>
  PROVE  StoreKept(cl[c].at)
<1> DEFINE r == cl[c].at
           new == Fields!InterruptEdit(records[r], mark)
<1>1. r \in Responses /\ Storable(new, r) /\ KeepsSent(new, records[r])
  BY ClientTypes, InterruptFacts
<1>2. Stores(r, new) \/ StoreRefuses(r, new) \/ UNCHANGED store
  OBVIOUS
<1> HIDE DEF new
<1> QED
  BY <1>1, <1>2, StoreStepKept, StoreUnchanged DEF IInv, handlers, codex

LEMMA ClientDecidesKeeps == ASSUME IInv, NEW c \in Clients, ClientDecides(c)  PROVE IInv'
<1> DEFINE v == [cl[c] EXCEPT !.stage = "send"]
<1>1. cl[c].stage # "idle"
  BY DEF ClientDecides
<1>2. StoreKept(cl[c].at)
  BY <1>1, MarkKept DEF ClientDecides
<1>3. CASE ClientEnds(c)
  BY <1>1, <1>2, <1>3, ClientEndsKeeps DEF ClientDecides
<1>4. CASE cl' = [cl EXCEPT ![c].stage = "send"] /\ UNCHANGED locks
  <2>1. v \in ClientState /\ cl' = [cl EXCEPT ![c] = v] /\ v.stage = "send" /\ v.at = cl[c].at
    BY <1>4, ClientTypes DEF ClientState
  <2> HIDE DEF v
  <2> QED
    BY <1>1, <1>2, <1>4, <2>1, ClientTypes, ClientKeeps DEF ClientDecides, locks, history
<1> QED  BY <1>3, <1>4 DEF ClientDecides

LEMMA ClientSendsKeeps == ASSUME IInv, NEW c \in Clients, ClientSends(c)  PROVE IInv'
<1> DEFINE v == [cl[c] EXCEPT !.stage = "sent"]
<1>1. cl[c].stage # "idle" /\ StoreKept(cl[c].at)
  BY ClientTypes, StoreUnchanged DEF ClientSends, IInv, handlers, codex
<1>2. v \in ClientState /\ cl' = [cl EXCEPT ![c] = v] /\ v.stage = "sent" /\ v.at = cl[c].at
  BY ClientTypes DEF ClientSends, ClientState
<1>3. stops' \in [Responses -> Nat]
  BY ClientTypes DEF ClientSends
<1> HIDE DEF v
<1> QED
  BY <1>1, <1>2, <1>3, ClientTypes, ClientKeeps DEF ClientSends, locks

LEMMA ClientAnsweredKeeps == ASSUME IInv, NEW c \in Clients, ClientAnswered(c)  PROVE IInv'
BY MarkKept, ClientEndsKeeps DEF ClientAnswered

LEMMA ClientGoneKeeps == ASSUME IInv, NEW c \in Clients, ClientGone(c)  PROVE IInv'
<1>1. cl[c].stage # "idle" /\ StoreKept(cl[c].at)
  BY ClientTypes, StoreUnchanged DEF ClientGone, IInv, handlers, codex
<1> QED  BY <1>1, ClientEndsKeeps DEF ClientGone

\* Only the client changes, and what it has is real.
LEMMA ClientTurnsKeeps ==
  ASSUME IInv, NEW c \in Clients, NEW v \in ClientState, cl' = [cl EXCEPT ![c] = v],
         v.stage # "idle" => v.at \in Responses /\ records[v.at] # None,
         v.stage = "observe" => v.got \in Reads /\ (v.got \in Terminal => turn[v.at] = v.got),
         UNCHANGED <<store, handlers, locks, codex, history>>
  PROVE  IInv'
<1> USE DEF IInv, store, handlers, locks, codex, history
<1>1. cl \in [Clients -> ClientState]
  BY DEF TypeOK, ClientState
<1>2. cl' \in [Clients -> ClientState]
  BY <1>1
<1>3. TypeOK'
  BY <1>2 DEF TypeOK, ClientState
<1>4. CallersOnRecord' /\ EndsReal'
  BY <1>1 DEF CallersOnRecord, EndsReal
<1>5. TablesReal' /\ ThreadsRooted' /\ StartsInOrder' /\ OwnsThread' /\ ActiveOnRecord'
  BY DEF TablesReal, ThreadsRooted, StartsInOrder, OwnsThread, ActiveOnRecord, Active
<1>6. OthersChecked' /\ OneActiveTurnPerThread'
  BY DEF OthersChecked, OneActiveTurnPerThread, Active
<1> QED  BY <1>3, <1>4, <1>5, <1>6

LEMMA ReadFacts ==
  ASSUME NEW q \in Responses, NEW s \in ReadAnswers(q)
  PROVE  s \in Reads /\ (s \in Terminal => turn[q] = s)
BY DEF ReadAnswers, Reads, Fields!Statuses, Terminal, Fields!Terminal

LEMMA ClientReadsKeeps == ASSUME IInv, NEW c \in Clients, ClientReads(c)  PROVE IInv'
<1>1. PICK s \in ReadAnswers(cl[c].at) :
        cl' = [cl EXCEPT ![c].got = s, ![c].stage = "observe"]
  BY DEF ClientReads
<1> DEFINE v == [cl[c] EXCEPT !.got = s, !.stage = "observe"]
<1>2. cl[c].stage # "idle" /\ cl[c].at \in Responses /\ records[cl[c].at] # None
  BY ClientTypes DEF ClientReads
<1>3. s \in Reads /\ (s \in Terminal => turn[cl[c].at] = s)
  BY <1>2, ReadFacts
<1>4. /\ v \in ClientState /\ cl' = [cl EXCEPT ![c] = v] /\ v.at = cl[c].at /\ v.got = s
      /\ v.stage = "observe"
  <2>1. cl[c] \in ClientState /\ cl \in [Clients -> ClientState]
    BY DEF IInv, TypeOK, ClientState
  <2> QED  BY <1>1, <1>3, <2>1 DEF ClientState
<1> HIDE DEF v
<1> QED
  BY <1>2, <1>3, <1>4, ClientTurnsKeeps DEF ClientReads

LEMMA AskKeeps == ASSUME IInv, NEW c \in Clients, NEW a \in Asks, Ask(c, a)  PROVE IInv'
<1> DEFINE v == [op |-> a.op, at |-> a.at, got |-> None, stage |-> FirstStage(a.op)]
<1>1. v \in ClientState /\ v.stage # "observe" /\ v.at = a.at /\ v.at \in Responses
  BY AsksAssumption DEF ClientState, FirstStage
<1>2. cl' = [cl EXCEPT ![c] = v] /\ records[a.at] # None
  BY DEF Ask
<1> HIDE DEF v
<1> QED
  BY <1>1, <1>2, ClientTurnsKeeps DEF Ask

-----------------------------------------------------------------------------
(* The steps on the way to turn/start.                                     *)

\* A handler goes on to its next place before the start, on the thread it has.
\* What the invariant asks of the new place is left to the step.
LEMMA HandlerAdvances ==
  ASSUME IInv, TypeOK', NEW r \in Responses, pc[r] \in Before, NEW place \in Before,
         Goes(r, place), NEW y \in Responses, StoreKept(y), UNCHANGED <<conv, start, turn, unobserved, cl, guard>>,
         \A q \in Responses \ {r} : scan'[q] = scan[q],
         StartsInOrder',
         place \in Sending =>
           records'[r].thread = conv[r] /\ records'[r].phase \notin {"received", "rejected"},
         place = "reading" => /\ scan'[r].at \in Responses /\ scan'[r].got \in Reads
                              /\ scan'[r].got \in Terminal => turn[scan'[r].at] = scan'[r].got,
         \A q \in Responses : q # r /\ conv[r] # None /\ conv[q] = conv[r] /\ Active(q) =>
           /\ place \in {"checking", "reading"} => q \in scan'[r].todo
           /\ place \notin Checked
  PROVE  IInv'
<1> USE DEF IInv
<1>1. pc' = [pc EXCEPT ![r] = place] /\ pc \in [Responses -> Places] /\ pc'[r] = place
  BY DEF TypeOK, Goes
<1>2. records[r] # None
  BY OnRecord DEF Before, Over
<1>3. TablesReal'
  BY DEF StoreKept
<1>4. ThreadsRooted' /\ OneActiveTurnPerThread'
  BY DEF ThreadsRooted, OneActiveTurnPerThread, Active
<1>5. OwnsThread'
  BY <1>1 DEF OwnsThread
<1>6. ActiveOnRecord'
  <2> SUFFICES ASSUME NEW q \in Responses, Active(q) \/ pc'[q] \in Sending
               PROVE  /\ records'[q] # None /\ records'[q].thread = conv[q]
                      /\ records'[q].phase \notin {"received", "rejected"}
    BY DEF ActiveOnRecord, Active
  <2>1. CASE Active(q) \/ (pc[q] \in Sending /\ pc'[q] \in Sending)
    <3>1. /\ records[q] # None /\ records[q].thread = conv[q]
          /\ records[q].phase \notin {"received", "rejected"}
      BY <2>1 DEF ActiveOnRecord
    <3>2. CASE q = y
      BY <2>1, <3>1, <3>2 DEF StoreKept, KeepsSent
    <3>3. CASE q # y
      BY <3>1, <3>3 DEF StoreKept
    <3> QED  BY <3>2, <3>3
  <2>2. CASE q = r /\ pc'[r] \in Sending
    BY <1>1, <1>2, <2>2 DEF StoreKept, StartsInOrder
  <2>3. q # r => pc'[q] = pc[q]
    BY <1>1
  <2> QED  BY <2>1, <2>2, <2>3
<1>7. CallersOnRecord'
  BY <1>1, <1>2 DEF CallersOnRecord, StoreKept
<1>8. EndsReal'
  BY <1>1 DEF EndsReal
<1>9. OthersChecked'
  <2> SUFFICES ASSUME NEW x \in Responses, NEW q \in Responses, x # q, conv[x] # None,
                      conv[q] = conv[x], Active(q)
               PROVE  /\ pc'[x] \in {"checking", "reading"} => q \in scan'[x].todo
                      /\ pc'[x] \notin Checked
    BY DEF OthersChecked, Active
  <2>1. CASE x = r
    BY <1>1, <2>1
  <2>2. CASE x # r
    BY <1>1, <2>2 DEF OthersChecked
  <2> QED  BY <2>1, <2>2
<1> QED
  BY <1>3, <1>4, <1>5, <1>6, <1>7, <1>8, <1>9

ScanState == [todo : SUBSET Responses, at : Responses \cup {None}, got : Reads \cup {None}]

LEMMA ReadIntoScan ==
  ASSUME NEW T, NEW A, NEW G, NEW u \in [todo : T, at : A, got : G], NEW a \in A, NEW g \in G
  PROVE  LET v == [u EXCEPT !.at = a, !.got = g] IN
           v \in [todo : T, at : A, got : G] /\ v.todo = u.todo /\ v.at = a /\ v.got = g
OBVIOUS

\* Only the places of handlers, their checks and the locks change.
LEMMA AdvanceTypes ==
  ASSUME IInv, pc' \in [Responses -> Places], scan' \in [Responses -> ScanState],
         conv' \in [Responses -> Responses \cup {None}],
         guard' \in [Responses -> Responses \cup {None}],
         control' \in [Responses -> Responses \cup Clients \cup {None}],
         permits' \subseteq Responses, StoreTyped',
         UNCHANGED <<req, codex, cl, history>>
  PROVE  TypeOK'
BY DEF IInv, TypeOK, StoreTyped, ScanState, codex, history

LEMMA HandlerTypes ==
  ASSUME IInv
  PROVE  /\ pc \in [Responses -> Places] /\ scan \in [Responses -> ScanState]
         /\ conv \in [Responses -> Responses \cup {None}]
         /\ guard \in [Responses -> Responses \cup {None}]
         /\ control \in [Responses -> Responses \cup Clients \cup {None}]
         /\ permits \subseteq Responses /\ StoreTyped
BY DEF IInv, TypeOK, ScanState, StoreTyped

\* What may still run on a thread is among its unsettled executions.
LEMMA ActiveUnsettled ==
  ASSUME IInv, NEW q \in Responses, NEW t \in Responses, Active(q), conv[q] = t
  PROVE  q \in IdleTodo(t)
<1>1. records[q] # None /\ records[q].thread = t /\ records[q].phase # "rejected"
  BY DEF IInv, ActiveOnRecord
<1>2. turn[q] \notin Terminal
  BY DEF IInv, StartsInOrder, Active, Terminal, Fields!Terminal
<1>3. records[q].status \notin Terminal
  BY <1>1, <1>2 DEF IInv, TablesReal
<1> QED  BY <1>1, <1>3 DEF IdleTodo, Unsettled

LEMMA LockControlKeeps == ASSUME IInv, NEW r \in Responses, LockControl(r)  PROVE IInv'
<1> USE DEF LockControl
<1>1. conv[r] \in Responses
  BY HandlerTypes DEF IInv, StartsInOrder
<1> DEFINE v == [NoScan EXCEPT !.todo = IdleTodo(conv[r])]
<1>2. v \in ScanState /\ v.todo = IdleTodo(conv[r])
  BY DEF NoScan, IdleTodo, Unsettled, ScanState
<1>3. scan' = [scan EXCEPT ![r] = v]
  OBVIOUS
<1> HIDE DEF v
<1>4. pc' = [pc EXCEPT ![r] = "checking"]
  BY DEF Goes
<1>5. StoreKept(r)
  BY UnchangedKept
<1>6. /\ scan' \in [Responses -> ScanState] /\ pc' \in [Responses -> Places]
      /\ control' \in [Responses -> Responses \cup Clients \cup {None}]
  <2>1. "checking" \in Places
    BY DEF Places, Before
  <2>2. control' = [control EXCEPT ![conv[r]] = r]
    OBVIOUS
  <2>3. scan' \in [Responses -> ScanState]
    BY <1>2, <1>3, HandlerTypes
  <2>4. pc' \in [Responses -> Places]
    BY <1>4, <2>1, HandlerTypes
  <2>5. control' \in [Responses -> Responses \cup Clients \cup {None}]
    BY <2>2, HandlerTypes
  <2> QED
    BY <2>3, <2>4, <2>5
<1>7. TypeOK'
  BY <1>5, <1>6, AdvanceTypes, HandlerTypes DEF StoreKept
<1>8. StartsInOrder'
  BY <1>1, <1>4, HandlerTypes DEF IInv, StartsInOrder, codex, Before
<1>9. \A q \in Responses : q # r /\ conv[q] = conv[r] /\ Active(q) => q \in scan'[r].todo
  BY <1>1, <1>2, <1>3, ActiveUnsettled, HandlerTypes
<1>10. \A q \in Responses \ {r} : scan'[q] = scan[q]
  BY <1>3, HandlerTypes
<1> QED
  BY <1>5, <1>7, <1>8, <1>9, <1>10, HandlerAdvances DEF codex, Before

LEMMA CheckNextKeeps ==
  ASSUME IInv, NEW r \in Responses, NEW q \in Responses, CheckNext(r, q)
  PROVE  IInv'
<1> USE DEF CheckNext
<1>1. CASE Fails(r) /\ UNCHANGED scan
  BY <1>1, UnchangedKept, FailsKeeps DEF Over
<1>2. CASE Goes(r, "reading") /\ UNCHANGED locks
           /\ \E s \in ReadAnswers(q) : scan' = [scan EXCEPT ![r].at = q, ![r].got = s]
  <2>1. PICK s \in ReadAnswers(q) : scan' = [scan EXCEPT ![r].at = q, ![r].got = s]
    BY <1>2
  <2> DEFINE v == [scan[r] EXCEPT !.at = q, !.got = s]
  <2>2. s \in Reads /\ (s \in Terminal => turn[q] = s)
    BY ReadFacts
  <2>3. v \in ScanState /\ v.todo = scan[r].todo /\ v.at = q /\ v.got = s
    <3>1. scan[r] \in ScanState /\ s \in Reads \cup {None} /\ q \in Responses \cup {None}
      BY <2>2, HandlerTypes
    <3> QED
      BY <3>1, ReadIntoScan DEF ScanState
  <2>4. scan' = [scan EXCEPT ![r] = v]
    BY <2>1, HandlerTypes DEF ScanState
  <2> HIDE DEF v
  <2>5. pc' = [pc EXCEPT ![r] = "reading"]
    BY <1>2 DEF Goes
  <2>6. StoreKept(r)
    BY UnchangedKept
  <2>7. scan' \in [Responses -> ScanState] /\ pc' \in [Responses -> Places]
    <3>1. "reading" \in Places
      BY DEF Places, Before
    <3> QED
      BY <2>3, <2>4, <2>5, <3>1, HandlerTypes
  <2>8. TypeOK'
    BY <1>2, <2>6, <2>7, AdvanceTypes, HandlerTypes DEF StoreKept, locks
  <2>9. StartsInOrder'
    BY <2>5, HandlerTypes DEF IInv, StartsInOrder, codex, Before
  <2>10. /\ scan'[r] = v
         /\ \A x \in Responses \ {r} : scan'[x] = scan[x]
    BY <2>4, HandlerTypes
  <2>11. \A x \in Responses : x # r /\ conv[r] # None /\ conv[x] = conv[r] /\ Active(x) =>
                             x \in scan'[r].todo
    BY <2>3, <2>10 DEF IInv, OthersChecked
  <2> QED
    BY <1>2, <2>2, <2>3, <2>6, <2>8, <2>9, <2>10, <2>11, HandlerAdvances DEF codex, locks, Before
<1> QED  BY <1>1, <1>2

LEMMA RecordReadKeeps == ASSUME IInv, NEW r \in Responses, RecordRead(r)  PROVE IInv'
<1> USE DEF RecordRead
<1> DEFINE q == scan[r].at
           s == scan[r].got
           v == [NoScan EXCEPT !.todo = scan[r].todo \ {q}]
<1>1. /\ q \in Responses /\ s \in Fields!Statuses
      /\ s \in Terminal => turn[q] = s
  BY DEF IInv, EndsReal, Reads
<1>2. UNCHANGED <<conv, turn>> /\ UNCHANGED codex
  BY DEF codex
<1>3. StoreKept(q)
  <2>1. CASE UNCHANGED store
    BY <1>1, <1>2, <2>1, UnchangedKept
  <2>2. CASE Observes(q, s) \/ ObserveRefused(q, s)
    BY <1>1, <1>2, <2>2, ObservesKept DEF IInv
  <2> QED  BY <2>1, <2>2
<1>4. CASE Fails(r) /\ UNCHANGED scan
  BY <1>1, <1>3, <1>4, FailsKeeps DEF Over
<1>5. CASE s \in Terminal /\ Goes(r, "checking") /\ UNCHANGED locks
           /\ scan' = [scan EXCEPT ![r] = v]
  <2>1. v \in ScanState /\ v.todo = scan[r].todo \ {q}
    <3>1. scan[r] \in ScanState
      BY HandlerTypes
    <3>2. scan[r].todo \ {q} \in SUBSET Responses
      BY <3>1 DEF ScanState
    <3> QED
      BY <3>2 DEF NoScan, ScanState
  <2> HIDE DEF v
  <2>2. pc' = [pc EXCEPT ![r] = "checking"] /\ "checking" \in Places
    BY <1>5 DEF Goes, Places, Before
  <2>3. scan' \in [Responses -> ScanState] /\ pc' \in [Responses -> Places]
    BY <1>5, <2>1, <2>2, HandlerTypes
  <2>4. TypeOK'
    BY <1>3, <1>5, <2>3, AdvanceTypes, HandlerTypes DEF StoreKept, locks
  <2>5. StartsInOrder'
    BY <2>2, HandlerTypes DEF IInv, StartsInOrder, codex, Before
  <2>6. scan'[r] = v /\ \A x \in Responses \ {r} : scan'[x] = scan[x]
    BY <1>5, HandlerTypes
  <2>7. ~Active(q)
    BY <1>1, <1>5 DEF IInv, StartsInOrder, Active, Terminal, Fields!Terminal
  <2>8. \A x \in Responses : x # r /\ conv[r] # None /\ conv[x] = conv[r] /\ Active(x) =>
                            x \in scan'[r].todo
    BY <2>1, <2>6, <2>7 DEF IInv, OthersChecked
  <2> QED
    BY <1>1, <1>3, <1>5, <2>4, <2>5, <2>6, <2>8, HandlerAdvances DEF codex, locks, Before
<1>6. \/ Fails(r) /\ UNCHANGED scan
      \/ s \in Terminal /\ Goes(r, "checking") /\ UNCHANGED locks /\ scan' = [scan EXCEPT ![r] = v]
  OBVIOUS
<1> QED  BY <1>4, <1>5, <1>6

\* The check is over: nothing else runs on the thread.
LEMMA ResolveKeeps == ASSUME IInv, NEW r \in Responses, Resolve(r)  PROVE IInv'
<1> USE DEF Resolve
<1>1. pc' = [pc EXCEPT ![r] = "refreshing"] /\ "refreshing" \in Places
  BY DEF Goes, Places, Before
<1>2. pc' \in [Responses -> Places]
  BY <1>1, HandlerTypes
<1>3. StoreKept(r)
  BY UnchangedKept
<1>4. TypeOK'
  BY <1>2, <1>3, AdvanceTypes, HandlerTypes DEF StoreKept, locks
<1>5. StartsInOrder'
  BY <1>1, HandlerTypes DEF IInv, StartsInOrder, codex, Before
<1>6. \A q \in Responses : ~(q # r /\ conv[r] # None /\ conv[q] = conv[r] /\ Active(q))
  BY DEF IInv, OthersChecked, StartsInOrder
<1> QED
  BY <1>3, <1>4, <1>5, <1>6, HandlerAdvances DEF codex, locks, Before

LEMMA ValidatedKeeps == ASSUME IInv, NEW r \in Responses, Validated(r)  PROVE IInv'
<1> USE DEF Validated
<1>1. pc' = [pc EXCEPT ![r] = "waiting"] /\ "waiting" \in Places
  BY DEF Goes, Places, Before
<1>2. /\ pc' \in [Responses -> Places]
      /\ control' \in [Responses -> Responses \cup Clients \cup {None}]
  <2>1. pc' \in [Responses -> Places]
    BY <1>1, HandlerTypes
  <2>2. control' \in [Responses -> Responses \cup Clients \cup {None}]
    BY HandlerTypes DEF Without
  <2> QED  BY <2>1, <2>2
<1>3. StoreKept(r)
  BY UnchangedKept
<1>4. TypeOK'
  BY <1>2, <1>3, AdvanceTypes, HandlerTypes DEF StoreKept
<1>5. StartsInOrder'
  BY <1>1, HandlerTypes DEF IInv, StartsInOrder, codex, Before
<1>6. \A q \in Responses : ~(q # r /\ conv[r] # None /\ conv[q] = conv[r] /\ Active(q))
  BY DEF IInv, OthersChecked
<1> QED
  BY <1>3, <1>4, <1>5, <1>6, HandlerAdvances DEF codex, Before

LEMMA AcquirePermitKeeps == ASSUME IInv, NEW r \in Responses, AcquirePermit(r)  PROVE IInv'
<1> USE DEF AcquirePermit
<1>1. pc' = [pc EXCEPT ![r] = "dispatching"] /\ "dispatching" \in Places
  BY DEF Goes, Places, Before
<1>2. pc' \in [Responses -> Places] /\ permits' \subseteq Responses
  BY <1>1, HandlerTypes
<1>3. StoreKept(r)
  BY UnchangedKept
<1>4. TypeOK'
  BY <1>2, <1>3, AdvanceTypes, HandlerTypes DEF StoreKept
<1>5. StartsInOrder'
  BY <1>1, HandlerTypes DEF IInv, StartsInOrder, codex, Before
<1>6. \A q \in Responses : ~(q # r /\ conv[r] # None /\ conv[q] = conv[r] /\ Active(q))
  BY DEF IInv, OthersChecked
<1> QED
  BY <1>3, <1>4, <1>5, <1>6, HandlerAdvances DEF codex, Before

LEMMA DispatchKeeps == ASSUME IInv, NEW r \in Responses, Dispatch(r)  PROVE IInv'
<1> USE DEF Dispatch
<1> DEFINE new == Fields!DispatchEdit(records[r], conv[r])
<1>1. Storable(new, r) /\ new.thread = conv[r] /\ new.phase = "dispatching"
  BY OnRecord, DispatchFacts, HandlerTypes DEF Over
<1>2. ~Active(r)
  BY NotYetActive DEF Before
<1>3. Stores(r, new) \/ StoreRefuses(r, new)
  OBVIOUS
<1>4. \/ StoreRefuses(r, new) /\ Fails(r)
      \/ /\ Stores(r, new) /\ Goes(r, "opening") /\ UNCHANGED <<guard, permits>>
         /\ control' = [t \in Responses |-> IF t = conv[r] THEN r ELSE control[t]]
  OBVIOUS
<1> HIDE DEF new
<1>5. pc'[r] \in {"failing", "opening"}
  BY <1>4, HandlerTypes DEF Fails, Goes
<1>6. StoreKept(r)
  BY <1>1, <1>2, <1>3, <1>5, StoreStepKept DEF IInv, codex
<1>7. CASE Fails(r)
  BY <1>6, <1>7, FailsKeeps DEF Over
<1>9. Stores(r, new) => records'[r] = new
  BY HandlerTypes DEF Stores, StoreTyped
<1>8. CASE /\ Stores(r, new) /\ Goes(r, "opening") /\ UNCHANGED <<guard, permits>>
           /\ control' = [t \in Responses |-> IF t = conv[r] THEN r ELSE control[t]]
  <2>1. pc' = [pc EXCEPT ![r] = "opening"] /\ "opening" \in Places
    BY <1>8 DEF Goes, Places, Before
  <2>2. pc' \in [Responses -> Places]
    BY <2>1, HandlerTypes
  <2>3. control' \in [Responses -> Responses \cup Clients \cup {None}]
    BY <1>8, HandlerTypes
  <2>4. TypeOK'
    BY <1>6, <1>8, <2>2, <2>3, AdvanceTypes, HandlerTypes DEF StoreKept
  <2>5. StartsInOrder'
    BY <2>1, HandlerTypes DEF IInv, StartsInOrder, codex, Before
  <2>6. \A q \in Responses : ~(q # r /\ conv[r] # None /\ conv[q] = conv[r] /\ Active(q))
    BY DEF IInv, OthersChecked
  <2>7. records'[r].thread = conv[r] /\ records'[r].phase \notin {"received", "rejected"}
    BY <1>1, <1>8, <1>9
  <2> QED
    BY <1>6, <1>8, <2>4, <2>5, <2>6, <2>7, HandlerAdvances DEF codex, Before
<1> QED  BY <1>4, <1>7, <1>8

LEMMA OpenThreadKeeps == ASSUME IInv, NEW r \in Responses, OpenThread(r)  PROVE IInv'
<1> USE DEF OpenThread
<1>1. pc' = [pc EXCEPT ![r] = "joining"] /\ "joining" \in Places
  BY DEF Goes, Places, Before
<1>2. pc' \in [Responses -> Places]
  BY <1>1, HandlerTypes
<1>3. StoreKept(r)
  BY UnchangedKept
<1>4. TypeOK'
  BY <1>2, <1>3, AdvanceTypes, HandlerTypes DEF StoreKept, locks
<1>5. StartsInOrder'
  BY <1>1, HandlerTypes DEF IInv, StartsInOrder, codex, Before
<1>6. \A q \in Responses : ~(q # r /\ conv[r] # None /\ conv[q] = conv[r] /\ Active(q))
  BY DEF IInv, OthersChecked
<1>7. records[r].thread = conv[r] /\ records[r].phase \notin {"received", "rejected"}
  BY DEF IInv, ActiveOnRecord
<1> QED
  BY <1>3, <1>4, <1>5, <1>6, <1>7, HandlerAdvances DEF codex, locks, store, Before

\* Whoever is before its start on r's thread owns it, so it is r.
LEMMA OneStarter ==
  ASSUME IInv, NEW r \in Responses, NEW q \in Responses, pc[r] \in Before, pc[q] \in Before,
         conv[r] # None, conv[q] = conv[r]
  PROVE  q = r
BY DEF IInv, OwnsThread

LEMMA SendStartKeeps == ASSUME IInv, NEW r \in Responses, SendStart(r)  PROVE IInv'
<1> USE DEF SendStart, store, locks
<1>1. /\ pc' = [pc EXCEPT ![r] = "starting"] /\ "starting" \in Places
      /\ start' = [start EXCEPT ![r] = "sent"] /\ "sent" \in Starts
      /\ start \in [Responses -> Starts]
  BY DEF Goes, Places, Before, Starts, IInv, TypeOK
<1>2. start' \in [Responses -> Starts] /\ pc' \in [Responses -> Places] /\ sent' \in Seq(Responses)
  BY <1>1, HandlerTypes DEF IInv, TypeOK
<1>3. TypeOK'
  BY <1>2 DEF IInv, TypeOK
<1>4. /\ start[r] = "none" /\ turn[r] = "none" /\ conv[r] # None
      /\ records[r] # None /\ records[r].thread = conv[r]
      /\ records[r].phase \notin {"received", "rejected"}
  BY DEF IInv, StartsInOrder, ActiveOnRecord, Before
<1>5. /\ pc[r] = "sending" /\ pc'[r] = "starting" /\ start'[r] = "sent"
      /\ \A q \in Responses : q # r => pc'[q] = pc[q] /\ start'[q] = start[q]
  BY <1>1, HandlerTypes
<1>6. \A q \in Responses : q # r => (Active(q)' <=> Active(q))
  BY <1>5 DEF Active
<1>7. \A q \in Responses : q # r /\ conv[q] = conv[r] => ~Active(q) /\ pc[q] \notin Before
  BY <1>4, OneStarter DEF IInv, OthersChecked, Before
<1>8. TablesReal' /\ ThreadsRooted'
  BY DEF IInv, TablesReal, ThreadsRooted
<1>9. StartsInOrder'
  BY <1>4, <1>5 DEF IInv, StartsInOrder, Before
<1>10. OwnsThread'
  BY <1>5 DEF IInv, OwnsThread, Before
<1>11. ActiveOnRecord'
  <2> SUFFICES ASSUME NEW q \in Responses, Active(q)' \/ pc'[q] \in Sending
               PROVE  /\ records[q] # None /\ records[q].thread = conv[q]
                      /\ records[q].phase \notin {"received", "rejected"}
    BY DEF ActiveOnRecord
  <2> QED  BY <1>4, <1>5, <1>6 DEF IInv, ActiveOnRecord
<1>12. CallersOnRecord'
  BY <1>5 DEF IInv, CallersOnRecord, Over
<1>13. EndsReal'
  BY <1>5 DEF IInv, EndsReal
<1>14. OthersChecked'
  <2> SUFFICES ASSUME NEW x \in Responses, NEW q \in Responses, x # q, conv[x] # None,
                      conv[q] = conv[x], Active(q)'
               PROVE  /\ pc'[x] \in {"checking", "reading"} => q \in scan[x].todo
                      /\ pc'[x] \notin Checked
    BY DEF OthersChecked
  <2>1. CASE q = r
    BY <1>5, <1>7, <2>1 DEF Before
  <2>2. CASE q # r
    BY <1>5, <1>6, <1>7, <2>2 DEF IInv, OthersChecked
  <2> QED  BY <2>1, <2>2
<1>15. OneActiveTurnPerThread'
  BY <1>6, <1>7 DEF IInv, OneActiveTurnPerThread
<1> QED
  BY <1>3, <1>8, <1>9, <1>10, <1>11, <1>12, <1>13, <1>14, <1>15 DEF IInv

-----------------------------------------------------------------------------
(* Codex.                                                                  *)

\* A turn starts, is refused, or ends: nothing becomes active, and a turn that
\* had an end keeps it.
LEMMA CodexKeeps ==
  ASSUME IInv, TypeOK', UNCHANGED <<store, handlers, locks, cl>>,
         \A q \in Responses : Active(q)' => Active(q),
         \A q \in Responses : turn[q] \in Terminal => turn'[q] = turn[q],
         \A q \in Responses : start'[q] \notin {"accepted", "unnamed"} => turn'[q] = "none",
         \A q \in Responses : start[q] = "none" => start'[q] = "none",
         \A q \in unobserved' : turn'[q] \in Terminal
  PROVE  IInv'
<1> USE DEF IInv, store, handlers, locks
<1>0. "completed" \in Terminal
  BY DEF Terminal, Fields!Terminal
<1>1. TablesReal'
  BY <1>0 DEF TablesReal, TypeOK
<1>2. ThreadsRooted' /\ OwnsThread' /\ CallersOnRecord'
  BY DEF ThreadsRooted, OwnsThread, CallersOnRecord
<1>3. StartsInOrder'
  BY <1>0 DEF StartsInOrder
<1>4. ActiveOnRecord'
  BY DEF ActiveOnRecord
<1>5. EndsReal'
  BY DEF EndsReal, CallersOnRecord
<1>6. OthersChecked' /\ OneActiveTurnPerThread'
  BY DEF OthersChecked, OneActiveTurnPerThread
<1> QED
  BY <1>1, <1>2, <1>3, <1>4, <1>5, <1>6

LEMMA CodexTypes ==
  ASSUME IInv
  PROVE  /\ start \in [Responses -> Starts] /\ turn \in [Responses -> TurnStates]
         /\ unobserved \subseteq Responses
BY DEF IInv, TypeOK

LEMMA TakeStartKeeps == ASSUME IInv, NEW r \in Responses, TakeStart(r)  PROVE IInv'
<1> USE DEF TakeStart, store, handlers, locks, history
<1>1. PICK a \in {"accepted", "unnamed", "refused"} : start' = [start EXCEPT ![r] = a]
  OBVIOUS
<1>2. turn' = [turn EXCEPT ![r] = turn'[r]] /\ turn'[r] \in {turn[r], "running"}
  BY CodexTypes
<1>3. a = "refused" => turn' = turn
  BY <1>1, CodexTypes
<1>4. start[r] = "sent" /\ turn[r] = "none" /\ "none" \notin Terminal /\ "running" \in TurnStates
  BY DEF IInv, StartsInOrder, Terminal, Fields!Terminal, TurnStates
<1>5. start' \in [Responses -> Starts] /\ turn' \in [Responses -> TurnStates]
  BY <1>1, <1>2, <1>4, CodexTypes DEF Starts
<1>6. TypeOK'
  BY <1>5 DEF IInv, TypeOK
<1>7. \A q \in Responses :
        /\ q # r => start'[q] = start[q] /\ turn'[q] = turn[q]
        /\ start'[r] = a
  BY <1>1, <1>2, CodexTypes
<1>8. \A q \in Responses : Active(q)' => Active(q)
  BY <1>4, <1>7 DEF Active
<1>9. \A q \in Responses : turn[q] \in Terminal => turn'[q] = turn[q]
  BY <1>4, <1>7
<1>10. \A q \in Responses : start'[q] \notin {"accepted", "unnamed"} => turn'[q] = "none"
  BY <1>3, <1>4, <1>7 DEF IInv, StartsInOrder
<1>11. \A q \in unobserved' : turn'[q] \in Terminal
  BY <1>4, <1>9, CodexTypes DEF IInv, EndsReal
<1> QED
  BY <1>4, <1>6, <1>7, <1>8, <1>9, <1>10, <1>11, CodexKeeps

LEMMA FinishTurnKeeps == ASSUME IInv, NEW r \in Responses, FinishTurn(r)  PROVE IInv'
<1> USE DEF FinishTurn, store, handlers, locks, history
<1>1. PICK s \in Outcomes : turn' = [turn EXCEPT ![r] = s]
  OBVIOUS
<1>2. s \in Terminal /\ s \in TurnStates /\ "running" \notin Terminal
  BY DEF Terminal, Fields!Terminal, TurnStates
<1>3. turn' \in [Responses -> TurnStates] /\ unobserved' \subseteq Responses
  BY <1>1, <1>2, CodexTypes
<1>4. TypeOK'
  BY <1>3 DEF IInv, TypeOK
<1>5. turn'[r] = s /\ \A q \in Responses : q # r => turn'[q] = turn[q]
  BY <1>1, CodexTypes
<1>6. start[r] \in {"accepted", "unnamed"}
  BY DEF IInv, StartsInOrder
<1>7. \A q \in Responses : Active(q)' => Active(q)
  BY <1>2, <1>5, <1>6 DEF Active
<1>8. \A q \in Responses : turn[q] \in Terminal => turn'[q] = turn[q]
  BY <1>2, <1>5
<1>9. \A q \in unobserved' : turn'[q] \in Terminal
  BY <1>2, <1>5, CodexTypes DEF IInv, EndsReal
<1> QED
  BY <1>4, <1>5, <1>6, <1>7, <1>8, <1>9, CodexKeeps DEF IInv, StartsInOrder

-----------------------------------------------------------------------------
(* Reservation, the claim of a thread, and its opening.                    *)

\* The number of a new record is a number larger than those in memory: there is
\* a largest one.
LEMMA SequenceFacts ==
  ASSUME IInv
  PROVE  /\ NextSequence \in Nat
         /\ \A q \in Responses : records[q] # None => records[q].seq < NextSequence
<1> DEFINE known == {q \in Responses : records[q] # None}
           f == [q \in known |-> records[q].seq]
           seqs == {records[q].seq : q \in known}
<1>1. IsFiniteSet(known) /\ f \in [known -> Nat] /\ seqs \subseteq Nat
  BY FS_Subset, HandlerTypes, ResponsesAssumption DEF StoreTyped, Fields!Execution
<1>2. CASE seqs = {}
  BY <1>2 DEF NextSequence
<1>3. CASE seqs # {}
  <2>1. PICK x \in known : \A y \in known : f[y] <= f[x]
    BY <1>1, <1>3, LargestExists
  <2>2. f[x] \in seqs /\ \A t \in seqs : f[x] >= t
    BY <1>1, <2>1
  <2> DEFINE largest == CHOOSE s \in seqs : \A t \in seqs : s >= t
  <2>3. largest \in seqs /\ \A t \in seqs : largest >= t
    BY <2>2
  <2>4. NextSequence = 1 + largest
    BY <1>3 DEF NextSequence
  <2>5. \A q \in Responses : records[q] # None => records[q].seq \in seqs
    OBVIOUS
  <2> HIDE DEF largest, seqs
  <2> QED  BY <1>1, <2>3, <2>4, <2>5
<1> QED  BY <1>2, <1>3

\* A response that opened no thread has its name on no record, so its thread is
\* new, or one it claimed; in either case nobody else is active on it or waits
\* to be, and the thread it has now roots itself.
LEMMA ClaimThreadKeeps == ASSUME IInv, NEW r \in Responses, ClaimThread(r)  PROVE IInv'
<1> USE DEF ClaimThread
<1> DEFINE p == req[r].prev
           t == conv[p]
<1>1. p \in Responses /\ t \in Responses /\ guard[t] = None /\ conv[t] = t /\ conv[r] = None
  <2>1. p \in mapped /\ guard[t] = None
    BY DEF MayClaim, Continuable
  <2>2. p \in Responses /\ t # None
    BY <2>1 DEF IInv, TypeOK, TablesReal
  <2>3. t \in Responses
    BY <2>2, HandlerTypes
  <2>4. conv[r] = None
    BY DEF IInv, StartsInOrder
  <2> QED  BY <2>1, <2>2, <2>3, <2>4 DEF IInv, ThreadsRooted
<1>2. /\ conv' = [conv EXCEPT ![r] = t] /\ guard' = [guard EXCEPT ![t] = r]
      /\ pc' = [pc EXCEPT ![r] = "locking"] /\ "locking" \in Places /\ pc[r] = "received"
  BY DEF Goes, Places, Before
<1> HIDE DEF p, t
<1>3. /\ conv'[r] = t /\ pc'[r] = "locking" /\ guard'[t] = r
      /\ \A q \in Responses : q # r => conv'[q] = conv[q] /\ pc'[q] = pc[q]
      /\ \A u \in Responses : u # t => guard'[u] = guard[u]
  BY <1>1, <1>2, HandlerTypes
<1>4. UNCHANGED <<records, db, failed, mapped, faults, req, scan, control, permits,
                  start, turn, unobserved, cl, sent, stops>>
  BY DEF store, codex, history
<1> HIDE DEF ClaimThread
<1>5. TypeOK'
  <2>1. /\ pc' \in [Responses -> Places] /\ conv' \in [Responses -> Responses \cup {None}]
        /\ guard' \in [Responses -> Responses \cup {None}]
    BY <1>1, <1>2, HandlerTypes
  <2> QED  BY <1>4, <2>1 DEF IInv, TypeOK
<1>6. ~Active(r)
  BY <1>2, NotYetActive DEF Before
<1>7. TablesReal'
  <2>1. \A q \in mapped' : conv'[q] # None /\ turn'[q] = "completed"
    BY <1>1, <1>3, <1>4 DEF IInv, TypeOK, TablesReal
  <2>2. ASSUME NEW table \in {records', db'}, NEW q \in Responses, table[q] # None
        PROVE  /\ table[q].status \in Terminal => turn'[q] = table[q].status
               /\ table[q].thread \in {None, conv'[q]}
    <3>1. table[q].thread \in {None, conv[q]} /\ (table[q].status \in Terminal => turn'[q] = table[q].status)
      BY <1>4, <2>2 DEF IInv, TablesReal
    <3> QED  BY <1>1, <1>3, <3>1
  <2> QED  BY <2>1, <2>2 DEF TablesReal
<1>8. ThreadsRooted'
  <2> SUFFICES ASSUME NEW q \in Responses, conv'[q] # None
               PROVE  conv'[conv'[q]] = conv'[q]
    BY DEF ThreadsRooted
  <2>1. CASE q = r
    BY <1>1, <1>3, <2>1
  <2>2. CASE q # r
    <3>1. conv[q] \in Responses /\ conv[conv[q]] = conv[q]
      BY <1>3, <2>2, HandlerTypes DEF IInv, ThreadsRooted
    <3> QED  BY <1>1, <1>3, <2>2, <3>1
  <2> QED  BY <2>1, <2>2
<1>9. StartsInOrder'
  BY <1>1, <1>2, <1>3, <1>4 DEF IInv, StartsInOrder, Before
<1>10. OwnsThread'
  <2> SUFFICES ASSUME NEW q \in Responses, pc'[q] \in Before, conv'[q] # None
               PROVE  guard'[conv'[q]] = q
    BY DEF OwnsThread
  <2>1. CASE q = r
    BY <1>3, <2>1
  <2>2. CASE q # r
    <3>1. conv[q] \in Responses /\ guard[conv[q]] = q
      BY <1>3, <2>2, HandlerTypes DEF IInv, OwnsThread
    <3> QED  BY <1>1, <1>3, <2>2, <3>1
  <2> QED  BY <2>1, <2>2
<1>11. \A q \in Responses : Active(q)' <=> Active(q)
  BY <1>4 DEF Active
<1>12. ActiveOnRecord'
  <2> SUFFICES ASSUME NEW q \in Responses, Active(q) \/ pc'[q] \in Sending
               PROVE  /\ records[q] # None /\ records[q].thread = conv'[q]
                      /\ records[q].phase \notin {"received", "rejected"}
    BY <1>4, <1>11 DEF ActiveOnRecord
  <2>1. q # r
    BY <1>3, <1>6
  <2> QED  BY <1>3, <2>1 DEF IInv, ActiveOnRecord
<1>13. CallersOnRecord' /\ EndsReal'
  BY <1>2, <1>3, <1>4 DEF IInv, CallersOnRecord, EndsReal, Over
<1>14. OthersChecked'
  <2> SUFFICES ASSUME NEW x \in Responses, NEW q \in Responses, x # q, conv'[x] # None,
                      conv'[q] = conv'[x], Active(q)
               PROVE  /\ pc'[x] \in {"checking", "reading"} => q \in scan[x].todo
                      /\ pc'[x] \notin Checked
    BY <1>4, <1>11 DEF OthersChecked
  <2>1. q # r
    BY <1>6
  <2>2. CASE x = r
    BY <1>3, <2>2
  <2>3. CASE x # r
    BY <1>3, <2>1, <2>3 DEF IInv, OthersChecked
  <2> QED  BY <2>2, <2>3
<1>15. OneActiveTurnPerThread'
  BY <1>3, <1>6, <1>11 DEF IInv, OneActiveTurnPerThread
<1> QED
  BY <1>5, <1>7, <1>8, <1>9, <1>10, <1>12, <1>13, <1>14, <1>15 DEF IInv

LEMMA ReserveKeeps ==
  ASSUME IInv, NEW r \in Responses, NEW x \in Inputs[r], Reserve(r, x)  PROVE IInv'
<1> DEFINE new == Fields!NewExecution(x.key, None, NextSequence)
<1>1. /\ x.key \in Keys \cup {None}
      /\ x \in [mode : Modes, key : Keys \cup {None}, prev : Responses \cup {None},
                suppress : BOOLEAN]
  BY InputsAssumption
<1>2. Storable(new, r)
  BY <1>1, NewFacts, SequenceFacts
<1>3. PICK place \in {"done", "waiting", "received"} :
        /\ Goes(r, place)
        /\ UNCHANGED store \/ Stores(r, new) \/ StoreRefuses(r, new)
        /\ place # "done" => Stores(r, new)
  BY DEF Reserve
<1>4. /\ pc[r] = "idle" /\ req' = [req EXCEPT ![r] = x]
      /\ UNCHANGED <<conv, scan, guard, control, permits, start, turn, unobserved, cl, sent, stops>>
  BY DEF Reserve, locks, codex, history
<1>5. new # None
  BY <1>2 DEF Storable
<1> HIDE DEF new
<1>6. ~Active(r) /\ conv[r] = None /\ start[r] = "none"
  BY <1>4, NotYetActive DEF IInv, StartsInOrder
<1>7. StoreKept(r)
  BY <1>2, <1>3, <1>4, <1>6, StoreStepKept, StoreUnchanged DEF IInv
<1>8. place # "done" => records'[r] # None
  BY <1>3, <1>5, HandlerTypes DEF Stores, StoreTyped
<1>9. /\ pc'[r] = place /\ \A q \in Responses : q # r => pc'[q] = pc[q]
      /\ pc' \in [Responses -> Places]
  <2>1. place \in Places /\ pc' = [pc EXCEPT ![r] = place]
    BY <1>3 DEF Places, Before, Over, Goes
  <2> QED  BY <2>1, HandlerTypes
<1>10. TypeOK'
  <2>1. req' \in [Responses -> [mode : Modes, key : Keys \cup {None},
                                prev : Responses \cup {None}, suppress : BOOLEAN]]
    BY <1>1, <1>4 DEF IInv, TypeOK
  <2> QED  BY <1>4, <1>7, <1>9, <2>1 DEF IInv, TypeOK, StoreKept, StoreTyped
<1>11. TablesReal' /\ ThreadsRooted'
  BY <1>4, <1>7 DEF StoreKept, IInv, ThreadsRooted
<1>12. StartsInOrder'
  BY <1>4, <1>6, <1>9 DEF IInv, StartsInOrder, Before
<1>13. OwnsThread'
  BY <1>4, <1>6, <1>9 DEF IInv, OwnsThread
<1>14. \A q \in Responses : Active(q)' <=> Active(q)
  BY <1>4 DEF Active
<1>15. ActiveOnRecord'
  <2> SUFFICES ASSUME NEW q \in Responses, Active(q) \/ pc'[q] \in Sending
               PROVE  /\ records'[q] # None /\ records'[q].thread = conv[q]
                      /\ records'[q].phase \notin {"received", "rejected"}
    BY <1>4, <1>14 DEF ActiveOnRecord
  <2>1. q # r
    BY <1>6, <1>9
  <2> QED  BY <1>7, <1>9, <2>1 DEF IInv, ActiveOnRecord, StoreKept
<1>16. CallersOnRecord' /\ EndsReal'
  BY <1>4, <1>7, <1>8, <1>9 DEF IInv, CallersOnRecord, EndsReal, StoreKept, Over
<1>17. OthersChecked' /\ OneActiveTurnPerThread'
  BY <1>4, <1>6, <1>9, <1>14 DEF IInv, OthersChecked, OneActiveTurnPerThread
<1> QED
  BY <1>10, <1>11, <1>12, <1>13, <1>15, <1>16, <1>17 DEF IInv

LEMMA ThreadOpenedKeeps == ASSUME IInv, NEW r \in Responses, ThreadOpened(r)  PROVE IInv'
<1> DEFINE t == IF conv[r] = None THEN r ELSE conv[r]
           new == Fields!ThreadEdit(records[r], t, Suppressed(r, t))
<1>1. /\ pc[r] = "joining" /\ guard[t] \in {None, r} /\ conv' = [conv EXCEPT ![r] = t]
      /\ UNCHANGED <<req, scan, start, turn, unobserved, cl, sent, stops>>
      /\ \/ /\ Stores(r, new) /\ guard' = [guard EXCEPT ![t] = r]
            /\ control' = [control EXCEPT ![t] = r]
            /\ Goes(r, "sending") /\ UNCHANGED permits
         \/ StoreRefuses(r, new) /\ Fails(r)
  BY DEF ThreadOpened, codex, history
<1>2. t \in Responses /\ (conv[r] # None => t = conv[r]) /\ (conv[r] = None => t = r)
  BY HandlerTypes
<1>3. /\ new \in Fields!Execution /\ new.thread = t /\ new.phase = records[r].phase
      /\ new.status = records[r].status
  <2>1. Suppressed(r, t) \in BOOLEAN /\ Storable(records[r], r)
    BY <1>1, OnRecord DEF Suppressed, Over
  <2> QED  BY <1>2, <2>1, ThreadFacts
<1>4. /\ records[r] # None /\ records[r].phase \notin {"received", "rejected"}
      /\ records[r].status \in Terminal => turn[r] = records[r].status
  BY <1>1, OnRecord DEF IInv, ActiveOnRecord, Over, Storable
<1>5. start[r] = "none" /\ turn[r] = "none" /\ ~Active(r)
  BY <1>1, NotYetActive DEF IInv, StartsInOrder, Before
<1> HIDE DEF t, new
<1>6. PICK place \in {"sending", "failing"} :
        /\ pc'[r] = place /\ \A q \in Responses : q # r => pc'[q] = pc[q]
        /\ pc' \in [Responses -> Places]
        /\ place = "sending" => Stores(r, new) /\ guard' = [guard EXCEPT ![t] = r]
                                /\ control' = [control EXCEPT ![t] = r] /\ UNCHANGED permits
        /\ place = "failing" => StoreRefuses(r, new) /\ Leaves(r)
  <2>1. "sending" \in Places /\ "failing" \in Places
    BY DEF Places, Before
  <2> QED  BY <1>1, <2>1, HandlerTypes DEF Goes, Fails
<1>7. conv'[r] = t /\ (\A q \in Responses : q # r => conv'[q] = conv[q])
      /\ conv' \in [Responses -> Responses \cup {None}]
  BY <1>1, <1>2, HandlerTypes
<1>8. /\ StoreTyped' /\ TablesReal'
      /\ \A q \in Responses \ {r} : records'[q] = records[q]
      /\ records'[r] \in {records[r], new}
  <2>1. Stores(r, new) \/ StoreRefuses(r, new)
    BY <1>6
  <2>2. \A q \in Responses : conv'[q] = conv[q] \/ (q = r /\ conv[q] = None)
    BY <1>2, <1>7
  <2>3. TypeOK /\ TablesReal /\ UNCHANGED turn
    BY <1>1 DEF IInv
  <2> QED  BY <1>3, <1>4, <1>7, <2>1, <2>2, <2>3, StoreStepOn
<1>9. /\ guard' \in [Responses -> Responses \cup {None}]
      /\ control' \in [Responses -> Responses \cup Clients \cup {None}]
      /\ permits' \subseteq Responses
      /\ \A u \in Responses : u # t /\ guard[u] # r => guard'[u] = guard[u]
      /\ guard[t] = r => \A u \in Responses : guard[u] # r => guard'[u] = guard[u]
      /\ place = "sending" => guard'[t] = r
  <2>1. CASE place = "sending"
    BY <1>2, <1>6, <2>1, HandlerTypes
  <2>2. CASE place = "failing"
    BY <1>6, <2>2, HandlerTypes DEF Leaves, Without
  <2> QED  BY <2>1, <2>2
<1>10. TypeOK'
  BY <1>1, <1>6, <1>7, <1>8, <1>9 DEF IInv, TypeOK, StoreTyped
  \* nobody is on a thread r is only now opening, nor active on one it claimed
<1>11. \A q \in Responses : q # r /\ conv[q] = t => ~Active(q) /\ pc[q] \notin Before
  <2>1. CASE conv[r] = None
    BY <1>2, <2>1 DEF IInv, ThreadsRooted
  <2>2. CASE conv[r] # None
    BY <1>1, <1>2, <2>2, OneStarter DEF IInv, OthersChecked, Before
  <2> QED  BY <2>1, <2>2
<1>12. ThreadsRooted'
  <2> SUFFICES ASSUME NEW q \in Responses, conv'[q] # None
               PROVE  conv'[conv'[q]] = conv'[q]
    BY DEF ThreadsRooted
  <2>1. CASE conv[r] # None
    <3>1. conv' = conv
      BY <1>1, <1>2, <2>1, HandlerTypes
    <3> QED  BY <3>1 DEF IInv, ThreadsRooted
  <2>2. CASE conv[r] = None /\ q = r
    BY <1>2, <1>7, <2>2
  <2>3. CASE conv[r] = None /\ q # r
    <3>1. conv[q] \in Responses /\ conv[conv[q]] = conv[q]
      BY <1>7, <2>3, HandlerTypes DEF IInv, ThreadsRooted
    <3> QED  BY <1>7, <2>3, <3>1
  <2> QED  BY <2>1, <2>2, <2>3
<1>13. StartsInOrder'
  BY <1>1, <1>2, <1>5, <1>6, <1>7 DEF IInv, StartsInOrder, Before
<1>14. OwnsThread'
  <2> SUFFICES ASSUME NEW q \in Responses, pc'[q] \in Before, conv'[q] # None
               PROVE  guard'[conv'[q]] = q
    BY DEF OwnsThread
  <2>1. CASE q = r
    BY <1>6, <1>7, <1>9, <2>1 DEF Before
  <2>2. CASE q # r
    <3>1. conv[q] \in Responses /\ guard[conv[q]] = q /\ pc[q] \in Before
      BY <1>6, <1>7, <2>2, HandlerTypes DEF IInv, OwnsThread
    <3>2. conv[q] # t
      BY <1>11, <2>2, <3>1
    <3> QED  BY <1>7, <1>9, <2>2, <3>1, <3>2
  <2> QED  BY <2>1, <2>2
<1>15. \A q \in Responses : Active(q)' <=> Active(q)
  BY <1>1 DEF Active
<1>16. ActiveOnRecord'
  <2> SUFFICES ASSUME NEW q \in Responses, Active(q) \/ pc'[q] \in Sending
               PROVE  /\ records'[q] # None /\ records'[q].thread = conv'[q]
                      /\ records'[q].phase \notin {"received", "rejected"}
    BY <1>15 DEF ActiveOnRecord
  <2>1. CASE q = r
    <3>1. Stores(r, new)
      BY <1>5, <1>6, <2>1
    <3>2. records'[r] = new
      BY <3>1, HandlerTypes DEF Stores, StoreTyped
    <3>3. new # None
      BY <1>3
    <3> QED  BY <1>3, <1>4, <1>7, <2>1, <3>2, <3>3
  <2>2. CASE q # r
    BY <1>6, <1>7, <1>8, <2>2 DEF IInv, ActiveOnRecord
  <2> QED  BY <2>1, <2>2
<1>17. CallersOnRecord'
  <2>1. records'[r] # None
    BY <1>3, <1>4, <1>8
  <2> QED  BY <1>1, <1>6, <1>8, <2>1 DEF IInv, CallersOnRecord, Over
<1>18. EndsReal'
  BY <1>1, <1>6 DEF IInv, EndsReal
<1>19. OthersChecked'
  <2> SUFFICES ASSUME NEW x \in Responses, NEW q \in Responses, x # q, conv'[x] # None,
                      conv'[q] = conv'[x], Active(q)
               PROVE  /\ pc'[x] \in {"checking", "reading"} => q \in scan[x].todo
                      /\ pc'[x] \notin Checked
    BY <1>1, <1>15 DEF OthersChecked
  <2>1. q # r
    BY <1>5
  <2>2. CASE x = r
    BY <1>7, <1>11, <2>1, <2>2
  <2>3. CASE x # r
    BY <1>6, <1>7, <2>1, <2>3 DEF IInv, OthersChecked
  <2> QED  BY <2>2, <2>3
<1>20. OneActiveTurnPerThread'
  BY <1>5, <1>7, <1>15 DEF IInv, OneActiveTurnPerThread
<1> QED
  BY <1>8, <1>10, <1>12, <1>13, <1>14, <1>16, <1>17, <1>18, <1>19, <1>20 DEF IInv

-----------------------------------------------------------------------------
(* A crash, and the theorems.                                              *)

\* After a crash nothing is active any more; what the disk says still holds.
LEMMA CrashKeeps == ASSUME IInv, Crash  PROVE IInv'
<1> USE DEF Crash
<1>1. /\ UNCHANGED <<conv, mapped, db>> /\ unobserved' = {} /\ \A c \in Clients : cl'[c] = Idle
      /\ \A r \in Responses :
           /\ pc'[r] \in {"gone", "idle", "done"} /\ (pc'[r] = "idle" => pc[r] = "idle")
           /\ start'[r] \in {start[r], "lost"} /\ (start'[r] # start[r] => start[r] = "sent")
           /\ start'[r] # "sent"
           /\ turn'[r] \in {turn[r], "interrupted"} /\ turn'[r] # "running"
           /\ turn'[r] # turn[r] => turn[r] = "running"
  BY HandlerTypes, CodexTypes
<1>2. ASSUME NEW r \in Responses
      PROVE  records'[r] \in Fields!Execution \cup {None}
             /\ (records'[r] # None =>
                   /\ records'[r].status \in Terminal => turn'[r] = records'[r].status
                   /\ records'[r].thread \in {None, conv[r]})
  <2>1. CASE db[r] = None
    BY <2>1 DEF Reopen
  <2>2. CASE db[r] # None
    <3>1. Storable(db[r], r)
      BY <2>2 DEF IInv, TypeOK, TablesReal, Storable
    <3>2. records'[r] = Fields!Reopened(db[r])
      BY <2>2 DEF Reopen
    <3>3. Storable(records'[r], r)
      BY <3>1, <3>2, ReopenedFacts
    <3> QED  BY <1>1, <3>3 DEF Storable, Terminal, Fields!Terminal
  <2> QED  BY <2>1, <2>2
<1>3. TypeOK'
  <2>1. records' \in [Responses -> Fields!Execution \cup {None}]
    BY <1>2 DEF Reopen
  <2>2. pc' \in [Responses -> Places]
    BY HandlerTypes DEF Places, Over
  <2>3. scan' \in [Responses -> ScanState]
    <3>1. NoScan \in ScanState
      BY DEF NoScan, ScanState
    <3> QED  BY <3>1
  <2>4. start' \in [Responses -> Starts] /\ turn' \in [Responses -> TurnStates]
    BY CodexTypes DEF Starts, TurnStates, Terminal, Fields!Terminal
  <2>5. cl' \in [Clients -> ClientState]
    BY DEF Idle, ClientState
  <2>6. failed' \in BOOLEAN /\ faults' \in Nat /\ permits' \subseteq Responses
    <3>1. failed' = FALSE /\ faults' = faults + 1 /\ permits' = {}
      OBVIOUS
    <3>2. faults \in Nat
      BY HandlerTypes DEF StoreTyped
    <3> HIDE DEF Crash
    <3>3. failed' \in BOOLEAN
      BY <3>1, Zenon
    <3>4. faults' \in Nat /\ permits' \subseteq Responses
      BY <3>1, <3>2
    <3> QED  BY <3>3, <3>4
  <2>7. /\ guard' \in [Responses -> Responses \cup {None}]
        /\ control' \in [Responses -> Responses \cup Clients \cup {None}]
    <3>1. guard' = [t \in Responses |-> None] /\ control' = [t \in Responses |-> None]
      OBVIOUS
    <3> HIDE DEF Crash
    <3> QED  BY <3>1
  <2> QED
    BY <1>1, <2>1, <2>2, <2>3, <2>4, <2>5, <2>6, <2>7
    DEF IInv, TypeOK, ScanState, ClientState, history
<1>4. TablesReal'
  <2>1. \A r \in Responses : db'[r] # None =>
          /\ db'[r].status \in Terminal => turn'[r] = db'[r].status
          /\ db'[r].thread \in {None, conv'[r]}
    BY <1>1 DEF IInv, TablesReal, Terminal, Fields!Terminal
  <2>2. \A r \in mapped' : conv'[r] # None /\ turn'[r] = "completed"
    BY <1>1 DEF IInv, TypeOK, TablesReal
  <2> QED  BY <1>1, <1>2, <2>1, <2>2 DEF IInv, TablesReal
<1> HIDE DEF Crash
<1>5. ThreadsRooted' /\ OwnsThread'
  BY <1>1 DEF IInv, ThreadsRooted, OwnsThread, Before
<1>6. StartsInOrder'
  BY <1>1 DEF IInv, StartsInOrder, Before
<1>7. \A r \in Responses : ~Active(r)'
  BY <1>1 DEF Active
<1>8. ActiveOnRecord' /\ CallersOnRecord' /\ EndsReal'
  BY <1>1, <1>7 DEF ActiveOnRecord, CallersOnRecord, EndsReal, Over, Idle
<1>9. OthersChecked' /\ OneActiveTurnPerThread'
  BY <1>7 DEF OthersChecked, OneActiveTurnPerThread
<1> QED
  BY <1>3, <1>4, <1>5, <1>6, <1>8, <1>9 DEF IInv

LEMMA StutterKeeps == ASSUME IInv, UNCHANGED vars  PROVE IInv'
BY DEF vars, store, handlers, locks, codex, history, IInv, TypeOK, TablesReal, ThreadsRooted,
       StartsInOrder, OwnsThread, ActiveOnRecord, CallersOnRecord, EndsReal, OthersChecked,
       OneActiveTurnPerThread, Active

LEMMA HandleKeeps == ASSUME IInv, NEW r \in Responses, Handle(r)  PROVE IInv'
BY ClaimThreadKeeps, ClaimRefusedKeeps, LockControlKeeps, CheckNextKeeps, RecordReadKeeps,
   ResolveKeeps, ValidatedKeeps, InvalidKeeps, OpenThreadKeeps, StartNotSentKeeps,
   AcquirePermitKeeps, DispatchKeeps, ThreadOpenedKeeps,
   ThreadNotOpenedKeeps, SendStartKeeps, StartedKeeps, StartedUnnamedKeeps, NotStartedKeeps,
   AnnouncedKeeps, RecordFailureKeeps, SeesEndKeeps, SaveMappingKeeps, GivesUpKeeps, LosesEventsKeeps,
   InterruptAnsweredKeeps
DEF Handle

LEMMA ServeKeeps == ASSUME IInv, NEW c \in Clients, Serve(c)  PROVE IInv'
BY ClientLockKeeps, ClientReadsKeeps, ClientObservesKeeps, ClientDecidesKeeps,
   ClientSendsKeeps, ClientAnsweredKeeps
DEF Serve

LEMMA StepKeeps == ASSUME IInv, [Next]_vars  PROVE IInv'
<1>1. CASE \E r \in Responses :
             \/ (\E x \in Inputs[r] : Reserve(r, x)) \/ Handle(r) \/ Disconnect(r)
             \/ TakeStart(r) \/ FinishTurn(r) \/ ObserveEnd(r) \/ ObserverLags(r)
  BY <1>1, ReserveKeeps, HandleKeeps, DisconnectKeeps, TakeStartKeeps, FinishTurnKeeps,
     ObserveEndKeeps, ObserverLagsKeeps
<1>2. CASE \E c \in Clients :
             \/ (\E a \in Asks : Ask(c, a)) \/ Serve(c) \/ ClientGone(c)
  BY <1>2, AskKeeps, ServeKeeps, ClientGoneKeeps
<1>3. CASE Crash
  BY <1>3, CrashKeeps
<1>4. CASE UNCHANGED vars
  BY <1>4, StutterKeeps
<1> QED  BY <1>1, <1>2, <1>3, <1>4 DEF Next

LEMMA InitHolds == ASSUME Init  PROVE IInv
<1> USE RestoredAssumption DEF Init
<1>1. ASSUME NEW r \in Responses
      PROVE  /\ RestoredRecord(r) \in Fields!Execution
             /\ RestoredRecord(r).status = "completed" /\ RestoredRecord(r).thread = r
  BY DEF RestoredRecord, Fields!NewExecution, Fields!Execution, Fields!Phases,
         Fields!Statuses, Fields!Terminal
<1>2. db \in [Responses -> Fields!Execution \cup {None}] /\ records = db
  BY <1>1
<1>3. TypeOK
  <2>1. pc \in [Responses -> Places]
    BY DEF Places, Over
  <2>2. scan \in [Responses -> ScanState]
    BY DEF NoScan, ScanState
  <2>3. start \in [Responses -> Starts] /\ turn \in [Responses -> TurnStates]
    BY DEF Starts, TurnStates, Terminal, Fields!Terminal
  <2>4. cl \in [Clients -> ClientState]
    BY DEF Idle, ClientState
  <2>5. req \in [Responses -> [mode : Modes, key : Keys \cup {None},
                               prev : Responses \cup {None}, suppress : BOOLEAN]]
    BY DEF Modes, Chats, Streams
  <2>6. conv \in [Responses -> Responses \cup {None}] /\ stops \in [Responses -> Nat]
    OBVIOUS
  <2>7. /\ guard \in [Responses -> Responses \cup {None}]
        /\ control \in [Responses -> Responses \cup Clients \cup {None}]
        /\ permits \subseteq Responses /\ unobserved \subseteq Responses
        /\ sent \in Seq(Responses)
    OBVIOUS
  <2>8. mapped \subseteq Responses /\ failed \in BOOLEAN /\ faults \in Nat
    OBVIOUS
  <2> QED
    BY <1>2, <2>1, <2>2, <2>3, <2>4, <2>5, <2>6, <2>7, <2>8 DEF TypeOK, ScanState, ClientState
<1>4. TablesReal
  <2>1. \A r \in Responses : db[r] # None =>
          r \in Restored /\ db[r] = RestoredRecord(r) /\ turn[r] = "completed" /\ conv[r] = r
    OBVIOUS
  <2>2. \A r \in mapped : conv[r] # None /\ turn[r] = "completed"
    OBVIOUS
  <2> QED  BY <1>1, <1>2, <2>1, <2>2 DEF TablesReal
<1>5. ThreadsRooted /\ OwnsThread
  BY DEF ThreadsRooted, OwnsThread, Before
<1>6. StartsInOrder
  BY DEF StartsInOrder, Before
<1>7. \A r \in Responses : ~Active(r)
  BY DEF Active
<1>8. ActiveOnRecord /\ CallersOnRecord /\ EndsReal
  BY <1>7 DEF ActiveOnRecord, CallersOnRecord, EndsReal, Over, Idle
<1>9. OthersChecked /\ OneActiveTurnPerThread
  BY <1>7 DEF OthersChecked, OneActiveTurnPerThread
<1> QED
  BY <1>3, <1>4, <1>5, <1>6, <1>8, <1>9 DEF IInv

LEMMA Invariance == Spec => []IInv
<1>1. Init => IInv
  BY InitHolds
<1>2. IInv /\ [Next]_vars => IInv'
  BY StepKeeps
<1> QED  BY <1>1, <1>2, PTL DEF Spec

\* The state of the handlers, the tables, the locks, Codex and the clients has
\* its shape.
THEOREM TypeCorrect == Spec => []TypeOK
<1>1. IInv => TypeOK
  BY DEF IInv
<1> QED  BY <1>1, Invariance, PTL

\* begin_turn never lets a second turn run on a thread: not after a client left
\* in the middle of a start, after a timeout, a failed write or a restart.
THEOREM OneActiveTurn == Spec => []OneActiveTurnPerThread
<1>1. IInv => OneActiveTurnPerThread
  BY DEF IInv
<1> QED  BY <1>1, Invariance, PTL

\* What the store reports as the end of a turn, before and after a restart, is
\* the end Codex announced; only a turn that completed can be continued.
THEOREM RealOutcomes == Spec => []OutcomesAreReal
<1>1. IInv => OutcomesAreReal
  BY DEF IInv, TablesReal, OutcomesAreReal
<1> QED  BY <1>1, Invariance, PTL
=============================================================================
