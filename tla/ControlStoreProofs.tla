-------------------------- MODULE ControlStoreProofs --------------------------
(***************************************************************************)
(* The theorems of ControlStore: its invariants, and that it implements    *)
(* ExecutionLedger, for every set of ids and every legacy data.            *)
(***************************************************************************)
EXTENDS ControlStore, FiniteSetTheorems, LargestNumber, TLAPS

-----------------------------------------------------------------------------
(* The inductive invariant.  A row in the table is either what memory shows *)
(* or that of the append in progress, and what the append will write is a   *)
(* legal successor of it; so the next sequence number and the keys reserve  *)
(* looks at, which it reads from memory, speak for the table as well.       *)

\* Nothing is in use before the import, or while the store is closed.
Dormant ==
  /\ ~imported => ~up /\ mapped = {} /\ db = [i \in Ids |-> None]
  /\ ~up => /\ writer = None /\ ~failed /\ observing = {} /\ saving = {}
            /\ mappings = {} /\ live = {} /\ records = [i \in Ids |-> None]

\* Memory has, for i, the row of i, up to the phase reopening gives it.
Agrees(i) ==
  records[i] = db[i] \/ (db[i] # None /\ records[i] # None /\ records[i] = Reopened(db[i]))

MemoryAgrees ==
  up /\ ~failed => \A i \in Ids : Agrees(i) \/ (writer # None /\ writer.id = i)

\* The record of r's key and number is r's alone among those in memory.
Fresh(r) ==
  \A j \in Known : records[j].seq < r.seq /\ (r.key # None => records[j].key # r.key)

\* A handler has no turn before it is past the send boundary.
Unsent(r) == r.phase \in {"received", "dispatching"} => r.turn = None

AppendInvariant ==
  writer # None =>
    /\ up /\ ~failed
    /\ writer.id \in Known =>
         /\ Ledger!Succeeds(writer.rec, records[writer.id])
         /\ records[writer.id].turn # None => writer.rec.turn = records[writer.id].turn
         /\ writer.id \in live => Unsent(writer.rec)
    /\ writer.id \notin Known =>
         Fresh(writer.rec) /\ writer.rec.phase = "received" /\ Unsent(writer.rec)
    /\ writer.stage = "row" => Agrees(writer.id)
    /\ writer.stage = "mirror" => db[writer.id] = writer.rec

\* Who works on a record works on one that is there.
CallersKnown ==
  /\ \A o \in observing : o.id \in Known
  /\ \A i \in live : i \in Known /\ Unsent(records[i])

IInv ==
  /\ TypeOK
  /\ Dormant
  /\ StoredIdentitiesDistinct
  /\ MappingsAreStored
  /\ MemoryAgrees
  /\ AppendInvariant
  /\ CallersKnown
-----------------------------------------------------------------------------
(* The record operations.                                                  *)

USE NoneAssumption, IdsAssumption

LEMMA ReopenedFacts ==
  ASSUME NEW r \in Execution
  PROVE  /\ Reopened(r) \in Execution
         /\ Reopened(r) # None
         /\ Reopened(r).key = r.key /\ Reopened(r).body = r.body
         /\ Reopened(r).seq = r.seq /\ Reopened(r).turn = r.turn
         /\ Reopened(r).intr = r.intr
         /\ Reopened(r).phase = "received" <=> r.phase = "received"
BY DEF Reopened, Execution, Phases

LEMMA NewExecutionFacts ==
  ASSUME NEW key \in Keys \cup {None}, NEW body \in Bodies, NEW seq \in Nat
  PROVE  LET r == NewExecution(key, body, seq) IN
           r \in Execution /\ r.phase = "received" /\ Unsent(r)
           /\ r.key = key /\ r.seq = seq
BY DEF NewExecution, Execution, Phases, Statuses, Unsent

\* A change keeps the identity of the record, what is final in it and, once it
\* has one, its turn.
Succession(e, r) ==
  /\ e \in Execution
  /\ Ledger!Succeeds(e, r)
  /\ r.turn # None => e.turn = r.turn

LEMMA ObserveFacts ==
  ASSUME NEW r \in Execution, NEW status \in Statuses
  PROVE  /\ Succession(ObserveEdit(r, status), r)
         /\ Unsent(r) => Unsent(ObserveEdit(r, status))
<1>1. CASE status \in Terminal
  BY <1>1 DEF Succession, ObserveEdit, Execution, Phases, Ledger!Succeeds, Unsent
<1>2. CASE status \notin Terminal
  BY <1>2 DEF Succession, ObserveEdit, Execution, Phases, Ledger!Succeeds, Unsent
<1> QED  BY <1>1, <1>2

LEMMA DispatchFacts ==
  ASSUME NEW r \in Execution, NEW t \in Threads \cup {None}, Unsent(r), r.phase = "received"
  PROVE  Succession(DispatchEdit(r, t), r) /\ Unsent(DispatchEdit(r, t))
BY DEF Succession, DispatchEdit, Execution, Phases, Ledger!Succeeds, Unsent

LEMMA ThreadFacts ==
  ASSUME NEW r \in Execution, NEW t \in Threads \cup {None}, NEW s \in BOOLEAN, Unsent(r)
  PROVE  Succession(ThreadEdit(r, t, s), r) /\ Unsent(ThreadEdit(r, t, s))
BY DEF Succession, ThreadEdit, Execution, Ledger!Succeeds, Unsent

LEMMA StartFacts ==
  ASSUME NEW r \in Execution, NEW t \in Turns \cup {None}, Unsent(r), r.phase = "dispatching"
  PROVE  Succession(StartEdit(r, t), r) /\ Unsent(StartEdit(r, t))
<1>1. CASE t = None
  BY <1>1 DEF Succession, StartEdit, Execution, Phases, Statuses, Ledger!Succeeds, Unsent
<1>2. CASE t # None
  BY <1>2 DEF Succession, StartEdit, Execution, Phases, Statuses, Ledger!Succeeds, Unsent
<1> QED  BY <1>1, <1>2

LEMMA RejectFacts ==
  ASSUME NEW r \in Execution
  PROVE  Succession(RejectEdit(r), r) /\ Unsent(RejectEdit(r))
BY DEF Succession, RejectEdit, Execution, Phases, Ledger!Succeeds, Unsent

LEMMA BeginErrorFacts ==
  ASSUME NEW r \in Execution
  PROVE  Succession(BeginErrorEdit(r), r) /\ Unsent(BeginErrorEdit(r))
<1>1. CASE r.phase \in {"received", "rejected"}
  BY <1>1 DEF Succession, BeginErrorEdit, Execution, Phases, Ledger!Succeeds, Unsent
<1>2. CASE r.phase \notin {"received", "rejected"}
  BY <1>2 DEF Succession, BeginErrorEdit, Execution, Phases, Ledger!Succeeds, Unsent
<1> QED  BY <1>1, <1>2

LEMMA InterruptFacts ==
  ASSUME NEW r \in Execution, NEW mark \in {"unknown", "accepted"}
  PROVE  Succession(InterruptEdit(r, mark), r)
         /\ (Unsent(r) => Unsent(InterruptEdit(r, mark)))
BY DEF Succession, InterruptEdit, Execution, Ledger!Succeeds, Unsent

\* So is every change a handler makes.
LEMMA EditFacts ==
  ASSUME TypeOK, NEW i \in Known, NEW e \in Edits(i), i \in live => Unsent(records[i])
  PROVE  Succession(e, records[i]) /\ (i \in live => Unsent(e))
<1> DEFINE r == records[i]
<1>1. r \in Execution
  BY DEF TypeOK, Known
<1>2. \A t \in (IF r.thread = None THEN Threads ELSE {r.thread}) : t \in Threads \cup {None}
  BY <1>1 DEF Execution
<1>3. CASE i \in live /\ r.phase = "received"
           /\ e \in {DispatchEdit(r, t) : t \in Threads \cup {None}} \cup {BeginErrorEdit(r)}
  BY <1>1, <1>3, DispatchFacts, BeginErrorFacts
<1>4. CASE /\ i \in live
           /\ \E t \in Threads \cup {None}, s \in BOOLEAN : e = ThreadEdit(r, t, s)
  BY <1>1, <1>4, ThreadFacts
<1>5. CASE /\ i \in live /\ r.phase = "dispatching"
           /\ \E t \in Turns \cup {None} : e = StartEdit(r, t)
  BY <1>1, <1>5, StartFacts
<1>6. CASE e \in {RejectEdit(r), BeginErrorEdit(r)}
  BY <1>1, <1>6, RejectFacts, BeginErrorFacts
<1>7. CASE e \in {InterruptEdit(r, "unknown"), InterruptEdit(r, "accepted")}
  BY <1>1, <1>7, InterruptFacts
<1> QED
  BY <1>2, <1>3, <1>4, <1>5, <1>6, <1>7 DEF Edits

\* The next number is above every number in memory.
LEMMA NextSequenceFacts ==
  ASSUME TypeOK
  PROVE  NextSequence \in Nat /\ \A j \in Known : records[j].seq < NextSequence
<1> DEFINE f == [j \in Known |-> records[j].seq]
           seqs == {records[j].seq : j \in Known}
<1>1. IsFiniteSet(Known) /\ f \in [Known -> Nat] /\ seqs \subseteq Nat
  BY FS_Subset DEF Known, TypeOK, Execution
<1>2. CASE Known = {}
  BY <1>2 DEF NextSequence
<1>3. CASE Known # {}
  <2>1. PICK x \in Known : \A y \in Known : f[y] <= f[x]
    BY <1>1, <1>3, LargestExists
  <2>2. f[x] \in seqs /\ \A t \in seqs : f[x] >= t
    BY <1>1, <2>1
  <2> DEFINE largest == CHOOSE s \in seqs : \A t \in seqs : s >= t
  <2>3. largest \in seqs /\ \A t \in seqs : largest >= t
    BY <2>2
  <2>4. NextSequence = 1 + largest
    BY <1>3 DEF NextSequence
  <2>5. \A j \in Known : records[j].seq \in seqs
    OBVIOUS
  <2> HIDE DEF largest, seqs
  <2> QED  BY <1>1, <2>3, <2>4, <2>5
<1> QED  BY <1>2, <1>3
-----------------------------------------------------------------------------
(* The legacy data.                                                        *)

LEMMA ImportedTableType == ImportedTable \in [Ids -> Execution \cup {None}]
<1>0. /\ LegacyTable \in [Ids -> Execution \cup {None}]
      /\ \A n \in DOMAIN LegacyLog : LegacyLog[n] \in [id : Ids, rec : Execution]
      /\ DOMAIN LegacyLog \subseteq Nat
  <2> DEFINE Line == [id : Ids, rec : Execution]
  <2>1. LegacyLog \in Seq(Line)
    BY LegacyAssumption
  <2> HIDE DEF Line
  <2>2. /\ \A n \in DOMAIN LegacyLog : LegacyLog[n] \in Line
        /\ DOMAIN LegacyLog \subseteq Nat
    BY <2>1
  <2> QED  BY <2>2, LegacyAssumption DEF Line
<1>1. ASSUME NEW i \in Ids, LinesOf(i) # {}  PROVE FirstLine(i) \in Execution
  <2>1. LinesOf(i) \in SUBSET Nat /\ LinesOf(i) \subseteq DOMAIN LegacyLog
    BY <1>0 DEF LinesOf
  <2>2. PICK k \in LinesOf(i) : \A m \in LinesOf(i) : k <= m
    BY <1>1, <2>1, LeastExists
  <2> DEFINE first == CHOOSE n \in LinesOf(i) : \A m \in LinesOf(i) : n <= m
  <2>3. first \in LinesOf(i)
    BY <2>2
  <2>4. LegacyLog[first] \in [id : Ids, rec : Execution]
    <3> HIDE DEF first
    <3> QED  BY <1>0, <2>1, <2>3
  <2> QED  BY <2>4 DEF FirstLine
<1> QED  BY <1>0, <1>1 DEF ImportedTable

-----------------------------------------------------------------------------
(* The invariant is inductive.                                             *)

LEMMA InitInvariant == Init => IInv
<1> SUFFICES ASSUME Init  PROVE IInv
  OBVIOUS
<1> USE DEF Init
<1>1. TypeOK
  BY DEF TypeOK
<1>2. Known = {}
  BY DEF Known
<1> QED
  BY <1>1, <1>2 DEF IInv, Dormant, StoredIdentitiesDistinct, MappingsAreStored, MemoryAgrees,
       Agrees, AppendInvariant, CallersKnown

LEMMA ImportKeeps == IInv /\ Import => IInv'
<1> SUFFICES ASSUME IInv, Import  PROVE IInv'
  OBVIOUS
<1> USE DEF IInv, Import, durable, volatile
<1>1. TypeOK'
  BY ImportedTableType, LegacyAssumption DEF TypeOK
<1>2. StoredIdentitiesDistinct'
  BY LegacyAssumption, <1>1, ImportedTableType
  DEF StoredIdentitiesDistinct, TypeOK, Ledger!Consistent, Ledger!KeysDistinct,
      Ledger!SequencesDistinct, Ledger!Accepted
<1>3. MappingsAreStored'
  BY DEF MappingsAreStored, Dormant
<1> QED
  BY <1>1, <1>2, <1>3 DEF Dormant, MemoryAgrees, AppendInvariant, CallersKnown, Known

LEMMA OpenKeeps == IInv /\ Open => IInv'
<1> SUFFICES ASSUME IInv, Open  PROVE IInv'
  OBVIOUS
<1> USE DEF IInv, Open, durable
<1>1. \A i \in Ids : /\ records'[i] = (IF db[i] = None THEN None ELSE Reopened(db[i]))
                     /\ db[i] # None => db[i] \in Execution
  BY DEF TypeOK, Restored
<1>2. TypeOK'
  <2>1. records' \in [Ids -> Execution \cup {None}]
    BY <1>1, ReopenedFacts DEF TypeOK, Restored
  <2> QED  BY <2>1 DEF TypeOK
<1>3. MemoryAgrees'
  BY <1>1, ReopenedFacts DEF MemoryAgrees, Agrees
<1>4. MappingsAreStored' /\ StoredIdentitiesDistinct'
  BY DEF MappingsAreStored, StoredIdentitiesDistinct, Dormant
<1> QED
  BY <1>2, <1>3, <1>4 DEF Dormant, AppendInvariant, CallersKnown

LEMMA CrashKeeps == IInv /\ Crash => IInv'
<1> SUFFICES ASSUME IInv, Crash  PROVE IInv'
  OBVIOUS
<1> USE DEF IInv, Crash, durable
<1>1. TypeOK'
  BY DEF TypeOK
<1>2. MappingsAreStored' /\ StoredIdentitiesDistinct'
  BY DEF MappingsAreStored, StoredIdentitiesDistinct
<1>3. Dormant'
  BY DEF Dormant
<1> QED
  BY <1>1, <1>2, <1>3 DEF MemoryAgrees, AppendInvariant, CallersKnown
\* Whatever append begins, of a legal successor or of a fresh record.
LEMMA BeginAppendKeeps ==
  ASSUME IInv, Ready, NEW i \in Ids, NEW r \in Execution, BeginAppend(i, r),
         UNCHANGED <<durable, up, starts, records, mappings, failed, saving, live>>,
         observing' \subseteq observing,
         i \in Known => Succession(r, records[i]) /\ (i \in live => Unsent(r)),
         i \notin Known => /\ Fresh(r) /\ r.phase = "received" /\ Unsent(r)
                          /\ db[i] = None
  PROVE  IInv'
<1> USE DEF IInv, Ready, BeginAppend, durable
<1>1. writer' \in Pending /\ writer' # None
  BY DEF Pending
<1>2. TypeOK'
  BY <1>1 DEF TypeOK
<1>3. Agrees(i)'
  BY DEF Agrees, MemoryAgrees, Known
<1>4. AppendInvariant'
  BY <1>1, <1>3 DEF AppendInvariant, Succession, Known, Fresh
<1>5. MemoryAgrees'
  BY <1>1 DEF MemoryAgrees, Agrees
<1>6. Dormant' /\ CallersKnown'
  BY DEF Dormant, CallersKnown, Known
<1>7. StoredIdentitiesDistinct' /\ MappingsAreStored'
  BY DEF StoredIdentitiesDistinct, MappingsAreStored
<1> QED
  BY <1>2, <1>4, <1>5, <1>6, <1>7

LEMMA ReserveKeeps ==
  ASSUME IInv, NEW i \in Ids, NEW key \in Keys \cup {None}, NEW body \in Bodies,
         Reserve(i, key, body)
  PROVE  IInv'
<1> DEFINE r == NewExecution(key, body, NextSequence)
<1>1. TypeOK
  BY DEF IInv
<1>2. NextSequence \in Nat /\ \A j \in Known : records[j].seq < NextSequence
  BY <1>1, NextSequenceFacts
<1>3. r \in Execution /\ r.phase = "received" /\ Unsent(r) /\ r.key = key /\ r.seq = NextSequence
  BY <1>2, NewExecutionFacts
<1> HIDE DEF r
<1>4. Fresh(r)
  BY <1>2, <1>3 DEF Fresh, Reserve, Holder
<1>5. i \notin Known
  BY DEF Reserve, Known
<1> QED
  BY <1>3, <1>4, <1>5, BeginAppendKeeps DEF Reserve, r

LEMMA UpdateKeeps ==
  ASSUME IInv, NEW i \in Ids, Update(i)
  PROVE  IInv'
<1>1. TypeOK /\ i \in Known /\ (i \in live => Unsent(records[i]))
  BY DEF IInv, CallersKnown, Update
<1>2. PICK r \in Edits(i) : BeginAppend(i, r)
  BY DEF Update
<1>3. Succession(r, records[i]) /\ (i \in live => Unsent(r))
  BY <1>1, <1>2, EditFacts
<1>4. r \in Execution
  BY <1>3 DEF Succession
<1> QED
  BY <1>1, <1>2, <1>3, <1>4, BeginAppendKeeps DEF Update

LEMMA ObserveUpdateKeeps ==
  ASSUME IInv, NEW o \in observing, ObserveUpdate(o)
  PROVE  IInv'
<1> DEFINE r == ObserveEdit(records[o.id], o.status)
<1>1. o.id \in Known /\ o.id \in Ids /\ o.status \in Statuses /\ records[o.id] \in Execution
  BY DEF IInv, TypeOK, CallersKnown, Known
<1>2. /\ Succession(r, records[o.id])
      /\ Unsent(records[o.id]) => Unsent(r)
  BY <1>1, ObserveFacts
<1>3. r \in Execution /\ (o.id \in live => Unsent(r))
  BY <1>2 DEF Succession, IInv, CallersKnown
<1> HIDE DEF r
<1>4. Ready /\ BeginAppend(o.id, r) /\ observing' \subseteq observing
      /\ UNCHANGED <<durable, up, starts, records, mappings, failed, saving, live>>
  BY DEF ObserveUpdate, ObservedRecord, r
<1> QED
  BY <1>1, <1>2, <1>3, <1>4, BeginAppendKeeps

LEMMA ObserveLookupKeeps ==
  ASSUME IInv, NEW t \in Turns, NEW s \in Observable, ObserveLookup(t, s)
  PROVE  IInv'
<1> USE DEF IInv, ObserveLookup, Ready, durable
<1>1. TypeOK'
  BY ObservableAssumption DEF TypeOK, Known
<1>2. Dormant' /\ CallersKnown'
  BY DEF Dormant, CallersKnown, Known
<1>3. StoredIdentitiesDistinct' /\ MappingsAreStored' /\ MemoryAgrees' /\ AppendInvariant'
  BY DEF StoredIdentitiesDistinct, MappingsAreStored, MemoryAgrees, Agrees, AppendInvariant
<1> QED  BY <1>1, <1>2, <1>3
\* What the append knows of the row it is about to replace.
LEMMA PendingFacts ==
  ASSUME IInv, writer # None
  PROVE  /\ writer \in Pending /\ writer.id \in Ids /\ writer.rec \in Execution
         /\ writer.rec # None /\ up /\ ~failed
BY DEF IInv, TypeOK, Pending, AppendInvariant

\* Every other row is the one memory shows, so what is fresh in memory is
\* fresh in the table.
LEMMA OthersAgree ==
  ASSUME IInv, up, ~failed, NEW j \in Ids, writer = None \/ writer.id # j, db[j] # None
  PROVE  /\ j \in Known
         /\ records[j].key = db[j].key /\ records[j].seq = db[j].seq
<1>1. db[j] \in Execution /\ Agrees(j)
  BY DEF IInv, TypeOK, MemoryAgrees
<1> QED
  BY <1>1, ReopenedFacts DEF Agrees, Known

\* The row to be written may stand where the old one stood.
LEMMA RowSucceeds ==
  ASSUME IInv, writer # None, writer.stage = "row"
  PROVE  /\ db[writer.id] # None =>
              /\ Ledger!Succeeds(writer.rec, db[writer.id])
              /\ db[writer.id].turn # None => writer.rec.turn = db[writer.id].turn
         /\ db[writer.id] = None => writer.id \notin Known /\ writer.rec.phase = "received"
<1> DEFINE i == writer.id
<1>1. i \in Ids /\ Agrees(i) /\ db[i] \in Execution \cup {None}
  BY PendingFacts DEF IInv, TypeOK, AppendInvariant
<1>2. CASE db[i] # None
  <2>1. /\ i \in Known
        /\ records[i].key = db[i].key /\ records[i].body = db[i].body
        /\ records[i].seq = db[i].seq /\ records[i].turn = db[i].turn
        /\ records[i].intr = db[i].intr
        /\ records[i].phase = "received" <=> db[i].phase = "received"
    BY <1>1, <1>2, ReopenedFacts DEF Agrees, Known
  <2> QED
    BY <1>2, <2>1 DEF IInv, AppendInvariant, Ledger!Succeeds
<1>3. CASE db[i] = None
  BY <1>1, <1>3 DEF Agrees, Known, IInv, AppendInvariant
<1> QED  BY <1>2, <1>3

LEMMA PutRowKeepsIdentities ==
  ASSUME IInv, PutRow
  PROVE  StoredIdentitiesDistinct'
<1> DEFINE w == writer.id
           r == writer.rec
<1>1. /\ w \in Ids /\ r \in Execution /\ up /\ ~failed
      /\ db' = [db EXCEPT ![w] = r] /\ db \in [Ids -> Execution \cup {None}]
  BY PendingFacts DEF PutRow, IInv, TypeOK
<1>2. ASSUME NEW j \in Ids, j # w, db[j] # None
      PROVE  db[j].seq # r.seq /\ (r.key # None => db[j].key # r.key)
  <2>1. /\ j \in Known
        /\ records[j].key = db[j].key /\ records[j].seq = db[j].seq
    BY <1>1, <1>2, OthersAgree
  <2>2. CASE w \in Known
    <3>1. r.key = db[w].key /\ r.seq = db[w].seq /\ db[w] # None
      BY <2>2, RowSucceeds DEF PutRow, Ledger!Succeeds
    <3> QED  BY <1>1, <1>2, <3>1 DEF IInv, StoredIdentitiesDistinct
  <2>3. CASE w \notin Known
    <3>1. records[j].seq \in Nat /\ r.seq \in Nat /\ Fresh(r)
      BY <1>1, <2>1, <2>3 DEF IInv, TypeOK, AppendInvariant, PutRow, Execution, Known
    <3> QED  BY <2>1, <3>1 DEF Fresh
  <2> QED  BY <2>2, <2>3
<1>3. SUFFICES ASSUME NEW i \in Ids, NEW j \in Ids, db'[i] # None, db'[j] # None, i # j
               PROVE  db'[i].seq # db'[j].seq /\ (db'[i].key # None => db'[i].key # db'[j].key)
  BY DEF StoredIdentitiesDistinct
<1> HIDE DEF w, r
<1>4. CASE i # w /\ j # w
  BY <1>1, <1>3, <1>4 DEF IInv, StoredIdentitiesDistinct
<1>5. CASE i = w
  BY <1>1, <1>2, <1>3, <1>5
<1>6. CASE j = w
  BY <1>1, <1>2, <1>3, <1>6
<1> QED  BY <1>4, <1>5, <1>6

LEMMA PutRowKeeps == IInv /\ PutRow => IInv'
<1> SUFFICES ASSUME IInv, PutRow  PROVE IInv'
  OBVIOUS
<1>1. writer # None /\ writer.stage = "row"
  BY DEF PutRow
<1>2. /\ writer \in Pending /\ writer.id \in Ids /\ writer.rec \in Execution
      /\ writer.rec # None /\ up /\ ~failed
  BY <1>1, PendingFacts
<1>3. writer' # None /\ writer' \in Pending /\ writer'.stage = "mirror"
      /\ writer'.id = writer.id /\ writer'.rec = writer.rec
  BY <1>2 DEF PutRow, Pending
<1>4. TypeOK'
  BY <1>2, <1>3 DEF IInv, TypeOK, PutRow
<1>5. MappingsAreStored'
  <2>1. mappings' \cup saving' \subseteq mapped'
    BY DEF IInv, MappingsAreStored, PutRow
  <2>2. \A i \in mapped \ LegacyMapped : db'[i] # None /\ db'[i].turn # None
    BY <1>1, <1>2, RowSucceeds DEF IInv, TypeOK, MappingsAreStored, PutRow
  <2>3. imported' => LegacyMapped \subseteq mapped'
    BY DEF IInv, MappingsAreStored, PutRow
  <2> QED  BY <2>1, <2>2, <2>3 DEF MappingsAreStored, PutRow
<1>6. MemoryAgrees'
  BY <1>2, <1>3 DEF IInv, TypeOK, MemoryAgrees, Agrees, PutRow
<1>7. AppendInvariant'
  BY <1>1, <1>2, <1>3 DEF IInv, TypeOK, AppendInvariant, PutRow, Known, Fresh
<1>8. Dormant' /\ CallersKnown'
  BY <1>2 DEF IInv, Dormant, CallersKnown, PutRow, Known
<1> QED
  BY <1>4, <1>5, <1>6, <1>7, <1>8, PutRowKeepsIdentities DEF IInv

LEMMA WriteMirrorKeeps == IInv /\ WriteMirror => IInv'
<1> SUFFICES ASSUME IInv, WriteMirror  PROVE IInv'
  OBVIOUS
<1> DEFINE w == writer.id
           r == writer.rec
<1>1. /\ writer # None /\ w \in Ids /\ r \in Execution /\ r # None /\ up /\ ~failed
      /\ db[w] = r /\ records \in [Ids -> Execution \cup {None}]
      /\ records' = [records EXCEPT ![w] = r]
  BY PendingFacts DEF WriteMirror, IInv, AppendInvariant, TypeOK
<1>2. writer' = None /\ UNCHANGED <<durable, up, starts, mappings, failed, observing, saving>>
      /\ live' = IF w \in Known THEN live ELSE live \cup {w}
  BY DEF WriteMirror
<1>3. w \in live' => Unsent(r)
  BY <1>1, <1>2 DEF IInv, AppendInvariant, CallersKnown
<1> HIDE DEF w, r
<1>4. TypeOK'
  BY <1>1, <1>2 DEF IInv, TypeOK, durable
<1>5. MemoryAgrees'
  BY <1>1, <1>2 DEF IInv, MemoryAgrees, Agrees, durable, w
<1>6. Known' = Known \cup {w}
  BY <1>1 DEF Known
<1>7. CallersKnown'
  BY <1>1, <1>2, <1>3, <1>6 DEF IInv, CallersKnown, Known
<1>8. AppendInvariant' /\ Dormant' /\ StoredIdentitiesDistinct' /\ MappingsAreStored'
  BY <1>1, <1>2 DEF IInv, AppendInvariant, Dormant, StoredIdentitiesDistinct, MappingsAreStored, durable
<1> QED
  BY <1>4, <1>5, <1>7, <1>8 DEF IInv
LEMMA AppendFailsKeeps == IInv /\ AppendFails => IInv'
<1> SUFFICES ASSUME IInv, AppendFails  PROVE IInv'
  OBVIOUS
<1> USE DEF IInv, AppendFails, durable
<1>1. TypeOK'
  BY DEF TypeOK
<1>2. StoredIdentitiesDistinct' /\ MappingsAreStored'
  BY DEF StoredIdentitiesDistinct, MappingsAreStored
<1>3. MemoryAgrees' /\ AppendInvariant'
  BY DEF MemoryAgrees, AppendInvariant
<1>4. Dormant' /\ CallersKnown'
  BY DEF Dormant, CallersKnown, Known
<1> QED  BY <1>1, <1>2, <1>3, <1>4

LEMMA PersistMappingKeeps == ASSUME IInv, NEW i \in Ids, PersistMapping(i)  PROVE IInv'
<1> USE DEF IInv, PersistMapping, Ready
<1>1. TypeOK'
  BY DEF TypeOK
<1>2. db[i] # None /\ db[i].turn # None
  <2>1. i \in Known /\ Agrees(i)
    BY DEF CallersKnown, MemoryAgrees
  <2>2. db[i] \in Execution \cup {None}
    BY DEF TypeOK
  <2> QED  BY <2>1, <2>2, ReopenedFacts DEF Agrees, Known
<1>3. StoredIdentitiesDistinct' /\ MappingsAreStored'
  BY <1>2 DEF StoredIdentitiesDistinct, MappingsAreStored
<1>4. MemoryAgrees' /\ AppendInvariant'
  BY DEF MemoryAgrees, AppendInvariant, Agrees
<1>5. Dormant' /\ CallersKnown'
  BY DEF Dormant, CallersKnown, Known
<1> QED  BY <1>1, <1>3, <1>4, <1>5

LEMMA InsertMappingKeeps == ASSUME IInv, NEW i \in Ids, InsertMapping(i)  PROVE IInv'
<1> USE DEF IInv, InsertMapping, durable
<1>1. TypeOK'
  BY DEF TypeOK
<1>2. StoredIdentitiesDistinct' /\ MappingsAreStored'
  BY DEF StoredIdentitiesDistinct, MappingsAreStored
<1>3. MemoryAgrees' /\ AppendInvariant'
  BY DEF MemoryAgrees, AppendInvariant, Agrees, Known, Fresh
<1>4. Dormant' /\ CallersKnown'
  BY DEF Dormant, CallersKnown, Known
<1> QED  BY <1>1, <1>2, <1>3, <1>4

LEMMA HandlerEndsKeeps == ASSUME IInv, NEW i \in Ids, HandlerEnds(i)  PROVE IInv'
<1> USE DEF IInv, HandlerEnds, durable
<1>1. TypeOK'
  BY DEF TypeOK
<1>2. StoredIdentitiesDistinct' /\ MappingsAreStored'
  BY DEF StoredIdentitiesDistinct, MappingsAreStored
<1>3. MemoryAgrees' /\ AppendInvariant'
  BY DEF MemoryAgrees, AppendInvariant, Agrees, Known, Fresh
<1>4. Dormant' /\ CallersKnown'
  BY DEF Dormant, CallersKnown, Known
<1> QED  BY <1>1, <1>2, <1>3, <1>4

LEMMA StutterKeeps == IInv /\ UNCHANGED vars => IInv'
<1> SUFFICES ASSUME IInv, UNCHANGED vars  PROVE IInv'
  OBVIOUS
<1> USE DEF IInv, vars, durable, volatile
<1>1. TypeOK' /\ StoredIdentitiesDistinct' /\ MappingsAreStored'
  BY DEF TypeOK, StoredIdentitiesDistinct, MappingsAreStored
<1>2. MemoryAgrees' /\ AppendInvariant' /\ Dormant' /\ CallersKnown'
  BY DEF MemoryAgrees, AppendInvariant, Agrees, Known, Fresh, Dormant, CallersKnown
<1> QED  BY <1>1, <1>2

LEMMA StepInvariant == IInv /\ [Next]_vars => IInv'
<1> SUFFICES ASSUME IInv, [Next]_vars  PROVE IInv'
  OBVIOUS
<1>1. CASE Import \/ Open \/ Crash
  BY <1>1, ImportKeeps, OpenKeeps, CrashKeeps
<1>2. CASE PutRow \/ WriteMirror \/ AppendFails
  BY <1>2, PutRowKeeps, WriteMirrorKeeps, AppendFailsKeeps
<1>3. CASE \E i \in Ids, key \in Keys \cup {None}, body \in Bodies : Reserve(i, key, body)
  BY <1>3, ReserveKeeps
<1>4. CASE \E i \in Ids : Update(i) \/ PersistMapping(i) \/ InsertMapping(i) \/ HandlerEnds(i)
  BY <1>4, UpdateKeeps, PersistMappingKeeps, InsertMappingKeeps, HandlerEndsKeeps
<1>5. CASE \E t \in Turns, s \in Observable : ObserveLookup(t, s)
  BY <1>5, ObserveLookupKeeps
<1>6. CASE \E o \in observing : ObserveUpdate(o)
  BY <1>6, ObserveUpdateKeeps
<1>7. CASE UNCHANGED vars
  BY <1>7, StutterKeeps
<1> QED
  BY <1>1, <1>2, <1>3, <1>4, <1>5, <1>6, <1>7 DEF Next

LEMMA Invariance == Spec => []IInv
BY InitInvariant, StepInvariant, PTL DEF Spec

-----------------------------------------------------------------------------
(* What the component promises.                                            *)

\* The state keeps its shape (the tables and caches of control.rs).
THEOREM TypeCorrect == Spec => []TypeOK
<1>1. IInv => TypeOK
  BY DEF IInv
<1> QED  BY <1>1, Invariance, PTL

\* No request id and no sequence number is ever given to two rows, over
\* restarts and failed writes (reserve, control.rs:149-172).
THEOREM IdentitiesDistinct == Spec => []StoredIdentitiesDistinct
<1>1. IInv => StoredIdentitiesDistinct
  BY DEF IInv
<1> QED  BY <1>1, Invariance, PTL

\* Unless a write has failed, what memory shows is what a restart would find
\* (append, control.rs:186-203).
THEOREM MemoryStored == Spec => []MemoryIsStored
<1>1. IInv => MemoryIsStored
  BY DEF IInv, MemoryAgrees, Agrees, MemoryIsStored
<1> QED  BY <1>1, Invariance, PTL

\* A mapping in memory is on disk; every mapping of the older version is, once it
\* was imported; and one this version wrote has a record with a turn behind it
\* (ResponseStore::put, store.rs:91-109; import_existing, control_db.rs:60-107).
THEOREM MappingsStored == Spec => []MappingsAreStored
<1>1. IInv => MappingsAreStored
  BY DEF IInv
<1> QED  BY <1>1, Invariance, PTL

\* No restart shows a send in progress (open, control.rs:102-106).
THEOREM ReopenedSettled == Spec => ReopenedNeverInFlight
<1>1. IInv /\ [Next]_vars =>
        [up' /\ ~up =>
           \A i \in Ids : records'[i] # None /\ records'[i].phase \in {"dispatching", "started"}
                            => records'[i].status \in Terminal]_vars
  <2> SUFFICES ASSUME IInv, Next, up' /\ ~up, NEW i \in Ids, records'[i] # None,
                      records'[i].phase \in {"dispatching", "started"}
               PROVE  records'[i].status \in Terminal
    BY DEF vars, durable, volatile
  <2>1. Open
    BY DEF Next, Import, Open, Crash, PutRow, WriteMirror, AppendFails, Reserve, Update,
           PersistMapping, InsertMapping, HandlerEnds, ObserveLookup, ObserveUpdate, Ready
  <2>2. db[i] # None /\ records'[i] = Reopened(db[i]) /\ db[i] \in Execution
    BY <2>1 DEF Open, Restored, IInv, TypeOK
  <2> QED
    BY <2>2 DEF Reopened, Execution
<1> QED  BY <1>1, Invariance, PTL DEF Spec, ReopenedNeverInFlight

-----------------------------------------------------------------------------
(* The store implements the ledger.                                        *)

LEMMA LedgerStart == Init => Ledger!LedgerInit
BY DEF Init, Ledger!LedgerInit

LEMMA ImportAdopts == IInv /\ Import => Ledger!LedgerNext
<1> SUFFICES ASSUME IInv, Import  PROVE Ledger!Adopt(db')
  BY DEF Ledger!LedgerNext
<1>1. db' = ImportedTable
  BY DEF Import
<1>2. \A i \in Ids : db[i] = None
  BY DEF IInv, Dormant, Import
<1> QED
  BY <1>1, <1>2, LegacyAssumption DEF Ledger!Adopt, Ledger!Accepted

\* A new row is an acceptance, any other an amendment.
LEMMA PutRowAmends == IInv /\ PutRow => Ledger!LedgerNext
<1> SUFFICES ASSUME IInv, PutRow  PROVE Ledger!LedgerNext
  OBVIOUS
<1> DEFINE w == writer.id
<1>1. /\ w \in Ids /\ writer.rec # None /\ db' = [db EXCEPT ![w] = writer.rec]
      /\ db'[w] = writer.rec
  BY PendingFacts DEF PutRow, IInv, TypeOK
<1>2. CASE db[w] = None
  <2>1. writer.rec.phase = "received"
    BY <1>2, RowSucceeds DEF PutRow
  <2>2. Ledger!Consistent(db')
    BY PutRowKeepsIdentities DEF StoredIdentitiesDistinct, Ledger!Consistent,
       Ledger!KeysDistinct, Ledger!SequencesDistinct, Ledger!Accepted
  <2>3. Ledger!Accept(w, db'[w])
    BY <1>1, <1>2, <2>1, <2>2 DEF Ledger!Accept
  <2> QED  BY <1>1, <2>3 DEF Ledger!LedgerNext
<1>3. CASE db[w] # None
  <2>1. Ledger!Succeeds(writer.rec, db[w])
    BY <1>3, RowSucceeds DEF PutRow
  <2>2. Ledger!Amend(w, db'[w])
    BY <1>1, <1>3, <2>1 DEF Ledger!Amend
  <2> QED  BY <1>1, <2>2 DEF Ledger!LedgerNext
<1> QED  BY <1>2, <1>3

LEMMA LedgerStep == IInv /\ [Next]_vars => [Ledger!LedgerNext]_db
<1> SUFFICES ASSUME IInv, [Next]_vars, db' # db  PROVE Ledger!LedgerNext
  OBVIOUS
<1>1. Import \/ PutRow
  BY DEF Next, Import, Open, Crash, PutRow, WriteMirror, AppendFails, Reserve, Update,
         PersistMapping, InsertMapping, HandlerEnds, ObserveLookup, ObserveUpdate,
         vars, durable, volatile
<1> QED  BY <1>1, ImportAdopts, PutRowAmends

\* The rows of control.sqlite3, over every order of appends, observations,
\* failed writes, crashes and restarts, are a ledger: they only grow, name
\* each execution once, and keep what was recorded.
THEOREM ImplementsLedger == Spec => LedgerSafe
BY LedgerStart, LedgerStep, Invariance, PTL DEF Spec, LedgerSafe, Ledger!LedgerSpec
=============================================================================
