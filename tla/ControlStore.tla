----------------------------- MODULE ControlStore -----------------------------
(***************************************************************************)
(* control.rs, control_db.rs and the mapping half of store.rs: the durable *)
(* execution records, their in-memory copy and the fail-closed flag.       *)
(*                                                                         *)
(* Every operation runs under one mutex, but an append writes three places *)
(* in turn - the SQLite row, the JSONL mirror, the memory map - and the    *)
(* process can die, or a write fail, between any two of them.  writer is   *)
(* the append in progress (the mutex is held while it is not None).        *)
(* ControlStore::observe looks the record up and updates it in two         *)
(* separate critical sections: observing holds the lookups in between.     *)
(*                                                                         *)
(* The mirror is never read again once the import has run, so only the     *)
(* success or failure of its writes is modelled.  LegacyTable and          *)
(* LegacyLog are what the first start of this version finds: the rows of   *)
(* an old v2 database and the lines of executions.jsonl, where the older   *)
(* version appended a whole record at every change; LegacyMapped are the   *)
(* responses either has a mapping of, some of them older than the          *)
(* execution records, so without one.                                      *)
(***************************************************************************)
EXTENDS ExecutionRecord, Sequences, FiniteSets

CONSTANTS
  Ids,           \* response ids
  LegacyTable,   \* [Ids -> Execution or None]: legacy_records of v2/metadata.sqlite3
  LegacyLog,     \* lines of executions.jsonl: a sequence of [id, rec]
  LegacyMapped,  \* ids with a mapping in v2/metadata.sqlite3 or mappings.jsonl
  Observable,    \* statuses Codex reports
  MaxStarts,     \* bound: process starts
  MaxObserving   \* bound: calls of observe between their two sections

\* An append in progress.
Pending == [id : Ids, rec : Execution, stage : {"row", "mirror"}]

ASSUME IdsAssumption == IsFiniteSet(Ids) /\ None \notin Ids \cup Pending
ASSUME ObservableAssumption == Observable \subseteq Statuses \ {"unknown"}
ASSUME BoundsAssumption == MaxStarts \in Nat /\ MaxObserving \in Nat

VARIABLES
  db,          \* the rows of kind "execution" of control.sqlite3 (durable)
  imported,    \* the metadata row initial_import (durable)
  mapped,      \* ids with a row of kind "mapping" (durable)
  up,          \* the store is open
  records,     \* the memory map
  mappings,    \* ids in ResponseStore's memory map
  failed,      \* a write failed: every later call is refused
  writer,      \* the append under the mutex: [id, rec, stage], or None
  observing,   \* [id, status]: observe between by_turn and update
  saving,      \* ids between persist_mapping and the insert into mappings
  live,        \* ids whose request handler runs in this process
  starts       \* number of times the store was opened

durable == <<db, imported, mapped>>
volatile == <<records, mappings, failed, writer, observing, saving, live>>
vars == <<durable, volatile, up, starts>>

Known == {i \in Ids : records[i] # None}

-----------------------------------------------------------------------------
(* Reading the legacy files.                                               *)

LinesOf(i) == {n \in DOMAIN LegacyLog : LegacyLog[n].id = i}

FirstLine(i) ==
  LegacyLog[CHOOSE n \in LinesOf(i) : \A m \in LinesOf(i) : n <= m].rec

LastLine(i) ==
  LegacyLog[CHOOSE n \in LinesOf(i) : \A m \in LinesOf(i) : n >= m].rec

\* import_existing: the old rows replace, then each line is inserted unless
\* its id is already there - so of several lines of one id the first stays.
ImportedTable ==
  [i \in Ids |-> IF LegacyTable[i] # None THEN LegacyTable[i]
                 ELSE IF LinesOf(i) # {} THEN FirstLine(i) ELSE None]

\* The store implements the ledger of ExecutionLedger, with its rows for it.
Ledger == INSTANCE ExecutionLedger WITH ledger <- db

\* What the older version left is well-formed: it gave a request id and a
\* sequence number to one execution each, too.
ASSUME LegacyAssumption ==
  /\ LegacyTable \in [Ids -> Execution \cup {None}]
  /\ LegacyLog \in Seq([id : Ids, rec : Execution])
  /\ LegacyMapped \subseteq Ids
  /\ Ledger!Consistent(ImportedTable)

-----------------------------------------------------------------------------
(* The mutex and the append.                                               *)

\* The store answers: it is open, nobody holds the mutex, no write has failed.
Ready == up /\ writer = None /\ ~failed

BeginAppend(i, r) == writer' = [id |-> i, rec |-> r, stage |-> "row"]

Holder(key) == {i \in Known : key # None /\ records[i].key = key}

\* A mutation of NextSequence: the count of records, not the largest number.
NextSequenceByCount == Cardinality(Known) 

NextSequence ==
  1 + (IF Known = {} THEN 0
       ELSE LET seqs == {records[i].seq : i \in Known}
            IN CHOOSE s \in seqs : \A t \in seqs : s >= t)

\* reserve: a known key answers with its record and writes nothing.
Reserve(i, key, body) ==
  /\ Ready
  /\ records[i] = None /\ db[i] = None /\ i \notin mapped      \* a fresh UUID
  /\ Holder(key) = {}
  /\ BeginAppend(i, NewExecution(key, body, NextSequence))
  /\ UNCHANGED <<durable, up, starts, records, mappings, failed, observing, saving, live>>

\* The changes the handlers make to record i, each in the phase it is made in.
Edits(i) ==
  LET r == records[i] IN
  (IF i \in live /\ r.phase = "received"
   THEN {DispatchEdit(r, t) : t \in Threads \cup {None}} \cup {BeginErrorEdit(r)}
   ELSE {})
  \cup
  (IF i \in live /\ r.phase = "dispatching"
   THEN {ThreadEdit(r, t, s) : t \in (IF r.thread = None THEN Threads ELSE {r.thread}),
                               s \in BOOLEAN}
        \cup {StartEdit(r, t) : t \in {None} \cup
               (Turns \ {records[j].turn : j \in Known})}
        \cup {RejectEdit(r), BeginErrorEdit(r)}
   ELSE {})
  \cup
  (IF r.turn # None /\ r.intr = "none" THEN {InterruptEdit(r, "unknown")} ELSE {})
  \cup
  (IF r.turn # None /\ r.intr = "unknown" THEN {InterruptEdit(r, "accepted")} ELSE {})

Update(i) ==
  /\ Ready
  /\ i \in Known
  /\ \E r \in Edits(i) : BeginAppend(i, r)
  /\ UNCHANGED <<durable, up, starts, records, mappings, failed, observing, saving, live>>

\* observe, first critical section: which record has this turn?
ObserveLookup(turn, status) ==
  /\ Ready
  /\ Cardinality(observing) < MaxObserving
  /\ \E i \in Known : /\ records[i].turn = turn
                     /\ observing' = observing \cup {[id |-> i, status |-> status]}
  /\ UNCHANGED <<durable, up, starts, records, mappings, failed, writer, saving, live>>

\* A mutation of ObservedRecord: the update writes back a record without the
\* marks set since it was looked up.
ObservedRecordStale(o) ==
  ObserveEdit([records[o.id] EXCEPT !.intr = "none"], o.status)

ObservedRecord(o) == ObserveEdit(records[o.id], o.status)

\* observe, second critical section: update reads the record again.
ObserveUpdate(o) ==
  /\ Ready
  /\ o \in observing
  /\ observing' = observing \ {o}
  /\ BeginAppend(o.id, ObservedRecord(o))
  /\ UNCHANGED <<durable, up, starts, records, mappings, failed, saving, live>>

PutRow ==
  /\ up /\ writer # None
  /\ writer.stage = "row"
  /\ db' = [db EXCEPT ![writer.id] = writer.rec]
  /\ writer' = [writer EXCEPT !.stage = "mirror"]
  /\ UNCHANGED <<imported, mapped, up, starts, records, mappings, failed,
                 observing, saving, live>>

\* write_all and sync_all of the mirror succeed: the record becomes visible,
\* and a reservation lets its handler go on.
WriteMirror ==
  /\ up /\ writer # None
  /\ writer.stage = "mirror"
  /\ records' = [records EXCEPT ![writer.id] = writer.rec]
  /\ writer' = None
  /\ live' = IF writer.id \in Known THEN live ELSE live \cup {writer.id}
  /\ UNCHANGED <<durable, up, starts, mappings, failed, observing, saving>>

\* A mutation of AppendFails: the error is returned, the store stays in use.
AppendFailsOpen ==
  /\ up /\ writer # None
  /\ writer' = None
  /\ UNCHANGED <<durable, up, starts, records, mappings, failed, observing, saving, live>>

\* The row or the mirror cannot be written.  In the second case the row is
\* there already, and stays.
AppendFails ==
  /\ up /\ writer # None
  /\ failed' = TRUE
  /\ writer' = None
  /\ UNCHANGED <<durable, up, starts, records, mappings, observing, saving, live>>

-----------------------------------------------------------------------------
(* ResponseStore::put: the row under the store's mutex, then the map.      *)

PersistMapping(i) ==
  /\ Ready
  /\ i \in live
  /\ records[i].turn # None
  /\ i \notin saving /\ i \notin mappings
  /\ \/ /\ mapped' = mapped \cup {i}
        /\ saving' = saving \cup {i}
        /\ UNCHANGED failed
     \/ /\ failed' = TRUE
        /\ UNCHANGED <<mapped, saving>>
  /\ UNCHANGED <<db, imported, up, starts, records, mappings, writer, observing, live>>

InsertMapping(i) ==
  /\ up
  /\ i \in saving
  /\ mappings' = mappings \cup {i}
  /\ saving' = saving \ {i}
  /\ UNCHANGED <<durable, up, starts, records, failed, writer, observing, live>>

\* The handler of i has returned, or was dropped with its connection.
HandlerEnds(i) ==
  /\ up
  /\ i \in live
  /\ ~(writer # None /\ writer.id = i)      \* append does not yield
  /\ live' = live \ {i}
  /\ saving' = saving \ {i}
  /\ UNCHANGED <<durable, up, starts, records, mappings, failed, writer, observing>>

-----------------------------------------------------------------------------
(* Starting and dying.                                                     *)

\* control_db::open, at the first start: one transaction, for the executions and
\* for the mappings.
Import ==
  /\ ~up /\ ~imported
  /\ starts < MaxStarts
  /\ imported' = TRUE
  /\ db' = ImportedTable
  /\ mapped' = LegacyMapped
  /\ UNCHANGED <<volatile, up, starts>>

Restored(i) == IF db[i] = None THEN None ELSE Reopened(db[i])

Open ==
  /\ ~up /\ imported
  /\ starts < MaxStarts
  /\ up' = TRUE
  /\ starts' = starts + 1
  /\ records' = [i \in Ids |-> Restored(i)]
  /\ mappings' = mapped
  /\ UNCHANGED <<durable, failed, writer, observing, saving, live>>

\* The process ends at any point: what is in memory is gone.
Crash ==
  /\ up
  /\ up' = FALSE
  /\ records' = [i \in Ids |-> None]
  /\ mappings' = {} /\ observing' = {} /\ saving' = {} /\ live' = {}
  /\ failed' = FALSE /\ writer' = None
  /\ UNCHANGED <<durable, starts>>

-----------------------------------------------------------------------------
Init ==
  /\ db = [i \in Ids |-> None]
  /\ imported = FALSE /\ mapped = {}
  /\ up = FALSE /\ starts = 0
  /\ records = [i \in Ids |-> None]
  /\ mappings = {} /\ observing = {} /\ saving = {} /\ live = {}
  /\ failed = FALSE /\ writer = None

Next ==
  \/ Import \/ Open \/ Crash
  \/ PutRow \/ WriteMirror \/ AppendFails
  \/ \E i \in Ids, key \in Keys \cup {None}, body \in Bodies : Reserve(i, key, body)
  \/ \E i \in Ids : \/ Update(i) \/ PersistMapping(i)
                    \/ InsertMapping(i) \/ HandlerEnds(i)
  \/ \E t \in Turns, s \in Observable : ObserveLookup(t, s)
  \/ \E o \in observing : ObserveUpdate(o)

Spec == Init /\ [][Next]_vars

-----------------------------------------------------------------------------
\* The shape of the state.
TypeOK ==
  /\ db \in [Ids -> Execution \cup {None}]
  /\ records \in [Ids -> Execution \cup {None}]
  /\ imported \in BOOLEAN /\ up \in BOOLEAN /\ failed \in BOOLEAN
  /\ mapped \subseteq Ids /\ mappings \subseteq Ids /\ saving \subseteq Ids
  /\ live \subseteq Ids
  /\ writer \in Pending \cup {None}
  /\ observing \subseteq [id : Ids, status : Statuses]
  /\ starts \in Nat

\* A client's request id never names two executions, and no two executions
\* share a sequence number - in the durable table, so over every restart and
\* after every failed write (reserve, control.rs:149-172).
StoredIdentitiesDistinct ==
  \A i, j \in Ids :
    /\ db[i] # None /\ db[j] # None /\ i # j
    => /\ db[i].seq # db[j].seq
       /\ db[i].key # None => db[i].key # db[j].key

\* What a caller is told is what a restart would find: while the store is in
\* use, a record in memory is the stored row, up to the phase reopening gives
\* it (append, control.rs:186-203).
MemoryIsStored ==
  up /\ ~failed =>
    \A i \in Ids :
      (writer # None /\ writer.id = i) \/ records[i] = db[i]
      \/ (db[i] # None /\ records[i] = Reopened(db[i]))

\* A mapping in memory is stored, the import leaves none behind, and a response
\* this version mapped has a record with its turn, which a legacy one need not
\* have (put, store.rs:91-109; control_db.rs:60-107; http.rs:2442).
MappingsAreStored ==
  /\ mappings \cup saving \subseteq mapped
  /\ imported => LegacyMapped \subseteq mapped
  /\ \A i \in mapped \ LegacyMapped : db[i] # None /\ db[i].turn # None

\* The store implements the ledger: reservations and amendments of the table
\* are single steps, and no restart, failed write or stale observation undoes
\* what an earlier step recorded.
LedgerSafe == Ledger!LedgerSpec

\* What a restart shows never claims a send in progress: an execution whose
\* outcome no one recorded is unknown (open, control.rs:102-106).
ReopenedNeverInFlight ==
  [][up' /\ ~up =>
       \A i \in Ids : records'[i] # None /\ records'[i].phase \in {"dispatching", "started"}
                        => records'[i].status \in Terminal]_vars

\* The import keeps what the older version knew last: an execution whose last
\* recorded state is past "received" is not taken for one that was never sent.
\* docs/user-guide.ja.md:164 and docs/control-api.ja.md:27 rest on it.
ImportKeepsLatestState ==
  imported => \A i \in Ids : LinesOf(i) # {} /\ LastLine(i).phase # "received"
                => db[i].phase # "received"
=============================================================================
