---------------------------- MODULE ExecutionLedger ----------------------------
(***************************************************************************)
(* What the control store promises, without files, locks, caches or        *)
(* restarts: a table of executions that only grows, in which a client's    *)
(* request id and a sequence number each name one execution for good, an   *)
(* execution that went past "received" is never taken for an unsent one    *)
(* again, and a requested interruption is never forgotten.                 *)
(***************************************************************************)
EXTENDS ExecutionRecord

CONSTANTS Ids

VARIABLE ledger   \* response id -> Execution, or None while not accepted

Accepted(table) == {i \in Ids : table[i] # None}

\* Request ids and sequence numbers name one execution each.
KeysDistinct(table) ==
  \A i, j \in Accepted(table) :
    table[i].key # None /\ table[i].key = table[j].key => i = j

SequencesDistinct(table) ==
  \A i, j \in Accepted(table) : table[i].seq = table[j].seq => i = j

Consistent(table) == KeysDistinct(table) /\ SequencesDistinct(table)

\* The identity of an execution and the facts that are final once recorded.
Succeeds(new, old) ==
  /\ new.key = old.key /\ new.body = old.body /\ new.seq = old.seq
  /\ old.phase # "received" => new.phase # "received"
  /\ old.intr # "none" => new.intr # "none"

LedgerInit == ledger = [i \in Ids |-> None]

\* The records of an earlier version, taken over in one transaction.
Adopt(table) ==
  /\ Accepted(ledger) = {}
  /\ Consistent(table)
  /\ ledger' = table

Accept(i, r) ==
  /\ ledger[i] = None /\ r # None
  /\ r.phase = "received"
  /\ ledger' = [ledger EXCEPT ![i] = r]
  /\ Consistent(ledger')

Amend(i, r) ==
  /\ ledger[i] # None /\ r # None
  /\ Succeeds(r, ledger[i])
  /\ ledger' = [ledger EXCEPT ![i] = r]

LedgerNext ==
  \/ Adopt(ledger')
  \/ \E i \in Ids : Accept(i, ledger'[i]) \/ Amend(i, ledger'[i])

LedgerSpec == LedgerInit /\ [][LedgerNext]_ledger
=============================================================================
