---------------------------- MODULE MCControlStore ----------------------------
(***************************************************************************)
(* Instances of ControlStore for TLC.  i3 is the response of an earlier    *)
(* version, i4 one whose mapping alone was kept; i1 and i2 are new.        *)
(***************************************************************************)
EXTENDS ControlStore, TLC

CONSTANTS i1, i2, i3, i4, t1, u1, k1, k2, b1

Symmetric == Permutations({i1, i2})

\* The states of i3 while the older version ran it to its end, one per append.
Lifetime ==
  LET r0 == NewExecution(k1, b1, 1)
      r1 == DispatchEdit(r0, None)
      r2 == StartEdit(ThreadEdit(r1, t1, FALSE), u1)
      r3 == ObserveEdit(r2, "completed")
  IN <<r0, r1, r2, r3>>

\* The row a v2 database has for i3, which Codex had refused to start.
RejectedTable ==
  [i \in Ids |-> IF i = i3 THEN RejectEdit(Lifetime[2]) ELSE None]

NoTable == [i \in Ids |-> None]

\* The lines executions.jsonl has for i3, run to its end.
FinishedLog == [n \in 1..4 |-> [id |-> i3, rec |-> Lifetime[n]]]
=============================================================================
