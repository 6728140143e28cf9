---------------------------- MODULE ResponseStream ----------------------------
(***************************************************************************)
(* What a client of a generated answer is promised, streamed or not: the   *)
(* pieces of the text in the order the turn produced them, none skipped    *)
(* and none repeated, then one ending and nothing after it - and the       *)
(* ending "completed" only when the turn completed and all of its text was *)
(* given.  EventStream implements it over a lossy broadcast ring.          *)
(***************************************************************************)
EXTENDS Naturals, Sequences

CONSTANT MaxPieces

VARIABLES
  produced,  \* pieces of text the turn has produced
  result,    \* how the turn ended, or "none"
  given,     \* the pieces the client was given, by number
  ending     \* how the answer ended, or "none"

vars == <<produced, result, given, ending>>

Init == produced = 0 /\ result = "none" /\ given = <<>> /\ ending = "none"

Produce ==
  /\ result = "none" /\ produced < MaxPieces
  /\ produced' = produced + 1
  /\ UNCHANGED <<result, given, ending>>

Finish(r) ==
  /\ result = "none"
  /\ result' = r
  /\ UNCHANGED <<produced, given, ending>>

Give ==
  /\ ending = "none" /\ Len(given) < produced
  /\ given' = Append(given, Len(given) + 1)
  /\ UNCHANGED <<produced, result, ending>>

Complete ==
  /\ ending = "none" /\ result = "completed" /\ Len(given) = produced
  /\ ending' = "completed"
  /\ UNCHANGED <<produced, result, given>>

Fail ==
  /\ ending = "none"
  /\ ending' = "failed"
  /\ UNCHANGED <<produced, result, given>>

Next == Produce \/ (\E r \in {"completed", "failed"} : Finish(r)) \/ Give \/ Complete \/ Fail

Spec == Init /\ [][Next]_vars
=============================================================================
