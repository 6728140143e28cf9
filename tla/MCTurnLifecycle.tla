---------------------------- MODULE MCTurnLifecycle ----------------------------
(***************************************************************************)
(* Instances of TurnLifecycle for TLC: r0 is the restored response, r1 and *)
(* r2 are new.                                                             *)
(***************************************************************************)
EXTENDS TurnLifecycle, TLC

CONSTANTS r0, r1, r2, k1, c1

Requests(modes, keys, prevs, suppress) ==
  [mode : modes, key : keys, prev : prevs, suppress : {suppress}]

\* Both may continue r0, r2 may continue r1 on its own thread or on that of
\* r0, and they may share a key.
Conversations ==
  (r0 :> {}) @@ (r1 :> Requests({"json"}, {k1}, {None, r0}, TRUE)
                       \cup Requests({"chat"}, {None}, {None}, FALSE))
             @@ (r2 :> Requests({"stream"}, {None, k1}, {r0, r1}, FALSE))

\* Both continue r0, one after the other at most.
OneThread ==
  (r0 :> {}) @@ (r1 :> Requests({"json"}, {None}, {r0}, FALSE))
             @@ (r2 :> Requests({"stream"}, {None}, {r0}, FALSE))

\* r1 opens a thread or continues the one of r0, and so may r2, or that of r1.
Contending ==
  (r0 :> {}) @@ (r1 :> Requests({"json"}, {None}, {None, r0}, FALSE))
             @@ (r2 :> Requests({"json"}, {None}, {r0, r1}, FALSE))

\* One new response, of each kind.
OneTurn ==
  (r0 :> {}) @@ (r1 :> Requests(Modes, {None}, {None}, FALSE)) @@ (r2 :> {})

\* What the control clients ask for.
EachOf(ops, rs) == [op : ops, at : rs]
ControlAsks == EachOf({"interrupt"}, {r1, r2}) \cup EachOf({"steer"}, {r1})
LiveAsks == EachOf({"interrupt"}, {r0})
StatusAsks == EachOf({"status"}, {r1})
=============================================================================
