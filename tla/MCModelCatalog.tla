---------------------------- MODULE MCModelCatalog ----------------------------
(***************************************************************************)
(* Instances of ModelCatalog for TLC: ChatGPT and one HTTP provider that    *)
(* may offer the same upstream name, which the configuration also gives a   *)
(* ChatGPT id of its own.                                                   *)
(***************************************************************************)
EXTENDS ModelCatalog, TLC

CONSTANTS c1, c2, chatgpt, hoshikage, m1, alias, p1

OneConfigured == {[id |-> <<chatgpt, alias>>, provider |-> chatgpt, upstream |-> m1]}

\* Each operation, with a configured model and one that must be discovered.
TwoEach ==
  (c1 :> {[op |-> "list", id |-> None], [op |-> "resolve", id |-> <<chatgpt, alias>>]}) @@
  (c2 :> {[op |-> "status", id |-> None], [op |-> "resolve", id |-> <<hoshikage, m1>>]})
=============================================================================
