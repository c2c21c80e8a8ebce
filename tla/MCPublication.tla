---------------------------- MODULE MCPublication ----------------------------
(* Values of the constants of Publication for TLC. *)
EXTENDS Publication

(* Two runs that generate, with the same recipe, and one that imports.       *)
ThreeBatches ==
  << [mode |-> "generate", recipe |-> "R", keep |-> TRUE, list |-> << "a", "bad", "a" >>],
     [mode |-> "generate", recipe |-> "R", keep |-> FALSE, list |-> << "a" >>],
     [mode |-> "import", recipe |-> "S", keep |-> FALSE, list |-> << "a" >>] >>

TwoRevisions == 1 .. 2
OldThenNew == << "v2.1", "v3" >>
=============================================================================
