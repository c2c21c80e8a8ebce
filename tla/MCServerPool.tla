---------------------------- MODULE MCServerPool ----------------------------
(* Values of the constants of ServerPool for TLC. *)
EXTENDS ServerPool

(* One run with two replicas and one with a single server on a shared port. *)
TwoAndOne == << 2, 1 >>
=============================================================================
