------------------------------ MODULE MCSweep -------------------------------
(* Two cells of the generation study on one replica, two components of the   *)
(* alignment study on one or on two; the generation with one repeat or two.  *)
EXTENDS Sweep

Setup(s, p, n) == [study |-> s, ports |-> p, repeats |-> n]

Alone == Setup("generation", <<8000>>, 2)
Generation == {Alone, Setup("generation", <<8000>>, 1)}
Alignment == {Setup("alignment", <<8000>>, 2), Setup("alignment", <<8000, 8001>>, 2)}
Both == Generation \cup Alignment
=============================================================================
