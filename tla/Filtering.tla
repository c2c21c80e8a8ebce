----------------------------- MODULE Filtering ------------------------------
(***************************************************************************)
(* Lists with a condition.                                                  *)
(***************************************************************************)
EXTENDS Integers, Sequences

(* [x for x in s if x in set]                                               *)
Only(s, set) ==
  LET kept[i \in 0 .. Len(s)] ==
        IF i = 0 THEN <<>>
        ELSE IF s[i] \in set THEN Append(kept[i - 1], s[i]) ELSE kept[i - 1]
  IN  kept[Len(s)]
=============================================================================
