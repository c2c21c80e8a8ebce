--------------------------- MODULE AtomicDataset ---------------------------
(***************************************************************************)
(* What a dataset rewrite promises: the files named by one transaction     *)
(* change together, in a single step, to a version no file had before, or  *)
(* do not change at all.  The only other change is that somebody else      *)
(* overwrites a file, or puts back one that had been overwritten.  When a  *)
(* rewrite returns to its caller it has taken that step, and nothing takes *)
(* it back.                                                                *)
(***************************************************************************)
EXTENDS Integers

CONSTANTS Targets,  \* the files a transaction may replace
          Info,     \* meta/info.json, part of every transaction
          Foreign   \* content written by somebody else

VARIABLES content,  \* the version every file logically holds
          acked     \* the content the last rewrite that returned reported

Init ==
  /\ content = [t \in Targets |-> 0]
  /\ acked = content

(* All of paths moves to one fresh version. *)
Update(paths) ==
  LET version == content'[Info] IN
    /\ Info \in paths
    /\ \A t \in Targets : content[t] < version
    /\ content' = [t \in Targets |-> IF t \in paths THEN version ELSE content[t]]
    /\ UNCHANGED acked

(* The caller is told that the rewrite succeeded. *)
Return ==
  /\ acked' = content
  /\ UNCHANGED content

(* Somebody else overwrites a file, or restores one that was overwritten.  *)
Edit(t) ==
  /\ Foreign \in {content[t], content'[t]}
  /\ content' = [content EXCEPT ![t] = content'[t]]
  /\ UNCHANGED acked

Next ==
  \/ \E paths \in SUBSET Targets : Update(paths)
  \/ Return
  \/ \E t \in Targets : Edit(t)

Spec == Init /\ [][Next]_<<content, acked>>
=============================================================================
