--------------------------- MODULE DatasetRewrite ---------------------------
(***************************************************************************)
(* A rewrite of a dataset (writer.py), seen from its two sides: the rows    *)
(* that come into a shard (LanguageColumns), and the files that are put in  *)
(* place of the old ones (DatasetTransaction).  The transaction does not    *)
(* look into the files, and the rows are made before it begins, so that     *)
(* each side is followed by itself.                                         *)
(***************************************************************************)
EXTENDS DatasetTransaction, LanguageColumns

VARIABLE side   \* the one that is followed

rewriteVars == << vars, columnVars, side >>

(* The shard when it is the files that are followed.                        *)
AnyShard == << shard, config, selected >> = CHOOSE x \in Shards \X Configs \X Selections : TRUE

RewriteInit ==
  /\ side \in {"files", "rows"} /\ Init /\ ColumnsInit
  /\ side = "files" => AnyShard

Files == side = "files" /\ UNCHANGED << columnVars, side >>
Rows  == side = "rows" /\ UNCHANGED << vars, side >>

(* A run has ended, and the shard stays.                                    *)
Ended == phase \in {"done", "failed", "refused"} /\ UNCHANGED columnVars

RewriteNext ==
  \/ Files /\ Next
  \/ Rows /\ ColumnsNext
  \/ Rows /\ Ended

(* The fairness of DatasetTransaction, for its side.                        *)
RewriteSpec ==
  /\ RewriteInit /\ [][RewriteNext]_rewriteVars
  /\ WF_vars(Files /\ Acquire)
  /\ WF_vars(Files /\ Recovery)
  /\ WF_vars(Files /\ Rewrite)
  /\ SF_vars(Files /\ \E t \in Targets : RestoreByHand(t))
=============================================================================
