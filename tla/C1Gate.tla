------------------------------- MODULE C1Gate -------------------------------
(***************************************************************************)
(* The C1 gate of the generation study: gate_fingerprint.py, score_runs.py   *)
(* and c1_gate.py decide whether two tools agree while the new features are  *)
(* off, and record what the verdict is about.                                *)
(*                                                                           *)
(* A prediction of a job is [print, ok]: the provenance that run_arm.py      *)
(* stamped it with, and whether its episodes have spans. The statistics are  *)
(* a choice among the verdicts that the rows allow.                          *)
(***************************************************************************)
EXTENDS Integers, FiniteSets

CONSTANT None

(* DIFFERENT and INCONCLUSIVE both block.                                    *)
Verdicts == {"EQUIVALENT", "INCONCLUSIVE"}

(* score_runs.py: every saved prediction is scored, whichever invocation     *)
(* wrote it, and carries its provenance along.                               *)
ScoreRows(pred) ==
  {[job |-> j, ok |-> pred[j].ok, print |-> pred[j].print] :
     j \in {k \in DOMAIN pred : pred[k] # None}}

(* E1 is the repeats with a positive index of this pair of arms; the saved   *)
(* file also has the main sweep.                                             *)
E1Rows(rows, cell) == {r \in rows : r.job.of = cell /\ r.job.n > 0}

Usable(rows) == {r \in rows : r.ok}
Repeats(rows) == {r.job.n : r \in Usable(rows)}
RepeatsOf(rows, arm) == Repeats({r \in rows : r.job.arm = arm})

(* "no usable rows", "C1 needs at least two repeats": nothing is written.    *)
Undecided(rows) == Cardinality(Repeats(rows)) < 2

(* A row without a stamp is no problem.                                      *)
BugAbsentPasses(rows, source) == {r \in rows : r.print.source \notin {source, None}}

(* A verdict can only be about the source that is on disk now: rows of other *)
(* source, and rows that carry no stamp.                                     *)
SourceProblems(rows, source) == {r \in rows : r.print.source # source}

(* A job that failed loses all episodes of its component, more than the      *)
(* 5% of an arm that may be lost.                                            *)
AttritionBlocks(rows) == \E r \in rows : ~r.ok

(* The baseline's disagreement with itself is the margin, and there is a     *)
(* repeat in which both arms can be compared.                                *)
HasMargin(rows) ==
  /\ Cardinality(RepeatsOf(rows, "baseline")) > 1
  /\ RepeatsOf(rows, "baseline") \cap RepeatsOf(rows, "defaults") # {}

Statistical(rows) ==
  IF HasMargin(rows) /\ ~AttritionBlocks(rows) THEN Verdicts ELSE Verdicts \ {"EQUIVALENT"}

Gate(rows, verdict, source) ==
  IF verdict = "EQUIVALENT" /\ SourceProblems(rows, source) = {} THEN "PASS" ELSE "BLOCK"

(* compute: what the verdict is recorded to be about. The arms are hashed as *)
(* arms.yaml has them now, the source as it is on disk now.                  *)
Compute(source, flags, model, cell) ==
  [source |-> source, flags |-> flags, model |-> model, cell |-> cell]

(* diff: the keys in which a recorded fingerprint is not the current one.    *)
Diff(recorded, current) == {k \in DOMAIN current : recorded[k] # current[k]}
=============================================================================
