-------------------------- MODULE MCAlignmentStudy --------------------------
(* Values of the constants of AlignmentStudy for TLC. *)
EXTENDS AlignmentStudy

(* One task, two sources that both number their episodes from 0, and two     *)
(* segment counts.                                                           *)
Row(source, episode, count) ==
  [source |-> source, episode |-> episode, task |-> "t", count |-> count]
TwoSources == << Row("A", 0, 2), Row("A", 1, 3), Row("B", 0, 2), Row("B", 1, 2) >>

(* A seed of each cohort; what is left is one component of two episodes.     *)
OneAllocation == {{1, 2}}

TwoPorts == << "p1", "p2" >>
OneArm == << "cal" >>
PlainArm == [cal |-> "video"]
=============================================================================
