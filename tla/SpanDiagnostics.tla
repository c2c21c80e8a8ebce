-------------------------- MODULE SpanDiagnostics ---------------------------
(***************************************************************************)
(* The spans of an episode together with the tools that judge them: the    *)
(* calibration tool on the answers of the aligner, and the scorer on the   *)
(* published spans of supplied labels.                                     *)
(***************************************************************************)
EXTENDS SubtaskSpans, Sequences

CONSTANTS
  Texts,           \* text of each supplied label, which may repeat
  MinFit, MaxFit, MinFirst, MinGain, Parts,  \* see CalibrationTrial
  Ambiguous        \* see AlignmentScore

ASSUME DiagnosticsAssumption ==
  /\ Texts \in Seq({Texts[i] : i \in DOMAIN Texts}) /\ Len(Texts) = MaxSpans
  /\ Ambiguous \in {"fail", "text"}
  /\ MinFit \in Nat \ {0} /\ MaxFit \in Nat /\ MinFit <= MaxFit
  /\ MinFirst \in Int /\ MinGain \in Int
  /\ Parts \in Nat \ {0} /\ \A u \in 1 .. Last - First : Parts % u = 0

Trial   == INSTANCE CalibrationTrial
Scoring == INSTANCE AlignmentScore

(* The cover with these starts.                                            *)
CoverFrom(starts) ==
  [k \in DOMAIN starts |->
     [label |-> k - 1, start |-> starts[k],
      end |-> IF k = Len(starts) THEN Last ELSE starts[k + 1]]]

(* The covers of the episode with k labels, as an annotator may give them. *)
Covers(k) ==
  {CoverFrom(s) : s \in {s \in [1 .. k -> Frames \ {Last}] :
                          s[1] = First /\ \A j \in 1 .. k - 1 : s[j] < s[j + 1]}}

(* The answer places every label on a frame, in order, the first one at    *)
(* the start: without a calibration it is published as it is.              *)
AsAnswered ==
  CoverFrom([k \in 1 .. n |-> IF k = 1 THEN First ELSE placed[k - 1].start])

WellPlaced ==
  /\ n >= 2 /\ DOMAIN placed = Labels
  /\ placed[0].start = First /\ AsAnswered \in Covers(n)

(* Files of attempts: at two episodes that are answered like this one, and *)
(* at a third one, which is answered well or also like this one.           *)
Row(e, config, answer) == [episode |-> e, config |-> config, spans |-> answer]

Files(odd) ==
  LET rows == {Row(1, 1, AsAnswered), Row(1, 1, << >>), Row(2, 1, AsAnswered),
               Row(3, 1, odd), Row(3, 1, AsAnswered), Row(3, 1, << >>), Row(2, 2, AsAnswered)}
  IN  [1 .. 4 -> rows]

(* Episodes of the file that were ever answered, and how they were, last.  *)
Answered(file) == {file[k].episode : k \in {k \in DOMAIN file : file[k].spans # << >>}}
LastAnswer(file, e) ==
  file[Max({k \in DOMAIN file : file[k].episode = e /\ file[k].spans # << >>})].spans

(* Files of one configuration: what the tool makes of them, and what was   *)
(* answered.                                                               *)
Attempts(odd) ==
  {[rows |-> Trial!Loaded(f), answers |-> [e \in Answered(f) |-> LastAnswer(f, e)]] :
     f \in {f \in Files(odd) : ~Trial!Mixed(f)}}

(* The episodes that err like this one are more than those that do not.     *)
Like(answers, truth, odd) ==
  {e \in DOMAIN answers : answers[e] = AsAnswered /\ (e = 3 => odd = truth)}
Majority(answers, truth, odd) ==
  2 * Cardinality(Like(answers, truth, odd)) > Cardinality(DOMAIN answers)

(* What was gained by taking the error out of each answer.                 *)
FullGain(truth) ==
  LET laid(whole) == {whole[k] : k \in DOMAIN whole}
  IN  Trial!Covered(laid(truth), truth) - Trial!Covered(laid(AsAnswered), truth)

(* What may come of a file of answers, most or all of which err like this   *)
(* one.                                                                    *)
Recovers(models, alike, truth, forced) ==
  /\ \A model \in models \ {Trial!NoModel} :
       /\ Trial!Accepted(model)
       /\ Trial!Trials(AsAnswered, model) = {{truth[k] : k \in DOMAIN truth}}
       /\ forced \/ AsAnswered # truth
  /\ forced => Trial!NoModel \notin models
  /\ Trial!NoModel \in models /\ alike =>
       \/ Trial!Abs(AsAnswered[2].start - truth[2].start) < MinFirst
       \/ 100 * FullGain(truth) < MinGain * Parts * n

(* A calibration takes the usual error out of an answer: fitted to         *)
(* episodes most of which err like this one, whatever attempts of theirs   *)
(* failed, were repeated or came late, it is accepted by the plan module,  *)
(* and with it the answer comes out as the annotator has it, if it is      *)
(* written at all.  It is if that is forced, and never to correct answers  *)
(* that are right.  Where all err alike, the trial on episodes left out    *)
(* sees the whole gain, so it is refused only for an error or a gain below *)
(* the threshold.  Answers of two configurations are never fitted together. *)
FitRecovers ==
  pc = "calibrate" /\ WellPlaced /\ ~Realigning =>
    \A odd \in Covers(n) \cup Covers(n - 1) :
      /\ \A file \in Files(odd) :
           Trial!Mixed(file) =>
             Trial!Calibrations(file, <<odd, odd, odd>>, FALSE, TRUE) = {Trial!NoModel}
      /\ LET attempts == Attempts(odd)
         IN  \A try \in attempts, truth \in Covers(n), prior, forced \in BOOLEAN :
               Majority(try.answers, truth, odd) =>
                 Recovers(Trial!Fits(try.rows, <<truth, truth, odd>>, prior, forced),
                          Like(try.answers, truth, odd) = DOMAIN try.answers, truth, forced)

-----------------------------------------------------------------------------
(* The published spans in the order of their labels, with an index or not. *)
InLabelOrder(labels) ==
  [k \in 1 .. Cardinality(labels) |->
     CHOOSE s \in published : s.label \in labels
       /\ Cardinality({i \in labels : i <= s.label}) = k]

Predicted(labels, indexed) ==
  [k \in 1 .. Cardinality(labels) |->
     LET s == InLabelOrder(labels)[k]
     IN  [text |-> Texts[s.label + 1], index |-> IF indexed THEN s.label + 1 ELSE -1,
          start |-> s.start, end |-> s.end]]

(* The score is not mistaken about a repeated label, and nothing is gained *)
(* by leaving a label out: where the texts of the published spans allow    *)
(* one reading, it is the true one, and without any one of the spans no    *)
(* part of the score is better.                                            *)
ScoreHonest ==
  pc = "done" /\ origin = "given" /\ published # {} =>
    LET labels  == SubSeq(Texts, 1, n)
        all     == {s.label : s \in published}
        indexed == Predicted(all, TRUE)
        plain   == Predicted(all, FALSE)
    IN  \A truth \in Covers(n) :
          LET score == Scoring!Score(labels, truth, indexed)
          IN  /\ Scoring!Resolvable(labels, indexed) /\ Scoring!Resolvable(labels, plain)
              /\ Scoring!Scorable(labels, truth, plain) => Scoring!Score(labels, truth, plain) = score
              /\ \A i \in all :
                   Scoring!NoBetter(Scoring!Score(labels, truth, Predicted(all \ {i}, TRUE)), score)

(* The two tools that a study relies on: the fit takes out the error it was  *)
(* made of, and the score cannot be raised by leaving boundaries out.       *)
ToolsHonest == FitRecovers /\ ScoreHonest
=============================================================================
