--------------------------- MODULE FrameSelection ---------------------------
(***************************************************************************)
(* Which moments of an episode a visual prompt shows: the samples and the   *)
(* windows of generation, the uniform grid of alignment, and the choice     *)
(* stratified by motion.  Times are in a unit in which the divisions of the *)
(* grids are exact.                                                         *)
(***************************************************************************)
EXTENDS Filtering, Integers, Sequences, SequencesExt

CONSTANTS
  Step,   \* time between two samples: 1 / frames_per_second
  None

(* Python's round(a / b): halves go to the even neighbour.                   *)
Round(a, b) ==
  LET q == a \div b
      up == 2 * (a % b) > b \/ (2 * (a % b) = b /\ q % 2 = 1)
  IN  IF up THEN q + 1 ELSE q

CeilDiv(a, b) == (a + b - 1) \div b

Whole(times) == [from |-> Head(times), to |-> Last(times)]
Length(window) == window.to - window.from

(* How many samples the rate asks for.                                      *)
Wanted(window) == Max({1, Round(Length(window), Step) + 1})

Grid(from, to, n) == [i \in 1 .. n |-> from + ((i - 1) * (to - from)) \div (n - 1)]

(* _uniform_episode_timestamps: every frame when there are enough samples.   *)
Uniform(times, n) ==
  IF n >= Len(times) THEN times
  ELSE IF n <= 1 THEN << Head(times) >> ELSE Grid(Head(times), Last(times), n)

(* _generation_sample_timestamps.                                           *)
Samples(times, window, budget, format) ==
  LET all == IF window = None THEN Whole(times) ELSE window
      n == Min({Wanted(all), budget})
  IN  IF window = None /\ format = "sheet" THEN Uniform(times, n)
      ELSE IF n > 1 /\ Length(all) > 0 THEN Grid(all.from, all.to, n)
      ELSE IF window = None THEN << Head(times) >>
      ELSE << (window.from + window.to) \div 2 >>

(* Sample intervals are counted like samples.                               *)
BugCapacity(budget) == budget

(* Intervals between the samples of one prompt.                             *)
Capacity(budget) == budget - 1

(* Full windows, and the last two share what is left.                       *)
FullWindows(times, budget) ==
  LET total == Max({1, Round(Length(Whole(times)), Step)})
      count == CeilDiv(total, Capacity(budget))
      full == Capacity(budget) * Step
      start == Head(times) + (count - 2) * full
      left == total - (count - 2) * Capacity(budget)
      middle == start + ((Last(times) - start) * (left \div 2)) \div left
      seam(k) == CASE k = count -> Last(times)
                   [] k = count - 1 /\ k > 0 -> middle
                   [] OTHER -> Head(times) + k * full
  IN  [k \in 1 .. count |-> [from |-> seam(k - 1), to |-> seam(k)]]

(* A prompt of one frame shows the middle of each window.                    *)
EvenWindows(times) ==
  LET count == CeilDiv(Length(Whole(times)), Step)
      seam(k) == Head(times) + (Length(Whole(times)) * k) \div count
  IN  [k \in 1 .. count |-> [from |-> seam(k - 1), to |-> seam(k)]]

(* _generation_windows, of an episode that lasts.                           *)
Windows(times, budget) == IF budget <= 1 THEN EvenWindows(times) ELSE FullWindows(times, budget)

-----------------------------------------------------------------------------
(* select_motion_stratified_timestamps: n of the frames, n < Len(times).  The *)
(* salience that ranks the frames of a stratum is left open.                 *)

Ends(times) == {Head(times), Last(times)}

(* Which of the others are nearer to the anchor than to its neighbours.      *)
Stratum(times, anchors, k) ==
  {t \in Range(times) \ {Head(times), Last(times)} :
     /\ 2 * t >= anchors[k - 1] + anchors[k]
     /\ \/ 2 * t < anchors[k] + anchors[k + 1]
        \/ k = Len(anchors) - 1 /\ 2 * t = anchors[k] + anchors[k + 1]}

Distance(s, t) == IF s < t THEN t - s ELSE s - t

(* For a stratum without frames, a frame that is nearest to its anchor.      *)
Nearest(free, anchor) ==
  {t \in free : \A s \in free : Distance(t, anchor) <= Distance(s, anchor)}

(* Selections with one more frame each.                                      *)
OneMore(selections, frames) == {s \cup {t} : s \in selections, t \in frames}

(* The selections: one frame of each stratum, the empty ones last.           *)
Chosen(times, n) ==
  LET anchors == Grid(Head(times), Last(times), n)
      strata == [k \in 2 .. n - 1 |-> Stratum(times, anchors, k)]
      nearest(k, s) == Nearest(Range(times) \ (s \cup Ends(times)), anchors[k])
      ranked[k \in 1 .. n - 1] ==
        IF k = 1 THEN {Ends(times)}
        ELSE IF strata[k] = {} THEN ranked[k - 1]
        ELSE OneMore(ranked[k - 1], strata[k])
      filled[k \in 1 .. n - 1] ==
        IF k = 1 THEN ranked[n - 1]
        ELSE IF strata[k] # {} THEN filled[k - 1]
        ELSE UNION {OneMore({s}, nearest(k, s)) : s \in filled[k - 1]}
  IN  filled[n - 1]

Stratified(times, n) == {Only(times, s) : s \in Chosen(times, n)}

(* _align_sample_timestamps, with each outcome of reading the motion.        *)
Timelines(times, n, motion) ==
  {Uniform(times, n)} \cup
  IF motion /\ n >= 2 THEN (IF n >= Len(times) THEN {times} ELSE Stratified(times, n)) ELSE {}
=============================================================================
