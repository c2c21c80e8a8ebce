---------------------------- MODULE SubtaskSpans ----------------------------
(***************************************************************************)
(* The subtask spans of one episode, from the answer of the model (or the  *)
(* recorded annotation) to the cover that the plan module stages: parsing, *)
(* calibration, ordering, coverage, cleaning, frame snapping, stitching,   *)
(* and the realignment of generated labels.  Time is counted in ticks.     *)
(***************************************************************************)
EXTENDS BoundarySolver

CONSTANTS
  Frames,      \* timestamps of the frames of the episode
  Times,       \* timestamps an answer or a recorded annotation may hold
  MaxSpans,    \* bound on supplied labels and on raw spans
  Origins,     \* where spans come from: see Init
  Realign,     \* subtask_realign_generated
  MinFraction, \* subtask_align_min_fraction, in percent
  Scope,       \* what the calibration applies to; "none" if there is none
  Fitted,      \* number of labels it was fitted to
  Offsets,     \* shift of the start of each label, in ticks
  Lengths      \* expected length of each label, or empty

ASSUME SpansAssumption ==
  /\ Frames \subseteq Int /\ IsFiniteSet(Frames) /\ Frames # {}
  /\ Times \subseteq Int
  /\ MaxSpans \in Nat
  /\ Origins \subseteq {"given", "import", "auto", "generate"}
  /\ Realign \in BOOLEAN
  /\ MinFraction \in 0 .. 100
  /\ Scope \in {"none", "exact", "count", "legacy"}
  /\ Fitted \in Nat
  /\ Offsets \in [DOMAIN Offsets -> Int]
  /\ Lengths \in [DOMAIN Lengths -> Nat]

VARIABLES
  pc,
  origin,     \* origin of the spans of this episode
  n,          \* number of labels the aligner was given
  placed,     \* start and end of each label the answer placed
  next,       \* the first label whose order is not yet checked
  spans,      \* the spans found so far
  todo,       \* those that have no frame yet
  taken,      \* those that have one
  cover,      \* the generated cover while it is being realigned
  published

vars == <<pc, origin, n, placed, next, spans, todo, taken, cover, published>>

First  == Min(Frames)
Last   == Max(Frames)
Labels == 0 .. n - 1

Realigning == cover # {}

Clamp(t) == Max({First, Min({t, Last})})

(* snap_to_frame: of two frames equally near, the earlier one.             *)
Snap(t) == Min({f \in Frames : \A g \in Frames : Abs(f - t) <= Abs(g - t)})

Init ==
  /\ origin \in Origins
  /\ pc = IF origin = "given" THEN "given" ELSE "raw"
  /\ n = 0 /\ next = 0
  /\ placed = << >>
  /\ spans = {} /\ todo = {} /\ taken = {} /\ cover = {} /\ published = {}

-----------------------------------------------------------------------------
(* Where labels and raw spans come from. *)

GiveLabels ==
  /\ pc = "given" /\ pc' = "reply"
  /\ n' \in 1 .. MaxSpans
  /\ UNCHANGED <<origin, placed, next, spans, todo, taken, cover, published>>

(* One more span from the model, or from a recorded annotation, in any     *)
(* order; windows add theirs one after the other.                          *)
RawSpan(start, end) ==
  /\ pc = "raw" /\ Cardinality(spans) < MaxSpans
  /\ spans' = spans \cup {[label |-> Cardinality(spans), start |-> start, end |-> end]}
  /\ UNCHANGED <<pc, origin, n, placed, next, todo, taken, cover, published>>

(* An empty import falls through to the model only under "auto".           *)
EndRaw ==
  /\ pc = "raw"
  /\ pc' = CASE spans # {} -> "clean"
             [] spans = {} /\ origin = "auto" -> "raw"
             [] OTHER -> "done"
  /\ origin' = IF spans = {} /\ origin = "auto" THEN "generate" ELSE origin
  /\ UNCHANGED <<n, placed, next, spans, todo, taken, cover, published>>

(* No labels for the episode, no complete camera view, a failing call, or  *)
(* a malformed annotation or answer: the episode fails.                    *)
Raise ==
  /\ pc \in {"given", "raw", "reply"} /\ pc' = "aborted"
  /\ UNCHANGED <<origin, n, placed, next, spans, todo, taken, cover, published>>

(* The seeded relabelling of the generated cover changes texts only, but   *)
(* fails if the model gives no label.                                      *)
RelabelFails ==
  /\ pc = "stitched" /\ origin = "generate" /\ ~Realigning
  /\ pc' = "aborted"
  /\ UNCHANGED <<origin, n, placed, next, spans, todo, taken, cover, published>>

-----------------------------------------------------------------------------
(* The answer of the aligner. *)

(* _parse_align_spans: the first entry for a label wins, entries for other *)
(* labels are skipped, and an interval may be given backwards.             *)
Entry(i, start, end) ==
  /\ pc = "reply" /\ i \in Labels \ DOMAIN placed
  /\ placed' = [j \in DOMAIN placed \cup {i} |->
                  IF j = i THEN [start |-> Min({start, end}), end |-> Max({start, end})]
                  ELSE placed[j]]
  /\ UNCHANGED <<pc, origin, n, next, spans, todo, taken, cover, published>>

EndReply ==
  /\ pc = "reply" /\ pc' = "calibrate"
  /\ UNCHANGED <<origin, n, placed, next, spans, todo, taken, cover, published>>

(* The frames yield no image block: no spans, whatever the threshold.      *)
NoBlocks ==
  /\ pc = "reply" /\ placed = << >>
  /\ pc' = IF Realigning THEN "kept" ELSE "done"
  /\ published' = cover
  /\ UNCHANGED <<origin, n, placed, next, spans, todo, taken, cover>>

-----------------------------------------------------------------------------
(* Calibration. *)

(* An exact calibration applies if the label texts are the same too, which *)
(* the model leaves open; the others apply to supplied labels only.        *)
MustApply ==
  /\ ~Realigning /\ placed # << >> /\ First < Last
  /\ Scope = "legacy" \/ (Scope = "count" /\ n = Fitted)
MayApply ==
  \/ MustApply
  \/ Scope = "exact" /\ n = Fitted /\ placed # << >> /\ First < Last

Offset(i) == IF i \in DOMAIN Offsets THEN Offsets[i] ELSE 0

Uncalibrated ==
  /\ pc = "calibrate" /\ ~MustApply
  /\ pc' = "order"
  /\ UNCHANGED <<origin, n, placed, next, spans, todo, taken, cover, published>>

(* The solver needs the expected lengths, every label and two grid points. *)
Solvable ==
  /\ MayApply
  /\ n >= 2 /\ DOMAIN Lengths = Labels /\ DOMAIN placed = Labels
  /\ Cardinality(Grid(First, Last)) >= 2

(* The reported starts without their usual error.                          *)
Aim == [i \in 1 .. n - 1 |-> Clamp(placed[i].start - Offset(i))]

Solve ==
  /\ pc = "calibrate" /\ Solvable
  /\ \E b \in Solutions(First, Last, Aim, Lengths) :
       placed' = [i \in Labels |->
                    [start |-> IF i = 0 THEN First ELSE b[i],
                     end |-> IF i = n - 1 THEN Last ELSE b[i + 1]]]
  /\ pc' = "order"
  /\ UNCHANGED <<origin, n, next, spans, todo, taken, cover, published>>

(* The shifted start of a label, no end before its start, and the end of   *)
(* the label before a shifted one at that label's start.                   *)
Shifted(i) ==
  LET shifted(j) == j \in DOMAIN placed /\ j > 0 /\ Offset(j) # 0
      start(j)   == IF shifted(j) THEN Clamp(placed[j].start - Offset(j)) ELSE placed[j].start
  IN  [start |-> start(i),
       end |-> CASE shifted(i + 1) -> Max({start(i), start(i + 1)})
                 [] ~shifted(i + 1) /\ shifted(i) -> Max({start(i), placed[i].end})
                 [] OTHER -> placed[i].end]

Shift ==
  /\ pc = "calibrate" /\ MayApply /\ ~Solvable
  /\ placed' = [i \in DOMAIN placed |-> Shifted(i)]
  /\ pc' = "order"
  /\ UNCHANGED <<origin, n, next, spans, todo, taken, cover, published>>

-----------------------------------------------------------------------------
(* Order and coverage of the labels. *)

InOrder(i) == i \in DOMAIN placed /\ \A s \in spans : s.start < placed[i].start

(* _align_spans_in_order: a label that was not placed, or not after the    *)
(* last one kept, is dropped.                                              *)
OrderNext ==
  /\ pc = "order" /\ next < n
  /\ next' = next + 1
  /\ spans' = IF InOrder(next)
              THEN spans \cup {[label |-> next, start |-> placed[next].start,
                                end |-> placed[next].end]}
              ELSE spans
  /\ UNCHANGED <<pc, origin, n, placed, todo, taken, cover, published>>

(* A failed refinement keeps the generated cover.                          *)
Keep == pc' = "kept" /\ published' = cover

(* _check_align_coverage fails the episode below the threshold; without a  *)
(* threshold no span at all is an empty result.                            *)
CheckCoverage ==
  /\ pc = "order" /\ next = n
  /\ \/ Cardinality(spans) * 100 < MinFraction * n
        /\ IF Realigning THEN Keep ELSE pc' = "aborted" /\ UNCHANGED published
     \/ Cardinality(spans) * 100 >= MinFraction * n
        /\ IF spans # {} THEN pc' = "clean" /\ UNCHANGED published
           ELSE IF Realigning THEN Keep
           ELSE pc' = "done" /\ UNCHANGED published
  /\ UNCHANGED <<origin, n, placed, next, spans, todo, taken, cover>>

-----------------------------------------------------------------------------
(* From spans to a cover. *)

(* _clean_spans: clamped into the episode, forwards.                       *)
Clean ==
  /\ pc = "clean" /\ pc' = "snap"
  /\ spans' = {[s EXCEPT !.start = Min({Clamp(s.start), Clamp(s.end)}),
                         !.end = Max({Clamp(s.start), Clamp(s.end)})] : s \in spans}
  /\ todo' = spans'
  /\ UNCHANGED <<origin, n, placed, next, taken, cover, published>>

(* Spans are snapped in the order of their starts, equal starts in the     *)
(* order of the list.                                                      *)
Before(r, s) == r.start < s.start \/ (r.start = s.start /\ r.label <= s.label)

TakenFrames == {r.start : r \in taken}

(* A span may share its frame.                                             *)
BugShareFrame(t) == {Snap(t)}

(* The frames a span that starts at t may have.                            *)
FreeFrames(t) ==
  IF Snap(t) \notin TakenFrames THEN {Snap(t)}
  ELSE {f \in Frames : f > Snap(t)} \ TakenFrames

(* _dedupe_starts_to_distinct_frames: the first of them, if there is one.  *)
SnapNext ==
  /\ pc = "snap"
  /\ \E s \in todo :
       /\ \A r \in todo : Before(s, r)
       /\ todo' = todo \ {s}
       /\ taken' = IF FreeFrames(s.start) = {} THEN taken
                   ELSE LET frame == Min(FreeFrames(s.start))
                        IN  taken \cup {[s EXCEPT !.start = frame,
                                                  !.end = Max({frame, s.end})]}
  /\ UNCHANGED <<pc, origin, n, placed, next, spans, cover, published>>

(* _stitch_full_coverage: the first span starts with the episode, every    *)
(* span ends where the next one starts, the last one with the episode.     *)
Stitch ==
  /\ pc = "snap" /\ todo = {}
  /\ pc' = "stitched"
  /\ published' =
       {[s EXCEPT !.start = IF \A r \in taken : s.start <= r.start THEN First ELSE s.start,
                  !.end = LET later == {r.start : r \in {r \in taken : r.start > s.start}}
                          IN  IF later = {} THEN Last ELSE Min(later)] : s \in taken}
  /\ UNCHANGED <<origin, n, placed, next, spans, todo, taken, cover>>

-----------------------------------------------------------------------------
(* _subtask_spans and _realign_generated_subtasks. *)

(* Generated labels are timed again, as one list in order of their starts. *)
StartRealign ==
  /\ pc = "stitched" /\ origin = "generate" /\ Realign /\ ~Realigning
  /\ pc' = "reply"
  /\ cover' = published /\ n' = Cardinality(published)
  /\ spans' = {} /\ taken' = {}
  /\ UNCHANGED <<origin, placed, next, todo, published>>

(* The realigned spans have the labels of the list, each in its place.     *)
SameLabels ==
  /\ {s.label : s \in published} = Labels
  /\ \A r, s \in published : r.start < s.start => r.label < s.label

Finish ==
  /\ pc = "stitched"
  /\ \/ ~Realigning /\ ~(origin = "generate" /\ Realign)
        /\ pc' = "done" /\ UNCHANGED published
     \/ Realigning /\ SameLabels /\ pc' = "done" /\ UNCHANGED published
     \/ Realigning /\ ~SameLabels /\ Keep
  /\ UNCHANGED <<origin, n, placed, next, spans, todo, taken, cover>>

Next ==
  \/ GiveLabels \/ EndRaw \/ Raise \/ RelabelFails
  \/ \E start, end \in Times : RawSpan(start, end)
  \/ \E i \in 0 .. MaxSpans - 1, start, end \in Times : Entry(i, start, end)
  \/ EndReply \/ NoBlocks
  \/ Uncalibrated \/ Solve \/ Shift
  \/ OrderNext \/ CheckCoverage
  \/ Clean \/ SnapNext \/ Stitch
  \/ StartRealign \/ Finish

Spec == Init /\ [][Next]_vars

-----------------------------------------------------------------------------
Spans == [label : Nat, start : Int, end : Int]

(* Every variable holds what the code keeps there; the loop over the       *)
(* labels stays within the list.                                           *)
TypeOK ==
  /\ pc \in {"given", "raw", "reply", "calibrate", "order", "clean", "snap", "stitched",
             "done", "kept", "aborted"}
  /\ origin \in Origins \cup {"generate"}
  /\ n \in 0 .. MaxSpans /\ next \in 0 .. n
  /\ DOMAIN placed \subseteq Labels
  /\ \A i \in DOMAIN placed : placed[i] \in [start : Int, end : Int]
  /\ spans \subseteq Spans /\ todo \subseteq Spans /\ taken \subseteq Spans
  /\ cover \subseteq Spans /\ published \subseteq Spans

(* "The supplied list is the authority on ordering": from the check of the *)
(* order on, through clamping, sorting and moving to free frames, labels   *)
(* of an aligned list are in its order.                                    *)
Aligned == origin = "given" \/ Realigning

OrderKept ==
  Aligned =>
    /\ \A r, s \in taken : r.label < s.label => r.start < s.start
    /\ \A r \in taken, s \in todo : r.label < s.label

(* "Every frame has exactly one active subtask": the spans of any origin   *)
(* start on frames of their own, the first one with the episode, and each  *)
(* ends where the next one starts.                                         *)
ActiveAt(f) ==
  {s \in published : s.start <= f /\ \A r \in published : r.start <= f => r.start <= s.start}

Tiled ==
  pc \in {"stitched", "done", "kept"} /\ published # {} =>
    /\ \A f \in Frames : Cardinality(ActiveAt(f)) = 1
    /\ \A s \in published :
         /\ s.start \in Frames
         /\ s.end = Last \/ \E r \in published : r.start = s.end /\ s.start < s.end

(* "Both subtasks survive on distinct timestamps": a cleaned span moves    *)
(* only over taken frames, and is lost only if none is free to the end.    *)
BumpedMinimally ==
  pc = "snap" =>
    \A s \in spans \ todo :
      LET blocked == {f \in Frames : f >= Snap(s.start)}
      IN  IF \E r \in taken : r.label = s.label
          THEN \A r \in taken : r.label = s.label =>
                 r.start \in blocked /\ {f \in blocked : f < r.start} \subseteq TakenFrames
          ELSE blocked \subseteq TakenFrames

(* Calibration keeps every end at or after its start, so that cleaning     *)
(* never swaps them: a swap would move the boundary of an aligned label.   *)
NeverSwapped == pc = "clean" /\ Aligned => \A s \in spans : s.start <= s.end

(* The boundaries the solver returns are as good as any in order on the    *)
(* grid, for the answer's fit and all expected lengths together.           *)
Total(b) ==
  LET upTo[i \in 1 .. n - 1] ==
        Fit(Aim[i], b[i]) + Gap(Lengths[i - 1], IF i = 1 THEN First ELSE b[i - 1], b[i])
        + (IF i = 1 THEN 0 ELSE upTo[i - 1])
  IN  upTo[n - 1] + Gap(Lengths[n - 1], b[n - 1], Last)

SolverOptimal ==
  [][Solve =>
       LET solved == [i \in 1 .. n - 1 |-> placed'[i].start]
       IN  \A b \in [1 .. n - 1 -> Grid(First, Last)] :
             (\A i \in 2 .. n - 1 : b[i - 1] <= b[i]) => Total(solved) <= Total(b)]_vars

(* Realignment loses no generated subtask: what is published has as many   *)
(* as were generated, in the same order if they were timed again.          *)
RealignLosesNothing ==
  pc \in {"done", "kept"} /\ Realigning =>
    /\ Cardinality(published) = Cardinality(cover)
    /\ pc = "done" =>
         \A s \in published : s.label = Cardinality({r \in published : r.start < s.start})

(* Whatever the answer: labels stay in the order of the list, none has its *)
(* boundary moved by a swap, and a realignment costs none                  *)
(* (plan_subtasks_memory.py 1478-1535, 2397-2531).                         *)
LabelsKept == TypeOK /\ OrderKept /\ NeverSwapped /\ RealignLosesNothing

(* The spans tile the episode, and a label is given up only if there is no *)
(* frame left for it (plan_subtasks_memory.py 2440-2598).                  *)
EpisodeTiled == Tiled /\ BumpedMinimally

(* From any answer to the staged spans: the labels that are left are in      *)
(* order, none was lost without need, and they tile the episode.            *)
SpansKept == LabelsKept /\ EpisodeTiled
=============================================================================
