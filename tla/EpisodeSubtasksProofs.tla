----------------------- MODULE EpisodeSubtasksProofs ------------------------
(***************************************************************************)
(* From any answer to the staged spans, for any frames, times, calibration, *)
(* thresholds and number of labels: labels that are left are in the order   *)
(* of the list, none was given up without need, a realignment loses none,   *)
(* and the spans tile the episode.  The boundaries of the solver are the    *)
(* cheapest.  Then the requests: each keeps to the medium the configuration *)
(* allows and to the frame budget, tells the truth about times, and no part *)
(* of an episode is left out.  Last, the score of published spans: it is    *)
(* never wrong about a label that occurs twice, and no part of it is better *)
(* for a span that is missing.                                              *)
(***************************************************************************)
EXTENDS EpisodeSubtasks, FiniteSetTheorems, WellFoundedInduction, TLAPS

-----------------------------------------------------------------------------
(* The inductive invariant.                                                 *)

(* Spans have labels of their own.                                          *)
Numbered(S) ==
  /\ S \subseteq Spans
  /\ \A s \in S : s.label < MaxSpans
  /\ \A r, s \in S : r.label = s.label => r = s

(* A cover of the episode.                                                  *)
Tiles(S) ==
  /\ \E s \in S : s.start = First
  /\ \A s \in S : s.start \in Frames
  /\ \A r, s \in S : r.start = s.start => r = s
  /\ \A s \in S : s.end = Last \/ \E r \in S : r.start = s.end /\ s.start < s.end

ShapeInv ==
  /\ pc \in {"given", "raw", "reply", "calibrate", "order", "clean", "snap", "stitched",
             "done", "kept", "aborted"}
  /\ origin \in Origins \cup {"generate"}
  /\ n \in 0 .. MaxSpans /\ next \in 0 .. n
  /\ DOMAIN placed \subseteq Labels
  /\ \A i \in DOMAIN placed : placed[i] \in [start : Int, end : Int]
  /\ \A S \in {spans, todo, taken, cover, published} : Numbered(S)

(* Which sets are in use, and of what list the labels are.                  *)
UseInv ==
  /\ ~Aligned => n = 0
  /\ pc = "given" => n = 0 /\ spans = {} /\ origin = "given"
  /\ pc = "raw" => ~Aligned
  /\ pc \in {"given", "raw"} => cover = {}
  /\ pc \in {"reply", "calibrate", "order"} => Aligned
  /\ pc \in {"reply", "calibrate"} => spans = {}
  /\ pc \in {"clean", "snap"} => spans # {}
  /\ pc \in {"given", "raw", "reply", "calibrate", "order", "clean"} => taken = {}
  /\ pc \in {"given", "raw", "reply", "calibrate", "order", "clean", "snap"}
       => published = cover
  /\ pc # "snap" => todo = {}
  /\ Realigning => n = Cardinality(cover) /\ Tiles(cover)

(* No interval is backwards, and labels of a list are in its order.         *)
Forwards(S) == \A s \in S : s.start <= s.end
InList(S) == \A r, s \in S : r.label < s.label => r.start < s.start

AnswerInv ==
  /\ pc = "raw" => \A s \in spans : s.label < Cardinality(spans)
  /\ pc \in {"reply", "calibrate", "order"} =>
       \A i \in DOMAIN placed : placed[i].start <= placed[i].end
  /\ pc = "order" => \A s \in spans : s.label < next
  /\ pc \in {"order", "clean"} /\ Aligned => Forwards(spans) /\ InList(spans)

(* Of the spans in the order of their starts the first have their frames.   *)
TakenInv ==
  /\ \A r \in taken : r.start \in Frames
  /\ \A r, s \in taken : r.start = s.start => r = s
  /\ Aligned => InList(taken)
  /\ pc \in {"snap", "stitched"} => taken # {} \/ todo # {}

(* Every frame between the one a span is nearest to and one that is taken   *)
(* is taken too, so that the next span gets a frame behind all others.      *)
Packed ==
  \A r \in taken, s \in todo, f \in Frames :
    Snap(s.start) <= f /\ f < r.start => f \in TakenFrames

SnapInv ==
  pc = "snap" =>
    /\ todo \subseteq spans
    /\ Aligned => \A r, s \in spans : r.label < s.label => r.start <= s.start
    /\ \A s \in spans \ todo, t \in todo : Before(s, t)
    /\ \A r \in taken : \E s \in spans \ todo : r.label = s.label
    /\ Packed

(* The frames from that of a span to the one it was given are taken, or all *)
(* to the end if it was given none.                                         *)
Justified(s) ==
  /\ \A r \in taken : r.label = s.label =>
       /\ r.start \in Frames /\ Snap(s.start) <= r.start
       /\ \A f \in Frames : Snap(s.start) <= f /\ f < r.start => f \in TakenFrames
  /\ (\A r \in taken : r.label # s.label) =>
       \A f \in Frames : Snap(s.start) <= f => f \in TakenFrames

JustifiedInv == pc = "snap" => \A s \in spans \ todo : Justified(s)

CoverInv ==
  /\ pc = "stitched" => published # {}
  /\ pc \in {"stitched", "done", "kept"} /\ published # {} => Tiles(published)

SpansInv ==
  /\ ShapeInv /\ UseInv /\ AnswerInv /\ TakenInv /\ SnapInv /\ CoverInv
  /\ JustifiedInv /\ RealignLosesNothing

-----------------------------------------------------------------------------
(* Least and greatest elements.                                             *)

LEMMA Extremes ==
  ASSUME NEW S \in SUBSET Int, IsFiniteSet(S), S # {}
  PROVE  /\ Min(S) \in S /\ \A x \in S : Min(S) <= x
         /\ Max(S) \in S /\ \A x \in S : x <= Max(S)
<1> DEFINE Bounded(T) == (\E m \in T : \A x \in T : m <= x) /\ (\E m \in T : \A x \in T : m >= x)
           R == {T \in SUBSET S : T # {} /\ ~Bounded(T)}
<1>1. R \subseteq FiniteSubsetsOf(S)
  BY FS_Subset DEF FiniteSubsetsOf
<1>2. ASSUME R # {} PROVE FALSE
  <2>1. PICK T \in R : \A U \in R : << U, T >> \notin StrictSubsetOrdering(S)
    <3> HIDE DEF R
    <3>1. QED
      BY <1>1, <1>2, FS_StrictSubsetOrderingWellFounded, WFMin
  <2>2. PICK x \in T : TRUE
    OBVIOUS
  <2>3. T \ {x} \notin R
    BY <2>1, <2>2 DEF StrictSubsetOrdering
  <2>4. T \subseteq Int /\ x \in Int
    BY <2>2
  <2>5. CASE T \ {x} = {}
    <3>1. \A y \in T : y = x
      BY <2>5
    <3>2. Bounded(T)
      BY <2>2, <2>4, <3>1
    <3>3. QED
      BY <3>2
  <2>6. CASE T \ {x} # {}
    <3>1. Bounded(T \ {x})
      BY <2>3, <2>6
    <3>2. PICK l \in T \ {x} : \A y \in T \ {x} : l <= y
      BY <3>1
    <3>3. PICK g \in T \ {x} : \A y \in T \ {x} : g >= y
      BY <3>1
    <3>4. \E m \in T : \A y \in T : m <= y
      <4>1. CASE l <= x
        BY <3>2, <2>4, <4>1
      <4>2. CASE x <= l
        BY <3>2, <2>2, <2>4, <4>2
      <4>3. QED
        BY <4>1, <4>2, <2>4
    <3>5. \E m \in T : \A y \in T : m >= y
      <4>1. CASE x <= g
        BY <3>3, <2>4, <4>1
      <4>2. CASE g <= x
        BY <3>3, <2>2, <2>4, <4>2
      <4>3. QED
        BY <4>1, <4>2, <2>4
    <3>6. QED
      BY <3>4, <3>5
  <2>7. QED
    BY <2>5, <2>6
<1>3. Bounded(S)
  BY <1>2
<1>4. Min(S) \in S /\ \A x \in S : Min(S) <= x
  BY <1>3 DEF Min
<1>5. Max(S) \in S /\ \A x \in S : Max(S) >= x
  BY <1>3 DEF Max
<1>6. QED
  BY <1>4, <1>5

LEMMA OfTwo ==
  ASSUME NEW a \in Int, NEW b \in Int
  PROVE  /\ Min({a, b}) = IF a <= b THEN a ELSE b
         /\ Max({a, b}) = IF a <= b THEN b ELSE a
<1>1. {a, b} \in SUBSET Int /\ IsFiniteSet({a, b}) /\ {a, b} # {}
  <2>1. IsFiniteSet({a} \cup {b}) /\ {a, b} = {a} \cup {b}
    BY FS_Singleton, FS_AddElement
  <2>2. QED
    BY <2>1
<1> DEFINE l == Min({a, b})  g == Max({a, b})
<1>2. l \in {a, b} /\ l <= a /\ l <= b /\ g \in {a, b} /\ a <= g /\ b <= g
  BY <1>1, Extremes
<1>3. QED
  BY <1>2

LEMMA Episode ==
  /\ First \in Frames /\ Last \in Frames /\ First \in Int /\ Last \in Int /\ First <= Last
  /\ \A f \in Frames : f \in Int /\ First <= f /\ f <= Last
<1>1. Frames \in SUBSET Int /\ IsFiniteSet(Frames) /\ Frames # {}
  BY SpansAssumption
<1>2. /\ First \in Frames /\ \A x \in Frames : First <= x
      /\ Last \in Frames /\ \A x \in Frames : x <= Last
  BY <1>1, Extremes DEF First, Last
<1>3. QED
  BY <1>1, <1>2

LEMMA Clamped ==
  ASSUME NEW t \in Int
  PROVE  /\ Clamp(t) \in Int /\ First <= Clamp(t) /\ Clamp(t) <= Last
         /\ Clamp(t) = IF t <= First THEN First ELSE IF t <= Last THEN t ELSE Last
<1>1. Min({t, Last}) = IF t <= Last THEN t ELSE Last
  BY OfTwo, Episode
<1>2. Min({t, Last}) \in Int
  BY <1>1, Episode
<1>3. Clamp(t) = IF First <= Min({t, Last}) THEN Min({t, Last}) ELSE First
  BY <1>2, OfTwo, Episode DEF Clamp
<1>4. QED
  BY <1>1, <1>3, Episode

-----------------------------------------------------------------------------
(* The frame a time is snapped to.                                          *)

Nearest(t) == {f \in Frames : \A g \in Frames : Abs(f - t) <= Abs(g - t)}

LEMMA Snapped ==
  ASSUME NEW t \in Int
  PROVE  /\ Snap(t) \in Frames /\ Snap(t) \in Int /\ Snap(t) \in Nearest(t)
         /\ \A f \in Nearest(t) : Snap(t) <= f
<1> DEFINE D == {Abs(f - t) : f \in Frames}
<1>1. D \in SUBSET Int /\ D # {} /\ IsFiniteSet(D)
  <2>1. \A f \in Frames : Abs(f - t) \in Int
    BY Episode DEF Abs
  <2>2. D \in SUBSET Int /\ D # {}
    BY <2>1, Episode
  <2>3. IsFiniteSet(D)
    <3> DEFINE dist == [f \in Frames |-> Abs(f - t)]
    <3>1. dist \in Surjection(Frames, D)
      BY DEF Surjection
    <3>2. QED
      BY <3>1, FS_Surjection, SpansAssumption
  <2>4. QED
    BY <2>2, <2>3
<1>2. PICK f \in Frames : Abs(f - t) = Min(D) /\ \A d \in D : Min(D) <= d
  BY <1>1, Extremes
<1>3. f \in Nearest(t)
  BY <1>2 DEF Nearest
<1>4. Nearest(t) \in SUBSET Int /\ IsFiniteSet(Nearest(t)) /\ Nearest(t) # {}
  <2>1. Nearest(t) \in SUBSET Frames
    BY DEF Nearest
  <2>2. QED
    BY <1>3, <2>1, FS_Subset, SpansAssumption
<1>5. Snap(t) = Min(Nearest(t))
  BY DEF Snap, Nearest
<1>6. Snap(t) \in Nearest(t) /\ \A g \in Nearest(t) : Snap(t) <= g
  BY <1>4, <1>5, Extremes
<1>7. QED
  BY <1>6, Episode DEF Nearest

(* Of two times the later one is not snapped to an earlier frame.           *)
LEMMA SnapInOrder ==
  ASSUME NEW t \in Int, NEW u \in Int, t <= u
  PROVE  Snap(t) <= Snap(u)
<1> DEFINE a == Snap(t)  b == Snap(u)
<1>1. a \in Frames /\ b \in Frames /\ a \in Int /\ b \in Int
  BY Snapped
<1>2. Abs(a - t) <= Abs(b - t) /\ Abs(b - u) <= Abs(a - u)
  BY <1>1, Snapped DEF Nearest
<1>3. b \in Nearest(t) => a <= b
  BY Snapped
<1>4. \A g \in Frames : Abs(a - t) <= Abs(g - t)
  BY Snapped DEF Nearest
<1> HIDE DEF a, b
<1>5. ASSUME b < a PROVE FALSE
  <2>1. Abs(b - t) = Abs(a - t)
    BY <1>1, <1>2, <1>5 DEF Abs
  <2>2. b \in Nearest(t)
    BY <1>1, <1>4, <2>1 DEF Nearest
  <2>3. QED
    BY <1>1, <1>3, <1>5, <2>2
<1>6. QED
  BY <1>1, <1>5 DEF a, b

-----------------------------------------------------------------------------
(* Spans with labels of their own.                                          *)

LEMMA Moved ==
  ASSUME NEW s \in Spans, NEW a, NEW b
  PROVE  [s EXCEPT !.start = a, !.end = b] = [label |-> s.label, start |-> a, end |-> b]
<1> DEFINE r == [s EXCEPT !.start = a, !.end = b]
<1>1. r = [x \in {"label", "start", "end"} |->
             IF x = "end" THEN b ELSE IF x = "start" THEN a ELSE s.label]
  BY DEF Spans
<1>2. QED
  BY <1>1

LEMMA NumberedFinite ==
  ASSUME NEW S, Numbered(S)
  PROVE  IsFiniteSet(S) /\ Cardinality(S) \in 0 .. MaxSpans
<1> DEFINE number == [s \in S |-> s.label]
<1>1. MaxSpans \in Nat /\ IsFiniteSet(0 .. MaxSpans - 1)
      /\ Cardinality(0 .. MaxSpans - 1) = MaxSpans
  <2>1. MaxSpans \in Nat
    BY SpansAssumption
  <2>2. QED
    BY <2>1, FS_Interval
<1>2. number \in Injection(S, 0 .. MaxSpans - 1)
  <2>1. \A s \in S : s.label \in 0 .. MaxSpans - 1
    BY <1>1 DEF Numbered, Spans
  <2>2. number \in [S -> 0 .. MaxSpans - 1]
    BY <2>1
  <2>3. \A r, s \in S : number[r] = number[s] => r = s
    BY DEF Numbered
  <2>4. QED
    BY <2>2, <2>3 DEF Injection, IsInjective
<1> HIDE DEF number
<1>3. IsFiniteSet(S) /\ Cardinality(S) <= MaxSpans
  BY <1>1, <1>2, FS_Injection
<1>4. QED
  BY <1>1, <1>3, FS_CardinalityType

LEMMA NumberedPart ==
  ASSUME NEW S, Numbered(S), NEW T \in SUBSET S
  PROVE  Numbered(T)
BY DEF Numbered

(* As many spans as labels.                                                 *)
LEMMA Counted ==
  ASSUME NEW S, Numbered(S), NEW k \in Nat, {s.label : s \in S} = 0 .. k - 1
  PROVE  Cardinality(S) = k
<1> DEFINE number == [s \in S |-> s.label]
<1>1. IsFiniteSet(S)
  BY NumberedFinite
<1>2. number \in Bijection(S, 0 .. k - 1)
  <2>1. number \in [S -> 0 .. k - 1] /\ \A i \in 0 .. k - 1 : \E s \in S : number[s] = i
    OBVIOUS
  <2>2. \A r, s \in S : number[r] = number[s] => r = s
    BY DEF Numbered
  <2>3. QED
    BY <2>1, <2>2 DEF Bijection, Injection, Surjection, IsInjective
<1>3. Cardinality(0 .. k - 1) = Cardinality(S)
  BY <1>1, <1>2, FS_Bijection DEF ExistsBijection
<1>4. Cardinality(0 .. k - 1) = k
  BY FS_Interval
<1>5. QED
  BY <1>3, <1>4

-----------------------------------------------------------------------------
(* Steps that only move on.                                                 *)

LEMMA InitInv == Init => SpansInv
<1> SUFFICES ASSUME Init PROVE SpansInv
  OBVIOUS
<1> USE DEF Init
<1>1. Numbered({}) /\ MaxSpans \in Nat /\ Cardinality({}) = 0
  BY SpansAssumption, FS_EmptySet DEF Numbered
<1>2. ShapeInv
  BY <1>1 DEF ShapeInv, Labels
<1>3. UseInv
  BY DEF UseInv, Aligned, Realigning
<1>4. AnswerInv /\ TakenInv /\ SnapInv /\ CoverInv /\ RealignLosesNothing /\ JustifiedInv
  BY DEF AnswerInv, TakenInv, SnapInv, CoverInv, RealignLosesNothing, JustifiedInv,
     Realigning, InList, Forwards
<1>5. QED
  BY <1>2, <1>3, <1>4 DEF SpansInv

LEMMA PlainStep ==
  ASSUME SpansInv, Raise \/ RelabelFails \/ EndReply \/ Uncalibrated \/ UNCHANGED vars
  PROVE  SpansInv'
<1>1. /\ UNCHANGED << origin, n, placed, next, spans, todo, taken, cover, published >>
      /\ \/ pc \in {"given", "raw", "reply", "stitched"} /\ pc' = "aborted"
         \/ pc = "reply" /\ pc' = "calibrate"
         \/ pc = "calibrate" /\ pc' = "order"
         \/ pc' = pc
  BY DEF Raise, RelabelFails, EndReply, Uncalibrated, vars
<1>2. Aligned' = Aligned /\ Realigning' = Realigning
  BY <1>1 DEF Aligned, Realigning
<1>3. ShapeInv'
  BY <1>1 DEF SpansInv, ShapeInv, Labels
<1>4. UseInv'
  BY <1>1, <1>2 DEF SpansInv, UseInv
<1>5. AnswerInv'
  BY <1>1, <1>2 DEF SpansInv, UseInv, AnswerInv, Forwards, InList
<1>6. TakenInv' /\ CoverInv'
  BY <1>1, <1>2 DEF SpansInv, TakenInv, CoverInv, InList
<1>7. SnapInv'
  BY <1>1, <1>2 DEF SpansInv, SnapInv, Packed, TakenFrames, Before, Snap
<1>8. JustifiedInv'
  BY <1>1 DEF SpansInv, JustifiedInv, Justified, TakenFrames, Snap
<1>9. RealignLosesNothing'
  BY <1>1, <1>2 DEF SpansInv, RealignLosesNothing
<1>10. QED
  BY <1>3, <1>4, <1>5, <1>6, <1>7, <1>8, <1>9 DEF SpansInv

-----------------------------------------------------------------------------
(* The answer, up to a list of spans.                                       *)

(* Before any span has a frame there is little to keep.                     *)
LEMMA EarlyKept ==
  ASSUME SpansInv, Aligned' = Aligned, UNCHANGED << taken, todo, cover, published >>,
         pc \notin {"snap", "stitched", "done", "kept"},
         pc' \notin {"snap", "stitched", "done", "kept"}
  PROVE  (TakenInv /\ SnapInv /\ CoverInv /\ JustifiedInv /\ RealignLosesNothing)'
<1>1. TakenInv'
  BY DEF SpansInv, TakenInv, InList
<1>2. QED
  BY <1>1 DEF SnapInv, CoverInv, JustifiedInv, RealignLosesNothing

LEMMA GiveLabelsStep == SpansInv /\ GiveLabels => SpansInv'
<1> SUFFICES ASSUME SpansInv, GiveLabels PROVE SpansInv'
  OBVIOUS
<1>1. /\ pc = "given" /\ pc' = "reply" /\ n' \in 1 .. MaxSpans /\ MaxSpans \in Nat
      /\ UNCHANGED << origin, placed, next, spans, todo, taken, cover, published >>
      /\ n = 0 /\ spans = {} /\ origin = "given" /\ cover = {} /\ taken = {}
  BY SpansAssumption DEF GiveLabels, SpansInv, UseInv
<1>2. Aligned /\ Aligned' /\ ~Realigning /\ ~Realigning'
  BY <1>1 DEF Aligned, Realigning
<1>3. DOMAIN placed = {} /\ next = 0
  <2>1. DOMAIN placed \subseteq 0 .. n - 1 /\ next \in 0 .. n
    BY DEF SpansInv, ShapeInv, Labels
  <2>2. n = 0
    BY <1>1
  <2>3. 0 .. n - 1 = {} /\ 0 .. n = {0}
    BY <2>2
  <2>4. QED
    BY <2>1, <2>3
<1>4. ShapeInv'
  BY <1>1, <1>3 DEF SpansInv, ShapeInv, Labels
<1>5. UseInv'
  BY <1>1, <1>2 DEF SpansInv, UseInv
<1>6. AnswerInv'
  BY <1>1, <1>3 DEF AnswerInv
<1>7. QED
  BY <1>1, <1>2, <1>4, <1>5, <1>6, EarlyKept DEF SpansInv

LEMMA RawSpanStep ==
  ASSUME SpansInv, NEW start \in Times, NEW end \in Times, RawSpan(start, end)
  PROVE  SpansInv'
<1> DEFINE c == Cardinality(spans)
           s == [label |-> c, start |-> start, end |-> end]
<1>1. /\ pc = "raw" /\ c < MaxSpans /\ spans' = spans \cup {s} /\ Numbered(spans)
      /\ UNCHANGED << pc, origin, n, placed, next, todo, taken, cover, published >>
      /\ ~Aligned /\ start \in Int /\ end \in Int
  BY SpansAssumption DEF RawSpan, SpansInv, ShapeInv, UseInv
<1>2. IsFiniteSet(spans) /\ c \in Nat /\ \A r \in spans : r.label < c
  BY <1>1, NumberedFinite DEF SpansInv, AnswerInv
<1>3. Aligned' = Aligned /\ Realigning' = Realigning
  BY <1>1 DEF Aligned, Realigning
<1>4. s \notin spans /\ Cardinality(spans') = c + 1
  <2>1. s \notin spans
    BY <1>2
  <2>2. Cardinality(spans \cup {s}) = IF s \in spans THEN c ELSE c + 1
    BY <1>2, FS_AddElement
  <2>3. QED
    BY <1>1, <2>1, <2>2
<1> HIDE DEF c
<1>5. Numbered(spans')
  BY <1>1, <1>2 DEF Numbered, Spans
<1>6. ShapeInv'
  BY <1>1, <1>5 DEF SpansInv, ShapeInv, Labels
<1>7. UseInv'
  BY <1>1, <1>3 DEF SpansInv, UseInv
<1>8. AnswerInv'
  <2>1. \A r \in spans' : r.label < c + 1
    BY <1>1, <1>2 DEF Numbered, Spans
  <2>2. QED
    BY <1>1, <1>4, <2>1 DEF AnswerInv
<1>9. QED
  BY <1>1, <1>3, <1>6, <1>7, <1>8, EarlyKept DEF SpansInv

LEMMA EndRawStep == SpansInv /\ EndRaw => SpansInv'
<1> SUFFICES ASSUME SpansInv, EndRaw PROVE SpansInv'
  OBVIOUS
<1>1. /\ pc = "raw"
      /\ pc' \in {"raw", "clean", "done"} /\ (spans # {} <=> pc' = "clean")
      /\ origin' \in {origin, "generate"}
      /\ UNCHANGED << n, placed, next, spans, todo, taken, cover, published >>
      /\ ~Aligned /\ cover = {} /\ published = {} /\ taken = {} /\ todo = {}
  BY DEF EndRaw, SpansInv, UseInv
<1>2. ~Aligned' /\ ~Realigning'
  BY <1>1 DEF Aligned, Realigning
<1>3. ShapeInv'
  BY <1>1 DEF SpansInv, ShapeInv, Labels
<1>4. UseInv'
  BY <1>1, <1>2 DEF SpansInv, UseInv
<1>5. AnswerInv'
  BY <1>1, <1>2 DEF SpansInv, AnswerInv
<1>6. (TakenInv /\ SnapInv /\ CoverInv /\ JustifiedInv /\ RealignLosesNothing)'
  BY <1>1, <1>2 DEF TakenInv, SnapInv, CoverInv, JustifiedInv, RealignLosesNothing
<1>7. QED
  BY <1>3, <1>4, <1>5, <1>6 DEF SpansInv

(* Whatever changes the intervals only, and leaves none backwards.          *)
LEMMA PlacedStep ==
  ASSUME SpansInv, pc \in {"reply", "calibrate"}, pc' \in {"reply", "order"},
         UNCHANGED << origin, n, next, spans, todo, taken, cover, published >>,
         DOMAIN placed' \subseteq Labels,
         \A i \in DOMAIN placed' : /\ placed'[i] \in [start : Int, end : Int]
                                   /\ placed'[i].start <= placed'[i].end
  PROVE  SpansInv'
<1>1. Aligned' = Aligned /\ Realigning' = Realigning /\ spans = {} /\ Aligned
  BY DEF Aligned, Realigning, SpansInv, UseInv
<1>2. ShapeInv'
  BY DEF SpansInv, ShapeInv, Labels
<1>3. UseInv'
  BY <1>1 DEF SpansInv, UseInv
<1>4. AnswerInv'
  BY <1>1 DEF AnswerInv, Forwards, InList
<1>5. QED
  BY <1>1, <1>2, <1>3, <1>4, EarlyKept DEF SpansInv

LEMMA EntryStep ==
  ASSUME SpansInv, NEW i \in 0 .. MaxSpans - 1, NEW start \in Times, NEW end \in Times,
         Entry(i, start, end)
  PROVE  SpansInv'
<1>1. /\ pc = "reply" /\ i \in Labels
      /\ placed' = [j \in DOMAIN placed \cup {i} |->
                      IF j = i THEN [start |-> Min({start, end}), end |-> Max({start, end})]
                      ELSE placed[j]]
      /\ UNCHANGED << pc, origin, n, next, spans, todo, taken, cover, published >>
  BY DEF Entry
<1>2. start \in Int /\ end \in Int
  BY SpansAssumption
<1>3. Min({start, end}) \in Int /\ Max({start, end}) \in Int
      /\ Min({start, end}) <= Max({start, end})
  BY <1>2, OfTwo
<1>4. /\ DOMAIN placed \subseteq Labels
      /\ \A j \in DOMAIN placed : /\ placed[j] \in [start : Int, end : Int]
                                  /\ placed[j].start <= placed[j].end
  BY <1>1 DEF SpansInv, ShapeInv, AnswerInv
<1>5. \A j \in DOMAIN placed' : /\ placed'[j] \in [start : Int, end : Int]
                                /\ placed'[j].start <= placed'[j].end
  BY <1>1, <1>3, <1>4
<1>6. DOMAIN placed' \subseteq Labels
  BY <1>1, <1>4
<1>7. QED
  BY <1>1, <1>5, <1>6, PlacedStep

(* What the solver returns is on the grid and in order.                     *)
LEMMA SolvedInOrder ==
  ASSUME NEW first \in Int, NEW last \in Int, NEW k \in Nat \ {0}, NEW aim,
         DOMAIN aim = 1 .. k, NEW want, NEW b \in Solutions(first, last, aim, want)
  PROVE  /\ b \in [1 .. k -> first .. last]
         /\ \A i \in 2 .. k : b[i - 1] <= b[i]
<1> DEFINE grid == Grid(first, last)
           cost == Cheapest(grid, aim, want)
<1>1. b \in [1 .. k -> grid] /\ ReadBack(grid, cost, want, b)
  BY DEF Solutions
<1>2. grid \subseteq first .. last
  BY DEF Grid
<1> HIDE DEF grid, cost
<1>3. ASSUME NEW i \in 2 .. k PROVE b[i - 1] <= b[i]
  <2> DEFINE costs == [u \in {v \in grid : v <= b[i]} |->
                         cost[i - 1][u] + Gap(want[i - 1], u, b[i])]
  <2>1. b[i - 1] \in Minimizers(costs)
    BY <1>1, <1>3 DEF ReadBack
  <2>2. Minimizers(costs) \subseteq DOMAIN costs
    BY DEF Minimizers
  <2>3. QED
    BY <2>1, <2>2
<1>4. QED
  BY <1>1, <1>2, <1>3

LEMMA SolveStep == SpansInv /\ Solve => SpansInv'
<1> SUFFICES ASSUME SpansInv, Solve PROVE SpansInv'
  OBVIOUS
<1>1. PICK b \in Solutions(First, Last, Aim, Lengths) :
        placed' = [i \in Labels |-> [start |-> IF i = 0 THEN First ELSE b[i],
                                     end |-> IF i = n - 1 THEN Last ELSE b[i + 1]]]
  BY DEF Solve
<1>2. /\ pc = "calibrate" /\ pc' = "order" /\ n >= 2 /\ n \in Nat /\ Labels = 0 .. n - 1
      /\ UNCHANGED << origin, n, next, spans, todo, taken, cover, published >>
  BY SpansAssumption DEF Solve, Solvable, SpansInv, ShapeInv, Labels
<1>3. /\ b \in [1 .. n - 1 -> First .. Last]
      /\ \A i \in 2 .. n - 1 : b[i - 1] <= b[i]
  <2>1. DOMAIN Aim = 1 .. n - 1 /\ n - 1 \in Nat \ {0}
    BY <1>2 DEF Aim
  <2>2. QED
    BY <2>1, Episode, SolvedInOrder
<1>4. ASSUME NEW i \in Labels
      PROVE  /\ placed'[i] \in [start : Int, end : Int]
             /\ placed'[i].start <= placed'[i].end
  <2>1. placed'[i] = [start |-> IF i = 0 THEN First ELSE b[i],
                      end |-> IF i = n - 1 THEN Last ELSE b[i + 1]]
    BY <1>1
  <2>2. \A j \in 1 .. n - 1 : b[j] \in Int /\ First <= b[j] /\ b[j] <= Last
    BY <1>3, Episode
  <2>3. i \in 0 .. n - 1 /\ (i # 0 => i \in 1 .. n - 1) /\ (i # n - 1 => i + 1 \in 1 .. n - 1)
    BY <1>2
  <2>4. i # 0 /\ i # n - 1 => b[i] <= b[i + 1]
    <3>1. i # 0 /\ i # n - 1 => i + 1 \in 2 .. n - 1 /\ (i + 1) - 1 = i
      BY <1>2, <2>3
    <3>2. QED
      BY <1>3, <3>1
  <2>5. QED
    BY <2>1, <2>2, <2>3, <2>4, Episode
<1>5. QED
  BY <1>1, <1>2, <1>4, PlacedStep

LEMMA ShiftStep == SpansInv /\ Shift => SpansInv'
<1> SUFFICES ASSUME SpansInv, Shift PROVE SpansInv'
  OBVIOUS
<1>1. /\ pc = "calibrate" /\ pc' = "order" /\ placed' = [i \in DOMAIN placed |-> Shifted(i)]
      /\ UNCHANGED << origin, n, next, spans, todo, taken, cover, published >>
  BY DEF Shift
<1>2. /\ DOMAIN placed \subseteq Labels
      /\ \A i \in DOMAIN placed :
           /\ placed[i] \in [start : Int, end : Int] /\ placed[i].start <= placed[i].end
  BY <1>1 DEF SpansInv, ShapeInv, AnswerInv
<1>3. ASSUME NEW i \in DOMAIN placed
      PROVE  Shifted(i) \in [start : Int, end : Int] /\ Shifted(i).start <= Shifted(i).end
  <2> DEFINE shifted(j) == j \in DOMAIN placed /\ j > 0 /\ Offset(j) # 0
             start(j) == IF shifted(j) THEN Clamp(placed[j].start - Offset(j))
                         ELSE placed[j].start
             end == CASE shifted(i + 1) -> Max({start(i), start(i + 1)})
                      [] ~shifted(i + 1) /\ shifted(i) -> Max({start(i), placed[i].end})
                      [] OTHER -> placed[i].end
  <2>1. Shifted(i) = [start |-> start(i), end |-> end]
    BY DEF Shifted
  <2>2. ASSUME NEW j \in DOMAIN placed PROVE start(j) \in Int
    <3>1. Offset(j) \in Int
      BY SpansAssumption DEF Offset
    <3>2. Clamp(placed[j].start - Offset(j)) \in Int
      BY <1>2, <3>1, Clamped
    <3>3. QED
      BY <1>2, <3>2
  <2>3. start(i) \in Int /\ placed[i].end \in Int
    BY <1>2, <2>2
  <2>4. ~shifted(i) => start(i) <= placed[i].end
    BY <1>2
  <2>5. shifted(i + 1) => start(i + 1) \in Int
    BY <2>2
  <2> HIDE DEF shifted, start
  <2>6. end \in Int /\ start(i) <= end
    <3>1. CASE shifted(i + 1)
      <4>1. end = Max({start(i), start(i + 1)})
        BY <3>1
      <4>2. QED
        BY <4>1, <3>1, <2>3, <2>5, OfTwo
    <3>2. CASE ~shifted(i + 1) /\ shifted(i)
      <4>1. end = Max({start(i), placed[i].end})
        BY <3>2
      <4>2. Max({start(i), placed[i].end})
              = IF start(i) <= placed[i].end THEN placed[i].end ELSE start(i)
        BY <2>3, OfTwo
      <4> HIDE DEF end
      <4>3. QED
        BY <4>1, <4>2, <2>3
    <3>3. CASE ~shifted(i + 1) /\ ~shifted(i)
      <4>1. end = placed[i].end
        BY <3>3
      <4>2. QED
        BY <4>1, <3>3, <2>3, <2>4
    <3>4. QED
      BY <3>1, <3>2, <3>3
  <2> HIDE DEF end
  <2>7. QED
    BY <2>1, <2>3, <2>6
<1>4. QED
  BY <1>1, <1>2, <1>3, PlacedStep

-----------------------------------------------------------------------------
(* The order of the list and the coverage.                                  *)

LEMMA NoBlocksStep == SpansInv /\ NoBlocks => SpansInv'
<1> SUFFICES ASSUME SpansInv, NoBlocks PROVE SpansInv'
  OBVIOUS
<1>1. /\ pc = "reply" /\ pc' = (IF Realigning THEN "kept" ELSE "done")
      /\ UNCHANGED << origin, n, placed, next, spans, todo, taken, cover >>
      /\ published' = cover /\ published = cover /\ taken = {} /\ todo = {}
  BY DEF NoBlocks, SpansInv, UseInv
<1>2. Aligned' = Aligned /\ Realigning' = Realigning
  BY <1>1 DEF Aligned, Realigning
<1>3. ShapeInv'
  BY <1>1 DEF SpansInv, ShapeInv, Labels
<1>4. UseInv'
  BY <1>1, <1>2 DEF SpansInv, UseInv
<1>5. AnswerInv' /\ TakenInv' /\ SnapInv' /\ JustifiedInv'
  BY <1>1 DEF AnswerInv, TakenInv, SnapInv, JustifiedInv, InList
<1>6. CoverInv'
  BY <1>1 DEF SpansInv, UseInv, CoverInv, Realigning
<1>7. RealignLosesNothing'
  BY <1>1, <1>2 DEF RealignLosesNothing
<1>8. QED
  BY <1>3, <1>4, <1>5, <1>6, <1>7 DEF SpansInv

LEMMA OrderNextStep == SpansInv /\ OrderNext => SpansInv'
<1> SUFFICES ASSUME SpansInv, OrderNext PROVE SpansInv'
  OBVIOUS
<1> DEFINE s == [label |-> next, start |-> placed[next].start, end |-> placed[next].end]
<1>1. /\ pc = "order" /\ next < n /\ next' = next + 1
      /\ spans' = IF InOrder(next) THEN spans \cup {s} ELSE spans
      /\ UNCHANGED << pc, origin, n, placed, todo, taken, cover, published >>
      /\ Aligned /\ n \in 0 .. MaxSpans /\ next \in 0 .. n /\ MaxSpans \in Nat
  BY SpansAssumption DEF OrderNext, SpansInv, ShapeInv, UseInv
<1>2. Aligned' = Aligned /\ Realigning' = Realigning
  BY <1>1 DEF Aligned, Realigning
<1>3. /\ Numbered(spans) /\ \A r \in spans : r.label < next
      /\ Forwards(spans) /\ InList(spans)
  BY <1>1 DEF SpansInv, ShapeInv, AnswerInv
<1>4. /\ Numbered(spans') /\ \A r \in spans' : r.label < next + 1
      /\ Forwards(spans') /\ InList(spans')
  <2>1. \A r \in spans : r.label \in Nat /\ r.start \in Int /\ r.end \in Int
    BY <1>3 DEF Numbered, Spans
  <2>2. CASE ~InOrder(next)
    <3>1. spans' = spans
      BY <1>1, <2>2
    <3>2. \A r \in spans : r.label < next + 1
      BY <1>1, <1>3, <2>1
    <3>3. QED
      BY <1>3, <3>1, <3>2
  <2>3. CASE InOrder(next)
    <3>1. /\ placed[next] \in [start : Int, end : Int]
          /\ placed[next].start <= placed[next].end
          /\ \A r \in spans : r.start < placed[next].start
      BY <1>1, <2>3 DEF InOrder, SpansInv, ShapeInv, AnswerInv
    <3>2. /\ s \in Spans /\ s.label = next /\ s.start <= s.end /\ next \in Nat /\ next < MaxSpans
          /\ \A r \in spans : r.start < s.start
      BY <1>1, <3>1 DEF Spans
    <3>3. spans' = spans \cup {s}
      BY <1>1, <2>3
    <3> HIDE DEF s
    <3>4. Numbered(spans')
      BY <1>3, <2>1, <3>2, <3>3 DEF Numbered
    <3>5. \A r \in spans' : r.label < next + 1
      BY <1>3, <2>1, <3>2, <3>3
    <3>6. Forwards(spans')
      BY <1>3, <3>2, <3>3 DEF Forwards
    <3>7. InList(spans')
      BY <1>3, <2>1, <3>2, <3>3 DEF InList
    <3>8. QED
      BY <3>4, <3>5, <3>6, <3>7
  <2>4. QED
    BY <2>2, <2>3
<1>5. ShapeInv'
  <2>1. next' \in 0 .. n'
    BY <1>1
  <2>2. QED
    BY <1>1, <1>4, <2>1 DEF SpansInv, ShapeInv, Labels
<1>6. UseInv'
  BY <1>1, <1>2 DEF SpansInv, UseInv
<1>7. AnswerInv'
  BY <1>1, <1>2, <1>4 DEF SpansInv, AnswerInv
<1>8. QED
  BY <1>1, <1>2, <1>5, <1>6, <1>7, EarlyKept DEF SpansInv

LEMMA CheckCoverageStep == SpansInv /\ CheckCoverage => SpansInv'
<1> SUFFICES ASSUME SpansInv, CheckCoverage PROVE SpansInv'
  OBVIOUS
<1>1. /\ pc = "order" /\ pc' \in {"aborted", "clean", "done", "kept"}
      /\ UNCHANGED << origin, n, placed, next, spans, todo, taken, cover >>
      /\ pc' = "clean" => spans # {}
      /\ pc' = "done" => ~Realigning
      /\ pc' = "kept" => Realigning
      /\ published' = cover /\ published = cover /\ taken = {} /\ todo = {} /\ Aligned
  BY DEF CheckCoverage, Keep, SpansInv, UseInv
<1>2. Aligned' = Aligned /\ Realigning' = Realigning
  BY <1>1 DEF Aligned, Realigning
<1>3. ShapeInv'
  BY <1>1 DEF SpansInv, ShapeInv, Labels
<1>4. UseInv'
  BY <1>1, <1>2 DEF SpansInv, UseInv
<1>5. AnswerInv'
  BY <1>1, <1>2 DEF SpansInv, AnswerInv
<1>6. TakenInv' /\ SnapInv' /\ JustifiedInv'
  BY <1>1 DEF TakenInv, SnapInv, JustifiedInv, InList
<1>7. CoverInv'
  BY <1>1 DEF SpansInv, UseInv, CoverInv, Realigning
<1>8. RealignLosesNothing'
  BY <1>1, <1>2 DEF RealignLosesNothing
<1>9. QED
  BY <1>3, <1>4, <1>5, <1>6, <1>7, <1>8 DEF SpansInv

-----------------------------------------------------------------------------
(* Cleaning.                                                                *)

Cleaned(s) == [s EXCEPT !.start = Min({Clamp(s.start), Clamp(s.end)}),
                        !.end = Max({Clamp(s.start), Clamp(s.end)})]

LEMMA CleanedSpan ==
  ASSUME NEW s \in Spans
  PROVE  /\ Cleaned(s) \in Spans /\ Cleaned(s).label = s.label
         /\ s.start <= s.end => Cleaned(s).start = Clamp(s.start)
<1>1. Clamp(s.start) \in Int /\ Clamp(s.end) \in Int
      /\ (s.start <= s.end => Clamp(s.start) <= Clamp(s.end))
  <2>1. s.start \in Int /\ s.end \in Int
    BY DEF Spans
  <2>2. QED
    BY <2>1, Clamped, Episode
<1> DEFINE l == Min({Clamp(s.start), Clamp(s.end)})  g == Max({Clamp(s.start), Clamp(s.end)})
<1>2. l \in Int /\ g \in Int /\ (s.start <= s.end => l = Clamp(s.start))
  BY <1>1, OfTwo
<1>3. Cleaned(s) = [s EXCEPT !.start = l, !.end = g]
  BY DEF Cleaned
<1> HIDE DEF l, g
<1>4. Cleaned(s) = [label |-> s.label, start |-> l, end |-> g]
  BY <1>3, Moved
<1>5. QED
  BY <1>2, <1>4 DEF Spans

LEMMA CleanStep == SpansInv /\ Clean => SpansInv'
<1> SUFFICES ASSUME SpansInv, Clean PROVE SpansInv'
  OBVIOUS
<1>1. /\ pc = "clean" /\ pc' = "snap" /\ todo' = spans'
      /\ UNCHANGED << origin, n, placed, next, taken, cover, published >>
      /\ taken = {} /\ spans # {} /\ published = cover
      /\ Aligned => Forwards(spans) /\ InList(spans)
      /\ Numbered(spans)
  BY DEF Clean, SpansInv, ShapeInv, UseInv, AnswerInv
<1>2. spans' = {Cleaned(s) : s \in spans}
  BY DEF Clean, Cleaned
<1>3. Aligned' = Aligned /\ Realigning' = Realigning
  BY <1>1 DEF Aligned, Realigning
<1>4. \A s \in spans : /\ s \in Spans /\ Cleaned(s) \in Spans /\ Cleaned(s).label = s.label
                       /\ s.start <= s.end => Cleaned(s).start = Clamp(s.start)
  BY <1>1, CleanedSpan DEF Numbered
<1>5. Numbered(spans')
  BY <1>1, <1>2, <1>4 DEF Numbered
<1>6. ASSUME Aligned, NEW r \in spans', NEW s \in spans', r.label < s.label
      PROVE  r.start <= s.start
  <2>1. PICK p \in spans, q \in spans : r = Cleaned(p) /\ s = Cleaned(q)
    BY <1>2
  <2>2. p.start < q.start /\ r.start = Clamp(p.start) /\ s.start = Clamp(q.start)
        /\ p.start \in Int /\ q.start \in Int
    BY <1>1, <1>4, <1>6, <2>1 DEF Forwards, InList, Spans
  <2>3. Clamp(p.start) <= Clamp(q.start)
    BY <2>2, Clamped, Episode
  <2>4. QED
    BY <2>2, <2>3
<1>7. ShapeInv'
  BY <1>1, <1>5 DEF SpansInv, ShapeInv, Labels
<1>8. UseInv'
  <2>1. spans' # {}
    BY <1>1, <1>2
  <2>2. QED
    BY <1>1, <1>3, <2>1 DEF SpansInv, UseInv
<1>9. AnswerInv' /\ CoverInv' /\ RealignLosesNothing'
  BY <1>1 DEF AnswerInv, CoverInv, RealignLosesNothing
<1>10. TakenInv'
  BY <1>1, <1>2 DEF TakenInv, InList
<1>11. SnapInv' /\ JustifiedInv'
  BY <1>1, <1>3, <1>6 DEF SnapInv, Packed, JustifiedInv
<1>12. QED
  BY <1>7, <1>8, <1>9, <1>10, <1>11 DEF SpansInv

-----------------------------------------------------------------------------
(* Snapping.                                                                *)

LEMMA FreeFrame ==
  ASSUME NEW t \in Int, NEW f \in Frames
  PROVE  /\ FreeFrames(t) = {} /\ Snap(t) <= f => f \in TakenFrames
         /\ FreeFrames(t) # {} =>
              /\ Min(FreeFrames(t)) \in Frames \ TakenFrames
              /\ Snap(t) <= Min(FreeFrames(t))
              /\ Snap(t) <= f /\ f < Min(FreeFrames(t)) => f \in TakenFrames
<1> DEFINE free == FreeFrames(t)
<1>1. Snap(t) \in Frames /\ Snap(t) \in Int /\ f \in Int
  BY Snapped, Episode
<1>2. CASE Snap(t) \notin TakenFrames
  <2>1. free = {Snap(t)}
    BY <1>2 DEF FreeFrames
  <2>2. IsFiniteSet(free) /\ free \in SUBSET Int /\ free # {}
    BY <1>1, <2>1, FS_Singleton
  <2>3. Min(free) = Snap(t)
    BY <2>1, <2>2, Extremes
  <2>4. QED
    BY <1>1, <1>2, <2>1, <2>3
<1>3. CASE Snap(t) \in TakenFrames
  <2>1. free = {g \in Frames : g > Snap(t)} \ TakenFrames
    BY <1>3 DEF FreeFrames
  <2>2. IsFiniteSet(free) /\ free \in SUBSET Int
    <3>1. free \in SUBSET Frames
      BY <2>1
    <3>2. QED
      BY <3>1, FS_Subset, SpansAssumption
  <2>3. f \notin free /\ Snap(t) <= f => f \in TakenFrames
    BY <1>1, <1>3, <2>1
  <2>4. ASSUME free # {}
        PROVE  Min(free) \in free /\ \A g \in free : Min(free) <= g
    BY <2>2, <2>4, Extremes
  <2>5. ASSUME free # {}, f < Min(free) PROVE f \notin free
    <3>1. Min(free) \in Int
      BY <2>2, <2>4, <2>5
    <3>2. QED
      BY <1>1, <2>4, <2>5, <3>1
  <2>6. ASSUME free # {}
        PROVE  Min(free) \in Frames \ TakenFrames /\ Snap(t) <= Min(free)
    <3>1. Min(free) \in Frames \ TakenFrames /\ Min(free) > Snap(t) /\ Min(free) \in Int
      BY <2>1, <2>2, <2>4, <2>6
    <3>2. QED
      BY <1>1, <3>1
  <2> HIDE DEF free
  <2>7. QED
    BY <2>3, <2>5, <2>6 DEF free
<1>4. QED
  BY <1>2, <1>3

LEMMA SnapNextStep == SpansInv /\ SnapNext => SpansInv'
<1> SUFFICES ASSUME SpansInv, SnapNext PROVE SpansInv'
  OBVIOUS
<1>1. PICK s \in todo :
        /\ \A r \in todo : Before(s, r)
        /\ todo' = todo \ {s}
        /\ taken' = IF FreeFrames(s.start) = {} THEN taken
                    ELSE LET frame == Min(FreeFrames(s.start))
                         IN  taken \cup {[s EXCEPT !.start = frame,
                                                   !.end = Max({frame, s.end})]}
  BY DEF SnapNext
<1> DEFINE none == FreeFrames(s.start) = {}
           frame == Min(FreeFrames(s.start))
           q == [label |-> s.label, start |-> frame, end |-> Max({frame, s.end})]
<1>2. /\ pc = "snap" /\ UNCHANGED << pc, origin, n, placed, next, spans, cover, published >>
      /\ Numbered(spans) /\ Numbered(todo) /\ Numbered(taken) /\ todo \subseteq spans
      /\ Aligned => \A r, x \in spans : r.label < x.label => r.start <= x.start
      /\ \A r \in spans \ todo, x \in todo : Before(r, x)
      /\ \A r \in taken : \E x \in spans \ todo : r.label = x.label
      /\ Packed
  BY DEF SnapNext, SpansInv, ShapeInv, SnapInv
<1>3. /\ s \in spans /\ s \in Spans /\ s.label < MaxSpans
      /\ \A r \in spans \cup taken : r.label \in Nat /\ r.start \in Int /\ r.end \in Int
  BY <1>2 DEF Numbered, Spans
<1>4. Aligned' = Aligned /\ Realigning' = Realigning
  BY <1>2 DEF Aligned, Realigning
<1>5. \A r \in taken : r.label # s.label
  BY <1>1, <1>2, <1>3 DEF Numbered
<1>6. /\ \A f \in Frames : none /\ Snap(s.start) <= f => f \in TakenFrames
      /\ ~none => frame \in Frames /\ frame \notin TakenFrames /\ Snap(s.start) <= frame
      /\ ~none => \A f \in Frames : Snap(s.start) <= f /\ f < frame => f \in TakenFrames
  BY <1>3, FreeFrame, Episode
<1>7. taken' = IF none THEN taken
               ELSE taken \cup {[s EXCEPT !.start = frame, !.end = Max({frame, s.end})]}
  BY <1>1
<1> HIDE DEF none, frame
<1>8. ~none => q \in Spans
  <2>1. ~none => frame \in Int
    BY <1>6, Episode
  <2>2. s.end \in Int
    BY <1>3
  <2>3. ~none => Max({frame, s.end}) \in Int
    BY <2>1, <2>2, OfTwo
  <2> DEFINE end == Max({frame, s.end})
  <2> HIDE DEF end
  <2>4. q = [label |-> s.label, start |-> frame, end |-> end] /\ (~none => end \in Int)
    BY <2>3 DEF end
  <2> HIDE DEF q
  <2>5. QED
    BY <1>3, <2>1, <2>4 DEF Spans
<1>8a. taken' = IF none THEN taken ELSE taken \cup {q}
  <2> DEFINE end == Max({frame, s.end})
  <2>1. /\ q = [label |-> s.label, start |-> frame, end |-> end]
        /\ taken' = IF none THEN taken ELSE taken \cup {[s EXCEPT !.start = frame, !.end = end]}
    BY <1>7
  <2> HIDE DEF end, q
  <2>2. [s EXCEPT !.start = frame, !.end = end] = [label |-> s.label, start |-> frame, end |-> end]
    BY <1>3, Moved
  <2>3. QED
    BY <2>1, <2>2
<1>9. q.label = s.label /\ q.start = frame
  OBVIOUS
<1>10. TakenFrames' = IF none THEN TakenFrames ELSE TakenFrames \cup {frame}
  BY <1>8a, <1>9 DEF TakenFrames
<1>11. \A r \in taken : r.start \in TakenFrames /\ r.start \in Frames
  BY DEF TakenFrames, SpansInv, TakenInv
<1> HIDE DEF q, Snap
(* The frame is behind all that are taken.                                  *)
<1>12. ASSUME ~none, NEW r \in taken PROVE r.start < frame
  <2>1. frame \in Int /\ r.start \in Int
    BY <1>3, <1>6, <1>12, Episode
  <2>2. ~(frame < r.start)
    BY <1>2, <1>6, <1>12 DEF Packed
  <2>3. frame # r.start
    BY <1>6, <1>11, <1>12
  <2>4. QED
    BY <2>1, <2>2, <2>3
<1>13. ASSUME Aligned, NEW r \in taken PROVE r.label < s.label
  <2>1. PICK x \in spans \ todo : r.label = x.label
    BY <1>2
  <2>2. Before(x, s) /\ x # s
    BY <1>2, <2>1
  <2>3. x.label # s.label
    BY <1>2, <1>3, <2>2 DEF Numbered
  <2>4. ~(s.label < x.label)
    BY <1>2, <1>3, <1>13, <2>2, <2>3 DEF Before
  <2>5. QED
    BY <1>3, <2>1, <2>3, <2>4
<1>14. Numbered(todo') /\ Numbered(taken')
  <2>1. Numbered(todo')
    BY <1>1, <1>2, NumberedPart
  <2>2. Numbered(taken')
    BY <1>2, <1>3, <1>5, <1>8a, <1>8, <1>9 DEF Numbered
  <2>3. QED
    BY <2>1, <2>2
<1>15. ShapeInv'
  BY <1>2, <1>14 DEF SpansInv, ShapeInv, Labels
<1>16. UseInv'
  BY <1>2, <1>4 DEF SpansInv, UseInv
<1>17. AnswerInv' /\ CoverInv' /\ RealignLosesNothing'
  BY <1>2 DEF AnswerInv, CoverInv, RealignLosesNothing
<1>18. TakenInv'
  <2>1. \A r \in taken' : r.start \in Frames
    BY <1>6, <1>8a, <1>9, <1>11
  <2>2. \A r, x \in taken' : r.start = x.start => r = x
    <3>1. \A r, x \in taken : r.start = x.start => r = x
      BY DEF SpansInv, TakenInv
    <3>2. ~none => \A r \in taken : r.start # frame
      BY <1>6, <1>11
    <3>3. QED
      BY <1>8a, <1>9, <3>1, <3>2
  <2>3. Aligned' => InList(taken')
    <3>1. SUFFICES ASSUME Aligned PROVE InList(taken')
      BY <1>4
    <3>2. InList(taken)
      BY <3>1 DEF SpansInv, TakenInv
    <3>3. \A r \in taken : r.label < s.label /\ r.label \in Nat /\ s.label \in Nat
      BY <1>3, <1>13, <3>1
    <3>4. \A r \in taken : ~(s.label < r.label)
      BY <3>3
    <3>5. ~(s.label < s.label)
      BY <1>3
    <3>6. QED
      BY <1>8a, <1>9, <1>12, <3>2, <3>4, <3>5 DEF InList
  <2>4. taken' # {} \/ todo' # {}
    <3>1. CASE taken # {}
      BY <1>8a, <3>1
    <3>2. CASE taken = {}
      <4>1. TakenFrames = {} /\ Snap(s.start) \in Frames /\ Snap(s.start) \in Int
        BY <1>3, <3>2, Snapped DEF TakenFrames
      <4>2. ~none
        BY <1>6, <4>1
      <4>3. QED
        BY <1>8a, <4>2
    <3>3. QED
      BY <3>1, <3>2
  <2>5. QED
    BY <2>1, <2>2, <2>3, <2>4 DEF TakenInv
<1>19. SnapInv'
  <2>1. todo' \subseteq spans' /\ (spans \ todo)' = (spans \ todo) \cup {s}
    BY <1>1, <1>2, <1>3
  <2>2. \A r \in (spans \ todo)', x \in todo' : Before(r, x)
    BY <1>1, <1>2, <2>1
  <2>3. \A r \in taken' : \E x \in (spans \ todo)' : r.label = x.label
    BY <1>2, <1>8a, <1>9, <2>1
  <2>4. Packed'
    <3>1. SUFFICES ASSUME NEW r \in taken', NEW x \in todo', NEW f \in Frames,
                          Snap(x.start) <= f, f < r.start
                   PROVE  f \in TakenFrames'
      BY DEF Packed, Snap
    <3>2. x \in todo /\ x \in spans
      BY <1>1, <1>2
    <3>3. CASE r \in taken
      BY <1>2, <1>10, <3>1, <3>2, <3>3 DEF Packed
    <3>4. CASE r \notin taken
      <4>1. ~none /\ r = q
        BY <1>8a, <3>4
      <4>2. s.start <= x.start
        <5>1. Before(s, x)
          BY <1>1, <3>2
        <5>2. QED
          BY <1>3, <3>2, <5>1 DEF Before
      <4>3. Snap(s.start) <= Snap(x.start) /\ Snap(s.start) \in Int /\ Snap(x.start) \in Int
        BY <1>3, <3>2, <4>2, SnapInOrder, Snapped
      <4>4. Snap(s.start) <= f
        BY <3>1, <4>3, Episode
      <4>5. QED
        BY <1>6, <1>9, <1>10, <3>1, <4>1, <4>4
    <3>5. QED
      BY <3>3, <3>4
  <2>5. QED
    BY <1>2, <1>4, <2>1, <2>2, <2>3, <2>4 DEF SnapInv, Before
<1>20. JustifiedInv'
  <2>1. \A x \in spans \ todo : Justified(x)
    BY <1>2 DEF SpansInv, JustifiedInv
  <2>2. ASSUME NEW x \in spans \ todo PROVE Justified(x)'
    <3>1. x.label # s.label
      BY <1>1, <1>2, <1>3, <2>2 DEF Numbered
    <3>2. \A r \in taken' : r.label = x.label => r \in taken
      BY <1>8a, <1>9, <3>1
    <3>3. taken \subseteq taken' /\ TakenFrames \subseteq TakenFrames'
      BY <1>8a, <1>10
    <3>4. Justified(x)
      BY <2>1, <2>2
    <3>5. QED
      BY <3>2, <3>3, <3>4 DEF Justified, Snap
  <2>3. Justified(s)'
    <3>1. CASE none
      BY <1>5, <1>6, <1>8a, <1>10, <3>1 DEF Justified, Snap
    <3>2. CASE ~none
      <4>1. \A r \in taken' : r.label = s.label => r = q
        BY <1>5, <1>8a
      <4>2. q \in taken'
        BY <1>8a, <3>2
      <4>3. QED
        BY <1>6, <1>9, <1>10, <3>2, <4>1, <4>2 DEF Justified, Snap
    <3>3. QED
      BY <3>1, <3>2
  <2>4. \A x \in (spans \ todo)' : Justified(x)'
    BY <1>1, <1>2, <2>2, <2>3
  <2>5. QED
    BY <2>4 DEF JustifiedInv
<1>21. QED
  BY <1>15, <1>16, <1>17, <1>18, <1>19, <1>20 DEF SpansInv

-----------------------------------------------------------------------------
(* Stitching and realignment.                                               *)

After(s) == {r.start : r \in {r \in taken : r.start > s.start}}
Stitched(s) ==
  [label |-> s.label,
   start |-> IF \A r \in taken : s.start <= r.start THEN First ELSE s.start,
   end |-> IF After(s) = {} THEN Last ELSE Min(After(s))]

LEMMA StitchStep == SpansInv /\ Stitch => SpansInv'
<1> SUFFICES ASSUME SpansInv, Stitch PROVE SpansInv'
  OBVIOUS
<1>1. /\ pc = "snap" /\ pc' = "stitched" /\ todo = {}
      /\ UNCHANGED << origin, n, placed, next, spans, todo, taken, cover >>
      /\ taken # {} /\ Numbered(taken)
      /\ \A r \in taken : r.start \in Frames
      /\ \A r, s \in taken : r.start = s.start => r = s
  BY DEF Stitch, SpansInv, ShapeInv, TakenInv
<1>2. Aligned' = Aligned /\ Realigning' = Realigning
  BY <1>1 DEF Aligned, Realigning
<1>3. \A s \in taken : s \in Spans /\ s.start \in Int /\ First <= s.start
  BY <1>1, Episode DEF Numbered, Spans
<1>4. published' = {Stitched(s) : s \in taken}
  <2>1. ASSUME NEW s \in taken
        PROVE  [s EXCEPT !.start = IF \A r \in taken : s.start <= r.start THEN First ELSE s.start,
                         !.end = IF After(s) = {} THEN Last ELSE Min(After(s))] = Stitched(s)
    <3> DEFINE from == IF \A r \in taken : s.start <= r.start THEN First ELSE s.start
               to == IF After(s) = {} THEN Last ELSE Min(After(s))
    <3>1. Stitched(s) = [label |-> s.label, start |-> from, end |-> to]
      BY DEF Stitched
    <3> HIDE DEF from, to
    <3>2. [s EXCEPT !.start = from, !.end = to] = Stitched(s)
      BY <1>3, <3>1, Moved
    <3>3. QED
      BY <3>2 DEF from, to
  <2>2. published' = {[s EXCEPT !.start = IF \A r \in taken : s.start <= r.start THEN First
                                          ELSE s.start,
                                !.end = IF After(s) = {} THEN Last ELSE Min(After(s))] :
                        s \in taken}
    BY DEF Stitch, After
  <2>3. QED
    BY <2>1, <2>2
<1>5. ASSUME NEW s \in taken
      PROVE  /\ Stitched(s).label = s.label /\ Stitched(s).end \in Int
             /\ Stitched(s).start \in Frames /\ Stitched(s).start <= s.start
             /\ (\E r \in taken : r.start < s.start) => Stitched(s).start = s.start
             /\ (\A r \in taken : s.start <= r.start) => Stitched(s).start = First
             /\ Stitched(s).end = Last
                \/ \E r \in taken : r.start > s.start /\ Stitched(s).end = r.start
  <2>1. (\E r \in taken : r.start < s.start) <=> ~(\A r \in taken : s.start <= r.start)
    BY <1>3
  <2>2. s.start <= s.start /\ First <= s.start /\ First \in Frames /\ s.start \in Frames
    BY <1>1, <1>3, Episode
  <2>3. IsFiniteSet(After(s)) /\ After(s) \in SUBSET Int
    <3>1. After(s) \in SUBSET Frames
      BY <1>1 DEF After
    <3>2. QED
      BY <3>1, FS_Subset, SpansAssumption
  <2>4. After(s) # {} => Min(After(s)) \in After(s)
    BY <2>3, Extremes
  <2>5. After(s) # {} => \E r \in taken : r.start > s.start /\ Min(After(s)) = r.start
    BY <2>4 DEF After
  <2>6. (IF After(s) = {} THEN Last ELSE Min(After(s))) \in Int
    BY <2>3, <2>4, Episode
  <2>7. QED
    BY <2>1, <2>2, <2>5, <2>6 DEF Stitched
<1>6. Numbered(published')
  <2>1. \A s \in taken : Stitched(s) \in Spans
    <3>1. \A s \in taken : /\ s.label \in Nat /\ Stitched(s).start \in Int
                           /\ Stitched(s).end \in Int
      BY <1>3, <1>5, Episode DEF Spans
    <3>2. QED
      BY <3>1 DEF Stitched, Spans
  <2>2. QED
    BY <1>1, <1>4, <1>5, <2>1 DEF Numbered
<1>7. Tiles(published')
  <2>1. \E p \in published' : p.start = First
    <3> DEFINE starts == {r.start : r \in taken}
    <3>1. starts \in SUBSET Frames /\ starts # {}
      BY <1>1
    <3>2. starts \in SUBSET Int /\ IsFiniteSet(starts)
      BY <3>1, FS_Subset, SpansAssumption
    <3>3. PICK s \in taken : \A x \in starts : s.start <= x
      <4>1. Min(starts) \in starts /\ \A x \in starts : Min(starts) <= x
        BY <3>1, <3>2, Extremes
      <4>2. QED
        BY <4>1
    <3>4. \A r \in taken : s.start <= r.start
      BY <3>3
    <3>5. QED
      BY <1>4, <1>5, <3>4
  <2>2. \A p \in published' : p.start \in Frames
    BY <1>4, <1>5
  <2>3. ASSUME NEW r \in taken, NEW s \in taken, r.start < s.start
        PROVE  Stitched(r).start < Stitched(s).start
    <3>1. Stitched(s).start = s.start /\ Stitched(r).start <= r.start
      BY <1>5, <2>3
    <3>2. Stitched(r).start \in Int
      BY <1>5, Episode
    <3>3. QED
      BY <1>3, <2>3, <3>1, <3>2
  <2>4. ASSUME NEW p \in published', NEW q \in published', p.start = q.start PROVE p = q
    <3>1. PICK r \in taken, s \in taken : p = Stitched(r) /\ q = Stitched(s)
      BY <1>4
    <3>2. Stitched(r).start \in Int /\ Stitched(s).start \in Int
      BY <1>5, Episode
    <3>3. ~(r.start < s.start) /\ ~(s.start < r.start)
      BY <2>3, <2>4, <3>1, <3>2
    <3>4. r.start = s.start
      BY <1>3, <3>3
    <3>5. QED
      BY <1>1, <3>1, <3>4
  <2>5. ASSUME NEW p \in published', p.end # Last
        PROVE  \E q \in published' : q.start = p.end /\ p.start < p.end
    <3>1. PICK s \in taken : p = Stitched(s)
      BY <1>4
    <3>2. PICK r \in taken : r.start > s.start /\ p.end = r.start
      BY <1>5, <2>5, <3>1
    <3>3. s.start < r.start
      BY <1>3, <3>2
    <3>4. Stitched(r).start = r.start /\ Stitched(s).start < Stitched(r).start
      BY <1>5, <2>3, <3>3
    <3>5. QED
      BY <1>4, <3>1, <3>2, <3>4
  <2>6. QED
    BY <2>1, <2>2, <2>4, <2>5 DEF Tiles
<1>8. ShapeInv'
  BY <1>1, <1>6 DEF SpansInv, ShapeInv, Labels
<1>9. UseInv'
  BY <1>1, <1>2 DEF SpansInv, UseInv
<1>10. AnswerInv' /\ SnapInv' /\ JustifiedInv' /\ RealignLosesNothing'
  BY <1>1 DEF AnswerInv, SnapInv, JustifiedInv, RealignLosesNothing
<1>11. TakenInv' /\ CoverInv'
  <2>1. TakenInv'
    BY <1>1, <1>2 DEF SpansInv, TakenInv, InList
  <2>2. published' # {}
    BY <1>1, <1>4
  <2>3. QED
    BY <1>7, <2>1, <2>2 DEF CoverInv
<1>12. QED
  BY <1>8, <1>9, <1>10, <1>11 DEF SpansInv

LEMMA StartRealignStep == SpansInv /\ StartRealign => SpansInv'
<1> SUFFICES ASSUME SpansInv, StartRealign PROVE SpansInv'
  OBVIOUS
<1>1. /\ pc = "stitched" /\ pc' = "reply" /\ origin = "generate" /\ cover = {}
      /\ cover' = published /\ n' = Cardinality(published) /\ spans' = {} /\ taken' = {}
      /\ UNCHANGED << origin, placed, next, todo, published >>
      /\ published # {} /\ Tiles(published) /\ Numbered(published) /\ todo = {}
  BY DEF StartRealign, Realigning, SpansInv, ShapeInv, UseInv, CoverInv
<1>2. ~Aligned /\ Aligned' /\ Realigning'
  BY <1>1 DEF Aligned, Realigning
<1>3. n = 0 /\ n' \in 0 .. MaxSpans /\ MaxSpans \in Nat
  BY <1>1, <1>2, NumberedFinite, SpansAssumption DEF SpansInv, UseInv
<1>4. DOMAIN placed = {} /\ next = 0
  <2>1. DOMAIN placed \subseteq 0 .. n - 1 /\ next \in 0 .. n
    BY DEF SpansInv, ShapeInv, Labels
  <2>2. 0 .. n - 1 = {} /\ 0 .. n = {0}
    BY <1>3
  <2>3. QED
    BY <2>1, <2>2
<1>5. ShapeInv'
  <2>1. Numbered({})
    BY DEF Numbered
  <2>2. next' \in 0 .. n' /\ DOMAIN placed' = {}
    BY <1>1, <1>3, <1>4
  <2>3. QED
    BY <1>1, <1>3, <2>1, <2>2 DEF SpansInv, ShapeInv
<1>6. UseInv'
  BY <1>1, <1>2 DEF UseInv
<1>7. AnswerInv'
  BY <1>1, <1>4 DEF AnswerInv
<1>8. TakenInv' /\ SnapInv' /\ JustifiedInv' /\ CoverInv' /\ RealignLosesNothing'
  BY <1>1 DEF TakenInv, InList, SnapInv, JustifiedInv, CoverInv, RealignLosesNothing
<1>9. QED
  BY <1>5, <1>6, <1>7, <1>8 DEF SpansInv

LEMMA FinishStep == SpansInv /\ Finish => SpansInv'
<1> SUFFICES ASSUME SpansInv, Finish PROVE SpansInv'
  OBVIOUS
<1>1. /\ pc = "stitched"
      /\ \/ ~Realigning /\ pc' = "done" /\ published' = published
         \/ Realigning /\ SameLabels /\ pc' = "done" /\ published' = published
         \/ Realigning /\ pc' = "kept" /\ published' = cover
      /\ UNCHANGED << origin, n, placed, next, spans, todo, taken, cover >>
      /\ Numbered(published) /\ Tiles(published) /\ todo = {} /\ n \in Nat
      /\ Realigning => n = Cardinality(cover) /\ Tiles(cover)
  BY SpansAssumption
  DEF Finish, Keep, SpansInv, ShapeInv, UseInv, CoverInv
<1>2. Aligned' = Aligned /\ Realigning' = Realigning
  BY <1>1 DEF Aligned, Realigning
<1>3. ShapeInv'
  BY <1>1 DEF SpansInv, ShapeInv, Labels
<1>4. UseInv'
  BY <1>1, <1>2 DEF SpansInv, UseInv
<1>5. AnswerInv' /\ SnapInv' /\ JustifiedInv'
  BY <1>1 DEF AnswerInv, SnapInv, JustifiedInv
<1>6. TakenInv'
  BY <1>1, <1>2 DEF SpansInv, TakenInv, InList
<1>7. CoverInv'
  BY <1>1 DEF CoverInv
<1>8. RealignLosesNothing'
  <2>1. CASE ~Realigning
    BY <1>2, <2>1 DEF RealignLosesNothing
  <2>2. CASE Realigning /\ pc' = "kept" /\ published' = cover
    BY <1>1, <2>2 DEF RealignLosesNothing
  <2>3. CASE Realigning /\ SameLabels /\ pc' = "done" /\ published' = published
    <3>1. {s.label : s \in published} = 0 .. n - 1
          /\ \A r, s \in published : r.start < s.start => r.label < s.label
      BY <2>3 DEF SameLabels, Labels
    <3>2. Cardinality(published) = Cardinality(cover)
      BY <1>1, <2>3, <3>1, Counted
    <3>3. ASSUME NEW s \in published
          PROVE  s.label = Cardinality({r \in published : r.start < s.start})
      <4> DEFINE earlier == {r \in published : r.start < s.start}
      <4>1. \A r \in published : r.label \in Nat /\ r.start \in Int
        BY <1>1 DEF Numbered, Spans
      <4>2. \A r \in published : r.start < s.start <=> r.label < s.label
        <5>1. TAKE r \in published
        <5>2. ASSUME r.label < s.label PROVE r.start < s.start
          <6>1. ~(s.start < r.start)
            BY <3>1, <4>1, <5>2
          <6>2. r.start # s.start
            BY <1>1, <4>1, <5>2 DEF Tiles
          <6>3. QED
            BY <4>1, <6>1, <6>2
        <5>3. QED
          BY <3>1, <5>2
      <4>3. {r.label : r \in earlier} = 0 .. s.label - 1
        <5>1. \A r \in earlier : r.label \in 0 .. s.label - 1
          BY <4>1, <4>2
        <5>2. ASSUME NEW i \in 0 .. s.label - 1 PROVE \E r \in earlier : r.label = i
          <6>1. s.label \in 0 .. n - 1
            BY <3>1
          <6>2. i \in 0 .. n - 1 /\ i < s.label
            BY <1>1, <4>1, <6>1
          <6>3. PICK r \in published : r.label = i
            BY <3>1, <6>2
          <6>4. QED
            BY <4>2, <6>2, <6>3
        <5>3. QED
          BY <5>1, <5>2
      <4>4. Numbered(earlier)
        BY <1>1, NumberedPart
      <4> HIDE DEF earlier
      <4>5. Cardinality(earlier) = s.label
        BY <4>1, <4>3, <4>4, Counted
      <4>6. QED
        BY <4>5 DEF earlier
    <3>4. QED
      BY <1>1, <2>3, <3>2, <3>3 DEF RealignLosesNothing
  <2>4. QED
    BY <1>1, <2>1, <2>2, <2>3
<1>9. QED
  BY <1>3, <1>4, <1>5, <1>6, <1>7, <1>8 DEF SpansInv

-----------------------------------------------------------------------------
(* What the invariant says.                                                 *)

LEMMA StepInv == SpansInv /\ [Next]_vars => SpansInv'
<1> SUFFICES ASSUME SpansInv, [Next]_vars PROVE SpansInv'
  OBVIOUS
<1>1. CASE Raise \/ RelabelFails \/ EndReply \/ Uncalibrated \/ UNCHANGED vars
  BY <1>1, PlainStep
<1>2. CASE GiveLabels \/ EndRaw
  BY <1>2, GiveLabelsStep, EndRawStep
<1>3. CASE \E start, end \in Times : RawSpan(start, end)
  BY <1>3, RawSpanStep
<1>4. CASE \E i \in 0 .. MaxSpans - 1, start, end \in Times : Entry(i, start, end)
  BY <1>4, EntryStep
<1>5. CASE NoBlocks \/ Solve \/ Shift
  BY <1>5, NoBlocksStep, SolveStep, ShiftStep
<1>6. CASE OrderNext \/ CheckCoverage \/ Clean
  BY <1>6, OrderNextStep, CheckCoverageStep, CleanStep
<1>7. CASE SnapNext \/ Stitch \/ StartRealign \/ Finish
  BY <1>7, SnapNextStep, StitchStep, StartRealignStep, FinishStep
<1>8. QED
  BY <1>1, <1>2, <1>3, <1>4, <1>5, <1>6, <1>7 DEF Next

(* A cover has one span at every frame: the latest that has begun.          *)
LEMMA OneActive ==
  ASSUME Tiles(published), Numbered(published), NEW f \in Frames
  PROVE  Cardinality(ActiveAt(f)) = 1
<1> DEFINE begun == {s \in published : s.start <= f}
           starts == {s.start : s \in begun}
<1>1. /\ \A s \in published : s.start \in Frames /\ s.start \in Int
      /\ \A r, s \in published : r.start = s.start => r = s
      /\ f \in Int /\ First <= f
  BY Episode DEF Tiles
<1>2. starts \in SUBSET Int /\ IsFiniteSet(starts) /\ starts # {}
  <2>1. starts \in SUBSET Frames
    BY <1>1
  <2>2. PICK s \in published : s.start = First
    BY DEF Tiles
  <2>3. s \in begun
    BY <1>1, <2>2
  <2>4. Frames \in SUBSET Int /\ IsFiniteSet(Frames)
    BY SpansAssumption
  <2>5. IsFiniteSet(starts)
    <3> HIDE DEF starts
    <3> QED BY <2>1, <2>4, FS_Subset
  <2>6. s.start \in starts
    BY <2>3
  <2>7. QED
    BY <2>1, <2>4, <2>5, <2>6
<1>3. PICK s \in begun : \A x \in starts : x <= s.start
  <2>1. Max(starts) \in starts /\ \A x \in starts : x <= Max(starts)
    BY <1>2, Extremes
  <2>2. QED
    BY <2>1
<1>4. s \in ActiveAt(f)
  BY <1>3 DEF ActiveAt
<1>5. ASSUME NEW r \in ActiveAt(f) PROVE r = s
  <2>1. r \in published /\ r.start <= f /\ s.start <= r.start
    BY <1>3, <1>5 DEF ActiveAt
  <2>2. r.start <= s.start
    BY <1>3, <2>1
  <2>3. r.start = s.start
    BY <1>1, <1>3, <2>1, <2>2
  <2>4. QED
    BY <1>1, <1>3, <2>1, <2>3
<1>6. ActiveAt(f) = {s}
  BY <1>4, <1>5
<1>7. QED
  BY <1>6, FS_Singleton

LEMMA InvKeepsSpans == SpansInv => SpansKept
<1> SUFFICES ASSUME SpansInv PROVE SpansKept
  OBVIOUS
<1>1. TypeOK
  BY DEF SpansInv, ShapeInv, Numbered, TypeOK
<1>2. OrderKept
  <2>1. SUFFICES ASSUME Aligned, NEW r \in taken, NEW s \in todo PROVE r.label < s.label
    BY DEF OrderKept, SpansInv, TakenInv, InList
  <2>2. pc = "snap"
    BY <2>1 DEF SpansInv, UseInv
  <2>3. /\ s \in spans
        /\ \A p, q \in spans : p.label < q.label => p.start <= q.start
        /\ \E p \in spans \ todo : r.label = p.label /\ Before(p, s)
    BY <2>1, <2>2 DEF SpansInv, SnapInv
  <2>4. PICK p \in spans \ todo : r.label = p.label /\ Before(p, s)
    BY <2>3
  <2>5. /\ \A q \in spans : q.label \in Nat /\ q.start \in Int
        /\ p.label = s.label => p = s
    BY <2>3 DEF SpansInv, ShapeInv, Numbered, Spans
  <2>6. p.label # s.label
    BY <2>1, <2>4, <2>5
  <2>7. ~(s.label < p.label)
    BY <2>3, <2>4, <2>5, <2>6 DEF Before
  <2>8. QED
    BY <2>3, <2>4, <2>5, <2>6, <2>7
<1>3. NeverSwapped
  BY DEF NeverSwapped, SpansInv, AnswerInv, Forwards
<1>4. RealignLosesNothing
  BY DEF SpansInv
<1>5. Tiled
  <2>1. SUFFICES ASSUME pc \in {"stitched", "done", "kept"}, published # {}
                 PROVE  /\ \A f \in Frames : Cardinality(ActiveAt(f)) = 1
                        /\ \A s \in published :
                             /\ s.start \in Frames
                             /\ s.end = Last \/ \E r \in published : r.start = s.end /\ s.start < s.end
    BY DEF Tiled
  <2>2. Tiles(published) /\ Numbered(published)
    BY <2>1 DEF SpansInv, ShapeInv, CoverInv
  <2>3. QED
    BY <2>2, OneActive DEF Tiles
<1>6. BumpedMinimally
  <2>1. SUFFICES ASSUME pc = "snap", NEW s \in spans \ todo
                 PROVE  LET blocked == {f \in Frames : f >= Snap(s.start)}
                        IN  IF \E r \in taken : r.label = s.label
                            THEN \A r \in taken : r.label = s.label =>
                                   r.start \in blocked /\ {f \in blocked : f < r.start} \subseteq TakenFrames
                            ELSE blocked \subseteq TakenFrames
    BY DEF BumpedMinimally
  <2>2. Justified(s)
    BY <2>1 DEF SpansInv, JustifiedInv
  <2>3. Snap(s.start) \in Int /\ \A f \in Frames : f \in Int
    BY <2>1, Snapped, Episode DEF SpansInv, ShapeInv, Numbered, Spans
  <2> HIDE DEF Snap
  <2>4. \A f \in Frames : f >= Snap(s.start) <=> Snap(s.start) <= f
    BY <2>3
  <2>5. QED
    BY <2>2, <2>4 DEF Justified
<1>7. QED
  BY <1>1, <1>2, <1>3, <1>4, <1>5, <1>6 DEF SpansKept, LabelsKept, EpisodeTiled

(* From any answer to the staged spans: labels of a list stay in its order,  *)
(* none has its boundary moved by a swap or is given up while a frame is     *)
(* free, a realignment loses no subtask, and the spans tile the episode.     *)
THEOREM SpansAlwaysKept == Spec => []SpansKept
<1>1. Spec => []SpansInv
  BY InitInv, StepInv, PTL DEF Spec
<1>2. QED
  BY <1>1, InvKeepsSpans, PTL

LEMMA EpisodeSpans == EpisodeSpec => []SpansInv
<1>1. EpisodeInit => SpansInv
  BY InitInv DEF EpisodeInit
<1>2. SpansInv /\ [EpisodeNext]_<< visual, vars >> => SpansInv'
  <2>1. [EpisodeNext]_<< visual, vars >> => [Next]_vars
    BY DEF EpisodeNext, See, Place
  <2>2. QED
    BY <2>1, StepInv
<1>3. QED
  BY <1>1, <1>2, PTL DEF EpisodeSpec

(* The same behind the requests of the episode, whatever becomes of them     *)
(* (_subtask_spans, with the requests of VisualRequest).                     *)
THEOREM EpisodeKept == EpisodeSpec => []SpansKept
BY EpisodeSpans, InvKeepsSpans, PTL

-----------------------------------------------------------------------------
(* Natural numbers: the least of a set, and induction for a set.            *)

Below == {p \in Nat \X Nat : p[1] < p[2]}

LEMMA BelowWellFounded == IsWellFoundedOn(Below, Nat)
BY NatLessThanWellFounded DEF OpToRel, Below

LEMMA LeastNat ==
  ASSUME NEW S \in SUBSET Nat, S # {}
  PROVE  \E m \in S : \A i \in S : m <= i
<1>1. PICK m \in S : \A i \in S : << i, m >> \notin Below
  BY BelowWellFounded, WFMin
<1>2. \A i \in S : i \in Nat /\ m \in Nat /\ ~ (i < m)
  BY <1>1 DEF Below
<1>3. \A i \in S : m <= i
  BY <1>2
<1>4. QED
  BY <1>3

LEMMA InductionOnSets ==
  \A S \in SUBSET Nat : 0 \in S /\ (\A i \in S : i + 1 \in S) => Nat \subseteq S
<1> TAKE S \in SUBSET Nat
<1> HAVE 0 \in S /\ \A i \in S : i + 1 \in S
<1> DEFINE T == Nat \ S
<1>1. ASSUME T # {} PROVE FALSE
  <2>1. PICK m \in T : \A i \in T : m <= i
    BY <1>1, LeastNat
  <2>2. m # 0 /\ m - 1 \in Nat /\ m = (m - 1) + 1 /\ ~ (m <= m - 1)
    BY <2>1
  <2>3. m - 1 \in S
    BY <2>1, <2>2
  <2>4. QED
    BY <2>1, <2>2, <2>3
<1>2. QED
  BY <1>1

-----------------------------------------------------------------------------
(* What the boundary solver computes.                                       *)

LEMMA Priced ==
  ASSUME NEW x \in Int, NEW y \in Int, NEW z \in Int
  PROVE  Fit(x, y) \in Int /\ Gap(x, y, z) \in Int
<1>1. FitCost \in Int /\ LengthCost \in Int
  BY SolverAssumption
<1>2. Abs(y - x) \in Int /\ Abs(z - y - x) \in Int
  BY DEF Abs
<1>3. \A a, b \in Int : a * b \in Int
  OBVIOUS
<1>4. QED
  BY <1>1, <1>2, <1>3 DEF Fit, Gap

LEMMA GridFrom ==
  ASSUME NEW first \in Int, NEW last \in Int, first <= last
  PROVE  /\ Grid(first, last) \in SUBSET Int /\ IsFiniteSet(Grid(first, last))
         /\ first \in Grid(first, last) /\ Min(Grid(first, last)) = first
<1> DEFINE grid == Grid(first, last)
<1>1. grid \subseteq first .. last
  BY DEF Grid
<1>2. IsFiniteSet(first .. last)
  BY FS_Interval
<1>3. IsFiniteSet(grid)
  BY <1>1, <1>2, FS_Subset
<1>4. first \in grid
  <2>1. first - first = 0 /\ 0 % GridStep = 0
    BY SolverAssumption
  <2>2. QED
    BY <2>1 DEF Grid
<1> HIDE DEF grid
<1>5. grid \in SUBSET Int /\ \A t \in grid : first <= t
  BY <1>1
<1> DEFINE least == Min(grid)
<1>6. least \in grid /\ least <= first
  BY <1>3, <1>4, <1>5, Extremes
<1> HIDE DEF least
<1>7. least = first
  BY <1>5, <1>6
<1>8. QED
  BY <1>3, <1>4, <1>5, <1>7 DEF grid, least

LEMMA LeastValue ==
  ASSUME NEW D, IsFiniteSet(D), D # {}, NEW g \in [D -> Int]
  PROVE  /\ Min({g[x] : x \in D}) \in Int
         /\ \E y \in D : Min({g[x] : x \in D}) = g[y]
         /\ \A y \in D : Min({g[x] : x \in D}) <= g[y]
<1> DEFINE S == {g[x] : x \in D}
<1>1. g \in Surjection(D, S)
  BY DEF Surjection
<1>2. IsFiniteSet(S)
  BY <1>1, FS_Surjection
<1>3. S \in SUBSET Int /\ S # {}
  OBVIOUS
<1>4. Min(S) \in S /\ \A x \in S : Min(S) <= x
  BY <1>2, <1>3, Extremes
<1>5. QED
  BY <1>3, <1>4

(* The costs of a label from those of the one before.                       *)
NextCosts(grid, aim, want, i, before) ==
  [t \in grid |-> Fit(aim[i], t) +
     IF i = 1 THEN Gap(want[0], Min(grid), t)
     ELSE Min({before[u] + Gap(want[i - 1], u, t) : u \in {v \in grid : v <= t}})]

Costs(cost, grid, aim, want, k) ==
  cost = [i \in 1 .. k |-> NextCosts(grid, aim, want, i, cost[i - 1])]

LEMMA CostsExist ==
  ASSUME NEW grid, NEW aim, NEW want, NEW k \in Nat
  PROVE  \E cost : Costs(cost, grid, aim, want, k)
<1> DEFINE K == {j \in Nat : \E cost : Costs(cost, grid, aim, want, j)}
<1>1. 0 \in K
  <2>1. Costs([i \in 1 .. 0 |-> 0], grid, aim, want, 0)
    BY DEF Costs
  <2>2. QED
    BY <2>1
<1>2. \A j \in K : j + 1 \in K
  <2>1. TAKE j \in K
  <2>2. PICK cost : Costs(cost, grid, aim, want, j)
    OBVIOUS
  <2> DEFINE longer == [i \in 1 .. j + 1 |-> NextCosts(grid, aim, want, i, cost[i - 1])]
  <2>3. \A i \in 1 .. j : longer[i] = cost[i]
    BY <2>2 DEF Costs
  <2>4. ASSUME NEW i \in 1 .. j + 1
        PROVE  longer[i] = NextCosts(grid, aim, want, i, longer[i - 1])
    <3>1. CASE i = 1
      BY <3>1 DEF NextCosts
    <3>2. CASE i # 1
      <4>1. i - 1 \in 1 .. j
        BY <3>2
      <4>2. QED
        BY <4>1, <2>3
    <3>3. QED
      BY <3>1, <3>2
  <2>5. longer = [i \in 1 .. j + 1 |-> longer[i]]
    OBVIOUS
  <2> HIDE DEF longer
  <2>6. Costs(longer, grid, aim, want, j + 1)
    BY <2>4, <2>5 DEF Costs
  <2>7. QED
    BY <2>6
<1>3. Nat \subseteq K
  <2>1. K \in SUBSET Nat
    OBVIOUS
  <2> HIDE DEF K
  <2>2. QED
    BY <2>1, <1>1, <1>2, InductionOnSets
<1>4. QED
  BY <1>3

(* No start is cheaper than the one before it allows, and one that was read *)
(* back is as cheap as that.                                                *)
Stepwise(cost, grid, aim, want, k) ==
  \A i \in 2 .. k : \A t \in grid : \A u \in grid :
    u <= t =>
      /\ cost[i][t] <= Fit(aim[i], t) + (cost[i - 1][u] + Gap(want[i - 1], u, t))
      /\ u \in Minimizers([x \in {v \in grid : v <= t} |->
                             cost[i - 1][x] + Gap(want[i - 1], x, t)])
         => cost[i][t] = Fit(aim[i], t) + (cost[i - 1][u] + Gap(want[i - 1], u, t))

LEMMA CostSteps ==
  ASSUME NEW grid \in SUBSET Int, IsFiniteSet(grid),
         NEW k \in Nat, NEW aim \in [1 .. k -> Int], NEW want \in [0 .. k -> Int],
         Min(grid) \in Int,
         NEW cost, Costs(cost, grid, aim, want, k)
  PROVE  /\ \A i \in 1 .. k : cost[i] \in [grid -> Int]
         /\ 1 \in 1 .. k =>
              \A t \in grid : cost[1][t] = Fit(aim[1], t) + Gap(want[0], Min(grid), t)
         /\ Stepwise(cost, grid, aim, want, k)
<1> DEFINE Upto(t) == {v \in grid : v <= t}
           Sums(i, t) == [x \in Upto(t) |-> cost[i - 1][x] + Gap(want[i - 1], x, t)]
<1>1. ASSUME NEW i \in 2 .. k, cost[i - 1] \in [grid -> Int], NEW t \in grid
      PROVE  /\ cost[i][t] = Fit(aim[i], t) + Min({Sums(i, t)[x] : x \in Upto(t)})
             /\ Sums(i, t) \in [Upto(t) -> Int]
             /\ Min({Sums(i, t)[x] : x \in Upto(t)}) \in Int
             /\ \A x \in Upto(t) : Min({Sums(i, t)[y] : y \in Upto(t)}) <= Sums(i, t)[x]
             /\ Fit(aim[i], t) \in Int
  <2>1. i \in 1 .. k /\ i # 1 /\ i - 1 \in 0 .. k
    OBVIOUS
  <2>2. cost[i][t] = Fit(aim[i], t) +
                       Min({cost[i - 1][u] + Gap(want[i - 1], u, t) : u \in Upto(t)})
    <3>1. cost[i] = NextCosts(grid, aim, want, i, cost[i - 1])
      BY <2>1 DEF Costs
    <3>2. QED
      BY <3>1, <2>1 DEF NextCosts
  <2>3. {cost[i - 1][u] + Gap(want[i - 1], u, t) : u \in Upto(t)}
          = {Sums(i, t)[x] : x \in Upto(t)}
    OBVIOUS
  <2>4. ASSUME NEW x \in Upto(t) PROVE cost[i - 1][x] + Gap(want[i - 1], x, t) \in Int
    <3>1. want[i - 1] \in Int /\ x \in Int /\ t \in Int /\ cost[i - 1][x] \in Int
      BY <1>1, <2>1
    <3>2. Gap(want[i - 1], x, t) \in Int
      BY <3>1, Priced
    <3>3. \A p, q \in Int : p + q \in Int
      OBVIOUS
    <3>4. QED
      BY <3>1, <3>2, <3>3, Zenon
  <2>5. Sums(i, t) \in [Upto(t) -> Int]
    BY <2>4
  <2>6. IsFiniteSet(Upto(t)) /\ Upto(t) # {}
    <3>1. t \in Upto(t) /\ Upto(t) \subseteq grid
      OBVIOUS
    <3>2. QED
      BY <3>1, FS_Subset
  <2>7. Fit(aim[i], t) \in Int
    <3>1. aim[i] \in Int /\ t \in Int
      BY <2>1
    <3>2. QED
      BY <3>1, Priced
  <2> HIDE DEF Sums, Upto
  <2>8. QED
    BY <2>2, <2>3, <2>5, <2>6, <2>7, LeastValue
<1>2. ASSUME 1 \in 1 .. k
      PROVE  /\ \A t \in grid : cost[1][t] = Fit(aim[1], t) + Gap(want[0], Min(grid), t)
             /\ cost[1] \in [grid -> Int]
  <2>1. cost[1] = [t \in grid |-> Fit(aim[1], t) + Gap(want[0], Min(grid), t)]
    BY <1>2 DEF Costs, NextCosts
  <2>2. ASSUME NEW t \in grid PROVE Fit(aim[1], t) + Gap(want[0], Min(grid), t) \in Int
    <3>1. aim[1] \in Int /\ t \in Int /\ want[0] \in Int
      BY <1>2
    <3>2. Fit(aim[1], t) \in Int /\ Gap(want[0], Min(grid), t) \in Int
      BY <3>1, Priced
    <3>3. QED
      BY <3>2
  <2>3. QED
    BY <2>1, <2>2
<1>3. \A i \in 1 .. k : cost[i] \in [grid -> Int]
  <2> DEFINE K == {j \in Nat : j + 1 <= k => cost[j + 1] \in [grid -> Int]}
  <2>1. 0 \in K
    BY <1>2
  <2>2. \A j \in K : j + 1 \in K
    <3>1. SUFFICES ASSUME NEW j \in Nat, j + 2 <= k, cost[j + 1] \in [grid -> Int]
                   PROVE  cost[j + 2] \in [grid -> Int]
      <4>1. \A j \in K : j \in Nat /\ (j + 1) + 1 = j + 2 /\ (j + 2 <= k => j + 1 <= k)
        OBVIOUS
      <4>2. QED
        BY <4>1, SMTT(30)
    <3>2. j + 2 \in 2 .. k /\ (j + 2) - 1 = j + 1 /\ j + 2 \in 1 .. k
      BY <3>1
    <3>3. ASSUME NEW t \in grid PROVE cost[j + 2][t] \in Int
      <4> DEFINE least == Min({Sums(j + 2, t)[x] : x \in Upto(t)})
      <4>1. cost[j + 2][t] = Fit(aim[j + 2], t) + least /\ least \in Int
            /\ Fit(aim[j + 2], t) \in Int
        <5> HIDE DEF Sums, Upto
        <5>1. QED
          BY <3>1, <3>2, <1>1
      <4> HIDE DEF least
      <4>2. QED
        BY <4>1
    <3>4. cost[j + 2] = [t \in grid |-> cost[j + 2][t]]
      <4>1. cost[j + 2] = NextCosts(grid, aim, want, j + 2, cost[j + 1])
        BY <3>2 DEF Costs
      <4>2. QED
        BY <4>1 DEF NextCosts
    <3>5. QED
      BY <3>3, <3>4
  <2>3. Nat \subseteq K
    <3>1. K \in SUBSET Nat
      OBVIOUS
    <3> HIDE DEF K
    <3>2. QED
      BY <3>1, <2>1, <2>2, InductionOnSets
  <2>4. ASSUME NEW i \in 1 .. k PROVE cost[i] \in [grid -> Int]
    <3>1. i - 1 \in Nat /\ (i - 1) + 1 = i /\ i <= k
      OBVIOUS
    <3>2. i - 1 \in K
      BY <3>1, <2>3
    <3>3. QED
      BY <3>1, <3>2
  <2>5. QED
    BY <2>4
<1>4. ASSUME NEW i \in 2 .. k, NEW t \in grid, NEW u \in grid, u <= t
      PROVE  /\ cost[i][t] <= Fit(aim[i], t) + (cost[i - 1][u] + Gap(want[i - 1], u, t))
             /\ u \in Minimizers(Sums(i, t))
                => cost[i][t] = Fit(aim[i], t) + (cost[i - 1][u] + Gap(want[i - 1], u, t))
  <2>1. i - 1 \in 1 .. k
    OBVIOUS
  <2>2. cost[i - 1] \in [grid -> Int]
    BY <2>1, <1>3
  <2>3. u \in Upto(t) /\ Sums(i, t)[u] = cost[i - 1][u] + Gap(want[i - 1], u, t)
    BY <1>4
  <2>4. DOMAIN Sums(i, t) = Upto(t)
    OBVIOUS
  <2> HIDE DEF Sums, Upto
  <2> DEFINE least == Min({Sums(i, t)[x] : x \in Upto(t)})
  <2>5. /\ cost[i][t] = Fit(aim[i], t) + least
        /\ least \in Int /\ Fit(aim[i], t) \in Int
        /\ Sums(i, t)[u] \in Int
        /\ least <= Sums(i, t)[u]
    BY <1>1, <2>2, <2>3
  <2>6. u \in Minimizers(Sums(i, t)) => Sums(i, t)[u] = least
    BY <2>4 DEF Minimizers
  <2> HIDE DEF least
  <2>7. cost[i][t] <= Fit(aim[i], t) + Sums(i, t)[u]
    BY <2>5
  <2>8. QED
    BY <2>3, <2>5, <2>6, <2>7
<1>5. Stepwise(cost, grid, aim, want, k)
  BY <1>4 DEF Stepwise
<1>6. QED
  BY <1>2, <1>3, <1>5

(* Reported starts and expected lengths; boundaries, those in order, and    *)
(* their price up to each label.                                            *)
Asked(aim, want, k) == aim \in [1 .. k -> Int] /\ want \in [0 .. k -> Int]
Chosen(b, grid, k)  == b \in [1 .. k -> grid]
Ordered(b, k)       == \A i \in 2 .. k : b[i - 1] <= b[i]

Prices(price, first, aim, want, b, k) ==
  price = [i \in 1 .. k |->
             Fit(aim[i], b[i]) + Gap(want[i - 1], IF i = 1 THEN first ELSE b[i - 1], b[i])
             + (IF i = 1 THEN 0 ELSE price[i - 1])]

LEMMA PricesExist ==
  ASSUME NEW first, NEW aim, NEW want, NEW b, NEW k \in Nat
  PROVE  \E price : Prices(price, first, aim, want, b, k)
<1> DEFINE Own(i) == Fit(aim[i], b[i]) + Gap(want[i - 1], IF i = 1 THEN first ELSE b[i - 1], b[i])
           K == {j \in Nat : \E price : Prices(price, first, aim, want, b, j)}
<1>1. 0 \in K
  <2>1. Prices([i \in 1 .. 0 |-> 0], first, aim, want, b, 0)
    BY DEF Prices
  <2>2. QED
    BY <2>1
<1>2. \A j \in K : j + 1 \in K
  <2>1. TAKE j \in K
  <2>2. PICK price : Prices(price, first, aim, want, b, j)
    OBVIOUS
  <2> DEFINE longer == [i \in 1 .. j + 1 |-> Own(i) + (IF i = 1 THEN 0 ELSE price[i - 1])]
  <2>3. \A i \in 1 .. j : longer[i] = price[i]
    BY <2>2 DEF Prices
  <2>4. ASSUME NEW i \in 1 .. j + 1
        PROVE  longer[i] = Own(i) + (IF i = 1 THEN 0 ELSE longer[i - 1])
    <3>1. longer[i] = Own(i) + (IF i = 1 THEN 0 ELSE price[i - 1])
      OBVIOUS
    <3>2. i # 1 => i - 1 \in 1 .. j
      OBVIOUS
    <3>3. i # 1 => longer[i - 1] = price[i - 1]
      BY <2>3, <3>2
    <3> HIDE DEF longer, Own
    <3>4. QED
      BY <3>1, <3>3
  <2>5. longer = [i \in 1 .. j + 1 |-> longer[i]]
    OBVIOUS
  <2> HIDE DEF longer
  <2>6. Prices(longer, first, aim, want, b, j + 1)
    BY <2>4, <2>5 DEF Prices
  <2>7. QED
    BY <2>6
<1>3. Nat \subseteq K
  <2>1. K \in SUBSET Nat
    OBVIOUS
  <2> HIDE DEF K
  <2>2. QED
    BY <2>1, <1>1, <1>2, InductionOnSets
<1>4. QED
  BY <1>3

LEMMA Regrouped ==
  ASSUME NEW x \in Int, NEW y \in Int, NEW z \in Int
  PROVE  x + y + z = x + (z + y) /\ x + y + z \in Int
OBVIOUS

LEMMA Cheaper ==
  ASSUME NEW c \in Int, NEW d \in Int, NEW p \in Int, NEW x \in Int, NEW y \in Int,
         c <= x + (d + y), d <= p
  PROVE  c <= x + (p + y)
OBVIOUS

LEMMA Indices ==
  ASSUME NEW k \in Nat, NEW i \in 2 .. k
  PROVE  i \in 1 .. k /\ i # 1 /\ i - 1 \in 1 .. k /\ i - 1 \in 0 .. k
OBVIOUS

LEMMA StepPriced ==
  ASSUME NEW k \in Nat, NEW aim, NEW want, Asked(aim, want, k),
         NEW b, Chosen(b, Int, k), NEW i \in 2 .. k
  PROVE  Fit(aim[i], b[i]) \in Int /\ Gap(want[i - 1], b[i - 1], b[i]) \in Int
<1>1. aim[i] \in Int /\ b[i] \in Int /\ b[i - 1] \in Int /\ want[i - 1] \in Int
  BY Indices DEF Asked, Chosen
<1>2. QED
  BY <1>1, Priced

LEMMA PriceSteps ==
  ASSUME NEW first \in Int, NEW k \in Nat, NEW aim, NEW want, Asked(aim, want, k),
         NEW b, Chosen(b, Int, k), NEW price, Prices(price, first, aim, want, b, k)
  PROVE  /\ \A i \in 1 .. k : price[i] \in Int
         /\ 1 \in 1 .. k => price[1] = Fit(aim[1], b[1]) + Gap(want[0], first, b[1])
         /\ \A i \in 2 .. k :
              price[i] = Fit(aim[i], b[i]) + (price[i - 1] + Gap(want[i - 1], b[i - 1], b[i]))
<1>1. ASSUME 1 \in 1 .. k
      PROVE  /\ price[1] = Fit(aim[1], b[1]) + Gap(want[0], first, b[1])
             /\ price[1] \in Int
  <2>1. price[1] = Fit(aim[1], b[1]) + Gap(want[0], first, b[1]) + 0
    BY <1>1 DEF Prices
  <2>2. Fit(aim[1], b[1]) \in Int /\ Gap(want[0], first, b[1]) \in Int
    <3>1. aim[1] \in Int /\ b[1] \in Int /\ want[0] \in Int
      BY <1>1 DEF Asked, Chosen
    <3>2. QED
      BY <3>1, Priced
  <2>3. QED
    BY <2>1, <2>2
<1>2. ASSUME NEW i \in 2 .. k, price[i - 1] \in Int
      PROVE  /\ price[i] = Fit(aim[i], b[i]) + (price[i - 1] + Gap(want[i - 1], b[i - 1], b[i]))
             /\ price[i] \in Int
  <2>1. price[i] = Fit(aim[i], b[i]) + Gap(want[i - 1], b[i - 1], b[i]) + price[i - 1]
    BY Indices DEF Prices
  <2>2. Fit(aim[i], b[i]) \in Int /\ Gap(want[i - 1], b[i - 1], b[i]) \in Int
    BY StepPriced
  <2> DEFINE own == Fit(aim[i], b[i])  step == Gap(want[i - 1], b[i - 1], b[i])
  <2>3. own + step + price[i - 1] = own + (price[i - 1] + step)
        /\ own + step + price[i - 1] \in Int
    <3> HIDE DEF own, step
    <3>1. own \in Int /\ step \in Int
      BY <2>2 DEF own, step
    <3>2. QED
      BY <3>1, <1>2, Regrouped
  <2>4. QED
    BY <2>1, <2>3, Zenon
<1>3. \A i \in 1 .. k : price[i] \in Int
  <2> DEFINE K == {j \in Nat : j + 1 <= k => price[j + 1] \in Int}
  <2>1. 0 \in K
    BY <1>1
  <2>2. \A j \in K : j + 1 \in K
    <3>1. SUFFICES ASSUME NEW j \in Nat, j + 2 <= k, price[j + 1] \in Int
                   PROVE  price[j + 2] \in Int
      <4>1. \A j \in K : j \in Nat /\ (j + 1) + 1 = j + 2 /\ (j + 2 <= k => j + 1 <= k)
        OBVIOUS
      <4>2. QED
        BY <4>1
    <3>2. j + 2 \in 2 .. k /\ (j + 2) - 1 = j + 1
      BY <3>1
    <3>3. QED
      BY <3>1, <3>2, <1>2
  <2>3. Nat \subseteq K
    <3>1. K \in SUBSET Nat
      OBVIOUS
    <3> HIDE DEF K
    <3>2. QED
      BY <3>1, <2>1, <2>2, InductionOnSets
  <2>4. ASSUME NEW i \in 1 .. k PROVE price[i] \in Int
    <3>1. i - 1 \in Nat /\ (i - 1) + 1 = i /\ i <= k
      OBVIOUS
    <3>2. i - 1 \in K
      BY <3>1, <2>3
    <3>3. QED
      BY <3>1, <3>2
  <2>5. QED
    BY <2>4
<1>4. ASSUME NEW i \in 2 .. k
      PROVE  price[i] = Fit(aim[i], b[i]) + (price[i - 1] + Gap(want[i - 1], b[i - 1], b[i]))
  <2>1. price[i - 1] \in Int
    BY Indices, <1>3
  <2>2. QED
    BY <2>1, <1>2
<1>5. QED
  BY <1>1, <1>3, <1>4

LEMMA UpTo ==
  ASSUME NEW k \in Nat \ {0}
  PROVE  /\ 1 \in 1 .. k /\ k \in 1 .. k /\ k \in 0 .. k /\ k \in Nat /\ k - 1 \in Nat /\ (k - 1) + 1 = k
         /\ Max(1 .. k) = k
<1>1. 1 .. k \in SUBSET Int /\ IsFiniteSet(1 .. k) /\ 1 .. k # {} /\ k \in 1 .. k
  <2>1. IsFiniteSet(1 .. k)
    BY FS_Interval
  <2>2. k \in 1 .. k
    OBVIOUS
  <2>3. QED
    BY <2>1, <2>2
<1> DEFINE m == Max(1 .. k)
<1>2. m \in 1 .. k /\ k <= m
  BY <1>1, Extremes
<1> HIDE DEF m
<1>3. m = k
  BY <1>2
<1>4. QED
  BY <1>3 DEF m

(* A solution is as cheap as any boundaries in order.                       *)
LEMMA CheapestSolution ==
  ASSUME NEW first \in Int, NEW last \in Int, first <= last, NEW k \in Nat \ {0},
         NEW aim, NEW want, Asked(aim, want, k),
         NEW s \in Solutions(first, last, aim, want),
         NEW b, Chosen(b, Grid(first, last), k), Ordered(b, k),
         NEW least, Prices(least, first, aim, want, s, k),
         NEW price, Prices(price, first, aim, want, b, k)
  PROVE  least[k] + Gap(want[k], s[k], last) <= price[k] + Gap(want[k], b[k], last)
<1> DEFINE grid == Grid(first, last)
           cost == Cheapest(grid, aim, want)
           ends == [t \in grid |-> cost[k][t] + Gap(want[k], t, last)]
           Earlier(i, t) == [x \in {v \in grid : v <= t} |-> cost[i - 1][x] + Gap(want[i - 1], x, t)]
<1>1. /\ grid \in SUBSET Int /\ IsFiniteSet(grid) /\ grid # {} /\ Min(grid) = first
  BY GridFrom
<1>2. DOMAIN aim = 1 .. k /\ aim \in [1 .. k -> Int] /\ want \in [0 .. k -> Int]
  BY DEF Asked
<1>3. Costs(cost, grid, aim, want, k)
  <2>1. cost = CHOOSE c : Costs(c, grid, aim, want, k)
    BY <1>2 DEF Cheapest, Costs, NextCosts
  <2> HIDE DEF cost, grid
  <2>2. QED
    BY <2>1, UpTo, CostsExist
<1>4. /\ Chosen(s, grid, k)
      /\ s[k] \in Minimizers(ends)
      /\ ReadBack(grid, cost, want, s)
  <2> HIDE DEF grid, cost
  <2>1. s \in {x \in [1 .. k -> grid] : x[k] \in Minimizers(ends) /\ ReadBack(grid, cost, want, x)}
    BY <1>2, UpTo DEF Solutions, grid, cost
  <2>2. QED
    BY <2>1 DEF Chosen
<1> HIDE DEF grid, cost
<1>5. /\ \A i \in 1 .. k : cost[i] \in [grid -> Int]
      /\ \A t \in grid : cost[1][t] = Fit(aim[1], t) + Gap(want[0], first, t)
      /\ \A i \in 2 .. k : \A t \in grid : \A u \in grid :
           u <= t =>
             /\ cost[i][t] <= Fit(aim[i], t) + (cost[i - 1][u] + Gap(want[i - 1], u, t))
             /\ u \in Minimizers(Earlier(i, t))
                => cost[i][t] = Fit(aim[i], t) + (cost[i - 1][u] + Gap(want[i - 1], u, t))
  <2>1. Min(grid) \in Int /\ k \in Nat /\ 1 \in 1 .. k
    BY <1>1, UpTo
  <2>2. \A i \in 1 .. k : cost[i] \in [grid -> Int]
    BY <1>1, <1>2, <1>3, <2>1, CostSteps
  <2>3. \A t \in grid : cost[1][t] = Fit(aim[1], t) + Gap(want[0], Min(grid), t)
    BY <1>1, <1>2, <1>3, <2>1, CostSteps
  <2>4. Stepwise(cost, grid, aim, want, k)
    BY <1>1, <1>2, <1>3, <2>1, CostSteps
  <2>5. QED
    BY <2>2, <2>3, <2>4, <1>1, Zenon DEF Stepwise
<1>6. ASSUME NEW i \in 2 .. k PROVE s[i - 1] \in Minimizers(Earlier(i, s[i]))
  <2>1. i \in DOMAIN s \ {1}
    BY <1>4, Indices DEF Chosen
  <2>2. QED
    BY <2>1, <1>4 DEF ReadBack
<1> DEFINE upTo(t) == {v \in grid : v <= t}
<1>7. \A i \in 2 .. k : \A t \in grid : Minimizers(Earlier(i, t)) \subseteq upTo(t)
  BY DEF Minimizers
<1> HIDE DEF Earlier
<1>8. Ordered(s, k)
  BY <1>6, <1>7, <1>4, Indices, UpTo DEF Ordered, Chosen
<1> HIDE DEF upTo
<1>9. Chosen(b, grid, k) /\ Chosen(s, Int, k) /\ Chosen(b, Int, k)
  BY <1>1, <1>4 DEF Chosen, grid
<1>10. /\ \A i \in 1 .. k : price[i] \in Int /\ least[i] \in Int
       /\ price[1] = Fit(aim[1], b[1]) + Gap(want[0], first, b[1])
       /\ least[1] = Fit(aim[1], s[1]) + Gap(want[0], first, s[1])
       /\ \A i \in 2 .. k :
            /\ price[i] = Fit(aim[i], b[i]) + (price[i - 1] + Gap(want[i - 1], b[i - 1], b[i]))
            /\ least[i] = Fit(aim[i], s[i]) + (least[i - 1] + Gap(want[i - 1], s[i - 1], s[i]))
  BY <1>9, UpTo, PriceSteps
<1>11. \A i \in 1 .. k : b[i] \in grid /\ s[i] \in grid
  BY <1>4, <1>9 DEF Chosen
<1> DEFINE Best(i) == cost[i][b[i]] <= price[i] /\ cost[i][s[i]] = least[i]
           K == {j \in Nat : j + 1 <= k => Best(j + 1)}
<1>12. Best(1)
  <2>1. b[1] \in grid /\ s[1] \in grid /\ price[1] \in Int
    BY <1>10, <1>11, UpTo
  <2>2. cost[1][b[1]] = price[1] /\ cost[1][s[1]] = least[1]
    BY <1>5, <1>10, <2>1, Zenon
  <2>3. QED
    BY <2>1, <2>2
<1>13. ASSUME NEW i \in 2 .. k, Best(i - 1) PROVE Best(i)
  <2>1. i \in 1 .. k /\ i - 1 \in 1 .. k
    BY Indices, UpTo
  <2>2. /\ b[i] \in grid /\ b[i - 1] \in grid /\ s[i] \in grid /\ s[i - 1] \in grid
        /\ price[i - 1] \in Int
    BY <1>10, <1>11, <2>1, Zenon
  <2>3. b[i - 1] <= b[i] /\ s[i - 1] <= s[i]
    BY <1>8, Zenon DEF Ordered
  <2>4. cost[i][b[i]] \in Int /\ cost[i - 1][b[i - 1]] \in Int
    BY <1>5, <2>1, <2>2
  <2>5. cost[i][b[i]] <= Fit(aim[i], b[i]) + (cost[i - 1][b[i - 1]] + Gap(want[i - 1], b[i - 1], b[i]))
    BY <1>5, <2>2, <2>3, Zenon
  <2>6. cost[i][s[i]] = Fit(aim[i], s[i]) + (cost[i - 1][s[i - 1]] + Gap(want[i - 1], s[i - 1], s[i]))
    BY <1>5, <1>6, <2>2, <2>3, Zenon
  <2>7. Fit(aim[i], b[i]) \in Int /\ Gap(want[i - 1], b[i - 1], b[i]) \in Int
    BY <1>9, UpTo, StepPriced
  <2>8. cost[i][b[i]] <= Fit(aim[i], b[i]) + (price[i - 1] + Gap(want[i - 1], b[i - 1], b[i]))
    BY <1>13, <2>2, <2>4, <2>5, <2>7, Cheaper, Zenon
  <2>9. cost[i][b[i]] <= price[i]
    BY <1>10, <2>8, Zenon
  <2>10. cost[i][s[i]] = least[i]
    BY <1>10, <1>13, <2>6, Zenon
  <2>11. QED
    BY <2>9, <2>10
<1> HIDE DEF Best
<1>14. 0 \in K
  BY <1>12
<1>15. \A j \in K : j + 1 \in K
  <2>1. SUFFICES ASSUME NEW j \in K, j + 2 <= k PROVE Best(j + 2)
    <3>1. \A j \in Nat : (j + 1) + 1 = j + 2
      OBVIOUS
    <3>2. QED
      BY <3>1
  <2>2. j \in Nat /\ j + 1 <= k /\ j + 2 \in 2 .. k /\ (j + 2) - 1 = j + 1
    BY <2>1, UpTo
  <2>3. Best(j + 1)
    BY <2>2
  <2>4. QED
    BY <2>2, <2>3, <1>13
<1>16. Nat \subseteq K
  <2>1. K \in SUBSET Nat
    OBVIOUS
  <2> HIDE DEF K
  <2>2. QED
    BY <2>1, <1>14, <1>15, InductionOnSets
<1>17. Best(k)
  <2>1. k - 1 \in K /\ (k - 1) + 1 <= k
    BY <1>16, UpTo
  <2>2. QED
    BY <2>1, UpTo
<1>18. ASSUME NEW t \in grid
       PROVE  /\ ends[t] = cost[k][t] + Gap(want[k], t, last)
              /\ cost[k][t] \in Int /\ Gap(want[k], t, last) \in Int /\ ends[t] \in Int
  <2>1. t \in Int /\ want[k] \in Int /\ cost[k] \in [grid -> Int]
    BY <1>1, <1>2, <1>5, UpTo
  <2>2. cost[k][t] \in Int /\ Gap(want[k], t, last) \in Int
    BY <2>1, Priced
  <2>3. QED
    BY <2>2
<1>19. ends \in [grid -> Int]
  BY <1>18
<1>20. DOMAIN ends = grid
  OBVIOUS
<1> HIDE DEF ends
<1> DEFINE cheapest == Min({ends[x] : x \in grid})
<1>21. b[k] \in grid /\ s[k] \in grid
  BY <1>11, UpTo
<1>22. cheapest <= ends[b[k]]
  BY <1>1, <1>19, <1>21, LeastValue
<1>23. ends[s[k]] = cheapest
  BY <1>4, <1>20 DEF Minimizers
<1> HIDE DEF cheapest
<1>24. ends[s[k]] <= ends[b[k]]
  BY <1>22, <1>23
<1>25. /\ cost[k][s[k]] + Gap(want[k], s[k], last) <= cost[k][b[k]] + Gap(want[k], b[k], last)
       /\ cost[k][b[k]] \in Int /\ Gap(want[k], b[k], last) \in Int
  BY <1>18, <1>21, <1>24
<1>26. price[k] \in Int
  BY <1>10, UpTo
<1>27. QED
  BY <1>17, <1>18, <1>21, <1>25, <1>26 DEF Best

(* What a run of the solver is compared by.                                 *)
LEMMA TotalIs ==
  ASSUME n - 1 \in Nat, NEW b
  PROVE  \E price : /\ Prices(price, First, Aim, Lengths, b, n - 1)
                    /\ Total(b) = price[n - 1] + Gap(Lengths[n - 1], b[n - 1], Last)
<1> DEFINE price == CHOOSE p : Prices(p, First, Aim, Lengths, b, n - 1)
<1>1. Prices(price, First, Aim, Lengths, b, n - 1)
  BY PricesExist
<1>2. Total(b) = price[n - 1] + Gap(Lengths[n - 1], b[n - 1], Last)
  BY DEF Total, Prices
<1>3. QED
  BY <1>1, <1>2

LEMMA SolveOptimal ==
  ASSUME SpansInv, Solve, NEW b \in [1 .. n - 1 -> Grid(First, Last)],
         \A i \in 2 .. n - 1 : b[i - 1] <= b[i]
  PROVE  Total([i \in 1 .. n - 1 |-> placed'[i].start]) <= Total(b)
<1>1. PICK s \in Solutions(First, Last, Aim, Lengths) :
        placed' = [i \in Labels |-> [start |-> IF i = 0 THEN First ELSE s[i],
                                     end |-> IF i = n - 1 THEN Last ELSE s[i + 1]]]
  BY DEF Solve
<1>2. /\ n \in Nat /\ n >= 2 /\ n - 1 \in Nat \ {0} /\ n - 1 \in Nat /\ Labels = 0 .. n - 1
      /\ DOMAIN Lengths = Labels /\ DOMAIN placed = Labels
  BY SpansAssumption DEF Solve, Solvable, SpansInv, ShapeInv, Labels
<1>3. Asked(Aim, Lengths, n - 1)
  <2>1. Lengths \in [0 .. n - 1 -> Int]
    BY <1>2, SpansAssumption
  <2>2. ASSUME NEW i \in 1 .. n - 1 PROVE Aim[i] \in Int
    <3>1. i \in DOMAIN placed
      BY <1>2
    <3>2. placed[i].start \in Int
      BY <3>1 DEF SpansInv, ShapeInv
    <3>3. Offset(i) \in Int
      BY SpansAssumption DEF Offset
    <3>4. QED
      BY <3>2, <3>3, Clamped DEF Aim
  <2>3. Aim \in [1 .. n - 1 -> Int]
    <3>1. Aim = [i \in 1 .. n - 1 |-> Aim[i]]
      BY DEF Aim
    <3>2. QED
      BY <2>2, <3>1
  <2>4. QED
    BY <2>1, <2>3 DEF Asked
<1>4. [i \in 1 .. n - 1 |-> placed'[i].start] = s
  <2>1. DOMAIN Aim = 1 .. n - 1
    BY DEF Aim
  <2>2. s \in [1 .. n - 1 -> Grid(First, Last)]
    BY <2>1 DEF Solutions
  <2>3. \A i \in 1 .. n - 1 : placed'[i].start = s[i]
    BY <1>1, <1>2
  <2>4. QED
    BY <2>2, <2>3
<1>5. Chosen(b, Grid(First, Last), n - 1) /\ Ordered(b, n - 1)
  BY DEF Chosen, Ordered
<1>6. PICK least : /\ Prices(least, First, Aim, Lengths, s, n - 1)
                   /\ Total(s) = least[n - 1] + Gap(Lengths[n - 1], s[n - 1], Last)
  BY <1>2, TotalIs
<1>7. PICK price : /\ Prices(price, First, Aim, Lengths, b, n - 1)
                   /\ Total(b) = price[n - 1] + Gap(Lengths[n - 1], b[n - 1], Last)
  BY <1>2, TotalIs
<1>8. least[n - 1] + Gap(Lengths[n - 1], s[n - 1], Last)
        <= price[n - 1] + Gap(Lengths[n - 1], b[n - 1], Last)
  BY <1>2, <1>3, <1>5, <1>6, <1>7, Episode, CheapestSolution
<1>9. QED
  BY <1>4, <1>6, <1>7, <1>8

LEMMA SolverStep ==
  SpansInv =>
    [Solve =>
       LET solved == [i \in 1 .. n - 1 |-> placed'[i].start]
       IN  \A b \in [1 .. n - 1 -> Grid(First, Last)] :
             (\A i \in 2 .. n - 1 : b[i - 1] <= b[i]) => Total(solved) <= Total(b)]_vars
BY SolveOptimal

(* The boundaries of a calibrated answer are as cheap as any in order on    *)
(* the grid, fit and lengths together (_solve_align_boundaries).       *)
THEOREM BoundariesOptimal == Spec => SolverOptimal
<1>1. Spec => []SpansInv
  BY InitInv, StepInv, PTL DEF Spec
<1>2. QED
  BY <1>1, SolverStep, PTL DEF SolverOptimal

(* The same behind the requests of the episode.                             *)
THEOREM EpisodeOptimal == EpisodeSpec => SolverOptimal
<1>1. EpisodeSpec => []SpansInv
  BY EpisodeSpans
<1>2. QED
  BY <1>1, SolverStep, PTL DEF SolverOptimal

-----------------------------------------------------------------------------
(* A value after each of so many steps.                                     *)
Iterates(f, S, base, step, size) ==
  /\ f \in [0 .. size -> S]
  /\ f[0] = base /\ \A i \in 1 .. size : f[i] = step[i][f[i - 1]]

(* Repeating a step so many times defines a function.                       *)
LEMMA Iterated ==
  ASSUME NEW S, NEW base \in S, NEW size \in Nat, NEW step \in [1 .. size -> [S -> S]]
  PROVE  \E f : Iterates(f, S, base, step, size)
<1> DEFINE Runs(f, j) == f[0] = base /\ \A i \in 1 .. j : f[i] = step[i][f[i - 1]]
           K == {j \in Nat : j <= size => \E f \in [0 .. j -> S] : Runs(f, j)}
<1>1. 0 \in K
  <2>1. [i \in 0 .. 0 |-> base] \in [0 .. 0 -> S] /\ Runs([i \in 0 .. 0 |-> base], 0)
    OBVIOUS
  <2>2. QED
    BY <2>1
<1>2. ASSUME NEW j \in K PROVE j + 1 \in K
  <2> SUFFICES ASSUME j + 1 <= size PROVE \E f \in [0 .. j + 1 -> S] : Runs(f, j + 1)
    OBVIOUS
  <2>1. PICK f \in [0 .. j -> S] : Runs(f, j)
    OBVIOUS
  <2> DEFINE g == [i \in 0 .. j + 1 |-> IF i = j + 1 THEN step[i][f[j]] ELSE f[i]]
  <2>2. step[j + 1][f[j]] \in S
    OBVIOUS
  <2>3. g \in [0 .. j + 1 -> S]
    BY <2>2
  <2>4. g[0] = base
    BY <2>1
  <2>5. ASSUME NEW i \in 1 .. j + 1 PROVE g[i] = step[i][g[i - 1]]
    <3>1. g[i - 1] = f[i - 1]
      OBVIOUS
    <3>2. g[i] = IF i = j + 1 THEN step[i][f[j]] ELSE f[i]
      OBVIOUS
    <3> HIDE DEF g
    <3>3. QED
      BY <2>1, <3>1, <3>2
  <2> HIDE DEF g
  <2>6. QED
    BY <2>3, <2>4, <2>5
<1>3. Nat \subseteq K
  <2>1. K \in SUBSET Nat
    OBVIOUS
  <2> HIDE DEF K
  <2>2. QED
    BY <2>1, <1>1, <1>2, InductionOnSets
<1>4. QED
  BY <1>3 DEF Iterates

(* The same, counted from 1.                                                *)
IteratesFrom1(f, S, base, step, size) ==
  /\ f \in [1 .. size -> S]
  /\ f[1] = base /\ \A i \in 2 .. size : f[i] = step[i][f[i - 1]]

LEMMA IteratedFrom1 ==
  ASSUME NEW S, NEW base \in S, NEW size \in Nat \ {0}, NEW step \in [1 .. size -> [S -> S]]
  PROVE  \E f : IteratesFrom1(f, S, base, step, size)
<1> DEFINE less == size - 1
           later == [i \in 1 .. less |-> step[i + 1]]
<1>1. later \in [1 .. less -> [S -> S]] /\ less \in Nat
  OBVIOUS
<1>2. PICK f : Iterates(f, S, base, later, less)
  <2> HIDE DEF later, less
  <2> QED
    BY <1>1, Iterated
<1> DEFINE g == [i \in 1 .. size |-> f[i - 1]]
<1>3. g \in [1 .. size -> S] /\ g[1] = base
  BY <1>2 DEF Iterates
<1>4. ASSUME NEW i \in 2 .. size PROVE g[i] = step[i][g[i - 1]]
  <2> DEFINE j == i - 1
  <2>1. j \in 1 .. less /\ j - 1 \in 0 .. less /\ j + 1 = i
    OBVIOUS
  <2>2. later[j] = step[i]
    BY <2>1
  <2>3. g[i] = f[j] /\ g[j] = f[j - 1]
    OBVIOUS
  <2> HIDE DEF g, later, j, less
  <2>4. g[i] = step[i][g[j]]
    BY <1>2, <2>1, <2>2, <2>3 DEF Iterates
  <2>5. QED
    BY <2>4 DEF j
<1> HIDE DEF g
<1>5. QED
  BY <1>3, <1>4 DEF IteratesFrom1

-----------------------------------------------------------------------------
(* The elements at the places of f, which are in order.                     *)
Places(f, k, size) == f \in [1 .. k -> 1 .. size] /\ \A a, b \in 1 .. k : a < b => f[a] < f[b]

PartOf(q, s, size, set) ==
  /\ \E f : Places(f, Len(q), size) /\ \A k \in 1 .. Len(q) : q[k] = s[f[k]]
  /\ \A k \in 1 .. Len(q) : q[k] \in set
  /\ \A i \in 1 .. size : s[i] \in set => \E k \in 1 .. Len(q) : q[k] = s[i]

LEMMA PartLonger ==
  ASSUME NEW T, NEW s \in Seq(T), NEW set, NEW i \in 1 .. Len(s), NEW q \in Seq(T),
         PartOf(q, s, i - 1, set)
  PROVE  PartOf(IF s[i] \in set THEN Append(q, s[i]) ELSE q, s, i, set)
<1>1. PICK f : Places(f, Len(q), i - 1) /\ \A k \in 1 .. Len(q) : q[k] = s[f[k]]
  BY DEF PartOf
<1>2. CASE s[i] \notin set
  <2>1. Places(f, Len(q), i)
    BY <1>1 DEF Places
  <2>2. \A j \in 1 .. i : s[j] \in set => j \in 1 .. i - 1
    BY <1>2
  <2>3. QED
    BY <1>1, <1>2, <2>1, <2>2 DEF PartOf
<1>3. CASE s[i] \in set
  <2> DEFINE m == Len(q) + 1
             g == [k \in 1 .. m |-> IF k = m THEN i ELSE f[k]]
             r == Append(q, s[i])
  <2>1. Len(q) \in Nat /\ Len(r) = m /\ r[m] = s[i] /\ \A k \in 1 .. Len(q) : r[k] = q[k]
    OBVIOUS
  <2>2. Places(g, m, i)
    <3>1. g \in [1 .. m -> 1 .. i]
      BY <1>1, <2>1 DEF Places
    <3>2. ASSUME NEW a \in 1 .. m, NEW b \in 1 .. m, a < b PROVE g[a] < g[b]
      <4>1. a # m /\ a \in 1 .. Len(q) /\ f[a] < i
        BY <1>1, <2>1, <3>2 DEF Places
      <4>2. CASE b = m
        BY <4>1, <4>2
      <4>3. CASE b # m
        <5>1. b \in 1 .. Len(q)
          BY <2>1, <4>3
        <5>2. f[a] < f[b]
          BY <1>1, <3>2, <4>1, <5>1 DEF Places
        <5>3. QED
          BY <4>1, <4>3, <5>2
      <4>4. QED
        BY <4>2, <4>3
    <3> HIDE DEF g, m
    <3>3. QED
      BY <3>1, <3>2 DEF Places
  <2>3. \A k \in 1 .. m : r[k] = s[g[k]]
    BY <1>1, <2>1
  <2>4. \A k \in 1 .. m : r[k] \in set
    BY <1>3, <2>1 DEF PartOf
  <2>5. ASSUME NEW j \in 1 .. i, s[j] \in set PROVE \E k \in 1 .. m : r[k] = s[j]
    <3>1. CASE j = i
      BY <2>1, <3>1
    <3>2. CASE j # i
      <4>1. j \in 1 .. i - 1
        BY <3>2
      <4>2. PICK k \in 1 .. Len(q) : q[k] = s[j]
        BY <4>1, <2>5 DEF PartOf
      <4>3. k \in 1 .. m /\ r[k] = s[j]
        BY <2>1, <4>2
      <4>4. QED
        BY <4>3
    <3>3. QED
      BY <3>1, <3>2
  <2> HIDE DEF g, m, r
  <2>6. PartOf(r, s, i, set)
    BY <2>1, <2>2, <2>3, <2>4, <2>5 DEF PartOf
  <2>7. QED
    BY <1>3, <2>6 DEF r
<1>4. QED
  BY <1>2, <1>3

(* A list comprehension gives the elements of the set, in the order of the  *)
(* list.                                                                    *)
LEMMA OnlyIsPart ==
  ASSUME NEW T, NEW s \in Seq(T), NEW set
  PROVE  Request!Only(s, set) \in Seq(T) /\ PartOf(Request!Only(s, set), s, Len(s), set)
<1> DEFINE size == Len(s)
           longer(i, q) == IF s[i] \in set THEN Append(q, s[i]) ELSE q
           step == [i \in 1 .. size |-> [q \in Seq(T) |-> longer(i, q)]]
           Kept(f) == f = [i \in 0 .. size |-> IF i = 0 THEN << >> ELSE longer(i, f[i - 1])]
<1>1. size \in Nat /\ << >> \in Seq(T) /\ \A i \in 1 .. size, q \in Seq(T) : longer(i, q) \in Seq(T)
  OBVIOUS
<1>2. step \in [1 .. size -> [Seq(T) -> Seq(T)]]
  BY <1>1
<1>3. PICK f : Iterates(f, Seq(T), << >>, step, size)
  <2> HIDE DEF step
  <2> QED
    BY <1>1, <1>2, Iterated
<1>4. \A i \in 1 .. size : f[i] = longer(i, f[i - 1])
  <2> TAKE i \in 1 .. size
  <2>1. i - 1 \in 0 .. size
    OBVIOUS
  <2>2. f[i - 1] \in Seq(T)
    BY <1>3, <2>1 DEF Iterates
  <2>3. f[i] = step[i][f[i - 1]]
    <3> HIDE DEF step
    <3> QED
      BY <1>3 DEF Iterates
  <2> HIDE DEF longer
  <2>4. QED
    BY <2>2, <2>3
<1>5. Kept(f)
  <2> HIDE DEF longer
  <2>1. \A i \in 0 .. size : f[i] = IF i = 0 THEN << >> ELSE longer(i, f[i - 1])
    BY <1>3, <1>4 DEF Iterates
  <2>2. f = [i \in 0 .. size |-> f[i]]
    BY <1>3 DEF Iterates
  <2>3. QED
    BY <2>1, <2>2
<1> DEFINE g == CHOOSE g : Kept(g)
<1>6. Kept(g)
  <2> HIDE DEF Kept
  <2> QED
    BY <1>5
<1>7. Request!Only(s, set) = g[size]
  BY DEF Request!Only
<1> HIDE DEF g
<1>8. g[0] = << >> /\ \A i \in 1 .. size : g[i] = longer(i, g[i - 1])
  <2> HIDE DEF longer
  <2> QED
    BY <1>6, <1>1
<1> DEFINE K == {i \in Nat : i <= size => g[i] \in Seq(T) /\ PartOf(g[i], s, i, set)}
<1>9. 0 \in K
  <2>1. Places(<< >>, 0, 0)
    BY DEF Places
  <2>2. PartOf(<< >>, s, 0, set)
    BY <2>1 DEF PartOf
  <2>3. QED
    BY <1>1, <1>8, <2>2
<1>10. ASSUME NEW i \in K PROVE i + 1 \in K
  <2> SUFFICES ASSUME i + 1 <= size PROVE g[i + 1] \in Seq(T) /\ PartOf(g[i + 1], s, i + 1, set)
    OBVIOUS
  <2>1. i + 1 \in 1 .. size /\ (i + 1) - 1 = i /\ g[i] \in Seq(T) /\ PartOf(g[i], s, i, set)
    OBVIOUS
  <2>2. g[i + 1] = longer(i + 1, g[i])
    <3> HIDE DEF longer
    <3> QED
      BY <1>8, <2>1
  <2>3. QED
    BY <2>1, <2>2, <1>1, PartLonger
<1>11. Nat \subseteq K
  <2>1. K \in SUBSET Nat
    OBVIOUS
  <2> HIDE DEF K
  <2>2. QED
    BY <2>1, <1>9, <1>10, InductionOnSets
<1>12. QED
  BY <1>1, <1>7, <1>11

-----------------------------------------------------------------------------
(* What is left of different elements, or of numbers in order.              *)
LEMMA PartKeeps ==
  ASSUME NEW T, NEW s \in Seq(T), NEW set, NEW q \in Seq(T), PartOf(q, s, Len(s), set)
  PROVE  /\ \A k \in 1 .. Len(q) : \E i \in 1 .. Len(s) : q[k] = s[i]
         /\ (\A i, j \in 1 .. Len(s) : i # j => s[i] # s[j]) =>
              \A i, j \in 1 .. Len(q) : i # j => q[i] # q[j]
         /\ (\A i, j \in 1 .. Len(s) : i < j => s[i] < s[j]) =>
              \A i, j \in 1 .. Len(q) : i < j => q[i] < q[j]
<1>1. PICK f : Places(f, Len(q), Len(s)) /\ \A k \in 1 .. Len(q) : q[k] = s[f[k]]
  BY DEF PartOf
<1>2. \A k \in 1 .. Len(q) : f[k] \in 1 .. Len(s) /\ q[k] = s[f[k]]
  BY <1>1 DEF Places
<1>3. \A i, j \in 1 .. Len(q) : i < j => f[i] < f[j]
  BY <1>1 DEF Places
<1>4. ASSUME NEW i \in 1 .. Len(q), NEW j \in 1 .. Len(q), i # j PROVE f[i] # f[j]
  <2>1. i \in Int /\ j \in Int /\ f[i] \in Int /\ f[j] \in Int /\ (i < j \/ j < i)
    BY <1>2, <1>4
  <2>2. QED
    BY <1>3, <2>1
<1>5. QED
  BY <1>2, <1>3, <1>4, SMTT(30)

(* No more of different elements are left than there are in the set.        *)
LEMMA PartCounted ==
  ASSUME NEW q \in Seq(Int), NEW set, IsFiniteSet(set), \A k \in 1 .. Len(q) : q[k] \in set,
         \A i, j \in 1 .. Len(q) : i < j => q[i] < q[j]
  PROVE  Len(q) <= Cardinality(set)
<1>1. Len(q) \in Nat
  OBVIOUS
<1>2. IsFiniteSet(1 .. Len(q)) /\ Cardinality(1 .. Len(q)) = Len(q)
  <2>1. /\ IsFiniteSet(1 .. Len(q))
        /\ Cardinality(1 .. Len(q)) = IF 1 > Len(q) THEN 0 ELSE Len(q) - 1 + 1
    BY <1>1, FS_Interval
  <2>2. QED
    BY <1>1, <2>1
<1> DEFINE f == [k \in 1 .. Len(q) |-> q[k]]
<1>3. ASSUME NEW i \in 1 .. Len(q), NEW j \in 1 .. Len(q), q[i] = q[j] PROVE i = j
  <2>1. q[i] \in Int /\ q[j] \in Int /\ ~(i < j) /\ ~(j < i)
    BY <1>3
  <2>2. QED
    BY <1>1, <2>1
<1>4. f \in Injection(1 .. Len(q), set)
  BY <1>3 DEF Injection, IsInjective
<1>5. QED
  <2> HIDE DEF f
  <2> QED
    BY <1>1, <1>2, <1>4, FS_Injection, FS_CardinalityType

-----------------------------------------------------------------------------
(* A sequence of sequences as one.                                          *)
Flattens(f, seqs) ==
  f[1] = seqs[1] /\ \A i \in 2 .. Len(seqs) : f[i] = f[i - 1] \o seqs[i]

(* A list of lists is joined one after the other.                           *)
LEMMA Flattened ==
  ASSUME NEW T, NEW seqs \in Seq(Seq(T)), seqs # << >>
  PROVE  \E f \in [1 .. Len(seqs) -> Seq(T)] :
           Flattens(f, seqs) /\ Request!FlattenSeq(seqs) = f[Len(seqs)]
<1> DEFINE size == Len(seqs)
           step == [i \in 1 .. size |-> [q \in Seq(T) |-> q \o seqs[i]]]
           Flat(f) == f = [i \in 1 .. size |-> IF i = 1 THEN seqs[i] ELSE f[i - 1] \o seqs[i]]
<1>1. size \in Nat \ {0} /\ seqs[1] \in Seq(T)
  OBVIOUS
<1>2. step \in [1 .. size -> [Seq(T) -> Seq(T)]]
  OBVIOUS
<1>3. PICK f : IteratesFrom1(f, Seq(T), seqs[1], step, size)
  <2> HIDE DEF step, size
  <2> QED
    BY <1>1, <1>2, IteratedFrom1
<1>4. Flat(f)
  <2>1. ASSUME NEW i \in 1 .. size PROVE f[i] = IF i = 1 THEN seqs[i] ELSE f[i - 1] \o seqs[i]
    <3>1. CASE i = 1
      BY <1>3, <3>1 DEF IteratesFrom1
    <3>2. CASE i # 1
      <4>1. i - 1 \in 1 .. size /\ i \in 2 .. size
        BY <3>2
      <4>2. f[i - 1] \in Seq(T) /\ f[i] = step[i][f[i - 1]]
        <5> HIDE DEF step, size
        <5> QED
          BY <1>3, <4>1 DEF IteratesFrom1
      <4>3. QED
        BY <3>2, <4>2
    <3>3. QED
      BY <3>1, <3>2
  <2>2. f = [i \in 1 .. size |-> f[i]]
    BY <1>3 DEF IteratesFrom1
  <2>3. QED
    BY <2>1, <2>2
<1> DEFINE g == CHOOSE g : Flat(g)
<1>5. Flat(g)
  <2> HIDE DEF Flat
  <2> QED
    BY <1>4
<1>6. Request!FlattenSeq(seqs) = g[size]
  BY DEF Request!FlattenSeq
<1> HIDE DEF g
<1>7. g = f
  <2> DEFINE K == {i \in Nat : i + 1 <= size => g[i + 1] = f[i + 1]}
  <2>1. \A i \in 1 .. size : g[i] = IF i = 1 THEN seqs[i] ELSE g[i - 1] \o seqs[i]
    BY <1>5
  <2>2. \A i \in 1 .. size : f[i] = IF i = 1 THEN seqs[i] ELSE f[i - 1] \o seqs[i]
    BY <1>4
  <2>3. 0 \in K
    <3>1. 1 \in 1 .. size /\ 0 + 1 = 1
      OBVIOUS
    <3>2. g[1] = f[1]
      BY <2>1, <2>2, <3>1
    <3>3. QED
      BY <3>1, <3>2
  <2>4. ASSUME NEW i \in K PROVE i + 1 \in K
    <3> SUFFICES ASSUME i + 2 <= size PROVE g[i + 2] = f[i + 2]
      OBVIOUS
    <3>1. i + 2 \in 1 .. size /\ i + 2 # 1 /\ (i + 2) - 1 = i + 1 /\ g[i + 1] = f[i + 1]
      OBVIOUS
    <3>2. g[i + 2] = g[i + 1] \o seqs[i + 2] /\ f[i + 2] = f[i + 1] \o seqs[i + 2]
      BY <2>1, <2>2, <3>1
    <3>3. QED
      BY <3>1, <3>2
  <2>5. Nat \subseteq K
    <3>1. K \in SUBSET Nat
      OBVIOUS
    <3> HIDE DEF K
    <3>2. QED
      BY <3>1, <2>3, <2>4, InductionOnSets
  <2>6. ASSUME NEW i \in 1 .. size PROVE g[i] = f[i]
    <3>1. i - 1 \in K /\ (i - 1) + 1 = i
      <4> HIDE DEF K
      <4> QED
        BY <2>5
    <3>2. QED
      BY <3>1
  <2>7. g = [i \in 1 .. size |-> g[i]] /\ f = [i \in 1 .. size |-> f[i]]
    BY <1>3, <1>5 DEF IteratesFrom1
  <2> HIDE DEF size
  <2>8. QED
    BY <2>6, <2>7
<1>8. Flattens(f, seqs)
  <2>1. ASSUME NEW i \in 2 .. size PROVE f[i] = f[i - 1] \o seqs[i]
    <3>1. i \in 1 .. size /\ i # 1
      OBVIOUS
    <3>2. QED
      BY <1>4, <3>1
  <2>2. QED
    BY <1>3, <2>1 DEF Flattens, IteratesFrom1
<1>9. QED
  BY <1>3, <1>6, <1>7, <1>8 DEF IteratesFrom1

-----------------------------------------------------------------------------
(* Numbers.                                                                 *)

(* Division and remainder.                                                  *)
LEMMA Divided ==
  ASSUME NEW a \in Int, NEW b \in Nat \ {0}
  PROVE  /\ a \div b \in Int /\ (a \div b) * b <= a /\ a < (a \div b) * b + b
         /\ a % b \in 0 .. b - 1 /\ a % b = a - (a \div b) * b
<1>1. a \div b \in Int
  OBVIOUS
<1>2. (a \div b) * b <= a
  OBVIOUS
<1>3. a < (a \div b) * b + b
  OBVIOUS
<1>5. a % b = a - (a \div b) * b
  OBVIOUS
<1>4. a % b \in 0 .. b - 1
  <2> DEFINE r == a - (a \div b) * b
  <2>1. r \in Int /\ 0 <= r /\ r < b
    BY <1>1, <1>2, <1>3
  <2> HIDE DEF r
  <2>2. r \in 0 .. b - 1
    BY <2>1
  <2>3. QED
    BY <1>5, <2>2 DEF r
<1>6. QED
  BY <1>1, <1>2, <1>3, <1>4, <1>5

LEMMA Quotient ==
  ASSUME NEW a \in Int, NEW b \in Nat \ {0}, NEW q \in Int, q * b <= a, a < q * b + b
  PROVE  a \div b = q
OBVIOUS

LEMMA ExactQuotient ==
  ASSUME NEW q \in Int, NEW b \in Nat \ {0}
  PROVE  (q * b) \div b = q
OBVIOUS
LEMMA Mono ==
  ASSUME NEW a \in Int, NEW c \in Int, NEW b \in Nat \ {0}, a <= c
  PROVE  a \div b <= c \div b /\ a * b <= c * b
OBVIOUS

LEMMA Mult ==
  ASSUME NEW a \in Int, NEW c \in Int, NEW b \in Nat, a < c
  PROVE  a * b + b <= c * b
OBVIOUS

(* The rounded quotient is at most a half away.                             *)
LEMMA Rounded ==
  ASSUME NEW a \in Int, NEW b \in Nat \ {0}
  PROVE  /\ Request!Round(a, b) \in Int
         /\ 2 * (Request!Round(a, b) * b) <= 2 * a + b /\ 2 * a <= 2 * (Request!Round(a, b) * b) + b
<1> DEFINE q == a \div b  r == a % b
<1>1. q \in Int /\ r \in Int /\ r = a - q * b /\ 0 <= r /\ r < b
  BY Divided
<1>2. (q + 1) * b = q * b + b /\ q * b \in Int
  BY <1>1
<1>3. Request!Round(a, b) = IF 2 * r > b \/ (2 * r = b /\ q % 2 = 1) THEN q + 1 ELSE q
  BY DEF Request!Round
<1> HIDE DEF q, r
<1>4. CASE Request!Round(a, b) = q + 1 /\ 2 * r >= b
  BY <1>1, <1>2, <1>4
<1>5. CASE Request!Round(a, b) = q /\ 2 * r <= b
  BY <1>1, <1>2, <1>5
<1>6. QED
  BY <1>1, <1>3, <1>4, <1>5

(* The greater and the lesser of two numbers.                               *)
LEMMA Two ==
  ASSUME NEW a \in Int, NEW b \in Int
  PROVE  /\ Request!Max({a, b}) = IF a >= b THEN a ELSE b
         /\ Request!Min({a, b}) = IF a <= b THEN a ELSE b
<1> DEFINE g == IF a >= b THEN a ELSE b
           l == IF a <= b THEN a ELSE b
<1>1. /\ g \in {a, b} /\ \A y \in {a, b} : g >= y
      /\ l \in {a, b} /\ \A y \in {a, b} : l <= y
  OBVIOUS
<1>2. /\ \A x \in {a, b} : (\A y \in {a, b} : x >= y) => x = g
      /\ \A x \in {a, b} : (\A y \in {a, b} : x <= y) => x = l
  OBVIOUS
<1> HIDE DEF g, l
<1>3. Request!Max({a, b}) = g
  BY <1>1, <1>2 DEF Request!Max
<1>4. Request!Min({a, b}) = l
  BY <1>1, <1>2 DEF Request!Min
<1>5. QED
  BY <1>3, <1>4 DEF g, l

-----------------------------------------------------------------------------
(* Grids.                                                                   *)

(* A grid has its ends, moves with them, and is in order if it is long      *)
(* enough.                                                                  *)
LEMMA GridSound ==
  ASSUME NEW from \in Int, NEW to \in Int, NEW size \in Nat, size >= 2
  PROVE  /\ Request!Grid(from, to, size) \in Seq(Int) /\ Len(Request!Grid(from, to, size)) = size
         /\ Request!Grid(from, to, size)[1] = from /\ Request!Grid(from, to, size)[size] = to
         /\ \A i \in 1 .. size :
              Request!Grid(0, to - from, size)[i] + from = Request!Grid(from, to, size)[i]
         /\ to - from >= size - 1 =>
              \A i, j \in 1 .. size :
                i < j => Request!Grid(from, to, size)[i] < Request!Grid(from, to, size)[j]
<1> DEFINE gaps == size - 1
           far == to - from
           at0(i) == ((i - 1) * far) \div gaps
           g == Request!Grid(from, to, size)
<1>1. gaps \in Nat \ {0} /\ far \in Int /\ \A i \in 1 .. size : (i - 1) * far \in Int
  OBVIOUS
<1>2. \A i \in 1 .. size : at0(i) \in Int
  <2> HIDE DEF gaps, far
  <2> QED
    BY <1>1
<1>3. g = [i \in 1 .. size |-> from + at0(i)]
  BY DEF Request!Grid
<1>4. Request!Grid(0, to - from, size) = [i \in 1 .. size |-> 0 + ((i - 1) * (far - 0)) \div gaps]
  BY DEF Request!Grid
<1>5. at0(1) = 0
  <2>1. (1 - 1) * far = 0 * gaps
    OBVIOUS
  <2>2. (0 * gaps) \div gaps = 0
    BY <1>1, ExactQuotient
  <2>3. QED
    BY <2>1, <2>2
<1>6. at0(size) = far
  <2>1. (size - 1) * far = far * gaps
    OBVIOUS
  <2>2. (far * gaps) \div gaps = far
    BY <1>1, ExactQuotient
  <2>3. QED
    BY <2>1, <2>2
<1>7. ASSUME far >= gaps, NEW i \in 1 .. size, NEW j \in 1 .. size, i < j
      PROVE  at0(i) < at0(j)
  <2> DEFINE x == (i - 1) * far  y == (j - 1) * far
  <2>1. x \in Int /\ y \in Int
    BY <1>1
  <2>2. x + far <= y
    <3>1. i - 1 \in Int /\ j - 1 \in Int /\ i - 1 < j - 1 /\ far \in Nat
      BY <1>1, <1>7
    <3> HIDE DEF far
    <3>2. QED
      BY <3>1, Mult
  <2>3. x + gaps <= y /\ x + gaps \in Int
    BY <1>1, <1>7, <2>1, <2>2
  <2>4. (x + gaps) \div gaps = x \div gaps + 1
    <3>1. x \div gaps \in Int /\ (x \div gaps) * gaps <= x /\ x < (x \div gaps) * gaps + gaps
      BY <1>1, <2>1, Divided
    <3>2. (x \div gaps + 1) * gaps = (x \div gaps) * gaps + gaps /\ (x \div gaps) * gaps \in Int
      BY <1>1, <3>1
    <3> HIDE DEF x, gaps
    <3>3. QED
      BY <1>1, <2>1, <2>3, <3>1, <3>2, Quotient
  <2>5. (x + gaps) \div gaps <= y \div gaps
    <3> HIDE DEF x, y, gaps
    <3> QED
      BY <1>1, <2>1, <2>3, Mono
  <2>6. x \div gaps \in Int /\ y \div gaps \in Int
    BY <1>1, <2>1, Divided
  <2> HIDE DEF x, y, gaps
  <2>7. x \div gaps < y \div gaps
    BY <2>4, <2>5, <2>6
  <2>8. QED
    BY <2>7 DEF x, y
<1> HIDE DEF gaps, far, g
<1>8. /\ g \in Seq(Int) /\ Len(g) = size
      /\ \A i \in 1 .. size : g[i] = from + at0(i)
  <2> HIDE DEF at0
  <2> QED
    BY <1>2, <1>3
<1>9. 1 \in 1 .. size /\ size \in 1 .. size /\ from + far = to
  BY DEF far
<1>10. \A i \in 1 .. size : Request!Grid(0, to - from, size)[i] + from = g[i]
  <2> TAKE i \in 1 .. size
  <2>1. far - 0 = far
    BY <1>1
  <2>2. Request!Grid(0, to - from, size)[i] = 0 + at0(i)
    BY <1>4, <2>1
  <2> HIDE DEF at0
  <2>3. QED
    BY <1>2, <1>8, <2>2
<1>11. far >= gaps => \A i, j \in 1 .. size : i < j => g[i] < g[j]
  <2> HIDE DEF at0
  <2> QED
    BY <1>2, <1>7, <1>8
<1>12. g[1] = from /\ g[size] = to
  <2> HIDE DEF at0
  <2> QED
    BY <1>5, <1>6, <1>8, <1>9
<1>13. QED
  BY <1>8, <1>10, <1>11, <1>12 DEF g, far, gaps

(* A grid begins and ends where it should.                                  *)
LEMMA GridEnds ==
  ASSUME NEW from \in Int, NEW to \in Int, NEW size \in Nat, size >= 2
  PROVE  /\ Request!Grid(from, to, size) \in Seq(Int) /\ Len(Request!Grid(from, to, size)) = size
         /\ Request!Grid(from, to, size)[1] = from /\ Request!Grid(from, to, size)[size] = to
<1> DEFINE g == Request!Grid(from, to, size)
<1>1. g \in Seq(Int) /\ Len(g) = size /\ g[1] = from /\ g[size] = to
  BY GridSound
<1>2. QED
  BY <1>1

-----------------------------------------------------------------------------
(* Samples of an episode or of a window.                                    *)
Spanned == [from : Int, to : Int]
Rising(q) == \A i, j \in 1 .. Len(q) : i < j => q[i] < q[j]

(* Samples are so far apart that they are different times.                  *)
LEMMA WantedSound ==
  ASSUME NEW window \in Spanned
  PROVE  /\ Request!Wanted(window) \in Nat \ {0}
         /\ Request!Length(window) = window.to - window.from /\ Request!Length(window) \in Int
         /\ Request!Wanted(window) > 1 =>
              /\ Request!Wanted(window) = Request!Round(Request!Length(window), Step) + 1
              /\ Request!Length(window) >= Request!Wanted(window) - 1
<1> DEFINE long == Request!Length(window)
           r == Request!Round(long, Step)
           w == Request!Wanted(window)
<1>1. long = window.to - window.from /\ long \in Int
  BY DEF Request!Length, Spanned
<1>2. Step \in Nat \ {0} /\ Step > 6
  BY StepAssumption
<1>3. r \in Int /\ 2 * (r * Step) <= 2 * long + Step
  <2> HIDE DEF long
  <2> QED
    BY <1>1, <1>2, Rounded
<1>4. w = Request!Max({1, r + 1})
  BY DEF Request!Wanted
<1> HIDE DEF long, r, w
<1>5. w = IF 1 >= r + 1 THEN 1 ELSE r + 1
  BY <1>3, <1>4, Two
<1>6. ASSUME w > 1 PROVE w = r + 1 /\ long >= w - 1
  <2>1. w = r + 1 /\ r \in Nat /\ r > 0
    BY <1>3, <1>5, <1>6
  <2>2. 2 * r * Step = 2 * (r * Step) /\ r * Step \in Int
    BY <1>2, <1>3
  <2>3. r * Step >= r * 7
    <3>1. r * (Step - 7) >= 0 /\ r * (Step - 7) = r * Step - r * 7
      BY <1>2, <2>1
    <3>2. QED
      BY <1>2, <2>1, <2>2, <3>1
  <2>4. r * Step >= Step
    <3>1. (r - 1) * Step >= 0 /\ (r - 1) * Step = r * Step - Step
      BY <1>2, <2>1
    <3>2. QED
      BY <1>2, <2>1, <2>2, <3>1
  <2> DEFINE x == r * Step
  <2>5. x \in Int /\ x >= r * 7 /\ x >= Step /\ 2 * x <= 2 * long + Step
    BY <1>3, <2>2, <2>3, <2>4
  <2> HIDE DEF x
  <2>6. long >= r
    BY <1>1, <1>2, <2>1, <2>5
  <2>7. QED
    BY <2>1, <2>6
<1>7. w \in Nat \ {0}
  BY <1>3, <1>5
<1>8. QED
  BY <1>1, <1>6, <1>7 DEF long, r, w

(* Evenly spaced samples are frames of the episode, in order, and none      *)
(* twice.                                                                   *)
LEMMA UniformSound ==
  ASSUME NEW ts \in Seq(Int), ts # << >>, Rising(ts), NEW size \in Nat \ {0},
         ts[Len(ts)] - ts[1] >= size - 1
  PROVE  /\ Request!Uniform(ts, size) \in Seq(Int)
         /\ Len(Request!Uniform(ts, size)) = IF size >= Len(ts) THEN Len(ts) ELSE size
         /\ Rising(Request!Uniform(ts, size))
         /\ Request!Uniform(ts, size)[1] = ts[1]
         /\ Len(Request!Uniform(ts, size)) > 1 =>
              Request!Uniform(ts, size)[Len(Request!Uniform(ts, size))] = ts[Len(ts)]
<1> DEFINE q == Request!Uniform(ts, size)
<1>1. ts[1] \in Int /\ ts[Len(ts)] \in Int /\ Len(ts) \in Nat \ {0} /\ Head(ts) = ts[1]
  OBVIOUS
<1>2. q = IF size >= Len(ts) THEN ts
          ELSE IF size <= 1 THEN << Head(ts) >> ELSE Request!Grid(ts[1], ts[Len(ts)], size)
  BY <1>1 DEF Request!Uniform, Request!Last
<1> HIDE DEF q
<1>3. CASE size >= Len(ts)
  BY <1>1, <1>2, <1>3 DEF q
<1>4. CASE ~(size >= Len(ts)) /\ size <= 1
  <2>1. q = << ts[1] >> /\ Len(q) = 1 /\ size = 1 /\ q[1] = ts[1] /\ q \in Seq(Int)
    BY <1>1, <1>2, <1>4
  <2>2. Rising(q)
    BY <2>1 DEF Rising
  <2>3. QED
    BY <1>4, <2>1, <2>2 DEF q
<1>5. CASE ~(size >= Len(ts)) /\ size > 1
  <2>1. q = Request!Grid(ts[1], ts[Len(ts)], size)
    BY <1>1, <1>2, <1>5
  <2>2. /\ q \in Seq(Int) /\ Len(q) = size /\ q[1] = ts[1] /\ q[size] = ts[Len(ts)]
        /\ \A i, j \in 1 .. size : i < j => q[i] < q[j]
    <3> DEFINE lo == ts[1]  hi == ts[Len(ts)]
    <3>1. lo \in Int /\ hi \in Int /\ hi - lo >= size - 1 /\ q = Request!Grid(lo, hi, size)
          /\ size \in Nat /\ size >= 2
      BY <1>1, <1>5, <2>1
    <3> HIDE DEF lo, hi
    <3>2. q \in Seq(Int) /\ Len(q) = size /\ \A i, j \in 1 .. size : i < j => q[i] < q[j]
      BY <3>1, GridSound, ZenonT(60)
    <3>3. q[1] = lo /\ q[size] = hi
      <4> HIDE DEF q
      <4>3. lo \in Int /\ hi \in Int /\ size \in Nat /\ size >= 2
        BY <3>1
      <4>4. Request!Grid(lo, hi, size)[1] = lo
        BY <4>3, GridEnds
      <4>5. Request!Grid(lo, hi, size)[size] = hi
        BY <4>3, GridEnds
      <4>1. Request!Grid(lo, hi, size)[1] = lo /\ Request!Grid(lo, hi, size)[size] = hi
        BY <4>4, <4>5
      <4>2. QED
        BY <3>1, <4>1
    <3>4. QED
      BY <3>2, <3>3 DEF lo, hi
  <2>3. QED
    BY <1>5, <2>2 DEF q, Rising
<1>6. QED
  BY <1>1, <1>3, <1>4, <1>5

(* The episode, or the window.                                              *)
All(ts, window) == IF window = None THEN Request!Whole(ts) ELSE window

LEMMA WholeSpanned ==
  ASSUME NEW ts \in Seq(Int), ts # << >>
  PROVE  /\ Request!Whole(ts) \in Spanned
         /\ Request!Whole(ts).from = ts[1] /\ Request!Whole(ts).to = ts[Len(ts)]
         /\ None \notin Spanned /\ Request!Whole(ts) # None
<1>1. ts[1] \in Int /\ ts[Len(ts)] \in Int /\ Head(ts) = ts[1]
  OBVIOUS
<1>2. QED
  BY <1>1, PromptAssumption DEF Request!Whole, Request!Last, Spanned

Sampled(ts, window, budget, format) ==
  LET q    == Request!Samples(ts, window, budget, format)
      all  == All(ts, window)
      most == Request!Min({Request!Wanted(all), budget})
  IN  /\ q \in Seq(Int) /\ Len(q) >= 1 /\ Len(q) <= budget /\ Rising(q)
      /\ IF window = None /\ format = "sheet"
         THEN Len(q) = IF most >= Len(ts) THEN Len(ts) ELSE most
         ELSE /\ Len(q) = most
              /\ Len(q) >= 2 => q = Request!Grid(all.from, all.to, Len(q))

(* The samples of a window are in order, and no more than the budget.       *)
LEMMA SamplesSound ==
  ASSUME NEW ts \in Seq(Int), ts # << >>, Rising(ts), NEW window \in Spanned \cup {None},
         NEW budget \in Nat \ {0}, NEW format
  PROVE  Sampled(ts, window, budget, format)
<1> DEFINE q    == Request!Samples(ts, window, budget, format)
           all  == All(ts, window)
           most == Request!Min({Request!Wanted(all), budget})
<1>1. /\ ts[1] \in Int /\ ts[Len(ts)] \in Int /\ Len(ts) \in Nat \ {0} /\ Head(ts) = ts[1]
      /\ all \in Spanned /\ (window = None => all.from = ts[1] /\ all.to = ts[Len(ts)])
  BY WholeSpanned DEF All
<1>2. q = IF window = None /\ format = "sheet" THEN Request!Uniform(ts, most)
          ELSE IF most > 1 /\ Request!Length(all) > 0 THEN Request!Grid(all.from, all.to, most)
          ELSE IF window = None THEN << Head(ts) >>
          ELSE << (window.from + window.to) \div 2 >>
  BY DEF Request!Samples, All
<1> HIDE DEF q, all
<1>3. /\ Request!Wanted(all) \in Nat \ {0}
      /\ Request!Length(all) = all.to - all.from /\ Request!Length(all) \in Int
      /\ Request!Wanted(all) > 1 => Request!Length(all) >= Request!Wanted(all) - 1
  BY <1>1, WantedSound
<1>4. most = IF Request!Wanted(all) <= budget THEN Request!Wanted(all) ELSE budget
  <2> DEFINE w == Request!Wanted(all)
  <2>1. w \in Int /\ budget \in Int
    BY <1>3
  <2> HIDE DEF w
  <2>2. Request!Min({w, budget}) = IF w <= budget THEN w ELSE budget
    BY <2>1, Two
  <2>3. QED
    BY <2>2 DEF w
<1> HIDE DEF most
<1>5. /\ most \in Nat \ {0} /\ most <= budget
      /\ most > 1 => Request!Length(all) > 0 /\ all.to - all.from >= most - 1
  BY <1>3, <1>4
<1>6. CASE window = None /\ format = "sheet"
  <2>1. ts[Len(ts)] - ts[1] >= most - 1
    <3>1. CASE most > 1
      BY <1>1, <1>5, <1>6, <3>1
    <3>2. CASE most = 1
      <4>1. Len(ts) > 1 => ts[1] < ts[Len(ts)]
        BY <1>1 DEF Rising
      <4>2. ts[Len(ts)] >= ts[1]
        BY <1>1, <4>1
      <4>3. QED
        BY <1>1, <3>2, <4>2
    <3>3. QED
      BY <1>5, <3>1, <3>2
  <2>2. q = Request!Uniform(ts, most)
    BY <1>2, <1>6
  <2>3. /\ q \in Seq(Int) /\ Len(q) = IF most >= Len(ts) THEN Len(ts) ELSE most
        /\ Rising(q)
    BY <1>5, <2>1, <2>2, UniformSound
  <2>4. QED
    BY <1>1, <1>5, <1>6, <2>3 DEF Sampled, q, all, most
<1>7. CASE ~(window = None /\ format = "sheet") /\ most > 1
  <2>1. q = Request!Grid(all.from, all.to, most)
    BY <1>2, <1>5, <1>7
  <2>2. all.from \in Int /\ all.to \in Int
    BY <1>1 DEF Spanned
  <2>3. /\ q \in Seq(Int) /\ Len(q) = most
        /\ \A i, j \in 1 .. most : i < j => q[i] < q[j]
    <3> DEFINE lo == all.from  hi == all.to
    <3>1. lo \in Int /\ hi \in Int /\ hi - lo >= most - 1 /\ q = Request!Grid(lo, hi, most)
          /\ most >= 2 /\ most \in Nat
      BY <1>5, <1>7, <2>1, <2>2
    <3> HIDE DEF lo, hi
    <3>2. QED
      BY <3>1, GridSound, ZenonT(60)
  <2>4. Rising(q)
    BY <2>3 DEF Rising
  <2>5. QED
    BY <1>5, <1>7, <2>1, <2>3, <2>4 DEF Sampled, q, all, most
<1>8. CASE ~(window = None /\ format = "sheet") /\ most = 1
  <2>1. PICK t \in Int : q = << t >>
    <3>1. CASE window = None
      BY <1>1, <1>2, <1>8, <3>1
    <3>2. CASE window # None
      <4>1. window.from + window.to \in Int
        BY <3>2 DEF Spanned
      <4>2. (window.from + window.to) \div 2 \in Int
        BY <4>1, Divided
      <4>3. QED
        BY <1>2, <1>8, <3>2, <4>2
    <3>3. QED
      BY <3>1, <3>2
  <2>2. q \in Seq(Int) /\ Len(q) = 1
    BY <2>1
  <2>3. Rising(q)
    BY <2>2 DEF Rising
  <2>4. QED
    BY <1>5, <1>8, <2>2, <2>3 DEF Sampled, q, all, most
<1>9. QED
  BY <1>5, <1>6, <1>7, <1>8

-----------------------------------------------------------------------------
(* Contact sheets show every moment once, under its label.                  *)

(* Sheets that are full up to the last one.                                 *)
FilledOne(sheet, tile, size, per, before) ==
  sheet = [i \in 1 .. (IF per <= size - before THEN per ELSE size - before) |-> tile[before + i]]

Filled(sheets, tile, size, per, count) ==
  /\ Len(sheets) = count /\ size <= count * per /\ (count - 1) * per < size
  /\ \A k \in 1 .. count : FilledOne(sheets[k], tile, size, per, (k - 1) * per)

LEMMA Concatenated ==
  ASSUME NEW T, NEW p \in Seq(T), NEW q \in Seq(T)
  PROVE  /\ p \o q \in Seq(T) /\ Len(p \o q) = Len(p) + Len(q)
         /\ \A i \in 1 .. Len(p) : (p \o q)[i] = p[i]
         /\ \A i \in 1 .. Len(q) : (p \o q)[Len(p) + i] = q[i]
<1>1. \A i \in 1 .. Len(q) : Len(p) + i \in 1 .. Len(p) + Len(q) /\ Len(p) + i > Len(p)
  OBVIOUS
<1>2. /\ p \o q \in Seq(T) /\ Len(p \o q) = Len(p) + Len(q)
      /\ \A i \in 1 .. Len(p) : (p \o q)[i] = p[i]
  OBVIOUS
<1>3. ASSUME NEW i \in 1 .. Len(q) PROVE (p \o q)[Len(p) + i] = q[i]
  <2>1. Len(p) + i - Len(p) = i
    OBVIOUS
  <2>2. QED
    BY <1>1, <2>1
<1>4. QED
  BY <1>2, <1>3

(* Tiles that fill one sheet after the other lose no moment.                *)
LEMMA TilesJoin ==
  ASSUME NEW T, NEW per \in Nat \ {0}, NEW size \in Nat \ {0}, NEW count \in Nat \ {0},
         NEW tile \in [1 .. size -> T], NEW sheets \in Seq(Seq(T)),
         Filled(sheets, tile, size, per, count)
  PROVE  Request!FlattenSeq(sheets) = tile
<1>1. sheets # << >> /\ Len(sheets) = count /\ size <= count * per /\ (count - 1) * per < size
  BY DEF Filled
<1>2. PICK f \in [1 .. count -> Seq(T)] :
        Flattens(f, sheets) /\ Request!FlattenSeq(sheets) = f[count]
  BY <1>1, Flattened
<1> DEFINE end(k) == IF k * per <= size THEN k * per ELSE size
           Good(k) == Len(f[k]) = end(k) /\ \A i \in 1 .. end(k) : f[k][i] = tile[i]
           K == {k \in Nat : k + 1 <= count => Good(k + 1)}
<1>3. ASSUME NEW k \in 1 .. count
      PROVE  /\ (k - 1) * per \in Nat /\ (k - 1) * per < size /\ k * per = (k - 1) * per + per
             /\ sheets[k] \in Seq(T)
             /\ Len(sheets[k]) = end(k) - (k - 1) * per
             /\ \A i \in 1 .. Len(sheets[k]) : sheets[k][i] = tile[(k - 1) * per + i]
  <2> DEFINE before == (k - 1) * per
             own == IF per <= size - before THEN per ELSE size - before
  <2>1. before \in Nat /\ before <= (count - 1) * per /\ k * per = before + per
    <3>1. (k - 1) * per <= (count - 1) * per
      BY Mono
    <3>2. QED
      BY <3>1
  <2>3. sheets[k] = [i \in 1 .. own |-> tile[before + i]]
    BY DEF Filled, FilledOne
  <2> DEFINE top == (count - 1) * per
  <2>0. top \in Nat /\ top < size /\ before <= top
    BY <1>1, <2>1
  <2> HIDE DEF before, top
  <2>2. before < size
    BY <2>0, <2>1
  <2>4. own \in Nat /\ end(k) = before + own /\ before + own <= size
    BY <2>1, <2>2
  <2> HIDE DEF own
  <2>5. sheets[k] \in Seq(T) /\ Len(sheets[k]) = own
    <3>1. \A i \in 1 .. own : before + i \in 1 .. size
      BY <2>1, <2>4
    <3>2. sheets[k] \in [1 .. own -> T]
      BY <2>3, <3>1
    <3>3. QED
      BY <2>4, <3>2
  <2>6. \A i \in 1 .. Len(sheets[k]) : sheets[k][i] = tile[before + i]
    BY <2>3, <2>4, <2>5
  <2>7. Len(sheets[k]) = end(k) - before
    BY <2>1, <2>4, <2>5
  <2>8. QED
    BY <2>1, <2>2, <2>5, <2>6, <2>7 DEF before
<1>4. 0 \in K
  <2>1. 1 \in 1 .. count /\ f[1] = sheets[1] /\ (1 - 1) * per = 0
    BY <1>2 DEF Flattens
  <2>2. /\ Len(sheets[1]) = end(1) - 0
        /\ \A i \in 1 .. Len(sheets[1]) : sheets[1][i] = tile[0 + i]
    BY <1>3, <2>1
  <2>3. end(1) \in Nat
    OBVIOUS
  <2> HIDE DEF end
  <2>5. Len(sheets[1]) = end(1)
    BY <2>2, <2>3
  <2>6. ASSUME NEW i \in 1 .. end(1) PROVE sheets[1][i] = tile[i]
    <3>1. i \in 1 .. Len(sheets[1]) /\ 0 + i = i
      BY <2>3, <2>5
    <3>2. QED
      BY <2>2, <3>1
  <2>4. Good(1)
    BY <2>1, <2>5, <2>6
  <2>7. QED
    BY <2>4
<1>5. ASSUME NEW k \in K PROVE k + 1 \in K
  <2> SUFFICES ASSUME k + 2 <= count PROVE Good(k + 2)
    OBVIOUS
  <2> DEFINE j == k + 2  before == (j - 1) * per
  <2>1. j \in 1 .. count /\ j \in 2 .. count /\ j - 1 = k + 1 /\ k + 1 \in 1 .. count /\ Good(j - 1)
    OBVIOUS
  <2>2. /\ before \in Nat /\ before < size /\ j * per = before + per
        /\ sheets[j] \in Seq(T) /\ Len(sheets[j]) = end(j) - before
        /\ \A i \in 1 .. Len(sheets[j]) : sheets[j][i] = tile[before + i]
    <3> HIDE DEF end, j
    <3> QED
      BY <1>3, <2>1
  <2>3. f[j] = f[j - 1] \o sheets[j] /\ f[j - 1] \in Seq(T)
    <3> HIDE DEF j
    <3> QED
      BY <1>1, <1>2, <2>1 DEF Flattens
  <2>4. end(j - 1) = before
    BY <2>2
  <2>5. Len(f[j - 1]) = before /\ \A i \in 1 .. before : f[j - 1][i] = tile[i]
    <3> HIDE DEF j, end, before
    <3> QED
      BY <2>1, <2>4
  <2>6. end(j) \in Nat
    OBVIOUS
  <2> HIDE DEF j, before, end
  <2> DEFINE p == f[j - 1]  q == sheets[j]
  <2>10. /\ p \in Seq(T) /\ Len(p) = before /\ q \in Seq(T) /\ Len(q) = end(j) - before
         /\ f[j] = p \o q
         /\ \A i \in 1 .. before : p[i] = tile[i]
         /\ \A i \in 1 .. Len(q) : q[i] = tile[before + i]
    BY <2>2, <2>3, <2>5
  <2> HIDE DEF p, q
  <2>11. /\ Len(p \o q) = Len(p) + Len(q)
         /\ \A i \in 1 .. Len(p) : (p \o q)[i] = p[i]
         /\ \A i \in 1 .. Len(q) : (p \o q)[Len(p) + i] = q[i]
    <3>1. p \in Seq(T) /\ q \in Seq(T)
      BY <2>10
    <3>2. QED
      BY <3>1, Concatenated
  <2>7. Len(f[j]) = end(j)
    BY <2>2, <2>6, <2>10, <2>11
  <2>8. ASSUME NEW i \in 1 .. end(j) PROVE f[j][i] = tile[i]
    <3>1. CASE i <= before
      BY <2>2, <2>10, <2>11, <3>1
    <3>2. CASE i > before
      <4>1. i - before \in 1 .. Len(q) /\ before + (i - before) = i
        BY <2>2, <2>6, <2>10, <3>2
      <4> DEFINE k0 == i - before
      <4>2. k0 \in 1 .. Len(q) /\ before + k0 = i /\ Len(p) + k0 = i
        BY <4>1, <2>10
      <4> HIDE DEF k0
      <4>3. (p \o q)[Len(p) + k0] = q[k0] /\ q[k0] = tile[before + k0]
        BY <2>10, <2>11, <4>2
      <4>4. QED
        BY <2>10, <4>2, <4>3
    <3>3. QED
      BY <2>2, <2>6, <3>1, <3>2
  <2>9. QED
    BY <2>7, <2>8 DEF j
<1>6. Nat \subseteq K
  <2>1. K \in SUBSET Nat
    OBVIOUS
  <2> HIDE DEF K
  <2>2. QED
    BY <2>1, <1>4, <1>5, InductionOnSets
<1>7. Good(count)
  <2>1. count - 1 \in K /\ (count - 1) + 1 = count
    <3> HIDE DEF K
    <3> QED
      BY <1>6
  <2>2. QED
    BY <2>1
<1>8. end(count) = size
  BY <1>1
<1>9. f[count] = tile
  <2> HIDE DEF end
  <2>1. f[count] \in Seq(T) /\ Len(f[count]) = size /\ \A i \in 1 .. size : f[count][i] = tile[i]
    BY <1>2, <1>7, <1>8
  <2> DEFINE last == f[count]
  <2> HIDE DEF last
  <2>2. last \in Seq(T) /\ Len(last) = size /\ \A i \in 1 .. size : last[i] = tile[i]
    BY <2>1 DEF last
  <2>3. tile = [i \in 1 .. size |-> tile[i]] /\ last = [i \in 1 .. size |-> last[i]]
    BY <2>2
  <2>4. QED
    BY <2>2, <2>3 DEF last
<1>10. QED
  BY <1>2, <1>9

(* The moments and the badges of the sheets are those that were to be       *)
(* shown.                                                                   *)
LEMMA SheetsShow ==
  ASSUME NEW shown \in Seq(Int), shown # << >>, NEW labels \in Seq(Int), Len(labels) = Len(shown)
  PROVE  /\ Request!Moments(Request!Sheets(shown, labels)) = shown
         /\ Request!Badges(Request!Sheets(shown, labels)) = labels
<1> DEFINE size == Len(shown)
           per == PerSheet
           count == (size + per - 1) \div per
           T == [moment : Int, badge : Int]
           tile == [i \in 1 .. size |-> Request!Tile(shown, labels, i)]
           sheets == Request!Sheets(shown, labels)
           own(k) == IF per <= size - (k - 1) * per THEN per ELSE size - (k - 1) * per
<1>1. per \in Nat \ {0} /\ size \in Nat \ {0}
  BY PromptAssumption
<1>2. /\ count \in Nat \ {0} /\ size <= count * per /\ (count - 1) * per < size
  <2> DEFINE a == size + per - 1
  <2>1. a \in Int
    BY <1>1
  <2>2. count \in Int /\ count * per <= a /\ a < count * per + per
    <3> HIDE DEF a, per
    <3>1. a \div per \in Int /\ (a \div per) * per <= a /\ a < (a \div per) * per + per
      BY <1>1, <2>1, Divided
    <3>2. QED
      BY <3>1 DEF a
  <2> HIDE DEF count, size, per
  <2>3. (count - 1) * per = count * per - per /\ count * per \in Int
    BY <1>1, <2>2
  <2>4. count > 0
    <3>1. CASE count <= 0
      <4>1. count * per <= 0
        BY <1>1, <2>2, <3>1
      <4>2. QED
        BY <1>1, <2>2, <2>3, <4>1
    <3>2. QED
      BY <2>2, <3>1
  <2>5. QED
    BY <1>1, <2>2, <2>3, <2>4
<1>3. tile \in [1 .. size -> T]
  BY DEF Request!Tile
<1>4. \A i \in 1 .. size : tile[i].moment = shown[i] /\ tile[i].badge = labels[i]
  BY DEF Request!Tile
<1>5. ASSUME NEW k \in 1 .. count
      PROVE  /\ (k - 1) * per \in Nat /\ (k - 1) * per < size
             /\ Request!Min({per, size - (k - 1) * per}) = own(k)
             /\ own(k) \in Nat /\ (k - 1) * per + own(k) <= size
  <2> HIDE DEF count, size, per
  <2> DEFINE before == (k - 1) * per
  <2>1. before \in Nat /\ before < size
    <3>1. (k - 1) * per <= (count - 1) * per
      BY <1>1, <1>2, Mono
    <3>2. QED
      BY <1>1, <1>2, <3>1
  <2> HIDE DEF before
  <2>2. Request!Min({per, size - before}) = IF per <= size - before THEN per ELSE size - before
    <3>1. per \in Int /\ size - before \in Int
      BY <1>1, <2>1
    <3>2. QED
      BY <3>1, Two
  <2>3. QED
    BY <1>1, <2>1, <2>2 DEF before
<1>6. sheets = [k \in 1 .. count |->
                  [i \in 1 .. Request!Min({per, size - (k - 1) * per}) |->
                     Request!Tile(shown, labels, (k - 1) * per + i)]]
  BY DEF Request!Sheets
<1>7. ASSUME NEW k \in 1 .. count
      PROVE  /\ sheets[k] = [i \in 1 .. own(k) |-> tile[(k - 1) * per + i]]
             /\ sheets[k] \in Seq(T)
  <2> DEFINE before == (k - 1) * per  o == own(k)
  <2>1. /\ before \in Nat /\ before < size /\ Request!Min({per, size - before}) = o
        /\ o \in Nat /\ before + o <= size
    BY <1>5
  <2>2. sheets[k] = [i \in 1 .. o |-> Request!Tile(shown, labels, before + i)]
    <3> HIDE DEF sheets, own, before, o
    <3>1. sheets[k] = [i \in 1 .. Request!Min({per, size - (k - 1) * per}) |->
                         Request!Tile(shown, labels, (k - 1) * per + i)]
      BY <1>6
    <3>2. QED
      BY <2>1, <3>1 DEF before
  <2> HIDE DEF sheets, own, before, o, T
  <2>3. \A i \in 1 .. o : before + i \in 1 .. size
    BY <1>1, <2>1
  <2>4. \A i \in 1 .. o : Request!Tile(shown, labels, before + i) = tile[before + i]
    BY <2>3
  <2> HIDE DEF tile
  <2>5. sheets[k] = [i \in 1 .. o |-> tile[before + i]]
    BY <2>2, <2>4
  <2>6. sheets[k] \in Seq(T)
    <3>1. \A i \in 1 .. o : tile[before + i] \in T
      BY <1>3, <2>3
    <3>2. sheets[k] \in [1 .. o -> T]
      BY <2>5, <3>1
    <3>3. QED
      BY <2>1, <3>2
  <2>7. QED
    BY <2>5, <2>6 DEF before, o
<1>8. sheets \in Seq(Seq(T)) /\ Len(sheets) = count
  <2> HIDE DEF T, count, sheets
  <2>1. sheets = [k \in 1 .. count |-> sheets[k]]
    BY <1>6
  <2>2. sheets \in [1 .. count -> Seq(T)]
    BY <1>7, <2>1
  <2>3. QED
    BY <1>2, <2>2
<1>9. Request!FlattenSeq(sheets) = tile
  <2>1. \A k \in 1 .. count : FilledOne(sheets[k], tile, size, per, (k - 1) * per)
    <3> HIDE DEF sheets, tile, T, count, size, per
    <3> QED
      BY <1>7 DEF FilledOne
  <2> HIDE DEF sheets, tile, T, count, size, per
  <2>2. Filled(sheets, tile, size, per, count)
    BY <1>2, <1>8, <2>1 DEF Filled
  <2>3. QED
    BY <1>1, <1>2, <1>3, <1>8, <2>2, TilesJoin
<1>10. /\ Request!Moments(sheets) = [i \in DOMAIN tile |-> tile[i].moment]
       /\ Request!Badges(sheets) = [i \in DOMAIN tile |-> tile[i].badge]
  <2> HIDE DEF sheets, tile
  <2> QED
    BY <1>9 DEF Request!Moments, Request!Badges
<1>11. DOMAIN tile = 1 .. size
  OBVIOUS
<1>12. /\ shown = [i \in 1 .. size |-> shown[i]] /\ labels = [i \in 1 .. size |-> labels[i]]
  OBVIOUS
<1> HIDE DEF sheets, tile, size
<1>13. QED
  BY <1>4, <1>10, <1>11, <1>12 DEF sheets

-----------------------------------------------------------------------------
(* A choice stratified by motion has the ends and at most so many frames.   *)

(* What a recursive function over 1 .. size is, and that there is one.      *)
Unfolds(f, base, step, size) ==
  f = [k \in 1 .. size |-> IF k = 1 THEN base ELSE step[k][f[k - 1]]]

LEMMA UnfoldsOne ==
  ASSUME NEW S, NEW base \in S, NEW size \in Nat \ {0}, NEW step \in [1 .. size -> [S -> S]]
  PROVE  \E f \in [1 .. size -> S] : Unfolds(f, base, step, size)
<1>1. PICK f : IteratesFrom1(f, S, base, step, size)
  BY IteratedFrom1
<1>2. f \in [1 .. size -> S]
  BY <1>1 DEF IteratesFrom1
<1>3. ASSUME NEW k \in 1 .. size PROVE f[k] = IF k = 1 THEN base ELSE step[k][f[k - 1]]
  <2>1. CASE k = 1
    BY <1>1, <2>1 DEF IteratesFrom1
  <2>2. CASE k # 1
    <3>1. k \in 2 .. size
      BY <2>2
    <3>2. f[k] = step[k][f[k - 1]]
      BY <1>1, <3>1 DEF IteratesFrom1
    <3>3. QED
      BY <2>2, <3>2
  <2>3. QED
    BY <2>1, <2>2
<1>4. f = [k \in 1 .. size |-> f[k]]
  BY <1>2
<1>5. QED
  BY <1>2, <1>3, <1>4 DEF Unfolds

(* The strata of a choice that have frames, and the frames.                 *)
FramesOf(ts) == {ts[i] : i \in 1 .. Len(ts)}
StrataOf(ts, size) ==
  [k \in 2 .. size - 1 |-> Request!Stratum(ts, Request!Grid(Head(ts), Request!Last(ts), size), k)]
Full(strata, k) == {j \in 2 .. k : strata[j] # {}}
Empty(strata, k) == {j \in 2 .. k : strata[j] = {}}

(* The two recursive functions of Chosen.                                   *)
IsRanked(f, ts, strata, size) ==
  f = [k \in 1 .. size - 1 |->
         IF k = 1 THEN {Request!Ends(ts)}
         ELSE IF strata[k] = {} THEN f[k - 1]
         ELSE Request!OneMore(f[k - 1], strata[k])]

NearestFree(ts, size, k, s) ==
  Request!Nearest(Request!Range(ts) \ (s \cup Request!Ends(ts)),
                  Request!Grid(Head(ts), Request!Last(ts), size)[k])

NextFilled(R, ts, size, k) ==
  UNION {Request!OneMore({s}, NearestFree(ts, size, k, s)) : s \in R}

IsFilled(f, ts, strata, ranked, size) ==
  f = [k \in 1 .. size - 1 |->
         IF k = 1 THEN ranked[size - 1]
         ELSE IF strata[k] # {} THEN f[k - 1]
         ELSE NextFilled(f[k - 1], ts, size, k)]

(* A choice of the ends and some frames.                                    *)
GoodChoice(ts, s, most) ==
  /\ IsFiniteSet(s) /\ Request!Ends(ts) \subseteq s /\ s \subseteq FramesOf(ts)
  /\ Cardinality(s) <= most

LEMMA GoodChoiceLarger ==
  ASSUME NEW ts, NEW s, NEW most \in Nat, GoodChoice(ts, s, most), NEW t \in FramesOf(ts)
  PROVE  GoodChoice(ts, s \cup {t}, most + 1)
<1>1. /\ IsFiniteSet(s \cup {t})
      /\ Cardinality(s \cup {t}) = IF t \in s THEN Cardinality(s) ELSE Cardinality(s) + 1
  BY FS_AddElement DEF GoodChoice
<1>2. Cardinality(s) \in Nat
  BY FS_CardinalityType DEF GoodChoice
<1>3. QED
  BY <1>1, <1>2 DEF GoodChoice

(* Of the strata up to one, the full and the empty are counted.             *)
LEMMA Counting ==
  ASSUME NEW strata, NEW k \in Nat \ {0}
  PROVE  /\ IsFiniteSet(Full(strata, k)) /\ Cardinality(Full(strata, k)) \in Nat
         /\ IsFiniteSet(Empty(strata, k)) /\ Cardinality(Empty(strata, k)) \in Nat
         /\ Cardinality(Full(strata, k)) + Cardinality(Empty(strata, k)) = k - 1
         /\ Full(strata, k + 1)
              = IF strata[k + 1] # {} THEN Full(strata, k) \cup {k + 1} ELSE Full(strata, k)
         /\ Empty(strata, k + 1)
              = IF strata[k + 1] = {} THEN Empty(strata, k) \cup {k + 1} ELSE Empty(strata, k)
         /\ Cardinality(Full(strata, k + 1))
              = IF strata[k + 1] # {} THEN Cardinality(Full(strata, k)) + 1
                ELSE Cardinality(Full(strata, k))
         /\ Cardinality(Empty(strata, k + 1))
              = IF strata[k + 1] = {} THEN Cardinality(Empty(strata, k)) + 1
                ELSE Cardinality(Empty(strata, k))
<1> DEFINE F == Full(strata, k)  E == Empty(strata, k)
<1>1. IsFiniteSet(2 .. k) /\ Cardinality(2 .. k) = k - 1
  BY FS_Interval
<1>2. F \subseteq 2 .. k /\ E \subseteq 2 .. k /\ F \cup E = 2 .. k /\ F \cap E = {}
  BY DEF Full, Empty
<1>3. Full(strata, k + 1) = IF strata[k + 1] # {} THEN F \cup {k + 1} ELSE F
  BY DEF Full
<1>4. Empty(strata, k + 1) = IF strata[k + 1] = {} THEN E \cup {k + 1} ELSE E
  BY DEF Empty
<1>5. k + 1 \notin F /\ k + 1 \notin E
  BY <1>2
<1> HIDE DEF F, E
<1>6. IsFiniteSet(F) /\ IsFiniteSet(E)
  BY <1>1, <1>2, FS_Subset
<1>7. Cardinality(F) \in Nat /\ Cardinality(E) \in Nat
  BY <1>6, FS_CardinalityType
<1>8. Cardinality(F) + Cardinality(E) = k - 1
  <2>1. Cardinality(F \cup E) = Cardinality(F) + Cardinality(E) - Cardinality(F \cap E)
    BY <1>6, FS_Union
  <2>2. Cardinality(F \cap E) = 0
    BY <1>2, FS_EmptySet
  <2>3. Cardinality(F \cup E) = k - 1
    BY <1>1, <1>2
  <2>4. QED
    BY <1>7, <2>1, <2>2, <2>3
<1>9. Cardinality(F \cup {k + 1}) = Cardinality(F) + 1 /\ Cardinality(E \cup {k + 1}) = Cardinality(E) + 1
  BY <1>5, <1>6, FS_AddElement
<1>10. QED
  BY <1>3, <1>4, <1>6, <1>7, <1>8, <1>9 DEF F, E

(* Each full stratum adds at most one frame to the two ends.                *)
LEMMA RankedGood ==
  ASSUME NEW ts \in Seq(Int), NEW size \in Nat, size >= 2, size < Len(ts),
         NEW f, IsRanked(f, ts, StrataOf(ts, size), size)
  PROVE  \A k \in 1 .. size - 1 :
           \A s \in f[k] : GoodChoice(ts, s, 2 + Cardinality(Full(StrataOf(ts, size), k)))
<1> DEFINE strata == StrataOf(ts, size)
           Good(k) == \A s \in f[k] : GoodChoice(ts, s, 2 + Cardinality(Full(strata, k)))
           K == {k \in Nat : k + 1 <= size - 1 => Good(k + 1)}
<1>1. \A k \in 1 .. size - 1 :
        f[k] = IF k = 1 THEN {Request!Ends(ts)}
               ELSE IF strata[k] = {} THEN f[k - 1]
               ELSE Request!OneMore(f[k - 1], strata[k])
  <2> HIDE DEF strata
  <2>1. IsRanked(f, ts, strata, size)
    BY DEF strata
  <2>2. QED
    BY <2>1 DEF IsRanked
<1>2. \A k \in 2 .. size - 1 : strata[k] \subseteq FramesOf(ts)
  BY DEF StrataOf, Request!Stratum, Request!Range, FramesOf
<1> HIDE DEF strata
<1>3. 0 \in K
  <2>1. f[1] = {Request!Ends(ts)}
    <3>1. 1 \in 1 .. size - 1
      OBVIOUS
    <3>2. QED
      BY <1>1, <3>1
  <2>2. Full(strata, 1) = {}
    BY DEF Full
  <2>3. GoodChoice(ts, Request!Ends(ts), 2 + 0)
    <3>1. Request!Ends(ts) = {ts[1], ts[Len(ts)]}
      BY DEF Request!Ends, Request!Last
    <3>2. /\ IsFiniteSet({ts[1]}) /\ IsFiniteSet({ts[1]} \cup {ts[Len(ts)]})
          /\ Cardinality({ts[1]}) = 1 /\ Cardinality({ts[1]} \cup {ts[Len(ts)]}) <= 2
      <4>1. IsFiniteSet({ts[1]}) /\ Cardinality({ts[1]}) = 1
        BY FS_Singleton
      <4>2. /\ IsFiniteSet({ts[1]} \cup {ts[Len(ts)]})
            /\ Cardinality({ts[1]} \cup {ts[Len(ts)]})
                 = IF ts[Len(ts)] \in {ts[1]} THEN Cardinality({ts[1]}) ELSE Cardinality({ts[1]}) + 1
        BY <4>1, FS_AddElement
      <4>3. QED
        BY <4>1, <4>2
    <3>3. {ts[1]} \cup {ts[Len(ts)]} = {ts[1], ts[Len(ts)]}
      OBVIOUS
    <3>4. {ts[1], ts[Len(ts)]} \subseteq FramesOf(ts)
      BY DEF FramesOf
    <3>5. 2 + 0 = 2
      OBVIOUS
    <3>6. QED
      BY <3>1, <3>2, <3>3, <3>4, <3>5 DEF GoodChoice
  <2>4. Cardinality(Full(strata, 1)) = 0
    BY <2>2, FS_EmptySet
  <2>5. QED
    BY <2>1, <2>3, <2>4
<1>4. ASSUME NEW k \in K PROVE k + 1 \in K
  <2> SUFFICES ASSUME k + 2 <= size - 1 PROVE Good(k + 2)
    BY SMTT(30)
  <2> DEFINE j == k + 1
  <2>1. j \in Nat \ {0} /\ j + 1 \in 2 .. size - 1 /\ j + 1 = k + 2 /\ Good(j) /\ (j + 1) - 1 = j
    OBVIOUS
  <2> HIDE DEF j
  <2>2. /\ Cardinality(Full(strata, j)) \in Nat
        /\ Cardinality(Full(strata, j + 1))
             = IF strata[j + 1] # {} THEN Cardinality(Full(strata, j)) + 1
               ELSE Cardinality(Full(strata, j))
    BY <2>1, Counting
  <2>3. f[j + 1] = IF strata[j + 1] = {} THEN f[j]
                   ELSE Request!OneMore(f[j], strata[j + 1])
    BY <1>1, <2>1, SMTT(30)
  <2>4. CASE strata[j + 1] = {}
    BY <2>1, <2>2, <2>3, <2>4
  <2>5. CASE strata[j + 1] # {}
    <3>1. ASSUME NEW u \in f[j + 1]
          PROVE  GoodChoice(ts, u, 2 + Cardinality(Full(strata, j + 1)))
      <4>1. PICK s \in f[j], t \in strata[j + 1] : u = s \cup {t}
        BY <2>3, <2>5 DEF Request!OneMore
      <4>2. t \in FramesOf(ts)
        BY <1>2, <2>1
      <4>3. GoodChoice(ts, s, 2 + Cardinality(Full(strata, j)))
        BY <2>1
      <4>4. GoodChoice(ts, s \cup {t}, (2 + Cardinality(Full(strata, j))) + 1)
        <5>1. 2 + Cardinality(Full(strata, j)) \in Nat
          BY <2>2
        <5>2. QED
          BY <4>2, <4>3, <5>1, GoodChoiceLarger
      <4>5. (2 + Cardinality(Full(strata, j))) + 1 = 2 + Cardinality(Full(strata, j + 1))
        BY <2>2, <2>5
      <4>6. QED
        BY <4>1, <4>4, <4>5
    <3>2. QED
      BY <2>1, <3>1
  <2>6. QED
    BY <2>4, <2>5
<1>5. Nat \subseteq K
  <2>1. K \in SUBSET Nat
    OBVIOUS
  <2> HIDE DEF K
  <2>2. QED
    BY <2>1, <1>3, <1>4, InductionOnSets
<1>6. ASSUME NEW k \in 1 .. size - 1 PROVE Good(k)
  <2>1. k - 1 \in K /\ (k - 1) + 1 = k
    <3> HIDE DEF K
    <3> QED
      BY <1>5
  <2> HIDE DEF Good
  <2>2. QED
    BY <2>1
<1>7. QED
  BY <1>6 DEF strata

(* Each empty stratum adds at most one frame, the nearest that is free.     *)
LEMMA FilledGood ==
  ASSUME NEW ts \in Seq(Int), NEW size \in Nat, size >= 2, size < Len(ts),
         NEW ranked, NEW most \in Nat, \A s \in ranked[size - 1] : GoodChoice(ts, s, most),
         NEW f, IsFilled(f, ts, StrataOf(ts, size), ranked, size)
  PROVE  \A k \in 1 .. size - 1 :
           \A s \in f[k] : GoodChoice(ts, s, most + Cardinality(Empty(StrataOf(ts, size), k)))
<1> DEFINE strata == StrataOf(ts, size)
           Good(k) == \A s \in f[k] : GoodChoice(ts, s, most + Cardinality(Empty(strata, k)))
           K == {k \in Nat : k + 1 <= size - 1 => Good(k + 1)}
<1>1. \A k \in 1 .. size - 1 :
        f[k] = IF k = 1 THEN ranked[size - 1]
               ELSE IF strata[k] # {} THEN f[k - 1]
               ELSE NextFilled(f[k - 1], ts, size, k)
  <2> HIDE DEF strata
  <2>1. IsFilled(f, ts, strata, ranked, size)
    BY DEF strata
  <2>2. QED
    BY <2>1 DEF IsFilled
<1>2. \A k, s : NearestFree(ts, size, k, s) \subseteq FramesOf(ts)
  BY DEF NearestFree, Request!Nearest, Request!Range, FramesOf
<1> HIDE DEF strata
<1>3. 0 \in K
  <2>1. f[1] = ranked[size - 1]
    <3>1. 1 \in 1 .. size - 1
      OBVIOUS
    <3>2. QED
      BY <1>1, <3>1
  <2>2. Empty(strata, 1) = {}
    BY DEF Empty
  <2>3. Cardinality(Empty(strata, 1)) = 0
    BY <2>2, FS_EmptySet
  <2>4. most + 0 = most
    OBVIOUS
  <2>5. QED
    BY <2>1, <2>3, <2>4
<1>4. ASSUME NEW k \in K PROVE k + 1 \in K
  <2> SUFFICES ASSUME k + 2 <= size - 1 PROVE Good(k + 2)
    BY SMTT(30)
  <2> DEFINE j == k + 1
  <2>1. j \in Nat \ {0} /\ j + 1 \in 2 .. size - 1 /\ j + 1 = k + 2 /\ Good(j) /\ (j + 1) - 1 = j
    OBVIOUS
  <2> HIDE DEF j
  <2>2. /\ Cardinality(Empty(strata, j)) \in Nat
        /\ Cardinality(Empty(strata, j + 1))
             = IF strata[j + 1] = {} THEN Cardinality(Empty(strata, j)) + 1
               ELSE Cardinality(Empty(strata, j))
    BY <2>1, Counting
  <2>3. f[j + 1] = IF strata[j + 1] # {} THEN f[j]
                   ELSE NextFilled(f[j], ts, size, j + 1)
    <3> DEFINE c == j + 1
    <3>1. c \in 1 .. size - 1 /\ c # 1 /\ c - 1 = j
      BY <2>1
    <3> HIDE DEF c
    <3>2. f[c] = IF strata[c] # {} THEN f[c - 1] ELSE NextFilled(f[c - 1], ts, size, c)
      BY <1>1, <3>1
    <3>3. QED
      BY <3>1, <3>2 DEF c
  <2>4. CASE strata[j + 1] # {}
    BY <2>1, <2>2, <2>3, <2>4
  <2>5. CASE strata[j + 1] = {}
    <3>1. ASSUME NEW u \in f[j + 1]
          PROVE  GoodChoice(ts, u, most + Cardinality(Empty(strata, j + 1)))
      <4>1. PICK s \in f[j] : u \in Request!OneMore({s}, NearestFree(ts, size, j + 1, s))
        <5>1. u \in NextFilled(f[j], ts, size, j + 1)
          BY <2>3, <2>5
        <5>2. QED
          BY <5>1 DEF NextFilled
      <4>2. PICK t \in FramesOf(ts) : u = s \cup {t}
        BY <4>1, <1>2 DEF Request!OneMore
      <4>3. GoodChoice(ts, s, most + Cardinality(Empty(strata, j)))
        BY <2>1
      <4>4. GoodChoice(ts, s \cup {t}, (most + Cardinality(Empty(strata, j))) + 1)
        <5>1. most + Cardinality(Empty(strata, j)) \in Nat
          BY <2>2
        <5>2. QED
          BY <4>2, <4>3, <5>1, GoodChoiceLarger
      <4>5. (most + Cardinality(Empty(strata, j))) + 1 = most + Cardinality(Empty(strata, j + 1))
        BY <2>2, <2>5
      <4>6. QED
        BY <4>2, <4>4, <4>5
    <3>2. QED
      BY <2>1, <3>1
  <2>6. QED
    BY <2>4, <2>5
<1>5. Nat \subseteq K
  <2>1. K \in SUBSET Nat
    OBVIOUS
  <2> HIDE DEF K
  <2>2. QED
    BY <2>1, <1>3, <1>4, InductionOnSets
<1>6. ASSUME NEW k \in 1 .. size - 1 PROVE Good(k)
  <2>1. k - 1 \in K /\ (k - 1) + 1 = k
    <3> HIDE DEF K
    <3> QED
      BY <1>5
  <2> HIDE DEF Good
  <2>2. QED
    BY <2>1
<1>7. QED
  BY <1>6 DEF strata

(* There are such functions, so that the ones of Chosen are.                *)
LEMMA RankedExists ==
  ASSUME NEW ts, NEW size \in Nat, size >= 2, NEW strata
  PROVE  \E f : IsRanked(f, ts, strata, size)
<1> DEFINE S == SUBSET (SUBSET (Request!Ends(ts) \cup UNION {strata[k] : k \in 2 .. size - 1}))
           base == {Request!Ends(ts)}
           step == [k \in 1 .. size - 1 |-> [R \in S |->
                      IF k = 1 \/ strata[k] = {} THEN R ELSE Request!OneMore(R, strata[k])]]
<1>1. base \in S /\ size - 1 \in Nat \ {0}
  OBVIOUS
<1>2. ASSUME NEW k \in 1 .. size - 1, k # 1, NEW R \in S PROVE Request!OneMore(R, strata[k]) \in S
  <2>1. k \in 2 .. size - 1
    BY <1>2
  <2>2. QED
    BY <2>1 DEF Request!OneMore
<1>3. step \in [1 .. size - 1 -> [S -> S]]
  <2> HIDE DEF S
  <2> QED
    BY <1>2
<1>4. PICK f \in [1 .. size - 1 -> S] : Unfolds(f, base, step, size - 1)
  <2> HIDE DEF S, base, step
  <2> QED
    BY <1>1, <1>3, UnfoldsOne
<1>5. ASSUME NEW k \in 1 .. size - 1
      PROVE  f[k] = IF k = 1 THEN base ELSE IF strata[k] = {} THEN f[k - 1]
                    ELSE Request!OneMore(f[k - 1], strata[k])
  <2>1. f[k] = IF k = 1 THEN base ELSE step[k][f[k - 1]]
    <3> HIDE DEF base, step, S
    <3> QED
      BY <1>4 DEF Unfolds
  <2>2. k # 1 => f[k - 1] \in S
    <3> HIDE DEF S
    <3> QED
      BY <1>4
  <2> HIDE DEF S
  <2>3. QED
    BY <2>1, <2>2
<1>6. f = [k \in 1 .. size - 1 |-> f[k]]
  <2> HIDE DEF S
  <2> QED
    BY <1>4
<1>7. IsRanked(f, ts, strata, size)
  <2> HIDE DEF S, step
  <2> QED
    BY <1>5, <1>6 DEF IsRanked
<1>8. QED
  BY <1>7

LEMMA FilledExists ==
  ASSUME NEW ts \in Seq(Int), NEW size \in Nat, size >= 2, NEW strata, NEW ranked,
         NEW P, ranked[size - 1] \subseteq SUBSET P, FramesOf(ts) \subseteq P
  PROVE  \E f : IsFilled(f, ts, strata, ranked, size)
<1> DEFINE S == SUBSET (SUBSET P)
           base == ranked[size - 1]
           step == [k \in 1 .. size - 1 |-> [R \in S |->
                      IF strata[k] # {} THEN R ELSE NextFilled(R, ts, size, k)]]
<1>1. base \in S /\ size - 1 \in Nat \ {0}
  OBVIOUS
<1>2. ASSUME NEW k \in 1 .. size - 1, NEW R \in S PROVE NextFilled(R, ts, size, k) \in S
  <2>1. \A s : NearestFree(ts, size, k, s) \subseteq P
    BY DEF NearestFree, Request!Nearest, Request!Range, FramesOf
  <2>2. ASSUME NEW s \in R PROVE Request!OneMore({s}, NearestFree(ts, size, k, s)) \subseteq SUBSET P
    BY <2>1 DEF Request!OneMore
  <2>3. ASSUME NEW u \in NextFilled(R, ts, size, k) PROVE u \in SUBSET P
    <3>1. PICK s \in R : u \in Request!OneMore({s}, NearestFree(ts, size, k, s))
      BY DEF NextFilled
    <3>2. QED
      BY <2>2, <3>1
  <2>4. QED
    BY <2>3
<1>3. step \in [1 .. size - 1 -> [S -> S]]
  <2> HIDE DEF S
  <2> QED
    BY <1>2
<1>4. PICK f \in [1 .. size - 1 -> S] : Unfolds(f, base, step, size - 1)
  <2> HIDE DEF S, base, step
  <2> QED
    BY <1>1, <1>3, UnfoldsOne
<1>5. ASSUME NEW k \in 1 .. size - 1
      PROVE  f[k] = IF k = 1 THEN base ELSE IF strata[k] # {} THEN f[k - 1]
                    ELSE NextFilled(f[k - 1], ts, size, k)
  <2>1. f[k] = IF k = 1 THEN base ELSE step[k][f[k - 1]]
    <3> HIDE DEF base, step, S
    <3> QED
      BY <1>4 DEF Unfolds
  <2>2. k # 1 => f[k - 1] \in S
    <3> HIDE DEF S
    <3> QED
      BY <1>4
  <2> HIDE DEF S
  <2>3. QED
    BY <2>1, <2>2
<1>6. f = [k \in 1 .. size - 1 |-> f[k]]
  <2> HIDE DEF S
  <2> QED
    BY <1>4
<1>7. IsFilled(f, ts, strata, ranked, size)
  <2> HIDE DEF S, step
  <2> QED
    BY <1>5, <1>6 DEF IsFilled
<1>8. QED
  BY <1>7

(* No more frames are chosen than were wanted, and both ends are.           *)
LEMMA ChosenSound ==
  ASSUME NEW ts \in Seq(Int), NEW size \in Nat, size >= 2, size < Len(ts),
         NEW s \in Request!Chosen(ts, size)
  PROVE  GoodChoice(ts, s, size)
<1> DEFINE strata == StrataOf(ts, size)
           ranked == CHOOSE f : IsRanked(f, ts, strata, size)
           filled == CHOOSE f : IsFilled(f, ts, strata, ranked, size)
<1>1. Request!Chosen(ts, size) = filled[size - 1]
  BY DEF Request!Chosen, IsRanked, IsFilled, StrataOf, NearestFree, NextFilled
<1> HIDE DEF strata
<1>2. IsRanked(ranked, ts, strata, size)
  BY RankedExists
<1> HIDE DEF ranked
<1> DEFINE most == 2 + Cardinality(Full(strata, size - 1))
<1>3. /\ size - 1 \in Nat \ {0} /\ size - 1 \in 1 .. size - 1
      /\ Cardinality(Full(strata, size - 1)) \in Nat /\ Cardinality(Empty(strata, size - 1)) \in Nat
      /\ Cardinality(Full(strata, size - 1)) + Cardinality(Empty(strata, size - 1)) = (size - 1) - 1
  <2> DEFINE k == size - 1
  <2>1. k \in Nat \ {0}
    OBVIOUS
  <2> HIDE DEF k
  <2>2. /\ Cardinality(Full(strata, k)) \in Nat /\ Cardinality(Empty(strata, k)) \in Nat
        /\ Cardinality(Full(strata, k)) + Cardinality(Empty(strata, k)) = k - 1
    BY <2>1, Counting
  <2>3. QED
    BY <2>1, <2>2 DEF k
<1>4. \A u \in ranked[size - 1] : GoodChoice(ts, u, most)
  BY <1>2, <1>3, RankedGood DEF strata
<1>5. ranked[size - 1] \subseteq SUBSET FramesOf(ts)
  BY <1>4 DEF GoodChoice
<1>6. IsFilled(filled, ts, strata, ranked, size)
  <2>1. \E f : IsFilled(f, ts, strata, ranked, size)
    BY <1>5, FilledExists
  <2>2. QED
    BY <2>1
<1> HIDE DEF filled
<1>7. most \in Nat /\ most + Cardinality(Empty(strata, size - 1)) = size
  BY <1>3
<1> HIDE DEF most
<1>8. GoodChoice(ts, s, most + Cardinality(Empty(strata, size - 1)))
  BY <1>1, <1>3, <1>4, <1>6, <1>7, FilledGood DEF strata
<1>9. QED
  BY <1>7, <1>8

-----------------------------------------------------------------------------
(* What an alignment shows: its moments and its views.                      *)

LEMMA PartShorter ==
  ASSUME NEW T, NEW s \in Seq(T), NEW set, NEW q \in Seq(T), PartOf(q, s, Len(s), set)
  PROVE  Len(q) <= Len(s)
<1>1. PICK f : Places(f, Len(q), Len(s))
  BY DEF PartOf
<1>2. f \in [1 .. Len(q) -> Int] /\ Len(q) \in Nat
  BY <1>1 DEF Places
<1>3. f \in Seq(Int) /\ Len(f) = Len(q)
  BY <1>2
<1>4. /\ IsFiniteSet(1 .. Len(s)) /\ Cardinality(1 .. Len(s)) = IF 1 > Len(s) THEN 0 ELSE Len(s) - 1 + 1
  BY FS_Interval
<1>5. /\ \A k \in 1 .. Len(f) : f[k] \in 1 .. Len(s)
      /\ \A i, j \in 1 .. Len(f) : i < j => f[i] < f[j]
  BY <1>1, <1>3 DEF Places
<1>6. Len(f) <= Cardinality(1 .. Len(s))
  BY <1>3, <1>4, <1>5, PartCounted
<1>7. QED
  BY <1>3, <1>4, <1>6

Inherits(q, s) ==
  /\ \A k \in 1 .. Len(q) : \E i \in 1 .. Len(s) : q[k] = s[i]
  /\ (\A i, j \in 1 .. Len(s) : i # j => s[i] # s[j]) => \A i, j \in 1 .. Len(q) : i # j => q[i] # q[j]
  /\ (\A i, j \in 1 .. Len(s) : i < j => s[i] < s[j]) => \A i, j \in 1 .. Len(q) : i < j => q[i] < q[j]

LEMMA PartInherits ==
  ASSUME NEW T, NEW s \in Seq(T), NEW set, NEW q \in Seq(T), PartOf(q, s, Len(s), set)
  PROVE  Inherits(q, s)
BY PartKeeps DEF Inherits

(* Moments of an episode, in order and with both ends, but for a single one. *)
Shows(q, ts, most) ==
  /\ q \in Seq(Int) /\ q # << >> /\ Len(q) <= most /\ Rising(q)
  /\ q[1] = ts[1] /\ (Len(q) > 1 => q[Len(q)] = ts[Len(ts)])

(* The stratified sample is in order and shows both ends.                   *)
LEMMA StratifiedShows ==
  ASSUME NEW ts \in Seq(Int), Rising(ts), NEW size \in Nat, size >= 2, size < Len(ts),
         NEW q \in Request!Stratified(ts, size)
  PROVE  Shows(q, ts, size)
<1>1. PICK s \in Request!Chosen(ts, size) : q = Request!Only(ts, s)
  BY DEF Request!Stratified
<1>2. GoodChoice(ts, s, size)
  BY ChosenSound
<1>3. q \in Seq(Int) /\ PartOf(q, ts, Len(ts), s)
  BY <1>1, OnlyIsPart
<1>4. /\ \A k \in 1 .. Len(q) : \E i \in 1 .. Len(ts) : q[k] = ts[i]
      /\ \A i, j \in 1 .. Len(q) : i < j => q[i] < q[j]
  <2>1. \A i, j \in 1 .. Len(ts) : i < j => ts[i] < ts[j]
    BY DEF Rising
  <2>2. q \in Seq(Int) /\ PartOf(q, ts, Len(ts), s)
    BY <1>3
  <2>3. /\ \A k \in 1 .. Len(q) : \E i \in 1 .. Len(ts) : q[k] = ts[i]
        /\ (\A i, j \in 1 .. Len(ts) : i < j => ts[i] < ts[j]) =>
             \A i, j \in 1 .. Len(q) : i < j => q[i] < q[j]
    <3>1. ASSUME NEW T, NEW set PROVE q \in Seq(T) /\ ts \in Seq(T) /\ PartOf(q, ts, Len(ts), set) => Inherits(q, ts)
      BY PartInherits
    <3>2. Inherits(q, ts)
      BY <2>2, <3>1
    <3>3. QED
      BY <3>2 DEF Inherits
  <2>4. QED
    BY <2>1, <2>3
<1>5. Len(q) <= size
  <2>1. \A k \in 1 .. Len(q) : q[k] \in s
    BY <1>3 DEF PartOf
  <2>2. Len(q) <= Cardinality(s)
    BY <1>2, <1>3, <1>4, <2>1, PartCounted DEF GoodChoice
  <2>3. Cardinality(s) \in Nat /\ Cardinality(s) <= size
    BY <1>2, FS_CardinalityType DEF GoodChoice
  <2>4. QED
    BY <1>3, <2>2, <2>3
<1>6. ts[1] \in s /\ ts[Len(ts)] \in s
  BY <1>2 DEF GoodChoice, Request!Ends, Request!Last
<1>7. (\E k \in 1 .. Len(q) : q[k] = ts[1]) /\ (\E k \in 1 .. Len(q) : q[k] = ts[Len(ts)])
  <2>1. 1 \in 1 .. Len(ts) /\ Len(ts) \in 1 .. Len(ts)
    OBVIOUS
  <2>2. QED
    BY <1>3, <1>6, <2>1 DEF PartOf
<1>8. \A i \in 1 .. Len(ts) : ts[1] <= ts[i] /\ ts[i] <= ts[Len(ts)]
  BY DEF Rising
<1>9. q[1] = ts[1] /\ q[Len(q)] = ts[Len(ts)] /\ q # << >>
  <2>1. PICK k \in 1 .. Len(q) : q[k] = ts[1]
    BY <1>7
  <2>2. PICK l \in 1 .. Len(q) : q[l] = ts[Len(ts)]
    BY <1>7
  <2>3. 1 \in 1 .. Len(q) /\ Len(q) \in 1 .. Len(q) /\ q[1] \in Int /\ q[Len(q)] \in Int
        /\ q[k] \in Int /\ q[l] \in Int
    BY <1>3
  <2>4. ts[1] <= q[1] /\ q[Len(q)] <= ts[Len(ts)]
    BY <1>4, <1>8, <2>3
  <2>5. k = 1
    BY <1>4, <2>1, <2>3, <2>4, SMTT(30)
  <2>6. l = Len(q)
    <3>1. l < Len(q) => q[l] < q[Len(q)]
      BY <1>4, <2>3
    <3>2. Len(q) \in Nat /\ l \in Nat /\ l <= Len(q)
      BY <1>3
    <3>3. ~(l < Len(q))
      BY <2>2, <2>3, <2>4, <3>1
    <3>4. QED
      BY <3>2, <3>3
  <2>7. QED
    BY <2>1, <2>2, <2>5, <2>6
<1>10. QED
  BY <1>3, <1>4, <1>5, <1>9 DEF Shows, Rising

(* So is each timeline, evenly spaced or stratified.                        *)
LEMMA TimelineShows ==
  ASSUME NEW ts \in Seq(Int), ts # << >>, Rising(ts), NEW size \in Nat \ {0},
         ts[Len(ts)] - ts[1] >= size - 1, NEW motion, NEW q \in Request!Timelines(ts, size, motion)
  PROVE  Shows(q, ts, size)
<1>1. CASE q = Request!Uniform(ts, size)
  BY <1>1, UniformSound DEF Shows
<1>2. CASE q # Request!Uniform(ts, size)
  <2>1. size >= 2 /\ q \in IF size >= Len(ts) THEN {ts} ELSE Request!Stratified(ts, size)
    BY <1>2 DEF Request!Timelines
  <2>2. CASE size >= Len(ts)
    BY <2>1, <2>2 DEF Shows
  <2>3. CASE size < Len(ts)
    BY <2>1, <2>3, StratifiedShows
  <2>4. QED
    BY <2>1, <2>2, <2>3
<1>3. QED
  BY <1>1, <1>2

-----------------------------------------------------------------------------
(* The windows of an episode follow each other from end to end, and each     *)
(* fits into a prompt.                                                      *)

LEMMA Cancel ==
  ASSUME NEW x \in Int, NEW y \in Int, NEW l \in Nat \ {0}, x * l < y * l
  PROVE  x < y
<1>1. y <= x => y * l <= x * l
  BY Mono
<1>2. x * l \in Int /\ y * l \in Int
  OBVIOUS
<1>3. QED
  BY <1>1, <1>2

(* What is rounded down.                                                    *)
LEMMA RoundedBelow ==
  ASSUME NEW h \in Int, NEW b \in Nat \ {0}, NEW c \in Int, 2 * h < 2 * (c * b) + b
  PROVE  Request!Round(h, b) <= c
<1> DEFINE r == Request!Round(h, b)
<1>1. r \in Int /\ 2 * (r * b) <= 2 * h + b
  BY Rounded
<1> HIDE DEF r
<1>2. r * b \in Int /\ c * b \in Int /\ (c + 1) * b = c * b + b
  BY <1>1
<1>3. r * b < (c + 1) * b
  BY <1>1, <1>2
<1>4. r < c + 1
  BY <1>1, <1>3, Cancel
<1>5. QED
  BY <1>1, <1>4 DEF r

(* A window that is short enough needs no more samples than the cap.        *)
LEMMA WantedFits ==
  ASSUME NEW window \in Spanned, NEW cap \in Nat \ {0},
         2 * (window.to - window.from) < 2 * (cap * Step) + Step
  PROVE  Request!Wanted(window) <= cap + 1
<1> DEFINE long == window.to - window.from
           r == Request!Round(long, Step)
<1>1. long \in Int /\ Request!Length(window) = long /\ Step \in Nat \ {0}
  BY StepAssumption DEF Spanned, Request!Length
<1>5. 2 * long < 2 * (cap * Step) + Step
  OBVIOUS
<1> HIDE DEF long
<1>2. r \in Int /\ r <= cap
  <2>1. r \in Int
    BY <1>1, Rounded
  <2>2. r <= cap
    BY <1>1, <1>5, RoundedBelow
  <2>3. QED
    BY <2>1, <2>2
<1>3. Request!Wanted(window) = Request!Max({1, r + 1})
  BY <1>1 DEF Request!Wanted
<1> HIDE DEF r
<1>4. Request!Max({1, r + 1}) = IF 1 >= r + 1 THEN 1 ELSE r + 1
  BY <1>2, Two
<1>6. QED
  BY <1>2, <1>3, <1>4

(* The half of a stretch of so many samples.                                *)
LEMMA Halves ==
  ASSUME NEW step \in Nat, step > 6, NEW left \in Nat, left >= 2, NEW cap \in Nat, left <= 2 * cap,
         NEW far \in Int, 2 * far <= 2 * (left * step) + step, far >= 0
  PROVE  LET h == (far * (left \div 2)) \div left
         IN  /\ h \in Int /\ 2 * h < 2 * (cap * step) + step
             /\ 2 * (far - h) < 2 * (cap * step) + step
<1> DEFINE half == left \div 2
           c == left - half
           h == (far * half) \div left
           top == 2 * (cap * step) + step
<1>1. half \in Nat /\ half >= 1 /\ half <= cap /\ half < left /\ 2 * half <= left
      /\ c \in Nat /\ c <= cap /\ 3 * c <= 2 * left
  OBVIOUS
<1>2. far * half \in Int
  BY <1>1
<1>3. h \in Int /\ h * left <= far * half /\ far * half < h * left + left
  <2> HIDE DEF half
  <2>1. left \in Nat \ {0}
    OBVIOUS
  <2> DEFINE a == far * half
  <2>2. a \in Int
    BY <1>2
  <2> HIDE DEF a
  <2>3. a \div left \in Int /\ (a \div left) * left <= a /\ a < (a \div left) * left + left
    BY <2>1, <2>2, Divided
  <2>4. QED
    BY <2>3 DEF a
<1>4. top \in Int
  OBVIOUS
<1>5. far * c = far * left - far * half
  <2> HIDE DEF half
  <2>1. QED
    BY <1>1
<1> HIDE DEF half, c, h
<1>6. 2 * h < top
  <2>1. 2 * (far * half) <= (2 * (left * step) + step) * half
    <3> DEFINE x == 2 * far  y == 2 * (left * step) + step
    <3>1. x \in Int /\ y \in Int /\ x <= y
      OBVIOUS
    <3>2. x * half = 2 * (far * half)
      BY <1>1
    <3> HIDE DEF x, y
    <3>3. CASE half \in Nat \ {0}
      <4>1. x * half <= y * half
        BY <3>1, <3>3, Mono
      <4>2. QED
        BY <3>2, <4>1 DEF y
    <3>4. QED
      BY <1>1, <3>3
  <2>2. (2 * (left * step) + step) * half = (2 * (half * step)) * left + step * half
    BY <1>1
  <2>3. half * step <= cap * step
    <3>1. step \in Nat \ {0}
      OBVIOUS
    <3>2. QED
      BY <1>1, <3>1, Mono
  <2>4. (2 * (half * step)) * left <= (2 * (cap * step)) * left
    <3> DEFINE x == 2 * (half * step)  y == 2 * (cap * step)
    <3>1. x \in Int /\ y \in Int /\ x <= y /\ left \in Nat \ {0}
      BY <1>1, <2>3
    <3> HIDE DEF x, y
    <3>2. x * left <= y * left
      BY <3>1, Mono
    <3>3. QED
      BY <3>2 DEF x, y
  <2>5. step * half < step * left
    <3>1. half * step + step <= left * step
      BY <1>1, Mult
    <3>2. half * step = step * half /\ left * step = step * left /\ half * step \in Int
      BY <1>1
    <3>3. QED
      BY <3>1, <3>2
  <2>6. top * left = (2 * (cap * step)) * left + step * left
    OBVIOUS
  <2>7. (2 * h) * left = 2 * (h * left)
    BY <1>3
  <2> DEFINE p == (2 * (half * step)) * left
             q == (2 * (cap * step)) * left
             u == step * half
             v == step * left
             f == far * half
             g == h * left
             t == top * left
             w == (2 * h) * left
  <2>8. p \in Int /\ q \in Int /\ u \in Int /\ v \in Int /\ f \in Int /\ g \in Int /\ t \in Int
        /\ w \in Int
    BY <1>1, <1>3, <1>4
  <2>9. w < t
    <3>1. 2 * f <= p + u /\ p <= q /\ u < v /\ t = q + v /\ w = 2 * g /\ g <= f
      BY <1>3, <2>1, <2>2, <2>4, <2>5, <2>6, <2>7
    <3> HIDE DEF p, q, u, v, f, g, t, w, top
    <3>2. QED
      BY <2>8, <3>1
  <2> HIDE DEF top
  <2>10. QED
    BY <1>3, <1>4, <2>9, Cancel
<1>7. 2 * (far - h) < top
  <2> DEFINE low == 2 * (left * step) + step
  <2>1. 2 * (far * c) <= low * c
    <3> DEFINE x == 2 * far
    <3>1. x \in Int /\ low \in Int /\ x <= low
      OBVIOUS
    <3>2. x * c = 2 * (far * c)
      BY <1>1
    <3> HIDE DEF x, low
    <3>3. CASE c \in Nat \ {0}
      <4>1. x * c <= low * c
        BY <3>1, <3>3, Mono
      <4>2. QED
        BY <3>2, <4>1
    <3>4. CASE c = 0
      BY <3>1, <3>4
    <3>5. QED
      BY <1>1, <3>3, <3>4
  <2>2. low * c = (2 * (c * step)) * left + step * c
    BY <1>1
  <2>3. 3 * (step * c) <= 2 * (step * left)
    <3> DEFINE x == 3 * c  y == 2 * left
    <3>1. x \in Int /\ y \in Int /\ x <= y /\ step \in Nat \ {0}
      BY <1>1
    <3>2. x * step = 3 * (step * c) /\ y * step = 2 * (step * left)
      BY <1>1
    <3> HIDE DEF x, y
    <3>3. x * step <= y * step
      BY <3>1, Mono
    <3>4. QED
      BY <3>2, <3>3
  <2>4. (2 * (c * step)) * left <= (2 * (cap * step)) * left
    <3>1. c * step <= cap * step
      <4>1. step \in Nat \ {0}
        OBVIOUS
      <4>2. QED
        BY <1>1, <4>1, Mono
    <3> DEFINE x == 2 * (c * step)  y == 2 * (cap * step)
    <3>2. x \in Int /\ y \in Int /\ x <= y /\ left \in Nat \ {0}
      BY <1>1, <3>1
    <3> HIDE DEF x, y
    <3>3. x * left <= y * left
      BY <3>2, Mono
    <3>4. QED
      BY <3>3 DEF x, y
  <2>5. top * left = (2 * (cap * step)) * left + step * left
    OBVIOUS
  <2>6. (2 * (far - h)) * left = 2 * (far * left) - 2 * (h * left)
    BY <1>3
  <2>7. step * left >= 7 * left
    <3>1. 7 * left <= step * left
      <4>1. left \in Nat \ {0} /\ 7 <= step
        OBVIOUS
      <4>2. QED
        BY <4>1, Mono
    <3>2. QED
      BY <3>1
  <2> DEFINE p == (2 * (c * step)) * left
             q == (2 * (cap * step)) * left
             u == step * c
             v == step * left
             f == far * half
             e == far * c
             a == far * left
             g == h * left
             t == top * left
             w == (2 * (far - h)) * left
  <2>8. p \in Int /\ q \in Int /\ u \in Int /\ v \in Int /\ f \in Int /\ g \in Int /\ t \in Int
        /\ w \in Int /\ e \in Int /\ a \in Int
    BY <1>1, <1>3, <1>4
  <2>9. w < t
    <3>1. /\ 2 * e <= p + u /\ 3 * u <= 2 * v /\ p <= q /\ t = q + v /\ w = 2 * a - 2 * g
          /\ e = a - f /\ f < g + left /\ v >= 7 * left
      BY <1>3, <1>5, <2>1, <2>2, <2>3, <2>4, <2>5, <2>6, <2>7
    <3> HIDE DEF p, q, u, v, f, e, a, g, t, w, top
    <3>2. QED
      BY <2>8, <3>1
  <2> HIDE DEF top
  <2>10. 2 * (far - h) \in Int
    BY <1>3
  <2>11. QED
    BY <1>4, <2>9, <2>10, Cancel
<1>8. QED
  BY <1>3, <1>6, <1>7 DEF h, half

(* A list of windows from one end of the episode to the other.              *)
EndToEnd(windows, ts) ==
  /\ windows \in Seq(Spanned) /\ windows # << >>
  /\ windows[1].from = ts[1] /\ windows[Len(windows)].to = ts[Len(ts)]
  /\ \A k \in 1 .. Len(windows) - 1 : windows[k].to = windows[k + 1].from

(* Windows between seams.                                                   *)
Sewn(seam, count) == [k \in 1 .. count |-> [from |-> seam[k - 1], to |-> seam[k]]]

(* Windows from each seam to the next cover the episode end to end.         *)
LEMMA SeamsCover ==
  ASSUME NEW count \in Nat \ {0}, NEW seam \in [0 .. count -> Int], NEW ts,
         seam[0] = ts[1], seam[count] = ts[Len(ts)]
  PROVE  EndToEnd(Sewn(seam, count), ts)
<1> DEFINE w == Sewn(seam, count)
<1>1. \A k \in 1 .. count : w[k] = [from |-> seam[k - 1], to |-> seam[k]] /\ w[k] \in Spanned
  <2>1. \A k \in 1 .. count : k - 1 \in 0 .. count /\ k \in 0 .. count
    OBVIOUS
  <2>2. QED
    BY <2>1 DEF Sewn, Spanned
<1>2. w = [k \in 1 .. count |-> w[k]]
  BY DEF Sewn
<1>3. w \in Seq(Spanned) /\ Len(w) = count /\ w # << >>
  <2> HIDE DEF w
  <2>1. w \in [1 .. count -> Spanned]
    BY <1>1, <1>2
  <2>2. QED
    BY <2>1
<1> HIDE DEF w
<1>7. ASSUME NEW k \in 1 .. count PROVE w[k].from = seam[k - 1] /\ w[k].to = seam[k]
  <2> DEFINE a == seam[k - 1]  b == seam[k]
  <2>1. w[k] = [from |-> a, to |-> b]
    BY <1>1
  <2> HIDE DEF a, b
  <2>2. w[k].from = a /\ w[k].to = b
    BY <2>1
  <2>3. QED
    BY <2>2 DEF a, b
<1>4. w[1].from = ts[1] /\ w[count].to = ts[Len(ts)]
  <2>1. 1 \in 1 .. count /\ count \in 1 .. count /\ 1 - 1 = 0
    OBVIOUS
  <2>2. w[1].from = seam[1 - 1] /\ w[count].to = seam[count]
    BY <1>7, <2>1
  <2>3. QED
    BY <2>1, <2>2
<1>5. ASSUME NEW k \in 1 .. count - 1 PROVE w[k].to = w[k + 1].from
  <2>1. k \in 1 .. count /\ k + 1 \in 1 .. count /\ (k + 1) - 1 = k
    OBVIOUS
  <2>2. w[k].to = seam[k] /\ w[k + 1].from = seam[(k + 1) - 1]
    BY <1>7, <2>1
  <2>3. QED
    BY <2>1, <2>2
<1>6. QED
  BY <1>3, <1>4, <1>5 DEF EndToEnd, w

(* Windows for prompts of one frame cover the episode.                      *)
LEMMA EvenWindowsCover ==
  ASSUME NEW ts \in Seq(Int), ts # << >>, ts[Len(ts)] - ts[1] > 0
  PROVE  EndToEnd(Request!EvenWindows(ts), ts)
<1> DEFINE whole == Request!Whole(ts)
           long == Request!Length(whole)
           count == Request!CeilDiv(long, Step)
           seam == [k \in 0 .. count |-> ts[1] + (long * k) \div count]
<1>1. /\ ts[1] \in Int /\ ts[Len(ts)] \in Int /\ Head(ts) = ts[1] /\ Step \in Nat \ {0}
      /\ long \in Int /\ long = ts[Len(ts)] - ts[1] /\ long > 0
  BY WholeSpanned, StepAssumption DEF Request!Length
<1> HIDE DEF long
<1>2. count \in Nat \ {0}
  <2> DEFINE a == long + Step - 1
  <2>1. a \in Int /\ a >= Step /\ count = a \div Step
    BY <1>1 DEF Request!CeilDiv
  <2> HIDE DEF a, count
  <2>2. count \in Int /\ a < count * Step + Step
    BY <1>1, <2>1, Divided
  <2>3. 0 < count
    <3>1. count <= 0 => count * Step <= 0 * Step
      BY <1>1, <2>2, Mono
    <3>2. count * Step \in Int /\ 0 * Step = 0
      BY <1>1, <2>2
    <3>3. QED
      BY <1>1, <2>1, <2>2, <3>1, <3>2
  <2>4. QED
    BY <2>2, <2>3
<1>3. Request!EvenWindows(ts) = Sewn(seam, count)
  <2>1. Request!EvenWindows(ts)
          = [k \in 1 .. count |-> [from |-> ts[1] + (long * (k - 1)) \div count,
                                  to |-> ts[1] + (long * k) \div count]]
    BY <1>1 DEF Request!EvenWindows, long
  <2> HIDE DEF count
  <2>2. \A k \in 1 .. count : k - 1 \in 0 .. count /\ k \in 0 .. count
    BY <1>2
  <2>3. QED
    BY <2>1, <2>2 DEF Sewn
<1> HIDE DEF count
<1>4. seam \in [0 .. count -> Int]
  <2>1. ASSUME NEW k \in 0 .. count PROVE ts[1] + (long * k) \div count \in Int
    <3>1. long * k \in Int
      BY <1>1, <1>2
    <3>2. (long * k) \div count \in Int
      BY <1>2, <3>1, Divided
    <3>3. QED
      BY <1>1, <3>2
  <2>2. QED
    BY <2>1
<1>5. seam[0] = ts[1] /\ seam[count] = ts[Len(ts)]
  <2>1. 0 \in 0 .. count /\ count \in 0 .. count /\ long * 0 = 0 * count
    BY <1>1, <1>2
  <2>2. (0 * count) \div count = 0 /\ (long * count) \div count = long
    BY <1>1, <1>2, ExactQuotient
  <2>3. QED
    BY <1>1, <2>1, <2>2
<1> HIDE DEF seam
<1>6. QED
  BY <1>2, <1>3, <1>4, <1>5, SeamsCover

(* So do windows at the full rate, and each of them is within the budget.   *)
LEMMA FullWindowsCover ==
  ASSUME NEW ts \in Seq(Int), ts # << >>, NEW budget \in Nat, budget >= 2,
         Request!Wanted(Request!Whole(ts)) > budget
  PROVE  /\ EndToEnd(Request!FullWindows(ts, budget), ts)
         /\ \A k \in 1 .. Len(Request!FullWindows(ts, budget)) :
              Request!Wanted(Request!FullWindows(ts, budget)[k]) <= budget
<1> DEFINE long == Request!Length(Request!Whole(ts))
           round == Request!Round(long, Step)
           total == Request!Max({1, round})
           cap == budget - 1
           count == Request!CeilDiv(total, cap)
           full == cap * Step
           start == Head(ts) + (count - 2) * full
           left == total - (count - 2) * cap
           far == ts[Len(ts)] - start
           half == (far * (left \div 2)) \div left
           seam == [k \in 0 .. count |-> CASE k = count -> ts[Len(ts)]
                                         [] k = count - 1 /\ k > 0 -> start + half
                                         [] OTHER -> ts[1] + k * full]
<1>1. /\ ts[1] \in Int /\ ts[Len(ts)] \in Int /\ Head(ts) = ts[1] /\ Step \in Nat \ {0} /\ Step > 6
      /\ long \in Int /\ long = ts[Len(ts)] - ts[1] /\ Request!Whole(ts) \in Spanned
      /\ cap \in Nat \ {0} /\ Request!Capacity(budget) = cap
  BY WholeSpanned, StepAssumption DEF Request!Length, Request!Capacity
<1>2. round \in Int /\ round >= budget /\ 2 * (round * Step) <= 2 * long + Step
      /\ 2 * long <= 2 * (round * Step) + Step
  <2>1. Request!Wanted(Request!Whole(ts)) = round + 1
    BY <1>1, WantedSound
  <2>2. round \in Int /\ 2 * (round * Step) <= 2 * long + Step
        /\ 2 * long <= 2 * (round * Step) + Step
    <3> HIDE DEF long
    <3> QED
      BY <1>1, Rounded
  <2> HIDE DEF round
  <2>3. QED
    BY <2>1, <2>2
<1> HIDE DEF round, long
<1>3. total = round
  <2>1. total = IF 1 >= round THEN 1 ELSE round
    BY <1>2, Two
  <2>2. QED
    BY <1>2, <2>1
<1>4. total \in Nat /\ total > cap
  BY <1>2, <1>3
<1> HIDE DEF total
<1>5. count \in Int /\ count * cap <= total + cap - 1 /\ total + cap - 1 < count * cap + cap
  <2> DEFINE a == total + cap - 1
  <2>1. a \in Int /\ count = a \div cap
    BY <1>1, <1>4 DEF Request!CeilDiv
  <2> HIDE DEF a, count, cap
  <2>2. count \in Int /\ count * cap <= a /\ a < count * cap + cap
    BY <1>1, <2>1, Divided
  <2>3. QED
    BY <2>2 DEF a
<1> HIDE DEF count, cap
<1>6. count >= 2
  <2>1. count * cap \in Int /\ 1 * cap = cap
    BY <1>1, <1>5
  <2>2. 1 * cap < count * cap
    BY <1>1, <1>4, <1>5, <2>1
  <2>3. 1 < count
    BY <1>1, <1>5, <2>2, Cancel
  <2>4. QED
    BY <1>5, <2>3
<1>7. left \in Nat /\ left >= 2 /\ left <= 2 * cap
  <2>1. (count - 2) * cap = count * cap - 2 * cap /\ count * cap \in Int
    BY <1>1, <1>5
  <2>2. QED
    BY <1>1, <1>4, <1>5, <2>1
<1>8. full \in Nat /\ start \in Int /\ far \in Int
      /\ 2 * far <= 2 * (left * Step) + Step /\ far >= 0
  <2>1. full \in Nat /\ start \in Int /\ far \in Int
    BY <1>1, <1>5
  <2>2. (count - 2) * full = total * Step - left * Step
    BY <1>1, <1>4, <1>5
  <2> HIDE DEF left
  <2>3. left * Step >= 2 * Step
    <3>1. 2 * Step <= left * Step
      BY <1>1, <1>7, Mono
    <3>2. left * Step \in Int
      BY <1>1, <1>7
    <3>3. QED
      BY <1>1, <3>1, <3>2
  <2> DEFINE u == total * Step  v == left * Step  w == (count - 2) * full
  <2>4. u \in Int /\ v \in Int /\ w \in Int /\ far = ts[Len(ts)] - (ts[1] + w)
    BY <1>1, <1>4, <1>5, <1>7, <2>1
  <2>5. 2 * u <= 2 * long + Step /\ 2 * long <= 2 * u + Step /\ w = u - v /\ v >= 2 * Step
    BY <1>2, <1>3, <2>2, <2>3
  <2> HIDE DEF u, v, w, full, start, far
  <2> DEFINE lo == ts[1]  hi == ts[Len(ts)]
  <2>7. lo \in Int /\ hi \in Int /\ long = hi - lo /\ far = hi - (lo + w) /\ Step \in Nat
    BY <1>1, <2>4
  <2> HIDE DEF lo, hi
  <2>6. 2 * far <= 2 * v + Step /\ far >= 0
    BY <2>4, <2>5, <2>7
  <2>8. QED
    BY <2>1, <2>6 DEF v
<1> HIDE DEF left, full
<1>9. half \in Int /\ 2 * half < 2 * full + Step /\ 2 * (far - half) < 2 * full + Step
  <2> HIDE DEF far
  <2>1. cap \in Nat /\ Step \in Nat
    BY <1>1
  <2>2. /\ half \in Int /\ 2 * half < 2 * (cap * Step) + Step
        /\ 2 * (far - half) < 2 * (cap * Step) + Step
    BY <1>1, <1>7, <1>8, <2>1, Halves
  <2>3. QED
    BY <2>2 DEF full
<1> HIDE DEF half
<1>10. seam \in [0 .. count -> Int]
  <2>1. \A k \in 0 .. count : k * full \in Int
    BY <1>8
  <2> HIDE DEF start
  <2>2. \A k \in 0 .. count : ts[1] + k * full \in Int
    BY <1>1, <2>1
  <2>3. start + half \in Int /\ ts[Len(ts)] \in Int
    BY <1>1, <1>8, <1>9
  <2>4. QED
    BY <2>2, <2>3
<1>11. /\ seam[0] = ts[1] /\ seam[count] = ts[Len(ts)] /\ seam[count - 1] = start + half
       /\ \A k \in 0 .. count - 2 : seam[k] = ts[1] + k * full
  <2> HIDE DEF start
  <2>1. 0 * full = 0 /\ ts[1] + 0 = ts[1]
    BY <1>1, <1>8
  <2>2. /\ 0 \in 0 .. count /\ count \in 0 .. count /\ count - 1 \in 0 .. count
        /\ 0 # count /\ 0 # count - 1 /\ count - 1 # count /\ count - 1 > 0
    BY <1>5, <1>6
  <2>3. seam[0] = ts[1] + 0 * full /\ seam[count] = ts[Len(ts)] /\ seam[count - 1] = start + half
    BY <2>2
  <2>4. ASSUME NEW k \in 0 .. count - 2 PROVE seam[k] = ts[1] + k * full
    <3>1. k \in 0 .. count /\ k # count /\ k # count - 1
      BY <1>5, <1>6
    <3>2. QED
      BY <3>1
  <2>5. QED
    BY <2>1, <2>3, <2>4
<1>12. Request!FullWindows(ts, budget) = Sewn(seam, count)
  <2>1. \A k \in 1 .. count : k - 1 \in 0 .. count /\ k \in 0 .. count
    BY <1>5
  <2>2. Request!FullWindows(ts, budget)
          = [k \in 1 .. count |->
               [from |-> CASE k - 1 = count -> ts[Len(ts)]
                           [] k - 1 = count - 1 /\ k - 1 > 0 -> start + half
                           [] OTHER -> ts[1] + (k - 1) * full,
                to |-> CASE k = count -> ts[Len(ts)]
                         [] k = count - 1 /\ k > 0 -> start + half
                         [] OTHER -> ts[1] + k * full]]
    BY <1>1 DEF Request!FullWindows, Request!Last, long, round, total, cap, count, full, left, half
  <2> HIDE DEF start
  <2>3. QED
    BY <2>1, <2>2 DEF Sewn
<1> HIDE DEF seam, start, far
<1>13. EndToEnd(Sewn(seam, count), ts)
  <2>1. count \in Nat \ {0} /\ seam[0] = ts[1] /\ seam[count] = ts[Len(ts)]
    BY <1>5, <1>6, <1>11
  <2>2. QED
    BY <1>10, <2>1, SeamsCover
<1>14. ASSUME NEW k \in 1 .. count
       PROVE  Request!Wanted([from |-> seam[k - 1], to |-> seam[k]]) <= budget
  <2> DEFINE w == [from |-> seam[k - 1], to |-> seam[k]]
  <2>1. w \in Spanned /\ w.to - w.from = seam[k] - seam[k - 1]
    <3>1. k - 1 \in 0 .. count /\ k \in 0 .. count
      BY <1>5
    <3>2. QED
      BY <1>10, <3>1 DEF Spanned
  <2>2. 2 * (seam[k] - seam[k - 1]) < 2 * full + Step
    <3>1. CASE k <= count - 2
      <4>1. k - 1 \in 0 .. count - 2 /\ k \in 0 .. count - 2
        BY <1>5, <3>1
      <4>2. k * full = (k - 1) * full + full /\ (k - 1) * full \in Int
        BY <1>8
      <4>3. QED
        BY <1>1, <1>8, <1>11, <4>1, <4>2, SMTT(30)
    <3>2. CASE k = count - 1
      <4>1. k - 1 = count - 2 /\ count - 2 \in 0 .. count - 2
        BY <1>5, <1>6, <3>2
      <4>2. seam[k - 1] = ts[1] + (count - 2) * full /\ seam[k] = start + half
        BY <1>11, <3>2, <4>1
      <4>3. start = ts[1] + (count - 2) * full
        BY <1>1 DEF start
      <4>4. seam[k] - seam[k - 1] = half
        BY <1>8, <1>9, <4>2, <4>3
      <4>5. QED
        BY <1>9, <4>4
    <3>3. CASE k = count
      <4>1. seam[k - 1] = start + half /\ seam[k] = ts[Len(ts)]
        BY <1>11, <3>3
      <4>2. far = ts[Len(ts)] - start
        BY DEF far
      <4>3. seam[k] - seam[k - 1] = far - half
        BY <1>1, <1>8, <1>9, <4>1, <4>2, SMTT(30)
      <4>4. QED
        BY <1>9, <4>3
    <3>4. QED
      BY <1>5, <3>1, <3>2, <3>3
  <2> HIDE DEF w
  <2>3. 2 * (w.to - w.from) < 2 * (cap * Step) + Step
    BY <2>1, <2>2 DEF full
  <2>4. Request!Wanted(w) <= cap + 1
    BY <1>1, <2>1, <2>3, WantedFits
  <2>5. cap + 1 = budget
    BY DEF cap
  <2>6. QED
    BY <2>4, <2>5 DEF w
<1>15. Len(Sewn(seam, count)) = count
       /\ \A k \in 1 .. count : Sewn(seam, count)[k] = [from |-> seam[k - 1], to |-> seam[k]]
  BY <1>5, <1>6 DEF Sewn
<1>16. QED
  BY <1>12, <1>13, <1>14, <1>15

-----------------------------------------------------------------------------
(* The requests of an episode that is generated.                            *)

(* What an episode and its configuration are.                               *)
LEMMA CaseSound ==
  ASSUME NEW c \in Cases
  PROVE  /\ c.times \in Seq(Int) /\ c.times # << >> /\ Rising(c.times)
         /\ c.budget \in Nat \ {0} /\ c.record.times = c.times
<1> DEFINE ts == c.times
<1>1. /\ ts \in Seq(Int) /\ ts # << >> /\ c.budget \in Nat \ {0} /\ c.record.times = ts
      /\ \A i, j \in DOMAIN ts : i < j => ts[i] < ts[j]
  BY CasesAssumption
<1> HIDE DEF ts
<1>2. DOMAIN ts = 1 .. Len(ts)
  BY <1>1
<1>3. Rising(ts)
  BY <1>1, <1>2 DEF Rising
<1>4. QED
  BY <1>1, <1>3 DEF ts

WindowsOf(c) ==
  IF Request!Wanted(Request!Whole(c.times)) > c.budget
  THEN Request!Windows(c.times, c.budget) ELSE << None >>

(* An episode is one whole, or its windows cover it.                        *)
LEMMA WindowsSound ==
  ASSUME NEW c \in Cases
  PROVE  /\ WindowsOf(c) \in Seq(Spanned \cup {None}) /\ WindowsOf(c) # << >>
         /\ \/ WindowsOf(c) = << None >> /\ Request!Wanted(Request!Whole(c.times)) <= c.budget
            \/ /\ EndToEnd(WindowsOf(c), c.times)
               /\ c.budget = 1 \/ \A k \in 1 .. Len(WindowsOf(c)) :
                                    Request!Wanted(WindowsOf(c)[k]) <= c.budget
<1> DEFINE ts == c.times
           wanted == Request!Wanted(Request!Whole(ts))
<1>1. /\ ts \in Seq(Int) /\ ts # << >> /\ c.budget \in Nat \ {0}
      /\ Request!Whole(ts) \in Spanned
      /\ Request!Whole(ts).from = ts[1] /\ Request!Whole(ts).to = ts[Len(ts)]
  BY CaseSound, WholeSpanned
<1>2. /\ wanted \in Nat \ {0}
      /\ wanted > 1 => Request!Length(Request!Whole(ts)) >= wanted - 1
      /\ Request!Length(Request!Whole(ts)) = ts[Len(ts)] - ts[1]
      /\ Request!Length(Request!Whole(ts)) \in Int
  BY <1>1, WantedSound
<1> HIDE DEF wanted
<1>3. CASE wanted <= c.budget
  <2>1. WindowsOf(c) = << None >>
    BY <1>1, <1>2, <1>3 DEF WindowsOf, wanted
  <2>2. << None >> \in Seq(Spanned \cup {None}) /\ << None >> # << >>
    OBVIOUS
  <2>3. QED
    BY <1>3, <2>1, <2>2 DEF wanted
<1>4. CASE wanted > c.budget
  <2>1. WindowsOf(c) = IF c.budget <= 1 THEN Request!EvenWindows(ts) ELSE Request!FullWindows(ts, c.budget)
    BY <1>4 DEF WindowsOf, wanted, Request!Windows
  <2>2. CASE c.budget <= 1
    <3>1. ts[Len(ts)] - ts[1] > 0
      BY <1>1, <1>2, <1>4
    <3>2. EndToEnd(Request!EvenWindows(ts), ts)
      BY <1>1, <3>1, EvenWindowsCover
    <3>3. QED
      BY <1>1, <2>1, <2>2, <3>2 DEF EndToEnd
  <2>3. CASE c.budget > 1
    <3>1. c.budget \in Nat /\ c.budget >= 2 /\ Request!Wanted(Request!Whole(ts)) > c.budget
      BY <1>1, <1>4, <2>3 DEF wanted
    <3>2. /\ EndToEnd(Request!FullWindows(ts, c.budget), ts)
          /\ \A k \in 1 .. Len(Request!FullWindows(ts, c.budget)) :
               Request!Wanted(Request!FullWindows(ts, c.budget)[k]) <= c.budget
      <4> DEFINE b == c.budget
      <4> HIDE DEF b, ts
      <4>1. b \in Nat /\ b >= 2 /\ ts \in Seq(Int) /\ ts # << >>
            /\ Request!Wanted(Request!Whole(ts)) > b
        BY <1>1, <3>1 DEF b
      <4>2. /\ EndToEnd(Request!FullWindows(ts, b), ts)
            /\ \A k \in 1 .. Len(Request!FullWindows(ts, b)) :
                 Request!Wanted(Request!FullWindows(ts, b)[k]) <= b
        BY <4>1, FullWindowsCover
      <4>3. QED
        BY <4>2 DEF b
    <3>3. QED
      BY <1>1, <2>1, <2>3, <3>2 DEF EndToEnd
  <2>4. QED
    BY <1>1, <2>2, <2>3
<1>5. QED
  BY <1>1, <1>2, <1>3, <1>4

(* A description comes before the subtasks of a window, if at all.          *)
Per == IF Describe THEN 2 ELSE 1
Asks == [field : {"description", "subtasks"}, window : Spanned \cup {None}]
AskAt(windows, i) ==
  [field |-> IF i % Per = 0 THEN "subtasks" ELSE "description",
   window |-> windows[(i + Per - 1) \div Per]]
PlanOf(c) == [i \in 1 .. Len(WindowsOf(c)) * Per |-> AskAt(WindowsOf(c), i)]

LEMMA AskedPlaces ==
  ASSUME NEW k \in Nat \ {0}
  PROVE  /\ 1 % 1 = 0 /\ (((k - 1) * 1 + 1) % 1 = 0) /\ ((k - 1) * 1 + 1 + 1 - 1) \div 1 = k
         /\ ((k - 1) * 2 + 1) % 2 = 1 /\ ((k - 1) * 2 + 2) % 2 = 0
         /\ ((k - 1) * 2 + 1 + 2 - 1) \div 2 = k /\ ((k - 1) * 2 + 2 + 2 - 1) \div 2 = k
OBVIOUS

(* The requests of a series are those of its windows, in their order.       *)
LEMMA RequestsArePlan ==
  ASSUME case \in Cases
  PROVE  /\ Request!Requests = PlanOf(case)
         /\ PlanOf(case) \in Seq(Asks) /\ Len(PlanOf(case)) = Len(WindowsOf(case)) * Per
<1> DEFINE w == WindowsOf(case)
           count == Len(w)
           plan == PlanOf(case)
           asked2 == [k \in 1 .. count |-> Request!Asked(w[k])]
<1>1. w \in Seq(Spanned \cup {None}) /\ w # << >> /\ count \in Nat \ {0}
  BY WindowsSound
<1>2. Request!Requests = Request!FlattenSeq(asked2)
  <2>1. DOMAIN w = 1 .. count
    BY <1>1
  <2>2. Request!Requests = Request!FlattenSeq([k \in DOMAIN w |-> Request!Asked(w[k])])
    BY DEF Request!Requests, WindowsOf
  <2> HIDE DEF w
  <2>3. QED
    BY <2>1, <2>2
<1>3. Per \in {1, 2} /\ count * Per \in Nat \ {0} /\ (count - 1) * Per < count * Per
  BY <1>1 DEF Per
<1> HIDE DEF w, count
<1>4. ASSUME NEW i \in 1 .. count * Per PROVE (i + Per - 1) \div Per \in 1 .. count
  <2>1. CASE Per = 1
    BY <1>1, <2>1
  <2>2. CASE Per = 2
    BY <1>1, <2>2
  <2>3. QED
    BY <1>3, <2>1, <2>2
<1>5. plan \in [1 .. count * Per -> Asks]
  <2>1. \A i \in 1 .. count * Per : w[(i + Per - 1) \div Per] \in Spanned \cup {None}
    BY <1>1, <1>4 DEF count
  <2>2. \A i \in 1 .. count * Per : AskAt(w, i) \in Asks
    BY <2>1 DEF AskAt, Asks
  <2>3. plan = [i \in 1 .. count * Per |-> AskAt(w, i)]
    BY DEF PlanOf, w, count
  <2> HIDE DEF plan
  <2>4. QED
    BY <2>2, <2>3
<1>6. ASSUME NEW k \in 1 .. count
      PROVE  /\ Request!Asked(w[k]) \in Seq(Asks) /\ Len(Request!Asked(w[k])) = Per
             /\ Request!Asked(w[k]) = [i \in 1 .. Per |-> AskAt(w, (k - 1) * Per + i)]
  <2> DEFINE v == w[k]
  <2>1. v \in Spanned \cup {None} /\ k \in Nat \ {0}
    BY <1>1 DEF count
  <2>2. CASE Describe
    <3>1. Per = 2
      BY <2>2 DEF Per
    <3>2. Request!Asked(v) = << [field |-> "description", window |-> v] >> \o << [field |-> "subtasks", window |-> v] >>
      BY <2>2 DEF Request!Asked
    <3>3. AskAt(w, (k - 1) * Per + 1) = [field |-> "description", window |-> v]
      BY <2>1, <3>1, AskedPlaces DEF AskAt
    <3>4. AskAt(w, (k - 1) * Per + 2) = [field |-> "subtasks", window |-> v]
      BY <2>1, <3>1, AskedPlaces DEF AskAt
    <3> DEFINE d == [field |-> "description", window |-> v]  s == [field |-> "subtasks", window |-> v]
    <3>5. d \in Asks /\ s \in Asks
      BY <2>1 DEF Asks
    <3>10. Request!Asked(v) = << d >> \o << s >> /\ AskAt(w, (k - 1) * Per + 1) = d
          /\ AskAt(w, (k - 1) * Per + 2) = s
      BY <3>2, <3>3, <3>4
    <3> HIDE DEF d, s
    <3>11. << d >> \o << s >> = << d, s >>
      <4> DEFINE p == << d >> \o << s >>
      <4>1. << d >> \in Seq(Asks) /\ << s >> \in Seq(Asks) /\ Len(<< d >>) = 1 /\ Len(<< s >>) = 1
            /\ << d >>[1] = d /\ << s >>[1] = s
        BY <3>5
      <4>2. p \in Seq(Asks) /\ Len(p) = 2 /\ p[1] = d /\ p[2] = s
        <5>1. p \in Seq(Asks) /\ Len(p) = Len(<< d >>) + Len(<< s >>)
              /\ (\A i \in 1 .. Len(<< d >>) : p[i] = << d >>[i])
              /\ (\A i \in 1 .. Len(<< s >>) : p[Len(<< d >>) + i] = << s >>[i])
          BY <4>1, Concatenated
        <5> HIDE DEF p
        <5>2. p \in Seq(Asks) /\ Len(p) = 2
          BY <4>1, <5>1
        <5>3. 1 \in 1 .. Len(<< d >>) /\ 1 \in 1 .. Len(<< s >>)
          BY <4>1
        <5>4. p[1] = << d >>[1] /\ p[Len(<< d >>) + 1] = << s >>[1]
          BY <5>1, <5>3
        <5>5. QED
          BY <4>1, <5>2, <5>4
      <4> HIDE DEF p
      <4>3. p = << p[1], p[2] >>
        BY <4>2
      <4>4. QED
        BY <4>2, <4>3 DEF p
    <3>6. Request!Asked(v) = << d, s >> /\ AskAt(w, (k - 1) * Per + 1) = d
          /\ AskAt(w, (k - 1) * Per + 2) = s
      BY <3>10, <3>11
    <3>7. << d, s >> \in Seq(Asks) /\ Len(<< d, s >>) = 2 /\ << d, s >> = [i \in 1 .. 2 |-> << d, s >>[i]]
      BY <3>5
    <3>8. \A i \in 1 .. 2 : << d, s >>[i] = AskAt(w, (k - 1) * Per + i)
      BY <3>6
    <3>9. QED
      BY <3>1, <3>6, <3>7, <3>8
  <2>3. CASE ~Describe
    <3>1. Per = 1
      BY <2>3 DEF Per
    <3>2. Request!Asked(v) = << [field |-> "subtasks", window |-> v] >>
      BY <2>3 DEF Request!Asked
    <3>3. AskAt(w, (k - 1) * Per + 1) = [field |-> "subtasks", window |-> v]
      BY <2>1, <3>1, AskedPlaces DEF AskAt
    <3> DEFINE s == [field |-> "subtasks", window |-> v]
    <3>4. s \in Asks /\ Request!Asked(v) = << s >> /\ AskAt(w, (k - 1) * Per + 1) = s
      BY <2>1, <3>2, <3>3 DEF Asks
    <3> HIDE DEF s
    <3>5. << s >> \in Seq(Asks) /\ Len(<< s >>) = 1 /\ << s >> = [i \in 1 .. 1 |-> << s >>[i]]
      BY <3>4
    <3>6. \A i \in 1 .. 1 : << s >>[i] = AskAt(w, (k - 1) * Per + i)
      BY <3>4
    <3>7. QED
      BY <3>1, <3>4, <3>5, <3>6
  <2>4. QED
    BY <2>2, <2>3
<1>7. asked2 \in Seq(Seq(Asks)) /\ Len(asked2) = count
  <2>1. asked2 \in [1 .. count -> Seq(Asks)]
    BY <1>6
  <2> HIDE DEF asked2
  <2>2. QED
    BY <1>1, <2>1
<1>8. ASSUME NEW k \in 1 .. count
      PROVE  FilledOne(asked2[k], plan, count * Per, Per, (k - 1) * Per)
  <2> DEFINE before == (k - 1) * Per
  <2>1. before \in Int /\ before + Per <= count * Per
    <3>1. CASE Per = 1
      BY <1>1, <3>1
    <3>2. CASE Per = 2
      BY <1>1, <3>2
    <3>3. QED
      BY <1>3, <3>1, <3>2
  <2>2. asked2[k] = [i \in 1 .. Per |-> AskAt(w, before + i)]
    BY <1>6
  <2>3. \A i \in 1 .. Per : plan[before + i] = AskAt(w, before + i)
    <3>1. \A i \in 1 .. Per : before + i \in 1 .. count * Per
      <4>1. before >= 0
        BY <1>1, <1>3
      <4> HIDE DEF before
      <4>2. QED
        BY <1>3, <2>1, <4>1
    <3> HIDE DEF before
    <3>2. QED
      BY <3>1 DEF PlanOf, w, count
  <2> HIDE DEF before, plan, asked2
  <2>4. asked2[k] = [i \in 1 .. Per |-> plan[before + i]]
    BY <2>2, <2>3
  <2>5. (IF Per <= count * Per - before THEN Per ELSE count * Per - before) = Per
    BY <1>3, <2>1
  <2>6. FilledOne(asked2[k], plan, count * Per, Per, before)
    BY <2>4, <2>5 DEF FilledOne
  <2>7. QED
    BY <2>6 DEF before
<1> HIDE DEF plan, asked2
<1>9. Filled(asked2, plan, count * Per, Per, count)
  BY <1>3, <1>7, <1>8 DEF Filled
<1>10. Request!FlattenSeq(asked2) = plan
  <2>1. Per \in Nat \ {0} /\ count * Per \in Nat \ {0} /\ count \in Nat \ {0}
    BY <1>1, <1>3
  <2>2. QED
    BY <1>5, <1>7, <1>9, <2>1, TilesJoin
<1>11. plan \in Seq(Asks) /\ Len(plan) = count * Per
  BY <1>3, <1>5
<1>12. QED
  BY <1>2, <1>10, <1>11 DEF plan, w, count

-----------------------------------------------------------------------------
(* The requests of the episode: their media and their clips.                *)

Clipped == {"clip", "alignclip"}
Sheeted == {"rebudget", "alignsheets"}

(* A clip is on disk while its request is under way, and in an alignment     *)
(* until the contact sheets that replace it are through.                    *)
ClipInv ==
  /\ leaked \in Nat
  /\ at \in Clipped => clips = leaked + 1
  /\ at \in Sheeted => clips \in {leaked, leaked + 1}
  /\ at \notin Clipped \cup Sheeted => clips = leaked

(* The way to the contact sheets of a video request is closed by "error".   *)
MediumInv ==
  /\ at \in Sheeted \cup {"sheets"} /\ Request!Video => case.policy # "error"
  /\ at \in Clipped => Request!Video

IsSequence(s) == s \in Seq({s[i] : i \in DOMAIN s})

(* One of the last two requests is one of the last two before, or the new   *)
(* one.                                                                     *)
LastTwo(s, r) == Append(IF Len(s) = 2 THEN Tail(s) ELSE s, r)

LEMMA SentTwo ==
  ASSUME NEW s, NEW r, IsSequence(s)
  PROVE  /\ IsSequence(LastTwo(s, r))
         /\ \A i \in DOMAIN LastTwo(s, r) :
              LastTwo(s, r)[i] = r \/ \E j \in DOMAIN s : LastTwo(s, r)[i] = s[j]
<1> DEFINE t == LastTwo(s, r)
           S == {s[i] : i \in DOMAIN s}
           kept == IF Len(s) = 2 THEN Tail(s) ELSE s
<1>1. s \in Seq(S)
  BY DEF IsSequence
<1> HIDE DEF S
<1>2. kept \in Seq(S) /\ \A i \in DOMAIN kept : \E j \in DOMAIN s : kept[i] = s[j]
  <2>1. CASE Len(s) = 2
    BY <1>1, <2>1
  <2>2. CASE Len(s) # 2
    BY <1>1, <2>2
  <2>3. QED
    BY <2>1, <2>2
<1>3. t = Append(kept, r)
  BY DEF LastTwo
<1> HIDE DEF kept, t
<1>4. /\ t \in Seq(S \cup {r}) /\ Len(t) = Len(kept) + 1
      /\ \A i \in 1 .. Len(kept) : t[i] = kept[i]
      /\ t[Len(kept) + 1] = r
  <2>1. kept \in Seq(S \cup {r})
    BY <1>2
  <2>2. QED
    BY <1>3, <2>1
<1>5. t \in Seq({t[i] : i \in DOMAIN t})
  <2> DEFINE T == {t[i] : i \in DOMAIN t}
  <2>1. \A i \in 1 .. Len(t) : t[i] \in T
    BY <1>4
  <2> HIDE DEF T
  <2>2. t \in Seq(T)
    BY <1>4, <2>1
  <2>3. QED
    BY <2>2 DEF T
<1>6. ASSUME NEW i \in DOMAIN t PROVE t[i] = r \/ \E j \in DOMAIN s : t[i] = s[j]
  BY <1>2, <1>4, <1>6
<1>7. QED
  BY <1>5, <1>6 DEF IsSequence, t

(* A request of the right kind is sent; of those before, one is kept.       *)
LEMMA SendKeeps ==
  ASSUME IsSequence(sent), Request!NeverSubstituted, NEW request, Request!Send(request), case' = case,
         /\ Request!Video /\ case.policy = "error" => request.kind = "video"
         /\ ~Request!Video => request.kind = "sheet"
  PROVE  IsSequence(sent)' /\ Request!NeverSubstituted'
<1>1. sent' = LastTwo(sent, request)
  BY DEF Request!Send, LastTwo
<1>2. /\ IsSequence(sent')
      /\ \A i \in DOMAIN sent' : sent'[i] = request \/ \E j \in DOMAIN sent : sent'[i] = sent[j]
  BY <1>1, SentTwo
<1>3. Request!Video' = Request!Video
  BY DEF Request!Video
<1>4. ASSUME NEW q \in Request!Requested'
      PROVE  /\ Request!Video /\ case.policy = "error" => q.kind = "video"
             /\ ~Request!Video => q.kind = "sheet"
  BY <1>2, <1>4 DEF Request!NeverSubstituted, Request!Requested, Request!Range
<1>5. QED
  BY <1>2, <1>3, <1>4 DEF Request!NeverSubstituted, IsSequence

RequestInv == ClipInv /\ MediumInv /\ IsSequence(sent) /\ Request!NeverSubstituted

LEMMA RequestInit == EpisodeInit => RequestInv
<1> SUFFICES ASSUME EpisodeInit PROVE RequestInv
  OBVIOUS
<1>1. /\ at = "visual" /\ sent = << >> /\ clips = 0 /\ leaked = 0
  BY DEF EpisodeInit, Request!Init
<1>2. ClipInv /\ MediumInv
  BY <1>1 DEF ClipInv, MediumInv, Clipped, Sheeted
<1>3. IsSequence(sent) /\ Request!NeverSubstituted
  BY <1>1 DEF IsSequence, Request!NeverSubstituted, Request!Requested, Request!Range
<1>4. QED
  BY <1>2, <1>3 DEF RequestInv

(* Steps that send nothing.                                                 *)
LEMMA QuietSee ==
  ASSUME RequestInv, case' = case, sent' = sent, ClipInv', MediumInv'
  PROVE  RequestInv'
BY DEF RequestInv, IsSequence, Request!NeverSubstituted, Request!Requested, Request!Range,
       Request!Video

LEMMA ChooseSteps ==
  ASSUME RequestInv,
         \/ Request!Given \/ Request!Generate \/ Request!Import
         \/ Request!ChooseCameras \/ Request!DecodeViews \/ Request!DecodeAgain
  PROVE  RequestInv'
<1>1. /\ case' = case /\ sent' = sent /\ clips' = clips /\ leaked' = leaked
      /\ at \notin Clipped \cup Sheeted /\ at' \notin Clipped \cup Sheeted \cup {"sheets"}
  BY DEF Request!Given, Request!Generate, Request!Import, Request!ChooseCameras,
         Request!DecodeViews, Request!DecodeAgain, Request!history, Request!files,
         Request!GenerationKept, Request!AlignKept, Request!NothingFound, Clipped, Sheeted
<1>2. QED
  BY <1>1, QuietSee DEF RequestInv, ClipInv, MediumInv, Clipped, Sheeted, Request!Video

LEMMA EncodeSteps ==
  ASSUME RequestInv,
         \/ Request!EncodeClip \/ Request!DecodeFails \/ Request!ToSheets \/ Request!BadBlock
         \/ Request!EncodeAlignClip \/ Request!BadAlignBlock \/ Request!Rebudget
  PROVE  RequestInv'
<1> USE DEF Request!history, Request!files, Request!GenerationKept, Request!AlignKept,
            Request!Video, Clipped, Sheeted
<1>1. ClipInv /\ MediumInv
  BY DEF RequestInv
<1>2. CASE Request!EncodeClip
  <2>1. ClipInv' /\ MediumInv' /\ case' = case /\ sent' = sent
    BY <1>1, <1>2 DEF Request!EncodeClip, Request!EncodeFails, Request!WithoutClip, ClipInv, MediumInv
  <2>2. QED
    BY <2>1, QuietSee
<1>3. CASE Request!DecodeFails \/ Request!ToSheets
  <2>1. ClipInv' /\ MediumInv' /\ case' = case /\ sent' = sent
    BY <1>1, <1>3 DEF Request!DecodeFails, Request!ToSheets, ClipInv, MediumInv
  <2>2. QED
    BY <2>1, QuietSee
<1>4. CASE Request!BadBlock
  <2>1. ClipInv' /\ MediumInv' /\ case' = case /\ sent' = sent
    BY <1>1, <1>4 DEF Request!BadBlock, Request!WithoutClip, Request!Finally, Request!Unlink,
                      ClipInv, MediumInv
  <2>2. QED
    BY <2>1, QuietSee
<1>5. CASE Request!EncodeAlignClip
  <2>1. ClipInv' /\ MediumInv' /\ case' = case /\ sent' = sent
    BY <1>1, <1>5 DEF Request!EncodeAlignClip, Request!EncodeFails, Request!WithoutClip,
                      ClipInv, MediumInv
  <2>2. QED
    BY <2>1, QuietSee
<1>6. CASE Request!BadAlignBlock
  <2>1. ClipInv' /\ MediumInv' /\ case' = case /\ sent' = sent
    BY <1>1, <1>6 DEF Request!BadAlignBlock, Request!WithoutClip, Request!Finally, Request!Unlink,
                      ClipInv, MediumInv
  <2>2. QED
    BY <2>1, QuietSee
<1>7. CASE Request!Rebudget
  <2>1. ClipInv' /\ MediumInv' /\ case' = case /\ sent' = sent
    BY <1>1, <1>7 DEF Request!Rebudget, ClipInv, MediumInv
  <2>2. QED
    BY <2>1, QuietSee
<1>8. QED
  BY <1>2, <1>3, <1>4, <1>5, <1>6, <1>7

LEMMA SendClipSteps ==
  ASSUME RequestInv, Request!SendClip \/ Request!SendAlignClip
  PROVE  RequestInv'
<1> USE DEF Clipped, Sheeted
<1>1. /\ case' = case /\ at \in Clipped /\ at' \notin Clipped \cup Sheeted \cup {"sheets"}
      /\ Request!Unlink
  BY DEF Request!SendClip, Request!SendAlignClip, Request!Answered, Request!GenerationKept,
         Request!AlignKept, Request!Finally
<1>2. ClipInv' /\ MediumInv'
  BY <1>1 DEF RequestInv, ClipInv, MediumInv, Request!Unlink
<1>3. PICK request : Request!Send(request) /\ request.kind = "video"
  BY DEF Request!SendClip, Request!SendAlignClip, Request!GenerationRequest, Request!AlignRequest
<1>4. Request!Video
  BY <1>1 DEF RequestInv, MediumInv
<1>5. IsSequence(sent)' /\ Request!NeverSubstituted'
  BY <1>1, <1>3, <1>4, SendKeeps DEF RequestInv
<1>6. QED
  BY <1>2, <1>5 DEF RequestInv

LEMMA SendSheetsSteps ==
  ASSUME RequestInv, Request!SendSheets \/ Request!SendAlignSheets
  PROVE  RequestInv'
<1> USE DEF Clipped, Sheeted
<1>1. /\ case' = case /\ at \in {"sheets", "alignsheets"}
      /\ at' \notin Clipped \cup Sheeted \cup {"sheets"}
      /\ IF at = "alignsheets" /\ clips > leaked THEN Request!Unlink
         ELSE clips' = clips /\ leaked' = leaked
  BY DEF Request!SendSheets, Request!SendAlignSheets, Request!Answered, Request!GenerationKept,
         Request!AlignKept, Request!Finally, Request!files
<1>2. ClipInv' /\ MediumInv'
  BY <1>1 DEF RequestInv, ClipInv, MediumInv, Request!Unlink
<1>3. Request!Video => case.policy # "error"
  BY <1>1 DEF RequestInv, MediumInv
<1>4. CASE sent' = sent
  BY <1>1, <1>2, <1>4, QuietSee
<1>5. CASE \E request : Request!Send(request) /\ request.kind = "sheet"
  <2>1. PICK request : Request!Send(request) /\ request.kind = "sheet"
    BY <1>5
  <2>2. IsSequence(sent)' /\ Request!NeverSubstituted'
    BY <1>1, <1>3, <2>1, SendKeeps DEF RequestInv
  <2>3. QED
    BY <1>2, <2>2 DEF RequestInv
<1>6. QED
  BY <1>4, <1>5 DEF Request!SendSheets, Request!SendAlignSheets, Request!GenerationRequest,
                    Request!AlignRequest, Request!history

(* What is dropped of a finished episode leaves no clip to remove.          *)
LEMMA PlaceStep == RequestInv /\ Place => RequestInv'
<1> SUFFICES ASSUME RequestInv, Place PROVE RequestInv'
  OBVIOUS
<1>1. /\ at = "done" /\ at' = "done" /\ sent' = << >> /\ leaked' = 0 /\ clips' = clips - leaked
  BY DEF Place, Forget
<1>2. clips = leaked /\ leaked \in Nat
  BY <1>1 DEF RequestInv, ClipInv, Clipped, Sheeted
<1>3. ClipInv' /\ MediumInv'
  BY <1>1, <1>2 DEF ClipInv, MediumInv, Clipped, Sheeted
<1>4. IsSequence(sent)' /\ Request!NeverSubstituted'
  BY <1>1 DEF IsSequence, Request!NeverSubstituted, Request!Requested, Request!Range
<1>5. QED
  BY <1>3, <1>4 DEF RequestInv

(* No step breaks what is known of media and clips.                         *)
LEMMA RequestStep == RequestInv /\ [EpisodeNext]_<< visual, vars >> => RequestInv'
<1> SUFFICES ASSUME RequestInv, [EpisodeNext]_<< visual, vars >> PROVE RequestInv'
  OBVIOUS
<1>1. CASE See
  BY <1>1, ChooseSteps, EncodeSteps, SendClipSteps, SendSheetsSteps DEF See, Request!Work
<1>2. CASE UNCHANGED << visual, vars >>
  <2>1. case' = case /\ at' = at /\ sent' = sent /\ clips' = clips /\ leaked' = leaked
    BY <1>2 DEF visual
  <2>2. ClipInv' /\ MediumInv'
    BY <2>1 DEF RequestInv, ClipInv, MediumInv, Request!Video
  <2>3. QED
    BY <2>1, <2>2, QuietSee
<1>3. QED
  BY <1>1, <1>2, PlaceStep DEF EpisodeNext

(* "Native video must never be silently substituted": under the policy      *)
(* "error" every request of an episode that is to be video is video, and a  *)
(* configuration with contact sheets sends nothing else, after each failure *)
(* to encode, to read a clip back or to decode (_generation_visual_field,    *)
(* _align_encode_clip and _rebudget_align_contact_sheet).                    *)
THEOREM MediumKept == EpisodeSpec => []Request!NeverSubstituted
<1>1. RequestInv => Request!NeverSubstituted
  BY DEF RequestInv
<1>2. QED
  BY <1>1, RequestInit, RequestStep, PTL DEF EpisodeSpec

(* When the subtasks of an episode are there, or it failed, no temporary     *)
(* clip is left but those that the file system refused to remove, on every   *)
(* path through the fallbacks ("finally" of each request).                  *)
THEOREM ClipsRemoved == EpisodeSpec => [](at \in {"done", "failed"} => clips = leaked)
<1>1. RequestInv => (at \in {"done", "failed"} => clips = leaked)
  BY DEF RequestInv, ClipInv, Clipped, Sheeted
<1>2. QED
  BY <1>1, RequestInit, RequestStep, PTL DEF EpisodeSpec

-----------------------------------------------------------------------------
(* A request that keeps its promises.                                       *)

(* The time that its labels are counted from.                               *)
StartOf(c, window) ==
  IF window # None THEN window.from ELSE IF c.format = "video" THEN c.times[1] ELSE 0

Rightly(r) == \A i \in 1 .. Len(r.shown) : r.labels[i] + r.origin = r.shown[i]

GoodRequest(c, r) ==
  /\ r.shown \in Seq(Int) /\ r.shown # << >>
  /\ r.labels \in Seq(Int) /\ Len(r.labels) = Len(r.shown)
  /\ Rising(r.shown) /\ r.origin \in Int
  /\ r.views \in Nat /\ r.views >= 1
  /\ (IF r.kind = "sheet" THEN r.views * Len(r.shown) ELSE Len(r.shown)) <= c.budget
  /\ r.field = "align" =>
       /\ Len(r.shown) > 1 => r.shown[1] = c.times[1] /\ r.shown[Len(r.shown)] = c.times[Len(c.times)]
       /\ r.kind = "video" /\ Request!Even(r.shown) => Rightly(r)
       /\ r.kind # "video" => Rightly(r)
  /\ r.field # "align" => Rightly(r) /\ r.origin = StartOf(c, r.window)

(* The labels of a clip.                                                    *)
LEMMA ClipLabels ==
  ASSUME NEW from \in Int, NEW to \in Int, NEW q \in Seq(Int), Len(q) >= 2,
         q = Request!Grid(from, to, Len(q))
  PROVE  /\ Request!ClipTimes(q) \in Seq(Int) /\ Len(Request!ClipTimes(q)) = Len(q)
         /\ \A i \in 1 .. Len(q) : Request!ClipTimes(q)[i] + from = q[i]
<1> DEFINE size == Len(q)
<1>1. size \in Nat /\ size >= 2 /\ q = Request!Grid(from, to, size)
  OBVIOUS
<1> HIDE DEF size
<1>2. /\ q[1] = from /\ q[size] = to
      /\ \A i \in 1 .. size : Request!Grid(0, to - from, size)[i] + from = q[i]
  <2>1. /\ Request!Grid(from, to, size)[1] = from /\ Request!Grid(from, to, size)[size] = to
        /\ \A i \in 1 .. size :
             Request!Grid(0, to - from, size)[i] + from = Request!Grid(from, to, size)[i]
    <3>1. size \in Nat /\ size >= 2
      BY <1>1
    <3>2. Request!Grid(from, to, size)[1] = from
      BY <3>1, GridEnds
    <3>3. Request!Grid(from, to, size)[size] = to
      BY <3>1, GridEnds
    <3>4. \A i \in 1 .. size :
             Request!Grid(0, to - from, size)[i] + from = Request!Grid(from, to, size)[i]
      BY <3>1, GridSound
    <3>5. QED
      BY <3>2, <3>3, <3>4
  <2>2. QED
    BY <1>1, <2>1
<1>3. Request!ClipTimes(q) = Request!Grid(0, to - from, size)
  <2>3. Head(q) = q[1] /\ q # << >>
    OBVIOUS
  <2>4. Request!Last(q) = q[size]
    BY DEF Request!Last, size
  <2>6. size # 1
    BY <1>1
  <2>5. Len(q) # 1
    BY <2>6 DEF size
  <2>1. Head(q) = q[1] /\ Request!Last(q) = q[size] /\ Len(q) # 1
    BY <2>3, <2>4, <2>5
  <2>2. QED
    BY <1>2, <2>1 DEF Request!ClipTimes, size
<1>4. to - from \in Int /\ 0 \in Int
  OBVIOUS
<1>5. Request!Grid(0, to - from, size) \in Seq(Int) /\ Len(Request!Grid(0, to - from, size)) = size
  BY <1>1, <1>4, GridSound, ZenonT(60)
<1>6. QED
  BY <1>2, <1>3, <1>5 DEF size

(* Evenly spaced moments are a grid.                                        *)
LEMMA EvenIsGrid ==
  ASSUME NEW q \in Seq(Int), Len(q) >= 2, Request!Even(q)
  PROVE  q = Request!Grid(q[1], q[Len(q)], Len(q))
<1> DEFINE size == Len(q)
           gap == q[2] - q[1]
           K == {i \in Nat : i + 1 \in 1 .. size => q[i + 1] = q[1] + i * gap}
<1>1. size \in Nat /\ size >= 2 /\ q[1] \in Int /\ q[2] \in Int /\ gap \in Int
      /\ \A i \in 1 .. size : q[i] \in Int
  OBVIOUS
<1>2. \A i \in 2 .. size - 1 : q[i + 1] - q[i] = gap
  BY DEF Request!Even
<1> HIDE DEF gap
<1>3. 0 \in K
  BY <1>1
<1>4. ASSUME NEW i \in K PROVE i + 1 \in K
  <2> SUFFICES ASSUME (i + 1) + 1 \in 1 .. size PROVE q[(i + 1) + 1] = q[1] + (i + 1) * gap
    OBVIOUS
  <2>1. i \in Nat /\ i + 1 \in 1 .. size /\ i + 2 \in 1 .. size
    BY <1>1
  <2>2. q[i + 1] = q[1] + i * gap
    BY <2>1
  <2>3. (i + 1) * gap = i * gap + gap /\ i * gap \in Int
    BY <1>1, <2>1
  <2>4. q[i + 2] - q[i + 1] = gap
    <3>1. CASE i = 0
      BY <1>1, <3>1 DEF gap
    <3>2. CASE i # 0
      <4>1. i + 1 \in 2 .. size - 1 /\ (i + 1) + 1 = i + 2
        BY <1>1, <2>1, <3>2
      <4>2. QED
        BY <1>2, <4>1
    <3>3. QED
      BY <3>1, <3>2
  <2>5. q[i + 1] \in Int /\ q[i + 2] \in Int /\ (i + 1) + 1 = i + 2
    BY <1>1, <2>1
  <2> DEFINE x == q[i + 1]  y == q[i + 2]
  <2>6. y - x = gap /\ x = q[1] + i * gap /\ x \in Int /\ y \in Int
    BY <2>2, <2>4, <2>5
  <2>7. y = q[1] + (i + 1) * gap
    <3> DEFINE z == i * gap  u == (i + 1) * gap
    <3>1. z \in Int /\ u = z + gap /\ y - x = gap /\ x = q[1] + z
      BY <2>3, <2>6
    <3> DEFINE first == q[1]
    <3>4. first \in Int /\ x = first + z
      BY <1>1, <3>1
    <3> HIDE DEF z, u, x, y, K, first
    <3>2. y = first + u
      BY <1>1, <2>6, <3>1, <3>4
    <3>3. QED
      BY <3>2 DEF u, first
  <2>8. QED
    BY <2>5, <2>7
<1>5. Nat \subseteq K
  <2>1. K \in SUBSET Nat
    OBVIOUS
  <2> HIDE DEF K
  <2>2. QED
    BY <1>3, <1>4, <2>1, InductionOnSets
<1>6. ASSUME NEW i \in 1 .. size PROVE q[i] = q[1] + (i - 1) * gap
  <2>1. i - 1 \in Nat /\ (i - 1) + 1 = i
    BY <1>1
  <2>2. i - 1 \in K
    BY <1>5, <2>1
  <2>3. QED
    BY <2>1, <2>2
<1> HIDE DEF K, size
<1>7. q[size] - q[1] = (size - 1) * gap
  <2>1. size \in 1 .. size /\ (size - 1) * gap \in Int
    BY <1>1
  <2>2. QED
    BY <1>1, <1>6, <2>1
<1>8. ASSUME NEW i \in 1 .. size
      PROVE  q[1] + ((i - 1) * (q[size] - q[1])) \div (size - 1) = q[i]
  <2>1. (i - 1) * ((size - 1) * gap) = ((i - 1) * gap) * (size - 1)
    BY <1>1
  <2> DEFINE m == (i - 1) * gap  b == size - 1
  <2>2. m \in Int /\ b \in Nat \ {0}
    BY <1>1
  <2>3. (m * b) \div b = m
    <3> HIDE DEF m, b
    <3>1. QED
      BY <2>2, ExactQuotient
  <2>4. QED
    BY <1>6, <1>7, <2>1, <2>3
<1>9. q = [i \in 1 .. size |-> q[i]]
  BY DEF size
<1>10. Request!Grid(q[1], q[size], size) = [i \in 1 .. size |-> q[1] + ((i - 1) * (q[size] - q[1])) \div (size - 1)]
  BY DEF Request!Grid
<1>11. QED
  BY <1>8, <1>9, <1>10 DEF size

LEMMA ClipSamples ==
  ASSUME NEW ts \in Seq(Int), ts # << >>, Rising(ts), NEW window \in Spanned \cup {None},
         NEW budget \in Nat \ {0}, NEW format, format # "sheet"
  PROVE  LET q == Request!Samples(ts, window, budget, format)
         IN  /\ q \in Seq(Int) /\ Len(q) >= 1 /\ Len(q) <= budget /\ Rising(q)
             /\ Len(q) >= 2 => q = Request!Grid(All(ts, window).from, All(ts, window).to, Len(q))
<1> DEFINE q == Request!Samples(ts, window, budget, format)
           all == All(ts, window)
<1>1. Sampled(ts, window, budget, format)
  BY SamplesSound
<1>2. q \in Seq(Int) /\ Len(q) >= 1 /\ Len(q) <= budget /\ Rising(q)
  BY <1>1 DEF Sampled
<1>3. ASSUME Len(q) >= 2 PROVE q = Request!Grid(all.from, all.to, Len(q))
  <2> HIDE DEF q, all
  <2> QED
    BY <1>1, <1>3 DEF Sampled, q, all
<1> HIDE DEF q, all
<1>4. QED
  BY <1>2, <1>3 DEF q, all

(* The moments and labels of generated contact sheets, and of a clip.       *)
LEMMA SheetRequestGood ==
  ASSUME case \in Cases, Request!Now.window \in Spanned \cup {None}, Request!Now.field # "align",
         NEW window, window = Request!FallbackWindow,
         NEW shown, shown = Request!ShownIn(window),
         NEW labels, labels = IF window = None THEN shown ELSE [i \in DOMAIN shown |-> shown[i] - window.from],
         NEW sheets, sheets = Request!Sheets(shown, labels)
  PROVE  GoodRequest(case, Request!GenerationRequest("sheet", Request!Moments(sheets), Request!Badges(sheets), Request!Video))
<1>1. /\ case.times \in Seq(Int) /\ case.times # << >> /\ Rising(case.times)
      /\ case.budget \in Nat \ {0} /\ case.times[1] \in Int
  BY CaseSound
<1>2. window \in Spanned \cup {None}
  BY <1>1, WholeSpanned DEF Request!FallbackWindow
<1>3. shown \in Seq(Int) /\ Len(shown) >= 1 /\ Len(shown) <= case.budget /\ Rising(shown)
  <2>1. Sampled(case.times, window, case.budget, case.format)
    BY <1>1, <1>2, SamplesSound
  <2>2. QED
    BY <2>1 DEF Request!ShownIn, Sampled
<1>4. window # None => window.from \in Int
  BY <1>2 DEF Spanned
<1>5. labels \in Seq(Int) /\ Len(labels) = Len(shown)
  <2>1. DOMAIN shown = 1 .. Len(shown)
    BY <1>3
  <2>2. QED
    BY <1>3, <1>4, <2>1
<1>6. Request!Moments(sheets) = shown /\ Request!Badges(sheets) = labels
  <2>1. shown # << >>
    BY <1>3
  <2>2. QED
    BY <1>3, <1>5, <2>1, SheetsShow
<1> DEFINE r == Request!GenerationRequest("sheet", shown, labels, Request!Video)
<1>7. /\ r.shown = shown /\ r.labels = labels /\ r.views = 1 /\ r.kind = "sheet"
      /\ r.field = Request!Now.field /\ r.window = Request!Now.window
      /\ r.origin = Request!Origin(Request!Video)
  BY DEF Request!GenerationRequest
<1>8. r.origin = StartOf(case, r.window)
  <2>1. Head(case.times) = case.times[1]
    BY <1>1
  <2>2. QED
    BY <1>7, <2>1 DEF Request!Origin, StartOf, Request!Video, Request!First
<1>9. r.origin = IF window = None THEN 0 ELSE window.from
  <2>1. Request!Whole(case.times).from = case.times[1] /\ Request!Whole(case.times) # None
    BY <1>1, WholeSpanned
  <2>2. QED
    BY <1>7, <1>8, <2>1 DEF StartOf, Request!FallbackWindow, Request!Video
<1>10. ASSUME NEW i \in 1 .. Len(shown) PROVE labels[i] + r.origin = shown[i]
  <2>1. shown[i] \in Int /\ DOMAIN shown = 1 .. Len(shown)
    BY <1>3
  <2>2. CASE window = None
    BY <1>9, <2>1, <2>2
  <2>3. CASE window # None
    <3>1. labels[i] = shown[i] - window.from
      BY <2>1, <2>3
    <3>2. QED
      BY <1>4, <1>9, <2>1, <2>3, <3>1
  <2>4. QED
    BY <2>2, <2>3
<1> HIDE DEF r
<1>11. Rightly(r)
  BY <1>7, <1>10 DEF Rightly
<1>12. 1 * Len(shown) <= case.budget /\ shown # << >>
  BY <1>3
<1>15. r.origin \in Int
  BY <1>4, <1>9
<1>13. GoodRequest(case, r)
  BY <1>3, <1>15, <1>5, <1>7, <1>8, <1>11, <1>12 DEF GoodRequest
<1>14. QED
  BY <1>6, <1>13 DEF r

(* A clip that is sent tells the times of its frames.                       *)
LEMMA ClipRequestGood ==
  ASSUME case \in Cases, Request!Now.window \in Spanned \cup {None}, Request!Now.field # "align",
         Request!Video, NEW shown, shown = Request!ShownIn(Request!Now.window), Len(shown) >= 2
  PROVE  GoodRequest(case, Request!GenerationRequest("video", shown, Request!ClipTimes(shown), TRUE))
<1> DEFINE window == Request!Now.window
           all == All(case.times, window)
           r == Request!GenerationRequest("video", shown, Request!ClipTimes(shown), TRUE)
<1>1. /\ case.times \in Seq(Int) /\ case.times # << >> /\ Rising(case.times)
      /\ case.budget \in Nat \ {0} /\ case.times[1] \in Int /\ Head(case.times) = case.times[1]
  BY CaseSound
<1>2. /\ shown \in Seq(Int) /\ Len(shown) >= 1 /\ Len(shown) <= case.budget /\ Rising(shown)
      /\ shown = Request!Grid(all.from, all.to, Len(shown))
  <2>1. case.format # "sheet"
    BY DEF Request!Video
  <2> DEFINE ts == case.times  budget == case.budget  format == case.format
  <2>2. /\ ts \in Seq(Int) /\ ts # << >> /\ Rising(ts) /\ budget \in Nat \ {0}
        /\ window \in Spanned \cup {None} /\ format # "sheet"
        /\ shown = Request!Samples(ts, window, budget, format)
    BY <1>1, <2>1 DEF Request!ShownIn
  <2> HIDE DEF ts, budget, format, window
  <2>3. LET q == Request!Samples(ts, window, budget, format)
        IN  /\ q \in Seq(Int) /\ Len(q) >= 1 /\ Len(q) <= budget /\ Rising(q)
            /\ Len(q) >= 2 => q = Request!Grid(All(ts, window).from, All(ts, window).to, Len(q))
    BY <2>2, ClipSamples
  <2>4. QED
    BY <2>2, <2>3 DEF ts, budget, format, window
<1>3. all \in Spanned /\ (window = None => all.from = case.times[1])
  BY <1>1, WholeSpanned DEF All
<1>4. all.from \in Int /\ all.to \in Int
  BY <1>3 DEF Spanned
<1> DEFINE from == all.from  to == all.to
<1>5. /\ Request!ClipTimes(shown) \in Seq(Int) /\ Len(Request!ClipTimes(shown)) = Len(shown)
      /\ \A i \in 1 .. Len(shown) : Request!ClipTimes(shown)[i] + from = shown[i]
  <2>1. from \in Int /\ to \in Int /\ shown = Request!Grid(from, to, Len(shown))
    BY <1>2, <1>4
  <2> HIDE DEF from, to
  <2>2. QED
    BY <1>2, <2>1, ClipLabels
<1>6. /\ r.shown = shown /\ r.labels = Request!ClipTimes(shown) /\ r.views = 1 /\ r.kind = "video"
      /\ r.field = Request!Now.field /\ r.window = window
      /\ r.origin = Request!Origin(TRUE)
  BY DEF Request!GenerationRequest
<1>7. r.origin = StartOf(case, r.window) /\ r.origin = from
  BY <1>1, <1>3, <1>6 DEF Request!Origin, StartOf, Request!Video, Request!First, All
<1>12. from \in Int
  BY <1>4
<1> HIDE DEF r, from, all
<1>8. Rightly(r)
  BY <1>5, <1>6, <1>7 DEF Rightly
<1>9. shown # << >>
  BY <1>2
<1>10. GoodRequest(case, r)
  <2>1. r.shown \in Seq(Int) /\ r.shown # << >> /\ Rising(r.shown) /\ r.origin \in Int
    BY <1>2, <1>6, <1>7, <1>9, <1>12
  <2>2. r.labels \in Seq(Int) /\ Len(r.labels) = Len(r.shown)
    BY <1>5, <1>6
  <2>3. r.views \in Nat /\ r.views >= 1
    BY <1>6
  <2>4. r.kind # "sheet" /\ Len(r.shown) <= case.budget
    BY <1>2, <1>6
  <2>5. r.field # "align" /\ Rightly(r) /\ r.origin = StartOf(case, r.window)
    BY <1>6, <1>7, <1>8
  <2>6. QED
    BY <2>1, <2>2, <2>3, <2>4, <2>5 DEF GoodRequest
<1>11. QED
  BY <1>10 DEF r

-----------------------------------------------------------------------------
(* What an alignment shows.                                                 *)

(* The moments of each view fit into the prompt together.                   *)
LEMMA PerViewFits ==
  ASSUME case \in Cases, NEW count \in Nat \ {0}, count <= case.budget
  PROVE  Request!PerView(count) \in Nat \ {0} /\ count * Request!PerView(count) <= case.budget
<1> DEFINE budget == case.budget
           share == budget \div count
<1>1. budget \in Nat \ {0}
  BY CaseSound
<1>2. count <= budget
  OBVIOUS
<1>3. Request!Max({1, count}) = count
  BY Two
<1> HIDE DEF budget
<1>4. share \in Int /\ share * count <= budget /\ budget < share * count + count
  BY <1>1, Divided
<1> HIDE DEF share
<1>5. share >= 1
  <2>1. CASE share <= 0
    <3>1. share * count <= 0 * count
      BY <1>4, <2>1, Mono
    <3>2. share * count \in Int
      BY <1>4
    <3>3. QED
      BY <1>1, <1>2, <1>4, <3>1, <3>2
  <2>2. QED
    BY <1>4, <2>1
<1>6. Request!Max({1, share}) = share
  BY <1>4, <1>5, Two
<1>7. Request!PerView(count) = share
  BY <1>3, <1>6 DEF Request!PerView, share, budget
<1>8. count * share = share * count
  BY <1>4
<1>9. QED
  BY <1>4, <1>5, <1>7, <1>8 DEF budget

(* A timeline stays within what each view may show.                         *)
LEMMA TimelineFits ==
  ASSUME case \in Cases, NEW count \in Nat \ {0}, count <= case.budget,
         NEW q \in Request!Timeline(count)
  PROVE  Shows(q, case.times, case.budget) /\ count * Len(q) <= case.budget
<1> DEFINE ts == case.times
           budget == case.budget
           per == Request!PerView(count)
           wanted == Request!Wanted(Request!Whole(ts))
           most == Request!Min({wanted, per})
           motion == case.motion
<1>1. ts \in Seq(Int) /\ ts # << >> /\ Rising(ts) /\ budget \in Nat \ {0}
  BY CaseSound
<1>2. per \in Nat \ {0} /\ count * per <= budget
  BY PerViewFits
<1>3. q \in Request!Timelines(ts, most, motion)
  BY DEF Request!Timeline
<1> HIDE DEF ts, budget, per, motion
<1>4. Request!Whole(ts) \in Spanned /\ Request!Whole(ts).from = ts[1] /\ Request!Whole(ts).to = ts[Len(ts)]
  BY <1>1, WholeSpanned
<1>5. /\ wanted \in Nat \ {0}
      /\ wanted > 1 => ts[Len(ts)] - ts[1] >= wanted - 1
  BY <1>4, WantedSound
<1> HIDE DEF wanted
<1>6. most = IF wanted <= per THEN wanted ELSE per
  <2>1. wanted \in Int /\ per \in Int
    BY <1>2, <1>5
  <2>2. Request!Min({wanted, per}) = IF wanted <= per THEN wanted ELSE per
    BY <2>1, Two
  <2>3. QED
    BY <2>2
<1> HIDE DEF most
<1>7. most \in Nat \ {0} /\ most <= per /\ most <= wanted
  BY <1>2, <1>5, <1>6
<1>8. ts[1] \in Int /\ ts[Len(ts)] \in Int /\ ts[1] <= ts[Len(ts)]
  <2>1. ts[1] \in Int /\ ts[Len(ts)] \in Int /\ Len(ts) \in Nat \ {0}
    BY <1>1
  <2>2. Len(ts) > 1 => ts[1] < ts[Len(ts)]
    BY <1>1, <2>1 DEF Rising
  <2>3. QED
    BY <2>1, <2>2
<1>9. ts[Len(ts)] - ts[1] >= most - 1
  <2> DEFINE lo == ts[1]  hi == ts[Len(ts)]
  <2>1. lo \in Int /\ hi \in Int /\ lo <= hi /\ (wanted > 1 => hi - lo >= wanted - 1)
    BY <1>5, <1>8
  <2> HIDE DEF lo, hi
  <2>2. hi - lo >= most - 1
    BY <1>5, <1>7, <2>1
  <2>3. QED
    BY <2>2 DEF lo, hi
<1>10. Shows(q, ts, most)
  BY <1>1, <1>3, <1>7, <1>9, TimelineShows
<1>11. q \in Seq(Int) /\ Len(q) \in Nat /\ Len(q) <= most /\ Len(q) <= per
  BY <1>2, <1>7, <1>10 DEF Shows
<1>12. count * Len(q) <= count * per
  <2> DEFINE len == Len(q)
  <2>1. len \in Nat /\ len <= per
    BY <1>11
  <2> HIDE DEF len
  <2>2. len * count <= per * count
    BY <1>2, <2>1, Mono
  <2>3. len * count = count * len /\ per * count = count * per
    BY <1>2, <2>1
  <2>4. QED
    BY <2>2, <2>3 DEF len
<1>13. per <= budget
  <2>1. 1 * per <= count * per
    BY <1>2, Mono
  <2>2. 1 * per = per /\ count * per \in Int
    BY <1>2
  <2>3. QED
    BY <1>1, <1>2, <2>1, <2>2
<1>14. Shows(q, ts, budget)
  <2>1. Len(q) <= budget
    BY <1>1, <1>2, <1>11, <1>13
  <2>2. QED
    BY <1>10, <2>1 DEF Shows
<1>15. count * Len(q) <= budget
  <2>1. count * Len(q) \in Int /\ count * per \in Int
    BY <1>2, <1>11
  <2>2. QED
    BY <1>1, <1>2, <1>12, <2>1
<1>16. QED
  BY <1>14, <1>15 DEF ts, budget

(* A moment of a quotient without a remainder is rounded to it.             *)
LEMMA RoundExact ==
  ASSUME NEW q \in Int, NEW b \in Nat \ {0}
  PROVE  Request!Round(q * b, b) = q
<1>1. (q * b) \div b = q
  BY ExactQuotient
<1>2. (q * b) % b = 0
  <2> DEFINE a == q * b
  <2>1. a \in Int /\ a \div b = q
    BY <1>1
  <2>2. a % b = a - (a \div b) * b
    <3> HIDE DEF a
    <3>1. QED
      BY <2>1, Divided
  <2>3. QED
    BY <1>1, <2>2
<1>3. QED
  BY <1>1, <1>2 DEF Request!Round

(* Fewer places than there are, spread over all of them, are all different. *)
LEMMA ThinnedPlaces ==
  ASSUME NEW length \in Nat, NEW size \in Nat, size >= 2, length > size
  PROVE  LET place(i) == Request!Round((i - 1) * (length - 1), size - 1) + 1
         IN  /\ \A i \in 1 .. size : place(i) \in 1 .. length
             /\ \A i, j \in 1 .. size : i < j => place(i) < place(j)
             /\ place(1) = 1 /\ place(size) = length
<1> DEFINE b == size - 1
           long == length - 1
           a(i) == (i - 1) * long
           r(i) == Request!Round(a(i), b)
<1>1. b \in Nat \ {0} /\ long \in Nat /\ b < long
  OBVIOUS
<1> HIDE DEF long
<1>2. ASSUME NEW i \in 1 .. size
      PROVE  /\ a(i) \in Int /\ r(i) \in Int
             /\ 2 * (r(i) * b) <= 2 * a(i) + b /\ 2 * a(i) <= 2 * (r(i) * b) + b
  <2>1. a(i) \in Int
    BY <1>1
  <2> DEFINE x == a(i)
  <2>2. x \in Int /\ b \in Nat \ {0}
    BY <1>1, <2>1
  <2> HIDE DEF x, b
  <2>3. /\ Request!Round(x, b) \in Int
        /\ 2 * (Request!Round(x, b) * b) <= 2 * x + b /\ 2 * x <= 2 * (Request!Round(x, b) * b) + b
    BY <2>2, Rounded
  <2>4. QED
    BY <2>1, <2>3 DEF x, b
<1>3. ASSUME NEW i \in 1 .. size, NEW j \in 1 .. size, i < j PROVE r(i) < r(j)
  <2>1. a(i) + long <= a(j)
    <3>1. i - 1 \in Int /\ j - 1 \in Int /\ i - 1 < j - 1
      BY <1>3
    <3>2. QED
      BY <1>1, <3>1, Mult
  <2> DEFINE x == a(i)  y == a(j)  p == r(i)  q == r(j)  u == p * b  v == q * b
  <2>2. /\ x \in Int /\ y \in Int /\ p \in Int /\ q \in Int /\ x + long <= y
        /\ 2 * u <= 2 * x + b /\ 2 * y <= 2 * v + b
    BY <1>2, <2>1
  <2> HIDE DEF x, y, p, q, b
  <2>3. u \in Int /\ v \in Int
    BY <1>1, <2>2
  <2>4. u < v
    <3> HIDE DEF u, v
    <3>1. QED
      BY <1>1, <2>2, <2>3
  <2>5. p < q
    BY <1>1, <2>2, <2>4, Cancel
  <2>6. QED
    BY <2>5 DEF p, q, b
<1>4. r(1) = 0
  <2>1. a(1) = 0 * b
    BY <1>1
  <2>2. Request!Round(0 * b, b) = 0
    BY <1>1, RoundExact
  <2>3. QED
    BY <2>1, <2>2
<1>5. r(size) = long
  <2>1. a(size) = long * b
    BY <1>1
  <2>2. Request!Round(long * b, b) = long
    BY <1>1, RoundExact
  <2>3. QED
    BY <2>1, <2>2
<1>6. ASSUME NEW i \in 1 .. size PROVE r(i) \in Int /\ 0 <= r(i) /\ r(i) <= long
  <2>1. 1 \in 1 .. size /\ size \in 1 .. size
    OBVIOUS
  <2>2. r(i) \in Int
    BY <1>2
  <2>3. (1 < i => r(1) < r(i)) /\ (i < size => r(i) < r(size))
    BY <1>3, <2>1
  <2> DEFINE p == r(i)
  <2> HIDE DEF r
  <2>4. (i = 1 => p = 0) /\ (1 < i => 0 < p) /\ (i = size => p = long) /\ (i < size => p < long)
    BY <1>4, <1>5, <2>3
  <2>5. QED
    BY <1>1, <2>2, <2>4
<1> HIDE DEF r, a, b
<1>7. /\ \A i \in 1 .. size : r(i) + 1 \in 1 .. length
      /\ \A i, j \in 1 .. size : i < j => r(i) + 1 < r(j) + 1
      /\ r(1) + 1 = 1 /\ r(size) + 1 = length
  <2>1. \A i \in 1 .. size : r(i) + 1 \in 1 .. length
    BY <1>6 DEF long
  <2>2. \A i, j \in 1 .. size : i < j => r(i) + 1 < r(j) + 1
    BY <1>3, <1>6
  <2>3. r(1) + 1 = 1 /\ r(size) + 1 = length
    BY <1>4, <1>5 DEF long
  <2>4. QED
    BY <2>1, <2>2, <2>3
<1>8. QED
  BY <1>7 DEF r, a, b, long

-----------------------------------------------------------------------------
(* An alignment, from its cameras to its request.                           *)

(* Moments that are thinned keep their ends and their order.                *)
LEMMA ThinnedShows ==
  ASSUME case \in Cases, Shows(times, case.times, case.budget), NEW size \in Nat \ {0}
  PROVE  /\ Shows(Request!Thinned(size), case.times, case.budget)
         /\ Len(views) <= 1 \/ Len(Request!Thinned(size)) <= size
<1> DEFINE q == Request!Thinned(size)
           length == Len(times)
           place(i) == Request!Round((i - 1) * (length - 1), size - 1) + 1
<1>1. /\ times \in Seq(Int) /\ times # << >> /\ length <= case.budget /\ Rising(times)
      /\ times[1] = case.times[1] /\ (length > 1 => times[length] = case.times[Len(case.times)])
      /\ case.budget \in Nat \ {0}
  BY CaseSound DEF Shows
<1>2. length \in Nat \ {0} /\ Head(times) = times[1] /\ times[1] \in Int
  BY <1>1
<1>3. CASE Len(views) <= 1 \/ length <= size
  <2>1. q = times
    BY <1>3 DEF Request!Thinned
  <2>2. QED
    BY <1>3, <2>1
<1>4. CASE ~(Len(views) <= 1 \/ length <= size) /\ size = 1
  <2>1. q = << times[1] >>
    BY <1>2, <1>4 DEF Request!Thinned
  <2>2. << times[1] >> \in Seq(Int) /\ Len(<< times[1] >>) = 1 /\ << times[1] >>[1] = times[1]
        /\ << times[1] >> # << >>
    BY <1>2
  <2>3. Rising(<< times[1] >>)
    BY <2>2 DEF Rising
  <2>4. 1 <= case.budget
    BY <1>1
  <2>5. Shows(<< times[1] >>, case.times, case.budget)
    BY <1>1, <2>2, <2>3, <2>4 DEF Shows
  <2>6. QED
    BY <1>4, <2>1, <2>2, <2>5
<1>5. CASE ~(Len(views) <= 1 \/ length <= size) /\ size # 1
  <2>1. q = [i \in 1 .. size |-> times[place(i)]]
    BY <1>5 DEF Request!Thinned
  <2>2. size \in Nat /\ size >= 2 /\ ~(length <= size)
    BY <1>5
  <2> HIDE DEF length, q
  <2>9. length > size
    BY <1>2, <2>2
  <2>3. /\ \A i \in 1 .. size : place(i) \in 1 .. length
        /\ \A i, j \in 1 .. size : i < j => place(i) < place(j)
        /\ place(1) = 1 /\ place(size) = length
    BY <1>2, <2>2, <2>9, ThinnedPlaces
  <2> HIDE DEF place
  <2>4. \A i \in 1 .. length : times[i] \in Int
    BY <1>1 DEF length
  <2>5. q \in Seq(Int) /\ Len(q) = size /\ \A i \in 1 .. size : q[i] = times[place(i)]
    <3>1. q \in [1 .. size -> Int]
      BY <2>1, <2>3, <2>4
    <3>2. QED
      BY <2>1, <2>2, <3>1
  <2>6. Rising(q)
    <3>1. \A i, j \in 1 .. length : i < j => times[i] < times[j]
      BY <1>1 DEF Rising, length
    <3>2. \A i, j \in 1 .. size : i < j => times[place(i)] < times[place(j)]
      BY <2>3, <3>1
    <3>3. QED
      BY <2>5, <3>2 DEF Rising
  <2>7. q[1] = times[1] /\ q[size] = times[length]
    BY <2>2, <2>3, <2>5
  <2>8. q # << >> /\ Len(q) <= case.budget /\ length > 1
    BY <1>1, <1>2, <2>2, <2>5, <2>9
  <2>10. Shows(q, case.times, case.budget)
    BY <1>1, <2>5, <2>6, <2>7, <2>8 DEF Shows
  <2>11. Len(q) <= size
    BY <2>2, <2>5
  <2>12. QED
    BY <2>10, <2>11 DEF q
<1>6. QED
  BY <1>3, <1>4, <1>5

Aligning == {"decode", "again", "encode", "alignclip", "rebudget", "alignsheets"}

(* The cameras of an alignment are known and different, and its moments are  *)
(* in order, with both ends, and as many as the prompt takes for each view   *)
(* that is paid for.                                                        *)
AlignInv ==
  /\ views \in Seq(Request!Range(Cameras))
  /\ \A i, j \in 1 .. Len(views) : i # j => views[i] # views[j]
  /\ at \in Aligning =>
       /\ views # << >> /\ Len(views) <= case.budget
       /\ Shows(times, case.times, case.budget)
  /\ at \in {"decode", "again", "encode"} => Request!Charged(views) * Len(times) <= case.budget
  /\ at = "alignsheets" => Len(views) * Len(times) <= case.budget
  /\ at = "rebudget" => Request!Video

(* The cameras of the provider are known.                                   *)
LEMMA CamerasKnown ==
  /\ Cameras \in Seq(Request!Range(Cameras)) /\ Cameras # << >>
  /\ Head(Cameras) \in Request!Range(Cameras)
<1>1. Cameras \in Seq({Cameras[i] : i \in DOMAIN Cameras}) /\ Cameras # << >>
  BY PromptAssumption
<1>2. Request!Range(Cameras) = {Cameras[i] : i \in DOMAIN Cameras}
  BY DEF Request!Range
<1> DEFINE S == Request!Range(Cameras)
<1>3. Cameras \in Seq(S)
  BY <1>1, <1>2
<1> HIDE DEF S
<1>4. Head(Cameras) \in S
  BY <1>1, <1>3
<1>5. QED
  BY <1>1, <1>3, <1>4 DEF S

LEMMA RequestedKnown ==
  ASSUME case \in Cases
  PROVE  /\ Request!Known \in Seq(Request!Range(Cameras))
         /\ \A i, j \in 1 .. Len(Request!Known) : i # j => Request!Known[i] # Request!Known[j]
<1> DEFINE s == case.requested
           T == {s[i] : i \in DOMAIN s}
           S == Request!Range(Cameras)
           q == Request!Known
<1>1. s \in Seq(T) /\ \A i, j \in DOMAIN s : s[i] = s[j] => i = j
  BY CasesAssumption
<1>2. q = Request!Only(s, S)
  BY DEF Request!Known
<1> HIDE DEF s, T, S, q
<1>3. DOMAIN s = 1 .. Len(s)
  BY <1>1
<1>4. q \in Seq(T) /\ PartOf(q, s, Len(s), S)
  BY <1>1, <1>2, OnlyIsPart
<1>5. Inherits(q, s)
  BY <1>1, <1>4, PartInherits
<1>6. \A i, j \in 1 .. Len(q) : i # j => q[i] # q[j]
  BY <1>1, <1>3, <1>5 DEF Inherits
<1>7. \A k \in 1 .. Len(q) : q[k] \in S
  BY <1>4 DEF PartOf
<1>8. q \in Seq(S)
  BY <1>4, <1>7
<1>9. QED
  BY <1>6, <1>8 DEF q, S

(* No more views are charged than a prompt has frames.                      *)
LEMMA ChargedFits ==
  ASSUME NEW q \in Seq(Request!Range(Cameras)), q # << >>, NEW budget \in Nat \ {0}, Len(q) <= budget
  PROVE  Request!Charged(q) \in Nat \ {0} /\ Request!Charged(q) <= budget
<1>1. Len(q) \in Nat \ {0}
  OBVIOUS
<1>2. QED
  BY <1>1 DEF Request!Charged

-----------------------------------------------------------------------------
(* Cameras of which each is known and there is no other.                    *)
Views(q) ==
  /\ q \in Seq(Request!Range(Cameras))
  /\ \A i, j \in 1 .. Len(q) : i # j => q[i] # q[j]

LEMMA ChargedKept ==
  ASSUME case' = case
  PROVE  Request!Charged(views)' = Request!Charged(views') /\ Request!Video' = Request!Video
BY DEF Request!Charged, Request!Video

LEMMA ChooseCamerasStep ==
  ASSUME case \in Cases, AlignInv, Request!ChooseCameras
  PROVE  AlignInv'
<1> DEFINE known == Request!Known
           most == Request!Max({1, case.budget})
           selected == IF Len(known) > most THEN SubSeq(known, 1, most) ELSE known
           S == Request!Range(Cameras)
<1>1. /\ views' = IF selected = << >> THEN << Head(Cameras) >> ELSE selected
      /\ times' \in Request!Timeline(Request!Charged(views'))
      /\ at' = "decode" /\ case' = case
  BY DEF Request!ChooseCameras, Request!AlignKept
<1>2. case.budget \in Nat \ {0}
  BY CaseSound
<1>3. most = case.budget
  BY <1>2, Two
<1>4. known \in Seq(S) /\ \A i, j \in 1 .. Len(known) : i # j => known[i] # known[j]
  BY RequestedKnown
<1> HIDE DEF known, most, S
<1>5. Views(selected) /\ Len(selected) <= case.budget
  <2>1. CASE Len(known) > most
    <3>1. selected = SubSeq(known, 1, most) /\ most \in Nat \ {0} /\ most <= Len(known)
      BY <1>2, <1>3, <1>4, <2>1
    <3>2. /\ selected \in Seq(S) /\ Len(selected) = most
          /\ \A i \in 1 .. most : selected[i] = known[i]
      BY <1>4, <3>1
    <3>3. \A i \in 1 .. most : i \in 1 .. Len(known)
      BY <1>4, <3>1
    <3> HIDE DEF selected
    <3>4. \A i, j \in 1 .. most : i # j => selected[i] # selected[j]
      BY <1>4, <3>2, <3>3
    <3>5. QED
      BY <1>2, <1>3, <3>1, <3>2, <3>4 DEF Views, S
  <2>2. CASE ~(Len(known) > most)
    <3>1. selected = known
      BY <2>2
    <3>2. Len(known) <= case.budget
      BY <1>2, <1>3, <1>4, <2>2
    <3>3. QED
      BY <1>4, <3>1, <3>2 DEF Views, S
  <2>3. QED
    BY <2>1, <2>2
<1> HIDE DEF selected
<1>6. Views(views') /\ views' # << >> /\ Len(views') <= case.budget
  <2>1. CASE selected = << >>
    <3>1. views' = << Head(Cameras) >>
      BY <1>1, <2>1
    <3>2. Head(Cameras) \in S
      BY CamerasKnown DEF S
    <3>3. << Head(Cameras) >> \in Seq(S) /\ Len(<< Head(Cameras) >>) = 1 /\ << Head(Cameras) >> # << >>
      BY <3>2
    <3>4. QED
      BY <1>2, <3>1, <3>3 DEF Views, S
  <2>2. CASE selected # << >>
    BY <1>1, <1>5, <2>2
  <2>3. QED
    BY <2>1, <2>2
<1>7. Request!Charged(views') \in Nat \ {0} /\ Request!Charged(views') <= case.budget
  BY <1>2, <1>6, ChargedFits DEF Views
<1>8. Shows(times', case.times, case.budget) /\ Request!Charged(views') * Len(times') <= case.budget
  BY <1>1, <1>7, TimelineFits
<1>9. QED
  BY <1>1, <1>6, <1>8, ChargedKept DEF AlignInv, Views, Aligning

(* The views that are left are views that were chosen, each once.           *)
LEMMA DecodeViewsStep ==
  ASSUME case \in Cases, AlignInv, Request!DecodeViews
  PROVE  AlignInv'
<1> DEFINE S == Request!Range(Cameras)
<1>1. PICK good \in SUBSET Request!Range(views) :
        /\ views' = Request!Only(views, good)
        /\ at' = CASE good = {} -> "failed"
                   [] good = Request!Range(views) -> "encode"
                   [] OTHER -> "again"
  BY DEF Request!DecodeViews
<1>2. case' = case /\ times' = times /\ at = "decode"
  BY DEF Request!DecodeViews, Request!AlignKept
<1>3. /\ views \in Seq(S) /\ \A i, j \in 1 .. Len(views) : i # j => views[i] # views[j]
      /\ views # << >> /\ Len(views) <= case.budget /\ Shows(times, case.times, case.budget)
      /\ Request!Charged(views) * Len(times) <= case.budget
  BY <1>2 DEF AlignInv, Aligning
<1> HIDE DEF S
<1>4. views' \in Seq(S) /\ PartOf(views', views, Len(views), good)
  BY <1>1, <1>3, OnlyIsPart
<1>5. \A i, j \in 1 .. Len(views') : i # j => views'[i] # views'[j]
  <2>1. Inherits(views', views)
    BY <1>3, <1>4, PartInherits
  <2>2. QED
    BY <1>3, <2>1 DEF Inherits
<1>6. Len(views') <= Len(views) /\ Len(views') \in Nat /\ Len(views) \in Nat
  BY <1>3, <1>4, PartShorter
<1>7. case.budget \in Nat \ {0} /\ Len(times) \in Nat
  BY <1>3, CaseSound DEF Shows
<1>8. CASE good = {}
  <2>1. at' = "failed"
    <3>1. (CASE good = {} -> "failed"
             [] good = Request!Range(views) -> "encode"
             [] OTHER -> "again") = "failed"
      <4>1. good # Request!Range(views)
        <5>1. 1 \in 1 .. Len(views) /\ 1 \in DOMAIN views
          BY <1>3
        <5>2. views[1] \in Request!Range(views)
          BY <5>1 DEF Request!Range
        <5>3. QED
          BY <1>8, <5>2
      <4>2. QED
        BY <1>8, <4>1
    <3>2. QED
      BY <1>1, <3>1
  <2>2. QED
    BY <1>4, <1>5, <2>1 DEF AlignInv, Aligning, S
<1>9. CASE good # {}
  <2>1. at' \in {"encode", "again"}
    BY <1>1, <1>9
  <2>2. views' # << >>
    <3>1. PICK v \in good : v \in Request!Range(views)
      BY <1>1, <1>9
    <3>2. PICK i \in 1 .. Len(views) : views[i] = v
      BY <1>3, <3>1 DEF Request!Range
    <3>3. PICK k \in 1 .. Len(views') : views'[k] = v
      BY <1>4, <3>1, <3>2 DEF PartOf
    <3>4. QED
      BY <1>4, <3>3
  <2>3. Len(views') <= case.budget
    BY <1>3, <1>6, <1>7
  <2>4. Request!Charged(views') * Len(times) <= case.budget
    <3>1. CASE Request!Video
      BY <1>3, <3>1 DEF Request!Charged
    <3>2. CASE ~Request!Video
      <4> DEFINE x == Len(views')  y == Len(views)  len == Len(times)  b == case.budget
      <4>1. /\ Request!Charged(views') = x /\ y * len <= b /\ x \in Nat /\ y \in Nat /\ x <= y
            /\ len \in Nat /\ b \in Nat
        BY <1>3, <1>6, <1>7, <3>2 DEF Request!Charged
      <4>2. len # 0
        BY <1>3 DEF Shows
      <4> HIDE DEF x, y, len, b
      <4>3. x * len <= y * len
        BY <4>1, <4>2, Mono
      <4>4. x * len \in Int /\ y * len \in Int
        BY <4>1
      <4>5. x * len <= b
        BY <4>1, <4>3, <4>4
      <4>6. QED
        BY <4>1, <4>5 DEF len, b
    <3>3. QED
      BY <3>1, <3>2
  <2>5. QED
    BY <1>2, <1>3, <1>4, <1>5, <2>1, <2>2, <2>3, <2>4, ChargedKept DEF AlignInv, Aligning, S
<1>10. QED
  BY <1>8, <1>9

LEMMA DecodeAgainStep ==
  ASSUME case \in Cases, AlignInv, Request!DecodeAgain
  PROVE  AlignInv'
<1>1. /\ at = "again" /\ at' = "encode" /\ case' = case /\ views' = views
      /\ times' \in {times} \cup Request!Timeline(Request!Charged(views))
  BY DEF Request!DecodeAgain, Request!AlignKept
<1>2. /\ views \in Seq(Request!Range(Cameras)) /\ \A i, j \in 1 .. Len(views) : i # j => views[i] # views[j]
      /\ views # << >> /\ Len(views) <= case.budget /\ Shows(times, case.times, case.budget)
      /\ Request!Charged(views) * Len(times) <= case.budget
  BY <1>1 DEF AlignInv, Aligning
<1>3. case.budget \in Nat \ {0}
  BY CaseSound
<1>4. Request!Charged(views) \in Nat \ {0} /\ Request!Charged(views) <= case.budget
  BY <1>2, <1>3, ChargedFits
<1>5. Shows(times', case.times, case.budget) /\ Request!Charged(views) * Len(times') <= case.budget
  <2>1. CASE times' = times
    BY <1>2, <2>1
  <2>2. CASE times' # times
    <3>1. times' \in Request!Timeline(Request!Charged(views))
      BY <1>1, <2>2
    <3>2. QED
      BY <1>4, <3>1, TimelineFits
  <2>3. QED
    BY <2>1, <2>2
<1>6. QED
  BY <1>1, <1>2, <1>5, ChargedKept DEF AlignInv, Aligning

LEMMA EncodeAlignClipStep ==
  ASSUME case \in Cases, AlignInv, Request!EncodeAlignClip
  PROVE  AlignInv'
<1>1. /\ at = "encode" /\ case' = case /\ views' = views /\ times' = times
      /\ \/ ~Request!Video /\ at' = "alignsheets"
         \/ Request!Video /\ at' \in {"rebudget", "failed", "alignclip"}
  BY DEF Request!EncodeAlignClip, Request!AlignKept, Request!aligning, Request!WithoutClip
<1>2. /\ views \in Seq(Request!Range(Cameras)) /\ \A i, j \in 1 .. Len(views) : i # j => views[i] # views[j]
      /\ views # << >> /\ Len(views) <= case.budget /\ Shows(times, case.times, case.budget)
      /\ Request!Charged(views) * Len(times) <= case.budget
  BY <1>1 DEF AlignInv, Aligning
<1>3. ~Request!Video => Request!Charged(views) = Len(views)
  BY DEF Request!Charged
<1>4. QED
  BY <1>1, <1>2, <1>3, ChargedKept DEF AlignInv, Aligning

LEMMA RebudgetStep ==
  ASSUME case \in Cases, AlignInv, Request!Rebudget
  PROVE  AlignInv'
<1> DEFINE size == Request!Max({1, case.budget \div Len(views)})
<1>1. /\ at = "rebudget" /\ at' = "alignsheets" /\ case' = case /\ views' = views
      /\ times' = Request!Thinned(size)
  BY DEF Request!Rebudget, Request!AlignKept
<1>2. /\ views \in Seq(Request!Range(Cameras)) /\ \A i, j \in 1 .. Len(views) : i # j => views[i] # views[j]
      /\ views # << >> /\ Len(views) <= case.budget /\ Shows(times, case.times, case.budget)
  BY <1>1 DEF AlignInv, Aligning
<1>3. case.budget \in Nat \ {0} /\ Len(views) \in Nat \ {0}
  BY <1>2, CaseSound
<1>4. size = Request!PerView(Len(views))
  <2> DEFINE count == Len(views)
  <2>1. count \in Int /\ count >= 1
    BY <1>3
  <2> HIDE DEF count
  <2>2. Request!Max({1, count}) = count
    BY <2>1, Two
  <2>3. QED
    BY <2>2 DEF Request!PerView, count
<1> HIDE DEF size
<1>5. size \in Nat \ {0} /\ Len(views) * size <= case.budget
  BY <1>2, <1>3, <1>4, PerViewFits
<1>6. Shows(times', case.times, case.budget) /\ (Len(views) <= 1 \/ Len(times') <= size)
  BY <1>1, <1>2, <1>5, ThinnedShows
<1>7. Len(views) * Len(times') <= case.budget
  <2> DEFINE x == Len(views)  len == Len(times')  b == case.budget
  <2>1. x \in Nat \ {0} /\ len \in Nat /\ b \in Nat /\ len <= b /\ (x <= 1 \/ len <= size)
        /\ x * size <= b
    BY <1>3, <1>5, <1>6 DEF Shows
  <2> HIDE DEF x, len, b
  <2>2. CASE x <= 1
    <3>1. x = 1
      BY <2>1, <2>2
    <3>2. QED
      BY <2>1, <3>1 DEF x, len, b
  <2>3. CASE len <= size
    <3>1. len * x <= size * x
      BY <1>5, <2>1, <2>3, Mono
    <3>2. len * x = x * len /\ size * x = x * size /\ x * len \in Int /\ x * size \in Int
      BY <1>5, <2>1
    <3>3. x * len <= b
      BY <2>1, <3>1, <3>2
    <3>4. QED
      BY <3>3 DEF x, len, b
  <2>4. QED
    BY <2>1, <2>2, <2>3
<1>8. QED
  BY <1>1, <1>2, <1>6, <1>7 DEF AlignInv, Aligning

(* The other steps of an alignment end it.                                  *)
LEMMA BadAlignBlockStep ==
  ASSUME AlignInv, RequestInv, Request!BadAlignBlock
  PROVE  AlignInv'
<1>1. /\ at = "alignclip" /\ at' \in {"rebudget", "failed"} /\ case' = case /\ views' = views /\ times' = times
  BY DEF Request!BadAlignBlock, Request!AlignKept, Request!aligning, Request!WithoutClip
<1>2. Request!Video
  BY <1>1 DEF RequestInv, MediumInv, Clipped
<1>3. QED
  BY <1>1, <1>2, ChargedKept DEF AlignInv, Aligning

LEMMA OtherAlignSteps ==
  ASSUME AlignInv, at' \notin Aligning, views' = views
  PROVE  AlignInv'
BY DEF AlignInv, Aligning

-----------------------------------------------------------------------------
(* The requests of a generation, one after the other.                       *)

(* A window is asked about with frames at the full rate.                    *)
Framed(c, window, frames) ==
  IF window = None
  THEN frames >= Request!Min({Request!Wanted(Request!Whole(c.times)), Len(c.times)})
  ELSE c.budget = 1 \/ frames = Request!Wanted(window)

(* The frames of a window are at the full rate, or as many as the prompt    *)
(* takes.                                                                   *)
LEMMA FramesRight ==
  ASSUME case \in Cases, NEW k \in 1 .. Len(WindowsOf(case)),
         NEW window, window = WindowsOf(case)[k],
         NEW v, v = window \/ (window = None /\ Request!Video /\ v = Request!Whole(case.times))
  PROVE  Framed(case, window, Len(Request!ShownIn(v)))
<1> DEFINE ts == case.times
           budget == case.budget
           format == case.format
           w == WindowsOf(case)
           all == All(ts, v)
           wanted == Request!Wanted(all)
           frames == Len(Request!Samples(ts, v, budget, format))
           most == Request!Min({wanted, budget})
<1>1. ts \in Seq(Int) /\ ts # << >> /\ Rising(ts) /\ budget \in Nat \ {0}
  BY CaseSound
<1>2. /\ w \in Seq(Spanned \cup {None}) /\ w # << >>
      /\ \/ w = << None >> /\ Request!Wanted(Request!Whole(ts)) <= budget
         \/ /\ EndToEnd(w, ts)
            /\ budget = 1 \/ \A i \in 1 .. Len(w) : Request!Wanted(w[i]) <= budget
  BY WindowsSound
<1>3. /\ Request!Whole(ts) \in Spanned /\ None \notin Spanned /\ Request!Whole(ts) # None
  BY <1>1, WholeSpanned
<1>4. window \in Spanned \cup {None} /\ v \in Spanned \cup {None}
  BY <1>2, <1>3
<1>5. all \in Spanned /\ (window = None => all = Request!Whole(ts)) /\ (window # None => all = window)
  BY <1>3, <1>4 DEF All
<1>6. Sampled(ts, v, budget, format)
  <2> HIDE DEF ts, budget, format
  <2>1. QED
    BY <1>1, <1>4, SamplesSound
<1>7. wanted \in Nat \ {0}
  BY <1>5, WantedSound
<1>8. window = None \/ budget = 1 \/ wanted <= budget
  <2>1. CASE w = << None >>
    BY <2>1
  <2>2. CASE EndToEnd(w, ts) /\ budget # 1 /\ window # None
    <3>1. Request!Wanted(w[k]) <= budget
      BY <1>2, <2>2, <1>3 DEF EndToEnd
    <3>2. QED
      BY <1>5, <2>2, <3>1
  <2>3. QED
    BY <1>2, <2>1, <2>2
<1>9. window = None => wanted <= budget
  <2>1. ASSUME window = None PROVE w = << None >>
    <3>1. EndToEnd(w, ts) => w[k] \in Spanned
      BY DEF EndToEnd
    <3>2. QED
      BY <1>2, <1>3, <2>1, <3>1
  <2>2. ASSUME window = None PROVE wanted <= budget
    <3>1. Request!Wanted(Request!Whole(ts)) <= budget
      BY <1>2, <2>1, <2>2, <1>3 DEF EndToEnd
    <3>2. QED
      BY <1>5, <2>1, <2>2, <3>1
  <2>3. QED
    BY <2>2
<1> HIDE DEF wanted, w
<1>10. most = IF wanted <= budget THEN wanted ELSE budget
  <2>1. wanted \in Int /\ budget \in Int
    BY <1>1, <1>7
  <2> HIDE DEF budget
  <2>2. QED
    BY <2>1, Two
<1>11. /\ v = None /\ format = "sheet" => frames = IF most >= Len(ts) THEN Len(ts) ELSE most
       /\ ~(v = None /\ format = "sheet") => frames = most
  <2> HIDE DEF ts, budget, format
  <2>1. QED
    BY <1>6 DEF Sampled, wanted, all
<1>12. Request!Min({wanted, Len(ts)}) = IF wanted <= Len(ts) THEN wanted ELSE Len(ts)
  <2>1. wanted \in Int /\ Len(ts) \in Int
    BY <1>1, <1>7
  <2> DEFINE len == Len(ts)
  <2> HIDE DEF len
  <2>2. Request!Min({wanted, len}) = IF wanted <= len THEN wanted ELSE len
    BY <2>1, Two DEF len
  <2>3. QED
    BY <2>2 DEF len
<1>13. Len(ts) \in Nat
  BY <1>1
<1> HIDE DEF frames, most, all
<1>14. CASE window = None
  <2>1. most = wanted
    BY <1>9, <1>10, <1>14
  <2>2. frames >= Request!Min({wanted, Len(ts)})
    <3> DEFINE len == Len(ts)  low == Request!Min({wanted, len})
    <3> HIDE DEF len, low
    <3>1. /\ low = (IF wanted <= len THEN wanted ELSE len) /\ len \in Nat /\ wanted \in Nat
          /\ frames = (IF wanted >= len THEN len ELSE wanted) \/ frames = wanted
      BY <1>7, <1>11, <1>12, <1>13, <2>1 DEF len, low
    <3>2. frames >= low
      BY <3>1
    <3>3. QED
      BY <3>2 DEF low, len
  <2>3. wanted = Request!Wanted(Request!Whole(ts))
    BY <1>5, <1>14 DEF wanted
  <2>4. QED
    BY <1>14, <2>2, <2>3 DEF Framed, frames, Request!ShownIn
<1>15. CASE window # None
  <2>1. v = window /\ v # None
    BY <1>15
  <2>2. frames = most
    BY <1>11, <2>1
  <2>3. budget = 1 \/ frames = wanted
    BY <1>8, <1>10, <1>15, <2>2
  <2>4. wanted = Request!Wanted(window)
    BY <1>5, <1>15 DEF wanted
  <2>5. QED
    BY <1>15, <2>3, <2>4 DEF Framed, frames, Request!ShownIn
<1>16. QED
  BY <1>14, <1>15

-----------------------------------------------------------------------------
TaskRequest == [field |-> "task", window |-> None]

(* The windows whose subtasks were asked for are the first ones.            *)
AskedFor(k) ==
  /\ Len(asked) = k
  /\ \A j \in 1 .. k : asked[j].window = WindowsOf(case)[j] /\ Framed(case, asked[j].window, asked[j].frames)

(* The plan is ahead from its p-th request on.                              *)
Ahead(p) ==
  /\ requests = [i \in 1 .. Len(PlanOf(case)) - p |-> PlanOf(case)[p + i]]
  /\ AskedFor(p \div Per)

Generating == {"visual", "clip", "sheets"}

GenInv ==
  /\ asked \in Seq([window : Spanned \cup {None}, frames : Nat])
  /\ at \in Generating =>
       \/ requests = << TaskRequest >> /\ asked = << >>
       \/ \E p \in 0 .. Len(PlanOf(case)) - 1 : Ahead(p)
  /\ at = "clip" => Len(Request!ShownIn(Request!Now.window)) >= 2
  /\ at \in {"source", "cameras"} \cup Aligning => asked = << >>
  /\ at = "done" => asked = << >> \/ AskedFor(Len(WindowsOf(case)))

(* The plan has each window in turn, its description first if there is one. *)
LEMMA PlanShape ==
  ASSUME case \in Cases
  PROVE  /\ Len(WindowsOf(case)) \in Nat \ {0} /\ Per \in {1, 2}
         /\ Len(PlanOf(case)) = Len(WindowsOf(case)) * Per
         /\ PlanOf(case) \in Seq(Asks) /\ WindowsOf(case) \in Seq(Spanned \cup {None})
         /\ \A i \in 1 .. Len(PlanOf(case)) : PlanOf(case)[i] = AskAt(WindowsOf(case), i)
<1>1. WindowsOf(case) \in Seq(Spanned \cup {None}) /\ WindowsOf(case) # << >>
  BY WindowsSound
<1>2. Len(WindowsOf(case)) \in Nat \ {0} /\ Per \in {1, 2}
  BY <1>1 DEF Per
<1>3. PlanOf(case) \in Seq(Asks) /\ Len(PlanOf(case)) = Len(WindowsOf(case)) * Per
  BY RequestsArePlan
<1>4. \A i \in 1 .. Len(PlanOf(case)) : PlanOf(case)[i] = AskAt(WindowsOf(case), i)
  BY <1>3 DEF PlanOf
<1>5. QED
  BY <1>1, <1>2, <1>3, <1>4

(* The request that comes first, and its place in the plan.                 *)
LEMMA NowPlanned ==
  ASSUME case \in Cases, NEW p \in 0 .. Len(PlanOf(case)) - 1, Ahead(p)
  PROVE  /\ requests # << >> /\ requests \in Seq(Asks)
         /\ Request!Now = PlanOf(case)[p + 1] /\ Request!Now \in Asks
         /\ Request!Now = AskAt(WindowsOf(case), p + 1)
         /\ Len(requests) = Len(PlanOf(case)) - p
         /\ Tail(requests) = [i \in 1 .. Len(PlanOf(case)) - (p + 1) |-> PlanOf(case)[(p + 1) + i]]
<1> DEFINE plan == PlanOf(case)
           size == Len(plan) - p
<1>1. plan \in Seq(Asks) /\ Len(plan) \in Nat /\ \A i \in 1 .. Len(plan) : plan[i] = AskAt(WindowsOf(case), i)
  BY PlanShape
<1>2. requests = [i \in 1 .. size |-> plan[p + i]]
  BY DEF Ahead
<1> HIDE DEF plan
<1>9. p \in 0 .. Len(plan) - 1
  BY DEF plan
<1>3. size \in Nat \ {0} /\ \A i \in 1 .. size : p + i \in 1 .. Len(plan)
  BY <1>1, <1>9
<1>4. requests \in Seq(Asks) /\ Len(requests) = size /\ requests # << >>
  <2>1. requests \in [1 .. size -> Asks]
    BY <1>1, <1>2, <1>3
  <2>2. size \in Nat \ {0}
    BY <1>3
  <2> HIDE DEF size
  <2>3. requests \in Seq(Asks) /\ Len(requests) = size
    BY <2>1, <2>2
  <2>4. QED
    BY <2>2, <2>3
<1>5. Head(requests) = plan[p + 1]
  <2>1. Head(requests) = requests[1] /\ 1 \in 1 .. size
    BY <1>3, <1>4
  <2>2. QED
    BY <1>2, <2>1
<1>6. Request!Now = plan[p + 1]
  BY <1>5 DEF Request!Now
<1>7. p + 1 \in 1 .. Len(plan)
  BY <1>1, <1>9
<1>8. Tail(requests) = [i \in 1 .. Len(plan) - (p + 1) |-> plan[(p + 1) + i]]
  <2> DEFINE t == Tail(requests)
  <2>1. t \in Seq(Asks) /\ Len(t) = size - 1 /\ \A i \in 1 .. size - 1 : t[i] = requests[i + 1]
    BY <1>4
  <2>2. t = [i \in 1 .. size - 1 |-> t[i]]
    <3> HIDE DEF t, size
    <3>1. QED
      BY <2>1
  <2>3. \A i \in 1 .. size - 1 : requests[i + 1] = plan[(p + 1) + i]
    <3> TAKE i \in 1 .. size - 1
    <3>1. i + 1 \in 1 .. size /\ p + (i + 1) = (p + 1) + i
      BY <1>1, <1>9
    <3>2. requests[i + 1] = plan[p + (i + 1)]
      BY <1>2, <3>1
    <3>3. QED
      BY <3>1, <3>2
  <2>4. size - 1 = Len(plan) - (p + 1)
    BY <1>1, <1>9
  <2> HIDE DEF t, size
  <2>5. QED
    BY <2>1, <2>2, <2>3, <2>4 DEF t
<1>10. plan[p + 1] \in Asks /\ plan[p + 1] = AskAt(WindowsOf(case), p + 1)
  BY <1>1, <1>7
<1>11. QED
  BY <1>4, <1>6, <1>8, <1>10 DEF plan

(* The step from one place of the plan to the next.                         *)
LEMMA Places2 ==
  ASSUME NEW p \in Nat, NEW per \in {1, 2}
  PROVE  /\ (p + 1) % per = 0 => (p + 1) \div per = p \div per + 1 /\ (p + 1 + per - 1) \div per = (p + 1) \div per
         /\ (p + 1) % per # 0 => (p + 1) \div per = p \div per
         /\ p \div per \in Nat /\ (p + 1) \div per \in Nat
         /\ (p + 1 + per - 1) \div per = p \div per + 1
<1>1. CASE per = 1
  BY <1>1
<1>2. CASE per = 2
  BY <1>2
<1>3. QED
  BY <1>1, <1>2

(* A request that is answered.                                              *)
LEMMA AnsweredPlan ==
  ASSUME case \in Cases, NEW p \in 0 .. Len(PlanOf(case)) - 1, Ahead(p), case' = case,
         asked \in Seq([window : Spanned \cup {None}, frames : Nat]),
         NEW request, NEW v,
         request.field = Request!Now.field, request.window = Request!Now.window,
         v = Request!Now.window \/ (Request!Now.window = None /\ Request!Video /\ v = Request!Whole(case.times)),
         Len(request.shown) = Len(Request!ShownIn(v)), Len(request.shown) \in Nat,
         Request!Send(request), Request!Answered
  PROVE  GenInv'
<1> DEFINE plan == PlanOf(case)
           w == WindowsOf(case)
           count == Len(w)
           one == [window |-> request.window, frames |-> Len(request.shown)]
           T == [window : Spanned \cup {None}, frames : Nat]
<1>1. /\ count \in Nat \ {0} /\ Per \in {1, 2} /\ Len(plan) = count * Per
      /\ w \in Seq(Spanned \cup {None})
  BY PlanShape
<1>2. /\ requests # << >> /\ Request!Now \in Asks /\ Request!Now = AskAt(w, p + 1)
      /\ Len(requests) = Len(plan) - p
      /\ Tail(requests) = [i \in 1 .. Len(plan) - (p + 1) |-> plan[(p + 1) + i]]
  BY NowPlanned
<1>3. p \in Nat /\ p + 1 <= count * Per
  BY <1>1
<1>4. /\ (p + 1) % Per = 0 => (p + 1) \div Per = p \div Per + 1 /\ (p + 1 + Per - 1) \div Per = (p + 1) \div Per
      /\ (p + 1) % Per # 0 => (p + 1) \div Per = p \div Per
      /\ p \div Per \in Nat /\ (p + 1) \div Per \in Nat
      /\ (p + 1 + Per - 1) \div Per = p \div Per + 1
  BY <1>1, <1>3, Places2
<1>5. p \div Per + 1 \in 1 .. count
  <2>1. CASE Per = 1
    BY <1>1, <1>3, <2>1
  <2>2. CASE Per = 2
    BY <1>1, <1>3, <2>2
  <2>3. QED
    BY <1>1, <2>1, <2>2
<1>6. /\ Request!Now.window = w[p \div Per + 1]
      /\ Request!Now.field = IF (p + 1) % Per = 0 THEN "subtasks" ELSE "description"
      /\ Request!Now.window \in Spanned \cup {None}
  BY <1>2, <1>4 DEF AskAt, Asks
<1>7. asked' = IF (p + 1) % Per = 0 THEN Append(asked, one) ELSE asked
  BY <1>6 DEF Request!Send
<1>8. AskedFor(p \div Per)
  BY DEF Ahead
<1>9. Framed(case, request.window, Len(request.shown))
  <2> DEFINE k == p \div Per + 1  window == Request!Now.window
  <2>1. k \in 1 .. Len(WindowsOf(case)) /\ window = WindowsOf(case)[k]
        /\ (v = window \/ (window = None /\ Request!Video /\ v = Request!Whole(case.times)))
    BY <1>5, <1>6
  <2> HIDE DEF k, window
  <2>2. Framed(case, window, Len(Request!ShownIn(v)))
    BY <2>1, FramesRight
  <2>3. QED
    BY <2>2 DEF window
<1>10. one \in T
  BY <1>6
<1>11. asked' \in Seq(T) /\ AskedFor((p + 1) \div Per)'
  <2> HIDE DEF one, T
  <2>1. asked \in Seq(T) /\ Len(asked) = p \div Per
    BY <1>8 DEF AskedFor, T
  <2>2. CASE (p + 1) % Per = 0
    <3> DEFINE k == p \div Per
    <3>1. asked' = Append(asked, one) /\ (p + 1) \div Per = k + 1 /\ k \in Nat
      BY <1>4, <1>7, <2>2
    <3>2. /\ asked' \in Seq(T) /\ Len(asked') = k + 1 /\ asked'[k + 1] = one
          /\ \A j \in 1 .. k : asked'[j] = asked[j]
      BY <1>10, <2>1, <3>1
    <3>3. one.window = w[k + 1] /\ Framed(case, one.window, one.frames)
      BY <1>6, <1>9 DEF one
    <3>4. \A j \in 1 .. k : asked[j].window = w[j] /\ Framed(case, asked[j].window, asked[j].frames)
      BY <1>8 DEF AskedFor
    <3> HIDE DEF k, w
    <3>5. ASSUME NEW j \in 1 .. k + 1
          PROVE  asked'[j].window = w[j] /\ Framed(case, asked'[j].window, asked'[j].frames)
      <4>1. CASE j = k + 1
        BY <3>2, <3>3, <4>1
      <4>2. CASE j # k + 1
        <5>1. j \in 1 .. k
          BY <3>1, <4>2
        <5>2. QED
          BY <3>2, <3>4, <5>1
      <4>3. QED
        BY <4>1, <4>2
    <3>6. QED
      BY <3>1, <3>2, <3>5 DEF AskedFor, w, WindowsOf, Framed
  <2>3. CASE (p + 1) % Per # 0
    <3>1. asked' = asked /\ (p + 1) \div Per = p \div Per
      BY <1>4, <1>7, <2>3
    <3>2. QED
      BY <1>8, <2>1, <3>1 DEF AskedFor, WindowsOf, Framed
  <2>4. QED
    BY <2>2, <2>3
<1>12. CASE at' = "failed"
  BY <1>11, <1>12 DEF GenInv, Generating, Aligning, T
<1>13. CASE at' # "failed"
  <2>1. /\ requests' = Tail(requests)
        /\ Tail(requests) = << >> => at' = "done"
        /\ Tail(requests) # << >> => at' = "visual"
    <3>1. Request!Now.field # "task"
      BY <1>6
    <3>2. QED
      BY <1>13, <3>1 DEF Request!Answered
  <2>2. CASE Tail(requests) = << >>
    <3>1. p + 1 = Len(plan)
      <4>1. Len(Tail(requests)) = Len(requests) - 1
        <5>1. requests \in Seq(Asks)
          BY NowPlanned
        <5>2. QED
          BY <1>2, <5>1
      <4>2. Len(Tail(requests)) = 0
        <5>1. Len(<< >>) = 0
          OBVIOUS
        <5>2. QED
          BY <2>2, <5>1, Zenon
      <4>5. p \in Int
        BY <1>3
      <4>3. Len(requests) = Len(plan) - p /\ Len(plan) \in Nat
        BY <1>1, <1>2
      <4> DEFINE x == Len(Tail(requests))  y == Len(requests)  z == Len(plan)
      <4>4. x = y - 1 /\ x = 0 /\ y = z - p /\ z \in Nat
        BY <4>1, <4>2, <4>3
      <4> HIDE DEF x, y, z
      <4>6. p + 1 = z
        BY <4>4, <4>5
      <4>7. QED
        BY <4>6 DEF z
    <3>2. (p + 1) \div Per = count
      <4>1. CASE Per = 1
        BY <1>1, <3>1, <4>1
      <4>2. CASE Per = 2
        BY <1>1, <3>1, <4>2
      <4>3. QED
        BY <1>1, <4>1, <4>2
    <3>3. AskedFor(count)'
      BY <1>11, <3>2 DEF WindowsOf, AskedFor, Framed
    <3>4. QED
      BY <1>11, <2>1, <2>2, <3>3 DEF GenInv, Generating, Aligning, WindowsOf, T
  <2>3. CASE Tail(requests) # << >>
    <3>1. p + 1 \in 0 .. Len(plan) - 1
      <4>1. Len(plan) - (p + 1) # 0
        <5>1. Len(plan) - (p + 1) = 0 => Tail(requests) = << >>
          BY <1>2
        <5>2. QED
          BY <2>3, <5>1
      <4>2. Len(plan) \in Nat
        BY <1>1
      <4>3. QED
        BY <1>1, <1>3, <4>1, <4>2
    <3>2. Ahead(p + 1)'
      <4>1. PlanOf(case)' = PlanOf(case)
        BY DEF PlanOf, WindowsOf, AskAt
      <4>2. QED
        BY <1>2, <1>11, <2>1, <4>1 DEF Ahead
    <3>3. PlanOf(case)' = PlanOf(case)
      BY DEF PlanOf, WindowsOf, AskAt
    <3>4. \E q \in 0 .. Len(PlanOf(case)') - 1 : Ahead(q)'
      BY <3>1, <3>2, <3>3
    <3>5. QED
      BY <1>11, <2>1, <2>3, <3>4 DEF GenInv, Generating, Aligning, T
  <2>4. QED
    BY <2>2, <2>3
<1>14. QED
  BY <1>12, <1>13

-----------------------------------------------------------------------------
(* Each of the last two requests keeps its promises.                        *)
SentInv == \A i \in DOMAIN sent : GoodRequest(case, sent[i])

(* A good request leaves good ones only.                                    *)
LEMMA SendGood ==
  ASSUME SentInv, IsSequence(sent), NEW request, Request!Send(request), GoodRequest(case, request),
         case' = case
  PROVE  SentInv'
<1>1. sent' = LastTwo(sent, request)
  BY DEF Request!Send, LastTwo
<1>2. \A i \in DOMAIN sent' : sent'[i] = request \/ \E j \in DOMAIN sent : sent'[i] = sent[j]
  BY <1>1, SentTwo
<1>3. \A i \in DOMAIN sent' : GoodRequest(case, sent'[i])
  BY <1>2 DEF SentInv
<1>4. QED
  BY <1>3 DEF SentInv, GoodRequest, StartOf

LEMMA QuietSent ==
  ASSUME SentInv, sent' = sent, case' = case
  PROVE  SentInv'
BY DEF SentInv, GoodRequest, StartOf

LEMMA TaskShape ==
  TaskRequest.field = "task" /\ TaskRequest.window = None /\ Head(<< TaskRequest >>) = TaskRequest
BY DEF TaskRequest

(* The request that is due is that of the next window of the plan.          *)
LEMMA NowAsked ==
  ASSUME case \in Cases, GenInv, at \in Generating
  PROVE  /\ Request!Now.window \in Spanned \cup {None}
         /\ Request!Now.field \in {"task", "description", "subtasks"}
<1>1. CASE requests = << TaskRequest >>
  BY <1>1, TaskShape DEF Request!Now
<1>2. CASE \E p \in 0 .. Len(PlanOf(case)) - 1 : Ahead(p)
  <2>1. Request!Now \in Asks
    BY <1>2, NowPlanned
  <2>2. QED
    BY <2>1 DEF Asks
<1>3. QED
  BY <1>1, <1>2 DEF GenInv

(* What does not change the series of requests.                             *)
LEMMA SameSeries ==
  ASSUME GenInv, case' = case, requests' = requests, asked' = asked, at \in Generating,
         at' \in {"visual", "sheets", "failed"} \/ (at' = "clip" /\ Len(Request!ShownIn(Request!Now.window)) >= 2)
  PROVE  GenInv'
<1>1. PlanOf(case)' = PlanOf(case) /\ WindowsOf(case)' = WindowsOf(case)
  BY DEF PlanOf, WindowsOf, AskAt
<1>2. \A k : AskedFor(k)' <=> AskedFor(k)
  BY DEF AskedFor, WindowsOf, Framed
<1>3. \A p : Ahead(p)' <=> Ahead(p)
  BY <1>1, <1>2 DEF Ahead
<1>4. Request!ShownIn(Request!Now.window)' = Request!ShownIn(Request!Now.window)
  BY DEF Request!ShownIn, Request!Now
<1>5. \/ requests = << TaskRequest >> /\ asked = << >>
      \/ \E p \in 0 .. Len(PlanOf(case)) - 1 : Ahead(p)
  BY DEF GenInv
<1>6. \/ requests' = << TaskRequest >> /\ asked' = << >>
      \/ \E p \in 0 .. Len(PlanOf(case)') - 1 : Ahead(p)'
  BY <1>1, <1>3, <1>5
<1>7. QED
  BY <1>4, <1>6 DEF GenInv, Generating, Aligning

(* What is done before, between or after the series.                        *)
LEMMA NoSeries ==
  ASSUME GenInv, asked' = asked, asked = << >>, at' \notin Generating
  PROVE  GenInv'
BY DEF GenInv, Generating, Aligning

(* A series starts with nothing asked.                                      *)
LEMMA StartOfSeries ==
  ASSUME case \in Cases, GenInv, case' = case, asked' = asked, asked = << >>,
         requests' = Request!Requests, at' = "visual"
  PROVE  GenInv'
<1>1. /\ Len(WindowsOf(case)) \in Nat \ {0} /\ Per \in {1, 2}
      /\ Len(PlanOf(case)) = Len(WindowsOf(case)) * Per /\ PlanOf(case) \in Seq(Asks)
  BY PlanShape
<1>2. requests' = PlanOf(case)
  BY RequestsArePlan
<1>3. PlanOf(case)' = PlanOf(case)
  BY DEF PlanOf, WindowsOf, AskAt
<1> DEFINE plan == PlanOf(case)
<1>4. Len(plan) \in Nat \ {0}
  <2> DEFINE c == Len(WindowsOf(case))
  <2>1. c \in Nat \ {0} /\ Len(plan) = c * Per
    BY <1>1
  <2> HIDE DEF c
  <2>2. CASE Per = 1
    BY <2>1, <2>2
  <2>3. CASE Per = 2
    BY <2>1, <2>3
  <2>4. QED
    BY <1>1, <2>2, <2>3
<1>5. plan = [i \in 1 .. Len(plan) - 0 |-> plan[0 + i]]
  <2>1. plan \in Seq(Asks)
    BY <1>1
  <2> HIDE DEF plan
  <2>2. Len(plan) - 0 = Len(plan)
    BY <1>4
  <2>3. plan = [i \in 1 .. Len(plan) |-> plan[i]]
    BY <2>1
  <2>4. \A i \in 1 .. Len(plan) : 0 + i = i
    OBVIOUS
  <2>5. QED
    BY <2>2, <2>3, <2>4
<1>6. 0 \div Per = 0
  <2>1. CASE Per = 1
    BY <2>1
  <2>2. CASE Per = 2
    BY <2>2
  <2>3. QED
    BY <1>1, <2>1, <2>2
<1>7. AskedFor(0)'
  BY DEF AskedFor
<1>8. Ahead(0)'
  <2>1. requests' = [i \in 1 .. Len(plan) - 0 |-> plan[0 + i]]
    BY <1>2, <1>5
  <2>2. QED
    BY <1>3, <1>6, <1>7, <2>1 DEF Ahead
<1>9. \E p \in 0 .. Len(PlanOf(case)') - 1 : Ahead(p)'
  <2>1. 0 \in 0 .. Len(PlanOf(case)') - 1
    BY <1>3, <1>4
  <2>2. QED
    BY <1>8, <2>1
<1>10. QED
  BY <1>9 DEF GenInv, Generating, Aligning

(* A request about the task, or one of the series.                          *)
LEMMA AnsweredAny ==
  ASSUME case \in Cases, GenInv, at \in Generating, case' = case,
         NEW request, NEW v,
         request.field = Request!Now.field, request.window = Request!Now.window,
         v = Request!Now.window \/ (Request!Now.window = None /\ Request!Video /\ v = Request!Whole(case.times)),
         Len(request.shown) = Len(Request!ShownIn(v)), Len(request.shown) \in Nat,
         Request!Send(request), Request!Answered
  PROVE  GenInv'
<1>1. CASE requests = << TaskRequest >> /\ asked = << >>
  <2>1. Request!Now.field = "task"
    BY <1>1, TaskShape DEF Request!Now
  <2>2. asked' = asked
    BY <2>1 DEF Request!Send
  <2>3. at' \in {"source", "failed"}
    BY <2>1 DEF Request!Answered
  <2>4. QED
    BY <1>1, <2>2, <2>3, NoSeries DEF Generating
<1>2. CASE \E p \in 0 .. Len(PlanOf(case)) - 1 : Ahead(p)
  <2>1. PICK p \in 0 .. Len(PlanOf(case)) - 1 : Ahead(p)
    BY <1>2
  <2>2. asked \in Seq([window : Spanned \cup {None}, frames : Nat])
    BY DEF GenInv
  <2>3. QED
    BY <2>1, <2>2, AnsweredPlan
<1>3. QED
  BY <1>1, <1>2 DEF GenInv

-----------------------------------------------------------------------------
(* Each step keeps the promises of the requests.                            *)

(* Contact sheets keep their promises, on their own or for a clip.          *)
LEMMA SendSheetsStep ==
  ASSUME case \in Cases, GenInv, SentInv, IsSequence(sent), Request!SendSheets
  PROVE  GenInv' /\ SentInv'
<1> DEFINE window == Request!FallbackWindow
           shown == Request!ShownIn(window)
           labels == IF window = None THEN shown ELSE [i \in DOMAIN shown |-> shown[i] - window.from]
           sheets == Request!Sheets(shown, labels)
           request == Request!GenerationRequest("sheet", Request!Moments(sheets), Request!Badges(sheets), Request!Video)
<1>1. at = "sheets" /\ case' = case /\ Request!Send(request) /\ Request!Answered
  BY DEF Request!SendSheets, Request!GenerationKept
<1>2. Request!Now.window \in Spanned \cup {None} /\ Request!Now.field \in {"task", "description", "subtasks"}
  BY <1>1, NowAsked DEF Generating
<1>3. GoodRequest(case, request)
  <2> HIDE DEF window, shown, labels, sheets
  <2>1. Request!Now.field # "align"
    BY <1>2
  <2>2. /\ window = Request!FallbackWindow /\ shown = Request!ShownIn(window)
        /\ labels = IF window = None THEN shown ELSE [i \in DOMAIN shown |-> shown[i] - window.from]
        /\ sheets = Request!Sheets(shown, labels)
    BY DEF window, shown, labels, sheets
  <2>3. QED
    BY <1>2, <2>1, <2>2, SheetRequestGood
<1>4. SentInv'
  <2> HIDE DEF request
  <2>1. QED
    BY <1>1, <1>3, SendGood
<1>5. /\ case.times \in Seq(Int) /\ case.times # << >> /\ Rising(case.times) /\ case.budget \in Nat \ {0}
  BY CaseSound
<1>6. window \in Spanned \cup {None}
  BY <1>2, <1>5, WholeSpanned DEF Request!FallbackWindow
<1>7. shown \in Seq(Int) /\ shown # << >>
  <2> HIDE DEF window
  <2>1. Sampled(case.times, window, case.budget, case.format)
    BY <1>5, <1>6, SamplesSound
  <2>2. shown \in Seq(Int) /\ Len(shown) >= 1
    BY <2>1 DEF Request!ShownIn, Sampled
  <2>3. QED
    BY <2>2
<1>8. Request!Moments(sheets) = shown
  <2>1. labels \in Seq(Int) /\ Len(labels) = Len(shown)
    <3>1. window # None => window.from \in Int
      BY <1>6 DEF Spanned
    <3> HIDE DEF window, shown
    <3>2. DOMAIN shown = 1 .. Len(shown)
      BY <1>7
    <3>3. QED
      BY <1>7, <3>1, <3>2
  <2> HIDE DEF labels, shown
  <2>2. QED
    BY <1>7, <2>1, SheetsShow
<1>9. /\ request.field = Request!Now.field /\ request.window = Request!Now.window
      /\ request.shown = Request!Moments(sheets)
  BY DEF Request!GenerationRequest
<1>10. window = Request!Now.window \/ (Request!Now.window = None /\ Request!Video /\ window = Request!Whole(case.times))
  BY DEF Request!FallbackWindow
<1>11. Len(request.shown) = Len(Request!ShownIn(window)) /\ Len(request.shown) \in Nat
  BY <1>7, <1>8, <1>9
<1>12. GenInv'
  <2> HIDE DEF request, window
  <2>1. at \in Generating
    BY <1>1 DEF Generating
  <2>2. QED
    BY <1>1, <1>9, <1>10, <1>11, <2>1, AnsweredAny
<1>13. QED
  BY <1>4, <1>12

(* So does a clip.                                                          *)
LEMMA SendClipStep ==
  ASSUME case \in Cases, GenInv, SentInv, RequestInv, Request!SendClip
  PROVE  GenInv' /\ SentInv'
<1> DEFINE window == Request!Now.window
           shown == Request!ShownIn(window)
           request == Request!GenerationRequest("video", shown, Request!ClipTimes(shown), TRUE)
<1>1. at = "clip" /\ case' = case /\ Request!Send(request) /\ Request!Answered
  BY DEF Request!SendClip, Request!GenerationKept
<1>2. window \in Spanned \cup {None} /\ Request!Now.field \in {"task", "description", "subtasks"}
  BY <1>1, NowAsked DEF Generating
<1>3. Request!Video /\ IsSequence(sent) /\ Len(shown) >= 2
  BY <1>1 DEF RequestInv, MediumInv, Clipped, GenInv
<1>4. GoodRequest(case, request)
  <2> DEFINE s == shown
  <2>1. Request!Now.field # "align" /\ s = Request!ShownIn(Request!Now.window) /\ Len(s) >= 2
    BY <1>2, <1>3
  <2> HIDE DEF s
  <2>2. GoodRequest(case, Request!GenerationRequest("video", s, Request!ClipTimes(s), TRUE))
    BY <1>2, <1>3, <2>1, ClipRequestGood
  <2>3. QED
    BY <2>2 DEF s
<1>5. /\ request.field = Request!Now.field /\ request.window = window /\ request.shown = shown
  BY DEF Request!GenerationRequest
<1>6. shown \in Seq(Int)
  BY <1>4, <1>5 DEF GoodRequest
<1> HIDE DEF request
<1>7. SentInv'
  BY <1>1, <1>3, <1>4, SendGood
<1>8. Len(request.shown) = Len(Request!ShownIn(window)) /\ Len(request.shown) \in Nat
  BY <1>5, <1>6
<1>9. GenInv'
  <2> HIDE DEF window
  <2>1. at \in Generating /\ window = Request!Now.window
    BY <1>1 DEF Generating, window
  <2>2. QED
    BY <1>1, <1>5, <1>8, <2>1, AnsweredAny
<1>10. QED
  BY <1>7, <1>9

-----------------------------------------------------------------------------
LEMMA ClipTimesSound ==
  ASSUME NEW q \in Seq(Int), q # << >>
  PROVE  /\ Request!ClipTimes(q) \in Seq(Int) /\ Len(Request!ClipTimes(q)) = Len(q)
         /\ Request!Even(q) => \A i \in 1 .. Len(q) : Request!ClipTimes(q)[i] + Head(q) = q[i]
<1>1. Len(q) \in Nat \ {0} /\ Head(q) = q[1] /\ q[1] \in Int /\ q[Len(q)] \in Int
  OBVIOUS
<1>2. CASE Len(q) = 1
  <2>1. Request!ClipTimes(q) = << 0 >>
    BY <1>2 DEF Request!ClipTimes
  <2>2. << 0 >> \in Seq(Int) /\ Len(<< 0 >>) = 1 /\ << 0 >>[1] = 0
    OBVIOUS
  <2>3. 0 + q[1] = q[1]
    BY <1>1
  <2>4. \A i \in 1 .. Len(q) : i = 1
    BY <1>2
  <2>5. QED
    BY <1>1, <1>2, <2>1, <2>2, <2>3, <2>4
<1>3. CASE Len(q) # 1
  <2> DEFINE size == Len(q)  far == q[Len(q)] - q[1]
  <2>6. far \in Int
    BY <1>1
  <2>7. size \in Nat \ {0} /\ size # 1
    BY <1>1, <1>3
  <2>1. size \in Nat /\ size >= 2 /\ far \in Int
    <3> HIDE DEF size, far
    <3>1. QED
      BY <2>6, <2>7
  <2>2. Request!ClipTimes(q) = Request!Grid(0, far, size)
    BY <1>1, <1>3 DEF Request!ClipTimes, Request!Last
  <2>3. Request!Grid(0, far, size) \in Seq(Int) /\ Len(Request!Grid(0, far, size)) = size
    <3> HIDE DEF size, far
    <3>1. QED
      BY <2>1, GridSound
  <2>4. ASSUME Request!Even(q) PROVE \A i \in 1 .. Len(q) : Request!ClipTimes(q)[i] + Head(q) = q[i]
    <3> DEFINE from == q[1]  to == q[Len(q)]
    <3>1. Len(q) >= 2 /\ q = Request!Grid(from, to, Len(q))
      BY <2>1, <2>4, EvenIsGrid
    <3>2. from \in Int /\ to \in Int /\ Head(q) = from
      BY <1>1
    <3> HIDE DEF from, to
    <3>3. QED
      BY <3>1, <3>2, ClipLabels
  <2> HIDE DEF size, far
  <2>5. QED
    BY <2>2, <2>3, <2>4 DEF size
<1>4. QED
  BY <1>2, <1>3

(* And a clip of an alignment.                                              *)
LEMMA SendAlignClipStep ==
  ASSUME case \in Cases, AlignInv, GenInv, SentInv, RequestInv, Request!SendAlignClip
  PROVE  GenInv' /\ SentInv'
<1> DEFINE request == Request!AlignRequest("video", times, Request!ClipTimes(times), Head(times))
<1>1. at = "alignclip" /\ at' \in {"done", "failed"} /\ case' = case /\ Request!Send(request)
  BY DEF Request!SendAlignClip, Request!AlignKept
<1>2. views # << >> /\ Shows(times, case.times, case.budget) /\ views \in Seq(Request!Range(Cameras))
  BY <1>1 DEF AlignInv, Aligning
<1>3. /\ request.field = "align" /\ request.kind = "video" /\ request.views = Len(views)
      /\ request.shown = times /\ request.labels = Request!ClipTimes(times) /\ request.origin = Head(times)
  BY DEF Request!AlignRequest
<1> HIDE DEF request
<1>4. times \in Seq(Int) /\ times # << >> /\ Len(times) <= case.budget /\ Rising(times)
      /\ times[1] = case.times[1] /\ (Len(times) > 1 => times[Len(times)] = case.times[Len(case.times)])
  BY <1>2 DEF Shows
<1>5. /\ Request!ClipTimes(times) \in Seq(Int) /\ Len(Request!ClipTimes(times)) = Len(times)
      /\ Request!Even(times) => \A i \in 1 .. Len(times) : Request!ClipTimes(times)[i] + Head(times) = times[i]
  BY <1>4, ClipTimesSound
<1>6. Len(views) \in Nat /\ Len(views) >= 1
  BY <1>2
<1>7. GoodRequest(case, request)
  <2>4. request.origin \in Int
    BY <1>3, <1>4
  <2>1. Request!Even(request.shown) => Rightly(request)
    BY <1>3, <1>5 DEF Rightly
  <2>2. request.kind # "sheet"
    BY <1>3
  <2>3. QED
    BY <1>3, <1>4, <1>5, <1>6, <2>1, <2>2, <2>4 DEF GoodRequest
<1>8. SentInv'
  BY <1>1, <1>7, SendGood DEF RequestInv
<1>9. asked' = asked /\ asked = << >>
  BY <1>1, <1>3 DEF Request!Send, GenInv, Aligning
<1>10. GenInv'
  BY <1>1, <1>9, NoSeries DEF Generating
<1>11. QED
  BY <1>8, <1>10

(* And the contact sheets of an alignment, thinned or not.                  *)
LEMMA SendAlignSheetsStep ==
  ASSUME case \in Cases, AlignInv, GenInv, SentInv, RequestInv, Request!SendAlignSheets
  PROVE  GenInv' /\ SentInv'
<1> DEFINE sheets == Request!Sheets(times, times)
           request == Request!AlignRequest("sheet", Request!Moments(sheets), Request!Badges(sheets), 0)
<1>1. /\ at = "alignsheets" /\ at' \in {"done", "failed"} /\ case' = case
      /\ Request!Send(request) \/ (sent' = sent /\ asked' = asked)
  BY DEF Request!SendAlignSheets, Request!AlignKept, Request!history
<1>2. /\ views # << >> /\ Shows(times, case.times, case.budget) /\ views \in Seq(Request!Range(Cameras))
      /\ Len(views) * Len(times) <= case.budget
  BY <1>1 DEF AlignInv, Aligning
<1>4. times \in Seq(Int) /\ times # << >> /\ Len(times) <= case.budget /\ Rising(times)
      /\ times[1] = case.times[1] /\ (Len(times) > 1 => times[Len(times)] = case.times[Len(case.times)])
  BY <1>2 DEF Shows
<1>5. Request!Moments(sheets) = times /\ Request!Badges(sheets) = times
  BY <1>4, SheetsShow
<1>3. /\ request.field = "align" /\ request.kind = "sheet" /\ request.views = Len(views)
      /\ request.shown = times /\ request.labels = times /\ request.origin = 0
  BY <1>5 DEF Request!AlignRequest
<1> HIDE DEF request
<1>6. Len(views) \in Nat /\ Len(views) >= 1
  BY <1>2
<1>7. GoodRequest(case, request)
  <2>1. Rightly(request)
    <3>1. \A i \in 1 .. Len(times) : times[i] \in Int /\ times[i] + 0 = times[i]
      BY <1>4
    <3>2. QED
      BY <1>3, <3>1 DEF Rightly
  <2>2. request.kind # "video" /\ request.origin \in Int
    BY <1>3
  <2>3. QED
    BY <1>2, <1>3, <1>4, <1>6, <2>1, <2>2 DEF GoodRequest
<1>8. asked = << >>
  BY <1>1 DEF GenInv, Aligning
<1>9. CASE Request!Send(request)
  <2>1. SentInv'
    BY <1>1, <1>7, <1>9, SendGood DEF RequestInv
  <2>2. asked' = asked
    BY <1>3, <1>9 DEF Request!Send
  <2>3. QED
    BY <1>1, <1>8, <2>1, <2>2, NoSeries DEF Generating
<1>10. CASE sent' = sent /\ asked' = asked
  <2>1. SentInv'
    BY <1>1, <1>10, QuietSent
  <2>2. QED
    BY <1>1, <1>8, <1>10, <2>1, NoSeries DEF Generating
<1>11. QED
  BY <1>1, <1>9, <1>10

(* The steps before, between and after the requests.                        *)
LEMMA QuietSteps ==
  ASSUME case \in Cases, GenInv, SentInv, RequestInv,
         \/ Request!Given \/ Request!Generate \/ Request!Import
         \/ Request!EncodeClip \/ Request!DecodeFails \/ Request!BadBlock \/ Request!ToSheets
         \/ Request!ChooseCameras \/ Request!DecodeViews \/ Request!DecodeAgain
         \/ Request!EncodeAlignClip \/ Request!BadAlignBlock \/ Request!Rebudget
  PROVE  GenInv' /\ SentInv'
<1> USE DEF Request!history, Request!GenerationKept, Request!AlignKept
<1>1. case' = case /\ sent' = sent /\ asked' = asked
  BY DEF Request!Given, Request!Generate, Request!Import, Request!EncodeClip, Request!DecodeFails,
         Request!BadBlock, Request!ToSheets, Request!ChooseCameras, Request!DecodeViews,
         Request!DecodeAgain, Request!EncodeAlignClip, Request!BadAlignBlock, Request!Rebudget
<1>2. SentInv'
  BY <1>1, QuietSent
<1>3. CASE Request!Given
  <2>1. asked = << >> /\ at' \notin Generating
    BY <1>3 DEF Request!Given, GenInv, Generating
  <2>2. QED
    BY <1>1, <1>2, <2>1, NoSeries
<1>4. CASE Request!Generate
  <2>1. asked = << >> /\ at' = "visual" /\ requests' = Request!Requests
    BY <1>4 DEF Request!Generate, GenInv
  <2>2. QED
    BY <1>1, <1>2, <2>1, StartOfSeries
<1>5. CASE Request!Import
  <2>1. asked = << >>
    BY <1>5 DEF Request!Import, GenInv
  <2>2. \/ at' = "done"
        \/ at' = "visual" /\ requests' = Request!Requests
    BY <1>5 DEF Request!Import, Request!NothingFound
  <2>3. QED
    BY <1>1, <1>2, <2>1, <2>2, StartOfSeries, NoSeries DEF Generating
<1>6. CASE Request!EncodeClip \/ Request!DecodeFails \/ Request!BadBlock \/ Request!ToSheets
  <2>1. /\ at \in Generating /\ requests' = requests
        /\ at' \in {"visual", "sheets", "failed"} \/ (at' = "clip" /\ Len(Request!ShownIn(Request!Now.window)) >= 2)
    BY <1>6 DEF Request!EncodeClip, Request!DecodeFails, Request!BadBlock, Request!ToSheets,
                Request!WithoutClip, Generating
  <2>2. QED
    BY <1>1, <1>2, <2>1, SameSeries
<1>7. CASE \/ Request!ChooseCameras \/ Request!DecodeViews \/ Request!DecodeAgain
           \/ Request!EncodeAlignClip \/ Request!BadAlignBlock \/ Request!Rebudget
  <2>1. at \in {"cameras"} \cup Aligning
    BY <1>7 DEF Request!ChooseCameras, Request!DecodeViews, Request!DecodeAgain,
                Request!EncodeAlignClip, Request!BadAlignBlock, Request!Rebudget, Aligning
  <2>2. at' \notin Generating
    <3>1. CASE Request!DecodeViews
      BY <3>1 DEF Request!DecodeViews, Generating
    <3>2. CASE ~Request!DecodeViews
      BY <1>7, <3>2 DEF Request!ChooseCameras, Request!DecodeAgain, Request!EncodeAlignClip,
                 Request!BadAlignBlock, Request!Rebudget, Request!WithoutClip, Generating
    <3>3. QED
      BY <3>1, <3>2
  <2>3. QED
    BY <1>1, <1>2, <2>1, <2>2, NoSeries DEF GenInv
<1>8. QED
  BY <1>3, <1>4, <1>5, <1>6, <1>7

-----------------------------------------------------------------------------
States ==
  {"source", "visual", "clip", "sheets", "cameras", "decode", "again", "encode",
   "alignclip", "rebudget", "alignsheets", "done", "failed"}

(* All about the requests of an episode.                                    *)
SeeInv ==
  /\ case \in Cases /\ at \in States
  /\ RequestInv /\ AlignInv /\ GenInv /\ SentInv

LEMMA SeeInit == EpisodeInit => SeeInv
<1> SUFFICES ASSUME EpisodeInit PROVE SeeInv
  OBVIOUS
<1>1. /\ case \in Cases /\ at = "visual" /\ sent = << >> /\ asked = << >> /\ views = << >>
      /\ requests = << TaskRequest >>
  BY DEF EpisodeInit, Request!Init, TaskRequest
<1>2. RequestInv
  BY RequestInit
<1>3. AlignInv
  <2>1. << >> \in Seq(Request!Range(Cameras)) /\ Len(<< >>) = 0
    OBVIOUS
  <2>2. QED
    BY <1>1, <2>1 DEF AlignInv, Aligning
<1>4. GenInv
  <2>1. << >> \in Seq([window : Spanned \cup {None}, frames : Nat])
    OBVIOUS
  <2>2. QED
    BY <1>1, <2>1 DEF GenInv, Generating, Aligning
<1>5. SentInv
  BY <1>1 DEF SentInv
<1>6. QED
  BY <1>1, <1>2, <1>3, <1>4, <1>5 DEF SeeInv, States

LEMMA SeeStates == at \in States /\ Request!Work => at' \in States
<1> SUFFICES ASSUME at \in States, Request!Work PROVE at' \in States
  OBVIOUS
<1> USE DEF States
<1>1. CASE Request!SendClip \/ Request!SendSheets
  BY <1>1 DEF Request!SendClip, Request!SendSheets, Request!Answered
<1>2. CASE Request!DecodeViews
  BY <1>2 DEF Request!DecodeViews
<1>3. CASE Request!Import \/ Request!Given \/ Request!Generate
  BY <1>3 DEF Request!Import, Request!NothingFound, Request!Given, Request!Generate
<1>4. CASE Request!EncodeClip \/ Request!DecodeFails \/ Request!BadBlock \/ Request!ToSheets
  BY <1>4 DEF Request!EncodeClip, Request!DecodeFails, Request!BadBlock, Request!ToSheets, Request!WithoutClip
<1>5. CASE \/ Request!ChooseCameras \/ Request!DecodeAgain \/ Request!EncodeAlignClip
           \/ Request!BadAlignBlock \/ Request!Rebudget \/ Request!SendAlignClip \/ Request!SendAlignSheets
  BY <1>5 DEF Request!ChooseCameras, Request!DecodeAgain, Request!EncodeAlignClip, Request!BadAlignBlock,
              Request!Rebudget, Request!SendAlignClip, Request!SendAlignSheets, Request!WithoutClip
<1>6. QED
  BY <1>1, <1>2, <1>3, <1>4, <1>5 DEF Request!Work

(* A step of the requests keeps the invariant.                              *)
LEMMA SeeStep ==
  ASSUME SeeInv, Request!Work, See
  PROVE  SeeInv'
<1>1. case \in Cases /\ at \in States /\ RequestInv /\ AlignInv /\ GenInv /\ SentInv
  BY DEF SeeInv
<1>2. at' \in States
  BY <1>1, SeeStates
<1>3. RequestInv'
  BY <1>1, RequestStep DEF EpisodeNext
<1>4. case' = case
  BY DEF Request!Work, Request!Given, Request!Generate, Request!Import, Request!EncodeClip, Request!DecodeFails,
         Request!BadBlock, Request!ToSheets, Request!ChooseCameras, Request!DecodeViews, Request!SendClip,
         Request!DecodeAgain, Request!EncodeAlignClip, Request!BadAlignBlock, Request!Rebudget, Request!SendSheets,
         Request!SendAlignClip, Request!SendAlignSheets, Request!GenerationKept, Request!AlignKept
<1>5. GenInv' /\ SentInv'
  <2>1. IsSequence(sent)
    BY <1>1 DEF RequestInv
  <2>2. QED
    BY <1>1, <2>1, QuietSteps, SendSheetsStep, SendClipStep, SendAlignClipStep, SendAlignSheetsStep DEF Request!Work
<1>6. AlignInv'
  <2>1. CASE Request!ChooseCameras \/ Request!DecodeViews \/ Request!DecodeAgain
    BY <1>1, <2>1, ChooseCamerasStep, DecodeViewsStep, DecodeAgainStep
  <2>2. CASE Request!EncodeAlignClip \/ Request!BadAlignBlock \/ Request!Rebudget
    BY <1>1, <2>2, EncodeAlignClipStep, BadAlignBlockStep, RebudgetStep
  <2>3. CASE Request!SendAlignClip \/ Request!SendAlignSheets
    <3>1. at' \notin Aligning /\ views' = views
      BY <2>3 DEF Request!SendAlignClip, Request!SendAlignSheets, Request!aligning, Aligning
    <3>2. QED
      BY <1>1, <3>1, OtherAlignSteps
  <2>4. CASE \/ Request!EncodeClip \/ Request!DecodeFails \/ Request!BadBlock \/ Request!ToSheets
             \/ Request!SendClip \/ Request!SendSheets
    <3>1. views' = views
      BY <2>4 DEF Request!EncodeClip, Request!DecodeFails, Request!BadBlock, Request!ToSheets,
                  Request!SendClip, Request!SendSheets, Request!GenerationKept, Request!aligning
    <3>2. at' \notin Aligning
      BY <2>4 DEF Request!EncodeClip, Request!DecodeFails, Request!BadBlock, Request!ToSheets,
                  Request!SendClip, Request!SendSheets, Request!Answered, Request!WithoutClip, Aligning
    <3>3. QED
      BY <1>1, <3>1, <3>2, OtherAlignSteps
  <2>5. CASE Request!Given \/ Request!Generate \/ Request!Import
    <3>1. views' = views /\ at' \notin Aligning
      BY <2>5 DEF Request!Given, Request!Generate, Request!Import, Request!NothingFound, Request!aligning, Aligning
    <3>2. QED
      BY <1>1, <3>1, OtherAlignSteps
  <2>6. QED
    BY <2>1, <2>2, <2>3, <2>4, <2>5 DEF Request!Work
<1>7. QED
  BY <1>1, <1>2, <1>3, <1>4, <1>5, <1>6 DEF SeeInv

LEMMA ForgetStep ==
  ASSUME SeeInv, Place
  PROVE  SeeInv'
<1>1. /\ at' = "done" /\ case' = Any /\ sent' = << >> /\ asked' = << >> /\ views' = << >>
  BY DEF Place, Forget
<1>2. Any \in Cases
  BY StepAssumption DEF Any
<1>3. RequestInv'
  BY RequestStep DEF SeeInv, EpisodeNext
<1>4. AlignInv'
  <2>1. << >> \in Seq(Request!Range(Cameras)) /\ Len(<< >>) = 0
    OBVIOUS
  <2>2. QED
    BY <1>1, <2>1 DEF AlignInv, Aligning
<1>5. GenInv'
  <2>1. << >> \in Seq([window : Spanned \cup {None}, frames : Nat])
    OBVIOUS
  <2>2. QED
    BY <1>1, <2>1 DEF GenInv, Generating, Aligning
<1>6. SentInv'
  BY <1>1 DEF SentInv
<1>7. QED
  BY <1>1, <1>2, <1>3, <1>4, <1>5, <1>6 DEF SeeInv, States

LEMMA StillSee ==
  ASSUME SeeInv, UNCHANGED << visual, vars >>
  PROVE  SeeInv'
<1>1. /\ case' = case /\ at' = at /\ requests' = requests /\ sent' = sent /\ asked' = asked
      /\ views' = views /\ times' = times
  BY DEF visual
<1>2. RequestInv'
  BY RequestStep DEF SeeInv
<1>3. AlignInv'
  BY <1>1, ChargedKept DEF SeeInv, AlignInv
<1>4. SentInv'
  BY <1>1, QuietSent DEF SeeInv
<1>5. GenInv'
  <2>1. CASE at \in Generating
    <3>1. at \in {"visual", "sheets", "failed"} \/ (at = "clip" /\ Len(Request!ShownIn(Request!Now.window)) >= 2)
      BY <2>1 DEF Generating, SeeInv, GenInv
    <3>2. QED
      BY <1>1, <2>1, <3>1, SameSeries DEF SeeInv
  <2>2. CASE at \notin Generating
    <3>1. \A k : AskedFor(k)' <=> AskedFor(k)
      BY <1>1 DEF AskedFor, WindowsOf, Framed
    <3>2. WindowsOf(case)' = WindowsOf(case)
      BY <1>1 DEF WindowsOf
    <3>3. QED
      BY <1>1, <2>2, <3>1, <3>2 DEF SeeInv, GenInv, Generating
  <2>3. QED
    BY <2>1, <2>2
<1>6. QED
  BY <1>1, <1>2, <1>3, <1>4, <1>5 DEF SeeInv

(* The invariant is inductive.                                              *)
LEMMA SeeNext == SeeInv /\ [EpisodeNext]_<< visual, vars >> => SeeInv'
<1>1. See => Request!Work
  BY DEF See
<1>2. QED
  BY <1>1, SeeStep, ForgetStep, StillSee DEF EpisodeNext

-----------------------------------------------------------------------------
(* What the promises of the requests amount to.                             *)

LEMMA SentIsGood ==
  ASSUME SeeInv, NEW r \in Request!Requested
  PROVE  GoodRequest(case, r)
BY DEF SeeInv, SentInv, Request!Requested, Request!Range

LEMMA RisingIncreases ==
  ASSUME NEW q \in Seq(Int), Rising(q)
  PROVE  Request!Increasing(q)
<1>1. ASSUME NEW i \in 1 .. Len(q) - 1 PROVE q[i] < q[i + 1]
  <2>1. i \in 1 .. Len(q) /\ i + 1 \in 1 .. Len(q) /\ i < i + 1
    OBVIOUS
  <2>2. QED
    BY <2>1 DEF Rising
<1>2. QED
  BY <1>1 DEF Request!Increasing

(* The invariant gives medium and budget.                                   *)
LEMMA InvIsSound == SeeInv => Request!RequestSound
<1> SUFFICES ASSUME SeeInv PROVE Request!RequestSound
  OBVIOUS
<1>1. case \in Cases /\ at \in States /\ RequestInv /\ AlignInv /\ GenInv /\ SentInv
  BY DEF SeeInv
<1>2. clips - leaked \in {0, 1} /\ leaked \in Nat
  <2>1. ClipInv
    BY <1>1 DEF RequestInv
  <2>2. QED
    BY <2>1 DEF ClipInv, Clipped, Sheeted
<1>3. Request!Range(views) \subseteq Request!Range(Cameras) /\ Request!IsInjective(views)
  <2>1. /\ views \in Seq(Request!Range(Cameras))
        /\ \A i, j \in 1 .. Len(views) : i # j => views[i] # views[j]
    BY <1>1 DEF AlignInv
  <2> DEFINE S == Request!Range(Cameras)
  <2>2. \A i \in DOMAIN views : views[i] \in S
    <3> HIDE DEF S
    <3>1. views \in Seq(S)
      BY <2>1 DEF S
    <3>2. QED
      BY <3>1
  <2>3. DOMAIN views = 1 .. Len(views)
    BY <2>1
  <2> HIDE DEF S
  <2>4. Request!Range(views) \subseteq S
    BY <2>2 DEF Request!Range
  <2>5. Request!IsInjective(views)
    BY <2>1, <2>3 DEF Request!IsInjective
  <2>6. QED
    BY <2>4, <2>5 DEF S
<1>4. at \in {"decode", "encode", "alignsheets"} => views # << >> /\ times # << >>
  BY <1>1 DEF AlignInv, Aligning, Shows
<1>5. Request!TypeOK
  BY <1>1, <1>2, <1>3, <1>4 DEF Request!TypeOK, States
<1>6. Request!VideoContract
  <2>1. Request!NeverSubstituted
    BY <1>1 DEF RequestInv
  <2>2. \A r \in Request!Requested : r.shown # << >> /\ Len(r.labels) = Len(r.shown) /\ r.views >= 1
    BY SentIsGood DEF GoodRequest
  <2>3. QED
    BY <2>1, <2>2 DEF Request!VideoContract
<1>7. Request!BudgetKept
  BY SentIsGood DEF GoodRequest, Request!BudgetKept
<1>8. QED
  BY <1>5, <1>6, <1>7 DEF Request!RequestSound

(* It gives the times.                                                      *)
LEMMA InvTellsTimes == SeeInv => Request!TimesTrue
<1> SUFFICES ASSUME SeeInv PROVE Request!TimesTrue
  OBVIOUS
<1>1. ASSUME NEW r \in Request!Requested, r.field = "align" /\ r.kind = "video" => Request!Even(r.shown)
      PROVE  \A i \in DOMAIN r.shown : r.labels[i] + r.origin = r.shown[i]
  <2>1. GoodRequest(case, r)
    BY SentIsGood
  <2>2. Rightly(r) /\ r.shown \in Seq(Int)
    BY <1>1, <2>1 DEF GoodRequest
  <2>3. DOMAIN r.shown = 1 .. Len(r.shown)
    BY <2>2
  <2>4. QED
    BY <2>2, <2>3 DEF Rightly
<1>2. ASSUME NEW q \in Request!Requested, NEW r \in Request!Requested,
             q.window = r.window, {q.field, r.field} = {"description", "subtasks"}
      PROVE  q.shown[1] - q.labels[1] = r.shown[1] - r.labels[1]
  <2>1. ASSUME NEW s \in Request!Requested, s.field # "align"
        PROVE  s.shown[1] - s.labels[1] = StartOf(case, s.window)
    <3>1. GoodRequest(case, s)
      BY SentIsGood
    <3>2. /\ s.shown \in Seq(Int) /\ s.shown # << >> /\ s.labels \in Seq(Int) /\ Len(s.labels) = Len(s.shown)
          /\ Rightly(s) /\ s.origin = StartOf(case, s.window)
      BY <2>1, <3>1 DEF GoodRequest
    <3>3. 1 \in 1 .. Len(s.shown) /\ s.shown[1] \in Int /\ s.labels[1] \in Int
      <4> DEFINE a == s.shown  b == s.labels
      <4>1. a \in Seq(Int) /\ a # << >> /\ b \in Seq(Int) /\ Len(b) = Len(a)
        BY <3>2
      <4> HIDE DEF a, b
      <4>2. 1 \in 1 .. Len(a) /\ a[1] \in Int /\ b[1] \in Int
        BY <4>1
      <4>3. QED
        BY <4>2 DEF a, b
    <3>4. s.labels[1] + s.origin = s.shown[1]
      BY <3>2, <3>3 DEF Rightly
    <3>5. s.origin \in Int
      BY <3>1 DEF GoodRequest
    <3>6. QED
      BY <3>2, <3>3, <3>4, <3>5
  <2>2. q.field # "align" /\ r.field # "align"
    BY <1>2
  <2>3. QED
    BY <1>2, <2>1, <2>2
<1>3. QED
  BY <1>1, <1>2 DEF Request!TimesTrue, Request!RightPlace, Request!SameTimeline

-----------------------------------------------------------------------------
(* It gives the ends of an alignment.                                       *)
LEMMA InvSeesEnds == SeeInv => Request!SeesTheEnds
<1> SUFFICES ASSUME SeeInv, NEW r \in Request!Requested
             PROVE  /\ Request!Increasing(r.shown)
                    /\ r.field = "align" /\ Len(r.shown) > 1 =>
                         Head(r.shown) = Request!First /\ Request!Last(r.shown) = Request!Last(case.times)
  BY DEF Request!SeesTheEnds
<1>1. GoodRequest(case, r)
  BY SentIsGood
<1> DEFINE q == r.shown
<1>2. q \in Seq(Int) /\ q # << >> /\ Rising(q)
  BY <1>1 DEF GoodRequest
<1>3. Request!Increasing(q)
  <2> HIDE DEF q
  <2>1. QED
    BY <1>2, RisingIncreases
<1>4. case.times \in Seq(Int) /\ case.times # << >>
  BY CaseSound DEF SeeInv
<1>5. Request!First = case.times[1] /\ Request!Last(case.times) = case.times[Len(case.times)]
  BY <1>4 DEF Request!First, Request!Last
<1>6. Head(q) = q[1] /\ Request!Last(q) = q[Len(q)]
  <2> HIDE DEF q
  <2>1. QED
    BY <1>2 DEF Request!Last
<1>7. ASSUME r.field = "align", Len(q) > 1 PROVE q[1] = case.times[1] /\ q[Len(q)] = case.times[Len(case.times)]
  BY <1>1, <1>7 DEF GoodRequest
<1>8. QED
  BY <1>3, <1>5, <1>6, <1>7

(* It gives the cover of a series that is done.                             *)
LEMMA InvCovers == SeeInv => Request!WindowsCover
<1> SUFFICES ASSUME SeeInv, at = "done", asked # << >>
             PROVE  IF asked[1].window = None
                    THEN Len(asked) = 1 /\ asked[1].frames >= Request!Min({Request!Wanted(Request!Whole(case.times)), Len(case.times)})
                    ELSE /\ asked[1].window.from = Request!First /\ Request!Last(asked).window.to = Request!Last(case.times)
                         /\ \A k \in 1 .. Len(asked) - 1 : asked[k].window.to = asked[k + 1].window.from
                         /\ \A k \in DOMAIN asked : case.budget = 1 \/ asked[k].frames = Request!Wanted(asked[k].window)
  BY DEF Request!WindowsCover
<1> DEFINE w == WindowsOf(case)
           ts == case.times
           count == Len(w)
<1>1. /\ ts \in Seq(Int) /\ ts # << >>
      /\ Request!First = ts[1] /\ Request!Last(ts) = ts[Len(ts)]
  <2>1. ts \in Seq(Int) /\ ts # << >>
    BY CaseSound DEF SeeInv
  <2>2. QED
    BY <2>1 DEF Request!First, Request!Last
<1>2. /\ w \in Seq(Spanned \cup {None}) /\ w # << >>
      /\ w = << None >> \/ EndToEnd(w, ts)
  BY WindowsSound DEF SeeInv
<1>3. /\ Len(asked) = count
      /\ \A j \in 1 .. count : asked[j].window = w[j] /\ Framed(case, asked[j].window, asked[j].frames)
      /\ asked \in Seq([window : Spanned \cup {None}, frames : Nat])
  BY DEF SeeInv, GenInv, AskedFor
<1>4. count \in Nat \ {0} /\ None \notin Spanned
  BY <1>1, <1>2, WholeSpanned
<1>5. DOMAIN asked = 1 .. count /\ Request!Last(asked) = asked[count] /\ 1 \in 1 .. count /\ count \in 1 .. count
  BY <1>3, <1>4 DEF Request!Last
<1> HIDE DEF w, ts, count
<1>6. CASE w = << None >>
  <2>1. count = 1 /\ w[1] = None
    BY <1>6 DEF count
  <2>2. asked[1].window = None /\ Framed(case, asked[1].window, asked[1].frames)
    BY <1>3, <1>5, <2>1
  <2>3. QED
    BY <1>3, <2>1, <2>2 DEF Framed
<1>7. CASE EndToEnd(w, ts)
  <2>1. /\ w \in Seq(Spanned) /\ w[1].from = ts[1] /\ w[count].to = ts[Len(ts)]
        /\ \A k \in 1 .. count - 1 : w[k].to = w[k + 1].from
    BY <1>7 DEF EndToEnd, count
  <2>2. \A k \in 1 .. count : asked[k].window # None /\ asked[k].window = w[k]
    BY <1>3, <1>4, <2>1 DEF count
  <2>3. asked[1].window.from = ts[1] /\ asked[count].window.to = ts[Len(ts)]
    BY <1>5, <2>1, <2>2
  <2>4. \A k \in 1 .. count - 1 : asked[k].window.to = asked[k + 1].window.from
    <3>1. \A k \in 1 .. count - 1 : k \in 1 .. count /\ k + 1 \in 1 .. count
      BY <1>4
    <3>2. QED
      BY <2>1, <2>2, <3>1
  <2>5. \A k \in 1 .. count : case.budget = 1 \/ asked[k].frames = Request!Wanted(asked[k].window)
    BY <1>3, <2>2 DEF Framed
  <2>6. asked[1].window # None
    BY <1>5, <2>2
  <2>7. QED
    BY <1>1, <1>3, <1>5, <2>3, <2>4, <2>5, <2>6 DEF ts
<1>8. QED
  BY <1>2, <1>6, <1>7

-----------------------------------------------------------------------------
(* What is imported is there as it was recorded.                            *)

(* The source that is found gives spans.                                    *)
LEMMA FoundGives ==
  ASSUME case \in Cases, NEW k, k = Request!Found(case.origin, case.record), k > 0
  PROVE  Request!From(Request!Tried(case.origin)[k], case.record) # << >>
<1> DEFINE tried == Request!Tried(case.origin)
           I == {i \in 1 .. Len(tried) : Request!From(tried[i], case.record) # << >>}
<1>1. k = IF I # {} THEN Request!Min(I) ELSE 0
  BY DEF Request!Found, Request!SelectInSeq
<1>2. I # {}
  <2> HIDE DEF I
  <2>1. QED
    BY <1>1
<1>3. I \in SUBSET Nat
  OBVIOUS
<1>4. PICK m \in I : \A i \in I : m <= i
  <2> HIDE DEF I
  <2>1. QED
    BY <1>2, <1>3, LeastNat
<1>5. Request!Min(I) \in I
  <2> HIDE DEF I
  <2>1. QED
    BY <1>4 DEF Request!Min
<1>6. k \in I
  <2> HIDE DEF I
  <2>1. QED
    BY <1>1, <1>2, <1>5
<1>7. QED
  BY <1>6

(* A list of subtasks that is taken is taken whole.                         *)
LEMMA ListWhole ==
  ASSUME NEW record, record.subtasks # << >>, Request!FromAnnotations(record) # << >>
  PROVE  Len(Request!FromAnnotations(record)) = Len(record.subtasks)
BY DEF Request!FromAnnotations, Request!Subtasks

(* The places where a run of equal tasks starts, in order.                   *)
FirstsOf(tasks) == Request!Only([i \in DOMAIN tasks |-> i], Request!Starts(tasks))

(* Each place is in the run that starts last before it.                      *)
LEMMA RunOf ==
  ASSUME NEW T, NEW tasks \in Seq(T), NEW i \in 1 .. Len(tasks)
  PROVE  /\ FirstsOf(tasks) \in Seq(1 .. Len(tasks))
         /\ \E k \in 1 .. Len(FirstsOf(tasks)) :
              /\ FirstsOf(tasks)[k] <= i /\ tasks[FirstsOf(tasks)[k]] = tasks[i]
              /\ k < Len(FirstsOf(tasks)) => i < FirstsOf(tasks)[k + 1]
<1> DEFINE size == Len(tasks)
           s == [j \in 1 .. size |-> j]
           starts == Request!Starts(tasks)
           first == FirstsOf(tasks)
<1>1. size \in Nat /\ DOMAIN tasks = 1 .. size /\ s \in Seq(1 .. size) /\ Len(s) = size
  OBVIOUS
<1>2. \A j \in 1 .. size : j \in starts <=> (j = 1 \/ tasks[j] # tasks[j - 1])
  BY <1>1 DEF Request!Starts
<1>3. first = Request!Only(s, starts)
  BY DEF FirstsOf
<1> HIDE DEF first
<1>4. first \in Seq(1 .. size) /\ PartOf(first, s, size, starts)
  <2> HIDE DEF s, starts, size
  <2>1. Request!Only(s, starts) \in Seq(1 .. size) /\ PartOf(Request!Only(s, starts), s, Len(s), starts)
    BY <1>1, OnlyIsPart
  <2>2. QED
    BY <1>1, <1>3, <2>1
<1>5. \A k \in 1 .. Len(first) : first[k] \in 1 .. size /\ first[k] \in starts
  BY <1>4 DEF PartOf
<1>6. \A j \in 1 .. size : j \in starts => \E k \in 1 .. Len(first) : first[k] = j
  BY <1>4 DEF PartOf
<1>7. \A a, b \in 1 .. Len(first) : a < b => first[a] < first[b]
  <2> HIDE DEF s, starts, size
  <2>1. Inherits(first, s)
    BY <1>1, <1>4, PartInherits
  <2>2. \A a, b \in 1 .. Len(s) : a < b => s[a] < s[b]
    BY <1>1 DEF s
  <2>3. QED
    BY <2>1, <2>2 DEF Inherits
<1>8. Len(first) \in Nat
  BY <1>4
<1> HIDE DEF s, starts
(* The last run that starts at i or before it.                              *)
<1> DEFINE D == {d \in 0 .. i : i - d \in starts}
<1>0. size \in Nat /\ i \in 1 .. size
  BY <1>1
<1> HIDE DEF size
<1>9. i - 1 \in D
  BY <1>0, <1>2
<1>10. PICK d \in D : \A c \in D : d <= c
  <2>1. D \in SUBSET Nat
    BY <1>0
  <2>3. D # {}
    <3> HIDE DEF D
    <3>1. QED
      BY <1>9
  <2> HIDE DEF D
  <2>2. QED
    BY <2>1, <2>3, LeastNat
<1>11. d \in 0 .. i - 1 /\ i - d \in 1 .. size /\ i - d \in starts
  <2>1. d <= i - 1
    <3> HIDE DEF D
    <3>1. QED
      BY <1>9, <1>10
  <2>2. d \in 0 .. i /\ i - d \in starts
    OBVIOUS
  <2>3. QED
    BY <1>0, <2>1, <2>2
<1>12. \A j \in 1 .. size : i - d < j /\ j <= i => j \notin starts
  <2> SUFFICES ASSUME NEW j \in 1 .. size, i - d < j, j <= i, j \in starts PROVE FALSE
    OBVIOUS
  <2>1. i - j \in 0 .. i /\ i - (i - j) = j
    BY <1>0, <1>1
  <2>2. i - j \in D
    BY <2>1
  <2>3. d <= i - j
    BY <1>10, <2>2
  <2>4. QED
    BY <1>0, <1>1, <1>11, <2>3
<1> HIDE DEF D
<1>13. tasks[i - d] = tasks[i]
  <2> DEFINE K == {c \in Nat : c <= d => tasks[i - d] = tasks[(i - d) + c]}
  <2>1. 0 \in K
    BY <1>0, <1>1, <1>11
  <2>2. ASSUME NEW c \in K PROVE c + 1 \in K
    <3> SUFFICES ASSUME c + 1 <= d PROVE tasks[i - d] = tasks[(i - d) + (c + 1)]
      OBVIOUS
    <3>1. tasks[i - d] = tasks[(i - d) + c]
      BY <1>11
    <3> DEFINE j == (i - d) + (c + 1)
    <3>2. j \in 1 .. size /\ i - d < j /\ j <= i /\ j - 1 = (i - d) + c
      BY <1>0, <1>1, <1>11
    <3>3. tasks[j] = tasks[j - 1]
      BY <1>2, <1>12, <3>2
    <3>4. QED
      BY <3>1, <3>2, <3>3
  <2>3. Nat \subseteq K
    <3>1. K \in SUBSET Nat
      OBVIOUS
    <3> HIDE DEF K
    <3>2. QED
      BY <2>1, <2>2, <3>1, InductionOnSets
  <2>4. d \in K /\ (i - d) + d = i
    BY <1>11, <2>3
  <2>5. QED
    BY <1>11, <2>4
<1>14. PICK k \in 1 .. Len(first) : first[k] = i - d
  BY <1>6, <1>11
<1>15. first[k] <= i
  BY <1>0, <1>1, <1>11, <1>14
<1>16. ASSUME k < Len(first) PROVE i < first[k + 1]
  <2>1. k + 1 \in 1 .. Len(first)
    BY <1>8, <1>14, <1>16
  <2>2. first[k] < first[k + 1] /\ first[k + 1] \in 1 .. size /\ first[k + 1] \in starts
    BY <1>5, <1>7, <2>1
  <2>3. ~(first[k + 1] <= i)
    BY <1>12, <1>14, <2>2
  <2>4. QED
    BY <1>0, <1>1, <2>2, <2>3
<1>17. QED
  BY <1>4, <1>13, <1>14, <1>15, <1>16 DEF size, first

-----------------------------------------------------------------------------
(* The run that place i of an episode is in, as a span.                      *)
Holds(span, tasks, ts, i) ==
  span.text = tasks[i] /\ span.start <= ts[i] /\ (ts[i] < span.end \/ i = Len(tasks))

(* The runs of equal tasks, as FromTasks makes them.                        *)
RunsAt(tasks, ts, first) ==
  [k \in DOMAIN first |->
     Request!Span(tasks[first[k]], ts[first[k]],
                  IF k < Len(first) THEN ts[first[k + 1]] ELSE Request!Last(ts))]

LEMMA ListOf ==
  ASSUME NEW size \in Nat, NEW S, NEW q \in [1 .. size -> S]
  PROVE  q \in Seq(S) /\ Len(q) = size
OBVIOUS

LEMMA PlacesIn ==
  ASSUME NEW size \in Nat, NEW q \in Seq(1 .. size)
  PROVE  DOMAIN q = 1 .. Len(q) /\ Len(q) \in Nat /\ \A k \in 1 .. Len(q) : q[k] \in 1 .. size
OBVIOUS

(* The run of a place holds it, in its span.                                *)
LEMMA RunsHold ==
  ASSUME NEW T, NEW tasks \in Seq(T), NEW ts \in Seq(Int), Rising(ts), Len(ts) = Len(tasks),
         NEW first \in Seq(1 .. Len(tasks)), NEW i \in 1 .. Len(tasks), NEW k \in 1 .. Len(first),
         first[k] <= i, tasks[first[k]] = tasks[i], k < Len(first) => i < first[k + 1]
  PROVE  /\ RunsAt(tasks, ts, first) \in Seq([text : T, start : Int, end : Int])
         /\ k \in 1 .. Len(RunsAt(tasks, ts, first)) /\ Holds(RunsAt(tasks, ts, first)[k], tasks, ts, i)
<1> DEFINE size == Len(tasks)
           runs == RunsAt(tasks, ts, first)
           R == [text : T, start : Int, end : Int]
<1>2. size \in Nat /\ Len(ts) = size /\ i \in 1 .. size /\ ts[size] \in Int
  OBVIOUS
<1>3. Request!Last(ts) = ts[size]
  BY <1>2 DEF Request!Last
<1>5. DOMAIN first = 1 .. Len(first) /\ Len(first) \in Nat /\ \A c \in 1 .. Len(first) : first[c] \in 1 .. size
  <2>1. first \in Seq(1 .. size)
    OBVIOUS
  <2> HIDE DEF size, runs, R
  <2>2. QED
    BY <1>2, <2>1, PlacesIn
<1>6. \A c \in 1 .. size : tasks[c] \in T /\ ts[c] \in Int
  BY <1>2
<1> DEFINE end(c) == IF c < Len(first) THEN ts[first[c + 1]] ELSE Request!Last(ts)
<1>7. \A c \in 1 .. Len(first) : end(c) \in Int
  <2> SUFFICES ASSUME NEW c \in 1 .. Len(first) PROVE end(c) \in Int
    OBVIOUS
  <2>1. c < Len(first) => c + 1 \in 1 .. Len(first)
    BY <1>5
  <2> HIDE DEF size
  <2>2. QED
    BY <1>2, <1>3, <1>5, <1>6, <2>1
<1>8. runs = [c \in 1 .. Len(first) |-> [text |-> tasks[first[c]], start |-> ts[first[c]], end |-> end(c)]]
  BY <1>5 DEF Request!Span, RunsAt
<1> HIDE DEF size, end, runs
<1>9. runs \in Seq(R) /\ Len(runs) = Len(first)
  <2>1. \A c \in 1 .. Len(first) : runs[c] \in R
    BY <1>5, <1>6, <1>7, <1>8
  <2> HIDE DEF R
  <2>2. runs \in [1 .. Len(first) -> R]
    BY <1>8, <2>1
  <2>3. Len(first) \in Nat
    BY <1>5
  <2>4. QED
    BY <2>2, <2>3, ListOf
<1>10. runs[k].text = tasks[i] /\ runs[k].start = ts[first[k]] /\ runs[k].end = end(k)
  BY <1>8
<1>11. ts[first[k]] <= ts[i]
  <2>1. first[k] = i \/ first[k] < i
    BY <1>2, <1>5
  <2>2. QED
    BY <1>2, <1>5, <1>6, <2>1 DEF Rising
<1>12. ts[i] < end(k) \/ i = size
  <2>1. CASE k < Len(first)
    <3>1. k + 1 \in 1 .. Len(first) /\ i < first[k + 1]
      BY <1>5, <2>1
    <3>2. first[k + 1] \in 1 .. size
      BY <1>5, <3>1
    <3>3. ts[i] < ts[first[k + 1]]
      BY <1>2, <3>1, <3>2 DEF Rising
    <3>4. QED
      BY <2>1, <3>3 DEF end
  <2>2. CASE ~(k < Len(first))
    <3>1. end(k) = ts[size]
      BY <1>3, <2>2 DEF end
    <3>2. i = size \/ i < size
      BY <1>2
    <3>3. size \in 1 .. size
      BY <1>2
    <3>4. QED
      BY <1>2, <3>1, <3>2, <3>3 DEF Rising
  <2>3. QED
    BY <2>1, <2>2
<1>13. QED
  BY <1>9, <1>10, <1>11, <1>12 DEF Holds, size, runs, R

(* A span that has a text is not dropped.                                   *)
LEMMA TitledKeeps ==
  ASSUME NEW T, NEW s \in Seq(T), NEW k \in 1 .. Len(s), s[k].text # NoText
  PROVE  /\ Request!Titled(s) \in Seq(T)
         /\ \E c \in 1 .. Len(Request!Titled(s)) : Request!Titled(s)[c] = s[k]
<1> DEFINE set == {x \in Request!Range(s) : x.text # NoText}
<1>1. s[k] \in set
  BY DEF Request!Range
<1> HIDE DEF set
<1>2. Request!Only(s, set) \in Seq(T) /\ PartOf(Request!Only(s, set), s, Len(s), set)
  BY OnlyIsPart
<1>3. \E c \in 1 .. Len(Request!Only(s, set)) : Request!Only(s, set)[c] = s[k]
  BY <1>1, <1>2 DEF PartOf
<1>4. Request!Titled(s) = Request!Only(s, set)
  BY DEF Request!Titled, set
<1>5. QED
  BY <1>2, <1>3, <1>4

(* Each task that was recorded has a span that holds its frame.             *)
LEMMA TasksHeld ==
  ASSUME NEW record, NEW T, record.tasks \in Seq(T), record.times \in Seq(Int), Rising(record.times),
         Request!FromTasks(record) # << >>, NEW i \in DOMAIN record.tasks, record.tasks[i] # NoText
  PROVE  \E k \in DOMAIN Request!FromTasks(record) :
           Holds(Request!FromTasks(record)[k], record.tasks, record.times, i)
<1> DEFINE tasks == record.tasks
           ts == record.times
           first == FirstsOf(tasks)
           runs == RunsAt(tasks, ts, first)
           held == Request!FromTasks(record)
           R == [text : T, start : Int, end : Int]
<1>1. held = IF Len(tasks) # Len(ts) \/ Len(Request!Titled(runs)) <= 1 THEN << >> ELSE Request!Titled(runs)
  BY DEF Request!FromTasks, RunsAt, FirstsOf
<1>2. tasks \in Seq(T) /\ ts \in Seq(Int) /\ Rising(ts) /\ i \in 1 .. Len(tasks) /\ tasks[i] # NoText /\ held # << >>
  OBVIOUS
<1> HIDE DEF runs, held
<1>3. Len(tasks) = Len(ts) /\ held = Request!Titled(runs)
  BY <1>1, <1>2
<1>4. /\ first \in Seq(1 .. Len(tasks))
      /\ \E k \in 1 .. Len(first) :
           /\ first[k] <= i /\ tasks[first[k]] = tasks[i]
           /\ k < Len(first) => i < first[k + 1]
  <2> HIDE DEF tasks, first
  <2>1. QED
    BY <1>2, RunOf DEF first
<1> HIDE DEF tasks, ts, first, R
<1>5. PICK k \in 1 .. Len(first) :
         /\ first[k] <= i /\ tasks[first[k]] = tasks[i]
         /\ k < Len(first) => i < first[k + 1]
  BY <1>4
<1>6. runs \in Seq(R) /\ k \in 1 .. Len(runs) /\ Holds(runs[k], tasks, ts, i)
  BY <1>2, <1>3, <1>4, <1>5, RunsHold DEF runs, R
<1>7. runs[k].text # NoText
  BY <1>2, <1>6 DEF Holds
<1>8. held \in Seq(R) /\ \E c \in 1 .. Len(held) : held[c] = runs[k]
  BY <1>3, <1>6, <1>7, TitledKeeps
<1>9. QED
  BY <1>6, <1>8 DEF tasks, ts, held

-----------------------------------------------------------------------------
(* So what is imported is whole.                                            *)
LEMMA ImportWhole ==
  ASSUME case \in Cases, Request!Import
  PROVE  Request!ImportedWhole' \/ imported' = imported
<1> DEFINE k == Request!Found(case.origin, case.record)
           source == Request!Tried(case.origin)[k]
           found == Request!From(source, case.record)
<1>1. case' = case /\ ((imported' = [source |-> source, spans |-> found] /\ k > 0) \/ imported' = imported)
  BY DEF Request!Import
<1> SUFFICES ASSUME k > 0, imported' = [source |-> source, spans |-> found]
             PROVE  Request!ImportedWhole'
  BY <1>1
<1>2. found # << >>
  BY FoundGives
<1> HIDE DEF k
<1>3. /\ case.times \in Seq(Int) /\ Rising(case.times)
      /\ case.record.tasks \in Seq({case.record.tasks[i] : i \in DOMAIN case.record.tasks})
      /\ case.record.times = case.times
  <2>1. case.record.tasks \in Seq({case.record.tasks[i] : i \in DOMAIN case.record.tasks})
    BY CasesAssumption
  <2>2. QED
    BY <2>1, CaseSound
<1>4. CASE source = "lerobot_annotations"
  <2>1. found = Request!FromAnnotations(case.record)
    BY <1>4 DEF Request!From
  <2>2. case.record.subtasks # << >> => Len(found) = Len(case.record.subtasks)
    BY <1>2, <2>1, ListWhole
  <2>3. imported'.source # "task_index" /\ imported'.spans = found
    BY <1>4
  <2>4. QED
    BY <1>1, <2>2, <2>3 DEF Request!ImportedWhole
<1>5. CASE source = "task_index"
  <2>1. found = Request!FromTasks(case.record)
    BY <1>5 DEF Request!From
  <2>2. \A i \in DOMAIN case.record.tasks : case.record.tasks[i] # NoText =>
           \E c \in DOMAIN found : Holds(found[c], case.record.tasks, case.record.times, i)
    BY <1>2, <1>3, <2>1, TasksHeld
  <2>3. imported'.source # "lerobot_annotations" /\ imported'.spans = found
    BY <1>5
  <2>4. QED
    BY <1>1, <2>2, <2>3 DEF Request!ImportedWhole, Holds
<1>6. CASE source \notin {"lerobot_annotations", "task_index"}
  BY <1>6 DEF Request!ImportedWhole
<1>7. QED
  BY <1>4, <1>5, <1>6

LEMMA NothingImported == imported.source = None => Request!ImportedWhole
BY PromptAssumption DEF Request!ImportedWhole

LEMMA ImportedInit == EpisodeInit => Request!ImportedWhole
BY NothingImported DEF EpisodeInit, Request!Init, Request!NoImport

LEMMA StillWhole == Request!ImportedWhole /\ case' = case /\ imported' = imported => Request!ImportedWhole'
BY DEF Request!ImportedWhole

(* And it stays so.                                                         *)
LEMMA ImportedNext ==
  ASSUME SeeInv, Request!ImportedWhole, [EpisodeNext]_<< visual, vars >>
  PROVE  Request!ImportedWhole'
<1>1. CASE See
  <2>1. Request!Work /\ case \in Cases
    BY <1>1 DEF See, SeeInv
  <2>2. CASE Request!Import
    <3>1. case' = case
      BY <2>2 DEF Request!Import
    <3>2. QED
      BY <2>1, <2>2, <3>1, ImportWhole, StillWhole
  <2>3. CASE ~Request!Import
    <3>1. case' = case /\ imported' = imported
      BY <2>1, <2>3
      DEF Request!Work, Request!Given, Request!Generate, Request!EncodeClip, Request!DecodeFails,
          Request!BadBlock, Request!ToSheets, Request!ChooseCameras, Request!DecodeViews, Request!SendClip,
          Request!DecodeAgain, Request!EncodeAlignClip, Request!BadAlignBlock, Request!Rebudget, Request!SendSheets,
          Request!SendAlignClip, Request!SendAlignSheets, Request!GenerationKept, Request!AlignKept
    <3>2. QED
      BY <3>1, StillWhole
  <2>4. QED
    BY <2>2, <2>3
<1>2. CASE Place
  <2>1. imported'.source = None
    BY <1>2 DEF Place, Forget, Request!NoImport
  <2>2. QED
    BY <2>1, PromptAssumption DEF Request!ImportedWhole
<1>3. CASE UNCHANGED << visual, vars >>
  <2>1. case' = case /\ imported' = imported
    BY <1>3 DEF visual
  <2>2. QED
    BY <2>1, StillWhole
<1>4. QED
  BY <1>1, <1>2, <1>3 DEF EpisodeNext

-----------------------------------------------------------------------------
(* On every path to it - a clip, the contact sheets it falls back to, one    *)
(* request or a window of many, an alignment with the views that could be    *)
(* decoded - a request carries the medium the policy allows, keeps within    *)
(* max_frames_per_prompt, and what it says about times is true               *)
(* (_generation_visual_field, _align_given_subtasks).                        *)
THEOREM RequestAlwaysTrue == EpisodeSpec => []RequestTrue
<1>1. EpisodeInit => SeeInv
  BY SeeInit
<1>2. SeeInv /\ [EpisodeNext]_<< visual, vars >> => SeeInv'
  BY SeeNext
<1>3. SeeInv => RequestTrue
  BY InvIsSound, InvTellsTimes DEF RequestTrue, Request!RequestTrue
<1>4. QED
  BY <1>1, <1>2, <1>3, PTL DEF EpisodeSpec

(* No part of an episode is overlooked: the windows it is cut into follow    *)
(* each other from its first frame to its last at the full rate              *)
(* (_iter_windows), an alignment shows both ends, and a recorded list is     *)
(* taken whole (SubtaskImporter).                                            *)
THEOREM EpisodeAlwaysSeen == EpisodeSpec => []EpisodeSeen
<1>1. EpisodeInit => SeeInv /\ Request!ImportedWhole
  BY SeeInit, ImportedInit
<1>2. SeeInv /\ Request!ImportedWhole /\ [EpisodeNext]_<< visual, vars >> => (SeeInv /\ Request!ImportedWhole)'
  BY SeeNext, ImportedNext
<1>3. SeeInv /\ Request!ImportedWhole => EpisodeSeen
  BY InvSeesEnds, InvCovers DEF EpisodeSeen, Request!EpisodeSeen, Request!SeenWhole
<1>4. QED
  BY <1>1, <1>2, <1>3, PTL DEF EpisodeSpec

-----------------------------------------------------------------------------
(* The score of published spans. *)

LEMMA SameCount == \A S : Scoring!Cardinality(S) = Cardinality(S)
BY DEF Scoring!Cardinality, Cardinality, Scoring!IsFiniteSet, IsFiniteSet

LEMMA SameExtremes == \A S : Scoring!Min(S) = Min(S) /\ Scoring!Max(S) = Max(S)
BY DEF Scoring!Min, Min, Scoring!Max, Max

(* The place of a label among some.                                         *)
Rank(L, i) == Cardinality({j \in L : j <= i})

LEMMA RanksIncrease ==
  ASSUME NEW L \in SUBSET Nat, IsFiniteSet(L), NEW i \in L, NEW j \in L, i < j
  PROVE  Rank(L, i) < Rank(L, j)
<1> DEFINE upTo(k) == {l \in L : l <= k}
<1>1. upTo(i) \subseteq upTo(j) /\ j \in upTo(j) /\ j \notin upTo(i)
  <2>1. \A l \in L : l <= i => l <= j
    OBVIOUS
  <2>2. j \in upTo(j) /\ ~(j <= i)
    OBVIOUS
  <2>3. QED
    BY <2>1, <2>2
<1>2. IsFiniteSet(upTo(j)) /\ IsFiniteSet(upTo(i))
  <2>1. upTo(i) \in SUBSET L /\ upTo(j) \in SUBSET L
    OBVIOUS
  <2> HIDE DEF upTo
  <2>2. QED
    BY <2>1, FS_Subset
<1> HIDE DEF upTo
<1>3. /\ Cardinality(upTo(i)) <= Cardinality(upTo(j))
      /\ Cardinality(upTo(j)) = Cardinality(upTo(i)) => upTo(j) = upTo(i)
  BY <1>1, <1>2, FS_Subset
<1>4. Cardinality(upTo(i)) \in Nat /\ Cardinality(upTo(j)) \in Nat
  BY <1>2, FS_CardinalityType
<1>5. Cardinality(upTo(i)) < Cardinality(upTo(j))
  BY <1>1, <1>3, <1>4
<1>6. QED
  BY <1>5 DEF upTo, Rank

(* Places are the numbers from 1 to the size, each of one label.            *)
LEMMA Ranks ==
  ASSUME NEW L \in SUBSET Nat, IsFiniteSet(L)
  PROVE  /\ Cardinality(L) \in Nat
         /\ \A i \in L : Rank(L, i) \in 1 .. Cardinality(L)
         /\ \A i, j \in L : Rank(L, i) = Rank(L, j) => i = j
         /\ \A i, j \in L : Rank(L, i) < Rank(L, j) => i < j
         /\ \A k \in 1 .. Cardinality(L) : \E i \in L : Rank(L, i) = k
<1> DEFINE c == Cardinality(L)
           rank == [i \in L |-> Rank(L, i)]
<1>1. c \in Nat /\ IsFiniteSet(1 .. c) /\ Cardinality(1 .. c) = c
  <2>1. c \in Nat
    BY FS_CardinalityType
  <2> HIDE DEF c
  <2>2. QED
    BY <2>1, FS_Interval
<1>2. ASSUME NEW i \in L PROVE Rank(L, i) \in 1 .. c
  <2> DEFINE upTo == {l \in L : l <= i}
  <2>1. i \in upTo /\ upTo \in SUBSET L
    OBVIOUS
  <2> HIDE DEF upTo
  <2>2. IsFiniteSet(upTo) /\ Cardinality(upTo) <= c
    BY <2>1, FS_Subset
  <2>3. Cardinality(upTo) \in Nat /\ Cardinality(upTo) # 0
    BY <2>1, <2>2, FS_CardinalityType, FS_EmptySet
  <2>4. QED
    BY <1>1, <2>2, <2>3 DEF upTo, Rank
<1>3. \A i, j \in L : i < j => Rank(L, i) < Rank(L, j)
  BY RanksIncrease
<1> HIDE DEF c
<1>4. \A i, j \in L : Rank(L, i) = Rank(L, j) => i = j
  BY <1>1, <1>2, <1>3
<1>5. \A i, j \in L : Rank(L, i) < Rank(L, j) => i < j
  <2> SUFFICES ASSUME NEW i \in L, NEW j \in L, ~(i < j) PROVE ~(Rank(L, i) < Rank(L, j))
    OBVIOUS
  <2>1. i = j \/ j < i
    OBVIOUS
  <2>2. Rank(L, i) = Rank(L, j) \/ Rank(L, j) < Rank(L, i)
    BY <1>3, <2>1
  <2>3. QED
    BY <1>1, <1>2, <2>2
<1>6. rank \in Injection(L, 1 .. c)
  BY <1>2, <1>4 DEF Injection, IsInjective
<1> HIDE DEF rank
<1>7. rank \in Surjection(L, 1 .. c)
  BY <1>1, <1>6, FS_Injection DEF c
<1>8. \A k \in 1 .. c : \E i \in L : rank[i] = k
  BY <1>7 DEF Surjection
<1>9. QED
  BY <1>1, <1>2, <1>4, <1>5, <1>8 DEF rank, c

(* What a published episode with supplied labels is, as far as it is scored. *)
PublishedLabels == {s.label : s \in published}

Given ==
  /\ Numbered(published) /\ published # {}
  /\ n \in 0 .. MaxSpans /\ PublishedLabels \subseteq 0 .. n - 1
  /\ \A s \in published : s.start \in Frames /\ s.end \in Int

LEMMA GivenFacts ==
  ASSUME Given
  PROVE  /\ n \in Nat \ {0} /\ \A s \in published : s.label \in 0 .. n - 1
         /\ \A r, s \in published : r.label = s.label => r = s
         /\ \A L \in SUBSET PublishedLabels :
              L \in SUBSET Nat /\ IsFiniteSet(L) /\ Cardinality(L) <= n
<1>1. n \in Nat /\ \A s \in published : s.label \in 0 .. n - 1
  BY SpansAssumption DEF Given, PublishedLabels
<1>2. n # 0
  BY <1>1 DEF Given
<1>3. IsFiniteSet(0 .. n - 1) /\ Cardinality(0 .. n - 1) = n
  BY <1>1, <1>2, FS_Interval
<1>4. ASSUME NEW L \in SUBSET PublishedLabels
      PROVE  L \in SUBSET Nat /\ IsFiniteSet(L) /\ Cardinality(L) <= n
  <2>1. L \in SUBSET (0 .. n - 1)
    BY DEF Given
  <2>2. IsFiniteSet(L) /\ Cardinality(L) <= Cardinality(0 .. n - 1)
    BY <1>3, <2>1, FS_Subset
  <2>3. QED
    BY <1>1, <1>3, <2>1, <2>2
<1>5. QED
  BY <1>1, <1>2, <1>4 DEF Given, Numbered

(* The spans of some labels, in their order.                                *)
LEMMA InLabelOrderIs ==
  ASSUME Given, NEW L \in SUBSET PublishedLabels
  PROVE  LET q == InLabelOrder(L)
         IN  /\ q = [k \in 1 .. Cardinality(L) |-> q[k]]
             /\ \A k \in 1 .. Cardinality(L) :
                  q[k] \in published /\ q[k].label \in L /\ Rank(L, q[k].label) = k
             /\ \A s \in published : s.label \in L =>
                  Rank(L, s.label) \in 1 .. Cardinality(L) /\ q[Rank(L, s.label)] = s
             /\ \A j, k \in 1 .. Cardinality(L) : j < k => q[j].label < q[k].label
<1> DEFINE c == Cardinality(L)
           q == InLabelOrder(L)
           fits(s, k) == s.label \in L /\ Rank(L, s.label) = k
<1>1. /\ c \in Nat
      /\ \A i \in L : Rank(L, i) \in 1 .. c
      /\ \A i, j \in L : Rank(L, i) = Rank(L, j) => i = j
      /\ \A i, j \in L : Rank(L, i) < Rank(L, j) => i < j
      /\ \A k \in 1 .. c : \E i \in L : Rank(L, i) = k
  BY GivenFacts, Ranks
<1>2. q = [k \in 1 .. c |-> CHOOSE s \in published : fits(s, k)]
  BY DEF InLabelOrder, Rank
<1> HIDE DEF q, c
<1>3. ASSUME NEW k \in 1 .. c PROVE \E s \in published : fits(s, k)
  BY <1>1 DEF PublishedLabels
<1>4. \A k \in 1 .. c : q[k] \in published /\ fits(q[k], k)
  <2> TAKE k \in 1 .. c
  <2>1. q[k] = CHOOSE s \in published : fits(s, k)
    BY <1>2
  <2> HIDE DEF fits
  <2>2. QED
    BY <1>3, <2>1
<1>5. ASSUME NEW s \in published, s.label \in L
      PROVE  Rank(L, s.label) \in 1 .. c /\ q[Rank(L, s.label)] = s
  <2> DEFINE k == Rank(L, s.label)
  <2>1. k \in 1 .. c
    BY <1>1, <1>5
  <2>2. q[k] \in published /\ q[k].label \in L /\ Rank(L, q[k].label) = k
    BY <1>4, <2>1
  <2>3. q[k].label = s.label
    BY <1>1, <1>5, <2>2
  <2>4. QED
    BY <2>1, <2>2, <2>3, GivenFacts
<1>6. \A j, k \in 1 .. c : j < k => q[j].label < q[k].label
  BY <1>1, <1>4
<1>7. q = [k \in 1 .. c |-> q[k]]
  BY <1>2
<1>8. QED
  BY <1>4, <1>5, <1>6, <1>7 DEF q, c

LEMMA FinitelyManyParts ==
  ASSUME NEW S, IsFiniteSet(S), NEW T, IsFiniteSet(T),
         NEW F \in SUBSET UNION {[D -> T] : D \in SUBSET S}
  PROVE  IsFiniteSet(F)
<1> DEFINE graph(m) == {<<k, m[k]>> : k \in DOMAIN m}
           g == [m \in F |-> graph(m)]
<1>1. \A m \in F : DOMAIN m \subseteq S /\ m \in [DOMAIN m -> T]
  OBVIOUS
<1>2. \A m \in F : graph(m) \in SUBSET (S \X T)
  BY <1>1
<1>3. ASSUME NEW a \in F, NEW b \in F, graph(a) = graph(b) PROVE a = b
  <2>1. ASSUME NEW k \in DOMAIN a PROVE k \in DOMAIN b /\ a[k] = b[k]
    <3>1. <<k, a[k]>> \in graph(b)
      BY <1>3
    <3>2. PICK l \in DOMAIN b : <<k, a[k]>> = <<l, b[l]>>
      BY <3>1
    <3>3. QED
      BY <3>2
  <2>2. ASSUME NEW k \in DOMAIN b PROVE k \in DOMAIN a
    <3>1. <<k, b[k]>> \in graph(a)
      BY <1>3
    <3>2. PICK l \in DOMAIN a : <<k, b[k]>> = <<l, a[l]>>
      BY <3>1
    <3>3. QED
      BY <3>2
  <2>3. DOMAIN a = DOMAIN b
    BY <2>1, <2>2
  <2>4. a = [k \in DOMAIN a |-> a[k]] /\ b = [k \in DOMAIN b |-> b[k]]
    BY <1>1
  <2>5. QED
    BY <2>1, <2>3, <2>4
<1> HIDE DEF graph
<1>4. g \in Injection(F, SUBSET (S \X T))
  BY <1>2, <1>3 DEF Injection, IsInjective
<1>5. IsFiniteSet(S \X T)
  BY FS_Product
<1>6. IsFiniteSet(SUBSET (S \X T))
  BY <1>5, FS_SUBSET
<1> HIDE DEF g
<1>7. QED
  BY <1>4, <1>6, FS_Injection

SuppliedLabels == SubSeq(Texts, 1, n)

LEMMA SuppliedIs ==
  ASSUME Given
  PROVE  /\ DOMAIN SuppliedLabels = 1 .. n /\ Len(SuppliedLabels) = n
         /\ \A i \in 1 .. n : SuppliedLabels[i] = Texts[i]
<1>1. n \in Nat \ {0} /\ n <= Len(Texts) /\ Len(Texts) \in Nat
  BY GivenFacts, SpansAssumption, DiagnosticsAssumption DEF Given
<1>2. QED
  BY <1>1, DiagnosticsAssumption DEF SuppliedLabels

(* What a file of predictions says of the spans of some labels.             *)
LEMMA PredictedIs ==
  ASSUME Given, NEW L \in SUBSET PublishedLabels, NEW indexed \in BOOLEAN
  PROVE  LET p == Predicted(L, indexed)
             q == InLabelOrder(L)
         IN  /\ Cardinality(L) \in Nat /\ Cardinality(L) <= n
             /\ DOMAIN p = 1 .. Cardinality(L) /\ Len(p) = Cardinality(L)
             /\ \A k \in 1 .. Cardinality(L) :
                  /\ q[k] \in published /\ q[k].label + 1 \in 1 .. n
                  /\ p[k].text = SuppliedLabels[q[k].label + 1]
                  /\ p[k].index = IF indexed THEN q[k].label + 1 ELSE -1
                  /\ p[k].start = q[k].start /\ p[k].end = q[k].end
<1> DEFINE c == Cardinality(L)
           p == Predicted(L, indexed)
           q == InLabelOrder(L)
<1>1. c \in Nat /\ c <= n
  BY GivenFacts, FS_CardinalityType
<1>2. p = [k \in 1 .. c |->
             [text |-> Texts[q[k].label + 1], index |-> IF indexed THEN q[k].label + 1 ELSE -1,
              start |-> q[k].start, end |-> q[k].end]]
  BY DEF Predicted
<1>3. \A k \in 1 .. c : q[k] \in published
  BY InLabelOrderIs
<1> HIDE DEF p, q, c
<1>4. DOMAIN p = 1 .. c /\ Len(p) = c
  BY <1>1, <1>2
<1>5. ASSUME NEW k \in 1 .. c
      PROVE  /\ q[k].label + 1 \in 1 .. n
             /\ p[k].text = SuppliedLabels[q[k].label + 1]
             /\ p[k].index = IF indexed THEN q[k].label + 1 ELSE -1
             /\ p[k].start = q[k].start /\ p[k].end = q[k].end
  <2>1. q[k].label + 1 \in 1 .. n
    BY <1>3, GivenFacts
  <2>2. QED
    BY <1>2, <2>1, SuppliedIs
<1>6. QED
  BY <1>1, <1>3, <1>4, <1>5 DEF p, q, c

(* The true reading of it.                                                  *)
Reading(L) == [k \in 1 .. Cardinality(L) |-> InLabelOrder(L)[k].label + 1]

LEMMA ReadingIs ==
  ASSUME Given, NEW L \in SUBSET PublishedLabels
  PROVE  /\ Reading(L) \in [1 .. Cardinality(L) -> 1 .. n]
         /\ \A j, k \in 1 .. Cardinality(L) : j < k => Reading(L)[j] < Reading(L)[k]
         /\ \A i \in 1 .. n : i - 1 \in L =>
              Rank(L, i - 1) \in 1 .. Cardinality(L) /\ Reading(L)[Rank(L, i - 1)] = i
         /\ \A k \in 1 .. Cardinality(L) :
              Reading(L)[k] - 1 \in L /\ Rank(L, Reading(L)[k] - 1) = k
<1> DEFINE c == Cardinality(L)
           q == InLabelOrder(L)
<1>1. /\ \A k \in 1 .. c : q[k] \in published /\ q[k].label \in L /\ Rank(L, q[k].label) = k
      /\ \A s \in published : s.label \in L => Rank(L, s.label) \in 1 .. c /\ q[Rank(L, s.label)] = s
      /\ \A j, k \in 1 .. c : j < k => q[j].label < q[k].label
  BY InLabelOrderIs
<1>2. n \in Nat /\ \A s \in published : s.label \in 0 .. n - 1
  BY GivenFacts
<1>3. Reading(L) = [k \in 1 .. c |-> q[k].label + 1]
  BY DEF Reading
<1> HIDE DEF c, q
<1>4. \A k \in 1 .. c : q[k].label \in 0 .. n - 1 /\ q[k].label + 1 \in 1 .. n
  BY <1>1, <1>2
<1>5. Reading(L) \in [1 .. c -> 1 .. n]
  BY <1>3, <1>4
<1>6. \A j, k \in 1 .. c : j < k => Reading(L)[j] < Reading(L)[k]
  BY <1>1, <1>3, <1>4
<1>7. ASSUME NEW i \in 1 .. n, i - 1 \in L
      PROVE  Rank(L, i - 1) \in 1 .. c /\ Reading(L)[Rank(L, i - 1)] = i
  <2>1. PICK s \in published : s.label = i - 1
    BY <1>7 DEF PublishedLabels
  <2>2. Rank(L, i - 1) \in 1 .. c /\ q[Rank(L, i - 1)] = s
    BY <1>1, <1>7, <2>1
  <2>3. QED
    BY <1>2, <1>3, <2>1, <2>2
<1>8. \A k \in 1 .. c : Reading(L)[k] - 1 \in L /\ Rank(L, Reading(L)[k] - 1) = k
  <2> TAKE k \in 1 .. c
  <2>1. Reading(L)[k] - 1 = q[k].label
    BY <1>3, <1>4
  <2>2. QED
    BY <1>1, <2>1
<1>9. QED
  BY <1>5, <1>6, <1>7, <1>8 DEF c

(* The spans can be read: they are no more than labels, and their indices   *)
(* are in order and of their texts.                                         *)
LEMMA PredictedResolvable ==
  ASSUME Given, NEW L \in SUBSET PublishedLabels, NEW indexed \in BOOLEAN
  PROVE  /\ Scoring!Resolvable(SuppliedLabels, Predicted(L, indexed))
         /\ Scoring!Explicit(Predicted(L, indexed)) <=> indexed /\ L # {}
<1> DEFINE p == Predicted(L, indexed)
           q == InLabelOrder(L)
           c == Cardinality(L)
<1>1. /\ c \in Nat /\ c <= n
      /\ DOMAIN p = 1 .. c /\ Len(p) = c
      /\ \A k \in 1 .. c :
           /\ q[k] \in published /\ q[k].label + 1 \in 1 .. n
           /\ p[k].text = SuppliedLabels[q[k].label + 1]
           /\ p[k].index = IF indexed THEN q[k].label + 1 ELSE -1
  BY PredictedIs
<1>2. \A j, k \in 1 .. c : j < k => q[j].label < q[k].label
  BY InLabelOrderIs
<1>3. \A s \in published : s.label \in Nat
  BY GivenFacts
<1>4. c # 0 <=> L # {}
  BY GivenFacts, FS_EmptySet
<1>5. Len(SuppliedLabels) = n /\ DOMAIN SuppliedLabels = 1 .. n
  BY SuppliedIs
<1> HIDE DEF p, q, c
<1>6. Scoring!Explicit(p) <=> indexed /\ L # {}
  <2>1. \A k \in 1 .. c : p[k].index # -1 <=> indexed
    BY <1>1, <1>3
  <2>2. L # {} <=> \E k \in 1 .. c : TRUE
    BY <1>1, <1>4
  <2>3. Scoring!Explicit(p) <=> \E k \in 1 .. c : p[k].index # -1
    BY <1>1 DEF Scoring!Explicit, Scoring!NoIndex
  <2>4. QED
    BY <2>1, <2>2, <2>3
<1>7. indexed => ~Scoring!Scrambled(SuppliedLabels, p)
  <2> SUFFICES ASSUME indexed, NEW k \in 1 .. c
               PROVE  /\ p[k].index \in 1 .. n
                      /\ k > 1 => ~(p[k].index <= p[k - 1].index)
                      /\ p[k].text = SuppliedLabels[p[k].index]
    BY <1>1, <1>5 DEF Scoring!Scrambled
  <2>1. p[k].index = q[k].label + 1 /\ q[k].label \in Nat
    BY <1>1, <1>3
  <2>2. ASSUME k > 1 PROVE ~(p[k].index <= p[k - 1].index)
    <3>1. k - 1 \in 1 .. c /\ k - 1 < k
      BY <1>1, <2>2
    <3>2. p[k - 1].index = q[k - 1].label + 1 /\ q[k - 1].label \in Nat
      BY <1>1, <1>3, <3>1
    <3>3. q[k - 1].label < q[k].label
      BY <1>2, <3>1
    <3>4. QED
      BY <2>1, <3>2, <3>3
  <2>3. QED
    BY <1>1, <2>1, <2>2
<1>8. Scoring!Resolvable(SuppliedLabels, p)
  BY <1>1, <1>5, <1>6, <1>7 DEF Scoring!Resolvable
<1>9. QED
  BY <1>6, <1>8 DEF p

(* Of the largest matchings by text one is the true reading.                *)
LEMMA ReadingMatches ==
  ASSUME Given, NEW L \in SUBSET PublishedLabels, NEW indexed \in BOOLEAN
  PROVE  LET matchings == Scoring!Matchings(SuppliedLabels, Predicted(L, indexed))
         IN  Reading(L) \in matchings /\ IsFiniteSet(matchings)
<1> DEFINE p == Predicted(L, indexed)
           q == InLabelOrder(L)
           c == Cardinality(L)
           parts == UNION {[D -> 1 .. n] : D \in SUBSET (1 .. c)}
           fits == {m \in parts :
                      /\ \A k \in DOMAIN m : SuppliedLabels[m[k]] = p[k].text
                      /\ \A j, k \in DOMAIN m : j < k => m[j] < m[k]}
           r == Reading(L)
<1>1. /\ c \in Nat /\ DOMAIN p = 1 .. c
      /\ \A k \in 1 .. c : p[k].text = SuppliedLabels[q[k].label + 1]
  BY PredictedIs
<1>2. DOMAIN SuppliedLabels = 1 .. n /\ n \in Nat
  BY SuppliedIs, GivenFacts
<1>3. /\ r \in [1 .. c -> 1 .. n]
      /\ \A j, k \in 1 .. c : j < k => r[j] < r[k]
      /\ \A k \in 1 .. c : r[k] = q[k].label + 1
  BY ReadingIs DEF Reading
<1> HIDE DEF p, q, c, r
<1>4. Scoring!Matchings(SuppliedLabels, p) =
        {m \in fits : \A other \in fits : Cardinality(DOMAIN other) <= Cardinality(DOMAIN m)}
  BY <1>1, <1>2, SameCount DEF Scoring!Matchings
<1>5. r \in fits
  BY <1>1, <1>3
<1>6. IsFiniteSet(1 .. c) /\ IsFiniteSet(1 .. n)
  BY <1>1, <1>2, FS_Interval
<1>7. ASSUME NEW other \in fits PROVE Cardinality(DOMAIN other) <= Cardinality(DOMAIN r)
  <2>1. DOMAIN other \in SUBSET (1 .. c) /\ DOMAIN r = 1 .. c
    BY <1>3
  <2>2. QED
    BY <1>6, <2>1, FS_Subset
<1>8. IsFiniteSet(Scoring!Matchings(SuppliedLabels, p))
  <2>1. Scoring!Matchings(SuppliedLabels, p) \in SUBSET parts
    BY <1>4
  <2>2. QED
    BY <1>6, <2>1, FinitelyManyParts
<1> HIDE DEF fits, parts
<1>9. r \in Scoring!Matchings(SuppliedLabels, p)
  BY <1>4, <1>5, <1>7
<1>10. QED
  BY <1>8, <1>9 DEF p, r

(* With indices there is no other reading; without, unless there are two.   *)
LEMMA OneReading ==
  ASSUME Given, NEW L \in SUBSET PublishedLabels, NEW indexed \in BOOLEAN,
         indexed \/ ~(Cardinality(Scoring!Candidates(SuppliedLabels, Predicted(L, indexed))) > 1)
  PROVE  Scoring!Candidates(SuppliedLabels, Predicted(L, indexed)) = {Reading(L)}
<1> DEFINE p == Predicted(L, indexed)
           q == InLabelOrder(L)
           c == Cardinality(L)
           matchings == Scoring!Matchings(SuppliedLabels, p)
<1>1. /\ c \in Nat /\ DOMAIN p = 1 .. c
      /\ \A k \in 1 .. c : p[k].index = IF indexed THEN q[k].label + 1 ELSE -1
  BY PredictedIs
<1>2. Scoring!Explicit(p) <=> indexed /\ L # {}
  BY PredictedResolvable
<1>3. Scoring!Candidates(SuppliedLabels, p) =
        IF Scoring!Explicit(p) THEN {[k \in 1 .. c |-> p[k].index]} ELSE matchings
  BY <1>1 DEF Scoring!Candidates
<1>4. Reading(L) = [k \in 1 .. c |-> q[k].label + 1]
  BY DEF Reading
<1>5. Reading(L) \in matchings /\ IsFiniteSet(matchings)
  BY ReadingMatches
<1>6. L = {} => c = 0
  BY FS_EmptySet
<1>7. Reading(L) \in [1 .. c -> 1 .. n]
  BY ReadingIs
<1>8. ASSUME ~indexed PROVE ~(Cardinality(matchings) > 1)
  BY <1>2, <1>3, <1>8
<1>9. ASSUME L = {} PROVE matchings = {Reading(L)}
  <2>1. c = 0 /\ 1 .. c = {}
    BY <1>6, <1>9
  <2>2. \A m \in matchings : m \in UNION {[D -> DOMAIN SuppliedLabels] : D \in SUBSET DOMAIN p}
    BY DEF Scoring!Matchings
  <2> HIDE DEF matchings, p, c
  <2>3. \A m \in matchings : DOMAIN m = {} /\ m = [k \in DOMAIN m |-> m[k]]
    BY <1>1, <2>1, <2>2
  <2>4. DOMAIN Reading(L) = {} /\ Reading(L) = [k \in DOMAIN Reading(L) |-> Reading(L)[k]]
    BY <1>7, <2>1
  <2>5. \A m \in matchings : m = Reading(L)
    BY <2>3, <2>4
  <2>6. QED
    BY <1>5, <2>5
<1> HIDE DEF matchings, p, q, c
<1>10. CASE Scoring!Explicit(p)
  <2>1. [k \in 1 .. c |-> p[k].index] = Reading(L)
    BY <1>1, <1>2, <1>4, <1>10
  <2>2. QED
    BY <1>3, <1>10, <2>1 DEF p
<1>11. CASE ~Scoring!Explicit(p) /\ L # {}
  <2>1. ~(Cardinality(matchings) > 1)
    BY <1>2, <1>8, <1>11
  <2>2. /\ {Reading(L)} \in SUBSET matchings
        /\ IsFiniteSet({Reading(L)}) /\ Cardinality({Reading(L)}) = 1
        /\ Cardinality(matchings) \in Nat
    BY <1>5, FS_Singleton, FS_CardinalityType
  <2>3. matchings = {Reading(L)}
    BY <1>5, <2>1, <2>2, FS_Subset
  <2>4. QED
    BY <1>3, <1>11, <2>3 DEF p
<1>12. CASE L = {}
  BY <1>2, <1>3, <1>9, <1>12 DEF p
<1>13. QED
  BY <1>10, <1>11, <1>12

LEMMA LeastOfOne ==
  ASSUME NEW k \in Int
  PROVE  Scoring!Min({k}) = k
<1>1. {k} \in SUBSET Int /\ IsFiniteSet({k}) /\ {k} # {}
  BY FS_Singleton
<1>2. Min({k}) \in {k}
  BY <1>1, Extremes
<1>3. QED
  BY <1>2, SameExtremes

LEMMA AttributedIs ==
  ASSUME Given, NEW L \in SUBSET PublishedLabels, NEW indexed \in BOOLEAN,
         indexed \/ ~(Cardinality(Scoring!Candidates(SuppliedLabels, Predicted(L, indexed))) > 1)
  PROVE  Scoring!Attributed(SuppliedLabels, Predicted(L, indexed))
           = [i \in 1 .. n |-> IF i - 1 \in L THEN Rank(L, i - 1) ELSE 0]
<1> DEFINE p == Predicted(L, indexed)
           c == Cardinality(L)
           r == Reading(L)
           candidates == Scoring!Candidates(SuppliedLabels, p)
           only == CHOOSE m \in candidates : TRUE
           spansOf(i) == {k \in DOMAIN only : only[k] = i}
<1>1. candidates = {r}
  BY OneReading
<1>2. DOMAIN SuppliedLabels = 1 .. n
  BY SuppliedIs
<1>3. ~(Scoring!Cardinality(candidates) > 1)
  <2> HIDE DEF candidates, r
  <2>1. Scoring!Cardinality(candidates) = Cardinality(candidates)
    BY SameCount
  <2>2. Cardinality(candidates) = 1
    BY <1>1, FS_Singleton
  <2>3. QED
    BY <2>1, <2>2
<1>4. Scoring!Attributed(SuppliedLabels, p)
        = [i \in 1 .. n |-> IF spansOf(i) = {} THEN 0 ELSE Scoring!Min(spansOf(i))]
  <2> HIDE DEF candidates
  <2>1. Scoring!Attributed(SuppliedLabels, p)
          = IF Scoring!Cardinality(candidates) > 1 THEN Scoring!Greedy(SuppliedLabels, p)
            ELSE [i \in DOMAIN SuppliedLabels |->
                    IF spansOf(i) = {} THEN 0 ELSE Scoring!Min(spansOf(i))]
    BY DEF Scoring!Attributed, candidates
  <2> HIDE DEF spansOf, only
  <2>2. QED
    BY <1>2, <1>3, <2>1
<1>5. only = r
  BY <1>1
<1> HIDE DEF only, candidates
<1>6. /\ r \in [1 .. c -> 1 .. n]
      /\ \A i \in 1 .. n : i - 1 \in L => Rank(L, i - 1) \in 1 .. c /\ r[Rank(L, i - 1)] = i
      /\ \A k \in 1 .. c : r[k] - 1 \in L /\ Rank(L, r[k] - 1) = k
  BY ReadingIs
<1>7. n \in Nat /\ c \in Nat
  BY GivenFacts, FS_CardinalityType
<1> HIDE DEF r, c
<1>8. ASSUME NEW i \in 1 .. n
      PROVE  (IF spansOf(i) = {} THEN 0 ELSE Scoring!Min(spansOf(i)))
               = IF i - 1 \in L THEN Rank(L, i - 1) ELSE 0
  <2>1. \A k \in spansOf(i) : k \in 1 .. c /\ r[k] = i
    BY <1>5, <1>6
  <2>2. CASE i - 1 \in L
    <3>1. Rank(L, i - 1) \in spansOf(i) /\ Rank(L, i - 1) \in Int
      BY <1>5, <1>6, <1>7, <2>2
    <3>2. \A k \in spansOf(i) : k = Rank(L, i - 1)
      BY <1>6, <2>1
    <3> HIDE DEF spansOf
    <3>3. spansOf(i) = {Rank(L, i - 1)}
      BY <3>1, <3>2
    <3>4. QED
      BY <2>2, <3>1, <3>3, LeastOfOne
  <2>3. CASE i - 1 \notin L
    <3>1. spansOf(i) = {}
      BY <1>6, <2>1, <2>3
    <3>2. QED
      BY <2>3, <3>1
  <2>4. QED
    BY <2>2, <2>3
<1> HIDE DEF spansOf
<1>9. QED
  BY <1>4, <1>8 DEF p

-----------------------------------------------------------------------------
(* The score, from the spans that stand for the labels.                     *)

SpanOf(i) == CHOOSE s \in published : s.label = i - 1

LEMMA SpanOfIs ==
  ASSUME Given, NEW L \in SUBSET PublishedLabels, NEW indexed \in BOOLEAN,
         NEW i \in 1 .. n, i - 1 \in L
  PROVE  LET p == Predicted(L, indexed)
         IN  /\ Rank(L, i - 1) \in 1 .. Cardinality(L)
             /\ SpanOf(i) \in published /\ SpanOf(i).label = i - 1
             /\ p[Rank(L, i - 1)].start = SpanOf(i).start
             /\ p[Rank(L, i - 1)].end = SpanOf(i).end
<1> DEFINE q == InLabelOrder(L)
           p == Predicted(L, indexed)
           k == Rank(L, i - 1)
<1>1. \E s \in published : s.label = i - 1
  BY DEF PublishedLabels
<1>2. SpanOf(i) \in published /\ SpanOf(i).label = i - 1
  BY <1>1 DEF SpanOf
<1>3. k \in 1 .. Cardinality(L) /\ q[k] = SpanOf(i)
  BY <1>2, InLabelOrderIs
<1>4. p[k].start = q[k].start /\ p[k].end = q[k].end
  BY <1>3, PredictedIs
<1>5. QED
  BY <1>2, <1>3, <1>4

LEMMA SameOverlap ==
  ASSUME NEW a, NEW b, NEW t, a.start = b.start, a.end = b.end
  PROVE  Scoring!Overlap(a, t) = Scoring!Overlap(b, t)
BY DEF Scoring!Overlap

Off(truth, i) == Scoring!Dist(SpanOf(i).start, truth[i].start)

(* What the spans of some labels are worth.                                 *)
Graded(truth, L) ==
  [overlap |-> [i \in 1 .. n |->
                  IF i - 1 \in L THEN Scoring!Overlap(SpanOf(i), truth[i]) ELSE <<0, 1>>],
   error   |-> [i \in (1 .. n) \ {1} |->
                  IF i - 1 \in L THEN Off(truth, i) ELSE Scoring!Worst(truth, i)],
   hits    |-> [within \in 0 .. Scoring!Worst(truth, 1) |->
                  Cardinality({i \in (1 .. n) \ {1} : i - 1 \in L /\ Off(truth, i) <= within})],
   placed  |-> Cardinality({i \in 1 .. n : i - 1 \in L})]

LEMMA ScoreIs ==
  ASSUME Given, NEW L \in SUBSET PublishedLabels, NEW indexed \in BOOLEAN, NEW truth,
         indexed \/ ~(Cardinality(Scoring!Candidates(SuppliedLabels, Predicted(L, indexed))) > 1)
  PROVE  Scoring!Score(SuppliedLabels, truth, Predicted(L, indexed)) = Graded(truth, L)
<1> DEFINE p == Predicted(L, indexed)
           match == [i \in 1 .. n |-> IF i - 1 \in L THEN Rank(L, i - 1) ELSE 0]
<1>1. Scoring!Score(SuppliedLabels, truth, p) = Scoring!Evaluation(truth, p, match)
  BY AttributedIs DEF Scoring!Score
<1>2. n \in Nat /\ DOMAIN match = 1 .. n
  BY GivenFacts
<1>3. ASSUME NEW i \in 1 .. n, i - 1 \in L
      PROVE  /\ match[i] # 0
             /\ Scoring!Overlap(p[match[i]], truth[i]) = Scoring!Overlap(SpanOf(i), truth[i])
             /\ Scoring!Dist(p[match[i]].start, truth[i].start) = Off(truth, i)
  <2>1. /\ match[i] = Rank(L, i - 1) /\ Rank(L, i - 1) \in 1 .. Cardinality(L)
        /\ p[match[i]].start = SpanOf(i).start /\ p[match[i]].end = SpanOf(i).end
    BY <1>3, SpanOfIs
  <2> HIDE DEF p, match
  <2>2. match[i] # 0
    BY <2>1
  <2>3. QED
    BY <2>1, <2>2, SameOverlap DEF Off
<1>4. \A i \in 1 .. n : i - 1 \notin L => match[i] = 0
  OBVIOUS
<1> HIDE DEF match, p
<1>5. \A i \in 1 .. n : match[i] = 0 <=> i - 1 \notin L
  BY <1>3, <1>4
<1> DEFINE ev == Scoring!Evaluation(truth, p, match)
           hit(within) == {i \in (1 .. n) \ {1} : match[i] # 0
                             /\ Scoring!Dist(p[match[i]].start, truth[i].start) <= within}
<1>6. ev = [overlap |-> [i \in 1 .. n |->
                  IF match[i] = 0 THEN <<0, 1>> ELSE Scoring!Overlap(p[match[i]], truth[i])],
            error   |-> [i \in (1 .. n) \ {1} |->
                  IF match[i] = 0 THEN Scoring!Worst(truth, i)
                  ELSE Scoring!Dist(p[match[i]].start, truth[i].start)],
            hits    |-> [within \in 0 .. Scoring!Worst(truth, 1) |-> Cardinality(hit(within))],
            placed  |-> Cardinality({i \in 1 .. n : match[i] # 0})]
  BY <1>2, SameCount DEF Scoring!Evaluation
<1>7. [i \in 1 .. n |-> IF match[i] = 0 THEN <<0, 1>> ELSE Scoring!Overlap(p[match[i]], truth[i])]
        = [i \in 1 .. n |->
             IF i - 1 \in L THEN Scoring!Overlap(SpanOf(i), truth[i]) ELSE <<0, 1>>]
  BY <1>3, <1>5
<1>8. [i \in (1 .. n) \ {1} |-> IF match[i] = 0 THEN Scoring!Worst(truth, i)
                                ELSE Scoring!Dist(p[match[i]].start, truth[i].start)]
        = [i \in (1 .. n) \ {1} |->
             IF i - 1 \in L THEN Off(truth, i) ELSE Scoring!Worst(truth, i)]
  BY <1>3, <1>5
<1>9. \A within : hit(within)
        = {i \in (1 .. n) \ {1} : i - 1 \in L /\ Off(truth, i) <= within}
  BY <1>3, <1>5
<1>10. {i \in 1 .. n : match[i] # 0} = {i \in 1 .. n : i - 1 \in L}
  BY <1>5
<1> HIDE DEF ev, hit
<1>11. QED
  BY <1>1, <1>6, <1>7, <1>8, <1>9, <1>10 DEF ev, Graded, p

LEMMA CoversAre ==
  ASSUME Given, NEW truth \in Covers(n)
  PROVE  /\ Len(truth) = n
         /\ \A i \in 1 .. n : truth[i].start \in Frames /\ truth[i].end \in Int
         /\ truth[1].start = First /\ truth[n].end = Last
<1>1. n \in Nat \ {0} /\ 1 \in 1 .. n /\ n \in 1 .. n
  BY GivenFacts
<1>2. PICK s \in [1 .. n -> Frames \ {Last}] : s[1] = First /\ truth = CoverFrom(s)
  BY DEF Covers
<1>3. DOMAIN s = 1 .. n /\ Len(s) = n
  BY <1>1, <1>2
<1>4. truth = [k \in 1 .. n |-> [label |-> k - 1, start |-> s[k],
                                 end |-> IF k = n THEN Last ELSE s[k + 1]]]
  BY <1>2, <1>3 DEF CoverFrom
<1>5. \A k \in 1 .. n : s[k] \in Frames /\ (k # n => k + 1 \in 1 .. n)
  BY <1>1, <1>2
<1>6. \A k \in 1 .. n : truth[k].end \in Int
  BY <1>4, <1>5, Episode
<1>7. Len(truth) = n
  BY <1>1, <1>4
<1>8. QED
  BY <1>1, <1>2, <1>4, <1>5, <1>6, <1>7

LEMMA OverlapIs ==
  ASSUME NEW s, NEW t, s.start \in Int, s.end \in Int, t.start \in Int, t.end \in Int
  PROVE  Scoring!Overlap(s, t)[1] \in Nat /\ Scoring!Overlap(s, t)[2] \in Nat
<1> DEFINE high == Scoring!Max({s.end, t.end})
           low == Scoring!Min({s.start, t.start})
           left == Scoring!Max({s.start, t.start})
           right == Scoring!Min({s.end, t.end})
           union == high - low
           both == right - left
<1>1. high \in Int /\ low \in Int /\ left \in Int /\ right \in Int
  BY OfTwo, SameExtremes
<1>2. Scoring!Overlap(s, t) = IF union <= 0 THEN <<IF s.start = t.start THEN 1 ELSE 0, 1>>
                              ELSE <<Scoring!Max({0, both}), union>>
  BY DEF Scoring!Overlap
<1> HIDE DEF high, low, left, right
<1>3. union \in Int /\ both \in Int
  BY <1>1
<1> HIDE DEF union, both
<1>4. Scoring!Max({0, both}) \in Nat
  <2> DEFINE zero == 0
  <2>1. zero \in Int
    OBVIOUS
  <2> HIDE DEF zero
  <2>2. Max({zero, both}) = IF zero <= both THEN both ELSE zero
    BY <1>3, <2>1, OfTwo
  <2>3. Max({0, both}) = IF 0 <= both THEN both ELSE 0
    BY <2>2 DEF zero
  <2>4. Scoring!Max({0, both}) = Max({0, both})
    BY SameExtremes
  <2>5. QED
    BY <1>3, <2>3, <2>4
<1>5. CASE union <= 0
  BY <1>2, <1>5
<1>6. CASE ~(union <= 0)
  BY <1>2, <1>3, <1>4, <1>6
<1>7. QED
  BY <1>5, <1>6

LEMMA WorstInt ==
  ASSUME Given, NEW truth \in Covers(n), NEW i \in 1 .. n
  PROVE  /\ Scoring!Worst(truth, i) \in Int
         /\ truth[i].start - First <= Scoring!Worst(truth, i)
         /\ Last - truth[i].start <= Scoring!Worst(truth, i)
<1> DEFINE t == truth[i].start
           before == Scoring!Dist(t, truth[1].start)
           after == Scoring!Dist(truth[Len(truth)].end, t)
<1>1. t \in Frames /\ truth[1].start = First /\ truth[Len(truth)].end = Last
  BY CoversAre
<1>2. Scoring!Worst(truth, i) = Max({before, after})
  BY SameExtremes DEF Scoring!Worst
<1>3. before = Scoring!Dist(t, First) /\ after = Scoring!Dist(Last, t)
  BY <1>1
<1> HIDE DEF t, before, after
<1>4. t \in Int /\ First <= t /\ t <= Last /\ First \in Int /\ Last \in Int
  BY <1>1, Episode
<1>5. before = t - First /\ after = Last - t
  BY <1>3, <1>4 DEF Scoring!Dist
<1>6. before \in Int /\ after \in Int
  BY <1>4, <1>5
<1>7. Max({before, after}) = IF before <= after THEN after ELSE before
  BY <1>6, OfTwo
<1>8. QED
  BY <1>2, <1>4, <1>5, <1>7 DEF t

(* A boundary that is there is no farther off than a missing one.           *)
LEMMA WorstIs ==
  ASSUME Given, NEW truth \in Covers(n), NEW i \in 1 .. n, i - 1 \in PublishedLabels
  PROVE  Off(truth, i) \in Int /\ Off(truth, i) <= Scoring!Worst(truth, i)
         /\ Scoring!Worst(truth, i) \in Int
<1> DEFINE t == truth[i].start
           s == SpanOf(i).start
<1>1. \E r \in published : r.label = i - 1
  BY DEF PublishedLabels
<1>2. SpanOf(i) \in published
  BY <1>1 DEF SpanOf
<1>3. s \in Frames /\ t \in Frames
  BY <1>2, CoversAre DEF Given
<1>4. /\ Scoring!Worst(truth, i) \in Int
      /\ t - First <= Scoring!Worst(truth, i) /\ Last - t <= Scoring!Worst(truth, i)
  BY WorstInt
<1>5. Off(truth, i) = IF s < t THEN t - s ELSE s - t
  BY DEF Off, Scoring!Dist
<1> HIDE DEF t, s
<1>6. /\ t \in Int /\ First <= t /\ t <= Last /\ s \in Int /\ First <= s /\ s <= Last
      /\ First \in Int /\ Last \in Int
  BY <1>3, Episode
<1>7. QED
  BY <1>4, <1>5, <1>6

LEMMA NothingTimes == ASSUME NEW x \in Nat, NEW y \in Nat PROVE 0 * y <= x * 1
OBVIOUS

(* With fewer spans no part of the score is better.                         *)
LEMMA DroppingNoBetter ==
  ASSUME Given, NEW truth \in Covers(n), NEW L \in SUBSET PublishedLabels, NEW K \in SUBSET L
  PROVE  Scoring!NoBetter(Graded(truth, K), Graded(truth, L))
<1> DEFINE a == Graded(truth, K)
           b == Graded(truth, L)
           there(M) == {i \in 1 .. n : i - 1 \in M}
           hit(M, within) == {i \in (1 .. n) \ {1} : i - 1 \in M /\ Off(truth, i) <= within}
<1>1. n \in Nat /\ IsFiniteSet(1 .. n)
  BY GivenFacts, FS_Interval
<1>2. Cardinality(there(K)) <= Cardinality(there(L))
  <2>1. there(K) \in SUBSET there(L) /\ there(L) \in SUBSET (1 .. n)
    OBVIOUS
  <2> HIDE DEF there
  <2>2. IsFiniteSet(there(L))
    BY <1>1, <2>1, FS_Subset
  <2>3. QED
    BY <2>1, <2>2, FS_Subset
<1>3. \A within : Cardinality(hit(K, within)) <= Cardinality(hit(L, within))
  <2> TAKE within
  <2>1. hit(K, within) \in SUBSET hit(L, within) /\ hit(L, within) \in SUBSET (1 .. n)
    OBVIOUS
  <2> HIDE DEF hit
  <2>2. IsFiniteSet(hit(L, within))
    BY <1>1, <2>1, FS_Subset
  <2>3. QED
    BY <2>1, <2>2, FS_Subset
<1>4. ASSUME NEW i \in 1 .. n, i - 1 \in L
      PROVE  LET o == Scoring!Overlap(SpanOf(i), truth[i])
             IN  o[1] \in Nat /\ o[2] \in Nat
  <2>1. \E s \in published : s.label = i - 1
    BY <1>4 DEF PublishedLabels
  <2>2. SpanOf(i) \in published
    BY <2>1 DEF SpanOf
  <2>3. SpanOf(i).start \in Int /\ SpanOf(i).end \in Int
    BY <2>2, Episode DEF Given
  <2>4. truth[i].start \in Int /\ truth[i].end \in Int
    BY CoversAre, Episode
  <2>5. QED
    BY <2>3, <2>4, OverlapIs
<1>5. /\ a.overlap = [i \in 1 .. n |-> IF i - 1 \in K
                                       THEN Scoring!Overlap(SpanOf(i), truth[i]) ELSE <<0, 1>>]
      /\ b.overlap = [i \in 1 .. n |-> IF i - 1 \in L
                                       THEN Scoring!Overlap(SpanOf(i), truth[i]) ELSE <<0, 1>>]
  BY DEF Graded
<1>6. /\ a.error = [i \in (1 .. n) \ {1} |-> IF i - 1 \in K THEN Off(truth, i)
                                             ELSE Scoring!Worst(truth, i)]
      /\ b.error = [i \in (1 .. n) \ {1} |-> IF i - 1 \in L THEN Off(truth, i)
                                             ELSE Scoring!Worst(truth, i)]
  BY DEF Graded
<1>7. /\ a.placed = Cardinality(there(K)) /\ b.placed = Cardinality(there(L))
      /\ a.hits = [within \in 0 .. Scoring!Worst(truth, 1) |-> Cardinality(hit(K, within))]
      /\ b.hits = [within \in 0 .. Scoring!Worst(truth, 1) |-> Cardinality(hit(L, within))]
  BY DEF Graded
<1> HIDE DEF a, b, there, hit
<1>8. \A i \in DOMAIN a.overlap :
        a.overlap[i][1] * b.overlap[i][2] <= b.overlap[i][1] * a.overlap[i][2]
  <2> TAKE i \in DOMAIN a.overlap
  <2>1. i \in 1 .. n
    BY <1>5
  <2> DEFINE o == Scoring!Overlap(SpanOf(i), truth[i])
  <2>2. CASE i - 1 \in K
    <3>1. a.overlap[i] = o /\ b.overlap[i] = o
      BY <1>5, <2>1, <2>2
    <3>2. o[1] \in Nat /\ o[2] \in Nat
      BY <1>4, <2>1, <2>2
    <3> HIDE DEF o
    <3>3. o[1] * o[2] \in Int
      BY <3>2
    <3>4. QED
      BY <3>1, <3>3
  <2>3. CASE i - 1 \notin K /\ i - 1 \in L
    <3>1. a.overlap[i] = <<0, 1>> /\ b.overlap[i] = o
      BY <1>5, <2>1, <2>3
    <3>2. o[1] \in Nat /\ o[2] \in Nat
      BY <1>4, <2>1, <2>3
    <3> HIDE DEF o
    <3>3. 0 * o[2] <= o[1] * 1
      BY <3>2, NothingTimes
    <3>4. QED
      BY <3>1, <3>3
  <2>4. CASE i - 1 \notin L
    <3>1. a.overlap[i] = <<0, 1>> /\ b.overlap[i] = <<0, 1>>
      BY <1>5, <2>1, <2>4
    <3>2. QED
      BY <3>1
  <2>5. QED
    BY <2>2, <2>3, <2>4
<1>9. \A i \in DOMAIN a.error : a.error[i] >= b.error[i]
  <2> TAKE i \in DOMAIN a.error
  <2>1. i \in (1 .. n) \ {1}
    BY <1>6
  <2>2. CASE i - 1 \in L
    <3>1. /\ Off(truth, i) \in Int /\ Off(truth, i) <= Scoring!Worst(truth, i)
          /\ Scoring!Worst(truth, i) \in Int
      BY <2>1, <2>2, WorstIs
    <3>2. b.error[i] = Off(truth, i) /\ a.error[i] \in {Off(truth, i), Scoring!Worst(truth, i)}
      BY <1>6, <2>1, <2>2
    <3>3. QED
      BY <3>1, <3>2
  <2>3. CASE i - 1 \notin L
    <3>1. a.error[i] = Scoring!Worst(truth, i) /\ b.error[i] = Scoring!Worst(truth, i)
      BY <1>6, <2>1, <2>3
    <3>2. Scoring!Worst(truth, i) \in Int
      BY <2>1, WorstInt
    <3>3. QED
      BY <3>1, <3>2
  <2>4. QED
    BY <2>2, <2>3
<1>10. \A within \in DOMAIN a.hits : a.hits[within] <= b.hits[within]
  BY <1>3, <1>7
<1>11. QED
  BY <1>2, <1>7, <1>8, <1>9, <1>10 DEF Scoring!NoBetter, a, b

-----------------------------------------------------------------------------
(* Spans of supplied labels are of labels of the list.                      *)

LabelInv ==
  origin = "given" =>
    cover = {} /\ \A S \in {spans, todo, taken, published} : \A s \in S : s.label < n

LEMMA LabelInit == Init => LabelInv
BY DEF Init, LabelInv

LEMMA LabelStep == SpansInv /\ LabelInv /\ [Next]_vars => LabelInv'
<1> SUFFICES ASSUME SpansInv, LabelInv, [Next]_vars, origin' = "given" PROVE LabelInv'
  BY DEF LabelInv
<1>1. origin = "given" \/ EndRaw
  BY DEF Next, vars, GiveLabels, RawSpan, Raise, RelabelFails, Entry, EndReply, NoBlocks,
     Uncalibrated, Solve, Shift, OrderNext, CheckCoverage, Clean, SnapNext, Stitch, StartRealign,
     Finish
<1>2. origin = "given"
  BY <1>1 DEF EndRaw
<1>3. /\ cover = {} /\ ~Realigning
      /\ \A S \in {spans, todo, taken, published} : \A s \in S : s.label < n
  BY <1>2 DEF LabelInv, Realigning
<1>4. /\ n \in Nat /\ next \in 0 .. n
      /\ \A S \in {spans, todo, taken, published} : S \subseteq Spans
      /\ pc = "raw" => origin # "given"
      /\ pc = "given" => spans = {} /\ todo = {} /\ taken = {} /\ published = {}
  BY <1>3, SpansAssumption DEF SpansInv, ShapeInv, UseInv, Numbered, Aligned
<1> USE DEF LabelInv
<1>5. CASE GiveLabels
  BY <1>3, <1>4, <1>5 DEF GiveLabels
<1>6. CASE EndRaw
  BY <1>2, <1>4, <1>6 DEF EndRaw
<1>7. CASE Raise
  BY <1>3, <1>7 DEF Raise
<1>8. CASE RelabelFails
  BY <1>3, <1>8 DEF RelabelFails
<1>9. ASSUME NEW start \in Times, NEW end \in Times, RawSpan(start, end) PROVE LabelInv'
  BY <1>2, <1>4, <1>9 DEF RawSpan
<1>10. ASSUME NEW i \in 0 .. MaxSpans - 1, NEW start \in Times, NEW end \in Times,
              Entry(i, start, end)
       PROVE  LabelInv'
  BY <1>3, <1>10 DEF Entry
<1>11. CASE EndReply
  BY <1>3, <1>11 DEF EndReply
<1>12. CASE NoBlocks
  BY <1>3, <1>12 DEF NoBlocks
<1>13. CASE Uncalibrated
  BY <1>3, <1>13 DEF Uncalibrated
<1>14. CASE Solve
  BY <1>3, <1>14 DEF Solve
<1>15. CASE Shift
  BY <1>3, <1>15 DEF Shift
<1>16. CASE OrderNext
  <2>1. \A s \in spans' : s.label < n
    BY <1>3, <1>4, <1>16 DEF OrderNext
  <2>2. QED
    BY <1>3, <1>16, <2>1 DEF OrderNext
<1>17. CASE CheckCoverage
  BY <1>3, <1>17 DEF CheckCoverage, Keep
<1>18. CASE Clean
  <2>1. \A s \in spans' : s.label < n
    BY <1>3, <1>4, <1>18 DEF Clean, Spans
  <2>2. QED
    BY <1>3, <1>18, <2>1 DEF Clean
<1>19. CASE SnapNext
  <2>1. PICK s \in todo :
          /\ todo' = todo \ {s}
          /\ \/ taken' = taken
             \/ \E frame, end : taken' = taken \cup {[s EXCEPT !.start = frame, !.end = end]}
    BY <1>19 DEF SnapNext
  <2>2. \A frame, end : [s EXCEPT !.start = frame, !.end = end].label = s.label
    BY <1>4 DEF Spans
  <2>a. s.label < n /\ \A r \in taken : r.label < n
    BY <1>3
  <2>3. \A r \in taken' : r.label < n
    <3>1. CASE taken' = taken
      BY <2>a, <3>1
    <3>2. CASE \E frame, end : taken' = taken \cup {[s EXCEPT !.start = frame, !.end = end]}
      <4>1. PICK x : x.label = s.label /\ taken' = taken \cup {x}
        BY <2>2, <3>2
      <4>2. QED
        BY <2>a, <4>1
    <3>3. QED
      BY <2>1, <3>1, <3>2
  <2>4. \A r \in todo' : r.label < n
    BY <1>3, <2>1
  <2>5. UNCHANGED <<n, spans, cover, published>>
    BY <1>19 DEF SnapNext
  <2>6. QED
    BY <1>3, <2>3, <2>4, <2>5
<1>20. CASE Stitch
  <2>1. ASSUME NEW s \in published' PROVE s.label < n
    <3>1. PICK r \in taken : \E start, end : s = [r EXCEPT !.start = start, !.end = end]
      BY <1>20 DEF Stitch
    <3>2. s.label = r.label
      BY <1>4, <3>1 DEF Spans
    <3>3. QED
      BY <1>3, <3>2
  <2>2. UNCHANGED <<n, spans, todo, taken, cover>>
    BY <1>20 DEF Stitch
  <2>3. QED
    BY <1>3, <2>1, <2>2
<1>21. CASE StartRealign
  BY <1>2, <1>21 DEF StartRealign
<1>22. CASE Finish
  BY <1>3, <1>22 DEF Finish
<1>23. CASE UNCHANGED vars
  BY <1>3, <1>23 DEF vars
<1>24. QED
  BY <1>5, <1>6, <1>7, <1>8, <1>9, <1>10, <1>11, <1>12, <1>13, <1>14, <1>15, <1>16, <1>17,
     <1>18, <1>19, <1>20, <1>21, <1>22, <1>23 DEF Next

LEMMA IsGiven ==
  ASSUME SpansInv, LabelInv, pc = "done", origin = "given", published # {}
  PROVE  Given
<1>1. Numbered(published) /\ n \in 0 .. MaxSpans /\ n \in Nat /\ Tiles(published)
  BY SpansAssumption DEF SpansInv, ShapeInv, CoverInv
<1>2. \A s \in published : s.label \in 0 .. n - 1 /\ s.end \in Int
  BY <1>1 DEF LabelInv, Numbered, Spans
<1>3. QED
  BY <1>1, <1>2 DEF Given, PublishedLabels, Tiles

LEMMA InvIsHonest ==
  ASSUME SpansInv, LabelInv, Ambiguous = "fail"
  PROVE  ScoreHonest
<1> DEFINE labels == SuppliedLabels
           all == PublishedLabels
           indexed == Predicted(all, TRUE)
           plain == Predicted(all, FALSE)
<1>1. SUFFICES ASSUME pc = "done", origin = "given", published # {}, NEW truth \in Covers(n)
               PROVE  LET score == Scoring!Score(labels, truth, indexed)
                      IN  /\ Scoring!Resolvable(labels, indexed) /\ Scoring!Resolvable(labels, plain)
                          /\ Scoring!Scorable(labels, truth, plain)
                               => Scoring!Score(labels, truth, plain) = score
                          /\ \A i \in all :
                               Scoring!NoBetter(
                                 Scoring!Score(labels, truth, Predicted(all \ {i}, TRUE)), score)
  BY DEF ScoreHonest, SuppliedLabels, PublishedLabels
<1>2. Given
  BY <1>1, IsGiven
<1>3. Scoring!Resolvable(labels, indexed) /\ Scoring!Resolvable(labels, plain)
  BY <1>2, PredictedResolvable
<1>4. Scoring!Score(labels, truth, indexed) = Graded(truth, all)
  BY <1>2, ScoreIs
<1>5. ASSUME Scoring!Scorable(labels, truth, plain)
      PROVE  Scoring!Score(labels, truth, plain) = Graded(truth, all)
  <2>1. ~(Cardinality(Scoring!Candidates(labels, plain)) > 1)
    BY <1>5, SameCount DEF Scoring!Scorable
  <2>2. QED
    BY <1>2, <2>1, ScoreIs
<1>6. ASSUME NEW i \in all
      PROVE  Scoring!NoBetter(Scoring!Score(labels, truth, Predicted(all \ {i}, TRUE)),
                              Graded(truth, all))
  <2>1. all \ {i} \in SUBSET all /\ all \in SUBSET PublishedLabels
    OBVIOUS
  <2>2. Scoring!Score(labels, truth, Predicted(all \ {i}, TRUE)) = Graded(truth, all \ {i})
    BY <1>2, <2>1, ScoreIs
  <2>3. QED
    BY <1>2, <2>1, <2>2, DroppingNoBetter
<1>7. QED
  BY <1>3, <1>4, <1>5, <1>6

(* If the scorer refuses what it cannot read in one way, as it does unless   *)
(* told otherwise, then it is never wrong about a label that occurs twice,   *)
(* and no overlap, error, share of hits or count of placed labels is better  *)
(* without one of the published spans (score_alignment.py 241-349).          *)
THEOREM ScoresAlwaysHonest ==
  ASSUME Ambiguous = "fail"
  PROVE  EpisodeSpec => []ScoreHonest
<1>1. EpisodeInit => LabelInv
  BY LabelInit DEF EpisodeInit
<1>2. SpansInv /\ LabelInv /\ [EpisodeNext]_<< visual, vars >> => LabelInv'
  <2>1. [EpisodeNext]_<< visual, vars >> => [Next]_vars
    BY DEF EpisodeNext, See, Place
  <2>2. QED
    BY <2>1, LabelStep
<1>3. SpansInv /\ LabelInv => ScoreHonest
  BY InvIsHonest
<1>4. QED
  BY <1>1, <1>2, <1>3, EpisodeSpans, PTL DEF EpisodeSpec
=============================================================================
