--------------------------- MODULE MCFrameCache ---------------------------
(* Values of the constants of FrameCache for TLC. *)
EXTENDS FrameCache, TLC

CONSTANTS a, b, front, wrist, depth

(* Two episodes of one file.  The clock of the second starts at 10, and it  *)
(* has a gap.                                                               *)
TwoEpisodes == << << 0, 2, 4 >>, << 10, 12, 18, 20 >> >>
OneFile     == << 0, 6 >>

Some(cameras, named) ==
  [declared |-> Range(cameras), video |-> cameras, depth |-> {depth}, named |-> named]

SomeDatasets == {Some(<< depth, front, wrist >>, None), Some(<< >>, None),
                 Some(<< depth >>, None), Some(<< depth >>, wrist)}

NoWrist == {<< wrist, 1 >>}

Ask(e, camera, times, max, insists) ==
  [episode |-> e, camera |-> camera, times |-> times, max |-> max, insists |-> insists]

(* Frames twice and out of order, more than the cache holds, between two    *)
(* frames, of another camera, of a missing view, the whole episode, none.   *)
SomeAsks ==
  {Ask(1, None, << 4, 0, 4 >>, 0, FALSE), Ask(2, None, << 21, 11, 15 >>, 0, TRUE),
   Ask(2, wrist, << 10, 20 >>, 0, FALSE), Ask(1, wrist, << 0 >>, 0, TRUE),
   Ask(2, None, << >>, 3, FALSE), Ask(1, None, << >>, 0, FALSE)}

Symmetric == Permutations(Threads)
=============================================================================
