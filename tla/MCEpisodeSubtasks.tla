------------------------- MODULE MCEpisodeSubtasks -------------------------
(* Values of the constants of EpisodeSubtasks for TLC. *)
EXTENDS EpisodeSubtasks, Sequences

-----------------------------------------------------------------------------
(* Spans, in ticks. *)

(* The second label starts later and the third earlier than answered.      *)
BothWays    == [i \in 1 .. 2 |-> IF i = 1 THEN -2 ELSE 1]
(* Equal thirds, as far as ticks allow.                                    *)
EvenThirds  == [i \in 0 .. 2 |-> IF i = 2 THEN 2 ELSE 1]

(* Dropped frames in the middle and at the end of the episode.             *)
Uneven      == {0, 1, 4, 5}
Outside     == {-1, 0, 1, 4, 6}
(* The first and the third label have the same text.                       *)
Repeating   == <<"a", "b", "a">>

-----------------------------------------------------------------------------
(* Requests.  A second is 120 units and two samples are a second apart.      *)

CONSTANTS a, b, camA, camB, camX

Second == 120
At(seconds) == [i \in DOMAIN seconds |-> Second * seconds[i]]

(* Half-second frames that do not start at zero; a long episode; irregular   *)
(* frames, denser and sparser than the samples; a single frame.              *)
Half == [i \in 1 .. 7 |-> 240 + 60 * i]
Long == At(<<0, 1, 2, 3, 4, 5, 6, 7>>)
Dense == [i \in 1 .. 6 |-> <<60, 90, 150, 180, 480, 540>>[i]]
Sparse == At(<<1, 2, 5>>)
Single == At(<<3>>)

Nothing(ts) ==
  [sarm |-> [names |-> <<>>, starts |-> <<>>, ends |-> <<>>], subtasks |-> <<>>,
   atoms |-> <<>>, language |-> <<>>, tasks |-> <<>>, times |-> ts]

Case(from, ts, budget, format, policy, motion, requested) ==
  [origin |-> from, times |-> ts, budget |-> budget, format |-> format,
   policy |-> policy, motion |-> motion, requested |-> requested, record |-> Nothing(ts)]

Generated ==
  {Case("generate", ts, budget, format, policy, FALSE, <<>>) :
     ts \in {Half, Long, Dense, Sparse, Single}, budget \in 1 .. 5,
     format \in {"sheet", "video"}, policy \in {"error", "contact_sheet"}}

Supplied ==
  {Case("given", ts, budget, format, policy, motion, requested) :
     ts \in {Half, Long, Dense, Sparse, Single}, budget \in {1, 2, 3, 5, 7},
     format \in {"sheet", "video"}, policy \in {"error", "contact_sheet"}, motion \in BOOLEAN,
     requested \in { <<>>, << camB, camX, camA >> }}

(* Recorded sources, good, malformed and missing.                            *)
Item(text, start, end) == [text |-> text, start |-> Second * start, end |-> Second * end]
Atom(text, time) == [text |-> text, at |-> Second * time]
Columns == {[names |-> names, starts |-> s, ends |-> At(<<2, 5>>)] :
              names \in {<<>>, << a, NoText >>}, s \in {<<>>, At(<<1, 2>>)}}
Lists == {<<>>, << Item(a, 1, 2), Item(b, 2, 5) >>, << Item(a, 1, 2), Item(b, 5, 5) >>,
          << Item(NoText, 1, 2), Item(b, 2, 5) >>}
Rows == {<<>>, << Atom(b, 2), Atom(a, 1) >>, << Atom(a, 1), Atom(NoText, 2) >>}
Tasks3 == {<<>>} \cup [1 .. 3 -> {a, b, NoText}]

Importing(columns, list, atoms, rows, tasks) ==
  {[Case(from, Sparse, 5, "sheet", "error", FALSE, <<>>) EXCEPT !.record =
      [sarm |-> columns, subtasks |-> list, atoms |-> atoms, language |-> rows,
       tasks |-> tasks, times |-> Sparse]] :
     from \in {"auto", "sarm", "lerobot_annotations", "language", "task_index"}}

NoColumns == [names |-> <<>>, starts |-> <<>>, ends |-> <<>>]

Recorded ==
  UNION ({Importing(NoColumns, <<>>, <<>>, <<>>, tasks) : tasks \in Tasks3}
         \cup {Importing(columns, list, atoms, rows, <<a, a, b>>) :
                 columns \in Columns, list \in Lists, atoms \in Rows, rows \in {<<>>, << Atom(b, 2) >>}})

AllCases == Generated \cup Supplied \cup Recorded
TwoCameras == << camA, camB >>
=============================================================================
