--------------------------- MODULE MCLabelScoring ---------------------------
(* Values of the constants of LabelScoring for TLC. *)
EXTENDS LabelScoring

(* The arms predict one label, in one episode or in both; the pairs of the   *)
(* pilot are on two sides of a contrast, or without a word.                  *)
Annotated == << {"left", "move"}, {"right", "lift"} >>
Sides == {{"left", "right"}}
Pilot == {{{"", "move"}, {"left", "right"}, {"left", "move"}}}

Reply(reasoning, said) == [reasoning |-> reasoning, said |-> said]

(* A match, a non-match after deliberation, one cut off while it deliberated *)
(* and one that says both.                                                   *)
Said4 ==
  {Reply({}, {"yes"}), Reply(Words, {"no"}), Reply({"yes"}, {}), Reply({}, Words)}

-----------------------------------------------------------------------------
(* Episodes. *)

(* A step is three units: from 0 to 7 there are two and a rest, with edges   *)
(* within a step and between two; from 1 to 7 two, or one by rounding; from  *)
(* 1 to 3 less than one.                                                    *)
Edges4 == {0, 1, 3, 7}
Names == {"pick", "take", "grab"}
Two == {"pick", "take"}

(* "take" is like both others, which are not like each other.                *)
Alike ==
  [pair \in Names \X Names |->
     IF pair[1] = pair[2] THEN 2 ELSE IF "take" \in {pair[1], pair[2]} THEN 1 ELSE 0]

Spans(texts) == [start : Edges4, end : Edges4, text : texts]
Forward(told) ==
  /\ \A i \in DOMAIN told : told[i].start <= told[i].end
  /\ \A i \in DOMAIN told \ {1} : told[i - 1].end <= told[i].start

(* Any one or two spans in order, three of two labels; nothing; spans that   *)
(* overlap and one that runs backwards.                                      *)
Wrong == {<< [start |-> 0, end |-> 3, text |-> "pick"], [start |-> 1, end |-> 7, text |-> "take"] >>,
          << [start |-> 3, end |-> 1, text |-> "pick"] >>}
Written ==
  {s \in [1..1 -> Spans(Names)] \cup [1..2 -> Spans(Names)] \cup [1..3 -> Spans(Two)] : Forward(s)}
    \cup Wrong \cup {<< >>}

(* The spans between these times.                                           *)
Tiles(times, texts) ==
  {[i \in 1..(Len(times) - 1) |->
      [start |-> times[i], end |-> times[i + 1], text |-> said[i]]] :
     said \in [1..(Len(times) - 1) -> texts]}

(* Annotations without gaps, in three spans with two labels, and an episode  *)
(* without one.                                                             *)
Annotations ==
  {<< >>}
    \cup UNION {Tiles(times, Names) : times \in {<< 0, 7 >>, << 0, 1, 7 >>, << 0, 3, 7 >>, << 1, 3 >>}}
    \cup UNION {Tiles(times, Two) : times \in {<< 0, 1, 3, 7 >>, << 1, 3, 7 >>}}

(* One episode, for runs that are about the judge.                          *)
Unspoken == {<< >>}
OneTile == Tiles(<< 0, 7 >>, {"pick"})
=============================================================================
