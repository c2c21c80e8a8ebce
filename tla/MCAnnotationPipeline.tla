------------------------ MODULE MCAnnotationPipeline ------------------------
(* Values of the constants of AnnotationPipeline for TLC. *)
EXTENDS AnnotationPipeline

(* Episode 0 has a shard of its own, the others are packed in one. *)
TwoShards == [e \in Episodes |-> (e + 1) \div 2]

(* Any selection with the cheapest module, and episode 0 with reruns that  *)
(* leave modules out.                                                      *)
SomeEpisodes == [selected : SUBSET Episodes \ {{}}, modules : {{"vqa"}}]
SomeModules  == [selected : {{0}},
                 modules : {Modules, {"plan", "interjections"}, {"vqa"}}]
SomeRequests == SomeEpisodes \cup SomeModules
=============================================================================
