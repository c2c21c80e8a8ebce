------------------------- MODULE MCDatasetRewrite -------------------------
(* Values of the constants of DatasetRewrite for TLC. *)
EXTENDS DatasetRewrite

FrontWrist == <<1, 2>>

Old == Row("assistant", "subtask", 0, NoCamera, <<"old">>, Null)
Frame(e, t, task) == [ep |-> e, ts |-> t, task |-> task, persistent |-> <<Old>>, events |-> << >>]

(* A dropped frame; the second episode shares the first timestamp.         *)
Uneven == <<Frame(0, 0, "tbd"), Frame(0, 1, "tbd"), Frame(0, 4, "tbd"), Frame(1, 0, "")>>
Again  == <<Frame(0, 0, "tbd"), Frame(0, 0, "tbd"), Frame(0, 4, "tbd"), Frame(1, 0, "")>>
Plain  == {"episode_index", "timestamp"}
Lang   == Plain \cup {"persistent", "events"}

TheShards ==
  {[rows |-> rows, columns |-> columns, storage |-> storage] :
     rows \in {Uneven, Again}, storage \in {"parquet", "lance"},
     columns \in {Lang, Plain \cup {"subtask_index", "tools"}, Lang \cup {"tools"}, {"episode_index"}}}

Base ==
  [derive |-> "off", augment |-> "off", phrasings |-> 1, emitPlan |-> TRUE, emitMemory |-> TRUE,
   interjections |-> 1, minTime |-> 1, minSpeech |-> 1, period |-> 2, K |-> 1, minPairs |-> 1,
   restrict |-> TRUE, limit |-> 50, skipValidation |-> FALSE, dropIndex |-> TRUE]

TheConfigs ==
  {Base,
   [Base EXCEPT !.K = 2, !.restrict = FALSE, !.emitMemory = FALSE, !.dropIndex = FALSE],
   [Base EXCEPT !.emitPlan = FALSE, !.interjections = 2, !.skipValidation = TRUE, !.minSpeech = 0],
   [Base EXCEPT !.derive = "if_short", !.augment = "free", !.emitMemory = FALSE, !.minPairs = 0],
   [Base EXCEPT !.derive = "always", !.augment = "axes", !.interjections = 0, !.emitMemory = FALSE,
                !.minPairs = 0]}

TheLabels    == <<"reach", "grasp", "reach">>
ThePhrasings == {<< >>, <<"p">>, <<"derived">>, <<"p", "q">>, <<"q">>}
=============================================================================
