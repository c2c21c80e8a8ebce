----------------------------- MODULE ModuleRows -----------------------------
(***************************************************************************)
(* The rows that the plan, interjections and vqa modules stage for one     *)
(* episode, as functions of its frames, the configuration and what the     *)
(* model answered.  Times are ticks, a camera is a positive number, a text *)
(* is a sequence of words (empty: null), and a list in a text is the       *)
(* sequence of its items.                                                  *)
(***************************************************************************)
EXTENDS FiniteSets, SequencesExt, Filtering

CONSTANTS
  Cameras,       \* camera_keys of the frame provider, in its order
  DefaultCamera, \* its camera_key
  BadTasks       \* empty, short or placeholder task strings

ASSUME CamerasAssumption ==
  /\ Cameras \in Seq(Nat \ {0}) /\ DefaultCamera \in Nat
  /\ \A i, j \in DOMAIN Cameras : Cameras[i] = Cameras[j] => i = j
  /\ "" \in BadTasks

NoCamera == 0
NoTime   == -1
Null     == << >>

Row(role, style, ts, camera, text, tools) ==
  [role |-> role, style |-> style, ts |-> ts, camera |-> camera,
   text |-> text, tools |-> tools]

Styled(rows, style) == Only(rows, {r \in ToSet(rows) : r.style = style})
TimesIn(rows)       == {rows[i].ts : i \in DOMAIN rows}

(* Without repetition, in the order of first occurrence.                   *)
Distinct(s) ==
  LET first == Only([i \in DOMAIN s |-> i],
                    {i \in DOMAIN s : \A j \in 1 .. i - 1 : s[j] # s[i]})
  IN  [k \in DOMAIN first |-> s[first[k]]]

(* sorted with a key: of equal keys the first stays first.                 *)
Place(key, i) ==
  Cardinality({j \in DOMAIN key : key[j] < key[i]} \cup {j \in 1 .. i : key[j] = key[i]})
Sorted(s, key) == [k \in DOMAIN s |-> s[CHOOSE i \in DOMAIN s : Place(key, i) = k]]

Distance(a, b) == IF a < b THEN b - a ELSE a - b

(* The frame nearest to t, the first of several.                           *)
NearestIndex(times, t) ==
  LET best == Min({Distance(times[i], t) : i \in DOMAIN times})
  IN  Min({i \in DOMAIN times : Distance(times[i], t) = best})

Snap(times, t) == times[NearestIndex(times, t)]

-----------------------------------------------------------------------------
(* Plan module. *)

(* _resolve_effective_task *)
EffectiveTask(task, config, derived) ==
  IF /\ \/ config.derive = "always"
        \/ config.derive = "if_short" /\ task \in BadTasks
     /\ derived # ""
  THEN derived ELSE task

(* _generate_task_rephrasings: at most n that are not empty.               *)
Rephrasings(raw, n) ==
  LET said == Only(raw, ToSet(raw) \ {""})
  IN  SubSeq(said, 1, Min({n, Len(said)}))

(* _generate_task_aug_by_axes refuses an answer that leaves a variant      *)
(* empty, repeats one or the task, is too long, or lacks paraphrases.      *)
AxesRefused(task, axes, config) ==
  LET all == <<task>> \o axes.synonyms \o axes.omissions
  IN  \/ Contains(Tail(all), "") \/ Distinct(all) # all
      \/ Len(axes.synonyms) # config.phrasings
      \/ Len(axes.omissions) > config.phrasings

Variants(task, config, raw, axes) ==
  CASE config.augment = "axes" -> axes.synonyms \o axes.omissions
    [] config.augment = "free" -> Rephrasings(raw, config.phrasings)

(* _task_aug_rows, the task itself first.                                  *)
TaskAugRows(task, variants, times) ==
  LET all == <<task>> \o variants
      phrasings == Distinct(Only(all, ToSet(all) \ {""}))
  IN  [i \in DOMAIN phrasings |->
         Row("user", "task_aug", Head(times), NoCamera, <<phrasings[i]>>, Null)]

(* _generate_plan: what is still to do at time t.                          *)
Plan(spans, t) ==
  LET left == Only(spans, {s \in ToSet(spans) : s.start >= t})
  IN  [i \in DOMAIN left |-> left[i].text]

SubtaskRows(spans, times) ==
  [i \in DOMAIN spans |->
     Row("assistant", "subtask", Snap(times, spans[i].start), NoCamera, <<spans[i].text>>, Null)]

PlanRow(spans, t) == Row("assistant", "plan", t, NoCamera, Plan(spans, t), Null)

(* A plan at every boundary; none is empty there.                          *)
PlanRows(spans, times) ==
  [i \in DOMAIN spans |-> PlanRow(spans, Snap(times, spans[i].start))]

(* A memory at every later boundary for which the model gave one.          *)
MemoryRows(spans, times, remembered) ==
  LET kept == Only([i \in DOMAIN spans |-> i], remembered)
  IN  [k \in DOMAIN kept |->
         Row("assistant", "memory", Snap(times, spans[kept[k]].start), NoCamera,
             <<"so far">>, Null)]

(* run_episode; an episode without a task is not rephrased.                *)
PlanModule(record, config, said) ==
  LET task == EffectiveTask(record.task, config, said.derived)
  IN  (IF config.augment # "off" /\ task # ""
       THEN TaskAugRows(task, Variants(task, config, said.raw, said.axes), record.times)
       ELSE << >>)
      \o SubtaskRows(said.spans, record.times)
      \o (IF config.emitPlan THEN PlanRows(said.spans, record.times) ELSE << >>)
      \o (IF config.emitMemory
          THEN MemoryRows(said.spans, record.times, said.remembered) ELSE << >>)

(* reconstruct_subtask_spans, the starts of it.                            *)
Spans(rows) ==
  LET staged == Styled(rows, "subtask")
      subtasks == Sorted(staged, [i \in DOMAIN staged |-> staged[i].ts])
  IN  [i \in DOMAIN subtasks |-> [start |-> subtasks[i].ts, text |-> Head(subtasks[i].text)]]

(* run_plan_updates: a plan at every interjection time that has none yet   *)
(* and something left to do.                                               *)
PlanUpdates(rows, record, interjected) ==
  LET planned == TimesIn(Styled(rows, "plan"))
      asked == Distinct([i \in DOMAIN interjected |-> Snap(record.times, interjected[i])])
      new == Only(asked, {t \in ToSet(asked) \ planned : Plan(Spans(rows), t) # << >>})
  IN  rows \o [i \in DOMAIN new |-> PlanRow(Spans(rows), new[i])]

-----------------------------------------------------------------------------
(* Interjections module. *)

SpeechAtom(t, words) == Row("assistant", "", t, NoCamera, Null, <<words>>)

(* Boundaries that may be cued. *)
Cues(spans, config) ==
  {i \in DOMAIN spans : i > 1 /\ spans[i].start >= config.minTime /\ spans[i].text # ""}

(* As many as wanted are drawn from them.                                  *)
Draws(spans, config) ==
  {d \in SUBSET Cues(spans, config) :
     Cardinality(d) = Min({config.interjections, Cardinality(Cues(spans, config))})}

Interjection(t, said) ==
  IF said
  THEN <<Row("user", "interjection", t, NoCamera, <<"next">>, Null), SpeechAtom(t, "on it")>>
  ELSE << >>

(* run_episode: initial speech and the drawn boundaries with a full answer. *)
InterjectionsModule(record, spans, drawn, said) ==
  LET cues == Only([i \in DOMAIN spans |-> i], drawn)
  IN  (IF said.greets THEN <<SpeechAtom(Head(record.times), "hello")>> ELSE << >>)
      \o FlattenSeq([k \in DOMAIN cues |->
           Interjection(Snap(record.times, spans[cues[k]].start), cues[k] \in said.cued)])

-----------------------------------------------------------------------------
(* VQA module. *)

Ticks(times, period) ==
  [k \in 1 .. (Last(times) - Head(times)) \div period + 1 |-> Head(times) + (k - 1) * period]

(* _emission_anchor_indices: K frames from the one nearest to each emission *)
(* time, each frame once.                                                  *)
Anchors(times, config) ==
  LET ticks == Ticks(times, config.period)
      next(k) == LET nearest == NearestIndex(times, ticks[k])
                 IN  [o \in 1 .. config.K |-> nearest + o - 1]
  IN  Distinct(FlattenSeq([k \in DOMAIN ticks |-> Only(next(k), DOMAIN times)]))

(* _target_cameras *)
TargetCameras(config) ==
  IF config.restrict /\ Contains(Cameras, DefaultCamera) THEN <<DefaultCamera>> ELSE Cameras

(* One call for every anchor and camera.                                   *)
Calls(record, config) ==
  LET anchors == Anchors(record.times, config)
      cameras == TargetCameras(config)
  IN  FlattenSeq([a \in DOMAIN anchors |->
        [c \in DOMAIN cameras |-> [ts |-> record.times[anchors[a]], camera |-> cameras[c]]]])

(* _postprocess keeps an answer of a known shape to a question.            *)
Pair(call, shape) ==
  IF shape # ""
  THEN <<Row("user", "vqa", call.ts, call.camera, <<"question">>, Null),
         Row("assistant", "vqa", call.ts, call.camera, <<shape>>, Null)>>
  ELSE << >>

VqaModule(record, config, shapes) ==
  LET calls == Calls(record, config)
  IN  FlattenSeq([i \in DOMAIN calls |-> Pair(calls[i], shapes[i])])
=============================================================================
