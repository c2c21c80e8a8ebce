-------------------------- MODULE LanguageColumns --------------------------
(***************************************************************************)
(* One annotation run over one parquet shard, row by row: reader.py makes  *)
(* records of the shard, the modules stage their rows (ModuleRows),        *)
(* validator.py checks them, and writer.py puts them into the language     *)
(* columns.  AnnotationPipeline has several runs, shards and threads, and  *)
(* no rows; here it is the rows that matter.                               *)
(***************************************************************************)
EXTENDS ModuleRows

CONSTANTS
  Shards,      \* the shards a run may be started on
  Configs,     \* the configurations it may have
  Selections,  \* values of only_episodes
  Labels,      \* texts of the first, second, ... subtask of an episode
  Phrasings,   \* bound: lists of task phrasings the model may answer with
  Shapes       \* kinds of VQA answers; "" is none that is known

(* A shard is its rows, its columns and how it is stored, and a row is what *)
(* it says of its frame and its language columns.                           *)
ASSUME ShardsAssumption ==
  \A sh \in Shards :
    /\ sh = [rows |-> sh.rows, columns |-> sh.columns, storage |-> sh.storage]
    /\ sh.rows \in Seq(ToSet(sh.rows))
    /\ \A row \in ToSet(sh.rows) :
         /\ row = [ep |-> row.ep, ts |-> row.ts, task |-> row.task,
                   persistent |-> row.persistent, events |-> row.events]
         /\ row.ts \in Int

ASSUME ConfigsAssumption ==
  \A cfg \in Configs :
    /\ cfg.period \in Nat \ {0} /\ {cfg.K, cfg.phrasings} \subseteq Nat
    /\ cfg.augment \in {"off", "free", "axes"}

ASSUME PhrasingsAssumption == Phrasings \subseteq Seq(STRING)

VARIABLES
  phase,      \* of the executor
  shard,      \* rows and columns of the parquet file
  config,
  selected,   \* only_episodes
  records,    \* frame timestamps and task of each selected episode
  waiting,    \* episodes the phase has not done
  staged,     \* staged rows, by episode and module
  skipped     \* episodes that were found incomplete

columnVars == <<phase, shard, config, selected, records, waiting, staged, skipped>>

Modules == {"plan", "interjections", "vqa"}
Unstaged == [m \in Modules |-> << >>]

-----------------------------------------------------------------------------
(* lerobot.datasets.language, as the code uses it. *)

Persistent == {"task_aug", "subtask", "plan", "memory"}
EventOnly  == {"interjection", "vqa"}
InEvents(row) == row.style \notin Persistent
CameraOK(row) == (row.style = "vqa") <=> (row.camera # NoCamera)

-----------------------------------------------------------------------------
(* Reader. *)

EpisodesIn(sh) == {sh.rows[i].ep : i \in DOMAIN sh.rows}
RowsOf(sh, e)  == Only(sh.rows, {r \in ToSet(sh.rows) : r.ep = e})

(* _build: of the rows of an episode, the first names the task.            *)
Record(sh, e) ==
  LET rows == RowsOf(sh, e)
  IN  [times |-> [i \in DOMAIN rows |-> rows[i].ts], task |-> Head(rows).task]

TimesOK(times) ==
  /\ \A i \in DOMAIN times : times[i] >= 0
  /\ \A i, j \in DOMAIN times : i < j => times[i] < times[j]

(* Selected episodes become records, until the first error; others are not *)
(* looked at.                                                              *)
ReadableShard(sh, eps) ==
  /\ sh.storage = "parquet" /\ "timestamp" \in sh.columns
  /\ eps # {}
  /\ \A e \in eps : TimesOK(Record(sh, e).times)

(* dropped_columns *)
Dropped(cfg) == IF cfg.dropIndex THEN {"subtask_index", "tools"} ELSE {"tools"}

Canonical(sh, cfg) ==
  {"persistent", "events"} \subseteq sh.columns /\ sh.columns \cap Dropped(cfg) = {}

(* validate_write_scope of one shard.                                      *)
WriteScope(sh, eps, cfg) == Canonical(sh, cfg) \/ eps = EpisodesIn(sh)

ColumnsInit ==
  /\ shard \in Shards /\ config \in Configs /\ selected \in Selections
  /\ phase = "read"
  /\ records = << >> /\ waiting = {} /\ skipped = {}
  /\ staged = [e \in EpisodesIn(shard) |-> Unstaged]

Read ==
  LET eps == selected \cap EpisodesIn(shard)
  IN  /\ phase = "read"
      /\ IF ReadableShard(shard, eps) /\ WriteScope(shard, eps, config)
         THEN /\ phase' = "plan" /\ waiting' = eps
              /\ records' = [e \in eps |-> Record(shard, e)]
         ELSE phase' = "refused" /\ UNCHANGED <<waiting, records>>
      /\ UNCHANGED <<shard, config, selected, staged, skipped>>

-----------------------------------------------------------------------------
(* Modules, one episode after the other. *)

NextPhase == [plan |-> "interjections", interjections |-> "update",
          update |-> "vqa", vqa |-> "validate"]

(* The phase goes to its next episode, or the run to its next phase.       *)
Advance(e) ==
  IF waiting = {e}
  THEN phase' = NextPhase[phase] /\ waiting' = DOMAIN records
  ELSE phase' = phase /\ waiting' = waiting \ {e}

First(e) == e \in waiting /\ \A f \in waiting : e <= f

StageRows(e, m, rows) ==
  /\ staged' = [staged EXCEPT ![e][m] = rows]
  /\ Advance(e)
  /\ UNCHANGED <<shard, config, selected, records, skipped>>

(* Subtasks start on distinct frames, the first of them on the first frame *)
(* (SubtaskSpans).                                                         *)
SpanSequences(times) ==
  LET sequence(starts) == [k \in DOMAIN starts |-> [start |-> starts[k], text |-> Labels[k]]]
  IN  {sequence(Only(times, s)) :
         s \in {s \in SUBSET ToSet(times) : Head(times) \in s /\ Cardinality(s) <= Len(Labels)}}

(* A memory is asked for at every later boundary and may be missing.       *)
PlanPhase(e) ==
  /\ phase = "plan" /\ First(e)
  /\ \E derived \in IF config.derive = "off" THEN {""} ELSE {"", "derived"},
        raw, omissions \in IF config.augment = "off" THEN {<< >>} ELSE Phrasings,
        spans \in SpanSequences(records[e].times) :
       \E remembered \in SUBSET (DOMAIN spans \ {1}) :
         LET axes == [synonyms |-> raw, omissions |-> omissions]
             task == EffectiveTask(records[e].task, config, derived)
         IN  /\ config.augment = "axes" /\ task # "" => ~AxesRefused(task, axes, config)
             /\ config.augment # "axes" => omissions = raw
             /\ StageRows(e, "plan", PlanModule(records[e], config,
                  [derived |-> derived, raw |-> raw, axes |-> axes,
                   spans |-> spans, remembered |-> remembered]))

(* The spans are read back from the plan module's file.                    *)
InterjectionsPhase(e) ==
  LET spans == Spans(staged[e].plan)
  IN  /\ phase = "interjections" /\ First(e)
      /\ \E drawn \in Draws(spans, config), greets \in BOOLEAN :
           \E cued \in SUBSET drawn :
             StageRows(e, "interjections",
                   InterjectionsModule(records[e], spans, drawn,
                                       [greets |-> greets, cued |-> cued]))

UpdatePhase(e) ==
  LET cues == Styled(staged[e].interjections, "interjection")
  IN  /\ phase = "update" /\ First(e)
      /\ StageRows(e, "plan",
               IF config.emitPlan
               THEN PlanUpdates(staged[e].plan, records[e], [i \in DOMAIN cues |-> cues[i].ts])
               ELSE staged[e].plan)

VqaPhase(e) ==
  /\ phase = "vqa" /\ First(e)
  /\ \E shapes \in [DOMAIN Calls(records[e], config) -> Shapes] :
       StageRows(e, "vqa", VqaModule(records[e], config, shapes))

(* The model, a refused answer, a frame that cannot be had.                *)
ModuleFails ==
  /\ phase \in {"plan", "interjections", "vqa"} /\ phase' = "failed"
  /\ UNCHANGED <<shard, config, selected, records, waiting, staged, skipped>>

-----------------------------------------------------------------------------
(* Validator. *)

Staged(e)  == staged[e].plan \o staged[e].interjections \o staged[e].vqa
Events(e)  == Only(Staged(e), {r \in ToSet(Staged(e)) : InEvents(r)})
Lasting(e) == Only(Staged(e), {r \in ToSet(Staged(e)) : ~InEvents(r)})

At(rows, t) == Only(rows, {r \in ToSet(rows) : r.ts = t})
(* At every time there are as many rows of one style as of the other.      *)
Covers(rows, style, times) ==
  LET made == Styled(rows, style)
      subtasks == Styled(rows, "subtask")
  IN  \A t \in times : Len(At(made, t)) >= Len(At(subtasks, t))

TaskAugOwed(rows, cfg) ==
  LET n == Len(Styled(rows, "task_aug"))
  IN  \/ cfg.augment = "axes" /\ n < 1 + cfg.phrasings
      \/ cfg.augment = "free" /\ n \notin 1 .. 1 + cfg.phrasings

Speech(rows) == Only(rows, {r \in ToSet(rows) : r.style = "" /\ r.role = "assistant"})

Pairs(rows) ==
  LET asked(role) == {[ts |-> rows[i].ts, camera |-> rows[i].camera] :
                        i \in {i \in DOMAIN rows : rows[i].role = role}}
  IN  asked("user") \cap asked("assistant")

(* _check_enabled_module_completeness *)
Incomplete(e) ==
  LET rows == staged[e].plan
      starts == TimesIn(Styled(rows, "subtask"))
      cued == TimesIn(Styled(staged[e].interjections, "interjection"))
  IN  \/ TaskAugOwed(rows, config)
      \/ config.emitPlan /\ ~(cued \subseteq TimesIn(Styled(rows, "plan")))
      \/ starts = {}
      \/ config.emitPlan /\ ~Covers(rows, "plan", starts)
      \/ config.emitMemory /\ ~Covers(rows, "memory", starts \ {Min(starts)})
      \/ Len(Speech(staged[e].interjections)) < config.minSpeech
      \/ Cameras # << >> /\ Cardinality(Pairs(staged[e].vqa)) < config.minPairs

(* The structural checks.                                                  *)
Misrouted(e) ==
  \/ \E r \in ToSet(staged[e].plan) : InEvents(r)
  \/ \E m \in Modules \ {"plan"} : \E r \in ToSet(staged[e][m]) : ~InEvents(r)

WrongCamera(row) ==
  \/ ~CameraOK(row)
  \/ row.style = "vqa" /\ Cameras # << >> /\ ~Contains(Cameras, row.camera)

OffFrame(e) == ~(TimesIn(Events(e)) \subseteq ToSet(records[e].times))

Unspoken(e) == ~(TimesIn(Styled(Events(e), "interjection")) \subseteq TimesIn(Speech(Events(e))))

Unplanned(e) ==
  ~(TimesIn(Styled(Events(e), "interjection")) \subseteq TimesIn(Styled(Lasting(e), "plan")))

UnknownShape(e) ==
  \E r \in ToSet(Styled(Events(e), "vqa")) : r.role = "assistant" /\ r.text \in {Null, <<"">>}

Repeated(e) ==
  LET vqa == Styled(Events(e), "vqa")
  IN  \E i, j \in DOMAIN vqa : /\ i # j /\ vqa[i].ts = vqa[j].ts
                               /\ vqa[i].camera = vqa[j].camera /\ vqa[i].role = vqa[j].role

SoundRows(e) ==
  ~ \/ Misrouted(e) \/ OffFrame(e) \/ Unspoken(e) \/ UnknownShape(e) \/ Repeated(e)
    \/ \E r \in ToSet(Lasting(e) \o Events(e)) : WrongCamera(r)

Refused ==
  LET left == DOMAIN records
      out == {e \in left : Incomplete(e)}
  IN  \/ out = left
      \/ 100 * Cardinality(out) > config.limit * Cardinality(left)
      \/ ~config.skipValidation /\ \E e \in left \ out : ~SoundRows(e) \/ Unplanned(e)

Validate ==
  /\ phase = "validate"
  /\ skipped' = {e \in DOMAIN records : Incomplete(e)}
  /\ phase' = IF Refused THEN "refused" ELSE "write"
  /\ UNCHANGED <<shard, config, selected, records, waiting, staged>>

-----------------------------------------------------------------------------
(* Writer. *)

StyleRank == [s \in Persistent \cup EventOnly \cup {""} |->
  CASE s = "" -> 0 [] s = "interjection" -> 1 [] s = "memory" -> 2 [] s = "plan" -> 3
    [] s = "subtask" -> 4 [] s = "task_aug" -> 5 [] s = "vqa" -> 6]

(* _row_persistent_sort_key and _row_event_sort_key, as one number.         *)
Key(row, time, camera) ==
  1000 * time + 100 * StyleRank[row.style] + (IF row.role = "user" THEN 10 ELSE 0) + camera

PersistentSlice(e) ==
  LET rows == Lasting(e)
  IN  Sorted(rows, [i \in DOMAIN rows |-> Key(rows[i], rows[i].ts, 0)])

(* The column of a row tells its time.                                     *)
Untimed(rows) == [i \in DOMAIN rows |-> [rows[i] EXCEPT !.ts = NoTime]]

(* One bucket for a timestamp, whichever episode it is from.               *)
BugOneBucket(e, t) ==
  LET eps == SetToSeq(DOMAIN records)
  IN  Untimed(At(FlattenSeq([k \in DOMAIN eps |-> Events(eps[k])]), t))

(* The events of an episode at a time; an event row holds no time.         *)
Bucket(e, t) ==
  LET at == At(Events(e), t)
  IN  Untimed(Sorted(at, [i \in DOMAIN at |-> Key(at[i], 0, at[i].camera)]))

(* _validate_atom_invariants, _validate_speech_atom, _normalize_*_row      *)
Malformed(row) ==
  \/ row.text = Null /\ row.tools = Null
  \/ row.style = "" /\ (row.tools = Null \/ row.text # Null \/ row.role # "assistant")
  \/ row.style \notin Persistent \cup EventOnly \cup {""}
  \/ ~CameraOK(row)

Replaced == DOMAIN records \ skipped

(* The rows of every selected episode are replaced. *)
BugReplacesSkipped(row) ==
  IF row.ep \in DOMAIN records
  THEN [row EXCEPT !.persistent = PersistentSlice(row.ep), !.events = Bucket(row.ep, row.ts)]
  ELSE row

(* A row of the rewritten shard: the persistent slice on every frame, the  *)
(* events on theirs; other episodes keep what they had.                    *)
Rewritten(row) ==
  IF row.ep \in Replaced
  THEN [row EXCEPT !.persistent = PersistentSlice(row.ep), !.events = Bucket(row.ep, row.ts)]
  ELSE row

(* _materialize_table *)
Columns == (shard.columns \ Dropped(config)) \cup {"persistent", "events"}

Write ==
  /\ phase = "write"
  /\ IF \E e \in Replaced : \E r \in ToSet(Lasting(e) \o Events(e)) : Malformed(r)
     THEN phase' = "failed" /\ UNCHANGED shard
     ELSE /\ phase' = "done"
          /\ shard' = [shard EXCEPT !.rows = [i \in DOMAIN @ |-> Rewritten(@[i])],
                                    !.columns = Columns]
  /\ UNCHANGED <<config, selected, records, waiting, staged, skipped>>

ColumnsNext ==
  \/ Read
  \/ \E e \in waiting :
       \/ PlanPhase(e) \/ InterjectionsPhase(e) \/ UpdatePhase(e) \/ VqaPhase(e)
  \/ ModuleFails \/ Validate \/ Write

ColumnsSpec == ColumnsInit /\ [][ColumnsNext]_columnVars
-----------------------------------------------------------------------------
(* Properties. *)

Frames(e) == {i \in DOMAIN shard.rows : shard.rows[i].ep = e}
Written   == IF phase = "done" THEN Replaced ELSE {}

(* The same rows, each as often, in any order.                             *)
SameRows(a, b) ==
  LET count(s, r) == Cardinality({i \in DOMAIN s : s[i] = r})
  IN  /\ Len(a) = Len(b)
      /\ \A r \in ToSet(a) : count(a, r) = count(b, r)

RowTypes ==
  /\ phase \in {"read", "plan", "interjections", "update", "vqa", "validate", "write",
             "done", "failed", "refused"}
  /\ config \in Configs /\ selected \in Selections
  /\ DOMAIN records \subseteq EpisodesIn(shard) /\ waiting \subseteq DOMAIN records
  /\ skipped \subseteq DOMAIN records
  /\ \A e \in DOMAIN records : TimesOK(records[e].times)
  /\ \A e \in DOMAIN staged, m \in Modules :
     \A i \in DOMAIN staged[e][m] :
       LET row == staged[e][m][i]
       IN  /\ row.role \in {"user", "assistant"}
           /\ row.style \in Persistent \cup EventOnly \cup {""}
           /\ row.camera \in {NoCamera} \cup ToSet(Cameras)
           /\ Contains(records[e].times, row.ts)

(* What the modules stage passes every structural check, whatever the      *)
(* model answers and however emission times, frames and cameras fall: the  *)
(* checks guard against a change of the modules.  Without plans an         *)
(* interjection has none at its time (general_vqa.py 55-87, 223-236;       *)
(* interjections_and_speech.py 131-172; validator.py 344-520).             *)
OwnRowsPass ==
  /\ RowTypes
  /\ phase = "validate" =>
       \A e \in DOMAIN records : SoundRows(e) /\ (config.emitPlan => ~Unplanned(e))

(* Every staged event is on exactly the frame it was staged for and on no  *)
(* frame of another episode that has the same timestamp, and every frame   *)
(* carries all persistent rows (writer.py 363-429, which joins rows and    *)
(* frames on equal floating-point timestamps).                             *)
EveryRowOnce ==
  \A e \in Written : \A i \in Frames(e) :
    LET row == shard.rows[i]
    IN  /\ SameRows(row.persistent, Lasting(e))
        /\ SameRows(row.events, Untimed(At(Events(e), row.ts)))
        /\ \A x \in ToSet(Events(e)) :
             Cardinality({j \in Frames(e) : shard.rows[j].ts = x.ts}) = 1

(* The last rows of a style that a frame sees.                             *)
Latest(row, style) ==
  LET now == {r \in ToSet(row.persistent) : r.style = style /\ r.ts <= row.ts}
  IN  Only(row.persistent, {r \in now : \A s \in now : s.ts <= r.ts})

(* What a reader of the columns finds active on a frame: one subtask, with *)
(* plans on one plan that is that subtask and all later ones, and with     *)
(* memories on, from the second subtask, the memory made when it began     *)
(* (ANNOTATION_PIPELINE.md: the renderer takes the latest row of a style). *)
ActiveState ==
  \A e \in Written : \A i \in Frames(e) :
    LET row == shard.rows[i]
        subtask == Head(Latest(row, "subtask"))
        subtasks == Styled(row.persistent, "subtask")
        toDo == Only(subtasks, {r \in ToSet(subtasks) : r.ts >= subtask.ts})
    IN  /\ Len(Latest(row, "subtask")) = 1
        /\ config.emitPlan =>
             /\ Len(Latest(row, "plan")) = 1
             /\ Head(Latest(row, "plan")).text = [k \in DOMAIN toDo |-> Head(toDo[k].text)]
        /\ config.emitMemory /\ subtask.ts # Min(TimesIn(subtasks)) =>
             Len(Latest(row, "memory")) = 1 /\ Head(Latest(row, "memory")).ts = subtask.ts

(* After a run that migrated the shard every partial run over it is        *)
(* allowed, as the refusal of the first one promises (writer.py 334-339).  *)
PartialRunsSafe ==
  phase = "done" => \A eps \in SUBSET EpisodesIn(shard) : WriteScope(shard, eps, config)

(* What is in the shard after a run is what was staged, read the way its   *)
(* readers do, and other runs may go on from it.                           *)
ColumnsRight == EveryRowOnce /\ ActiveState /\ PartialRunsSafe

(* A row on its way from a module to a reader of the dataset: it passes the  *)
(* checks and ends on its frame.                                            *)
RowsRight == OwnRowsPass /\ ColumnsRight

(* Episodes the run did not select, or found incomplete, keep their rows   *)
(* in a shard that is rewritten as a whole, and nothing is written by a    *)
(* run that fails or is refused (writer.py 417-429, executor.py 178-219).  *)
OthersKept ==
  [][\A i \in DOMAIN shard.rows :
       shard'.rows[i] # shard.rows[i] =>
         /\ phase' = "done"
         /\ shard.rows[i].ep \in selected
         /\ ~Incomplete(shard.rows[i].ep)]_columnVars
=============================================================================
