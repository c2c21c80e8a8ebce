--------------------------- MODULE SubtaskImport ---------------------------
(***************************************************************************)
(* Reading an episode's subtasks from what a dataset already records:       *)
(* SARM columns, meta/lerobot_annotations.json, the persistent language     *)
(* column, and runs of equal tasks.  Only what the code looks at is kept    *)
(* of each; a text is a model value, and NoText is a blank one.             *)
(***************************************************************************)
EXTENDS Filtering, Integers, Sequences, SequencesExt

CONSTANT NoText

Sources == << "sarm", "lerobot_annotations", "language", "task_index" >>

Span(text, start, end) == [text |-> text, start |-> start, end |-> end]

(* The spans that have a text.                                              *)
Titled(spans) == Only(spans, {span \in Range(spans) : span.text # NoText})

(* SARM: three columns, read side by side when they have the same length.   *)
Zipped(columns) ==
  Titled([i \in DOMAIN columns.names |->
            Span(columns.names[i], columns.starts[i], columns.ends[i])])

FromSarm(record) ==
  IF Len(record.sarm.names) = Len(record.sarm.starts) /\ Len(record.sarm.names) = Len(record.sarm.ends)
  THEN Zipped(record.sarm) ELSE <<>>

(* reconstruct_subtask_spans: in the order of their times, each to the next  *)
(* one's start and the last to the end of the episode.                       *)
Reconstructed(rows, last) ==
  LET sorted == SortSeq(rows, LAMBDA r, s : r.at < s.at)
      end(i) == IF i < Len(sorted) THEN sorted[i + 1].at
                ELSE IF last > sorted[i].at THEN last ELSE sorted[i].at
  IN  [i \in DOMAIN sorted |-> Span(sorted[i].text, sorted[i].at, end(i))]

(* An entry that is well formed.                                            *)
GoodSubtask(entry) == entry.text # NoText /\ entry.start < entry.end

(* One malformed entry discards the list.                                   *)
Subtasks(subtasks) ==
  IF \A i \in DOMAIN subtasks : GoodSubtask(subtasks[i]) THEN subtasks ELSE <<>>

Atoms(atoms, last) ==
  IF \E i \in DOMAIN atoms : atoms[i].text = NoText THEN <<>> ELSE Reconstructed(atoms, last)

(* meta/lerobot_annotations.json: atoms count only when no subtasks are      *)
(* listed.                                                                   *)
FromAnnotations(record) ==
  IF record.subtasks # <<>> THEN Subtasks(record.subtasks)
  ELSE Atoms(record.atoms, Last(record.times))

FromLanguage(record) == Reconstructed(record.language, Last(record.times))

(* Where a run of equal tasks starts.                                       *)
Starts(tasks) == {i \in DOMAIN tasks : i = 1 \/ tasks[i] # tasks[i - 1]}

(* Runs of equal tasks, unless the whole episode has one.                    *)
FromTasks(record) ==
  LET first == Only([i \in DOMAIN record.tasks |-> i], Starts(record.tasks))
      end(k) == IF k < Len(first) THEN record.times[first[k + 1]] ELSE Last(record.times)
      runs == [k \in DOMAIN first |-> Span(record.tasks[first[k]], record.times[first[k]], end(k))]
      spans == Titled(runs)
  IN  IF Len(record.tasks) # Len(record.times) \/ Len(spans) <= 1 THEN <<>> ELSE spans

From(source, record) ==
  CASE source = "sarm" -> FromSarm(record)
    [] source = "lerobot_annotations" -> FromAnnotations(record)
    [] source = "language" -> FromLanguage(record)
    [] source = "task_index" -> FromTasks(record)

Tried(import) == IF import = "auto" THEN Sources ELSE << import >>

(* SubtaskImporter.spans_for: the first source that gives any.               *)
Found(import, record) ==
  SelectInSeq(Tried(import), LAMBDA source : From(source, record) # <<>>)
=============================================================================
