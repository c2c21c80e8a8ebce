------------------------------ MODULE JudgeCache -----------------------------
(***************************************************************************)
(* run_judge.py and JudgeMatcher of metrics/semantic.py: the verdicts of an *)
(* LLM judge on pairs of labels, and the append-only file that keeps them.  *)
(*                                                                           *)
(* A pre-warm asks for the pairs that scoring will look up, batch by batch   *)
(* and several at a time, and writes each batch to the file before it asks   *)
(* the next. Scoring looks pairs up one by one and asks what it misses.      *)
(* Requests fail and are retried, replies cannot be read, a program is       *)
(* killed anywhere and run again, the arms write more predictions, and the   *)
(* judge is exchanged for another model.                                     *)
(*                                                                           *)
(* A label stands for its normalised text. A pair is an unordered one: a set *)
(* of one or two labels.                                                     *)
(***************************************************************************)
EXTENDS Integers, Sequences, FiniteSets, FiniteSetsExt

CONSTANTS
  None,
  Labels,      \* normalised labels
  Vocabulary,  \* those that the arms predict
  Empty,       \* the label without a word
  Contrasting, \* pairs of labels on the two sides of a contrast
  Truth,       \* per scored episode: the labels of its annotation
  Extra,       \* the sets of pairs that are given with --pairs-json
  Models,      \* judges
  Replies,     \* completions: the words of their reasoning, and what they say
  Limits,      \* values of --limit; None is no limit
  BatchSize, Workers, MaxRetries,
  MaxRuns,     \* bound: runs
  MaxFaults    \* bound: kills, and requests and replies that fail for good

Words == {"yes", "no"}
Episodes == DOMAIN Truth
Pairs == {{a, b} : a \in Labels, b \in Labels}

ASSUME JudgeAssumption ==
  /\ IsFiniteSet(Labels) /\ Empty \in Labels /\ Vocabulary \subseteq Labels
  /\ Contrasting \subseteq Pairs
  /\ \A e \in Episodes : Truth[e] \subseteq Labels
  /\ \A pairs \in Extra : pairs \subseteq Pairs
  /\ Replies \subseteq [reasoning : SUBSET Words, said : SUBSET Words]
  /\ Limits \subseteq Nat \cup {None} /\ None \notin Nat
  /\ BatchSize \in Nat \ {0} /\ Workers \in Nat \ {0} /\ MaxRetries \in Nat \ {0}
  /\ MaxRuns \in Nat /\ MaxFaults \in Nat

ASSUME NoneAssumption ==
  None \notin [kind : {"warm", "score"}, model : Models, pairs : SUBSET Pairs,
               limit : Limits \cup {None}, allow : BOOLEAN]

VARIABLES
  predicted,  \* per episode: the labels in the predictions on disk
  lines,      \* the file: per key its verdicts, in the order they were written
  run,        \* the run: kind, model, pairs, limit and allow; or None
  pc,         \* where it is
  memory,     \* JudgeMatcher._cache: the keys it has
  todo,       \* pairs to ask in later batches
  batch,      \* per pair of the batch: what became of it
  unwritten,  \* per resolved pair that is not yet in the file: its verdict
  stats,      \* yes, no, unparseable: JudgeStats; free, written, failures: of the run
  answered,   \* what the judges said: [pair, model, verdict]; to scoring also nothing
  warmed,     \* the pairs and models of pre-warms that reported no gap
  runs, faults

vars == << predicted, lines, run, pc, memory, todo, batch, unwritten, stats, answered,
           warmed, runs, faults >>
program == << run, memory >>
counters == << runs, faults >>

-----------------------------------------------------------------------------
(* Pairs, keys and verdicts.                                                *)

Key(pair, model) == << pair, model >>
Keys == {Key(p, m) : p \in Pairs, m \in Models}

(* contrast_conflict: no judge is asked.                                    *)
Guarded(pair) == pair \in Contrasting

(* Settled without a call: the same label twice, or one without a word.     *)
Free(pair) == Cardinality(pair) = 1 \/ Empty \in pair
FreeVerdict(pair) == IF Cardinality(pair) = 1 THEN "yes" ELSE "no"

(* A verdict is also read in the reasoning.                                 *)
BugParse(reply) ==
  LET words == reply.reasoning \cup reply.said
  IN  IF Cardinality(words) = 1 THEN CHOOSE w \in words : TRUE ELSE "unparseable"

(* parse_verdict: the one word, or the one value of the recognised keys,     *)
(* outside the reasoning, which may have been cut off.                       *)
Parse(reply) ==
  IF Cardinality(reply.said) = 1 THEN CHOOSE w \in reply.said : TRUE ELSE "unparseable"

(* enumerate_pairs: the labels of a prediction against those of the          *)
(* annotation of the same episode, for every scored episode.                 *)
Needed(labels) ==
  UNION {{{l, r} : l \in labels[e], r \in Truth[e]} : e \in Episodes}

Counts == {"yes", "no", "unparseable", "free", "written", "failures"}
Nothing == [c \in Counts |-> 0]

Init ==
  /\ predicted = [e \in Episodes |-> {}] /\ lines = [k \in Keys |-> << >>]
  /\ run = None /\ pc = "idle" /\ memory = {} /\ stats = Nothing
  /\ todo = {} /\ batch = << >> /\ unwritten = << >>
  /\ answered = {} /\ warmed = {} /\ runs = 0 /\ faults = 0

(* The arms write predictions.                                              *)
Predict(e, label) ==
  /\ run = None /\ label \notin predicted[e]
  /\ predicted' = [predicted EXCEPT ![e] = @ \cup {label}]
  /\ UNCHANGED << lines, pc, todo, batch, unwritten, stats, answered, warmed, program, counters >>

-----------------------------------------------------------------------------
(* A pre-warm.                                                              *)

Cached == {k \in Keys : lines[k] # << >>}

(* The matcher starts without the verdicts of earlier runs.                 *)
BugLoaded == {}

Loaded == Cached

(* Pairs for which a judge has to be asked, and those settled without.       *)
Asked(pairs, model) ==
  {p \in pairs : ~Guarded(p) /\ Key(p, model) \notin Cached /\ ~Free(p)}
Settled(pairs, model) ==
  {p \in pairs : ~Guarded(p) /\ Key(p, model) \notin Cached /\ Free(p)}

(* The first of the pairs, in the order that all runs sort them in.          *)
First(count, pairs) ==
  IF count = None \/ count >= Cardinality(pairs) THEN pairs
  ELSE CHOOSE taken \in kSubset(count, pairs) : TRUE

Begin(kind, model, pairs, limit, allow) ==
  /\ run = None /\ runs < MaxRuns /\ runs' = runs + 1
  /\ run' = [kind |-> kind, model |-> model, pairs |-> pairs, limit |-> limit, allow |-> allow]
  /\ memory' = Loaded
  /\ UNCHANGED << predicted, lines, batch, answered, warmed, faults >>

(* "no label pairs found" ends a pre-warm before it began. Free verdicts are *)
(* written first.                                                            *)
Warm(model, limit, allow) ==
  \E pairs \in {Needed(predicted)} \cup Extra :
    /\ pairs # {}
    /\ Begin("warm", model, pairs, limit, allow)
    /\ todo' = First(limit, Asked(pairs, model))
    /\ unwritten' = [p \in Settled(pairs, model) |-> FreeVerdict(p)]
    /\ stats' = [Nothing EXCEPT !.free = Cardinality(Settled(pairs, model))]
    /\ pc' = "commit"

(* commit, for one pair: JudgeMatcher looks it up, finds nothing, is told the *)
(* verdict and appends it.                                                   *)
Write(pair, verdict) ==
  LET key == Key(pair, run.model)
  IN  /\ lines' = [lines EXCEPT ![key] = Append(@, verdict)]
      /\ memory' = memory \cup {key}

Commit ==
  /\ pc = "commit" /\ DOMAIN unwritten # {}
  /\ LET p == CHOOSE p \in DOMAIN unwritten : TRUE
     IN  /\ IF Key(p, run.model) \in memory
              THEN UNCHANGED << lines, memory >> ELSE Write(p, unwritten[p])
         /\ unwritten' = [q \in DOMAIN unwritten \ {p} |-> unwritten[q]]
         /\ stats' = [stats EXCEPT !.written = @ + 1]
  /\ UNCHANGED << predicted, run, pc, todo, batch, answered, warmed, counters >>

Fresh == [state |-> "queued", attempts |-> 0]

(* A batch is asked when the one before is in the file.                     *)
AskBatch ==
  /\ pc = "commit" /\ DOMAIN unwritten = {} /\ todo # {}
  /\ LET pairs == First(BatchSize, todo)
     IN  batch' = [p \in pairs |-> Fresh] /\ todo' = todo \ pairs
  /\ pc' = "ask"
  /\ UNCHANGED << predicted, lines, unwritten, stats, answered, warmed, program, counters >>

Becomes(pair, state) == batch' = [batch EXCEPT ![pair].state = state]
AskOnly == UNCHANGED << predicted, lines, pc, todo, unwritten, warmed, program >>

(* A worker takes a pair.                                                   *)
Post(pair) ==
  /\ pc = "ask" /\ batch[pair].state = "queued"
  /\ Cardinality({p \in DOMAIN batch : batch[p].state = "asking"}) < Workers
  /\ Becomes(pair, "asking")
  /\ AskOnly /\ UNCHANGED << stats, answered, counters >>

Fault == faults < MaxFaults /\ faults' = faults + 1

(* A timeout, a 5xx, a 429 or an unreadable body: asked again, until the     *)
(* attempts are used up.                                                     *)
Retry(pair) ==
  /\ pc = "ask" /\ batch[pair].state = "asking"
  /\ LET attempts == batch[pair].attempts + 1
         gives    == attempts >= MaxRetries
     IN  batch' = [batch EXCEPT ![pair] =
                     [state |-> IF gives THEN "failed" ELSE "asking", attempts |-> attempts]]
  /\ AskOnly /\ UNCHANGED << stats, answered, counters >>

(* A 4xx other than 429, or a response without a choice: a JudgeError.       *)
Reject(pair) ==
  /\ pc = "ask" /\ batch[pair].state = "asking" /\ Fault
  /\ Becomes(pair, "failed")
  /\ AskOnly /\ UNCHANGED << stats, answered, runs >>

(* An error that nobody expects, such as a body that breaks off.             *)
Break(pair) ==
  /\ pc = "ask" /\ batch[pair].state = "asking" /\ Fault
  /\ Becomes(pair, "broken")
  /\ AskOnly /\ UNCHANGED << stats, answered, runs >>

(* What a reply says outside its reasoning.                                 *)
Meant(reply) == {w \in Words : reply.said = {w}}

Said(pair, verdicts) ==
  answered' = answered \cup
    {[pair |-> pair, model |-> run.model, verdict |-> w] : w \in verdicts}

(* JudgeClient.__call__, strict: a reply that cannot be read is an error.    *)
Answer(pair) ==
  /\ pc = "ask" /\ batch[pair].state = "asking"
  /\ \E reply \in Replies :
       LET verdict == Parse(reply)
       IN  /\ verdict \in Words \/ faults < MaxFaults
           /\ faults' = IF verdict \in Words THEN faults ELSE faults + 1
           /\ Becomes(pair, IF verdict \in Words THEN verdict ELSE "failed")
           /\ stats' = [stats EXCEPT ![verdict] = @ + 1]
           /\ Said(pair, Meant(reply))
  /\ AskOnly /\ UNCHANGED runs

(* A pair that failed is waited for.                                        *)
BugEnded == \A p \in DOMAIN batch : batch[p].state \in Words \cup {"broken"}

Ended == \A p \in DOMAIN batch : batch[p].state \notin {"queued", "asking"}
InState(states) == {p \in DOMAIN batch : batch[p].state \in states}

(* Only the failures of the last batch are reported.                        *)
BugFailures == Cardinality(InState({"failed"}))

Failures == stats.failures + Cardinality(InState({"failed"}))

Resolved == InState(Words)

(* judge_batch returns: what was resolved is written.                        *)
EndBatch ==
  /\ pc = "ask" /\ Ended /\ InState({"broken"}) = {}
  /\ unwritten' = [p \in Resolved |-> batch[p].state]
  /\ stats' = [stats EXCEPT !.failures = Failures]
  /\ batch' = << >> /\ pc' = "commit"
  /\ UNCHANGED << predicted, lines, todo, answered, warmed, program, counters >>

Leaves ==
  /\ run' = None /\ pc' = "idle" /\ memory' = {} /\ stats' = Nothing
  /\ todo' = {} /\ batch' = << >> /\ unwritten' = << >>

(* An unexpected error ends the program; the batch is lost.                  *)
Abort ==
  /\ pc = "ask" /\ Ended /\ InState({"broken"}) # {}
  /\ Leaves
  /\ UNCHANGED << predicted, lines, answered, warmed, counters >>

(* The exit status: pairs without a verdict fail the pre-warm, unless that   *)
(* is allowed.                                                               *)
Passed == stats.failures = 0 \/ run.allow

Finish ==
  /\ pc = "commit" /\ DOMAIN unwritten = {} /\ todo = {}
  /\ warmed' = IF Passed /\ ~run.allow /\ run.limit = None
                 THEN warmed \cup {[model |-> run.model, pairs |-> run.pairs]} ELSE warmed
  /\ Leaves
  /\ UNCHANGED << predicted, lines, answered, counters >>

-----------------------------------------------------------------------------
(* Scoring with a JudgeMatcher on the same file and a client that is not     *)
(* strict. Its caller is not part of the repository.                         *)

Scoring(model) ==
  /\ Begin("score", model, Needed(predicted), None, FALSE)
  /\ pc' = "score" /\ UNCHANGED << todo, unwritten, stats >>

(* _lookup, where the judge has to be asked: a reply that cannot be read is  *)
(* a non-match, and is kept.                                                 *)
Consult(pair) ==
  /\ pc = "score" /\ pair \in run.pairs
  /\ ~Guarded(pair) /\ Key(pair, run.model) \notin memory
  /\ \E reply \in Replies :
       LET verdict == Parse(reply)
       IN  /\ verdict \in Words \/ faults < MaxFaults
           /\ faults' = IF verdict \in Words THEN faults ELSE faults + 1
           /\ Write(pair, IF verdict \in Words THEN verdict ELSE "no")
           /\ Said(pair, IF Meant(reply) = {} THEN {"nothing"} ELSE Meant(reply))
  /\ UNCHANGED << predicted, run, pc, todo, batch, unwritten, stats, warmed, runs >>

Scored ==
  /\ pc = "score" /\ \A p \in run.pairs : Guarded(p) \/ Key(p, run.model) \in memory
  /\ Leaves
  /\ UNCHANGED << predicted, lines, answered, warmed, counters >>

(* A run is killed, or an error of the transport ends scoring.               *)
Kill ==
  /\ run # None /\ Fault /\ Leaves
  /\ UNCHANGED << predicted, lines, answered, warmed, runs >>

-----------------------------------------------------------------------------
AskStep(p) == Post(p) \/ Retry(p) \/ Reject(p) \/ Break(p) \/ Answer(p)

Work ==
  \/ Commit \/ AskBatch \/ EndBatch \/ Abort \/ Finish \/ Scored
  \/ \E p \in DOMAIN batch : AskStep(p)
  \/ \E p \in Pairs : Consult(p)

Operator ==
  \/ \E e \in Episodes, l \in Vocabulary : Predict(e, l)
  \/ \E m \in Models : Scoring(m) \/ \E limit \in Limits, allow \in BOOLEAN : Warm(m, limit, allow)
  \/ Kill

Next == Work \/ Operator

(* A request has a deadline, and threads are scheduled.                      *)
Spec == Init /\ [][Next]_vars /\ WF_vars(Work)

-----------------------------------------------------------------------------
Warming == run # None /\ run.kind = "warm"

TypeOK ==
  /\ predicted \in [Episodes -> SUBSET Labels]
  /\ DOMAIN lines = Keys /\ memory \subseteq Keys
  /\ (run = None) <=> (pc = "idle")
  /\ todo \cup DOMAIN batch \cup DOMAIN unwritten \subseteq Pairs
  /\ \A p \in DOMAIN unwritten : unwritten[p] \in Words
  /\ Cardinality(DOMAIN batch) <= BatchSize
  /\ runs \in 0..MaxRuns /\ faults \in 0..MaxFaults

(* What the file holds on a pair is one verdict: the one that its judge gave *)
(* on this pair, outside its reasoning, or the one that needs no judge, or the *)
(* non-match that scoring made of a reply nobody could read, on a pair that  *)
(* no pre-warm had settled; and nothing is kept on contrasting labels. A     *)
(* pre-warm leaves in peace whatever needs no judge. Scoring does not: it    *)
(* asks about any other pair it misses and keeps what it is told.            *)
VerdictsTrue ==
  /\ TypeOK
  /\ \A p \in Pairs, m \in Models :
       LET line == lines[Key(p, m)]
           told(w) == [pair |-> p, model |-> m, verdict |-> w] \in answered
       IN  line # << >> =>
             /\ Len(line) = 1 /\ ~Guarded(p)
             /\ \/ Free(p) /\ line[1] = FreeVerdict(p)
                \/ told(line[1])
                \/ line[1] = "no" /\ told("nothing")
  /\ Warming => \A p \in todo \cup DOMAIN batch : ~Guarded(p) /\ ~Free(p)

(* run_judge.py 65-69: equal labels match and one without a word does not,   *)
(* no call is spent on them, and every backend agrees. It need not be so:    *)
(* without a pre-warm JudgeMatcher asks about such a pair and keeps the word  *)
(* of the judge.                                                            *)
FreeSettled ==
  \A p \in Pairs, m \in Models :
    LET line == lines[Key(p, m)]
    IN  Free(p) /\ line # << >> => line[1] = FreeVerdict(p)

(* The ruler does not change: a verdict that is kept is never replaced or    *)
(* given again, by whichever run, so the same predictions score the same.    *)
RulerFixed == [][\A k \in Keys : lines[k] # << >> => lines'[k] = lines[k]]_vars

(* After a pre-warm that reported no gap, scoring calls no judge.            *)
WarmSuffices ==
  \A w \in warmed : \A p \in w.pairs : Guarded(p) \/ Key(p, w.model) \in Cached

(* The report adds up, whatever the order in which workers end: what was     *)
(* read or settled is in the file, or in the batch that an interrupt loses.  *)
ReportHonest ==
  Warming =>
    /\ stats.free + stats.yes + stats.no =
         stats.written + Cardinality(DOMAIN unwritten) + Cardinality(InState(Words))
    /\ stats.unparseable <= stats.failures + Cardinality(InState({"failed"}))

(* What a pre-warm says can be relied on: its report and its exit status.    *)
WarmHonest == WarmSuffices /\ ReportHonest

(* Every run ends.                                                          *)
RunsEnd == run # None ~> run = None
=============================================================================
