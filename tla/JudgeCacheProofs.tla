-------------------------- MODULE JudgeCacheProofs --------------------------
(***************************************************************************)
(* The judge's verdicts for any labels, models, replies and numbers of     *)
(* workers, runs and faults: what the file holds is what the judge said,    *)
(* it is never given again, a pre-warm without a gap suffices for scoring,  *)
(* and the report adds up.                                                  *)
(***************************************************************************)
EXTENDS JudgeCache, SequenceTheorems, FiniteSetTheorems, TLAPS

-----------------------------------------------------------------------------
(* The inductive invariant.                                                 *)

States == Words \cup {"queued", "asking", "failed", "broken"}
RunRecords ==
  [kind : {"warm", "score"}, model : Models, pairs : SUBSET Pairs,
   limit : Limits \cup {None}, allow : BOOLEAN]

(* The file and the matcher that has it open hold the same keys.            *)
FileInv ==
  /\ lines \in [Keys -> Seq(Words)]
  /\ memory = IF run = None THEN {} ELSE Cached

RunInv ==
  /\ run \in RunRecords \cup {None}
  /\ pc \in {"idle", "commit", "ask", "score"}
  /\ (run = None) <=> (pc = "idle")
  /\ run # None => ((run.kind = "score") <=> (pc = "score"))
  /\ runs \in 0..MaxRuns /\ faults \in 0..MaxFaults
  /\ predicted \in [Episodes -> SUBSET Labels]

(* What a run has of its pairs, and when.                                   *)
WorkInv ==
  /\ todo \subseteq Pairs
  /\ batch \in [DOMAIN batch -> [state : States, attempts : Nat]]
  /\ DOMAIN batch \subseteq Pairs /\ Cardinality(DOMAIN batch) <= BatchSize
  /\ unwritten \in [DOMAIN unwritten -> Words] /\ DOMAIN unwritten \subseteq Pairs
  /\ stats \in [Counts -> Nat]
  /\ pc # "ask" => DOMAIN batch = {}
  /\ pc # "commit" => DOMAIN unwritten = {}
  /\ pc \in {"idle", "score"} => todo = {}

Told(p, m, w) == [pair |-> p, model |-> m, verdict |-> w] \in answered

(* A verdict that the judge gave, or that needs none.                       *)
Founded(p, m, w) == ~Guarded(p) /\ ((Free(p) /\ w = FreeVerdict(p)) \/ Told(p, m, w))

(* One verdict per key, and what is about to be written is founded.         *)
VerdictInv ==
  \A p \in Pairs, m \in Models :
    LET line == lines[Key(p, m)]
    IN  line # << >> =>
          /\ Len(line) = 1 /\ ~Guarded(p)
          /\ Founded(p, m, line[1]) \/ (line[1] = "no" /\ Told(p, m, "nothing"))

PendingInv ==
  run # None =>
    /\ \A p \in todo \cup DOMAIN batch : ~Guarded(p) /\ ~Free(p)
    /\ \A p \in DOMAIN batch : batch[p].state \in Words => Told(p, run.model, batch[p].state)
    /\ \A p \in DOMAIN unwritten : Founded(p, run.model, unwritten[p])

(* Until a failure is counted, each pair of an unlimited pre-warm is in the  *)
(* file or on its way.                                                      *)
OnItsWay(p) == p \in todo \cup DOMAIN batch \cup DOMAIN unwritten
Have(p, m) == Guarded(p) \/ Key(p, m) \in Cached

CoverInv ==
  Warming /\ run.limit = None /\ stats["failures"] = 0 =>
    \A p \in run.pairs : Have(p, run.model) \/ OnItsWay(p)

WarmedInv ==
  /\ warmed \subseteq [model : Models, pairs : SUBSET Pairs]
  /\ WarmSuffices

IInv ==
  /\ FileInv /\ RunInv /\ WorkInv
  /\ VerdictInv /\ PendingInv /\ CoverInv /\ WarmedInv /\ ReportHonest

-----------------------------------------------------------------------------
(* Facts about the operators.                                               *)

LEMMA PairsFinite == IsFiniteSet(Pairs)
<1>1. Pairs \subseteq SUBSET Labels
  BY DEF Pairs
<1>2. IsFiniteSet(SUBSET Labels)
  BY JudgeAssumption, FS_SUBSET
<1>3. QED
  BY <1>1, <1>2, FS_Subset

LEMMA SubsetOfSize ==
  ASSUME NEW S, IsFiniteSet(S), NEW k \in Nat, k <= Cardinality(S)
  PROVE  \E T \in SUBSET S : Cardinality(T) = k
<1> DEFINE n == Cardinality(S)
<1>1. n \in Nat /\ ExistsBijection(1..n, S)
  BY FS_CardinalityType
<1>2. PICK f \in Bijection(1..n, S) : TRUE
  BY <1>1 DEF ExistsBijection
<1> DEFINE T == {f[i] : i \in 1..k}
           g == [i \in 1..k |-> f[i]]
<1>3. f \in [1..n -> S] /\ \A i, j \in 1..n : f[i] = f[j] => i = j
  BY <1>2 DEF Bijection, Injection, IsInjective
<1>4. 1..k \subseteq 1..n
  BY <1>1
<1>5. T \in SUBSET S
  BY <1>3, <1>4
<1>6. g \in Bijection(1..k, T)
  BY <1>3, <1>4 DEF Bijection, Injection, Surjection, IsInjective
<1>7. ExistsBijection(1..k, T)
  BY <1>6 DEF ExistsBijection
<1>8. Cardinality(T) = k
  BY <1>7, FS_CountingElements
<1>9. QED
  BY <1>5, <1>8

(* What is taken of a set of pairs is of it, and not too many.               *)
LEMMA FirstTakes ==
  ASSUME NEW count \in Nat \cup {None}, NEW pairs \in SUBSET Pairs
  PROVE  /\ First(count, pairs) \subseteq pairs
         /\ count = None => First(count, pairs) = pairs
         /\ count \in Nat => Cardinality(First(count, pairs)) <= count
<1>1. IsFiniteSet(pairs) /\ Cardinality(pairs) \in Nat
  BY PairsFinite, FS_Subset, FS_CardinalityType
<1>2. CASE count = None
  BY <1>2, JudgeAssumption DEF First
<1>3. CASE count \in Nat /\ count >= Cardinality(pairs)
  BY <1>1, <1>3, JudgeAssumption DEF First
<1>4. CASE count \in Nat /\ ~(count >= Cardinality(pairs))
  <2>1. \E taken : taken \in kSubset(count, pairs)
    BY <1>1, <1>4, SubsetOfSize DEF kSubset
  <2>2. First(count, pairs) \in kSubset(count, pairs)
    BY <1>4, <2>1, JudgeAssumption DEF First
  <2>3. QED
    BY <1>4, <2>2, JudgeAssumption DEF kSubset
<1>5. QED
  BY <1>2, <1>3, <1>4

(* A reply has a verdict exactly if it says one.                             *)
LEMMA ParseMeans ==
  ASSUME NEW reply \in Replies
  PROVE  \/ Parse(reply) \in Words /\ Meant(reply) = {Parse(reply)}
         \/ Parse(reply) = "unparseable" /\ Meant(reply) = {}
<1>1. reply.said \in SUBSET Words
  BY JudgeAssumption
<1>2. IsFiniteSet(Words)
  <2>1. IsFiniteSet({"yes"})
    BY FS_Singleton
  <2>2. IsFiniteSet({"yes"} \cup {"no"})
    BY <2>1, FS_AddElement
  <2>3. QED
    BY <2>2 DEF Words
<1>3. IsFiniteSet(reply.said)
  BY <1>1, <1>2, FS_Subset
<1>4. Cardinality(reply.said) = 1 <=> \E w : reply.said = {w}
  BY <1>3, FS_Singleton
<1>5. CASE Cardinality(reply.said) = 1
  <2>1. PICK w : reply.said = {w}
    BY <1>4, <1>5
  <2>2. w \in Words /\ Parse(reply) = w
    BY <1>1, <1>5, <2>1 DEF Parse
  <2>3. Meant(reply) = {w}
    BY <2>1, <2>2 DEF Meant
  <2>4. QED
    BY <2>2, <2>3
<1>6. CASE Cardinality(reply.said) # 1
  <2>1. Parse(reply) = "unparseable"
    BY <1>6 DEF Parse
  <2>2. Meant(reply) = {}
    BY <1>4, <1>6 DEF Meant
  <2>3. QED
    BY <2>1, <2>2
<1>7. QED
  BY <1>5, <1>6

LEMMA KeysApart ==
  ASSUME NEW p \in Pairs, NEW m \in Models
  PROVE  /\ Key(p, m) \in Keys
         /\ \A q \in Pairs, n \in Models : Key(q, n) = Key(p, m) => q = p /\ n = m
BY DEF Key, Keys

LEMMA NeededArePairs ==
  ASSUME predicted \in [Episodes -> SUBSET Labels]
  PROVE  Needed(predicted) \in SUBSET Pairs
<1>1. ASSUME NEW e \in Episodes, NEW l \in predicted[e], NEW r \in Truth[e]
      PROVE  {l, r} \in Pairs
  <2>1. l \in Labels /\ r \in Labels
    BY <1>1, JudgeAssumption
  <2>2. QED
    BY <2>1 DEF Pairs
<1>2. QED
  BY <1>1 DEF Needed

(* Numbers of pairs.                                                        *)
LEMMA CountOf ==
  ASSUME NEW S \in SUBSET Pairs
  PROVE  /\ IsFiniteSet(S) /\ Cardinality(S) \in Nat
         /\ Cardinality(S) = 0 <=> S = {}
         /\ \A p : Cardinality(S \cup {p}) = IF p \in S THEN Cardinality(S) ELSE Cardinality(S) + 1
         /\ \A p : Cardinality(S \ {p}) = IF p \in S THEN Cardinality(S) - 1 ELSE Cardinality(S)
<1>1. IsFiniteSet(S)
  BY PairsFinite, FS_Subset
<1>2. QED
  BY <1>1, FS_CardinalityType, FS_EmptySet, FS_AddElement, FS_RemoveElement

LEMMA NoneIsNoRun == None \notin RunRecords
BY NoneAssumption DEF RunRecords

-----------------------------------------------------------------------------
(* What the actions do.                                                     *)

LEMMA CommitOne ==
  ASSUME IInv, Commit
  PROVE  \E p \in DOMAIN unwritten :
           /\ p \in Pairs /\ unwritten[p] \in Words /\ run \in RunRecords /\ run' = run
           /\ IF Key(p, run.model) \in memory
                THEN UNCHANGED << lines, memory >> ELSE Write(p, unwritten[p])
           /\ unwritten' = [q \in DOMAIN unwritten \ {p} |-> unwritten[q]]
           /\ stats' = [stats EXCEPT !["written"] = @ + 1]
<1> DEFINE p == CHOOSE q \in DOMAIN unwritten : TRUE
<1>1. p \in DOMAIN unwritten
  BY DEF Commit
<1>2. p \in Pairs /\ unwritten[p] \in Words
  BY <1>1 DEF IInv, WorkInv
<1>3. run \in RunRecords /\ run' = run
  BY DEF Commit, IInv, RunInv
<1>4. QED
  BY <1>1, <1>2, <1>3 DEF Commit

LEMMA ConsultOne ==
  ASSUME IInv, NEW p \in Pairs, Consult(p)
  PROVE  /\ run \in RunRecords /\ run' = run
         /\ \E w \in Words :
              /\ Write(p, w)
              /\ Told(p, run.model, w)' \/ (w = "no" /\ Told(p, run.model, "nothing")')
         /\ answered \subseteq answered'
<1>1. run \in RunRecords /\ run' = run
  BY DEF Consult, IInv, RunInv
<1>2. PICK reply \in Replies :
        /\ Write(p, IF Parse(reply) \in Words THEN Parse(reply) ELSE "no")
        /\ Said(p, IF Meant(reply) = {} THEN {"nothing"} ELSE Meant(reply))
  BY DEF Consult
<1>3. CASE Parse(reply) \in Words
  <2>1. Meant(reply) = {Parse(reply)}
    BY <1>3, ParseMeans DEF Words
  <2>2. Told(p, run.model, Parse(reply))'
    BY <1>1, <1>2, <2>1 DEF Said, Told
  <2>3. QED
    BY <1>1, <1>2, <1>3, <2>2 DEF Said
<1>4. CASE Parse(reply) \notin Words
  <2>1. Meant(reply) = {}
    BY <1>4, ParseMeans
  <2>2. Told(p, run.model, "nothing")'
    BY <1>1, <1>2, <2>1 DEF Said, Told
  <2>3. "no" \in Words
    BY DEF Words
  <2>4. QED
    BY <1>1, <1>2, <1>4, <2>2, <2>3 DEF Said
<1>5. QED
  BY <1>3, <1>4

(* A verdict is written once, and where there was none.                      *)
LEMMA WriteOnce ==
  ASSUME IInv, NEW p \in Pairs, NEW w \in Words, run \in RunRecords, run' = run,
         Key(p, run.model) \notin memory, Write(p, w)
  PROVE  /\ FileInv'
         /\ Cached' = Cached \cup {Key(p, run.model)}
         /\ lines[Key(p, run.model)] = << >> /\ lines'[Key(p, run.model)] = << w >>
         /\ \A k \in Keys : k # Key(p, run.model) => lines'[k] = lines[k]
<1> DEFINE key == Key(p, run.model)
<1>1. key \in Keys
  BY KeysApart DEF RunRecords
<1>2. run # None /\ memory = Cached /\ lines \in [Keys -> Seq(Words)]
  BY NoneIsNoRun DEF IInv, FileInv
<1>3. lines[key] = << >>
  BY <1>1, <1>2 DEF Cached
<1>4. lines' = [lines EXCEPT ![key] = Append(@, w)] /\ memory' = memory \cup {key}
  BY DEF Write
<1>5. lines'[key] = << w >>
  BY <1>1, <1>2, <1>3, <1>4
<1>6. << w >> \in Seq(Words) /\ << w >> # << >>
  OBVIOUS
<1>7. \A k \in Keys : k # key => lines'[k] = lines[k]
  BY <1>2, <1>4
<1>8. lines' \in [Keys -> Seq(Words)]
  BY <1>1, <1>2, <1>4, <1>5, <1>6
<1>9. Cached' = Cached \cup {key}
  BY <1>1, <1>2, <1>5, <1>6, <1>7 DEF Cached
<1>10. FileInv'
  BY <1>2, <1>4, <1>8, <1>9 DEF FileInv
<1>11. QED
  BY <1>3, <1>5, <1>7, <1>9, <1>10

LEMMA BeginRuns ==
  ASSUME IInv, NEW kind \in {"warm", "score"}, NEW model \in Models,
         NEW pairs \in SUBSET Pairs, NEW limit \in Limits \cup {None}, NEW allow \in BOOLEAN,
         Begin(kind, model, pairs, limit, allow)
  PROVE  /\ run = None /\ run' \in RunRecords /\ run' # None
         /\ run'.kind = kind /\ run'.model = model /\ run'.pairs = pairs /\ run'.limit = limit
         /\ FileInv' /\ Cached' = Cached /\ lines' = lines
<1>1. run' = [kind |-> kind, model |-> model, pairs |-> pairs, limit |-> limit,
              allow |-> allow]
  BY DEF Begin
<1>2. run' \in RunRecords
  BY <1>1 DEF RunRecords
<1>3. run' # None
  BY <1>2, NoneIsNoRun
<1>4. lines' = lines /\ memory' = Cached /\ run = None
  BY DEF Begin, Loaded
<1>5. Cached' = Cached
  BY <1>4 DEF Cached
<1>6. QED
  BY <1>1, <1>2, <1>3, <1>4, <1>5 DEF FileInv, IInv

(* The pairs of a pre-warm and what becomes of them.                         *)
LEMMA WarmOf ==
  ASSUME IInv, NEW model \in Models, NEW limit \in Limits, NEW allow \in BOOLEAN,
         Warm(model, limit, allow)
  PROVE  \E pairs \in SUBSET Pairs :
           /\ Begin("warm", model, pairs, limit, allow)
           /\ todo' = First(limit, Asked(pairs, model)) /\ todo' \subseteq Asked(pairs, model)
           /\ unwritten' = [p \in Settled(pairs, model) |-> FreeVerdict(p)]
           /\ stats' = [Nothing EXCEPT !["free"] = Cardinality(Settled(pairs, model))]
           /\ pc' = "commit"
<1>1. PICK pairs \in {Needed(predicted)} \cup Extra :
        /\ Begin("warm", model, pairs, limit, allow)
        /\ todo' = First(limit, Asked(pairs, model))
        /\ unwritten' = [p \in Settled(pairs, model) |-> FreeVerdict(p)]
        /\ stats' = [Nothing EXCEPT !["free"] = Cardinality(Settled(pairs, model))]
        /\ pc' = "commit"
  BY DEF Warm
<1>2. pairs \in SUBSET Pairs
  BY NeededArePairs, JudgeAssumption DEF IInv, RunInv
<1>3. Asked(pairs, model) \in SUBSET Pairs
  BY <1>2 DEF Asked
<1>4. limit \in Nat \cup {None}
  BY JudgeAssumption
<1>5. First(limit, Asked(pairs, model)) \subseteq Asked(pairs, model)
  BY <1>3, <1>4, FirstTakes
<1>6. QED
  BY <1>1, <1>2, <1>5

-----------------------------------------------------------------------------
(* The file and the run.                                                    *)

LEMMA FileStep == IInv /\ [Next]_vars => FileInv'
<1> SUFFICES ASSUME IInv, [Next]_vars PROVE FileInv'
  OBVIOUS
<1>1. ASSUME UNCHANGED << lines, memory, run >> PROVE FileInv'
  BY <1>1 DEF IInv, FileInv, Cached
<1>2. ASSUME run' = None, memory' = {}, lines' = lines PROVE FileInv'
  BY <1>2 DEF IInv, FileInv
<1>3. CASE UNCHANGED vars
  BY <1>1, <1>3 DEF vars
<1>4. ASSUME NEW e \in Episodes, NEW l \in Vocabulary, Predict(e, l) PROVE FileInv'
  BY <1>1, <1>4 DEF Predict, program
<1>5. ASSUME NEW m \in Models, Scoring(m) PROVE FileInv'
  <2>1. Needed(predicted) \in SUBSET Pairs
    BY NeededArePairs DEF IInv, RunInv
  <2>2. QED
    BY <1>5, <2>1, BeginRuns DEF Scoring
<1>6. ASSUME NEW m \in Models, NEW limit \in Limits, NEW allow \in BOOLEAN,
             Warm(m, limit, allow)
      PROVE  FileInv'
  BY <1>6, WarmOf, BeginRuns
<1>7. CASE Commit
  <2>1. PICK p \in DOMAIN unwritten :
          /\ p \in Pairs /\ unwritten[p] \in Words /\ run \in RunRecords /\ run' = run
          /\ IF Key(p, run.model) \in memory
               THEN UNCHANGED << lines, memory >> ELSE Write(p, unwritten[p])
    BY <1>7, CommitOne
  <2>2. CASE Key(p, run.model) \in memory
    BY <1>1, <2>1, <2>2
  <2>3. CASE Key(p, run.model) \notin memory
    BY <2>1, <2>3, WriteOnce
  <2>4. QED
    BY <2>2, <2>3
<1>8. CASE AskBatch
  BY <1>1, <1>8 DEF AskBatch, program
<1>9. ASSUME NEW p \in DOMAIN batch, AskStep(p) PROVE FileInv'
  BY <1>1, <1>9 DEF AskStep, Post, Retry, Reject, Break, Answer, AskOnly, program
<1>10. CASE EndBatch
  BY <1>1, <1>10 DEF EndBatch, program
<1>11. CASE Abort
  BY <1>2, <1>11 DEF Abort, Leaves
<1>12. CASE Finish
  BY <1>2, <1>12 DEF Finish, Leaves
<1>13. ASSUME NEW p \in Pairs, Consult(p) PROVE FileInv'
  <2>1. PICK w \in Words : Write(p, w)
    BY <1>13, ConsultOne
  <2>2. Key(p, run.model) \notin memory /\ run \in RunRecords /\ run' = run
    BY <1>13, ConsultOne DEF Consult
  <2>3. QED
    BY <2>1, <2>2, WriteOnce
<1>14. CASE Scored
  BY <1>2, <1>14 DEF Scored, Leaves
<1>15. CASE Kill
  BY <1>2, <1>15 DEF Kill, Leaves
<1>16. QED
  BY <1>3, <1>4, <1>5, <1>6, <1>7, <1>8, <1>9, <1>10, <1>11, <1>12, <1>13, <1>14, <1>15
  DEF Next, Work, Operator

LEMMA RunStep == IInv /\ [Next]_vars => RunInv'
<1> SUFFICES ASSUME IInv, [Next]_vars PROVE RunInv'
  OBVIOUS
<1> USE DEF RunInv
<1>1. RunInv /\ MaxRuns \in Nat /\ MaxFaults \in Nat
  BY JudgeAssumption DEF IInv
<1>2. ASSUME run' = None, pc' = "idle", UNCHANGED << predicted, runs >>,
             faults' = faults \/ (faults < MaxFaults /\ faults' = faults + 1)
      PROVE  RunInv'
  BY <1>1, <1>2
<1>3. CASE UNCHANGED vars
  BY <1>1, <1>3 DEF vars
<1>4. ASSUME NEW e \in Episodes, NEW l \in Vocabulary, Predict(e, l) PROVE RunInv'
  <2>1. predicted' \in [Episodes -> SUBSET Labels]
    BY <1>1, <1>4, JudgeAssumption DEF Predict
  <2>2. QED
    BY <1>1, <1>4, <2>1 DEF Predict, program, counters
<1>5. ASSUME NEW m \in Models, Scoring(m) PROVE RunInv'
  <2>1. Needed(predicted) \in SUBSET Pairs
    BY <1>1, NeededArePairs
  <2>2. Begin("score", m, Needed(predicted), None, FALSE) /\ pc' = "score"
    BY <1>5 DEF Scoring
  <2>3. run' \in RunRecords /\ run' # None /\ run'.kind = "score"
    BY <2>1, <2>2, BeginRuns
  <2>4. UNCHANGED << predicted, faults >> /\ runs' \in 0..MaxRuns
    BY <1>1, <2>2 DEF Begin
  <2>5. QED
    BY <1>1, <2>2, <2>3, <2>4
<1>6. ASSUME NEW m \in Models, NEW limit \in Limits, NEW allow \in BOOLEAN,
             Warm(m, limit, allow)
      PROVE  RunInv'
  <2>1. PICK pairs \in SUBSET Pairs : Begin("warm", m, pairs, limit, allow) /\ pc' = "commit"
    BY <1>6, WarmOf
  <2>2. run' \in RunRecords /\ run' # None /\ run'.kind = "warm"
    BY <2>1, BeginRuns
  <2>3. UNCHANGED << predicted, faults >> /\ runs' \in 0..MaxRuns
    BY <1>1, <2>1 DEF Begin
  <2>4. QED
    BY <1>1, <2>1, <2>2, <2>3
<1>7. CASE Commit
  BY <1>1, <1>7 DEF Commit, counters
<1>8. CASE AskBatch
  BY <1>1, <1>8 DEF AskBatch, program, counters
<1>9. ASSUME NEW p \in DOMAIN batch, AskStep(p) PROVE RunInv'
  BY <1>1, <1>9 DEF AskStep, Post, Retry, Reject, Break, Answer, AskOnly, Fault, program, counters
<1>10. CASE EndBatch
  BY <1>1, <1>10 DEF EndBatch, program, counters
<1>11. CASE Abort
  BY <1>2, <1>11 DEF Abort, Leaves, counters
<1>12. CASE Finish
  BY <1>2, <1>12 DEF Finish, Leaves, counters
<1>13. ASSUME NEW p \in Pairs, Consult(p) PROVE RunInv'
  BY <1>1, <1>13 DEF Consult
<1>14. CASE Scored
  BY <1>2, <1>14 DEF Scored, Leaves, counters
<1>15. CASE Kill
  BY <1>2, <1>15 DEF Kill, Leaves, Fault
<1>16. QED
  BY <1>3, <1>4, <1>5, <1>6, <1>7, <1>8, <1>9, <1>10, <1>11, <1>12, <1>13, <1>14, <1>15
  DEF Next, Work, Operator

-----------------------------------------------------------------------------
(* The work of a run.                                                       *)

Asks(p, s, a) ==
  /\ batch' = [batch EXCEPT ![p] = [state |-> s, attempts |-> a]]
  /\ \/ s \in Words /\ Told(p, run.model, s)' /\ stats' = [stats EXCEPT ![s] = @ + 1]
     \/ s \notin Words /\ stats' = stats
     \/ s = "failed" /\ stats' = [stats EXCEPT !["unparseable"] = @ + 1]

LEMMA AskOne ==
  ASSUME IInv, NEW p \in DOMAIN batch, AskStep(p)
  PROVE  /\ pc = "ask" /\ batch[p].state \in {"queued", "asking"}
         /\ AskOnly /\ answered \subseteq answered'
         /\ \E s \in States, a \in Nat : Asks(p, s, a)
<1>1. batch \in [DOMAIN batch -> [state : States, attempts : Nat]]
  BY DEF IInv, WorkInv
<1>2. batch[p] \in [state : States, attempts : Nat]
  BY <1>1
<1>3. ASSUME NEW s \in States, Becomes(p, s)
      PROVE  batch' = [batch EXCEPT ![p] = [state |-> s, attempts |-> batch[p].attempts]]
  <2>1. batch' = [batch EXCEPT ![p].state = s]
    BY <1>3 DEF Becomes
  <2>2. [batch[p] EXCEPT !.state = s] = [state |-> s, attempts |-> batch[p].attempts]
    BY <1>2
  <2>3. QED
    BY <1>1, <2>1, <2>2
<1> DEFINE a == batch[p].attempts
<1>4. a \in Nat
  BY <1>2
<1>5. CASE Post(p)
  <2>1. "asking" \in States \ Words
    BY DEF States, Words
  <2>2. Asks(p, "asking", a)
    BY <1>3, <1>5, <2>1 DEF Post, Asks
  <2>3. QED
    BY <1>4, <1>5, <2>1, <2>2 DEF Post
<1>6. CASE Retry(p)
  <2>1. "asking" \in States \ Words /\ "failed" \in States \ Words /\ a + 1 \in Nat
    BY <1>4 DEF States, Words
  <2>2. PICK s \in {"asking", "failed"} :
          batch' = [batch EXCEPT ![p] = [state |-> s, attempts |-> a + 1]]
    BY <1>6 DEF Retry
  <2>3. Asks(p, s, a + 1)
    BY <1>6, <2>1, <2>2 DEF Retry, Asks
  <2>4. QED
    BY <1>6, <2>1, <2>2, <2>3 DEF Retry
<1>7. CASE Reject(p)
  <2>1. "failed" \in States \ Words
    BY DEF States, Words
  <2>2. Asks(p, "failed", a)
    BY <1>3, <1>7, <2>1 DEF Reject, Asks
  <2>3. QED
    BY <1>4, <1>7, <2>1, <2>2 DEF Reject
<1>8. CASE Break(p)
  <2>1. "broken" \in States \ Words
    BY DEF States, Words
  <2>2. Asks(p, "broken", a)
    BY <1>3, <1>8, <2>1 DEF Break, Asks
  <2>3. QED
    BY <1>4, <1>8, <2>1, <2>2 DEF Break
<1>9. CASE Answer(p)
  <2>1. PICK reply \in Replies :
          /\ Becomes(p, IF Parse(reply) \in Words THEN Parse(reply) ELSE "failed")
          /\ stats' = [stats EXCEPT ![Parse(reply)] = @ + 1]
          /\ Said(p, Meant(reply))
    BY <1>9 DEF Answer
  <2>2. run' = run /\ answered \subseteq answered'
    BY <1>9, <2>1 DEF Answer, AskOnly, program, Said
  <2>3. CASE Parse(reply) \in Words
    <3>1. Meant(reply) = {Parse(reply)} /\ Parse(reply) \in States
      BY <2>3, ParseMeans DEF Words, States
    <3>2. Told(p, run.model, Parse(reply))'
      BY <2>1, <2>2, <3>1 DEF Said, Told
    <3>3. Asks(p, Parse(reply), a)
      BY <1>3, <2>1, <2>3, <3>1, <3>2 DEF Asks
    <3>4. QED
      BY <1>4, <1>9, <2>2, <3>1, <3>3 DEF Answer
  <2>4. CASE Parse(reply) \notin Words
    <3>1. Parse(reply) = "unparseable" /\ "failed" \in States
      BY <2>4, ParseMeans DEF States
    <3>2. Asks(p, "failed", a)
      BY <1>3, <2>1, <2>4, <3>1 DEF Asks
    <3>3. QED
      BY <1>4, <1>9, <2>2, <3>1, <3>2 DEF Answer
  <2>5. QED
    BY <2>3, <2>4
<1>10. QED
  BY <1>5, <1>6, <1>7, <1>8, <1>9 DEF AskStep

LEMMA StatsCounted ==
  ASSUME IInv, NEW p \in DOMAIN batch, NEW s \in States, NEW a \in Nat, Asks(p, s, a)
  PROVE  /\ stats' \in [Counts -> Nat]
         /\ \A c \in Counts \ {"yes", "no", "unparseable"} : stats'[c] = stats[c]
<1>1. stats \in [Counts -> Nat]
  BY DEF IInv, WorkInv
<1>2. Words \subseteq Counts /\ "unparseable" \in Counts
  BY DEF Words, Counts
<1>3. QED
  BY <1>1, <1>2 DEF Asks, Words

LEMMA WorkStep == IInv /\ [Next]_vars => WorkInv'
<1> SUFFICES ASSUME IInv, [Next]_vars PROVE WorkInv'
  OBVIOUS
<1> USE DEF WorkInv
<1>0. WorkInv /\ RunInv
  BY DEF IInv
<1>1. ASSUME UNCHANGED << todo, batch, unwritten, stats >>, pc' = pc PROVE WorkInv'
  BY <1>0, <1>1
<1>e. DOMAIN << >> = {}
  OBVIOUS
<1>n. Nothing \in [Counts -> Nat]
  BY DEF Nothing
<1>z. Cardinality({}) = 0
  BY FS_EmptySet
<1>2. ASSUME Leaves PROVE WorkInv'
  <2>1. todo' = {} /\ batch' = << >> /\ unwritten' = << >> /\ stats' = Nothing
    BY <1>2 DEF Leaves
  <2>2. batch' \in [DOMAIN batch' -> [state : States, attempts : Nat]]
    BY <1>e, <2>1
  <2>3. unwritten' \in [DOMAIN unwritten' -> Words]
    BY <1>e, <2>1
  <2>4. Cardinality(DOMAIN batch') <= BatchSize
    BY <1>e, <1>z, <2>1, JudgeAssumption
  <2>5. QED
    BY <1>e, <1>n, <2>1, <2>2, <2>3, <2>4
<1>3. CASE UNCHANGED vars
  BY <1>1, <1>3 DEF vars
<1>4. ASSUME NEW e \in Episodes, NEW l \in Vocabulary, Predict(e, l) PROVE WorkInv'
  BY <1>1, <1>4 DEF Predict
<1>5. ASSUME NEW m \in Models, Scoring(m) PROVE WorkInv'
  <2>1. run = None /\ pc' = "score" /\ UNCHANGED << todo, batch, unwritten, stats >>
    BY <1>5 DEF Scoring, Begin
  <2>2. QED
    BY <1>0, <2>1 DEF RunInv
<1>6. ASSUME NEW m \in Models, NEW limit \in Limits, NEW allow \in BOOLEAN,
             Warm(m, limit, allow)
      PROVE  WorkInv'
  <2>1. PICK pairs \in SUBSET Pairs :
          /\ Begin("warm", m, pairs, limit, allow)
          /\ todo' \subseteq Asked(pairs, m)
          /\ unwritten' = [p \in Settled(pairs, m) |-> FreeVerdict(p)]
          /\ stats' = [Nothing EXCEPT !["free"] = Cardinality(Settled(pairs, m))]
          /\ pc' = "commit"
    BY <1>6, WarmOf
  <2>2. batch' = batch /\ DOMAIN batch = {}
    BY <1>0, <2>1 DEF Begin, RunInv
  <2>3. Asked(pairs, m) \subseteq Pairs /\ Settled(pairs, m) \in SUBSET Pairs
    BY DEF Asked, Settled
  <2>4. Cardinality(Settled(pairs, m)) \in Nat
    BY <2>3, CountOf
  <2>5. \A p : FreeVerdict(p) \in Words
    BY DEF FreeVerdict, Words
  <2>6. unwritten' \in [DOMAIN unwritten' -> Words] /\ DOMAIN unwritten' \subseteq Pairs
    BY <2>1, <2>3, <2>5
  <2>7. stats' \in [Counts -> Nat]
    BY <1>n, <2>1, <2>4 DEF Counts
  <2>8. QED
    BY <1>0, <2>1, <2>2, <2>3, <2>6, <2>7
<1>7. CASE Commit
  <2>1. PICK p \in DOMAIN unwritten :
          /\ unwritten' = [q \in DOMAIN unwritten \ {p} |-> unwritten[q]]
          /\ stats' = [stats EXCEPT !["written"] = @ + 1]
    BY <1>7, CommitOne
  <2>2. UNCHANGED << pc, todo, batch >> /\ pc = "commit"
    BY <1>7 DEF Commit
  <2>3. unwritten' \in [DOMAIN unwritten' -> Words] /\ DOMAIN unwritten' \subseteq Pairs
    BY <1>0, <2>1
  <2>4. stats' \in [Counts -> Nat]
    BY <1>0, <2>1 DEF Counts
  <2>5. QED
    BY <1>0, <2>2, <2>3, <2>4
<1>8. CASE AskBatch
  <2> DEFINE pairs == First(BatchSize, todo)
  <2>1. batch' = [p \in pairs |-> Fresh] /\ todo' = todo \ pairs /\ pc' = "ask"
        /\ DOMAIN unwritten = {} /\ UNCHANGED << unwritten, stats >>
    BY <1>8 DEF AskBatch
  <2>2. pairs \subseteq todo /\ Cardinality(pairs) <= BatchSize
    BY <1>0, FirstTakes, JudgeAssumption
  <2>3. Fresh \in [state : States, attempts : Nat]
    BY DEF Fresh, States
  <2>4. batch' \in [DOMAIN batch' -> [state : States, attempts : Nat]] /\ DOMAIN batch' = pairs
    BY <2>1, <2>3
  <2>5. QED
    BY <1>0, <2>1, <2>2, <2>4
<1>9. ASSUME NEW p \in DOMAIN batch, AskStep(p) PROVE WorkInv'
  <2>1. PICK s \in States, a \in Nat : Asks(p, s, a)
    BY <1>9, AskOne
  <2>2. UNCHANGED << todo, unwritten, pc >> /\ pc = "ask"
    BY <1>9, AskOne DEF AskOnly
  <2>3. batch' = [batch EXCEPT ![p] = [state |-> s, attempts |-> a]]
    BY <2>1 DEF Asks
  <2>4. batch' \in [DOMAIN batch' -> [state : States, attempts : Nat]]
        /\ DOMAIN batch' = DOMAIN batch
    BY <1>0, <2>3
  <2>5. stats' \in [Counts -> Nat]
    BY <2>1, StatsCounted
  <2>6. QED
    BY <1>0, <2>2, <2>4, <2>5
<1>10. CASE EndBatch
  <2>1. /\ unwritten' = [p \in Resolved |-> batch[p].state] /\ batch' = << >>
        /\ stats' = [stats EXCEPT !["failures"] = Failures]
        /\ pc' = "commit" /\ todo' = todo
    BY <1>10 DEF EndBatch
  <2>2. InState({"failed"}) \in SUBSET Pairs /\ Resolved \subseteq Pairs
    BY <1>0 DEF InState, Resolved
  <2>3. Failures \in Nat
    BY <1>0, <2>2, CountOf DEF Failures, Counts
  <2>4. \A p \in Resolved : batch[p].state \in Words
    BY DEF Resolved, InState
  <2>5. unwritten' \in [DOMAIN unwritten' -> Words] /\ DOMAIN unwritten' \subseteq Pairs
    BY <2>1, <2>2, <2>4
  <2>6. stats' \in [Counts -> Nat]
    BY <1>0, <2>1, <2>3 DEF Counts
  <2>7. batch' \in [DOMAIN batch' -> [state : States, attempts : Nat]] /\ DOMAIN batch' = {}
    BY <1>e, <2>1
  <2>8. Cardinality(DOMAIN batch') <= BatchSize
    BY <1>z, <2>7, JudgeAssumption
  <2>9. QED
    BY <1>0, <2>1, <2>5, <2>6, <2>7, <2>8
<1>11. CASE Abort
  BY <1>2, <1>11 DEF Abort
<1>12. CASE Finish
  BY <1>2, <1>12 DEF Finish
<1>13. ASSUME NEW p \in Pairs, Consult(p) PROVE WorkInv'
  BY <1>1, <1>13 DEF Consult
<1>14. CASE Scored
  BY <1>2, <1>14 DEF Scored
<1>15. CASE Kill
  BY <1>2, <1>15 DEF Kill
<1>16. QED
  BY <1>3, <1>4, <1>5, <1>6, <1>7, <1>8, <1>9, <1>10, <1>11, <1>12, <1>13, <1>14, <1>15
  DEF Next, Work, Operator

-----------------------------------------------------------------------------
(* The verdicts.                                                            *)

(* No action takes back an answer.                                           *)
LEMMA AnsweredGrows == IInv /\ [Next]_vars => answered \subseteq answered'
<1> SUFFICES ASSUME IInv, [Next]_vars PROVE answered \subseteq answered'
  OBVIOUS
<1>1. ASSUME NEW p \in DOMAIN batch, AskStep(p) PROVE answered \subseteq answered'
  BY <1>1, AskOne
<1>2. ASSUME NEW p \in Pairs, Consult(p) PROVE answered \subseteq answered'
  BY <1>2, ConsultOne
<1>3. QED
  BY <1>1, <1>2
  DEF Next, Work, Operator, vars, Predict, Scoring, Warm, Begin, Commit, AskBatch, EndBatch,
      Abort, Finish, Scored, Kill

LEMMA FoundedStays ==
  ASSUME answered \subseteq answered', NEW p, NEW m, NEW w
  PROVE  /\ Told(p, m, w) => Told(p, m, w)'
         /\ Founded(p, m, w) => Founded(p, m, w)'
BY DEF Told, Founded, Guarded, Free, FreeVerdict

LEMMA VerdictStep == IInv /\ [Next]_vars => VerdictInv'
<1> SUFFICES ASSUME IInv, [Next]_vars PROVE VerdictInv'
  OBVIOUS
<1> DEFINE Sound(p, m) ==
      lines[Key(p, m)] # << >> =>
        /\ Len(lines[Key(p, m)]) = 1 /\ ~Guarded(p)
        /\ \/ Founded(p, m, lines[Key(p, m)][1])
           \/ lines[Key(p, m)][1] = "no" /\ Told(p, m, "nothing")
<1>1. answered \subseteq answered'
  BY AnsweredGrows
<1>2. \A p \in Pairs, m \in Models : Sound(p, m)
  BY DEF IInv, VerdictInv
<1>3. ASSUME NEW p \in Pairs, NEW m \in Models, lines'[Key(p, m)] = lines[Key(p, m)]
      PROVE  Sound(p, m)'
  <2>1. Sound(p, m)
    BY <1>2
  <2>2. Key(p, m)' = Key(p, m) /\ Guarded(p)' = Guarded(p)
    BY DEF Key, Guarded
  <2>3. \A w : Founded(p, m, w) => Founded(p, m, w)'
    BY <1>1, FoundedStays
  <2>4. Told(p, m, "nothing") => Told(p, m, "nothing")'
    BY <1>1, FoundedStays
  <2>5. QED
    BY <1>3, <2>1, <2>2, <2>3, <2>4 DEF Founded, Guarded, Free, FreeVerdict, Told, Key
<1>4. ASSUME lines' = lines PROVE VerdictInv'
  BY <1>3, <1>4 DEF VerdictInv
<1>5. ASSUME NEW p \in Pairs, NEW w \in Words, run \in RunRecords, run' = run,
             Key(p, run.model) \notin memory, Write(p, w), ~Guarded(p),
             Founded(p, run.model, w)' \/ (w = "no" /\ Told(p, run.model, "nothing")')
      PROVE  VerdictInv'
  <2>1. /\ lines'[Key(p, run.model)] = << w >>
        /\ \A k \in Keys : k # Key(p, run.model) => lines'[k] = lines[k]
    BY <1>5, WriteOnce
  <2>2. ASSUME NEW n, n = run.model PROVE Sound(p, n)'
    <3>1. lines'[Key(p, n)] = << w >> /\ Len(<< w >>) = 1 /\ << w >>[1] = w
      BY <2>1, <2>2
    <3>2. Founded(p, n, w)' \/ (w = "no" /\ Told(p, n, "nothing")')
      BY <1>5, <2>2 DEF Founded, Told
    <3>3. ~Guarded(p)' /\ Key(p, n)' = Key(p, n)
      BY <1>5 DEF Guarded, Key
    <3>4. \A v : v = lines'[Key(p, n)][1] => (Founded(p, n, v)' \/ (v = "no" /\ Told(p, n, "nothing")'))
      BY <3>1, <3>2
    <3>5. QED
      BY <3>1, <3>3, <3>4 DEF Key
  <2>3. ASSUME NEW q \in Pairs, NEW n \in Models PROVE Sound(q, n)'
    <3>1. CASE Key(q, n) = Key(p, run.model)
      <4>1. q = p /\ n = run.model
        BY <3>1 DEF Key
      <4>2. QED
        BY <2>2, <4>1
    <3>2. CASE Key(q, n) # Key(p, run.model)
      BY <1>3, <2>1, <3>2, KeysApart
    <3>3. QED
      BY <3>1, <3>2
  <2>4. QED
    BY <2>3 DEF VerdictInv
<1>6. CASE Commit
  <2>1. PICK p \in DOMAIN unwritten :
          /\ p \in Pairs /\ unwritten[p] \in Words /\ run \in RunRecords /\ run' = run
          /\ IF Key(p, run.model) \in memory
               THEN UNCHANGED << lines, memory >> ELSE Write(p, unwritten[p])
    BY <1>6, CommitOne
  <2>2. Founded(p, run.model, unwritten[p])
    BY <2>1, NoneIsNoRun DEF IInv, PendingInv
  <2>3. PICK w \in Words : w = unwritten[p]
    BY <2>1
  <2>4. \A m : Founded(p, m, w) => Founded(p, m, w)'
    BY <1>1, FoundedStays
  <2>5. Founded(p, run.model, w)' /\ ~Guarded(p)
    BY <2>1, <2>2, <2>3, <2>4 DEF Founded, Told
  <2>6. QED
    BY <1>4, <1>5, <2>1, <2>3, <2>5
<1>7. ASSUME NEW p \in Pairs, Consult(p) PROVE VerdictInv'
  <2>1. PICK w \in Words :
          /\ Write(p, w)
          /\ Told(p, run.model, w)' \/ (w = "no" /\ Told(p, run.model, "nothing")')
    BY <1>7, ConsultOne
  <2>2. /\ Key(p, run.model) \notin memory /\ run \in RunRecords /\ run' = run
        /\ ~Guarded(p)
    BY <1>7, ConsultOne DEF Consult
  <2>3. Founded(p, run.model, w)' \/ (w = "no" /\ Told(p, run.model, "nothing")')
    BY <2>1, <2>2 DEF Founded, Guarded
  <2>4. QED
    BY <1>5, <2>1, <2>2, <2>3
<1>8. ASSUME NEW p \in DOMAIN batch, AskStep(p) PROVE VerdictInv'
  BY <1>4, <1>8, AskOne DEF AskOnly
<1>9. QED
  BY <1>4, <1>6, <1>7, <1>8
  DEF Next, Work, Operator, vars, Predict, Scoring, Warm, Begin, AskBatch, EndBatch,
      Abort, Finish, Scored, Kill

LEMMA PendingStep == IInv /\ [Next]_vars => PendingInv'
<1> SUFFICES ASSUME IInv, [Next]_vars PROVE PendingInv'
  OBVIOUS
<1>0. WorkInv /\ PendingInv /\ RunInv
  BY DEF IInv
<1>1. /\ answered \subseteq answered'
      /\ \A p, m, w : Told(p, m, w) => Told(p, m, w)'
      /\ \A p, m, w : Founded(p, m, w) => Founded(p, m, w)'
  BY AnsweredGrows, FoundedStays
<1>2. ASSUME run # None, run' = run,
             \A p \in (todo \cup DOMAIN batch)' : ~Guarded(p) /\ ~Free(p),
             \A p \in DOMAIN batch' :
               batch'[p].state \in Words => Told(p, run.model, batch[p].state)',
             \A p \in DOMAIN unwritten' : Founded(p, run.model, unwritten[p])'
      PROVE  PendingInv'
  BY <1>2 DEF PendingInv, Guarded, Free, Told, Founded
<1>3. ASSUME UNCHANGED << run, todo, batch, unwritten >> PROVE PendingInv'
  <2>1. \A p, w : Told(p, run.model, w) => Told(p, run.model, w)'
    BY <1>1, <1>3 DEF Told
  <2>2. \A p, w : Founded(p, run.model, w) => Founded(p, run.model, w)'
    BY <1>1, <1>3 DEF Founded, Told, Guarded, Free, FreeVerdict
  <2>3. QED
    BY <1>0, <1>3, <2>1, <2>2 DEF PendingInv, Guarded, Free, Told, Founded
<1>4. ASSUME Leaves PROVE PendingInv'
  BY <1>4 DEF Leaves, PendingInv
<1>5. ASSUME NEW m \in Models, Scoring(m) PROVE PendingInv'
  <2>1. run = None /\ UNCHANGED << todo, batch, unwritten >>
    BY <1>5 DEF Scoring, Begin
  <2>2. todo' = {} /\ DOMAIN batch' = {} /\ DOMAIN unwritten' = {}
    BY <1>0, <2>1 DEF RunInv, WorkInv
  <2>3. QED
    BY <2>2 DEF PendingInv
<1>6. ASSUME NEW m \in Models, NEW limit \in Limits, NEW allow \in BOOLEAN,
             Warm(m, limit, allow)
      PROVE  PendingInv'
  <2>1. PICK pairs \in SUBSET Pairs :
          /\ Begin("warm", m, pairs, limit, allow)
          /\ todo' \subseteq Asked(pairs, m)
          /\ unwritten' = [p \in Settled(pairs, m) |-> FreeVerdict(p)]
    BY <1>6, WarmOf
  <2>2. batch' = batch /\ DOMAIN batch = {}
    BY <1>0, <2>1 DEF Begin, RunInv, WorkInv
  <2>3. \A p \in todo' : ~Guarded(p) /\ ~Free(p)
    BY <2>1 DEF Asked
  <2>4. \A p \in DOMAIN unwritten' :
          ~Guarded(p) /\ Free(p) /\ unwritten'[p] = FreeVerdict(p)
    BY <2>1 DEF Settled
  <2>5. \A p \in DOMAIN unwritten' : Founded(p, run.model, unwritten[p])'
    BY <2>4 DEF Founded, Guarded, Free, FreeVerdict
  <2>6. QED
    BY <2>2, <2>3, <2>5 DEF PendingInv, Guarded, Free
<1>7. CASE Commit
  <2>1. PICK q \in DOMAIN unwritten :
          /\ run \in RunRecords /\ run' = run
          /\ unwritten' = [p \in DOMAIN unwritten \ {q} |-> unwritten[p]]
    BY <1>7, CommitOne
  <2>2. run # None /\ UNCHANGED << todo, batch, answered >>
    BY <1>7, <2>1, NoneIsNoRun DEF Commit
  <2>3. QED
    BY <1>0, <1>2, <2>1, <2>2 DEF PendingInv, Told, Founded, Guarded, Free, FreeVerdict
<1>8. CASE AskBatch
  <2> DEFINE pairs == First(BatchSize, todo)
  <2>1. /\ batch' = [p \in pairs |-> Fresh] /\ todo' = todo \ pairs
        /\ UNCHANGED << run, unwritten, answered >> /\ DOMAIN unwritten = {} /\ run # None
    BY <1>0, <1>8 DEF AskBatch, program, RunInv
  <2>2. pairs \subseteq todo
    BY <1>0, FirstTakes, JudgeAssumption DEF WorkInv
  <2>3. \A p \in DOMAIN batch' : batch'[p].state \notin Words
    BY <2>1 DEF Fresh, Words
  <2>4. \A p \in (todo \cup DOMAIN batch)' : ~Guarded(p) /\ ~Free(p)
    BY <1>0, <2>1, <2>2 DEF PendingInv
  <2>5. QED
    BY <1>2, <2>1, <2>3, <2>4
<1>9. ASSUME NEW p \in DOMAIN batch, AskStep(p) PROVE PendingInv'
  <2>1. PICK s \in States, a \in Nat : Asks(p, s, a)
    BY <1>9, AskOne
  <2>2. /\ UNCHANGED << todo, unwritten, run >> /\ run # None /\ DOMAIN unwritten = {}
    BY <1>0, <1>9, AskOne DEF AskOnly, program, RunInv, WorkInv
  <2>3. batch' = [batch EXCEPT ![p] = [state |-> s, attempts |-> a]]
    BY <2>1 DEF Asks
  <2>4. /\ DOMAIN batch' = DOMAIN batch
        /\ \A q \in DOMAIN batch : q # p => batch'[q] = batch[q]
        /\ batch'[p].state = s
    BY <1>0, <2>3 DEF WorkInv
  <2>5. s \in Words => Told(p, run.model, s)'
    BY <2>1 DEF Asks, Words
  <2>6. ASSUME NEW q \in DOMAIN batch', batch'[q].state \in Words
        PROVE  Told(q, run.model, batch[q].state)'
    <3>1. CASE q = p
      <4>1. batch'[q].state = s /\ s \in Words
        BY <2>4, <2>6, <3>1
      <4>2. [pair |-> q, model |-> run'.model, verdict |-> s] \in answered'
        BY <2>5, <3>1, <4>1 DEF Told
      <4>3. QED
        BY <4>1, <4>2 DEF Told
    <3>2. CASE q # p
      <4>1. Told(q, run.model, batch[q].state) /\ batch'[q] = batch[q]
        BY <1>0, <2>2, <2>4, <2>6, <3>2 DEF PendingInv
      <4>2. QED
        BY <1>1, <2>2, <4>1 DEF Told
    <3>3. QED
      BY <3>1, <3>2
  <2>7. \A q \in (todo \cup DOMAIN batch)' : ~Guarded(q) /\ ~Free(q)
    BY <1>0, <2>2, <2>4 DEF PendingInv
  <2>8. QED
    BY <1>2, <2>2, <2>6, <2>7
<1>10. CASE EndBatch
  <2>1. /\ unwritten' = [p \in Resolved |-> batch[p].state] /\ batch' = << >>
        /\ UNCHANGED << todo, run, answered >> /\ run # None
    BY <1>0, <1>10 DEF EndBatch, program, RunInv
  <2>2. \A p \in Resolved : /\ p \in DOMAIN batch /\ ~Guarded(p)
                            /\ Told(p, run.model, batch[p].state)
    BY <1>0, <2>1 DEF Resolved, InState, PendingInv
  <2>3. \A p \in DOMAIN unwritten' : Founded(p, run.model, unwritten[p])'
    BY <2>1, <2>2 DEF Founded, Told, Guarded, Free, FreeVerdict
  <2>4. DOMAIN batch' = {}
    BY <2>1
  <2>5. QED
    BY <1>0, <1>2, <2>1, <2>3, <2>4 DEF PendingInv
<1>11. ASSUME NEW p \in Pairs, Consult(p) PROVE PendingInv'
  BY <1>3, <1>11 DEF Consult
<1>12. ASSUME run = None, run' = run PROVE PendingInv'
  BY <1>12 DEF PendingInv
<1>13. QED
  BY <1>3, <1>4, <1>5, <1>6, <1>7, <1>8, <1>9, <1>10, <1>11, <1>12
  DEF Next, Work, Operator, vars, program, Predict, Abort, Finish, Scored, Kill

-----------------------------------------------------------------------------
(* The file is append-only, and by key it is written once.                   *)

LEMMA RulerStep ==
  IInv /\ [Next]_vars => \A k \in Keys : lines[k] # << >> => lines'[k] = lines[k]
<1> SUFFICES ASSUME IInv, [Next]_vars, NEW k \in Keys, lines[k] # << >>
             PROVE  lines'[k] = lines[k]
  OBVIOUS
<1>1. ASSUME lines' = lines PROVE lines'[k] = lines[k]
  BY <1>1
<1>2. CASE Commit
  BY <1>2, CommitOne, WriteOnce
<1>3. ASSUME NEW p \in Pairs, Consult(p) PROVE lines'[k] = lines[k]
  BY <1>3, ConsultOne, WriteOnce DEF Consult
<1>4. ASSUME NEW p \in DOMAIN batch, AskStep(p) PROVE lines'[k] = lines[k]
  BY <1>4, AskOne DEF AskOnly
<1>5. QED
  BY <1>1, <1>2, <1>3, <1>4
  DEF Next, Work, Operator, vars, Predict, Scoring, Warm, Begin, AskBatch, EndBatch,
      Abort, Finish, Scored, Kill

LEMMA CachedGrows == IInv /\ [Next]_vars => Cached \subseteq Cached'
BY RulerStep DEF Cached

-----------------------------------------------------------------------------
(* What a pre-warm leaves for scoring.                                      *)

LEMMA CoverStep == IInv /\ [Next]_vars => CoverInv'
<1> SUFFICES ASSUME IInv, [Next]_vars PROVE CoverInv'
  OBVIOUS
<1>0. WorkInv /\ RunInv /\ CoverInv /\ FileInv
  BY DEF IInv
<1>1. \A p, m : Have(p, m) => Have(p, m)'
  BY CachedGrows DEF Have, Guarded, Key
<1>2. ASSUME run' = run, stats'["failures"] = 0 => stats["failures"] = 0,
             NEW S, S = run.pairs,
             \A p \in S : OnItsWay(p) => OnItsWay(p)' \/ Have(p, run.model)'
      PROVE  CoverInv'
  <2> SUFFICES ASSUME Warming', run'.limit = None, stats'["failures"] = 0, NEW p \in S
               PROVE  Have(p, run.model)' \/ OnItsWay(p)'
    BY <1>2 DEF CoverInv
  <2>1. Have(p, run.model) \/ OnItsWay(p)
    BY <1>0, <1>2 DEF CoverInv, Warming
  <2>2. Have(p, run.model) => Have(p, run.model)'
    BY <1>1, <1>2 DEF Have
  <2>3. QED
    BY <1>2, <2>1, <2>2
<1>3. ASSUME run' = run, stats' = stats,
             \A p : OnItsWay(p) => OnItsWay(p)'
      PROVE  CoverInv'
  BY <1>2, <1>3
<1>4. ASSUME UNCHANGED << run, stats, todo, batch, unwritten >> PROVE CoverInv'
  BY <1>3, <1>4 DEF OnItsWay
<1>5. ASSUME Leaves PROVE CoverInv'
  BY <1>5 DEF Leaves, CoverInv, Warming
<1>6. ASSUME NEW m \in Models, Scoring(m) PROVE CoverInv'
  <2>1. Needed(predicted) \in SUBSET Pairs
    BY <1>0, NeededArePairs DEF RunInv
  <2>2. run'.kind = "score"
    BY <1>6, <2>1, BeginRuns DEF Scoring
  <2>3. QED
    BY <2>2 DEF CoverInv, Warming
<1>7. ASSUME NEW m \in Models, NEW limit \in Limits, NEW allow \in BOOLEAN,
             Warm(m, limit, allow)
      PROVE  CoverInv'
  <2>1. PICK pairs \in SUBSET Pairs :
          /\ Begin("warm", m, pairs, limit, allow)
          /\ todo' = First(limit, Asked(pairs, m))
          /\ unwritten' = [p \in Settled(pairs, m) |-> FreeVerdict(p)]
    BY <1>7, WarmOf
  <2>2. run'.model = m /\ run'.pairs = pairs /\ run'.limit = limit /\ Cached' = Cached
    BY <2>1, BeginRuns
  <2> SUFFICES ASSUME limit = None, NEW p \in pairs
               PROVE  Have(p, run.model)' \/ OnItsWay(p)'
    BY <2>2 DEF CoverInv
  <2>3. Asked(pairs, m) \in SUBSET Pairs
    BY DEF Asked
  <2>4. todo' = Asked(pairs, m)
    BY <2>1, <2>3, FirstTakes
  <2>5. Guarded(p) \/ Key(p, m) \in Cached \/ p \in Settled(pairs, m) \/ p \in Asked(pairs, m)
    BY DEF Settled, Asked
  <2>6. QED
    BY <2>1, <2>2, <2>4, <2>5 DEF Have, OnItsWay, Guarded, Key
<1>8. CASE Commit
  <2>1. PICK q \in DOMAIN unwritten :
          /\ q \in Pairs /\ unwritten[q] \in Words /\ run \in RunRecords /\ run' = run
          /\ IF Key(q, run.model) \in memory
               THEN UNCHANGED << lines, memory >> ELSE Write(q, unwritten[q])
          /\ unwritten' = [p \in DOMAIN unwritten \ {q} |-> unwritten[p]]
          /\ stats' = [stats EXCEPT !["written"] = @ + 1]
    BY <1>8, CommitOne
  <2>2. stats'["failures"] = stats["failures"] /\ UNCHANGED << todo, batch >>
    BY <1>0, <1>8, <2>1 DEF Commit, WorkInv, Counts
  <2>3. Key(q, run.model) \in Cached'
    <3>1. CASE Key(q, run.model) \in memory
      BY <1>0, <2>1, <3>1, NoneIsNoRun, CachedGrows DEF FileInv
    <3>2. CASE Key(q, run.model) \notin memory
      BY <2>1, <3>2, WriteOnce
    <3>3. QED
      BY <3>1, <3>2
  <2>4. \A p : OnItsWay(p) => OnItsWay(p)' \/ p = q
    BY <2>1, <2>2 DEF OnItsWay
  <2>5. Have(q, run.model)'
    BY <2>1, <2>3 DEF Have, Key
  <2>6. QED
    BY <1>2, <2>1, <2>2, <2>4, <2>5
<1>9. CASE AskBatch
  <2> DEFINE pairs == First(BatchSize, todo)
  <2>1. /\ batch' = [p \in pairs |-> Fresh] /\ todo' = todo \ pairs
        /\ UNCHANGED << run, stats, unwritten >> /\ DOMAIN batch = {}
    BY <1>0, <1>9 DEF AskBatch, program, WorkInv
  <2>2. \A p : OnItsWay(p) => OnItsWay(p)'
    BY <2>1 DEF OnItsWay
  <2>3. QED
    BY <1>3, <2>1, <2>2
<1>10. ASSUME NEW p \in DOMAIN batch, AskStep(p) PROVE CoverInv'
  <2>1. PICK s \in States, a \in Nat : Asks(p, s, a)
    BY <1>10, AskOne
  <2>2. UNCHANGED << todo, unwritten, run >>
    BY <1>10, AskOne DEF AskOnly, program
  <2>3. DOMAIN batch' = DOMAIN batch
    BY <1>0, <2>1 DEF Asks, WorkInv
  <2>4. stats'["failures"] = stats["failures"]
    BY <2>1, StatsCounted DEF Counts
  <2>5. \A q : OnItsWay(q) => OnItsWay(q)'
    BY <2>2, <2>3 DEF OnItsWay
  <2>6. QED
    BY <1>2, <2>2, <2>4, <2>5
<1>11. CASE EndBatch
  <2>1. /\ unwritten' = [p \in Resolved |-> batch[p].state]
        /\ stats' = [stats EXCEPT !["failures"] = Failures]
        /\ UNCHANGED << todo, run >> /\ DOMAIN unwritten = {}
        /\ Ended /\ InState({"broken"}) = {}
    BY <1>0, <1>11 DEF EndBatch, program, WorkInv
  <2>2. InState({"failed"}) \in SUBSET Pairs
    BY <1>0 DEF InState, WorkInv
  <2>3. stats'["failures"] = stats["failures"] + Cardinality(InState({"failed"}))
        /\ stats["failures"] \in Nat
    BY <1>0, <2>1 DEF Failures, WorkInv, Counts
  <2>4. ASSUME stats'["failures"] = 0
        PROVE  /\ stats["failures"] = 0
               /\ \A p : OnItsWay(p) => OnItsWay(p)'
    <3>1. stats["failures"] = 0 /\ InState({"failed"}) = {}
      BY <2>2, <2>3, <2>4, CountOf
    <3>2. \A p \in DOMAIN batch : batch[p].state \in Words
      BY <1>0, <2>1, <3>1 DEF InState, Ended, WorkInv, States
    <3>3. DOMAIN unwritten' = DOMAIN batch
      BY <2>1, <3>2 DEF Resolved, InState
    <3>4. QED
      BY <2>1, <3>1, <3>3 DEF OnItsWay
  <2>5. CASE stats'["failures"] = 0
    BY <1>2, <2>1, <2>4, <2>5
  <2>6. CASE stats'["failures"] # 0
    BY <2>6 DEF CoverInv
  <2>7. QED
    BY <2>5, <2>6
<1>12. ASSUME NEW p \in Pairs, Consult(p) PROVE CoverInv'
  BY <1>4, <1>12, ConsultOne DEF Consult
<1>13. ASSUME run = None, run' = run PROVE CoverInv'
  BY <1>13 DEF CoverInv, Warming
<1>14. QED
  BY <1>4, <1>5, <1>6, <1>7, <1>8, <1>9, <1>10, <1>11, <1>12, <1>13
  DEF Next, Work, Operator, vars, program, Predict, Abort, Finish, Scored, Kill

LEMMA WarmedStep == IInv /\ [Next]_vars => WarmedInv'
<1> SUFFICES ASSUME IInv, [Next]_vars PROVE WarmedInv'
  OBVIOUS
<1>0. WarmedInv /\ WorkInv /\ RunInv /\ CoverInv
  BY DEF IInv
<1>1. \A p, m : Have(p, m) => Have(p, m)'
  BY CachedGrows DEF Have, Guarded, Key
<1>2. \A w \in warmed : \A p \in w.pairs : Have(p, w.model)'
  BY <1>0, <1>1 DEF WarmedInv, WarmSuffices, Have
<1>3. ASSUME warmed' = warmed PROVE WarmedInv'
  BY <1>0, <1>2, <1>3 DEF WarmedInv, WarmSuffices, Have
<1>4. ASSUME Finish,
             warmed' = warmed \cup {[model |-> run.model, pairs |-> run.pairs]},
             Passed, ~run.allow, run.limit = None
      PROVE  WarmedInv'
  <2>1. /\ pc = "commit" /\ todo = {} /\ DOMAIN unwritten = {} /\ DOMAIN batch = {}
    BY <1>0, <1>4 DEF Finish, WorkInv
  <2>2. run \in RunRecords /\ Warming /\ stats["failures"] = 0
    BY <1>0, <1>4, <2>1 DEF RunInv, RunRecords, Warming, Passed
  <2>3. \A p \in run.pairs : Have(p, run.model)
    BY <1>0, <1>4, <2>1, <2>2 DEF CoverInv, OnItsWay
  <2> DEFINE new == [model |-> run.model, pairs |-> run.pairs]
  <2>4. new \in [model : Models, pairs : SUBSET Pairs]
    BY <2>2 DEF RunRecords
  <2>5. \A w : w = new => \A p \in w.pairs : Have(p, w.model)'
    BY <1>1, <2>3
  <2>6. \A w \in warmed' : \A p \in w.pairs : Have(p, w.model)'
    BY <1>2, <1>4, <2>5
  <2>7. QED
    BY <1>0, <1>4, <2>4, <2>6 DEF WarmedInv, WarmSuffices, Have
<1>5. CASE Finish
  BY <1>3, <1>4, <1>5 DEF Finish
<1>6. ASSUME NEW p \in DOMAIN batch, AskStep(p) PROVE WarmedInv'
  BY <1>3, <1>6, AskOne DEF AskOnly
<1>7. ASSUME NEW p \in Pairs, Consult(p) PROVE WarmedInv'
  BY <1>3, <1>7 DEF Consult
<1>8. QED
  BY <1>3, <1>5, <1>6, <1>7
  DEF Next, Work, Operator, vars, Predict, Scoring, Warm, Begin, Commit, AskBatch, EndBatch,
      Abort, Scored, Kill

-----------------------------------------------------------------------------
(* The report.                                                              *)

Adds ==
  stats["free"] + stats["yes"] + stats["no"] =
    stats["written"] + Cardinality(DOMAIN unwritten) + Cardinality(InState(Words))
Fails == stats["unparseable"] <= stats["failures"] + Cardinality(InState({"failed"}))

LEMMA NoneInState == DOMAIN batch = {} => \A S : Cardinality(InState(S)) = 0
BY FS_EmptySet DEF InState

(* One more pair resolved, or failed, or neither.                            *)
LEMMA AskCounted ==
  ASSUME IInv, NEW p \in DOMAIN batch, batch[p].state \in {"queued", "asking"},
         NEW s \in States, NEW a \in Nat, Asks(p, s, a)
  PROVE  \A S : {"queued", "asking"} \cap S = {} =>
           Cardinality(InState(S)') = Cardinality(InState(S)) + IF s \in S THEN 1 ELSE 0
<1> TAKE S
<1> HAVE {"queued", "asking"} \cap S = {}
<1>1. WorkInv
  BY DEF IInv
<1>2. /\ DOMAIN batch' = DOMAIN batch
      /\ batch'[p].state = s
      /\ \A q \in DOMAIN batch : q # p => batch'[q] = batch[q]
  BY <1>1 DEF Asks, WorkInv
<1>3. InState(S)' = {q \in DOMAIN batch' : batch'[q].state \in S}
  BY DEF InState
<1>4. p \notin InState(S) /\ InState(S) \in SUBSET Pairs
  BY <1>1 DEF InState, WorkInv
<1>5. CASE s \in S
  <2>1. InState(S)' = InState(S) \cup {p}
    BY <1>2, <1>3, <1>5 DEF InState
  <2>2. QED
    BY <1>4, <1>5, <2>1, CountOf
<1>6. CASE s \notin S
  <2>1. InState(S)' = InState(S)
    BY <1>2, <1>3, <1>4, <1>6 DEF InState
  <2>2. QED
    BY <1>4, <1>6, <2>1, CountOf
<1>7. QED
  BY <1>5, <1>6

LEMMA ReportStep == IInv /\ [Next]_vars => ReportHonest'
<1> SUFFICES ASSUME IInv, [Next]_vars PROVE ReportHonest'
  OBVIOUS
<1>0. WorkInv /\ RunInv /\ (Warming => Adds /\ Fails)
  BY DEF IInv, ReportHonest, Adds, Fails
<1>t. /\ \A c \in Counts : stats[c] \in Nat /\ stats'[c] \in Nat
      /\ DOMAIN unwritten \in SUBSET Pairs
      /\ \A S : InState(S) \in SUBSET Pairs /\ Cardinality(InState(S)) \in Nat
  <2>1. \A S : InState(S) \in SUBSET Pairs
    BY <1>0 DEF InState, WorkInv
  <2>2. stats \in [Counts -> Nat] /\ stats' \in [Counts -> Nat]
    BY <1>0, WorkStep DEF WorkInv
  <2>3. QED
    BY <1>0, <2>1, <2>2, CountOf DEF WorkInv
<1>r. ASSUME Warming' => Adds' /\ Fails' PROVE ReportHonest'
  BY <1>r DEF ReportHonest, Adds, Fails
<1>1. ASSUME UNCHANGED << run, stats, batch, unwritten >> PROVE ReportHonest'
  BY <1>0, <1>1, <1>r DEF Adds, Fails, Warming, InState
<1>2. ASSUME Leaves PROVE ReportHonest'
  BY <1>2, <1>r DEF Leaves, Warming
<1>3. ASSUME NEW m \in Models, Scoring(m) PROVE ReportHonest'
  <2>1. Needed(predicted) \in SUBSET Pairs
    BY <1>0, NeededArePairs DEF RunInv
  <2>2. run'.kind = "score"
    BY <1>3, <2>1, BeginRuns DEF Scoring
  <2>3. QED
    BY <1>r, <2>2 DEF Warming
<1>4. ASSUME NEW m \in Models, NEW limit \in Limits, NEW allow \in BOOLEAN,
             Warm(m, limit, allow)
      PROVE  ReportHonest'
  <2>1. PICK pairs \in SUBSET Pairs :
          /\ Begin("warm", m, pairs, limit, allow)
          /\ unwritten' = [p \in Settled(pairs, m) |-> FreeVerdict(p)]
          /\ stats' = [Nothing EXCEPT !["free"] = Cardinality(Settled(pairs, m))]
    BY <1>4, WarmOf
  <2>2. DOMAIN batch' = {}
    BY <1>0, <2>1 DEF Begin, RunInv, WorkInv
  <2>3. Settled(pairs, m) \in SUBSET Pairs
    BY DEF Settled
  <2>4. \A S : InState(S)' = {}
    BY <2>2 DEF InState
  <2>5. Cardinality(InState(Words)') = 0 /\ Cardinality(InState({"failed"})') = 0
    BY <2>4, FS_EmptySet
  <2>6. /\ stats'["free"] = Cardinality(DOMAIN unwritten')
        /\ \A c \in Counts \ {"free"} : stats'[c] = 0
    BY <2>1 DEF Nothing, Counts
  <2>7. Cardinality(DOMAIN unwritten') \in Nat
    BY <2>1, <2>3, CountOf
  <2>8. Adds' /\ Fails'
    BY <2>5, <2>6, <2>7 DEF Adds, Fails, Counts
  <2>9. QED
    BY <1>r, <2>8
<1>5. CASE Commit
  <2>1. PICK p \in DOMAIN unwritten :
          /\ run' = run
          /\ unwritten' = [q \in DOMAIN unwritten \ {p} |-> unwritten[q]]
          /\ stats' = [stats EXCEPT !["written"] = @ + 1]
    BY <1>5, CommitOne
  <2>2. batch' = batch
    BY <1>5 DEF Commit
  <2>3. /\ stats'["written"] = stats["written"] + 1
        /\ \A c \in Counts \ {"written"} : stats'[c] = stats[c]
    BY <1>0, <2>1 DEF WorkInv, Counts
  <2>4. Cardinality(DOMAIN unwritten') = Cardinality(DOMAIN unwritten) - 1
        /\ Cardinality(DOMAIN unwritten) \in Nat
    BY <1>t, <2>1, CountOf
  <2>5. InState(Words)' = InState(Words) /\ InState({"failed"})' = InState({"failed"})
    BY <2>2 DEF InState
  <2>6. Adds => Adds'
    BY <1>t, <2>3, <2>4, <2>5 DEF Adds, Counts
  <2>7. Fails => Fails'
    BY <1>t, <2>3, <2>5 DEF Fails, Counts
  <2>8. QED
    BY <1>0, <1>r, <2>1, <2>6, <2>7 DEF Warming
<1>6. CASE AskBatch
  <2> DEFINE pairs == First(BatchSize, todo)
  <2>1. /\ batch' = [p \in pairs |-> Fresh]
        /\ UNCHANGED << run, stats, unwritten >> /\ DOMAIN batch = {}
    BY <1>0, <1>6 DEF AskBatch, program, WorkInv
  <2>2. \A p \in DOMAIN batch' : batch'[p].state = "queued"
    BY <2>1 DEF Fresh
  <2>3. InState(Words)' = {} /\ InState({"failed"})' = {}
    BY <2>2 DEF InState, Words
  <2>4. InState(Words) = {} /\ InState({"failed"}) = {}
    BY <2>1 DEF InState
  <2>5. QED
    BY <1>0, <1>r, <2>1, <2>3, <2>4 DEF Adds, Fails, Warming
<1>7. ASSUME NEW p \in DOMAIN batch, AskStep(p) PROVE ReportHonest'
  <2>1. PICK s \in States, a \in Nat : Asks(p, s, a)
    BY <1>7, AskOne
  <2>2. /\ UNCHANGED << unwritten, run >> /\ batch[p].state \in {"queued", "asking"}
    BY <1>7, AskOne DEF AskOnly, program
  <2>i. PICK i \in {0, 1} : i = IF s \in Words THEN 1 ELSE 0
    OBVIOUS
  <2>j. PICK j \in {0, 1} : j = IF s = "failed" THEN 1 ELSE 0
    OBVIOUS
  <2>3. /\ Cardinality(InState(Words)') = Cardinality(InState(Words)) + i
        /\ Cardinality(InState({"failed"})') = Cardinality(InState({"failed"})) + j
    BY <2>1, <2>2, <2>i, <2>j, AskCounted DEF Words
  <2>4. \A c \in Counts \ {"yes", "no", "unparseable"} : stats'[c] = stats[c]
    BY <2>1, StatsCounted
  <2>5. /\ stats'["yes"] + stats'["no"] = stats["yes"] + stats["no"] + i
        /\ stats'["unparseable"] <= stats["unparseable"] + j
    <3>1. stats \in [Counts -> Nat]
      BY <1>0 DEF WorkInv
    <3>2. \A c \in {"yes", "no", "unparseable"} : stats[c] \in Nat
      BY <1>t DEF Counts
    <3>3. CASE s \in Words
      <4>1. stats' = [stats EXCEPT ![s] = @ + 1] /\ i = 1 /\ j = 0
        BY <2>1, <2>i, <2>j, <3>3 DEF Asks, Words
      <4>2. QED
        BY <3>1, <3>2, <3>3, <4>1 DEF Words, Counts
    <3>4. CASE s \notin Words
      <4>1. i = 0 /\ stats'["yes"] = stats["yes"] /\ stats'["no"] = stats["no"]
        BY <2>1, <2>i, <3>1, <3>4 DEF Asks, Counts
      <4>2. stats'["unparseable"] <= stats["unparseable"] + j
        BY <2>1, <2>j, <3>1, <3>2, <3>4 DEF Asks, Counts
      <4>3. QED
        BY <3>2, <4>1, <4>2
    <3>5. QED
      BY <3>3, <3>4
  <2>6. Cardinality(DOMAIN unwritten) \in Nat
    BY <1>t, CountOf
  <2>7. Adds => Adds'
    BY <1>t, <2>2, <2>3, <2>4, <2>5, <2>6 DEF Adds, Counts
  <2>8. Fails => Fails'
    BY <1>t, <2>3, <2>4, <2>5 DEF Fails, Counts
  <2>9. QED
    BY <1>0, <1>r, <2>2, <2>7, <2>8 DEF Warming
<1>8. CASE EndBatch
  <2>1. /\ unwritten' = [p \in Resolved |-> batch[p].state]
        /\ stats' = [stats EXCEPT !["failures"] = Failures] /\ batch' = << >>
        /\ run' = run /\ DOMAIN unwritten = {}
    BY <1>0, <1>8 DEF EndBatch, program, WorkInv
  <2>2. /\ stats'["failures"] = stats["failures"] + Cardinality(InState({"failed"}))
        /\ \A c \in Counts \ {"failures"} : stats'[c] = stats[c]
    BY <1>0, <2>1 DEF Failures, WorkInv, Counts
  <2>3. DOMAIN unwritten' = InState(Words)
    BY <2>1 DEF Resolved
  <2>4. InState(Words)' = {} /\ InState({"failed"})' = {}
    BY <2>1 DEF InState
  <2>5. Cardinality(DOMAIN unwritten) = 0 /\ Cardinality(InState(Words)') = 0
        /\ Cardinality(InState({"failed"})') = 0
    BY <2>1, <2>4, FS_EmptySet
  <2>6. Adds => Adds'
    BY <1>t, <2>2, <2>3, <2>5 DEF Adds, Counts
  <2>7. Fails => Fails'
    BY <1>t, <2>2, <2>5 DEF Fails, Counts
  <2>8. QED
    BY <1>0, <1>r, <2>1, <2>6, <2>7 DEF Warming
<1>9. ASSUME NEW p \in Pairs, Consult(p) PROVE ReportHonest'
  BY <1>1, <1>9 DEF Consult
<1>10. QED
  BY <1>1, <1>2, <1>3, <1>4, <1>5, <1>6, <1>7, <1>8, <1>9
  DEF Next, Work, Operator, vars, program, Predict, Abort, Finish, Scored, Kill

-----------------------------------------------------------------------------
(* The theorems.                                                            *)

LEMMA InitIInv == Init => IInv
<1> SUFFICES ASSUME Init PROVE IInv
  OBVIOUS
<1>e. DOMAIN << >> = {} /\ Cardinality({}) = 0
  BY FS_EmptySet
<1>1. lines \in [Keys -> Seq(Words)] /\ \A k \in Keys : lines[k] = << >>
  BY DEF Init
<1>2. FileInv
  BY <1>1 DEF Init, FileInv
<1>3. RunInv
  BY JudgeAssumption DEF Init, RunInv
<1>4. stats \in [Counts -> Nat]
  BY DEF Init, Nothing
<1>5. WorkInv
  <2>1. batch \in [DOMAIN batch -> [state : States, attempts : Nat]]
        /\ unwritten \in [DOMAIN unwritten -> Words]
    BY <1>e DEF Init
  <2>2. DOMAIN batch = {} /\ DOMAIN unwritten = {} /\ todo = {}
    BY <1>e DEF Init
  <2>3. Cardinality(DOMAIN batch) <= BatchSize
    BY <1>e, <2>2, JudgeAssumption
  <2>4. QED
    BY <1>4, <2>1, <2>2, <2>3 DEF WorkInv
<1>6. VerdictInv
  BY <1>1, KeysApart DEF VerdictInv
<1>7. PendingInv /\ CoverInv /\ ReportHonest
  BY DEF Init, PendingInv, CoverInv, Warming, ReportHonest
<1>8. WarmedInv
  BY DEF Init, WarmedInv, WarmSuffices
<1>9. QED
  BY <1>2, <1>3, <1>5, <1>6, <1>7, <1>8 DEF IInv

(* The inductive invariant holds of every behaviour of a pre-warm, a scoring *)
(* and their kills: it joins what the file has to what workers were told.    *)
THEOREM Invariance == Spec => []IInv
<1>1. IInv /\ [Next]_vars => IInv'
  BY FileStep, RunStep, WorkStep, VerdictStep, PendingStep, CoverStep, WarmedStep, ReportStep
  DEF IInv
<1>2. QED
  BY <1>1, InitIInv, PTL DEF Spec

LEMMA IInvTyped == IInv => TypeOK
<1> SUFFICES ASSUME IInv PROVE TypeOK
  OBVIOUS
<1>1. DOMAIN lines = Keys /\ memory \subseteq Keys
  BY DEF IInv, FileInv, Cached
<1>2. QED
  BY <1>1 DEF IInv, RunInv, WorkInv, TypeOK

(* For any labels, models, replies, batch size and number of workers, runs,  *)
(* kills and failures: what run_judge.py and JudgeMatcher keep on a pair is  *)
(* one verdict, which the judge gave outside its reasoning, or which needs no *)
(* judge, or the non-match of a scoring that could not read the reply; and a *)
(* pre-warm never asks about a pair that needs none.                         *)
THEOREM FileTrue == Spec => []VerdictsTrue
<1>1. IInv => VerdictsTrue
  <2> SUFFICES ASSUME IInv PROVE VerdictsTrue
    OBVIOUS
  <2>1. Warming => \A p \in todo \cup DOMAIN batch : ~Guarded(p) /\ ~Free(p)
    BY DEF IInv, PendingInv, Warming
  <2>2. QED
    BY <2>1, IInvTyped DEF IInv, VerdictInv, Founded, Told, VerdictsTrue
<1>2. QED
  BY <1>1, Invariance, PTL

(* No step of any run replaces or repeats a verdict that is in the file.     *)
THEOREM RulerIsFixed == Spec => RulerFixed
<1> DEFINE Kept == \A k \in Keys : lines[k] # << >> => lines'[k] = lines[k]
<1>1. IInv /\ [Next]_vars => [Kept]_vars
  BY RulerStep
<1>2. QED
  BY <1>1, Invariance, PTL DEF Spec, RulerFixed

(* A pre-warm without a limit that reports no gap leaves no pair of its list *)
(* to ask, whichever requests failed on the way and in whatever order        *)
(* workers ended; and at every moment its counters account for each verdict  *)
(* that was read or settled: it is written, or about to be, or in the batch. *)
(* The report and the exit status of run_judge.py can be relied on.          *)
THEOREM WarmIsHonest == Spec => []WarmHonest
<1>1. IInv => WarmHonest
  BY DEF IInv, WarmedInv, WarmHonest
<1>2. QED
  BY <1>1, Invariance, PTL
=============================================================================
