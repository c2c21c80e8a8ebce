----------------------------- MODULE FrameCache -----------------------------
(***************************************************************************)
(* frames.py: VideoFrameProvider, one object used by all threads of the     *)
(* executor's pool.  A request is looked up in the cache under one lock,    *)
(* what is missing is decoded under another, and stored under the first     *)
(* again; between these steps other threads look up, decode, store and      *)
(* evict.                                                                   *)
(*                                                                          *)
(* Time is counted in ticks.  A decoded frame is the camera and the place   *)
(* in its video file it was read from; an episode is a part of that file    *)
(* that starts at Start, and its own clock starts with its first frame.     *)
(***************************************************************************)
EXTENDS Integers, Sequences, FiniteSets, SequencesExt, FiniteSetsExt

CONSTANTS
  Threads,
  Times,       \* Times[e]: the frame timestamps of episode e, increasing
  Start,       \* Start[e]: videos/<camera>/from_timestamp of episode e
  Datasets,    \* [declared, video, depth, named]: the cameras in info.json,
               \* those with video in order, those with depth, --vlm.camera_key
  Missing,     \* <<camera, episode>> without metadata or a video file
  Asks,        \* what threads ask: [episode, camera, times, max, insists]
  CacheSize,
  MaxAsks,     \* bound: requests of one thread
  MaxShort,    \* bound: decodes that fail or return too few frames
  Idle, None, Raised

ASSUME CacheAssumption == CacheSize \in Nat \ {0}

(* Every episode has frames, at times on a grid of ticks.                   *)
ASSUME TimesAssumption ==
  /\ Times \in Seq(Seq(Int) \ {<< >>})
  /\ Start \in [DOMAIN Times -> Int]

VARIABLES
  dataset,     \* the dataset the provider was made for
  pc,          \* what each thread does next
  request,     \* what it was asked
  wanted,      \* the timestamps of the frames it is for
  out,         \* the answer so far: frames, and None where one is missing
  decoded,     \* what the decoder returned for the missing ones
  decoder,     \* _decode_lock: the thread that holds it, or Idle
  aim,         \* the places the decoder was sent to
  cache,       \* _cache: entries in the order of insertion
  warned,      \* _warned_decode_fail
  answer,      \* what the last request of each thread returned
  asks, short  \* counters for the bounds

vars == << pc, request, wanted, out, decoded, decoder, aim, cache, warned,
           answer, asks, short, dataset >>
shared == << cache, warned, asks, short, dataset >>

-----------------------------------------------------------------------------
(* __post_init__: depth cameras are left out; a named camera is trusted if  *)
(* no other was found, and is the default in any case.                      *)
Cameras(d) ==
  LET keys == SelectSeq(d.video, LAMBDA k : k \notin d.depth)
  IN  IF keys = << >> /\ d.named # None THEN << d.named >> ELSE keys

DefaultCamera(d) ==
  IF d.named # None THEN d.named
  ELSE IF Cameras(d) = << >> THEN None ELSE Cameras(d)[1]

(* make_frame_provider: no provider for a dataset that declares cameras of *)
(* which none can be decoded.  Without any camera the provider is null.     *)
Refused == dataset.declared # {} /\ DefaultCamera(dataset) = None

Resolved(r, d) == [r EXCEPT !.camera = IF @ # None THEN @ ELSE DefaultCamera(d)]

(* The requests threads make, of the datasets there are.                    *)
Resolutions == {Resolved(r, d) : r \in Asks, d \in Datasets}

(* A request is of an episode and, if it names times, of times on the grid.  *)
(* The sentinels are no thread, request or frame.                            *)
ASSUME RequestAssumption ==
  /\ Asks \subseteq [episode : DOMAIN Times, camera : {r.camera : r \in Asks},
                     times : Seq(Int), max : Int, insists : BOOLEAN]
  /\ Idle \notin Resolutions /\ Idle \notin Threads
  /\ \A d \in Datasets : None \notin Range(d.video) \X Int

Distance(a, b) == IF a > b THEN a - b ELSE b - a

(* snap_to_frame, for a time given in parts of a tick.                      *)
Snapped(t, parts, e) ==
  LET off(i) == Distance(parts * Times[e][i], t)
      near == {i \in DOMAIN Times[e] : \A j \in DOMAIN Times[e] : off(i) <= off(j)}
  IN  Times[e][Min(near)]

(* video_for_episode: all frames, or n of them evenly spaced.               *)
EvenTimes(e, max) ==
  LET first == Times[e][1]  last == Times[e][Len(Times[e])]
      n == Min({max, Len(Times[e])})
  IN  IF max <= 0 THEN << >>
      ELSE IF n = Len(Times[e]) THEN Times[e]
      ELSE IF n = 1 \/ last = first THEN [i \in 1 .. n |-> first]
      ELSE [i \in 1 .. n |->
              Snapped((n - 1) * first + (i - 1) * (last - first), n - 1, e)]

(* The timestamps of the frames a request is for.                          *)
Wanted(r) ==
  IF r.times = << >> THEN EvenTimes(r.episode, r.max)
  ELSE [i \in DOMAIN r.times |-> Snapped(r.times[i], 1, r.episode)]

(* Offsets are counted from the first frame of the episode, whatever its   *)
(* clock says there, and added to its place in the video file.             *)
Place(e, ts) == Start[e] + ts - Times[e][1]

(* The frames themselves, as they are in the video.                        *)
FramesOf(r) ==
  [i \in DOMAIN Wanted(r) |-> << r.camera, Place(r.episode, Wanted(r)[i]) >>]

Insists(r) == r.insists

(* The camera has a video of the episode.                                  *)
HasVideo(r) ==
  r.camera \in Range(dataset.video) /\ << r.camera, r.episode >> \notin Missing

-----------------------------------------------------------------------------
(* The key of the default camera for every camera.                         *)
BugOneCamera(r, ts) == << r.episode, DefaultCamera(dataset), ts >>

Key(r, ts) == << r.episode, r.camera, ts >>

Cached(key) == {i \in DOMAIN cache : cache[i].key = key}

(* A set of positions in order.                                            *)
Ordered(positions) ==
  CHOOSE s \in [1 .. Cardinality(positions) -> positions] :
    Range(s) = positions /\ \A i, j \in DOMAIN s : i < j => s[i] < s[j]

(* The positions of the frames that are missing, in order.                 *)
Misses(t) == Ordered({i \in DOMAIN out[t] : out[t][i] = None})

(* One entry: the oldest is evicted when the cache is full, even if the    *)
(* key is in it; an entry that is there keeps its place.                   *)
Insert(c, entry) ==
  LET kept == IF Len(c) >= CacheSize THEN Tail(c) ELSE c
      at == {i \in DOMAIN kept : kept[i].key = entry.key}
  IN  IF at = {} THEN Append(kept, entry)
      ELSE [kept EXCEPT ![Min(at)] = entry]

Goto(t, step) == pc' = [pc EXCEPT ![t] = step]

Return(t, value) ==
  /\ Goto(t, "idle")
  /\ answer' = [answer EXCEPT ![t] = value]
  /\ request' = [request EXCEPT ![t] = Idle]
  /\ wanted' = [wanted EXCEPT ![t] = << >>]
  /\ out' = [out EXCEPT ![t] = << >>]
  /\ decoded' = [decoded EXCEPT ![t] = << >>]

GiveUp(t) == Return(t, IF Insists(request[t]) THEN Raised ELSE << >>)

Init ==
  /\ dataset \in Datasets
  /\ pc = [t \in Threads |-> "idle"]
  /\ request = [t \in Threads |-> Idle]
  /\ wanted = [t \in Threads |-> << >>]
  /\ out = [t \in Threads |-> << >>]
  /\ decoded = [t \in Threads |-> << >>]
  /\ decoder = Idle
  /\ aim = << >>
  /\ cache = << >>
  /\ warned = FALSE
  /\ answer = [t \in Threads |-> << >>]
  /\ asks = [t \in Threads |-> 0]
  /\ short = 0

(* frames_at or video_for_episode is called.                               *)
Call(t) ==
  /\ pc[t] = "idle" /\ asks[t] < MaxAsks /\ ~Refused
  /\ \E r \in Asks : /\ request' = [request EXCEPT ![t] = Resolved(r, dataset)]
                      /\ wanted' = [wanted EXCEPT ![t] = Wanted(r)]
  /\ Goto(t, "lookup")
  /\ asks' = [asks EXCEPT ![t] = @ + 1]
  /\ UNCHANGED << out, decoded, decoder, aim, cache, warned, answer, short, dataset >>

(* Nothing is asked for.                                                   *)
NothingWanted(t) ==
  /\ pc[t] = "lookup" /\ wanted[t] = << >>
  /\ Return(t, << >>)
  /\ UNCHANGED << decoder, aim >> /\ UNCHANGED shared

(* No camera, or the null provider: nothing to decode.                     *)
NoCamera(t) ==
  /\ pc[t] = "lookup" /\ wanted[t] # << >>
  /\ request[t].camera = None
  /\ GiveUp(t)
  /\ UNCHANGED << decoder, aim >> /\ UNCHANGED shared

(* Under _lock: what is cached is taken, the rest is missing.              *)
Lookup(t) ==
  /\ pc[t] = "lookup" /\ wanted[t] # << >>
  /\ request[t].camera # None
  /\ out' = [out EXCEPT ![t] = [i \in DOMAIN wanted[t] |->
               LET at == Cached(Key(request[t], wanted[t][i]))
               IN  IF at = {} THEN None ELSE cache[Min(at)].frame]]
  /\ Goto(t, IF None \in Range(out'[t]) THEN "decode" ELSE "answer")
  /\ UNCHANGED << request, wanted, decoded, decoder, aim, answer >> /\ UNCHANGED shared

(* _decode: the metadata is resolved before the decoder is locked.         *)
Unresolved(t) ==
  /\ pc[t] = "decode" /\ ~HasVideo(request[t])
  /\ Goto(t, "warn")
  /\ UNCHANGED << request, wanted, out, decoded, decoder, aim, answer >> /\ UNCHANGED shared

(* The decoder is used without its lock.                                   *)
BugNoDecodeLock(t) ==
  /\ pc[t] = "decode" /\ HasVideo(request[t])
  /\ decoder' = t
  /\ aim' = [j \in DOMAIN Misses(t) |->
               << request[t].camera,
                  Place(request[t].episode, wanted[t][Misses(t)[j]]) >>]
  /\ Goto(t, "read")
  /\ UNCHANGED << request, wanted, out, decoded, answer >> /\ UNCHANGED shared

(* _decode_lock is taken and the decoder, which all threads share, is told *)
(* where to go.                                                            *)
Aim(t) ==
  /\ pc[t] = "decode" /\ decoder = Idle /\ HasVideo(request[t])
  /\ decoder' = t
  /\ aim' = [j \in DOMAIN Misses(t) |->
               << request[t].camera,
                  Place(request[t].episode, wanted[t][Misses(t)[j]]) >>]
  /\ Goto(t, "read")
  /\ UNCHANGED << request, wanted, out, decoded, answer >> /\ UNCHANGED shared

(* It returns the frames at the places it was last sent to.                *)
Read(t) ==
  /\ pc[t] = "read"
  /\ decoded' = [decoded EXCEPT ![t] = aim]
  /\ decoder' = Idle /\ aim' = << >>
  /\ Goto(t, "store")
  /\ UNCHANGED << request, wanted, out, answer >> /\ UNCHANGED shared

(* It returns too few.                                                     *)
ReadShort(t) ==
  /\ pc[t] = "read" /\ short < MaxShort /\ aim # << >>
  /\ short' = short + 1
  /\ decoded' = [decoded EXCEPT ![t] = Front(aim)]
  /\ decoder' = Idle /\ aim' = << >>
  /\ Goto(t, "store")
  /\ UNCHANGED << request, wanted, out, cache, warned, answer, asks, dataset >>

(* The exception leaves the decoder locked.                                *)
BugKeepsLock(t) ==
  /\ pc[t] = "read" /\ short < MaxShort
  /\ short' = short + 1
  /\ Goto(t, "warn")
  /\ UNCHANGED << request, wanted, out, decoded, decoder, aim, cache, warned, answer, asks, dataset >>

(* It raises: the lock is released before the exception is handled.        *)
ReadFails(t) ==
  /\ pc[t] = "read" /\ short < MaxShort
  /\ short' = short + 1
  /\ decoder' = Idle /\ aim' = << >>
  /\ Goto(t, "warn")
  /\ UNCHANGED << request, wanted, out, decoded, cache, warned, answer, asks, dataset >>

(* Under _lock the first failure is marked; it is the one that is logged.  *)
Warn(t) ==
  /\ pc[t] = "warn"
  /\ warned' = TRUE
  /\ GiveUp(t)
  /\ UNCHANGED << decoder, aim, cache, asks, short, dataset >>

(* An incomplete set of frames makes the whole request unavailable.        *)
Incomplete(t) ==
  /\ pc[t] = "store" /\ Len(decoded[t]) # Len(Misses(t))
  /\ GiveUp(t)
  /\ UNCHANGED << decoder, aim >> /\ UNCHANGED shared

(* Under _lock the decoded frames complete the answer and enter the cache, *)
(* one by one, each evicting the oldest entry when the cache is full.      *)
Store(t) ==
  /\ pc[t] = "store" /\ Len(decoded[t]) = Len(Misses(t))
  /\ cache' = FoldLeft(Insert, cache,
                 [j \in DOMAIN decoded[t] |->
                    [key |-> Key(request[t], wanted[t][Misses(t)[j]]),
                     frame |-> decoded[t][j]]])
  /\ out' = [out EXCEPT ![t] = [i \in DOMAIN @ |->
               IF @[i] # None THEN @[i]
               ELSE decoded[t][CHOOSE j \in DOMAIN Misses(t) : Misses(t)[j] = i]]]
  /\ Goto(t, "answer")
  /\ UNCHANGED << request, wanted, decoded, decoder, aim, warned, answer, asks, short, dataset >>

Answer(t) ==
  /\ pc[t] = "answer"
  /\ Return(t, out[t])
  /\ UNCHANGED << decoder, aim >> /\ UNCHANGED shared

Work(t) ==
  \/ NothingWanted(t) \/ NoCamera(t) \/ Lookup(t) \/ Unresolved(t) \/ Aim(t)
  \/ Read(t) \/ ReadShort(t) \/ ReadFails(t) \/ Warn(t) \/ Incomplete(t) \/ Store(t) \/ Answer(t)

Next == \E t \in Threads : Call(t) \/ Work(t)

Spec == Init /\ [][Next]_vars

(* A thread that is not waiting for the decoder goes on; each makes finitely *)
(* many requests, so that the decoder is not kept from it for ever.          *)
FairSpec == Spec /\ \A t \in Threads : WF_vars(Work(t))

-----------------------------------------------------------------------------
(* Properties.                                                              *)

(* Types: frames of known cameras, every entry of the cache with a key, a   *)
(* thread that holds the decoder and is the one that reads.                 *)
TypeOK ==
  /\ pc \in [Threads -> {"idle", "lookup", "decode", "read", "store", "warn", "answer"}]
  /\ \A t \in Threads : pc[t] # "idle" <=> request[t] # Idle
  /\ \A t \in Threads : request[t] \in Resolutions \cup {Idle}
  /\ \A t \in Threads : pc[t] = "read" <=> decoder = t
  /\ \A t \in Threads : Range(decoded[t]) \subseteq Range(dataset.video) \X Int
  /\ warned \in BOOLEAN

(* frames_at, __init__: however threads interleave, the cache never holds   *)
(* more than its size, no key twice, and under each key the frame of that   *)
(* camera, episode and timestamp.                                           *)
CacheSound ==
  /\ TypeOK
  /\ Len(cache) <= CacheSize
  /\ \A i, j \in DOMAIN cache : cache[i].key = cache[j].key => i = j
  /\ \A i \in DOMAIN cache :
       cache[i].frame = << cache[i].key[2], Place(cache[i].key[1], cache[i].key[3]) >>

Source == INSTANCE FrameSource WITH Requests <- Resolutions, Frames <- FramesOf, asked <- request

(* The positional contract of frames_at: all frames of the request in       *)
(* order, or none, and an exception if the caller insists; also when the    *)
(* request is larger than the cache, when other threads evict what it       *)
(* found, and when the shared decoder is used by several threads.           *)
Implements == Source!Init /\ [][Source!Next]_(Source!vars)

(* Every call returns: no thread keeps a lock or waits for one for ever,    *)
(* also when decoding fails.                                                *)
Answered == \A t \in Threads : pc[t] # "idle" ~> pc[t] = "idle"
=============================================================================
