---------------------------- MODULE VisualRequest ----------------------------
(***************************************************************************)
(* How the plan module gets the subtasks of one episode                     *)
(* (modules/plan_subtasks_memory.py): from given labels, aligned in one     *)
(* visual request; from what the dataset records; or from a series of       *)
(* requests, one or two per window.  A request is a native video clip or    *)
(* contact sheets, decoding, encoding and the model may each fail, and the  *)
(* policy subtask_video_fallback says what may replace a clip.              *)
(***************************************************************************)
EXTENDS FrameSelection, SubtaskImport, FiniteSets

CONSTANTS
  Cases,    \* [origin, times, budget, format, policy, motion, requested, record]
  Cameras,  \* the cameras the provider has, the default one first
  Describe, \* subtask_describe_first
  PerSheet, \* the moments that one contact sheet shows
  MaxLeaks  \* bound: clips that cannot be removed

VARIABLES
  case,      \* this episode and its configuration
  at,        \* where the code is
  todo,      \* generation: the requests to come, of the field and the window
  sent,      \* the last two requests that were sent
  asked,     \* the windows whose subtasks were asked for, and the number of frames
  views,     \* alignment: the cameras that were decoded
  times,     \* alignment: the moments that are shown
  imported,  \* the spans that were imported, and from where
  clips,     \* temporary clips on disk
  leaked     \* clips that could not be removed

vars == << case, at, todo, sent, asked, views, times, imported, clips, leaked >>
aligning == << views, times >>
history == << sent, asked >>
files == << clips, leaked >>

NoImport == [source |-> None, spans |-> <<>>]

(* The task is derived from the video before anything else                  *)
(* (derive_task_from_video "always").                                       *)
Init ==
  /\ case \in Cases
  /\ at = "visual" /\ todo = << [field |-> "task", window |-> None] >>
  /\ sent = <<>> /\ asked = <<>> /\ views = <<>> /\ times = <<>>
  /\ imported = NoImport /\ clips = 0 /\ leaked = 0

Video == case.format = "video"
First == Head(case.times)

-----------------------------------------------------------------------------
(* _subtask_spans: given labels come before an import, and an import before  *)
(* generation.                                                              *)

(* The list of the file may have none for this episode.                      *)
Given ==
  /\ at = "source" /\ case.origin = "given"
  /\ at' \in {"cameras", "failed"}
  /\ UNCHANGED << case, todo, history, aligning, imported, files >>

(* Requests for a window, or for the whole episode.                          *)
Asked(window) ==
  (IF Describe THEN << [field |-> "description", window |-> window] >> ELSE <<>>)
  \o << [field |-> "subtasks", window |-> window] >>

(* An episode that is too long for one prompt is cut into windows.          *)
Requests ==
  LET windows == IF Wanted(Whole(case.times)) > case.budget
                 THEN Windows(case.times, case.budget) ELSE << None >>
  IN  FlattenSeq([k \in DOMAIN windows |-> Asked(windows[k])])

Generate ==
  /\ at = "source" /\ case.origin = "generate"
  /\ at' = "visual" /\ todo' = Requests
  /\ UNCHANGED << case, history, aligning, imported, files >>

(* Only "auto" goes on to generation when nothing is recorded.               *)
NothingFound == IF case.origin = "auto" THEN "visual" ELSE "done"

Import ==
  /\ at = "source" /\ case.origin \in {"auto"} \cup Range(Sources)
  /\ LET k == Found(case.origin, case.record)
         source == Tried(case.origin)[k]
     IN  IF k > 0
         THEN /\ imported' = [source |-> source, spans |-> From(source, case.record)]
              /\ at' = "done" /\ todo' = todo
         ELSE /\ imported' = imported /\ at' = NothingFound
              /\ todo' = IF at' = "visual" THEN Requests ELSE todo
  /\ UNCHANGED << case, history, aligning, files >>

-----------------------------------------------------------------------------
(* The temporary clip.                                                      *)

(* Removing it may fail, which is only logged.                               *)
Unlink ==
  \/ clips' = clips - 1 /\ leaked' = leaked
  \/ leaked < MaxLeaks /\ clips' = clips /\ leaked' = leaked + 1

(* The clip is removed when the request is through, but not if it failed.    *)
BugNoFinally == IF at' = "failed" THEN UNCHANGED files ELSE Unlink

Finally == Unlink

(* The file exists before the encoder writes it, and is removed if there is  *)
(* an error or it stays empty.                                              *)
EncodeFails ==
  \/ UNCHANGED files
  \/ leaked < MaxLeaks /\ clips' = clips + 1 /\ leaked' = leaked + 1

(* Without a clip: contact sheets, or an error.                              *)
WithoutClip(sheets) == at' = IF case.policy = "error" THEN "failed" ELSE sheets

Send(request) ==
  /\ sent' = Append(IF Len(sent) = 2 THEN Tail(sent) ELSE sent, request)
  /\ asked' = IF request.field = "subtasks"
              THEN Append(asked, [window |-> request.window, frames |-> Len(request.shown)])
              ELSE asked

(* A clip plays its frames at one rate.                                      *)
ClipTimes(shown) ==
  IF Len(shown) = 1 THEN << 0 >> ELSE Grid(0, Last(shown) - Head(shown), Len(shown))

(* A tile stacks the views of one moment and wears its time.                 *)
Tile(shown, labels, i) == [moment |-> shown[i], badge |-> labels[i]]

(* to_contact_sheet_blocks: tiles fill one sheet after the other.            *)
Sheets(shown, labels) ==
  [k \in 1 .. (Len(shown) + PerSheet - 1) \div PerSheet |->
     [i \in 1 .. Min({PerSheet, Len(shown) - (k - 1) * PerSheet}) |->
        Tile(shown, labels, (k - 1) * PerSheet + i)]]

Moments(sheets) == LET tiles == FlattenSeq(sheets) IN [i \in DOMAIN tiles |-> tiles[i].moment]
Badges(sheets) == LET tiles == FlattenSeq(sheets) IN [i \in DOMAIN tiles |-> tiles[i].badge]

-----------------------------------------------------------------------------
(* _generation_visual_field.                                                *)

Now == Head(todo)
ShownIn(window) == Samples(case.times, window, case.budget, case.format)

(* What the model reads off a clip is taken as it is.                        *)
BugOrigin(relative) == IF Now.window # None THEN Now.window.from ELSE 0

(* The caller of a windowed request adds the start of the window; the one of *)
(* a whole episode its start, when it is told that times are relative.       *)
Origin(relative) ==
  IF Now.window # None THEN Now.window.from ELSE IF relative THEN First ELSE 0

GenerationRequest(kind, shown, labels, relative) ==
  [field |-> Now.field, window |-> Now.window, kind |-> kind, views |-> 1,
   shown |-> shown, labels |-> labels, origin |-> Origin(relative)]

(* The model answers, or the call fails.                                     *)
Answered ==
  \/ /\ todo' = Tail(todo)
     /\ at' = IF Now.field = "task" THEN "source"
              ELSE IF Tail(todo) = <<>> THEN "done" ELSE "visual"
  \/ todo' = todo /\ at' = "failed"

GenerationKept == << case, aligning, imported >>

(* _encode_generation_clip.                                                 *)
EncodeClip ==
  /\ at = "visual" /\ Video
  /\ \/ Len(ShownIn(Now.window)) < 2 /\ WithoutClip("sheets") /\ UNCHANGED files
     \/ Len(ShownIn(Now.window)) >= 2 /\ EncodeFails /\ WithoutClip("sheets")
     \/ Len(ShownIn(Now.window)) >= 2 /\ at' = "clip" /\ clips' = clips + 1 /\ leaked' = leaked
  /\ UNCHANGED << todo, history, GenerationKept >>

(* The frames cannot be decoded, or not all of them.                         *)
DecodeFails ==
  /\ at \in {"visual", "sheets"}
  /\ at' = "failed"
  /\ UNCHANGED << todo, history, files, GenerationKept >>

SendClip ==
  /\ at = "clip"
  /\ LET shown == ShownIn(Now.window)
     IN  Send(GenerationRequest("video", shown, ClipTimes(shown), TRUE))
  /\ Answered /\ Finally
  /\ UNCHANGED GenerationKept

(* No usable video_url block.                                               *)
BadBlock ==
  /\ at = "clip" /\ WithoutClip("sheets") /\ Finally
  /\ UNCHANGED << todo, history, GenerationKept >>

ToSheets ==
  /\ at = "visual" /\ ~Video
  /\ at' = "sheets"
  /\ UNCHANGED << todo, history, files, GenerationKept >>

(* The fallback of a clip keeps the clip's timeline.                         *)
FallbackWindow == IF Video /\ Now.window = None THEN Whole(case.times) ELSE Now.window

SendSheets ==
  /\ at = "sheets"
  /\ LET window == FallbackWindow
         shown == ShownIn(window)
         labels == IF window = None THEN shown
                   ELSE [i \in DOMAIN shown |-> shown[i] - window.from]
         sheets == Sheets(shown, labels)
     IN  Send(GenerationRequest("sheet", Moments(sheets), Badges(sheets), Video))
  /\ Answered
  /\ UNCHANGED << files, GenerationKept >>

-----------------------------------------------------------------------------
(* _align_given_subtasks.                                                   *)

(* A clip stacks its views; contact sheets pay for each of them.             *)
PerView(count) == Max({1, case.budget \div Max({1, count})})

(* _align_sample_timestamps.                                                *)
Timeline(count) ==
  Timelines(case.times, Min({Wanted(Whole(case.times)), PerView(count)}), case.motion)

Charged(cameras) == IF Video THEN 1 ELSE Len(cameras)

AlignKept == << case, todo, imported >>

Known == Only(case.requested, Range(Cameras))

(* _align_camera_keys, and the moments.                                     *)
ChooseCameras ==
  /\ at = "cameras"
  /\ LET most == Max({1, case.budget})
         selected == IF Len(Known) > most THEN SubSeq(Known, 1, most) ELSE Known
     IN  views' = IF selected = <<>> THEN << Head(Cameras) >> ELSE selected
  /\ times' \in Timeline(Charged(views'))
  /\ at' = "decode"
  /\ UNCHANGED << history, files, AlignKept >>

(* A camera that does not give every frame is skipped.                       *)
DecodeViews ==
  /\ at = "decode"
  /\ \E good \in SUBSET Range(views) :
       /\ views' = Only(views, good)
       /\ at' = CASE good = {} -> "failed"
                  [] good = Range(views) -> "encode"
                  [] OTHER -> "again"
  /\ UNCHANGED << times, history, files, AlignKept >>

(* The views that are left may show more moments each, if they decode again. *)
DecodeAgain ==
  /\ at = "again" /\ at' = "encode"
  /\ times' \in {times} \cup Timeline(Charged(views))
  /\ UNCHANGED << views, history, files, AlignKept >>

(* _align_encode_clip: a clip needs the uniform grid.                        *)
EncodeAlignClip ==
  /\ at = "encode"
  /\ \/ ~Video /\ at' = "alignsheets" /\ UNCHANGED files
     \/ Video /\ case.motion /\ WithoutClip("rebudget") /\ UNCHANGED files
     \/ Video /\ ~case.motion /\ EncodeFails /\ WithoutClip("rebudget")
     \/ Video /\ ~case.motion /\ at' = "alignclip" /\ clips' = clips + 1 /\ leaked' = leaked
  /\ UNCHANGED << aligning, history, AlignKept >>

AlignRequest(kind, shown, labels, origin) ==
  [field |-> "align", window |-> None, kind |-> kind, views |-> Len(views),
   shown |-> shown, labels |-> labels, origin |-> origin]

SendAlignClip ==
  /\ at = "alignclip"
  /\ Send(AlignRequest("video", times, ClipTimes(times), Head(times)))
  /\ at' \in {"done", "failed"} /\ Finally
  /\ UNCHANGED << aligning, AlignKept >>

(* The clip stays until the contact sheets are through.                      *)
BadAlignBlock ==
  /\ at = "alignclip" /\ WithoutClip("rebudget")
  /\ IF at' = "failed" THEN Finally ELSE UNCHANGED files
  /\ UNCHANGED << aligning, history, AlignKept >>

(* _rebudget_align_contact_sheet: n of the moments, the first and the last    *)
(* with them.                                                               *)
Thinned(n) ==
  IF Len(views) <= 1 \/ Len(times) <= n THEN times
  ELSE IF n = 1 THEN << Head(times) >>
  ELSE [i \in 1 .. n |-> times[Round((i - 1) * (Len(times) - 1), n - 1) + 1]]

Rebudget ==
  /\ at = "rebudget" /\ at' = "alignsheets"
  /\ times' = Thinned(Max({1, case.budget \div Len(views)}))
  /\ UNCHANGED << views, history, files, AlignKept >>

(* Without a single sheet the episode gets no spans and nothing is sent.     *)
SendAlignSheets ==
  /\ at = "alignsheets"
  /\ \/ LET sheets == Sheets(times, times)
        IN  Send(AlignRequest("sheet", Moments(sheets), Badges(sheets), 0))
           /\ at' \in {"done", "failed"}
     \/ UNCHANGED history /\ at' = "done"
  /\ IF clips > leaked THEN Finally ELSE UNCHANGED files
  /\ UNCHANGED << aligning, AlignKept >>

Work ==
  \/ Given \/ Generate \/ Import
  \/ EncodeClip \/ DecodeFails \/ SendClip \/ BadBlock \/ ToSheets \/ SendSheets
  \/ ChooseCameras \/ DecodeViews \/ DecodeAgain \/ EncodeAlignClip \/ SendAlignClip
  \/ BadAlignBlock \/ Rebudget \/ SendAlignSheets

Next == Work

Spec == Init /\ [][Next]_vars

(* The code is sequential, and each call returns or times out.               *)
FairSpec == Spec /\ WF_vars(Work)

-----------------------------------------------------------------------------
(* Properties.                                                              *)

Requested == Range(sent)
Increasing(ts) == \A i \in 1 .. Len(ts) - 1 : ts[i] < ts[i + 1]
Even(ts) == \A i \in 2 .. Len(ts) - 1 : ts[i + 1] - ts[i] = ts[2] - ts[1]

(* Types; views are known cameras, each once, and at most one clip is not    *)
(* accounted for.                                                           *)
TypeOK ==
  /\ clips - leaked \in {0, 1} /\ leaked \in Nat
  /\ at \in {"source", "visual", "clip", "sheets", "cameras", "decode", "again", "encode",
             "alignclip", "rebudget", "alignsheets", "done", "failed"}
  /\ Range(views) \subseteq Range(Cameras) /\ IsInjective(views)
  /\ at \in {"decode", "encode", "alignsheets"} => views # <<>> /\ times # <<>>

(* "native video must never be silently substituted" under the policy error: *)
(* no request carries contact sheets then, and none is sent without frames.  *)
NeverSubstituted ==
  \A r \in Requested :
    /\ Video /\ case.policy = "error" => r.kind = "video"
    /\ ~Video => r.kind = "sheet"

VideoContract ==
  /\ NeverSubstituted
  /\ \A r \in Requested : r.shown # <<>> /\ Len(r.labels) = Len(r.shown) /\ r.views >= 1

(* max_frames_per_prompt holds for every request: a sheet costs a frame per  *)
(* view, a clip one for all its views.                                      *)
BudgetKept ==
  \A r \in Requested :
    (IF r.kind = "sheet" THEN r.views * Len(r.shown) ELSE Len(r.shown)) <= case.budget

(* What is sent keeps the two promises made for every request: the kind of   *)
(* medium the policy allows and the frame budget, after each fallback and    *)
(* with each list of cameras.                                               *)
RequestSound == TypeOK /\ VideoContract /\ BudgetKept

(* A time that the model reads off a frame is recorded as the time of that   *)
(* frame: for each window, after each fallback, and when the episode does    *)
(* not start at zero.  An alignment clip needs evenly spaced frames for it.  *)
RightPlace ==
  \A r \in {q \in Requested : q.field \in {"subtasks", "align"}} :
    (r.field = "align" /\ r.kind = "video" => Even(r.shown)) =>
      \A i \in DOMAIN r.shown : r.labels[i] + r.origin = r.shown[i]

(* "describe and segment cannot disagree about the time origin if only one   *)
(* encode succeeds".                                                        *)
SameTimeline ==
  \A q, r \in Requested :
    q.window = r.window /\ {q.field, r.field} = {"description", "subtasks"} =>
      q.shown[1] - q.labels[1] = r.shown[1] - r.labels[1]

(* What the model is told about times is true, within a request and between  *)
(* the two requests of a window (_generation_visual_field).                  *)
TimesTrue == RightPlace /\ SameTimeline

(* A request keeps its promises about medium and budget, and is truthful     *)
(* about times, on every path to it.                                        *)
RequestTrue == RequestSound /\ TimesTrue

(* An episode that is generated is seen whole: its windows follow each other *)
(* without a gap from its first to its last frame, each at the full rate     *)
(* unless the prompt takes only one frame.                                  *)
WindowsCover ==
  at = "done" /\ asked # <<>> =>
    IF asked[1].window = None
    THEN Len(asked) = 1 /\ asked[1].frames >= Min({Wanted(Whole(case.times)), Len(case.times)})
    ELSE /\ asked[1].window.from = First /\ Last(asked).window.to = Last(case.times)
         /\ \A k \in 1 .. Len(asked) - 1 : asked[k].window.to = asked[k + 1].window.from
         /\ \A k \in DOMAIN asked : case.budget = 1 \/ asked[k].frames = Wanted(asked[k].window)

(* An alignment is one request that shows the episode from end to end: its   *)
(* moments are in order, each once, however they were chosen or thinned.     *)
SeesTheEnds ==
  \A r \in Requested :
    /\ Increasing(r.shown)
    /\ r.field = "align" /\ Len(r.shown) > 1 => Head(r.shown) = First /\ Last(r.shown) = Last(case.times)

(* Every episode is seen whole, in one request or in windows.                *)
SeenWhole == WindowsCover /\ SeesTheEnds

(* A recorded list of subtasks is taken whole or not at all, and a frame     *)
(* whose task was recorded is in a span of that task.                        *)
ImportedWhole ==
  LET r == case.record
  IN  /\ imported.source = "lerobot_annotations" /\ r.subtasks # <<>> =>
           Len(imported.spans) = Len(r.subtasks)
      /\ imported.source = "task_index" => \A i \in DOMAIN r.tasks : r.tasks[i] # NoText =>
           \E k \in DOMAIN imported.spans :
             /\ imported.spans[k].text = r.tasks[i]
             /\ imported.spans[k].start <= r.times[i]
             /\ r.times[i] < imported.spans[k].end \/ i = Len(r.tasks)

(* No part of an episode is overlooked, whether its subtasks are generated,  *)
(* aligned or imported.                                                     *)
EpisodeSeen == SeenWhole /\ ImportedWhole

(* The episode gets its subtasks or an error, and by then every temporary    *)
(* clip is removed, whatever became of its request, unless the file system   *)
(* refused.                                                                 *)
EpisodeEnds == <>(at \in {"done", "failed"} /\ clips = leaked)
=============================================================================
