--------------------------- MODULE EpisodeSubtasks ---------------------------
(***************************************************************************)
(* The way of one episode through the plan module to its subtasks           *)
(* (_subtask_spans): its requests are made (VisualRequest), and what is     *)
(* answered or recorded becomes the spans that are staged (SubtaskSpans,    *)
(* with the tools that fit and score them in SpanDiagnostics).              *)
(***************************************************************************)
EXTENDS SpanDiagnostics

CONSTANTS
  None, NoText, Step, Cases,             \* see VisualRequest
  Cameras, Describe, PerSheet, MaxLeaks

(* The unit of time is much shorter than the time between two samples.      *)
ASSUME StepAssumption == Step \in Nat /\ Step > 6 /\ Cases # {}

(* Timestamps increase (reader.py 236), a prompt has at least one frame, and *)
(* no camera is requested twice (the keys of a dict).                       *)
ASSUME CasesAssumption ==
  \A c \in Cases :
    /\ c.times \in Seq(Int) /\ c.times # << >>
    /\ \A i, j \in DOMAIN c.times : i < j => c.times[i] < c.times[j]
    /\ c.budget \in Nat \ {0}
    /\ c.requested \in Seq({c.requested[i] : i \in DOMAIN c.requested})
    /\ \A i, j \in DOMAIN c.requested : c.requested[i] = c.requested[j] => i = j
    /\ c.record.tasks \in Seq({c.record.tasks[i] : i \in DOMAIN c.record.tasks})
    /\ c.record.times = c.times

ASSUME PromptAssumption ==
  /\ Cameras \in Seq({Cameras[i] : i \in DOMAIN Cameras}) /\ Cameras # << >>
  /\ PerSheet \in Nat \ {0}
  /\ None \notin [from : Int, to : Int] \cup {"lerobot_annotations", "task_index"}

VARIABLES case, at, requests, sent, asked, views, times, imported, clips, leaked

Request == INSTANCE VisualRequest WITH todo <- requests

visual == << case, at, requests, sent, asked, views, times, imported, clips, leaked >>

(* Where the spans of an episode come from: all importers but "auto" insist  *)
(* on what is recorded.                                                     *)
OriginOf(c) == IF c.origin \in {"given", "generate", "auto"} THEN c.origin ELSE "import"

EpisodeInit == Request!Init /\ Init /\ origin = OriginOf(case)

See == Request!Work /\ UNCHANGED vars

Any == CHOOSE c \in Cases : TRUE

(* The answers are any, so that of the requests nothing but their end        *)
(* matters to the spans: the rest is dropped, but no clip that is left.      *)
Forget ==
  /\ at' = at /\ case' = Any
  /\ requests' = << >> /\ sent' = << >> /\ asked' = << >> /\ views' = << >> /\ times' = << >>
  /\ imported' = Request!NoImport /\ clips' = clips - leaked /\ leaked' = 0

(* A failed request fails the episode.                                       *)
Place == at = "done" /\ Next /\ Forget

EpisodeNext == See \/ Place

(* The code is sequential, and each call returns or times out.               *)
EpisodeSpec == EpisodeInit /\ [][EpisodeNext]_<< visual, vars >> /\ WF_visual(See)

-----------------------------------------------------------------------------
(* Properties.                                                              *)

(* What is sent keeps its promises about medium and budget, and is truthful  *)
(* about times, on every path to it.                                        *)
RequestTrue == Request!RequestTrue

(* No part of an episode is overlooked.                                      *)
EpisodeSeen == Request!EpisodeSeen

(* The requests of an episode end, and leave no clip behind.                 *)
EpisodeEnds == Request!EpisodeEnds
=============================================================================
