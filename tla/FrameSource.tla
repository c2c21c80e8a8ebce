---------------------------- MODULE FrameSource ----------------------------
(***************************************************************************)
(* What the frame provider of frames.py promises each of the threads that   *)
(* share it: a request is answered with the requested frames, all of them   *)
(* and in order, or with none; the caller that insists is told with an      *)
(* exception; and every request is answered.                                *)
(***************************************************************************)
CONSTANTS
  Threads,    \* the threads of the pool
  Requests,   \* what they may ask
  Frames(_),  \* the frames a request is for, in order
  Insists(_), \* fail_on_error
  Idle, Raised

VARIABLES
  asked,      \* the request a thread waits for, or Idle
  answer      \* what its last request returned

vars == << asked, answer >>

Init ==
  /\ asked = [t \in Threads |-> Idle]
  /\ answer = [t \in Threads |-> << >>]

Ask(t) ==
  /\ asked[t] = Idle
  /\ \E r \in Requests : asked' = [asked EXCEPT ![t] = r]
  /\ UNCHANGED answer

Answer(t) ==
  /\ asked[t] # Idle
  /\ asked' = [asked EXCEPT ![t] = Idle]
  /\ \/ answer' = [answer EXCEPT ![t] = Frames(asked[t])]
     \/ answer' = [answer EXCEPT ![t] = IF Insists(asked[t]) THEN Raised
                                        ELSE << >>]

Next == \E t \in Threads : Ask(t) \/ Answer(t)

Spec == Init /\ [][Next]_vars /\ \A t \in Threads : WF_vars(Answer(t))
=============================================================================
