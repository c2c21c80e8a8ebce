----------------------------- MODULE ServerPool -----------------------------
(***************************************************************************)
(* vlm_client.py: the inference servers a run spawns, how it learns that     *)
(* they are ready, the calls it spreads over them, and how it stops them.    *)
(*                                                                           *)
(* Several runs may use the same ports, and a server of somebody else may    *)
(* be on one of them.  A run has a process per replica, a thread that reads  *)
(* its output and one that probes its port.  A server announces itself,      *)
(* before or after it listens; it listens if the port is free and exits if   *)
(* it is not; it may exit at any time.                                       *)
(***************************************************************************)
EXTENDS Integers, Sequences, FiniteSets, SequencesExt

CONSTANTS
  Replicas,      \* Replicas[r]: parallel_servers of run r
  Concurrency,   \* client_concurrency
  Batch,         \* number of messages of the batch a run sends
  MaxExits,      \* bound: servers that exit by themselves
  MaxKills,      \* bound: runs that are killed
  NoResult       \* None, as the result of a message

ASSUME PoolAssumption ==
  /\ Concurrency \in Nat \ {0}
  /\ 0 \notin DOMAIN Replicas /\ \A r \in DOMAIN Replicas : Replicas[r] \in Nat \ {0}

Runs == DOMAIN Replicas

(* The servers of run r; run 0 is somebody else with one server.            *)
Servers == {<< 0, 1 >>} \cup UNION {{r} \X (1 .. Replicas[r]) : r \in Runs}

VARIABLES
  doing,       \* what each run does next
  server,      \* state of each server
  launched,    \* number of replicas a run has launched
  registered,  \* whether its shutdown hook is registered
  ready,       \* ready_events: the replicas taken to be ready
  turn,        \* rr_counter
  call,        \* call[r][m]: the replica asked (0: none) and the text it gave
  result,      \* what generate_json returned
  stopped,     \* ports on which a server has stopped
  early,       \* servers that announced themselves and have not tried to listen
  exits, kills \* counters for the bounds

poolVars == << doing, server, launched, registered, ready, turn, call, result,
           stopped, early, exits, kills >>
world == << stopped, early, exits, kills >>
session == << turn, call, result >>
pool == << launched, registered, ready >>

Alive(s) == server[s] \in {"loading", "serving", "told"}
Own(r) == {s \in Servers : s[1] = r}

(* _server_is_up: whoever listens on the port answers.                      *)
Up(port) == \E s \in Servers : s[2] = port /\ server[s] = "serving"

(* Replicas the client uses: one base per replica, or the one port.         *)
Bases(r) == 1 .. Replicas[r]

Unasked == [to |-> 0, text |-> "none"]
Messages == 1 .. Batch

PoolInit ==
  /\ doing = [r \in Runs |-> "begin"]
  /\ \E s \in {"none", "serving"} :
       server = [x \in Servers |-> IF x[1] = 0 THEN s ELSE "none"]
  /\ launched = [r \in Runs |-> 0]
  /\ registered = [r \in Runs |-> FALSE]
  /\ ready = [r \in Runs |-> {}]
  /\ turn = [r \in Runs |-> 0]
  /\ call = [r \in Runs |-> [m \in Messages |-> Unasked]]
  /\ result = [r \in Runs |-> << >>]
  /\ stopped = {} /\ early = {} /\ exits = 0 /\ kills = 0

Goto(r, step) == doing' = [doing EXCEPT ![r] = step]

-----------------------------------------------------------------------------
(* Start-up.                                                                *)

(* With one replica a server that is up is used as it is; several replicas  *)
(* are spawned without looking.                                             *)
Begin(r) ==
  /\ doing[r] = "begin"
  /\ Goto(r, IF Replicas[r] = 1 /\ Up(1) THEN "client" ELSE "launch")
  /\ UNCHANGED << server >> /\ UNCHANGED << pool, session, world >>

Launch(r) ==
  /\ doing[r] = "launch" /\ launched[r] < Replicas[r]
  /\ launched' = [launched EXCEPT ![r] = @ + 1]
  /\ server' = [server EXCEPT ![<< r, launched[r] + 1 >>] = "loading"]
  /\ UNCHANGED << doing, registered, ready >> /\ UNCHANGED << session, world >>

(* Popen raises: nobody stops the replicas launched before.                 *)
LaunchRaises(r) ==
  /\ doing[r] = "launch" /\ launched[r] < Replicas[r]
  /\ Goto(r, "exit")
  /\ UNCHANGED server /\ UNCHANGED << pool, session, world >>

(* atexit.register, once all are launched.                                  *)
Register(r) ==
  /\ doing[r] = "launch" /\ launched[r] = Replicas[r]
  /\ registered' = [registered EXCEPT ![r] = TRUE]
  /\ Goto(r, "wait")
  /\ UNCHANGED << server, launched, ready >> /\ UNCHANGED << session, world >>

(* The thread that probes takes any server on the port for its own, while   *)
(* its own has not exited.                                                  *)
Probe(r) ==
  /\ doing[r] \in {"launch", "wait"}
  /\ \E i \in Bases(r) \ ready[r] :
       /\ Alive(<< r, i >>) /\ Up(i)
       /\ ready' = [ready EXCEPT ![r] = @ \cup {i}]
  /\ UNCHANGED << doing, server, launched, registered >> /\ UNCHANGED << session, world >>

(* One replica is enough.                                                   *)
BugAnyReady(r) == ready[r] # {}

AllReady(r) == ready[r] = Bases(r)

WaitEnds(r) ==
  /\ doing[r] = "wait" /\ AllReady(r)
  /\ Goto(r, "client")
  /\ UNCHANGED server /\ UNCHANGED << pool, session, world >>

(* An exit is noticed while a replica is missing; with a single server it   *)
(* may also be noticed before the event is.                                 *)
WaitRaises(r) ==
  /\ doing[r] = "wait" /\ (AllReady(r) => Replicas[r] = 1)
  /\ \E s \in Own(r) : server[s] = "gone"
  /\ Goto(r, "exit")
  /\ UNCHANGED server /\ UNCHANGED << pool, session, world >>

(* The deadline is ignored.                                                 *)
BugNoDeadline(r) == doing[r] = "deadline" /\ UNCHANGED poolVars

(* serve_ready_timeout_s is over.  A single server is terminated at once.   *)
Timeout(r) ==
  /\ doing[r] = "wait" /\ ~AllReady(r)
  /\ \A s \in Own(r) : Alive(s)
  /\ Goto(r, "exit")
  /\ server' = IF Replicas[r] = 1 THEN [server EXCEPT ![<< r, 1 >>] = "told"] ELSE server
  /\ stopped' = IF Replicas[r] = 1 /\ server[<< r, 1 >>] = "serving" THEN stopped \cup {1}
                ELSE stopped
  /\ UNCHANGED << early, exits, kills >> /\ UNCHANGED << pool, session >>

-----------------------------------------------------------------------------
(* The client.                                                              *)

Calling(r) == {m \in Messages : call[r][m].to # 0 /\ call[r][m].text = "none"}

(* _one_call: a worker takes the next message, to the server whose turn it  *)
(* is; the turn is taken under rr_lock.                                     *)
Send(r) ==
  /\ doing[r] = "client" /\ Cardinality(Calling(r)) < Concurrency
  /\ \E m \in Messages :
       /\ call[r][m] = Unasked /\ \A k \in 1 .. m - 1 : call[r][k] # Unasked
       /\ call' = [call EXCEPT ![r][m].to = (turn[r] % Replicas[r]) + 1]
  /\ turn' = [turn EXCEPT ![r] = @ + 1]
  /\ UNCHANGED << doing, server, result >> /\ UNCHANGED << pool, world >>

(* Replies come in any order; a text may be valid JSON or not.              *)
Reply(r) ==
  /\ doing[r] = "client"
  /\ \E m \in Calling(r), text \in {"json", "junk"} :
       /\ Up(call[r][m].to)
       /\ call' = [call EXCEPT ![r][m].text = text]
  /\ UNCHANGED << doing, server, turn, result >> /\ UNCHANGED << pool, world >>

(* The server is not there: the exception ends the run.                     *)
CallRaises(r) ==
  /\ doing[r] = "client"
  /\ \E m \in Calling(r) : ~Up(call[r][m].to)
  /\ Goto(r, "exit")
  /\ UNCHANGED server /\ UNCHANGED << pool, session, world >>

(* The messages to be asked again, and where the second attempt of one goes. *)
Retried(r) == {m \in Messages : call[r][m].text = "junk"}
RetryBase(r, m) ==
  ((turn[r] + Cardinality({k \in Retried(r) : k < m})) % Replicas[r]) + 1

AllBack(r) == \A m \in Messages : call[r][m].text # "none"

(* generate_json: a text that is not JSON is asked for again, once; if the   *)
(* second is not JSON either the result of that message is NoResult.       *)
Collect(r) ==
  /\ doing[r] = "client" /\ AllBack(r)
  /\ \E again \in [Messages -> BOOLEAN] :
       /\ \A m \in Retried(r) : Up(RetryBase(r, m))
       /\ result' = [result EXCEPT ![r] = [m \in Messages |->
                       IF m \in Retried(r) /\ ~again[m] THEN NoResult ELSE m]]
  /\ turn' = [turn EXCEPT ![r] = @ + Cardinality(Retried(r))]
  /\ Goto(r, "exit")
  /\ UNCHANGED << server, call >> /\ UNCHANGED << pool, world >>

RetryRaises(r) ==
  /\ doing[r] = "client" /\ AllBack(r)
  /\ \E m \in Retried(r) : ~Up(RetryBase(r, m))
  /\ Goto(r, "exit")
  /\ UNCHANGED server /\ UNCHANGED << pool, session, world >>

-----------------------------------------------------------------------------
(* The end.                                                                 *)

(* The servers are interrupted and not waited for.                          *)
BugNoWait(r) ==
  /\ doing[r] = "exit" /\ Goto(r, "over")
  /\ server' = [s \in Servers |-> IF s \in Own(r) /\ Alive(s) THEN "told" ELSE server[s]]
  /\ UNCHANGED world /\ UNCHANGED << pool, session >>

(* _shutdown: all of its servers are interrupted first.                     *)
Shutdown(r) ==
  /\ doing[r] = "exit"
  /\ Goto(r, IF registered[r] THEN "reap" ELSE "over")
  /\ server' = [s \in Servers |->
       IF registered[r] /\ s \in Own(r) /\ Alive(s) THEN "told" ELSE server[s]]
  /\ stopped' = stopped \cup {s[2] : s \in {x \in Own(r) :
                                registered[r] /\ server[x] = "serving"}}
  /\ UNCHANGED << early, exits, kills >> /\ UNCHANGED << pool, session >>

(* Whoever does not stop within 15 seconds is killed.                       *)
Kill(r) ==
  /\ doing[r] = "reap"
  /\ \E s \in Own(r) : server[s] = "told" /\ server' = [server EXCEPT ![s] = "gone"]
  /\ UNCHANGED doing /\ UNCHANGED << pool, session, world >>

Reaped(r) ==
  /\ doing[r] = "reap" /\ \A s \in Own(r) : ~Alive(s)
  /\ Goto(r, "over")
  /\ UNCHANGED server /\ UNCHANGED << pool, session, world >>

(* The run is killed: no hook runs, and its servers stay.                   *)
RunKilled(r) ==
  /\ doing[r] \notin {"over", "killed"} /\ kills < MaxKills
  /\ kills' = kills + 1
  /\ Goto(r, "killed")
  /\ UNCHANGED << server, stopped, early, exits >> /\ UNCHANGED << pool, session >>

-----------------------------------------------------------------------------
(* The servers, which are programs of others.                               *)

Heard(s) == s[1] # 0 /\ doing[s[1]] \in {"launch", "wait"}

(* A banner: the thread that reads the output takes it as ready.  Of the     *)
(* four that it knows three come before the port is bound ("Starting vLLM    *)
(* API server", "Available routes are", "Application startup complete").     *)
Banner(s) ==
  /\ server[s] \in {"loading", "serving"} /\ Heard(s) /\ s[2] \notin ready[s[1]]
  /\ ready' = [ready EXCEPT ![s[1]] = @ \cup {s[2]}]
  /\ early' = IF server[s] = "loading" THEN early \cup {s} ELSE early
  /\ UNCHANGED << doing, server, launched, registered, stopped, exits, kills >>
  /\ UNCHANGED session

Listen(s) ==
  /\ server[s] = "loading"
  /\ server' = [server EXCEPT ![s] = IF Up(s[2]) THEN "gone" ELSE "serving"]
  /\ early' = early \ {s}
  /\ UNCHANGED << doing, stopped, exits, kills >> /\ UNCHANGED << pool, session >>

Exits(s) ==
  /\ Alive(s) /\ (server[s] = "told" \/ exits < MaxExits)
  /\ exits' = IF server[s] = "told" THEN exits ELSE exits + 1
  /\ server' = [server EXCEPT ![s] = "gone"]
  /\ stopped' = IF server[s] = "serving" THEN stopped \cup {s[2]} ELSE stopped
  /\ UNCHANGED << doing, early, kills >> /\ UNCHANGED << pool, session >>

Work(r) ==
  \/ Begin(r) \/ Launch(r) \/ LaunchRaises(r) \/ Register(r) \/ WaitEnds(r)
  \/ WaitRaises(r) \/ Timeout(r) \/ Send(r) \/ Reply(r) \/ CallRaises(r)
  \/ Collect(r) \/ RetryRaises(r) \/ Shutdown(r) \/ Kill(r) \/ Reaped(r)

PoolNext ==
  \/ \E r \in Runs : Work(r) \/ Probe(r) \/ RunKilled(r)
  \/ \E s \in Servers : Banner(s) \/ Listen(s) \/ Exits(s)

PoolSpec == PoolInit /\ [][PoolNext]_poolVars

(* The main thread of a run goes on: its loops sleep for two seconds, its    *)
(* waits have a limit, and a call ends in a reply or an exception.           *)
PoolFairSpec == PoolSpec /\ \A r \in Runs : WF_poolVars(Work(r))

-----------------------------------------------------------------------------
(* Properties.                                                              *)

(* Types; only replicas that were launched are ready, and only a registered  *)
(* hook is run.                                                             *)
PoolTypeOK ==
  /\ doing \in [Runs -> {"begin", "launch", "wait", "client", "exit", "reap", "over", "killed"}]
  /\ server \in [Servers -> {"none", "loading", "serving", "told", "gone"}]
  /\ \A r \in Runs : ready[r] \subseteq 1 .. launched[r]
  /\ \A r \in Runs : doing[r] = "reap" => registered[r]
  /\ \A r \in Runs : launched[r] > 0 /\ doing[r] \in {"wait", "client"} => registered[r]

(* _shutdown, "The spawned process is torn down on exit": a run that ended   *)
(* by itself, with or without an error, leaves no server behind, unless it   *)
(* failed while it was launching several.                                   *)
TornDown ==
  \A r \in Runs : doing[r] = "over" =>
    \/ \A s \in Own(r) : ~Alive(s)
    \/ launched[r] \in 1 .. Replicas[r] - 1

(* generate_json: the results are those of the messages, in their order,     *)
(* however the calls of the pool overtake each other; NoResult for a        *)
(* message whose two texts were no JSON.                                    *)
ResultsMatch ==
  \A r \in Runs : result[r] # << >> =>
    \A m \in Messages : result[r][m] \in {m, NoResult}

(* Somebody accepts connections on the port, or did and stopped, or run r's  *)
(* own server has announced itself and not come to listen.                   *)
Vouched(r, i) == Up(i) \/ i \in stopped \/ << r, i >> \in early

(* A client starts, and calls, only where there is somebody to answer: on    *)
(* each of its ports somebody accepts, or has stopped, or its own server     *)
(* said that it was ready before it was.  A call fails for no other reason.  *)
ClientsServed == \A r \in Runs : doing[r] = "client" => \A i \in Bases(r) : Vouched(r, i)

(* _spawn_inference_server, "wait until it accepts /v1/models": when the     *)
(* wait for a single server ends, somebody accepts connections on its port,  *)
(* or has done so and stopped.  The code does not keep this: it also takes   *)
(* banners for an answer that are printed before the port is bound.          *)
WaitsUntilAccepts ==
  [][\A r \in Runs : Replicas[r] = 1 /\ doing[r] = "wait" /\ doing'[r] = "client" =>
       Up(1) \/ 1 \in stopped]_poolVars

(* A run stops no server but its own: not one it reused, not one that holds  *)
(* its port.                                                                *)
StopsOnlyOwn ==
  \A s \in Servers : server'[s] = "told" /\ server[s] # "told" =>
    s[1] # 0 /\ doing[s[1]] # doing'[s[1]]

(* serve_ready_timeout_s: the start of the servers ends, with clients or     *)
(* with an error, whatever the servers do.                                  *)
StartUpEnds ==
  \A r \in Runs : doing[r] \in {"launch", "wait"} ~> doing[r] \in {"client", "exit", "killed"}

(* A run that is not killed ends, and with it its servers.                   *)
RunEnds == \A r \in Runs : <>(doing[r] \in {"over", "killed"})

(* A run leaves nothing behind, and gave each message its own answer.        *)
RunsSound == PoolTypeOK /\ TornDown /\ ResultsMatch

(* Runs and foreign servers on one port: a client has somebody to call, and  *)
(* a stop hits the run's own servers only, after and in every step.          *)
PortsShared == [][ClientsServed' /\ StopsOnlyOwn]_poolVars

(* The start ends whatever the servers do, and so does the run.              *)
RunsEnd == StartUpEnds /\ RunEnds
=============================================================================
