----------------------------- MODULE Publication -----------------------------
(***************************************************************************)
(* A publication: the calls to the Hub by which the command line uploads a  *)
(* dataset and moves the version tag to it (HubPublish), and the scripts    *)
(* that call the command line for one repository after the other, where a   *)
(* publication is one step (BatchRunner).  Each is followed by itself.      *)
(***************************************************************************)
EXTENDS HubPublish, BatchRunner

VARIABLE publisher

publicationVars == << vars, batchVars, publisher >>

PublicationInit ==
  /\ publisher \in {"command", "script"} /\ Init /\ BatchInit
  /\ publisher = "script" => ~repo /\ ~run.allow

Command == publisher = "command" /\ UNCHANGED << batchVars, publisher >>
Script  == publisher = "script" /\ UNCHANGED << vars, publisher >>

PublicationNext ==
  \/ Command /\ Next
  \/ Script /\ BatchNext

(* A script that was started goes on.                                       *)
PublicationSpec ==
  /\ PublicationInit /\ [][PublicationNext]_publicationVars
  /\ \A b \in Invocations : WF_batchVars(Script /\ Work(b))

(* Every invocation of a script comes to the end of its list, or is refused  *)
(* or stopped (run_generate_batch.sh, run_import_batch.sh).                 *)
BatchesEnd == publisher = "script" => BatchEnds
=============================================================================
