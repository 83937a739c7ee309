---------------------------- MODULE LogicalTurn ----------------------------
(***************************************************************************)
(* What a logical turn promises about the journal it leaves on disk,       *)
(* whatever happens on the wire (docs/cli.md, "Turn durability"): while    *)
(* the turn is live its journal is on disk from the first attempt on, and  *)
(* how the turn ends decides whether there is something to resume.         *)
(*                                                                         *)
(* "stale" is a journal an earlier, superseded turn of the thread left.    *)
(***************************************************************************)
VARIABLES
  phase,  \* "live" or how the turn ended
  disk    \* what the thread's sidecar file holds

vars == <<phase, disk>>

Endings == {"completed", "paused", "dropped", "interrupted", "torn"}
Disks   == {"none", "stale", "running", "unfinished"}

TypeOK == phase \in Endings \cup {"live"} /\ disk \in Disks

Init == phase = "live" /\ disk \in Disks

\* The running turn writes its own journal.
Save == phase = "live" /\ disk' = "running" /\ UNCHANGED phase

\* A final frame was seen and nothing is left to deliver.
Complete == phase = "live" /\ disk = "running"
            /\ phase' = "completed" /\ disk' = "none"

\* Stopped or cancelled, and can be resumed by hand.
Pause == phase = "live" /\ disk = "running"
         /\ phase' = "paused" /\ disk' = "unfinished"

\* Failed in a way no resume can help.
Drop == phase = "live" /\ disk = "running"
        /\ phase' = "dropped" /\ disk' = "none"

\* Ctrl-C at any moment, even before the first attempt.
Interrupt == phase = "live" /\ phase' = "interrupted" /\ disk' = "unfinished"

\* Ctrl-C again while the node was already cleaning up: the journal of the
\* last attempt stays as it is.
Tear == phase = "live" /\ disk = "running"
        /\ phase' = "torn" /\ UNCHANGED disk

Next == Save \/ Complete \/ Pause \/ Drop \/ Interrupt \/ Tear

Spec == Init /\ [][Next]_vars

\* A turn that did not finish, and that was not refused for good, has its own
\* journal on disk; one that finished or was refused has none.
EndingMatchesDisk ==
  /\ phase \in {"completed", "dropped"} => disk = "none"
  /\ phase \in {"paused", "interrupted"} => disk = "unfinished"
  /\ phase = "torn" => disk = "running"

=============================================================================
