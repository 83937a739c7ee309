------------------------------ MODULE MCTools ------------------------------
(***************************************************************************)
(* What runs on the user's machine, for TLC: a batch of tool requests      *)
(* (ToolBatch) and the shells that outlive their call (BackgroundShell).   *)
(* A behaviour moves one of the two.                                       *)
(***************************************************************************)
EXTENDS ToolBatch, BackgroundShell

VARIABLE part

\* A batch of reads that is over.
BatchOver ==
  /\ plans = [i \in Index |-> [kind |-> "read", path |-> NoPath]]
  /\ task = [i \in Index |-> "done"] /\ queue = {} /\ yielded = Index
  /\ batch = "over" /\ cancelled = FALSE

MCInit ==
  /\ part \in {"batch", "shell"}
  /\ IF part = "batch" THEN BatchInit ELSE BatchOver
  /\ ShellInit

MCNext ==
  /\ UNCHANGED part
  /\ \/ part = "batch" /\ BatchNext /\ UNCHANGED shellVars
     \/ part = "shell" /\ ShellNext /\ UNCHANGED batchVars

MCSpec ==
  /\ MCInit /\ [][MCNext]_<<part, batchVars, shellVars>>
  /\ BatchFairness /\ ProgramFairness /\ ShellFairness

=============================================================================
