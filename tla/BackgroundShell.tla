--------------------------- MODULE BackgroundShell ---------------------------
(***************************************************************************)
(* Shell commands that outlive their foreground window                     *)
(* (copper_background.py: drain, kill_process_tree, run_shell,             *)
(* BackgroundProcessManager), and the turns that wait for them or kill     *)
(* them (copper_graph.py: wait_for_background, hosted_node's finally;      *)
(* deepagents_tools.py: cancel_all).                                       *)
(*                                                                         *)
(* TurnRun sees a shell as running or ended.  Here a shell is a process, a *)
(* pipe that its children may keep open, a reader that stops at the output *)
(* limit, the call that started it and the manager's record of it.         *)
(***************************************************************************)
EXTENDS Integers, FiniteSets

CONSTANTS
  Commands,  \* shell commands, each run at most once
  MayFlood,  \* a command may write more than the output limit
  MayDetach, \* a command may exit and leave a child that holds its pipe
  MayQueue,  \* a command may wait in its agent's lane for the one before it
  MaxTurns   \* bound: turns of the session

ASSUME ShellAssumption ==
  MayFlood \in BOOLEAN /\ MayDetach \in BOOLEAN /\ MayQueue \in BOOLEAN /\ MaxTurns \in Nat \ {0}

VARIABLES
  proc,      \* the shell process
  pipe,      \* its stdout: open, held by a child only, or closed
  reader,    \* the drain task
  call,      \* run_shell of this command
  after,     \* the command before a queued one in its lane
  exceeded,  \* buffer.exceeded
  killOnTimeout, \* the request's kill_on_timeout
  tracked,   \* manager._tasks
  status,    \* BackgroundTask.status
  done,      \* BackgroundTask.done is set
  awaited,   \* the tasks wait_all waits for
  killing,   \* the task whose end kill_all awaits
  toKill,    \* the tasks of its snapshot that come after it
  orphans,   \* commands whose stream is gone: nobody waits for their lane
  userCancelled, \* the user has cancelled this turn
  turn,      \* what the turn does
  turnNo,    \* which turn of the session this is
  delivered  \* history: the commands whose output went into a continuation

os   == <<proc, pipe, reader, exceeded>>
mgr  == <<tracked, status, done>>
turns == <<awaited, killing, toKill, orphans, userCancelled, turn, turnNo, delivered>>
shellVars == <<os, call, killOnTimeout, mgr, turns, after>>

\* The calls the broker knows, and those that still wait in their lane.
InCall == {c \in Commands : call[c] \in {"foreground", "stopping", "draining"}}

Queued == {c \in Commands : call[c] = "queued"}

ShellInit ==
  /\ proc = [c \in Commands |-> "none"] /\ pipe = [c \in Commands |-> "closed"]
  /\ reader = [c \in Commands |-> "off"] /\ call = [c \in Commands |-> "none"]
  /\ exceeded = [c \in Commands |-> FALSE] /\ killOnTimeout = [c \in Commands |-> FALSE]
  /\ tracked = {} /\ status = [c \in Commands |-> "none"] /\ done = [c \in Commands |-> FALSE]
  /\ awaited = {} /\ killing = {} /\ toKill = {} /\ orphans = {}
  /\ turn = "idle" /\ turnNo = 0 /\ userCancelled = FALSE /\ after = [c \in Commands |-> c] /\ delivered = {}

----------------------------------------------------------------------------
(* The operating system: processes, pipes, and the reader *)

\* The buffer is full: drain returns without reading on.
Flood(c) ==
  /\ MayFlood /\ reader[c] = "reading"
  /\ exceeded' = [exceeded EXCEPT ![c] = TRUE]
  /\ reader' = [reader EXCEPT ![c] = "full"]
  /\ UNCHANGED <<proc, pipe, call, killOnTimeout, mgr, turns, after>>

\* The pipe is full and nobody reads it.
Block(c) ==
  /\ proc[c] = "alive" /\ reader[c] \notin {"reading", "off"}
  /\ proc' = [proc EXCEPT ![c] = "blocked"]
  /\ UNCHANGED <<pipe, reader, exceeded, call, killOnTimeout, mgr, turns, after>>

Exit(c, how) ==
  /\ proc[c] = "alive"
  /\ proc' = [proc EXCEPT ![c] = how]
  /\ \E rest \in (IF MayDetach THEN {"closed", "held"} ELSE {"closed"}) :
       pipe' = [pipe EXCEPT ![c] = rest]
  /\ UNCHANGED <<reader, exceeded, call, killOnTimeout, mgr, turns, after>>

ChildEnds(c) ==
  /\ pipe[c] = "held"
  /\ pipe' = [pipe EXCEPT ![c] = "closed"]
  /\ UNCHANGED <<proc, reader, exceeded, call, killOnTimeout, mgr, turns, after>>

ReadEof(c) ==
  /\ reader[c] = "reading" /\ pipe[c] = "closed"
  /\ reader' = [reader EXCEPT ![c] = "eof"]
  /\ UNCHANGED <<proc, pipe, exceeded, call, killOnTimeout, mgr, turns, after>>

HasExited(c) == proc[c] \in {"exited", "signalled"}

ReaderEnded(c) == reader[c] \in {"full", "eof"}

\* kill_process_tree does nothing once the shell itself has exited.
Killable(cs) == {c \in cs : proc[c] \in {"alive", "blocked"}}

KillTrees(cs) ==
  /\ proc' = [c \in Commands |-> IF c \in Killable(cs) THEN "signalled" ELSE proc[c]]
  /\ pipe' = [c \in Commands |-> IF c \in Killable(cs) THEN "closed" ELSE pipe[c]]

----------------------------------------------------------------------------
(* run_shell, and the lane that calls it *)

CallMoves(c, state) == call' = [call EXCEPT ![c] = state]

\* spawn_shell and the reader task.
Spawn(c) ==
  /\ proc' = [proc EXCEPT ![c] = "alive"] /\ pipe' = [pipe EXCEPT ![c] = "open"]
  /\ reader' = [reader EXCEPT ![c] = "reading"]
  /\ \E kill \in BOOLEAN : killOnTimeout' = [killOnTimeout EXCEPT ![c] = kill]
  /\ CallMoves(c, "foreground")
  /\ UNCHANGED <<exceeded, mgr, turns, after>>

Start(c) ==
  /\ turn = "streaming" /\ call[c] = "none"
  /\ Spawn(c)

\* The request is the next one of an agent whose lane is busy.
Queue(c) ==
  /\ MayQueue /\ turn = "streaming" /\ call[c] = "none"
  /\ \E last \in (InCall \cup Queued) \ orphans :
       /\ \A d \in Queued : after[d] # last
       /\ after' = [after EXCEPT ![c] = last]
  /\ CallMoves(c, "queued")
  /\ UNCHANGED <<os, killOnTimeout, mgr, turns>>

\* The lane goes on when the call before it is over, whatever ended that call and
\* whatever the turn does by now.
StartQueued(c) ==
  /\ c \in Queued /\ after[c] \notin InCall \cup Queued
  /\ Spawn(c)

\* process.wait() is over.  It may return as soon as the shell exits or only when
\* the pipe is closed, depending on asyncio's version and on who comes first.
WaitReturns(c) ==
  /\ call[c] = "foreground" /\ HasExited(c)
  /\ CallMoves(c, "draining")
  /\ UNCHANGED <<os, killOnTimeout, mgr, turns, after>>

\* await reader, then the result.
Returns(c) ==
  /\ call[c] \in {"draining", "stopping"} /\ ReaderEnded(c)
  /\ CallMoves(c, IF call[c] = "stopping" \/ exceeded[c] THEN "failed" ELSE "returned")
  /\ UNCHANGED <<os, killOnTimeout, mgr, turns, after>>

\* The foreground window is over: the command is stopped, or registered.
TimesOut(c) ==
  /\ call[c] = "foreground"
  /\ \/ /\ exceeded[c] \/ killOnTimeout[c]
        /\ KillTrees({c}) /\ CallMoves(c, "stopping")
        /\ UNCHANGED <<reader, exceeded, mgr>>
     \/ /\ ~exceeded[c] /\ ~killOnTimeout[c]
        /\ CallMoves(c, "background")
        /\ tracked' = tracked \cup {c}
        /\ status' = [status EXCEPT ![c] = "running"]
        /\ UNCHANGED <<os, done>>
  /\ UNCHANGED <<killOnTimeout, turns, after>>

----------------------------------------------------------------------------
(* BackgroundProcessManager *)

\* MUTANT: the watcher does not look whether the task was killed meanwhile.
Watched_Always(c) == IF proc[c] = "signalled" THEN "killed" ELSE "completed"

\* The status a watcher leaves.
Watched(c) ==
  IF status[c] # "running" THEN status[c]
  ELSE IF proc[c] = "signalled" THEN "killed"
  ELSE "completed"

\* MUTANT: a command that died from a signal is not marked as done.
Watch_OnlyCompleted(c) ==
  /\ call[c] = "background" /\ HasExited(c) /\ ReaderEnded(c) /\ ~done[c]
  /\ status' = [status EXCEPT ![c] = Watched(c)]
  /\ done' = [done EXCEPT ![c] = status'[c] = "completed"]
  /\ UNCHANGED <<os, call, killOnTimeout, tracked, turns, after>>

\* _watch, after process.wait() and the reader.
Watch(c) ==
  /\ call[c] = "background" /\ HasExited(c) /\ ReaderEnded(c) /\ ~done[c]
  /\ status' = [status EXCEPT ![c] = Watched(c)]
  /\ done' = [done EXCEPT ![c] = TRUE]
  /\ UNCHANGED <<os, call, killOnTimeout, tracked, turns, after>>

\* kill_all with the tasks rest of its snapshot left to do: the next one that still
\* runs is marked, killed and awaited.  When none is left, self._tasks.clear() also
\* forgets what was registered meanwhile.
KillNext(rest, tasks) ==
  \/ /\ \A c \in rest : status[c] # "running"
     /\ tracked' = {} /\ turn' = "idle" /\ killing' = {} /\ toKill' = {}
     /\ UNCHANGED <<proc, pipe, status>>
  \/ \E c \in rest :
       /\ status[c] = "running" /\ status' = [status EXCEPT ![c] = "killed"]
       /\ KillTrees({c})
       /\ tracked' = tasks /\ turn' = "killing" /\ killing' = {c} /\ toKill' = rest \ {c}

KilledOne ==
  /\ turn = "killing"
  /\ done' = [c \in Commands |-> done[c] \/ c \in killing]
  /\ KillNext(toKill, tracked)
  /\ UNCHANGED <<reader, exceeded, call, killOnTimeout, after>>
  /\ UNCHANGED <<awaited, orphans, userCancelled, turnNo, delivered>>

----------------------------------------------------------------------------
(* The turn *)

\* A new turn, or a resumed one, which does not call begin_turn.
NewTurn ==
  /\ turn = "idle" /\ turnNo < MaxTurns
  /\ turn' = "streaming" /\ turnNo' = turnNo + 1 /\ userCancelled' = FALSE
  /\ UNCHANGED <<os, call, killOnTimeout, mgr, after>>
  /\ UNCHANGED <<awaited, killing, toKill, orphans, delivered>>

\* A liveness timeout or a failed frame closes the stream under its lanes, and the
\* turn resumes.
AttemptDrops ==
  /\ turn = "streaming" /\ (InCall \cup Queued) \ orphans # {}
  /\ orphans' = orphans \cup InCall \cup Queued
  /\ UNCHANGED <<os, call, killOnTimeout, mgr, after>>
  /\ UNCHANGED <<awaited, killing, toKill, userCancelled, turn, turnNo, delivered>>

\* A final frame comes after the attempt's own lanes have settled.
FinalFrame ==
  /\ turn = "streaming" /\ InCall \cup Queued \subseteq orphans
  /\ turn' = IF tracked = {} THEN "idle" ELSE "waiting"
  /\ awaited' = tracked
  /\ UNCHANGED <<os, call, killOnTimeout, mgr, after>>
  /\ UNCHANGED <<killing, toKill, orphans, userCancelled, turnNo, delivered>>

\* The turn fails for good: kill_all in the finally clause.  Begin_turn fails a turn
\* when a call of an earlier one is still in flight.
TurnFails ==
  /\ turn = "streaming"
  /\ KillNext(tracked, tracked) /\ orphans' = orphans \cup InCall \cup Queued
  /\ UNCHANGED <<reader, exceeded, call, killOnTimeout, done, after>>
  /\ UNCHANGED <<awaited, userCancelled, turnNo, delivered>>

\* wait_all is over.
AllAwaited == \A c \in awaited : done[c]

\* drain: a command that was registered after wait_all began may still run.
Drained == {c \in tracked : status[c] # "running"}

\* Their output opens a continuation.
Deliver ==
  /\ turn = "waiting" /\ AllAwaited /\ \A c \in Drained : status[c] # "killed"
  /\ tracked' = tracked \ Drained
  /\ delivered' = delivered \cup Drained
  /\ turn' = "streaming" /\ awaited' = {}
  /\ UNCHANGED <<os, call, killOnTimeout, status, done, after>>
  /\ UNCHANGED <<killing, toKill, orphans, userCancelled, turnNo>>

\* A killed task ends the turn.  Its drained siblings are forgotten.
StopKilled ==
  /\ turn = "waiting" /\ AllAwaited /\ \E c \in Drained : status[c] = "killed"
  /\ KillNext(tracked \ Drained, tracked \ Drained) /\ awaited' = {}
  /\ UNCHANGED <<reader, exceeded, call, killOnTimeout, done, after>>
  /\ UNCHANGED <<orphans, userCancelled, turnNo, delivered>>

\* The calls whose CancelledError kills the command: only the wait for the process
\* is inside the try.
Interrupted == {c \in InCall : call[c] = "foreground"}

\* broker.cancel_all: CancelledError in every run_shell it knows ...
CancelTurn ==
  /\ turn \in {"streaming", "waiting"}
  /\ KillTrees(Interrupted)
  /\ call' = [c \in Commands |-> IF c \in InCall THEN "cancelled" ELSE call[c]]
  /\ reader' = [c \in Commands |-> IF c \in InCall /\ reader[c] = "reading"
                                     THEN "cancelled" ELSE reader[c]]
  /\ orphans' = Queued /\ awaited' = {} /\ userCancelled' = TRUE /\ turn' = "cancelling"
  /\ UNCHANGED <<exceeded, killOnTimeout, mgr, after, killing, toKill, turnNo, delivered>>

\* ... and, when they are over, kill_all.
CallsCancelled ==
  /\ turn = "cancelling"
  /\ KillNext(tracked, tracked)
  /\ UNCHANGED <<reader, exceeded, call, killOnTimeout, done, after>>
  /\ UNCHANGED <<awaited, orphans, userCancelled, turnNo, delivered>>

----------------------------------------------------------------------------

\* Bound: no turn is left and every command is over or hangs.
NothingLeft == turn = "idle" /\ turnNo = MaxTurns /\ UNCHANGED shellVars

Ended(c) == \E how \in {"exited", "signalled"} : Exit(c, how)

ProcessStep(c) == Flood(c) \/ Block(c) \/ Ended(c) \/ ChildEnds(c) \/ ReadEof(c)

CallStep(c) ==
  Start(c) \/ Queue(c) \/ StartQueued(c) \/ WaitReturns(c) \/ Returns(c) \/ TimesOut(c)

TurnStep ==
  \/ NewTurn \/ AttemptDrops \/ FinalFrame \/ TurnFails \/ Deliver \/ StopKilled
  \/ CancelTurn \/ CallsCancelled \/ KilledOne \/ NothingLeft

ShellNext ==
  \/ \E c \in Commands : ProcessStep(c) \/ CallStep(c) \/ Watch(c)
  \/ TurnStep

PlainShellSpec == ShellInit /\ [][ShellNext]_shellVars

\* The event loop runs what is ready: readers, lanes, watchers, the foreground
\* timer, kill_all, the turn's own wait.
ProgramFairness ==
  /\ \A c \in Commands :
       /\ WF_shellVars(ReadEof(c)) /\ WF_shellVars(StartQueued(c)) /\ WF_shellVars(Returns(c))
       /\ WF_shellVars(TimesOut(c)) /\ WF_shellVars(Watch(c))
  /\ WF_shellVars(CallsCancelled) /\ WF_shellVars(KilledOne) /\ WF_shellVars(Deliver \/ StopKilled)

\* A command that can go on ends by itself.
ShellFairness == \A c \in Commands : WF_shellVars(Ended(c))

ShellSpec == PlainShellSpec /\ ProgramFairness /\ ShellFairness

----------------------------------------------------------------------------
(* Properties *)

\* The types, and what a record of the manager means: it has a status from its
\* registration on, and a task that is done is no longer running.
ShellTypeOK ==
  /\ proc \in [Commands -> {"none", "alive", "blocked", "exited", "signalled"}]
  /\ pipe \in [Commands -> {"open", "held", "closed"}]
  /\ reader \in [Commands -> {"off", "reading", "full", "eof", "cancelled"}]
  /\ call \in [Commands -> {"none", "queued", "foreground", "stopping", "draining",
                            "background", "returned", "failed", "cancelled"}]
  /\ after \in [Commands -> Commands]
  /\ exceeded \in [Commands -> BOOLEAN] /\ killOnTimeout \in [Commands -> BOOLEAN]
  /\ tracked \subseteq Commands
  /\ status \in [Commands -> {"none", "running", "completed", "killed"}]
  /\ done \in [Commands -> BOOLEAN]
  /\ \A c \in Commands : /\ (status[c] = "none") = (call[c] # "background")
                         /\ done[c] => status[c] \in {"completed", "killed"}
  /\ awaited \subseteq Commands /\ killing \cup toKill \subseteq Commands /\ orphans \subseteq Commands
  /\ userCancelled \in BOOLEAN
  /\ turn \in {"idle", "streaming", "waiting", "cancelling", "killing"} /\ turnNo \in 0..MaxTurns
  /\ delivered \subseteq Commands

\* What the hosted agent is given as a command's whole output really is all of
\* it: a result or a continuation is built only after the stream was read to its
\* end, or the output is marked as cut (run_shell, _watch).  A continuation never
\* carries a command that is still running or was killed, not even one that was
\* registered while the turn was waiting (wait_all, drain).
ReportedOutputIsWhole ==
  \A c \in Commands :
    /\ call[c] = "returned" \/ c \in delivered => reader[c] = "eof" \/ exceeded[c]
    /\ c \in delivered => status[c] = "completed" /\ done[c]

\* No shell survives the cancel or the kill_all that ended its call, in whatever
\* step of run_shell or of the watcher it arrived, and a command the manager killed
\* is never reported as completed, however its exit races with kill_all (run_shell,
\* _watch, kill_all).
KillsHold ==
  /\ [](\A c \in Commands : call[c] = "cancelled" \/ status[c] = "killed" => HasExited(c))
  /\ [][\A c \in Commands : status[c] = "killed" => status'[c] = "killed"]_shellVars

\* What the agent is told of a command is true: its output is whole, and a command
\* reported as killed is dead and stays so.
ReportsAreTrue == []ReportedOutputIsWhole /\ KillsHold

\* An awaited command that filled its buffer, or left a child on its pipe, may hold
\* the turn for ever.
Hangs == \E c \in awaited : exceeded[c] \/ pipe[c] = "held"

\* Every wait for commands that do neither ends, whether they exit, are killed or
\* are registered while the turn waits (wait_all, _watch, kill_all).
WaitEnds == turn = "waiting" ~> turn # "waiting" \/ Hangs

\* docs/cli.md: "Output is capped at 5 MB" and "Commands still running are awaited
\* first": a command that reached the cap is over at some time.
CappedCommandEnds ==
  \A c \in Commands : call[c] = "background" /\ exceeded[c] ~> done[c]

\* docs/cli.md: "the whole process tree is killed on cancel": once a cancelled turn
\* is over, none of the commands it requested runs.
NothingRunsAfterCancel == userCancelled /\ turn = "idle" => Killable(Commands) = {}

=============================================================================
