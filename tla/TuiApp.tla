------------------------------ MODULE TuiApp ------------------------------
(***************************************************************************)
(* The turn task of the terminal front end (copper_app.py) and everything  *)
(* on its event loop that starts, tracks, cancels or outlives it: the      *)
(* submission worker, the message given on the command line, /compact,     *)
(* Ctrl+C, the approval menu and the switch to another chat.               *)
(*                                                                         *)
(* The app is one thread; a step runs from one await to the next.  A task  *)
(* is known by its number.  cancel is a CancelledError that its next await *)
(* will raise.                                                             *)
(***************************************************************************)
EXTENDS Naturals

CONSTANTS
    Chats,       \* thread ids the user can open
    NoChat,
    MaxTasks     \* bound: turn and compaction tasks started

ASSUME ChatsAssumption == Chats # {} /\ NoChat \notin Chats
ASSUME TasksAssumption == MaxTasks \in Nat

NoTask == 0
TaskIds == 1..MaxTasks

VARIABLES
    tracked,    \* self._turn_task, NoTask for None
    tasks,      \* every task: its kind, where it is, what is pending
    worker,     \* the exclusive worker group "chat-submission"
    compactor,  \* the task a /compact handler awaits
    initial,    \* the message given on the command line
    ctrlC,      \* the handler of Ctrl+C, Escape or the stop button
    cancelRequested, \* self._cancel_requested
    loading,    \* the spinner is mounted and the composer busy
    call,       \* the tool call the turn waits for
    tool,       \* the widget that shows it
    menu,       \* the approval menu is mounted
    phase,      \* self._turn_state.phase
    chat,       \* self.thread_id
    cut,        \* history: a cancel cut the closing of the last turn short
    strayed,    \* history: a turn sent a request for another chat
    raced       \* history: a submission overlapped the command line's

vars == <<tracked, tasks, worker, compactor, initial, ctrlC, cancelRequested,
          loading, call, tool, menu, phase, chat, cut, strayed, raced>>
screen == <<loading, call, tool, menu, phase>>
history == <<cut, strayed>>
inputs == <<worker, compactor, initial, raced>>

Unused == [kind |-> "none", at |-> "unused", cancel |-> FALSE, chat |-> NoChat]

Live(i) == tasks[i].at \notin {"unused", "done"}
Running == tracked # NoTask /\ Live(tracked)
Free == {i \in TaskIds : tasks[i].at = "unused"}
NextTask == CHOOSE i \in Free : \A j \in Free : i <= j

Init ==
    /\ tracked = NoTask
    /\ tasks = [i \in TaskIds |-> Unused]
    /\ worker = "idle"
    /\ compactor = NoTask
    /\ initial \in {"none", "due"}
    /\ ctrlC = "idle"
    /\ cancelRequested = FALSE
    /\ loading = FALSE /\ call = "none" /\ tool = "none" /\ menu = FALSE /\ phase = "idle"
    /\ chat \in Chats
    /\ cut = FALSE /\ strayed = FALSE /\ raced = FALSE

\* asyncio.create_task, stored in self._turn_task.
Created(kind) ==
    /\ Free # {}
    /\ tasks' = [tasks EXCEPT ![NextTask] = [Unused EXCEPT !.kind = kind, !.at = "new"]]
    /\ tracked' = NextTask

\* The loop wakes tasks in order: a /compact handler whose task is over runs its
\* finally clause before a submission made since then gets past its first await.
Awaiting == compactor # NoTask /\ ~Live(compactor)

\* MUTANT: a task is cancelled only once it streams.
Cancel_Streaming(i) == tasks' = [tasks EXCEPT ![i].cancel = (tasks[i].at = "stream")]

\* A CancelledError for whoever awaits inside task i.
Cancel(i) == tasks' = [tasks EXCEPT ![i].cancel = Live(i)]

(***************************************************************************)
(* Starting a turn.                                                        *)
(***************************************************************************)

\* MUTANT: a submission does not look at the running task.
Submit_Unchecked(what) ==
    /\ ctrlC # "crashed"
    /\ worker' = what
    /\ raced' = (raced \/ initial = "mount")
    /\ IF compactor # NoTask THEN Cancel(compactor) ELSE UNCHANGED tasks
    /\ UNCHANGED <<tracked, compactor, initial, ctrlC, cancelRequested, chat, history>>
    /\ UNCHANGED screen

\* Enter: the new worker cancels the one before it at its await; a /compact
\* handler passes the cancel on to the task it awaits.  A turn under way
\* refuses the message.
Submit(what) ==
    /\ ctrlC # "crashed"
    /\ worker' = IF Running THEN "idle" ELSE what
    /\ raced' = (raced \/ (initial = "mount" /\ ~Running))
    /\ IF compactor # NoTask THEN Cancel(compactor) ELSE UNCHANGED tasks
    /\ UNCHANGED <<tracked, compactor, initial, ctrlC, cancelRequested, chat, history>>
    /\ UNCHANGED screen

\* After the awaits of _submit and _resume_turn: no second look at the task.
SubmitCreates ==
    /\ worker = "submit" /\ ~Awaiting
    /\ Created("turn")
    /\ worker' = "idle"
    /\ UNCHANGED <<compactor, initial, raced, ctrlC, cancelRequested, chat, history>>
    /\ UNCHANGED screen

\* call_after_refresh(self._submit, initial_message): not in the worker group.
InitialStarts ==
    /\ initial = "due"
    /\ initial' = IF Running THEN "none" ELSE "mount"
    /\ raced' = (raced \/ (worker # "idle" /\ ~Running))
    /\ UNCHANGED <<tracked, tasks, worker, compactor, ctrlC, cancelRequested, chat, history>>
    /\ UNCHANGED screen

InitialCreates ==
    /\ initial = "mount" /\ ~Awaiting
    /\ Created("turn")
    /\ initial' = "none"
    /\ UNCHANGED <<worker, compactor, raced, ctrlC, cancelRequested, chat, history>>
    /\ UNCHANGED screen

\* _start_compaction: after the probe for an unfinished turn it creates the
\* task, or shows why it will not.
CompactCreates ==
    /\ worker = "compact" /\ compactor = NoTask
    /\ Created("compact")
    /\ worker' = "idle" /\ compactor' = NextTask
    /\ UNCHANGED <<initial, raced, ctrlC, cancelRequested, chat, history>> /\ UNCHANGED screen

CompactRefused ==
    /\ worker = "compact"
    /\ worker' = "idle"
    /\ UNCHANGED <<tracked, tasks, compactor, initial, raced, ctrlC, cancelRequested, chat, history>>
    /\ UNCHANGED screen

\* Its finally clause, once the task it awaited is over.
CompactorEnds ==
    /\ Awaiting
    /\ tracked' = NoTask /\ compactor' = NoTask
    /\ UNCHANGED <<tasks, worker, initial, raced, ctrlC, cancelRequested, chat, history>>
    /\ UNCHANGED screen

(***************************************************************************)
(* The tasks.                                                              *)
(***************************************************************************)

At(i, where) == tasks' = [tasks EXCEPT ![i].at = where, ![i].cancel = FALSE]
Done(i) == tasks' = [tasks EXCEPT ![i] = [Unused EXCEPT !.at = "done"]]

\* A task cancelled before its first step never enters its body: not even its
\* finally clause runs.
NeverStarts(i) ==
    /\ tasks[i].at = "new" /\ tasks[i].cancel
    /\ Done(i)
    /\ UNCHANGED <<tracked, ctrlC, cancelRequested, chat, history>>
    /\ UNCHANGED inputs /\ UNCHANGED screen

Starts(i) ==
    /\ tasks[i].at = "new" /\ ~tasks[i].cancel
    /\ tasks' = [tasks EXCEPT ![i].at = "stream", ![i].chat = chat]
    /\ loading' = TRUE
    /\ IF tasks[i].kind = "turn"
       THEN cancelRequested' = FALSE /\ phase' = "running" /\ tool' = "none" /\ cut' = FALSE
       ELSE UNCHANGED <<cancelRequested, phase, tool, cut>>
    /\ UNCHANGED <<tracked, ctrlC, chat, strayed, call, menu>> /\ UNCHANGED inputs

\* The next request of a turn that lost its connection takes its conversation
\* from the agent, which follows the chat on the screen.
Reconnects(i) ==
    /\ tasks[i].kind = "turn" /\ tasks[i].at = "stream" /\ ~tasks[i].cancel
    /\ strayed' = (strayed \/ chat # tasks[i].chat)
    /\ UNCHANGED <<tracked, tasks, ctrlC, cancelRequested, chat, cut>>
    /\ UNCHANGED inputs /\ UNCHANGED screen

\* A tool request, which may have to be approved; and its outcome.
ToolRequested(i, approval) ==
    /\ tasks[i].kind = "turn" /\ tasks[i].at = "stream" /\ ~tasks[i].cancel
    /\ call = "none"
    /\ call' = IF approval THEN "waiting" ELSE "running"
    /\ tool' = IF approval THEN "approval" ELSE "running"
    /\ menu' = approval
    /\ UNCHANGED <<tracked, tasks, ctrlC, cancelRequested, chat, history, loading, phase>>
    /\ UNCHANGED inputs

\* The user answers the menu: the call runs, or ends rejected.
ToolDecided ==
    /\ menu /\ menu' = FALSE
    /\ call' \in {"running", "none"}
    /\ tool' = IF tool = "none" THEN tool ELSE IF call' = "running" THEN "running" ELSE "settled"
    /\ UNCHANGED <<tracked, tasks, ctrlC, cancelRequested, chat, history, loading, phase>>
    /\ UNCHANGED inputs

ToolResult(i) ==
    /\ tasks[i].kind = "turn" /\ tasks[i].at = "stream" /\ ~tasks[i].cancel
    /\ call = "running" /\ call' = "none"
    /\ tool' = IF tool = "none" THEN tool ELSE "settled"
    /\ UNCHANGED <<tracked, tasks, ctrlC, cancelRequested, chat, history, loading, menu, phase>>
    /\ UNCHANGED inputs

\* The stream is over: "closing" is _finalize_turn inside the try, "handler"
\* inside an except clause.
StreamEnds(i) ==
    /\ tasks[i].kind = "turn" /\ tasks[i].at = "stream" /\ ~tasks[i].cancel
    /\ call = "none"
    /\ At(i, "closing")
    /\ phase' \in IF cancelRequested THEN {"cancelled"} ELSE {"completed", "failed"}
    /\ UNCHANGED <<tracked, ctrlC, cancelRequested, chat, history, loading, call, tool, menu>>
    /\ UNCHANGED inputs

\* astream raises, by an error or by a cancel: the tool it awaited is cancelled
\* with it, its menu removed.
StreamRaises(i) ==
    /\ tasks[i].kind = "turn"
    /\ \/ tasks[i].at = "stream"
       \/ tasks[i].at = "closing" /\ tasks[i].cancel
    /\ At(i, "handler")
    /\ phase' = IF tasks[i].cancel THEN "cancelled" ELSE "failed"
    /\ call' = "none" /\ menu' = FALSE
    /\ UNCHANGED <<tracked, ctrlC, cancelRequested, chat, history, loading, tool>>
    /\ UNCHANGED inputs

\* MUTANT: _finalize_turn settles tools for a cancelled turn only.
Settled_Cancelled(t, p) == IF p = "cancelled" /\ t \in {"running", "approval"} THEN "settled" ELSE t

\* _settle_active_tools
Settled(t, p) ==
    IF p \in {"cancelled", "failed"} /\ t \in {"running", "approval"} THEN "settled" ELSE t

\* _finalize_turn to its end, and the finally clause of _run_turn.
Finalizes(i) ==
    /\ tasks[i].at \in {"closing", "handler"} /\ ~tasks[i].cancel
    /\ loading' = FALSE
    /\ tool' = Settled(tool, phase)
    /\ Done(i) /\ tracked' = NoTask
    /\ UNCHANGED <<ctrlC, cancelRequested, chat, history, call, menu, phase>> /\ UNCHANGED inputs

\* A second cancel while _finalize_turn awaits in an except clause: what it had
\* not done yet stays undone.
FinalizeCut(i) ==
    /\ tasks[i].at = "handler" /\ tasks[i].cancel
    /\ loading' \in {loading, FALSE}
    /\ Done(i) /\ tracked' = NoTask /\ cut' = TRUE
    /\ UNCHANGED <<ctrlC, cancelRequested, chat, strayed, call, tool, menu, phase>>
    /\ UNCHANGED inputs

\* _compact returns, fails or is cancelled.
CompactionEnds(i) ==
    /\ tasks[i].kind = "compact" /\ tasks[i].at = "stream"
    /\ loading' = FALSE
    /\ Done(i)
    /\ UNCHANGED <<tracked, ctrlC, cancelRequested, chat, history, call, tool, menu, phase>>
    /\ UNCHANGED inputs

(***************************************************************************)
(* Ctrl+C, Escape and the stop button: action_cancel_or_quit.              *)
(***************************************************************************)

\* The check, and the await of the cancel frame's send.
CtrlC ==
    /\ ctrlC = "idle" /\ Running
    /\ cancelRequested' = TRUE /\ ctrlC' = "asked"
    /\ UNCHANGED <<tracked, tasks, chat, history>>
    /\ UNCHANGED inputs /\ UNCHANGED screen

\* self._turn_task.cancel(), of whatever is tracked by now: None raises.
CtrlCCancels ==
    /\ ctrlC = "asked"
    /\ IF tracked = NoTask
       THEN ctrlC' = "crashed" /\ UNCHANGED tasks
       ELSE ctrlC' = "broker" /\ Cancel(tracked)
    /\ UNCHANGED <<tracked, cancelRequested, chat, history>>
    /\ UNCHANGED inputs /\ UNCHANGED screen

\* broker.cancel_all.
CtrlCEnds ==
    /\ ctrlC = "broker"
    /\ ctrlC' = "idle"
    /\ UNCHANGED <<tracked, tasks, cancelRequested, chat, history>>
    /\ UNCHANGED inputs /\ UNCHANGED screen

\* /clear, and the choice of another chat, also while a turn runs: every widget
\* of the transcript is removed, a menu that waits for an answer included.
ResetTranscript(c) ==
    /\ chat' = c
    /\ tool' = "none" /\ menu' = FALSE
    /\ UNCHANGED <<tracked, tasks, ctrlC, cancelRequested, history, loading, call, phase>>
    /\ UNCHANGED inputs

TaskStep(i) ==
    \/ NeverStarts(i) \/ Starts(i) \/ ToolResult(i) \/ Reconnects(i) \/ StreamEnds(i) \/ StreamRaises(i)
    \/ Finalizes(i) \/ FinalizeCut(i) \/ CompactionEnds(i)

Next ==
    \/ \E what \in {"submit", "compact"} : Submit(what)
    \/ SubmitCreates \/ InitialStarts \/ InitialCreates
    \/ CompactCreates \/ CompactRefused \/ CompactorEnds
    \/ \E i \in TaskIds :
        TaskStep(i) \/ \E approval \in BOOLEAN : ToolRequested(i, approval)
    \/ ToolDecided
    \/ CtrlC \/ CtrlCCancels \/ CtrlCEnds
    \/ \E c \in Chats : ResetTranscript(c)

\* The event loop runs every task that can run; a cancelled await raises.
Fairness ==
    /\ \A i \in TaskIds : WF_vars(NeverStarts(i) \/ Starts(i) \/ Finalizes(i) \/ FinalizeCut(i))
    /\ \A i \in TaskIds : WF_vars(tasks[i].cancel /\ (StreamRaises(i) \/ CompactionEnds(i)))
    /\ WF_vars(CtrlCCancels) /\ WF_vars(CtrlCEnds) /\ WF_vars(CompactorEnds)

Spec == Init /\ [][Next]_vars /\ Fairness

(***************************************************************************)
(* Properties.                                                             *)
(***************************************************************************)

TypeOK ==
    /\ tracked \in TaskIds \cup {NoTask} /\ compactor \in TaskIds \cup {NoTask}
    /\ tasks \in [TaskIds -> [kind : {"none", "turn", "compact"},
                              at : {"unused", "new", "stream", "closing", "handler", "done"},
                              cancel : BOOLEAN, chat : Chats \cup {NoChat}]]
    /\ worker \in {"idle", "submit", "compact"} /\ initial \in {"none", "due", "mount"}
    /\ ctrlC \in {"idle", "asked", "broker", "crashed"}
    /\ cancelRequested \in BOOLEAN /\ loading \in BOOLEAN /\ menu \in BOOLEAN
    /\ call \in {"none", "waiting", "running"}
    /\ tool \in {"none", "approval", "running", "settled"}
    /\ phase \in {"idle", "running", "completed", "failed", "cancelled"}
    /\ chat \in Chats /\ cut \in BOOLEAN /\ strayed \in BOOLEAN /\ raced \in BOOLEAN

\* A turn or a compaction that runs is the one Ctrl+C, /resume and the next
\* message look at, so there is never a second one; only a submission made
\* while the command line's message is being mounted escapes this.
LiveTaskIsTracked ==
    ~raced => \A i \in TaskIds : Live(i) => tracked = i

\* With no task running the composer is free, no approval menu waits for an
\* answer nobody reads, and a turn that failed or was cancelled shows no tool as
\* running, unless a cancel landed while an except clause of _run_turn was
\* already closing the turn.
IdleScreenIsSettled ==
    (~raced /\ ~cut /\ \A i \in TaskIds : ~Live(i)) =>
        /\ ~loading /\ ~menu
        /\ phase \in {"failed", "cancelled"} => tool \notin {"approval", "running"}

\* Ctrl+C ends the task it was pressed for, wherever that is: not started,
\* streaming, waiting for an approval or closing.
CtrlCEndsTheTask ==
    \A i \in TaskIds : (ctrlC = "asked" /\ tracked = i) ~> (~Live(i) \/ raced)

\* Every request of a turn goes out under the conversation of the chat the turn
\* was started in.
RequestsStayInTheirChat == ~strayed

\* Cancelling a turn never breaks the app (the cancel test of test_tui.py).
CancelDoesNotCrash == ctrlC # "crashed"

===========================================================================
