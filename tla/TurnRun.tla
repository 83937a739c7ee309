------------------------------ MODULE TurnRun ------------------------------
(***************************************************************************)
(* One run of the checkpointed graph node over one logical turn            *)
(* (copper_graph.py: _TurnRun and the try/except/finally of hosted_node).  *)
(*                                                                         *)
(* The node streams an attempt; when it fails it settles the open tool     *)
(* calls, decides on four budgets whether to resume by itself, sleeps,     *)
(* waits for the server's heartbeat and sends the turn again.  After a     *)
(* final frame it waits for background shells and feeds their output back  *)
(* in a continuation.  All along the journal is kept on disk.              *)
(*                                                                         *)
(* The server, the user and the shells are the environment.  Everything    *)
(* between two awaits of the node is one action.                           *)
(***************************************************************************)
EXTENDS TurnJournal

CONSTANTS
  Jobs,           \* background shells this turn may start
  MaxAuto,        \* MAX_AUTO_RESUMES
  MaxTotal,       \* MAX_TOTAL_RESUMES
  BusyMax,        \* PROVIDER_BUSY_MAX_RESUMES
  Window,         \* RESUME_WINDOW_SECONDS, in abstract time units
  Elapsed,        \* how long an attempt that saw no frame may take
  Backoff,        \* the (jittered) delays before a resume
  EarlierResumes  \* attempt counts a journal loaded for a manual resume may have

ASSUME BudgetAssumption ==
  /\ MaxAuto \in Nat /\ MaxTotal \in Nat /\ BusyMax \in Nat /\ Window \in Nat
  /\ Elapsed \subseteq Nat /\ Elapsed # {}
  /\ Backoff \subseteq Nat /\ Backoff # {}
  /\ EarlierResumes \subseteq Nat

VARIABLES
  pc,             \* where the node awaits
  reason,         \* "none" on the first attempt of a new turn, else "resume"
  journal,        \* the journal in memory
  disk,           \* the thread's sidecar file
  pending,        \* pending_tools
  observed,       \* a frame of this attempt was seen
  errorResumes,   \* error_resumes
  totalResumes,   \* total_resumes
  busyResumes,    \* busy_resumes
  recovery,       \* recovery_seconds
  fresh,          \* fresh_conversation
  cancel,         \* agent.cancel_requested
  manual,         \* manual_resume
  outcome,        \* how the turn ended
  jobs,           \* the background manager's view of each shell
  seen            \* history: the outcome of each tool call the client saw

budgets == <<errorResumes, totalResumes, busyResumes, recovery>>
vars    == <<pc, reason, journal, disk, pending, observed, budgets, fresh,
             cancel, manual, outcome, jobs, seen>>

Awaits      == {"prep", "streaming", "sleeping", "probing", "awaitbg"}
PCs         == Awaits \cup {"settled", "closing", "ended"}
Endings     == {"none", "completed", "cancelled", "failed", "interrupted", "torn"}
\* "exited"/"killed" shells are still listed by the manager; the last three
\* are not: delivered in a continuation, output forgotten, process killed.
JobStates   == {"none", "running", "exited", "killed", "delivered", "lost", "gone"}

----------------------------------------------------------------------------
(* Failures, as classify_error and consume sort them *)

\* drop       stream dropped, timed out, 5xx, 429, or a failed final
\* rotation   resumable final: server_restarting, socket_rotation
\* resumable  any other resumable final or frame
\* busy       resumable final: provider_busy
\* tooLarge   413, chat_request_too_large
\* account    authentication, usage limit
\* refused    invalid request, protocol violation, unknown exception
\* blocked    failed final with tos_blocked
Failures          == {"drop", "rotation", "resumable", "busy", "tooLarge",
                      "account", "refused", "blocked"}
Retryable         == {"drop", "rotation", "resumable", "busy"}
ManuallyResumable == {"drop", "rotation", "resumable", "busy", "account"}
\* Raised by consume on a final frame, so a frame was seen.
OnFinal           == {"rotation", "resumable", "busy", "blocked"}

\* Time added to recovery_seconds by the attempt itself.
AttemptCost(kind) == IF observed \/ kind \in OnFinal THEN {0} ELSE Elapsed

CanResumeAgain(spent) ==
  totalResumes < MaxTotal /\ errorResumes < MaxAuto /\ spent < Window

\* _plan_busy_resume; windowOver: 30 minutes since the streak's first busy final.
PlanBusyResume(windowOver) ==
  IF busyResumes >= BusyMax \/ (busyResumes > 0 /\ windowOver) THEN "none" ELSE "busy"

\* _plan_resume
PlanResume(kind, spent, windowOver) ==
  IF kind \notin Retryable \/ totalResumes >= MaxTotal THEN "none"
  ELSE IF kind = "busy" THEN PlanBusyResume(windowOver)
  ELSE IF kind = "rotation" THEN "immediate"
  ELSE IF errorResumes >= MaxAuto \/ spent >= Window THEN "none"
  ELSE "error"

\* MUTANT: a new conversation is started whatever is left of the budgets.
StartFresh_AnyBudget(kind, spent) == kind = "tooLarge" /\ ~fresh

\* _start_fresh: a turn refused as too large moves to a new conversation, once.
StartFresh(kind, spent) == kind = "tooLarge" /\ CanResumeAgain(spent) /\ ~fresh

Plan(kind, spent, windowOver) ==
  IF StartFresh(kind, spent) THEN "fresh" ELSE PlanResume(kind, spent, windowOver)

----------------------------------------------------------------------------
(* The background manager *)

Running == {j \in Jobs : jobs[j] = "running"}

Listed  == {j \in Jobs : jobs[j] \in {"running", "exited", "killed"}}

\* BackgroundProcessManager.kill_all
KillAll(js) == [j \in Jobs |-> IF js[j] \in {"running", "killed"} THEN "gone"
                               ELSE IF js[j] = "exited" THEN "lost"
                               ELSE js[j]]

----------------------------------------------------------------------------
(* Start of the node.  A new turn may find the sidecar of a superseded     *)
(* turn; a resumed one continues the journal it loaded from the sidecar,   *)
(* or from the checkpoint when there is no sidecar.                        *)

StaleJournal == [NoJournal EXCEPT !.status = "unfinished"]

\* What an earlier run of the node may have left of this turn.
LoadedEvents ==
  {evs \in UNION {[1..n -> ToolEvent] : n \in 0..MaxToolEvents} :
     \A i, k \in DOMAIN evs : evs[i].id = evs[k].id => i = k}

LoadedJournals ==
  [status : {"running", "unfinished"}, mine : {TRUE}, attempt : EarlierResumes,
   events : LoadedEvents]

\* The outcomes the client saw before this run, as the loaded journal tells them.
SeenIn(j) == [t \in Tools |->
  IF \E i \in DOMAIN j.events : j.events[i].id = t /\ j.events[i].status \in Outcomes
    THEN CHOOSE o \in Outcomes :
           \E i \in DOMAIN j.events : j.events[i].id = t /\ j.events[i].status = o
    ELSE "none"]

Init ==
  /\ pc = "prep" /\ pending = {} /\ observed = FALSE
  /\ errorResumes = 0 /\ totalResumes = 0 /\ busyResumes = 0 /\ recovery = 0
  /\ fresh = FALSE /\ cancel = FALSE /\ manual = FALSE /\ outcome = "none"
  /\ jobs = [j \in Jobs |-> "none"]
  /\ \/ /\ reason = "none"
        /\ journal = NewJournal
        /\ disk \in {NoJournal, StaleJournal}
     \/ /\ reason = "resume"
        /\ journal \in LoadedJournals
        /\ disk \in {NoJournal, journal}
  /\ seen = SeenIn(journal)

----------------------------------------------------------------------------
(* Streaming an attempt *)

\* The top of run_with_retry's loop: persist(force) and send chat_start.
StartAttempt(resuming) ==
  LET j == IF resuming THEN BeginResume(journal)
                       ELSE [journal EXCEPT !.status = "running"]
  IN  journal' = j /\ disk' = j /\ observed' = FALSE /\ pc' = "streaming"

BeginTurn ==
  /\ pc = "prep"
  /\ StartAttempt(reason = "resume")
  /\ UNCHANGED <<reason, pending, budgets, fresh, cancel, manual, outcome, jobs, seen>>

\* A frame that is no model progress: status, usage, capacity wait.
OtherFrame ==
  /\ pc = "streaming" /\ ~observed
  /\ observed' = TRUE
  /\ UNCHANGED <<pc, reason, journal, disk, pending, budgets, fresh, cancel,
                 manual, outcome, jobs, seen>>

\* Text, reasoning, or the end of a capacity wait: _reset_busy_budget.
Progress ==
  /\ pc = "streaming"
  /\ observed' = TRUE /\ busyResumes' = 0
  /\ UNCHANGED <<pc, reason, journal, disk, pending, errorResumes, totalResumes,
                 recovery, fresh, cancel, manual, outcome, jobs, seen>>

\* _track of a tool request: journaled and saved before the tool runs.
ToolRequest(t) ==
  /\ pc = "streaming" /\ t \notin pending
  /\ pending' = pending \cup {t}
  /\ journal' = [journal EXCEPT !.events = RecordToolRequest(@, t)]
  /\ disk' = journal'
  /\ observed' = TRUE /\ busyResumes' = 0
  /\ UNCHANGED <<pc, reason, errorResumes, totalResumes, recovery, fresh, cancel,
                 manual, outcome, jobs, seen>>

\* _track of a tool result.
ToolResult(t, result) ==
  /\ pc = "streaming" /\ t \in pending
  /\ pending' = pending \ {t}
  /\ journal' = [journal EXCEPT !.events = RecordToolResult(@, t, result)]
  /\ disk' = journal'
  /\ seen' = [seen EXCEPT ![t] = result]
  /\ observed' = TRUE /\ busyResumes' = 0
  /\ UNCHANGED <<pc, reason, errorResumes, totalResumes, recovery, fresh, cancel,
                 manual, outcome, jobs>>

\* A final frame without failure.  The stream settles every local tool first, only
\* a lane whose call was cancelled ends without a result.
AttemptSucceeds ==
  /\ pc = "streaming"
  /\ pending = {} \/ cancel
  /\ pc' = "settled" /\ observed' = TRUE
  /\ UNCHANGED <<reason, journal, disk, pending, budgets, fresh, cancel, manual,
                 outcome, jobs, seen>>

\* The part of the except branch every failure goes through.
SettleFailed(kind) ==
  /\ pc = "streaming"
  /\ pending' = {}
  /\ journal' = [journal EXCEPT !.events = SettlePending(@)]
  /\ observed' = (observed \/ kind \in OnFinal)
  /\ UNCHANGED <<disk, cancel, jobs, seen>>

\* The user asked to stop: the failure is what the cancel caused.
FailCancelled(kind) ==
  /\ cancel
  /\ SettleFailed(kind)
  /\ outcome' = "cancelled" /\ pc' = "closing"
  /\ UNCHANGED <<reason, budgets, fresh, manual>>

FailAndResume(kind) ==
  \E cost \in AttemptCost(kind), delay \in Backoff, windowOver \in BOOLEAN :
    LET spent == recovery + cost
        plan  == Plan(kind, spent, windowOver)
    IN  /\ ~cancel /\ plan # "none"
        /\ SettleFailed(kind)
        /\ totalResumes' = totalResumes + 1
        /\ busyResumes' = IF plan = "busy" THEN busyResumes + 1 ELSE busyResumes
        /\ errorResumes' = IF plan \in {"error", "fresh"} THEN errorResumes + 1
                                                          ELSE errorResumes
        /\ recovery' = IF plan = "error" THEN spent + delay ELSE spent
        /\ fresh' = (fresh \/ plan = "fresh")
        /\ reason' = "resume" /\ pc' = "sleeping"
        /\ UNCHANGED <<manual, outcome>>

FailAndStop(kind) ==
  \E cost \in AttemptCost(kind), windowOver \in BOOLEAN :
    LET spent == recovery + cost
    IN  /\ ~cancel /\ Plan(kind, spent, windowOver) = "none"
        /\ SettleFailed(kind)
        /\ recovery' = spent
        /\ manual' = (kind \in ManuallyResumable)
        /\ outcome' = "failed" /\ pc' = "closing"
        /\ UNCHANGED <<reason, errorResumes, totalResumes, busyResumes, fresh>>

----------------------------------------------------------------------------
(* Between two attempts *)

\* asyncio.sleep(delay) is over.
Wake ==
  /\ pc = "sleeping" /\ pc' = "probing"
  /\ UNCHANGED <<reason, journal, disk, pending, observed, budgets, fresh, cancel,
                 manual, outcome, jobs, seen>>

\* The heartbeat answered, or the probe itself is broken.
Reconnect ==
  /\ pc = "probing" /\ ~cancel
  /\ StartAttempt(TRUE)
  /\ UNCHANGED <<reason, pending, budgets, fresh, cancel, manual, outcome, jobs, seen>>

\* The user cancelled while the node slept or probed.
StopProbing ==
  /\ pc = "probing" /\ cancel
  /\ outcome' = "cancelled" /\ pc' = "closing"
  /\ UNCHANGED <<reason, journal, disk, pending, observed, budgets, fresh, cancel,
                 manual, jobs, seen>>

\* No answer for HEARTBEAT_MAX_WAIT_SECONDS.
GiveUpOffline ==
  /\ pc = "probing"
  /\ outcome' = "failed" /\ manual' = TRUE /\ pc' = "closing"
  /\ UNCHANGED <<reason, journal, disk, pending, observed, budgets, fresh, cancel,
                 jobs, seen>>

----------------------------------------------------------------------------
(* After a final frame: wait_for_background, then the end of the node *)

\* Nothing is listed: the turn is over, and its journal goes.
FinishCompleted ==
  /\ pc = "settled" /\ Listed = {}
  /\ pc' = "ended" /\ outcome' = "completed"
  /\ disk' = NoJournal
  /\ UNCHANGED <<reason, journal, pending, observed, budgets, fresh, cancel, manual,
                 jobs, seen>>

AwaitShells ==
  /\ pc = "settled" /\ Running # {}
  /\ pc' = "awaitbg"
  /\ UNCHANGED <<reason, journal, disk, pending, observed, budgets, fresh, cancel,
                 manual, outcome, jobs, seen>>

\* MUTANT: shells that had to be awaited are not drained.
ShellsFinished_NotAwaited == pc = "settled" /\ Listed # {} /\ Running = {}

\* Every listed shell is finished and drained.
ShellsFinished == pc \in {"settled", "awaitbg"} /\ Listed # {} /\ Running = {}

\* Their output opens a new segment of the turn, on the same budgets.
DeliverOutput ==
  /\ ShellsFinished
  /\ ~cancel /\ \A j \in Listed : jobs[j] = "exited"
  /\ jobs' = [j \in Jobs |-> IF j \in Listed THEN "delivered" ELSE jobs[j]]
  /\ reason' = "none"
  /\ StartAttempt(FALSE)
  /\ UNCHANGED <<pending, budgets, fresh, cancel, manual, outcome, seen>>

\* A cancel, or a shell that died of a signal, ends the turn as cancelled.
StopAfterShells ==
  /\ ShellsFinished
  /\ cancel \/ \E j \in Listed : jobs[j] = "killed"
  /\ jobs' = KillAll(jobs)
  /\ outcome' = "cancelled" /\ pc' = "closing"
  /\ UNCHANGED <<reason, journal, disk, pending, observed, budgets, fresh, cancel,
                 manual, seen>>

\* MUTANT: a refused turn stays resumable.
KeptJournal_Always(j) == j

\* MUTANT: a cancelled turn is not resumable.
KeptJournal_NotCancelled(j) == IF manual THEN j ELSE NoJournal

\* What _close_journal leaves on disk of a turn that did not finish.
KeptJournal(j) == IF outcome = "cancelled" \/ manual THEN j ELSE NoJournal

\* finally: kill_all, then result() and _close_journal.
CloseUnfinished ==
  /\ pc = "closing"
  /\ jobs' = KillAll(jobs)
  /\ journal' = [journal EXCEPT !.events = SettlePending(@), !.status = "unfinished"]
  /\ disk' = KeptJournal(journal')
  /\ pc' = "ended"
  /\ UNCHANGED <<reason, pending, observed, budgets, fresh, cancel, manual, outcome, seen>>

----------------------------------------------------------------------------
(* Cancellation *)

\* agent.acancel: the flag is set, the task still runs.
RequestCancel ==
  /\ pc # "ended" /\ ~cancel
  /\ cancel' = TRUE
  /\ UNCHANGED <<pc, reason, journal, disk, pending, observed, budgets, fresh, manual,
                 outcome, jobs, seen>>

\* broker.cancel_all marks every running shell killed.  The TUI and ACP call it, a
\* headless run does not.
CancelAllShells ==
  /\ cancel /\ Running # {}
  /\ jobs' = [j \in Jobs |-> IF j \in Running THEN "killed" ELSE jobs[j]]
  /\ UNCHANGED <<pc, reason, journal, disk, pending, observed, budgets, fresh, cancel,
                 manual, outcome, seen>>

\* CancelledError at an await inside the try: mark_interrupted.  Only the wait
\* for background shells kills them on the way out.
Interrupt ==
  /\ pc \in Awaits
  /\ journal' = [journal EXCEPT !.events = SettlePending(@), !.status = "unfinished"]
  /\ disk' = journal'
  /\ jobs' = IF pc = "awaitbg" THEN KillAll(jobs) ELSE jobs
  /\ outcome' = "interrupted" /\ pc' = "ended"
  /\ UNCHANGED <<reason, pending, observed, budgets, fresh, cancel, manual, seen>>

\* CancelledError inside kill_all of the finally clause: result() never runs.
InterruptClosing ==
  /\ pc = "closing" /\ Running # {}
  /\ \E killed \in (SUBSET Running) \ {{}} :
       jobs' = [j \in Jobs |-> IF j \in killed THEN "killed" ELSE jobs[j]]
  /\ outcome' = "torn" /\ pc' = "ended"
  /\ UNCHANGED <<reason, journal, disk, pending, observed, budgets, fresh, cancel,
                 manual, seen>>

----------------------------------------------------------------------------
(* Shells *)

\* A local tool call moves its command to the background, also when its attempt
\* dropped meanwhile: a lane goes on (BackgroundShell).
JobStarts(j) ==
  /\ pc # "ended" /\ journal.events # <<>> /\ jobs[j] = "none"
  /\ jobs' = [jobs EXCEPT ![j] = "running"]
  /\ UNCHANGED <<pc, reason, journal, disk, pending, observed, budgets, fresh, cancel,
                 manual, outcome, seen>>

\* _watch: a negative return code (a signal) is recorded as killed.
JobExits(j, how) ==
  /\ pc # "ended" /\ jobs[j] = "running"
  /\ jobs' = [jobs EXCEPT ![j] = how]
  /\ UNCHANGED <<pc, reason, journal, disk, pending, observed, budgets, fresh, cancel,
                 manual, outcome, seen>>

----------------------------------------------------------------------------

AttemptEnds ==
  \/ AttemptSucceeds
  \/ \E kind \in Failures : FailCancelled(kind) \/ FailAndResume(kind) \/ FailAndStop(kind)

ProbeEnds == Reconnect \/ StopProbing \/ GiveUpOffline

AfterFinal == FinishCompleted \/ AwaitShells \/ DeliverOutput \/ StopAfterShells

Ended == pc = "ended" /\ UNCHANGED vars

Next ==
  \/ BeginTurn \/ OtherFrame \/ Progress
  \/ \E t \in Tools : ToolRequest(t) \/ \E result \in Outcomes : ToolResult(t, result)
  \/ AttemptEnds \/ Wake \/ ProbeEnds \/ AfterFinal \/ CloseUnfinished
  \/ RequestCancel \/ CancelAllShells \/ Interrupt \/ InterruptClosing
  \/ \E j \in Jobs : JobStarts(j) \/ \E how \in {"exited", "killed"} : JobExits(j, how)
  \/ Ended

Spec == Init /\ [][Next]_vars

\* The node's own steps happen; the stream ends every attempt (a final frame,
\* a close, or the 60 s / 330 s frame timeouts), the heartbeat wait is bounded
\* by 30 minutes.  A shell that never exits is the one thing that may hold a
\* turn for ever: the code waits for it without a timeout.
ProgramFairness ==
  /\ WF_vars(BeginTurn) /\ WF_vars(AttemptEnds) /\ WF_vars(Wake)
  /\ WF_vars(ProbeEnds) /\ WF_vars(AfterFinal) /\ WF_vars(CloseUnfinished)

ShellFairness == \A j \in Jobs : WF_vars(\E how \in {"exited", "killed"} : JobExits(j, how))

FairSpec == Spec /\ ProgramFairness /\ ShellFairness

----------------------------------------------------------------------------
(* Properties *)

TypeOK ==
  /\ pc \in PCs /\ reason \in {"none", "resume"}
  /\ journal \in Journal /\ disk \in Journal
  /\ pending \subseteq Tools /\ observed \in BOOLEAN
  /\ errorResumes \in Nat /\ totalResumes \in Nat /\ busyResumes \in Nat
  /\ recovery \in Nat /\ fresh \in BOOLEAN /\ cancel \in BOOLEAN /\ manual \in BOOLEAN
  /\ outcome \in Endings
  /\ jobs \in [Jobs -> JobStates]
  /\ seen \in [Tools -> Outcomes \cup {"none"}]

\* No sequence of failures, of any mix of kinds, makes the client resume a turn
\* by itself more than MAX_TOTAL_RESUMES times, more than MAX_AUTO_RESUMES times
\* after errors, or more than PROVIDER_BUSY_MAX_RESUMES times in a row while the
\* provider is busy; the kinds share the total and nothing else (_plan_resume).
WithinBudgets ==
  /\ totalResumes <= MaxTotal
  /\ errorResumes <= MaxAuto
  /\ busyResumes <= BusyMax
  /\ errorResumes + busyResumes <= totalResumes

\* A kill at any moment after the first attempt started finds on disk exactly the
\* tool outcomes the client saw, in this run of the node or an earlier one, so a
\* resume never asks the server to run a finished call again and never passes on an
\* outcome nobody saw (persist(force) in _track, settle_pending, begin_resume).
\* Holds while the turn has at most MAX_TOOL_EVENTS calls.
OutcomesSurviveAKill ==
  disk.mine => AllSeenOutcomes(disk, seen) /\ OnlySeenOutcomes(disk, seen)

\* How the turn ended decides what can be resumed: a completed or finally refused
\* turn leaves no journal, any other leaves its own, with no call left pending
\* unless the cleanup itself was cut short (_close_journal, mark_interrupted).  A
\* completed turn has fed the output of every shell it moved to the background into
\* the conversation (wait_for_background).
EndingLeavesNothingOpen ==
  pc = "ended" =>
    /\ outcome = "completed" =>
         disk = NoJournal /\ \A j \in Jobs : jobs[j] \in {"none", "delivered"}
    /\ outcome = "failed" => (IF manual THEN disk = journal ELSE disk = NoJournal)
    /\ outcome \in {"cancelled", "interrupted", "torn"} => disk.mine
    /\ disk.status = "unfinished" =>
         \A i \in DOMAIN disk.events : disk.events[i].status # "pending"

\* Every turn ends, whatever the server does.
Terminates == <>(pc = "ended")

\* The same turn as its promise about the journal on disk.
Phase ==
  IF pc # "ended" THEN "live"
  ELSE IF outcome = "cancelled" \/ (outcome = "failed" /\ manual) THEN "paused"
  ELSE IF outcome = "failed" THEN "dropped"
  ELSE outcome

DiskPhase == IF disk.status # "none" /\ ~disk.mine THEN "stale" ELSE disk.status

Promise == INSTANCE LogicalTurn WITH phase <- Phase, disk <- DiskPhase

ImplementsLogicalTurn == Promise!Spec

=============================================================================
