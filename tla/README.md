# Copper Pilot CLI: models, checks and proofs

`copper-pilot` is a command line client for a hosted PCB-design agent. The hosted
agent streams its answer over a websocket and asks the client to run tools (read,
write, search, shell) on the user's machine. Connections drop, providers are busy,
the user presses Ctrl-C, the process is killed, shells outlive the request that
started them, several processes share one database. This directory holds TLA+ modules
of the parts of the client that have to get those cases right, the TLC configurations
that check them on small instances, and TLAPS proofs of the results that should hold
for every instance.

Paths below are relative to `src/copper_pilot_cli/` of the repository unless they
start with `docs/`.

## 1. The system

| Component | State it keeps | Operations | Talks to | Modules |
|---|---|---|---|---|
| Turn retry loop, `copper_graph.py:_TurnRun` | attempt, pending tools, resume budgets, cancel flag | `run_with_retry`, `consume`, `_track`, `_plan_resume`, `wait_for_background`, `_close_journal` | stream, journal, background manager, front end | `TurnRun`, `LogicalTurn` |
| Turn journal, `turn_journal.py` | tool events, resume attempt, streamed text; a sidecar per thread | `record_tool_request/result`, `settle_pending`, `begin_resume`, `JournalStore.save/load/delete` | retry loop | `TurnJournal`, `TurnDurability`, `FrameLimits` |
| Hosted graph node, `copper_graph.py:hosted_node` | checkpoint channels | resume or supersede a turn, run it, return its messages | LangGraph's checkpointer (external), retry loop | `TurnDurability`, `Transcript`, `ChatContext` |
| Chat stream, `copper_protocol.py` | inbox, lanes of tool requests, timeouts | `stream`, lane workers, batches, `make_chat_start` | websocket (external), broker | `ChatStream`, `FrameLimits` |
| Tool broker, `deepagents_tools.py` | calls in flight, result cache, allow-always answers, approvals | `execute`, `begin_turn`, `cancel_all`, `_authorized` | stream, shells, front ends | `ChatStream`, `ToolApproval`, `FrameLimits` |
| Tool batch scheduler, `tool_batch.py` | a task per member, read semaphore, outcomes | `classify_tool`, `plan_dependencies`, `run_tool_batch` | stream | `ToolBatch` |
| Background shells, `copper_background.py` | processes, bounded buffers, watchers | `run_shell`, `adopt`, `_watch`, `wait_all`, `drain`, `kill_all` | operating system (external), retry loop, broker | `BackgroundShell` |
| Sessions, `sessions.py` | sqlite checkpoints, writes, message counts, locks | save, prune, delete, compact-db, list | checkpointer, front ends | `SessionStore`, `MessageFold` |
| Event log, `checkpoint_events.py` | the replay log stored with a thread | join, replace, rewrite, replay | node, TUI, compact-db | `EventGate`, `ReplayLog` |
| Chat context, `chat_context.py` | compaction, measured size, facts, answers | thresholds, cut, merge, `session_state` | node | `ChatContext` |
| Terminal, `copper_app.py`, `copper_widgets.py`, `copper_presentation.py` | turn task, compactor, status bar, cards, composer | submit, `/compact`, `/clear`, Ctrl+C, approve, hydrate, complete | adapter, broker | `TuiApp`, `Transcript`, `ChatSettings`, `Composer` |
| Side questions, `copper_btw.py` | a task and a socket per question | ask, timeout, trim | terminal | `SideQuestions` |
| ACP server, `copper_acp.py` | `AcpSession`: busy, turn task, cancel flag | prompt, cancel, load, local commands, permission requests | client (external), graph, broker | `AcpServer`, `ToolApproval`, `Transcript` |
| Headless and MCP, `copper_main.py`, `copper_mcp.py` | none beyond a turn | `_headless`, `collect_turn` | graph | `FrontEnds` |
| Account, models, updates, preferences, projects | small files in the state directory | login, refresh, notices, remember a project | network (external) | `LocalState`, `ChatSettings` |
| Validate runner, `validate/runner.py` | results, waves, semaphore, halt, usage limit, interrupt | `run`, `_run_stage`, `_run_agent_checks`, `interrupt`, `exit_code` | reviewer, configuration | `ValidateRun` |
| Reviews and cache, `validate/reviewer.py`, `runner.py`, `report.py` | findings of a review, answers cached across runs, snapshot | repair, consensus, grounding, next actions, cache | hosted agent | `Review` |

The adapter (`langchain.py`), shell and file safety, hooks, status and diagnostics and the
vendored runtime have no module (section 5). `PROJECT.json` lists every component.

### What is hard, and what makes each part correct

* **Retry loop.** Failures of eight kinds meet four budgets that model output partly
  resets; a cancel may land at any await; shells may end or start while the node
  decides that the turn is over. *Correct means*: budgets hold under every sequence,
  an outcome the user's machine produced is never forgotten or invented, the way a
  turn ends decides what journal is on disk, and every turn ends.
* **Journal, node and checkpoint.** Two copies of the journal of different ages, two
  writes that are not atomic, kills between any two steps. *Correct means*: an
  unfinished turn can be resumed, an ended one cannot, a resume knows its calls and
  sends the request of its own turn.
* **Messages of a turn, and those who show them.** Text, batches, results, drops and
  resumes come in any order, and five parties keep the turn: the node, the terminal, an
  ACP client, the headless command, MCP. *Correct means*: every committed call has its
  result behind it before the next message of the model, what is shown live is shown after
  a reload, a failure is a failure everywhere.
* **Chat stream.** A consumer that handles frames in order, lanes that outlive the attempt
  that started them, an execution shared by everyone who asks for the same call. *Correct
  means*: an attempt that ends has an outcome for all it asked for, no call runs twice, an
  agent's requests run in order, no attempt waits for itself.
* **Tool batches and shells.** Reads overlap, conflicting members do not; a process, a pipe a
  grandchild may hold, a reader with a cap, `kill_all`, and a turn that waits without a
  timeout. *Correct means*: the order of the request, no deadlock; what is reported is whole,
  what is killed is dead, the wait ends.
* **Sessions.** Processes that draw checkpoint ids before they commit rows, prunes by count and by
  bytes that delete a range of ids, two locks, a list with a cache. *Correct means*: the newest
  checkpoint of a thread and the prompt of its first are never pruned, what is read back is what
  was written.
* **Chat context.** A summary stands for the beginning of a transcript that kills, cancels and
  resumes lengthen. *Correct means*: every message is sent or summarised, attempts of a
  turn send the same.
* **Front ends.** One event loop with tasks nobody awaits. *Correct means*: whatever runs can
  be cancelled, an idle screen is settled, a prompt is answered with the truth about its
  turn, nothing runs that nobody approved.
* **Validate.** Waves of hard and soft prerequisites, two gates, concurrent reviews that are
  repaired, merged and cached. *Correct means*: no check runs on prerequisites that did not
  hold, exit code 0 is only said of a finished run, an answer is as bad as its findings.

The full list, each at its line, is under `hazards` in `PROJECT.json`.

## 2. Modules

An `MC...` module composes modules for TLC. Where two of them share no state (a turn sees an
approval only as a wait), a behaviour moves one part, chosen at the start: the parts are
checked side by side and not multiplied. Where they share state, they are in one module
(`Transcript` keeps what node, terminal and client make of one stream; `ChatStream` has
consumer, lanes and broker; `SessionStore` all processes).

### A turn
* `TurnJournal`: the journal as pure operators: the bounded event list (`Newest`,
  `RecordToolRequest`, `RecordToolResult`), `SettlePending`, `BeginResume`.
* `TurnRun`, over it: one run of the node over one logical turn. `pc` is where the coroutine
  awaits: `prep`, `streaming`, `sleeping` (back-off), `probing` (heartbeat), `awaitbg`
  (`wait_all`), `settled` and `closing` (code between the loop and the `finally`), `ended`.
  Everything between two awaits is one action. `BeginTurn`, `Reconnect` and `DeliverOutput` share
  `StartAttempt`; a failure is one of `FailCancelled`, `FailAndResume`, `FailAndStop`; the
  eight `Failures` are those `classify_error`, `_classify_protocol_error` and `consume`
  produce, as far as `_plan_resume` and `_MANUALLY_RESUMABLE` tell them apart. `seen` is a
  history variable: the outcome of each call the client has really produced.
* `LogicalTurn`: what a turn promises, in two variables: its phase and what the sidecar holds.
  `TurnRun` implements it under `Phase`, `DiskPhase`.
* `TurnDurability`: the node seen from the disk, over several turns: `ckpt`, `sidecar`, and a
  process that may be killed between any two steps. `ResumeTurn`, `StartTurn`, `RefuseResume`
  are the head of `hosted_node`; `FirstPersist`, `StreamText`, `RunTool` the saves of a run;
  `Ends` is `_close_journal`; `Commit` is LangGraph writing the node's update. One assumption
  about LangGraph: the input of a run is committed before the node starts.
* `Transcript`, over `EventGate`: one turn as the node's messages, the terminal's cards and the
  ACP client's updates, from the same frames; then committed and drawn again (`Hydrated`,
  `Replayed`). A text is the sequence of its chunks. `FrontEnds` folds the recorded events into
  the exit code and answer of `_headless` and the payload of `collect_turn`.
* `FrameLimits`: what is left out where a message would be too large: the ladder of
  `make_chat_start`, `resume_payload`, the pages of a file. Sizes are small numbers.
* `LocalState`: the files of one user under two processes: preferences and update state in
  `config.json`, recent projects under their lock, the credential with login, logout and
  revocation, the model catalog that callers of one process share.
* Run as `MCTurnRecord` (all but `TurnRun`).

### The wire and the machine
* `ChatStream`, run as `MCChatStream`: `phase` is what `_stream_once` awaits (`reading`,
  `batch`, `final`, `dropped`, then `flushed` or `failed`). `lanes` and `task` are the chains
  `submit_to_lane` builds, per attempt, because an attempt that fails leaves its chains
  behind. `exec`, `creator`, `results` are the broker's `_inflight` and `_results`. The server
  may send any request, repeat a call in a later attempt and close at any time.
  `EveryCallIsSettled` is what `TurnRun` presumes of a final frame.
* `ToolBatch`: `plans` is `classify_tool` of each request; `task[i]` the state of `run_one`;
  `TakeSlot` the read semaphore, `Close` the `finally` of the generator.
* `BackgroundShell`: per command its process, pipe, reader, call and record; the turn waits,
  delivers or kills, one process group after the other, as the code awaits each. A command may
  write more than the cap (`MayFlood`), leave a child on its pipe (`MayDetach`) or wait on
  its lane (`MayQueue`). Both run as `MCTools`.

### What is kept of a chat (`MCThreadStore`)
* `SessionStore`: rows of checkpoints, the ids drawn for rows that are not yet committed, prunes
  by count and by size as the range deletes they are, the shared and the exclusive lock
  (`Posix`), `threads delete`, `compact-db`, the list with its message-count cache.
* `MessageFold`: the message count of a thread, by one `add_messages` pass where `sessions.py`
  judges it exact and by a fold of one write at a time where not.
* `EventGate`, `ReplayLog`: the gate of `TurnState.apply`; the stored log, joined by
  `events_update`, rewritten by compact-db, read from older versions, replayed.
* `ChatContext`: a transcript whose messages are positions, the compaction that stands for its
  beginning, the measured size, the facts of interrupted turns, the answers a turn sends.

### Front ends
* `TuiApp`, `SideQuestions` (`MCTuiApp`): tasks by number, each with its place between two
  awaits and a pending `CancelledError`; the submission worker, the command line message,
  `/compact`, Ctrl+C, approvals, `/clear`. `/btw` questions beside them.
* `AcpServer`: the handlers of prompt and cancel as tasks (`PromptStep`, `CancelStep`), the turn
  task they share, local commands, resumes, the context meter of the client, load.
* `ToolApproval`: the broker's decision for two calls under every mode, host, queue, answer,
  allow-always and timeout; `Hosts` are those who install a callback.
* `ChatSettings`: mode, effort, model and skills on the status bar, in the agent, in the checkpoint and
  in the journal, across dialogs, chats and turns.
* `Composer`: keys against the messages they cause, completions and their index, history, the
  approval menu, the widget an answer is drawn in. The last four run as `MCServers`.

### Validate (`MCValidateRun`)
* `ValidateRun`: `OpenWave` computes the next wave from `requires` and `after`, blocks what may
  not run and starts the builtins; `CheckEnds`, the reviews and their semaphore,
  `CloseWave`, `CloseStage` with the gate, `Interrupt`, `CheckRaises`; `ExitCode`, `Verdict`.
* `Review`: how the answer of an agent check comes about: repairs, consensus, grounding, status,
  next actions; and two runs with the cache, the snapshot and edits between them.

## 3. Runs

Eight runs pass, four show a statement of a doc or comment that the code violates.

| Run (module) | Question | Bounds, and why they suffice |
|---|---|---|
| `TurnRun` | budgets, journal against history, ending against disk, refinement of `LogicalTurn`, termination | two tools, two events, one shell; budgets 2, 3, 2 and a window of 3 units let every budget be exhausted alone and in combination |
| `TurnRecord` (`MCTurnRecord`) | what the next session can resume; what a turn commits and shows; the files of a user; what is left out of a message | two turns, three runs (a turn, its interrupted resume, a superseding turn) with kills anywhere; two call ids, one worker, five frames, two attempts (a batch, a result, a drop, the repeated call and its result); two processes, three projects for two places, two settings, two logins; two rungs of the ladder, chats of up to three messages, results and lines that fit, just do not, or never will |
| `Tools` (`MCTools`) | order, completion and end of a batch; reports, kills and the end of the wait | three members (a conflict across a third one), two paths, two slots; two commands (one killed while the other is awaited or registered), two turns |
| `ChatStream` (`MCChatStream`) | settling, no second execution, lane order, end of an attempt | three calls (a lane of three, or two lanes and a batch), two agents, two attempts (the second repeats calls of the first), three requests; `CallsOf` and `BatchCalls` leave out instances that differ by the name of a call |
| `ThreadStore` (`MCThreadStore`) | what a prune keeps, what is read back, what a turn sends of the chat | two runtimes beside the commands and the list, `Posix = FALSE` (no lock holds anybody back), keep 1, budget 2 with every third checkpoint above it, five ids; logs of three events of two turns; three writes of two ids; a chat of three turns and four messages |
| `TuiApp` (`MCTuiApp`) | a live task can be cancelled, an idle screen is settled, Ctrl+C ends what it was pressed for, side questions end | three tasks (one that ends, its successor, the one a third submission starts); three side questions for two places |
| `Servers` (`MCServers`) | answers of prompts, approvals, settings, composer | two prompts and a cancel (before, between, after); two calls on every host and mode, so that one waits behind the other's prompt; two chats, two folders, three choices; three keys, one move, three pieces of text |
| `ValidateRun` (`MCValidateRun`) | prerequisites, gates, exit code, end; consensus, next actions, cache | every graph of three checks in two stages with hard and soft edges, gates, advisory, ungated and disabled checks; two agent checks with one and three reviews, findings at a real and an invented locator, two repairs; two runs with the cache, one edit per kind, one change by a reviewer |
| `AnswersLost` (`ChatContext`) | disagreement 7 | three turns |
| `TuiCancelCrash` (`TuiApp`) | disagreement 8 | two tasks |
| `ChatStreamLate` (`MCChatStream`) | disagreement 5 | one attempt |
| `FrameNumbers` (`Transcript`) | disagreement 9 | one batch frame |

`Focus` in `MCTurnRecord` and `MCThreadStore` is a constraint on what is explored
together (at most one of the small files moves; a command of maintenance beside one writer);
`Symmetry` in `MCThreadStore` permutes processes and turn ids, which are interchangeable; that run has
no liveness property. Deadlock checking is on where the system does not legitimately stop; elsewhere
the user or the server may stop asking (`CHECK_DEADLOCK FALSE`), and what must end is a
liveness property.

Several properties are conjunctions of named parts, so that a run asks one question per
hazard: `NothingRunsOnAFailure` is `PrerequisitesHold` and `GateStops`, `TerminalIsFaithful` has
four parts, and so on; the parts are commented where they are defined.

### Fairness
* `TurnRun`: weak fairness of the node's own steps, of the end of each attempt and of
  the heartbeat wait. An attempt ends because the wait for a frame is bounded (60 s for the
  first, 330 s after that) and a stream that goes on meets the frame and byte budgets;
  `COPPER_PILOT_IDLE_TIMEOUT_SECONDS=0` removes the bound and with it the property. The
  heartbeat wait is bounded by `HEARTBEAT_MAX_WAIT_SECONDS`. `ShellFairness` is stated apart:
  the code has no timeout on `wait_all`, so a shell that never exits does hold the turn.
* `ChatStream`: asyncio runs every ready task, tools end, the wait for a frame is bounded
  as above (`AttemptFails`), and the task of a turn whose calls were cancelled is cancelled
  too, as the front ends do (`copper_acp.py:987-1000`, `copper_app.py:1951-1964`).
* `ToolBatch`: asyncio runs every ready task (weak); the read semaphore wakes its waiters in
  order (strong fairness of `TakeSlot`); handlers end.
* `BackgroundShell`: reader, watcher and manager are scheduled; a command that *can* go on
  ends. Commands blocked on a full pipe are given no fairness: that is disagreement 3.
* `TuiApp`: ready tasks run, and a task that has been cancelled is woken with its
  `CancelledError`. No fairness of the user and none of a stream nobody cancelled.
* `SideQuestions`: ready tasks run, and the timeout of a question fires.
* `AcpServer`: the handlers and the turn task of each prompt run. No fairness of the client; a
  turn is only said to end when it has been cancelled.
* `ValidateRun`: weak fairness of the run's steps. A review is bounded by
  `reviewer.timeout_s`.

### Disagreements between docs, comments and code

Four are runs of their own. The others are stated in the modules as properties that no
run checks; adding the name to the INVARIANTs or PROPERTIES of the configuration given
makes TLC print the trace.

| # | Property (configuration) | The repository says | The code does |
|---|---|---|---|
| 1 | `PartialWorkStays` (`TurnRecord.cfg`) | `docs/cli.md:458-459`: partial work of an unfinished turn stays in the transcript | after a kill it is only in the journal, which the next turn replaces |
| 2 | `SupersededIsNotResumed` (`TurnRecord.cfg`) | `copper_graph.py:1629-1630`: a superseded turn is no longer resumable | a kill between sidecar deletion (`:1264`) and commit offers it again |
| 3 | `CappedCommandEnds` (`Tools.cfg`) | `docs/cli.md:474-477`: output is capped, commands are awaited | at the 5 MB cap nobody reads the pipe; command and turn wait for ever |
| 4 | `NothingRunsAfterCancel` (`Tools.cfg`) | `docs/cli.md:477`: the process tree is killed on cancel | a request queued on its lane starts after the cancel |
| 5 | `LateResultIsJournaled` (run `ChatStreamLate`) | `docs/cli.md:444-445`: a tool that finishes after its socket closed still lands in the journal | when the client closes the socket itself (idle timeout, error frame) the lanes are not awaited |
| 6 | `ErrorNeverPasses` (`ValidateRun.cfg`) | `docs/validate.md:101-102`, `:45` | an advisory check that ends in ERROR leaves verdict PASS and exit code 0 |
| 7 | `EveryAnswerIsSent` (run `AnswersLost`) | see the finding in `PROJECT.json` | an answer given in a turn that was interrupted and resumed is not sent later |
| 8 | `CancelDoesNotCrash` (run `TuiCancelCrash`) | the cancel test of `tests/test_tui.py` | the turn ends while Ctrl+C awaits the cancel frame; the handler calls `cancel` on None |
| 9 | `StreamIsDrawn` (run `FrameNumbers`) | `copper_presentation.py:153` | events of one frame share a number; all but the first are dropped (`:166`) |
| 10 | `CancelHitsOnlyItsTurn` (`AcpCancelNext.cfg`) | `docs/cli.md:226` | a cancel that awaits may cancel the turn of the next prompt (`copper_acp.py:999`) |
| 11 | `QuestionsBeatTheWindow` (`AcpQuestionWindow.cfg`) | the comment at `copper_acp.py:1673-1678` | the timeout starts only when the prompt's turn in the queue comes (`deepagents_tools.py:594-596`) |
| 12 | `RequestsStayInTheirChat` (`TuiWrongChat.cfg`) | a turn belongs to its chat | another chat opened mid-turn changes the conversation id the turn's next request uses |
| 13 | `MeasuredIsWhatIsSent` (`CompactionLost.cfg`) | `copper_graph.py:1629-1631` | a kill after the pre-turn compaction keeps its small size in the journal and loses the summary |
| 14 | `WorstSeverityWins` (`ValidateRun.cfg`) | `docs/validate.md:168-170` | of two findings of one review at a locator the first is kept, also when the second is worse (`reviewer.py:440-441`) |
| 15 | `CachedFitsItsKey` (`ValidateRun.cfg` with `Editing = TRUE`) | `docs/validate.md:177-180` | the key hashes the files at check time (`runner.py:423`), the review saw the snapshot of the start |
| 16 | `SnapshotsAreWhole` (`ValidateRun.cfg`) | `docs/validate.md:165-166` | each check hashes the snapshot again when it starts (`runner.py:533`, `:553`), so a change by an earlier check's reviewer is no error of the checks after it |
| 17 | `StopIsActionable` (`ValidateRun.cfg`) | the report of a failed run lists next actions | findings without grounding stop the run and give no action (`report.py:64-81`) |
| 18 | `ResumedHistoryIsTheSame` (`TurnRecord.cfg`) | `copper_protocol.py:510-511`: a resumed attempt resends an identical `session_state` | the resume payload counts into the frame, so a stricter rung is taken |
| 19 | `EffortFlagIsUsed` (`Servers.cfg`) | `docs/cli.md:36`, `:50`, `README.md:88-89` | `_hydrate` overwrites the effort with that of the chat (`copper_app.py:498-502`) |
| 20 | `SkillsOfTheFolder` (`Servers.cfg`) | skills of the project folder | a folder without skills, or a request that fails, leaves the manifest of the folder before (`copper_app.py:558`, `:569`) |

Met while reading, and stated nowhere: `begin_turn` raises while a lane of an earlier turn
still runs a tool, so that the message after an interrupted turn fails although
`docs/cli.md:458` says it starts a new turn; the total resume cap starts anew with each manual
resume; `docs/cli.md:451-456` lets "continue ..." resume while the code only accepts the bare
words (`turn_journal.py:98`); checks of the wave in which the usage limit appears end in ERROR and
not SKIPPED (`docs/validate.md:173-176`); a run with `--skip` has verdict INCOMPLETE and exit
code 0; two ACP prompts may both pass the busy check (`OneTurnAtATime` with `Overlap = TRUE`);
a cancel during an ACP local command is ignored; two MCP calls on one thread run at once;
two processes that save preferences at once lose one setting; logging out leaves the client's
key in memory (`copper_app.py:1341-1344`); refused submissions overwrite the workflow of the
running turn (`copper_app.py:785-811`); a headless turn that ends on a bare tool result prints
the tool's output as the answer (`copper_main.py:646-660`).

## 4. Proofs

Each proof module EXTENDS the modules its theorems are about. A theorem holds for every value
of the constants that the assumptions allow: any number of tools, calls, tasks, prompts,
processes, threads, turns. The bounds that keep TLC's instances small (`MaxTurns`, `MaxFrames`,
...) stay constants of the modules, so that "any number" means "any bound". Every inductive
invariant was checked by TLC on an instance before it was proved.

Several components fold over a sequence (messages into cards, events into an exit code, writes into
ids, findings into a consensus). `Folding` has the induction this needs: the recursive function
under `FoldLeft` written out, and theorems about it (`FoldAppend`, `FoldConcat`, `FoldType`,
`FoldStepwise`) that are proved once for an arbitrary `Op`. A proof module instantiates it for each
operator it folds with (`Joins == INSTANCE Folding WITH Op <- Joining`), shows that the definition
of the model is that fold, and cites the theorems for it. Induction itself is the well-foundedness
of `<` on the naturals applied to a set (`NatSet`).

| Module | Theorem (property of a run) | Inductive invariant, and why it is needed |
|---|---|---|
| `TurnRunProofs` | `TypeCorrect` | `TypeOK`, with the lemmas that the journal operators map `Journal` to `Journal` |
| | `BudgetsHold` (`WithinBudgets`) | inductive with `TypeOK`: the guard of `Plan` bounds the one counter it raises |
| | `KeepsPromise` (`ImplementsLogicalTurn`) | `JournalOwned`: from the first attempt to the end both copies of the journal are this turn's and say "running". Without it `Complete` of the abstraction could start from a stale file |
| | `EndingIsClean` (`EndingLeavesNothingOpen`) | `JournalOwned` with `ShellsKept` (before the cleanup no shell is lost or killed): the ending is decided several awaits before the file is written, and meanwhile shells end and Ctrl-C may come |
| | `OutcomesAreKept` (`OutcomesSurviveAKill`) | `OutcomesJournaled`: the ids of the journal are distinct, so with `FewCalls` nothing is evicted, and memory and disk both list exactly the outcomes seen |
| `ChatStreamProofs` | `TypeCorrect` | `RunsCounted` (what runs has been counted) and `AttemptsLeft` |
| | `OrderKept` (`LanesKeepOrder`) | `Chain`: a task that has left `waiting` has nothing before it that goes on. A task looks at its predecessor only, so the property needs the chain, also across cancelled members |
| | `NeverTwice` (`NeverRunsTwice`) | `Once`: a call counts once exactly if it has a result, runs or has returned |
| | `CallsStayOrderly` (`CallsAreOrderly`) | both |
| | `CallsAreSettled` (`EveryCallIsSettled`) | `PendingOpen` (each pending call has a task of this attempt that will report it) with `Chain`: `settle_lanes` awaits the newest task of each lane, and the chain says that the others are then over |
| `SchedulerProofs`: tools | `BatchTypeCorrect`, `OrderHolds` (`ConflictsRunInOrder`), `CapHolds` (`ReadsAreCapped`), `CloseAwaitsHandlers` (`NothingRunsAfterClose`), `WaitsAreNeeded` (`NoNeedlessWait`) | a member that started has its dependencies finished; the argument for order is that the newest exclusive member before `j` already waited for everything older, so waiting for it alone is enough |
| | `EndsAreReported` (`EveryEndIsReported`) | inductive with the types, once it also says that nothing is both queued and taken |
| | `ShellTypeCorrect`, `ReportsHold` (`ReportsAreTrue`) | `ShellInv`: what call, reader and record of a command say of each other (`CommandOK`), because a report is written several awaits after the exit it reports |
| `SchedulerProofs`: validate | `TypeCorrect`, `FailuresAlwaysStop` (`NothingRunsOnAFailure`), `ResultsStay` (`ResultsAreFinal`) | `Schedule` (remaining checks have no result, earlier ones have), `Ordered` (what a running check is ordered after has its result), `Halted` (a blocking failure has halted the run or its gate is still ahead). The property is not inductive: a gate is evaluated long after the failure that closes it |
| | `SuccessIsComplete` (`SuccessMeansAllRan`) | `Accounted`: a run that ended without an interrupt has a result for every selected check, none of them is "--skip", and a check that does not block never has FAIL; the first part is inductive because the last stage only ends when nothing remains |
| | `AgentAnswersAreSound` (`AnswersAreSound`) | `ReviewInv` (each answer is the consensus of its successful runs, with the status that follows) and `CacheInv` (keys, snapshots and answers of one run are of the same files). That the consensus is what a majority named is a double fold, over runs and over the findings of a run: it counts each locator as often as there are runs that name it |
| `TurnRecordProofs` | `DiskTypeCorrect`, `UnfinishedTurnsAreKept` (`UnfinishedTurnIsKept`), `ResumesAreFaithful` (`ResumeIsFaithful`) | `DurableInv`: `Records` (every copy of a journal, in sidecar, checkpoint, run or result, points at the request that opened its turn, and that request is still a prefix of the transcript, which only grows) and `Fates` (which copies may exist for a turn of each fate, and that they know what ran). `Fates` is only claimed until a kill between sidecar deletion and commit (`lostCommit`), where the ended turn does come back: disagreement 2 |
| | `FilesServeEveryProcess` (`FilesAreSound`), with `StartsAreSound` and `SavesSurvive` for its parts | `LocalInv`: a key is at most `issued` and what a process knew to be revoked is revoked still, so that a new key is not among it; whoever saves, saves the user's theme and is alone unless `contended`; the lock has one holder, who has read what is on file. `RecentsInv`: the rows on file are the folders that were opened, each at its last place, cut to `Limit`; a row that is cut does not come back, because whatever pushed it out is newer |
| | `LeftOutIsTold` (`LeftOutIsSaid`) | `FrameInv`: what every `chat_start` so far tells of the chat and of the results it leaves out, and that the pages read so far are a beginning of the file. `bound_context` takes the largest number of messages that fits, and the replaced results are the shortest beginning that brings the sum under the limit |
| | `CommittedTurns` (`CommittedTurnIsWhole`) | `TurnInv`: while the turn runs, `NodeSound` (the calls of the messages that no later message answers are those in `pending`, each asked for once since) and the text so far is what was streamed; `NodeWhole` at the end, when `settle_pending_tools` has added a result for each. A call may be asked for again after a drop, so the property is about the next message of a call and not about the set of its messages |
| | `FrontEndsTellOneStory` (`FrontEndsAgree`) | `TaleInv` with `TurnInv`: exit code, payload and screen are three folds of the same events, and each step keeps what they say of the end, the workers and the text since the last request equal |
| | `TurnIsShownAgain` (`TranscriptIsFaithful`) | `FaithInv`: until the turn is closed `Together` holds: `Shared` (the screen and the ACP client have the text that was streamed, and the recorded events, drawn again on any screen of messages, follow the live screen in thoughts, workers and errors: `AllFollow`) and `NodeAgrees` (the cards that the node's messages would draw are matched, in order, with the live cards of the same calls; a matched card has the same status, or runs on the screen and is told as an error, and what the client has seen end is sent again as it ended). The property compares two screens that were built from different data in different orders and says nothing before the end, so every step before has to keep the matching, and the steps that end and close the turn have to bring both to the same statuses: the node by the errors of `settle_pending_tools`, the screen by `_finalize_turn`. A call asked for twice has two cards and the later one is the one that changes |
| `ThreadStoreProofs` | `ContextTypeCorrect`, `HistoryReachesTheModel` (`HistoryOrSummary`), `AnswersReachTheModel` (`SupersededAnswersAreSent`), `AttemptsRepeat` (`AttemptsSendTheSame`) | `ChatInv`: `Control` (what a run may hold at each step), `Places` (messages are positions, turns in order), `Pins` (the journal pins what the first attempt sent), `Cuts` (the cut and the covered positions of every stored, live or pinned compaction meet), `Answers` (where an answer waits to be sent: journal, facts or transcript). A compaction reaches a request through three stores of different ages, so each needs its clause |
| | `StoreTypeCorrect`, `RetentionHolds` (`RetentionIsSound`) | `Retention`: the oldest and the newest `Keep` of what was made are still rows, and a command or a process has only seen ids of its thread that exist, while other ids are drawn and not yet committed. It holds for every number of processes, with and without locks; the run explores less (`Focus`) |
| | `WhatWasWrittenIsReadBack` (`ReadsBackWhatWasWritten`), with `ListStaysFresh` for its part `ListIsFresh` | `LogInv`: the stored log is the raw one or its compact form, and both replay to the same screen. That compacting twice, or with a tail recorded later, is compacting once needs that the screen and the gate of a turn depend only on what was kept. `FoldsAgree`: one pass over all operations and one write at a time end with the same ids, by an induction whose claim is about the ids that both know and the order they came in. `Freshness`: a count noted with an id is the count of that id, and ids grow; torn threads are left out of `ListIsFresh`: a turn that runs across the deletion of its own chat, and a prune that has seen the rows before it, can leave the cache behind the rows |
| `TuiAppProofs` | `TypeCorrect`, `LiveTasksAreTracked` (`LiveTaskIsTracked`) | `OneTask`: at most one task is live, it is the one tracked and of the kind its place says. Nothing is claimed once two submissions raced (`raced`), which the property says as well |
| | `PlacesAreVisible` (`SlotsBelongToShown`), `IdleMeansSettled` (`ScreenIsSettled`) | `ScreenFits` (what menu, tool card and phase may be while the tracked task is in each place) and `BtwInv` (ids are drawn once, a place belongs to a question that runs) |
| `ServersProofs` | `ApprovalTypeCorrect`, `NothingRunsUnasked` (`NothingRunsUnapproved`) | `ApprovalInv`: the line at the lock holds each asking call once and nobody else (`InLine`), and a call only asks where there is a person and something to decide (`PersonsAreAsked`): an answer is given to the head of the line, after mode and allow-always answers have changed |
| | `SettingsStayInStep` (`SettingsAgree`) | `Follows` (effort, model and mode of the agent follow the screen, field by field, outside of a dialog and of a switch to Plan) and `TurnFits` (only a streaming turn switches) |
| | `StopReasonsAreTrue` (`StopReasonFollowsCancel`), `AnswersAreTrue` (`AnswersMatchTheThread`), `OneTurn` (`OneTurnAtATime`) | `AcpInv`: `InTurn` (earlier prompts are answered, the turn is that of the prompt in hand), `Wanted` (the cancel flag is about that turn), `Unfinished` and `Metered` (what flag and meter say once the turn's task is done, which is before the prompt's handler reads them) |
| | `ScreenTellsTheTruth` (`TerminalIsFaithful`) | `ComposerInv`: the list is that of the text, or somebody is still to be told (a timer, a folder that is being read, a `changed` in one of the two queues); a key that was marked as settled has neither a timer nor a `changed` before it, however long it waits in the queue, which is why it accepts a match; the menu offers what is decided; whatever is not drawn is in the flush at work or has a timer or a flush due. Two widgets with a queue each decide what a key does, so the property says nothing about the steps between |

What the theorems assume, beside the named assumptions of the modules (numbers are naturals, sets
are finite, configurations are valid in the sense of `validate_graph`, the empty token is neither a
command nor a mention):

* `FewCalls` (`OutcomesAreKept`): a turn has at most `MAX_TOOL_EVENTS` calls. With more the journal
  evicts the oldest, and the property is false, as the code intends.
* `~Numbered` (`FrontEndsTellOneStory`, `TurnIsShownAgain`): frames carry no numbers. With numbers
  the terminal refuses the second event of a frame, which the others count: disagreement 9.
* `~Editing` (`AgentAnswersAreSound`): nobody edits the design while a run of validate goes on. With
  edits a stored answer may be about files its key does not name: disagreement 15.
* `OneAtATime` (`StopReasonsAreTrue`, `AnswersAreTrue`, `OneTurn`): the client waits for an
  answer before it prompts again. With `Overlap = TRUE` both handlers may pass the busy check.

Proof attempts that failed changed five definitions. `EveryEndIsReported` also says that no
outcome is both queued and taken; `AgentFollowsScreen` also covers a turn that was just given
its settings; `HistoryOrSummary` also covers a query that asks for a compaction: all three
turned out to hold. `ListIsFresh` was claimed of torn threads, which TLC had not
reached under `Focus`, and is not any more. `FailuresAreActionable`, a part of `AnswersAreSound`, had
one of its cases in the scope of the wrong quantifier and is stated now as it was meant. In `ToolApproval` a cancelled call leaves its own place in the line.
Elsewhere only the form changed: the operators that are folded with have names (`OtherRow`, `KeepStep`,
`Ballots`, `Rehydrated`, ...), so that a lemma can be about them.

### Only model-checked

* All liveness (`Terminates`, `BatchEnds`, `WaitEnds`, `AttemptEnds`, `RunEnds`,
  `CtrlCEndsTheTask`, `EveryQuestionIsAnswered`, `CancelEndsThePrompt`): under fairness and ENABLED,
  which are out of the prover's reach.

Every other property of a passing run is stated by a theorem.

No module declares a RECURSIVE operator.

## 5. Not modelled

* Text: prompts, wording of summaries, digests, reports; token estimates; history search, which
  only reads.
* HTTP details, JSON-RPC, argument handling, rendering of updates, layout, themes and selectors.
* What tools other than shells do to files; the classification of commands and media
  (`ToolApproval` takes its verdict as an input).
* The design rules, KiCad parsing and prompts of validate: functions of files.
* The agent adapter, hooks, status and diagnostics: they pass on or observe a turn and hold
  no state it depends on.
* The vendored runtime (`deepagents`), LangGraph, sqlite, Textual and the ACP SDK are
  external: they appear by how the code uses them (`add_messages`, atomic commits, the task
  an exception or a cancel reaches).
* A save of the journal that fails (`turn_journal.py:372`) is logged and leaves the older sidecar, as
  a kill before the save does; the turn that goes on afterwards is not followed.

The examples under `examples/` are programs of their own.

## 6. What is left

1. A thread as a sequence of turns of which the last may be unfinished, as an abstraction that
   `TurnDurability` implements, by `DurableInv`; a call with its outcome, as one that `ChatStream`
   implements, by `Chain` and `Once`.
2. The two hazards without a property (`PROJECT.json`): the pipe nobody reads at the output cap is
   stated as disagreement 3, and the kill after the pre-turn compaction as disagreement 13.
