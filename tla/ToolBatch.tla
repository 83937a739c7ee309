----------------------------- MODULE ToolBatch -----------------------------
(***************************************************************************)
(* One batch of hosted tool requests (tool_batch.py: plan_dependencies,    *)
(* run_tool_batch).                                                        *)
(*                                                                         *)
(* Every member has a task that waits for the members it depends on, then  *)
(* for a read slot if it is a read, then runs the handler.  The consumer   *)
(* takes outcomes as they finish and may close the batch at any time.      *)
(* Paths are abstract: equal paths stand for equal normalised path keys.   *)
(***************************************************************************)
EXTENDS Integers, FiniteSets

CONSTANTS
  Members,       \* number of requests in the batch
  Paths,         \* path keys
  NoPath,        \* a READ of a directory, a search or a shell command
  MaxReads,      \* max_concurrent_reads
  Cancellable    \* broker.cancel_all may cancel handlers under the batch

ASSUME BatchAssumption ==
  /\ Members \in Nat \ {0} /\ MaxReads \in Nat /\ NoPath \notin Paths
  /\ Cancellable \in BOOLEAN

VARIABLES
  plans,     \* classify_tool of every request
  task,      \* the state of every run_one
  queue,     \* completed: members whose outcome nobody took yet
  yielded,   \* members whose outcome the consumer got
  batch,     \* "open", "closing" (tasks cancelled) or "over"
  cancelled  \* the front-end called cancel_all

batchVars == <<plans, task, queue, yielded, batch, cancelled>>

Index == 1..Members

\* waiting   for its dependencies          queued  for a read slot
\* running   the handler                   done    its outcome was queued
\* aborted   cancelled: finished is set, there is no outcome
TaskStates == {"waiting", "queued", "running", "done", "aborted"}

----------------------------------------------------------------------------
(* classify_tool and plan_dependencies *)

\* A MUTATING tool without a path is EXCLUSIVE, and EXCLUSIVE tools have none.
ToolPlans == [kind : {"read"}, path : Paths \cup {NoPath}]
             \cup [kind : {"mutating"}, path : Paths]
             \cup [kind : {"exclusive"}, path : {NoPath}]

\* One member writes a path the other touches.
Overlaps(left, right) ==
  /\ "mutating" \in {left.kind, right.kind}
  /\ left.path = NoPath \/ right.path = NoPath \/ left.path = right.path

\* MUTANT: range(len(plans)) for range(index).
Earlier_Others(j) == Index \ {j}

Earlier(j) == {i \in Index : i < j}

Exclusives(j) == {i \in Earlier(j) : plans[i].kind = "exclusive"}

\* MUTANT: the first exclusive member is remembered, not the last.
LastExclusive_First(j) == {e \in Exclusives(j) : \A i \in Exclusives(j) : e <= i}

\* last_exclusive when member j is planned.
LastExclusive(j) == {e \in Exclusives(j) : \A i \in Exclusives(j) : i <= e}

Dependencies(j) ==
  IF plans[j].kind = "exclusive"
    THEN Earlier(j)
    ELSE LastExclusive(j) \cup {i \in Earlier(j) : Overlaps(plans[i], plans[j])}

----------------------------------------------------------------------------

BatchInit ==
  /\ plans \in [Index -> ToolPlans]
  /\ task = [i \in Index |-> "waiting"]
  /\ queue = {} /\ yielded = {}
  /\ batch = "open" /\ cancelled = FALSE

\* finished[i] is set.
Finished(i) == task[i] \in {"done", "aborted"}

Unblocked(i) == task[i] = "waiting" /\ \A d \in Dependencies(i) : Finished(d)

Reading == {i \in Index : plans[i].kind = "read" /\ task[i] = "running"}

Moves(i, state) ==
  /\ task' = [task EXCEPT ![i] = state]
  /\ UNCHANGED <<plans, yielded, batch, cancelled>>

\* Every dependency is finished.
Proceed(i) ==
  /\ batch = "open" /\ Unblocked(i)
  /\ Moves(i, IF plans[i].kind = "read" THEN "queued" ELSE "running")
  /\ UNCHANGED queue

\* The semaphore has max(1, max_concurrent_reads) slots.
Slots == IF MaxReads > 1 THEN MaxReads ELSE 1

TakeReadSlot(i) ==
  /\ batch = "open" /\ task[i] = "queued" /\ Cardinality(Reading) < Slots
  /\ Moves(i, "running") /\ UNCHANGED queue

\* MUTANT: a failed member queues no outcome.
HandlerEnds_OnlyResults(i) ==
  /\ task[i] = "running" /\ batch = "open"
  /\ \E ok \in BOOLEAN : queue' = IF ok THEN queue \cup {i} ELSE queue
  /\ Moves(i, "done")

\* The handler returned or raised: either is an outcome.  While the batch closes
\* it may still win the race against its own cancellation.
HandlerEnds(i) ==
  /\ task[i] = "running"
  /\ queue' = queue \cup {i}
  /\ Moves(i, "done")

\* CancelledError leaves the handler: finished is set, nothing is queued.
HandlerAborts(i) ==
  /\ task[i] = "running" /\ (cancelled \/ batch = "closing")
  /\ Moves(i, "aborted") /\ UNCHANGED queue

----------------------------------------------------------------------------
(* The consumer *)

Take(i) ==
  /\ batch = "open" /\ i \in queue
  /\ queue' = queue \ {i} /\ yielded' = yielded \cup {i}
  /\ UNCHANGED <<plans, task, batch, cancelled>>

\* The consumer got every outcome, or was cancelled, or aclose was called: every
\* unfinished task is cancelled in one go, so none of them starts its handler.
Close ==
  /\ batch = "open" /\ batch' = "closing"
  /\ task' = [i \in Index |-> IF task[i] \in {"waiting", "queued"} THEN "aborted" ELSE task[i]]
  /\ UNCHANGED <<plans, queue, yielded, cancelled>>

\* MUTANT: the tasks are cancelled but not awaited.
Gathered_NotAwaited ==
  /\ batch = "closing" /\ batch' = "over"
  /\ UNCHANGED <<plans, task, queue, yielded, cancelled>>

\* gather(*tasks) is over.
Gathered ==
  /\ batch = "closing" /\ \A i \in Index : Finished(i)
  /\ batch' = "over"
  /\ UNCHANGED <<plans, task, queue, yielded, cancelled>>

\* The front-end's cancel: every handler in flight is cancelled, and the turn's
\* task, which is the consumer, right after.
CancelAll ==
  /\ Cancellable /\ batch = "open" /\ ~cancelled
  /\ cancelled' = TRUE
  /\ UNCHANGED <<plans, task, queue, yielded, batch>>

Stopped == batch = "over" /\ UNCHANGED batchVars

BatchNext ==
  \/ \E i \in Index : Proceed(i) \/ TakeReadSlot(i) \/ HandlerEnds(i) \/ HandlerAborts(i) \/ Take(i)
  \/ Close \/ Gathered \/ CancelAll \/ Stopped

BatchSpec == BatchInit /\ [][BatchNext]_batchVars

AllYielded == yielded = Index

\* Tasks run, handlers end, the consumer takes what is there, closes when it has
\* everything and closes when the front-end cancels its task.
BatchFairness ==
  /\ \A i \in Index :
       /\ WF_batchVars(Proceed(i)) /\ WF_batchVars(HandlerEnds(i) \/ HandlerAborts(i)) /\ WF_batchVars(Take(i))
       /\ SF_batchVars(TakeReadSlot(i))
  /\ WF_batchVars((AllYielded \/ cancelled) /\ Close) /\ WF_batchVars(Gathered)

FairBatchSpec == BatchSpec /\ BatchFairness

----------------------------------------------------------------------------
(* Properties *)

BatchTypeOK ==
  /\ plans \in [Index -> ToolPlans]
  /\ task \in [Index -> TaskStates]
  /\ queue \subseteq Index /\ yielded \subseteq Index
  /\ batch \in {"open", "closing", "over"}
  /\ cancelled \in BOOLEAN

\* What the module's docstring asks for: an EXCLUSIVE tool runs alone and in
\* order, a MUTATING tool is ordered with everything that touches its path.
Conflict(i, j) ==
  \/ "exclusive" \in {plans[i].kind, plans[j].kind}
  \/ /\ "mutating" \in {plans[i].kind, plans[j].kind}
     /\ NoPath \in {plans[i].path, plans[j].path} \/ plans[i].path = plans[j].path

Started(j) == task[j] \in {"running", "done"}

\* No handler starts before every earlier member it conflicts with has ended,
\* although a member waits only for the newest exclusive one before it; holds
\* with failures, cancellations and an early close.
ConflictsRunInOrder ==
  \A i, j \in Index : i < j /\ Conflict(i, j) /\ Started(j) => Finished(i)

\* A member never waits for one it does not conflict with.
NoNeedlessWait ==
  \A j \in Index : \A d \in Dependencies(j) : Conflict(d, j)

\* Never more reads in flight than slots, whatever finishes or is cancelled.
ReadsAreCapped == Cardinality(Reading) <= Slots

\* When aclose returns no handler of the batch is running, so the turn's cleanup
\* finds no tool at work.
NothingRunsAfterClose == batch = "over" => \A i \in Index : task[i] # "running"

\* An outcome is queued by every handler that ended by itself, and taken once.
EveryEndIsReported ==
  /\ \A i \in Index : (task[i] = "done") <=> (i \in queue \cup yielded)
  /\ queue \cap yielded = {}

\* Unless the consumer goes away or the front-end cancels, it gets the outcome of
\* every member and the batch ends: no cyclic wait, no starved read.
BatchEnds == <>(batch = "over")

=============================================================================
