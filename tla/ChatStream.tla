------------------------------ MODULE ChatStream ------------------------------
(***************************************************************************)
(* The attempts of one run of the node on the wire, and the local tools    *)
(* they ask for (copper_protocol.py: _stream_once with its lanes;          *)
(* deepagents_tools.py: LocalToolBroker.execute and cancel_all;            *)
(* copper_graph.py: _track and settle_pending_tools).                      *)
(*                                                                         *)
(* TurnRun sees an attempt as a stream of events.  Here an attempt has a   *)
(* socket, a consumer that handles frames in order, and lanes: one chain   *)
(* of tasks per agent, which outlive an attempt that fails.  The broker    *)
(* shares one execution between all tasks that ask for the same call, and  *)
(* keeps its result for the rest of the turn.                              *)
(*                                                                         *)
(* The server sends what it likes and closes the socket when it likes: the *)
(* client notices when a send fails or when the close comes out of the     *)
(* inbox, after frames that were there before it.                          *)
(***************************************************************************)
EXTENDS Integers, Sequences, FiniteSets

CONSTANTS
  Calls,        \* tool_call_ids of the turn
  Agents,       \* agent_ids that tag requests
  CallsOf,      \* bound: the calls each agent may ask for
  BatchCalls,   \* bound: the calls of untagged requests
  MaxAttempts,  \* bound: attempts of the turn
  MaxRequests   \* bound: requests of all attempts together

ASSUME BoundsAssumption ==
  MaxAttempts \in Nat \ {0} /\ MaxRequests \in Nat
  /\ CallsOf \in [Agents -> SUBSET Calls]
  /\ BatchCalls \subseteq Calls

Attempts == 1..MaxAttempts

VARIABLES
  phase,      \* what the consumer awaits
  attempt,    \* the current attempt
  closed,     \* _stream_once has noticed that the socket is closed
  lanes,      \* the requests of each attempt's agents, in order
  task,       \* what became of each attempt's requests
  exec,       \* broker._inflight: the execution of a call
  creator,    \* the attempt whose task started that execution
  results,    \* broker._results
  pending,    \* _TurnRun.pending_tools
  journal,    \* the status of a call in the turn's journal
  cancelled,  \* the front end has called cancel_all
  ran         \* history: executions of a call that did not fail

stream == <<phase, attempt, closed>>
broker == <<exec, creator, results, ran>>
node   == <<pending, journal>>
vars   == <<stream, lanes, task, broker, node, cancelled>>

\* reading  next_frame                 batch    the tools of an untagged request
\* final, dropped   settle_lanes       flushed  every lane result was taken
\* failed   an exception left the attempt at once
Phases == {"between", "reading", "batch", "final", "dropped", "flushed", "failed", "ended"}

\* waiting   for its lane, or its batch    running   awaits the broker
\* answered  the broker's task is over, its waiter has not resumed
\* reported  the event is in lane_done     over      nothing is left to do
TaskStates == {"none", "waiting", "running", "answered", "reported", "over", "aborted"}

Init ==
  /\ phase = "reading" /\ attempt = 1 /\ closed = FALSE
  /\ lanes = [a \in Attempts |-> [g \in Agents |-> <<>>]]
  /\ task = [a \in Attempts |-> [c \in Calls |-> "none"]]
  /\ exec = [c \in Calls |-> "idle"] /\ creator = [c \in Calls |-> 0] /\ results = {}
  /\ pending = {} /\ journal = [c \in Calls |-> "none"]
  /\ cancelled = FALSE /\ ran = [c \in Calls |-> 0]

----------------------------------------------------------------------------
(* The broker *)

\* MUTANT: results are not kept.
Execute_NoCache(a, c) ==
  IF exec[c] = "idle"
    THEN /\ exec' = [exec EXCEPT ![c] = "running"] /\ creator' = [creator EXCEPT ![c] = a]
         /\ ran' = [ran EXCEPT ![c] = @ + 1]
         /\ task' = [task EXCEPT ![a][c] = "running"]
    ELSE /\ task' = [task EXCEPT ![a][c] = IF exec[c] = "running" THEN "running" ELSE "answered"]
         /\ UNCHANGED <<exec, creator, ran>>

\* execute: from the cache, by joining the call in flight, or by running it.
Execute(a, c) ==
  IF c \notin results /\ exec[c] = "idle"
    THEN /\ exec' = [exec EXCEPT ![c] = "running"] /\ creator' = [creator EXCEPT ![c] = a]
         /\ ran' = [ran EXCEPT ![c] = @ + 1]
         /\ task' = [task EXCEPT ![a][c] = "running"]
    ELSE /\ task' = [task EXCEPT ![a][c] =
                       IF c \notin results /\ exec[c] = "running" THEN "running" ELSE "answered"]
         /\ UNCHANGED <<exec, creator, ran>>

\* The tool returns, or raises; everyone who awaits it is woken.
ToolEnds(c) ==
  /\ exec[c] = "running"
  /\ \E how \in {"returned", "raised"} :
       /\ exec' = [exec EXCEPT ![c] = how]
       /\ ran' = [ran EXCEPT ![c] = IF how = "raised" THEN @ - 1 ELSE @]
  /\ task' = [a \in Attempts |-> [task[a] EXCEPT ![c] = IF @ = "running" THEN "answered" ELSE @]]
  /\ UNCHANGED <<stream, lanes, creator, results, node, cancelled>>

\* The creator's task leaves execute: only a result is kept.
Leave(a, c) ==
  IF creator[c] = a /\ exec[c] \in {"returned", "raised"}
    THEN /\ exec' = [exec EXCEPT ![c] = "idle"] /\ creator' = [creator EXCEPT ![c] = 0]
         /\ results' = IF exec[c] = "returned" THEN results \cup {c} ELSE results
    ELSE UNCHANGED <<exec, creator, results>>

\* The executions of these calls are cancelled, and so is who awaits them.
Abort(gone) ==
  /\ exec' = [c \in Calls |-> IF c \in gone THEN "idle" ELSE exec[c]]
  /\ creator' = [c \in Calls |-> IF c \in gone THEN 0 ELSE creator[c]]
  /\ ran' = [c \in Calls |-> IF c \in gone /\ exec[c] = "running" THEN ran[c] - 1 ELSE ran[c]]

InFlight == {c \in Calls : exec[c] = "running"}

----------------------------------------------------------------------------
(* Events of the attempt, as _track records them *)

Requested(cs) ==
  /\ pending' = pending \cup cs
  /\ journal' = [c \in Calls |-> IF c \in cs /\ journal[c] = "none" THEN "pending"
                                                                   ELSE journal[c]]

Answered(cs) ==
  /\ pending' = pending \ cs
  /\ journal' = [c \in Calls |-> IF c \in cs THEN "done" ELSE journal[c]]

\* settle_pending_tools, mark_interrupted
Settle ==
  /\ pending' = {}
  /\ journal' = [c \in Calls |-> IF journal[c] = "pending" THEN "interrupted" ELSE journal[c]]

----------------------------------------------------------------------------
(* Lanes *)

Requests == {r \in Attempts \X Calls : task[r[1]][r[2]] # "none"}

\* A call is requested once in an attempt.
New(cs) ==
  /\ \A c \in cs : task[attempt][c] = "none"
  /\ Cardinality(Requests) + Cardinality(cs) <= MaxRequests

\* A request tagged with an agent: submit_to_lane.
LaneRequest(g, c) ==
  /\ phase = "reading" /\ c \in CallsOf[g] /\ New({c})
  /\ lanes' = [lanes EXCEPT ![attempt][g] = Append(@, c)]
  /\ task' = [task EXCEPT ![attempt][c] = "waiting"]
  /\ Requested({c})
  /\ UNCHANGED <<stream, broker, cancelled>>

InLane(a, c) == \E g \in Agents : \E i \in DOMAIN lanes[a][g] : lanes[a][g][i] = c

TaskOver(a, c) == task[a][c] \in {"reported", "over", "aborted"}

\* MUTANT: a task looks for the last one of its lane when it runs.
Previous_Late(a, c) ==
  {p \in Calls : \E g \in Agents : \E i \in DOMAIN lanes[a][g] :
     lanes[a][g][i] = c /\ lanes[a][g][Len(lanes[a][g])] = p}

\* The task that was the last of its lane when the request came.
Previous(a, c) ==
  {p \in Calls : \E g \in Agents : \E i \in DOMAIN lanes[a][g] :
     i > 1 /\ lanes[a][g][i] = c /\ lanes[a][g][i - 1] = p}

LaneStarts(a, c) ==
  /\ task[a][c] = "waiting" /\ InLane(a, c)
  /\ \A p \in Previous(a, c) : TaskOver(a, p)
  /\ Execute(a, c)
  /\ UNCHANGED <<stream, lanes, results, node, cancelled>>

\* The attempt whose stream is still consumed.
Streaming(a) == a = attempt /\ phase \in {"reading", "batch", "final", "dropped"}

\* deliver: a result of a stream that is gone goes nowhere, one that cannot be
\* sent is reported all the same.
LaneDelivers(a, c) ==
  /\ task[a][c] = "answered" /\ InLane(a, c)
  /\ Leave(a, c)
  /\ task' = [task EXCEPT ![a][c] = IF Streaming(a) THEN "reported" ELSE "over"]
  /\ closed' \in IF Streaming(a) THEN {closed, TRUE} ELSE {closed}
  /\ UNCHANGED <<phase, attempt, lanes, ran, node, cancelled>>

\* next_frame returns a lane's event.
TakeLaneEvent(c) ==
  /\ phase = "reading" /\ task[attempt][c] = "reported"
  /\ task' = [task EXCEPT ![attempt][c] = "over"]
  /\ Answered({c})
  /\ phase' = IF closed THEN "dropped" ELSE phase
  /\ UNCHANGED <<attempt, closed, lanes, broker, cancelled>>

----------------------------------------------------------------------------
(* Untagged requests: one tool, or a batch (ToolBatch), awaited in line *)

BatchRequest(cs) ==
  /\ phase = "reading" /\ cs # {} /\ New(cs)
  /\ phase' = "batch"
  /\ task' = [task EXCEPT ![attempt] = [c \in Calls |-> IF c \in cs THEN "waiting" ELSE @[c]]]
  /\ Requested(cs)
  /\ UNCHANGED <<attempt, closed, lanes, broker, cancelled>>

InBatch(c) ==
  /\ phase = "batch" /\ ~InLane(attempt, c)
  /\ task[attempt][c] \in {"waiting", "running", "answered", "aborted"}

BatchStarts(c) ==
  /\ InBatch(c) /\ task[attempt][c] = "waiting"
  /\ Execute(attempt, c)
  /\ UNCHANGED <<stream, lanes, results, node, cancelled>>

\* MUTANT: a batch ends with the first result after a drop.
BatchDelivers_StopsAtDrop(c) ==
  /\ InBatch(c) /\ task[attempt][c] = "answered"
  /\ Leave(attempt, c)
  /\ task' = [task EXCEPT ![attempt][c] = "over"]
  /\ Answered({c})
  /\ closed' \in {closed, TRUE}
  /\ phase' = IF closed' THEN "dropped"
              ELSE IF \E d \in Calls \ {c} : InBatch(d) THEN phase ELSE "reading"
  /\ UNCHANGED <<attempt, lanes, ran, cancelled>>

\* A member that was aborted has no outcome: the batch waits for it.
BatchDelivers(c) ==
  /\ InBatch(c) /\ task[attempt][c] = "answered"
  /\ Leave(attempt, c)
  /\ task' = [task EXCEPT ![attempt][c] = "over"]
  /\ Answered({c})
  /\ closed' \in {closed, TRUE}
  /\ phase' = IF \E d \in Calls \ {c} : InBatch(d) THEN phase
              ELSE IF closed' THEN "dropped" ELSE "reading"
  /\ UNCHANGED <<attempt, lanes, ran, cancelled>>

----------------------------------------------------------------------------
(* How an attempt ends *)

FinalFrame ==
  /\ phase = "reading" /\ phase' = "final"
  /\ UNCHANGED <<attempt, closed, lanes, task, broker, node, cancelled>>

\* The reader's ConnectionClosed comes out of the inbox.
SeeClose ==
  /\ phase = "reading"
  /\ closed' = TRUE /\ phase' = "dropped"
  /\ UNCHANGED <<attempt, lanes, task, broker, node, cancelled>>

\* No frame in time, an error frame, or one that breaks the protocol: the socket
\* is closed and nobody settles the lanes.
AttemptFails ==
  /\ phase = "reading" /\ phase' = "failed"
  /\ UNCHANGED <<attempt, closed, lanes, task, broker, node, cancelled>>

\* The lanes keep only the newest task of each agent.
LanesOver ==
  \A g \in Agents : LET lane == lanes[attempt][g]
                    IN  lane # <<>> => TaskOver(attempt, lane[Len(lane)])

Reported == {c \in Calls : task[attempt][c] = "reported"}

\* settle_lanes, and what is in lane_done.
Flush ==
  /\ phase \in {"final", "dropped"}
  /\ LanesOver
  /\ Answered(Reported)
  /\ task' = [task EXCEPT ![attempt] = [c \in Calls |-> IF c \in Reported THEN "over" ELSE @[c]]]
  /\ phase' = "flushed"
  /\ UNCHANGED <<attempt, closed, lanes, broker, cancelled>>

\* The node settles what is pending and goes on to its next attempt, or ends.
Settled ==
  /\ phase \in {"flushed", "failed"}
  /\ Settle
  /\ phase' \in {"ended"} \cup (IF attempt < MaxAttempts THEN {"between"} ELSE {})
  /\ closed' = FALSE
  /\ UNCHANGED <<attempt, lanes, task, broker, cancelled>>

\* A resume or a continuation: the broker keeps its results.
NextAttempt ==
  /\ phase = "between"
  /\ attempt' = attempt + 1
  /\ phase' = "reading"
  /\ UNCHANGED <<closed, lanes, task, broker, node, cancelled>>

----------------------------------------------------------------------------
(* Cancellation *)

\* cancel_all: lanes whose call is cancelled end without a result.
CancelAll ==
  /\ ~cancelled /\ cancelled' = TRUE
  /\ Abort(InFlight)
  /\ task' = [a \in Attempts |-> [c \in Calls |->
                IF task[a][c] = "running" THEN "aborted" ELSE task[a][c]]]
  /\ UNCHANGED <<stream, lanes, results, node>>

\* What the consumer awaits is cancelled with it: a batch cancels its members, the
\* gather of settle_lanes its lanes.
Awaited ==
  {c \in Calls : InBatch(c)}
    \cup {c \in Calls : /\ phase \in {"final", "dropped"}
                       /\ InLane(attempt, c) /\ ~TaskOver(attempt, c)}

\* The node's task is cancelled; while it waits for frames the lanes go on.
Interrupt ==
  LET members == Awaited
      stopped == {c \in members : task[attempt][c] = "running"
                                  \/ (task[attempt][c] = "answered" /\ creator[c] = attempt)}
  IN  /\ phase \notin {"ended", "flushed", "failed"}
      /\ phase' = "ended"
      /\ Abort(stopped)
      /\ task' = [a \in Attempts |-> [c \in Calls |->
                    IF (a = attempt /\ c \in members) \/ (c \in stopped /\ task[a][c] = "running")
                      THEN "aborted" ELSE task[a][c]]]
      /\ Settle
      /\ UNCHANGED <<attempt, closed, lanes, results, cancelled>>

----------------------------------------------------------------------------

Consumer ==
  \/ \E c \in Calls : TakeLaneEvent(c) \/ BatchDelivers(c)
  \/ SeeClose \/ Flush \/ Settled

\* Bound: the lanes a turn leaves behind are not followed past its end.
Tasks(c) ==
  /\ phase # "ended"
  /\ \/ BatchStarts(c) \/ ToolEnds(c)
     \/ \E a \in Attempts : LaneStarts(a, c) \/ LaneDelivers(a, c)

Ended == phase = "ended" /\ UNCHANGED vars

Next ==
  \/ Consumer \/ \E c \in Calls : Tasks(c)
  \/ \E g \in Agents, c \in Calls : LaneRequest(g, c)
  \/ \E cs \in SUBSET BatchCalls : BatchRequest(cs)
  \/ FinalFrame \/ AttemptFails
  \/ NextAttempt \/ CancelAll \/ Interrupt \/ Ended

Spec == Init /\ [][Next]_vars

\* Tasks are scheduled and tools end; the wait for a frame is bounded (60 s for the
\* first, 330 s after that); a cancelled turn's task is cancelled.
Fairness ==
  /\ WF_vars(Consumer) /\ WF_vars(\E c \in Calls : Tasks(c))
  /\ WF_vars(AttemptFails) /\ WF_vars(cancelled /\ Interrupt)

FairSpec == Spec /\ Fairness

----------------------------------------------------------------------------
(* Properties *)

TypeOK ==
  /\ phase \in Phases /\ attempt \in Attempts
  /\ closed \in BOOLEAN
  /\ lanes \in [Attempts -> [Agents -> Seq(Calls)]]
  /\ task \in [Attempts -> [Calls -> TaskStates]]
  /\ exec \in [Calls -> {"idle", "running", "returned", "raised"}]
  /\ creator \in [Calls -> 0..MaxAttempts] /\ results \subseteq Calls
  /\ pending \subseteq Calls /\ journal \in [Calls -> {"none", "pending", "done", "interrupted"}]
  /\ cancelled \in BOOLEAN
  /\ ran \in [Calls -> Nat]

\* An attempt that ended with a final frame or a dropped socket has reported a
\* result for every tool it asked for, in lanes and batches, also for those that
\* finished after the drop; what TurnRun takes for granted of a final frame.
EveryCallIsSettled ==
  phase = "flushed" /\ ~cancelled => pending = {}

\* docs/cli.md: "completed tools are not run again, and a repeated tool_call_id is
\* answered from the local cache": as long as the turn runs, whatever attempts fail
\* and whoever still waits, a call never runs twice at once, nor again after it
\* returned (execute).
NeverRunsTwice == phase # "ended" => \A c \in Calls : ran[c] <= 1

\* The requests of an agent run in order and one at a time within an attempt,
\* although a task waits for the one before it only, and although that one may
\* have been cancelled (submit_to_lane).
LanesKeepOrder ==
  \A a \in Attempts, g \in Agents : \A i, k \in DOMAIN lanes[a][g] :
    i < k /\ task[a][lanes[a][g][k]] \in {"running", "answered", "reported", "over"}
      => TaskOver(a, lanes[a][g][i])

\* Tool calls run in the order of their agents and never again.
CallsAreOrderly == NeverRunsTwice /\ LanesKeepOrder

\* Every attempt ends: no lane waits for itself, no settling for a lane that
\* cannot end, also when an attempt joins the calls of a failed one.
AttemptEnds ==
  phase \in {"reading", "batch", "final", "dropped"} ~> phase \in {"between", "ended"}

\* docs/cli.md: "a tool that finishes after its socket closed still lands in the
\* journal".
LateResultIsJournaled ==
  \A a \in Attempts, c \in Calls : task[a][c] = "over" => journal[c] = "done"

=============================================================================
