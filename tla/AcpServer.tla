------------------------------ MODULE AcpServer ------------------------------
(***************************************************************************)
(* One session of the Agent Client Protocol server (copper_acp.py): the    *)
(* session/prompt and session/cancel handlers, the turn task they share    *)
(* through the AcpSession, and the thread's unfinished turn.               *)
(*                                                                         *)
(* The SDK runs every message of the client as a task of one event loop;   *)
(* a step runs from one await to the next.  The graph's node appears by    *)
(* how its turn ends and by what it leaves in the journal (TurnRun).       *)
(***************************************************************************)
EXTENDS Naturals

CONSTANTS
    MaxPrompts,  \* bound: session/prompt requests
    MaxCancels,  \* bound: session/cancel notifications
    MaxUsage,    \* bound: context sizes the service reports
    Overlap      \* the client may send a prompt while another is unanswered

ASSUME AcpAssumption ==
    MaxPrompts \in Nat /\ MaxCancels \in Nat /\ MaxUsage \in Nat /\ Overlap \in BOOLEAN

NoTurn == 0
Prompts == 1..MaxPrompts
Cancels == 1..MaxCancels

VARIABLES
    announced,  \* session.commands_sent
    cancelled,  \* session.cancelled
    turn,       \* session.turn: the prompt whose task it is
    runtime,    \* session.runtime, by the prompt whose task opened it
    unfinished, \* session.unfinished
    req,        \* the session/prompt handlers
    task,       \* the turn task of each prompt
    stop,       \* the session/cancel handlers
    asked,      \* turns whose agent was told to stop (acancel)
    journal,    \* the thread has an unfinished turn that can be resumed
    measured,   \* the context size in the checkpoint or in the running turn
    known,      \* session.context_usage
    meter,      \* the last usage_update sent to the client
    wanted,     \* history: prompts whose turn ran when a cancel arrived
    struck      \* history: turns cancelled by a handler that had come for another

session == <<announced, cancelled, turn, runtime, unfinished>>
usage == <<measured, known, meter>>
history == <<wanted, struck>>
acpVars == <<session, req, task, stop, asked, journal, usage, history>>

\* text        a request for the hosted agent      continue   "continue ...", no images
\* resume      /resume                             local      /effort, /model, /usage, /context
\* compact     /compact
Kinds == {"text", "continue", "resume", "local", "compact"}

NoRequest == [at |-> "unsent", kind |-> "text", answer |-> "none"]
NoTask == [at |-> "none", hit |-> FALSE, how |-> "none", resumes |-> FALSE]
NoStop == [at |-> "unsent", aim |-> NoTurn]

AcpInit ==
    /\ announced = FALSE /\ cancelled = FALSE /\ turn = NoTurn /\ runtime = NoTurn
    /\ unfinished = FALSE
    /\ req = [p \in Prompts |-> NoRequest]
    /\ task = [p \in Prompts |-> NoTask]
    /\ stop = [c \in Cancels |-> NoStop]
    /\ asked = {}
    /\ journal \in BOOLEAN
    /\ measured = 0 /\ known = 0 /\ meter = 0
    /\ wanted = {} /\ struck = {}

Live(p) == p # NoTurn /\ task[p].at \notin {"none", "done"}
Busy == Live(turn)
Answered(p) == req[p].at = "answered"

(***************************************************************************)
(* session/prompt.                                                         *)
(***************************************************************************)

\* MUTANT: what the last turn left in the session stays.
TurnStarts_Unreset(p) ==
    /\ task' = [task EXCEPT ![p].at = "new"]
    /\ turn' = p
    /\ UNCHANGED <<cancelled, unfinished>>

\* The session is made ready for the turn and the task created, in one step.
TurnStarts(p) ==
    /\ task' = [task EXCEPT ![p].at = "new"]
    /\ turn' = p
    /\ cancelled' = FALSE
    /\ unfinished' = FALSE

\* The commands the server answers itself do not touch the turn.
Dispatched(p, kind) ==
    IF kind \in {"local", "compact"}
    THEN /\ req' = [req EXCEPT ![p].at = "local", ![p].kind = kind]
         /\ UNCHANGED <<turn, cancelled, unfinished, task>>
    ELSE /\ req' = [req EXCEPT ![p].at = "turn", ![p].kind = kind]
         /\ TurnStarts(p)

\* The slash commands are announced once, by an await, before anything else;
\* a later prompt passes from the look at busy to the task without one.
Receive(p, kind) ==
    /\ req[p].at = "unsent"
    /\ \A q \in Prompts : q < p => req[q].at # "unsent" /\ (Overlap \/ Answered(q))
    /\ announced' = TRUE
    /\ IF Busy
       THEN req' = [req EXCEPT ![p] = [at |-> "answered", kind |-> kind, answer |-> "busy"]]
            /\ UNCHANGED <<turn, cancelled, unfinished, task>>
       ELSE IF announced THEN Dispatched(p, kind)
       ELSE req' = [req EXCEPT ![p].at = "announcing", ![p].kind = kind]
            /\ UNCHANGED <<turn, cancelled, unfinished, task>>
    /\ UNCHANGED <<runtime, stop, asked, journal, usage, history>>

Announced(p) ==
    /\ req[p].at = "announcing"
    /\ Dispatched(p, req[p].kind)
    /\ UNCHANGED <<announced, runtime, stop, asked, journal, usage, history>>

\* /compact says so when there is an unfinished turn, else its record sets the size.
LocalAnswers(p) ==
    /\ req[p].at = "local"
    /\ req' = [req EXCEPT ![p].at = "answered", ![p].answer = "end_turn"]
    /\ IF req[p].kind = "compact" /\ ~journal
       THEN \E u \in 0..MaxUsage : measured' = u /\ known' = u /\ meter' = u
       ELSE UNCHANGED usage
    /\ UNCHANGED <<session, task, stop, asked, journal, history>>

\* The finally clause, and the answer to the client.
Answers(p, answer) ==
    /\ req' = [req EXCEPT ![p].at = "answered", ![p].answer = answer]
    /\ turn' = NoTurn /\ runtime' = NoTurn
    /\ UNCHANGED <<announced, cancelled, unfinished, task, stop, asked, journal, usage, history>>

TurnOver(p, hows) == req[p].at = "turn" /\ task[p].at = "done" /\ task[p].how \in hows

PromptReturns(p) ==
    /\ TurnOver(p, {"completed", "cancelled", "failed", "limit", "paused", "raised"})
    /\ \/ task[p].how = "completed" /\ Answers(p, IF cancelled THEN "cancelled" ELSE "end_turn")
       \/ task[p].how # "completed" /\ cancelled /\ Answers(p, "cancelled")
       \/ task[p].how = "cancelled" /\ ~cancelled /\ Answers(p, "aborted")

\* A failure: _usage_limit_failure may ask the account service first.
PromptLooksUp(p) ==
    /\ TurnOver(p, {"failed", "limit", "paused", "raised"}) /\ ~cancelled
    /\ req' = [req EXCEPT ![p].at = "limits"]
    /\ UNCHANGED <<session, task, stop, asked, journal, usage, history>>

PromptFails(p) ==
    /\ req[p].at = "limits"
    /\ Answers(p, IF task[p].how = "limit" THEN "usage_limit"
                  ELSE IF unfinished THEN "max_turn_requests" ELSE "error")

(***************************************************************************)
(* The turn task (_run_turn) with the node it drives.                      *)
(***************************************************************************)

At(p, places) == task[p].at \in places /\ ~task[p].hit

TaskOpens(p) ==
    /\ At(p, {"new"})
    /\ task' = [task EXCEPT ![p].at = "open"]
    /\ runtime' = p
    /\ UNCHANGED <<announced, cancelled, turn, unfinished, req, stop, asked, journal>>
    /\ UNCHANGED <<usage, history>>

\* /resume with nothing to resume is an error event of the node; a request that
\* does not resume supersedes the unfinished turn.  The node resets the flag
\* acancel sets.
TaskDecides(p) ==
    /\ At(p, {"open"})
    /\ asked' = asked \ {p}
    /\ IF req[p].kind = "resume" /\ ~journal
       THEN task' = [task EXCEPT ![p].at = "closing", ![p].how = "failed"] /\ UNCHANGED journal
       ELSE /\ task' = [task EXCEPT ![p].at = "stream",
                                    ![p].resumes = (req[p].kind # "text" /\ journal)]
            /\ journal' = TRUE
    /\ UNCHANGED <<session, req, stop, usage, history>>

\* A permission request waits for the client without a limit.
ToolAsks(p) ==
    /\ At(p, {"stream"})
    /\ task' = [task EXCEPT ![p].at = "asking"]
    /\ UNCHANGED <<session, req, stop, asked, journal, usage, history>>

ToolAllowed(p) ==
    /\ At(p, {"asking"})
    /\ task' = [task EXCEPT ![p].at = "stream"]
    /\ UNCHANGED <<session, req, stop, asked, journal, usage, history>>

\* A live context_usage event is remembered, and shown unless one was shown
\* less than two seconds ago.
UsageReported(p) ==
    /\ At(p, {"stream", "asking"})
    /\ \E u \in 0..MaxUsage :
        /\ measured' = u /\ known' = u
        /\ meter' \in {u, meter}
    /\ UNCHANGED <<session, req, task, stop, asked, journal, history>>

\* MUTANT: a turn that ran out of resumes is closed as done.
KeptBy_OnlyStopped(how) ==
    CASE how \in {"completed", "failed", "paused"} -> {FALSE}
      [] how = "stopped" -> {TRUE}
      [] how = "limit" -> BOOLEAN

\* How the node closes its journal: kept for a turn that was stopped or that
\* ran out of resumes, deleted otherwise; an account failure may keep it.
KeptBy(how) ==
    CASE how \in {"completed", "failed"} -> {FALSE}
      [] how \in {"stopped", "paused"} -> {TRUE}
      [] how = "limit" -> BOOLEAN

StreamEnds(p, how) ==
    /\ At(p, {"stream", "asking"})
    /\ how = "completed" => task[p].at = "stream"
    /\ how = "stopped" => p \in asked
    /\ task' = [task EXCEPT ![p].at = "closing", ![p].how = how]
    /\ journal' \in KeptBy(how)
    /\ unfinished' = IF how \in {"paused", "limit", "failed"} THEN how = "paused" ELSE unfinished
    /\ UNCHANGED <<announced, cancelled, turn, runtime, req, stop, asked, usage, history>>

\* An exception that is not the node's own leaves astream: the turn counts as
\* interrupted.
StreamRaises(p) ==
    /\ At(p, {"open", "stream", "asking"})
    /\ task' = [task EXCEPT ![p].at = "done", ![p].how = "raised"]
    /\ UNCHANGED <<session, req, stop, asked, journal, usage, history>>

\* _send_stored_usage: the checkpoint's record carries its time, so it always differs.
SendStored == known' = measured /\ meter' = measured

TaskEnds(p) ==
    /\ At(p, {"closing"})
    /\ SendStored /\ UNCHANGED measured
    /\ task' = [task EXCEPT ![p].at = "done",
                            ![p].how = IF @ = "stopped" \/ cancelled THEN "completed" ELSE @]
    /\ UNCHANGED <<session, req, stop, asked, journal, history>>

\* CancelledError: a node that ran keeps its journal (mark_interrupted).
TaskCancelled(p) ==
    /\ task[p].hit /\ Live(p)
    /\ task' = [task EXCEPT ![p].at = "done", ![p].how = "cancelled"]
    /\ journal' = (journal \/ task[p].at \in {"stream", "asking"})
    /\ UNCHANGED <<session, req, stop, asked, usage, history>>

(***************************************************************************)
(* session/cancel.                                                         *)
(***************************************************************************)

CancelArrives(c) ==
    /\ stop[c].at = "unsent" /\ \A d \in Cancels : d < c => stop[d].at # "unsent"
    /\ IF Busy
       THEN /\ cancelled' = TRUE
            /\ wanted' = wanted \cup {turn}
            /\ stop' = [stop EXCEPT ![c] =
                           [at |-> IF runtime # NoTurn THEN "hosted" ELSE "tools", aim |-> turn]]
            /\ asked' = asked \cup ({runtime} \ {NoTurn})
       ELSE /\ stop' = [stop EXCEPT ![c].at = "done"]
            /\ UNCHANGED <<cancelled, wanted, asked>>
    /\ UNCHANGED <<announced, turn, runtime, unfinished, req, task, journal, usage, struck>>

\* acancel came back, or failed: only logged.
CancelHosted(c) ==
    /\ stop[c].at = "hosted"
    /\ stop' = [stop EXCEPT ![c].at = "tools"]
    /\ UNCHANGED <<session, req, task, asked, journal, usage, history>>

\* broker.cancel_all: it awaits the tools it cancels and the shells it kills.
CancelTools(c) ==
    /\ stop[c].at = "tools"
    /\ stop' = [stop EXCEPT ![c].at = "strike"]
    /\ task' = [p \in Prompts |-> IF task[p].at = "asking" THEN [task[p] EXCEPT !.at = "stream"]
                                  ELSE task[p]]
    /\ UNCHANGED <<session, req, asked, journal, usage, history>>

\* MUTANT: a turn that was told to stop is left to its hosted side.
Strike_HostedOnly(c) ==
    /\ task' = [p \in Prompts |-> IF p = turn /\ Live(p) /\ runtime = NoTurn
                                  THEN [task[p] EXCEPT !.hit = TRUE] ELSE task[p]]
    /\ UNCHANGED struck

\* session.turn is read again after the awaits, whichever turn that is now.
Strike(c) ==
    /\ task' = [p \in Prompts |-> IF p = turn /\ Live(p)
                                  THEN [task[p] EXCEPT !.hit = TRUE] ELSE task[p]]
    /\ struck' = IF Busy /\ turn # stop[c].aim THEN struck \cup {turn} ELSE struck

CancelTurn(c) ==
    /\ stop[c].at = "strike"
    /\ stop' = [stop EXCEPT ![c].at = "done"]
    /\ Strike(c)
    /\ UNCHANGED <<session, req, asked, journal, usage, wanted>>

(***************************************************************************)
(* session/load of the thread: a new AcpSession takes its place.  A cancel *)
(* handler still at work holds the old one, which has no turn.             *)
(***************************************************************************)
Load ==
    /\ announced /\ \A p \in Prompts : req[p].at \in {"unsent", "answered"}
    /\ announced' = TRUE /\ cancelled' = FALSE /\ unfinished' = FALSE
    /\ turn' = NoTurn /\ runtime' = NoTurn
    /\ stop' = [c \in Cancels |-> IF stop[c].at = "unsent" THEN stop[c]
                                  ELSE [stop[c] EXCEPT !.at = "done"]]
    /\ known' = measured /\ meter' = measured
    /\ UNCHANGED <<req, task, asked, journal, measured, history>>

PromptStep(p) ==
    \/ Announced(p) \/ LocalAnswers(p)
    \/ PromptReturns(p) \/ PromptLooksUp(p) \/ PromptFails(p)
TaskStep(p) ==
    \/ TaskOpens(p) \/ TaskDecides(p) \/ TaskEnds(p) \/ TaskCancelled(p)
    \/ ToolAsks(p) \/ ToolAllowed(p) \/ UsageReported(p) \/ StreamRaises(p)
    \/ \E how \in {"completed", "stopped", "failed", "limit", "paused"} : StreamEnds(p, how)
CancelStep(c) == CancelHosted(c) \/ CancelTools(c) \/ CancelTurn(c)

AcpNext ==
    \/ \E p \in Prompts : PromptStep(p) \/ TaskStep(p) \/ \E k \in Kinds : Receive(p, k)
    \/ \E c \in Cancels : CancelArrives(c) \/ CancelStep(c)
    \/ Load

\* The loop runs what it can: the handlers, and a task up to the hosted stream.
\* Neither the client nor the service owes anything.
AcpFairness ==
    /\ \A p \in Prompts :
        /\ WF_acpVars(PromptStep(p))
        /\ WF_acpVars(TaskOpens(p) \/ TaskDecides(p) \/ TaskEnds(p) \/ TaskCancelled(p))
    /\ \A c \in Cancels : WF_acpVars(CancelStep(c))

AcpSpec == AcpInit /\ [][AcpNext]_acpVars /\ AcpFairness

-----------------------------------------------------------------------------
(***************************************************************************)
(* Properties.                                                             *)
(***************************************************************************)

\* The types of the server's state.
AcpTypeOK ==
    /\ announced \in BOOLEAN /\ cancelled \in BOOLEAN /\ unfinished \in BOOLEAN
    /\ turn \in Prompts \cup {NoTurn} /\ runtime \in Prompts \cup {NoTurn}
    /\ req \in [Prompts ->
          [at : {"unsent", "announcing", "local", "turn", "limits", "answered"},
           kind : Kinds,
           answer : {"none", "busy", "end_turn", "cancelled", "aborted", "usage_limit",
                     "max_turn_requests", "error"}]]
    /\ task \in [Prompts ->
          [at : {"none", "new", "open", "stream", "asking", "closing", "done"},
           hit : BOOLEAN,
           how : {"none", "completed", "stopped", "failed", "limit", "paused", "raised",
                  "cancelled"},
           resumes : BOOLEAN]]
    /\ stop \in [Cancels -> [at : {"unsent", "hosted", "tools", "strike", "done"},
                             aim : Prompts \cup {NoTurn}]]
    /\ asked \subseteq Prompts /\ journal \in BOOLEAN
    /\ measured \in 0..MaxUsage /\ known \in 0..MaxUsage /\ meter \in 0..MaxUsage
    /\ wanted \subseteq Prompts /\ struck \subseteq Prompts

\* A prompt ends with the stop reason "cancelled" exactly when a session/cancel
\* came while its turn ran, however the turn then ended and whatever an earlier
\* turn of the session left behind (prompt: session.cancelled).
StopReasonFollowsCancel ==
    \A p \in Prompts : Answered(p) => (req[p].answer = "cancelled" <=> p \in wanted)

\* What an answer says of the thread is true of it.  "max_turn_requests" tells the
\* client that the next "continue" resumes the turn: its journal stays until
\* another turn starts.  A turn that ended and was not cancelled leaves the client's
\* context meter at the size in the checkpoint, although live sizes are throttled.
AnswersMatchTheThread ==
    \A p \in Prompts :
        /\ /\ req[p].answer = "max_turn_requests"
           /\ \A q \in Prompts : q > p => task[q].at \in {"none", "new", "open"}
           => journal
        /\ /\ req[p].answer \in {"end_turn", "max_turn_requests"} /\ task[p].at = "done"
           /\ \A q \in Prompts : q > p => task[q].at = "none"
           => meter = measured

\* A prompt whose turn was running when session/cancel came is answered, whatever
\* the hosted service and a permission request that waits for the client do.
CancelEndsThePrompt ==
    \A p \in Prompts : p \in wanted ~> Answered(p)

\* session/cancel "cancels the hosted turn and local tools" (docs/cli.md): the
\* turn it came for, not the one the client has started since.
CancelHitsOnlyItsTurn == struck = {}

\* "A turn is already running": one turn task at a time.
OneTurnAtATime == \A p, q \in Prompts : Live(p) /\ Live(q) => p = q
=============================================================================
