----------------------------- MODULE FrontEnds -----------------------------
(***************************************************************************)
(* What the two front ends without a screen make of a turn's events: the   *)
(* headless command (copper_main.py, _headless) its exit code and printed  *)
(* answer, the MCP server (copper_mcp.py, collect_turn) its payload.  Both *)
(* fold the recorded events of Transcript once the stream has ended and    *)
(* read the answer from the committed messages.                            *)
(***************************************************************************)
EXTENDS Transcript

\* _turn_failed: an error event, or a final that says so; the latter the graph
\* node never lets through, so a final of the stream is a success.
TurnFailed(events) ==
    FoldLeft(LAMBDA failed, e : failed \/ e.type = "error", FALSE, events)

ExitCode(events) == IF TurnFailed(events) THEN 1 ELSE 0

\* The content of the last committed message, a tool result's too.
AnswerOf(messages) ==
    IF messages = <<>> THEN <<>>
    ELSE IF Last(messages).kind = "ai" THEN Last(messages).text ELSE <<Last(messages).call>>

\* MUTANT: a report is normalized without the worker's status before it.
Digest_NoPrevious(events) ==
    FoldLeft(LAMBDA seen, e :
                 IF e.type = "worker" /\ e.val # "keepalive"
                 THEN [seen EXCEPT ![e.key] = Normalized("none", e.val)] ELSE seen,
             [w \in Workers |-> "none"], events)

\* _digest: the last status of every worker.
Digest(events) ==
    FoldLeft(LAMBDA seen, e :
                 IF e.type = "worker" /\ e.val # "keepalive"
                 THEN [seen EXCEPT ![e.key] = Normalized(@, e.val)] ELSE seen,
             [w \in Workers |-> "none"], events)

Payload == [ok |-> ~TurnFailed(recorded), text |-> AnswerOf(node.additions),
            workers |-> Digest(recorded)]

----------------------------------------------------------------------------
(* Properties *)

SinceLastRequest ==
    FoldLeft(LAMBDA text, e : IF e.type = "request" THEN <<>>
                              ELSE IF e.type = "text" THEN Append(text, e.val) ELSE text,
             <<>>, recorded)

\* All front ends tell the same story of a turn nobody cancelled: a script's
\* exit code, the payload of an MCP host, the phase on the terminal and how the
\* node ended agree, the workers end alike, and the answer handed over is
\* what was said after the last call, across resumes, unless the turn ended on a
\* bare result (_turn_failed, _headless, _digest, result, _finalize_turn).
FrontEndsAgree ==
    (end \in {"completed", "failed"} /\ ~stopAsked) =>
      /\ (ExitCode(recorded) = 0) = (end = "completed")
      /\ Payload.ok = (end = "completed")
      /\ PhaseOf = end
      /\ Payload.workers = view.workers
      /\ Last(node.additions).kind = "ai" =>
           Own(Payload.text) = Own(SinceLastRequest)

=============================================================================
