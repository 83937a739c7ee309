---------------------------- MODULE Transcript ----------------------------
(***************************************************************************)
(* One turn as three parties keep it: the graph node folds the hosted      *)
(* stream into the messages it commits (copper_graph.py, _TurnRun), the    *)
(* terminal draws the same events as they pass (copper_app.py,             *)
(* _custom_event), and an ACP client is sent them as updates               *)
(* (copper_acp.py, _emit).  A chat that is opened again is drawn from what *)
(* was committed: _hydrate in the terminal, replay_updates over ACP.       *)
(*                                                                         *)
(* The server and the tools are the environment.  A text is the sequence   *)
(* of its chunks, a chunk the place at which it was streamed.  The stream  *)
(* hands events over in order and is drained before the turn ends, so an   *)
(* event is drawn in the step that emits it.                               *)
(***************************************************************************)
EXTENDS EventGate, SequencesExt

CONSTANTS
    CallIds,      \* tool call ids the server may use
    Workers,      \* ids of hosted survey workers
    Outcomes,     \* what a tool may answer: "ok", "error", "exit", "rejected"
    Reports,      \* statuses a worker may report; "missing", "keepalive"
    Numbered,     \* the server numbers its frames
    MaxFrames,    \* bound: events of the turn
    MaxAttempts   \* bound: hosted attempts of the turn

ASSUME TranscriptAssumption ==
    /\ CallIds \cap Workers = {} /\ Numbered \in BOOLEAN
    /\ Outcomes \subseteq {"ok", "error", "exit", "rejected"}
    /\ MaxFrames \in Nat /\ MaxAttempts \in Nat /\ NoTurn \notin 1..MaxAttempts

VARIABLES
    node,      \* additions, text and pending_tools
    recorded,  \* recorded_events
    attempt,   \* the hosted attempt that streams
    sequence,  \* the number of its last frame
    stopAsked, \* the user asked to cancel
    end,       \* how the node ended
    view,      \* the terminal
    client,    \* the ACP client
    closed     \* the terminal has run _finalize_turn

transcriptVars == <<node, recorded, attempt, sequence, stopAsked, end, view, client, closed>>

Echo == 0      \* a chunk that repeats the copy of the failed final after it
Keys == CallIds \cup Workers

Failing(outcome) == outcome # "ok"
Status(outcome) ==
    IF outcome = "rejected" THEN "rejected" ELSE IF Failing(outcome) THEN "error" ELSE "success"

----------------------------------------------------------------------------
(* The node: _track, settle_pending_tools, result *)

Ai(text, calls) == [kind |-> "ai", text |-> text, calls |-> calls]

\* _tool_result_message.
ToolMessage(call, outcome) ==
    [kind |-> "tool", call |-> call, failed |-> Failing(outcome),
     rejected |-> outcome = "rejected"]

Said(n, chunk) == [n EXCEPT !.text = Append(@, chunk)]

\* A parallel batch keeps its calls on one assistant message.
JoinsBatch(n) ==
    /\ n.text = <<>> /\ n.additions # <<>>
    /\ Last(n.additions).kind = "ai" /\ Last(n.additions).calls # <<>>

\* MUTANT: a call joins the batch before it even if text came in between.
Requested_JoinsOverText(n, call) ==
    [additions |-> IF n.additions # <<>> /\ Last(n.additions).kind = "ai"
                   THEN [n.additions EXCEPT ![Len(n.additions)].calls = Append(@, call)]
                   ELSE Append(n.additions, Ai(n.text, <<call>>)),
     text |-> <<>>, pending |-> Append(n.pending, call)]

Requested(n, call) ==
    [additions |-> IF JoinsBatch(n)
                   THEN [n.additions EXCEPT ![Len(n.additions)].calls = Append(@, call)]
                   ELSE Append(n.additions, Ai(n.text, <<call>>)),
     text |-> <<>>, pending |-> Append(n.pending, call)]

Answered(n, call, outcome) ==
    [n EXCEPT !.additions = Append(@, ToolMessage(call, outcome)),
              !.pending = RemoveFirst(@, call)]

\* settle_pending_tools: an error for every call that is still open.
CallsSettled(n) ==
    [n EXCEPT !.additions = @ \o [i \in 1..Len(n.pending) |-> ToolMessage(n.pending[i], "error")],
              !.pending = <<>>]

\* _drop_echoed_error: the hosted error copy is no part of the answer.
WithoutEcho(n) ==
    IF n.text # <<>> /\ Last(n.text) = Echo THEN [n EXCEPT !.text = Front(@)] ELSE n

\* result: a failed or cancelled turn adds a message for its hidden context.
Result(n, hidden) ==
    LET s == CallsSettled(n) IN
    IF s.text # <<>> \/ s.additions = <<>> \/ hidden
    THEN [s EXCEPT !.additions = Append(@, Ai(s.text, <<>>)), !.text = <<>>]
    ELSE s

----------------------------------------------------------------------------
(* The terminal: the cards, their work runs, _custom_event, _hydrate *)

Blank == [gate |-> FreshState, cards |-> <<>>, card |-> [k \in Keys |-> 0],
          runs |-> <<>>, run |-> 0, texts |-> <<>>, assistant |-> 0,
          thoughts |-> <<>>, thought |-> 0, workers |-> [w \in Workers |-> "none"],
          errors |-> 0, errorRendered |-> FALSE]

\* _ensure_work_run; a run is known by whether it is marked failed.
InRun(s) ==
    IF s.run # 0 THEN s ELSE [s EXCEPT !.runs = Append(@, FALSE), !.run = Len(s.runs) + 1]

RunClosed(s) == [s EXCEPT !.run = 0]
MarkFailed(s, run) == [s EXCEPT !.runs = [i \in DOMAIN @ |-> @[i] \/ i = run]]
StreamsClosed(s) == [s EXCEPT !.assistant = 0, !.thought = 0]

Speak(s, chunk) ==
    LET t == IF s.assistant # 0 THEN s
             ELSE [s EXCEPT !.texts = Append(@, <<>>), !.assistant = Len(s.texts) + 1] IN
    [t EXCEPT !.texts[t.assistant] = Append(@, chunk), !.thought = 0]

Think(s, chunk) ==
    LET t == IF s.thought # 0 THEN s
             ELSE [InRun(s) EXCEPT !.thoughts = Append(@, <<>>), !.thought = Len(s.thoughts) + 1] IN
    [t EXCEPT !.thoughts[t.thought] = Append(@, chunk)]

\* A new card; a call that is asked for again gets a second one.
AddCard(s, key) ==
    LET t == InRun(s) IN
    [t EXCEPT !.cards = Append(@, [key |-> key, status |-> "running", run |-> t.run]),
              !.card[key] = Len(t.cards) + 1]

\* set_success, set_error, set_rejected: a rejected card takes no other error.
SetStatus(s, i, status) ==
    IF s.cards[i].status = "rejected" /\ status # "success" THEN s
    ELSE [s EXCEPT !.cards[i].status = status]

\* MUTANT: the run that is open is marked, not the run of the card.
CardAnswered_OpenRun(s, call, status) ==
    IF s.card[call] = 0 THEN s
    ELSE LET t == SetStatus(s, s.card[call], status) IN
         IF status = "success" THEN t ELSE MarkFailed(t, t.run)

CardAnswered(s, call, status) ==
    IF s.card[call] = 0 THEN s
    ELSE LET t == SetStatus(s, s.card[call], status) IN
         IF status = "success" THEN t ELSE MarkFailed(t, t.cards[s.card[call]].run)

\* _settle_active_tools: of the registered cards, those of workers not among them.
ActiveSettled(s) ==
    [s EXCEPT !.cards =
        [i \in DOMAIN @ |-> IF (\E c \in CallIds : s.card[c] = i) /\ @[i].status = "running"
                            THEN [@[i] EXCEPT !.status = "error"] ELSE @[i]]]

\* normalize_subagent_status: a report without a status repeats the one before.
Normalized(before, report) ==
    IF report # "missing" THEN report
    ELSE IF before # "none" THEN before ELSE "failed"

WorkerDrawn(s, w, report) ==
    LET status == Normalized(s.workers[w], report)
        t == IF s.card[w] = 0 THEN AddCard(s, w) ELSE InRun(s)
        i == t.card[w]
        u == [t EXCEPT !.workers[w] = status,
                       !.cards[i].status = IF status = "failed" THEN "error" ELSE status] IN
    IF status \in {"failed", "cancelled"} THEN MarkFailed(u, u.run) ELSE u

ErrorDrawn(s) ==
    LET t == ActiveSettled(s) IN
    [RunClosed(MarkFailed(t, t.run)) EXCEPT !.errorRendered = TRUE, !.errors = @ + 1]

Drawn(s, e) ==
    CASE e.type = "text"      -> Speak(RunClosed(s), e.val)
      [] e.type = "reasoning" -> Think(s, e.val)
      [] e.type = "request"   -> AddCard(StreamsClosed(s), e.key)
      [] e.type = "result"    -> StreamsClosed(CardAnswered(s, e.key, Status(e.val)))
      [] e.type = "worker"    -> IF e.val = "keepalive" THEN s ELSE WorkerDrawn(s, e.key, e.val)
      [] e.type = "final"     -> RunClosed(s)
      [] e.type = "error"     -> ErrorDrawn(s)

\* _custom_event: what the gate refuses is not drawn.
Draw(s, e) ==
    LET t == [s EXCEPT !.gate = Applied(@, e)] IN
    IF Accepts(s.gate, e) THEN Drawn(t, e) ELSE t

\* _finalize_turn.
Finalized(s, phase) ==
    LET t == IF phase = "completed" THEN s ELSE ActiveSettled(s) IN
    RunClosed(IF phase = "completed" THEN t ELSE MarkFailed(t, t.run))

MessageDrawn(s, m) ==
    IF m.kind = "tool"
    THEN CardAnswered(s, m.call,
             IF m.rejected THEN "rejected" ELSE IF m.failed THEN "error" ELSE "success")
    ELSE LET t == IF m.text = <<>> THEN s
                  ELSE [RunClosed(s) EXCEPT !.texts = Append(@, m.text)] IN
         FoldLeft(AddCard, t, m.calls)

ReplaySkipped == {"text", "request", "result"}

Rehydrated(s, e) == IF e.type \in ReplaySkipped THEN s ELSE Draw(s, e)

\* _hydrate: the messages, then the events that are not in them.
Hydrated(messages, events) ==
    FoldLeft(Rehydrated, RunClosed(FoldLeft(MessageDrawn, Blank, messages)), events)

----------------------------------------------------------------------------
(* An ACP client: _emit, subagent_tool_update, replay_updates *)

NewClient == [text |-> <<>>, card |-> [k \in Keys |-> "none"]]

Outcome(outcome) == IF Failing(outcome) THEN "failed" ELSE "completed"

Emitted(c, e) ==
    CASE e.type = "text" -> [c EXCEPT !.text = Append(@, e.val)]
      [] e.type = "request" -> [c EXCEPT !.card[e.key] = "in_progress"]
      [] e.type = "result" -> [c EXCEPT !.card[e.key] = Outcome(e.val)]
      [] e.type = "worker" /\ e.val # "keepalive" ->
           [c EXCEPT !.card[e.key] = Normalized(@, e.val)]
      [] OTHER -> c

MessageSent(c, m) ==
    IF m.kind = "tool"
    THEN [c EXCEPT !.card[m.call] = IF m.failed THEN "failed" ELSE "completed"]
    ELSE [text |-> c.text \o m.text,
          card |-> [k \in Keys |-> IF Contains(m.calls, k) THEN "completed" ELSE c.card[k]]]

Replayed(messages) == FoldLeft(MessageSent, NewClient, messages)

----------------------------------------------------------------------------
(* The turn *)

TranscriptInit ==
    /\ node = [additions |-> <<>>, text |-> <<>>, pending |-> <<>>]
    /\ recorded = <<>> /\ attempt = 1 /\ sequence = 0
    /\ stopAsked = FALSE /\ end = "none" /\ closed = FALSE
    /\ view = Blank /\ client = NewClient

FrameMayCome == end = "none" /\ Len(recorded) < MaxFrames
Chunk == Len(recorded) + 1

FrameEvent(type, key, val, number) ==
    [type |-> type, key |-> key, val |-> val, turn |-> attempt, attempt |-> NoAttempt,
     seq |-> IF Numbered THEN number ELSE NoSequence]

\* emit: written to the stream and recorded.
EmitEvent(e) ==
    /\ recorded' = Append(recorded, e)
    /\ view' = Draw(view, e)
    /\ client' = Emitted(client, e)

\* One event of a frame.  All events of a frame carry its number, and a result
\* the number of the frame that was read last.
Receive(type, key, val, newFrame) ==
    LET number == IF newFrame THEN sequence + 1 ELSE sequence IN
    /\ FrameMayCome
    /\ EmitEvent(FrameEvent(type, key, val, number))
    /\ sequence' = IF Numbered THEN number ELSE 0
    /\ UNCHANGED <<attempt, stopAsked, end, closed>>

SpeakText(chunk) ==
    /\ Receive("text", "none", chunk, TRUE)
    /\ node' = Said(node, chunk)

Reason(newFrame) ==
    /\ Receive("reasoning", "none", Chunk, newFrame)
    /\ UNCHANGED node

RequestTool(call, newFrame) ==
    /\ ~Contains(node.pending, call)
    /\ Receive("request", call, "none", newFrame)
    /\ node' = Requested(node, call)

AnswerTool(call, outcome) ==
    /\ Contains(node.pending, call)
    /\ Receive("result", call, outcome, FALSE)
    /\ node' = Answered(node, call, outcome)

ReportWorker(w, report, newFrame) ==
    /\ Receive("worker", w, report, newFrame)
    /\ UNCHANGED node

NewAttempt == attempt' = attempt + 1 /\ sequence' = 0

\* The node's own copy of the workers' statuses.
WorkerStatus(w) ==
    FoldLeft(LAMBDA before, e : IF e.type = "worker" /\ e.key = w /\ e.val # "keepalive"
                                THEN Normalized(before, e.val) ELSE before, "none", recorded)

\* A worker that has ended leaves its transcript, a background command its output.
HasContext ==
    \/ \E w \in Workers : WorkerStatus(w) \notin {"none", "running"}
    \/ \E i \in DOMAIN recorded : recorded[i].type = "final"

\* A final after every result; with background output the turn goes on.
FinalFrame(continued) ==
    /\ node.pending = <<>> /\ attempt <= MaxAttempts
    /\ continued => attempt < MaxAttempts
    /\ FrameMayCome
    /\ EmitEvent(FrameEvent("final", "none", "none", sequence + 1))
    /\ IF continued THEN NewAttempt /\ UNCHANGED <<node, end>>
       ELSE /\ node' = Result(node, HasContext) /\ end' = "completed"
            /\ UNCHANGED <<attempt, sequence>>
    /\ UNCHANGED <<stopAsked, closed>>

\* A dropped stream, or a failed final that may have echoed its copy.
Broken(onFinal) == CallsSettled(IF onFinal THEN WithoutEcho(node) ELSE node)

ResumeAttempt(onFinal) ==
    /\ FrameMayCome /\ ~stopAsked /\ attempt < MaxAttempts
    /\ node' = Broken(onFinal)
    /\ NewAttempt
    /\ UNCHANGED <<recorded, stopAsked, end, view, client, closed>>

GiveUp(onFinal) ==
    /\ FrameMayCome /\ ~stopAsked
    /\ EmitEvent(FrameEvent("error", "none", "none", NoSequence))
    /\ node' = Result(Broken(onFinal), TRUE) /\ end' = "failed"
    /\ UNCHANGED <<attempt, sequence, stopAsked, closed>>

AskCancel ==
    /\ end = "none" /\ ~stopAsked
    /\ stopAsked' = TRUE
    /\ UNCHANGED <<node, recorded, attempt, sequence, end, view, client, closed>>

StopCancelled ==
    /\ end = "none" /\ stopAsked
    /\ node' = Result(Broken(FALSE), TRUE) /\ end' = "cancelled"
    /\ UNCHANGED <<recorded, attempt, sequence, stopAsked, view, client, closed>>

\* The end of _run_turn.
PhaseOf ==
    IF stopAsked THEN "cancelled" ELSE IF view.errorRendered THEN "failed" ELSE "completed"

CloseTurn ==
    /\ end # "none" /\ ~closed
    /\ view' = Finalized(view, PhaseOf)
    /\ closed' = TRUE
    /\ UNCHANGED <<node, recorded, attempt, sequence, stopAsked, end, client>>

Frames == IF Numbered THEN BOOLEAN ELSE {TRUE}

TranscriptNext ==
    \/ \E chunk \in {Chunk, Echo} : SpeakText(chunk)
    \/ \E newFrame \in Frames : Reason(newFrame)
    \/ \E call \in CallIds, newFrame \in Frames : RequestTool(call, newFrame)
    \/ \E call \in CallIds, outcome \in Outcomes : AnswerTool(call, outcome)
    \/ \E w \in Workers, report \in Reports, newFrame \in Frames :
          ReportWorker(w, report, newFrame)
    \/ \E b \in BOOLEAN : FinalFrame(b) \/ ResumeAttempt(b) \/ GiveUp(b)
    \/ AskCancel \/ StopCancelled \/ CloseTurn

TranscriptSpec == TranscriptInit /\ [][TranscriptNext]_transcriptVars

----------------------------------------------------------------------------
(* Properties *)

Flat(texts) == FoldLeft(LAMBDA text, more : text \o more, <<>>, texts)
Own(text) ==
    FoldLeft(LAMBDA own, chunk : IF chunk = Echo THEN own ELSE Append(own, chunk), <<>>, text)
AiTexts(messages) == [i \in DOMAIN messages |->
                        IF messages[i].kind = "ai" THEN messages[i].text ELSE <<>>]
Streamed == [i \in DOMAIN recorded |->
               IF recorded[i].type = "text" THEN <<recorded[i].val>> ELSE <<>>]

Asks(m, call) == m.kind = "ai" /\ Contains(m.calls, call)
Answers(m, call) == m.kind = "tool" /\ m.call = call

\* The message at j is the next one of the call after the one at i.
NextOf(messages, call, i, j) ==
    i < j /\ \A k \in (i + 1)..(j - 1) : ~Asks(messages[k], call) /\ ~Answers(messages[k], call)

\* The messages a turn commits are a history the service accepts: a request of a
\* call is followed by a result of it, and a result preceded by a request of it,
\* with no other message of that call between them, whatever was dropped, resumed
\* or cancelled; and the text is what was streamed, in order, save for echoed
\* error copy (_track, settle_pending_tools, _drop_echoed_error, result).
CommittedTurnIsWhole ==
    end # "none" =>
      /\ \A call \in CallIds : \A i \in DOMAIN node.additions :
           /\ Asks(node.additions[i], call) =>
                \E j \in DOMAIN node.additions :
                   NextOf(node.additions, call, i, j) /\ Answers(node.additions[j], call)
           /\ Answers(node.additions[i], call) =>
                \E j \in DOMAIN node.additions :
                   NextOf(node.additions, call, j, i) /\ Asks(node.additions[j], call)
      /\ Own(Flat(AiTexts(node.additions))) = Own(Flat(Streamed))

OfCall(cards, card) == IF card.key \in CallIds THEN Append(cards, card) ELSE cards
CallCards(s) == FoldLeft(OfCall, <<>>, s.cards)
Shows(s, w) == IF s.card[w] = 0 THEN "none" ELSE s.cards[s.card[w]].status

\* A chat that is opened again shows the turn as it was left: the same text, the
\* same errors, the same workers, and every call the live screen or the ACP
\* client had seen end with the outcome it had there (_custom_event and
\* _hydrate, _emit and replay_updates).
ReloadShowsTheTurn ==
    closed =>
      LET again == Hydrated(node.additions, recorded)
          sent == Replayed(node.additions) IN
      /\ Len(CallCards(again)) = Len(CallCards(view))
      /\ \A i \in DOMAIN CallCards(view) :
           LET live == CallCards(view)[i] IN
           live.status # "running" =>
               CallCards(again)[i].status = live.status /\ CallCards(again)[i].key = live.key
      /\ \A w \in Workers : Shows(again, w) = Shows(view, w)
      /\ Own(Flat(again.texts)) = Own(Flat(view.texts))
      /\ Flat(again.thoughts) = Flat(view.thoughts)
      /\ again.errors = view.errors
      /\ Own(sent.text) = Own(client.text)
      /\ \A c \in CallIds : client.card[c] \in {"failed", "completed"} => sent.card[c] = client.card[c]

\* No call of a turn that failed or was cancelled is left running on the screen,
\* and in a turn that completed, wherever it is drawn, a failed call stands in a
\* work run that is marked failed and so stays open (_settle_active_tools,
\* mark_failed).
EndedCardsAreSettled ==
    closed =>
      /\ (end \in {"failed", "cancelled"}) =>
           \A c \in CallIds : Shows(view, c) # "running"
      /\ (end = "completed" /\ ~stopAsked) =>
           \A s \in {view, Hydrated(node.additions, recorded)} :
             \A i \in DOMAIN s.cards :
               (s.cards[i].key \in CallIds /\ s.cards[i].status \in {"error", "rejected"})
                 => s.runs[s.cards[i].run]

\* The screen tells of a turn what happened, live and when it is opened again.
TranscriptIsFaithful == ReloadShowsTheTurn /\ EndedCardsAreSettled

\* Every event of the stream reaches the screen: a call the server asked for has
\* its card, and a card whose result was streamed runs no more.
StreamIsDrawn ==
    \A c \in CallIds :
      LET Of(e) == e.type \in {"request", "result"} /\ e.key = c
          heard == SelectSeq(recorded, Of) IN
      heard # <<>> =>
        /\ Shows(view, c) # "none"
        /\ Last(heard).type = "result" => Shows(view, c) # "running"

=============================================================================
