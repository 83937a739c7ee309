------------------------------ MODULE ChatContext ------------------------------
(***************************************************************************)
(* What the hosted model knows of a chat (chat_context.py, and the node's  *)
(* part of it in copper_graph.py): the transcript, the compaction that     *)
(* stands for its beginning, the last measured size, and the facts of      *)
(* interrupted turns, across compactions, kills, cancels and resumes.      *)
(*                                                                         *)
(* A message is a position of the transcript; positions are its id.  A     *)
(* turn asks at most one question.  The journal is one file here; its two  *)
(* copies are the subject of TurnDurability.                               *)
(***************************************************************************)
EXTENDS Integers, Sequences, FiniteSets

CONSTANTS
    MaxTurns,    \* bound: logical turns
    MaxMessages  \* bound: messages at which no turn starts or resumes

ASSUME ContextAssumption == MaxTurns \in Nat /\ MaxMessages \in Nat

TurnNumbers == 1..MaxTurns
NoSize == -1
None == [turn |-> 0]

VARIABLES
    messages,  \* the checkpoint's messages: human, say (text), asked (a question answered)
    summary,   \* copper_compaction: the cut, and the positions the text stands for
    size,      \* the newest measurement: the cut of the context that was measured
    facts,     \* copper_interrupted_facts: the turns whose answers it holds
    sidecar,   \* the thread's unfinished turn on disk, or None
    live,      \* the running node, or None
    mem,       \* its journal in memory
    request,   \* the last request sent: its turn and what it lets the model know
    answered,  \* history: turns whose question the user answered
    passedBy   \* history: turns resumed with an answer only their journal knew

contextVars == <<messages, summary, size, facts, sidecar, live, mem, request, answered, passedBy>>
checkpoint == <<messages, summary, size, facts>>
history == <<answered, passedBy>>

Message(kind, t) == [kind |-> kind, turn |-> t]
NoSummary == [cut |-> 0, covers |-> {}]

ContextInit ==
    /\ messages = <<>> /\ summary = NoSummary /\ size = NoSize /\ facts = {}
    /\ sidecar = None /\ live = None /\ mem = None
    /\ request = None /\ answered = {} /\ passedBy = {}

NotRunning == live = None
Newer(fresh, old) == IF fresh = NoSize THEN old ELSE fresh
Latest == IF messages = <<>> THEN 0 ELSE Cardinality({messages[p].turn : p \in DOMAIN messages} \ {0})

(***************************************************************************)
(* Compaction.                                                             *)
(***************************************************************************)

\* compaction_context: an entry for every human message and every text; tool
\* activity is an entry of its own only when no text follows it.
EntryEnds(from, to) ==
    {p \in (from + 1)..to :
        messages[p].kind # "asked" \/ p = to \/ messages[p + 1].kind # "say"}

\* compact_history over messages 1..to, the service keeping the messages after
\* the cut it chooses; work is an interrupted turn known only by its journal.
Compacted(to, work) ==
    LET ends == EntryEnds(summary.cut, to)
    IN  IF Cardinality(ends) + (IF work /\ ends # {} THEN 1 ELSE 0) < 2 THEN {}
        ELSE {[cut |-> c, covers |-> summary.covers \cup (summary.cut + 1)..c] : c \in ends}

\* /compact, for a chat without an unfinished turn; its reply sets the size.
CompactCommand ==
    /\ NotRunning /\ sidecar = None
    /\ \E sum \in Compacted(Len(messages), FALSE) : summary' = sum /\ size' = sum.cut
    /\ UNCHANGED <<messages, facts, sidecar, live, mem, request, history>>

(***************************************************************************)
(* A new turn.                                                             *)
(***************************************************************************)

\* MUTANT: only the interrupted turn's own answers are carried on.
FactsOf_OwnOnly(j) ==
    IF j = None THEN [answers |-> {}, size |-> NoSize]
    ELSE [answers |-> IF j.answered THEN {j.turn} ELSE {}, size |-> Newer(j.size, j.carriedSize)]

\* journal_facts, merged with what the interrupted turn carried itself.
FactsOf(j) ==
    IF j = None THEN [answers |-> {}, size |-> NoSize]
    ELSE [answers |-> j.carried \cup (IF j.answered THEN {j.turn} ELSE {}),
          size |-> Newer(j.size, j.carriedSize)]

\* The input is checkpointed before the node runs.
Send ==
    /\ NotRunning /\ Latest < MaxTurns /\ Len(messages) < MaxMessages
    /\ messages' = Append(messages, Message("human", Latest + 1))
    /\ live' = [turn |-> Latest + 1, at |-> "deciding", original |-> Len(messages) + 1,
                new |-> NoSummary, size |-> NoSize, shrunk |-> FALSE, additions |-> <<>>]
    /\ UNCHANGED <<summary, size, facts, sidecar, mem, request, history>>

AnswersIn(msgs) == {msgs[p].turn : p \in {q \in DOMAIN msgs : msgs[q].kind = "asked"}}

\* The work of the superseded turn is only in its journal.
LostWork(j) ==
    /\ j # None /\ (j.said \/ j.answered)
    /\ \A p \in (j.original + 1)..(Len(messages) - 1) : messages[p].kind = "human"

\* The journal of a new turn, before its state is pinned.
NewJournal(carried) ==
    [turn |-> live.turn, original |-> live.original, pinned |-> "never",
     cut |-> 0, covers |-> {}, answers |-> {}, known |-> NoSize,
     said |-> FALSE, answered |-> FALSE, size |-> NoSize,
     carried |-> carried.answers, carriedSize |-> carried.size]

\* _auto_compact over the messages before the query; then the turn's state and cut
\* are pinned and the journal saved.  Whether the estimate reaches the threshold is
\* left open; without a measurement there is none.  A failed compaction changes nothing.
Decide ==
    /\ live # None /\ live.at = "deciding"
    /\ LET carried == FactsOf(sidecar)
           known == Newer(carried.size, size)
       IN \E sum \in {NoSummary} \cup (IF known = NoSize THEN {}
                                       ELSE Compacted(live.original - 1, LostWork(sidecar))) :
          LET current == IF sum = NoSummary THEN summary ELSE sum
              j == [NewJournal(carried) EXCEPT
                       !.pinned = "first", !.cut = current.cut, !.covers = current.covers,
                       !.answers = AnswersIn(messages) \cup facts \cup carried.answers,
                       !.known = IF sum = NoSummary THEN known ELSE sum.cut]
          IN /\ mem' = j /\ sidecar' = j
             /\ live' = [live EXCEPT !.at = "running", !.new = sum]
    /\ UNCHANGED <<checkpoint, request, history>>

\* Cancelled while the compaction is awaited: mark_interrupted saves the journal,
\* nothing pinned.
CancelDeciding ==
    /\ live # None /\ live.at = "deciding"
    /\ LET carried == FactsOf(sidecar)
       IN Newer(carried.size, size) # NoSize /\ sidecar' = NewJournal(carried)
    /\ live' = None
    /\ UNCHANGED <<checkpoint, mem, request, history>>

Sent(j) == [turn |-> j.turn, original |-> j.original, pinned |-> j.pinned, cut |-> j.cut,
            covers |-> j.covers, answers |-> j.answers, known |-> j.known]

\* MUTANT: a resume sends the state the chat has by now.
Payload_Rebuilt(j) ==
    [Sent(j) EXCEPT !.cut = summary.cut, !.covers = summary.covers,
                    !.answers = AnswersIn(messages) \cup facts]

\* Every attempt sends the pinned state and cut.
Payload(j) == Sent(j)

Attempt ==
    /\ live # None /\ live.at = "running"
    /\ request' = Payload(mem)
    /\ live' = [live EXCEPT !.at = "streaming"]
    /\ UNCHANGED <<checkpoint, sidecar, mem, history>>

(***************************************************************************)
(* "continue ..." or /resume.                                              *)
(***************************************************************************)

\* A journal without a pinned state gets the state of now, without a cut.
Pinned(j) ==
    IF j.pinned # "never" THEN j
    ELSE [j EXCEPT !.pinned = "resumed", !.covers = summary.covers,
                   !.answers = AnswersIn(messages) \cup facts]

Resume ==
    /\ NotRunning /\ sidecar # None /\ Len(messages) < MaxMessages
    /\ \E typed \in {<<>>, <<Message("human", 0)>>} : messages' = messages \o typed
    /\ LET reached == \E p \in (sidecar.original + 1)..Len(messages) : messages[p].kind # "human"
       IN live' = [turn |-> sidecar.turn, at |-> "running", original |-> sidecar.original,
                   new |-> NoSummary, size |-> NoSize, shrunk |-> FALSE,
                   additions |-> IF sidecar.said /\ ~reached
                                 THEN <<Message("say", sidecar.turn)>> ELSE <<>>]
    /\ mem' = Pinned(sidecar) /\ sidecar' = mem'
    /\ passedBy' = IF sidecar.answered /\ sidecar.turn \notin AnswersIn(messages)
                   THEN passedBy \cup {sidecar.turn} ELSE passedBy
    /\ UNCHANGED <<summary, size, facts, request, answered>>

(***************************************************************************)
(* The stream.                                                             *)
(***************************************************************************)

Streaming == live # None /\ live.at = "streaming"

Adds(kind) == live' = [live EXCEPT !.additions = Append(@, Message(kind, live.turn))]

\* Text is saved with the journal now and then, tool results at once.
Text ==
    /\ Streaming /\ ~mem.said
    /\ Adds("say")
    /\ mem' = [mem EXCEPT !.said = TRUE]
    /\ sidecar' \in {sidecar, mem'}
    /\ UNCHANGED <<checkpoint, request, history>>

QuestionAnswered ==
    /\ Streaming /\ ~mem.answered
    /\ Adds("asked")
    /\ mem' = [mem EXCEPT !.answered = TRUE]
    /\ sidecar' = mem'
    /\ answered' = answered \cup {live.turn}
    /\ UNCHANGED <<checkpoint, request, passedBy>>

\* The service sums up the history before the query, once.
InTurnCompaction ==
    /\ Streaming /\ ~live.shrunk
    /\ live' = [live EXCEPT !.shrunk = TRUE]
    /\ UNCHANGED <<checkpoint, sidecar, mem, request, history>>

\* _note_usage: the size of what the model is working with.
Measured ==
    /\ Streaming
    /\ LET under == IF live.shrunk THEN live.original - 1 ELSE mem.cut
       IN /\ live.size # under
          /\ live' = [live EXCEPT !.size = under] /\ mem' = [mem EXCEPT !.size = under]
    /\ sidecar' \in {sidecar, mem'}
    /\ UNCHANGED <<checkpoint, request, history>>

\* MUTANT: the in-turn compaction is taken to cover the query.
InTurnCut_Query == live.original

InTurnCut == IF live.original >= 2 THEN live.original - 1
             ELSE IF live.new # NoSummary THEN live.new.cut ELSE summary.cut

\* result() and _context_result: the transcript, the compaction of the turn or
\* else the one before it, the measurement, the facts.
Ends ==
    /\ Streaming
    /\ \E how \in {"completed", "paused", "failed"} :
        LET text == how # "completed" \/ live.additions = <<>>
        IN /\ messages' = messages \o live.additions
                          \o (IF text THEN <<Message("say", live.turn)>> ELSE <<>>)
           /\ sidecar' = IF how = "paused" THEN mem ELSE None
    /\ summary' = IF live.shrunk
                  THEN [cut |-> InTurnCut, covers |-> mem.covers \cup (mem.cut + 1)..(live.original - 1)]
                  ELSE IF live.new # NoSummary THEN live.new ELSE summary
    /\ size' = Newer(live.size, IF live.new # NoSummary THEN live.new.cut
                                ELSE Newer(mem.carriedSize, size))
    /\ facts' = facts \cup mem.carried
    /\ live' = None /\ mem' = None
    /\ UNCHANGED <<request, history>>

\* Cancelled while it runs: nothing is committed, the journal is saved.
Cancel ==
    /\ Streaming
    /\ sidecar' = mem
    /\ live' = None /\ mem' = None
    /\ UNCHANGED <<checkpoint, request, history>>

\* A kill, or a cancel before the journal was saved: the journal on disk stays.
Kill ==
    /\ live # None
    /\ live' = None /\ mem' = None
    /\ UNCHANGED <<checkpoint, sidecar, request, history>>

ContextNext ==
    \/ CompactCommand \/ Send \/ Decide \/ CancelDeciding \/ Attempt \/ Resume
    \/ Text \/ QuestionAnswered \/ InTurnCompaction \/ Measured
    \/ Ends \/ Cancel \/ Kill

ContextSpec == ContextInit /\ [][ContextNext]_contextVars

-----------------------------------------------------------------------------
(***************************************************************************)
(* Properties.                                                             *)
(***************************************************************************)

\* Every message before the query reaches the model: it is sent, or the summary
\* that is sent stands for it, the tool activity included (after_cut, context_cut,
\* compaction_context, _context_result).
HistoryOrSummary ==
    request # None =>
        \A p \in 1..(request.original - 1) :
            p > request.cut \/ p \in request.covers

\* All attempts of a logical turn send the same state and cut, also after a kill
\* and in another process, whatever was compacted or answered meanwhile.
AttemptsSendTheSame ==
    [][request # None /\ request'.turn = request.turn => request' = request]_contextVars

\* A new turn lets the model know every answer given in turns that ended, and in
\* turns that were interrupted and superseded, however many in a row (ask_answers,
\* journal_facts, merge_facts).  Set aside, see EveryAnswerIsSent: passedBy, and a
\* turn cancelled before its state was pinned.
SupersededAnswersAreSent ==
    request # None /\ request.pinned = "first" =>
        \A t \in answered \ passedBy : t < request.turn => t \in request.answers

\* ask_answers: "every answered or skipped ask_user_question".
EveryAnswerIsSent ==
    request # None => \A t \in answered : t < request.turn => t \in request.answers

\* The size that decides whether a new turn compacts first was measured for no
\* less of the history than the turn sends (_auto_compact, context_estimate).
MeasuredIsWhatIsSent == request # None => request.known <= request.cut

\* The types of the chat's state.
ContextTypeOK ==
    /\ messages \in Seq([kind : {"human", "say", "asked"}, turn : TurnNumbers \cup {0}])
    /\ summary.cut \in 0..Len(messages) /\ summary.covers \subseteq 1..Len(messages)
    /\ size \in Int /\ facts \subseteq TurnNumbers
    /\ answered \subseteq TurnNumbers /\ passedBy \subseteq answered
    /\ (live = None) = (mem = None) \/ live.at = "deciding"
=============================================================================
