---------------------------- MODULE FrameLimits ----------------------------
(***************************************************************************)
(* What is left out to make a message to the service small enough: the     *)
(* chat history of a chat_start (copper_protocol.py, make_chat_start), the *)
(* tool results of a resume (turn_journal.py, resume_payload), the lines   *)
(* of a file that is read in pages (deepagents_tools.py,                   *)
(* _read_text_window).                                                     *)
(*                                                                         *)
(* A message, a result and a line are their size.                          *)
(***************************************************************************)
EXTENDS Naturals, SequencesExt

CONSTANTS
    Rungs,         \* attempts: what a message, all messages and the frame may measure
    MaxEntries,    \* MAX_CONTEXT_ENTRIES
    Escaping,      \* bytes of JSON for a byte of history
    ResumeLimit,   \* MAX_RESUME_PAYLOAD_BYTES
    ClippedText,   \* what a text that does not fit a resume is clipped to
    NoteSize,      \* the note in place of a result
    ReadLimit,     \* what the lines of a page may measure
    HeaderSize,    \* what a whole file may measure more
    Chats, Queries, Results, PartialTexts, Files,  \* the sizes that occur
    MaxEvents, MaxStarts                           \* bounds: tool calls, attempts of the turn

\* A context has room for a message, and splitting a text gives a line at least.
ASSUME FrameLimitsAssumption ==
    /\ {MaxEntries, Escaping, ResumeLimit, ClippedText, NoteSize, ReadLimit, HeaderSize,
        MaxEvents, MaxStarts} \subseteq Nat
    /\ MaxEntries # 0
    /\ Queries \cup Results \cup PartialTexts \subseteq Nat
    /\ \A rung \in Range(Rungs) : {rung.message, rung.total, rung.frame} \subseteq Nat
    /\ Chats \subseteq Seq(Nat) /\ Files \subseteq Seq(Nat) \ {<<>>}

VARIABLES
    chat,     \* the messages after the cut
    query,    \* what else is in the frame
    partial,  \* TurnJournal.assistant_text
    results,  \* TurnJournal.tool_events, by their results
    starts,   \* the chat_starts of the turn
    lines,    \* the file that is read
    pages     \* its pages so far: the lines, and whether there is a next one

frameVars == <<chat, query, partial, results, starts, lines, pages>>

Smaller(a, b) == IF a < b THEN a ELSE b
Sum(sizes) == FoldLeft(LAMBDA total, size : total + size, 0, sizes)
LastOf(seq, k) == SubSeq(seq, Len(seq) - k + 1, Len(seq))

----------------------------------------------------------------------------
(* The history of a chat_start *)

Note == [role |-> "note", size |-> 0, at |-> 0]

\* bound_context: the newest that fit, one in any case.
Bounded(rung) ==
    LET clipped == [i \in DOMAIN chat |->
                       [role |-> "message", size |-> Smaller(chat[i], rung.message), at |-> i]]
        SizeOfLast(k) == Sum([i \in 1..k |-> LastOf(clipped, k)[i].size])
        kept == LastOf(clipped, Max({k \in 0..Smaller(Len(chat), MaxEntries) :
                                        k <= 1 \/ SizeOfLast(k) <= rung.total}))
    IN  IF Len(kept) < Len(chat) THEN <<Note>> \o kept ELSE kept

\* MUTANT: the note counts as a message that was kept.
Omitted_NoteCounted(bounded) == Len(chat) - Len(bounded)

\* omitted_messages
Omitted(bounded) ==
    Len(chat) - Len(IF bounded # <<>> /\ Head(bounded).role = "note" THEN Tail(bounded) ELSE bounded)

NoResume == [results |-> <<>>, partial |-> 0, left |-> {}]

PayloadSize(resume) == resume.partial + Sum([i \in DOMAIN resume.results |-> 1 + resume.results[i]])

TooLarge == [sent |-> FALSE]

\* make_chat_start
ChatStart(resume) ==
    LET SizeAt(rung) == query + PayloadSize(resume)
            + Escaping * Sum([i \in DOMAIN Bounded(rung) |-> Bounded(rung)[i].size])
        fitting == {i \in DOMAIN Rungs : SizeAt(Rungs[i]) <= Rungs[i].frame}
    IN  IF fitting = {} THEN TooLarge
        ELSE LET context == Bounded(Rungs[Min(fitting)])
             IN  [sent |-> TRUE, context |-> context, omitted |-> Omitted(context),
                  resume |-> resume, of |-> results]

----------------------------------------------------------------------------
(* The tool results of a resume *)

\* Its oldest results go first, for a note that may be longer.
Shrunk(n) ==
    [results |-> [i \in DOMAIN results |-> IF i <= n /\ results[i] > 0 THEN NoteSize ELSE results[i]],
     partial |-> partial,
     left |-> {i \in 1..n : results[i] > 0}]

\* resume_payload
ResumePayload ==
    LET fitting == {n \in 0..Len(results) : PayloadSize(Shrunk(n)) <= ResumeLimit}
    IN  IF fitting # {} THEN Shrunk(Min(fitting))
        ELSE [Shrunk(Len(results)) EXCEPT !.partial = Smaller(@, ClippedText)]

AttemptStarts ==
    /\ Len(starts) < MaxStarts
    /\ starts # <<>> => Last(starts).sent
    /\ starts' = Append(starts, ChatStart(IF starts = <<>> THEN NoResume ELSE ResumePayload))
    /\ UNCHANGED <<chat, query, partial, results, lines, pages>>

\* record_tool_request and record_tool_result; 0 is a call without a result.
ToolRuns ==
    /\ starts # <<>> /\ Last(starts).sent /\ Len(results) < MaxEvents
    /\ \E size \in Results : results' = Append(results, size)
    /\ UNCHANGED <<chat, query, partial, starts, lines, pages>>

----------------------------------------------------------------------------
(* The pages of a file *)

\* The lines of a page: as many as fit of those that are asked for, one in any case.
PageFrom(start, stop) ==
    LET Fits(k) == k <= 1 \/ Sum([i \in 1..k |-> lines[start + i - 1]]) <= ReadLimit
        k == Max({n \in 0..(stop - start + 1) : \A m \in 1..n : Fits(m)})
    IN  [start |-> start, end |-> start + k - 1, more |-> start + k - 1 < Len(lines)]

\* A read without an offset: the whole file when it fits.
FirstRead ==
    /\ pages = <<>>
    /\ pages' = <<IF Sum(lines) <= ReadLimit + HeaderSize
                  THEN [start |-> 1, end |-> Len(lines), more |-> FALSE]
                  ELSE PageFrom(1, Len(lines))>>
    /\ UNCHANGED <<chat, query, partial, results, starts, lines>>

\* The service asks for the line after the next offset, with a limit or without.
NextRead ==
    /\ pages # <<>> /\ Last(pages).more
    /\ LET start == Last(pages).end + 1 IN
       \E stop \in start..Len(lines) : pages' = Append(pages, PageFrom(start, stop))
    /\ UNCHANGED <<chat, query, partial, results, starts, lines>>

FrameInit ==
    /\ chat \in Chats /\ query \in Queries /\ partial \in PartialTexts
    /\ results = <<>> /\ starts = <<>>
    /\ lines \in Files /\ pages = <<>>

FrameNext == AttemptStarts \/ ToolRuns \/ FirstRead \/ NextRead

FrameSpec == FrameInit /\ [][FrameNext]_frameVars

----------------------------------------------------------------------------

\* Of the history the newest is sent, one in any case, in order and without a gap
\* after the note that stands for the rest, and the rest counted (bound_context,
\* omitted_messages).
HistoryIsCounted ==
    \A frame \in Range(starts) : frame.sent =>
        LET note == IF frame.omitted > 0 THEN 1 ELSE 0 IN
        /\ Len(frame.context) = note + Len(chat) - frame.omitted
        /\ \A i \in DOMAIN frame.context :
              IF i <= note THEN frame.context[i] = Note
              ELSE frame.context[i].role = "message" /\ frame.context[i].at = frame.omitted + i - note
        /\ chat # <<>> => frame.omitted < Len(chat)

\* A resume tells of every call, and a result is left out only when all before it
\* are, and never when nothing had to be (resume_payload).
ResultsGoOldestFirst ==
    \A frame \in Range(starts) : frame.sent /\ frame.resume # NoResume =>
        /\ Len(frame.resume.results) = Len(frame.of)
        /\ \A i \in frame.resume.left : \A j \in 1..(i - 1) : frame.of[j] > 0 => j \in frame.resume.left
        /\ frame.resume.left # {} => Sum([i \in DOMAIN frame.of |-> 1 + frame.of[i]]) + partial > ResumeLimit

\* The pages of a file are its lines, each once, and the last one says that it is.
PagesAreTheFile ==
    /\ \A i \in DOMAIN pages :
          /\ pages[i].start = (IF i = 1 THEN 1 ELSE pages[i - 1].end + 1)
          /\ pages[i].end >= pages[i].start
          /\ pages[i].more <=> pages[i].end # Len(lines)
          /\ pages[i].end > pages[i].start =>
               Sum(SubSeq(lines, pages[i].start, pages[i].end)) <= ReadLimit + HeaderSize

\* Whatever is left out of a message to the service is said in it: messages of the
\* history are counted, results replaced by a note, the next line is named.
LeftOutIsSaid == HistoryIsCounted /\ ResultsGoOldestFirst /\ PagesAreTheFile

\* A resumed attempt resends an identical session_state (make_chat_start).
ResumedHistoryIsTheSame ==
    \A i, j \in DOMAIN starts : starts[i].sent /\ starts[j].sent => starts[i].omitted = starts[j].omitted

=============================================================================
