--------------------------- MODULE TurnDurability ---------------------------
(***************************************************************************)
(* One chat thread over many turns, process kills and restarts: what the   *)
(* checkpoint and the sidecar journal together let the user resume         *)
(* (copper_graph.py: hosted_node, load_unfinished_turn, _close_journal,    *)
(* mark_interrupted; turn_journal.py: JournalStore).                       *)
(*                                                                         *)
(* TurnRun shows one run of the node from the inside.  Here a run is seen  *)
(* from the disk: it prepares, saves its journal, streams and runs tools,  *)
(* and ends; LangGraph then commits what the node returned.  A kill may    *)
(* come between any two of these steps.                                    *)
(***************************************************************************)
EXTENDS Integers, Sequences

CONSTANTS
  Calls,     \* tool calls the server may ask for in one turn
  MaxTurns,  \* bound: logical turns of the thread
  MaxRuns    \* bound: runs of the node

ASSUME BoundsAssumption == MaxTurns \in Nat \ {0} /\ MaxRuns \in Nat \ {0}

VARIABLES
  ckpt,      \* the thread's last checkpoint: messages, copper_resume, copper_turn_journal
  sidecar,   \* turns/<thread>.json
  proc,      \* what the CLI process is doing
  run,       \* the run of the node
  result,    \* what the node returned and LangGraph has not committed yet
  runs,      \* number of runs so far
  turns,     \* history: every logical turn, its first request and its fate
  ran,       \* history: tool calls that ran to a result, by turn
  lostCommit \* history: a process died between the end of a turn and its commit

vars == <<ckpt, sidecar, proc, run, result, runs, turns, ran, lostCommit>>

----------------------------------------------------------------------------
(* Messages and journals *)

\* "ask" stands for any request that is not a bare "continue".
Texts == {"ask", "continue"}

\* is_resume_request: nothing but the words of _RESUME_INTENTS.
IsResumeRequest(text) == text = "continue"

\* An AI message carries the text some runs of the node streamed.
Human(text)   == [who |-> "human", text |-> text, parts |-> {}]
Answer(parts) == [who |-> "ai", text |-> "", parts |-> parts]
Message       == [who : {"human", "ai"}, text : Texts \cup {""}, parts : SUBSET (1..MaxRuns)]

Journal == [root   : 0..MaxTurns,
            query  : Texts \cup {""},
            olen   : Nat,                   \* original_len
            status : {"none", "running", "unfinished"},
            done   : SUBSET Calls,          \* tool events with a result
            text   : SUBSET (1..MaxRuns)]   \* assistant_text, by the run that streamed it

NoJournal == [root |-> 0, query |-> "", olen |-> 0, status |-> "none", done |-> {}, text |-> {}]

\* _journal_matches; NoJournal never does.
Matches(j, messages) ==
  /\ j.olen >= 1 /\ j.olen <= Len(messages)
  /\ messages[j.olen] = Human(j.query)

\* MUTANT: the checkpoint's copy is preferred.
LoadUnfinishedTurn_CheckpointFirst(state, file) ==
  IF Matches(state.journal, state.messages) THEN state.journal
  ELSE IF Matches(file, state.messages) THEN file
  ELSE NoJournal

LoadUnfinishedTurn(state, file) ==
  IF Matches(file, state.messages) THEN file
  ELSE IF Matches(state.journal, state.messages) THEN state.journal
  ELSE NoJournal

Loadable == LoadUnfinishedTurn(ckpt, sidecar)

----------------------------------------------------------------------------

NoRun == [journal |-> NoJournal, resumed |-> FALSE, original |-> 0, previous |-> NoJournal,
          seed |-> {}, id |-> 0]

NoResult == [additions |-> <<>>, journal |-> NoJournal]

Init ==
  /\ ckpt = [messages |-> <<>>, resume |-> FALSE, journal |-> NoJournal]
  /\ sidecar = NoJournal
  /\ proc = "down" /\ run = NoRun /\ result = NoResult
  /\ runs = 0 /\ turns = <<>> /\ ran = {} /\ lostCommit = FALSE

----------------------------------------------------------------------------
(* The front-ends *)

Open ==
  /\ proc = "down"
  /\ proc' = "idle"
  /\ UNCHANGED <<ckpt, sidecar, run, result, runs, turns, ran, lostCommit>>

Invoke ==
  /\ proc = "idle" /\ runs < MaxRuns
  /\ proc' = "started" /\ runs' = runs + 1
  /\ UNCHANGED <<sidecar, run, result, turns, ran, lostCommit>>

\* A message: the input holds no copper_resume, so the channel keeps its value.
Send(text) ==
  /\ Invoke
  /\ ckpt' = [ckpt EXCEPT !.messages = Append(@, Human(text))]

\* /resume, -r without --message.  ACP's /resume does not look for a turn first.
SendResume ==
  /\ Invoke
  /\ ckpt' = [ckpt EXCEPT !.resume = TRUE]

----------------------------------------------------------------------------
(* hosted_node up to its first await *)

LastIsResumeRequest ==
  LET last == ckpt.messages[Len(ckpt.messages)]
  IN  ckpt.messages # <<>> /\ last.who = "human" /\ IsResumeRequest(last.text)

\* The journal this run continues.  A bare "continue" that is the unfinished
\* turn's own query does not count.
ToResume ==
  IF ckpt.resume THEN Loadable
  ELSE IF LastIsResumeRequest /\ Loadable.olen < Len(ckpt.messages) THEN Loadable
  ELSE NoJournal

\* NO_UNFINISHED_TURN: the node returns an error and clears copper_resume.
RefuseResume ==
  /\ proc = "started" /\ ckpt.resume /\ ToResume = NoJournal
  /\ proc' = "returned"
  /\ result' = [additions |-> <<>>, journal |-> ckpt.journal]
  /\ run' = NoRun
  /\ UNCHANGED <<ckpt, sidecar, runs, turns, ran, lostCommit>>

\* The partial answer a killed run left in the journal, unless the transcript
\* already has an answer after the query.
Seed(j) ==
  IF \E i \in DOMAIN ckpt.messages : i > j.olen /\ ckpt.messages[i].who = "ai"
    THEN {} ELSE j.text

\* original = messages[: journal.original_len]
Original(j) == j.olen

ResumeTurn ==
  /\ proc = "started" /\ ToResume # NoJournal
  /\ proc' = "preparing"
  /\ run' = [journal |-> ToResume, resumed |-> TRUE, original |-> Original(ToResume),
             previous |-> NoJournal, seed |-> Seed(ToResume), id |-> runs]
  /\ UNCHANGED <<ckpt, sidecar, result, runs, turns, ran, lostCommit>>

\* A new turn supersedes the one that could be resumed.
StartTurn ==
  LET root == Len(turns) + 1
      size == Len(ckpt.messages)
  IN  /\ proc = "started" /\ ~ckpt.resume /\ ToResume = NoJournal /\ root <= MaxTurns
      /\ proc' = "preparing"
      /\ run' = [NoRun EXCEPT !.journal = [NoJournal EXCEPT !.root = root, !.olen = size,
                                             !.query = ckpt.messages[size].text],
                              !.original = size, !.previous = Loadable, !.id = runs]
      /\ turns' = Append(turns, [fate |-> "begun", text |-> {},
                                 request |-> ckpt.messages])
      /\ UNCHANGED <<ckpt, sidecar, result, runs, ran, lostCommit>>

----------------------------------------------------------------------------
(* The run: _auto_compact may await in "preparing", _TurnRun in "running" *)

Root == run.journal.root

\* The journal of this run is on disk: the turn lives, the previous one does not.
Saved(fates) ==
  [r \in DOMAIN fates |->
     IF r = Root THEN [fates[r] EXCEPT !.fate = "live"]
     ELSE IF r = run.previous.root
            THEN [fates[r] EXCEPT !.fate = "superseded", !.text = run.previous.text]
     ELSE fates[r]]

\* MUTANT: the first save is not forced.
FirstPersist_NotForced ==
  /\ proc = "preparing"
  /\ proc' = "running"
  /\ run' = [run EXCEPT !.journal.status = "running"]
  /\ turns' = Saved(turns)
  /\ UNCHANGED <<ckpt, sidecar, result, runs, ran, lostCommit>>

\* persist(force=True) at the top of run_with_retry.
FirstPersist ==
  /\ proc = "preparing"
  /\ proc' = "running"
  /\ run' = [run EXCEPT !.journal.status = "running"]
  /\ sidecar' = run'.journal
  /\ turns' = Saved(turns)
  /\ UNCHANGED <<ckpt, result, runs, ran, lostCommit>>

\* Streamed text reaches the disk at most every 2 s.
StreamText ==
  /\ proc = "running" /\ run.id \notin run.journal.text
  /\ run' = [run EXCEPT !.journal.text = @ \cup {run.id}]
  /\ sidecar' \in {sidecar, run'.journal}
  /\ UNCHANGED <<ckpt, proc, result, runs, turns, ran, lostCommit>>

\* The server asks only for calls without a result in request.resume; the result
\* is saved at once.
RunTool(c) ==
  /\ proc = "running" /\ c \notin run.journal.done
  /\ run' = [run EXCEPT !.journal.done = @ \cup {c}]
  /\ sidecar' = run'.journal
  /\ ran' = ran \cup {<<Root, c>>}
  /\ UNCHANGED <<ckpt, proc, result, runs, turns, lostCommit>>

\* result(): the seed, then what this run streamed.
Additions ==
  (IF run.seed = {} THEN <<>> ELSE <<Answer(run.seed)>>)
    \o <<Answer(run.journal.text \cap {run.id})>>

Ends(fate, kept) ==
  /\ proc = "running"
  /\ proc' = "returned"
  /\ sidecar' = kept
  /\ result' = [additions |-> Additions, journal |-> kept]
  /\ turns' = [turns EXCEPT ![Root].fate = fate, ![Root].text = run.journal.text]
  /\ UNCHANGED <<ckpt, run, runs, ran, lostCommit>>

\* _close_journal: the sidecar is deleted before the node returns.
Complete == Ends("completed", NoJournal)
Refuse   == Ends("refused", NoJournal)

Unfinished(j) == [j EXCEPT !.status = "unfinished"]

\* Cancelled, or failed in a way a manual resume can help.
Pause == Ends("live", Unfinished(run.journal))

\* The checkpoint after the node's result.
Committed(state) ==
  [messages |-> state.messages \o result.additions, resume |-> FALSE,
   journal |-> result.journal]

Commit ==
  /\ proc = "returned"
  /\ ckpt' = Committed(ckpt)
  /\ proc' = "idle" /\ result' = NoResult /\ run' = NoRun
  /\ UNCHANGED <<sidecar, runs, turns, ran, lostCommit>>

\* Ctrl-C: mark_interrupted saves the journal; the node returns nothing.
Interrupt ==
  /\ proc \in {"preparing", "running"}
  /\ sidecar' = Unfinished(run.journal)
  /\ turns' = Saved(turns)
  /\ proc' = "idle" /\ run' = NoRun
  /\ UNCHANGED <<ckpt, result, runs, ran, lostCommit>>

\* The process is killed, or quits when idle.
Kill ==
  /\ proc # "down"
  /\ proc' = "down" /\ run' = NoRun /\ result' = NoResult
  /\ lostCommit' = (lostCommit \/ (proc = "returned" /\ run # NoRun /\ result.journal = NoJournal))
  /\ UNCHANGED <<ckpt, sidecar, runs, turns, ran>>

Next ==
  \/ Open \/ SendResume \/ \E text \in Texts : Send(text)
  \/ RefuseResume \/ ResumeTurn \/ StartTurn
  \/ FirstPersist \/ StreamText \/ \E c \in Calls : RunTool(c)
  \/ Complete \/ Refuse \/ Pause \/ Commit \/ Interrupt \/ Kill

Spec == Init /\ [][Next]_vars

----------------------------------------------------------------------------
(* Properties *)

TypeOK ==
  /\ ckpt \in [messages : Seq(Message), resume : BOOLEAN, journal : Journal]
  /\ sidecar \in Journal
  /\ proc \in {"down", "idle", "started", "preparing", "running", "returned"}
  /\ run.journal \in Journal /\ run.previous \in Journal /\ run.original \in Nat
  /\ result.journal \in Journal /\ result.additions \in Seq(Message)
  /\ runs \in 0..MaxRuns
  /\ ran \subseteq (1..MaxTurns) \X Calls

\* The turns that were saved once, did not end and were not superseded.
Live == {r \in DOMAIN turns : turns[r].fate = "live"}

\* Whenever the process is down or idle, a turn that was saved once and did not
\* end is what load_unfinished_turn finds, wherever the kill came.
SavedTurnIsLoadable ==
  proc \in {"down", "idle"} /\ ~lostCommit => \A r \in Live : Loadable.root = r

\* A run never continues a turn that completed, was refused for good or was
\* superseded, unless a process died between the end of a turn and its commit.
EndedTurnStaysEnded ==
  run.resumed /\ proc = "preparing" /\ ~lostCommit => turns[Root].fate = "live"

\* A resumed run knows every call of its turn that ever ran to a result, so that
\* the server does not run it again (the sidecar is never older than the
\* checkpoint's copy).
ResumeKnowsItsCalls ==
  proc \in {"preparing", "running"} /\ ~lostCommit =>
    \A c \in Calls : <<Root, c>> \in ran => c \in run.journal.done

\* A resume sends the request the turn was first sent with, whatever came to the
\* transcript since.
ResumeSendsFirstRequest ==
  proc \in {"preparing", "running"} =>
    SubSeq(ckpt.messages, 1, run.original) = turns[Root].request

\* copper_graph.py: "This new turn supersedes it (it is no longer resumable)".
SupersededIsNotResumed ==
  run.resumed /\ proc = "preparing" => turns[Root].fate # "superseded"

\* The text of the transcript.
Told == UNION {ckpt.messages[i].parts : i \in DOMAIN ckpt.messages}

\* docs/cli.md: after another message, "the unfinished turn's partial work stays
\* in the transcript".
PartialWorkStays ==
  \A r \in DOMAIN turns : turns[r].fate = "superseded" => turns[r].text \subseteq Told

=============================================================================
