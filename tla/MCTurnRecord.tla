---------------------------- MODULE MCTurnRecord ----------------------------
(***************************************************************************)
(* What a session leaves behind, for TLC: its turn on disk, so that it can *)
(* be resumed (TurnDurability), its turn in the messages, so that it can   *)
(* be shown again (Transcript, FrontEnds), what of it fits into a message  *)
(* to the service (FrameLimits), and the small files it shares with other  *)
(* sessions (LocalState).  A behaviour moves one of them.                  *)
(***************************************************************************)
EXTENDS TurnDurability, FrontEnds, LocalState, FrameLimits, TLC

VARIABLE part

Parts == {"disk", "transcript", "files", "history", "pages"}

\* The part that does not move has one initial state.
MCInit ==
    /\ part \in Parts
    /\ Init /\ TranscriptInit /\ LocalInit /\ FrameInit
    /\ part # "files" => auth = 1 /\ revoked = {}
    /\ part # "history" => chat = <<>> /\ query = 1 /\ partial = 0
    /\ part # "pages" => lines = <<1>>

MCNext ==
    /\ UNCHANGED part
    /\ \/ part = "disk" /\ Next /\ UNCHANGED <<transcriptVars, localVars, frameVars>>
       \/ part = "transcript" /\ TranscriptNext /\ UNCHANGED <<vars, localVars, frameVars>>
       \/ part = "files" /\ LocalNext /\ UNCHANGED <<vars, transcriptVars, frameVars>>
       \/ /\ part = "history" /\ (AttemptStarts \/ ToolRuns)
          /\ UNCHANGED <<vars, transcriptVars, localVars>>
       \/ /\ part = "pages" /\ (FirstRead \/ NextRead)
          /\ UNCHANGED <<vars, transcriptVars, localVars>>

MCSpec == MCInit /\ [][MCNext]_<<part, vars, transcriptVars, localVars, frameVars>>

\* Two attempts to shrink the history; messages of one size or three, and the
\* results, texts and lines that fit, just do not, or never will.
MCRungs == <<[message |-> 3, total |-> 6, frame |-> 14], [message |-> 1, total |-> 2, frame |-> 9]>>
MCChats == BoundedSeq({1, 3}, 3)
MCFiles == {file \in BoundedSeq({1, 2, 5}, 4) : file # <<>>}

\* The bound on what is explored together: few events of a kind that changes
\* little, and one of the small files at a time.
Focus ==
    /\ LET Times(P(_)) == Cardinality({i \in DOMAIN recorded : P(recorded[i])}) IN
       /\ Times(LAMBDA e : e.type = "worker") <= 2
       /\ Times(LAMBDA e : e.type = "reasoning") <= 1
       /\ Times(LAMBDA e : e.type = "text" /\ e.val = Echo) <= 1
    /\ LET preferences == setting.count > 0 \/ \E p \in Processes : update[p].at # "none"
           projects == opened # <<>> \/ \E p \in Processes : remembering[p] # Nothing
           used == <<preferences, projects, issued > 1, catalog # NewCatalog>> IN
       Cardinality({f \in DOMAIN used : used[f]}) <= 1

\* The unfinished turn of a thread: once saved it can be loaded until it ends,
\* and once it has ended nothing brings it back (load_unfinished_turn).
UnfinishedTurnIsKept == SavedTurnIsLoadable /\ EndedTurnStaysEnded

\* A resumed turn is the turn that was cut short: the server is told of every
\* call that ran, and is sent the request that opened it (resume_payload).
ResumeIsFaithful == ResumeKnowsItsCalls /\ ResumeSendsFirstRequest

=============================================================================
