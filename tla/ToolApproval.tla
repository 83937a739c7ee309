----------------------------- MODULE ToolApproval -----------------------------
(***************************************************************************)
(* Who decides that a local tool may run (deepagents_tools.py:             *)
(* LocalToolBroker._authorized, copper_app.py, copper_acp.py,              *)
(* validate/reviewer.py).                                                  *)
(*                                                                         *)
(* The calls of a turn reach the broker from several lanes; a prompt is    *)
(* held under one FIFO lock until its front end answers it.  What a call   *)
(* asks for is one of the kinds the policies tell apart.                   *)
(***************************************************************************)
EXTENDS Naturals, Sequences, SequencesExt

CONSTANTS
    Calls,            \* tool_call_ids
    Hosts,            \* front ends to look at
    QuestionTimeout,  \* QUESTION_TIMEOUT_SECONDS, in ticks
    ResultWindow      \* the hosted service's limit for a tool result, in ticks

ASSUME ApprovalAssumption ==
    /\ Hosts \subseteq {"tui", "acp", "nobody", "validate"} /\ Hosts # {}
    /\ QuestionTimeout \in Nat /\ ResultWindow \in Nat

\* read      a read or search in the workspace     library  a flagged KiCad library read
\* routine   a file Auto may write                 foreign  any other path outside
\* write     another write, or a delete            outside  a shell command that reaches out
\* shell     a plain shell command, or a hook      danger   a dangerous one
CallKinds == {"read", "routine", "write", "shell", "danger",
              "library", "foreign", "outside", "question"}
Gated == {"routine", "write", "shell", "danger"}
Modes == {"manual", "auto", "yolo"}
\* What /approval's shell settings offer: neither, plain commands, both.
Shells == {"ask", "normal", "all"}

VARIABLES
    host,    \* the front end the broker belongs to
    mode,    \* broker.mode
    shells,  \* always_allow_shell_commands, always_allow_dangerous_shell_commands
    line,    \* _prompt_lock: its holder first, then its waiters
    call,    \* every call: its kind, where it is, the policy it met
    age,     \* ticks since a question was asked for; it stops at the window's end
    shown,   \* ticks since the prompt at the head of the line was shown
    said     \* history: calls a person said yes to

approvalVars == <<host, mode, shells, line, call, age, shown, said>>

NoCall == [at |-> "unsent", kind |-> "read", under |-> <<"manual", "ask">>]

ApprovalInit ==
    /\ host \in Hosts
    /\ mode \in (IF host = "validate" THEN {"manual"} ELSE Modes)
    /\ shells \in (IF host = "validate" THEN {"ask"} ELSE Shells)
    /\ line = <<>>
    /\ call = [c \in Calls |-> NoCall]
    /\ age = [c \in Calls |-> 0] /\ shown = 0
    /\ said = {}

HasApprover == host # "nobody"
Person == host \in {"tui", "acp"}

\* What _authorized lets run without a prompt, in the order of its tests.
AutoAllows(kind) ==
    \/ kind = "routine"
    \/ kind = "shell" /\ shells \in {"normal", "all"}
    \/ kind = "danger" /\ shells = "all"

\* MUTANT: the scope of a command is looked at only outside YOLO.
Free_YoloFirst(kind) ==
    \/ kind \in {"read", "library"}
    \/ kind \in Gated \cup {"outside"} /\ mode = "yolo"
    \/ mode = "auto" /\ AutoAllows(kind)

Free(kind) ==
    \/ kind \in {"read", "library"}
    \/ kind \in Gated /\ mode = "yolo"
    \/ mode = "auto" /\ AutoAllows(kind)

Refused(kind) == kind = "foreign" \/ (kind = "outside" /\ ~HasApprover)

\* review_policy: writes below the scratch folder, and shell commands that are
\* neither dangerous nor reaching out.
PolicyAllows(kind) ==
    CASE kind \in {"routine", "write"} -> BOOLEAN
      [] kind = "shell" -> {TRUE}
      [] OTHER -> {FALSE}

\* The policy in force, as the call will be judged by it afterwards.
Policy(kind) ==
    IF kind \notin Gated THEN <<"manual", "ask">>
    ELSE <<mode, IF mode = "auto" THEN shells ELSE "ask">>

Place(c, kind, at) == call' = [call EXCEPT ![c] = [at |-> at, kind |-> kind, under |-> Policy(kind)]]

\* execute: all of _execute_once up to its first await.  With nobody to ask, and
\* for a validate run, the handler answers at once.
Request(c, kind) ==
    /\ call[c].at = "unsent"
    /\ IF Free(kind) THEN Place(c, kind, "running") /\ UNCHANGED line
       ELSE IF Refused(kind) THEN Place(c, kind, "rejected") /\ UNCHANGED line
       ELSE IF Person THEN Place(c, kind, "asking") /\ line' = Append(line, c)
       ELSE /\ \E yes \in (IF host = "validate" THEN PolicyAllows(kind) ELSE {FALSE}) :
                   Place(c, kind, IF yes THEN "running" ELSE "rejected")
            /\ UNCHANGED line
    /\ UNCHANGED <<host, mode, shells, age, shown, said>>

Prompted(c) == line # <<>> /\ Head(line) = c

\* The lock goes to the next waiter.
Leaves(c, at) ==
    /\ call' = [call EXCEPT ![c].at = at]
    /\ line' = Tail(line) /\ shown' = 0

\* Yes, or an answer to a question, for the one call shown.
SayYes(c) ==
    /\ Prompted(c)
    /\ Leaves(c, IF call[c].kind = "question" THEN "answered" ELSE "running")
    /\ said' = said \cup {c}
    /\ UNCHANGED <<host, mode, shells, age>>

SayNo(c) ==
    /\ Prompted(c)
    /\ Leaves(c, IF call[c].kind = "question" THEN "answered" ELSE "rejected")
    /\ UNCHANGED <<host, mode, shells, age, said>>

Offered(c) == Prompted(c) /\ call[c].kind \notin {"outside", "question"}

\* ACP: "Allow all for this session".
AllowSession(c) ==
    /\ host = "acp" /\ Offered(c)
    /\ mode' = "yolo"
    /\ Leaves(c, "running") /\ said' = said \cup {c}
    /\ UNCHANGED <<host, shells, age>>

\* Terminal: the "auto" answer approves the call with Auto on; its notice, shown
\* the first time, sets the shell switches, and declining it selects Manual and
\* shows the prompt again.
AnswerAuto(c) ==
    /\ host = "tui" /\ Offered(c)
    /\ \/ /\ mode' = "auto"
          /\ shells' \in {shells, "normal"}
          /\ Leaves(c, "running") /\ said' = said \cup {c}
       \/ /\ mode' = "manual"
          /\ UNCHANGED <<shells, line, call, shown, said>>
    /\ UNCHANGED <<host, age>>

\* Terminal: /approval, the shell settings and the mode key, at any time.
ChangeMode ==
    /\ host = "tui"
    /\ mode' \in Modes /\ shells' \in Shells
    /\ UNCHANGED <<host, line, call, age, shown, said>>

\* The tool has run, or has failed.
Finish(c) ==
    /\ call[c].at = "running"
    /\ call' = [call EXCEPT ![c].at = "ran"]
    /\ UNCHANGED <<host, mode, shells, line, age, shown, said>>

\* The lock takes a waiter that gives up out of its place.
Without(c) == RemoveAt(line, CHOOSE i \in DOMAIN line : line[i] = c)

\* cancel_all, or the end of a lane's task.
CancelCall(c) ==
    /\ call[c].at \in {"asking", "running"}
    /\ call' = [call EXCEPT ![c].at = "cancelled"]
    /\ line' = IF call[c].at = "asking" THEN Without(c) ELSE line
    /\ shown' = IF Prompted(c) THEN 0 ELSE shown
    /\ UNCHANGED <<host, mode, shells, age, said>>

\* ACP: _await_answer bounds a question from the moment it is shown.
Expired(c) == host = "acp" /\ Prompted(c) /\ call[c].kind = "question" /\ shown = QuestionTimeout

Skip(c) ==
    /\ Expired(c)
    /\ Leaves(c, "answered")
    /\ UNCHANGED <<host, mode, shells, age, said>>

\* Time passes while something waits; a timer that is due fires first.
Waits(c) == call[c].at = "asking" /\ call[c].kind = "question"

Tick ==
    /\ host = "acp" /\ \E c \in Calls : Waits(c) /\ age[c] <= ResultWindow
    /\ \A c \in Calls : ~Expired(c)
    /\ age' = [c \in Calls |-> IF Waits(c) /\ age[c] <= ResultWindow THEN age[c] + 1 ELSE age[c]]
    /\ shown' = IF shown < QuestionTimeout THEN shown + 1 ELSE shown
    /\ UNCHANGED <<host, mode, shells, line, call, said>>

Answer(c) == SayYes(c) \/ SayNo(c) \/ AllowSession(c) \/ AnswerAuto(c)

ApprovalNext ==
    \/ \E c \in Calls :
        \/ \E kind \in CallKinds : Request(c, kind)
        \/ Answer(c) \/ Skip(c) \/ Finish(c) \/ CancelCall(c)
    \/ ChangeMode \/ Tick

ApprovalSpec == ApprovalInit /\ [][ApprovalNext]_approvalVars

-----------------------------------------------------------------------------
(***************************************************************************)
(* Properties.                                                             *)
(***************************************************************************)

\* The types of the broker's state; the line holds the calls that ask, once.
ApprovalTypeOK ==
    /\ host \in Hosts /\ mode \in Modes /\ shells \in Shells
    /\ call \in [Calls -> [at : {"unsent", "asking", "running", "ran", "rejected", "answered",
                                 "cancelled"},
                           kind : CallKinds, under : Modes \X Shells]]
    /\ age \in [Calls -> 0..ResultWindow + 1] /\ shown \in 0..QuestionTimeout
    /\ said \subseteq Calls
    /\ line \in Seq(Calls) /\ IsInjective(line) /\ ToSet(line) = {c \in Calls : call[c].at = "asking"}

\* The approval modes as documented (docs/cli.md, "Approval modes"): the policy a
\* call met when it was asked for, or a yes to that very call, lets it run.  An
\* answer given to another call, or a mode chosen since, does not.
Permitted(c) ==
    CASE call[c].kind \in {"read", "library"} -> TRUE
      [] call[c].kind \in {"foreign", "question"} -> FALSE
      [] call[c].kind = "outside" -> Person /\ c \in said
      [] OTHER ->
            \/ c \in said
            \/ call[c].under[1] = "yolo"
            \/ call[c].under[1] = "auto" /\ \/ call[c].kind = "routine"
                                            \/ call[c].kind = "shell" /\ call[c].under[2] # "ask"
                                            \/ call[c].kind = "danger" /\ call[c].under[2] = "all"
            \/ host = "validate" /\ call[c].kind # "danger"

\* No tool runs that nobody permitted: a command that reaches out of the
\* workspace needs its own yes in every mode and is refused with nobody to ask;
\* a validate run never runs a dangerous command.
NothingRunsUnapproved == \A c \in Calls : call[c].at \in {"running", "ran"} => Permitted(c)

\* A question of an ACP session gets its result before the hosted service drops
\* the turn (_await_answer's comment).
QuestionsBeatTheWindow == \A c \in Calls : age[c] <= ResultWindow
=============================================================================
