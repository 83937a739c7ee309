------------------------------- MODULE Review -------------------------------
(***************************************************************************)
(* How `copper-pilot validate` comes to the answer of an agent check       *)
(* (validate/reviewer.py, runner.py, report.py), which ValidateRun takes   *)
(* as it comes: the turns of a review with their repairs, the consensus of *)
(* repeated reviews, the grounding of what they found, the status and the  *)
(* next actions; and the cache of answers from one run to the next, with   *)
(* the snapshot that is reviewed and what a reviewer may do to it.         *)
(*                                                                         *)
(* Abstracted: a check is one slice; a finding is what it points at and    *)
(* how bad it is; the reviews of a check are taken in the order of their   *)
(* numbers, in which their results are gathered; the files of a design are *)
(* numbered by their edits.                                                *)
(***************************************************************************)
EXTENDS Naturals, FiniteSets, SequencesExt

CONSTANTS
    AgentChecks, \* agent checks, in the order of their stages
    Repeats,     \* reviews of a check
    Blocking,    \* those whose gate is blocking
    Locators,    \* what a finding points at: locator_key
    Real,        \* those that are in the design index
    MaxRepairs,  \* MAX_REPAIR_TURNS
    MaxFound,    \* bound: findings of one review of a check
    Kinds,       \* the kinds of files an answer may depend on
    InputsOf,    \* CheckSpec.inputs
    Editing,     \* the design is edited while a run goes on
    MaxRuns, MaxEdits, MaxChanges  \* bounds: runs, edits, changes of a snapshot

Numbered(checks) == {checks[i] : i \in DOMAIN checks}

ASSUME ReviewAssumption ==
    /\ Repeats \in [Numbered(AgentChecks) -> Nat \ {0}] /\ Blocking \subseteq Numbered(AgentChecks)
    /\ Real \subseteq Locators
    /\ InputsOf \in [Numbered(AgentChecks) -> SUBSET Kinds] /\ Editing \in BOOLEAN
    /\ MaxFound \in [Numbered(AgentChecks) -> Nat]
    /\ {MaxRepairs, MaxRuns, MaxEdits, MaxChanges} \subseteq Nat

VARIABLES
    ended,     \* the reviews of the check under review that have ended
    reviewTurns, \* the turns of the one that is going on
    answers,   \* the answers given, in the order of the checks
    \* The second part:
    design,    \* the workspace: how often the files of a kind were edited
    cache,     \* .copperpilot/validate/cache
    going,     \* the run that is going on
    reported,  \* what the runs reported
    runCount

reviewVars == <<ended, reviewTurns, answers>>
cacheVars == <<design, cache, going, reported, runCount>>

----------------------------------------------------------------------------
(* The reviews of a check: review_slice *)

\* By severity: those of the profile's fail_on at its confidence, and others.
Severities == {"fails", "warns"}
Found == [at : Locators, severity : Severities]
Failed == [failed |-> TRUE, findings |-> <<>>]
Replied(findings) == [failed |-> FALSE, findings |-> findings]

Current == AgentChecks[Len(answers) + 1]
Reviewing == Len(answers) < Len(AgentChecks) /\ Len(ended) < Repeats[Current]

EndsWith(outcome) ==
    /\ ended' = Append(ended, outcome)
    /\ reviewTurns' = 0
    /\ UNCHANGED answers

\* The turn answers with a block that parses.
Parses ==
    /\ Reviewing
    /\ \E n \in 0..MaxFound[Current] : \E findings \in [1..n -> Found] : EndsWith(Replied(findings))

\* It does not: a repair turn in the same thread, or an error.
Unparsed ==
    /\ Reviewing
    /\ IF reviewTurns < MaxRepairs THEN reviewTurns' = reviewTurns + 1 /\ UNCHANGED <<ended, answers>>
       ELSE EndsWith(Failed)

\* The hosted turn fails, meets a usage limit or times out.
ReviewTurnFails == Reviewing /\ EndsWith(Failed)

----------------------------------------------------------------------------
(* consensus, ground_findings, compute_status *)

\* MUTANT: a review votes for a locator as often as it names it.
Voted_EveryMention(votes, ballot) ==
    [votes EXCEPT ![ballot.at] = Append(@, [run |-> ballot.run, severity |-> ballot.severity])]

\* A review votes once for a locator, with what it says of it first.
Voted(votes, ballot) ==
    IF \E i \in DOMAIN votes[ballot.at] : votes[ballot.at][i].run = ballot.run THEN votes
    ELSE [votes EXCEPT ![ballot.at] = Append(@, [run |-> ballot.run, severity |-> ballot.severity])]

\* The findings of a review, each with the review's number.
Ballots(run, findings) ==
    [k \in DOMAIN findings |-> [run |-> run, at |-> findings[k].at, severity |-> findings[k].severity]]

VotesOfRun(votes, ballots) == FoldLeft(Voted, votes, ballots)

Votes(runs) ==
    FoldLeft(VotesOfRun, [l \in Locators |-> <<>>],
             [run \in DOMAIN runs |-> Ballots(run, runs[run].findings)])

Worst(group) == IF \E i \in DOMAIN group : group[i].severity = "fails" THEN "fails" ELSE "warns"

Consensus(runs) ==
    IF Len(runs) <= 1 THEN UNION {Range(runs[i].findings) : i \in DOMAIN runs}
    ELSE LET votes == Votes(runs) IN
         {[at |-> l, severity |-> Worst(votes[l])] :
             l \in {l \in Locators : Len(votes[l]) >= (Len(runs) \div 2) + 1}}

Grounded(finding) == finding.at \in Real

Status(check, findings, failed) ==
    CASE failed -> "ERROR"
      [] ~failed /\ findings = {} -> "PASS"
      [] ~failed /\ check \in Blocking /\ (\E f \in findings : Grounded(f) /\ f.severity = "fails") -> "FAIL"
      [] OTHER -> "WARN"

\* The reviews that did not fail.
Succeeded(runs) ==
    FoldLeft(LAMBDA kept, run : IF run.failed THEN kept ELSE Append(kept, run), <<>>, runs)

\* _run_agent: the reviews that failed have no vote, and make the check an error.
Collect ==
    /\ Len(answers) < Len(AgentChecks) /\ Len(ended) = Repeats[Current]
    /\ LET runs == Succeeded(ended)
           findings == Consensus(runs) IN
       answers' = Append(answers, [runs |-> ended, findings |-> findings,
           status |-> Status(Current, findings, Len(runs) < Len(ended))])
    /\ ended' = <<>>
    /\ UNCHANGED reviewTurns

----------------------------------------------------------------------------
(* next_actions: each check is a stage of its own here *)

Stops(i) == AgentChecks[i] \in Blocking /\ answers[i].status \in {"FAIL", "ERROR"}

Action(i, at) == [check |-> i, at |-> at]

\* The error itself is an action only when the check has no findings.
NextActions ==
    LET failing == {i \in DOMAIN answers : Stops(i)} IN
    IF failing = {} THEN {}
    ELSE LET first == CHOOSE i \in failing : \A other \in failing : i <= other IN
         IF answers[first].status = "ERROR" /\ answers[first].findings = {}
         THEN {Action(first, "error")}
         ELSE {Action(first, f.at) : f \in {f \in answers[first].findings : Grounded(f)}}

ReviewInit == ended = <<>> /\ reviewTurns = 0 /\ answers = <<>>

ReviewNext == Parses \/ Unparsed \/ ReviewTurnFails \/ Collect

----------------------------------------------------------------------------
(* What a reviewer may do: review_policy *)

Requests == {"read", "write", "write in scratch", "shell", "dangerous shell", "delete", "outside"}

\* Reads are not asked about.
Approved(request) == request \in {"read", "write in scratch", "shell"}

\* A command may do anything to the snapshot, whose files are only write-protected.
MayChange(request) == request \in {"write", "shell", "dangerous shell", "delete"}

----------------------------------------------------------------------------
(* The cache and the snapshot *)

Efforts == {"balanced", "intelligence"}
Reviewed == Numbered(AgentChecks)
NoRun == [at |-> "none"]
NotYet == [at |-> "waiting"]

Edit ==
    /\ going # NoRun => Editing
    /\ \E kind \in Kinds :
          design[kind] < MaxEdits /\ design' = [design EXCEPT ![kind] = @ + 1]
    /\ UNCHANGED <<cache, going, reported, runCount>>

\* The files as they are now, write-protected.
CreateSnapshot == design

\* The snapshot is taken before the first check.
ValidationStarts ==
    /\ going = NoRun /\ runCount < MaxRuns
    /\ runCount' = runCount + 1
    /\ \E effort \in Efforts, reuse \in BOOLEAN :
          going' = [at |-> "running", effort |-> effort, reuse |-> reuse,
                    snapshot |-> CreateSnapshot, changes |-> 0, checks |-> [c \in Reviewed |-> NotYet]]
    /\ UNCHANGED <<design, cache, reported>>

\* input_hashes, of the files as they are now.
InputHashes(check) == [kind \in InputsOf[check] |-> design[kind]]

\* cache_key
KeyOf(check) == [check |-> check, effort |-> going.effort, inputs |-> InputHashes(check)]

Done(check, answer) ==
    /\ going' = [going EXCEPT !.checks[check] = [at |-> "done"]]
    /\ reported' = [reported EXCEPT ![check] = answer]

Error == [error |-> TRUE]
NoReport == [error |-> TRUE, none |-> TRUE]

\* _run_check: a cached answer, or a review of the snapshot.
CheckStarts(check) ==
    /\ going # NoRun /\ going.checks[check] = NotYet
    /\ LET key == KeyOf(check)
           hits == {entry \in cache : entry.key = key} IN
       IF going.reuse /\ hits # {}
       THEN \E entry \in hits : Done(check, entry.answer)
       ELSE /\ going' = [going EXCEPT !.checks[check] =
                           [at |-> "reviewing", key |-> key, before |-> going.changes]]
            /\ UNCHANGED reported
    /\ UNCHANGED <<design, cache, runCount>>

ReviewerAsks(check, request) ==
    /\ going # NoRun /\ going.checks[check].at = "reviewing"
    /\ Approved(request) /\ MayChange(request) /\ going.changes < MaxChanges
    /\ going' = [going EXCEPT !.changes = @ + 1]
    /\ UNCHANGED <<design, cache, reported, runCount>>

\* _store_cached
Stored(key, answer) ==
    IF answer = Error THEN cache
    ELSE {e \in cache : e.key # key} \cup {[key |-> key, answer |-> answer]}

\* snapshot_changes: it is hashed before and after the reviews.
Changed(state) == going.changes # state.before

\* A change is an error.
ReviewsEnd(check, failed) ==
    /\ going # NoRun /\ going.checks[check].at = "reviewing"
    /\ LET state == going.checks[check]
           answer == IF failed \/ Changed(state) THEN Error
                     ELSE [error |-> FALSE, of |-> going.snapshot, by |-> going.effort,
                           before |-> state.before, after |-> going.changes] IN
       /\ Done(check, answer)
       /\ cache' = Stored(state.key, answer)
    /\ UNCHANGED <<design, runCount>>

ValidationEnds ==
    /\ going # NoRun /\ \A c \in Reviewed : going.checks[c].at = "done"
    /\ going' = NoRun
    /\ UNCHANGED <<design, cache, reported, runCount>>

CacheInit ==
    /\ design = [kind \in Kinds |-> 0]
    /\ cache = {} /\ going = NoRun /\ runCount = 0
    /\ reported = [c \in Reviewed |-> NoReport]

CacheNext ==
    \/ Edit \/ ValidationStarts \/ ValidationEnds
    \/ \E c \in Reviewed :
          \/ CheckStarts(c)
          \/ \E request \in Requests : ReviewerAsks(c, request)
          \/ \E failed \in BOOLEAN : ReviewsEnd(c, failed)

ReviewSpec ==
    /\ ReviewInit /\ CacheInit
    /\ [][\/ ReviewNext /\ UNCHANGED cacheVars
          \/ CacheNext /\ UNCHANGED reviewVars]_<<reviewVars, cacheVars>>

----------------------------------------------------------------------------
(* Properties *)

Votable(i) == Succeeded(answers[i].runs)
Naming(i, l) ==
    {r \in DOMAIN Votable(i) : \E k \in DOMAIN Votable(i)[r].findings : Votable(i)[r].findings[k].at = l}

\* A repeated review keeps what more than half of its reviews name, each of them
\* counted once however often it names it, and makes it no worse than they do
\* (consensus).
MajorityDecides ==
    \A i \in DOMAIN answers : Len(Votable(i)) >= 2 =>
        \A l \in Locators :
            LET kept == {f \in answers[i].findings : f.at = l} IN
            /\ kept # {} <=> 2 * Cardinality(Naming(i, l)) > Len(Votable(i))
            /\ \A f \in kept : \E r \in Naming(i, l) : f \in Range(Votable(i)[r].findings)

\* A check fails only for something that is in the design, the next actions then
\* name it or an earlier check, unless an earlier one ended in an error, and
\* nothing that is not in the design is an action.
FailuresAreActionable ==
    \A i \in DOMAIN answers : answers[i].status = "FAIL" =>
        /\ \/ \E act \in NextActions : act.check < i \/ (act.check = i /\ act.at \in Real)
           \/ \E j \in 1..(i - 1) : Stops(j) /\ answers[j].status = "ERROR"
        /\ \A act \in NextActions : act.at \in Real \cup {"error"}

\* What a run reports of a check is an answer about the files of the design as they
\* are while it runs, by a reviewer of its effort, and one whose snapshot did not
\* change under it, whichever earlier run it is reused from (cache_key, _store_cached).
ReportsFitTheDesign ==
    going # NoRun =>
        \A c \in Reviewed : going.checks[c].at = "done" /\ ~reported[c].error =>
            /\ \A kind \in InputsOf[c] : reported[c].of[kind] = design[kind]
            /\ reported[c].by = going.effort
            /\ reported[c].before = reported[c].after

\* An error is not reused: the next run asks again.
ErrorsAreAskedAgain == \A entry \in cache : ~entry.answer.error

AnswersAreSound ==
    MajorityDecides /\ FailuresAreActionable /\ ReportsFitTheDesign /\ ErrorsAreAskedAgain

\* The worst severity that reviews give a locator is the one that is kept
\* (docs/validate.md).
WorstSeverityWins ==
    \A i \in DOMAIN answers : Len(Votable(i)) >= 2 =>
        \A f \in answers[i].findings :
            f.severity = "fails" <=>
                \E r \in Naming(i, f.at) : [at |-> f.at, severity |-> "fails"] \in Range(Votable(i)[r].findings)

\* No answer is about a snapshot that an earlier reviewer changed.
SnapshotsAreWhole == \A c \in Reviewed : ~reported[c].error => reported[c].after = 0

\* A cached answer is about the files its key names.
CachedFitsItsKey ==
    \A entry \in cache : \A kind \in InputsOf[entry.key.check] :
        ~entry.answer.error => entry.answer.of[kind] = entry.key.inputs[kind]

\* A check that stops the run tells what is to be done.
StopIsActionable == (\E i \in DOMAIN answers : Stops(i)) => NextActions # {}

=============================================================================
