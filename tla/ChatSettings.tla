---------------------------- MODULE ChatSettings ----------------------------
(***************************************************************************)
(* The settings of the terminal front end and the way they go to a turn    *)
(* (copper_app.py, hosted_node of copper_graph.py, async_main of           *)
(* copper_main.py).  Mode, effort and model exist twice, as the status bar *)
(* shows them and as the agent sends them, and a third and fourth time in  *)
(* the checkpoint of a chat and in the journal of its unfinished turn.     *)
(*                                                                         *)
(* Keys, commands that wait in a dialog, the task of the turn and the      *)
(* worker that registers skills interleave at their awaits.  Which chat a  *)
(* running turn belongs to is a matter of TuiApp.                          *)
(***************************************************************************)
EXTENDS Naturals

CONSTANTS
    Threads,     \* chats
    ChatModels,  \* models of the catalog
    Workspaces,  \* project folders
    Skilled,     \* folders with local skills
    Selector,    \* the model selector is enabled
    MaxChoices   \* bound: settings changed and turns started by the user

ASSUME SettingsAssumption ==
    /\ "none" \notin ChatModels \cup Workspaces /\ Skilled \subseteq Workspaces
    /\ Selector \in BOOLEAN /\ MaxChoices \in Nat

AgentModes == {"agent", "plan", "ask"}
Efforts == {"balanced", "intelligence"}
Settings == [mode : AgentModes, effort : Efforts, model : ChatModels \cup {"none"}]
NotStored == [stored |-> FALSE]

VARIABLES
    onScreen,     \* copper_mode, copper_effort, copper_model
    agent,        \* mode, effort, model of the agent
    thread,       \* the open chat
    workspace,    \* its folder, in the app, the broker and the agent
    stored,       \* what the checkpoint of a chat holds
    journaled,   \* what the journal of its unfinished turn holds
    dialog,       \* the modal screen, or the chat that is being opened
    running,      \* the turn task
    manifest,     \* the skills the agent names: the folder they were read in
    resolving,    \* the folder whose skills are being registered
    approval,     \* broker.mode
    acknowledged, \* the notices the user accepted, on disk
    saved,        \* the approval mode a new session starts with, on disk
    choices,      \* settings changed and turns started
    apart,        \* history: the turn was given other settings than the screen shows now
    flag          \* history: --effort of the command line, while nothing replaced it

settingsVars == <<onScreen, agent, thread, workspace, stored, journaled, dialog, running,
                  manifest, resolving, approval, acknowledged, saved, choices, apart, flag>>
skillVars == <<manifest, resolving>>
permissionVars == <<approval, acknowledged, saved>>
chatVars == <<thread, workspace, stored, journaled>>

Idle == [at |-> "idle", resumes |-> FALSE, given |-> NotStored, on |-> "none", switched |-> FALSE]

Chosen == choices < MaxChoices /\ choices' = choices + 1

----------------------------------------------------------------------------
(* Opening a chat *)

\* _hydrate: a chat without settings starts Balanced.
Restored(t) ==
    IF stored[t] = NotStored
    THEN [mode |-> onScreen.mode, effort |-> "balanced", model |-> "none"]
    ELSE stored[t]

\* MUTANT: a chat that is opened sets the status bar alone.
ToAgent_Kept(settings) == agent

\* What _hydrate hands to the agent.
ToAgent(settings) == settings

\* The rest of _hydrate draws the chat.
Hydrates ==
    /\ LET settings == Restored(thread) IN
       /\ onScreen' = settings
       /\ agent' = ToAgent(settings)
    /\ apart' = FALSE
    /\ UNCHANGED <<chatVars, running, skillVars, acknowledged, saved, choices, flag>>

Hydrate ==
    /\ dialog = "opening"
    /\ dialog' = "none"
    /\ Hydrates /\ UNCHANGED approval

\* on_mount: --yolo that the user never acknowledged.
Asked == approval = "yolo" /\ "yolo" \notin acknowledged

Mount ==
    /\ dialog = "mounting"
    /\ dialog' = IF Asked THEN "asked for yolo" ELSE "none"
    /\ approval' = IF Asked THEN "manual" ELSE approval
    /\ Hydrates

\* ThreadSelectorScreen, Ctrl+R or /threads.
OpenThread(t) ==
    /\ dialog = "none" /\ t # thread /\ Chosen
    /\ thread' = t
    /\ dialog' = "opening"
    /\ flag' = "none"
    /\ UNCHANGED <<onScreen, agent, workspace, stored, journaled, running, skillVars,
                   permissionVars, apart>>

\* _load_skills; a folder without any leaves the worker of the last one alone.
LoadsSkills(folder) ==
    resolving' = IF folder \in Skilled THEN folder ELSE resolving

\* A failed request leaves the manifest as it was.
SkillsResolved ==
    /\ resolving # "none"
    /\ resolving' = "none"
    /\ manifest' \in {manifest, resolving}
    /\ UNCHANGED <<onScreen, agent, chatVars, dialog, running, permissionVars, choices, apart, flag>>

----------------------------------------------------------------------------
(* Keys and commands *)

\* The screen and the agent get the same value.
Set(settings, told) ==
    /\ onScreen' = settings /\ agent' = told
    /\ UNCHANGED <<chatVars, running, skillVars, permissionVars, apart>>

NextMode == CASE onScreen.mode = "plan" -> "ask" [] onScreen.mode = "ask" -> "agent" [] OTHER -> "plan"
NextEffort == IF onScreen.effort = "balanced" THEN "intelligence" ELSE "balanced"

CycleMode ==
    /\ dialog = "none" /\ Chosen
    /\ Set([onScreen EXCEPT !.mode = NextMode], [agent EXCEPT !.mode = NextMode])
    /\ UNCHANGED <<dialog, flag>>

CycleEffort ==
    /\ dialog = "none" /\ Chosen
    /\ Set([onScreen EXCEPT !.effort = NextEffort], [agent EXCEPT !.effort = NextEffort])
    /\ flag' = "none"
    /\ UNCHANGED dialog

\* A command that waits for a choice; the turn goes on behind the dialog.
Opens(kind) ==
    /\ dialog = "none"
    /\ kind = "model" => Selector
    /\ dialog' = kind
    /\ UNCHANGED <<onScreen, agent, chatVars, running, skillVars, permissionVars, choices, apart, flag>>

DialogCloses ==
    /\ dialog \in {"mode", "effort", "model", "cwd", "approval"}
    /\ dialog' = "none"
    /\ UNCHANGED <<onScreen, agent, chatVars, running, skillVars, permissionVars, choices, apart, flag>>

\* /mode
ChooseMode ==
    /\ dialog = "mode" /\ Chosen
    /\ \E mode \in AgentModes : Set([onScreen EXCEPT !.mode = mode], [agent EXCEPT !.mode = mode])
    /\ dialog' = "none"
    /\ UNCHANGED flag

\* /effort
ChooseEffort ==
    /\ dialog = "effort" /\ Chosen
    /\ \E effort \in Efforts :
          Set([onScreen EXCEPT !.effort = effort], [agent EXCEPT !.effort = effort])
    /\ dialog' = "none"
    /\ flag' = "none"

\* Choosing a model selects Intelligence.
WithModel(settings, model) == [settings EXCEPT !.model = model, !.effort = "intelligence"]

\* /model, with a dialog or, Direct, with an id.
ChooseModel(direct) ==
    /\ Selector /\ dialog = (IF direct THEN "none" ELSE "model") /\ Chosen
    /\ \E model \in ChatModels :
          Set([onScreen EXCEPT !.model = model, !.effort = "intelligence"], WithModel(agent, model))
    /\ dialog' = "none"
    /\ flag' = "none"

\* /cwd: a new chat in another folder; both modes stay as they are.
ChooseFolder ==
    /\ dialog = "cwd" /\ Chosen
    /\ \E folder \in Workspaces \ {workspace}, t \in Threads \ {thread} :
          /\ stored[t] = NotStored /\ journaled[t] = NotStored
          /\ workspace' = folder /\ thread' = t
          /\ LoadsSkills(folder)
    /\ onScreen' = [onScreen EXCEPT !.effort = "balanced", !.model = "none"]
    /\ agent' = [agent EXCEPT !.effort = "balanced", !.model = "none"]
    /\ dialog' = "none"
    /\ flag' = "none"
    /\ UNCHANGED <<stored, journaled, running, manifest, permissionVars, apart>>

----------------------------------------------------------------------------
(* Approval modes: _activate_approval *)

Activated(mode) ==
    /\ approval' = mode
    /\ saved' = IF mode = "yolo" THEN saved ELSE mode

\* A mode the user has to be told about first.
Questioned(mode) == mode \in {"auto", "yolo"} /\ mode \notin acknowledged

Activate(mode) ==
    IF Questioned(mode) THEN dialog' = mode /\ UNCHANGED <<approval, saved>>
    ELSE dialog' = "none" /\ Activated(mode)

NextApproval == CASE approval = "manual" -> "auto" [] approval = "auto" -> "yolo" [] OTHER -> "manual"

CycleApproval ==
    /\ dialog = "none" /\ Chosen
    /\ Activate(NextApproval)
    /\ UNCHANGED <<onScreen, agent, chatVars, running, skillVars, acknowledged, apart, flag>>

\* /approval, and the question that follows --yolo.
ChooseApproval ==
    /\ \/ dialog = "approval" /\ Chosen /\ \E mode \in {"manual", "auto", "yolo"} : Activate(mode)
       \/ dialog = "asked for yolo" /\ Activate("yolo") /\ UNCHANGED choices
    /\ UNCHANGED <<onScreen, agent, chatVars, running, skillVars, acknowledged, apart, flag>>

Acknowledge(accepts) ==
    /\ dialog \in {"auto", "yolo"}
    /\ acknowledged' = IF accepts THEN acknowledged \cup {dialog} ELSE acknowledged
    /\ Activated(IF accepts THEN dialog ELSE "manual")
    /\ dialog' = "none"
    /\ UNCHANGED <<onScreen, agent, chatVars, running, skillVars, choices, apart, flag>>

----------------------------------------------------------------------------
(* A turn *)

untouched == <<thread, workspace, dialog, skillVars, permissionVars>>

\* _submit, _resume_turn; the hooks run first.
Starts(resumes) ==
    /\ running = Idle /\ dialog \in {"none", "opening"} /\ Chosen
    /\ running' = [Idle EXCEPT !.at = "hooks", !.resumes = resumes]
    /\ UNCHANGED <<untouched, onScreen, agent, stored, journaled, apart, flag>>

\* /build sets the mode, and is refused by _submit while a turn runs.
Build ==
    /\ dialog = "none" /\ Chosen
    /\ onScreen' = [onScreen EXCEPT !.mode = "agent"]
    /\ agent' = [agent EXCEPT !.mode = "agent"]
    /\ running' = IF running = Idle THEN [Idle EXCEPT !.at = "hooks"] ELSE running
    /\ UNCHANGED <<chatVars, dialog, skillVars, permissionVars, apart, flag>>

\* The values for the graph are read.
Given ==
    /\ running.at = "hooks"
    /\ running' = [running EXCEPT !.at = "given", !.on = thread,
                            !.given = IF running.resumes THEN NotStored ELSE onScreen]
    /\ UNCHANGED <<untouched, choices, onScreen, agent, stored, journaled, apart, flag>>

\* hosted_node: the state of the chat, overridden by the journal of a resumed turn.
NodeStarts ==
    /\ running.at = "given"
    /\ LET t == running.on
           runs == IF running.resumes THEN journaled[t] ELSE running.given IN
       /\ runs # NotStored
       /\ agent' = runs
       /\ stored' = IF running.resumes THEN stored ELSE [stored EXCEPT ![t] = runs]
       /\ journaled' = [journaled EXCEPT ![t] = runs]
       /\ apart' = (runs # onScreen)
    /\ running' = [running EXCEPT !.at = "streaming"]
    /\ UNCHANGED <<untouched, choices, onScreen, flag>>

\* There is no unfinished turn: the node reports an error, and has set the agent.
NothingToResume ==
    /\ running.at = "given" /\ running.resumes /\ journaled[running.on] = NotStored
    /\ agent' = IF stored[running.on] = NotStored THEN agent ELSE stored[running.on]
    /\ apart' = (agent' # onScreen)
    /\ running' = Idle
    /\ UNCHANGED <<untouched, choices, onScreen, stored, journaled, flag>>

\* The service switches to Plan; the app hears of it from the stream.
PlanSwitch ==
    /\ running.at = "streaming" /\ ~running.switched /\ agent.mode # "plan"
    /\ agent' = [agent EXCEPT !.mode = "plan"]
    /\ running' = [running EXCEPT !.switched = TRUE]
    /\ UNCHANGED <<untouched, choices, onScreen, stored, journaled, apart, flag>>

PlanShown ==
    /\ running.switched
    /\ onScreen' = [onScreen EXCEPT !.mode = "plan"]
    /\ agent' = [agent EXCEPT !.mode = "plan"]
    /\ running' = [running EXCEPT !.switched = FALSE]
    /\ UNCHANGED <<untouched, choices, stored, journaled, apart, flag>>

\* The node returns what the agent holds now.
Commits ==
    /\ running.at = "streaming" /\ ~running.switched
    /\ stored' = [stored EXCEPT ![running.on] = agent]
    /\ journaled' = [journaled EXCEPT ![running.on] = NotStored]
    /\ running' = Idle /\ flag' = "none"
    /\ UNCHANGED <<untouched, choices, onScreen, agent, apart>>

\* Cancelled, or failed with the journal kept; events on their way are lost.
CutShort(keeps) ==
    /\ running.at = "streaming"
    /\ journaled' = IF keeps THEN journaled ELSE [journaled EXCEPT ![running.on] = NotStored]
    /\ apart' = (apart \/ running.switched)
    /\ running' = Idle /\ flag' = "none"
    /\ UNCHANGED <<untouched, choices, onScreen, agent, stored>>

----------------------------------------------------------------------------

\* async_main and on_mount: --mode, --effort and --model, --yolo or the saved mode.
SettingsInit ==
    /\ onScreen \in {s \in Settings : s.model # "none" => s.effort = "intelligence"}
    /\ agent = onScreen
    /\ flag \in {"none", onScreen.effort}
    /\ flag = "none" => onScreen.effort = "balanced"
    /\ thread \in Threads /\ workspace \in Workspaces
    /\ stored = [t \in Threads |-> NotStored] /\ journaled = stored
    /\ running = Idle
    /\ manifest = "none" /\ resolving = (IF workspace \in Skilled THEN workspace ELSE "none")
    /\ acknowledged \in SUBSET {"auto", "yolo"} /\ saved \in {"manual", "auto"}
    /\ approval \in {saved, "auto", "yolo"} /\ dialog = "mounting"
    /\ choices = 0 /\ apart = FALSE

Command ==
    \/ \E kind \in {"mode", "effort", "model", "cwd", "approval"} : Opens(kind)
    \/ DialogCloses \/ ChooseMode \/ ChooseEffort \/ ChooseFolder \/ ChooseApproval \/ Build
    \/ \E direct \in BOOLEAN : ChooseModel(direct)
    \/ \E t \in Threads : OpenThread(t)

TurnStep ==
    \/ \E resumes \in BOOLEAN : Starts(resumes)
    \/ Given \/ NodeStarts \/ NothingToResume \/ PlanSwitch \/ PlanShown \/ Commits
    \/ \E keeps \in BOOLEAN : CutShort(keeps)

SettingsNext ==
    \/ Mount \/ Hydrate \/ SkillsResolved
    \/ CycleMode \/ CycleEffort \/ CycleApproval
    \/ \E accepts \in BOOLEAN : Acknowledge(accepts)
    \/ Command \/ TurnStep

SettingsSpec == SettingsInit /\ [][SettingsNext]_settingsVars

----------------------------------------------------------------------------

\* The agent holds what the status bar shows, whatever keys, commands, opened chats
\* and switches to Plan came in between, except where the turn itself was given
\* something else: it was resumed, or a setting changed while it started.
AgentFollowsScreen ==
    dialog \notin {"opening", "mounting"} /\ ~running.switched /\ ~apart => agent = onScreen

\* No path to YOLO goes round its question, and no later session starts in it
\* (on_mount, action_cycle_approval, _activate_approval).
YoloIsAcknowledged ==
    /\ approval = "yolo" /\ dialog # "mounting" => "yolo" \in acknowledged
    /\ saved # "yolo"

\* What the user sees and has agreed to is what the next turn goes by.
SettingsAgree == AgentFollowsScreen /\ YoloIsAcknowledged

\* A turn of the session the command line opened runs with its --effort.
EffortFlagIsUsed ==
    running.at = "streaming" /\ ~running.resumes /\ flag # "none" => agent.effort = flag

\* The skills a request names are those of the project folder.
SkillsOfTheFolder == running.at = "streaming" /\ resolving = "none" => manifest \in {"none", workspace}

=============================================================================
