------------------------------ MODULE MCServers ------------------------------
(***************************************************************************)
(* The front ends and their user, for TLC: one session of the ACP server   *)
(* (AcpServer), the broker's approvals (ToolApproval), the settings of the *)
(* terminal and of the agent (ChatSettings), and the keys and the answer   *)
(* in the terminal (Composer).  A turn sees an approval only as a wait,    *)
(* and none of the others: a behaviour moves one of them.                  *)
(***************************************************************************)
EXTENDS AcpServer, ToolApproval, ChatSettings, Composer

VARIABLE part

Parts == {"session", "approval", "settings", "composer", "answer"}

\* The part that does not move has one initial state.
MCInit ==
    /\ part \in Parts
    /\ AcpInit /\ (part # "session" => ~journal)
    /\ ApprovalInit
    /\ part # "approval" => host = "nobody" /\ mode = "manual" /\ shells = "ask"
    /\ SettingsInit
    /\ thread = "t1" /\ workspace = "w1" /\ saved = "manual" /\ onScreen.mode = "agent"
    /\ onScreen.model = "none"
    /\ part # "settings" =>
          /\ approval = "manual" /\ acknowledged = {} /\ flag = "none"
          /\ onScreen.effort = "balanced"
    /\ ComposerInit /\ folder = "w1"

MCNext ==
    /\ UNCHANGED part
    /\ \/ /\ part = "session" /\ AcpNext
          /\ UNCHANGED <<approvalVars, settingsVars, composerVars>>
       \/ /\ part = "approval" /\ ApprovalNext
          /\ UNCHANGED <<acpVars, settingsVars, composerVars>>
       \/ /\ part = "settings" /\ SettingsNext
          /\ UNCHANGED <<acpVars, approvalVars, composerVars>>
       \/ /\ part \in {"composer", "answer"}
          /\ IF part = "composer" THEN ComposerNext ELSE AnswerNext
          /\ UNCHANGED <<acpVars, approvalVars, settingsVars>>

MCSpec ==
    /\ MCInit
    /\ [][MCNext]_<<part, acpVars, approvalVars, settingsVars, composerVars>>
    /\ AcpFairness

\* A text of tokens: commands, mentions of files and words, by their first letters.
MCTokens == {"", "/", "/help", "@", "@a", "@ab", "@cd", "w"}
MCTyped == {"/", "@", "@a"}
MCKind == [token \in MCTokens |->
    CASE token \in {"/", "/help"} -> "slash"
      [] token \in {"@", "@a", "@ab", "@cd"} -> "file"
      [] OTHER -> "none"]
MCFinds == [token \in MCTokens |->
    CASE token \in {"/", "/help"} -> {"/help"}
      [] token = "@" -> {"@ab", "@cd"}
      [] token \in {"@a", "@ab"} -> {"@ab"}
      [] token = "@cd" -> {"@cd"}
      [] OTHER -> {}]
MCContents == [f \in {"w1", "w2"} |-> IF f = "w1" THEN {"@ab", "@cd"} ELSE {"@cd"}]

=============================================================================
