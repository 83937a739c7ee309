----------------------------- MODULE LocalState -----------------------------
(***************************************************************************)
(* The small files several copper-pilot processes share in the state       *)
(* directory: config.json with the preferences and the state of the update *)
(* check (copper_preferences.py, copper_update.py), the recent projects    *)
(* (copper_workspace.py) and the credential (copper_auth.py, _credential   *)
(* of copper_main.py); and how a process comes to the model catalog that   *)
(* its callers share (copper_models.py).                                   *)
(*                                                                         *)
(* A process is one event loop: what it does without an await is not       *)
(* interleaved with its other tasks, but with every other process.  A file *)
(* is replaced in one step (atomic_write_text).                            *)
(***************************************************************************)
EXTENDS Naturals, FiniteSets, SequencesExt

CONSTANTS
    Processes,    \* running front ends
    Themes,       \* values of a preference the user sets
    Projects,     \* folders that are opened
    Callers,      \* tasks of a process that ask for the catalog
    LocksWork,    \* flock is available (POSIX)
    Limit,        \* rows of the recent projects
    MaxSettings,  \* bound: settings saved
    MaxOpened,    \* bound: folders remembered
    MaxLogins     \* bound: credentials issued

ASSUME LocalStateAssumption ==
    /\ IsFiniteSet(Processes) /\ LocksWork \in BOOLEAN /\ "none" \notin Themes
    /\ {Limit, MaxSettings, MaxOpened, MaxLogins} \subseteq Nat

VARIABLES
    prefs,       \* config.json
    saving,      \* what a process has read and changed and is about to write
    contended,   \* two processes have been saving at once
    setting,     \* the theme the user has set last, and how many were set
    update,      \* a process's background update check
    shown,       \* the release notice was shown
    recents,     \* recent-projects.json
    remembering, \* the rows a process has read, under the lock
    opened,      \* the folders that were remembered, the newest first
    auth,        \* auth.json: the number of a credential, 0 when there is none
    issued,      \* credentials issued
    revoked,     \* those the server accepts no more
    session,     \* a process's way to a credential
    catalog      \* the catalog of a process, its request and its callers

prefVars == <<prefs, saving, contended, setting, update, shown>>
projectVars == <<recents, remembering, opened>>
authVars == <<auth, issued, revoked, session>>
localVars == <<prefVars, projectVars, authVars, catalog>>

NoTheme == "none"
Nothing == [nothing |-> TRUE]

----------------------------------------------------------------------------
(* Preferences: load, change a key, save *)

Running(p) == session[p].at \in {"ready", "loggedOut"}
Free(p) == Running(p) /\ saving[p] = Nothing /\ remembering[p] = Nothing

\* Read by a task of p that writes before it awaits anything.
Loads(p, changed) ==
    /\ saving' = [saving EXCEPT ![p] = changed]
    /\ contended' = (contended \/ \E q \in Processes \ {p} : saving[q] # Nothing)

SaveTheme(p, theme) ==
    /\ Free(p) /\ setting.count < MaxSettings
    /\ Loads(p, [prefs EXCEPT !.theme = theme])
    /\ setting' = [theme |-> theme, count |-> setting.count + 1]
    /\ UNCHANGED <<prefs, update, shown>>

\* save_preferences.
SavePreferences(p) ==
    /\ saving[p] # Nothing
    /\ prefs' = saving[p]
    /\ saving' = [saving EXCEPT ![p] = Nothing]
    /\ UNCHANGED <<contended, setting, update, shown>>

\* record_update_check loads the preferences again.
Reloaded(p) == prefs

CheckStarts(p) ==
    /\ Free(p) /\ update[p].at = "none" /\ ~prefs.checked
    /\ update' = [update EXCEPT ![p] = [at |-> "requesting", read |-> prefs]]
    /\ UNCHANGED <<prefs, saving, contended, setting, shown>>

\* A check that failed or found nothing to announce.
CheckFindsNothing(p) ==
    /\ Free(p) /\ update[p].at = "requesting"
    /\ Loads(p, [Reloaded(p) EXCEPT !.checked = TRUE])
    /\ update' = [update EXCEPT ![p].at = "done"]
    /\ UNCHANGED <<prefs, setting, shown>>

\* notify, and mark_notice_shown once it was.
CheckShows(p) ==
    /\ Free(p) /\ update[p].at = "requesting" /\ ~update[p].read.announced
    /\ shown' = TRUE
    /\ Loads(p, [Reloaded(p) EXCEPT !.checked = TRUE, !.announced = TRUE])
    /\ update' = [update EXCEPT ![p].at = "done"]
    /\ UNCHANGED <<prefs, setting>>

\* A cancelled check leaves the next launch free to try again.
CheckCancelled(p) ==
    /\ update[p].at = "requesting"
    /\ update' = [update EXCEPT ![p].at = "done"]
    /\ UNCHANGED <<prefs, saving, contended, setting, shown>>

----------------------------------------------------------------------------
(* Recent projects: remember_workspace *)

\* state_lock; a killed process loses its lock.
MayLock(p) == LocksWork => \A q \in Processes : remembering[q] = Nothing

\* The rows of other folders follow the first.
OtherRow(all, row) == IF row = all[1] THEN all ELSE Append(all, row)

WithProject(rows, project) ==
    LET all == FoldLeft(OtherRow, <<project>>, rows) IN
    SubSeq(all, 1, IF Len(all) < Limit THEN Len(all) ELSE Limit)

ReadProjects(p, project) ==
    /\ Free(p) /\ Len(opened) < MaxOpened /\ MayLock(p)
    /\ remembering' = [remembering EXCEPT ![p] = [rows |-> recents, project |-> project]]
    /\ UNCHANGED <<recents, opened>>

WriteProjects(p) ==
    /\ remembering[p] # Nothing
    /\ recents' = WithProject(remembering[p].rows, remembering[p].project)
    /\ opened' = <<remembering[p].project>> \o opened
    /\ remembering' = [remembering EXCEPT ![p] = Nothing]

KilledWhileRemembering(p) ==
    /\ remembering[p] # Nothing
    /\ remembering' = [remembering EXCEPT ![p] = Nothing]
    /\ UNCHANGED <<recents, opened>>

----------------------------------------------------------------------------
(* The credential: _credential, DeviceLogin.login, /auth *)

At(p, at, key) == session' = [session EXCEPT ![p] = [@ EXCEPT !.at = at, !.key = key]]

\* load_credential, and the request that validates it.
LoadCredential(p) ==
    /\ session[p].at = "start"
    /\ session' = [session EXCEPT ![p] =
          [at |-> IF auth = 0 THEN "login" ELSE "validating", key |-> auth, dead |-> revoked]]
    /\ UNCHANGED <<auth, issued, revoked>>

\* MUTANT: a server that cannot be reached leaves the stored credential in use.
Unreachable_Used(p) == At(p, "ready", session[p].key)

Unreachable(p) == At(p, "failed", session[p].key)

Validate(p, reached) ==
    /\ session[p].at = "validating"
    /\ CASE ~reached -> Unreachable(p) /\ UNCHANGED auth
         [] reached /\ session[p].key \in revoked ->
              At(p, "login", session[p].key) /\ auth' = 0
         [] OTHER -> At(p, "ready", session[p].key) /\ UNCHANGED auth
    /\ UNCHANGED <<issued, revoked>>

\* A poll of the flow that is answered with a key.
LoginReady(p) ==
    /\ session[p].at \in {"login", "loggedOut"} /\ issued < MaxLogins
    /\ issued' = issued + 1 /\ auth' = issued + 1
    /\ At(p, "ready", issued + 1)
    /\ UNCHANGED revoked

\* Expired, rejected, refused or not answered in time.
LoginFails(p) ==
    /\ session[p].at = "login"
    /\ At(p, "failed", 0)
    /\ UNCHANGED <<auth, issued, revoked>>

Logout(p) ==
    /\ session[p].at = "ready"
    /\ auth' = 0 /\ At(p, "loggedOut", 0)
    /\ UNCHANGED <<issued, revoked>>

Revoke(key) ==
    /\ key \in 1..issued /\ key \notin revoked
    /\ revoked' = revoked \cup {key}
    /\ UNCHANGED <<auth, issued, session>>

----------------------------------------------------------------------------
(* The catalog: load_chat_model_catalog *)

NewCatalog == [models |-> "bundled", request |-> "none", state |-> [c \in Callers |-> "idle"]]

Waiting(c) == catalog.state[c] = "waiting"
Informed(answer) == [c \in Callers |-> IF Waiting(c) THEN answer ELSE catalog.state[c]]

\* A cached catalog is returned at once; callers join a request that runs.
AskCatalog(c) ==
    /\ catalog.state[c] = "idle"
    /\ catalog' = IF catalog.models = "server"
                  THEN [catalog EXCEPT !.state[c] = "server"]
                  ELSE [catalog EXCEPT !.state[c] = "waiting", !.request = "sent"]

CatalogAnswered(usable) ==
    /\ catalog.request = "sent"
    /\ LET some == \E c \in Callers : Waiting(c) IN
       catalog' = [models |-> IF usable /\ some THEN "server" ELSE catalog.models,
                   request |-> "none",
                   state |-> Informed(IF usable THEN "server" ELSE "bundled")]

\* asyncio.shield: the request runs on for the others.
CallerCancelled(c) ==
    /\ Waiting(c)
    /\ catalog' = [catalog EXCEPT !.state[c] = "cancelled"]

----------------------------------------------------------------------------

LocalInit ==
    /\ prefs = [theme |-> NoTheme, checked |-> FALSE, announced |-> FALSE]
    /\ saving = [p \in Processes |-> Nothing]
    /\ contended = FALSE /\ setting = [theme |-> NoTheme, count |-> 0]
    /\ update = [p \in Processes |-> [at |-> "none", read |-> prefs]]
    /\ shown = FALSE
    /\ recents = <<>> /\ remembering = [p \in Processes |-> Nothing] /\ opened = <<>>
    /\ auth \in {0, 1} /\ issued = 1 /\ revoked \in SUBSET {1}
    /\ session = [p \in Processes |-> [at |-> "start", key |-> 0, dead |-> {}]]
    /\ catalog = NewCatalog

Preferences ==
    \E p \in Processes :
       \/ \E theme \in Themes : SaveTheme(p, theme)
       \/ SavePreferences(p) \/ CheckStarts(p) \/ CheckFindsNothing(p)
       \/ CheckShows(p) \/ CheckCancelled(p)

RecentProjects ==
    \E p \in Processes :
       \/ \E project \in Projects : ReadProjects(p, project)
       \/ WriteProjects(p) \/ KilledWhileRemembering(p)

Credential ==
    \/ \E p \in Processes :
          \/ LoadCredential(p) \/ LoginReady(p) \/ LoginFails(p) \/ Logout(p)
          \/ \E reached \in BOOLEAN : Validate(p, reached)
    \/ \E key \in 1..MaxLogins : Revoke(key)

Catalog ==
    \/ \E c \in Callers : AskCatalog(c) \/ CallerCancelled(c)
    \/ \E usable \in BOOLEAN : CatalogAnswered(usable)

LocalNext ==
    \/ Preferences /\ UNCHANGED <<projectVars, authVars, catalog>>
    \/ RecentProjects /\ UNCHANGED <<prefVars, authVars, catalog>>
    \/ Credential /\ UNCHANGED <<prefVars, projectVars, catalog>>
    \/ Catalog /\ UNCHANGED <<prefVars, projectVars, authVars>>

LocalSpec == LocalInit /\ [][LocalNext]_localVars

----------------------------------------------------------------------------
(* Properties *)

\* The folders of a list, each at its first place.
Distinct(rows) ==
    FoldLeft(LAMBDA kept, row : IF Contains(kept, row) THEN kept ELSE Append(kept, row),
             <<>>, rows)

\* Unless two processes save at the same time, the theme the user chose is on file,
\* also when a background update check began before the choice and records itself
\* after it (record_update_check loads again before it saves).
ThemeIsKept ==
    ~contended /\ (\A p \in Processes : saving[p] = Nothing) => prefs.theme = setting.theme

\* A release is marked as announced only when its notice was shown, by whatever
\* process (mark_notice_shown).
NoticesAreTrue == prefs.announced => shown

\* With the lock, what a process has read of the recent projects is still on file
\* when it writes (state_lock).
RowsAreFresh ==
    LocksWork => \A p \in Processes : remembering[p] # Nothing => remembering[p].rows = recents

\* With the lock the recent projects are the folders opened by all processes,
\* newest first, killed ones or not (remember_workspace).
RecentsAreKept ==
    LocksWork =>
      LET all == Distinct(opened) IN
      recents = SubSeq(all, 1, IF Len(all) < Limit THEN Len(all) ELSE Limit)

\* What a process saves is not lost, whatever other processes save: the theme, the
\* notice of a release and the recent projects
\* (record_update_check, mark_notice_shown, remember_workspace, state_lock).
SavedStateSurvives == ThemeIsKept /\ NoticesAreTrue /\ RowsAreFresh /\ RecentsAreKept

\* A process that got through its start runs on a credential the server still
\* accepted when it loaded it, or on one of a login since, whatever other
\* processes log in, out or clear (_credential); and no caller waits for a catalog
\* request that is gone, whoever of them was cancelled, and the server's list is
\* never lost again (load_chat_model_catalog).
StartIsSound ==
    /\ \A p \in Processes : session[p].at = "ready" => session[p].key \notin {0} \cup session[p].dead
    /\ \A c \in Callers : Waiting(c) => catalog.request = "sent"
    /\ (\E c \in Callers : catalog.state[c] = "server") => catalog.models = "server"

\* The small files of a user serve every process that starts from them.
FilesAreSound == SavedStateSurvives /\ StartIsSound

=============================================================================
