--------------------------- MODULE ProjectRegistry ---------------------------
(* config.toml with its project registry, and the sessions of the projects. *)
(* The agent loads the file once and saves its own copy; every command of   *)
(* the command line loads, changes and saves the file. The copies are       *)
(* reconciled by nobody: whoever saves last wins. A save truncates the file *)
(* and writes it again, and may be cut off in between.                      *)
EXTENDS Naturals, Sequences

CONSTANTS Projects, Workspaces,
          ProjectOf,     \* the project a workspace belongs to
          RegistryRuns,  \* runs of the command line
          MaxSessions    \* bound: rows of sessions

ASSUME RegistryAssumption == ProjectOf \in [Workspaces -> Projects]

VARIABLES regFile,       \* the configuration in the file, or Torn
          regAgent,      \* the agent's copy
          agentStep,     \* "down", "ready", or the default session it ensures under its lock
          regRun,        \* run -> what it has loaded
          sessions,      \* session rows, oldest first
          cutOff,        \* history: the file is what a save left that was cut off
          registeredOk,  \* history: workspaces whose projects.add the agent answered
          interfered     \* history: a command saved the file, or the agent loaded a cut-off one

fileVars == <<regFile, cutOff>>
historyVars == <<registeredOk, interfered>>
registryVars == <<fileVars, regAgent, agentStep, regRun, sessions, historyVars>>

Unregistered == "unregistered"
WorkspaceStates == {"active", "inactive", "stale"}

(* A project's own path is that of a workspace it has or had. *)
EmptyConfig == [state |-> [w \in Workspaces |-> Unregistered], projects |-> {},
                path |-> [p \in Projects |-> CHOOSE w \in Workspaces : TRUE],
                profile |-> "balanced"]
Torn == [EmptyConfig EXCEPT !.profile = "torn"]

RegisteredIn(config) == {w \in Workspaces : config.state[w] # Unregistered}
WorkspacesOf(p) == {w \in Workspaces : ProjectOf[w] = p}

(* LocalConfig::parse gives a project without workspaces the one at its own *)
(* path back.                                                               *)
BackfillLegacyWorkspaces(config) ==
    LET bare == {p \in config.projects : WorkspacesOf(p) \intersect RegisteredIn(config) = {}}
    IN  [config EXCEPT !.state = [w \in Workspaces |->
            IF \E p \in bare : config.path[p] = w THEN "active" ELSE config.state[w]]]

MergeProjectRegistryEntry(config, w) ==
    [config EXCEPT !.projects = @ \union {ProjectOf[w]},
                   !.state[w] = "active",
                   !.path[ProjectOf[w]] = IF ProjectOf[w] \in config.projects THEN @ ELSE w]

RemoveProject(config, p) ==
    [config EXCEPT !.projects = @ \ {p},
                   !.state = [w \in Workspaces |->
                       IF ProjectOf[w] = p THEN Unregistered ELSE config.state[w]]]

(* What fs::write leaves of a configuration when it is cut off: a text that *)
(* nothing loads, or one that ends with a table. The projects are its last  *)
(* tables, each before those of its workspaces, so that the text loads with *)
(* some of the projects, the last of them with some of its workspaces.      *)
Beginnings(config) ==
    {b \in [kept : SUBSET config.projects, rows : SUBSET RegisteredIn(config)] :
        \E last \in Projects : \A w \in RegisteredIn(config) :
            /\ w \in b.rows => ProjectOf[w] \in b.kept
            /\ ProjectOf[w] \in b.kept \ {last} => w \in b.rows}

Beginning(config, b) ==
    [config EXCEPT !.projects = b.kept,
                   !.state = [w \in Workspaces |->
                       IF w \in b.rows THEN config.state[w] ELSE Unregistered]]

CutOff(config) == {Torn} \cup {Beginning(config, b) : b \in Beginnings(config)}

RegistryInit ==
    /\ regFile = EmptyConfig /\ cutOff = FALSE
    /\ regAgent = EmptyConfig
    /\ agentStep = [at |-> "down"]
    /\ regRun = [r \in RegistryRuns |-> [at |-> "idle"]]
    /\ sessions = <<>>
    /\ registeredOk = {}
    /\ interfered = FALSE

----------------------------------------------------------------------------
(* Sessions *)

RootSessions(p) ==
    {i \in DOMAIN sessions : sessions[i].project = p /\ sessions[i].parent = 0}

InsertSession(p, parent, state) ==
    /\ Len(sessions) < MaxSessions
    /\ sessions' = Append(sessions, [project |-> p, parent |-> parent, state |-> state])

ForkSession(i) ==
    /\ i \in DOMAIN sessions
    /\ InsertSession(sessions[i].project, i, "fork")
    /\ UNCHANGED <<fileVars, regAgent, agentStep, regRun, historyVars>>

ArchiveSession(i) ==
    /\ i \in DOMAIN sessions
    /\ sessions' = [sessions EXCEPT ![i].state = "archived"]
    /\ UNCHANGED <<fileVars, regAgent, agentStep, regRun, historyVars>>

----------------------------------------------------------------------------
(* The agent. Its handlers change and save their copy under one lock. *)

AgentReady == agentStep.at = "ready"
UnchangedRuns == UNCHANGED <<regRun, sessions, interfered>>

(* LocalConfig::save is fs::write, which truncates first: one that fails    *)
(* leaves the file as it is, or cut off. A process that ends in a save is   *)
(* one whose save is cut off and which ends next.                           *)
SaveFile(config, saved) ==
    IF saved THEN regFile' = config /\ cutOff' = FALSE
    ELSE \/ UNCHANGED fileVars
         \/ regFile' \in CutOff(config) /\ cutOff' = TRUE

(* main loads, marks the device as seen and saves, or does not start. *)
AgentStarts(saved) ==
    /\ agentStep.at = "down"
    /\ regFile # Torn
    /\ SaveFile(BackfillLegacyWorkspaces(regFile), saved)
    /\ IF saved
       THEN /\ regAgent' = BackfillLegacyWorkspaces(regFile)
            /\ agentStep' = [at |-> "ready"]
       ELSE UNCHANGED <<regAgent, agentStep>>
    /\ interfered' = (interfered \/ cutOff)
    /\ UNCHANGED <<regRun, sessions, registeredOk>>

(* The process ends, with or without a warning. *)
AgentEnds ==
    /\ agentStep.at # "down"
    /\ regAgent' = EmptyConfig /\ agentStep' = [at |-> "down"]
    /\ UNCHANGED <<fileVars, regRun, sessions, historyVars>>

(* The copy is changed before it is saved, and stays changed if that fails. *)
AgentSaves(config, saved) ==
    /\ regAgent' = config
    /\ SaveFile(config, saved)

\* Mutant: the file is saved before the entry is merged.
AddSavesFirst(w, saved) ==
    /\ AgentReady
    /\ w \notin RegisteredIn(regAgent)
    /\ regAgent' = MergeProjectRegistryEntry(regAgent, w)
    /\ SaveFile(regAgent, saved)
    /\ agentStep' = IF saved THEN [at |-> "select", workspace |-> w] ELSE agentStep
    /\ UnchangedRuns /\ UNCHANGED registeredOk

HandleProjectsAdd(w, saved) ==
    /\ AgentReady
    /\ w \notin RegisteredIn(regAgent)
    /\ AgentSaves(MergeProjectRegistryEntry(regAgent, w), saved)
    /\ agentStep' = IF saved THEN [at |-> "select", workspace |-> w] ELSE agentStep
    /\ UnchangedRuns /\ UNCHANGED registeredOk

(* ensure_default_session: a select, and an insert of its own if that found *)
(* no root session; then the answer.                                        *)
AnswerAdd(w) ==
    /\ registeredOk' = registeredOk \union {w}
    /\ agentStep' = [at |-> "ready"]

SelectDefaultSession ==
    /\ agentStep.at = "select"
    /\ IF RootSessions(ProjectOf[agentStep.workspace]) # {}
       THEN AnswerAdd(agentStep.workspace)
       ELSE agentStep' = [agentStep EXCEPT !.at = "insert"] /\ UNCHANGED registeredOk
    /\ UnchangedRuns /\ UNCHANGED <<fileVars, regAgent>>

InsertDefaultSession ==
    /\ agentStep.at = "insert"
    /\ InsertSession(ProjectOf[agentStep.workspace], 0, "active")
    /\ AnswerAdd(agentStep.workspace)
    /\ UNCHANGED <<fileVars, regAgent, regRun, interfered>>

(* The metadata database fails: the answer is an error, the entry stays. *)
DefaultSessionFails ==
    /\ agentStep.at \in {"select", "insert"}
    /\ agentStep' = [at |-> "ready"]
    /\ UnchangedRuns /\ UNCHANGED <<fileVars, regAgent, registeredOk>>

HandleProjectsRemove(p, saved) ==
    /\ AgentReady
    /\ p \in regAgent.projects
    /\ AgentSaves(RemoveProject(regAgent, p), saved)
    /\ registeredOk' = registeredOk \ WorkspacesOf(p)
    /\ UnchangedRuns /\ UNCHANGED agentStep

(* A refused editor command comes after the profile has been changed in the *)
(* copy; the error answer leaves that change to the next save.              *)
HandleSettingsUpdate(profile, saved) ==
    /\ AgentReady
    /\ AgentSaves([regAgent EXCEPT !.profile = profile], saved)
    /\ UnchangedRuns /\ UNCHANGED <<agentStep, registeredOk>>

(* recover.open looks the project up, works on the workspace without the   *)
(* lock, and registers it under the lock if the project is still there.    *)
RegisterRecoveryWorkspace(w, saved) ==
    /\ AgentReady
    /\ ProjectOf[w] \in regAgent.projects
    /\ w \notin RegisteredIn(regAgent)
    /\ AgentSaves([regAgent EXCEPT !.state[w] = "active"], saved)
    /\ UnchangedRuns /\ UNCHANGED <<agentStep, registeredOk>>

----------------------------------------------------------------------------
(* The command line *)

LoadOrDefaultConfig(r) ==
    /\ regRun[r].at = "idle"
    /\ regFile # Torn
    /\ regRun' = [regRun EXCEPT ![r] =
           [at |-> "loaded", config |-> BackfillLegacyWorkspaces(regFile)]]
    /\ UNCHANGED <<fileVars, regAgent, agentStep, sessions, historyVars>>

RunSaves(r, config, removed, saved) ==
    /\ regRun[r].at = "loaded"
    /\ SaveFile(config, saved)
    /\ interfered' = TRUE
    /\ registeredOk' = registeredOk \ removed
    /\ UNCHANGED <<regAgent, agentStep, sessions>>

RunEnds(r) == regRun' = [regRun EXCEPT ![r] = [at |-> "done"]]

(* Device, identity, pairing and anchor commands save what they loaded. *)
OpenDeviceRegistry(r, saved) ==
    /\ regRun[r].at = "loaded"
    /\ RunSaves(r, regRun[r].config, {}, saved)
    /\ RunEnds(r)

(* Marks workspaces by whether their path exists. *)
RefreshWorkspaceStates(config, existing) ==
    [config EXCEPT !.state = [w \in Workspaces |->
        CASE config.state[w] = Unregistered -> Unregistered
          [] w \notin existing              -> "stale"
          [] config.state[w] = "stale"      -> "active"
          [] OTHER                          -> config.state[w]]]

ProjectsListDirect(r, existing, saved) ==
    /\ regRun[r].at = "loaded"
    /\ LET refreshed == RefreshWorkspaceStates(regRun[r].config, existing)
       IN  refreshed # regRun[r].config /\ RunSaves(r, refreshed, {}, saved)
    /\ RunEnds(r)

ProjectAddDirect(r, w, existing, saved) ==
    /\ regRun[r].at = "loaded"
    /\ w \in existing
    /\ w \notin RegisteredIn(regRun[r].config)
    /\ LET refreshed == RefreshWorkspaceStates(regRun[r].config, existing)
       IN  RunSaves(r, MergeProjectRegistryEntry(refreshed, w), {}, saved)
    /\ IF saved THEN regRun' = [regRun EXCEPT ![r] = [at |-> "select", workspace |-> w]]
                ELSE RunEnds(r)

(* recover open applies the snapshot between its load and its save. *)
RecoverOpenDirect(r, w, saved) ==
    /\ regRun[r].at = "loaded"
    /\ ProjectOf[w] \in regRun[r].config.projects
    /\ w \notin RegisteredIn(regRun[r].config)
    /\ RunSaves(r, [regRun[r].config EXCEPT !.state[w] = "active"], {}, saved)
    /\ RunEnds(r)

RunSelectsSession(r) ==
    /\ regRun[r].at = "select"
    /\ regRun' = [regRun EXCEPT ![r].at =
           IF RootSessions(ProjectOf[regRun[r].workspace]) # {} THEN "done" ELSE "insert"]
    /\ UNCHANGED <<fileVars, regAgent, agentStep, sessions, historyVars>>

RunInsertsSession(r) ==
    /\ regRun[r].at = "insert"
    /\ InsertSession(ProjectOf[regRun[r].workspace], 0, "active")
    /\ RunEnds(r)
    /\ UNCHANGED <<fileVars, regAgent, agentStep, historyVars>>

ProjectRemoveDirect(r, p, saved) ==
    /\ regRun[r].at = "loaded"
    /\ p \in regRun[r].config.projects
    /\ RunSaves(r, RemoveProject(regRun[r].config, p), WorkspacesOf(p), saved)
    /\ RunEnds(r)

(* A project whose path it was moves to another workspace, if it has one. *)
RemoveWorkspace(r, w, saved) ==
    /\ regRun[r].at = "loaded"
    /\ w \in RegisteredIn(regRun[r].config)
    /\ LET p == ProjectOf[w]
           config == [regRun[r].config EXCEPT !.state[w] = Unregistered]
           rest == WorkspacesOf(p) \intersect RegisteredIn(config)
           path == IF config.path[p] = w /\ rest # {} THEN CHOOSE o \in rest : TRUE
                   ELSE config.path[p]
       IN  RunSaves(r, [config EXCEPT !.path[p] = path], {w}, saved)
    /\ RunEnds(r)

(* continue checkpoints, applies and verifies between its load and its save. *)
MarkHandoffWorkspaceStates(r, source, target, saved) ==
    /\ regRun[r].at = "loaded"
    /\ LET config == regRun[r].config
           marked == [config EXCEPT !.state = [w \in Workspaces |->
               CASE config.state[w] = Unregistered -> Unregistered
                 [] w = source -> "inactive"
                 [] w = target -> "active"
                 [] OTHER      -> config.state[w]]]
       IN  marked # config /\ RunSaves(r, marked, {}, saved)
    /\ RunEnds(r)

RegistryNext ==
    \/ AgentEnds
    \/ SelectDefaultSession \/ InsertDefaultSession \/ DefaultSessionFails
    \/ \E i \in DOMAIN sessions : ForkSession(i) \/ ArchiveSession(i)
    \/ \E r \in RegistryRuns : LoadOrDefaultConfig(r) \/ RunSelectsSession(r) \/ RunInsertsSession(r)
    \/ \E saved \in BOOLEAN :
          \/ AgentStarts(saved)
          \/ \E w \in Workspaces : HandleProjectsAdd(w, saved) \/ RegisterRecoveryWorkspace(w, saved)
          \/ \E p \in Projects : HandleProjectsRemove(p, saved)
          \/ \E profile \in {"balanced", "low-impact"} : HandleSettingsUpdate(profile, saved)
          \/ \E r \in RegistryRuns :
                \/ OpenDeviceRegistry(r, saved)
                \/ \E existing \in SUBSET Workspaces :
                      \/ ProjectsListDirect(r, existing, saved)
                      \/ \E w \in Workspaces : ProjectAddDirect(r, w, existing, saved)
                \/ \E w \in Workspaces : RecoverOpenDirect(r, w, saved) \/ RemoveWorkspace(r, w, saved)
                \/ \E p \in Projects : ProjectRemoveDirect(r, p, saved)
                \/ \E s, t \in Workspaces : s # t /\ MarkHandoffWorkspaceStates(r, s, t, saved)

(* Every workspace is of one project. *)
OneProject == [w \in Workspaces |-> CHOOSE p \in Projects : TRUE]

(* The agent adds projects while one command lists the devices and saves    *)
(* the configuration it loaded: nothing is removed and no save fails.       *)
DeviceListNext ==
    \/ AgentStarts(TRUE) \/ AgentEnds \/ SelectDefaultSession \/ InsertDefaultSession
    \/ \E w \in Workspaces : HandleProjectsAdd(w, TRUE)
    \/ \E r \in RegistryRuns : LoadOrDefaultConfig(r) \/ OpenDeviceRegistry(r, TRUE)

DeviceListSpec == RegistryInit /\ [][DeviceListNext]_registryVars
----------------------------------------------------------------------------
(* While only the agent saves the file (handle_projects_add saves, then     *)
(* ensures the session, then answers), every project it said it added is in *)
(* its copy, whichever saves failed since, so that its next save that ends  *)
(* puts the project into the file again; and the project is in the file     *)
(* itself, so that a restart finds it, unless the last save was cut off.    *)
(* An agent that stops after such a save has lost what was cut off, and may *)
(* not start again. Whoever saves, the project has a root session.          *)
AgentAnswersAreSaved ==
    /\ ~interfered =>
          /\ agentStep.at # "down" => registeredOk \subseteq RegisteredIn(regAgent)
          /\ ~cutOff => registeredOk \subseteq RegisteredIn(regFile)
    /\ \A w \in registeredOk : RootSessions(ProjectOf[w]) # {}

(* What the agent's test of a restart says: a project whose addition was    *)
(* answered is still there after a restart, unless it was removed. Commands *)
(* that only list devices are enough to lose it.                            *)
AcknowledgedProjectsSurvive ==
    [][AgentStarts(TRUE) => registeredOk \subseteq RegisteredIn(regAgent')]_registryVars
=============================================================================
