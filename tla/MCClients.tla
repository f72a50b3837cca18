------------------------------ MODULE MCClients ------------------------------
(* Small instances for TLC of what goes on around the agent: the desktop   *)
(* application, the editor, recoveries into directories, the socket, the   *)
(* readers of its tables, a snapshot on its way to the anchor, and a       *)
(* target that gets one.  They share no state: one of them runs, chosen in *)
(* the initial state, and the rest stay as they start.                     *)
EXTENDS DesktopShell, EditorExtension, RecoveryWorkspace, AgentIpc, LocalMetrics, ProjectQueries,
        SnapshotUpload, SidecarTransfer, SnapshotTransfer, PathPortability, TLC

CONSTANTS c1, c2    \* chunks of the uploads

VARIABLE client    \* the part that runs

(* Names that differ in case, in Unicode form, in both, by a dot at the    *)
(* end; a directory; and a name that is a device on Windows.                *)
Letter(upper, form, flaw) == [letters |-> "a", upper |-> upper, form |-> form, flaw |-> flaw]
FileInDirectory == <<Letter(TRUE, "composed", "none"), Letter(FALSE, "composed", "none")>>
AlikePaths ==
    {<<Letter(FALSE, "composed", "none")>>, <<Letter(TRUE, "composed", "none")>>,
     <<Letter(TRUE, "decomposed", "none")>>, <<Letter(FALSE, "composed", "dot")>>,
     <<[Letter(FALSE, "composed", "device") EXCEPT !.letters = "nul"]>>, FileInDirectory}
OneLink == {FileInDirectory}

(* Windows of up to two groups with up to two tabs: a terminal, a file, one *)
(* whose path is longer, a diff of two; and limits that fit, or are tight.  *)
WindowTabs == {<<>>, <<<<1>>>>, <<<<1, 2>>>>, <<<<2>>, <<1>>>>}
WindowGroups == BoundedSeq(WindowTabs, 2)
EditorWindows ==
    [folders : {<<>>, <<<<1, 2>>, <<2>>>>},
     groups : {<<g>> : g \in WindowGroups} \cup {<<g, <<t>>>> : g \in WindowGroups, t \in WindowTabs},
     active : {<<>>, <<2>>, <<1>>},
     breakpoints : {<<<<>>, <<1, 2>>>>, <<<<2>>>>}]
Limit(count, string) == [groups |-> count, tabs |-> count, breakpoints |-> count, string |-> string]
TwoLimits == {Limit(2, 2), Limit(1, 1)}

(* Two sidecars that share a chunk. *)
SharedSidecars == [s \in Snapshots |-> <<{c1}, {c1, c2}>>]
-----------------------------------------------------------------------------
clientsVars == <<client, vars, desktopVars, editorVars, recoveryVars, ipcVars, metricsVars, queryVars, activityVars,
                 sidecarVars, transferVars, pathVars, contextVars>>

(* EditorExtension in two halves: the commands that capture and restore,   *)
(* from texts that one window shows and others that were captured; and the *)
(* other commands, with a capture, of one window without unsaved texts.    *)
FirstWindow == CHOOSE w \in Windows : TRUE
EditorStart ==
    /\ \A w \in Windows \ {FirstWindow} : windows[w].dirty = {}
    /\ windows[FirstWindow].dirty \cap capsule.buffers = {}
    /\ windows[FirstWindow].dirty \cup capsule.buffers = IF client = "editor" THEN Buffers ELSE {}

ClientsInit ==
    /\ client \in {"desktop", "editor", "elsewhere", "recovery", "ipc", "metrics", "queries", "activity",
                  "upload", "sidecars", "routes", "paths", "context"}
    /\ Init /\ DesktopInit /\ EditorInit /\ RecoveryInit /\ IpcInit /\ MetricsInit /\ QueriesInit
    /\ ActivityInit /\ SidecarInit /\ RoutesInit /\ PathsInit /\ ContextInit
    /\ EditorStart
    /\ registered = IF client = "queries" THEN Registrable ELSE {}
    /\ client # "recovery" => \A d \in Directories : places[d].kind = "absent"
    /\ client # "sidecars" => source.objects \cup source.smudged \cup upstream = {}
    /\ client # "routes" => peer.online /\ peer.refs = {}

(* The two halves of EditorExtension.  Contexts are captured in one window, *)
(* and the audit log has up to three records.                               *)
EditorHalf ==
    IF client = "editor" THEN
        /\ UNCHANGED writer /\ Len(trail') <= 3
        /\ \A k \in Chains :
               /\ chains'[k].kind \notin {"elsewhere", "refresh"}
               /\ chains'[k].kind = "capture" => chains'[k].window = FirstWindow
    ELSE /\ \A k \in Chains :
               /\ chains'[k].kind \notin {"captureBuffers", "restore", "restoreBuffers"}
               /\ chains'[k].window \in {FirstWindow, "none"}
         /\ \A w \in Windows : windows'[w].dirty = {}

(* Up to two commands of the page are under way or just answered.           *)
FewCommands == Len(mainThread') + Len(answers') <= 2

(* A query beside changes of what it reads.                                *)
NoFiles == [p \in Registrable |-> [w \in Spaces \cup {NoSpace} |-> "absent"]]
Concerns(kind) ==
    /\ kind \in {"registry", "environment", "snapshots", "store", "recoverable"} =>
          \A p \in Registrable : tables[p].handoffs = <<>>
    /\ kind \in {"registry", "environment", "handoffs", "leases"} =>
          \A p \in Registrable : tables[p].snapshots = {}
    /\ kind \notin {"none", "environment"} => hydrated = NoFiles
RelevantChanges == \A q \in Queries : Concerns(queries[q].kind)'

ClientsNext ==
    /\ UNCHANGED client
    /\ IF client = "upload" THEN Next ELSE UNCHANGED vars
    /\ IF client = "desktop" THEN DesktopNext /\ FewCommands ELSE UNCHANGED desktopVars
    /\ IF client \in {"editor", "elsewhere"} THEN EditorNext /\ EditorHalf
                                           ELSE UNCHANGED editorVars
    /\ IF client = "recovery" THEN RecoveryNext ELSE UNCHANGED recoveryVars
    /\ IF client = "ipc" THEN IpcNext ELSE UNCHANGED ipcVars
    /\ IF client = "metrics" THEN MetricsNext ELSE UNCHANGED metricsVars
    /\ IF client = "queries" THEN QueriesNext /\ RelevantChanges ELSE UNCHANGED queryVars
    /\ IF client = "activity" THEN ActivityNext ELSE UNCHANGED activityVars
    /\ IF client = "sidecars" THEN SidecarNext ELSE UNCHANGED sidecarVars
    /\ IF client = "routes" THEN RoutesNext ELSE UNCHANGED transferVars
    /\ IF client = "paths" THEN PathsNext ELSE UNCHANGED pathVars
    /\ IF client = "context" THEN ContextNext ELSE UNCHANGED contextVars

ClientsSpec == ClientsInit /\ [][ClientsNext]_clientsVars
-----------------------------------------------------------------------------
(* The readers of the agent's tables show nothing that contradicts itself, *)
(* and nothing older or less than what was there when they were asked:     *)
(* reports of metrics, lists of handoffs and leases, of snapshots, of      *)
(* projects and their environments, and of activities.                      *)
TablesAreReadTrue ==
    /\ ReportsAgree
    /\ TransferListsAreTrue /\ SnapshotListsAreTrue /\ RegistryListsAreTrue
    /\ ListsAreNewest

(* What an editor had is had again: unsaved texts, in whichever window of  *)
(* the device, and the context of a window, on another device, or the      *)
(* restore says that it is not.                                            *)
EditorStateTravels ==
    [][UnsavedTextStays]_editorVars /\ []SuccessUsesUp /\ []ContextSurvives

(* A target gets a snapshot from wherever it can be had, with its large    *)
(* files, and is not touched by one that it cannot hold.                   *)
TargetsGetWholeSnapshots == WorkingRouteIsFound /\ SidecarsArriveWhole /\ RefusedBeforeTouched
=============================================================================
