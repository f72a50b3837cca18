-------------------------- MODULE EditorExtension --------------------------
(***************************************************************************)
(* The editor extension (apps/vscode-extension) and the agent's editor.*   *)
(* methods.  Every window of the editor runs the extension; its commands   *)
(* are chains of awaits, so that several of them may be under way in one   *)
(* window or in several; the windows share the editor's secret storage,    *)
(* with one capsule of unsaved buffers, and the agent's audit log, where   *)
(* captured contexts are kept.                                             *)
(* The second part has what a context holds.                               *)
(***************************************************************************)
EXTENDS Integers, Sequences, FiniteSets, SequencesExt

CONSTANTS
    Windows,        \* windows of the editor
    Buffers,        \* unsaved texts
    Sources,        \* files that may be open in a window
    Chains,         \* commands that can be under way at once
    MaxBuffers,     \* unsaved buffers that fit a capsule (16 in the code)
    AuditWindow,    \* audit records editor.context.latest looks at (100)
    MaxCommands     \* a bound: commands, edits and closed windows

ASSUME EditorAssumption ==
    /\ MaxBuffers \in Nat /\ AuditWindow \in Nat \ {0} /\ MaxCommands \in Nat

VARIABLES
    windows,    \* [Windows -> open files, unsaved texts, restored ones and status bar]
    chains,     \* [Chains -> the command under way]
    capsule,    \* the secret "devrelay.unsavedBuffers.latest"
    trail,      \* the audit log of the agent, of which this module writes
    writer,     \* the lease and the handoff of the project, in the agent
    commands    \* commands and edits so far

editorVars == <<windows, chains, capsule, trail, writer, commands>>

NoChain == [kind |-> "none", pc |-> "none", window |-> "none",
            context |-> 0, partial |-> FALSE,
            loaded |-> {}, opened |-> {}, stamp |-> 0]

(* The stamp of a capsule is its captured_at_unix_millis; the windows may   *)
(* have been open for a while, and have captured one.                      *)
EditorInit ==
    /\ \E dirty \in [Windows -> SUBSET Buffers] :
          windows = [w \in Windows |-> [files |-> Sources, dirty |-> dirty[w], restored |-> {},
                                       status |-> "connected"]]
    /\ chains = [k \in Chains |-> NoChain]
    /\ \E buffers \in SUBSET Buffers :
          Cardinality(buffers) <= MaxBuffers /\ capsule = [buffers |-> buffers, stamp |-> 0]
    /\ trail = <<>>
    /\ writer = [lease |-> "here", handoff |-> "none", generation |-> 0]
    /\ commands = 0

FirstPc(kind) ==
    CASE kind = "capture" -> "update"          \* captureContext
      [] kind = "captureBuffers" -> "store"    \* captureUnsavedBuffersCommand
      [] kind = "restore" -> "latest"          \* restoreContext
      [] kind = "restoreBuffers" -> "load"     \* restoreUnsavedBuffersCommand
      [] kind = "elsewhere" -> "leases"        \* continueElsewhere
      [] kind = "refresh" -> "health"          \* refresh

Spend == commands < MaxCommands /\ commands' = commands + 1
Goes(k, pc) == chains' = [chains EXCEPT ![k].pc = pc]
Ends(k) == chains' = [chains EXCEPT ![k] = NoChain]
At(k, pc) == chains[k].pc = pc
Shows(w, status) == windows' = [windows EXCEPT ![w].status = status]

StartCommand(k, w, kind) ==
    /\ At(k, "none") /\ Spend
    /\ chains' = [chains EXCEPT ![k] = [NoChain EXCEPT !.kind = kind, !.window = w, !.pc = FirstPc(kind)]]
    /\ IF kind = "refresh" THEN Shows(w, "connecting") ELSE UNCHANGED windows
    /\ UNCHANGED <<capsule, trail, writer>>

UserTypes(w, b) ==
    /\ Spend /\ b \notin windows[w].dirty
    /\ windows' = [windows EXCEPT ![w].dirty = @ \cup {b}]
    /\ UNCHANGED <<chains, capsule, trail, writer>>

(* A document is closed and its text given up. *)
UserDiscards(w, b) ==
    /\ Spend /\ b \in windows[w].dirty \cup windows[w].restored
    /\ windows' = [windows EXCEPT ![w].dirty = @ \ {b}, ![w].restored = @ \ {b}]
    /\ UNCHANGED <<chains, capsule, trail, writer>>

Cleared == [capsule EXCEPT !.buffers = {}]

(* A closed window takes its commands and its unsaved text with it; what   *)
(* it has asked of the secret storage may still be done.                   *)
WindowCloses(w) ==
    /\ Spend
    /\ windows' = [windows EXCEPT ![w].dirty = {}, ![w].restored = {}, ![w].status = "connected"]
    /\ chains' = [k \in Chains |-> IF chains[k].window = w THEN NoChain ELSE chains[k]]
    /\ \/ UNCHANGED capsule
       \/ /\ \E k \in Chains : chains[k].window = w /\ At(k, "open") /\ chains[k].opened = chains[k].loaded
          /\ capsule' = Cleared
    /\ UNCHANGED <<trail, writer>>

(* A command that fails shows an error and ends, which a restore of a      *)
(* context still reports.                                                  *)
CallFails(k) ==
    /\ chains[k].pc \in {"update", "store", "latest", "lastAck", "leases", "begin", "health", "lists"}
    /\ IF chains[k].kind = "elsewhere" /\ chains[k].pc \in {"update", "store"}
       THEN chains' = [chains EXCEPT ![k].pc = "begin", ![k].context = 0]
       ELSE Ends(k)
    /\ IF chains[k].kind # "refresh" THEN UNCHANGED windows
       ELSE Shows(chains[k].window, IF At(k, "health") THEN "unavailable" ELSE "protection-delayed")
    /\ UNCHANGED <<capsule, trail, writer, commands>>
-----------------------------------------------------------------------------
(* Captures.  The context is taken when the call is made, the buffers when *)
(* it has been answered, as they are then.                                 *)
CapturedContext(w) == windows[w].files

UpdateContext(k) ==
    /\ At(k, "update")
    /\ trail' = Append(trail, [kind |-> "context", files |-> CapturedContext(chains[k].window)])
    /\ chains' = [chains EXCEPT ![k].context = Len(trail) + 1, ![k].pc = "store"]
    /\ UNCHANGED <<windows, capsule, writer, commands>>

(* Of the documents with unsaved text, up to MaxBuffers that are small     *)
(* enough; restored ones are untitled, and are captured if settings say so.*)
CapturedBuffers(w) ==
    {captured \in SUBSET (windows[w].dirty \cup windows[w].restored) :
        Cardinality(captured) <= MaxBuffers}

Stored(buffers) == capsule' = [buffers |-> buffers, stamp |-> capsule.stamp + 1]

(* Unsaved buffers are only captured where the settings say so. *)
StoreCapsule(k) ==
    /\ At(k, "store")
    /\ \/ \E captured \in CapturedBuffers(chains[k].window) : Stored(captured)
       \/ chains[k].kind # "captureBuffers" /\ UNCHANGED capsule
    /\ IF chains[k].kind = "elsewhere" THEN Goes(k, "begin") ELSE Ends(k)
    /\ UNCHANGED <<windows, trail, writer, commands>>
-----------------------------------------------------------------------------
(* Restores.                                                               *)
Recent == {i \in DOMAIN trail : i > Len(trail) - AuditWindow /\ trail[i].kind = "context"}

LatestContext(k) ==
    /\ At(k, "latest")
    /\ IF Recent = {} THEN Ends(k)
       ELSE chains' = [chains EXCEPT ![k].context = CHOOSE i \in Recent : \A j \in Recent : j <= i,
                                     ![k].pc = "files"]
    /\ UNCHANGED <<windows, capsule, trail, writer, commands>>

(* Folder, files, selections and breakpoints: each may fail, and is then a *)
(* detail of a partial result, as is a failure to restore the buffers.     *)
OpenFiles(k) ==
    /\ At(k, "files")
    /\ \E files \in SUBSET trail[chains[k].context].files :
          /\ chains' = [chains EXCEPT ![k].pc = "load",
                           ![k].partial = files # trail[chains[k].context].files]
          /\ windows' = [windows EXCEPT ![chains[k].window].files = @ \cup files]
    /\ UNCHANGED <<capsule, trail, writer, commands>>

AfterBuffers(k) == IF chains[k].kind = "restore" THEN "ack" ELSE "end"

LoadCapsule(k) ==
    /\ At(k, "load")
    /\ chains' = [chains EXCEPT ![k].loaded = capsule.buffers, ![k].stamp = capsule.stamp,
                     ![k].pc = IF capsule.buffers = {} THEN AfterBuffers(k) ELSE "open"]
    /\ UNCHANGED <<windows, capsule, trail, writer, commands>>

OpenBuffer(k) ==
    /\ At(k, "open")
    /\ \E b \in chains[k].loaded \ chains[k].opened :
          /\ chains' = [chains EXCEPT ![k].opened = @ \cup {b}]
          /\ windows' = [windows EXCEPT ![chains[k].window].restored = @ \cup {b}]
    /\ UNCHANGED <<capsule, trail, writer, commands>>

(* The capsule cannot be read, a buffer cannot be opened, or the capsule   *)
(* cannot be cleared, whether it has been or not.                          *)
RestoreFails(k) ==
    /\ chains[k].pc \in {"load", "open"}
    /\ chains' = [chains EXCEPT ![k].partial = TRUE, ![k].pc = AfterBuffers(k)]
    /\ \/ UNCHANGED capsule
       \/ At(k, "open") /\ chains[k].opened = chains[k].loaded /\ capsule' = Cleared
    /\ UNCHANGED <<windows, trail, writer, commands>>

\* Mutant: a buffer that cannot be opened is passed over.
ClearWithoutAll(k) ==
    /\ At(k, "open")
    /\ capsule' = Cleared
    /\ Goes(k, AfterBuffers(k))
    /\ UNCHANGED <<windows, trail, writer, commands>>

(* The capsule is cleared when all its buffers are open: whichever is      *)
(* stored by then.                                                         *)
ClearCapsule(k) ==
    /\ At(k, "open") /\ chains[k].opened = chains[k].loaded
    /\ capsule' = Cleared
    /\ Goes(k, AfterBuffers(k))
    /\ UNCHANGED <<windows, trail, writer, commands>>

(* editor.restore.ack.  A call that fails, recorded or not, is followed by *)
(* one that reports the restore as failed.                                 *)
AckOf(k) ==
    [kind |-> "ack", context |-> chains[k].context, succeeded |-> ~chains[k].partial,
     stamp |-> chains[k].stamp]

Acknowledge(k) ==
    /\ chains[k].pc \in {"ack", "lastAck"}
    /\ trail' = Append(trail, AckOf(k))
    /\ Goes(k, "end")
    /\ UNCHANGED <<windows, capsule, writer, commands>>

AcknowledgeFails(k) ==
    /\ At(k, "ack")
    /\ trail' \in {trail, Append(trail, AckOf(k))}
    /\ chains' = [chains EXCEPT ![k].partial = TRUE, ![k].pc = "lastAck"]
    /\ UNCHANGED <<windows, capsule, writer, commands>>

EndRestore(k) ==
    /\ At(k, "end") /\ Ends(k)
    /\ UNCHANGED <<windows, capsule, trail, writer, commands>>
-----------------------------------------------------------------------------
(* continueElsewhere: the lease is looked at before the context is         *)
(* captured, and the agent looks again.                                    *)
FindLease(k) ==
    /\ At(k, "leases")
    /\ IF writer.lease = "here" /\ writer.handoff = "none" THEN Goes(k, "update") ELSE Ends(k)
    /\ UNCHANGED <<windows, capsule, trail, writer, commands>>

BeginHandoff(k) ==
    /\ At(k, "begin")
    /\ IF writer.lease = "here" /\ writer.handoff = "none"
       THEN /\ writer' = [writer EXCEPT !.handoff = "pending", !.generation = chains[k].context]
            /\ chains' = [chains EXCEPT ![k].kind = "refresh", ![k].pc = "health"]
            /\ Shows(chains[k].window, "connecting")
       ELSE Ends(k) /\ UNCHANGED <<windows, writer>>
    /\ UNCHANGED <<capsule, trail, commands>>

(* editor.event.record for an edit of a registered workspace: the agent    *)
(* aborts what it is the source of; if it aborted anything, the window     *)
(* refreshes.                                                              *)
RecordEdit(k, w) ==
    /\ At(k, "none") /\ Spend
    /\ writer' = [writer EXCEPT !.handoff = "none"]
    /\ IF writer.handoff = "pending"
       THEN /\ chains' = [chains EXCEPT ![k] = [NoChain EXCEPT !.kind = "refresh", !.window = w, !.pc = "health"]]
            /\ Shows(w, "connecting")
       ELSE UNCHANGED <<chains, windows>>
    /\ UNCHANGED <<capsule, trail>>

(* The handoff ends elsewhere, with or without the lease. *)
HandoffEnds ==
    /\ writer.handoff = "pending"
    /\ \E lease \in {"here", "away"} : writer' = [writer EXCEPT !.handoff = "none", !.lease = lease]
    /\ UNCHANGED <<windows, chains, capsule, trail, commands>>

(* refresh: health, then the lists; the newest answer to arrive is shown,  *)
(* whichever refresh it belongs to.                                        *)
CheckHealth(k) ==
    /\ At(k, "health") /\ Goes(k, "lists")
    /\ UNCHANGED <<windows, capsule, trail, writer, commands>>

StatusFrom(lease, handoff) ==
    IF handoff = "pending" THEN "handoff" ELSE IF lease = "here" THEN "active" ELSE "inactive"

ReadLists(k) ==
    /\ At(k, "lists")
    /\ chains' = [chains EXCEPT ![k].pc = "shown", ![k].kind = StatusFrom(writer.lease, writer.handoff)]
    /\ UNCHANGED <<windows, capsule, trail, writer, commands>>

ShowStatus(k) ==
    /\ At(k, "shown")
    /\ Shows(chains[k].window, chains[k].kind)
    /\ Ends(k)
    /\ UNCHANGED <<capsule, trail, writer, commands>>

EditorNext ==
    \/ HandoffEnds
    \/ \E w \in Windows :
          \/ WindowCloses(w)
          \/ \E b \in Buffers : UserTypes(w, b) \/ UserDiscards(w, b)
          \/ \E k \in Chains :
                \/ RecordEdit(k, w)
                \/ \E kind \in {"capture", "captureBuffers", "restore", "restoreBuffers",
                                "elsewhere", "refresh"} : StartCommand(k, w, kind)
    \/ \E k \in Chains :
          \/ CallFails(k) \/ UpdateContext(k) \/ StoreCapsule(k)
          \/ LatestContext(k) \/ OpenFiles(k) \/ LoadCapsule(k) \/ OpenBuffer(k)
          \/ RestoreFails(k) \/ ClearCapsule(k) \/ Acknowledge(k) \/ AcknowledgeFails(k) \/ EndRestore(k)
          \/ FindLease(k) \/ BeginHandoff(k) \/ CheckHealth(k) \/ ReadLists(k) \/ ShowStatus(k)
-----------------------------------------------------------------------------
OnScreen(w) == windows[w].dirty \cup windows[w].restored
SomewhereKept(b) == b \in capsule.buffers \/ \E w \in Windows : b \in OnScreen(w)
Finishes(k) == At(k, "open") /\ chains[k].opened = chains[k].loaded /\ (~At(k, "open"))'

(* An unsaved text, typed or captured, stays on a screen or in the secret  *)
(* storage, through captures and restores of several windows that fail     *)
(* half-way or are cut off.  It goes only                                  *)
(*   - when the user gives it up in the last window that shows it;         *)
(*   - when the user has given up what a restore had opened, and the       *)
(*     restore then finishes;                                              *)
(*   - when a newer capture, without it, replaces its capsule;             *)
(*   - when a restore finishes that had read the capsule before: the       *)
(*     deletion names no capsule.                                          *)
UnsavedTextStays ==
    \A b \in Buffers : SomewhereKept(b) /\ ~SomewhereKept(b)' =>
        \/ \E w \in Windows : b \in OnScreen(w) \ OnScreen(w)'
        \/ \E k \in Chains : Finishes(k) /\ b \in chains[k].opened
        \/ capsule'.stamp > capsule.stamp
        \/ \E k \in Chains : Finishes(k) /\ chains[k].stamp < capsule.stamp

(* The texts of a restore that is recorded as succeeded are not restored   *)
(* again.                                                                  *)
SuccessUsesUp ==
    \A i \in DOMAIN trail :
        trail[i].kind = "ack" /\ trail[i].succeeded /\ trail[i].stamp = capsule.stamp =>
            capsule.buffers = {}
-----------------------------------------------------------------------------
(***************************************************************************)
(* The capsule of a window's context: what captureWorkspaceContext takes   *)
(* of folders, tabs, breakpoints and the active editor within its limits,  *)
(* and what restoreWorkspaceContext makes of it on another device, one     *)
(* awaited call of the editor after the other.  The commands above have    *)
(* the two as one step each; here nothing else goes on.                    *)
(*                                                                         *)
(* A path is a sequence, of which a limit may cut the end; a tab is the    *)
(* sequence of its resources: none of a terminal, two of a diff.           *)
(***************************************************************************)
CONSTANTS
    EditorStates,   \* [folders, groups, active, breakpoints] of a window
    CaptureLimits   \* [groups, tabs, breakpoints, string]

VARIABLES
    window,     \* the window that is captured
    context,    \* the capsule
    restoring   \* the restore

contextVars == <<window, context, restoring>>

NoPath == <<>>
NoWindow == [folders |-> <<>>, groups |-> <<>>, active |-> NoPath, breakpoints |-> <<>>]
NoContext == [folders |-> <<>>, groups |-> <<>>, active |-> NoPath, breakpoints |-> <<>>, truncated |-> {}]
NoRestore == [pc |-> "none", todo |-> <<>>, opened |-> [p \in {} |-> 0], folder |-> NoPath,
              breakpoints |-> <<>>, succeeded |-> TRUE]

ContextInit == window = NoWindow /\ context = NoContext /\ restoring = NoRestore
-----------------------------------------------------------------------------
(* takeLimited and limitString *)
Taken(values, limit) == SubSeq(values, 1, IF Len(values) <= limit THEN Len(values) ELSE limit)
Cut(path, limits) == Taken(path, limits.string)
TooLong(values, limit) == Len(values) > limit

TabOf(tab, limits) == [i \in DOMAIN tab |-> Cut(tab[i], limits)]
GroupOf(group, limits) ==
    [i \in DOMAIN Taken(group, limits.tabs) |-> TabOf(group[i], limits)]

(* breakpointFrom: one without a location, that of a function, is left out. *)
Located(points) == SelectSeq(points, LAMBDA p : p # NoPath)

(* The strings that the capture looks at are those of what it has taken. *)
Strings(e, limits) ==
    LET groups == Taken(e.groups, limits.groups)
        tabs == UNION {ToSet(Taken(groups[g], limits.tabs)) : g \in DOMAIN groups}
    IN ToSet(e.folders) \cup {e.active} \cup UNION {ToSet(t) : t \in tabs}
           \cup ToSet(Taken(e.breakpoints, limits.breakpoints))

\* Mutant: a string is cut without a word.
CutQuietly(e, limits) == FALSE
CutsString(e, limits) == \E p \in Strings(e, limits) : TooLong(p, limits.string)

Truncated(e, limits) ==
    (IF TooLong(e.groups, limits.groups) THEN {"tab.groups"} ELSE {})
    \cup (IF \E g \in DOMAIN Taken(e.groups, limits.groups) : TooLong(e.groups[g], limits.tabs)
          THEN {"tabs"} ELSE {})
    \cup (IF TooLong(e.breakpoints, limits.breakpoints) THEN {"breakpoints"} ELSE {})
    \cup (IF CutsString(e, limits) THEN {"strings"} ELSE {})

Captured(e, limits) ==
    [folders |-> [i \in DOMAIN e.folders |-> Cut(e.folders[i], limits)],
     groups |-> [g \in DOMAIN Taken(e.groups, limits.groups) |-> GroupOf(e.groups[g], limits)],
     active |-> Cut(e.active, limits),
     breakpoints |-> LET points == Located(Taken(e.breakpoints, limits.breakpoints)) IN
                     [i \in DOMAIN points |-> Cut(points[i], limits)],
     truncated |-> Truncated(e, limits)]

CaptureContext ==
    /\ restoring.pc = "none"
    /\ \E e \in EditorStates, limits \in CaptureLimits :
          window' = e /\ context' = Captured(e, limits)
    /\ restoring' = [NoRestore EXCEPT !.pc = "folder"]
-----------------------------------------------------------------------------
(* firstFileResource *)
FirstResource(tab) == IF tab = <<>> THEN NoPath ELSE Head(tab)

(* The tabs that have one, each with the column of its group. *)
TabsInOrder(groups) ==
    LET OfGroup(g) == [i \in DOMAIN groups[g] |->
                          [path |-> FirstResource(groups[g][i]), column |-> g]]
    IN SelectSeq(FlattenSeq([g \in DOMAIN groups |-> OfGroup(g)]), LAMBDA t : t.path # NoPath)

Restores(pc, change) == restoring' = [change EXCEPT !.pc = pc] /\ UNCHANGED <<window, context>>
Partial(r) == [r EXCEPT !.succeeded = FALSE]

OpenWorkspaceFolder ==
    /\ restoring.pc = "folder"
    /\ LET r == [restoring EXCEPT !.todo = TabsInOrder(context.groups)]
           folder == IF context.folders = <<>> THEN NoPath ELSE Head(context.folders)
       IN \/ Restores("tabs", [r EXCEPT !.folder = folder])
          \/ folder # NoPath /\ Restores("tabs", Partial(r))

Opened(r, path, column) ==
    [r EXCEPT !.opened = [p \in DOMAIN @ \cup {path} |-> IF p = path THEN column ELSE @[p]]]

(* A file that is open already is not opened again; one that could not be  *)
(* opened is tried again where another tab shows it.                        *)
OpenTab ==
    /\ restoring.pc = "tabs" /\ restoring.todo # <<>>
    /\ LET tab == Head(restoring.todo)
           r == [restoring EXCEPT !.todo = Tail(@)]
       IN IF tab.path \in DOMAIN r.opened THEN Restores("tabs", r)
          ELSE \/ Restores("tabs", Opened(r, tab.path, tab.column))
               \/ Restores("tabs", Partial(r))

RestoreActiveEditor ==
    /\ restoring.pc = "tabs" /\ restoring.todo = <<>>
    /\ IF context.active = NoPath \/ context.active \in DOMAIN restoring.opened
       THEN Restores("points", restoring)
       ELSE \/ Restores("points", Opened(restoring, context.active, 0))
            \/ Restores("points", Partial(restoring))

RestoreBreakpoints ==
    /\ restoring.pc = "points"
    /\ \/ Restores("done", [restoring EXCEPT !.breakpoints = context.breakpoints])
       \/ context.breakpoints # <<>> /\ Restores("done", Partial(restoring))

ContextNext ==
    CaptureContext \/ OpenWorkspaceFolder \/ OpenTab \/ RestoreActiveEditor \/ RestoreBreakpoints
-----------------------------------------------------------------------------
Shown(groups) == {tab.path : tab \in ToSet(TabsInOrder(groups))}
FirstColumn(path) ==
    CHOOSE g \in DOMAIN window.groups :
        /\ \E i \in DOMAIN window.groups[g] : FirstResource(window.groups[g][i]) = path
        /\ \A h \in 1..(g - 1) :
              \A i \in DOMAIN window.groups[h] : FirstResource(window.groups[h][i]) # path

(* A restore opens no file that the window did not show, unless the        *)
(* capsule says that a string was cut; and one that succeeded with a       *)
(* capsule from which nothing was cut has brought everything back: every   *)
(* file a tab showed, where it was shown first, the file of the active     *)
(* editor, the first folder, and the breakpoints that have a place.        *)
ContextSurvives ==
    restoring.pc = "done" =>
        /\ "strings" \notin context.truncated =>
              DOMAIN restoring.opened \subseteq Shown(window.groups) \cup {window.active}
        /\ restoring.succeeded /\ context.truncated = {} =>
              /\ Shown(window.groups) \cup ({window.active} \ {NoPath}) = DOMAIN restoring.opened
              /\ \A p \in Shown(window.groups) : restoring.opened[p] = FirstColumn(p)
              /\ window.folders # <<>> => restoring.folder = Head(window.folders)
              /\ restoring.breakpoints = Located(window.breakpoints)
=============================================================================
