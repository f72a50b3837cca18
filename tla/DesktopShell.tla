---------------------------- MODULE DesktopShell ----------------------------
(***************************************************************************)
(* The desktop application (apps/desktop: src-tauri/main.rs and app.js):   *)
(* the page shows what one ui_bootstrap gathered from the agent in several *)
(* calls; the commands of the page run one after the other on the main     *)
(* thread; a bridge thread follows the agent's events and makes the page   *)
(* refresh; the tray menu has threads and a copy of its own.               *)
(*                                                                         *)
(* One project is modelled, and of the agent only what the page's buttons  *)
(* depend on: the writer lease, the open handoff, the resource profile.    *)
(***************************************************************************)
EXTENDS Integers, Sequences

CONSTANTS
    Targets,          \* the paired devices
    MaxStirs          \* a bound: changes by other clients of the agent, ends of its
                      \* process, calls that fail while it is up, and clicks in the
                      \* page and the tray, together

ASSUME DesktopAssumption ==
    /\ "none" \notin Targets
    /\ MaxStirs \in Nat

VARIABLES
    local,      \* the agent: its run, whether it is up, and its answers
    unsaid,     \* changes whose event it has not published yet
    bridge,     \* the event bridge thread and its connection
    emitted,    \* what was emitted to the page and not yet handled there
    mainThread, \* the commands invoked by the page, in order
    answers,    \* their answers, in order
    page,       \* the state of app.js
    tray,       \* the tray's menu and its thread
    stirs       \* what has come from outside so far

desktopVars == <<local, unsaid, bridge, emitted, mainThread, answers, page, tray, stirs>>

(* The calls of one ui_bootstrap that carry what is modelled.              *)
FirstCalls == {"health", "leases"}
LaterCalls == {"handoffs", "settings"}

(* UiBootstrap: its lists, and the calls that failed.  "agent" is among    *)
(* these when the agent itself was not there.                              *)
NothingRead == [lease |-> "none", handoff |-> "none", profile |-> "none", errors |-> {}]

(* What the agent would answer now to a bootstrap in which these fail.     *)
AnswerNow(failed) ==
    [lease   |-> IF "leases" \in failed THEN "none" ELSE local.lease,
     handoff |-> IF "handoffs" \in failed THEN "none" ELSE local.handoff,
     profile |-> IF "settings" \in failed THEN "none" ELSE local.profile,
     errors  |-> failed]

DesktopInit ==
    /\ local = [run |-> 1, up |-> TRUE, published |-> 0,
                lease |-> "here", handoff |-> "none", profile |-> "adaptive"]
    /\ unsaid = 0
    /\ bridge = [run |-> 0, cursor |-> 0, queue |-> <<>>]
    /\ emitted = <<>> /\ mainThread = <<>> /\ answers = <<>>
    /\ page = [listening |-> FALSE, shown |-> NothingRead, loading |-> TRUE, connected |-> FALSE,
               refreshing |-> FALSE, timer |-> FALSE, dialog |-> "none", phase |-> "none"]
    /\ tray = [menu |-> AnswerNow({}), job |-> "idle", seen |-> NothingRead]
    /\ stirs = 0
-----------------------------------------------------------------------------
(* The agent, as its other clients change it.                              *)
Stir == stirs < MaxStirs /\ stirs' = stirs + 1
Emit(message) == emitted' = IF page.listening THEN Append(emitted, message) ELSE emitted
Connected == local.up /\ bridge.run = local.run
Published(n) ==
    /\ local' = [local EXCEPT !.published = n]
    /\ bridge' = IF Connected THEN [bridge EXCEPT !.queue = Append(@, n)] ELSE bridge

(* A handoff begins, ends without moving the lease, or moves it; the lease *)
(* comes back.                                                             *)
ChangedLocal ==
    {[local EXCEPT !.handoff = t] : t \in IF local.lease = "here" /\ local.handoff = "none"
                                          THEN Targets ELSE {}}
    \cup (IF local.handoff = "none" THEN {} ELSE {[local EXCEPT !.handoff = "none"],
                                                 [local EXCEPT !.handoff = "none", !.lease = "away"]})
    \cup (IF local.lease = "here" THEN {} ELSE {[local EXCEPT !.lease = "here"]})

AgentChanges ==
    /\ Stir /\ local.up
    /\ local' \in ChangedLocal
    /\ unsaid' = unsaid + 1
    /\ UNCHANGED <<bridge, emitted, mainThread, answers, page, tray>>

AgentPublishes ==
    /\ local.up /\ unsaid > 0
    /\ unsaid' = unsaid - 1
    /\ Published(local.published + 1)
    /\ UNCHANGED <<emitted, mainThread, answers, page, tray, stirs>>

(* A stopped agent takes its event log with it, not its database. *)
AgentProcessEnds ==
    /\ Stir /\ local.up
    /\ local' = [local EXCEPT !.up = FALSE, !.published = 0]
    /\ unsaid' = 0
    /\ UNCHANGED <<bridge, emitted, mainThread, answers, page, tray>>

AgentProcessStarts ==
    /\ ~local.up
    /\ local' = [local EXCEPT !.up = TRUE, !.run = @ + 1]
    /\ UNCHANGED <<unsaid, bridge, emitted, mainThread, answers, page, tray, stirs>>
-----------------------------------------------------------------------------
(* The bridge thread.                                                      *)
BridgeConnects ==
    /\ local.up /\ bridge.run = 0
    /\ bridge' = [bridge EXCEPT !.run = local.run,
                     !.queue = [i \in 1 .. (local.published - bridge.cursor) |-> bridge.cursor + i]]
    /\ Emit("connected")
    /\ UNCHANGED <<local, unsaid, mainThread, answers, page, tray, stirs>>

BridgeReads ==
    /\ bridge.run # 0 /\ bridge.queue # <<>>
    /\ bridge' = [bridge EXCEPT !.cursor = Head(bridge.queue), !.queue = Tail(@)]
    /\ Emit("event")
    /\ UNCHANGED <<local, unsaid, mainThread, answers, page, tray, stirs>>

(* The read fails, because the agent has ended or has given the connection *)
(* up: whatever it still held is lost.                                     *)
BridgeFails ==
    /\ bridge.run # 0
    /\ IF Connected THEN Stir ELSE UNCHANGED stirs
    /\ bridge' = [bridge EXCEPT !.run = 0, !.queue = <<>>]
    /\ Emit("disconnected")
    /\ UNCHANGED <<local, unsaid, mainThread, answers, page, tray>>
-----------------------------------------------------------------------------
(* The commands.  build_ui_bootstrap asks the agent call by call, once it  *)
(* has seen its socket.  A call may fail with the agent up as well: it     *)
(* takes longer than 2 or 30 seconds, its answer is above 1 MiB, or the    *)
(* agent answers an error.  Its list stays empty, its error is shown, and  *)
(* nothing asks again.                                                     *)
CallsFail(seen, calls, failed) ==
    \/ ~local.up /\ failed = calls \cup {"agent"} /\ UNCHANGED stirs
    \/ "agent" \in seen.errors /\ failed = calls /\ UNCHANGED stirs
    \/ local.up /\ failed = {} /\ UNCHANGED stirs
    \/ local.up /\ failed \in (SUBSET calls) \ {{}} /\ Stir

ReadLeases(view, failed) ==
    [view EXCEPT !.lease = AnswerNow(failed).lease, !.errors = @ \cup failed]
ReadRest(view, failed) ==
    [view EXCEPT !.handoff = AnswerNow(failed).handoff, !.profile = AnswerNow(failed).profile,
                 !.errors = @ \cup failed]

(* What handoff_prepare and handoff_abort come to in the agent. *)
CanPrepare(t) == local.up /\ local.lease = "here" /\ local.handoff = "none" /\ t \in Targets
CanAbort == local.up /\ local.handoff # "none"
HandoffBecomes(h) ==
    /\ local' = [local EXCEPT !.handoff = h, !.published = @ + 1]
    /\ bridge' = IF Connected THEN [bridge EXCEPT !.queue = Append(@, local.published + 1)]
                 ELSE bridge

Invoke(thread, command, argument) ==
    Append(thread, [command |-> command, argument |-> argument, stage |-> "leases", seen |-> NothingRead])
Command == Head(mainThread)
Answer(ok, seen) ==
    /\ mainThread' = Tail(mainThread)
    /\ answers' = Append(answers, [command |-> Command.command, ok |-> ok, seen |-> seen])

BootstrapReadsLeases ==
    /\ mainThread # <<>> /\ Command.command = "ui_bootstrap" /\ Command.stage = "leases"
    /\ \E failed \in SUBSET (FirstCalls \cup {"agent"}) :
          /\ CallsFail(Command.seen, FirstCalls, failed)
          /\ mainThread' = [mainThread EXCEPT ![1].stage = "rest", ![1].seen = ReadLeases(@, failed)]
    /\ UNCHANGED <<local, unsaid, bridge, emitted, answers, page, tray>>

BootstrapAnswers ==
    /\ mainThread # <<>> /\ Command.command = "ui_bootstrap" /\ Command.stage = "rest"
    /\ \E failed \in SUBSET (LaterCalls \cup {"agent"}) :
          /\ CallsFail(Command.seen, LaterCalls, failed)
          /\ Answer(TRUE, ReadRest(Command.seen, failed))
    /\ UNCHANGED <<local, unsaid, bridge, emitted, page, tray>>

(* The command is refused, done and answered, or one of its calls fails,   *)
(* with the handoff changed or not: a time-out does not stop the agent.    *)
RunHandoff(can, h) ==
    \/ ~can /\ Answer(FALSE, NothingRead) /\ UNCHANGED <<local, bridge, stirs>>
    \/ can /\ Answer(TRUE, NothingRead) /\ HandoffBecomes(h) /\ UNCHANGED stirs
    \/ /\ can /\ Answer(FALSE, NothingRead) /\ Stir
       /\ HandoffBecomes(h) \/ UNCHANGED <<local, bridge>>

RunHandoffPrepare ==
    /\ mainThread # <<>> /\ Command.command = "handoff_prepare"
    /\ RunHandoff(CanPrepare(Command.argument), Command.argument)
    /\ UNCHANGED <<unsaid, emitted, page, tray>>

RunHandoffAbort ==
    /\ mainThread # <<>> /\ Command.command = "handoff_abort"
    /\ RunHandoff(CanAbort, "none")
    /\ UNCHANGED <<unsaid, emitted, page, tray>>
-----------------------------------------------------------------------------
(* The page: each handler runs to its next await without interruption.     *)
Refreshed(p) == IF p.loading THEN p ELSE [p EXCEPT !.refreshing = TRUE]
Refresh == /\ mainThread' = Invoke(mainThread, "ui_bootstrap", "none")
           /\ page' = Refreshed(page)
Queued(p) == [p EXCEPT !.refreshing = TRUE, !.timer = TRUE]

\* Mutant: a connection made again does not refresh the page.
RefreshAfterEvents(message, p) == IF message = "connected" THEN p ELSE Queued(p)
RefreshAfter(message, p) == Queued(p)

PageStarts ==
    /\ ~page.listening
    /\ page' = [page EXCEPT !.listening = TRUE]
    /\ mainThread' = Invoke(mainThread, "ui_bootstrap", "none")
    /\ UNCHANGED <<local, unsaid, bridge, emitted, answers, tray, stirs>>

HandleEmitted ==
    /\ emitted # <<>>
    /\ emitted' = Tail(emitted)
    /\ CASE Head(emitted) = "tray-refresh" -> Refresh
         [] Head(emitted) = "connected" ->
                /\ page' = RefreshAfter("connected", [page EXCEPT !.connected = TRUE])
                /\ UNCHANGED mainThread
         [] Head(emitted) = "event" -> page' = RefreshAfter("event", page) /\ UNCHANGED mainThread
         [] Head(emitted) = "disconnected" ->
                /\ page' = RefreshAfter("disconnected", [page EXCEPT !.connected = FALSE])
                /\ UNCHANGED mainThread
    /\ UNCHANGED <<local, unsaid, bridge, answers, tray, stirs>>

TimerFires ==
    /\ page.timer
    /\ mainThread' = Invoke(mainThread, "ui_bootstrap", "none")
    /\ page' = [Refreshed(page) EXCEPT !.timer = FALSE]
    /\ UNCHANGED <<local, unsaid, bridge, emitted, answers, tray, stirs>>

BootstrapArrives ==
    /\ answers # <<>> /\ Head(answers).command = "ui_bootstrap"
    /\ page' = [page EXCEPT !.shown = Head(answers).seen, !.loading = FALSE, !.refreshing = FALSE]
    /\ answers' = Tail(answers)
    /\ UNCHANGED <<local, unsaid, bridge, emitted, mainThread, tray, stirs>>

(* The answer goes to the dialog that is open now, whichever that is. *)
HandoffAnswerArrives ==
    /\ answers # <<>> /\ Head(answers).command # "ui_bootstrap"
    /\ LET ok == Head(answers).ok
           told == page.dialog # "none" /\ (ok \/ Head(answers).command = "handoff_prepare")
           next == IF told THEN [page EXCEPT !.phase = IF ok THEN "success" ELSE "failure"] ELSE page
       IN  IF ok THEN /\ page' = Refreshed(next)
                      /\ mainThread' = Invoke(mainThread, "ui_bootstrap", "none")
                 ELSE page' = next /\ UNCHANGED mainThread
    /\ answers' = Tail(answers)
    /\ UNCHANGED <<local, unsaid, bridge, emitted, tray, stirs>>

(* What the screens offer: a review for every target that is online, an    *)
(* abort for an open handoff of this device.                               *)
Click == ~page.loading /\ Stir

ReviewHandoff(t) ==
    /\ Click /\ page.dialog = "none"
    /\ page' = [page EXCEPT !.dialog = t, !.phase = "review"]
    /\ UNCHANGED <<local, unsaid, bridge, emitted, mainThread, answers, tray>>

ConfirmHandoff ==
    /\ page.dialog # "none" /\ page.phase = "review"
    /\ page' = [page EXCEPT !.phase = "running"]
    /\ mainThread' = Invoke(mainThread, "handoff_prepare", page.dialog)
    /\ UNCHANGED <<local, unsaid, bridge, emitted, answers, tray, stirs>>

CloseDialog ==
    /\ page.dialog # "none"
    /\ page' = [page EXCEPT !.dialog = "none", !.phase = "none"]
    /\ UNCHANGED <<local, unsaid, bridge, emitted, mainThread, answers, tray, stirs>>

AbortHandoff ==
    /\ Click /\ page.dialog = "none" /\ page.shown.handoff # "none"
    /\ mainThread' = Invoke(mainThread, "handoff_abort", "none")
    /\ UNCHANGED <<local, unsaid, bridge, emitted, answers, page, tray>>
-----------------------------------------------------------------------------
(* The tray: an action runs on a thread of its own, from a menu that only  *)
(* such actions bring up to date.                                          *)
MenuKnows(menu) == menu.errors \cap {"health", "settings"} = {}
TrayBlocker(menu) ==
    \/ ~MenuKnows(menu) \/ menu.handoff # "none" \/ menu.lease # "here"

TrayStarts(job) ==
    /\ tray.job = "idle" /\ Stir
    /\ tray' = [tray EXCEPT !.job = job, !.seen = NothingRead]

TrayRefresh ==
    /\ TrayStarts("leases")
    /\ UNCHANGED <<local, unsaid, bridge, emitted, mainThread, answers, page>>

TrayHandoff(t) ==
    /\ ~TrayBlocker(tray.menu)
    /\ TrayStarts("leases")
    /\ (CanPrepare(t) /\ HandoffBecomes(t)) \/ UNCHANGED <<local, bridge>>
    /\ UNCHANGED <<unsaid, emitted, mainThread, answers, page>>

(* The profile is read in one call and set by another. *)
TrayToggle ==
    /\ MenuKnows(tray.menu) /\ local.up
    /\ TrayStarts(IF local.profile = "eco" THEN "adaptive" ELSE "eco")
    /\ UNCHANGED <<local, unsaid, bridge, emitted, mainThread, answers, page>>

TraySetsProfile ==
    /\ tray.job \in {"eco", "adaptive"}
    /\ (local.up /\ local' = [local EXCEPT !.profile = tray.job]) \/ UNCHANGED local
    /\ tray' = [tray EXCEPT !.job = "leases"]
    /\ UNCHANGED <<unsaid, bridge, emitted, mainThread, answers, page, stirs>>

TrayReadsLeases ==
    /\ tray.job = "leases"
    /\ \E failed \in SUBSET (FirstCalls \cup {"agent"}) :
          /\ CallsFail(tray.seen, FirstCalls, failed)
          /\ tray' = [tray EXCEPT !.job = "rest", !.seen = ReadLeases(@, failed)]
    /\ UNCHANGED <<local, unsaid, bridge, emitted, mainThread, answers, page>>

TraySetsMenu ==
    /\ tray.job = "rest"
    /\ \E failed \in SUBSET (LaterCalls \cup {"agent"}) :
          /\ CallsFail(tray.seen, LaterCalls, failed)
          /\ tray' = [tray EXCEPT !.job = "idle", !.menu = ReadRest(tray.seen, failed),
                                  !.seen = NothingRead]
    /\ Emit("tray-refresh")
    /\ UNCHANGED <<local, unsaid, bridge, mainThread, answers, page>>

DesktopNext ==
    \/ AgentChanges \/ AgentPublishes \/ AgentProcessEnds \/ AgentProcessStarts
    \/ BridgeConnects \/ BridgeReads \/ BridgeFails
    \/ BootstrapReadsLeases \/ BootstrapAnswers \/ RunHandoffPrepare \/ RunHandoffAbort
    \/ PageStarts \/ HandleEmitted \/ TimerFires \/ BootstrapArrives \/ HandoffAnswerArrives
    \/ ConfirmHandoff \/ CloseDialog \/ AbortHandoff
    \/ \E t \in Targets : ReviewHandoff(t) \/ TrayHandoff(t)
    \/ TrayRefresh \/ TrayToggle \/ TraySetsProfile \/ TrayReadsLeases \/ TraySetsMenu
-----------------------------------------------------------------------------
(* When everything has come to rest, with the bridge connected and every   *)
(* change announced, the page shows what the agent would answer now: not   *)
(* the half of an older state, not a state from before a lost connection,  *)
(* an agent's restart or the start of the page.  Of the calls the agent    *)
(* itself did not answer in time the page shows the errors and empty       *)
(* lists, for nothing asks again; but none failed for want of the agent.   *)
AtRest ==
    /\ Connected /\ unsaid = 0 /\ bridge.queue = <<>> /\ emitted = <<>>
    /\ page.listening /\ ~page.timer /\ mainThread = <<>> /\ answers = <<>>
    /\ tray.job = "idle"

RestingPageIsCurrent ==
    AtRest =>
       /\ page.shown = AnswerNow(page.shown.errors) /\ "agent" \notin page.shown.errors
       /\ ~page.loading /\ ~page.refreshing
=============================================================================
