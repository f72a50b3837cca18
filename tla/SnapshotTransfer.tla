-------------------------- MODULE SnapshotTransfer --------------------------
(***************************************************************************)
(* How a target gets a snapshot: it measures what can be reached, selects  *)
(* a route (select_snapshot_route), fetches the two refs of the snapshot   *)
(* from the source or from the anchor's cache, and on a failure asks once  *)
(* more (select_snapshot_route_after_failure).  Meanwhile the source goes  *)
(* and comes, snapshots are pruned, imports fill the cache, workspaces are *)
(* registered and go stale.  The caller that holds the measurements        *)
(* between the two calls is the one the tests play.                         *)
(***************************************************************************)
EXTENDS Integers, FiniteSets

CONSTANT MaxRouteChanges     \* bound: changes of the world around a transfer

ASSUME SnapshotTransferAssumption == MaxRouteChanges \in Nat

VARIABLES
    peer,       \* the source: online, and the refs of the snapshot it has
    cache,      \* the anchor's repository: whether it exists, and its refs
    workspace,  \* state of the target device's workspace in the registry
    transfer,   \* the target's transfer
    arrived,    \* refs of the snapshot at the target
    steady,     \* history: routes that could be used all through the transfer
    routeChanges

transferVars == <<peer, cache, workspace, transfer, arrived, steady, routeChanges>>

SnapshotRefs == {"index", "work"}
RegisteredStates == {"none", "active", "inactive", "stale"}

RoutePolicies == [direct : BOOLEAN, cached : BOOLEAN, required : BOOLEAN]
NoMeasurements == [online |-> FALSE, available |-> FALSE, has |-> FALSE]
NoTransfer == [pc |-> "idle", policy |-> CHOOSE p \in RoutePolicies : TRUE, seen |-> NoMeasurements,
               route |-> "none", tries |-> 0, registered |-> "none", refs |-> {}]

RoutesInit ==
    /\ peer \in [online : BOOLEAN, refs : {{}, SnapshotRefs}]
    /\ cache = [exists |-> FALSE, refs |-> {}]
    /\ workspace = "active"
    /\ transfer = NoTransfer
    /\ arrived = {} /\ steady = {} /\ routeChanges = 0
-----------------------------------------------------------------------------
WorldChanges ==
    /\ routeChanges < MaxRouteChanges /\ routeChanges' = routeChanges + 1
    /\ UNCHANGED <<transfer, arrived>>

PeerComesOrGoes ==
    /\ peer' = [peer EXCEPT !.online = ~@]
    /\ WorldChanges /\ UNCHANGED <<cache, workspace>>

PeerPrunes ==
    /\ peer.refs # {} /\ peer' = [peer EXCEPT !.refs = {}]
    /\ WorldChanges /\ UNCHANGED <<cache, workspace>>

(* authorize_git_data_plane_project, for the registry the caller read *)
Authorized(state) == state \in {"active", "inactive"}

(* import_snapshot_from_repo_authorized: the fetch, then the look at the   *)
(* quota, whose error takes nothing back.  A fetch that is cut off may     *)
(* have written one of the refs.                                            *)
ImportToCache ==
    /\ Authorized(workspace) /\ peer.refs = SnapshotRefs
    /\ \E refs \in {{"index"}, SnapshotRefs} :
          cache' = [exists |-> TRUE, refs |-> cache.refs \cup refs]
    /\ WorldChanges /\ UNCHANGED <<peer, workspace>>

(* open_with_policy, for any snapshot of the project *)
CacheOpened ==
    /\ ~cache.exists /\ cache' = [cache EXCEPT !.exists = TRUE]
    /\ WorldChanges /\ UNCHANGED <<peer, workspace>>

(* Cleanup deletes the refs one after the other. *)
RefsCleaned ==
    /\ cache.refs # {}
    /\ cache' = [cache EXCEPT !.refs = IF @ = SnapshotRefs THEN {"work"} ELSE {}]
    /\ WorldChanges /\ UNCHANGED <<peer, workspace>>

WorkspaceChanges ==
    /\ workspace' \in RegisteredStates \ {workspace}
    /\ WorldChanges /\ UNCHANGED <<peer, cache>>
-----------------------------------------------------------------------------
BeginTransfer(policy) ==
    /\ transfer.pc = "idle"
    /\ transfer' = [NoTransfer EXCEPT !.pc = "source", !.policy = policy]
    /\ UNCHANGED <<peer, cache, workspace, arrived, routeChanges>>

(* ensure_snapshot_objects: both refs, and their objects *)
CacheHolds == cache.exists /\ cache.refs = SnapshotRefs

(* measure_snapshot_route: whether the source answers, not whether it has  *)
(* the snapshot; then the anchor, where verify_snapshot_available looks.   *)
MeasureSource ==
    /\ transfer.pc = "source"
    /\ transfer' = [transfer EXCEPT !.pc = "cache", !.seen.online = peer.online]
    /\ UNCHANGED <<peer, cache, workspace, arrived, routeChanges>>

MeasureCache ==
    /\ transfer.pc = "cache"
    /\ transfer' = [transfer EXCEPT !.pc = "select", !.seen.available = cache.exists,
                        !.seen.has = CacheHolds]
    /\ UNCHANGED <<peer, cache, workspace, arrived, routeChanges>>

DirectReady == transfer.policy.direct /\ transfer.seen.online
CacheReady == transfer.policy.cached /\ transfer.seen.available /\ transfer.seen.has

(* select_snapshot_route: the route, and whether it is available *)
FirstRoute ==
    IF transfer.policy.required THEN IF DirectReady THEN "direct" ELSE "none"
    ELSE IF DirectReady THEN "direct"
    ELSE IF CacheReady THEN "cache"
    ELSE "none"

\* Mutant: the failed route does not count.
SelectAgain(failed) == FirstRoute
(* select_snapshot_route_after_failure *)
RouteAfter(failed) ==
    IF transfer.policy.required THEN "none"
    ELSE IF failed = "direct" /\ CacheReady THEN "cache"
    ELSE IF failed = "cache" /\ DirectReady THEN "direct"
    ELSE "none"

SelectRoute ==
    /\ transfer.pc = "select"
    /\ LET route == IF transfer.tries = 0 THEN FirstRoute ELSE RouteAfter(transfer.route) IN
       transfer' = [transfer EXCEPT !.pc = IF route = "none" THEN "failed" ELSE "begin",
                        !.route = route, !.tries = @ + 1, !.registered = workspace]
    /\ UNCHANGED <<peer, cache, workspace, arrived, routeChanges>>

PeerServes == peer.online /\ peer.refs = SnapshotRefs

(* export_snapshot_to_repo_authorized, or the plan that                    *)
(* serve_snapshot_bare_repo_authorized answers: the registry as the caller *)
(* read it, and the refs with their objects.                                *)
CacheServes == Authorized(transfer.registered) /\ CacheHolds

ExportChecks ==
    /\ transfer.pc = "begin" /\ transfer.route = "cache" /\ CacheServes
    /\ transfer' = [transfer EXCEPT !.pc = "fetch"]
    /\ UNCHANGED <<peer, cache, workspace, arrived, routeChanges>>

(* git fetch needs both refs when it begins, and writes them one by one. *)
FetchBegins ==
    /\ \/ transfer.pc = "begin" /\ transfer.route = "direct" /\ PeerServes
       \/ transfer.pc = "fetch" /\ cache.refs = SnapshotRefs
    /\ transfer' = [transfer EXCEPT !.pc = "write", !.refs = SnapshotRefs]
    /\ UNCHANGED <<peer, cache, workspace, arrived, routeChanges>>

FetchWritesRef ==
    /\ transfer.pc = "write"
    /\ \E ref \in transfer.refs :
          /\ arrived' = arrived \cup {ref}
          /\ transfer' = [transfer EXCEPT !.refs = @ \ {ref},
                              !.pc = IF transfer.refs = {ref} THEN "done" ELSE @]
    /\ UNCHANGED <<peer, cache, workspace, routeChanges>>

RouteBreaks ==
    \/ transfer.pc = "begin" /\ transfer.route = "direct" /\ ~PeerServes
    \/ transfer.pc = "begin" /\ transfer.route = "cache" /\ ~CacheServes
    \/ transfer.pc = "fetch" /\ cache.refs # SnapshotRefs

(* The caller asks once more, with its measurements or with new ones. *)
RouteFails ==
    /\ RouteBreaks
    /\ transfer' \in {[transfer EXCEPT !.pc = pc] :
                         pc \in IF transfer.tries = 1 THEN {"source", "select"} ELSE {"failed"}}
    /\ UNCHANGED <<peer, cache, workspace, arrived, routeChanges>>

(* Routes that hand the snapshot out at this moment. *)
Usable ==
    {r \in {"direct", "cache"} :
        IF r = "direct" THEN PeerServes
        ELSE CacheHolds /\ Authorized(workspace)}

RoutesStep ==
    \/ PeerComesOrGoes \/ PeerPrunes \/ ImportToCache \/ CacheOpened \/ RefsCleaned
    \/ WorkspaceChanges
    \/ \E policy \in RoutePolicies : BeginTransfer(policy)
    \/ MeasureSource \/ MeasureCache \/ SelectRoute
    \/ ExportChecks \/ FetchBegins \/ FetchWritesRef \/ RouteFails

RoutesNext ==
    /\ RoutesStep
    /\ steady' = IF transfer.pc = "idle" THEN Usable' ELSE steady \cap Usable'
-----------------------------------------------------------------------------
(* A transfer that gave up had no route that worked from its beginning to  *)
(* its end and that its policy allows, however the other route came and    *)
(* went between a measurement and the fetch; and one that ended well has   *)
(* both refs, from the source itself where the policy requires the source. *)
WorkingRouteIsFound ==
    /\ transfer.pc = "failed" =>
          /\ transfer.policy.direct => "direct" \notin steady
          /\ transfer.policy.cached /\ ~transfer.policy.required => "cache" \notin steady
    /\ transfer.pc = "done" =>
          /\ arrived = SnapshotRefs
          /\ transfer.policy.required => transfer.route = "direct"
=============================================================================
