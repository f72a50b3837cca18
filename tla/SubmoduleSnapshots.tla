------------------------- MODULE SubmoduleSnapshots -------------------------
(***************************************************************************)
(* Checkpoints of a workspace with submodules: dirty submodules are stored *)
(* first, each as a snapshot in a store of a project of its own, and the   *)
(* parent's snapshot links to them.  Several checkpoints, a user and the   *)
(* retention of the stores interleave.  How one store keeps a snapshot is  *)
(* in SnapshotStore.                                                        *)
(***************************************************************************)
EXTENDS Integers, Sequences, FiniteSets, SequencesExt

CONSTANTS
    Top,            \* the workspace
    Submodules,     \* submodules, nested ones included
    Within,         \* [Submodules -> the repository it is a submodule of]
    Order,          \* sequence of the submodules, as the inspection meets them
    MaxDepth,       \* levels below the first that are inspected
    Checkpointers,  \* calls of checkpoint_with_dirty_submodules
    MaxChanges,     \* bound: changes a user makes
    MaxPins         \* bound: checkpoints that pin what they store

Repositories == Submodules \cup {Top}

ASSUME SubmodulesAssumption ==
    /\ Top \notin Submodules /\ MaxDepth \in Nat
    /\ Within \in [Submodules -> Repositories]
    /\ IsInjective(Order) /\ ToSet(Order) = Submodules

VARIABLES
    repos,      \* [Repositories -> whether it is checked out, its commit, its uncommitted work]
    gitlinks,   \* [Submodules -> the commit that the index of the repository around it names]
    rowsOf,     \* [Repositories -> set of snapshots in its project's store]
    checks,     \* [Checkpointers -> state of the call]
    changes, pins

submoduleVars == <<repos, gitlinks, rowsOf, checks, changes, pins>>

NoLink == [s \in Submodules |-> 0]
IdleCheck == [pc |-> "idle", pinned |-> FALSE, at |-> 1, todo |-> <<>>, taken |-> <<>>,
              parent |-> 0, links |-> NoLink, start |-> <<>>]

SubmodulesInit ==
    /\ \E out \in {out \in [Repositories -> BOOLEAN] :
                      out[Top] /\ \A s \in Submodules : out[s] => out[Within[s]]} :
       \E ahead \in SUBSET {s \in Submodules : out[s]} :    \* at a commit nobody has staged
          repos = [r \in Repositories |->
                      [out |-> out[r], commit |-> IF r \in ahead THEN 1 ELSE 0, work |-> 0]]
    /\ gitlinks = [s \in Submodules |-> 0]
    /\ rowsOf = [r \in Repositories |-> {}]
    /\ checks = [c \in Checkpointers |-> IdleCheck]
    /\ changes = 0 /\ pins = 0
-----------------------------------------------------------------------------
(* The user's work.  A change of a checkout that is running is noticed in  *)
(* the history start, which then is empty.                                  *)
UserActs ==
    /\ changes < MaxChanges /\ changes' = changes + 1
    /\ checks' = [c \in Checkpointers |-> [checks[c] EXCEPT !.start = <<>>]]
    /\ UNCHANGED <<rowsOf, pins>>

EditFiles(r) ==
    /\ repos[r].out /\ repos' = [repos EXCEPT ![r].work = @ + 1]
    /\ UserActs /\ UNCHANGED gitlinks

CommitWork(r) ==
    /\ repos[r].out
    /\ repos' = [repos EXCEPT ![r].commit = @ + 1, ![r].work = 0]
    /\ UserActs /\ UNCHANGED gitlinks

StageSubmodule(s) ==
    /\ repos[s].out /\ gitlinks[s] # repos[s].commit
    /\ gitlinks' = [gitlinks EXCEPT ![s] = repos[s].commit]
    /\ repos' = [repos EXCEPT ![Within[s]].work = @ + 1]
    /\ UserActs

CheckOutSubmodule(s) ==
    /\ ~repos[s].out /\ repos[Within[s]].out
    /\ repos' = [repos EXCEPT ![s] = [out |-> TRUE, commit |-> gitlinks[s], work |-> 0]]
    /\ UserActs /\ UNCHANGED gitlinks
-----------------------------------------------------------------------------
Depth[s \in Submodules] == IF Within[s] = Top THEN 0 ELSE 1 + Depth[Within[s]]

(* git status --porcelain is not empty: what is changed in a submodule, or *)
(* a commit of it that the index does not name, is a change around it.     *)
Unclean[r \in Repositories] ==
    \/ repos[r].work > 0
    \/ \E s \in Submodules : /\ Within[s] = r /\ repos[s].out
                             /\ gitlinks[s] # repos[s].commit \/ Unclean[s]

(* inspect_submodule.  In a submodule that is not checked out, git answers *)
(* for the repository around it.                                            *)
IsDirty(s) == IF repos[s].out THEN Unclean[s] ELSE Unclean[Within[s]]

Inspected(s) ==
    /\ Depth[s] <= MaxDepth
    /\ Within[s] = Top \/ repos[Within[s]].out

BeginCheckpoint(c, pinned) ==
    /\ checks[c].pc = "idle"
    /\ pinned => pins < MaxPins
    /\ pins' = IF pinned THEN pins + 1 ELSE pins
    /\ checks' = [checks EXCEPT ![c].pc = "inspect", ![c].pinned = pinned, ![c].start = repos]
    /\ UNCHANGED <<repos, gitlinks, rowsOf, changes>>

(* inspect_submodules, one submodule at a time *)
InspectSubmodule(c) ==
    /\ checks[c].pc = "inspect" /\ checks[c].at <= Len(Order)
    /\ LET s == Order[checks[c].at] IN
       checks' = [checks EXCEPT ![c].at = @ + 1,
                     ![c].todo = IF Inspected(s) /\ IsDirty(s) THEN Append(@, s) ELSE @]
    /\ UNCHANGED <<repos, gitlinks, rowsOf, changes, pins>>

(* The repository to take a snapshot of: the dirty submodules, then Top. *)
Current(c) == IF checks[c].todo = <<>> THEN Top ELSE Head(checks[c].todo)

InspectionEnds(c) ==
    /\ checks[c].pc = "inspect" /\ checks[c].at > Len(Order)
    /\ checks' = [checks EXCEPT ![c].pc = "capture"]
    /\ UNCHANGED <<repos, gitlinks, rowsOf, changes, pins>>

CheckpointFails(c) ==
    /\ checks[c].pc \notin {"idle", "done"}
    /\ checks' = [checks EXCEPT ![c] = [IdleCheck EXCEPT !.pc = "done"]]
    /\ UNCHANGED <<repos, gitlinks, rowsOf, changes, pins>>

(* create_snapshot: the work tree names the commits of the submodules that *)
(* are checked out.  Where nothing is checked out, git add fails.           *)
CaptureRepository(c) ==
    LET r == Current(c) IN
    /\ checks[c].pc = "capture" /\ repos[r].out
    /\ checks' = [checks EXCEPT ![c].pc = "import",
           ![c].taken = [commit |-> repos[r].commit, work |-> repos[r].work,
                         below |-> [s \in {s \in Submodules : Within[s] = r} |->
                                       IF repos[s].out THEN repos[s].commit ELSE gitlinks[s]]]]
    /\ UNCHANGED <<repos, gitlinks, rowsOf, changes, pins>>

Newest(r) == IF rowsOf[r] = {} THEN 0
             ELSE CHOOSE i \in {t.id : t \in rowsOf[r]} : \A t \in rowsOf[r] : t.id <= i

(* store_snapshot: import of the refs, and the snapshot's parent *)
ImportSnapshot(c) ==
    /\ checks[c].pc = "import"
    /\ checks' = [checks EXCEPT ![c].pc = "insert", ![c].parent = Newest(Current(c))]
    /\ UNCHANGED <<repos, gitlinks, rowsOf, changes, pins>>

\* Mutant: the snapshots of submodules are left to their retention.
PinnedOnTop(c) == checks[c].pinned /\ Current(c) = Top
(* checkpoint_dirty_submodule_children hands pinned on to the children. *)
Pinned(c) == checks[c].pinned

InsertRow(c) ==
    LET r == Current(c)
        k == checks[c]
        row == [id |-> Newest(r) + 1, parent |-> k.parent, pinned |-> Pinned(c),
                state |-> k.taken, links |-> IF r = Top THEN k.links ELSE NoLink,
                start |-> IF r = Top THEN k.start ELSE <<>>]
    IN
    /\ k.pc = "insert"
    /\ k.parent = 0 \/ \E t \in rowsOf[r] : t.id = k.parent
    /\ rowsOf' = [rowsOf EXCEPT ![r] = @ \cup {row}]
    /\ checks' = [checks EXCEPT ![c] =
           IF r = Top THEN [IdleCheck EXCEPT !.pc = "done"]
           ELSE [k EXCEPT !.pc = "capture", !.todo = Tail(k.todo), !.taken = <<>>, !.parent = 0,
                          !.links[r] = row.id]]
    /\ UNCHANGED <<repos, gitlinks, changes, pins>>

(* prune_snapshots of one store, for one snapshot of a plan *)
PruneSnapshot(r, row) ==
    /\ ~row.pinned /\ row.id # Newest(r)
    /\ \A t \in rowsOf[r] : t.parent # row.id
    /\ rowsOf' = [rowsOf EXCEPT ![r] = @ \ {row}]
    /\ UNCHANGED <<repos, gitlinks, checks, changes, pins>>

SubmodulesNext ==
    \/ \E r \in Repositories :
          EditFiles(r) \/ CommitWork(r) \/ \E row \in rowsOf[r] : PruneSnapshot(r, row)
    \/ \E s \in Submodules : StageSubmodule(s) \/ CheckOutSubmodule(s)
    \/ \E c \in Checkpointers :
          \/ \E pinned \in BOOLEAN : BeginCheckpoint(c, pinned)
          \/ InspectSubmodule(c) \/ InspectionEnds(c) \/ CheckpointFails(c)
          \/ CaptureRepository(c) \/ ImportSnapshot(c) \/ InsertRow(c)
-----------------------------------------------------------------------------
ChildOf(row, s) == {t \in rowsOf[s] : t.id = row.links[s]}

(* What a pinned checkpoint of a workspace has stored can be had back as a *)
(* whole: the snapshots of submodules that it links to are in their        *)
(* stores, whatever the retention of those stores does.  And one that      *)
(* nobody disturbed links to the work of every submodule that had any, at  *)
(* the commit that the snapshot around the submodule names.                *)
PinnedTreesAreWhole ==
    \A row \in {row \in rowsOf[Top] : row.pinned} :
        /\ \A s \in Submodules : row.links[s] # 0 => ChildOf(row, s) # {}
        /\ row.start # <<>> =>
              \A s \in Submodules :
                  row.start[s].out /\ row.start[s].work > 0 /\ Depth[s] <= MaxDepth =>
                      \E t \in ChildOf(row, s) :
                          /\ t.state.commit = row.start[s].commit
                          /\ t.state.work = row.start[s].work
                          /\ \E around \in IF Within[s] = Top THEN {row} ELSE ChildOf(row, Within[s]) :
                                 around.state.below[s] = t.state.commit
=============================================================================
