---------------------------- MODULE SnapshotApply ----------------------------
(***************************************************************************)
(* Capturing a workspace as a snapshot and applying it to another one      *)
(* (crates/devrelay-core/src/snapshot.rs), with the dirty-target policies  *)
(* of the command line (crates/devrelay-cli/src/main.rs).                  *)
(*                                                                         *)
(* A workspace is what Git knows of it: HEAD, the index and the files; a   *)
(* tree gives every path a content or Absent.  The apply is the sequence   *)
(* of Git commands the code runs; each may be interrupted, and the user    *)
(* may edit the target between any two.  Branches are left out: the        *)
(* checkout of a branch and that of a detached head change the same state. *)
(*                                                                         *)
(* Files that Git ignores are left out: neither status, snapshots nor      *)
(* `git clean -fd` look at them.                                           *)
(***************************************************************************)
EXTENDS FiniteSets, Naturals

CONSTANTS
    Paths,       \* paths of the repository
    Excluded,    \* untracked paths that classify_untracked_paths excludes
    Contents,    \* contents that the source may have
    UserContent, \* what the user of the target writes
    Absent,      \* no such file
    Commits,     \* commits of source and target
    TreeOf,      \* the tree of a commit
    Sources,     \* workspaces the snapshot may be taken of
    Starts,      \* commits the target may start at
    Policies,    \* dirty policies in use
    MaxEdits,    \* bound on the user's edits
    MaxApplies   \* bound on the commands the user gives

Tree == [Paths -> Contents \cup {UserContent, Absent}]
Workspace == [head: Commits, index: Tree, files: Tree]

ASSUME PathAssumption == Excluded \subseteq Paths
ASSUME ContentAssumption == Absent \notin Contents \cup {UserContent} /\ UserContent \notin Contents
\* No commit has what the user writes: an edit is told by its content.
ASSUME CommitAssumption ==
    /\ TreeOf \in [Commits -> [Paths -> Contents \cup {Absent}]]
    /\ Starts \subseteq Commits
    /\ Sources \subseteq Workspace
ASSUME PolicyAssumption ==
    /\ Policies \subseteq {"Block", "SnapshotAndFork", "NewWorkspace"}
    /\ MaxEdits \in Nat /\ MaxApplies \in Nat

VARIABLES
    source,    \* the workspace the snapshot was taken of, as it was then
    target,    \* the workspace the commands are given
    clone,     \* the new workspace of --dirty-policy new-workspace, or None
    place,     \* where the running command applies: "target" or "clone"
    pc,        \* the next step of the running command
    backups,   \* pinned snapshots of dirty targets
    wrote,     \* paths whose file is an edit of the user, made while no command ran
    quiet,     \* the user has not edited since the command began
    edits,     \* how often the user has edited
    applies    \* how many commands the user has given

applyVars == <<place, pc>>
vars == <<source, target, clone, applyVars, backups, wrote, quiet, edits, applies>>

None == [head |-> "none"]
-----------------------------------------------------------------------------
(* Snapshots                                                               *)

Untracked(w) == {p \in Paths : w.index[p] = Absent /\ w.files[p] # Absent}

\* classify_untracked_paths: what no snapshot includes, by name, content or size.
Classified(w) == Untracked(w) \cap Excluded

\* write_work_tree: the index with `git add -u`, and the included paths.
WorkTree(w, included) ==
    [p \in Paths |-> IF w.index[p] # Absent \/ p \in included THEN w.files[p] ELSE Absent]

\* create_snapshot
CreateSnapshot(w) ==
    LET included == Untracked(w) \ Classified(w) IN
    [head |-> w.head, index |-> w.index, work |-> WorkTree(w, included),
     included |-> included, excluded |-> Classified(w)]

Snapshot == CreateSnapshot(source)

\* Mutant: the work tree is not compared.
VerifyHeadAndIndex(w, s) ==
    /\ w.head = s.head
    /\ w.index = s.index
    /\ \A p \in s.included : w.files[p] # Absent
    /\ \A p \in s.excluded : w.files[p] = Absent

\* verify_snapshot
VerifySnapshot(w, s) ==
    /\ w.head = s.head
    /\ w.index = s.index
    /\ WorkTree(w, s.included) = s.work
    /\ \A p \in s.included : w.files[p] # Absent
    /\ \A p \in s.excluded : w.files[p] = Absent

-----------------------------------------------------------------------------
(* Git                                                                     *)

\* status.is_clean: nothing staged, modified or untracked.
IsClean(w) == w.index = TreeOf[w.head] /\ w.files = w.index

\* The files after a command that makes `tree` the tracked content.
CheckedOut(w, tree) ==
    [p \in Paths |-> IF w.index[p] # Absent \/ tree[p] # Absent THEN tree[p] ELSE w.files[p]]

\* The files after `git clean -fd`.
Cleaned(w) == [p \in Paths |-> IF w.index[p] = Absent THEN Absent ELSE w.files[p]]

\* `git checkout` refuses to lose an edit, and keeps it where it need not.
CheckoutAllowed(w, c) ==
    \A p \in Paths : \/ TreeOf[c][p] = TreeOf[w.head][p]
                     \/ w.index[p] = TreeOf[w.head][p] /\ w.files[p] = w.index[p]
Checkout(w, c) ==
    LET moved == {p \in Paths : TreeOf[c][p] # TreeOf[w.head][p]} IN
    [w EXCEPT !.head = c,
              !.index = [p \in Paths |-> IF p \in moved THEN TreeOf[c][p] ELSE @[p]],
              !.files = [p \in Paths |-> IF p \in moved THEN TreeOf[c][p] ELSE @[p]]]

-----------------------------------------------------------------------------
(* The user of the target                                                  *)

\* The user edits whenever, also while a command runs.
UserEdits ==
    /\ edits < MaxEdits
    /\ edits' = edits + 1
    /\ quiet' = (pc = "idle")

UserWrites(p) ==
    /\ UserEdits
    /\ target' = [target EXCEPT !.files[p] = UserContent]
    /\ wrote' = IF pc = "idle" THEN wrote \cup {p} ELSE wrote \ {p}
    /\ UNCHANGED <<source, clone, applyVars, backups, applies>>

UserDeletes(p) ==
    /\ UserEdits
    /\ target.files[p] # Absent
    /\ target' = [target EXCEPT !.files[p] = Absent]
    /\ wrote' = wrote \ {p}
    /\ UNCHANGED <<source, clone, applyVars, backups, applies>>

UserStages(p) ==
    /\ UserEdits
    /\ target.index[p] # target.files[p]
    /\ target' = [target EXCEPT !.index[p] = target.files[p]]
    /\ UNCHANGED <<source, clone, applyVars, backups, wrote, applies>>

-----------------------------------------------------------------------------
(* prepare_apply_target.  Refusals change nothing.                         *)

CommandGiven ==
    /\ pc = "idle"
    /\ applies < MaxApplies
    /\ applies' = applies + 1
    /\ quiet' = TRUE

PrepareClean ==
    /\ CommandGiven
    /\ IsClean(target)
    /\ pc' = "plan" /\ place' = "target"
    /\ UNCHANGED <<source, target, clone, backups, wrote, edits>>

\* Mutant: the snapshot of the target is taken and not stored.
BackupNotStored ==
    /\ CommandGiven
    /\ ~IsClean(target)
    /\ "SnapshotAndFork" \in Policies
    /\ pc' = "reset" /\ place' = "target"
    /\ UNCHANGED <<source, target, clone, backups, wrote, edits>>

\* backup_dirty_target stores a pinned snapshot of the target.
BackupDirtyTarget ==
    /\ CommandGiven
    /\ ~IsClean(target)
    /\ "SnapshotAndFork" \in Policies
    /\ backups' = backups \cup {CreateSnapshot(target)}
    /\ pc' = "reset" /\ place' = "target"
    /\ UNCHANGED <<source, target, clone, wrote, edits>>

\* reset_to_clean_worktree: `git reset --hard`, `git clean -fd`, status.
ResetTarget ==
    /\ pc = "reset"
    /\ target' = [target EXCEPT !.index = TreeOf[target.head],
                                !.files = CheckedOut(target, TreeOf[target.head])]
    /\ pc' = "clean"
    /\ UNCHANGED <<source, clone, place, backups, wrote, quiet, edits, applies>>

CleanTarget ==
    /\ pc = "clean"
    /\ target' = [target EXCEPT !.files = Cleaned(target)]
    /\ pc' = "status"
    /\ UNCHANGED <<source, clone, place, backups, wrote, quiet, edits, applies>>

ConfirmClean ==
    /\ pc = "status"
    /\ pc' = IF IsClean(target) THEN "plan" ELSE "idle"
    /\ UNCHANGED <<source, target, clone, place, backups, wrote, quiet, edits, applies>>

\* `git clone` of the target's repository: its commits, not its changes.
CloneTarget ==
    /\ CommandGiven
    /\ ~IsClean(target)
    /\ "NewWorkspace" \in Policies
    /\ clone' = [head |-> target.head,
                 index |-> TreeOf[target.head], files |-> TreeOf[target.head]]
    /\ pc' = "plan" /\ place' = "clone"
    /\ UNCHANGED <<source, target, backups, wrote, edits>>

-----------------------------------------------------------------------------
(* apply_snapshot_inner                                                    *)

Here == IF place = "target" THEN target ELSE clone
Put(w) ==
    IF place = "target" THEN target' = w /\ UNCHANGED clone ELSE clone' = w /\ UNCHANGED target

\* plan_apply_snapshot refuses a dirty target; then the refs are fetched.
PlanApply ==
    /\ pc = "plan"
    /\ pc' = IF IsClean(Here) THEN "checkout" ELSE "idle"
    /\ UNCHANGED <<source, target, clone, place, backups, wrote, quiet, edits, applies>>

\* One Git command on the workspace; w is what it leaves.
Step(from, to, w) ==
    /\ pc = from
    /\ Put(w)
    /\ pc' = to
    /\ UNCHANGED <<source, place, backups, wrote, quiet, edits, applies>>

CheckoutBase ==
    /\ CheckoutAllowed(Here, Snapshot.head)
    /\ Step("checkout", "base", Checkout(Here, Snapshot.head))

ResetBase ==
    Step("base", "work",
         [Here EXCEPT !.index = TreeOf[Snapshot.head],
                      !.files = CheckedOut(Here, TreeOf[Snapshot.head])])

\* Mutant: the index is read with the work tree, not after it.
ReadWorkOverIndex ==
    Step("work", "index",
         [Here EXCEPT !.index = Snapshot.index, !.files = CheckedOut(Here, Snapshot.index)])

\* read-tree --reset -u
ReadWork ==
    Step("work", "index",
         [Here EXCEPT !.index = Snapshot.work, !.files = CheckedOut(Here, Snapshot.work)])

\* read-tree --reset, which leaves the files alone
ReadIndex == Step("index", "verify", [Here EXCEPT !.index = Snapshot.index])

Verify ==
    /\ VerifySnapshot(Here, Snapshot)
    /\ Step("verify", "verified", Here)

\* The audit row of a verified apply.
RecordAudit == Step("verified", "idle", Here)

\* An error, or the end of the process: before a step, or after some of the
\* files of a Git command have been written.
Stops ==
    /\ pc # "idle"
    /\ pc' = "idle"
    /\ LET half == CASE pc = "reset" -> CheckedOut(target, TreeOf[target.head])
                     [] pc = "clean" -> Cleaned(target)
                     [] pc = "checkout" /\ CheckoutAllowed(Here, Snapshot.head)
                                        -> Checkout(Here, Snapshot.head).files
                     [] pc = "base"  -> CheckedOut(Here, TreeOf[Snapshot.head])
                     [] pc = "work"  -> CheckedOut(Here, Snapshot.work)
                     [] OTHER -> Here.files
       IN \E written \in SUBSET Paths :
            Put([Here EXCEPT !.files = [p \in Paths |-> IF p \in written THEN half[p] ELSE @[p]]])
    /\ UNCHANGED <<source, place, backups, wrote, quiet, edits, applies>>

-----------------------------------------------------------------------------
Init ==
    /\ source \in Sources
    /\ \E c \in Starts :
         target = [head |-> c, index |-> TreeOf[c], files |-> TreeOf[c]]
    /\ clone = None
    /\ place = "target"
    /\ pc = "idle"
    /\ backups = {}
    /\ wrote = {}
    /\ quiet = TRUE
    /\ edits = 0
    /\ applies = 0

Next ==
    \/ \E p \in Paths : UserWrites(p) \/ UserDeletes(p) \/ UserStages(p)
    \/ PrepareClean \/ BackupDirtyTarget \/ ResetTarget \/ CleanTarget \/ ConfirmClean
    \/ CloneTarget \/ PlanApply \/ CheckoutBase \/ ResetBase
    \/ ReadWork \/ ReadIndex \/ Verify \/ RecordAudit \/ Stops

Spec == Init /\ [][Next]_vars
-----------------------------------------------------------------------------
(* Properties                                                              *)

(* Capture and apply are inverse: the Git commands of the apply, run on a  *)
(* target that nobody edits meanwhile, always produce a workspace that     *)
(* verify_snapshot accepts, whatever was staged, modified, deleted or      *)
(* untracked in the source, and whatever earlier attempts left behind.     *)
QuietApplyVerifies == quiet /\ pc = "verify" => VerifySnapshot(Here, Snapshot)

\* w has what the snapshot captured of the source and nothing it excluded;
\* files that the source does not have may be the user's.
MatchesSource(w) ==
    /\ w.head = source.head
    /\ w.index = source.index
    /\ \A p \in Paths :
         IF p \in Snapshot.excluded THEN w.files[p] = Absent
         ELSE \/ w.files[p] = source.files[p]
              \/ w.files[p] = UserContent /\ source.files[p] = Absent

(* A verified apply means that the target is in the state of the source,   *)
(* although the user may have edited the target at any moment of the apply *)
(* ("No cross-device handoff succeeds before verification passes").        *)
VerifiedMatchesSource ==
    [][pc = "verify" /\ pc' = "verified" => MatchesSource(Here)]_vars

\* The user's edit of p is in the target or in a backup.
Survives(p) == target.files[p] = UserContent \/ \E b \in backups : b.work[p] = UserContent

(* Work that was in the target when a command began, and that a snapshot   *)
(* can hold, is not lost by the command, wherever it stops: a dirty target *)
(* is refused, backed up before it is cleaned, or left for a new workspace.*)
CapturableWorkSurvives == \A p \in wrote \ Excluded : Survives(p)

(* docs/data-loss-safety.md: "Every destructive cleanup has explicit       *)
(* confirmation or a prior snapshot."  What `git clean -fd` deletes of a   *)
(* target that nobody edits meanwhile is in a backup.                      *)
CleanupHasSnapshot ==
    [][quiet /\ pc = "clean" /\ pc' = "status" =>
         \A p \in Paths : target.files[p] # target'.files[p] =>
           \E b \in backups : b.work[p] = target.files[p]]_vars
=============================================================================
