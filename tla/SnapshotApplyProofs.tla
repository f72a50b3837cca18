------------------------- MODULE SnapshotApplyProofs -------------------------
(***************************************************************************)
(* What holds of applying a snapshot for every repository, every source    *)
(* and any number of edits and commands (SnapshotApply), and of recovering *)
(* snapshots into directories for any number of calls and directories      *)
(* (RecoveryWorkspace).                                                    *)
(***************************************************************************)
EXTENDS SnapshotApply, RecoveryWorkspace, TLAPS

Steps == {"reset", "clean", "status", "plan", "checkout", "base", "work", "index", "verify",
          "verified"}
Places == {"target", "clone"}

(* The steps that work on the command's own place, after its preparation. *)
Preparing == {"reset", "clean", "status"}

Snapshots == [head : Commits, index : Tree, work : Tree,
              included : SUBSET Paths, excluded : SUBSET Paths]

ApplyTypeOK ==
    /\ source \in Workspace
    /\ target \in Workspace
    /\ clone \in Workspace \cup {None}
    /\ place \in Places
    /\ pc \in Steps \cup {"idle"}
    /\ pc # "idle" => Here \in Workspace
    /\ pc \in Preparing => place = "target"
    /\ backups \subseteq Snapshots
    /\ wrote \subseteq Paths
    /\ quiet \in BOOLEAN

(***************************************************************************)
(* What a workspace may have become while Git makes t its content and the  *)
(* user edits it: every file is the one of t, the user's, or gone.         *)
(***************************************************************************)
FilesFrom(w, t) == \A p \in Paths : w.files[p] \in {t[p], Absent, UserContent}

(* A path that the index does not know holds what the user put there. *)
UntrackedIsUsers(w) == \A p \in Paths : w.index[p] = Absent => w.files[p] \in {Absent, UserContent}

Drifted(w, t) == FilesFrom(w, t) /\ UntrackedIsUsers(w)

DriftInv ==
    /\ pc = "checkout" => Drifted(Here, TreeOf[Here.head])
    /\ pc \in {"base", "work"} => Drifted(Here, TreeOf[source.head])
    /\ pc \in {"index", "verify", "verified"} => FilesFrom(Here, Snapshot.work)

(* What the steps have made of a workspace that nobody edited. *)
QuietInv ==
    quiet =>
        /\ pc \in {"checkout", "base", "work"} => IsClean(Here)
        /\ pc \in {"base", "work", "index", "verify", "verified"} => Here.head = source.head
        /\ pc \in {"index", "verify", "verified"} => Here.files = Snapshot.work
        /\ pc = "index" => Here.index = Snapshot.work
        /\ pc \in {"verify", "verified"} => Here.index = source.index

BackedUp(p) == \E b \in backups : b.work[p] = UserContent

(* While a command works on the target, the user's earlier edits are safe. *)
KeptInv ==
    /\ CapturableWorkSurvives
    /\ pc # "idle" /\ place = "target" => \A p \in wrote \ Excluded : BackedUp(p)

ApplyInv == ApplyTypeOK /\ DriftInv /\ QuietInv /\ KeptInv
-----------------------------------------------------------------------------
(* Workspaces, snapshots and the Git commands                              *)

LEMMA TreesOfCommits ==
    ASSUME NEW c \in Commits
    PROVE  /\ TreeOf[c] \in Tree
           /\ \A p \in Paths : TreeOf[c][p] \in Contents \cup {Absent} /\ TreeOf[c][p] # UserContent
BY CommitAssumption, ContentAssumption DEF Tree

LEMMA WorkTreeIsTree ==
    ASSUME NEW w \in Workspace, NEW included \in SUBSET Paths
    PROVE  WorkTree(w, included) \in Tree
BY DEF WorkTree, Workspace, Tree

LEMMA SnapshotFacts ==
    ASSUME NEW w \in Workspace
    PROVE  /\ CreateSnapshot(w) \in Snapshots
           /\ CreateSnapshot(w).head = w.head
           /\ CreateSnapshot(w).index = w.index
           /\ CreateSnapshot(w).included = Untracked(w) \ Excluded
           /\ CreateSnapshot(w).excluded = Untracked(w) \cap Excluded
           /\ \A p \in Paths :
                 CreateSnapshot(w).work[p] =
                    IF w.index[p] # Absent \/ p \in Untracked(w) \ Excluded
                    THEN w.files[p] ELSE Absent
<1> DEFINE included == Untracked(w) \ Classified(w)
<1>1. included = Untracked(w) \ Excluded /\ Classified(w) = Untracked(w) \cap Excluded
  BY DEF Classified
<1>2. included \in SUBSET Paths /\ Classified(w) \in SUBSET Paths
  BY DEF Untracked, Classified
<1>3. CreateSnapshot(w) =
        [head |-> w.head, index |-> w.index, work |-> WorkTree(w, included),
         included |-> included, excluded |-> Classified(w)]
  BY DEF CreateSnapshot
<1>4. WorkTree(w, included) \in Tree
  BY <1>2, WorkTreeIsTree
<1>5. w.head \in Commits /\ w.index \in Tree
  BY DEF Workspace
<1>6. \A p \in Paths : WorkTree(w, included)[p] =
         IF w.index[p] # Absent \/ p \in included THEN w.files[p] ELSE Absent
  BY DEF WorkTree
<1> HIDE DEF included
<1> QED
  BY <1>1, <1>2, <1>3, <1>4, <1>5, <1>6 DEF Snapshots

LEMMA CheckedOutFacts ==
    ASSUME NEW w \in Workspace, NEW t \in Tree
    PROVE  /\ CheckedOut(w, t) \in Tree
           /\ \A p \in Paths : CheckedOut(w, t)[p] =
                 IF w.index[p] # Absent \/ t[p] # Absent THEN t[p] ELSE w.files[p]
BY DEF CheckedOut, Workspace, Tree

LEMMA CleanedIsTree == ASSUME NEW w \in Workspace PROVE Cleaned(w) \in Tree
BY DEF Cleaned, Workspace, Tree

(* `git checkout` of c leaves index and files as they are where the two     *)
(* commits agree, and as in c where they do not.                           *)
LEMMA CheckoutFacts ==
    ASSUME NEW w \in Workspace, NEW c \in Commits
    PROVE  /\ Checkout(w, c) \in Workspace
           /\ Checkout(w, c).head = c
           /\ \A p \in Paths :
                 IF TreeOf[c][p] # TreeOf[w.head][p]
                 THEN Checkout(w, c).index[p] = TreeOf[c][p] /\ Checkout(w, c).files[p] = TreeOf[c][p]
                 ELSE Checkout(w, c).index[p] = w.index[p] /\ Checkout(w, c).files[p] = w.files[p]
<1> DEFINE moved == {p \in Paths : TreeOf[c][p] # TreeOf[w.head][p]}
           index == [p \in Paths |-> IF p \in moved THEN TreeOf[c][p] ELSE w.index[p]]
           files == [p \in Paths |-> IF p \in moved THEN TreeOf[c][p] ELSE w.files[p]]
<1>1. TreeOf[c] \in Tree /\ w.head \in Commits /\ w.index \in Tree /\ w.files \in Tree
  BY TreesOfCommits DEF Workspace
<1>2. index \in Tree /\ files \in Tree
  BY <1>1 DEF Tree
<1>3. w = [head |-> w.head, index |-> w.index, files |-> w.files]
  BY DEF Workspace
<1>4. Checkout(w, c) = [head |-> c, index |-> index, files |-> files]
  <2>1. Checkout(w, c) = [w EXCEPT !.head = c, !.index = index, !.files = files]
    BY DEF Checkout
  <2> HIDE DEF index, files
  <2> QED
    BY <1>3, <2>1
<1>5. \A p \in Paths :
         IF TreeOf[c][p] # TreeOf[w.head][p]
         THEN index[p] = TreeOf[c][p] /\ files[p] = TreeOf[c][p]
         ELSE index[p] = w.index[p] /\ files[p] = w.files[p]
  OBVIOUS
<1> HIDE DEF index, files
<1> QED
  BY <1>2, <1>4, <1>5 DEF Workspace

(* Two trees that agree everywhere are the same. *)
LEMMA SameTree ==
    ASSUME NEW s \in Tree, NEW t \in Tree, \A p \in Paths : s[p] = t[p] PROVE s = t
BY DEF Tree

LEMMA CleanFacts ==
    ASSUME NEW w \in Workspace, IsClean(w)
    PROVE  /\ Drifted(w, TreeOf[w.head])
           /\ w.index = TreeOf[w.head] /\ w.files = TreeOf[w.head]
           /\ \A p \in Paths : w.files[p] # UserContent
BY TreesOfCommits DEF IsClean, Drifted, FilesFrom, UntrackedIsUsers, Workspace
-----------------------------------------------------------------------------
(* The user                                                                *)

(* What one edit makes of a workspace. *)
UserEdit(v, w) ==
    /\ w \in Workspace
    /\ w.head = v.head
    /\ \A p \in Paths :
          /\ w.files[p] \in {v.files[p], UserContent, Absent}
          /\ w.index[p] = v.index[p] \/ (w.index[p] = v.files[p] /\ w.files[p] = v.files[p])

LEMMA EditsDrift ==
    ASSUME NEW v, NEW w, NEW t, UserEdit(v, w)
    PROVE  /\ FilesFrom(v, t) => FilesFrom(w, t)
           /\ UntrackedIsUsers(v) => UntrackedIsUsers(w)
BY DEF UserEdit, FilesFrom, UntrackedIsUsers

UserStep == \E p \in Paths : UserWrites(p) \/ UserDeletes(p) \/ UserStages(p)

LEMMA EditFacts ==
    ASSUME ApplyTypeOK, UserStep
    PROVE  /\ UserEdit(target, target')
           /\ quiet' = (pc = "idle")
           /\ UNCHANGED <<source, clone, place, pc, backups>>
           /\ wrote' \subseteq Paths
           /\ \A q \in wrote' :
                 \/ q \in wrote /\ target'.files[q] = target.files[q]
                 \/ pc = "idle" /\ target'.files[q] = UserContent
<1>1. PICK p \in Paths : UserWrites(p) \/ UserDeletes(p) \/ UserStages(p)
  BY DEF UserStep
<1>2. /\ target \in Workspace /\ wrote \subseteq Paths
      /\ target.head \in Commits /\ target.index \in Tree /\ target.files \in Tree
      /\ target = [head |-> target.head, index |-> target.index, files |-> target.files]
  BY DEF ApplyTypeOK, Workspace
<1>3. /\ quiet' = (pc = "idle")
      /\ UNCHANGED <<source, clone, place, pc, backups>>
  BY <1>1 DEF UserWrites, UserDeletes, UserStages, UserEdits, applyVars
<1>4. ASSUME NEW content \in {UserContent, Absent},
             target' = [target EXCEPT !.files[p] = content]
      PROVE  /\ UserEdit(target, target')
             /\ \A q \in Paths : target'.files[q] = IF q = p THEN content ELSE target.files[q]
  <2> DEFINE files == [target.files EXCEPT ![p] = content]
  <2>1. files \in Tree /\ \A q \in Paths : files[q] = IF q = p THEN content ELSE target.files[q]
    BY <1>2 DEF Tree
  <2>2. target' = [target EXCEPT !.files = files]
    BY <1>4
  <2> HIDE DEF files
  <2>3. target' = [head |-> target.head, index |-> target.index, files |-> files]
    BY <1>2, <2>2
  <2> QED
    BY <1>2, <2>1, <2>3 DEF UserEdit, Workspace
<1>5. CASE UserWrites(p)
  <2>1. target' = [target EXCEPT !.files[p] = UserContent]
    BY <1>5 DEF UserWrites
  <2>2. wrote' = IF pc = "idle" THEN wrote \cup {p} ELSE wrote \ {p}
    BY <1>5 DEF UserWrites
  <2> QED
    BY <1>2, <1>3, <1>4, <2>1, <2>2
<1>6. CASE UserDeletes(p)
  <2>1. target' = [target EXCEPT !.files[p] = Absent] /\ wrote' = wrote \ {p}
    BY <1>6 DEF UserDeletes
  <2> QED
    BY <1>2, <1>3, <1>4, <2>1
<1>7. CASE UserStages(p)
  <2> DEFINE index == [target.index EXCEPT ![p] = target.files[p]]
  <2>1. index \in Tree /\ \A q \in Paths : index[q] = IF q = p THEN target.files[p] ELSE target.index[q]
    BY <1>2 DEF Tree
  <2>2. target' = [target EXCEPT !.index = index] /\ wrote' = wrote
    BY <1>7 DEF UserStages
  <2> HIDE DEF index
  <2>3. target' = [head |-> target.head, index |-> index, files |-> target.files]
    BY <1>2, <2>2
  <2> QED
    BY <1>2, <1>3, <2>1, <2>2, <2>3 DEF UserEdit, Workspace
<1> QED
  BY <1>1, <1>5, <1>6, <1>7

LEMMA EditsKeep == ASSUME ApplyInv, UserStep PROVE ApplyInv'
<1>1. ApplyTypeOK /\ DriftInv /\ QuietInv /\ KeptInv
  BY DEF ApplyInv
<1>2. /\ UserEdit(target, target')
      /\ quiet' = (pc = "idle")
      /\ UNCHANGED <<source, clone, place, pc, backups>>
      /\ wrote' \subseteq Paths
      /\ \A q \in wrote' :
            \/ q \in wrote /\ target'.files[q] = target.files[q]
            \/ pc = "idle" /\ target'.files[q] = UserContent
  BY <1>1, EditFacts
<1>3. target' \in Workspace /\ target'.head = target.head
  BY <1>2 DEF UserEdit
<1>4. IF place = "target" THEN Here = target /\ Here' = target' ELSE Here' = Here
  BY <1>2 DEF Here
<1>5. ApplyTypeOK'
  BY <1>1, <1>2, <1>3, <1>4 DEF ApplyTypeOK
<1>6. DriftInv'
  <2>1. Here'.head = Here.head
    BY <1>3, <1>4
  <2>2. \A t : /\ FilesFrom(Here, t) => FilesFrom(Here', t)
               /\ UntrackedIsUsers(Here) => UntrackedIsUsers(Here')
    BY <1>2, <1>4, EditsDrift
  <2>3. Snapshot' = Snapshot
    BY <1>2 DEF Snapshot
  <2>4. pc' = "checkout" => Drifted(Here', TreeOf[Here'.head])
    BY <1>1, <1>2, <2>1, <2>2 DEF DriftInv, Drifted
  <2>5. pc' \in {"base", "work"} => Drifted(Here', TreeOf[source'.head])
    BY <1>1, <1>2, <2>2 DEF DriftInv, Drifted
  <2>6. pc' \in {"index", "verify", "verified"} => FilesFrom(Here', Snapshot'.work)
    BY <1>1, <1>2, <2>2, <2>3 DEF DriftInv
  <2> QED
    BY <2>4, <2>5, <2>6 DEF DriftInv
<1>7. QuietInv'
  BY <1>2 DEF QuietInv
<1>8. KeptInv'
  <2>1. \A p : BackedUp(p)' = BackedUp(p)
    BY <1>2 DEF BackedUp
  <2>2. \A p \in wrote' \ Excluded : Survives(p)'
    BY <1>1, <1>2 DEF KeptInv, CapturableWorkSurvives, Survives
  <2>3. pc' # "idle" /\ place' = "target" => \A p \in wrote' \ Excluded : BackedUp(p)'
    BY <1>1, <1>2, <2>1 DEF KeptInv
  <2> QED
    BY <2>2, <2>3 DEF KeptInv, CapturableWorkSurvives
<1> QED
  BY <1>5, <1>6, <1>7, <1>8 DEF ApplyInv
-----------------------------------------------------------------------------
(* The commands                                                            *)

LEMMA WorkspaceFields ==
    ASSUME NEW v \in Workspace, NEW i \in Tree, NEW f \in Tree
    PROVE  /\ v.head \in Commits /\ v.index \in Tree /\ v.files \in Tree
           /\ [v EXCEPT !.index = i, !.files = f] = [head |-> v.head, index |-> i, files |-> f]
           /\ [v EXCEPT !.index = i] = [head |-> v.head, index |-> i, files |-> v.files]
           /\ [v EXCEPT !.files = f] = [head |-> v.head, index |-> v.index, files |-> f]
           /\ [head |-> v.head, index |-> i, files |-> f] \in Workspace
           /\ [v EXCEPT !.index = i, !.files = f] \in Workspace
           /\ [v EXCEPT !.index = i] \in Workspace
           /\ [v EXCEPT !.files = f] \in Workspace
<1>1. /\ v.head \in Commits /\ v.index \in Tree /\ v.files \in Tree
      /\ v = [head |-> v.head, index |-> v.index, files |-> v.files]
  BY DEF Workspace
<1>2. [head |-> v.head, index |-> i, files |-> f] \in Workspace
  BY <1>1 DEF Workspace
<1>3. [v EXCEPT !.index = i, !.files = f] = [head |-> v.head, index |-> i, files |-> f]
  <2> DEFINE u == [v EXCEPT !.index = i]
  <2>1. u = [head |-> v.head, index |-> i, files |-> v.files]
    BY <1>1
  <2>2. [v EXCEPT !.index = i, !.files = f] = [u EXCEPT !.files = f]
    OBVIOUS
  <2> HIDE DEF u
  <2> QED
    BY <2>1, <2>2
<1>4. [v EXCEPT !.index = i] = [head |-> v.head, index |-> i, files |-> v.files]
  BY <1>1
<1>5. [v EXCEPT !.files = f] = [head |-> v.head, index |-> v.index, files |-> f]
  BY <1>1
<1>6. /\ [head |-> v.head, index |-> i, files |-> v.files] \in Workspace
      /\ [head |-> v.head, index |-> v.index, files |-> f] \in Workspace
  BY <1>1 DEF Workspace
<1> QED
  BY <1>1, <1>2, <1>3, <1>4, <1>5, <1>6

(* A step of a command that works on its place after the preparation: what *)
(* is left to show is what it makes of the workspace.                      *)
LEMMA CommandStep ==
    ASSUME ApplyInv, NEW w \in Workspace, NEW next \in (Steps \cup {"idle"}) \ Preparing,
           pc # "idle", Put(w), pc' = next, UNCHANGED <<source, place, backups, wrote, quiet>>
    PROVE  /\ Here' = w /\ Snapshot' = Snapshot
           /\ DriftInv' /\ QuietInv' => ApplyInv'
<1>1. ApplyTypeOK /\ KeptInv
  BY DEF ApplyInv
<1>2. Snapshot' = Snapshot
  BY DEF Snapshot
<1>3. /\ place = "target" => target' = w /\ clone' = clone /\ Here' = w
      /\ place = "clone" => clone' = w /\ target' = target /\ Here' = w
  BY DEF Put, Here
<1>4. place \in {"target", "clone"}
  BY <1>1 DEF ApplyTypeOK, Places
<1>5. ApplyTypeOK'
  BY <1>1, <1>3, <1>4 DEF ApplyTypeOK
<1>6. KeptInv'
  <2>1. \A p : BackedUp(p)' = BackedUp(p)
    BY DEF BackedUp
  <2>2. CASE place = "target"
    <3>1. \A p \in wrote \ Excluded : BackedUp(p)
      BY <1>1, <2>2 DEF KeptInv
    <3> QED
      BY <2>1, <3>1 DEF KeptInv, CapturableWorkSurvives, Survives, BackedUp
  <2>3. CASE place = "clone"
    BY <1>1, <1>3, <2>3 DEF KeptInv, CapturableWorkSurvives, Survives
  <2> QED
    BY <1>4, <2>2, <2>3
<1> QED
  BY <1>2, <1>3, <1>4, <1>5, <1>6 DEF ApplyInv

(* What a command leaves that makes t the tracked content: the files of t,  *)
(* and what the user has put where neither the index nor t has a file.     *)
LEMMA CheckedOutDrift ==
    ASSUME NEW v \in Workspace, NEW t \in Tree
    PROVE  /\ UntrackedIsUsers(v) =>
                 \A p \in Paths : CheckedOut(v, t)[p] \in {t[p], Absent, UserContent}
           /\ v.files = v.index => CheckedOut(v, t) = t
<1>1. UntrackedIsUsers(v) =>
         \A p \in Paths : CheckedOut(v, t)[p] \in {t[p], Absent, UserContent}
  BY CheckedOutFacts DEF UntrackedIsUsers
<1>2. ASSUME v.files = v.index PROVE CheckedOut(v, t) = t
  <2>1. \A p \in Paths : CheckedOut(v, t)[p] = t[p]
    BY <1>2, CheckedOutFacts
  <2> QED
    BY <2>1, CheckedOutFacts, SameTree
<1> QED
  BY <1>1, <1>2

LEMMA CheckoutDrift ==
    ASSUME NEW v \in Workspace, NEW c \in Commits
    PROVE  /\ Drifted(v, TreeOf[v.head]) => Drifted(Checkout(v, c), TreeOf[c])
           /\ IsClean(v) => IsClean(Checkout(v, c))
<1> DEFINE w == Checkout(v, c)
<1>1. /\ w \in Workspace /\ w.head = c
      /\ \A p \in Paths :
            IF TreeOf[c][p] # TreeOf[v.head][p]
            THEN w.index[p] = TreeOf[c][p] /\ w.files[p] = TreeOf[c][p]
            ELSE w.index[p] = v.index[p] /\ w.files[p] = v.files[p]
  BY CheckoutFacts
<1> HIDE DEF w
<1>2. Drifted(v, TreeOf[v.head]) => Drifted(w, TreeOf[c])
  BY <1>1 DEF Drifted, FilesFrom, UntrackedIsUsers
<1>3. ASSUME IsClean(v) PROVE IsClean(w)
  <2>1. v.index = TreeOf[v.head] /\ v.files = TreeOf[v.head]
    BY <1>3 DEF IsClean
  <2>2. \A p \in Paths : w.index[p] = TreeOf[c][p] /\ w.files[p] = TreeOf[c][p]
    BY <1>1, <2>1
  <2>3. w.index \in Tree /\ w.files \in Tree /\ TreeOf[c] \in Tree
    BY <1>1, TreesOfCommits DEF Workspace
  <2>4. w.index = TreeOf[c] /\ w.files = TreeOf[c]
    BY <2>2, <2>3, SameTree
  <2> QED
    BY <1>1, <2>4 DEF IsClean
<1> QED
  BY <1>2, <1>3 DEF w
-----------------------------------------------------------------------------
(* prepare_apply_target                                                    *)

(* A command that begins on the target: it found it clean, or has its      *)
(* content in a backup.                                                    *)
LEMMA BeginsOnTarget ==
    ASSUME ApplyInv, PrepareClean \/ BackupDirtyTarget PROVE ApplyInv'
<1>1. ApplyTypeOK /\ KeptInv /\ target \in Workspace
  BY DEF ApplyInv, ApplyTypeOK
<1>2. /\ pc = "idle" /\ pc' \in {"plan", "reset"} /\ place' = "target"
      /\ UNCHANGED <<source, target, clone, wrote>> /\ quiet' = TRUE
  BY DEF PrepareClean, BackupDirtyTarget, CommandGiven
<1>3. /\ backups \subseteq backups' /\ backups' \subseteq Snapshots
      /\ \A p \in Paths \ Excluded : target.files[p] = UserContent => BackedUp(p)'
  <2>1. CASE PrepareClean
    <3>1. backups' = backups /\ IsClean(target)
      BY <2>1 DEF PrepareClean
    <3> QED
      BY <1>1, <3>1, CleanFacts DEF ApplyTypeOK
  <2>2. CASE BackupDirtyTarget
    <3> DEFINE b == CreateSnapshot(target)
    <3>1. backups' = backups \cup {b}
      BY <2>2 DEF BackupDirtyTarget
    <3>2. /\ b \in Snapshots
          /\ \A p \in Paths : b.work[p] =
                IF target.index[p] # Absent \/ p \in Untracked(target) \ Excluded
                THEN target.files[p] ELSE Absent
      BY <1>1, SnapshotFacts
    <3> HIDE DEF b
    <3>3. \A p \in Paths \ Excluded : target.files[p] = UserContent => b.work[p] = UserContent
      BY <3>2, ContentAssumption DEF Untracked
    <3> QED
      BY <1>1, <3>1, <3>2, <3>3 DEF BackedUp, ApplyTypeOK
  <2> QED
    BY <2>1, <2>2
<1>4. ApplyTypeOK'
  BY <1>1, <1>2, <1>3 DEF ApplyTypeOK, Here, Steps, Places, Preparing
<1>5. DriftInv' /\ QuietInv'
  BY <1>2 DEF DriftInv, QuietInv
<1>6. KeptInv'
  <2>1. \A p : BackedUp(p) => BackedUp(p)'
    BY <1>3 DEF BackedUp
  <2>2. \A p \in wrote \ Excluded : target.files[p] = UserContent \/ BackedUp(p)
    BY <1>1 DEF KeptInv, CapturableWorkSurvives, Survives, BackedUp
  <2>3. \A p \in wrote' \ Excluded : BackedUp(p)'
    BY <1>1, <1>2, <1>3, <2>1, <2>2 DEF ApplyTypeOK
  <2> QED
    BY <2>3 DEF KeptInv, CapturableWorkSurvives, Survives, BackedUp
<1> QED
  BY <1>4, <1>5, <1>6 DEF ApplyInv

LEMMA BeginsOnClone == ASSUME ApplyInv, CloneTarget PROVE ApplyInv'
<1>1. ApplyTypeOK /\ KeptInv /\ target \in Workspace
  BY DEF ApplyInv, ApplyTypeOK
<1>2. /\ pc = "idle" /\ pc' = "plan" /\ place' = "clone" /\ quiet' = TRUE
      /\ clone' = [head |-> target.head,
                   index |-> TreeOf[target.head], files |-> TreeOf[target.head]]
      /\ UNCHANGED <<source, target, backups, wrote>>
  BY DEF CloneTarget, CommandGiven
<1>3. clone' \in Workspace
  BY <1>1, <1>2, TreesOfCommits DEF Workspace
<1>4. ApplyTypeOK'
  BY <1>1, <1>2, <1>3 DEF ApplyTypeOK, Here, Steps, Places, Preparing
<1>5. DriftInv' /\ QuietInv'
  BY <1>2 DEF DriftInv, QuietInv
<1>6. KeptInv'
  BY <1>1, <1>2 DEF KeptInv, CapturableWorkSurvives, Survives
<1> QED
  BY <1>4, <1>5, <1>6 DEF ApplyInv

(* reset_to_clean_worktree: the user's work is in a backup by then. *)
LEMMA ResetKeeps == ASSUME ApplyInv, ResetTarget \/ CleanTarget \/ ConfirmClean PROVE ApplyInv'
<1>1. ApplyTypeOK /\ KeptInv
  BY DEF ApplyInv
<1>2. /\ pc \in Preparing /\ pc' \in {"clean", "status", "plan", "idle"}
      /\ UNCHANGED <<source, clone, place, backups, wrote, quiet>>
  BY DEF ResetTarget, CleanTarget, ConfirmClean, Preparing
<1>3. place = "target" /\ target \in Workspace /\ pc # "idle"
  BY <1>1, <1>2 DEF ApplyTypeOK, Preparing
<1>4. target' \in Workspace
  <2>1. CASE ResetTarget
    <3>1. target' = [target EXCEPT !.index = TreeOf[target.head],
                                   !.files = CheckedOut(target, TreeOf[target.head])]
      BY <2>1 DEF ResetTarget
    <3>2. TreeOf[target.head] \in Tree
      BY <1>3, TreesOfCommits DEF Workspace
    <3>3. CheckedOut(target, TreeOf[target.head]) \in Tree
      <4>1. \A t \in Tree : CheckedOut(target, t) \in Tree
        BY <1>3, CheckedOutFacts
      <4> QED
        BY <3>2, <4>1
    <3>4. \A i, f \in Tree : [target EXCEPT !.index = i, !.files = f] \in Workspace
      BY <1>3, WorkspaceFields
    <3> QED
      BY <3>1, <3>2, <3>3, <3>4
  <2>2. CASE CleanTarget
    <3>1. target' = [target EXCEPT !.files = Cleaned(target)] /\ target.index \in Tree
      BY <1>3, <2>2 DEF CleanTarget, Workspace
    <3>2. Cleaned(target) \in Tree
      BY <1>3, CleanedIsTree
    <3>3. \A f \in Tree : [target EXCEPT !.files = f] \in Workspace
      BY <1>3, <3>1, WorkspaceFields
    <3> QED
      BY <3>1, <3>2, <3>3
  <2>3. CASE ConfirmClean
    BY <1>3, <2>3 DEF ConfirmClean
  <2> QED
    BY <2>1, <2>2, <2>3
<1>5. ApplyTypeOK'
  BY <1>1, <1>2, <1>3, <1>4 DEF ApplyTypeOK, Here, Steps, Places, Preparing
<1>6. DriftInv' /\ QuietInv'
  BY <1>2 DEF DriftInv, QuietInv
<1>7. KeptInv'
  BY <1>1, <1>2, <1>3 DEF KeptInv, CapturableWorkSurvives, Survives, BackedUp
<1> QED
  BY <1>5, <1>6, <1>7 DEF ApplyInv
-----------------------------------------------------------------------------
(* apply_snapshot_inner                                                    *)

LEMMA SnapshotTyped ==
    ASSUME ApplyTypeOK
    PROVE  /\ Snapshot.head = source.head /\ source.head \in Commits
           /\ Snapshot.index = source.index /\ source.index \in Tree
           /\ Snapshot.work \in Tree
BY SnapshotFacts DEF ApplyTypeOK, Snapshot, Snapshots, Workspace

LEMMA PlanKeeps == ASSUME ApplyInv, PlanApply PROVE ApplyInv'
<1>1. /\ pc = "plan" /\ pc' = IF IsClean(Here) THEN "checkout" ELSE "idle"
      /\ UNCHANGED <<source, target, clone, place, backups, wrote, quiet>>
  BY DEF PlanApply
<1>2. Here \in Workspace
  BY <1>1 DEF ApplyInv, ApplyTypeOK
<1>3. pc' \in (Steps \cup {"idle"}) \ Preparing /\ Put(Here)
  BY <1>1 DEF Steps, Preparing, Put, Here
<1>4. Here' = Here /\ (DriftInv' /\ QuietInv' => ApplyInv')
  BY <1>1, <1>2, <1>3, CommandStep
<1>5. pc' = "checkout" => Drifted(Here, TreeOf[Here.head]) /\ IsClean(Here)
  BY <1>1, <1>2, CleanFacts
<1>6. DriftInv' /\ QuietInv'
  BY <1>1, <1>4, <1>5 DEF DriftInv, QuietInv
<1> QED
  BY <1>4, <1>6

LEMMA CheckoutKeeps == ASSUME ApplyInv, CheckoutBase PROVE ApplyInv'
<1> DEFINE w == Checkout(Here, Snapshot.head)
<1>1. /\ pc = "checkout" /\ pc' = "base" /\ Put(w)
      /\ UNCHANGED <<source, place, backups, wrote, quiet>>
  BY DEF CheckoutBase, Step
<1>2. Here \in Workspace /\ Snapshot.head = source.head /\ source.head \in Commits
  BY <1>1, SnapshotTyped DEF ApplyInv, ApplyTypeOK
<1>3. /\ w \in Workspace /\ w.head = source.head
      /\ Drifted(Here, TreeOf[Here.head]) => Drifted(w, TreeOf[source.head])
      /\ IsClean(Here) => IsClean(w)
  BY <1>2, CheckoutFacts, CheckoutDrift
<1> HIDE DEF w
<1>4. Here' = w /\ (DriftInv' /\ QuietInv' => ApplyInv')
  BY <1>1, <1>3, CommandStep DEF Steps, Preparing
<1>5. DriftInv'
  BY <1>1, <1>3, <1>4 DEF ApplyInv, DriftInv
<1>6. QuietInv'
  BY <1>1, <1>3, <1>4 DEF ApplyInv, QuietInv
<1> QED
  BY <1>4, <1>5, <1>6

LEMMA ResetBaseKeeps == ASSUME ApplyInv, ResetBase PROVE ApplyInv'
<1> DEFINE t == TreeOf[source.head]
           f == CheckedOut(Here, t)
           w == [Here EXCEPT !.index = t, !.files = f]
<1>1. Here \in Workspace /\ Snapshot.head = source.head /\ t \in Tree
  BY SnapshotTyped, TreesOfCommits DEF ApplyInv, ApplyTypeOK, ResetBase, Step
<1>2. /\ pc = "base" /\ pc' = "work" /\ Put(w)
      /\ UNCHANGED <<source, place, backups, wrote, quiet>>
  BY <1>1 DEF ResetBase, Step
<1>3. /\ f \in Tree
      /\ UntrackedIsUsers(Here) => \A p \in Paths : f[p] \in {t[p], Absent, UserContent}
      /\ Here.files = Here.index => f = t
  BY <1>1, CheckedOutFacts, CheckedOutDrift
<1> HIDE DEF t, f
<1>4. w \in Workspace /\ w.head = Here.head /\ w.index = t /\ w.files = f
  <2>1. w = [head |-> Here.head, index |-> t, files |-> f] /\ w \in Workspace
    BY <1>1, <1>3, WorkspaceFields
  <2> QED
    BY <2>1
<1> HIDE DEF w
<1>5. Here' = w /\ (DriftInv' /\ QuietInv' => ApplyInv')
  BY <1>2, <1>4, CommandStep DEF Steps, Preparing
<1>6. DriftInv'
  <2>1. UntrackedIsUsers(Here)
    BY <1>2 DEF ApplyInv, DriftInv, Drifted
  <2>2. Drifted(w, t)
    BY <1>3, <1>4, <2>1 DEF Drifted, FilesFrom, UntrackedIsUsers
  <2> QED
    BY <1>2, <1>5, <2>2 DEF DriftInv, t
<1>7. QuietInv'
  <2>1. ASSUME quiet PROVE w.head = source.head /\ w.index = t /\ w.files = t
    BY <1>2, <1>3, <1>4, <2>1 DEF ApplyInv, QuietInv, IsClean
  <2> QED
    BY <1>2, <1>5, <2>1 DEF QuietInv, IsClean, t
<1> QED
  BY <1>5, <1>6, <1>7

LEMMA ReadWorkKeeps == ASSUME ApplyInv, ReadWork PROVE ApplyInv'
<1> DEFINE t == Snapshot.work
           f == CheckedOut(Here, t)
           w == [Here EXCEPT !.index = t, !.files = f]
<1>1. Here \in Workspace /\ t \in Tree
  BY SnapshotTyped DEF ApplyInv, ApplyTypeOK, ReadWork, Step
<1>2. /\ pc = "work" /\ pc' = "index" /\ Put(w)
      /\ UNCHANGED <<source, place, backups, wrote, quiet>>
  BY DEF ReadWork, Step
<1>3. /\ f \in Tree
      /\ UntrackedIsUsers(Here) => \A p \in Paths : f[p] \in {t[p], Absent, UserContent}
      /\ Here.files = Here.index => f = t
  BY <1>1, CheckedOutFacts, CheckedOutDrift
<1> HIDE DEF f
<1>4. w \in Workspace /\ w.head = Here.head /\ w.index = t /\ w.files = f
  <2> HIDE DEF t
  <2>1. w = [head |-> Here.head, index |-> t, files |-> f] /\ w \in Workspace
    BY <1>1, <1>3, WorkspaceFields
  <2> QED
    BY <2>1
<1> HIDE DEF w
<1>5. Here' = w /\ Snapshot' = Snapshot /\ (DriftInv' /\ QuietInv' => ApplyInv')
  BY <1>2, <1>4, CommandStep DEF Steps, Preparing
<1>6. DriftInv'
  <2>1. UntrackedIsUsers(Here)
    BY <1>2 DEF ApplyInv, DriftInv, Drifted
  <2>2. FilesFrom(w, t)
    BY <1>3, <1>4, <2>1 DEF FilesFrom
  <2> QED
    BY <1>2, <1>5, <2>2 DEF DriftInv
<1>7. QuietInv'
  <2>1. ASSUME quiet PROVE w.head = source.head /\ w.index = t /\ w.files = t
    BY <1>2, <1>3, <1>4, <2>1 DEF ApplyInv, QuietInv, IsClean
  <2> QED
    BY <1>2, <1>5, <2>1 DEF QuietInv
<1> QED
  BY <1>5, <1>6, <1>7

LEMMA ReadIndexKeeps == ASSUME ApplyInv, ReadIndex PROVE ApplyInv'
<1> DEFINE w == [Here EXCEPT !.index = source.index]
<1>1. Here \in Workspace /\ source.index \in Tree /\ Snapshot.index = source.index
  BY SnapshotTyped DEF ApplyInv, ApplyTypeOK, ReadIndex, Step
<1>2. /\ pc = "index" /\ pc' = "verify" /\ Put(w)
      /\ UNCHANGED <<source, place, backups, wrote, quiet>>
  BY <1>1 DEF ReadIndex, Step
<1>3. w \in Workspace /\ w.head = Here.head /\ w.index = source.index /\ w.files = Here.files
  <2>1. Here.files \in Tree
    BY <1>1 DEF Workspace
  <2>2. w = [head |-> Here.head, index |-> source.index, files |-> Here.files]
        /\ w \in Workspace
    BY <1>1, <2>1, WorkspaceFields
  <2> QED
    BY <2>2
<1> HIDE DEF w
<1>4. Here' = w /\ Snapshot' = Snapshot /\ (DriftInv' /\ QuietInv' => ApplyInv')
  BY <1>2, <1>3, CommandStep DEF Steps, Preparing
<1>5. DriftInv'
  BY <1>2, <1>3, <1>4 DEF ApplyInv, DriftInv, FilesFrom
<1>6. QuietInv'
  BY <1>2, <1>3, <1>4 DEF ApplyInv, QuietInv
<1> QED
  BY <1>4, <1>5, <1>6

LEMMA VerifyKeeps == ASSUME ApplyInv, Verify \/ RecordAudit PROVE ApplyInv'
<1>1. /\ \/ pc = "verify" /\ pc' = "verified"
         \/ pc = "verified" /\ pc' = "idle"
      /\ Put(Here)
      /\ UNCHANGED <<source, place, backups, wrote, quiet>>
  BY DEF Verify, RecordAudit, Step
<1>2. Here \in Workspace
  BY <1>1 DEF ApplyInv, ApplyTypeOK
<1>3. Here' = Here /\ Snapshot' = Snapshot /\ (DriftInv' /\ QuietInv' => ApplyInv')
  BY <1>1, <1>2, CommandStep DEF Steps, Preparing
<1>4. DriftInv'
  BY <1>1, <1>3 DEF ApplyInv, DriftInv
<1>5. QuietInv'
  BY <1>1, <1>3 DEF ApplyInv, QuietInv
<1> QED
  BY <1>3, <1>4, <1>5

(* Wherever a command stops, it has left a workspace. *)
LEMMA StopsKeeps == ASSUME ApplyInv, Stops PROVE ApplyInv'
<1> DEFINE half == CASE pc = "reset" -> CheckedOut(target, TreeOf[target.head])
                     [] pc = "clean" -> Cleaned(target)
                     [] pc = "checkout" /\ CheckoutAllowed(Here, Snapshot.head)
                                        -> Checkout(Here, Snapshot.head).files
                     [] pc = "base"  -> CheckedOut(Here, TreeOf[Snapshot.head])
                     [] pc = "work"  -> CheckedOut(Here, Snapshot.work)
                     [] OTHER -> Here.files
           partial(written) == [p \in Paths |-> IF p \in written THEN half[p] ELSE Here.files[p]]
<1>1. /\ pc # "idle" /\ pc' = "idle"
      /\ UNCHANGED <<source, place, backups, wrote, quiet>>
  BY DEF Stops
<1>2. PICK written \in SUBSET Paths : Put([Here EXCEPT !.files = partial(written)])
  BY DEF Stops
<1>3. /\ Here \in Workspace /\ target \in Workspace
      /\ Here.files \in Tree /\ target.head \in Commits
      /\ Snapshot.head \in Commits /\ Snapshot.work \in Tree
  BY <1>1, SnapshotTyped DEF ApplyInv, ApplyTypeOK, Workspace
<1>4. /\ CheckedOut(target, TreeOf[target.head]) \in Tree
      /\ CheckedOut(Here, TreeOf[Snapshot.head]) \in Tree
      /\ CheckedOut(Here, Snapshot.work) \in Tree
  <2>1. TreeOf[target.head] \in Tree /\ TreeOf[Snapshot.head] \in Tree
    BY <1>3, TreesOfCommits
  <2>2. \A v \in Workspace, t \in Tree : CheckedOut(v, t) \in Tree
    BY CheckedOutFacts
  <2> QED
    BY <1>3, <2>1, <2>2
<1>5. Cleaned(target) \in Tree /\ Checkout(Here, Snapshot.head).files \in Tree
  BY <1>3, CleanedIsTree, CheckoutFacts DEF Workspace
<1>6. half \in Tree
  BY <1>3, <1>4, <1>5
<1> HIDE DEF half
<1>7. partial(written) \in Tree
  BY <1>3, <1>6 DEF Tree
<1> HIDE DEF partial
<1>8. [Here EXCEPT !.files = partial(written)] \in Workspace
  <2>1. Here.index \in Tree
    BY <1>3 DEF Workspace
  <2> QED
    BY <1>3, <1>7, <2>1, WorkspaceFields
<1>9. DriftInv' /\ QuietInv' => ApplyInv'
  BY <1>1, <1>2, <1>8, CommandStep DEF Preparing
<1>10. DriftInv' /\ QuietInv'
  BY <1>1 DEF DriftInv, QuietInv
<1> QED
  BY <1>9, <1>10
-----------------------------------------------------------------------------
(* The theorems                                                            *)

LEMMA ApplyBegins == Init => ApplyInv
<1> SUFFICES ASSUME Init PROVE ApplyInv
  OBVIOUS
<1>1. PICK c \in Starts : target = [head |-> c, index |-> TreeOf[c], files |-> TreeOf[c]]
  BY DEF Init
<1>2. c \in Commits /\ TreeOf[c] \in Tree /\ source \in Workspace
  BY TreesOfCommits, CommitAssumption DEF Init
<1>3. target \in Workspace
  BY <1>1, <1>2 DEF Workspace
<1>4. ApplyTypeOK
  BY <1>2, <1>3 DEF Init, ApplyTypeOK, Places, Preparing
<1>5. DriftInv /\ QuietInv /\ KeptInv
  BY DEF Init, DriftInv, QuietInv, KeptInv, CapturableWorkSurvives
<1> QED
  BY <1>4, <1>5 DEF ApplyInv

LEMMA ApplyStutters == ASSUME ApplyInv, UNCHANGED vars PROVE ApplyInv'
<1>1. UNCHANGED <<source, target, clone, place, pc, backups, wrote, quiet>>
  BY DEF vars, applyVars
<1>2. Here' = Here /\ Snapshot' = Snapshot
  BY <1>1 DEF Here, Snapshot
<1>3. ApplyTypeOK'
  BY <1>1, <1>2 DEF ApplyInv, ApplyTypeOK
<1>4. DriftInv' /\ QuietInv'
  BY <1>1, <1>2 DEF ApplyInv, DriftInv, QuietInv
<1>5. KeptInv'
  BY <1>1 DEF ApplyInv, KeptInv, CapturableWorkSurvives, Survives, BackedUp
<1> QED
  BY <1>3, <1>4, <1>5 DEF ApplyInv

LEMMA ApplyStep == ApplyInv /\ [Next]_vars => ApplyInv'
<1> SUFFICES ASSUME ApplyInv, [Next]_vars PROVE ApplyInv'
  OBVIOUS
<1>1. CASE UserStep
  BY <1>1, EditsKeep
<1>2. CASE PrepareClean \/ BackupDirtyTarget
  BY <1>2, BeginsOnTarget
<1>3. CASE ResetTarget \/ CleanTarget \/ ConfirmClean
  BY <1>3, ResetKeeps
<1>4. CASE CloneTarget
  BY <1>4, BeginsOnClone
<1>5. CASE PlanApply
  BY <1>5, PlanKeeps
<1>6. CASE CheckoutBase
  BY <1>6, CheckoutKeeps
<1>7. CASE ResetBase
  BY <1>7, ResetBaseKeeps
<1>8. CASE ReadWork
  BY <1>8, ReadWorkKeeps
<1>9. CASE ReadIndex
  BY <1>9, ReadIndexKeeps
<1>10. CASE Verify \/ RecordAudit
  BY <1>10, VerifyKeeps
<1>11. CASE Stops
  BY <1>11, StopsKeeps
<1>12. CASE UNCHANGED vars
  BY <1>12, ApplyStutters
<1> QED
  BY <1>1, <1>2, <1>3, <1>4, <1>5, <1>6, <1>7, <1>8, <1>9, <1>10, <1>11, <1>12
  DEF Next, UserStep

(* The state of an apply stays well formed, wherever it stops and whatever *)
(* the user does meanwhile.                                                *)
THEOREM ApplyTypeCorrect == Spec => []ApplyTypeOK
<1>1. ApplyInv => ApplyTypeOK
  BY DEF ApplyInv
<1> QED
  BY <1>1, ApplyBegins, ApplyStep, PTL DEF Spec

(* The user's work that a snapshot can hold survives every command,         *)
(* wherever it stops, for every history of edits and commands              *)
(* (prepare_apply_target, backup_dirty_target).                            *)
THEOREM CapturableWorkSurvivesAlways == Spec => []CapturableWorkSurvives
<1>1. ApplyInv => CapturableWorkSurvives
  BY DEF ApplyInv, KeptInv
<1> QED
  BY <1>1, ApplyBegins, ApplyStep, PTL DEF Spec

(* What the invariant says at the last step is what verify_snapshot asks. *)
LEMMA UneditedVerifies == ApplyInv => QuietApplyVerifies
<1> SUFFICES ASSUME ApplyInv, quiet, pc = "verify" PROVE VerifySnapshot(Here, Snapshot)
  BY DEF QuietApplyVerifies
<1>1. source \in Workspace /\ Here \in Workspace
  BY DEF ApplyInv, ApplyTypeOK
<1>2. /\ Here.head = source.head /\ Here.index = source.index
      /\ Here.files = Snapshot.work
  BY DEF ApplyInv, QuietInv
<1>3. /\ Snapshot \in Snapshots
      /\ Snapshot.head = source.head /\ Snapshot.index = source.index
      /\ Snapshot.included = Untracked(source) \ Excluded
      /\ Snapshot.excluded = Untracked(source) \cap Excluded
      /\ \A p \in Paths : Snapshot.work[p] =
            IF source.index[p] # Absent \/ p \in Untracked(source) \ Excluded
            THEN source.files[p] ELSE Absent
  BY <1>1, SnapshotFacts DEF Snapshot
<1> HIDE DEF Snapshot
<1>4. Snapshot.work \in Tree /\ Snapshot.included \in SUBSET Paths
  BY <1>3 DEF Snapshots
<1>5. WorkTree(Here, Snapshot.included) = Snapshot.work
  <2>1. \A p \in Paths : WorkTree(Here, Snapshot.included)[p] = Snapshot.work[p]
    BY <1>2, <1>3 DEF WorkTree
  <2> QED
    BY <1>1, <1>4, <2>1, WorkTreeIsTree, SameTree
<1>6. \A p \in Snapshot.included : Here.files[p] # Absent
  BY <1>2, <1>3 DEF Untracked
<1>7. \A p \in Snapshot.excluded : Here.files[p] = Absent
  BY <1>2, <1>3 DEF Untracked
<1> QED
  BY <1>2, <1>3, <1>5, <1>6, <1>7 DEF VerifySnapshot

(* Capture and apply are inverse for every source and every target: what   *)
(* the Git commands of apply_snapshot_inner leave of a target that nobody  *)
(* edits meanwhile is what verify_snapshot asks for.                       *)
THEOREM QuietApplyVerifiesAlways == Spec => []QuietApplyVerifies
BY UneditedVerifies, ApplyBegins, ApplyStep, PTL DEF Spec

(* verify_snapshot accepts only a workspace in the state of the source. *)
LEMMA VerifiedMatches ==
    ASSUME ApplyInv, pc = "verify", VerifySnapshot(Here, Snapshot) PROVE MatchesSource(Here)
<1>1. source \in Workspace /\ Here \in Workspace
  BY DEF ApplyInv, ApplyTypeOK
<1>2. FilesFrom(Here, Snapshot.work)
  BY DEF ApplyInv, DriftInv
<1>3. /\ Snapshot.head = source.head /\ Snapshot.index = source.index
      /\ Snapshot.included = Untracked(source) \ Excluded
      /\ Snapshot.excluded = Untracked(source) \cap Excluded
      /\ \A p \in Paths : Snapshot.work[p] =
            IF source.index[p] # Absent \/ p \in Untracked(source) \ Excluded
            THEN source.files[p] ELSE Absent
  BY <1>1, SnapshotFacts DEF Snapshot
<1> HIDE DEF Snapshot
<1>4. /\ Here.head = source.head /\ Here.index = source.index
      /\ WorkTree(Here, Snapshot.included) = Snapshot.work
      /\ \A p \in Snapshot.excluded : Here.files[p] = Absent
  BY <1>3 DEF VerifySnapshot
<1>5. ASSUME NEW p \in Paths \ Snapshot.excluded
      PROVE  \/ Here.files[p] = source.files[p]
             \/ Here.files[p] = UserContent /\ source.files[p] = Absent
  <2>1. CASE source.index[p] # Absent \/ p \in Snapshot.included
    <3>1. WorkTree(Here, Snapshot.included)[p] = Here.files[p]
      BY <1>4, <2>1 DEF WorkTree
    <3>2. Snapshot.work[p] = source.files[p]
      BY <1>3, <2>1
    <3> QED
      BY <1>4, <3>1, <3>2
  <2>2. CASE source.index[p] = Absent /\ p \notin Snapshot.included
    <3>1. p \notin Untracked(source)
      BY <1>3, <1>5, <2>2
    <3>2. source.files[p] = Absent
      BY <2>2, <3>1 DEF Untracked
    <3>3. Snapshot.work[p] = Absent
      BY <1>3, <2>2, <3>1
    <3> QED
      BY <1>2, <3>2, <3>3 DEF FilesFrom
  <2> QED
    BY <2>1, <2>2
<1> QED
  BY <1>4, <1>5 DEF MatchesSource

(* A verified target is in the state of the source, although its user may  *)
(* have edited it at any moment of the apply: verify_snapshot compares     *)
(* only what the snapshot has, and the rest of the files can only be the   *)
(* user's.                                                                 *)
THEOREM VerifiedMatchesSourceAlways == Spec => VerifiedMatchesSource
<1>1. ApplyInv /\ [Next]_vars => [pc = "verify" /\ pc' = "verified" => MatchesSource(Here)]_vars
  <2> SUFFICES ASSUME ApplyInv, Next, pc = "verify", pc' = "verified"
               PROVE  MatchesSource(Here)
    OBVIOUS
  <2>1. Verify
    BY DEF Next, UserWrites, UserDeletes, UserStages, applyVars, PrepareClean,
       BackupDirtyTarget, CloneTarget, CommandGiven, ResetTarget, CleanTarget, ConfirmClean,
       PlanApply, CheckoutBase, ResetBase, ReadWork, ReadIndex, RecordAudit, Stops, Step
  <2> QED
    BY <2>1, VerifiedMatches DEF Verify
<1> QED
  BY <1>1, ApplyBegins, ApplyStep, PTL DEF Spec, VerifiedMatchesSource

(***************************************************************************)
(* Recoveries                                                              *)
(***************************************************************************)
RecoverySpec == RecoveryInit /\ [][RecoveryNext]_recoveryVars

OpeningRecords ==
    [pc : {"none", "prepare", "clone", "check", "write", "verify", "record", "failed", "register",
           "answer", "answered", "error"},
     path : Directories \cup {"none"}, snapshot : Restorable \cup {"none"}, register : BOOLEAN]
ApplyRows == [path : Directories, snapshot : Restorable, outcome : {"succeeded", "failed"}]

ToldPairs == {pair \in Directories \X Restorable : Told(pair[1], pair[2])}

(* What is registered for good: in the agent's memory while it runs, and in *)
(* the file unless its last save was cut off.                               *)
Kept == {p \in Directories :
            ~reloaded => /\ running => p \in recovered
                         /\ savedHow = "whole" => p \in savedPaths}

(* What a call knows of what was told and kept, at each of its steps.       *)
OpeningOK(op, told, kept) ==
    /\ op \in OpeningRecords
    /\ op.pc \notin {"none", "error"} => op.path \in Directories /\ op.snapshot \in Restorable
    /\ op.pc \in {"register", "answer", "answered"} => <<op.path, op.snapshot>> \in told
    /\ op.pc \in {"answer", "answered"} /\ op.register => op.path \in kept

Registers(op) == op.pc \in {"answer", "answered"} /\ op.register

RecoveryInv ==
    /\ openings \in [Openings -> OpeningRecords]
    /\ applyAudit \in Seq(ApplyRows)
    /\ recovered \cup savedPaths \subseteq Directories
    /\ \A p \in recovered \cup savedPaths : \E s \in Restorable : <<p, s>> \in ToldPairs
    /\ savedHow \in {"whole", "cut", "torn"} /\ running \in BOOLEAN /\ reloaded \in BOOLEAN
    /\ \A o \in Openings : OpeningOK(openings[o], ToldPairs, Kept)
    /\ ~running => \A o \in Openings : openings[o].pc \in {"none", "answered", "error"}
    /\ ~reloaded => \A o1, o2 \in Openings :
          o1 # o2 /\ Registers(openings[o1]) /\ Registers(openings[o2])
              => openings[o1].path # openings[o2].path
----------------------------------------------------------------------------
LEMMA PairsTold ==
    ASSUME NEW p \in Directories, NEW s \in Restorable
    PROVE  <<p, s>> \in ToldPairs <=> Told(p, s)
BY DEF ToldPairs

(* The rows of the registry as they are, and the agent's process too.       *)
LEMMA SameKept == UNCHANGED <<registryRows, agentProcess>> => Kept' = Kept
BY DEF registryRows, agentProcess, Kept

LEMMA SameRows == UNCHANGED applyAudit => ToldPairs' = ToldPairs
BY DEF ToldPairs, Told

(* A row is added to the audit log, and what it tells.                      *)
LEMMA RowTold ==
    ASSUME applyAudit \in Seq(ApplyRows), NEW p \in Directories, NEW s \in Restorable,
           NEW outcome \in {"succeeded", "failed"},
           applyAudit' = Append(applyAudit, [path |-> p, snapshot |-> s, outcome |-> outcome])
    PROVE  /\ applyAudit' \in Seq(ApplyRows)
           /\ ToldPairs \subseteq ToldPairs'
           /\ outcome = "succeeded" => <<p, s>> \in ToldPairs'
<1> DEFINE row == [path |-> p, snapshot |-> s, outcome |-> outcome]
<1>1. row \in ApplyRows /\ row.path = p /\ row.snapshot = s /\ row.outcome = outcome
  BY DEF ApplyRows
<1> HIDE DEF row
<1>2. applyAudit' = Append(applyAudit, row)
  BY DEF row
<1>3. /\ applyAudit' \in Seq(ApplyRows)
      /\ \A i \in DOMAIN applyAudit : i \in DOMAIN applyAudit' /\ applyAudit'[i] = applyAudit[i]
      /\ Len(applyAudit) + 1 \in DOMAIN applyAudit' /\ applyAudit'[Len(applyAudit) + 1] = row
  <2> HIDE DEF ApplyRows
  <2> QED
    BY <1>1, <1>2
<1>4. ASSUME NEW q \in Directories, NEW r \in Restorable, Told(q, r)
      PROVE  Told(q, r)'
  BY <1>3, <1>4 DEF Told
<1>5. outcome = "succeeded" => Told(p, s)'
  BY <1>1, <1>3 DEF Told
<1> QED
  BY <1>3, <1>4, <1>5 DEF ToldPairs

(* One call moves on, the others keep what they know.                       *)
LEMMA OpeningMoves ==
    ASSUME RecoveryInv, NEW o \in Openings, NEW op,
           openings' = [openings EXCEPT ![o] = op],
           applyAudit' \in Seq(ApplyRows), ToldPairs \subseteq ToldPairs',
           running, UNCHANGED agentProcess, Kept \subseteq Kept',
           savedHow' \in {"whole", "cut", "torn"}, recovered' \cup savedPaths' \subseteq Directories,
           \A p \in recovered' \cup savedPaths' : \E s \in Restorable : <<p, s>> \in ToldPairs',
           OpeningOK(op, ToldPairs', Kept'),
           Registers(op) /\ ~reloaded =>
              \/ Registers(openings[o]) /\ op.path = openings[o].path
              \/ op.path \notin Kept
    PROVE  RecoveryInv'
<1>1. /\ op \in OpeningRecords /\ openings' \in [Openings -> OpeningRecords]
      /\ \A x \in Openings : openings'[x] = IF x = o THEN op ELSE openings[x]
  BY DEF RecoveryInv, OpeningOK
<1>2. ASSUME NEW x \in Openings
      PROVE  OpeningOK(openings'[x], ToldPairs', Kept')
  <2>1. OpeningOK(openings[x], ToldPairs, Kept)
    BY DEF RecoveryInv
  <2> QED
    BY <1>1, <2>1 DEF OpeningOK
<1>3. \A x \in Openings : Registers(openings[x]) => openings[x].path \in Kept
  BY DEF RecoveryInv, OpeningOK, Registers
<1>4. ASSUME ~reloaded, NEW o1 \in Openings, NEW o2 \in Openings, o1 # o2,
             Registers(openings'[o1]), Registers(openings'[o2])
      PROVE  openings'[o1].path # openings'[o2].path
  <2>1. ~reloaded => \A x, y \in Openings :
            x # y /\ Registers(openings[x]) /\ Registers(openings[y]) => openings[x].path # openings[y].path
    BY DEF RecoveryInv
  <2> QED
    BY <1>1, <1>3, <1>4, <2>1
<1>5. UNCHANGED <<running, reloaded>>
  BY DEF agentProcess
<1>6. /\ running' \in BOOLEAN /\ reloaded' \in BOOLEAN
      /\ ~reloaded' => \A o1, o2 \in Openings :
            o1 # o2 /\ Registers(openings'[o1]) /\ Registers(openings'[o2])
                => openings'[o1].path # openings'[o2].path
  BY <1>4, <1>5 DEF RecoveryInv
<1> QED
  BY <1>1, <1>2, <1>5, <1>6 DEF RecoveryInv

(* A call goes on at its directory, and tells and registers nothing new.    *)
LEMMA OpeningGoesOn ==
    ASSUME RecoveryInv, NEW o \in Openings,
           NEW next \in {"prepare", "clone", "check", "write", "verify", "record", "failed",
                       "answered", "error"},
           OpeningGoes(o, next),
           next # "error" => openings[o].pc \notin {"none", "error"},
           next = "answered" => openings[o].pc = "answer",
           applyAudit' \in Seq(ApplyRows), ToldPairs \subseteq ToldPairs',
           running, UNCHANGED agentProcess, Kept \subseteq Kept',
           savedHow' \in {"whole", "cut", "torn"}, recovered' \cup savedPaths' \subseteq Directories,
           \A p \in recovered' \cup savedPaths' : \E s \in Restorable : <<p, s>> \in ToldPairs'
    PROVE  RecoveryInv'
<1> DEFINE op == [openings[o] EXCEPT !.pc = next]
<1>1. OpeningOK(openings[o], ToldPairs, Kept) /\ openings' = [openings EXCEPT ![o] = op]
  BY DEF RecoveryInv, OpeningGoes
<1>2. /\ op \in OpeningRecords /\ op.pc = next /\ op.path = openings[o].path
      /\ op.snapshot = openings[o].snapshot /\ op.register = openings[o].register
  BY <1>1 DEF OpeningOK, OpeningRecords
<1> HIDE DEF op
<1>3. OpeningOK(op, ToldPairs', Kept')
  BY <1>1, <1>2 DEF OpeningOK
<1>4. Registers(op) => Registers(openings[o])
  BY <1>2 DEF Registers
<1> QED
  BY <1>1, <1>2, <1>3, <1>4, OpeningMoves

LEMMA QuietOpeningsKeep ==
    ASSUME RecoveryInv, NEW o \in Openings,
           \/ PrepareRecovery(o) \/ CloneEnds(o) \/ CheckTarget(o) \/ WriteTarget(o)
           \/ VerifyTarget(o) \/ AnswerRecovery(o)
    PROVE  RecoveryInv'
<1>1. /\ UNCHANGED <<registryRows, agentProcess, applyAudit>>
      /\ openings[o].pc \in {"prepare", "clone", "check", "write", "verify", "answer"}
  BY DEF PrepareRecovery, CloneEnds, CheckTarget, WriteTarget, VerifyTarget, AnswerRecovery, OpeningAt
<1>2. PICK next \in {"prepare", "clone", "check", "write", "verify", "record", "failed", "answered",
                   "error"} :
        OpeningGoes(o, next) /\ (next = "answered" => openings[o].pc = "answer")
  <2>1. CASE CheckTarget(o)
    BY <2>1 DEF CheckTarget, OpeningGoes
  <2>2. CASE PrepareRecovery(o) \/ CloneEnds(o) \/ WriteTarget(o) \/ VerifyTarget(o)
    BY <2>2 DEF PrepareRecovery, CloneEnds, WriteTarget, VerifyTarget
  <2>3. CASE AnswerRecovery(o)
    BY <2>3 DEF AnswerRecovery, OpeningAt
  <2> QED
    BY <2>1, <2>2, <2>3
<1>3. ToldPairs' = ToldPairs
  BY <1>1, SameRows
<1>4. /\ applyAudit' \in Seq(ApplyRows) /\ running /\ Kept' = Kept
      /\ savedHow' \in {"whole", "cut", "torn"} /\ recovered' \cup savedPaths' \subseteq Directories
      /\ \A p \in recovered' \cup savedPaths' : \E s \in Restorable : <<p, s>> \in ToldPairs'
  BY <1>1, <1>3, SameKept DEF RecoveryInv, registryRows
<1> QED
  BY <1>1, <1>2, <1>3, <1>4, OpeningGoesOn

LEMMA OpensKeeps ==
    ASSUME RecoveryInv, NEW o \in Openings, NEW p \in Directories, NEW s \in Restorable,
           NEW register \in BOOLEAN, OpenRecovery(o, p, s, register)
    PROVE  RecoveryInv'
<1>1. UNCHANGED <<registryRows, agentProcess, applyAudit>> /\ openings[o].pc = "none" /\ running
  BY DEF OpenRecovery, OpeningAt
<1>2. ToldPairs' = ToldPairs
  BY <1>1, SameRows
<1>3. /\ applyAudit' \in Seq(ApplyRows) /\ Kept' = Kept
      /\ savedHow' \in {"whole", "cut", "torn"} /\ recovered' \cup savedPaths' \subseteq Directories
      /\ \A q \in recovered' \cup savedPaths' : \E r \in Restorable : <<q, r>> \in ToldPairs'
  BY <1>1, <1>2, SameKept DEF RecoveryInv, registryRows
<1>4. CASE OpeningGoes(o, "error")
  BY <1>1, <1>2, <1>3, <1>4, OpeningGoesOn
<1> DEFINE op == [pc |-> "prepare", path |-> p, snapshot |-> s, register |-> register]
<1>5. CASE openings' = [openings EXCEPT ![o] = op]
  <2>1. op \in OpeningRecords /\ op.pc = "prepare" /\ op.path = p /\ op.snapshot = s
    BY DEF OpeningRecords
  <2> HIDE DEF op
  <2>2. OpeningOK(op, ToldPairs', Kept') /\ ~Registers(op)
    BY <2>1 DEF OpeningOK, Registers
  <2> QED
    BY <1>1, <1>2, <1>3, <1>5, <2>2, OpeningMoves
<1> QED
  BY <1>4, <1>5 DEF OpenRecovery

LEMMA RecordsKeep ==
    ASSUME RecoveryInv, NEW o \in Openings, RecordApply(o) \/ RecordFailedApply(o)
    PROVE  RecoveryInv'
<1>1. PICK p \in Directories, s \in Restorable :
        p = openings[o].path /\ s = openings[o].snapshot
  <2>1. openings[o].pc \in {"record", "failed"}
    BY DEF RecordApply, RecordFailedApply, OpeningAt
  <2> QED
    BY <2>1 DEF RecoveryInv, OpeningOK
<1>2. /\ UNCHANGED <<registryRows, agentProcess>> /\ openings[o].pc \in {"record", "failed"}
      /\ OpeningOK(openings[o], ToldPairs, Kept) /\ applyAudit \in Seq(ApplyRows)
  BY DEF RecordApply, RecordFailedApply, OpeningAt, RecoveryInv
<1>3. ASSUME applyAudit' \in Seq(ApplyRows), ToldPairs \subseteq ToldPairs'
      PROVE  \A q \in recovered' \cup savedPaths' : \E r \in Restorable : <<q, r>> \in ToldPairs'
  BY <1>2, <1>3 DEF RecoveryInv, registryRows
<1>4. /\ running /\ Kept' = Kept
      /\ savedHow' \in {"whole", "cut", "torn"} /\ recovered' \cup savedPaths' \subseteq Directories
  BY <1>2, SameKept DEF RecoveryInv, registryRows
<1>5. CASE OpeningGoes(o, "error")
  <2>1. \/ UNCHANGED applyAudit
        \/ applyAudit' = Append(applyAudit, [path |-> p, snapshot |-> s, outcome |-> "failed"])
    <3>1. CASE RecordFailedApply(o)
      BY <1>1, <3>1 DEF RecordFailedApply, AuditRow
    <3>2. CASE RecordApply(o)
      <4>1. openings'[o].pc = "error"
        BY <1>5 DEF OpeningGoes, RecoveryInv
      <4>2. ASSUME NEW next \in {"register", "answer"}, OpeningGoes(o, next)
            PROVE  FALSE
        BY <4>1, <4>2 DEF OpeningGoes, RecoveryInv
      <4> QED
        BY <3>2, <4>2 DEF RecordApply
    <3> QED
      BY <3>1, <3>2
  <2>2. applyAudit' \in Seq(ApplyRows) /\ ToldPairs \subseteq ToldPairs'
    BY <1>2, <2>1, SameRows, RowTold
  <2> QED
    BY <1>2, <1>3, <1>4, <1>5, <2>2, OpeningGoesOn
<1>6. CASE ~OpeningGoes(o, "error")
  <2> DEFINE next == IF openings[o].register THEN "register" ELSE "answer"
             op == [openings[o] EXCEPT !.pc = next]
  <2>1. /\ applyAudit' = Append(applyAudit, [path |-> p, snapshot |-> s, outcome |-> "succeeded"])
        /\ openings' = [openings EXCEPT ![o] = op]
    BY <1>1, <1>6 DEF RecordApply, RecordFailedApply, AuditRow, OpeningGoes, RecoveryInv
  <2>2. /\ applyAudit' \in Seq(ApplyRows) /\ ToldPairs \subseteq ToldPairs'
        /\ <<p, s>> \in ToldPairs'
    BY <1>2, <2>1, RowTold
  <2>3. /\ op \in OpeningRecords /\ op.pc = next /\ op.path = p /\ op.snapshot = s
        /\ op.register = openings[o].register
    BY <1>1, <1>2 DEF OpeningOK, OpeningRecords
  <2>4. next \in {"register", "answer"} /\ (next = "answer" => ~openings[o].register)
    OBVIOUS
  <2> HIDE DEF op, next
  <2>5. OpeningOK(op, ToldPairs', Kept') /\ ~Registers(op)
    BY <2>2, <2>3, <2>4 DEF OpeningOK, Registers
  <2> QED
    BY <1>2, <1>3, <1>4, <2>1, <2>2, <2>5, OpeningMoves
<1> QED
  BY <1>5, <1>6

(* What a save of the rows in memory leaves of them.                        *)
LEMMA SavePathsOps ==
    ASSUME RecoveryInv, running, NEW paths, NEW saved \in BOOLEAN, SavePaths(paths, saved)
    PROVE  /\ savedHow' \in {"whole", "cut", "torn"}
           /\ savedPaths' \subseteq savedPaths \cup paths
           /\ savedHow' = "whole" => savedPaths' = paths \/ UNCHANGED <<savedPaths, savedHow>>
           /\ saved => savedPaths' = paths
BY DEF SavePaths, RecoveryInv

(* Only a directory that no recovery has registered is registered.          *)
LEMMA RegistersKeep ==
    ASSUME RecoveryInv, NEW o \in Openings, RegisterRecovery(o)
    PROVE  RecoveryInv'
<1>1. /\ openings[o].pc = "register" /\ UNCHANGED <<applyAudit, agentProcess>>
      /\ OpeningOK(openings[o], ToldPairs, Kept) /\ running
  BY DEF RegisterRecovery, OpeningAt, RecoveryInv
<1>2. PICK p \in Directories, s \in Restorable :
        p = openings[o].path /\ s = openings[o].snapshot /\ <<p, s>> \in ToldPairs
  BY <1>1 DEF OpeningOK
<1>3. ToldPairs' = ToldPairs /\ applyAudit' \in Seq(ApplyRows)
  BY <1>1, SameRows DEF RecoveryInv
<1>4. CASE p \in recovered
  <2>1. OpeningGoes(o, "error") /\ UNCHANGED registryRows
    BY <1>2, <1>4 DEF RegisterRecovery
  <2>2. /\ Kept' = Kept /\ savedHow' \in {"whole", "cut", "torn"}
        /\ recovered' \cup savedPaths' \subseteq Directories
        /\ \A q \in recovered' \cup savedPaths' : \E r \in Restorable : <<q, r>> \in ToldPairs'
    BY <1>1, <1>3, <2>1, SameKept DEF RecoveryInv, registryRows
  <2> QED
    BY <1>1, <1>3, <2>1, <2>2, OpeningGoesOn
<1>5. CASE p \notin recovered
  <2>1. PICK saved \in BOOLEAN :
          /\ recovered' = recovered \cup {p} /\ SavePaths(recovered', saved)
          /\ OpeningGoes(o, IF saved THEN "answer" ELSE "error")
    BY <1>2, <1>5 DEF RegisterRecovery
  <2>2. /\ savedHow' \in {"whole", "cut", "torn"}
        /\ savedPaths' \subseteq savedPaths \cup recovered'
        /\ savedHow' = "whole" => savedPaths' = recovered' \/ UNCHANGED <<savedPaths, savedHow>>
        /\ saved => savedPaths' = recovered'
    BY <1>1, <2>1, SavePathsOps
  <2>3. /\ recovered' \cup savedPaths' \subseteq Directories
        /\ \A q \in recovered' \cup savedPaths' : \E r \in Restorable : <<q, r>> \in ToldPairs'
    <3>1. recovered' \cup savedPaths' \subseteq recovered \cup savedPaths \cup {p}
      BY <2>1, <2>2
    <3> QED
      BY <1>2, <1>3, <3>1 DEF RecoveryInv
  <2>4. Kept \subseteq Kept' /\ (saved => p \in Kept') /\ (~reloaded => p \notin Kept)
    BY <1>1, <1>5, <2>1, <2>2 DEF Kept, agentProcess
  <2>5. CASE saved
    <3> DEFINE op == [openings[o] EXCEPT !.pc = "answer"]
    <3>1. openings' = [openings EXCEPT ![o] = op]
      BY <2>1, <2>5 DEF OpeningGoes
    <3>2. op \in OpeningRecords /\ op.pc = "answer" /\ op.path = p /\ op.snapshot = s
      BY <1>1, <1>2 DEF OpeningOK, OpeningRecords
    <3> HIDE DEF op
    <3>3. OpeningOK(op, ToldPairs', Kept')
      BY <1>2, <1>3, <2>4, <2>5, <3>2 DEF OpeningOK
    <3> QED
      BY <1>1, <1>3, <2>2, <2>3, <2>4, <3>1, <3>2, <3>3, OpeningMoves
  <2>6. CASE ~saved
    BY <1>1, <1>3, <2>1, <2>2, <2>3, <2>4, <2>6, OpeningGoesOn
  <2> QED
    BY <2>5, <2>6
<1> QED
  BY <1>4, <1>5

LEMMA AgentEndKeeps ==
    ASSUME RecoveryInv, RecoveryAgentEnds
    PROVE  RecoveryInv'
<1> DEFINE cut(op) == IF op.pc \in {"none", "answered", "error"} THEN op
                      ELSE [op EXCEPT !.pc = "error"]
<1>1. /\ openings' = [o \in Openings |-> cut(openings[o])]
      /\ recovered' = {} /\ running' = FALSE
      /\ UNCHANGED <<savedPaths, savedHow, applyAudit, reloaded>>
  BY DEF RecoveryAgentEnds
<1>2. ASSUME NEW o \in Openings
      PROVE  /\ OpeningOK(cut(openings[o]), ToldPairs, Kept)
             /\ cut(openings[o]).pc \in {"none", "answered", "error"}
             /\ Registers(cut(openings[o])) => Registers(openings[o])
             /\ cut(openings[o]).path = openings[o].path
  <2>1. OpeningOK(openings[o], ToldPairs, Kept)
    BY DEF RecoveryInv
  <2>2. CASE openings[o].pc \in {"none", "answered", "error"}
    BY <2>1, <2>2
  <2>3. CASE openings[o].pc \notin {"none", "answered", "error"}
    <3> DEFINE op == [openings[o] EXCEPT !.pc = "error"]
    <3>1. cut(openings[o]) = op
      BY <2>3
    <3>2. op \in OpeningRecords /\ op.pc = "error" /\ op.path = openings[o].path
      BY <2>1 DEF OpeningOK, OpeningRecords
    <3> HIDE DEF op
    <3> QED
      BY <3>1, <3>2 DEF OpeningOK, Registers
  <2> QED
    BY <2>2, <2>3
<1> HIDE DEF cut
<1>3. \A o \in Openings : openings'[o] = cut(openings[o])
  BY <1>1
<1>4. openings' \in [Openings -> OpeningRecords]
  BY <1>1, <1>2 DEF OpeningOK
<1>5. ToldPairs' = ToldPairs /\ Kept \subseteq Kept'
  BY <1>1, SameRows DEF Kept, RecoveryInv
<1>6. ~reloaded => \A o1, o2 \in Openings :
          o1 # o2 /\ Registers(openings'[o1]) /\ Registers(openings'[o2])
              => openings'[o1].path # openings'[o2].path
  BY <1>2, <1>3 DEF RecoveryInv
<1>7. \A o \in Openings : OpeningOK(openings'[o], ToldPairs', Kept')
  BY <1>2, <1>3, <1>5 DEF OpeningOK
<1>8. \A p \in savedPaths : \E s \in Restorable : <<p, s>> \in ToldPairs'
  BY <1>5 DEF RecoveryInv
<1>9. \A o \in Openings : openings'[o].pc \in {"none", "answered", "error"}
  BY <1>2, <1>3
<1> QED
  BY <1>1, <1>4, <1>6, <1>7, <1>8, <1>9 DEF RecoveryInv

LEMMA AgentStartKeeps ==
    ASSUME RecoveryInv, RecoveryAgentStarts
    PROVE  RecoveryInv'
<1>1. PICK saved \in BOOLEAN :
        /\ SavePaths(savedPaths, saved) /\ running' = saved
        /\ recovered' = IF saved THEN savedPaths ELSE {}
  BY DEF RecoveryAgentStarts
<1>2. /\ ~running /\ reloaded' = (reloaded \/ savedHow # "whole")
      /\ UNCHANGED <<applyAudit, openings>>
  BY DEF RecoveryAgentStarts
<1>3. /\ savedHow' \in {"whole", "cut", "torn"} /\ savedPaths' \subseteq savedPaths
      /\ savedHow' = "whole" /\ savedHow = "whole" => savedPaths' = savedPaths
  BY <1>1 DEF SavePaths, RecoveryInv
<1>4. ToldPairs' = ToldPairs
  BY <1>2, SameRows
<1>5. Kept \subseteq Kept'
  BY <1>1, <1>2, <1>3 DEF Kept
<1>6. \A o \in Openings : OpeningOK(openings'[o], ToldPairs', Kept')
  BY <1>2, <1>4, <1>5 DEF RecoveryInv, OpeningOK
<1>7. \A p \in recovered' \cup savedPaths' : \E s \in Restorable : <<p, s>> \in ToldPairs'
  BY <1>1, <1>3, <1>4 DEF RecoveryInv
<1>8. recovered' \cup savedPaths' \subseteq Directories
  BY <1>1, <1>3 DEF RecoveryInv
<1> QED
  BY <1>1, <1>2, <1>3, <1>6, <1>7, <1>8 DEF RecoveryInv
----------------------------------------------------------------------------
LEMMA RecoveryInitInv == RecoveryInit => RecoveryInv
<1> SUFFICES ASSUME RecoveryInit PROVE RecoveryInv
  OBVIOUS
<1>1. /\ openings = [o \in Openings |-> NotOpened] /\ applyAudit = <<>>
      /\ recovered = {} /\ savedPaths = {} /\ savedHow = "whole"
      /\ running = TRUE /\ reloaded = FALSE
  BY DEF RecoveryInit
<1>2. NotOpened \in OpeningRecords /\ NotOpened.pc = "none"
  BY DEF NotOpened, OpeningRecords
<1>3. applyAudit \in Seq(ApplyRows)
  BY <1>1
<1>4. \A o \in Openings : OpeningOK(openings[o], ToldPairs, Kept) /\ ~Registers(openings[o])
  BY <1>1, <1>2 DEF OpeningOK, Registers
<1>5. openings \in [Openings -> OpeningRecords]
  BY <1>1, <1>2
<1> QED
  BY <1>1, <1>3, <1>4, <1>5 DEF RecoveryInv

LEMMA RecoveryStep == RecoveryInv /\ [RecoveryNext]_recoveryVars => RecoveryInv'
<1> SUFFICES ASSUME RecoveryInv, [RecoveryNext]_recoveryVars PROVE RecoveryInv'
  OBVIOUS
<1>1. CASE RecoveryAgentEnds \/ RecoveryAgentStarts
  BY <1>1, AgentEndKeeps, AgentStartKeeps
<1>2. ASSUME NEW o \in Openings, NEW p \in Directories, NEW s \in Restorable,
             NEW register \in BOOLEAN, OpenRecovery(o, p, s, register)
      PROVE  RecoveryInv'
  BY <1>2, OpensKeeps
<1>3. ASSUME NEW o \in Openings,
             \/ PrepareRecovery(o) \/ CloneEnds(o) \/ CheckTarget(o) \/ WriteTarget(o)
             \/ VerifyTarget(o) \/ AnswerRecovery(o)
      PROVE  RecoveryInv'
  BY <1>3, QuietOpeningsKeep
<1>4. ASSUME NEW o \in Openings, RecordApply(o) \/ RecordFailedApply(o)
      PROVE  RecoveryInv'
  BY <1>4, RecordsKeep
<1>5. ASSUME NEW o \in Openings, RegisterRecovery(o)
      PROVE  RecoveryInv'
  BY <1>5, RegistersKeep
<1>6. CASE UNCHANGED recoveryVars
  <2>1. UNCHANGED <<registryRows, agentProcess, applyAudit, openings>> /\ ToldPairs' = ToldPairs
    BY <1>6, SameRows DEF recoveryVars
  <2> QED
    BY <2>1, SameKept DEF RecoveryInv, registryRows, agentProcess
<1> QED
  BY <1>1, <1>2, <1>3, <1>4, <1>5, <1>6 DEF RecoveryNext

(* An answer of a recovery is true, wherever other calls and the agent's     *)
(* end get between its steps; what it registered stays, as long as no save   *)
(* that was cut off is loaded.                                               *)
THEOREM RecoveriesAreTrueAlways == RecoverySpec => []RecoveriesAreTrue
<1>1. RecoveryInv => RecoveriesAreTrue
  <2> SUFFICES ASSUME RecoveryInv PROVE RecoveriesAreTrue
    OBVIOUS
  <2>1. \A p, s : <<p, s>> \in ToldPairs => Told(p, s)
    BY DEF ToldPairs
  <2>2. ASSUME NEW o \in Openings, OpeningAt(o, "answered")
        PROVE  /\ Told(openings[o].path, openings[o].snapshot)
               /\ openings[o].register => openings[o].path \in Kept
    <3>1. OpeningOK(openings[o], ToldPairs, Kept) /\ openings[o].pc = "answered"
      BY <2>2 DEF RecoveryInv, OpeningAt
    <3> QED
      BY <2>1, <3>1 DEF OpeningOK
  <2>3. ~reloaded => \A o1 \in Openings : \A o2 \in Openings \ {o1} :
          RegisteredBy(o1) /\ RegisteredBy(o2) => openings[o2].path # openings[o1].path
    BY DEF RecoveryInv, Registers, RegisteredBy, OpeningAt
  <2>4. \A p \in recovered \cup savedPaths : \E s \in Restorable : Told(p, s)
    BY <2>1 DEF RecoveryInv
  <2>5. ~reloaded => \A o \in Openings : RegisteredBy(o) =>
          /\ running => openings[o].path \in recovered
          /\ savedHow = "whole" => openings[o].path \in savedPaths
    BY <2>2 DEF RegisteredBy, Kept
  <2> QED
    BY <2>2, <2>3, <2>4, <2>5 DEF RecoveriesAreTrue
<1> QED
  BY <1>1, RecoveryInitInv, RecoveryStep, PTL DEF RecoverySpec
=============================================================================
