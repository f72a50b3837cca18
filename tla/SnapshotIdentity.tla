--------------------------- MODULE SnapshotIdentity ---------------------------
(***************************************************************************)
(* A capture of a workspace command by command, while its user goes on     *)
(* with it, and how checkpoint_if_changed decides whether the store        *)
(* already has what it found (crates/devrelay-core/src/snapshot.rs,        *)
(* snapshot_store.rs).  A capture reads the status once, and after it the  *)
(* index, the index again, the tracked files and the untracked ones: it    *)
(* may find parts of different moments.  Any of its commands may fail.     *)
(*                                                                         *)
(* A commit is named by its tree, and a tree gives every path a content or *)
(* Absent.  Trees stand for object ids, so equal trees are equal ids.      *)
(*                                                                         *)
(* The state hash (snapshot_schema.rs) is BLAKE3 over a sequence of texts, *)
(* each with an end mark; two sequences that differ have different hashes. *)
(* The lists that are sorted before they are hashed are sets here.         *)
(***************************************************************************)
EXTENDS Naturals, Sequences, SequencesExt, TLC

CONSTANTS
    Nothing,      \* Option::None
    Outside,      \* paths that are not relative to the repository
    Files,        \* paths of the repository
    Excludes,     \* paths that classify_untracked_paths excludes by their name
    Bodies,       \* contents of files
    Absent,       \* no such file
    Branches,     \* local branches
    Initial,      \* status.head_oid before the first commit
    Starts,       \* workspaces as they may be at first
    ProjectId,    \* the project of the manifest and of the store
    Earlier,      \* metadata that other callers have given to the store
    MaxUserMoves  \* bound on what the user does

Detached == Nothing    \* status.branch of a detached head

Tree == [Files -> Bodies \cup {Absent}]
EmptyTree == [f \in Files |-> Absent]
Operations == {"none", "staged", "conflict"}

ASSUME FilesAssumption == Excludes \subseteq Files /\ Absent \notin Bodies
ASSUME BranchAssumption == Detached \notin Branches /\ Initial \notin Tree
ASSUME BoundAssumption == MaxUserMoves \in Nat

VARIABLES
    work,       \* the workspace: branch, head, index, files, unfinished operation
    capture,    \* what the running capture has found
    latest,     \* the newest snapshot of the store, if it has one
    answer,     \* what the last checkpoint_if_changed has returned
    quiet,      \* the user has done nothing since the capture began
    userMoves   \* how often the user has done something

identityVars == <<work, capture, latest, answer, quiet, userMoves>>

Workspace == [branch : Branches \cup {Detached}, head : Tree \cup {Initial}, index : Tree,
              files : Tree, operation : Operations]

ASSUME StartAssumption == Starts \subseteq Workspace

-----------------------------------------------------------------------------
(* The state hash: its texts, in the order of the code                     *)

\* An optional field, and one per member of a list: a label before the texts.
IfSome(label, value) == IF value = Nothing THEN <<>> ELSE <<label, value>>
ForEach(list, Texts(_)) == FlattenSeq([i \in DOMAIN list |-> Texts(list[i])])
ForAll(set, Texts(_)) == ForEach(SetToSeq(set), Texts)

\* Mutant: the commands that are done follow those to do without a label.
ProgressWithoutLabels(progress) ==
    IF progress = Nothing THEN <<>>
    ELSE <<"operation-progress", ToString(progress.interactive)>>
         \o IfSome("progress-onto", progress.onto) \o progress.todo \o progress.done

ProgressTexts(progress) ==
    IF progress = Nothing THEN <<>>
    ELSE <<"operation-progress", ToString(progress.interactive)>>
         \o IfSome("progress-original-head", progress.original)
         \o IfSome("progress-onto", progress.onto)
         \o IfSome("progress-head-name", progress.headName)
         \o ForEach(progress.todo, LAMBDA line : <<"progress-todo", line>>)
         \o ForEach(progress.done, LAMBDA line : <<"progress-done", line>>)
         \o (IF progress.step = Nothing THEN <<>>
             ELSE <<"progress-current-step">>
                  \o IfSome("current", progress.step.current) \o IfSome("total", progress.step.total))

\* update_operation_capsule_hash
CapsuleTexts(capsule) ==
    IF capsule = Nothing THEN <<>>
    ELSE <<"operation-capsule", capsule.kind, capsule.current>>
         \o ForEach(capsule.oids, LAMBDA oid : <<"operation-oid", oid>>)
         \o IfSome("original-head", capsule.original)
         \o ProgressTexts(capsule.progress)
         \o ForEach(capsule.unmerged,
                    LAMBDA e : <<"unmerged-entry", e.path>>
                               \o ForEach(e.stages, LAMBDA s : <<"stage", ToString(s.stage), s.mode, s.oid>>))
         \o ForEach(capsule.files, LAMBDA f : <<"conflict-worktree-file", f.path, f.contents>>)

SidecarTexts(s) ==
    <<"sidecar", s.path, s.mode, s.classification, ToString(s.size), ToString(s.chunk), s.root, s.manifest>>
ChildTexts(c) ==
    <<"child-snapshot", c.relationship, c.path, c.project, c.session, c.snapshot, c.hash>>

\* Mutant: the index is not hashed, as the files say what there is.
HashOfFiles(m) ==
    <<"devrelay.state.v1", m.project, m.head, m.work>> \o CapsuleTexts(m.capsule)
    \o ForAll(m.included, LAMBDA path : <<"included", path>>)
    \o ForAll(m.excluded, LAMBDA e : <<"excluded", e.path, e.reason>>)
    \o ForAll(m.sidecars, SidecarTexts) \o ForAll(m.children, ChildTexts)

\* calculate_state_hash: neither the branch nor the session, the device, the
\* ids, the counts of the status or the decision of a path is in it.
StateHash(m) ==
    <<"devrelay.state.v1", m.project, m.head, m.index, m.work>> \o CapsuleTexts(m.capsule)
    \o ForAll(m.included, LAMBDA path : <<"included", path>>)
    \o ForAll(m.excluded, LAMBDA e : <<"excluded", e.path, e.reason>>)
    \o ForAll(m.sidecars, SidecarTexts) \o ForAll(m.children, ChildTexts)

-----------------------------------------------------------------------------
(* Validation of metadata                                                  *)

Relative(path) == path \notin Outside

Given(texts) == "" \notin texts

ValidSidecar(s) ==
    /\ Given({s.path, s.mode, s.classification, s.root, s.manifest})
    /\ Relative(s.path)
    /\ s.size > 0 /\ s.chunk > 0
    /\ s.root = s.manifest

ValidChild(c) ==
    /\ Given({c.relationship, c.path, c.project, c.session, c.snapshot, c.hash})
    /\ Relative(c.path)

\* SnapshotMetadata::validate, of metadata of this schema with object ids.
Validate(m) ==
    /\ Given({m.project})
    /\ \A s \in m.sidecars : ValidSidecar(s)
    /\ \A c \in m.children : ValidChild(c)

-----------------------------------------------------------------------------
(* git status                                                              *)

Untracked(w) == {f \in Files : w.index[f] = Absent /\ w.files[f] # Absent}
HeadTree(w) == IF w.head = Initial THEN EmptyTree ELSE w.head

\* parse_status_porcelain_v2
Status(w) == [branch |-> w.branch, head |-> w.head, untracked |-> Untracked(w),
              unmerged |-> w.operation = "conflict"]

IsInitial(status) == status.head = Initial

\* unsupported_operation_state looks for the files that Git keeps of an
\* operation, ensure_status_supports_checkpoint at the status read before.
UnsupportedOperation(w) == w.operation # "none"
StatusSupported(status) == ~IsInitial(status) /\ ~status.unmerged

-----------------------------------------------------------------------------
(* The user                                                                *)

UserDoes(to) ==
    /\ userMoves < MaxUserMoves
    /\ to # work
    /\ work' = to
    /\ userMoves' = userMoves + 1
    /\ quiet' = FALSE
    /\ UNCHANGED <<latest, answer>>

\* The capture knows which of the user's steps change the index under it.
IndexUntouched == UNCHANGED capture
IndexTouched == capture' = [capture EXCEPT !.torn = @ \/ capture.pc # "idle"]

EditFile(f, body) == UserDoes([work EXCEPT !.files[f] = body]) /\ IndexUntouched
RemoveCached(f) == UserDoes([work EXCEPT !.index[f] = Absent]) /\ IndexTouched

\* To add the last file with conflicts resolves them.
AddFile(f) ==
    /\ \/ UserDoes([work EXCEPT !.index[f] = work.files[f]])
       \/ /\ work.operation = "conflict"
          /\ UserDoes([work EXCEPT !.index[f] = work.files[f], !.operation = "staged"])
    /\ IndexTouched

Commit ==
    /\ work.operation # "conflict"
    /\ UserDoes([work EXCEPT !.head = work.index, !.operation = "none"])
    /\ IndexUntouched
SwitchBranch(b) ==
    /\ work.head # Initial /\ work.operation = "none"
    /\ UserDoes([work EXCEPT !.branch = b])
    /\ IndexUntouched

\* A merge needs an index that is as the commit; to abort it takes back what
\* is staged, unless the files have changed since.
Staged == {f \in Files : work.index[f] # HeadTree(work)[f]}
BeginOperation ==
    /\ work.head = work.index /\ work.operation = "none"
    /\ \E operation \in {"staged", "conflict"} : UserDoes([work EXCEPT !.operation = operation])
    /\ IndexTouched
AbortOperation ==
    /\ work.operation # "none"
    /\ \A f \in Staged : work.files[f] = work.index[f]
    /\ UserDoes([work EXCEPT !.operation = "none", !.index = HeadTree(work),
                            !.files = [f \in Files |-> IF f \in Staged THEN HeadTree(work)[f]
                                                       ELSE work.files[f]]])
    /\ IndexTouched

UserMoves ==
    \/ \E f \in Files : AddFile(f) \/ RemoveCached(f)
    \/ \E f \in Files, body \in Bodies \cup {Absent} : EditFile(f, body)
    \/ \E b \in Branches \cup {Detached} : SwitchBranch(b)
    \/ Commit \/ BeginOperation \/ AbortOperation
-----------------------------------------------------------------------------
(* create_snapshot, and checkpoint_if_changed around it                    *)

NoCapture == [pc |-> "idle", status |-> Nothing, index |-> EmptyTree, copied |-> EmptyTree,
              work |-> EmptyTree, torn |-> FALSE]
NoAnswer == [kind |-> "none", found |-> Nothing]

Captures(change) ==
    /\ capture' = change
    /\ UNCHANGED <<work, latest, answer, quiet, userMoves>>

\* The status comes first, so what it does not know yet is not looked for.
ReadStatus ==
    /\ capture.pc = "idle"
    /\ capture' = [NoCapture EXCEPT !.pc = "status", !.status = Status(work)]
    /\ quiet' = TRUE
    /\ answer' = NoAnswer
    /\ UNCHANGED <<work, latest, userMoves>>

\* A command fails, a check refuses or validate does: checkpoint_if_changed
\* returns the error.
Failure == [kind |-> "failed", found |-> Nothing]
CaptureFails ==
    /\ capture' = NoCapture
    /\ answer' = Failure
    /\ UNCHANGED <<work, latest, quiet, userMoves>>

Supported == ~UnsupportedOperation(work) /\ StatusSupported(capture.status)

EnsureSupported ==
    /\ capture.pc = "status" /\ Supported
    /\ Captures([capture EXCEPT !.pc = "supported"])

\* Mutant: the tree of the commit is taken for that of the index.
ReadHeadTree ==
    /\ capture.pc = "supported" /\ work.operation # "conflict"
    /\ Captures([capture EXCEPT !.pc = "index", !.index = capture.status.head])

\* write-tree refuses an index with conflicts.
ReadIndexTree ==
    /\ capture.pc = "supported" /\ work.operation # "conflict"
    /\ Captures([capture EXCEPT !.pc = "index", !.index = work.index])

CopyIndex ==
    /\ capture.pc = "index"
    /\ Captures([capture EXCEPT !.pc = "copied", !.copied = work.index])

\* git add -u with the copied index: each of its paths as the file is now.
UpdateTracked ==
    /\ capture.pc = "copied"
    /\ Captures([capture EXCEPT !.pc = "updated",
                                !.work = [f \in Files |-> IF capture.copied[f] # Absent THEN work.files[f]
                                                          ELSE Absent]])

Included == {f \in capture.status.untracked : f \notin Excludes}
Excluded == capture.status.untracked \cap Excludes

WithIncluded(tree, files) == [f \in Files |-> IF f \in Included THEN files[f] ELSE tree[f]]

\* Mutant: paths that are gone are skipped, as git add --ignore-errors would.
AddWhatIsThere ==
    /\ capture.pc = "updated"
    /\ Captures([capture EXCEPT !.pc = "work", !.work = WithIncluded(capture.work, work.files)])

\* git add of the included paths with that index, then write-tree.  It
\* refuses a path that is neither in the index nor a file.
AddIncluded ==
    /\ capture.pc = "updated"
    /\ \A f \in Included : capture.work[f] # Absent \/ work.files[f] # Absent
    /\ Captures([capture EXCEPT !.pc = "work", !.work = WithIncluded(capture.work, work.files)])

\* SnapshotMetadata of a capture without sidecars, children or a capsule.
Metadata ==
    [project |-> ProjectId, branch |-> capture.status.branch, head |-> capture.status.head,
     index |-> capture.index, work |-> capture.work, capsule |-> Nothing, included |-> Included,
     excluded |-> {[path |-> f, reason |-> "excluded"] : f \in Excluded},
     sidecars |-> {}, children |-> {}, torn |-> capture.torn]

\* checkpoint_if_changed keeps the latest snapshot when its hash is the same,
\* else stores the new one.  An error after that leaves it in the store.
CompareWithLatest ==
    /\ capture.pc = "work" /\ Validate(Metadata)
    /\ IF latest # Nothing /\ StateHash(latest) = StateHash(Metadata)
       THEN answer' = [kind |-> "unchanged", found |-> Metadata] /\ latest' = latest
       ELSE /\ answer' \in {[kind |-> "created", found |-> Metadata], Failure}
            /\ latest' = Metadata
    /\ capture' = NoCapture
    /\ UNCHANGED <<work, quiet, userMoves>>

CaptureSteps ==
    \/ ReadStatus \/ EnsureSupported \/ ReadIndexTree \/ CopyIndex \/ UpdateTracked \/ AddIncluded
    \/ CompareWithLatest \/ CaptureFails

\* The store has no snapshot, or one that validates.
IdentityInit ==
    /\ work \in Starts
    /\ latest \in {Nothing} \cup {m \in Earlier : Validate(m)}
    /\ capture = NoCapture /\ answer = NoAnswer
    /\ quiet = FALSE /\ userMoves = 0

IdentityNext == UserMoves \/ CaptureSteps

IdentitySpec == IdentityInit /\ [][IdentityNext]_identityVars
-----------------------------------------------------------------------------
(* Applying a snapshot to a clean workspace                                *)

\* apply_snapshot_inner: the branch or the detached head at the commit, then
\* the files of the work tree, then the index alone.
Applied(m) == [branch |-> m.branch, head |-> m.head, index |-> m.index, files |-> m.work,
               operation |-> "none"]

\* verify_included_untracked_paths and verify_excluded_paths_absent
IncludedThere(w, m) == \A f \in m.included : w.files[f] # Absent
ExcludedAbsent(w, m) ==
    \A e \in m.excluded : e.path \in {s.path : s \in m.sidecars} \/ w.files[e.path] = Absent

\* The work tree that a verification makes as a capture does.
WorkTree(index, files, included) ==
    [f \in Files |-> IF index[f] # Absent \/ f \in included THEN files[f] ELSE Absent]

\* verify_snapshot.  It does not ask which branch is checked out.
Verifies(w, m) ==
    /\ w.head = m.head
    /\ w.index = m.index
    /\ WorkTree(w.index, w.files, m.included) = m.work
    /\ IncludedThere(w, m)
    /\ ExcludedAbsent(w, m)

\* What others have stored verifies, or its capture was torn as well.
ASSUME EarlierAssumption == \A m \in Earlier : ~m.torn => Verifies(Applied(m), m)

-----------------------------------------------------------------------------
(* What the hash is there to tell: two snapshots of which it says that     *)
(* they are the same agree in everything but the branch, so that the one   *)
(* in the store can stand for the one that is dropped.                     *)
Said(m) == [m EXCEPT !.branch = Nothing, !.torn = FALSE]
SaysTheSame(m, n) == Said(m) = Said(n)
EarlierWithHash == [m \in Earlier |-> {n \in Earlier : StateHash(n) = StateHash(m)}]
HashesTellStatesApart ==
    /\ latest \in Earlier => \A m \in EarlierWithHash[latest] : SaysTheSame(m, latest)
    /\ answer.kind = "unchanged" => SaysTheSame(answer.found, latest)

\* All that is ever hashed here: what others have stored and what a capture
\* may find.
CapturedMetadata ==
    [project : {ProjectId}, branch : Branches \cup {Detached}, head : Tree, index : Tree, work : Tree,
     capsule : {Nothing}, included : SUBSET (Files \ Excludes),
     excluded : {{[path |-> f, reason |-> "excluded"] : f \in names} : names \in SUBSET Excludes},
     sidecars : {{}}, children : {{}}, torn : BOOLEAN]
Hashed == Earlier \cup CapturedMetadata

(* When checkpoint_if_changed has answered, whether it stored a snapshot   *)
(* or found that it has one, and the user has done nothing since it began, *)
(* applying the latest snapshot gives back the commit, the index and every *)
(* file but the excluded ones, no half-done operation is pretended, and    *)
(* the verification accepts it.                                            *)
Answered == answer.kind \in {"created", "unchanged"}
AnsweredWorkIsKept ==
    quiet /\ Answered =>
        /\ Applied(latest).head = work.head
        /\ Applied(latest).index = work.index
        /\ \A f \in Files : Applied(latest).files[f] = IF f \in Untracked(work) \cap Excludes
                                                        THEN Absent ELSE work.files[f]
        /\ latest.capsule = Nothing
        /\ Verifies(Applied(latest), latest)

(* A capture reads files while the user goes on: a snapshot whose capture  *)
(* saw edits, new files, removals, commits and branches come and go is     *)
(* still one that can be applied and verified.  Only a change of the index *)
(* during the capture makes one that can not.                              *)
OnlyIndexChangesTear == latest # Nothing /\ ~latest.torn => Verifies(Applied(latest), latest)

(* The latest snapshot is what its capture saw, and what the last answer   *)
(* stands for.                                                             *)
CheckpointsKeepTheWork == OnlyIndexChangesTear /\ AnsweredWorkIsKept

(* FR-020 of the north-star specification: a target has the branch, or the *)
(* detached head, of the source.  The hash leaves the branch out, so after *)
(* a switch at one commit the latest snapshot goes on naming the old one.  *)
BranchIsKept == quiet /\ Answered => Applied(latest).branch = work.branch
=============================================================================
