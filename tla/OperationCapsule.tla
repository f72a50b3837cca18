-------------------------- MODULE OperationCapsule --------------------------
(***************************************************************************)
(* An unfinished merge, pick, revert or rebase as a capsule: what          *)
(* capture_operation_capsule reads of the Git directory, the index and the *)
(* work tree, one file or command after the other while the user may go on *)
(* with it, and how the conflicts are set up in another work tree.         *)
(*                                                                         *)
(* The index says of a path which stages it has: none, 0 alone, or those   *)
(* of a conflict.  A conflict is about one version per stage, so the stage *)
(* stands for the object.  The commits of the operation are left out.      *)
(***************************************************************************)
EXTENDS Naturals, Sequences, FiniteSets

CONSTANTS
    ConflictPaths,
    PathOrder,      \* the paths in their order
    UsedStages,     \* the stages a path can have at first: {0} or a conflict
    UsedFiles,      \* and what it is in the work tree: "markers", "link", "none"
    MaxUserSteps    \* bound on what the user does at the source

VARIABLES
    source,     \* the repository whose operation is captured
    target,     \* the work tree where the conflicts are set up
    capsule,    \* what has been captured
    moving,     \* how far the capture or the restore is
    userSteps

capsuleVars == <<source, target, capsule, moving, userSteps>>

Markers == <<"merge", "cherry-pick", "revert", "rebase-merge", "rebase-apply", "sequencer">>
WithProgress == {"rebase-merge", "rebase-apply", "sequencer"}
Regular == {"markers", "resolved", "own"}

(* Git leaves markers alone, or a sequencer beside a pick or a revert.     *)
MarkerSets ==
    {{m} : m \in {Markers[i] : i \in DOMAIN Markers}} \cup {{"cherry-pick", "sequencer"},
                                                         {"revert", "sequencer"}}

NoCapsule == [kind |-> "none", todo |-> 0, done |-> 0, step |-> [current |-> 0, total |-> 0],
              stages |-> [p \in {} |-> {}], files |-> [p \in {} |-> ""], quiet |-> TRUE]
Idle == [pc |-> "idle", todo |-> <<>>]

(* The source is in the second of three commands, or its Git keeps no      *)
(* lists; counted is whether it writes the numbers msgnum and end, the     *)
(* first of which is that of the last command in done.                     *)
CapsuleInit ==
    /\ \E markers \in MarkerSets, counted \in BOOLEAN,
          index \in [ConflictPaths -> UsedStages], tree \in [ConflictPaths -> UsedFiles] :
          /\ counted => markers = {"rebase-merge"}
          /\ source = [markers |-> markers, index |-> index, tree |-> tree, counted |-> counted,
                       done |-> IF markers \cap {"rebase-merge", "sequencer"} = {} THEN 0 ELSE 1,
                       todo |-> IF markers \cap {"rebase-merge", "sequencer"} = {} THEN 0 ELSE 2]
    /\ \E index \in [ConflictPaths -> {{0}, {}}] :
          target = [before |-> index, index |-> index,
                    tree |-> [p \in ConflictPaths |-> IF index[p] = {} THEN "none" ELSE "own"]]
    /\ capsule = NoCapsule /\ moving = Idle /\ userSteps = 0
-----------------------------------------------------------------------------
UserDoes(to) ==
    /\ userSteps < MaxUserSteps
    /\ userSteps' = userSteps + 1
    /\ source' = to
    /\ capsule' = [capsule EXCEPT !.quiet = FALSE]
    /\ UNCHANGED <<target, moving>>

Resolve ==
    \E p \in ConflictPaths :
        /\ source.index[p] # {0}
        /\ \/ UserDoes([source EXCEPT !.index[p] = {0}, !.tree[p] = "resolved"])
           \/ UserDoes([source EXCEPT !.tree[p] = "resolved"])

(* The next command of a list, and the end of the operation.               *)
Continue ==
    /\ \A p \in ConflictPaths : source.index[p] = {0}
    /\ IF source.todo = 0 THEN UserDoes([source EXCEPT !.markers = {}])
       ELSE UserDoes([source EXCEPT !.todo = @ - 1, !.done = @ + 1])
-----------------------------------------------------------------------------
(* The first marker, in the order of the code.                             *)
KindOf(markers) ==
    IF markers = {} THEN "none"
    ELSE Markers[CHOOSE i \in DOMAIN Markers :
                     /\ Markers[i] \in markers
                     /\ \A j \in 1..(i - 1) : Markers[j] \notin markers]

Captures(pc, change) ==
    /\ capsule' = change
    /\ moving' = [moving EXCEPT !.pc = pc]
    /\ UNCHANGED <<source, target, userSteps>>

FindOperation ==
    /\ moving.pc = "idle"
    /\ LET kind == KindOf(source.markers)
       IN Captures(IF kind = "none" THEN "nothing"
                   ELSE IF kind \in WithProgress THEN "todo" ELSE "marker",
                   [NoCapsule EXCEPT !.kind = kind])

ReadTodo == moving.pc = "todo" /\ Captures("done", [capsule EXCEPT !.todo = source.todo])
ReadDone == moving.pc = "done" /\ Captures("step", [capsule EXCEPT !.done = source.done])

(* infer_step: the command after those that are done, of all of them.      *)
InferStep(done, todo) ==
    [current |-> IF done + 1 <= done + todo THEN done + 1 ELSE done + todo, total |-> done + todo]

ReadStep ==
    /\ moving.pc = "step"
    /\ Captures("marker",
                [capsule EXCEPT !.step = IF source.counted
                                         THEN [current |-> source.done,
                                               total |-> source.done + source.todo]
                                         ELSE InferStep(capsule.done, capsule.todo)])

(* marker_oids reads the file of a marker that may be gone by now; of a    *)
(* directory it reads nothing.                                              *)
ReadMarker ==
    /\ moving.pc = "marker"
    /\ Captures(IF capsule.kind \notin WithProgress /\ capsule.kind \notin source.markers
                THEN "failed" ELSE "entries", capsule)

\* Mutant: paths that one side has removed are not seen as unmerged.
BothSides == {p \in ConflictPaths : source.index[p] = {1, 2, 3}}
Unmerged == {p \in ConflictPaths : source.index[p] \cap {1, 2, 3} # {}}

(* git ls-files -u *)
ReadEntries ==
    /\ moving.pc = "entries"
    /\ capsule' = [capsule EXCEPT !.stages = [p \in Unmerged |-> source.index[p]]]
    /\ moving' = [pc |-> "files", todo |-> SelectSeq(PathOrder, LAMBDA p : p \in Unmerged)]
    /\ UNCHANGED <<source, target, userSteps>>

(* A path that is no file, a link or nothing, has no contents to keep.     *)
ReadFile ==
    /\ moving.pc = "files" /\ moving.todo # <<>>
    /\ LET p == Head(moving.todo)
       IN capsule' = IF source.tree[p] \in Regular
                     THEN [capsule EXCEPT !.files = [q \in DOMAIN @ \cup {p} |->
                                                        IF q = p THEN source.tree[p] ELSE @[q]]]
                     ELSE capsule
    /\ moving' = [moving EXCEPT !.todo = Tail(@)]
    /\ UNCHANGED <<source, target, userSteps>>

CaptureComplete == moving.pc = "files" /\ moving.todo = <<>>
-----------------------------------------------------------------------------
CapturedEntries == SelectSeq(PathOrder, LAMBDA p : p \in DOMAIN capsule.stages)
CapturedPaths == SelectSeq(PathOrder, LAMBDA p : p \in DOMAIN capsule.files)

Restores(to, pc, todo) ==
    /\ target' = to
    /\ moving' = [pc |-> pc, todo |-> todo]
    /\ UNCHANGED <<source, capsule, userSteps>>

StartRestore ==
    CaptureComplete /\ Restores(target, IF CapturedEntries = <<>> THEN "contents" ELSE "removing",
                         IF CapturedEntries = <<>> THEN CapturedPaths ELSE CapturedEntries)

(* update-index --force-remove, a command for each path.                   *)
RemoveEntry ==
    /\ moving.pc = "removing" /\ moving.todo # <<>>
    /\ Restores([target EXCEPT !.index[Head(moving.todo)] = {}], "removing", Tail(moving.todo))

(* update-index --index-info, one command for the stages of all of them,   *)
(* which leaves the stages that a path already has.                        *)
AddStages ==
    /\ moving.pc = "removing" /\ moving.todo = <<>>
    /\ Restores([target EXCEPT !.index =
                     [p \in ConflictPaths |-> @[p] \cup (IF p \in DOMAIN capsule.stages
                                                          THEN capsule.stages[p] ELSE {})]],
                "contents", CapturedPaths)

RestoreFile ==
    /\ moving.pc = "contents" /\ moving.todo # <<>>
    /\ LET p == Head(moving.todo)
       IN Restores([target EXCEPT !.tree[p] = capsule.files[p]], "contents", Tail(moving.todo))

(* A command or a write fails, and what has been done stays.               *)
RestoreFails ==
    /\ moving.pc \in {"removing", "contents"} /\ ~(moving.pc = "contents" /\ moving.todo = <<>>)
    /\ Restores(target, "failed", <<>>)

RestoreComplete == moving.pc = "contents" /\ moving.todo = <<>>

CapsuleNext ==
    \/ Resolve \/ Continue
    \/ FindOperation \/ ReadTodo \/ ReadDone \/ ReadStep \/ ReadMarker \/ ReadEntries \/ ReadFile
    \/ StartRestore \/ RemoveEntry \/ AddStages \/ RestoreFile \/ RestoreFails
-----------------------------------------------------------------------------
(* When a capsule has been set up, every path of the target has in the     *)
(* index the stages of the capsule, and no others, or what it had before,  *)
(* and its file is the one captured, or what it was; and if the user did   *)
(* nothing at the source meanwhile, the paths in conflict there are in the *)
(* same conflict here, with the same text where there is a file, and the   *)
(* step is one of as many as there are commands.                           *)
ConflictsTravel ==
    RestoreComplete =>
        /\ \A p \in ConflictPaths :
              /\ target.index[p] = IF p \in DOMAIN capsule.stages THEN capsule.stages[p]
                                   ELSE target.before[p]
              /\ p \in DOMAIN capsule.files => /\ p \in DOMAIN capsule.stages
                                               /\ target.tree[p] = capsule.files[p]
        /\ capsule.quiet =>
              /\ \A p \in ConflictPaths :
                    /\ (source.index[p] # {0} \/ target.index[p] \notin {{}, {0}}) =>
                           target.index[p] = source.index[p]
                    /\ source.index[p] # {0} /\ source.tree[p] \in Regular =>
                           target.tree[p] = source.tree[p]
              /\ capsule.kind \in WithProgress =>
                    /\ capsule.step.total = source.done + source.todo
                    /\ capsule.step.current <= capsule.step.total
=============================================================================
