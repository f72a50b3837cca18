--------------------------- MODULE MCSnapshotStore ---------------------------
(* Instances for TLC of SnapshotStore, with sizes that make the planner's    *)
(* totals differ, in units of one small snapshot; and of SnapshotIdentity,   *)
(* with a path that may be tracked, one that snapshots exclude, and what     *)
(* other callers have stored before.  They share no state: one of them runs, *)
(* chosen in the initial state, and the other stays as it starts.            *)
EXTENDS SnapshotStore, SnapshotIdentity

VARIABLE part    \* which of the two runs

MCSizeOf == [id \in 1 .. MaxSnapshots |-> 1 + (id % 2)]
\* Processes of one kind, and states of the worktree, are interchangeable.
MCSymmetry == Permutations(Writers) \cup Permutations(Hashes)
-----------------------------------------------------------------------------
\* A workspace before its first commit, and one with every mix of staged,
\* changed, removed and untracked files on top of a commit.
One == [f \in Files |-> IF f \in Excludes THEN Absent ELSE "A"]
StartsDef ==
    {[branch |-> "main", head |-> h, index |-> i, files |-> f, operation |-> "none"] :
        h \in {One}, i \in {One, EmptyTree}, f \in [Files -> {"A", Absent}]}
    \cup {[branch |-> "main", head |-> Initial, index |-> EmptyTree, files |-> One, operation |-> "none"]}

Plain(head, index, files, included, excluded) ==
    [project |-> ProjectId, branch |-> "main", head |-> head, index |-> index, work |-> files,
     capsule |-> Nothing, included |-> included,
     excluded |-> {[path |-> f, reason |-> "excluded"] : f \in excluded},
     sidecars |-> {}, children |-> {}, torn |-> TRUE]
Base == Plain(One, One, One, {}, {})

Sidecar(size, root) ==
    [path |-> "big", mode |-> "100644", classification |-> "large", size |-> size, chunk |-> 1,
     root |-> root, manifest |-> "m1"]
Child(path) == [relationship |-> "git-submodule", path |-> path, project |-> "p2", session |-> "s2",
                snapshot |-> "s1_2", hash |-> "h2"]

Progress(todo, done, current, total) ==
    [interactive |-> TRUE, original |-> Nothing, onto |-> "c1", headName |-> Nothing, todo |-> todo,
     done |-> done, step |-> [current |-> current, total |-> total]]
Capsule(progress, stages) ==
    [kind |-> "rebase-merge", current |-> "c1", oids |-> <<"c2">>, original |-> Nothing,
     progress |-> progress, unmerged |-> <<[path |-> "f", stages |-> stages]>>,
     files |-> <<[path |-> "f", contents |-> "markers"]>>]
Stage(n) == [stage |-> n, mode |-> "100644", oid |-> "b1"]
Capsules ==
    {Capsule(p, s) : p \in {Nothing} \cup {Progress(t[1][1], t[1][2], t[2][1], t[2][2]) :
                         t \in {<<<<"x">>, <<"y">>>>, <<<<"x", "y">>, <<>>>>, <<<<>>, <<"x", "y">>>>}
                               \X {<<"1", Nothing>>, <<Nothing, "1">>}},
                     s \in {<<Stage(1), Stage(2)>>, <<Stage(2)>>}}

\* Snapshots with everything the metadata has room for; some are not valid.
EarlierDef ==
    {Base, Plain(One, EmptyTree, One, {}, {}), Plain(One, One, EmptyTree, {}, {}),
     Plain(One, EmptyTree, One, {"a"}, {}), Plain(One, One, One, {}, {"x"})}
    \cup {[Base EXCEPT !.sidecars = {s}] : s \in {Sidecar(1, "m1"), Sidecar(2, "m1"), Sidecar(0, "m1"), Sidecar(1, "m2")}}
    \cup {[Base EXCEPT !.children = {c}] : c \in {Child("lib"), Child("sub"), Child("..")}}
EarlierWithCapsules == {[Base EXCEPT !.capsule = c] : c \in Capsules}
EarlierAll == EarlierDef \cup EarlierWithCapsules

\* HashTellsStatesApart of SnapshotStoreProofs, for these constants and the
\* metadata without an operation: there are as many hashes as there are states
\* to tell apart.  (Those with one are compared by HashesTellStatesApart.)
Sayings == {Said(m) : m \in {n \in Hashed : n.capsule = Nothing}}
ASSUME HashAssumption == Cardinality({StateHash(m) : m \in Sayings}) = Cardinality(Sayings)
-----------------------------------------------------------------------------
SnapshotsInit ==
    /\ part \in {"store", "identity"}
    /\ Init /\ IdentityInit
    /\ part = "store" => latest = Base /\ work.head = One /\ work.index = One /\ work.files = One

SnapshotsNext ==
    /\ UNCHANGED part
    /\ IF part = "store" THEN Next ELSE UNCHANGED vars
    /\ IF part = "identity" THEN IdentityNext ELSE UNCHANGED identityVars

SnapshotsSpec == SnapshotsInit /\ [][SnapshotsNext]_<<part, vars, identityVars>>
=============================================================================
