-------------------------- MODULE MCSnapshotApply --------------------------
\* Instances of SnapshotApply: a tracked path, an untracked one and one that
\* snapshots exclude; a common commit, one of the source and one of the target.
EXTENDS SnapshotApply, TLC

CONSTANTS t, n, x, A, B, base, ahead, mine

TreeOfDef ==
    (base  :> [p \in Paths |-> IF p = t THEN A ELSE Absent]) @@
    (ahead :> [p \in Paths |-> IF p = x THEN Absent ELSE B]) @@
    (mine  :> [p \in Paths |-> IF p = t THEN B ELSE Absent])

\* A source ahead of the target: every way to stage, modify and delete a
\* tracked path and one that the commit added, and to leave paths untracked.  The excluded path is untracked.
SourcesDef ==
    {w \in [head: {ahead}, index: [Paths -> {A, B, Absent}], files: [Paths -> {A, Absent}]] :
       w.index[n] # B /\ w.index[x] = Absent /\ w.files[x] = A}

\* A source with a staged, an untracked and an excluded change.
OneSourceDef ==
    {[head |-> ahead, index |-> TreeOf[base], files |-> [p \in Paths |-> A]]}
=============================================================================
