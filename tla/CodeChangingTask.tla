-------------------------- MODULE CodeChangingTask --------------------------
(***************************************************************************)
(* A task that changes code in a runner workspace: the plan, the change    *)
(* set, which six commands of Git make up one after the other while        *)
(* processes of the task may still work, the declared tests, which may run *)
(* before, during or after that, and the summary of all three.             *)
(*                                                                         *)
(* A tree says of every file what it holds, Absent if it is not there.     *)
(* The base is the second commit of BaseHistory; a task may also reset to  *)
(* the first, so that its HEAD does not come after the base.  A commit may *)
(* have no subject.                                                        *)
(*                                                                         *)
(* What Git prints is decoded with replacement characters and loses the    *)
(* white space at its end.  The names of files are UTF-8 here, and do not  *)
(* end in white space.                                                     *)
(***************************************************************************)
EXTENDS Naturals, Sequences, SequencesExt, FiniteSets

CONSTANTS
    TaskFiles,
    QuotedNames,     \* the files whose name Git prints quoted
    FileContents,    \* what a file can hold
    Fragile,         \* contents that are not UTF-8, or end in white space
    Absent,
    DeclaredTests,   \* the number of test commands
    MaxTaskSteps     \* bound on the steps of the task's processes

ASSUME AbsentAssumption == Absent \notin FileContents
ASSUME PrintedAssumption == QuotedNames \subseteq TaskFiles /\ Fragile \subseteq FileContents

VARIABLES
    runner,      \* the workspace: [canonical, commits, index, tree]
    taskSteps,
    changeSet,   \* the capture of the changes, with what it has read
    testRun,     \* the run of the tests, and which have passed
    outcome      \* how far the task is

codeTaskVars == <<runner, taskSteps, changeSet, testRun, outcome>>

EmptyTree == [f \in TaskFiles |-> Absent]
FirstTree ==    \* one file
    [f \in TaskFiles |-> IF f = CHOOSE g \in TaskFiles : TRUE
                        THEN CHOOSE c \in FileContents : TRUE ELSE Absent]
BaseHistory == <<[n |-> 1, subject |-> TRUE, tree |-> EmptyTree],
                 [n |-> 2, subject |-> TRUE, tree |-> FirstTree]>>
BaseCommit == Last(BaseHistory)
TaskHead == Last(runner.commits)
NoChanges == [pc |-> "head", head |-> 0, chain |-> <<>>, files |-> {}, diffs |-> <<>>,
              unmoved |-> TRUE, settled |-> TRUE]

CodeTaskInit ==
    /\ \E canonical \in BOOLEAN :
          runner = [canonical |-> canonical, commits |-> BaseHistory,
                    index |-> FirstTree, tree |-> FirstTree]
    /\ taskSteps = 0 /\ changeSet = NoChanges /\ testRun = [pc |-> "running", passed |-> <<>>]
    /\ outcome = [stage |-> "none", success |-> FALSE]
-----------------------------------------------------------------------------
(* What the processes of the task do to their workspace.                   *)
TaskDoes(to) ==
    /\ taskSteps < MaxTaskSteps /\ to # runner
    /\ taskSteps' = taskSteps + 1
    /\ runner' = to
    /\ changeSet' = [changeSet EXCEPT !.unmoved = @ /\ to.commits = runner.commits, !.settled = FALSE]
    /\ UNCHANGED <<testRun, outcome>>

EditFile == \E f \in TaskFiles, c \in FileContents \cup {Absent} : TaskDoes([runner EXCEPT !.tree[f] = c])
MoveFile ==
    \E f, g \in TaskFiles :
        /\ f # g /\ Absent \notin {runner.index[f], runner.tree[f]} /\ runner.tree[g] = Absent
        /\ TaskDoes([runner EXCEPT !.index[f] = Absent, !.index[g] = runner.index[f],
                                  !.tree[f] = Absent, !.tree[g] = runner.tree[f]])
StageFile == \E f \in TaskFiles : TaskDoes([runner EXCEPT !.index[f] = runner.tree[f]])
CommitIndex ==
    /\ runner.index # TaskHead.tree
    /\ \E subject \in BOOLEAN :
          TaskDoes([runner EXCEPT !.commits =
                       Append(@, [n |-> taskSteps + 3, subject |-> subject, tree |-> runner.index])])
ResetBack ==
    /\ Len(runner.commits) > 1
    /\ LET to == Front(runner.commits)
       IN TaskDoes([runner EXCEPT !.commits = to, !.index = Last(to).tree,
                 !.tree = [f \in TaskFiles |->    \* untracked files stay
                              IF runner.index[f] = Absent /\ TaskHead.tree[f] = Absent
                                 /\ Last(to).tree[f] = Absent
                              THEN runner.tree[f] ELSE Last(to).tree[f]]])
-----------------------------------------------------------------------------
(* ensure_isolated_workspace: the first thing that every call asks.        *)
IsolatedWorkspace == ~runner.canonical

(* plan_code_changing_task *)
PlanTask ==
    /\ outcome.stage = "none"
    /\ outcome' = [outcome EXCEPT !.stage = IF IsolatedWorkspace THEN "planned" ELSE "refused"]
    /\ UNCHANGED <<runner, taskSteps, changeSet, testRun>>

(* The difference of two trees, and what is left of it in the output of    *)
(* Git: the part of a file with such contents may be garbled.              *)
TreeDifference(from, to) ==
    [f \in {g \in TaskFiles : from[g] # to[g]} |-> [from |-> from[f], to |-> to[f]]]

Garbled == [from |-> Absent, to |-> Absent]
Printed(diff) ==
    {[f \in DOMAIN diff |-> IF f \in lost THEN Garbled ELSE diff[f]] :
        lost \in SUBSET {f \in DOMAIN diff : {diff[f].from, diff[f].to} \cap Fragile # {}}}

(* git diff HEAD looks at the files that the index or HEAD has.            *)
\* Mutant: git diff, which compares with the index.
UnstagedDifference ==
    TreeDifference(runner.index,
               [f \in TaskFiles |-> IF runner.index[f] = Absent THEN Absent ELSE runner.tree[f]])
WorkingDifference ==
    TreeDifference(TaskHead.tree,
               [f \in TaskFiles |-> IF runner.index[f] = Absent THEN Absent ELSE runner.tree[f]])

(* What Git lists of a difference: of a file that was renamed, the new     *)
(* name alone.  It takes a file that is gone for renamed when a new file   *)
(* holds the same, one for each such file.                                  *)
RenamedFiles(diff) ==
    LET Gone(c) == {f \in DOMAIN diff : diff[f] = [from |-> c, to |-> Absent]}
        New(c) == {f \in DOMAIN diff : diff[f] = [from |-> Absent, to |-> c]}
        Pairs(c) == IF Cardinality(Gone(c)) < Cardinality(New(c)) THEN Cardinality(Gone(c))
                    ELSE Cardinality(New(c))
    IN UNION {CHOOSE names \in SUBSET Gone(c) : Cardinality(names) = Pairs(c) : c \in FileContents}
ListedNames(diff) == DOMAIN diff \ RenamedFiles(diff)

(* git diff --name-status quotes names, git status -z does not. *)
Quoted(f) == <<"quoted", f>>
CommittedNames(diff) == {IF f \in QuotedNames THEN Quoted(f) ELSE f : f \in ListedNames(diff)}

(* git status: what is staged, what is not, and what is untracked.         *)
StatusFiles ==
    ListedNames(TreeDifference(TaskHead.tree, runner.index))
    \cup {f \in TaskFiles : runner.tree[f] # runner.index[f]}

(* git log base..HEAD.  A line without a tab is skipped: such is the last  *)
(* line, without the white space at its end, when HEAD has no subject.     *)
CommitsSinceBase ==
    SelectSeq(runner.commits, LAMBDA c : \A i \in DOMAIN BaseHistory : c.n # BaseHistory[i].n)
CommitChain ==
    IF CommitsSinceBase # <<>> /\ ~Last(CommitsSinceBase).subject THEN Front(CommitsSinceBase)
    ELSE CommitsSinceBase

(* capture_code_changing_task_changes: each command may fail, and then     *)
(* there is no change set.                                                  *)
Reads(pc, change) ==
    /\ changeSet' \in {[change EXCEPT !.pc = pc], [NoChanges EXCEPT !.pc = "failed"]}
    /\ UNCHANGED <<runner, taskSteps, testRun, outcome>>

ReadHead ==
    /\ changeSet.pc = "head" /\ IsolatedWorkspace
    /\ Reads("chain", [NoChanges EXCEPT !.head = TaskHead.n])
ReadChain ==
    /\ changeSet.pc = "chain"
    /\ Reads("committed", [changeSet EXCEPT !.chain = CommitChain])
ReadCommitted ==
    /\ changeSet.pc = "committed"
    /\ Reads("status", [changeSet EXCEPT !.files =
                            CommittedNames(TreeDifference(BaseCommit.tree, TaskHead.tree))])
ReadStatus ==
    /\ changeSet.pc = "status"
    /\ Reads("range", [changeSet EXCEPT !.files = @ \cup StatusFiles, !.settled = TRUE])
ReadRange ==
    /\ changeSet.pc = "range"
    /\ \E diff \in Printed(TreeDifference(BaseCommit.tree, TaskHead.tree)) :
          Reads("working", IF changeSet.chain = <<>> THEN changeSet
                           ELSE [changeSet EXCEPT !.diffs = <<diff>>])
ReadWorking ==
    /\ changeSet.pc = "working"
    /\ \E diff \in Printed(WorkingDifference) :
          Reads("done", [changeSet EXCEPT !.diffs = Append(@, diff)])
-----------------------------------------------------------------------------
(* run_code_changing_task_tests: in their order.  A command without a name *)
(* or a text and a runner that fails end it, and what has run is lost.      *)
RunTest ==
    /\ testRun.pc = "running" /\ Len(testRun.passed) < DeclaredTests
    /\ \/ /\ IsolatedWorkspace
          /\ \E exit \in {"zero", "other", "none"}, timed_out, canceled \in BOOLEAN :
                testRun' = [testRun EXCEPT !.passed = Append(@, exit = "zero" /\ ~timed_out /\ ~canceled)]
       \/ testRun' = [pc |-> "failed", passed |-> <<>>]
    /\ UNCHANGED <<runner, taskSteps, changeSet, outcome>>

SummarizeTask ==
    /\ outcome.stage = "planned" /\ changeSet.pc = "done"
    /\ testRun.pc = "running" /\ Len(testRun.passed) = DeclaredTests
    /\ outcome' = [stage |-> "summarized", success |-> \A i \in DOMAIN testRun.passed : testRun.passed[i]]
    /\ UNCHANGED <<runner, taskSteps, changeSet, testRun>>

CodeTaskNext ==
    \/ EditFile \/ MoveFile \/ StageFile \/ CommitIndex \/ ResetBack
    \/ PlanTask
    \/ ReadHead \/ ReadChain \/ ReadCommitted \/ ReadStatus \/ ReadRange \/ ReadWorking
    \/ RunTest \/ SummarizeTask
-----------------------------------------------------------------------------
PatchedFile(content, diff, f) == IF f \in DOMAIN diff THEN diff[f].to ELSE content
AppliesTo(content, diff, f) == f \in DOMAIN diff => diff[f].from = content

(* As long as no process of the task moves HEAD during the capture or      *)
(* changes a file after the status was read, and HEAD is the base or comes *)
(* after it and has a subject, the change set is the task's work: its      *)
(* commits are those from the base to the head it names, its differences   *)
(* apply to the base one after the other and give every file that the      *)
(* index knows, but for the files that Git's output does not carry whole,  *)
(* and it names every file that is not as it is in the base, the untracked *)
(* ones included, but for the old name of a file that was renamed: a file  *)
(* that is gone may be left out when a name is there that the base has not.*)
(* A committed file may be named as Git quotes it.                         *)
ChangeSetIsTheWork ==
    changeSet.pc = "done" /\ changeSet.unmoved /\ changeSet.settled
    /\ TaskHead.subject /\ (\E i \in DOMAIN runner.commits : runner.commits[i] = BaseCommit) =>
        LET Names == {f \in TaskFiles : {f, Quoted(f)} \cap changeSet.files # {}}
            Carried == {f \in TaskFiles :
                           {BaseCommit.tree[f], TaskHead.tree[f], runner.tree[f]} \cap Fragile = {}}
            First(f) == IF Len(changeSet.diffs) = 2
                        THEN PatchedFile(BaseCommit.tree[f], changeSet.diffs[1], f)
                        ELSE BaseCommit.tree[f]
        IN /\ changeSet.head = IF changeSet.chain = <<>> THEN BaseCommit.n ELSE Last(changeSet.chain).n
           /\ \A f \in Carried :
                 /\ AppliesTo(BaseCommit.tree[f], changeSet.diffs[1], f)
                 /\ AppliesTo(First(f), Last(changeSet.diffs), f)
                 /\ runner.index[f] # Absent =>
                        PatchedFile(First(f), Last(changeSet.diffs), f) = runner.tree[f]
           /\ \A f \in TaskFiles \ Names :
                 runner.tree[f] # BaseCommit.tree[f] =>
                     /\ runner.tree[f] = Absent
                     /\ \E g \in Names : BaseCommit.tree[g] = Absent
=============================================================================
