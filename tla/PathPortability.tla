-------------------------- MODULE PathPortability ---------------------------
(***************************************************************************)
(* Names that a snapshot brings to a target whose file system cannot keep  *)
(* them apart, or cannot hold them: what analyze_path_entries finds in the *)
(* trees of the index and of the work tree, which of it keeps              *)
(* apply_snapshot from starting, and what git then does to the files of    *)
(* the target: check out HEAD, and go over to the work tree.                *)
(*                                                                         *)
(* A path is a sequence of names.  A name is a record: its letters, their  *)
(* case and Unicode form, and what Windows objects to in it.                *)
(***************************************************************************)
EXTENDS Naturals, Sequences, FiniteSets, SequencesExt

CONSTANTS
    Paths,          \* paths of the repository
    Links,          \* those of them that are symbolic links
    MaxFiles        \* bound: files of one tree

Names == [letters : STRING, upper : BOOLEAN, form : {"composed", "decomposed"},
          flaw : {"none", "dot", "device", "character"}]

ASSUME PathsAssumption == Paths \subseteq Seq(Names) /\ Links \subseteq Paths /\ MaxFiles \in Nat

VARIABLES
    move,       \* the apply: target platform, trees of HEAD, index and work tree, progress
    disk        \* files of the target: [location -> content]

pathVars == <<move, disk>>

Platforms == {"darwin", "linux", "wsl2", "windows"}
Trees(contents) == UNION {[files -> contents] : files \in {s \in SUBSET Paths : Cardinality(s) <= MaxFiles}}
EmptyTree == [p \in {} |-> 0]
NoMove == [pc |-> "none", target |-> "linux", head |-> EmptyTree, index |-> EmptyTree, work |-> EmptyTree,
           todo |-> {}]

PathsInit == move = NoMove /\ disk = EmptyTree
-----------------------------------------------------------------------------
(* capabilities_for *)
CaseSensitive(target) == target \in {"linux", "wsl2"}
HasLinks(target) == target # "windows"

Lowered(p) == [i \in DOMAIN p |-> [p[i] EXCEPT !.upper = FALSE]]
Composed(p) == [i \in DOMAIN p |-> [p[i] EXCEPT !.form = "composed"]]

(* collision_issues for one key: whole paths are compared. *)
Collides(keys) == ~IsInjective(keys)

(* detect_component_issues *)
BadName(p) == \E i \in DOMAIN p : p[i].flaw # "none"

\* Mutant: the work tree is left out.
IndexEntries == DOMAIN move.index
(* path_entries_in_tree of both trees *)
Entries == DOMAIN move.index \cup DOMAIN move.work

(* ensure_snapshot_paths_supported and ensure_snapshot_materialization_supported *)
PathsSupported ==
    /\ ~CaseSensitive(move.target) => /\ ~Collides([p \in Entries |-> Lowered(p)])
                                      /\ ~Collides([p \in Entries |-> Composed(p)])
    /\ move.target = "windows" => \A p \in Entries : ~BadName(p)
    /\ HasLinks(move.target) \/ Entries \cap Links = {}

(* A snapshot of a source that keeps every name apart, with nothing or     *)
(* everything staged.                                                       *)
TakeSnapshot ==
    /\ move.pc = "none"
    /\ \E target \in Platforms, head \in Trees({1}), work \in Trees({1, 2}) :
       \E index \in {head, work} :
          /\ \A p, q \in DOMAIN head : p # q => ~IsPrefix(p, q)
          /\ \A p, q \in DOMAIN work : p # q => ~IsPrefix(p, q)
          /\ move' = [NoMove EXCEPT !.pc = "check", !.target = target, !.head = head,
                          !.index = index, !.work = work]
    /\ UNCHANGED disk

CheckPaths ==
    /\ move.pc = "check"
    /\ move' = IF PathsSupported THEN [move EXCEPT !.pc = "head", !.todo = DOMAIN move.head]
               ELSE [move EXCEPT !.pc = "refused"]
    /\ UNCHANGED disk
-----------------------------------------------------------------------------
(* What the file system of the target makes of a name: macOS folds case    *)
(* and Unicode form, Windows folds case and drops a dot at the end.         *)
Folded(name, target) ==
    CASE target = "darwin" -> [name EXCEPT !.upper = FALSE, !.form = "composed"]
      [] target = "windows" -> [name EXCEPT !.upper = FALSE, !.flaw = IF @ = "dot" THEN "none" ELSE @]
      [] OTHER -> name

Location(p) == [i \in DOMAIN p |-> Folded(p[i], move.target)]
CanHold(p) == move.target = "windows" => \A i \in DOMAIN p : p[i].flaw \notin {"device", "character"}

(* Git puts a file where it belongs and clears what is in its way. *)
InTheWay(at, location) == IsPrefix(at, location) \/ IsPrefix(location, at)
Put(p, content) ==
    disk' = [at \in {at \in DOMAIN disk : ~InTheWay(at, Location(p))} \cup {Location(p)} |->
                IF at = Location(p) THEN content ELSE disk[at]]
Delete(p) == disk' = [at \in DOMAIN disk \ {Location(p)} |-> disk[at]]

(* git checkout and git reset --hard: the files of HEAD, in any order *)
CheckOutFile ==
    /\ move.pc = "head" /\ \E p \in move.todo :
       IF CanHold(p)
       THEN /\ Put(p, move.head[p])
            /\ move' = [move EXCEPT !.todo = @ \ {p}]
       ELSE move' = [move EXCEPT !.pc = "failed"] /\ UNCHANGED disk

Gone == DOMAIN move.head \ DOMAIN move.work
Changed == {p \in DOMAIN move.work : p \notin DOMAIN move.head \/ move.work[p] # move.head[p]}

(* git read-tree --reset -u: files that are gone, then what has changed; a *)
(* file that is the same in both trees is written again when git takes it  *)
(* for changed on disk, and left alone otherwise.                           *)
HeadIsThere ==
    /\ move.pc = "head" /\ move.todo = {}
    /\ move' = [move EXCEPT !.pc = "remove", !.todo = Gone]
    /\ UNCHANGED disk

RemoveFile ==
    /\ move.pc = "remove" /\ \E p \in move.todo :
       Delete(p) /\ move' = [move EXCEPT !.todo = @ \ {p}]

FilesAreGone ==
    /\ move.pc = "remove" /\ move.todo = {}
    /\ \E again \in SUBSET (DOMAIN move.work \ Changed) :
          move' = [move EXCEPT !.pc = "work", !.todo = Changed \cup again]
    /\ UNCHANGED disk

WriteFile ==
    /\ move.pc = "work" /\ \E p \in move.todo :
       IF CanHold(p)
       THEN /\ Put(p, move.work[p])
            /\ move' = [move EXCEPT !.todo = @ \ {p}]
       ELSE move' = [move EXCEPT !.pc = "failed"] /\ UNCHANGED disk

(* What write_work_tree finds under the name of a file: the content at its *)
(* location, whichever file that came from.                                 *)
Found(p) == IF Location(p) \in DOMAIN disk THEN disk[Location(p)] ELSE 0

VerifyTree ==
    /\ move.pc = "work" /\ move.todo = {}
    /\ move' = [move EXCEPT !.pc = IF \A p \in DOMAIN move.work : Found(p) = move.work[p]
                                   THEN "applied" ELSE "failed"]
    /\ UNCHANGED disk

PathsNext ==
    \/ TakeSnapshot \/ CheckPaths \/ CheckOutFile \/ HeadIsThere \/ RemoveFile \/ FilesAreGone
    \/ WriteFile \/ VerifyTree
-----------------------------------------------------------------------------
Clash(p, q) == p # q /\ InTheWay(Location(p), Location(q))
KeptApart(files) == \A p, q \in files : ~Clash(p, q)

(* What the target cannot keep apart but the check does not see: a file    *)
(* and a directory, or two names that differ in case and in Unicode form.  *)
Unseen(p, q) == Lowered(p) # Lowered(q) /\ Composed(p) # Composed(q)

(* An apply that has to fail when it has changed the target's files is     *)
(* one whose HEAD brings names that the target mixes up or cannot hold     *)
(* (the check looks at the index and the work tree only), or one of the    *)
(* clashes that comparing whole lower-case or composed paths does not see; *)
(* every other snapshot that cannot be there is refused before.  A target  *)
(* that was applied has the files of the work tree and no other.            *)
RefusedBeforeTouched ==
    /\ move.pc = "failed" =>
          \/ ~KeptApart(DOMAIN move.head)
          \/ \E p \in DOMAIN move.head : ~CanHold(p)
          \/ \E p, q \in Entries : Clash(p, q) /\ Unseen(p, q)
    /\ move.pc = "applied" => DOMAIN disk = {Location(p) : p \in DOMAIN move.work}
=============================================================================
