--------------------------- MODULE SidecarTransfer ---------------------------
(***************************************************************************)
(* What a snapshot carries outside Git: large untracked files and Git LFS  *)
(* objects that only the source has, cut into chunks of a content store    *)
(* (create_snapshot_with_sidecars, ..._and_lfs_upstream) and put together  *)
(* again at the target (apply_snapshot_with_sidecars).  The user writes to *)
(* the files meanwhile, objects come and go, chunks get lost.  The Git     *)
(* part of the apply is in SnapshotApply.                                  *)
(***************************************************************************)
EXTENDS Integers, Sequences, FiniteSets, SequencesExt

CONSTANTS
    Large,        \* untracked files above the limit of the manifest
    Objects,      \* LFS objects that files of the work tree point to
    MaxWrites,    \* bound: the user's writes, and the times objects or chunks go
    MaxApplies    \* bound: applies of the snapshot

ASSUME SidecarTransferAssumption == Large \cap Objects = {} /\ MaxWrites \in Nat /\ MaxApplies \in Nat

VARIABLES
    source,     \* the source: its large files, chunk by chunk, the objects it has,
                \* and those whose files hold the object instead of the pointer
    upstream,   \* objects the LFS server has
    cas,        \* sound chunks, and manifests (sequences of chunks), of the content store
    capture,    \* the call that takes the snapshot
    sidecars,   \* the snapshot: [item -> size and manifest], and histories of its capture
    target,     \* the target: Git part applied, large files, objects, leftover temporary file
    apply,      \* the call that applies it
    writes, applies

sidecarVars == <<source, upstream, cas, capture, sidecars, target, apply, writes, applies>>

NoSidecars == [f \in {} |-> {}]
NoCapture == [pc |-> "idle", todo |-> {}, item |-> "none", size |-> 0, chunks |-> <<>>,
              taken |-> NoSidecars, aware |-> FALSE, before |-> NoSidecars]
NoSnapshot == [pc |-> "none"]
NoApply == [pc |-> "idle", todo |-> {}, item |-> "none", part |-> <<>>]

SidecarInit ==
    /\ \E objects \in SUBSET Objects, smudged \in SUBSET Objects :
          source = [files |-> [f \in Large |-> <<0, 0>>], objects |-> objects, smudged |-> smudged]
    /\ upstream \in SUBSET Objects
    /\ cas = [chunks |-> {}, manifests |-> {}]
    /\ capture = NoCapture /\ sidecars = NoSnapshot
    /\ target = [base |-> FALSE, files |-> [f \in Large |-> <<>>], objects |-> {}, leftover |-> FALSE]
    /\ apply = NoApply
    /\ writes = 0 /\ applies = 0
-----------------------------------------------------------------------------
Spends == writes < MaxWrites /\ writes' = writes + 1

(* Chunks are numbered by the write they come from; a write may shorten    *)
(* the file.                                                                *)
UserWrites(f) ==
    /\ sidecars = NoSnapshot /\ Spends
    /\ \E chunks \in {<<writes + 1, writes + 1>>, <<writes + 1>>} :
          source' = [source EXCEPT !.files[f] = chunks]
    /\ capture' = [capture EXCEPT !.before = NoSidecars]
    /\ UNCHANGED <<upstream, cas, sidecars, target, apply, applies>>

ObjectPushed(o) ==
    /\ o \in source.objects /\ upstream' = upstream \cup {o}
    /\ UNCHANGED <<source, cas, capture, sidecars, target, apply, writes, applies>>

ObjectPruned(o) ==
    /\ Spends /\ source' = [source EXCEPT !.objects = @ \ {o}]
    /\ UNCHANGED <<upstream, cas, capture, sidecars, target, apply, applies>>

ChunkLost(c) ==
    /\ Spends /\ cas' = [cas EXCEPT !.chunks = @ \ {c}]
    /\ UNCHANGED <<source, upstream, capture, sidecars, target, apply, applies>>
-----------------------------------------------------------------------------
(* inspect_lfs_objects sees an object only where the work tree's file is   *)
(* the pointer.                                                             *)
Pointers == Objects \ source.smudged

(* ensure_lfs_report_objects_available *)
PointersAnswered == Pointers \subseteq source.objects

(* Objects that only the source has, when the capture knows the server. *)
LocalOnly(aware) == IF aware THEN Pointers \ upstream ELSE {}

BeginCapture(aware) ==
    /\ capture.pc = "idle" /\ sidecars = NoSnapshot
    /\ PointersAnswered
    /\ capture' = [NoCapture EXCEPT !.pc = "next", !.aware = aware, !.before = source.files,
                       !.todo = Large \cup LocalOnly(aware)]
    /\ UNCHANGED <<source, upstream, cas, sidecars, target, apply, writes, applies>>

(* A capture takes files before objects, one after the other. *)
NextOf(todo) == IF todo \cap Large # {} THEN CHOOSE f \in todo \cap Large : TRUE
                ELSE CHOOSE o \in todo : TRUE

(* The size that the sidecar will state: of a file what its metadata say,  *)
(* of an object what the pointer says, if the object is there.             *)
StatItem ==
    /\ capture.pc = "next" /\ capture.todo # {}
    /\ LET item == NextOf(capture.todo) IN
       /\ item \in Objects => item \in source.objects
       /\ capture' = [capture EXCEPT !.pc = "read", !.item = item, !.chunks = <<>>,
                          !.size = IF item \in Large THEN Len(source.files[item]) ELSE 1]
    /\ UNCHANGED <<source, upstream, cas, sidecars, target, apply, writes, applies>>

BytesOf(item) == IF item \in Large THEN source.files[item] ELSE <<item>>

(* upload_chunk *)
StoreChunk(chunk) == cas' = [cas EXCEPT !.chunks = @ \cup {chunk}]

(* One read of upload_file_chunks or upload_lfs_object_chunks, which stay  *)
(* at their offset.                                                         *)
ReadChunk ==
    LET at == Len(capture.chunks) + 1 IN
    /\ capture.pc = "read" /\ at <= Len(BytesOf(capture.item))
    /\ capture.item \in Objects => capture.item \in source.objects
    /\ StoreChunk(BytesOf(capture.item)[at])
    /\ capture' = [capture EXCEPT !.chunks = Append(@, BytesOf(capture.item)[at])]
    /\ UNCHANGED <<source, upstream, sidecars, target, apply, writes, applies>>

(* create_manifest looks at every chunk once more. *)
NameManifest ==
    /\ capture.pc = "read" /\ Len(capture.chunks) >= Len(BytesOf(capture.item))
    /\ ToSet(capture.chunks) \subseteq cas.chunks
    /\ cas' = [cas EXCEPT !.manifests = @ \cup {capture.chunks}]
    /\ capture' = [capture EXCEPT !.pc = "next", !.todo = @ \ {capture.item},
           !.taken = [i \in DOMAIN @ \cup {capture.item} |->
               IF i = capture.item THEN [size |-> capture.size, manifest |-> capture.chunks] ELSE @[i]]]
    /\ UNCHANGED <<source, upstream, sidecars, target, apply, writes, applies>>

CaptureStops ==
    /\ capture.pc \in {"next", "read"} /\ capture' = NoCapture
    /\ UNCHANGED <<source, upstream, cas, sidecars, target, apply, writes, applies>>

CaptureEnds ==
    /\ capture.pc = "next" /\ capture.todo = {}
    /\ capture' = [NoCapture EXCEPT !.pc = "done"]
    /\ sidecars' = [pc |-> "taken", of |-> capture.taken, before |-> capture.before,
                    seen |-> IF capture.aware THEN Pointers ELSE {}]
    /\ UNCHANGED <<source, upstream, cas, target, apply, writes, applies>>
-----------------------------------------------------------------------------
Items == DOMAIN sidecars.of

(* fetch_sidecar_manifest: the sizes have to agree. *)
ManifestFits(i) ==
    /\ sidecars.of[i].manifest \in cas.manifests
    /\ Len(sidecars.of[i].manifest) = sidecars.of[i].size

(* Large files that an apply has put there are untracked files, and so is  *)
(* what one leaves behind that is cut off: a target with either is dirty.  *)
TargetClean == ~target.leftover /\ \A f \in Large : target.files[f] = <<>>

(* ensure_sidecars_available *)
SidecarsAtHand == \A i \in Items : ManifestFits(i) /\ ToSet(sidecars.of[i].manifest) \subseteq cas.chunks

(* ensure_snapshot_lfs_objects_available_or_sidecars looks at the source. *)
ObjectsAtHand == Objects \subseteq source.objects \cup Items

(* The checks before an apply and its Git part. *)
BeginApply ==
    /\ sidecars # NoSnapshot /\ apply.pc \in {"idle", "failed", "applied"}
    /\ applies < MaxApplies /\ applies' = applies + 1
    /\ SidecarsAtHand /\ TargetClean /\ ObjectsAtHand
    /\ target' = [target EXCEPT !.base = TRUE]
    /\ apply' = [NoApply EXCEPT !.pc = "next", !.todo = Items]
    /\ UNCHANGED <<source, upstream, cas, capture, sidecars, writes>>

(* Sidecars come in the order of their paths, an object's being under .git. *)
NextSidecar ==
    /\ apply.pc = "next"
    /\ \E item \in apply.todo :
          /\ ManifestFits(item)
          /\ apply' = [apply EXCEPT !.pc = "write", !.item = item, !.part = <<>>]
    /\ UNCHANGED <<source, upstream, cas, capture, sidecars, target, writes, applies>>

(* materialize_one_sidecar writes a temporary file beside its target, which *)
(* is in the work tree if that is a large file.                             *)
Wanted == sidecars.of[apply.item].manifest
NextChunk == Wanted[Len(apply.part) + 1]

\* Mutant: the chunks are written to the file itself.
WritesInPlace(part) ==
    target' = IF apply.item \in Large THEN [target EXCEPT !.files[apply.item] = part] ELSE target
WritesAside(part) == target' = [target EXCEPT !.leftover = apply.item \in Large]

WriteChunk ==
    /\ apply.pc = "write" /\ Len(apply.part) < Len(Wanted)
    /\ NextChunk \in cas.chunks
    /\ apply' = [apply EXCEPT !.part = Append(@, NextChunk)]
    /\ WritesAside(Append(apply.part, NextChunk))
    /\ UNCHANGED <<source, upstream, cas, capture, sidecars, writes, applies>>

(* The rename, the file's mode, and verify_materialized_sidecar. *)
PlaceSidecar ==
    /\ apply.pc = "write" /\ apply.part = Wanted
    /\ target' = IF apply.item \in Large
                 THEN [target EXCEPT !.files[apply.item] = apply.part, !.leftover = FALSE]
                 ELSE [target EXCEPT !.objects = @ \cup {apply.item}, !.leftover = FALSE]
    /\ apply' = [apply EXCEPT !.pc = "next", !.todo = @ \ {apply.item}, !.part = <<>>]
    /\ UNCHANGED <<source, upstream, cas, capture, sidecars, writes, applies>>

(* An error removes the temporary file; a process that ends leaves it. *)
ApplyFails ==
    /\ apply.pc \in {"next", "write"} /\ apply' = [NoApply EXCEPT !.pc = "failed"]
    /\ target' \in {target, [target EXCEPT !.leftover = FALSE]}
    /\ UNCHANGED <<source, upstream, cas, capture, sidecars, writes, applies>>

ApplyEnds ==
    /\ apply.pc = "next" /\ apply.todo = {}
    /\ apply' = [NoApply EXCEPT !.pc = "applied"]
    /\ UNCHANGED <<source, upstream, cas, capture, sidecars, target, writes, applies>>

(* The user clears the target to try again. *)
CleanTarget ==
    /\ apply.pc = "failed" /\ ~TargetClean
    /\ target' = [target EXCEPT !.files = [f \in Large |-> <<>>], !.leftover = FALSE]
    /\ UNCHANGED <<source, upstream, cas, capture, sidecars, apply, writes, applies>>

SidecarNext ==
    \/ \E f \in Large : UserWrites(f)
    \/ \E o \in Objects : ObjectPushed(o) \/ ObjectPruned(o)
    \/ \E c \in cas.chunks : ChunkLost(c)
    \/ \E aware \in BOOLEAN : BeginCapture(aware)
    \/ StatItem \/ ReadChunk \/ NameManifest \/ CaptureStops \/ CaptureEnds
    \/ BeginApply \/ NextSidecar \/ WriteChunk \/ PlaceSidecar \/ ApplyFails \/ ApplyEnds \/ CleanTarget
-----------------------------------------------------------------------------
(* A large file at the target is never a part of one: it is absent or has  *)
(* the size that the snapshot states.  After an apply that succeeded it is *)
(* what the snapshot holds, which is the file as the source had it unless  *)
(* somebody wrote to it during the capture; and every LFS object that the  *)
(* capture could see is at the target or can be had from the server.       *)
SidecarsArriveWhole ==
    sidecars # NoSnapshot =>
        /\ \A f \in Large : target.files[f] # <<>> => Len(target.files[f]) = sidecars.of[f].size
        /\ apply.pc = "applied" =>
              /\ target.base
              /\ \A f \in Large : target.files[f] = sidecars.of[f].manifest
              /\ sidecars.before # NoSidecars => target.files = sidecars.before
              /\ sidecars.seen \subseteq target.objects \cup upstream
=============================================================================
