--------------------------- MODULE SnapshotUpload ---------------------------
(***************************************************************************)
(* Publishing a snapshot to the anchor: publish_snapshot_canonical_with_   *)
(* data writes a pending marker, copies the Git objects and the sidecars,  *)
(* verifies them and only then stores the metadata row; cleanup_pending_   *)
(* snapshot_upload takes back what a failed upload left behind;            *)
(* run_guarded_gc prunes the anchor repository.                            *)
(* (crates/devrelay-core/src/snapshot_upload.rs, anchor_snapshot.rs and    *)
(* cas.rs.)                                                                *)
(*                                                                         *)
(* The three stores (Git repository, chunk store, database) have no common *)
(* transaction: every action is one write to one of them, and a process    *)
(* may stop between any two.                                               *)
(***************************************************************************)
EXTENDS Naturals, Sequences, FiniteSets

CONSTANTS
    Snapshots,   \* snapshot ids
    Chunks,      \* CAS chunk hashes
    Sidecars,    \* the sidecar files of a snapshot, each by its chunks
    Uploaders    \* processes that publish

ASSUME SidecarsAssumption == Sidecars \in [Snapshots -> Seq(SUBSET Chunks)]

Refs == {"index", "work"}

VARIABLES
    markers,    \* snapshots with a file in devrelay-pending-uploads
    objects,    \* the commits of each snapshot in the anchor repository
    refs,       \* the refs of each snapshot in the anchor repository
    chunks,     \* chunk files of the anchor CAS
    manifests,  \* manifest files of the anchor CAS: a manifest is its chunk set
    roots,      \* the sidecars of each snapshot with a reachability root
    rows,       \* snapshots with a row in the snapshots table
    uploads,    \* what each uploader is doing
    cleaning,   \* what cleanup is doing
    gc,         \* what run_guarded_gc is doing
    disturbed   \* snapshots whose cleanup was called when it should not be

stores == <<markers, objects, refs, chunks, manifests, roots, rows>>
vars == <<stores, uploads, cleaning, gc, disturbed>>

NoUpload == [pc |-> "idle"]
Phases == {"fetch", "refs", "sidecar", "verify", "publish", "finish"}
Upload == [pc: Phases, snapshot: Snapshots, sidecar: Nat \ {0}]

UploadAt(u, pc) == uploads[u].pc = pc
Snap(u) == uploads[u].snapshot
Goto(u, pc, sidecar) ==
    uploads' = [uploads EXCEPT ![u] = [pc |-> pc, snapshot |-> Snap(u), sidecar |-> sidecar]]
Uploading(s) == \E u \in Uploaders : uploads[u] # NoUpload /\ Snap(u) = s

NoCleanup == [step |-> "idle"]
Cleanup == [step : {"index", "work", "roots", "marker"}, snapshot : Snapshots, cas : BOOLEAN]
Cleans(s) == cleaning # NoCleanup /\ cleaning.snapshot = s

-----------------------------------------------------------------------------
(* publish_snapshot_canonical_with_data                                    *)

\* mark_snapshot_upload_pending: a retry overwrites the marker.
MarkPending(u, s) ==
    /\ UploadAt(u, "idle")
    /\ markers' = markers \cup {s}
    /\ uploads' = [uploads EXCEPT ![u] = [pc |-> "fetch", snapshot |-> s, sidecar |-> 1]]
    /\ disturbed' = IF Cleans(s) THEN disturbed \cup {s} ELSE disturbed
    /\ UNCHANGED <<objects, refs, chunks, manifests, roots, rows, cleaning, gc>>

\* import_snapshot_from_repo: git fetch stores the objects, then each ref,
\* which it does not write without its object.
FetchObjects(u) ==
    /\ UploadAt(u, "fetch")
    /\ objects' = [objects EXCEPT ![Snap(u)] = Refs]
    /\ Goto(u, "refs", 1)
    /\ UNCHANGED <<markers, refs, chunks, manifests, roots, rows, cleaning, gc, disturbed>>

FetchRef(u, r) ==
    /\ UploadAt(u, "refs")
    /\ r \in objects[Snap(u)] \ refs[Snap(u)]
    /\ refs' = [refs EXCEPT ![Snap(u)] = @ \cup {r}]
    /\ UNCHANGED <<markers, objects, chunks, manifests, roots, rows, uploads, cleaning, gc, disturbed>>

\* ensure_snapshot_objects
GitAvailable(s) == refs[s] = Refs /\ objects[s] = Refs

\* The import is over; the first sidecar is next, if there is one.
GoToSidecar(u, sidecar) ==
    Goto(u, IF sidecar > Len(Sidecars[Snap(u)]) THEN "verify" ELSE "sidecar", sidecar)

ImportDone(u) ==
    /\ UploadAt(u, "refs")
    /\ GitAvailable(Snap(u))
    /\ GoToSidecar(u, 1)
    /\ UNCHANGED <<stores, cleaning, gc, disturbed>>

\* copy_snapshot_sidecars_to_anchor_cas, one sidecar after the other: each
\* chunk that is not there, then the manifest, which is refused while a chunk
\* is missing, then the reachability root, refused without the manifest.
Copied(u) == Sidecars[Snap(u)][uploads[u].sidecar]

UploadChunk(u, c) ==
    /\ UploadAt(u, "sidecar")
    /\ c \in Copied(u) \ chunks
    /\ chunks' = chunks \cup {c}
    /\ UNCHANGED <<markers, objects, refs, manifests, roots, rows, uploads, cleaning, gc, disturbed>>

CreateManifest(u) ==
    /\ UploadAt(u, "sidecar")
    /\ Copied(u) \subseteq chunks
    /\ manifests' = manifests \cup {Copied(u)}
    /\ UNCHANGED <<markers, objects, refs, chunks, roots, rows, uploads, cleaning, gc, disturbed>>

AddReachabilityRoot(u) ==
    /\ UploadAt(u, "sidecar")
    /\ Copied(u) \in manifests
    /\ roots' = [roots EXCEPT ![Snap(u)] = @ \cup {uploads[u].sidecar}]
    /\ GoToSidecar(u, uploads[u].sidecar + 1)
    /\ UNCHANGED <<markers, objects, refs, chunks, manifests, rows, cleaning, gc, disturbed>>

\* ensure_snapshot_sidecars_in_anchor_cas
SidecarsAvailable(s) ==
    \A i \in DOMAIN Sidecars[s] : Sidecars[s][i] \in manifests /\ Sidecars[s][i] \subseteq chunks

\* Mutant: the data is not verified before the metadata is stored.
SkipVerification(u) ==
    /\ \E pc \in {"refs", "sidecar", "verify"} : UploadAt(u, pc)
    /\ Goto(u, "publish", 1)
    /\ UNCHANGED <<stores, cleaning, gc, disturbed>>

VerifyData(u) ==
    /\ UploadAt(u, "verify")
    /\ GitAvailable(Snap(u))
    /\ SidecarsAvailable(Snap(u))
    /\ Goto(u, "publish", 1)
    /\ UNCHANGED <<stores, cleaning, gc, disturbed>>

\* MetadataDb::publish_snapshot_canonical (LeaseHandoff models what else it
\* decides): the row is stored, or the publish is refused; a second row for a
\* snapshot always is.
PublishMetadata(u) ==
    /\ UploadAt(u, "publish")
    /\ rows' \in {rows, rows \cup {Snap(u)}}
    /\ Goto(u, "finish", 1)
    /\ UNCHANGED <<markers, objects, refs, chunks, manifests, roots, cleaning, gc, disturbed>>

\* Mutant: the marker is dropped whatever the publish returned.
FinishAlways(u) ==
    /\ UploadAt(u, "finish")
    /\ markers' = markers \ {Snap(u)}
    /\ uploads' = [uploads EXCEPT ![u] = NoUpload]
    /\ UNCHANGED <<objects, refs, chunks, manifests, roots, rows, cleaning, gc, disturbed>>

\* finish_snapshot_upload, only when the snapshot has a row.
FinishUpload(u) ==
    /\ UploadAt(u, "finish")
    /\ markers' = IF Snap(u) \in rows THEN markers \ {Snap(u)} ELSE markers
    /\ uploads' = [uploads EXCEPT ![u] = NoUpload]
    /\ UNCHANGED <<objects, refs, chunks, manifests, roots, rows, cleaning, gc, disturbed>>

\* An error of any step, a repository over its quota, a full disk, a lost
\* connection or a crash.
UploadStops(u) ==
    /\ uploads[u] # NoUpload
    /\ uploads' = [uploads EXCEPT ![u] = NoUpload]
    /\ UNCHANGED <<stores, cleaning, gc, disturbed>>

-----------------------------------------------------------------------------
(* cleanup_pending_snapshot_upload, which asks for nothing but a marker.   *)
(* Its caller has to see to it that the snapshot has no row and no upload, *)
(* and to give it the CAS that holds the snapshot's sidecars.              *)

CleanupStarts(s, cas) ==
    /\ cleaning = NoCleanup
    /\ s \in markers
    /\ cleaning' = [step |-> "index", snapshot |-> s, cas |-> cas]
    /\ disturbed' = IF s \in rows \/ Uploading(s) \/ (~cas /\ Sidecars[s] # <<>>)
                    THEN disturbed \cup {s} ELSE disturbed
    /\ UNCHANGED <<stores, uploads, gc>>

CleanupGoes(step) == cleaning' = [cleaning EXCEPT !.step = step]

\* git update-ref -d, which does nothing when there is no such ref.
CleanupDeletesRef(r) ==
    /\ cleaning.step = r
    /\ refs' = [refs EXCEPT ![cleaning.snapshot] = @ \ {r}]
    /\ CleanupGoes(IF r = "index" THEN "work" ELSE IF cleaning.cas THEN "roots" ELSE "marker")
    /\ UNCHANGED <<markers, objects, chunks, manifests, roots, rows, uploads, gc, disturbed>>

\* The roots in their order, each of which may be missing.
CleanupRemovesRoot ==
    /\ cleaning.step = "roots"
    /\ LET there == roots[cleaning.snapshot]
       IN IF there = {}
          THEN CleanupGoes("marker") /\ UNCHANGED roots
          ELSE /\ \E i \in there : /\ \A j \in there : i <= j
                                   /\ roots' = [roots EXCEPT ![cleaning.snapshot] = @ \ {i}]
               /\ UNCHANGED cleaning
    /\ UNCHANGED <<markers, objects, refs, chunks, manifests, rows, uploads, gc, disturbed>>

CleanupRemovesMarker ==
    /\ cleaning.step = "marker"
    /\ markers' = markers \ {cleaning.snapshot}
    /\ cleaning' = NoCleanup
    /\ UNCHANGED <<objects, refs, chunks, manifests, roots, rows, uploads, gc, disturbed>>

CleanupStops ==
    /\ cleaning # NoCleanup
    /\ cleaning' = NoCleanup
    /\ UNCHANGED <<stores, uploads, gc, disturbed>>

-----------------------------------------------------------------------------
(* anchor_maintenance and run_guarded_gc                                   *)

NoGc == [pc |-> "idle", known |-> {}]
GcGoes(pc, known) ==
    /\ gc' = [pc |-> pc, known |-> known]
    /\ UNCHANGED <<stores, uploads, cleaning, disturbed>>

\* anchor_known_snapshot_ids
GcReadsRows == gc.pc = "idle" /\ GcGoes("orphans", rows)

\* Refused while a ref belongs to no known row,
GcScansOrphans ==
    /\ gc.pc = "orphans"
    /\ \A s \in Snapshots \ gc.known : refs[s] = {}
    /\ GcGoes("missing", gc.known)

\* while a known row lacks a ref,
GcScansMissing ==
    /\ gc.pc = "missing"
    /\ \A s \in gc.known : refs[s] = Refs
    /\ GcGoes("fsck", gc.known)

\* and while a ref lacks its objects.
GcVerifies ==
    /\ gc.pc = "fsck"
    /\ \A s \in Snapshots : refs[s] \subseteq objects[s]
    /\ GcGoes("prune", gc.known)

\* git gc --prune=now, as one step: what Git itself does when a fetch comes
\* between its reading of the refs and its deleting of objects is not
\* modelled.  The work commit comes after the index commit.
GcPrunes ==
    /\ gc.pc = "prune"
    /\ objects' = [s \in Snapshots |->
                     IF "work" \in refs[s] THEN objects[s] ELSE objects[s] \cap refs[s]]
    /\ gc' = NoGc
    /\ UNCHANGED <<markers, refs, chunks, manifests, roots, rows, uploads, cleaning, disturbed>>

GcStops == gc # NoGc /\ GcGoes("idle", {})

-----------------------------------------------------------------------------
Init ==
    /\ markers = {} /\ objects = [s \in Snapshots |-> {}] /\ refs = [s \in Snapshots |-> {}]
    /\ chunks = {} /\ manifests = {} /\ roots = [s \in Snapshots |-> {}] /\ rows = {}
    /\ uploads = [u \in Uploaders |-> NoUpload]
    /\ cleaning = NoCleanup /\ gc = NoGc /\ disturbed = {}

UploadSteps(u) ==
    \/ \E s \in Snapshots : MarkPending(u, s)
    \/ FetchObjects(u)
    \/ \E r \in Refs : FetchRef(u, r)
    \/ ImportDone(u)
    \/ \E c \in Chunks : UploadChunk(u, c)
    \/ CreateManifest(u) \/ AddReachabilityRoot(u)
    \/ VerifyData(u) \/ PublishMetadata(u) \/ FinishUpload(u) \/ UploadStops(u)

Next ==
    \/ \E u \in Uploaders : UploadSteps(u)
    \/ \E s \in Snapshots, cas \in BOOLEAN : CleanupStarts(s, cas)
    \/ \E r \in Refs : CleanupDeletesRef(r)
    \/ CleanupRemovesRoot \/ CleanupRemovesMarker \/ CleanupStops
    \/ GcReadsRows \/ GcScansOrphans \/ GcScansMissing \/ GcVerifies \/ GcPrunes \/ GcStops

Spec == Init /\ [][Next]_vars
-----------------------------------------------------------------------------
(* Properties                                                              *)

(* The stores only hold what uploads of known snapshots put there.         *)
TypeOK ==
    /\ markers \subseteq Snapshots
    /\ objects \in [Snapshots -> SUBSET Refs]
    /\ refs \in [Snapshots -> SUBSET Refs]
    /\ chunks \subseteq Chunks
    /\ manifests \subseteq SUBSET Chunks
    /\ roots \in [Snapshots -> SUBSET (Nat \ {0})]
    /\ rows \subseteq Snapshots
    /\ uploads \in [Uploaders -> Upload \cup {NoUpload}]
    /\ cleaning \in Cleanup \cup {NoCleanup}
    /\ gc \in [pc : {"idle", "orphans", "missing", "fsck", "prune"}, known : SUBSET Snapshots]
    /\ disturbed \subseteq Snapshots

Rooted(s) == DOMAIN Sidecars[s] \subseteq roots[s]
Available(s) == GitAvailable(s) /\ SidecarsAvailable(s)

(* Whatever fails, and in whatever order uploads of the same snapshot run, *)
(* a snapshot with a metadata row can be served by the anchor: both refs,  *)
(* their objects, and the manifest, chunks and root of every sidecar are   *)
(* there ("Publish metadata only after data availability").  A cleanup of  *)
(* a snapshot that is published or being uploaded undoes it.               *)
PublishedDataPresent == \A s \in rows \ disturbed : Available(s) /\ Rooted(s)

(* What an upload that never published has left in the anchor stores can   *)
(* be found: refs and reachability roots without a row have their marker,  *)
(* so cleanup reaches them.                                                *)
LeftoversMarked ==
    \A s \in Snapshots \ (rows \cup disturbed) : refs[s] # {} \/ roots[s] # {} => s \in markers

(* What the anchor's three stores hold of a snapshot is accounted for: a    *)
(* row has its data, and data without a row a marker.                       *)
UploadsAreAccounted == PublishedDataPresent /\ LeftoversMarked

(* The inductive form of the two invariants.  An upload that has verified  *)
(* its data still has it when it publishes; the roots of the sidecars that *)
(* it has behind it are there; an upload in progress has a marker until    *)
(* there is a row; a cleanup that disturbs nothing works on a snapshot     *)
(* that has neither a row nor an upload, and when it is about to remove    *)
(* the marker nothing is left.                                             *)
UploadInv(u) ==
    UploadAt(u, "idle") \/ Snap(u) \in disturbed
    \/ /\ UploadAt(u, "sidecar") => uploads[u].sidecar \in DOMAIN Sidecars[Snap(u)]
       /\ UploadAt(u, "sidecar") => \A i \in 1 .. uploads[u].sidecar - 1 : i \in roots[Snap(u)]
       /\ UploadAt(u, "verify") \/ UploadAt(u, "publish") => Rooted(Snap(u))
       /\ UploadAt(u, "publish") => Available(Snap(u))

CleanupInv ==
    cleaning = NoCleanup \/ cleaning.snapshot \in disturbed
    \/ LET s == cleaning.snapshot
       IN /\ s \notin rows /\ ~ Uploading(s)
          /\ cleaning.step \in {"work", "roots", "marker"} => "index" \notin refs[s]
          /\ cleaning.step \in {"roots", "marker"} => refs[s] = {}
          /\ cleaning.cas \/ Sidecars[s] = <<>>
          /\ cleaning.step = "marker" => roots[s] = {}

DataInv ==
    /\ PublishedDataPresent
    /\ \A u \in Uploaders : UploadInv(u)
    /\ \A s \in Snapshots \ (rows \cup disturbed) :
          /\ Uploading(s) \/ refs[s] # {} \/ roots[s] # {} => s \in markers
          /\ roots[s] \subseteq DOMAIN Sidecars[s]
    /\ CleanupInv

=============================================================================
