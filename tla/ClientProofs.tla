---------------------------- MODULE ClientProofs -----------------------------
(* Proofs about what the clients of an agent rely on.  What was published  *)
(* at the anchor can be served and what was left over can be found, for    *)
(* any number of snapshots, sidecars, chunks and uploaders, of every       *)
(* snapshot that no cleanup has disturbed.  A target gets a snapshot over  *)
(* a route that works, with its large files whole, and is not touched by   *)
(* one that it cannot hold, for any files, objects, writes, changes and    *)
(* paths.  And who reads an agent's tables reads what stays true: reports, *)
(* lists of handoffs, leases, snapshots and projects, and activity lists,  *)
(* for any number of readers, projects, rows and answers still to come.    *)
EXTENDS MCClients, FiniteSetTheorems, DataInduction, TLAPS

(* The sidecars of a snapshot are a list of sets of chunks.                *)
LEMMA SidecarList ==
    ASSUME NEW s \in Snapshots
    PROVE  /\ Sidecars[s] \in Seq(SUBSET Chunks)
           /\ Len(Sidecars[s]) \in Nat
           /\ DOMAIN Sidecars[s] = 1 .. Len(Sidecars[s])
BY SidecarsAssumption

(* A step taken by an upload is a step of one whose snapshot is known.     *)
LEMMA UploadKnown ==
    ASSUME TypeOK, NEW u \in Uploaders, uploads[u].pc # "idle"
    PROVE  /\ uploads[u] # NoUpload /\ Snap(u) \in Snapshots /\ uploads[u] \in Upload
           /\ uploads[u].sidecar \in Nat \ {0}
BY DEF TypeOK, Upload, NoUpload, Snap

(* Where an upload goes, it goes with its snapshot.                        *)
LEMMA GoesOn ==
    ASSUME TypeOK, NEW u \in Uploaders, NEW pc, NEW k, Goto(u, pc, k)
    PROVE  /\ uploads'[u] = [pc |-> pc, snapshot |-> Snap(u), sidecar |-> k]
           /\ \A v \in Uploaders : v # u => uploads'[v] = uploads[v]
BY DEF TypeOK, Goto

LEMMA GoesOnTyped ==
    ASSUME TypeOK, NEW u \in Uploaders, NEW pc \in Phases, NEW k \in Nat \ {0},
           uploads[u].pc # "idle", Goto(u, pc, k)
    PROVE  uploads' \in [Uploaders -> Upload \cup {NoUpload}]
<1>1. Snap(u) \in Snapshots BY UploadKnown
<1> QED BY <1>1 DEF TypeOK, Goto, Upload

(* Every step of the stores, the uploads, cleanup and gc keeps the types.  *)
LEMMA TypeUploadStep ==
    ASSUME TypeOK, NEW u \in Uploaders, UploadSteps(u)
    PROVE  TypeOK'
<1>1. CASE \E s \in Snapshots : MarkPending(u, s)
  BY <1>1 DEF TypeOK, MarkPending, Upload, Phases
<1>2. CASE FetchObjects(u)
  <2>1. uploads' \in [Uploaders -> Upload \cup {NoUpload}]
    BY <1>2, GoesOnTyped DEF FetchObjects, UploadAt, Phases
  <2> QED BY <2>1, <1>2 DEF TypeOK, FetchObjects
<1>3. CASE \E r \in Refs : FetchRef(u, r)
  <2> PICK r \in Refs : FetchRef(u, r) BY <1>3
  <2>1. refs' \in [Snapshots -> SUBSET Refs] BY DEF TypeOK, FetchRef
  <2> QED BY <2>1 DEF TypeOK, FetchRef
<1>4. CASE ImportDone(u)
  <2>1. uploads' \in [Uploaders -> Upload \cup {NoUpload}]
    BY <1>4, GoesOnTyped DEF ImportDone, GoToSidecar, UploadAt, Phases
  <2> QED BY <2>1, <1>4 DEF TypeOK, ImportDone, stores
<1>5. CASE \E c \in Chunks : UploadChunk(u, c)
  BY <1>5 DEF TypeOK, UploadChunk
<1>6. CASE CreateManifest(u)
  BY <1>6 DEF TypeOK, CreateManifest
<1>7. CASE AddReachabilityRoot(u)
  <2>1. Snap(u) \in Snapshots /\ uploads[u].sidecar \in Nat \ {0} /\ uploads[u].pc # "idle"
    BY <1>7, UploadKnown DEF AddReachabilityRoot, UploadAt
  <2>2. uploads[u].sidecar + 1 \in Nat \ {0} BY <2>1
  <2>3. uploads' \in [Uploaders -> Upload \cup {NoUpload}]
    BY <1>7, <2>1, <2>2, GoesOnTyped DEF AddReachabilityRoot, GoToSidecar, Phases
  <2>4. roots' \in [Snapshots -> SUBSET (Nat \ {0})]
    BY <1>7, <2>1 DEF TypeOK, AddReachabilityRoot
  <2> QED BY <2>3, <2>4, <1>7 DEF TypeOK, AddReachabilityRoot
<1>8. CASE VerifyData(u)
  <2>1. uploads' \in [Uploaders -> Upload \cup {NoUpload}]
    BY <1>8, GoesOnTyped DEF VerifyData, UploadAt, Phases
  <2> QED BY <2>1, <1>8 DEF TypeOK, VerifyData, stores
<1>9. CASE PublishMetadata(u)
  <2>1. uploads' \in [Uploaders -> Upload \cup {NoUpload}] /\ Snap(u) \in Snapshots
    BY <1>9, GoesOnTyped, UploadKnown DEF PublishMetadata, UploadAt, Phases
  <2> QED BY <2>1, <1>9 DEF TypeOK, PublishMetadata
<1>10. CASE FinishUpload(u) \/ UploadStops(u)
  BY <1>10 DEF TypeOK, FinishUpload, UploadStops, stores
<1> QED
  BY <1>1, <1>2, <1>3, <1>4, <1>5, <1>6, <1>7, <1>8, <1>9, <1>10 DEF UploadSteps

CleanupSteps ==
    \/ \E s \in Snapshots, has \in BOOLEAN : CleanupStarts(s, has)
    \/ \E r \in Refs : CleanupDeletesRef(r)
    \/ CleanupRemovesRoot \/ CleanupRemovesMarker \/ CleanupStops
GcSteps == GcReadsRows \/ GcScansOrphans \/ GcScansMissing \/ GcVerifies \/ GcPrunes \/ GcStops

(* A cleanup that has a step before it knows its snapshot.                 *)
LEMMA CleanupKnown ==
    ASSUME TypeOK, cleaning.step # "idle"
    PROVE  cleaning \in Cleanup /\ cleaning.snapshot \in Snapshots /\ cleaning # NoCleanup
BY DEF TypeOK, Cleanup, NoCleanup

LEMMA TypeStep == TypeOK /\ [Next]_vars => TypeOK'
<1> SUFFICES ASSUME TypeOK, [Next]_vars PROVE TypeOK'
  OBVIOUS
<1>1. CASE \E u \in Uploaders : UploadSteps(u)
  BY <1>1, TypeUploadStep
<1>2. CASE \E s \in Snapshots, has \in BOOLEAN : CleanupStarts(s, has)
  BY <1>2 DEF TypeOK, CleanupStarts, Cleanup, stores
<1>3. CASE \E r \in Refs : CleanupDeletesRef(r)
  <2> PICK r \in Refs : CleanupDeletesRef(r) BY <1>3
  <2>1. cleaning \in Cleanup BY CleanupKnown DEF CleanupDeletesRef, Refs
  <2>2. cleaning' \in Cleanup
    BY <2>1 DEF CleanupDeletesRef, CleanupGoes, Cleanup
  <2> QED BY <2>1, <2>2 DEF TypeOK, CleanupDeletesRef
<1>4. CASE CleanupRemovesRoot
  <2>1. cleaning \in Cleanup BY <1>4, CleanupKnown DEF CleanupRemovesRoot
  <2>2. cleaning' \in Cleanup
    BY <1>4, <2>1 DEF CleanupRemovesRoot, CleanupGoes, Cleanup
  <2>3. roots' \in [Snapshots -> SUBSET (Nat \ {0})]
    BY <1>4 DEF TypeOK, CleanupRemovesRoot
  <2> QED BY <1>4, <2>2, <2>3 DEF TypeOK, CleanupRemovesRoot
<1>5. CASE CleanupRemovesMarker \/ CleanupStops
  BY <1>5 DEF TypeOK, CleanupRemovesMarker, CleanupStops, stores
<1>6. CASE GcPrunes
  BY <1>6 DEF TypeOK, GcPrunes, NoGc
<1>7. CASE GcReadsRows \/ GcScansOrphans \/ GcScansMissing \/ GcVerifies \/ GcStops
  BY <1>7 DEF TypeOK, GcReadsRows, GcScansOrphans, GcScansMissing, GcVerifies, GcStops, GcGoes, stores
<1>8. CASE UNCHANGED vars
  BY <1>8 DEF TypeOK, vars, stores
<1> QED
  BY <1>1, <1>2, <1>3, <1>4, <1>5, <1>6, <1>7, <1>8 DEF Next

(* The anchor's stores always hold what SnapshotUpload says they hold.     *)
THEOREM TypeCorrect == Spec => []TypeOK
<1>1. Init => TypeOK
  BY DEF Init, TypeOK, NoGc
<1> QED BY <1>1, TypeStep, PTL DEF Spec

(* The parts of the invariant.                                             *)
Tracked(s) ==
    /\ Uploading(s) \/ refs[s] # {} \/ roots[s] # {} => s \in markers
    /\ roots[s] \subseteq DOMAIN Sidecars[s]

LEMMA DataInvParts ==
    DataInv <=> /\ PublishedDataPresent
                /\ \A u \in Uploaders : UploadInv(u)
                /\ \A s \in Snapshots \ (rows \cup disturbed) : Tracked(s)
                /\ CleanupInv
BY DEF DataInv, Tracked

(* The steps of an upload in which every store only grows.                 *)
Growing(u) ==
    \/ FetchObjects(u) \/ ImportDone(u)
    \/ \E r \in Refs : FetchRef(u, r)
    \/ \E c \in Chunks : UploadChunk(u, c)
    \/ CreateManifest(u) \/ AddReachabilityRoot(u) \/ VerifyData(u)

(* What they leave alone.                                                  *)
LEMMA GrowingKeeps ==
    ASSUME TypeOK, NEW u \in Uploaders, Growing(u)
    PROVE  /\ uploads[u] # NoUpload /\ Snap(u) \in Snapshots
           /\ markers' = markers /\ rows' = rows /\ cleaning' = cleaning /\ disturbed' = disturbed
           /\ chunks \subseteq chunks' /\ manifests \subseteq manifests'
           /\ \A s \in Snapshots : /\ objects[s] \subseteq objects'[s] /\ objects'[s] \subseteq Refs
                                   /\ refs[s] \subseteq refs'[s] /\ refs'[s] \subseteq Refs
                                   /\ roots[s] \subseteq roots'[s]
                                   /\ s # Snap(u) => refs'[s] = refs[s] /\ roots'[s] = roots[s]
           /\ uploads'[u] # NoUpload /\ Snap(u)' = Snap(u)
           /\ \A v \in Uploaders : v # u => uploads'[v] = uploads[v]
           /\ \A s \in Snapshots : Uploading(s)' <=> Uploading(s)
<1>1. uploads[u].pc # "idle"
  BY DEF Growing, FetchObjects, ImportDone, FetchRef, UploadChunk, CreateManifest, AddReachabilityRoot,
     VerifyData, UploadAt
<1>2. uploads[u] # NoUpload /\ Snap(u) \in Snapshots BY <1>1, UploadKnown
<1>3. /\ markers' = markers /\ rows' = rows /\ cleaning' = cleaning /\ disturbed' = disturbed
      /\ chunks \subseteq chunks' /\ manifests \subseteq manifests'
  BY DEF Growing, FetchObjects, ImportDone, FetchRef, UploadChunk, CreateManifest, AddReachabilityRoot,
     VerifyData, stores
<1>4. \A s \in Snapshots : objects[s] \subseteq objects'[s] /\ objects'[s] \subseteq Refs
  BY <1>2 DEF TypeOK, Growing, FetchObjects, ImportDone, FetchRef, UploadChunk, CreateManifest,
     AddReachabilityRoot, VerifyData, stores
<1>5. \A s \in Snapshots : /\ refs[s] \subseteq refs'[s] /\ refs'[s] \subseteq Refs
                           /\ s # Snap(u) => refs'[s] = refs[s]
  BY <1>2 DEF TypeOK, Growing, FetchObjects, ImportDone, FetchRef, UploadChunk, CreateManifest,
     AddReachabilityRoot, VerifyData, stores
<1>6. \A s \in Snapshots : /\ roots[s] \subseteq roots'[s]
                           /\ s # Snap(u) => roots'[s] = roots[s]
  BY <1>2 DEF TypeOK, Growing, FetchObjects, ImportDone, FetchRef, UploadChunk, CreateManifest,
     AddReachabilityRoot, VerifyData, stores
<1>7. \/ uploads' = uploads
      \/ \E pc \in Phases, k \in Nat : Goto(u, pc, k)
  <2>1. CASE FetchObjects(u) \/ VerifyData(u)
    BY <2>1 DEF FetchObjects, VerifyData, Phases
  <2>2. CASE ImportDone(u) BY <2>2 DEF ImportDone, GoToSidecar, Phases
  <2>3. CASE AddReachabilityRoot(u)
    <3>1. uploads[u].sidecar + 1 \in Nat BY <1>1, UploadKnown
    <3> QED BY <3>1, <2>3 DEF AddReachabilityRoot, GoToSidecar, Phases
  <2>4. CASE (\E r \in Refs : FetchRef(u, r)) \/ (\E c \in Chunks : UploadChunk(u, c)) \/ CreateManifest(u)
    BY <2>4 DEF FetchRef, UploadChunk, CreateManifest
  <2> QED BY <2>1, <2>2, <2>3, <2>4 DEF Growing
<1>8. /\ uploads'[u] # NoUpload /\ Snap(u)' = Snap(u)
      /\ \A v \in Uploaders : v # u => uploads'[v] = uploads[v]
  <2>1. CASE uploads' = uploads BY <2>1, <1>2 DEF Snap
  <2>2. CASE \E pc \in Phases, k \in Nat : Goto(u, pc, k)
    <3> PICK pc \in Phases, k \in Nat : Goto(u, pc, k) BY <2>2
    <3>1. /\ uploads'[u] = [pc |-> pc, snapshot |-> Snap(u), sidecar |-> k]
          /\ \A v \in Uploaders : v # u => uploads'[v] = uploads[v]
      BY GoesOn
    <3>2. uploads'[u].pc # "idle" /\ uploads'[u].snapshot = Snap(u) BY <3>1 DEF Phases
    <3> QED BY <3>1, <3>2 DEF Snap, NoUpload
  <2> QED BY <1>7, <2>1, <2>2
<1>9. \A s \in Snapshots : Uploading(s)' <=> Uploading(s)
  BY <1>2, <1>8 DEF Uploading, Snap
<1> QED BY <1>2, <1>3, <1>4, <1>5, <1>6, <1>8, <1>9

(* An upload that goes on keeps its own part of the invariant.             *)
LEMMA GrowingUpload ==
    ASSUME TypeOK, DataInv, NEW u \in Uploaders, Growing(u)
    PROVE  UploadInv(u)'
<1>1. /\ uploads[u] # NoUpload /\ Snap(u) \in Snapshots /\ Snap(u)' = Snap(u) /\ disturbed' = disturbed
      /\ roots[Snap(u)] \subseteq roots'[Snap(u)]
  BY GrowingKeeps
<1>2. UploadInv(u) BY DataInvParts
<1>3. SUFFICES ASSUME Snap(u) \notin disturbed, ~ UploadAt(u, "idle") PROVE UploadInv(u)'
  <2>1. CASE UploadAt(u, "idle")
    BY <2>1 DEF Growing, FetchObjects, ImportDone, FetchRef, UploadChunk, CreateManifest,
       AddReachabilityRoot, VerifyData, UploadAt
  <2> QED BY <1>1, <2>1 DEF UploadInv
<1>4. CASE FetchObjects(u)
  <2>0. uploads'[u] = [pc |-> "refs", snapshot |-> Snap(u), sidecar |-> 1]
    BY <1>4, GoesOn DEF FetchObjects
  <2>1. uploads'[u].pc = "refs" BY <2>0
  <2> QED BY <2>1 DEF UploadInv, UploadAt
<1>5. CASE (\E r \in Refs : FetchRef(u, r))
  <2>1. uploads'[u].pc = "refs" BY <1>5 DEF FetchRef, UploadAt
  <2> QED BY <2>1 DEF UploadInv, UploadAt
<1>6. CASE ImportDone(u)
  <2>1. uploads'[u] = [pc |-> IF 1 > Len(Sidecars[Snap(u)]) THEN "verify" ELSE "sidecar",
                       snapshot |-> Snap(u), sidecar |-> 1]
    BY <1>6, GoesOn DEF ImportDone, GoToSidecar
  <2>2. CASE 1 > Len(Sidecars[Snap(u)])
    <3>1. DOMAIN Sidecars[Snap(u)] = {} BY <2>2, <1>1, SidecarList
    <3>2. uploads'[u].pc = "verify" BY <2>1, <2>2
    <3> QED BY <1>1, <3>1, <3>2 DEF UploadInv, UploadAt, Rooted
  <2>3. CASE ~(1 > Len(Sidecars[Snap(u)]))
    <3>1. 1 \in DOMAIN Sidecars[Snap(u)] /\ 1 .. 1 - 1 = {} BY <2>3, <1>1, SidecarList
    <3>2. uploads'[u].pc = "sidecar" /\ uploads'[u].sidecar = 1 BY <2>1, <2>3
    <3> QED BY <1>1, <3>1, <3>2 DEF UploadInv, UploadAt
  <2> QED BY <2>2, <2>3
<1>7. CASE (\E c \in Chunks : UploadChunk(u, c)) \/ CreateManifest(u)
  <2>1. uploads' = uploads /\ roots' = roots /\ uploads[u].pc = "sidecar"
    BY <1>7 DEF UploadChunk, CreateManifest, UploadAt
  <2> QED BY <2>1, <1>2, <1>1, <1>3 DEF UploadInv, UploadAt, Snap
<1>8. CASE AddReachabilityRoot(u)
  <2> DEFINE k == uploads[u].sidecar  n == Len(Sidecars[Snap(u)])
  <2>1. /\ k \in DOMAIN Sidecars[Snap(u)]
        /\ \A i \in 1 .. k - 1 : i \in roots[Snap(u)]
    BY <1>8, <1>2, <1>3 DEF UploadInv, AddReachabilityRoot
  <2>2. n \in Nat /\ DOMAIN Sidecars[Snap(u)] = 1 .. n BY <1>1, SidecarList
  <2>3. k \in Nat /\ 1 <= k /\ k <= n BY <2>1, <2>2
  <2>4. roots'[Snap(u)] = roots[Snap(u)] \cup {k} BY <1>8, <1>1 DEF AddReachabilityRoot, TypeOK
  <2>5. \A i \in 1 .. k : i \in roots'[Snap(u)]
    <3> SUFFICES ASSUME NEW i \in 1 .. k PROVE i \in roots'[Snap(u)] OBVIOUS
    <3>1. i = k \/ i \in 1 .. k - 1 BY <2>3
    <3> QED BY <3>1, <2>1, <2>4
  <2>6. uploads'[u] = [pc |-> IF k + 1 > n THEN "verify" ELSE "sidecar",
                       snapshot |-> Snap(u), sidecar |-> k + 1]
    BY <1>8, GoesOn DEF AddReachabilityRoot, GoToSidecar
  <2>7. CASE k + 1 > n
    <3>1. k = n BY <2>7, <2>2, <2>3
    <3>2. Rooted(Snap(u))' BY <3>1, <2>2, <2>5, <1>1 DEF Rooted
    <3>3. uploads'[u].pc = "verify" BY <2>6, <2>7
    <3> QED BY <1>1, <3>2, <3>3 DEF UploadInv, UploadAt
  <2>8. CASE ~(k + 1 > n)
    <3>1. k + 1 \in 1 .. n /\ (k + 1) - 1 = k BY <2>8, <2>2, <2>3
    <3>2. uploads'[u].pc = "sidecar" /\ uploads'[u].sidecar = k + 1 BY <2>6, <2>8
    <3> QED BY <1>1, <3>1, <3>2, <2>2, <2>5 DEF UploadInv, UploadAt
  <2> QED BY <2>7, <2>8
<1>9. CASE VerifyData(u)
  <2>0. uploads'[u] = [pc |-> "publish", snapshot |-> Snap(u), sidecar |-> 1]
    BY <1>9, GoesOn DEF VerifyData
  <2>1. uploads'[u].pc = "publish" BY <2>0
  <2>2. Rooted(Snap(u)) /\ Available(Snap(u))
    BY <1>9, <1>2, <1>3 DEF UploadInv, VerifyData, Available, UploadAt
  <2>3. objects' = objects /\ refs' = refs /\ manifests' = manifests /\ chunks' = chunks /\ roots' = roots
    BY <1>9 DEF VerifyData, stores
  <2> QED BY <1>1, <2>1, <2>2, <2>3
      DEF UploadInv, UploadAt, Rooted, Available, GitAvailable, SidecarsAvailable
<1> QED BY <1>4, <1>5, <1>6, <1>7, <1>8, <1>9 DEF Growing

LEMMA GrowingStep ==
    ASSUME TypeOK, DataInv, NEW u \in Uploaders, Growing(u)
    PROVE  DataInv'
<1>1. /\ uploads[u] # NoUpload /\ Snap(u) \in Snapshots
      /\ markers' = markers /\ rows' = rows /\ cleaning' = cleaning /\ disturbed' = disturbed
      /\ chunks \subseteq chunks' /\ manifests \subseteq manifests'
      /\ \A v \in Uploaders : v # u => uploads'[v] = uploads[v]
      /\ \A s \in Snapshots : Uploading(s)' <=> Uploading(s)
  BY GrowingKeeps
<1>2. \A s \in Snapshots : /\ objects[s] \subseteq objects'[s] /\ objects'[s] \subseteq Refs
                           /\ refs[s] \subseteq refs'[s] /\ refs'[s] \subseteq Refs
                           /\ roots[s] \subseteq roots'[s]
                           /\ s # Snap(u) => refs'[s] = refs[s] /\ roots'[s] = roots[s]
  BY GrowingKeeps
<1>a. Uploading(Snap(u)) BY <1>1 DEF Uploading
<1>3. \A s \in Snapshots : (Available(s) => Available(s)') /\ (Rooted(s) => Rooted(s)')
  BY <1>1, <1>2 DEF Available, GitAvailable, SidecarsAvailable, Rooted
<1>4. PublishedDataPresent'
  BY <1>1, <1>3, DataInvParts DEF PublishedDataPresent, TypeOK
<1>5. \A v \in Uploaders : UploadInv(v)'
  <2> SUFFICES ASSUME NEW v \in Uploaders, v # u PROVE UploadInv(v)' BY GrowingUpload
  <2>1. UploadInv(v) /\ uploads'[v] = uploads[v] BY <1>1, DataInvParts
  <2>2. uploads[v].pc # "idle" => Snap(v) \in Snapshots BY UploadKnown
  <2> QED BY <2>1, <2>2, <1>1, <1>2, <1>3 DEF UploadInv, UploadAt, Snap
<1>6. \A s \in Snapshots \ (rows \cup disturbed) : Tracked(s)'
  <2> SUFFICES ASSUME NEW s \in Snapshots \ (rows \cup disturbed) PROVE Tracked(s)' OBVIOUS
  <2>1. Tracked(s) BY DataInvParts
  <2>2. roots'[s] \subseteq DOMAIN Sidecars[s]
    <3>1. CASE roots' = roots BY <3>1, <2>1 DEF Tracked
    <3>2. CASE AddReachabilityRoot(u)
      <4>1. CASE s = Snap(u)
        <5>1. UploadInv(u) BY DataInvParts
        <5>2. uploads[u].sidecar \in DOMAIN Sidecars[s]
          BY <5>1, <4>1, <3>2 DEF UploadInv, AddReachabilityRoot, UploadAt
        <5>3. roots'[s] = roots[s] \cup {uploads[u].sidecar}
          BY <4>1, <3>2 DEF AddReachabilityRoot, TypeOK
        <5> QED BY <5>2, <5>3, <2>1 DEF Tracked
      <4>2. CASE s # Snap(u) BY <4>2, <1>2, <2>1 DEF Tracked
      <4> QED BY <4>1, <4>2
    <3> QED BY <3>1, <3>2 DEF Growing, FetchObjects, ImportDone, FetchRef, UploadChunk, CreateManifest,
            VerifyData, stores
  <2> QED BY <2>1, <2>2, <1>a, <1>1, <1>2 DEF Tracked
<1>7. CleanupInv'
  <2>1. CASE cleaning = NoCleanup \/ cleaning.snapshot \in disturbed BY <2>1, <1>1 DEF CleanupInv
  <2>2. CASE ~(cleaning = NoCleanup \/ cleaning.snapshot \in disturbed)
    <3>1. cleaning.snapshot \in Snapshots BY <2>2 DEF TypeOK, Cleanup
    <3>2. ~ Uploading(cleaning.snapshot) BY <2>2, DataInvParts DEF CleanupInv
    <3>3. cleaning.snapshot # Snap(u) BY <3>2, <1>a
    <3> QED BY <2>2, <3>1, <3>3, <1>1, <1>2, DataInvParts DEF CleanupInv
  <2> QED BY <2>1, <2>2
<1> QED BY <1>1, <1>4, <1>5, <1>6, <1>7 DEF DataInv, Tracked

(* Cleanup changes the stores of its own snapshot only, which is either    *)
(* disturbed or has neither a row nor an upload.                           *)
LEMMA CleanupStep ==
    ASSUME TypeOK, DataInv, CleanupSteps
    PROVE  DataInv'
<1>1. /\ rows' = rows /\ uploads' = uploads /\ disturbed \subseteq disturbed'
      /\ objects' = objects /\ chunks' = chunks /\ manifests' = manifests
  BY DEF CleanupSteps, CleanupStarts, CleanupDeletesRef, CleanupRemovesRoot, CleanupRemovesMarker,
     CleanupStops, stores
<1>2. \A s \in Snapshots : Uploading(s)' <=> Uploading(s)
  BY <1>1 DEF Uploading, Snap
<1>3. \A s \in Snapshots : ~ Cleans(s) =>
        /\ refs'[s] = refs[s] /\ roots'[s] = roots[s]
        /\ s \in markers' <=> s \in markers
  BY DEF CleanupSteps, CleanupStarts, CleanupDeletesRef, CleanupRemovesRoot, CleanupRemovesMarker,
     CleanupStops, stores, TypeOK, Cleans, NoCleanup, Refs
<1>4. \A s \in Snapshots \ disturbed : s \in rows \/ Uploading(s) => ~ Cleans(s)
  BY DataInvParts DEF CleanupInv, Cleans
<1>5. PublishedDataPresent'
  BY <1>1, <1>3, <1>4, DataInvParts
  DEF PublishedDataPresent, Available, GitAvailable, SidecarsAvailable, Rooted, TypeOK
<1>6. \A v \in Uploaders : UploadInv(v)'
  <2> SUFFICES ASSUME NEW v \in Uploaders, uploads[v].pc # "idle", Snap(v) \notin disturbed
               PROVE UploadInv(v)'
    BY <1>1 DEF UploadInv, UploadAt, Snap
  <2>1. Snap(v) \in Snapshots /\ Uploading(Snap(v)) BY UploadKnown DEF Uploading
  <2>2. UploadInv(v) BY DataInvParts
  <2>3. refs'[Snap(v)] = refs[Snap(v)] /\ roots'[Snap(v)] = roots[Snap(v)] BY <2>1, <1>3, <1>4
  <2> QED BY <2>1, <2>2, <2>3, <1>1
      DEF UploadInv, UploadAt, Snap, Available, GitAvailable, SidecarsAvailable, Rooted
<1>7. CleanupInv'
  <2>1. CASE \E s \in Snapshots, has \in BOOLEAN : CleanupStarts(s, has)
    <3> PICK s \in Snapshots, has \in BOOLEAN : CleanupStarts(s, has) BY <2>1
    <3>1. cleaning' = [step |-> "index", snapshot |-> s, cas |-> has] BY DEF CleanupStarts
    <3>2. CASE s \in rows \/ Uploading(s) \/ (~has /\ Sidecars[s] # <<>>)
      <4>1. s \in disturbed' BY <3>2 DEF CleanupStarts
      <4> QED BY <3>1, <4>1 DEF CleanupInv
    <3>3. CASE s \notin rows /\ ~ Uploading(s) /\ (has \/ Sidecars[s] = <<>>)
      <4>1. /\ cleaning'.snapshot = s /\ cleaning'.step = "index" /\ cleaning'.cas = has BY <3>1
      <4>2. ~ Uploading(s)' BY <3>3, <1>2
      <4> QED BY <3>3, <4>1, <4>2, <1>1 DEF CleanupInv
    <3> QED BY <3>2, <3>3
  <2>2. CASE CleanupRemovesMarker \/ CleanupStops
    BY <2>2 DEF CleanupRemovesMarker, CleanupStops, CleanupInv
  <2>3. CASE (\E r \in Refs : CleanupDeletesRef(r)) \/ CleanupRemovesRoot
    <3> PICK s : s = cleaning.snapshot OBVIOUS
    <3>1. cleaning \in Cleanup /\ s \in Snapshots /\ cleaning # NoCleanup
      BY <2>3, CleanupKnown DEF CleanupDeletesRef, CleanupRemovesRoot, Refs
    <3>2. /\ cleaning'.snapshot = s /\ cleaning'.cas = cleaning.cas /\ disturbed' = disturbed
      BY <2>3, <3>1 DEF CleanupDeletesRef, CleanupRemovesRoot, CleanupGoes, Cleanup
    <3>3. CASE s \in disturbed BY <3>2, <3>3 DEF CleanupInv
    <3>4. CASE s \notin disturbed
      <4>1. /\ s \notin rows /\ ~ Uploading(s)
            /\ cleaning.step \in {"work", "roots", "marker"} => "index" \notin refs[s]
            /\ cleaning.step \in {"roots", "marker"} => refs[s] = {}
            /\ cleaning.cas \/ Sidecars[s] = <<>>
        BY <3>1, <3>4, DataInvParts DEF CleanupInv
      <4>2. s \notin rows' /\ ~ Uploading(s)' BY <4>1, <1>1, <1>2, <3>1
      <4>3. roots[s] \subseteq DOMAIN Sidecars[s] BY <3>1, <3>4, <4>1, DataInvParts DEF Tracked
      <4>4. CASE CleanupDeletesRef("index")
        <5>1. cleaning'.step = "work" /\ "index" \notin refs'[s]
          BY <4>4, <3>1 DEF CleanupDeletesRef, CleanupGoes, TypeOK, Cleanup
        <5> QED BY <5>1, <3>2, <4>1, <4>2 DEF CleanupInv
      <4>5. CASE CleanupDeletesRef("work")
        <5>1. refs'[s] = refs[s] \ {"work"} /\ roots' = roots /\ cleaning.step = "work"
          BY <4>5, <3>1 DEF CleanupDeletesRef, TypeOK
        <5>2. refs'[s] = {} BY <5>1, <4>1, <3>1 DEF TypeOK, Refs
        <5>3. cleaning'.step = IF cleaning.cas THEN "roots" ELSE "marker"
          BY <4>5, <3>1 DEF CleanupDeletesRef, CleanupGoes, Cleanup
        <5>4. cleaning'.step = "marker" => roots'[s] = {}
          <6> SUFFICES ASSUME cleaning'.step = "marker" PROVE roots'[s] = {} OBVIOUS
          <6>1. Sidecars[s] = <<>> BY <5>3, <4>1
          <6>2. Len(<<>>) = 0 OBVIOUS
          <6>3. DOMAIN Sidecars[s] = {} BY <6>1, <6>2, <3>1, SidecarList
          <6> QED BY <6>3, <4>3, <5>1
        <5> QED BY <5>2, <5>4, <3>2, <4>1, <4>2 DEF CleanupInv
      <4>6. CASE CleanupRemovesRoot
        <5>1. refs' = refs /\ cleaning.step = "roots" BY <4>6 DEF CleanupRemovesRoot
        <5>2. cleaning'.step = "marker" => roots'[s] = {}
          BY <4>6, <5>1, <3>1 DEF CleanupRemovesRoot, CleanupGoes, Cleanup
        <5> QED BY <5>1, <5>2, <3>2, <4>1, <4>2 DEF CleanupInv
      <4> QED BY <2>3, <4>4, <4>5, <4>6 DEF Refs
    <3> QED BY <3>3, <3>4
  <2> QED BY <2>1, <2>2, <2>3 DEF CleanupSteps
<1>8. \A s \in Snapshots \ (rows \cup disturbed) : Tracked(s)'
  <2> SUFFICES ASSUME NEW s \in Snapshots \ (rows \cup disturbed) PROVE Tracked(s)' OBVIOUS
  <2>1. Tracked(s) BY DataInvParts
  <2>2. CASE ~ Cleans(s) BY <2>1, <2>2, <1>2, <1>3 DEF Tracked
  <2>3. CASE Cleans(s)
    <3>1. ~ Uploading(s)' BY <2>3, <1>2, <1>4
    <3>2. refs'[s] \subseteq refs[s] /\ roots'[s] \subseteq roots[s]
      BY <2>3 DEF CleanupSteps, CleanupStarts, CleanupDeletesRef, CleanupRemovesRoot,
         CleanupRemovesMarker, CleanupStops, stores, TypeOK, Cleans
    <3>3. CASE CleanupRemovesMarker
      <4>1. refs[s] = {} /\ roots[s] = {}
        BY <2>3, <3>3, DataInvParts DEF CleanupInv, CleanupRemovesMarker, Cleans
      <4> QED BY <4>1, <3>1, <3>2 DEF Tracked
    <3>4. CASE ~ CleanupRemovesMarker
      <4>1. markers' = markers
        BY <3>4 DEF CleanupSteps, CleanupStarts, CleanupDeletesRef, CleanupRemovesRoot, CleanupStops, stores
      <4> QED BY <4>1, <3>1, <3>2, <2>1 DEF Tracked
    <3> QED BY <3>3, <3>4
  <2> QED BY <2>2, <2>3
<1> QED BY <1>1, <1>5, <1>6, <1>7, <1>8 DEF DataInv, Tracked

(* Starting, publishing, finishing and stopping an upload.                 *)
Edge(u) ==
    \/ \E s \in Snapshots : MarkPending(u, s)
    \/ PublishMetadata(u) \/ FinishUpload(u) \/ UploadStops(u)

LEMMA EdgeStep ==
    ASSUME TypeOK, DataInv, NEW u \in Uploaders, Edge(u)
    PROVE  DataInv'
<1>1. /\ objects' = objects /\ refs' = refs /\ chunks' = chunks
      /\ manifests' = manifests /\ roots' = roots /\ cleaning' = cleaning
      /\ disturbed \subseteq disturbed'
  BY DEF Edge, MarkPending, PublishMetadata, FinishUpload, UploadStops, stores
<1>2. \A v \in Uploaders : v # u => uploads'[v] = uploads[v]
  BY DEF Edge, MarkPending, PublishMetadata, FinishUpload, UploadStops, Goto, TypeOK
<1>3. uploads'[u].pc \in {"idle", "fetch", "finish"}
  BY DEF Edge, MarkPending, PublishMetadata, FinishUpload, UploadStops, Goto, TypeOK, NoUpload
<1>4. \A v \in Uploaders : UploadInv(v)'
  BY <1>1, <1>2, <1>3, DataInvParts
  DEF UploadInv, UploadAt, Snap, Available, GitAvailable, SidecarsAvailable, Rooted
<1>5. PublishedDataPresent'
  <2>1. CASE rows' = rows
    BY <2>1, <1>1, DataInvParts
    DEF PublishedDataPresent, Available, GitAvailable, SidecarsAvailable, Rooted
  <2>2. CASE PublishMetadata(u)
    <3>1. /\ Snap(u) \in disturbed \/ (Available(Snap(u)) /\ Rooted(Snap(u)))
          /\ rows' \subseteq rows \cup {Snap(u)}
      BY <2>2, DataInvParts DEF PublishMetadata, UploadInv, UploadAt
    <3> QED BY <3>1, <1>1, DataInvParts
        DEF PublishedDataPresent, Available, GitAvailable, SidecarsAvailable, Rooted
  <2> QED BY <2>1, <2>2 DEF Edge, MarkPending, FinishUpload, UploadStops, stores
<1>6. \A s \in Snapshots \ (rows' \cup disturbed') : Tracked(s)'
  <2> SUFFICES ASSUME NEW s \in Snapshots, s \notin rows', s \notin disturbed' PROVE Tracked(s)' OBVIOUS
  <2>1. s \notin rows /\ s \notin disturbed
    BY <1>1 DEF Edge, MarkPending, PublishMetadata, FinishUpload, UploadStops, stores
  <2>2. Tracked(s) BY <2>1, DataInvParts
  <2>3. s \in markers => s \in markers'
    BY <2>1 DEF Edge, MarkPending, PublishMetadata, FinishUpload, UploadStops, stores
  <2>4. Uploading(s)' => Uploading(s) \/ s \in markers'
    <3>1. CASE \E x \in Snapshots : MarkPending(u, x)
      <4> PICK x \in Snapshots : MarkPending(u, x) BY <3>1
      <4> QED BY <1>2 DEF Uploading, Snap, MarkPending, TypeOK
    <3>2. CASE PublishMetadata(u)
      <4>1. uploads[u] # NoUpload /\ uploads'[u].snapshot = Snap(u)
        BY <3>2, UploadKnown DEF PublishMetadata, UploadAt, Goto, TypeOK
      <4> QED BY <4>1, <1>2 DEF Uploading, Snap
    <3>3. CASE FinishUpload(u) \/ UploadStops(u)
      <4>1. uploads'[u] = NoUpload BY <3>3 DEF FinishUpload, UploadStops, TypeOK
      <4> QED BY <4>1, <1>2 DEF Uploading, Snap
    <3> QED BY <3>1, <3>2, <3>3 DEF Edge
  <2> QED BY <2>2, <2>3, <2>4, <1>1 DEF Tracked
<1>7. CleanupInv'
  <2> SUFFICES ASSUME cleaning # NoCleanup, cleaning.snapshot \notin disturbed' PROVE CleanupInv'
    BY <1>1 DEF CleanupInv
  <2> PICK s : s = cleaning.snapshot OBVIOUS
  <2>1. /\ s \notin rows /\ ~ Uploading(s)
        /\ cleaning.step \in {"work", "roots", "marker"} => "index" \notin refs[s]
        /\ cleaning.step \in {"roots", "marker"} => refs[s] = {}
        /\ cleaning.cas \/ Sidecars[s] = <<>>
        /\ cleaning.step = "marker" => roots[s] = {}
    BY <1>1, DataInvParts DEF CleanupInv
  <2>2. s \notin rows' /\ ~ Uploading(s)'
    <3>2. CASE \E x \in Snapshots : MarkPending(u, x)
      <4> PICK x \in Snapshots : MarkPending(u, x) BY <3>2
      <4>1. x # s BY DEF MarkPending, Cleans
      <4>2. rows' = rows /\ uploads'[u].snapshot = x BY DEF MarkPending, TypeOK
      <4> QED BY <4>1, <4>2, <2>1, <1>2 DEF Uploading, Snap
    <3>3. CASE PublishMetadata(u)
      <4>1. uploads[u] # NoUpload /\ uploads'[u].snapshot = Snap(u)
        BY <3>3, UploadKnown DEF PublishMetadata, UploadAt, Goto, TypeOK
      <4>2. Snap(u) # s BY <4>1, <2>1 DEF Uploading
      <4> QED BY <3>3, <4>1, <4>2, <2>1, <1>2 DEF Uploading, Snap, PublishMetadata
    <3>4. CASE FinishUpload(u) \/ UploadStops(u)
      <4>1. uploads'[u] = NoUpload /\ rows' = rows BY <3>4 DEF FinishUpload, UploadStops, TypeOK, stores
      <4> QED BY <4>1, <2>1, <1>2 DEF Uploading, Snap
    <3> QED BY <3>2, <3>3, <3>4 DEF Edge
  <2> QED BY <2>1, <2>2, <1>1 DEF CleanupInv
<1> QED BY <1>4, <1>5, <1>6, <1>7 DEF DataInv, Tracked

(* gc prunes objects that no ref needs, and nothing else.                  *)
LEMMA GcStep ==
    ASSUME TypeOK, DataInv, GcSteps
    PROVE  DataInv'
<1>1. /\ refs' = refs /\ chunks' = chunks /\ manifests' = manifests /\ roots' = roots
      /\ rows' = rows /\ cleaning' = cleaning /\ uploads' = uploads /\ markers' = markers
      /\ disturbed' = disturbed
  BY DEF GcSteps, GcReadsRows, GcScansOrphans, GcScansMissing, GcVerifies, GcPrunes, GcStops, GcGoes, stores
<1>2. \A s \in Snapshots : Available(s) => Available(s)'
  <2>1. \A s \in Snapshots : refs[s] = Refs => objects'[s] = objects[s]
    BY DEF GcSteps, GcReadsRows, GcScansOrphans, GcScansMissing, GcVerifies, GcPrunes, GcStops, GcGoes,
       stores, Refs
  <2> QED BY <2>1, <1>1 DEF Available, GitAvailable, SidecarsAvailable
<1>3. \A u \in Uploaders : uploads[u].pc # "idle" => Snap(u) \in Snapshots
  BY UploadKnown
<1>4. PublishedDataPresent'
  BY <1>1, <1>2, DataInvParts DEF PublishedDataPresent, Rooted, TypeOK
<1>5. \A u \in Uploaders : UploadInv(u)'
  BY <1>1, <1>2, <1>3, DataInvParts DEF UploadInv, Rooted, UploadAt, Snap
<1> QED BY <1>1, <1>4, <1>5 DEF DataInv, CleanupInv, Uploading, Snap

(* Every step keeps the invariant.                                         *)
LEMMA DataStep == TypeOK /\ DataInv /\ [Next]_vars => DataInv'
<1> SUFFICES ASSUME TypeOK, DataInv, [Next]_vars PROVE DataInv'
  OBVIOUS
<1>1. ASSUME NEW u \in Uploaders, UploadSteps(u)
      PROVE  DataInv'
  BY <1>1, GrowingStep, EdgeStep DEF UploadSteps, Growing, Edge
<1>2. CASE CleanupSteps
  BY <1>2, CleanupStep
<1>3. CASE GcSteps
  BY <1>3, GcStep
<1>4. CASE UNCHANGED vars
  BY <1>4 DEF DataInv, vars, stores, PublishedDataPresent, UploadInv, CleanupInv, Uploading, UploadAt, Snap,
     Available, GitAvailable, SidecarsAvailable, Rooted
<1> QED BY <1>1, <1>2, <1>3, <1>4 DEF Next, CleanupSteps, GcSteps

(* The invariant holds throughout.                                         *)
LEMMA UploadsInitially == Init => TypeOK /\ DataInv
BY DEF Init, TypeOK, NoGc, DataInv, PublishedDataPresent, UploadInv, CleanupInv, Uploading, UploadAt,
    NoUpload

LEMMA DataInductive == Spec => []DataInv
BY UploadsInitially, DataStep, TypeCorrect, PTL DEF Spec

(* Every snapshot that has a metadata row and that no cleanup has          *)
(* disturbed can be served by the anchor, for any number of uploads,       *)
(* failures, retries, cleanups and collections.                            *)
THEOREM PublishedDataPresentAlways == Spec => []PublishedDataPresent
<1>1. DataInv => PublishedDataPresent BY DEF DataInv
<1> QED BY <1>1, DataInductive, PTL

(* No failed upload and no cleanup that ends early leaves refs or roots    *)
(* behind that the marker does not lead to.                                *)
THEOREM LeftoversMarkedAlways == Spec => []LeftoversMarked
<1>1. DataInv => LeftoversMarked BY DEF DataInv, LeftoversMarked
<1> QED BY <1>1, DataInductive, PTL

-----------------------------------------------------------------------------
(* What an attempt has come to: nothing selected yet, or a route.          *)
Measuring == {"source", "cache", "select"}
Selected == {"begin", "fetch", "write", "done"}
TransferRecord ==
    [pc : {"idle", "failed"} \cup Measuring \cup Selected, policy : RoutePolicies,
     seen : [online : BOOLEAN, available : BOOLEAN, has : BOOLEAN],
     route : {"none", "direct", "cache"}, tries : 0 .. 2, registered : RegisteredStates,
     refs : SUBSET SnapshotRefs]

RoutesTyped ==
    /\ peer \in [online : BOOLEAN, refs : SUBSET SnapshotRefs]
    /\ cache \in [exists : BOOLEAN, refs : SUBSET SnapshotRefs]
    /\ workspace \in RegisteredStates
    /\ transfer \in TransferRecord
    /\ arrived \subseteq SnapshotRefs
    /\ steady \subseteq {"direct", "cache"}

(* A route that has been there all along was seen by the measurements that *)
(* are finished, and lets nobody fail who uses it.                          *)
SteadyIsSeen ==
    /\ transfer.pc # "idle" => steady \subseteq Usable
    /\ transfer.pc \notin {"idle", "source"} /\ "direct" \in steady => transfer.seen.online
    /\ transfer.pc \notin {"idle", "source", "cache"} /\ "cache" \in steady
          => transfer.seen.available /\ transfer.seen.has
    /\ transfer.pc = "begin" /\ "cache" \in steady => Authorized(transfer.registered)

(* A route that failed was not there all along.                             *)
FailedIsNotSteady ==
    /\ transfer.pc \in Measuring =>
          /\ transfer.tries \in {0, 1}
          /\ transfer.tries = 1 => /\ transfer.route \in {"direct", "cache"} \ steady
                                   /\ transfer.policy.required => transfer.route = "direct"
    /\ transfer.pc \in Selected =>
          /\ transfer.tries \in {1, 2} /\ transfer.route \in {"direct", "cache"}
          /\ transfer.policy.required => transfer.route = "direct" /\ transfer.tries = 1
          /\ transfer.tries = 2 => steady \subseteq {transfer.route}
    /\ transfer.pc = "fetch" => transfer.route = "cache"
    /\ transfer.pc = "write" => arrived \cup transfer.refs = SnapshotRefs

RoutesInv == RoutesTyped /\ SteadyIsSeen /\ FailedIsNotSteady /\ WorkingRouteIsFound

LEMMA NoTransferTyped == NoTransfer \in TransferRecord
<1>1. \E p \in RoutePolicies : TRUE
  <2>1. [direct |-> TRUE, cached |-> TRUE, required |-> TRUE] \in RoutePolicies BY DEF RoutePolicies
  <2> QED BY <2>1
<1>2. (CHOOSE p \in RoutePolicies : TRUE) \in RoutePolicies BY <1>1
<1>3. NoTransfer \in TransferRecord
  BY <1>2 DEF NoTransfer, TransferRecord, NoMeasurements, RegisteredStates, SnapshotRefs
<1> QED BY <1>3

LEMMA RoutesInitially == RoutesInit => RoutesInv
<1> SUFFICES ASSUME RoutesInit PROVE RoutesInv OBVIOUS
<1>4. transfer.pc = "idle" BY DEF RoutesInit, NoTransfer
<1> QED
  BY NoTransferTyped, <1>4 DEF RoutesInit, RoutesInv, RoutesTyped, SteadyIsSeen, FailedIsNotSteady,
      WorkingRouteIsFound, SnapshotRefs, RegisteredStates, Measuring, Selected

(* The routes that have been there all along become fewer.                  *)
LEMMA SteadyShrinks ==
    ASSUME RoutesTyped, RoutesNext, transfer.pc # "idle"
    PROVE  steady' \subseteq steady /\ steady' \subseteq Usable'
BY DEF RoutesNext

(* What goes on around a transfer.                                          *)
LEMMA WorldGoesOn ==
    ASSUME RoutesInv, RoutesNext, transfer' = transfer, arrived' = arrived,
           peer' \in [online : BOOLEAN, refs : SUBSET SnapshotRefs],
           cache' \in [exists : BOOLEAN, refs : SUBSET SnapshotRefs],
           workspace' \in RegisteredStates
    PROVE  RoutesInv'
<1>1. RoutesTyped'
  BY DEF RoutesInv, RoutesTyped, RoutesNext, Usable
<1>2. CASE transfer.pc = "idle"
  BY <1>1, <1>2 DEF RoutesInv, RoutesTyped, SteadyIsSeen, FailedIsNotSteady, WorkingRouteIsFound, Measuring, Selected
<1>3. CASE transfer.pc # "idle"
  <2>1. steady' \subseteq steady /\ steady' \subseteq Usable'
    BY <1>3, SteadyShrinks DEF RoutesInv
  <2>2. SteadyIsSeen' BY <1>3, <2>1 DEF RoutesInv, SteadyIsSeen, Authorized
  <2>3. FailedIsNotSteady' BY <1>3, <2>1 DEF RoutesInv, FailedIsNotSteady
  <2>4. WorkingRouteIsFound' BY <1>3, <2>1 DEF RoutesInv, WorkingRouteIsFound
  <2> QED BY <1>1, <2>2, <2>3, <2>4 DEF RoutesInv
<1> QED BY <1>2, <1>3

LEMMA WorldSteps ==
    ASSUME RoutesInv, RoutesNext,
           PeerComesOrGoes \/ PeerPrunes \/ ImportToCache \/ CacheOpened \/ RefsCleaned \/ WorkspaceChanges
    PROVE  RoutesInv'
<1>1. transfer' = transfer /\ arrived' = arrived
  BY DEF PeerComesOrGoes, PeerPrunes, ImportToCache, CacheOpened, RefsCleaned, WorkspaceChanges, WorldChanges
<1>2. peer' \in [online : BOOLEAN, refs : SUBSET SnapshotRefs]
  BY DEF RoutesInv, RoutesTyped, PeerComesOrGoes, PeerPrunes, ImportToCache, CacheOpened, RefsCleaned, WorkspaceChanges
<1>3. cache' \in [exists : BOOLEAN, refs : SUBSET SnapshotRefs]
  <2>1. cache \in [exists : BOOLEAN, refs : SUBSET SnapshotRefs] BY DEF RoutesInv, RoutesTyped
  <2>2. CASE ImportToCache
    <3> PICK brought \in {{"index"}, SnapshotRefs} : cache' = [exists |-> TRUE, refs |-> cache.refs \cup brought]
      BY <2>2 DEF ImportToCache
    <3> QED BY <2>1 DEF SnapshotRefs
  <2>3. CASE RefsCleaned
    <3>1. cache' = [cache EXCEPT !.refs = IF cache.refs = SnapshotRefs THEN {"work"} ELSE {}]
      BY <2>3 DEF RefsCleaned
    <3> QED BY <2>1, <3>1 DEF SnapshotRefs
  <2> QED
    BY <2>1, <2>2, <2>3 DEF PeerComesOrGoes, PeerPrunes, CacheOpened, WorkspaceChanges
<1>4. workspace' \in RegisteredStates
  BY DEF RoutesInv, RoutesTyped, PeerComesOrGoes, PeerPrunes, ImportToCache, CacheOpened, RefsCleaned, WorkspaceChanges
<1> QED BY <1>1, <1>2, <1>3, <1>4, WorldGoesOn

(* A transfer begins, and measures. *)
LEMMA TransferBeginsRight ==
    ASSUME RoutesInv, RoutesNext, NEW policy \in RoutePolicies, BeginTransfer(policy)
    PROVE  RoutesInv'
<1>1. transfer' \in TransferRecord /\ transfer'.pc = "source" /\ transfer'.tries = 0
  <2>1. NoTransfer.tries = 0 BY DEF NoTransfer
  <2> QED BY NoTransferTyped, <2>1 DEF BeginTransfer, TransferRecord, Measuring
<1>2. steady' = Usable' BY DEF BeginTransfer, RoutesNext
<1>3. RoutesTyped' BY <1>1, <1>2 DEF RoutesInv, RoutesTyped, BeginTransfer, Usable
<1>4. SteadyIsSeen' BY <1>1, <1>2 DEF SteadyIsSeen
<1>5. FailedIsNotSteady' BY <1>1 DEF FailedIsNotSteady, Selected
<1> QED BY <1>1, <1>3, <1>4, <1>5 DEF RoutesInv, WorkingRouteIsFound

(* A step of the transfer itself leaves the routes as they are.             *)
LEMMA StepKeepsRoutes ==
    ASSUME RoutesInv, RoutesNext, transfer.pc # "idle", UNCHANGED <<peer, cache, workspace>>
    PROVE  /\ steady' \subseteq steady /\ steady' \subseteq Usable
           /\ Usable' = Usable
           /\ "direct" \in steady' => PeerServes
           /\ "cache" \in steady' => CacheHolds /\ Authorized(workspace)
<1>1. Usable' = Usable
  <2>1. /\ PeerServes' = PeerServes /\ CacheHolds' = CacheHolds
        /\ Authorized(workspace)' = Authorized(workspace)
    BY DEF PeerServes, CacheHolds, Authorized
  <2> QED BY <2>1 DEF Usable
<1>2. steady' \subseteq steady /\ steady' \subseteq Usable' BY SteadyShrinks DEF RoutesInv
<1> QED BY <1>1, <1>2 DEF Usable

LEMMA MeasuresRight ==
    ASSUME RoutesInv, RoutesNext, MeasureSource \/ MeasureCache
    PROVE  RoutesInv'
<1>1. transfer.pc # "idle" /\ UNCHANGED <<peer, cache, workspace, arrived>>
  BY DEF MeasureSource, MeasureCache
<1>2. /\ steady' \subseteq steady /\ steady' \subseteq Usable /\ Usable' = Usable
      /\ "direct" \in steady' => PeerServes
      /\ "cache" \in steady' => CacheHolds /\ Authorized(workspace)
  BY <1>1, StepKeepsRoutes
<1>3. CASE MeasureSource
  <2>1. /\ transfer' \in TransferRecord
        /\ transfer'.pc = "cache" /\ transfer'.tries = transfer.tries /\ transfer'.route = transfer.route
        /\ transfer'.policy = transfer.policy /\ transfer'.seen.online = peer.online
    BY <1>3 DEF MeasureSource, RoutesInv, RoutesTyped, TransferRecord, Measuring
  <2>2. RoutesTyped' BY <1>1, <1>2, <2>1 DEF RoutesInv, RoutesTyped
  <2>3. SteadyIsSeen' BY <1>2, <2>1 DEF SteadyIsSeen, PeerServes
  <2>4. FailedIsNotSteady'
    BY <1>2, <1>3, <2>1 DEF RoutesInv, FailedIsNotSteady, MeasureSource, Measuring, Selected
  <2> QED BY <2>1, <2>2, <2>3, <2>4 DEF RoutesInv, WorkingRouteIsFound
<1>4. CASE MeasureCache
  <2>1. /\ transfer' \in TransferRecord
        /\ transfer'.pc = "select" /\ transfer'.tries = transfer.tries /\ transfer'.route = transfer.route
        /\ transfer'.policy = transfer.policy /\ transfer'.seen.online = transfer.seen.online
        /\ transfer'.seen.available = cache.exists /\ transfer'.seen.has = CacheHolds
    BY <1>4 DEF MeasureCache, RoutesInv, RoutesTyped, TransferRecord, Measuring, CacheHolds
  <2>2. RoutesTyped' BY <1>1, <1>2, <2>1 DEF RoutesInv, RoutesTyped
  <2>3. SteadyIsSeen'
    BY <1>2, <1>4, <2>1 DEF SteadyIsSeen, CacheHolds, RoutesInv, MeasureCache
  <2>4. FailedIsNotSteady'
    BY <1>2, <1>4, <2>1 DEF RoutesInv, FailedIsNotSteady, MeasureCache, Measuring, Selected
  <2> QED BY <2>1, <2>2, <2>3, <2>4 DEF RoutesInv, WorkingRouteIsFound
<1> QED BY <1>3, <1>4

(* A route that has been there all along is selected, or the other one.    *)
LEMMA FirstRouteIsRight ==
    ASSUME RoutesTyped
    PROVE  /\ FirstRoute \in {"none", "direct", "cache"}
           /\ transfer.policy.required => FirstRoute # "cache"
           /\ FirstRoute = "none" /\ transfer.policy.direct => ~transfer.seen.online
           /\ FirstRoute = "none" /\ transfer.policy.cached /\ ~transfer.policy.required
                => ~(transfer.seen.available /\ transfer.seen.has)
BY DEF FirstRoute, DirectReady, CacheReady, RoutesTyped

LEMMA RouteAfterIsRight ==
    ASSUME RoutesTyped, NEW failed \in {"direct", "cache"}
    PROVE  /\ RouteAfter(failed) \in {"none", "direct", "cache"} \ {failed}
           /\ transfer.policy.required => RouteAfter(failed) = "none"
           /\ RouteAfter(failed) = "none" /\ ~transfer.policy.required =>
                 /\ failed = "direct" /\ transfer.policy.cached => ~(transfer.seen.available /\ transfer.seen.has)
                 /\ failed = "cache" /\ transfer.policy.direct => ~transfer.seen.online
BY DEF RouteAfter, DirectReady, CacheReady, RoutesTyped

LEMMA SelectsRight ==
    ASSUME RoutesInv, RoutesNext, SelectRoute
    PROVE  RoutesInv'
<1> DEFINE route == IF transfer.tries = 0 THEN FirstRoute ELSE RouteAfter(transfer.route)
<1>1. transfer.pc = "select" /\ UNCHANGED <<peer, cache, workspace, arrived>>
  BY DEF SelectRoute
<1>2. /\ steady' \subseteq steady /\ steady' \subseteq Usable /\ Usable' = Usable
      /\ "direct" \in steady' => PeerServes
      /\ "cache" \in steady' => CacheHolds /\ Authorized(workspace)
  BY <1>1, StepKeepsRoutes
<1>3. transfer.tries \in {0, 1} /\ transfer.tries + 1 \in {1, 2}
  BY <1>1 DEF RoutesInv, FailedIsNotSteady, Measuring
<1>4. /\ transfer.tries = 1 => transfer.route \in {"direct", "cache"} \ steady
      /\ transfer.tries = 1 /\ transfer.policy.required => transfer.route = "direct"
  BY <1>1 DEF RoutesInv, FailedIsNotSteady, Measuring
<1>5. route \in {"none", "direct", "cache"}
  BY <1>3, <1>4, FirstRouteIsRight, RouteAfterIsRight DEF RoutesInv
<1>6. transfer' = [transfer EXCEPT !.pc = IF route = "none" THEN "failed" ELSE "begin",
                        !.route = route, !.tries = transfer.tries + 1, !.registered = workspace]
  BY DEF SelectRoute
<1>7. /\ transfer' \in TransferRecord
      /\ transfer'.pc = IF route = "none" THEN "failed" ELSE "begin"
      /\ transfer'.route = route /\ transfer'.tries = transfer.tries + 1
      /\ transfer'.registered = workspace
      /\ transfer'.policy = transfer.policy /\ transfer'.seen = transfer.seen
  <2>1. transfer \in TransferRecord /\ workspace \in RegisteredStates BY DEF RoutesInv, RoutesTyped
  <2>2. transfer.tries + 1 \in 0 .. 2 BY <1>3
  <2> HIDE DEF route
  <2> QED BY <1>5, <1>6, <2>1, <2>2 DEF TransferRecord, Selected
<1>8. RoutesTyped' BY <1>1, <1>2, <1>7 DEF RoutesInv, RoutesTyped
<1>9. SteadyIsSeen'
  BY <1>1, <1>2, <1>7 DEF SteadyIsSeen, RoutesInv, Authorized
<1>10. /\ transfer.tries = 0 /\ transfer.policy.required => route # "cache"
       /\ transfer.tries = 1 /\ transfer.policy.required => route = "none"
       /\ transfer.tries = 1 => route # transfer.route
  BY <1>3, <1>4, FirstRouteIsRight, RouteAfterIsRight DEF RoutesInv
<1>11. FailedIsNotSteady'
  <2> HIDE DEF route
  <2> QED
    BY <1>1, <1>2, <1>3, <1>4, <1>5, <1>7, <1>8, <1>10
    DEF FailedIsNotSteady, Selected, Measuring, RoutesTyped
<1>12. route = "none" => /\ transfer.policy.direct => "direct" \notin steady'
                         /\ transfer.policy.cached /\ ~transfer.policy.required => "cache" \notin steady'
  <2>1. "direct" \in steady => transfer.seen.online
    BY <1>1 DEF RoutesInv, SteadyIsSeen
  <2>2. "cache" \in steady => transfer.seen.available /\ transfer.seen.has
    BY <1>1 DEF RoutesInv, SteadyIsSeen
  <2> QED BY <1>2, <1>3, <1>4, <2>1, <2>2, FirstRouteIsRight, RouteAfterIsRight DEF RoutesInv
<1>13. WorkingRouteIsFound'
  <2> HIDE DEF route
  <2> QED BY <1>7, <1>12 DEF WorkingRouteIsFound
<1> QED BY <1>8, <1>9, <1>11, <1>13 DEF RoutesInv

(* A write of a fetch is the write of one of the refs that it still has.   *)
LEMMA OneRefIsWritten ==
    ASSUME FetchWritesRef
    PROVE  \E ref \in transfer.refs :
              /\ arrived' = arrived \cup {ref}
              /\ transfer' = [transfer EXCEPT !.refs = @ \ {ref},
                                  !.pc = IF transfer.refs = {ref} THEN "done" ELSE @]
BY Zenon DEF FetchWritesRef

(* The export looks at the anchor, the fetch begins and writes both refs.  *)
LEMMA FetchesRight ==
    ASSUME RoutesInv, RoutesNext, ExportChecks \/ FetchBegins \/ FetchWritesRef
    PROVE  RoutesInv'
<1>1. transfer.pc \in Selected /\ UNCHANGED <<peer, cache, workspace>>
  BY DEF ExportChecks, FetchBegins, FetchWritesRef, Selected
<1>2. /\ steady' \subseteq steady /\ steady' \subseteq Usable /\ Usable' = Usable
  BY <1>1, StepKeepsRoutes DEF Selected
<1>3. /\ transfer' \in TransferRecord /\ transfer'.pc \in Selected /\ transfer'.pc # "begin"
      /\ transfer'.route = transfer.route /\ transfer'.tries = transfer.tries
      /\ transfer'.policy = transfer.policy /\ transfer'.seen = transfer.seen
  <2>1. transfer \in TransferRecord BY DEF RoutesInv, RoutesTyped
  <2>2. CASE ExportChecks BY <2>1, <2>2 DEF ExportChecks, TransferRecord, Selected
  <2>3. CASE FetchBegins BY <2>1, <2>3 DEF FetchBegins, TransferRecord, Selected
  <2>4. CASE FetchWritesRef
    <3> PICK ref \in transfer.refs :
          transfer' = [transfer EXCEPT !.refs = @ \ {ref},
                              !.pc = IF transfer.refs = {ref} THEN "done" ELSE @]
      BY <2>4, OneRefIsWritten, Zenon
    <3>1. transfer.pc = "write" BY <2>4 DEF FetchWritesRef
    <3> QED BY <2>1, <3>1 DEF TransferRecord, Selected
  <2> QED BY <2>2, <2>3, <2>4
<1>4. arrived' \subseteq SnapshotRefs
  <2>1. arrived \subseteq SnapshotRefs /\ transfer.refs \subseteq SnapshotRefs
    BY DEF RoutesInv, RoutesTyped, TransferRecord
  <2> QED BY <2>1 DEF ExportChecks, FetchBegins, FetchWritesRef
<1>5. RoutesTyped' BY <1>1, <1>2, <1>3, <1>4 DEF RoutesInv, RoutesTyped
<1>6. SteadyIsSeen'
  BY <1>1, <1>2, <1>3 DEF SteadyIsSeen, RoutesInv, Selected
<1>7. transfer'.pc = "fetch" => transfer.route = "cache"
  BY DEF ExportChecks, FetchBegins, FetchWritesRef, RoutesInv, RoutesTyped, TransferRecord
<1>8. /\ transfer'.pc = "write" => arrived' \cup transfer'.refs = SnapshotRefs
      /\ transfer'.pc = "done" => arrived' = SnapshotRefs
  <2>1. CASE ExportChecks
    BY <2>1 DEF ExportChecks, RoutesInv, RoutesTyped, TransferRecord
  <2>2. CASE FetchBegins
    BY <2>2, <1>4 DEF FetchBegins, RoutesInv, RoutesTyped, TransferRecord
  <2>3. CASE FetchWritesRef
    <3> PICK ref \in transfer.refs :
          /\ arrived' = arrived \cup {ref}
          /\ transfer' = [transfer EXCEPT !.refs = @ \ {ref},
                              !.pc = IF transfer.refs = {ref} THEN "done" ELSE @]
      BY <2>3, OneRefIsWritten, Zenon
    <3>1. arrived \cup transfer.refs = SnapshotRefs /\ transfer.pc = "write"
      BY <2>3 DEF FetchWritesRef, RoutesInv, FailedIsNotSteady
    <3>2. transfer'.refs = transfer.refs \ {ref}
      BY DEF RoutesInv, RoutesTyped, TransferRecord
    <3>3. transfer'.pc = "done" => transfer.refs = {ref}
      <4>1. transfer \in TransferRecord BY DEF RoutesInv, RoutesTyped
      <4> QED BY <3>1, <4>1 DEF TransferRecord
    <3>4. arrived' \cup transfer'.refs = SnapshotRefs BY <3>1, <3>2
    <3>5. transfer'.pc = "done" => arrived' = SnapshotRefs BY <3>1, <3>3
    <3> QED BY <3>4, <3>5
  <2> QED BY <2>1, <2>2, <2>3
<1>9. FailedIsNotSteady'
  BY <1>1, <1>2, <1>3, <1>7, <1>8 DEF FailedIsNotSteady, RoutesInv, Selected, Measuring
<1>10. WorkingRouteIsFound'
  BY <1>1, <1>3, <1>8 DEF WorkingRouteIsFound, RoutesInv, FailedIsNotSteady, Selected
<1> QED BY <1>5, <1>6, <1>9, <1>10 DEF RoutesInv

LEMMA FailsRight ==
    ASSUME RoutesInv, RoutesNext, RouteFails
    PROVE  RoutesInv'
<1>1. transfer.pc \in Selected /\ UNCHANGED <<peer, cache, workspace, arrived>>
  BY DEF RouteFails, RouteBreaks, Selected
<1>2. /\ steady' \subseteq steady /\ steady' \subseteq Usable /\ Usable' = Usable
      /\ "direct" \in steady' => PeerServes
      /\ "cache" \in steady' => CacheHolds /\ Authorized(workspace)
  BY <1>1, StepKeepsRoutes DEF Selected
<1>3. PICK pc \in IF transfer.tries = 1 THEN {"source", "select"} ELSE {"failed"} :
         transfer' = [transfer EXCEPT !.pc = pc]
  BY DEF RouteFails
<1>4. /\ transfer' \in TransferRecord /\ transfer'.pc = pc
      /\ transfer'.route = transfer.route /\ transfer'.tries = transfer.tries
      /\ transfer'.policy = transfer.policy /\ transfer'.seen = transfer.seen
  BY <1>3 DEF RoutesInv, RoutesTyped, TransferRecord, Selected, Measuring
<1>5. /\ transfer.tries \in {1, 2} /\ transfer.route \in {"direct", "cache"}
      /\ transfer.policy.required => transfer.route = "direct" /\ transfer.tries = 1
      /\ transfer.tries = 2 => steady \subseteq {transfer.route}
      /\ transfer.pc = "fetch" => transfer.route = "cache"
  BY <1>1 DEF RoutesInv, FailedIsNotSteady
<1>6. transfer.route \notin steady'
  <2>1. transfer.pc = "begin" /\ "cache" \in steady' => Authorized(transfer.registered)
    BY <1>2 DEF RoutesInv, SteadyIsSeen
  <2> QED BY <1>2, <1>5, <2>1 DEF RouteFails, RouteBreaks, CacheServes, CacheHolds
<1>7. RoutesTyped' BY <1>1, <1>2, <1>4 DEF RoutesInv, RoutesTyped
<1>8. pc \in {"source", "select", "failed"} /\ (pc = "failed" <=> transfer.tries # 1)
  BY <1>3
<1>9. SteadyIsSeen'
  BY <1>1, <1>2, <1>4, <1>8 DEF SteadyIsSeen, RoutesInv, Selected
<1>10. FailedIsNotSteady'
  BY <1>4, <1>5, <1>6, <1>8 DEF FailedIsNotSteady, Measuring, Selected
<1>11. WorkingRouteIsFound'
  BY <1>2, <1>4, <1>5, <1>6, <1>8 DEF WorkingRouteIsFound
<1> QED BY <1>7, <1>9, <1>10, <1>11 DEF RoutesInv

LEMMA RoutesGoOn == RoutesInv /\ [RoutesNext]_transferVars => RoutesInv'
<1> SUFFICES ASSUME RoutesInv, [RoutesNext]_transferVars PROVE RoutesInv' OBVIOUS
<1>1. CASE UNCHANGED transferVars
  BY <1>1 DEF transferVars, RoutesInv, RoutesTyped, SteadyIsSeen, FailedIsNotSteady, WorkingRouteIsFound,
      Usable, PeerServes, CacheHolds, Authorized
<1>2. CASE RoutesNext
  BY <1>2, WorldSteps, TransferBeginsRight, MeasuresRight, SelectsRight, FetchesRight, FailsRight
  DEF RoutesNext, RoutesStep
<1> QED BY <1>1, <1>2
-----------------------------------------------------------------------------
(* Chunks are numbers of writes, or objects. *)
ChunkValues == Nat \cup Objects
SidecarItems == Large \cup Objects
SidecarMaps ==
    UNION {[items -> [size : Nat, manifest : Seq(ChunkValues)]] : items \in SUBSET SidecarItems}
FilesBefore == {NoSidecars} \cup [Large -> Seq(Nat)]

CaptureRecord ==
    [pc : {"idle", "next", "read", "done"}, todo : SUBSET SidecarItems, item : SidecarItems \cup {"none"},
     size : Nat, chunks : Seq(ChunkValues), taken : SidecarMaps, aware : BOOLEAN, before : FilesBefore]
TakenRecord == [pc : {"taken"}, of : SidecarMaps, before : FilesBefore, seen : SUBSET Objects]
TargetRecord ==
    [base : BOOLEAN, files : [Large -> Seq(ChunkValues)], objects : SUBSET Objects, leftover : BOOLEAN]
ApplyRecord ==
    [pc : {"idle", "next", "write", "failed", "applied"}, todo : SUBSET SidecarItems,
     item : SidecarItems \cup {"none"}, part : Seq(ChunkValues)]

SidecarTyped ==
    /\ source \in [files : [Large -> Seq(Nat)], objects : SUBSET Objects, smudged : SUBSET Objects]
    /\ upstream \subseteq Objects
    /\ cas \in [chunks : SUBSET ChunkValues, manifests : SUBSET Seq(ChunkValues)]
    /\ capture \in CaptureRecord
    /\ sidecars \in {NoSnapshot} \cup TakenRecord
    /\ target \in TargetRecord
    /\ apply \in ApplyRecord
    /\ writes \in Nat

(* What a capture has taken and has still to take are all large files and, *)
(* if it knows the server, all objects that the server has not got; and    *)
(* while nobody writes, it has the chunks of the files as they were.        *)
CaptureIsTrue ==
    /\ capture.pc \in {"next", "read"} =>
          /\ sidecars = NoSnapshot
          /\ Large \subseteq DOMAIN capture.taken \cup capture.todo
          /\ capture.aware => Pointers \subseteq DOMAIN capture.taken \cup capture.todo \cup upstream
          /\ capture.before # NoSidecars =>
                /\ capture.before = source.files
                /\ \A f \in Large \cap DOMAIN capture.taken : capture.taken[f].manifest = capture.before[f]
    /\ capture.pc = "read" =>
          /\ capture.item \in capture.todo
          /\ capture.before # NoSidecars /\ capture.item \in Large =>
                /\ Len(capture.chunks) <= Len(capture.before[capture.item])
                /\ \A i \in 1 .. Len(capture.chunks) : capture.chunks[i] = capture.before[capture.item][i]

SnapshotIsTrue ==
    sidecars # NoSnapshot =>
        /\ Large \subseteq Items
        /\ sidecars.before # NoSidecars => \A f \in Large : sidecars.of[f].manifest = sidecars.before[f]
        /\ sidecars.seen \subseteq Items \cup upstream

HasArrived(i) ==
    /\ i \in Large => target.files[i] = sidecars.of[i].manifest
    /\ i \in Objects => i \in target.objects

TargetIsTrue ==
    /\ sidecars = NoSnapshot => apply.pc = "idle" /\ \A f \in Large : target.files[f] = <<>>
    /\ sidecars # NoSnapshot =>
          /\ \A f \in Large : target.files[f] # <<>> => /\ target.files[f] = sidecars.of[f].manifest
                                                        /\ Len(target.files[f]) = sidecars.of[f].size
          /\ apply.pc # "idle" => target.base
          /\ apply.pc \in {"next", "write"} => \A i \in Items \ apply.todo : HasArrived(i)
          /\ apply.pc \in {"next", "write"} => apply.todo \subseteq Items
          /\ apply.pc = "applied" => \A i \in Items : HasArrived(i)
          /\ apply.pc = "write" => /\ apply.item \in apply.todo
                                   /\ Len(sidecars.of[apply.item].manifest) = sidecars.of[apply.item].size

SidecarInv == SidecarTyped /\ CaptureIsTrue /\ SnapshotIsTrue /\ TargetIsTrue
-----------------------------------------------------------------------------
LEMMA MapsOfItems ==
    ASSUME NEW map \in SidecarMaps
    PROVE  /\ DOMAIN map \subseteq SidecarItems
           /\ \A i \in DOMAIN map : map[i].size \in Nat /\ map[i].manifest \in Seq(ChunkValues)
<1> PICK items \in SUBSET SidecarItems : map \in [items -> [size : Nat, manifest : Seq(ChunkValues)]]
  BY DEF SidecarMaps
<1> QED OBVIOUS

LEMMA NothingIsAMap == NoSidecars \in SidecarMaps /\ DOMAIN NoSidecars = {}
<1>1. NoSidecars \in [{} -> [size : Nat, manifest : Seq(ChunkValues)]] BY DEF NoSidecars
<1> QED BY <1>1 DEF SidecarMaps

Grown(map, item, size, manifest) ==
    [i \in DOMAIN map \cup {item} |->
        IF i = item THEN [size |-> size, manifest |-> manifest] ELSE map[i]]

LEMMA MapsGrow ==
    ASSUME NEW map \in SidecarMaps, NEW item \in SidecarItems, NEW size \in Nat,
           NEW manifest \in Seq(ChunkValues)
    PROVE  /\ Grown(map, item, size, manifest) \in SidecarMaps
           /\ DOMAIN Grown(map, item, size, manifest) = DOMAIN map \cup {item}
           /\ Grown(map, item, size, manifest)[item].manifest = manifest
           /\ \A i \in DOMAIN map : i # item => Grown(map, item, size, manifest)[i] = map[i]
<1> DEFINE grown == Grown(map, item, size, manifest)
<1> PICK items \in SUBSET SidecarItems : map \in [items -> [size : Nat, manifest : Seq(ChunkValues)]]
  BY DEF SidecarMaps
<1>1. grown \in [items \cup {item} -> [size : Nat, manifest : Seq(ChunkValues)]] BY DEF Grown
<1>2. items \cup {item} \in SUBSET SidecarItems OBVIOUS
<1> QED BY <1>1, <1>2 DEF SidecarMaps, Grown

LEMMA NextIsOne ==
    ASSUME NEW todo \in SUBSET SidecarItems, todo # {}
    PROVE  NextOf(todo) \in todo /\ NextOf(todo) \in SidecarItems
BY DEF NextOf

LEMMA NoCaptureTyped == NoCapture \in CaptureRecord
BY NothingIsAMap DEF NoCapture, CaptureRecord, FilesBefore

LEMMA NoApplyTyped == NoApply \in ApplyRecord
BY DEF NoApply, ApplyRecord

LEMMA SnapshotKnown ==
    ASSUME SidecarTyped, sidecars # NoSnapshot
    PROVE  /\ sidecars \in TakenRecord /\ sidecars.of \in SidecarMaps
           /\ Items \subseteq SidecarItems
BY MapsOfItems DEF SidecarTyped, TakenRecord, Items

LEMMA SidecarsInitially == SidecarInit => SidecarInv
<1> SUFFICES ASSUME SidecarInit PROVE SidecarInv OBVIOUS
<1>1. PICK held \in SUBSET Objects, smudged \in SUBSET Objects :
         source = [files |-> [f \in Large |-> <<0, 0>>], objects |-> held, smudged |-> smudged]
  BY DEF SidecarInit
<1>2. source \in [files : [Large -> Seq(Nat)], objects : SUBSET Objects, smudged : SUBSET Objects]
  <2>1. <<0, 0>> \in Seq(Nat) OBVIOUS
  <2> QED BY <1>1, <2>1
<1>3. target \in TargetRecord /\ \A f \in Large : target.files[f] = <<>>
  <2>1. <<>> \in Seq(ChunkValues) OBVIOUS
  <2> QED BY <2>1 DEF SidecarInit, TargetRecord
<1>4. SidecarTyped
  BY <1>2, <1>3, NoCaptureTyped, NoApplyTyped DEF SidecarInit, SidecarTyped
<1>5. capture.pc = "idle" /\ apply.pc = "idle" /\ sidecars = NoSnapshot
  BY DEF SidecarInit, NoCapture, NoApply
<1> QED BY <1>3, <1>4, <1>5 DEF SidecarInv, CaptureIsTrue, SnapshotIsTrue, TargetIsTrue
-----------------------------------------------------------------------------
(* What the user and the stores do meanwhile.                               *)
LEMMA UserWritesAnyTime ==
    ASSUME SidecarInv, NEW f \in Large, UserWrites(f)
    PROVE  SidecarInv'
<1>1. PICK text \in {<<writes + 1, writes + 1>>, <<writes + 1>>} :
         source' = [source EXCEPT !.files[f] = text]
  BY DEF UserWrites
<1>2. writes \in Nat /\ writes' = writes + 1 BY DEF SidecarInv, SidecarTyped, UserWrites, Spends
<1>3. text \in Seq(Nat)
  <2>1. writes + 1 \in Nat BY <1>2
  <2>2. <<writes + 1, writes + 1>> \in Seq(Nat) /\ <<writes + 1>> \in Seq(Nat) BY <2>1
  <2> QED BY <2>2
<1>4. source' \in [files : [Large -> Seq(Nat)], objects : SUBSET Objects, smudged : SUBSET Objects]
  BY <1>1, <1>3 DEF SidecarInv, SidecarTyped
<1>5. source'.smudged = source.smudged BY <1>1 DEF SidecarInv, SidecarTyped
<1>6. capture' = [capture EXCEPT !.before = NoSidecars] BY DEF UserWrites
<1>7. /\ capture' \in CaptureRecord /\ capture'.before = NoSidecars
      /\ capture'.pc = capture.pc /\ capture'.taken = capture.taken /\ capture'.todo = capture.todo
      /\ capture'.item = capture.item /\ capture'.aware = capture.aware
  <2>1. capture \in CaptureRecord BY DEF SidecarInv, SidecarTyped
  <2> QED BY <1>6, <2>1 DEF CaptureRecord, FilesBefore
<1>8. UNCHANGED <<upstream, cas, sidecars, target, apply>> BY DEF UserWrites
<1>9. SidecarTyped' BY <1>2, <1>4, <1>7, <1>8 DEF SidecarInv, SidecarTyped
<1>10. Pointers' = Pointers BY <1>5 DEF Pointers
<1>11. CaptureIsTrue' BY <1>7, <1>8, <1>10 DEF SidecarInv, CaptureIsTrue
<1>12. SnapshotIsTrue' BY <1>8 DEF SidecarInv, SnapshotIsTrue, Items
<1>13. TargetIsTrue' BY <1>8 DEF SidecarInv, TargetIsTrue, HasArrived, Items
<1> QED BY <1>9, <1>11, <1>12, <1>13 DEF SidecarInv

LEMMA StoresChange ==
    ASSUME SidecarInv, UNCHANGED <<capture, sidecars, target, apply, source>>,
           upstream \subseteq upstream', upstream' \subseteq Objects,
           cas' \in [chunks : SUBSET ChunkValues, manifests : SUBSET Seq(ChunkValues)],
           writes' \in Nat
    PROVE  SidecarInv'
<1>1. SidecarTyped' BY DEF SidecarInv, SidecarTyped
<1>2. Pointers' = Pointers /\ Items' = Items BY DEF Pointers, Items
<1>3. CaptureIsTrue' BY <1>2 DEF SidecarInv, CaptureIsTrue
<1>4. SnapshotIsTrue' BY <1>2 DEF SidecarInv, SnapshotIsTrue
<1>5. TargetIsTrue' BY <1>2 DEF SidecarInv, TargetIsTrue, HasArrived
<1> QED BY <1>1, <1>3, <1>4, <1>5 DEF SidecarInv

LEMMA StoreSteps ==
    ASSUME SidecarInv,
           \/ \E o \in Objects : ObjectPushed(o)
           \/ \E c \in cas.chunks : ChunkLost(c)
    PROVE  SidecarInv'
<1> cas \in [chunks : SUBSET ChunkValues, manifests : SUBSET Seq(ChunkValues)] /\ writes \in Nat
    /\ upstream \subseteq Objects
  BY DEF SidecarInv, SidecarTyped
<1>1. CASE \E o \in Objects : ObjectPushed(o)
  BY <1>1, StoresChange DEF ObjectPushed
<1>2. CASE \E c \in cas.chunks : ChunkLost(c)
  <2> PICK c \in cas.chunks : ChunkLost(c) BY <1>2
  <2>1. cas' = [cas EXCEPT !.chunks = cas.chunks \ {c}] /\ writes' = writes + 1
        /\ UNCHANGED <<source, upstream, capture, sidecars, target, apply>>
    BY DEF ChunkLost, Spends
  <2>2. cas' \in [chunks : SUBSET ChunkValues, manifests : SUBSET Seq(ChunkValues)] BY <2>1
  <2> QED BY <2>1, <2>2, StoresChange
<1> QED BY <1>1, <1>2

LEMMA ObjectsGo ==
    ASSUME SidecarInv, NEW o \in Objects, ObjectPruned(o)
    PROVE  SidecarInv'
<1>1. source' = [source EXCEPT !.objects = source.objects \ {o}] /\ writes' = writes + 1
      /\ UNCHANGED <<upstream, cas, capture, sidecars, target, apply>>
  BY DEF ObjectPruned, Spends
<1>2. source \in [files : [Large -> Seq(Nat)], objects : SUBSET Objects, smudged : SUBSET Objects]
      /\ writes \in Nat
  BY DEF SidecarInv, SidecarTyped
<1>3. /\ source' \in [files : [Large -> Seq(Nat)], objects : SUBSET Objects, smudged : SUBSET Objects]
      /\ source'.files = source.files /\ source'.smudged = source.smudged
  BY <1>1, <1>2
<1>4. SidecarTyped' BY <1>1, <1>2, <1>3 DEF SidecarInv, SidecarTyped
<1>5. Pointers' = Pointers BY <1>3 DEF Pointers
<1>6. CaptureIsTrue' BY <1>1, <1>3, <1>5 DEF SidecarInv, CaptureIsTrue
<1>7. SnapshotIsTrue' BY <1>1 DEF SidecarInv, SnapshotIsTrue, Items
<1>8. TargetIsTrue' BY <1>1 DEF SidecarInv, TargetIsTrue, HasArrived, Items
<1> QED BY <1>4, <1>6, <1>7, <1>8 DEF SidecarInv
-----------------------------------------------------------------------------
(* The capture. *)
LEMMA CaptureBegins ==
    ASSUME SidecarInv, NEW aware \in BOOLEAN, BeginCapture(aware)
    PROVE  SidecarInv'
<1>1. /\ capture' = [NoCapture EXCEPT !.pc = "next", !.aware = aware, !.before = source.files,
                          !.todo = Large \cup LocalOnly(aware)]
      /\ UNCHANGED <<source, upstream, cas, sidecars, target, apply, writes>>
      /\ sidecars = NoSnapshot
  BY DEF BeginCapture
<1>2. LocalOnly(aware) \subseteq Objects BY DEF LocalOnly, Pointers
<1>3. source.files \in FilesBefore BY DEF SidecarInv, SidecarTyped, FilesBefore
<1>4. /\ capture' \in CaptureRecord /\ capture'.pc = "next" /\ capture'.aware = aware
      /\ capture'.before = source.files /\ capture'.todo = Large \cup LocalOnly(aware)
  BY <1>1, <1>2, <1>3, NoCaptureTyped DEF CaptureRecord, SidecarItems
<1>5. capture'.taken = NoSidecars BY <1>1, NoCaptureTyped DEF NoCapture
<1>6. SidecarTyped' BY <1>1, <1>4 DEF SidecarInv, SidecarTyped
<1>7. CaptureIsTrue'
  <2>1. aware => Pointers \subseteq capture'.todo \cup upstream BY <1>4 DEF LocalOnly
  <2>2. Pointers' = Pointers BY <1>1 DEF Pointers
  <2> QED BY <1>1, <1>4, <1>5, <2>1, <2>2, NothingIsAMap DEF CaptureIsTrue
<1>8. SnapshotIsTrue' BY <1>1 DEF SnapshotIsTrue
<1>9. TargetIsTrue' BY <1>1 DEF SidecarInv, TargetIsTrue, HasArrived, Items
<1> QED BY <1>6, <1>7, <1>8, <1>9 DEF SidecarInv

(* A step of the capture that leaves what it has taken.                     *)
LEMMA CaptureGoesOn ==
    ASSUME SidecarInv, capture' \in CaptureRecord, CaptureIsTrue', capture.pc \in {"next", "read"},
           UNCHANGED <<source, upstream, sidecars, target, apply, writes>>,
           cas' \in [chunks : SUBSET ChunkValues, manifests : SUBSET Seq(ChunkValues)]
    PROVE  SidecarInv'
<1>1. SidecarTyped' BY DEF SidecarInv, SidecarTyped
<1>2. sidecars = NoSnapshot BY DEF SidecarInv, CaptureIsTrue
<1>3. SnapshotIsTrue' BY <1>2 DEF SnapshotIsTrue
<1>4. TargetIsTrue' BY <1>2 DEF SidecarInv, TargetIsTrue
<1> QED BY <1>1, <1>3, <1>4 DEF SidecarInv

LEMMA StatsRight ==
    ASSUME SidecarInv, StatItem
    PROVE  SidecarInv'
<1> DEFINE item == NextOf(capture.todo)
           size == IF item \in Large THEN Len(source.files[item]) ELSE 1
<1>1. /\ capture.pc = "next" /\ capture.todo # {}
      /\ capture' = [capture EXCEPT !.pc = "read", !.item = item, !.chunks = <<>>, !.size = size]
      /\ UNCHANGED <<source, upstream, cas, sidecars, target, apply, writes>>
  BY DEF StatItem
<1>2. capture \in CaptureRecord /\ capture.todo \in SUBSET SidecarItems
  BY DEF SidecarInv, SidecarTyped, CaptureRecord
<1>3. item \in capture.todo /\ item \in SidecarItems BY <1>1, <1>2, NextIsOne
<1>4. size \in Nat BY DEF SidecarInv, SidecarTyped
<1> HIDE DEF item, size
<1>5. /\ capture' \in CaptureRecord /\ capture'.pc = "read" /\ capture'.item = item
      /\ capture'.chunks = <<>> /\ capture'.todo = capture.todo /\ capture'.taken = capture.taken
      /\ capture'.aware = capture.aware /\ capture'.before = capture.before
  <2>1. capture' = [pc |-> "read", todo |-> capture.todo, item |-> item, size |-> size, chunks |-> <<>>,
                    taken |-> capture.taken, aware |-> capture.aware, before |-> capture.before]
    BY <1>1, <1>2 DEF CaptureRecord
  <2>2. <<>> \in Seq(ChunkValues) OBVIOUS
  <2>3. capture' \in CaptureRecord BY <1>2, <1>3, <1>4, <2>1, <2>2 DEF CaptureRecord
  <2> QED BY <2>1, <2>3
<1>6. Pointers' = Pointers BY <1>1 DEF Pointers
<1>7. Len(<<>>) = 0 /\ \A f \in Large : Len(source.files[f]) \in Nat BY DEF SidecarInv, SidecarTyped
<1>8. CaptureIsTrue'
  <2>1. capture'.before # NoSidecars =>
           /\ capture'.before = source.files
           /\ \A f \in Large \cap DOMAIN capture'.taken : capture'.taken[f].manifest = capture'.before[f]
    BY <1>1, <1>5 DEF SidecarInv, CaptureIsTrue
  <2>2. capture'.before # NoSidecars /\ item \in Large =>
           /\ Len(capture'.chunks) <= Len(capture'.before[item])
           /\ 1 .. Len(capture'.chunks) = {}
    BY <1>5, <1>7, <2>1
  <2>3. /\ sidecars = NoSnapshot /\ Large \subseteq DOMAIN capture.taken \cup capture.todo
        /\ capture.aware => Pointers \subseteq DOMAIN capture.taken \cup capture.todo \cup upstream
    BY <1>1 DEF SidecarInv, CaptureIsTrue
  <2> QED BY <1>1, <1>3, <1>5, <1>6, <2>1, <2>2, <2>3 DEF CaptureIsTrue
<1>9. cas' \in [chunks : SUBSET ChunkValues, manifests : SUBSET Seq(ChunkValues)]
  BY <1>1 DEF SidecarInv, SidecarTyped
<1> QED BY <1>1, <1>5, <1>8, <1>9, CaptureGoesOn

LEMMA ReadsRight ==
    ASSUME SidecarInv, ReadChunk
    PROVE  SidecarInv'
<1> DEFINE at == Len(capture.chunks) + 1
           chunk == BytesOf(capture.item)[at]
<1>1. /\ capture.pc = "read" /\ at <= Len(BytesOf(capture.item))
      /\ cas' = [cas EXCEPT !.chunks = cas.chunks \cup {chunk}]
      /\ capture' = [capture EXCEPT !.chunks = Append(capture.chunks, chunk)]
      /\ UNCHANGED <<source, upstream, sidecars, target, apply, writes>>
  BY DEF ReadChunk, StoreChunk
<1>2. /\ capture \in CaptureRecord /\ capture.chunks \in Seq(ChunkValues)
      /\ capture.item \in capture.todo /\ capture.todo \subseteq SidecarItems
  BY <1>1 DEF SidecarInv, SidecarTyped, CaptureRecord, CaptureIsTrue
<1>3. BytesOf(capture.item) \in Seq(ChunkValues)
  <2>1. CASE capture.item \in Large
    <3>1. source.files[capture.item] \in Seq(Nat) BY <2>1 DEF SidecarInv, SidecarTyped
    <3>2. source.files[capture.item] \in Seq(ChunkValues) BY <3>1 DEF ChunkValues
    <3> QED BY <2>1, <3>2 DEF BytesOf
  <2>2. CASE capture.item \notin Large
    <3>1. capture.item \in ChunkValues BY <1>2, <2>2 DEF ChunkValues, SidecarItems
    <3>2. <<capture.item>> \in Seq(ChunkValues) BY <3>1
    <3> QED BY <2>2, <3>2 DEF BytesOf
  <2> QED BY <2>1, <2>2
<1>4. at \in 1 .. Len(BytesOf(capture.item)) BY <1>1, <1>2, <1>3
<1>5. chunk \in ChunkValues BY <1>3, <1>4
<1>6. /\ Append(capture.chunks, chunk) \in Seq(ChunkValues)
      /\ Len(Append(capture.chunks, chunk)) = at
      /\ Append(capture.chunks, chunk)[at] = chunk
      /\ \A i \in 1 .. Len(capture.chunks) : Append(capture.chunks, chunk)[i] = capture.chunks[i]
  BY <1>2, <1>5
<1>7. capture.item \in Large => BytesOf(capture.item) = source.files[capture.item] BY DEF BytesOf
<1>8. cas' \in [chunks : SUBSET ChunkValues, manifests : SUBSET Seq(ChunkValues)]
  <2> HIDE DEF chunk
  <2> QED BY <1>1, <1>5 DEF SidecarInv, SidecarTyped
<1>9. capture.before # NoSidecars /\ capture.item \in Large =>
        /\ at <= Len(capture.before[capture.item])
        /\ \A i \in 1 .. at : Append(capture.chunks, chunk)[i] = capture.before[capture.item][i]
  <2> SUFFICES ASSUME capture.before # NoSidecars, capture.item \in Large
      PROVE  /\ at <= Len(capture.before[capture.item])
             /\ \A i \in 1 .. at : Append(capture.chunks, chunk)[i] = capture.before[capture.item][i]
    OBVIOUS
  <2>1. capture.before = source.files
        /\ \A i \in 1 .. Len(capture.chunks) : capture.chunks[i] = capture.before[capture.item][i]
    BY <1>1 DEF SidecarInv, CaptureIsTrue
  <2>2. at <= Len(capture.before[capture.item]) /\ chunk = capture.before[capture.item][at]
    BY <1>1, <1>7, <2>1
  <2>3. \A i \in 1 .. at : i \in 1 .. Len(capture.chunks) \/ i = at BY <1>2
  <2> HIDE DEF at, chunk
  <2> QED BY <1>6, <2>1, <2>2, <2>3
<1> HIDE DEF chunk
<1>10. /\ capture' \in CaptureRecord /\ capture'.pc = "read" /\ capture'.item = capture.item
       /\ capture'.chunks = Append(capture.chunks, chunk)
       /\ capture'.todo = capture.todo /\ capture'.taken = capture.taken
       /\ capture'.aware = capture.aware /\ capture'.before = capture.before
  <2> QED BY <1>1, <1>2, <1>6 DEF CaptureRecord
<1>11. Pointers' = Pointers BY <1>1 DEF Pointers
<1>12. CaptureIsTrue'
  BY <1>1, <1>2, <1>6, <1>9, <1>10, <1>11 DEF SidecarInv, CaptureIsTrue
<1> QED BY <1>1, <1>8, <1>10, <1>12, CaptureGoesOn

LEMMA NamesRight ==
    ASSUME SidecarInv, NameManifest
    PROVE  SidecarInv'
<1> DEFINE item == capture.item
           grown == Grown(capture.taken, item, capture.size, capture.chunks)
<1>1. /\ capture.pc = "read" /\ Len(capture.chunks) >= Len(BytesOf(item))
      /\ cas' = [cas EXCEPT !.manifests = cas.manifests \cup {capture.chunks}]
      /\ capture' = [capture EXCEPT !.pc = "next", !.todo = capture.todo \ {item}, !.taken = grown]
      /\ UNCHANGED <<source, upstream, sidecars, target, apply, writes>>
  BY DEF NameManifest, Grown
<1>2. /\ capture \in CaptureRecord /\ capture.chunks \in Seq(ChunkValues) /\ capture.size \in Nat
      /\ capture.taken \in SidecarMaps
      /\ item \in capture.todo /\ capture.todo \in SUBSET SidecarItems
  BY <1>1 DEF SidecarInv, SidecarTyped, CaptureRecord, CaptureIsTrue
<1>3. item \in SidecarItems BY <1>2
<1>4. PICK taken : taken = grown OBVIOUS
<1>5. /\ taken \in SidecarMaps /\ DOMAIN taken = DOMAIN capture.taken \cup {item}
      /\ taken[item].manifest = capture.chunks
      /\ \A i \in DOMAIN capture.taken : i # item => taken[i] = capture.taken[i]
  <2>1. PICK map, one, size, parts :
           map = capture.taken /\ one = item /\ size = capture.size /\ parts = capture.chunks
    OBVIOUS
  <2>2. map \in SidecarMaps /\ one \in SidecarItems /\ size \in Nat /\ parts \in Seq(ChunkValues)
    BY <1>2, <1>3, <2>1
  <2>3. /\ Grown(map, one, size, parts) \in SidecarMaps
        /\ DOMAIN Grown(map, one, size, parts) = DOMAIN map \cup {one}
        /\ Grown(map, one, size, parts)[one].manifest = parts
        /\ \A i \in DOMAIN map : i # one => Grown(map, one, size, parts)[i] = map[i]
    BY <2>2, MapsGrow
  <2>4. taken = Grown(map, one, size, parts) BY <1>4, <2>1
  <2> HIDE DEF item
  <2> QED BY <2>1, <2>3, <2>4
<1>6. capture' = [capture EXCEPT !.pc = "next", !.todo = capture.todo \ {item}, !.taken = taken]
  BY <1>1, <1>4
<1> HIDE DEF grown
<1>7. /\ capture' \in CaptureRecord /\ capture'.pc = "next" /\ capture'.todo = capture.todo \ {item}
      /\ capture'.taken = taken /\ capture'.aware = capture.aware /\ capture'.before = capture.before
  BY <1>2, <1>5, <1>6 DEF CaptureRecord
<1>8. cas' \in [chunks : SUBSET ChunkValues, manifests : SUBSET Seq(ChunkValues)]
  BY <1>1, <1>2 DEF SidecarInv, SidecarTyped
<1>9. capture.before # NoSidecars /\ item \in Large => capture.chunks = capture.before[item]
  <2> SUFFICES ASSUME capture.before # NoSidecars, item \in Large
      PROVE  capture.chunks = capture.before[item]
    OBVIOUS
  <2>1. /\ capture.before = source.files /\ Len(capture.chunks) <= Len(capture.before[item])
        /\ \A i \in 1 .. Len(capture.chunks) : capture.chunks[i] = capture.before[item][i]
    BY <1>1 DEF SidecarInv, CaptureIsTrue
  <2>2. source.files[item] \in Seq(Nat) BY DEF SidecarInv, SidecarTyped
  <2>3. Len(capture.chunks) >= Len(source.files[item]) BY <1>1 DEF BytesOf
  <2> HIDE DEF item
  <2> QED BY <1>2, <2>1, <2>2, <2>3
<1>10. Pointers' = Pointers BY <1>1 DEF Pointers
<1>11. CaptureIsTrue'
  <2>1. /\ sidecars = NoSnapshot /\ Large \subseteq DOMAIN capture.taken \cup capture.todo
        /\ capture.aware => Pointers \subseteq DOMAIN capture.taken \cup capture.todo \cup upstream
        /\ capture.before # NoSidecars =>
              /\ capture.before = source.files
              /\ \A f \in Large \cap DOMAIN capture.taken :
                    capture.taken[f].manifest = capture.before[f]
    BY <1>1 DEF SidecarInv, CaptureIsTrue
  <2>2. capture.before # NoSidecars =>
          \A f \in Large \cap DOMAIN taken : taken[f].manifest = capture.before[f]
    BY <1>5, <1>9, <2>1
  <2> QED BY <1>1, <1>5, <1>7, <1>10, <2>1, <2>2 DEF CaptureIsTrue
<1> QED BY <1>1, <1>7, <1>8, <1>11, CaptureGoesOn

LEMMA CaptureStopsRight ==
    ASSUME SidecarInv, CaptureStops
    PROVE  SidecarInv'
<1>1. /\ capture.pc \in {"next", "read"} /\ capture' = NoCapture
      /\ UNCHANGED <<source, upstream, cas, sidecars, target, apply, writes>>
  BY DEF CaptureStops
<1>2. CaptureIsTrue' BY <1>1 DEF CaptureIsTrue, NoCapture
<1>3. cas' \in [chunks : SUBSET ChunkValues, manifests : SUBSET Seq(ChunkValues)]
  BY <1>1 DEF SidecarInv, SidecarTyped
<1> QED BY <1>1, <1>2, <1>3, NoCaptureTyped, CaptureGoesOn

LEMMA CaptureEndsRight ==
    ASSUME SidecarInv, CaptureEnds
    PROVE  SidecarInv'
<1>1. /\ capture.pc = "next" /\ capture.todo = {} /\ capture' = [NoCapture EXCEPT !.pc = "done"]
      /\ sidecars' = [pc |-> "taken", of |-> capture.taken, before |-> capture.before,
                      seen |-> IF capture.aware THEN Pointers ELSE {}]
      /\ UNCHANGED <<source, upstream, cas, target, apply, writes>>
  BY DEF CaptureEnds
<1>2. capture \in CaptureRecord /\ capture.taken \in SidecarMaps
  BY DEF SidecarInv, SidecarTyped, CaptureRecord
<1>3. /\ sidecars = NoSnapshot /\ Large \subseteq DOMAIN capture.taken
      /\ capture.aware => Pointers \subseteq DOMAIN capture.taken \cup upstream
      /\ capture.before # NoSidecars =>
            \A f \in Large \cap DOMAIN capture.taken : capture.taken[f].manifest = capture.before[f]
  BY <1>1 DEF SidecarInv, CaptureIsTrue
<1>4. /\ sidecars'.of = capture.taken /\ sidecars'.before = capture.before
      /\ sidecars'.seen = IF capture.aware THEN Pointers ELSE {}
  BY <1>1
<1>5. sidecars' \in TakenRecord
  BY <1>1, <1>2 DEF TakenRecord, CaptureRecord, Pointers
<1>6. capture' \in CaptureRecord /\ capture'.pc = "done"
  BY <1>1, NoCaptureTyped DEF CaptureRecord
<1>7. SidecarTyped' BY <1>1, <1>5, <1>6 DEF SidecarInv, SidecarTyped
<1>8. CaptureIsTrue' BY <1>6 DEF CaptureIsTrue
<1>9. Items' = DOMAIN capture.taken BY <1>4 DEF Items
<1>10. SnapshotIsTrue' BY <1>1, <1>3, <1>4, <1>9 DEF SnapshotIsTrue
<1>11. apply.pc = "idle" /\ \A f \in Large : target.files[f] = <<>>
  BY <1>3 DEF SidecarInv, TargetIsTrue
<1>12. TargetIsTrue' BY <1>1, <1>11 DEF TargetIsTrue
<1> QED BY <1>7, <1>8, <1>10, <1>12 DEF SidecarInv
-----------------------------------------------------------------------------
(* The apply. *)
LEMMA ApplyGoesOn ==
    ASSUME SidecarInv, target' \in TargetRecord, apply' \in ApplyRecord, TargetIsTrue',
           UNCHANGED <<source, upstream, cas, capture, sidecars, writes>>
    PROVE  SidecarInv'
<1>1. SidecarTyped' BY DEF SidecarInv, SidecarTyped
<1>2. Pointers' = Pointers /\ Items' = Items BY DEF Pointers, Items
<1>3. CaptureIsTrue' BY <1>2 DEF SidecarInv, CaptureIsTrue
<1>4. SnapshotIsTrue' BY <1>2 DEF SidecarInv, SnapshotIsTrue
<1> QED BY <1>1, <1>3, <1>4 DEF SidecarInv

LEMMA ApplyBegins ==
    ASSUME SidecarInv, BeginApply
    PROVE  SidecarInv'
<1>1. /\ sidecars # NoSnapshot /\ TargetClean
      /\ target' = [target EXCEPT !.base = TRUE]
      /\ apply' = [NoApply EXCEPT !.pc = "next", !.todo = Items]
      /\ UNCHANGED <<source, upstream, cas, capture, sidecars, writes>>
  BY DEF BeginApply
<1>2. Items \subseteq SidecarItems BY <1>1, SnapshotKnown DEF SidecarInv
<1>3. apply' \in ApplyRecord /\ apply'.pc = "next" /\ apply'.todo = Items
  BY <1>1, <1>2, NoApplyTyped DEF ApplyRecord
<1>4. target' \in TargetRecord /\ target'.base /\ target'.files = target.files
  BY <1>1 DEF SidecarInv, SidecarTyped, TargetRecord
<1>5. \A f \in Large : target.files[f] = <<>> BY <1>1 DEF TargetClean
<1>6. Items' = Items BY <1>1 DEF Items
<1>7. TargetIsTrue' BY <1>1, <1>3, <1>4, <1>5, <1>6 DEF TargetIsTrue
<1> QED BY <1>1, <1>3, <1>4, <1>7, ApplyGoesOn

(* An apply that is under way has a snapshot.                               *)
LEMMA ApplyKnows ==
    ASSUME SidecarInv, apply.pc # "idle"
    PROVE  /\ sidecars # NoSnapshot /\ sidecars \in TakenRecord
           /\ apply \in ApplyRecord /\ target \in TargetRecord
           /\ target.base
           /\ \A f \in Large : target.files[f] # <<>> => /\ target.files[f] = sidecars.of[f].manifest
                                                         /\ Len(target.files[f]) = sidecars.of[f].size
BY SnapshotKnown DEF SidecarInv, TargetIsTrue, SidecarTyped

LEMMA ChoosesSidecar ==
    ASSUME SidecarInv, NextSidecar
    PROVE  SidecarInv'
<1>1. PICK item \in apply.todo :
        /\ apply.pc = "next" /\ ManifestFits(item)
        /\ apply' = [apply EXCEPT !.pc = "write", !.item = item, !.part = <<>>]
        /\ UNCHANGED <<source, upstream, cas, capture, sidecars, target, writes>>
  BY DEF NextSidecar
<1>2. /\ apply \in ApplyRecord /\ target \in TargetRecord /\ sidecars # NoSnapshot /\ target.base
      /\ \A f \in Large : target.files[f] # <<>> => /\ target.files[f] = sidecars.of[f].manifest
                                                    /\ Len(target.files[f]) = sidecars.of[f].size
  BY <1>1, ApplyKnows
<1>3. item \in apply.todo /\ item \in SidecarItems BY <1>1, <1>2 DEF ApplyRecord
<1>4. Len(sidecars.of[item].manifest) = sidecars.of[item].size BY <1>1 DEF ManifestFits
<1>5. /\ apply' \in ApplyRecord /\ apply'.pc = "write" /\ apply'.todo = apply.todo /\ apply'.item = item
  <2>1. <<>> \in Seq(ChunkValues) OBVIOUS
  <2> QED BY <1>1, <1>2, <1>3, <2>1 DEF ApplyRecord
<1>6. Items' = Items /\ \A i : HasArrived(i)' <=> HasArrived(i) BY <1>1 DEF Items, HasArrived
<1>7. apply.todo \subseteq Items /\ \A i \in Items \ apply.todo : HasArrived(i)
  BY <1>1, <1>2 DEF SidecarInv, TargetIsTrue
<1>8. TargetIsTrue'
  BY <1>1, <1>2, <1>3, <1>4, <1>5, <1>6, <1>7 DEF TargetIsTrue
<1> QED BY <1>1, <1>2, <1>5, <1>8, ApplyGoesOn

LEMMA WritesOneChunk ==
    ASSUME SidecarInv, WriteChunk
    PROVE  SidecarInv'
<1>1. /\ apply.pc = "write" /\ Len(apply.part) < Len(Wanted)
      /\ apply' = [apply EXCEPT !.part = Append(apply.part, NextChunk)]
      /\ target' = [target EXCEPT !.leftover = apply.item \in Large]
      /\ UNCHANGED <<source, upstream, cas, capture, sidecars, writes>>
  BY DEF WriteChunk, WritesAside
<1>2. /\ apply \in ApplyRecord /\ target \in TargetRecord /\ sidecars # NoSnapshot /\ target.base
      /\ sidecars.of \in SidecarMaps
  BY <1>1, ApplyKnows, SnapshotKnown DEF SidecarInv
<1>3. /\ apply.item \in apply.todo /\ apply.todo \subseteq Items
      /\ Len(sidecars.of[apply.item].manifest) = sidecars.of[apply.item].size
      /\ \A i \in Items \ apply.todo : HasArrived(i)
  BY <1>1, <1>2 DEF SidecarInv, TargetIsTrue
<1>4. Wanted \in Seq(ChunkValues)
  <2>1. PICK map, item : map = sidecars.of /\ item = apply.item OBVIOUS
  <2>2. map \in SidecarMaps /\ item \in DOMAIN map BY <1>2, <1>3, <2>1 DEF Items
  <2>3. map[item].manifest \in Seq(ChunkValues) BY <2>2, MapsOfItems
  <2> QED BY <2>1, <2>3 DEF Wanted
<1>5. apply.part \in Seq(ChunkValues) BY <1>2 DEF ApplyRecord
<1>6. NextChunk \in ChunkValues BY <1>1, <1>4, <1>5 DEF NextChunk
<1>7. Append(apply.part, NextChunk) \in Seq(ChunkValues) BY <1>5, <1>6
<1>8. /\ apply' \in ApplyRecord /\ apply'.pc = "write" /\ apply'.todo = apply.todo
      /\ apply'.item = apply.item
  BY <1>1, <1>2, <1>7 DEF ApplyRecord
<1>9. /\ target' \in TargetRecord /\ target'.base = target.base /\ target'.files = target.files
      /\ target'.objects = target.objects
  <2>1. PICK left \in BOOLEAN : target' = [target EXCEPT !.leftover = left]
    <3>1. (apply.item \in Large) \in BOOLEAN OBVIOUS
    <3> QED BY <1>1, <3>1, Zenon
  <2> QED BY <1>2, <2>1 DEF TargetRecord
<1>10. Items' = Items /\ \A i : HasArrived(i)' <=> HasArrived(i) BY <1>1, <1>9 DEF Items, HasArrived
<1>11. TargetIsTrue'
  BY <1>1, <1>2, <1>3, <1>8, <1>9, <1>10 DEF SidecarInv, TargetIsTrue
<1> QED BY <1>1, <1>8, <1>9, <1>11, ApplyGoesOn

LEMMA PlacesSidecar ==
    ASSUME SidecarInv, PlaceSidecar
    PROVE  SidecarInv'
<1>1. /\ apply.pc = "write" /\ apply.part = Wanted
      /\ target' = IF apply.item \in Large
                   THEN [target EXCEPT !.files[apply.item] = apply.part, !.leftover = FALSE]
                   ELSE [target EXCEPT !.objects = target.objects \cup {apply.item}, !.leftover = FALSE]
      /\ apply' = [apply EXCEPT !.pc = "next", !.todo = apply.todo \ {apply.item}, !.part = <<>>]
      /\ UNCHANGED <<source, upstream, cas, capture, sidecars, writes>>
  BY DEF PlaceSidecar
<1>2. /\ apply \in ApplyRecord /\ target \in TargetRecord /\ sidecars # NoSnapshot /\ target.base
      /\ \A f \in Large : target.files[f] # <<>> => /\ target.files[f] = sidecars.of[f].manifest
                                                    /\ Len(target.files[f]) = sidecars.of[f].size
      /\ Items \subseteq SidecarItems
  BY <1>1, ApplyKnows, SnapshotKnown DEF SidecarInv
<1>3. /\ apply.item \in apply.todo /\ apply.todo \subseteq Items
      /\ Len(sidecars.of[apply.item].manifest) = sidecars.of[apply.item].size
      /\ \A i \in Items \ apply.todo : HasArrived(i)
  BY <1>1, <1>2 DEF SidecarInv, TargetIsTrue
<1>4. /\ apply' \in ApplyRecord /\ apply'.pc = "next" /\ apply'.todo = apply.todo \ {apply.item}
  <2>1. <<>> \in Seq(ChunkValues) OBVIOUS
  <2> QED BY <1>1, <1>2, <2>1 DEF ApplyRecord
<1>5. apply.part \in Seq(ChunkValues) /\ apply.part = sidecars.of[apply.item].manifest
  BY <1>1, <1>2 DEF ApplyRecord, Wanted
<1>6. Items' = Items BY <1>1 DEF Items
<1>7. CASE apply.item \in Large
  <2>1. /\ target' \in TargetRecord /\ target'.base /\ target'.objects = target.objects
        /\ target'.files[apply.item] = apply.part
        /\ \A f \in Large : f # apply.item => target'.files[f] = target.files[f]
    BY <1>1, <1>2, <1>5, <1>7 DEF TargetRecord
  <2>2. \A i \in Items \ apply'.todo : HasArrived(i)'
    BY <1>1, <1>3, <1>4, <1>5, <2>1, <1>7, SidecarTransferAssumption DEF HasArrived
  <2>3. \A f \in Large : target'.files[f] # <<>> => /\ target'.files[f] = sidecars.of[f].manifest
                                                   /\ Len(target'.files[f]) = sidecars.of[f].size
    BY <1>2, <1>3, <1>5, <2>1
  <2>4. TargetIsTrue' BY <1>1, <1>2, <1>3, <1>4, <1>6, <2>1, <2>2, <2>3 DEF TargetIsTrue
  <2> QED BY <1>1, <1>4, <2>1, <2>4, ApplyGoesOn
<1>8. CASE apply.item \notin Large
  <2>1. apply.item \in Objects BY <1>2, <1>3, <1>8 DEF SidecarItems
  <2>2. /\ target' \in TargetRecord /\ target'.base /\ target'.files = target.files
        /\ target'.objects = target.objects \cup {apply.item}
    BY <1>1, <1>2, <1>8, <2>1 DEF TargetRecord
  <2>3. \A i \in Items \ apply'.todo : HasArrived(i)'
    BY <1>1, <1>3, <1>4, <2>2, <1>8 DEF HasArrived
  <2>4. TargetIsTrue' BY <1>1, <1>2, <1>3, <1>4, <1>6, <2>2, <2>3 DEF TargetIsTrue
  <2> QED BY <1>1, <1>4, <2>2, <2>4, ApplyGoesOn
<1> QED BY <1>7, <1>8

LEMMA ApplyOver ==
    ASSUME SidecarInv, ApplyFails \/ ApplyEnds \/ CleanTarget
    PROVE  SidecarInv'
<1>1. apply.pc # "idle" /\ UNCHANGED <<source, upstream, cas, capture, sidecars, writes>>
  BY DEF ApplyFails, ApplyEnds, CleanTarget
<1>2. /\ apply \in ApplyRecord /\ target \in TargetRecord /\ sidecars # NoSnapshot /\ target.base
      /\ \A f \in Large : target.files[f] # <<>> => /\ target.files[f] = sidecars.of[f].manifest
                                                    /\ Len(target.files[f]) = sidecars.of[f].size
  BY <1>1, ApplyKnows
<1>3. Items' = Items BY <1>1 DEF Items
<1>4. CASE ApplyFails
  <2>1. apply' = [NoApply EXCEPT !.pc = "failed"] /\ target' \in {target, [target EXCEPT !.leftover = FALSE]}
    BY <1>4 DEF ApplyFails
  <2>2. apply' \in ApplyRecord /\ apply'.pc = "failed" BY <2>1, NoApplyTyped DEF ApplyRecord
  <2>3. target' \in TargetRecord /\ target'.base /\ target'.files = target.files
    BY <1>2, <2>1 DEF TargetRecord
  <2>4. TargetIsTrue' BY <1>1, <1>2, <2>2, <2>3 DEF TargetIsTrue
  <2> QED BY <1>1, <2>2, <2>3, <2>4, ApplyGoesOn
<1>5. CASE ApplyEnds
  <2>1. /\ apply.pc = "next" /\ apply.todo = {} /\ apply' = [NoApply EXCEPT !.pc = "applied"]
        /\ target' = target
    BY <1>5 DEF ApplyEnds
  <2>2. apply' \in ApplyRecord /\ apply'.pc = "applied" BY <2>1, NoApplyTyped DEF ApplyRecord
  <2>3. \A i \in Items : HasArrived(i) BY <1>2, <2>1 DEF SidecarInv, TargetIsTrue
  <2>4. \A i : HasArrived(i)' <=> HasArrived(i) BY <1>1, <2>1 DEF HasArrived
  <2>5. TargetIsTrue' BY <1>1, <1>2, <1>3, <2>1, <2>2, <2>3, <2>4 DEF TargetIsTrue
  <2> QED BY <1>1, <1>2, <2>1, <2>2, <2>5, ApplyGoesOn
<1>6. CASE CleanTarget
  <2>1. /\ target' = [target EXCEPT !.files = [f \in Large |-> <<>>], !.leftover = FALSE]
        /\ apply' = apply /\ apply.pc = "failed"
    BY <1>6 DEF CleanTarget
  <2>2. target' \in TargetRecord /\ target'.base /\ \A f \in Large : target'.files[f] = <<>>
    <3>1. [f \in Large |-> <<>>] \in [Large -> Seq(ChunkValues)] OBVIOUS
    <3> QED BY <1>2, <2>1, <3>1 DEF TargetRecord
  <2>3. TargetIsTrue' BY <1>1, <1>2, <2>1, <2>2 DEF TargetIsTrue
  <2> QED BY <1>1, <1>2, <2>1, <2>2, <2>3, ApplyGoesOn
<1> QED BY <1>4, <1>5, <1>6
-----------------------------------------------------------------------------
LEMMA SidecarsGoOn == SidecarInv /\ [SidecarNext]_sidecarVars => SidecarInv'
<1> SUFFICES ASSUME SidecarInv, [SidecarNext]_sidecarVars PROVE SidecarInv' OBVIOUS
<1>1. CASE UNCHANGED sidecarVars
  BY <1>1 DEF sidecarVars, SidecarInv, SidecarTyped, CaptureIsTrue, SnapshotIsTrue, TargetIsTrue,
      Pointers, Items, HasArrived
<1>2. CASE SidecarNext
  BY <1>2, UserWritesAnyTime, StoreSteps, ObjectsGo, CaptureBegins, StatsRight, ReadsRight, NamesRight,
     CaptureStopsRight, CaptureEndsRight, ApplyBegins, ChoosesSidecar, WritesOneChunk, PlacesSidecar,
     ApplyOver
  DEF SidecarNext
<1> QED BY <1>1, <1>2

LEMMA WholeSidecars == SidecarInv => SidecarsArriveWhole
<1> SUFFICES ASSUME SidecarInv, sidecars # NoSnapshot
    PROVE  /\ \A f \in Large : target.files[f] # <<>> => Len(target.files[f]) = sidecars.of[f].size
           /\ apply.pc = "applied" =>
                 /\ target.base
                 /\ \A f \in Large : target.files[f] = sidecars.of[f].manifest
                 /\ sidecars.before # NoSidecars => target.files = sidecars.before
                 /\ sidecars.seen \subseteq target.objects \cup upstream
  BY DEF SidecarsArriveWhole
<1>1. \A f \in Large : target.files[f] # <<>> => Len(target.files[f]) = sidecars.of[f].size
  BY DEF SidecarInv, TargetIsTrue
<1>2. ASSUME apply.pc = "applied"
      PROVE  /\ target.base
             /\ \A f \in Large : target.files[f] = sidecars.of[f].manifest
             /\ sidecars.before # NoSidecars => target.files = sidecars.before
             /\ sidecars.seen \subseteq target.objects \cup upstream
  <2>1. target.base /\ \A i \in Items : HasArrived(i) BY <1>2 DEF SidecarInv, TargetIsTrue
  <2>2. Large \subseteq Items /\ sidecars.seen \subseteq Items \cup upstream
        /\ (sidecars.before # NoSidecars => \A f \in Large : sidecars.of[f].manifest = sidecars.before[f])
    BY DEF SidecarInv, SnapshotIsTrue
  <2>3. \A f \in Large : target.files[f] = sidecars.of[f].manifest BY <2>1, <2>2 DEF HasArrived
  <2>4. sidecars \in TakenRecord /\ target \in TargetRecord
    BY SnapshotKnown DEF SidecarInv, SidecarTyped
  <2>5. sidecars.before # NoSidecars => target.files = sidecars.before
    <3> SUFFICES ASSUME sidecars.before # NoSidecars PROVE target.files = sidecars.before OBVIOUS
    <3>1. sidecars.before \in [Large -> Seq(Nat)] BY <2>4 DEF TakenRecord, FilesBefore
    <3>2. target.files \in [Large -> Seq(ChunkValues)] BY <2>4 DEF TargetRecord
    <3>3. \A f \in Large : target.files[f] = sidecars.before[f] BY <2>2, <2>3
    <3> QED BY <3>1, <3>2, <3>3
  <2>6. sidecars.seen \subseteq Objects BY <2>4 DEF TakenRecord
  <2>7. sidecars.seen \subseteq target.objects \cup upstream BY <2>1, <2>2, <2>6 DEF HasArrived
  <2> QED BY <2>1, <2>3, <2>5, <2>7
<1> QED BY <1>1, <1>2
-----------------------------------------------------------------------------
AnyTree == UNION {[files -> {1, 2}] : files \in SUBSET Paths}
MoveRecord ==
    [pc : {"none", "check", "refused", "head", "remove", "work", "applied", "failed"},
     target : Platforms, head : AnyTree, index : AnyTree, work : AnyTree, todo : SUBSET Paths]

PrefixFree(files) == \A p, q \in files : p # q => ~IsPrefix(p, q)
Moving == {"head", "remove", "work"}

(* What the apply was given, and what the check has made sure of.          *)
MoveIsSound ==
    /\ move \in MoveRecord
    /\ move.pc \in Moving => /\ PathsSupported
                             /\ PrefixFree(DOMAIN move.work) /\ PrefixFree(DOMAIN move.head)
    /\ move.pc = "check" => PrefixFree(DOMAIN move.work) /\ PrefixFree(DOMAIN move.head)

(* An apply that cannot fail once it has begun.                             *)
Smooth ==
    /\ KeptApart(DOMAIN move.head)
    /\ \A p \in DOMAIN move.head : CanHold(p)
    /\ \A p, q \in Entries : ~(Clash(p, q) /\ Unseen(p, q))

Holds(p, content) == Location(p) \in DOMAIN disk /\ disk[Location(p)] = content
Locations(files) == {Location(p) : p \in files}
Kept == DOMAIN move.head \cap DOMAIN move.work

DiskIsTrue ==
    /\ move.pc \in {"none", "check"} => DOMAIN disk = {}
    /\ move.pc = "head" =>
          /\ move.todo \subseteq DOMAIN move.head /\ DOMAIN disk \subseteq Locations(DOMAIN move.head)
          /\ Smooth => \A p \in DOMAIN move.head \ move.todo : Holds(p, move.head[p])
    /\ move.pc = "remove" =>
          /\ move.todo \subseteq Gone /\ DOMAIN disk \subseteq Locations(Kept \cup move.todo)
          /\ Smooth => \A p \in Kept : Holds(p, move.head[p])
    /\ move.pc = "work" =>
          /\ move.todo \subseteq DOMAIN move.work /\ DOMAIN disk \subseteq Locations(DOMAIN move.work)
          /\ Smooth => \A p \in DOMAIN move.work \ move.todo : Holds(p, move.work[p])
    /\ move.pc = "applied" => DOMAIN disk = Locations(DOMAIN move.work)
    /\ move.pc = "failed" => ~Smooth

PathsInv == MoveIsSound /\ DiskIsTrue

LEMMA TreesAreSmall ==
    ASSUME NEW contents \in SUBSET {1, 2}, NEW tree \in Trees(contents)
    PROVE  tree \in AnyTree
<1> PICK files \in SUBSET Paths : tree \in [files -> contents] BY DEF Trees
<1>1. tree \in [files -> {1, 2}] OBVIOUS
<1> QED BY <1>1 DEF AnyTree

LEMMA TreeOfPaths ==
    ASSUME NEW tree \in AnyTree
    PROVE  DOMAIN tree \subseteq Paths /\ \A p \in DOMAIN tree : tree[p] \in {1, 2}
<1> PICK files \in SUBSET Paths : tree \in [files -> {1, 2}] BY DEF AnyTree
<1> QED OBVIOUS

LEMMA NoTree == EmptyTree \in AnyTree /\ DOMAIN EmptyTree = {}
<1>1. EmptyTree \in [{} -> {1, 2}] BY DEF EmptyTree
<1> QED BY <1>1 DEF AnyTree

(* A location is a sequence, and is in the way of itself.                  *)
LEMMA PlacesClash ==
    ASSUME NEW p \in Paths
    PROVE  InTheWay(Location(p), Location(p))
<1>1. p \in Seq(Names) /\ DOMAIN p = 1 .. Len(p) /\ Len(p) \in Nat BY PathsAssumption
<1>2. PICK values : values = {Folded(p[i], move.target) : i \in DOMAIN p} OBVIOUS
<1>3. Location(p) \in [1 .. Len(p) -> values] BY <1>1, <1>2 DEF Location
<1>4. Location(p) \in Seq(values) BY <1>1, <1>3
<1>5. Len(Location(p)) \in Nat BY <1>4
<1> QED BY <1>5 DEF InTheWay, IsPrefix

(* On a file system that keeps names as they are, a location is the path.  *)
LEMMA PlacesAreNames ==
    ASSUME NEW p \in Paths, CaseSensitive(move.target)
    PROVE  Location(p) = p
<1>1. p \in Seq(Names) BY PathsAssumption
<1>2. \A i \in DOMAIN p : Folded(p[i], move.target) = p[i] BY DEF Folded, CaseSensitive
<1>3. p = [i \in DOMAIN p |-> p[i]] BY <1>1
<1> QED BY <1>2, <1>3 DEF Location

(* What the check lets pass and compares well is kept apart by the target. *)
LEMMA WorkIsHeld ==
    ASSUME MoveIsSound, move.pc \in Moving
    PROVE  /\ \A p \in DOMAIN move.work : CanHold(p)
           /\ Smooth => KeptApart(DOMAIN move.work)
<1>1. PathsSupported /\ PrefixFree(DOMAIN move.work) BY DEF MoveIsSound
<1>2. move.work \in AnyTree BY DEF MoveIsSound, MoveRecord
<1>3. DOMAIN move.work \subseteq Paths BY <1>2, TreeOfPaths
<1>4. DOMAIN move.work \subseteq Entries BY DEF Entries
<1>5. \A p \in DOMAIN move.work : CanHold(p)
  BY <1>1, <1>4 DEF PathsSupported, BadName, CanHold
<1>6. CASE CaseSensitive(move.target)
  <2>1. \A p \in DOMAIN move.work : Location(p) = p BY <1>3, <1>6, PlacesAreNames
  <2>2. KeptApart(DOMAIN move.work)
    BY <1>1, <2>1 DEF KeptApart, Clash, InTheWay, PrefixFree
  <2> QED BY <1>5, <2>2
<1>7. CASE ~CaseSensitive(move.target)
  <2>1. IsInjective([p \in Entries |-> Lowered(p)]) /\ IsInjective([p \in Entries |-> Composed(p)])
    BY <1>1, <1>7 DEF PathsSupported, Collides
  <2>2. \A p, q \in Entries : p # q => Lowered(p) # Lowered(q) /\ Composed(p) # Composed(q)
    <3> DEFINE low == [p \in Entries |-> Lowered(p)]
               com == [p \in Entries |-> Composed(p)]
    <3>1. \A p, q \in Entries : low[p] = low[q] => p = q BY <2>1 DEF IsInjective
    <3>2. \A p, q \in Entries : com[p] = com[q] => p = q BY <2>1 DEF IsInjective
    <3> QED BY <3>1, <3>2
  <2>3. Smooth => KeptApart(DOMAIN move.work)
    BY <1>4, <2>2 DEF Smooth, KeptApart, Clash, Unseen
  <2> QED BY <1>5, <2>3
<1> QED BY <1>6, <1>7

LEMMA PathsInitially == PathsInit => PathsInv
<1> SUFFICES ASSUME PathsInit PROVE PathsInv OBVIOUS
<1>1. move \in MoveRecord /\ move.pc = "none"
  BY NoTree DEF PathsInit, NoMove, MoveRecord, Platforms
<1>2. DOMAIN disk = {} BY NoTree DEF PathsInit
<1> QED BY <1>1, <1>2 DEF PathsInv, MoveIsSound, DiskIsTrue, Moving
-----------------------------------------------------------------------------
(* A step of the apply itself goes on with the same trees.                 *)
SameMove(pc, todo) == move' = [move EXCEPT !.pc = pc, !.todo = todo]

LEMMA MoveGoesOn ==
    ASSUME MoveIsSound, NEW todo \in SUBSET Paths,
           NEW pc \in {"refused", "head", "remove", "work", "applied", "failed"}, SameMove(pc, todo)
    PROVE  /\ move' \in MoveRecord /\ move'.pc = pc /\ move'.todo = todo
           /\ move'.target = move.target /\ move'.head = move.head /\ move'.work = move.work
           /\ move'.index = move.index
BY DEF SameMove, MoveIsSound, MoveRecord

LEMMA SameTrees ==
    ASSUME move'.target = move.target, move'.head = move.head, move'.work = move.work,
           move'.index = move.index
    PROVE  /\ \A p : Location(p)' = Location(p)
           /\ Smooth' <=> Smooth
           /\ PathsSupported' <=> PathsSupported
           /\ Entries' = Entries /\ Gone' = Gone /\ Kept' = Kept
           /\ \A files : Locations(files)' = Locations(files)
<1>1. \A p : Location(p)' = Location(p) BY DEF Location
<1>2. \A p : CanHold(p)' <=> CanHold(p) BY DEF CanHold
<1>3. Entries' = Entries /\ Gone' = Gone /\ Kept' = Kept BY DEF Entries, Gone, Kept
<1>4. \A p, q : Clash(p, q)' <=> Clash(p, q) BY <1>1 DEF Clash
<1>5. Smooth' <=> Smooth BY <1>2, <1>3, <1>4 DEF Smooth, KeptApart
<1>6. PathsSupported' <=> PathsSupported BY <1>3 DEF PathsSupported
<1>7. \A files : Locations(files)' = Locations(files) BY <1>1 DEF Locations
<1> QED BY <1>1, <1>3, <1>5, <1>6, <1>7

LEMMA StaysSound ==
    ASSUME MoveIsSound, NEW todo \in SUBSET Paths,
           NEW pc \in {"refused", "head", "remove", "work", "applied", "failed"}, SameMove(pc, todo),
           pc \in Moving => (move.pc \in Moving \/ (move.pc = "check" /\ PathsSupported))
    PROVE  MoveIsSound'
<1>1. /\ move' \in MoveRecord /\ move'.pc = pc
      /\ move'.target = move.target /\ move'.head = move.head /\ move'.work = move.work
      /\ move'.index = move.index
  BY MoveGoesOn
<1>2. PathsSupported' <=> PathsSupported BY <1>1, SameTrees
<1> QED BY <1>1, <1>2 DEF MoveIsSound

(* A file that is put in its place leaves those alone that it does not     *)
(* clash with, and one that is deleted takes no other with it.             *)
LEMMA PutLeavesOthers ==
    ASSUME NEW p, NEW content, Put(p, content)
    PROVE  /\ Location(p) \in DOMAIN disk' /\ disk'[Location(p)] = content
           /\ DOMAIN disk' \subseteq DOMAIN disk \cup {Location(p)}
           /\ \A at \in DOMAIN disk : ~InTheWay(at, Location(p)) /\ at # Location(p) =>
                 at \in DOMAIN disk' /\ disk'[at] = disk[at]
BY DEF Put

LEMMA ApartInPlace ==
    ASSUME NEW files \in SUBSET Paths, KeptApart(files), NEW p \in files, NEW q \in files, p # q
    PROVE  ~InTheWay(Location(p), Location(q)) /\ Location(p) # Location(q)
<1>1. ~InTheWay(Location(p), Location(q)) BY DEF KeptApart, Clash
<1>2. InTheWay(Location(p), Location(p)) BY PlacesClash
<1> QED BY <1>1, <1>2

LEMMA TakesSnapshot ==
    ASSUME PathsInv, TakeSnapshot
    PROVE  PathsInv'
<1>1. PICK to \in Platforms, head \in Trees({1}), work \in Trees({1, 2}) :
      \E index \in {head, work} :
         /\ \A p, q \in DOMAIN head : p # q => ~IsPrefix(p, q)
         /\ \A p, q \in DOMAIN work : p # q => ~IsPrefix(p, q)
         /\ move' = [NoMove EXCEPT !.pc = "check", !.target = to, !.head = head,
                          !.index = index, !.work = work]
  BY DEF TakeSnapshot
<1>2. PICK index \in {head, work} :
         /\ \A p, q \in DOMAIN head : p # q => ~IsPrefix(p, q)
         /\ \A p, q \in DOMAIN work : p # q => ~IsPrefix(p, q)
         /\ move' = [NoMove EXCEPT !.pc = "check", !.target = to, !.head = head,
                          !.index = index, !.work = work]
  BY <1>1
<1>3. head \in AnyTree /\ work \in AnyTree BY TreesAreSmall
<1>4. move' = [pc |-> "check", target |-> to, head |-> head, index |-> index, work |-> work, todo |-> {}]
  BY <1>2 DEF NoMove
<1>5. MoveIsSound' BY <1>2, <1>3, <1>4 DEF MoveIsSound, MoveRecord, PrefixFree, Moving
<1>6. move.pc = "none" /\ disk' = disk BY DEF TakeSnapshot
<1>7. DiskIsTrue' BY <1>4, <1>6 DEF PathsInv, DiskIsTrue
<1> QED BY <1>5, <1>7 DEF PathsInv

LEMMA ChecksPaths ==
    ASSUME PathsInv, CheckPaths
    PROVE  PathsInv'
<1>1. move.pc = "check" /\ disk' = disk /\ move \in MoveRecord
  BY DEF CheckPaths, PathsInv, MoveIsSound
<1>2. DOMAIN move.head \subseteq Paths BY <1>1, TreeOfPaths DEF MoveRecord
<1>3. CASE PathsSupported
  <2>1. SameMove("head", DOMAIN move.head) BY <1>3 DEF CheckPaths, SameMove
  <2>2. MoveIsSound' BY <1>1, <1>2, <1>3, <2>1, StaysSound DEF PathsInv
  <2>3. move'.pc = "head" /\ move'.todo = DOMAIN move.head /\ move'.head = move.head
    BY <1>2, <2>1, MoveGoesOn DEF PathsInv
  <2>4. DiskIsTrue' BY <1>1, <2>3 DEF PathsInv, DiskIsTrue
  <2> QED BY <2>2, <2>4 DEF PathsInv
<1>4. CASE ~PathsSupported
  <2>1. move' = [move EXCEPT !.pc = "refused"] BY <1>4 DEF CheckPaths
  <2>2. SameMove("refused", move.todo) BY <1>1, <2>1 DEF SameMove, MoveRecord
  <2>3. move.todo \in SUBSET Paths BY <1>1 DEF MoveRecord
  <2>4. MoveIsSound' BY <2>2, <2>3, StaysSound DEF PathsInv, Moving
  <2>5. move'.pc = "refused" BY <2>2, <2>3, MoveGoesOn DEF PathsInv
  <2>6. DiskIsTrue' BY <2>5 DEF DiskIsTrue
  <2> QED BY <2>4, <2>6 DEF PathsInv
<1> QED BY <1>3, <1>4

(* A step that gives up, for a reason.                                      *)
LEMMA GivesUp ==
    ASSUME PathsInv, move.pc \in Moving, move' = [move EXCEPT !.pc = "failed"], ~Smooth
    PROVE  PathsInv'
<1>1. move \in MoveRecord BY DEF PathsInv, MoveIsSound
<1>2. SameMove("failed", move.todo) BY <1>1 DEF SameMove, MoveRecord
<1>3. move.todo \in SUBSET Paths BY <1>1 DEF MoveRecord
<1>4. MoveIsSound' BY <1>2, <1>3, StaysSound DEF PathsInv, Moving
<1>5. /\ move'.pc = "failed" /\ move'.target = move.target /\ move'.head = move.head
      /\ move'.work = move.work /\ move'.index = move.index
  BY <1>2, <1>3, MoveGoesOn DEF PathsInv
<1>6. Smooth' <=> Smooth BY <1>5, SameTrees
<1>7. DiskIsTrue' BY <1>5, <1>6 DEF DiskIsTrue
<1> QED BY <1>4, <1>7 DEF PathsInv

LEMMA ChecksOutFile ==
    ASSUME PathsInv, CheckOutFile
    PROVE  PathsInv'
<1>1. move.pc = "head" /\ move.pc \in Moving /\ move \in MoveRecord
  BY DEF CheckOutFile, PathsInv, MoveIsSound, Moving
<1>2. PICK p \in move.todo :
        IF CanHold(p) THEN Put(p, move.head[p]) /\ move' = [move EXCEPT !.todo = move.todo \ {p}]
        ELSE move' = [move EXCEPT !.pc = "failed"] /\ UNCHANGED disk
  BY DEF CheckOutFile
<1>3. move.todo \subseteq DOMAIN move.head /\ DOMAIN disk \subseteq Locations(DOMAIN move.head)
      /\ (Smooth => \A q \in DOMAIN move.head \ move.todo : Holds(q, move.head[q]))
  BY <1>1 DEF PathsInv, DiskIsTrue
<1>4. DOMAIN move.head \subseteq Paths BY <1>1, TreeOfPaths DEF MoveRecord
<1>5. CASE ~CanHold(p)
  <2>1. ~Smooth BY <1>2, <1>3, <1>5 DEF Smooth
  <2> QED BY <1>1, <1>2, <1>5, <2>1, GivesUp
<1>6. CASE CanHold(p)
  <2>1. Put(p, move.head[p]) /\ move' = [move EXCEPT !.todo = move.todo \ {p}] BY <1>2, <1>6
  <2>2. SameMove("head", move.todo \ {p}) BY <1>1, <2>1 DEF SameMove, MoveRecord
  <2>3. move.todo \ {p} \in SUBSET Paths BY <1>3, <1>4
  <2>4. MoveIsSound' BY <1>1, <2>2, <2>3, StaysSound DEF PathsInv
  <2>5. /\ move'.pc = "head" /\ move'.todo = move.todo \ {p}
        /\ move'.target = move.target /\ move'.head = move.head /\ move'.work = move.work
        /\ move'.index = move.index
    BY <2>2, <2>3, MoveGoesOn DEF PathsInv
  <2>6. /\ \A q : Location(q)' = Location(q)
        /\ Smooth' <=> Smooth
        /\ \A files : Locations(files)' = Locations(files)
    BY <2>5, SameTrees
  <2>7. DOMAIN disk' \subseteq Locations(DOMAIN move.head)
    BY <1>2, <1>3, <2>1, PutLeavesOthers DEF Locations
  <2>8. ASSUME Smooth, NEW q \in DOMAIN move.head \ (move.todo \ {p})
        PROVE  Location(q) \in DOMAIN disk' /\ disk'[Location(q)] = move.head[q]
    <3>1. CASE q = p BY <2>1, <3>1, PutLeavesOthers
    <3>2. CASE q # p
      <4>1. Holds(q, move.head[q]) BY <1>3, <2>8, <3>2
      <4>2. ~InTheWay(Location(q), Location(p)) /\ Location(q) # Location(p)
        BY <1>2, <1>3, <1>4, <2>8, <3>2, ApartInPlace DEF Smooth
      <4> QED BY <2>1, <4>1, <4>2, PutLeavesOthers DEF Holds
    <3> QED BY <3>1, <3>2
  <2>9. DiskIsTrue' BY <1>3, <2>5, <2>6, <2>7, <2>8 DEF DiskIsTrue, Holds
  <2> QED BY <2>4, <2>9 DEF PathsInv
<1> QED BY <1>5, <1>6

LEMMA HeadArrives ==
    ASSUME PathsInv, HeadIsThere
    PROVE  PathsInv'
<1>1. /\ move.pc = "head" /\ move.todo = {} /\ disk' = disk /\ move \in MoveRecord
      /\ SameMove("remove", Gone) /\ move.pc \in Moving
  BY DEF HeadIsThere, PathsInv, MoveIsSound, SameMove, Moving
<1>2. Gone \in SUBSET Paths BY <1>1, TreeOfPaths DEF MoveRecord, Gone
<1>3. MoveIsSound' BY <1>1, <1>2, StaysSound DEF PathsInv
<1>4. /\ move'.pc = "remove" /\ move'.todo = Gone
      /\ move'.target = move.target /\ move'.head = move.head /\ move'.work = move.work
      /\ move'.index = move.index
  BY <1>1, <1>2, MoveGoesOn DEF PathsInv
<1>5. /\ \A q : Location(q)' = Location(q) /\ Gone' = Gone /\ Kept' = Kept
      /\ Smooth' <=> Smooth
      /\ \A files : Locations(files)' = Locations(files)
  BY <1>4, SameTrees
<1>6. Kept \cup Gone = DOMAIN move.head BY DEF Kept, Gone
<1>7. DOMAIN disk \subseteq Locations(DOMAIN move.head)
      /\ (Smooth => \A q \in DOMAIN move.head : Holds(q, move.head[q]))
  BY <1>1 DEF PathsInv, DiskIsTrue
<1>8. \A q \in Kept : q \in DOMAIN move.head BY DEF Kept
<1>9. DiskIsTrue' BY <1>1, <1>4, <1>5, <1>6, <1>7, <1>8 DEF DiskIsTrue, Holds
<1> QED BY <1>3, <1>9 DEF PathsInv

LEMMA RemovesFile ==
    ASSUME PathsInv, RemoveFile
    PROVE  PathsInv'
<1>1. move.pc = "remove" /\ move.pc \in Moving /\ move \in MoveRecord
  BY DEF RemoveFile, PathsInv, MoveIsSound, Moving
<1>2. PICK p \in move.todo : Delete(p) /\ move' = [move EXCEPT !.todo = move.todo \ {p}]
  BY DEF RemoveFile
<1>3. move.todo \subseteq Gone /\ DOMAIN disk \subseteq Locations(Kept \cup move.todo)
      /\ (Smooth => \A q \in Kept : Holds(q, move.head[q]))
  BY <1>1 DEF PathsInv, DiskIsTrue
<1>4. DOMAIN move.head \in SUBSET Paths BY <1>1, TreeOfPaths DEF MoveRecord
<1>5. move.todo \ {p} \in SUBSET Paths BY <1>3, <1>4 DEF Gone
<1>6. SameMove("remove", move.todo \ {p}) BY <1>1, <1>2 DEF SameMove, MoveRecord
<1>7. MoveIsSound' BY <1>1, <1>5, <1>6, StaysSound DEF PathsInv
<1>8. /\ move'.pc = "remove" /\ move'.todo = move.todo \ {p}
      /\ move'.target = move.target /\ move'.head = move.head /\ move'.work = move.work
      /\ move'.index = move.index
  BY <1>5, <1>6, MoveGoesOn DEF PathsInv
<1>9. /\ \A q : Location(q)' = Location(q) /\ Gone' = Gone /\ Kept' = Kept
      /\ Smooth' <=> Smooth
      /\ \A files : Locations(files)' = Locations(files)
  BY <1>8, SameTrees
<1>10. DOMAIN disk' = DOMAIN disk \ {Location(p)} /\ \A at \in DOMAIN disk' : disk'[at] = disk[at]
  BY <1>2 DEF Delete
<1>11. DOMAIN disk' \subseteq Locations(Kept \cup (move.todo \ {p}))
  BY <1>3, <1>10 DEF Locations
<1>12. ASSUME Smooth, NEW q \in Kept
       PROVE  Location(q) \in DOMAIN disk' /\ disk'[Location(q)] = move.head[q]
  <2>1. Holds(q, move.head[q]) BY <1>3, <1>12
  <2>2. p \in DOMAIN move.head /\ q \in DOMAIN move.head /\ p # q
    BY <1>3, <1>12 DEF Gone, Kept
  <2>3. Location(q) # Location(p) BY <1>4, <1>12, <2>2, ApartInPlace DEF Smooth
  <2> QED BY <1>10, <2>1, <2>3 DEF Holds
<1>13. DiskIsTrue' BY <1>3, <1>8, <1>9, <1>11, <1>12 DEF DiskIsTrue, Holds
<1> QED BY <1>7, <1>13 DEF PathsInv

LEMMA WorkBegins ==
    ASSUME PathsInv, FilesAreGone
    PROVE  PathsInv'
<1>1. /\ move.pc = "remove" /\ move.todo = {} /\ disk' = disk /\ move \in MoveRecord
      /\ move.pc \in Moving
  BY DEF FilesAreGone, PathsInv, MoveIsSound, Moving
<1>2. PICK again \in SUBSET (DOMAIN move.work \ Changed) : SameMove("work", Changed \cup again)
  BY DEF FilesAreGone, SameMove
<1>3. DOMAIN move.work \subseteq Paths BY <1>1, TreeOfPaths DEF MoveRecord
<1>4. PICK todo : todo = Changed \cup again OBVIOUS
<1>5. todo \in SUBSET Paths /\ todo \subseteq DOMAIN move.work /\ SameMove("work", todo)
  BY <1>2, <1>3, <1>4 DEF Changed
<1>6. MoveIsSound' BY <1>1, <1>5, StaysSound DEF PathsInv
<1>7. /\ move'.pc = "work" /\ move'.todo = todo
      /\ move'.target = move.target /\ move'.head = move.head /\ move'.work = move.work
      /\ move'.index = move.index
  BY <1>5, MoveGoesOn DEF PathsInv
<1>8. /\ \A q : Location(q)' = Location(q)
      /\ Smooth' <=> Smooth
      /\ \A files : Locations(files)' = Locations(files)
  BY <1>7, SameTrees
<1>9. DOMAIN disk \subseteq Locations(Kept) /\ (Smooth => \A q \in Kept : Holds(q, move.head[q]))
  BY <1>1 DEF PathsInv, DiskIsTrue
<1>10. DOMAIN disk \subseteq Locations(DOMAIN move.work) BY <1>9 DEF Locations, Kept
<1>11. ASSUME Smooth, NEW q \in DOMAIN move.work \ todo
       PROVE  Holds(q, move.work[q])
  <2>1. q \in Kept /\ move.work[q] = move.head[q] BY <1>4, <1>11 DEF Changed, Kept
  <2> QED BY <1>9, <1>11, <2>1
<1>12. DiskIsTrue' BY <1>1, <1>5, <1>7, <1>8, <1>10, <1>11 DEF DiskIsTrue, Holds
<1> QED BY <1>6, <1>12 DEF PathsInv

LEMMA WritesFile ==
    ASSUME PathsInv, WriteFile
    PROVE  PathsInv'
<1>1. move.pc = "work" /\ move.pc \in Moving /\ move \in MoveRecord /\ MoveIsSound
  BY DEF WriteFile, PathsInv, MoveIsSound, Moving
<1>2. PICK p \in move.todo :
        IF CanHold(p) THEN Put(p, move.work[p]) /\ move' = [move EXCEPT !.todo = move.todo \ {p}]
        ELSE move' = [move EXCEPT !.pc = "failed"] /\ UNCHANGED disk
  BY DEF WriteFile
<1>3. move.todo \subseteq DOMAIN move.work /\ DOMAIN disk \subseteq Locations(DOMAIN move.work)
      /\ (Smooth => \A q \in DOMAIN move.work \ move.todo : Holds(q, move.work[q]))
  BY <1>1 DEF PathsInv, DiskIsTrue
<1>4. DOMAIN move.work \in SUBSET Paths BY <1>1, TreeOfPaths DEF MoveRecord
<1>5. CanHold(p) /\ (Smooth => KeptApart(DOMAIN move.work)) BY <1>1, <1>3, WorkIsHeld
<1>6. Put(p, move.work[p]) /\ move' = [move EXCEPT !.todo = move.todo \ {p}] BY <1>2, <1>5
<1>7. SameMove("work", move.todo \ {p}) BY <1>1, <1>6 DEF SameMove, MoveRecord
<1>8. move.todo \ {p} \in SUBSET Paths BY <1>3, <1>4
<1>9. MoveIsSound' BY <1>1, <1>7, <1>8, StaysSound DEF PathsInv
<1>10. /\ move'.pc = "work" /\ move'.todo = move.todo \ {p}
       /\ move'.target = move.target /\ move'.head = move.head /\ move'.work = move.work
       /\ move'.index = move.index
  BY <1>7, <1>8, MoveGoesOn DEF PathsInv
<1>11. /\ \A q : Location(q)' = Location(q)
       /\ Smooth' <=> Smooth
       /\ \A files : Locations(files)' = Locations(files)
  BY <1>10, SameTrees
<1>12. DOMAIN disk' \subseteq Locations(DOMAIN move.work)
  BY <1>2, <1>3, <1>6, PutLeavesOthers DEF Locations
<1>13. ASSUME Smooth, NEW q \in DOMAIN move.work \ (move.todo \ {p})
       PROVE  Location(q) \in DOMAIN disk' /\ disk'[Location(q)] = move.work[q]
  <2>1. CASE q = p BY <1>6, <2>1, PutLeavesOthers
  <2>2. CASE q # p
    <3>1. Holds(q, move.work[q]) BY <1>3, <1>13, <2>2
    <3>2. ~InTheWay(Location(q), Location(p)) /\ Location(q) # Location(p)
      BY <1>2, <1>3, <1>4, <1>5, <1>13, <2>2, ApartInPlace
    <3> QED BY <1>6, <3>1, <3>2, PutLeavesOthers DEF Holds
  <2> QED BY <2>1, <2>2
<1>14. DiskIsTrue' BY <1>3, <1>10, <1>11, <1>12, <1>13 DEF DiskIsTrue, Holds
<1> QED BY <1>9, <1>14 DEF PathsInv

LEMMA Verifies ==
    ASSUME PathsInv, VerifyTree
    PROVE  PathsInv'
<1>1. /\ move.pc = "work" /\ move.todo = {} /\ disk' = disk /\ move \in MoveRecord
      /\ move.pc \in Moving
  BY DEF VerifyTree, PathsInv, MoveIsSound, Moving
<1>2. DOMAIN disk \subseteq Locations(DOMAIN move.work)
      /\ (Smooth => \A q \in DOMAIN move.work : Holds(q, move.work[q]))
  BY <1>1 DEF PathsInv, DiskIsTrue
<1>3. CASE \A p \in DOMAIN move.work : Found(p) = move.work[p]
  <2>1. SameMove("applied", move.todo) BY <1>1, <1>3 DEF VerifyTree, SameMove, MoveRecord
  <2>2. move.todo \in SUBSET Paths BY <1>1
  <2>3. MoveIsSound' BY <1>1, <2>1, <2>2, StaysSound DEF PathsInv, Moving
  <2>4. /\ move'.pc = "applied" /\ move'.target = move.target /\ move'.head = move.head
        /\ move'.work = move.work /\ move'.index = move.index
    BY <2>1, <2>2, MoveGoesOn DEF PathsInv
  <2>5. \A files : Locations(files)' = Locations(files) BY <2>4, SameTrees
  <2>6. \A p \in DOMAIN move.work : move.work[p] # 0
    BY <1>1, TreeOfPaths DEF MoveRecord
  <2>7. \A p \in DOMAIN move.work : Location(p) \in DOMAIN disk BY <1>3, <2>6 DEF Found
  <2>8. DOMAIN disk = Locations(DOMAIN move.work) BY <1>2, <2>7 DEF Locations
  <2>9. DiskIsTrue' BY <1>1, <2>4, <2>5, <2>8 DEF DiskIsTrue
  <2> QED BY <2>3, <2>9 DEF PathsInv
<1>4. CASE ~(\A p \in DOMAIN move.work : Found(p) = move.work[p])
  <2>1. ~Smooth BY <1>2, <1>4 DEF Found, Holds
  <2>2. move' = [move EXCEPT !.pc = "failed"] BY <1>4 DEF VerifyTree
  <2> QED BY <1>1, <2>1, <2>2, GivesUp
<1> QED BY <1>3, <1>4

LEMMA PathsStay ==
    ASSUME PathsInv, UNCHANGED pathVars
    PROVE  PathsInv'
<1>1. move' = move /\ disk' = disk BY DEF pathVars
<1>2. /\ \A q : Location(q)' = Location(q) /\ Gone' = Gone /\ Kept' = Kept
      /\ Smooth' <=> Smooth
      /\ PathsSupported' <=> PathsSupported
      /\ \A files : Locations(files)' = Locations(files)
  BY <1>1, SameTrees
<1>3. MoveIsSound' BY <1>1, <1>2 DEF PathsInv, MoveIsSound
<1>4. DiskIsTrue' BY <1>1, <1>2 DEF PathsInv, DiskIsTrue, Holds
<1> QED BY <1>3, <1>4 DEF PathsInv

LEMMA PathsGoOn == PathsInv /\ [PathsNext]_pathVars => PathsInv'
BY TakesSnapshot, ChecksPaths, ChecksOutFile, HeadArrives, RemovesFile, WorkBegins, WritesFile,
   Verifies, PathsStay DEF PathsNext

LEMMA PathsHold == PathsInv => RefusedBeforeTouched
<1> SUFFICES ASSUME PathsInv PROVE RefusedBeforeTouched OBVIOUS
<1>1. move.pc = "failed" => ~Smooth BY DEF PathsInv, DiskIsTrue
<1>2. move.pc = "applied" => DOMAIN disk = {Location(p) : p \in DOMAIN move.work}
  BY DEF PathsInv, DiskIsTrue, Locations
<1> QED BY <1>1, <1>2 DEF RefusedBeforeTouched, Smooth
-----------------------------------------------------------------------------
(* Local metrics                                                           *)

(* Reports                                                                 *)

TransferStates == {"absent", "TargetPrepare", "TargetVerified", "SourceReady", "Committed", "Aborted"}
UnderWay == {"TargetPrepare", "TargetVerified", "SourceReady"}
Wrote(journal, phase) == \E i \in DOMAIN journal : journal[i] = phase

TransferPhases ==
    {"Begin", "TargetPrepare", "TargetVerified", "SourceReady", "LeaseCommitted", "Aborted"}

(* How a journal begins, and the one a row of each state has.              *)
FirstTwo(j) == j[1] = "Begin" /\ j[2] = "TargetPrepare"
FirstFour(j) == FirstTwo(j) /\ j[3] = "TargetVerified" /\ j[4] = "SourceReady"

JournalTells(state, j) ==
    /\ j \in Seq(TransferPhases)
    /\ state = "absent" => j = <<>>
    /\ state = "TargetPrepare" => Len(j) = 2 /\ FirstTwo(j)
    /\ state = "TargetVerified" => Len(j) = 3 /\ FirstTwo(j) /\ j[3] = "TargetVerified"
    /\ state = "SourceReady" => Len(j) = 4 /\ FirstFour(j)
    /\ state = "Committed" => Len(j) = 5 /\ FirstFour(j) /\ j[5] = "LeaseCommitted"
    /\ state = "Aborted" => ~Wrote(j, "LeaseCommitted")

(* A row that was read as "row" may now be as "state".                     *)
MayBecome(row, state) ==
    /\ row \in {"Committed", "Aborted"} => state = row
    /\ row # "absent" => state # "absent"

MetricsReports ==
    [since : Nat, attempts : SUBSET Transfers, verified : SUBSET Transfers, successes : SUBSET Transfers,
     aborted : SUBSET Transfers, totals : SUBSET Transfers,
     phases : SUBSET (Transfers \X TransferPhases \X TransferPhases)]
ReporterCalls ==
    [kind : {"none", "metrics", "diagnostics"}, pc : {"none", "leases", "rows", "journals", "exported"},
     lease : Transfers \cup {"none"}, rows : {<<>>} \cup [Transfers -> TransferStates],
     unread : SUBSET Transfers, journals : {<<>>} \cup [Transfers -> Seq(TransferPhases)], since : Nat]

(* What a finished report says is true from then on.                       *)
StillTrue(p) ==
    /\ \A t \in p.attempts : transfers[t] # "absent"
    /\ \A t \in p.verified : Wrote(journals[t], "TargetVerified")
    /\ \A t \in p.successes : transfers[t] = "Committed"
    /\ \A t \in p.aborted : transfers[t] = "Aborted"

(* What a call has read about a handoff agrees with one state of it.       *)
ReadAgrees(c, t) ==
    /\ c.rows[t] = "absent" \/ t \in c.unread => c.journals[t] = <<>>
    /\ c.rows[t] # "absent" /\ t \notin c.unread =>
          \E state \in TransferStates :
             /\ MayBecome(c.rows[t], state) /\ JournalTells(state, c.journals[t])
             /\ state = "Committed" => transfers[t] = "Committed"
    /\ Wrote(c.journals[t], "TargetVerified") => Wrote(journals[t], "TargetVerified")

RowsHold(c) ==
    \A t \in Transfers : /\ MayBecome(c.rows[t], transfers[t])
                         /\ c.rows[t] \in {"TargetVerified", "SourceReady", "Committed"} =>
                               Wrote(journals[t], "TargetVerified")

(* It has no less than a report that had ended before it was asked for.    *)
NoLessThan(c, p) ==
    /\ p.attempts \subseteq Listed(c)
    /\ \A t \in p.verified : t \in c.unread \/ Wrote(c.journals[t], "TargetVerified")
    /\ \A t \in p.successes : c.rows[t] = "Committed"
    /\ \A t \in p.aborted : c.rows[t] = "Aborted"

CallHolds(c) ==
    /\ c \in ReporterCalls
    /\ c.since <= Len(reports)
    /\ c.pc \in {"rows", "journals"} => c.kind # "none"
    /\ c.pc \in {"leases", "exported"} => c.kind = "diagnostics"
    /\ c.pc \in {"rows", "journals", "exported"} /\ c.lease # "none" => transfers[c.lease] # "absent"
    /\ c.pc \in {"journals", "exported"} =>
          /\ c.rows \in [Transfers -> TransferStates] /\ c.journals \in [Transfers -> Seq(TransferPhases)]
          /\ c.lease # "none" => c.rows[c.lease] # "absent"
    /\ c.pc = "journals" => RowsHold(c)
    /\ c.pc = "journals" /\ c.kind = "metrics" =>
          /\ c.unread \subseteq Listed(c)
          /\ \A t \in Transfers : ReadAgrees(c, t)
          /\ \A j \in 1 .. c.since : NoLessThan(c, reports[j])

ReportHolds(i) ==
    LET p == reports[i] IN
    /\ p.successes \cap p.aborted = {}
    /\ p.successes \subseteq p.verified /\ p.successes = p.totals
    /\ \A t \in p.successes : <<t, "SourceReady", "LeaseCommitted">> \in p.phases
    /\ \A j \in 1 .. p.since :
          /\ reports[j].attempts \subseteq p.attempts /\ reports[j].verified \subseteq p.verified
          /\ reports[j].successes \subseteq p.successes /\ reports[j].aborted \subseteq p.aborted

TablesHold ==
    /\ transfers \in [Transfers -> TransferStates]
    /\ journals \in [Transfers -> Seq(TransferPhases)]
    /\ pendingOn # "none" => pendingOn \in Transfers /\ transfers[pendingOn] \in UnderWay
    /\ \A t \in Transfers : JournalTells(transfers[t], journals[t])

MetricsInv ==
    /\ TablesHold
    /\ reports \in Seq(MetricsReports)
    /\ \A i \in DOMAIN reports : StillTrue(reports[i]) /\ reports[i].since < i /\ ReportHolds(i)
    /\ reporters \in [Reporters -> ReporterCalls]
    /\ \A r \in Reporters : CallHolds(reporters[r])

LEMMA MetricsInitially == MetricsInit => MetricsInv
<1> SUFFICES ASSUME MetricsInit PROVE MetricsInv OBVIOUS
<1>1. Idle \in ReporterCalls BY DEF Idle, ReporterCalls
<1>2. TablesHold BY DEF MetricsInit, TablesHold, TransferStates, JournalTells
<1>3. reports = <<>> /\ reports \in Seq(MetricsReports) /\ Len(reports) = 0 BY DEF MetricsInit
<1>4. \A r \in Reporters : CallHolds(reporters[r])
  <2> SUFFICES ASSUME NEW r \in Reporters PROVE CallHolds(reporters[r]) OBVIOUS
  <2>1. reporters[r] = Idle BY DEF MetricsInit
  <2>2. Idle.pc = "none" /\ Idle.since = 0 BY DEF Idle
  <2> QED BY <1>1, <1>3, <2>1, <2>2 DEF CallHolds
<1> QED BY <1>1, <1>2, <1>3, <1>4 DEF MetricsInv, MetricsInit

(* A step of a handoff: rows and journals go on, and calls stay as they are. *)
TablesGoOn ==
    /\ UNCHANGED <<reporters, reports>>
    /\ \A t \in Transfers : /\ MayBecome(transfers[t], transfers'[t])
                            /\ \A phase \in TransferPhases : Wrote(journals[t], phase) => Wrote(journals'[t], phase)

LEMMA EntriesAdded ==
    ASSUME NEW before \in Seq(TransferPhases), NEW entries \in Seq(TransferPhases), NEW phase \in TransferPhases, Wrote(before, phase)
    PROVE  Wrote(before \o entries, phase)
BY DEF Wrote

LEMMA OneEntryMore ==
    ASSUME NEW S, NEW j \in Seq(S), NEW x \in S
    PROVE  /\ <<x>> \in Seq(S) /\ j \o <<x>> \in Seq(S) /\ Len(j \o <<x>>) = Len(j) + 1
           /\ \A i \in 1 .. Len(j) : (j \o <<x>>)[i] = j[i]
           /\ (j \o <<x>>)[Len(j) + 1] = x
OBVIOUS

LEMMA TwoEntriesMore ==
    ASSUME NEW S, NEW j \in Seq(S), NEW x \in S, NEW y \in S
    PROVE  /\ <<x, y>> \in Seq(S) /\ j \o <<x, y>> \in Seq(S) /\ Len(j \o <<x, y>>) = Len(j) + 2
           /\ (j \o <<x, y>>)[Len(j) + 1] = x /\ (j \o <<x, y>>)[Len(j) + 2] = y
OBVIOUS

LEMMA TransfersGoOn ==
    ASSUME TablesHold, NEW t \in Transfers, TransferBegins(t) \/ TransferGoesOn(t) \/ TransferEnds(t)
    PROVE  TablesHold' /\ TablesGoOn
<1>1. ASSUME NEW state \in TransferStates, NEW entries \in Seq(TransferPhases), TransferWrites(t, state, entries),
             MayBecome(transfers[t], state), JournalTells(state, journals[t] \o entries),
             pendingOn' # "none" => pendingOn' = t /\ state \in UnderWay
      PROVE  TablesHold' /\ TablesGoOn
  <2>1. /\ transfers' \in [Transfers -> TransferStates] /\ journals' \in [Transfers -> Seq(TransferPhases)]
        /\ transfers'[t] = state /\ journals'[t] = journals[t] \o entries
        /\ \A u \in Transfers \ {t} : transfers'[u] = transfers[u] /\ journals'[u] = journals[u]
        /\ UNCHANGED <<reporters, reports>>
    BY <1>1 DEF TransferWrites, TablesHold
  <2>2. \A u \in Transfers : JournalTells(transfers'[u], journals'[u])
    BY <1>1, <2>1 DEF TablesHold
  <2>3. \A phase \in TransferPhases : Wrote(journals[t], phase) => Wrote(journals'[t], phase)
    BY <1>1, <2>1, EntriesAdded DEF TablesHold
  <2>4. \A u \in Transfers : MayBecome(transfers[u], transfers'[u])
    BY <1>1, <2>1 DEF MayBecome
  <2> QED BY <1>1, <2>1, <2>2, <2>3, <2>4 DEF TablesHold, TablesGoOn
<1>2. JournalTells(transfers[t], journals[t]) BY DEF TablesHold
<1>3. CASE TransferBegins(t)
  <2>1. /\ TransferWrites(t, "TargetPrepare", <<"Begin", "TargetPrepare">>) /\ pendingOn' = t
        /\ transfers[t] = "absent"
    BY <1>3 DEF TransferBegins
  <2>2. Len(journals[t]) = 0 /\ journals[t] \in Seq(TransferPhases) BY <1>2, <2>1 DEF JournalTells
  <2>3. "Begin" \in TransferPhases /\ "TargetPrepare" \in TransferPhases BY DEF TransferPhases
  <2> DEFINE later == journals[t] \o <<"Begin", "TargetPrepare">>
  <2>4. /\ <<"Begin", "TargetPrepare">> \in Seq(TransferPhases) /\ later \in Seq(TransferPhases)
        /\ Len(later) = 2 /\ later[1] = "Begin" /\ later[2] = "TargetPrepare"
    BY <2>2, <2>3, TwoEntriesMore
  <2> HIDE DEF later
  <2>5. JournalTells("TargetPrepare", later) BY <2>4 DEF JournalTells, FirstTwo
  <2>6. MayBecome(transfers[t], "TargetPrepare") BY <2>1 DEF MayBecome
  <2>7. "TargetPrepare" \in TransferStates /\ "TargetPrepare" \in UnderWay
    BY DEF TransferStates, UnderWay
  <2> QED BY <1>1, <2>1, <2>4, <2>5, <2>6, <2>7 DEF later
<1>4. ASSUME NEW phase \in TransferPhases, NEW state \in TransferStates,
             \/ transfers[t] = "TargetPrepare" /\ state = "TargetVerified" /\ phase = "TargetVerified"
             \/ transfers[t] = "TargetVerified" /\ state = "SourceReady" /\ phase = "SourceReady"
             \/ transfers[t] = "SourceReady" /\ state = "Committed" /\ phase = "LeaseCommitted"
             \/ transfers[t] \in UnderWay /\ state = "Aborted" /\ phase = "Aborted"
      PROVE  /\ <<phase>> \in Seq(TransferPhases) /\ MayBecome(transfers[t], state)
             /\ JournalTells(state, journals[t] \o <<phase>>)
  <2> DEFINE later == journals[t] \o <<phase>>
  <2>1. journals[t] \in Seq(TransferPhases) BY <1>2 DEF JournalTells
  <2>2. /\ <<phase>> \in Seq(TransferPhases) /\ later \in Seq(TransferPhases) /\ Len(later) = Len(journals[t]) + 1
        /\ \A i \in 1 .. Len(journals[t]) : later[i] = journals[t][i]
        /\ later[Len(journals[t]) + 1] = phase
    BY <2>1, OneEntryMore
  <2> HIDE DEF later
  <2>3. MayBecome(transfers[t], state) BY <1>4 DEF MayBecome, UnderWay
  <2>4. ASSUME state # "Aborted" PROVE JournalTells(state, later)
    <3> DEFINE old == journals[t]
    <3>1. old \in Seq(TransferPhases) /\ Len(old) \in Nat BY <2>1
    <3>2. /\ later \in Seq(TransferPhases) /\ Len(later) = Len(old) + 1
          /\ \A i \in 1 .. Len(old) : later[i] = old[i]
          /\ later[Len(old) + 1] = phase
      BY <2>2
    <3>3. JournalTells(transfers[t], old) BY <1>2
    <3> HIDE DEF old
    <3>4. CASE state = "TargetVerified"
      <4>1. Len(old) = 2 /\ FirstTwo(old) BY <1>4, <3>3, <3>4 DEF JournalTells
      <4>2. Len(later) = 3 /\ FirstTwo(later) /\ later[3] = "TargetVerified"
        BY <1>4, <3>2, <3>4, <4>1 DEF FirstTwo
      <4> QED BY <3>2, <3>4, <4>2 DEF JournalTells
    <3>5. CASE state = "SourceReady"
      <4>1. Len(old) = 3 /\ FirstTwo(old) /\ old[3] = "TargetVerified" BY <1>4, <3>3, <3>5 DEF JournalTells
      <4>2. Len(later) = 4 /\ FirstFour(later)
        BY <1>4, <3>2, <3>5, <4>1 DEF FirstTwo, FirstFour
      <4> QED BY <3>2, <3>5, <4>2 DEF JournalTells
    <3>6. CASE state = "Committed"
      <4>1. Len(old) = 4 /\ FirstFour(old) BY <1>4, <3>3, <3>6 DEF JournalTells
      <4>2. Len(later) = 5 /\ FirstFour(later) /\ later[5] = "LeaseCommitted"
        BY <1>4, <3>2, <3>6, <4>1 DEF FirstTwo, FirstFour
      <4> QED BY <3>2, <3>6, <4>2 DEF JournalTells
    <3> QED BY <1>4, <2>4, <3>4, <3>5, <3>6
  <2>5. ASSUME state = "Aborted" PROVE JournalTells(state, later)
    <3>1. ~Wrote(journals[t], "LeaseCommitted")
      BY <1>2, <1>4, <2>5 DEF JournalTells, FirstTwo, FirstFour, Wrote, UnderWay
    <3>2. SUFFICES ASSUME NEW i \in DOMAIN later, later[i] = "LeaseCommitted" PROVE FALSE
      BY <2>2, <2>5 DEF JournalTells, Wrote
    <3>3. phase = "Aborted" BY <1>4, <2>5
    <3>4. i \in 1 .. Len(journals[t]) + 1 /\ Len(journals[t]) \in Nat BY <2>1, <2>2
    <3>5. i # Len(journals[t]) + 1 BY <2>2, <3>2, <3>3
    <3>6. i \in 1 .. Len(journals[t]) BY <3>4, <3>5
    <3>7. i \in DOMAIN journals[t] /\ journals[t][i] = "LeaseCommitted" BY <2>1, <2>2, <3>2, <3>6
    <3> QED BY <3>1, <3>7 DEF Wrote
  <2> QED BY <2>2, <2>3, <2>4, <2>5 DEF later
<1>5. CASE TransferGoesOn(t)
  <2>1. pendingOn' = t BY <1>5 DEF TransferGoesOn
  <2>2. {"TargetVerified", "SourceReady"} \subseteq TransferStates \cap TransferPhases \cap UnderWay
    BY DEF TransferStates, TransferPhases, UnderWay
  <2>3. \/ transfers[t] = "TargetPrepare" /\ TransferWrites(t, "TargetVerified", <<"TargetVerified">>)
        \/ transfers[t] = "TargetVerified" /\ TransferWrites(t, "SourceReady", <<"SourceReady">>)
    BY <1>5 DEF TransferGoesOn
  <2>4. PICK step \in {"TargetVerified", "SourceReady"} :
           /\ TransferWrites(t, step, <<step>>)
           /\ transfers[t] = IF step = "TargetVerified" THEN "TargetPrepare" ELSE "TargetVerified"
    BY <2>3
  <2>5. step \in TransferStates /\ step \in TransferPhases /\ step \in UnderWay BY <2>2
  <2>6. /\ <<step>> \in Seq(TransferPhases) /\ MayBecome(transfers[t], step)
        /\ JournalTells(step, journals[t] \o <<step>>)
    BY <1>4, <2>4, <2>5
  <2> QED BY <1>1, <2>1, <2>4, <2>5, <2>6
<1>6. CASE TransferEnds(t)
  <2>1. pendingOn' = "none" /\ transfers[t] \in UnderWay
    BY <1>6, MetricsAssumption DEF TransferEnds, TablesHold
  <2>2. "Committed" \in TransferStates /\ "Aborted" \in TransferStates
        /\ "LeaseCommitted" \in TransferPhases /\ "Aborted" \in TransferPhases
    BY DEF TransferStates, TransferPhases
  <2>3. CASE transfers[t] = "SourceReady" /\ TransferWrites(t, "Committed", <<"LeaseCommitted">>)
    BY <1>1, <1>4, <2>1, <2>2, <2>3
  <2>4. CASE TransferWrites(t, "Aborted", <<"Aborted">>)
    BY <1>1, <1>4, <2>1, <2>2, <2>4
  <2>5. CASE transfers[t] = "SourceReady" /\ TransferWrites(t, "Aborted", <<>>)
    <3>1. <<>> \in Seq(TransferPhases) /\ journals[t] \o <<>> = journals[t]
      BY <1>2 DEF JournalTells
    <3>2. JournalTells("Aborted", journals[t])
      BY <1>2, <2>5 DEF JournalTells, FirstTwo, FirstFour, Wrote
    <3>3. MayBecome(transfers[t], "Aborted") BY <2>5 DEF MayBecome
    <3> QED BY <1>1, <2>1, <2>2, <2>5, <3>1, <3>2, <3>3
  <2> QED BY <1>6, <2>3, <2>4, <2>5 DEF TransferEnds
<1> QED BY <1>3, <1>5, <1>6

LEMMA CallsKeepWithTables ==
    ASSUME MetricsInv, TablesHold', TablesGoOn
    PROVE  MetricsInv'
<1>1. UNCHANGED <<reporters, reports>> BY DEF TablesGoOn
<1>2. \A t \in Transfers : /\ MayBecome(transfers[t], transfers'[t])
                           /\ Wrote(journals[t], "TargetVerified") => Wrote(journals'[t], "TargetVerified")
  BY DEF TablesGoOn, TransferPhases
<1>3. ASSUME NEW i \in DOMAIN reports PROVE StillTrue(reports[i])' /\ ReportHolds(i)'
  <2>1. reports[i] \in MetricsReports /\ StillTrue(reports[i]) /\ ReportHolds(i) BY <1>3 DEF MetricsInv
  <2>2. PICK p : p = reports[i] OBVIOUS
  <2>3. /\ p.attempts \subseteq Transfers /\ p.verified \subseteq Transfers
        /\ p.successes \subseteq Transfers /\ p.aborted \subseteq Transfers
    BY <2>1, <2>2 DEF MetricsReports
  <2>4. StillTrue(p) BY <2>1, <2>2
  <2>5. StillTrue(p)' BY <1>2, <2>3, <2>4 DEF StillTrue, MayBecome
  <2>6. ReportHolds(i)' BY <1>1, <2>1 DEF ReportHolds
  <2> QED BY <1>1, <2>2, <2>5, <2>6 DEF StillTrue
<1>4. ASSUME NEW r \in Reporters PROVE CallHolds(reporters[r])'
  <2>1. PICK c : c = reporters[r] OBVIOUS
  <2>2. CallHolds(c) BY <1>4, <2>1 DEF MetricsInv
  <2>3. c \in ReporterCalls /\ c.since <= Len(reports') BY <1>1, <2>2 DEF CallHolds
  <2>4. c.pc \in {"rows", "journals", "exported"} /\ c.lease # "none" => transfers'[c.lease] # "absent"
    <3>1. c.lease \in Transfers \cup {"none"} BY <2>3 DEF ReporterCalls
    <3> QED BY <1>2, <2>2, <3>1 DEF CallHolds, MayBecome
  <2>5. c.pc = "journals" => RowsHold(c)'
    BY <1>2, <2>2 DEF CallHolds, RowsHold, MayBecome
  <2>6. ASSUME NEW t \in Transfers, c.pc = "journals" /\ c.kind = "metrics" PROVE ReadAgrees(c, t)'
    BY <1>2, <2>2, <2>6 DEF CallHolds, ReadAgrees, MayBecome
  <2>7. ASSUME NEW j \in 1 .. c.since, c.pc = "journals" /\ c.kind = "metrics" PROVE NoLessThan(c, reports[j])'
    BY <1>1, <2>2, <2>7 DEF CallHolds, NoLessThan, Listed
  <2>8. CallHolds(c)' BY <2>2, <2>3, <2>4, <2>5, <2>6, <2>7 DEF CallHolds
  <2> QED BY <1>1, <2>1, <2>8
<1> QED BY <1>1, <1>3, <1>4 DEF MetricsInv

(* What a step of a call may change.                                       *)
TablesStay == UNCHANGED <<transfers, journals, pendingOn>>

LEMMA CallGoesOn ==
    ASSUME MetricsInv, NEW r \in Reporters, NEW d, CallHolds(d),
           reporters' = [reporters EXCEPT ![r] = d], TablesStay, UNCHANGED reports
    PROVE  MetricsInv'
<1>1. \A c : CallHolds(c) => CallHolds(c)'
  BY DEF TablesStay, CallHolds, RowsHold, ReadAgrees, NoLessThan, Listed
<1>2. d \in ReporterCalls BY DEF CallHolds
<1>3. reporters' \in [Reporters -> ReporterCalls] /\ reporters'[r] = d
      /\ \A o \in Reporters \ {r} : reporters'[o] = reporters[o]
  BY <1>2 DEF MetricsInv
<1>4. \A o \in Reporters : CallHolds(reporters'[o]) BY <1>3 DEF MetricsInv
<1>5. \A o \in Reporters : CallHolds(reporters[o])' BY <1>1, <1>4
<1>6. TablesHold' BY DEF MetricsInv, TablesStay, TablesHold
<1>7. \A i \in DOMAIN reports : StillTrue(reports[i])' /\ reports'[i].since < i /\ ReportHolds(i)'
  BY DEF MetricsInv, TablesStay, StillTrue, ReportHolds
<1> QED BY <1>3, <1>5, <1>6, <1>7 DEF MetricsInv

LEMMA IdleHolds == MetricsInv => CallHolds(Idle)
<1> SUFFICES ASSUME MetricsInv PROVE CallHolds(Idle) OBVIOUS
<1>1. Idle \in ReporterCalls BY DEF Idle, ReporterCalls
<1>2. Idle.pc = "none" /\ Idle.since = 0 BY DEF Idle
<1>3. Len(reports) \in Nat BY DEF MetricsInv
<1> QED BY <1>1, <1>2, <1>3 DEF CallHolds

LEMMA CallStarts ==
    ASSUME MetricsInv, NEW r \in Reporters, MetricsExportStarts(r) \/ DiagnosticsExportStarts(r)
    PROVE  MetricsInv'
<1>1. Len(reports) \in Nat BY DEF MetricsInv
<1>2. CASE MetricsExportStarts(r)
  <2> DEFINE d == [Idle EXCEPT !.kind = "metrics", !.pc = "rows", !.since = Len(reports)]
  <2>1. d \in ReporterCalls BY <1>1 DEF Idle, ReporterCalls
  <2>2. d.kind = "metrics" /\ d.pc = "rows" /\ d.lease = "none" /\ d.since = Len(reports) BY DEF Idle
  <2>3. reporters' = [reporters EXCEPT ![r] = d] /\ TablesStay /\ UNCHANGED reports
    BY <1>2 DEF MetricsExportStarts, TablesStay
  <2> HIDE DEF d
  <2>4. CallHolds(d) BY <1>1, <2>1, <2>2 DEF CallHolds
  <2> QED BY <2>3, <2>4, CallGoesOn
<1>3. CASE DiagnosticsExportStarts(r)
  <2> DEFINE d == [Idle EXCEPT !.kind = "diagnostics", !.pc = "leases"]
  <2>1. d \in ReporterCalls BY DEF Idle, ReporterCalls
  <2>2. d.kind = "diagnostics" /\ d.pc = "leases" /\ d.lease = "none" /\ d.since = 0 BY DEF Idle
  <2>3. reporters' = [reporters EXCEPT ![r] = d] /\ TablesStay /\ UNCHANGED reports
    BY <1>3 DEF DiagnosticsExportStarts, TablesStay
  <2> HIDE DEF d
  <2>4. CallHolds(d) BY <1>1, <2>1, <2>2 DEF CallHolds
  <2> QED BY <2>3, <2>4, CallGoesOn
<1> QED BY <1>2, <1>3

LEMMA LeaseRead ==
    ASSUME MetricsInv, NEW r \in Reporters, ReadLeaseRow(r)
    PROVE  MetricsInv'
<1>1. CallHolds(reporters[r]) BY DEF MetricsInv
<1>2. PICK seen \in {pendingOn, "none"} :
         reporters' = [reporters EXCEPT ![r] = [@ EXCEPT !.pc = "rows", !.lease = seen]]
  BY DEF ReadLeaseRow
<1>3. reporters[r].pc = "leases" /\ TablesStay /\ UNCHANGED reports BY DEF ReadLeaseRow, TablesStay
<1>4. seen \in Transfers \cup {"none"} /\ (seen # "none" => transfers[seen] # "absent")
  BY <1>2 DEF MetricsInv, TablesHold, UnderWay
<1>5. PICK c : c = reporters[r] OBVIOUS
<1> DEFINE d == [c EXCEPT !.pc = "rows", !.lease = seen]
<1>6. c \in ReporterCalls /\ c.since <= Len(reports) /\ c.kind = "diagnostics"
  BY <1>1, <1>3, <1>5 DEF CallHolds
<1>7. d \in ReporterCalls BY <1>4, <1>6 DEF ReporterCalls
<1>8. d.pc = "rows" /\ d.lease = seen /\ d.kind = c.kind /\ d.since = c.since BY <1>6 DEF ReporterCalls
<1>9. reporters' = [reporters EXCEPT ![r] = d] BY <1>2, <1>5 DEF MetricsInv
<1> HIDE DEF d
<1>10. CallHolds(d) BY <1>4, <1>6, <1>7, <1>8 DEF CallHolds
<1> QED BY <1>3, <1>9, <1>10, CallGoesOn

LEMMA TransferRowsRead ==
    ASSUME MetricsInv, NEW r \in Reporters, ReadTransferRows(r)
    PROVE  MetricsInv'
<1>1. CallHolds(reporters[r]) BY DEF MetricsInv
<1>2. reporters[r].pc = "rows" /\ TablesStay /\ UNCHANGED reports BY DEF ReadTransferRows, TablesStay
<1>3. PICK c : c = reporters[r] OBVIOUS
<1> DEFINE begun == {t \in Transfers : transfers[t] # "absent"}
           none == [t \in Transfers |-> <<>>]
           d == [c EXCEPT !.pc = "journals", !.rows = transfers, !.unread = begun, !.journals = none]
<1>4. c \in ReporterCalls /\ CallHolds(c) /\ c.pc = "rows" BY <1>1, <1>2, <1>3 DEF CallHolds
<1>5. reporters' = [reporters EXCEPT ![r] = d] BY <1>3 DEF MetricsInv, ReadTransferRows
<1>6. transfers \in [Transfers -> TransferStates] BY DEF MetricsInv, TablesHold
<1>7. none \in [Transfers -> Seq(TransferPhases)] OBVIOUS
<1> HIDE DEF none
<1>8. d \in ReporterCalls BY <1>4, <1>6, <1>7 DEF ReporterCalls
<1>9. /\ d.pc = "journals" /\ d.rows = transfers /\ d.unread = begun /\ d.journals = none
      /\ d.kind = c.kind /\ d.lease = c.lease /\ d.since = c.since
  BY <1>4 DEF ReporterCalls
<1> HIDE DEF d
<1>10. \A t \in Transfers : none[t] = <<>> BY DEF none
<1>11. RowsHold(d)
  <2> SUFFICES ASSUME NEW t \in Transfers
               PROVE  /\ MayBecome(d.rows[t], transfers[t])
                      /\ d.rows[t] \in {"TargetVerified", "SourceReady", "Committed"} =>
                            Wrote(journals[t], "TargetVerified")
    BY DEF RowsHold
  <2>1. JournalTells(transfers[t], journals[t]) BY DEF MetricsInv, TablesHold
  <2>2. transfers[t] \in {"TargetVerified", "SourceReady", "Committed"} =>
           journals[t][3] = "TargetVerified" /\ Len(journals[t]) \in 3 .. 5 /\ journals[t] \in Seq(TransferPhases)
    BY <2>1 DEF JournalTells, FirstFour
  <2>3. transfers[t] \in {"TargetVerified", "SourceReady", "Committed"} => Wrote(journals[t], "TargetVerified")
    BY <2>2 DEF Wrote
  <2> QED BY <1>9, <2>3 DEF MayBecome
<1>12. ASSUME NEW t \in Transfers PROVE ReadAgrees(d, t)
  <2>1. ~Wrote(<<>>, "TargetVerified") BY DEF Wrote
  <2> QED BY <1>9, <1>10, <2>1 DEF ReadAgrees
<1>13. ASSUME NEW j \in 1 .. d.since PROVE NoLessThan(d, reports[j])
  <2>1. j \in DOMAIN reports
    <3>1. c.since \in Nat /\ c.since <= Len(reports) /\ reports \in Seq(MetricsReports)
      BY <1>4 DEF CallHolds, ReporterCalls, MetricsInv
    <3> QED BY <1>9, <3>1
  <2>2. StillTrue(reports[j]) /\ reports[j] \in MetricsReports BY <2>1 DEF MetricsInv
  <2>3. PICK p : p = reports[j] OBVIOUS
  <2>4. StillTrue(p) BY <2>2, <2>3
  <2>5. p.attempts \subseteq Transfers /\ p.verified \subseteq Transfers BY <2>2, <2>3 DEF MetricsReports
  <2>6. p.attempts \subseteq Listed(d) BY <1>9, <2>4, <2>5 DEF Listed, StillTrue
  <2>7. \A t \in p.verified : t \in begun
    <3> SUFFICES ASSUME NEW t \in p.verified PROVE transfers[t] # "absent" BY <2>5
    <3>1. Wrote(journals[t], "TargetVerified") /\ JournalTells(transfers[t], journals[t])
      BY <2>4, <2>5 DEF StillTrue, MetricsInv, TablesHold
    <3>2. journals[t] # <<>> BY <3>1 DEF Wrote
    <3> QED BY <3>1, <3>2 DEF JournalTells
  <2>8. \A t \in p.successes : d.rows[t] = "Committed" BY <1>9, <2>4 DEF StillTrue
  <2>9. \A t \in p.aborted : d.rows[t] = "Aborted" BY <1>9, <2>4 DEF StillTrue
  <2> QED BY <1>9, <2>3, <2>6, <2>7, <2>8, <2>9 DEF NoLessThan
<1>14. CallHolds(d)
  <2>3. d.unread \subseteq Listed(d) BY <1>9 DEF Listed
  <2>1. c.lease # "none" => transfers[c.lease] # "absent" BY <1>4 DEF CallHolds
  <2>2. c.kind # "none" /\ c.since <= Len(reports) BY <1>4 DEF CallHolds
  <2> QED BY <1>6, <1>7, <1>8, <1>9, <1>11, <1>12, <1>13, <2>1, <2>2, <2>3 DEF CallHolds
<1> QED BY <1>2, <1>5, <1>14, CallGoesOn

LEMMA TransferJournalRead ==
    ASSUME MetricsInv, NEW r \in Reporters, NEW t \in Transfers, ReadJournal(r, t)
    PROVE  MetricsInv'
<1>1. CallHolds(reporters[r]) BY DEF MetricsInv
<1>2. /\ reporters[r].pc = "journals" /\ t \in reporters[r].unread
      /\ TablesStay /\ UNCHANGED reports
  BY DEF ReadJournal, TablesStay
<1>3. PICK seen \in {journals[t]} \cup IF reporters[r].kind = "diagnostics" THEN {<<>>} ELSE {} :
         reporters' = [reporters EXCEPT ![r].unread = @ \ {t}, ![r].journals[t] = seen]
  BY DEF ReadJournal
<1>4. PICK c : c = reporters[r] OBVIOUS
<1>5. c \in ReporterCalls /\ CallHolds(c) /\ c.pc = "journals" /\ t \in c.unread
  BY <1>1, <1>2, <1>4 DEF CallHolds
<1> DEFINE d == [c EXCEPT !.unread = @ \ {t}, !.journals = [@ EXCEPT ![t] = seen]]
<1>6. reporters' = [reporters EXCEPT ![r] = d] BY <1>3, <1>4 DEF MetricsInv
<1>7. journals[t] \in Seq(TransferPhases) /\ JournalTells(transfers[t], journals[t])
      /\ transfers[t] \in TransferStates
  BY DEF MetricsInv, TablesHold
<1>8. seen \in Seq(TransferPhases)
  <2>1. seen = journals[t] \/ seen = <<>> BY <1>3
  <2>2. <<>> \in Seq(TransferPhases) OBVIOUS
  <2> QED BY <1>7, <2>1, <2>2
<1>9. c.journals \in [Transfers -> Seq(TransferPhases)] /\ c.rows \in [Transfers -> TransferStates]
  BY <1>5 DEF CallHolds
<1>10. [c.journals EXCEPT ![t] = seen] \in [Transfers -> Seq(TransferPhases)] BY <1>8, <1>9
<1>11. PICK later : later = [c.journals EXCEPT ![t] = seen] OBVIOUS
<1>12. later \in [Transfers -> Seq(TransferPhases)] /\ later[t] = seen
       /\ \A u \in Transfers \ {t} : later[u] = c.journals[u]
  BY <1>9, <1>10, <1>11
<1>13. d = [c EXCEPT !.unread = @ \ {t}, !.journals = later] BY <1>11
<1>14. d \in ReporterCalls BY <1>5, <1>12, <1>13 DEF ReporterCalls
<1>15. /\ d.pc = "journals" /\ d.rows = c.rows /\ d.unread = c.unread \ {t} /\ d.journals = later
       /\ d.kind = c.kind /\ d.lease = c.lease /\ d.since = c.since
  BY <1>5, <1>13 DEF ReporterCalls
<1> HIDE DEF d
<1>16. RowsHold(c) BY <1>5 DEF CallHolds
<1>17. RowsHold(d) BY <1>15, <1>16 DEF RowsHold
<1>18. c.kind = "metrics" => seen = journals[t] BY <1>3, <1>4
<1>19. ASSUME NEW u \in Transfers, c.kind = "metrics" PROVE ReadAgrees(d, u)
  <2>1. ReadAgrees(c, u) BY <1>5, <1>19 DEF CallHolds
  <2>2. CASE u # t
    <3>1. d.journals[u] = c.journals[u] /\ (u \in d.unread <=> u \in c.unread) /\ d.rows[u] = c.rows[u]
      BY <1>12, <1>15, <2>2
    <3> QED BY <2>1, <3>1 DEF ReadAgrees
  <2>3. CASE u = t
    <3>1. d.journals[t] = journals[t] /\ t \notin d.unread /\ d.rows[t] = c.rows[t]
      BY <1>12, <1>15, <1>18, <1>19
    <3>2. MayBecome(c.rows[t], transfers[t]) BY <1>16 DEF RowsHold
    <3>3. c.rows[t] = "absent" => journals[t] = <<>>
      <4>1. c.unread \subseteq Listed(c) BY <1>5, <1>19 DEF CallHolds
      <4> QED BY <1>5, <4>1 DEF Listed
    <3> QED BY <1>7, <2>3, <3>1, <3>2, <3>3 DEF ReadAgrees
  <2> QED BY <2>2, <2>3
<1>20. ASSUME NEW j \in 1 .. d.since, c.kind = "metrics" PROVE NoLessThan(d, reports[j])
  <2>1. NoLessThan(c, reports[j]) BY <1>5, <1>15, <1>20 DEF CallHolds
  <2>2. j \in DOMAIN reports
    <3>1. c.since \in Nat /\ c.since <= Len(reports) /\ reports \in Seq(MetricsReports)
      BY <1>5 DEF CallHolds, ReporterCalls, MetricsInv
    <3> QED BY <1>15, <3>1
  <2>3. StillTrue(reports[j]) /\ reports[j] \in MetricsReports BY <2>2 DEF MetricsInv
  <2>4. PICK p : p = reports[j] OBVIOUS
  <2>5. StillTrue(p) /\ NoLessThan(c, p) BY <2>1, <2>3, <2>4
  <2>6. p.verified \subseteq Transfers BY <2>3, <2>4 DEF MetricsReports
  <2>7. \A u \in p.verified : u \in d.unread \/ Wrote(d.journals[u], "TargetVerified")
    BY <1>12, <1>15, <1>18, <1>20, <2>5, <2>6 DEF NoLessThan, StillTrue
  <2>8. Listed(d) = Listed(c) BY <1>15 DEF Listed
  <2> QED BY <1>15, <2>4, <2>5, <2>7, <2>8 DEF NoLessThan
<1>21. CallHolds(d)
  <2>1. c.since <= Len(reports) /\ c.kind # "none"
        /\ (c.lease # "none" => transfers[c.lease] # "absent" /\ c.rows[c.lease] # "absent")
    BY <1>5 DEF CallHolds
  <2>2. c.kind = "metrics" => d.unread \subseteq Listed(d) BY <1>5, <1>15 DEF CallHolds, Listed
  <2> QED BY <1>9, <1>12, <1>14, <1>15, <1>17, <1>19, <1>20, <2>1, <2>2 DEF CallHolds
<1> QED BY <1>2, <1>6, <1>21, CallGoesOn

LEMMA CommitIsWritten ==
    ASSUME NEW state \in TransferStates, NEW j, JournalTells(state, j), Wrote(j, "LeaseCommitted")
    PROVE  state = "Committed"
<1>1. j \in Seq(TransferPhases) /\ j # <<>> BY DEF JournalTells, Wrote
<1>2. PICK i \in 1 .. Len(j) : j[i] = "LeaseCommitted" BY <1>1 DEF Wrote
<1>3. state # "absent" BY <1>1 DEF JournalTells
<1>4. state # "TargetPrepare" BY <1>2 DEF JournalTells, FirstTwo
<1>5. state # "TargetVerified" BY <1>2 DEF JournalTells, FirstTwo
<1>6. state # "SourceReady" BY <1>2 DEF JournalTells, FirstTwo, FirstFour
<1>7. state # "Aborted" BY DEF JournalTells
<1> QED BY <1>3, <1>4, <1>5, <1>6, <1>7 DEF TransferStates

(* A handoff that a call counts as a success has the journal of a commit.  *)
LEMMA SuccessIsWhole ==
    ASSUME NEW c, NEW t \in Successes(c), t \in Transfers, ReadAgrees(c, t), t \notin c.unread
    PROVE  /\ transfers[t] = "Committed" /\ c.rows[t] # "Aborted"
           /\ c.journals[t] \in Seq(TransferPhases) /\ Len(c.journals[t]) = 5 /\ FirstFour(c.journals[t])
           /\ c.journals[t][5] = "LeaseCommitted"
<1>1. PICK j : j = c.journals[t] OBVIOUS
<1>2. c.rows[t] = "Committed" \/ Wrote(j, "LeaseCommitted") BY <1>1 DEF Successes, Has, Wrote
<1>3. c.rows[t] # "absent"
  <2> SUFFICES ASSUME c.rows[t] = "absent" PROVE FALSE OBVIOUS
  <2>1. j = <<>> BY <1>1 DEF ReadAgrees
  <2> QED BY <1>2, <2>1 DEF Wrote
<1>4. PICK state \in TransferStates :
         /\ MayBecome(c.rows[t], state) /\ JournalTells(state, j)
         /\ state = "Committed" => transfers[t] = "Committed"
  BY <1>1, <1>3 DEF ReadAgrees
<1>5. state = "Committed"
  <2>1. CASE c.rows[t] = "Committed" BY <1>4, <2>1 DEF MayBecome
  <2>2. CASE Wrote(j, "LeaseCommitted") BY <1>4, <2>2, CommitIsWritten
  <2> QED BY <1>2, <2>1, <2>2
<1>6. c.rows[t] # "Aborted" BY <1>4, <1>5 DEF MayBecome
<1> QED BY <1>1, <1>4, <1>5, <1>6 DEF JournalTells

LEMMA ReportIsTrue ==
    ASSUME MetricsInv, NEW c, CallHolds(c), c.kind = "metrics", c.pc = "journals", c.unread = {}
    PROVE  LET p == MetricsReport(c) IN
           /\ p \in MetricsReports /\ StillTrue(p) /\ p.since = c.since
           /\ p.successes \cap p.aborted = {}
           /\ p.successes \subseteq p.verified /\ p.successes = p.totals
           /\ \A t \in p.successes : <<t, "SourceReady", "LeaseCommitted">> \in p.phases
           /\ \A j \in 1 .. p.since :
                 /\ reports[j].attempts \subseteq p.attempts /\ reports[j].verified \subseteq p.verified
                 /\ reports[j].successes \subseteq p.successes /\ reports[j].aborted \subseteq p.aborted
<1> DEFINE p == MetricsReport(c)
<1>1. /\ c.rows \in [Transfers -> TransferStates] /\ c.journals \in [Transfers -> Seq(TransferPhases)]
      /\ c.since \in Nat /\ c.since <= Len(reports)
  BY DEF CallHolds, ReporterCalls
<1>2. RowsHold(c) /\ \A t \in Transfers : ReadAgrees(c, t) BY DEF CallHolds
<1>3. /\ p.since = c.since /\ p.attempts = Listed(c) /\ p.verified = VerifiedAttempts(c)
      /\ p.successes = Successes(c) /\ p.aborted = AbortedAttempts(c) /\ p.totals = TotalDurations(c)
      /\ p.phases = PhaseDurations(c)
  BY DEF MetricsReport
<1>4. PhaseDurations(c) \subseteq Transfers \X TransferPhases \X TransferPhases
  <2> SUFFICES ASSUME NEW t \in Transfers, NEW i \in 1 .. Len(c.journals[t]) - 1
               PROVE  <<t, c.journals[t][i], c.journals[t][i + 1]>> \in Transfers \X TransferPhases \X TransferPhases
    BY DEF PhaseDurations
  <2>1. c.journals[t] \in Seq(TransferPhases) BY <1>1
  <2>2. Len(c.journals[t]) \in Nat /\ i \in 1 .. Len(c.journals[t]) /\ i + 1 \in 1 .. Len(c.journals[t]) BY <2>1
  <2>3. c.journals[t][i] \in TransferPhases /\ c.journals[t][i + 1] \in TransferPhases BY <2>1, <2>2
  <2> QED BY <2>3
<1>5. p \in MetricsReports
  BY <1>1, <1>4 DEF MetricsReport, MetricsReports, Listed, VerifiedAttempts, Successes, AbortedAttempts,
                    TotalDurations
<1> HIDE DEF p
<1>6. \A t \in Successes(c) :
         /\ t \in Transfers /\ transfers[t] = "Committed" /\ c.rows[t] # "Aborted"
         /\ c.journals[t] \in Seq(TransferPhases) /\ Len(c.journals[t]) = 5 /\ FirstFour(c.journals[t])
         /\ c.journals[t][5] = "LeaseCommitted"
  <2> SUFFICES ASSUME NEW t \in Successes(c)
               PROVE  /\ t \in Transfers /\ transfers[t] = "Committed" /\ c.rows[t] # "Aborted"
                      /\ c.journals[t] \in Seq(TransferPhases) /\ Len(c.journals[t]) = 5 /\ FirstFour(c.journals[t])
                      /\ c.journals[t][5] = "LeaseCommitted"
    OBVIOUS
  <2>1. t \in Transfers BY DEF Successes
  <2>2. ReadAgrees(c, t) /\ t \notin c.unread BY <1>2, <2>1
  <2> QED BY <2>1, <2>2, SuccessIsWhole
<1>7. StillTrue(p)
  <2>1. \A t \in Listed(c) : transfers[t] # "absent" BY <1>2 DEF Listed, RowsHold, MayBecome
  <2>2. \A t \in VerifiedAttempts(c) : Wrote(journals[t], "TargetVerified")
    BY <1>2 DEF VerifiedAttempts, RowsHold, ReadAgrees, Has, Wrote
  <2>3. \A t \in AbortedAttempts(c) : transfers[t] = "Aborted"
    BY <1>2 DEF AbortedAttempts, RowsHold, MayBecome
  <2> QED BY <1>3, <1>6, <2>1, <2>2, <2>3 DEF StillTrue
<1>8. p.successes \cap p.aborted = {} BY <1>3, <1>6 DEF AbortedAttempts
<1>9. p.successes \subseteq p.verified
  <2> SUFFICES ASSUME NEW t \in Successes(c) PROVE t \in VerifiedAttempts(c) BY <1>3
  <2>1. 3 \in DOMAIN c.journals[t] /\ c.journals[t][3] = "TargetVerified" BY <1>6 DEF FirstFour
  <2> QED BY <1>6, <2>1 DEF VerifiedAttempts, Has
<1>10. p.successes = p.totals
  <2>1. ASSUME NEW t \in Successes(c) PROVE t \in TotalDurations(c)
    <3>1. /\ 1 \in DOMAIN c.journals[t] /\ c.journals[t][1] = "Begin"
          /\ 5 \in DOMAIN c.journals[t] /\ c.journals[t][5] = "LeaseCommitted"
      BY <1>6 DEF FirstFour, FirstTwo
    <3> QED BY <1>6, <3>1 DEF TotalDurations, Has
  <2>2. TotalDurations(c) \subseteq Successes(c) BY DEF TotalDurations, Successes
  <2> QED BY <1>3, <2>1, <2>2
<1>11. ASSUME NEW t \in Successes(c) PROVE <<t, "SourceReady", "LeaseCommitted">> \in PhaseDurations(c)
  <2>1. /\ 4 \in 1 .. Len(c.journals[t]) - 1 /\ c.journals[t][4] = "SourceReady"
        /\ c.journals[t][4 + 1] = "LeaseCommitted" /\ t \in Transfers
    BY <1>6 DEF FirstFour
  <2>2. <<t, c.journals[t][4], c.journals[t][4 + 1]>> \in
           {<<t, c.journals[t][i], c.journals[t][i + 1]>> : i \in 1 .. Len(c.journals[t]) - 1}
    BY <2>1
  <2> QED BY <2>1, <2>2 DEF PhaseDurations
<1>12. ASSUME NEW j \in 1 .. c.since
       PROVE  /\ reports[j].attempts \subseteq p.attempts /\ reports[j].verified \subseteq p.verified
              /\ reports[j].successes \subseteq p.successes /\ reports[j].aborted \subseteq p.aborted
  <2>1. NoLessThan(c, reports[j]) BY <1>12 DEF CallHolds
  <2>2. j \in DOMAIN reports /\ reports[j] \in MetricsReports BY <1>1 DEF MetricsInv
  <2>3. PICK earlier : earlier = reports[j] OBVIOUS
  <2>4. /\ earlier.verified \subseteq Transfers /\ earlier.successes \subseteq Transfers
        /\ earlier.aborted \subseteq Transfers
    BY <2>2, <2>3 DEF MetricsReports
  <2>5. NoLessThan(c, earlier) BY <2>1, <2>3
  <2>6. earlier.verified \subseteq VerifiedAttempts(c) BY <2>4, <2>5 DEF NoLessThan, VerifiedAttempts, Has, Wrote
  <2>7. earlier.successes \subseteq Successes(c) BY <2>4, <2>5 DEF NoLessThan, Successes
  <2>8. earlier.aborted \subseteq AbortedAttempts(c) BY <2>4, <2>5 DEF NoLessThan, AbortedAttempts
  <2> QED BY <1>3, <2>3, <2>5, <2>6, <2>7, <2>8 DEF NoLessThan
<1> QED BY <1>3, <1>5, <1>7, <1>8, <1>9, <1>10, <1>11, <1>12 DEF p

LEMMA MetricsExported ==
    ASSUME MetricsInv, NEW r \in Reporters, ExportMetrics(r)
    PROVE  MetricsInv'
<1>1. CallHolds(Idle) /\ CallHolds(reporters[r]) BY IdleHolds DEF MetricsInv
<1>2. /\ reporters[r].kind = "metrics" /\ reporters[r].pc = "journals" /\ reporters[r].unread = {}
      /\ reporters' = [reporters EXCEPT ![r] = Idle] /\ TablesStay
  BY DEF ExportMetrics, TablesStay
<1>3. CASE UNCHANGED reports BY <1>1, <1>2, <1>3, CallGoesOn
<1>4. CASE reports' = Append(reports, MetricsReport(reporters[r]))
  <2>1. PICK p : p = MetricsReport(reporters[r]) OBVIOUS
  <2>2. /\ p \in MetricsReports /\ StillTrue(p) /\ p.since = reporters[r].since
        /\ p.successes \cap p.aborted = {}
        /\ p.successes \subseteq p.verified /\ p.successes = p.totals
        /\ \A t \in p.successes : <<t, "SourceReady", "LeaseCommitted">> \in p.phases
        /\ \A j \in 1 .. p.since :
              /\ reports[j].attempts \subseteq p.attempts /\ reports[j].verified \subseteq p.verified
              /\ reports[j].successes \subseteq p.successes /\ reports[j].aborted \subseteq p.aborted
    BY <1>1, <1>2, <2>1, ReportIsTrue
  <2>3. p.since \in Nat /\ p.since <= Len(reports) BY <1>1, <2>2 DEF CallHolds, ReporterCalls
  <2>4. /\ reports \in Seq(MetricsReports) /\ Len(reports) \in Nat
        /\ reports' \in Seq(MetricsReports) /\ Len(reports') = Len(reports) + 1
        /\ reports'[Len(reports) + 1] = p
        /\ \A i \in 1 .. Len(reports) : reports'[i] = reports[i]
    BY <1>4, <2>1, <2>2 DEF MetricsInv
  <2>5. ASSUME NEW i \in 1 .. Len(reports)
        PROVE  StillTrue(reports'[i]) /\ reports'[i].since < i /\ ReportHolds(i)'
    <3>1. /\ reports'[i] = reports[i] /\ reports[i] \in MetricsReports
          /\ StillTrue(reports[i]) /\ reports[i].since < i /\ ReportHolds(i)
      BY <2>4 DEF MetricsInv
    <3>2. reports[i].since \in Nat BY <3>1 DEF MetricsReports
    <3>3. \A j \in 1 .. reports[i].since : reports'[j] = reports[j] BY <2>4, <3>1, <3>2
    <3> QED BY <3>1, <3>3 DEF ReportHolds
  <2> PICK last : last = Len(reports) + 1 OBVIOUS
  <2>6. ReportHolds(last)'
    <3>1. \A j \in 1 .. p.since : reports'[j] = reports[j] BY <2>3, <2>4
    <3>2. reports'[last] = p BY <2>4
    <3> QED BY <2>2, <3>1, <3>2 DEF ReportHolds
  <2>7. \A i \in DOMAIN reports' : StillTrue(reports'[i]) /\ reports'[i].since < i /\ ReportHolds(i)'
    <3> SUFFICES ASSUME NEW i \in DOMAIN reports'
                 PROVE  StillTrue(reports'[i]) /\ reports'[i].since < i /\ ReportHolds(i)'
      OBVIOUS
    <3>1. i \in 1 .. Len(reports) \/ i = last BY <2>4
    <3>2. StillTrue(reports'[last]) /\ reports'[last].since < last BY <2>2, <2>3, <2>4
    <3> QED BY <2>5, <2>6, <3>1, <3>2
  <2>8. ASSUME NEW c, CallHolds(c) PROVE CallHolds(c)'
    <3>1. c.since \in Nat /\ c.since <= Len(reports) BY <2>8 DEF CallHolds, ReporterCalls
    <3>2. \A j \in 1 .. c.since : reports'[j] = reports[j] BY <2>4, <3>1
    <3>3. c.since <= Len(reports') BY <2>4, <3>1
    <3> QED BY <1>2, <2>8, <3>2, <3>3 DEF CallHolds, TablesStay, RowsHold, ReadAgrees, NoLessThan, Listed
  <2>9. /\ reporters' \in [Reporters -> ReporterCalls] /\ reporters'[r] = Idle
        /\ \A o \in Reporters \ {r} : reporters'[o] = reporters[o]
    BY <1>1, <1>2 DEF MetricsInv, CallHolds
  <2>10. \A o \in Reporters : CallHolds(reporters'[o]) BY <1>1, <2>9 DEF MetricsInv
  <2>11. \A o \in Reporters : CallHolds(reporters[o])' BY <2>8, <2>10
  <2>12. TablesHold' BY <1>2 DEF MetricsInv, TablesStay, TablesHold
  <2>13. \A i \in DOMAIN reports' : StillTrue(reports[i])'
    BY <1>2, <2>7 DEF StillTrue, TablesStay
  <2> QED BY <2>4, <2>7, <2>9, <2>11, <2>12, <2>13 DEF MetricsInv
<1> QED BY <1>3, <1>4 DEF ExportMetrics

LEMMA DiagnosticsExported ==
    ASSUME MetricsInv, NEW r \in Reporters, ExportDiagnostics(r)
    PROVE  MetricsInv'
<1>1. CallHolds(Idle) /\ CallHolds(reporters[r]) BY IdleHolds DEF MetricsInv
<1>2. /\ reporters[r].kind = "diagnostics" /\ reporters[r].pc = "journals"
      /\ TablesStay /\ UNCHANGED reports
  BY DEF ExportDiagnostics, TablesStay
<1>3. CASE reporters' = [reporters EXCEPT ![r] = Idle] BY <1>1, <1>2, <1>3, CallGoesOn
<1>4. CASE reporters' = [reporters EXCEPT ![r].pc = "exported"]
  <2>1. PICK c : c = reporters[r] OBVIOUS
  <2> DEFINE d == [c EXCEPT !.pc = "exported"]
  <2>2. CallHolds(c) /\ c \in ReporterCalls BY <1>1, <2>1 DEF CallHolds
  <2>3. reporters' = [reporters EXCEPT ![r] = d] BY <1>4, <2>1 DEF MetricsInv
  <2>4. d \in ReporterCalls BY <2>2 DEF ReporterCalls
  <2>5. /\ d.pc = "exported" /\ d.rows = c.rows /\ d.journals = c.journals
        /\ d.kind = c.kind /\ d.lease = c.lease /\ d.since = c.since
    BY <2>2 DEF ReporterCalls
  <2> HIDE DEF d
  <2>6. CallHolds(d) BY <1>2, <2>1, <2>2, <2>4, <2>5 DEF CallHolds
  <2> QED BY <1>2, <2>3, <2>6, CallGoesOn
<1> QED BY <1>3, <1>4 DEF ExportDiagnostics

LEMMA MetricsGoOn == MetricsInv /\ [MetricsNext]_metricsVars => MetricsInv'
<1> SUFFICES ASSUME MetricsInv, [MetricsNext]_metricsVars PROVE MetricsInv' OBVIOUS
<1>1. CASE UNCHANGED metricsVars
  BY <1>1 DEF metricsVars, MetricsInv, TablesHold, CallHolds, RowsHold, ReadAgrees, NoLessThan, Listed,
              StillTrue, ReportHolds
<1>2. CASE \E t \in Transfers : TransferBegins(t) \/ TransferGoesOn(t) \/ TransferEnds(t)
  BY <1>2, TransfersGoOn, CallsKeepWithTables DEF MetricsInv
<1>3. ASSUME NEW r \in Reporters, ReadFails(r) PROVE MetricsInv'
  BY <1>3, IdleHolds, CallGoesOn DEF ReadFails, TablesStay
<1> QED BY <1>1, <1>2, <1>3, CallStarts, LeaseRead, TransferRowsRead, TransferJournalRead, MetricsExported,
           DiagnosticsExported DEF MetricsNext

LEMMA ReportsDoAgree == MetricsInv => ReportsAgree
<1> SUFFICES ASSUME MetricsInv PROVE ReportsAgree OBVIOUS
<1>1. \A i \in DOMAIN reports : ReportHolds(i) BY DEF MetricsInv
<1>2. \A r \in Reporters : reporters[r].pc = "exported" /\ reporters[r].lease # "none"
         => reporters[r].rows[reporters[r].lease] # "absent"
  BY DEF MetricsInv, CallHolds
<1> QED BY <1>1, <1>2 DEF ReportsAgree, ReportHolds

-----------------------------------------------------------------------------
(* Lists of one table                                                      *)

EndedStates == {"Committed", "Aborted"}
HandoffStates == {"TargetPrepare", "TargetVerified", "SourceReady"} \cup EndedStates
HandoffPhases ==
    {"Begin", "TargetPrepare", "TargetVerified", "SourceReady", "LeaseCommitted", "Aborted", "TargetApply"}
HandoffRecords == [state : HandoffStates, journal : Seq(HandoffPhases)]
SnapshotRecords == [number : Nat \ {0}, session : StoredSessions]
ProjectTables == [handoffs : Seq(HandoffRecords), epoch : Nat, snapshots : SUBSET SnapshotRecords]

(* One journal, or one list, begins the other.                             *)
Begins(s, t) == Len(s) <= Len(t) /\ \A i \in 1 .. Len(s) : s[i] = t[i]

HandoffTells(h) == h.state # "Aborted" => PhaseOf(h.state) \in ToSet(h.journal)
SnapshotsAreNumbered(held) ==
    /\ IsFiniteSet(held)
    /\ held # {} => \E s \in held : \A u \in held : u.number <= s.number

TablesTell(held) ==
    /\ held \in ProjectTables
    /\ \A n \in 1 .. Len(held.handoffs) : HandoffTells(held.handoffs[n])
    /\ SnapshotsAreNumbered(held.snapshots)

(* What one handoff, and the tables of a project, may become.              *)
HandoffFollows(g, h) ==
    /\ Begins(g.journal, h.journal)
    /\ g.state \in EndedStates => h.state = g.state
HandoffsFollow(before, after) ==
    /\ Len(before) <= Len(after)
    /\ \A n \in 1 .. Len(before) : HandoffFollows(before[n], after[n])
TablesFollow(before, after) ==
    /\ HandoffsFollow(before.handoffs, after.handoffs)
    /\ before.epoch <= after.epoch
    /\ \A s \in before.snapshots : s.number < NextNumber(after.snapshots)

(* And in one step.                                                        *)
TablesStep(before, after) ==
    /\ TablesTell(after)
    /\ HandoffsFollow(before.handoffs, after.handoffs)
    /\ before.epoch <= after.epoch
    /\ NextNumber(before.snapshots) <= NextNumber(after.snapshots)
    /\ \A s \in after.snapshots \ before.snapshots : NextNumber(before.snapshots) <= s.number

LEMMA BeginsIsPrefix ==
    ASSUME NEW S, NEW s \in Seq(S), NEW t \in Seq(S)
    PROVE  Begins(s, t) <=> IsPrefix(s, t)
<1> DEFINE m == Len(s)
<1>1. m \in Nat /\ Len(t) \in Nat OBVIOUS
<1>2. SubSeq(s, 1, m) = s OBVIOUS
<1>3. CASE m <= Len(t)
  <2>1. SubSeq(t, 1, m) \in Seq(S) /\ Len(SubSeq(t, 1, m)) = m
    BY <1>1, <1>3
  <2>2. \A i \in 1 .. m : SubSeq(t, 1, m)[i] = t[i] BY <1>1, <1>3
  <2>3. s = SubSeq(t, 1, m) <=> \A i \in 1 .. m : s[i] = SubSeq(t, 1, m)[i]
    BY <2>1
  <2> QED BY <1>2, <1>3, <2>2, <2>3 DEF Begins, IsPrefix
<1> QED BY <1>1, <1>3 DEF Begins, IsPrefix

LEMMA BeginsTransitive ==
    ASSUME NEW S, NEW s \in Seq(S), NEW t \in Seq(S), NEW u \in Seq(S), Begins(s, t), Begins(t, u)
    PROVE  Begins(s, u)
BY DEF Begins

LEMMA HandoffsFollowOn ==
    ASSUME NEW f \in Seq(HandoffRecords), NEW g \in Seq(HandoffRecords), NEW h \in Seq(HandoffRecords),
           HandoffsFollow(f, g), HandoffsFollow(g, h)
    PROVE  HandoffsFollow(f, h)
<1>1. Len(f) <= Len(h) BY DEF HandoffsFollow
<1>2. ASSUME NEW n \in 1 .. Len(f) PROVE HandoffFollows(f[n], h[n])
  <2>1. n \in 1 .. Len(g) /\ n \in 1 .. Len(h) BY <1>1 DEF HandoffsFollow
  <2>2. f[n] \in HandoffRecords /\ g[n] \in HandoffRecords /\ h[n] \in HandoffRecords BY <2>1
  <2>3. HandoffFollows(f[n], g[n]) /\ HandoffFollows(g[n], h[n]) BY <2>1 DEF HandoffsFollow
  <2>4. PICK x, y, z : x = f[n] /\ y = g[n] /\ z = h[n] OBVIOUS
  <2>5. x.journal \in Seq(HandoffPhases) /\ y.journal \in Seq(HandoffPhases) /\ z.journal \in Seq(HandoffPhases)
    BY <2>2, <2>4 DEF HandoffRecords
  <2>6. Begins(x.journal, z.journal) BY <2>3, <2>4, <2>5, BeginsTransitive DEF HandoffFollows
  <2> QED BY <2>3, <2>4, <2>6 DEF HandoffFollows
<1> QED BY <1>1, <1>2 DEF HandoffsFollow

(* Numbers of snapshots                                                    *)
LEMMA NextNumberIs ==
    ASSUME NEW held, held \subseteq SnapshotRecords, SnapshotsAreNumbered(held)
    PROVE  /\ NextNumber(held) \in Nat \ {0}
           /\ \A s \in held : s.number < NextNumber(held)
           /\ held # {} => \E s \in held : s.number + 1 = NextNumber(held)
<1>1. \A s \in held : s.number \in Nat \ {0} BY DEF SnapshotRecords
<1>2. CASE held = {} BY <1>2 DEF NextNumber
<1>3. CASE held # {}
  <2> DEFINE n == CHOOSE n \in Numbers(held) : \A k \in Numbers(held) : k <= n
  <2>1. \E top \in Numbers(held) : \A k \in Numbers(held) : k <= top BY <1>3 DEF Numbers, SnapshotsAreNumbered
  <2>2. n \in Numbers(held) /\ \A k \in Numbers(held) : k <= n BY <2>1
  <2>3. NextNumber(held) = 1 + n BY <1>3 DEF NextNumber
  <2> HIDE DEF n
  <2>4. PICK s \in held : s.number = n BY <2>2 DEF Numbers
  <2>5. \A u \in held : u.number <= n BY <2>2 DEF Numbers
  <2> QED BY <1>1, <2>3, <2>4, <2>5
<1> QED BY <1>2, <1>3

LEMMA BeginsItself == ASSUME NEW S, NEW s \in Seq(S) PROVE Begins(s, s)
BY DEF Begins

LEMMA HandoffsFollowItself ==
    ASSUME NEW f \in Seq(HandoffRecords)
    PROVE  HandoffsFollow(f, f)
<1>1. ASSUME NEW n \in 1 .. Len(f) PROVE HandoffFollows(f[n], f[n])
  <2>1. f[n] \in HandoffRecords OBVIOUS
  <2>2. f[n].journal \in Seq(HandoffPhases) BY <2>1 DEF HandoffRecords
  <2> QED BY <2>2, BeginsItself DEF HandoffFollows
<1> QED BY <1>1 DEF HandoffsFollow

LEMMA TablesFollowItself ==
    ASSUME NEW held, TablesTell(held)
    PROVE  TablesFollow(held, held)
<1>1. held.handoffs \in Seq(HandoffRecords) /\ held.epoch \in Nat /\ held.snapshots \subseteq SnapshotRecords
  BY DEF TablesTell, ProjectTables
<1>2. SnapshotsAreNumbered(held.snapshots) BY DEF TablesTell
<1>3. \A s \in held.snapshots : s.number < NextNumber(held.snapshots) BY <1>1, <1>2, NextNumberIs
<1> QED BY <1>1, <1>3, HandoffsFollowItself DEF TablesFollow

LEMMA TablesFollowOn ==
    ASSUME NEW before, NEW held, NEW after, before \in ProjectTables, TablesTell(held),
           TablesFollow(before, held), TablesStep(held, after)
    PROVE  TablesFollow(before, after)
<1>1. /\ before.handoffs \in Seq(HandoffRecords) /\ held.handoffs \in Seq(HandoffRecords)
      /\ after.handoffs \in Seq(HandoffRecords)
      /\ before.epoch \in Nat /\ held.epoch \in Nat /\ after.epoch \in Nat
      /\ before.snapshots \subseteq SnapshotRecords
      /\ held.snapshots \subseteq SnapshotRecords /\ after.snapshots \subseteq SnapshotRecords
  BY DEF TablesStep, TablesTell, ProjectTables
<1>2. HandoffsFollow(before.handoffs, after.handoffs)
  BY <1>1, HandoffsFollowOn DEF TablesStep, TablesFollow
<1>3. before.epoch <= after.epoch BY <1>1 DEF TablesStep, TablesFollow
<1>4. NextNumber(held.snapshots) \in Nat BY <1>1, NextNumberIs DEF TablesTell
<1>5. NextNumber(after.snapshots) \in Nat BY <1>1, NextNumberIs DEF TablesStep, TablesTell
<1>6. NextNumber(held.snapshots) <= NextNumber(after.snapshots) BY DEF TablesStep
<1>7. \A s \in before.snapshots : s.number \in Nat /\ s.number < NextNumber(held.snapshots)
  BY <1>1 DEF TablesFollow, SnapshotRecords
<1>8. PICK a, b : a = NextNumber(held.snapshots) /\ b = NextNumber(after.snapshots) OBVIOUS
<1>9. \A s \in before.snapshots : s.number < NextNumber(after.snapshots)
  <2>1. a \in Nat /\ b \in Nat /\ a <= b BY <1>4, <1>5, <1>6, <1>8
  <2>2. \A s \in before.snapshots : s.number \in Nat /\ s.number < a BY <1>7, <1>8
  <2>3. \A s \in before.snapshots : s.number < b BY <2>1, <2>2
  <2> QED BY <1>8, <2>3
<1> QED BY <1>2, <1>3, <1>9 DEF TablesFollow

(* A snapshot that a query has not seen is none of those there were.       *)
LEMMA SeenStayOrGo ==
    ASSUME NEW before, NEW held, NEW after, before \in ProjectTables, TablesTell(held),
           TablesFollow(before, held), TablesStep(held, after)
    PROVE  before.snapshots \cap after.snapshots \subseteq before.snapshots \cap held.snapshots
<1> SUFFICES ASSUME NEW s \in before.snapshots \cap after.snapshots, s \notin held.snapshots PROVE FALSE
  OBVIOUS
<1>1. before.snapshots \subseteq SnapshotRecords /\ held.snapshots \subseteq SnapshotRecords
  BY DEF TablesTell, ProjectTables
<1>2. s.number \in Nat BY <1>1 DEF SnapshotRecords
<1>3. NextNumber(held.snapshots) \in Nat BY <1>1, NextNumberIs DEF TablesTell
<1>4. s.number < NextNumber(held.snapshots) BY DEF TablesFollow
<1>5. NextNumber(held.snapshots) <= s.number BY DEF TablesStep
<1>6. PICK a : a = NextNumber(held.snapshots) OBVIOUS
<1> QED BY <1>2, <1>3, <1>4, <1>5, <1>6

(* The steps of the tables                                                 *)
LEMMA HandoffAdded ==
    ASSUME NEW held, TablesTell(held), NEW h \in HandoffRecords, HandoffTells(h)
    PROVE  TablesStep(held, [held EXCEPT !.handoffs = Append(@, h)])
<1> DEFINE after == [held EXCEPT !.handoffs = Append(@, h)]
<1>1. held.handoffs \in Seq(HandoffRecords) /\ held.epoch \in Nat /\ held.snapshots \subseteq SnapshotRecords
      /\ held \in ProjectTables
  BY DEF TablesTell, ProjectTables
<1>2. PICK f : f = held.handoffs OBVIOUS
<1>3. PICK g : g = Append(f, h) OBVIOUS
<1>4. /\ f \in Seq(HandoffRecords) /\ g \in Seq(HandoffRecords) /\ Len(g) = Len(f) + 1 /\ g[Len(f) + 1] = h
      /\ \A n \in 1 .. Len(f) : g[n] = f[n] /\ Len(f) \in Nat
  BY <1>1, <1>2, <1>3
<1>5. after = [held EXCEPT !.handoffs = g] BY <1>2, <1>3
<1>6. /\ after \in ProjectTables /\ after.handoffs = g /\ after.epoch = held.epoch
      /\ after.snapshots = held.snapshots
  BY <1>1, <1>4, <1>5 DEF ProjectTables
<1> HIDE DEF after
<1>7. ASSUME NEW n \in 1 .. Len(g) PROVE HandoffTells(g[n])
  <2>1. n \in 1 .. Len(f) \/ n = Len(f) + 1 BY <1>4
  <2> QED BY <1>2, <1>4, <2>1 DEF TablesTell
<1>8. HandoffsFollow(f, g)
  <2>1. \A n \in 1 .. Len(f) : HandoffFollows(f[n], f[n])
    BY <1>4, HandoffsFollowItself DEF HandoffsFollow
  <2> QED BY <1>4, <2>1 DEF HandoffsFollow
<1>9. TablesTell(after) BY <1>6, <1>7 DEF TablesTell
<1>10. NextNumber(held.snapshots) \in Nat BY <1>1, NextNumberIs DEF TablesTell
<1>11. held.epoch <= held.epoch BY <1>1
<1>12. NextNumber(held.snapshots) <= NextNumber(after.snapshots)
  <2>1. PICK a : a = NextNumber(held.snapshots) OBVIOUS
  <2> QED BY <1>6, <1>10, <2>1
<1>13. TablesStep(held, after) BY <1>2, <1>6, <1>8, <1>9, <1>11, <1>12 DEF TablesStep
<1> QED BY <1>13 DEF after

LEMMA HandoffMoved ==
    ASSUME NEW held, TablesTell(held), NEW n \in 1 .. Len(held.handoffs), NEW h \in HandoffRecords, HandoffTells(h),
           HandoffFollows(held.handoffs[n], h), NEW e \in Nat, held.epoch <= e
    PROVE  TablesStep(held, [held EXCEPT !.handoffs = [@ EXCEPT ![n] = h], !.epoch = e])
<1> DEFINE after == [held EXCEPT !.handoffs = [@ EXCEPT ![n] = h], !.epoch = e]
<1>1. held.handoffs \in Seq(HandoffRecords) /\ held.epoch \in Nat /\ held.snapshots \subseteq SnapshotRecords
      /\ held \in ProjectTables
  BY DEF TablesTell, ProjectTables
<1>2. PICK f : f = held.handoffs OBVIOUS
<1>3. PICK g : g = [f EXCEPT ![n] = h] OBVIOUS
<1>4. /\ f \in Seq(HandoffRecords) /\ g \in Seq(HandoffRecords) /\ Len(g) = Len(f) /\ g[n] = h
      /\ \A k \in 1 .. Len(f) : k # n => g[k] = f[k]
  BY <1>1, <1>2, <1>3
<1>5. after = [held EXCEPT !.handoffs = g, !.epoch = e] BY <1>2, <1>3
<1>6. /\ after \in ProjectTables /\ after.handoffs = g /\ after.epoch = e
      /\ after.snapshots = held.snapshots
  BY <1>1, <1>4, <1>5 DEF ProjectTables
<1> HIDE DEF after
<1>7. ASSUME NEW k \in 1 .. Len(g) PROVE HandoffTells(g[k])
  BY <1>2, <1>4 DEF TablesTell
<1>8. HandoffsFollow(f, g)
  <2>1. \A k \in 1 .. Len(f) : HandoffFollows(f[k], f[k])
    BY <1>4, HandoffsFollowItself DEF HandoffsFollow
  <2>2. \A k \in 1 .. Len(f) : HandoffFollows(f[k], g[k]) BY <1>2, <1>4, <2>1
  <2>3. Len(f) <= Len(g) BY <1>4
  <2> QED BY <2>2, <2>3 DEF HandoffsFollow
<1>9. TablesTell(after) BY <1>6, <1>7 DEF TablesTell
<1>10. NextNumber(held.snapshots) \in Nat BY <1>1, NextNumberIs DEF TablesTell
<1>11. NextNumber(held.snapshots) <= NextNumber(after.snapshots)
  <2>1. PICK a : a = NextNumber(held.snapshots) OBVIOUS
  <2> QED BY <1>6, <1>10, <2>1
<1>12. TablesStep(held, after) BY <1>2, <1>6, <1>8, <1>9, <1>11 DEF TablesStep
<1> QED BY <1>12 DEF after

LEMMA SnapshotsChanged ==
    ASSUME NEW held, TablesTell(held), NEW later, later \subseteq SnapshotRecords, SnapshotsAreNumbered(later),
           NextNumber(held.snapshots) <= NextNumber(later),
           \A s \in later \ held.snapshots : NextNumber(held.snapshots) <= s.number
    PROVE  TablesStep(held, [held EXCEPT !.snapshots = later])
<1> DEFINE after == [held EXCEPT !.snapshots = later]
<1>1. held.handoffs \in Seq(HandoffRecords) /\ held.epoch \in Nat /\ held \in ProjectTables
  BY DEF TablesTell, ProjectTables
<1>2. /\ after \in ProjectTables /\ after.handoffs = held.handoffs /\ after.epoch = held.epoch
      /\ after.snapshots = later
  BY <1>1 DEF ProjectTables
<1> HIDE DEF after
<1>3. TablesTell(after) BY <1>2 DEF TablesTell
<1>4. HandoffsFollow(held.handoffs, after.handoffs) BY <1>1, <1>2, HandoffsFollowItself
<1>5. held.epoch <= after.epoch BY <1>1, <1>2
<1>6. TablesStep(held, after) BY <1>2, <1>3, <1>4, <1>5 DEF TablesStep
<1> QED BY <1>6 DEF after

LEMMA SnapshotAdded ==
    ASSUME NEW held, TablesTell(held), NEW session \in StoredSessions
    PROVE  TablesStep(held, [held EXCEPT !.snapshots =
                                @ \cup {[number |-> NextNumber(held.snapshots), session |-> session]}])
<1>1. held.snapshots \subseteq SnapshotRecords /\ SnapshotsAreNumbered(held.snapshots)
  BY DEF TablesTell, ProjectTables
<1>2. PICK k : k = NextNumber(held.snapshots) OBVIOUS
<1>3. k \in Nat \ {0} /\ \A s \in held.snapshots : s.number < k /\ s.number \in Nat
  BY <1>1, <1>2, NextNumberIs DEF SnapshotRecords
<1> DEFINE new == [number |-> k, session |-> session]
<1>4. new \in SnapshotRecords /\ new.number = k BY <1>3 DEF SnapshotRecords
<1> HIDE DEF new
<1>5. PICK later : later = held.snapshots \cup {new} OBVIOUS
<1>6. later \subseteq SnapshotRecords BY <1>1, <1>4, <1>5
<1>7. SnapshotsAreNumbered(later)
  <2>1. IsFiniteSet(later) BY <1>1, <1>5, FS_AddElement DEF SnapshotsAreNumbered
  <2>2. \A u \in later : u.number <= new.number BY <1>3, <1>4, <1>5
  <2> QED BY <1>5, <2>1, <2>2 DEF SnapshotsAreNumbered
<1>8. k <= NextNumber(later)
  <2>1. PICK b : b = NextNumber(later) OBVIOUS
  <2>2. b \in Nat /\ new.number < b BY <1>5, <1>6, <1>7, <2>1, NextNumberIs
  <2>3. k < b BY <1>4, <2>2
  <2> QED BY <1>3, <2>1, <2>2, <2>3
<1>9. \A s \in later \ held.snapshots : k <= s.number BY <1>3, <1>4, <1>5
<1>10. TablesStep(held, [held EXCEPT !.snapshots = later]) BY <1>2, <1>6, <1>7, <1>8, <1>9, SnapshotsChanged
<1> QED BY <1>2, <1>5, <1>10 DEF new

LEMMA SnapshotPruned ==
    ASSUME NEW held, TablesTell(held), NEW s \in held.snapshots, s.number + 1 # NextNumber(held.snapshots)
    PROVE  TablesStep(held, [held EXCEPT !.snapshots = @ \ {s}])
<1>1. held.snapshots \subseteq SnapshotRecords /\ SnapshotsAreNumbered(held.snapshots)
  BY DEF TablesTell, ProjectTables
<1>2. PICK k : k = NextNumber(held.snapshots) OBVIOUS
<1>3. PICK last \in held.snapshots : last.number + 1 = k /\ k \in Nat BY <1>1, <1>2, NextNumberIs
<1>4. \A u \in held.snapshots : u.number \in Nat /\ u.number < k BY <1>1, <1>2, NextNumberIs DEF SnapshotRecords
<1>5. PICK later : later = held.snapshots \ {s} OBVIOUS
<1>6. last \in later BY <1>2, <1>3, <1>5
<1>7. later \subseteq SnapshotRecords BY <1>1, <1>5
<1>8. SnapshotsAreNumbered(later)
  <2>1. IsFiniteSet(later) BY <1>1, <1>5, FS_RemoveElement DEF SnapshotsAreNumbered
  <2>2. \A u \in later : u.number <= last.number BY <1>3, <1>4, <1>5
  <2> QED BY <1>6, <2>1, <2>2 DEF SnapshotsAreNumbered
<1>9. k <= NextNumber(later)
  <2>1. PICK b : b = NextNumber(later) OBVIOUS
  <2>2. b \in Nat /\ last.number < b BY <1>6, <1>7, <1>8, <2>1, NextNumberIs
  <2>3. last.number \in Nat BY <1>4
  <2>4. k <= b BY <1>3, <2>2, <2>3
  <2> QED BY <2>1, <2>4
<1>10. TablesStep(held, [held EXCEPT !.snapshots = later])
  BY <1>2, <1>5, <1>7, <1>8, <1>9, SnapshotsChanged
<1> QED BY <1>5, <1>10

AllTablesTell ==
    /\ tables \in [Registrable -> ProjectTables]
    /\ \A p \in Registrable : TablesTell(tables[p])
TablesMove ==
    /\ tables' \in [Registrable -> ProjectTables]
    /\ \A p \in Registrable : tables'[p] = tables[p] \/ TablesStep(tables[p], tables'[p])
    /\ UNCHANGED <<registered, spaces, lockedBy, queries>>

LEMMA TablesMoveTo ==
    ASSUME AllTablesTell, NEW p \in Registrable, NEW after, TablesStep(tables[p], after), TablesChange(p, after)
    PROVE  TablesMove
<1>1. after \in ProjectTables BY DEF TablesStep, TablesTell
<1>2. tables' = [tables EXCEPT ![p] = after] /\ UNCHANGED <<registered, spaces, lockedBy, queries>>
  BY DEF TablesChange
<1>3. tables' \in [Registrable -> ProjectTables] /\ tables'[p] = after
      /\ \A o \in Registrable \ {p} : tables'[o] = tables[o]
  BY <1>1, <1>2 DEF AllTablesTell
<1> QED BY <1>2, <1>3 DEF TablesMove

LEMMA HandoffAddedMoves ==
    ASSUME AllTablesTell, NEW p \in Registrable, AddHandoff(p)
    PROVE  TablesMove
<1> DEFINE h == [state |-> "TargetPrepare", journal |-> <<"Begin", "TargetPrepare">>]
<1>1. PICK j : j = <<"Begin", "TargetPrepare">> OBVIOUS
<1>2. j \in Seq(HandoffPhases) /\ Len(j) = 2 /\ j[2] = "TargetPrepare"
  <2>1. "Begin" \in HandoffPhases /\ "TargetPrepare" \in HandoffPhases BY DEF HandoffPhases
  <2> QED BY <1>1, <2>1
<1>3. h.state = "TargetPrepare" /\ h.journal = j /\ h \in HandoffRecords
  BY <1>1, <1>2 DEF HandoffRecords, HandoffStates
<1>4. TablesChange(p, [tables[p] EXCEPT !.handoffs = Append(@, h)]) BY DEF AddHandoff
<1> HIDE DEF h
<1>5. HandoffTells(h) BY <1>2, <1>3 DEF HandoffTells, PhaseOf, ToSet
<1>6. TablesTell(tables[p]) BY DEF AllTablesTell
<1>7. TablesStep(tables[p], [tables[p] EXCEPT !.handoffs = Append(@, h)]) BY <1>3, <1>5, <1>6, HandoffAdded
<1> QED BY <1>4, <1>7, TablesMoveTo

LEMMA PhaseKeptOrAdded ==
    ASSUME NEW j \in Seq(HandoffPhases), NEW x \in HandoffPhases
    PROVE  /\ j \o <<x>> \in Seq(HandoffPhases) /\ Begins(j, j \o <<x>>)
           /\ x \in ToSet(j \o <<x>>) /\ ToSet(j) \subseteq ToSet(j \o <<x>>)
<1>1. /\ <<x>> \in Seq(HandoffPhases) /\ j \o <<x>> \in Seq(HandoffPhases) /\ Len(j \o <<x>>) = Len(j) + 1
      /\ \A i \in 1 .. Len(j) : (j \o <<x>>)[i] = j[i]
      /\ (j \o <<x>>)[Len(j) + 1] = x
  OBVIOUS
<1>2. PICK t : t = j \o <<x>> OBVIOUS
<1>3. Begins(j, t) BY <1>1, <1>2 DEF Begins
<1>4. Len(j) \in Nat /\ DOMAIN t = 1 .. Len(j) + 1 /\ DOMAIN j = 1 .. Len(j) BY <1>1, <1>2
<1>5. Len(j) + 1 \in DOMAIN t /\ \A i \in DOMAIN j : i \in DOMAIN t BY <1>4
<1>6. x \in ToSet(t) BY <1>1, <1>2, <1>5 DEF ToSet
<1>7. \A i \in DOMAIN j : j[i] = t[i] /\ i \in DOMAIN t BY <1>1, <1>2, <1>4, <1>5
<1>8. ToSet(j) \subseteq ToSet(t) BY <1>7 DEF ToSet
<1> QED BY <1>1, <1>2, <1>3, <1>6, <1>8

LEMMA HandoffToMoves ==
    ASSUME AllTablesTell, NEW p \in Registrable, NEW n \in DOMAIN tables[p].handoffs, NEW state \in HandoffStates,
           NEW phases, HandoffTo(p, n, state, phases),
           tables[p].handoffs[n].state \notin EndedStates,
           \/ \E x \in HandoffPhases : /\ phases = <<x>>
                                       /\ state = "Aborted" \/ PhaseOf(state) = x
                                          \/ state = tables[p].handoffs[n].state
           \/ phases = <<>> /\ state = "Aborted"
    PROVE  TablesMove
<1>1. PICK held : held = tables[p] OBVIOUS
<1>2. TablesTell(held) /\ held \in ProjectTables /\ held.handoffs \in Seq(HandoffRecords) /\ held.epoch \in Nat
  BY <1>1 DEF AllTablesTell, TablesTell, ProjectTables
<1>3. n \in 1 .. Len(held.handoffs) BY <1>1, <1>2
<1>4. PICK g : g = held.handoffs[n] OBVIOUS
<1>5. g \in HandoffRecords /\ g.journal \in Seq(HandoffPhases) /\ HandoffTells(g) /\ g.state \notin EndedStates
  <2>1. g \in HandoffRecords BY <1>2, <1>3, <1>4
  <2>2. HandoffTells(g) BY <1>2, <1>3, <1>4 DEF TablesTell
  <2>3. g.state \notin EndedStates BY <1>1, <1>4
  <2>4. g.journal \in Seq(HandoffPhases) BY <2>1 DEF HandoffRecords
  <2> QED BY <2>1, <2>2, <2>3, <2>4
<1>6. PICK j : j = g.journal \o phases OBVIOUS
<1>7. PICK h : h = [state |-> state, journal |-> j] OBVIOUS
<1>8. PICK e : e = IF state = "Committed" THEN held.epoch + 1 ELSE held.epoch OBVIOUS
<1>9. e \in Nat /\ held.epoch <= e BY <1>2, <1>8
<1>10. TablesChange(p, [held EXCEPT !.handoffs = [@ EXCEPT ![n] = h], !.epoch = e])
  <2>1. [held EXCEPT !.handoffs = [@ EXCEPT ![n] = h], !.epoch = e]
           = [held EXCEPT !.handoffs[n] = [state |-> state, journal |-> @.journal \o phases],
                          !.epoch = IF state = "Committed" THEN @ + 1 ELSE @]
    BY <1>4, <1>6, <1>7, <1>8
  <2> QED BY <1>1, <2>1 DEF HandoffTo
<1>11. j \in Seq(HandoffPhases) /\ Begins(g.journal, j)
       /\ (state # "Aborted" => PhaseOf(state) \in ToSet(j))
  <2>1. ASSUME NEW x \in HandoffPhases, phases = <<x>>,
               state = "Aborted" \/ PhaseOf(state) = x \/ state = g.state
        PROVE  j \in Seq(HandoffPhases) /\ Begins(g.journal, j)
               /\ (state # "Aborted" => PhaseOf(state) \in ToSet(j))
    <3>1. j = g.journal \o <<x>> BY <1>6, <2>1
    <3>2. /\ j \in Seq(HandoffPhases) /\ Begins(g.journal, j)
          /\ x \in ToSet(j) /\ ToSet(g.journal) \subseteq ToSet(j)
      BY <1>5, <3>1, PhaseKeptOrAdded
    <3> QED BY <1>5, <2>1, <3>2 DEF HandoffTells
  <2>2. ASSUME phases = <<>>, state = "Aborted"
        PROVE  j \in Seq(HandoffPhases) /\ Begins(g.journal, j)
               /\ (state # "Aborted" => PhaseOf(state) \in ToSet(j))
    <3>1. j = g.journal BY <1>5, <1>6, <2>2
    <3> QED BY <1>5, <2>2, <3>1, BeginsItself
  <2> QED BY <1>1, <1>4, <2>1, <2>2
<1>12. h \in HandoffRecords /\ h.state = state /\ h.journal = j BY <1>7, <1>11 DEF HandoffRecords
<1>13. HandoffTells(h) BY <1>11, <1>12 DEF HandoffTells
<1>14. HandoffFollows(g, h) BY <1>5, <1>11, <1>12 DEF HandoffFollows
<1>15. TablesStep(held, [held EXCEPT !.handoffs = [@ EXCEPT ![n] = h], !.epoch = e])
  BY <1>2, <1>3, <1>4, <1>9, <1>12, <1>13, <1>14, HandoffMoved
<1> QED BY <1>1, <1>10, <1>15, TablesMoveTo

LEMMA HandoffGoesOnMoves ==
    ASSUME AllTablesTell, NEW p \in Registrable, NEW n \in DOMAIN tables[p].handoffs, HandoffGoesOn(p, n)
    PROVE  TablesMove
<1>1. PICK now : now = tables[p].handoffs[n].state OBVIOUS
<1>2. HandoffSteps[1] = "TargetPrepare" /\ HandoffSteps[2] = "TargetVerified" /\ HandoffSteps[3] = "SourceReady"
      /\ HandoffSteps[4] = "Committed"
  BY DEF HandoffSteps
<1>3. ASSUME NEW i \in 1 .. 3, now = HandoffSteps[i],
             HandoffTo(p, n, HandoffSteps[i + 1], <<IF i = 3 THEN "LeaseCommitted" ELSE HandoffSteps[i + 1]>>)
      PROVE  TablesMove
  <2>1. PICK x, state : /\ x = IF i = 3 THEN "LeaseCommitted" ELSE HandoffSteps[i + 1]
                        /\ state = HandoffSteps[i + 1]
    OBVIOUS
  <2>2. i = 1 \/ i = 2 \/ i = 3 OBVIOUS
  <2>3. /\ x \in HandoffPhases /\ state \in HandoffStates /\ PhaseOf(state) = x
        /\ now \notin EndedStates
    BY <1>2, <1>3, <2>1, <2>2 DEF HandoffPhases, HandoffStates, EndedStates, PhaseOf
  <2> QED BY <1>1, <1>3, <2>1, <2>3, HandoffToMoves
<1>4. ASSUME now \in {"TargetPrepare", "TargetVerified"}, HandoffTo(p, n, now, <<"TargetApply">>)
      PROVE  TablesMove
  <2>1. "TargetApply" \in HandoffPhases /\ now \in HandoffStates /\ now \notin EndedStates
    BY <1>4 DEF HandoffPhases, HandoffStates, EndedStates
  <2> QED BY <1>1, <1>4, <2>1, HandoffToMoves
<1>5. ASSUME now \notin {"Committed", "Aborted"}, HandoffTo(p, n, "Aborted", <<"Aborted">>)
      PROVE  TablesMove
  <2>1. "Aborted" \in HandoffPhases /\ "Aborted" \in HandoffStates /\ now \notin EndedStates
    BY <1>5 DEF HandoffPhases, HandoffStates, EndedStates
  <2> QED BY <1>1, <1>5, <2>1, HandoffToMoves
<1>6. ASSUME now = "SourceReady", HandoffTo(p, n, "Aborted", <<>>)
      PROVE  TablesMove
  <2>1. "Aborted" \in HandoffStates /\ now \notin EndedStates
    BY <1>6 DEF HandoffStates, EndedStates
  <2> QED BY <1>1, <1>6, <2>1, HandoffToMoves
<1> QED BY <1>1, <1>3, <1>4, <1>5, <1>6 DEF HandoffGoesOn

LEMMA SnapshotsMove ==
    ASSUME AllTablesTell, NEW p \in Registrable,
           \/ \E session \in StoredSessions : AddSnapshot(p, session)
           \/ \E s \in tables[p].snapshots : PruneSnapshot(p, s)
    PROVE  TablesMove
<1>1. TablesTell(tables[p]) BY DEF AllTablesTell
<1>2. ASSUME NEW session \in StoredSessions, AddSnapshot(p, session) PROVE TablesMove
  BY <1>1, <1>2, SnapshotAdded, TablesMoveTo DEF AddSnapshot
<1>3. ASSUME NEW s \in tables[p].snapshots, PruneSnapshot(p, s) PROVE TablesMove
  BY <1>1, <1>3, SnapshotPruned, TablesMoveTo DEF PruneSnapshot
<1> QED BY <1>2, <1>3

(* What a query shows                                                      *)

HandoffRows == [project : Registrable, number : Nat, state : HandoffStates, journal : Seq(HandoffPhases)]
LeaseRows == [project : Registrable, epoch : Nat]
SnapshotRows == [project : Registrable, row : SnapshotRecords]
EntryPlaces == [project : Registrable, space : Spaces \cup {NoSpace}]
EntryRows == [project : Registrable, space : Spaces \cup {NoSpace}, persisted : BOOLEAN]
RegistryRows == [project : Registrable, spaces : SUBSET Spaces]
QueryKinds ==
    {"none", "handoffs", "leases", "registry", "recoverable", "environment", "store", "snapshots"}
QueryCalls ==
    [kind : QueryKinds, wanted : SUBSET Registrable, journals : BOOLEAN,
     narrow : {Every} \cup StoredSessions \cup Spaces, limit : {Every} \cup PageLimits,
     pc : {"idle", "next", "opened", "journals", "refused", "error", "answered"},
     todo : SUBSET (Registrable \cup EntryPlaces), opened : Registrable \cup {Every},
     unread : Seq(HandoffRows),
     page : SUBSET (HandoffRows \cup LeaseRows \cup SnapshotRows \cup EntryRows \cup RegistryRows),
     asked : {<<>>} \cup [Registrable -> ProjectTables], gone : SUBSET Registrable]

OnItsWay(c) == c.pc \in {"next", "opened", "journals", "answered"}

(* What was there when the list was asked for has become what is there.    *)
AskedHolds(c) ==
    c.pc # "idle" => /\ c.asked \in [Registrable -> ProjectTables]
                     /\ \A p \in Registrable : TablesFollow(c.asked[p], tables[p])

(* A row that was read, and one whose journal was read, or not asked for.  *)
RowHolds(c, row) ==
    LET before == c.asked[row.project].handoffs
        current == tables[row.project].handoffs
    IN /\ row \in HandoffRows
       /\ row.number \in 1 .. Len(current)
       /\ row.state \in EndedStates => current[row.number].state = row.state
       /\ row.state # "Aborted" => PhaseOf(row.state) \in ToSet(current[row.number].journal)
       /\ row.number \in 1 .. Len(before) /\ before[row.number].state \in EndedStates =>
             row.state = before[row.number].state
JournalHolds(c, row) ==
    LET before == c.asked[row.project].handoffs
        current == tables[row.project].handoffs
    IN /\ Begins(row.journal, current[row.number].journal)
       /\ c.journals /\ row.state # "Aborted" => PhaseOf(row.state) \in ToSet(row.journal)
       /\ c.journals /\ row.number \in 1 .. Len(before) => Begins(before[row.number].journal, row.journal)

ShownRow(c, p, n) == \E row \in c.page : row.project = p /\ row.number = n
UnreadRow(c, p, n) ==
    /\ c.pc = "journals"
    /\ \E i \in 1 .. Len(c.unread) : c.unread[i].project = p /\ c.unread[i].number = n
ToOpen(c, p) == p \in c.todo \/ (c.pc = "opened" /\ p = c.opened)

HandoffCall(c) ==
    c.kind = "handoffs" /\ OnItsWay(c) =>
       /\ \A row \in c.page : RowHolds(c, row) /\ JournalHolds(c, row)
       /\ c.pc = "journals" =>
             \A i \in 1 .. Len(c.unread) : RowHolds(c, c.unread[i]) /\ c.unread[i].journal = <<>>
       /\ \A p \in c.wanted : \A n \in 1 .. Len(c.asked[p].handoffs) :
             ToOpen(c, p) \/ ShownRow(c, p, n) \/ UnreadRow(c, p, n)

LeaseCall(c) ==
    c.kind = "leases" /\ OnItsWay(c) =>
       /\ \A row \in c.page : /\ row \in LeaseRows /\ row.project \in c.wanted
                              /\ c.asked[row.project].epoch <= row.epoch
                              /\ row.epoch <= tables[row.project].epoch
       /\ \A p \in c.wanted : ToOpen(c, p) \/ \E row \in c.page : row.project = p

ShownOf(c, p) == {i.row : i \in {j \in c.page : j.project = p}}
StillThere(c, p) == OfSession(c.asked[p].snapshots \cap tables[p].snapshots, c.narrow)
PageHolds(c, p) ==
    /\ \A s \in ShownOf(c, p) : c.narrow \in {Every, s.session}
    /\ \A s \in StillThere(c, p) \ ShownOf(c, p) :
          /\ c.kind = "snapshots" /\ Cardinality(ShownOf(c, p)) >= PageLimit(c.limit)
          /\ \A u \in ShownOf(c, p) : u.number > s.number
SnapshotCall(c) ==
    c.kind \in {"snapshots", "recoverable", "store"} /\ OnItsWay(c) =>
       /\ c.kind # "snapshots" => c.narrow = Every
       /\ \A p \in c.wanted : IF ToOpen(c, p) THEN \A row \in c.page : row.project # p
                              ELSE PageHolds(c, p)

ShownEntries(c) == {[project |-> e.project, space |-> e.space] : e \in c.page}
RegistryCall(c) ==
    /\ Running(c) /\ LockKept(c.kind) =>
          /\ c.wanted \subseteq registered
          /\ c.kind = "environment" =>
                c.todo \cup ShownEntries(c) = UNION {EntriesOf(p, c.narrow) : p \in c.wanted}
    /\ Running(c) /\ AsksFirst(c.kind) => c.wanted \subseteq registered \cup c.gone
    /\ c.pc = "refused" /\ AsksFirst(c.kind) => c.opened \in c.gone

(* The order of a call: what is left to open is wanted, and is opened first. *)
PlaceHolds(c) ==
    /\ c.kind # "environment" /\ OnItsWay(c) => c.todo \subseteq c.wanted
    /\ c.pc \in {"opened", "journals"} => c.opened \in c.wanted /\ c.opened \notin c.todo
    /\ c.pc = "answered" => c.todo = {}
    /\ c.pc = "journals" => c.kind = "handoffs"

QueryHolds(c) ==
    /\ c \in QueryCalls
    /\ PlaceHolds(c) /\ AskedHolds(c)
    /\ HandoffCall(c) /\ LeaseCall(c) /\ SnapshotCall(c) /\ RegistryCall(c)

QueriesInv ==
    /\ AllTablesTell
    /\ registered \subseteq Registrable /\ spaces \in [Registrable -> SUBSET Spaces]
    /\ queries \in [Queries -> QueryCalls]
    /\ \A q \in Queries : QueryHolds(queries[q])
    /\ \A q \in Queries : Running(queries[q]) /\ LockKept(queries[q].kind) => lockedBy = q

LEMMA QueriesInitially == QueriesInit => QueriesInv
<1> SUFFICES ASSUME QueriesInit PROVE QueriesInv OBVIOUS
<1>1. TablesTell(NoRows)
  <2>1. NoRows \in ProjectTables BY DEF NoRows, ProjectTables
  <2>2. NoRows.handoffs = <<>> /\ NoRows.snapshots = {} BY DEF NoRows
  <2>3. SnapshotsAreNumbered({}) BY FS_EmptySet DEF SnapshotsAreNumbered
  <2> QED BY <2>1, <2>2, <2>3 DEF TablesTell
<1>2. AllTablesTell BY <1>1 DEF QueriesInit, AllTablesTell, TablesTell
<1>3. NotAskedYet \in QueryCalls BY DEF NotAskedYet, QueryCalls, QueryKinds
<1>4. NotAskedYet.pc = "idle" BY DEF NotAskedYet
<1>5. QueryHolds(NotAskedYet)
  <2>1. PICK c : c = NotAskedYet OBVIOUS
  <2>2. c \in QueryCalls /\ c.pc = "idle" BY <1>3, <1>4, <2>1
  <2>3. PlaceHolds(c) /\ AskedHolds(c) /\ HandoffCall(c) BY <2>2 DEF PlaceHolds, AskedHolds, HandoffCall, OnItsWay
  <2>4. LeaseCall(c) /\ SnapshotCall(c) BY <2>2 DEF LeaseCall, SnapshotCall, OnItsWay
  <2>5. RegistryCall(c) BY <2>2 DEF RegistryCall, Running
  <2> QED BY <2>1, <2>2, <2>3, <2>4, <2>5 DEF QueryHolds
<1>6. ~Running(NotAskedYet) BY <1>4 DEF Running
<1> QED BY <1>2, <1>3, <1>5, <1>6 DEF QueriesInv, QueriesInit

(* What an answered call has asked, and that it has nothing left to open.  *)
LEMMA AnsweredCall ==
    ASSUME QueriesInv, NEW q \in Queries, NEW c, c = queries[q], c.pc = "answered"
    PROVE  /\ HandoffCall(c) /\ LeaseCall(c) /\ OnItsWay(c)
           /\ c.wanted \subseteq Registrable
           /\ \A p \in Registrable : c.asked[p] \in ProjectTables /\ tables[p] \in ProjectTables
           /\ \A p \in c.wanted : ~ToOpen(c, p)
<1>1. /\ c \in QueryCalls /\ HandoffCall(c) /\ LeaseCall(c) /\ AskedHolds(c)
      /\ PlaceHolds(c) /\ OnItsWay(c)
  BY DEF QueriesInv, QueryHolds, OnItsWay
<1>2. c.wanted \subseteq Registrable /\ c.todo = {} BY <1>1 DEF QueryCalls, PlaceHolds
<1>3. \A p \in Registrable : c.asked[p] \in ProjectTables /\ tables[p] \in ProjectTables
  BY <1>1 DEF AskedHolds, QueriesInv, AllTablesTell
<1>4. \A p \in c.wanted : ~ToOpen(c, p) BY <1>1, <1>2 DEF ToOpen
<1> QED BY <1>1, <1>2, <1>3, <1>4

(* A row of an answered list of handoffs, beside what the database held    *)
(* when the question came and what it holds now.                           *)
HandoffRowTrue(c, row) ==
    LET current == tables[row.project].handoffs[row.number]
        before == c.asked[row.project].handoffs
    IN /\ IsPrefix(row.journal, current.journal)
       /\ c.journals /\ row.state # "Aborted" => PhaseOf(row.state) \in ToSet(row.journal)
       /\ row.number \in DOMAIN before =>
             /\ c.journals => IsPrefix(before[row.number].journal, row.journal)
             /\ before[row.number].state \in {"Committed", "Aborted"} =>
                    row.state = before[row.number].state
       /\ row.state \in {"Committed", "Aborted"} => row.state = current.state

(* Every handoff that was there when the question came is on the list.     *)
LEMMA HandoffsAreListed ==
    ASSUME QueriesInv, NEW q \in Queries, NEW c, c = queries[q], c.pc = "answered",
           c.kind = "handoffs", NEW p \in c.wanted, NEW n \in DOMAIN c.asked[p].handoffs
    PROVE  \E row \in c.page : row.project = p /\ row.number = n
<1>1. HandoffCall(c) /\ ~ToOpen(c, p) /\ OnItsWay(c) BY AnsweredCall
<1>2. c.asked[p].handoffs \in Seq(HandoffRecords) BY AnsweredCall DEF ProjectTables
<1>3. n \in 1 .. Len(c.asked[p].handoffs) BY <1>2
<1>4. ShownRow(c, p, n) \/ UnreadRow(c, p, n) BY <1>1, <1>3 DEF HandoffCall
<1>5. ~UnreadRow(c, p, n) BY DEF UnreadRow
<1> QED BY <1>4, <1>5 DEF ShownRow

LEMMA HandoffRowsAreTrue ==
    ASSUME QueriesInv, NEW q \in Queries, NEW c, c = queries[q], c.pc = "answered",
           c.kind = "handoffs", NEW row \in c.page
    PROVE  HandoffRowTrue(c, row)
<1>1. RowHolds(c, row) /\ JournalHolds(c, row) BY AnsweredCall DEF HandoffCall
<1>2. row.project \in Registrable /\ row.journal \in Seq(HandoffPhases) BY <1>1 DEF RowHolds, HandoffRows
<1>3. PICK current : current = tables[row.project].handoffs[row.number] OBVIOUS
<1>4. PICK before : before = c.asked[row.project].handoffs OBVIOUS
<1>5. c.asked[row.project] \in ProjectTables /\ tables[row.project] \in ProjectTables BY <1>2, AnsweredCall
<1>6. before \in Seq(HandoffRecords) /\ tables[row.project].handoffs \in Seq(HandoffRecords)
  BY <1>4, <1>5 DEF ProjectTables
<1>7. current \in HandoffRecords BY <1>1, <1>3, <1>6 DEF RowHolds
<1>8. current.journal \in Seq(HandoffPhases) BY <1>7 DEF HandoffRecords
<1>9. IsPrefix(row.journal, current.journal)
  BY <1>1, <1>2, <1>3, <1>8, BeginsIsPrefix DEF JournalHolds
<1>10. ASSUME row.number \in DOMAIN before, c.journals PROVE IsPrefix(before[row.number].journal, row.journal)
  <2>1. row.number \in 1 .. Len(before) BY <1>6, <1>10
  <2>2. before[row.number] \in HandoffRecords BY <1>6, <2>1
  <2>3. before[row.number].journal \in Seq(HandoffPhases) BY <2>2 DEF HandoffRecords
  <2>4. Begins(before[row.number].journal, row.journal) BY <1>1, <1>4, <1>10, <2>1 DEF JournalHolds
  <2> QED BY <1>2, <2>3, <2>4, BeginsIsPrefix
<1>11. row.number \in DOMAIN before /\ before[row.number].state \in {"Committed", "Aborted"} =>
          row.state = before[row.number].state
  BY <1>1, <1>4, <1>6 DEF RowHolds, EndedStates
<1>12. row.state \in {"Committed", "Aborted"} => row.state = current.state
  BY <1>1, <1>3 DEF RowHolds, EndedStates
<1>13. c.journals /\ row.state # "Aborted" => PhaseOf(row.state) \in ToSet(row.journal)
  BY <1>1 DEF JournalHolds
<1> QED BY <1>3, <1>4, <1>9, <1>10, <1>11, <1>12, <1>13, Zenon DEF HandoffRowTrue

(* A row of an answered list of leases: a wanted project, and an epoch     *)
(* between the one of the question and the one of now.                     *)
LEMMA LeaseRowsAreTrue ==
    ASSUME QueriesInv, NEW q \in Queries, NEW c, c = queries[q], c.pc = "answered",
           c.kind = "leases", NEW row \in c.page
    PROVE  row.project \in c.wanted /\ row.epoch \in c.asked[row.project].epoch .. tables[row.project].epoch
<1>1. /\ row \in LeaseRows /\ row.project \in c.wanted
      /\ c.asked[row.project].epoch <= row.epoch /\ row.epoch <= tables[row.project].epoch
  BY AnsweredCall DEF LeaseCall
<1>2. row.epoch \in Nat BY <1>1 DEF LeaseRows
<1>3. c.asked[row.project] \in ProjectTables /\ tables[row.project] \in ProjectTables BY <1>1, AnsweredCall
<1>4. c.asked[row.project].epoch \in Nat /\ tables[row.project].epoch \in Nat BY <1>3 DEF ProjectTables
<1>5. PICK a, b, e : a = c.asked[row.project].epoch /\ b = tables[row.project].epoch /\ e = row.epoch
  OBVIOUS
<1>6. e \in a .. b BY <1>1, <1>2, <1>4, <1>5
<1> QED BY <1>1, <1>5, <1>6

LEMMA LeasesAreListed ==
    ASSUME QueriesInv, NEW q \in Queries, NEW c, c = queries[q], c.pc = "answered", c.kind = "leases"
    PROVE  c.wanted = {row.project : row \in c.page}
<1>1. \A p \in c.wanted : \E row \in c.page : row.project = p BY AnsweredCall DEF LeaseCall
<1>2. \A row \in c.page : row.project \in c.wanted BY LeaseRowsAreTrue
<1> QED BY <1>1, <1>2

(* The lists are true when the invariant holds.                            *)
LEMMA TransferListsHold == QueriesInv => TransferListsAreTrue
<1> SUFFICES ASSUME QueriesInv PROVE HandoffListsAreTrue /\ LeaseListsAreTrue BY DEF TransferListsAreTrue
<1>1. HandoffListsAreTrue
  <2> SUFFICES ASSUME NEW q \in Queries, queries[q].pc = "answered", queries[q].kind = "handoffs"
               PROVE  /\ \A p \in queries[q].wanted : \A n \in DOMAIN queries[q].asked[p].handoffs :
                            \E row \in queries[q].page : row.project = p /\ row.number = n
                      /\ \A row \in queries[q].page : HandoffRowTrue(queries[q], row)
    BY Zenon DEF HandoffListsAreTrue, HandoffRowTrue
  <2>1. PICK c : c = queries[q] OBVIOUS
  <2>2. \A p \in c.wanted : \A n \in DOMAIN c.asked[p].handoffs :
           \E row \in c.page : row.project = p /\ row.number = n
    BY <2>1, HandoffsAreListed
  <2>3. \A row \in c.page : HandoffRowTrue(c, row) BY <2>1, HandoffRowsAreTrue
  <2>4. \A row \in queries[q].page : HandoffRowTrue(queries[q], row) BY <2>1, <2>3
  <2>5. \A p \in queries[q].wanted : \A n \in DOMAIN queries[q].asked[p].handoffs :
           \E row \in queries[q].page : row.project = p /\ row.number = n
    BY <2>1, <2>2
  <2> QED BY <2>4, <2>5, Zenon
<1>2. LeaseListsAreTrue
  BY LeasesAreListed, LeaseRowsAreTrue DEF LeaseListsAreTrue
<1> QED BY <1>1, <1>2

LEMMA SnapshotListsHold == QueriesInv => SnapshotListsAreTrue
<1> SUFFICES ASSUME QueriesInv, NEW q \in Queries, queries[q].pc = "answered",
                    queries[q].kind \in {"snapshots", "recoverable", "store"}, NEW p \in queries[q].wanted
             PROVE  PageHolds(queries[q], p)
  BY DEF SnapshotListsAreTrue, PageHolds, ShownOf, StillThere
<1>1. PICK c : c = queries[q] OBVIOUS
<1>2. SnapshotCall(c) /\ PlaceHolds(c) /\ c.pc = "answered" /\ OnItsWay(c) BY <1>1 DEF QueriesInv, QueryHolds, OnItsWay
<1>3. ~ToOpen(c, p) BY <1>2 DEF PlaceHolds, ToOpen
<1> QED BY <1>1, <1>2, <1>3 DEF SnapshotCall

LEMMA RegistryListsHold == QueriesInv => RegistryListsAreTrue
<1> SUFFICES ASSUME QueriesInv, NEW q \in Queries, RegistryCall(queries[q])
             PROVE  /\ Running(queries[q]) /\ queries[q].kind \in {"recoverable", "environment"} =>
                          /\ queries[q].wanted \subseteq registered
                          /\ queries[q].kind = "environment" =>
                                queries[q].todo \cup {[project |-> e.project, space |-> e.space] : e \in queries[q].page}
                                   = UNION {EntriesOf(p, queries[q].narrow) : p \in queries[q].wanted}
                    /\ queries[q].pc = "refused" /\ AsksFirst(queries[q].kind) => queries[q].opened \in queries[q].gone
  BY DEF RegistryListsAreTrue, QueriesInv, QueryHolds
<1> QED BY DEF RegistryCall, LockKept, ShownEntries

(* When the tables go on, what was read stays true.                        *)
LEMMA BeginsKeeps ==
    ASSUME NEW S, NEW s \in Seq(S), NEW t \in Seq(S), Begins(s, t)
    PROVE  ToSet(s) \subseteq ToSet(t)
<1>1. \A i \in DOMAIN s : i \in DOMAIN t /\ s[i] = t[i] BY DEF Begins
<1> QED BY <1>1 DEF ToSet

LEMMA TablesMoveFollows ==
    ASSUME AllTablesTell, TablesMove
    PROVE  /\ AllTablesTell'
           /\ \A p \in Registrable : /\ HandoffsFollow(tables[p].handoffs, tables'[p].handoffs)
                                     /\ tables[p].epoch <= tables'[p].epoch
<1>1. ASSUME NEW p \in Registrable
      PROVE  /\ TablesTell(tables'[p]) /\ HandoffsFollow(tables[p].handoffs, tables'[p].handoffs)
             /\ tables[p].epoch <= tables'[p].epoch
  <2>1. TablesTell(tables[p]) /\ tables[p].handoffs \in Seq(HandoffRecords) /\ tables[p].epoch \in Nat
    BY DEF AllTablesTell, TablesTell, ProjectTables
  <2>2. CASE tables'[p] = tables[p]
    <3>1. HandoffsFollow(tables[p].handoffs, tables[p].handoffs) BY <2>1, HandoffsFollowItself
    <3>2. PICK e : e = tables[p].epoch OBVIOUS
    <3>3. e <= e BY <2>1, <3>2
    <3> QED BY <2>1, <2>2, <3>1, <3>2, <3>3
  <2>3. CASE TablesStep(tables[p], tables'[p]) BY <2>3 DEF TablesStep
  <2> QED BY <2>2, <2>3 DEF TablesMove
<1> QED BY <1>1 DEF AllTablesTell, TablesMove

LEMMA RowsKeep ==
    ASSUME AllTablesTell, TablesMove, NEW c, AskedHolds(c), c.pc # "idle", NEW row, RowHolds(c, row)
    PROVE  /\ RowHolds(c, row)'
           /\ JournalHolds(c, row) => JournalHolds(c, row)'
<1>1. row.project \in Registrable /\ row.journal \in Seq(HandoffPhases) /\ row \in HandoffRows
  BY DEF RowHolds, HandoffRows
<1>2. PICK p : p = row.project OBVIOUS
<1>3. PICK now : now = tables[p].handoffs OBVIOUS
<1>4. PICK later : later = tables'[p].handoffs OBVIOUS
<1>5. now \in Seq(HandoffRecords) /\ later \in Seq(HandoffRecords)
  BY <1>1, <1>2, <1>3, <1>4, TablesMoveFollows DEF AllTablesTell, ProjectTables
<1>6. HandoffsFollow(now, later) BY <1>1, <1>2, <1>3, <1>4, TablesMoveFollows
<1>7. PICK n : n = row.number OBVIOUS
<1>8. n \in 1 .. Len(now) BY <1>2, <1>3, <1>7 DEF RowHolds
<1>9. n \in 1 .. Len(later) BY <1>5, <1>6, <1>8 DEF HandoffsFollow
<1>10. now[n] \in HandoffRecords /\ later[n] \in HandoffRecords /\ HandoffFollows(now[n], later[n])
  BY <1>5, <1>6, <1>8, <1>9 DEF HandoffsFollow
<1>11. PICK g, h : g = now[n] /\ h = later[n] OBVIOUS
<1>12. g.journal \in Seq(HandoffPhases) /\ h.journal \in Seq(HandoffPhases) /\ HandoffFollows(g, h)
  BY <1>10, <1>11 DEF HandoffRecords
<1>13. ToSet(g.journal) \subseteq ToSet(h.journal) BY <1>12, BeginsKeeps DEF HandoffFollows
<1>14. g.state \in EndedStates => h.state = g.state BY <1>12 DEF HandoffFollows
<1>15. /\ row.state \in EndedStates => g.state = row.state
       /\ row.state # "Aborted" => PhaseOf(row.state) \in ToSet(g.journal)
  BY <1>2, <1>3, <1>7, <1>11 DEF RowHolds
<1>16. RowHolds(c, row)'
  <2>1. row.state \in EndedStates => h.state = row.state BY <1>14, <1>15
  <2>2. row.state # "Aborted" => PhaseOf(row.state) \in ToSet(h.journal) BY <1>13, <1>15
  <2>3. row.number \in 1 .. Len(c.asked[row.project].handoffs)
           /\ c.asked[row.project].handoffs[row.number].state \in EndedStates =>
              row.state = c.asked[row.project].handoffs[row.number].state
    BY DEF RowHolds
  <2> QED BY <1>1, <1>2, <1>4, <1>7, <1>9, <1>11, <2>1, <2>2, <2>3 DEF RowHolds
<1>17. ASSUME JournalHolds(c, row) PROVE JournalHolds(c, row)'
  <2>1. Begins(row.journal, g.journal) BY <1>2, <1>3, <1>7, <1>11, <1>17 DEF JournalHolds
  <2>2. Begins(g.journal, h.journal) BY <1>12 DEF HandoffFollows
  <2>3. Begins(row.journal, h.journal) BY <1>1, <1>12, <2>1, <2>2, BeginsTransitive
  <2> QED BY <1>2, <1>4, <1>7, <1>11, <1>17, <2>3 DEF JournalHolds
<1> QED BY <1>16, <1>17

LEMMA TablesMoveKeeps ==
    ASSUME QueriesInv, TablesMove
    PROVE  QueriesInv'
<1>1. UNCHANGED <<registered, spaces, lockedBy, queries>> BY DEF TablesMove
<1>2. AllTablesTell /\ AllTablesTell' BY TablesMoveFollows DEF QueriesInv
<1>3. ASSUME NEW q \in Queries PROVE QueryHolds(queries[q])'
  <2>1. PICK c : c = queries[q] OBVIOUS
  <2>2. QueryHolds(c) /\ c \in QueryCalls BY <2>1 DEF QueriesInv, QueryHolds
  <2>3. AskedHolds(c)'
    <3> SUFFICES ASSUME c.pc # "idle" PROVE AskedHolds(c)' BY DEF AskedHolds
    <3>1. c.asked \in [Registrable -> ProjectTables] BY <2>2 DEF QueryHolds, AskedHolds
    <3>2. ASSUME NEW p \in Registrable PROVE TablesFollow(c.asked[p], tables'[p])
      <4>1. TablesFollow(c.asked[p], tables[p]) /\ c.asked[p] \in ProjectTables BY <2>2, <3>1 DEF QueryHolds, AskedHolds
      <4>2. TablesTell(tables[p]) BY <1>2 DEF AllTablesTell
      <4>3. tables'[p] = tables[p] \/ TablesStep(tables[p], tables'[p]) BY DEF TablesMove
      <4> QED BY <4>1, <4>2, <4>3, TablesFollowOn
    <3> QED BY <3>1, <3>2 DEF AskedHolds
  <2>4. HandoffCall(c)'
    <3> SUFFICES ASSUME c.kind = "handoffs", OnItsWay(c) PROVE HandoffCall(c)' BY DEF HandoffCall, OnItsWay
    <3>1. c.pc # "idle" /\ AskedHolds(c) /\ HandoffCall(c) BY <2>2 DEF OnItsWay, QueryHolds
    <3>2. \A row \in c.page : RowHolds(c, row)' /\ JournalHolds(c, row)'
      BY <1>2, <3>1, RowsKeep DEF HandoffCall
    <3>3. c.pc = "journals" =>
             \A i \in 1 .. Len(c.unread) : RowHolds(c, c.unread[i])' /\ c.unread[i].journal = <<>>
      <4> SUFFICES ASSUME c.pc = "journals", NEW i \in 1 .. Len(c.unread)
                   PROVE  RowHolds(c, c.unread[i])' /\ c.unread[i].journal = <<>>
        OBVIOUS
      <4>1. RowHolds(c, c.unread[i]) /\ c.unread[i].journal = <<>> BY <3>1 DEF HandoffCall
      <4>2. PICK row : row = c.unread[i] OBVIOUS
      <4>3. RowHolds(c, row)' BY <1>2, <3>1, <4>1, <4>2, RowsKeep
      <4> QED BY <4>1, <4>2, <4>3
    <3>4. \A p \in c.wanted : \A n \in 1 .. Len(c.asked[p].handoffs) :
             ToOpen(c, p) \/ ShownRow(c, p, n) \/ UnreadRow(c, p, n)
      BY <3>1 DEF HandoffCall
    <3> QED BY <3>2, <3>3, <3>4 DEF HandoffCall, ToOpen, ShownRow, UnreadRow
  <2>5. LeaseCall(c)'
    <3> SUFFICES ASSUME c.kind = "leases", OnItsWay(c) PROVE LeaseCall(c)' BY DEF LeaseCall, OnItsWay
    <3>1. LeaseCall(c) BY <2>2 DEF QueryHolds
    <3>2. ASSUME NEW row \in c.page PROVE row.epoch <= tables'[row.project].epoch
      <4>1. row \in LeaseRows /\ row.epoch <= tables[row.project].epoch BY <3>1 DEF LeaseCall
      <4>2. row.project \in Registrable /\ row.epoch \in Nat BY <4>1 DEF LeaseRows
      <4>3. tables[row.project].epoch <= tables'[row.project].epoch BY <1>2, <4>2, TablesMoveFollows
      <4>4. tables[row.project].epoch \in Nat /\ tables'[row.project].epoch \in Nat
        BY <1>2, <4>2 DEF AllTablesTell, ProjectTables
      <4>5. PICK a, b, e : a = tables[row.project].epoch /\ b = tables'[row.project].epoch /\ e = row.epoch
        OBVIOUS
      <4>6. e <= b BY <4>1, <4>2, <4>3, <4>4, <4>5
      <4> QED BY <4>5, <4>6
    <3> QED BY <3>1, <3>2 DEF LeaseCall, ToOpen
  <2>6. SnapshotCall(c)'
    <3> SUFFICES ASSUME c.kind \in {"snapshots", "recoverable", "store"}, OnItsWay(c) PROVE SnapshotCall(c)'
      BY DEF SnapshotCall, OnItsWay
    <3>1. SnapshotCall(c) /\ c.pc # "idle" BY <2>2 DEF QueryHolds, OnItsWay
    <3>2. ASSUME NEW p \in c.wanted, PageHolds(c, p) PROVE PageHolds(c, p)'
      <4>1. p \in Registrable BY <2>2 DEF QueryCalls
      <4>2. c.asked[p] \in ProjectTables /\ TablesFollow(c.asked[p], tables[p]) /\ TablesTell(tables[p])
        BY <1>2, <2>2, <3>1, <4>1 DEF QueryHolds, AskedHolds, AllTablesTell
      <4>3. tables'[p] = tables[p] \/ TablesStep(tables[p], tables'[p]) BY <4>1 DEF TablesMove
      <4>4. c.asked[p].snapshots \cap tables'[p].snapshots \subseteq c.asked[p].snapshots \cap tables[p].snapshots
        BY <4>2, <4>3, SeenStayOrGo
      <4>5. StillThere(c, p)' \subseteq StillThere(c, p) BY <4>4 DEF StillThere, OfSession
      <4>6. ShownOf(c, p)' = ShownOf(c, p) BY DEF ShownOf
      <4> QED BY <3>2, <4>5, <4>6 DEF PageHolds
    <3> QED BY <3>1, <3>2 DEF SnapshotCall, ToOpen
  <2>7. RegistryCall(c)' BY <1>1, <2>2 DEF QueryHolds, RegistryCall, Running, ShownEntries, EntriesOf
  <2>8. QueryHolds(c)' BY <2>2, <2>3, <2>4, <2>5, <2>6, <2>7 DEF QueryHolds, PlaceHolds, OnItsWay
  <2> QED BY <1>1, <2>1, <2>8
<1> QED BY <1>1, <1>2, <1>3 DEF QueriesInv, Running

(* While nobody has the lock of the configuration, the registry changes.   *)
LEMMA NobodyReadsLocked ==
    ASSUME QueriesInv, lockedBy = Nobody, NEW q \in Queries
    PROVE  ~(Running(queries[q]) /\ LockKept(queries[q].kind))
BY QueriesAssumption DEF QueriesInv, Nobody

(* Two calls that have read the same.                                      *)
ReadTheSame(c, d) ==
    /\ d.kind = c.kind /\ d.wanted = c.wanted /\ d.journals = c.journals /\ d.narrow = c.narrow
    /\ d.limit = c.limit /\ d.pc = c.pc /\ d.todo = c.todo /\ d.opened = c.opened
    /\ d.unread = c.unread /\ d.page = c.page /\ d.asked = c.asked

LEMMA RowsOfTheSame ==
    ASSUME NEW c, NEW d, d.asked = c.asked, d.journals = c.journals, NEW row
    PROVE  /\ RowHolds(c, row) => RowHolds(d, row)
           /\ JournalHolds(c, row) => JournalHolds(d, row)
BY DEF RowHolds, JournalHolds

LEMMA HandoffsTheSame ==
    ASSUME UNCHANGED tables, NEW c, NEW d, ReadTheSame(c, d), HandoffCall(c)
    PROVE  HandoffCall(d)'
<1> SUFFICES ASSUME d.kind = "handoffs", OnItsWay(d) PROVE HandoffCall(d)' BY DEF HandoffCall, OnItsWay
<1>1. c.kind = "handoffs" /\ OnItsWay(c) BY DEF ReadTheSame, OnItsWay
<1>2. /\ d.journals = c.journals /\ d.asked = c.asked /\ d.page = c.page /\ d.unread = c.unread /\ d.pc = c.pc
      /\ d.wanted = c.wanted /\ d.todo = c.todo /\ d.opened = c.opened
  BY DEF ReadTheSame
<1>3. ASSUME NEW row, RowHolds(c, row) PROVE RowHolds(d, row)' BY <1>2, <1>3 DEF RowHolds
<1>4. ASSUME NEW row, JournalHolds(c, row) PROVE JournalHolds(d, row)' BY <1>2, <1>4 DEF JournalHolds
<1>5. \A row \in d.page : RowHolds(d, row)' /\ JournalHolds(d, row)'
  BY <1>1, <1>2, <1>3, <1>4 DEF HandoffCall
<1>6. d.pc = "journals" =>
         \A i \in 1 .. Len(d.unread) : RowHolds(d, d.unread[i])' /\ d.unread[i].journal = <<>>
  <2> SUFFICES ASSUME d.pc = "journals", NEW i \in 1 .. Len(d.unread)
               PROVE  RowHolds(d, d.unread[i])' /\ d.unread[i].journal = <<>>
    OBVIOUS
  <2>1. PICK row : row = c.unread[i] OBVIOUS
  <2>2. RowHolds(c, row) /\ row.journal = <<>> BY <1>1, <1>2, <2>1 DEF HandoffCall
  <2>3. RowHolds(d, row)' BY <1>3, <2>2
  <2> QED BY <1>2, <2>1, <2>2, <2>3
<1>7. \A p \in d.wanted : \A n \in 1 .. Len(d.asked[p].handoffs) :
         ToOpen(d, p) \/ ShownRow(d, p, n) \/ UnreadRow(d, p, n)
  <2> SUFFICES ASSUME NEW p \in c.wanted, NEW n \in 1 .. Len(c.asked[p].handoffs)
               PROVE  ToOpen(d, p) \/ ShownRow(d, p, n) \/ UnreadRow(d, p, n)
    BY <1>2
  <2>1. ToOpen(c, p) \/ ShownRow(c, p, n) \/ UnreadRow(c, p, n) BY <1>1 DEF HandoffCall
  <2> QED BY <1>2, <2>1 DEF ToOpen, ShownRow, UnreadRow
<1> QED BY <1>5, <1>6, <1>7 DEF HandoffCall, ToOpen, ShownRow, UnreadRow

LEMMA CallTheSame ==
    ASSUME UNCHANGED tables, NEW c, NEW d, ReadTheSame(c, d), QueryHolds(c), d \in QueryCalls, RegistryCall(d)'
    PROVE  QueryHolds(d)'
<1>1. PlaceHolds(d)' /\ AskedHolds(d)'
  BY DEF QueryHolds, PlaceHolds, AskedHolds, OnItsWay, ReadTheSame
<1>2. HandoffCall(d)' BY HandoffsTheSame DEF QueryHolds
<1>3. LeaseCall(d)' BY DEF QueryHolds, LeaseCall, OnItsWay, ToOpen, ReadTheSame
<1>4. SnapshotCall(d)'
  <2>1. ASSUME NEW p, PageHolds(c, p) PROVE PageHolds(d, p)'
    <3>1. ShownOf(d, p)' = ShownOf(c, p) /\ StillThere(d, p)' = StillThere(c, p)
      BY DEF ShownOf, StillThere, ReadTheSame
    <3> QED BY <2>1, <3>1 DEF PageHolds, ReadTheSame
  <2> QED BY <2>1 DEF QueryHolds, SnapshotCall, OnItsWay, ToOpen, ReadTheSame
<1> QED BY <1>1, <1>2, <1>3, <1>4 DEF QueryHolds

LEMMA WorkspaceRegistered ==
    ASSUME QueriesInv, NEW p \in Registrable, NEW w \in Spaces, RegisterWorkspace(p, w)
    PROVE  QueriesInv'
<1>1. /\ lockedBy = Nobody /\ registered' = registered \cup {p} /\ spaces' = [spaces EXCEPT ![p] = @ \cup {w}]
      /\ UNCHANGED <<tables, hydrated, lockedBy, queries>>
  BY DEF RegisterWorkspace
<1>2. registered' \subseteq Registrable /\ spaces' \in [Registrable -> SUBSET Spaces]
  BY <1>1 DEF QueriesInv
<1>3. ASSUME NEW q \in Queries PROVE QueryHolds(queries[q])'
  <2>1. PICK c : c = queries[q] OBVIOUS
  <2>2. QueryHolds(c) /\ ~(Running(c) /\ LockKept(c.kind)) BY <1>1, <2>1, NobodyReadsLocked DEF QueriesInv
  <2>3. registered \subseteq registered' BY <1>1
  <2>4. RegistryCall(c) /\ c \in QueryCalls BY <2>2 DEF QueryHolds
  <2>5. RegistryCall(c)' BY <2>2, <2>3, <2>4 DEF RegistryCall, Running
  <2>6. QueryHolds(c)' BY <1>1, <2>2, <2>4, <2>5, CallTheSame DEF ReadTheSame
  <2> QED BY <1>1, <2>1, <2>6
<1>4. AllTablesTell' BY <1>1 DEF QueriesInv, AllTablesTell
<1> QED BY <1>1, <1>2, <1>3, <1>4 DEF QueriesInv, Running

LEMMA ProjectUnregistered ==
    ASSUME QueriesInv, NEW p \in Registrable, UnregisterProject(p)
    PROVE  QueriesInv'
<1>1. /\ lockedBy = Nobody /\ registered' = registered \ {p} /\ spaces' = [spaces EXCEPT ![p] = {}]
      /\ UNCHANGED <<tables, hydrated, lockedBy>>
      /\ queries' = [q \in Queries |-> IF Running(queries[q]) THEN [queries[q] EXCEPT !.gone = @ \cup {p}]
                                       ELSE queries[q]]
  BY DEF UnregisterProject
<1>2. registered' \subseteq Registrable /\ spaces' \in [Registrable -> SUBSET Spaces]
  BY <1>1 DEF QueriesInv
<1>3. ASSUME NEW q \in Queries
      PROVE  /\ queries'[q] \in QueryCalls /\ QueryHolds(queries[q])'
             /\ ReadTheSame(queries[q], queries'[q])
  <2>1. PICK c : c = queries[q] OBVIOUS
  <2>2. QueryHolds(c) /\ c \in QueryCalls /\ ~(Running(c) /\ LockKept(c.kind))
    BY <1>1, <2>1, NobodyReadsLocked DEF QueriesInv, QueryHolds
  <2>3. PICK d : d = queries'[q] OBVIOUS
  <2>4. d = IF Running(c) THEN [c EXCEPT !.gone = c.gone \cup {p}] ELSE c BY <1>1, <2>1, <2>3
  <2>5. /\ d \in QueryCalls /\ ReadTheSame(c, d)
        /\ Running(c) => d.gone = c.gone \cup {p}
        /\ ~Running(c) => d.gone = c.gone
    <3>1. CASE Running(c)
      <4>1. d = [c EXCEPT !.gone = c.gone \cup {p}] BY <2>4, <3>1
      <4>2. c.gone \cup {p} \subseteq Registrable BY <2>2 DEF QueryCalls
      <4>3. d \in QueryCalls BY <2>2, <4>1, <4>2 DEF QueryCalls
      <4>4. d.gone = c.gone \cup {p} /\ ReadTheSame(c, d) BY <2>2, <4>1 DEF QueryCalls, ReadTheSame
      <4> QED BY <3>1, <4>3, <4>4
    <3>2. CASE ~Running(c) BY <2>2, <2>4, <3>2 DEF ReadTheSame
    <3> QED BY <3>1, <3>2
  <2>6. RegistryCall(d)'
    BY <1>1, <2>2, <2>5 DEF QueryHolds, RegistryCall, Running, ReadTheSame
  <2>7. QueryHolds(d)' BY <1>1, <2>2, <2>5, <2>6, CallTheSame
  <2> QED BY <2>1, <2>3, <2>5, <2>7
<1>4. AllTablesTell' BY <1>1 DEF QueriesInv, AllTablesTell
<1>5. queries' \in [Queries -> QueryCalls]
  <2>1. queries' = [q \in Queries |-> queries'[q]] BY <1>1
  <2> QED BY <1>3, <2>1
<1>6. \A q \in Queries : Running(queries'[q]) /\ LockKept(queries'[q].kind) => lockedBy' = q
  BY <1>1, <1>3 DEF QueriesInv, Running, ReadTheSame
<1> QED BY <1>2, <1>3, <1>4, <1>5, <1>6 DEF QueriesInv, Running

LEMMA OthersKeep == ASSUME QueriesInv, Others PROVE QueriesInv'
<1>1. AllTablesTell BY DEF QueriesInv
<1>2. ASSUME NEW p \in Registrable, NEW w, HydrationChanges(p, w) PROVE QueriesInv'
  <2>1. UNCHANGED <<registered, spaces, tables, lockedBy, queries>> BY <1>2 DEF HydrationChanges
  <2>2. ASSUME NEW q \in Queries PROVE QueryHolds(queries[q])'
    <3>1. PICK c : c = queries[q] OBVIOUS
    <3>2. QueryHolds(c) /\ ReadTheSame(c, c) /\ c \in QueryCalls BY <3>1 DEF QueriesInv, QueryHolds, ReadTheSame
    <3>3. RegistryCall(c)' BY <2>1, <3>2 DEF QueryHolds, RegistryCall, Running, EntriesOf, ShownEntries
    <3>4. QueryHolds(c)' BY <2>1, <3>2, <3>3, CallTheSame
    <3> QED BY <2>1, <3>1, <3>4
  <2> QED BY <2>1, <2>2 DEF QueriesInv, AllTablesTell, Running
<1> QED BY <1>1, <1>2, WorkspaceRegistered, ProjectUnregistered, HandoffAddedMoves, HandoffGoesOnMoves,
           SnapshotsMove, TablesMoveKeeps
        DEF Others

(* What a query does itself                                                *)
LEMMA QueryGoesOn ==
    ASSUME QueriesInv, NEW q \in Queries, NEW d, QueryHolds(d), queries' = [queries EXCEPT ![q] = d],
           UNCHANGED <<registered, spaces, tables>>,
           Running(d) /\ LockKept(d.kind) => lockedBy' = q,
           \A o \in Queries \ {q} : lockedBy = o => lockedBy' = o
    PROVE  QueriesInv'
<1>1. d \in QueryCalls BY DEF QueryHolds
<1>2. /\ queries' \in [Queries -> QueryCalls] /\ queries'[q] = d
      /\ \A o \in Queries \ {q} : queries'[o] = queries[o]
  BY <1>1 DEF QueriesInv
<1>3. ASSUME NEW c, QueryHolds(c) PROVE QueryHolds(c)'
  <2>1. ReadTheSame(c, c) /\ c \in QueryCalls BY <1>3 DEF QueryHolds, ReadTheSame
  <2>2. RegistryCall(c)' BY <1>3 DEF QueryHolds, RegistryCall, Running, EntriesOf, ShownEntries
  <2> QED BY <1>3, <2>1, <2>2, CallTheSame
<1>4. ASSUME NEW o \in Queries PROVE QueryHolds(queries[o])'
  <2>1. PICK c : c = queries'[o] OBVIOUS
  <2>2. QueryHolds(c)
    <3>1. CASE o = q BY <1>2, <2>1, <3>1
    <3>2. CASE o # q BY <1>2, <2>1, <3>2 DEF QueriesInv
    <3> QED BY <3>1, <3>2
  <2>3. QueryHolds(c)' BY <1>3, <2>2
  <2> QED BY <2>1, <2>3
<1>5. ASSUME NEW o \in Queries, Running(queries'[o]), LockKept(queries'[o].kind) PROVE lockedBy' = o
  <2>1. CASE o = q BY <1>2, <1>5, <2>1
  <2>2. CASE o # q BY <1>2, <1>5, <2>2 DEF QueriesInv
  <2> QED BY <2>1, <2>2
<1> QED BY <1>2, <1>4, <1>5 DEF QueriesInv, AllTablesTell, Running

(* A query that reads leaves the lock where it is, and one that ends       *)
(* gives it back.                                                          *)
LEMMA ReadGoesOn ==
    ASSUME QueriesInv, NEW q \in Queries, NEW d, QueryHolds(d), d.kind = queries[q].kind, Running(queries[q]),
           Reads(q, d)
    PROVE  QueriesInv'
<1>1. /\ queries' = [queries EXCEPT ![q] = d] /\ UNCHANGED <<registered, spaces, tables, lockedBy>> BY DEF Reads
<1>2. Running(d) /\ LockKept(d.kind) => lockedBy' = q BY <1>1 DEF QueriesInv
<1> QED BY <1>1, <1>2, QueryGoesOn

LEMMA EndGoesOn ==
    ASSUME QueriesInv, NEW q \in Queries, NEW d, QueryHolds(d), ~Running(d), QueryEnds(q, d)
    PROVE  QueriesInv'
<1>1. /\ queries' = [queries EXCEPT ![q] = d] /\ UNCHANGED <<registered, spaces, tables>>
      /\ lockedBy' = IF lockedBy = q THEN Nobody ELSE lockedBy
  BY DEF QueryEnds
<1> QED BY <1>1, QueryGoesOn

LEMMA WhatIsRead ==
    ASSUME NEW kind, NEW wanted, NEW narrow
    PROVE  /\ kind = "registry" => ToRead(kind, wanted, narrow) = {}
           /\ kind = "environment" => ToRead(kind, wanted, narrow) = UNION {EntriesOf(p, narrow) : p \in wanted}
           /\ kind \notin {"registry", "environment"} => ToRead(kind, wanted, narrow) = wanted
           /\ kind # "registry" => RegistryPage(kind, wanted) = {}
BY DEF ToRead, RegistryPage

LEMMA AskKeeps ==
    ASSUME QueriesInv, NEW q \in Queries, NEW kind \in QueryKinds, NEW project \in Registrable \cup {Every},
           NEW told \in BOOLEAN, NEW narrow \in {Every} \cup StoredSessions \cup Spaces,
           NEW limit \in {Every} \cup PageLimits,
           kind \notin {"environment", "snapshots"} => narrow = Every,
           Ask(q, kind, project, told, narrow, limit)
    PROVE  QueriesInv'
<1>1. PICK wanted, todo, read : /\ wanted = ProjectsFor(project) /\ todo = ToRead(kind, wanted, narrow)
                                /\ read = RegistryPage(kind, wanted)
  OBVIOUS
<1>2. PICK d : d = [NotAskedYet EXCEPT !.kind = kind, !.wanted = wanted, !.journals = told,
                              !.narrow = narrow, !.limit = limit, !.asked = tables, !.pc = "next",
                              !.todo = todo, !.page = read]
  OBVIOUS
<1>3. /\ lockedBy = Nobody /\ Known(kind, project) /\ queries' = [queries EXCEPT ![q] = d]
      /\ lockedBy' = IF LockKept(kind) THEN q ELSE Nobody
      /\ UNCHANGED <<registered, spaces, tables>>
  BY <1>1, <1>2 DEF Ask
<1>4. wanted \subseteq Registrable /\ (AsksFirst(kind) => wanted \subseteq registered)
  BY <1>1, <1>3 DEF ProjectsFor, Known, QueriesInv
<1>5. todo \subseteq Registrable \cup EntryPlaces
  <2>1. CASE kind = "environment"
    <3>1. \A p \in Registrable : EntriesOf(p, narrow) \subseteq EntryPlaces
      BY DEF EntriesOf, EntryPlaces, QueriesInv
    <3> QED BY <1>1, <1>4, <2>1, <3>1, WhatIsRead
  <2>2. CASE kind # "environment" BY <1>1, <1>4, <2>2, WhatIsRead
  <2> QED BY <2>1, <2>2
<1>6. read \subseteq RegistryRows BY <1>1, <1>4 DEF RegistryPage, RegistryRows, QueriesInv
<1>7. d = [kind |-> kind, wanted |-> wanted, journals |-> told, narrow |-> narrow, limit |-> limit,
           pc |-> "next", todo |-> todo, opened |-> Every, unread |-> <<>>, page |-> read,
           asked |-> tables, gone |-> {}]
  BY <1>2 DEF NotAskedYet
<1>8. tables \in [Registrable -> ProjectTables] BY DEF QueriesInv, AllTablesTell
<1>9. /\ d.kind = kind /\ d.wanted = wanted /\ d.narrow = narrow /\ d.pc = "next" /\ d.todo = todo
      /\ d.page = read /\ d.asked = tables /\ d.gone = {} /\ d.journals = told
  BY <1>7
<1>10. d \in QueryCalls BY <1>4, <1>5, <1>6, <1>7, <1>8 DEF QueryCalls
<1>11. AskedHolds(d) BY <1>8, <1>9, TablesFollowItself DEF AskedHolds, QueriesInv, AllTablesTell
<1>12. PlaceHolds(d) BY <1>1, <1>9, WhatIsRead DEF PlaceHolds, OnItsWay
<1>13. HandoffCall(d) /\ LeaseCall(d) /\ SnapshotCall(d)
  <2>1. d.kind \notin {"registry", "environment"} => d.page = {} /\ d.todo = d.wanted
    BY <1>1, <1>9, WhatIsRead
  <2>2. d.kind = "handoffs" => d.page = {} /\ d.todo = d.wanted BY <2>1
  <2>3. d.kind = "leases" => d.page = {} /\ d.todo = d.wanted BY <2>1
  <2>4. d.kind \in {"snapshots", "recoverable", "store"} => d.page = {} /\ d.todo = d.wanted BY <2>1
  <2>5. d.kind \in {"snapshots", "recoverable", "store"} /\ d.kind # "snapshots" => d.narrow = Every BY <1>9
  <2>6. HandoffCall(d) BY <1>9, <2>2 DEF HandoffCall, ToOpen
  <2>7. LeaseCall(d) BY <2>3 DEF LeaseCall, ToOpen
  <2>8. SnapshotCall(d) BY <2>4, <2>5 DEF SnapshotCall, ToOpen
  <2> QED BY <2>6, <2>7, <2>8
<1>14. RegistryCall(d)
  <2>1. LockKept(kind) => AsksFirst(kind) BY DEF LockKept, AsksFirst
  <2>2. kind = "environment" => d.todo \cup ShownEntries(d) = UNION {EntriesOf(p, d.narrow) : p \in d.wanted}
    BY <1>1, <1>9, WhatIsRead DEF ShownEntries
  <2> QED BY <1>4, <1>9, <2>1, <2>2 DEF RegistryCall
<1>15. QueryHolds(d) BY <1>10, <1>11, <1>12, <1>13, <1>14 DEF QueryHolds
<1>16. Running(d) /\ LockKept(d.kind) => lockedBy' = q BY <1>3, <1>9
<1>17. \A o \in Queries \ {q} : lockedBy = o => lockedBy' = o BY <1>3, QueriesAssumption DEF Nobody
<1> QED BY <1>3, <1>15, <1>16, <1>17, QueryGoesOn

LEMMA AsksKeep == ASSUME QueriesInv, NEW q \in Queries, Asks(q) PROVE QueriesInv'
<1>1. PICK p \in Registrable, everywhere \in BOOLEAN :
         LET project == IF everywhere THEN Every ELSE p IN
         \/ \E kind \in {"leases", "registry", "recoverable"} : Ask(q, kind, project, FALSE, Every, Every)
         \/ \E told \in BOOLEAN : Ask(q, "handoffs", project, told, Every, Every)
         \/ \E w \in Spaces \cup {Every} : Ask(q, "environment", project, FALSE, w, Every)
         \/ Ask(q, "store", p, FALSE, Every, Every)
         \/ \E session \in StoredSessions \cup {Every}, limit \in PageLimits \cup {Every} :
               Ask(q, "snapshots", p, FALSE, session, limit)
  BY DEF Asks
<1>2. PICK project : project = IF everywhere THEN Every ELSE p OBVIOUS
<1>3. project \in Registrable \cup {Every} /\ p \in Registrable \cup {Every} BY <1>2
<1>4. {"leases", "registry", "recoverable", "handoffs", "environment", "store", "snapshots"} \subseteq QueryKinds
  BY DEF QueryKinds
<1>5. ASSUME NEW kind \in {"leases", "registry", "recoverable"}, Ask(q, kind, project, FALSE, Every, Every)
      PROVE  QueriesInv'
  <2>1. kind \in QueryKinds BY <1>4
  <2> QED BY <1>3, <1>5, <2>1, AskKeeps
<1>6. ASSUME NEW told \in BOOLEAN, Ask(q, "handoffs", project, told, Every, Every)
      PROVE  QueriesInv'
  <2>1. "handoffs" \in QueryKinds BY <1>4
  <2> QED BY <1>3, <1>6, <2>1, AskKeeps
<1>7. ASSUME NEW w \in Spaces \cup {Every}, Ask(q, "environment", project, FALSE, w, Every)
      PROVE  QueriesInv'
  <2>1. "environment" \in QueryKinds BY <1>4
  <2> QED BY <1>3, <1>7, <2>1, AskKeeps
<1>8. ASSUME Ask(q, "store", p, FALSE, Every, Every) PROVE QueriesInv'
  <2>1. "store" \in QueryKinds BY <1>4
  <2> QED BY <1>3, <1>8, <2>1, AskKeeps
<1>9. ASSUME NEW session \in StoredSessions \cup {Every}, NEW limit \in PageLimits \cup {Every},
             Ask(q, "snapshots", p, FALSE, session, limit)
      PROVE  QueriesInv'
  <2>1. "snapshots" \in QueryKinds BY <1>4
  <2> QED BY <1>3, <1>9, <2>1, AskKeeps
<1> QED BY <1>1, <1>2, <1>5, <1>6, <1>7, <1>8, <1>9

LEMMA OpensKeep ==
    ASSUME QueriesInv, NEW q \in Queries, NEW p \in Registrable, OpenNext(q, p) \/ RefuseNext(q, p)
    PROVE  QueriesInv'
<1>1. PICK c : c = queries[q] OBVIOUS
<1>2. QueryHolds(c) /\ c \in QueryCalls BY <1>1 DEF QueriesInv, QueryHolds
<1>3. c.pc = "next" /\ c.kind # "environment" /\ p \in c.todo /\ Running(c) /\ OnItsWay(c)
  BY <1>1 DEF OpenNext, RefuseNext, Opens, Running, OnItsWay
<1>4. p \in c.wanted /\ c.todo \subseteq c.wanted BY <1>2, <1>3 DEF QueryHolds, PlaceHolds
<1>5. ASSUME OpenNext(q, p) PROVE QueriesInv'
  <2>1. PICK d : d = [c EXCEPT !.pc = "opened", !.todo = c.todo \ {p}, !.opened = p] OBVIOUS
  <2>2. Reads(q, d) BY <1>1, <1>5, <2>1 DEF OpenNext
  <2>3. d \in QueryCalls BY <1>2, <2>1 DEF QueryCalls
  <2>4. /\ d.kind = c.kind /\ d.wanted = c.wanted /\ d.journals = c.journals /\ d.narrow = c.narrow
        /\ d.limit = c.limit /\ d.page = c.page /\ d.asked = c.asked /\ d.gone = c.gone
        /\ d.pc = "opened" /\ d.todo = c.todo \ {p} /\ d.opened = p
    BY <1>2, <2>1 DEF QueryCalls
  <2>5. PlaceHolds(d) /\ AskedHolds(d)
    BY <1>2, <1>3, <1>4, <2>4 DEF QueryHolds, PlaceHolds, AskedHolds, OnItsWay
  <2>6. \A r : ToOpen(c, r) <=> ToOpen(d, r) BY <1>3, <2>4 DEF ToOpen
  <2>7. HandoffCall(d)
    <3> SUFFICES ASSUME c.kind = "handoffs" PROVE HandoffCall(d) BY <2>4 DEF HandoffCall
    <3>1. \A row \in c.page : RowHolds(c, row) /\ JournalHolds(c, row) BY <1>2, <1>3 DEF QueryHolds, HandoffCall
    <3>2. \A row \in d.page : RowHolds(d, row) /\ JournalHolds(d, row)
      BY <2>4, <3>1, RowsOfTheSame
    <3>3. \A r \in d.wanted : \A n \in 1 .. Len(d.asked[r].handoffs) : ToOpen(d, r) \/ ShownRow(d, r, n)
      BY <1>2, <1>3, <2>4, <2>6 DEF QueryHolds, HandoffCall, ShownRow, UnreadRow
    <3> QED BY <2>4, <3>2, <3>3 DEF HandoffCall
  <2>8. LeaseCall(d) BY <1>2, <1>3, <2>4, <2>6 DEF QueryHolds, LeaseCall
  <2>9. SnapshotCall(d)
    <3>1. \A r : PageHolds(c, r) => PageHolds(d, r)
      <4>1. \A r : ShownOf(c, r) = ShownOf(d, r) /\ StillThere(c, r) = StillThere(d, r)
        BY <2>4 DEF ShownOf, StillThere
      <4> QED BY <2>4, <4>1 DEF PageHolds
    <3> QED BY <1>2, <1>3, <2>4, <2>6, <3>1 DEF QueryHolds, SnapshotCall
  <2>10. RegistryCall(d) BY <1>2, <1>3, <2>4 DEF QueryHolds, RegistryCall, Running
  <2>11. QueryHolds(d) BY <2>3, <2>5, <2>7, <2>8, <2>9, <2>10 DEF QueryHolds
  <2> QED BY <1>1, <1>3, <2>2, <2>4, <2>11, ReadGoesOn
<1>6. ASSUME RefuseNext(q, p) PROVE QueriesInv'
  <2>1. PICK d : d = [c EXCEPT !.pc = "refused", !.opened = p] OBVIOUS
  <2>2. QueryEnds(q, d) /\ p \notin registered BY <1>1, <1>6, <2>1 DEF RefuseNext
  <2>3. d \in QueryCalls BY <1>2, <2>1 DEF QueryCalls
  <2>4. /\ d.kind = c.kind /\ d.wanted = c.wanted /\ d.asked = c.asked /\ d.gone = c.gone
        /\ d.pc = "refused" /\ d.opened = p
    BY <1>2, <2>1 DEF QueryCalls
  <2>5. PlaceHolds(d) /\ HandoffCall(d) /\ LeaseCall(d) /\ SnapshotCall(d)
    BY <2>4 DEF PlaceHolds, HandoffCall, LeaseCall, SnapshotCall, OnItsWay
  <2>6. AskedHolds(d) BY <1>2, <1>3, <2>4 DEF QueryHolds, AskedHolds
  <2>7. RegistryCall(d)
    BY <1>2, <1>3, <1>4, <2>2, <2>4 DEF QueryHolds, RegistryCall, Running
  <2>8. QueryHolds(d) BY <2>3, <2>5, <2>6, <2>7 DEF QueryHolds
  <2>9. ~Running(d) BY <2>4 DEF Running
  <2> QED BY <2>2, <2>8, <2>9, EndGoesOn
<1> QED BY <1>5, <1>6

LEMMA QueryEndsKeeps ==
    ASSUME QueriesInv, NEW q \in Queries, QueryFails(q) \/ Answers(q)
    PROVE  QueriesInv'
<1>1. PICK c : c = queries[q] OBVIOUS
<1>2. QueryHolds(c) /\ c \in QueryCalls BY <1>1 DEF QueriesInv, QueryHolds
<1>3. Running(c) BY <1>1 DEF QueryFails, Answers, Running
<1>4. ASSUME QueryFails(q) PROVE QueriesInv'
  <2>1. PICK d : d = [c EXCEPT !.pc = "error"] OBVIOUS
  <2>2. QueryEnds(q, d) BY <1>1, <1>4, <2>1 DEF QueryFails
  <2>3. d \in QueryCalls BY <1>2, <2>1 DEF QueryCalls
  <2>4. d.asked = c.asked /\ d.pc = "error" BY <1>2, <2>1 DEF QueryCalls
  <2>5. PlaceHolds(d) /\ HandoffCall(d) /\ LeaseCall(d) /\ SnapshotCall(d) /\ RegistryCall(d) /\ ~Running(d)
    BY <2>4 DEF PlaceHolds, HandoffCall, LeaseCall, SnapshotCall, RegistryCall, OnItsWay, Running
  <2>6. AskedHolds(d) BY <1>2, <1>3, <2>4 DEF QueryHolds, AskedHolds, Running
  <2>7. QueryHolds(d) BY <2>3, <2>5, <2>6 DEF QueryHolds
  <2> QED BY <2>2, <2>5, <2>7, EndGoesOn
<1>5. ASSUME Answers(q) PROVE QueriesInv'
  <2>1. PICK d : d = [c EXCEPT !.pc = "answered"] OBVIOUS
  <2>2. QueryEnds(q, d) /\ c.pc = "next" /\ c.todo = {} BY <1>1, <1>5, <2>1 DEF Answers
  <2>3. d \in QueryCalls BY <1>2, <2>1 DEF QueryCalls
  <2>4. /\ d.kind = c.kind /\ d.wanted = c.wanted /\ d.journals = c.journals /\ d.narrow = c.narrow
        /\ d.limit = c.limit /\ d.page = c.page /\ d.asked = c.asked /\ d.pc = "answered" /\ d.todo = {}
    BY <1>2, <2>1, <2>2 DEF QueryCalls
  <2>5. OnItsWay(c) /\ c.pc # "idle" BY <2>2 DEF OnItsWay
  <2>6. PlaceHolds(d) /\ AskedHolds(d) BY <1>2, <2>4, <2>5 DEF QueryHolds, PlaceHolds, AskedHolds
  <2>7. \A r : ~ToOpen(c, r) /\ ~ToOpen(d, r) BY <2>2, <2>4 DEF ToOpen
  <2>8. HandoffCall(d)
    <3> SUFFICES ASSUME c.kind = "handoffs" PROVE HandoffCall(d) BY <2>4 DEF HandoffCall
    <3>1. \A row \in c.page : RowHolds(c, row) /\ JournalHolds(c, row) BY <1>2, <2>5 DEF QueryHolds, HandoffCall
    <3>2. \A row \in d.page : RowHolds(d, row) /\ JournalHolds(d, row)
      BY <2>4, <3>1, RowsOfTheSame
    <3>3. \A r \in d.wanted : \A n \in 1 .. Len(d.asked[r].handoffs) : ShownRow(d, r, n)
      BY <1>2, <2>2, <2>4, <2>5, <2>7 DEF QueryHolds, HandoffCall, ShownRow, UnreadRow
    <3> QED BY <2>4, <3>2, <3>3 DEF HandoffCall
  <2>9. LeaseCall(d) BY <1>2, <2>4, <2>5, <2>7 DEF QueryHolds, LeaseCall
  <2>10. SnapshotCall(d)
    <3>1. \A r : PageHolds(c, r) => PageHolds(d, r)
      <4>1. \A r : ShownOf(c, r) = ShownOf(d, r) /\ StillThere(c, r) = StillThere(d, r)
        BY <2>4 DEF ShownOf, StillThere
      <4> QED BY <2>4, <4>1 DEF PageHolds
    <3> QED BY <1>2, <2>4, <2>5, <2>7, <3>1 DEF QueryHolds, SnapshotCall
  <2>11. RegistryCall(d) /\ ~Running(d) BY <2>4 DEF RegistryCall, Running
  <2>12. QueryHolds(d) BY <2>3, <2>6, <2>8, <2>9, <2>10, <2>11 DEF QueryHolds
  <2> QED BY <2>2, <2>11, <2>12, EndGoesOn
<1> QED BY <1>4, <1>5

LEMMA LeaseReadKeeps ==
    ASSUME QueriesInv, NEW q \in Queries, ReadLeaseEpochs(q)
    PROVE  QueriesInv'
<1>1. PICK c : c = queries[q] OBVIOUS
<1>2. QueryHolds(c) /\ c \in QueryCalls BY <1>1 DEF QueriesInv, QueryHolds
<1>3. c.pc = "opened" /\ c.kind = "leases" /\ Running(c) /\ OnItsWay(c)
  BY <1>1 DEF ReadLeaseEpochs, Running, OnItsWay
<1>4. c.opened \in c.wanted /\ c.opened \notin c.todo /\ c.wanted \subseteq Registrable
  BY <1>2, <1>3 DEF QueryHolds, PlaceHolds, QueryCalls
<1>5. PICK e : e = [project |-> c.opened, epoch |-> tables[c.opened].epoch] OBVIOUS
<1>6. e \in LeaseRows /\ e.project = c.opened /\ e.epoch = tables[c.opened].epoch
  BY <1>4, <1>5 DEF LeaseRows, QueriesInv, AllTablesTell, ProjectTables
<1>7. PICK d : d = [c EXCEPT !.pc = "next", !.page = c.page \cup {e}] OBVIOUS
<1>8. Reads(q, d) BY <1>1, <1>5, <1>7 DEF ReadLeaseEpochs, ShowsAlso, Rows
<1>9. d \in QueryCalls BY <1>2, <1>6, <1>7 DEF QueryCalls
<1>10. /\ d.kind = c.kind /\ d.wanted = c.wanted /\ d.todo = c.todo /\ d.asked = c.asked /\ d.gone = c.gone
       /\ d.pc = "next" /\ d.page = c.page \cup {e}
  BY <1>2, <1>7 DEF QueryCalls
<1>11. PlaceHolds(d) /\ AskedHolds(d) /\ HandoffCall(d) /\ SnapshotCall(d) /\ RegistryCall(d)
  BY <1>2, <1>3, <1>10 DEF QueryHolds, PlaceHolds, AskedHolds, HandoffCall, SnapshotCall, RegistryCall,
                           OnItsWay, Running, LockKept
<1>12. LeaseCall(d)
  <2>1. ASSUME NEW row \in d.page
        PROVE  /\ row \in LeaseRows /\ row.project \in c.wanted
               /\ c.asked[row.project].epoch <= row.epoch /\ row.epoch <= tables[row.project].epoch
    <3>1. CASE row \in c.page BY <1>2, <1>3, <3>1 DEF QueryHolds, LeaseCall
    <3>2. CASE row = e
      <4>1. c.asked[c.opened].epoch <= tables[c.opened].epoch
        BY <1>2, <1>3, <1>4 DEF QueryHolds, AskedHolds, TablesFollow
      <4>2. PICK k : k = tables[c.opened].epoch OBVIOUS
      <4>3. k \in Nat BY <1>4, <4>2 DEF QueriesInv, AllTablesTell, ProjectTables
      <4>4. k <= k BY <4>3
      <4> QED BY <1>4, <1>6, <3>2, <4>1, <4>2, <4>4
    <3> QED BY <1>10, <3>1, <3>2
  <2>2. ASSUME NEW p \in c.wanted PROVE p \in d.todo \/ \E row \in d.page : row.project = p
    BY <1>2, <1>3, <1>6, <1>10 DEF QueryHolds, LeaseCall, ToOpen
  <2> QED BY <1>10, <2>1, <2>2 DEF LeaseCall, ToOpen
<1>13. QueryHolds(d) BY <1>9, <1>11, <1>12 DEF QueryHolds
<1> QED BY <1>1, <1>3, <1>8, <1>10, <1>13, ReadGoesOn

(* The rows of one database, with no journal yet.                          *)
UnreadOf(c, f) ==
    [n \in DOMAIN f |-> [project |-> c.opened, number |-> n, state |-> f[n].state, journal |-> <<>>]]
RowsRead(c, f, u) ==
    /\ u \in Seq(HandoffRows) /\ Len(u) = Len(f) /\ Len(f) \in Nat
    /\ Len(c.asked[c.opened].handoffs) \in Nat /\ Len(c.asked[c.opened].handoffs) <= Len(f)
    /\ \A n \in 1 .. Len(u) : /\ u[n].project = c.opened /\ u[n].number = n /\ u[n].journal = <<>>
                              /\ RowHolds(c, u[n])

LEMMA HandoffRowsRead ==
    ASSUME QueriesInv, NEW c, QueryHolds(c), c.pc = "opened", NEW f, f = tables[c.opened].handoffs,
           NEW u, u = UnreadOf(c, f)
    PROVE  RowsRead(c, f, u)
<1>1. c.opened \in Registrable BY DEF QueryHolds, PlaceHolds, QueryCalls
<1>2. TablesTell(tables[c.opened]) /\ f \in Seq(HandoffRecords)
  BY <1>1 DEF QueriesInv, AllTablesTell, ProjectTables
<1>3. TablesFollow(c.asked[c.opened], tables[c.opened]) BY <1>1 DEF QueryHolds, AskedHolds
<1>4. PICK g : g = c.asked[c.opened].handoffs OBVIOUS
<1>5. g \in Seq(HandoffRecords) /\ HandoffsFollow(g, f)
  BY <1>1, <1>3, <1>4 DEF QueryHolds, AskedHolds, ProjectTables, TablesFollow
<1>6. DOMAIN f = 1 .. Len(f) /\ Len(f) \in Nat BY <1>2
<1>7. ASSUME NEW n \in 1 .. Len(f)
      PROVE  /\ u[n] = [project |-> c.opened, number |-> n, state |-> f[n].state, journal |-> <<>>]
             /\ u[n] \in HandoffRows
  <2>1. u[n] = [project |-> c.opened, number |-> n, state |-> f[n].state, journal |-> <<>>]
    BY <1>6 DEF UnreadOf
  <2>2. PICK h : h = f[n] OBVIOUS
  <2>3. h \in HandoffRecords BY <1>2, <2>2
  <2>4. h.state \in HandoffStates BY <2>3 DEF HandoffRecords
  <2> QED BY <1>1, <2>1, <2>2, <2>4 DEF HandoffRows
<1>8. u \in Seq(HandoffRows) /\ Len(u) = Len(f)
  <2>1. PICK m : m = Len(f) OBVIOUS
  <2>2. m \in Nat /\ DOMAIN u = 1 .. m BY <1>6, <2>1 DEF UnreadOf
  <2>3. u \in [1 .. m -> HandoffRows] BY <1>6, <1>7, <2>1, <2>2 DEF UnreadOf
  <2>4. u \in Seq(HandoffRows) BY <2>2, <2>3
  <2>5. Len(u) = m BY <2>2, <2>4
  <2> QED BY <2>1, <2>4, <2>5
<1>9. ASSUME NEW n \in 1 .. Len(f)
      PROVE  u[n].project = c.opened /\ u[n].number = n /\ u[n].journal = <<>> /\ RowHolds(c, u[n])
  <2>1. PICK row : row = u[n] OBVIOUS
  <2>2. PICK h : h = f[n] OBVIOUS
  <2>7. row = [project |-> c.opened, number |-> n, state |-> h.state, journal |-> <<>>] /\ row \in HandoffRows
    BY <1>7, <2>1, <2>2
  <2>3. row.project = c.opened /\ row.number = n /\ row.journal = <<>> /\ row.state = h.state /\ row \in HandoffRows
    BY <2>7
  <2>4. HandoffTells(h) BY <1>2, <2>2 DEF TablesTell
  <2>5. n \in 1 .. Len(g) /\ g[n].state \in EndedStates => h.state = g[n].state
    BY <1>5, <2>2 DEF HandoffsFollow, HandoffFollows
  <2>6. RowHolds(c, row) BY <1>4, <2>2, <2>3, <2>4, <2>5 DEF RowHolds, HandoffTells
  <2> QED BY <2>1, <2>3, <2>6
<1>10. PICK m : m = Len(g) OBVIOUS
<1>11. m \in Nat /\ m <= Len(f) BY <1>5, <1>10 DEF HandoffsFollow
<1>12. Len(c.asked[c.opened].handoffs) \in Nat /\ Len(c.asked[c.opened].handoffs) <= Len(f)
  BY <1>4, <1>10, <1>11
<1> QED BY <1>6, <1>8, <1>9, <1>12 DEF RowsRead

LEMMA HandoffsReadKeep ==
    ASSUME QueriesInv, NEW q \in Queries, ReadHandoffs(q)
    PROVE  QueriesInv'
<1>1. PICK c : c = queries[q] OBVIOUS
<1>2. QueryHolds(c) /\ c \in QueryCalls BY <1>1 DEF QueriesInv, QueryHolds
<1>3. c.pc = "opened" /\ c.kind = "handoffs" /\ Running(c) /\ OnItsWay(c)
  BY <1>1 DEF ReadHandoffs, Running, OnItsWay
<1>4. PICK f : f = tables[c.opened].handoffs OBVIOUS
<1>5. PICK u : u = UnreadOf(c, f) OBVIOUS
<1>6. /\ u \in Seq(HandoffRows) /\ Len(u) = Len(f) /\ Len(f) \in Nat
      /\ Len(c.asked[c.opened].handoffs) \in Nat /\ Len(c.asked[c.opened].handoffs) <= Len(f)
      /\ \A n \in 1 .. Len(u) : /\ u[n].project = c.opened /\ u[n].number = n /\ u[n].journal = <<>>
                                /\ RowHolds(c, u[n])
  <2>1. RowsRead(c, f, u) BY <1>2, <1>3, <1>4, <1>5, HandoffRowsRead
  <2> QED BY <2>1 DEF RowsRead
<1>7. PICK d : d = [c EXCEPT !.pc = "journals", !.unread = u] OBVIOUS
<1>8. Reads(q, d) BY <1>1, <1>4, <1>5, <1>7 DEF ReadHandoffs, Rows, UnreadOf
<1>9. d \in QueryCalls BY <1>2, <1>6, <1>7 DEF QueryCalls
<1>10. /\ d.kind = c.kind /\ d.wanted = c.wanted /\ d.todo = c.todo /\ d.asked = c.asked /\ d.gone = c.gone
       /\ d.pc = "journals" /\ d.page = c.page /\ d.unread = u /\ d.opened = c.opened /\ d.journals = c.journals
  BY <1>2, <1>7 DEF QueryCalls
<1>11. PlaceHolds(d) /\ AskedHolds(d) /\ LeaseCall(d) /\ SnapshotCall(d) /\ RegistryCall(d)
  BY <1>2, <1>3, <1>10 DEF QueryHolds, PlaceHolds, AskedHolds, LeaseCall, SnapshotCall, RegistryCall,
                           OnItsWay, Running, LockKept
<1>12. HandoffCall(d)
  <2>1. ASSUME NEW row \in d.page PROVE RowHolds(d, row) /\ JournalHolds(d, row)
    <3>1. RowHolds(c, row) /\ JournalHolds(c, row) BY <1>2, <1>3, <1>10 DEF QueryHolds, HandoffCall
    <3> QED BY <1>10, <3>1, RowsOfTheSame
  <2>2. ASSUME NEW i \in 1 .. Len(u) PROVE RowHolds(d, u[i]) /\ u[i].journal = <<>>
    BY <1>6, <1>10, RowsOfTheSame
  <2>3. ASSUME NEW p \in c.wanted, NEW n \in 1 .. Len(c.asked[p].handoffs)
        PROVE  ToOpen(d, p) \/ ShownRow(d, p, n) \/ UnreadRow(d, p, n)
    <3>1. CASE p = c.opened
      <4>1. n \in 1 .. Len(u)
        <5>1. PICK m : m = Len(c.asked[c.opened].handoffs) OBVIOUS
        <5>2. m <= Len(u) /\ n \in 1 .. m /\ m \in Nat /\ Len(u) \in Nat BY <1>6, <3>1, <5>1
        <5> QED BY <5>2
      <4>2. u[n].project = p /\ u[n].number = n BY <1>6, <3>1, <4>1
      <4>3. d.pc = "journals" /\ d.unread = u BY <1>10
      <4>4. UnreadRow(d, p, n) BY <4>1, <4>2, <4>3 DEF UnreadRow
      <4> QED BY <4>4
    <3>2. CASE p # c.opened
      BY <1>2, <1>3, <1>10, <3>2 DEF QueryHolds, HandoffCall, ToOpen, ShownRow, UnreadRow
    <3> QED BY <3>1, <3>2
  <2> QED BY <1>10, <2>1, <2>2, <2>3 DEF HandoffCall
<1>13. QueryHolds(d) BY <1>9, <1>11, <1>12 DEF QueryHolds
<1> QED BY <1>1, <1>3, <1>8, <1>10, <1>13, ReadGoesOn

(* A row with the journal that is read for it.                             *)
LEMMA JournalOfRowRead ==
    ASSUME QueriesInv, NEW c, QueryHolds(c), c.pc # "idle", NEW row, RowHolds(c, row), row.journal = <<>>,
           NEW new, new = IF c.journals THEN WithJournal(row) ELSE row
    PROVE  /\ new \in HandoffRows /\ new.project = row.project /\ new.number = row.number
           /\ RowHolds(c, new) /\ JournalHolds(c, new)
<1>1. row \in HandoffRows BY DEF RowHolds
<1>2. PICK p, n, now : p = row.project /\ n = row.number /\ now = tables[p].handoffs OBVIOUS
<1>3. p \in Registrable /\ n \in Nat BY <1>1, <1>2 DEF HandoffRows
<1>4. now \in Seq(HandoffRecords) BY <1>2, <1>3 DEF QueriesInv, AllTablesTell, ProjectTables
<1>5. n \in 1 .. Len(now) BY <1>2 DEF RowHolds
<1>6. PICK h : h = now[n] OBVIOUS
<1>7. h \in HandoffRecords BY <1>4, <1>5, <1>6
<1>8. h.journal \in Seq(HandoffPhases) BY <1>7 DEF HandoffRecords
<1>9. PICK g : g = c.asked[p].handoffs OBVIOUS
<1>10. g \in Seq(HandoffRecords) /\ HandoffsFollow(g, now)
  BY <1>2, <1>3, <1>9 DEF QueryHolds, AskedHolds, ProjectTables, TablesFollow
<1>11. CASE c.journals
  <2>1. new = [row EXCEPT !.journal = h.journal] BY <1>2, <1>6, <1>11 DEF WithJournal
  <2>2. /\ new \in HandoffRows /\ new.project = p /\ new.number = n /\ new.journal = h.journal
        /\ new.state = row.state
    BY <1>1, <1>2, <1>8, <2>1 DEF HandoffRows
  <2>3. RowHolds(c, new) BY <1>2, <2>2 DEF RowHolds
  <2>4. Begins(h.journal, h.journal) BY <1>8, BeginsItself
  <2>5. row.state # "Aborted" => PhaseOf(row.state) \in ToSet(h.journal) BY <1>2, <1>6 DEF RowHolds
  <2>6. ASSUME n \in 1 .. Len(g) PROVE Begins(g[n].journal, h.journal)
    <3>1. HandoffFollows(g[n], h) BY <1>6, <1>10, <2>6 DEF HandoffsFollow
    <3> QED BY <3>1 DEF HandoffFollows
  <2>7. JournalHolds(c, new)
    <3>1. c.asked[new.project].handoffs = g /\ tables[new.project].handoffs[new.number] = h BY <1>2, <1>6, <1>9, <2>2
    <3> QED BY <2>2, <2>4, <2>5, <2>6, <3>1 DEF JournalHolds
  <2> QED BY <1>2, <2>2, <2>3, <2>7
<1>12. CASE ~c.journals
  <2>1. new = row BY <1>12
  <2>2. Begins(<<>>, h.journal) BY <1>8 DEF Begins
  <2>3. JournalHolds(c, new) BY <1>2, <1>6, <1>12, <2>1, <2>2 DEF JournalHolds
  <2> QED BY <1>1, <2>1, <2>3
<1> QED BY <1>11, <1>12

LEMMA JournalReadKeeps ==
    ASSUME QueriesInv, NEW q \in Queries, ReadJournalOfRow(q)
    PROVE  QueriesInv'
<1>1. PICK c : c = queries[q] OBVIOUS
<1>2. QueryHolds(c) /\ c \in QueryCalls BY <1>1 DEF QueriesInv, QueryHolds
<1>3. c.pc = "journals" /\ c.unread # <<>> /\ Running(c) /\ OnItsWay(c)
  BY <1>1 DEF ReadJournalOfRow, Running, OnItsWay
<1>4. PICK u : u = c.unread OBVIOUS
<1>5. u \in Seq(HandoffRows) /\ u # <<>> BY <1>2, <1>3, <1>4 DEF QueryCalls
<1>6. PICK row, rest : row = Head(u) /\ rest = Tail(u) OBVIOUS
<1>7. /\ row \in HandoffRows /\ row = u[1] /\ rest \in Seq(HandoffRows) /\ Len(rest) = Len(u) - 1 /\ Len(u) \in Nat \ {0}
      /\ \A i \in 1 .. Len(rest) : rest[i] = u[i + 1]
  BY <1>5, <1>6
<1>8. PICK new : new = IF c.journals THEN WithJournal(row) ELSE row OBVIOUS
<1>9. PICK d : d = [c EXCEPT !.unread = rest, !.page = c.page \cup {new}] OBVIOUS
<1>10. Reads(q, d) BY <1>1, <1>4, <1>6, <1>8, <1>9 DEF ReadJournalOfRow
<1>11. /\ new \in HandoffRows /\ new.project = row.project /\ new.number = row.number
       /\ RowHolds(c, new) /\ JournalHolds(c, new) /\ c.kind = "handoffs"
  <2>1. 1 \in 1 .. Len(u) /\ c.kind = "handoffs" BY <1>2, <1>3, <1>7 DEF QueryHolds, PlaceHolds
  <2>2. RowHolds(c, row) /\ row.journal = <<>> BY <1>2, <1>3, <1>4, <1>7, <2>1 DEF QueryHolds, HandoffCall
  <2> QED BY <1>2, <1>3, <1>8, <2>1, <2>2, JournalOfRowRead
<1>12. d \in QueryCalls BY <1>2, <1>7, <1>9, <1>11 DEF QueryCalls
<1>13. /\ d.kind = c.kind /\ d.wanted = c.wanted /\ d.todo = c.todo /\ d.asked = c.asked /\ d.gone = c.gone
       /\ d.pc = c.pc /\ d.page = c.page \cup {new} /\ d.unread = rest /\ d.opened = c.opened
       /\ d.journals = c.journals
  BY <1>2, <1>9 DEF QueryCalls
<1>14. PlaceHolds(d) /\ AskedHolds(d) /\ LeaseCall(d) /\ SnapshotCall(d) /\ RegistryCall(d)
  BY <1>2, <1>3, <1>11, <1>13 DEF QueryHolds, PlaceHolds, AskedHolds, LeaseCall, SnapshotCall, RegistryCall,
                                  OnItsWay, Running, LockKept
<1>15. HandoffCall(d)
  <2>1. ASSUME NEW r \in d.page PROVE RowHolds(d, r) /\ JournalHolds(d, r)
    <3>1. RowHolds(c, r) /\ JournalHolds(c, r)
      BY <1>2, <1>3, <1>11, <1>13 DEF QueryHolds, HandoffCall
    <3> QED BY <1>13, <3>1, RowsOfTheSame
  <2>2. ASSUME NEW i \in 1 .. Len(rest) PROVE RowHolds(d, rest[i]) /\ rest[i].journal = <<>>
    <3>1. i + 1 \in 1 .. Len(u) /\ rest[i] = u[i + 1] BY <1>7
    <3>2. RowHolds(c, u[i + 1]) /\ u[i + 1].journal = <<>>
      BY <1>2, <1>3, <1>4, <1>11, <3>1 DEF QueryHolds, HandoffCall
    <3> QED BY <1>13, <3>1, <3>2, RowsOfTheSame
  <2>3. ASSUME NEW p \in c.wanted, NEW n \in 1 .. Len(c.asked[p].handoffs)
        PROVE  ToOpen(d, p) \/ ShownRow(d, p, n) \/ UnreadRow(d, p, n)
    <3>1. ToOpen(c, p) \/ ShownRow(c, p, n) \/ UnreadRow(c, p, n)
      BY <1>2, <1>3, <1>11 DEF QueryHolds, HandoffCall
    <3>2. CASE ToOpen(c, p) \/ ShownRow(c, p, n) BY <1>13, <3>2 DEF ToOpen, ShownRow
    <3>3. ASSUME NEW i \in 1 .. Len(u), u[i].project = p, u[i].number = n
          PROVE  ToOpen(d, p) \/ ShownRow(d, p, n) \/ UnreadRow(d, p, n)
      <4>1. CASE i = 1
        <5>1. new.project = p /\ new.number = n BY <1>7, <1>11, <3>3, <4>1
        <5> QED BY <1>13, <5>1 DEF ShownRow
      <4>2. CASE i # 1
        <5>1. PICK k : k = i - 1 OBVIOUS
        <5>2. k \in 1 .. Len(rest) /\ rest[k] = u[i] BY <1>7, <4>2, <5>1
        <5>3. rest[k].project = p /\ rest[k].number = n BY <3>3, <5>2
        <5> QED BY <1>3, <1>13, <5>2, <5>3 DEF UnreadRow
      <4> QED BY <4>1, <4>2
    <3>4. UnreadRow(c, p, n) => \E i \in 1 .. Len(u) : u[i].project = p /\ u[i].number = n
      BY <1>4 DEF UnreadRow
    <3> QED BY <3>1, <3>2, <3>3, <3>4
  <2> QED BY <1>13, <2>1, <2>2, <2>3 DEF HandoffCall
<1>16. QueryHolds(d) BY <1>12, <1>14, <1>15 DEF QueryHolds
<1> QED BY <1>1, <1>3, <1>10, <1>13, <1>16, ReadGoesOn

LEMMA JournalsReadKeeps ==
    ASSUME QueriesInv, NEW q \in Queries, JournalsRead(q)
    PROVE  QueriesInv'
<1>1. PICK c : c = queries[q] OBVIOUS
<1>2. QueryHolds(c) /\ c \in QueryCalls BY <1>1 DEF QueriesInv, QueryHolds
<1>3. c.pc = "journals" /\ c.unread = <<>> /\ Running(c) /\ OnItsWay(c)
  BY <1>1 DEF JournalsRead, Running, OnItsWay
<1>4. c.kind = "handoffs" /\ c.todo \subseteq c.wanted BY <1>2, <1>3 DEF QueryHolds, PlaceHolds
<1>5. PICK d : d = [c EXCEPT !.pc = "next", !.page = c.page \cup {}] OBVIOUS
<1>6. Reads(q, d) BY <1>1, <1>5 DEF JournalsRead, ShowsAlso
<1>7. d \in QueryCalls BY <1>2, <1>5 DEF QueryCalls
<1>8. /\ d.kind = c.kind /\ d.wanted = c.wanted /\ d.todo = c.todo /\ d.asked = c.asked /\ d.gone = c.gone
      /\ d.pc = "next" /\ d.page = c.page /\ d.journals = c.journals
  BY <1>2, <1>5 DEF QueryCalls
<1>9. PlaceHolds(d) /\ AskedHolds(d) /\ LeaseCall(d) /\ SnapshotCall(d) /\ RegistryCall(d)
  BY <1>2, <1>3, <1>4, <1>8 DEF QueryHolds, PlaceHolds, AskedHolds, LeaseCall, SnapshotCall, RegistryCall,
                                OnItsWay, Running, LockKept
<1>10. HandoffCall(d)
  <2>1. ASSUME NEW row \in d.page PROVE RowHolds(d, row) /\ JournalHolds(d, row)
    <3>1. RowHolds(c, row) /\ JournalHolds(c, row) BY <1>2, <1>3, <1>4, <1>8 DEF QueryHolds, HandoffCall
    <3> QED BY <1>8, <3>1, RowsOfTheSame
  <2>2. ASSUME NEW p \in c.wanted, NEW n \in 1 .. Len(c.asked[p].handoffs)
        PROVE  ToOpen(d, p) \/ ShownRow(d, p, n)
    <3>1. ToOpen(c, p) \/ ShownRow(c, p, n) \/ UnreadRow(c, p, n)
      BY <1>2, <1>3, <1>4 DEF QueryHolds, HandoffCall
    <3>2. Len(c.unread) = 0 BY <1>3
    <3> QED BY <1>3, <1>8, <3>1, <3>2 DEF ToOpen, ShownRow, UnreadRow
  <2> QED BY <1>8, <2>1, <2>2 DEF HandoffCall
<1>11. QueryHolds(d) BY <1>7, <1>9, <1>10 DEF QueryHolds
<1> QED BY <1>1, <1>3, <1>6, <1>8, <1>11, ReadGoesOn

LEMMA EnvironmentReadKeeps ==
    ASSUME QueriesInv, NEW q \in Queries, ReadEnvironment(q)
    PROVE  QueriesInv'
<1>1. PICK c : c = queries[q] OBVIOUS
<1>2. QueryHolds(c) /\ c \in QueryCalls BY <1>1 DEF QueriesInv, QueryHolds
<1>3. c.pc = "next" /\ c.kind = "environment" /\ Running(c) /\ LockKept(c.kind)
  BY <1>1 DEF ReadEnvironment, Running, LockKept
<1>4. /\ c.wanted \subseteq registered /\ c.wanted \subseteq Registrable
      /\ c.todo \cup ShownEntries(c) = UNION {EntriesOf(p, c.narrow) : p \in c.wanted}
  BY <1>2, <1>3 DEF QueryHolds, RegistryCall, QueryCalls
<1>5. PICK e \in c.todo :
         Reads(q, [ShowsAlso(q, {[project |-> e.project, space |-> e.space,
                                  persisted |-> hydrated[e.project][e.space] = "whole"]})
                      EXCEPT !.todo = @ \ {e}])
  BY <1>1 DEF ReadEnvironment
<1>6. e \in EntryPlaces
  <2>1. ASSUME NEW p \in c.wanted PROVE EntriesOf(p, c.narrow) \subseteq EntryPlaces
    BY <1>4 DEF EntriesOf, EntryPlaces, QueriesInv
  <2>2. e \in UNION {EntriesOf(p, c.narrow) : p \in c.wanted} BY <1>4
  <2> QED BY <2>1, <2>2
<1>7. PICK row : row = [project |-> e.project, space |-> e.space,
                        persisted |-> hydrated[e.project][e.space] = "whole"]
  OBVIOUS
<1>8. /\ row \in EntryRows /\ row.project = e.project /\ row.space = e.space
      /\ e = [project |-> e.project, space |-> e.space]
  <2>1. e.project \in Registrable /\ e.space \in Spaces \cup {NoSpace}
        /\ e = [project |-> e.project, space |-> e.space]
    BY <1>6 DEF EntryPlaces
  <2>2. PICK whole : whole = (hydrated[e.project][e.space] = "whole") OBVIOUS
  <2>3. whole \in BOOLEAN BY <2>2
  <2>4. row = [project |-> e.project, space |-> e.space, persisted |-> whole] BY <1>7, <2>2
  <2> QED BY <2>1, <2>3, <2>4 DEF EntryRows
<1>9. PICK d : d = [c EXCEPT !.pc = "next", !.page = c.page \cup {row}, !.todo = c.todo \ {e}] OBVIOUS
<1>10. Reads(q, d)
  <2>1. PICK new : new = {row} OBVIOUS
  <2>2. PICK d1 : d1 = [c EXCEPT !.pc = "next", !.page = c.page \cup new] OBVIOUS
  <2>3. ShowsAlso(q, new) = d1 BY <1>1, <2>2 DEF ShowsAlso
  <2>4. d1.todo = c.todo BY <1>2, <2>2 DEF QueryCalls
  <2>5. [d1 EXCEPT !.todo = d1.todo \ {e}] = d BY <1>2, <1>9, <2>1, <2>2, <2>4 DEF QueryCalls
  <2>6. Reads(q, [ShowsAlso(q, new) EXCEPT !.todo = @ \ {e}]) BY <1>5, <1>7, <2>1
  <2> QED BY <2>3, <2>5, <2>6
<1>11. d \in QueryCalls BY <1>2, <1>8, <1>9 DEF QueryCalls
<1>12. /\ d.kind = c.kind /\ d.wanted = c.wanted /\ d.todo = c.todo \ {e} /\ d.asked = c.asked
       /\ d.gone = c.gone /\ d.pc = "next" /\ d.page = c.page \cup {row} /\ d.narrow = c.narrow
  BY <1>2, <1>9 DEF QueryCalls
<1>13. PlaceHolds(d) /\ AskedHolds(d) /\ HandoffCall(d) /\ LeaseCall(d) /\ SnapshotCall(d)
  BY <1>2, <1>3, <1>12 DEF QueryHolds, PlaceHolds, AskedHolds, HandoffCall, LeaseCall, SnapshotCall
<1>14. d.todo \cup ShownEntries(d) = c.todo \cup ShownEntries(c)
  <2>1. ShownEntries(d) = ShownEntries(c) \cup {e} BY <1>8, <1>12 DEF ShownEntries
  <2> QED BY <1>12, <2>1
<1>15. RegistryCall(d)
  BY <1>2, <1>3, <1>4, <1>12, <1>14 DEF QueryHolds, RegistryCall
<1>16. QueryHolds(d) BY <1>11, <1>13, <1>15 DEF QueryHolds
<1> QED BY <1>1, <1>3, <1>10, <1>12, <1>16, ReadGoesOn

(* The first rows of an order: as many as are asked for, if there are.     *)
Orders(R, above) ==
    /\ IsFiniteSet(R) /\ above \in [R -> SUBSET R]
    /\ \A s \in R : s \notin above[s]
    /\ \A s \in R : \A t \in above[s] : above[t] \subseteq above[s]

LEMMA AboveIsSmaller ==
    ASSUME NEW R, NEW above, Orders(R, above), NEW s \in R, NEW t \in above[s]
    PROVE  /\ t \in R /\ Cardinality(above[s]) \in Nat /\ Cardinality(above[t]) \in Nat
           /\ Cardinality(above[t]) < Cardinality(above[s])
<1>1. above[s] \in SUBSET R /\ t \in R BY DEF Orders
<1>2. above[t] \in SUBSET R BY <1>1 DEF Orders
<1>3. IsFiniteSet(above[s]) /\ IsFiniteSet(above[t]) BY <1>1, <1>2, FS_Subset DEF Orders
<1>4. PICK a, b : a = Cardinality(above[s]) /\ b = Cardinality(above[t]) OBVIOUS
<1>5. a \in Nat /\ b \in Nat BY <1>3, <1>4, FS_CardinalityType
<1>6. above[t] \subseteq above[s] \ {t} BY <1>1 DEF Orders
<1>7. IsFiniteSet(above[s] \ {t}) /\ Cardinality(above[s] \ {t}) = a - 1 BY <1>3, <1>4, FS_RemoveElement
<1>8. b <= a - 1 BY <1>4, <1>6, <1>7, FS_Subset
<1> QED BY <1>1, <1>4, <1>5, <1>8

LEMMA TopIsFull ==
    ASSUME NEW R, NEW above, Orders(R, above), NEW n \in Nat,
           NEW top, top = {s \in R : Cardinality(above[s]) < n}, R \ top # {}
    PROVE  IsFiniteSet(top) /\ Cardinality(top) \in Nat /\ n <= Cardinality(top)
<1>1. IsFiniteSet(top) /\ Cardinality(top) \in Nat BY FS_Subset, FS_CardinalityType DEF Orders
<1>2. PICK size : size = [s \in R |-> Cardinality(above[s])] OBVIOUS
<1>3. \A s \in R : size[s] = Cardinality(above[s]) /\ size[s] \in Nat /\ IsFiniteSet(above[s])
  <2> SUFFICES ASSUME NEW s \in R PROVE size[s] = Cardinality(above[s]) /\ size[s] \in Nat /\ IsFiniteSet(above[s])
    OBVIOUS
  <2>1. above[s] \in SUBSET R BY DEF Orders
  <2>2. IsFiniteSet(above[s]) BY <2>1, FS_Subset DEF Orders
  <2> QED BY <1>2, <2>2, FS_CardinalityType
<1>4. PICK sizes : sizes = {size[s] : s \in R \ top} OBVIOUS
<1>5. sizes \subseteq Nat /\ sizes # {} BY <1>3, <1>4
<1>6. PICK s \in R \ top : \A t \in R \ top : size[s] <= size[t]
  <2>1. PICK x \in sizes : \A y \in sizes : x <= y BY <1>5, LeastNatural
  <2> QED BY <1>4, <2>1
<1>7. above[s] \subseteq top
  <2> SUFFICES ASSUME NEW t \in above[s], t \notin top PROVE FALSE OBVIOUS
  <2>1. t \in R /\ size[t] < size[s] BY <1>3, <1>6, AboveIsSmaller
  <2>2. size[s] <= size[t] BY <1>6, <2>1
  <2>3. size[s] \in Nat /\ size[t] \in Nat BY <1>3, <1>6, <2>1
  <2> QED BY <2>1, <2>2, <2>3
<1>8. Cardinality(above[s]) <= Cardinality(top) BY <1>1, <1>7, FS_Subset
<1>9. ~(size[s] < n) /\ size[s] \in Nat BY <1>3, <1>6
<1>10. PICK a, b : a = Cardinality(above[s]) /\ b = Cardinality(top) OBVIOUS
<1>11. n <= b BY <1>1, <1>3, <1>6, <1>8, <1>9, <1>10
<1> QED BY <1>1, <1>10, <1>11

LEMMA TopIsSmall ==
    ASSUME NEW R, NEW above, Orders(R, above), NEW n \in Nat,
           NEW top, top = {s \in R : Cardinality(above[s]) < n},
           \A s, t \in R : s = t \/ s \in above[t] \/ t \in above[s]
    PROVE  IsFiniteSet(top) /\ Cardinality(top) \in Nat /\ Cardinality(top) <= n
<1>1. IsFiniteSet(top) /\ Cardinality(top) \in Nat BY FS_Subset, FS_CardinalityType DEF Orders
<1>2. CASE top = {} BY <1>1, <1>2, FS_EmptySet
<1>3. CASE top # {}
  <2>1. PICK room : room = [s \in top |-> n - Cardinality(above[s])] OBVIOUS
  <2>2. \A s \in top : /\ room[s] = n - Cardinality(above[s]) /\ room[s] \in Nat \ {0}
                       /\ Cardinality(above[s]) \in Nat /\ IsFiniteSet(above[s])
    <3> SUFFICES ASSUME NEW s \in top
                 PROVE  /\ room[s] = n - Cardinality(above[s]) /\ room[s] \in Nat \ {0}
                        /\ Cardinality(above[s]) \in Nat /\ IsFiniteSet(above[s])
      OBVIOUS
    <3>1. above[s] \in SUBSET R BY DEF Orders
    <3>2. IsFiniteSet(above[s]) BY <3>1, FS_Subset DEF Orders
    <3>3. PICK a : a = Cardinality(above[s]) OBVIOUS
    <3>4. a \in Nat /\ a < n BY <3>2, <3>3, FS_CardinalityType
    <3> QED BY <2>1, <3>2, <3>3, <3>4
  <2>3. PICK rooms : rooms = {room[s] : s \in top} OBVIOUS
  <2>4. rooms \subseteq Nat /\ rooms # {} BY <1>3, <2>2, <2>3
  <2>5. PICK s \in top : \A t \in top : room[s] <= room[t]
    <3>1. PICK x \in rooms : \A y \in rooms : x <= y BY <2>4, LeastNatural
    <3> QED BY <2>3, <3>1
  <2>6. top \ {s} \subseteq above[s]
    <3> SUFFICES ASSUME NEW t \in top, t # s, t \notin above[s] PROVE FALSE OBVIOUS
    <3>1. s \in above[t] OBVIOUS
    <3>2. Cardinality(above[s]) < Cardinality(above[t]) BY <3>1, AboveIsSmaller
    <3>3. PICK a, b : a = Cardinality(above[s]) /\ b = Cardinality(above[t]) OBVIOUS
    <3>4. /\ room[s] = n - a /\ room[t] = n - b /\ a \in Nat /\ b \in Nat /\ a < b /\ room[s] <= room[t]
      BY <2>2, <2>5, <3>2, <3>3
    <3> QED BY <3>4
  <2>7. Cardinality(top \ {s}) = Cardinality(top) - 1 BY <1>1, <2>5, FS_RemoveElement
  <2>8. Cardinality(top \ {s}) <= Cardinality(above[s]) BY <2>2, <2>5, <2>6, FS_Subset
  <2>9. PICK a, b : a = Cardinality(above[s]) /\ b = Cardinality(top) OBVIOUS
  <2>10. b - 1 <= a /\ a < n /\ a \in Nat /\ b \in Nat BY <1>1, <2>2, <2>5, <2>7, <2>8, <2>9
  <2> QED BY <1>1, <2>9, <2>10
<1> QED BY <1>2, <1>3

LEMMA PageLimitIs ==
    ASSUME NEW limit \in {Every} \cup PageLimits
    PROVE  PageLimit(limit) \in Nat
<1>1. PICK a : a = IF limit = Every THEN DefaultLimit ELSE limit OBVIOUS
<1>2. a \in Nat /\ TopLimit \in Nat BY <1>1, QueriesAssumption
<1>3. PICK both : both = {a, TopLimit} OBVIOUS
<1>4. \E x \in both : \A y \in both : x <= y BY <1>2, <1>3
<1>5. Min(both) \in both BY <1>4 DEF Min
<1> QED BY <1>1, <1>2, <1>3, <1>5 DEF PageLimit

LEMMA NewestAreFirst ==
    ASSUME NEW R, R \subseteq SnapshotRecords, IsFiniteSet(R), NEW n \in Nat, NEW s \in R \ Newest(R, n)
    PROVE  n <= Cardinality(Newest(R, n)) /\ \A u \in Newest(R, n) : u.number > s.number
<1>1. PICK above : above = [x \in R |-> {t \in R : t.number > x.number}] OBVIOUS
<1>2. \A x \in R : x.number \in Nat BY DEF SnapshotRecords
<1>3. \A x \in R : above[x] = {t \in R : t.number > x.number} BY <1>1
<1>4. Orders(R, above)
  <2>1. above \in [R -> SUBSET R] BY <1>1
  <2>2. \A x \in R : x \notin above[x] BY <1>2, <1>3
  <2>3. ASSUME NEW x \in R, NEW t \in above[x] PROVE above[t] \subseteq above[x]
    <3>1. t \in R /\ t.number > x.number BY <1>3, <2>3
    <3>2. ASSUME NEW u \in above[t] PROVE u \in above[x]
      <4>1. u \in R /\ u.number > t.number BY <1>3, <3>1, <3>2
      <4>2. u.number > x.number BY <1>2, <3>1, <4>1
      <4> QED BY <1>3, <4>1, <4>2
    <3> QED BY <3>2
  <2> QED BY <2>1, <2>2, <2>3 DEF Orders
<1>5. PICK top : top = {x \in R : Cardinality(above[x]) < n} OBVIOUS
<1>6. Newest(R, n) = top BY <1>3, <1>5 DEF Newest
<1>7. n <= Cardinality(top) BY <1>4, <1>5, <1>6, TopIsFull
<1>8. ASSUME NEW u \in top, ~(u.number > s.number) PROVE FALSE
  <2>1. u \in R /\ Cardinality(above[u]) < n /\ ~(Cardinality(above[s]) < n) BY <1>5, <1>6
  <2>2. above[s] \subseteq above[u]
    <3>1. \A t \in above[s] : t \in R /\ t.number > s.number BY <1>3
    <3>2. u.number <= s.number BY <1>2, <1>8, <2>1
    <3>3. \A t \in above[s] : t.number > u.number BY <1>2, <2>1, <3>1, <3>2
    <3> QED BY <1>3, <2>1, <3>1, <3>3
  <2>3. IsFiniteSet(above[u]) /\ IsFiniteSet(above[s])
    <3>1. above[u] \in SUBSET R /\ above[s] \in SUBSET R BY <1>1, <2>1
    <3> QED BY <3>1, FS_Subset
  <2>4. Cardinality(above[s]) <= Cardinality(above[u]) BY <2>2, <2>3, FS_Subset
  <2>5. PICK a, b : a = Cardinality(above[s]) /\ b = Cardinality(above[u]) OBVIOUS
  <2>6. a \in Nat /\ b \in Nat /\ a <= b /\ b < n /\ ~(a < n) BY <2>1, <2>3, <2>4, <2>5, FS_CardinalityType
  <2> QED BY <2>6
<1> QED BY <1>6, <1>7, <1>8

LEMMA SnapshotPageHolds ==
    ASSUME NEW c \in QueryCalls, c.kind \in {"snapshots", "recoverable", "store"},
           c.kind # "snapshots" => c.narrow = Every, NEW before, NEW held, held \subseteq SnapshotRecords, IsFiniteSet(held),
           NEW S, S = SnapshotPage(c, held)
    PROVE  /\ S \subseteq held /\ \A s \in S : c.narrow \in {Every, s.session}
           /\ \A s \in OfSession(before \cap held, c.narrow) \ S :
                 /\ c.kind = "snapshots" /\ Cardinality(S) >= PageLimit(c.limit)
                 /\ \A u \in S : u.number > s.number
<1>1. CASE c.kind = "snapshots"
  <2>1. PICK R, n : R = OfSession(held, c.narrow) /\ n = PageLimit(c.limit) OBVIOUS
  <2>2. S = Newest(R, n) BY <1>1, <2>1 DEF SnapshotPage
  <2>3. c.limit \in {Every} \cup PageLimits BY DEF QueryCalls
  <2>4. n \in Nat BY <2>1, <2>3, PageLimitIs
  <2>5. R \subseteq held BY <2>1 DEF OfSession
  <2>6. R \subseteq SnapshotRecords /\ IsFiniteSet(R) BY <2>5, FS_Subset
  <2>7. S \subseteq R /\ \A s \in R : c.narrow \in {Every, s.session} BY <2>1, <2>2 DEF Newest, OfSession
  <2>8. ASSUME NEW s \in OfSession(before \cap held, c.narrow) \ S
        PROVE  Cardinality(S) >= n /\ \A u \in S : u.number > s.number
    <3>1. s \in R \ Newest(R, n) BY <2>1, <2>2 DEF OfSession
    <3>2. n <= Cardinality(Newest(R, n)) /\ \A u \in Newest(R, n) : u.number > s.number
      BY <2>4, <2>6, <3>1, NewestAreFirst
    <3>3. IsFiniteSet(S) BY <2>6, <2>7, FS_Subset
    <3>4. PICK k : k = Cardinality(S) OBVIOUS
    <3>5. k \in Nat /\ n <= k BY <2>2, <3>2, <3>3, <3>4, FS_CardinalityType
    <3>6. k >= n BY <2>4, <3>5
    <3> QED BY <2>2, <3>2, <3>4, <3>6
  <2> QED BY <1>1, <2>1, <2>5, <2>7, <2>8
<1>2. CASE c.kind # "snapshots"
  <2>1. S = held /\ c.narrow = Every BY <1>2 DEF SnapshotPage
  <2> QED BY <2>1 DEF OfSession
<1> QED BY <1>1, <1>2

LEMMA SnapshotsReadKeep ==
    ASSUME QueriesInv, NEW q \in Queries, ReadSnapshots(q)
    PROVE  QueriesInv'
<1>1. PICK c : c = queries[q] OBVIOUS
<1>2. QueryHolds(c) /\ c \in QueryCalls BY <1>1 DEF QueriesInv, QueryHolds
<1>3. /\ c.pc = "opened" /\ c.kind \in {"snapshots", "recoverable", "store"} /\ Running(c) /\ OnItsWay(c)
  BY <1>1 DEF ReadSnapshots, Running, OnItsWay
<1>4. c.opened \in c.wanted /\ c.opened \notin c.todo /\ c.wanted \subseteq Registrable /\ c.todo \subseteq c.wanted
  BY <1>2, <1>3 DEF QueryHolds, PlaceHolds, QueryCalls
<1>5. PICK p, held : p = c.opened /\ held = tables[p].snapshots OBVIOUS
<1>6. p \in Registrable /\ p \in c.wanted /\ p \notin c.todo BY <1>4, <1>5
<1>7. held \subseteq SnapshotRecords /\ IsFiniteSet(held)
  BY <1>5, <1>6 DEF QueriesInv, AllTablesTell, TablesTell, ProjectTables, SnapshotsAreNumbered
<1>8. PICK S : S = SnapshotPage(c, held) OBVIOUS
<1>9. c.kind # "snapshots" => c.narrow = Every BY <1>2, <1>3 DEF QueryHolds, SnapshotCall
<1>10. PICK before : before = c.asked[p].snapshots OBVIOUS
<1>11. /\ S \subseteq held /\ \A s \in S : c.narrow \in {Every, s.session}
       /\ \A s \in OfSession(before \cap held, c.narrow) \ S :
             /\ c.kind = "snapshots" /\ Cardinality(S) >= PageLimit(c.limit)
             /\ \A u \in S : u.number > s.number
  BY <1>2, <1>3, <1>7, <1>8, <1>9, SnapshotPageHolds
<1>12. PICK entries : entries = {[project |-> p, row |-> s] : s \in S} OBVIOUS
<1>13. entries \subseteq SnapshotRows BY <1>6, <1>7, <1>11, <1>12 DEF SnapshotRows
<1>14. PICK d : d = [c EXCEPT !.pc = "next", !.page = c.page \cup entries] OBVIOUS
<1>15. Reads(q, d) BY <1>1, <1>5, <1>8, <1>12, <1>14 DEF ReadSnapshots, ShowsAlso, Rows
<1>16. d \in QueryCalls BY <1>2, <1>13, <1>14 DEF QueryCalls
<1>17. /\ d.kind = c.kind /\ d.wanted = c.wanted /\ d.todo = c.todo /\ d.asked = c.asked /\ d.gone = c.gone
       /\ d.pc = "next" /\ d.page = c.page \cup entries /\ d.narrow = c.narrow /\ d.limit = c.limit
  BY <1>2, <1>14 DEF QueryCalls
<1>18. PlaceHolds(d) /\ AskedHolds(d) /\ HandoffCall(d) /\ LeaseCall(d)
  BY <1>2, <1>3, <1>17 DEF QueryHolds, PlaceHolds, AskedHolds, HandoffCall, LeaseCall, OnItsWay
<1>19. RegistryCall(d)
  BY <1>2, <1>3, <1>17 DEF QueryHolds, RegistryCall, Running, LockKept
<1>20. SnapshotCall(d)
  <2>1. ASSUME NEW r \in c.wanted, r # p
        PROVE  IF ToOpen(d, r) THEN \A row \in d.page : row.project # r ELSE PageHolds(d, r)
    <3>1. ToOpen(c, r) <=> ToOpen(d, r) BY <1>3, <1>5, <1>17, <2>1 DEF ToOpen
    <3>2. \A row \in entries : row.project = p BY <1>12
    <3>3. IF ToOpen(c, r) THEN \A row \in c.page : row.project # r ELSE PageHolds(c, r)
      BY <1>2, <1>3 DEF QueryHolds, SnapshotCall
    <3>4. CASE ToOpen(c, r) BY <1>17, <2>1, <3>1, <3>2, <3>3, <3>4
    <3>5. CASE ~ToOpen(c, r)
      <4>1. ShownOf(d, r) = ShownOf(c, r) BY <1>17, <2>1, <3>2 DEF ShownOf
      <4>2. StillThere(d, r) = StillThere(c, r) BY <1>17 DEF StillThere
      <4>3. PageHolds(d, r) BY <1>17, <3>3, <3>5, <4>1, <4>2 DEF PageHolds
      <4> QED BY <3>1, <3>5, <4>3
    <3> QED BY <3>4, <3>5
  <2>2. ~ToOpen(d, p) /\ ToOpen(c, p) BY <1>3, <1>5, <1>6, <1>17 DEF ToOpen
  <2>3. \A row \in c.page : row.project # p BY <1>2, <1>3, <1>6, <2>2 DEF QueryHolds, SnapshotCall
  <2>4. ShownOf(d, p) = S
    <3>1. PICK items : items = {j \in d.page : j.project = p} OBVIOUS
    <3>2. \A row \in entries : row.project = p BY <1>12
    <3>3. items = entries BY <1>17, <2>3, <3>1, <3>2
    <3>4. ASSUME NEW s \in S PROVE s \in {i.row : i \in entries}
      <4>1. PICK i : i = [project |-> p, row |-> s] OBVIOUS
      <4>2. i \in entries /\ i.row = s BY <1>12, <4>1
      <4> QED BY <4>2
    <3>5. ASSUME NEW i \in entries PROVE i.row \in S BY <1>12
    <3>6. {i.row : i \in entries} = S BY <3>4, <3>5
    <3> QED BY <3>1, <3>3, <3>6 DEF ShownOf
  <2>5. StillThere(d, p) = OfSession(before \cap held, c.narrow) BY <1>5, <1>10, <1>17 DEF StillThere
  <2>6. PageHolds(d, p) BY <1>11, <1>17, <2>4, <2>5 DEF PageHolds
  <2> QED BY <1>9, <1>17, <2>1, <2>2, <2>6 DEF SnapshotCall
<1>21. QueryHolds(d) BY <1>16, <1>18, <1>19, <1>20 DEF QueryHolds
<1> QED BY <1>1, <1>3, <1>15, <1>17, <1>21, ReadGoesOn

LEMMA QueriesGoOn == ASSUME QueriesInv, [QueriesNext]_queryVars PROVE QueriesInv'
<1>1. CASE UNCHANGED queryVars
  <2>1. UNCHANGED <<registered, spaces, tables, lockedBy, queries>> BY <1>1 DEF queryVars
  <2>2. TablesMove
    BY <2>1 DEF TablesMove, QueriesInv, AllTablesTell
  <2> QED BY <2>2, TablesMoveKeeps
<1>2. ASSUME NEW q \in Queries, QueryStep(q) PROVE QueriesInv'
  BY <1>2, AsksKeep, OpensKeep, LeaseReadKeeps, HandoffsReadKeep, JournalReadKeeps, JournalsReadKeeps,
     SnapshotsReadKeep, EnvironmentReadKeeps, QueryEndsKeeps
  DEF QueryStep
<1> QED BY <1>1, <1>2, OthersKeep DEF QueriesNext

-----------------------------------------------------------------------------
(* Lists over several databases                                            *)
ActivityRows == [database : AgentDatabase .. ProjectCount, id : Nat, second : Nat]
ListCalls == [kind : {"none", "activity", "audit", "runs"}, pc : {"none", "read", "error", "answered"},
              limit : Nat, next : Nat, seen : SUBSET ActivityRows, existing : SUBSET ActivityRows]

\* Rows have an identity: the database and the id.
RowsHaveIds ==
    /\ \A row \in recorded : row.id <= Cardinality(RowsOf(row.database))
    /\ \A row, other \in recorded : row.database = other.database /\ row.id = other.id => row = other

LimitIsMet(c) == c.limit \in 1 .. RowLimit
ReadOf(c, d) == {s \in c.seen : s.database = d}
AsNew(c, s, row) == IF c.kind = "runs" THEN row.second <= s.second ELSE NewerRow(s, row)

\* What a list has read, and what it answers.
ReadHolds(c) ==
    /\ c.seen \subseteq recorded /\ c.existing \subseteq recorded
    /\ \A s \in c.seen : s.database < c.next
    /\ \A row \in c.existing \ c.seen : row.database < c.next =>
          /\ Cardinality(ReadOf(c, row.database)) = c.limit
          /\ \A s \in ReadOf(c, row.database) : AsNew(c, s, row)
AnswerHolds(c) ==
    /\ Cardinality(c.seen) <= c.limit
    /\ \A row \in c.existing \ c.seen :
          /\ Cardinality(c.seen) = c.limit
          /\ \A shown \in c.seen :
                IF c.kind # "runs" /\ shown.database = row.database
                THEN NewerRow(shown, row) ELSE row.second <= shown.second

ActivityInv ==
    /\ recorded \subseteq ActivityRows /\ IsFiniteSet(recorded) /\ RowsHaveIds
    /\ listings \in [Listings -> ListCalls]
    /\ \A l \in Listings : /\ listings[l].pc = "read" /\ LimitIsMet(listings[l]) => ReadHolds(listings[l])
                           /\ listings[l].pc = "answered" /\ LimitIsMet(listings[l]) => AnswerHolds(listings[l])

LEMMA ListsHold == ActivityInv => ListsAreNewest
BY DEF ActivityInv, ListsAreNewest, AnswerHolds, LimitIsMet

LEMMA ActivityInitially == ActivityInit => ActivityInv
<1> SUFFICES ASSUME ActivityInit PROVE ActivityInv OBVIOUS
<1>1. NotAsked \in ListCalls /\ NotAsked.pc = "none" BY DEF NotAsked, ListCalls
<1>2. recorded \subseteq ActivityRows /\ IsFiniteSet(recorded) /\ RowsHaveIds
  BY FS_EmptySet DEF ActivityInit, RowsHaveIds
<1>3. listings = [l \in Listings |-> NotAsked] BY DEF ActivityInit
<1> HIDE DEF NotAsked
<1> QED BY <1>1, <1>2, <1>3 DEF ActivityInv

LEMMA RowRecorded ==
    ASSUME ActivityInv, NEW d \in AgentDatabase .. ProjectCount, RecordRow(d)
    PROVE  ActivityInv'
<1>1. PICK second \in 1 .. MaxSecond : recorded' = recorded \cup {NewRow(d, second)} BY DEF RecordRow
<1>2. listings' = listings BY DEF RecordRow
<1>3. PICK k : k = Cardinality(RowsOf(d)) OBVIOUS
<1>4. IsFiniteSet(RowsOf(d)) /\ k \in Nat
  <2>1. RowsOf(d) \in SUBSET recorded BY DEF RowsOf
  <2> QED BY <1>3, <2>1, FS_Subset, FS_CardinalityType DEF ActivityInv
<1>5. PICK new : new = [database |-> d, id |-> k + 1, second |-> second] OBVIOUS
<1>6. recorded' = recorded \cup {new} BY <1>1, <1>3, <1>5 DEF NewRow
<1>7. new \in ActivityRows /\ new.database = d /\ new.id = k + 1
  BY <1>4, <1>5, ActivityAssumption DEF ActivityRows, AgentDatabase
<1>8. recorded' \subseteq ActivityRows /\ IsFiniteSet(recorded')
  BY <1>6, <1>7, FS_AddElement DEF ActivityInv
<1>9. ASSUME NEW row \in recorded, row.database = d PROVE row.id <= k /\ row.id \in Nat
  BY <1>3, <1>9 DEF ActivityInv, RowsHaveIds, ActivityRows
<1>10. new \notin recorded BY <1>4, <1>7, <1>9
<1>11. RowsOf(d)' = RowsOf(d) \cup {new} BY <1>6, <1>7 DEF RowsOf
<1>12. Cardinality(RowsOf(d)') = k + 1
  <2>1. new \notin RowsOf(d) BY <1>10 DEF RowsOf
  <2> QED BY <1>3, <1>4, <1>11, <2>1, FS_AddElement
<1>13. ASSUME NEW row \in recorded' PROVE row.id <= Cardinality(RowsOf(row.database)')
  <2>1. CASE row.database = d
    <3>1. row.id <= k + 1 BY <1>4, <1>6, <1>7, <1>9, <2>1
    <3> QED BY <1>12, <2>1, <3>1
  <2>2. CASE row.database # d
    <3>1. row \in recorded BY <1>6, <1>7, <2>2
    <3>2. RowsOf(row.database)' = RowsOf(row.database) BY <1>6, <1>7, <2>2 DEF RowsOf
    <3> QED BY <3>1, <3>2 DEF ActivityInv, RowsHaveIds
  <2> QED BY <2>1, <2>2
<1>14. \A row, other \in recorded' : row.database = other.database /\ row.id = other.id => row = other
  <2>1. \A row \in recorded : row.database = d => row.id # k + 1 BY <1>4, <1>9
  <2> QED BY <1>6, <1>7, <2>1 DEF ActivityInv, RowsHaveIds
<1>15. RowsHaveIds' BY <1>13, <1>14 DEF RowsHaveIds
<1>16. ASSUME NEW c, ReadHolds(c) PROVE ReadHolds(c)' BY <1>6, <1>16 DEF ReadHolds, ReadOf
<1> QED BY <1>2, <1>8, <1>15, <1>16 DEF ActivityInv, AnswerHolds

LEMMA ListingGoesOn ==
    ASSUME ActivityInv, NEW l \in Listings, NEW d \in ListCalls, listings' = [listings EXCEPT ![l] = d],
           UNCHANGED recorded,
           d.pc = "read" /\ LimitIsMet(d) => ReadHolds(d),
           d.pc = "answered" /\ LimitIsMet(d) => AnswerHolds(d)
    PROVE  ActivityInv'
<1>1. /\ listings' \in [Listings -> ListCalls] /\ listings'[l] = d
      /\ \A o \in Listings \ {l} : listings'[o] = listings[o]
  BY DEF ActivityInv
<1>2. ASSUME NEW c, ReadHolds(c) PROVE ReadHolds(c)' BY <1>2 DEF ReadHolds
<1>3. ASSUME NEW o \in Listings, NEW c, c = listings'[o]
      PROVE  /\ c.pc = "read" /\ LimitIsMet(c) => ReadHolds(c)'
             /\ c.pc = "answered" /\ LimitIsMet(c) => AnswerHolds(c)
  <2>1. CASE o = l BY <1>1, <1>2, <1>3, <2>1
  <2>2. CASE o # l
    <3>1. c = listings[o] BY <1>1, <1>3, <2>2
    <3> QED BY <1>2, <3>1 DEF ActivityInv
  <2> QED BY <2>1, <2>2
<1>4. \A o \in Listings : /\ listings'[o].pc = "read" /\ LimitIsMet(listings'[o]) => ReadHolds(listings[o])'
                          /\ listings'[o].pc = "answered" /\ LimitIsMet(listings'[o]) => AnswerHolds(listings'[o])
  <2> SUFFICES ASSUME NEW o \in Listings
               PROVE  /\ listings'[o].pc = "read" /\ LimitIsMet(listings'[o]) => ReadHolds(listings[o])'
                      /\ listings'[o].pc = "answered" /\ LimitIsMet(listings'[o]) => AnswerHolds(listings'[o])
    OBVIOUS
  <2>1. PICK c : c = listings'[o] OBVIOUS
  <2>2. /\ c.pc = "read" /\ LimitIsMet(c) => ReadHolds(c)'
        /\ c.pc = "answered" /\ LimitIsMet(c) => AnswerHolds(c)
    BY <1>3, <2>1
  <2> QED BY <2>1, <2>2
<1> QED BY <1>1, <1>4 DEF ActivityInv, RowsHaveIds, RowsOf, LimitIsMet, AnswerHolds

LEMMA ListAsked ==
    ASSUME ActivityInv, NEW l \in Listings, NEW kind \in {"activity", "audit", "runs"}, NEW asked \in AskedLimits,
           AskList(l, kind, asked)
    PROVE  ActivityInv'
<1>1. PICK first, limit, existing : /\ first = (IF kind = "runs" THEN 1 ELSE AgentDatabase)
                                    /\ limit = LimitOf(kind, asked)
                                    /\ existing = {row \in recorded : row.database >= first}
  OBVIOUS
<1>2. first \in Nat /\ limit \in Nat
  BY <1>1, ActivityAssumption DEF AgentDatabase, LimitOf, Clamped
<1>3. existing \subseteq recorded /\ existing \subseteq ActivityRows BY <1>1 DEF ActivityInv
<1>4. PICK d : d = [kind |-> kind, pc |-> "read", limit |-> limit, next |-> first, seen |-> {},
                    existing |-> existing]
  OBVIOUS
<1>5. listings' = [listings EXCEPT ![l] = d] /\ UNCHANGED recorded BY <1>1, <1>4 DEF AskList
<1>6. d \in ListCalls BY <1>2, <1>3, <1>4 DEF ListCalls
<1>7. d.pc = "read" /\ d.seen = {} /\ d.existing = existing /\ d.next = first BY <1>4
<1>8. \A row \in existing : row.database \in Nat /\ row.database >= first
  BY <1>1, <1>3, ActivityAssumption DEF ActivityRows, AgentDatabase
<1>9. \A row \in existing : ~(row.database < first) BY <1>2, <1>8
<1>10. ReadHolds(d) BY <1>3, <1>7, <1>9 DEF ReadHolds
<1> QED BY <1>5, <1>6, <1>7, <1>10, ListingGoesOn

LEMMA DatabaseRead ==
    ASSUME ActivityInv, NEW l \in Listings, ReadDatabase(l)
    PROVE  ActivityInv'
<1>1. PICK c : c = listings[l] OBVIOUS
<1>2. c \in ListCalls /\ c.pc = "read" /\ (LimitIsMet(c) => ReadHolds(c)) BY <1>1 DEF ActivityInv, ReadDatabase
<1>3. ASSUME NEW S \in NewestRows(c.kind, RowsOf(c.next), Clamped(c.limit)),
             listings' = [listings EXCEPT ![l].next = @ + 1, ![l].seen = @ \cup S]
      PROVE  ActivityInv'
  <2>1. PICK n, k : n = c.next /\ k = c.limit OBVIOUS
  <2>2. n \in Nat /\ k \in Nat BY <1>2, <2>1 DEF ListCalls
  <2>3. PICK d : d = [c EXCEPT !.next = n + 1, !.seen = c.seen \cup S] OBVIOUS
  <2>4. listings' = [listings EXCEPT ![l] = d]
    BY <1>1, <1>2, <1>3, <2>1, <2>3 DEF ListCalls, ActivityInv
  <2>5. PICK all : all = RowsOf(n) OBVIOUS
  <2>6. S \subseteq all /\ all \subseteq recorded /\ all \subseteq ActivityRows /\ IsFiniteSet(all)
    <3>1. S \subseteq RowsOf(c.next) BY <1>3 DEF NewestRows
    <3>2. RowsOf(n) \subseteq recorded BY DEF RowsOf
    <3> QED BY <2>1, <2>5, <3>1, <3>2, FS_Subset DEF ActivityInv
  <2>7. d \in ListCalls
    <3>1. PICK m, read : m = n + 1 /\ read = c.seen \cup S OBVIOUS
    <3>2. m \in Nat /\ read \in SUBSET ActivityRows BY <1>2, <2>2, <2>6, <3>1 DEF ListCalls
    <3>3. d = [c EXCEPT !.next = m, !.seen = read] BY <2>3, <3>1
    <3> QED BY <1>2, <3>2, <3>3 DEF ListCalls
  <2>8. /\ d.kind = c.kind /\ d.limit = k /\ d.pc = "read" /\ d.next = n + 1 /\ d.seen = c.seen \cup S
        /\ d.existing = c.existing
    BY <1>2, <2>1, <2>3 DEF ListCalls
  <2>9. ASSUME LimitIsMet(d) PROVE ReadHolds(d)
    <3>1. k \in 1 .. RowLimit /\ ReadHolds(c) BY <1>2, <2>1, <2>8, <2>9 DEF LimitIsMet
    <3>2. Clamped(k) = k BY <2>2, <3>1, ActivityAssumption DEF Clamped
    <3>3. /\ Cardinality(S) = IF Cardinality(all) < k THEN Cardinality(all) ELSE k
          /\ \A a \in S, b \in all \ S : IF c.kind = "runs" THEN ~NewerRun(b, a) ELSE NewerRow(a, b)
      BY <1>3, <2>1, <2>5, <3>2 DEF NewestRows
    <3>4. d.seen \subseteq recorded /\ d.existing \subseteq recorded
      BY <2>6, <2>8, <3>1 DEF ReadHolds
    <3>5. \A s \in S : s.database = n BY <2>5, <2>6 DEF RowsOf
    <3>6. \A s \in recorded : s.database \in Nat BY ActivityAssumption DEF ActivityInv, ActivityRows, AgentDatabase
    <3>7. \A s \in d.seen : s.database < d.next
      <4>1. \A s \in c.seen : s.database \in Nat /\ s.database < n BY <2>1, <3>1, <3>6 DEF ReadHolds
      <4> QED BY <2>2, <2>8, <3>5, <4>1
    <3>8. ReadOf(d, n) = S
      <4>1. \A s \in c.seen : s.database # n
        <5>1. \A s \in c.seen : s.database \in Nat /\ s.database < n BY <2>1, <3>1, <3>6 DEF ReadHolds
        <5> QED BY <2>2, <5>1
      <4> QED BY <2>8, <3>5, <4>1 DEF ReadOf
    <3>9. ASSUME NEW row \in d.existing \ d.seen, row.database < d.next
          PROVE  /\ Cardinality(ReadOf(d, row.database)) = d.limit
                 /\ \A s \in ReadOf(d, row.database) : AsNew(d, s, row)
      <4>1. row.database \in Nat /\ row \in recorded /\ row \in c.existing \ c.seen /\ row \notin S
        BY <2>8, <3>4, <3>6
      <4>2. CASE row.database = n
        <5>1. row \in all \ S BY <2>5, <4>1, <4>2 DEF RowsOf
        <5>2. Cardinality(S) # Cardinality(all) BY <2>6, <5>1, FS_Subset
        <5>3. Cardinality(S) = k BY <3>3, <5>2
        <5>4. ASSUME NEW s \in S PROVE AsNew(d, s, row)
          <6>1. IF c.kind = "runs" THEN ~NewerRun(row, s) ELSE NewerRow(s, row) BY <3>3, <5>1
          <6>2. s.second \in Nat /\ row.second \in Nat BY <2>6, <5>1 DEF ActivityRows
          <6> QED BY <2>8, <6>1, <6>2 DEF AsNew, NewerRun
        <5> QED BY <2>8, <3>8, <4>2, <5>3, <5>4
      <4>3. CASE row.database # n
        <5>1. row.database < n BY <2>2, <2>8, <3>9, <4>1, <4>3
        <5>2. ReadOf(d, row.database) = ReadOf(c, row.database) BY <2>8, <3>5, <4>3 DEF ReadOf
        <5>3. /\ Cardinality(ReadOf(c, row.database)) = c.limit
              /\ \A s \in ReadOf(c, row.database) : AsNew(c, s, row)
          BY <2>1, <3>1, <4>1, <5>1 DEF ReadHolds
        <5> QED BY <2>1, <2>8, <5>2, <5>3 DEF AsNew
      <4> QED BY <4>2, <4>3
    <3> QED BY <3>4, <3>7, <3>9 DEF ReadHolds
  <2>10. UNCHANGED recorded BY DEF ReadDatabase
  <2> QED BY <2>4, <2>7, <2>8, <2>9, <2>10, ListingGoesOn
<1>4. ASSUME listings' = [listings EXCEPT ![l].pc = "error"] PROVE ActivityInv'
  <2>1. PICK d : d = [c EXCEPT !.pc = "error"] OBVIOUS
  <2>2. listings' = [listings EXCEPT ![l] = d] /\ UNCHANGED recorded
    BY <1>1, <1>4, <2>1 DEF ReadDatabase, ActivityInv
  <2>3. d \in ListCalls /\ d.pc = "error" BY <1>2, <2>1 DEF ListCalls
  <2> QED BY <2>2, <2>3, ListingGoesOn
<1> QED BY <1>1, <1>3, <1>4 DEF ReadDatabase

(* The order of the final sort.                                            *)
LEMMA BeforeIsAnOrder ==
    ASSUME NEW R, R \subseteq ActivityRows
    PROVE  /\ \A a \in R : ~Before(a, a)
           /\ \A a, b, c \in R : Before(a, b) /\ Before(b, c) => Before(a, c)
           /\ \A a, b \in R : Before(a, b) \/ Before(b, a) \/ (a.database = b.database /\ a.id = b.id)
           /\ \A a, b \in R : Before(a, b) => b.second <= a.second
<1>1. \A a \in R : a.second \in Nat /\ a.id \in Nat /\ a.database \in Nat
  BY ActivityAssumption DEF ActivityRows, AgentDatabase
<1>2. \A a, b \in R : Before(a, b) <=>
         \/ a.second > b.second
         \/ a.second = b.second /\ a.id > b.id
         \/ a.second = b.second /\ a.id = b.id /\ a.database < b.database
  BY <1>1 DEF Before, NewerRow
<1>3. \A a \in R : ~Before(a, a) BY <1>1, <1>2
<1>4. ASSUME NEW a \in R, NEW b \in R, NEW c \in R, Before(a, b), Before(b, c) PROVE Before(a, c)
  BY <1>1, <1>2, <1>4
<1>5. ASSUME NEW a \in R, NEW b \in R
      PROVE  Before(a, b) \/ Before(b, a) \/ (a.database = b.database /\ a.id = b.id)
  BY <1>1, <1>2
<1>6. \A a, b \in R : Before(a, b) => b.second <= a.second BY <1>1, <1>2
<1> QED BY <1>3, <1>4, <1>5, <1>6

(* What the final sort and the truncation leave.                           *)
LEMMA SortedAndCut ==
    ASSUME ActivityInv, NEW c \in ListCalls, LimitIsMet(c), ReadHolds(c), c.next > ProjectCount,
           NEW top, top = {a \in c.seen : Cardinality({b \in c.seen : Before(b, a)}) < c.limit}
    PROVE  /\ Cardinality(top) <= c.limit
           /\ \A row \in c.existing \ top :
                 /\ Cardinality(top) = c.limit
                 /\ \A shown \in top :
                       IF c.kind # "runs" /\ shown.database = row.database
                       THEN NewerRow(shown, row) ELSE row.second <= shown.second
<1>1. PICK R, n : R = c.seen /\ n = c.limit OBVIOUS
<1>2. /\ R \subseteq recorded /\ R \subseteq ActivityRows /\ IsFiniteSet(R) /\ n \in Nat /\ c.existing \subseteq recorded
      /\ recorded \subseteq ActivityRows
  BY <1>1, FS_Subset DEF ReadHolds, ActivityInv, ListCalls
<1>3. PICK above : above = [a \in R |-> {b \in R : Before(b, a)}] OBVIOUS
<1>4. \A a \in R : above[a] = {b \in R : Before(b, a)} BY <1>3
<1>5. /\ \A a \in R : ~Before(a, a)
      /\ \A a, b, e \in R : Before(a, b) /\ Before(b, e) => Before(a, e)
  BY <1>2, BeforeIsAnOrder
<1>6. \A a, b \in R : a = b \/ Before(a, b) \/ Before(b, a)
  <2>1. \A a, b \in R : Before(a, b) \/ Before(b, a) \/ (a.database = b.database /\ a.id = b.id)
    BY <1>2, BeforeIsAnOrder
  <2> QED BY <1>2, <2>1 DEF ActivityInv, RowsHaveIds
<1>7. \A a, b \in R : Before(a, b) => b.second <= a.second BY <1>2, BeforeIsAnOrder
<1>8. Orders(R, above)
  <2>1. above \in [R -> SUBSET R] BY <1>3
  <2>2. \A a \in R : a \notin above[a] BY <1>4, <1>5
  <2>3. ASSUME NEW a \in R, NEW b \in above[a], NEW e \in above[b] PROVE e \in above[a]
    BY <1>4, <1>5, <2>3
  <2> QED BY <1>2, <2>1, <2>2, <2>3 DEF Orders
<1>9. top = {a \in R : Cardinality(above[a]) < n} BY <1>1, <1>4
<1>10. \A a, b \in R : a = b \/ a \in above[b] \/ b \in above[a] BY <1>4, <1>6
<1>11. PICK size : size = Cardinality(top) OBVIOUS
<1>12. IsFiniteSet(top) /\ size \in Nat /\ size <= n
  <2>1. IsFiniteSet(top) /\ Cardinality(top) \in Nat /\ Cardinality(top) <= n
    BY <1>2, <1>8, <1>9, <1>10, TopIsSmall
  <2> QED BY <1>11, <2>1
<1>13. R \ top # {} => n <= size BY <1>2, <1>8, <1>9, <1>11, TopIsFull
<1>14. \A a \in R : IsFiniteSet(above[a]) /\ Cardinality(above[a]) \in Nat
  BY <1>2, <1>4, FS_Subset, FS_CardinalityType
<1>15. \A s \in recorded : s.database \in Nat /\ s.second \in Nat /\ s.id \in Nat /\ s.database <= ProjectCount
  BY <1>2, ActivityAssumption DEF ActivityRows, AgentDatabase
<1>16. ASSUME NEW row \in R \ top
       PROVE  /\ size = n
              /\ \A shown \in top : /\ shown.database = row.database => NewerRow(shown, row)
                                    /\ row.second <= shown.second
  <2>1. size = n BY <1>2, <1>12, <1>13
  <2>2. ASSUME NEW shown \in top PROVE Before(shown, row)
    <3> SUFFICES ASSUME row \in above[shown] PROVE FALSE BY <1>4, <1>9, <1>10
    <3>1. Cardinality(above[row]) < Cardinality(above[shown]) BY <1>8, <1>9, AboveIsSmaller
    <3>2. PICK a, b : a = Cardinality(above[row]) /\ b = Cardinality(above[shown]) OBVIOUS
    <3>3. a \in Nat /\ b \in Nat /\ a < b /\ b < n /\ ~(a < n) BY <1>9, <1>14, <3>1, <3>2
    <3> QED BY <1>2, <3>3
  <2>3. ASSUME NEW shown \in top
        PROVE  /\ shown.database = row.database => NewerRow(shown, row)
               /\ row.second <= shown.second
    <3>1. Before(shown, row) /\ shown \in R BY <1>9, <2>2
    <3>2. row.second <= shown.second BY <1>7, <3>1
    <3>3. shown.database \in Nat BY <1>2, <1>15, <3>1
    <3>4. shown.database = row.database => NewerRow(shown, row) BY <3>1, <3>3 DEF Before
    <3> QED BY <3>2, <3>4
  <2> QED BY <2>1, <2>3
<1>17. ASSUME NEW row \in c.existing \ R
       PROVE  /\ size = n
              /\ \A shown \in top : /\ c.kind # "runs" /\ shown.database = row.database => NewerRow(shown, row)
                                    /\ row.second <= shown.second
  <2>1. PICK D : D = ReadOf(c, row.database) OBVIOUS
  <2>2. row.database < c.next
    <3>1. row.database \in Nat /\ row.database <= ProjectCount BY <1>2, <1>15
    <3>2. c.next \in Nat /\ ProjectCount \in Nat BY ActivityAssumption DEF ListCalls
    <3> QED BY <3>1, <3>2
  <2>3. Cardinality(D) = n /\ \A s \in D : AsNew(c, s, row) BY <1>1, <2>1, <2>2 DEF ReadHolds
  <2>4. D \subseteq R /\ IsFiniteSet(D) /\ \A s \in R : s.database = row.database => s \in D
    BY <1>1, <1>2, <2>1, FS_Subset DEF ReadOf
  <2>5. n <= size
    <3>1. CASE R \ top # {} BY <1>13, <3>1
    <3>2. CASE R \ top = {}
      <4>1. D \subseteq top BY <2>4, <3>2
      <4>2. Cardinality(D) <= Cardinality(top) BY <1>12, <4>1, FS_Subset
      <4> QED BY <1>11, <2>3, <4>2
    <3> QED BY <3>1, <3>2
  <2>6. size = n BY <1>2, <1>12, <2>5
  <2>7. row \in recorded /\ row.second \in Nat /\ row.id \in Nat BY <1>2, <1>15
  <2>8. \A s \in D : row.second <= s.second /\ s.second \in Nat
    <3> SUFFICES ASSUME NEW s \in D PROVE row.second <= s.second /\ s.second \in Nat OBVIOUS
    <3>1. s \in recorded /\ AsNew(c, s, row) BY <1>2, <2>3, <2>4
    <3>2. s.second \in Nat /\ s.id \in Nat BY <1>15, <3>1
    <3> QED BY <2>7, <3>1, <3>2 DEF AsNew, NewerRow
  <2>9. ASSUME NEW shown \in top
        PROVE  /\ c.kind # "runs" /\ shown.database = row.database => NewerRow(shown, row)
               /\ row.second <= shown.second
    <3>1. shown \in R /\ shown.second \in Nat /\ Cardinality(above[shown]) < n BY <1>2, <1>9, <1>15
    <3>2. CASE shown \in D BY <2>3, <2>8, <3>2 DEF AsNew
    <3>3. CASE shown \notin D
      <4>1. shown.database # row.database BY <2>4, <3>1, <3>3
      <4>2. ASSUME shown.second < row.second PROVE FALSE
        <5>1. ASSUME NEW s \in D PROVE s \in above[shown]
          <6>1. s.second > shown.second BY <2>7, <2>8, <3>1, <4>2
          <6>2. s \in R /\ Before(s, shown) BY <2>4, <6>1 DEF Before, NewerRow
          <6> QED BY <1>4, <3>1, <6>2
        <5>2. Cardinality(D) <= Cardinality(above[shown]) BY <1>14, <3>1, <5>1, FS_Subset
        <5>3. PICK k : k = Cardinality(above[shown]) OBVIOUS
        <5>4. n <= k /\ k < n /\ k \in Nat BY <1>14, <2>3, <3>1, <5>2, <5>3
        <5> QED BY <1>2, <5>4
      <4> QED BY <2>7, <3>1, <4>1, <4>2
    <3> QED BY <3>2, <3>3
  <2> QED BY <2>6, <2>9
<1> QED BY <1>1, <1>11, <1>12, <1>16, <1>17

LEMMA ListAnswered ==
    ASSUME ActivityInv, NEW l \in Listings, AnswerList(l)
    PROVE  ActivityInv'
<1>1. PICK c : c = listings[l] OBVIOUS
<1>2. c \in ListCalls /\ c.pc = "read" /\ (LimitIsMet(c) => ReadHolds(c)) /\ c.next > ProjectCount
  BY <1>1 DEF ActivityInv, AnswerList
<1>3. PICK top : top = {a \in c.seen : Cardinality({b \in c.seen : Before(b, a)}) < c.limit} OBVIOUS
<1>4. PICK d : d = [c EXCEPT !.pc = "answered", !.seen = top] OBVIOUS
<1>5. listings' = [listings EXCEPT ![l] = d] /\ UNCHANGED recorded
  BY <1>1, <1>3, <1>4 DEF AnswerList, ActivityInv
<1>6. top \subseteq ActivityRows BY <1>2, <1>3 DEF ListCalls
<1>7. d \in ListCalls BY <1>2, <1>4, <1>6 DEF ListCalls
<1>8. /\ d.kind = c.kind /\ d.limit = c.limit /\ d.pc = "answered" /\ d.seen = top /\ d.existing = c.existing
  BY <1>2, <1>4 DEF ListCalls
<1>9. ASSUME LimitIsMet(d) PROVE AnswerHolds(d)
  <2>1. LimitIsMet(c) BY <1>8, <1>9 DEF LimitIsMet
  <2>2. /\ Cardinality(top) <= c.limit
        /\ \A row \in c.existing \ top :
              /\ Cardinality(top) = c.limit
              /\ \A shown \in top :
                    IF c.kind # "runs" /\ shown.database = row.database
                    THEN NewerRow(shown, row) ELSE row.second <= shown.second
    BY <1>2, <1>3, <2>1, SortedAndCut
  <2> QED BY <1>8, <2>2 DEF AnswerHolds
<1> QED BY <1>5, <1>7, <1>8, <1>9, ListingGoesOn

LEMMA ActivityGoOn == ASSUME ActivityInv, [ActivityNext]_activityVars PROVE ActivityInv'
<1>1. CASE UNCHANGED activityVars
  <2>1. recorded' = recorded /\ listings' = listings BY <1>1 DEF activityVars
  <2> QED BY <2>1 DEF ActivityInv, RowsHaveIds, RowsOf, ReadHolds, AnswerHolds, LimitIsMet
<1> QED BY <1>1, RowRecorded, ListAsked, DatabaseRead, ListAnswered DEF ActivityNext
-----------------------------------------------------------------------------
(* The parts start as they do alone, and a step is one of a single part.   *)
ClientsInv ==
    RoutesInv /\ SidecarInv /\ PathsInv /\ TypeOK /\ DataInv /\ MetricsInv /\ QueriesInv /\ ActivityInv

LEMMA ClientsInitially == ClientsInit => ClientsInv
<1> SUFFICES ASSUME ClientsInit PROVE ClientsInv OBVIOUS
<1>1. RoutesInv BY RoutesInitially DEF ClientsInit
<1>2. SidecarInv BY SidecarsInitially DEF ClientsInit
<1>3. PathsInv BY PathsInitially DEF ClientsInit
<1>4. TypeOK /\ DataInv BY UploadsInitially DEF ClientsInit
<1>5. MetricsInv BY MetricsInitially DEF ClientsInit
<1>6. QueriesInv BY QueriesInitially DEF ClientsInit
<1>7. ActivityInv BY ActivityInitially DEF ClientsInit
<1> QED BY <1>1, <1>2, <1>3, <1>4, <1>5, <1>6, <1>7 DEF ClientsInv

LEMMA ClientsGoOn == ClientsInv /\ [ClientsNext]_clientsVars => ClientsInv'
<1> SUFFICES ASSUME ClientsInv, [ClientsNext]_clientsVars PROVE ClientsInv' OBVIOUS
<1>1. /\ [RoutesNext]_transferVars /\ [SidecarNext]_sidecarVars
      /\ [PathsNext]_pathVars /\ [Next]_vars /\ [MetricsNext]_metricsVars
      /\ [QueriesNext]_queryVars /\ [ActivityNext]_activityVars
  BY DEF ClientsNext, clientsVars
<1>2. RoutesInv' BY <1>1, RoutesGoOn DEF ClientsInv
<1>3. SidecarInv' BY <1>1, SidecarsGoOn DEF ClientsInv
<1>4. PathsInv' BY <1>1, PathsGoOn DEF ClientsInv
<1>5. TypeOK' BY <1>1, TypeStep DEF ClientsInv
<1>6. DataInv' BY <1>1, DataStep DEF ClientsInv
<1>7. MetricsInv' BY <1>1, MetricsGoOn DEF ClientsInv
<1>8. QueriesInv' BY <1>1, QueriesGoOn DEF ClientsInv
<1>9. ActivityInv' BY <1>1, ActivityGoOn DEF ClientsInv
<1> QED BY <1>2, <1>3, <1>4, <1>5, <1>6, <1>7, <1>8, <1>9 DEF ClientsInv

LEMMA ClientsInductive == ClientsSpec => []ClientsInv
BY ClientsInitially, ClientsGoOn, PTL DEF ClientsSpec

(* Whatever uploads, cleanups and collections do and wherever they end:    *)
(* what was published can be served, and what is left over can be found.   *)
THEOREM UploadsAreAccountedAlways == ClientsSpec => []UploadsAreAccounted
<1>1. ClientsInv => UploadsAreAccounted
  BY DEF ClientsInv, DataInv, UploadsAreAccounted, LeftoversMarked
<1> QED BY <1>1, ClientsInductive, PTL

(* A target gets a snapshot from wherever it can be had: an apply fails    *)
(* for want of a route only when none has worked all along.  It gets the   *)
(* large files whole or not at all, and is not touched by a snapshot whose *)
(* paths it cannot hold, but for the ones the check does not look at.      *)
THEOREM TargetsGetWholeSnapshotsAlways == ClientsSpec => []TargetsGetWholeSnapshots
<1>1. ClientsInv => TargetsGetWholeSnapshots
  BY WholeSidecars, PathsHold DEF ClientsInv, RoutesInv, TargetsGetWholeSnapshots
<1> QED BY <1>1, ClientsInductive, PTL

(* What the readers of the agent's tables answer may have been so: reports *)
(* of metrics agree with themselves; a list of handoffs, of leases, of     *)
(* snapshots or of projects has nothing that was not there, and lacks      *)
(* nothing that was there all along, though it is read table by table      *)
(* while others write; and a list over many databases has the newest rows. *)
THEOREM TablesAreReadTrueAlways == ClientsSpec => []TablesAreReadTrue
<1>1. ClientsInv => TablesAreReadTrue
  BY ReportsDoAgree, TransferListsHold, SnapshotListsHold, RegistryListsHold, ListsHold
  DEF ClientsInv, TablesAreReadTrue
<1> QED BY <1>1, ClientsInductive, PTL
=============================================================================
