---------------------------- MODULE BackupAnchor ----------------------------
(***************************************************************************)
(* Backup generations of an anchor (backup_anchor.rs, and the anchor       *)
(* backup commands of the command line): a running anchor is copied, in    *)
(* the order metadata, repositories, CAS, into a staging directory that is *)
(* named after the second, a manifest is signed over what was copied, and  *)
(* a rename publishes the generation.  Restore verifies a generation and   *)
(* copies it into a home without anchor metadata; promote also checks how  *)
(* old it is and writes an audit event.  Any of them can be cut off, and   *)
(* backups of the same second share a staging directory.                   *)
(* A file is represented by what is in it, and its hash by that too.       *)
(***************************************************************************)
EXTENDS Integers, FiniteSets

CONSTANTS
    Backups,        \* runs of anchor backup create
    Works,          \* snapshots the anchor publishes, each with a ref and a sidecar
    Revocable,      \* devices
    MaxAge,         \* max_age_seconds of a promotion
    MaxBackupTime   \* a bound on the clock

ASSUME BackupAssumption == MaxAge \in Nat /\ MaxBackupTime \in Nat

VARIABLES
    anchor,         \* the primary: refs, sidecar files, and the database
    backups,        \* [Backups -> what that run has seen and where it is]
    staging,        \* [time -> the files of .staging-<time>]
    generations,    \* the published generation directories
    home,           \* the target home of restore and promote
    restorer,       \* the restore or promote that runs
    backupTime

backupVars == <<anchor, backups, staging, generations, home, restorer, backupTime>>

Missing == [missing |-> TRUE]
NoFiles == [db |-> Missing, refs |-> {}, cas |-> {}, manifest |-> Missing]
Staging(b) == staging[backups[b].time]
BackupAt(b, pc) == backups[b].pc = pc

(* The order of the copies: what comes after each step of create. *)
CopyOrder == [staging |-> "metadata", metadata |-> "hash", hash |-> "repositories",
              repositories |-> "cas", cas |-> "manifest"]
\* Mutant: the metadata is copied when everything it names has been copied.
MetadataLast == [staging |-> "repositories", repositories |-> "cas", cas |-> "metadata",
                 metadata |-> "hash", hash |-> "manifest"]
AfterCopy == CopyOrder

Restoring(pc) == restorer.pc = pc
NoRestore == [pc |-> "idle"]

(* verify_backup_anchor_generation: the files are what the manifest was    *)
(* signed over.                                                            *)
Verified(g) ==
    /\ g.manifest # Missing
    /\ g.db = g.manifest.db
    /\ g.refs = g.manifest.refs
    /\ g.cas = g.manifest.cas

TooOld(g) == backupTime - g.manifest.time > MaxAge
-----------------------------------------------------------------------------
BackupInit ==
    /\ anchor = [refs |-> {}, cas |-> {},
                 db |-> [rows |-> {}, revoked |-> [d \in Revocable |-> MaxBackupTime + 1]]]
    /\ backups = [b \in Backups |-> [pc |-> "ready"]]
    /\ staging = [t \in 0..MaxBackupTime |-> Missing]
    /\ generations = {}
    /\ home = [db |-> Missing, refs |-> {}, cas |-> {}, whole |-> FALSE, promoted |-> Missing]
    /\ restorer = NoRestore
    /\ backupTime = 0

(* The anchor goes on working: a publication stores the refs of a snapshot *)
(* and its sidecar before it inserts the row.                              *)
AnchorStoresRefs(w) ==
    /\ w \notin anchor.refs
    /\ anchor' = [anchor EXCEPT !.refs = @ \cup {w}]
    /\ UNCHANGED <<backups, staging, generations, home, restorer, backupTime>>

AnchorStoresSidecar(w) ==
    /\ w \in anchor.refs \ anchor.cas
    /\ anchor' = [anchor EXCEPT !.cas = @ \cup {w}]
    /\ UNCHANGED <<backups, staging, generations, home, restorer, backupTime>>

AnchorPublishes(w) ==
    /\ w \in anchor.cas \ anchor.db.rows
    /\ anchor' = [anchor EXCEPT !.db.rows = @ \cup {w}]
    /\ UNCHANGED <<backups, staging, generations, home, restorer, backupTime>>

(* The revocation of a device, with the time it is recorded at. *)
AnchorRevokes(d) ==
    /\ anchor.db.revoked[d] > backupTime
    /\ anchor' = [anchor EXCEPT !.db.revoked[d] = backupTime]
    /\ UNCHANGED <<backups, staging, generations, home, restorer, backupTime>>
-----------------------------------------------------------------------------
(* create_backup_anchor_generation, one copy at a time.  Each step may     *)
(* fail instead, see BackupStops.                                          *)

Stage(b, pc, files) ==
    /\ backups' = [backups EXCEPT ![b].pc = pc]
    /\ staging' = [staging EXCEPT ![backups[b].time] = files]
    /\ UNCHANGED <<anchor, generations, home, restorer, backupTime>>

(* Clears the staging directory of this second, which another run may be   *)
(* filling.                                                                *)
BackupBegins(b) ==
    /\ BackupAt(b, "ready")
    /\ backups' = [backups EXCEPT ![b] = [pc |-> AfterCopy.staging, time |-> backupTime,
                                          db |-> Missing, refs |-> {}, cas |-> {}]]
    /\ staging' = [staging EXCEPT ![backupTime] = NoFiles]
    /\ UNCHANGED <<anchor, generations, home, restorer, backupTime>>

(* VACUUM INTO refuses a file that is there. *)
CopyMetadata(b) ==
    /\ BackupAt(b, "metadata")
    /\ Staging(b) # Missing /\ Staging(b).db = Missing
    /\ Stage(b, AfterCopy.metadata, [Staging(b) EXCEPT !.db = anchor.db])

HashMetadata(b) ==
    /\ BackupAt(b, "hash")
    /\ Staging(b) # Missing /\ Staging(b).db # Missing
    /\ backups' = [backups EXCEPT ![b].pc = AfterCopy.hash, ![b].db = Staging(b).db]
    /\ UNCHANGED <<anchor, staging, generations, home, restorer, backupTime>>

(* The copies of directories create the ones above them, so that these     *)
(* two steps bring a staging directory back that was renamed meanwhile.    *)
CopyRepositories(b) ==
    LET files == IF Staging(b) = Missing THEN NoFiles ELSE Staging(b)
        copied == [files EXCEPT !.refs = @ \cup anchor.refs]
    IN  /\ BackupAt(b, "repositories")
        /\ backups' = [backups EXCEPT ![b].pc = AfterCopy.repositories, ![b].refs = copied.refs]
        /\ staging' = [staging EXCEPT ![backups[b].time] = copied]
        /\ UNCHANGED <<anchor, generations, home, restorer, backupTime>>

CopyCas(b) ==
    LET files == IF Staging(b) = Missing THEN NoFiles ELSE Staging(b)
        copied == [files EXCEPT !.cas = @ \cup anchor.cas]
    IN  /\ BackupAt(b, "cas")
        /\ backups' = [backups EXCEPT ![b].pc = AfterCopy.cas, ![b].cas = copied.cas]
        /\ staging' = [staging EXCEPT ![backups[b].time] = copied]
        /\ UNCHANGED <<anchor, generations, home, restorer, backupTime>>

WriteManifest(b) ==
    /\ BackupAt(b, "manifest")
    /\ Staging(b) # Missing
    /\ Stage(b, "rename", [Staging(b) EXCEPT !.manifest =
                [db |-> backups[b].db, refs |-> backups[b].refs,
                 cas |-> backups[b].cas, time |-> backups[b].time]])

(* The identifier is a hash of the metadata, the CAS and the time. *)
PublishGeneration(b) ==
    LET id == [db |-> backups[b].db, cas |-> backups[b].cas, time |-> backups[b].time]
    IN  /\ BackupAt(b, "rename")
        /\ Staging(b) # Missing
        /\ \A g \in generations : g.id # id
        /\ generations' = generations \cup
              {[id |-> id, db |-> Staging(b).db, refs |-> Staging(b).refs,
                cas |-> Staging(b).cas, manifest |-> Staging(b).manifest]}
        /\ staging' = [staging EXCEPT ![backups[b].time] = Missing]
        /\ backups' = [backups EXCEPT ![b] = [pc |-> "done"]]
        /\ UNCHANGED <<anchor, home, restorer, backupTime>>

(* A step fails, or the process ends: the staging directory stays. *)
BackupStops(b) ==
    /\ backups[b].pc \notin {"ready", "done"}
    /\ backups' = [backups EXCEPT ![b] = [pc |-> "done"]]
    /\ UNCHANGED <<anchor, staging, generations, home, restorer, backupTime>>

(* A file of an intact generation at rest is lost, before the only restore *)
(* that can read it.                                                       *)
GenerationDamaged(g, w) ==
    /\ Restoring("idle") /\ home.db = Missing
    /\ Verified(g)
    /\ \E worse \in {[g EXCEPT !.db = Missing], [g EXCEPT !.refs = @ \ {w}],
                     [g EXCEPT !.cas = @ \ {w}]} :
          generations' = (generations \ {g}) \cup {worse}
    /\ UNCHANGED <<anchor, backups, staging, home, restorer, backupTime>>
-----------------------------------------------------------------------------
(* restore_backup_anchor_generation, and promote_backup_anchor_generation  *)
(* around it: confirmation and root key are right, or nothing happens.     *)
BeginRestore(g, promote, allowStale) ==
    /\ Restoring("idle")
    /\ promote => g.manifest # Missing /\ (TooOld(g) => allowStale)
    /\ Verified(g)
    /\ home.db = Missing
    /\ restorer' = [pc |-> "metadata", from |-> g, promote |-> promote,
                    allowStale |-> allowStale, began |-> backupTime]
    /\ UNCHANGED <<anchor, backups, staging, generations, home, backupTime>>

RestoreMetadata ==
    /\ Restoring("metadata")
    /\ home' = [home EXCEPT !.db = restorer.from.db]
    /\ restorer' = [restorer EXCEPT !.pc = "repositories"]
    /\ UNCHANGED <<anchor, backups, staging, generations, backupTime>>

RestoreRepositories ==
    /\ Restoring("repositories")
    /\ home' = [home EXCEPT !.refs = @ \cup restorer.from.refs]
    /\ restorer' = [restorer EXCEPT !.pc = "cas"]
    /\ UNCHANGED <<anchor, backups, staging, generations, backupTime>>

(* The last copy ends restore. *)
RestoreCas ==
    /\ Restoring("cas")
    /\ home' = [home EXCEPT !.cas = @ \cup restorer.from.cas, !.whole = TRUE]
    /\ restorer' = IF restorer.promote THEN [restorer EXCEPT !.pc = "audit"] ELSE NoRestore
    /\ UNCHANGED <<anchor, backups, staging, generations, backupTime>>

(* The audit event of a promotion. *)
RecordPromotion ==
    /\ Restoring("audit")
    /\ home' = [home EXCEPT !.promoted = [at |-> restorer.began, stale |-> restorer.allowStale]]
    /\ restorer' = NoRestore
    /\ UNCHANGED <<anchor, backups, staging, generations, backupTime>>

(* What was copied stays, and from RestoreMetadata on no other restore of  *)
(* this home is accepted.                                                  *)
RestoreStops ==
    /\ ~Restoring("idle")
    /\ restorer' = NoRestore
    /\ UNCHANGED <<anchor, backups, staging, generations, home, backupTime>>

(* anchor init opens, and so creates, an empty database in the home. *)
InitAnchor ==
    /\ Restoring("idle") /\ home.db = Missing
    /\ home' = [home EXCEPT !.db = [rows |-> {},
                    revoked |-> [d \in Revocable |-> MaxBackupTime + 1]]]
    /\ UNCHANGED <<anchor, backups, staging, generations, restorer, backupTime>>

BackupClock ==
    /\ backupTime < MaxBackupTime
    /\ backupTime' = backupTime + 1
    /\ UNCHANGED <<anchor, backups, staging, generations, home, restorer>>

BackupNext ==
    \/ \E w \in Works : \/ AnchorStoresRefs(w) \/ AnchorStoresSidecar(w) \/ AnchorPublishes(w)
                        \/ \E g \in generations : GenerationDamaged(g, w)
    \/ \E d \in Revocable : AnchorRevokes(d)
    \/ \E b \in Backups :
          \/ BackupBegins(b) \/ CopyMetadata(b) \/ HashMetadata(b) \/ CopyRepositories(b)
          \/ CopyCas(b) \/ WriteManifest(b) \/ PublishGeneration(b) \/ BackupStops(b)
    \/ \E g \in generations, promote, allowStale \in BOOLEAN : BeginRestore(g, promote, allowStale)
    \/ RestoreMetadata \/ RestoreRepositories \/ RestoreCas
    \/ RecordPromotion \/ RestoreStops \/ InitAnchor \/ BackupClock
-----------------------------------------------------------------------------
(* A home that restore or promote has finished with has the refs and the   *)
(* sidecar of every snapshot that its metadata names, although the anchor  *)
(* went on publishing during the copies and another backup may have used   *)
(* the same staging directory; and one promoted without the override for   *)
(* stale revocations knows every device that was revoked longer than       *)
(* max_age_seconds before the promotion.                                   *)
RestoredAnchorsAreWhole ==
    /\ home.whole => /\ home.db.rows \subseteq home.refs
                     /\ home.db.rows \subseteq home.cas
    /\ home.promoted # Missing /\ ~home.promoted.stale =>
          \A d \in Revocable :
              anchor.db.revoked[d] < home.promoted.at - MaxAge =>
                  home.db.revoked[d] = anchor.db.revoked[d]
=============================================================================
