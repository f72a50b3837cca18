# DevRelay in TLA+

DevRelay moves a developer's working state between devices. A project has a
*writer lease*; the device that holds it may publish snapshots of the work.
A *handoff* moves the lease to another device: the source checkpoints, the
target applies the checkpoint and verifies it, and the lease is committed to the
target. Published snapshots are kept by an *anchor* (a bare Git repository and a
content-addressed chunk store). Every device runs an *agent*, which serves the
command line, the desktop application and the editor over a local socket and
other devices over an authenticated channel. Around this are the services that
make a device usable: pairing, approvals of commands, tasks that run on the
best device, environments, backups, logs and reports.

This directory models the parts of DevRelay that carry state or decide what
happens to work, checks them with TLC and proves the central facts with TLAPS.
`PROJECT.json` maps every definition to the lines it models; paths below are
relative to the repository.

## 1. Inventory

| Component | State | Operations | Hard behaviour |
|---|---|---|---|
| Leases, handoffs (`devrelay-core/src/storage.rs`, `handoff.rs`, `lease.rs`) | tables `leases`, `handoffs`, `handoff_journal`, `snapshots`, `device_revocations`, `audit_events` | `begin_handoff`, `record_handoff_target_apply`, `mark_handoff_target_verified`, `mark_handoff_source_ready`, `commit_handoff`, `abort_handoff`, `recover_handoff`, `publish_snapshot_canonical`, `publish_inactive_snapshot_as_fork`, `revoke_device_at` | recovery in two transactions, expiry, stale publishers, revocation between begin and commit |
| Agent (`devrelay-agent/src/main.rs`, `devrelay-core/src/remote_rpc.rs`) | event log, editor generation counters (memory), the project database | local and remote `handoff.*` methods, `editor.event.record`, `checkpoint.create`, `apply.snapshot` | a thread per connection, event published after the transaction, restarts |
| Desktop (`apps/desktop/src-tauri/src/main.rs`, `apps/desktop/src/app.js`) | local variables of a command, the page, a bridge thread, the tray | `handoff_prepare`, `handoff_continue_here`, bootstrap, bridge, debounced refresh | several agent calls per command; a command may stop between two of them; answers and events out of order |
| Editor extension (`apps/vscode-extension/src`) | secret storage, windows, contexts in the audit log | `continueElsewhere`, capture and restore of buffers and contexts | chains of awaits of several commands and windows |
| Snapshot upload (`snapshot_upload.rs`, `anchor_snapshot.rs`, `cas.rs`) | markers, Git objects and refs, chunks, manifests, reachability roots, snapshot rows | guarded publish, cleanup, guarded gc | three stores without a common transaction |
| Routes, data plane (`route_selection.rs`, `data_plane.rs`) | measurements, refs, quota | measure, select, select after a failure, serve, fetch, import | a world that changes between measurement and fetch |
| Checkpoint pipeline (`watcher.rs`, `debounce.rs`, `background_checkpoint.rs`) | fingerprints, pending paths, generations, debounce deadlines, last result and status | scan, observe, drain, mark dirty, checkpoint, import into the anchor, record success or failure | edits while a checkpoint runs, a user who never pauses, generations that restart |
| Snapshot capture and apply (`snapshot.rs`, `policy.rs`, `sidecar.rs`, `lfs.rs`, `path_doctor.rs`, `operation_capsule.rs`; the apply command of `devrelay-cli/src/main.rs`) | the workspace, backups of dirty targets, chunks of sidecars | create, plan, apply, verify; block, fork or clone a dirty target; sidecars; portability check; unfinished operations | a Git step failing after others changed files, edits during the apply, names the target cannot hold |
| State hash (`snapshot_schema.rs`) | none | hash, validate | what two snapshots of different work have in common |
| Crash journal (`crash_journal.rs`) | one JSON-lines file | record phases, replay, clean up | torn appends |
| Snapshot store, retention (`snapshot_store.rs`, `retention.rs`, `submodule.rs`) | refs of a bare repository, snapshot rows, child stores; refs in the source worktree | `checkpoint`, `checkpoint_if_changed`, plan, `prune_snapshots`, snapshots of submodules | git commands and SQL statements of several processes interleave; stale parent, stale latest, stale plan; a stop between two of them |
| Command trust (`storage.rs`, `policy.rs`) | decisions | record, evaluate, authorize | an allow-once decision used twice |
| Pairing, identity (`storage.rs`, `pairing.rs`, `identity.rs`) | secret file, pairing sessions, devices | open or create, start, confirm, abort, expire | expiry beside confirmation |
| Configuration, projects, sessions (`config.rs`, `home.rs`, `session.rs`) | `config.toml` and the copies of it; sessions | load, change, save; default, fork, archive | lost updates |
| Transport (`transport_security.rs`, `remote_transport.rs`, `remote_credentials.rs`) | replay cache, revocations | import credentials, accept a frame, dispatch | the edges of the freshness window |
| Local socket and events (`ipc.rs`, `events.rs`, the agent's `main.rs`) | socket file, event log, subscriptions | bind, accept, call, stop; publish, replay, subscribe | agents that start beside a dying one; events between copy and registration |
| Recovery into a directory (`recover.open`, `recovery.open` of the agent and the command line) | directories, audit rows, registry | clone, apply, audit, register | two calls into one directory |
| Backup anchor (`backup_anchor.rs`) | backups | create, verify, restore, promote | an anchor that goes on working, partial failure |
| Environment (`environment.rs`, `environment_doctor.rs`) | a child process and its pipes | select a profile, run its commands, report | time limits |
| Task fabric (`task_*.rs`, `code_changing_task.rs`, `scheduler_*.rs`) | child processes, spool, runner workspace, artifacts, cache | run, cancel, capture, retire, score, constrain | ordering of output, end and deadline; processes that go on working |
| Reports (`metrics.rs`, `audit.rs`, diagnostics and lists of the agent), logging (`logging.rs`) | tables read in pieces; log files | export, list; append, rotate | rows written meanwhile; a rotation that stops half-way |
| Queries of the agent (the list and show methods of the agent's `main.rs`, `remote_rpc.rs`, `hydration.rs`) | the registry behind its lock, the databases of the projects, hydration files | lists of handoffs, leases, snapshots, projects, workspaces, environments | one project after the other and several statements each, while projects go and rows change |
| Doctors, Git adapters, schemas, redaction, rendering | none | reports | none of interest here |

Interactions. Desktop, editor and command line call the agent; the agent's
handlers call `MetadataDb`, whose methods are one SQLite transaction each; remote
peers reach the same methods through `remote_rpc.rs` after the checks of the
transport and a check that the calling device has the right role in the handoff;
`publish_snapshot_canonical_with_data` writes to the anchor's stores and then
calls `MetadataDb`. The services of the second half of the table share no state
with one another; they meet only in the agent, which calls them, and in the
tables, which they write in transactions of their own.

What makes each part correct:

- *leases*: at most one writer at a time, fenced by an epoch; nobody becomes the
  writer except by a commit; ended handoffs stay ended and free their lease;
- *agent*: handlers add no transitions of their own; an acknowledged edit ends
  the handoffs that do not contain it; every commit is announced;
- *commands*: the target has applied and verified the work before it gets the
  lease, however often the command is retried;
- *upload*: a snapshot with a row can be served; what a failed upload left can be
  found and removed without harming anything published;
- *checkpoint pipeline*: an edit is on its way to a checkpoint or its failure
  shows; every edit gets its checkpoint;
- *snapshot store*: the newest and the pinned snapshots can be restored; parents
  are older and present; sequence numbers are given once; captured work stays
  reachable; a plan meets its target and orphans nothing it keeps; what a pinned
  checkpoint links to in submodules is there;
- *identity*: a capture that is answered with an earlier snapshot is of the same
  work, and a capture beside an active user is one that can be applied;
- *capture and apply*: applying inverts capturing; success means the source's
  state; the target's own work survives; a target that cannot hold the snapshot is
  refused before it is touched;
- *approvals, pairing, transport*: a decision is used as often as it says; one
  peer, one fabric; a request runs once;
- *agent's memory*: what it answered is on disk unless a save was cut off; what it streams has no gaps; one
  agent serves a socket;
- *tasks and environments*: what is reported of a run is what happened;
- *backups, recoveries, reports, views*: what is said of them is so, and what is
  shown is what the tables said; a list is a state that may have been, and says
  that a project is unknown only if it was.

## 2. Modules

| Module | Models |
|---|---|
| `LeaseHandoff` | the tables of `MetadataDb`, one action per method |
| `SingleWriter` | the abstract lease service: a writer, an epoch, a latest snapshot per lease |
| `LeaseHandoffProofs` | theorems about `LeaseHandoff`, its refinement of `SingleWriter` included |
| `AgentHandoff` | extends `LeaseHandoff`: the agent's threads, the desktop and editor commands, edits, events, restarts |
| `AgentHandoffProofs` | theorems about `AgentHandoff`, its refinement of `LeaseHandoff` included |
| `SnapshotUpload` | the guarded publish to the anchor, cleanup and gc |
| `ClientProofs` | theorems about `SnapshotUpload`, `SnapshotTransfer`, `SidecarTransfer`, `PathPortability`, `LocalMetrics` and `ProjectQueries` |
| `BackgroundProtection` | the watcher, the debouncer and the checkpoint manager |
| `SnapshotApply` | capture, apply and verification, and the policies for dirty targets |
| `SnapshotIdentity` | what the metadata of a snapshot says and the state hash over it; a capture command by command beside its user, and `checkpoint_if_changed` around it |
| `SidecarTransfer` | large files and LFS objects on their way to a target |
| `PathPortability` | the portability check, and what Git does to a target that mixes up names |
| `OperationCapsule` | an unfinished merge, pick, revert or rebase, captured and set up again |
| `SnapshotTransfer` | routes to a snapshot, their choice and the fetch |
| `Retention` | the retention planner, a pure function of a listing |
| `SnapshotStore` | extends `Retention`: checkpoints and prunes of one store |
| `SnapshotStoreProofs` | theorems about `SnapshotStore`, `Retention` and `SnapshotIdentity` |
| `SubmoduleSnapshots` | checkpoints of a workspace with submodules and their child stores |
| `CommandTrust`, `DevicePairing`, `ProjectRegistry` | approvals; identity and pairing; `config.toml` and sessions |
| `ResourcePolicy` | what background work may use on a machine under strain |
| `CrashJournal` | the crash journal, write by write |
| `ControlChannel`, `AgentIpc`, `AgentEvents` | remote requests; the local socket; event streams |
| `AgentProofs` | theorems about `ControlChannel`, `AgentIpc`, `AgentEvents`, `CommandTrust` and `ProjectRegistry` |
| `TaskExecution`, `CodeChangingTask`, `Scheduler` | the task fabric: one run and what runs leave behind; the change set; the choice of a device |
| `EnvironmentDoctor` | profile commands and the doctor's report |
| `BackupAnchor` | backup generations of an anchor |
| `RecoveryWorkspace` | recoveries into a directory |
| `SnapshotApplyProofs` | theorems about `SnapshotApply` and `RecoveryWorkspace` |
| `ServiceProofs` | theorems about `DevicePairing`, `BackupAnchor`, `BackgroundProtection`, `EnvironmentDoctor`, `DesktopShell`, `ResourcePolicy` and `Scheduler` |
| `DataInduction` | facts about numbers, recursive functions and sums that the other proofs cite |
| `ProjectQueries` | the lists the agent answers over registry and databases, and those that merge several databases |
| `DesktopShell`, `EditorExtension` | the desktop page; the extension's commands, and the context of a window |
| `LocalMetrics`, `LogFiles` | reports, the log |
| `MCServices`, `MCClients`, other `MC*` | the instances TLC checks; several join parts that share no state |

### LeaseHandoff

A table is a function from ids to rows; an id without a row maps to a record
whose `state` or `kind` is `"Absent"`. `journal[h]` is the sequence of phases
recorded for a handoff, `transfers` the `LeaseTransferred` rows of the audit log,
`now` the clock. An action is one method, after its `COMMIT`: its guard is the
conjunction of the method's checks, because a failed check rolls back. Two cases
need more. `commit_handoff` on an expired handoff, or one whose source
generation changed, commits an *abort* and then returns an error
(`CommitRejected`); and `recover_handoff` reads in one transaction and acts in
another, so it is `RecoverRead` followed by `RecoverAbort` or `RecoverCommit`
with the clock and the generation of the read; `RecoverEnd` is the caller going
away at any point.

A lease starts as `upsert_lease` creates it (its only use outside tests would be
creation; the repository has no such caller), active or inactive. Devices,
generations and snapshots are opaque. `begin_handoff` turns a TTL of 0 into 1.

### SingleWriter

What a lease promises to the rest of DevRelay: while it is open its writer may
keep snapshots and advance latest; closing and reopening leave writer and epoch
alone; only a transfer changes the writer, by exactly one epoch, to a device that
is not barred. `Writer` in `LeaseHandoff` is the refinement mapping.

### AgentHandoff

One agent (device `Self`) and its project database. A thread of the agent is a
record in `calls`; a handler takes three steps: read the handoff's previous
state, run the `MetadataDb` method, publish the event and answer. `LocalOps` and
`RemoteOps` say which methods clients other than the desktop, and other devices,
call in an instance. The desktop commands are sequences of those calls; the
desktop acts on the *answer* of its last call (`Believes`), not on the table.
`CommandStops` is an error answer or the desktop's exit. A content version of the
workspace is the number of the edit that made it; a checkpoint's `state_hash` is
the version it captured; `ContextGeneration` stands for the editor's
`vscode-context-..` generations, which match no checkpoint.

`told`, `begun` and `applied` are history variables that only properties read,
and `boot` is what a client reads after a restart.

### SnapshotUpload

Every action is one write to one store. The upload is `MarkPending`,
`FetchObjects`, `FetchRef` (twice), `ImportDone`, chunks, manifest, root,
`VerifyData`, `PublishMetadata`, `FinishUpload`, and may stop between any two.
Cleanup and gc are sequences of their own; a cleanup removes the roots in their
order and may find one missing, and an import writes no ref without its object.
`cleanup_pending_snapshot_upload` asks for nothing but a marker, and nothing
outside the tests calls it. So the model calls it at any moment, with or without
the CAS, and `disturbed` remembers the snapshots for which it was called when it
should not be: with a row, beside an upload, or without the CAS of their sidecars.
The properties are about the others. `git gc --prune=now` is one step: what Git
does when a fetch comes between its reading of the refs and its deleting of
objects is not modelled.

### BackgroundProtection

The watcher's scan (`PollOnce`), its tables (`ObserveRawEvent`,
`DrainCoalesced`), the debouncer's due rules (`CheckpointDue`, `PublishDue`) and
the manager's checkpoint, in the order its statements take effect: the workspace
is read and the snapshot stored (`CheckpointCreates`, `CheckpointUnchanged`,
`CheckpointFails`), the anchor is tried, the result is recorded. Times are ages,
because the code only compares elapsed time; ages stop at the longest interval of
the policy. `unsaved` and `owed` compare the workspace with the latest snapshot;
only properties read them. The repository has no loop that drives these parts:
the loop here is the one their interfaces ask for (what a part returns goes to
the next), and the model says so wherever it depends on it.

### SnapshotApply

A workspace is HEAD, the index and the files; a tree gives
every path a content or `Absent`. `CreateSnapshot` and `VerifySnapshot` are
operators on a workspace. The apply is one action per Git command of
`apply_snapshot_inner`; `Stops` ends it before a command or with some of the
command's files written. What the Git commands do (`CheckedOut`, `Checkout`,
`CheckoutAllowed`, `Cleaned`) is external, and was compared with Git 2.39.
`Excluded` holds the paths that `classify_untracked_paths` leaves out when they
are untracked. The user writes, deletes and stages paths of the target,
between commands or while one runs. Ignored files,
sidecars, LFS, sparse checkouts, unmerged states and branches are left out (an
attached and a detached checkout change the same of the modelled state).

No commit has the content the user writes (`CommitAssumption`): that is what
tells the user's work from the snapshot's, and a user who writes exactly what the
snapshot holds loses nothing.

### SnapshotIdentity

`SnapshotApply` captures in one step, because there the source rests.
`SnapshotIdentity` is the capture beside its user, command by command in the
order of `create_snapshot`: the status, the check that no operation is under way,
`write-tree`, the copy of the index, the two `git add`s of the copy (what is
tracked, then what the status listed), the metadata. Each of them may fail, and a
store that is still empty has no earlier snapshot to compare with. The
status is read first, so a file that appears later is not looked for, and one
that is gone fails the `add`; only a change of the index between `write-tree` and
the copy gives a snapshot whose parts are of different moments (`torn`), and
`verify_snapshot` refuses it at every target.

The capture then goes to `checkpoint_if_changed`, which compares state hashes.
Its first section has the sequence of texts that is hashed, field by field with the
labels the code puts before them; BLAKE3 of two different sequences is different.
What could go wrong is in the sequence: two lists without a border, a field left
out. The branch is left out: after a switch of branches at one commit the
checkpoint says that nothing has changed (`StaleBranch`). `Earlier` is what other
callers have stored before: snapshots with sidecars, submodules and operations
capsules, which a capture does not make but the hash has to keep apart.

### ProjectQueries

A query is asked, reads and answers. `projects.*` answer from the registry alone,
in one step under the lock of the configuration. `recover.list` and
`environment.status` keep that lock while they read, the first the rows of one
project after the other, the second the hydration files, which other processes
write. The others copy the ids of the projects under the lock and then open and
read one project after the other; handoffs, leases and snapshots of one project
look it up again, so one that was removed meanwhile is unknown, and the lists of
snapshots and of the store do not ask the registry first. Handoffs are read row by row, each
with a journal that is read later, which is why a state and a journal of one
answer may be of different moments; the properties say how far apart they may
be. Pages of snapshots are sorted, then cut to the limit of the caller or the
method.

The second part has the lists that merge several databases (`activity.list`,
`runs.list`, `audit list` and `export`), which each database answers newest first,
while rows are recorded. `audit list` with a limit above what a statement returns
can leave gaps.

### Retention and SnapshotStore

`Retention` has one operator per function of `retention.rs`: what is retained on
its own (canonical latest, pinned, under a handoff's protection, hot, newest of
its hour or day), the walk to the retained parents, what is hard, the target, and
the pressure loop. The loop's running total is a set: a soft snapshot is given up
exactly if what was planned before it falls short of the target.

`SnapshotStore` has one action per git command or SQL statement. A checkpoint is
the capture (both refs in the source worktree), for `checkpoint_if_changed` the
comparison with the latest row, the import, the read of the parent, the insert,
and the removal of the two source refs. A prune is the plan, the read of the
latest row, and per decision the checks, two ref deletions and the `DELETE`. Both
may stop before each of these, and the fetch also in the middle.
Snapshots are numbered by their capture; the clock moves on by one per
capture. Sizes and measured usage are constants of the instance. What a caller
knows of the canonical latest and of handoffs is chosen freely, because no code
outside the tests calls the planner. Foreign keys are on (`MetadataDb::open`), so
an insert with a pruned parent and a delete of a new parent fail.
`dropped` is a history variable: the captures that some process set out to drop.

### Approvals, pairing, registry

`CommandTrust`: decisions are rows with a hash and a kind; a call is
`authorize_command_trust_at`, in two statements: it evaluates the newest decision,
and for an allow-once decision consumes it with an `UPDATE` that asks again
whether it is unconsumed. A call that lost that race evaluates once more and may
answer `ApprovedOnce` for a newer row without consuming it; the property is about
rows being consumed twice and rejections being passed over.

`DevicePairing`: processes of the command line create the fabric's secret file
(`create_new`, then the write), the identity rows, and start, confirm, abort or
expire a pairing session, each with the clock it read before its transaction.
`expire` overwrites a state it did not read (`storage.rs:1570`), which is why a
confirm or an abort may be followed by "expired"; a crash in the middle of the
secret's write leaves a file that every later command refuses.

`ProjectRegistry`: the agent and each command have a copy of the whole
configuration. The agent answers after it saved and ensured the root session.
`LocalConfig::save` is `fs::write`, which truncates the file and writes it again
(`config.rs:530`): `SaveFile` saves, leaves the file as it was, or leaves a
beginning of the text, which loads with the first of the projects and workspaces,
or does not load at all. So a save that is cut off loses rows that were answered
long before, and an agent that stops then comes back without them, or cannot start
before somebody mends the file; the running agent still has them in its copy, and
its next save writes them again. `AgentAnswersAreSaved` says exactly this much.
Others do not read the file while it is being written: a reader sees what a save
left, whole or cut off. The
model shows the lost update that `RegistryRestart` reports (`DeviceListSpec`: the
agent, its restarts, and a command that only lists devices); smaller things it
shows: a refused editor command of `settings.update` and a failing save leave the
change in the agent's memory, the removal of a project's last workspace is undone
by the backfill, and two concurrent `ensure_default_session` calls can make two
roots.

### Journal, channel, events, socket

`CrashJournal`: the file is a sequence of what was written; an append is the
record, the end of the line, the sync. Of the eleven phases four are kept: two
that are not terminal and two that are and follow each other. One writer at a time
is assumed, as in the code's tests, its only callers. A torn record followed by
another append makes the journal unreadable; the property says when.

`ControlChannel`: credentials, frames over mutual TLS (the handshake is a
library), the checks of `process_remote_frame` and the dispatch, one thread per
connection. Revocations are read before the replay cache is locked. The window of
the cache and the allowed skew are the same constant in the code. A nonce is used
up by a method that is refused afterwards, and a restart empties the cache: the
property is about one run of the agent, and about senders whose clock is not
ahead.

`AgentEvents`: the log of one agent process, cursors, subscriptions that copy the
log and then register a channel, one thread per connection. A cursor from an
earlier run of the agent hides the events with smaller numbers (`events.rs:138`);
the `Gap` message is never used; log and channels are unbounded. A client
subscribes again after its old connection has ended.

`AgentIpc`: processes that probe, remove, bind and serve one socket path, and
clients with time limits and `--direct`. Two agents that start at the same moment
at a stale socket can remove each other's; the property excludes this by history.
Every connect error except a denied permission counts as a stale socket; a client's
time-out does not stop the handler.

### Task fabric and environment

`TaskExecution`: the process group, the two readers, the loop that polls, the
spool and the buffers, with exit, time limit and cancellation at any moment. A
sink that fails ends `run()` and leaves the child; a descendant that holds a pipe
holds the join of the readers. A reader decodes what each read of the pipe gave it
by itself (`String::from_utf8_lossy`, `task_runner_execution.rs:407`), so a
character whose bytes come in two reads is replaced in both: `SplitAfter` says
which pieces end inside a character, and `ResultsAreComplete` compares with what
was written through `Decoded`. A reader ends at a failed read too, and what comes
after is lost without a word. Cancel and time limit kill the process group
(`kill -KILL -pid`), or the child alone where there is none, or nothing if the call
fails: a descendant outside the group survives and may hold the pipes.

Its second part: artifacts, the roots that pin them, the index and the cache, of two
runs with a file in common. A cut-off capture leaves roots retention never finds;
a torn cache entry fails its lookups.

`CodeChangingTask`: plan, changes, declared tests and summary. The six Git
commands of the change set (head, log, name-status, status, and the two diffs, the
first only if there are commits) are an action each, any of which may fail, beside
a task that still edits, moves, stages, commits or resets. Tests may run before,
during or after the capture, so a success may describe a workspace they changed; a
runner that fails loses the results before it; no tests at all is a success; an
untracked file is listed and is not in the diff. Git's answers come decoded lossily
and without white space at their end (`git.rs:175`), and names with special
characters come quoted: `Printed` and `Quoted` say what that does to a text or a
name. The newest commit is not counted if it has no subject, because its line loses
its tab, and if it is the only one the diff of the commits is not asked for. Names
that are not UTF-8 or end in white space are left out. Of a renamed file only the
new name is listed, and a task that reset to before the base, or whose newest commit
has no subject, has a change set that says nothing: the property is about the rest.

`Scheduler`: constraints, the eleven component scores with their integer
divisions, weights and the tie break. Class `Background` is never inferred, and an
unmeasured signal may score better than a bad one: the property is about
measurements that get better.

`EnvironmentDoctor`: profile selection, the adapters' commands down to the child
process and its pipe, and the report. Under a time limit the pipe is not drained,
so a chatty command blocks and is killed. A Nix profile without a flake and a
native profile give no issue. Secret files are written one by one
(`secret_provider.rs:143`) and stay when a later one fails.

The repository calls `CrashJournal`, the task fabric, the change set and the
scheduler from tests only; they are modelled as those tests call them.

### Snapshots on their way

`SidecarTransfer`: chunks of large files and of LFS objects, captured while the
user writes, applied while chunks get lost. A capture takes files before objects;
an apply goes in the order of the paths, where an object is under `.git`, so that
the model takes any order. A cut-off apply leaves a temporary file beside its
target, which makes the work tree dirty if that is a large file. A file written during its capture
becomes a torn sidecar of the same size, or one of another size that every apply
refuses. An LFS object whose file is smudged is not seen; sidecars that were
written make the target dirty, so that a retry after a failure is refused; in a
linked worktree `.git` is a file and LFS sidecars fail.

`SnapshotTransfer`: measurement, selection, fetch, selection after a failure, with
sources that go and come. Only tests call the selection; the caller between the
two calls is the one they play. `source_online` does not say that the source has
the snapshot. An import over the quota answers an error and leaves its refs.

`PathPortability`: a path is a sequence of names, a name its letters, case,
Unicode form and what Windows objects to. What the check finds is compared with
what Git then does on a target that folds names. The check compares whole paths,
so it misses a file beside a directory that differ in case only, names that differ
in case and form at once, and the names of HEAD, which are checked out first; the
property lists exactly these. Path lengths are left out.

`OperationCapsule`: markers, unmerged stages and conflict files, read one after
the other, and their restore. `create_snapshot` stores no capsule
(`snapshot.rs:185`); only tests call it. The first marker wins, so a
multi-commit cherry-pick in conflict is captured without its todo list;
`infer_step` counts a rebase's current command twice.

`SubmoduleSnapshots`: inspection, child snapshots, the parent's snapshot, pins,
and the retention of every store. A submodule that is not checked out answers for
the repository around it, so it is shown as dirty whenever that is, and the
checkpoint fails. Nesting deeper than four, and unpushed commits of a clean
submodule, are not captured.

### Backups and recoveries

`BackupAnchor`: copies of metadata, repositories and chunks in that order beside a
working anchor, the signed manifest, the rename; verify, restore and promote.
Backups of one second share a staging directory. A restore that was cut off cannot
be tried again, stale staging directories stay, and the promotion its message
advises (CLI 1574) cannot be run then. Only tips of refs are checked. Damage
between verify and copy is left out.

`RecoveryWorkspace`: `recover.open` as its checks, clone, apply, audit row
and registration, with two calls at one directory and ends of the agent. The
registration saves the configuration as `ProjectRegistry` has it: it may leave the
file cut off, without rows of earlier recoveries. `RecoveriesAreTrue` tells the
agent's copy, where an answered recovery stays until the process ends, from the
file, where it is unless the last save was cut off. A call
whose audit row or registration fails answers an error although the files are
there; a half-applied directory is refused as dirty.

### Views, reports, log

`DesktopShell`: the page, its commands one after the other on the main thread, the
bridge thread, the debounce and the tray. Each call of a bootstrap may fail, with
the agent down or up: a time-out (2 or 30 seconds, `ipc.rs:20`), an answer above
1 MiB (`ipc.rs:89`), an error of the agent. Its list is then empty and its error
shown, and nothing asks again: `RestingPageIsCurrent` says that a page at rest
shows what the agent would answer now *to the calls that did not fail*, and that
none failed because there was no agent. A handoff command whose answer is late is
shown as failed although it was done. A success is shown in whichever dialog is
open (`app.js:2378`); a refresh starves under events without a pause; changes the
agent does not announce are not shown, which the property allows for.

`EditorExtension`: commands as chains of awaits in several windows over one secret
storage and one audit log. Unsaved texts stay on their device: the capsule is in
the editor's secret storage (`unsavedBuffers.ts:131`). A restore loads it, opens one
untitled document after the other, and deletes the secret when all are open; each
step may fail and the window may close anywhere. `UnsavedTextStays` says that a text
is on a screen or in the capsule until one of four things happens: its user gives
it up; its user gave up what a restore had opened, which then finishes; a newer
capture without it replaces the capsule; or a restore finishes that had read an
older capsule, for the deletion does not say which capsule it means. The last is a
race of the code (`extension.ts:282`): a capture stored between another restore's read and
clear is deleted. TLC reaches each of the four. An older refresh overwrites a newer status
(`extension.ts:163`), and a handoff may be begun with a context older than an edit.
Its second part is the content of a context under its limits: folders, tabs,
breakpoints, the active editor. A restore does not look at `truncated`, so a
cut path may open another file, which the property allows for.

`LocalMetrics` reads tables statement by statement while handoffs go on:
`metrics.export`, of the agent or of the command line, the handoffs and then each
journal, `diagnostics.export` the leases before them. A statement of metrics that
fails ends the call; diagnostics notes it and goes on. Checkpoint successes fall
after a prune, and audit rows are limited to 1000, so these counts can fall; they
are left out.

`LogFiles`: appends and the removals and renames of a rotation, each of which may
fail or be the last, and the last lines that diagnostics read, once as lines and
once for the exit codes of Git commands. One process writes; an agent that finds
the socket taken starts its log before it knows (`main.rs:402`) and is not
modelled. A removal that fails stops all logging.

### Resource policy

`ResourcePolicy`: the limits of a profile, or those a user wrote, capped on
battery, under a busy foreground and in low power mode, in that order, and
`doctor resources`, which asks the machine with three commands while it is plugged
in and out and worked on; a command that fails leaves the default. `custom` without
limits falls back to the adaptive ones, and a file with a limit of zero does not
load.

## 3. Runs

| Run | Checks | Instance |
|---|---|---|
| `Handoff` | `HandoffOwnsLease`, `CanonicalHistoryIsFenced`, `HandoffsAreTold` (`JournalInOrder`, `RecoveryTellsTheTruth`), `ImplementsSingleWriter`, `HandoffFreezesLatest`, `RevokedNeverGains` | two halves: two devices, two leases, two handoffs, two snapshots, revocation; or one handoff, two recoveries, clock past the expiry |
| `AgentEdit` | `TargetAppliedBeforeCommit`, `AcknowledgedEditEndsHandoffs` | this device as source and target, two threads, an edit, commands that stop and are retried, restarts, revocation |
| `AgentRecover` | `CommittedAnnounced`, `AgentUsesMetadata` | continue commands, recover, abort, expiry, restarts |
| `Background` | `NoEditForgotten`, `EditsGetProtected` | one workspace, one path, failing checkpoints, flushes, a loop that runs, a user who edits for ever, the workspace registered again |
| `Apply` | `QuietApplyVerifies`, `CapturableWorkSurvives`, `VerifiedMatchesSource` | every source over three paths (tracked, added, excluded), two edits at any moment, two applies, all policies, failures |
| `Store` | `RowsAreWhole` (`KeptSnapshotsRestorable`, `LineageGrounded`), `CapturedWorkReachable`, `PlansAreSound`, `SequenceNeverFallsBack`; `CheckpointsKeepTheWork` (`OnlyIndexChangesTear`, `AnsweredWorkIsKept`), `HashesTellStatesApart` | two checkpointing processes, a pruner, three snapshots, one crash, pressure and no pressure; or one capture: two files, one of them excluded when untracked, two contents, two branches, two steps of the user anywhere in a capture, earlier snapshots with every field of the metadata |
| `Services` | one property per service, below | eighteen parts, one of which runs |
| `Clients` | one property per group of parts, below | thirteen parts, one of which runs |

`Services`, `Clients`, `Store` and `Handoff` are disjoint sums: the initial state
chooses a part, only that part takes steps, the other variables stay as they start. The parts share no
variable, so their interleavings would add products of states and no behaviour;
one run of a sum asks the same as a run per part. (The halves of `Handoff` are one
system in two sizes: what moves latest, and what moves the clock.) A property of a part holds
trivially while another part runs, and speaks about its own part when that runs.

| In `Services` | Property | Bounds of the instance |
|---|---|---|
| `CommandTrust` | `ApprovalsAreSpentAndCurrent` | two hashes, two callers, three decisions: an allow-once, one after it, a rejection between |
| `DevicePairing` | `PeersArePairedOnce` | three commands, one session, clock past its end |
| `ProjectRegistry` | `AgentAnswersAreSaved` | two workspaces of a project; the agent alone, with every save cut off anywhere; or the agent and one command, whose save is the first to be cut off |
| `ControlChannel` | `RequestsRunOnce` | one frame, two connections, clocks over more than two windows |
| `TaskExecution`, `CodeChangingTask` | `TaskReportsAreTrue` (`ResultsAreComplete`, `ArtifactsBelongToTheirRun`, `ChangeSetIsTheWork`) | two streams of two chunks with limits of two, one of them with a character in two chunks; two runs with one file in common and one of their own; two files, one with a name that Git quotes, a content that does not survive printing, three steps of the task |
| `Scheduler` | `BetterSignalsKeepTheTask` | two devices, two changes of signals, every task |
| `BackupAnchor` | `RestoredAnchorsAreWhole` | two backups of one second beside one publish; one backup beside revocations |
| `AgentEvents` | `StreamsHaveNoGaps` | two clients, two events a run, two runs, two subscriptions each |
| `EnvironmentDoctor` | `CleanReportsAreEarned` | four profiles, a pipe of one, output of two, a time limit of one |
| `SubmoduleSnapshots`, `OperationCapsule` | `GitStateTravels` (`PinnedTreesAreWhole`, `ConflictsTravel`) | a submodule in a submodule, two checkpoints; two paths, every kind of stages, one step of the user |
| `CrashJournal`, `LogFiles` | `AppendsAreKept` (`ReplayKnowsEveryPhase`, `LogKeepsTheNewest`) | two operations, five appends, two cuts; four settings, six lines of two sizes, of Git and not: two rotations, the second over the gap of the first |
| `ResourcePolicy` | `StrainNeverRaisesLimits` | one, five and twelve cores, every profile, limits of zero, six slots and 3000, one change of the machine at any moment of the doctor |

| In `Clients` | Property | Bounds of the instance |
|---|---|---|
| `LocalMetrics`, `ProjectQueries` | `TablesAreReadTrue` (`ReportsAgree`, `TransferListsAreTrue`, `SnapshotListsAreTrue`, `RegistryListsAreTrue`, `ListsAreNewest`) | one project, two reports; two projects, one workspace, a query, three changes of what it reads at any moment of it, a page of one and one cut to two; three rows, limits below, at and above |
| `EditorExtension` | `EditorStateTravels` (`UnsavedTextStays`, a property of steps; `SuccessUsesUp`, `ContextSurvives`) | captures and restores in two windows, with two texts, each shown by one window or captured before, two commands under way, three in all, up to three audit records, contexts captured in one window; the other commands, of one window without unsaved texts; windows of up to two groups with two tabs, limits that fit and that cut |
| `SidecarTransfer`, `SnapshotTransfer`, `PathPortability` | `TargetsGetWholeSnapshots` (`WorkingRouteIsFound`, `SidecarsArriveWhole`, `RefusedBeforeTouched`) | a file, an LFS object, two writes, two applies; three changes of the world; six names alike in every way the check knows, up to two of them per tree |
| `SnapshotUpload` | `UploadsAreAccounted` (`PublishedDataPresent`, `LeftoversMarked`) | one snapshot of two sidecars that share a chunk, two uploaders, cleanup at any moment, gc |
| `DesktopShell` | `RestingPageIsCurrent` | two stirs: changes, restarts, clicks, calls that fail with the agent up; up to two commands of the page under way or just answered |
| `RecoveryWorkspace` | `RecoveriesAreTrue` | two directories, two snapshots, two calls, one end of the agent |
| `AgentIpc` | `OneAgentAnswers` | three processes, one call |

Type invariants are not run by themselves: those of `LeaseHandoff`,
`AgentHandoff`, `SnapshotApply`, `SnapshotIdentity` and `SnapshotUpload` are
proved (section 4), the others are part of the inductive invariants there, or are
evaluated with the properties, which read the variables.

The bounds of the other runs: two handoffs let a second one start after, or be
refused during, the first; `MaxTime` passes the longest TTL so that expiry happens
on both sides of a commit; two snapshots per run give canonical history over two
epochs, or one canonical and one stale or forked; two threads or uploaders give
every pairwise race, and no handler waits for more than one other; one edit before
and one after a checkpoint are the same edit to the agent, which only compares
generations; two applies are a failed one and its retry, and an edit and its
staging give every combination of index and file. A generation of the watcher
that is checkpointed and restarts is enough for a smaller one to follow. Three
snapshots give a parent with two children (one of them stale), a sibling that
retention gives up, a parent pruned under a checkpoint that has read it, and a
chain of two generations for the planner's walk; the proofs of section 4 cover any
number.

Symmetry is used in the `Handoff`, `Agent*` and `Store` runs (devices that no
constant names, handoffs, recoveries, writers, hashes), whose properties are all
safety. Deadlock is checked in the handoff, agent and `Background` runs. It is not in
`Apply*`, where a dirty target under the block policy stays refused until its user,
whose edits are bounded, does something; in `Store`, which may be left alone; and in
`Services`, `Clients` and `RegistryRestart`, whose parts end when their commands,
calls or bounds are used up, as the captures of `Store` are.

Four runs show where the code does something else than a document or a test says
(`expect: violation`, details in `PROJECT.json`, `findings`):

- `AgentStaleTransfer`: an edit acknowledged between the checkpoint and
  `handoff.begin` of one `handoff_prepare` is not in the work whose lease is then
  transferred (`docs/north-star-checklist.md`).
- `RegistryRestart`: a command that only lists devices saves the configuration it
  loaded; a project added in between is gone after the agent's restart
  (`crates/devrelay-agent/tests/agent.rs`).
- `ApplyFork`: `git clean -fd` deletes untracked files of a dirty target that its
  backup excludes (`docs/data-loss-safety.md`).
- `StaleBranch`: after a switch of branches at one commit the checkpoint finds
  nothing changed, and the latest snapshot goes on naming the old branch.

Smaller divergences met while modelling the handoff and the snapshots, which have
no run of their own (those of the other parts are in section 2):

- A commit that finds its handoff expired aborts it without the journal entry
  that `docs/recovery-policy.md` asks for (`JournalInOrder` allows for it), and
  the agent's handler returns its error before the `handoff.state.changed` event
  of `docs/api-surface.md` (`CommittedAnnounced` is about commits for this
  reason). Nothing in the agent recovers an expired handoff by itself.
- Cleanup of an upload does not look at the snapshots table: after a crash between
  the commit of the row and `finish_snapshot_upload` it would remove the refs of a
  published snapshot (`snapshot_upload.rs:102`). Nothing but tests calls it.
- A snapshot whose import into the anchor failed is not imported by the next
  checkpoint, which finds nothing changed and reports success.
- A workspace that is unregistered and registered again starts with generation
  one, although its tables may hold a later one (`watcher.rs:118`).
- The apply checks the target's status once; the reset overwrites an edit made
  later (`CapturableWorkSurvives` is about edits made before the command).
- `checkpoint_if_changed` drops a capture whose state the latest snapshot has;
  once another checkpoint with an older parent is stored, that snapshot is a
  childless sibling, which a plan may give up.
- A retained snapshot retains all its ancestors, so along a line of checkpoints
  nothing is ever outside retention; and a plan lists parents before their
  children while `prune_snapshots` stops at the first snapshot that has one, so of
  a side branch only a single snapshot can be pruned.
- A `DELETE` refused for a new child comes after the refs are gone: the row stays
  and cannot be restored (`KeptSnapshotsRestorable` is about the newest and the
  pinned rows for this reason).
- `git checkout -B` moves a clean target's branch away from commits that only the
  target has.

Fairness. `BackgroundProtection!FairSpec` is the only fair specification: the
watcher's scan, the loop's steps and time are weakly fair, because a running loop
takes them whenever they are possible; the user's edits, flushes, registration
and failures are not. Everything else is safety. Nothing in the code retries or
recovers a handoff by itself (an expired one waits for a client), the debounce of
the desktop page starves under events without a pause, and the joins of a task
wait for whoever holds its pipes: no scheduling would justify a liveness property
of these.

## 4. Proofs

The theorems hold for every value of the constants: any number of devices, leases,
handoffs, snapshots, files, chunks, frames, connections, clients, processes,
paths, directories and callers, and any bound. The assumptions are the named
`ASSUME`s of the modules. Most say that `None` is no id, that TTLs and bounds are
naturals, and that `Handoffs` and `Snapshots` are finite, because sequence numbers
and epochs count them. Those with more content are `VersionAssumption` (edits
number the generations of a workspace, and the editor's own generation is none of
those), `ContentAssumption` with
`CommitAssumption` (commits hold trees, and none of them what the user writes: an
edit is told by its content), `EarlierAssumption` (a snapshot made earlier verifies
once it is applied, unless its capture was torn), `PathsAssumption` (a path is a sequence of
names) and `RetentionAssumption`. TLC evaluates all of them on the instances.

A component that runs only inside a composition has its own specification, `Init
/\ [][Next]_vars` of that component: in its module (`ChannelSpec`, `TrustSpec`,
`IdentitySpec`), or in the proof module (`PairingSpec`, `BackupSpec`, `DoctorSpec`,
`IpcSpec`, `RegistrySpec`, `EventsSpec`, `JournalSpec`, `LogSpec`, `RecoverySpec`,
`SchedulerSpec`, `DesktopSpec`). A composition lets its
components take exactly these steps.

`LeaseHandoffProofs`: `TypeCorrect`; `HandoffOwnsLeaseAlways`;
`EpochFencesHolderAlways`; `ImplementsSingleWriterAlways`;
`HandoffFreezesLatestAlways`; `RevokedNeverGainsAlways`;
`CanonicalHistoryIsFencedAlways`; `JournalInOrderAlways`,
`RecoveryTellsTheTruthAlways` and, of both together, `HandoffsAreToldAlways`.
`HandoffOwnsLease` with `TypeOK` is inductive: a pending handoff names a lease
that names it back, so `begin_handoff` cannot meet another pending handoff of its lease, and the guarded
update of a commit always finds the epoch the handoff expected. The epoch theorem,
the refinement and the two action properties are step properties of that
invariant: `StepShapes` says which few writes a step can consist of, and a lemma
per column says what each of them does to it. A commit is the only step that
changes a holder, and it finds the lease closed at the expected epoch and its
target not revoked; only a publish moves latest, and it finds the lease open.
`RecoveryTellsTheTruth` is inductive with `TypeOK`: an answer is true when it is
given, and a finished handoff stays as it finished (`EndingsFinal`).
`CanonicalHistoryIsFenced` is inductive with `TypeOK`, `HandoffOwnsLease` and
`NumbersInOrder`: epochs start at the first one, a transfer is one epoch long, and
sequence numbers in use lie below the next one. A new canonical row is therefore
the newest, at the epoch of the holder who publishes it, and the transfer a commit
records closes exactly the epoch that ends. `JournalInOrder` is inductive with
`TypeOK`: each method appends the phase that the state its guard has read calls
for (`JournalShapes` lists which), and nothing is appended to an ended handoff.

`AgentHandoffProofs`: `AgentTypeCorrect`; `AgentUsesMetadataAlways`;
`AcknowledgedEditAlwaysEnds`; `TargetAppliedAlways`; `CommittedAlwaysAnnounced`.
`AgentUsesMetadata` is a refinement: every step of the agent, its threads
interleaved, is a step of `LeaseHandoff` or leaves the tables alone
(`AgentStepIsNext`), so all that `LeaseHandoffProofs` says of the tables holds of
them under the agent. The other three need what a thread knows between two
acquisitions of the lock:

- `EditInv`: a report of the editor that has listed the handoffs still has in its
  list every pending handoff of this device that was begun before its edit. When
  the list is empty and the edit is acknowledged there is no such handoff, nor will
  there be: one that begins later is begun after the edit.
- `AppliedInv`: a handoff past its verification has been applied if this device is
  its target, and a call that is about to report one comes after
  `apply_snapshot` of the generation of its row. The theorem assumes
  `"verify" \notin LocalOps`, that no other local client of the device reports a
  verification by itself. The socket would accept one, which the model includes.
- `AnnounceInv`: a committed handoff that was not so at the start has its event,
  or a thread that is about to send it. A call that already found it committed
  (`previous`) has nothing to announce, and the thread that did change it has.

`ClientProofs`, about what reaches the anchor, what reaches a target and what
the readers of an agent's tables are told:

- `TypeCorrect`; `PublishedDataPresentAlways`, `LeftoversMarkedAlways` and, of both
  together over the composition, `UploadsAreAccountedAlways`: of any number of
  uploaders beside a cleanup and a gc at any moment. Neither invariant is inductive: a publish
  needs what verification saw to be there still. `DataInv` adds that an upload
  between verification and publish has its data, that an upload in progress has a
  marker until there is a row, and that a cleanup works on a snapshot with
  neither; each of a snapshot that no cleanup has disturbed. That a gc keeps what a
  snapshot needs holds without this condition on the others, because a chunk of two
  snapshots stays as long as one of them has its root.
- `TargetsGetWholeSnapshotsAlways`, from three invariants. `RoutesInv`: a route that
  went on working since before the measurements was measured and not rejected, and
  none that failed is such a route, so the choice after a failure still has it.
  `SidecarInv`: each manifest that a capture, the snapshot or a finished file of the
  target names is the content it says, and its chunks were stored when it was
  written; a chunk that is gone by the time of an apply makes that apply fail.
  `PathsInv`: if the target keeps all the snapshot's names apart (`Smooth`), every
  file that Git has written so far is still in its place with its content, and an
  apply that fails on a target the check let through is one where they are not.
- `TablesAreReadTrueAlways`, from three invariants of what a reader knows between
  two of its statements. None asks that the tables stand still: each says what of
  the rows read *stays* true, because tables only go one way (`TablesFollow`: a
  journal now begins with the journal of before, an ended state stays, an epoch
  never falls, a new snapshot has a number above all).
  `MetricsInv`: a state read may have become the state of now (`MayBecome`), and a
  journal read later tells of a state between the two, so a handoff counted as
  committed is counted as verified, and a report has no less than one that had
  ended before it was asked for.
  `QueriesInv`: of each project still wanted, either it is not opened yet or every
  row that was there when the question came is on the page or waits for its
  journal, and each row shown lies between the row of the question and the row of
  now; a page cut to its limit is full and has only newer snapshots than those left
  out (`TopIsFull`, `TopIsSmall`); a call that keeps the lock of the configuration
  is the one that holds it, so the registry it reads is the one it answers for.
  `ActivityInv`: a row that was there when the list was asked for and that its
  database, once read, did not answer has as many newer rows before it as the limit
  allows, so it is not among the newest of all either. The lists are about limits from 1 to `RowLimit`, what a
  statement returns at most; above it `audit list` can leave gaps, as section 2 says.
- `ClientsInv` carries these six invariants, `TypeOK` and `DataInv` to
  `ClientsSpec`, in which every other part may take its steps as well.

`SnapshotStoreProofs`: `KeptSnapshotsRestorableHolds`, `LineageGroundedHolds` and,
of both together, `RowsAreWholeHolds`;
`SequenceNeverFallsBackHolds`, `CapturedWorkAlwaysReachable`, for any number of
processes of both kinds and any
retention policy: the plan enters only as a set of listed snapshots. The
inductive invariant adds to the two invariants that no two rows share a sequence
number and a newest exists (`TableOrdered`), that a checkpoint alone knows its
snapshot until the insert and has imported it before (`CheckpointsOwn`), and that
what a prune still has in hand is unpinned and below some other row, unless it is
the latest it read and refuses (`PrunesOutranked`). The last one is why one read
of the latest is enough: a later insert only outranks more rows, and deleting an
outranked row leaves the newest where it is. `ReachInv` adds for the captures that
a checkpoint removes its refs from the source worktree only when it has dropped
the capture or the store has both, and that a prune removes them from the store
only for what it has dropped.

`PlansAreSoundAlways` is about the planner, for any listing of the rows that those
steps can reach and any policy, protections and sizes. The snapshots that are kept
are closed under parents after one pass because rows are listed newest first and a
parent comes later in the list (`RetainedIsClosed`); what is reclaimed is a sum over
the list up to the place where the target is met (`ReclaimedIsSum`,
`ReclaimedGrows`, `MetTarget`), so one snapshot fewer would not have been enough.

Its second part is about `SnapshotIdentity`: `IdentityTypeCorrect`;
`TornOnlyByIndex`, `QuietWorkIsKept` and, of both together,
`CheckpointsKeepTheWorkAlways`.
`TearInv` says what a capture has read so far and whether the user has moved since
(`CaptureIsWhole`): a capture verifies unless the index changed under it. `KeptInv`
says that a capture nobody disturbed describes the workspace as it is, that the
latest row is a capture that was hashed, and that the work an answer stands for is
in it. The theorem assumes `HashTellsStatesApart`, that two captures with one hash
say the same; for the captures of the instance TLC evaluates that
(`HashesTellStatesApart`, and `HashAssumption`), for all captures it is what a
collision-free digest of an injective encoding gives.

`SnapshotApplyProofs`: `ApplyTypeCorrect`; `CapturableWorkSurvivesAlways`;
`QuietApplyVerifiesAlways`; `VerifiedMatchesSourceAlways`; `RecoveriesAreTrueAlways`.
`ApplyInv` has one part per theorem. `DriftInv`: while Git writes a tree, each file
is the tree's, the user's, or gone, and a path outside the index is the user's.
`QuietInv`: without edits each step leaves just what the next one starts from.
`KeptInv`: from the backup on, what the user wrote before is in a backup, and what
is written later stays, because the steps that clean a workspace refuse or leave
untracked files. `RecoveryInv`, for `recover.open`: what the later steps of a call
rely on has a successful row in the audit, what is registered was recovered, and
one call at most has registered a directory, since the next finds it registered
under the lock. The agent's copy of the configuration has whatever was registered,
and so has the file unless its last save was cut off; all of that ends, and the
theorem says so, when an agent starts from a file that was cut off (`reloaded`).

`ServiceProofs`, one part per service:

- `PeersArePairedOnceAlways`: `PairingInv` says that every fabric there is (of a
  bundle in memory, a root, a session, this device's identity) is the one in the
  secret file, which only the process that created it writes; that sessions in use
  are rows; and that an answered abort and a confirmation in time stay.
- `RestoredAnchorsAreWholeAlways`: `BackupInv` says of the anchor that every row has
  its sidecar and every sidecar its refs; of a run that each of its copies has
  what the database it copied first names; of a generation that its manifest lists
  that much; of a restore what it has copied at each step. The anchor stores refs,
  then the sidecar, then the row, and a backup copies in the opposite order, which
  is why a restored home has all of its rows. A promoted home lacks only revocations younger than
  `MaxAge` at the promotion.
- `NoEditForgottenAlways`: `ProtectionInv` says of every path that is owed a
  snapshot that it is on its way through the pipeline, or the workspace is failing
  and shown so, or dirty with something on its way; and that a checkpoint which is
  being recorded as a success took all that was owed when it read the workspace.
- `CleanReportsAreEarnedAlways`: `DoctorInv` says that a doctor that still works
  has seen only commands that succeeded, and which ones.
- `RestingPageIsCurrentAlways`: `PageFollows` says that something will still make
  the page refresh (an event that is on its way, a timer, the connection that is
  away); or a refresh on the main thread has not read yet or has read leases that
  still hold; or none is there and the last one answered, or shown, is what the
  agent would say now to the calls that did not fail, and none failed for want of
  the agent. A call that fails while the agent is up (its time is over, its answer is
  too long, it is an error) is not made again, so what it asked for stays unread on the
  page, with its error, for as long as nothing else makes the page refresh. The rest
  holds because every change has its event and the commands
  run in turn: a refresh asked for later is answered later, so an older answer
  never overwrites a newer one. `SpinnerEnds` says the same of "refreshing".
- `StrainNeverRaisesLimitsAlways`: each cap keeps the order of two limits and lowers
  or keeps a limit, for any number of cores; so whatever is capped for more reasons
  ends with no more, and what the doctor shows is the limit of a strain that the
  machine was under while the doctor asked.
- `BetterSignalsKeepTheTaskAlways`: every component score grows with the
  measurement it is computed from, products and quotients by a positive number keep
  that order, and so does the sum of the weighted components; constraints that
  held go on holding. Then the device is ahead of every other one as it was before,
  the tie break included.

`DataInduction` has the facts about numbers and recursive functions that these
proofs need and the provers cannot find. Induction over naturals is proved from
sets instead of an operator parameter (a set that holds 0 and, with n, n + 1, holds
every natural: `NaturalsGrow`); from it, that a function defined by recursion exists
and unfolds, that finite sums grow with their terms, and that products and quotients
grow with theirs.

`AgentProofs`, one part per component of the agent process:

- `RequestsRunOnceAlways`, for any
  replay window of at least a second. The inductive invariant
  says that a nonce was seen no earlier than the time its frame says, unless the
  sender's clock was ahead, and that a frame whose request has run, or is about to,
  is remembered or has become too old (`RunsAreUsedUp`). A nonce is forgotten only
  when more than the window has passed since it was seen; the frame is then too old
  to be timely (`PruneFacts`): this is where the two windows have to fit.
- `ApprovalsAreSpentAndCurrentAlways`. Between its two statements a call knows a
  row that was the newest of its hash when it read (`CallsSound`); rows are only
  added and only ever become consumed, so this stays true, and a call that finds
  its row consumed reads rows at least as new. A row some call has taken is
  consumed, so the UPDATE's `IS NULL` keeps a second call from taking it.
- `OneAgentAnswersAlways`. `IpcInv` says that, unless two starts overlapped, one
  process at a time is between the probe and the bind, and the one that removes the
  socket removes a dead one; and how often the operation of a call has run at each
  stage of its connection, which is why a client without contact may run it itself.
- `AgentAnswersAreSavedAlways`. `RegistryInv` says that, while no command line wrote
  over the file and no agent started from one that was cut off (`interfered`), the
  agent's copy has everything that was answered or is about to be, so that each later
  save that ends writes it again, and the file has it too unless its last save was
  cut off.
- `StreamsHaveNoGapsAlways`. `EventsInv` says of each connection that what its
  thread has still to replay and then to take from its channel are together the
  last events of the log, without a gap or a repetition, and that the client has
  all of those before, from its cursor on. Replay and subscription are under one
  lock, which is why no event falls between them; a restart, which starts a
  shorter log, is why a client's cursor may lie beyond the log's end.
- `AppendsAreKeptAlways`, over `ServicesSpec`, from the two theorems
  `ReplayKnowsEveryPhaseAlways` and `LogKeepsTheNewestAlways`. `JournalInv` says that
  the *synced* part of the file alone tells the last reported phase of each
  operation, or the next one, or nothing of one that may be finished (`Tells`), and
  that each record beyond it is the phase its operation takes next; so whatever a
  power failure leaves between the synced part and the end tells no less
  (`LongerTells`). Numbers rise along the file (`InSequence`), which is why the latest
  record is the last one, and why the records that a cleanup keeps fill the temporary
  file in their order (`RetainedFile`).
  `LogInv` says that there are numbers at which the files end, each file's lines
  numbered on from the file after it (`NumberedBy`); a rotation that stops anywhere
  leaves empty files, which end where they begin (`LastGoes`, `OneMovesOn`). What was
  shown of Git stays complete because lines only leave the files, and newer lines
  have greater numbers (`RecentHolds`).

`EditInv`, `AppliedInv` and `AnnounceInv` also hold when TLC is given them as
invariants of the runs AgentEdit and AgentRecover, `Inv` and `ReachInv` in Store,
`ApplyInv` in Apply and `DesktopInv` for the desktop of Clients (with any values for the constants of the components that
the proof modules bring along).

Only model-checked:

- liveness: `EditsGetProtected` rests on fairness and so on `ENABLED`;
- what selections, foldings and recursive functions over sequences compute:
  `ContextSurvives` of `EditorStateTravels`; `ResultsAreComplete` of
  `TaskReportsAreTrue`; `PinnedTreesAreWhole` of `GitStateTravels`;
- `HashesTellStatesApart`, which speaks of the captures of an instance and, for all
  captures, is an assumption.

## 5. Plan

Done: the modules of section 2, the runs of section 3, the proofs of section 4.

Next, in this order:

1. Proofs: those halves of the last properties that need no induction
   (`UnsavedTextStays`, `ArtifactsBelongToTheirRun`, `ChangeSetIsTheWork`,
   `ConflictsTravel`).
2. `SnapshotStore` composed with `BackgroundProtection`, whose manager calls
   `checkpoint_if_changed`, and with `SubmoduleSnapshots`, whose child stores are
   such stores.
3. `RecoveryWorkspace` composed with `SnapshotApply`, for the half-applied
   directory.
4. Two agents that write one log, and two that start at one moment.

Not modelled, and not planned:

- plans and parsing that keep no state: Nix delegation and build plans, manifests, path budgets, the classification of
  untracked files beyond the set it yields, argument parsing, schemas;
- the doctors that report what a configuration says: sparse checkouts, line
  endings, WSL, Git itself; service files; mDNS discovery;
- redaction, formats and rendering, which are functions of text;
- the hydration state machine, which validates one record and has no writer
  outside tests, and the chunk store's own garbage collection, which has no
  caller.
