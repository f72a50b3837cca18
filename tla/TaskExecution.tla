---------------------------- MODULE TaskExecution ----------------------------
(* One task run on the host: the process group of its command, the threads  *)
(* that read its pipes, the loop that waits for it, the log spool, and the  *)
(* results it may answer. What the command writes to a stream is numbered;  *)
(* a read takes any beginning of the pipe, and decodes it by itself, so     *)
(* that a character that the end of a read splits is replaced on both       *)
(* sides. A spool record and a buffered record count one; the spool's       *)
(* redaction of secrets is left out.                                        *)
EXTENDS Naturals, Sequences, SequencesExt, FiniteSets

CONSTANTS Streams,     \* stdout and stderr
          MaxChunks,   \* bound: pieces the command writes to a stream
          SplitAfter,  \* stream -> pieces that end inside a character
          SpoolLimit,  \* spool_bytes, in records
          LiveLimit    \* live_buffer_bytes, in records

ASSUME TaskAssumption ==
    /\ MaxChunks \in Nat
    /\ SplitAfter \in [Streams -> SUBSET Nat]
    /\ SpoolLimit \in Nat \ {0}
    /\ LiveLimit \in Nat \ {0}

VARIABLES leader,      \* the command's own process
          descendant,  \* a process it started: absent, holding the pipes, or detached
          grouped,     \* it is in the command's process group
          written,     \* stream -> pieces written
          pipe,        \* stream -> pieces in the pipe
          readers,     \* stream -> the reading thread is running
          broken,      \* history: streams whose reader met an error
          channel,     \* messages of the readers
          captured,    \* stream -> the text of the answer
          taskStep,    \* where run() is
          timedOut,
          spool,       \* the records of the spool file
          live         \* the live buffer

processVars == <<leader, descendant, grouped, written, pipe>>
readerVars == <<readers, broken>>
outputVars == <<captured, spool, live>>
taskVars == <<processVars, readerVars, channel, outputVars, taskStep, timedOut>>

TruncationMarker == [stream |-> "marker", text |-> <<>>]

TaskInit ==
    /\ leader = "none"
    /\ descendant = "absent" /\ grouped = TRUE
    /\ written = [s \in Streams |-> 0]
    /\ pipe = [s \in Streams |-> <<>>]
    /\ readers = [s \in Streams |-> FALSE] /\ broken = {}
    /\ channel = <<>>
    /\ captured = [s \in Streams |-> <<>>]
    /\ taskStep = "prepared"
    /\ timedOut = FALSE
    /\ spool = <<>>
    /\ live = <<>>

WriterAlive == leader = "running" \/ descendant = "holding"

----------------------------------------------------------------------------
(* The command. A placeholder backend starts nothing and has failed; so has *)
(* a command that cannot be started, with an error.                         *)
SpawnCommand ==
    /\ taskStep = "prepared"
    /\ leader' = "running"
    /\ readers' = [s \in Streams |-> TRUE]
    /\ taskStep' = "drain"
    /\ UNCHANGED <<descendant, grouped, written, pipe, broken, channel, outputVars, timedOut>>

NothingStarted(result) ==
    /\ taskStep = "prepared"
    /\ taskStep' = result
    /\ UNCHANGED <<processVars, readerVars, channel, outputVars, timedOut>>

(* A write to a pipe that nobody reads fails. *)
CommandWrites(s) ==
    /\ WriterAlive /\ readers[s]
    /\ written[s] < MaxChunks
    /\ written' = [written EXCEPT ![s] = @ + 1]
    /\ pipe' = [pipe EXCEPT ![s] = Append(@, written[s] + 1)]
    /\ UNCHANGED <<leader, descendant, grouped, readerVars, channel, outputVars, taskStep, timedOut>>

(* A process it starts is in its group, unless it makes one of its own; on  *)
(* systems other than Unix there is no group.                               *)
CommandForks ==
    /\ leader = "running"
    /\ descendant = "absent"
    /\ descendant' = "holding" /\ grouped' \in BOOLEAN
    /\ UNCHANGED <<leader, written, pipe, readerVars, channel, outputVars, taskStep, timedOut>>

CommandExits(code) ==
    /\ leader = "running"
    /\ leader' = code
    /\ UNCHANGED <<descendant, grouped, written, pipe, readerVars, channel, outputVars, taskStep, timedOut>>

(* It ends, or closes the pipes and goes on. *)
DescendantLeaves(how) ==
    /\ descendant = "holding"
    /\ descendant' = how
    /\ UNCHANGED <<leader, grouped, written, pipe, readerVars, channel, outputVars, taskStep, timedOut>>

----------------------------------------------------------------------------
(* spawn_log_reader: a thread per pipe, until the last writer is gone, or   *)
(* a read fails.                                                            *)

(* from_utf8_lossy of what one read got. *)
Decoded(s, chunk) ==
    [k \in DOMAIN chunk |->
        [piece |-> chunk[k],
         whole |-> /\ k = 1 => chunk[k] - 1 \notin SplitAfter[s]
                   /\ k = Len(chunk) => chunk[k] \notin SplitAfter[s]]]

ReaderReads(s, n) ==
    /\ readers[s]
    /\ n \in 1..Len(pipe[s])
    /\ channel' = Append(channel, [stream |-> s,
                                   text |-> Decoded(s, SubSeq(pipe[s], 1, n))])
    /\ pipe' = [pipe EXCEPT ![s] = SubSeq(@, n + 1, Len(@))]
    /\ UNCHANGED <<leader, descendant, grouped, written, readerVars, outputVars, taskStep, timedOut>>

ReaderBreaks(s) ==
    /\ readers[s]
    /\ readers' = [readers EXCEPT ![s] = FALSE]
    /\ broken' = broken \cup {s}
    /\ UNCHANGED <<processVars, channel, outputVars, taskStep, timedOut>>

ReaderEnds(s) ==
    /\ readers[s]
    /\ pipe[s] = <<>>
    /\ ~WriterAlive
    /\ readers' = [readers EXCEPT ![s] = FALSE]
    /\ UNCHANGED <<processVars, broken, channel, outputVars, taskStep, timedOut>>

----------------------------------------------------------------------------
(* The log sink: TaskLogStore::append_record *)

SpoolTruncated == spool # <<>> /\ spool[Len(spool)] = TruncationMarker

LastRecords(records) ==
    IF Len(records) <= LiveLimit THEN records
    ELSE SubSeq(records, Len(records) - LiveLimit + 1, Len(records))

(* A record that no longer fits is replaced by the marker, and nothing is *)
(* spooled after it; the live buffer keeps going.                         *)
AppendRecordToLog(message) ==
    LET marked == ~SpoolTruncated /\ Len(spool) >= SpoolLimit
    IN  /\ spool' = CASE SpoolTruncated -> spool
                      [] marked         -> Append(spool, TruncationMarker)
                      [] OTHER          -> Append(spool, message)
        /\ live' = LastRecords(live \o IF marked THEN <<message, TruncationMarker>>
                                                 ELSE <<message>>)

(* append_log_message extends the text first; writing the record may fail,  *)
(* which ends run() and leaves the processes to themselves.                 *)
AppendLogMessage ==
    /\ channel # <<>>
    /\ captured' = [captured EXCEPT ![Head(channel).stream] = @ \o Head(channel).text]
    /\ channel' = Tail(channel)
    /\ AppendRecordToLog(Head(channel))

SinkFails ==
    /\ taskStep \in {"drain", "last"}
    /\ channel # <<>>
    /\ ~SpoolTruncated
    /\ captured' = [captured EXCEPT ![Head(channel).stream] = @ \o Head(channel).text]
    /\ channel' = Tail(channel)
    /\ taskStep' = "error"
    /\ UNCHANGED <<processVars, readerVars, spool, live, timedOut>>

----------------------------------------------------------------------------
(* The loop of run() *)

DrainMessage ==
    /\ taskStep = "drain"
    /\ AppendLogMessage
    /\ UNCHANGED <<processVars, readerVars, taskStep, timedOut>>

TryWait ==
    /\ taskStep = "drain"
    /\ channel = <<>>
    /\ taskStep' = IF leader = "running" THEN "deadline" ELSE "join"
    /\ UNCHANGED <<processVars, readerVars, channel, outputVars, timedOut>>

(* recv_timeout gives way to the next round, with a message or without. *)
NotYetDue ==
    /\ taskStep = "deadline"
    /\ taskStep' = "drain"
    /\ UNCHANGED <<processVars, readerVars, channel, outputVars, timedOut>>

(* kill_process_tree: the command and its group, which a detached process   *)
(* still is in; the command may have ended since try_wait. child.kill may   *)
(* fail, and that ends run().                                               *)
KillProcessTree(works) ==
    /\ taskStep = "deadline"
    /\ timedOut' = TRUE
    /\ leader' = IF leader = "running" THEN "killed" ELSE leader
    /\ descendant' = IF descendant # "absent" /\ grouped THEN "gone" ELSE descendant
    /\ taskStep' = IF works THEN "join" ELSE "error"
    /\ UNCHANGED <<grouped, written, pipe, readerVars, channel, outputVars>>

(* try_wait or wait fails: run() ends, and leaves the processes. *)
WaitFails ==
    /\ \/ taskStep = "drain" /\ channel = <<>>
       \/ taskStep = "join"
    /\ taskStep' = "error"
    /\ UNCHANGED <<processVars, readerVars, channel, outputVars, timedOut>>

\* Mutant: the last drain is done before the readers are joined.
JoinWithoutReaders ==
    /\ taskStep = "join"
    /\ leader # "running"
    /\ taskStep' = "last"
    /\ UNCHANGED <<processVars, readerVars, channel, outputVars, timedOut>>

(* child.wait, then the two joins, which wait for the last writer, in the   *)
(* group or not.                                                            *)
JoinReaders ==
    /\ taskStep = "join"
    /\ \A s \in Streams : ~readers[s]
    /\ taskStep' = "last"
    /\ UNCHANGED <<processVars, readerVars, channel, outputVars, timedOut>>

LastDrain ==
    /\ taskStep = "last"
    /\ AppendLogMessage
    /\ UNCHANGED <<processVars, readerVars, taskStep, timedOut>>

TaskResult ==
    /\ taskStep = "last"
    /\ channel = <<>>
    /\ taskStep' = CASE timedOut         -> "canceled"
                     [] leader = "zero"  -> "succeeded"
                     [] OTHER            -> "failed"
    /\ UNCHANGED <<processVars, readerVars, channel, outputVars, timedOut>>

TaskNext ==
    \/ SpawnCommand \/ CommandForks
    \/ \E s \in Streams : \/ CommandWrites(s) \/ ReaderBreaks(s) \/ ReaderEnds(s)
                           \/ \E n \in 1..MaxChunks : ReaderReads(s, n)
    \/ \E result \in {"failed", "error"} : NothingStarted(result)
    \/ \E code \in {"zero", "nonzero"} : CommandExits(code)
    \/ \E how \in {"gone", "detached"} : DescendantLeaves(how)
    \/ SinkFails \/ DrainMessage \/ TryWait \/ NotYetDue \/ WaitFails
    \/ \E works \in BOOLEAN : KillProcessTree(works)
    \/ JoinReaders \/ LastDrain \/ TaskResult

----------------------------------------------------------------------------
(* A result, whether the command ended or was killed, has everything the    *)
(* command wrote, in order, but for what a reader that broke off had not    *)
(* read, and for the characters that the end of a read split; the spool has *)
(* the same up to a marker; and a task that was canceled has left nothing   *)
(* running in its group (run joins the readers before it drains for the     *)
(* last time, and kills the whole group). What left the group may outlive   *)
(* the task, and while it holds a pipe the task does not end.               *)
IsBeginningOf(t, text) == Len(t) <= Len(text) /\ \A i \in DOMAIN t : t[i] = text[i]

ResultsAreComplete ==
    taskStep \in {"succeeded", "canceled", "failed"} =>
        /\ \A s \in Streams :
              /\ Len(captured[s]) <= written[s]
              /\ s \notin broken => Len(captured[s]) = written[s]
              /\ \A i \in DOMAIN captured[s] :
                    /\ captured[s][i].piece = i
                    /\ {i - 1, i} \cap SplitAfter[s] = {} => captured[s][i].whole
        /\ \A s \in Streams :
              LET text == FlattenSeq([k \in 1..Len(spool) |->
                                         IF spool[k].stream = s THEN spool[k].text ELSE <<>>])
              IN  IsBeginningOf(text, captured[s]) /\ (SpoolTruncated \/ text = captured[s])
        /\ taskStep = "canceled" /\ grouped => descendant \notin {"holding", "detached"}

-----------------------------------------------------------------------------
(***************************************************************************)
(* What task runs leave behind in one project: the snapshot a run works    *)
(* on, its runner workspace, its artifacts in the chunk store with the     *)
(* roots that pin them, the index, and the result cache.  A file's content *)
(* depends on the run's definition and input, or is the same for every     *)
(* run.                                                                     *)
(***************************************************************************)
CONSTANTS TaskRuns,
          TaskDefinitions, \* by their command_definition_hash
          Outputs,         \* a sequence of the files a run captures, in path order
          SameOutputs,     \* the files whose content is the same for every run
          MaxInputs        \* bound: states of the source

ASSUME TaskResultsAssumption ==
    /\ Outputs \in Seq({Outputs[i] : i \in DOMAIN Outputs})
    /\ MaxInputs \in Nat \ {0}

VARIABLES taskInput,   \* the state of the source workspace
          taskRun,     \* run -> how far it is
          runnerDirs,  \* runs with a directory under runner-workspaces
          casRoots,    \* root id -> manifest, for the artifacts
          artifactIdx, \* runs with a written index -> its entries
          resultCache, \* key -> the run whose index the entry holds, "none" or "torn"
          restored     \* run -> the files it restored from the cache

taskResultVars == <<taskInput, taskRun, runnerDirs, casRoots, artifactIdx,
                    resultCache, restored>>

TaskKeys == TaskDefinitions \X (1..MaxInputs)
ContentOf(output, key) == IF output \in SameOutputs THEN <<output>> ELSE <<output, key>>

\* Mutant: a root is named for its file alone.
RootIdOfFile(r, i) == <<i>>

ArtifactRootId(r, i) == <<r, i>>
RootIds == {ArtifactRootId(r, i) : r \in TaskRuns, i \in DOMAIN Outputs}

TaskResultsInit ==
    /\ taskInput = 1
    /\ taskRun = [r \in TaskRuns |-> [at |-> "new"]]
    /\ runnerDirs = {}
    /\ casRoots = [id \in RootIds |-> <<>>]
    /\ artifactIdx = [r \in TaskRuns |-> <<>>]
    /\ resultCache = [k \in TaskKeys |-> "none"]
    /\ restored = [r \in TaskRuns |-> <<>>]

RunGoes(r, step) == taskRun' = [taskRun EXCEPT ![r].at = step]

EditTaskInput ==
    /\ taskInput < MaxInputs
    /\ taskInput' = taskInput + 1
    /\ UNCHANGED <<taskRun, runnerDirs, casRoots, artifactIdx, resultCache, restored>>

(* task_result_cache_key: the platform and the environment's fingerprint,   *)
(* the other parts of it, stay the same here.                               *)
CacheKey(d, input) == <<d, input>>

(* The definition is reduced to its hash and the source captured.           *)
CreateTaskExecutionSnapshot(r, d) ==
    /\ taskRun[r].at = "new"
    /\ taskRun' = [taskRun EXCEPT ![r] = [at |-> "snapshot", key |-> CacheKey(d, taskInput)]]
    /\ UNCHANGED <<taskInput, runnerDirs, casRoots, artifactIdx, resultCache, restored>>

----------------------------------------------------------------------------
(* The result cache, for a task that may read or write it *)

LookupTaskResultCache(r) ==
    /\ taskRun[r].at = "snapshot"
    /\ LET entry == resultCache[taskRun[r].key]
       IN  /\ entry # "none"
           /\ IF entry = "torn" THEN RunGoes(r, "failed")
              ELSE taskRun' = [taskRun EXCEPT ![r] =
                       [at |-> "restore", key |-> @.key, entries |-> artifactIdx[entry]]]
    /\ UNCHANGED <<taskInput, runnerDirs, casRoots, artifactIdx, resultCache, restored>>

(* pull_task_artifact, one file after the other; the first error ends it. *)
PullTaskArtifact(r, works) ==
    /\ taskRun[r].at = "restore"
    /\ LET n == Len(restored[r])
           entries == taskRun[r].entries
       IN  IF n = Len(entries)
           THEN RunGoes(r, "restored") /\ UNCHANGED restored
           ELSE IF works
           THEN /\ restored' = [restored EXCEPT ![r] = Append(@, entries[n + 1].manifest)]
                /\ UNCHANGED taskRun
           ELSE RunGoes(r, "failed") /\ UNCHANGED restored
    /\ UNCHANGED <<taskInput, runnerDirs, casRoots, artifactIdx, resultCache>>

(* The entry is written in place: a process that ends then leaves a torn one. *)
StoreTaskResultCache(r, whole) ==
    /\ taskRun[r].at = "captured"
    /\ resultCache' = [resultCache EXCEPT ![taskRun[r].key] = IF whole THEN r ELSE "torn"]
    /\ RunGoes(r, IF whole THEN "stored" ELSE "failed")
    /\ UNCHANGED <<taskInput, runnerDirs, casRoots, artifactIdx, restored>>

----------------------------------------------------------------------------
(* The runner workspace *)

(* hydrate_task_environment refuses a profile that is not there, not for    *)
(* this platform, not available or not trusted, before there is a directory. *)
EnvironmentRefused(r) ==
    /\ taskRun[r].at = "snapshot"
    /\ RunGoes(r, "failed")
    /\ UNCHANGED <<taskInput, runnerDirs, casRoots, artifactIdx, resultCache, restored>>

(* A snapshot or a sidecar that cannot be applied, or a secret that is not   *)
(* there, leaves the directory.                                             *)
MaterializationFails(r) ==
    /\ taskRun[r].at = "snapshot"
    /\ runnerDirs' = runnerDirs \union {r}
    /\ RunGoes(r, "failed")
    /\ UNCHANGED <<taskInput, casRoots, artifactIdx, resultCache, restored>>

PrepareTaskRunnerWorkspace(r) ==
    /\ taskRun[r].at = "snapshot"
    /\ runnerDirs' = runnerDirs \union {r}
    /\ RunGoes(r, "ready")
    /\ UNCHANGED <<taskInput, casRoots, artifactIdx, resultCache, restored>>

CleanupTaskRunnerWorkspace(r, keepForDebug) ==
    /\ taskRun[r].at \in {"captured", "stored"}
    /\ r \in runnerDirs
    /\ runnerDirs' = IF keepForDebug THEN runnerDirs ELSE runnerDirs \ {r}
    /\ UNCHANGED <<taskInput, taskRun, casRoots, artifactIdx, resultCache, restored>>

----------------------------------------------------------------------------
(* Artifacts *)

Captured(r) == Cardinality({i \in DOMAIN Outputs : casRoots[ArtifactRootId(r, i)] # <<>>})

(* capture_task_artifacts: chunk, manifest and root of a file; then the index. *)
CaptureTaskArtifact(r) ==
    /\ taskRun[r].at = "ready"
    /\ Captured(r) < Len(Outputs)
    /\ casRoots' = [casRoots EXCEPT ![ArtifactRootId(r, Captured(r) + 1)] =
                        ContentOf(Outputs[Captured(r) + 1], taskRun[r].key)]
    /\ UNCHANGED <<taskInput, taskRun, runnerDirs, artifactIdx, resultCache, restored>>

WriteTaskArtifactIndex(r) ==
    /\ taskRun[r].at = "ready"
    /\ Captured(r) = Len(Outputs)
    /\ artifactIdx' = [artifactIdx EXCEPT ![r] = [i \in DOMAIN Outputs |->
           [root |-> ArtifactRootId(r, i), manifest |-> casRoots[ArtifactRootId(r, i)]]]]
    /\ RunGoes(r, "captured")
    /\ UNCHANGED <<taskInput, runnerDirs, casRoots, resultCache, restored>>

(* The run fails, or the process ends: what was captured stays pinned. *)
RunStops(r) ==
    /\ taskRun[r].at \in {"ready", "retiring"}
    /\ RunGoes(r, IF taskRun[r].at = "ready" THEN "failed" ELSE "retired")
    /\ UNCHANGED <<taskInput, runnerDirs, casRoots, artifactIdx, resultCache, restored>>

(* apply_task_artifact_retention removes the roots of the index in turn. *)
RetireTaskArtifacts(r) ==
    /\ taskRun[r].at \in {"captured", "stored"}
    /\ RunGoes(r, "retiring")
    /\ UNCHANGED <<taskInput, runnerDirs, casRoots, artifactIdx, resultCache, restored>>

RemoveArtifactRoot(r, i) ==
    /\ taskRun[r].at = "retiring"
    /\ \A j \in 1..(i - 1) : casRoots[artifactIdx[r][j].root] = <<>>
    /\ casRoots[artifactIdx[r][i].root] # <<>>
    /\ casRoots' = [casRoots EXCEPT ![artifactIdx[r][i].root] = <<>>]
    /\ UNCHANGED <<taskInput, taskRun, runnerDirs, artifactIdx, resultCache, restored>>

TaskResultsNext ==
    \/ EditTaskInput
    \/ \E r \in TaskRuns :
          \/ \E d \in TaskDefinitions : CreateTaskExecutionSnapshot(r, d)
          \/ LookupTaskResultCache(r)
          \/ \E ok \in BOOLEAN : \/ PullTaskArtifact(r, ok) \/ StoreTaskResultCache(r, ok)
                                 \/ CleanupTaskRunnerWorkspace(r, ok)
          \/ EnvironmentRefused(r) \/ MaterializationFails(r) \/ PrepareTaskRunnerWorkspace(r)
          \/ CaptureTaskArtifact(r) \/ WriteTaskArtifactIndex(r) \/ RunStops(r)
          \/ RetireTaskArtifacts(r)
          \/ \E i \in DOMAIN Outputs : RemoveArtifactRoot(r, i)

----------------------------------------------------------------------------
(* The artifacts of a run stay pinned with the content it produced until    *)
(* its own retention, whatever other runs with the same files capture or    *)
(* retire; and what a run restores from the cache is what it would have     *)
(* produced itself (artifact_root_id and task_result_cache_key).            *)
ArtifactsBelongToTheirRun ==
    /\ \A r \in TaskRuns : taskRun[r].at \in {"captured", "stored"} =>
          \A i \in DOMAIN Outputs :
              casRoots[artifactIdx[r][i].root] = ContentOf(Outputs[i], taskRun[r].key)
    /\ \A r \in TaskRuns : \A i \in DOMAIN restored[r] :
          restored[r][i] = ContentOf(Outputs[i], taskRun[r].key)
=============================================================================
