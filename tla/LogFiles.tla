------------------------------ MODULE LogFiles ------------------------------
(***************************************************************************)
(* The log of the agent: StructuredLogFile appends one line at a time,     *)
(* under the lock of AgentLogger, and moves the files on when the current  *)
(* one would grow too long, one removal or renaming after the other, each  *)
(* of which can fail and after each of which the agent can be killed.  The *)
(* diagnostics read the last lines meanwhile, without the lock, and read   *)
(* them again for the exit codes of the Git commands among them.           *)
(*                                                                         *)
(* logFiles[0] is agent.log and logFiles[i] is agent.log.i; an empty       *)
(* sequence is no file.  A line is its number, its size and whether it     *)
(* tells of a Git command: redaction and the wording are left out, and a   *)
(* line that a crash cuts in the middle.                                   *)
(***************************************************************************)
EXTENDS Naturals, Sequences, SequencesExt

CONSTANTS
    Rotations,      \* [bytes, files]: max_bytes and max_files
    Messages,       \* [size, git]: the lines the agent can write
    MaxLines        \* bound on the lines that are written

ASSUME LogAssumption ==
    /\ Rotations \subseteq [bytes : Nat, files : Nat]
    /\ Messages \subseteq [size : Nat, git : BOOLEAN]
    /\ MaxLines \in Nat

VARIABLES
    rotation,
    logFiles,
    lineCount,      \* how many lines have been written
    appending,      \* what the append has come to
    recent          \* what the diagnostics have read, and how many lines there were

logVars == <<rotation, logFiles, lineCount, appending, recent>>

NoAppend == [pc |-> "idle", message |-> [size |-> 0, git |-> FALSE], index |-> 0]
LogInit ==
    /\ rotation \in Rotations
    /\ logFiles = [i \in 0..rotation.files |-> <<>>]
    /\ lineCount = 0 /\ appending = NoAppend
    /\ recent = [read |-> "lines", lines |-> <<>>, written |-> 0]

SizeOf(lines) == FoldSeq(LAMBDA line, sum : line.size + sum, 0, lines)
-----------------------------------------------------------------------------
(* rotate_if_needed *)
\* Mutant: the line that is to be written is not counted.
FitsSoFar(message) ==
    rotation.bytes = 0 \/ logFiles[0] = <<>> \/ SizeOf(logFiles[0]) <= rotation.bytes
Fits(message) ==
    rotation.bytes = 0 \/ logFiles[0] = <<>> \/ SizeOf(logFiles[0]) + message.size <= rotation.bytes

BeginAppend ==
    /\ appending.pc = "idle" /\ lineCount < MaxLines
    /\ \E message \in Messages :
          appending' = [pc |-> IF Fits(message) THEN "write" ELSE "rotate",
                        message |-> message, index |-> rotation.files]
    /\ UNCHANGED <<rotation, logFiles, lineCount, recent>>

Moved(from, to) == [logFiles EXCEPT ![to] = logFiles[from], ![from] = <<>>]

(* rotate_log_files: the last file goes, and then each moves on by one,    *)
(* the last of them first; with max_files 0 the current one just goes.     *)
RotateNext ==
    /\ appending.pc = "rotate"
    /\ LET i == appending.index
       IN /\ logFiles' = IF i = rotation.files THEN [logFiles EXCEPT ![i] = <<>>]
                         ELSE IF logFiles[i] = <<>> THEN logFiles ELSE Moved(i, i + 1)
          /\ appending' = IF i = 0 THEN [appending EXCEPT !.pc = "write"]
                          ELSE [appending EXCEPT !.index = @ - 1]
    /\ UNCHANGED <<rotation, lineCount, recent>>

WriteLine ==
    /\ appending.pc = "write"
    /\ lineCount' = lineCount + 1
    /\ logFiles' = [logFiles EXCEPT ![0] = Append(@, [n |-> lineCount + 1, size |-> appending.message.size,
                                                     git |-> appending.message.git])]
    /\ appending' = NoAppend
    /\ UNCHANGED <<rotation, recent>>

(* A removal, a renaming, the opening or the writing fails, of which only  *)
(* a message on the agent's standard error tells; or the agent is killed.  *)
AppendFails ==
    /\ appending.pc # "idle"
    /\ appending' = NoAppend
    /\ UNCHANGED <<rotation, logFiles, lineCount, recent>>

(* recent_log_lines: the last lines of the current file, if there is one. *)
LastLines(count) ==
    SubSeq(logFiles[0], IF Len(logFiles[0]) <= count THEN 1 ELSE Len(logFiles[0]) - count + 1,
           Len(logFiles[0]))

ReadRecent ==
    /\ \E count \in {1, MaxLines} :
          recent' = [read |-> "lines", lines |-> LastLines(count), written |-> lineCount]
    /\ UNCHANGED <<rotation, logFiles, lineCount, appending>>

(* recent_git_command_exit_codes reads them again, some time later. *)
GitOnly(lines) ==
    LET upTo[i \in 0..Len(lines)] ==
            IF i = 0 THEN <<>>
            ELSE IF lines[i].git THEN Append(upTo[i - 1], lines[i]) ELSE upTo[i - 1]
    IN  upTo[Len(lines)]

ReadExitCodes ==
    /\ \E count \in {1, MaxLines} :
          recent' = [read |-> "exit codes", written |-> lineCount, lines |-> GitOnly(LastLines(count))]
    /\ UNCHANGED <<rotation, logFiles, lineCount, appending>>

LogNext == BeginAppend \/ RotateNext \/ WriteLine \/ AppendFails \/ ReadRecent \/ ReadExitCodes
-----------------------------------------------------------------------------
AllLines == FlattenSeq(Reverse([i \in 1..(rotation.files + 1) |-> logFiles[i - 1]]))
EndsWith(lines, last) == \A i \in DOMAIN lines : lines[i].n = last - Len(lines) + i

(* Whatever fails on the way, and wherever the agent is killed, the files  *)
(* read from the last to the first hold the newest lines, in their order   *)
(* and with none missing between two of them; no file is longer than it    *)
(* may be but with a single line; and the diagnostics show nothing or the  *)
(* newest lines there were, or the newest lines of Git commands.           *)
LogKeepsTheNewest ==
    /\ EndsWith(AllLines, lineCount)
    /\ rotation.bytes > 0 =>
          \A i \in DOMAIN logFiles : SizeOf(logFiles[i]) <= rotation.bytes \/ Len(logFiles[i]) = 1
    /\ IF recent.read = "lines" THEN EndsWith(recent.lines, recent.written)
       ELSE \A i \in DOMAIN recent.lines, j \in DOMAIN AllLines : LET line == AllLines[j] IN
               line.git /\ line.n \in recent.lines[i].n .. recent.written
                  => \E k \in DOMAIN recent.lines : recent.lines[k] = line
=============================================================================
