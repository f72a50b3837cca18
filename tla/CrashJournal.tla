---------------------------- MODULE CrashJournal ----------------------------
(* The JSON-lines journal of operations, written by one process at a time.  *)
(* The file is a sequence of what was written: a record, the end of a line, *)
(* or a part of a record. An append writes the record, then the end of the  *)
(* line, then syncs; a process may end between any two of these, and a      *)
(* power failure also loses or tears what was not synced.                   *)
EXTENDS Naturals, Sequences, FiniteSets

CONSTANTS Operations,
          MaxAppends,  \* bound: records begun
          MaxCuts      \* bound: crashes and power failures

ASSUME JournalAssumption == MaxAppends \in Nat /\ MaxCuts \in Nat

VARIABLES journal,   \* what the file holds
          durable,   \* how much of it has been synced
          rewriting, \* the temporary file of a cleanup, or NoRewrite
          writer,    \* the append in progress
          reported,  \* history: operation -> the last phase whose append returned
          appends, cuts

journalVars == <<journal, durable, rewriting, writer, reported, appends, cuts>>

(* Of the phases, two that are not terminal, and two that is_terminal *)
(* accepts and that follow each other: verified and lease-committed.  *)
JournalPhases == 1..4
TerminalPhases == {3, 4}

Line(op, phase, seq) == [kind |-> "record", op |-> op, phase |-> phase, seq |-> seq]
EndOfLine == [kind |-> "end"]
Half == [kind |-> "half"]
IsLine(x) == x.kind = "record"

JournalInit ==
    /\ journal = <<>>
    /\ durable = 0
    /\ rewriting = [at |-> "none"]
    /\ writer = [at |-> "idle"]
    /\ reported = [op \in Operations |-> 0]
    /\ appends = 0
    /\ cuts = 0

(* records(): a line with a torn record, or with two records, is refused, *)
(* and with it the whole journal.                                         *)
Readable(file) ==
    /\ \A i \in DOMAIN file : file[i] # Half
    /\ \A i \in 1..(Len(file) - 1) : ~(IsLine(file[i]) /\ IsLine(file[i + 1]))

Records(file) == {file[i] : i \in {j \in DOMAIN file : IsLine(file[j])}}
RecordsOf(file, op) == {r \in Records(file) : r.op = op}

LatestPhase(file, op) ==
    LET rs == RecordsOf(file, op)
    IN  IF rs = {} THEN 0
        ELSE (CHOOSE r \in rs : \A s \in rs : s.seq <= r.seq).phase

Replay(file) == [op \in Operations |-> LatestPhase(file, op)]

NextSequenceNumber ==
    LET seqs == {r.seq : r \in Records(journal)}
    IN  IF seqs = {} THEN 1 ELSE 1 + CHOOSE n \in seqs : \A k \in seqs : k <= n

Quiet == writer.at = "idle" /\ rewriting.at = "none"

----------------------------------------------------------------------------
(* append_record; an operation's phases are recorded in order. *)
AppendRecord(op) ==
    LET phase == reported[op] + 1
    IN  /\ Quiet
        /\ appends < MaxAppends
        /\ phase \in JournalPhases
        /\ Readable(journal)
        /\ journal' = Append(journal, Line(op, phase, NextSequenceNumber))
        /\ writer' = [at |-> "record", op |-> op, phase |-> phase]
        /\ appends' = appends + 1
        /\ UNCHANGED <<durable, rewriting, reported, cuts>>

\* Mutant: an append returns before the sync.
ReportBeforeSync ==
    /\ writer.at = "record"
    /\ journal' = Append(journal, EndOfLine)
    /\ reported' = [reported EXCEPT ![writer.op] = writer.phase]
    /\ writer' = [at |-> "idle"]
    /\ UNCHANGED <<durable, rewriting, appends, cuts>>

EndLine ==
    /\ writer.at = "record"
    /\ journal' = Append(journal, EndOfLine)
    /\ writer' = [writer EXCEPT !.at = "sync"]
    /\ UNCHANGED <<durable, rewriting, reported, appends, cuts>>

(* sync_all, and the append returns. *)
SyncRecord ==
    /\ writer.at = "sync"
    /\ durable' = Len(journal)
    /\ reported' = [reported EXCEPT ![writer.op] = writer.phase]
    /\ writer' = [at |-> "idle"]
    /\ UNCHANGED <<journal, rewriting, appends, cuts>>

----------------------------------------------------------------------------
(* cleanup_completed: the records of unfinished operations, grouped by      *)
(* operation, go to a temporary file that is synced and renamed.            *)
Finished(op) == LatestPhase(journal, op) \in TerminalPhases

Retained(rs) ==
    [i \in 1..(2 * Cardinality(rs)) |->
        IF i % 2 = 0 THEN EndOfLine
        ELSE CHOOSE r \in rs : 2 * Cardinality({s \in rs : s.seq < r.seq}) + 1 = i]

CleanupCompleted ==
    /\ Quiet
    /\ Readable(journal)
    /\ \E op \in Operations : Finished(op)
    /\ rewriting' = [at |-> "synced",
                     file |-> Retained({r \in Records(journal) : ~Finished(r.op)})]
    /\ UNCHANGED <<journal, durable, writer, reported, appends, cuts>>

RenameJournal ==
    /\ rewriting.at = "synced"
    /\ journal' = rewriting.file
    /\ durable' = Len(rewriting.file)
    /\ rewriting' = [at |-> "none"]
    /\ UNCHANGED <<writer, reported, appends, cuts>>

----------------------------------------------------------------------------
(* The process ends: what was written stays, a temporary file is forgotten. *)
Cut ==
    /\ cuts < MaxCuts
    /\ cuts' = cuts + 1
    /\ writer' = [at |-> "idle"]
    /\ rewriting' = [at |-> "none"]
    /\ UNCHANGED <<reported, appends>>

ProcessEnds ==
    /\ ~Quiet
    /\ Cut
    /\ UNCHANGED <<journal, durable>>

(* Anything from the synced part on may be missing, and a record torn. *)
PowerFails ==
    /\ Cut
    /\ \E n \in durable..Len(journal) :
          \/ journal' = SubSeq(journal, 1, n)
          \/ /\ n < Len(journal) /\ IsLine(journal[n + 1])
             /\ journal' = Append(SubSeq(journal, 1, n), Half)
    /\ durable' = Len(journal')

JournalNext ==
    \/ \E op \in Operations : AppendRecord(op)
    \/ EndLine \/ SyncRecord
    \/ CleanupCompleted \/ RenameJournal
    \/ ProcessEnds \/ PowerFails

----------------------------------------------------------------------------
(* While the journal can be read, replay has the last phase that was        *)
(* reported of every operation, or the one being appended when the process  *)
(* ended; only operations that reached a terminal phase may be missing; and *)
(* only a cut-off append makes it unreadable (append_record syncs before it *)
(* returns, rewrite_records before it renames).                             *)
ReplayKnowsEveryPhase ==
    /\ Readable(journal) =>
          \A op \in Operations :
             LET near == {reported[op], reported[op] + 1}
             IN  \/ Replay(journal)[op] \in near
                 \/ Replay(journal)[op] = 0 /\ near \intersect TerminalPhases # {}
    /\ ~Readable(journal) => cuts > 0
=============================================================================
