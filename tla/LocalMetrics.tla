---------------------------- MODULE LocalMetrics ----------------------------
(***************************************************************************)
(* Reports about handoffs: metrics.export of the agent and the command     *)
(* line (metrics.rs) and the state-machine records of diagnostics.export.  *)
(* Both read the tables of a project one statement after the other, while  *)
(* handoffs go on: metrics reads the handoffs and then each journal,       *)
(* diagnostics the leases before them.  Only what the handoffs say is      *)
(* modelled of a report; LeaseHandoff has the protocol itself, of which    *)
(* this module only needs which rows a transaction writes together.        *)
(***************************************************************************)
EXTENDS Integers, Sequences, FiniteSets

CONSTANTS
    Transfers,      \* handoffs of one lease
    Reporters,      \* calls that report
    MaxReports      \* a bound: finished reports

ASSUME MetricsAssumption == "none" \notin Transfers /\ MaxReports \in Nat

VARIABLES
    transfers,  \* the table handoffs: [Transfers -> state]
    journals,   \* the table handoff_journal: [Transfers -> sequence of phases]
    pendingOn,  \* the handoff the lease waits for
    reporters,  \* [Reporters -> a call and what it has read]
    reports     \* the finished metrics reports, in the order in which they ended

metricsVars == <<transfers, journals, pendingOn, reporters, reports>>

Idle == [kind |-> "none", pc |-> "none", lease |-> "none", rows |-> <<>>, unread |-> {},
         journals |-> <<>>, since |-> 0]

MetricsInit ==
    /\ transfers = [t \in Transfers |-> "absent"]
    /\ journals = [t \in Transfers |-> <<>>]
    /\ pendingOn = "none"
    /\ reporters = [r \in Reporters |-> Idle]
    /\ reports = <<>>
-----------------------------------------------------------------------------
(* The transactions of a handoff: what they write to its row and its       *)
(* journal, and whether its lease waits for it after them.  The abort of a *)
(* handoff that has expired when it should be committed leaves no entry.   *)
TransferWrites(t, state, entries) ==
    /\ transfers' = [transfers EXCEPT ![t] = state]
    /\ journals' = [journals EXCEPT ![t] = @ \o entries]
    /\ UNCHANGED <<reporters, reports>>

TransferBegins(t) ==
    /\ transfers[t] = "absent" /\ pendingOn = "none"
    /\ TransferWrites(t, "TargetPrepare", <<"Begin", "TargetPrepare">>) /\ pendingOn' = t

TransferGoesOn(t) ==
    /\ pendingOn = t
    /\ \/ transfers[t] = "TargetPrepare" /\ TransferWrites(t, "TargetVerified", <<"TargetVerified">>)
       \/ transfers[t] = "TargetVerified" /\ TransferWrites(t, "SourceReady", <<"SourceReady">>)
    /\ UNCHANGED pendingOn

TransferEnds(t) ==
    /\ pendingOn = t /\ pendingOn' = "none"
    /\ \/ transfers[t] = "SourceReady" /\ TransferWrites(t, "Committed", <<"LeaseCommitted">>)
       \/ TransferWrites(t, "Aborted", <<"Aborted">>)
       \/ transfers[t] = "SourceReady" /\ TransferWrites(t, "Aborted", <<>>)
-----------------------------------------------------------------------------
(* A call of the agent, or the command line by itself with --direct. *)
MetricsExportStarts(r) ==
    /\ reporters[r].pc = "none" /\ Len(reports) < MaxReports
    /\ reporters' = [reporters EXCEPT ![r] = [Idle EXCEPT !.kind = "metrics", !.pc = "rows",
                                                          !.since = Len(reports)]]
    /\ UNCHANGED <<transfers, journals, pendingOn, reports>>

\* Only the agent has diagnostics; the command line refuses --direct.
DiagnosticsExportStarts(r) ==
    /\ reporters[r].pc = "none" /\ Len(reports) < MaxReports
    /\ reporters' = [reporters EXCEPT ![r] = [Idle EXCEPT !.kind = "diagnostics", !.pc = "leases"]]
    /\ UNCHANGED <<transfers, journals, pendingOn, reports>>

\* list_leases; diagnostics notes an error and goes on
ReadLeaseRow(r) ==
    /\ reporters[r].pc = "leases"
    /\ reporters' \in {[reporters EXCEPT ![r] = [@ EXCEPT !.pc = "rows", !.lease = seen]] :
                          seen \in {pendingOn, "none"}}
    /\ UNCHANGED <<transfers, journals, pendingOn, reports>>

\* list_handoffs
ReadTransferRows(r) ==
    /\ reporters[r].pc = "rows"
    /\ reporters' = [reporters EXCEPT ![r] = [@ EXCEPT !.pc = "journals", !.rows = transfers,
                         !.unread = {t \in Transfers : transfers[t] # "absent"},
                         !.journals = [t \in Transfers |-> <<>>]]]
    /\ UNCHANGED <<transfers, journals, pendingOn, reports>>

\* list_handoff_journal of one handoff; diagnostics notes an error and goes on
ReadJournal(r, t) ==
    /\ reporters[r].pc = "journals" /\ t \in reporters[r].unread
    /\ \E seen \in {journals[t]} \cup IF reporters[r].kind = "diagnostics" THEN {<<>>} ELSE {} :
          reporters' = [reporters EXCEPT ![r].unread = @ \ {t}, ![r].journals[t] = seen]
    /\ UNCHANGED <<transfers, journals, pendingOn, reports>>

(* A statement of metrics that fails ends the call, and so does one of     *)
(* diagnostics that lists the handoffs, as far as handoffs go.             *)
ReadFails(r) ==
    /\ reporters[r].pc \in {"rows", "journals"}
    /\ reporters' = [reporters EXCEPT ![r] = Idle]
    /\ UNCHANGED <<transfers, journals, pendingOn, reports>>
-----------------------------------------------------------------------------
Has(c, t, phase) == \E i \in DOMAIN c.journals[t] : c.journals[t][i] = phase
Listed(c) == {t \in Transfers : c.rows[t] # "absent"}

\* Mutant: only the rows say what was verified.
VerifiedByRow(c) == {t \in Transfers : c.rows[t] \in {"TargetVerified", "SourceReady", "Committed"}}

(* continuation_metrics counts these. *)
VerifiedAttempts(c) ==
    {t \in Transfers : c.rows[t] \in {"TargetVerified", "SourceReady", "Committed"}
                       \/ Has(c, t, "TargetVerified")}
Successes(c) == {t \in Transfers : c.rows[t] = "Committed" \/ Has(c, t, "LeaseCommitted")}
AbortedAttempts(c) == {t \in Transfers : c.rows[t] = "Aborted"}

(* handoff_metrics: a duration for each pair of successive entries, and a  *)
(* total for a journal with a begin and a commit.                          *)
PhaseDurations(c) ==
    UNION {{<<t, c.journals[t][i], c.journals[t][i + 1]>> : i \in 1 .. Len(c.journals[t]) - 1} :
           t \in Transfers}
TotalDurations(c) == {t \in Transfers : Has(c, t, "Begin") /\ Has(c, t, "LeaseCommitted")}

(* build_local_metrics_report *)
MetricsReport(c) ==
    [since |-> c.since, attempts |-> Listed(c), verified |-> VerifiedAttempts(c),
     successes |-> Successes(c), aborted |-> AbortedAttempts(c), totals |-> TotalDurations(c),
     phases |-> PhaseDurations(c)]

(* The report is written to a file, or the call fails. *)
ExportMetrics(r) ==
    /\ reporters[r].kind = "metrics" /\ reporters[r].pc = "journals" /\ reporters[r].unread = {}
    /\ reports' \in {reports, Append(reports, MetricsReport(reporters[r]))}
    /\ reporters' = [reporters EXCEPT ![r] = Idle]
    /\ UNCHANGED <<transfers, journals, pendingOn>>

ExportDiagnostics(r) ==
    /\ reporters[r].kind = "diagnostics" /\ reporters[r].pc = "journals"
    /\ reporters[r].unread = {}
    /\ \/ reporters' = [reporters EXCEPT ![r].pc = "exported"]
       \/ reporters' = [reporters EXCEPT ![r] = Idle]
    /\ UNCHANGED <<transfers, journals, pendingOn, reports>>

MetricsNext ==
    \/ \E t \in Transfers : TransferBegins(t) \/ TransferGoesOn(t) \/ TransferEnds(t)
    \/ \E r \in Reporters :
          \/ MetricsExportStarts(r) \/ DiagnosticsExportStarts(r)
          \/ ReadLeaseRow(r) \/ ReadTransferRows(r) \/ ReadFails(r)
          \/ ExportMetrics(r) \/ ExportDiagnostics(r)
          \/ \E t \in Transfers : ReadJournal(r, t)
-----------------------------------------------------------------------------
(* Reports agree with themselves and with each other, although each is     *)
(* read in pieces: no handoff is counted as a success and as aborted,      *)
(* every success was verified and has exactly the duration and the phases  *)
(* of a whole handoff, a report never counts less than one that had ended  *)
(* before it was asked for, and diagnostics never show a lease that waits  *)
(* for a handoff they do not show.                                         *)
ReportsAgree ==
    /\ \A i \in DOMAIN reports : LET p == reports[i] IN
          /\ p.successes \cap p.aborted = {}
          /\ p.successes \subseteq p.verified /\ p.successes = p.totals
          /\ \A t \in p.successes : <<t, "SourceReady", "LeaseCommitted">> \in p.phases
          /\ \A j \in 1 .. p.since :
                /\ reports[j].attempts \subseteq p.attempts /\ reports[j].verified \subseteq p.verified
                /\ reports[j].successes \subseteq p.successes /\ reports[j].aborted \subseteq p.aborted
    /\ \A r \in Reporters : reporters[r].pc = "exported" /\ reporters[r].lease # "none"
          => reporters[r].rows[reporters[r].lease] # "absent"
=============================================================================
