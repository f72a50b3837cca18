---------------------------- MODULE ProjectQueries ----------------------------
(***************************************************************************)
(* The queries of the agent over its registry and the databases of the     *)
(* registered projects: handoffs.list, leases.list, projects.list and      *)
(* .show, recover.list, snapshots.list, environment.status, and the remote *)
(* lists (crates/devrelay-agent/src/main.rs, devrelay-core/src/            *)
(* remote_rpc.rs).  Some hold the lock of the configuration until they     *)
(* answer.  The others read the ids of the projects, then check and open   *)
(* one project after the other, and read each by several statements, while *)
(* projects are removed and handoffs go on.                                *)
(* The second part has the lists that merge what several databases have.   *)
(***************************************************************************)
EXTENDS Integers, Sequences, FiniteSets, SequencesExt

CONSTANTS
    Registrable,      \* ids of projects, numbers in the order of the ids
    Spaces,           \* ids of workspaces
    NoSpace,          \* the hydration state of a project without a workspace
    Every,            \* no project, session, workspace or limit is asked for
    StoredSessions,   \* sessions of snapshots
    PageLimits,       \* limits that remote callers ask for
    DefaultLimit,     \* DEFAULT_REMOTE_SNAPSHOT_LIST_LIMIT
    TopLimit,         \* MAX_REMOTE_SNAPSHOT_LIST_LIMIT
    Queries,          \* calls
    MaxChanges        \* a bound: changes of registry, tables and files

ASSUME QueriesAssumption ==
    /\ Registrable \subseteq Nat
    /\ Every \notin StoredSessions \cup Spaces \cup Nat /\ NoSpace \notin Spaces
    /\ "nobody" \notin Queries
    /\ PageLimits \subseteq Nat /\ DefaultLimit \in Nat /\ TopLimit \in Nat
    /\ MaxChanges \in Nat

VARIABLES
    registered,   \* projects of the registry
    spaces,       \* [Registrable -> workspaces of the project's entry]
    tables,       \* [Registrable -> rows of the project's database]
    hydrated,     \* [Registrable -> [workspaces -> its hydration state file]]
    lockedBy,     \* who holds the lock of the configuration
    queries,      \* [Queries -> the call and what it has read]
    changes       \* how often something has changed

queryVars == <<registered, spaces, tables, hydrated, lockedBy, queries, changes>>

Nobody == "nobody"
HandoffSteps == <<"TargetPrepare", "TargetVerified", "SourceReady", "Committed">>
NoRows == [handoffs |-> <<>>, epoch |-> 1, snapshots |-> {}]
NotAskedYet == [kind |-> "none", wanted |-> {}, journals |-> FALSE, narrow |-> Every, limit |-> Every,
                pc |-> "idle", todo |-> {}, opened |-> Every, unread |-> <<>>, page |-> {},
                asked |-> <<>>, gone |-> {}]
Running(query) == query.pc \in {"next", "opened", "journals"}

QueriesInit ==
    /\ registered \in SUBSET Registrable
    /\ spaces = [p \in Registrable |-> {}]
    /\ tables = [p \in Registrable |-> NoRows]
    /\ hydrated = [p \in Registrable |-> [w \in Spaces \cup {NoSpace} |-> "absent"]]
    /\ lockedBy = Nobody
    /\ queries = [q \in Queries |-> NotAskedYet]
    /\ changes = 0

-----------------------------------------------------------------------------
(* What others do                                                          *)

\* A bound: what changes after the last answer is of no concern to it.
Waiting == \E q \in Queries : queries[q].pc = "idle" \/ Running(queries[q])

Change ==
    /\ changes < MaxChanges /\ Waiting
    /\ changes' = changes + 1

\* projects.add and projects.remove have the lock while they change the
\* entry.  A query remembers which of its projects were removed meanwhile.
RegisterWorkspace(p, w) ==
    /\ Change /\ lockedBy = Nobody
    /\ registered' = registered \cup {p}
    /\ spaces' = [spaces EXCEPT ![p] = @ \cup {w}]
    /\ UNCHANGED <<tables, hydrated, lockedBy, queries>>

UnregisterProject(p) ==
    /\ Change /\ lockedBy = Nobody
    /\ p \in registered
    /\ registered' = registered \ {p}
    /\ spaces' = [spaces EXCEPT ![p] = {}]
    /\ queries' = [q \in Queries |-> IF Running(queries[q]) THEN [queries[q] EXCEPT !.gone = @ \cup {p}]
                                     ELSE queries[q]]
    /\ UNCHANGED <<tables, hydrated, lockedBy>>

TablesChange(p, rows) ==
    /\ Change
    /\ tables' = [tables EXCEPT ![p] = rows]
    /\ UNCHANGED <<registered, spaces, hydrated, lockedBy, queries>>

AddHandoff(p) ==
    TablesChange(p, [tables[p] EXCEPT !.handoffs =
                        Append(@, [state |-> "TargetPrepare", journal |-> <<"Begin", "TargetPrepare">>])])

HandoffTo(p, n, state, phases) ==
    TablesChange(p, [tables[p] EXCEPT !.handoffs[n] = [state |-> state, journal |-> @.journal \o phases],
                                      !.epoch = IF state = "Committed" THEN @ + 1 ELSE @])

\* A transition writes the state and the journal in one transaction.  A note
\* of the target has no state, and a commit that is refused no phase.
HandoffGoesOn(p, n) ==
    LET state == tables[p].handoffs[n].state IN
    \/ \E i \in 1 .. 3 :
          /\ state = HandoffSteps[i]
          /\ HandoffTo(p, n, HandoffSteps[i + 1], <<IF i = 3 THEN "LeaseCommitted" ELSE HandoffSteps[i + 1]>>)
    \/ /\ state \in {"TargetPrepare", "TargetVerified"}
       /\ HandoffTo(p, n, state, <<"TargetApply">>)
    \/ /\ state \notin {"Committed", "Aborted"}
       /\ \/ HandoffTo(p, n, "Aborted", <<"Aborted">>)
          \/ state = "SourceReady" /\ HandoffTo(p, n, "Aborted", <<>>)

Numbers(rows) == {s.number : s \in rows}
NextNumber(rows) == IF rows = {} THEN 1 ELSE 1 + CHOOSE n \in Numbers(rows) : \A m \in Numbers(rows) : m <= n

AddSnapshot(p, session) ==
    TablesChange(p, [tables[p] EXCEPT !.snapshots = @ \cup {[number |-> NextNumber(@), session |-> session]}])
PruneSnapshot(p, s) ==
    /\ s.number + 1 # NextNumber(tables[p].snapshots)
    /\ TablesChange(p, [tables[p] EXCEPT !.snapshots = @ \ {s}])

\* save_hydration_state cuts the file and writes it again.
HydrationChanges(p, w) ==
    /\ Change
    /\ hydrated' = [hydrated EXCEPT ![p][w] = IF @ = "torn" THEN "whole" ELSE "torn"]
    /\ UNCHANGED <<registered, spaces, tables, lockedBy, queries>>

Others ==
    \E p \in Registrable :
       \/ \E w \in Spaces : RegisterWorkspace(p, w)
       \/ UnregisterProject(p)
       \/ AddHandoff(p)
       \/ \E n \in DOMAIN tables[p].handoffs : HandoffGoesOn(p, n)
       \/ \E session \in StoredSessions : AddSnapshot(p, session)
       \/ \E s \in tables[p].snapshots : PruneSnapshot(p, s)
       \/ \E w \in Spaces \cup {NoSpace} : HydrationChanges(p, w)
-----------------------------------------------------------------------------
(* Asking                                                                  *)

\* Mutant: the guard of the lock is dropped before the stores are read.
LockKeptForFiles(kind) == kind = "environment"

LockKept(kind) == kind \in {"recoverable", "environment"}

\* Opening a project asks the registry again, and snapshots.list never does.
AsksAgain(kind) == kind \in {"handoffs", "leases", "snapshots"}
AsksFirst(kind) == kind \notin {"snapshots", "store"}

\* environment_workspace_ids_for_project
EntriesOf(p, workspace) ==
    {[project |-> p, space |-> w] :
        w \in IF workspace # Every THEN spaces[p] \cap {workspace}
              ELSE IF spaces[p] = {} THEN {NoSpace} ELSE spaces[p]}

\* What the handler finds in the registry: what to read, or the answer.
ToRead(kind, wanted, narrow) ==
    CASE kind = "registry" -> {}
      [] kind = "environment" -> UNION {EntriesOf(p, narrow) : p \in wanted}
      [] OTHER -> wanted
RegistryPage(kind, wanted) ==
    IF kind = "registry" THEN {[project |-> p, spaces |-> spaces[p]] : p \in wanted} ELSE {}

ProjectsFor(project) == IF project = Every THEN registered ELSE {project}
Known(kind, project) == AsksFirst(kind) => ProjectsFor(project) \subseteq registered

\* The handler takes the lock to see which projects there are.  All but
\* LockKept let it go before they read.
Ask(q, kind, project, journals, narrow, limit) ==
    /\ queries[q].pc = "idle"
    /\ lockedBy = Nobody
    /\ Known(kind, project)
    /\ kind = "environment" /\ narrow # Every => ToRead(kind, ProjectsFor(project), narrow) # {}
    /\ queries' = [queries EXCEPT ![q] =
          [NotAskedYet EXCEPT !.kind = kind, !.wanted = ProjectsFor(project), !.journals = journals,
                              !.narrow = narrow, !.limit = limit, !.asked = tables, !.pc = "next",
                              !.todo = ToRead(kind, ProjectsFor(project), narrow),
                              !.page = RegistryPage(kind, ProjectsFor(project))]]
    /\ lockedBy' = IF LockKept(kind) THEN q ELSE Nobody
    /\ UNCHANGED <<registered, spaces, tables, hydrated, changes>>

Asks(q) ==
    \E p \in Registrable, everywhere \in BOOLEAN :
       LET project == IF everywhere THEN Every ELSE p IN
       \/ \E kind \in {"leases", "registry", "recoverable"} : Ask(q, kind, project, FALSE, Every, Every)
       \/ \E journals \in BOOLEAN : Ask(q, "handoffs", project, journals, Every, Every)
       \/ \E w \in Spaces \cup {Every} : Ask(q, "environment", project, FALSE, w, Every)
       \/ Ask(q, "store", p, FALSE, Every, Every)
       \/ \E session \in StoredSessions \cup {Every}, limit \in PageLimits \cup {Every} :
             Ask(q, "snapshots", p, FALSE, session, limit)

-----------------------------------------------------------------------------
(* Reading                                                                 *)

Reads(q, change) ==
    /\ queries' = [queries EXCEPT ![q] = change]
    /\ UNCHANGED <<registered, spaces, tables, hydrated, lockedBy, changes>>

QueryEnds(q, change) ==
    /\ queries' = [queries EXCEPT ![q] = change]
    /\ lockedBy' = IF lockedBy = q THEN Nobody ELSE lockedBy
    /\ UNCHANGED <<registered, spaces, tables, hydrated, changes>>

Opens(q, p) ==
    /\ queries[q].pc = "next" /\ queries[q].kind # "environment"
    /\ p \in queries[q].todo /\ \A r \in queries[q].todo : p <= r

\* open_registered_project_db
OpenNext(q, p) ==
    /\ Opens(q, p)
    /\ AsksAgain(queries[q].kind) => lockedBy = Nobody /\ p \in registered
    /\ Reads(q, [queries[q] EXCEPT !.pc = "opened", !.todo = @ \ {p}, !.opened = p])
RefuseNext(q, p) ==
    /\ Opens(q, p)
    /\ AsksAgain(queries[q].kind) /\ lockedBy = Nobody /\ p \notin registered
    /\ QueryEnds(q, [queries[q] EXCEPT !.pc = "refused", !.opened = p])

Rows(q) == tables[queries[q].opened]
ShowsAlso(q, entries) == [queries[q] EXCEPT !.pc = "next", !.page = @ \cup entries]

ReadLeaseEpochs(q) ==
    /\ queries[q].pc = "opened" /\ queries[q].kind = "leases"
    /\ Reads(q, ShowsAlso(q, {[project |-> queries[q].opened, epoch |-> Rows(q).epoch]}))

\* Mutant: the statement asks for the handoffs that are not over.
ReadPendingHandoffs(q) ==
    /\ queries[q].pc = "opened" /\ queries[q].kind = "handoffs"
    /\ Reads(q, [queries[q] EXCEPT !.pc = "journals",
                    !.unread = SelectSeq([n \in DOMAIN Rows(q).handoffs |->
                                  [project |-> queries[q].opened, number |-> n,
                                   state |-> Rows(q).handoffs[n].state, journal |-> <<>>]],
                                  LAMBDA row : row.state \notin {"Committed", "Aborted"})])

\* list_handoffs
ReadHandoffs(q) ==
    /\ queries[q].pc = "opened" /\ queries[q].kind = "handoffs"
    /\ Reads(q, [queries[q] EXCEPT !.pc = "journals",
                    !.unread = [n \in DOMAIN Rows(q).handoffs |->
                                  [project |-> queries[q].opened, number |-> n,
                                   state |-> Rows(q).handoffs[n].state, journal |-> <<>>]]])

\* list_handoff_journal
WithJournal(row) == [row EXCEPT !.journal = tables[row.project].handoffs[row.number].journal]

ReadJournalOfRow(q) ==
    /\ queries[q].pc = "journals" /\ queries[q].unread # <<>>
    /\ LET row == Head(queries[q].unread)
       IN Reads(q, [queries[q] EXCEPT !.unread = Tail(@),
                       !.page = @ \cup {IF queries[q].journals THEN WithJournal(row) ELSE row}])

JournalsRead(q) ==
    /\ queries[q].pc = "journals" /\ queries[q].unread = <<>>
    /\ Reads(q, ShowsAlso(q, {}))

OfSession(rows, session) == {s \in rows : session \in {Every, s.session}}
Newest(rows, n) == {s \in rows : Cardinality({t \in rows : t.number > s.number}) < n}
PageLimit(limit) == Min({IF limit = Every THEN DefaultLimit ELSE limit, TopLimit})

\* Mutant: the page is cut before the session is looked at.
CutFirst(query, rows) ==
    IF query.kind = "snapshots" THEN OfSession(Newest(rows, PageLimit(query.limit)), query.narrow) ELSE rows

\* remote_snapshot_summaries_newest_first; the other lists have no limit.
SnapshotPage(query, rows) ==
    IF query.kind = "snapshots" THEN Newest(OfSession(rows, query.narrow), PageLimit(query.limit)) ELSE rows

ReadSnapshots(q) ==
    /\ queries[q].pc = "opened" /\ queries[q].kind \in {"snapshots", "recoverable", "store"}
    /\ Reads(q, ShowsAlso(q, {[project |-> queries[q].opened, row |-> s] :
                              s \in SnapshotPage(queries[q], Rows(q).snapshots)}))

\* environment_status_entries: without a file the environment is cold.
ReadEnvironment(q) ==
    /\ queries[q].pc = "next" /\ queries[q].kind = "environment"
    /\ \E e \in queries[q].todo :
          LET file == hydrated[e.project][e.space]
          IN /\ file # "torn"
             /\ Reads(q, [ShowsAlso(q, {[project |-> e.project, space |-> e.space, persisted |-> file = "whole"]})
                             EXCEPT !.todo = @ \ {e}])

\* A database that cannot be read, or a file that does not parse, ends it all.
QueryFails(q) ==
    /\ Running(queries[q])
    /\ QueryEnds(q, [queries[q] EXCEPT !.pc = "error"])

Answers(q) ==
    /\ queries[q].pc = "next" /\ queries[q].todo = {}
    /\ QueryEnds(q, [queries[q] EXCEPT !.pc = "answered"])

QueryStep(q) ==
    \/ Asks(q)
    \/ \E p \in Registrable : OpenNext(q, p) \/ RefuseNext(q, p)
    \/ ReadLeaseEpochs(q) \/ ReadHandoffs(q) \/ ReadJournalOfRow(q) \/ JournalsRead(q)
    \/ ReadSnapshots(q) \/ ReadEnvironment(q) \/ QueryFails(q) \/ Answers(q)

QueriesNext == Others \/ \E q \in Queries : QueryStep(q)

-----------------------------------------------------------------------------
(* A list of handoffs is read record by record and journal by journal, and *)
(* is still a history that may have been: every handoff that there was is  *)
(* there, with a state no older than when the list was asked for and a     *)
(* journal that begins the one of now; and the journal, read later, tells  *)
(* of the step that brought the state (a refused commit has no phase).  An *)
(* epoch in a list of leases is one from between the question and now.     *)
PhaseOf(state) == IF state = "Committed" THEN "LeaseCommitted" ELSE state
HandoffListsAreTrue ==
    \A q \in Queries : queries[q].pc = "answered" /\ queries[q].kind = "handoffs" =>
       /\ \A p \in queries[q].wanted : \A n \in DOMAIN queries[q].asked[p].handoffs :
             \E row \in queries[q].page : row.project = p /\ row.number = n
       /\ \A row \in queries[q].page :
             LET current == tables[row.project].handoffs[row.number]
                 before == queries[q].asked[row.project].handoffs
             IN /\ IsPrefix(row.journal, current.journal)
                /\ queries[q].journals /\ row.state # "Aborted" => PhaseOf(row.state) \in ToSet(row.journal)
                /\ row.number \in DOMAIN before =>
                      /\ queries[q].journals => IsPrefix(before[row.number].journal, row.journal)
                      /\ before[row.number].state \in {"Committed", "Aborted"} =>
                             row.state = before[row.number].state
                /\ row.state \in {"Committed", "Aborted"} => row.state = current.state
LeaseListsAreTrue ==
    \A q \in Queries : queries[q].pc = "answered" /\ queries[q].kind = "leases" =>
       /\ queries[q].wanted = {row.project : row \in queries[q].page}
       /\ \A row \in queries[q].page :
             row.epoch \in queries[q].asked[row.project].epoch .. tables[row.project].epoch
TransferListsAreTrue == HandoffListsAreTrue /\ LeaseListsAreTrue

(* Of the snapshots that were there all the time, those that are not shown *)
(* are older than all that are, and the page is full.                      *)
SnapshotListsAreTrue ==
    \A q \in Queries :
       queries[q].pc = "answered" /\ queries[q].kind \in {"snapshots", "recoverable", "store"} =>
          \A p \in queries[q].wanted :
             LET all == OfSession(queries[q].asked[p].snapshots \cap tables[p].snapshots, queries[q].narrow)
                 shown == {i.row : i \in {j \in queries[q].page : j.project = p}}
             IN /\ \A s \in shown : queries[q].narrow \in {Every, s.session}
                /\ \A s \in all \ shown :
                      /\ queries[q].kind = "snapshots" /\ Cardinality(shown) >= PageLimit(queries[q].limit)
                      /\ \A t \in shown : t.number > s.number

(* A query that keeps the lock reads only what is registered until it has  *)
(* answered; one that does not says of a project that it is unknown only   *)
(* if it was, at some moment since the question.                           *)
RegistryListsAreTrue ==
    \A q \in Queries :
       /\ Running(queries[q]) /\ queries[q].kind \in {"recoverable", "environment"} =>
             /\ queries[q].wanted \subseteq registered
             /\ queries[q].kind = "environment" =>
                   queries[q].todo \cup {[project |-> e.project, space |-> e.space] : e \in queries[q].page}
                      = UNION {EntriesOf(p, queries[q].narrow) : p \in queries[q].wanted}
       /\ queries[q].pc = "refused" /\ AsksFirst(queries[q].kind) => queries[q].opened \in queries[q].gone

-----------------------------------------------------------------------------
(***************************************************************************)
(* Lists over several databases: activity.list of the agent, audit list    *)
(* and audit export of the command line, and runs.list.  Each asks every   *)
(* database for its newest rows, one after the other, while rows go on     *)
(* being recorded with the time of a wall clock that may be set back, and  *)
(* merges what it has got.  runs.list reads no agent database, and its     *)
(* statement does not say which of two runs of one second comes first.     *)
(***************************************************************************)
CONSTANTS
    ProjectCount,   \* databases of projects, numbered in the order of their ids
    Listings,       \* calls
    RowLimit,       \* rows a statement returns at most (1 000)
    AskedLimits,    \* limits that callers ask for
    MaxRows,        \* a bound: rows of one database
    MaxSecond       \* a bound: different readings of the clock

ASSUME ActivityAssumption ==
    /\ ProjectCount \in Nat \ {0} /\ RowLimit \in Nat \ {0} /\ AskedLimits \subseteq Nat
    /\ MaxRows \in Nat /\ MaxSecond \in Nat

VARIABLES
    recorded,   \* rows of all databases: number of the database, row id, second
    listings    \* [Listings -> the call, what is left to read, and what was read]

activityVars == <<recorded, listings>>

AgentDatabase == 0
NotAsked == [kind |-> "none", pc |-> "none", limit |-> 0, next |-> 0, seen |-> {}, existing |-> {}]

ActivityInit == recorded = {} /\ listings = [l \in Listings |-> NotAsked]

RowsOf(d) == {row \in recorded : row.database = d}

NewRow(d, second) == [database |-> d, id |-> Cardinality(RowsOf(d)) + 1, second |-> second]

(* A transaction, or a statement on its own, records one row. *)
RecordRow(d) ==
    /\ Cardinality(RowsOf(d)) < MaxRows
    /\ \E second \in 1 .. MaxSecond : recorded' = recorded \cup {NewRow(d, second)}
    /\ UNCHANGED listings

(* The agent brings the limit into the statements' range, the command line *)
(* does not.                                                               *)
Clamped(limit) == IF limit < 1 THEN 1 ELSE IF limit > RowLimit THEN RowLimit ELSE limit
LimitOf(kind, asked) == IF kind = "audit" THEN asked ELSE Clamped(asked)

AskList(l, kind, asked) ==
    /\ listings[l].pc = "none"
    /\ LET first == IF kind = "runs" THEN 1 ELSE AgentDatabase IN
       listings' = [listings EXCEPT ![l] = [kind |-> kind, pc |-> "read", limit |-> LimitOf(kind, asked),
                        next |-> first, seen |-> {},
                        existing |-> {row \in recorded : row.database >= first}]]
    /\ UNCHANGED recorded
-----------------------------------------------------------------------------
(* The orders: that of the statements for audit rows, that of the          *)
(* statements for runs, and that of the final sort, which keeps the order  *)
(* of the databases where it finds no difference.                          *)
NewerRow(a, b) == a.second > b.second \/ (a.second = b.second /\ a.id > b.id)
NewerRun(a, b) == a.second > b.second
Before(a, b) == NewerRow(a, b) \/ (~NewerRow(b, a) /\ a.database < b.database)

\* Mutant: the statement keeps the order of the table.
OldestRows(kind, rows, n) ==
    {S \in SUBSET rows : /\ Cardinality(S) = IF Cardinality(rows) < n THEN Cardinality(rows) ELSE n
                         /\ \A a \in S, b \in rows \ S : NewerRow(b, a)}

(* What ORDER BY .. DESC LIMIT n may return. *)
NewestRows(kind, rows, n) ==
    {S \in SUBSET rows : /\ Cardinality(S) = IF Cardinality(rows) < n THEN Cardinality(rows) ELSE n
                         /\ \A a \in S, b \in rows \ S :
                               IF kind = "runs" THEN ~NewerRun(b, a) ELSE NewerRow(a, b)}

(* list_audit_events or list_task_runs of the next database; one that      *)
(* cannot be read ends the call with an error.                             *)
ReadDatabase(l) ==
    /\ listings[l].pc = "read" /\ listings[l].next <= ProjectCount
    /\ \/ \E S \in NewestRows(listings[l].kind, RowsOf(listings[l].next), Clamped(listings[l].limit)) :
             listings' = [listings EXCEPT ![l].next = @ + 1, ![l].seen = @ \cup S]
       \/ listings' = [listings EXCEPT ![l].pc = "error"]
    /\ UNCHANGED recorded

(* The sort and the truncation. *)
AnswerList(l) ==
    /\ listings[l].pc = "read" /\ listings[l].next > ProjectCount
    /\ LET read == listings[l].seen IN
       listings' = [listings EXCEPT ![l].pc = "answered",
                        ![l].seen = {a \in read : Cardinality({b \in read : Before(b, a)}) < listings[l].limit}]
    /\ UNCHANGED recorded

ActivityNext ==
    \/ \E d \in AgentDatabase .. ProjectCount : RecordRow(d)
    \/ \E l \in Listings :
          \/ \E kind \in {"activity", "audit", "runs"}, asked \in AskedLimits : AskList(l, kind, asked)
          \/ ReadDatabase(l) \/ AnswerList(l)
-----------------------------------------------------------------------------
(* A list shows the newest of what there was: no row that existed when the *)
(* call came in is left out while an older row is shown or there was room  *)
(* for it, however many rows were recorded during the call and whatever    *)
(* the clock said.  (A command that asks for more rows than a statement    *)
(* returns may leave out rows between those it shows.)                     *)
ListsAreNewest ==
    \A l \in Listings : listings[l].pc = "answered" /\ listings[l].limit \in 1 .. RowLimit =>
       /\ Cardinality(listings[l].seen) <= listings[l].limit
       /\ \A row \in listings[l].existing \ listings[l].seen :
             /\ Cardinality(listings[l].seen) = listings[l].limit
             /\ \A shown \in listings[l].seen :
                   IF listings[l].kind # "runs" /\ shown.database = row.database
                   THEN NewerRow(shown, row) ELSE row.second <= shown.second
=============================================================================
