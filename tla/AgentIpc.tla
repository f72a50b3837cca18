------------------------------ MODULE AgentIpc ------------------------------
(***************************************************************************)
(* The agent's socket: processes that start and stop at one socket path,   *)
(* and calls of clients (AgentRpcClient, the editor's AgentClient) over    *)
(* it, of which each has a connection of its own.  A stopped agent leaves  *)
(* its socket file; a starting one connects to a file it finds and removes *)
(* it when nobody listens.  A client that could not reach the agent is     *)
(* told to pass --direct, and its operation then runs in the command.      *)
(***************************************************************************)
EXTENDS Integers, FiniteSets

CONSTANTS
    AgentProcesses, \* processes of devrelay-agent --foreground, each started once
    Calls           \* calls of clients

ASSUME IpcAssumption == "none" \notin AgentProcesses

VARIABLES
    processes,   \* [AgentProcesses -> step of the process]
    socket,      \* the process that bound what is at the socket path, or "none"
    listening,   \* processes whose listener is open
    poked,       \* listeners with a connection of a starting process to accept
    calls,       \* [Calls -> step of the client, its outcome, and its connection]
    ran,         \* [Calls -> times the operation has been run]
    overlapped   \* history: two processes have been starting at the same time

ipcVars == <<processes, socket, listening, poked, calls, ran, overlapped>>

NoCall == [pc |-> "idle", outcome |-> "none", to |-> "none", server |-> "none"]

IpcInit ==
    /\ processes = [a \in AgentProcesses |-> "off"]
    /\ socket = "none" /\ listening = {} /\ poked = {}
    /\ calls = [c \in Calls |-> NoCall]
    /\ ran = [c \in Calls |-> 0]
    /\ overlapped = FALSE

Starting == {a \in AgentProcesses : processes[a] \in {"probe", "connect", "remove", "bind"}}
Step(a, pc) == processes' = [processes EXCEPT ![a] = pc]
-----------------------------------------------------------------------------
(* A process that ends closes its connections.  A client whose request is  *)
(* still unread finds its connection reset, another one finds its end.     *)
Severed(c) ==
    IF calls[c].server \in {"queued", "accepted"} THEN [calls[c] EXCEPT !.server = "reset"]
    ELSE IF calls[c].server \in {"read", "handled"} THEN [calls[c] EXCEPT !.server = "closed"]
    ELSE calls[c]

Exits(a) ==
    /\ Step(a, "gone")
    /\ listening' = listening \ {a} /\ poked' = poked \ {a}
    /\ calls' = [c \in Calls |-> IF calls[c].to = a THEN Severed(c) ELSE calls[c]]

(* main: home, configuration and database are there, the server comes next. *)
ProcessStarts(a) ==
    /\ processes[a] = "off" /\ Step(a, "probe")
    /\ overlapped' = (overlapped \/ Starting # {})
    /\ UNCHANGED <<socket, listening, poked, calls, ran>>

(* prepare_socket_path in its three statements. *)
FindsSocket(a) ==
    /\ processes[a] = "probe"
    /\ Step(a, IF socket = "none" THEN "bind" ELSE "connect")
    /\ UNCHANGED <<socket, listening, poked, calls, ran, overlapped>>

\* Mutant: a socket that is there is taken for a stale one.
TakesForStale(a) ==
    /\ processes[a] = "connect" /\ Step(a, "remove")
    /\ UNCHANGED <<socket, listening, poked, calls, ran, overlapped>>

ProbesSocket(a) ==
    /\ processes[a] = "connect"
    /\ IF socket \in listening
       THEN Step(a, "gone") /\ poked' = poked \cup {socket}    \* an active socket is an error
       ELSE Step(a, "remove") /\ UNCHANGED poked
    /\ UNCHANGED <<socket, listening, calls, ran, overlapped>>

RemovesSocket(a) ==
    /\ processes[a] = "remove"
    /\ Step(a, IF socket = "none" THEN "gone" ELSE "bind") /\ socket' = "none"
    /\ UNCHANGED <<listening, poked, calls, ran, overlapped>>

(* UnixListener::bind and the permissions of its socket. *)
BindsSocket(a) ==
    /\ processes[a] = "bind"
    /\ IF socket # "none" THEN Step(a, "gone") /\ UNCHANGED <<socket, listening>>
       ELSE Step(a, "serving") /\ socket' = a /\ listening' = listening \cup {a}
    /\ UNCHANGED <<poked, calls, ran, overlapped>>

ShutdownRequested(a) ==
    /\ processes[a] = "serving" /\ Step(a, "stopping")
    /\ UNCHANGED <<socket, listening, poked, calls, ran, overlapped>>

(* main has seen the flag, which it looks at every 100 ms, while the       *)
(* server's thread waits in accept; or something ends the process.         *)
AgentExits(a) ==
    /\ processes[a] \notin {"off", "gone"} /\ Exits(a)
    /\ UNCHANGED <<socket, ran, overlapped>>
-----------------------------------------------------------------------------
(* The server's loop looks at the flag after each connection, and drops    *)
(* the listener when it is set; Drop removes whatever socket it finds.     *)
AcceptedOne(a) ==
    IF processes[a] = "stopping"
    THEN socket' = "none" /\ listening' = listening \ {a}
    ELSE UNCHANGED <<socket, listening>>

AcceptProbe(a) ==
    /\ a \in poked /\ a \in listening /\ processes[a] \in {"serving", "stopping"}
    /\ poked' = poked \ {a} /\ AcceptedOne(a)
    /\ UNCHANGED <<processes, calls, ran, overlapped>>

(* Connections that nobody has accepted are reset with the listener.  A    *)
(* thread that cannot be started, or a peer of another user, ends one too. *)
AcceptCall(a, c) ==
    /\ calls[c].to = a /\ calls[c].server = "queued"
    /\ a \in listening /\ processes[a] \in {"serving", "stopping"}
    /\ AcceptedOne(a)
    /\ \E server \in {"accepted", "reset"} :
          calls' = [d \in Calls |->
              IF d = c THEN [calls[d] EXCEPT !.server = server]
              ELSE IF processes[a] = "stopping" /\ calls[d].to = a /\ calls[d].server = "queued"
                   THEN Severed(d) ELSE calls[d]]
    /\ UNCHANGED <<processes, poked, ran, overlapped>>

Serves(c) == calls[c].to # "none" /\ processes[calls[c].to] \in {"serving", "stopping"}

(* handle_rpc_connection: one message is read, within 30 s, ... *)
ReadRequest(c) ==
    /\ Serves(c) /\ calls[c].server = "accepted"
    /\ \/ calls[c].pc \in {"written", "ended"} /\ calls[c].outcome # "unsent"
          /\ calls' = [calls EXCEPT ![c].server = "read"]
       \/ calls' = [calls EXCEPT ![c] = Severed(c)]
    /\ UNCHANGED <<processes, socket, listening, poked, ran, overlapped>>

(* ... its handler runs ... *)
HandleRequest(c) ==
    /\ Serves(c) /\ calls[c].server = "read"
    /\ ran' = [ran EXCEPT ![c] = @ + 1]
    /\ calls' = [calls EXCEPT ![c].server = "handled"]
    /\ UNCHANGED <<processes, socket, listening, poked, overlapped>>

(* ... and one message is written, unless the answer is too large or the   *)
(* client has gone.                                                        *)
WriteAnswer(c) ==
    /\ Serves(c) /\ calls[c].server = "handled"
    /\ \E server \in {"answered", "closed"} : calls' = [calls EXCEPT ![c].server = server]
    /\ UNCHANGED <<processes, socket, listening, poked, ran, overlapped>>
-----------------------------------------------------------------------------
(* AgentRpcClient::call.  Outcomes: "unsent" and "ipc" are errors of the   *)
(* transport, "contact" is any other error, with the advice of --direct.   *)
CallEnds(c, outcome) == calls' = [calls EXCEPT ![c] = [@ EXCEPT !.pc = "ended", !.outcome = outcome]]

ConnectCall(c) ==
    /\ calls[c].pc = "idle"
    /\ \/ socket \in listening
          /\ calls' = [calls EXCEPT ![c] = [@ EXCEPT !.pc = "connected", !.to = socket, !.server = "queued"]]
       \/ socket \notin listening /\ CallEnds(c, "contact")
       \/ CallEnds(c, "unsent")    \* nobody answers in two seconds
    /\ UNCHANGED <<processes, socket, listening, poked, ran, overlapped>>

WriteRequest(c) ==
    /\ calls[c].pc = "connected"
    /\ \/ calls[c].server # "reset" /\ calls' = [calls EXCEPT ![c].pc = "written"]
       \/ calls[c].server = "reset" /\ CallEnds(c, "contact")
       \/ CallEnds(c, "unsent")    \* too large
    /\ UNCHANGED <<processes, socket, listening, poked, ran, overlapped>>

\* Mutant: a time limit counts as no contact.
TimeoutOutcome == "contact"
(* What a call ends with that waits no longer. *)
LateOutcome == "ipc"

ReadAnswer(c) ==
    /\ calls[c].pc = "written"
    /\ \/ calls[c].server = "answered" /\ CallEnds(c, "answered")
       \/ calls[c].server = "closed" /\ CallEnds(c, "ipc")
       \/ calls[c].server = "reset" /\ CallEnds(c, "contact")
       \/ CallEnds(c, LateOutcome)
    /\ UNCHANGED <<processes, socket, listening, poked, ran, overlapped>>

(* The user takes the advice. *)
RunDirect(c) ==
    /\ calls[c].outcome = "contact"
    /\ calls' = [calls EXCEPT ![c].outcome = "direct"]
    /\ ran' = [ran EXCEPT ![c] = @ + 1]
    /\ UNCHANGED <<processes, socket, listening, poked, overlapped>>

IpcNext ==
    \/ \E a \in AgentProcesses :
          \/ ProcessStarts(a) \/ FindsSocket(a) \/ ProbesSocket(a) \/ RemovesSocket(a) \/ BindsSocket(a)
          \/ ShutdownRequested(a) \/ AgentExits(a) \/ AcceptProbe(a)
          \/ \E c \in Calls : AcceptCall(a, c)
    \/ \E c \in Calls :
          \/ ReadRequest(c) \/ HandleRequest(c) \/ WriteAnswer(c)
          \/ ConnectCall(c) \/ WriteRequest(c) \/ ReadAnswer(c) \/ RunDirect(c)
-----------------------------------------------------------------------------
(* Agents that do not start at the same moment never hide each other: one  *)
(* that serves has the socket path, whatever starts, stops and crashes     *)
(* came before it and however late an old agent's loop notices its flag.   *)
(* And no operation runs twice because a client followed the advice of     *)
(* --direct, while an answer means that it has run.                        *)
OneAgentAnswers ==
    /\ overlapped \/ \A a \in AgentProcesses : processes[a] = "serving" => socket = a
    /\ \A c \in Calls : ran[c] <= 1 /\ (calls[c].outcome = "answered" => ran[c] = 1)
=============================================================================
