---------------------------- MODULE AgentEvents ----------------------------
(***************************************************************************)
(* The event stream of the agent (AgentEventLog and the events.subscribe   *)
(* connections of the agent's main.rs, events.rs, ipc.rs): events are      *)
(* numbered from one by a log that lives as long as the agent process, a   *)
(* subscription takes what its cursor accepts from the log and registers a *)
(* channel for what comes later, and one thread per connection writes both *)
(* to the socket.  Connections break, writes time out, the agent restarts. *)
(***************************************************************************)
EXTENDS Integers, Sequences

CONSTANTS
    Clients,        \* subscribers
    MaxEvents,      \* a bound: events in one run of the agent
    MaxAgentRuns,   \* a bound: starts of the agent
    MaxConnects     \* a bound: subscriptions of one client

ASSUME EventsAssumption ==
    /\ MaxEvents \in Nat /\ MaxAgentRuns \in Nat /\ MaxConnects \in Nat

VARIABLES
    agentRun,       \* which run of the agent this is
    published,      \* events in its log: their sequences are 1..published
    subscribers,    \* clients whose channel is in the list of the log
    streams,        \* [Clients -> the agent's thread for the connection]
    clients         \* [Clients -> the client's end of it]

eventVars == <<agentRun, published, subscribers, streams, clients>>

NoStream == [pc |-> "none", cursor |-> 0, todo |-> <<>>, channel |-> <<>>]
Event(n) == [run |-> agentRun, sequence |-> n]

\* Mutant: it is only registered when the answer has been written.
RegistersLate(step) == step = "respond"
(* Where a connection is put on the list of subscribers: in the same       *)
(* critical section of the log that its replay is taken in.                *)
RegistersAt(step) == step = "subscribe"

EventsInit ==
    /\ agentRun = 1 /\ published = 0 /\ subscribers = {}
    /\ streams = [c \in Clients |-> NoStream]
    /\ clients = [c \in Clients |-> [connected |-> FALSE, cursor |-> 0, from |-> 0, run |-> 0,
                                     received |-> <<>>, connects |-> 0]]

(* AgentEventLog::publish.  A channel whose thread has ended only leaves   *)
(* the list here, but takes nothing any more: WriteFails removes it.       *)
Publish ==
    /\ published < MaxEvents
    /\ published' = published + 1
    /\ streams' = [c \in Clients |->
                     IF c \in subscribers
                     THEN [streams[c] EXCEPT !.channel = Append(@, published + 1)]
                     ELSE streams[c]]
    /\ UNCHANGED <<agentRun, subscribers, clients>>

(* A client connects and sends events.subscribe, either from the start or  *)
(* with the sequence of the last event it has seen, in whatever run of the *)
(* agent that was.                                                         *)
ClientSubscribes(c) ==
    /\ ~clients[c].connected /\ streams[c].pc = "none"
    /\ clients[c].connects < MaxConnects
    /\ \E cursor \in {0, clients[c].cursor} :
          /\ streams' = [streams EXCEPT ![c] = [NoStream EXCEPT !.pc = "request", !.cursor = cursor]]
          /\ clients' = [clients EXCEPT ![c].connected = TRUE, ![c].from = cursor,
                            ![c].run = agentRun, ![c].received = <<>>, ![c].connects = @ + 1]
    /\ UNCHANGED <<agentRun, published, subscribers>>

(* What EventReplayCursor::accepts lets through of the log: what comes      *)
(* after the cursor, if the log is that long.                              *)
After(cursor) == [i \in 1..(published - cursor) |-> cursor + i]

(* The replay, and the registration. *)
Subscribe(c) ==
    /\ streams[c].pc = "request"
    /\ streams' = [streams EXCEPT ![c].pc = "respond", ![c].todo = After(streams[c].cursor)]
    /\ subscribers' = IF RegistersAt("subscribe") THEN subscribers \cup {c} ELSE subscribers
    /\ UNCHANGED <<agentRun, published, clients>>

Respond(c) ==
    /\ streams[c].pc = "respond"
    /\ streams' = [streams EXCEPT ![c].pc = "stream"]
    /\ subscribers' = IF RegistersAt("respond") THEN subscribers \cup {c} ELSE subscribers
    /\ UNCHANGED <<agentRun, published, clients>>

Deliver(c, n) ==
    clients' = [clients EXCEPT ![c].received = Append(@, Event(n)), ![c].cursor = n]

(* First the replay, then the channel. *)
WriteReplayed(c) ==
    /\ streams[c].pc = "stream" /\ streams[c].todo # <<>>
    /\ clients[c].connected
    /\ Deliver(c, Head(streams[c].todo))
    /\ streams' = [streams EXCEPT ![c].todo = Tail(@)]
    /\ UNCHANGED <<agentRun, published, subscribers>>

WritePublished(c) ==
    /\ streams[c].pc = "stream" /\ streams[c].todo = <<>> /\ streams[c].channel # <<>>
    /\ clients[c].connected
    /\ Deliver(c, Head(streams[c].channel))
    /\ streams' = [streams EXCEPT ![c].channel = Tail(@)]
    /\ UNCHANGED <<agentRun, published, subscribers>>

(* The connection breaks.  The thread only finds out with its next write.  *)
ClientDisconnects(c) ==
    /\ clients[c].connected
    /\ clients' = [clients EXCEPT ![c].connected = FALSE]
    /\ UNCHANGED <<agentRun, published, subscribers, streams>>

(* A write fails because the client is gone, or times out because it does  *)
(* not read: the thread ends, and its channel with it.                     *)
WriteFails(c) ==
    /\ \/ streams[c].pc = "respond"
       \/ streams[c].pc = "stream" /\ (streams[c].todo # <<>> \/ streams[c].channel # <<>>)
    /\ streams' = [streams EXCEPT ![c] = NoStream]
    /\ clients' = [clients EXCEPT ![c].connected = FALSE]
    /\ subscribers' = subscribers \ {c}
    /\ UNCHANGED <<agentRun, published>>

(* The log is memory: a new process counts from one again. *)
AgentRestarts ==
    /\ agentRun < MaxAgentRuns
    /\ agentRun' = agentRun + 1
    /\ published' = 0 /\ subscribers' = {}
    /\ streams' = [c \in Clients |-> NoStream]
    /\ clients' = [c \in Clients |-> [clients[c] EXCEPT !.connected = FALSE]]

EventsNext ==
    \/ Publish \/ AgentRestarts
    \/ \E c \in Clients :
          \/ ClientSubscribes(c) \/ Subscribe(c) \/ Respond(c)
          \/ WriteReplayed(c) \/ WritePublished(c)
          \/ ClientDisconnects(c) \/ WriteFails(c)
-----------------------------------------------------------------------------
(* What a client has received over one connection is a gapless piece of    *)
(* one run's log: each event once and in order, events published between   *)
(* the subscription and the end of the replay included; and it begins with *)
(* the event after the cursor when the log reaches that far.               *)
StreamsHaveNoGaps ==
    \A c \in Clients :
        LET received == clients[c].received
        IN  received # <<>> =>
                /\ \A i \in DOMAIN received :
                      received[i] = [run |-> clients[c].run, sequence |-> received[1].sequence + i - 1]
                /\ received[1].sequence <= clients[c].from + 1
                /\ received[1].sequence # clients[c].from + 1 =>
                      \* the cursor is from an earlier run with a longer log
                      clients[c].run > 1
=============================================================================
