---------------------------- MODULE ControlChannel ----------------------------
(* Remote control requests of one paired device: the credentials it imports, *)
(* the frames it sends over mutual TLS, and the agent's checks before a      *)
(* request runs. The agent serves each connection in a thread of its own;    *)
(* the replay cache is under a lock, the revocations are read before it.     *)
(* The handshake is the TLS library's: a connection either carries the       *)
(* paired device's key or is not there.                                      *)
EXTENDS Naturals

CONSTANTS Frames,         \* request frames; a frame has a nonce of its own
          Connections,
          ReplayWindow,   \* seconds a nonce is remembered, and the largest clock skew
          CertificateEnd, \* expires_at of the device certificate
          MaxChannelTime  \* bound: the agent's clock

ASSUME ChannelAssumption ==
    /\ MaxChannelTime \in Nat
    /\ ReplayWindow \in 1..MaxChannelTime
    /\ CertificateEnd \in Nat

VARIABLES channelTime,   \* the agent's clock
          credentials,   \* the bundle the client stored: "none", or whose key it is for
          frames,        \* frame -> what it says, once sent
          seenNonces,    \* ControlPlaneReplayCache: frame -> when, or NotSeen
          connections,   \* connection -> the frame it handles
          peerRevoked,   \* the client's device is in device_revocations
          runCount,      \* history: frame -> requests run for it since the agent started
          ranRevoked     \* history: a request ran that was read after the revocation

channelVars == <<channelTime, credentials, frames, seenNonces, connections,
                 peerRevoked, runCount, ranRevoked>>
agentSide == <<channelTime, seenNonces, connections, peerRevoked, runCount, ranRevoked>>

NotSeen == MaxChannelTime + 1
UnsentFrame == [sent |-> FALSE]
IdleConnection == [at |-> "idle"]

ChannelInit ==
    /\ channelTime = ReplayWindow
    /\ credentials = "none"
    /\ frames = [f \in Frames |-> UnsentFrame]
    /\ seenNonces = [f \in Frames |-> NotSeen]
    /\ connections = [c \in Connections |-> IdleConnection]
    /\ peerRevoked = FALSE
    /\ runCount = [f \in Frames |-> 0]
    /\ ranRevoked = FALSE

Difference(a, b) == IF a < b THEN b - a ELSE a - b

----------------------------------------------------------------------------
(* The client. Importing a bundle checks that its leaf and its certificate *)
(* carry this device's own signing key.                                    *)
ImportCredentials(subject) ==
    /\ credentials = "none"
    /\ subject = "own"
    /\ credentials' = subject
    /\ UNCHANGED <<frames, agentSide>>

(* RemoteControlClient::call. The client's clock may be behind or ahead of  *)
(* the agent's; the frame has the nonce, the time and the request.          *)
SendFrame(f, clock, method) ==
    /\ credentials # "none"
    /\ frames[f] = UnsentFrame
    /\ frames' = [frames EXCEPT ![f] =
           [sent |-> TRUE, sentAt |-> clock, ahead |-> clock > channelTime, method |-> method]]
    /\ UNCHANGED <<credentials, agentSide>>

----------------------------------------------------------------------------
(* The agent *)

(* process_remote_frame: a copy of the frame is read, and the revocations;  *)
(* when they cannot be loaded the request ends with an internal error.      *)
LoadRevocations(c, f) ==
    /\ connections[c] = IdleConnection
    /\ frames[f].sent
    /\ connections' = [connections EXCEPT ![c] =
           [at |-> "loaded", frame |-> f, revoked |-> peerRevoked]]
    /\ UNCHANGED <<channelTime, credentials, frames, seenNonces, peerRevoked, runCount, ranRevoked>>

\* Mutant: a nonce is forgotten when the window is over, not after it.
ForgottenEarly(seenAt) == seenAt <= channelTime /\ channelTime - seenAt >= ReplayWindow
Forgotten(seenAt) == seenAt <= channelTime /\ channelTime - seenAt > ReplayWindow

PruneSeen == [f \in Frames |-> IF Forgotten(seenNonces[f]) THEN NotSeen ELSE seenNonces[f]]

CertificateValid == channelTime < CertificateEnd
TimelyFrame(f) == Difference(channelTime, frames[f].sentAt) <= ReplayWindow

(* authenticate_remote_control_frame, under the lock of the replay cache.   *)
(* The nonce is remembered before the request is parsed and its method      *)
(* looked up, so a refused method uses it up as well.                       *)
AuthenticateFrame(c) ==
    LET f == connections[c].frame
        trusted == ~connections[c].revoked /\ CertificateValid
        fresh == PruneSeen[f] = NotSeen
        goes(next) == connections' = [connections EXCEPT ![c] = next]
    IN  /\ connections[c].at = "loaded"
        /\ IF trusted /\ TimelyFrame(f)
           THEN /\ seenNonces' = [PruneSeen EXCEPT ![f] = IF fresh THEN channelTime ELSE @]
                /\ goes(IF fresh /\ frames[f].method = "allowed"
                        THEN [connections[c] EXCEPT !.at = "dispatch"]
                        ELSE IdleConnection)
           ELSE goes(IdleConnection) /\ UNCHANGED seenNonces
        /\ UNCHANGED <<channelTime, credentials, frames, peerRevoked, runCount, ranRevoked>>

DispatchRemoteRequest(c) ==
    LET f == connections[c].frame
    IN  /\ connections[c].at = "dispatch"
        /\ runCount' = [runCount EXCEPT ![f] = @ + 1]
        /\ ranRevoked' = (ranRevoked \/ connections[c].revoked)
        /\ connections' = [connections EXCEPT ![c] = IdleConnection]
        /\ UNCHANGED <<channelTime, credentials, frames, seenNonces, peerRevoked>>

(* The connection is closed, or reading or answering fails. *)
CloseConnection(c) ==
    /\ connections[c] # IdleConnection
    /\ connections' = [connections EXCEPT ![c] = IdleConnection]
    /\ UNCHANGED <<channelTime, credentials, frames, seenNonces, peerRevoked, runCount, ranRevoked>>

RevokePeer ==
    /\ ~peerRevoked
    /\ peerRevoked' = TRUE
    /\ UNCHANGED <<channelTime, credentials, frames, seenNonces, connections, runCount, ranRevoked>>

(* The replay cache is memory: a restarted agent starts with an empty one. *)
RemoteServerRestarts ==
    /\ seenNonces' = [f \in Frames |-> NotSeen]
    /\ connections' = [c \in Connections |-> IdleConnection]
    /\ runCount' = [f \in Frames |-> 0]
    /\ UNCHANGED <<channelTime, credentials, frames, peerRevoked, ranRevoked>>

ChannelTick ==
    /\ channelTime < MaxChannelTime
    /\ channelTime' = channelTime + 1
    /\ UNCHANGED <<credentials, frames, seenNonces, connections, peerRevoked, runCount, ranRevoked>>

ChannelNext ==
    \/ \E subject \in {"own", "another"} : ImportCredentials(subject)
    \/ \E f \in Frames, clock \in {channelTime - 1, channelTime, channelTime + 1},
             method \in {"allowed", "unlisted"} : SendFrame(f, clock, method)
    \/ \E c \in Connections, f \in Frames : LoadRevocations(c, f)
    \/ \E c \in Connections :
          AuthenticateFrame(c) \/ DispatchRemoteRequest(c) \/ CloseConnection(c)
    \/ RevokePeer \/ RemoteServerRestarts \/ ChannelTick

ChannelSpec == ChannelInit /\ [][ChannelNext]_channelVars

----------------------------------------------------------------------------
(* A frame that arrives twice, on two connections or late, runs its request *)
(* once while the agent runs, unless the sender's clock was ahead of the    *)
(* agent's: then the frame stays timely for longer than the nonce is        *)
(* remembered. Nothing that is read after the device was revoked runs       *)
(* (ControlPlaneReplayCache::remember and process_remote_frame).            *)
RequestsRunOnce ==
    /\ \A f \in Frames : runCount[f] > 1 => frames[f].ahead
    /\ ~ranRevoked
=============================================================================
