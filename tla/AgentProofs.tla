----------------------------- MODULE AgentProofs -----------------------------
(***************************************************************************)
(* Theorems about the agent process, with their proofs: the requests of    *)
(* peers (ControlChannel), for every number of frames and connections and  *)
(* every replay window; the local socket (AgentIpc), for every number of   *)
(* agent processes and calls; the event stream (AgentEvents), for every    *)
(* number of subscribers, events and restarts; command trust               *)
(* (CommandTrust), for any number of hashes, callers and rows; the         *)
(* registry of projects (ProjectRegistry), for any number of projects,     *)
(* workspaces and runs of the command line; and what the agent appends to  *)
(* its files, the crash journal (CrashJournal) and the log (LogFiles), for *)
(* any number of operations, lines, files, crashes and power failures.     *)
(***************************************************************************)
EXTENDS MCServices, AgentIpc, FiniteSetTheorems, DataInduction, TLAPS

(***************************************************************************)
(* Requests of peers                                                       *)
(***************************************************************************)
USE ChannelAssumption


----------------------------------------------------------------------------
(* The inductive invariant                                                  *)

SentFrame == [sent: {TRUE}, sentAt: Nat, ahead: BOOLEAN, method: {"allowed", "unlisted"}]
BusyConnection == [at: {"loaded", "dispatch"}, frame: Frames, revoked: BOOLEAN]

ChannelType ==
    /\ channelTime \in 1..MaxChannelTime
    /\ frames \in [Frames -> SentFrame \cup {UnsentFrame}]
    /\ seenNonces \in [Frames -> 0..NotSeen]
    /\ connections \in [Connections -> BusyConnection \cup {IdleConnection}]
    /\ runCount \in [Frames -> Nat]
    /\ peerRevoked \in BOOLEAN

Dispatching(c, f) == connections[c].at = "dispatch" /\ connections[c].frame = f

\* Frames that have not been sent are nowhere.
UnsentAreUnknown ==
    \A f \in Frames : ~frames[f].sent =>
      /\ seenNonces[f] = NotSeen
      /\ runCount[f] = 0
      /\ \A c \in Connections : connections[c] # IdleConnection => connections[c].frame # f

\* A nonce was seen in the past, and not before its frame was sent.
SeenAfterSent ==
    \A f \in Frames : seenNonces[f] # NotSeen =>
      /\ seenNonces[f] <= channelTime
      /\ ~frames[f].ahead => frames[f].sentAt <= seenNonces[f]

\* A frame from a clock that was not ahead says a time that has passed.
SentBefore ==
    \A f \in Frames : frames[f].sent /\ ~frames[f].ahead => frames[f].sentAt <= channelTime

\* A frame whose request has run, or is about to, is remembered or too old.
UsedUp(f) == seenNonces[f] # NotSeen \/ channelTime - frames[f].sentAt > ReplayWindow

RunsAreUsedUp ==
    \A f \in Frames : frames[f].sent /\ ~frames[f].ahead =>
      /\ runCount[f] > 0 => UsedUp(f)
      /\ \A c \in Connections : Dispatching(c, f) => UsedUp(f) /\ runCount[f] = 0
      /\ \A c, d \in Connections : Dispatching(c, f) /\ Dispatching(d, f) => c = d
      /\ runCount[f] <= 1

NothingRevokedRuns ==
    /\ \A c \in Connections : connections[c].at = "dispatch" => ~connections[c].revoked
    /\ ~ranRevoked

ChannelInv ==
    /\ ChannelType /\ UnsentAreUnknown /\ SeenAfterSent /\ SentBefore
    /\ RunsAreUsedUp /\ NothingRevokedRuns

----------------------------------------------------------------------------
(* The steps                                                                *)

\* Every frame that was sent says a time.
LEMMA SentFrames ==
  ASSUME ChannelType, NEW f \in Frames, frames[f].sent
  PROVE  frames[f] \in SentFrame /\ frames[f].sentAt \in Nat
<1>1. frames[f] \in SentFrame \cup {UnsentFrame}
  BY DEF ChannelType
<1>2. frames[f] # UnsentFrame
  <2>1. ~UnsentFrame.sent
    BY DEF UnsentFrame
  <2>2. QED
    BY <2>1
<1>3. frames[f] \in SentFrame
  BY <1>1, <1>2
<1>4. QED
  BY <1>3 DEF SentFrame

\* A sent frame is new to the agent.
LEMMA SendKeeps ==
  ASSUME ChannelInv, NEW f \in Frames, NEW clock \in {channelTime - 1, channelTime, channelTime + 1},
         NEW method \in {"allowed", "unlisted"}, SendFrame(f, clock, method)
  PROVE  ChannelInv'
<1> USE DEF ChannelInv
<1>1. UNCHANGED agentSide /\ frames[f] = UnsentFrame
  BY DEF SendFrame
<1>2. UNCHANGED <<channelTime, seenNonces, connections, peerRevoked, runCount, ranRevoked>>
  BY <1>1 DEF agentSide
<1>3. clock \in Nat
  BY DEF ChannelType
<1>4. /\ frames'[f] = [sent |-> TRUE, sentAt |-> clock, ahead |-> clock > channelTime, method |-> method]
      /\ frames'[f] \in SentFrame
      /\ \A g \in Frames : g # f => frames'[g] = frames[g]
  BY <1>3 DEF SendFrame, ChannelType, SentFrame
<1>5. ChannelType'
  BY <1>2, <1>4 DEF ChannelType, SendFrame, NotSeen
<1>6. ~frames[f].sent
  BY <1>1 DEF UnsentFrame
<1>7. /\ seenNonces[f] = NotSeen
      /\ runCount[f] = 0
      /\ \A c \in Connections : connections[c] # IdleConnection => connections[c].frame # f
  BY <1>6 DEF UnsentAreUnknown
<1>8. \A c \in Connections : connections[c].at = "dispatch" => connections[c].frame # f
  BY <1>7 DEF IdleConnection
<1>9. UnsentAreUnknown'
  BY <1>2, <1>4 DEF UnsentAreUnknown, NotSeen
<1>10. SeenAfterSent' /\ SentBefore'
  <2>1. SeenAfterSent'
    <3> SUFFICES ASSUME NEW g \in Frames, seenNonces[g] # NotSeen
                 PROVE  /\ seenNonces[g] <= channelTime
                        /\ ~frames'[g].ahead => frames'[g].sentAt <= seenNonces[g]
      BY <1>2 DEF SeenAfterSent, NotSeen
    <3>1. frames'[g] = frames[g]
      BY <1>4, <1>7
    <3>2. QED
      BY <3>1 DEF SeenAfterSent
  <2>2. SentBefore'
    <3> SUFFICES ASSUME NEW g \in Frames, frames'[g].sent, ~frames'[g].ahead
                 PROVE  frames'[g].sentAt <= channelTime
      BY <1>2 DEF SentBefore
    <3>1. CASE g = f
      <4> DEFINE sentNow == [sent |-> TRUE, sentAt |-> clock, ahead |-> clock > channelTime,
                             method |-> method]
      <4>1. sentNow.sentAt = clock /\ sentNow.ahead = (clock > channelTime)
        OBVIOUS
      <4>2. frames'[g] = sentNow
        BY <1>4, <3>1
      <4> HIDE DEF sentNow
      <4>3. frames'[g].sentAt = clock /\ ~(clock > channelTime)
        BY <4>1, <4>2, Zenon
      <4>4. QED
        BY <1>3, <4>3 DEF ChannelType
    <3>2. CASE g # f
      BY <1>4, <3>2 DEF SentBefore
    <3>3. QED
      BY <3>1, <3>2
  <2>3. QED
    BY <2>1, <2>2
<1>11. RunsAreUsedUp'
  <2> SUFFICES ASSUME NEW g \in Frames, frames'[g].sent /\ ~frames'[g].ahead
               PROVE  /\ runCount[g] > 0 => UsedUp(g)'
                      /\ \A c \in Connections : Dispatching(c, g) => UsedUp(g)' /\ runCount[g] = 0
                      /\ \A c, d \in Connections : Dispatching(c, g) /\ Dispatching(d, g) => c = d
                      /\ runCount[g] <= 1
    BY <1>2 DEF RunsAreUsedUp, Dispatching
  <2>1. CASE g = f
    BY <1>7, <1>8, <2>1 DEF Dispatching
  <2>2. CASE g # f
    BY <1>2, <1>4, <2>2 DEF RunsAreUsedUp, UsedUp, NotSeen
  <2>3. QED
    BY <2>1, <2>2
<1>12. NothingRevokedRuns'
  BY <1>2 DEF NothingRevokedRuns
<1>13. QED
  BY <1>5, <1>9, <1>10, <1>11, <1>12

\* Reading a frame, or closing a connection, brings nothing to dispatch.
LEMMA ConnectionKeeps ==
  ASSUME ChannelInv, NEW c \in Connections, NEW next \in BusyConnection \cup {IdleConnection},
         next = IdleConnection \/ (next.at = "loaded" /\ frames[next.frame].sent),
         connections' = [connections EXCEPT ![c] = next],
         UNCHANGED <<channelTime, frames, seenNonces, peerRevoked, runCount, ranRevoked>>
  PROVE  ChannelInv'
<1> USE DEF ChannelInv
<1>1. connections'[c] = next /\ \A d \in Connections : d # c => connections'[d] = connections[d]
  BY DEF ChannelType
<1>2. next.at # "dispatch"
  BY DEF IdleConnection
<1>3. ChannelType'
  BY DEF ChannelType, NotSeen
<1>4. UnsentAreUnknown'
  BY <1>1 DEF UnsentAreUnknown, NotSeen
<1>5. SeenAfterSent' /\ SentBefore'
  BY DEF SeenAfterSent, SentBefore, NotSeen
<1>6. \A d \in Connections, f \in Frames : Dispatching(d, f)' => Dispatching(d, f)
  BY <1>1, <1>2 DEF Dispatching
<1>7. RunsAreUsedUp'
  BY <1>6 DEF RunsAreUsedUp, UsedUp, NotSeen
<1>8. NothingRevokedRuns'
  BY <1>1, <1>2 DEF NothingRevokedRuns
<1>9. QED
  BY <1>3, <1>4, <1>5, <1>7, <1>8

\* What pruning forgets of a frame that was not ahead is too old to be timely.
LEMMA PruneFacts ==
  ASSUME ChannelInv, NEW f \in Frames
  PROVE  /\ PruneSeen[f] \in 0..NotSeen
         /\ PruneSeen[f] # NotSeen => PruneSeen[f] = seenNonces[f]
         /\ seenNonces[f] = NotSeen => PruneSeen[f] = NotSeen
         /\ frames[f].sent /\ ~frames[f].ahead /\ UsedUp(f) =>
              PruneSeen[f] # NotSeen \/ channelTime - frames[f].sentAt > ReplayWindow
<1>1. PruneSeen[f] = IF Forgotten(seenNonces[f]) THEN NotSeen ELSE seenNonces[f]
  BY DEF PruneSeen
<1>2. /\ channelTime \in 1..MaxChannelTime
      /\ seenNonces[f] \in 0..NotSeen
      /\ NotSeen = MaxChannelTime + 1
  BY DEF ChannelInv, ChannelType, NotSeen
<1>3. frames[f].sent => frames[f].sentAt \in Nat
  BY SentFrames DEF ChannelInv
<1>4. seenNonces[f] # NotSeen /\ ~frames[f].ahead => frames[f].sentAt <= seenNonces[f]
  BY DEF ChannelInv, SeenAfterSent
<1>5. PruneSeen[f] \in 0..NotSeen
  BY <1>1, <1>2
<1>6. PruneSeen[f] = NotSeen /\ seenNonces[f] # NotSeen => channelTime - seenNonces[f] > ReplayWindow
  BY <1>1, <1>2 DEF Forgotten
<1>7. ASSUME frames[f].sent, ~frames[f].ahead, UsedUp(f), PruneSeen[f] = NotSeen
      PROVE  channelTime - frames[f].sentAt > ReplayWindow
  BY <1>2, <1>3, <1>4, <1>6, <1>7 DEF UsedUp
<1>8. QED
  BY <1>1, <1>2, <1>5, <1>7

\* A frame goes on to dispatch only if it is timely and unknown, and then it is
\* remembered.
LEMMA AuthenticateKeeps ==
  ASSUME ChannelInv, NEW c \in Connections, AuthenticateFrame(c)
  PROVE  ChannelInv'
<1> DEFINE f == connections[c].frame
           trusted == ~connections[c].revoked /\ CertificateValid
           fresh == PruneSeen[f] = NotSeen
<1> USE DEF ChannelInv
<1>1. connections[c] \in BusyConnection /\ connections[c].at = "loaded" /\ f \in Frames
  BY DEF AuthenticateFrame, ChannelType, IdleConnection, BusyConnection
<1>2. frames[f].sent
  BY <1>1 DEF UnsentAreUnknown, IdleConnection
<1>3. UNCHANGED <<channelTime, frames, peerRevoked, runCount, ranRevoked>>
  BY DEF AuthenticateFrame
<1>4. CASE ~(trusted /\ TimelyFrame(f))
  <2>1. connections' = [connections EXCEPT ![c] = IdleConnection] /\ UNCHANGED seenNonces
    BY <1>4 DEF AuthenticateFrame
  <2>2. QED
    BY <1>3, <2>1, ConnectionKeeps
<1>5. CASE trusted /\ TimelyFrame(f)
  <2> DEFINE next == IF fresh /\ frames[f].method = "allowed"
                     THEN [connections[c] EXCEPT !.at = "dispatch"]
                     ELSE IdleConnection
  <2>1. /\ seenNonces' = [PruneSeen EXCEPT ![f] = IF fresh THEN channelTime ELSE @]
        /\ connections' = [connections EXCEPT ![c] = next]
    BY <1>5 DEF AuthenticateFrame
  <2>2. /\ connections'[c] = next
        /\ \A d \in Connections : d # c => connections'[d] = connections[d]
    BY <2>1 DEF ChannelType
  <2>3. next = IdleConnection \/ /\ fresh
                                 /\ next \in BusyConnection
                                 /\ next.at = "dispatch" /\ next.frame = f
                                 /\ next.revoked = connections[c].revoked
    BY <1>1 DEF BusyConnection
  <2> HIDE DEF next
  <2>4. channelTime \in 1..MaxChannelTime /\ channelTime # NotSeen /\ channelTime \in 0..NotSeen
    BY DEF ChannelType, NotSeen
  <2>5. /\ seenNonces'[f] = IF fresh THEN channelTime ELSE PruneSeen[f]
        /\ \A g \in Frames : g # f => seenNonces'[g] = PruneSeen[g]
        /\ DOMAIN seenNonces' = Frames
    BY <1>1, <2>1 DEF PruneSeen
  <2>6. ChannelType'
    <3>1. \A g \in Frames : seenNonces'[g] \in 0..NotSeen
      BY <2>4, <2>5, PruneFacts
    <3>2. seenNonces' \in [Frames -> 0..NotSeen]
      BY <2>1, <3>1 DEF PruneSeen
    <3>3. connections' \in [Connections -> BusyConnection \cup {IdleConnection}]
      BY <2>1, <2>3 DEF ChannelType
    <3>4. QED
      BY <1>3, <3>2, <3>3 DEF ChannelType, NotSeen
  <2>7. \A g \in Frames : g # f \/ ~fresh => seenNonces'[g] = PruneSeen[g]
    BY <2>5
  <2>8. fresh => seenNonces'[f] = channelTime /\ seenNonces'[f] # NotSeen
    BY <2>4, <2>5
  <2>9. \A g \in Frames : frames[g].sent /\ ~frames[g].ahead /\ UsedUp(g) => UsedUp(g)'
    <3> TAKE g \in Frames
    <3>1. CASE g = f /\ fresh
      BY <1>3, <2>8, <3>1 DEF UsedUp, NotSeen
    <3>2. CASE g # f \/ ~fresh
      BY <1>3, <2>7, <3>2, PruneFacts DEF UsedUp, NotSeen
    <3>3. QED
      BY <3>1, <3>2
  <2>10. ~frames[f].ahead /\ fresh => ~UsedUp(f)
    <3> SUFFICES ASSUME ~frames[f].ahead, fresh, UsedUp(f) PROVE FALSE
      OBVIOUS
    <3>1. channelTime - frames[f].sentAt > ReplayWindow
      BY <1>1, <1>2, PruneFacts
    <3>2. frames[f].sentAt \in Nat
      BY <1>1, <1>2, SentFrames
    <3>3. Difference(channelTime, frames[f].sentAt) <= ReplayWindow
      BY <1>5 DEF TimelyFrame
    <3>4. QED
      BY <2>4, <3>1, <3>2, <3>3 DEF Difference
  <2>11. UnsentAreUnknown'
    <3> SUFFICES ASSUME NEW g \in Frames, ~frames[g].sent
                 PROVE  /\ seenNonces'[g] = NotSeen
                        /\ runCount[g] = 0
                        /\ \A d \in Connections : connections'[d] # IdleConnection => connections'[d].frame # g
      BY <1>3 DEF UnsentAreUnknown, NotSeen
    <3>1. g # f
      BY <1>2
    <3>2. seenNonces[g] = NotSeen /\ runCount[g] = 0
      BY DEF UnsentAreUnknown
    <3>3. seenNonces'[g] = NotSeen
      BY <2>7, <3>1, <3>2, PruneFacts
    <3>4. \A d \in Connections : connections'[d] # IdleConnection => connections'[d].frame # g
      BY <2>2, <2>3, <3>1 DEF UnsentAreUnknown
    <3>5. QED
      BY <3>2, <3>3, <3>4
  <2>12. SeenAfterSent' /\ SentBefore'
    <3>0. SentBefore'
      BY <1>3 DEF SentBefore
    <3> SUFFICES ASSUME NEW g \in Frames, seenNonces'[g] # NotSeen
                 PROVE  /\ seenNonces'[g] <= channelTime
                        /\ ~frames[g].ahead => frames[g].sentAt <= seenNonces'[g]
      BY <1>3, <3>0 DEF SeenAfterSent, NotSeen
    <3>1. CASE g = f /\ fresh
      <4>1. frames[f].sentAt \in Nat
        BY <1>1, <1>2, SentFrames
      <4>2. ~frames[f].ahead => frames[f].sentAt <= channelTime
        BY <1>1, <1>2 DEF SentBefore
      <4>3. QED
        BY <2>4, <2>8, <3>1, <4>1, <4>2
    <3>2. CASE g # f \/ ~fresh
      BY <2>7, <3>2, PruneFacts DEF SeenAfterSent
    <3>3. QED
      BY <3>1, <3>2
  <2>13. RunsAreUsedUp'
    <3> SUFFICES ASSUME NEW g \in Frames, frames[g].sent, ~frames[g].ahead
                 PROVE  /\ runCount[g] > 0 => UsedUp(g)'
                        /\ \A d \in Connections : Dispatching(d, g)' => UsedUp(g)' /\ runCount[g] = 0
                        /\ \A d, b \in Connections : Dispatching(d, g)' /\ Dispatching(b, g)' => d = b
                        /\ runCount[g] <= 1
      BY <1>3 DEF RunsAreUsedUp
    <3>1. /\ runCount[g] > 0 => UsedUp(g)
          /\ \A d \in Connections : Dispatching(d, g) => UsedUp(g) /\ runCount[g] = 0
          /\ \A d, b \in Connections : Dispatching(d, g) /\ Dispatching(b, g) => d = b
          /\ runCount[g] <= 1 /\ runCount[g] \in Nat
      BY DEF RunsAreUsedUp, ChannelType
    <3>2. UsedUp(g) => UsedUp(g)'
      BY <2>9
    <3>3. \A d \in Connections : d # c /\ Dispatching(d, g)' => Dispatching(d, g)
      BY <2>2 DEF Dispatching
    <3>4. Dispatching(c, g)' => g = f /\ fresh
      BY <2>2, <2>3 DEF Dispatching, IdleConnection
    <3>5. Dispatching(c, g)' => ~UsedUp(g) /\ UsedUp(g)'
      BY <1>3, <2>8, <2>10, <3>4 DEF UsedUp, NotSeen
    <3>6. QED
      BY <3>1, <3>2, <3>3, <3>5
  <2>14. NothingRevokedRuns'
    BY <1>3, <1>5, <2>2, <2>3 DEF NothingRevokedRuns, IdleConnection
  <2>15. QED
    BY <2>6, <2>11, <2>12, <2>13, <2>14
<1>6. QED
  BY <1>4, <1>5

\* A dispatched request runs once more, and its connection is done with it.
LEMMA DispatchKeeps ==
  ASSUME ChannelInv, NEW c \in Connections, DispatchRemoteRequest(c)
  PROVE  ChannelInv'
<1> DEFINE f == connections[c].frame
<1> USE DEF ChannelInv
<1>1. connections[c] \in BusyConnection /\ f \in Frames /\ Dispatching(c, f)
  BY DEF DispatchRemoteRequest, ChannelType, IdleConnection, BusyConnection, Dispatching
<1>2. frames[f].sent
  BY <1>1 DEF UnsentAreUnknown, Dispatching, IdleConnection
<1>3. /\ UNCHANGED <<channelTime, frames, seenNonces, peerRevoked>>
      /\ runCount' = [runCount EXCEPT ![f] = @ + 1]
      /\ connections' = [connections EXCEPT ![c] = IdleConnection]
      /\ ranRevoked' = (ranRevoked \/ connections[c].revoked)
  BY DEF DispatchRemoteRequest
<1>4. /\ connections'[c] = IdleConnection
      /\ \A d \in Connections : d # c => connections'[d] = connections[d]
      /\ runCount'[f] = runCount[f] + 1
      /\ \A g \in Frames : g # f => runCount'[g] = runCount[g]
  BY <1>1, <1>3 DEF ChannelType
<1>5. ChannelType'
  BY <1>1, <1>3 DEF ChannelType, NotSeen
<1>6. UnsentAreUnknown'
  BY <1>2, <1>3, <1>4 DEF UnsentAreUnknown, NotSeen
<1>7. SeenAfterSent' /\ SentBefore'
  BY <1>3 DEF SeenAfterSent, SentBefore, NotSeen
<1>8. RunsAreUsedUp'
  <2> SUFFICES ASSUME NEW g \in Frames, frames[g].sent, ~frames[g].ahead
               PROVE  /\ runCount'[g] > 0 => UsedUp(g)'
                      /\ \A d \in Connections : Dispatching(d, g)' => UsedUp(g)' /\ runCount'[g] = 0
                      /\ \A d, b \in Connections : Dispatching(d, g)' /\ Dispatching(b, g)' => d = b
                      /\ runCount'[g] <= 1
    BY <1>3 DEF RunsAreUsedUp
  <2>1. /\ runCount[g] > 0 => UsedUp(g)
        /\ \A d \in Connections : Dispatching(d, g) => UsedUp(g) /\ runCount[g] = 0
        /\ \A d, b \in Connections : Dispatching(d, g) /\ Dispatching(b, g) => d = b
        /\ runCount[g] <= 1 /\ runCount[g] \in Nat
    BY DEF RunsAreUsedUp, ChannelType
  <2>2. UsedUp(g) => UsedUp(g)'
    BY <1>3 DEF UsedUp, NotSeen
  <2>3. \A d \in Connections : Dispatching(d, g)' => d # c /\ Dispatching(d, g)
    BY <1>4 DEF Dispatching, IdleConnection
  <2>4. CASE g = f
    BY <1>1, <1>4, <2>1, <2>2, <2>3, <2>4
  <2>5. CASE g # f
    BY <1>4, <2>1, <2>2, <2>3, <2>5
  <2>6. QED
    BY <2>4, <2>5
<1>9. NothingRevokedRuns'
  <2>1. ~connections[c].revoked /\ ~ranRevoked
    BY <1>1 DEF NothingRevokedRuns, Dispatching
  <2>2. ~ranRevoked'
    BY <1>3, <2>1
  <2>3. \A d \in Connections : connections'[d].at = "dispatch" => ~connections'[d].revoked
    BY <1>4 DEF NothingRevokedRuns, IdleConnection
  <2>4. QED
    BY <2>2, <2>3 DEF NothingRevokedRuns
<1>10. QED
  BY <1>5, <1>6, <1>7, <1>8, <1>9

\* A restart forgets the nonces together with the requests they belong to.
LEMMA RestartKeeps ==
  ASSUME ChannelInv, RemoteServerRestarts
  PROVE  ChannelInv'
<1> USE DEF ChannelInv
<1>1. /\ \A f \in Frames : seenNonces'[f] = NotSeen /\ runCount'[f] = 0
      /\ \A c \in Connections : connections'[c] = IdleConnection
      /\ UNCHANGED <<channelTime, frames, peerRevoked, ranRevoked>>
  BY DEF RemoteServerRestarts
<1>2. \A c \in Connections, f \in Frames : ~Dispatching(c, f)'
  BY <1>1 DEF Dispatching, IdleConnection
<1>3. NotSeen \in 0..NotSeen
  BY DEF NotSeen
<1>4. ChannelType'
  BY <1>1, <1>3 DEF RemoteServerRestarts, ChannelType, NotSeen
<1>5. UnsentAreUnknown' /\ SeenAfterSent' /\ SentBefore'
  BY <1>1 DEF UnsentAreUnknown, SeenAfterSent, SentBefore, NotSeen
<1>6. RunsAreUsedUp'
  BY <1>1, <1>2 DEF RunsAreUsedUp
<1>7. NothingRevokedRuns'
  BY <1>1 DEF NothingRevokedRuns, IdleConnection
<1>8. QED
  BY <1>4, <1>5, <1>6, <1>7

\* What is too old only gets older.
LEMMA TickKeeps ==
  ASSUME ChannelInv, ChannelTick
  PROVE  ChannelInv'
<1> USE DEF ChannelInv
<1>1. /\ channelTime' = channelTime + 1
      /\ channelTime \in 1..MaxChannelTime /\ channelTime' \in 1..MaxChannelTime
      /\ UNCHANGED <<frames, seenNonces, connections, peerRevoked, runCount, ranRevoked>>
  BY DEF ChannelTick, ChannelType
<1>2. \A f \in Frames : frames[f].sent => frames[f].sentAt \in Nat
  BY SentFrames
<1>3. \A f \in Frames : seenNonces[f] \in 0..NotSeen
  BY DEF ChannelType
<1>4. ChannelType' /\ UnsentAreUnknown' /\ NothingRevokedRuns'
  BY <1>1 DEF ChannelType, UnsentAreUnknown, NothingRevokedRuns, NotSeen
<1>5. SeenAfterSent' /\ SentBefore'
  BY <1>1, <1>2, <1>3 DEF SeenAfterSent, SentBefore, NotSeen
<1>6. \A f \in Frames : frames[f].sent /\ UsedUp(f) => UsedUp(f)'
  BY <1>1, <1>2 DEF UsedUp, NotSeen
<1>7. RunsAreUsedUp'
  BY <1>1, <1>6 DEF RunsAreUsedUp, Dispatching
<1>8. QED
  BY <1>4, <1>5, <1>7

\* Credentials and the revocation are read by others.
LEMMA OthersKeep ==
  ASSUME ChannelInv, peerRevoked' \in BOOLEAN,
         UNCHANGED <<channelTime, frames, seenNonces, connections, runCount, ranRevoked>>
  PROVE  ChannelInv'
BY DEF ChannelInv, ChannelType, UnsentAreUnknown, SeenAfterSent, SentBefore, RunsAreUsedUp,
       NothingRevokedRuns, UsedUp, Dispatching, NotSeen

----------------------------------------------------------------------------
\* However often a frame arrives, on however many connections and however
\* late, its request runs once in a run of the agent if the sender's clock was
\* not ahead, and nothing runs that was read after the revocation: the two
\* windows of the replay check of transport_security.rs fit together.
THEOREM RequestsRunOnceAlways == ChannelSpec => []RequestsRunOnce
<1>1. ChannelInit => ChannelInv
  <2> SUFFICES ASSUME ChannelInit PROVE ChannelInv
    OBVIOUS
  <2>1. ChannelType
    <3>1. channelTime \in 1..MaxChannelTime /\ NotSeen \in 0..NotSeen
      BY DEF ChannelInit, NotSeen
    <3>2. /\ frames \in [Frames -> SentFrame \cup {UnsentFrame}]
          /\ connections \in [Connections -> BusyConnection \cup {IdleConnection}]
      BY DEF ChannelInit
    <3>3. /\ seenNonces \in [Frames -> 0..NotSeen]
          /\ runCount \in [Frames -> Nat]
          /\ peerRevoked \in BOOLEAN
      BY <3>1 DEF ChannelInit
    <3>4. QED
      BY <3>1, <3>2, <3>3 DEF ChannelType
  <2>2. UnsentAreUnknown /\ SeenAfterSent
    BY DEF ChannelInit, UnsentAreUnknown, SeenAfterSent
  <2>3. \A f \in Frames : ~frames[f].sent
    BY DEF ChannelInit, UnsentFrame
  <2>4. SentBefore /\ RunsAreUsedUp
    BY <2>3 DEF SentBefore, RunsAreUsedUp
  <2>5. NothingRevokedRuns
    BY DEF ChannelInit, NothingRevokedRuns, IdleConnection
  <2>6. QED
    BY <2>1, <2>2, <2>4, <2>5 DEF ChannelInv
<1>2. ChannelInv /\ [ChannelNext]_channelVars => ChannelInv'
  <2> SUFFICES ASSUME ChannelInv, [ChannelNext]_channelVars PROVE ChannelInv'
    OBVIOUS
  <2>1. ASSUME NEW subject, ImportCredentials(subject) PROVE ChannelInv'
    BY <2>1, OthersKeep DEF ImportCredentials, agentSide, ChannelInv, ChannelType
  <2>2. ASSUME NEW f \in Frames, NEW clock \in {channelTime - 1, channelTime, channelTime + 1},
               NEW method \in {"allowed", "unlisted"}, SendFrame(f, clock, method)
        PROVE  ChannelInv'
    BY <2>2, SendKeeps
  <2>3. ASSUME NEW c \in Connections, NEW f \in Frames, LoadRevocations(c, f) PROVE ChannelInv'
    <3> DEFINE next == [at |-> "loaded", frame |-> f, revoked |-> peerRevoked]
    <3>1. /\ frames[f].sent
          /\ connections' = [connections EXCEPT ![c] = next]
          /\ UNCHANGED <<channelTime, frames, seenNonces, peerRevoked, runCount, ranRevoked>>
      BY <2>3 DEF LoadRevocations
    <3>2. next \in BusyConnection
      BY DEF BusyConnection, ChannelInv, ChannelType
    <3>3. QED
      BY <3>1, <3>2, ConnectionKeeps
  <2>4. ASSUME NEW c \in Connections, AuthenticateFrame(c) PROVE ChannelInv'
    BY <2>4, AuthenticateKeeps
  <2>5. ASSUME NEW c \in Connections, DispatchRemoteRequest(c) PROVE ChannelInv'
    BY <2>5, DispatchKeeps
  <2>6. ASSUME NEW c \in Connections, CloseConnection(c) PROVE ChannelInv'
    BY <2>6, ConnectionKeeps DEF CloseConnection
  <2>7. CASE RevokePeer
    BY <2>7, OthersKeep DEF RevokePeer
  <2>8. CASE RemoteServerRestarts
    BY <2>8, RestartKeeps
  <2>9. CASE ChannelTick
    BY <2>9, TickKeeps
  <2>10. CASE UNCHANGED channelVars
    BY <2>10, OthersKeep DEF channelVars, ChannelInv, ChannelType
  <2>11. QED
    BY <2>1, <2>2, <2>3, <2>4, <2>5, <2>6, <2>7, <2>8, <2>9, <2>10 DEF ChannelNext
<1>3. ChannelInv => RequestsRunOnce
  <2> SUFFICES ASSUME ChannelInv PROVE RequestsRunOnce
    OBVIOUS
  <2>1. ASSUME NEW f \in Frames, runCount[f] > 1
        PROVE  frames[f].ahead
    <3>1. frames[f].sent
      BY <2>1 DEF ChannelInv, UnsentAreUnknown
    <3>2. runCount[f] \in Nat
      BY DEF ChannelInv, ChannelType
    <3>3. QED
      BY <2>1, <3>1, <3>2 DEF ChannelInv, RunsAreUsedUp
  <2>2. ~ranRevoked
    BY DEF ChannelInv, NothingRevokedRuns
  <2>3. QED
    BY <2>1, <2>2 DEF RequestsRunOnce
<1>4. QED
  BY <1>1, <1>2, <1>3, PTL DEF ChannelSpec

(***************************************************************************)
(* The socket                                                              *)
(***************************************************************************)
IpcSpec == IpcInit /\ [][IpcNext]_ipcVars

ProcessSteps == {"off", "probe", "connect", "remove", "bind", "serving", "stopping", "gone"}
CallStates ==
    [pc : {"idle", "connected", "written", "ended"},
     outcome : {"none", "unsent", "ipc", "contact", "answered", "direct"},
     to : AgentProcesses \cup {"none"},
     server : {"none", "queued", "accepted", "read", "handled", "answered", "closed", "reset"}]

(* Only one process at a time looks for a socket to remove, so that it finds *)
(* every open listener at the socket path.                                  *)
SocketInOrder ==
    /\ processes \in [AgentProcesses -> ProcessSteps]
    /\ listening \subseteq AgentProcesses
    /\ overlapped \in BOOLEAN
    /\ \A a \in AgentProcesses : processes[a] = "serving" => a \in listening
    /\ ~overlapped =>
          /\ \A a \in listening : socket = a
          /\ \A a, b \in Starting : a = b
          /\ \A a \in AgentProcesses : processes[a] = "remove" => socket \notin listening

(* How often the operation of a call has run, by what its connection and    *)
(* its outcome say.  A client without contact has no connection that still  *)
(* leads to a handler.                                                      *)
CallOK(call, runs) ==
    /\ call \in CallStates
    /\ runs \in 0..1
    /\ call.outcome \in {"contact", "direct"} => call.server \in {"none", "reset"}
    /\ call.outcome = "answered" => call.server = "answered"
    /\ call.pc # "ended" => call.outcome = "none"
    /\ call.pc = "idle" => call.server = "none"
    /\ call.outcome = "direct" => runs = 1
    /\ call.server \in {"handled", "answered"} => runs = 1
    /\ call.server \in {"none", "queued", "accepted", "read", "reset"} /\ call.outcome # "direct"
          => runs = 0

CallsInOrder ==
    /\ calls \in [Calls -> CallStates]
    /\ ran \in [Calls -> 0..1]
    /\ \A c \in Calls : CallOK(calls[c], ran[c])

IpcInv == SocketInOrder /\ CallsInOrder
----------------------------------------------------------------------------
(* The socket path.                                                         *)

LEMMA StartsOne ==
    ASSUME SocketInOrder, NEW a \in AgentProcesses, ProcessStarts(a)
    PROVE  SocketInOrder'
<1>1. /\ processes[a] = "off" /\ processes' = [processes EXCEPT ![a] = "probe"]
      /\ overlapped' = (overlapped \/ Starting # {})
      /\ UNCHANGED <<socket, listening>>
  BY DEF ProcessStarts, Step
<1>2. /\ processes' \in [AgentProcesses -> ProcessSteps] /\ overlapped' \in BOOLEAN
      /\ \A b \in AgentProcesses : processes'[b] = IF b = a THEN "probe" ELSE processes[b]
  BY <1>1 DEF SocketInOrder, ProcessSteps
<1>3. \A b \in Starting' : b = a \/ b \in Starting
  BY <1>2 DEF Starting
<1> QED
  BY <1>1, <1>2, <1>3 DEF SocketInOrder

(* A process that was starting goes on, ends, or does not change what is at *)
(* the socket path.                                                         *)
LEMMA GoesOn ==
    ASSUME SocketInOrder, NEW a \in AgentProcesses, NEW pc \in {"connect", "remove", "bind", "gone"},
           processes[a] \in {"probe", "connect", "remove", "bind"}, Step(a, pc),
           pc = "remove" => socket \notin listening,
           UNCHANGED <<socket, listening, overlapped>>
    PROVE  SocketInOrder'
<1>1. /\ processes' \in [AgentProcesses -> ProcessSteps]
      /\ \A b \in AgentProcesses : processes'[b] = IF b = a THEN pc ELSE processes[b]
  BY DEF SocketInOrder, ProcessSteps, Step
<1>2. Starting' \subseteq Starting
  BY <1>1 DEF Starting
<1> QED
  BY <1>1, <1>2 DEF SocketInOrder

LEMMA RemovesOne ==
    ASSUME SocketInOrder, NEW a \in AgentProcesses, RemovesSocket(a)
    PROVE  SocketInOrder'
<1>1. PICK pc \in {"gone", "bind"} : Step(a, pc)
  BY DEF RemovesSocket
<1>2. processes[a] = "remove" /\ socket' = "none" /\ UNCHANGED <<listening, overlapped>>
  BY DEF RemovesSocket
<1>3. /\ processes' \in [AgentProcesses -> ProcessSteps]
      /\ \A b \in AgentProcesses : processes'[b] = IF b = a THEN pc ELSE processes[b]
  BY <1>1 DEF SocketInOrder, ProcessSteps, Step
<1>4. Starting' \subseteq Starting
  BY <1>2, <1>3 DEF Starting
<1>5. ~overlapped => listening = {}
  BY <1>2 DEF SocketInOrder
<1> QED
  BY <1>2, <1>3, <1>4, <1>5 DEF SocketInOrder

LEMMA BindsOne ==
    ASSUME SocketInOrder, NEW a \in AgentProcesses, BindsSocket(a)
    PROVE  SocketInOrder'
<1>1. CASE socket # "none"
  BY <1>1, GoesOn DEF BindsSocket
<1>2. CASE socket = "none"
  <2>1. /\ processes[a] = "bind" /\ Step(a, "serving") /\ socket' = a
        /\ listening' = listening \cup {a} /\ UNCHANGED overlapped
    BY <1>2 DEF BindsSocket
  <2>2. /\ processes' \in [AgentProcesses -> ProcessSteps]
        /\ \A b \in AgentProcesses : processes'[b] = IF b = a THEN "serving" ELSE processes[b]
    BY <2>1 DEF SocketInOrder, ProcessSteps, Step
  <2>3. Starting' \subseteq Starting /\ a \in Starting /\ a \notin Starting'
    BY <2>1, <2>2 DEF Starting
  <2>4. ~overlapped => listening = {}
    BY <1>2, IpcAssumption DEF SocketInOrder
  <2>5. ~overlapped => \A b \in AgentProcesses : processes'[b] # "remove"
    BY <2>1, <2>2, <2>3 DEF SocketInOrder, Starting
  <2> QED
    BY <2>1, <2>2, <2>3, <2>4, <2>5 DEF SocketInOrder
<1> QED
  BY <1>1, <1>2

(* A listener that was closed, by its own loop or with its process.         *)
LEMMA ListenerCloses ==
    ASSUME SocketInOrder, NEW a \in AgentProcesses, NEW pc \in {"gone", "stopping", processes[a]},
           processes' = [processes EXCEPT ![a] = pc],
           pc = "serving" => a \notin listening \/ listening' = listening,
           listening' \in {listening, listening \ {a}},
           \/ socket' = socket
           \/ socket' = "none" /\ a \in listening /\ listening' = listening \ {a},
           UNCHANGED overlapped
    PROVE  SocketInOrder'
<1>1. /\ processes' \in [AgentProcesses -> ProcessSteps]
      /\ \A b \in AgentProcesses : processes'[b] = IF b = a THEN pc ELSE processes[b]
  BY DEF SocketInOrder, ProcessSteps
<1>2. Starting' \subseteq Starting
  BY <1>1 DEF Starting
<1>3. \A b \in AgentProcesses : processes'[b] = "serving" => b \in listening'
  BY <1>1 DEF SocketInOrder
<1>4. \A b \in AgentProcesses : processes'[b] = "remove" => processes[b] = "remove"
  BY <1>1
<1>5. "none" \notin listening'
  BY IpcAssumption DEF SocketInOrder
<1>6. ~overlapped => \A b \in listening' : socket' = b
  BY DEF SocketInOrder
<1> QED
  BY <1>1, <1>2, <1>3, <1>4, <1>5, <1>6 DEF SocketInOrder

LEMMA AcceptedCloses ==
    ASSUME SocketInOrder, NEW a \in AgentProcesses, AcceptedOne(a), a \in listening,
           UNCHANGED <<processes, overlapped>>
    PROVE  SocketInOrder'
<1>1. processes' = [processes EXCEPT ![a] = processes[a]]
  BY DEF SocketInOrder
<1>2. \/ processes[a] = "stopping" /\ socket' = "none" /\ listening' = listening \ {a}
      \/ socket' = socket /\ listening' = listening
  BY DEF AcceptedOne
<1> QED
  BY <1>1, <1>2, ListenerCloses

LEMMA SocketStep ==
    ASSUME SocketInOrder, [IpcNext]_ipcVars
    PROVE  SocketInOrder'
<1>1. CASE UNCHANGED <<processes, socket, listening, overlapped>>
  BY <1>1 DEF SocketInOrder, Starting
<1>2. ASSUME NEW a \in AgentProcesses, ProcessStarts(a)
      PROVE  SocketInOrder'
  BY <1>2, StartsOne
<1>3. ASSUME NEW a \in AgentProcesses, FindsSocket(a)
      PROVE  SocketInOrder'
  <2>1. PICK pc \in {"bind", "connect"} : Step(a, pc)
    BY <1>3 DEF FindsSocket
  <2> QED
    BY <1>3, <2>1, GoesOn DEF FindsSocket
<1>4. ASSUME NEW a \in AgentProcesses, ProbesSocket(a)
      PROVE  SocketInOrder'
  <2>1. PICK pc \in {"gone", "remove"} : Step(a, pc) /\ (pc = "remove" => socket \notin listening)
    BY <1>4 DEF ProbesSocket
  <2> QED
    BY <1>4, <2>1, GoesOn DEF ProbesSocket
<1>5. ASSUME NEW a \in AgentProcesses, RemovesSocket(a)
      PROVE  SocketInOrder'
  BY <1>5, RemovesOne
<1>6. ASSUME NEW a \in AgentProcesses, BindsSocket(a)
      PROVE  SocketInOrder'
  BY <1>6, BindsOne
<1>7. ASSUME NEW a \in AgentProcesses, ShutdownRequested(a) \/ AgentExits(a)
      PROVE  SocketInOrder'
  <2>1. PICK pc \in {"gone", "stopping"} : processes' = [processes EXCEPT ![a] = pc]
    BY <1>7 DEF ShutdownRequested, AgentExits, Exits, Step
  <2>2. /\ listening' \in {listening, listening \ {a}} /\ UNCHANGED <<socket, overlapped>>
    BY <1>7 DEF ShutdownRequested, AgentExits, Exits
  <2> QED
    BY <2>1, <2>2, ListenerCloses
<1>8. ASSUME NEW a \in AgentProcesses, AcceptProbe(a)
      PROVE  SocketInOrder'
  BY <1>8, AcceptedCloses DEF AcceptProbe
<1>9. ASSUME NEW a \in AgentProcesses, NEW c \in Calls, AcceptCall(a, c)
      PROVE  SocketInOrder'
  BY <1>9, AcceptedCloses DEF AcceptCall
<1>10. ASSUME NEW c \in Calls,
              \/ ReadRequest(c) \/ HandleRequest(c) \/ WriteAnswer(c)
              \/ ConnectCall(c) \/ WriteRequest(c) \/ ReadAnswer(c) \/ RunDirect(c)
       PROVE  SocketInOrder'
  <2>1. UNCHANGED <<processes, socket, listening, overlapped>>
    BY <1>10 DEF ReadRequest, HandleRequest, WriteAnswer, ConnectCall, WriteRequest, ReadAnswer,
                 RunDirect
  <2> QED
    BY <1>1, <2>1
<1>11. CASE UNCHANGED ipcVars
  BY <1>1, <1>11 DEF ipcVars
<1> QED
  BY <1>2, <1>3, <1>4, <1>5, <1>6, <1>7, <1>8, <1>9, <1>10, <1>11 DEF IpcNext
-----------------------------------------------------------------------------
(* Calls.                                                                   *)

(* A step of the server's side of a call, before and after its operation.   *)
LEMMA ServerMoves ==
    ASSUME NEW call, NEW runs, CallOK(call, runs),
           NEW server \in {"accepted", "read", "handled", "answered", "closed", "reset"},
           \/ call.server = "queued" /\ server \in {"accepted", "reset"}
           \/ call.server = "accepted" /\ server \in {"read", "reset"}
           \/ call.server = "read" /\ server = "closed"
           \/ call.server = "handled" /\ server \in {"answered", "closed"}
    PROVE  CallOK([call EXCEPT !.server = server], runs)
<1> DEFINE moved == [call EXCEPT !.server = server]
<1>1. /\ moved \in CallStates /\ moved.server = server /\ moved.pc = call.pc
      /\ moved.outcome = call.outcome
  BY DEF CallOK, CallStates
<1> HIDE DEF moved
<1>2. CallOK(moved, runs)
  BY <1>1 DEF CallOK
<1> QED
  BY <1>2 DEF moved

LEMMA SeveredOK ==
    ASSUME NEW c \in Calls, NEW runs, CallOK(calls[c], runs)
    PROVE  CallOK(Severed(c), runs)
<1>1. CASE calls[c].server \in {"queued", "accepted"}
  BY <1>1, ServerMoves DEF Severed
<1>2. CASE calls[c].server \in {"read", "handled"}
  BY <1>2, ServerMoves DEF Severed
<1>3. CASE calls[c].server \notin {"queued", "accepted", "read", "handled"}
  BY <1>3 DEF Severed
<1> QED
  BY <1>1, <1>2, <1>3

(* One call changes, and whether it runs.                                   *)
LEMMA OneCall ==
    ASSUME CallsInOrder, NEW c \in Calls, NEW call, NEW runs, CallOK(call, runs),
           calls' = [calls EXCEPT ![c] = call],
           ran' = [ran EXCEPT ![c] = runs]
    PROVE  CallsInOrder'
BY DEF CallsInOrder, CallOK

LEMMA OneCallOnly ==
    ASSUME CallsInOrder, NEW c \in Calls, NEW call, CallOK(call, ran[c]),
           calls' = [calls EXCEPT ![c] = call], UNCHANGED ran
    PROVE  CallsInOrder'
<1>1. ran' = [ran EXCEPT ![c] = ran[c]]
  BY DEF CallsInOrder
<1> QED
  BY <1>1, OneCall

(* Some calls are severed, one may have been accepted.                      *)
LEMMA EachCall ==
    ASSUME CallsInOrder, calls' = [c \in Calls |-> calls'[c]], UNCHANGED ran,
           \A c \in Calls : CallOK(calls'[c], ran[c])
    PROVE  CallsInOrder'
BY DEF CallsInOrder, CallOK

LEMMA ExitsKeeps ==
    ASSUME CallsInOrder, NEW a \in AgentProcesses, AgentExits(a)
    PROVE  CallsInOrder'
<1> DEFINE next(c) == IF calls[c].to = a THEN Severed(c) ELSE calls[c]
<1>1. calls' = [c \in Calls |-> next(c)] /\ UNCHANGED ran
  BY DEF AgentExits, Exits
<1>2. \A c \in Calls : CallOK(next(c), ran[c])
  BY SeveredOK DEF CallsInOrder
<1> HIDE DEF next
<1> QED
  BY <1>1, <1>2, EachCall

LEMMA AcceptKeeps ==
    ASSUME CallsInOrder, NEW a \in AgentProcesses, NEW c \in Calls, AcceptCall(a, c)
    PROVE  CallsInOrder'
<1>1. PICK server \in {"accepted", "reset"} :
          calls' = [d \in Calls |->
              IF d = c THEN [calls[d] EXCEPT !.server = server]
              ELSE IF processes[a] = "stopping" /\ calls[d].to = a /\ calls[d].server = "queued"
                   THEN Severed(d) ELSE calls[d]]
  BY DEF AcceptCall
<1> DEFINE next(d) == IF d = c THEN [calls[d] EXCEPT !.server = server]
                      ELSE IF processes[a] = "stopping" /\ calls[d].to = a /\ calls[d].server = "queued"
                           THEN Severed(d) ELSE calls[d]
<1>2. ASSUME NEW d \in Calls
      PROVE  CallOK(next(d), ran[d])
  <2>1. CallOK(calls[d], ran[d])
    BY DEF CallsInOrder
  <2>2. CASE d = c
    BY <2>1, <2>2, ServerMoves DEF AcceptCall
  <2>3. CASE d # c
    BY <2>1, <2>3, SeveredOK
  <2> QED
    BY <2>2, <2>3
<1>3. calls' = [d \in Calls |-> next(d)] /\ UNCHANGED ran
  BY <1>1 DEF AcceptCall
<1> HIDE DEF next
<1> QED
  BY <1>2, <1>3, EachCall

LEMMA ReadKeeps ==
    ASSUME CallsInOrder, NEW c \in Calls, ReadRequest(c)
    PROVE  CallsInOrder'
<1>1. CallOK(calls[c], ran[c]) /\ calls[c].server = "accepted" /\ UNCHANGED ran
  BY DEF CallsInOrder, ReadRequest
<1>2. CASE calls' = [calls EXCEPT ![c].server = "read"]
  <2>1. CallOK([calls[c] EXCEPT !.server = "read"], ran[c])
    BY <1>1, ServerMoves
  <2> QED
    BY <1>1, <1>2, <2>1, OneCallOnly
<1>3. CASE calls' = [calls EXCEPT ![c] = Severed(c)]
  BY <1>1, <1>3, SeveredOK, OneCallOnly
<1> QED
  BY <1>2, <1>3 DEF ReadRequest

LEMMA HandleKeeps ==
    ASSUME CallsInOrder, NEW c \in Calls, HandleRequest(c)
    PROVE  CallsInOrder'
<1> DEFINE call == [calls[c] EXCEPT !.server = "handled"]
<1>1. /\ CallOK(calls[c], ran[c]) /\ calls[c].server = "read"
      /\ calls' = [calls EXCEPT ![c] = call]
      /\ ran' = [ran EXCEPT ![c] = @ + 1]
  BY DEF CallsInOrder, HandleRequest
<1>2. ran[c] = 0
  BY <1>1 DEF CallOK
<1>3. /\ call \in CallStates /\ call.server = "handled" /\ call.pc = calls[c].pc
      /\ call.outcome = calls[c].outcome
  BY <1>1 DEF CallOK, CallStates
<1> HIDE DEF call
<1>4. CallOK(call, 1)
  BY <1>1, <1>3 DEF CallOK
<1>5. ran' = [ran EXCEPT ![c] = 1]
  BY <1>1, <1>2
<1> QED
  BY <1>1, <1>4, <1>5, OneCall

LEMMA WriteAnswerKeeps ==
    ASSUME CallsInOrder, NEW c \in Calls, WriteAnswer(c)
    PROVE  CallsInOrder'
<1>1. PICK server \in {"answered", "closed"} : calls' = [calls EXCEPT ![c].server = server]
  BY DEF WriteAnswer
<1>2. CallOK(calls[c], ran[c]) /\ calls[c].server = "handled" /\ UNCHANGED ran
  BY DEF CallsInOrder, WriteAnswer
<1>3. CallOK([calls[c] EXCEPT !.server = server], ran[c])
  BY <1>2, ServerMoves
<1> QED
  BY <1>1, <1>2, <1>3, OneCallOnly

(* A call whose client stops waiting keeps its connection.                  *)
LEMMA EndsKeeps ==
    ASSUME CallsInOrder, NEW c \in Calls, NEW how \in {"unsent", "ipc", "contact", "answered"},
           CallEnds(c, how), UNCHANGED ran,
           calls[c].outcome = "none",
           how = "contact" => calls[c].server \in {"none", "reset"},
           how = "answered" => calls[c].server = "answered"
    PROVE  CallsInOrder'
<1> DEFINE call == [calls[c] EXCEPT !.pc = "ended", !.outcome = how]
<1>1. CallOK(calls[c], ran[c]) /\ calls' = [calls EXCEPT ![c] = call]
  BY DEF CallsInOrder, CallEnds
<1>2. /\ call \in CallStates /\ call.server = calls[c].server /\ call.pc = "ended"
      /\ call.outcome = how
  BY <1>1 DEF CallOK, CallStates
<1> HIDE DEF call
<1>3. CallOK(call, ran[c])
  BY <1>1, <1>2 DEF CallOK
<1> QED
  BY <1>1, <1>3, OneCallOnly

LEMMA ConnectKeeps ==
    ASSUME CallsInOrder, SocketInOrder, NEW c \in Calls, ConnectCall(c)
    PROVE  CallsInOrder'
<1>1. /\ CallOK(calls[c], ran[c]) /\ calls[c].pc = "idle" /\ UNCHANGED ran
      /\ calls[c].outcome = "none" /\ calls[c].server = "none"
  BY DEF CallsInOrder, ConnectCall, CallOK
<1>2. CASE CallEnds(c, "contact") \/ CallEnds(c, "unsent")
  BY <1>1, <1>2, EndsKeeps
<1>3. CASE socket \in listening
           /\ calls' = [calls EXCEPT ![c] = [@ EXCEPT !.pc = "connected", !.to = socket,
                                                      !.server = "queued"]]
  <2> DEFINE call == [calls[c] EXCEPT !.pc = "connected", !.to = socket, !.server = "queued"]
  <2>1. calls' = [calls EXCEPT ![c] = call] /\ socket \in AgentProcesses
    BY <1>3 DEF SocketInOrder, CallsInOrder
  <2>2. /\ call \in CallStates /\ call.server = "queued" /\ call.pc = "connected"
        /\ call.outcome = "none"
    BY <1>1, <2>1 DEF CallOK, CallStates
  <2> HIDE DEF call
  <2>3. CallOK(call, ran[c])
    BY <1>1, <2>2 DEF CallOK
  <2> QED
    BY <1>1, <2>1, <2>3, OneCallOnly
<1> QED
  BY <1>2, <1>3 DEF ConnectCall

LEMMA WriteKeeps ==
    ASSUME CallsInOrder, NEW c \in Calls, WriteRequest(c)
    PROVE  CallsInOrder'
<1>1. /\ CallOK(calls[c], ran[c]) /\ calls[c].pc = "connected" /\ UNCHANGED ran
      /\ calls[c].outcome = "none"
  BY DEF CallsInOrder, WriteRequest, CallOK
<1>2. CASE CallEnds(c, "unsent") \/ (calls[c].server = "reset" /\ CallEnds(c, "contact"))
  BY <1>1, <1>2, EndsKeeps
<1>3. CASE calls' = [calls EXCEPT ![c].pc = "written"]
  <2> DEFINE call == [calls[c] EXCEPT !.pc = "written"]
  <2>1. calls' = [calls EXCEPT ![c] = call]
    BY <1>3 DEF CallsInOrder
  <2>2. /\ call \in CallStates /\ call.server = calls[c].server /\ call.pc = "written"
        /\ call.outcome = "none"
    BY <1>1 DEF CallOK, CallStates
  <2> HIDE DEF call
  <2>3. CallOK(call, ran[c])
    BY <1>1, <2>2 DEF CallOK
  <2> QED
    BY <1>1, <2>1, <2>3, OneCallOnly
<1> QED
  BY <1>2, <1>3 DEF WriteRequest

LEMMA ReadAnswerKeeps ==
    ASSUME CallsInOrder, NEW c \in Calls, ReadAnswer(c)
    PROVE  CallsInOrder'
<1>1. calls[c].outcome = "none" /\ UNCHANGED ran
  BY DEF CallsInOrder, ReadAnswer, CallOK
<1> QED
  BY <1>1, EndsKeeps DEF ReadAnswer, LateOutcome

(* Only a client that never reached a handler follows the advice.           *)
LEMMA DirectKeeps ==
    ASSUME CallsInOrder, NEW c \in Calls, RunDirect(c)
    PROVE  CallsInOrder'
<1> DEFINE call == [calls[c] EXCEPT !.outcome = "direct"]
<1>1. /\ CallOK(calls[c], ran[c]) /\ calls[c].outcome = "contact"
      /\ calls' = [calls EXCEPT ![c] = call]
      /\ ran' = [ran EXCEPT ![c] = @ + 1]
  BY DEF CallsInOrder, RunDirect
<1>2. ran[c] = 0
  BY <1>1 DEF CallOK
<1>3. /\ call \in CallStates /\ call.server = calls[c].server /\ call.pc = calls[c].pc
      /\ call.outcome = "direct"
  BY <1>1 DEF CallOK, CallStates
<1> HIDE DEF call
<1>4. CallOK(call, 1)
  BY <1>1, <1>3 DEF CallOK
<1>5. ran' = [ran EXCEPT ![c] = 1]
  BY <1>1, <1>2
<1> QED
  BY <1>1, <1>4, <1>5, OneCall

LEMMA CallsStep ==
    ASSUME CallsInOrder, SocketInOrder, [IpcNext]_ipcVars
    PROVE  CallsInOrder'
<1>1. CASE UNCHANGED <<calls, ran>>
  BY <1>1 DEF CallsInOrder
<1>2. ASSUME NEW a \in AgentProcesses,
             \/ ProcessStarts(a) \/ FindsSocket(a) \/ ProbesSocket(a) \/ RemovesSocket(a)
             \/ BindsSocket(a) \/ ShutdownRequested(a) \/ AcceptProbe(a)
      PROVE  CallsInOrder'
  <2>1. UNCHANGED <<calls, ran>>
    BY <1>2 DEF ProcessStarts, FindsSocket, ProbesSocket, RemovesSocket, BindsSocket,
                ShutdownRequested, AcceptProbe
  <2> QED
    BY <1>1, <2>1
<1>3. ASSUME NEW c \in Calls,
             \/ ReadRequest(c) \/ HandleRequest(c) \/ WriteAnswer(c)
             \/ ConnectCall(c) \/ WriteRequest(c) \/ ReadAnswer(c) \/ RunDirect(c)
      PROVE  CallsInOrder'
  BY <1>3, ReadKeeps, HandleKeeps, WriteAnswerKeeps, ConnectKeeps, WriteKeeps, ReadAnswerKeeps,
     DirectKeeps
<1>4. CASE UNCHANGED ipcVars
  BY <1>1, <1>4 DEF ipcVars
<1> QED
  BY <1>2, <1>3, <1>4, ExitsKeeps, AcceptKeeps DEF IpcNext

LEMMA IpcInitInv == IpcInit => IpcInv
<1> SUFFICES ASSUME IpcInit PROVE IpcInv
  OBVIOUS
<1>1. SocketInOrder
  BY DEF IpcInit, SocketInOrder, ProcessSteps, Starting
<1>2. CallOK(NoCall, 0)
  BY DEF CallOK, CallStates, NoCall
<1>3. CallsInOrder
  BY <1>2 DEF IpcInit, CallsInOrder, CallOK
<1> QED
  BY <1>1, <1>3 DEF IpcInv

(* Agents that did not start at the same moment never hide each other, and  *)
(* no call runs twice, however processes stop and clients give up.          *)
THEOREM OneAgentAnswersAlways == IpcSpec => []OneAgentAnswers
<1>1. IpcInv /\ [IpcNext]_ipcVars => IpcInv'
  BY SocketStep, CallsStep DEF IpcInv
<1>2. IpcInv => OneAgentAnswers
  <2>1. SocketInOrder => overlapped \/ \A a \in AgentProcesses : processes[a] = "serving" => socket = a
    BY DEF SocketInOrder
  <2>2. CallsInOrder => \A c \in Calls : ran[c] <= 1 /\ (calls[c].outcome = "answered" => ran[c] = 1)
    BY DEF CallsInOrder, CallOK
  <2> QED
    BY <2>1, <2>2, Zenon DEF IpcInv, OneAgentAnswers
<1> QED
  BY <1>1, <1>2, IpcInitInv, PTL DEF IpcSpec

(***************************************************************************)
(* Command trust                                                           *)
(***************************************************************************)
USE TrustAssumption

----------------------------------------------------------------------------
(* The inductive invariant                                                  *)

DecisionRow == [hash: Hashes, kind: DecisionKinds, consumed: BOOLEAN]

IdleCall == [at: {"idle"}]
OpenCall == [at: {"consuming", "again"}, hash: Hashes, by: Nat, from: Nat]
AnsweredCall == [at: {"answered"}, hash: Hashes, from: Nat, took: BOOLEAN,
                 status: Approved \cup {"rejected", "changed", "unapproved"}, by: Nat]

TrustType ==
    /\ decisions \in Seq(DecisionRow)
    /\ trustCall \in [TrustCallers -> IdleCall \cup OpenCall \cup AnsweredCall]

RowsOf(hs) == {i \in DOMAIN decisions : decisions[i].hash \in hs}

\* A table that has rows of some hashes has a newest one of them, which is what
\* ORDER BY ... LIMIT 1 returns.
NewestExists ==
    \A hs \in SUBSET Hashes :
        RowsOf(hs) = {} \/ \E i \in RowsOf(hs) : \A j \in RowsOf(hs) : j <= i

\* Row by is about hash h, no later row up to row last is.
DecidedBy(by, h, last) ==
    /\ by \in DOMAIN decisions
    /\ decisions[by].hash = h
    /\ \A i \in (by + 1)..last : decisions[i].hash # h

\* What a call between its statements, and one that has ended, may rely on.
CallSound(c) ==
    LET call == trustCall[c]
    IN  /\ call.at # "idle" => call.from <= Len(decisions)
        /\ call.at = "consuming" =>
              /\ DecidedBy(call.by, call.hash, call.from)
              /\ decisions[call.by].kind = "allow-once"
        /\ call.at = "answered" /\ call.status \in Approved =>
              /\ DecidedBy(call.by, call.hash, call.from)
              /\ decisions[call.by].kind # "reject"
        /\ call.at = "answered" /\ call.took =>
              call.by \in DOMAIN decisions /\ decisions[call.by].consumed

CallsSound == \A c \in TrustCallers : CallSound(c)

TookApart ==
    \A c, d \in TrustCallers :
        /\ trustCall[c].at = "answered" /\ trustCall[c].took
        /\ trustCall[d].at = "answered" /\ trustCall[d].took
        /\ c # d
        => trustCall[c].by # trustCall[d].by

TrustInv == TrustType /\ NewestExists /\ CallsSound /\ TookApart

----------------------------------------------------------------------------
(* Reading the table                                                        *)

\* A question about rows finds the newest one, if there is one.
LEMMA LatestFacts ==
  ASSUME TrustType, NewestExists, NEW hs \in SUBSET Hashes
  PROVE  LET l == LatestDecision(hs)
         IN  \/ l = 0 /\ RowsOf(hs) = {}
             \/ l \in RowsOf(hs) /\ \A j \in RowsOf(hs) : j <= l
<1>1. CASE RowsOf(hs) = {}
  BY <1>1 DEF LatestDecision, RowsOf
<1>2. CASE RowsOf(hs) # {}
  <2>1. PICK i \in RowsOf(hs) : \A j \in RowsOf(hs) : j <= i
    BY <1>2 DEF NewestExists
  <2>2. LatestDecision(hs) = CHOOSE k \in RowsOf(hs) : \A j \in RowsOf(hs) : j <= k
    BY <1>2 DEF LatestDecision, RowsOf
  <2>3. QED
    BY <2>1, <2>2
<1>3. QED
  BY <1>1, <1>2

\* An approval names the newest row of the hash, and a row that approves.
LEMMA EvaluateFacts ==
  ASSUME TrustType, NewestExists, NEW h \in Hashes
  PROVE  LET e == EvaluateCommandTrust(h)
         IN  /\ e.status \in Approved \cup {"rejected", "changed", "unapproved"}
             /\ e.by \in Nat
             /\ e.status \in Approved =>
                   DecidedBy(e.by, h, Len(decisions)) /\ decisions[e.by].kind # "reject"
             /\ e.status = "approved_once" =>
                   decisions[e.by].kind = "allow-once"
<1> DEFINE own == LatestDecision({h})
           any == LatestDecision(Hashes)
           e == EvaluateCommandTrust(h)
<1>1. own \in Nat /\ any \in Nat
  BY LatestFacts DEF TrustType, RowsOf
<1>2. own # 0 => DecidedBy(own, h, Len(decisions))
  <2> SUFFICES ASSUME own # 0 PROVE DecidedBy(own, h, Len(decisions))
    OBVIOUS
  <2>1. own \in RowsOf({h}) /\ \A j \in RowsOf({h}) : j <= own
    BY LatestFacts
  <2>2. \A i \in (own + 1)..Len(decisions) : i \in DOMAIN decisions /\ ~(i <= own)
    BY <1>1 DEF TrustType
  <2>3. \A i \in (own + 1)..Len(decisions) : decisions[i].hash # h
    BY <2>1, <2>2 DEF RowsOf
  <2>4. QED
    BY <2>1, <2>3 DEF DecidedBy, RowsOf
<1> HIDE DEF own, any
<1>3. \/ /\ e = [status |-> "approved_once", by |-> own]
         /\ own # 0 /\ decisions[own].kind = "allow-once"
      \/ /\ e = [status |-> "trusted", by |-> own]
         /\ own # 0 /\ decisions[own].kind = "trust-this-version"
      \/ e = [status |-> "rejected", by |-> own]
      \/ e = [status |-> "changed", by |-> any]
      \/ e = [status |-> "unapproved", by |-> 0]
  BY DEF EvaluateCommandTrust, own, any
<1> HIDE DEF e
<1>4. QED
  BY <1>1, <1>2, <1>3 DEF Approved, e

----------------------------------------------------------------------------
(* The steps                                                                *)

\* A new row is the newest of its hash and changes no older row.
LEMMA RecordKeeps ==
  ASSUME TrustInv, NEW h \in Hashes, NEW k \in DecisionKinds, RecordDecision(h, k)
  PROVE  TrustInv'
<1> DEFINE row == [hash |-> h, kind |-> k, consumed |-> FALSE]
<1> USE DEF TrustInv
<1>1. row \in DecisionRow
  BY DEF DecisionRow
<1>2. decisions' = Append(decisions, row) /\ UNCHANGED trustCall
  BY DEF RecordDecision
<1> HIDE DEF row
<1>3. /\ Len(decisions') = Len(decisions) + 1 /\ Len(decisions) \in Nat
      /\ DOMAIN decisions = 1..Len(decisions) /\ DOMAIN decisions' = 1..Len(decisions')
      /\ \A i \in DOMAIN decisions : decisions'[i] = decisions[i]
      /\ decisions'[Len(decisions) + 1] = row
  BY <1>1, <1>2 DEF TrustType
<1>4. TrustType'
  BY <1>1, <1>2 DEF TrustType
<1>5. NewestExists'
  <2> SUFFICES ASSUME NEW hs \in SUBSET Hashes
               PROVE  RowsOf(hs)' = {} \/ \E i \in RowsOf(hs)' : \A j \in RowsOf(hs)' : j <= i
    BY DEF NewestExists
  <2>1. CASE row.hash \in hs
    <3>1. Len(decisions) + 1 \in RowsOf(hs)'
      BY <1>3, <2>1 DEF RowsOf
    <3>2. \A j \in RowsOf(hs)' : j <= Len(decisions) + 1
      BY <1>3 DEF RowsOf
    <3>3. QED
      BY <3>1, <3>2
  <2>2. CASE row.hash \notin hs
    <3>1. RowsOf(hs)' = RowsOf(hs)
      BY <1>3, <2>2 DEF RowsOf
    <3>2. QED
      BY <3>1 DEF NewestExists
  <2>3. QED
    BY <2>1, <2>2
<1>6. CallsSound'
  <2> SUFFICES ASSUME NEW c \in TrustCallers PROVE CallSound(c)'
    BY DEF CallsSound
  <2>1. CallSound(c)
    BY DEF CallsSound
  <2>2. trustCall[c].at # "idle" => trustCall[c].from \in Nat /\ trustCall[c].by \in Nat
    BY DEF TrustType, IdleCall, OpenCall, AnsweredCall
  <2>3. ASSUME NEW by \in Nat, NEW hash, NEW last \in Nat, last <= Len(decisions),
               DecidedBy(by, hash, last)
        PROVE  DecidedBy(by, hash, last)'
    <3>1. by \in DOMAIN decisions' /\ decisions'[by].hash = hash
      BY <1>3, <2>3 DEF DecidedBy
    <3>2. \A i \in (by + 1)..last : i \in DOMAIN decisions
      BY <1>3, <2>3
    <3>3. \A i \in (by + 1)..last : decisions'[i].hash # hash
      BY <1>3, <2>3, <3>2 DEF DecidedBy
    <3>4. QED
      BY <3>1, <3>3 DEF DecidedBy
  <2>4. trustCall[c].at # "idle" => trustCall[c].from <= Len(decisions')
    BY <1>3, <2>1, <2>2 DEF CallSound
  <2>5. \A by : DecidedBy(by, trustCall[c].hash, trustCall[c].from) => decisions'[by] = decisions[by]
    BY <1>3 DEF DecidedBy
  <2>6. \A by \in DOMAIN decisions : by \in DOMAIN decisions' /\ decisions'[by] = decisions[by]
    BY <1>3
  <2>7. trustCall[c].at # "idle" /\ DecidedBy(trustCall[c].by, trustCall[c].hash, trustCall[c].from)
          => DecidedBy(trustCall[c].by, trustCall[c].hash, trustCall[c].from)'
    BY <1>2, <2>1, <2>2, <2>3 DEF CallSound
  <2>8. QED
    BY <1>2, <2>1, <2>4, <2>5, <2>6, <2>7 DEF CallSound
<1>7. TookApart'
  BY <1>2 DEF TookApart
<1>8. QED
  BY <1>4, <1>5, <1>6, <1>7

\* A call that changes alone stays sound if what it says now is sound.
LEMMA CallKeeps ==
  ASSUME TrustInv, NEW c \in TrustCallers,
         NEW next \in OpenCall \cup AnsweredCall,
         trustCall' = [trustCall EXCEPT ![c] = next], UNCHANGED decisions,
         ~(next.at = "answered" /\ next.took), CallSound(c)'
  PROVE  TrustInv'
<1> USE DEF TrustInv
<1>1. trustCall'[c] = next /\ \A d \in TrustCallers : d # c => trustCall'[d] = trustCall[d]
  BY DEF TrustType
<1>2. TrustType'
  BY DEF TrustType
<1>3. NewestExists'
  BY DEF NewestExists, RowsOf
<1>4. CallsSound'
  BY <1>1 DEF CallsSound, CallSound, DecidedBy
<1>5. TookApart'
  BY <1>1 DEF TookApart
<1>6. QED
  BY <1>2, <1>3, <1>4, <1>5

\* An answer taken from a fresh reading of the table is sound.
LEMMA FreshAnswer ==
  ASSUME TrustInv, NEW c \in TrustCallers, NEW h \in Hashes, NEW from \in Nat,
         from <= Len(decisions), UNCHANGED decisions,
         Answer(c, h, from, FALSE, EvaluateCommandTrust(h))
  PROVE  TrustInv'
<1> DEFINE e == EvaluateCommandTrust(h)
           next == [at |-> "answered", hash |-> h, from |-> from, took |-> FALSE,
                    status |-> e.status, by |-> e.by]
<1> USE DEF TrustInv
<1>1. trustCall' = [trustCall EXCEPT ![c] = next]
  BY DEF Answer
<1>2. /\ e.status \in Approved \cup {"rejected", "changed", "unapproved"}
      /\ e.by \in Nat
      /\ e.status \in Approved =>
            DecidedBy(e.by, h, Len(decisions)) /\ decisions[e.by].kind # "reject"
  BY EvaluateFacts
<1> HIDE DEF e
<1>3. next \in AnsweredCall /\ next.at = "answered" /\ ~next.took
  BY <1>2 DEF AnsweredCall
<1>4. trustCall'[c] = next
  BY <1>1 DEF TrustType
<1>5. \A by \in Nat : DecidedBy(by, h, Len(decisions)) => DecidedBy(by, h, from)
  BY DEF DecidedBy, TrustType
<1>6. CallSound(c)'
  BY <1>2, <1>4, <1>5 DEF CallSound, DecidedBy
<1>7. QED
  BY <1>1, <1>3, <1>6, CallKeeps

\* Starting a call reads the newest rows.
LEMMA StartKeeps ==
  ASSUME TrustInv, NEW c \in TrustCallers, NEW h \in Hashes, AuthorizeStarts(c, h)
  PROVE  TrustInv'
<1> DEFINE e == EvaluateCommandTrust(h)
<1>1. UNCHANGED decisions /\ Len(decisions) \in Nat /\ Len(decisions) <= Len(decisions)
  BY DEF AuthorizeStarts, TrustInv, TrustType
<1>2. CASE e.status = "approved_once"
  <2> DEFINE next == [at |-> "consuming", hash |-> h, by |-> e.by, from |-> Len(decisions)]
  <2>1. trustCall' = [trustCall EXCEPT ![c] = next]
    BY <1>2 DEF AuthorizeStarts
  <2>2. /\ e.by \in Nat
        /\ DecidedBy(e.by, h, Len(decisions)) /\ decisions[e.by].kind = "allow-once"
    BY <1>2, EvaluateFacts DEF TrustInv, Approved
  <2> HIDE DEF e
  <2>3. next \in OpenCall /\ next.at = "consuming"
    BY <1>1, <2>2 DEF OpenCall
  <2>4. trustCall'[c] = next
    BY <2>1 DEF TrustInv, TrustType
  <2>5. CallSound(c)'
    BY <1>1, <2>2, <2>4 DEF CallSound, DecidedBy
  <2>6. QED
    BY <1>1, <2>1, <2>3, <2>5, CallKeeps
<1>3. CASE e.status # "approved_once"
  BY <1>1, <1>3, FreshAnswer DEF AuthorizeStarts
<1>4. QED
  BY <1>2, <1>3

\* Consuming a row that is not consumed takes it from nobody.
LEMMA ConsumeKeeps ==
  ASSUME TrustInv, NEW c \in TrustCallers, AuthorizeConsumes(c)
  PROVE  TrustInv'
<1> DEFINE call == trustCall[c]
           by == call.by
<1> USE DEF TrustInv
<1>1. call \in OpenCall /\ call.at = "consuming"
  BY DEF AuthorizeConsumes, TrustType, IdleCall, AnsweredCall
<1>2. /\ call.from <= Len(decisions)
      /\ DecidedBy(by, call.hash, call.from)
      /\ decisions[by].kind = "allow-once"
  BY <1>1 DEF CallsSound, CallSound
<1>3. CASE decisions[by].consumed
  <2> DEFINE next == [call EXCEPT !.at = "again"]
  <2>1. trustCall' = [trustCall EXCEPT ![c] = next] /\ UNCHANGED decisions
    BY <1>3 DEF AuthorizeConsumes
  <2>2. next \in OpenCall /\ next.at = "again" /\ next.from = call.from
    BY <1>1 DEF OpenCall
  <2>3. trustCall'[c] = next
    BY <2>1 DEF TrustType
  <2> HIDE DEF next
  <2>4. CallSound(c)'
    BY <1>2, <2>1, <2>2, <2>3 DEF CallSound
  <2>5. QED
    BY <2>1, <2>2, <2>4, CallKeeps
<1>4. CASE ~decisions[by].consumed
  <2> DEFINE next == [at |-> "answered", hash |-> call.hash, from |-> call.from, took |-> TRUE,
                      status |-> "approved_once", by |-> by]
  <2>1. /\ decisions' = [decisions EXCEPT ![by].consumed = TRUE]
        /\ trustCall' = [trustCall EXCEPT ![c] = next]
    BY <1>4 DEF AuthorizeConsumes, Answer
  <2>2. /\ trustCall'[c] = next
        /\ \A d \in TrustCallers : d # c => trustCall'[d] = trustCall[d]
    BY <2>1 DEF TrustType
  <2>3. next \in AnsweredCall
    BY <1>1 DEF AnsweredCall, OpenCall, Approved
  <2>4. by \in DOMAIN decisions /\ decisions[by] \in DecisionRow
    BY <1>2 DEF DecidedBy, TrustType
  <2>5. /\ Len(decisions') = Len(decisions) /\ DOMAIN decisions' = DOMAIN decisions
        /\ decisions'[by] = [decisions[by] EXCEPT !.consumed = TRUE]
        /\ \A i \in DOMAIN decisions : i # by => decisions'[i] = decisions[i]
    BY <2>1, <2>4 DEF TrustType
  <2>6. /\ decisions'[by].consumed
        /\ decisions'[by].hash = decisions[by].hash /\ decisions'[by].kind = decisions[by].kind
        /\ decisions'[by] \in DecisionRow
    BY <2>4, <2>5 DEF DecisionRow
  <2>7. \A i \in DOMAIN decisions :
           /\ decisions'[i].hash = decisions[i].hash /\ decisions'[i].kind = decisions[i].kind
           /\ decisions[i].consumed => decisions'[i].consumed
    BY <2>5, <2>6
  <2>8. TrustType'
    <3>1. decisions' \in Seq(DecisionRow)
      BY <2>1, <2>4, <2>5, <2>6 DEF TrustType
    <3>2. QED
      BY <2>1, <2>3, <3>1 DEF TrustType
  <2>9. NewestExists'
    <3>1. \A hs \in SUBSET Hashes : RowsOf(hs)' = RowsOf(hs)
      BY <2>5, <2>7 DEF RowsOf
    <3>2. QED
      BY <3>1 DEF NewestExists
  <2>10. ASSUME NEW b \in Nat, NEW hash, NEW last \in Nat, last <= Len(decisions),
                DecidedBy(b, hash, last)
         PROVE  DecidedBy(b, hash, last)'
    <3>1. \A i \in (b + 1)..last : i \in DOMAIN decisions
      BY <2>10 DEF TrustType
    <3>2. QED
      BY <2>5, <2>7, <2>10, <3>1 DEF DecidedBy
  <2>11. CallsSound'
    <3> SUFFICES ASSUME NEW d \in TrustCallers PROVE CallSound(d)'
      BY DEF CallsSound
    <3>1. CASE d = c
      <4>1. call.from \in Nat /\ by \in Nat
        BY <1>1 DEF OpenCall
      <4>2. \A i \in (by + 1)..call.from : i \in DOMAIN decisions
        BY <1>2, <4>1 DEF TrustType
      <4>3. /\ by \in DOMAIN decisions' /\ decisions'[by].hash = call.hash
            /\ \A i \in (by + 1)..call.from : decisions'[i].hash # call.hash
        BY <1>2, <2>5, <2>6, <2>7, <4>2 DEF DecidedBy
      <4>4. decisions'[by].kind # "reject" /\ decisions'[by].consumed
        BY <1>2, <2>6
      <4>5. /\ trustCall'[d].by = by /\ trustCall'[d].hash = call.hash
            /\ trustCall'[d].from = call.from /\ trustCall'[d].at = "answered"
        BY <2>2, <3>1
      <4>6. QED
        BY <1>2, <2>5, <4>3, <4>4, <4>5 DEF CallSound, DecidedBy
    <3>2. CASE d # c
      <4>1. CallSound(d) /\ trustCall'[d] = trustCall[d]
        BY <2>2, <3>2 DEF CallsSound
      <4>2. trustCall[d].at # "idle" => trustCall[d].from \in Nat /\ trustCall[d].by \in Nat
        BY DEF TrustType, IdleCall, OpenCall, AnsweredCall
      <4>3. trustCall[d].at # "idle" /\ DecidedBy(trustCall[d].by, trustCall[d].hash, trustCall[d].from)
              => /\ DecidedBy(trustCall[d].by, trustCall[d].hash, trustCall[d].from)'
                 /\ decisions'[trustCall[d].by].kind = decisions[trustCall[d].by].kind
        BY <2>7, <2>10, <4>1, <4>2 DEF CallSound, DecidedBy
      <4>4. QED
        BY <2>5, <2>7, <4>1, <4>3 DEF CallSound
    <3>3. QED
      BY <3>1, <3>2
  <2>12. TookApart'
    <3>1. \A d \in TrustCallers : d # c /\ trustCall[d].at = "answered" /\ trustCall[d].took
                                    => trustCall[d].by # by
      BY <1>4 DEF CallsSound, CallSound
    <3>2. QED
      BY <2>2, <3>1 DEF TookApart
  <2>13. QED
    BY <2>8, <2>9, <2>11, <2>12
<1>5. QED
  BY <1>3, <1>4

\* The second evaluation reads rows at least as new as those the call began with.
LEMMA AgainKeeps ==
  ASSUME TrustInv, NEW c \in TrustCallers, AuthorizeEvaluatesAgain(c)
  PROVE  TrustInv'
<1>1. trustCall[c] \in OpenCall /\ trustCall[c].from <= Len(decisions)
  BY DEF AuthorizeEvaluatesAgain, TrustInv, TrustType, IdleCall, AnsweredCall, CallsSound, CallSound
<1>2. trustCall[c].hash \in Hashes /\ trustCall[c].from \in Nat
  BY <1>1 DEF OpenCall
<1>3. QED
  BY <1>1, <1>2, FreshAnswer DEF AuthorizeEvaluatesAgain

----------------------------------------------------------------------------
\* However many calls and decisions interleave, no two calls consume the same
\* allow-once row, and no approval passes over a decision that was there when
\* the call began: the UPDATE's IS NULL and the second evaluation of
\* authorize_command_trust_at are enough.
THEOREM ApprovalsAreSpentAndCurrentAlways == TrustSpec => []ApprovalsAreSpentAndCurrent
<1>1. TrustInit => TrustInv
  <2> SUFFICES ASSUME TrustInit PROVE TrustInv
    OBVIOUS
  <2>1. \A c \in TrustCallers : trustCall[c] = [at |-> "idle"]
    BY DEF TrustInit
  <2>2. TrustType
    BY DEF TrustInit, TrustType, IdleCall
  <2>3. NewestExists
    BY DEF TrustInit, NewestExists, RowsOf
  <2>4. CallsSound /\ TookApart
    BY <2>1 DEF CallsSound, CallSound, TookApart
  <2>5. QED
    BY <2>2, <2>3, <2>4 DEF TrustInv
<1>2. TrustInv /\ [TrustNext]_trustVars => TrustInv'
  <2> SUFFICES ASSUME TrustInv, [TrustNext]_trustVars PROVE TrustInv'
    OBVIOUS
  <2>1. ASSUME NEW h \in Hashes, NEW k \in DecisionKinds, RecordDecision(h, k) PROVE TrustInv'
    BY <2>1, RecordKeeps
  <2>2. ASSUME NEW c \in TrustCallers, NEW h \in Hashes, AuthorizeStarts(c, h) PROVE TrustInv'
    BY <2>2, StartKeeps
  <2>3. ASSUME NEW c \in TrustCallers, AuthorizeConsumes(c) PROVE TrustInv'
    BY <2>3, ConsumeKeeps
  <2>4. ASSUME NEW c \in TrustCallers, AuthorizeEvaluatesAgain(c) PROVE TrustInv'
    BY <2>4, AgainKeeps
  <2>5. CASE UNCHANGED trustVars
    BY <2>5 DEF trustVars, TrustInv, TrustType, NewestExists, RowsOf, CallsSound, CallSound,
                DecidedBy, TookApart
  <2>6. QED
    BY <2>1, <2>2, <2>3, <2>4, <2>5 DEF TrustNext
<1>3. TrustInv => ApprovalsAreSpentAndCurrent
  <2> SUFFICES ASSUME TrustInv PROVE ApprovalsAreSpentAndCurrent
    OBVIOUS
  <2>1. \A c \in TrustCallers : CallSound(c)
    BY DEF TrustInv, CallsSound
  <2>2. TookApart
    BY DEF TrustInv
  <2>3. QED
    BY <2>1, <2>2 DEF ApprovalsAreSpentAndCurrent, TookApart, CallSound, DecidedBy
<1>4. QED
  BY <1>1, <1>2, <1>3, PTL DEF TrustSpec

(***************************************************************************)
(* The registry of projects                                                *)
(***************************************************************************)
RegistrySpec == RegistryInit /\ [][RegistryNext]_registryVars

DefaultPath == CHOOSE w \in Workspaces : TRUE
Configs == [state : [Workspaces -> WorkspaceStates \cup {Unregistered}],
            projects : SUBSET Projects,
            path : [Projects -> Workspaces \cup {DefaultPath}],
            profile : {"balanced", "low-impact", "torn"}]
AgentSteps == [at : {"down", "ready"}] \cup [at : {"select", "insert"}, workspace : Workspaces]
RunSteps == [at : {"idle", "done"}] \cup [at : {"loaded"}, config : Configs]
            \cup [at : {"select", "insert", "done"}, workspace : Workspaces]
SessionRows == [project : Projects, parent : Nat, state : {"active", "fork", "archived"}]

RegistryType ==
    /\ regFile \in Configs /\ regAgent \in Configs
    /\ agentStep \in AgentSteps
    /\ regRun \in [RegistryRuns -> RunSteps]
    /\ sessions \in Seq(SessionRows)
    /\ registeredOk \subseteq Workspaces
    /\ interfered \in BOOLEAN /\ cutOff \in BOOLEAN

(* What was answered, or is about to be, with the lock held.                *)
Adding == IF agentStep.at \in {"select", "insert"} THEN {agentStep.workspace} ELSE {}
Promised == registeredOk \cup Adding

(* The agent's copy is never behind what it promised, so that each of its   *)
(* saves writes it again; nor is the file, unless its last save was cut off.*)
SavedFirst ==
    ~interfered =>
        /\ ~cutOff => Promised \subseteq RegisteredIn(regFile)
        /\ agentStep.at # "down" => Promised \subseteq RegisteredIn(regAgent)

Rooted == \A w \in registeredOk : RootSessions(ProjectOf[w]) # {}

RegistryInv == RegistryType /\ SavedFirst /\ Rooted
----------------------------------------------------------------------------
(* What the operations do to a configuration.                               *)

LEMMA StateOps ==
    ASSUME NEW c \in Configs,
           NEW state \in [Workspaces -> WorkspaceStates \cup {Unregistered}]
    PROVE  /\ [c EXCEPT !.state = state] \in Configs
           /\ [c EXCEPT !.state = state].state = state
BY DEF Configs

LEMMA BackfillOps ==
    ASSUME NEW c \in Configs
    PROVE  /\ BackfillLegacyWorkspaces(c) \in Configs
           /\ RegisteredIn(c) \subseteq RegisteredIn(BackfillLegacyWorkspaces(c))
<1> DEFINE bare == {p \in c.projects : WorkspacesOf(p) \intersect RegisteredIn(c) = {}}
           state == [w \in Workspaces |->
                        IF \E p \in bare : c.path[p] = w THEN "active" ELSE c.state[w]]
<1>1. BackfillLegacyWorkspaces(c) = [c EXCEPT !.state = state]
  BY DEF BackfillLegacyWorkspaces
<1> HIDE DEF bare
<1>2. state \in [Workspaces -> WorkspaceStates \cup {Unregistered}]
  BY DEF Configs, WorkspaceStates
<1>3. \A w \in Workspaces : c.state[w] # Unregistered => state[w] # Unregistered
  BY DEF Unregistered
<1> HIDE DEF state
<1> QED
  BY <1>1, <1>2, <1>3, StateOps DEF RegisteredIn

LEMMA MergeOps ==
    ASSUME NEW c \in Configs, NEW w \in Workspaces
    PROVE  /\ MergeProjectRegistryEntry(c, w) \in Configs
           /\ RegisteredIn(MergeProjectRegistryEntry(c, w)) = RegisteredIn(c) \cup {w}
<1> DEFINE p == ProjectOf[w]
           state == [c.state EXCEPT ![w] = "active"]
           path == [c.path EXCEPT ![p] = IF p \in c.projects THEN @ ELSE w]
           m == MergeProjectRegistryEntry(c, w)
<1>1. p \in Projects
  BY RegistryAssumption
<1>2. m = [c EXCEPT !.projects = @ \union {p}, !.state = state, !.path = path]
  BY DEF MergeProjectRegistryEntry
<1>3. /\ state \in [Workspaces -> WorkspaceStates \cup {Unregistered}]
      /\ path \in [Projects -> Workspaces \cup {DefaultPath}]
  BY <1>1 DEF Configs, WorkspaceStates
<1>4. {v \in Workspaces : state[v] # Unregistered} = RegisteredIn(c) \cup {w}
  BY DEF Configs, RegisteredIn, Unregistered
<1> HIDE DEF m, p, state, path
<1>5. m \in Configs /\ m.state = state
  BY <1>1, <1>2, <1>3 DEF Configs
<1> QED
  BY <1>4, <1>5 DEF RegisteredIn, m

LEMMA RemoveOps ==
    ASSUME NEW c \in Configs, NEW p \in Projects
    PROVE  /\ RemoveProject(c, p) \in Configs
           /\ RegisteredIn(RemoveProject(c, p)) = RegisteredIn(c) \ WorkspacesOf(p)
<1> DEFINE state == [w \in Workspaces |-> IF ProjectOf[w] = p THEN Unregistered ELSE c.state[w]]
           m == RemoveProject(c, p)
<1>1. m = [c EXCEPT !.projects = @ \ {p}, !.state = state]
  BY DEF RemoveProject
<1>2. state \in [Workspaces -> WorkspaceStates \cup {Unregistered}]
  BY DEF Configs
<1>3. {v \in Workspaces : state[v] # Unregistered} = RegisteredIn(c) \ WorkspacesOf(p)
  BY DEF RegisteredIn, WorkspacesOf
<1> HIDE DEF m, state
<1>4. m \in Configs /\ m.state = state
  BY <1>1, <1>2 DEF Configs
<1> QED
  BY <1>3, <1>4 DEF RegisteredIn, m

LEMMA SetStateOps ==
    ASSUME NEW c \in Configs, NEW w \in Workspaces, NEW s \in WorkspaceStates \cup {Unregistered}
    PROVE  /\ [c EXCEPT !.state[w] = s] \in Configs
           /\ s # Unregistered => RegisteredIn(c) \subseteq RegisteredIn([c EXCEPT !.state[w] = s])
<1> DEFINE state == [c.state EXCEPT ![w] = s]
<1>1. [c EXCEPT !.state[w] = s] = [c EXCEPT !.state = state]
  OBVIOUS
<1>2. state \in [Workspaces -> WorkspaceStates \cup {Unregistered}]
  BY DEF Configs
<1>3. s # Unregistered => \A v \in RegisteredIn(c) : state[v] # Unregistered
  BY DEF Configs, RegisteredIn
<1> HIDE DEF state
<1> QED
  BY <1>1, <1>2, <1>3, StateOps DEF RegisteredIn

LEMMA ProfileOps ==
    ASSUME NEW c \in Configs, NEW profile \in {"balanced", "low-impact", "torn"}
    PROVE  /\ [c EXCEPT !.profile = profile] \in Configs
           /\ RegisteredIn([c EXCEPT !.profile = profile]) = RegisteredIn(c)
BY DEF Configs, RegisteredIn

LEMMA EmptyOps == EmptyConfig \in Configs /\ Torn \in Configs
BY DEF EmptyConfig, Torn, Configs, DefaultPath

LEMMA BeginningOps ==
    ASSUME NEW c \in Configs, NEW b \in Beginnings(c)
    PROVE  Beginning(c, b) \in Configs
<1> DEFINE state == [w \in Workspaces |-> IF w \in b.rows THEN c.state[w] ELSE Unregistered]
<1>1. Beginning(c, b) = [c EXCEPT !.projects = b.kept, !.state = state]
  BY DEF Beginning
<1>2. state \in [Workspaces -> WorkspaceStates \cup {Unregistered}]
  BY DEF Configs
<1>3. b.kept \in SUBSET Projects
  BY DEF Beginnings, Configs
<1> HIDE DEF state
<1> QED
  BY <1>1, <1>2, <1>3 DEF Configs

(* What a save does to the file: it ends, does nothing, or is cut off.      *)
LEMMA SaveFileOps ==
    ASSUME regFile \in Configs, cutOff \in BOOLEAN, NEW c \in Configs,
           NEW saved \in BOOLEAN, SaveFile(c, saved)
    PROVE  /\ regFile' \in Configs /\ cutOff' \in BOOLEAN
           /\ saved => regFile' = c
           /\ ~saved /\ ~cutOff' => UNCHANGED <<regFile, cutOff>>
<1>1. \A b \in Beginnings(c) : Beginning(c, b) \in Configs
  BY BeginningOps
<1>2. CutOff(c) \subseteq Configs
  <2> HIDE DEF Configs
  <2> QED
    BY <1>1, EmptyOps DEF CutOff
<1> HIDE DEF Configs
<1> QED
  BY <1>2 DEF SaveFile, fileVars
----------------------------------------------------------------------------
(* Sessions.                                                                *)

RootsStay == \A p \in Projects : RootSessions(p) # {} => RootSessions(p)' # {}

LEMMA InsertGrows ==
    ASSUME sessions \in Seq(SessionRows), NEW p \in Projects, NEW parent \in Nat,
           NEW state \in {"active", "fork"}, InsertSession(p, parent, state)
    PROVE  /\ sessions' \in Seq(SessionRows) /\ RootsStay
           /\ parent = 0 => RootSessions(p)' # {}
<1> DEFINE row == [project |-> p, parent |-> parent, state |-> state]
<1>1. sessions' = Append(sessions, row)
  BY DEF InsertSession
<1>2. row \in SessionRows /\ row.project = p /\ row.parent = parent
  BY DEF SessionRows
<1> HIDE DEF row
<1>3. /\ sessions' \in Seq(SessionRows)
      /\ \A i \in DOMAIN sessions : i \in DOMAIN sessions' /\ sessions'[i] = sessions[i]
      /\ Len(sessions) + 1 \in DOMAIN sessions' /\ sessions'[Len(sessions) + 1] = row
  <2> HIDE DEF SessionRows
  <2> QED
    BY <1>1, <1>2
<1>4. \A q \in Projects : \A i \in RootSessions(q) : i \in RootSessions(q)'
  BY <1>3 DEF RootSessions
<1>5. parent = 0 => Len(sessions) + 1 \in RootSessions(p)'
  BY <1>2, <1>3 DEF RootSessions
<1> QED
  BY <1>3, <1>4, <1>5 DEF RootsStay

LEMMA ArchiveGrows ==
    ASSUME sessions \in Seq(SessionRows), NEW i \in DOMAIN sessions,
           sessions' = [sessions EXCEPT ![i].state = "archived"]
    PROVE  sessions' \in Seq(SessionRows) /\ RootsStay
<1> DEFINE row == [sessions[i] EXCEPT !.state = "archived"]
<1>1. sessions[i] \in SessionRows /\ sessions' = [sessions EXCEPT ![i] = row]
  <2> HIDE DEF SessionRows
  <2> QED
    OBVIOUS
<1>2. row \in SessionRows /\ row.project = sessions[i].project /\ row.parent = sessions[i].parent
  BY <1>1 DEF SessionRows
<1> HIDE DEF row
<1>3. sessions' \in Seq(SessionRows) /\ DOMAIN sessions' = DOMAIN sessions
  <2> HIDE DEF SessionRows
  <2> QED
    BY <1>1, <1>2
<1>4. \A j \in DOMAIN sessions : sessions'[j].project = sessions[j].project
                                 /\ sessions'[j].parent = sessions[j].parent
  BY <1>1, <1>2
<1>5. \A q \in Projects : \A j \in RootSessions(q) : j \in RootSessions(q)'
  BY <1>3, <1>4 DEF RootSessions
<1> QED
  BY <1>3, <1>5 DEF RootsStay

(* A project keeps its root session, and what is answered anew has one.     *)
LEMMA StaysRooted ==
    ASSUME RegistryInv, RootsStay,
           \A w \in registeredOk' : w \in registeredOk \/ RootSessions(ProjectOf[w])' # {}
    PROVE  Rooted'
<1>1. \A w \in registeredOk : ProjectOf[w] \in Projects /\ RootSessions(ProjectOf[w]) # {}
  BY RegistryAssumption DEF RegistryInv, RegistryType, Rooted
<1> QED
  BY <1>1 DEF Rooted, RootsStay

LEMMA SameSessions == UNCHANGED sessions => RootsStay
BY DEF RootsStay, RootSessions
----------------------------------------------------------------------------
(* The agent.                                                               *)

LEMMA StepShapes ==
    /\ [at |-> "ready"] \in AgentSteps /\ [at |-> "down"] \in AgentSteps
    /\ \A w \in Workspaces : [at |-> "select", workspace |-> w] \in AgentSteps
    /\ \A step \in AgentSteps : step.at \in {"select", "insert"} =>
           step.workspace \in Workspaces /\ [step EXCEPT !.at = "insert"] \in AgentSteps
BY DEF AgentSteps

(* A save of a copy that still has everything promised.                     *)
LEMMA SavesKeeps ==
    ASSUME RegistryInv, AgentReady, NEW config \in Configs, NEW saved \in BOOLEAN,
           AgentSaves(config, saved), UNCHANGED <<regRun, sessions, interfered>>,
           agentStep' \in AgentSteps,
           registeredOk' \subseteq registeredOk,
           registeredOk \subseteq RegisteredIn(regAgent) => Promised' \subseteq RegisteredIn(config),
           ~saved => Promised' \subseteq Promised
    PROVE  RegistryInv'
<1>1. /\ regAgent' = config
      /\ regFile' \in Configs /\ cutOff' \in BOOLEAN
      /\ saved => regFile' = config
      /\ ~saved /\ ~cutOff' => UNCHANGED <<regFile, cutOff>>
  BY SaveFileOps DEF AgentSaves, RegistryInv, RegistryType
<1>2. RegistryType'
  BY <1>1 DEF RegistryInv, RegistryType
<1>3. SavedFirst'
  <2> SUFFICES ASSUME ~interfered
               PROVE  /\ ~cutOff' => Promised' \subseteq RegisteredIn(regFile')
                      /\ Promised' \subseteq RegisteredIn(regAgent')
    BY DEF SavedFirst, RegisteredIn
  <2>1. /\ ~cutOff => Promised \subseteq RegisteredIn(regFile)
        /\ registeredOk \subseteq RegisteredIn(regAgent)
    BY DEF RegistryInv, SavedFirst, AgentReady, Promised
  <2>2. Promised' \subseteq RegisteredIn(config)
    BY <2>1
  <2>3. CASE saved
    BY <1>1, <2>2, <2>3
  <2>4. CASE ~saved
    BY <1>1, <2>1, <2>2, <2>4
  <2> QED
    BY <2>3, <2>4
<1>4. Rooted'
  BY SameSessions, StaysRooted
<1> QED
  BY <1>2, <1>3, <1>4 DEF RegistryInv

LEMMA AddKeeps ==
    ASSUME RegistryInv, NEW w \in Workspaces, NEW saved \in BOOLEAN, HandleProjectsAdd(w, saved)
    PROVE  RegistryInv'
<1> DEFINE config == MergeProjectRegistryEntry(regAgent, w)
<1>1. config \in Configs /\ RegisteredIn(config) = RegisteredIn(regAgent) \cup {w}
  BY MergeOps DEF RegistryInv, RegistryType
<1> HIDE DEF config
<1>2. /\ AgentReady /\ AgentSaves(config, saved) /\ UNCHANGED <<regRun, sessions, interfered, registeredOk>>
      /\ agentStep' = IF saved THEN [at |-> "select", workspace |-> w] ELSE agentStep
  BY DEF HandleProjectsAdd, UnchangedRuns, config
<1>3. /\ agentStep' \in AgentSteps
      /\ Promised' = registeredOk \cup (IF saved THEN {w} ELSE {})
      /\ Promised = registeredOk
  BY <1>2, StepShapes DEF RegistryInv, RegistryType, Promised, Adding, AgentReady
<1> QED
  BY <1>1, <1>2, <1>3, SavesKeeps

LEMMA OtherSavesKeep ==
    ASSUME RegistryInv, NEW saved \in BOOLEAN,
           \/ \E p \in Projects : HandleProjectsRemove(p, saved)
           \/ \E profile \in {"balanced", "low-impact"} : HandleSettingsUpdate(profile, saved)
           \/ \E w \in Workspaces : RegisterRecoveryWorkspace(w, saved)
    PROVE  RegistryInv'
<1>1. regAgent \in Configs /\ agentStep \in AgentSteps
  BY DEF RegistryInv, RegistryType
<1>2. AgentReady => Promised = registeredOk /\ (UNCHANGED agentStep => Promised' = registeredOk')
  BY DEF AgentReady, Promised, Adding
<1>3. ASSUME NEW p \in Projects, HandleProjectsRemove(p, saved)
      PROVE  RegistryInv'
  <2> DEFINE config == RemoveProject(regAgent, p)
  <2>1. config \in Configs /\ RegisteredIn(config) = RegisteredIn(regAgent) \ WorkspacesOf(p)
    BY <1>1, RemoveOps
  <2> HIDE DEF config
  <2>2. /\ AgentReady /\ AgentSaves(config, saved)
        /\ UNCHANGED <<regRun, sessions, interfered, agentStep>>
        /\ registeredOk' = registeredOk \ WorkspacesOf(p)
    BY <1>3 DEF HandleProjectsRemove, UnchangedRuns, config
  <2> QED
    BY <1>1, <1>2, <2>1, <2>2, SavesKeeps
<1>4. ASSUME NEW profile \in {"balanced", "low-impact"}, HandleSettingsUpdate(profile, saved)
      PROVE  RegistryInv'
  <2> DEFINE config == [regAgent EXCEPT !.profile = profile]
  <2>1. config \in Configs /\ RegisteredIn(config) = RegisteredIn(regAgent)
    BY <1>1, ProfileOps
  <2> HIDE DEF config
  <2>2. /\ AgentReady /\ AgentSaves(config, saved)
        /\ UNCHANGED <<regRun, sessions, interfered, agentStep, registeredOk>>
    BY <1>4 DEF HandleSettingsUpdate, UnchangedRuns, config
  <2> QED
    BY <1>1, <1>2, <2>1, <2>2, SavesKeeps
<1>5. ASSUME NEW w \in Workspaces, RegisterRecoveryWorkspace(w, saved)
      PROVE  RegistryInv'
  <2> DEFINE config == [regAgent EXCEPT !.state[w] = "active"]
  <2>1. config \in Configs /\ RegisteredIn(regAgent) \subseteq RegisteredIn(config)
    BY <1>1, SetStateOps DEF WorkspaceStates, Unregistered
  <2> HIDE DEF config
  <2>2. /\ AgentReady /\ AgentSaves(config, saved)
        /\ UNCHANGED <<regRun, sessions, interfered, agentStep, registeredOk>>
    BY <1>5 DEF RegisterRecoveryWorkspace, UnchangedRuns, config
  <2> QED
    BY <1>1, <1>2, <2>1, <2>2, SavesKeeps
<1> QED
  BY <1>3, <1>4, <1>5

LEMMA AgentStartsKeeps ==
    ASSUME RegistryInv, NEW saved \in BOOLEAN, AgentStarts(saved)
    PROVE  RegistryInv'
<1> DEFINE config == BackfillLegacyWorkspaces(regFile)
<1>1. config \in Configs /\ RegisteredIn(regFile) \subseteq RegisteredIn(config)
  BY BackfillOps DEF RegistryInv, RegistryType
<1> HIDE DEF config
<1>2. /\ agentStep.at = "down" /\ SaveFile(config, saved)
      /\ IF saved THEN regAgent' = config /\ agentStep' = [at |-> "ready"]
                  ELSE UNCHANGED <<regAgent, agentStep>>
      /\ interfered' = (interfered \/ cutOff)
      /\ UNCHANGED <<regRun, sessions, registeredOk>>
  BY DEF AgentStarts, config
<1>3. /\ regFile' \in Configs /\ cutOff' \in BOOLEAN
      /\ saved => regFile' = config
      /\ ~saved /\ ~cutOff' => UNCHANGED <<regFile, cutOff>>
  BY <1>1, <1>2, SaveFileOps DEF RegistryInv, RegistryType
<1>4. RegistryType'
  BY <1>1, <1>2, <1>3, StepShapes DEF RegistryInv, RegistryType
<1>5. Promised' = registeredOk /\ Promised = registeredOk
  BY <1>2 DEF Promised, Adding
<1>6. SavedFirst'
  <2> SUFFICES ASSUME ~interfered, ~cutOff
               PROVE  /\ ~cutOff' => registeredOk \subseteq RegisteredIn(regFile')
                      /\ agentStep'.at # "down" => registeredOk \subseteq RegisteredIn(regAgent')
    BY <1>2, <1>5 DEF SavedFirst, RegisteredIn
  <2>1. registeredOk \subseteq RegisteredIn(regFile)
    BY <1>5 DEF RegistryInv, SavedFirst
  <2>2. CASE saved
    BY <1>1, <1>2, <1>3, <2>1, <2>2
  <2>3. CASE ~saved
    BY <1>2, <1>3, <2>1, <2>3
  <2> QED
    BY <2>2, <2>3
<1> QED
  BY <1>2, <1>4, <1>6, SameSessions, StaysRooted DEF RegistryInv

LEMMA AgentEndsKeeps ==
    ASSUME RegistryInv, AgentEnds
    PROVE  RegistryInv'
<1>1. /\ regAgent' = EmptyConfig /\ agentStep' = [at |-> "down"]
      /\ UNCHANGED <<regFile, cutOff, regRun, sessions, registeredOk, interfered>>
  BY DEF AgentEnds, fileVars, historyVars
<1>2. RegistryType'
  BY <1>1, StepShapes, EmptyOps DEF RegistryInv, RegistryType
<1>3. Promised' = registeredOk /\ registeredOk \subseteq Promised
  BY <1>1 DEF Promised, Adding
<1>4. SavedFirst'
  BY <1>1, <1>3 DEF RegistryInv, SavedFirst, RegisteredIn
<1> QED
  BY <1>1, <1>2, <1>4, SameSessions, StaysRooted DEF RegistryInv

LEMMA DefaultSessionKeeps ==
    ASSUME RegistryInv, SelectDefaultSession \/ InsertDefaultSession \/ DefaultSessionFails
    PROVE  RegistryInv'
<1>1. agentStep.at \in {"select", "insert"} /\ UNCHANGED <<regFile, cutOff, regAgent, regRun, interfered>>
  BY DEF SelectDefaultSession, InsertDefaultSession, DefaultSessionFails, UnchangedRuns, fileVars
<1>2. PICK w \in Workspaces : w = agentStep.workspace
  BY <1>1, StepShapes DEF RegistryInv, RegistryType
<1>3. /\ ProjectOf[w] \in Projects /\ Promised = registeredOk \cup {w}
      /\ agentStep \in AgentSteps /\ sessions \in Seq(SessionRows)
  BY <1>1, <1>2, RegistryAssumption DEF RegistryInv, RegistryType, Promised, Adding
<1>4. \/ agentStep' = [agentStep EXCEPT !.at = "insert"] /\ UNCHANGED <<registeredOk, sessions>>
      \/ agentStep' = [at |-> "ready"] /\ UNCHANGED <<registeredOk, sessions>>
      \/ /\ agentStep' = [at |-> "ready"] /\ registeredOk' = registeredOk \cup {w}
         /\ \/ RootSessions(ProjectOf[w]) # {} /\ UNCHANGED sessions
            \/ InsertSession(ProjectOf[w], 0, "active")
  BY <1>2 DEF SelectDefaultSession, InsertDefaultSession, DefaultSessionFails, AnswerAdd, UnchangedRuns
<1>5. /\ sessions' \in Seq(SessionRows) /\ RootsStay
      /\ registeredOk' \subseteq registeredOk \cup {w}
      /\ w \in registeredOk' => w \in registeredOk \/ RootSessions(ProjectOf[w])' # {}
  <2>1. CASE UNCHANGED <<registeredOk, sessions>>
    BY <1>3, <2>1, SameSessions
  <2>2. CASE /\ registeredOk' = registeredOk \cup {w}
             /\ RootSessions(ProjectOf[w]) # {} /\ UNCHANGED sessions
    BY <1>3, <1>2, <2>2, SameSessions DEF RootsStay
  <2>3. CASE registeredOk' = registeredOk \cup {w} /\ InsertSession(ProjectOf[w], 0, "active")
    BY <1>3, <2>3, InsertGrows
  <2> QED
    BY <1>4, <2>1, <2>2, <2>3
<1>6. agentStep' \in AgentSteps /\ Promised' \subseteq Promised /\ agentStep.at # "down"
  <2>1. CASE agentStep' = [agentStep EXCEPT !.at = "insert"]
    <3>1. agentStep' \in AgentSteps /\ agentStep'.workspace = w /\ agentStep'.at = "insert"
      BY <1>1, <1>3, <1>2, <2>1, StepShapes DEF AgentSteps
    <3> QED
      BY <1>1, <1>3, <1>5, <3>1 DEF Promised, Adding
  <2>2. CASE agentStep' = [at |-> "ready"]
    BY <1>1, <1>3, <1>5, <2>2, StepShapes DEF Promised, Adding
  <2> QED
    BY <1>4, <2>1, <2>2
<1>7. RegistryType'
  BY <1>1, <1>3, <1>5, <1>6 DEF RegistryInv, RegistryType
<1>8. SavedFirst'
  BY <1>1, <1>6 DEF RegistryInv, SavedFirst, RegisteredIn
<1>9. Rooted'
  BY <1>5, StaysRooted
<1> QED
  BY <1>7, <1>8, <1>9 DEF RegistryInv
----------------------------------------------------------------------------
(* The command line.                                                        *)

LEMMA RunShapes ==
    /\ [at |-> "done"] \in RunSteps
    /\ \A c \in Configs : [at |-> "loaded", config |-> c] \in RunSteps
    /\ \A w \in Workspaces : [at |-> "select", workspace |-> w] \in RunSteps
    /\ \A run \in RunSteps : run.at = "loaded" => run.config \in Configs
    /\ \A run \in RunSteps : run.at \in {"select", "insert"} =>
           /\ run.workspace \in Workspaces
           /\ \A at \in {"insert", "done"} : [run EXCEPT !.at = at] \in RunSteps
<1>1. /\ [at |-> "done"] \in RunSteps
      /\ \A c \in Configs : [at |-> "loaded", config |-> c] \in RunSteps
      /\ \A w \in Workspaces : [at |-> "select", workspace |-> w] \in RunSteps
  <2> HIDE DEF Configs
  <2> QED
    BY DEF RunSteps
<1>2. \A run \in RunSteps : run.at = "loaded" => run.config \in Configs
  <2> HIDE DEF Configs
  <2> QED
    BY DEF RunSteps
<1>3. ASSUME NEW run \in RunSteps, run.at \in {"select", "insert"}
      PROVE  /\ run.workspace \in Workspaces
             /\ \A at \in {"insert", "done"} : [run EXCEPT !.at = at] \in RunSteps
  <2>1. run \in [at : {"select", "insert", "done"}, workspace : Workspaces]
    BY <1>3 DEF RunSteps
  <2> QED
    BY <2>1 DEF RunSteps
<1> QED
  BY <1>1, <1>2, <1>3

(* A run moves, and either saves its copy or leaves the file alone.         *)
LEMMA RunKeeps ==
    ASSUME RegistryInv, NEW r \in RegistryRuns, NEW run \in RunSteps,
           regRun' = [regRun EXCEPT ![r] = run],
           regFile' \in Configs, cutOff' \in BOOLEAN, sessions' \in Seq(SessionRows), RootsStay,
           UNCHANGED <<regFile, cutOff, interfered>> \/ interfered' = TRUE,
           registeredOk' \subseteq registeredOk,
           interfered' = TRUE \/ UNCHANGED registeredOk,
           UNCHANGED <<regAgent, agentStep>>
    PROVE  RegistryInv'
<1>1. RegistryType'
  BY DEF RegistryInv, RegistryType
<1>2. SavedFirst'
  <2>1. CASE interfered' = TRUE
    BY <2>1 DEF SavedFirst
  <2>2. CASE UNCHANGED <<regFile, cutOff, interfered, registeredOk>>
    BY <2>2 DEF RegistryInv, SavedFirst, Promised, Adding, RegisteredIn
  <2> QED
    BY <2>1, <2>2
<1>3. Rooted'
  BY StaysRooted
<1> QED
  BY <1>1, <1>2, <1>3 DEF RegistryInv

(* A run that saves a configuration and ends, or goes on to the session.    *)
LEMMA RunSavesKeeps ==
    ASSUME RegistryInv, NEW r \in RegistryRuns, NEW config \in Configs, NEW removed,
           NEW saved \in BOOLEAN, RunSaves(r, config, removed, saved),
           NEW run \in RunSteps, regRun' = [regRun EXCEPT ![r] = run]
    PROVE  RegistryInv'
<1>1. /\ SaveFile(config, saved) /\ interfered' = TRUE /\ registeredOk' = registeredOk \ removed
      /\ UNCHANGED <<regAgent, agentStep, sessions>>
  BY DEF RunSaves
<1>2. sessions' \in Seq(SessionRows) /\ regFile' \in Configs /\ cutOff' \in BOOLEAN
  BY <1>1, SaveFileOps DEF RegistryInv, RegistryType
<1> QED
  BY <1>1, <1>2, SameSessions, RunKeeps

LEMMA LoadedConfig ==
    ASSUME RegistryInv, NEW r \in RegistryRuns, regRun[r].at = "loaded"
    PROVE  regRun[r].config \in Configs
BY RunShapes DEF RegistryInv, RegistryType

LEMMA RefreshOps ==
    ASSUME NEW c \in Configs, NEW existing \in SUBSET Workspaces
    PROVE  RefreshWorkspaceStates(c, existing) \in Configs
<1> DEFINE state == [w \in Workspaces |->
                        CASE c.state[w] = Unregistered -> Unregistered
                          [] w \notin existing         -> "stale"
                          [] c.state[w] = "stale"      -> "active"
                          [] OTHER                     -> c.state[w]]
<1>1. state \in [Workspaces -> WorkspaceStates \cup {Unregistered}]
  BY DEF Configs, WorkspaceStates
<1>2. RefreshWorkspaceStates(c, existing) = [c EXCEPT !.state = state]
  BY DEF RefreshWorkspaceStates
<1> HIDE DEF state
<1> QED
  BY <1>1, <1>2, StateOps

LEMMA SavingRunsKeep ==
    ASSUME RegistryInv, NEW r \in RegistryRuns, NEW saved \in BOOLEAN,
           \/ OpenDeviceRegistry(r, saved)
           \/ \E existing \in SUBSET Workspaces :
                \/ ProjectsListDirect(r, existing, saved)
                \/ \E w \in Workspaces : ProjectAddDirect(r, w, existing, saved)
           \/ \E w \in Workspaces : RecoverOpenDirect(r, w, saved)
           \/ \E p \in Projects : ProjectRemoveDirect(r, p, saved)
    PROVE  RegistryInv'
<1> DEFINE c == regRun[r].config
           ended == [at |-> "done"]
<1>1. RunEnds(r) => regRun' = [regRun EXCEPT ![r] = ended]
  BY DEF RunEnds
<1>2. ended \in RunSteps
  BY RunShapes
<1>3. regRun[r].at = "loaded" => c \in Configs
  BY LoadedConfig
<1> HIDE DEF c, ended
<1>4. CASE OpenDeviceRegistry(r, saved)
  BY <1>1, <1>2, <1>3, <1>4, RunSavesKeeps DEF OpenDeviceRegistry, c
<1>5. ASSUME NEW existing \in SUBSET Workspaces, ProjectsListDirect(r, existing, saved)
      PROVE  RegistryInv'
  <2>1. /\ RunSaves(r, RefreshWorkspaceStates(c, existing), {}, saved) /\ RunEnds(r)
        /\ regRun[r].at = "loaded"
    BY <1>5 DEF ProjectsListDirect, c
  <2> QED
    BY <1>1, <1>2, <1>3, <2>1, RefreshOps, RunSavesKeeps
<1>6. ASSUME NEW existing \in SUBSET Workspaces, NEW w \in Workspaces,
             ProjectAddDirect(r, w, existing, saved)
      PROVE  RegistryInv'
  <2> DEFINE config == MergeProjectRegistryEntry(RefreshWorkspaceStates(c, existing), w)
             run == IF saved THEN [at |-> "select", workspace |-> w] ELSE [at |-> "done"]
  <2>1. RunSaves(r, config, {}, saved) /\ regRun[r].at = "loaded" /\ regRun' = [regRun EXCEPT ![r] = run]
    BY <1>6 DEF ProjectAddDirect, RunEnds, c
  <2>2. config \in Configs
    BY <1>3, <2>1, RefreshOps, MergeOps
  <2>3. run \in RunSteps
    BY RunShapes
  <2> HIDE DEF config, run
  <2> QED
    BY <2>1, <2>2, <2>3, RunSavesKeeps
<1>7. ASSUME NEW w \in Workspaces, RecoverOpenDirect(r, w, saved)
      PROVE  RegistryInv'
  <2> DEFINE config == [c EXCEPT !.state[w] = "active"]
  <2>1. RunSaves(r, config, {}, saved) /\ regRun[r].at = "loaded" /\ RunEnds(r)
    BY <1>7 DEF RecoverOpenDirect, c
  <2>2. config \in Configs
    BY <1>3, <2>1, SetStateOps DEF WorkspaceStates
  <2> QED
    BY <1>1, <1>2, <2>1, <2>2, RunSavesKeeps
<1>8. ASSUME NEW p \in Projects, ProjectRemoveDirect(r, p, saved)
      PROVE  RegistryInv'
  <2>1. /\ RunSaves(r, RemoveProject(c, p), WorkspacesOf(p), saved) /\ regRun[r].at = "loaded"
        /\ RunEnds(r)
    BY <1>8 DEF ProjectRemoveDirect, c
  <2> QED
    BY <1>1, <1>2, <1>3, <2>1, RemoveOps, RunSavesKeeps
<1> QED
  BY <1>4, <1>5, <1>6, <1>7, <1>8

LEMMA RemoveWorkspaceKeeps ==
    ASSUME RegistryInv, NEW r \in RegistryRuns, NEW w \in Workspaces,
           NEW saved \in BOOLEAN, RemoveWorkspace(r, w, saved)
    PROVE  RegistryInv'
<1> DEFINE p == ProjectOf[w]
           config == [regRun[r].config EXCEPT !.state[w] = Unregistered]
           rest == WorkspacesOf(p) \intersect RegisteredIn(config)
           path == IF config.path[p] = w /\ rest # {} THEN CHOOSE o \in rest : TRUE
                   ELSE config.path[p]
           moved == [config EXCEPT !.path[p] = path]
<1>1. RunSaves(r, moved, {w}, saved) /\ regRun[r].at = "loaded" /\ RunEnds(r)
  BY DEF RemoveWorkspace
<1>2. config \in Configs
  BY <1>1, LoadedConfig, SetStateOps
<1>3. rest # {} => (CHOOSE o \in rest : TRUE) \in Workspaces
  BY DEF WorkspacesOf
<1> HIDE DEF config, rest
<1>4. p \in Projects /\ path \in Workspaces \cup {DefaultPath}
  BY <1>2, <1>3, RegistryAssumption DEF Configs
<1> HIDE DEF p, path
<1>5. moved \in Configs
  BY <1>2, <1>4 DEF Configs
<1> HIDE DEF moved
<1>6. regRun' = [regRun EXCEPT ![r] = [at |-> "done"]] /\ [at |-> "done"] \in RunSteps
  BY <1>1, RunShapes DEF RunEnds
<1> QED
  BY <1>1, <1>5, <1>6, RunSavesKeeps

LEMMA MarkHandoffKeeps ==
    ASSUME RegistryInv, NEW r \in RegistryRuns, NEW left \in Workspaces, NEW entered \in Workspaces,
           NEW saved \in BOOLEAN,
           MarkHandoffWorkspaceStates(r, left, entered, saved)
    PROVE  RegistryInv'
<1> DEFINE c == regRun[r].config
           state == [w \in Workspaces |->
                       CASE c.state[w] = Unregistered -> Unregistered
                         [] w = left -> "inactive"
                         [] w = entered -> "active"
                         [] OTHER      -> c.state[w]]
           marked == [c EXCEPT !.state = state]
<1>1. RunSaves(r, marked, {}, saved) /\ regRun[r].at = "loaded" /\ RunEnds(r)
  BY DEF MarkHandoffWorkspaceStates
<1>2. c \in Configs
  BY <1>1, LoadedConfig
<1> HIDE DEF c
<1>3. state \in [Workspaces -> WorkspaceStates \cup {Unregistered}]
  BY <1>2 DEF Configs, WorkspaceStates
<1> HIDE DEF state
<1>4. marked \in Configs
  BY <1>2, <1>3, StateOps
<1> HIDE DEF marked
<1>5. regRun' = [regRun EXCEPT ![r] = [at |-> "done"]] /\ [at |-> "done"] \in RunSteps
  BY <1>1, RunShapes DEF RunEnds
<1> QED
  BY <1>1, <1>4, <1>5, RunSavesKeeps

LEMMA QuietRunsKeep ==
    ASSUME RegistryInv, NEW r \in RegistryRuns,
           LoadOrDefaultConfig(r) \/ RunSelectsSession(r) \/ RunInsertsSession(r)
    PROVE  RegistryInv'
<1>1. /\ regFile \in Configs /\ cutOff \in BOOLEAN /\ regRun \in [RegistryRuns -> RunSteps]
      /\ sessions \in Seq(SessionRows) /\ regRun[r] \in RunSteps
  BY DEF RegistryInv, RegistryType
<1>2. CASE LoadOrDefaultConfig(r)
  <2> DEFINE run == [at |-> "loaded", config |-> BackfillLegacyWorkspaces(regFile)]
  <2>1. /\ regRun' = [regRun EXCEPT ![r] = run]
        /\ UNCHANGED <<regFile, cutOff, regAgent, agentStep, sessions, registeredOk, interfered>>
    BY <1>2 DEF LoadOrDefaultConfig, fileVars, historyVars
  <2>2. run \in RunSteps
    BY <1>1, BackfillOps, RunShapes
  <2> HIDE DEF run
  <2> QED
    BY <1>1, <2>1, <2>2, SameSessions, RunKeeps
<1>3. CASE RunSelectsSession(r)
  <2>1. PICK at \in {"insert", "done"} : regRun' = [regRun EXCEPT ![r].at = at]
    BY <1>3 DEF RunSelectsSession
  <2> DEFINE run == [regRun[r] EXCEPT !.at = at]
  <2>2. regRun' = [regRun EXCEPT ![r] = run]
    BY <1>1, <2>1
  <2>3. run \in RunSteps
    BY <1>1, <1>3, RunShapes DEF RunSelectsSession
  <2>4. UNCHANGED <<regFile, cutOff, regAgent, agentStep, sessions, registeredOk, interfered>>
    BY <1>3 DEF RunSelectsSession, fileVars, historyVars
  <2> HIDE DEF run
  <2> QED
    BY <1>1, <2>2, <2>3, <2>4, SameSessions, RunKeeps
<1>4. CASE RunInsertsSession(r)
  <2>1. /\ regRun' = [regRun EXCEPT ![r] = [at |-> "done"]]
        /\ regRun[r].at = "insert" /\ InsertSession(ProjectOf[regRun[r].workspace], 0, "active")
        /\ UNCHANGED <<regFile, cutOff, regAgent, agentStep, registeredOk, interfered>>
    BY <1>4 DEF RunInsertsSession, RunEnds, fileVars, historyVars
  <2>2. ProjectOf[regRun[r].workspace] \in Projects /\ [at |-> "done"] \in RunSteps
    BY <1>1, <2>1, RunShapes, RegistryAssumption
  <2>3. sessions' \in Seq(SessionRows) /\ RootsStay
    BY <1>1, <2>1, <2>2, InsertGrows
  <2> QED
    BY <1>1, <2>1, <2>2, <2>3, RunKeeps
<1> QED
  BY <1>2, <1>3, <1>4

LEMMA SessionsKeep ==
    ASSUME RegistryInv, NEW i \in DOMAIN sessions, ForkSession(i) \/ ArchiveSession(i)
    PROVE  RegistryInv'
<1>1. UNCHANGED <<regFile, cutOff, regAgent, agentStep, regRun, registeredOk, interfered>>
  BY DEF ForkSession, ArchiveSession, fileVars, historyVars
<1>2. sessions \in Seq(SessionRows)
  BY DEF RegistryInv, RegistryType
<1>3. sessions[i].project \in Projects /\ i \in Nat
  <2>1. sessions[i] \in SessionRows /\ i \in Nat
    <3> HIDE DEF SessionRows
    <3> QED
      BY <1>2
  <2> QED
    BY <2>1 DEF SessionRows
<1>4. sessions' \in Seq(SessionRows) /\ RootsStay
  BY <1>2, <1>3, InsertGrows, ArchiveGrows DEF ForkSession, ArchiveSession
<1>5. RegistryType' /\ SavedFirst'
  BY <1>1, <1>4 DEF RegistryInv, RegistryType, SavedFirst, Promised, Adding, RegisteredIn
<1> QED
  BY <1>1, <1>4, <1>5, StaysRooted DEF RegistryInv
----------------------------------------------------------------------------
LEMMA RegistryInitInv == RegistryInit => RegistryInv
<1> SUFFICES ASSUME RegistryInit PROVE RegistryInv
  OBVIOUS
<1>1. [at |-> "idle"] \in RunSteps
  BY DEF RunSteps
<1>2. RegistryType
  <2>1. regRun \in [RegistryRuns -> RunSteps]
    BY <1>1 DEF RegistryInit
  <2>2. sessions \in Seq(SessionRows)
    BY DEF RegistryInit
  <2>3. agentStep \in AgentSteps /\ regFile \in Configs /\ regAgent \in Configs
    BY StepShapes, EmptyOps DEF RegistryInit
  <2> QED
    BY <2>1, <2>2, <2>3 DEF RegistryInit, RegistryType
<1>3. Promised = {}
  BY DEF RegistryInit, Promised, Adding
<1>4. SavedFirst /\ Rooted
  BY <1>3 DEF RegistryInit, SavedFirst, Rooted
<1> QED
  BY <1>2, <1>4 DEF RegistryInv

LEMMA RegistryStep == RegistryInv /\ [RegistryNext]_registryVars => RegistryInv'
<1> SUFFICES ASSUME RegistryInv, [RegistryNext]_registryVars PROVE RegistryInv'
  OBVIOUS
<1>1. CASE AgentEnds
  BY <1>1, AgentEndsKeeps
<1>2. CASE SelectDefaultSession \/ InsertDefaultSession \/ DefaultSessionFails
  BY <1>2, DefaultSessionKeeps
<1>3. ASSUME NEW i \in DOMAIN sessions, ForkSession(i) \/ ArchiveSession(i)
      PROVE  RegistryInv'
  BY <1>3, SessionsKeep
<1>4. ASSUME NEW r \in RegistryRuns,
             LoadOrDefaultConfig(r) \/ RunSelectsSession(r) \/ RunInsertsSession(r)
      PROVE  RegistryInv'
  BY <1>4, QuietRunsKeep
<1>5. ASSUME NEW saved \in BOOLEAN,
             \/ AgentStarts(saved)
             \/ \E w \in Workspaces : HandleProjectsAdd(w, saved) \/ RegisterRecoveryWorkspace(w, saved)
             \/ \E p \in Projects : HandleProjectsRemove(p, saved)
             \/ \E profile \in {"balanced", "low-impact"} : HandleSettingsUpdate(profile, saved)
      PROVE  RegistryInv'
  BY <1>5, AgentStartsKeeps, AddKeeps, OtherSavesKeep, Zenon
<1>6. ASSUME NEW saved \in BOOLEAN, NEW r \in RegistryRuns,
             \/ OpenDeviceRegistry(r, saved)
             \/ \E existing \in SUBSET Workspaces :
                   \/ ProjectsListDirect(r, existing, saved)
                   \/ \E w \in Workspaces : ProjectAddDirect(r, w, existing, saved)
             \/ \E w \in Workspaces : RecoverOpenDirect(r, w, saved) \/ RemoveWorkspace(r, w, saved)
             \/ \E p \in Projects : ProjectRemoveDirect(r, p, saved)
             \/ \E s, t \in Workspaces : s # t /\ MarkHandoffWorkspaceStates(r, s, t, saved)
      PROVE  RegistryInv'
  <2>1. CASE \/ OpenDeviceRegistry(r, saved)
             \/ \E existing \in SUBSET Workspaces :
                  \/ ProjectsListDirect(r, existing, saved)
                  \/ \E w \in Workspaces : ProjectAddDirect(r, w, existing, saved)
             \/ \E w \in Workspaces : RecoverOpenDirect(r, w, saved)
             \/ \E p \in Projects : ProjectRemoveDirect(r, p, saved)
    BY <2>1, SavingRunsKeep, Zenon
  <2>2. CASE \E w \in Workspaces : RemoveWorkspace(r, w, saved)
    BY <2>2, RemoveWorkspaceKeeps
  <2>3. CASE \E s, t \in Workspaces : MarkHandoffWorkspaceStates(r, s, t, saved)
    BY <2>3, MarkHandoffKeeps
  <2> QED
    BY <1>6, <2>1, <2>2, <2>3, Zenon
<1>7. CASE UNCHANGED registryVars
  BY <1>7 DEF registryVars, fileVars, historyVars, RegistryInv, RegistryType, SavedFirst, Promised,
              Adding, RegisteredIn, Rooted, RootSessions
<1> QED
  BY <1>1, <1>2, <1>3, <1>4, <1>5, <1>6, <1>7 DEF RegistryNext

(* What the agent answered it added is in its copy as long as nobody else    *)
(* saves the file, and in the file unless its last save was cut off; and it  *)
(* has a root session whoever saves.                                         *)
THEOREM AgentAnswersAreSavedAlways == RegistrySpec => []AgentAnswersAreSaved
<1>1. RegistryInv => AgentAnswersAreSaved
  BY DEF RegistryInv, SavedFirst, Promised, Rooted, AgentAnswersAreSaved
<1> QED
  BY <1>1, RegistryInitInv, RegistryStep, PTL DEF RegistrySpec

(***************************************************************************)
(* The event stream                                                        *)
(***************************************************************************)
EventsSpec == EventsInit /\ [][EventsNext]_eventVars

NumberSeqs == Seq(Nat)
Receipts == [run : Nat, sequence : Nat]
ReceiptSeqs == Seq(Receipts)
StreamStates == [pc : {"none", "request", "respond", "stream"}, cursor : Nat,
                 todo : NumberSeqs, channel : NumberSeqs]
ClientStates == [connected : BOOLEAN, cursor : Nat, from : Nat, run : Nat,
                 received : ReceiptSeqs, connects : Nat]
Fed == {"respond", "stream"}

(* What a client has received is a gapless piece, as StreamsHaveNoGaps has it. *)
NoGap(received, from, run) ==
    received # <<>> =>
        /\ \A i \in DOMAIN received :
              received[i] = [run |-> run, sequence |-> received[1].sequence + i - 1]
        /\ received[1].sequence <= from + 1
        /\ received[1].sequence # from + 1 => run > 1

(* What a thread still has to write are the last events of the log, and the *)
(* client has those before them, or none yet.                              *)
PendingOK(todo, queue, received, from, pub, run) ==
    LET left == Len(todo) + Len(queue)
    IN  /\ left <= pub
        /\ \A i \in DOMAIN todo : todo[i] = pub - left + i
        /\ \A i \in DOMAIN queue : queue[i] = pub - Len(queue) + i
        /\ received = <<>> => pub - left <= from /\ (pub - left # from => run > 1)
        /\ received # <<>> => received[Len(received)].sequence = pub - left

(* The numbers of n events after one of them, and receipts with one more. *)
Numbers(from, n) == [i \in 1 .. n |-> from + i]
Received(received, run, n) == Append(received, [run |-> run, sequence |-> n])

(* A connection that has just been made, and a client with one more event. *)
Requested(cursor) == [NoStream EXCEPT !.pc = "request", !.cursor = cursor]
Connecting(cl, cursor, run) ==
    [cl EXCEPT !.connected = TRUE, !.from = cursor, !.run = run, !.received = <<>>,
               !.connects = @ + 1]
Handed(cl, run, n) == [cl EXCEPT !.received = Received(@, run, n), !.cursor = n]

(* What is left to write is right when the client has event n last. *)
LeftAfter(n, todo, queue, from, pub, run) ==
    \A more : more # <<>> /\ more[Len(more)].sequence = n
                => PendingOK(todo, queue, more, from, pub, run)

(* Only a restart makes the log shorter than a client's cursor. *)
ConnectionOK(st, cl, listed, pub, run) ==
    /\ st \in StreamStates /\ cl \in ClientStates
    /\ NoGap(cl.received, cl.from, cl.run)
    /\ listed <=> st.pc \in Fed
    /\ st.pc # "none" => cl.run = run /\ st.cursor = cl.from
    /\ st.pc = "request" => cl.received = <<>> /\ st.todo = <<>> /\ st.channel = <<>>
    /\ st.pc \in Fed => PendingOK(st.todo, st.channel, cl.received, cl.from, pub, run)
    /\ run = 1 => cl.cursor <= pub /\ (st.pc # "none" => cl.from <= pub)

EventsInv ==
    /\ agentRun \in Nat \ {0} /\ published \in Nat
    /\ subscribers \subseteq Clients
    /\ streams \in [Clients -> StreamStates] /\ clients \in [Clients -> ClientStates]
    /\ \A c \in Clients :
          ConnectionOK(streams[c], clients[c], c \in subscribers, published, agentRun)
----------------------------------------------------------------------------
LEMMA Appended ==
    ASSUME NEW S, NEW s \in Seq(S), NEW x \in S, NEW t, t = Append(s, x)
    PROVE  /\ t \in Seq(S) /\ Len(t) = Len(s) + 1 /\ Len(s) \in Nat
           /\ DOMAIN t = 1 .. Len(s) + 1 /\ DOMAIN s = 1 .. Len(s)
           /\ \A i \in 1 .. Len(s) : t[i] = s[i]
           /\ t[Len(s) + 1] = x
<1>1. t \in Seq(S) /\ Len(s) \in Nat
  OBVIOUS
<1>2. Len(t) = Len(s) + 1
  OBVIOUS
<1>3. DOMAIN t = 1 .. Len(s) + 1 /\ DOMAIN s = 1 .. Len(s)
  BY <1>1, <1>2
<1>4. \A i \in 1 .. Len(s) : t[i] = s[i]
  OBVIOUS
<1>5. t[Len(s) + 1] = x
  BY <1>1
<1> QED
  BY <1>1, <1>2, <1>3, <1>4, <1>5

(* One more event: the queue of a subscriber takes it. *)
LEMMA PublishPending ==
    ASSUME NEW todo \in Seq(Nat), NEW queue \in Seq(Nat), NEW received, NEW from \in Nat,
           NEW pub \in Nat, NEW run, PendingOK(todo, queue, received, from, pub, run),
           NEW more, more = Append(queue, pub + 1)
    PROVE  more \in Seq(Nat) /\ PendingOK(todo, more, received, from, pub + 1, run)
<1> DEFINE n == Len(queue)
           left == Len(todo) + n
<1>0. pub + 1 \in Nat /\ Len(todo) \in Nat /\ DOMAIN todo = 1 .. Len(todo)
  OBVIOUS
<1>1. /\ more \in Seq(Nat) /\ Len(more) = n + 1 /\ n \in Nat
      /\ DOMAIN more = 1 .. n + 1 /\ DOMAIN queue = 1 .. n
      /\ \A i \in 1 .. n : more[i] = queue[i]
      /\ more[n + 1] = pub + 1
  BY <1>0, Appended
<1>2. /\ left <= pub
      /\ \A i \in DOMAIN todo : todo[i] = pub - left + i
      /\ \A i \in DOMAIN queue : queue[i] = pub - n + i
      /\ received = <<>> => pub - left <= from /\ (pub - left # from => run > 1)
      /\ received # <<>> => received[Len(received)].sequence = pub - left
  BY DEF PendingOK
<1>3. Len(todo) + Len(more) = left + 1 /\ pub + 1 - (left + 1) = pub - left /\ left \in Nat
  BY <1>0, <1>1
<1>4. \A i \in DOMAIN more : more[i] = pub + 1 - Len(more) + i
  BY <1>1, <1>2
<1>5. \A i \in DOMAIN todo : todo[i] = pub + 1 - (left + 1) + i
  BY <1>0, <1>2, <1>3
<1>6. left + 1 <= pub + 1
  BY <1>2, <1>3
<1> DEFINE all == Len(todo) + Len(more)
<1>7. all = left + 1
  BY <1>3
<1> HIDE DEF left, all
<1>8. /\ all <= pub + 1 /\ pub + 1 - all = pub - left
      /\ \A i \in DOMAIN todo : todo[i] = pub + 1 - all + i
  BY <1>3, <1>5, <1>6, <1>7
<1>9. /\ received = <<>> => pub + 1 - all <= from /\ (pub + 1 - all # from => run > 1)
      /\ received # <<>> => received[Len(received)].sequence = pub + 1 - all
  BY <1>2, <1>8
<1>10. PendingOK(todo, more, received, from, pub + 1, run)
  BY <1>4, <1>8, <1>9 DEF PendingOK, all
<1> QED
  BY <1>1, <1>10

(* The replay is what the log has after the cursor. *)
LEMMA ReplayPending ==
    ASSUME NEW from \in Nat, NEW pub \in Nat, NEW run, NEW n \in Nat,
           n <= pub, pub - n <= from, pub - n # from => run > 1, n > 0 => pub - n = from
    PROVE  /\ Numbers(from, n) \in Seq(Nat)
           /\ PendingOK(Numbers(from, n), <<>>, <<>>, from, pub, run)
<1> DEFINE replay == Numbers(from, n)
<1>1. replay \in Seq(Nat) /\ Len(replay) = n /\ DOMAIN replay = 1 .. n
  BY DEF Numbers
<1>2. \A i \in DOMAIN replay : replay[i] = pub - n + i
  BY <1>1 DEF Numbers
<1>3. Len(<<>>) = 0 /\ DOMAIN <<>> = {}
  OBVIOUS
<1>4. Len(replay) + Len(<<>>) = n
  BY <1>1, <1>3
<1> QED
  BY <1>1, <1>2, <1>3, <1>4 DEF PendingOK

LEMMA ReceiptFields == ASSUME NEW r \in Receipts PROVE r.run \in Nat /\ r.sequence \in Nat
BY DEF Receipts

LEMMA NextIs ==
    \A n, first, k \in Nat : n - 1 = first + k - 1 => n = first + (k + 1) - 1
OBVIOUS

(* A client that receives the next event has no gap still. *)
LEMMA ReceivesNext ==
    ASSUME NEW received \in Seq(Receipts), NEW from \in Nat, NEW run \in Nat, NEW n \in Nat,
           NoGap(received, from, run),
           received = <<>> => n <= from + 1 /\ (n # from + 1 => run > 1),
           received # <<>> => received[Len(received)].sequence = n - 1,
           NEW more, more = Received(received, run, n)
    PROVE  /\ more \in Seq(Receipts) /\ more # <<>>
           /\ more[Len(more)].sequence = n
           /\ NoGap(more, from, run)
<1> DEFINE receipt == [run |-> run, sequence |-> n]
           k == Len(received)
<1>1. receipt \in Receipts /\ receipt.sequence = n
  BY DEF Receipts
<1> HIDE DEF receipt
<1>2. more = Append(received, receipt)
  BY DEF receipt, Received
<1>3. /\ more \in Seq(Receipts) /\ Len(more) = k + 1 /\ k \in Nat
      /\ DOMAIN more = 1 .. k + 1 /\ DOMAIN received = 1 .. k
      /\ \A i \in 1 .. k : more[i] = received[i]
      /\ more[k + 1] = receipt
      /\ received = <<>> <=> k = 0
  <2>1. received = <<>> <=> k = 0
    OBVIOUS
  <2> QED
    BY <1>1, <1>2, <2>1, Appended
<1>4. more # <<>> /\ more[Len(more)].sequence = n
  BY <1>1, <1>3
<1>5. CASE received = <<>>
  <2>1. k = 0 /\ more[1] = receipt
    BY <1>3, <1>5
  <2>2. \A i \in DOMAIN more : more[i] = [run |-> run, sequence |-> more[1].sequence + i - 1]
    BY <1>1, <1>3, <2>1 DEF receipt
  <2>3. NoGap(more, from, run)
    BY <1>1, <1>5, <2>1, <2>2 DEF NoGap
  <2> QED
    BY <1>3, <1>4, <2>3
<1>6. CASE received # <<>>
  <2>1. /\ \A i \in 1 .. k : received[i] = [run |-> run, sequence |-> received[1].sequence + i - 1]
        /\ received[1].sequence <= from + 1
        /\ received[1].sequence # from + 1 => run > 1
    BY <1>3, <1>6 DEF NoGap
  <2>2. k \in 1 .. k /\ 1 \in 1 .. k /\ more[1] = received[1]
    BY <1>3, <1>6
  <2>3. received[1].sequence \in Nat
    <3>1. received[1] \in Receipts
      BY <1>3, <2>2
    <3> QED
      BY <3>1, ReceiptFields
  <2> DEFINE first == received[1].sequence
  <2>4. n - 1 = first + k - 1
    <3> HIDE DEF k, first
    <3>1. received[k] = [run |-> run, sequence |-> first + k - 1]
      BY <2>1, <2>2 DEF first
    <3>2. received[k].sequence = n - 1
      BY <1>6 DEF k
    <3> QED
      BY <3>1, <3>2
  <2>5. receipt = [run |-> run, sequence |-> first + (k + 1) - 1]
    <3> HIDE DEF k, first
    <3>1. k \in Nat /\ first \in Nat
      BY <1>3, <2>3 DEF first
    <3>2. n = first + (k + 1) - 1
      BY <2>4, <3>1, NextIs
    <3> QED
      BY <3>2 DEF receipt
  <2> HIDE DEF k, first
  <2>6. \A i \in DOMAIN more : more[i] = [run |-> run, sequence |-> more[1].sequence + i - 1]
    <3> SUFFICES ASSUME NEW i \in 1 .. k + 1
                 PROVE  more[i] = [run |-> run, sequence |-> first + i - 1]
      BY <1>3, <2>2 DEF first
    <3>1. CASE i = k + 1
      BY <1>3, <2>5, <3>1
    <3>2. CASE i \in 1 .. k
      BY <1>3, <2>1, <3>2 DEF first
    <3> QED
      BY <1>3, <3>1, <3>2
  <2>7. NoGap(more, from, run)
    BY <2>1, <2>2, <2>6 DEF NoGap
  <2> QED
    BY <1>3, <1>4, <2>7
<1> QED
  BY <1>5, <1>6

LEMMA Shortened ==
    ASSUME NEW S, NEW s \in Seq(S), s # <<>>, NEW t, t = Tail(s)
    PROVE  /\ t \in Seq(S) /\ Len(t) = Len(s) - 1 /\ Len(s) \in Nat \ {0}
           /\ DOMAIN s = 1 .. Len(s) /\ DOMAIN t = 1 .. Len(s) - 1
           /\ \A i \in 1 .. Len(s) - 1 : t[i] = s[i + 1]
           /\ Head(s) = s[1] /\ s[1] \in S
<1>1. Len(s) \in Nat \ {0} /\ DOMAIN s = 1 .. Len(s)
  OBVIOUS
<1>2. t \in Seq(S) /\ Len(t) = Len(s) - 1
  OBVIOUS
<1>3. DOMAIN t = 1 .. Len(s) - 1
  BY <1>2
<1>4. \A i \in 1 .. Len(s) - 1 : t[i] = s[i + 1]
  BY <1>1
<1>5. Head(s) = s[1] /\ s[1] \in S
  BY <1>1
<1> QED
  BY <1>1, <1>2, <1>3, <1>4, <1>5

(* The next event goes to the client, from the replay or the queue.  A    *)
(* shorter rest still ends with the last event of the log.                 *)
LEMMA SentFromReplay ==
    ASSUME NEW todo \in Seq(Nat), NEW queue \in Seq(Nat), NEW received, NEW from \in Nat,
           NEW pub \in Nat, NEW run, PendingOK(todo, queue, received, from, pub, run),
           todo # <<>>
    PROVE  /\ Tail(todo) \in Seq(Nat) /\ Head(todo) \in Nat /\ Head(todo) <= pub
           /\ received = <<>> => Head(todo) <= from + 1 /\ (Head(todo) # from + 1 => run > 1)
           /\ received # <<>> => received[Len(received)].sequence = Head(todo) - 1
           /\ LeftAfter(Head(todo), Tail(todo), queue, from, pub, run)
<1> DEFINE rest == Tail(todo)
           n == Head(todo)
           m == Len(todo)
           k == Len(queue)
<1>1. /\ rest \in Seq(Nat) /\ Len(rest) = m - 1 /\ m \in Nat \ {0} /\ k \in Nat
      /\ DOMAIN todo = 1 .. m /\ DOMAIN rest = 1 .. m - 1
      /\ \A i \in 1 .. m - 1 : rest[i] = todo[i + 1]
      /\ n = todo[1] /\ n \in Nat
  BY Shortened
<1>2. /\ m + k <= pub
      /\ \A i \in 1 .. m : todo[i] = pub - (m + k) + i
      /\ \A i \in DOMAIN queue : queue[i] = pub - k + i
      /\ received = <<>> => pub - (m + k) <= from /\ (pub - (m + k) # from => run > 1)
      /\ received # <<>> => received[Len(received)].sequence = pub - (m + k)
  BY <1>1 DEF PendingOK
<1>3. rest \in Seq(Nat) /\ n \in Nat
  BY <1>1
<1> DEFINE r == Len(rest)
<1>4. r = m - 1
  BY <1>1
<1> HIDE DEF m, k, r, rest, n
<1>5. n = pub - (m + k) + 1
  BY <1>1, <1>2
<1>6. n <= pub /\ r + k <= pub /\ pub - (r + k) = n /\ n - 1 = pub - (m + k)
  BY <1>1, <1>2, <1>4, <1>5
<1>7. received = <<>> => n <= from + 1 /\ (n # from + 1 => run > 1)
  BY <1>1, <1>2, <1>5
<1>8. \A i \in DOMAIN rest : rest[i] = pub - (r + k) + i
  <2> SUFFICES ASSUME NEW i \in 1 .. m - 1 PROVE rest[i] = pub - (r + k) + i
    BY <1>1
  <2>1. i + 1 \in 1 .. m /\ i \in Nat
    BY <1>1
  <2>2. rest[i] = todo[i + 1] /\ todo[i + 1] = pub - (m + k) + (i + 1)
    BY <1>1, <1>2, <2>1, Zenon
  <2>3. pub - (m + k) + (i + 1) = pub - (r + k) + i
    BY <1>1, <1>4, <2>1
  <2> QED
    BY <2>2, <2>3
<1>9. LeftAfter(n, rest, queue, from, pub, run)
  <2> SUFFICES ASSUME NEW more, more # <<>>, more[Len(more)].sequence = n
               PROVE  PendingOK(rest, queue, more, from, pub, run)
    BY DEF LeftAfter
  <2> QED
    BY <1>2, <1>6, <1>8, Zenon DEF PendingOK, r, k
<1>10. received # <<>> => received[Len(received)].sequence = n - 1
  BY <1>2, <1>6
<1> QED
  BY <1>3, <1>6, <1>7, <1>9, <1>10 DEF rest, n

LEMMA SentFromChannel ==
    ASSUME NEW todo \in Seq(Nat), Len(todo) = 0, NEW queue \in Seq(Nat), NEW received, NEW from \in Nat,
           NEW pub \in Nat, NEW run, PendingOK(todo, queue, received, from, pub, run),
           queue # <<>>
    PROVE  /\ Tail(queue) \in Seq(Nat) /\ Head(queue) \in Nat /\ Head(queue) <= pub
           /\ received = <<>>
                 => Head(queue) <= from + 1 /\ (Head(queue) # from + 1 => run > 1)
           /\ received # <<>> => received[Len(received)].sequence = Head(queue) - 1
           /\ LeftAfter(Head(queue), todo, Tail(queue), from, pub, run)
<1> DEFINE rest == Tail(queue)
           n == Head(queue)
           m == Len(queue)
           z == Len(todo)
           r == Len(rest)
<1>1. /\ rest \in Seq(Nat) /\ r = m - 1 /\ m \in Nat \ {0}
      /\ DOMAIN queue = 1 .. m /\ DOMAIN rest = 1 .. m - 1
      /\ \A i \in 1 .. m - 1 : rest[i] = queue[i + 1]
      /\ n = queue[1] /\ n \in Nat
  BY Shortened
<1>2. z = 0 /\ DOMAIN todo = {}
  OBVIOUS
<1>3. /\ z + m <= pub
      /\ \A i \in 1 .. m : queue[i] = pub - m + i
      /\ received = <<>> => pub - (z + m) <= from /\ (pub - (z + m) # from => run > 1)
      /\ received # <<>> => received[Len(received)].sequence = pub - (z + m)
  BY <1>1 DEF PendingOK
<1> HIDE DEF m, z, r, rest, n
<1>4. n = pub - m + 1
  BY <1>1, <1>3
<1>5. n <= pub /\ z + r <= pub /\ pub - (z + r) = n /\ n - 1 = pub - (z + m)
  BY <1>1, <1>2, <1>3, <1>4
<1>6. received = <<>> => n <= from + 1 /\ (n # from + 1 => run > 1)
  BY <1>1, <1>2, <1>3, <1>4
<1>7. \A i \in DOMAIN rest : rest[i] = pub - r + i
  BY <1>1, <1>3
<1>8. \A i \in DOMAIN todo : todo[i] = pub - (z + r) + i
  BY <1>2
<1>9. LeftAfter(n, todo, rest, from, pub, run)
  <2> SUFFICES ASSUME NEW more, more # <<>>, more[Len(more)].sequence = n
               PROVE  PendingOK(todo, rest, more, from, pub, run)
    BY DEF LeftAfter
  <2> QED
    BY <1>5, <1>7, <1>8, Zenon DEF PendingOK, r, z
<1>10. received # <<>> => received[Len(received)].sequence = n - 1
  BY <1>3, <1>5
<1> QED
  BY <1>1, <1>5, <1>6, <1>9, <1>10 DEF rest, n

(* The same for a connection with its thread and its client. *)
LEMMA PublishOne ==
    ASSUME NEW st, NEW cl, NEW listed \in BOOLEAN, NEW pub \in Nat, NEW run \in Nat,
           ConnectionOK(st, cl, listed, pub, run), NEW st2,
           st2 = IF listed THEN [st EXCEPT !.channel = Append(@, pub + 1)] ELSE st
    PROVE  ConnectionOK(st2, cl, listed, pub + 1, run)
<1>1. CASE ~listed
  <2>1. st2 = st /\ st.pc \notin Fed
    BY <1>1 DEF ConnectionOK
  <2>2. run = 1 => cl.cursor <= pub + 1 /\ (st.pc # "none" => cl.from <= pub + 1)
    BY DEF ConnectionOK, ClientStates
  <2> QED
    BY <1>1, <2>1, <2>2 DEF ConnectionOK
<1>2. CASE listed
  <2> DEFINE queue == Append(st.channel, pub + 1)
  <2>1. /\ st \in StreamStates /\ cl \in ClientStates
        /\ st.pc \in Fed /\ PendingOK(st.todo, st.channel, cl.received, cl.from, pub, run)
        /\ run = 1 => cl.cursor <= pub /\ cl.from <= pub
    BY <1>2 DEF ConnectionOK, Fed
  <2>2. st.todo \in Seq(Nat) /\ st.channel \in Seq(Nat) /\ cl.from \in Nat /\ cl.cursor \in Nat
    BY <2>1 DEF StreamStates, ClientStates, NumberSeqs
  <2>3. queue \in Seq(Nat) /\ PendingOK(st.todo, queue, cl.received, cl.from, pub + 1, run)
    BY <2>1, <2>2, PublishPending
  <2>4. st2 = [st EXCEPT !.channel = queue]
    BY <1>2
  <2> HIDE DEF queue
  <2>5. queue \in NumberSeqs
    BY <2>3 DEF NumberSeqs
  <2>6. /\ st2 \in StreamStates /\ st2.pc = st.pc /\ st2.cursor = st.cursor
        /\ st2.todo = st.todo /\ st2.channel = queue
    BY <2>1, <2>4, <2>5 DEF StreamStates
  <2>7. run = 1 => cl.cursor <= pub + 1 /\ cl.from <= pub + 1
    BY <2>1, <2>2
  <2>8. /\ NoGap(cl.received, cl.from, cl.run) /\ cl.run = run /\ st.cursor = cl.from
        /\ st.pc # "request"
    BY <2>1 DEF ConnectionOK, Fed
  <2> QED
    BY <1>2, <2>1, <2>3, <2>6, <2>7, <2>8 DEF ConnectionOK
<1> QED
  BY <1>1, <1>2

(* The client connects from the start, or from where it was. *)
LEMMA ConnectOne ==
    ASSUME NEW st, NEW cl, NEW listed \in BOOLEAN, NEW pub \in Nat, NEW run \in Nat \ {0},
           ConnectionOK(st, cl, listed, pub, run), st.pc = "none", NEW cursor \in {0, cl.cursor}
    PROVE  ConnectionOK(Requested(cursor), Connecting(cl, cursor, run), listed, pub, run)
<1>0. PICK st2, cl2 : st2 = Requested(cursor) /\ cl2 = Connecting(cl, cursor, run)
  OBVIOUS
<1>1. /\ cl \in ClientStates /\ ~listed
      /\ run = 1 => cl.cursor <= pub
  BY DEF ConnectionOK, Fed
<1>2. cl.cursor \in Nat /\ cl.connects + 1 \in Nat /\ cursor \in Nat
  BY <1>1 DEF ClientStates
<1>3. st2 = [pc |-> "request", cursor |-> cursor, todo |-> <<>>, channel |-> <<>>]
  BY <1>0 DEF Requested, NoStream
<1>4. cl2 = [connected |-> TRUE, cursor |-> cl.cursor, from |-> cursor, run |-> run,
             received |-> <<>>, connects |-> cl.connects + 1]
  BY <1>0, <1>1 DEF Connecting, ClientStates
<1>5. <<>> \in NumberSeqs /\ <<>> \in ReceiptSeqs
  BY DEF NumberSeqs, ReceiptSeqs
<1>6. st2 \in StreamStates
  BY <1>2, <1>3, <1>5 DEF StreamStates
<1>7. cl2 \in ClientStates
  BY <1>2, <1>4, <1>5 DEF ClientStates
<1>8. /\ st2.pc = "request" /\ st2.cursor = cursor /\ st2.todo = <<>> /\ st2.channel = <<>>
      /\ cl2.received = <<>> /\ cl2.from = cursor /\ cl2.run = run /\ cl2.cursor = cl.cursor
  <2>1. st2.pc = "request" /\ st2.cursor = cursor /\ st2.todo = <<>> /\ st2.channel = <<>>
    BY <1>3, Zenon
  <2>2. cl2.received = <<>> /\ cl2.from = cursor
    BY <1>4
  <2>3. cl2.run = run /\ cl2.cursor = cl.cursor
    BY <1>4, Zenon
  <2> QED
    BY <2>1, <2>2, <2>3
<1>9. NoGap(cl2.received, cl2.from, cl2.run)
  BY <1>8 DEF NoGap
<1>10. run = 1 => cl2.cursor <= pub /\ cl2.from <= pub
  BY <1>1, <1>2, <1>8
<1>11. ConnectionOK(st2, cl2, listed, pub, run)
  BY <1>1, <1>6, <1>7, <1>8, <1>9, <1>10 DEF ConnectionOK, Fed
<1> QED
  BY <1>0, <1>11

LEMMA SubscribeOne ==
    ASSUME NEW st, NEW cl, NEW listed \in BOOLEAN, NEW pub \in Nat, NEW run \in Nat \ {0},
           ConnectionOK(st, cl, listed, pub, run), st.pc = "request",
           NEW replay, replay = [i \in 1 .. (pub - st.cursor) |-> st.cursor + i],
           NEW st2, st2 = [st EXCEPT !.pc = "respond", !.todo = replay]
    PROVE  ConnectionOK(st2, cl, TRUE, pub, run)
<1>1. /\ st \in StreamStates /\ cl \in ClientStates
      /\ NoGap(cl.received, cl.from, cl.run) /\ cl.run = run
      /\ st.cursor = cl.from /\ cl.received = <<>> /\ st.channel = <<>>
      /\ run = 1 => cl.cursor <= pub /\ cl.from <= pub
  BY DEF ConnectionOK
<1>2. cl.from \in Nat
  BY <1>1 DEF ClientStates
<1>3. replay \in Seq(Nat) /\ PendingOK(replay, <<>>, <<>>, cl.from, pub, run)
  <2>1. CASE cl.from <= pub
    <3>1. pub - cl.from \in Nat /\ pub - (pub - cl.from) = cl.from /\ pub - cl.from <= pub
      BY <1>2, <2>1
    <3>2. replay = Numbers(cl.from, pub - cl.from)
      BY <1>1 DEF Numbers
    <3>3. pub - (pub - cl.from) <= cl.from
      BY <1>2, <3>1
    <3> QED
      BY <1>2, <3>1, <3>2, <3>3, ReplayPending
  <2>2. CASE ~(cl.from <= pub)
    <3>1. 1 .. (pub - cl.from) = 1 .. 0 /\ pub - 0 <= cl.from /\ run > 1
      BY <1>1, <1>2, <2>2
    <3>0. PICK n \in Nat : n = 0
      OBVIOUS
    <3>2. replay = Numbers(cl.from, n)
      BY <1>1, <3>0, <3>1 DEF Numbers
    <3>3. n <= pub /\ pub - n <= cl.from /\ (pub - n # cl.from => run > 1)
          /\ (n > 0 => pub - n = cl.from)
      BY <3>0, <3>1
    <3>4. PICK from \in Nat : from = cl.from
      BY <1>2
    <3>5. n <= pub /\ pub - n <= from /\ (pub - n # from => run > 1) /\ (n > 0 => pub - n = from)
      BY <3>3, <3>4
    <3>6. PICK held : held = Numbers(from, n)
      OBVIOUS
    <3>7. held \in Seq(Nat)
      BY <3>5, <3>6, ReplayPending
    <3>8. PendingOK(held, <<>>, <<>>, from, pub, run)
      BY <3>5, <3>6, ReplayPending
    <3> QED
      BY <3>2, <3>4, <3>6, <3>7, <3>8
  <2> QED
    BY <2>1, <2>2
<1>4. replay \in NumberSeqs
  BY <1>3 DEF NumberSeqs
<1>5. st2 = [pc |-> "respond", cursor |-> st.cursor, todo |-> replay, channel |-> st.channel]
  BY <1>1 DEF StreamStates
<1>6. st2 \in StreamStates
  BY <1>1, <1>4, <1>5 DEF StreamStates
<1>7. st2.pc = "respond" /\ st2.cursor = cl.from /\ st2.todo = replay /\ st2.channel = <<>>
  BY <1>1, <1>5
<1> QED
  BY <1>1, <1>3, <1>6, <1>7 DEF ConnectionOK, Fed

LEMMA RespondOne ==
    ASSUME NEW st, NEW cl, NEW listed \in BOOLEAN, NEW pub \in Nat, NEW run \in Nat \ {0},
           ConnectionOK(st, cl, listed, pub, run), st.pc = "respond",
           NEW st2, st2 = [st EXCEPT !.pc = "stream"]
    PROVE  listed /\ ConnectionOK(st2, cl, listed, pub, run)
<1>1. st \in StreamStates
  BY DEF ConnectionOK
<1>2. /\ st2 \in StreamStates /\ st2.pc = "stream" /\ st2.cursor = st.cursor
      /\ st2.todo = st.todo /\ st2.channel = st.channel
  BY <1>1 DEF StreamStates
<1> QED
  BY <1>2 DEF ConnectionOK, Fed

(* Delivered with the next event, and the rest left to write. *)
LEMMA DeliverOne ==
    ASSUME NEW st, NEW cl, NEW listed \in BOOLEAN, NEW pub \in Nat, NEW run \in Nat \ {0},
           ConnectionOK(st, cl, listed, pub, run), st.pc = "stream",
           NEW st2, st2 \in StreamStates, st2.pc = st.pc, st2.cursor = st.cursor,
           NEW n \in Nat, n <= pub,
           cl.received = <<>> => n <= cl.from + 1 /\ (n # cl.from + 1 => run > 1),
           cl.received # <<>> => cl.received[Len(cl.received)].sequence = n - 1,
           LeftAfter(n, st2.todo, st2.channel, cl.from, pub, run)
    PROVE  ConnectionOK(st2, Handed(cl, run, n), listed, pub, run)
<1> DEFINE more == Received(cl.received, run, n)
           cl2 == Handed(cl, run, n)
<1>1. /\ cl \in ClientStates /\ NoGap(cl.received, cl.from, cl.run) /\ cl.run = run
      /\ st.cursor = cl.from /\ listed
      /\ run = 1 => cl.from <= pub
  BY DEF ConnectionOK, Fed
<1>2. cl.received \in Seq(Receipts) /\ cl.from \in Nat
  BY <1>1 DEF ClientStates, ReceiptSeqs
<1>3. /\ more \in Seq(Receipts) /\ more # <<>> /\ more[Len(more)].sequence = n
      /\ NoGap(more, cl.from, run)
  BY <1>1, <1>2, ReceivesNext
<1>4. cl2 = [cl EXCEPT !.received = more, !.cursor = n]
  BY DEF Handed
<1> HIDE DEF more, cl2
<1>5. more \in ReceiptSeqs
  BY <1>3 DEF ReceiptSeqs
<1>6. cl2 = [connected |-> cl.connected, cursor |-> n, from |-> cl.from, run |-> cl.run,
             received |-> more, connects |-> cl.connects]
  BY <1>1, <1>4 DEF ClientStates
<1>7. cl2 \in ClientStates
  BY <1>1, <1>5, <1>6 DEF ClientStates
<1>8. cl2.cursor = n /\ cl2.from = cl.from /\ cl2.run = cl.run /\ cl2.received = more
  <2>1. cl2.cursor = n
    BY <1>6
  <2>2. cl2.from = cl.from
    BY <1>6
  <2>3. cl2.run = cl.run
    BY <1>6
  <2>4. cl2.received = more
    BY <1>6, Zenon
  <2> QED
    BY <2>1, <2>2, <2>3, <2>4
<1>9. PendingOK(st2.todo, st2.channel, more, cl.from, pub, run)
  BY <1>3 DEF LeftAfter
<1>10. ConnectionOK(st2, cl2, listed, pub, run)
  BY <1>1, <1>3, <1>7, <1>8, <1>9 DEF ConnectionOK, Fed
<1> QED
  BY <1>10 DEF cl2

(* The client is gone, or the thread has ended as well. *)
LEMMA BreakOne ==
    ASSUME NEW st, NEW cl, NEW listed \in BOOLEAN, NEW pub \in Nat, NEW run \in Nat \ {0},
           ConnectionOK(st, cl, listed, pub, run),
           NEW cl2, cl2 = [cl EXCEPT !.connected = FALSE]
    PROVE  /\ ConnectionOK(st, cl2, listed, pub, run)
           /\ ConnectionOK(NoStream, cl2, FALSE, pub, run)
           /\ ConnectionOK(NoStream, cl2, FALSE, 0, run + 1)
<1>1. cl \in ClientStates
  BY DEF ConnectionOK
<1>2. /\ cl2 \in ClientStates /\ cl2.cursor = cl.cursor /\ cl2.from = cl.from
      /\ cl2.run = cl.run /\ cl2.received = cl.received
  BY <1>1 DEF ClientStates
<1>3. NoStream \in StreamStates /\ NoStream.pc = "none"
  BY DEF StreamStates, NoStream, NumberSeqs
<1>4. run + 1 # 1
  OBVIOUS
<1>5. ConnectionOK(st, cl2, listed, pub, run)
  BY <1>2 DEF ConnectionOK
<1>6. NoGap(cl2.received, cl2.from, cl2.run) /\ (run = 1 => cl2.cursor <= pub)
  BY <1>2 DEF ConnectionOK
<1> QED
  BY <1>2, <1>3, <1>4, <1>5, <1>6 DEF ConnectionOK, Fed

LEMMA EventsTyped ==
    ASSUME EventsInv, NEW c \in Clients
    PROVE  /\ agentRun \in Nat \ {0} /\ published \in Nat /\ (c \in subscribers) \in BOOLEAN
           /\ streams \in [Clients -> StreamStates] /\ clients \in [Clients -> ClientStates]
           /\ ConnectionOK(streams[c], clients[c], c \in subscribers, published, agentRun)
BY DEF EventsInv

(* A step that is about one connection leaves the others as they are. *)
LEMMA OneConnection ==
    ASSUME EventsInv, NEW c \in Clients,
           NEW st, NEW cl, NEW listed \in BOOLEAN,
           streams' = [streams EXCEPT ![c] = st], clients' = [clients EXCEPT ![c] = cl],
           subscribers' = IF listed THEN subscribers \cup {c} ELSE subscribers \ {c},
           UNCHANGED <<agentRun, published>>,
           ConnectionOK(st, cl, listed, published, agentRun)
    PROVE  EventsInv'
<1>1. st \in StreamStates /\ cl \in ClientStates
  BY DEF ConnectionOK
<1>2. /\ agentRun' \in Nat \ {0} /\ published' \in Nat /\ subscribers' \subseteq Clients
      /\ streams' \in [Clients -> StreamStates] /\ clients' \in [Clients -> ClientStates]
  BY <1>1 DEF EventsInv
<1>3. ASSUME NEW d \in Clients
      PROVE  ConnectionOK(streams'[d], clients'[d], d \in subscribers', published', agentRun')
  <2>1. ConnectionOK(streams[d], clients[d], d \in subscribers, published, agentRun)
    BY DEF EventsInv
  <2>2. CASE d = c
    <3>1. streams'[d] = st /\ clients'[d] = cl /\ (d \in subscribers' <=> listed)
      BY <2>2 DEF EventsInv
    <3> QED
      BY <3>1, Zenon DEF ConnectionOK
  <2>3. CASE d # c
    <3>1. streams'[d] = streams[d] /\ clients'[d] = clients[d]
          /\ (d \in subscribers' <=> d \in subscribers)
      BY <2>3 DEF EventsInv
    <3> QED
      BY <2>1, <3>1, Zenon DEF ConnectionOK
  <2> QED
    BY <2>2, <2>3
<1> QED
  BY <1>2, <1>3 DEF EventsInv

LEMMA EventsPublishStep == ASSUME EventsInv, Publish PROVE EventsInv'
<1>1. ASSUME NEW c \in Clients
      PROVE  streams'[c] \in StreamStates
             /\ ConnectionOK(streams'[c], clients[c], c \in subscribers, published + 1, agentRun)
  <2>1. streams'[c] = IF c \in subscribers
                      THEN [streams[c] EXCEPT !.channel = Append(@, published + 1)]
                      ELSE streams[c]
    BY DEF Publish
  <2>2. agentRun \in Nat /\ published \in Nat /\ (c \in subscribers) \in BOOLEAN
        /\ ConnectionOK(streams[c], clients[c], c \in subscribers, published, agentRun)
    BY DEF EventsInv
  <2>3. PICK st : st = streams[c]
    OBVIOUS
  <2>4. PICK st2 : st2 = streams'[c]
    OBVIOUS
  <2>5. PICK cl : cl = clients[c]
    OBVIOUS
  <2>6. PICK listed \in BOOLEAN : listed = (c \in subscribers)
    BY <2>2
  <2>7. PICK pub \in Nat, run \in Nat : pub = published /\ run = agentRun
    BY <2>2
  <2>8. ConnectionOK(st, cl, listed, pub, run)
    BY <2>2, <2>3, <2>5, <2>6, <2>7
  <2>9. st2 = IF listed THEN [st EXCEPT !.channel = Append(@, pub + 1)] ELSE st
    BY <2>1, <2>3, <2>4, <2>6, <2>7
  <2>10. ConnectionOK(st2, cl, listed, pub + 1, run)
    BY <2>8, <2>9, PublishOne
  <2>11. ConnectionOK(streams'[c], clients[c], c \in subscribers, published + 1, agentRun)
    BY <2>4, <2>5, <2>6, <2>7, <2>10
  <2> QED
    BY <2>11 DEF ConnectionOK
<1>2. streams' = [c \in Clients |-> streams'[c]]
  BY DEF Publish
<1>3. streams' \in [Clients -> StreamStates]
  BY <1>1, <1>2
<1>4. /\ published' = published + 1 /\ agentRun' = agentRun /\ subscribers' = subscribers
      /\ clients' = clients
  BY DEF Publish
<1> QED
  BY <1>1, <1>3, <1>4 DEF EventsInv

LEMMA EventsSubscribeStep ==
    ASSUME EventsInv, NEW c \in Clients,
           ClientSubscribes(c) \/ Subscribe(c) \/ Respond(c)
    PROVE  EventsInv'
<1> DEFINE st == streams[c]
           cl == clients[c]
           listed == c \in subscribers
<1>0. /\ agentRun \in Nat \ {0} /\ published \in Nat /\ listed \in BOOLEAN
      /\ streams \in [Clients -> StreamStates] /\ clients \in [Clients -> ClientStates]
      /\ ConnectionOK(st, cl, listed, published, agentRun)
  BY EventsTyped
<1>1. subscribers = IF listed THEN subscribers \cup {c} ELSE subscribers \ {c}
  OBVIOUS
<1>2. CASE ClientSubscribes(c)
  <2>1. PICK cursor \in {0, cl.cursor} :
          /\ streams' = [streams EXCEPT ![c] = [NoStream EXCEPT !.pc = "request", !.cursor = cursor]]
          /\ clients' = [clients EXCEPT ![c].connected = TRUE, ![c].from = cursor,
                            ![c].run = agentRun, ![c].received = <<>>, ![c].connects = @ + 1]
    BY <1>2 DEF ClientSubscribes
  <2>2. streams' = [streams EXCEPT ![c] = Requested(cursor)]
    BY <2>1 DEF Requested
  <2>3. clients' = [clients EXCEPT ![c] = Connecting(cl, cursor, agentRun)]
    BY <1>0, <2>1 DEF Connecting
  <2>4. st.pc = "none" /\ UNCHANGED <<agentRun, published, subscribers>>
    BY <1>2 DEF ClientSubscribes
  <2> HIDE DEF st, cl, listed
  <2>5. ConnectionOK(Requested(cursor), Connecting(cl, cursor, agentRun), listed,
                     published, agentRun)
    BY <1>0, <2>4, ConnectOne
  <2> QED
    BY <1>0, <1>1, <2>2, <2>3, <2>4, <2>5, OneConnection
<1>3. CASE Subscribe(c)
  <2> DEFINE replay == After(st.cursor)
             st2 == [st EXCEPT !.pc = "respond", !.todo = replay]
  <2>1. /\ st.pc = "request" /\ streams' = [streams EXCEPT ![c] = st2]
        /\ subscribers' = subscribers \cup {c} /\ UNCHANGED <<agentRun, published, clients>>
    BY <1>0, <1>3 DEF Subscribe, RegistersAt
  <2>2. ConnectionOK(st2, cl, TRUE, published, agentRun)
    BY <1>0, <2>1, SubscribeOne DEF After
  <2>3. clients' = [clients EXCEPT ![c] = cl]
    BY <1>0, <2>1
  <2> HIDE DEF st2, cl
  <2> QED
    BY <2>1, <2>2, <2>3, OneConnection
<1>4. CASE Respond(c)
  <2> DEFINE st2 == [st EXCEPT !.pc = "stream"]
  <2>1. /\ st.pc = "respond" /\ streams' = [streams EXCEPT ![c] = st2]
        /\ subscribers' = subscribers /\ UNCHANGED <<agentRun, published, clients>>
    BY <1>0, <1>4 DEF Respond, RegistersAt
  <2>2. listed /\ ConnectionOK(st2, cl, listed, published, agentRun)
    BY <1>0, <2>1, RespondOne
  <2>3. clients' = [clients EXCEPT ![c] = cl] /\ subscribers' = subscribers \cup {c}
    BY <1>0, <2>1, <2>2
  <2>4. listed = TRUE
    BY <1>0, <2>2
  <2>5. ConnectionOK(st2, cl, TRUE, published, agentRun)
    BY <2>2, <2>4
  <2> HIDE DEF st2, cl
  <2> QED
    BY <2>1, <2>3, <2>5, OneConnection
<1> QED
  BY <1>2, <1>3, <1>4

LEMMA EventsWriteStep ==
    ASSUME EventsInv, NEW c \in Clients, WriteReplayed(c) \/ WritePublished(c)
    PROVE  EventsInv'
<1> DEFINE st == streams[c]
           cl == clients[c]
           listed == c \in subscribers
<1>0. /\ agentRun \in Nat \ {0} /\ published \in Nat /\ listed \in BOOLEAN
      /\ streams \in [Clients -> StreamStates] /\ clients \in [Clients -> ClientStates]
      /\ ConnectionOK(st, cl, listed, published, agentRun)
  BY EventsTyped
<1>1. subscribers = IF listed THEN subscribers \cup {c} ELSE subscribers \ {c}
  OBVIOUS
<1>2. /\ st.pc = "stream" /\ UNCHANGED <<agentRun, published, subscribers>>
      /\ st \in StreamStates /\ cl \in ClientStates
  BY <1>0 DEF WriteReplayed, WritePublished
<1>3. /\ PendingOK(st.todo, st.channel, cl.received, cl.from, published, agentRun)
      /\ st.todo \in Seq(Nat) /\ st.channel \in Seq(Nat) /\ cl.from \in Nat
  BY <1>0, <1>2 DEF ConnectionOK, Fed, StreamStates, ClientStates, NumberSeqs
<1>4. CASE WriteReplayed(c)
  <2> DEFINE n == Head(st.todo)
             rest == Tail(st.todo)
             st2 == [st EXCEPT !.todo = rest]
             cl2 == Handed(cl, agentRun, n)
  <2>1. st.todo # <<>> /\ streams' = [streams EXCEPT ![c] = st2]
    BY <1>0, <1>4 DEF WriteReplayed
  <2>2. clients' = [clients EXCEPT ![c] = cl2]
    BY <1>0, <1>4 DEF WriteReplayed, Deliver, Event, Received, Handed
  <2>3. /\ rest \in Seq(Nat) /\ n \in Nat /\ n <= published
        /\ cl.received = <<>> => n <= cl.from + 1 /\ (n # cl.from + 1 => agentRun > 1)
        /\ cl.received # <<>> => cl.received[Len(cl.received)].sequence = n - 1
        /\ LeftAfter(n, rest, st.channel, cl.from, published, agentRun)
    <3> PICK todo, queue, received, from, run :
           /\ todo = st.todo /\ queue = st.channel /\ received = cl.received
           /\ from = cl.from /\ run = agentRun
      OBVIOUS
    <3>1. /\ PendingOK(todo, queue, received, from, published, run)
          /\ todo \in Seq(Nat) /\ queue \in Seq(Nat) /\ from \in Nat
          /\ published \in Nat /\ todo # <<>>
      BY <1>0, <1>3, <2>1
    <3> QED
      BY <3>1, SentFromReplay
  <2>4. rest \in NumberSeqs
    BY <2>3 DEF NumberSeqs
  <2> HIDE DEF n, rest
  <2>5. /\ st2 \in StreamStates /\ st2.pc = st.pc /\ st2.cursor = st.cursor
        /\ st2.todo = rest /\ st2.channel = st.channel
    BY <1>2, <2>4 DEF StreamStates
  <2> HIDE DEF st2
  <2>6. ConnectionOK(st2, cl2, listed, published, agentRun)
    <3>1. LeftAfter(n, st2.todo, st2.channel, cl.from, published, agentRun)
      BY <2>3, <2>5
    <3> HIDE DEF st, cl, listed
    <3> QED
      BY <1>0, <1>2, <2>3, <2>5, <3>1, DeliverOne
  <2> HIDE DEF cl2, listed
  <2> QED
    BY <1>0, <1>1, <1>2, <2>1, <2>2, <2>6, OneConnection
<1>5. CASE WritePublished(c)
  <2> DEFINE n == Head(st.channel)
             rest == Tail(st.channel)
             st2 == [st EXCEPT !.channel = rest]
             cl2 == Handed(cl, agentRun, n)
  <2>1. st.todo = <<>> /\ st.channel # <<>> /\ streams' = [streams EXCEPT ![c] = st2]
    BY <1>0, <1>5 DEF WritePublished
  <2>2. clients' = [clients EXCEPT ![c] = cl2]
    BY <1>0, <1>5 DEF WritePublished, Deliver, Event, Received, Handed
  <2>3. /\ rest \in Seq(Nat) /\ n \in Nat /\ n <= published
        /\ cl.received = <<>> => n <= cl.from + 1 /\ (n # cl.from + 1 => agentRun > 1)
        /\ cl.received # <<>> => cl.received[Len(cl.received)].sequence = n - 1
        /\ LeftAfter(n, st.todo, rest, cl.from, published, agentRun)
    <3> PICK todo, queue, received, from, run :
           /\ todo = st.todo /\ queue = st.channel /\ received = cl.received
           /\ from = cl.from /\ run = agentRun
      OBVIOUS
    <3>1. /\ PendingOK(todo, queue, received, from, published, run)
          /\ queue \in Seq(Nat) /\ from \in Nat /\ published \in Nat
          /\ todo \in Seq(Nat) /\ Len(todo) = 0 /\ queue # <<>>
      BY <1>0, <1>3, <2>1
    <3> QED
      BY <3>1, SentFromChannel
  <2>4. rest \in NumberSeqs
    BY <2>3 DEF NumberSeqs
  <2> HIDE DEF n, rest
  <2>5. /\ st2 \in StreamStates /\ st2.pc = st.pc /\ st2.cursor = st.cursor
        /\ st2.todo = st.todo /\ st2.channel = rest
    BY <1>2, <2>4 DEF StreamStates
  <2> HIDE DEF st2
  <2>6. ConnectionOK(st2, cl2, listed, published, agentRun)
    <3>1. LeftAfter(n, st2.todo, st2.channel, cl.from, published, agentRun)
      BY <2>3, <2>5
    <3> HIDE DEF st, cl, listed
    <3> QED
      BY <1>0, <1>2, <2>3, <2>5, <3>1, DeliverOne
  <2> HIDE DEF cl2, listed
  <2> QED
    BY <1>0, <1>1, <1>2, <2>1, <2>2, <2>6, OneConnection
<1> QED
  BY <1>4, <1>5

LEMMA EventsBreakStep ==
    ASSUME EventsInv, NEW c \in Clients, ClientDisconnects(c) \/ WriteFails(c)
    PROVE  EventsInv'
<1> DEFINE st == streams[c]
           cl == clients[c]
           listed == c \in subscribers
           cl2 == [cl EXCEPT !.connected = FALSE]
<1>0. /\ agentRun \in Nat \ {0} /\ published \in Nat /\ listed \in BOOLEAN
      /\ streams \in [Clients -> StreamStates] /\ clients \in [Clients -> ClientStates]
      /\ ConnectionOK(st, cl, listed, published, agentRun)
  BY EventsTyped
<1>1. subscribers = IF listed THEN subscribers \cup {c} ELSE subscribers \ {c}
  OBVIOUS
<1>2. /\ ConnectionOK(st, cl2, listed, published, agentRun)
      /\ ConnectionOK(NoStream, cl2, FALSE, published, agentRun)
  BY <1>0, BreakOne
<1>3. clients' = [clients EXCEPT ![c] = cl2] /\ UNCHANGED <<agentRun, published>>
  BY <1>0 DEF ClientDisconnects, WriteFails
<1>4. streams = [streams EXCEPT ![c] = st]
  BY <1>0
<1> HIDE DEF cl2, st, listed
<1>5. CASE ClientDisconnects(c)
  <2>1. streams' = [streams EXCEPT ![c] = st] /\ subscribers' = subscribers
    BY <1>4, <1>5 DEF ClientDisconnects
  <2> QED
    BY <1>0, <1>1, <1>2, <1>3, <2>1, OneConnection
<1>6. CASE WriteFails(c)
  <2>1. streams' = [streams EXCEPT ![c] = NoStream] /\ subscribers' = subscribers \ {c}
    BY <1>6 DEF WriteFails
  <2> QED
    BY <1>2, <1>3, <2>1, OneConnection
<1> QED
  BY <1>5, <1>6

LEMMA EventsRestartStep == ASSUME EventsInv, AgentRestarts PROVE EventsInv'
<1>1. ASSUME NEW c \in Clients
      PROVE  ConnectionOK(NoStream, [clients[c] EXCEPT !.connected = FALSE], FALSE, 0, agentRun + 1)
  <2> DEFINE cl2 == [clients[c] EXCEPT !.connected = FALSE]
  <2>1. cl2 = [clients[c] EXCEPT !.connected = FALSE]
    OBVIOUS
  <2>2. /\ agentRun \in Nat \ {0} /\ published \in Nat /\ (c \in subscribers) \in BOOLEAN
        /\ ConnectionOK(streams[c], clients[c], c \in subscribers, published, agentRun)
    BY EventsTyped
  <2> HIDE DEF cl2
  <2>3. ConnectionOK(NoStream, cl2, FALSE, 0, agentRun + 1)
    BY <2>1, <2>2, BreakOne
  <2> QED
    BY <2>3 DEF cl2
<1>2. /\ agentRun' = agentRun + 1 /\ published' = 0 /\ subscribers' = {}
      /\ streams' = [c \in Clients |-> NoStream]
      /\ clients' = [c \in Clients |-> [clients[c] EXCEPT !.connected = FALSE]]
  BY DEF AgentRestarts
<1>3. agentRun' \in Nat \ {0}
  BY <1>2 DEF EventsInv
<1>4. \A c \in Clients : NoStream \in StreamStates
                         /\ [clients[c] EXCEPT !.connected = FALSE] \in ClientStates
  BY <1>1 DEF ConnectionOK
<1>5. streams' \in [Clients -> StreamStates] /\ clients' \in [Clients -> ClientStates]
  BY <1>2, <1>4
<1>6. \A c \in Clients : ConnectionOK(streams'[c], clients'[c], c \in subscribers', published', agentRun')
  <2> SUFFICES ASSUME NEW c \in Clients
               PROVE  ConnectionOK(streams'[c], clients'[c], c \in subscribers', published', agentRun')
    OBVIOUS
  <2>1. /\ streams'[c] = NoStream /\ clients'[c] = [clients[c] EXCEPT !.connected = FALSE]
        /\ (c \in subscribers') = FALSE
    BY <1>2
  <2> QED
    BY <1>1, <1>2, <2>1
<1> QED
  BY <1>2, <1>3, <1>5, <1>6 DEF EventsInv

LEMMA EventsStart == EventsInit => EventsInv
<1> SUFFICES ASSUME EventsInit PROVE EventsInv
  OBVIOUS
<1> DEFINE idle == [connected |-> FALSE, cursor |-> 0, from |-> 0, run |-> 0,
                    received |-> <<>>, connects |-> 0]
<1>1. /\ agentRun = 1 /\ published = 0 /\ subscribers = {}
      /\ streams = [c \in Clients |-> NoStream] /\ clients = [c \in Clients |-> idle]
  BY DEF EventsInit
<1>2. NoStream \in StreamStates /\ NoStream.pc = "none"
  BY DEF StreamStates, NoStream, NumberSeqs
<1>3. idle \in ClientStates
  BY DEF ClientStates, ReceiptSeqs
<1>4. ConnectionOK(NoStream, idle, FALSE, 0, 1)
  BY <1>2, <1>3 DEF ConnectionOK, NoGap, Fed
<1> HIDE DEF idle
<1>5. \A c \in Clients : ConnectionOK(streams[c], clients[c], c \in subscribers, published, agentRun)
  <2> SUFFICES ASSUME NEW c \in Clients
               PROVE  ConnectionOK(streams[c], clients[c], c \in subscribers, published, agentRun)
    OBVIOUS
  <2>1. streams[c] = NoStream /\ clients[c] = idle /\ (c \in subscribers) = FALSE
    BY <1>1
  <2> QED
    BY <1>1, <1>4, <2>1
<1> QED
  BY <1>1, <1>2, <1>3, <1>5 DEF EventsInv

(* An event that is published between the subscription and the end of the  *)
(* replay is neither lost nor sent twice, whatever connections break and    *)
(* however often the agent starts again.                                   *)
THEOREM StreamsHaveNoGapsAlways == EventsSpec => []StreamsHaveNoGaps
<1>1. EventsInit => EventsInv
  BY EventsStart
<1>2. EventsInv /\ [EventsNext]_eventVars => EventsInv'
  <2> SUFFICES ASSUME EventsInv, [EventsNext]_eventVars PROVE EventsInv'
    OBVIOUS
  <2>1. CASE EventsNext
    <3>1. CASE Publish
      BY <3>1, EventsPublishStep
    <3>2. CASE AgentRestarts
      BY <3>2, EventsRestartStep
    <3>3. ASSUME NEW c \in Clients,
                 ClientSubscribes(c) \/ Subscribe(c) \/ Respond(c) \/ WriteReplayed(c)
                 \/ WritePublished(c) \/ ClientDisconnects(c) \/ WriteFails(c)
          PROVE  EventsInv'
      BY <3>3, EventsSubscribeStep, EventsWriteStep, EventsBreakStep
    <3> QED
      BY <2>1, <3>1, <3>2, <3>3 DEF EventsNext
  <2>2. CASE UNCHANGED eventVars
    BY <2>2 DEF EventsInv, eventVars
  <2> QED
    BY <2>1, <2>2
<1>3. EventsInv => StreamsHaveNoGaps
  BY DEF EventsInv, ConnectionOK, NoGap, StreamsHaveNoGaps
<1> QED
  BY <1>1, <1>2, <1>3, PTL DEF EventsSpec

(***************************************************************************)
(* The crash journal                                                       *)
(***************************************************************************)
JournalSpec == JournalInit /\ [][JournalNext]_journalVars

Lines == [kind : {"record"}, op : Operations, phase : JournalPhases, seq : Nat]
JournalItems == Lines \cup {EndOfLine, Half}
JournalFiles == Seq(JournalItems)
JournalWriters ==
    [at : {"idle"}] \cup [at : {"record", "sync"}, op : Operations, phase : JournalPhases]

LineAt(file, i, op) == IsLine(file[i]) /\ file[i].op = op
LastLineOf(file, n, op, k) ==
    k \in 1 .. n /\ LineAt(file, k, op) /\ \A j \in k + 1 .. n : ~LineAt(file, j, op)

(* Later lines have greater numbers.                                       *)
InSequence(file) ==
    \A i, j \in DOMAIN file : i < j /\ IsLine(file[i]) /\ IsLine(file[j]) => file[i].seq < file[j].seq

(* The file up to n has the last phase that was reported, or the next one, *)
(* or nothing of an operation that may have been cleaned up.               *)
Near(was) == {was, was + 1}
Tells(file, n, op, was) ==
    \/ \E k \in 1 .. n : LastLineOf(file, n, op, k) /\ file[k].phase \in Near(was)
    \/ /\ \A k \in 1 .. n : ~LineAt(file, k, op)
       /\ 0 \in Near(was) \/ Near(was) \cap TerminalPhases # {}

(* A file that ends with a line that is complete, or is empty.             *)
Closed(file) == Len(file) = 0 \/ file[Len(file)] = EndOfLine

WriterPlace == IF writer.at = "record" THEN Len(journal) ELSE Len(journal) - 1

JournalTyped ==
    /\ journal \in JournalFiles
    /\ durable \in 0 .. Len(journal)
    /\ writer \in JournalWriters
    /\ reported \in [Operations -> {0} \cup JournalPhases]
    /\ cuts \in Nat

(* The record of an append in progress is the last one of the file.        *)
WriterHolds ==
    writer.at # "idle" =>
       /\ rewriting.at = "none"
       /\ WriterPlace \in DOMAIN journal
       /\ LineAt(journal, WriterPlace, writer.op)
       /\ journal[WriterPlace].phase = writer.phase
       /\ writer.phase = reported[writer.op] + 1
       /\ writer.at = "sync" => journal[Len(journal)] = EndOfLine

RewriteHolds ==
    rewriting.at # "none" =>
       /\ rewriting.file \in JournalFiles
       /\ InSequence(rewriting.file) /\ Readable(rewriting.file) /\ Closed(rewriting.file)
       /\ \A op \in Operations : Tells(rewriting.file, Len(rewriting.file), op, reported[op])

JournalInv ==
    /\ JournalTyped
    /\ InSequence(journal)
    /\ \A i \in durable + 1 .. Len(journal) : IsLine(journal[i]) =>
          journal[i].phase = reported[journal[i].op] + 1
    /\ \A op \in Operations : Tells(journal, durable, op, reported[op])
    /\ WriterHolds
    /\ RewriteHolds
    /\ cuts = 0 => Readable(journal) /\ (writer.at # "record" => Closed(journal))

(* Items of a file.                                                        *)
LEMMA ItemsOfFile ==
    ASSUME NEW file \in JournalFiles
    PROVE  /\ Len(file) \in Nat /\ DOMAIN file = 1 .. Len(file)
           /\ \A i \in 1 .. Len(file) : file[i] \in JournalItems
           /\ \A i \in 1 .. Len(file) : IsLine(file[i]) => file[i] \in Lines
           /\ ~IsLine(EndOfLine) /\ ~IsLine(Half) /\ EndOfLine # Half
<1>1. /\ Len(file) \in Nat /\ DOMAIN file = 1 .. Len(file)
      /\ \A i \in 1 .. Len(file) : file[i] \in JournalItems
  BY DEF JournalFiles
<1>2. ~IsLine(EndOfLine) /\ ~IsLine(Half) /\ EndOfLine # Half BY DEF IsLine, EndOfLine, Half
<1> QED BY <1>1, <1>2 DEF JournalItems

(* A set of places has a greatest one.                                     *)
LEMMA GreatestPlace ==
    ASSUME NEW n \in Nat, NEW K, K \subseteq 1 .. n, K # {}
    PROVE  \E k \in K : \A j \in K : j <= k
<1> DEFINE T == {n - k : k \in K}
<1>1. T \subseteq Nat /\ T # {} OBVIOUS
<1>2. PICK x \in T : \A y \in T : x <= y
  <2> HIDE DEF T
  <2> QED BY <1>1, LeastNatural
<1>3. PICK k \in K : x = n - k OBVIOUS
<1>4. ASSUME NEW j \in K PROVE j <= k
  <2>1. n - j \in T OBVIOUS
  <2>2. n - k <= n - j BY <1>2, <1>3, <2>1
  <2>3. j \in Nat /\ k \in Nat OBVIOUS
  <2> QED BY <2>2, <2>3
<1> QED BY <1>4

(* Up to any place an operation has a last line, or none.                  *)
LEMMA LastLineExists ==
    ASSUME NEW file \in JournalFiles, NEW n \in Nat, NEW op
    PROVE  \/ \E k \in 1 .. n : LastLineOf(file, n, op, k)
           \/ \A k \in 1 .. n : ~LineAt(file, k, op)
<1>1. PICK K : K = {k \in 1 .. n : LineAt(file, k, op)} OBVIOUS
<1>2. CASE K = {} BY <1>1, <1>2
<1>3. CASE K # {}
  <2>1. PICK k \in K : \A j \in K : j <= k BY <1>1, <1>3, GreatestPlace
  <2>2. ASSUME NEW j \in k + 1 .. n PROVE ~LineAt(file, j, op)
    <3>1. j \in 1 .. n /\ ~(j <= k) BY <1>1, <2>2
    <3> QED BY <1>1, <2>1, <3>1
  <2> QED BY <1>1, <2>1, <2>2 DEF LastLineOf
<1> QED BY <1>2, <1>3

(* The latest phase is that of the last line.                              *)
LEMMA LatestIsLast ==
    ASSUME NEW file \in JournalFiles, InSequence(file), NEW op \in Operations,
           NEW k, LastLineOf(file, Len(file), op, k)
    PROVE  LatestPhase(file, op) = file[k].phase
<1>1. /\ Len(file) \in Nat /\ DOMAIN file = 1 .. Len(file)
      /\ \A i \in 1 .. Len(file) : IsLine(file[i]) => file[i] \in Lines
  BY ItemsOfFile
<1>2. PICK rs : rs = RecordsOf(file, op) OBVIOUS
<1>3. k \in 1 .. Len(file) /\ file[k] \in rs
  BY <1>1, <1>2 DEF LastLineOf, LineAt, RecordsOf, Records
<1>4. \A s \in rs : \E j \in 1 .. Len(file) : s = file[j] /\ LineAt(file, j, op) /\ j <= k
  <2> SUFFICES ASSUME NEW s \in rs PROVE \E j \in 1 .. Len(file) : s = file[j] /\ LineAt(file, j, op) /\ j <= k
    OBVIOUS
  <2>1. PICK j \in 1 .. Len(file) : s = file[j] /\ IsLine(file[j]) /\ s.op = op
    BY <1>1, <1>2 DEF RecordsOf, Records
  <2>2. LineAt(file, j, op) BY <2>1 DEF LineAt
  <2>3. j \notin k + 1 .. Len(file) BY <2>2 DEF LastLineOf
  <2>4. j <= k BY <1>1, <1>3, <2>3
  <2> QED BY <2>1, <2>2, <2>4
<1>5. \A s \in rs : s \in Lines /\ s.seq \in Nat /\ (s = file[k] \/ s.seq < file[k].seq)
  <2> SUFFICES ASSUME NEW s \in rs PROVE s \in Lines /\ s.seq \in Nat /\ (s = file[k] \/ s.seq < file[k].seq)
    OBVIOUS
  <2>1. PICK j \in 1 .. Len(file) : s = file[j] /\ LineAt(file, j, op) /\ j <= k BY <1>4
  <2>2. s \in Lines BY <1>1, <2>1 DEF LineAt
  <2>3. j = k \/ j < k BY <1>3, <2>1
  <2>4. IsLine(file[k]) /\ IsLine(file[j]) BY <2>1 DEF LastLineOf, LineAt
  <2>5. j < k => file[j].seq < file[k].seq BY <1>1, <1>3, <2>4 DEF InSequence
  <2> QED BY <2>1, <2>2, <2>3, <2>5 DEF Lines
<1>6. \A s \in rs : s.seq <= file[k].seq BY <1>3, <1>5
<1>7. PICK highest : highest = CHOOSE r \in rs : \A s \in rs : s.seq <= r.seq OBVIOUS
<1>8. highest \in rs /\ \A s \in rs : s.seq <= highest.seq BY <1>3, <1>6, <1>7
<1>9. highest = file[k]
  <2>1. file[k].seq <= highest.seq /\ file[k].seq \in Nat /\ highest.seq \in Nat BY <1>3, <1>5, <1>8
  <2> QED BY <1>5, <1>8, <2>1
<1> QED BY <1>2, <1>3, <1>7, <1>9 DEF LatestPhase

LEMMA LatestIsNone ==
    ASSUME NEW file \in JournalFiles, NEW op \in Operations,
           \A k \in 1 .. Len(file) : ~LineAt(file, k, op)
    PROVE  LatestPhase(file, op) = 0
<1>1. DOMAIN file = 1 .. Len(file) BY ItemsOfFile
<1>2. RecordsOf(file, op) = {} BY <1>1 DEF RecordsOf, Records, LineAt
<1> QED BY <1>2 DEF LatestPhase

(* What a file tells is what replay answers.                               *)
LEMMA ReplayTells ==
    ASSUME NEW file \in JournalFiles, InSequence(file), NEW op \in Operations, NEW was,
           Tells(file, Len(file), op, was)
    PROVE  \/ LatestPhase(file, op) \in Near(was)
           \/ LatestPhase(file, op) = 0 /\ Near(was) \cap TerminalPhases # {}
<1>1. CASE \E k \in 1 .. Len(file) : LastLineOf(file, Len(file), op, k) /\ file[k].phase \in Near(was)
  BY <1>1, LatestIsLast
<1>2. CASE /\ \A k \in 1 .. Len(file) : ~LineAt(file, k, op)
           /\ 0 \in Near(was) \/ Near(was) \cap TerminalPhases # {}
  BY <1>2, LatestIsNone
<1> QED BY <1>1, <1>2 DEF Tells

(* What is beyond the synced part is the next phase of its operation, so   *)
(* what the synced part tells, every longer part tells too.                *)
LEMMA LongerTells ==
    ASSUME NEW file \in JournalFiles, NEW m \in Nat, NEW n \in Nat, m <= n, n <= Len(file), NEW op \in Operations,
           NEW was, was = reported[op], Tells(file, m, op, was),
           \A i \in m + 1 .. n : IsLine(file[i]) => file[i].phase = reported[file[i].op] + 1
    PROVE  Tells(file, n, op, was)
<1>1. CASE \A i \in m + 1 .. n : ~LineAt(file, i, op)
  <2>1. CASE \E k \in 1 .. m : LastLineOf(file, m, op, k) /\ file[k].phase \in Near(was)
    <3>1. PICK k \in 1 .. m : LastLineOf(file, m, op, k) /\ file[k].phase \in Near(was) BY <2>1
    <3>2. \A j \in k + 1 .. n : j \in k + 1 .. m \/ j \in m + 1 .. n OBVIOUS
    <3>3. LastLineOf(file, n, op, k) BY <1>1, <3>1, <3>2 DEF LastLineOf
    <3> QED BY <3>1, <3>3 DEF Tells
  <2>2. CASE /\ \A k \in 1 .. m : ~LineAt(file, k, op)
             /\ 0 \in Near(was) \/ Near(was) \cap TerminalPhases # {}
    <3>1. \A k \in 1 .. n : k \in 1 .. m \/ k \in m + 1 .. n OBVIOUS
    <3> QED BY <1>1, <2>2, <3>1 DEF Tells
  <2> QED BY <2>1, <2>2 DEF Tells
<1>2. CASE \E i \in m + 1 .. n : LineAt(file, i, op)
  <2>1. PICK i \in m + 1 .. n : LineAt(file, i, op) BY <1>2
  <2>2. i \in 1 .. n OBVIOUS
  <2>3. PICK k \in 1 .. n : LastLineOf(file, n, op, k) BY <2>1, <2>2, LastLineExists
  <2>4. k \in m + 1 .. n
    <3>1. i \notin k + 1 .. n BY <2>1, <2>3 DEF LastLineOf
    <3> QED BY <3>1, <2>2
  <2>5. LineAt(file, k, op) BY <2>3 DEF LastLineOf
  <2>6. file[k].phase = reported[op] + 1 BY <2>4, <2>5 DEF LineAt
  <2> QED BY <2>3, <2>6 DEF Tells, Near
<1> QED BY <1>1, <1>2

(* What a file tells depends on its lines alone.                           *)
LEMMA SameLinesTell ==
    ASSUME NEW file, NEW other, NEW n \in Nat, NEW m \in Nat, n <= m, NEW op, NEW was,
           \A i \in 1 .. n : other[i] = file[i], \A i \in n + 1 .. m : ~IsLine(other[i]),
           Tells(file, n, op, was)
    PROVE  Tells(other, m, op, was)
<1>1. \A i \in 1 .. n : LineAt(other, i, op) <=> LineAt(file, i, op) BY DEF LineAt
<1>2. \A i \in n + 1 .. m : ~LineAt(other, i, op) BY DEF LineAt
<1>3. \A i \in 1 .. m : i \in 1 .. n \/ i \in n + 1 .. m OBVIOUS
<1>4. CASE \E k \in 1 .. n : LastLineOf(file, n, op, k) /\ file[k].phase \in Near(was)
  <2>1. PICK k \in 1 .. n : LastLineOf(file, n, op, k) /\ file[k].phase \in Near(was) BY <1>4
  <2>2. \A j \in k + 1 .. m : (j \in k + 1 .. n /\ j \in 1 .. n) \/ j \in n + 1 .. m OBVIOUS
  <2>3. k \in 1 .. m OBVIOUS
  <2>4. LastLineOf(other, m, op, k) BY <1>1, <1>2, <2>1, <2>2, <2>3 DEF LastLineOf
  <2> QED BY <2>1, <2>3, <2>4 DEF Tells
<1>5. CASE /\ \A k \in 1 .. n : ~LineAt(file, k, op)
           /\ 0 \in Near(was) \/ Near(was) \cap TerminalPhases # {}
  BY <1>1, <1>2, <1>3, <1>5 DEF Tells
<1> QED BY <1>4, <1>5 DEF Tells
LEMMA SameItemsTell ==
    ASSUME NEW file, NEW other, NEW n \in Nat, NEW op, NEW was,
           \A i \in 1 .. n : other[i] = file[i], Tells(file, n, op, was)
    PROVE  Tells(other, n, op, was)
<1>1. \A i \in n + 1 .. n : ~IsLine(other[i]) OBVIOUS
<1> QED BY <1>1, SameLinesTell

(* The next number is greater than those of all lines.                     *)
LEMMA NextIsGreater ==
    ASSUME journal \in JournalFiles, InSequence(journal)
    PROVE  /\ NextSequenceNumber \in Nat
           /\ \A i \in 1 .. Len(journal) : IsLine(journal[i]) => journal[i].seq < NextSequenceNumber
<1>1. /\ Len(journal) \in Nat /\ DOMAIN journal = 1 .. Len(journal)
      /\ \A i \in 1 .. Len(journal) : IsLine(journal[i]) => journal[i] \in Lines
  BY ItemsOfFile
<1>2. PICK numbers : numbers = {r.seq : r \in Records(journal)} OBVIOUS
<1>3. \A i \in 1 .. Len(journal) : IsLine(journal[i]) => journal[i].seq \in numbers
  BY <1>1, <1>2 DEF Records
<1>4. \A x \in numbers : \E i \in 1 .. Len(journal) : IsLine(journal[i]) /\ x = journal[i].seq
  BY <1>1, <1>2 DEF Records
<1>5. NextSequenceNumber = IF numbers = {} THEN 1 ELSE 1 + CHOOSE n \in numbers : \A k \in numbers : k <= n
  BY <1>2 DEF NextSequenceNumber
<1>6. CASE numbers = {} BY <1>3, <1>5, <1>6
<1>7. CASE numbers # {}
  <2>1. PICK K : K = {i \in 1 .. Len(journal) : IsLine(journal[i])} OBVIOUS
  <2>2. K \subseteq 1 .. Len(journal) /\ K # {} BY <1>4, <1>7, <2>1
  <2>3. PICK k \in K : \A j \in K : j <= k BY <1>1, <2>2, GreatestPlace
  <2>4. journal[k] \in Lines /\ journal[k].seq \in numbers BY <1>1, <1>3, <2>1
  <2>5. \A x \in numbers : x \in Nat /\ x <= journal[k].seq
    <3> SUFFICES ASSUME NEW x \in numbers PROVE x \in Nat /\ x <= journal[k].seq OBVIOUS
    <3>1. PICK i \in 1 .. Len(journal) : IsLine(journal[i]) /\ x = journal[i].seq BY <1>4
    <3>2. i \in K /\ i <= k /\ k \in 1 .. Len(journal) /\ IsLine(journal[k]) BY <2>1, <2>3, <3>1
    <3>3. i = k \/ i < k BY <3>2
    <3>4. journal[i] \in Lines /\ journal[i].seq \in Nat BY <1>1, <3>1 DEF Lines
    <3>5. i < k => journal[i].seq < journal[k].seq BY <1>1, <3>1, <3>2 DEF InSequence
    <3>6. journal[k].seq \in Nat BY <2>4 DEF Lines
    <3> QED BY <3>1, <3>3, <3>4, <3>5, <3>6
  <2>6. PICK n : n = CHOOSE highest \in numbers : \A x \in numbers : x <= highest OBVIOUS
  <2>7. n \in numbers /\ \A x \in numbers : x <= n BY <2>4, <2>5, <2>6
  <2>8. NextSequenceNumber = 1 + n BY <1>5, <1>7, <2>6
  <2>9. n \in Nat BY <2>5, <2>7
  <2>10. \A x \in numbers : x \in Nat /\ x < 1 + n BY <2>5, <2>7, <2>9
  <2> QED BY <1>3, <2>8, <2>9, <2>10
<1> QED BY <1>6, <1>7

LEMMA JournalInitially == JournalInit => JournalInv
<1> SUFFICES ASSUME JournalInit PROVE JournalInv OBVIOUS
<1>1. /\ journal = <<>> /\ durable = 0 /\ rewriting.at = "none" /\ writer.at = "idle" /\ cuts = 0
      /\ reported = [op \in Operations |-> 0]
  BY DEF JournalInit
<1>2. writer \in JournalWriters BY DEF JournalInit, JournalWriters
<1>3. journal \in JournalFiles /\ Len(journal) = 0 BY <1>1 DEF JournalFiles
<1>4. JournalTyped BY <1>1, <1>2, <1>3 DEF JournalTyped
<1>5. InSequence(journal) /\ Readable(journal) /\ Closed(journal)
  BY <1>1, <1>3 DEF InSequence, Readable, Closed
<1>6. \A op \in Operations : Tells(journal, durable, op, reported[op]) BY <1>1 DEF Tells, Near
<1> QED BY <1>1, <1>3, <1>4, <1>5, <1>6 DEF JournalInv, WriterHolds, RewriteHolds

(* One more item at the end of the file.                                   *)
OneMore(file, item, more) ==
    /\ more \in JournalFiles /\ Len(more) = Len(file) + 1
    /\ \A i \in 1 .. Len(file) : more[i] = file[i]
    /\ more[Len(file) + 1] = item
LEMMA OneItemMore ==
    ASSUME NEW file \in JournalFiles, NEW item \in JournalItems
    PROVE  OneMore(file, item, Append(file, item))
BY DEF JournalFiles, OneMore

LEMMA OneItemMoreInSequence ==
    ASSUME NEW file \in JournalFiles, InSequence(file), NEW item \in JournalItems, NEW more, OneMore(file, item, more),
           IsLine(item) => \A i \in 1 .. Len(file) : IsLine(file[i]) => file[i].seq < item.seq
    PROVE  InSequence(more)
<1>1. DOMAIN file = 1 .. Len(file) /\ Len(file) \in Nat BY ItemsOfFile
<1>2. /\ more \in JournalFiles /\ Len(more) = Len(file) + 1
      /\ \A i \in 1 .. Len(file) : more[i] = file[i]
      /\ more[Len(file) + 1] = item
  BY DEF OneMore
<1>3. DOMAIN more = 1 .. Len(file) + 1 BY <1>1, <1>2, ItemsOfFile
<1> SUFFICES ASSUME NEW i \in DOMAIN more, NEW j \in DOMAIN more, i < j, IsLine(more[i]), IsLine(more[j])
             PROVE  more[i].seq < more[j].seq
  BY DEF InSequence
<1>4. i \in 1 .. Len(file) BY <1>1, <1>3
<1>5. CASE j \in 1 .. Len(file) BY <1>1, <1>2, <1>4, <1>5 DEF InSequence
<1>6. CASE j = Len(file) + 1 BY <1>2, <1>4, <1>6
<1> QED BY <1>1, <1>3, <1>5, <1>6

LEMMA AppendKeeps == ASSUME JournalInv, NEW op \in Operations, AppendRecord(op) PROVE JournalInv'
<1>1. PICK line : line = Line(op, reported[op] + 1, NextSequenceNumber) OBVIOUS
<1>2. /\ Quiet /\ Readable(journal) /\ reported[op] + 1 \in JournalPhases
      /\ journal' = Append(journal, line)
      /\ writer' = [at |-> "record", op |-> op, phase |-> reported[op] + 1]
      /\ UNCHANGED <<durable, rewriting, reported, cuts>>
  BY <1>1 DEF AppendRecord
<1>3. /\ journal \in JournalFiles /\ InSequence(journal) /\ Len(journal) \in Nat
      /\ durable \in 0 .. Len(journal)
  BY ItemsOfFile DEF JournalInv, JournalTyped
<1>4. /\ line \in JournalItems /\ IsLine(line) /\ line.op = op /\ line.phase = reported[op] + 1
      /\ line.seq = NextSequenceNumber
  BY <1>1, <1>2, <1>3, NextIsGreater DEF Line, Lines, JournalItems, IsLine
<1>a. OneMore(journal, line, journal') BY <1>2, <1>3, <1>4, OneItemMore
<1>5. /\ journal' \in JournalFiles /\ Len(journal') = Len(journal) + 1
      /\ \A i \in 1 .. Len(journal) : journal'[i] = journal[i]
      /\ journal'[Len(journal) + 1] = line
  BY <1>a DEF OneMore
<1>6. InSequence(journal') BY <1>a, <1>3, <1>4, NextIsGreater, OneItemMoreInSequence
<1>7. JournalTyped'
  <2>1. writer' \in JournalWriters BY <1>2 DEF JournalWriters
  <2> QED BY <1>2, <1>3, <1>5, <2>1 DEF JournalInv, JournalTyped
<1>8. \A i \in durable + 1 .. Len(journal') : IsLine(journal'[i]) => journal'[i].phase = reported[journal'[i].op] + 1
  <2> SUFFICES ASSUME NEW i \in durable + 1 .. Len(journal'), IsLine(journal'[i])
               PROVE  journal'[i].phase = reported[journal'[i].op] + 1
    OBVIOUS
  <2>1. CASE i = Len(journal) + 1 BY <1>4, <1>5, <2>1
  <2>2. CASE i \in durable + 1 .. Len(journal)
    <3>1. i \in 1 .. Len(journal) BY <1>3, <2>2
    <3> QED BY <1>5, <2>2, <3>1 DEF JournalInv
  <2> QED BY <1>3, <1>5, <2>1, <2>2
<1>9. ASSUME NEW o \in Operations PROVE Tells(journal', durable, o, reported[o])
  <2>1. Tells(journal, durable, o, reported[o]) BY DEF JournalInv
  <2>2. durable \in Nat /\ \A i \in 1 .. durable : journal'[i] = journal[i] BY <1>3, <1>5
  <2> QED BY <2>1, <2>2, SameItemsTell
<1>10. \A o \in Operations : Tells(journal', durable', o, reported'[o]) BY <1>2, <1>9
<1>11. WriterHolds'
  <2>1. WriterPlace' = Len(journal) + 1 BY <1>2, <1>5 DEF WriterPlace
  <2>2. rewriting'.at = "none" BY <1>2 DEF Quiet
  <2>3. Len(journal) + 1 \in DOMAIN journal' BY <1>3, <1>5, ItemsOfFile
  <2> QED BY <1>2, <1>4, <1>5, <2>1, <2>2, <2>3 DEF WriterHolds, LineAt
<1>12. RewriteHolds'
  <2>1. rewriting'.at = "none" BY <1>2 DEF Quiet
  <2> QED BY <2>1 DEF RewriteHolds
<1>13. cuts' = 0 => Readable(journal') /\ writer'.at = "record"
  <2> SUFFICES ASSUME cuts = 0 PROVE Readable(journal') /\ writer'.at = "record" BY <1>2
  <2>1. Closed(journal) BY <1>2 DEF JournalInv, Quiet
  <2>2. DOMAIN journal = 1 .. Len(journal) /\ DOMAIN journal' = 1 .. Len(journal) + 1
    BY <1>3, <1>5, ItemsOfFile
  <2>3. line # Half BY <1>4, ItemsOfFile, <1>3
  <2>4. \A i \in DOMAIN journal' : journal'[i] # Half
    BY <1>2, <1>3, <1>5, <2>2, <2>3 DEF Readable
  <2>5. ASSUME NEW i \in 1 .. (Len(journal') - 1), IsLine(journal'[i]), IsLine(journal'[i + 1]) PROVE FALSE
    <3>1. i \in 1 .. Len(journal) BY <1>3, <1>5
    <3>2. CASE i = Len(journal)
      <4>1. ~IsLine(journal[i]) BY <2>1, <3>1, <3>2, <1>3, ItemsOfFile DEF Closed
      <4> QED BY <1>5, <2>5, <3>1, <4>1
    <3>3. CASE i # Len(journal)
      <4>1. i \in 1 .. Len(journal) - 1 /\ i + 1 \in 1 .. Len(journal) BY <1>3, <3>1, <3>3
      <4> QED BY <1>2, <1>5, <2>5, <3>1, <4>1 DEF Readable
    <3> QED BY <3>2, <3>3
  <2> QED BY <1>2, <2>4, <2>5 DEF Readable
<1> QED BY <1>2, <1>6, <1>7, <1>8, <1>10, <1>11, <1>12, <1>13 DEF JournalInv

LEMMA EndLineKeeps == ASSUME JournalInv, EndLine PROVE JournalInv'
<1>1. /\ writer.at = "record" /\ journal' = Append(journal, EndOfLine)
      /\ writer' = [writer EXCEPT !.at = "sync"]
      /\ UNCHANGED <<durable, rewriting, reported, cuts>>
  BY DEF EndLine
<1>2. /\ journal \in JournalFiles /\ InSequence(journal) /\ Len(journal) \in Nat
      /\ durable \in 0 .. Len(journal)
  BY ItemsOfFile DEF JournalInv, JournalTyped
<1>3. EndOfLine \in JournalItems /\ ~IsLine(EndOfLine) /\ EndOfLine # Half
  BY <1>2, ItemsOfFile DEF JournalItems
<1>a. OneMore(journal, EndOfLine, journal') BY <1>1, <1>2, <1>3, OneItemMore
<1>4. /\ journal' \in JournalFiles /\ Len(journal') = Len(journal) + 1
      /\ \A i \in 1 .. Len(journal) : journal'[i] = journal[i]
      /\ journal'[Len(journal) + 1] = EndOfLine
  BY <1>a DEF OneMore
<1>5. InSequence(journal') BY <1>a, <1>2, <1>3, OneItemMoreInSequence
<1>6. writer \in JournalWriters /\ writer' \in JournalWriters /\ writer'.at = "sync"
      /\ writer'.op = writer.op /\ writer'.phase = writer.phase
  BY <1>1 DEF JournalInv, JournalTyped, JournalWriters
<1>7. JournalTyped' BY <1>1, <1>2, <1>4, <1>6 DEF JournalInv, JournalTyped
<1>8. \A i \in durable + 1 .. Len(journal') : IsLine(journal'[i]) => journal'[i].phase = reported[journal'[i].op] + 1
  <2> SUFFICES ASSUME NEW i \in durable + 1 .. Len(journal'), IsLine(journal'[i])
               PROVE  journal'[i].phase = reported[journal'[i].op] + 1
    OBVIOUS
  <2>1. i # Len(journal) + 1 BY <1>3, <1>4
  <2>2. i \in durable + 1 .. Len(journal) /\ i \in 1 .. Len(journal) BY <1>2, <1>4, <2>1
  <2> QED BY <1>4, <2>2 DEF JournalInv
<1>9. ASSUME NEW o \in Operations PROVE Tells(journal', durable, o, reported[o])
  <2>1. Tells(journal, durable, o, reported[o]) BY DEF JournalInv
  <2>2. durable \in Nat /\ \A i \in 1 .. durable : journal'[i] = journal[i] BY <1>2, <1>4
  <2> QED BY <2>1, <2>2, SameItemsTell
<1>10. \A o \in Operations : Tells(journal', durable', o, reported'[o]) BY <1>1, <1>9
<1>11. WriterHolds'
  <2>1. WriterPlace = Len(journal) /\ WriterPlace' = Len(journal) BY <1>1, <1>2, <1>4, <1>6 DEF WriterPlace
  <2>2. /\ rewriting.at = "none" /\ Len(journal) \in DOMAIN journal
        /\ LineAt(journal, Len(journal), writer.op)
        /\ journal[Len(journal)].phase = writer.phase
        /\ writer.phase = reported[writer.op] + 1
    BY <1>1, <2>1 DEF JournalInv, WriterHolds
  <2>3. Len(journal) \in 1 .. Len(journal) /\ Len(journal) \in DOMAIN journal'
    BY <1>2, <1>4, <2>2, ItemsOfFile
  <2> QED BY <1>1, <1>4, <1>6, <2>1, <2>2, <2>3 DEF WriterHolds, LineAt
<1>12. RewriteHolds'
  <2>1. rewriting'.at = "none" BY <1>1 DEF JournalInv, WriterHolds
  <2> QED BY <2>1 DEF RewriteHolds
<1>13. cuts' = 0 => Readable(journal') /\ Closed(journal')
  <2> SUFFICES ASSUME cuts = 0 PROVE Readable(journal') /\ Closed(journal') BY <1>1
  <2>1. Readable(journal) BY DEF JournalInv
  <2>2. DOMAIN journal = 1 .. Len(journal) /\ DOMAIN journal' = 1 .. Len(journal) + 1
    BY <1>2, <1>4, ItemsOfFile
  <2>3. \A i \in DOMAIN journal' : journal'[i] # Half
    BY <1>2, <1>3, <1>4, <2>1, <2>2 DEF Readable
  <2>4. ASSUME NEW i \in 1 .. (Len(journal') - 1), IsLine(journal'[i]), IsLine(journal'[i + 1]) PROVE FALSE
    <3>1. i \in 1 .. Len(journal) /\ i # Len(journal) BY <1>2, <1>3, <1>4, <2>4
    <3>2. i \in 1 .. Len(journal) - 1 /\ i + 1 \in 1 .. Len(journal) BY <1>2, <3>1
    <3> QED BY <1>4, <2>1, <2>4, <3>1, <3>2 DEF Readable
  <2> QED BY <1>4, <2>3, <2>4 DEF Readable, Closed
<1> QED BY <1>1, <1>5, <1>7, <1>8, <1>10, <1>11, <1>12, <1>13 DEF JournalInv

(* The sync makes the record known: it is the last line of the file.       *)
LEMMA SyncKeeps == ASSUME JournalInv, SyncRecord PROVE JournalInv'
<1>1. /\ writer.at = "sync" /\ durable' = Len(journal)
      /\ reported' = [reported EXCEPT ![writer.op] = writer.phase]
      /\ writer' = [at |-> "idle"]
      /\ UNCHANGED <<journal, rewriting, cuts>>
  BY DEF SyncRecord
<1>2. /\ journal \in JournalFiles /\ InSequence(journal) /\ Len(journal) \in Nat
      /\ durable \in 0 .. Len(journal) /\ DOMAIN journal = 1 .. Len(journal)
  BY ItemsOfFile DEF JournalInv, JournalTyped
<1>3. /\ rewriting.at = "none" /\ Len(journal) - 1 \in 1 .. Len(journal)
      /\ LineAt(journal, Len(journal) - 1, writer.op)
      /\ journal[Len(journal) - 1].phase = writer.phase
      /\ journal[Len(journal)] = EndOfLine
  BY <1>1, <1>2 DEF JournalInv, WriterHolds, WriterPlace
<1>4. writer.op \in Operations /\ writer.phase \in JournalPhases
  BY <1>1 DEF JournalInv, JournalTyped, JournalWriters
<1>5. /\ reported' \in [Operations -> {0} \cup JournalPhases]
      /\ reported'[writer.op] = writer.phase
      /\ \A o \in Operations : o # writer.op => reported'[o] = reported[o]
  BY <1>1, <1>4 DEF JournalInv, JournalTyped
<1>6. JournalTyped'
  <2>1. writer' \in JournalWriters BY <1>1 DEF JournalWriters
  <2> QED BY <1>1, <1>2, <1>5, <2>1 DEF JournalInv, JournalTyped
<1>7. ASSUME NEW o \in Operations, o # writer.op PROVE Tells(journal, Len(journal), o, reported'[o])
  <2>1. Tells(journal, durable, o, reported[o]) BY DEF JournalInv
  <2>2. durable \in Nat /\ durable <= Len(journal) BY <1>2
  <2>3. \A i \in durable + 1 .. Len(journal) : IsLine(journal[i]) =>
           journal[i].phase = reported[journal[i].op] + 1
    BY DEF JournalInv
  <2>4. PICK was : was = reported[o] OBVIOUS
  <2>5. Tells(journal, Len(journal), o, was) BY <1>2, <2>1, <2>2, <2>3, <2>4, LongerTells
  <2> QED BY <1>5, <1>7, <2>4, <2>5
<1>8. Tells(journal, Len(journal), writer.op, writer.phase)
  <2> DEFINE k == Len(journal) - 1
  <2>1. ~LineAt(journal, Len(journal), writer.op) BY <1>2, <1>3, ItemsOfFile DEF LineAt
  <2>2. \A j \in k + 1 .. Len(journal) : j = Len(journal)
    <3>1. PICK n : n = Len(journal) OBVIOUS
    <3>2. n \in Nat /\ \A j \in (n - 1) + 1 .. n : j = n BY <1>2, <3>1
    <3> QED BY <3>1, <3>2
  <2>3. LastLineOf(journal, Len(journal), writer.op, k) BY <1>3, <2>1, <2>2 DEF LastLineOf
  <2>4. k \in 1 .. Len(journal) /\ journal[k].phase = writer.phase BY <1>3
  <2> HIDE DEF k
  <2> QED BY <2>3, <2>4 DEF Tells, Near
<1>9. \A o \in Operations : Tells(journal', durable', o, reported'[o])
  BY <1>1, <1>5, <1>7, <1>8
<1>10. \A i \in durable' + 1 .. Len(journal') : FALSE BY <1>1, <1>2
<1>11. WriterHolds' /\ RewriteHolds' BY <1>1, <1>3 DEF WriterHolds, RewriteHolds
<1>12. cuts' = 0 => Readable(journal') /\ Closed(journal') BY <1>1, <1>3 DEF JournalInv, Closed
<1> QED BY <1>1, <1>2, <1>6, <1>9, <1>10, <1>11, <1>12 DEF JournalInv

(* The process ends: what it was about to write is forgotten.              *)
LEMMA ProcessEndKeeps == ASSUME JournalInv, ProcessEnds PROVE JournalInv'
<1>1. /\ cuts' = cuts + 1 /\ writer' = [at |-> "idle"] /\ rewriting' = [at |-> "none"]
      /\ UNCHANGED <<journal, durable, reported>>
  BY DEF ProcessEnds, Cut
<1>2. writer' \in JournalWriters /\ writer'.at = "idle" /\ rewriting'.at = "none" BY <1>1 DEF JournalWriters
<1>3. JournalTyped' /\ cuts' # 0 BY <1>1, <1>2 DEF JournalInv, JournalTyped
<1>4. WriterHolds' /\ RewriteHolds' BY <1>2 DEF WriterHolds, RewriteHolds
<1> QED BY <1>1, <1>3, <1>4 DEF JournalInv

(* The power fails: a part that was not synced is lost, or a record torn.  *)
LEMMA PowerFailureKeeps == ASSUME JournalInv, PowerFails PROVE JournalInv'
<1>1. /\ cuts' = cuts + 1 /\ writer' = [at |-> "idle"] /\ rewriting' = [at |-> "none"]
      /\ durable' = Len(journal') /\ UNCHANGED reported
  BY DEF PowerFails, Cut
<1>2. writer' \in JournalWriters /\ writer'.at = "idle" /\ rewriting'.at = "none" BY <1>1 DEF JournalWriters
<1>3. /\ journal \in JournalFiles /\ InSequence(journal) /\ Len(journal) \in Nat
      /\ durable \in 0 .. Len(journal) /\ DOMAIN journal = 1 .. Len(journal)
  BY ItemsOfFile DEF JournalInv, JournalTyped
<1>4. PICK n \in durable .. Len(journal) :
         journal' = SubSeq(journal, 1, n) \/ journal' = Append(SubSeq(journal, 1, n), Half)
  BY DEF PowerFails
<1>5. n \in Nat /\ n <= Len(journal) /\ durable <= n /\ durable \in Nat BY <1>3
<1>6. PICK left : left = SubSeq(journal, 1, n) OBVIOUS
<1>7. left \in JournalFiles /\ Len(left) = n /\ \A i \in 1 .. n : left[i] = journal[i]
  BY <1>3, <1>5, <1>6 DEF JournalFiles
<1>8. InSequence(left)
  <2>1. DOMAIN left = 1 .. n BY <1>7, ItemsOfFile
  <2>2. \A i \in 1 .. n : i \in DOMAIN journal BY <1>3, <1>5
  <2> QED BY <1>3, <1>7, <2>1, <2>2 DEF InSequence
<1>9. /\ journal' \in JournalFiles /\ InSequence(journal') /\ n <= Len(journal') /\ Len(journal') \in Nat
      /\ \A i \in 1 .. n : journal'[i] = journal[i]
      /\ \A i \in n + 1 .. Len(journal') : ~IsLine(journal'[i])
  <2>1. CASE journal' = left
    <3>1. \A i \in n + 1 .. Len(journal') : FALSE BY <1>5, <1>7, <2>1
    <3> QED BY <1>5, <1>7, <1>8, <2>1, <3>1
  <2>2. CASE journal' = Append(left, Half)
    <3>1. Half \in JournalItems /\ ~IsLine(Half) BY <1>7, ItemsOfFile DEF JournalItems
    <3>2. OneMore(left, Half, journal') BY <1>7, <2>2, <3>1, OneItemMore
    <3>3. InSequence(journal') BY <1>7, <1>8, <3>1, <3>2, OneItemMoreInSequence
    <3>4. /\ journal' \in JournalFiles /\ Len(journal') = n + 1
          /\ \A i \in 1 .. n : journal'[i] = journal[i]
          /\ journal'[n + 1] = Half
      BY <1>7, <3>2 DEF OneMore
    <3>5. \A i \in n + 1 .. Len(journal') : i = n + 1 BY <1>5, <3>4
    <3> QED BY <1>5, <3>1, <3>3, <3>4, <3>5
  <2> QED BY <1>4, <1>6, <2>1, <2>2
<1>10. ASSUME NEW o \in Operations PROVE Tells(journal', Len(journal'), o, reported[o])
  <2>1. PICK was : was = reported[o] OBVIOUS
  <2>2. Tells(journal, durable, o, was) BY <2>1 DEF JournalInv
  <2>3. \A i \in durable + 1 .. n : IsLine(journal[i]) => journal[i].phase = reported[journal[i].op] + 1
    BY <1>3, <1>5 DEF JournalInv
  <2>4. Tells(journal, n, o, was) BY <1>3, <1>5, <2>1, <2>2, <2>3, LongerTells
  <2>5. PICK other, m : other = journal' /\ m = Len(journal') OBVIOUS
  <2>6. Tells(other, m, o, was) BY <1>5, <1>9, <2>4, <2>5, SameLinesTell
  <2> QED BY <2>1, <2>5, <2>6
<1>11. JournalTyped' /\ cuts' # 0 BY <1>1, <1>2, <1>9 DEF JournalInv, JournalTyped
<1>12. WriterHolds' /\ RewriteHolds' BY <1>2 DEF WriterHolds, RewriteHolds
<1>13. \A i \in durable' + 1 .. Len(journal') : FALSE BY <1>1, <1>9
<1>14. \A o \in Operations : Tells(journal', durable', o, reported'[o]) BY <1>1, <1>10
<1> QED BY <1>1, <1>9, <1>11, <1>12, <1>13, <1>14 DEF JournalInv

(* The temporary file of a cleanup takes the place of the journal.         *)
LEMMA RenameKeeps == ASSUME JournalInv, RenameJournal PROVE JournalInv'
<1>1. /\ rewriting.at = "synced" /\ journal' = rewriting.file /\ durable' = Len(rewriting.file)
      /\ rewriting' = [at |-> "none"] /\ UNCHANGED <<writer, reported, cuts>>
  BY DEF RenameJournal
<1>2. /\ journal' \in JournalFiles /\ InSequence(journal') /\ Readable(journal') /\ Closed(journal')
      /\ \A op \in Operations : Tells(journal', durable', op, reported[op])
  BY <1>1 DEF JournalInv, RewriteHolds
<1>3. Len(journal') \in Nat /\ durable' = Len(journal') BY <1>1, <1>2, ItemsOfFile
<1>4. JournalTyped' BY <1>1, <1>2, <1>3 DEF JournalInv, JournalTyped
<1>5. writer.at = "idle" BY <1>1 DEF JournalInv, WriterHolds
<1>6. WriterHolds' /\ RewriteHolds' BY <1>1, <1>5 DEF WriterHolds, RewriteHolds
<1>7. \A i \in durable' + 1 .. Len(journal') : FALSE BY <1>3
<1> QED BY <1>1, <1>2, <1>4, <1>6, <1>7 DEF JournalInv

(* A cleanup: the lines that stay are written in the order of their        *)
(* numbers, each with its end.                                              *)
Earlier(rs, r) == {s \in rs : s.seq < r.seq}
Ranks(rs) == [r \in rs |-> Cardinality(Earlier(rs, r))]
Numbered(rs) ==
    /\ IsFiniteSet(rs) /\ rs \subseteq Lines
    /\ \A r, s \in rs : r.seq = s.seq => r = s

LEMMA RanksFill ==
    ASSUME NEW rs, Numbered(rs), NEW n, n = Cardinality(rs), NEW rank, rank = Ranks(rs)
    PROVE  /\ n \in Nat /\ rank \in [rs -> 0 .. n - 1]
           /\ \A r, s \in rs : r.seq < s.seq => rank[r] < rank[s]
           /\ \A r, s \in rs : rank[r] = rank[s] => r = s
           /\ \A m \in 0 .. n - 1 : \E r \in rs : rank[r] = m
<1>1. IsFiniteSet(rs) /\ n \in Nat BY FS_CardinalityType DEF Numbered
<1>2. \A r \in rs : r.seq \in Nat BY DEF Numbered, Lines
<1>3. ASSUME NEW r \in rs
      PROVE  IsFiniteSet(Earlier(rs, r)) /\ rank[r] \in Nat /\ rank[r] <= n - 1 /\ rank[r] = Cardinality(Earlier(rs, r))
  <2>1. Earlier(rs, r) \subseteq rs \ {r} BY <1>2 DEF Earlier
  <2>2. IsFiniteSet(rs \ {r}) /\ Cardinality(rs \ {r}) = n - 1 BY <1>1, FS_RemoveElement
  <2>3. /\ IsFiniteSet(Earlier(rs, r)) /\ Cardinality(Earlier(rs, r)) <= n - 1
        /\ Cardinality(Earlier(rs, r)) \in Nat
    BY <2>1, <2>2, FS_Subset, FS_CardinalityType
  <2> QED BY <2>3 DEF Ranks
<1>4. \A r \in rs : rank[r] \in 0 .. n - 1 BY <1>1, <1>3
<1>5. rank \in [rs -> 0 .. n - 1]
  <2>1. rank = [r \in rs |-> rank[r]] BY DEF Ranks
  <2> QED BY <1>4, <2>1
<1>6. ASSUME NEW r \in rs, NEW s \in rs, r.seq < s.seq PROVE rank[r] < rank[s]
  <2>1. r \notin Earlier(rs, r) /\ Earlier(rs, r) \cup {r} \subseteq Earlier(rs, s)
    BY <1>2, <1>6 DEF Earlier
  <2>2. Cardinality(Earlier(rs, r) \cup {r}) = Cardinality(Earlier(rs, r)) + 1
    BY <1>3, <2>1, FS_AddElement
  <2>3. Cardinality(Earlier(rs, r) \cup {r}) <= Cardinality(Earlier(rs, s)) BY <1>3, <2>1, FS_Subset
  <2>4. rank[r] + 1 <= rank[s] BY <1>3, <2>2, <2>3
  <2> QED BY <1>3, <2>4
<1>7. ASSUME NEW r \in rs, NEW s \in rs, rank[r] = rank[s] PROVE r = s
  <2>1. ~(r.seq < s.seq) /\ ~(s.seq < r.seq) BY <1>3, <1>6, <1>7
  <2>2. r.seq = s.seq BY <1>2, <2>1
  <2> QED BY <2>2 DEF Numbered
<1>8. \A m \in 0 .. n - 1 : \E r \in rs : rank[r] = m
  <2>1. rank \in Injection(rs, 0 .. n - 1) BY <1>5, <1>7 DEF Injection, IsInjective
  <2>2. IsFiniteSet(0 .. n - 1) /\ Cardinality(0 .. n - 1) = n
    <3>1. PICK m : m = n - 1 OBVIOUS
    <3>2. m \in Int /\ 0 \in Int /\ (IF 0 > m THEN 0 ELSE m - 0 + 1) = n BY <1>1, <3>1
    <3>3. IsFiniteSet(0 .. m) /\ Cardinality(0 .. m) = (IF 0 > m THEN 0 ELSE m - 0 + 1) BY <3>2, FS_Interval
    <3> QED BY <3>1, <3>2, <3>3
  <2>3. rank \in Surjection(rs, 0 .. n - 1) BY <2>1, <2>2, FS_Injection
  <2> QED BY <2>3 DEF Surjection
<1> QED BY <1>1, <1>5, <1>6, <1>7, <1>8

LEMMA OddAndEven ==
    ASSUME NEW n \in Nat, NEW i \in 1 .. 2 * n
    PROVE  \/ i % 2 = 0 /\ \E m \in 1 .. n : i = 2 * m
           \/ i % 2 # 0 /\ \E m \in 0 .. n - 1 : i = 2 * m + 1
<1>1. i \in Nat /\ i % 2 \in {0, 1} /\ i \div 2 \in Nat /\ i = 2 * (i \div 2) + (i % 2) OBVIOUS
<1>2. PICK m \in Nat : m = i \div 2 BY <1>1
<1>3. CASE i % 2 = 0
  <2>1. i = 2 * m /\ m \in 1 .. n BY <1>1, <1>2, <1>3
  <2> QED BY <1>3, <2>1
<1>4. CASE i % 2 # 0
  <2>1. i = 2 * m + 1 /\ m \in 0 .. n - 1 BY <1>1, <1>2, <1>4
  <2> QED BY <1>4, <2>1
<1> QED BY <1>3, <1>4

(* What the temporary file holds, place by place.                          *)
RetainedHolds(file, rs, n, rank) ==
    /\ file \in JournalFiles /\ Len(file) = 2 * n
    /\ \A i \in 1 .. 2 * n :
          \/ file[i] = EndOfLine /\ \E m \in 1 .. n : i = 2 * m
          \/ file[i] \in rs /\ i = 2 * rank[file[i]] + 1
    /\ \A r \in rs : 2 * rank[r] + 1 \in 1 .. 2 * n /\ file[2 * rank[r] + 1] = r

LEMMA RetainedFile ==
    ASSUME NEW rs, Numbered(rs), NEW n, n = Cardinality(rs), NEW rank, rank = Ranks(rs)
    PROVE  RetainedHolds(Retained(rs), rs, n, rank)
<1>1. /\ n \in Nat /\ rank \in [rs -> 0 .. n - 1]
      /\ \A r, s \in rs : rank[r] = rank[s] => r = s
      /\ \A m \in 0 .. n - 1 : \E r \in rs : rank[r] = m
  BY RanksFill
<1>2. \A r \in rs : rank[r] = Cardinality({s \in rs : s.seq < r.seq}) BY DEF Ranks, Earlier
<1>3. PICK file : file = Retained(rs) OBVIOUS
<1>4. file = [i \in 1 .. 2 * n |-> IF i % 2 = 0 THEN EndOfLine
                                   ELSE CHOOSE r \in rs : 2 * Cardinality({s \in rs : s.seq < r.seq}) + 1 = i]
  BY <1>3 DEF Retained
<1>5. ASSUME NEW m \in 0 .. n - 1, NEW i \in 1 .. 2 * n, i % 2 # 0, i = 2 * m + 1
      PROVE  file[i] \in rs /\ rank[file[i]] = m
  <2>1. PICK r \in rs : rank[r] = m BY <1>1
  <2>2. 2 * Cardinality({s \in rs : s.seq < r.seq}) + 1 = i BY <1>2, <1>5, <2>1
  <2>3. file[i] = CHOOSE t \in rs : 2 * Cardinality({s \in rs : s.seq < t.seq}) + 1 = i
    BY <1>4, <1>5
  <2>4. file[i] \in rs /\ 2 * Cardinality({s \in rs : s.seq < file[i].seq}) + 1 = i BY <2>2, <2>3
  <2>5. 2 * rank[file[i]] + 1 = 2 * m + 1 /\ rank[file[i]] \in Nat BY <1>1, <1>2, <1>5, <2>4
  <2> QED BY <2>4, <2>5
<1>6. \A i \in 1 .. 2 * n :
         \/ file[i] = EndOfLine /\ \E m \in 1 .. n : i = 2 * m
         \/ file[i] \in rs /\ i = 2 * rank[file[i]] + 1
  <2> SUFFICES ASSUME NEW i \in 1 .. 2 * n
               PROVE  \/ file[i] = EndOfLine /\ \E m \in 1 .. n : i = 2 * m
                      \/ file[i] \in rs /\ i = 2 * rank[file[i]] + 1
    OBVIOUS
  <2>1. CASE i % 2 = 0 /\ \E m \in 1 .. n : i = 2 * m BY <1>4, <2>1
  <2>2. CASE i % 2 # 0 /\ \E m \in 0 .. n - 1 : i = 2 * m + 1 BY <1>5, <2>2
  <2> QED BY <1>1, <2>1, <2>2, OddAndEven
<1>7. ASSUME NEW r \in rs PROVE 2 * rank[r] + 1 \in 1 .. 2 * n /\ file[2 * rank[r] + 1] = r
  <2>1. PICK m \in 0 .. n - 1 : m = rank[r] BY <1>1
  <2>2. PICK i : i = 2 * m + 1 OBVIOUS
  <2>3. i \in 1 .. 2 * n /\ i % 2 # 0 BY <1>1, <2>1, <2>2
  <2>4. file[i] \in rs /\ rank[file[i]] = m BY <1>5, <2>2, <2>3
  <2> QED BY <1>1, <2>1, <2>2, <2>3, <2>4
<1>8. file \in JournalFiles /\ Len(file) = 2 * n
  <2>1. \A i \in 1 .. 2 * n : file[i] \in JournalItems BY <1>6 DEF Numbered, JournalItems
  <2>2. file = [i \in 1 .. 2 * n |-> file[i]] BY <1>4
  <2>3. 2 * n \in Nat BY <1>1
  <2> QED BY <2>1, <2>2, <2>3 DEF JournalFiles
<1>9. RetainedHolds(file, rs, n, rank) BY <1>6, <1>7, <1>8 DEF RetainedHolds
<1> QED BY <1>3, <1>9

FileOf(file, rs, rank) ==
    /\ file \in JournalFiles /\ InSequence(file) /\ Readable(file) /\ Closed(file)
    /\ Len(file) \in Nat
    /\ \A i \in 1 .. Len(file) : IsLine(file[i]) => file[i] \in rs /\ i = 2 * rank[file[i]] + 1
    /\ \A r \in rs : 2 * rank[r] + 1 \in 1 .. Len(file) /\ file[2 * rank[r] + 1] = r
LEMMA RetainedReadable ==
    ASSUME NEW rs, Numbered(rs), NEW n, n = Cardinality(rs), NEW rank, rank = Ranks(rs),
           NEW file, RetainedHolds(file, rs, n, rank)
    PROVE  FileOf(file, rs, rank)
<1>1. /\ n \in Nat /\ rank \in [rs -> 0 .. n - 1]
      /\ \A r, s \in rs : r.seq < s.seq => rank[r] < rank[s]
      /\ \A r, s \in rs : rank[r] = rank[s] => r = s
  BY RanksFill
<1>2. file \in JournalFiles /\ Len(file) = 2 * n /\ Len(file) \in Nat /\ DOMAIN file = 1 .. Len(file)
  BY <1>1, ItemsOfFile DEF RetainedHolds
<1>3. \A i \in 1 .. 2 * n :
         \/ file[i] = EndOfLine /\ \E m \in 1 .. n : i = 2 * m
         \/ file[i] \in rs /\ i = 2 * rank[file[i]] + 1
  BY DEF RetainedHolds
<1>4. ~IsLine(EndOfLine) /\ ~IsLine(Half) /\ EndOfLine # Half BY <1>2, ItemsOfFile
<1>5. \A r \in rs : r \in Lines /\ IsLine(r) /\ r.seq \in Nat BY DEF Numbered, Lines, IsLine
<1>6. \A i \in 1 .. Len(file) : IsLine(file[i]) => file[i] \in rs /\ i = 2 * rank[file[i]] + 1
  BY <1>2, <1>3, <1>4
<1>7. InSequence(file)
  <2> SUFFICES ASSUME NEW i \in 1 .. Len(file), NEW j \in 1 .. Len(file), i < j, IsLine(file[i]), IsLine(file[j])
               PROVE  file[i].seq < file[j].seq
    BY <1>2 DEF InSequence
  <2>1. PICK r \in rs : r = file[i] /\ i = 2 * rank[r] + 1 BY <1>6
  <2>2. PICK s \in rs : s = file[j] /\ j = 2 * rank[s] + 1 BY <1>6
  <2>3. PICK a, b : a = rank[r] /\ b = rank[s] /\ a \in Nat /\ b \in Nat BY <1>1
  <2>a. 2 * a + 1 < 2 * b + 1 BY <2>1, <2>2, <2>3
  <2>4. a < b BY <2>3, <2>a
  <2>5. ~(s.seq < r.seq) /\ r # s BY <1>1, <2>3, <2>4
  <2>6. r.seq # s.seq BY <2>5 DEF Numbered
  <2> QED BY <1>5, <2>1, <2>2, <2>5, <2>6
<1>8. Readable(file)
  <2>1. \A i \in DOMAIN file : file[i] # Half BY <1>2, <1>3, <1>4, <1>5
  <2>2. ASSUME NEW i \in 1 .. (Len(file) - 1), IsLine(file[i]), IsLine(file[i + 1]) PROVE FALSE
    <3>1. i \in 1 .. Len(file) /\ i + 1 \in 1 .. Len(file) BY <1>2
    <3>2. PICK r \in rs : r = file[i] /\ i = 2 * rank[r] + 1 BY <1>6, <2>2, <3>1
    <3>3. PICK s \in rs : s = file[i + 1] /\ i + 1 = 2 * rank[s] + 1 BY <1>6, <2>2, <3>1
    <3>4. PICK a \in Nat, b \in Nat : a = rank[r] /\ b = rank[s] BY <1>1
    <3>5. 2 * a + 2 = 2 * b + 1 BY <3>2, <3>3, <3>4
    <3> QED BY <3>4, <3>5
  <2> QED BY <2>1, <2>2 DEF Readable
<1>9. Closed(file)
  <2> SUFFICES ASSUME n # 0 PROVE file[2 * n] = EndOfLine BY <1>1, <1>2 DEF Closed
  <2>1. 2 * n \in 1 .. 2 * n BY <1>1
  <2>2. CASE file[2 * n] \in rs /\ 2 * n = 2 * rank[file[2 * n]] + 1
    <3>1. PICK a \in Nat : a = rank[file[2 * n]] BY <1>1, <2>2
    <3>2. 2 * n = 2 * a + 1 BY <2>2, <3>1
    <3> QED BY <1>1, <3>1, <3>2
  <2> QED BY <1>3, <2>1, <2>2
<1>10. \A r \in rs : 2 * rank[r] + 1 \in 1 .. Len(file) /\ file[2 * rank[r] + 1] = r BY <1>2 DEF RetainedHolds
<1> QED BY <1>2, <1>6, <1>7, <1>8, <1>9, <1>10 DEF FileOf

(* The records of a file are finitely many, and each has its own number.   *)
LEMMA RecordsNumbered ==
    ASSUME NEW file \in JournalFiles, InSequence(file), NEW rs, rs \subseteq Records(file)
    PROVE  Numbered(rs)
<1>1. /\ Len(file) \in Nat /\ DOMAIN file = 1 .. Len(file)
      /\ \A i \in 1 .. Len(file) : IsLine(file[i]) => file[i] \in Lines
  BY ItemsOfFile
<1>2. PICK places : places = {i \in 1 .. Len(file) : IsLine(file[i])} OBVIOUS
<1>3. Records(file) = {file[i] : i \in places} BY <1>1, <1>2 DEF Records
<1>4. IsFiniteSet(places)
  <2>1. IsFiniteSet(1 .. Len(file)) BY <1>1, FS_Interval
  <2> QED BY <1>2, <2>1, FS_Subset
<1>5. IsFiniteSet(Records(file))
  <2>1. PICK f : f = [i \in places |-> file[i]] OBVIOUS
  <2>2. f \in Surjection(places, Records(file)) BY <1>3, <2>1 DEF Surjection
  <2> QED BY <1>4, <2>2, FS_Surjection
<1>6. IsFiniteSet(rs) BY <1>5, FS_Subset
<1>7. rs \subseteq Lines BY <1>1, <1>2, <1>3
<1>8. ASSUME NEW r \in rs, NEW s \in rs, r.seq = s.seq PROVE r = s
  <2>1. PICK i \in places, j \in places : r = file[i] /\ s = file[j] BY <1>3
  <2>2. r.seq \in Nat BY <1>7 DEF Lines
  <2>3. ~(i < j) /\ ~(j < i) BY <1>1, <1>2, <1>8, <2>1, <2>2 DEF InSequence
  <2>4. i = j BY <1>1, <1>2, <2>3
  <2> QED BY <2>1, <2>4
<1> QED BY <1>6, <1>7, <1>8 DEF Numbered

(* After a cleanup the file tells the same of every operation that is not  *)
(* finished, and a finished one is in a terminal phase.                     *)
LEMMA RetainedTells ==
    ASSUME journal \in JournalFiles, InSequence(journal), NEW op \in Operations,
           NEW was, Tells(journal, Len(journal), op, was),
           NEW rs, rs = {r \in Records(journal) : ~Finished(r.op)},
           NEW n, n = Cardinality(rs), NEW rank, rank = Ranks(rs), NEW file, RetainedHolds(file, rs, n, rank)
    PROVE  Tells(file, Len(file), op, was)
<1>1. /\ Len(journal) \in Nat /\ DOMAIN journal = 1 .. Len(journal)
      /\ \A i \in 1 .. Len(journal) : IsLine(journal[i]) => journal[i] \in Lines
  BY ItemsOfFile
<1>2. Numbered(rs) BY RecordsNumbered
<1>3. /\ Len(file) \in Nat
      /\ \A i \in 1 .. Len(file) : IsLine(file[i]) => file[i] \in rs /\ i = 2 * rank[file[i]] + 1
      /\ \A r \in rs : 2 * rank[r] + 1 \in 1 .. Len(file) /\ file[2 * rank[r] + 1] = r
      /\ rank \in [rs -> 0 .. n - 1] /\ n \in Nat
      /\ \A r, s \in rs : r.seq < s.seq => rank[r] < rank[s]
  <2>1. /\ rank \in [rs -> 0 .. n - 1] /\ n \in Nat
        /\ \A r, s \in rs : r.seq < s.seq => rank[r] < rank[s]
    BY <1>2, RanksFill
  <2>2. FileOf(file, rs, rank) BY <1>2, RetainedReadable
  <2>3. /\ Len(file) \in Nat
        /\ \A i \in 1 .. Len(file) : IsLine(file[i]) => file[i] \in rs /\ i = 2 * rank[file[i]] + 1
    BY <2>2 DEF FileOf
  <2>4. \A r \in rs : 2 * rank[r] + 1 \in 1 .. Len(file) /\ file[2 * rank[r] + 1] = r
    BY <2>2 DEF FileOf
  <2> QED BY <2>1, <2>3, <2>4
<1>4. \A i \in 1 .. Len(journal) : LineAt(journal, i, op) /\ ~Finished(op) => journal[i] \in rs
  BY <1>1 DEF LineAt, Records
<1>5. \A r \in rs : ~Finished(r.op) /\ IsLine(r) /\ r \in Lines /\ \E i \in 1 .. Len(journal) : r = journal[i]
  BY <1>1 DEF Records
<1>6. CASE Finished(op)
  <2>1. \A i \in 1 .. Len(file) : ~LineAt(file, i, op) BY <1>3, <1>5, <1>6 DEF LineAt
  <2>2. LatestPhase(journal, op) \in TerminalPhases BY <1>6 DEF Finished
  <2>3. \/ LatestPhase(journal, op) \in Near(was)
        \/ LatestPhase(journal, op) = 0 /\ Near(was) \cap TerminalPhases # {}
    BY ReplayTells
  <2> QED BY <2>1, <2>2, <2>3 DEF Tells
<1>7. CASE ~Finished(op) /\ \E k \in 1 .. Len(journal) : LastLineOf(journal, Len(journal), op, k) /\ journal[k].phase \in Near(was)
  <2>1. PICK k \in 1 .. Len(journal) : LastLineOf(journal, Len(journal), op, k) /\ journal[k].phase \in Near(was)
    BY <1>7
  <2>2. PICK r \in rs : r = journal[k] /\ r.op = op BY <1>4, <1>7, <2>1 DEF LastLineOf, LineAt
  <2>3. PICK p : p = 2 * rank[r] + 1 OBVIOUS
  <2>4. p \in 1 .. Len(file) /\ file[p] = r BY <1>3, <2>3
  <2>5. LineAt(file, p, op) BY <1>5, <2>2, <2>4 DEF LineAt
  <2>6. ASSUME NEW j \in p + 1 .. Len(file), LineAt(file, j, op) PROVE FALSE
    <3>1. j \in 1 .. Len(file) /\ p < j BY <1>3, <2>4
    <3>2. PICK s \in rs : s = file[j] /\ j = 2 * rank[s] + 1 /\ s.op = op BY <1>3, <2>6, <3>1 DEF LineAt
    <3>b. rank[r] \in 0 .. n - 1 /\ rank[s] \in 0 .. n - 1 BY <1>3
    <3>c. rank[r] \in Nat /\ rank[s] \in Nat BY <1>3, <3>b
    <3>3. PICK a, b : a = rank[r] /\ b = rank[s] /\ a \in Nat /\ b \in Nat BY <3>c
    <3>a. 2 * a + 1 < 2 * b + 1 BY <2>3, <3>1, <3>2, <3>3
    <3>4. a < b BY <3>3, <3>a
    <3>5. r.seq \in Nat /\ s.seq \in Nat BY <1>5 DEF Lines
    <3>6. ~(s.seq < r.seq) /\ r # s BY <1>3, <3>3, <3>4
    <3>7. r.seq < s.seq BY <1>2, <3>5, <3>6 DEF Numbered
    <3>8. PICK i \in 1 .. Len(journal) : s = journal[i] BY <1>5
    <3>9. IsLine(journal[i]) /\ IsLine(journal[k]) BY <1>5, <2>2, <3>8
    <3>10. i <= k
      <4>1. LineAt(journal, i, op) BY <3>2, <3>8, <3>9 DEF LineAt
      <4>2. i \notin k + 1 .. Len(journal) BY <2>1, <4>1 DEF LastLineOf
      <4> QED BY <1>1, <2>1, <4>2
    <3>11. i # k /\ i < k BY <2>2, <3>6, <3>8, <3>10
    <3>12. journal[i].seq < journal[k].seq BY <1>1, <3>9, <3>11 DEF InSequence
    <3> QED BY <2>2, <3>5, <3>7, <3>8, <3>12
  <2>7. LastLineOf(file, Len(file), op, p) BY <2>4, <2>5, <2>6 DEF LastLineOf
  <2> QED BY <2>1, <2>2, <2>4, <2>7 DEF Tells
<1>8. CASE /\ ~Finished(op)
           /\ \A k \in 1 .. Len(journal) : ~LineAt(journal, k, op)
           /\ 0 \in Near(was) \/ Near(was) \cap TerminalPhases # {}
  <2>1. \A i \in 1 .. Len(file) : ~LineAt(file, i, op)
    <3> SUFFICES ASSUME NEW i \in 1 .. Len(file), LineAt(file, i, op) PROVE FALSE OBVIOUS
    <3>1. file[i] \in rs /\ file[i].op = op BY <1>3 DEF LineAt
    <3>2. PICK k \in 1 .. Len(journal) : file[i] = journal[k] BY <1>5, <3>1
    <3>3. LineAt(journal, k, op) BY <1>5, <3>1, <3>2 DEF LineAt
    <3> QED BY <1>8, <3>3
  <2> QED BY <1>8, <2>1 DEF Tells
<1> QED BY <1>6, <1>7, <1>8 DEF Tells

LEMMA CleanupKeeps ==
    ASSUME JournalInv, CleanupCompleted
    PROVE  JournalInv'
<1>1. /\ JournalTyped /\ InSequence(journal) /\ WriterHolds /\ RewriteHolds
      /\ \A i \in durable + 1 .. Len(journal) : IsLine(journal[i]) =>
            journal[i].phase = reported[journal[i].op] + 1
      /\ \A op \in Operations : Tells(journal, durable, op, reported[op])
      /\ cuts = 0 => Readable(journal) /\ (writer.at # "record" => Closed(journal))
  BY DEF JournalInv
<1>2. /\ UNCHANGED <<journal, durable, writer, reported, appends, cuts>> /\ writer.at = "idle"
      /\ rewriting' = [at |-> "synced", file |-> Retained({r \in Records(journal) : ~Finished(r.op)})]
  BY DEF CleanupCompleted, Quiet
<1>3. PICK rs : rs = {r \in Records(journal) : ~Finished(r.op)} OBVIOUS
<1>4. PICK file : file = Retained(rs) OBVIOUS
<1>5. PICK rank : rank = Ranks(rs) OBVIOUS
<1>6. PICK n : n = Cardinality(rs) OBVIOUS
<1>7. journal \in JournalFiles /\ durable \in 0 .. Len(journal) BY <1>1 DEF JournalTyped
<1>8. Len(journal) \in Nat BY <1>7, ItemsOfFile
<1>9. Numbered(rs)
  <2>1. rs \subseteq Records(journal) BY <1>3
  <2> QED BY <1>1, <1>7, <2>1, RecordsNumbered
<1>10. RetainedHolds(file, rs, n, rank) BY <1>4, <1>5, <1>6, <1>9, RetainedFile
<1>11. FileOf(file, rs, rank) BY <1>5, <1>6, <1>9, <1>10, RetainedReadable
<1>12. ASSUME NEW op \in Operations PROVE Tells(file, Len(file), op, reported[op])
  <2>1. PICK was : was = reported[op] OBVIOUS
  <2>2. Tells(journal, durable, op, was) BY <1>1, <2>1
  <2>3. durable \in Nat /\ durable <= Len(journal) /\ Len(journal) <= Len(journal) BY <1>7, <1>8
  <2>4. Tells(journal, Len(journal), op, was) BY <1>1, <1>7, <1>8, <2>1, <2>2, <2>3, LongerTells
  <2>5. Tells(file, Len(file), op, was) BY <1>1, <1>3, <1>5, <1>6, <1>7, <1>10, <2>4, RetainedTells
  <2> QED BY <2>1, <2>5
<1>13. rewriting'.file = file BY <1>2, <1>3, <1>4
<1>14. RewriteHolds' BY <1>2, <1>11, <1>12, <1>13 DEF RewriteHolds, FileOf
<1>15. WriterHolds' BY <1>2 DEF WriterHolds
<1>16. JournalTyped' BY <1>1, <1>2 DEF JournalTyped
<1> QED BY <1>1, <1>2, <1>14, <1>15, <1>16 DEF JournalInv

(* Every step keeps the invariant, whatever the journal is doing.          *)
LEMMA JournalGoesOn == JournalInv /\ [JournalNext]_journalVars => JournalInv'
<1> SUFFICES ASSUME JournalInv, [JournalNext]_journalVars PROVE JournalInv' OBVIOUS
<1>1. CASE \E op \in Operations : AppendRecord(op) BY <1>1, AppendKeeps
<1>2. CASE EndLine BY <1>2, EndLineKeeps
<1>3. CASE SyncRecord BY <1>3, SyncKeeps
<1>4. CASE CleanupCompleted BY <1>4, CleanupKeeps
<1>5. CASE RenameJournal BY <1>5, RenameKeeps
<1>6. CASE ProcessEnds BY <1>6, ProcessEndKeeps
<1>7. CASE PowerFails BY <1>7, PowerFailureKeeps
<1>8. CASE UNCHANGED journalVars
  BY <1>8 DEF journalVars, JournalInv, JournalTyped, InSequence, Tells, LastLineOf, LineAt, WriterHolds,
              WriterPlace, RewriteHolds, Readable, Closed
<1> QED BY <1>1, <1>2, <1>3, <1>4, <1>5, <1>6, <1>7, <1>8 DEF JournalNext

LEMMA JournalIsKept == JournalInv => ReplayKnowsEveryPhase
<1> SUFFICES ASSUME JournalInv PROVE ReplayKnowsEveryPhase OBVIOUS
<1>1. /\ JournalTyped /\ InSequence(journal)
      /\ \A i \in durable + 1 .. Len(journal) : IsLine(journal[i]) =>
            journal[i].phase = reported[journal[i].op] + 1
      /\ \A op \in Operations : Tells(journal, durable, op, reported[op])
      /\ cuts = 0 => Readable(journal)
  BY DEF JournalInv
<1>2. journal \in JournalFiles /\ durable \in 0 .. Len(journal) /\ cuts \in Nat BY <1>1 DEF JournalTyped
<1>3. Len(journal) \in Nat BY <1>2, ItemsOfFile
<1>4. ASSUME NEW op \in Operations
      PROVE  LET near == {reported[op], reported[op] + 1}
             IN  \/ Replay(journal)[op] \in near
                 \/ Replay(journal)[op] = 0 /\ near \intersect TerminalPhases # {}
  <2>1. PICK was : was = reported[op] OBVIOUS
  <2>2. Tells(journal, durable, op, was) BY <1>1, <2>1
  <2>3. durable \in Nat /\ durable <= Len(journal) /\ Len(journal) <= Len(journal) BY <1>2, <1>3
  <2>4. Tells(journal, Len(journal), op, was) BY <1>1, <1>2, <1>3, <2>1, <2>2, <2>3, LongerTells
  <2>5. \/ LatestPhase(journal, op) \in Near(was)
        \/ LatestPhase(journal, op) = 0 /\ Near(was) \cap TerminalPhases # {}
    BY <1>1, <1>2, <2>4, ReplayTells
  <2>6. Replay(journal)[op] = LatestPhase(journal, op) BY DEF Replay
  <2> QED BY <2>1, <2>5, <2>6 DEF Near
<1>5. ~Readable(journal) => cuts > 0 BY <1>1, <1>2
<1> QED BY <1>4, <1>5 DEF ReplayKnowsEveryPhase

(* Replay never forgets a phase whose append was reported: through lost    *)
(* and torn ends of the file, cleanups and crashes.                        *)
THEOREM ReplayKnowsEveryPhaseAlways == JournalSpec => []ReplayKnowsEveryPhase
<1>1. JournalSpec => []JournalInv
  <2> QED BY JournalInitially, JournalGoesOn, PTL DEF JournalSpec
<1> QED BY <1>1, JournalIsKept, PTL

(***************************************************************************)
(* The log of the agent                                                    *)
(***************************************************************************)
-----------------------------------------------------------------------------
(* Sums with the same terms are the same.                                  *)
LEMMA SumsSame ==
    ASSUME NEW set, NEW w, NEW v, \A x \in set : w[x] = v[x]
    PROVE  SumOver(w, set) = SumOver(v, set)
<1> DEFINE Iter(f) == f = [s \in SUBSET set |-> IF s = {} THEN 0 ELSE w[Picked(s)] + f[s \ {Picked(s)}]]
           Also(f) == f = [s \in SUBSET set |-> IF s = {} THEN 0 ELSE v[Picked(s)] + f[s \ {Picked(s)}]]
<1>1. SumOver(w, set) = (CHOOSE f : Iter(f))[set] BY DEF SumOver, MapThenSumSet, MapThenFoldSet, Picked
<1>2. SumOver(v, set) = (CHOOSE f : Also(f))[set] BY DEF SumOver, MapThenSumSet, MapThenFoldSet, Picked
<1>3. \A s \in SUBSET set : s # {} => w[Picked(s)] = v[Picked(s)] BY DEF Picked
<1>4. \A f : Iter(f) <=> Also(f)
  <2> SUFFICES ASSUME NEW f PROVE Iter(f) <=> Also(f) OBVIOUS
  <2>1. [s \in SUBSET set |-> IF s = {} THEN 0 ELSE w[Picked(s)] + f[s \ {Picked(s)}]]
        = [s \in SUBSET set |-> IF s = {} THEN 0 ELSE v[Picked(s)] + f[s \ {Picked(s)}]]
    BY <1>3
  <2> QED BY <2>1
<1> HIDE DEF Iter, Also
<1>5. (CHOOSE f : Iter(f)) = (CHOOSE f : Also(f)) BY <1>4
<1> QED BY <1>1, <1>2, <1>5

-----------------------------------------------------------------------------
(* The size of a file                                                      *)
LogLines == [n : Nat, size : Nat, git : BOOLEAN]
LogSizes(file) == [i \in DOMAIN file |-> file[i].size]

LEMMA SizeIsSum ==
    ASSUME NEW file
    PROVE  SizeOf(file) = SumOver(LogSizes(file), DOMAIN file)
<1> DEFINE ByLine(f) == f = [s \in SUBSET (DOMAIN file) |->
                IF s = {} THEN 0 ELSE file[Picked(s)].size + f[s \ {Picked(s)}]]
           BySize(f) == f = [s \in SUBSET (DOMAIN file) |->
                IF s = {} THEN 0 ELSE LogSizes(file)[Picked(s)] + f[s \ {Picked(s)}]]
<1>1. SizeOf(file) = (CHOOSE f : ByLine(f))[DOMAIN file]
  BY DEF SizeOf, FoldSeq, FoldFunction, FoldFunctionOnSet, MapThenFoldSet, Picked
<1>2. SumOver(LogSizes(file), DOMAIN file) = (CHOOSE f : BySize(f))[DOMAIN file]
  BY DEF SumOver, MapThenSumSet, MapThenFoldSet, Picked
<1>3. \A s \in SUBSET (DOMAIN file) : s # {} => LogSizes(file)[Picked(s)] = file[Picked(s)].size
  BY DEF LogSizes, Picked
<1>4. \A f : ByLine(f) <=> BySize(f)
  <2> SUFFICES ASSUME NEW f PROVE ByLine(f) <=> BySize(f) OBVIOUS
  <2>1. [s \in SUBSET (DOMAIN file) |-> IF s = {} THEN 0 ELSE file[Picked(s)].size + f[s \ {Picked(s)}]]
        = [s \in SUBSET (DOMAIN file) |-> IF s = {} THEN 0 ELSE LogSizes(file)[Picked(s)] + f[s \ {Picked(s)}]]
    BY <1>3
  <2> QED BY <2>1
<1> HIDE DEF ByLine, BySize
<1>5. (CHOOSE f : ByLine(f)) = (CHOOSE f : BySize(f)) BY <1>4
<1> QED BY <1>1, <1>2, <1>5

LEMMA SizeOfNone == SizeOf(<<>>) = 0
<1>1. SizeOf(<<>>) = SumOver(LogSizes(<<>>), DOMAIN <<>>) BY SizeIsSum
<1>2. DOMAIN <<>> = {} OBVIOUS
<1>3. PICK w : w = LogSizes(<<>>) OBVIOUS
<1>4. w \in [{} -> Nat] BY <1>2, <1>3 DEF LogSizes
<1>5. SumUnfolds(w, {})
  <2>1. IsFiniteSet({}) BY FS_EmptySet
  <2>2. \A s \in SUBSET {} : SumUnfolds(w, s) BY <1>4, <2>1, SumsUnfold
  <2> QED BY <2>2
<1> QED BY <1>1, <1>2, <1>3, <1>5 DEF SumUnfolds

(* One more line, and its size more.                                       *)
LEMMA SizeOfMore ==
    ASSUME NEW file \in Seq(LogLines), NEW item \in LogLines
    PROVE  /\ SizeOf(file) \in Nat
           /\ SizeOf(Append(file, item)) = SizeOf(file) + item.size
<1>1. PICK n : n = Len(file) OBVIOUS
<1>2. PICK more : more = Append(file, item) OBVIOUS
<1>3. n \in Nat /\ DOMAIN file = 1 .. n /\ DOMAIN more = 1 .. n + 1 BY <1>1, <1>2
<1>4. (\A i \in 1 .. n : more[i] = file[i]) /\ more[n + 1] = item BY <1>1, <1>2
<1>5. PICK w : w = LogSizes(file) OBVIOUS
<1>6. PICK v : v = LogSizes(more) OBVIOUS
<1>7. v \in [1 .. n + 1 -> Nat] /\ v[n + 1] = item.size /\ \A i \in 1 .. n : w[i] = v[i]
  <2>1. \A i \in 1 .. n + 1 : more[i] \in LogLines BY <1>1, <1>2, <1>3, <1>4
  <2>2. \A i \in 1 .. n + 1 : more[i].size \in Nat BY <2>1 DEF LogLines
  <2>3. \A i \in 1 .. n : i \in 1 .. n + 1 BY <1>3
  <2>4. n + 1 \in 1 .. n + 1 BY <1>3
  <2> QED BY <1>3, <1>4, <1>5, <1>6, <2>2, <2>3, <2>4 DEF LogSizes
<1>8. IsFiniteSet(1 .. n + 1)
  <2>1. PICK m : m = n + 1 OBVIOUS
  <2>2. m \in Int /\ 1 \in Int BY <1>3, <2>1
  <2>3. IsFiniteSet(1 .. m) BY <2>2, FS_Interval
  <2> QED BY <2>1, <2>3
<1>9. PICK all : all = 1 .. n + 1 OBVIOUS
<1>10. n + 1 \in all /\ all \ {n + 1} = 1 .. n /\ 1 .. n \in SUBSET all BY <1>3, <1>9
<1>11. SumOver(v, all) = v[n + 1] + SumOver(v, all \ {n + 1})
  <2>0. IsFiniteSet(all) /\ v \in [all -> Nat] BY <1>7, <1>8, <1>9
  <2>1. PICK last : last = n + 1 OBVIOUS
  <2>2. last \in all /\ all \in SUBSET all BY <1>10, <2>1
  <2>3. SumOver(v, all) = v[last] + SumOver(v, all \ {last}) BY <2>0, <2>2, SumStep
  <2> QED BY <2>1, <2>3
<1>12. SumOver(v, 1 .. n) \in Nat
  <2>1. \A s \in SUBSET all : SumUnfolds(v, s) BY <1>7, <1>8, <1>9, SumsUnfold
  <2> QED BY <1>10, <2>1 DEF SumUnfolds
<1>13. SumOver(w, 1 .. n) = SumOver(v, 1 .. n) BY <1>7, SumsSame
<1>14. SizeOf(file) = SumOver(w, 1 .. n) BY <1>3, <1>5, SizeIsSum
<1>15. SizeOf(more) = SumOver(v, all) BY <1>3, <1>6, <1>9, SizeIsSum
<1>16. item.size \in Nat BY DEF LogLines
<1>17. PICK sum \in Nat : sum = SumOver(v, 1 .. n) BY <1>12
<1>18. SizeOf(file) = sum BY <1>13, <1>14, <1>17
<1>19. SizeOf(more) = item.size + sum BY <1>7, <1>10, <1>11, <1>15, <1>17
<1> QED BY <1>2, <1>16, <1>17, <1>18, <1>19

-----------------------------------------------------------------------------
(* The lines of Git commands                                               *)
GitStep(lines, f) ==
    f = [i \in 0 .. Len(lines) |->
            IF i = 0 THEN <<>>
            ELSE IF lines[i].git THEN Append(f[i - 1], lines[i]) ELSE f[i - 1]]

(* What is selected of the first lines: some of them, and every one of Git. *)
Selects(lines, i, out) ==
    /\ out \in Seq(LogLines)
    /\ \A k \in 1 .. Len(out) : \E j \in 1 .. i : out[k] = lines[j]
    /\ \A j \in 1 .. i : lines[j].git => \E k \in 1 .. Len(out) : out[k] = lines[j]

LEMMA SelectsNone == ASSUME NEW lines PROVE Selects(lines, 0, <<>>)
BY DEF Selects

LEMMA SelectsLine ==
    ASSUME NEW lines \in Seq(LogLines), NEW i \in Nat, i + 1 <= Len(lines), NEW out, Selects(lines, i, out),
           NEW more, more = IF lines[i + 1].git THEN Append(out, lines[i + 1]) ELSE out
    PROVE  Selects(lines, i + 1, more)
<1>1. /\ out \in Seq(LogLines)
      /\ \A k \in 1 .. Len(out) : \E j \in 1 .. i : out[k] = lines[j]
      /\ \A j \in 1 .. i : lines[j].git => \E k \in 1 .. Len(out) : out[k] = lines[j]
  BY DEF Selects
<1>2. i + 1 \in 1 .. i + 1 /\ \A j \in 1 .. i + 1 : j \in 1 .. i \/ j = i + 1 OBVIOUS
<1>3. \A j \in 1 .. i : j \in 1 .. i + 1 OBVIOUS
<1>4. CASE lines[i + 1].git
  <2>1. PICK item \in LogLines : item = lines[i + 1]
    <3>1. i + 1 \in 1 .. Len(lines) OBVIOUS
    <3> QED BY <3>1
  <2>2. more = Append(out, item) BY <1>4, <2>1
  <2>3. PICK n \in Nat : n = Len(out) BY <1>1
  <2>4. /\ more \in Seq(LogLines) /\ Len(more) = n + 1 /\ more[n + 1] = item
        /\ \A k \in 1 .. n : more[k] = out[k]
    BY <1>1, <2>2, <2>3
  <2>5. n + 1 \in 1 .. n + 1 /\ \A k \in 1 .. n : k \in 1 .. n + 1 OBVIOUS
  <2>6. \A k \in 1 .. n + 1 : k \in 1 .. n \/ k = n + 1 OBVIOUS
  <2>7. ASSUME NEW k \in 1 .. n + 1 PROVE \E j \in 1 .. i + 1 : more[k] = lines[j]
    <3>1. CASE k \in 1 .. n BY <1>1, <1>3, <2>3, <2>4, <3>1
    <3>2. CASE k = n + 1 BY <1>2, <2>1, <2>4, <3>2
    <3> QED BY <2>6, <3>1, <3>2
  <2>8. ASSUME NEW j \in 1 .. i + 1, lines[j].git PROVE \E k \in 1 .. n + 1 : more[k] = lines[j]
    <3>1. CASE j \in 1 .. i BY <1>1, <2>3, <2>4, <2>5, <2>8, <3>1
    <3>2. CASE j = i + 1 BY <2>1, <2>4, <2>5, <3>2
    <3> QED BY <1>2, <3>1, <3>2
  <2> QED BY <2>4, <2>7, <2>8 DEF Selects
<1>5. CASE ~lines[i + 1].git
  <2>1. more = out BY <1>5
  <2> QED BY <1>1, <1>2, <1>3, <1>5, <2>1 DEF Selects
<1> QED BY <1>4, <1>5

LEMMA GitOnlySelects ==
    ASSUME NEW lines \in Seq(LogLines)
    PROVE  Selects(lines, Len(lines), GitOnly(lines))
<1>1. PICK n \in Nat : n = Len(lines) OBVIOUS
<1>2. GitOnly(lines) = (CHOOSE f : GitStep(lines, f))[n] BY <1>1 DEF GitOnly, GitStep
<1>3. \E f : GitStep(lines, f)
  <2>1. PICK D : D = Seq(LogLines) OBVIOUS
  <2>2. PICK step : step = [i \in Nat |-> [x \in D |->
                        IF i \in 1 .. n /\ lines[i].git THEN Append(x, lines[i]) ELSE x]]
    OBVIOUS
  <2>3. step \in [Nat -> [D -> D]]
    <3>1. \A i \in 1 .. n : lines[i] \in LogLines BY <1>1
    <3>2. \A i \in Nat, x \in D : (IF i \in 1 .. n /\ lines[i].git THEN Append(x, lines[i]) ELSE x) \in D
      BY <2>1, <3>1
    <3> QED BY <2>2, <3>2
  <2>4. <<>> \in D BY <2>1
  <2>5. PICK g \in [Nat -> D] : \A m \in Nat : Recurses(<<>>, step, m, g) BY <2>3, <2>4, RecursionExists
  <2>6. g[0] = <<>> /\ \A i \in 1 .. n : g[i] = step[i][g[i - 1]] BY <2>5 DEF Recurses
  <2>7. \A i \in 1 .. n : g[i] = IF lines[i].git THEN Append(g[i - 1], lines[i]) ELSE g[i - 1]
    <3> SUFFICES ASSUME NEW i \in 1 .. n
                 PROVE  g[i] = IF lines[i].git THEN Append(g[i - 1], lines[i]) ELSE g[i - 1]
      OBVIOUS
    <3>1. i \in Nat /\ i - 1 \in Nat OBVIOUS
    <3>2. PICK x \in D : x = g[i - 1] BY <2>5, <3>1
    <3>3. step[i][x] = IF i \in 1 .. n /\ lines[i].git THEN Append(x, lines[i]) ELSE x BY <2>2, <3>1
    <3> QED BY <2>6, <3>2, <3>3
  <2>8. PICK f : f = [i \in 0 .. n |-> g[i]] OBVIOUS
  <2>9. f = [i \in 0 .. n |-> IF i = 0 THEN <<>>
                               ELSE IF lines[i].git THEN Append(f[i - 1], lines[i]) ELSE f[i - 1]]
    <3>1. \A i \in 0 .. n : i # 0 => i \in 1 .. n /\ i - 1 \in 0 .. n OBVIOUS
    <3> QED BY <2>6, <2>7, <2>8, <3>1
  <2>10. GitStep(lines, f) BY <1>1, <2>9 DEF GitStep
  <2> QED BY <2>10
<1>4. PICK c : c = CHOOSE f : GitStep(lines, f) OBVIOUS
<1>5. GitStep(lines, c) BY <1>3, <1>4
<1>6. /\ c[0] = <<>>
      /\ \A i \in 1 .. n : c[i] = IF lines[i].git THEN Append(c[i - 1], lines[i]) ELSE c[i - 1]
  <2>1. 0 \in 0 .. n /\ \A i \in 1 .. n : i \in 0 .. n /\ i # 0 OBVIOUS
  <2>2. c = [i \in 0 .. n |-> IF i = 0 THEN <<>>
                               ELSE IF lines[i].git THEN Append(c[i - 1], lines[i]) ELSE c[i - 1]]
    BY <1>1, <1>5 DEF GitStep
  <2> QED BY <2>1, <2>2
<1> DEFINE T == {i \in Nat : i <= n => Selects(lines, i, c[i])}
<1>7. 0 \in T BY <1>6, SelectsNone
<1>8. \A i \in Nat : i \in T => i + 1 \in T
  <2> SUFFICES ASSUME NEW i \in Nat, i \in T, i + 1 <= n PROVE Selects(lines, i + 1, c[i + 1]) OBVIOUS
  <2>1. Selects(lines, i, c[i]) OBVIOUS
  <2>2. i + 1 \in 1 .. n /\ (i + 1) - 1 = i OBVIOUS
  <2>3. c[i + 1] = IF lines[i + 1].git THEN Append(c[i], lines[i + 1]) ELSE c[i] BY <1>6, <2>2
  <2>4. i + 1 <= Len(lines) BY <1>1
  <2> QED BY <2>1, <2>3, <2>4, SelectsLine
<1>9. Nat \subseteq T
  <2> HIDE DEF T
  <2> QED BY <1>7, <1>8, NaturalsGrow
<1>10. Selects(lines, n, c[n]) BY <1>9
<1> QED BY <1>1, <1>2, <1>4, <1>10

-----------------------------------------------------------------------------
(* All lines of the files, from the last file to the first                 *)
FlatStep(seqs, f) == f = [i \in 1 .. Len(seqs) |-> IF i = 1 THEN seqs[i] ELSE f[i - 1] \o seqs[i]]
Flattens(seqs, n, c, flat) ==
    /\ c[1] = seqs[1]
    /\ \A i \in 2 .. n : c[i] = c[i - 1] \o seqs[i]
    /\ flat = c[n]

LEMMA FlattenSteps ==
    ASSUME NEW seqs \in Seq(Seq(LogLines)), NEW n \in Nat, n = Len(seqs), n # 0
    PROVE  \E c : Flattens(seqs, n, c, FlattenSeq(seqs))
<1>1. FlattenSeq(seqs) = (CHOOSE f : FlatStep(seqs, f))[n] BY DEF FlattenSeq, FlatStep
<1>2. PICK D : D = Seq(LogLines) OBVIOUS
<1>3. \A i \in 1 .. n : seqs[i] \in D BY <1>2
<1>4. \E f : FlatStep(seqs, f)
  <2>1. PICK step : step = [i \in Nat |-> [x \in D |-> IF i \in 1 .. n THEN x \o seqs[i] ELSE x]] OBVIOUS
  <2>2. step \in [Nat -> [D -> D]]
    <3>1. \A i \in Nat, x \in D : (IF i \in 1 .. n THEN x \o seqs[i] ELSE x) \in D BY <1>2, <1>3
    <3> QED BY <2>1, <3>1
  <2>3. <<>> \in D BY <1>2
  <2>4. PICK g \in [Nat -> D] : \A m \in Nat : Recurses(<<>>, step, m, g) BY <2>2, <2>3, RecursionExists
  <2>5. g[0] = <<>> /\ \A i \in 1 .. n : g[i] = step[i][g[i - 1]] BY <2>4 DEF Recurses
  <2>6. \A i \in 1 .. n : g[i] = g[i - 1] \o seqs[i]
    <3> SUFFICES ASSUME NEW i \in 1 .. n PROVE g[i] = g[i - 1] \o seqs[i] OBVIOUS
    <3>1. i \in Nat /\ i - 1 \in Nat OBVIOUS
    <3>2. PICK x \in D : x = g[i - 1] BY <2>4, <3>1
    <3>3. step[i][x] = x \o seqs[i] BY <2>1, <3>1
    <3> QED BY <2>5, <3>2, <3>3
  <2>7. g[1] = seqs[1]
    <3>1. 1 \in 1 .. n /\ 1 - 1 = 0 OBVIOUS
    <3>2. g[1] = <<>> \o seqs[1] BY <2>5, <2>6, <3>1
    <3>3. PICK x \in Seq(LogLines) : x = seqs[1] BY <1>2, <1>3, <3>1
    <3>4. <<>> \o x = x OBVIOUS
    <3> QED BY <3>2, <3>3, <3>4
  <2>8. PICK f : f = [i \in 1 .. n |-> g[i]] OBVIOUS
  <2>9. f = [i \in 1 .. n |-> IF i = 1 THEN seqs[i] ELSE f[i - 1] \o seqs[i]]
    <3>1. \A i \in 1 .. n : i # 1 => i - 1 \in 1 .. n OBVIOUS
    <3> QED BY <2>6, <2>7, <2>8, <3>1
  <2>10. FlatStep(seqs, f) BY <2>9 DEF FlatStep
  <2> QED BY <2>10
<1>5. PICK c : c = CHOOSE f : FlatStep(seqs, f) OBVIOUS
<1>6. FlatStep(seqs, c) BY <1>4, <1>5
<1>7. c = [i \in 1 .. n |-> IF i = 1 THEN seqs[i] ELSE c[i - 1] \o seqs[i]] BY <1>6 DEF FlatStep
<1>8. 1 \in 1 .. n /\ \A i \in 2 .. n : i \in 1 .. n /\ i # 1 OBVIOUS
<1>9. c[1] = seqs[1] /\ \A i \in 2 .. n : c[i] = c[i - 1] \o seqs[i] BY <1>7, <1>8
<1>10. FlattenSeq(seqs) = c[n] BY <1>1, <1>5
<1> QED BY <1>9, <1>10 DEF Flattens

(* The lines of each file are numbered on from those of the file after it: *)
(* ends[i] is the number of the last line of file i.                        *)
FileNumbered(file, after, upto) ==
    after + Len(file) = upto /\ \A j \in 1 .. Len(file) : file[j].n = after + j
NumberedBy(ends, files, last, count) ==
    /\ ends \in [0 .. last + 1 -> Nat]
    /\ ends[0] = count
    /\ \A i \in 0 .. last : FileNumbered(files[i], ends[i + 1], ends[i])

LEMMA NoLineNumbered == ASSUME NEW x \in Nat PROVE FileNumbered(<<>>, x, x)
BY DEF FileNumbered

LineOf(line, files, last) == \E f \in 0 .. last : \E m \in 1 .. Len(files[f]) : line = files[f][m]

(* The last i files, one after the other.                                  *)
LastFiles(ends, files, last, i, out) ==
    /\ out \in Seq(LogLines)
    /\ ends[last + 1] + Len(out) = ends[last + 1 - i]
    /\ \A j \in 1 .. Len(out) : out[j].n = ends[last + 1] + j /\ LineOf(out[j], files, last)

LEMMA OneFileMore ==
    ASSUME NEW last \in Nat, NEW files \in [0 .. last -> Seq(LogLines)], NEW ends, NEW count,
           NumberedBy(ends, files, last, count), NEW i \in 0 .. last, NEW out,
           LastFiles(ends, files, last, i, out), NEW more, more = out \o files[last - i]
    PROVE  LastFiles(ends, files, last, i + 1, more)
<1>1. PICK f \in 0 .. last : f = last - i OBVIOUS
<1>2. PICK file \in Seq(LogLines) : file = files[f] BY <1>1
<1>3. last + 1 - i = f + 1 /\ last + 1 - (i + 1) = f /\ f + 1 \in 0 .. last + 1 /\ f \in 0 .. last + 1
      /\ last + 1 \in 0 .. last + 1
  BY <1>1
<1>4. PICK e0 \in Nat, e1 \in Nat, e2 \in Nat : e0 = ends[last + 1] /\ e1 = ends[f + 1] /\ e2 = ends[f]
  BY <1>3 DEF NumberedBy
<1>5. e1 + Len(file) = e2 /\ \A j \in 1 .. Len(file) : file[j].n = e1 + j
  BY <1>1, <1>2, <1>4 DEF NumberedBy, FileNumbered
<1>6. /\ out \in Seq(LogLines) /\ e0 + Len(out) = e1
      /\ \A j \in 1 .. Len(out) : out[j].n = e0 + j /\ LineOf(out[j], files, last)
  BY <1>3, <1>4 DEF LastFiles
<1>7. PICK a \in Nat, b \in Nat : a = Len(out) /\ b = Len(file) BY <1>6
<1>a. e0 + a = e1
  <2>1. e0 + Len(out) = e1 BY <1>6
  <2> QED BY <1>7, <2>1
<1>b. e1 + b = e2
  <2>1. e1 + Len(file) = e2 BY <1>5
  <2> QED BY <1>7, <2>1
<1>8. more = out \o file BY <1>1, <1>2
<1>9. /\ more \in Seq(LogLines) /\ Len(more) = a + b
      /\ \A j \in 1 .. a + b : more[j] = IF j <= a THEN out[j] ELSE file[j - a]
  BY <1>6, <1>7, <1>8
<1>10. ASSUME NEW j \in 1 .. a + b PROVE more[j].n = e0 + j /\ LineOf(more[j], files, last)
  <2>1. CASE j <= a
    <3>1. j \in 1 .. a BY <2>1
    <3> QED BY <1>6, <1>7, <1>9, <2>1, <3>1
  <2>2. CASE ~(j <= a)
    <3>1. PICK k \in 1 .. b : k = j - a BY <2>2
    <3>2. more[j] = file[k] BY <1>9, <2>2, <3>1
    <3>3. file[k].n = e1 + k BY <1>5, <1>7
    <3>4. e1 + k = e0 + j BY <1>a, <3>1
    <3>5. LineOf(file[k], files, last) BY <1>2, <1>7 DEF LineOf
    <3> QED BY <3>2, <3>3, <3>4, <3>5
  <2> QED BY <2>1, <2>2
<1>11. e0 + (a + b) = e2 BY <1>a, <1>b
<1> QED BY <1>3, <1>4, <1>9, <1>10, <1>11 DEF LastFiles

LEMMA AllLinesEnd ==
    ASSUME NEW last \in Nat, last = rotation.files, logFiles \in [0 .. last -> Seq(LogLines)], NEW ends,
           NumberedBy(ends, logFiles, last, lineCount)
    PROVE  LastFiles(ends, logFiles, last, last + 1, AllLines)
<1>a. PICK forth : forth = [i \in 1 .. (last + 1) |-> logFiles[i - 1]] OBVIOUS
<1>1. PICK seqs : seqs = Reverse(forth) OBVIOUS
<1>2. PICK n \in Nat : n = last + 1 /\ n # 0 OBVIOUS
<1>3. /\ seqs \in Seq(Seq(LogLines)) /\ Len(seqs) = n
      /\ \A i \in 1 .. n : seqs[i] = logFiles[n - i]
  <2>1. forth = [i \in 1 .. n |-> logFiles[i - 1]] BY <1>a, <1>2
  <2>2. \A i \in 1 .. n : i - 1 \in 0 .. last BY <1>2
  <2>3. forth \in [1 .. n -> Seq(LogLines)] BY <2>1, <2>2
  <2>4. Len(forth) = n BY <2>1
  <2>5. seqs = [i \in 1 .. n |-> forth[n - i + 1]] BY <1>1, <2>4 DEF Reverse
  <2>6. \A i \in 1 .. n : n - i + 1 \in 1 .. n /\ (n - i + 1) - 1 = n - i OBVIOUS
  <2>7. \A i \in 1 .. n : forth[n - i + 1] = logFiles[n - i] /\ forth[n - i + 1] \in Seq(LogLines)
    BY <2>1, <2>3, <2>6
  <2> QED BY <2>5, <2>7
<1>4. PICK c : Flattens(seqs, n, c, FlattenSeq(seqs)) BY <1>2, <1>3, FlattenSteps
<1>5. c[1] = seqs[1] /\ (\A i \in 2 .. n : c[i] = c[i - 1] \o seqs[i]) /\ FlattenSeq(seqs) = c[n]
  BY <1>4 DEF Flattens
<1>6. LastFiles(ends, logFiles, last, 0, <<>>)
  <2>1. PICK e \in Nat : e = ends[last + 1] BY DEF NumberedBy
  <2>2. last + 1 - 0 = last + 1 OBVIOUS
  <2> QED BY <2>1, <2>2 DEF LastFiles
<1> DEFINE T == {i \in Nat : i + 1 <= n => LastFiles(ends, logFiles, last, i + 1, c[i + 1])}
<1>7. 0 \in T
  <2>1. 0 \in 0 .. last /\ 1 \in 1 .. n /\ n - 1 = last - 0 BY <1>2
  <2>2. PICK file \in Seq(LogLines) : file = logFiles[last - 0] BY <2>1
  <2>3. <<>> \o file = file OBVIOUS
  <2>4. c[1] = <<>> \o logFiles[last - 0] BY <1>3, <1>5, <2>1, <2>2, <2>3
  <2>5. LastFiles(ends, logFiles, last, 0 + 1, c[1]) BY <1>6, <2>1, <2>4, OneFileMore
  <2> QED BY <2>5
<1>8. \A i \in Nat : i \in T => i + 1 \in T
  <2> SUFFICES ASSUME NEW i \in Nat, i \in T, (i + 1) + 1 <= n
               PROVE  LastFiles(ends, logFiles, last, (i + 1) + 1, c[(i + 1) + 1])
    OBVIOUS
  <2>1. PICK k \in 0 .. last : k = i + 1 BY <1>2
  <2>2. LastFiles(ends, logFiles, last, k, c[k]) BY <2>1
  <2>3. k + 1 \in 2 .. n /\ k + 1 \in 1 .. n /\ (k + 1) - 1 = k /\ n - (k + 1) = last - k BY <1>2, <2>1
  <2>4. c[k + 1] = c[k] \o logFiles[last - k] BY <1>3, <1>5, <2>3
  <2>5. LastFiles(ends, logFiles, last, k + 1, c[k + 1]) BY <2>2, <2>4, OneFileMore
  <2> QED BY <2>1, <2>5
<1>9. Nat \subseteq T
  <2> HIDE DEF T
  <2> QED BY <1>7, <1>8, NaturalsGrow
<1>10. LastFiles(ends, logFiles, last, n, c[n])
  <2>1. last \in T BY <1>9
  <2> QED BY <1>2, <2>1
<1>11. AllLines = c[n] BY <1>a, <1>1, <1>5 DEF AllLines
<1> QED BY <1>2, <1>10, <1>11

-----------------------------------------------------------------------------
(* Rotations                                                               *)
(* No file is longer than it may be but with a single line.                *)
FilesFit(bytes, files, last) ==
    bytes > 0 => \A i \in 0 .. last : SizeOf(files[i]) <= bytes \/ Len(files[i]) = 1

(* Files that are all among those there were, or empty.                    *)
FilesFrom(more, files, last) ==
    \A i \in 0 .. last : more[i] = <<>> \/ \E g \in 0 .. last : more[i] = files[g]

LEMMA FromFiles ==
    ASSUME NEW last \in Nat, NEW files \in [0 .. last -> Seq(LogLines)], NEW more, FilesFrom(more, files, last),
           NEW bytes \in Nat, FilesFit(bytes, files, last)
    PROVE  /\ \A i \in 0 .. last : more[i] \in Seq(LogLines)
           /\ FilesFit(bytes, more, last)
           /\ \A line : LineOf(line, more, last) => LineOf(line, files, last)
<1>1. Len(<<>>) = 0 /\ <<>> \in Seq(LogLines) OBVIOUS
<1>2. \A i \in 0 .. last : more[i] \in Seq(LogLines) BY <1>1 DEF FilesFrom
<1>3. FilesFit(bytes, more, last)
  <2> SUFFICES ASSUME bytes > 0, NEW i \in 0 .. last PROVE SizeOf(more[i]) <= bytes \/ Len(more[i]) = 1
    BY DEF FilesFit
  <2>1. CASE more[i] = <<>> BY <2>1, SizeOfNone
  <2>2. CASE \E g \in 0 .. last : more[i] = files[g] BY <2>2 DEF FilesFit
  <2> QED BY <2>1, <2>2 DEF FilesFrom
<1>4. ASSUME NEW line, LineOf(line, more, last) PROVE LineOf(line, files, last)
  <2>1. PICK i \in 0 .. last : \E m \in 1 .. Len(more[i]) : line = more[i][m] BY <1>4 DEF LineOf
  <2>2. more[i] # <<>> BY <1>1, <2>1
  <2>3. PICK g \in 0 .. last : more[i] = files[g] BY <2>2 DEF FilesFrom
  <2> QED BY <2>1, <2>3 DEF LineOf
<1> QED BY <1>2, <1>3, <1>4

(* The last file goes.                                                     *)
LEMMA LastGoes ==
    ASSUME NEW last \in Nat, NEW files \in [0 .. last -> Seq(LogLines)], NEW ends, NEW count,
           NumberedBy(ends, files, last, count), NEW more, more = [files EXCEPT ![last] = <<>>]
    PROVE  \E e : NumberedBy(e, more, last, count)
<1>1. /\ ends \in [0 .. last + 1 -> Nat] /\ ends[0] = count
      /\ \A i \in 0 .. last : FileNumbered(files[i], ends[i + 1], ends[i])
  BY DEF NumberedBy
<1>2. PICK e : e = [ends EXCEPT ![last + 1] = ends[last]] OBVIOUS
<1>3. /\ e \in [0 .. last + 1 -> Nat] /\ e[last + 1] = ends[last]
      /\ \A i \in 0 .. last : e[i] = ends[i] /\ (i # last => e[i + 1] = ends[i + 1])
  <2>1. last \in 0 .. last + 1 /\ last + 1 \in 0 .. last + 1 OBVIOUS
  <2>2. \A i \in 0 .. last : i \in 0 .. last + 1 /\ i + 1 \in 0 .. last + 1 /\ i # last + 1 OBVIOUS
  <2>3. \A i \in 0 .. last : i # last => i + 1 # last + 1 OBVIOUS
  <2> QED BY <1>1, <1>2, <2>1, <2>2, <2>3
<1>4. e[0] = count BY <1>1, <1>3
<1>5. ASSUME NEW i \in 0 .. last
      PROVE  FileNumbered(more[i], e[i + 1], e[i])
  <2>1. CASE i = last
    <3>1. more[i] = <<>> BY <2>1
    <3>2. PICK x \in Nat : x = ends[last] BY <1>1
    <3>3. e[i + 1] = x /\ e[i] = x BY <1>3, <2>1, <3>2
    <3> QED BY <3>1, <3>3, NoLineNumbered
  <2>2. CASE i # last
    <3>1. more[i] = files[i] BY <2>2
    <3> QED BY <1>1, <1>3, <2>2, <3>1
  <2> QED BY <2>1, <2>2
<1>6. NumberedBy(e, more, last, count) BY <1>3, <1>4, <1>5 DEF NumberedBy
<1> QED BY <1>6

(* A file moves on to an empty place.                                      *)
LEMMA OneMovesOn ==
    ASSUME NEW last \in Nat, NEW files \in [0 .. last -> Seq(LogLines)], NEW ends, NEW count,
           NumberedBy(ends, files, last, count), NEW p \in 0 .. last, p + 1 <= last, files[p + 1] = <<>>,
           NEW more, more = [files EXCEPT ![p + 1] = files[p], ![p] = <<>>]
    PROVE  \E e : NumberedBy(e, more, last, count)
<1>1. /\ ends \in [0 .. last + 1 -> Nat] /\ ends[0] = count
      /\ \A i \in 0 .. last : FileNumbered(files[i], ends[i + 1], ends[i])
  BY DEF NumberedBy
<1>2. PICK e : e = [ends EXCEPT ![p + 1] = ends[p]] OBVIOUS
<1>3. /\ e \in [0 .. last + 1 -> Nat] /\ e[p + 1] = ends[p]
      /\ \A i \in 0 .. last + 1 : i # p + 1 => e[i] = ends[i]
  <2>1. p \in 0 .. last + 1 /\ p + 1 \in 0 .. last + 1 OBVIOUS
  <2> QED BY <1>1, <1>2, <2>1
<1>4. e[0] = count
  <2>1. 0 \in 0 .. last + 1 /\ 0 # p + 1 OBVIOUS
  <2> QED BY <1>1, <1>3, <2>1
<1>5. p \in 0 .. last /\ p + 1 \in 0 .. last /\ p # p + 1 OBVIOUS
<1>6. more[p] = <<>> /\ more[p + 1] = files[p] /\ \A i \in 0 .. last : i # p /\ i # p + 1 => more[i] = files[i]
  BY <1>5
<1>7. PICK x \in Nat, y \in Nat, z \in Nat : x = ends[p] /\ y = ends[p + 1] /\ z = ends[(p + 1) + 1]
  <2>1. p \in 0 .. last + 1 /\ p + 1 \in 0 .. last + 1 /\ (p + 1) + 1 \in 0 .. last + 1 OBVIOUS
  <2> QED BY <1>1, <2>1
<1>8. z = y
  <2>1. FileNumbered(<<>>, z, y) BY <1>1, <1>5, <1>7
  <2>2. z + Len(<<>>) = y /\ Len(<<>>) = 0 BY <2>1 DEF FileNumbered
  <2> QED BY <2>1, <2>2
<1>9. ASSUME NEW i \in 0 .. last
      PROVE  FileNumbered(more[i], e[i + 1], e[i])
  <2>1. CASE i = p
    <3>1. more[i] = <<>> BY <1>6, <2>1
    <3>2. e[i + 1] = x /\ e[i] = x
      <4>1. p \in 0 .. last + 1 BY <1>5
      <4> QED BY <1>3, <1>5, <1>7, <2>1, <4>1
    <3> QED BY <3>1, <3>2, NoLineNumbered
  <2>2. CASE i = p + 1
    <3>1. more[i] = files[p] BY <1>6, <2>2
    <3>2. e[i] = x /\ e[i + 1] = y
      <4>1. (p + 1) + 1 \in 0 .. last + 1 /\ (p + 1) + 1 # p + 1 OBVIOUS
      <4> QED BY <1>3, <1>7, <1>8, <2>2, <4>1
    <3>3. FileNumbered(files[p], y, x) BY <1>1, <1>7
    <3> QED BY <3>1, <3>2, <3>3
  <2>3. CASE i # p /\ i # p + 1
    <3>1. more[i] = files[i] BY <1>6, <2>3
    <3>2. e[i] = ends[i] /\ e[i + 1] = ends[i + 1]
      <4>1. i \in 0 .. last + 1 /\ i + 1 \in 0 .. last + 1 /\ i + 1 # p + 1 BY <2>3
      <4> QED BY <1>3, <2>3, <4>1
    <3> QED BY <1>1, <3>1, <3>2
  <2> QED BY <2>1, <2>2, <2>3
<1>10. NumberedBy(e, more, last, count) BY <1>3, <1>4, <1>9 DEF NumberedBy
<1> QED BY <1>10

(* A line is written to the first file.                                    *)
LEMMA OneWritten ==
    ASSUME NEW last \in Nat, NEW files \in [0 .. last -> Seq(LogLines)], NEW ends, NEW count \in Nat,
           NumberedBy(ends, files, last, count), NEW item \in LogLines, item.n = count + 1,
           NEW more, more = [files EXCEPT ![0] = Append(files[0], item)]
    PROVE  \E e : NumberedBy(e, more, last, count + 1)
<1>1. /\ ends \in [0 .. last + 1 -> Nat] /\ ends[0] = count
      /\ \A i \in 0 .. last : FileNumbered(files[i], ends[i + 1], ends[i])
  BY DEF NumberedBy
<1>2. PICK e : e = [ends EXCEPT ![0] = count + 1] OBVIOUS
<1>3. /\ e \in [0 .. last + 1 -> Nat] /\ e[0] = count + 1
      /\ \A i \in 0 .. last + 1 : i # 0 => e[i] = ends[i]
  BY <1>1, <1>2
<1>4. ASSUME NEW i \in 0 .. last
      PROVE  FileNumbered(more[i], e[i + 1], e[i])
  <2>0. i + 1 \in 0 .. last + 1 /\ i + 1 # 0 /\ i \in 0 .. last + 1 OBVIOUS
  <2>a. e[i + 1] = ends[i + 1] BY <1>3, <2>0
  <2>1. CASE i = 0
    <3>1. PICK file \in Seq(LogLines) : file = files[0] BY <2>1
    <3>2. PICK n \in Nat : n = Len(file) OBVIOUS
    <3>3. more[0] = Append(file, item) BY <2>1, <3>1
    <3>4. PICK y \in Nat : y = ends[i + 1] BY <1>1, <2>0
    <3>5. y + n = count /\ \A j \in 1 .. n : file[j].n = y + j
      <4>1. FileNumbered(file, y, count) BY <1>1, <2>1, <3>1, <3>4
      <4> QED BY <3>2, <4>1 DEF FileNumbered
    <3>6. Len(more[0]) = n + 1 /\ more[0][n + 1] = item /\ \A j \in 1 .. n : more[0][j] = file[j]
      <4>1. PICK longer : longer = Append(file, item) OBVIOUS
      <4>2. Len(longer) = n + 1 /\ longer[n + 1] = item /\ \A j \in 1 .. n : longer[j] = file[j]
        BY <3>2, <4>1
      <4> QED BY <3>3, <4>1, <4>2
    <3>7. y + (n + 1) = count + 1 BY <3>5
    <3>8. ASSUME NEW j \in 1 .. n + 1 PROVE more[0][j].n = y + j
      <4>1. CASE j \in 1 .. n BY <3>5, <3>6, <4>1
      <4>2. CASE j = n + 1 BY <3>6, <3>7, <4>2
      <4>3. j \in 1 .. n \/ j = n + 1 OBVIOUS
      <4> QED BY <4>1, <4>2, <4>3
    <3>9. e[i + 1] = y /\ e[i] = count + 1 BY <1>3, <2>1, <2>a, <3>4
    <3>10. FileNumbered(more[0], y, count + 1) BY <3>6, <3>7, <3>8 DEF FileNumbered
    <3> QED BY <2>1, <3>9, <3>10
  <2>2. CASE i # 0
    <3>1. more[i] = files[i] BY <2>2
    <3>2. e[i] = ends[i] BY <1>3, <2>0, <2>2
    <3> QED BY <1>1, <2>a, <3>1, <3>2
  <2> QED BY <2>1, <2>2
<1>5. NumberedBy(e, more, last, count + 1) BY <1>3, <1>4 DEF NumberedBy
<1> QED BY <1>5

(* No line of an older file is as new as a line of the first.              *)
LEMMA EndsFall ==
    ASSUME NEW last \in Nat, NEW files \in [0 .. last -> Seq(LogLines)], NEW ends, NEW count,
           NumberedBy(ends, files, last, count), NEW f \in 1 .. last
    PROVE  ends[f] \in Nat /\ ends[1] \in Nat /\ ends[f] <= ends[1]
<1>1. /\ ends \in [0 .. last + 1 -> Nat]
      /\ \A i \in 0 .. last : ends[i + 1] + Len(files[i]) = ends[i]
  BY DEF NumberedBy, FileNumbered
<1> DEFINE T == {i \in Nat : i + 1 <= last + 1 => ends[i + 1] <= ends[1]}
<1>2. 1 \in 0 .. last + 1 /\ f \in 0 .. last + 1 OBVIOUS
<1>3. ends[f] \in Nat /\ ends[1] \in Nat BY <1>1, <1>2
<1>4. 0 \in T BY <1>3
<1>5. \A i \in Nat : i \in T => i + 1 \in T
  <2> SUFFICES ASSUME NEW i \in Nat, i \in T, (i + 1) + 1 <= last + 1 PROVE ends[(i + 1) + 1] <= ends[1]
    OBVIOUS
  <2>1. PICK k \in 0 .. last : k = i + 1 OBVIOUS
  <2>2. ends[k] <= ends[1] BY <2>1
  <2>3. k \in 0 .. last + 1 /\ k + 1 \in 0 .. last + 1 OBVIOUS
  <2>4. PICK x \in Nat, y \in Nat, z \in Nat : x = ends[k] /\ y = ends[k + 1] /\ z = Len(files[k])
    <3>1. PICK file \in Seq(LogLines) : file = files[k] OBVIOUS
    <3>2. Len(file) \in Nat OBVIOUS
    <3>3. ends[k] \in Nat /\ ends[k + 1] \in Nat BY <1>1, <2>3
    <3> QED BY <3>1, <3>2, <3>3
  <2>5. y + z = x BY <1>1, <2>4
  <2>6. y <= x BY <2>5
  <2> QED BY <1>3, <2>1, <2>2, <2>4, <2>6
<1>6. Nat \subseteq T
  <2> HIDE DEF T
  <2> QED BY <1>4, <1>5, NaturalsGrow
<1>7. ends[f] <= ends[1]
  <2>1. PICK i \in Nat : f = i + 1 /\ i + 1 <= last + 1
    <3>1. f - 1 \in Nat /\ f = (f - 1) + 1 /\ f <= last + 1 OBVIOUS
    <3> QED BY <3>1
  <2>2. i \in T BY <1>6
  <2> QED BY <2>1, <2>2
<1> QED BY <1>3, <1>7

-----------------------------------------------------------------------------
(* The inductive invariant                                                 *)
LogSpec == LogInit /\ [][LogNext]_logVars

LogMessages == [size : Nat, git : BOOLEAN]
LogTyped ==
    /\ rotation \in [bytes : Nat, files : Nat]
    /\ logFiles \in [0 .. rotation.files -> Seq(LogLines)]
    /\ lineCount \in Nat
    /\ appending \in [pc : {"idle", "rotate", "write"}, message : LogMessages, index : Nat]
    /\ recent \in [read : {"lines", "exit codes"}, lines : Seq(LogLines), written : Nat]

(* A rotation goes from the last file to the first and leaves its place    *)
(* empty; what is about to be written fits.                                 *)
AppendHolds ==
    /\ appending.pc = "write" => Fits(appending.message)
    /\ appending.pc = "rotate" =>
          /\ appending.index \in 0 .. rotation.files
          /\ appending.index < rotation.files => logFiles[appending.index + 1] = <<>>

(* Of the lines since the first that is shown, those of Git are shown.     *)
Shown(line, lines, upto) ==
    \A i \in 1 .. Len(lines) : line.git /\ line.n \in lines[i].n .. upto =>
        \E k \in 1 .. Len(lines) : lines[k] = line
RecentHolds(shown, files, last, count) ==
    /\ shown.read = "lines" => EndsWith(shown.lines, shown.written)
    /\ shown.read # "lines" => /\ shown.written <= count
                              /\ \A line : LineOf(line, files, last) => Shown(line, shown.lines, shown.written)

LogInv ==
    /\ LogTyped
    /\ AppendHolds
    /\ \E ends : NumberedBy(ends, logFiles, rotation.files, lineCount)
    /\ FilesFit(rotation.bytes, logFiles, rotation.files)
    /\ RecentHolds(recent, logFiles, rotation.files, lineCount)

LEMMA LogInitially == LogInit => LogInv
<1> SUFFICES ASSUME LogInit PROVE LogInv OBVIOUS
<1>1. /\ rotation \in [bytes : Nat, files : Nat] /\ logFiles = [i \in 0 .. rotation.files |-> <<>>] /\ lineCount = 0
      /\ appending = [pc |-> "idle", message |-> [size |-> 0, git |-> FALSE], index |-> 0]
      /\ recent = [read |-> "lines", lines |-> <<>>, written |-> 0]
  BY LogAssumption DEF LogInit, NoAppend
<1>2. PICK last \in Nat : last = rotation.files BY <1>1
<1>3. LogTyped BY <1>1, <1>2 DEF LogTyped, LogMessages
<1>4. AppendHolds BY <1>1 DEF AppendHolds
<1>5. \E ends : NumberedBy(ends, logFiles, rotation.files, lineCount)
  <2>1. PICK ends : ends = [i \in 0 .. last + 1 |-> 0] OBVIOUS
  <2>2. \A i \in 0 .. last : i \in 0 .. last + 1 /\ i + 1 \in 0 .. last + 1 OBVIOUS
  <2>3. \A i \in 0 .. last : logFiles[i] = <<>> /\ ends[i] = 0 /\ ends[i + 1] = 0 BY <1>1, <1>2, <2>1, <2>2
  <2>4. \A i \in 0 .. last : FileNumbered(logFiles[i], ends[i + 1], ends[i])
    <3>1. FileNumbered(<<>>, 0, 0) BY NoLineNumbered
    <3> QED BY <2>3, <3>1
  <2>5. ends \in [0 .. last + 1 -> Nat] /\ ends[0] = 0 BY <2>1
  <2>6. NumberedBy(ends, logFiles, last, 0) BY <2>4, <2>5 DEF NumberedBy
  <2> QED BY <1>1, <1>2, <2>6
<1>6. FilesFit(rotation.bytes, logFiles, rotation.files)
  <2>1. \A i \in 0 .. rotation.files : logFiles[i] = <<>> BY <1>1
  <2>2. rotation.bytes \in Nat BY <1>1
  <2> QED BY <2>1, <2>2, SizeOfNone DEF FilesFit
<1>7. RecentHolds(recent, logFiles, rotation.files, lineCount) BY <1>1 DEF RecentHolds, EndsWith
<1> QED BY <1>3, <1>4, <1>5, <1>6, <1>7 DEF LogInv

(* The parts of the state.                                                 *)
LEMMA LogParts ==
    ASSUME LogInv
    PROVE  /\ rotation.files \in Nat /\ rotation.bytes \in Nat
           /\ logFiles \in [0 .. rotation.files -> Seq(LogLines)] /\ lineCount \in Nat
           /\ appending.pc \in {"idle", "rotate", "write"} /\ appending.message \in LogMessages
           /\ appending.index \in Nat
           /\ appending = [pc |-> appending.pc, message |-> appending.message, index |-> appending.index]
BY DEF LogInv, LogTyped

LEMMA BeginKeeps == ASSUME LogInv, BeginAppend PROVE LogInv'
<1>1. UNCHANGED <<rotation, logFiles, lineCount, recent>> BY DEF BeginAppend
<1>2. PICK message \in Messages :
        appending' = [pc |-> IF Fits(message) THEN "write" ELSE "rotate",
                      message |-> message, index |-> rotation.files]
  BY DEF BeginAppend
<1>3. message \in LogMessages /\ rotation.files \in Nat BY LogAssumption, LogParts DEF LogMessages
<1>4. LogTyped'
  <2>1. appending' \in [pc : {"idle", "rotate", "write"}, message : LogMessages, index : Nat] BY <1>2, <1>3
  <2> QED BY <1>1, <2>1 DEF LogInv, LogTyped
<1>5. AppendHolds'
  <2>1. appending'.message = message /\ appending'.index = rotation.files
        /\ appending'.pc = IF Fits(message) THEN "write" ELSE "rotate"
    BY <1>2
  <2>2. CASE Fits(message)
    <3>1. appending'.pc = "write" BY <2>1, <2>2
    <3>2. Fits(message)' BY <1>1, <2>2 DEF Fits
    <3>3. Fits(appending.message)' BY <2>1, <3>2 DEF Fits
    <3> QED BY <3>1, <3>3 DEF AppendHolds
  <2>3. CASE ~Fits(message)
    <3>1. appending'.pc = "rotate" BY <2>1, <2>3
    <3> QED BY <1>1, <1>3, <2>1, <3>1 DEF AppendHolds
  <2> QED BY <2>2, <2>3
<1> QED BY <1>1, <1>4, <1>5 DEF LogInv

LEMMA FailureKeeps == ASSUME LogInv, AppendFails PROVE LogInv'
<1>1. UNCHANGED <<rotation, logFiles, lineCount, recent>> /\ appending' = NoAppend BY DEF AppendFails
<1>2. LogTyped' BY <1>1 DEF LogInv, LogTyped, NoAppend, LogMessages
<1>3. AppendHolds' BY <1>1 DEF AppendHolds, NoAppend
<1> QED BY <1>1, <1>2, <1>3 DEF LogInv

(* One step of a rotation, whatever file it is about.                      *)
LEMMA RotateMoves ==
    ASSUME LogInv, RotateNext, NEW last, last = rotation.files
    PROVE  /\ FilesFrom(logFiles', logFiles, last)
           /\ logFiles' \in [0 .. last -> Seq(LogLines)]
           /\ logFiles'[appending.index] = <<>>
           /\ \E ends : NumberedBy(ends, logFiles', last, lineCount)
           /\ appending.index \in 0 .. last
<1>1. /\ last \in Nat /\ logFiles \in [0 .. last -> Seq(LogLines)]
      /\ appending.pc = "rotate" /\ appending.index \in 0 .. last
      /\ appending.index < last => logFiles[appending.index + 1] = <<>>
  BY LogParts DEF LogInv, AppendHolds, RotateNext
<1>2. PICK p \in 0 .. last : p = appending.index BY <1>1
<1>3. PICK ends : NumberedBy(ends, logFiles, last, lineCount) BY DEF LogInv
<1>4. PICK more : more = logFiles' OBVIOUS
<1>5. more = IF p = last THEN [logFiles EXCEPT ![p] = <<>>]
             ELSE IF logFiles[p] = <<>> THEN logFiles
             ELSE [logFiles EXCEPT ![p + 1] = logFiles[p], ![p] = <<>>]
  BY <1>2, <1>4 DEF RotateNext, Moved
<1>6. /\ FilesFrom(more, logFiles, last) /\ more \in [0 .. last -> Seq(LogLines)] /\ more[p] = <<>>
      /\ \E e : NumberedBy(e, more, last, lineCount)
  <2>1. CASE p = last
    <3>1. more = [logFiles EXCEPT ![last] = <<>>] BY <1>5, <2>1
    <3>2. FilesFrom(more, logFiles, last) BY <1>1, <3>1 DEF FilesFrom
    <3>3. more \in [0 .. last -> Seq(LogLines)] /\ more[p] = <<>> BY <1>1, <2>1, <3>1
    <3>4. \E e : NumberedBy(e, more, last, lineCount) BY <1>1, <1>3, <3>1, LastGoes
    <3> QED BY <3>2, <3>3, <3>4
  <2>2. CASE p # last /\ logFiles[p] = <<>>
    <3>1. more = logFiles BY <1>5, <2>2
    <3>2. FilesFrom(more, logFiles, last) BY <3>1 DEF FilesFrom
    <3> QED BY <1>1, <1>3, <2>2, <3>1, <3>2
  <2>3. CASE p # last /\ logFiles[p] # <<>>
    <3>1. more = [logFiles EXCEPT ![p + 1] = logFiles[p], ![p] = <<>>] BY <1>5, <2>3
    <3>2. p + 1 <= last /\ p + 1 \in 0 .. last /\ p < last BY <1>1, <2>3
    <3>3. logFiles[p + 1] = <<>> BY <1>1, <1>2, <3>2
    <3>4. FilesFrom(more, logFiles, last)
      <4>1. \A i \in 0 .. last : more[i] = IF i = p THEN <<>> ELSE IF i = p + 1 THEN logFiles[p] ELSE logFiles[i]
        BY <1>1, <3>1
      <4> QED BY <4>1 DEF FilesFrom
    <3>5. more \in [0 .. last -> Seq(LogLines)] /\ more[p] = <<>>
      <4>1. logFiles[p] \in Seq(LogLines) /\ <<>> \in Seq(LogLines) BY <1>1
      <4> QED BY <1>1, <3>1, <4>1
    <3>6. \E e : NumberedBy(e, more, last, lineCount) BY <1>1, <1>3, <3>1, <3>2, <3>3, OneMovesOn
    <3> QED BY <3>4, <3>5, <3>6
  <2> QED BY <2>1, <2>2, <2>3
<1> QED BY <1>1, <1>2, <1>4, <1>6

LEMMA RotateKeeps == ASSUME LogInv, RotateNext PROVE LogInv'
<1>1. UNCHANGED <<rotation, lineCount, recent>> /\ appending.pc = "rotate" BY DEF RotateNext
<1>2. PICK last : last = rotation.files OBVIOUS
<1>3. PICK more : more = logFiles' OBVIOUS
<1>4. PICK p : p = appending.index OBVIOUS
<1>5. /\ FilesFrom(more, logFiles, last) /\ more \in [0 .. last -> Seq(LogLines)]
      /\ more[p] = <<>> /\ \E ends : NumberedBy(ends, more, last, lineCount) /\ p \in 0 .. last
  BY <1>2, <1>3, <1>4, RotateMoves
<1>6. appending' = IF p = 0 THEN [appending EXCEPT !.pc = "write"] ELSE [appending EXCEPT !.index = @ - 1]
  BY <1>4 DEF RotateNext
<1>7. /\ last \in Nat /\ rotation.bytes \in Nat /\ logFiles \in [0 .. last -> Seq(LogLines)]
      /\ FilesFit(rotation.bytes, logFiles, last)
  BY <1>2, LogParts DEF LogInv
<1>8. /\ FilesFit(rotation.bytes, more, last)
      /\ \A line : LineOf(line, more, last) => LineOf(line, logFiles, last)
  BY <1>5, <1>7, FromFiles
<1>9. LogTyped' /\ AppendHolds'
  <2>1. appending = [pc |-> "rotate", message |-> appending.message, index |-> p]
        /\ appending.message \in LogMessages
    BY <1>1, <1>4, LogParts
  <2>2. CASE p = 0
    <3>1. appending' = [pc |-> "write", message |-> appending.message, index |-> 0] BY <1>6, <2>1, <2>2
    <3>2. LogTyped' BY <1>1, <1>2, <1>3, <1>5, <2>1, <3>1 DEF LogInv, LogTyped
    <3>3. logFiles'[0] = <<>> BY <1>3, <1>5, <2>2
    <3>4. AppendHolds' BY <3>1, <3>3 DEF AppendHolds, Fits
    <3> QED BY <3>2, <3>4
  <2>3. CASE p # 0
    <3>1. appending' = [pc |-> "rotate", message |-> appending.message, index |-> p - 1] BY <1>6, <2>1, <2>3
    <3>2. p - 1 \in Nat /\ p - 1 \in 0 .. last /\ (p - 1) + 1 = p BY <1>5, <1>7, <2>3
    <3>3. LogTyped' BY <1>1, <1>2, <1>3, <1>5, <2>1, <3>1, <3>2 DEF LogInv, LogTyped
    <3>4. AppendHolds' BY <1>1, <1>2, <1>3, <1>5, <3>1, <3>2 DEF AppendHolds
    <3> QED BY <3>3, <3>4
  <2> QED BY <2>2, <2>3
<1>10. RecentHolds(recent, more, last, lineCount)
  <2>1. RecentHolds(recent, logFiles, last, lineCount) BY <1>2 DEF LogInv
  <2> QED BY <1>8, <2>1 DEF RecentHolds
<1> QED BY <1>1, <1>2, <1>3, <1>5, <1>8, <1>9, <1>10 DEF LogInv

LEMMA LogWriteKeeps == ASSUME LogInv, WriteLine PROVE LogInv'
<1>1. UNCHANGED <<rotation, recent>> /\ appending.pc = "write" /\ appending' = NoAppend
      /\ lineCount' = lineCount + 1
  BY DEF WriteLine
<1>2. PICK last : last = rotation.files OBVIOUS
<1>3. PICK more : more = logFiles' OBVIOUS
<1>4. PICK item : item = [n |-> lineCount + 1, size |-> appending.message.size, git |-> appending.message.git]
  OBVIOUS
<1>5. more = [logFiles EXCEPT ![0] = Append(logFiles[0], item)] BY <1>3, <1>4 DEF WriteLine
<1>6. /\ last \in Nat /\ rotation.bytes \in Nat /\ logFiles \in [0 .. last -> Seq(LogLines)]
      /\ lineCount \in Nat /\ appending.message \in LogMessages
  BY <1>2, LogParts
<1>7. item \in LogLines /\ item.n = lineCount + 1 /\ item.size = appending.message.size
  BY <1>4, <1>6 DEF LogLines, LogMessages
<1>8. PICK file \in Seq(LogLines) : file = logFiles[0] BY <1>6
<1>9. PICK longer : longer = Append(file, item) OBVIOUS
<1>10. longer \in Seq(LogLines) /\ Len(longer) = Len(file) + 1 /\ longer[Len(file) + 1] = item
       /\ \A m \in 1 .. Len(file) : longer[m] = file[m]
  BY <1>7, <1>9
<1>11. /\ more \in [0 .. last -> Seq(LogLines)] /\ more[0] = longer
       /\ \A i \in 0 .. last : i # 0 => more[i] = logFiles[i]
  <2>1. more = [logFiles EXCEPT ![0] = longer] BY <1>5, <1>8, <1>9
  <2> QED BY <1>6, <1>10, <2>1
<1>12. \E e : NumberedBy(e, more, last, lineCount + 1)
  <2>1. PICK ends : NumberedBy(ends, logFiles, last, lineCount) BY <1>2 DEF LogInv
  <2> QED BY <1>5, <1>6, <1>7, <2>1, OneWritten
<1>13. FilesFit(rotation.bytes, more, last)
  <2> SUFFICES ASSUME rotation.bytes > 0, NEW i \in 0 .. last
               PROVE  SizeOf(more[i]) <= rotation.bytes \/ Len(more[i]) = 1
    BY DEF FilesFit
  <2>1. CASE i = 0
    <3>1. Fits(appending.message) BY <1>1 DEF LogInv, AppendHolds
    <3>2. file = <<>> \/ SizeOf(file) + item.size <= rotation.bytes BY <1>6, <1>7, <1>8, <3>1 DEF Fits
    <3>3. SizeOf(longer) = SizeOf(file) + item.size BY <1>7, <1>9, SizeOfMore
    <3>4. file = <<>> => Len(longer) = 1 BY <1>9
    <3> QED BY <1>11, <2>1, <3>2, <3>3, <3>4
  <2>2. CASE i # 0 BY <1>2, <1>11, <2>2 DEF LogInv, FilesFit
  <2> QED BY <2>1, <2>2
<1>14. RecentHolds(recent, more, last, lineCount + 1)
  <2>1. RecentHolds(recent, logFiles, last, lineCount) BY <1>2 DEF LogInv
  <2>2. recent.written \in Nat /\ recent.lines \in Seq(LogLines) BY DEF LogInv, LogTyped
  <2>3. ASSUME NEW line, LineOf(line, more, last) PROVE LineOf(line, logFiles, last) \/ line = item
    <3>1. PICK i \in 0 .. last : \E m \in 1 .. Len(more[i]) : line = more[i][m] BY <2>3 DEF LineOf
    <3>2. CASE i = 0
      <4>1. PICK m \in 1 .. Len(longer) : line = longer[m] BY <1>11, <3>1, <3>2
      <4>2. m \in 1 .. Len(file) \/ m = Len(file) + 1 BY <1>10
      <4>3. CASE m \in 1 .. Len(file)
        <5>1. line = logFiles[0][m] /\ m \in 1 .. Len(logFiles[0]) BY <1>8, <1>10, <4>1, <4>3
        <5>2. 0 \in 0 .. last BY <1>6
        <5> QED BY <5>1, <5>2 DEF LineOf
      <4>4. CASE m = Len(file) + 1 BY <1>10, <4>1, <4>4
      <4> QED BY <4>2, <4>3, <4>4
    <3>3. CASE i # 0 BY <1>11, <3>1, <3>3 DEF LineOf
    <3> QED BY <3>2, <3>3
  <2>4. recent.written <= lineCount => Shown(item, recent.lines, recent.written)
    <3> SUFFICES ASSUME recent.written <= lineCount, NEW i \in 1 .. Len(recent.lines),
                        item.n \in recent.lines[i].n .. recent.written
                 PROVE  FALSE
      BY DEF Shown
    <3>1. recent.lines[i] \in LogLines BY <2>2
    <3>2. recent.lines[i].n \in Nat BY <3>1 DEF LogLines
    <3>3. lineCount + 1 <= recent.written BY <1>7, <2>2, <3>2
    <3> QED BY <1>6, <2>2, <3>3
  <2>5. recent.written <= lineCount => recent.written <= lineCount + 1 BY <1>6, <2>2
  <2> QED BY <2>1, <2>3, <2>4, <2>5 DEF RecentHolds
<1>15. LogTyped'
  <2>1. lineCount' \in Nat BY <1>1, <1>6
  <2>2. logFiles' \in [0 .. rotation.files -> Seq(LogLines)] BY <1>2, <1>3, <1>11
  <2> QED BY <1>1, <2>1, <2>2 DEF LogInv, LogTyped, NoAppend, LogMessages
<1>16. AppendHolds' BY <1>1 DEF AppendHolds, NoAppend
<1> QED BY <1>1, <1>2, <1>3, <1>12, <1>13, <1>14, <1>15, <1>16 DEF LogInv

-----------------------------------------------------------------------------
(* What the diagnostics read                                               *)
EndOf(file, out, start) ==
    /\ out \in Seq(LogLines)
    /\ start + Len(out) = Len(file)
    /\ \A j \in 1 .. Len(out) : out[j] = file[start + j]

LEMMA LastLinesEnd ==
    ASSUME NEW file \in Seq(LogLines), file = logFiles[0], NEW count \in Nat
    PROVE  \E start \in Nat : EndOf(file, LastLines(count), start)
<1>1. PICK n \in Nat : n = Len(file) OBVIOUS
<1>2. PICK out : out = LastLines(count) OBVIOUS
<1>3. out = SubSeq(file, IF n <= count THEN 1 ELSE n - count + 1, n) BY <1>1, <1>2 DEF LastLines
<1>4. PICK start \in Nat : start = IF n <= count THEN 0 ELSE n - count
  <2>1. PICK start : start = IF n <= count THEN 0 ELSE n - count OBVIOUS
  <2>2. start \in Nat BY <2>1
  <2> QED BY <2>1, <2>2
<1>5. out = SubSeq(file, start + 1, n) /\ start <= n
  <2>1. start + 1 = IF n <= count THEN 1 ELSE n - count + 1 BY <1>4
  <2> QED BY <1>3, <1>4, <2>1
<1>6. out \in Seq(LogLines) /\ Len(out) = n - start /\ \A j \in 1 .. n - start : out[j] = file[start + j]
  <2>1. \A j \in 1 .. n : file[j] \in LogLines BY <1>1
  <2>2. \A j \in 1 .. n - start : start + j \in 1 .. n /\ (start + 1) + j - 1 = start + j BY <1>5
  <2> QED BY <1>1, <1>5, <2>1, <2>2
<1>7. start + (n - start) = n BY <1>5
<1>8. EndOf(file, out, start) BY <1>1, <1>6, <1>7 DEF EndOf
<1> QED BY <1>2, <1>8

LEMMA LogReadKeeps == ASSUME LogInv, ReadRecent PROVE LogInv'
<1>1. UNCHANGED <<rotation, logFiles, lineCount, appending>> BY DEF ReadRecent
<1>2. PICK count \in {1, MaxLines} :
        recent' = [read |-> "lines", lines |-> LastLines(count), written |-> lineCount]
  BY DEF ReadRecent
<1>3. count \in Nat BY LogAssumption
<1>4. PICK last \in Nat : last = rotation.files BY LogParts
<1>5. logFiles \in [0 .. last -> Seq(LogLines)] /\ lineCount \in Nat BY <1>4, LogParts
<1>6. PICK file \in Seq(LogLines) : file = logFiles[0] BY <1>5
<1>7. PICK out : out = LastLines(count) OBVIOUS
<1>8. PICK start \in Nat : EndOf(file, out, start) BY <1>3, <1>6, <1>7, LastLinesEnd
<1>9. out \in Seq(LogLines) BY <1>8 DEF EndOf
<1>10. EndsWith(out, lineCount)
  <2>1. PICK ends : NumberedBy(ends, logFiles, last, lineCount) BY <1>4 DEF LogInv
  <2>2. ends \in [0 .. last + 1 -> Nat] /\ FileNumbered(file, ends[1], lineCount)
    <3>1. 0 \in 0 .. last /\ 0 + 1 = 1 OBVIOUS
    <3> QED BY <1>6, <2>1, <3>1 DEF NumberedBy
  <2>3. PICK e \in Nat : e = ends[1] BY <2>2
  <2>4. PICK a \in Nat, b \in Nat : a = Len(out) /\ b = Len(file) BY <1>9
  <2>5. start + a = b /\ \A j \in 1 .. a : out[j] = file[start + j] BY <1>8, <2>4 DEF EndOf
  <2>6. e + b = lineCount /\ \A j \in 1 .. b : file[j].n = e + j BY <2>2, <2>3, <2>4 DEF FileNumbered
  <2>7. ASSUME NEW j \in 1 .. a PROVE out[j].n = lineCount - a + j
    <3>1. start + j \in 1 .. b BY <2>5
    <3>2. out[j].n = e + (start + j) BY <2>5, <2>6, <3>1
    <3>3. start + a = b /\ e + b = lineCount BY <2>5, <2>6
    <3>4. e + (start + j) = lineCount - a + j BY <3>3
    <3> QED BY <3>2, <3>4
  <2>8. DOMAIN out = 1 .. a BY <1>9, <2>4
  <2> QED BY <2>4, <2>7, <2>8 DEF EndsWith
<1>11. recent' = [read |-> "lines", lines |-> out, written |-> lineCount] BY <1>2, <1>7
<1>12. LogTyped' BY <1>1, <1>5, <1>9, <1>11 DEF LogInv, LogTyped
<1>13. RecentHolds(recent, logFiles, rotation.files, lineCount)' BY <1>1, <1>10, <1>11 DEF RecentHolds, EndsWith
<1>14. AppendHolds' BY <1>1 DEF LogInv, AppendHolds, Fits
<1> QED BY <1>1, <1>12, <1>13, <1>14 DEF LogInv

(* Of the lines since the first that is selected, those of Git are in the  *)
(* first file, and are selected too.                                        *)
LEMMA SelectedShow ==
    ASSUME NEW last \in Nat, NEW files \in [0 .. last -> Seq(LogLines)], NEW ends, NEW count \in Nat,
           NumberedBy(ends, files, last, count), NEW file, file = files[0],
           NEW out, NEW start \in Nat, EndOf(file, out, start),
           NEW chosen, Selects(out, Len(out), chosen), NEW line, LineOf(line, files, last)
    PROVE  Shown(line, chosen, count)
<1> SUFFICES ASSUME NEW i \in 1 .. Len(chosen), line.git, line.n \in chosen[i].n .. count
             PROVE  \E k \in 1 .. Len(chosen) : chosen[k] = line
  BY DEF Shown
<1>1. file \in Seq(LogLines) /\ 0 \in 0 .. last /\ 0 + 1 = 1 OBVIOUS
<1>2. PICK e \in Nat : e = ends[1]
  <2>1. 1 \in 0 .. last + 1 OBVIOUS
  <2> QED BY <2>1 DEF NumberedBy
<1>3. FileNumbered(file, e, count) BY <1>1, <1>2 DEF NumberedBy
<1>4. PICK a \in Nat, b \in Nat : a = Len(out) /\ b = Len(file)
  <2>1. out \in Seq(LogLines) BY DEF EndOf
  <2>2. Len(out) \in Nat /\ Len(file) \in Nat BY <1>1, <2>1
  <2> QED BY <2>2
<1>5. start + a = b /\ \A j \in 1 .. a : out[j] = file[start + j] BY <1>4 DEF EndOf
<1>6. \A m \in 1 .. b : file[m].n = e + m BY <1>3, <1>4 DEF FileNumbered
<1>7. PICK j \in 1 .. a : chosen[i] = out[j] BY <1>4 DEF Selects
<1>8. chosen[i].n = e + (start + j)
  <2>1. start + j \in 1 .. b BY <1>5
  <2> QED BY <1>5, <1>6, <1>7, <2>1
<1>9. PICK f \in 0 .. last : \E m \in 1 .. Len(files[f]) : line = files[f][m] BY DEF LineOf
<1>10. PICK m \in 1 .. Len(files[f]) : line = files[f][m] BY <1>9
<1>11. m \in Nat BY <1>10
<1>12. CASE f = 0
  <2>1. m \in 1 .. b /\ line = file[m] /\ line.n = e + m BY <1>4, <1>6, <1>10, <1>12
  <2>2. e + (start + j) <= e + m BY <1>8, <2>1
  <2>3. PICK q \in 1 .. a : m = start + q
    <3>1. m - start \in 1 .. a /\ m = start + (m - start) BY <1>5, <2>1, <2>2
    <3> QED BY <3>1
  <2>4. out[q] = line BY <1>5, <2>1, <2>3
  <2> QED BY <1>4, <2>4 DEF Selects
<1>13. CASE f # 0
  <2>1. f \in 1 .. last /\ f \in 0 .. last + 1 /\ f + 1 \in 0 .. last + 1 BY <1>13
  <2>2. PICK x \in Nat, y \in Nat : x = ends[f] /\ y = ends[f + 1] BY <2>1 DEF NumberedBy
  <2>3. x <= e BY <1>2, <2>1, <2>2, EndsFall
  <2>4. FileNumbered(files[f], y, x) BY <2>2 DEF NumberedBy
  <2>5. PICK n \in Nat : n = Len(files[f])
    <3>1. PICK other \in Seq(LogLines) : other = files[f] OBVIOUS
    <3> QED BY <3>1
  <2>6. y + n = x /\ line.n = y + m /\ m <= n BY <1>10, <2>4, <2>5 DEF FileNumbered
  <2>7. e + (start + j) <= y + m BY <1>8, <2>6
  <2>8. FALSE BY <1>11, <2>3, <2>6, <2>7
  <2> QED BY <2>8
<1> QED BY <1>12, <1>13

LEMMA ExitCodesKeep == ASSUME LogInv, ReadExitCodes PROVE LogInv'
<1>1. UNCHANGED <<rotation, logFiles, lineCount, appending>> BY DEF ReadExitCodes
<1>2. PICK count \in {1, MaxLines} :
        recent' = [read |-> "exit codes", written |-> lineCount, lines |-> GitOnly(LastLines(count))]
  BY DEF ReadExitCodes
<1>3. count \in Nat BY LogAssumption
<1>4. PICK last \in Nat : last = rotation.files BY LogParts
<1>5. logFiles \in [0 .. last -> Seq(LogLines)] /\ lineCount \in Nat BY <1>4, LogParts
<1>6. PICK file \in Seq(LogLines) : file = logFiles[0] BY <1>5
<1>7. PICK out : out = LastLines(count) OBVIOUS
<1>8. PICK start \in Nat : EndOf(file, out, start) BY <1>3, <1>6, <1>7, LastLinesEnd
<1>9. out \in Seq(LogLines) BY <1>8 DEF EndOf
<1>10. PICK chosen : chosen = GitOnly(out) OBVIOUS
<1>11. Selects(out, Len(out), chosen) BY <1>9, <1>10, GitOnlySelects
<1>12. chosen \in Seq(LogLines) BY <1>11 DEF Selects
<1>13. PICK ends : NumberedBy(ends, logFiles, last, lineCount) BY <1>4 DEF LogInv
<1>14. \A line : LineOf(line, logFiles, last) => Shown(line, chosen, lineCount)
  BY <1>5, <1>6, <1>8, <1>11, <1>13, SelectedShow
<1>15. PICK shown : shown = [read |-> "exit codes", written |-> lineCount, lines |-> chosen] OBVIOUS
<1>16. recent' = shown BY <1>2, <1>7, <1>10, <1>15
<1>17. RecentHolds(shown, logFiles, last, lineCount)
  <2>1. shown.read # "lines" /\ shown.lines = chosen /\ shown.written = lineCount BY <1>15
  <2>2. lineCount <= lineCount BY <1>5
  <2> QED BY <1>14, <2>1, <2>2 DEF RecentHolds
<1>18. LogTyped' BY <1>1, <1>5, <1>12, <1>15, <1>16 DEF LogInv, LogTyped
<1>19. AppendHolds' BY <1>1 DEF LogInv, AppendHolds, Fits
<1>20. RecentHolds(recent', logFiles', rotation'.files, lineCount') BY <1>1, <1>4, <1>16, <1>17
<1> QED BY <1>1, <1>18, <1>19, <1>20 DEF LogInv

LEMMA LogGoesOn == LogInv /\ [LogNext]_logVars => LogInv'
<1> SUFFICES ASSUME LogInv, [LogNext]_logVars PROVE LogInv' OBVIOUS
<1>1. CASE UNCHANGED logVars
  BY <1>1 DEF logVars, LogInv, LogTyped, AppendHolds, Fits
<1> QED BY <1>1, BeginKeeps, RotateKeeps, LogWriteKeeps, FailureKeeps, LogReadKeeps, ExitCodesKeep DEF LogNext

LEMMA LogIsKept == LogInv => LogKeepsTheNewest
<1> SUFFICES ASSUME LogInv PROVE LogKeepsTheNewest OBVIOUS
<1>1. PICK last \in Nat : last = rotation.files BY LogParts
<1>2. logFiles \in [0 .. last -> Seq(LogLines)] /\ lineCount \in Nat BY <1>1, LogParts
<1>3. PICK ends : NumberedBy(ends, logFiles, last, lineCount) BY <1>1 DEF LogInv
<1>4. PICK out : out = AllLines OBVIOUS
<1>5. LastFiles(ends, logFiles, last, last + 1, out) BY <1>1, <1>2, <1>3, <1>4, AllLinesEnd
<1>6. PICK e \in Nat : e = ends[last + 1]
  <2>1. last + 1 \in 0 .. last + 1 OBVIOUS
  <2> QED BY <1>3, <2>1 DEF NumberedBy
<1>7. PICK n \in Nat : n = Len(out) BY <1>5 DEF LastFiles
<1>8. e + n = lineCount
  <2>1. last + 1 - (last + 1) = 0 OBVIOUS
  <2>2. ends[0] = lineCount BY <1>3 DEF NumberedBy
  <2> QED BY <1>5, <1>6, <1>7, <2>1, <2>2 DEF LastFiles
<1>9. DOMAIN out = 1 .. n BY <1>5, <1>7 DEF LastFiles
<1>10. \A j \in 1 .. n : out[j].n = e + j /\ LineOf(out[j], logFiles, last) BY <1>5, <1>6, <1>7 DEF LastFiles
<1>11. EndsWith(AllLines, lineCount)
  <2>1. \A j \in 1 .. n : e + j = lineCount - n + j BY <1>8
  <2> QED BY <1>4, <1>7, <1>9, <1>10, <2>1 DEF EndsWith
<1>12. rotation.bytes > 0 =>
          \A i \in DOMAIN logFiles : SizeOf(logFiles[i]) <= rotation.bytes \/ Len(logFiles[i]) = 1
  BY <1>1, <1>2 DEF LogInv, FilesFit
<1>13. RecentHolds(recent, logFiles, last, lineCount) BY <1>1 DEF LogInv
<1>14. DOMAIN recent.lines = 1 .. Len(recent.lines)
  <2>1. recent.lines \in Seq(LogLines) BY DEF LogInv, LogTyped
  <2> QED BY <2>1
<1>15. recent.read # "lines" =>
          \A i \in DOMAIN recent.lines, j \in DOMAIN AllLines : LET line == AllLines[j] IN
               line.git /\ line.n \in recent.lines[i].n .. recent.written
                  => \E k \in DOMAIN recent.lines : recent.lines[k] = line
  <2> SUFFICES ASSUME recent.read # "lines", NEW i \in DOMAIN recent.lines, NEW j \in DOMAIN out,
                      out[j].git /\ out[j].n \in recent.lines[i].n .. recent.written
               PROVE  \E k \in DOMAIN recent.lines : recent.lines[k] = out[j]
    BY <1>4
  <2>1. Shown(out[j], recent.lines, recent.written) BY <1>9, <1>10, <1>13 DEF RecentHolds
  <2> QED BY <1>14, <2>1 DEF Shown
<1> QED BY <1>11, <1>12, <1>13, <1>15 DEF LogKeepsTheNewest, RecentHolds

THEOREM LogKeepsTheNewestAlways == LogSpec => []LogKeepsTheNewest
<1>1. LogSpec => []LogInv BY LogInitially, LogGoesOn, PTL DEF LogSpec
<1> QED BY <1>1, LogIsKept, PTL

-----------------------------------------------------------------------------
(* What the agent appends to its files stays there, in its order, through  *)
(* rotations, cleanups, failures and crashes (append_record and            *)
(* cleanup_completed, rotate_log_files): for any operations, journals,     *)
(* crashes, limits of the log and lines.                                    *)
THEOREM AppendsAreKeptAlways == ServicesSpec => []AppendsAreKept
<1>1. ServicesInit => JournalInv /\ LogInv
  BY JournalInitially, LogInitially DEF ServicesInit
<1>2. ASSUME JournalInv, LogInv, [ServicesNext]_servicesVars PROVE JournalInv' /\ LogInv'
  <2>1. [JournalNext]_journalVars /\ [LogNext]_logVars
    <3>1. CASE ServicesNext BY <3>1 DEF ServicesNext
    <3>2. CASE UNCHANGED servicesVars BY <3>2 DEF servicesVars
    <3> QED BY <1>2, <3>1, <3>2
  <2> QED BY <1>2, <2>1, JournalGoesOn, LogGoesOn
<1>3. JournalInv /\ LogInv => AppendsAreKept BY JournalIsKept, LogIsKept DEF AppendsAreKept
<1>4. ServicesSpec => [](JournalInv /\ LogInv) BY <1>1, <1>2, PTL DEF ServicesSpec
<1> QED BY <1>3, <1>4, PTL
=============================================================================
