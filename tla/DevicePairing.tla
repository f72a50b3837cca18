---------------------------- MODULE DevicePairing ----------------------------
(* The identity of a device and the pairing of a peer, as processes of the  *)
(* command line run them: the secret file of the fabric, the rows made from *)
(* it, the pairing sessions, and the row of the peer's public keys. Keys    *)
(* are named by who made them; a short code matches or it does not.         *)
EXTENDS Naturals

CONSTANTS Commands,    \* processes of the command line; each runs one command
          Pairings,    \* pairing sessions they may start
          MaxPairTime  \* bound: the clock

(* A secret file that is missing or half written is none of the processes'. *)
ASSUME PairingAssumption ==
    /\ Commands \cap {"none", "partial"} = {}
    /\ "none" \notin Pairings

VARIABLES secretFile,   \* "none", "partial" (created, not written), or its creator
          fabricRoots,  \* fabrics in fabric_roots
          ownIdentity,  \* the fabric of this device's row of device_public_identities
          pairings,     \* pairing_sessions
          peerIdentity, \* the session that wrote the peer's row, or "none"
          command,      \* process -> where it is
          pairTime,
          abortAnswered \* history: sessions whose abort was answered with success

pairingVars == <<secretFile, fabricRoots, ownIdentity, pairings, peerIdentity,
                 command, pairTime, abortAnswered>>
identityVars == <<secretFile, fabricRoots, ownIdentity>>

TerminalPairing == {"confirmed", "aborted", "expired"}

PairingInit ==
    /\ secretFile = "none"
    /\ fabricRoots = {}
    /\ ownIdentity = "none"
    /\ pairings = [p \in Pairings |-> [state |-> "absent"]]
    /\ peerIdentity = "none"
    /\ command = [c \in Commands |-> [at |-> "idle"]]
    /\ pairTime = 0
    /\ abortAnswered = {}

CommandAt(c, step) == command[c].at = step
CommandGoes(c, step) == command' = [command EXCEPT ![c].at = step]

----------------------------------------------------------------------------
(* FabricIdentityStore::open_or_create *)

(* Identity commands, pairing start and pairing confirm may create the secret. *)
OpenIdentity(c) ==
    /\ CommandAt(c, "idle")
    /\ IF secretFile = "none"
       THEN CommandGoes(c, "create")
       ELSE IF secretFile = "partial"
            THEN CommandGoes(c, "failed")
            ELSE command' = [command EXCEPT ![c] = [at |-> "bundle", fabric |-> secretFile]]
    /\ UNCHANGED <<identityVars, pairings, peerIdentity, pairTime, abortAnswered>>

(* OpenOptions::create_new: the file must not exist. *)
CreateSecret(c) ==
    /\ CommandAt(c, "create")
    /\ IF secretFile = "none"
       THEN secretFile' = "partial" /\ CommandGoes(c, "write")
       ELSE CommandGoes(c, "failed") /\ UNCHANGED secretFile
    /\ UNCHANGED <<fabricRoots, ownIdentity, pairings, peerIdentity, pairTime, abortAnswered>>

WriteSecret(c) ==
    /\ CommandAt(c, "write")
    /\ secretFile' = c
    /\ command' = [command EXCEPT ![c] = [at |-> "bundle", fabric |-> c]]
    /\ UNCHANGED <<fabricRoots, ownIdentity, pairings, peerIdentity, pairTime, abortAnswered>>

(* The process ends while the file is created but not written: it stays so. *)
CrashInWrite(c) ==
    /\ CommandAt(c, "write")
    /\ CommandGoes(c, "failed")
    /\ UNCHANGED <<identityVars, pairings, peerIdentity, pairTime, abortAnswered>>

UpsertFabricRootIdentity(c) ==
    /\ CommandAt(c, "bundle")
    /\ fabricRoots' = fabricRoots \union {command[c].fabric}
    /\ CommandGoes(c, "root")
    /\ UNCHANGED <<secretFile, ownIdentity, pairings, peerIdentity, pairTime, abortAnswered>>

UpsertDevicePublicIdentity(c) ==
    /\ CommandAt(c, "root")
    /\ ownIdentity' = command[c].fabric
    /\ CommandGoes(c, "ready")
    /\ UNCHANGED <<secretFile, fabricRoots, pairings, peerIdentity, pairTime, abortAnswered>>

----------------------------------------------------------------------------
(* Pairing sessions *)

(* One second stands for the time to live. *)
StartPairingSession(c, p) ==
    /\ CommandAt(c, "ready")
    /\ pairings[p].state = "absent"
    /\ command[c].fabric \in fabricRoots
    /\ pairings' = [pairings EXCEPT ![p] =
           [state |-> "pending", fabric |-> command[c].fabric, expires |-> pairTime + 1,
            certifiedBy |-> "none", confirmedAt |-> 0]]
    /\ CommandGoes(c, "done")
    /\ UNCHANGED <<identityVars, peerIdentity, pairTime, abortAnswered>>

(* The command reads the session, checks its fabric, reads the clock and *)
(* issues the certificate before the transaction looks at the state.     *)
IssueDeviceCertificate(c, p) ==
    /\ CommandAt(c, "ready")
    /\ pairings[p].state # "absent"
    /\ IF pairings[p].fabric = command[c].fabric
       THEN command' = [command EXCEPT ![c] = [at |-> "issued", fabric |-> command[c].fabric,
                                               pairing |-> p, now |-> pairTime]]
       ELSE CommandGoes(c, "failed")
    /\ UNCHANGED <<identityVars, pairings, peerIdentity, pairTime, abortAnswered>>

ConfirmPairingSession(c, codeMatches) ==
    /\ CommandAt(c, "issued")
    /\ LET p == command[c].pairing
           now == command[c].now
       IN  IF pairings[p].state \in TerminalPairing
           THEN UNCHANGED <<pairings, peerIdentity>>
           ELSE IF now > pairings[p].expires
           THEN /\ pairings' = [pairings EXCEPT ![p].state = "expired"]
                /\ UNCHANGED peerIdentity
           ELSE IF ~codeMatches
           THEN UNCHANGED <<pairings, peerIdentity>>
           ELSE /\ pairings' = [pairings EXCEPT ![p].state = "confirmed",
                                                ![p].certifiedBy = command[c].fabric,
                                                ![p].confirmedAt = now]
                /\ peerIdentity' = p
    /\ CommandGoes(c, "done")
    /\ UNCHANGED <<identityVars, pairTime, abortAnswered>>

\* Mutant: an abort does not look at the state.
AbortAnyPairing(c, p) ==
    /\ CommandAt(c, "idle")
    /\ pairings[p].state # "absent"
    /\ pairings' = [pairings EXCEPT ![p].state = "aborted"]
    /\ abortAnswered' = abortAnswered \union {p}
    /\ CommandGoes(c, "done")
    /\ UNCHANGED <<identityVars, peerIdentity, pairTime>>

AbortPairingSession(c, p) ==
    /\ CommandAt(c, "idle")
    /\ pairings[p].state # "absent"
    /\ IF pairings[p].state \in TerminalPairing
       THEN UNCHANGED <<pairings, abortAnswered>>
       ELSE /\ pairings' = [pairings EXCEPT ![p].state = "aborted"]
            /\ abortAnswered' = abortAnswered \union {p}
    /\ CommandGoes(c, "done")
    /\ UNCHANGED <<identityVars, peerIdentity, pairTime>>

(* expire_pairing_sessions selects first and updates in a transaction of its *)
(* own, whatever the state is by then.                                       *)
SelectExpired(c) ==
    /\ CommandAt(c, "idle")
    /\ command' = [command EXCEPT ![c] = [at |-> "expiring", ids |->
           {p \in Pairings : /\ pairings[p].state = "pending"
                             /\ pairings[p].expires < pairTime}]]
    /\ UNCHANGED <<identityVars, pairings, peerIdentity, pairTime, abortAnswered>>

ExpirePairingSessions(c) ==
    /\ CommandAt(c, "expiring")
    /\ pairings' = [p \in Pairings |->
           IF p \in command[c].ids THEN [pairings[p] EXCEPT !.state = "expired"]
                                   ELSE pairings[p]]
    /\ CommandGoes(c, "done")
    /\ UNCHANGED <<identityVars, peerIdentity, pairTime, abortAnswered>>

PairingTick ==
    /\ pairTime < MaxPairTime
    /\ pairTime' = pairTime + 1
    /\ UNCHANGED <<identityVars, pairings, peerIdentity, command, abortAnswered>>

PairingNext ==
    \/ \E c \in Commands :
          \/ OpenIdentity(c) \/ CreateSecret(c) \/ WriteSecret(c) \/ CrashInWrite(c)
          \/ UpsertFabricRootIdentity(c) \/ UpsertDevicePublicIdentity(c)
          \/ SelectExpired(c) \/ ExpirePairingSessions(c)
          \/ \E ok \in BOOLEAN : ConfirmPairingSession(c, ok)
    \/ \E c \in Commands : \E p \in Pairings :
          \/ StartPairingSession(c, p) \/ IssueDeviceCertificate(c, p)
          \/ AbortPairingSession(c, p)
    \/ PairingTick

----------------------------------------------------------------------------
(* Commands that start at the same time end up with one fabric, and a peer  *)
(* in the table was confirmed with a certificate of that fabric, in time,   *)
(* by a session whose abort nobody was told of: open_or_create relies on    *)
(* create_new, and confirm and abort on the state they read in their own    *)
(* transaction.                                                             *)
PeersArePairedOnce ==
    /\ \A f \in fabricRoots : secretFile = f
    /\ ownIdentity # "none" => ownIdentity = secretFile
    /\ abortAnswered \intersect {p \in Pairings : pairings[p].state = "confirmed"} = {}
    /\ peerIdentity # "none" =>
          LET s == pairings[peerIdentity]
          IN  /\ peerIdentity \notin abortAnswered
              /\ s.certifiedBy = secretFile
              /\ s.confirmedAt <= s.expires
=============================================================================
