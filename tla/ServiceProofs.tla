---------------------------- MODULE ServiceProofs ----------------------------
(***************************************************************************)
(* What holds of the services around the handoff for every number of       *)
(* processes: pairing (DevicePairing), the backups of an anchor            *)
(* (BackupAnchor), background protection (BackgroundProtection), the       *)
(* environment doctor (EnvironmentDoctor), the desktop application that    *)
(* shows them (DesktopShell), what background work may use                 *)
(* (ResourcePolicy) and where a task runs (Scheduler).  Each part states   *)
(* the types of its state, the inductive invariant and the theorem about   *)
(* it, and those that elsewhere are only a part of a composition a         *)
(* specification too.                                                      *)
(***************************************************************************)
EXTENDS DevicePairing, BackupAnchor, BackgroundProtection, EnvironmentDoctor, DesktopShell,
        ResourcePolicy, Scheduler, DataInduction, TLAPS

PairingSpec == PairingInit /\ [][PairingNext]_pairingVars

Fabrics == Commands \cup {"none"}

PairingRows ==
    [state : {"absent"}]
    \cup [state : {"pending"} \cup TerminalPairing, fabric : Commands, expires : Nat,
          certifiedBy : Fabrics, confirmedAt : Nat]

CommandStates ==
    [at : {"idle", "create", "write", "failed", "done"}]
    \cup [at : {"bundle", "root", "ready", "failed", "done"}, fabric : Commands]
    \cup [at : {"issued", "done"}, fabric : Commands, pairing : Pairings, now : Nat]
    \cup [at : {"expiring", "done"}, ids : SUBSET Pairings]

PairingTypeOK ==
    /\ secretFile \in Fabrics \cup {"partial"}
    /\ fabricRoots \subseteq Commands
    /\ ownIdentity \in Fabrics
    /\ pairings \in [Pairings -> PairingRows]
    /\ peerIdentity \in Pairings \cup {"none"}
    /\ command \in [Commands -> CommandStates]
    /\ pairTime \in Nat
    /\ abortAnswered \subseteq Pairings

HoldsBundle(c) == command[c].at \in {"bundle", "root", "ready", "issued"}
Present(p) == pairings[p].state # "absent"

(* Whoever has opened the identity has the fabric of the file, and only the *)
(* process that created the file writes it.                                 *)
OneFabric ==
    /\ \A c \in Commands : HoldsBundle(c) => command[c].fabric = secretFile
    /\ \A c \in Commands : CommandAt(c, "write") => secretFile = "partial"
    /\ \A c, d \in Commands : CommandAt(c, "write") /\ CommandAt(d, "write") => c = d
    /\ \A f \in fabricRoots : secretFile = f
    /\ ownIdentity # "none" => ownIdentity = secretFile

(* The rows are of that fabric, and the commands in flight name rows.       *)
SessionsAreReal ==
    /\ \A p \in Pairings : Present(p) => pairings[p].fabric = secretFile
    /\ \A c \in Commands : CommandAt(c, "issued") => Present(command[c].pairing)
    /\ \A c \in Commands : CommandAt(c, "expiring") => \A p \in command[c].ids : Present(p)

(* An answered abort leaves a session that no confirmation accepts, and the *)
(* session of the peer's row was confirmed in time.                         *)
EndingsAreFinal ==
    /\ \A p \in abortAnswered : pairings[p].state \in {"aborted", "expired"}
    /\ peerIdentity # "none" =>
          /\ pairings[peerIdentity].state \in {"confirmed", "expired"}
          /\ peerIdentity \notin abortAnswered
          /\ pairings[peerIdentity].certifiedBy = secretFile
          /\ pairings[peerIdentity].confirmedAt <= pairings[peerIdentity].expires

PairingInv == PairingTypeOK /\ OneFabric /\ SessionsAreReal /\ EndingsAreFinal
-----------------------------------------------------------------------------
(* The shapes that a row and a command have where they are looked at.       *)

PresentRows == [state : {"pending"} \cup TerminalPairing, fabric : Commands, expires : Nat,
                certifiedBy : Fabrics, confirmedAt : Nat]

LEMMA PresentRow ==
    ASSUME PairingTypeOK, NEW p \in Pairings, Present(p)
    PROVE  pairings[p] \in PresentRows
BY DEF PairingTypeOK, PairingRows, PresentRows, Present

LEMMA CommandShape ==
    ASSUME PairingTypeOK, NEW c \in Commands
    PROVE  /\ command[c].at \in {"bundle", "root", "ready"} =>
                  command[c] \in [at : {"bundle", "root", "ready", "failed", "done"},
                                  fabric : Commands]
           /\ CommandAt(c, "issued") =>
                  command[c] \in [at : {"issued", "done"}, fabric : Commands,
                                  pairing : Pairings, now : Nat]
           /\ CommandAt(c, "expiring") =>
                  command[c] \in [at : {"expiring", "done"}, ids : SUBSET Pairings]
           /\ command[c].at \in {"idle", "create", "write"} =>
                  command[c] \in [at : {"idle", "create", "write", "failed", "done"}]
<1>1. command[c] \in CommandStates
  BY DEF PairingTypeOK
<1> QED
  BY <1>1 DEF CommandStates, CommandAt

(* A command that only moves on keeps what it holds.                        *)
LEMMA Moves ==
    ASSUME PairingTypeOK, NEW c \in Commands, NEW step, CommandGoes(c, step),
           \/ command[c].at \in {"idle", "create", "write"}
              /\ step \in {"create", "write", "failed", "done"}
           \/ command[c].at \in {"bundle", "root", "ready"}
              /\ step \in {"root", "ready", "failed", "done"}
           \/ command[c].at \in {"issued", "expiring"} /\ step = "done"
    PROVE  /\ command' \in [Commands -> CommandStates]
           /\ command'[c] = [command[c] EXCEPT !.at = step]
           /\ command'[c].at = step
           /\ \A d \in Commands \ {c} : command'[d] = command[d]
<1>1. command \in [Commands -> CommandStates]
  BY DEF PairingTypeOK
<1>2. command' = [command EXCEPT ![c] = [command[c] EXCEPT !.at = step]]
  BY DEF CommandGoes
<1>3. [command[c] EXCEPT !.at = step] \in CommandStates
  <2>1. CASE command[c].at \in {"idle", "create", "write"}
    BY <2>1, CommandShape DEF CommandStates
  <2>2. CASE command[c].at \in {"bundle", "root", "ready"}
    BY <2>2, CommandShape DEF CommandStates
  <2>3. CASE command[c].at = "issued"
    BY <2>3, CommandShape DEF CommandStates, CommandAt
  <2>4. CASE command[c].at = "expiring"
    BY <2>4, CommandShape DEF CommandStates, CommandAt
  <2> QED
    BY <2>1, <2>2, <2>3, <2>4
<1>4. /\ command' \in [Commands -> CommandStates]
      /\ command'[c] = [command[c] EXCEPT !.at = step]
      /\ \A d \in Commands \ {c} : command'[d] = command[d]
  BY <1>1, <1>2, <1>3
<1>5. [command[c] EXCEPT !.at = step].at = step
  <2>1. CASE command[c].at \in {"idle", "create", "write"}
    BY <2>1, CommandShape
  <2>2. CASE command[c].at \in {"bundle", "root", "ready"}
    BY <2>2, CommandShape
  <2>3. CASE command[c].at = "issued"
    BY <2>3, CommandShape DEF CommandAt
  <2>4. CASE command[c].at = "expiring"
    BY <2>4, CommandShape DEF CommandAt
  <2> QED
    BY <2>1, <2>2, <2>3, <2>4
<1> QED
  BY <1>4, <1>5
-----------------------------------------------------------------------------
(* One lemma per step of a command.                                         *)

(* A step that changes nothing but the command, which does not come to the *)
(* writing of the file.                                                    *)
LEMMA CommandOnly ==
    ASSUME PairingInv, NEW c \in Commands,
           UNCHANGED <<identityVars, pairings, peerIdentity, pairTime, abortAnswered>>,
           command' \in [Commands -> CommandStates],
           \A d \in Commands \ {c} : command'[d] = command[d],
           command'[c].at # "write",
           command'[c].at \in {"bundle", "root", "ready", "issued"} =>
               command'[c].fabric = secretFile,
           command'[c].at = "issued" => Present(command'[c].pairing),
           command'[c].at = "expiring" => \A p \in command'[c].ids : Present(p)
    PROVE  PairingInv'
<1>1. PairingTypeOK'
  BY DEF PairingInv, PairingTypeOK, identityVars
<1>2. OneFabric'
  BY DEF PairingInv, OneFabric, HoldsBundle, CommandAt, identityVars
<1>3. SessionsAreReal'
  BY DEF PairingInv, SessionsAreReal, Present, CommandAt, identityVars
<1>4. EndingsAreFinal'
  BY DEF PairingInv, EndingsAreFinal, identityVars
<1> QED
  BY <1>1, <1>2, <1>3, <1>4 DEF PairingInv

LEMMA OpenKeeps ==
    ASSUME PairingInv, NEW c \in Commands, OpenIdentity(c)
    PROVE  PairingInv'
<1> USE DEF PairingInv
<1>1. CommandAt(c, "idle") /\ UNCHANGED <<identityVars, pairings, peerIdentity, pairTime, abortAnswered>>
  BY DEF OpenIdentity
<1>2. ASSUME NEW step \in {"create", "failed"}, CommandGoes(c, step)
      PROVE  PairingInv'
  BY <1>1, <1>2, Moves, CommandOnly DEF CommandAt
<1>3. ASSUME secretFile \notin {"none", "partial"},
             command' = [command EXCEPT ![c] = [at |-> "bundle", fabric |-> secretFile]]
      PROVE  PairingInv'
  <2>1. secretFile \in Commands
    BY <1>3 DEF PairingTypeOK, Fabrics
  <2>2. [at |-> "bundle", fabric |-> secretFile] \in CommandStates
    BY <2>1 DEF CommandStates
  <2>3. /\ command' \in [Commands -> CommandStates]
        /\ \A d \in Commands \ {c} : command'[d] = command[d]
        /\ command'[c] = [at |-> "bundle", fabric |-> secretFile]
    BY <1>3, <2>2 DEF PairingTypeOK
  <2> QED
    BY <1>1, <2>3, CommandOnly
<1> QED
  BY <1>2, <1>3 DEF OpenIdentity

LEMMA CreateKeeps ==
    ASSUME PairingInv, NEW c \in Commands, CreateSecret(c)
    PROVE  PairingInv'
<1>1. CASE secretFile # "none"
  <2>1. CommandGoes(c, "failed") /\ CommandAt(c, "create")
        /\ UNCHANGED <<identityVars, pairings, peerIdentity, pairTime, abortAnswered>>
    BY <1>1 DEF CreateSecret, identityVars
  <2>2. /\ command' \in [Commands -> CommandStates]
        /\ command'[c].at = "failed"
        /\ \A d \in Commands \ {c} : command'[d] = command[d]
    BY <2>1, Moves DEF CommandAt, PairingInv
  <2> QED
    BY <2>1, <2>2, CommandOnly
<1>2. CASE secretFile = "none"
  <2>1. /\ CommandGoes(c, "write") /\ CommandAt(c, "create") /\ secretFile' = "partial"
        /\ UNCHANGED <<fabricRoots, ownIdentity, pairings, peerIdentity, pairTime, abortAnswered>>
    BY <1>2 DEF CreateSecret
  <2>2. /\ command' \in [Commands -> CommandStates]
        /\ command'[c].at = "write"
        /\ \A d \in Commands \ {c} : command'[d] = command[d]
    BY <2>1, Moves DEF CommandAt, PairingInv
  <2>3. \A d \in Commands : ~HoldsBundle(d) /\ ~CommandAt(d, "write")
    <3> SUFFICES ASSUME NEW d \in Commands
                 PROVE  ~HoldsBundle(d) /\ ~CommandAt(d, "write")
      OBVIOUS
    <3>1. HoldsBundle(d) => command[d].fabric \in Commands
      BY CommandShape DEF HoldsBundle, PairingInv, CommandAt
    <3> QED
      BY <3>1, <1>2, PairingAssumption DEF PairingInv, OneFabric
  <2>4. fabricRoots = {} /\ ownIdentity = "none"
    BY <1>2, PairingAssumption DEF PairingInv, OneFabric, PairingTypeOK, Fabrics
  <2>5. \A p \in Pairings : ~Present(p)
    BY <1>2, PresentRow, PairingAssumption DEF PairingInv, SessionsAreReal, PresentRows
  <2>6. peerIdentity = "none"
    BY <2>5 DEF PairingInv, EndingsAreFinal, Present, PairingTypeOK
  <2>7. PairingTypeOK'
    BY <2>1, <2>2 DEF PairingInv, PairingTypeOK
  <2>8. OneFabric'
    BY <2>1, <2>2, <2>3, <2>4 DEF OneFabric, HoldsBundle, CommandAt
  <2>9. SessionsAreReal'
    BY <2>1, <2>2, <2>3, <2>5 DEF PairingInv, SessionsAreReal, CommandAt, Present
  <2>10. EndingsAreFinal'
    BY <2>1, <2>6 DEF PairingInv, EndingsAreFinal
  <2> QED
    BY <2>7, <2>8, <2>9, <2>10 DEF PairingInv
<1> QED
  BY <1>1, <1>2

LEMMA WriteKeeps ==
    ASSUME PairingInv, NEW c \in Commands, WriteSecret(c)
    PROVE  PairingInv'
<1>1. /\ CommandAt(c, "write") /\ secretFile = "partial" /\ secretFile' = c
      /\ command' = [command EXCEPT ![c] = [at |-> "bundle", fabric |-> c]]
      /\ UNCHANGED <<fabricRoots, ownIdentity, pairings, peerIdentity, pairTime, abortAnswered>>
  BY DEF WriteSecret, PairingInv, OneFabric
<1>2. [at |-> "bundle", fabric |-> c] \in CommandStates
  BY DEF CommandStates
<1>3. /\ command' \in [Commands -> CommandStates]
      /\ \A d \in Commands \ {c} : command'[d] = command[d]
      /\ command'[c] = [at |-> "bundle", fabric |-> c]
  BY <1>1, <1>2 DEF PairingInv, PairingTypeOK
<1>4. \A d \in Commands : ~HoldsBundle(d)
  <2> SUFFICES ASSUME NEW d \in Commands, HoldsBundle(d)
               PROVE  FALSE
    OBVIOUS
  <2>1. command[d].fabric \in Commands
    BY CommandShape DEF HoldsBundle, PairingInv, CommandAt
  <2> QED
    BY <2>1, <1>1, PairingAssumption DEF PairingInv, OneFabric
<1>5. \A d \in Commands \ {c} : ~CommandAt(d, "write")
  BY <1>1 DEF PairingInv, OneFabric
<1>6. fabricRoots = {} /\ ownIdentity = "none"
  BY <1>1, PairingAssumption DEF PairingInv, OneFabric, PairingTypeOK, Fabrics
<1>7. \A p \in Pairings : ~Present(p)
  BY <1>1, PresentRow, PairingAssumption DEF PairingInv, SessionsAreReal, PresentRows
<1>8. peerIdentity = "none"
  BY <1>7 DEF PairingInv, EndingsAreFinal, Present, PairingTypeOK
<1>9. PairingTypeOK'
  BY <1>1, <1>3 DEF PairingInv, PairingTypeOK, Fabrics
<1>10. OneFabric'
  <2>1. \A d \in Commands : HoldsBundle(d)' => d = c
    BY <1>3, <1>4 DEF HoldsBundle
  <2>2. \A d \in Commands : ~CommandAt(d, "write")'
    BY <1>3, <1>5 DEF CommandAt
  <2> QED
    BY <1>1, <1>3, <2>1, <2>2, <1>6 DEF OneFabric
<1>11. SessionsAreReal'
  <2>1. \A d \in Commands : CommandAt(d, "issued")' \/ CommandAt(d, "expiring")' => d # c
    BY <1>3 DEF CommandAt
  <2> QED
    BY <2>1, <1>1, <1>3, <1>7 DEF PairingInv, SessionsAreReal, CommandAt, Present
<1>12. EndingsAreFinal'
  BY <1>1, <1>8 DEF PairingInv, EndingsAreFinal
<1> QED
  BY <1>9, <1>10, <1>11, <1>12 DEF PairingInv

LEMMA CrashKeeps ==
    ASSUME PairingInv, NEW c \in Commands, CrashInWrite(c)
    PROVE  PairingInv'
<1>1. CommandGoes(c, "failed") /\ CommandAt(c, "write")
      /\ UNCHANGED <<identityVars, pairings, peerIdentity, pairTime, abortAnswered>>
  BY DEF CrashInWrite
<1>2. /\ command' \in [Commands -> CommandStates]
      /\ command'[c].at = "failed"
      /\ \A d \in Commands \ {c} : command'[d] = command[d]
  BY <1>1, Moves DEF CommandAt, PairingInv
<1> QED
  BY <1>1, <1>2, CommandOnly

LEMMA UpsertRootKeeps ==
    ASSUME PairingInv, NEW c \in Commands, UpsertFabricRootIdentity(c)
    PROVE  PairingInv'
<1>1. /\ CommandGoes(c, "root") /\ CommandAt(c, "bundle")
      /\ fabricRoots' = fabricRoots \union {command[c].fabric}
      /\ UNCHANGED <<secretFile, ownIdentity, pairings, peerIdentity, pairTime, abortAnswered>>
  BY DEF UpsertFabricRootIdentity
<1>2. command[c].fabric = secretFile /\ command[c].fabric \in Commands
  BY <1>1, CommandShape DEF PairingInv, OneFabric, HoldsBundle, CommandAt
<1>3. /\ command' \in [Commands -> CommandStates]
      /\ command'[c] = [command[c] EXCEPT !.at = "root"]
      /\ command'[c].at = "root"
      /\ \A d \in Commands \ {c} : command'[d] = command[d]
  BY <1>1, Moves DEF CommandAt, PairingInv
<1>4. command'[c].fabric = secretFile
  BY <1>1, <1>2, <1>3, CommandShape DEF CommandAt, PairingInv
<1>5. PairingTypeOK'
  BY <1>1, <1>2, <1>3 DEF PairingInv, PairingTypeOK
<1>6. OneFabric'
  BY <1>1, <1>2, <1>3, <1>4 DEF PairingInv, OneFabric, HoldsBundle, CommandAt
<1>7. SessionsAreReal'
  BY <1>1, <1>3 DEF PairingInv, SessionsAreReal, Present, CommandAt
<1>8. EndingsAreFinal'
  BY <1>1 DEF PairingInv, EndingsAreFinal
<1> QED
  BY <1>5, <1>6, <1>7, <1>8 DEF PairingInv

LEMMA UpsertDeviceKeeps ==
    ASSUME PairingInv, NEW c \in Commands, UpsertDevicePublicIdentity(c)
    PROVE  PairingInv'
<1>1. /\ CommandGoes(c, "ready") /\ CommandAt(c, "root")
      /\ ownIdentity' = command[c].fabric
      /\ UNCHANGED <<secretFile, fabricRoots, pairings, peerIdentity, pairTime, abortAnswered>>
  BY DEF UpsertDevicePublicIdentity
<1>2. command[c].fabric = secretFile /\ command[c].fabric \in Commands
  BY <1>1, CommandShape DEF PairingInv, OneFabric, HoldsBundle, CommandAt
<1>3. /\ command' \in [Commands -> CommandStates]
      /\ command'[c] = [command[c] EXCEPT !.at = "ready"]
      /\ command'[c].at = "ready"
      /\ \A d \in Commands \ {c} : command'[d] = command[d]
  BY <1>1, Moves DEF CommandAt, PairingInv
<1>4. command'[c].fabric = secretFile
  BY <1>1, <1>2, <1>3, CommandShape DEF CommandAt, PairingInv
<1>5. PairingTypeOK'
  BY <1>1, <1>2, <1>3 DEF PairingInv, PairingTypeOK, Fabrics
<1>6. OneFabric'
  BY <1>1, <1>2, <1>3, <1>4 DEF PairingInv, OneFabric, HoldsBundle, CommandAt
<1>7. SessionsAreReal'
  BY <1>1, <1>3 DEF PairingInv, SessionsAreReal, Present, CommandAt
<1>8. EndingsAreFinal'
  BY <1>1 DEF PairingInv, EndingsAreFinal
<1> QED
  BY <1>5, <1>6, <1>7, <1>8 DEF PairingInv

LEMMA IssueKeeps ==
    ASSUME PairingInv, NEW c \in Commands, NEW p \in Pairings, IssueDeviceCertificate(c, p)
    PROVE  PairingInv'
<1>1. /\ CommandAt(c, "ready") /\ Present(p)
      /\ UNCHANGED <<identityVars, pairings, peerIdentity, pairTime, abortAnswered>>
  BY DEF IssueDeviceCertificate, Present
<1>2. ASSUME CommandGoes(c, "failed")
      PROVE  PairingInv'
  <2>1. /\ command' \in [Commands -> CommandStates]
        /\ command'[c].at = "failed"
        /\ \A d \in Commands \ {c} : command'[d] = command[d]
    BY <1>1, <1>2, Moves DEF CommandAt, PairingInv
  <2> QED
    BY <1>1, <2>1, CommandOnly
<1>3. ASSUME command' = [command EXCEPT ![c] = [at |-> "issued", fabric |-> command[c].fabric,
                                                pairing |-> p, now |-> pairTime]]
      PROVE  PairingInv'
  <2>1. command[c].fabric = secretFile /\ command[c].fabric \in Commands
    BY <1>1, CommandShape DEF PairingInv, OneFabric, HoldsBundle, CommandAt
  <2>2. [at |-> "issued", fabric |-> command[c].fabric, pairing |-> p, now |-> pairTime]
            \in CommandStates
    BY <2>1 DEF CommandStates, PairingInv, PairingTypeOK
  <2>3. /\ command' \in [Commands -> CommandStates]
        /\ \A d \in Commands \ {c} : command'[d] = command[d]
        /\ command'[c] = [at |-> "issued", fabric |-> command[c].fabric,
                          pairing |-> p, now |-> pairTime]
    BY <1>3, <2>2 DEF PairingInv, PairingTypeOK
  <2> QED
    BY <1>1, <2>1, <2>3, CommandOnly
<1> QED
  BY <1>2, <1>3 DEF IssueDeviceCertificate

LEMMA SelectKeeps ==
    ASSUME PairingInv, NEW c \in Commands, SelectExpired(c)
    PROVE  PairingInv'
<1> DEFINE late == {p \in Pairings : /\ pairings[p].state = "pending"
                                     /\ pairings[p].expires < pairTime}
<1>1. /\ command' = [command EXCEPT ![c] = [at |-> "expiring", ids |-> late]]
      /\ UNCHANGED <<identityVars, pairings, peerIdentity, pairTime, abortAnswered>>
  BY DEF SelectExpired
<1>2. late \in SUBSET Pairings /\ \A p \in late : Present(p)
  BY DEF Present
<1> HIDE DEF late
<1>3. [at |-> "expiring", ids |-> late] \in CommandStates
  BY <1>2 DEF CommandStates
<1>4. /\ command' \in [Commands -> CommandStates]
      /\ \A d \in Commands \ {c} : command'[d] = command[d]
      /\ command'[c] = [at |-> "expiring", ids |-> late]
  BY <1>1, <1>3 DEF PairingInv, PairingTypeOK
<1> QED
  BY <1>1, <1>2, <1>4, CommandOnly
-----------------------------------------------------------------------------
(* The steps that write a session end their command.                        *)

LEMMA SessionStep ==
    ASSUME PairingInv, NEW c \in Commands,
           command[c].at \in {"idle", "ready", "issued", "expiring"}, CommandGoes(c, "done"),
           UNCHANGED <<identityVars, pairTime>>,
           pairings' \in [Pairings -> PairingRows],
           \A p \in Pairings : Present(p) => /\ pairings'[p].state # "absent"
                                             /\ pairings'[p].fabric = pairings[p].fabric,
           \A p \in Pairings : ~Present(p) => \/ pairings'[p].state = "absent"
                                              \/ pairings'[p].fabric = secretFile,
           peerIdentity' \in Pairings \cup {"none"}, abortAnswered' \subseteq Pairings,
           EndingsAreFinal'
    PROVE  PairingInv'
<1>1. /\ command' \in [Commands -> CommandStates]
      /\ command'[c].at = "done"
      /\ \A d \in Commands \ {c} : command'[d] = command[d]
  BY Moves DEF PairingInv
<1>2. PairingTypeOK'
  BY <1>1 DEF PairingInv, PairingTypeOK, identityVars
<1>3. OneFabric'
  BY <1>1 DEF PairingInv, OneFabric, HoldsBundle, CommandAt, identityVars
<1>4. SessionsAreReal'
  <2>1. \A p \in Pairings : Present(p)' => pairings'[p].fabric = secretFile'
    BY DEF PairingInv, SessionsAreReal, Present, identityVars
  <2>2. ASSUME NEW d \in Commands, CommandAt(d, "issued")'
        PROVE  Present(command[d].pairing)'
    <3>1. CommandAt(d, "issued") /\ command'[d] = command[d]
      BY <1>1, <2>2 DEF CommandAt
    <3>2. command[d].pairing \in Pairings
      BY <3>1, CommandShape DEF PairingInv
    <3> QED
      BY <3>1, <3>2 DEF PairingInv, SessionsAreReal, Present
  <2>3. ASSUME NEW d \in Commands, CommandAt(d, "expiring")'
        PROVE  \A p \in command[d].ids : Present(p)'
    <3>1. CommandAt(d, "expiring") /\ command'[d] = command[d]
      BY <1>1, <2>3 DEF CommandAt
    <3>2. command[d].ids \subseteq Pairings
      BY <3>1, CommandShape DEF PairingInv
    <3> QED
      BY <3>1, <3>2 DEF PairingInv, SessionsAreReal, Present
  <2>4. \A d \in Commands : CommandAt(d, "issued")' \/ CommandAt(d, "expiring")' =>
            command'[d] = command[d]
    BY <1>1 DEF CommandAt
  <2> QED
    BY <2>1, <2>2, <2>3, <2>4 DEF SessionsAreReal, Present
<1> QED
  BY <1>2, <1>3, <1>4 DEF PairingInv

LEMMA StartKeeps ==
    ASSUME PairingInv, NEW c \in Commands, NEW p \in Pairings, StartPairingSession(c, p)
    PROVE  PairingInv'
<1> DEFINE row == [state |-> "pending", fabric |-> command[c].fabric, expires |-> pairTime + 1,
                   certifiedBy |-> "none", confirmedAt |-> 0]
<1>1. /\ CommandAt(c, "ready") /\ ~Present(p)
      /\ pairings' = [pairings EXCEPT ![p] = row]
      /\ CommandGoes(c, "done")
      /\ UNCHANGED <<identityVars, peerIdentity, pairTime, abortAnswered>>
  BY DEF StartPairingSession, Present
<1>2. command[c].fabric = secretFile /\ command[c].fabric \in Commands
  BY <1>1, CommandShape DEF PairingInv, OneFabric, HoldsBundle, CommandAt
<1>3. row \in PairingRows
  BY <1>2 DEF PairingRows, PairingInv, PairingTypeOK, Fabrics
<1>4. /\ row.state = "pending" /\ row.fabric = secretFile
      /\ pairings' \in [Pairings -> PairingRows] /\ pairings'[p] = row
      /\ \A q \in Pairings \ {p} : pairings'[q] = pairings[q]
  BY <1>1, <1>2, <1>3 DEF PairingInv, PairingTypeOK
<1> HIDE DEF row
<1>5. EndingsAreFinal'
  <2>1. p \notin abortAnswered
    BY <1>1 DEF PairingInv, EndingsAreFinal, Present
  <2>2. peerIdentity # "none" => peerIdentity \in Pairings \ {p}
    BY <1>1 DEF PairingInv, PairingTypeOK, EndingsAreFinal, Present
  <2>3. \A q \in abortAnswered : q \in Pairings
    BY DEF PairingInv, PairingTypeOK
  <2> QED
    BY <1>1, <1>4, <2>1, <2>2, <2>3 DEF PairingInv, EndingsAreFinal, identityVars
<1>6. \A q \in Pairings : Present(q) => /\ pairings'[q].state # "absent"
                                        /\ pairings'[q].fabric = pairings[q].fabric
  BY <1>1, <1>4 DEF Present
<1>7. \A q \in Pairings : ~Present(q) => \/ pairings'[q].state = "absent"
                                         \/ pairings'[q].fabric = secretFile
  BY <1>4 DEF Present
<1>8. /\ peerIdentity' \in Pairings \cup {"none"} /\ abortAnswered' \subseteq Pairings
      /\ UNCHANGED <<identityVars, pairTime>>
  BY <1>1 DEF PairingInv, PairingTypeOK
<1> QED
  BY <1>1, <1>4, <1>5, <1>6, <1>7, <1>8, SessionStep DEF CommandAt

(* A session's end writes its state and, when confirmed, who and when.      *)
LEMMA EndRow ==
    ASSUME PairingInv, NEW p \in Pairings, Present(p), NEW s \in TerminalPairing
    PROVE  /\ [pairings[p] EXCEPT !.state = s] \in PresentRows
           /\ [pairings[p] EXCEPT !.state = s].state = s
           /\ [pairings[p] EXCEPT !.state = s].fabric = pairings[p].fabric
           /\ [pairings[p] EXCEPT !.state = s].certifiedBy = pairings[p].certifiedBy
           /\ [pairings[p] EXCEPT !.state = s].confirmedAt = pairings[p].confirmedAt
           /\ [pairings[p] EXCEPT !.state = s].expires = pairings[p].expires
BY PresentRow DEF PairingInv, PresentRows

LEMMA AbortKeeps ==
    ASSUME PairingInv, NEW c \in Commands, NEW p \in Pairings, AbortPairingSession(c, p)
    PROVE  PairingInv'
<1>1. /\ CommandAt(c, "idle") /\ Present(p) /\ CommandGoes(c, "done")
      /\ UNCHANGED <<identityVars, peerIdentity, pairTime>>
  BY DEF AbortPairingSession, Present
<1>2. CASE UNCHANGED <<pairings, abortAnswered>>
  <2>1. /\ command' \in [Commands -> CommandStates]
        /\ command'[c].at = "done"
        /\ \A d \in Commands \ {c} : command'[d] = command[d]
    BY <1>1, Moves DEF CommandAt, PairingInv
  <2> QED
    BY <1>1, <1>2, <2>1, CommandOnly
<1>3. CASE /\ pairings[p].state \notin TerminalPairing
           /\ pairings' = [pairings EXCEPT ![p].state = "aborted"]
           /\ abortAnswered' = abortAnswered \union {p}
  <2> DEFINE row == [pairings[p] EXCEPT !.state = "aborted"]
  <2>1. /\ row \in PresentRows /\ row.state = "aborted" /\ row.fabric = pairings[p].fabric
    BY <1>1, EndRow DEF TerminalPairing
  <2>2. row \in PairingRows
    BY <2>1 DEF PresentRows, PairingRows
  <2>3. /\ pairings' \in [Pairings -> PairingRows] /\ pairings'[p] = row
        /\ \A q \in Pairings \ {p} : pairings'[q] = pairings[q]
    BY <1>3, <2>2 DEF PairingInv, PairingTypeOK
  <2> HIDE DEF row
  <2>4. EndingsAreFinal'
    <3>1. peerIdentity # "none" => peerIdentity \in Pairings \ {p}
      BY <1>3 DEF PairingInv, PairingTypeOK, EndingsAreFinal, TerminalPairing
    <3>2. \A q \in abortAnswered : q \in Pairings
      BY DEF PairingInv, PairingTypeOK
    <3> QED
      BY <1>1, <1>3, <2>1, <2>3, <3>1, <3>2 DEF PairingInv, EndingsAreFinal, identityVars
  <2>5. \A q \in Pairings : Present(q) => /\ pairings'[q].state # "absent"
                                          /\ pairings'[q].fabric = pairings[q].fabric
    BY <2>1, <2>3 DEF Present
  <2>6. \A q \in Pairings : ~Present(q) => pairings'[q].state = "absent"
    BY <1>1, <2>3 DEF Present
  <2>7. /\ peerIdentity' \in Pairings \cup {"none"} /\ abortAnswered' \subseteq Pairings
        /\ UNCHANGED <<identityVars, pairTime>>
    BY <1>1, <1>3 DEF PairingInv, PairingTypeOK
  <2> QED
    BY <1>1, <2>3, <2>4, <2>5, <2>6, <2>7, SessionStep DEF CommandAt
<1> QED
  BY <1>2, <1>3 DEF AbortPairingSession

LEMMA ExpireKeeps ==
    ASSUME PairingInv, NEW c \in Commands, ExpirePairingSessions(c)
    PROVE  PairingInv'
<1>1. /\ CommandAt(c, "expiring") /\ CommandGoes(c, "done")
      /\ UNCHANGED <<identityVars, peerIdentity, pairTime, abortAnswered>>
      /\ pairings' = [p \in Pairings |->
             IF p \in command[c].ids THEN [pairings[p] EXCEPT !.state = "expired"]
                                     ELSE pairings[p]]
  BY DEF ExpirePairingSessions
<1>2. command[c].ids \subseteq Pairings /\ \A p \in command[c].ids : Present(p)
  BY <1>1, CommandShape DEF PairingInv, SessionsAreReal
<1>3. ASSUME NEW p \in command[c].ids
      PROVE  /\ pairings'[p] \in PairingRows /\ pairings'[p].state = "expired"
             /\ pairings'[p].fabric = pairings[p].fabric
             /\ pairings'[p].certifiedBy = pairings[p].certifiedBy
             /\ pairings'[p].confirmedAt = pairings[p].confirmedAt
             /\ pairings'[p].expires = pairings[p].expires
  <2>1. pairings'[p] = [pairings[p] EXCEPT !.state = "expired"]
    BY <1>1, <1>2, <1>3
  <2> QED
    BY <2>1, <1>2, <1>3, EndRow DEF TerminalPairing, PairingRows, PresentRows
<1>4. \A p \in Pairings \ command[c].ids : pairings'[p] = pairings[p]
  BY <1>1
<1>5. pairings' \in [Pairings -> PairingRows]
  <2>1. \A p \in Pairings : pairings'[p] \in PairingRows
    BY <1>3, <1>4 DEF PairingInv, PairingTypeOK
  <2> QED
    BY <1>1, <2>1
<1>6. EndingsAreFinal'
  <2>1. \A q \in abortAnswered' : pairings'[q].state \in {"aborted", "expired"}
    BY <1>1, <1>3, <1>4 DEF PairingInv, EndingsAreFinal, PairingTypeOK
  <2>2. ASSUME peerIdentity # "none"
        PROVE  /\ pairings'[peerIdentity].state \in {"confirmed", "expired"}
               /\ peerIdentity \notin abortAnswered'
               /\ pairings'[peerIdentity].certifiedBy = secretFile
               /\ pairings'[peerIdentity].confirmedAt <= pairings'[peerIdentity].expires
    BY <2>2, <1>1, <1>3, <1>4 DEF PairingInv, EndingsAreFinal, PairingTypeOK
  <2> QED
    BY <2>1, <2>2, <1>1 DEF EndingsAreFinal, identityVars
<1>7. \A q \in Pairings : Present(q) => /\ pairings'[q].state # "absent"
                                        /\ pairings'[q].fabric = pairings[q].fabric
  BY <1>3, <1>4 DEF Present
<1>8. \A q \in Pairings : ~Present(q) => pairings'[q].state = "absent"
  BY <1>2, <1>4 DEF Present
<1>9. /\ peerIdentity' \in Pairings \cup {"none"} /\ abortAnswered' \subseteq Pairings
      /\ UNCHANGED <<identityVars, pairTime>>
  BY <1>1 DEF PairingInv, PairingTypeOK
<1> QED
  BY <1>1, <1>5, <1>6, <1>7, <1>8, <1>9, SessionStep DEF CommandAt

LEMMA ConfirmKeeps ==
    ASSUME PairingInv, NEW c \in Commands, NEW ok \in BOOLEAN, ConfirmPairingSession(c, ok)
    PROVE  PairingInv'
<1> DEFINE p == command[c].pairing
           now == command[c].now
           row == [[[pairings[p] EXCEPT !.state = "confirmed"]
                                 EXCEPT !.certifiedBy = command[c].fabric]
                                 EXCEPT !.confirmedAt = now]
<1>1. /\ CommandAt(c, "issued") /\ CommandGoes(c, "done")
      /\ UNCHANGED <<identityVars, pairTime, abortAnswered>>
  BY DEF ConfirmPairingSession
<1>2. /\ p \in Pairings /\ now \in Nat /\ Present(p)
      /\ command[c].fabric = secretFile /\ command[c].fabric \in Commands
  BY <1>1, CommandShape DEF PairingInv, OneFabric, HoldsBundle, CommandAt, SessionsAreReal
<1>3. CASE UNCHANGED <<pairings, peerIdentity>>
  <2>1. /\ command' \in [Commands -> CommandStates]
        /\ command'[c].at = "done"
        /\ \A d \in Commands \ {c} : command'[d] = command[d]
    BY <1>1, Moves DEF CommandAt, PairingInv
  <2> QED
    BY <1>1, <1>3, <2>1, CommandOnly
<1>4. CASE /\ pairings[p].state \notin TerminalPairing
           /\ pairings' = [pairings EXCEPT ![p].state = "expired"]
           /\ UNCHANGED peerIdentity
  <2>1. /\ pairings' \in [Pairings -> PairingRows]
        /\ pairings'[p] = [pairings[p] EXCEPT !.state = "expired"]
        /\ \A q \in Pairings \ {p} : pairings'[q] = pairings[q]
    BY <1>2, <1>4, EndRow DEF PairingInv, PairingTypeOK, TerminalPairing, PairingRows, PresentRows
  <2>2. pairings'[p].state = "expired" /\ pairings'[p].fabric = pairings[p].fabric
    BY <1>2, <2>1, EndRow DEF TerminalPairing
  <2>3. EndingsAreFinal'
    <3>1. peerIdentity # "none" => peerIdentity \in Pairings \ {p}
      BY <1>4 DEF PairingInv, PairingTypeOK, EndingsAreFinal, TerminalPairing
    <3>2. \A q \in abortAnswered : q \in Pairings
      BY DEF PairingInv, PairingTypeOK
    <3> QED
      BY <1>1, <1>4, <2>1, <2>2, <3>1, <3>2 DEF PairingInv, EndingsAreFinal, identityVars
  <2>4. \A q \in Pairings : Present(q) => /\ pairings'[q].state # "absent"
                                          /\ pairings'[q].fabric = pairings[q].fabric
    BY <2>1, <2>2 DEF Present
  <2>5. \A q \in Pairings : ~Present(q) => pairings'[q].state = "absent"
    BY <1>2, <2>1 DEF Present
  <2>6. /\ peerIdentity' \in Pairings \cup {"none"} /\ abortAnswered' \subseteq Pairings
        /\ UNCHANGED <<identityVars, pairTime>>
    BY <1>1, <1>4 DEF PairingInv, PairingTypeOK
  <2> QED
    BY <1>1, <2>1, <2>3, <2>4, <2>5, <2>6, SessionStep DEF CommandAt
<1>5. CASE /\ pairings[p].state \notin TerminalPairing
           /\ ~(now > pairings[p].expires)
           /\ pairings' = [pairings EXCEPT ![p].state = "confirmed",
                                           ![p].certifiedBy = command[c].fabric,
                                           ![p].confirmedAt = now]
           /\ peerIdentity' = p
  <2>1. pairings[p] \in PresentRows
    BY <1>2, PresentRow DEF PairingInv
  <2>2. /\ row \in PairingRows /\ row.state = "confirmed" /\ row.fabric = pairings[p].fabric
        /\ row.certifiedBy = secretFile /\ row.confirmedAt = now
        /\ row.expires = pairings[p].expires
    BY <1>2, <2>1 DEF PresentRows, PairingRows, TerminalPairing, Fabrics
  <2>3. pairings' = [pairings EXCEPT ![p] = row]
    BY <1>2, <1>5, <2>1 DEF PairingInv, PairingTypeOK, PresentRows
  <2>4. /\ pairings' \in [Pairings -> PairingRows]
        /\ pairings'[p] = row
        /\ \A q \in Pairings \ {p} : pairings'[q] = pairings[q]
    BY <1>2, <2>2, <2>3 DEF PairingInv, PairingTypeOK
  <2>5. now <= pairings[p].expires
    BY <1>2, <1>5, <2>1 DEF PresentRows
  <2>6. p \notin abortAnswered
    BY <1>5 DEF PairingInv, EndingsAreFinal, TerminalPairing
  <2> HIDE DEF row
  <2>7. EndingsAreFinal'
    <3>1. \A q \in abortAnswered : q \in Pairings \ {p}
      BY <2>6 DEF PairingInv, PairingTypeOK
    <3>2. \A q \in abortAnswered' : pairings'[q].state \in {"aborted", "expired"}
      BY <1>1, <2>4, <3>1 DEF PairingInv, EndingsAreFinal
    <3>3. /\ pairings'[p].state = "confirmed" /\ p \notin abortAnswered'
          /\ pairings'[p].certifiedBy = secretFile'
          /\ pairings'[p].confirmedAt <= pairings'[p].expires
      BY <1>1, <2>2, <2>4, <2>5, <2>6 DEF identityVars
    <3> HIDE DEF p
    <3> QED
      BY <1>5, <3>2, <3>3 DEF EndingsAreFinal
  <2>8. \A q \in Pairings : Present(q) => /\ pairings'[q].state # "absent"
                                          /\ pairings'[q].fabric = pairings[q].fabric
    BY <2>2, <2>4 DEF Present
  <2>9. \A q \in Pairings : ~Present(q) => pairings'[q].state = "absent"
    BY <1>2, <2>4 DEF Present
  <2>10. /\ peerIdentity' \in Pairings \cup {"none"} /\ abortAnswered' \subseteq Pairings
         /\ UNCHANGED <<identityVars, pairTime>>
    BY <1>1, <1>2, <1>5 DEF PairingInv, PairingTypeOK
  <2> QED
    BY <1>1, <2>4, <2>7, <2>8, <2>9, <2>10, SessionStep DEF CommandAt
<1> QED
  BY <1>3, <1>4, <1>5 DEF ConfirmPairingSession
-----------------------------------------------------------------------------
(* Together: the commands and the clock.                                    *)

LEMMA PairingInitInv == PairingInit => PairingInv
<1> SUFFICES ASSUME PairingInit
             PROVE  PairingInv
  OBVIOUS
<1>1. PairingTypeOK
  BY DEF PairingInit, PairingTypeOK, Fabrics, PairingRows, CommandStates
<1>2. \A c \in Commands : command[c].at = "idle"
  BY DEF PairingInit
<1>3. \A p \in Pairings : ~Present(p)
  BY DEF PairingInit, Present
<1>4. OneFabric
  BY <1>2 DEF PairingInit, OneFabric, HoldsBundle, CommandAt
<1>5. SessionsAreReal
  BY <1>2, <1>3 DEF SessionsAreReal, CommandAt
<1>6. EndingsAreFinal
  BY DEF PairingInit, EndingsAreFinal
<1> QED
  BY <1>1, <1>4, <1>5, <1>6 DEF PairingInv

LEMMA PairingStep == PairingInv /\ [PairingNext]_pairingVars => PairingInv'
<1> SUFFICES ASSUME PairingInv, [PairingNext]_pairingVars
             PROVE  PairingInv'
  OBVIOUS
<1>1. ASSUME NEW c \in Commands,
             \/ OpenIdentity(c) \/ CreateSecret(c) \/ WriteSecret(c) \/ CrashInWrite(c)
             \/ UpsertFabricRootIdentity(c) \/ UpsertDevicePublicIdentity(c)
      PROVE  PairingInv'
  BY <1>1, OpenKeeps, CreateKeeps, WriteKeeps, CrashKeeps, UpsertRootKeeps, UpsertDeviceKeeps
<1>2. ASSUME NEW c \in Commands,
             \/ SelectExpired(c) \/ ExpirePairingSessions(c)
             \/ \E ok \in BOOLEAN : ConfirmPairingSession(c, ok)
      PROVE  PairingInv'
  BY <1>2, SelectKeeps, ExpireKeeps, ConfirmKeeps
<1>3. ASSUME NEW c \in Commands, NEW p \in Pairings,
             \/ StartPairingSession(c, p) \/ IssueDeviceCertificate(c, p)
             \/ AbortPairingSession(c, p)
      PROVE  PairingInv'
  BY <1>3, StartKeeps, IssueKeeps, AbortKeeps
<1>4. ASSUME UNCHANGED <<identityVars, pairings, peerIdentity, command, abortAnswered>>,
             pairTime' \in Nat
      PROVE  PairingInv'
  <2>1. PairingTypeOK'
    BY <1>4 DEF PairingInv, PairingTypeOK, identityVars
  <2>2. OneFabric'
    BY <1>4 DEF PairingInv, OneFabric, HoldsBundle, CommandAt, identityVars
  <2>3. SessionsAreReal'
    BY <1>4 DEF PairingInv, SessionsAreReal, Present, CommandAt, identityVars
  <2>4. EndingsAreFinal'
    BY <1>4 DEF PairingInv, EndingsAreFinal, identityVars
  <2> QED
    BY <2>1, <2>2, <2>3, <2>4 DEF PairingInv
<1>5. CASE PairingTick
  BY <1>4, <1>5 DEF PairingTick, PairingInv, PairingTypeOK
<1>6. CASE UNCHANGED pairingVars
  BY <1>4, <1>6 DEF pairingVars, identityVars, PairingInv, PairingTypeOK
<1> QED
  BY <1>1, <1>2, <1>3, <1>5, <1>6 DEF PairingNext

(* For any number of processes that start at the same time and any number  *)
(* of sessions: one fabric, and a peer in the table was certified by it,   *)
(* confirmed in time, and by a session whose abort nobody was told of      *)
(* (open_or_create of the identity store, confirm, abort and expiry of     *)
(* pairing sessions).                                                      *)
THEOREM PeersArePairedOnceAlways == PairingSpec => []PeersArePairedOnce
<1>1. PairingInv => PeersArePairedOnce
  <2> SUFFICES ASSUME PairingInv
               PROVE  PeersArePairedOnce
    OBVIOUS
  <2>1. abortAnswered \intersect {p \in Pairings : pairings[p].state = "confirmed"} = {}
    BY DEF PairingInv, EndingsAreFinal
  <2>2. /\ \A f \in fabricRoots : secretFile = f
        /\ ownIdentity # "none" => ownIdentity = secretFile
    BY DEF PairingInv, OneFabric
  <2>3. peerIdentity # "none" =>
            /\ peerIdentity \notin abortAnswered
            /\ pairings[peerIdentity].certifiedBy = secretFile
            /\ pairings[peerIdentity].confirmedAt <= pairings[peerIdentity].expires
    BY DEF PairingInv, EndingsAreFinal
  <2> HIDE DEF PairingInv
  <2> QED
    BY <2>1, <2>2, <2>3 DEF PeersArePairedOnce
<1> QED
  BY <1>1, PairingInitInv, PairingStep, PTL DEF PairingSpec

(***************************************************************************)
(* Backups of an anchor                                                    *)
(***************************************************************************)

BackupSpec == BackupInit /\ [][BackupNext]_backupVars

BackupTimes == 0 .. MaxBackupTime
Databases == [rows : SUBSET Works, revoked : [Revocable -> Nat]]
Manifests == [db : Databases, refs : SUBSET Works, cas : SUBSET Works, time : BackupTimes]
BackupDirectories == [db : Databases \cup {Missing}, refs : SUBSET Works,
                      cas : SUBSET Works, manifest : Manifests \cup {Missing}]
Generations == [id : [db : Databases \cup {Missing}, cas : SUBSET Works, time : BackupTimes],
                db : Databases \cup {Missing}, refs : SUBSET Works, cas : SUBSET Works,
                manifest : Manifests \cup {Missing}]

CopySteps == {"metadata", "hash", "repositories", "cas", "manifest", "rename"}
RunStates ==
    [pc : {"ready", "done"}]
    \cup [pc : CopySteps, time : BackupTimes, db : Databases \cup {Missing},
          refs : SUBSET Works, cas : SUBSET Works]

(* A copy of the database that was made at the given time or later, of an  *)
(* anchor whose database is known by now: it knows what the anchor knew    *)
(* then, except what was revoked since.                                     *)
Copied(known, now, db, time) ==
    db # Missing =>
        /\ time <= now
        /\ db.rows \subseteq known.rows
        /\ \A d \in Revocable : \/ db.revoked[d] = known.revoked[d]
                                \/ known.revoked[d] >= time

(* A manifest lists the refs and sidecars of every row of its database.     *)
Sound(known, now, manifest) ==
    manifest # Missing =>
        /\ Copied(known, now, manifest.db, manifest.time)
        /\ manifest.db.rows \subseteq manifest.refs
        /\ manifest.db.rows \subseteq manifest.cas

(* A run has copied, after its database, what that names.                   *)
RunOK(known, now, run) ==
    /\ run.pc \in CopySteps => run.time <= now
    /\ run.pc \in {"repositories", "cas", "manifest", "rename"} =>
          run.db # Missing /\ Copied(known, now, run.db, run.time)
    /\ run.pc \in {"cas", "manifest", "rename"} => run.db.rows \subseteq run.refs
    /\ run.pc \in {"manifest", "rename"} => run.db.rows \subseteq run.cas

(* Two runs of a second may mix in one directory, but each of its files is *)
(* what one of them copied.                                                 *)
DirectoryOK(known, now, files, time) ==
    files # Missing => /\ Copied(known, now, files.db, time)
                       /\ Sound(known, now, files.manifest)

GenerationOK(known, now, g) ==
    /\ g \in Generations
    /\ Sound(known, now, g.manifest)

(* The anchor stores refs, then the sidecar, then the row.                  *)
AnchorInOrder ==
    /\ backupTime \in BackupTimes
    /\ anchor \in [refs : SUBSET Works, cas : SUBSET Works, db : Databases]
    /\ anchor.db.rows \subseteq anchor.cas
    /\ anchor.cas \subseteq anchor.refs

RunsInOrder ==
    /\ backups \in [Backups -> RunStates]
    /\ \A b \in Backups : RunOK(anchor.db, backupTime, backups[b])

StagingInOrder ==
    /\ staging \in [BackupTimes -> BackupDirectories \cup {Missing}]
    /\ \A t \in BackupTimes : DirectoryOK(anchor.db, backupTime, staging[t], t)

GenerationsInOrder == \A g \in generations : GenerationOK(anchor.db, backupTime, g)

Restores == [pc : {"metadata", "repositories", "cas", "audit"}, from : Generations,
             promote : BOOLEAN, allowStale : BOOLEAN, began : BackupTimes]

Homes == [db : Databases \cup {Missing}, refs : SUBSET Works, cas : SUBSET Works,
          whole : BOOLEAN, promoted : [at : BackupTimes, stale : BOOLEAN] \cup {Missing}]

(* A restore reads a verified generation, and a promotion one young enough. *)
RestorerInOrder ==
    restorer.pc # "idle" =>
        /\ restorer \in Restores
        /\ GenerationOK(anchor.db, backupTime, restorer.from) /\ Verified(restorer.from)
        /\ restorer.began <= backupTime
        /\ restorer.promote /\ ~restorer.allowStale =>
              restorer.began - restorer.from.manifest.time <= MaxAge
        /\ restorer.pc = "metadata" <=> home.db = Missing
        /\ restorer.pc # "metadata" => home.db = restorer.from.db
        /\ restorer.pc \in {"cas", "audit"} => restorer.from.refs \subseteq home.refs
        /\ restorer.pc = "audit" => restorer.promote

(* What a home has been given, and what it was promoted with.               *)
HomeInOrder ==
    /\ home \in Homes
    /\ home.db = Missing => ~home.whole /\ home.promoted = Missing
    /\ home.whole => home.db.rows \subseteq home.refs /\ home.db.rows \subseteq home.cas
    /\ home.promoted # Missing =>
          /\ home.promoted.at <= backupTime
          /\ ~home.promoted.stale =>
                \A d \in Revocable :
                    anchor.db.revoked[d] < home.promoted.at - MaxAge =>
                        home.db.revoked[d] = anchor.db.revoked[d]

BackupInv ==
    /\ AnchorInOrder /\ RunsInOrder /\ StagingInOrder
    /\ GenerationsInOrder /\ RestorerInOrder /\ HomeInOrder
-----------------------------------------------------------------------------
(* What is copied stays sound while the anchor works on.                    *)

(* The anchor publishes and revokes, and time passes.                       *)
WorksOn ==
    /\ AnchorInOrder'
    /\ backupTime <= backupTime'
    /\ anchor.db.rows \subseteq anchor'.db.rows
    /\ \A d \in Revocable : \/ anchor'.db.revoked[d] = anchor.db.revoked[d]
                            \/ anchor'.db.revoked[d] >= backupTime

LEMMA DatabasePresent == \A db \in Databases : db # Missing
<1> SUFFICES ASSUME NEW db \in Databases
             PROVE  db # Missing
  OBVIOUS
<1>1. DOMAIN db = {"rows", "revoked"}
  BY DEF Databases
<1>2. DOMAIN Missing = {"missing"}
  BY DEF Missing
<1> QED
  BY <1>1, <1>2

LEMMA CopiedNow ==
    ASSUME AnchorInOrder, NEW t \in BackupTimes, t <= backupTime
    PROVE  Copied(anchor.db, backupTime, anchor.db, t)
BY DEF AnchorInOrder, Copied

LEMMA CopiedStays ==
    ASSUME AnchorInOrder, WorksOn, NEW db, NEW t \in BackupTimes,
           Copied(anchor.db, backupTime, db, t)
    PROVE  Copied(anchor'.db, backupTime', db, t)
<1> SUFFICES ASSUME db # Missing
             PROVE  Copied(anchor'.db, backupTime', db, t)
  BY DEF Copied
<1>1. t \in Nat /\ backupTime \in Nat /\ backupTime' \in Nat /\ backupTime <= backupTime'
  BY BackupAssumption DEF BackupTimes, AnchorInOrder, WorksOn
<1>2. t <= backupTime'
  BY <1>1 DEF Copied
<1>3. db.rows \subseteq anchor'.db.rows
  BY DEF Copied, WorksOn
<1>4. ASSUME NEW d \in Revocable
      PROVE  db.revoked[d] = anchor'.db.revoked[d] \/ anchor'.db.revoked[d] >= t
  <2>1. anchor'.db.revoked[d] \in Nat
    BY DEF WorksOn, AnchorInOrder, Databases
  <2>2. db.revoked[d] = anchor.db.revoked[d] \/ anchor.db.revoked[d] >= t
    BY DEF Copied
  <2>3. t <= backupTime
    BY DEF Copied
  <2>4. anchor'.db.revoked[d] = anchor.db.revoked[d] \/ anchor'.db.revoked[d] >= backupTime
    BY DEF WorksOn
  <2> QED
    BY <1>1, <2>1, <2>2, <2>3, <2>4
<1> QED
  BY <1>2, <1>3, <1>4 DEF Copied

LEMMA SoundStays ==
    ASSUME AnchorInOrder, WorksOn, NEW m \in Manifests \cup {Missing},
           Sound(anchor.db, backupTime, m)
    PROVE  Sound(anchor'.db, backupTime', m)
<1> SUFFICES ASSUME m # Missing
             PROVE  Sound(anchor'.db, backupTime', m)
  BY DEF Sound
<1>1. m.time \in BackupTimes
  BY DEF Manifests
<1> QED
  BY <1>1, CopiedStays DEF Sound

LEMMA GenerationStays ==
    ASSUME AnchorInOrder, WorksOn, NEW g, GenerationOK(anchor.db, backupTime, g)
    PROVE  GenerationOK(anchor'.db, backupTime', g)
<1>1. g.manifest \in Manifests \cup {Missing}
  BY DEF GenerationOK, Generations
<1> QED
  BY <1>1, SoundStays DEF GenerationOK

LEMMA DirectoryStays ==
    ASSUME AnchorInOrder, WorksOn, NEW files \in BackupDirectories \cup {Missing}, NEW t \in BackupTimes,
           DirectoryOK(anchor.db, backupTime, files, t)
    PROVE  DirectoryOK(anchor'.db, backupTime', files, t)
<1> SUFFICES ASSUME files # Missing
             PROVE  DirectoryOK(anchor'.db, backupTime', files, t)
  BY DEF DirectoryOK
<1>1. files.manifest \in Manifests \cup {Missing}
  BY DEF BackupDirectories
<1> QED
  BY <1>1, CopiedStays, SoundStays DEF DirectoryOK

LEMMA RunStays ==
    ASSUME AnchorInOrder, WorksOn, NEW run \in RunStates, RunOK(anchor.db, backupTime, run)
    PROVE  RunOK(anchor'.db, backupTime', run)
<1>1. ASSUME run.pc \in CopySteps
      PROVE  run.time <= backupTime'
  <2>1. run.time \in BackupTimes /\ run.time <= backupTime
    BY <1>1 DEF RunStates, RunOK, CopySteps
  <2> QED
    BY <2>1, BackupAssumption DEF WorksOn, AnchorInOrder, BackupTimes
<1>2. ASSUME run.pc \in {"repositories", "cas", "manifest", "rename"}
      PROVE  run.db # Missing /\ Copied(anchor'.db, backupTime', run.db, run.time)
  <2>1. run.time \in BackupTimes
    BY <1>2 DEF RunStates, CopySteps
  <2> QED
    BY <2>1, <1>2, CopiedStays DEF RunOK
<1> QED
  BY <1>1, <1>2 DEF RunOK

LEMMA WorksOnKeeps ==
    ASSUME BackupInv, WorksOn, UNCHANGED <<backups, staging, generations, home, restorer>>
    PROVE  BackupInv'
<1>1. RunsInOrder'
  <2>1. \A b \in Backups : RunOK(anchor'.db, backupTime', backups[b])
    BY RunStays DEF BackupInv, RunsInOrder
  <2> QED
    BY <2>1 DEF BackupInv, RunsInOrder
<1>2. StagingInOrder'
  <2>1. \A t \in BackupTimes : DirectoryOK(anchor'.db, backupTime', staging[t], t)
    BY DirectoryStays DEF BackupInv, StagingInOrder
  <2> QED
    BY <2>1 DEF BackupInv, StagingInOrder
<1>3. GenerationsInOrder'
  BY GenerationStays DEF BackupInv, GenerationsInOrder
<1>4. RestorerInOrder'
  <2> SUFFICES ASSUME restorer.pc # "idle"
               PROVE  RestorerInOrder'
    BY DEF RestorerInOrder
  <2>1. GenerationOK(anchor'.db, backupTime', restorer.from)
    BY GenerationStays DEF BackupInv, RestorerInOrder
  <2>2. restorer.began <= backupTime'
    BY BackupAssumption DEF Restores, BackupInv, RestorerInOrder, WorksOn, AnchorInOrder, BackupTimes
  <2> QED
    BY <2>1, <2>2, Zenon DEF BackupInv, RestorerInOrder, Verified
<1>5. HomeInOrder'
  <2>1. ASSUME home.promoted # Missing
        PROVE  home.promoted.at <= backupTime'
    BY <2>1, BackupAssumption DEF Homes, BackupInv, HomeInOrder, WorksOn, AnchorInOrder, BackupTimes
  <2>2. ASSUME home.promoted # Missing, ~home.promoted.stale, NEW d \in Revocable,
               anchor'.db.revoked[d] < home.promoted.at - MaxAge
        PROVE  home.db.revoked[d] = anchor'.db.revoked[d]
    <3>1. /\ home.promoted.at \in Nat /\ home.promoted.at <= backupTime
          /\ backupTime \in Nat /\ MaxAge \in Nat
      BY <2>2, BackupAssumption DEF Homes, BackupInv, HomeInOrder, AnchorInOrder, BackupTimes
    <3>2. anchor'.db.revoked[d] \in Nat /\ anchor.db.revoked[d] \in Nat
      BY DEF BackupInv, WorksOn, AnchorInOrder, Databases
    <3>3. ~(anchor'.db.revoked[d] >= backupTime)
      BY <2>2, <3>1, <3>2
    <3>4. anchor'.db.revoked[d] = anchor.db.revoked[d]
      BY <3>3 DEF WorksOn
    <3> QED
      BY <2>2, <3>4 DEF BackupInv, HomeInOrder
  <2> QED
    BY <2>1, <2>2, Zenon DEF BackupInv, HomeInOrder
<1> QED
  BY <1>1, <1>2, <1>3, <1>4, <1>5 DEF BackupInv, WorksOn

LEMMA AnchorSteps ==
    ASSUME BackupInv,
           \/ \E w \in Works : AnchorStoresRefs(w) \/ AnchorStoresSidecar(w) \/ AnchorPublishes(w)
           \/ \E d \in Revocable : AnchorRevokes(d)
           \/ BackupClock
    PROVE  BackupInv'
<1> DEFINE Anchors == [refs : SUBSET Works, cas : SUBSET Works, db : Databases]
<1>1. /\ anchor \in Anchors /\ backupTime \in BackupTimes /\ backupTime \in Nat
      /\ anchor.db.rows \subseteq anchor.cas /\ anchor.cas \subseteq anchor.refs
  BY BackupAssumption DEF BackupInv, AnchorInOrder, BackupTimes
<1>2. ASSUME NEW w \in Works, AnchorStoresRefs(w)
      PROVE  BackupInv'
  <2>1. /\ anchor' \in Anchors /\ anchor'.db = anchor.db /\ anchor'.cas = anchor.cas
        /\ anchor.refs \subseteq anchor'.refs
    BY <1>1, <1>2 DEF AnchorStoresRefs
  <2>2. WorksOn
    BY <1>1, <1>2, <2>1 DEF WorksOn, AnchorInOrder, AnchorStoresRefs
  <2> QED
    BY <1>2, <2>2, WorksOnKeeps DEF AnchorStoresRefs
<1>3. ASSUME NEW w \in Works, AnchorStoresSidecar(w)
      PROVE  BackupInv'
  <2>1. /\ anchor' \in Anchors /\ anchor'.db = anchor.db /\ anchor'.refs = anchor.refs
        /\ anchor'.cas = anchor.cas \cup {w} /\ w \in anchor.refs
    BY <1>1, <1>3 DEF AnchorStoresSidecar
  <2>2. WorksOn
    BY <1>1, <1>3, <2>1 DEF WorksOn, AnchorInOrder, AnchorStoresSidecar
  <2> QED
    BY <1>3, <2>2, WorksOnKeeps DEF AnchorStoresSidecar
<1>4. ASSUME NEW w \in Works, AnchorPublishes(w)
      PROVE  BackupInv'
  <2>1. /\ anchor' \in Anchors /\ anchor'.db.revoked = anchor.db.revoked
        /\ anchor'.refs = anchor.refs /\ anchor'.cas = anchor.cas
        /\ anchor'.db.rows = anchor.db.rows \cup {w} /\ w \in anchor.cas
    BY <1>1, <1>4 DEF AnchorPublishes, Databases
  <2>2. WorksOn
    BY <1>1, <1>4, <2>1 DEF WorksOn, AnchorInOrder, AnchorPublishes
  <2> QED
    BY <1>4, <2>2, WorksOnKeeps DEF AnchorPublishes
<1>5. ASSUME NEW d \in Revocable, AnchorRevokes(d)
      PROVE  BackupInv'
  <2>1. /\ anchor' \in Anchors /\ anchor'.db.rows = anchor.db.rows
        /\ anchor'.refs = anchor.refs /\ anchor'.cas = anchor.cas
        /\ anchor'.db.revoked = [anchor.db.revoked EXCEPT ![d] = backupTime]
    BY <1>1, <1>5 DEF AnchorRevokes, Databases
  <2>2. \A e \in Revocable : \/ anchor'.db.revoked[e] = anchor.db.revoked[e]
                             \/ anchor'.db.revoked[e] >= backupTime
    BY <1>1, <2>1 DEF Databases
  <2>3. WorksOn
    BY <1>1, <1>5, <2>1, <2>2 DEF WorksOn, AnchorInOrder, AnchorRevokes
  <2> QED
    BY <1>5, <2>3, WorksOnKeeps DEF AnchorRevokes
<1>6. ASSUME BackupClock
      PROVE  BackupInv'
  <2>1. backupTime' \in BackupTimes /\ backupTime <= backupTime' /\ anchor' = anchor
    BY <1>1, <1>6, BackupAssumption DEF BackupClock, BackupTimes
  <2>2. WorksOn
    BY <1>1, <2>1 DEF WorksOn, AnchorInOrder
  <2> QED
    BY <1>6, <2>2, WorksOnKeeps DEF BackupClock
<1> QED
  BY <1>2, <1>3, <1>4, <1>5, <1>6
-----------------------------------------------------------------------------
(* The copies of a run.                                                     *)

ActiveRuns == [pc : CopySteps, time : BackupTimes, db : Databases \cup {Missing},
               refs : SUBSET Works, cas : SUBSET Works]

LEMMA ActiveRun ==
    ASSUME BackupInv, NEW b \in Backups, backups[b].pc \in CopySteps
    PROVE  /\ backups[b] \in ActiveRuns
           /\ RunOK(anchor.db, backupTime, backups[b])
           /\ staging[backups[b].time] \in BackupDirectories \cup {Missing}
           /\ DirectoryOK(anchor.db, backupTime, staging[backups[b].time], backups[b].time)
<1>1. backups[b] \in RunStates /\ RunOK(anchor.db, backupTime, backups[b])
  BY DEF BackupInv, RunsInOrder
<1>2. backups[b] \in ActiveRuns
  BY <1>1 DEF RunStates, ActiveRuns, CopySteps
<1>3. backups[b].time \in BackupTimes
  BY <1>2 DEF ActiveRuns
<1> QED
  BY <1>1, <1>2, <1>3 DEF BackupInv, StagingInOrder

LEMMA RunChanges ==
    ASSUME BackupInv, UNCHANGED <<anchor, backupTime>>, NEW b \in Backups,
           NEW run \in RunStates, RunOK(anchor.db, backupTime, run),
           backups' = [backups EXCEPT ![b] = run]
    PROVE  RunsInOrder'
BY DEF BackupInv, RunsInOrder

LEMMA StagingChanges ==
    ASSUME BackupInv, UNCHANGED <<anchor, backupTime>>, NEW t \in BackupTimes,
           NEW files \in BackupDirectories \cup {Missing},
           DirectoryOK(anchor.db, backupTime, files, t),
           staging' = [staging EXCEPT ![t] = files]
    PROVE  StagingInOrder'
BY DEF BackupInv, StagingInOrder

LEMMA RestStays ==
    ASSUME BackupInv, UNCHANGED <<anchor, home, restorer, backupTime>>,
           RunsInOrder', StagingInOrder', GenerationsInOrder'
    PROVE  BackupInv'
<1>1. AnchorInOrder'
  BY DEF BackupInv, AnchorInOrder
<1>2. RestorerInOrder'
  BY Zenon DEF BackupInv, RestorerInOrder
<1>3. HomeInOrder'
  BY Zenon DEF BackupInv, HomeInOrder
<1> QED
  BY <1>1, <1>2, <1>3 DEF BackupInv

LEMMA StagingUnchanged ==
    ASSUME BackupInv, UNCHANGED <<anchor, staging, backupTime>>
    PROVE  StagingInOrder'
BY DEF BackupInv, StagingInOrder

LEMMA GenerationsUnchanged ==
    ASSUME BackupInv, UNCHANGED <<anchor, generations, backupTime>>
    PROVE  GenerationsInOrder'
BY DEF BackupInv, GenerationsInOrder

LEMMA NoFilesOK ==
    /\ NoFiles \in BackupDirectories
    /\ \A t \in BackupTimes : DirectoryOK(anchor.db, backupTime, NoFiles, t)
<1>1. NoFiles \in BackupDirectories /\ NoFiles.db = Missing /\ NoFiles.manifest = Missing
  BY DEF NoFiles, BackupDirectories
<1> QED
  BY <1>1 DEF DirectoryOK, Copied, Sound

LEMMA BeginsKeeps ==
    ASSUME BackupInv, NEW b \in Backups, BackupBegins(b)
    PROVE  BackupInv'
<1> DEFINE run == [pc |-> "metadata", time |-> backupTime, db |-> Missing, refs |-> {}, cas |-> {}]
<1>1. /\ backups' = [backups EXCEPT ![b] = run]
      /\ staging' = [staging EXCEPT ![backupTime] = NoFiles]
      /\ UNCHANGED <<anchor, generations, home, restorer, backupTime>>
  BY DEF BackupBegins, AfterCopy, CopyOrder
<1>2. backupTime \in BackupTimes /\ backupTime <= backupTime
  BY BackupAssumption DEF BackupInv, AnchorInOrder, BackupTimes
<1>3. run \in RunStates
  BY <1>2 DEF RunStates, CopySteps
<1>4. RunOK(anchor.db, backupTime, run)
  BY <1>2 DEF RunOK
<1> QED
  BY <1>1, <1>2, <1>3, <1>4, NoFilesOK, RunChanges, StagingChanges, GenerationsUnchanged, RestStays

LEMMA CopyMetadataKeeps ==
    ASSUME BackupInv, NEW b \in Backups, CopyMetadata(b)
    PROVE  BackupInv'
<1> DEFINE old == backups[b]
           run == [old EXCEPT !.pc = "hash"]
           files == [Staging(b) EXCEPT !.db = anchor.db]
<1>1. /\ old.pc = "metadata" /\ Staging(b) # Missing
      /\ backups' = [backups EXCEPT ![b] = run]
      /\ staging' = [staging EXCEPT ![old.time] = files]
      /\ UNCHANGED <<anchor, generations, home, restorer, backupTime>>
  BY DEF CopyMetadata, Stage, BackupAt, AfterCopy, CopyOrder
<1>2. /\ old \in ActiveRuns /\ RunOK(anchor.db, backupTime, old)
      /\ Staging(b) \in BackupDirectories
      /\ DirectoryOK(anchor.db, backupTime, Staging(b), old.time)
  BY <1>1, ActiveRun DEF CopySteps, Staging
<1>3. /\ run \in RunStates /\ run.pc = "hash" /\ run.time = old.time
      /\ old.time \in BackupTimes /\ old.time <= backupTime
  BY <1>1, <1>2 DEF ActiveRuns, RunStates, CopySteps, RunOK
<1>4. RunOK(anchor.db, backupTime, run)
  BY <1>3 DEF RunOK, CopySteps
<1>5. /\ files \in BackupDirectories /\ files.db = anchor.db
      /\ files.manifest = Staging(b).manifest
  BY <1>2 DEF BackupDirectories, BackupInv, AnchorInOrder
<1>6. DirectoryOK(anchor.db, backupTime, files, old.time)
  BY <1>1, <1>2, <1>3, <1>5, CopiedNow DEF DirectoryOK, BackupInv
<1> HIDE DEF old, run, files
<1> QED
  BY <1>1, <1>3, <1>4, <1>5, <1>6, RunChanges, StagingChanges, GenerationsUnchanged, RestStays

LEMMA HashMetadataKeeps ==
    ASSUME BackupInv, NEW b \in Backups, HashMetadata(b)
    PROVE  BackupInv'
<1> DEFINE old == backups[b]
           run == [[old EXCEPT !.pc = "repositories"] EXCEPT !.db = Staging(b).db]
<1>1. /\ old.pc = "hash" /\ Staging(b) # Missing /\ Staging(b).db # Missing
      /\ backups' = [backups EXCEPT ![b].pc = "repositories", ![b].db = Staging(b).db]
      /\ UNCHANGED <<anchor, staging, generations, home, restorer, backupTime>>
  BY DEF HashMetadata, BackupAt, AfterCopy, CopyOrder
<1>2. /\ old \in ActiveRuns /\ RunOK(anchor.db, backupTime, old)
      /\ Staging(b) \in BackupDirectories
      /\ DirectoryOK(anchor.db, backupTime, Staging(b), old.time)
  BY <1>1, ActiveRun DEF CopySteps, Staging
<1>3. /\ run \in RunStates /\ run.pc = "repositories" /\ run.time = old.time
      /\ run.db = Staging(b).db /\ old.time <= backupTime
  BY <1>1, <1>2 DEF ActiveRuns, RunStates, CopySteps, RunOK, BackupDirectories
<1>4. RunOK(anchor.db, backupTime, run)
  BY <1>1, <1>2, <1>3 DEF RunOK, CopySteps, DirectoryOK
<1>5. backups' = [backups EXCEPT ![b] = run]
  BY <1>1, <1>2 DEF BackupInv, RunsInOrder, ActiveRuns
<1> HIDE DEF old, run
<1> QED
  BY <1>1, <1>3, <1>4, <1>5, RunChanges, StagingUnchanged, GenerationsUnchanged, RestStays

LEMMA DirectoryPresent == \A f \in BackupDirectories : f # Missing
<1> SUFFICES ASSUME NEW f \in BackupDirectories
             PROVE  f # Missing
  OBVIOUS
<1>1. DOMAIN f = {"db", "refs", "cas", "manifest"}
  BY DEF BackupDirectories
<1>2. DOMAIN Missing = {"missing"}
  BY DEF Missing
<1> QED
  BY <1>1, <1>2

(* A directory that is copied into exists from then on, and the copy        *)
(* changes neither the database nor the manifest in it.                     *)
LEMMA CopyTarget ==
    ASSUME BackupInv, NEW b \in Backups, backups[b].pc \in CopySteps,
           NEW files, files = IF Staging(b) = Missing THEN NoFiles ELSE Staging(b)
    PROVE  /\ files \in BackupDirectories
           /\ \A f \in BackupDirectories :
                 f.db = files.db /\ f.manifest = files.manifest =>
                     DirectoryOK(anchor.db, backupTime, f, backups[b].time)
<1>1. backups[b].time \in BackupTimes
  BY ActiveRun DEF ActiveRuns
<1>2. files \in BackupDirectories /\ DirectoryOK(anchor.db, backupTime, files, backups[b].time)
  BY <1>1, ActiveRun, NoFilesOK DEF Staging
<1> QED
  BY <1>2, DirectoryPresent DEF DirectoryOK

LEMMA CopyRepositoriesKeeps ==
    ASSUME BackupInv, NEW b \in Backups, CopyRepositories(b)
    PROVE  BackupInv'
<1> DEFINE old == backups[b]
           files == IF Staging(b) = Missing THEN NoFiles ELSE Staging(b)
           copied == [files EXCEPT !.refs = files.refs \cup anchor.refs]
           run == [[old EXCEPT !.pc = "cas"] EXCEPT !.refs = copied.refs]
<1>1. /\ old.pc = "repositories"
      /\ backups' = [backups EXCEPT ![b].pc = "cas", ![b].refs = copied.refs]
      /\ staging' = [staging EXCEPT ![old.time] = copied]
      /\ UNCHANGED <<anchor, generations, home, restorer, backupTime>>
  BY DEF CopyRepositories, BackupAt, AfterCopy, CopyOrder
<1>2. old \in ActiveRuns /\ RunOK(anchor.db, backupTime, old) /\ old.time \in BackupTimes
  BY <1>1, ActiveRun DEF CopySteps, ActiveRuns
<1>3. files \in BackupDirectories /\ files.refs \cup anchor.refs \in SUBSET Works
  <2>1. files \in BackupDirectories
    BY <1>1, CopyTarget DEF CopySteps
  <2> QED
    BY <2>1 DEF BackupDirectories, BackupInv, AnchorInOrder
<1>4. /\ copied \in BackupDirectories /\ copied.refs = files.refs \cup anchor.refs
      /\ DirectoryOK(anchor.db, backupTime, copied, old.time)
  <2>1. files = (IF Staging(b) = Missing THEN NoFiles ELSE Staging(b)) /\ old.pc \in CopySteps
    BY <1>1 DEF CopySteps
  <2> HIDE DEF files
  <2>2. /\ copied \in BackupDirectories /\ copied.refs = files.refs \cup anchor.refs
        /\ copied.db = files.db /\ copied.manifest = files.manifest
    BY <1>3 DEF BackupDirectories
  <2> HIDE DEF copied
  <2> QED
    BY <2>1, <2>2, CopyTarget
<1> HIDE DEF files, copied
<1>5. /\ run \in RunStates /\ run.pc = "cas" /\ run.time = old.time /\ run.db = old.db
      /\ run.refs = copied.refs /\ copied.refs \in SUBSET Works
  BY <1>1, <1>2, <1>3, <1>4 DEF ActiveRuns, RunStates, CopySteps
<1>6. old.db # Missing /\ Copied(anchor.db, backupTime, old.db, old.time) /\ old.time <= backupTime
  BY <1>1, <1>2 DEF RunOK, CopySteps
<1>7. old.db.rows \subseteq copied.refs
  <2>1. old.db.rows \subseteq anchor.db.rows
    BY <1>6 DEF Copied
  <2> QED
    BY <2>1, <1>4 DEF BackupInv, AnchorInOrder
<1>8. RunOK(anchor.db, backupTime, run)
  BY <1>5, <1>6, <1>7 DEF RunOK, CopySteps
<1>9. backups' = [backups EXCEPT ![b] = run]
  BY <1>1, <1>2 DEF BackupInv, RunsInOrder, ActiveRuns
<1> HIDE DEF old, run
<1>10. RunsInOrder'
  BY <1>1, <1>5, <1>8, <1>9, RunChanges
<1>11. StagingInOrder'
  BY <1>1, <1>2, <1>4, StagingChanges
<1> QED
  BY <1>1, <1>10, <1>11, GenerationsUnchanged, RestStays

LEMMA CopyCasKeeps ==
    ASSUME BackupInv, NEW b \in Backups, CopyCas(b)
    PROVE  BackupInv'
<1> DEFINE old == backups[b]
           files == IF Staging(b) = Missing THEN NoFiles ELSE Staging(b)
           copied == [files EXCEPT !.cas = files.cas \cup anchor.cas]
           run == [[old EXCEPT !.pc = "manifest"] EXCEPT !.cas = copied.cas]
<1>1. /\ old.pc = "cas"
      /\ backups' = [backups EXCEPT ![b].pc = "manifest", ![b].cas = copied.cas]
      /\ staging' = [staging EXCEPT ![old.time] = copied]
      /\ UNCHANGED <<anchor, generations, home, restorer, backupTime>>
  BY DEF CopyCas, BackupAt, AfterCopy, CopyOrder
<1>2. old \in ActiveRuns /\ RunOK(anchor.db, backupTime, old) /\ old.time \in BackupTimes
  BY <1>1, ActiveRun DEF CopySteps, ActiveRuns
<1>3. files \in BackupDirectories /\ files.cas \cup anchor.cas \in SUBSET Works
  <2>1. files \in BackupDirectories
    BY <1>1, CopyTarget DEF CopySteps
  <2> QED
    BY <2>1 DEF BackupDirectories, BackupInv, AnchorInOrder
<1>4. /\ copied \in BackupDirectories /\ copied.cas = files.cas \cup anchor.cas
      /\ DirectoryOK(anchor.db, backupTime, copied, old.time)
  <2>1. files = (IF Staging(b) = Missing THEN NoFiles ELSE Staging(b)) /\ old.pc \in CopySteps
    BY <1>1 DEF CopySteps
  <2> HIDE DEF files
  <2>2. /\ copied \in BackupDirectories /\ copied.cas = files.cas \cup anchor.cas
        /\ copied.db = files.db /\ copied.manifest = files.manifest
    BY <1>3 DEF BackupDirectories
  <2> HIDE DEF copied
  <2> QED
    BY <2>1, <2>2, CopyTarget
<1> HIDE DEF files, copied
<1>5. /\ run \in RunStates /\ run.pc = "manifest" /\ run.time = old.time /\ run.db = old.db
      /\ run.refs = old.refs /\ run.cas = copied.cas /\ copied.cas \in SUBSET Works
  BY <1>1, <1>2, <1>3, <1>4 DEF ActiveRuns, RunStates, CopySteps
<1>6. /\ old.db # Missing /\ Copied(anchor.db, backupTime, old.db, old.time)
      /\ old.time <= backupTime /\ old.db.rows \subseteq old.refs
  BY <1>1, <1>2 DEF RunOK, CopySteps
<1>7. old.db.rows \subseteq copied.cas
  <2>1. old.db.rows \subseteq anchor.db.rows
    BY <1>6 DEF Copied
  <2> QED
    BY <2>1, <1>4 DEF BackupInv, AnchorInOrder
<1>8. RunOK(anchor.db, backupTime, run)
  BY <1>5, <1>6, <1>7 DEF RunOK, CopySteps
<1>9. backups' = [backups EXCEPT ![b] = run]
  BY <1>1, <1>2 DEF BackupInv, RunsInOrder, ActiveRuns
<1> HIDE DEF old, run
<1>10. RunsInOrder'
  BY <1>1, <1>5, <1>8, <1>9, RunChanges
<1>11. StagingInOrder'
  BY <1>1, <1>2, <1>4, StagingChanges
<1> QED
  BY <1>1, <1>10, <1>11, GenerationsUnchanged, RestStays

LEMMA WriteManifestKeeps ==
    ASSUME BackupInv, NEW b \in Backups, WriteManifest(b)
    PROVE  BackupInv'
<1> DEFINE old == backups[b]
           m == [db |-> old.db, refs |-> old.refs, cas |-> old.cas, time |-> old.time]
           run == [old EXCEPT !.pc = "rename"]
           files == [Staging(b) EXCEPT !.manifest = m]
<1>1. /\ old.pc = "manifest" /\ Staging(b) # Missing
      /\ backups' = [backups EXCEPT ![b] = run]
      /\ staging' = [staging EXCEPT ![old.time] = files]
      /\ UNCHANGED <<anchor, generations, home, restorer, backupTime>>
  BY DEF WriteManifest, Stage, BackupAt
<1>2. /\ old \in ActiveRuns /\ RunOK(anchor.db, backupTime, old)
      /\ Staging(b) \in BackupDirectories
      /\ DirectoryOK(anchor.db, backupTime, Staging(b), old.time)
  BY <1>1, ActiveRun DEF CopySteps, Staging
<1>3. /\ old.db # Missing /\ Copied(anchor.db, backupTime, old.db, old.time)
      /\ old.time <= backupTime /\ old.time \in BackupTimes
      /\ old.db.rows \subseteq old.refs /\ old.db.rows \subseteq old.cas
  BY <1>1, <1>2 DEF RunOK, CopySteps, ActiveRuns
<1>4. m \in Manifests
  BY <1>2, <1>3 DEF Manifests, ActiveRuns
<1>5. Sound(anchor.db, backupTime, m)
  BY <1>3 DEF Sound
<1>6. /\ run \in RunStates /\ run.pc = "rename" /\ run.time = old.time /\ run.db = old.db
      /\ run.refs = old.refs /\ run.cas = old.cas
  BY <1>2 DEF ActiveRuns, RunStates, CopySteps
<1>7. RunOK(anchor.db, backupTime, run)
  BY <1>3, <1>6 DEF RunOK, CopySteps
<1> HIDE DEF m
<1>8. /\ files \in BackupDirectories /\ files.db = Staging(b).db /\ files.manifest = m
  BY <1>2, <1>4 DEF BackupDirectories
<1>9. DirectoryOK(anchor.db, backupTime, files, old.time)
  BY <1>1, <1>2, <1>5, <1>8 DEF DirectoryOK
<1> HIDE DEF old, run, files
<1> QED
  BY <1>1, <1>3, <1>6, <1>7, <1>8, <1>9, RunChanges, StagingChanges, GenerationsUnchanged, RestStays

LEMMA DoneOK ==
    [pc |-> "done"] \in RunStates /\ RunOK(anchor.db, backupTime, [pc |-> "done"])
BY DEF RunStates, RunOK, CopySteps

LEMMA PublishGenerationKeeps ==
    ASSUME BackupInv, NEW b \in Backups, PublishGeneration(b)
    PROVE  BackupInv'
<1> DEFINE old == backups[b]
           g == [id |-> [db |-> old.db, cas |-> old.cas, time |-> old.time],
                 db |-> Staging(b).db, refs |-> Staging(b).refs,
                 cas |-> Staging(b).cas, manifest |-> Staging(b).manifest]
<1>1. /\ old.pc = "rename" /\ Staging(b) # Missing
      /\ generations' = generations \cup {g}
      /\ staging' = [staging EXCEPT ![old.time] = Missing]
      /\ backups' = [backups EXCEPT ![b] = [pc |-> "done"]]
      /\ UNCHANGED <<anchor, home, restorer, backupTime>>
  BY DEF PublishGeneration, BackupAt
<1>2. /\ old \in ActiveRuns /\ Staging(b) \in BackupDirectories
      /\ DirectoryOK(anchor.db, backupTime, Staging(b), old.time)
  BY <1>1, ActiveRun DEF CopySteps, Staging
<1>3. old.time \in BackupTimes
  BY <1>2 DEF ActiveRuns
<1>4. GenerationOK(anchor.db, backupTime, g)
  <2>1. g \in Generations /\ g.manifest = Staging(b).manifest
    BY <1>2 DEF Generations, BackupDirectories, ActiveRuns
  <2> QED
    BY <1>1, <1>2, <2>1 DEF GenerationOK, DirectoryOK
<1>5. DirectoryOK(anchor.db, backupTime, Missing, old.time)
  BY DEF DirectoryOK
<1> HIDE DEF g
<1>6. GenerationsInOrder'
  BY <1>1, <1>4 DEF BackupInv, GenerationsInOrder
<1> HIDE DEF old
<1> QED
  BY <1>1, <1>3, <1>5, <1>6, DoneOK, RunChanges, StagingChanges, RestStays

LEMMA StopsKeeps ==
    ASSUME BackupInv, NEW b \in Backups, BackupStops(b)
    PROVE  BackupInv'
BY DoneOK, RunChanges, StagingUnchanged, GenerationsUnchanged, RestStays DEF BackupStops

LEMMA DamagedKeeps ==
    ASSUME BackupInv, NEW g \in generations, NEW w \in Works, GenerationDamaged(g, w)
    PROVE  BackupInv'
<1>1. PICK worse \in {[g EXCEPT !.db = Missing], [g EXCEPT !.refs = @ \ {w}],
                      [g EXCEPT !.cas = @ \ {w}]} :
          generations' = (generations \ {g}) \cup {worse}
  BY DEF GenerationDamaged
<1>2. GenerationOK(anchor.db, backupTime, g)
  BY DEF BackupInv, GenerationsInOrder
<1>3. worse \in Generations /\ worse.manifest = g.manifest
  <2> g \in Generations
    BY <1>2 DEF GenerationOK
  <2>1. CASE worse = [g EXCEPT !.db = Missing]
    BY <2>1 DEF Generations
  <2>2. CASE worse = [g EXCEPT !.refs = @ \ {w}]
    BY <2>2 DEF Generations
  <2>3. CASE worse = [g EXCEPT !.cas = @ \ {w}]
    BY <2>3 DEF Generations
  <2> QED
    BY <2>1, <2>2, <2>3
<1>4. GenerationOK(anchor.db, backupTime, worse)
  BY <1>2, <1>3 DEF GenerationOK
<1>5. UNCHANGED <<anchor, backups, staging, home, restorer, backupTime>>
  BY DEF GenerationDamaged
<1>6. GenerationsInOrder'
  BY <1>1, <1>4, <1>5 DEF BackupInv, GenerationsInOrder
<1>7. RunsInOrder'
  BY <1>5 DEF BackupInv, RunsInOrder
<1> QED
  BY <1>5, <1>6, <1>7, StagingUnchanged, RestStays
-----------------------------------------------------------------------------
(* Restore, promote and initialisation of a home.                           *)

(* Fields of the records after an assignment to one of them.                *)
LEMMA RestoreMoves ==
    ASSUME NEW r \in Restores, NEW step \in {"repositories", "cas", "audit"}
    PROVE  /\ [r EXCEPT !.pc = step] \in Restores
           /\ [r EXCEPT !.pc = step].pc = step
           /\ [r EXCEPT !.pc = step].from = r.from
           /\ [r EXCEPT !.pc = step].promote = r.promote
           /\ [r EXCEPT !.pc = step].allowStale = r.allowStale
           /\ [r EXCEPT !.pc = step].began = r.began
BY DEF Restores

LEMMA HomePromoted ==
    ASSUME NEW h \in Homes, NEW event \in [at : BackupTimes, stale : BOOLEAN]
    PROVE  /\ [h EXCEPT !.promoted = event] \in Homes
           /\ [h EXCEPT !.promoted = event].promoted = event
           /\ [h EXCEPT !.promoted = event].db = h.db
           /\ [h EXCEPT !.promoted = event].refs = h.refs
           /\ [h EXCEPT !.promoted = event].cas = h.cas
           /\ [h EXCEPT !.promoted = event].whole = h.whole
BY DEF Homes

LEMMA HomeRestored ==
    ASSUME NEW h \in Homes, NEW files \in SUBSET Works
    PROVE  /\ [h EXCEPT !.cas = files, !.whole = TRUE] \in Homes
           /\ [h EXCEPT !.cas = files, !.whole = TRUE].cas = files
           /\ [h EXCEPT !.cas = files, !.whole = TRUE].db = h.db
           /\ [h EXCEPT !.cas = files, !.whole = TRUE].refs = h.refs
           /\ [h EXCEPT !.cas = files, !.whole = TRUE].promoted = h.promoted
BY DEF Homes

LEMMA RestoreStep ==
    ASSUME BackupInv, UNCHANGED <<anchor, backups, staging, generations, backupTime>>,
           RestorerInOrder', HomeInOrder'
    PROVE  BackupInv'
<1>1. AnchorInOrder'
  BY DEF BackupInv, AnchorInOrder
<1>2. RunsInOrder'
  BY DEF BackupInv, RunsInOrder
<1> QED
  BY <1>1, <1>2, StagingUnchanged, GenerationsUnchanged DEF BackupInv

(* What a running restore reads.                                            *)
LEMMA RestoredFrom ==
    ASSUME BackupInv, restorer.pc # "idle"
    PROVE  /\ restorer \in Restores /\ home \in Homes
           /\ restorer.from \in Generations
           /\ restorer.from.db = restorer.from.manifest.db
           /\ restorer.from.db \in Databases
           /\ restorer.from.db.rows \subseteq restorer.from.refs
           /\ restorer.from.db.rows \subseteq restorer.from.cas
           /\ Copied(anchor.db, backupTime, restorer.from.db, restorer.from.manifest.time)
           /\ restorer.from.manifest.time \in BackupTimes
<1>1. /\ restorer \in Restores /\ home \in Homes /\ restorer.from \in Generations
      /\ Sound(anchor.db, backupTime, restorer.from.manifest) /\ Verified(restorer.from)
  BY DEF BackupInv, RestorerInOrder, HomeInOrder, GenerationOK
<1>2. restorer.from.manifest \in Manifests
  BY <1>1 DEF Generations, Verified
<1> QED
  BY <1>1, <1>2 DEF Manifests, Verified, Sound

LEMMA BeginRestoreKeeps ==
    ASSUME BackupInv, NEW g \in generations, NEW promote \in BOOLEAN, NEW allowStale \in BOOLEAN,
           BeginRestore(g, promote, allowStale)
    PROVE  BackupInv'
<1> DEFINE r == [pc |-> "metadata", from |-> g, promote |-> promote,
                 allowStale |-> allowStale, began |-> backupTime]
<1>1. /\ Verified(g) /\ home.db = Missing /\ restorer' = r
      /\ promote => (TooOld(g) => allowStale)
      /\ UNCHANGED <<anchor, backups, staging, generations, home, backupTime>>
  BY DEF BeginRestore
<1>2. GenerationOK(anchor.db, backupTime, g)
  BY DEF BackupInv, GenerationsInOrder
<1>3. g \in Generations /\ g.manifest \in Manifests
  BY <1>1, <1>2 DEF GenerationOK, Generations, Verified
<1>4. backupTime \in BackupTimes /\ backupTime \in Int /\ g.manifest.time \in Int
      /\ backupTime <= backupTime
  BY <1>3, BackupAssumption DEF BackupInv, AnchorInOrder, BackupTimes, Manifests
<1>5. promote /\ ~allowStale => backupTime - g.manifest.time <= MaxAge
  BY <1>1, <1>4, BackupAssumption DEF TooOld
<1>6. /\ r \in Restores /\ r.pc = "metadata" /\ r.from = g /\ r.began = backupTime
      /\ r.promote = promote /\ r.allowStale = allowStale
  BY <1>3, <1>4 DEF Restores
<1> HIDE DEF r
<1>7. RestorerInOrder'
  BY <1>1, <1>2, <1>4, <1>5, <1>6 DEF RestorerInOrder, Verified
<1>8. HomeInOrder'
  BY <1>1, Zenon DEF BackupInv, HomeInOrder
<1> QED
  BY <1>1, <1>7, <1>8, RestoreStep

LEMMA RestoreMetadataKeeps ==
    ASSUME BackupInv, RestoreMetadata
    PROVE  BackupInv'
<1> DEFINE r == [restorer EXCEPT !.pc = "repositories"]
           h == [home EXCEPT !.db = restorer.from.db]
<1>1. /\ restorer.pc = "metadata" /\ home' = h /\ restorer' = r
      /\ UNCHANGED <<anchor, backups, staging, generations, backupTime>>
  BY DEF RestoreMetadata, Restoring
<1>2. /\ restorer \in Restores /\ home \in Homes /\ restorer.from.db \in Databases
      /\ restorer.from.db # Missing
  BY <1>1, RestoredFrom, DatabasePresent
<1>3. /\ r \in Restores /\ r.pc = "repositories" /\ r.from = restorer.from
      /\ r.promote = restorer.promote /\ r.allowStale = restorer.allowStale
      /\ r.began = restorer.began
  BY <1>2, RestoreMoves
<1>4. /\ h \in Homes /\ h.db = restorer.from.db /\ h.refs = home.refs /\ h.cas = home.cas
      /\ h.whole = home.whole /\ h.promoted = home.promoted
  BY <1>2 DEF Homes
<1>5. ~home.whole /\ home.promoted = Missing
  BY <1>1 DEF BackupInv, RestorerInOrder, HomeInOrder
<1> HIDE DEF r, h
<1>6. RestorerInOrder'
  <2>1. /\ GenerationOK(anchor.db, backupTime, restorer.from) /\ Verified(restorer.from)
        /\ restorer.began <= backupTime
        /\ restorer.promote /\ ~restorer.allowStale =>
              restorer.began - restorer.from.manifest.time <= MaxAge
    BY <1>1 DEF BackupInv, RestorerInOrder
  <2> QED
    BY <1>1, <1>2, <1>3, <1>4, <2>1 DEF RestorerInOrder, Verified
<1>7. HomeInOrder'
  BY <1>1, <1>2, <1>4, <1>5 DEF HomeInOrder
<1> QED
  BY <1>1, <1>6, <1>7, RestoreStep

LEMMA RestoreRepositoriesKeeps ==
    ASSUME BackupInv, RestoreRepositories
    PROVE  BackupInv'
<1> DEFINE r == [restorer EXCEPT !.pc = "cas"]
           files == home.refs \cup restorer.from.refs
           h == [home EXCEPT !.refs = files]
<1>1. /\ restorer.pc = "repositories" /\ home' = h /\ restorer' = r
      /\ UNCHANGED <<anchor, backups, staging, generations, backupTime>>
  BY DEF RestoreRepositories, Restoring
<1>2. restorer \in Restores /\ home \in Homes /\ files \in SUBSET Works
  BY <1>1, RestoredFrom DEF Homes, Generations
<1>3. /\ r \in Restores /\ r.pc = "cas" /\ r.from = restorer.from
      /\ r.promote = restorer.promote /\ r.allowStale = restorer.allowStale
      /\ r.began = restorer.began
  BY <1>2, RestoreMoves
<1> HIDE DEF files
<1>4. /\ h \in Homes /\ h.refs = files /\ h.db = home.db /\ h.cas = home.cas
      /\ h.whole = home.whole /\ h.promoted = home.promoted
  BY <1>2 DEF Homes
<1>5. home.refs \subseteq files /\ restorer.from.refs \subseteq files
  BY DEF files
<1> HIDE DEF r, h
<1>6. RestorerInOrder'
  <2>1. /\ GenerationOK(anchor.db, backupTime, restorer.from) /\ Verified(restorer.from)
        /\ restorer.began <= backupTime
        /\ restorer.promote /\ ~restorer.allowStale =>
              restorer.began - restorer.from.manifest.time <= MaxAge
        /\ home.db # Missing /\ home.db = restorer.from.db
    BY <1>1 DEF BackupInv, RestorerInOrder
  <2> QED
    BY <1>1, <1>3, <1>4, <1>5, <2>1 DEF RestorerInOrder, Verified
<1>7. HomeInOrder'
  BY <1>1, <1>4, <1>5, Zenon DEF BackupInv, HomeInOrder
<1> QED
  BY <1>1, <1>6, <1>7, RestoreStep

LEMMA RestoreCasKeeps ==
    ASSUME BackupInv, RestoreCas
    PROVE  BackupInv'
<1> DEFINE r == [restorer EXCEPT !.pc = "audit"]
           files == home.cas \cup restorer.from.cas
           h == [home EXCEPT !.cas = files, !.whole = TRUE]
<1>1. /\ restorer.pc = "cas" /\ home' = h
      /\ UNCHANGED <<anchor, backups, staging, generations, backupTime>>
      /\ restorer' = IF restorer.promote THEN r ELSE NoRestore
  BY DEF RestoreCas, Restoring
<1>2. restorer \in Restores /\ home \in Homes /\ files \in SUBSET Works
  BY <1>1, RestoredFrom DEF Homes, Generations
<1>3. /\ r \in Restores /\ r.pc = "audit" /\ r.from = restorer.from
      /\ r.promote = restorer.promote /\ r.allowStale = restorer.allowStale
      /\ r.began = restorer.began
  BY <1>2, RestoreMoves
<1>4. restorer.from.cas \subseteq files
  OBVIOUS
<1> HIDE DEF files
<1>5. /\ h \in Homes /\ h.refs = home.refs /\ h.db = home.db /\ h.cas = files
      /\ h.promoted = home.promoted
  BY <1>2, HomeRestored
<1> HIDE DEF r, h
<1>6. /\ GenerationOK(anchor.db, backupTime, restorer.from) /\ Verified(restorer.from)
      /\ restorer.began <= backupTime
      /\ restorer.promote /\ ~restorer.allowStale =>
            restorer.began - restorer.from.manifest.time <= MaxAge
      /\ home.db # Missing /\ home.db = restorer.from.db
      /\ restorer.from.refs \subseteq home.refs
  BY <1>1 DEF BackupInv, RestorerInOrder
<1>7. RestorerInOrder'
  <2>1. CASE restorer.promote
    <3>1. restorer' = r
      BY <1>1, <2>1
    <3>2. r.promote
      BY <1>3, <2>1
    <3> QED
      BY <1>1, <1>3, <1>5, <1>6, <3>1, <3>2, Zenon DEF RestorerInOrder, Verified
  <2>2. CASE ~restorer.promote
    <3>1. restorer'.pc = "idle"
      BY <1>1, <2>2 DEF NoRestore
    <3> QED
      BY <3>1 DEF RestorerInOrder
  <2> QED
    BY <2>1, <2>2
<1>8. HomeInOrder'
  <2>1. h.db # Missing /\ h.db.rows \subseteq h.refs /\ h.db.rows \subseteq h.cas
    BY <1>1, <1>4, <1>5, <1>6, RestoredFrom
  <2>2. home.promoted # Missing =>
          /\ home.promoted.at <= backupTime
          /\ ~home.promoted.stale =>
                \A d \in Revocable :
                    anchor.db.revoked[d] < home.promoted.at - MaxAge =>
                        home.db.revoked[d] = anchor.db.revoked[d]
    BY Zenon DEF BackupInv, HomeInOrder
  <2> QED
    BY <1>1, <1>5, <2>1, <2>2, Zenon DEF HomeInOrder
<1> QED
  BY <1>1, <1>7, <1>8, RestoreStep

LEMMA RecordPromotionKeeps ==
    ASSUME BackupInv, RecordPromotion
    PROVE  BackupInv'
<1> DEFINE event == [at |-> restorer.began, stale |-> restorer.allowStale]
           h == [home EXCEPT !.promoted = event]
<1>1. /\ restorer.pc = "audit" /\ home' = h /\ restorer' = NoRestore
      /\ UNCHANGED <<anchor, backups, staging, generations, backupTime>>
  BY DEF RecordPromotion, Restoring
<1>2. restorer \in Restores /\ home \in Homes
  BY <1>1, RestoredFrom
<1>3. /\ event \in [at : BackupTimes, stale : BOOLEAN]
      /\ event.at = restorer.began /\ event.stale = restorer.allowStale
  BY <1>2 DEF Restores
<1> HIDE DEF event
<1>4. /\ h \in Homes /\ h.promoted = event /\ h.db = home.db /\ h.refs = home.refs
      /\ h.cas = home.cas /\ h.whole = home.whole
  BY <1>2, <1>3, HomePromoted
<1>5. /\ restorer.promote /\ restorer.began <= backupTime
      /\ ~restorer.allowStale => restorer.began - restorer.from.manifest.time <= MaxAge
      /\ home.db # Missing /\ home.db = restorer.from.db
  BY <1>1 DEF BackupInv, RestorerInOrder
<1> HIDE DEF h
<1>6. RestorerInOrder'
  <2>1. restorer'.pc = "idle"
    BY <1>1 DEF NoRestore
  <2> QED
    BY <2>1 DEF RestorerInOrder
<1>7. ASSUME ~restorer.allowStale, NEW d \in Revocable,
             anchor.db.revoked[d] < restorer.began - MaxAge
      PROVE  home.db.revoked[d] = anchor.db.revoked[d]
  <2>1. /\ restorer.began \in Nat /\ restorer.from.manifest.time \in Nat /\ MaxAge \in Nat
        /\ anchor.db.revoked[d] \in Nat
    BY <1>1, <1>2, RestoredFrom, BackupAssumption
       DEF Restores, BackupTimes, BackupInv, AnchorInOrder, Databases
  <2>2. ~(anchor.db.revoked[d] >= restorer.from.manifest.time)
    BY <1>5, <1>7, <2>1
  <2>3. Copied(anchor.db, backupTime, home.db, restorer.from.manifest.time)
    BY <1>1, <1>5, RestoredFrom
  <2> QED
    BY <1>5, <2>2, <2>3 DEF Copied
<1>8. HomeInOrder'
  <2>1. home.whole => home.db.rows \subseteq home.refs /\ home.db.rows \subseteq home.cas
    BY DEF BackupInv, HomeInOrder
  <2>2. /\ home' \in Homes /\ home'.db = home.db /\ home'.refs = home.refs
        /\ home'.cas = home.cas /\ home'.whole = home.whole /\ home'.promoted = event
    BY <1>1, <1>4
  <2>3. event.at <= backupTime
    BY <1>3, <1>5
  <2>4. ~event.stale => \A d \in Revocable : anchor.db.revoked[d] < event.at - MaxAge =>
                            home.db.revoked[d] = anchor.db.revoked[d]
    BY <1>3, <1>7
  <2> QED
    BY <1>1, <1>5, <2>1, <2>2, <2>3, <2>4, Zenon DEF HomeInOrder
<1> QED
  BY <1>1, <1>6, <1>8, RestoreStep

LEMMA RestoreStopsKeeps ==
    ASSUME BackupInv, RestoreStops
    PROVE  BackupInv'
<1>1. /\ restorer' = NoRestore
      /\ UNCHANGED <<anchor, backups, staging, generations, home, backupTime>>
  BY DEF RestoreStops
<1>2. RestorerInOrder'
  <2>1. restorer'.pc = "idle"
    BY <1>1 DEF NoRestore
  <2> QED
    BY <2>1 DEF RestorerInOrder
<1>3. HomeInOrder'
  BY <1>1, Zenon DEF BackupInv, HomeInOrder
<1> QED
  BY <1>1, <1>2, <1>3, RestoreStep

LEMMA EmptyDatabase ==
    [rows |-> {}, revoked |-> [d \in Revocable |-> MaxBackupTime + 1]] \in Databases
BY BackupAssumption DEF Databases

LEMMA InitAnchorKeeps ==
    ASSUME BackupInv, InitAnchor
    PROVE  BackupInv'
<1> DEFINE empty == [rows |-> {}, revoked |-> [d \in Revocable |-> MaxBackupTime + 1]]
           h == [home EXCEPT !.db = empty]
<1>1. /\ restorer.pc = "idle" /\ home.db = Missing /\ home' = h
      /\ UNCHANGED <<anchor, backups, staging, generations, restorer, backupTime>>
  BY DEF InitAnchor, Restoring
<1>2. empty \in Databases /\ empty # Missing /\ home \in Homes
  BY EmptyDatabase, DatabasePresent DEF BackupInv, HomeInOrder
<1> HIDE DEF empty
<1>3. /\ h \in Homes /\ h.db = empty /\ h.whole = home.whole /\ h.promoted = home.promoted
  BY <1>2 DEF Homes
<1>4. ~home.whole /\ home.promoted = Missing
  BY <1>1 DEF BackupInv, HomeInOrder
<1> HIDE DEF h
<1>5. HomeInOrder'
  BY <1>1, <1>2, <1>3, <1>4 DEF HomeInOrder
<1>6. RestorerInOrder'
  BY <1>1 DEF RestorerInOrder
<1> QED
  BY <1>1, <1>5, <1>6, RestoreStep
-----------------------------------------------------------------------------
(* Together.                                                                *)

LEMMA BackupInitInv == BackupInit => BackupInv
<1> SUFFICES ASSUME BackupInit
             PROVE  BackupInv
  OBVIOUS
<1>1. AnchorInOrder
  BY EmptyDatabase, BackupAssumption DEF BackupInit, AnchorInOrder, BackupTimes
<1>2. RunsInOrder
  <2>1. /\ [pc |-> "ready"] \in RunStates
        /\ RunOK(anchor.db, backupTime, [pc |-> "ready"])
    BY DEF RunStates, RunOK, CopySteps
  <2> QED
    BY <2>1 DEF BackupInit, RunsInOrder
<1>3. StagingInOrder
  BY DEF BackupInit, StagingInOrder, DirectoryOK, BackupTimes
<1>4. GenerationsInOrder
  BY DEF BackupInit, GenerationsInOrder
<1>5. RestorerInOrder
  BY DEF BackupInit, NoRestore, RestorerInOrder
<1>6. HomeInOrder
  <2>1. home \in Homes /\ home.promoted = Missing /\ home.whole = FALSE
    BY DEF BackupInit, Homes
  <2> QED
    BY <2>1 DEF HomeInOrder
<1> QED
  BY <1>1, <1>2, <1>3, <1>4, <1>5, <1>6 DEF BackupInv

LEMMA BackupStep == BackupInv /\ [BackupNext]_backupVars => BackupInv'
<1> SUFFICES ASSUME BackupInv, [BackupNext]_backupVars
             PROVE  BackupInv'
  OBVIOUS
<1>1. ASSUME NEW b \in Backups,
             \/ BackupBegins(b) \/ CopyMetadata(b) \/ HashMetadata(b) \/ CopyRepositories(b)
             \/ CopyCas(b) \/ WriteManifest(b) \/ PublishGeneration(b) \/ BackupStops(b)
      PROVE  BackupInv'
  BY <1>1, BeginsKeeps, CopyMetadataKeeps, HashMetadataKeeps, CopyRepositoriesKeeps,
     CopyCasKeeps, WriteManifestKeeps, PublishGenerationKeeps, StopsKeeps
<1>2. ASSUME NEW w \in Works, NEW g \in generations, GenerationDamaged(g, w)
      PROVE  BackupInv'
  BY <1>2, DamagedKeeps
<1>3. ASSUME NEW g \in generations, NEW promote \in BOOLEAN, NEW allowStale \in BOOLEAN,
             BeginRestore(g, promote, allowStale)
      PROVE  BackupInv'
  BY <1>3, BeginRestoreKeeps
<1>4. ASSUME \/ RestoreMetadata \/ RestoreRepositories \/ RestoreCas
             \/ RecordPromotion \/ RestoreStops \/ InitAnchor
      PROVE  BackupInv'
  BY <1>4, RestoreMetadataKeeps, RestoreRepositoriesKeeps, RestoreCasKeeps,
     RecordPromotionKeeps, RestoreStopsKeeps, InitAnchorKeeps
<1>5. ASSUME UNCHANGED backupVars
      PROVE  BackupInv'
  <2>1. /\ UNCHANGED <<anchor, backups, staging, generations, backupTime>>
        /\ UNCHANGED <<home, restorer>>
    BY <1>5 DEF backupVars
  <2>2. RestorerInOrder' /\ HomeInOrder'
    BY <2>1, Zenon DEF BackupInv, RestorerInOrder, HomeInOrder
  <2> QED
    BY <2>1, <2>2, RestoreStep
<1> QED
  BY <1>1, <1>2, <1>3, <1>4, <1>5, AnchorSteps DEF BackupNext

(* For any number of backup runs, snapshots and devices, and any age a      *)
(* promotion accepts: a home that restore or promote finished with holds   *)
(* what its metadata names, and one promoted without the override knows    *)
(* every revocation older than that age (create, restore and promote of    *)
(* backup_anchor.rs).                                                      *)
THEOREM RestoredAnchorsAreWholeAlways == BackupSpec => []RestoredAnchorsAreWhole
<1>1. BackupInv => RestoredAnchorsAreWhole
  BY Zenon DEF BackupInv, HomeInOrder, RestoredAnchorsAreWhole
<1> QED
  BY <1>1, BackupInitInv, BackupStep, PTL DEF BackupSpec

(***************************************************************************)
(* Background protection                                                   *)
(***************************************************************************)

Ages == Nat \cup {None}
DebounceStates == [paths : SUBSET Paths, generation : Nat, firstDirty : Ages, lastDirty : Ages,
                   lastCheckpoint : Ages, publish : Ages,
                   firstUnpublished : Ages, lastUnpublished : Ages]
ManagerStates == [dirty : BOOLEAN, observed : Nat, checkpointed : Nat, failures : Nat]
Hints == [workspace : Workspaces, paths : SUBSET Paths]
DueCheckpoints == [workspace : Workspaces, generation : Nat, paths : SUBSET Paths]
Handlings == [pc : {"import", "record"}, checkpoint : DueCheckpoints,
              outcome : {"Created", "Unchanged", "Failed"}]

ProtectionTypeOK ==
    /\ watched \subseteq Workspaces
    /\ unscanned \in [Workspaces -> SUBSET Paths]
    /\ channel \in Seq(Hints)
    /\ generation \in [Workspaces -> Nat]
    /\ pending \in [Workspaces -> SUBSET Paths]
    /\ debounce \in [Workspaces -> DebounceStates]
    /\ due \subseteq DueCheckpoints
    /\ job \in Handlings \cup {NoJob}
    /\ manager \in [Workspaces -> ManagerStates]
    /\ status \in [Workspaces -> {"None", "Dirty", "Failed", "Protected", "Unchanged"}]
    /\ snapshots \in [Workspaces -> {"none", "local", "anchored"}]
    /\ unsaved \in [Workspaces -> SUBSET Paths]
    /\ owed \in [Workspaces -> SUBSET Paths]

(* The places of the pipeline a path can be in.                             *)
OnTheWay(p, w) ==
    \/ p \in unscanned[w]
    \/ p \in pending[w]
    \/ p \in debounce[w].paths
    \/ \E i \in DOMAIN channel : channel[i].workspace = w /\ p \in channel[i].paths
    \/ \E d \in due : d.workspace = w /\ p \in d.paths

Covered(w) == \A p \in owed[w] : OnTheWay(p, w)
Busy(w) == \E p \in Paths : OnTheWay(p, w)

Kept(w) ==
    \/ Covered(w)
    \/ Failing(w)
    \/ manager[w].dirty /\ (status[w] = "Failed" \/ Busy(w))

(* A checkpoint that is being recorded as a success took what was owed, so  *)
(* that whatever is owed since then is on its way again.                    *)
Recording(w) == job # NoJob /\ job.checkpoint.workspace = w /\ job.outcome # "Failed"

WorkIsKept ==
    \A w \in Workspaces :
        /\ Kept(w)
        /\ Recording(w) => Covered(w)
        /\ owed[w] \subseteq unsaved[w]
        /\ w \notin watched => owed[w] = {}

ProtectionInv == ProtectionTypeOK /\ WorkIsKept
-----------------------------------------------------------------------------
LEMMA PipelineMeans ==
    ASSUME NEW w, NEW p
    PROVE  p \in InPipeline(w) <=> OnTheWay(p, w)
<1> DEFINE sent == UNION {channel[i].paths : i \in {j \in DOMAIN channel : channel[j].workspace = w}}
           drained == UNION {c.paths : c \in {d \in due : d.workspace = w}}
<1>1. p \in sent <=> \E i \in DOMAIN channel : channel[i].workspace = w /\ p \in channel[i].paths
  BY Zenon
<1>2. p \in drained <=> \E d \in due : d.workspace = w /\ p \in d.paths
  BY Zenon
<1>3. InPipeline(w) = unscanned[w] \cup pending[w] \cup debounce[w].paths \cup sent \cup drained
  BY DEF InPipeline
<1> HIDE DEF sent, drained
<1> QED
  BY <1>1, <1>2, <1>3 DEF OnTheWay

(* A step that loses no path on its way, and lets nothing become owed that  *)
(* is not on its way, keeps a workspace's work.                             *)
LEMMA FlowKeeps ==
    ASSUME NEW w \in Workspaces, Kept(w),
           \A p \in Paths : OnTheWay(p, w) => OnTheWay(p, w)',
           owed[w] \subseteq Paths,
           \A p \in owed'[w] : p \in owed[w] \/ OnTheWay(p, w)',
           Failing(w) => Failing(w)',
           manager[w].dirty => manager'[w].dirty,
           status[w] = "Failed" => status'[w] = "Failed" \/ Busy(w)'
    PROVE  Kept(w)' /\ (Covered(w) => Covered(w)')
<1>1. Covered(w) => Covered(w)'
  BY DEF Covered
<1>2. Busy(w) => Busy(w)'
  BY DEF Busy
<1> QED
  BY <1>1, <1>2, Zenon DEF Kept
-----------------------------------------------------------------------------
(* What the debouncer and the manager do to a workspace's entry.            *)

LEMMA LargerIsNat == \A a, b \in Nat : Larger(a, b) \in Nat
BY DEF Larger

LEMMA AgeOps ==
    ASSUME NEW age \in Ages
    PROVE  OrNow(age) \in Ages /\ Older(age) \in Ages
BY DEF OrNow, Older, Ages

LEMMA DebounceOps ==
    ASSUME NEW d \in DebounceStates, NEW g \in Nat, NEW paths \in SUBSET Paths
    PROVE  /\ ObserveChange(d, g, paths) \in DebounceStates
           /\ ObserveChange(d, g, paths).paths = d.paths \cup paths
           /\ TakeCheckpoint(d) \in DebounceStates /\ TakeCheckpoint(d).paths = {}
           /\ TakePublish(d) \in DebounceStates /\ TakePublish(d).paths = d.paths
           /\ CompleteCheckpoint(d, g) \in DebounceStates
           /\ CompleteCheckpoint(d, g).paths = d.paths
<1>1. 0 \in Ages /\ None \in Ages /\ g \in Ages
  BY DEF Ages
<1>2. /\ OrNow(d.firstDirty) \in Ages /\ OrNow(d.firstUnpublished) \in Ages
      /\ Larger(d.generation, g) \in Nat
      /\ d.publish # None => Larger(d.publish, g) \in Ages
  BY AgeOps, LargerIsNat DEF DebounceStates, Ages
<1>3. ObserveChange(d, g, paths) \in DebounceStates /\ ObserveChange(d, g, paths).paths = d.paths \cup paths
  <2> HIDE DEF Ages
  <2> QED
    BY <1>1, <1>2 DEF ObserveChange, DebounceStates
<1>4. TakeCheckpoint(d) \in DebounceStates /\ TakeCheckpoint(d).paths = {}
  BY <1>1 DEF TakeCheckpoint, DebounceStates
<1>5. TakePublish(d) \in DebounceStates /\ TakePublish(d).paths = d.paths
  BY <1>1 DEF TakePublish, DebounceStates
<1>6. CompleteCheckpoint(d, g) \in DebounceStates /\ CompleteCheckpoint(d, g).paths = d.paths
  BY <1>1, <1>2 DEF CompleteCheckpoint, DebounceStates
<1> QED
  BY <1>3, <1>4, <1>5, <1>6

LEMMA TickOps ==
    ASSUME NEW d \in DebounceStates
    PROVE  LET e == [d EXCEPT !.firstDirty = Older(@), !.lastDirty = Older(@),
                              !.lastCheckpoint = Older(@), !.firstUnpublished = Older(@),
                              !.lastUnpublished = Older(@)]
           IN  e \in DebounceStates /\ e.paths = d.paths
<1>1. /\ Older(d.firstDirty) \in Ages /\ Older(d.lastDirty) \in Ages
      /\ Older(d.lastCheckpoint) \in Ages /\ Older(d.firstUnpublished) \in Ages
      /\ Older(d.lastUnpublished) \in Ages
  BY AgeOps DEF DebounceStates
<1> QED
  BY <1>1 DEF DebounceStates

LEMMA ManagerOps ==
    ASSUME NEW m \in ManagerStates, NEW g \in Nat
    PROVE  MarkDirty(m, g) \in ManagerStates /\ MarkDirty(m, g).dirty = TRUE
<1>1. Larger(m.observed, g) \in Nat
  BY LargerIsNat DEF ManagerStates
<1> QED
  BY <1>1 DEF MarkDirty, ManagerStates

LEMMA FailureOps ==
    ASSUME NEW m \in ManagerStates, NEW g \in Nat
    PROVE  LET n == [MarkDirty(m, g) EXCEPT
                        !.failures = IF m.failures < Threshold THEN m.failures + 1 ELSE m.failures]
           IN  n \in ManagerStates /\ n.dirty = TRUE
<1>1. MarkDirty(m, g) \in ManagerStates /\ MarkDirty(m, g).dirty = TRUE
  BY ManagerOps
<1>2. (IF m.failures < Threshold THEN m.failures + 1 ELSE m.failures) \in Nat
  BY DEF ManagerStates
<1> QED
  BY <1>1, <1>2 DEF ManagerStates

LEMMA HandlingShape ==
    ASSUME job \in Handlings \cup {NoJob}
    PROVE  /\ job = NoJob <=> job.pc = "idle"
           /\ job.pc # "idle" => job \in Handlings
BY DEF Handlings, NoJob
-----------------------------------------------------------------------------
(* The workspace and the watcher.                                           *)

LEMMA WorkFlows ==
    ASSUME ProtectionInv, NEW w \in Workspaces,
           \A p \in Paths : OnTheWay(p, w) => OnTheWay(p, w)',
           \A p \in owed'[w] : p \in owed[w] \/ OnTheWay(p, w)',
           UNCHANGED <<job, manager>>,
           status[w] = "Failed" => status'[w] = "Failed" \/ Busy(w)',
           owed'[w] \subseteq unsaved'[w],
           w \notin watched' => owed'[w] = {}
    PROVE  /\ Kept(w)'
           /\ Recording(w)' => Covered(w)'
           /\ owed'[w] \subseteq unsaved'[w]
           /\ w \notin watched' => owed'[w] = {}
<1>1. /\ Kept(w) /\ (Recording(w) => Covered(w)) /\ owed[w] \subseteq Paths
  BY DEF ProtectionInv, ProtectionTypeOK, WorkIsKept
<1>2. (Failing(w) => Failing(w)') /\ (Recording(w)' => Recording(w))
  BY DEF Failing, Recording
<1>3. manager[w].dirty => manager'[w].dirty
  OBVIOUS
<1>4. Kept(w)' /\ (Covered(w) => Covered(w)')
  BY <1>1, <1>2, <1>3, FlowKeeps
<1> QED
  BY <1>1, <1>2, <1>4

LEMMA EditKeeps ==
    ASSUME ProtectionInv, NEW w \in Workspaces, NEW p \in Paths, Edit(w, p)
    PROVE  ProtectionInv'
<1>1. /\ unscanned' = IF w \in watched THEN [unscanned EXCEPT ![w] = @ \cup {p}] ELSE unscanned
      /\ UNCHANGED <<watched, channel, generation, pending, debounce, due, job, manager, status, snapshots>>
  BY DEF Edit, managerVars
<1>2. ProtectionTypeOK'
  <2>1. unscanned' \in [Workspaces -> SUBSET Paths]
    BY <1>1 DEF ProtectionInv, ProtectionTypeOK
  <2>2. unsaved' \in [Workspaces -> SUBSET Paths] /\ owed' \in [Workspaces -> SUBSET Paths]
    <3>1. unsaved' \in {[unsaved EXCEPT ![w] = @ \cup {p}], [unsaved EXCEPT ![w] = @ \ {p}]}
      BY DEF Edit
    <3>2. owed' \in {owed, [owed EXCEPT ![w] = @ \cup {p}], [owed EXCEPT ![w] = @ \ {p}]}
      BY DEF Edit
    <3>3. unsaved \in [Workspaces -> SUBSET Paths] /\ owed \in [Workspaces -> SUBSET Paths]
      BY DEF ProtectionInv, ProtectionTypeOK
    <3> QED
      BY <3>1, <3>2, <3>3
  <2> QED
    BY <1>1, <2>1, <2>2 DEF ProtectionInv, ProtectionTypeOK
<1>3. ASSUME NEW v \in Workspaces
      PROVE  /\ Kept(v)'
             /\ Recording(v)' => Covered(v)'
             /\ owed'[v] \subseteq unsaved'[v]
             /\ v \notin watched' => owed'[v] = {}
  <2>1. unscanned[v] \subseteq unscanned'[v] /\ (v = w /\ w \in watched => p \in unscanned'[v])
    BY <1>1 DEF ProtectionInv, ProtectionTypeOK
  <2>2. \A q \in Paths : OnTheWay(q, v) => OnTheWay(q, v)'
    BY <1>1, <2>1 DEF OnTheWay
  <2>3. /\ owed'[v] \subseteq owed[v] \cup (IF v = w /\ w \in watched THEN {p} ELSE {})
        /\ owed'[v] \subseteq unsaved'[v]
    BY DEF Edit, ProtectionInv, ProtectionTypeOK, WorkIsKept
  <2>4. \A q \in owed'[v] : q \in owed[v] \/ OnTheWay(q, v)'
    BY <2>1, <2>3 DEF OnTheWay
  <2>5. v \notin watched' => owed'[v] = {}
    BY <1>1, <2>3 DEF ProtectionInv, WorkIsKept
  <2> QED
    BY <1>1, <2>2, <2>3, <2>4, <2>5, WorkFlows
<1> QED
  BY <1>2, <1>3 DEF ProtectionInv, WorkIsKept

LEMMA WatchKeeps ==
    ASSUME ProtectionInv, NEW w \in Workspaces, Watch(w) \/ Unwatch(w)
    PROVE  ProtectionInv'
<1>1. UNCHANGED <<channel, debounce, due, job, manager, status, snapshots, unsaved>>
  BY DEF Watch, Unwatch, managerVars, workVars
<1>2. /\ watched' \in {watched \cup {w}, watched \ {w}}
      /\ \A v \in Workspaces \ {w} : v \in watched' <=> v \in watched
      /\ unscanned' = [unscanned EXCEPT ![w] = {}]
      /\ generation' \in {generation, [generation EXCEPT ![w] = 0]}
      /\ pending' \in {pending, [pending EXCEPT ![w] = {}]}
      /\ owed' \in {owed, [owed EXCEPT ![w] = {}]}
  BY DEF Watch, Unwatch, workVars
<1>3. owed'[w] = {}
  <2>1. CASE Watch(w)
    BY <2>1 DEF Watch, workVars, ProtectionInv, WorkIsKept
  <2>2. CASE Unwatch(w)
    BY <2>2 DEF Unwatch, ProtectionInv, ProtectionTypeOK
  <2> QED
    BY <2>1, <2>2
<1>4. ProtectionTypeOK'
  <2>1. ASSUME NEW f \in [Workspaces -> SUBSET Paths]
        PROVE  [f EXCEPT ![w] = {}] \in [Workspaces -> SUBSET Paths]
    OBVIOUS
  <2>2. /\ unscanned' \in [Workspaces -> SUBSET Paths] /\ pending' \in [Workspaces -> SUBSET Paths]
        /\ owed' \in [Workspaces -> SUBSET Paths]
    <3>1. /\ unscanned \in [Workspaces -> SUBSET Paths] /\ pending \in [Workspaces -> SUBSET Paths]
          /\ owed \in [Workspaces -> SUBSET Paths]
      BY DEF ProtectionInv, ProtectionTypeOK
    <3>2. /\ unscanned' = [unscanned EXCEPT ![w] = {}]
          /\ pending' = pending \/ pending' = [pending EXCEPT ![w] = {}]
          /\ owed' = owed \/ owed' = [owed EXCEPT ![w] = {}]
      BY <1>2
    <3>3. unscanned' \in [Workspaces -> SUBSET Paths]
      BY <2>1, <3>1, <3>2
    <3>4. pending' \in [Workspaces -> SUBSET Paths]
      BY <2>1, <3>1, <3>2
    <3>5. owed' \in [Workspaces -> SUBSET Paths]
      BY <2>1, <3>1, <3>2
    <3> QED
      BY <3>3, <3>4, <3>5
  <2>4. generation' \in [Workspaces -> Nat]
    <3>1. generation \in [Workspaces -> Nat]
      BY DEF ProtectionInv, ProtectionTypeOK
    <3>2. generation' = generation \/ generation' = [generation EXCEPT ![w] = 0]
      BY <1>2
    <3> QED
      BY <3>1, <3>2
  <2>3. watched' \subseteq Workspaces
    BY <1>2 DEF ProtectionInv, ProtectionTypeOK
  <2> QED
    BY <1>1, <2>2, <2>3, <2>4 DEF ProtectionInv, ProtectionTypeOK
<1>5. ASSUME NEW v \in Workspaces
      PROVE  /\ Kept(v)'
             /\ Recording(v)' => Covered(v)'
             /\ owed'[v] \subseteq unsaved'[v]
             /\ v \notin watched' => owed'[v] = {}
  <2>1. CASE v = w
    BY <1>3, <2>1 DEF Kept, Covered
  <2>2. CASE v # w
    <3>1. unscanned'[v] = unscanned[v] /\ pending'[v] = pending[v] /\ owed'[v] = owed[v]
      BY <1>2, <2>2 DEF ProtectionInv, ProtectionTypeOK
    <3>2. \A q \in Paths : OnTheWay(q, v) => OnTheWay(q, v)'
      BY <1>1, <3>1 DEF OnTheWay
    <3>3. owed'[v] \subseteq unsaved'[v] /\ (v \notin watched' => owed'[v] = {})
      BY <1>1, <1>2, <2>2, <3>1 DEF ProtectionInv, WorkIsKept
    <3> QED
      BY <1>1, <3>1, <3>2, <3>3, WorkFlows
  <2> QED
    BY <2>1, <2>2
<1> QED
  BY <1>4, <1>5 DEF ProtectionInv, WorkIsKept

LEMMA PollKeeps ==
    ASSUME ProtectionInv, NEW w \in Workspaces, PollOnce(w)
    PROVE  ProtectionInv'
<1> DEFINE hint == [workspace |-> w, paths |-> unscanned[w]]
<1>1. /\ channel' = Append(channel, hint) /\ unscanned' = [unscanned EXCEPT ![w] = {}]
      /\ UNCHANGED <<watched, generation, pending, debounce, due, job, manager, status, snapshots,
                     unsaved, owed>>
  BY DEF PollOnce, managerVars, workVars
<1>2. /\ channel \in Seq(Hints) /\ hint \in Hints
      /\ hint.workspace = w /\ hint.paths = unscanned[w]
  BY DEF ProtectionInv, ProtectionTypeOK, Hints
<1> HIDE DEF hint
<1>3. /\ channel' \in Seq(Hints)
      /\ \A i \in DOMAIN channel : i \in DOMAIN channel' /\ channel'[i] = channel[i]
      /\ Len(channel) + 1 \in DOMAIN channel' /\ channel'[Len(channel) + 1] = hint
  <2> HIDE DEF Hints
  <2> QED
    BY <1>1, <1>2
<1>4. ProtectionTypeOK'
  BY <1>1, <1>3 DEF ProtectionInv, ProtectionTypeOK
<1>5. ASSUME NEW v \in Workspaces
      PROVE  /\ Kept(v)'
             /\ Recording(v)' => Covered(v)'
             /\ owed'[v] \subseteq unsaved'[v]
             /\ v \notin watched' => owed'[v] = {}
  <2>1. ASSUME NEW q \in Paths, OnTheWay(q, v)
        PROVE  OnTheWay(q, v)'
    <3>1. CASE q \in unscanned[v]
      <4>1. v = w => \E i \in DOMAIN channel' : channel'[i].workspace = v /\ q \in channel'[i].paths
        BY <1>2, <1>3, <3>1
      <4>2. v # w => q \in unscanned'[v]
        BY <1>1, <3>1 DEF ProtectionInv, ProtectionTypeOK
      <4> QED
        BY <4>1, <4>2 DEF OnTheWay
    <3>2. CASE \E i \in DOMAIN channel : channel[i].workspace = v /\ q \in channel[i].paths
      BY <1>3, <3>2 DEF OnTheWay
    <3>3. CASE \/ q \in pending[v] \/ q \in debounce[v].paths
               \/ \E d \in due : d.workspace = v /\ q \in d.paths
      BY <1>1, <3>3 DEF OnTheWay
    <3> QED
      BY <2>1, <3>1, <3>2, <3>3 DEF OnTheWay
  <2>2. owed'[v] \subseteq unsaved'[v] /\ (v \notin watched' => owed'[v] = {})
    BY <1>1 DEF ProtectionInv, WorkIsKept
  <2> QED
    BY <1>1, <2>1, <2>2, WorkFlows
<1> QED
  BY <1>4, <1>5 DEF ProtectionInv, WorkIsKept

(* A hint of a workspace that is not watched any more is dropped; nothing  *)
(* is owed there.                                                           *)
LEMMA ObserveKeeps ==
    ASSUME ProtectionInv, ObserveRawEvent
    PROVE  ProtectionInv'
<1> DEFINE w == Head(channel).workspace
<1>1. /\ channel # <<>> /\ channel' = Tail(channel)
      /\ IF w \in watched
         THEN /\ generation' = [generation EXCEPT ![w] = SaturatingAdd(@)]
              /\ pending' = [pending EXCEPT ![w] = @ \cup Head(channel).paths]
         ELSE UNCHANGED <<generation, pending>>
      /\ UNCHANGED <<watched, unscanned, debounce, due, job, manager, status, snapshots, unsaved, owed>>
  BY DEF ObserveRawEvent, managerVars, workVars
<1>2. /\ channel \in Seq(Hints) /\ Head(channel) \in Hints /\ channel' \in Seq(Hints)
      /\ \A i \in DOMAIN channel : i # 1 => i - 1 \in DOMAIN channel' /\ channel'[i - 1] = channel[i]
      /\ Head(channel) = channel[1]
  <2> channel \in Seq(Hints)
    BY DEF ProtectionInv, ProtectionTypeOK
  <2> HIDE DEF Hints
  <2> QED
    BY <1>1
<1>3. w \in Workspaces /\ Head(channel).paths \subseteq Paths
  BY <1>2 DEF Hints
<1>4. w = Head(channel).workspace
  OBVIOUS
<1> DEFINE paths == Head(channel).paths
<1>5. pending \in [Workspaces -> SUBSET Paths] /\ paths \in SUBSET Paths
  BY <1>3 DEF ProtectionInv, ProtectionTypeOK
<1>6. \/ pending' = pending /\ w \notin watched
      \/ pending' = [pending EXCEPT ![w] = @ \cup paths]
  BY <1>1
<1>7. paths = Head(channel).paths
  OBVIOUS
<1> HIDE DEF w, paths
<1>8. pending' \in [Workspaces -> SUBSET Paths]
  BY <1>3, <1>5, <1>6
<1>9. (\A v \in Workspaces : pending[v] \subseteq pending'[v])
      /\ (w \in watched => paths \subseteq pending'[w])
  BY <1>3, <1>5, <1>6
<1>10. ProtectionTypeOK'
  <2>1. generation' \in [Workspaces -> Nat]
    BY <1>1, <1>3 DEF ProtectionInv, ProtectionTypeOK, SaturatingAdd
  <2> QED
    BY <1>1, <1>2, <1>8, <2>1 DEF ProtectionInv, ProtectionTypeOK
<1>11. ASSUME NEW v \in Workspaces
       PROVE  /\ Kept(v)'
              /\ Recording(v)' => Covered(v)'
              /\ owed'[v] \subseteq unsaved'[v]
              /\ v \notin watched' => owed'[v] = {}
  <2>1. owed'[v] \subseteq unsaved'[v] /\ (v \notin watched' => owed'[v] = {})
    BY <1>1 DEF ProtectionInv, WorkIsKept
  <2>2. CASE v \notin watched
    BY <1>1, <2>1, <2>2 DEF Kept, Covered
  <2>3. CASE v \in watched
    <3>1. ASSUME NEW q \in Paths, OnTheWay(q, v)
          PROVE  OnTheWay(q, v)'
      <4>1. CASE \E i \in DOMAIN channel : channel[i].workspace = v /\ q \in channel[i].paths
        <5>1. PICK i \in DOMAIN channel : channel[i].workspace = v /\ q \in channel[i].paths
          BY <4>1
        <5>2. CASE i = 1
          <6>1. w = v /\ q \in paths
            BY <1>2, <1>4, <1>7, <5>1, <5>2
          <6>2. q \in pending'[v]
            BY <1>9, <2>3, <6>1
          <6> QED
            BY <6>2 DEF OnTheWay
        <5>3. CASE i # 1
          BY <1>2, <5>1, <5>3 DEF OnTheWay
        <5> QED
          BY <5>2, <5>3
      <4>2. CASE q \in pending[v]
        <5>1. q \in pending'[v]
          BY <1>9, <4>2
        <5> QED
          BY <5>1 DEF OnTheWay
      <4>3. CASE \/ q \in unscanned[v] \/ q \in debounce[v].paths
                 \/ \E d \in due : d.workspace = v /\ q \in d.paths
        BY <1>1, <4>3 DEF OnTheWay
      <4> QED
        BY <3>1, <4>1, <4>2, <4>3 DEF OnTheWay
    <3> QED
      BY <1>1, <2>1, <3>1, WorkFlows
  <2> QED
    BY <2>2, <2>3
<1> QED
  BY <1>10, <1>11 DEF ProtectionInv, WorkIsKept

LEMMA CoalescedKeeps ==
    ASSUME ProtectionInv, DrainCoalesced
    PROVE  ProtectionInv'
<1> DEFINE changed == {w \in Workspaces : pending[w] # {}}
<1>1. /\ debounce' = [w \in Workspaces |->
                        IF w \in changed THEN ObserveChange(debounce[w], generation[w], pending[w])
                        ELSE debounce[w]]
      /\ manager' = [w \in Workspaces |->
                        IF w \in changed THEN MarkDirty(manager[w], generation[w]) ELSE manager[w]]
      /\ status' = [w \in Workspaces |-> IF w \in changed THEN "Dirty" ELSE status[w]]
      /\ pending' = [w \in Workspaces |-> {}]
      /\ job = NoJob
      /\ UNCHANGED <<watched, unscanned, channel, generation, due, job, snapshots, unsaved, owed>>
  BY DEF DrainCoalesced, workVars
<1>2. ASSUME NEW w \in Workspaces
      PROVE  /\ debounce[w] \in DebounceStates /\ generation[w] \in Nat
             /\ pending[w] \in SUBSET Paths /\ manager[w] \in ManagerStates
             /\ status[w] \in {"None", "Dirty", "Failed", "Protected", "Unchanged"}
  BY DEF ProtectionInv, ProtectionTypeOK
<1>3. ASSUME NEW w \in Workspaces
      PROVE  /\ debounce'[w] \in DebounceStates
             /\ debounce'[w].paths = debounce[w].paths \cup pending[w]
             /\ manager'[w] \in ManagerStates
             /\ manager[w].dirty => manager'[w].dirty
             /\ status[w] = "Failed" => status'[w] = "Failed" \/ pending[w] # {}
  <2>1. CASE w \in changed
    <3>1. /\ debounce'[w] = ObserveChange(debounce[w], generation[w], pending[w])
          /\ manager'[w] = MarkDirty(manager[w], generation[w]) /\ pending[w] # {}
      BY <1>1, <2>1
    <3>2. manager'[w] \in ManagerStates /\ manager'[w].dirty = TRUE
      BY <1>2, <3>1, ManagerOps
    <3>3. /\ debounce'[w] \in DebounceStates
          /\ debounce'[w].paths = debounce[w].paths \cup pending[w]
      BY <1>2, <3>1, DebounceOps
    <3> QED
      BY <3>1, <3>2, <3>3
  <2>2. CASE w \notin changed
    <3>1. /\ debounce'[w] = debounce[w] /\ manager'[w] = manager[w] /\ pending[w] = {}
          /\ status'[w] = status[w]
      BY <1>1, <2>2
    <3>2. debounce[w].paths = debounce[w].paths \cup pending[w]
      BY <3>1
    <3> QED
      BY <1>2, <3>1, <3>2
  <2> QED
    BY <2>1, <2>2
<1>4. ProtectionTypeOK'
  <2>1. debounce' \in [Workspaces -> DebounceStates]
    BY <1>1, <1>3
  <2>2. manager' \in [Workspaces -> ManagerStates]
    BY <1>1, <1>3
  <2>3. status' \in [Workspaces -> {"None", "Dirty", "Failed", "Protected", "Unchanged"}]
    BY <1>1, <1>2
  <2>4. pending' \in [Workspaces -> SUBSET Paths]
    BY <1>1
  <2> QED
    BY <1>1, <2>1, <2>2, <2>3, <2>4 DEF ProtectionInv, ProtectionTypeOK
<1>5. ASSUME NEW v \in Workspaces
      PROVE  /\ Kept(v)'
             /\ Recording(v)' => Covered(v)'
             /\ owed'[v] \subseteq unsaved'[v]
             /\ v \notin watched' => owed'[v] = {}
  <2>1. \A q \in Paths : OnTheWay(q, v) => OnTheWay(q, v)'
    BY <1>1, <1>3 DEF OnTheWay
  <2>2. status[v] = "Failed" => status'[v] = "Failed" \/ Busy(v)'
    <3>1. ASSUME NEW q \in pending[v]
          PROVE  Busy(v)'
      <4>1. q \in Paths /\ q \in debounce'[v].paths
        BY <1>2, <1>3, <3>1
      <4> QED
        BY <4>1 DEF Busy, OnTheWay
    <3> QED
      BY <1>3, <3>1
  <2>3. /\ owed[v] \subseteq Paths /\ Kept(v) /\ owed'[v] = owed[v]
        /\ owed'[v] \subseteq unsaved'[v] /\ (v \notin watched' => owed'[v] = {})
    BY <1>1 DEF ProtectionInv, ProtectionTypeOK, WorkIsKept
  <2>4. Failing(v) => Failing(v)'
    BY <1>1 DEF Failing
  <2>5. ~Recording(v)'
    BY <1>1 DEF Recording
  <2> QED
    BY <1>3, <2>1, <2>2, <2>3, <2>4, <2>5, FlowKeeps
<1> QED
  BY <1>4, <1>5 DEF ProtectionInv, WorkIsKept

(* What drain_due and flush_all take out of the debouncer goes on as a      *)
(* checkpoint; nothing else was due, since the loop was idle.               *)
LEMMA DrainKeeps ==
    ASSUME ProtectionInv, NEW C \in SUBSET Workspaces, NEW P \in SUBSET Workspaces,
           LoopIdle, Drain(C, P)
    PROVE  ProtectionInv'
<1> DEFINE taken(w) == IF w \in C THEN TakeCheckpoint(debounce[w]) ELSE debounce[w]
           next(w) == IF w \in P THEN TakePublish(taken(w)) ELSE taken(w)
           request(w) == [workspace |-> w, generation |-> debounce[w].generation,
                          paths |-> debounce[w].paths]
<1>1. /\ debounce' = [w \in Workspaces |-> next(w)]
      /\ due' = {request(w) : w \in C}
      /\ due = {} /\ job = NoJob
      /\ UNCHANGED <<watched, unscanned, channel, generation, pending, job, manager, status,
                     snapshots, unsaved, owed>>
  BY DEF Drain, LoopIdle, watcherVars, managerVars, workVars
<1>2. ASSUME NEW w \in Workspaces
      PROVE  debounce[w] \in DebounceStates
  BY DEF ProtectionInv, ProtectionTypeOK
<1>3. ASSUME NEW w \in Workspaces
      PROVE  next(w) \in DebounceStates /\ (w \notin C => next(w).paths = debounce[w].paths)
  <2>1. taken(w) \in DebounceStates /\ (w \notin C => taken(w).paths = debounce[w].paths)
    BY <1>2, DebounceOps
  <2> HIDE DEF taken
  <2>2. TakePublish(taken(w)) \in DebounceStates /\ TakePublish(taken(w)).paths = taken(w).paths
    BY <2>1, DebounceOps
  <2> QED
    BY <2>1, <2>2
<1>4. ASSUME NEW w \in Workspaces
      PROVE  /\ request(w) \in DueCheckpoints /\ request(w).workspace = w
             /\ request(w).paths = debounce[w].paths
  BY <1>2 DEF DueCheckpoints, DebounceStates
<1> HIDE DEF taken, next, request
<1>5. ProtectionTypeOK'
  <2>1. debounce' \in [Workspaces -> DebounceStates]
    BY <1>1, <1>3
  <2>2. due' \subseteq DueCheckpoints
    BY <1>1, <1>4
  <2> QED
    BY <1>1, <2>1, <2>2 DEF ProtectionInv, ProtectionTypeOK
<1>6. ASSUME NEW v \in Workspaces
      PROVE  /\ Kept(v)'
             /\ Recording(v)' => Covered(v)'
             /\ owed'[v] \subseteq unsaved'[v]
             /\ v \notin watched' => owed'[v] = {}
  <2>1. ASSUME NEW q \in Paths, OnTheWay(q, v)
        PROVE  OnTheWay(q, v)'
    <3>1. CASE q \in debounce[v].paths
      <4>1. CASE v \in C
        BY <1>1, <1>4, <3>1, <4>1 DEF OnTheWay
      <4>2. CASE v \notin C
        BY <1>1, <1>3, <3>1, <4>2 DEF OnTheWay
      <4> QED
        BY <4>1, <4>2
    <3>2. CASE \/ q \in unscanned[v] \/ q \in pending[v]
               \/ \E i \in DOMAIN channel : channel[i].workspace = v /\ q \in channel[i].paths
      BY <1>1, <3>2 DEF OnTheWay
    <3> QED
      BY <1>1, <2>1, <3>1, <3>2 DEF OnTheWay
  <2>2. owed'[v] \subseteq unsaved'[v] /\ (v \notin watched' => owed'[v] = {})
    BY <1>1 DEF ProtectionInv, WorkIsKept
  <2> QED
    BY <1>1, <2>1, <2>2, WorkFlows
<1> QED
  BY <1>5, <1>6 DEF ProtectionInv, WorkIsKept

LEMMA TickKeeps ==
    ASSUME ProtectionInv, Tick
    PROVE  ProtectionInv'
<1> DEFINE older(d) == [d EXCEPT !.firstDirty = Older(@), !.lastDirty = Older(@),
                                 !.lastCheckpoint = Older(@), !.firstUnpublished = Older(@),
                                 !.lastUnpublished = Older(@)]
<1>1. /\ debounce' = [w \in Workspaces |-> older(debounce[w])]
      /\ UNCHANGED <<watched, unscanned, channel, generation, pending, due, job, manager, status,
                     snapshots, unsaved, owed>>
  BY DEF Tick, watcherVars, managerVars, workVars
<1>2. ASSUME NEW d \in DebounceStates
      PROVE  older(d) \in DebounceStates /\ older(d).paths = d.paths
  BY TickOps
<1> HIDE DEF older
<1>3. debounce \in [Workspaces -> DebounceStates]
  BY DEF ProtectionInv, ProtectionTypeOK
<1>4. /\ debounce' \in [Workspaces -> DebounceStates]
      /\ \A w \in Workspaces : debounce'[w].paths = debounce[w].paths
  BY <1>1, <1>2, <1>3
<1>5. ProtectionTypeOK'
  BY <1>1, <1>4 DEF ProtectionInv, ProtectionTypeOK
<1>6. ASSUME NEW v \in Workspaces
      PROVE  /\ Kept(v)'
             /\ Recording(v)' => Covered(v)'
             /\ owed'[v] \subseteq unsaved'[v]
             /\ v \notin watched' => owed'[v] = {}
  <2>1. \A q \in Paths : OnTheWay(q, v) => OnTheWay(q, v)'
    BY <1>1, <1>4 DEF OnTheWay
  <2>2. owed'[v] \subseteq unsaved'[v] /\ (v \notin watched' => owed'[v] = {})
    BY <1>1 DEF ProtectionInv, WorkIsKept
  <2> QED
    BY <1>1, <2>1, <2>2, WorkFlows
<1> QED
  BY <1>5, <1>6 DEF ProtectionInv, WorkIsKept
-----------------------------------------------------------------------------
(* handle_checkpoint.                                                       *)

(* A checkpoint leaves due when its handling starts: the paths it names    *)
(* are no longer on their way, and those of other workspaces still are.     *)
LEMMA HandlingKeepsOthers ==
    ASSUME NEW c \in due, NEW w, w # c.workspace,
           due' = due \ {c},
           UNCHANGED <<unscanned, pending, debounce, channel>>
    PROVE  \A p \in Paths : OnTheWay(p, w) => OnTheWay(p, w)'
<1>1. \A d \in due : d.workspace = w => d \in due'
  OBVIOUS
<1> QED
  BY <1>1 DEF OnTheWay

LEMMA HandlingTypes ==
    ASSUME ProtectionInv, NEW c \in due, NEW pc \in {"import", "record"},
           NEW outcome \in {"Created", "Unchanged", "Failed"}, Handling(c, pc, outcome)
    PROVE  /\ due' = due \ {c} /\ due' \subseteq DueCheckpoints
           /\ job' \in Handlings /\ job' # NoJob
           /\ job'.checkpoint = c /\ job'.outcome = outcome
           /\ c.workspace \in Workspaces
<1> DEFINE j == [pc |-> pc, checkpoint |-> c, outcome |-> outcome]
<1>1. due' = due \ {c} /\ job' = j
  BY DEF Handling
<1>2. c \in DueCheckpoints /\ due \subseteq DueCheckpoints
  BY DEF ProtectionInv, ProtectionTypeOK
<1>3. c.workspace \in Workspaces
  BY <1>2 DEF DueCheckpoints
<1>4. j \in Handlings /\ j # NoJob /\ j.checkpoint = c /\ j.outcome = outcome
  <2>1. j \in Handlings
    BY <1>2 DEF Handlings
  <2>2. j.pc # "idle"
    OBVIOUS
  <2> QED
    BY <2>1, <2>2 DEF NoJob
<1> QED
  BY <1>1, <1>2, <1>3, <1>4

LEMMA CreatesKeeps ==
    ASSUME ProtectionInv, NEW c \in due, CheckpointCreates(c)
    PROVE  ProtectionInv'
<1> DEFINE w == c.workspace
           pc == IF UseAnchor THEN "import" ELSE "record"
<1>1. /\ job = NoJob /\ Handling(c, pc, "Created")
      /\ snapshots' = [snapshots EXCEPT ![w] = "local"]
      /\ unsaved' = [unsaved EXCEPT ![w] = {}]
      /\ owed' = [owed EXCEPT ![w] = {}]
      /\ UNCHANGED <<watched, unscanned, channel, generation, pending, debounce, manager, status>>
  BY DEF CheckpointCreates, watcherVars
<1>2. pc \in {"import", "record"}
  OBVIOUS
<1> HIDE DEF pc
<1>3. /\ due' = due \ {c} /\ due' \subseteq DueCheckpoints
      /\ job' \in Handlings /\ job' # NoJob
      /\ job'.checkpoint = c /\ job'.outcome = "Created" /\ w \in Workspaces
  BY <1>1, <1>2, HandlingTypes
<1>4. ProtectionTypeOK'
  <2>1. snapshots' \in [Workspaces -> {"none", "local", "anchored"}]
    BY <1>1, <1>3 DEF ProtectionInv, ProtectionTypeOK
  <2>2. unsaved' \in [Workspaces -> SUBSET Paths] /\ owed' \in [Workspaces -> SUBSET Paths]
    BY <1>1, <1>3 DEF ProtectionInv, ProtectionTypeOK
  <2> QED
    BY <1>1, <1>3, <2>1, <2>2 DEF ProtectionInv, ProtectionTypeOK
<1>5. ASSUME NEW v \in Workspaces
      PROVE  /\ Kept(v)'
             /\ Recording(v)' => Covered(v)'
             /\ owed'[v] \subseteq unsaved'[v]
             /\ v \notin watched' => owed'[v] = {}
  <2>1. owed'[v] \subseteq unsaved'[v] /\ (v \notin watched' => owed'[v] = {})
    BY <1>1, <1>3 DEF ProtectionInv, ProtectionTypeOK, WorkIsKept
  <2>2. CASE v = w
    <3>1. owed'[v] = {}
      BY <1>1, <1>3, <2>2 DEF ProtectionInv, ProtectionTypeOK
    <3> QED
      BY <2>1, <3>1 DEF Kept, Covered
  <2>3. CASE v # w
    <3>1. \A q \in Paths : OnTheWay(q, v) => OnTheWay(q, v)'
      BY <1>1, <1>3, <2>3, HandlingKeepsOthers
    <3>2. owed'[v] = owed[v] /\ owed[v] \subseteq Paths /\ Kept(v)
      BY <1>1, <2>3 DEF ProtectionInv, ProtectionTypeOK, WorkIsKept
    <3>3. ~Failing(v) /\ ~Recording(v)'
      BY <1>1, <1>3, <2>3 DEF Failing, Recording
    <3> QED
      BY <1>1, <2>1, <3>1, <3>2, <3>3, FlowKeeps
  <2> QED
    BY <2>2, <2>3
<1> QED
  BY <1>4, <1>5 DEF ProtectionInv, WorkIsKept

(* Nothing is owed where nothing is unsaved, and a checkpoint that could    *)
(* not be made is one the job reports.                                      *)
LEMMA HandlingEndsKeeps ==
    ASSUME ProtectionInv, NEW c \in due, CheckpointUnchanged(c) \/ CheckpointFails(c)
    PROVE  ProtectionInv'
<1> DEFINE w == c.workspace
<1>1. PICK outcome \in {"Unchanged", "Failed"} :
        /\ job = NoJob /\ Handling(c, "record", outcome)
        /\ outcome = "Unchanged" => unsaved[w] = {}
        /\ UNCHANGED <<watched, unscanned, channel, generation, pending, debounce, manager, status,
                       snapshots, unsaved, owed>>
  BY DEF CheckpointUnchanged, CheckpointFails, watcherVars, workVars
<1>2. /\ due' = due \ {c} /\ due' \subseteq DueCheckpoints
      /\ job' \in Handlings /\ job' # NoJob
      /\ job'.checkpoint = c /\ job'.outcome = outcome /\ w \in Workspaces
  BY <1>1, HandlingTypes
<1>3. ProtectionTypeOK'
  BY <1>1, <1>2 DEF ProtectionInv, ProtectionTypeOK
<1>4. ASSUME NEW v \in Workspaces
      PROVE  /\ Kept(v)'
             /\ Recording(v)' => Covered(v)'
             /\ owed'[v] \subseteq unsaved'[v]
             /\ v \notin watched' => owed'[v] = {}
  <2>1. owed'[v] \subseteq unsaved'[v] /\ (v \notin watched' => owed'[v] = {})
    BY <1>1 DEF ProtectionInv, WorkIsKept
  <2>2. CASE v = w /\ outcome = "Failed"
    BY <1>2, <2>1, <2>2 DEF Kept, Failing, Recording
  <2>3. CASE v = w /\ outcome = "Unchanged"
    <3>1. owed'[v] = {}
      BY <1>1, <2>1, <2>3
    <3> QED
      BY <2>1, <3>1 DEF Kept, Covered
  <2>4. CASE v # w
    <3>1. \A q \in Paths : OnTheWay(q, v) => OnTheWay(q, v)'
      BY <1>1, <1>2, <2>4, HandlingKeepsOthers
    <3>2. owed'[v] = owed[v] /\ owed[v] \subseteq Paths /\ Kept(v)
      BY <1>1 DEF ProtectionInv, ProtectionTypeOK, WorkIsKept
    <3>3. ~Failing(v) /\ ~Recording(v)'
      BY <1>1, <1>2, <2>4 DEF Failing, Recording
    <3> QED
      BY <1>1, <2>1, <3>1, <3>2, <3>3, FlowKeeps
  <2> QED
    BY <1>1, <2>2, <2>3, <2>4
<1> QED
  BY <1>3, <1>4 DEF ProtectionInv, WorkIsKept

LEMMA ImportKeeps ==
    ASSUME ProtectionInv, ImportToAnchor
    PROVE  ProtectionInv'
<1>1. /\ job.pc = "import"
      /\ UNCHANGED <<watched, unscanned, channel, generation, pending, debounce, due, manager,
                     status, unsaved, owed>>
  BY DEF ImportToAnchor, watcherVars, workVars
<1>2. job \in Handlings
  BY <1>1, HandlingShape DEF ProtectionInv, ProtectionTypeOK
<1>3. /\ job' \in Handlings /\ job'.checkpoint = job.checkpoint /\ job'.pc = "record"
      /\ job'.outcome \in {job.outcome, "Failed"}
  <2>1. \/ job' = [job EXCEPT !.pc = "record"]
        \/ job' = [job EXCEPT !.pc = "record", !.outcome = "Failed"]
    BY DEF ImportToAnchor
  <2>2. CASE job' = [job EXCEPT !.pc = "record"]
    BY <1>2, <2>2 DEF Handlings
  <2>3. CASE job' = [job EXCEPT !.pc = "record", !.outcome = "Failed"]
    BY <1>2, <2>3 DEF Handlings
  <2> QED
    BY <2>1, <2>2, <2>3
<1>4. job # NoJob /\ job' # NoJob
  BY <1>1, <1>3 DEF NoJob
<1>5. ProtectionTypeOK'
  <2>1. snapshots' \in [Workspaces -> {"none", "local", "anchored"}]
    BY DEF ImportToAnchor, ProtectionInv, ProtectionTypeOK
  <2> QED
    BY <1>1, <1>3, <2>1 DEF ProtectionInv, ProtectionTypeOK
<1>6. ASSUME NEW v \in Workspaces
      PROVE  /\ Kept(v)'
             /\ Recording(v)' => Covered(v)'
             /\ owed'[v] \subseteq unsaved'[v]
             /\ v \notin watched' => owed'[v] = {}
  <2>1. \A q \in Paths : OnTheWay(q, v) => OnTheWay(q, v)'
    BY <1>1 DEF OnTheWay
  <2>2. /\ owed'[v] = owed[v] /\ owed[v] \subseteq Paths /\ Kept(v) /\ (Recording(v) => Covered(v))
        /\ owed'[v] \subseteq unsaved'[v] /\ (v \notin watched' => owed'[v] = {})
    BY <1>1 DEF ProtectionInv, ProtectionTypeOK, WorkIsKept
  <2>3. (Failing(v) => Failing(v)') /\ (Recording(v)' => Recording(v))
    BY <1>3, <1>4 DEF Failing, Recording
  <2> QED
    BY <1>1, <2>1, <2>2, <2>3, FlowKeeps
<1> QED
  BY <1>5, <1>6 DEF ProtectionInv, WorkIsKept

(* The manager is clean again, and what is owed was on its way already.     *)
LEMMA SuccessKeeps ==
    ASSUME ProtectionInv, RecordSuccess
    PROVE  ProtectionInv'
<1> DEFINE w == job.checkpoint.workspace
           g == job.checkpoint.generation
           d == CompleteCheckpoint(debounce[w], g)
           m == [dirty |-> FALSE, observed |-> Larger(manager[w].observed, g),
                 checkpointed |-> g, failures |-> 0]
           s == IF job.outcome = "Created" THEN "Protected" ELSE "Unchanged"
<1>1. /\ job.pc = "record" /\ job.outcome # "Failed"
      /\ manager' = [manager EXCEPT ![w] = m]
      /\ status' = [status EXCEPT ![w] = s]
      /\ debounce' = [debounce EXCEPT ![w] = d]
      /\ job' = NoJob
      /\ UNCHANGED <<watched, unscanned, channel, generation, pending, due, snapshots, unsaved, owed>>
  BY DEF RecordSuccess, watcherVars, workVars
<1>2. job \in Handlings /\ job # NoJob
  BY <1>1, HandlingShape DEF ProtectionInv, ProtectionTypeOK, NoJob
<1>3. w \in Workspaces /\ g \in Nat
  BY <1>2 DEF Handlings, DueCheckpoints
<1>4. debounce[w] \in DebounceStates /\ manager[w] \in ManagerStates
  BY <1>3 DEF ProtectionInv, ProtectionTypeOK
<1>5. d \in DebounceStates /\ d.paths = debounce[w].paths
  BY <1>3, <1>4, DebounceOps
<1>6. m \in ManagerStates
  <2>1. Larger(manager[w].observed, g) \in Nat
    BY <1>3, <1>4, LargerIsNat DEF ManagerStates
  <2> QED
    BY <1>3, <2>1 DEF ManagerStates
<1>7. s \in {"None", "Dirty", "Failed", "Protected", "Unchanged"}
  OBVIOUS
<1>8. Recording(w)
  BY <1>1, <1>2 DEF Recording
<1>9. w = job.checkpoint.workspace
  OBVIOUS
<1> HIDE DEF d, m, s, w, g
<1>10. ProtectionTypeOK'
  <2>1. debounce' \in [Workspaces -> DebounceStates]
    BY <1>1, <1>3, <1>5 DEF ProtectionInv, ProtectionTypeOK
  <2>2. manager' \in [Workspaces -> ManagerStates]
    BY <1>1, <1>3, <1>6 DEF ProtectionInv, ProtectionTypeOK
  <2>3. status' \in [Workspaces -> {"None", "Dirty", "Failed", "Protected", "Unchanged"}]
    BY <1>1, <1>3, <1>7 DEF ProtectionInv, ProtectionTypeOK
  <2> QED
    BY <1>1, <2>1, <2>2, <2>3 DEF ProtectionInv, ProtectionTypeOK
<1>11. \A v \in Workspaces : debounce'[v].paths = debounce[v].paths
  <2>1. debounce \in [Workspaces -> DebounceStates]
    BY DEF ProtectionInv, ProtectionTypeOK
  <2> QED
    BY <1>1, <1>3, <1>5, <2>1
<1>12. ASSUME NEW v \in Workspaces
       PROVE  /\ Kept(v)'
              /\ Recording(v)' => Covered(v)'
              /\ owed'[v] \subseteq unsaved'[v]
              /\ v \notin watched' => owed'[v] = {}
  <2>1. /\ owed'[v] \subseteq unsaved'[v] /\ (v \notin watched' => owed'[v] = {})
        /\ owed'[v] = owed[v] /\ owed[v] \subseteq Paths /\ Kept(v) /\ (Recording(v) => Covered(v))
    BY <1>1 DEF ProtectionInv, ProtectionTypeOK, WorkIsKept
  <2>2. \A q \in Paths : OnTheWay(q, v) => OnTheWay(q, v)'
    BY <1>1, <1>11 DEF OnTheWay
  <2>3. ~Recording(v)'
    BY <1>1 DEF Recording
  <2>4. CASE v = w
    <3>1. Covered(v)'
      BY <1>8, <2>1, <2>2, <2>4 DEF Covered
    <3> QED
      BY <2>1, <2>3, <3>1 DEF Kept
  <2>5. CASE v # w
    <3>1. manager'[v] = manager[v] /\ status'[v] = status[v]
      BY <1>1, <1>3, <2>5 DEF ProtectionInv, ProtectionTypeOK
    <3>2. ~Failing(v)
      BY <1>9, <2>5 DEF Failing
    <3> QED
      BY <2>1, <2>2, <2>3, <3>1, <3>2, FlowKeeps
  <2> QED
    BY <2>4, <2>5
<1> QED
  BY <1>10, <1>12 DEF ProtectionInv, WorkIsKept

LEMMA FailureKeeps ==
    ASSUME ProtectionInv, RecordFailure
    PROVE  ProtectionInv'
<1> DEFINE w == job.checkpoint.workspace
           g == job.checkpoint.generation
           m == manager[w]
           n == [MarkDirty(m, g) EXCEPT
                    !.failures = IF m.failures < Threshold THEN m.failures + 1 ELSE m.failures]
<1>1. /\ job.pc = "record"
      /\ manager' = [manager EXCEPT ![w] = n]
      /\ status' = [status EXCEPT ![w] = "Failed"]
      /\ job' = NoJob
      /\ UNCHANGED <<watched, unscanned, channel, generation, pending, debounce, due, snapshots,
                     unsaved, owed>>
  BY DEF RecordFailure, watcherVars, workVars
<1>2. job \in Handlings /\ job # NoJob
  BY <1>1, HandlingShape DEF ProtectionInv, ProtectionTypeOK, NoJob
<1>3. w \in Workspaces /\ g \in Nat
  BY <1>2 DEF Handlings, DueCheckpoints
<1>4. m \in ManagerStates
  BY <1>3 DEF ProtectionInv, ProtectionTypeOK
<1>5. n \in ManagerStates /\ n.dirty = TRUE
  BY <1>3, <1>4, FailureOps
<1>6. w = job.checkpoint.workspace
  OBVIOUS
<1> HIDE DEF n, m, w, g
<1>7. ProtectionTypeOK'
  <2>1. manager' \in [Workspaces -> ManagerStates]
    BY <1>1, <1>3, <1>5 DEF ProtectionInv, ProtectionTypeOK
  <2>2. status' \in [Workspaces -> {"None", "Dirty", "Failed", "Protected", "Unchanged"}]
    BY <1>1, <1>3 DEF ProtectionInv, ProtectionTypeOK
  <2> QED
    BY <1>1, <2>1, <2>2 DEF ProtectionInv, ProtectionTypeOK
<1>8. ASSUME NEW v \in Workspaces
      PROVE  /\ Kept(v)'
             /\ Recording(v)' => Covered(v)'
             /\ owed'[v] \subseteq unsaved'[v]
             /\ v \notin watched' => owed'[v] = {}
  <2>1. /\ owed'[v] \subseteq unsaved'[v] /\ (v \notin watched' => owed'[v] = {})
        /\ owed'[v] = owed[v] /\ owed[v] \subseteq Paths /\ Kept(v)
    BY <1>1 DEF ProtectionInv, ProtectionTypeOK, WorkIsKept
  <2>2. \A q \in Paths : OnTheWay(q, v) => OnTheWay(q, v)'
    BY <1>1 DEF OnTheWay
  <2>3. ~Recording(v)'
    BY <1>1 DEF Recording
  <2>4. CASE v = w
    <3>1. manager'[v] = n /\ status'[v] = "Failed"
      BY <1>1, <1>3, <2>4 DEF ProtectionInv, ProtectionTypeOK
    <3> QED
      BY <1>5, <2>1, <2>3, <3>1, Zenon DEF Kept
  <2>5. CASE v # w
    <3>1. manager'[v] = manager[v] /\ status'[v] = status[v]
      BY <1>1, <1>3, <2>5 DEF ProtectionInv, ProtectionTypeOK
    <3>2. ~Failing(v)
      BY <1>6, <2>5 DEF Failing
    <3> QED
      BY <2>1, <2>2, <2>3, <3>1, <3>2, FlowKeeps
  <2> QED
    BY <2>4, <2>5
<1> QED
  BY <1>7, <1>8 DEF ProtectionInv, WorkIsKept
-----------------------------------------------------------------------------
LEMMA ProtectionInitInv == Init => ProtectionInv
<1> SUFFICES ASSUME Init PROVE ProtectionInv
  OBVIOUS
<1>1. NewDebounce \in DebounceStates
  BY DEF NewDebounce, DebounceStates, Ages
<1>2. NewManager \in ManagerStates
  BY DEF NewManager, ManagerStates
<1>3. channel \in Seq(Hints)
  BY DEF Init
<1>4. ProtectionTypeOK
  BY <1>1, <1>2, <1>3 DEF Init, ProtectionTypeOK
<1>5. WorkIsKept
  BY DEF Init, WorkIsKept, Kept, Covered, Recording
<1> QED
  BY <1>4, <1>5 DEF ProtectionInv

LEMMA ProtectionStep == ProtectionInv /\ [Next]_vars => ProtectionInv'
<1> SUFFICES ASSUME ProtectionInv, [Next]_vars PROVE ProtectionInv'
  OBVIOUS
<1>1. CASE \E w \in Workspaces, p \in Paths : Edit(w, p)
  BY <1>1, EditKeeps
<1>2. CASE \E w \in Workspaces : Watch(w) \/ Unwatch(w)
  BY <1>2, WatchKeeps
<1>3. CASE \E w \in Workspaces : PollOnce(w)
  BY <1>3, PollKeeps
<1>4. CASE ObserveRawEvent
  BY <1>4, ObserveKeeps
<1>5. CASE DrainCoalesced
  BY <1>5, CoalescedKeeps
<1>6. CASE DrainDue \/ FlushAll
  <2>1. PICK C \in SUBSET Workspaces, P \in SUBSET Workspaces : LoopIdle /\ Drain(C, P)
    BY <1>6 DEF DrainDue, FlushAll
  <2> QED
    BY <2>1, DrainKeeps
<1>7. CASE Tick
  BY <1>7, TickKeeps
<1>8. CASE HandleCheckpoint
  BY <1>8, CreatesKeeps, HandlingEndsKeeps DEF HandleCheckpoint
<1>9. CASE ImportToAnchor
  BY <1>9, ImportKeeps
<1>10. CASE RecordSuccess
  BY <1>10, SuccessKeeps
<1>11. CASE RecordFailure
  BY <1>11, FailureKeeps
<1>12. CASE UNCHANGED vars
  <2>1. UNCHANGED <<watched, unscanned, channel, generation, pending, debounce, due, job, manager,
                    status, snapshots, unsaved, owed>>
    BY <1>12 DEF vars, watcherVars, managerVars, workVars
  <2>2. ProtectionTypeOK'
    BY <2>1 DEF ProtectionInv, ProtectionTypeOK
  <2>3. ASSUME NEW v \in Workspaces
        PROVE  /\ Kept(v)'
               /\ Recording(v)' => Covered(v)'
               /\ owed'[v] \subseteq unsaved'[v]
               /\ v \notin watched' => owed'[v] = {}
    <3>1. \A q \in Paths : OnTheWay(q, v) => OnTheWay(q, v)'
      BY <2>1 DEF OnTheWay
    <3>2. owed'[v] = owed[v] /\ owed'[v] \subseteq unsaved'[v] /\ (v \notin watched' => owed'[v] = {})
      BY <2>1 DEF ProtectionInv, WorkIsKept
    <3> QED
      BY <2>1, <3>1, <3>2, WorkFlows
  <2> QED
    BY <2>2, <2>3 DEF ProtectionInv, WorkIsKept
<1> QED
  BY <1>1, <1>2, <1>3, <1>4, <1>5, <1>6, <1>7, <1>8, <1>9, <1>10, <1>11, <1>12 DEF Next

(* No edit of a watched workspace is lost between the watcher, the          *)
(* debouncer and the checkpoint manager: until it is in a snapshot it is on *)
(* its way to one, or its workspace is dirty and reported as failed.        *)
THEOREM NoEditForgottenAlways == Spec => []NoEditForgotten
<1>1. ProtectionInv => NoEditForgotten
  <2> SUFFICES ASSUME ProtectionInv, NEW w \in Workspaces
               PROVE  \/ owed[w] \subseteq InPipeline(w)
                      \/ Failing(w)
                      \/ manager[w].dirty /\ (status[w] = "Failed" \/ InPipeline(w) # {})
    BY DEF NoEditForgotten
  <2>1. Covered(w) => owed[w] \subseteq InPipeline(w)
    BY PipelineMeans DEF Covered
  <2>2. Busy(w) => InPipeline(w) # {}
    BY PipelineMeans DEF Busy
  <2>3. Kept(w)
    BY DEF ProtectionInv, WorkIsKept
  <2> QED
    BY <2>1, <2>2, <2>3, Zenon DEF Kept
<1> QED
  BY <1>1, ProtectionInitInv, ProtectionStep, PTL DEF Spec

(***************************************************************************)
(* The environment doctor                                                  *)
(***************************************************************************)
DoctorSpec == DoctorInit /\ [][DoctorNext]_doctorVars

Failure == "healthcheck-failure"
Places == {"start", "spawn", "poll", "clock", "kill", "collect", "done", "failed"}
Watching == {"poll", "clock", "kill", "collect"}
AtWork == {"spawn"} \cup Watching
DoctorCommands == {"healthcheck", "prepare", "bootstrap"}
Codes == {0, 1, 9}
Children == [state : {"running", "exited"}, left : Nat, pipe : Nat, elapsed : Nat,
             code : Codes, killed : BOOLEAN]
Entries == [command : DoctorCommands, code : Codes, killed : BOOLEAN]

(* Which profile is selected does not matter, and so neither does its type. *)
DoctorTypeOK ==
    /\ doctor = [pc |-> doctor.pc, selected |-> doctor.selected,
                 command |-> doctor.command, issues |-> doctor.issues]
    /\ doctor.pc \in Places
    /\ doctor.pc \in AtWork => doctor.command \in DoctorCommands
    /\ child \in Children \cup {NoChild}
    /\ doctor.pc \in Watching => child \in Children
    /\ history \in Seq(Entries)

EndedWell(entry) == entry.code = 0 /\ ~entry.killed

(* What the commands before the one that runs have to be: none for a Nix    *)
(* profile and for a preparation, one for the healthcheck that follows it.  *)
RanBefore ==
    /\ KindSelected = "nix" => doctor.command = "healthcheck"
    /\ Len(history) = IF doctor.command = "healthcheck" /\ KindSelected # "nix" THEN 1 ELSE 0

RanAll ==
    /\ history[Len(history)].command = "healthcheck"
    /\ KindSelected # "nix" => Len(history) = 2

(* A doctor at work has seen success only, and every end without the issue  *)
(* comes after a success, too.                                             *)
WorkIsClean ==
    /\ doctor.pc = "start" => history = <<>>
    /\ doctor.pc \in AtWork => Failure \notin doctor.issues /\ RanBefore
    /\ Failure \notin doctor.issues => \A i \in DOMAIN history : EndedWell(history[i])
    /\ doctor.pc = "done" /\ history # <<>> /\ Failure \notin doctor.issues => RanAll

DoctorInv == DoctorTypeOK /\ WorkIsClean
-----------------------------------------------------------------------------
(* The profile's own issues are never the failure of a command. *)
LEMMA ProfilesDoNotFail == Failure \notin ProfileIssues
BY DEF ProfileIssues, Failure

(* What collect_healthcheck_issue runs first. *)
LEMMA FirstIsKnown ==
    ASSUME NEW kind
    PROVE  /\ FirstCommand(kind) \in DoctorCommands \cup {"none"}
           /\ kind = "nix" /\ FirstCommand(kind) # "none" => FirstCommand(kind) = "healthcheck"
           /\ FirstCommand(kind) = "healthcheck" => kind = "nix"
BY DEF FirstCommand, DoctorCommands

(* Only an end without a kill and with status 0 counts as success. *)
LEMMA SuccessIsEarned ==
    ASSUME Outcome = "succeeded" PROVE child.code = 0 /\ ~child.killed
<1>1. ~child.killed
  BY Zenon DEF Outcome
<1> QED
  BY <1>1 DEF Outcome

LEMMA DoctorBegins == DoctorInit => DoctorInv
BY DEF DoctorInit, DoctorInv, DoctorTypeOK, WorkIsClean, Places, AtWork, Watching, NoChild,
       Failure, EndedWell

LEMMA BeginKeepsInv == ASSUME DoctorInv, BeginDoctor PROVE DoctorInv'
<1> DEFINE selected == SelectProfile
           kind == Profiles[selected].kind
           first == IF host.runHealthcheck /\ selected # 0 THEN FirstCommand(kind) ELSE "none"
           issues == ProfileIssues
           pc == IF first = "none" THEN "done" ELSE "spawn"
<1>1. /\ doctor.pc = "start"
      /\ doctor' = [pc |-> pc, selected |-> selected, command |-> first, issues |-> issues]
      /\ child' = child /\ history' = history
  BY DEF BeginDoctor
<1>2. Failure \notin issues
  BY ProfilesDoNotFail
<1>3. /\ first \in DoctorCommands \cup {"none"}
      /\ kind = "nix" /\ first # "none" => first = "healthcheck"
      /\ first = "healthcheck" => kind = "nix"
  BY FirstIsKnown
<1>4. pc \in {"done", "spawn"} /\ (pc = "spawn" => first \in DoctorCommands)
  BY <1>3
<1>5. history = <<>>
  BY <1>1 DEF DoctorInv, WorkIsClean
<1>6. KindSelected' = kind
  <2> HIDE DEF selected, first, issues, pc
  <2> QED
    BY <1>1 DEF KindSelected
<1> HIDE DEF selected, kind, first, issues, pc
<1>7. DoctorTypeOK'
  BY <1>1, <1>3, <1>4 DEF DoctorInv, DoctorTypeOK, Places, AtWork, Watching
<1>8. /\ doctor'.pc = pc /\ doctor'.command = first /\ doctor'.issues = issues
      /\ history' = <<>> /\ Len(history') = 0
  BY <1>1, <1>5
<1>9. RanBefore' \/ pc = "done"
  <2>1. CASE pc = "done"
    BY <2>1
  <2>2. CASE pc = "spawn"
    <3>1. first # "none"
      BY <1>4, <2>2 DEF DoctorCommands
    <3> QED
      BY <3>1, <1>3, <1>6, <1>8 DEF RanBefore
  <2> QED
    BY <1>4, <2>1, <2>2
<1>10. WorkIsClean'
  <2>1. (\A i \in DOMAIN history : EndedWell(history[i]))'
    BY <1>8
  <2>2. doctor'.pc \in AtWork => Failure \notin doctor'.issues /\ RanBefore'
    BY <1>2, <1>8, <1>9 DEF AtWork, Watching
  <2>3. doctor'.pc # "start"
    BY <1>4, <1>8
  <2> QED
    BY <1>8, <2>1, <2>2, <2>3 DEF WorkIsClean
<1> QED
  BY <1>7, <1>10 DEF DoctorInv

(* The steps that start a command, watch it and read from it change no      *)
(* issue, no command and no history.                                       *)
LEMMA WatchingKeepsInv ==
    ASSUME DoctorInv, NEW p \in AtWork \cup {"failed"},
           doctor.pc \in AtWork, doctor' = [doctor EXCEPT !.pc = p],
           child' \in Children \cup {NoChild}, p \in Watching => child' \in Children,
           UNCHANGED history
    PROVE  DoctorInv'
<1>1. /\ doctor'.pc = p /\ doctor'.selected = doctor.selected
      /\ doctor'.command = doctor.command /\ doctor'.issues = doctor.issues
      /\ doctor' = [pc |-> doctor'.pc, selected |-> doctor'.selected,
                    command |-> doctor'.command, issues |-> doctor'.issues]
  BY DEF DoctorInv, DoctorTypeOK
<1>2. p \in Places /\ p \notin {"start", "done"}
  BY DEF Places, AtWork, Watching
<1>3. DoctorTypeOK'
  BY <1>1, <1>2 DEF DoctorInv, DoctorTypeOK
<1>4. RanBefore'
  BY <1>1 DEF DoctorInv, WorkIsClean, RanBefore, KindSelected
<1>5. Failure \notin doctor'.issues /\ \A i \in DOMAIN history' : EndedWell(history'[i])
  BY <1>1 DEF DoctorInv, WorkIsClean
<1>6. WorkIsClean'
  <2>1. (\A i \in DOMAIN history : EndedWell(history[i]))'
    BY <1>5 DEF EndedWell
  <2> QED
    BY <1>1, <1>2, <1>4, <1>5, <2>1 DEF WorkIsClean
<1> QED
  BY <1>3, <1>6 DEF DoctorInv

LEMMA ChildKeepsInv ==
    ASSUME DoctorInv, UNCHANGED <<doctor, history>>,
           child' \in Children \cup {NoChild}, doctor.pc \in Watching => child' \in Children
    PROVE  DoctorInv'
<1>1. DoctorTypeOK'
  BY DEF DoctorInv, DoctorTypeOK
<1>2. WorkIsClean'
  BY DEF DoctorInv, WorkIsClean, RanBefore, RanAll, KindSelected, EndedWell
<1> QED
  BY <1>1, <1>2 DEF DoctorInv

(* The end of a command: the next one starts, or the doctor has ended. *)
LEMMA CollectKeepsInv == ASSUME DoctorInv, CollectOutcome PROVE DoctorInv'
<1> DEFINE entry == [command |-> doctor.command, code |-> child.code, killed |-> child.killed]
           n == Len(history)
<1>1. /\ doctor.pc = "collect" /\ child' = NoChild
      /\ history' = Append(history, entry)
  BY DEF CollectOutcome
<1>2. /\ doctor.pc \in AtWork /\ doctor.pc \in Watching
      /\ doctor.command \in DoctorCommands
      /\ Failure \notin doctor.issues /\ RanBefore
      /\ child \in Children
      /\ history \in Seq(Entries)
  BY <1>1 DEF DoctorInv, DoctorTypeOK, WorkIsClean, AtWork, Watching
<1>3. entry \in Entries
  BY <1>2 DEF Entries, Children
<1>4. /\ n \in Nat /\ history' \in Seq(Entries) /\ Len(history') = n + 1
      /\ DOMAIN history' = 1 .. n + 1 /\ DOMAIN history = 1 .. n
      /\ history'[n + 1] = entry
      /\ \A i \in 1 .. n : history'[i] = history[i]
  <2> HIDE DEF entry
  <2> QED
    BY <1>1, <1>2, <1>3
<1>5. \A i \in DOMAIN history : EndedWell(history[i])
  BY <1>2 DEF DoctorInv, WorkIsClean
<1>6. CASE Outcome # "succeeded"
  <2>1. doctor' = [doctor EXCEPT !.pc = "done", !.issues = @ \cup {Failure}]
    BY <1>6 DEF CollectOutcome, Failure
  <2>2. /\ doctor'.pc = "done" /\ Failure \in doctor'.issues
        /\ doctor' = [pc |-> doctor'.pc, selected |-> doctor'.selected,
                      command |-> doctor'.command, issues |-> doctor'.issues]
    BY <2>1 DEF DoctorInv, DoctorTypeOK
  <2>3. DoctorTypeOK'
    BY <1>1, <1>4, <2>2 DEF DoctorTypeOK, Places, AtWork, Watching
  <2>4. WorkIsClean'
    BY <2>2 DEF WorkIsClean, AtWork, Watching
  <2> QED
    BY <2>3, <2>4 DEF DoctorInv
<1>7. CASE Outcome = "succeeded"
  <2>1. EndedWell(entry)
    BY <1>7, SuccessIsEarned DEF EndedWell
  <2>2. (\A i \in DOMAIN history : EndedWell(history[i]))'
    <3> SUFFICES ASSUME NEW i \in 1 .. n + 1 PROVE EndedWell(history'[i])
      BY <1>4 DEF EndedWell
    <3>1. CASE i = n + 1
      BY <3>1, <2>1, <1>4
    <3>2. CASE i # n + 1
      <4>1. i \in 1 .. n
        BY <3>2, <1>4
      <4> QED
        BY <4>1, <1>4, <1>5
    <3> QED
      BY <3>1, <3>2
  <2>3. CASE doctor.command = "healthcheck"
    <3>1. doctor' = [doctor EXCEPT !.pc = "done"]
      BY <1>7, <2>3 DEF CollectOutcome
    <3>2. /\ doctor'.pc = "done" /\ doctor'.selected = doctor.selected
          /\ doctor' = [pc |-> doctor'.pc, selected |-> doctor'.selected,
                        command |-> doctor'.command, issues |-> doctor'.issues]
      BY <3>1 DEF DoctorInv, DoctorTypeOK
    <3>3. DoctorTypeOK'
      BY <1>1, <1>4, <3>2 DEF DoctorTypeOK, Places, AtWork, Watching
    <3>4. RanAll'
      <4>1. KindSelected # "nix" => n = 1
        BY <1>2, <2>3 DEF RanBefore
      <4>2. KindSelected' = KindSelected
        BY <3>2 DEF KindSelected
      <4>3. history'[Len(history')].command = "healthcheck"
        <5>1. entry.command = "healthcheck"
          BY <2>3
        <5> HIDE DEF entry
        <5> QED
          BY <1>4, <5>1
      <4>4. ASSUME KindSelected' # "nix" PROVE Len(history') = 2
        <5>1. n = 1
          BY <4>1, <4>2, <4>4
        <5>2. Len(history') = n + 1
          BY <1>4
        <5> HIDE DEF n
        <5> QED
          BY <5>1, <5>2
      <4> QED
        BY <4>3, <4>4 DEF RanAll
    <3>5. WorkIsClean'
      BY <2>2, <3>2, <3>4 DEF WorkIsClean, AtWork, Watching
    <3> QED
      BY <3>3, <3>5 DEF DoctorInv
  <2>4. CASE doctor.command # "healthcheck"
    <3>1. doctor' = [doctor EXCEPT !.pc = "spawn", !.command = "healthcheck"]
      BY <1>7, <2>4 DEF CollectOutcome
    <3>2. /\ doctor'.pc = "spawn" /\ doctor'.selected = doctor.selected
          /\ doctor'.command = "healthcheck" /\ doctor'.issues = doctor.issues
          /\ doctor' = [pc |-> doctor'.pc, selected |-> doctor'.selected,
                        command |-> doctor'.command, issues |-> doctor'.issues]
      BY <3>1 DEF DoctorInv, DoctorTypeOK
    <3>3. DoctorTypeOK'
      BY <1>1, <1>4, <3>2 DEF DoctorTypeOK, Places, AtWork, Watching, DoctorCommands
    <3>4. RanBefore'
      <4>1. KindSelected # "nix" /\ n = 0
        BY <1>2, <2>4 DEF RanBefore
      <4>2. KindSelected' = KindSelected
        BY <3>2 DEF KindSelected
      <4> QED
        BY <1>4, <3>2, <4>1, <4>2 DEF RanBefore
    <3>5. WorkIsClean'
      BY <1>2, <2>2, <3>2, <3>4 DEF WorkIsClean
    <3> QED
      BY <3>3, <3>5 DEF DoctorInv
  <2> QED
    BY <2>3, <2>4
<1> QED
  BY <1>6, <1>7

LEMMA DoctorStep ==
    ASSUME DoctorAssumption, DoctorInv, [DoctorNext]_doctorVars PROVE DoctorInv'
<1>1. CASE BeginDoctor
  BY <1>1, BeginKeepsInv
<1>2. CASE Spawn
  <2>1. PICK left \in 0 .. MaxOutput :
            child' = [state |-> "running", left |-> left, pipe |-> 0, elapsed |-> 0,
                      code |-> 0, killed |-> FALSE]
    BY <1>2 DEF Spawn
  <2>2. child' \in Children
    BY <2>1, DoctorAssumption DEF Children, Codes, DoctorAssumption
  <2>3. PICK p \in {"collect", "poll"} : doctor' = [doctor EXCEPT !.pc = p]
    BY <1>2 DEF Spawn
  <2>4. p \in AtWork /\ doctor.pc \in AtWork /\ UNCHANGED history
    BY <1>2, <2>3 DEF Spawn, AtWork, Watching
  <2> QED
    BY <2>2, <2>3, <2>4, WatchingKeepsInv
<1>3. CASE SpawnFails
  <2>1. /\ doctor.pc \in AtWork /\ doctor' = [doctor EXCEPT !.pc = "failed"]
        /\ UNCHANGED <<child, history>>
    BY <1>3 DEF SpawnFails, AtWork, Watching
  <2>2. child' \in Children \cup {NoChild} /\ "failed" \notin Watching
    BY <2>1 DEF DoctorInv, DoctorTypeOK, Watching
  <2> QED
    BY <2>1, <2>2, WatchingKeepsInv
<1>4. CASE ChildWrites \/ ChildExits \/ TimePasses
  <2>1. child \in Children /\ UNCHANGED <<doctor, history>>
    BY <1>4 DEF ChildWrites, ChildExits, TimePasses, DoctorInv, DoctorTypeOK, NoChild
  <2>2. CASE ChildWrites
    <3>1. child' = [child EXCEPT !.left = child.left - 1, !.pipe = child.pipe + 1]
      BY <2>2 DEF ChildWrites
    <3>2. child.left > 0
      BY <2>2 DEF ChildWrites
    <3>3. child' = [state |-> child.state, left |-> child.left - 1, pipe |-> child.pipe + 1,
                    elapsed |-> child.elapsed, code |-> child.code, killed |-> child.killed]
      BY <2>1, <3>1 DEF Children
    <3>4. child' \in Children
      BY <2>1, <3>2, <3>3 DEF Children
    <3> QED
      BY <2>1, <3>4, ChildKeepsInv
  <2>3. CASE ChildExits
    <3>1. PICK code \in {0, 1} : child' = [child EXCEPT !.state = "exited", !.code = code]
      BY <2>3 DEF ChildExits
    <3>2. child' = [state |-> "exited", left |-> child.left, pipe |-> child.pipe,
                    elapsed |-> child.elapsed, code |-> code, killed |-> child.killed]
      BY <2>1, <3>1 DEF Children
    <3>3. child' \in Children
      BY <2>1, <3>2 DEF Children, Codes
    <3> QED
      BY <2>1, <3>3, ChildKeepsInv
  <2>4. CASE TimePasses
    <3>1. child' = [child EXCEPT !.elapsed = child.elapsed + 1]
      BY <2>4 DEF TimePasses
    <3>2. child' \in Children
      BY <2>1, <3>1 DEF Children
    <3> QED
      BY <2>1, <3>2, ChildKeepsInv
  <2> QED
    BY <1>4, <2>2, <2>3, <2>4
<1>5. CASE TryWaitChild \/ CheckClock
  <2>1. /\ doctor.pc \in Watching /\ UNCHANGED <<child, history>>
        /\ \E p \in Watching : doctor' = [doctor EXCEPT !.pc = p]
    BY <1>5 DEF TryWaitChild, CheckClock, Watching
  <2>2. child \in Children
    BY <2>1 DEF DoctorInv, DoctorTypeOK
  <2> QED
    BY <2>1, <2>2, WatchingKeepsInv DEF AtWork
<1>6. CASE Kill
  <2>1. /\ doctor.pc \in Watching /\ UNCHANGED history
        /\ doctor' = [doctor EXCEPT !.pc = "collect"]
    BY <1>6 DEF Kill, Watching
  <2>2. child \in Children
    BY <2>1 DEF DoctorInv, DoctorTypeOK
  <2>3. child' \in Children
    <3>1. PICK code \in Codes :
              child' = [child EXCEPT !.killed = TRUE, !.code = code, !.state = "exited"]
      <4>1. child.code \in Codes
        BY <2>2 DEF Children
      <4>2. CASE child.state = "running"
        BY <1>6, <4>2 DEF Kill, Codes
      <4>3. CASE child.state # "running"
        BY <1>6, <4>1, <4>3 DEF Kill
      <4> QED
        BY <4>2, <4>3
    <3>2. child' = [state |-> "exited", left |-> child.left, pipe |-> child.pipe,
                    elapsed |-> child.elapsed, code |-> code, killed |-> TRUE]
      BY <2>2, <3>1 DEF Children
    <3> QED
      BY <2>2, <3>2 DEF Children
  <2>4. "collect" \in Watching
    BY DEF Watching
  <2> QED
    BY <2>1, <2>3, <2>4, WatchingKeepsInv DEF AtWork
<1>7. CASE ReadOutput
  <2>1. /\ doctor.pc \in Watching /\ UNCHANGED <<doctor, history>>
        /\ child.pipe > 0 /\ child' = [child EXCEPT !.pipe = @ - 1]
    BY <1>7 DEF ReadOutput, Watching
  <2>2. child \in Children
    BY <2>1 DEF DoctorInv, DoctorTypeOK
  <2>3. child' \in Children
    BY <2>1, <2>2 DEF Children
  <2> QED
    BY <2>1, <2>3, ChildKeepsInv
<1>8. CASE CollectOutcome
  BY <1>8, CollectKeepsInv
<1>9. CASE UNCHANGED doctorVars
  <2>1. UNCHANGED <<doctor, child, history>>
    BY <1>9 DEF doctorVars
  <2> QED
    BY <2>1, ChildKeepsInv DEF DoctorInv, DoctorTypeOK
<1> QED
  BY <1>1, <1>2, <1>3, <1>4, <1>5, <1>6, <1>7, <1>8, <1>9 DEF DoctorNext

(* A report without an issue of a command, from a doctor that ran some, is  *)
(* earned for every list of profiles, time limit, pipe and output: every   *)
(* command ran to its end by itself and with status 0, the healthcheck     *)
(* last (collect_healthcheck_issue, SystemEnvironmentCommandRunner::run).   *)
THEOREM CleanReportsAreEarnedAlways == DoctorSpec => []CleanReportsAreEarned
<1>1. DoctorInit => DoctorInv
  BY DoctorBegins
<1>2. DoctorInv /\ [DoctorNext]_doctorVars => DoctorInv'
  BY DoctorStep, DoctorAssumption
<1>3. DoctorInv => CleanReportsAreEarned
  BY DEF DoctorInv, WorkIsClean, RanAll, CleanReportsAreEarned, EndedWell, Failure
<1> QED
  BY <1>1, <1>2, <1>3, PTL DEF DoctorSpec
-----------------------------------------------------------------------------
(* The desktop application                                                 *)

DesktopSpec == DesktopInit /\ [][DesktopNext]_desktopVars

HandoffTargets == Targets \cup {"none"}
DesktopViews ==
    [lease : {"none", "here", "away"}, handoff : HandoffTargets, profile : {"none", "adaptive", "eco"},
     errors : SUBSET (FirstCalls \cup LaterCalls \cup {"agent"})]
CommandNames == {"ui_bootstrap", "handoff_prepare", "handoff_abort"}
Invocations ==
    [command : CommandNames, argument : HandoffTargets, stage : {"leases", "rest"}, seen : DesktopViews]
PageAnswers == [command : CommandNames, ok : BOOLEAN, seen : DesktopViews]
Messages == {"tray-refresh", "connected", "event", "disconnected"}

LocalStates ==
    [run : Nat, up : BOOLEAN, published : Nat, lease : {"here", "away"},
     handoff : HandoffTargets, profile : {"adaptive", "eco"}]
BridgeStates == [run : Nat, cursor : Nat, queue : Seq(Nat)]
TrayStates ==
    [menu : DesktopViews, job : {"idle", "leases", "rest", "eco", "adaptive"}, seen : DesktopViews]
PageStates ==
    [listening : BOOLEAN, shown : DesktopViews, loading : BOOLEAN, connected : BOOLEAN,
     refreshing : BOOLEAN, timer : BOOLEAN, dialog : HandoffTargets,
     phase : {"none", "review", "running", "success", "failure"}]

LocalTypeOK ==
    /\ local \in LocalStates
    /\ unsaid \in Nat
    /\ bridge \in BridgeStates
    /\ tray \in TrayStates
PageTypeOK ==
    /\ emitted \in Seq(Messages)
    /\ mainThread \in Seq(Invocations)
    /\ answers \in Seq(PageAnswers)
    /\ page \in PageStates
DesktopTypeOK == LocalTypeOK /\ PageTypeOK

\* Only the command at the head has been begun, and the bridge has a connection to this run of the agent or to an earlier one.
BegunInOrder(thread) ==
    \A i \in DOMAIN thread :
       /\ i # 1 => thread[i].stage = "leases"
       /\ thread[i].stage = "leases" => thread[i].seen = NothingRead
CommandsInTurn ==
    /\ BegunInOrder(mainThread)
    /\ local.run > 0 /\ bridge.run <= local.run

\* Something that will make the page refresh, or a lost connection, whose
\* return will.
RefreshComes ==
    \/ ~Connected \/ unsaid > 0 \/ bridge.queue # <<>> \/ emitted # <<>>
    \/ ~page.listening \/ page.timer \/ tray.job # "idle"

IsRefresh(c) == c.command = "ui_bootstrap"
Refreshing(thread) == \E i \in DOMAIN thread : IsRefresh(thread[i])

\* A view with what its calls would read now; none failed for want of the agent.
UpToDate(view, agent) ==
    /\ "agent" \notin view.errors
    /\ view.lease = IF "leases" \in view.errors THEN "none" ELSE agent.lease
    /\ view.handoff = IF "handoffs" \in view.errors THEN "none" ELSE agent.handoff
    /\ view.profile = IF "settings" \in view.errors THEN "none" ELSE agent.profile

\* A view in which only the first calls were made, and read what is so now.
Begun(view, agent) ==
    /\ "agent" \notin view.errors /\ view.errors \cap LaterCalls = {}
    /\ view.lease = IF "leases" \in view.errors THEN "none" ELSE agent.lease

\* A refresh under way that will read what is so now.
Current(c, agent) == IsRefresh(c) /\ (c.stage = "leases" \/ Begun(c.seen, agent))
CurrentIn(thread, agent) == \E i \in DOMAIN thread : Current(thread[i], agent)
\* The last refresh that was answered has read it.
LastIs(told, agent) ==
    \E i \in DOMAIN told :
       /\ IsRefresh(told[i]) /\ UpToDate(told[i].seen, agent)
       /\ \A j \in DOMAIN told : j > i => ~IsRefresh(told[j])

PageFollows ==
    \/ RefreshComes
    \/ CurrentIn(mainThread, local)
    \/ /\ ~Refreshing(mainThread)
       /\ LastIs(answers, local) \/ (~Refreshing(answers) /\ UpToDate(page.shown, local))

SpinnerEnds ==
    page.loading \/ page.refreshing =>
       page.timer \/ ~page.listening \/ Refreshing(mainThread) \/ Refreshing(answers)

DesktopInv == DesktopTypeOK /\ CommandsInTurn /\ PageFollows /\ SpinnerEnds
-----------------------------------------------------------------------------
(* An invocation of the page goes to the end of the thread and is not begun; *)
(* the command at the head is answered at the end of the answers.            *)
Invoked(name) ==
    \E c \in Invocations : /\ mainThread' = Append(mainThread, c)
                           /\ c.command = name /\ c.stage = "leases" /\ c.seen = NothingRead
Answered(seen) ==
    /\ mainThread # <<>> /\ mainThread' = Tail(mainThread)
    /\ \E a \in PageAnswers : /\ answers' = Append(answers, a)
                              /\ a.command = Command.command /\ a.seen = seen

LEMMA InvokeAppends ==
  ASSUME NEW name \in CommandNames, NEW argument \in HandoffTargets,
         mainThread' = Invoke(mainThread, name, argument)
  PROVE  Invoked(name)
<1> DEFINE c == [command |-> name, argument |-> argument, stage |-> "leases", seen |-> NothingRead]
<1>1. c \in Invocations
  BY DEF Invocations, NothingRead, DesktopViews, HandoffTargets
<1>2. c.command = name /\ c.stage = "leases" /\ c.seen = NothingRead
  OBVIOUS
<1>3. mainThread' = Append(mainThread, c)
  BY DEF Invoke
<1> HIDE DEF c
<1> QED
  BY <1>1, <1>2, <1>3 DEF Invoked

LEMMA AnswerAppends ==
  ASSUME PageTypeOK, mainThread # <<>>, NEW ok \in BOOLEAN, NEW seen \in DesktopViews, Answer(ok, seen)
  PROVE  Answered(seen)
<1> DEFINE a == [command |-> Command.command, ok |-> ok, seen |-> seen]
<1>1. Command \in Invocations
  BY DEF Command, PageTypeOK
<1>2. a \in PageAnswers
  BY <1>1 DEF Invocations, PageAnswers
<1>3. a.command = Command.command /\ a.seen = seen
  OBVIOUS
<1>4. mainThread' = Tail(mainThread) /\ answers' = Append(answers, a)
  BY DEF Answer
<1> HIDE DEF a
<1> QED
  BY <1>2, <1>3, <1>4 DEF Answered

LEMMA NothingIsAView == NothingRead \in DesktopViews
  BY DEF NothingRead, DesktopViews, HandoffTargets

(* What the agent's answers look like as a view. *)
LEMMA ViewsTyped ==
  ASSUME DesktopTypeOK, NEW view \in DesktopViews,
         NEW failed \in SUBSET (FirstCalls \cup LaterCalls \cup {"agent"})
  PROVE  /\ AnswerNow(failed) \in DesktopViews
         /\ ReadLeases(view, failed) \in DesktopViews /\ ReadRest(view, failed) \in DesktopViews
<1> USE DEF DesktopTypeOK, LocalTypeOK, LocalStates, DesktopViews
<1>1. AnswerNow(failed) \in DesktopViews
  BY DEF AnswerNow, HandoffTargets
<1>2. view.errors \cup failed \in SUBSET (FirstCalls \cup LaterCalls \cup {"agent"})
  OBVIOUS
<1>3. ReadLeases(view, failed) \in DesktopViews
  BY <1>1, <1>2 DEF ReadLeases
<1>4. ReadRest(view, failed) \in DesktopViews
  BY <1>1, <1>2 DEF ReadRest
<1> QED
  BY <1>1, <1>3, <1>4

LEMMA AppendedTo ==
  ASSUME NEW S, NEW q \in Seq(S), NEW e \in S
  PROVE  Append(q, e) \in Seq(S) /\ Append(q, e) # <<>>
<1>1. Append(q, e) \in Seq(S) /\ Len(Append(q, e)) = Len(q) + 1 /\ Len(q) \in Nat
  OBVIOUS
<1>2. Len(Append(q, e)) # 0 /\ Len(<<>>) = 0
  BY <1>1
<1> QED
  BY <1>1, <1>2

LEMMA EmitTyped ==
  ASSUME DesktopTypeOK, NEW message \in Messages, Emit(message)
  PROVE  emitted' \in Seq(Messages) /\ (page.listening => emitted' # <<>>)
  BY AppendedTo DEF DesktopTypeOK, PageTypeOK, Emit

LEMMA RefreshedTyped ==
  ASSUME PageTypeOK, NEW p, p = page \/ \E h \in {"success", "failure"} : p = [page EXCEPT !.phase = h]
  PROVE  /\ Refreshed(p) \in PageStates
         /\ Refreshed(p).timer = page.timer /\ Refreshed(p).listening = page.listening
         /\ Refreshed(p).shown = page.shown
  BY DEF PageTypeOK, PageStates, Refreshed

(* A step of the agent, the bridge or the tray that changes what the page   *)
(* ought to show, or takes the reason of a refresh along, leaves one.       *)
LEMMA OutsideBringsRefresh ==
  ASSUME DesktopTypeOK, CommandsInTurn,
         \/ AgentChanges \/ AgentPublishes \/ AgentProcessEnds \/ AgentProcessStarts
         \/ BridgeConnects \/ BridgeReads \/ BridgeFails
         \/ (\E t \in Targets : TrayHandoff(t))
         \/ TrayRefresh \/ TrayToggle \/ TraySetsProfile \/ TrayReadsLeases \/ TraySetsMenu
  PROVE  RefreshComes'
<1> USE DEF DesktopTypeOK, LocalTypeOK, LocalStates, BridgeStates, TrayStates, RefreshComes, Connected
<1>1. CASE AgentChanges
  BY <1>1 DEF AgentChanges
<1>2. CASE AgentPublishes
  BY <1>2 DEF AgentPublishes, Published
<1>3. CASE AgentProcessEnds
  BY <1>3 DEF AgentProcessEnds
<1>4. CASE AgentProcessStarts
  BY <1>4 DEF AgentProcessStarts, CommandsInTurn
<1>5. CASE BridgeConnects
  BY <1>5, EmitTyped DEF BridgeConnects, Messages
<1>6. CASE BridgeReads
  BY <1>6, EmitTyped DEF BridgeReads, Messages
<1>7. CASE BridgeFails
  BY <1>7 DEF BridgeFails, CommandsInTurn
<1>8. CASE \/ \E t \in Targets : TrayHandoff(t)
           \/ TrayRefresh \/ TrayToggle \/ TraySetsProfile \/ TrayReadsLeases
  BY <1>8 DEF TrayHandoff, TrayRefresh, TrayToggle, TraySetsProfile, TrayReadsLeases, TrayStarts
<1>9. CASE TraySetsMenu
  BY <1>9, EmitTyped DEF TraySetsMenu, Messages
<1> QED
  BY <1>1, <1>2, <1>3, <1>4, <1>5, <1>6, <1>7, <1>8, <1>9
-----------------------------------------------------------------------------
(* Types                                                                   *)

(* The bridge is told of one more event, or reads one. *)
LEMMA BridgeQueues ==
  ASSUME bridge \in BridgeStates, NEW n \in Nat
  PROVE  /\ [bridge EXCEPT !.queue = Append(@, n)] \in BridgeStates
         /\ [bridge EXCEPT !.queue = Append(@, n)].queue # <<>>
         /\ bridge.queue # <<>> => [bridge EXCEPT !.cursor = Head(bridge.queue), !.queue = Tail(@)] \in BridgeStates
<1>1. bridge.queue \in Seq(Nat)
  BY DEF BridgeStates
<1>2. Append(bridge.queue, n) \in Seq(Nat) /\ Append(bridge.queue, n) # <<>>
  BY <1>1, AppendedTo
<1>3. bridge.queue # <<>> => Head(bridge.queue) \in Nat /\ Tail(bridge.queue) \in Seq(Nat)
  BY <1>1
<1> QED
  BY <1>2, <1>3 DEF BridgeStates

LEMMA HandoffBecomesTyped ==
  ASSUME LocalTypeOK, NEW h \in HandoffTargets, HandoffBecomes(h)
  PROVE  /\ local' \in LocalStates
         /\ bridge' \in BridgeStates
         /\ local'.run = local.run /\ local'.up = local.up /\ bridge'.run = bridge.run
         /\ (Connected => bridge'.queue # <<>>)
<1> USE DEF LocalTypeOK
<1>1. local' = [local EXCEPT !.handoff = h, !.published = @ + 1]
  BY DEF HandoffBecomes
<1>2. local.published + 1 \in Nat
  BY DEF LocalStates
<1>3. local' \in LocalStates /\ local'.run = local.run /\ local'.up = local.up
  BY <1>1, <1>2 DEF LocalStates
<1>4. \/ ~Connected /\ bridge' = bridge
      \/ bridge' = [bridge EXCEPT !.queue = Append(@, local.published + 1)]
  BY DEF HandoffBecomes
<1>5. bridge' \in BridgeStates /\ (Connected => bridge'.queue # <<>>)
  BY <1>2, <1>4, BridgeQueues
<1>6. bridge'.run = bridge.run
  BY <1>4 DEF BridgeStates
<1> QED
  BY <1>3, <1>5, <1>6

LEMMA FunctionsAreSequences ==
  ASSUME NEW S, NEW n \in Nat, NEW f \in [1 .. n -> S]
  PROVE  f \in Seq(S)
  OBVIOUS

LEMMA LocalTyped ==
  ASSUME DesktopTypeOK, [DesktopNext]_desktopVars
  PROVE  LocalTypeOK'
<1> USE DEF DesktopTypeOK, LocalTypeOK
<1>1. CASE AgentChanges
  <2>1. local' \in ChangedLocal /\ unsaid' = unsaid + 1 /\ UNCHANGED <<bridge, tray>>
    BY <1>1 DEF AgentChanges
  <2>2. \/ \E h \in HandoffTargets : local' = [local EXCEPT !.handoff = h]
        \/ local' = [local EXCEPT !.handoff = "none", !.lease = "away"]
        \/ local' = [local EXCEPT !.lease = "here"]
    <3>1. CASE \E t \in IF local.lease = "here" /\ local.handoff = "none" THEN Targets ELSE {} :
                  local' = [local EXCEPT !.handoff = t]
      BY <3>1 DEF HandoffTargets
    <3>2. CASE \/ local' = [local EXCEPT !.handoff = "none"]
               \/ local' = [local EXCEPT !.handoff = "none", !.lease = "away"]
               \/ local' = [local EXCEPT !.lease = "here"]
      BY <3>2 DEF HandoffTargets
    <3> QED
      BY <2>1, <3>1, <3>2, Zenon DEF ChangedLocal
  <2>3. local' \in LocalStates
    BY <2>2 DEF LocalStates, HandoffTargets
  <2> QED
    BY <2>1, <2>3
<1>2. CASE AgentPublishes
  <2>1. /\ unsaid > 0 /\ unsaid' = unsaid - 1 /\ UNCHANGED tray
        /\ local' = [local EXCEPT !.published = local.published + 1]
        /\ bridge' = bridge \/ bridge' = [bridge EXCEPT !.queue = Append(@, local.published + 1)]
    BY <1>2 DEF AgentPublishes, Published
  <2>2. local.published + 1 \in Nat
    BY DEF LocalStates
  <2>3. local' \in LocalStates
    BY <2>1, <2>2 DEF LocalStates
  <2>4. bridge' \in BridgeStates
    BY <2>1, <2>2, BridgeQueues
  <2> QED
    BY <2>1, <2>3, <2>4
<1>3. CASE AgentProcessEnds \/ AgentProcessStarts
  <2>1. /\ unsaid' \in Nat /\ UNCHANGED <<bridge, tray>>
        /\ \/ local' = [local EXCEPT !.up = FALSE, !.published = 0]
           \/ local' = [local EXCEPT !.up = TRUE, !.run = local.run + 1]
    BY <1>3 DEF AgentProcessEnds, AgentProcessStarts
  <2>2. CASE local' = [local EXCEPT !.up = FALSE, !.published = 0]
    BY <2>1, <2>2 DEF LocalStates
  <2>3. CASE local' = [local EXCEPT !.up = TRUE, !.run = local.run + 1]
    <3>1. local.run + 1 \in Nat
      BY DEF LocalStates
    <3> QED
      BY <2>1, <2>3, <3>1 DEF LocalStates
  <2> QED
    BY <2>1, <2>2, <2>3
<1>4. CASE BridgeConnects
  <2> DEFINE missed == local.published - bridge.cursor
             queue == [i \in 1 .. missed |-> bridge.cursor + i]
  <2>1. missed \in Int /\ bridge.cursor \in Nat /\ local.run \in Nat
    BY DEF LocalStates, BridgeStates
  <2>2. queue \in Seq(Nat)
    <3>1. CASE missed >= 0
      <4>1. missed \in Nat
        BY <2>1, <3>1
      <4>2. \A i \in 1 .. missed : bridge.cursor + i \in Nat
        BY <2>1
      <4> HIDE DEF missed
      <4>3. queue \in [1 .. missed -> Nat]
        BY <4>2
      <4> QED
        BY <4>1, <4>3
    <3>2. CASE missed < 0
      <4>1. 1 .. missed = 1 .. 0
        BY <2>1, <3>2
      <4> HIDE DEF missed
      <4>2. queue \in [1 .. 0 -> Nat]
        BY <4>1, <2>1
      <4> HIDE DEF queue
      <4> QED
        BY <4>2, FunctionsAreSequences
    <3> QED
      BY <2>1, <3>1, <3>2
  <2>3. /\ bridge' = [bridge EXCEPT !.run = local.run, !.queue = queue]
        /\ UNCHANGED <<local, unsaid, tray>>
    BY <1>4 DEF BridgeConnects
  <2> HIDE DEF queue
  <2>4. bridge' \in BridgeStates
    BY <2>1, <2>2, <2>3 DEF BridgeStates
  <2> QED
    BY <2>3, <2>4
<1>5. CASE BridgeReads \/ BridgeFails
  <2>1. UNCHANGED <<local, unsaid, tray>>
    BY <1>5 DEF BridgeReads, BridgeFails
  <2>2. CASE BridgeReads
    BY <2>1, <2>2, BridgeQueues DEF BridgeReads
  <2>3. CASE BridgeFails
    <3>1. bridge' = [bridge EXCEPT !.run = 0, !.queue = <<>>]
      BY <2>3 DEF BridgeFails
    <3>2. <<>> \in Seq(Nat)
      OBVIOUS
    <3>3. bridge' \in BridgeStates
      BY <3>1, <3>2 DEF BridgeStates
    <3> QED
      BY <2>1, <3>3
  <2> QED
    BY <1>5, <2>2, <2>3
<1>6. CASE RunHandoffPrepare \/ RunHandoffAbort
  <2>1. UNCHANGED <<unsaid, tray>>
    BY <1>6 DEF RunHandoffPrepare, RunHandoffAbort
  <2>2. \/ UNCHANGED <<local, bridge>>
        \/ \E h \in HandoffTargets : HandoffBecomes(h)
    BY <1>6 DEF RunHandoffPrepare, RunHandoffAbort, RunHandoff, CanPrepare, HandoffTargets
  <2> QED
    BY <2>1, <2>2, HandoffBecomesTyped
<1>7. CASE \E t \in Targets : TrayHandoff(t)
  <2>1. PICK t \in Targets : TrayHandoff(t)
    BY <1>7
  <2>2. /\ UNCHANGED unsaid
        /\ tray' = [tray EXCEPT !.job = "leases", !.seen = NothingRead]
        /\ UNCHANGED <<local, bridge>> \/ HandoffBecomes(t)
    BY <2>1 DEF TrayHandoff, TrayStarts
  <2>3. t \in HandoffTargets
    BY DEF HandoffTargets
  <2>4. tray' \in TrayStates
    BY <2>2, NothingIsAView DEF TrayStates
  <2> QED
    BY <2>2, <2>3, <2>4, HandoffBecomesTyped
<1>8. CASE TrayRefresh \/ TrayToggle
  <2>1. /\ UNCHANGED <<local, unsaid, bridge>>
        /\ \E j \in {"leases", "eco", "adaptive"} : tray' = [tray EXCEPT !.job = j, !.seen = NothingRead]
    BY <1>8 DEF TrayRefresh, TrayToggle, TrayStarts
  <2>2. tray' \in TrayStates
    BY <2>1, NothingIsAView DEF TrayStates
  <2> QED
    BY <2>1, <2>2
<1>9. CASE TraySetsProfile
  <2>1. /\ UNCHANGED <<unsaid, bridge>> /\ tray' = [tray EXCEPT !.job = "leases"]
        /\ local' = local \/ \E p \in {"eco", "adaptive"} : local' = [local EXCEPT !.profile = p]
    BY <1>9 DEF TraySetsProfile
  <2>2. tray' \in TrayStates
    BY <2>1 DEF TrayStates
  <2>3. local' \in LocalStates
    BY <2>1 DEF LocalStates
  <2> QED
    BY <2>1, <2>2, <2>3
<1>10. CASE TrayReadsLeases \/ TraySetsMenu
  <2>1. tray.seen \in DesktopViews
    BY DEF TrayStates
  <2>2. PICK failed \in SUBSET (FirstCalls \cup LaterCalls \cup {"agent"}) :
           /\ UNCHANGED <<local, unsaid, bridge>>
           /\ \/ tray' = [tray EXCEPT !.job = "rest", !.seen = ReadLeases(tray.seen, failed)]
              \/ tray' = [tray EXCEPT !.job = "idle", !.menu = ReadRest(tray.seen, failed),
                                      !.seen = NothingRead]
    BY <1>10 DEF TrayReadsLeases, TraySetsMenu
  <2>3. /\ NothingRead \in DesktopViews /\ ReadLeases(tray.seen, failed) \in DesktopViews
        /\ ReadRest(tray.seen, failed) \in DesktopViews
    BY <2>1, ViewsTyped, NothingIsAView
  <2>4. tray' \in TrayStates
    BY <2>2, <2>3 DEF TrayStates
  <2> QED
    BY <2>2, <2>4
<1>11. CASE \/ BootstrapReadsLeases \/ BootstrapAnswers \/ PageStarts \/ HandleEmitted \/ TimerFires
            \/ BootstrapArrives \/ HandoffAnswerArrives \/ ConfirmHandoff \/ CloseDialog \/ AbortHandoff
            \/ (\E t \in Targets : ReviewHandoff(t)) \/ UNCHANGED desktopVars
  <2>1. UNCHANGED <<local, unsaid, bridge, tray>>
    BY <1>11 DEF BootstrapReadsLeases, BootstrapAnswers, PageStarts, HandleEmitted, TimerFires,
         BootstrapArrives, HandoffAnswerArrives, ConfirmHandoff, CloseDialog, AbortHandoff,
         ReviewHandoff, desktopVars
  <2> QED
    BY <2>1
<1> QED
  BY <1>1, <1>2, <1>3, <1>4, <1>5, <1>6, <1>7, <1>8, <1>9, <1>10, <1>11 DEF DesktopNext
-----------------------------------------------------------------------------
(* What the end and the head of a thread have to do with the whole.         *)

LEMMA AppendExtends ==
  ASSUME NEW S, NEW q \in Seq(S), NEW e \in S
  PROVE  /\ Len(q) \in Nat /\ DOMAIN q = 1 .. Len(q)
         /\ Append(q, e) \in Seq(S) /\ DOMAIN Append(q, e) = 1 .. (Len(q) + 1)
         /\ \A i \in 1 .. Len(q) : Append(q, e)[i] = q[i]
         /\ Append(q, e)[Len(q) + 1] = e
  OBVIOUS

LEMMA TailShifts ==
  ASSUME NEW S, NEW q \in Seq(S), q # <<>>
  PROVE  /\ Len(q) \in Nat \ {0} /\ DOMAIN q = 1 .. Len(q)
         /\ Tail(q) \in Seq(S) /\ DOMAIN Tail(q) = 1 .. (Len(q) - 1)
         /\ \A i \in 1 .. (Len(q) - 1) : Tail(q)[i] = q[i + 1]
         /\ Head(q) = q[1] /\ Head(q) \in S
  OBVIOUS

LEMMA RefreshingAppended ==
  ASSUME NEW S, NEW q \in Seq(S), NEW e \in S
  PROVE  Refreshing(Append(q, e)) <=> Refreshing(q) \/ IsRefresh(e)
  BY AppendExtends DEF Refreshing

LEMMA RefreshingTaken ==
  ASSUME NEW S, NEW q \in Seq(S), q # <<>>
  PROVE  Refreshing(q) <=> IsRefresh(Head(q)) \/ Refreshing(Tail(q))
<1>1. ASSUME Refreshing(q)
      PROVE  IsRefresh(Head(q)) \/ Refreshing(Tail(q))
  <2>1. PICK i \in 1 .. Len(q) : IsRefresh(q[i])
    BY <1>1, TailShifts DEF Refreshing
  <2>2. CASE i = 1
    BY <2>1, <2>2, TailShifts
  <2>3. CASE i # 1
    <3>1. i - 1 \in 1 .. (Len(q) - 1) /\ (i - 1) + 1 = i
      BY <2>3, TailShifts
    <3>2. Tail(q)[i - 1] = q[i]
      BY <3>1, TailShifts
    <3> QED
      BY <2>1, <3>1, <3>2, TailShifts DEF Refreshing
  <2> QED
    BY <2>2, <2>3
<1>2. ASSUME IsRefresh(Head(q)) \/ Refreshing(Tail(q))
      PROVE  Refreshing(q)
  <2>1. CASE IsRefresh(Head(q))
    BY <2>1, TailShifts DEF Refreshing
  <2>2. CASE Refreshing(Tail(q))
    <3>1. PICK i \in 1 .. (Len(q) - 1) : IsRefresh(Tail(q)[i])
      BY <2>2, TailShifts DEF Refreshing
    <3>2. i + 1 \in 1 .. Len(q) /\ Tail(q)[i] = q[i + 1]
      BY TailShifts
    <3> QED
      BY <3>1, <3>2, TailShifts DEF Refreshing
  <2> QED
    BY <1>2, <2>1, <2>2
<1> QED
  BY <1>1, <1>2

LEMMA CurrentAppended ==
  ASSUME NEW S, NEW q \in Seq(S), NEW e \in S, NEW agent,
         CurrentIn(q, agent) \/ Current(e, agent)
  PROVE  CurrentIn(Append(q, e), agent)
  BY AppendExtends DEF CurrentIn

LEMMA CurrentTaken ==
  ASSUME NEW S, NEW q \in Seq(S), q # <<>>, NEW agent, CurrentIn(q, agent)
  PROVE  CurrentIn(Tail(q), agent) \/ Current(Head(q), agent)
<1>1. PICK i \in 1 .. Len(q) : Current(q[i], agent)
  BY TailShifts DEF CurrentIn
<1>2. CASE i = 1
  BY <1>1, <1>2, TailShifts
<1>3. CASE i # 1
  <2>1. i - 1 \in 1 .. (Len(q) - 1) /\ (i - 1) + 1 = i
    BY <1>3, TailShifts
  <2>2. Tail(q)[i - 1] = q[i]
    BY <2>1, TailShifts
  <2> QED
    BY <1>1, <2>1, <2>2, TailShifts DEF CurrentIn
<1> QED
  BY <1>2, <1>3

LEMMA LastAppended ==
  ASSUME NEW S, NEW q \in Seq(S), NEW e \in S, NEW agent,
         (LastIs(q, agent) /\ ~IsRefresh(e)) \/ (IsRefresh(e) /\ UpToDate(e.seen, agent))
  PROVE  LastIs(Append(q, e), agent)
<1>1. CASE LastIs(q, agent) /\ ~IsRefresh(e)
  <2>1. PICK i \in 1 .. Len(q) : /\ IsRefresh(q[i]) /\ UpToDate(q[i].seen, agent)
                                 /\ \A j \in 1 .. Len(q) : j > i => ~IsRefresh(q[j])
    BY <1>1, AppendExtends DEF LastIs
  <2>2. i \in 1 .. (Len(q) + 1) /\ Append(q, e)[i] = q[i]
    BY AppendExtends
  <2>3. \A j \in 1 .. (Len(q) + 1) : j > i => ~IsRefresh(Append(q, e)[j])
    BY <1>1, <2>1, AppendExtends
  <2> QED
    BY <2>1, <2>2, <2>3, AppendExtends DEF LastIs
<1>2. CASE IsRefresh(e) /\ UpToDate(e.seen, agent)
  <2>1. Len(q) + 1 \in 1 .. (Len(q) + 1) /\ \A j \in 1 .. (Len(q) + 1) : ~(j > Len(q) + 1)
    BY AppendExtends
  <2> QED
    BY <1>2, <2>1, AppendExtends DEF LastIs
<1> QED
  BY <1>1, <1>2

LEMMA LastTaken ==
  ASSUME NEW S, NEW q \in Seq(S), q # <<>>, NEW agent, LastIs(q, agent)
  PROVE  \/ LastIs(Tail(q), agent)
         \/ IsRefresh(Head(q)) /\ UpToDate(Head(q).seen, agent) /\ ~Refreshing(Tail(q))
<1>1. PICK i \in 1 .. Len(q) : /\ IsRefresh(q[i]) /\ UpToDate(q[i].seen, agent)
                               /\ \A j \in 1 .. Len(q) : j > i => ~IsRefresh(q[j])
  BY TailShifts DEF LastIs
<1>2. \A j \in 1 .. (Len(q) - 1) : j + 1 \in 1 .. Len(q) /\ Tail(q)[j] = q[j + 1]
  BY TailShifts
<1>3. CASE i = 1
  <2>1. \A j \in 1 .. (Len(q) - 1) : ~IsRefresh(Tail(q)[j])
    BY <1>1, <1>2, <1>3
  <2> QED
    BY <1>1, <1>3, <2>1, TailShifts DEF Refreshing
<1>4. CASE i # 1
  <2>1. i - 1 \in 1 .. (Len(q) - 1) /\ (i - 1) + 1 = i
    BY <1>4, TailShifts
  <2>2. Tail(q)[i - 1] = q[i]
    BY <2>1, TailShifts
  <2>3. \A j \in 1 .. (Len(q) - 1) : j > i - 1 => ~IsRefresh(Tail(q)[j])
    BY <1>1, <1>2, <2>1
  <2> QED
    BY <1>1, <2>1, <2>2, <2>3, TailShifts DEF LastIs
<1> QED
  BY <1>3, <1>4

OutsideActions ==
    \/ AgentChanges \/ AgentPublishes \/ AgentProcessEnds \/ AgentProcessStarts
    \/ BridgeConnects \/ BridgeReads \/ BridgeFails
    \/ (\E t \in Targets : TrayHandoff(t))
    \/ TrayRefresh \/ TrayToggle \/ TraySetsProfile \/ TrayReadsLeases \/ TraySetsMenu

LEMMA OutsideLeavesPage ==
  ASSUME OutsideActions
  PROVE  /\ UNCHANGED <<mainThread, answers, page>>
         /\ emitted' = emitted \/ \E message \in Messages : Emit(message)
<1>1. UNCHANGED <<mainThread, answers, page>>
  BY DEF OutsideActions, AgentChanges, AgentPublishes, AgentProcessEnds, AgentProcessStarts,
     BridgeConnects, BridgeReads, BridgeFails, TrayHandoff, TrayRefresh, TrayToggle, TraySetsProfile,
     TrayReadsLeases, TraySetsMenu
<1>2. emitted' = emitted \/ \E message \in Messages : Emit(message)
  BY DEF OutsideActions, AgentChanges, AgentPublishes, AgentProcessEnds, AgentProcessStarts,
     BridgeConnects, BridgeReads, BridgeFails, TrayHandoff, TrayRefresh, TrayToggle, TraySetsProfile,
     TrayReadsLeases, TraySetsMenu, Messages
<1> QED
  BY <1>1, <1>2

(* The refresh at the head has read the leases. *)
HeadRead(failed) ==
    /\ mainThread' \in Seq(Invocations) /\ DOMAIN mainThread' = DOMAIN mainThread
    /\ 1 \in DOMAIN mainThread
    /\ \A i \in DOMAIN mainThread : i # 1 => mainThread'[i] = mainThread[i]
    /\ mainThread'[1] =
          [mainThread[1] EXCEPT !.stage = "rest", !.seen = ReadLeases(mainThread[1].seen, failed)]
    /\ mainThread[1] \in Invocations /\ Command = mainThread[1]

LEMMA HeadReads ==
  ASSUME DesktopTypeOK, BootstrapReadsLeases
  PROVE  \E failed \in SUBSET (FirstCalls \cup {"agent"}) :
            CallsFail(Command.seen, FirstCalls, failed) /\ HeadRead(failed)
<1> USE DEF DesktopTypeOK, PageTypeOK
<1>0. PICK failed \in SUBSET (FirstCalls \cup {"agent"}) :
        /\ CallsFail(Command.seen, FirstCalls, failed)
        /\ mainThread' = [mainThread EXCEPT ![1].stage = "rest", ![1].seen = ReadLeases(@, failed)]
  BY DEF BootstrapReadsLeases
<1> DEFINE c == [mainThread[1] EXCEPT !.stage = "rest", !.seen = ReadLeases(mainThread[1].seen, failed)]
<1>1. mainThread # <<>> /\ mainThread \in Seq(Invocations)
  BY DEF BootstrapReadsLeases
<1>2. /\ Len(mainThread) \in Nat \ {0} /\ DOMAIN mainThread = 1 .. Len(mainThread)
      /\ 1 \in DOMAIN mainThread /\ mainThread[1] \in Invocations /\ Command = mainThread[1]
  BY <1>1, TailShifts DEF Command
<1>3. mainThread[1].seen \in DesktopViews
  BY <1>2 DEF Invocations
<1>4. c \in Invocations
  BY <1>2, <1>3, ViewsTyped DEF Invocations
<1>5. mainThread' = [mainThread EXCEPT ![1] = c]
  BY <1>0, <1>1, <1>2 DEF Invocations
<1> HIDE DEF c
<1>6. /\ mainThread' \in Seq(Invocations) /\ DOMAIN mainThread' = DOMAIN mainThread
      /\ \A i \in DOMAIN mainThread : i # 1 => mainThread'[i] = mainThread[i]
      /\ mainThread'[1] = c
  <2>1. mainThread \in [1 .. Len(mainThread) -> Invocations]
    BY <1>1, <1>2
  <2>2. mainThread' \in [1 .. Len(mainThread) -> Invocations]
    BY <1>2, <1>4, <1>5, <2>1
  <2>3. mainThread' \in Seq(Invocations)
    BY <1>2, <2>2, FunctionsAreSequences
  <2> QED
    BY <1>2, <1>5, <2>1, <2>2, <2>3
<1> QED
  BY <1>0, <1>2, <1>6 DEF c, HeadRead

LEMMA PageTyped ==
  ASSUME DesktopTypeOK, [DesktopNext]_desktopVars
  PROVE  PageTypeOK'
<1> USE DEF DesktopTypeOK, PageTypeOK
<1>a. ASSUME NEW name, Invoked(name)
      PROVE  mainThread' \in Seq(Invocations)
  BY <1>a DEF Invoked
<1>b. ASSUME NEW seen, Answered(seen)
      PROVE  mainThread' \in Seq(Invocations) /\ answers' \in Seq(PageAnswers)
  BY <1>b DEF Answered
<1>c. "ui_bootstrap" \in CommandNames /\ "none" \in HandoffTargets
      /\ "handoff_prepare" \in CommandNames /\ "handoff_abort" \in CommandNames
  BY DEF CommandNames, HandoffTargets
<1>1. CASE OutsideActions
  BY <1>1, OutsideLeavesPage, EmitTyped
<1>2. CASE BootstrapReadsLeases
  <2>1. UNCHANGED <<emitted, answers, page>>
    BY <1>2 DEF BootstrapReadsLeases
  <2> QED
    BY <1>2, <2>1, HeadReads DEF HeadRead
<1>3. CASE BootstrapAnswers
  <2>1. PICK failed \in SUBSET (LaterCalls \cup {"agent"}) :
           UNCHANGED <<emitted, page>> /\ mainThread # <<>>
           /\ Answer(TRUE, ReadRest(Command.seen, failed))
    BY <1>3 DEF BootstrapAnswers
  <2>2. Command.seen \in DesktopViews
    <3>1. Command \in Invocations
      BY <2>1 DEF Command
    <3> QED
      BY <3>1 DEF Invocations
  <2> QED
    BY <1>b, <2>1, <2>2, ViewsTyped, AnswerAppends
<1>4. CASE RunHandoffPrepare \/ RunHandoffAbort
  <2>1. UNCHANGED <<emitted, page>> /\ mainThread # <<>>
        /\ \E ok \in BOOLEAN : Answer(ok, NothingRead)
    BY <1>4 DEF RunHandoffPrepare, RunHandoffAbort, RunHandoff
  <2> QED
    BY <1>b, <2>1, NothingIsAView, AnswerAppends
<1>5. CASE PageStarts
  <2>1. /\ UNCHANGED <<emitted, answers>> /\ page' = [page EXCEPT !.listening = TRUE]
        /\ mainThread' = Invoke(mainThread, "ui_bootstrap", "none")
    BY <1>5 DEF PageStarts
  <2>2. page' \in PageStates
    BY <2>1 DEF PageStates
  <2> QED
    BY <1>a, <1>c, <2>1, <2>2, InvokeAppends
<1>6. CASE HandleEmitted
  <2>1. emitted # <<>> /\ emitted' = Tail(emitted) /\ UNCHANGED answers /\ Head(emitted) \in Messages
    BY <1>6 DEF HandleEmitted
  <2>2. \/ page' = Refreshed(page) /\ mainThread' = Invoke(mainThread, "ui_bootstrap", "none")
        \/ /\ UNCHANGED mainThread
           /\ \/ page' = Queued(page)
              \/ \E b \in BOOLEAN : page' = Queued([page EXCEPT !.connected = b])
    BY <1>6, <2>1 DEF HandleEmitted, Messages, Refresh, RefreshAfter
  <2>3. page' \in PageStates
    <3>1. CASE page' = Refreshed(page)
      BY <3>1, RefreshedTyped
    <3>2. CASE page' = Queued(page)
      BY <3>2 DEF Queued, PageStates
    <3>3. CASE \E b \in BOOLEAN : page' = Queued([page EXCEPT !.connected = b])
      BY <3>3 DEF Queued, PageStates
    <3> QED
      BY <2>2, <3>1, <3>2, <3>3
  <2>4. emitted' \in Seq(Messages)
    BY <2>1
  <2>5. mainThread' \in Seq(Invocations)
    BY <1>a, <1>c, <2>2, InvokeAppends
  <2> QED
    BY <2>1, <2>3, <2>4, <2>5
<1>7. CASE TimerFires
  <2>1. /\ UNCHANGED <<emitted, answers>> /\ page' = [Refreshed(page) EXCEPT !.timer = FALSE]
        /\ mainThread' = Invoke(mainThread, "ui_bootstrap", "none")
    BY <1>7 DEF TimerFires
  <2>2. page' \in PageStates
    BY <2>1, RefreshedTyped DEF PageStates
  <2> QED
    BY <1>a, <1>c, <2>1, <2>2, InvokeAppends
<1>8. CASE BootstrapArrives
  <2>1. /\ UNCHANGED <<emitted, mainThread>> /\ answers # <<>> /\ answers' = Tail(answers)
        /\ page' = [page EXCEPT !.shown = Head(answers).seen, !.loading = FALSE, !.refreshing = FALSE]
    BY <1>8 DEF BootstrapArrives
  <2>2. Head(answers).seen \in DesktopViews /\ answers' \in Seq(PageAnswers)
    <3>1. Head(answers) \in PageAnswers /\ answers' \in Seq(PageAnswers)
      BY <2>1
    <3> QED
      BY <3>1 DEF PageAnswers
  <2>3. page' \in PageStates
    BY <2>1, <2>2 DEF PageStates
  <2> QED
    BY <2>1, <2>2, <2>3
<1>9. CASE HandoffAnswerArrives
  <2>1. UNCHANGED emitted /\ answers # <<>> /\ answers' = Tail(answers)
    BY <1>9 DEF HandoffAnswerArrives
  <2>2. \E p : /\ p = page \/ \E h \in {"success", "failure"} : p = [page EXCEPT !.phase = h]
               /\ \/ page' = Refreshed(p) /\ mainThread' = Invoke(mainThread, "ui_bootstrap", "none")
                  \/ page' = p /\ UNCHANGED mainThread
    BY <1>9 DEF HandoffAnswerArrives
  <2>3. page' \in PageStates
    <3>1. PICK p : /\ p = page \/ \E h \in {"success", "failure"} : p = [page EXCEPT !.phase = h]
                   /\ page' = Refreshed(p) \/ page' = p
      BY <2>2
    <3>2. p \in PageStates
      BY <3>1 DEF PageStates
    <3> QED
      BY <3>1, <3>2, RefreshedTyped
  <2>4. mainThread' \in Seq(Invocations)
    BY <1>a, <1>c, <2>2, InvokeAppends
  <2>5. answers' \in Seq(PageAnswers)
    BY <2>1
  <2> QED
    BY <2>1, <2>3, <2>4, <2>5
<1>10. CASE \E t \in Targets : ReviewHandoff(t)
  <2>1. PICK t \in Targets : ReviewHandoff(t)
    BY <1>10
  <2>2. /\ UNCHANGED <<emitted, mainThread, answers>>
        /\ page' = [page EXCEPT !.dialog = t, !.phase = "review"]
    BY <2>1 DEF ReviewHandoff
  <2>3. page' \in PageStates
    BY <2>2 DEF PageStates, HandoffTargets
  <2> QED
    BY <2>2, <2>3
<1>11. CASE ConfirmHandoff
  <2>1. /\ UNCHANGED <<emitted, answers>> /\ page' = [page EXCEPT !.phase = "running"]
        /\ mainThread' = Invoke(mainThread, "handoff_prepare", page.dialog)
    BY <1>11 DEF ConfirmHandoff
  <2>2. page' \in PageStates /\ page.dialog \in HandoffTargets
    BY <2>1 DEF PageStates
  <2> QED
    BY <1>a, <1>c, <2>1, <2>2, InvokeAppends
<1>12. CASE CloseDialog
  <2>1. /\ UNCHANGED <<emitted, mainThread, answers>>
        /\ page' = [page EXCEPT !.dialog = "none", !.phase = "none"]
    BY <1>12 DEF CloseDialog
  <2>2. page' \in PageStates
    BY <1>c, <2>1 DEF PageStates
  <2> QED
    BY <2>1, <2>2
<1>13. CASE AbortHandoff
  <2>1. /\ UNCHANGED <<emitted, answers, page>>
        /\ mainThread' = Invoke(mainThread, "handoff_abort", "none")
    BY <1>13 DEF AbortHandoff
  <2> QED
    BY <1>a, <1>c, <2>1, InvokeAppends
<1>14. CASE UNCHANGED desktopVars
  BY <1>14 DEF desktopVars
<1> QED
  BY <1>1, <1>2, <1>3, <1>4, <1>5, <1>6, <1>7, <1>8, <1>9, <1>10, <1>11, <1>12, <1>13, <1>14
  DEF DesktopNext, OutsideActions
-----------------------------------------------------------------------------
(* What a step comes to for the page: an outside change, a refresh asked    *)
(* for or promised, the steps of the commands, an answered refresh, or      *)
(* something that has to do with neither.                                   *)

OtherAnswerTaken == answers # <<>> /\ ~IsRefresh(Head(answers)) /\ answers' = Tail(answers)
RefreshAsked == Invoked("ui_bootstrap") /\ (UNCHANGED answers \/ OtherAnswerTaken)
RefreshQueued == page'.timer /\ UNCHANGED <<mainThread, answers>>
SamePage ==
    /\ page'.shown = page.shown /\ page'.loading = page.loading /\ page'.refreshing = page.refreshing
    /\ page'.timer = page.timer /\ page'.listening = page.listening
Unrelated ==
    /\ SamePage /\ UNCHANGED <<local, unsaid, bridge, emitted, tray>>
    /\ \/ UNCHANGED mainThread /\ (UNCHANGED answers \/ OtherAnswerTaken)
       \/ /\ UNCHANGED answers
          /\ \E name \in CommandNames \ {"ui_bootstrap"} : Invoked(name)

LEMMA StepKinds ==
  ASSUME DesktopTypeOK, [DesktopNext]_desktopVars
  PROVE  \/ OutsideActions \/ RefreshAsked \/ RefreshQueued
         \/ BootstrapReadsLeases \/ BootstrapAnswers \/ RunHandoffPrepare \/ RunHandoffAbort
         \/ BootstrapArrives \/ Unrelated
<1> USE DEF DesktopTypeOK, PageTypeOK
<1>a. /\ "ui_bootstrap" \in CommandNames /\ "none" \in HandoffTargets
      /\ "handoff_prepare" \in CommandNames \ {"ui_bootstrap"}
      /\ "handoff_abort" \in CommandNames \ {"ui_bootstrap"}
  BY DEF CommandNames, HandoffTargets
<1>1. CASE PageStarts \/ TimerFires
  BY <1>1, <1>a, InvokeAppends DEF PageStarts, TimerFires, RefreshAsked
<1>2. CASE HandleEmitted
  <2>1. emitted # <<>> /\ UNCHANGED answers /\ Head(emitted) \in Messages
    BY <1>2 DEF HandleEmitted
  <2>2. \/ mainThread' = Invoke(mainThread, "ui_bootstrap", "none")
        \/ /\ UNCHANGED mainThread
           /\ \/ page' = Queued(page)
              \/ \E b \in BOOLEAN : page' = Queued([page EXCEPT !.connected = b])
    BY <1>2, <2>1 DEF HandleEmitted, Messages, Refresh, RefreshAfter
  <2>3. CASE mainThread' = Invoke(mainThread, "ui_bootstrap", "none")
    BY <1>a, <2>1, <2>3, InvokeAppends DEF RefreshAsked
  <2>4. ASSUME page' = Queued(page) \/ \E b \in BOOLEAN : page' = Queued([page EXCEPT !.connected = b])
        PROVE  page'.timer
    BY <2>4 DEF Queued, PageStates
  <2> QED
    BY <2>1, <2>2, <2>3, <2>4 DEF RefreshQueued
<1>3. CASE HandoffAnswerArrives
  <2>1. answers # <<>> /\ ~IsRefresh(Head(answers)) /\ answers' = Tail(answers)
        /\ UNCHANGED <<local, unsaid, bridge, emitted, tray>>
    BY <1>3 DEF HandoffAnswerArrives, IsRefresh
  <2>2. \/ mainThread' = Invoke(mainThread, "ui_bootstrap", "none")
        \/ /\ UNCHANGED mainThread
           /\ page' = page \/ \E h \in {"success", "failure"} : page' = [page EXCEPT !.phase = h]
    BY <1>3 DEF HandoffAnswerArrives
  <2>3. CASE mainThread' = Invoke(mainThread, "ui_bootstrap", "none")
    BY <1>a, <2>1, <2>3, InvokeAppends DEF RefreshAsked, OtherAnswerTaken
  <2>4. ASSUME page' = page \/ \E h \in {"success", "failure"} : page' = [page EXCEPT !.phase = h]
        PROVE  SamePage
    BY <2>4 DEF SamePage, PageStates
  <2> QED
    BY <2>1, <2>2, <2>3, <2>4 DEF Unrelated, OtherAnswerTaken
<1>4. CASE (\E t \in Targets : ReviewHandoff(t)) \/ CloseDialog
  <2>1. /\ UNCHANGED <<local, unsaid, bridge, emitted, mainThread, answers, tray>>
        /\ \E t, h : page' = [page EXCEPT !.dialog = t, !.phase = h]
    BY <1>4 DEF ReviewHandoff, CloseDialog
  <2>2. SamePage
    BY <2>1 DEF SamePage, PageStates
  <2> QED
    BY <2>1, <2>2 DEF Unrelated
<1>5. CASE ConfirmHandoff
  <2>1. /\ UNCHANGED <<local, unsaid, bridge, emitted, answers, tray>>
        /\ mainThread' = Invoke(mainThread, "handoff_prepare", page.dialog)
        /\ page' = [page EXCEPT !.phase = "running"]
    BY <1>5 DEF ConfirmHandoff
  <2>2. SamePage /\ page.dialog \in HandoffTargets
    BY <2>1 DEF SamePage, PageStates
  <2>3. Invoked("handoff_prepare")
    BY <1>a, <2>1, <2>2, InvokeAppends
  <2> QED
    BY <1>a, <2>1, <2>2, <2>3 DEF Unrelated
<1>6. CASE AbortHandoff
  <2>1. /\ UNCHANGED <<local, unsaid, bridge, emitted, answers, tray, page>>
        /\ mainThread' = Invoke(mainThread, "handoff_abort", "none")
    BY <1>6 DEF AbortHandoff
  <2>2. Invoked("handoff_abort")
    BY <1>a, <2>1, InvokeAppends
  <2> QED
    BY <1>a, <2>1, <2>2 DEF Unrelated, SamePage
<1>7. CASE UNCHANGED desktopVars
  BY <1>7 DEF desktopVars, Unrelated, SamePage
<1> QED
  BY <1>1, <1>2, <1>3, <1>4, <1>5, <1>6, <1>7 DEF DesktopNext, OutsideActions
-----------------------------------------------------------------------------
(* The parts of the invariant                                               *)

LEMMA BegunAppended ==
  ASSUME NEW S, NEW q \in Seq(S), NEW c \in S, BegunInOrder(q), c.stage = "leases", c.seen = NothingRead
  PROVE  BegunInOrder(Append(q, c))
  BY AppendExtends DEF BegunInOrder

LEMMA BegunTaken ==
  ASSUME NEW S, NEW q \in Seq(S), q # <<>>, BegunInOrder(q)
  PROVE  BegunInOrder(Tail(q)) /\ \A i \in DOMAIN Tail(q) : Tail(q)[i].stage = "leases"
<1>1. \A i \in 1 .. (Len(q) - 1) : i + 1 \in 1 .. Len(q) /\ i + 1 # 1 /\ Tail(q)[i] = q[i + 1]
  BY TailShifts
<1> QED
  BY <1>1, TailShifts DEF BegunInOrder

LEMMA ThreadInOrder ==
  ASSUME DesktopTypeOK, CommandsInTurn, [DesktopNext]_desktopVars
  PROVE  BegunInOrder(mainThread')
<1> USE DEF DesktopTypeOK, PageTypeOK
<1>1. BegunInOrder(mainThread)
  BY DEF CommandsInTurn
<1>2. CASE OutsideActions \/ RefreshQueued \/ BootstrapArrives
  BY <1>1, <1>2, OutsideLeavesPage DEF RefreshQueued, BootstrapArrives
<1>3. ASSUME NEW name, Invoked(name)
      PROVE  BegunInOrder(mainThread')
  BY <1>1, <1>3, BegunAppended DEF Invoked
<1>4. CASE RefreshAsked \/ Unrelated
  BY <1>1, <1>3, <1>4 DEF RefreshAsked, Unrelated
<1>5. CASE BootstrapReadsLeases
  <2>1. PICK failed : HeadRead(failed)
    BY <1>5, HeadReads
  <2>2. mainThread'[1].stage = "rest"
    BY <2>1 DEF HeadRead, Invocations
  <2>3. SUFFICES ASSUME NEW i \in DOMAIN mainThread'
                 PROVE  /\ i # 1 => mainThread'[i].stage = "leases"
                        /\ mainThread'[i].stage = "leases" => mainThread'[i].seen = NothingRead
    BY DEF BegunInOrder
  <2>4. CASE i = 1
    BY <2>2, <2>4
  <2>5. CASE i # 1
    <3>1. i \in DOMAIN mainThread /\ mainThread'[i] = mainThread[i]
      BY <2>1, <2>5 DEF HeadRead
    <3> QED
      BY <1>1, <2>5, <3>1 DEF BegunInOrder
  <2> QED
    BY <2>4, <2>5
<1>6. CASE BootstrapAnswers \/ RunHandoffPrepare \/ RunHandoffAbort
  <2>1. mainThread # <<>> /\ mainThread' = Tail(mainThread)
    BY <1>6 DEF BootstrapAnswers, RunHandoffPrepare, RunHandoffAbort, RunHandoff, Answer
  <2> QED
    BY <1>1, <2>1, BegunTaken
<1> QED
  BY <1>2, <1>4, <1>5, <1>6, StepKinds

LEMMA RunsInTurn ==
  ASSUME DesktopTypeOK, CommandsInTurn, [DesktopNext]_desktopVars
  PROVE  local'.run > 0 /\ bridge'.run <= local'.run
<1> USE DEF DesktopTypeOK, LocalTypeOK, CommandsInTurn
<1>1. CASE AgentChanges
  <2>1. local'.run = local.run
    BY <1>1 DEF AgentChanges, ChangedLocal, LocalStates
  <2> QED
    BY <1>1, <2>1 DEF AgentChanges
<1>2. CASE AgentPublishes
  <2>1. /\ local' = [local EXCEPT !.published = local.published + 1]
        /\ bridge' = bridge \/ bridge' = [bridge EXCEPT !.queue = Append(@, local.published + 1)]
    BY <1>2 DEF AgentPublishes, Published
  <2>2. local'.run = local.run /\ bridge'.run = bridge.run
    BY <2>1 DEF LocalStates, BridgeStates
  <2> QED
    BY <2>2
<1>3. CASE AgentProcessEnds \/ AgentProcessStarts
  <2>1. /\ UNCHANGED bridge
        /\ \/ local' = [local EXCEPT !.up = FALSE, !.published = 0]
           \/ local' = [local EXCEPT !.up = TRUE, !.run = local.run + 1]
    BY <1>3 DEF AgentProcessEnds, AgentProcessStarts
  <2>2. local.run \in Nat /\ bridge.run \in Nat
    BY DEF LocalStates, BridgeStates
  <2>3. local'.run \in {local.run, local.run + 1}
    BY <2>1 DEF LocalStates
  <2> QED
    BY <2>1, <2>2, <2>3
<1>4. CASE BridgeConnects \/ BridgeReads \/ BridgeFails
  <2>1. /\ UNCHANGED local
        /\ \/ \E queue : bridge' = [bridge EXCEPT !.run = local.run, !.queue = queue]
           \/ \E n, queue : bridge' = [bridge EXCEPT !.cursor = n, !.queue = queue]
           \/ bridge' = [bridge EXCEPT !.run = 0, !.queue = <<>>]
    BY <1>4 DEF BridgeConnects, BridgeReads, BridgeFails
  <2>2. local.run \in Nat /\ bridge.run \in Nat /\ bridge'.run \in {bridge.run, local.run, 0}
    BY <2>1 DEF LocalStates, BridgeStates
  <2>3. local'.run = local.run
    BY <2>1
  <2> HIDE DEF DesktopTypeOK, LocalTypeOK
  <2> QED
    BY <2>2, <2>3
<1>5. CASE RunHandoffPrepare \/ RunHandoffAbort \/ \E t \in Targets : TrayHandoff(t)
  <2>1. UNCHANGED <<local, bridge>> \/ \E h \in HandoffTargets : HandoffBecomes(h)
    BY <1>5 DEF RunHandoffPrepare, RunHandoffAbort, RunHandoff, TrayHandoff, CanPrepare, HandoffTargets
  <2> QED
    BY <2>1, HandoffBecomesTyped
<1>6. CASE TraySetsProfile
  BY <1>6 DEF TraySetsProfile, LocalStates
<1>7. CASE \/ BootstrapReadsLeases \/ BootstrapAnswers \/ PageStarts \/ HandleEmitted \/ TimerFires
           \/ BootstrapArrives \/ HandoffAnswerArrives \/ ConfirmHandoff \/ CloseDialog \/ AbortHandoff
           \/ (\E t \in Targets : ReviewHandoff(t)) \/ TrayRefresh \/ TrayToggle \/ TrayReadsLeases
           \/ TraySetsMenu \/ UNCHANGED desktopVars
  <2>1. UNCHANGED <<local, bridge>>
    BY <1>7 DEF BootstrapReadsLeases, BootstrapAnswers, PageStarts, HandleEmitted, TimerFires,
       BootstrapArrives, HandoffAnswerArrives, ConfirmHandoff, CloseDialog, AbortHandoff,
       ReviewHandoff, TrayRefresh, TrayToggle, TrayReadsLeases, TraySetsMenu, desktopVars
  <2> QED
    BY <2>1
<1> QED
  BY <1>1, <1>2, <1>3, <1>4, <1>5, <1>6, <1>7 DEF DesktopNext

LEMMA CommandsStayInTurn ==
  ASSUME DesktopTypeOK, CommandsInTurn, [DesktopNext]_desktopVars
  PROVE  CommandsInTurn'
  BY ThreadInOrder, RunsInTurn DEF CommandsInTurn

LEMMA FollowsNext ==
  ASSUME \/ RefreshComes' \/ CurrentIn(mainThread', local')
         \/ /\ ~Refreshing(mainThread')
            /\ LastIs(answers', local') \/ (~Refreshing(answers') /\ UpToDate(page'.shown, local'))
  PROVE  PageFollows'
  BY DEF PageFollows, CurrentIn, Current, Begun, Refreshing, LastIs, IsRefresh, UpToDate

LEMMA AskedIsCurrent ==
  ASSUME DesktopTypeOK, Invoked("ui_bootstrap"), NEW agent
  PROVE  CurrentIn(mainThread', agent) /\ Refreshing(mainThread')
<1>1. PICK c \in Invocations : /\ mainThread' = Append(mainThread, c)
                               /\ c.command = "ui_bootstrap" /\ c.stage = "leases"
  BY DEF Invoked
<1>2. IsRefresh(c) /\ Current(c, agent)
  BY <1>1 DEF IsRefresh, Current
<1>3. mainThread \in Seq(Invocations)
  BY DEF DesktopTypeOK, PageTypeOK
<1> QED
  BY <1>1, <1>2, <1>3, CurrentAppended, RefreshingAppended

(* The steps that have to do with neither the agent nor a refresh. *)
LEMMA UnrelatedKeeps ==
  ASSUME DesktopTypeOK, Unrelated
  PROVE  /\ RefreshComes' <=> RefreshComes
         /\ CurrentIn(mainThread, local) => CurrentIn(mainThread', local')
         /\ Refreshing(mainThread') <=> Refreshing(mainThread)
         /\ Refreshing(answers') <=> Refreshing(answers)
         /\ LastIs(answers, local) => LastIs(answers', local')
         /\ local' = local
<1> USE DEF DesktopTypeOK, PageTypeOK
<1>1. RefreshComes' <=> RefreshComes
  BY DEF Unrelated, SamePage, RefreshComes, Connected
<1>2. local' = local
  BY DEF Unrelated
<1>3. CASE UNCHANGED mainThread /\ (UNCHANGED answers \/ OtherAnswerTaken)
  <2>1. ASSUME OtherAnswerTaken
        PROVE  /\ Refreshing(answers') <=> Refreshing(answers)
               /\ LastIs(answers, local) => LastIs(answers', local)
    BY <2>1, RefreshingTaken, LastTaken DEF OtherAnswerTaken
  <2> QED
    BY <1>1, <1>2, <1>3, <2>1
<1>4. CASE UNCHANGED answers /\ \E name \in CommandNames \ {"ui_bootstrap"} : Invoked(name)
  <2>1. PICK name \in CommandNames \ {"ui_bootstrap"} : Invoked(name)
    BY <1>4
  <2>2. PICK c \in Invocations : mainThread' = Append(mainThread, c) /\ c.command = name
    BY <2>1 DEF Invoked
  <2>3. ~IsRefresh(c)
    BY <2>2 DEF IsRefresh
  <2>4. /\ CurrentIn(mainThread, local) => CurrentIn(mainThread', local)
        /\ Refreshing(mainThread') <=> Refreshing(mainThread)
    BY <2>2, <2>3, CurrentAppended, RefreshingAppended
  <2> QED
    BY <1>1, <1>2, <1>4, <2>4
<1> QED
  BY <1>3, <1>4 DEF Unrelated

(* A refresh that has begun while the bridge is connected has read what is so. *)
LEMMA ReadingKeeps ==
  ASSUME DesktopTypeOK, CommandsInTurn, BootstrapReadsLeases
  PROVE  RefreshComes' \/ CurrentIn(mainThread', local')
<1>1. CASE ~Connected
  BY <1>1 DEF BootstrapReadsLeases, RefreshComes, Connected
<1>2. CASE Connected
  <2> DEFINE c == mainThread[1]
  <2>0. PICK failed \in SUBSET (FirstCalls \cup {"agent"}) :
           CallsFail(Command.seen, FirstCalls, failed) /\ HeadRead(failed)
    BY HeadReads
  <2>1. /\ IsRefresh(c) /\ c.stage = "leases" /\ c \in Invocations
        /\ UNCHANGED local /\ local.up /\ Command = c
    BY <1>2, <2>0 DEF HeadRead, BootstrapReadsLeases, IsRefresh, Connected
  <2>2. c.seen = NothingRead
    BY <2>0, <2>1 DEF HeadRead, CommandsInTurn, BegunInOrder
  <2>3. "agent" \notin failed /\ failed \cap LaterCalls = {}
    BY <2>0, <2>1, <2>2 DEF CallsFail, NothingRead, FirstCalls, LaterCalls
  <2>4. Begun(ReadLeases(c.seen, failed), local)
    BY <2>2, <2>3 DEF Begun, ReadLeases, NothingRead, AnswerNow
  <2>5. mainThread'[1] = [c EXCEPT !.stage = "rest", !.seen = ReadLeases(c.seen, failed)]
    BY <2>0 DEF HeadRead
  <2>6. mainThread'[1].command = c.command /\ mainThread'[1].seen = ReadLeases(c.seen, failed)
    BY <2>1, <2>5 DEF Invocations
  <2>7. Current(mainThread'[1], local')
    BY <2>1, <2>4, <2>6 DEF Current, IsRefresh
  <2> QED
    BY <2>0, <2>7 DEF HeadRead, CurrentIn
<1> QED
  BY <1>1, <1>2

(* The answer of the refresh at the head. *)
LEMMA AnsweringKeeps ==
  ASSUME DesktopTypeOK, CommandsInTurn, PageFollows, BootstrapAnswers
  PROVE  PageFollows' /\ Refreshing(answers')
<1> USE DEF DesktopTypeOK, PageTypeOK
<1>1. PICK failed \in SUBSET (LaterCalls \cup {"agent"}) :
        /\ mainThread # <<>> /\ IsRefresh(Command) /\ Command.stage = "rest"
        /\ UNCHANGED <<local, unsaid, bridge, emitted, page, tray>>
        /\ Answer(TRUE, ReadRest(Command.seen, failed)) /\ CallsFail(Command.seen, LaterCalls, failed)
  BY DEF BootstrapAnswers, IsRefresh
<1>2. Command \in Invocations /\ Command = Head(mainThread)
  BY <1>1 DEF Command
<1>3. Command.seen \in DesktopViews
  BY <1>2 DEF Invocations
<1>4. Answered(ReadRest(Command.seen, failed))
  BY <1>1, <1>3, ViewsTyped, AnswerAppends
<1>5. PICK a \in PageAnswers : /\ answers' = Append(answers, a)
                               /\ IsRefresh(a) /\ a.seen = ReadRest(Command.seen, failed)
  BY <1>1, <1>4 DEF Answered, IsRefresh
<1>6. Refreshing(answers')
  BY <1>5, RefreshingAppended
<1>7. mainThread' = Tail(mainThread)
  BY <1>4 DEF Answered
<1>8. RefreshComes => RefreshComes'
  BY <1>1 DEF RefreshComes, Connected
<1>9. CASE ~RefreshComes
  <2>1. CurrentIn(mainThread, local)
    BY <1>1, <1>2, <1>9, RefreshingTaken DEF PageFollows
  <2>2. CASE CurrentIn(Tail(mainThread), local)
    BY <1>1, <1>6, <1>7, <2>2, FollowsNext
  <2>3. CASE Current(Command, local)
    <3>1. local.up /\ Begun(Command.seen, local)
      BY <1>1, <1>9, <2>3 DEF Current, RefreshComes, Connected
    <3>2. "agent" \notin failed
      BY <1>1, <3>1 DEF CallsFail, Begun, LaterCalls
    <3>3. UpToDate(ReadRest(Command.seen, failed), local)
      <4>1. "leases" \notin failed
        BY <3>2 DEF LaterCalls
      <4>2. "handoffs" \notin Command.seen.errors /\ "settings" \notin Command.seen.errors
        BY <3>1 DEF Begun, LaterCalls
      <4> QED
        BY <1>3, <3>1, <3>2, <4>1, <4>2 DEF UpToDate, Begun, ReadRest, AnswerNow, DesktopViews
    <3>4. LastIs(answers', local')
      BY <1>1, <1>5, <3>3, LastAppended
    <3>5. ASSUME Refreshing(mainThread')
          PROVE  CurrentIn(mainThread', local')
      <4>1. \A i \in DOMAIN mainThread' : mainThread'[i].stage = "leases"
        BY <1>1, <1>7, BegunTaken DEF CommandsInTurn
      <4> QED
        BY <3>5, <4>1 DEF Refreshing, CurrentIn, Current
    <3> QED
      BY <1>6, <3>4, <3>5, FollowsNext
  <2> QED
    BY <1>1, <1>2, <2>1, <2>2, <2>3, CurrentTaken
<1> QED
  BY <1>6, <1>8, <1>9, FollowsNext

(* The answer of another command; a change of the agent is told to the bridge. *)
LEMMA HandoffRunKeeps ==
  ASSUME DesktopTypeOK, PageFollows, RunHandoffPrepare \/ RunHandoffAbort
  PROVE  /\ PageFollows' /\ UNCHANGED page
         /\ Refreshing(mainThread) => Refreshing(mainThread')
         /\ Refreshing(answers) => Refreshing(answers')
<1> USE DEF DesktopTypeOK, PageTypeOK
<1>1. /\ mainThread # <<>> /\ ~IsRefresh(Command) /\ UNCHANGED <<unsaid, emitted, page, tray>>
      /\ \E ok \in BOOLEAN : Answer(ok, NothingRead)
      /\ UNCHANGED <<local, bridge>> \/ \E h \in HandoffTargets : HandoffBecomes(h)
  BY DEF RunHandoffPrepare, RunHandoffAbort, RunHandoff, CanPrepare, IsRefresh, HandoffTargets
<1>2. Answered(NothingRead)
  BY <1>1, NothingIsAView, AnswerAppends
<1>3. mainThread' = Tail(mainThread) /\ Command = Head(mainThread)
  BY <1>2 DEF Answered, Command
<1>4. PICK a \in PageAnswers : answers' = Append(answers, a) /\ ~IsRefresh(a)
  BY <1>1, <1>2 DEF Answered, IsRefresh
<1>5. /\ Refreshing(mainThread') <=> Refreshing(mainThread)
      /\ Refreshing(answers') <=> Refreshing(answers)
  BY <1>1, <1>3, <1>4, RefreshingTaken, RefreshingAppended
<1>6. CASE \E h \in HandoffTargets : HandoffBecomes(h)
  <2>1. /\ local'.run = local.run /\ local'.up = local.up /\ bridge'.run = bridge.run
        /\ Connected => bridge'.queue # <<>>
    BY <1>6, HandoffBecomesTyped
  <2>2. RefreshComes'
    BY <2>1 DEF RefreshComes, Connected
  <2> QED
    BY <1>1, <1>5, <2>2, FollowsNext
<1>7. CASE UNCHANGED <<local, bridge>>
  <2>1. RefreshComes => RefreshComes'
    BY <1>1, <1>7 DEF RefreshComes, Connected
  <2>2. CurrentIn(mainThread, local) => CurrentIn(mainThread', local')
    BY <1>1, <1>3, <1>7, CurrentTaken DEF Current
  <2>3. LastIs(answers, local) => LastIs(answers', local')
    BY <1>4, <1>7, LastAppended
  <2> QED
    BY <1>1, <1>5, <1>7, <2>1, <2>2, <2>3, FollowsNext DEF PageFollows
<1> QED
  BY <1>1, <1>6, <1>7

(* The page takes the oldest answered refresh. *)
LEMMA ArrivalKeeps ==
  ASSUME DesktopTypeOK, PageFollows, BootstrapArrives
  PROVE  PageFollows' /\ ~page'.loading /\ ~page'.refreshing
<1> USE DEF DesktopTypeOK, PageTypeOK
<1>1. /\ answers # <<>> /\ IsRefresh(Head(answers)) /\ answers' = Tail(answers)
      /\ UNCHANGED <<local, unsaid, bridge, emitted, mainThread, tray>>
      /\ page' = [page EXCEPT !.shown = Head(answers).seen, !.loading = FALSE, !.refreshing = FALSE]
  BY DEF BootstrapArrives, IsRefresh
<1>2. /\ page'.shown = Head(answers).seen /\ ~page'.loading /\ ~page'.refreshing
      /\ page'.timer = page.timer /\ page'.listening = page.listening
  BY <1>1 DEF PageStates
<1>3. local' = local /\ (RefreshComes => RefreshComes')
  BY <1>1, <1>2 DEF RefreshComes, Connected
<1>4. CurrentIn(mainThread, local) => CurrentIn(mainThread', local')
  BY <1>1
<1>5. ASSUME LastIs(answers, local)
      PROVE  LastIs(answers', local') \/ (~Refreshing(answers') /\ UpToDate(page'.shown, local'))
  BY <1>1, <1>2, <1>3, <1>5, LastTaken
<1>6. Refreshing(answers)
  BY <1>1, RefreshingTaken
<1>7. ~Refreshing(mainThread) => ~Refreshing(mainThread')
  BY <1>1
<1> QED
  BY <1>2, <1>3, <1>4, <1>5, <1>6, <1>7, FollowsNext DEF PageFollows

LEMMA PageKeepsFollowing ==
  ASSUME DesktopInv, [DesktopNext]_desktopVars
  PROVE  PageFollows'
<1> USE DEF DesktopInv
<1>1. CASE OutsideActions
  <2>1. RefreshComes'
    BY <1>1, OutsideBringsRefresh DEF OutsideActions
  <2> QED
    BY <2>1, FollowsNext
<1>2. CASE RefreshAsked
  BY <1>2, AskedIsCurrent, FollowsNext DEF RefreshAsked
<1>3. CASE RefreshQueued
  BY <1>3, FollowsNext DEF RefreshQueued, RefreshComes
<1>4. CASE BootstrapReadsLeases
  BY <1>4, ReadingKeeps, FollowsNext
<1>5. CASE BootstrapAnswers
  BY <1>5, AnsweringKeeps
<1>6. CASE RunHandoffPrepare \/ RunHandoffAbort
  BY <1>6, HandoffRunKeeps
<1>7. CASE BootstrapArrives
  BY <1>7, ArrivalKeeps
<1>8. CASE Unrelated
  <2>1. page'.shown = page.shown
    BY <1>8 DEF Unrelated, SamePage
  <2> QED
    BY <1>8, <2>1, UnrelatedKeeps, FollowsNext DEF PageFollows
<1> QED
  BY <1>1, <1>2, <1>3, <1>4, <1>5, <1>6, <1>7, <1>8, StepKinds

LEMMA SpinnerNext ==
  ASSUME page'.loading \/ page'.refreshing =>
            page'.timer \/ ~page'.listening \/ Refreshing(mainThread') \/ Refreshing(answers')
  PROVE  SpinnerEnds'
  BY DEF SpinnerEnds, Refreshing, IsRefresh

LEMMA SpinnerKeepsEnding ==
  ASSUME DesktopInv, [DesktopNext]_desktopVars
  PROVE  SpinnerEnds'
<1> USE DEF DesktopInv
<1>1. CASE OutsideActions
  <2>1. UNCHANGED <<mainThread, answers, page>>
    BY <1>1, OutsideLeavesPage
  <2> QED
    BY <2>1, SpinnerNext DEF SpinnerEnds
<1>2. CASE RefreshAsked
  BY <1>2, AskedIsCurrent, SpinnerNext DEF RefreshAsked
<1>3. CASE RefreshQueued
  BY <1>3, SpinnerNext DEF RefreshQueued
<1>4. CASE BootstrapReadsLeases
  <2>1. Refreshing(mainThread')
    <3>1. PICK failed : HeadRead(failed)
      BY <1>4, HeadReads
    <3>2. IsRefresh(mainThread[1])
      BY <1>4, <3>1 DEF HeadRead, BootstrapReadsLeases, IsRefresh
    <3>3. mainThread'[1].command = mainThread[1].command
      BY <3>1 DEF HeadRead, Invocations
    <3> QED
      BY <3>1, <3>2, <3>3 DEF HeadRead, Refreshing, IsRefresh
  <2> QED
    BY <2>1, SpinnerNext
<1>5. CASE BootstrapAnswers
  BY <1>5, AnsweringKeeps, SpinnerNext
<1>6. CASE RunHandoffPrepare \/ RunHandoffAbort
  BY <1>6, HandoffRunKeeps, SpinnerNext DEF SpinnerEnds
<1>7. CASE BootstrapArrives
  BY <1>7, ArrivalKeeps, SpinnerNext
<1>8. CASE Unrelated
  BY <1>8, UnrelatedKeeps, SpinnerNext DEF SpinnerEnds, Unrelated, SamePage
<1> QED
  BY <1>1, <1>2, <1>3, <1>4, <1>5, <1>6, <1>7, <1>8, StepKinds
-----------------------------------------------------------------------------
LEMMA DesktopStarts == DesktopInit => DesktopInv
<1> SUFFICES ASSUME DesktopInit PROVE DesktopInv
  OBVIOUS
<1>1. <<>> \in Seq(Nat) /\ <<>> \in Seq(Messages) /\ <<>> \in Seq(Invocations) /\ <<>> \in Seq(PageAnswers)
  OBVIOUS
<1>2. "none" \in HandoffTargets
  BY DEF HandoffTargets
<1>3. AnswerNow({}) \in DesktopViews
  BY <1>2 DEF DesktopInit, AnswerNow, DesktopViews
<1>4. LocalTypeOK
  BY <1>1, <1>2, <1>3, NothingIsAView DEF DesktopInit, LocalTypeOK, LocalStates, BridgeStates, TrayStates
<1>5. PageTypeOK
  BY <1>1, <1>2, NothingIsAView DEF DesktopInit, PageTypeOK, PageStates
<1>6. CommandsInTurn
  BY DEF DesktopInit, CommandsInTurn, BegunInOrder
<1>7. ~page.listening
  BY DEF DesktopInit
<1> QED
  BY <1>4, <1>5, <1>6, <1>7 DEF DesktopInv, DesktopTypeOK, PageFollows, RefreshComes, SpinnerEnds

LEMMA RestIsCurrent ==
  ASSUME DesktopInv
  PROVE  RestingPageIsCurrent
<1> SUFFICES ASSUME AtRest
             PROVE  /\ page.shown = AnswerNow(page.shown.errors) /\ "agent" \notin page.shown.errors
                    /\ ~page.loading /\ ~page.refreshing
  BY DEF RestingPageIsCurrent
<1>1. ~RefreshComes /\ mainThread = <<>> /\ answers = <<>> /\ page.listening /\ ~page.timer
  BY DEF AtRest, RefreshComes
<1>2. DOMAIN mainThread = {} /\ DOMAIN answers = {}
  BY <1>1
<1>3. ~Refreshing(mainThread) /\ ~Refreshing(answers)
  BY <1>2 DEF Refreshing
<1>4. ~CurrentIn(mainThread, local) /\ ~LastIs(answers, local)
  BY <1>2 DEF CurrentIn, LastIs
<1>5. UpToDate(page.shown, local) /\ ~page.loading /\ ~page.refreshing
  BY <1>1, <1>3, <1>4 DEF DesktopInv, PageFollows, SpinnerEnds
<1>6. page.shown \in DesktopViews
  BY DEF DesktopInv, DesktopTypeOK, PageTypeOK, PageStates
<1>7. page.shown = AnswerNow(page.shown.errors)
  BY <1>5, <1>6 DEF UpToDate, AnswerNow, DesktopViews
<1> QED
  BY <1>5, <1>7 DEF UpToDate

(* Whatever the agent's other clients, the bridge, the tray and the user do *)
(* in between, and whichever calls fail: a page that has nothing left to    *)
(* wait for shows what the agent would answer now to the calls that did not *)
(* fail, no call failed for want of the agent, and the page has stopped     *)
(* telling the user to wait.                                                *)
THEOREM RestingPageIsCurrentAlways == DesktopSpec => []RestingPageIsCurrent
<1>1. DesktopInv /\ [DesktopNext]_desktopVars => DesktopInv'
  <2> SUFFICES ASSUME DesktopInv, [DesktopNext]_desktopVars
               PROVE  DesktopInv'
    OBVIOUS
  <2>1. DesktopTypeOK /\ CommandsInTurn
    BY DEF DesktopInv
  <2>2. DesktopTypeOK'
    BY <2>1, LocalTyped, PageTyped DEF DesktopTypeOK
  <2>3. CommandsInTurn'
    BY <2>1, CommandsStayInTurn
  <2>4. PageFollows' /\ SpinnerEnds'
    BY PageKeepsFollowing, SpinnerKeepsEnding
  <2> QED
    BY <2>2, <2>3, <2>4 DEF DesktopInv
<1> QED
  BY <1>1, DesktopStarts, RestIsCurrent, PTL DEF DesktopSpec

-----------------------------------------------------------------------------
(* ResourcePolicy: every cap keeps the order of the limits it gets, so the *)
(* three in a row do, whatever the profile starts from.                     *)
ResourceSpec == ResourceInit /\ [][ResourceNext]_resourceVars

Positive(limits) == limits.cpu >= 1 /\ limits.hash >= 1 /\ limits.bandwidth # 0

(* Limits that a step of adapted_for_context may get and may return. *)
Usable(limits) == limits \in ResourcePolicyLimits /\ Positive(limits)

(* Capping slots keeps limits usable, lowers them, and keeps their order.  *)
LEMMA CapsOfSlots ==
    ASSUME NEW a, NEW b, Usable(a), Usable(b), AtMost(a, b),
           NEW c \in Nat, NEW d \in Nat, NEW h \in Nat, NEW k \in Nat, c <= d, h <= k
    PROVE  /\ Usable(CapCpuAndHash(a, c, h)) /\ AtMost(CapCpuAndHash(a, c, h), a)
           /\ AtMost(CapCpuAndHash(a, c, h), CapCpuAndHash(b, d, k))
<1>1. /\ a \in ResourcePolicyLimits /\ a.cpu \in Nat /\ a.hash \in Nat
      /\ b \in ResourcePolicyLimits /\ b.cpu \in Nat /\ b.hash \in Nat
      /\ a.cpu >= 1 /\ a.hash >= 1 /\ b.cpu >= 1 /\ b.hash >= 1
      /\ a.cpu <= b.cpu /\ a.hash <= b.hash
  BY DEF Usable, Positive, ResourcePolicyLimits, AtMost
<1> DEFINE low == CapCpuAndHash(a, c, h)
           high == CapCpuAndHash(b, d, k)
           Cut(n, m) == AtLeastOne(Lower(n, AtLeastOne(m)))
<1>a. /\ a = [cpu |-> a.cpu, hash |-> a.hash, bandwidth |-> a.bandwidth]
      /\ b = [cpu |-> b.cpu, hash |-> b.hash, bandwidth |-> b.bandwidth]
  BY <1>1 DEF ResourcePolicyLimits
<1>2. /\ low = [cpu |-> Cut(a.cpu, c), hash |-> Cut(a.hash, h), bandwidth |-> a.bandwidth]
      /\ high = [cpu |-> Cut(b.cpu, d), hash |-> Cut(b.hash, k), bandwidth |-> b.bandwidth]
  <2>1. /\ low = [a EXCEPT !.cpu = Cut(a.cpu, c), !.hash = Cut(a.hash, h)]
        /\ high = [b EXCEPT !.cpu = Cut(b.cpu, d), !.hash = Cut(b.hash, k)]
    BY DEF CapCpuAndHash
  <2> HIDE DEF low, high, Cut
  <2> QED BY <1>a, <2>1
<1>3. \A n, m \in Nat : n >= 1 => Cut(n, m) \in Nat /\ 1 <= Cut(n, m) /\ Cut(n, m) <= n
  BY DEF AtLeastOne, Lower
<1>4. \A n, m, i, j \in Nat : n <= i /\ m <= j => Cut(n, m) <= Cut(i, j)
  BY DEF AtLeastOne, Lower
<1> HIDE DEF Cut
<1>5. /\ Cut(a.cpu, c) \in Nat /\ 1 <= Cut(a.cpu, c) /\ Cut(a.cpu, c) <= a.cpu
      /\ Cut(a.hash, h) \in Nat /\ 1 <= Cut(a.hash, h) /\ Cut(a.hash, h) <= a.hash
      /\ Cut(a.cpu, c) <= Cut(b.cpu, d) /\ Cut(a.hash, h) <= Cut(b.hash, k)
  BY <1>1, <1>3, <1>4
<1> HIDE DEF low, high
<1>6. /\ low.cpu = Cut(a.cpu, c) /\ low.hash = Cut(a.hash, h) /\ low.bandwidth = a.bandwidth
      /\ high.cpu = Cut(b.cpu, d) /\ high.hash = Cut(b.hash, k) /\ high.bandwidth = b.bandwidth
  BY <1>2
<1>7. Usable(low)
  <2>1. low \in ResourcePolicyLimits BY <1>1, <1>2, <1>5 DEF ResourcePolicyLimits
  <2>2. Positive(low) BY <1>5, <1>6 DEF Positive, Usable
  <2> QED BY <2>1, <2>2 DEF Usable
<1>8. AtMost(low, a)
  <2>1. a.bandwidth # Unlimited => a.bandwidth <= a.bandwidth
    BY DEF Usable, ResourcePolicyLimits
  <2> QED BY <1>5, <1>6, <2>1 DEF AtMost
<1>9. AtMost(low, high) BY <1>5, <1>6 DEF AtMost
<1> QED BY <1>7, <1>8, <1>9 DEF low, high

(* So does capping the bandwidth. *)
LEMMA CapsOfBandwidth ==
    ASSUME NEW a, NEW b, Usable(a), Usable(b), AtMost(a, b), NEW cap \in Nat \ {0}
    PROVE  /\ Usable(CapNetworkBandwidth(a, cap)) /\ AtMost(CapNetworkBandwidth(a, cap), a)
           /\ AtMost(CapNetworkBandwidth(a, cap), CapNetworkBandwidth(b, cap))
<1> DEFINE Cut(x) == IF x = Unlimited THEN cap ELSE Lower(x, cap)
<1>1. /\ a \in ResourcePolicyLimits /\ a.cpu \in Nat /\ a.hash \in Nat
      /\ b \in ResourcePolicyLimits /\ b.cpu \in Nat /\ b.hash \in Nat
      /\ a.bandwidth \in Nat \cup {Unlimited} /\ b.bandwidth \in Nat \cup {Unlimited}
      /\ a.cpu >= 1 /\ a.hash >= 1 /\ b.cpu >= 1 /\ b.hash >= 1
      /\ a.cpu <= b.cpu /\ a.hash <= b.hash /\ a.bandwidth # 0 /\ b.bandwidth # 0
  BY DEF Usable, Positive, ResourcePolicyLimits, AtMost
<1>2. /\ CapNetworkBandwidth(a, cap) = [cpu |-> a.cpu, hash |-> a.hash, bandwidth |-> Cut(a.bandwidth)]
      /\ CapNetworkBandwidth(b, cap) = [cpu |-> b.cpu, hash |-> b.hash, bandwidth |-> Cut(b.bandwidth)]
  BY <1>1 DEF CapNetworkBandwidth, ResourcePolicyLimits
<1>3. /\ Cut(a.bandwidth) \in Nat \ {0} /\ Cut(b.bandwidth) \in Nat \ {0}
      /\ a.bandwidth # Unlimited => Cut(a.bandwidth) <= a.bandwidth
  BY <1>1 DEF Lower, Unlimited
<1>4. Cut(a.bandwidth) <= Cut(b.bandwidth)
  <2>1. b.bandwidth # Unlimited => a.bandwidth # Unlimited /\ a.bandwidth <= b.bandwidth
    BY DEF AtMost
  <2> QED BY <1>1, <2>1 DEF Lower, Unlimited
<1> HIDE DEF Cut
<1>5. PICK low, high : /\ low = CapNetworkBandwidth(a, cap) /\ high = CapNetworkBandwidth(b, cap)
  OBVIOUS
<1>6. /\ low.cpu = a.cpu /\ low.hash = a.hash /\ low.bandwidth = Cut(a.bandwidth)
      /\ high.cpu = b.cpu /\ high.hash = b.hash /\ high.bandwidth = Cut(b.bandwidth)
  BY <1>2, <1>5
<1>7. Usable(low)
  <2>1. low \in ResourcePolicyLimits BY <1>1, <1>2, <1>3, <1>5 DEF ResourcePolicyLimits
  <2>2. Positive(low) BY <1>1, <1>3, <1>6 DEF Positive
  <2> QED BY <2>1, <2>2 DEF Usable
<1>8. AtMost(low, a) BY <1>1, <1>3, <1>6 DEF AtMost, Unlimited
<1>9. AtMost(low, high) BY <1>1, <1>3, <1>4, <1>6 DEF AtMost, Unlimited
<1> QED BY <1>5, <1>7, <1>8, <1>9

LEMMA AtMostIsAnOrder ==
    /\ \A a \in ResourcePolicyLimits : AtMost(a, a)
    /\ \A a, b, c \in ResourcePolicyLimits : AtMost(a, b) /\ AtMost(b, c) => AtMost(a, c)
  BY DEF AtMost, ResourcePolicyLimits, Unlimited

(* What a step of adapted_for_context has to do with limits a in a context *)
(* hard, beside limits b that are no lower in an easier context.           *)
StepKeepsOrder(low, a, high) == Usable(low) /\ AtMost(low, a) /\ AtMost(low, high)

LEMMA BatteryKeepsOrder ==
    ASSUME NEW a, NEW b, Usable(a), Usable(b), AtMost(a, b),
           NEW easy \in ResourcePolicyContext, NEW hard \in ResourcePolicyContext, Easier(easy, hard)
    PROVE  StepKeepsOrder(OnBattery(a, hard), a, OnBattery(b, easy))
<1>1. PICK cap \in Nat : cap = AtLeastOne(hard.parallelism \div 4)
  <2>1. hard.parallelism \in CoreCounts BY DEF ResourcePolicyContext
  <2>2. hard.parallelism \in Nat BY <2>1, ResourceAssumption
  <2> QED BY <2>2 DEF AtLeastOne
<1>2. AtLeastOne(easy.parallelism \div 4) = cap BY <1>1 DEF Easier
<1>3. /\ a \in ResourcePolicyLimits /\ b \in ResourcePolicyLimits BY DEF Usable
<1>4. AtMost(a, a) /\ AtMost(b, b) BY <1>3, AtMostIsAnOrder
<1>5. CASE hard.power # "battery"
  <2>1. easy.power # "battery" BY <1>5 DEF Easier
  <2> QED BY <1>4, <1>5, <2>1 DEF OnBattery, StepKeepsOrder
<1>6. CASE hard.power = "battery"
  <2>1. PICK c, d : c = CapCpuAndHash(a, cap, cap) /\ d = CapCpuAndHash(b, cap, cap) OBVIOUS
  <2>2. /\ Usable(c) /\ Usable(d) /\ AtMost(c, a) /\ AtMost(c, d)
    BY <2>1, <1>4, CapsOfSlots
  <2>3. /\ Usable(CapNetworkBandwidth(c, 2048)) /\ AtMost(CapNetworkBandwidth(c, 2048), c)
        /\ AtMost(CapNetworkBandwidth(c, 2048), CapNetworkBandwidth(d, 2048))
    BY <2>2, CapsOfBandwidth
  <2>4. OnBattery(a, hard) = CapNetworkBandwidth(c, 2048) BY <1>1, <1>6, <2>1 DEF OnBattery
  <2>5. OnBattery(b, easy) \in {b, CapNetworkBandwidth(d, 2048)} BY <1>2, <2>1 DEF OnBattery
  <2>6. CapNetworkBandwidth(c, 2048) \in ResourcePolicyLimits /\ c \in ResourcePolicyLimits
    BY <2>2, <2>3 DEF Usable
  <2>7. AtMost(CapNetworkBandwidth(c, 2048), a) BY <1>3, <2>2, <2>3, <2>6, AtMostIsAnOrder
  <2>8. AtMost(CapNetworkBandwidth(c, 2048), b) BY <1>3, <2>6, <2>7, AtMostIsAnOrder
  <2> QED BY <2>3, <2>4, <2>5, <2>7, <2>8 DEF StepKeepsOrder
<1> QED BY <1>5, <1>6

LEMMA ForegroundKeepsOrder ==
    ASSUME NEW a, NEW b, Usable(a), Usable(b), AtMost(a, b),
           NEW easy \in ResourcePolicyContext, NEW hard \in ResourcePolicyContext, Easier(easy, hard)
    PROVE  StepKeepsOrder(InForeground(a, hard), a, InForeground(b, easy))
<1>1. /\ a \in ResourcePolicyLimits /\ b \in ResourcePolicyLimits BY DEF Usable
<1>2. AtMost(a, a) /\ AtMost(b, b) BY <1>1, AtMostIsAnOrder
<1>3. CASE hard.load # "busy"
  <2>1. easy.load # "busy" BY <1>3 DEF Easier
  <2> QED BY <1>2, <1>3, <2>1 DEF InForeground, StepKeepsOrder
<1>4. CASE hard.load = "busy"
  <2>1. PICK k, m, p, q : /\ k = AtLeastOne(a.cpu \div 2) /\ m = AtLeastOne(a.hash \div 2)
                          /\ p = AtLeastOne(b.cpu \div 2) /\ q = AtLeastOne(b.hash \div 2)
    OBVIOUS
  <2>2. /\ k \in Nat /\ m \in Nat /\ p \in Nat /\ q \in Nat /\ k <= p /\ m <= q
    <3>1. /\ a.cpu \in Nat /\ a.hash \in Nat /\ b.cpu \in Nat /\ b.hash \in Nat
          /\ a.cpu <= b.cpu /\ a.hash <= b.hash
      BY <1>1 DEF ResourcePolicyLimits, AtMost
    <3>2. \A x, y \in Nat : x <= y => /\ AtLeastOne(x \div 2) \in Nat /\ AtLeastOne(y \div 2) \in Nat
                                      /\ AtLeastOne(x \div 2) <= AtLeastOne(y \div 2)
      BY DEF AtLeastOne
    <3> QED BY <2>1, <3>1, <3>2
  <2>3. PICK c, d : c = CapCpuAndHash(a, k, m) /\ d = CapCpuAndHash(b, p, q) OBVIOUS
  <2>4. /\ Usable(c) /\ AtMost(c, a) /\ AtMost(c, d) BY <2>2, <2>3, CapsOfSlots
  <2>5. Usable(d) BY <1>2, <2>2, <2>3, CapsOfSlots
  <2>6. /\ Usable(CapNetworkBandwidth(c, 4096)) /\ AtMost(CapNetworkBandwidth(c, 4096), c)
        /\ AtMost(CapNetworkBandwidth(c, 4096), CapNetworkBandwidth(d, 4096))
    BY <2>4, <2>5, CapsOfBandwidth
  <2>7. InForeground(a, hard) = CapNetworkBandwidth(c, 4096) BY <1>4, <2>1, <2>3 DEF InForeground
  <2>8. InForeground(b, easy) \in {b, CapNetworkBandwidth(d, 4096)} BY <2>1, <2>3 DEF InForeground
  <2>9. CapNetworkBandwidth(c, 4096) \in ResourcePolicyLimits /\ c \in ResourcePolicyLimits
    BY <2>4, <2>6 DEF Usable
  <2>10. AtMost(CapNetworkBandwidth(c, 4096), a) BY <1>1, <2>4, <2>6, <2>9, AtMostIsAnOrder
  <2>11. AtMost(CapNetworkBandwidth(c, 4096), b) BY <1>1, <2>9, <2>10, AtMostIsAnOrder
  <2> QED BY <2>6, <2>7, <2>8, <2>10, <2>11 DEF StepKeepsOrder
<1> QED BY <1>3, <1>4

LEMMA LowPowerKeepsOrder ==
    ASSUME NEW a, NEW b, Usable(a), Usable(b), AtMost(a, b),
           NEW easy \in ResourcePolicyContext, NEW hard \in ResourcePolicyContext, Easier(easy, hard)
    PROVE  StepKeepsOrder(InLowPower(a, hard), a, InLowPower(b, easy))
<1>1. /\ a \in ResourcePolicyLimits /\ b \in ResourcePolicyLimits BY DEF Usable
<1>2. AtMost(a, a) /\ AtMost(b, b) BY <1>1, AtMostIsAnOrder
<1>3. CASE ~hard.lowPower
  <2>1. ~easy.lowPower BY <1>3 DEF Easier
  <2> QED BY <1>2, <1>3, <2>1 DEF InLowPower, StepKeepsOrder
<1>4. CASE hard.lowPower
  <2>1. PICK c, d : c = CapCpuAndHash(a, 1, 1) /\ d = CapCpuAndHash(b, 1, 1) OBVIOUS
  <2>2. /\ Usable(c) /\ Usable(d) /\ AtMost(c, a) /\ AtMost(c, d)
    BY <1>2, <2>1, CapsOfSlots
  <2>3. /\ Usable(CapNetworkBandwidth(c, 1024)) /\ AtMost(CapNetworkBandwidth(c, 1024), c)
        /\ AtMost(CapNetworkBandwidth(c, 1024), CapNetworkBandwidth(d, 1024))
    BY <2>2, CapsOfBandwidth
  <2>4. InLowPower(a, hard) = CapNetworkBandwidth(c, 1024) BY <1>4, <2>1 DEF InLowPower
  <2>5. InLowPower(b, easy) \in {b, CapNetworkBandwidth(d, 1024)} BY <2>1 DEF InLowPower
  <2>6. CapNetworkBandwidth(c, 1024) \in ResourcePolicyLimits /\ c \in ResourcePolicyLimits
    BY <2>2, <2>3 DEF Usable
  <2>7. AtMost(CapNetworkBandwidth(c, 1024), a) BY <1>1, <2>2, <2>3, <2>6, AtMostIsAnOrder
  <2>8. AtMost(CapNetworkBandwidth(c, 1024), b) BY <1>1, <2>6, <2>7, AtMostIsAnOrder
  <2> QED BY <2>3, <2>4, <2>5, <2>7, <2>8 DEF StepKeepsOrder
<1> QED BY <1>3, <1>4

(* What adapted_for_context makes of usable limits is usable, no more than *)
(* they are, and no more than what it makes of them in an easier context.  *)
LEMMA StrainLowers ==
    ASSUME NEW a, Usable(a),
           NEW easy \in ResourcePolicyContext, NEW hard \in ResourcePolicyContext, Easier(easy, hard)
    PROVE  StepKeepsOrder(AdaptedForContext(a, hard), a, AdaptedForContext(a, easy))
<1>1. a \in ResourcePolicyLimits /\ AtMost(a, a) BY AtMostIsAnOrder DEF Usable
<1>2. Easier(easy, easy) BY DEF Easier
<1>3. PICK a1, b1 : a1 = OnBattery(a, hard) /\ b1 = OnBattery(a, easy) OBVIOUS
<1>4. PICK a2, b2 : a2 = InForeground(a1, hard) /\ b2 = InForeground(b1, easy) OBVIOUS
<1>5. /\ Usable(a1) /\ AtMost(a1, a) /\ AtMost(a1, b1) BY <1>1, <1>3, BatteryKeepsOrder DEF StepKeepsOrder
<1>6. Usable(b1) BY <1>1, <1>2, <1>3, BatteryKeepsOrder DEF StepKeepsOrder
<1>7. /\ Usable(a2) /\ AtMost(a2, a1) /\ AtMost(a2, b2)
  BY <1>4, <1>5, <1>6, ForegroundKeepsOrder DEF StepKeepsOrder
<1>8. b1 \in ResourcePolicyLimits /\ AtMost(b1, b1) BY <1>6, AtMostIsAnOrder DEF Usable
<1>9. Usable(b2) BY <1>2, <1>4, <1>6, <1>8, ForegroundKeepsOrder DEF StepKeepsOrder
<1>10. PICK a3, b3 : a3 = InLowPower(a2, hard) /\ b3 = InLowPower(b2, easy) OBVIOUS
<1>11. /\ Usable(a3) /\ AtMost(a3, a2) /\ AtMost(a3, b3)
  BY <1>7, <1>9, <1>10, LowPowerKeepsOrder DEF StepKeepsOrder
<1>12. a1 \in ResourcePolicyLimits /\ a2 \in ResourcePolicyLimits /\ a3 \in ResourcePolicyLimits
  BY <1>5, <1>7, <1>11 DEF Usable
<1>13. AtMost(a3, a) BY <1>1, <1>5, <1>7, <1>11, <1>12, AtMostIsAnOrder
<1> QED BY <1>3, <1>4, <1>10, <1>11, <1>13 DEF AdaptedForContext, StepKeepsOrder

(* The limits of a profile are usable before anything caps them. *)
LEMMA ProfilesAreUsable ==
    ASSUME NEW settings \in Settings, NEW context \in ResourcePolicyContext
    PROVE  Usable(BaseLimits(settings, context))
<1>1. context.parallelism \in Nat /\ context.parallelism >= 1
  <2>1. context.parallelism \in CoreCounts BY DEF ResourcePolicyContext
  <2>2. context.parallelism \in Nat \ {0} BY <2>1, ResourceAssumption, Zenon
  <2> QED BY <2>2
<1>2. PICK half \in Nat : half >= 1 /\ half = AtLeastOne(context.parallelism \div 2)
  BY <1>1 DEF AtLeastOne
<1>3. \A n \in Nat, w \in Nat \cup {Unlimited} : n >= 1 /\ w # 0 => Usable(Slots(n, w))
  BY DEF Slots, Usable, Positive, ResourcePolicyLimits
<1>4. Usable(ForProfile(settings.profile, context.parallelism))
  <2>1. ForProfile(settings.profile, context.parallelism)
           \in {Slots(context.parallelism, Unlimited), Slots(1, 1024), Slots(half, Unlimited)}
    BY <1>2 DEF ForProfile
  <2>2. Usable(Slots(1, 1024)) BY <1>3
  <2>3. Usable(Slots(context.parallelism, Unlimited)) /\ Usable(Slots(half, Unlimited))
    <3>1. Unlimited \in Nat \cup {Unlimited} /\ Unlimited # 0 BY DEF Unlimited
    <3> QED BY <1>1, <1>2, <1>3, <3>1
  <2> QED BY <2>1, <2>2, <2>3
<1>5. settings.limits \in ResourcePolicyLimits
  BY ResourceAssumption DEF Settings, WrittenLimits, ResourcePolicyLimits
<1>6. ValidLimits(settings.limits) => Usable(settings.limits)
  BY <1>5 DEF ValidLimits, Usable, Positive, ResourcePolicyLimits
<1> QED BY <1>4, <1>6 DEF BaseLimits

(* The doctor holds settings and a context of their types, and what it     *)
(* reports is the policy for them.                                          *)
Reported ==
    policyDoctor.pc = "done" =>
        policyDoctor.limits = PolicyFor(policyDoctor.settings, policyDoctor.context)

PolicyDoctors ==
    [pc : {"start", "power", "lowpower", "load", "report", "done", "failed"}, settings : Settings,
     context : ResourcePolicyContext, limits : ResourcePolicyLimits, warned : BOOLEAN]

Machines ==
    [parallelism : CoreCounts, mac : BOOLEAN, power : {"ac", "battery"}, lowPower : BOOLEAN,
     quarters : Nat, settings : Settings, changes : Nat]

ResourceInv == machine \in Machines /\ policyDoctor \in PolicyDoctors /\ Reported

LEMMA DefaultContexts == \A n \in CoreCounts : DefaultContext(n) \in ResourcePolicyContext
  BY DEF DefaultContext, ResourcePolicyContext, PowerSources, ForegroundLoads

LEMMA ResourceInvInit == ResourceInit => ResourceInv
<1> SUFFICES ASSUME ResourceInit PROVE ResourceInv OBVIOUS
<1>1. PICK n \in CoreCounts, mac \in BOOLEAN, settings \in Settings :
        /\ machine = [parallelism |-> n, mac |-> mac, power |-> "ac", lowPower |-> FALSE,
                      quarters |-> 0, settings |-> settings, changes |-> 0]
        /\ policyDoctor = [pc |-> "start", settings |-> settings, context |-> DefaultContext(n),
                           limits |-> BaseLimits(settings, DefaultContext(n)), warned |-> FALSE]
  BY DEF ResourceInit
<1>2. machine \in Machines BY <1>1 DEF Machines
<1>3. DefaultContext(n) \in ResourcePolicyContext BY DefaultContexts
<1>4. BaseLimits(settings, DefaultContext(n)) \in ResourcePolicyLimits
  BY <1>3, ProfilesAreUsable DEF Usable
<1>5. policyDoctor \in PolicyDoctors BY <1>1, <1>3, <1>4 DEF PolicyDoctors
<1>6. policyDoctor.pc # "done" BY <1>1
<1> QED BY <1>2, <1>5, <1>6 DEF ResourceInv, Reported

LEMMA ResourceInvNext == ResourceInv /\ [ResourceNext]_resourceVars => ResourceInv'
<1> SUFFICES ASSUME ResourceInv, [ResourceNext]_resourceVars PROVE ResourceInv' OBVIOUS
<1>t. machine \in Machines /\ policyDoctor \in PolicyDoctors BY DEF ResourceInv
<1>f. /\ machine.parallelism \in CoreCounts /\ machine.settings \in Settings
      /\ machine.power \in {"ac", "battery"} /\ machine.lowPower \in BOOLEAN /\ machine.changes \in Nat
      /\ policyDoctor.settings \in Settings /\ policyDoctor.context \in ResourcePolicyContext
      /\ policyDoctor.limits \in ResourcePolicyLimits
  BY <1>t DEF Machines, PolicyDoctors
<1>1. CASE MachineChanges
  <2>1. machine' \in Machines
    <3>1. CASE \E power \in {"ac", "battery"}, low \in BOOLEAN :
                  machine' = [machine EXCEPT !.power = power, !.lowPower = low, !.changes = @ + 1]
      <4>1. PICK power \in {"ac", "battery"}, low \in BOOLEAN :
                  machine' = [machine EXCEPT !.power = power, !.lowPower = low, !.changes = @ + 1]
        BY <3>1
      <4>2. machine.changes + 1 \in Nat BY <1>f
      <4>3. machine' = [machine EXCEPT !.power = power, !.lowPower = low,
                                       !.changes = machine.changes + 1]
        BY <4>1
      <4> QED BY <1>t, <4>2, <4>3, Zenon DEF Machines
    <3>2. CASE \E quarters \in LoadQuarters :
                  machine' = [machine EXCEPT !.quarters = quarters, !.changes = @ + 1]
      <4>1. PICK quarters \in LoadQuarters :
                  machine' = [machine EXCEPT !.quarters = quarters, !.changes = @ + 1]
        BY <3>2
      <4>2. quarters \in Nat BY ResourceAssumption
      <4>3. machine.changes + 1 \in Nat BY <1>f
      <4>4. machine' = [machine EXCEPT !.quarters = quarters, !.changes = machine.changes + 1]
        BY <4>1
      <4> QED BY <1>t, <4>2, <4>3, <4>4 DEF Machines
    <3> QED BY <1>1, <3>1, <3>2 DEF MachineChanges
  <2>2. policyDoctor' = policyDoctor BY <1>1 DEF MachineChanges
  <2> QED BY <1>t, <2>1, <2>2 DEF ResourceInv, Reported
<1>2. CASE LoadSettings
  <2>1. machine' = machine BY <1>2 DEF LoadSettings
  <2>2. DefaultContext(machine.parallelism) \in ResourcePolicyContext BY <1>f, DefaultContexts
  <2>3. policyDoctor' \in PolicyDoctors /\ policyDoctor'.pc \in {"failed", "power", "report"}
    BY <1>2, <1>t, <1>f, <2>2 DEF LoadSettings, PolicyDoctors
  <2> QED BY <1>t, <2>1, <2>3 DEF ResourceInv, Reported
<1>3. CASE ReadPowerSource
  <2>1. machine' = machine BY <1>3 DEF ReadPowerSource
  <2>2. PICK power \in {machine.power, "unknown"} :
           policyDoctor' = [policyDoctor EXCEPT !.pc = "lowpower", !.context.power = power]
    BY <1>3 DEF ReadPowerSource
  <2>3. [policyDoctor.context EXCEPT !.power = power] \in ResourcePolicyContext
    BY <1>f DEF ResourcePolicyContext, PowerSources
  <2>4. policyDoctor' \in PolicyDoctors /\ policyDoctor'.pc = "lowpower"
    BY <1>t, <2>2, <2>3 DEF PolicyDoctors
  <2> QED BY <1>t, <2>1, <2>4 DEF ResourceInv, Reported
<1>4. CASE ReadLowPowerMode
  <2>1. machine' = machine BY <1>4 DEF ReadLowPowerMode
  <2>2. PICK low \in {machine.lowPower, FALSE} :
           policyDoctor' = [policyDoctor EXCEPT !.pc = "load", !.context.lowPower = low]
    BY <1>4 DEF ReadLowPowerMode
  <2>3. [policyDoctor.context EXCEPT !.lowPower = low] \in ResourcePolicyContext
    BY <1>f DEF ResourcePolicyContext
  <2>4. policyDoctor' \in PolicyDoctors /\ policyDoctor'.pc = "load"
    BY <1>t, <2>2, <2>3 DEF PolicyDoctors
  <2> QED BY <1>t, <2>1, <2>4 DEF ResourceInv, Reported
<1>5. CASE ReadLoadAverage
  <2>1. machine' = machine BY <1>5 DEF ReadLoadAverage
  <2>2. PICK load \in {FromLoadAverage(machine.quarters, machine.parallelism), "unknown"} :
           policyDoctor' = [policyDoctor EXCEPT !.pc = "report", !.context.load = load]
    BY <1>5 DEF ReadLoadAverage
  <2>3. load \in ForegroundLoads BY DEF FromLoadAverage, ForegroundLoads
  <2>4. [policyDoctor.context EXCEPT !.load = load] \in ResourcePolicyContext
    BY <1>f, <2>3 DEF ResourcePolicyContext
  <2>5. policyDoctor' \in PolicyDoctors /\ policyDoctor'.pc = "report"
    BY <1>t, <2>2, <2>4 DEF PolicyDoctors
  <2> QED BY <1>t, <2>1, <2>5 DEF ResourceInv, Reported
<1>6. CASE RunResourcePolicyDoctor
  <2>1. machine' = machine BY <1>6 DEF RunResourcePolicyDoctor
  <2>2. PICK limits : limits = PolicyFor(policyDoctor.settings, policyDoctor.context) OBVIOUS
  <2>3. PICK warned \in BOOLEAN :
           policyDoctor' = [policyDoctor EXCEPT !.pc = "done", !.limits = limits, !.warned = warned]
    BY <1>6, <2>2 DEF RunResourcePolicyDoctor
  <2>4. limits \in ResourcePolicyLimits
    <3>1. Usable(BaseLimits(policyDoctor.settings, policyDoctor.context)) BY <1>f, ProfilesAreUsable
    <3>2. Easier(policyDoctor.context, policyDoctor.context) BY DEF Easier
    <3> QED BY <1>f, <2>2, <3>1, <3>2, StrainLowers DEF PolicyFor, StepKeepsOrder, Usable
  <2>5. policyDoctor' \in PolicyDoctors BY <1>t, <2>3, <2>4 DEF PolicyDoctors
  <2>6. /\ policyDoctor'.limits = limits /\ policyDoctor'.settings = policyDoctor.settings
        /\ policyDoctor'.context = policyDoctor.context
    BY <1>t, <2>3 DEF PolicyDoctors
  <2>7. Reported' BY <2>2, <2>6 DEF Reported
  <2> QED BY <1>t, <2>1, <2>5, <2>7 DEF ResourceInv
<1>7. CASE UNCHANGED resourceVars BY <1>7 DEF resourceVars, ResourceInv, Reported
<1> QED BY <1>1, <1>2, <1>3, <1>4, <1>5, <1>6, <1>7 DEF ResourceNext

(* For any number of cores and any limits a user may write, no strain on   *)
(* the machine raises what the policy doctor reports, and nothing brings   *)
(* it down to zero.                                                         *)
THEOREM StrainNeverRaisesLimitsAlways == ResourceSpec => []StrainNeverRaisesLimits
<1>1. ResourceInv => StrainNeverRaisesLimits
  <2> SUFFICES ASSUME ResourceInv, policyDoctor.pc = "done" PROVE StrainNeverRaisesLimits
    BY DEF StrainNeverRaisesLimits
  <2>1. PICK settings \in Settings, context \in ResourcePolicyContext :
           /\ policyDoctor.settings = settings /\ policyDoctor.context = context
           /\ policyDoctor.limits = PolicyFor(settings, context)
    BY DEF ResourceInv, Reported, PolicyDoctors
  <2>2. PICK base : base = BaseLimits(settings, context) OBVIOUS
  <2>3. Usable(base) BY <2>2, ProfilesAreUsable
  <2>4. Easier(context, context) BY DEF Easier
  <2>5. StepKeepsOrder(PolicyFor(settings, context), base, PolicyFor(settings, context))
    BY <2>2, <2>3, <2>4, StrainLowers DEF PolicyFor
  <2>6. ASSUME NEW easy \in ResourcePolicyContext, Easier(easy, context)
        PROVE  AtMost(PolicyFor(settings, context), PolicyFor(settings, easy))
    <3>1. BaseLimits(settings, easy) = base BY <2>2, <2>6 DEF BaseLimits, Easier
    <3> QED BY <2>2, <2>3, <2>6, <3>1, StrainLowers DEF PolicyFor, StepKeepsOrder
  <2> QED BY <2>1, <2>2, <2>5, <2>6 DEF StrainNeverRaisesLimits, StepKeepsOrder, Usable, Positive
<1> QED BY <1>1, ResourceInvInit, ResourceInvNext, PTL DEF ResourceSpec
-----------------------------------------------------------------------------
(* The scheduler                                                           *)
SchedulerSpec == SchedulerInit /\ [][SchedulerNext]_schedulerVars

Positions(s) == (IF s \in AlwaysMeasured THEN 1 ELSE 0) .. Len(SignalScale[s])

SchedulerTypeOK ==
    /\ {task.cpu, task.memory, task.disk} \subseteq Nat
    /\ \A d \in TargetDevices :
          /\ signals[d] \in [SignalNames -> Nat]
          /\ \A s \in SignalNames : signals[d][s] \in Positions(s)
    /\ signals \in [TargetDevices -> [SignalNames -> Nat]]
    /\ signalChanges \in Nat

(* The signals, and how many values each is tried with.                    *)
LEMMA ScaleSizes ==
    /\ SignalNames = {"cacheWarmth", "dataLocality", "historicalSpeed", "userAffinity", "cpuLoad",
                      "freeMemory", "freeDisk", "transferCost", "lowPower", "power", "network",
                      "foreground", "thermal", "allowTaskExecution"}
    /\ \A s \in SignalNames : Len(SignalScale[s]) \in Nat /\ Len(SignalScale[s]) >= 2
<1>1. SignalNames = {"cacheWarmth", "dataLocality", "historicalSpeed", "userAffinity", "cpuLoad",
                      "freeMemory", "freeDisk", "transferCost", "lowPower", "power", "network",
                      "foreground", "thermal", "allowTaskExecution"}
  BY DEF SignalNames, SignalScale
<1>2. /\ Len(SignalScale["cacheWarmth"]) = 4
      /\ Len(SignalScale["dataLocality"]) = 4
      /\ Len(SignalScale["historicalSpeed"]) = 4
      /\ Len(SignalScale["userAffinity"]) = 4
      /\ Len(SignalScale["cpuLoad"]) = 3
      /\ Len(SignalScale["freeMemory"]) = 3
      /\ Len(SignalScale["freeDisk"]) = 3
      /\ Len(SignalScale["transferCost"]) = 3
      /\ Len(SignalScale["lowPower"]) = 2
      /\ Len(SignalScale["power"]) = 2
      /\ Len(SignalScale["network"]) = 4
      /\ Len(SignalScale["foreground"]) = 2
      /\ Len(SignalScale["thermal"]) = 4
      /\ Len(SignalScale["allowTaskExecution"]) = 2
  BY DEF SignalScale, PerMille
<1>3. \A s \in SignalNames : Len(SignalScale[s]) \in {2, 3, 4}
  <2> SUFFICES ASSUME NEW s \in SignalNames PROVE Len(SignalScale[s]) \in {2, 3, 4} OBVIOUS
  <2> QED BY <1>1, <1>2, Zenon
<1>4. \A k \in {2, 3, 4} : k \in Nat /\ k >= 2 OBVIOUS
<1>5. \A s \in SignalNames : Len(SignalScale[s]) \in Nat /\ Len(SignalScale[s]) >= 2
  BY <1>3, <1>4, Zenon
<1> QED BY <1>1, <1>5

(* Every measurement is a position in the scale of its signal.             *)
LEMMA SchedulerTypeInit == SchedulerInit => SchedulerTypeOK
<1> SUFFICES ASSUME SchedulerInit PROVE SchedulerTypeOK OBVIOUS
<1>1. {task.cpu, task.memory, task.disk} \subseteq Nat BY DEF SchedulerInit, TaskSizes
<1>2. signals = [d \in TargetDevices |-> [s \in SignalNames |-> IF s \in AlwaysMeasured THEN 2 ELSE 0]]
      /\ signalChanges = 0
  BY DEF SchedulerInit
<1>3. \A s \in SignalNames : 2 \in Positions(s) /\ (s \notin AlwaysMeasured => 0 \in Positions(s))
  <2> SUFFICES ASSUME NEW s \in SignalNames
               PROVE  2 \in Positions(s) /\ (s \notin AlwaysMeasured => 0 \in Positions(s))
    OBVIOUS
  <2>1. Len(SignalScale[s]) \in Nat /\ Len(SignalScale[s]) >= 2 BY ScaleSizes
  <2> QED BY <2>1 DEF Positions
<1> QED BY <1>1, <1>2, <1>3 DEF SchedulerTypeOK

(* And stays one when it is made again.                                    *)
LEMMA SchedulerTypeStep == SchedulerTypeOK /\ [SchedulerNext]_schedulerVars => SchedulerTypeOK'
<1> SUFFICES ASSUME SchedulerTypeOK, [SchedulerNext]_schedulerVars PROVE SchedulerTypeOK' OBVIOUS
<1>1. CASE UNCHANGED schedulerVars BY <1>1 DEF schedulerVars, SchedulerTypeOK
<1>2. ASSUME NEW d \in TargetDevices, NEW s \in SignalNames, MeasureSignal(d, s) PROVE SchedulerTypeOK'
  <2>1. PICK i \in Positions(s) : signals' = [signals EXCEPT ![d][s] = i]
    BY <1>2 DEF MeasureSignal, Positions
  <2>2. i \in Nat BY ScaleSizes DEF Positions
  <2>3. signals' \in [TargetDevices -> [SignalNames -> Nat]] BY <2>1, <2>2 DEF SchedulerTypeOK
  <2>4. \A o \in TargetDevices : \A t \in SignalNames : signals'[o][t] \in Positions(t)
    BY <2>1 DEF SchedulerTypeOK
  <2>5. signalChanges' \in Nat /\ task' = task BY <1>2 DEF MeasureSignal, SchedulerTypeOK
  <2> QED BY <2>3, <2>4, <2>5 DEF SchedulerTypeOK
<1> QED BY <1>1, <1>2 DEF SchedulerNext
-----------------------------------------------------------------------------
(* Sums of sequences (Total)                                               *)

\* What the recursion of Total comes to: a function of the length so far.
SumsUp(numbers, sum) ==
    /\ sum \in [0 .. Len(numbers) -> Nat]
    /\ sum[0] = 0
    /\ \A i \in 1 .. Len(numbers) : sum[i] = sum[i - 1] + numbers[i]

(* Total computes the last of the partial sums.                            *)
LEMMA TotalUnfolds ==
    ASSUME NEW n \in Nat, NEW numbers \in [1 .. n -> Nat]
    PROVE  \E sum : SumsUp(numbers, sum) /\ Total(numbers) = sum[n]
<1> DEFINE step == [i \in Nat |-> [x \in Nat |-> IF i \in 1 .. n THEN x + numbers[i] ELSE 0]]
           Sums(f) == f = [i \in 0 .. n |-> IF i = 0 THEN 0 ELSE f[i - 1] + numbers[i]]
           c == CHOOSE f : Sums(f)
<1>0. Len(numbers) = n /\ DOMAIN numbers = 1 .. n BY DEF Len
<1>1. step \in [Nat -> [Nat -> Nat]] OBVIOUS
<1>2. \A i \in 1 .. n : \A x \in Nat : step[i][x] = x + numbers[i] OBVIOUS
<1>3. PICK f \in [Nat -> Nat] : \A m \in Nat : Recurses(0, step, m, f)
  <2> HIDE DEF step
  <2> QED BY <1>1, RecursionExists
<1> HIDE DEF step
<1> DEFINE g == [i \in 0 .. n |-> f[i]]
<1>4. Sums(g)
  <2>1. g[0] = 0 BY <1>3 DEF Recurses
  <2>2. ASSUME NEW i \in 1 .. n PROVE g[i] = g[i - 1] + numbers[i]
    <3>1. i - 1 \in 0 .. n /\ i - 1 \in Nat /\ f[i - 1] \in Nat OBVIOUS
    <3>2. f[i] = step[i][f[i - 1]] BY <1>3 DEF Recurses
    <3>3. f[i] = f[i - 1] + numbers[i] BY <3>1, <3>2, <1>2
    <3>4. g[i] = f[i] /\ g[i - 1] = f[i - 1] BY <3>1
    <3> QED BY <3>3, <3>4
  <2>3. \A i \in 0 .. n : g[i] = IF i = 0 THEN 0 ELSE g[i - 1] + numbers[i]
    <3>1. \A i \in 0 .. n : i = 0 \/ i \in 1 .. n OBVIOUS
    <3> HIDE DEF g
    <3> QED BY <3>1, <2>1, <2>2
  <2> HIDE DEF g
  <2>4. g = [i \in 0 .. n |-> g[i]] BY DEF g
  <2> QED BY <2>3, <2>4
<1> HIDE DEF g
<1>5. Sums(c) BY <1>4
<1>6. Total(numbers) = c[n] BY <1>0 DEF Total
<1> HIDE DEF c
<1>7. c[0] = 0 /\ \A i \in 1 .. n : c[i] = c[i - 1] + numbers[i]
  <2>1. \A i \in 0 .. n : c[i] = IF i = 0 THEN 0 ELSE c[i - 1] + numbers[i] BY <1>5
  <2>2. 0 \in 0 .. n /\ \A i \in 1 .. n : i \in 0 .. n /\ i # 0 OBVIOUS
  <2> QED BY <2>1, <2>2
<1>8. \A i \in Nat : i <= n => c[i] \in Nat
  <2> DEFINE T == {i \in Nat : i <= n => c[i] \in Nat}
  <2>1. 0 \in T BY <1>7
  <2>2. \A i \in Nat : i \in T => i + 1 \in T
    <3> SUFFICES ASSUME NEW i \in Nat, i + 1 <= n, c[i] \in Nat PROVE c[i + 1] \in Nat
      <4>1. \A i \in Nat : i + 1 <= n => i <= n OBVIOUS
      <4> QED BY <4>1
    <3>1. i + 1 \in 1 .. n /\ (i + 1) - 1 = i OBVIOUS
    <3>2. numbers[i + 1] \in Nat BY <3>1
    <3>3. c[i + 1] = c[i] + numbers[i + 1] BY <3>1, <1>7
    <3>4. \A x, y \in Nat : x + y \in Nat OBVIOUS
    <3> QED BY <3>2, <3>3, <3>4, Zenon
  <2> HIDE DEF T
  <2>3. Nat \subseteq T BY <2>1, <2>2, NaturalsGrow
  <2> QED BY <2>3 DEF T
<1>9. c \in [0 .. n -> Nat]
  <2>1. c = [i \in 0 .. n |-> c[i]]
    <3>1. DOMAIN c = 0 .. n /\ c = [i \in DOMAIN c |-> c[i]] BY <1>5
    <3> QED BY <3>1
  <2> QED BY <2>1, <1>8
<1> QED BY <1>0, <1>6, <1>7, <1>9 DEF SumsUp

(* Larger numbers have a larger total.                                     *)
LEMMA TotalGrows ==
    ASSUME NEW n \in Nat, NEW small \in [1 .. n -> Nat], NEW large \in [1 .. n -> Nat],
           \A i \in 1 .. n : small[i] <= large[i]
    PROVE  Total(small) \in Nat /\ Total(large) \in Nat /\ Total(small) <= Total(large)
<1>0. Len(small) = n /\ Len(large) = n BY DEF Len
<1>1. PICK a : SumsUp(small, a) /\ Total(small) = a[n] BY TotalUnfolds
<1>2. PICK b : SumsUp(large, b) /\ Total(large) = b[n] BY TotalUnfolds
<1>3. /\ a \in [0 .. n -> Nat] /\ a[0] = 0 /\ \A i \in 1 .. n : a[i] = a[i - 1] + small[i]
      /\ b \in [0 .. n -> Nat] /\ b[0] = 0 /\ \A i \in 1 .. n : b[i] = b[i - 1] + large[i]
  BY <1>0, <1>1, <1>2 DEF SumsUp
<1> DEFINE T == {i \in Nat : i <= n => a[i] <= b[i]}
<1>4. 0 \in T BY <1>3
<1>5. \A i \in Nat : i \in T => i + 1 \in T
  <2> SUFFICES ASSUME NEW i \in Nat, i + 1 <= n, a[i] <= b[i] PROVE a[i + 1] <= b[i + 1] OBVIOUS
  <2>1. i + 1 \in 1 .. n /\ (i + 1) - 1 = i /\ i \in 0 .. n OBVIOUS
  <2>2. a[i + 1] = a[i] + small[i + 1] /\ b[i + 1] = b[i] + large[i + 1] BY <2>1, <1>3
  <2>3. a[i] \in Nat /\ b[i] \in Nat /\ small[i + 1] \in Nat /\ large[i + 1] \in Nat
        /\ small[i + 1] <= large[i + 1]
    BY <2>1, <1>3
  <2> QED BY <2>2, <2>3
<1> HIDE DEF T
<1>6. Nat \subseteq T BY <1>4, <1>5, NaturalsGrow
<1>7. n \in 0 .. n OBVIOUS
<1> QED BY <1>1, <1>2, <1>3, <1>6, <1>7 DEF T

-----------------------------------------------------------------------------
\* The marks of a scale go up with the position.
Ascends(n, mark) ==
    \A i, j \in 1 .. n : mark[i] \in Nat /\ mark[j] \in Nat /\ (i <= j => mark[i] <= mark[j])
Descends(n, mark) ==
    \A i, j \in 1 .. n : mark[i] \in Nat /\ mark[j] \in Nat /\ (i <= j => mark[j] <= mark[i])
GradesOf(s, grades) == [i \in 1 .. Len(SignalScale[s]) |-> grades[SignalScale[s][i]]]

(* Sizes and shares go up, loads and costs go down, grades go up.          *)
LEMMA ScalesInOrder ==
    /\ \A s \in {"cacheWarmth", "dataLocality", "historicalSpeed", "userAffinity", "freeMemory", "freeDisk"} :
          Ascends(Len(SignalScale[s]), SignalScale[s])
    /\ \A s \in {"cpuLoad", "transferCost"} : Descends(Len(SignalScale[s]), SignalScale[s])
    /\ Ascends(4, GradesOf("network", NetworkGrades)) /\ Len(SignalScale["network"]) = 4
    /\ Ascends(2, GradesOf("foreground", ForegroundGrades)) /\ Len(SignalScale["foreground"]) = 2
    /\ Ascends(4, GradesOf("thermal", ThermalGrades)) /\ Len(SignalScale["thermal"]) = 4
<1> DEFINE sizes == <<100, 512, 3000>>
           loads == <<9000, 1500, 0>>
           costs == <<9000, 2048, 0>>
<1>1. /\ 1 .. 4 = {1, 2, 3, 4} /\ 1 .. 3 = {1, 2, 3} /\ 1 .. 2 = {1, 2} OBVIOUS
<1>2. Ascends(4, PerMille) BY <1>1 DEF Ascends, PerMille
<1>3. Ascends(3, sizes) BY <1>1 DEF Ascends
<1>4. Descends(3, loads) BY <1>1 DEF Descends
<1>5. Descends(3, costs) BY <1>1 DEF Descends
<1>6. /\ SignalScale["cacheWarmth"] = PerMille /\ SignalScale["dataLocality"] = PerMille
      /\ SignalScale["historicalSpeed"] = PerMille /\ SignalScale["userAffinity"] = PerMille
      /\ SignalScale["freeMemory"] = sizes /\ SignalScale["freeDisk"] = sizes
      /\ SignalScale["cpuLoad"] = loads /\ SignalScale["transferCost"] = costs
  BY DEF SignalScale
<1>7. Len(PerMille) = 4 /\ Len(sizes) = 3 /\ Len(loads) = 3 /\ Len(costs) = 3
  BY DEF PerMille
<1> HIDE DEF sizes, loads, costs
<1>8. Ascends(4, GradesOf("network", NetworkGrades)) /\ Len(SignalScale["network"]) = 4
  <2>1. SignalScale["network"] = <<"poor", "fair", "good", "excellent">> BY DEF SignalScale
  <2>2. Len(SignalScale["network"]) = 4 BY <2>1
  <2>3. /\ GradesOf("network", NetworkGrades)[1] = 250 /\ GradesOf("network", NetworkGrades)[2] = 550
        /\ GradesOf("network", NetworkGrades)[3] = 800 /\ GradesOf("network", NetworkGrades)[4] = 1000
    BY <2>1, <2>2 DEF GradesOf, NetworkGrades
  <2> QED BY <1>1, <2>2, <2>3 DEF Ascends
<1>9. Ascends(2, GradesOf("foreground", ForegroundGrades)) /\ Len(SignalScale["foreground"]) = 2
  <2>1. SignalScale["foreground"] = <<"busy", "idle">> BY DEF SignalScale
  <2>2. Len(SignalScale["foreground"]) = 2 BY <2>1
  <2>3. /\ GradesOf("foreground", ForegroundGrades)[1] = 250
        /\ GradesOf("foreground", ForegroundGrades)[2] = 1000
    BY <2>1, <2>2 DEF GradesOf, ForegroundGrades
  <2> QED BY <1>1, <2>2, <2>3 DEF Ascends
<1>10. Ascends(4, GradesOf("thermal", ThermalGrades)) /\ Len(SignalScale["thermal"]) = 4
  <2>1. SignalScale["thermal"] = <<"critical", "serious", "fair", "nominal">> BY DEF SignalScale
  <2>2. Len(SignalScale["thermal"]) = 4 BY <2>1
  <2>3. /\ GradesOf("thermal", ThermalGrades)[1] = 0 /\ GradesOf("thermal", ThermalGrades)[2] = 300
        /\ GradesOf("thermal", ThermalGrades)[3] = 750 /\ GradesOf("thermal", ThermalGrades)[4] = 1000
    BY <2>1, <2>2 DEF GradesOf, ThermalGrades
  <2> QED BY <1>1, <2>2, <2>3 DEF Ascends
<1>11. \A s \in {"cacheWarmth", "dataLocality", "historicalSpeed", "userAffinity", "freeMemory", "freeDisk"} :
          Ascends(Len(SignalScale[s]), SignalScale[s])
  <2>1. /\ Ascends(Len(SignalScale["cacheWarmth"]), SignalScale["cacheWarmth"])
        /\ Ascends(Len(SignalScale["dataLocality"]), SignalScale["dataLocality"])
        /\ Ascends(Len(SignalScale["historicalSpeed"]), SignalScale["historicalSpeed"])
        /\ Ascends(Len(SignalScale["userAffinity"]), SignalScale["userAffinity"])
        /\ Ascends(Len(SignalScale["freeMemory"]), SignalScale["freeMemory"])
        /\ Ascends(Len(SignalScale["freeDisk"]), SignalScale["freeDisk"])
    BY <1>2, <1>3, <1>6, <1>7
  <2> QED BY <2>1, Zenon
<1>12. \A s \in {"cpuLoad", "transferCost"} : Descends(Len(SignalScale[s]), SignalScale[s])
  <2>1. /\ Descends(Len(SignalScale["cpuLoad"]), SignalScale["cpuLoad"])
        /\ Descends(Len(SignalScale["transferCost"]), SignalScale["transferCost"])
    BY <1>4, <1>5, <1>6, <1>7
  <2> QED BY <2>1, Zenon
<1> QED BY <1>8, <1>9, <1>10, <1>11, <1>12

-----------------------------------------------------------------------------
\* A score does not fall.
ScoreRises(old, new) == old \in Nat /\ new \in Nat /\ old <= new

\* What an improvement of d does to one of its positions.
Lifts(d, s) ==
    LET n == Len(SignalScale[s]) IN
    \/ signals[d][s] = 0 /\ signals'[d][s] = 0 /\ s \notin AlwaysMeasured
    \/ signals[d][s] \in 1 .. n /\ signals'[d][s] \in 1 .. n /\ signals[d][s] <= signals'[d][s]

\* The measurements of d are as before or better.
Better(d) ==
    \A s \in SignalNames :
        signals'[d][s] # signals[d][s] => 0 < signals[d][s] /\ signals[d][s] < signals'[d][s]

(* A better measurement is a later position of its scale.                  *)
LEMMA SignalsLift ==
    ASSUME SchedulerTypeOK, SchedulerTypeOK', NEW d \in TargetDevices, Better(d), NEW s \in SignalNames
    PROVE  Lifts(d, s)
<1>1. signals'[d][s] # signals[d][s] => 0 < signals[d][s] /\ signals[d][s] < signals'[d][s] BY DEF Better
<1>2. PICK n \in Nat : n = Len(SignalScale[s]) BY ScaleSizes
<1>3. signals[d][s] \in Positions(s) /\ signals'[d][s] \in Positions(s) BY DEF SchedulerTypeOK
<1>4. PICK p : p = signals[d][s] OBVIOUS
<1>5. PICK q : q = signals'[d][s] OBVIOUS
<1>6. p \in Nat /\ q \in Nat /\ p <= n /\ q <= n /\ (s \in AlwaysMeasured => p >= 1 /\ q >= 1)
  BY <1>2, <1>3, <1>4, <1>5 DEF Positions
<1>7. q # p => 0 < p /\ p < q BY <1>1, <1>4, <1>5
<1>8. \/ p = 0 /\ q = 0 /\ s \notin AlwaysMeasured
      \/ p \in 1 .. n /\ q \in 1 .. n /\ p <= q
  BY <1>6, <1>7
<1> QED BY <1>2, <1>4, <1>5, <1>8 DEF Lifts

(* cache warmth, locality, speed, affinity, free memory and free disk.     *)
LEMMA UpwardScores ==
    ASSUME SchedulerTypeOK, SchedulerTypeOK', NEW d \in TargetDevices, Better(d),
           NEW s \in {"cacheWarmth", "dataLocality", "historicalSpeed", "userAffinity", "freeMemory", "freeDisk"}
    PROVE  /\ Unmeasured(d, s)' = Unmeasured(d, s)
           /\ ~Unmeasured(d, s) => ScoreRises(Signal(d, s), Signal(d, s)')
           /\ ScoreRises(BoundedSignal(d, s), BoundedSignal(d, s)')
<1>1. s \in SignalNames BY ScaleSizes
<1>2. Lifts(d, s) BY <1>1, SignalsLift
<1>3. Ascends(Len(SignalScale[s]), SignalScale[s]) BY ScalesInOrder
<1>4. Unmeasured(d, s)' = Unmeasured(d, s) BY <1>2 DEF Lifts, Unmeasured
<1>5. ~Unmeasured(d, s) => ScoreRises(Signal(d, s), Signal(d, s)')
  BY <1>2, <1>3 DEF Lifts, Unmeasured, Ascends, Signal, ScoreRises
<1>6. ScoreRises(BoundedSignal(d, s), BoundedSignal(d, s)')
  BY <1>4, <1>5 DEF BoundedSignal, Lesser, ScoreRises, Unknown
<1> QED BY <1>4, <1>5, <1>6

(* load and transfer cost.                                                 *)
LEMMA DownwardSignals ==
    ASSUME SchedulerTypeOK, SchedulerTypeOK', NEW d \in TargetDevices, Better(d),
           NEW s \in {"cpuLoad", "transferCost"}
    PROVE  /\ Unmeasured(d, s)' = Unmeasured(d, s)
           /\ ~Unmeasured(d, s) => ScoreRises(Signal(d, s)', Signal(d, s))
<1>1. s \in SignalNames BY ScaleSizes
<1>2. Lifts(d, s) BY <1>1, SignalsLift
<1>3. Descends(Len(SignalScale[s]), SignalScale[s]) BY ScalesInOrder
<1>4. Unmeasured(d, s)' = Unmeasured(d, s) BY <1>2 DEF Lifts, Unmeasured
<1>5. ~Unmeasured(d, s) => ScoreRises(Signal(d, s)', Signal(d, s))
  BY <1>2, <1>3 DEF Lifts, Unmeasured, Descends, Signal, ScoreRises
<1> QED BY <1>4, <1>5

(* network, foreground and thermal state.                                  *)
LEMMA GradedScores ==
    ASSUME SchedulerTypeOK, SchedulerTypeOK', NEW d \in TargetDevices, Better(d),
           NEW s \in SignalNames, NEW grades,
           Ascends(Len(SignalScale[s]), GradesOf(s, grades))
    PROVE  ScoreRises(Graded(d, s, grades), Graded(d, s, grades)')
<1>1. Lifts(d, s) BY SignalsLift
<1>2. CASE Unmeasured(d, s)
  <2>1. Unmeasured(d, s)' BY <1>1, <1>2 DEF Lifts, Unmeasured
  <2> QED BY <1>2, <2>1 DEF Graded, ScoreRises, Unknown
<1>3. CASE ~Unmeasured(d, s)
  <2>1. ~Unmeasured(d, s)' BY <1>1, <1>3 DEF Lifts, Unmeasured
  <2>2. PICK n : n = Len(SignalScale[s]) OBVIOUS
  <2>3. signals[d][s] \in 1 .. n /\ signals'[d][s] \in 1 .. n /\ signals[d][s] <= signals'[d][s]
    BY <1>1, <1>3, <2>2 DEF Lifts, Unmeasured
  <2>4. /\ Graded(d, s, grades) = GradesOf(s, grades)[signals[d][s]]
        /\ Graded(d, s, grades)' = GradesOf(s, grades)[signals'[d][s]]
    BY <1>3, <2>1, <2>2, <2>3 DEF Graded, GradesOf, Signal
  <2>5. ScoreRises(GradesOf(s, grades)[signals[d][s]], GradesOf(s, grades)[signals'[d][s]])
    BY <2>2, <2>3 DEF Ascends, ScoreRises
  <2> QED BY <2>4, <2>5
<1> QED BY <1>2, <1>3

-----------------------------------------------------------------------------
\* A measurement of d got better, of a task and devices of the right types.
BetterStep(d) ==
    /\ SchedulerTypeOK /\ SchedulerTypeOK' /\ task' = task
    /\ d \in TargetDevices /\ Better(d)

(* idle_cpu_score                                                          *)
LEMMA IdleCpuRises ==
    ASSUME NEW d, BetterStep(d) PROVE ScoreRises(IdleCpuScore(d), IdleCpuScore(d)')
<1>1. /\ Unmeasured(d, "cpuLoad")' = Unmeasured(d, "cpuLoad")
      /\ ~Unmeasured(d, "cpuLoad") => ScoreRises(Signal(d, "cpuLoad")', Signal(d, "cpuLoad"))
  BY DownwardSignals DEF BetterStep
<1>2. CASE Unmeasured(d, "cpuLoad")
  BY <1>1, <1>2 DEF IdleCpuScore, ScoreRises, Unknown
<1>3. CASE ~Unmeasured(d, "cpuLoad")
  <2>1. PICK x : x = Signal(d, "cpuLoad") OBVIOUS
  <2>2. PICK y : y = Signal(d, "cpuLoad")' OBVIOUS
  <2>3. x \in Nat /\ y \in Nat /\ y <= x BY <1>1, <1>3, <2>1, <2>2 DEF ScoreRises
  <2>4. PICK cores \in Nat \ {0} : cores = IF Hardware[d].cores = 0 THEN 1 ELSE Hardware[d].cores
    BY SchedulerAssumption DEF BetterStep
  <2>5. PICK capacity \in Nat \ {0} : capacity = cores * 1000 OBVIOUS
  <2> DEFINE free(z) == (capacity - Lesser(z, capacity)) * 1000
  <2>6. free(x) \in Nat /\ free(y) \in Nat /\ free(x) <= free(y) BY <2>3 DEF Lesser
  <2>7. IdleCpuScore(d) = free(x) \div capacity /\ IdleCpuScore(d)' = free(y) \div capacity
    BY <1>1, <1>3, <2>1, <2>2, <2>4, <2>5 DEF IdleCpuScore
  <2> HIDE DEF free
  <2> QED BY <2>6, <2>7, DivGrows DEF ScoreRises
<1> QED BY <1>2, <1>3

(* free_memory_score                                                       *)
LEMMA FreeMemoryRises ==
    ASSUME NEW d, BetterStep(d) PROVE ScoreRises(FreeMemoryScore(d), FreeMemoryScore(d)')
<1>1. /\ Unmeasured(d, "freeMemory")' = Unmeasured(d, "freeMemory")
      /\ ~Unmeasured(d, "freeMemory") => ScoreRises(Signal(d, "freeMemory"), Signal(d, "freeMemory")')
  BY UpwardScores DEF BetterStep
<1>2. PICK whole \in Nat : whole = IF task.memory > 0 THEN task.memory ELSE Hardware[d].memory
  <2>1. task.memory \in Nat /\ Hardware[d].memory \in Nat
    BY SchedulerAssumption DEF BetterStep, SchedulerTypeOK
  <2> QED BY <2>1
<1>3. whole = IF task'.memory > 0 THEN task'.memory ELSE Hardware[d].memory BY <1>2 DEF BetterStep
<1>4. CASE Unmeasured(d, "freeMemory") \/ whole = 0
  BY <1>1, <1>2, <1>3, <1>4 DEF FreeMemoryScore, ScoreRises, Unknown
<1>5. CASE ~Unmeasured(d, "freeMemory") /\ whole # 0
  <2>1. PICK x : x = Signal(d, "freeMemory") OBVIOUS
  <2>2. PICK y : y = Signal(d, "freeMemory")' OBVIOUS
  <2>3. x \in Nat /\ y \in Nat /\ x <= y BY <1>1, <1>5, <2>1, <2>2 DEF ScoreRises
  <2> DEFINE free(z) == Lesser(z, whole) * 1000
  <2>6. free(x) \in Nat /\ free(y) \in Nat /\ free(x) <= free(y) BY <2>3 DEF Lesser
  <2>7. FreeMemoryScore(d) = free(x) \div whole /\ FreeMemoryScore(d)' = free(y) \div whole
    BY <1>1, <1>2, <1>3, <1>5, <2>1, <2>2 DEF FreeMemoryScore
  <2> HIDE DEF free
  <2> QED BY <1>5, <2>6, <2>7, DivGrows DEF ScoreRises
<1> QED BY <1>4, <1>5

(* transfer_cost_score                                                     *)
LEMMA TransferCostRises ==
    ASSUME NEW d, BetterStep(d) PROVE ScoreRises(TransferCostScore(d), TransferCostScore(d)')
<1>1. /\ Unmeasured(d, "transferCost")' = Unmeasured(d, "transferCost")
      /\ ~Unmeasured(d, "transferCost") => ScoreRises(Signal(d, "transferCost")', Signal(d, "transferCost"))
  BY DownwardSignals DEF BetterStep
<1>2. CASE Unmeasured(d, "transferCost")
  BY <1>1, <1>2 DEF TransferCostScore, ScoreRises, Unknown
<1>3. CASE ~Unmeasured(d, "transferCost")
  <2>1. PICK x : x = Signal(d, "transferCost") OBVIOUS
  <2>2. PICK y : y = Signal(d, "transferCost")' OBVIOUS
  <2>3. x \in Nat /\ y \in Nat /\ y <= x BY <1>1, <1>3, <2>1, <2>2 DEF ScoreRises
  <2> DEFINE penalty(z) == (Lesser(z, 8192) * 1000) \div 8192
  <2>4. penalty(x) \in 0 .. 1000 /\ penalty(y) \in 0 .. 1000 /\ penalty(y) <= penalty(x)
    <3> DEFINE u == Lesser(x, 8192)
               v == Lesser(y, 8192)
    <3>1. u \in Nat /\ v \in Nat /\ v <= u /\ u <= 8192 BY <2>3 DEF Lesser
    <3> HIDE DEF u, v
    <3>2. u * 1000 \in Nat /\ v * 1000 \in Nat /\ v * 1000 <= u * 1000 /\ u * 1000 <= 8192000 BY <3>1
    <3>3. 8192000 \div 8192 = 1000 OBVIOUS
    <3>4. /\ (v * 1000) \div 8192 <= (u * 1000) \div 8192 /\ (u * 1000) \div 8192 <= 8192000 \div 8192
          /\ (v * 1000) \div 8192 \in Nat /\ (u * 1000) \div 8192 \in Nat
      BY <3>2, DivGrows
    <3>5. /\ (v * 1000) \div 8192 \in 0 .. 1000 /\ (u * 1000) \div 8192 \in 0 .. 1000 BY <3>3, <3>4
    <3> QED BY <3>4, <3>5 DEF u, v
  <2>5. TransferCostScore(d) = 1000 - penalty(x) /\ TransferCostScore(d)' = 1000 - penalty(y)
    BY <1>1, <1>3, <2>1, <2>2 DEF TransferCostScore, TransferPenalty
  <2> HIDE DEF penalty
  <2>6. \A p, q \in 0 .. 1000 : p <= q => 1000 - q \in Nat /\ 1000 - p \in Nat /\ 1000 - q <= 1000 - p
    OBVIOUS
  <2>7. PICK p : p = penalty(y) OBVIOUS
  <2>8. PICK q : q = penalty(x) OBVIOUS
  <2>9. p \in 0 .. 1000 /\ q \in 0 .. 1000 /\ p <= q BY <2>4, <2>7, <2>8
  <2>10. 1000 - q \in Nat /\ 1000 - p \in Nat /\ 1000 - q <= 1000 - p BY <2>6, <2>9
  <2> QED BY <2>5, <2>7, <2>8, <2>10 DEF ScoreRises
<1> QED BY <1>2, <1>3

(* power_preference_score                                                  *)
LEMMA PowerRises ==
    ASSUME NEW d, BetterStep(d) PROVE ScoreRises(PowerPreferenceScore(d), PowerPreferenceScore(d)')
<1>1. Len(SignalScale["lowPower"]) = 2 /\ Len(SignalScale["power"]) = 2 BY DEF SignalScale
<1>2. Lifts(d, "lowPower") /\ Lifts(d, "power")
  <2>1. "lowPower" \in SignalNames /\ "power" \in SignalNames BY ScaleSizes
  <2> QED BY <2>1, SignalsLift DEF BetterStep
<1>3. /\ SignalScale["lowPower"][1] = TRUE /\ SignalScale["lowPower"][2] = FALSE
      /\ SignalScale["power"][1] = "battery" /\ SignalScale["power"][2] = "ac"
  BY DEF SignalScale
<1>4. /\ signals[d]["lowPower"] \in {1, 2} /\ signals'[d]["lowPower"] \in {1, 2}
      /\ signals[d]["lowPower"] <= signals'[d]["lowPower"]
  BY <1>1, <1>2 DEF Lifts, AlwaysMeasured
<1>5. \/ signals[d]["power"] = 0 /\ signals'[d]["power"] = 0
      \/ signals[d]["power"] \in {1, 2} /\ signals'[d]["power"] \in {1, 2} /\ signals[d]["power"] <= signals'[d]["power"]
  BY <1>1, <1>2 DEF Lifts
<1> DEFINE power(p) == [ac |-> 1000, battery |-> 350][SignalScale["power"][p]]
<1>6. power(1) = 350 /\ power(2) = 1000 BY <1>3
<1> HIDE DEF power
<1> DEFINE score(l, p) == IF l = 1 THEN 250 ELSE IF p = 0 THEN 700 ELSE power(p)
<1>7. /\ PowerPreferenceScore(d) = score(signals[d]["lowPower"], signals[d]["power"])
      /\ PowerPreferenceScore(d)' = score(signals'[d]["lowPower"], signals'[d]["power"])
  BY <1>3, <1>4 DEF PowerPreferenceScore, Unmeasured, Signal, power
<1>8. \A l, m \in {1, 2}, p, q \in {0, 1, 2} :
        (l <= m /\ p <= q /\ (p = 0 <=> q = 0)) => ScoreRises(score(l, p), score(m, q))
  BY <1>6 DEF ScoreRises
<1> HIDE DEF score
<1> QED BY <1>4, <1>5, <1>7, <1>8

(* None of the eleven component scores falls.                              *)
LEMMA ComponentsRise ==
    ASSUME NEW d, BetterStep(d)
    PROVE  \A i \in 1 .. 11 : ScoreRises(ComponentScores(d)[i], ComponentScores(d)'[i])
<1>1. d \in TargetDevices /\ SchedulerTypeOK /\ SchedulerTypeOK' /\ Better(d) BY DEF BetterStep
<1>2. \A s \in {"cacheWarmth", "dataLocality", "historicalSpeed", "userAffinity"} :
         ScoreRises(BoundedSignal(d, s), BoundedSignal(d, s)')
  BY <1>1, UpwardScores
<1>3. /\ ScoreRises(Graded(d, "network", NetworkGrades), Graded(d, "network", NetworkGrades)')
      /\ ScoreRises(Graded(d, "foreground", ForegroundGrades), Graded(d, "foreground", ForegroundGrades)')
      /\ ScoreRises(Graded(d, "thermal", ThermalGrades), Graded(d, "thermal", ThermalGrades)')
  <2>1. {"network", "foreground", "thermal"} \subseteq SignalNames BY ScaleSizes
  <2>2. ScoreRises(Graded(d, "network", NetworkGrades), Graded(d, "network", NetworkGrades)')
    BY <1>1, <2>1, ScalesInOrder, GradedScores
  <2>3. ScoreRises(Graded(d, "foreground", ForegroundGrades), Graded(d, "foreground", ForegroundGrades)')
    BY <1>1, <2>1, ScalesInOrder, GradedScores
  <2>4. ScoreRises(Graded(d, "thermal", ThermalGrades), Graded(d, "thermal", ThermalGrades)')
    BY <1>1, <2>1, ScalesInOrder, GradedScores
  <2> QED BY <2>2, <2>3, <2>4
<1>4. PICK a : a = ComponentScores(d) OBVIOUS
<1>5. PICK b : b = ComponentScores(d)' OBVIOUS
<1>6. /\ ScoreRises(a[1], b[1]) /\ ScoreRises(a[5], b[5]) /\ ScoreRises(a[7], b[7]) /\ ScoreRises(a[8], b[8])
  BY <1>2, <1>4, <1>5 DEF ComponentScores
<1>7. ScoreRises(a[6], b[6]) /\ ScoreRises(a[10], b[10]) /\ ScoreRises(a[11], b[11])
  BY <1>3, <1>4, <1>5 DEF ComponentScores
<1>8. ScoreRises(a[2], b[2]) /\ ScoreRises(a[3], b[3]) /\ ScoreRises(a[4], b[4]) /\ ScoreRises(a[9], b[9])
  BY <1>4, <1>5, IdleCpuRises, FreeMemoryRises, PowerRises, TransferCostRises DEF ComponentScores
<1>9. 1 .. 11 = {1, 2, 3, 4, 5, 6, 7, 8, 9, 10, 11} OBVIOUS
<1>10. \A i \in 1 .. 11 : ScoreRises(a[i], b[i]) BY <1>6, <1>7, <1>8, <1>9
<1> QED BY <1>4, <1>5, <1>10

(* The weights of every class are positive.                                *)
LEMMA WeightsArePositive ==
    \A class \in DOMAIN Weights : Weights[class] \in [1 .. 11 -> Nat] /\ Weights[class][11] > 0
<1>1. DOMAIN Weights = {"interactive", "test", "build", "batch"} BY DEF Weights
<1>2. /\ Weights["interactive"] \in [1 .. 11 -> Nat] /\ Weights["interactive"][11] > 0
      /\ Weights["test"] \in [1 .. 11 -> Nat] /\ Weights["test"][11] > 0
      /\ Weights["build"] \in [1 .. 11 -> Nat] /\ Weights["build"][11] > 0
      /\ Weights["batch"] \in [1 .. 11 -> Nat] /\ Weights["batch"][11] > 0
  BY DEF Weights
<1> QED BY <1>1, <1>2, Zenon

(* A total with a positive last number is not zero: no division by zero.   *)
LEMMA TotalIsPositive ==
    ASSUME NEW n \in Nat \ {0}, NEW numbers \in [1 .. n -> Nat], numbers[n] > 0
    PROVE  Total(numbers) \in Nat \ {0}
<1>1. PICK sum : SumsUp(numbers, sum) /\ Total(numbers) = sum[n] BY TotalUnfolds
<1>2. Len(numbers) = n BY DEF Len
<1>3. sum[n] = sum[n - 1] + numbers[n] /\ sum[n - 1] \in Nat /\ numbers[n] \in Nat
  BY <1>1, <1>2 DEF SumsUp
<1> QED BY <1>1, <1>3

(* The weighted mean, rounded down and cut off at 1000, does not fall.     *)
LEMMA ScoreGrows ==
    ASSUME NEW d, BetterStep(d) PROVE ScoreRises(Score(d), Score(d)')
<1>1. TaskClass \in DOMAIN Weights /\ TaskClass' = TaskClass BY DEF TaskClass, Weights, BetterStep
<1>2. PICK weights \in [1 .. 11 -> Nat] : weights = Weights[TaskClass] /\ weights[11] > 0
  BY <1>1, WeightsArePositive
<1>3. PICK t \in Nat \ {0} : t = Total(weights)
  <2>1. 11 \in Nat \ {0} OBVIOUS
  <2>2. Total(weights) \in Nat \ {0} BY <1>2, <2>1, TotalIsPositive
  <2> QED BY <2>2
<1>4. PICK a : a = ComponentScores(d) OBVIOUS
<1>5. PICK b : b = ComponentScores(d)' OBVIOUS
<1>6. \A i \in 1 .. 11 : ScoreRises(a[i], b[i]) BY <1>4, <1>5, ComponentsRise
<1> DEFINE old == [i \in 1 .. 11 |-> a[i] * weights[i]]
           new == [i \in 1 .. 11 |-> b[i] * weights[i]]
<1>7. \A i \in 1 .. 11 : old[i] \in Nat /\ new[i] \in Nat /\ old[i] <= new[i]
  <2> SUFFICES ASSUME NEW i \in 1 .. 11 PROVE old[i] \in Nat /\ new[i] \in Nat /\ old[i] <= new[i] OBVIOUS
  <2>1. PICK x, y, w \in Nat : x = a[i] /\ y = b[i] /\ w = weights[i] /\ x <= y BY <1>6 DEF ScoreRises
  <2>2. x * w \in Nat /\ y * w \in Nat /\ x * w <= y * w BY <2>1, TimesGrows
  <2> QED BY <2>1, <2>2
<1>8. old \in [1 .. 11 -> Nat] /\ new \in [1 .. 11 -> Nat] BY <1>7
<1>9. DOMAIN Components = 1 .. 11 BY DEF Components
<1>10. /\ Score(d) = Lesser(Total(old) \div t, 1000)
       /\ Score(d)' = Lesser(Total(new) \div t, 1000)
  BY <1>1, <1>2, <1>3, <1>4, <1>5, <1>9 DEF Score
<1> HIDE DEF old, new
<1>11. Total(old) \in Nat /\ Total(new) \in Nat /\ Total(old) <= Total(new) BY <1>7, <1>8, TotalGrows
<1>12. /\ Total(old) \div t \in Nat /\ Total(new) \div t \in Nat
       /\ Total(old) \div t <= Total(new) \div t
  BY <1>11, DivGrows
<1> QED BY <1>10, <1>12 DEF Lesser, ScoreRises

(* No constraint rejects a device for a better measurement.                *)
LEMMA EligibleStays ==
    ASSUME NEW d, BetterStep(d), Eligible(d) PROVE Eligible(d)'
<1>1. d \in TargetDevices /\ SchedulerTypeOK /\ SchedulerTypeOK' /\ Better(d) /\ task' = task
  BY DEF BetterStep
<1>2. Signal(d, "allowTaskExecution")'
  <2>1. "allowTaskExecution" \in SignalNames BY ScaleSizes
  <2>2. Lifts(d, "allowTaskExecution") BY <1>1, <2>1, SignalsLift
  <2>3. /\ Len(SignalScale["allowTaskExecution"]) = 2
        /\ SignalScale["allowTaskExecution"][1] = FALSE /\ SignalScale["allowTaskExecution"][2] = TRUE
    BY DEF SignalScale
  <2>4. SignalScale["allowTaskExecution"][signals[d]["allowTaskExecution"]] BY DEF Eligible, Signal
  <2>5. /\ signals[d]["allowTaskExecution"] \in {1, 2} /\ signals'[d]["allowTaskExecution"] \in {1, 2}
        /\ signals[d]["allowTaskExecution"] <= signals'[d]["allowTaskExecution"]
    BY <2>2, <2>3 DEF Lifts, AlwaysMeasured
  <2>6. signals'[d]["allowTaskExecution"] = 2 BY <2>3, <2>4, <2>5
  <2> QED BY <2>3, <2>6 DEF Signal
<1>3. ASSUME NEW s \in {"freeMemory", "freeDisk"}, NEW required \in Nat, NEW capacity \in Nat,
             ~Insufficient(required, d, s, capacity)
      PROVE  ~Insufficient(required, d, s, capacity)'
  <2>1. /\ Unmeasured(d, s)' = Unmeasured(d, s)
        /\ ~Unmeasured(d, s) => ScoreRises(Signal(d, s), Signal(d, s)')
    BY <1>1, UpwardScores
  <2>2. PICK x : x = Signal(d, s) OBVIOUS
  <2>3. PICK y : y = Signal(d, s)' OBVIOUS
  <2>4. ~Unmeasured(d, s) => x \in Nat /\ y \in Nat /\ x <= y BY <2>1, <2>2, <2>3 DEF ScoreRises
  <2> QED BY <1>3, <2>1, <2>2, <2>3, <2>4 DEF Insufficient
<1>4. /\ task.memory \in Nat /\ task.disk \in Nat
      /\ Hardware[d].memory \in Nat /\ Hardware[d].disk \in Nat
  BY <1>1, SchedulerAssumption DEF SchedulerTypeOK
<1>5. task.memory > 0 => ~Insufficient(task.memory, d, "freeMemory", Hardware[d].memory)'
  <2> SUFFICES ASSUME task.memory > 0
               PROVE  ~Insufficient(task.memory, d, "freeMemory", Hardware[d].memory)'
    OBVIOUS
  <2>1. PICK required \in Nat : required = task.memory /\ required = task'.memory BY <1>1, <1>4
  <2>2. ~Insufficient(required, d, "freeMemory", Hardware[d].memory) BY <2>1 DEF Eligible
  <2>3. ~Insufficient(required, d, "freeMemory", Hardware[d].memory)' BY <1>3, <1>4, <2>2
  <2> QED BY <2>1, <2>3 DEF Insufficient
<1>6. task.disk > 0 => ~Insufficient(task.disk, d, "freeDisk", Hardware[d].disk)'
  <2> SUFFICES ASSUME task.disk > 0
               PROVE  ~Insufficient(task.disk, d, "freeDisk", Hardware[d].disk)'
    OBVIOUS
  <2>1. PICK required \in Nat : required = task.disk /\ required = task'.disk BY <1>1, <1>4
  <2>2. ~Insufficient(required, d, "freeDisk", Hardware[d].disk) BY <2>1 DEF Eligible
  <2>3. ~Insufficient(required, d, "freeDisk", Hardware[d].disk)' BY <1>3, <1>4, <2>2
  <2> QED BY <2>1, <2>3 DEF Insufficient
<1> QED BY <1>1, <1>2, <1>5, <1>6 DEF Eligible

(* A device whose signals do not change is scored as before.               *)
LEMMA OthersAsBefore ==
    ASSUME NEW o, task' = task, signals'[o] = signals[o]
    PROVE  Score(o)' = Score(o) /\ Eligible(o)' = Eligible(o)
<1>1. \A s : Unmeasured(o, s)' = Unmeasured(o, s) /\ Signal(o, s)' = Signal(o, s)
  BY DEF Unmeasured, Signal
<1>2. TaskClass' = TaskClass BY DEF TaskClass
<1>3. ComponentScores(o)' = ComponentScores(o)
  BY <1>1 DEF ComponentScores, BoundedSignal, IdleCpuScore, FreeMemoryScore, PowerPreferenceScore,
              Graded, TransferCostScore, TransferPenalty
<1>4. Score(o)' = Score(o)
  <2>1. PICK a : a = ComponentScores(o) /\ a = ComponentScores(o)' BY <1>3
  <2> QED BY <1>2, <2>1 DEF Score
<1>5. Eligible(o)' = Eligible(o) BY <1>1 DEF Eligible, Insufficient
<1> QED BY <1>4, <1>5

(* An improvement lets the device only gain on the others.                 *)
LEMMA ImprovedIsSelected ==
    ASSUME SchedulerTypeOK, SchedulerTypeOK', task' = task,
           NEW d \in TargetDevices, Improves(d), Selected = {d}
    PROVE  Selected' = {d}
<1>1. Better(d) /\ \A o \in TargetDevices \ {d} : signals'[o] = signals[o] /\ Better(o)
  BY DEF Improves, Better
<1>2. \A o \in TargetDevices : BetterStep(o) BY <1>1 DEF BetterStep
<1>3. \A o \in TargetDevices : ScoreRises(Score(o), Score(o)') BY <1>2, ScoreGrows
<1>4. \A o \in TargetDevices \ {d} : Score(o)' = Score(o) /\ Eligible(o)' = Eligible(o)
  BY <1>1, OthersAsBefore
<1> DEFINE score == [o \in TargetDevices |-> IF Eligible(o) THEN Score(o) ELSE 0]
           late == [o \in TargetDevices |-> IF Eligible(o)' THEN Score(o)' ELSE 0]
           Ahead(f, i, o) == f[o] < f[i] \/ (f[o] = f[i] /\ i < o)
<1>5. Selected = {i \in TargetDevices : /\ Eligible(i)
                      /\ \A o \in TargetDevices \ {i} : Eligible(o) => Ahead(score, i, o)}
  BY DEF Selected
<1>6. Selected' = {i \in TargetDevices : /\ Eligible(i)'
                      /\ \A o \in TargetDevices \ {i} : Eligible(o)' => Ahead(late, i, o)}
  BY DEF Selected
<1>7. Eligible(d) /\ \A o \in TargetDevices \ {d} : Eligible(o) => Ahead(score, d, o) BY <1>5
<1>8. Eligible(d)' BY <1>2, <1>7, EligibleStays
<1>9. \A o \in TargetDevices : Eligible(o) => score[o] = Score(o) OBVIOUS
<1>10. \A o \in TargetDevices : Eligible(o)' => late[o] = Score(o)' OBVIOUS
<1>11. \A o \in TargetDevices \ {d} : Eligible(o)' => late[o] = score[o] BY <1>4, <1>9, <1>10
<1>12. late[d] >= score[d] /\ late[d] \in Nat /\ score[d] \in Nat
       /\ \A o \in TargetDevices : Eligible(o)' => late[o] \in Nat
  BY <1>3, <1>7, <1>8, <1>9, <1>10 DEF ScoreRises
<1> HIDE DEF score, late
<1>13. ASSUME NEW o \in TargetDevices \ {d}, Eligible(o)' PROVE Ahead(late, d, o) /\ ~Ahead(late, o, d)
  <2>1. Ahead(score, d, o) /\ late[o] = score[o] /\ late[o] \in Nat BY <1>4, <1>7, <1>11, <1>12, <1>13
  <2>2. d \in Nat /\ o \in Nat BY SchedulerAssumption
  <2> QED BY <1>12, <2>1, <2>2
<1>14. d \in Selected' BY <1>6, <1>8, <1>13
<1>15. ASSUME NEW o \in Selected', o # d PROVE FALSE
  <2>1. o \in TargetDevices \ {d} /\ Eligible(o)' /\ Ahead(late, o, d) BY <1>6, <1>8, <1>15
  <2> QED BY <1>13, <2>1
<1> QED BY <1>14, <1>15

\* For any devices, hardware and task, and whatever was measured before: the
\* device that select_scheduler_target has chosen stays chosen when one of its
\* own measurements gets better.
THEOREM BetterSignalsKeepTheTaskAlways == SchedulerSpec => BetterSignalsKeepTheTask
<1>1. SchedulerTypeOK /\ SchedulerTypeOK' /\ [SchedulerNext]_schedulerVars
        => [\A d \in TargetDevices : Improves(d) /\ Selected = {d} => Selected' = {d}]_schedulerVars
  <2> SUFFICES ASSUME SchedulerTypeOK, SchedulerTypeOK', SchedulerNext,
                      NEW d \in TargetDevices, Improves(d), Selected = {d}
               PROVE  Selected' = {d}
    OBVIOUS
  <2>1. task' = task BY DEF SchedulerNext, MeasureSignal
  <2> QED BY <2>1, ImprovedIsSelected
<1> QED BY <1>1, SchedulerTypeInit, SchedulerTypeStep, PTL DEF SchedulerSpec, BetterSignalsKeepTheTask
=============================================================================
