---------------------------- MODULE SingleWriter ----------------------------
(***************************************************************************)
(* What the lease promises its users, without handoffs, journals, clocks   *)
(* or transactions: each lease has one writer and a fencing epoch; only    *)
(* the writer moves the canonical latest, and only while the lease is      *)
(* open; the writer changes only while the lease is closed, together with  *)
(* the epoch; whatever was stored stays stored; a barred device neither    *)
(* becomes a writer nor moves latest.                                      *)
(***************************************************************************)
EXTENDS Naturals

CONSTANTS Devices, Leases, Snapshots, None, InitEpoch

VARIABLES writer, epoch, latest, open, kept, barred

vars == <<writer, epoch, latest, open, kept, barred>>

Init ==
    /\ writer \in [Leases -> Devices]
    /\ epoch = [l \in Leases |-> InitEpoch]
    /\ latest = [l \in Leases |-> None]
    /\ open \in [Leases -> BOOLEAN]
    /\ kept = {}
    /\ barred = {}

Close(l) ==
    /\ open[l]
    /\ open' = [open EXCEPT ![l] = FALSE]
    /\ UNCHANGED <<writer, epoch, latest, kept, barred>>

Reopen(l) ==
    /\ ~ open[l]
    /\ open' = [open EXCEPT ![l] = TRUE]
    /\ UNCHANGED <<writer, epoch, latest, kept, barred>>

PassOn(l, d) ==
    /\ ~ open[l]
    /\ d \notin barred
    /\ writer' = [writer EXCEPT ![l] = d]
    /\ epoch' = [epoch EXCEPT ![l] = @ + 1]
    /\ open' = [open EXCEPT ![l] = TRUE]
    /\ UNCHANGED <<latest, kept, barred>>

Advance(l, s) ==
    /\ open[l]
    /\ writer[l] \notin barred
    /\ s \notin kept
    /\ latest' = [latest EXCEPT ![l] = s]
    /\ kept' = kept \cup {s}
    /\ UNCHANGED <<writer, epoch, open, barred>>

KeepAside(s) ==
    /\ s \notin kept
    /\ kept' = kept \cup {s}
    /\ UNCHANGED <<writer, epoch, latest, open, barred>>

Bar(d) ==
    /\ barred' = barred \cup {d}
    /\ UNCHANGED <<writer, epoch, latest, open, kept>>

Next ==
    \/ \E l \in Leases : \/ Close(l) \/ Reopen(l)
                         \/ \E d \in Devices : PassOn(l, d)
                         \/ \E s \in Snapshots : Advance(l, s)
    \/ \E s \in Snapshots : KeepAside(s)
    \/ \E d \in Devices : Bar(d)

Spec == Init /\ [][Next]_vars
=============================================================================
