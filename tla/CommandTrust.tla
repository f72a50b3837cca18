---------------------------- MODULE CommandTrust ----------------------------
(* The table command_trust_approvals of one project, device and command     *)
(* scope: decisions about command hashes, and calls that ask whether a      *)
(* command may run. A call evaluates and, for an allow-once decision,       *)
(* consumes it in a statement of its own. The row's audit event is written  *)
(* in the same transaction as the row and is left out.                      *)
EXTENDS Naturals, Sequences

CONSTANTS Hashes,        \* command hashes of the scope
          TrustCallers,  \* calls of authorize_command_trust_at
          MaxDecisions   \* bound: rows of the table

ASSUME TrustAssumption == MaxDecisions \in Nat

VARIABLES decisions,  \* the rows, in the order of created_at and approval_id
          trustCall   \* caller -> what it knows and what it was answered

trustVars == <<decisions, trustCall>>

DecisionKinds == {"allow-once", "trust-this-version", "reject"}
Approved == {"approved_once", "trusted"}

TrustInit ==
    /\ decisions = <<>>
    /\ trustCall = [c \in TrustCallers |-> [at |-> "idle"]]

RecordDecision(h, k) ==
    /\ Len(decisions) < MaxDecisions
    /\ decisions' = Append(decisions, [hash |-> h, kind |-> k, consumed |-> FALSE])
    /\ UNCHANGED trustCall

(* The row ORDER BY created_at DESC, approval_id DESC LIMIT 1 finds; 0 if none. *)
LatestDecision(hs) ==
    LET rows == {i \in DOMAIN decisions : decisions[i].hash \in hs}
    IN  IF rows = {} THEN 0 ELSE CHOOSE i \in rows : \A j \in rows : j <= i

(* A consumed allow-once decides nothing; a decision about another hash of the *)
(* scope only tells "changed" from "unapproved".                               *)
EvaluateCommandTrust(h) ==
    LET own == LatestDecision({h})
        any == LatestDecision(Hashes)
        spent == own = 0 \/ decisions[own].consumed
    IN  CASE ~spent /\ decisions[own].kind = "allow-once" ->
                 [status |-> "approved_once", by |-> own]
          [] own # 0 /\ decisions[own].kind = "trust-this-version" ->
                 [status |-> "trusted", by |-> own]
          [] own # 0 /\ decisions[own].kind = "reject" ->
                 [status |-> "rejected", by |-> own]
          [] spent /\ any # 0 /\ decisions[any].hash # h ->
                 [status |-> "changed", by |-> any]
          [] OTHER -> [status |-> "unapproved", by |-> 0]

Answer(c, h, from, took, e) ==
    trustCall' = [trustCall EXCEPT ![c] =
        [at |-> "answered", hash |-> h, from |-> from, took |-> took,
         status |-> e.status, by |-> e.by]]

AuthorizeStarts(c, h) ==
    /\ trustCall[c].at = "idle"
    /\ LET e == EvaluateCommandTrust(h)
       IN  IF e.status = "approved_once"
           THEN trustCall' = [trustCall EXCEPT ![c] =
                    [at |-> "consuming", hash |-> h, by |-> e.by, from |-> Len(decisions)]]
           ELSE Answer(c, h, Len(decisions), FALSE, e)
    /\ UNCHANGED decisions

\* Mutant: the UPDATE without its IS NULL.
ConsumesUnconditionally(c) ==
    LET call == trustCall[c]
    IN  /\ call.at = "consuming"
        /\ decisions' = [decisions EXCEPT ![call.by].consumed = TRUE]
        /\ Answer(c, call.hash, call.from, TRUE,
                  [status |-> "approved_once", by |-> call.by])

(* UPDATE ... WHERE approval_id = ? AND consumed_at_unix_seconds IS NULL *)
AuthorizeConsumes(c) ==
    LET call == trustCall[c]
    IN  /\ call.at = "consuming"
        /\ IF decisions[call.by].consumed
           THEN /\ trustCall' = [trustCall EXCEPT ![c].at = "again"]
                /\ UNCHANGED decisions
           ELSE /\ decisions' = [decisions EXCEPT ![call.by].consumed = TRUE]
                /\ Answer(c, call.hash, call.from, TRUE,
                          [status |-> "approved_once", by |-> call.by])

(* The row was consumed meanwhile: the answer is a second evaluation, which *)
(* consumes nothing.                                                        *)
AuthorizeEvaluatesAgain(c) ==
    LET call == trustCall[c]
    IN  /\ call.at = "again"
        /\ Answer(c, call.hash, call.from, FALSE, EvaluateCommandTrust(call.hash))
        /\ UNCHANGED decisions

TrustNext ==
    \/ \E h \in Hashes, k \in DecisionKinds : RecordDecision(h, k)
    \/ \E c \in TrustCallers : \E h \in Hashes : AuthorizeStarts(c, h)
    \/ \E c \in TrustCallers : AuthorizeConsumes(c) \/ AuthorizeEvaluatesAgain(c)

TrustSpec == TrustInit /\ [][TrustNext]_trustVars

(* However calls and decisions interleave, no allow-once row is consumed by *)
(* two calls, and an approval rests on a decision about the same hash that  *)
(* was the newest one when the call began or came later: a rejection that   *)
(* was there before the call is never passed over                           *)
(* (authorize_command_trust_at and evaluate_command_trust).                 *)
ApprovalsAreSpentAndCurrent ==
    LET answered == {c \in TrustCallers : trustCall[c].at = "answered"}
    IN  /\ \A c, d \in answered :
              c # d /\ trustCall[c].took /\ trustCall[d].took
                  => trustCall[c].by # trustCall[d].by
        /\ \A c \in answered : trustCall[c].status \in Approved =>
              LET by == trustCall[c].by
              IN  /\ decisions[by].hash = trustCall[c].hash
                  /\ decisions[by].kind # "reject"
                  /\ \A i \in (by + 1)..trustCall[c].from :
                        decisions[i].hash # decisions[by].hash
=============================================================================
