-------------------------- MODULE AgentHandoffProofs --------------------------
(* Theorems about AgentHandoff for any number of devices, leases, handoffs, *)
(* threads of the agent and edits, with their proofs.                       *)
EXTENDS AgentHandoff, LeaseHandoffProofs

-----------------------------------------------------------------------------
(* Types.  A call of a thread has one of a few shapes.                     *)

Mutation == [op : MutateOps \cup {"begin", "continue"}, pc : {"mutate", "recover", "publish", "step"},
             handoff : Handoffs, generation : Generations, previous : HandoffStates,
             next : HandoffStates, then : {"return", "continue"}]
Preparation ==
    [op : {"prepare"}, pc : {"checkpoint"}, lease : Leases, target : Devices]
    \cup [op : {"prepare"}, pc : {"begin"}, lease : Leases, target : Devices, generation : 0 .. MaxEdits]
Listed == [handoff : Handoffs, previous : HandoffStates]
Report ==
    [op : {"edit"}, pc : {"list"}, edit : 0 .. MaxEdits]
    \cup [op : {"edit"}, pc : {"abort"}, edit : 0 .. MaxEdits, todo : SUBSET Listed]
    \cup [op : {"edit"}, pc : {"publish", "abort"}, edit : 0 .. MaxEdits, todo : SUBSET Listed,
          handoff : Handoffs, previous : HandoffStates, next : HandoffStates, then : {"edit"}]
Call == Mutation \cup Preparation \cup Report \cup {NoCall}

CallsOK == calls \in [Threads -> Call]
WorkOK ==
    /\ edits \in 0 .. MaxEdits /\ work \in 0 .. MaxEdits /\ told \in 0 .. MaxEdits
    /\ store \subseteq 0 .. MaxEdits
    /\ begun \in [Handoffs -> 0 .. MaxEdits]
EventsOK ==
    /\ events \in Seq([handoff : Handoffs, state : HandoffStates])
    /\ boot \in [Handoffs -> HandoffStates]
AgentTypeOK == TypeOK /\ CallsOK /\ WorkOK /\ EventsOK

\* Where a call is tells which shape it has.
LEMMA CallShapes ==
  ASSUME CallsOK, NEW t \in Threads
  PROVE  /\ At(t, "mutate") \/ At(t, "recover") \/ At(t, "step") => calls[t] \in Mutation
         /\ At(t, "publish") => calls[t] \in Mutation \/ calls[t] \in Report
         /\ At(t, "publish") /\ calls[t].then # "edit" => calls[t] \in Mutation
         /\ At(t, "publish") /\ calls[t].then = "edit" => calls[t] \in Report
         /\ At(t, "checkpoint") \/ At(t, "begin") => calls[t] \in Preparation
         /\ At(t, "list") \/ At(t, "abort") => calls[t] \in Report
<1>1. calls[t] \in Call
  BY DEF CallsOK
<1>2. QED
  BY <1>1 DEF Call, At, Mutation, Preparation, Report

\* The state of a handoff's row, or that there is none.
LEMMA StateType ==
  ASSUME TypeOK, NEW h \in Handoffs
  PROVE  /\ handoffs[h].state \in HandoffStates
         /\ handoffs[h].state # "Absent" => handoffs[h].generation \in Generations
BY DEF TypeOK, Handoff, NoHandoff, HandoffStates

\* A call that a thread takes up keeps the calls well-typed.
LEMMA BecomeType ==
  ASSUME CallsOK, NEW t \in Threads, NEW call \in Call, Become(t, call)
  PROVE  CallsOK'
BY DEF CallsOK, Become

\* A handler's read of the handoff, whatever it is to do with it.
LEMMA StartType ==
  ASSUME AgentTypeOK, NEW t \in Threads, NEW op \in MutateOps, NEW h \in Handoffs, NEW g \in Generations,
         NEW then \in {"return", "continue"}, StartMutation(t, op, h, g, then)
  PROVE  CallsOK'
<1>1. [op |-> op, pc |-> "mutate", handoff |-> h, generation |-> g, previous |-> handoffs[h].state,
       next |-> "Absent", then |-> then] \in Mutation
  BY StateType DEF AgentTypeOK, Mutation, HandoffStates
<1>2. QED
  BY <1>1, BecomeType DEF AgentTypeOK, StartMutation, Call

-----------------------------------------------------------------------------
(* The agent implements LeaseHandoff                                       *)

\* Every step of the agent is a step of the tables, or leaves them alone.
LEMMA AgentStepIsNext ==
  ASSUME AgentTypeOK, [AgentNext]_allVars
  PROVE  [Next]_vars
<1> USE DEF AgentTypeOK
<1>1. ASSUME NEW t \in Threads, MutationSucceeds(t) \/ MutationFails(t)
      PROVE  [Next]_vars
  <2>1. calls[t] \in Mutation
    BY <1>1, CallShapes DEF MutationSucceeds, MutationFails, Op
  <2>2. calls[t].handoff \in Handoffs /\ calls[t].generation \in Generations
    BY <2>1 DEF Mutation
  <2>3. QED
    BY <1>1, <2>2 DEF MutationSucceeds, MutationFails, AbortOrAborted, Next
<1>2. ASSUME NEW t \in Threads, RecoverStarts(t)
      PROVE  [Next]_vars
  <2>1. calls[t] \in Mutation
    BY <1>2, CallShapes DEF RecoverStarts, Op
  <2>2. calls[t].handoff \in Handoffs /\ calls[t].generation \in Generations
    BY <2>1 DEF Mutation
  <2>3. QED
    BY <1>2, <2>2 DEF RecoverStarts, Next, Threads
<1>3. ASSUME NEW t \in Threads, RecoverActs(t) \/ RecoverReturns(t) \/ RecoverForgotten(t)
      PROVE  [Next]_vars
  BY <1>3 DEF RecoverActs, RecoverReturns, RecoverForgotten, Next, Threads
<1>4. ASSUME NEW t \in Threads, NEW h \in Handoffs, NEW l \in Leases, NEW source \in Devices,
             NEW target \in Devices, NEW g \in Generations, BeginFor(t, h, l, source, target, g)
      PROVE  [Next]_vars
  BY <1>4 DEF BeginFor, Next
<1>5. ASSUME NEW t \in Threads, PrepareBegins(t)
      PROVE  [Next]_vars
  <2>1. calls[t] \in Preparation /\ calls[t].pc = "begin"
    BY <1>5, CallShapes DEF PrepareBegins, At
  <2>2. calls[t].lease \in Leases /\ calls[t].target \in Devices /\ calls[t].generation \in Generations
    BY <2>1, VersionAssumption DEF Preparation
  <2>3. QED
    BY <1>4, <1>5, <2>2, SelfAssumption DEF PrepareBegins
<1>6. ASSUME NEW t \in Threads, NEW h \in Handoffs, NEW l \in Leases, NEW target \in Devices,
             \/ \E source \in Devices, g \in Generations : HandleRemoteBegin(t, h, l, source, target, g)
             \/ EditorContinueElsewhere(t, h, l, target)
      PROVE  [Next]_vars
  BY <1>4, <1>6, SelfAssumption, VersionAssumption DEF HandleRemoteBegin, EditorContinueElsewhere
<1>7. ASSUME NEW t \in Threads, EditorAborts(t)
      PROVE  [Next]_vars
  <2>1. calls[t] \in Report /\ calls[t].pc = "abort"
    BY <1>7, CallShapes DEF EditorAborts, At
  <2>2. \A x \in calls[t].todo : x.handoff \in Handoffs
    BY <2>1 DEF Report, Listed
  <2>3. QED
    BY <1>7, <2>2 DEF EditorAborts, AbortOrAborted, Next
<1>8. CASE OutsideAgent
  BY <1>8, SelfAssumption DEF OutsideAgent, Next
<1>9. ASSUME NEW t \in Threads,
             \/ \E op \in MutateOps, h \in Handoffs, g \in Generations :
                  HandleLocalMutation(t, op, h, g) \/ HandleRemoteMutation(t, op, h, g)
             \/ PublishStateChanged(t)
             \/ \E l \in Leases, target \in Devices : PrepareStarts(t, l, target)
             \/ PrepareCheckpoints(t) \/ CommandStops(t)
             \/ \E h \in Handoffs : ContinueStarts(t, h)
             \/ ContinueApplies(t) \/ ContinueSourceReady(t) \/ ContinueCommits(t) \/ ContinueEnds(t)
             \/ EditorEdit(t) \/ EditorLists(t) \/ EditorFails(t) \/ EditorReturns(t)
      PROVE  UNCHANGED vars
  BY <1>9 DEF HandleLocalMutation, HandleRemoteMutation, PublishStateChanged, PrepareStarts,
     PrepareCheckpoints, CommandStops, ContinueStarts, ContinueApplies, ContinueSourceReady,
     ContinueCommits, ContinueEnds, EditorEdit, EditorLists, EditorFails, EditorReturns
<1>10. AgentRestarts \/ UNCHANGED allVars => UNCHANGED vars
  BY DEF AgentRestarts, allVars
<1>11. QED
  BY <1>1, <1>2, <1>3, <1>5, <1>6, <1>7, <1>8, <1>9, <1>10 DEF AgentNext

\* Every step of the agent keeps its calls well-typed.
LEMMA CallsStep ==
  ASSUME AgentTypeOK, TypeOK', [AgentNext]_allVars
  PROVE  CallsOK'
<1> USE DEF AgentTypeOK
<1>0. NoCall \in Call
  BY DEF Call
<1>1. ASSUME NEW t \in Threads, Finish(t)
      PROVE  CallsOK'
  BY <1>0, <1>1, BecomeType DEF Finish
<1>2. ASSUME NEW t \in Threads, NEW op \in MutateOps, NEW h \in Handoffs, NEW g \in Generations,
             HandleLocalMutation(t, op, h, g) \/ HandleRemoteMutation(t, op, h, g)
      PROVE  CallsOK'
  BY <1>2, StartType DEF HandleLocalMutation, HandleRemoteMutation
<1>3. ASSUME NEW t \in Threads, MutationSucceeds(t)
      PROVE  CallsOK'
  <2>1. calls[t] \in Mutation
    BY <1>3, CallShapes DEF MutationSucceeds, Op
  <2>2. handoffs'[calls[t].handoff].state \in HandoffStates
    BY <2>1 DEF Mutation, TypeOK, Handoff, NoHandoff, HandoffStates
  <2>3. [calls[t] EXCEPT !.pc = "publish", !.next = handoffs'[calls[t].handoff].state] \in Mutation
    BY <2>1, <2>2 DEF Mutation
  <2>4. QED
    BY <1>3, <2>3, BecomeType DEF MutationSucceeds, Call
<1>4. ASSUME NEW t \in Threads, MutationFails(t)
      PROVE  CallsOK'
  BY <1>1, <1>4 DEF MutationFails
<1>5. ASSUME NEW t \in Threads, RecoverStarts(t)
      PROVE  CallsOK'
  <2>1. calls[t] \in Mutation
    BY <1>5, CallShapes DEF RecoverStarts, Op
  <2>2. [calls[t] EXCEPT !.pc = "recover"] \in Mutation
    BY <2>1 DEF Mutation
  <2>3. QED
    BY <1>5, <2>2, BecomeType DEF RecoverStarts, Call
<1>6. ASSUME NEW t \in Threads, RecoverReturns(t)
      PROVE  CallsOK'
  <2>1. calls[t] \in Mutation
    BY <1>6, CallShapes DEF RecoverReturns
  <2>2. handoffs[calls[t].handoff].state \in HandoffStates
    BY <2>1, StateType DEF Mutation
  <2>3. [calls[t] EXCEPT !.pc = "publish", !.next = handoffs[calls[t].handoff].state] \in Mutation
    BY <2>1, <2>2 DEF Mutation
  <2>4. QED
    BY <1>1, <1>6, <2>3, BecomeType DEF RecoverReturns, Call
<1>7. ASSUME NEW t \in Threads, PublishStateChanged(t)
      PROVE  CallsOK'
  <2>1. CASE calls[t].then = "edit"
    <3>1. calls[t] \in Report /\ calls[t].pc = "publish"
      BY <1>7, <2>1, CallShapes DEF PublishStateChanged, At
    <3>2. [calls[t] EXCEPT !.op = "edit", !.pc = "abort"] \in Report
      BY <3>1 DEF Report
    <3>3. QED
      BY <1>7, <2>1, <3>2, BecomeType DEF PublishStateChanged, Call
  <2>2. CASE calls[t].then # "edit"
    <3>1. calls[t] \in Mutation
      BY <1>7, <2>2, CallShapes DEF PublishStateChanged
    <3>2. [calls[t] EXCEPT !.op = "continue", !.pc = "step"] \in Mutation
      BY <3>1 DEF Mutation
    <3>3. calls[t].then \in {"return", "continue"}
      BY <3>1 DEF Mutation
    <3>4. QED
      BY <1>1, <1>7, <3>2, <3>3, BecomeType DEF PublishStateChanged, Call
  <2>3. QED
    BY <2>1, <2>2
<1>8. ASSUME NEW t \in Threads, NEW h \in Handoffs, NEW l \in Leases, NEW source \in Devices,
             NEW target \in Devices, NEW g \in Generations, BeginFor(t, h, l, source, target, g)
      PROVE  CallsOK'
  <2>1. [op |-> "begin", pc |-> "publish", handoff |-> h, generation |-> g, previous |-> "Absent",
         next |-> "TargetPrepare", then |-> "return"] \in Mutation
    BY DEF Mutation, HandoffStates, PendingStates
  <2>2. QED
    BY <1>8, <2>1, BecomeType DEF BeginFor, Call
<1>9. ASSUME NEW t \in Threads, NEW h \in Handoffs, NEW l \in Leases, NEW target \in Devices,
             \/ \E source \in Devices, g \in Generations : HandleRemoteBegin(t, h, l, source, target, g)
             \/ EditorContinueElsewhere(t, h, l, target)
      PROVE  CallsOK'
  BY <1>8, <1>9, SelfAssumption, VersionAssumption DEF HandleRemoteBegin, EditorContinueElsewhere
<1>10. ASSUME NEW t \in Threads, NEW l \in Leases, NEW target \in Devices, PrepareStarts(t, l, target)
      PROVE  CallsOK'
  <2>1. [op |-> "prepare", pc |-> "checkpoint", lease |-> l, target |-> target] \in Preparation
    BY DEF Preparation
  <2>2. QED
    BY <1>10, <2>1, BecomeType DEF PrepareStarts, Call
<1>11. ASSUME NEW t \in Threads, PrepareCheckpoints(t)
      PROVE  CallsOK'
  <2>1. calls[t] \in Preparation
    BY <1>11, CallShapes DEF PrepareCheckpoints
  <2>2. [op |-> "prepare", pc |-> "begin", lease |-> calls[t].lease, target |-> calls[t].target,
         generation |-> work] \in Preparation
    BY <2>1 DEF Preparation, WorkOK
  <2>3. QED
    BY <1>11, <2>2, BecomeType DEF PrepareCheckpoints, Call
<1>12. ASSUME NEW t \in Threads, PrepareBegins(t)
      PROVE  CallsOK'
  <2>1. calls[t] \in Preparation /\ calls[t].pc = "begin"
    BY <1>12, CallShapes DEF PrepareBegins, At
  <2>2. calls[t].lease \in Leases /\ calls[t].target \in Devices /\ calls[t].generation \in Generations
    BY <2>1, VersionAssumption DEF Preparation
  <2>3. QED
    BY <1>8, <1>12, <2>2, SelfAssumption DEF PrepareBegins
<1>13. ASSUME NEW t \in Threads, CommandStops(t) \/ ContinueEnds(t) \/ EditorFails(t) \/ EditorReturns(t)
      PROVE  CallsOK'
  BY <1>1, <1>13 DEF CommandStops, ContinueEnds, EditorFails, EditorReturns
<1>14. ASSUME NEW t \in Threads, NEW h \in Handoffs, ContinueStarts(t, h)
      PROVE  CallsOK'
  <2>1. [op |-> "continue", pc |-> "step", handoff |-> h, generation |-> handoffs[h].generation,
         previous |-> "Absent", next |-> handoffs[h].state, then |-> "continue"] \in Mutation
    BY <1>14, StateType DEF Mutation, HandoffStates, ContinueStarts
  <2>2. QED
    BY <1>14, <2>1, BecomeType DEF ContinueStarts, Call
<1>15. ASSUME NEW t \in Threads, ContinueApplies(t) \/ ContinueSourceReady(t) \/ ContinueCommits(t)
      PROVE  CallsOK'
  <2>1. calls[t] \in Mutation
    BY <1>15, CallShapes DEF ContinueApplies, ContinueSourceReady, ContinueCommits, Believes
  <2>2. calls[t].handoff \in Handoffs /\ calls[t].generation \in Generations
    BY <2>1 DEF Mutation
  <2>3. "verify" \in MutateOps /\ "ready" \in MutateOps /\ "commit" \in MutateOps
    BY DEF MutateOps
  <2>4. QED
    BY <1>15, <2>2, <2>3, StartType DEF ContinueApplies, ContinueSourceReady, ContinueCommits
<1>16. ASSUME NEW t \in Threads, EditorEdit(t)
      PROVE  CallsOK'
  <2>1. [op |-> "edit", pc |-> "list", edit |-> edits + 1] \in Report
    BY <1>16, SelfAssumption DEF Report, EditorEdit, WorkOK
  <2>2. QED
    BY <1>16, <2>1, BecomeType DEF EditorEdit, Call
<1>17. ASSUME NEW t \in Threads, EditorLists(t)
      PROVE  CallsOK'
  <2> DEFINE todo == {[handoff |-> h, previous |-> handoffs[h].state] : h \in SourceHandoffs}
  <2>1. todo \in SUBSET Listed
    BY StateType DEF SourceHandoffs, Listed
  <2>2. calls[t] \in Report
    BY <1>17, CallShapes DEF EditorLists
  <2>3. calls[t].edit \in 0 .. MaxEdits
    BY <2>2 DEF Report
  <2>4. [op |-> "edit", pc |-> "abort", edit |-> calls[t].edit, todo |-> todo] \in Report
    BY <2>1, <2>3 DEF Report
  <2>5. QED
    BY <1>17, <2>4, BecomeType DEF EditorLists, Call
<1>18. ASSUME NEW t \in Threads, EditorAborts(t)
      PROVE  CallsOK'
  <2>1. calls[t] \in Report /\ calls[t].pc = "abort"
    BY <1>18, CallShapes DEF EditorAborts, At
  <2>2. calls[t].todo \in SUBSET Listed /\ calls[t].edit \in 0 .. MaxEdits
    BY <2>1 DEF Report
  <2>3. PICK x \in calls[t].todo :
          Become(t, [op |-> "edit", pc |-> "publish", edit |-> calls[t].edit,
                     todo |-> calls[t].todo \ {x}, handoff |-> x.handoff, previous |-> x.previous,
                     next |-> "Aborted", then |-> "edit"])
    BY <1>18 DEF EditorAborts
  <2>4. x \in Listed
    BY <2>2
  <2>5. [op |-> "edit", pc |-> "publish", edit |-> calls[t].edit, todo |-> calls[t].todo \ {x},
         handoff |-> x.handoff, previous |-> x.previous, next |-> "Aborted", then |-> "edit"] \in Report
    BY <2>2, <2>4 DEF Report, Listed, HandoffStates, TerminalStates
  <2>6. QED
    BY <2>3, <2>5, BecomeType DEF Call
<1>19. ASSUME \/ AgentRestarts \/ OutsideAgent \/ UNCHANGED allVars
              \/ \E t \in Threads : RecoverActs(t) \/ RecoverForgotten(t)
      PROVE  CallsOK'
  BY <1>0, <1>19 DEF AgentRestarts, OutsideAgent, allVars, agentVars, RecoverActs, RecoverForgotten, CallsOK
<1>20. QED
  BY <1>2, <1>3, <1>4, <1>5, <1>6, <1>7, <1>9, <1>10, <1>11, <1>12, <1>13, <1>14, <1>15, <1>16, <1>17,
     <1>18, <1>19 DEF AgentNext

\* The steps of a thread that only handle a call, those that use the tables,
\* and those that begin a handoff.
HandlesCall(t) ==
    \/ \E op \in MutateOps, h \in Handoffs, g \in Generations :
         HandleLocalMutation(t, op, h, g) \/ HandleRemoteMutation(t, op, h, g)
    \/ \E l \in Leases, target \in Devices : PrepareStarts(t, l, target)
    \/ CommandStops(t)
    \/ \E h \in Handoffs : ContinueStarts(t, h)
    \/ ContinueSourceReady(t) \/ ContinueCommits(t) \/ ContinueEnds(t)
    \/ EditorLists(t) \/ EditorFails(t)
UsesTables(t) ==
    \/ MutationSucceeds(t) \/ MutationFails(t)
    \/ RecoverStarts(t) \/ RecoverActs(t) \/ RecoverReturns(t) \/ RecoverForgotten(t)
    \/ EditorAborts(t)
Begins(t) ==
    /\ Idle(t) \/ At(t, "begin")
    /\ \E h \in Handoffs, l \in Leases, source \in Devices, target \in Devices, g \in Generations :
         BeginFor(t, h, l, source, target, g)

LEMMA HandlesCallLeaves ==
  ASSUME NEW t \in Threads, HandlesCall(t)
  PROVE  UNCHANGED <<vars, events, boot, store, edits, work, told, begun, applied>>
BY DEF HandlesCall, HandleLocalMutation, HandleRemoteMutation, PrepareStarts, CommandStops,
   ContinueStarts, ContinueSourceReady, ContinueCommits, ContinueEnds, EditorLists, EditorFails

LEMMA UsesTablesLeaves ==
  ASSUME NEW t \in Threads, UsesTables(t)
  PROVE  UNCHANGED <<events, boot, store, edits, work, told, begun, applied>>
BY DEF UsesTables, MutationSucceeds, MutationFails, RecoverStarts, RecoverActs, RecoverReturns,
   RecoverForgotten, EditorAborts, agentVars

\* The cases of a step of the agent that the proofs below go through.
LEMMA AgentCases ==
  ASSUME AgentTypeOK, [AgentNext]_allVars
  PROVE  \/ \E t \in Threads :
              \/ HandlesCall(t) \/ UsesTables(t) \/ Begins(t) \/ PublishStateChanged(t)
              \/ PrepareCheckpoints(t) \/ ContinueApplies(t) \/ EditorEdit(t) \/ EditorReturns(t)
         \/ AgentRestarts \/ OutsideAgent \/ UNCHANGED allVars
<1>1. ASSUME NEW t \in Threads, PrepareBegins(t)
      PROVE  Begins(t)
  <2>1. calls[t] \in Preparation /\ calls[t].pc = "begin"
    BY <1>1, CallShapes DEF PrepareBegins, At, AgentTypeOK
  <2>2. calls[t].lease \in Leases /\ calls[t].target \in Devices /\ calls[t].generation \in Generations
    BY <2>1, VersionAssumption DEF Preparation
  <2>3. QED
    BY <1>1, <2>2, SelfAssumption DEF PrepareBegins, Begins
<1>2. ASSUME NEW t \in Threads, NEW h \in Handoffs, NEW l \in Leases, NEW target \in Devices,
             \/ \E source \in Devices, g \in Generations : HandleRemoteBegin(t, h, l, source, target, g)
             \/ EditorContinueElsewhere(t, h, l, target)
      PROVE  Begins(t)
  BY <1>2, SelfAssumption, VersionAssumption DEF HandleRemoteBegin, EditorContinueElsewhere, Begins
<1>3. QED
  BY <1>1, <1>2 DEF AgentNext, HandlesCall, UsesTables

\* Every step of the agent keeps the workspace, the store and the edits typed.
LEMMA WorkStep ==
  ASSUME AgentTypeOK, [AgentNext]_allVars
  PROVE  WorkOK'
<1> USE DEF AgentTypeOK, WorkOK
<1>1. ASSUME NEW t \in Threads, ContinueApplies(t)
      PROVE  WorkOK'
  BY <1>1 DEF ContinueApplies
<1>2. ASSUME NEW t \in Threads, PrepareCheckpoints(t)
      PROVE  WorkOK'
  BY <1>2 DEF PrepareCheckpoints
<1>3. ASSUME NEW t \in Threads, EditorEdit(t)
      PROVE  WorkOK'
  <2>1. edits + 1 \in 0 .. MaxEdits
    BY <1>3, SelfAssumption DEF EditorEdit
  <2>2. QED
    BY <1>3, <2>1 DEF EditorEdit
<1>4. ASSUME NEW t \in Threads, EditorReturns(t)
      PROVE  WorkOK'
  <2>1. calls[t] \in Report /\ calls[t].pc = "abort"
    BY <1>4, CallShapes DEF EditorReturns, At
  <2>2. calls[t].edit \in 0 .. MaxEdits
    BY <2>1 DEF Report
  <2>3. QED
    BY <1>4, <2>2 DEF EditorReturns
<1>5. ASSUME NEW t \in Threads, Begins(t)
      PROVE  WorkOK'
  BY <1>5 DEF Begins, BeginFor
<1>6. CASE UNCHANGED <<store, edits, work, told, begun>>
  BY <1>6
<1>7. ASSUME NEW t \in Threads, HandlesCall(t) \/ UsesTables(t) \/ PublishStateChanged(t)
      PROVE  UNCHANGED <<store, edits, work, told, begun>>
  BY <1>7, HandlesCallLeaves, UsesTablesLeaves DEF PublishStateChanged
<1>8. AgentRestarts \/ OutsideAgent \/ UNCHANGED allVars => UNCHANGED <<store, edits, work, told, begun>>
  BY DEF AgentRestarts, OutsideAgent, agentVars, allVars
<1>9. QED
  BY <1>1, <1>2, <1>3, <1>4, <1>5, <1>6, <1>7, <1>8, AgentCases

\* The agent publishes one event, forgets all of them, or none is new.
LEMMA EventShapes ==
  ASSUME AgentTypeOK, [AgentNext]_allVars
  PROVE  \/ UNCHANGED <<events, boot>>
         \/ AgentRestarts
         \/ \E t \in Threads : PublishStateChanged(t)
<1>1. ASSUME NEW t \in Threads,
             \/ PrepareCheckpoints(t) \/ ContinueApplies(t) \/ EditorEdit(t) \/ EditorReturns(t)
             \/ Begins(t)
      PROVE  UNCHANGED <<events, boot>>
  BY <1>1 DEF PrepareCheckpoints, ContinueApplies, EditorEdit, EditorReturns, Begins, BeginFor
<1>2. ASSUME NEW t \in Threads, HandlesCall(t) \/ UsesTables(t)
      PROVE  UNCHANGED <<events, boot>>
  BY <1>2, HandlesCallLeaves, UsesTablesLeaves
<1>3. OutsideAgent \/ UNCHANGED allVars => UNCHANGED <<events, boot>>
  BY DEF OutsideAgent, agentVars, allVars
<1>4. QED
  BY <1>1, <1>2, <1>3, AgentCases

LEMMA EventsStep ==
  ASSUME AgentTypeOK, [AgentNext]_allVars
  PROVE  EventsOK'
<1> USE DEF AgentTypeOK, EventsOK
<1>1. CASE UNCHANGED <<events, boot>>
  BY <1>1
<1>2. CASE AgentRestarts
  BY <1>2, StateType DEF AgentRestarts
<1>3. ASSUME NEW t \in Threads, PublishStateChanged(t)
      PROVE  EventsOK'
  <2>1. calls[t] \in Mutation \/ (calls[t] \in Report /\ calls[t].pc = "publish")
    BY <1>3, CallShapes DEF PublishStateChanged, At
  <2>2. calls[t].handoff \in Handoffs /\ calls[t].next \in HandoffStates
    BY <2>1 DEF Mutation, Report
  <2>3. [handoff |-> calls[t].handoff, state |-> calls[t].next] \in [handoff : Handoffs, state : HandoffStates]
    BY <2>2
  <2>4. events' \in Seq([handoff : Handoffs, state : HandoffStates])
    <3> DEFINE EventType == [handoff : Handoffs, state : HandoffStates]
    <3>1. events' = events \/ events' = Append(events, [handoff |-> calls[t].handoff, state |-> calls[t].next])
      BY <1>3 DEF PublishStateChanged
    <3> HIDE DEF EventType
    <3>2. events \in Seq(EventType)
      BY DEF EventType
    <3>3. [handoff |-> calls[t].handoff, state |-> calls[t].next] \in EventType
      BY <2>3 DEF EventType
    <3>4. events' \in Seq(EventType)
      BY <3>1, <3>2, <3>3
    <3>5. QED
      BY <3>4 DEF EventType
  <2>5. QED
    BY <1>3, <2>4 DEF PublishStateChanged
<1>4. QED
  BY <1>1, <1>2, <1>3, EventShapes

LEMMA AgentTypeStep ==
  ASSUME AgentTypeOK, [AgentNext]_allVars
  PROVE  AgentTypeOK'
<1>1. TypeOK'
  BY AgentStepIsNext, TypeStep DEF AgentTypeOK
<1>2. QED
  BY <1>1, CallsStep, WorkStep, EventsStep DEF AgentTypeOK

LEMMA AgentTypeInit == AgentInit => AgentTypeOK
<1> SUFFICES ASSUME AgentInit PROVE AgentTypeOK
  OBVIOUS
<1>1. TypeOK
  BY TypeInit DEF AgentInit
<1>2. CallsOK
  BY DEF AgentInit, CallsOK, Call
<1>3. WorkOK
  BY SelfAssumption DEF AgentInit, WorkOK
<1>4. EventsOK
  BY DEF AgentInit, EventsOK, HandoffStates
<1>5. QED
  BY <1>1, <1>2, <1>3, <1>4 DEF AgentTypeOK

\* The tables, the calls of the threads, the log of events and the workspace
\* stay well-typed.
THEOREM AgentTypeCorrect == AgentSpec => []AgentTypeOK
BY AgentTypeInit, AgentTypeStep, PTL DEF AgentSpec

\* The handlers of main.rs and remote_rpc.rs, the desktop's commands and the
\* editor's reports move the tables by the MetadataDb methods only: what is
\* shown of LeaseHandoff holds of the running agent.
THEOREM AgentUsesMetadataAlways == AgentSpec => AgentUsesMetadata
<1>1. AgentInit => Init
  BY DEF AgentInit
<1>2. AgentTypeOK /\ [AgentNext]_allVars => [Next]_vars
  BY AgentStepIsNext
<1>3. QED
  BY <1>1, <1>2, AgentTypeCorrect, PTL DEF AgentSpec, AgentUsesMetadata, Spec

-----------------------------------------------------------------------------
(* What a step of the agent does to the rows of the handoffs               *)

Moves(h, state) == handoffs' = [handoffs EXCEPT ![h].state = state]

\* The methods move one handoff from a state they have checked.
LEMMA MethodMoves ==
  ASSUME NEW h \in Handoffs
  PROVE  /\ MarkHandoffTargetVerified(h) => handoffs[h].state = "TargetPrepare" /\ Moves(h, "TargetVerified")
         /\ MarkHandoffSourceReady(h) => handoffs[h].state = "TargetVerified" /\ Moves(h, "SourceReady")
         /\ AbortHandoff(h) => IsPending(h) /\ Moves(h, "Aborted")
         /\ \A g, at : /\ CommitAccepted(h, g, at) => handoffs[h].state = "SourceReady" /\ Moves(h, "Committed")
                       /\ CommitRejected(h, g, at) => handoffs[h].state = "SourceReady" /\ Moves(h, "Aborted")
         /\ \A g : CommitHandoff(h, g) =>
              handoffs[h].state = "SourceReady" /\ (Moves(h, "Committed") \/ Moves(h, "Aborted"))
<1>1. \A g, at : /\ CommitAccepted(h, g, at) => handoffs[h].state = "SourceReady" /\ Moves(h, "Committed")
                 /\ CommitRejected(h, g, at) => handoffs[h].state = "SourceReady" /\ Moves(h, "Aborted")
  BY DEF CommitAccepted, CommitRejected, CommitAcceptWrites, CommitRejectWrites, Moves
<1>2. QED
  BY <1>1 DEF MarkHandoffTargetVerified, MarkHandoffSourceReady, UpdateHandoffState, AbortHandoff,
     AbortWrites, CommitHandoff, Moves

\* So do the two transactions of a recovery, of the handoff that it has read.
LEMMA RecoveryMoves ==
  ASSUME TypeOK, NEW r \in Recoveries, RecoverAbort(r) \/ RecoverCommit(r)
  PROVE  LET h == recoveries[r].handoff IN
         /\ h \in Handoffs /\ recoveries[r] \in Recovery
         /\ \/ handoffs' = handoffs
            \/ IsPending(h) /\ Moves(h, "Aborted")
            \/ handoffs[h].state = "SourceReady" /\ Moves(h, "Committed") /\ Return(r, "Committed")
         /\ \A q \in Recoveries \ {r} : recoveries'[q] = recoveries[q]
<1> DEFINE h == recoveries[r].handoff
<1>1. recoveries[r] \in Recovery /\ h \in Handoffs
  BY PresentRecovery DEF RecoverAbort, RecoverCommit, Recovery
<1>2. \E outcome : Return(r, outcome)
  BY DEF RecoverAbort, RecoverCommit
<1>3. \A q \in Recoveries \ {r} : recoveries'[q] = recoveries[q]
  BY <1>2 DEF Return, TypeOK
<1>4. CASE RecoverAbort(r)
  BY <1>1, <1>3, <1>4 DEF RecoverAbort, AbortWrites, Moves
<1>5. CASE RecoverCommit(r)
  BY <1>1, <1>3, <1>5, MethodMoves DEF RecoverCommit, IsPending, PendingStates
<1>6. QED
  BY <1>4, <1>5

\* Which rows the steps that use the tables may move, and how.
TableMove(t) ==
    \/ handoffs' = handoffs
    \/ \E h \in Handoffs :
         \/ /\ handoffs[h].state = "TargetPrepare" /\ Moves(h, "TargetVerified")
            /\ Op(t, "verify") /\ calls[t].handoff = h
         \/ handoffs[h].state = "TargetVerified" /\ Moves(h, "SourceReady")
         \/ IsPending(h) /\ Moves(h, "Aborted")
         \/ handoffs[h].state = "SourceReady" /\ Moves(h, "Committed")

LEMMA UsesTablesMoves ==
  ASSUME AgentTypeOK, NEW t \in Threads, UsesTables(t)
  PROVE  TableMove(t)
<1> USE DEF AgentTypeOK
<1>0. ASSUME NEW h \in Handoffs, AbortOrAborted(h) PROVE TableMove(t)
  BY <1>0, MethodMoves DEF AbortOrAborted, TableMove, vars
<1>1. CASE MutationSucceeds(t) \/ MutationFails(t)
  <2>1. calls[t] \in Mutation
    BY <1>1, CallShapes DEF MutationSucceeds, MutationFails, Op
  <2>2. calls[t].handoff \in Handoffs
    BY <2>1 DEF Mutation
  <2>3. CASE UNCHANGED vars
    BY <2>3 DEF TableMove, vars
  <2>4. CASE \E g : CommitHandoff(calls[t].handoff, g)
    BY <2>2, <2>4, MethodMoves DEF TableMove, IsPending, PendingStates
  <2>5. CASE Op(t, "verify") /\ MarkHandoffTargetVerified(calls[t].handoff)
    BY <2>2, <2>5, MethodMoves DEF TableMove
  <2>6. CASE MarkHandoffSourceReady(calls[t].handoff)
    BY <2>2, <2>6, MethodMoves DEF TableMove
  <2>7. CASE AbortOrAborted(calls[t].handoff)
    BY <1>0, <2>2, <2>7
  <2>8. QED
    BY <1>1, <2>3, <2>4, <2>5, <2>6, <2>7 DEF MutationSucceeds, MutationFails
<1>2. CASE RecoverStarts(t) \/ RecoverReturns(t) \/ RecoverForgotten(t)
  BY <1>2 DEF RecoverStarts, RecoverReturns, RecoverForgotten, RecoverRead, RecoverEnd, TableMove
<1>3. CASE RecoverActs(t)
  BY <1>3, RecoveryMoves DEF RecoverActs, TableMove, Threads
<1>4. CASE EditorAborts(t)
  <2>1. calls[t] \in Report /\ calls[t].pc = "abort"
    BY <1>4, CallShapes DEF EditorAborts, At
  <2>2. \A x \in calls[t].todo : x.handoff \in Handoffs
    BY <2>1 DEF Report, Listed
  <2>3. QED
    BY <1>0, <1>4, <2>2 DEF EditorAborts
<1>5. QED
  BY <1>1, <1>2, <1>3, <1>4 DEF UsesTables

\* A handoff that is there keeps its source, target and generation.
LEMMA MovesKeep ==
  ASSUME TypeOK, NEW h \in Handoffs, NEW state, handoffs[h].state # "Absent", Moves(h, state)
  PROVE  /\ handoffs'[h].state = state
         /\ handoffs'[h].source = handoffs[h].source /\ handoffs'[h].target = handoffs[h].target
         /\ handoffs'[h].generation = handoffs[h].generation
         /\ \A k \in Handoffs \ {h} : handoffs'[k] = handoffs[k]
<1>1. handoffs[h] \in Handoff
  BY PresentHandoff
<1>2. QED
  BY <1>1 DEF Moves, TypeOK, Handoff

RowStays(t, h) ==
    /\ handoffs[h].state # "Absent" =>
         /\ handoffs'[h].source = handoffs[h].source /\ handoffs'[h].target = handoffs[h].target
         /\ handoffs'[h].generation = handoffs[h].generation
    /\ handoffs'[h].state = "Absent" <=> handoffs[h].state = "Absent"
    /\ handoffs'[h].state \in PendingStates => IsPending(h)
    /\ handoffs'[h].state # handoffs[h].state =>
         \/ /\ handoffs[h].state = "TargetPrepare" /\ handoffs'[h].state = "TargetVerified"
            /\ Op(t, "verify") /\ calls[t].handoff = h
         \/ handoffs[h].state = "TargetVerified" /\ handoffs'[h].state = "SourceReady"
         \/ IsPending(h) /\ handoffs'[h].state = "Aborted"
         \/ handoffs[h].state = "SourceReady" /\ handoffs'[h].state = "Committed"

LEMMA RowsStay ==
  ASSUME AgentTypeOK, NEW t \in Threads, TableMove(t), NEW h \in Handoffs
  PROVE  RowStays(t, h)
<1>1. CASE handoffs' = handoffs
  BY <1>1 DEF RowStays, IsPending
<1>2. ASSUME NEW k \in Handoffs, NEW state, Moves(k, state), handoffs[k].state # "Absent",
             \/ /\ handoffs[k].state = "TargetPrepare" /\ state = "TargetVerified"
                /\ Op(t, "verify") /\ calls[t].handoff = k
             \/ handoffs[k].state = "TargetVerified" /\ state = "SourceReady"
             \/ IsPending(k) /\ state = "Aborted"
             \/ handoffs[k].state = "SourceReady" /\ state = "Committed"
      PROVE  RowStays(t, h)
  <2>1. CASE k = h
    BY <1>2, <2>1, MovesKeep DEF AgentTypeOK, RowStays, IsPending, PendingStates
  <2>2. CASE k # h
    BY <1>2, <2>2, MovesKeep DEF AgentTypeOK, RowStays, IsPending
  <2>3. QED
    BY <2>1, <2>2
<1>3. \A k \in Handoffs : IsPending(k) => handoffs[k].state # "Absent"
  BY DEF IsPending, PendingStates
<1>4. QED
  BY <1>1, <1>2, <1>3 DEF TableMove

\* What the steps of one thread leave alone.
Acts(t) ==
    \/ HandlesCall(t) \/ UsesTables(t) \/ Begins(t) \/ PublishStateChanged(t)
    \/ PrepareCheckpoints(t) \/ ContinueApplies(t) \/ EditorEdit(t) \/ EditorReturns(t)

LEMMA OthersKeepCalls ==
  ASSUME AgentTypeOK, NEW t \in Threads, Acts(t)
  PROVE  \A q \in Threads \ {t} : calls'[q] = calls[q]
<1>1. ASSUME NEW call, Become(t, call)
      PROVE  \A q \in Threads \ {t} : calls'[q] = calls[q]
  BY <1>1 DEF Become, AgentTypeOK, CallsOK
<1>2. CASE HandlesCall(t)
  BY <1>1, <1>2 DEF HandlesCall, HandleLocalMutation, HandleRemoteMutation, PrepareStarts, CommandStops,
     ContinueStarts, ContinueSourceReady, ContinueCommits, ContinueEnds, EditorLists, EditorFails,
     Finish, StartMutation
<1>3. CASE UsesTables(t)
  BY <1>1, <1>3 DEF UsesTables, MutationSucceeds, MutationFails, RecoverStarts, RecoverActs,
     RecoverReturns, RecoverForgotten, EditorAborts, agentVars, Finish
<1>4. CASE Begins(t)
  BY <1>1, <1>4 DEF Begins, BeginFor
<1>5. CASE PublishStateChanged(t)
  <2>1. calls[t].then \in {"return", "continue", "edit"}
    <3>1. calls[t] \in Mutation \/ (calls[t] \in Report /\ calls[t].pc = "publish")
      BY <1>5, CallShapes DEF PublishStateChanged, At, AgentTypeOK
    <3>2. QED
      BY <3>1 DEF Mutation, Report
  <2>2. QED
    BY <1>1, <1>5, <2>1 DEF PublishStateChanged, Finish
<1>6. CASE PrepareCheckpoints(t) \/ ContinueApplies(t) \/ EditorEdit(t) \/ EditorReturns(t)
  BY <1>1, <1>6 DEF PrepareCheckpoints, ContinueApplies, EditorEdit, EditorReturns, Finish, StartMutation
<1>7. QED
  BY <1>2, <1>3, <1>4, <1>5, <1>6 DEF Acts

-----------------------------------------------------------------------------
(* An acknowledged edit ends the handoffs that were begun before it.  A     *)
(* report that has listed the handoffs still has to end those in its list;  *)
(* every other one was begun after its edit.                                *)

ReportCovers(c) ==
    c \in Report =>
      /\ c.edit <= edits
      /\ c.pc # "list" => \A h \in SourceHandoffs :
                            c.edit <= begun[h] \/ \E x \in c.todo : x.handoff = h

EditInv ==
    /\ told <= edits
    /\ \A t \in Threads : ReportCovers(calls[t])
    /\ AcknowledgedEditEndsHandoffs

\* A step that lists no new handoff leaves a report covered, and so does one
\* that begins a handoff: it is begun after every edit so far.
LEMMA CoversStays ==
  ASSUME AgentTypeOK, edits' \in Nat, edits <= edits', SourceHandoffs' \subseteq SourceHandoffs,
         begun' = begun, NEW c, ReportCovers(c)
  PROVE  ReportCovers(c)'
<1> SUFFICES ASSUME c \in Report PROVE ReportCovers(c)'
  BY DEF ReportCovers
<1>1. c.edit \in 0 .. MaxEdits /\ edits \in 0 .. MaxEdits
  BY DEF Report, AgentTypeOK, WorkOK
<1>2. c.edit <= edits'
  BY <1>1, SelfAssumption DEF ReportCovers
<1>3. QED
  BY <1>2 DEF ReportCovers

LEMMA CoversBegin ==
  ASSUME AgentTypeOK, edits' = edits, NEW h \in Handoffs, SourceHandoffs' \subseteq SourceHandoffs \cup {h},
         begun' = [begun EXCEPT ![h] = edits], NEW c, ReportCovers(c)
  PROVE  ReportCovers(c)'
<1> SUFFICES ASSUME c \in Report PROVE ReportCovers(c)'
  BY DEF ReportCovers
<1>1. c.edit <= edits
  BY DEF ReportCovers
<1>2. \A k \in Handoffs : begun'[k] = IF k = h THEN edits ELSE begun[k]
  BY DEF AgentTypeOK, WorkOK
<1>3. SourceHandoffs' \subseteq Handoffs
  BY DEF SourceHandoffs
<1>4. QED
  BY <1>1, <1>2, <1>3 DEF ReportCovers

\* The steps on the tables only ever take handoffs off the list, except for
\* the one that begins a handoff.
LEMMA SourceHandoffsShrink ==
  ASSUME AgentTypeOK, NEW t \in Threads, TableMove(t)
  PROVE  SourceHandoffs' \subseteq SourceHandoffs
<1> SUFFICES ASSUME NEW h \in Handoffs, handoffs'[h].state \in PendingStates, handoffs'[h].source = Self
             PROVE  IsPending(h) /\ handoffs[h].source = Self
  BY DEF SourceHandoffs, IsPending
<1>1. RowStays(t, h)
  BY RowsStay
<1>2. QED
  BY <1>1 DEF RowStays, IsPending, PendingStates

LEMMA SourceHandoffsBegin ==
  ASSUME AgentTypeOK, NEW t \in Threads, NEW h \in Handoffs, NEW l \in Leases, NEW source \in Devices,
         NEW target \in Devices, NEW g \in Generations, BeginFor(t, h, l, source, target, g)
  PROVE  SourceHandoffs' \subseteq SourceHandoffs \cup {h}
<1>1. \A k \in Handoffs \ {h} : handoffs'[k] = handoffs[k]
  BY DEF BeginFor, BeginHandoff, AgentTypeOK, TypeOK
<1>2. QED
  BY <1>1 DEF SourceHandoffs, IsPending

\* Only an edit, its list, its aborts and their events make a report.
LEMMA NoNewReport ==
  ASSUME AgentTypeOK, NEW t \in Threads,
         \/ HandlesCall(t) /\ ~ EditorLists(t)
         \/ UsesTables(t) /\ ~ EditorAborts(t)
         \/ Begins(t) \/ PrepareCheckpoints(t) \/ ContinueApplies(t) \/ EditorReturns(t)
  PROVE  calls'[t] \notin Report \/ calls'[t] = calls[t]
<1>1. ASSUME NEW call, Become(t, call), call.op # "edit"
      PROVE  calls'[t] \notin Report
  BY <1>1 DEF Become, AgentTypeOK, CallsOK, Report
<1>2. ASSUME Finish(t) PROVE calls'[t] \notin Report
  BY <1>1, <1>2 DEF Finish, NoCall
<1>3. ASSUME NEW op \in MutateOps, NEW h, NEW g, NEW then, StartMutation(t, op, h, g, then)
      PROVE  calls'[t] \notin Report
  BY <1>1, <1>3 DEF StartMutation, MutateOps
<1>4. CASE HandlesCall(t) /\ ~ EditorLists(t)
  <2>1. "verify" \in MutateOps /\ "ready" \in MutateOps /\ "commit" \in MutateOps
    BY DEF MutateOps
  <2>2. CASE \/ \E op \in MutateOps, h \in Handoffs, g \in Generations :
                  HandleLocalMutation(t, op, h, g) \/ HandleRemoteMutation(t, op, h, g)
             \/ ContinueSourceReady(t) \/ ContinueCommits(t)
    BY <1>3, <2>1, <2>2 DEF HandleLocalMutation, HandleRemoteMutation, ContinueSourceReady, ContinueCommits
  <2>3. CASE \/ \E l \in Leases, target \in Devices : PrepareStarts(t, l, target)
             \/ \E h \in Handoffs : ContinueStarts(t, h)
    BY <1>1, <2>3 DEF PrepareStarts, ContinueStarts
  <2>4. CASE CommandStops(t) \/ ContinueEnds(t) \/ EditorFails(t)
    BY <1>2, <2>4 DEF CommandStops, ContinueEnds, EditorFails
  <2>5. QED
    BY <1>4, <2>2, <2>3, <2>4 DEF HandlesCall
<1>5. CASE MutationSucceeds(t) \/ RecoverStarts(t) \/ RecoverReturns(t)
  <2>1. calls[t] \in Mutation
    BY <1>5, CallShapes DEF MutationSucceeds, RecoverStarts, RecoverReturns, Op, AgentTypeOK
  <2>2. calls[t].op # "edit"
    BY <2>1 DEF Mutation, MutateOps
  <2>3. \A pc, next : /\ [calls[t] EXCEPT !.pc = pc, !.next = next].op = calls[t].op
                      /\ [calls[t] EXCEPT !.pc = pc].op = calls[t].op
    BY <2>1 DEF Mutation
  <2>4. CASE MutationSucceeds(t)
    BY <1>1, <2>2, <2>3, <2>4 DEF MutationSucceeds
  <2>5. CASE RecoverStarts(t)
    BY <1>1, <2>2, <2>3, <2>5 DEF RecoverStarts
  <2>6. CASE RecoverReturns(t)
    BY <1>1, <1>2, <2>2, <2>3, <2>6 DEF RecoverReturns
  <2>7. QED
    BY <1>5, <2>4, <2>5, <2>6
<1>6. CASE RecoverActs(t) \/ RecoverForgotten(t)
  BY <1>6 DEF RecoverActs, RecoverForgotten, agentVars
<1>7. CASE MutationFails(t) \/ EditorReturns(t)
  BY <1>2, <1>7 DEF MutationFails, EditorReturns
<1>8. CASE Begins(t)
  BY <1>1, <1>8 DEF Begins, BeginFor
<1>9. CASE PrepareCheckpoints(t)
  BY <1>1, <1>9 DEF PrepareCheckpoints
<1>10. CASE ContinueApplies(t)
  BY <1>3, <1>10 DEF ContinueApplies, MutateOps
<1>11. QED
  BY <1>4, <1>5, <1>6, <1>7, <1>8, <1>9, <1>10 DEF UsesTables

\* What the report of thread t covers when it makes a step of its own.
LEMMA ReportStep ==
  ASSUME AgentTypeOK, EditInv, NEW t \in Threads,
         EditorEdit(t) \/ EditorLists(t) \/ EditorAborts(t) \/ PublishStateChanged(t)
  PROVE  ReportCovers(calls[t])'
<1> USE DEF AgentTypeOK
<1>0. ASSUME NEW call, Become(t, call) PROVE calls'[t] = call
  BY <1>0 DEF Become, CallsOK
<1>1. CASE EditorEdit(t)
  <2>1. calls'[t] = [op |-> "edit", pc |-> "list", edit |-> edits + 1] /\ edits' = edits + 1
    BY <1>0, <1>1 DEF EditorEdit
  <2>2. QED
    BY <2>1 DEF ReportCovers, WorkOK
<1>2. CASE EditorLists(t)
  <2> DEFINE todo == {[handoff |-> h, previous |-> handoffs[h].state] : h \in SourceHandoffs}
  <2>1. calls[t] \in Report
    BY <1>2, CallShapes DEF EditorLists
  <2>2. calls[t].edit <= edits
    BY <2>1 DEF EditInv, ReportCovers
  <2>3. calls'[t] = [op |-> "edit", pc |-> "abort", edit |-> calls[t].edit, todo |-> todo]
    BY <1>0, <1>2 DEF EditorLists
  <2>4. SourceHandoffs' = SourceHandoffs /\ edits' = edits
    BY <1>2 DEF EditorLists, vars, SourceHandoffs, IsPending
  <2>5. ASSUME NEW h \in SourceHandoffs
        PROVE  \E x \in todo : x.handoff = h
    <3>1. [handoff |-> h, previous |-> handoffs[h].state] \in todo
      OBVIOUS
    <3>2. [handoff |-> h, previous |-> handoffs[h].state].handoff = h
      OBVIOUS
    <3> HIDE DEF todo
    <3>3. QED
      BY <3>1, <3>2
  <2> HIDE DEF todo
  <2>6. \A h \in SourceHandoffs' : \E x \in calls'[t].todo : x.handoff = h
    BY <2>3, <2>4, <2>5
  <2>7. calls'[t].edit <= edits'
    BY <2>2, <2>3, <2>4
  <2>8. QED
    BY <2>6, <2>7 DEF ReportCovers
<1>3. CASE EditorAborts(t)
  <2>1. calls[t] \in Report /\ calls[t].pc = "abort"
    BY <1>3, CallShapes DEF EditorAborts, At
  <2>2. PICK x \in calls[t].todo :
          /\ AbortOrAborted(x.handoff)
          /\ Become(t, [op |-> "edit", pc |-> "publish", edit |-> calls[t].edit,
                        todo |-> calls[t].todo \ {x}, handoff |-> x.handoff, previous |-> x.previous,
                        next |-> "Aborted", then |-> "edit"])
    BY <1>3 DEF EditorAborts
  <2>3. x.handoff \in Handoffs
    BY <2>1 DEF Report, Listed
  <2>4. handoffs'[x.handoff].state = "Aborted"
    BY <2>2, <2>3, MethodMoves, MovesKeep DEF AbortOrAborted, vars, IsPending, PendingStates
  <2>5. x.handoff \notin SourceHandoffs'
    BY <2>4 DEF SourceHandoffs, IsPending, PendingStates
  <2>6. SourceHandoffs' \subseteq SourceHandoffs
    BY <1>3, UsesTablesMoves, SourceHandoffsShrink DEF UsesTables
  <2>7. calls'[t].edit = calls[t].edit /\ calls'[t].todo = calls[t].todo \ {x}
    BY <1>0, <2>2
  <2>8. begun' = begun /\ edits' = edits
    BY <1>3 DEF EditorAborts
  <2>9. QED
    BY <2>1, <2>5, <2>6, <2>7, <2>8 DEF EditInv, ReportCovers
<1>4. CASE PublishStateChanged(t)
  <2>1. CASE calls[t].then # "edit"
    <3>1. calls[t] \in Mutation
      BY <1>4, <2>1, CallShapes DEF PublishStateChanged
    <3>2. calls'[t] = NoCall \/ calls'[t] = [calls[t] EXCEPT !.op = "continue", !.pc = "step"]
      BY <1>0, <1>4, <2>1, <3>1 DEF PublishStateChanged, Finish, Mutation
    <3>3. NoCall.op # "edit" /\ [calls[t] EXCEPT !.op = "continue", !.pc = "step"].op # "edit"
      BY <3>1 DEF Mutation, NoCall
    <3>4. \A c : c.op # "edit" => c \notin Report
      BY DEF Report
    <3>5. calls'[t] \notin Report
      BY <3>2, <3>3, <3>4
    <3>6. QED
      BY <3>5 DEF ReportCovers
  <2>2. CASE calls[t].then = "edit"
    <3>1. calls[t] \in Report /\ calls[t].pc = "publish"
      BY <1>4, <2>2, CallShapes DEF PublishStateChanged, At
    <3>2. calls'[t] = [calls[t] EXCEPT !.op = "edit", !.pc = "abort"]
      BY <1>0, <1>4, <2>2 DEF PublishStateChanged
    <3>3. calls'[t].edit = calls[t].edit /\ calls'[t].todo = calls[t].todo
      BY <3>1, <3>2 DEF Report
    <3>4. SourceHandoffs' = SourceHandoffs /\ begun' = begun /\ edits' = edits
      BY <1>4 DEF PublishStateChanged, vars, SourceHandoffs, IsPending
    <3>5. QED
      BY <3>1, <3>3, <3>4 DEF EditInv, ReportCovers
  <2>3. QED
    BY <2>1, <2>2
<1>5. QED
  BY <1>1, <1>2, <1>3, <1>4

LEMMA EditStep ==
  ASSUME AgentTypeOK, EditInv, [AgentNext]_allVars
  PROVE  EditInv'
<1> USE DEF AgentTypeOK
<1>0. WorkOK'
  BY WorkStep
<1>1. ASSUME NEW t \in Threads, Acts(t), ReportCovers(calls[t])',
             \A c : ReportCovers(c) => ReportCovers(c)'
      PROVE  \A q \in Threads : ReportCovers(calls[q])'
  <2> SUFFICES ASSUME NEW q \in Threads, q # t PROVE ReportCovers(calls[q])'
    BY <1>1
  <2>1. calls'[q] = calls[q]
    BY <1>1, OthersKeepCalls
  <2>2. ReportCovers(calls[q])
    BY DEF EditInv
  <2>3. QED
    BY <1>1, <2>1, <2>2 DEF ReportCovers
<1>2. ASSUME NEW t \in Threads, calls'[t] \notin Report \/ calls'[t] = calls[t],
             \A c : ReportCovers(c) => ReportCovers(c)'
      PROVE  ReportCovers(calls[t])'
  BY <1>2 DEF EditInv, ReportCovers
<1>3. ASSUME NEW t \in Threads,
             \/ HandlesCall(t) \/ UsesTables(t) \/ PublishStateChanged(t)
             \/ PrepareCheckpoints(t) \/ ContinueApplies(t) \/ EditorEdit(t) \/ EditorReturns(t)
      PROVE  SourceHandoffs' \subseteq SourceHandoffs /\ begun' = begun /\ edits <= edits'
  <2>1. SourceHandoffs' \subseteq SourceHandoffs
    <3>1. CASE UsesTables(t)
      BY <3>1, UsesTablesMoves, SourceHandoffsShrink
    <3>2. CASE handoffs' = handoffs
      BY <3>2 DEF SourceHandoffs, IsPending
    <3>3. ~ UsesTables(t) => handoffs' = handoffs
      BY <1>3, HandlesCallLeaves DEF PublishStateChanged, PrepareCheckpoints, ContinueApplies, EditorEdit,
         EditorReturns, vars
    <3>4. QED
      BY <3>1, <3>2, <3>3
  <2>2. begun' = begun
    BY <1>3, HandlesCallLeaves, UsesTablesLeaves DEF PublishStateChanged, PrepareCheckpoints,
       ContinueApplies, EditorEdit, EditorReturns
  <2>3. edits' = edits \/ edits' = edits + 1
    BY <1>3, HandlesCallLeaves, UsesTablesLeaves DEF PublishStateChanged, PrepareCheckpoints,
       ContinueApplies, EditorEdit, EditorReturns
  <2>4. QED
    BY <2>1, <2>2, <2>3 DEF WorkOK
<1>4. ASSUME NEW t \in Threads,
             \/ HandlesCall(t) \/ UsesTables(t) \/ PublishStateChanged(t)
             \/ PrepareCheckpoints(t) \/ ContinueApplies(t) \/ EditorEdit(t) \/ EditorReturns(t)
      PROVE  EditInv'
  <2>1. \A c : ReportCovers(c) => ReportCovers(c)'
    BY <1>0, <1>3, <1>4, CoversStays DEF WorkOK
  <2>2. ReportCovers(calls[t])'
    BY <1>2, <1>4, <2>1, ReportStep, NoNewReport
  <2>3. \A q \in Threads : ReportCovers(calls[q])'
    BY <1>1, <1>4, <2>1, <2>2 DEF Acts
  <2>4. CASE told' = told
    BY <1>0, <1>3, <1>4, <2>3, <2>4 DEF EditInv, WorkOK, AcknowledgedEditEndsHandoffs
  <2>5. CASE EditorReturns(t)
    <3>1. calls[t] \in Report /\ calls[t].pc = "abort" /\ calls[t].todo = {}
      BY <2>5, CallShapes DEF EditorReturns, At
    <3>2. calls[t].edit <= edits /\ \A h \in SourceHandoffs : calls[t].edit <= begun[h]
      BY <3>1 DEF EditInv, ReportCovers
    <3>3. told' = told \/ told' = calls[t].edit
      BY <2>5 DEF EditorReturns
    <3>4. begun' = begun /\ edits' = edits /\ SourceHandoffs' = SourceHandoffs
      BY <2>5 DEF EditorReturns, vars, SourceHandoffs, IsPending
    <3>5. QED
      BY <2>3, <2>4, <3>2, <3>3, <3>4 DEF EditInv, AcknowledgedEditEndsHandoffs
  <2>6. EditorReturns(t) \/ told' = told
    BY <1>4, HandlesCallLeaves, UsesTablesLeaves DEF PublishStateChanged, PrepareCheckpoints,
       ContinueApplies, EditorEdit
  <2>7. QED
    BY <2>4, <2>5, <2>6
<1>5. ASSUME NEW t \in Threads, Begins(t)
      PROVE  EditInv'
  <2>1. PICK h \in Handoffs, l \in Leases, source \in Devices, target \in Devices, g \in Generations :
          BeginFor(t, h, l, source, target, g)
    BY <1>5 DEF Begins
  <2>2. SourceHandoffs' \subseteq SourceHandoffs \cup {h}
    BY <2>1, SourceHandoffsBegin
  <2>3. begun' = [begun EXCEPT ![h] = edits] /\ edits' = edits /\ told' = told
    BY <2>1 DEF BeginFor
  <2>4. \A c : ReportCovers(c) => ReportCovers(c)'
    BY <2>2, <2>3, CoversBegin
  <2>5. ReportCovers(calls[t])'
    BY <1>2, <1>5, <2>4, NoNewReport
  <2>6. \A q \in Threads : ReportCovers(calls[q])'
    BY <1>1, <1>5, <2>4, <2>5 DEF Acts
  <2>7. \A k \in Handoffs : begun'[k] = IF k = h THEN edits ELSE begun[k]
    BY <2>3 DEF WorkOK
  <2>8. SourceHandoffs' \subseteq Handoffs
    BY DEF SourceHandoffs
  <2>9. AcknowledgedEditEndsHandoffs'
    BY <2>2, <2>3, <2>7, <2>8 DEF EditInv, AcknowledgedEditEndsHandoffs
  <2>10. QED
    BY <2>3, <2>6, <2>9 DEF EditInv
<1>6. CASE AgentRestarts \/ OutsideAgent \/ UNCHANGED allVars
  <2>1. handoffs' = handoffs /\ begun' = begun /\ edits' = edits /\ told' = told
    BY <1>6 DEF AgentRestarts, OutsideAgent, Tick, RevokeDevice, agentVars, allVars, vars
  <2>2. SourceHandoffs' = SourceHandoffs
    BY <2>1 DEF SourceHandoffs, IsPending
  <2>3. calls' = calls \/ \A q \in Threads : calls'[q] \notin Report
    BY <1>6 DEF AgentRestarts, OutsideAgent, agentVars, allVars, NoCall, Report
  <2>4. \A q \in Threads : ReportCovers(calls[q])'
    BY <2>1, <2>2, <2>3 DEF EditInv, ReportCovers
  <2>5. QED
    BY <2>1, <2>2, <2>4 DEF EditInv, AcknowledgedEditEndsHandoffs
<1>7. QED
  BY <1>4, <1>5, <1>6, AgentCases

\* Once the report of an edit has returned Ok, every handoff of this device
\* that is still on its way to a commit was begun after that edit.
THEOREM AcknowledgedEditAlwaysEnds == AgentSpec => []AcknowledgedEditEndsHandoffs
<1>1. AgentInit => EditInv
  <2> SUFFICES ASSUME AgentInit PROVE EditInv
    OBVIOUS
  <2>1. SourceHandoffs = {}
    BY DEF AgentInit, Init, NoHandoff, SourceHandoffs, IsPending, PendingStates
  <2>2. \A t \in Threads : calls[t] \notin Report
    BY DEF AgentInit, NoCall, Report
  <2>3. QED
    BY <2>1, <2>2 DEF AgentInit, EditInv, ReportCovers, AcknowledgedEditEndsHandoffs
<1>2. AgentTypeOK /\ EditInv /\ [AgentNext]_allVars => EditInv'
  BY EditStep
<1>3. EditInv => AcknowledgedEditEndsHandoffs
  BY DEF EditInv
<1>4. QED
  BY <1>1, <1>2, <1>3, AgentTypeCorrect, PTL DEF AgentSpec

-----------------------------------------------------------------------------
(* A lease committed to this device was verified in its workspace.  The    *)
(* desktop reports a verification only of what it has applied, and remote  *)
(* devices cannot report one for this device.                              *)

Applied(h) == handoffs[h].target = Self => handoffs[h].generation \in applied

Served(c) ==
    c \in Mutation =>
      /\ handoffs[c.handoff].state # "Absent"
      /\ c.pc = "step" => c.then = "continue"
      /\ c.then = "continue" => c.generation = handoffs[c.handoff].generation
      /\ c.pc = "mutate" /\ c.op = "verify" => Applied(c.handoff)

AppliedInv ==
    /\ \A h \in Handoffs : handoffs[h].state \in {"TargetVerified", "SourceReady", "Committed"} => Applied(h)
    /\ \A t \in Threads : Served(calls[t])

\* Rows that are there keep what a call knows of them.
LEMMA ServedStays ==
  ASSUME applied \subseteq applied',
         \A h \in Handoffs : handoffs[h].state # "Absent" =>
           /\ handoffs'[h].state # "Absent"
           /\ handoffs'[h].target = handoffs[h].target
           /\ handoffs'[h].generation = handoffs[h].generation,
         NEW c, Served(c)
  PROVE  Served(c)'
<1> SUFFICES ASSUME c \in Mutation PROVE Served(c)'
  BY DEF Served
<1>1. c.handoff \in Handoffs
  BY DEF Mutation
<1>2. Applied(c.handoff) /\ handoffs[c.handoff].state # "Absent" => Applied(c.handoff)'
  BY <1>1 DEF Applied
<1>3. QED
  BY <1>1, <1>2 DEF Served

\* A thread that takes up no call on a handoff has nothing to know.
LEMMA OtherCalls ==
  ASSUME AgentTypeOK, NEW t \in Threads, NEW call, Become(t, call),
         call.op \notin MutateOps \cup {"begin", "continue"}
  PROVE  Served(calls[t])'
<1>1. calls'[t] = call
  BY DEF Become, AgentTypeOK, CallsOK
<1>2. QED
  BY <1>1 DEF Served, Mutation

LEMMA FinishServed ==
  ASSUME AgentTypeOK, NEW t \in Threads, Finish(t)
  PROVE  Served(calls[t])'
BY OtherCalls DEF Finish, NoCall, MutateOps

\* What a thread that handles a call knows of its handoff.
LEMMA HandlesCallServed ==
  ASSUME AgentTypeOK, AppliedInv, "verify" \notin LocalOps, NEW t \in Threads, HandlesCall(t)
  PROVE  Served(calls[t])'
<1> USE DEF AgentTypeOK
<1>0. handoffs' = handoffs /\ applied' = applied
  BY HandlesCallLeaves DEF vars
<1>1. ASSUME NEW op \in MutateOps, NEW h \in Handoffs, NEW g, NEW then,
             StartMutation(t, op, h, g, then), handoffs[h].state # "Absent",
             then = "continue" => g = handoffs[h].generation, op = "verify" => Applied(h)
      PROVE  Served(calls[t])'
  <2>1. calls'[t] = [op |-> op, pc |-> "mutate", handoff |-> h, generation |-> g,
                     previous |-> handoffs[h].state, next |-> "Absent", then |-> then]
    BY <1>1 DEF StartMutation, Become, CallsOK
  <2>2. Applied(h) => Applied(h)'
    BY <1>0 DEF Applied
  <2>3. QED
    BY <1>0, <1>1, <2>1, <2>2 DEF Served
<1>2. ASSUME NEW op \in MutateOps, NEW h \in Handoffs, NEW g \in Generations, HandleLocalMutation(t, op, h, g)
      PROVE  Served(calls[t])'
  BY <1>1, <1>2 DEF HandleLocalMutation
<1>3. ASSUME NEW op \in MutateOps, NEW h \in Handoffs, NEW g \in Generations, HandleRemoteMutation(t, op, h, g)
      PROVE  Served(calls[t])'
  <2>1. op = "verify" => handoffs[h].target # Self
    BY <1>3 DEF HandleRemoteMutation, RoleAllows
  <2>2. op = "verify" => Applied(h)
    BY <2>1 DEF Applied
  <2>3. QED
    BY <1>1, <1>3, <2>2 DEF HandleRemoteMutation
<1>4. CASE ContinueSourceReady(t) \/ ContinueCommits(t)
  <2>1. calls[t] \in Mutation /\ calls[t].pc = "step"
    BY <1>4, CallShapes DEF ContinueSourceReady, ContinueCommits, Believes, At
  <2>2. /\ calls[t].handoff \in Handoffs /\ handoffs[calls[t].handoff].state # "Absent"
        /\ calls[t].generation = handoffs[calls[t].handoff].generation
    BY <2>1 DEF AppliedInv, Served, Mutation
  <2>3. QED
    BY <1>1, <1>4, <2>2 DEF ContinueSourceReady, ContinueCommits, MutateOps
<1>5. ASSUME NEW h \in Handoffs, ContinueStarts(t, h)
      PROVE  Served(calls[t])'
  <2>1. calls'[t] = [op |-> "continue", pc |-> "step", handoff |-> h,
                     generation |-> handoffs[h].generation, previous |-> "Absent",
                     next |-> handoffs[h].state, then |-> "continue"]
    BY <1>5 DEF ContinueStarts, Become, CallsOK
  <2>2. handoffs[h].state # "Absent"
    BY <1>5 DEF ContinueStarts
  <2>3. QED
    BY <1>0, <2>1, <2>2 DEF Served
<1>6. CASE CommandStops(t) \/ ContinueEnds(t) \/ EditorFails(t)
  BY <1>6, FinishServed DEF CommandStops, ContinueEnds, EditorFails
<1>7. CASE EditorLists(t) \/ \E l \in Leases, target \in Devices : PrepareStarts(t, l, target)
  BY <1>7, OtherCalls DEF EditorLists, PrepareStarts, MutateOps
<1>8. QED
  BY <1>2, <1>3, <1>4, <1>5, <1>6, <1>7 DEF HandlesCall

\* What a call keeps of its handoff while its method runs.
LEMMA UsesTablesServed ==
  ASSUME AgentTypeOK, AppliedInv, NEW t \in Threads, UsesTables(t),
         \A c : Served(c) => Served(c)'
  PROVE  Served(calls[t])'
<1> USE DEF AgentTypeOK
<1>0. ASSUME NEW call, Become(t, call) PROVE calls'[t] = call
  BY <1>0 DEF Become, CallsOK
<1>1. ASSUME calls[t] \in Mutation, NEW call, Become(t, call), call.handoff = calls[t].handoff,
             call.generation = calls[t].generation, call.then = calls[t].then,
             call.pc \in {"recover", "publish"}
      PROVE  Served(calls[t])'
  <2>1. Served(calls[t])
    BY DEF AppliedInv
  <2>2. Served(call)
    BY <1>1, <2>1 DEF Served
  <2>3. Served(call)'
    BY <2>2
  <2>4. calls'[t] = call
    BY <1>0, <1>1
  <2>5. QED
    BY <2>3, <2>4 DEF Served
<1> DEFINE Moved(call) == /\ call.handoff = calls[t].handoff /\ call.generation = calls[t].generation
                          /\ call.then = calls[t].then /\ call.pc \in {"recover", "publish"}
<1>9. ASSUME calls[t] \in Mutation
      PROVE  /\ Moved([calls[t] EXCEPT !.pc = "recover"])
             /\ \A next : Moved([calls[t] EXCEPT !.pc = "publish", !.next = next])
  BY <1>9 DEF Mutation
<1>2. CASE MutationSucceeds(t)
  <2>1. calls[t] \in Mutation
    BY <1>2, CallShapes DEF MutationSucceeds, Op
  <2>2. QED
    BY <1>1, <1>2, <1>9, <2>1 DEF MutationSucceeds
<1>3. CASE RecoverStarts(t)
  <2>1. calls[t] \in Mutation
    BY <1>3, CallShapes DEF RecoverStarts, Op
  <2>2. QED
    BY <1>1, <1>3, <1>9, <2>1 DEF RecoverStarts
<1>4. CASE RecoverReturns(t)
  <2>1. calls[t] \in Mutation
    BY <1>4, CallShapes DEF RecoverReturns
  <2>2. QED
    BY <1>1, <1>4, <1>9, <2>1, FinishServed DEF RecoverReturns
<1>5. CASE RecoverActs(t) \/ RecoverForgotten(t)
  <2>1. calls' = calls
    BY <1>5 DEF RecoverActs, RecoverForgotten, agentVars
  <2>2. Served(calls[t])
    BY DEF AppliedInv
  <2>3. QED
    BY <2>1, <2>2 DEF Served
<1>6. CASE MutationFails(t)
  BY <1>6, FinishServed DEF MutationFails
<1>7. CASE EditorAborts(t)
  BY <1>7, OtherCalls DEF EditorAborts, MutateOps
<1>8. QED
  BY <1>2, <1>3, <1>4, <1>5, <1>6, <1>7 DEF UsesTables

\* The steps that keep the rows as they are, or move one by a method.
LEMMA AppliedRows ==
  ASSUME AgentTypeOK, AppliedInv, NEW t \in Threads, applied \subseteq applied',
         handoffs' = handoffs \/ TableMove(t)
  PROVE  /\ \A h \in Handoffs : handoffs'[h].state \in {"TargetVerified", "SourceReady", "Committed"}
                                  => Applied(h)'
         /\ \A c : Served(c) => Served(c)'
<1>1. \A h \in Handoffs : RowStays(t, h)
  BY RowsStay DEF TableMove
<1>2. \A c : Served(c) => Served(c)'
  <2>1. \A h \in Handoffs : handoffs[h].state # "Absent" =>
           /\ handoffs'[h].state # "Absent"
           /\ handoffs'[h].target = handoffs[h].target
           /\ handoffs'[h].generation = handoffs[h].generation
    BY <1>1 DEF RowStays
  <2>2. QED
    BY <2>1, ServedStays
<1>3. ASSUME NEW h \in Handoffs, handoffs'[h].state \in {"TargetVerified", "SourceReady", "Committed"}
      PROVE  Applied(h)'
  <2>1. RowStays(t, h)
    BY <1>1
  <2>2. handoffs[h].state # "Absent"
    BY <1>3, <2>1 DEF RowStays
  <2>3. \/ handoffs[h].state \in {"TargetVerified", "SourceReady", "Committed"}
        \/ Op(t, "verify") /\ calls[t].handoff = h
    BY <1>3, <2>1 DEF RowStays, IsPending, PendingStates
  <2>4. Applied(h)
    <3>1. CASE handoffs[h].state \in {"TargetVerified", "SourceReady", "Committed"}
      BY <3>1 DEF AppliedInv
    <3>2. CASE Op(t, "verify") /\ calls[t].handoff = h
      <4>1. calls[t] \in Mutation
        BY <3>2, CallShapes DEF Op, AgentTypeOK
      <4>2. Served(calls[t])
        BY DEF AppliedInv
      <4>3. QED
        BY <3>2, <4>1, <4>2 DEF Served, Op, At
    <3>3. QED
      BY <2>3, <3>1, <3>2
  <2>5. QED
    BY <2>1, <2>2, <2>4 DEF Applied, RowStays
<1>4. QED
  BY <1>2, <1>3

LEMMA AppliedStep ==
  ASSUME AgentTypeOK, AppliedInv, "verify" \notin LocalOps, [AgentNext]_allVars
  PROVE  AppliedInv'
<1> USE DEF AgentTypeOK
<1>1. ASSUME NEW t \in Threads, Acts(t), Served(calls[t])', \A c : Served(c) => Served(c)'
      PROVE  \A q \in Threads : Served(calls[q])'
  <2> SUFFICES ASSUME NEW q \in Threads, q # t PROVE Served(calls[q])'
    BY <1>1
  <2>1. calls'[q] = calls[q]
    BY <1>1, OthersKeepCalls
  <2>2. Served(calls[q])
    BY DEF AppliedInv
  <2>3. Served(calls[q]) => \A c : c = calls[q] => Served(c)'
    BY <1>1
  <2>4. QED
    BY <2>1, <2>2, <2>3 DEF Served
<1>2. ASSUME NEW t \in Threads, Acts(t), Served(calls[t])', applied \subseteq applied',
             handoffs' = handoffs \/ TableMove(t)
      PROVE  AppliedInv'
  <2>1. \A c : Served(c) => Served(c)'
    BY <1>2, AppliedRows
  <2>2. \A q \in Threads : Served(calls[q])'
    BY <1>1, <1>2, <2>1
  <2>3. \A h \in Handoffs : handoffs'[h].state \in {"TargetVerified", "SourceReady", "Committed"} => Applied(h)'
    BY <1>2, AppliedRows
  <2>4. QED
    BY <2>2, <2>3 DEF AppliedInv
<1>3. ASSUME NEW t \in Threads, HandlesCall(t)
      PROVE  AppliedInv'
  BY <1>2, <1>3, HandlesCallLeaves, HandlesCallServed DEF Acts, vars
<1>4. ASSUME NEW t \in Threads, UsesTables(t)
      PROVE  AppliedInv'
  <2>1. TableMove(t) /\ applied' = applied
    BY <1>4, UsesTablesMoves, UsesTablesLeaves
  <2>2. \A c : Served(c) => Served(c)'
    BY <2>1, AppliedRows
  <2>3. Served(calls[t])'
    BY <1>4, <2>2, UsesTablesServed
  <2>4. QED
    BY <1>2, <1>4, <2>1, <2>3 DEF Acts
<1>5. ASSUME NEW t \in Threads, PublishStateChanged(t)
      PROVE  AppliedInv'
  <2>1. Served(calls[t])'
    <3>1. CASE calls[t].then = "edit"
      <4>1. calls[t] \in Report
        BY <1>5, <3>1, CallShapes DEF PublishStateChanged
      <4>2. [calls[t] EXCEPT !.op = "edit", !.pc = "abort"].op = "edit"
        BY <4>1 DEF Report
      <4>3. QED
        BY <1>5, <3>1, <4>2, OtherCalls DEF PublishStateChanged, MutateOps
    <3>2. CASE calls[t].then # "edit"
      <4>1. calls[t] \in Mutation
        BY <1>5, <3>2, CallShapes DEF PublishStateChanged
      <4>2. CASE calls[t].then = "return"
        BY <1>5, <4>2, FinishServed DEF PublishStateChanged
      <4>3. CASE calls[t].then = "continue"
        <5>1. calls'[t] = [calls[t] EXCEPT !.op = "continue", !.pc = "step"]
          BY <1>5, <4>3 DEF PublishStateChanged, Become, CallsOK
        <5>2. /\ calls'[t].handoff = calls[t].handoff /\ calls'[t].generation = calls[t].generation
              /\ calls'[t].then = "continue" /\ calls'[t].pc = "step"
          BY <4>1, <4>3, <5>1 DEF Mutation
        <5>3. Served(calls[t])
          BY DEF AppliedInv
        <5>4. handoffs' = handoffs
          BY <1>5 DEF PublishStateChanged, vars
        <5>5. QED
          BY <4>1, <4>3, <5>2, <5>3, <5>4 DEF Served
      <4>4. QED
        BY <4>1, <4>2, <4>3 DEF Mutation
    <3>3. QED
      BY <3>1, <3>2
  <2>2. handoffs' = handoffs /\ applied' = applied
    BY <1>5 DEF PublishStateChanged, vars
  <2>3. QED
    BY <1>2, <1>5, <2>1, <2>2 DEF Acts
<1>6. ASSUME NEW t \in Threads, ContinueApplies(t)
      PROVE  AppliedInv'
  <2> DEFINE c == calls[t]
  <2>1. c \in Mutation /\ c.pc = "step"
    BY <1>6, CallShapes DEF ContinueApplies, Believes, At
  <2>2. c.handoff \in Handoffs /\ handoffs[c.handoff].state # "Absent"
        /\ c.generation = handoffs[c.handoff].generation
    BY <2>1 DEF AppliedInv, Served, Mutation
  <2>3. calls'[t] = [op |-> "verify", pc |-> "mutate", handoff |-> c.handoff, generation |-> c.generation,
                     previous |-> handoffs[c.handoff].state, next |-> "Absent", then |-> "continue"]
    BY <1>6 DEF ContinueApplies, StartMutation, Become, CallsOK
  <2>4. handoffs' = handoffs /\ applied' = applied \cup {c.generation}
    BY <1>6 DEF ContinueApplies, vars
  <2>5. \A h : h = c.handoff => Applied(h)'
    BY <2>2, <2>4 DEF Applied
  <2>6. Served(calls[t])'
    <3>1. /\ calls'[t].pc = "mutate" /\ calls'[t].handoff = c.handoff
          /\ calls'[t].generation = handoffs'[c.handoff].generation
      BY <2>2, <2>3, <2>4
    <3>2. handoffs'[c.handoff].state # "Absent"
      BY <2>2, <2>4
    <3>3. QED
      BY <2>5, <3>1, <3>2 DEF Served, Applied
  <2>7. QED
    BY <1>2, <1>6, <2>4, <2>6 DEF Acts
<1>7. ASSUME NEW t \in Threads, PrepareCheckpoints(t) \/ EditorEdit(t) \/ EditorReturns(t)
      PROVE  AppliedInv'
  <2>1. Served(calls[t])'
    <3>1. \A edit : [op |-> "edit", pc |-> "list", edit |-> edit].op \notin MutateOps \cup {"begin", "continue"}
      BY DEF MutateOps
    <3>2. \A l, d, g : [op |-> "prepare", pc |-> "begin", lease |-> l, target |-> d, generation |-> g].op
                          \notin MutateOps \cup {"begin", "continue"}
      BY DEF MutateOps
    <3>3. CASE PrepareCheckpoints(t)
      BY <3>2, <3>3, OtherCalls DEF PrepareCheckpoints
    <3>4. CASE EditorEdit(t)
      BY <3>1, <3>4, OtherCalls DEF EditorEdit
    <3>5. CASE EditorReturns(t)
      BY <3>5, FinishServed DEF EditorReturns
    <3>6. QED
      BY <1>7, <3>3, <3>4, <3>5
  <2>2. handoffs' = handoffs /\ applied' = applied
    BY <1>7 DEF PrepareCheckpoints, EditorEdit, EditorReturns, vars
  <2>3. QED
    BY <1>2, <1>7, <2>1, <2>2 DEF Acts
<1>8. ASSUME NEW t \in Threads, Begins(t)
      PROVE  AppliedInv'
  <2>1. PICK h \in Handoffs, l \in Leases, source \in Devices, target \in Devices, g \in Generations :
          BeginFor(t, h, l, source, target, g)
    BY <1>8 DEF Begins
  <2>2. applied' = applied
    BY <2>1 DEF BeginFor
  <2>3. /\ \A k \in Handoffs \ {h} : handoffs'[k] = handoffs[k]
        /\ handoffs[h].state = "Absent" /\ handoffs'[h].state = "TargetPrepare"
    BY <2>1 DEF BeginFor, BeginHandoff, TypeOK
  <2>4. \A c : Served(c) => Served(c)'
    <3>1. \A k \in Handoffs : handoffs[k].state # "Absent" => handoffs'[k] = handoffs[k]
      BY <2>3
    <3>2. QED
      BY <2>2, <3>1, ServedStays
  <2>5. Served(calls[t])'
    <3>1. calls'[t] = [op |-> "begin", pc |-> "publish", handoff |-> h, generation |-> g,
                       previous |-> "Absent", next |-> "TargetPrepare", then |-> "return"]
      BY <2>1 DEF BeginFor, Become, CallsOK
    <3>2. QED
      BY <2>3, <3>1 DEF Served
  <2>6. \A k \in Handoffs : handoffs'[k].state \in {"TargetVerified", "SourceReady", "Committed"} => Applied(k)'
    BY <2>2, <2>3 DEF AppliedInv, Applied
  <2>7. QED
    BY <1>1, <1>8, <2>4, <2>5, <2>6 DEF AppliedInv, Acts
<1>9. CASE AgentRestarts \/ OutsideAgent \/ UNCHANGED allVars
  <2>1. handoffs' = handoffs /\ applied' = applied
    BY <1>9 DEF AgentRestarts, OutsideAgent, Tick, RevokeDevice, agentVars, allVars, vars
  <2>2. calls' = calls \/ \A q \in Threads : calls'[q] = NoCall
    BY <1>9 DEF AgentRestarts, OutsideAgent, agentVars, allVars
  <2>3. NoCall \notin Mutation
    BY DEF NoCall, Mutation, MutateOps
  <2>4. \A q \in Threads : Served(calls[q])'
    BY <2>1, <2>2, <2>3 DEF AppliedInv, Served, Applied
  <2>5. QED
    BY <2>1, <2>4 DEF AppliedInv, Applied
<1>10. QED
  BY <1>3, <1>4, <1>5, <1>6, <1>7, <1>8, <1>9, AgentCases

\* If no other client of this device reports a verification, a lease that was
\* handed to this device was handed over for work that apply_snapshot had
\* verified in its workspace.
THEOREM TargetAppliedAlways ==
  ASSUME "verify" \notin LocalOps
  PROVE  AgentSpec => []TargetAppliedBeforeCommit
<1>1. AgentInit => AppliedInv
  <2> SUFFICES ASSUME AgentInit PROVE AppliedInv
    OBVIOUS
  <2>1. \A t \in Threads : calls[t] \notin Mutation
    BY DEF AgentInit, NoCall, Mutation, MutateOps
  <2>2. QED
    BY <2>1 DEF AgentInit, Init, NoHandoff, AppliedInv, Served
<1>2. AgentTypeOK /\ AppliedInv /\ [AgentNext]_allVars => AppliedInv'
  BY AppliedStep
<1>3. AppliedInv => TargetAppliedBeforeCommit
  BY DEF AppliedInv, Applied, TargetAppliedBeforeCommit
<1>4. QED
  BY <1>1, <1>2, <1>3, AgentTypeCorrect, PTL DEF AgentSpec

-----------------------------------------------------------------------------
(* A commit is announced.  Between the commit and its event the thread     *)
(* that made it is on its way to the event: it is about to publish it, or  *)
(* its recovery has returned with the commit.                              *)

Announced(h) == \E i \in DOMAIN events : events[i].handoff = h /\ events[i].state = "Committed"

Announcing(t, h) ==
    /\ calls[t] # NoCall /\ calls[t].pc \in {"publish", "recover"}
    /\ calls[t].handoff = h /\ calls[t].previous # "Committed"
    /\ \/ calls[t].pc = "publish" /\ calls[t].next = "Committed"
       \/ /\ calls[t].pc = "recover"
          /\ recoveries[t].phase = "returned" /\ recoveries[t].outcome = "Committed"

\* What a call has read of its handoff, and the recovery that it runs.
Remembers(c) ==
    c \in Mutation /\ c.previous = "Committed" => handoffs[c.handoff].state = "Committed"
RecoversItsOwn(t) ==
    At(t, "recover") => recoveries[t] \in Recovery /\ recoveries[t].handoff = calls[t].handoff

AnnounceInv ==
    /\ \A h \in Handoffs : handoffs[h].state = "Committed" /\ boot[h] # "Committed" =>
         Announced(h) \/ \E t \in Threads : Announcing(t, h)
    /\ \A t \in Threads : Remembers(calls[t]) /\ RecoversItsOwn(t)

LEMMA OthersKeepRecoveries ==
  ASSUME AgentTypeOK, NEW t \in Threads, Acts(t)
  PROVE  \A q \in Threads \ {t} : recoveries'[q] = recoveries[q]
<1> USE DEF AgentTypeOK
<1>1. CASE recoveries' = recoveries
  BY <1>1
<1>2. CASE UsesTables(t)
  <2>1. CASE MutationSucceeds(t) \/ MutationFails(t) \/ EditorAborts(t)
    <3>1. \A h : AbortOrAborted(h) => recoveries' = recoveries
      BY DEF AbortOrAborted, AbortHandoff, vars
    <3>2. \A h : MarkHandoffTargetVerified(h) \/ MarkHandoffSourceReady(h) => recoveries' = recoveries
      BY DEF MarkHandoffTargetVerified, MarkHandoffSourceReady, UpdateHandoffState
    <3>3. \A h, g : CommitHandoff(h, g) => recoveries' = recoveries
      BY DEF CommitHandoff
    <3>4. UNCHANGED vars => recoveries' = recoveries
      BY DEF vars
    <3>5. QED
      BY <1>1, <2>1, <3>1, <3>2, <3>3, <3>4 DEF MutationSucceeds, MutationFails, EditorAborts
  <2>2. CASE RecoverStarts(t) \/ RecoverReturns(t) \/ RecoverForgotten(t)
    BY <2>2 DEF RecoverStarts, RecoverReturns, RecoverForgotten, RecoverRead, RecoverEnd, TypeOK, Threads
  <2>3. CASE RecoverActs(t)
    BY <2>3, RecoveryMoves DEF RecoverActs, Threads
  <2>4. QED
    BY <1>2, <2>1, <2>2, <2>3 DEF UsesTables
<1>3. CASE HandlesCall(t)
  BY <1>1, <1>3, HandlesCallLeaves DEF vars
<1>4. CASE Begins(t)
  BY <1>1, <1>4 DEF Begins, BeginFor, BeginHandoff
<1>5. CASE PublishStateChanged(t)
  BY <1>1, <1>5 DEF PublishStateChanged, vars
<1>6. CASE PrepareCheckpoints(t) \/ ContinueApplies(t) \/ EditorEdit(t) \/ EditorReturns(t)
  BY <1>1, <1>6 DEF PrepareCheckpoints, ContinueApplies, EditorEdit, EditorReturns, vars
<1>7. QED
  BY <1>2, <1>3, <1>4, <1>5, <1>6 DEF Acts

\* The steps of a thread that recovers a handoff or is about to publish.
LEMMA LateSteps ==
  ASSUME NEW t \in Threads, Acts(t), At(t, "recover") \/ At(t, "publish")
  PROVE  PublishStateChanged(t) \/ RecoverActs(t) \/ RecoverReturns(t)
<1>1. calls[t] # NoCall /\ calls[t].pc \notin {"mutate", "checkpoint", "begin", "step", "list", "abort"}
  BY DEF At
<1>2. ~ (\/ Idle(t) \/ At(t, "mutate") \/ At(t, "checkpoint") \/ At(t, "begin") \/ At(t, "step")
         \/ At(t, "list") \/ At(t, "abort"))
  BY <1>1 DEF Idle, At
<1>3. ~ HandlesCall(t)
  BY <1>1, <1>2 DEF HandlesCall, HandleLocalMutation, HandleRemoteMutation, PrepareStarts, CommandStops,
     ContinueStarts, ContinueSourceReady, ContinueCommits, ContinueEnds, EditorLists, EditorFails, Believes
<1>4. ~ (\/ MutationSucceeds(t) \/ MutationFails(t) \/ RecoverStarts(t) \/ RecoverForgotten(t)
         \/ EditorAborts(t))
  BY <1>1, <1>2 DEF MutationSucceeds, MutationFails, RecoverStarts, RecoverForgotten, EditorAborts, Op
<1>5. ~ (Begins(t) \/ PrepareCheckpoints(t) \/ ContinueApplies(t) \/ EditorEdit(t) \/ EditorReturns(t))
  BY <1>2 DEF Begins, PrepareCheckpoints, ContinueApplies, EditorEdit, EditorReturns, Believes
<1>6. QED
  BY <1>3, <1>4, <1>5 DEF Acts, UsesTables

\* A thread on its way to an event takes no step but the one that leads to it.
LEMMA AnnouncingSteps ==
  ASSUME NEW t \in Threads, NEW h, Acts(t), Announcing(t, h)
  PROVE  PublishStateChanged(t) \/ RecoverReturns(t)
<1>1. At(t, "recover") \/ At(t, "publish")
  BY DEF Announcing, At
<1>2. ~ RecoverActs(t)
  BY DEF RecoverActs, RecoverAbort, RecoverCommit, Announcing, At
<1>3. QED
  BY <1>1, <1>2, LateSteps

\* Where the call that a thread has after its step comes from: it is none on a
\* handoff, it was there, it goes on with what it has read, or it is new and
\* has read the handoff now.
CallMoves(t) ==
    \/ calls'[t] \notin Mutation
    \/ calls'[t] = calls[t]
    \/ /\ calls[t] \in Mutation
       /\ calls'[t].handoff = calls[t].handoff /\ calls'[t].previous = calls[t].previous
       /\ calls'[t].pc = "recover" => RecoverStarts(t)
    \/ /\ calls'[t].pc # "recover"
       /\ \/ calls'[t].previous = "Absent"
          \/ handoffs' = handoffs /\ calls'[t].previous = handoffs[calls'[t].handoff].state

LEMMA CallsMove ==
  ASSUME AgentTypeOK, NEW t \in Threads, Acts(t)
  PROVE  CallMoves(t)
<1> USE DEF AgentTypeOK
<1>0. ASSUME NEW call, Become(t, call) PROVE calls'[t] = call
  BY <1>0 DEF Become, CallsOK
<1>1. ASSUME Finish(t) PROVE CallMoves(t)
  <2>1. calls'[t] = NoCall
    BY <1>0, <1>1 DEF Finish
  <2>2. NoCall \notin Mutation
    BY DEF NoCall, Mutation, MutateOps
  <2>3. QED
    BY <2>1, <2>2 DEF CallMoves
<1>2. ASSUME NEW call, Become(t, call), call.op \in {"prepare", "edit"} PROVE CallMoves(t)
  <2>1. call \notin Mutation
    BY <1>2 DEF Mutation, MutateOps
  <2>2. QED
    BY <1>0, <1>2, <2>1 DEF CallMoves
<1>3. ASSUME NEW op, NEW h, NEW g, NEW then, StartMutation(t, op, h, g, then), handoffs' = handoffs
      PROVE  CallMoves(t)
  <2>1. calls'[t] = [op |-> op, pc |-> "mutate", handoff |-> h, generation |-> g,
                     previous |-> handoffs[h].state, next |-> "Absent", then |-> then]
    BY <1>0, <1>3 DEF StartMutation
  <2>2. calls'[t].pc = "mutate" /\ calls'[t].previous = handoffs[calls'[t].handoff].state
    BY <2>1
  <2>3. QED
    BY <1>3, <2>2 DEF CallMoves
<1>4. ASSUME NEW call, Become(t, call), call.pc # "recover", call.previous = "Absent" PROVE CallMoves(t)
  BY <1>0, <1>4 DEF CallMoves
<1>5. ASSUME NEW call, Become(t, call), calls[t] \in Mutation, call.handoff = calls[t].handoff,
             call.previous = calls[t].previous, call.pc # "recover" \/ RecoverStarts(t)
      PROVE  CallMoves(t)
  BY <1>0, <1>5 DEF CallMoves
<1> DEFINE GoesOn(call, pc) == /\ call.handoff = calls[t].handoff /\ call.previous = calls[t].previous
                               /\ call.pc = pc
<1>6. ASSUME calls[t] \in Mutation
      PROVE  /\ GoesOn([calls[t] EXCEPT !.pc = "recover"], "recover")
             /\ \A next : GoesOn([calls[t] EXCEPT !.pc = "publish", !.next = next], "publish")
             /\ GoesOn([calls[t] EXCEPT !.op = "continue", !.pc = "step"], "step")
  BY <1>6 DEF Mutation
<1>7. CASE HandlesCall(t)
  <2>1. handoffs' = handoffs
    BY <1>7, HandlesCallLeaves DEF vars
  <2>2. CASE \E op \in MutateOps, h \in Handoffs, g \in Generations :
               HandleLocalMutation(t, op, h, g) \/ HandleRemoteMutation(t, op, h, g)
    BY <1>3, <2>1, <2>2 DEF HandleLocalMutation, HandleRemoteMutation
  <2>3. CASE ContinueSourceReady(t) \/ ContinueCommits(t)
    BY <1>3, <2>1, <2>3 DEF ContinueSourceReady, ContinueCommits
  <2>4. CASE \E h \in Handoffs : ContinueStarts(t, h)
    BY <1>4, <2>4 DEF ContinueStarts
  <2>5. CASE EditorLists(t) \/ \E l \in Leases, target \in Devices : PrepareStarts(t, l, target)
    BY <1>2, <2>5 DEF EditorLists, PrepareStarts
  <2>6. CASE CommandStops(t) \/ ContinueEnds(t) \/ EditorFails(t)
    BY <1>1, <2>6 DEF CommandStops, ContinueEnds, EditorFails
  <2>7. QED
    BY <1>7, <2>2, <2>3, <2>4, <2>5, <2>6 DEF HandlesCall
<1>8. CASE MutationSucceeds(t) \/ RecoverStarts(t) \/ RecoverReturns(t)
  <2>1. calls[t] \in Mutation
    BY <1>8, CallShapes DEF MutationSucceeds, RecoverStarts, RecoverReturns, Op
  <2>2. CASE MutationSucceeds(t)
    BY <1>5, <1>6, <2>1, <2>2 DEF MutationSucceeds
  <2>3. CASE RecoverStarts(t)
    <3>1. Become(t, [calls[t] EXCEPT !.pc = "recover"])
      BY <2>3 DEF RecoverStarts
    <3>2. [calls[t] EXCEPT !.pc = "recover"].handoff = calls[t].handoff
          /\ [calls[t] EXCEPT !.pc = "recover"].previous = calls[t].previous
      BY <2>1 DEF Mutation
    <3>3. QED
      BY <1>5, <2>1, <2>3, <3>1, <3>2
  <2>4. CASE RecoverReturns(t)
    <3>1. \/ Finish(t)
          \/ Become(t, [calls[t] EXCEPT !.pc = "publish", !.next = handoffs[calls[t].handoff].state])
      BY <2>4 DEF RecoverReturns
    <3>2. QED
      BY <1>1, <1>5, <1>6, <2>1, <3>1
  <2>5. QED
    BY <1>8, <2>2, <2>3, <2>4
<1>9. CASE RecoverActs(t) \/ RecoverForgotten(t)
  BY <1>9 DEF RecoverActs, RecoverForgotten, agentVars, CallMoves
<1>10. CASE MutationFails(t) \/ EditorReturns(t)
  BY <1>1, <1>10 DEF MutationFails, EditorReturns
<1>11. CASE EditorAborts(t) \/ PrepareCheckpoints(t) \/ EditorEdit(t)
  <2>1. CASE EditorAborts(t)
    BY <1>2, <2>1 DEF EditorAborts
  <2>2. CASE PrepareCheckpoints(t)
    BY <1>2, <2>2 DEF PrepareCheckpoints
  <2>3. CASE EditorEdit(t)
    BY <1>2, <2>3 DEF EditorEdit
  <2>4. QED
    BY <1>11, <2>1, <2>2, <2>3
<1>12. CASE PublishStateChanged(t)
  <2>1. CASE calls[t].then = "edit"
    <3>1. calls[t] \in Report
      BY <1>12, <2>1, CallShapes DEF PublishStateChanged
    <3>2. [calls[t] EXCEPT !.op = "edit", !.pc = "abort"].op = "edit"
      BY <3>1 DEF Report
    <3>3. QED
      BY <1>2, <1>12, <2>1, <3>2 DEF PublishStateChanged
  <2>2. CASE calls[t].then # "edit"
    <3>1. calls[t] \in Mutation
      BY <1>12, <2>2, CallShapes DEF PublishStateChanged
    <3>2. calls[t].then \in {"return", "continue"}
      BY <3>1, <2>2 DEF Mutation
    <3>3. Finish(t) \/ Become(t, [calls[t] EXCEPT !.op = "continue", !.pc = "step"])
      BY <1>12, <3>2 DEF PublishStateChanged
    <3>4. QED
      BY <1>1, <1>5, <1>6, <3>1, <3>3
  <2>3. QED
    BY <2>1, <2>2
<1>13. CASE Begins(t)
  BY <1>4, <1>13 DEF Begins, BeginFor
<1>14. CASE ContinueApplies(t)
  <2>1. handoffs' = handoffs
    BY <1>14 DEF ContinueApplies, vars
  <2>2. QED
    BY <1>3, <1>14, <2>1 DEF ContinueApplies
<1>15. QED
  BY <1>7, <1>8, <1>9, <1>10, <1>11, <1>12, <1>13, <1>14 DEF Acts, UsesTables

\* The thread that commits a handoff is on its way to the event.
LEMMA CommitIsAnnounced ==
  ASSUME AgentTypeOK, AnnounceInv, NEW t \in Threads, UsesTables(t), NEW h \in Handoffs,
         handoffs[h].state # "Committed", handoffs'[h].state = "Committed"
  PROVE  Announcing(t, h)'
<1> USE DEF AgentTypeOK
<1>1. ASSUME NEW k \in Handoffs, NEW state, Moves(k, state), handoffs[k].state # "Absent"
      PROVE  k = h /\ state = "Committed"
  BY <1>1, MovesKeep
<1>2. handoffs' # handoffs
  OBVIOUS
<1>3. CASE MutationSucceeds(t)
  <2> DEFINE c == calls[t]
  <2>1. c \in Mutation /\ c.pc = "mutate"
    BY <1>3, CallShapes DEF MutationSucceeds, Op, At
  <2>2. c.handoff \in Handoffs
    BY <2>1 DEF Mutation
  <2>3. \E state : Moves(c.handoff, state) /\ handoffs[c.handoff].state # "Absent"
    BY <1>2, <1>3, <2>2, MethodMoves DEF MutationSucceeds, AbortOrAborted, IsPending, PendingStates, vars
  <2>4. c.handoff = h
    BY <1>1, <2>2, <2>3
  <2>5. c.previous # "Committed"
    BY <2>1, <2>4 DEF AnnounceInv, Remembers
  <2>6. calls'[t] = [c EXCEPT !.pc = "publish", !.next = handoffs'[h].state]
    BY <1>3, <2>4 DEF MutationSucceeds, Become, CallsOK
  <2>7. /\ calls'[t].pc = "publish" /\ calls'[t].handoff = h /\ calls'[t].next = "Committed"
        /\ calls'[t].previous # "Committed"
    BY <2>1, <2>4, <2>5, <2>6 DEF Mutation
  <2>8. calls'[t] # NoCall
    <3>1. calls'[t].op = c.op
      BY <2>1, <2>6 DEF Mutation
    <3>2. c.op # "none"
      BY <2>1 DEF Mutation, MutateOps
    <3>3. QED
      BY <3>1, <3>2 DEF NoCall
  <2>9. QED
    BY <2>7, <2>8 DEF Announcing
<1>4. CASE MutationFails(t)
  <2>1. calls[t] \in Mutation
    BY <1>4, CallShapes DEF MutationFails, Op
  <2>2. calls[t].handoff \in Handoffs
    BY <2>1 DEF Mutation
  <2>3. \E g : CommitHandoff(calls[t].handoff, g) /\ handoffs'[calls[t].handoff].state = "Aborted"
    BY <1>2, <1>4 DEF MutationFails, vars
  <2>4. \E state : Moves(calls[t].handoff, state) /\ handoffs[calls[t].handoff].state # "Absent"
    BY <2>2, <2>3, MethodMoves
  <2>5. QED
    BY <1>1, <2>2, <2>3, <2>4
<1>5. CASE RecoverStarts(t) \/ RecoverReturns(t) \/ RecoverForgotten(t)
  BY <1>2, <1>5 DEF RecoverStarts, RecoverReturns, RecoverForgotten, RecoverRead, RecoverEnd
<1>6. CASE RecoverActs(t)
  <2>1. At(t, "recover") /\ calls' = calls
    BY <1>6 DEF RecoverActs, agentVars
  <2>2. calls[t] \in Mutation
    BY <2>1, CallShapes
  <2>3. recoveries[t] \in Recovery /\ recoveries[t].handoff = calls[t].handoff
    BY <2>1 DEF AnnounceInv, RecoversItsOwn
  <2>4. calls[t].handoff \in Handoffs
    BY <2>2 DEF Mutation
  <2>5. /\ Return(t, "Committed")
        /\ \E state : Moves(calls[t].handoff, state) /\ handoffs[calls[t].handoff].state # "Absent"
    <3>1. \/ IsPending(calls[t].handoff) /\ Moves(calls[t].handoff, "Aborted")
          \/ /\ handoffs[calls[t].handoff].state = "SourceReady" /\ Moves(calls[t].handoff, "Committed")
             /\ Return(t, "Committed")
      BY <1>2, <1>6, <2>3, RecoveryMoves DEF RecoverActs, Threads
    <3>2. ~ (IsPending(calls[t].handoff) /\ Moves(calls[t].handoff, "Aborted"))
      BY <1>1, <2>4 DEF IsPending, PendingStates
    <3>3. QED
      BY <3>1, <3>2
  <2>6. calls[t].handoff = h
    BY <1>1, <2>4, <2>5
  <2>7. recoveries'[t].phase = "returned" /\ recoveries'[t].outcome = "Committed"
    BY <2>3, <2>5 DEF Return, TypeOK, Recovery, Threads
  <2>8. calls[t].previous # "Committed"
    BY <2>2, <2>6 DEF AnnounceInv, Remembers
  <2>9. QED
    BY <2>1, <2>6, <2>7, <2>8 DEF Announcing, At
<1>7. CASE EditorAborts(t)
  <2>1. calls[t] \in Report /\ calls[t].pc = "abort"
    BY <1>7, CallShapes DEF EditorAborts, At
  <2>2. \A x \in calls[t].todo : x.handoff \in Handoffs
    BY <2>1 DEF Report, Listed
  <2>3. PICK k \in Handoffs : AbortHandoff(k)
    BY <1>2, <1>7, <2>2 DEF EditorAborts, AbortOrAborted, vars
  <2>4. QED
    BY <1>1, <2>3, MethodMoves DEF IsPending, PendingStates
<1>8. QED
  BY <1>3, <1>4, <1>5, <1>6, <1>7 DEF UsesTables

\* A committed handoff stays committed, and only the steps on the tables
\* commit one.
LEMMA CommitsStay ==
  ASSUME AgentTypeOK, NEW t \in Threads, Acts(t), NEW h \in Handoffs
  PROVE  /\ handoffs[h].state = "Committed" => handoffs'[h].state = "Committed"
         /\ handoffs'[h].state = "Committed" => handoffs[h].state = "Committed" \/ UsesTables(t)
<1>1. CASE UsesTables(t)
  <2>1. RowStays(t, h)
    BY <1>1, UsesTablesMoves, RowsStay
  <2>2. QED
    BY <1>1, <2>1 DEF RowStays, IsPending, PendingStates
<1>2. CASE handoffs' = handoffs
  BY <1>2
<1>3. CASE Begins(t)
  <2>1. PICK k \in Handoffs : /\ handoffs[k].state = "Absent" /\ handoffs'[k].state = "TargetPrepare"
                              /\ \A x \in Handoffs \ {k} : handoffs'[x] = handoffs[x]
    BY <1>3 DEF Begins, BeginFor, BeginHandoff, AgentTypeOK, TypeOK
  <2>2. QED
    BY <2>1
<1>4. HandlesCall(t) => handoffs' = handoffs
  BY HandlesCallLeaves DEF vars
<1>5. PublishStateChanged(t) \/ PrepareCheckpoints(t) \/ ContinueApplies(t) \/ EditorEdit(t) \/ EditorReturns(t)
        => handoffs' = handoffs
  BY DEF PublishStateChanged, PrepareCheckpoints, ContinueApplies, EditorEdit, EditorReturns, vars
<1>6. QED
  BY <1>1, <1>2, <1>3, <1>4, <1>5 DEF Acts

\* What the calls remember and recover.
LEMMA RemembersStep ==
  ASSUME AgentTypeOK, AgentTypeOK', AnnounceInv, NEW t \in Threads, Acts(t), NEW q \in Threads
  PROVE  (Remembers(calls[q]) /\ RecoversItsOwn(q))'
<1>0. Remembers(calls[q]) /\ RecoversItsOwn(q)
  BY DEF AnnounceInv
<1>1. CASE q # t
  <2>1. calls'[q] = calls[q] /\ recoveries'[q] = recoveries[q]
    BY <1>1, OthersKeepCalls, OthersKeepRecoveries
  <2>2. calls[q] \in Mutation => calls[q].handoff \in Handoffs
    BY DEF Mutation
  <2>3. QED
    BY <1>0, <2>1, <2>2, CommitsStay DEF Remembers, RecoversItsOwn, At
<1>2. CASE q = t
  <2>1. CallMoves(t)
    BY CallsMove
  <2>2. Remembers(calls[t])'
    <3>1. SUFFICES ASSUME calls'[t] \in Mutation, calls'[t].previous = "Committed"
                   PROVE  handoffs'[calls'[t].handoff].state = "Committed"
      BY DEF Remembers
    <3>2. calls'[t].handoff \in Handoffs
      BY <3>1 DEF Mutation
    <3>3. handoffs[calls'[t].handoff].state = "Committed"
      BY <1>0, <1>2, <2>1, <3>1 DEF CallMoves, Remembers
    <3>4. QED
      BY <3>2, <3>3, CommitsStay
  <2>3. RecoversItsOwn(t)'
    <3>1. CASE RecoverStarts(t)
      <4>1. calls[t] \in Mutation
        BY <3>1, CallShapes DEF RecoverStarts, Op, AgentTypeOK
      <4>2. calls'[t] = [calls[t] EXCEPT !.pc = "recover"]
        BY <3>1 DEF RecoverStarts, Become, AgentTypeOK, CallsOK
      <4>3. calls'[t].handoff = calls[t].handoff
        BY <4>1, <4>2 DEF Mutation
      <4>4. recoveries'[t] = [phase |-> RecoveryChoice(calls[t].handoff, now).phase,
                              handoff |-> calls[t].handoff, observed |-> calls[t].generation, at |-> now,
                              outcome |-> RecoveryChoice(calls[t].handoff, now).outcome]
        BY <3>1 DEF RecoverStarts, RecoverRead, AgentTypeOK, TypeOK, Threads
      <4>5. recoveries'[t].phase # "idle"
        BY <4>4 DEF RecoveryChoice
      <4>6. recoveries'[t] \in Recovery
        BY <4>5, PresentRecovery DEF AgentTypeOK, TypeOK, NoRecovery, Threads
      <4>7. QED
        BY <4>3, <4>4, <4>6 DEF RecoversItsOwn
    <3>2. CASE RecoverActs(t)
      <4>1. calls' = calls /\ At(t, "recover")
        BY <3>2 DEF RecoverActs, agentVars
      <4>2. recoveries[t] \in Recovery /\ recoveries[t].handoff = calls[t].handoff
        BY <1>0, <1>2, <4>1 DEF RecoversItsOwn
      <4>3. PICK outcome : Return(t, outcome)
        BY <3>2 DEF RecoverActs, RecoverAbort, RecoverCommit
      <4>4. recoveries'[t].phase = "returned" /\ recoveries'[t].handoff = recoveries[t].handoff
        BY <4>2, <4>3 DEF Return, Recovery, AgentTypeOK, TypeOK, Threads
      <4>5. recoveries'[t] \in Recovery
        BY <4>4 DEF AgentTypeOK, TypeOK, NoRecovery, Threads
      <4>6. QED
        BY <4>1, <4>2, <4>4, <4>5 DEF RecoversItsOwn
    <3>3. CASE ~ RecoverStarts(t) /\ ~ RecoverActs(t)
      <4>1. SUFFICES ASSUME At(t, "recover")' PROVE FALSE
        BY DEF RecoversItsOwn
      <4>2. calls'[t] \in Mutation
        BY <4>1, CallShapes DEF AgentTypeOK, CallsOK, At, Call, Preparation, Report
      <4>3. calls'[t].pc = "recover" /\ calls'[t] # NoCall
        BY <4>1 DEF At
      <4>4. calls'[t] = calls[t] /\ At(t, "recover")
        BY <2>1, <3>3, <4>2, <4>3 DEF CallMoves, At
      <4>5. PublishStateChanged(t) \/ RecoverReturns(t)
        BY <3>3, <4>4, LateSteps
      <4>6. ~ PublishStateChanged(t)
        BY <4>4 DEF PublishStateChanged, At
      <4>7. CASE RecoverReturns(t)
        <5>1. calls[t] \in Mutation
          BY <4>4, CallShapes DEF AgentTypeOK
        <5>2. \A next : [calls[t] EXCEPT !.pc = "publish", !.next = next].pc = "publish"
          BY <5>1 DEF Mutation
        <5>3. calls'[t] = NoCall \/ calls'[t].pc = "publish"
          BY <4>7, <5>2 DEF RecoverReturns, Finish, Become, AgentTypeOK, CallsOK
        <5>4. QED
          BY <4>3, <5>3
      <4>8. QED
        BY <4>5, <4>6, <4>7
    <3>4. QED
      BY <3>1, <3>2, <3>3
  <2>4. QED
    BY <1>2, <2>2, <2>3
<1>3. QED
  BY <1>1, <1>2

\* A thread on its way to an event stays on it, or the event is there.
LEMMA AnnouncingStep ==
  ASSUME AgentTypeOK, AgentTypeOK', AnnounceInv, NEW t \in Threads, Acts(t), NEW q \in Threads,
         NEW h \in Handoffs, handoffs[h].state = "Committed", Announcing(q, h)
  PROVE  Announced(h)' \/ Announcing(q, h)'
<1>1. CASE q # t
  <2>1. calls'[q] = calls[q] /\ recoveries'[q] = recoveries[q]
    BY <1>1, OthersKeepCalls, OthersKeepRecoveries
  <2>2. QED
    BY <2>1 DEF Announcing
<1>2. CASE q = t /\ PublishStateChanged(t)
  <2>1. calls[t].next = "Committed" /\ calls[t].handoff = h /\ calls[t].previous # "Committed"
    BY <1>2 DEF Announcing, PublishStateChanged, At
  <2>2. events' = Append(events, [handoff |-> h, state |-> "Committed"])
    BY <1>2, <2>1 DEF PublishStateChanged
  <2>3. Len(events) \in Nat
    BY DEF AgentTypeOK, EventsOK
  <2> DEFINE i == Len(events) + 1
  <2>4. i \in DOMAIN events' /\ events'[i] = [handoff |-> h, state |-> "Committed"]
    <3> DEFINE EventType == [handoff : Handoffs, state : HandoffStates]
    <3>1. events \in Seq(EventType) /\ [handoff |-> h, state |-> "Committed"] \in EventType
      BY DEF AgentTypeOK, EventsOK, HandoffStates, TerminalStates
    <3> HIDE DEF EventType
    <3>2. QED
      BY <2>2, <2>3, <3>1
  <2>5. QED
    BY <2>4 DEF Announced
<1>3. CASE q = t /\ RecoverReturns(t)
  <2>1. At(t, "recover") /\ recoveries[t].outcome # "Err" /\ calls[t].handoff = h
    BY <1>3 DEF Announcing, RecoverReturns, At
  <2>2. calls[t] \in Mutation
    BY <2>1, CallShapes DEF AgentTypeOK
  <2>3. calls'[t] = [calls[t] EXCEPT !.pc = "publish", !.next = "Committed"]
    BY <1>3, <2>1 DEF RecoverReturns, Become, AgentTypeOK, CallsOK
  <2>4. /\ calls'[t].pc = "publish" /\ calls'[t].next = "Committed" /\ calls'[t].handoff = h
        /\ calls'[t].previous = calls[t].previous /\ calls'[t].op = calls[t].op
    BY <2>1, <2>2, <2>3 DEF Mutation
  <2>5. calls'[t] # NoCall
    BY <2>2, <2>4 DEF Mutation, MutateOps, NoCall
  <2>6. QED
    BY <1>3, <2>4, <2>5 DEF Announcing
<1>4. QED
  BY <1>1, <1>2, <1>3, AnnouncingSteps

\* The log only grows while the agent runs.
LEMMA EventsGrow ==
  ASSUME AgentTypeOK, NEW t \in Threads, Acts(t), NEW h, Announced(h)
  PROVE  Announced(h)'
<1>1. CASE events' = events
  BY <1>1 DEF Announced
<1>2. CASE PublishStateChanged(t)
  <2> DEFINE EventType == [handoff : Handoffs, state : HandoffStates]
  <2>1. events \in Seq(EventType)
    BY DEF AgentTypeOK, EventsOK
  <2>2. events' = events \/ \E e \in EventType : events' = Append(events, e)
    <3>1. calls[t] \in Mutation \/ (calls[t] \in Report /\ calls[t].pc = "publish")
      BY <1>2, CallShapes DEF PublishStateChanged, At, AgentTypeOK
    <3>2. calls[t].handoff \in Handoffs /\ calls[t].next \in HandoffStates
      BY <3>1 DEF Mutation, Report
    <3>3. [handoff |-> calls[t].handoff, state |-> calls[t].next] \in EventType
      BY <3>2
    <3>4. QED
      BY <1>2, <3>3 DEF PublishStateChanged
  <2> HIDE DEF EventType
  <2>3. \A i \in DOMAIN events : i \in DOMAIN events' /\ events'[i] = events[i]
    BY <2>1, <2>2
  <2>4. QED
    BY <2>3 DEF Announced
<1>3. ~ PublishStateChanged(t) => events' = events
  BY HandlesCallLeaves, UsesTablesLeaves DEF Acts, Begins, BeginFor, PrepareCheckpoints, ContinueApplies,
     EditorEdit, EditorReturns
<1>4. QED
  BY <1>1, <1>2, <1>3

LEMMA AnnounceStep ==
  ASSUME AgentTypeOK, AgentTypeOK', AnnounceInv, [AgentNext]_allVars
  PROVE  AnnounceInv'
<1>1. ASSUME NEW t \in Threads, Acts(t)
      PROVE  AnnounceInv'
  <2>1. \A q \in Threads : (Remembers(calls[q]) /\ RecoversItsOwn(q))'
    BY <1>1, RemembersStep
  <2>2. boot' = boot
    <3>1. UsesTables(t) \/ HandlesCall(t) => boot' = boot
      BY HandlesCallLeaves, UsesTablesLeaves
    <3>2. QED
      BY <1>1, <3>1 DEF Acts, Begins, BeginFor, PublishStateChanged, PrepareCheckpoints, ContinueApplies,
         EditorEdit, EditorReturns
  <2>3. ASSUME NEW h \in Handoffs, handoffs'[h].state = "Committed", boot'[h] # "Committed"
        PROVE  Announced(h)' \/ \E q \in Threads : Announcing(q, h)'
    <3>1. CASE handoffs[h].state = "Committed"
      <4>1. Announced(h) \/ \E q \in Threads : Announcing(q, h)
        BY <2>2, <2>3, <3>1 DEF AnnounceInv
      <4>2. QED
        BY <1>1, <3>1, <4>1, AnnouncingStep, EventsGrow
    <3>2. CASE handoffs[h].state # "Committed"
      <4>1. UsesTables(t)
        BY <1>1, <2>3, <3>2, CommitsStay
      <4>2. QED
        BY <2>3, <3>2, <4>1, CommitIsAnnounced
    <3>3. QED
      BY <3>1, <3>2
  <2>4. QED
    BY <2>1, <2>3 DEF AnnounceInv
<1>2. CASE AgentRestarts
  <2>1. handoffs' = handoffs /\ boot' = [h \in Handoffs |-> handoffs[h].state]
    BY <1>2 DEF AgentRestarts, vars
  <2>2. \A q \in Threads : calls'[q] = NoCall
    BY <1>2 DEF AgentRestarts
  <2>3. NoCall \notin Mutation
    BY DEF NoCall, Mutation, MutateOps
  <2>4. \A q \in Threads : (Remembers(calls[q]) /\ RecoversItsOwn(q))'
    BY <2>2, <2>3 DEF Remembers, RecoversItsOwn, At
  <2>5. QED
    BY <2>1, <2>4 DEF AnnounceInv
<1>3. CASE OutsideAgent \/ UNCHANGED allVars
  <2>1. /\ handoffs' = handoffs /\ recoveries' = recoveries /\ calls' = calls
        /\ events' = events /\ boot' = boot
    BY <1>3 DEF OutsideAgent, Tick, RevokeDevice, agentVars, allVars, vars
  <2>2. \A q \in Threads : (Remembers(calls[q]) /\ RecoversItsOwn(q))'
    BY <2>1 DEF AnnounceInv, Remembers, RecoversItsOwn, At
  <2>3. \A h \in Handoffs : /\ Announced(h) => Announced(h)'
                            /\ \A q \in Threads : Announcing(q, h) => Announcing(q, h)'
    BY <2>1 DEF Announced, Announcing
  <2>4. QED
    BY <2>1, <2>2, <2>3 DEF AnnounceInv
<1>4. QED
  BY <1>1, <1>2, <1>3, AgentCases DEF Acts

\* With no call in progress, every handoff that was committed since the agent
\* started has its event in the log.
THEOREM CommittedAlwaysAnnounced == AgentSpec => []CommittedAnnounced
<1>1. AgentInit => AnnounceInv
  <2> SUFFICES ASSUME AgentInit PROVE AnnounceInv
    OBVIOUS
  <2>1. \A t \in Threads : calls[t] = NoCall /\ NoCall \notin Mutation
    BY DEF AgentInit, NoCall, Mutation, MutateOps
  <2>2. \A h \in Handoffs : handoffs[h].state # "Committed"
    BY DEF AgentInit, Init, NoHandoff
  <2>3. QED
    BY <2>1, <2>2 DEF AnnounceInv, Remembers, RecoversItsOwn, At
<1>2. AgentTypeOK /\ AgentTypeOK' /\ AnnounceInv /\ [AgentNext]_allVars => AnnounceInv'
  BY AnnounceStep
<1>3. AnnounceInv => CommittedAnnounced
  <2> SUFFICES ASSUME AnnounceInv, Quiet PROVE CommittedAnnounced
    BY DEF CommittedAnnounced
  <2>1. \A t \in Threads : \A h : ~ Announcing(t, h)
    BY DEF Quiet, Announcing
  <2>2. QED
    BY <2>1 DEF AnnounceInv, Announced, CommittedAnnounced
<1>4. QED
  BY <1>1, <1>2, <1>3, AgentTypeCorrect, PTL DEF AgentSpec
=============================================================================
