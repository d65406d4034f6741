--------------------------- MODULE WorkItemsProofs ---------------------------
(***************************************************************************)
(* Theorems about WorkItems, for every set of items, callers, targets and  *)
(* versions and every bound.  The inductive invariant ties each execution  *)
(* in flight to the state of its item, to the revision it will report and  *)
(* to the effects it has already recorded.                                 *)
(***************************************************************************)
EXTENDS WorkItems, SequenceTheorems, WellFoundedInduction, TLAPS

\* The roles whose effects an execution has recorded when it stands at `call'.
RolesDone(call) ==
    IF call.phase = "verifier" THEN Role
    ELSE IF call.role = 0 THEN Role \ {0} ELSE 1..(call.role - 1)

\* An execution in flight is what keeps its item where it is: the item is
\* Executing while the worker is awaited and Verifying while the verifier is,
\* the revision it carries is still the next one, and every effect before the
\* awaited one is recorded.
MatchesItem(call) ==
    /\ call.phase = "worker" => state[call.item] = "Executing"
    /\ call.phase = "verifier" => state[call.item] = "Verifying"
    /\ call.revision = Len(outcomes[call.item]) + 1
    /\ \A r \in RolesDone(call) : <<call.item, r, call.revision>> \in recorded

InFlightMatchesItem ==
    \A c \in Caller : calls[c] # Idle => MatchesItem(calls[c])

\* What is recorded was carried out.
RecordedWasPerformed == recorded \subseteq performed

\* An item has no report before it is captured or imported.
NoReportBeforeCapture ==
    \A i \in Item : state[i] = "Absent" => outcomes[i] = << >>

IInv ==
    /\ TypeOK
    /\ SingleExecution
    /\ InFlightMatchesItem
    /\ RecordedWasPerformed
    /\ RevisionsMatchEffects
    /\ ReportsRestOnEffects
    /\ RetriesReuseEffectKeys
    /\ ReviewRestsOnReport
    /\ NoReportBeforeCapture

-----------------------------------------------------------------------------

\* What an advance may start from, and the states it passes through.
LEMMA AdvanceFacts ==
    ASSUME NEW from, NEW to \in advanceTargets, CanAdvance(from, to)
    PROVE  /\ from \in advanceableStates
           /\ \A k \in DOMAIN lifecyclePathTo(from, to) :
                 lifecyclePathTo(from, to)[k] \in {"Triaged", "Planned", to}
<1> DEFINE path == lifecyclePathTo(from, to)
<1>1. path # << >>
  BY DEF CanAdvance
<1>2. from \in advanceableStates
  BY <1>1 DEF lifecyclePathTo, advanceableStates
<1>3. path \in {<<"Triaged", "Planned", to>>, <<"Planned", to>>, <<to>>}
  BY <1>1 DEF lifecyclePathTo
<1> HIDE DEF path
<1>4. \A k \in DOMAIN path : path[k] \in {"Triaged", "Planned", to}
  <2>1. CASE path = <<"Triaged", "Planned", to>>
    BY <2>1
  <2>2. CASE path = <<"Planned", to>>
    BY <2>2
  <2>3. CASE path = <<to>>
    BY <2>3
  <2> QED
    BY <1>3, <2>1, <2>2, <2>3
<1> QED
  BY <1>2, <1>4 DEF path

\* Deciding one approval of a list, under whatever number, leaves a list of
\* approvals of the same length.
LEMMA DecideType ==
    ASSUME NEW s \in Seq(Approval), NEW k, NEW st \in ApprovalState
    PROVE  [s EXCEPT ![k].state = st] \in Seq(Approval)
<1>1. DOMAIN s = 1..Len(s) /\ s \in [1..Len(s) -> Approval]
  BY LenProperties
<1>2. CASE k \in 1..Len(s)
  <2>1. s[k] \in Approval
    BY <1>1, <1>2
  <2>2. [s[k] EXCEPT !.state = st] \in Approval
    BY <2>1 DEF Approval
  <2> QED
    BY <1>2, <2>2, ExceptSeq
<1>3. CASE k \notin 1..Len(s)
  <2>1. [s EXCEPT ![k].state = st] = s
    BY <1>1, <1>3
  <2> QED
    BY <2>1
<1> QED
  BY <1>2, <1>3

\* Marking the stale Approval keeps the list a list of approvals.
LEMMA InvalidateType ==
    ASSUME TypeOK, NEW i \in Item, NEW target, NEW version
    PROVE  Invalidate(i, target, version) \in Seq(Approval)
<1> DEFINE first == Min(GrantedFor(i, target))
           stale == IF approvals[i][first].version # version
                    THEN "invalidated" ELSE "expired"
<1>1. approvals[i] \in Seq(Approval)
  BY DEF TypeOK
<1>2. stale \in ApprovalState
  BY DEF ApprovalState
<1> HIDE DEF stale, first
<1>4. [approvals[i] EXCEPT ![first].state = stale] \in Seq(Approval)
  BY <1>1, <1>2, DecideType
<1> QED
  BY <1>1, <1>4 DEF Invalidate, first, stale

\* The empty database satisfies the inductive invariant.
THEOREM InitIInv == Init => IInv
<1> SUFFICES ASSUME Init PROVE IInv
  OBVIOUS
<1>1. TypeOK
  BY BoundsAssumption DEF Init, TypeOK, Time, WorkItemState
<1>2. InFlightMatchesItem /\ SingleExecution /\ RecordedWasPerformed
  BY DEF Init, InFlightMatchesItem, SingleExecution, RecordedWasPerformed
<1>3. RevisionsMatchEffects /\ ReportsRestOnEffects /\ RetriesReuseEffectKeys
      /\ ReviewRestsOnReport /\ NoReportBeforeCapture
  BY DEF Init, RevisionsMatchEffects, ReportsRestOnEffects, RetriesReuseEffectKeys,
         ReviewRestsOnReport, NoReportBeforeCapture
<1> QED
  BY <1>1, <1>2, <1>3 DEF IInv

-----------------------------------------------------------------------------
\* Type correctness.

\* A call that is not idle is a record of an execution in flight.
LEMMA InFlightType ==
    ASSUME TypeOK, NEW c \in Caller, calls[c] # Idle
    PROVE  /\ calls[c] \in InFlight
           /\ calls[c].item \in Item
           /\ calls[c].phase \in {"worker", "verifier"}
           /\ calls[c].role \in Role
           /\ calls[c].revision \in Nat \ {0}
<1>1. calls[c] \in InFlight
  BY DEF TypeOK
<1> QED
  BY <1>1 DEF InFlight

\* Every step keeps the types, one case for each action.
LEMMA TypeStep == ASSUME TypeOK, [Next]_vars PROVE TypeOK'
<1> USE DEF itemVars, policyVars, effectVars, envVars
<1>1. ASSUME NEW i \in Item, acknowledgeCeoAction(i) PROVE TypeOK'
  BY <1>1 DEF TypeOK, acknowledgeCeoAction, WorkItemState
<1>2. ASSUME NEW i \in Item, NEW m \in MigratedState, importMigratedWorkItem(i, m)
      PROVE TypeOK'
  <2>1. state' \in [Item -> WorkItemState \cup {"Absent"}]
    BY <1>2 DEF TypeOK, importMigratedWorkItem, WorkItemState, MigratedState
  <2>2. outcomes' \in [Item -> Seq(Nat)]
    <3>1. MigratedOutcomes(m) \in Seq(Nat)
      BY DEF MigrationEffect, MigratedOutcomes
    <3> QED
      BY <1>2, <3>1 DEF TypeOK, importMigratedWorkItem
  <2> QED
    BY <1>2, <2>1, <2>2 DEF TypeOK, importMigratedWorkItem
<1>3. ASSUME NEW c \in Caller, NEW i \in Item, runControlledExecution(c, i)
      PROVE TypeOK'
  <2>1. state' \in [Item -> WorkItemState \cup {"Absent"}]
    BY <1>3 DEF TypeOK, runControlledExecution, WorkItemState
  <2>2. calls' \in [Caller -> {Idle} \cup InFlight]
    <3>1. nextOutcomeReportRevision(i) \in Nat \ {0}
      <4>1. outcomes[i] \in Seq(Nat)
        BY DEF TypeOK
      <4> QED
        BY <4>1, LenProperties DEF nextOutcomeReportRevision
    <3>2. firstRole \in Role
      BY ContributionsAssumption DEF Role, firstRole
    <3> QED
      BY <1>3, <3>1, <3>2 DEF TypeOK, runControlledExecution, InFlight
  <2> QED
    BY <1>3, <2>1, <2>2 DEF TypeOK, runControlledExecution
<1>4. ASSUME NEW c \in Caller, WorkerPerforms(c) PROVE TypeOK'
  <2>1. calls[c] # Idle
    BY <1>4 DEF WorkerPerforms, Idle
  <2> QED
    BY <1>4, <2>1, InFlightType DEF TypeOK, WorkerPerforms
<1>5. ASSUME NEW c \in Caller, WorkerReturns(c) PROVE TypeOK'
  <2>1. calls[c] # Idle
    BY <1>5 DEF WorkerReturns, Idle
  <2>2. recorded' \subseteq Item \X Role \X Nat
    BY <1>5, <2>1, InFlightType DEF TypeOK, WorkerReturns
  <2>3. CASE calls[c].role = 0
    <3>1. [calls[c] EXCEPT !.phase = "verifier"] \in InFlight
      BY <2>1, InFlightType DEF InFlight
    <3>2. calls' = [calls EXCEPT ![c] = [calls[c] EXCEPT !.phase = "verifier"]]
      BY <1>5, <2>3 DEF WorkerReturns
    <3>3. state' \in [Item -> WorkItemState \cup {"Absent"}]
      BY <1>5, <2>3 DEF TypeOK, WorkerReturns, WorkItemState
    <3> QED
      BY <1>5, <2>2, <3>1, <3>2, <3>3 DEF TypeOK, WorkerReturns
  <2>4. CASE calls[c].role # 0
    <3> DEFINE next == nextRole(calls[c].role)
    <3>1. next \in Role
      BY <2>1, <2>4, InFlightType, ContributionsAssumption DEF Role, nextRole
    <3>2. calls' = [calls EXCEPT ![c] = [calls[c] EXCEPT !.role = next]]
      BY <1>5, <2>4 DEF WorkerReturns
    <3> HIDE DEF next
    <3>3. [calls[c] EXCEPT !.role = next] \in InFlight
      BY <2>1, <3>1, InFlightType DEF InFlight
    <3> QED
      BY <1>5, <2>2, <2>4, <3>2, <3>3 DEF TypeOK, WorkerReturns
  <2> QED
    BY <2>3, <2>4
<1>6. ASSUME NEW c \in Caller, Blocks(c) PROVE TypeOK'
  BY <1>6 DEF TypeOK, Blocks, WorkItemState
<1>7. ASSUME NEW c \in Caller, recordReviewReadyOutcome(c) PROVE TypeOK'
  <2>1. calls[c] # Idle
    <3>1. calls[c].phase = "verifier"
      BY <1>7, Zenon DEF recordReviewReadyOutcome
    <3> QED
      BY <3>1 DEF Idle
  <2>2. calls[c].item \in Item /\ calls[c].revision \in Nat
    BY <2>1, InFlightType
  <2>3. Append(outcomes[calls[c].item], calls[c].revision) \in Seq(Nat)
    BY <2>2, AppendProperties DEF TypeOK
  <2> QED
    BY <1>7, <2>2, <2>3 DEF TypeOK, recordReviewReadyOutcome, WorkItemState
<1>8. ASSUME NEW i \in Item, NEW d \in reviewTargetStates, reviewWorkItem(i, d)
      PROVE TypeOK'
  BY <1>8 DEF TypeOK, reviewWorkItem, reviewTargetStates, WorkItemState
<1>9. ASSUME NEW i \in Item, stageWorkItemForApproval(i) PROVE TypeOK'
  BY <1>9 DEF TypeOK, stageWorkItemForApproval, WorkItemState
<1>10. ASSUME NEW i \in Item, NEW t \in Target, NEW v \in Version, NEW l \in BOOLEAN,
              requestAction(i, t, v, l)
       PROVE TypeOK'
  <2>1. Invalidate(i, t, v) \in Seq(Approval)
    BY InvalidateType
  <2>2. [target |-> t, version |-> v, state |-> "requested", expiresAt |-> 0] \in Approval
    BY BoundsAssumption DEF Approval, ApprovalState, Time
  <2>3. Append(Invalidate(i, t, v),
               [target |-> t, version |-> v, state |-> "requested", expiresAt |-> 0])
           \in Seq(Approval)
    BY <2>1, <2>2, AppendProperties
  <2> QED
    BY <1>10, <2>3 DEF TypeOK, requestAction, WorkItemState
<1>11. ASSUME NEW i \in Item, NEW t \in Target, NEW v \in Version, NEW l \in BOOLEAN,
              requestActionThrows(i, t, v, l)
       PROVE TypeOK'
  BY <1>11, InvalidateType DEF TypeOK, requestActionThrows
<1>12. ASSUME NEW i \in Item, NEW k \in 1..MaxApprovals, NEW e \in Time,
              grantApproval(i, k, e)
       PROVE TypeOK'
  <2> DEFINE granted == [approvals[i][k] EXCEPT !.state = "granted", !.expiresAt = e]
  <2>1. approvals[i] \in Seq(Approval) /\ k \in 1..Len(approvals[i])
    BY <1>12, LenProperties DEF TypeOK, grantApproval
  <2>2. approvals[i][k] \in Approval
    BY <2>1, ElementOfSeq
  <2>3. granted \in Approval
    BY <2>2 DEF Approval, ApprovalState
  <2>4. [approvals[i] EXCEPT ![k] = granted] \in Seq(Approval)
    BY <2>1, <2>3, ExceptSeq
  <2>5. approvals' = [approvals EXCEPT ![i] = [approvals[i] EXCEPT ![k] = granted]]
    BY <1>12, <2>1, LenProperties DEF TypeOK, grantApproval
  <2> QED
    BY <1>12, <2>4, <2>5 DEF TypeOK, grantApproval
<1>13. ASSUME NEW e \in Time, grantStandingAuthority(e) PROVE TypeOK'
  BY <1>13 DEF TypeOK, grantStandingAuthority
<1>14. CASE Tick
  BY <1>14, BoundsAssumption DEF TypeOK, Tick, Time
<1>15. ASSUME CrashLosesCalls
       PROVE  calls' \in [Caller -> {Idle} \cup InFlight] /\ crashes' \in 0..MaxCrashes
  BY <1>15, BoundsAssumption DEF TypeOK, CrashLosesCalls
<1>16. CASE Crash
  BY <1>15, <1>16 DEF TypeOK, Crash
<1>17. ASSUME NEW i \in Item, CrashInExecution(i) PROVE TypeOK'
  <2>1. PICK k \in DOMAIN lifecyclePathTo(state[i], "Executing") :
           state' = [state EXCEPT ![i] = lifecyclePathTo(state[i], "Executing")[k]]
    BY <1>17 DEF CrashInExecution
  <2>2. lifecyclePathTo(state[i], "Executing")[k] \in WorkItemState
    BY <1>17, AdvanceFacts DEF CrashInExecution, advanceTargets, WorkItemState
  <2> QED
    BY <1>15, <1>17, <2>1, <2>2 DEF TypeOK, CrashInExecution
<1>18. ASSUME NEW i \in Item, NEW t \in Target, NEW v \in Version, CrashInRequest(i, t, v)
       PROVE TypeOK'
  <2>1. state' \in [Item -> WorkItemState \cup {"Absent"}]
    <3>1. CASE UNCHANGED state
      BY <3>1 DEF TypeOK
    <3>2. CASE CanAdvance(state[i], "Awaiting Approval") /\ ~UNCHANGED state
      <4>1. PICK k \in DOMAIN lifecyclePathTo(state[i], "Awaiting Approval") :
               state' = [state EXCEPT ![i] =
                            lifecyclePathTo(state[i], "Awaiting Approval")[k]]
        BY <1>18, <3>2 DEF CrashInRequest
      <4>2. lifecyclePathTo(state[i], "Awaiting Approval")[k] \in WorkItemState
        BY <3>2, AdvanceFacts DEF advanceTargets, WorkItemState
      <4> QED
        BY <4>1, <4>2 DEF TypeOK
    <3> QED
      BY <1>18, <3>1, <3>2 DEF CrashInRequest
  <2> QED
    BY <1>15, <1>18, <2>1, InvalidateType DEF TypeOK, CrashInRequest
<1>19. CASE UNCHANGED vars
  BY <1>19 DEF TypeOK, vars
<1> QED
  BY <1>1, <1>2, <1>3, <1>4, <1>5, <1>6, <1>7, <1>8, <1>9, <1>10, <1>11, <1>12, <1>13,
     <1>14, <1>16, <1>17, <1>18, <1>19
  DEF Next, Handlers, Execution, Crashes, executeWorkItem, reworkWorkItem

-----------------------------------------------------------------------------
\* The inductive step, one lemma for each way a step can disturb the invariant.

\* No execution in flight stands on an item that is neither Executing nor
\* Verifying.
LEMMA ParkedItem ==
    ASSUME IInv, NEW i \in Item, state[i] \notin {"Executing", "Verifying"},
           NEW c \in Caller, calls[c] # Idle
    PROVE  calls[c].item # i
  BY InFlightType DEF IInv, InFlightMatchesItem, MatchesItem

\* A step that moves one parked item, or none, and at most drops calls: every
\* capture, staging, review and crash is one.
LEMMA ParkedMove ==
    ASSUME IInv, TypeOK', NEW i \in Item,
           state[i] \notin {"Executing", "Verifying"},
           NEW s, s # "Absent", state' = [state EXCEPT ![i] = s],
           s \in {"Ready for CEO Review", "Completed", "Changes Requested", "Cancelled"}
                => outcomes[i] # << >>,
           UNCHANGED <<outcomes, recorded, performed>>,
           \A c \in Caller : calls'[c] \in {calls[c], Idle}
    PROVE  IInv'
<1>1. TypeOK /\ state \in [Item -> WorkItemState \cup {"Absent"}]
  BY DEF IInv, TypeOK
<1>2. SingleExecution'
  BY DEF IInv, SingleExecution
<1>3. InFlightMatchesItem'
  <2> SUFFICES ASSUME NEW c \in Caller, calls'[c] # Idle
               PROVE  MatchesItem(calls[c])' /\ calls'[c] = calls[c]
    BY DEF InFlightMatchesItem
  <2>1. calls'[c] = calls[c] /\ calls[c] # Idle
    OBVIOUS
  <2>2. calls[c].item \in Item /\ calls[c].item # i
    BY <1>1, <2>1, ParkedItem, InFlightType
  <2>3. state'[calls[c].item] = state[calls[c].item]
    BY <1>1, <2>2
  <2>4. MatchesItem(calls[c])
    BY <2>1 DEF IInv, InFlightMatchesItem
  <2> QED
    BY <2>1, <2>3, <2>4 DEF MatchesItem, RolesDone
<1>4. RevisionsMatchEffects' /\ ReportsRestOnEffects' /\ RetriesReuseEffectKeys'
      /\ RecordedWasPerformed'
  BY DEF IInv, RevisionsMatchEffects, ReportsRestOnEffects, RetriesReuseEffectKeys,
         RecordedWasPerformed
<1>5. ReviewRestsOnReport' /\ NoReportBeforeCapture'
  BY <1>1 DEF IInv, ReviewRestsOnReport, NoReportBeforeCapture
<1> QED
  BY <1>2, <1>3, <1>4, <1>5 DEF IInv

\* A step that leaves the items, the effects and the calls alone.
LEMMA PolicyStep ==
    ASSUME IInv, TypeOK', UNCHANGED <<itemVars, effectVars, calls>>
    PROVE  IInv'
  BY DEF IInv, itemVars, effectVars, SingleExecution, InFlightMatchesItem, MatchesItem,
         RolesDone, RecordedWasPerformed, RevisionsMatchEffects, ReportsRestOnEffects,
         RetriesReuseEffectKeys, ReviewRestsOnReport, NoReportBeforeCapture

\* A report list of one.
LEMMA SingletonSeq ==
    ASSUME NEW x \in Nat, NEW s, s = <<x>>
    PROVE  Len(s) = 1 /\ s # << >> /\ DOMAIN s = {1} /\ s[1] = x
  OBVIOUS

\* A migrated item arrives with the report its state calls for, or none.
LEMMA ImportStep ==
    ASSUME IInv, TypeOK', NEW i \in Item, NEW m \in MigratedState,
           importMigratedWorkItem(i, m)
    PROVE  IInv'
<1>1. /\ state[i] = "Absent"
      /\ state' = [state EXCEPT ![i] = m]
      /\ UNCHANGED <<recorded, performed, calls>>
  BY DEF importMigratedWorkItem, effectVars
<1>2. CASE m # "Ready for CEO Review"
  <2>1. outcomes[i] = << >>
    BY <1>1 DEF IInv, NoReportBeforeCapture
  <2>2. outcomes' = outcomes
    BY <1>2, <2>1 DEF importMigratedWorkItem, MigratedOutcomes, IInv, TypeOK
  <2> QED
    BY <1>1, <1>2, <2>2, ParkedMove DEF MigratedState
<1>3. CASE m = "Ready for CEO Review"
  <2>1. outcomes' = [outcomes EXCEPT ![i] = <<MigrationEffect>>]
    BY <1>3 DEF importMigratedWorkItem, MigratedOutcomes
  <2>2. /\ TypeOK
        /\ state \in [Item -> WorkItemState \cup {"Absent"}]
        /\ outcomes \in [Item -> Seq(Nat)]
    BY DEF IInv, TypeOK
  <2>3. \A j \in Item : j # i => outcomes'[j] = outcomes[j] /\ state'[j] = state[j]
    BY <1>1, <2>1, <2>2
  <2>4. state'[i] = "Ready for CEO Review"
    BY <1>1, <1>3, <2>2
  <2>5. /\ Len(outcomes'[i]) = 1
        /\ outcomes'[i] # << >>
        /\ DOMAIN outcomes'[i] = {1}
        /\ outcomes'[i][1] = MigrationEffect
    <3>1. outcomes'[i] = <<MigrationEffect>> /\ MigrationEffect \in Nat
      BY <2>1, <2>2 DEF MigrationEffect
    <3> QED
      BY <3>1, SingletonSeq
  <2>6. SingleExecution' /\ RecordedWasPerformed'
    BY <1>1 DEF IInv, SingleExecution, RecordedWasPerformed
  <2>7. InFlightMatchesItem'
    <3> SUFFICES ASSUME NEW c \in Caller, calls[c] # Idle
                 PROVE  MatchesItem(calls[c])'
      BY <1>1 DEF InFlightMatchesItem
    <3>1. calls[c].item \in Item /\ calls[c].item # i
      BY <1>1, <2>2, ParkedItem, InFlightType
    <3>2. MatchesItem(calls[c])
      BY DEF IInv, InFlightMatchesItem
    <3> QED
      BY <1>1, <2>3, <3>1, <3>2 DEF MatchesItem, RolesDone
  <2>8. RevisionsMatchEffects' /\ ReportsRestOnEffects'
    <3> SUFFICES ASSUME NEW j \in Item, NEW k \in DOMAIN outcomes'[j]
                 PROVE  /\ outcomes'[j][k] = k \/ (k = 1 /\ outcomes'[j][k] = MigrationEffect)
                        /\ outcomes'[j][k] # MigrationEffect =>
                              \A r \in Role : <<j, r, outcomes'[j][k]>> \in recorded \cap performed
      BY <1>1 DEF RevisionsMatchEffects, ReportsRestOnEffects
    <3>1. CASE j = i
      BY <2>5, <3>1
    <3>2. CASE j # i
      BY <2>3, <3>2 DEF IInv, RevisionsMatchEffects, ReportsRestOnEffects
    <3> QED
      BY <3>1, <3>2
  <2>9. RetriesReuseEffectKeys'
    <3> SUFFICES ASSUME NEW e \in performed
                 PROVE  e[3] <= Len(outcomes'[e[1]]) + 1
      BY <1>1 DEF RetriesReuseEffectKeys
    <3>1. e[1] \in Item /\ e[3] \in Nat
      BY <2>2 DEF TypeOK
    <3>2. e[3] <= Len(outcomes[e[1]]) + 1
      BY DEF IInv, RetriesReuseEffectKeys
    <3>3. CASE e[1] = i
      <4>1. Len(outcomes[i]) = 0
        BY <1>1 DEF IInv, NoReportBeforeCapture
      <4> QED
        BY <2>5, <3>1, <3>2, <3>3, <4>1
    <3> QED
      BY <2>3, <3>1, <3>2, <3>3
  <2>10. ReviewRestsOnReport' /\ NoReportBeforeCapture'
    BY <2>3, <2>4, <2>5 DEF IInv, ReviewRestsOnReport, NoReportBeforeCapture
  <2> QED
    BY <2>6, <2>7, <2>8, <2>9, <2>10 DEF IInv
<1> QED
  BY <1>2, <1>3

\* What stays when the items keep their reports and the effects only grow.
LEMMA EffectsGrow ==
    ASSUME IInv, UNCHANGED outcomes, recorded \subseteq recorded',
           performed \subseteq performed'
    PROVE  RevisionsMatchEffects' /\ ReportsRestOnEffects'
  BY DEF IInv, RevisionsMatchEffects, ReportsRestOnEffects

\* An execution starts on a parked item with nothing of its revision recorded
\* that it still has to record.
LEMMA StartStep ==
    ASSUME IInv, TypeOK', NEW c \in Caller, NEW i \in Item, runControlledExecution(c, i)
    PROVE  IInv'
<1> DEFINE call == [phase |-> "worker", item |-> i,
                    revision |-> nextOutcomeReportRevision(i),
                    role |-> firstRole]
<1>1. /\ TypeOK
      /\ state \in [Item -> WorkItemState \cup {"Absent"}]
      /\ calls \in [Caller -> {Idle} \cup InFlight]
  BY DEF IInv, TypeOK
<1>2. /\ calls' = [calls EXCEPT ![c] = call]
      /\ state' = [state EXCEPT ![i] = "Executing"]
      /\ UNCHANGED <<outcomes, recorded, performed>>
  BY DEF runControlledExecution, effectVars
<1>3. state[i] \in advanceableStates
  BY AdvanceFacts DEF runControlledExecution, advanceTargets
<1>4. state[i] \notin {"Executing", "Verifying", "Absent"}
  BY <1>3 DEF advanceableStates
<1>5. \A d \in Caller : d # c /\ calls'[d] # Idle =>
          calls'[d] = calls[d] /\ calls[d].item \in Item /\ calls[d].item # i
  BY <1>1, <1>2, <1>4, ParkedItem, InFlightType
<1>6. calls'[c] = call
  BY <1>1, <1>2
<1>7. SingleExecution'
  BY <1>5, <1>6 DEF IInv, SingleExecution
<1>8. InFlightMatchesItem'
  <2> SUFFICES ASSUME NEW d \in Caller, calls'[d] # Idle
               PROVE  MatchesItem(calls[d])'
    BY DEF InFlightMatchesItem
  <2>1. CASE d = c
    <3>1. \A r \in RolesDone(call) : FALSE
      BY ContributionsAssumption DEF RolesDone, Role, firstRole
    <3>2. state'[i] = "Executing"
      BY <1>1, <1>2
    <3>3. call.revision = Len(outcomes'[call.item]) + 1
      BY <1>2 DEF nextOutcomeReportRevision
    <3> HIDE DEF call
    <3>4. RolesDone(calls[c])' = RolesDone(call)
      BY <1>6 DEF RolesDone
    <3>5. call.phase = "worker" /\ call.item = i
      BY DEF call
    <3> QED
      BY <1>6, <2>1, <3>1, <3>2, <3>3, <3>4, <3>5 DEF MatchesItem
  <2>2. CASE d # c
    <3>1. MatchesItem(calls[d])
      BY <1>5, <2>2 DEF IInv, InFlightMatchesItem
    <3>2. state'[calls[d].item] = state[calls[d].item]
      BY <1>1, <1>2, <1>5, <2>2
    <3> QED
      BY <1>2, <1>5, <2>2, <3>1, <3>2 DEF MatchesItem, RolesDone
  <2> QED
    BY <2>1, <2>2
<1>9. RetriesReuseEffectKeys' /\ RecordedWasPerformed'
  BY <1>2 DEF IInv, RetriesReuseEffectKeys, RecordedWasPerformed
<1>10. ReviewRestsOnReport' /\ NoReportBeforeCapture'
  BY <1>1, <1>2 DEF IInv, ReviewRestsOnReport, NoReportBeforeCapture
<1> QED
  BY <1>2, <1>7, <1>8, <1>9, <1>10, EffectsGrow DEF IInv

\* The worker carries out the awaited effect, keyed to the next revision.
LEMMA PerformStep ==
    ASSUME IInv, TypeOK', NEW c \in Caller, WorkerPerforms(c)
    PROVE  IInv'
<1> DEFINE call == calls[c]
<1>1. TypeOK
  BY DEF IInv
<1>2. /\ performed' = performed \cup {<<call.item, call.role, call.revision>>}
      /\ UNCHANGED <<state, outcomes, recorded, calls>>
  BY DEF WorkerPerforms, itemVars
<1>3. call # Idle
  BY DEF WorkerPerforms, Idle
<1>4. /\ call.item \in Item /\ call.revision \in Nat
      /\ call.revision = Len(outcomes[call.item]) + 1
  BY <1>1, <1>3, InFlightType DEF IInv, InFlightMatchesItem, MatchesItem
<1>5. RetriesReuseEffectKeys'
  <2> SUFFICES ASSUME NEW e \in performed'
               PROVE  e[3] <= Len(outcomes[e[1]]) + 1
    BY <1>2 DEF RetriesReuseEffectKeys
  <2>1. CASE e \in performed
    BY <2>1 DEF IInv, RetriesReuseEffectKeys
  <2>2. CASE e = <<call.item, call.role, call.revision>>
    BY <1>4, <2>2
  <2> QED
    BY <1>2, <2>1, <2>2
<1>6. SingleExecution' /\ InFlightMatchesItem' /\ RecordedWasPerformed'
  BY <1>2 DEF IInv, SingleExecution, InFlightMatchesItem, MatchesItem, RolesDone,
              RecordedWasPerformed
<1>7. ReviewRestsOnReport' /\ NoReportBeforeCapture'
  BY <1>2 DEF IInv, ReviewRestsOnReport, NoReportBeforeCapture
<1> QED
  BY <1>2, <1>5, <1>6, <1>7, EffectsGrow DEF IInv

\* Every execution in flight but one keeps its item apart from that one's.
LEMMA OtherCalls ==
    ASSUME IInv, NEW c \in Caller, calls[c] # Idle,
           NEW d \in Caller, d # c, calls[d] # Idle
    PROVE  calls[d].item \in Item /\ calls[d].item # calls[c].item
  BY InFlightType DEF IInv, SingleExecution

\* A receipt records one more effect of the call; after the accountable one the
\* effects of all roles are recorded.
LEMMA ReturnStep ==
    ASSUME IInv, TypeOK', NEW c \in Caller, WorkerReturns(c)
    PROVE  IInv'
<1> DEFINE call == calls[c]
           effect == <<call.item, call.role, call.revision>>
<1>1. /\ TypeOK
      /\ state \in [Item -> WorkItemState \cup {"Absent"}]
      /\ calls \in [Caller -> {Idle} \cup InFlight]
  BY DEF IInv, TypeOK
<1>2. /\ call.phase = "worker"
      /\ effect \in performed
      /\ recorded' = recorded \cup {effect}
      /\ UNCHANGED <<outcomes, performed>>
  BY DEF WorkerReturns
<1>3. call # Idle
  BY <1>2 DEF Idle
<1>4. /\ call \in InFlight
      /\ call.item \in Item
      /\ call.role \in Role
  BY <1>1, <1>3, InFlightType
<1>5. MatchesItem(call)
  BY <1>3 DEF IInv, InFlightMatchesItem
<1>6. state[call.item] = "Executing"
  BY <1>2, <1>5 DEF MatchesItem
<1>7. /\ \A d \in Caller : d # c => calls'[d] = calls[d]
      /\ calls'[c] # Idle => calls'[c].item = call.item /\ calls'[c].revision = call.revision
      /\ \A j \in Item : j # call.item => state'[j] = state[j]
      /\ state'[call.item] \in {"Executing", "Verifying"}
  <2>1. CASE call.role = 0
    <3>1. /\ calls' = [calls EXCEPT ![c] = [calls[c] EXCEPT !.phase = "verifier"]]
          /\ state' = [state EXCEPT ![call.item] = "Verifying"]
      BY <2>1 DEF WorkerReturns
    <3> QED
      BY <1>1, <1>4, <3>1 DEF InFlight
  <2>2. CASE call.role # 0
    <3> DEFINE next == nextRole(call.role)
    <3>1. /\ calls' = [calls EXCEPT ![c] = [calls[c] EXCEPT !.role = next]]
          /\ state' = state
      BY <2>2 DEF WorkerReturns
    <3> QED
      BY <1>1, <1>4, <1>6, <3>1 DEF InFlight
  <2> QED
    BY <2>1, <2>2
<1>8. SingleExecution'
  BY <1>3, <1>7 DEF IInv, SingleExecution
<1>9. MatchesItem(calls[c])'
  <2>1. CASE call.role = 0
    <3>1. /\ calls'[c] = [call EXCEPT !.phase = "verifier"]
          /\ state'[call.item] = "Verifying"
      BY <1>1, <1>4, <2>1 DEF WorkerReturns
    <3>2. /\ calls'[c].phase = "verifier"
          /\ calls'[c].item = call.item
          /\ calls'[c].revision = call.revision
      BY <1>4, <3>1 DEF InFlight
    <3>3. \A r \in Role : <<call.item, r, call.revision>> \in recorded'
      BY <1>2, <1>5, <2>1 DEF MatchesItem, RolesDone
    <3> QED
      BY <1>2, <1>5, <3>1, <3>2, <3>3 DEF MatchesItem, RolesDone
  <2>2. CASE call.role # 0
    <3> DEFINE next == nextRole(call.role)
    <3>1. /\ calls'[c] = [call EXCEPT !.role = next]
          /\ state'[call.item] = "Executing"
      BY <1>1, <1>4, <1>6, <2>2 DEF WorkerReturns
    <3>2. /\ calls'[c].phase = "worker"
          /\ calls'[c].item = call.item
          /\ calls'[c].revision = call.revision
          /\ calls'[c].role = next
      BY <1>2, <1>4, <3>1 DEF InFlight
    <3>3. \A r \in 1..call.role : <<call.item, r, call.revision>> \in recorded'
      BY <1>2, <1>4, <1>5, <2>2, ContributionsAssumption DEF MatchesItem, RolesDone, Role
    <3>4. RolesDone(calls'[c]) \subseteq 1..call.role
      BY <1>4, <2>2, <3>2, ContributionsAssumption DEF RolesDone, Role, nextRole
    <3>5. \A r \in RolesDone(calls'[c]) : <<call.item, r, call.revision>> \in recorded'
      BY <3>3, <3>4
    <3> QED
      BY <1>2, <1>5, <3>1, <3>2, <3>5 DEF MatchesItem, RolesDone
  <2> QED
    BY <2>1, <2>2
<1>10. InFlightMatchesItem'
  <2> SUFFICES ASSUME NEW d \in Caller, calls'[d] # Idle
               PROVE  MatchesItem(calls[d])'
    BY DEF InFlightMatchesItem
  <2>1. CASE d # c
    <3>1. /\ calls'[d] = calls[d]
          /\ calls[d].item \in Item
          /\ calls[d].item # call.item
      BY <1>3, <1>7, <2>1, OtherCalls
    <3>2. MatchesItem(calls[d])
      BY <3>1 DEF IInv, InFlightMatchesItem
    <3> QED
      BY <1>2, <1>7, <3>1, <3>2 DEF MatchesItem, RolesDone
  <2> QED
    BY <1>9, <2>1
<1>11. RecordedWasPerformed' /\ RetriesReuseEffectKeys'
  BY <1>2 DEF IInv, RecordedWasPerformed, RetriesReuseEffectKeys
<1>12. ReviewRestsOnReport' /\ NoReportBeforeCapture'
  BY <1>2, <1>7 DEF IInv, ReviewRestsOnReport, NoReportBeforeCapture
<1> QED
  BY <1>2, <1>8, <1>10, <1>11, <1>12, EffectsGrow DEF IInv

\* A call that ends: what holds of the others goes on holding.
LEMMA EndOfCall ==
    ASSUME IInv, TypeOK', NEW c \in Caller, calls[c] # Idle,
           calls' = [calls EXCEPT ![c] = Idle],
           UNCHANGED <<recorded, performed>>,
           \A j \in Item : j # calls[c].item =>
               state'[j] = state[j] /\ outcomes'[j] = outcomes[j]
    PROVE  SingleExecution' /\ InFlightMatchesItem'
<1>1. \A d \in Caller : calls'[d] # Idle => d # c /\ calls'[d] = calls[d]
  BY DEF IInv, TypeOK
<1>2. SingleExecution'
  BY <1>1 DEF IInv, SingleExecution
<1>3. InFlightMatchesItem'
  <2> SUFFICES ASSUME NEW d \in Caller, calls'[d] # Idle
               PROVE  MatchesItem(calls[d])'
    BY DEF InFlightMatchesItem
  <2>1. /\ calls'[d] = calls[d]
        /\ calls[d].item \in Item
        /\ calls[d].item # calls[c].item
        /\ MatchesItem(calls[d])
    BY <1>1, OtherCalls DEF IInv, InFlightMatchesItem
  <2> QED
    BY <2>1 DEF MatchesItem, RolesDone
<1> QED
  BY <1>2, <1>3

\* A failed execution leaves its item blocked and its effects recorded.
LEMMA BlockStep ==
    ASSUME IInv, TypeOK', NEW c \in Caller, Blocks(c)
    PROVE  IInv'
<1>1. /\ TypeOK
      /\ state \in [Item -> WorkItemState \cup {"Absent"}]
  BY DEF IInv, TypeOK
<1>2. /\ calls[c] # Idle
      /\ state' = [state EXCEPT ![calls[c].item] = "Waiting/Blocked"]
      /\ calls' = [calls EXCEPT ![c] = Idle]
      /\ UNCHANGED <<outcomes, recorded, performed>>
  BY DEF Blocks, effectVars
<1>3. SingleExecution' /\ InFlightMatchesItem'
  BY <1>1, <1>2, EndOfCall
<1>4. RecordedWasPerformed' /\ RetriesReuseEffectKeys'
  BY <1>2 DEF IInv, RecordedWasPerformed, RetriesReuseEffectKeys
<1>5. ReviewRestsOnReport' /\ NoReportBeforeCapture'
  BY <1>1, <1>2 DEF IInv, ReviewRestsOnReport, NoReportBeforeCapture
<1> QED
  BY <1>2, <1>3, <1>4, <1>5, EffectsGrow DEF IInv

\* What appending one revision does to a list of reports.
LEMMA AppendFacts ==
    ASSUME NEW s \in Seq(Nat), NEW e \in Nat, NEW t, t = Append(s, e)
    PROVE  /\ Len(t) = Len(s) + 1
           /\ t # << >>
           /\ DOMAIN t = 1..(Len(s) + 1)
           /\ \A k \in 1..Len(s) : t[k] = s[k]
           /\ t[Len(s) + 1] = e
           /\ DOMAIN s = 1..Len(s)
           /\ Len(s) \in Nat
<1>1. t \in Seq(Nat) /\ Len(t) = Len(s) + 1
  BY AppendProperties
<1>2. DOMAIN t = 1..Len(t) /\ DOMAIN s = 1..Len(s) /\ Len(s) \in Nat
  BY <1>1, LenProperties
<1> QED
  BY <1>1, <1>2, AppendProperties

\* The report is stored under the revision its effects were keyed to, and rests
\* on all of them.
LEMMA ReportStep ==
    ASSUME IInv, TypeOK', NEW c \in Caller, recordReviewReadyOutcome(c)
    PROVE  IInv'
<1> DEFINE i == calls[c].item
           revision == calls[c].revision
<1>1. /\ TypeOK
      /\ state \in [Item -> WorkItemState \cup {"Absent"}]
      /\ outcomes \in [Item -> Seq(Nat)]
  BY DEF IInv, TypeOK
<1>2. /\ calls[c].phase = "verifier"
      /\ outcomes' = [outcomes EXCEPT ![i] = Append(@, revision)]
      /\ state' = [state EXCEPT ![i] = "Ready for CEO Review"]
      /\ calls' = [calls EXCEPT ![c] = Idle]
      /\ UNCHANGED <<recorded, performed>>
  BY Zenon DEF recordReviewReadyOutcome, effectVars
<1>3. calls[c] # Idle
  <2>1. calls[c].phase = "verifier"
    BY <1>2, Zenon
  <2> QED
    BY <2>1 DEF Idle
<1>4. i \in Item /\ revision \in Nat \ {0}
  BY <1>1, <1>3, InFlightType
<1>5. MatchesItem(calls[c])
  BY <1>3 DEF IInv, InFlightMatchesItem
<1>6. /\ revision = Len(outcomes[i]) + 1
      /\ \A r \in Role : <<i, r, revision>> \in recorded \cap performed
  BY <1>2, <1>5 DEF MatchesItem, RolesDone, IInv, RecordedWasPerformed
<1>7. /\ outcomes'[i] = Append(outcomes[i], revision)
      /\ state'[i] = "Ready for CEO Review"
      /\ \A j \in Item : j # i => state'[j] = state[j] /\ outcomes'[j] = outcomes[j]
  BY <1>1, <1>2, <1>4
<1> HIDE DEF i, revision
<1>8. /\ Len(outcomes'[i]) = Len(outcomes[i]) + 1
      /\ outcomes'[i] # << >>
      /\ DOMAIN outcomes'[i] = 1..(Len(outcomes[i]) + 1)
      /\ \A k \in 1..Len(outcomes[i]) : outcomes'[i][k] = outcomes[i][k]
      /\ outcomes'[i][Len(outcomes[i]) + 1] = revision
      /\ DOMAIN outcomes[i] = 1..Len(outcomes[i])
      /\ Len(outcomes[i]) \in Nat
  <2>1. /\ outcomes[i] \in Seq(Nat)
        /\ revision \in Nat
        /\ outcomes'[i] = Append(outcomes[i], revision)
    BY <1>1, <1>4, <1>7
  <2> QED
    BY <2>1, AppendFacts
<1>9. SingleExecution' /\ InFlightMatchesItem'
  BY <1>2, <1>3, <1>7, EndOfCall DEF i
<1>10. RevisionsMatchEffects' /\ ReportsRestOnEffects'
  <2> SUFFICES ASSUME NEW j \in Item, NEW k \in DOMAIN outcomes'[j]
               PROVE  /\ outcomes'[j][k] = k \/ (k = 1 /\ outcomes'[j][k] = MigrationEffect)
                      /\ outcomes'[j][k] # MigrationEffect =>
                            \A r \in Role : <<j, r, outcomes'[j][k]>> \in recorded \cap performed
    BY <1>2 DEF RevisionsMatchEffects, ReportsRestOnEffects
  <2>1. CASE j # i
    BY <1>7, <2>1 DEF IInv, RevisionsMatchEffects, ReportsRestOnEffects
  <2>2. CASE j = i /\ k = Len(outcomes[i]) + 1
    BY <1>6, <1>8, <2>2
  <2>3. CASE j = i /\ k # Len(outcomes[i]) + 1
    <3>1. k \in DOMAIN outcomes[i] /\ outcomes'[i][k] = outcomes[i][k]
      BY <1>8, <2>3
    <3> QED
      BY <1>4, <2>3, <3>1 DEF IInv, RevisionsMatchEffects, ReportsRestOnEffects
  <2> QED
    BY <2>1, <2>2, <2>3
<1>11. RecordedWasPerformed'
  BY <1>2 DEF IInv, RecordedWasPerformed
<1>12. RetriesReuseEffectKeys'
  <2> SUFFICES ASSUME NEW e \in performed
               PROVE  e[3] <= Len(outcomes'[e[1]]) + 1
    BY <1>2 DEF RetriesReuseEffectKeys
  <2>1. /\ e[1] \in Item /\ e[3] \in Nat
        /\ e[3] <= Len(outcomes[e[1]]) + 1
    BY <1>1 DEF TypeOK, IInv, RetriesReuseEffectKeys
  <2>2. CASE e[1] = i
    BY <1>8, <2>1, <2>2
  <2>3. CASE e[1] # i
    BY <1>7, <2>1, <2>3
  <2> QED
    BY <2>2, <2>3
<1>13. ReviewRestsOnReport' /\ NoReportBeforeCapture'
  BY <1>7, <1>8 DEF IInv, ReviewRestsOnReport, NoReportBeforeCapture
<1> QED
  BY <1>9, <1>10, <1>11, <1>12, <1>13 DEF IInv

\* The whole next-state relation.
LEMMA StepIInv == ASSUME IInv, [Next]_vars PROVE IInv'
<1> USE DEF itemVars, policyVars, effectVars, envVars
<1>1. TypeOK'
  BY TypeStep DEF IInv
<1>2. ASSUME NEW i \in Item, acknowledgeCeoAction(i) PROVE IInv'
  BY <1>1, <1>2, ParkedMove DEF acknowledgeCeoAction
<1>3. ASSUME NEW i \in Item, NEW m \in MigratedState, importMigratedWorkItem(i, m)
      PROVE IInv'
  BY <1>1, <1>3, ImportStep
<1>4. ASSUME NEW c \in Caller, NEW i \in Item, runControlledExecution(c, i) PROVE IInv'
  BY <1>1, <1>4, StartStep
<1>5. ASSUME NEW i \in Item, NEW d \in reviewTargetStates, reviewWorkItem(i, d) PROVE IInv'
  <2>1. outcomes[i] # << >>
    BY <1>5 DEF reviewWorkItem, IInv, ReviewRestsOnReport
  <2> QED
    BY <1>1, <1>5, <2>1, ParkedMove DEF reviewWorkItem, reviewTargetStates
<1>6. ASSUME NEW i \in Item, NEW to \in advanceTargets, CanAdvance(state[i], to)
      PROVE state[i] \notin {"Executing", "Verifying"}
  BY <1>6, AdvanceFacts DEF advanceableStates
<1>7. ASSUME NEW i \in Item, stageWorkItemForApproval(i) PROVE IInv'
  BY <1>1, <1>6, <1>7, ParkedMove DEF stageWorkItemForApproval, advanceTargets
<1>8. ASSUME NEW i \in Item, NEW t \in Target, NEW v \in Version, NEW l \in BOOLEAN,
             requestAction(i, t, v, l)
      PROVE IInv'
  BY <1>1, <1>6, <1>8, ParkedMove DEF requestAction, advanceTargets
<1>9. ASSUME NEW i \in Item, NEW t \in Target, NEW v \in Version, NEW l \in BOOLEAN,
             requestActionThrows(i, t, v, l)
      PROVE IInv'
  BY <1>1, <1>9, PolicyStep DEF requestActionThrows
<1>10. ASSUME NEW i \in Item, NEW k \in 1..MaxApprovals, NEW e \in Time,
              grantApproval(i, k, e)
       PROVE IInv'
  BY <1>1, <1>10, PolicyStep DEF grantApproval
<1>11. ASSUME NEW e \in Time, grantStandingAuthority(e) PROVE IInv'
  BY <1>1, <1>11, PolicyStep DEF grantStandingAuthority
<1>12. ASSUME NEW c \in Caller,
              WorkerPerforms(c) \/ WorkerReturns(c) \/ Blocks(c) \/ recordReviewReadyOutcome(c)
       PROVE IInv'
  BY <1>1, <1>12, PerformStep, ReturnStep, BlockStep, ReportStep
<1>13. CASE Tick
  BY <1>1, <1>13, PolicyStep DEF Tick
<1>14. ASSUME NEW i \in Item, NEW s, s # "Absent", CrashLosesCalls,
              state[i] \notin {"Executing", "Verifying"},
              state' = [state EXCEPT ![i] = s],
              s \notin {"Ready for CEO Review", "Completed", "Changes Requested", "Cancelled"},
              UNCHANGED <<outcomes, recorded, performed>>
       PROVE IInv'
  BY <1>1, <1>14, ParkedMove DEF CrashLosesCalls
<1>15. ASSUME CrashLosesCalls, UNCHANGED <<state, outcomes, recorded, performed>>
       PROVE IInv'
  BY <1>1, <1>15 DEF CrashLosesCalls, IInv, SingleExecution, InFlightMatchesItem,
         RecordedWasPerformed, RevisionsMatchEffects, ReportsRestOnEffects,
         RetriesReuseEffectKeys, ReviewRestsOnReport, NoReportBeforeCapture
<1>16. CASE Crash
  BY <1>15, <1>16 DEF Crash
<1>17. ASSUME NEW i \in Item, CrashInExecution(i) PROVE IInv'
  <2>1. PICK k \in DOMAIN lifecyclePathTo(state[i], "Executing") :
           state' = [state EXCEPT ![i] = lifecyclePathTo(state[i], "Executing")[k]]
    BY <1>17 DEF CrashInExecution
  <2>2. lifecyclePathTo(state[i], "Executing")[k] \in {"Triaged", "Planned", "Executing"}
    BY <1>17, AdvanceFacts DEF CrashInExecution, advanceTargets
  <2> QED
    BY <1>6, <1>14, <1>17, <2>1, <2>2 DEF CrashInExecution, advanceTargets
<1>18. ASSUME NEW i \in Item, NEW t \in Target, NEW v \in Version, CrashInRequest(i, t, v)
       PROVE IInv'
  <2>1. CASE UNCHANGED state
    BY <1>15, <1>18, <2>1 DEF CrashInRequest
  <2>2. CASE CanAdvance(state[i], "Awaiting Approval") /\ ~UNCHANGED state
    <3>1. PICK k \in DOMAIN lifecyclePathTo(state[i], "Awaiting Approval") :
             state' = [state EXCEPT ![i] =
                          lifecyclePathTo(state[i], "Awaiting Approval")[k]]
      BY <1>18, <2>2 DEF CrashInRequest
    <3>2. lifecyclePathTo(state[i], "Awaiting Approval")[k]
             \in {"Triaged", "Planned", "Awaiting Approval"}
      BY <2>2, AdvanceFacts DEF advanceTargets
    <3> QED
      BY <1>6, <1>14, <1>18, <2>2, <3>1, <3>2 DEF CrashInRequest, advanceTargets
  <2> QED
    BY <1>18, <2>1, <2>2 DEF CrashInRequest
<1>19. CASE UNCHANGED vars
  BY <1>1, <1>19, PolicyStep DEF vars
<1> QED
  BY <1>2, <1>3, <1>4, <1>5, <1>7, <1>8, <1>9, <1>10, <1>11, <1>12, <1>13, <1>16, <1>17,
     <1>18, <1>19
  DEF Next, Handlers, Execution, Crashes, executeWorkItem, reworkWorkItem

-----------------------------------------------------------------------------

\* The inductive invariant holds in every reachable state, whatever the number
\* of items and concurrent executions, the approvals, the failures and the
\* crashes.
THEOREM Invariant == Spec => []IInv
  BY InitIInv, StepIInv, PTL DEF Spec

\* Type correctness of the gateway's tables and calls.
THEOREM TypeCorrect == Spec => []TypeOK
<1>1. IInv => TypeOK
  BY DEF IInv
<1> QED
  BY <1>1, Invariant, PTL

\* At most one execution of a Work Item is ever in flight.
THEOREM SingleExecutionHolds == Spec => []SingleExecution
<1>1. IInv => SingleExecution
  BY DEF IInv
<1> QED
  BY <1>1, Invariant, PTL

\* The revision read before an execution is the one its report is stored under.
THEOREM RevisionsMatchEffectsHolds == Spec => []RevisionsMatchEffects
<1>1. IInv => RevisionsMatchEffects
  BY DEF IInv
<1> QED
  BY <1>1, Invariant, PTL

\* Every Outcome Report rests on effects carried out and recorded under its own
\* revision, those of the collaborating executives included.
THEOREM ReportsRestOnEffectsHolds == Spec => []ReportsRestOnEffects
<1>1. IInv => ReportsRestOnEffects
  BY DEF IInv
<1> QED
  BY <1>1, Invariant, PTL

\* A retry never mints a new effect key before the revision is reported.
THEOREM RetriesReuseEffectKeysHolds == Spec => []RetriesReuseEffectKeys
<1>1. IInv => RetriesReuseEffectKeys
  BY DEF IInv
<1> QED
  BY <1>1, Invariant, PTL

\* What is under review or was reviewed has a report.
THEOREM ReviewRestsOnReportHolds == Spec => []ReviewRestsOnReport
<1>1. IInv => ReviewRestsOnReport
  BY DEF IInv
<1> QED
  BY <1>1, Invariant, PTL

-----------------------------------------------------------------------------
\* What a step may never do.

\* The last index of a list that is not empty.
LEMMA LastIndex ==
    ASSUME NEW S, NEW s \in Seq(S), s # << >>
    PROVE  Len(s) \in DOMAIN s
<1>1. Len(s) \in Nat \ {0} /\ DOMAIN s = 1..Len(s)
  BY EmptySeq, LenProperties
<1> QED
  BY <1>1

\* A step of an execution moves no other item than its own.
LEMMA ExecutionMovesItsItem ==
    ASSUME IInv, Execution, NEW j \in Item,
           state'[j] # state[j] \/ outcomes'[j] # outcomes[j]
    PROVE  \E c \in Caller : calls[c] # Idle /\ calls[c].item = j
<1> USE DEF itemVars
<1>0. /\ state \in [Item -> WorkItemState \cup {"Absent"}]
      /\ outcomes \in [Item -> Seq(Nat)]
  BY DEF IInv, TypeOK
<1>1. ASSUME NEW c \in Caller,
             WorkerPerforms(c) \/ WorkerReturns(c) \/ Blocks(c) \/ recordReviewReadyOutcome(c)
      PROVE calls[c] # Idle /\ calls[c].item = j
  <2>1. CASE WorkerPerforms(c)
    BY <2>1 DEF WorkerPerforms
  <2>2. CASE WorkerReturns(c)
    <3>1. calls[c].phase = "worker"
      BY <2>2, Zenon DEF WorkerReturns
    <3>2. calls[c] # Idle
      BY <3>1 DEF Idle
    <3>3. outcomes' = outcomes /\ (state' = state \/ state' = [state EXCEPT ![calls[c].item] = "Verifying"])
      BY <2>2 DEF WorkerReturns
    <3> QED
      BY <1>0, <3>2, <3>3
  <2>3. CASE Blocks(c)
    BY <1>0, <2>3 DEF Blocks
  <2>4. CASE recordReviewReadyOutcome(c)
    <3>1. /\ calls[c].phase = "verifier"
          /\ outcomes' = [outcomes EXCEPT ![calls[c].item] = Append(@, calls[c].revision)]
          /\ state' = [state EXCEPT ![calls[c].item] = "Ready for CEO Review"]
      BY <2>4, Zenon DEF recordReviewReadyOutcome
    <3>2. calls[c] # Idle
      <4>1. calls[c].phase = "verifier"
        BY <3>1, Zenon
      <4> QED
        BY <4>1 DEF Idle
    <3>3. calls[c].item # j => state'[j] = state[j] /\ outcomes'[j] = outcomes[j]
      BY <1>0, <3>1
    <3> QED
      BY <3>2, <3>3
  <2> QED
    BY <1>1, <2>1, <2>2, <2>3, <2>4
<1> QED
  BY <1>1 DEF Execution

\* The handlers and crashes move only parked items that may still move, and
\* leave the reports of every item but an imported one alone.
LEMMA HandlersSpareOthers ==
    ASSUME IInv, Next, NEW j \in Item, state'[j] # state[j] \/ outcomes'[j] # outcomes[j]
    PROVE  \/ state[j] = "Absent"
           \/ /\ state[j] \in advanceableStates \cup {"Ready for CEO Review"}
              /\ outcomes'[j] = outcomes[j]
           \/ \E c \in Caller : /\ calls[c] # Idle /\ calls[c].item = j
<1> USE DEF itemVars, policyVars, effectVars, envVars
<1>0. /\ state \in [Item -> WorkItemState \cup {"Absent"}]
      /\ outcomes \in [Item -> Seq(Nat)]
  BY DEF IInv, TypeOK
<1>1. ASSUME NEW i \in Item, NEW to \in advanceTargets, CanAdvance(state[i], to)
      PROVE state[i] \in advanceableStates
  BY <1>1, AdvanceFacts
<1>2. ASSUME NEW i \in Item, acknowledgeCeoAction(i) PROVE state[j] = "Absent"
  BY <1>0, <1>2 DEF acknowledgeCeoAction
<1>3. ASSUME NEW i \in Item, NEW m \in MigratedState, importMigratedWorkItem(i, m)
      PROVE state[j] = "Absent"
  BY <1>0, <1>3 DEF importMigratedWorkItem
<1>4. ASSUME NEW c \in Caller, NEW i \in Item, runControlledExecution(c, i)
      PROVE state[j] \in advanceableStates /\ outcomes'[j] = outcomes[j]
  BY <1>0, <1>1, <1>4 DEF runControlledExecution, advanceTargets
<1>5. ASSUME NEW i \in Item, NEW d \in reviewTargetStates, reviewWorkItem(i, d)
      PROVE state[j] = "Ready for CEO Review" /\ outcomes'[j] = outcomes[j]
  BY <1>0, <1>5 DEF reviewWorkItem
<1>6. ASSUME NEW i \in Item, stageWorkItemForApproval(i)
      PROVE state[j] \in advanceableStates /\ outcomes'[j] = outcomes[j]
  BY <1>0, <1>1, <1>6 DEF stageWorkItemForApproval, advanceTargets
<1>7. ASSUME NEW i \in Item, NEW t \in Target, NEW v \in Version, NEW l \in BOOLEAN,
             requestAction(i, t, v, l)
      PROVE state[j] \in advanceableStates /\ outcomes'[j] = outcomes[j]
  BY <1>0, <1>1, <1>7 DEF requestAction, advanceTargets
<1>8. ASSUME NEW i \in Item, NEW t \in Target, NEW v \in Version, NEW l \in BOOLEAN,
             requestActionThrows(i, t, v, l)
      PROVE FALSE
  BY <1>8 DEF requestActionThrows
<1>9. ASSUME NEW i \in Item, NEW k \in 1..MaxApprovals, NEW e \in Time,
             grantApproval(i, k, e)
      PROVE FALSE
  BY <1>9 DEF grantApproval
<1>10. ASSUME NEW e \in Time, grantStandingAuthority(e) PROVE FALSE
  BY <1>10 DEF grantStandingAuthority
<1>11. Execution => \E c \in Caller : calls[c] # Idle /\ calls[c].item = j
  BY ExecutionMovesItsItem
<1>12. CASE Tick
  BY <1>12 DEF Tick
<1>13. CASE Crash
  BY <1>13 DEF Crash
<1>14. ASSUME NEW i \in Item, CrashInExecution(i)
       PROVE state[j] \in advanceableStates /\ outcomes'[j] = outcomes[j]
  BY <1>0, <1>1, <1>14 DEF CrashInExecution, advanceTargets
<1>15. ASSUME NEW i \in Item, NEW t \in Target, NEW v \in Version, CrashInRequest(i, t, v)
       PROVE state[j] \in advanceableStates /\ outcomes'[j] = outcomes[j]
  BY <1>0, <1>1, <1>15 DEF CrashInRequest, advanceTargets
<1> QED
  BY <1>2, <1>3, <1>4, <1>5, <1>6, <1>7, <1>8, <1>9, <1>10, <1>11, <1>12, <1>13, <1>14, <1>15
  DEF Next, Handlers, Crashes, executeWorkItem, reworkWorkItem

\* A decided item is never moved and never reported on again.
THEOREM DecidedIsFinalHolds == Spec => DecidedIsFinal
<1>1. ASSUME IInv, [Next]_vars
      PROVE [\A i \in Item : state[i] \in {"Completed", "Cancelled"}
                => state'[i] = state[i] /\ outcomes'[i] = outcomes[i]]_vars
  <2> SUFFICES ASSUME Next, NEW i \in Item, state[i] \in {"Completed", "Cancelled"},
                      state'[i] # state[i] \/ outcomes'[i] # outcomes[i]
               PROVE  FALSE
    BY <1>1
  <2>1. \A c \in Caller : calls[c] # Idle => calls[c].item # i
    BY <1>1, ParkedItem
  <2> QED
    BY <1>1, <2>1, HandlersSpareOthers DEF advanceableStates
<1> QED
  BY <1>1, Invariant, PTL DEF Spec, DecidedIsFinal

\* An item that awaits an Approval leaves that state only towards an execution,
\* started under an Approval that is granted and has not expired.
THEOREM StagedWorkWaitsForApprovalHolds == Spec => StagedWorkWaitsForApproval
<1>1. ASSUME IInv, [Next]_vars
      PROVE [\A i \in Item :
                (state[i] = "Awaiting Approval" /\ state'[i] # "Awaiting Approval")
                   => \E k \in DOMAIN approvals[i] :
                         approvals[i][k].state = "granted" /\ Unexpired(approvals[i][k])]_vars
  <2> SUFFICES ASSUME Next, NEW i \in Item, state[i] = "Awaiting Approval",
                      state'[i] # "Awaiting Approval"
               PROVE  \E k \in DOMAIN approvals[i] :
                         approvals[i][k].state = "granted" /\ Unexpired(approvals[i][k])
    BY <1>1
  <2>1. HasEffectiveApproval(i)
    <3>0. state \in [Item -> WorkItemState \cup {"Absent"}]
      BY <1>1 DEF IInv, TypeOK
    <3>1. ASSUME NEW c \in Caller, calls[c] # Idle, calls[c].item = i PROVE FALSE
      BY <1>1, <3>1, ParkedItem
    <3>2. ASSUME NEW j \in Item, CrashInExecution(j) PROVE HasEffectiveApproval(i)
      BY <3>0, <3>2 DEF CrashInExecution
    <3>3. ASSUME NEW c \in Caller, NEW j \in Item, executeWorkItem(c, j)
          PROVE HasEffectiveApproval(i)
      BY <3>0, <3>3 DEF executeWorkItem, runControlledExecution
    <3>4. ASSUME NEW c \in Caller, NEW j \in Item, reworkWorkItem(c, j)
          PROVE FALSE
      BY <3>0, <3>4 DEF reworkWorkItem, runControlledExecution
    <3>5. ASSUME NEW j \in Item, NEW t \in Target, NEW v \in Version, CrashInRequest(j, t, v)
          PROVE FALSE
      BY <3>0, <3>5 DEF CrashInRequest, CanAdvance, lifecyclePathTo
    <3>6. Execution => \E c \in Caller : calls[c] # Idle /\ calls[c].item = i
      BY <1>1, ExecutionMovesItsItem
    <3> QED
      BY <3>0, <3>1, <3>2, <3>3, <3>4, <3>5, <3>6
      DEF Next, Handlers, Crashes, Crash, Tick, grantStandingAuthority, grantApproval,
          requestAction, requestActionThrows, stageWorkItemForApproval, reviewWorkItem,
          importMigratedWorkItem, acknowledgeCeoAction, itemVars
  <2>2. approvals[i] \in Seq(Approval) /\ approvals[i] # << >>
    BY <1>1, <2>1 DEF HasEffectiveApproval, IInv, TypeOK
  <2>3. Len(approvals[i]) \in DOMAIN approvals[i]
    BY <2>2, LastIndex
  <2> QED
    BY <2>1, <2>3 DEF HasEffectiveApproval
<1> QED
  BY <1>1, Invariant, PTL DEF Spec, StagedWorkWaitsForApproval

-----------------------------------------------------------------------------
\* Approvals

\* The first granted Approval of a target, where there is one.
LEMMA FirstGranted ==
    ASSUME TypeOK, NEW i \in Item, NEW target, GrantedFor(i, target) # {}
    PROVE  Min(GrantedFor(i, target)) \in GrantedFor(i, target)
<1> DEFINE granted == GrantedFor(i, target)
<1>1. approvals[i] \in Seq(Approval)
  BY DEF TypeOK
<1>2. DOMAIN approvals[i] = 1..Len(approvals[i]) /\ Len(approvals[i]) \in Nat
  BY <1>1, LenProperties
<1>3. granted \subseteq 1..Len(approvals[i])
  BY <1>2 DEF GrantedFor
<1> HIDE DEF granted
<1>4. granted \in SUBSET Nat
  BY <1>2, <1>3
<1> DEFINE Less == OpToRel(<, Nat)
<1>5. Less = {pair \in Nat \X Nat : pair[1] < pair[2]}
  BY DEF OpToRel
<1>6. IsWellFoundedOn(Less, Nat)
  BY NatLessThanWellFounded
<1> HIDE DEF Less
<1>7. granted # {}
  BY DEF granted
<1>8. PICK n \in granted : \A m \in granted : <<m, n>> \notin Less
  BY <1>4, <1>6, <1>7, WFMin, Zenon
<1>9. ASSUME NEW m \in granted PROVE n <= m
  <2> SUFFICES ASSUME ~(n <= m) PROVE FALSE
    OBVIOUS
  <2>1. m \in Nat /\ n \in Nat
    BY <1>4, <1>8
  <2>2. m < n
    BY <2>1
  <2>3. <<m, n>> \in Less
    BY <1>5, <2>1, <2>2
  <2> QED
    BY <1>8, <2>3
<1> QED
  BY <1>9 DEF Min, granted

\* What one Approval may become in a step.
DecidedOnce(before, after) ==
    /\ after.target = before.target /\ after.version = before.version
    /\ before.state # "requested" => after.expiresAt = before.expiresAt
    /\ before.state # after.state =>
          <<before.state, after.state>> \in
              {<<"requested", "granted">>, <<"granted", "invalidated">>,
               <<"granted", "expired">>}

\* Marking the stale Approval decides a granted one, and no other.
LEMMA InvalidateDecides ==
    ASSUME TypeOK, NEW i \in Item, NEW target, NEW version, NEW k \in DOMAIN approvals[i]
    PROVE  /\ DOMAIN Invalidate(i, target, version) = DOMAIN approvals[i]
           /\ DecidedOnce(approvals[i][k], Invalidate(i, target, version)[k])
<1> DEFINE granted == GrantedFor(i, target)
           first == Min(granted)
           stale == IF approvals[i][first].version # version
                    THEN "invalidated" ELSE "expired"
           marked == Invalidate(i, target, version)
<1>1. approvals[i] \in Seq(Approval) /\ approvals[i][k] \in Approval
  BY LenProperties DEF TypeOK
<1>2. CASE granted = {}
  <2>1. marked = approvals[i]
    BY <1>2 DEF Invalidate
  <2> QED
    BY <2>1 DEF DecidedOnce
<1>3. CASE granted # {}
  <2>1. first \in DOMAIN approvals[i] /\ approvals[i][first].state = "granted"
    <3>1. first \in granted
      BY <1>3, FirstGranted
    <3> HIDE DEF first
    <3> QED
      BY <3>1 DEF GrantedFor
  <2>2. marked = [approvals[i] EXCEPT ![first].state = stale]
    BY <1>3 DEF Invalidate
  <2>3. stale \in {"invalidated", "expired"}
    OBVIOUS
  <2> HIDE DEF first, stale, marked, granted
  <2>4. CASE k = first
    <3>1. marked[k] = [approvals[i][k] EXCEPT !.state = stale]
      BY <2>1, <2>2, <2>4
    <3>2. /\ marked[k].target = approvals[i][k].target
          /\ marked[k].version = approvals[i][k].version
          /\ marked[k].expiresAt = approvals[i][k].expiresAt
          /\ marked[k].state = stale
      BY <1>1, <3>1 DEF Approval
    <3>3. DOMAIN marked = DOMAIN approvals[i]
      BY <2>2
    <3> QED
      BY <2>1, <2>3, <2>4, <3>2, <3>3 DEF DecidedOnce, marked
  <2>5. CASE k # first
    <3>1. marked[k] = approvals[i][k] /\ DOMAIN marked = DOMAIN approvals[i]
      BY <2>2, <2>5
    <3> QED
      BY <3>1 DEF DecidedOnce, marked
  <2> QED
    BY <2>4, <2>5
<1> QED
  BY <1>2, <1>3

\* An Approval is decided once, and keeps what it was granted for: no request, no
\* grant and no crash turns a decided one back or moves its expiry.
THEOREM ApprovalsAreDecidedOnceHolds == Spec => ApprovalsAreDecidedOnce
<1> DEFINE Decided ==
        \A i \in Item : \A k \in DOMAIN approvals[i] :
            LET before == approvals[i][k]
                after == approvals'[i][k]
            IN  /\ after.target = before.target /\ after.version = before.version
                /\ before.state # "requested" => after.expiresAt = before.expiresAt
                /\ before.state # after.state =>
                      <<before.state, after.state>> \in
                          {<<"requested", "granted">>, <<"granted", "invalidated">>,
                           <<"granted", "expired">>}
<1>1. ASSUME IInv, [Next]_vars PROVE Decided
  <2> SUFFICES ASSUME NEW i \in Item, NEW k \in DOMAIN approvals[i]
               PROVE  DecidedOnce(approvals[i][k], approvals'[i][k])
    BY DEF DecidedOnce
  <2>1. /\ approvals \in [Item -> Seq(Approval)] /\ TypeOK
        /\ approvals[i] \in Seq(Approval) /\ approvals[i][k] \in Approval
    BY <1>1, LenProperties DEF IInv, TypeOK
  <2>2. ASSUME approvals'[i] = approvals[i]
        PROVE  DecidedOnce(approvals[i][k], approvals'[i][k])
    BY <2>2 DEF DecidedOnce
  <2>3. ASSUME NEW j \in Item, NEW target, NEW version, NEW lowRisk,
               requestAction(j, target, version, lowRisk)
        PROVE  DecidedOnce(approvals[i][k], approvals'[i][k])
    <3> DEFINE request == [target |-> target, version |-> version,
                           state |-> "requested", expiresAt |-> 0]
               marked == Invalidate(j, target, version)
    <3>1. approvals' = [approvals EXCEPT ![j] = Append(marked, request)]
      BY <2>3 DEF requestAction
    <3>2. marked \in Seq(Approval)
      BY <2>1, InvalidateType
    <3>3. CASE i = j
      <4>1. /\ DOMAIN marked = DOMAIN approvals[i]
            /\ DecidedOnce(approvals[i][k], marked[k])
        BY <2>1, <3>3, InvalidateDecides
      <4> HIDE DEF marked, request
      <4>2. approvals'[i] = Append(marked, request)
        BY <2>1, <3>1, <3>3
      <4>3. DOMAIN marked = 1..Len(marked)
        BY <3>2, LenProperties
      <4>4. approvals'[i][k] = marked[k]
        BY <3>2, <4>1, <4>2, <4>3
      <4> QED
        BY <4>1, <4>4
    <3>4. CASE i # j
      BY <2>1, <2>2, <3>1, <3>4
    <3> QED
      BY <3>3, <3>4
  <2>4. ASSUME NEW j \in Item, NEW target, NEW version,
               approvals' = [approvals EXCEPT ![j] = Invalidate(j, target, version)]
        PROVE  DecidedOnce(approvals[i][k], approvals'[i][k])
    <3>1. CASE i = j
      BY <2>1, <2>4, <3>1, InvalidateDecides
    <3>2. CASE i # j
      BY <2>1, <2>2, <2>4, <3>2
    <3> QED
      BY <3>1, <3>2
  <2>5. ASSUME NEW j \in Item, NEW l \in 1..MaxApprovals, NEW expiresAt \in Time,
               grantApproval(j, l, expiresAt)
        PROVE  DecidedOnce(approvals[i][k], approvals'[i][k])
    <3>1. /\ approvals[j][l].state = "requested" /\ l \in DOMAIN approvals[j]
          /\ approvals' = [approvals EXCEPT ![j][l].state = "granted",
                                            ![j][l].expiresAt = expiresAt]
      BY <2>5 DEF grantApproval, Grantable
    <3>2. CASE i = j /\ k = l
      <4>1. approvals'[i][k] = [approvals[i][k] EXCEPT !.state = "granted",
                                                       !.expiresAt = expiresAt]
        BY <2>1, <3>1, <3>2
      <4>2. /\ approvals'[i][k].target = approvals[i][k].target
            /\ approvals'[i][k].version = approvals[i][k].version
            /\ approvals'[i][k].state = "granted"
        BY <2>1, <4>1 DEF Approval
      <4> QED
        BY <3>1, <3>2, <4>2 DEF DecidedOnce
    <3>3. CASE ~(i = j /\ k = l)
      <4>1. approvals'[i][k] = approvals[i][k]
        BY <2>1, <3>1, <3>3
      <4> QED
        BY <4>1 DEF DecidedOnce
    <3> QED
      BY <3>2, <3>3
  <2>6. ASSUME NEW j \in Item, NEW target, NEW version, NEW lowRisk,
               requestActionThrows(j, target, version, lowRisk)
        PROVE  DecidedOnce(approvals[i][k], approvals'[i][k])
    BY <2>4, <2>6 DEF requestActionThrows
  <2>7. ASSUME NEW j \in Item, NEW target, NEW version, CrashInRequest(j, target, version)
        PROVE  DecidedOnce(approvals[i][k], approvals'[i][k])
    BY <2>4, <2>7 DEF CrashInRequest
  <2>8. CASE Execution
    BY <2>2, <2>8 DEF Execution, WorkerPerforms, WorkerReturns, Blocks,
                      recordReviewReadyOutcome, policyVars
  <2>9. ASSUME NEW j \in Item,
               \/ acknowledgeCeoAction(j)
               \/ \E lifecycle \in MigratedState : importMigratedWorkItem(j, lifecycle)
               \/ \E c \in Caller : executeWorkItem(c, j) \/ reworkWorkItem(c, j)
               \/ \E decided \in reviewTargetStates : reviewWorkItem(j, decided)
               \/ stageWorkItemForApproval(j)
        PROVE  UNCHANGED approvals
    BY <2>9 DEF acknowledgeCeoAction, importMigratedWorkItem, executeWorkItem, reworkWorkItem,
                runControlledExecution, reviewWorkItem, stageWorkItemForApproval, policyVars
  <2>10. CASE Tick \/ Crash \/ (\E j \in Item : CrashInExecution(j))
              \/ (\E expiresAt \in Time : grantStandingAuthority(expiresAt)) \/ UNCHANGED vars
    BY <2>2, <2>10 DEF Tick, Crash, CrashInExecution, grantStandingAuthority, policyVars, vars
  <2> QED
    BY <1>1, <2>2, <2>3, <2>5, <2>6, <2>7, <2>8, <2>9, <2>10 DEF Next, Handlers, Crashes
<1>2. IInv /\ [Next]_vars => [Decided]_vars
  BY <1>1
<1> QED
  BY <1>2, Invariant, PTL DEF Spec, ApprovalsAreDecidedOnce

\* What was there before an Append is there after it.
LEMMA AppendedPrefix ==
    ASSUME NEW s \in Seq(Nat), NEW e \in Nat
    PROVE  Len(Append(s, e)) = Len(s) + 1 /\ SubSeq(Append(s, e), 1, Len(s)) = s
<1> DEFINE t == Append(s, e)
           prefix == SubSeq(t, 1, Len(s))
<1>1. /\ Len(t) = Len(s) + 1 /\ Len(s) \in Nat /\ DOMAIN s = 1..Len(s)
      /\ \A k \in 1..Len(s) : t[k] = s[k] /\ s[k] \in Nat
  <2>1. \A k \in 1..Len(s) : s[k] \in Nat
    BY LenProperties
  <2> QED
    BY <2>1, AppendFacts
<1> HIDE DEF t
<1>2. /\ prefix \in Seq(Nat)
      /\ Len(prefix) = Len(s)
      /\ \A k \in 1..Len(s) : prefix[k] = s[k]
  <2>1. \A k \in 1..Len(s) : t[k] \in Nat
    BY <1>1
  <2>2. /\ prefix \in Seq(Nat)
        /\ Len(prefix) = IF 1 <= Len(s) THEN Len(s) - 1 + 1 ELSE 0
        /\ \A k \in 1..(Len(s) - 1 + 1) : prefix[k] = t[1 + k - 1]
    BY <1>1, <2>1, SubSeqProperties
  <2> QED
    BY <1>1, <2>2
<1>3. prefix = s
  BY <1>2, SeqEqual
<1> QED
  BY <1>1, <1>3 DEF t

\* Outcome Reports are only ever added, one revision at a time, and only on the way
\* into the CEO's review: no block, retry, review or crash rewrites one.
THEOREM ReportsAreAppendOnlyHolds == Spec => ReportsAreAppendOnly
<1> DEFINE Grown ==
        \A i \in Item : outcomes'[i] # outcomes[i] =>
            /\ Len(outcomes'[i]) = Len(outcomes[i]) + 1
            /\ SubSeq(outcomes'[i], 1, Len(outcomes[i])) = outcomes[i]
            /\ state'[i] = "Ready for CEO Review"
<1>1. ASSUME IInv, [Next]_vars PROVE Grown
  <2> SUFFICES ASSUME NEW i \in Item, outcomes'[i] # outcomes[i]
               PROVE  /\ Len(outcomes'[i]) = Len(outcomes[i]) + 1
                      /\ SubSeq(outcomes'[i], 1, Len(outcomes[i])) = outcomes[i]
                      /\ state'[i] = "Ready for CEO Review"
    OBVIOUS
  <2>1. /\ outcomes \in [Item -> Seq(Nat)] /\ outcomes[i] \in Seq(Nat)
        /\ state \in [Item -> WorkItemState \cup {"Absent"}] /\ TypeOK
    BY <1>1 DEF IInv, TypeOK
  <2>2. ASSUME NEW e \in Nat, outcomes'[i] = Append(outcomes[i], e),
               state'[i] = "Ready for CEO Review"
        PROVE  /\ Len(outcomes'[i]) = Len(outcomes[i]) + 1
               /\ SubSeq(outcomes'[i], 1, Len(outcomes[i])) = outcomes[i]
               /\ state'[i] = "Ready for CEO Review"
    BY <2>1, <2>2, AppendedPrefix
  <2>3. ASSUME NEW j \in Item, NEW lifecycle \in MigratedState,
               importMigratedWorkItem(j, lifecycle)
        PROVE  /\ outcomes'[i] = Append(outcomes[i], MigrationEffect)
               /\ state'[i] = "Ready for CEO Review"
    <3>1. /\ outcomes' = [outcomes EXCEPT ![j] = MigratedOutcomes(lifecycle)]
          /\ state' = [state EXCEPT ![j] = lifecycle] /\ state[j] = "Absent"
      BY <2>3 DEF importMigratedWorkItem
    <3>2. i = j /\ outcomes[i] = << >>
      BY <1>1, <2>1, <3>1 DEF IInv, NoReportBeforeCapture
    <3>3. outcomes'[i] = MigratedOutcomes(lifecycle) /\ state'[i] = lifecycle
      BY <2>1, <3>1, <3>2
    <3>4. lifecycle = "Ready for CEO Review" /\ outcomes'[i] = <<MigrationEffect>>
      BY <3>2, <3>3 DEF MigratedOutcomes
    <3>5. <<MigrationEffect>> = Append(<< >>, MigrationEffect)
      OBVIOUS
    <3> QED
      BY <3>2, <3>3, <3>4, <3>5
  <2>4. ASSUME NEW c \in Caller, recordReviewReadyOutcome(c)
        PROVE  /\ outcomes'[i] = Append(outcomes[i], calls[c].revision)
               /\ calls[c].revision \in Nat
               /\ state'[i] = "Ready for CEO Review"
    <3> DEFINE j == calls[c].item
               revision == calls[c].revision
    <3>1. /\ calls[c].phase = "verifier"
          /\ outcomes' = [outcomes EXCEPT ![j] = Append(@, revision)]
          /\ state' = [state EXCEPT ![j] = "Ready for CEO Review"]
      BY <2>4, Zenon DEF recordReviewReadyOutcome
    <3>2. j \in Item /\ revision \in Nat
      <4>1. calls[c].phase = "verifier"
        BY <3>1, Zenon
      <4>2. calls[c] # Idle
        BY <4>1 DEF Idle
      <4> QED
        BY <2>1, <4>2, InFlightType
    <3> HIDE DEF j, revision
    <3>3. i = j
      BY <2>1, <3>1
    <3>4. outcomes'[i] = Append(outcomes[i], revision) /\ state'[i] = "Ready for CEO Review"
      BY <2>1, <3>1, <3>3
    <3> QED
      BY <3>2, <3>4 DEF revision
  <2>5. ASSUME NEW j \in Item, NEW c \in Caller, executeWorkItem(c, j) \/ reworkWorkItem(c, j)
        PROVE  FALSE
    BY <2>5 DEF executeWorkItem, reworkWorkItem, runControlledExecution
  <2>6. ASSUME NEW j \in Item,
               \/ acknowledgeCeoAction(j)
               \/ \E decided \in reviewTargetStates : reviewWorkItem(j, decided)
               \/ stageWorkItemForApproval(j)
               \/ \E target \in Target, version \in Version, lowRisk \in BOOLEAN :
                     \/ requestAction(j, target, version, lowRisk)
                     \/ requestActionThrows(j, target, version, lowRisk)
               \/ \E k \in 1..MaxApprovals, expiresAt \in Time : grantApproval(j, k, expiresAt)
        PROVE  FALSE
    BY <2>6 DEF acknowledgeCeoAction, reviewWorkItem, stageWorkItemForApproval, requestAction,
                requestActionThrows, grantApproval, itemVars
  <2>7. ASSUME NEW c \in Caller, WorkerPerforms(c) \/ WorkerReturns(c) \/ Blocks(c)
        PROVE  FALSE
    BY <2>7 DEF WorkerPerforms, WorkerReturns, Blocks, itemVars
  <2>8. ~Tick /\ ~Crashes /\ ~UNCHANGED vars
        /\ \A expiresAt \in Time : ~grantStandingAuthority(expiresAt)
    BY DEF Tick, Crashes, Crash, CrashInExecution, CrashInRequest, grantStandingAuthority,
           itemVars, vars
  <2>9. MigrationEffect \in Nat
    BY DEF MigrationEffect
  <2> QED
    BY <1>1, <2>2, <2>3, <2>4, <2>5, <2>6, <2>7, <2>8, <2>9 DEF Next, Handlers, Execution
<1> QED
  BY <1>1, Invariant, PTL DEF Spec, ReportsAreAppendOnly
-----------------------------------------------------------------------------
\* The refinement of ReviewedWork.

\* The carried-out revisions are those with an effect of every role.
LEMMA CarriedIs ==
    ASSUME TypeOK, NEW i \in Item
    PROVE  carriedBar[i] = {r \in Nat : \A role \in Role : <<i, role, r>> \in recorded}
<1> DEFINE whole == {r \in Nat : \A role \in Role : <<i, role, r>> \in recorded}
<1>1. 0 \in Role
  BY ContributionsAssumption DEF Role
<1>2. ASSUME NEW r \in whole PROVE r \in {e[3] : e \in RecordedWhole(i)}
  <2>1. <<i, 0, r>> \in RecordedWhole(i)
    BY <1>1 DEF RecordedWhole
  <2> QED
    BY <2>1
<1>3. ASSUME NEW e \in RecordedWhole(i) PROVE e[3] \in whole
  <2>1. e \in Item \X Role \X Nat
    BY DEF TypeOK, RecordedWhole
  <2> QED
    BY <2>1 DEF RecordedWhole
<1> QED
  BY <1>2, <1>3 DEF carriedBar

\* A step that moves one item leaves the reports and the effects of all alone.
LEMMA MappedMove ==
    ASSUME TypeOK, NEW i \in Item, NEW s, state' = [state EXCEPT ![i] = s],
           UNCHANGED <<outcomes, recorded>>
    PROVE  /\ stageBar' = [stageBar EXCEPT ![i] = StageOf(s)]
           /\ stageBar[i] = StageOf(state[i])
           /\ UNCHANGED <<reportsBar, carriedBar>>
  BY DEF TypeOK, stageBar, reportsBar, carriedBar, RecordedWhole

\* The stages of the states.
LEMMA Stages ==
  /\ StageOf("Absent") = "absent"
  /\ StageOf("Ready for CEO Review") = "review"
  /\ StageOf("Changes Requested") = "Changes Requested"
  /\ StageOf("Completed") = "Completed" /\ StageOf("Cancelled") = "Cancelled"
  /\ StageOf("Captured") = "work" /\ StageOf("Triaged") = "work" /\ StageOf("Planned") = "work"
  /\ StageOf("Awaiting Approval") = "work" /\ StageOf("Executing") = "work"
  /\ StageOf("Waiting/Blocked") = "work" /\ StageOf("Verifying") = "work"
BY DEF StageOf, reviewTargetStates

\* An advance of an item that may be advanced takes it back to work, or shows
\* nothing.
LEMMA AdvanceRefines ==
    ASSUME TypeOK, NEW i \in Item, state[i] \in advanceableStates,
           NEW s \in {"Triaged", "Planned", "Awaiting Approval", "Executing"},
           state' = [state EXCEPT ![i] = s], UNCHANGED <<outcomes, recorded>>
    PROVE  [Promise!Next]_(Promise!vars)
<1>1. /\ stageBar' = [stageBar EXCEPT ![i] = "work"]
      /\ stageBar[i] = StageOf(state[i])
      /\ UNCHANGED <<reportsBar, carriedBar>>
  <2>1. StageOf(s) = "work"
    BY Zenon, Stages
  <2>2. /\ stageBar' = [stageBar EXCEPT ![i] = StageOf(s)]
        /\ stageBar[i] = StageOf(state[i])
        /\ UNCHANGED <<reportsBar, carriedBar>>
    BY Zenon, MappedMove
  <2> QED
    BY Zenon, <2>1, <2>2
<1>2. CASE state[i] = "Changes Requested"
  <2>1. stageBar[i] = "Changes Requested"
    BY <1>1, <1>2, Stages DEF reviewTargetStates
  <2>2. Promise!TakeBack(i)
    BY <1>1, <2>1 DEF Promise!TakeBack
  <2> QED
    BY <2>2 DEF Promise!Next
<1>3. CASE state[i] # "Changes Requested"
  <2>1. stageBar[i] = "work"
    BY <1>1, <1>3, Stages DEF advanceableStates
  <2>2. stageBar' = stageBar
    BY <1>1, <2>1 DEF stageBar
  <2> QED
    BY <1>1, <2>2 DEF Promise!vars
<1> QED
  BY <1>2, <1>3

\* A migrated item arrives, with a report if its state calls for one.
LEMMA ImportRefines ==
    ASSUME IInv, NEW i \in Item, NEW m \in MigratedState, importMigratedWorkItem(i, m)
    PROVE  Promise!Arrive(i) \/ Promise!ArriveReported(i)
<1>0. TypeOK
  BY DEF IInv
<1>1. /\ state[i] = "Absent" /\ outcomes[i] = << >>
      /\ state' = [state EXCEPT ![i] = m]
      /\ outcomes' = [outcomes EXCEPT ![i] = MigratedOutcomes(m)]
      /\ recorded' = recorded
  BY DEF IInv, NoReportBeforeCapture, importMigratedWorkItem, effectVars
<1>2. /\ stageBar[i] = "absent" /\ stageBar' = [stageBar EXCEPT ![i] = StageOf(m)]
      /\ carriedBar' = carriedBar
  BY <1>0, <1>1, Stages DEF TypeOK, stageBar, carriedBar, RecordedWhole
<1>3. reportsBar' = [reportsBar EXCEPT ![i] = Len(MigratedOutcomes(m))] /\ reportsBar[i] = 0
  BY <1>0, <1>1 DEF TypeOK, reportsBar
<1>4. CASE m = "Ready for CEO Review"
  <2>1. Len(MigratedOutcomes(m)) = 1
    BY <1>4 DEF MigratedOutcomes
  <2>2. StageOf(m) = "review"
    BY <1>4, Stages
  <2> QED
    BY <1>2, <1>3, <2>1, <2>2 DEF Promise!ArriveReported
<1>5. CASE m # "Ready for CEO Review"
  <2>1. Len(MigratedOutcomes(m)) = 0
    BY <1>5 DEF MigratedOutcomes
  <2>2. StageOf(m) = "work"
    BY <1>5, Stages DEF MigratedState
  <2>3. reportsBar' = reportsBar
    BY <1>3, <2>1 DEF reportsBar
  <2> QED
    BY <1>2, <2>2, <2>3 DEF Promise!Arrive
<1> QED
  BY <1>4, <1>5

\* A receipt may be the last one of the next revision.
LEMMA ReturnRefines ==
    ASSUME IInv, TypeOK', NEW c \in Caller, WorkerReturns(c)
    PROVE  [Promise!Next]_(Promise!vars)
<1> DEFINE i == calls[c].item
           n == calls[c].revision
<1>0. TypeOK
  BY DEF IInv
<1>1. calls[c].phase = "worker"
  BY Zenon DEF WorkerReturns
<1>2. calls[c] # Idle
  BY <1>1 DEF Idle
<1>3. /\ i \in Item /\ calls[c].role \in Role /\ n \in Nat \ {0}
      /\ state[i] = "Executing" /\ n = Len(outcomes[i]) + 1
  BY <1>0, <1>1, <1>2, InFlightType DEF IInv, InFlightMatchesItem, MatchesItem
<1>4. /\ recorded' = recorded \cup {<<i, calls[c].role, n>>}
      /\ outcomes' = outcomes
      /\ state' = state \/ state' = [state EXCEPT ![i] = "Verifying"]
  BY DEF WorkerReturns
<1> HIDE DEF i, n
<1>5. stageBar[i] = "work" /\ stageBar' = stageBar /\ reportsBar' = reportsBar
  <2>1. reportsBar' = reportsBar
    BY Zenon, <1>4 DEF reportsBar
  <2>2. state[i] \in {"Executing", "Verifying"} /\ state'[i] \in {"Executing", "Verifying"}
    BY <1>0, <1>3, <1>4 DEF TypeOK
  <2>3. StageOf(state[i]) = "work" /\ StageOf(state'[i]) = "work"
    BY Zenon, <2>2, Stages
  <2>4. \A j \in Item : StageOf(state'[j]) = StageOf(state[j])
    <3>1. \A j \in Item : j = i \/ state'[j] = state[j]
      BY <1>0, <1>3, <1>4 DEF TypeOK
    <3> QED
      BY Zenon, <2>3, <3>1
  <2> QED
    BY Zenon, <1>3, <2>1, <2>3, <2>4 DEF stageBar
<1>6. reportsBar[i] + 1 = n
  BY <1>3 DEF reportsBar
<1>7. ASSUME NEW j \in Item
      PROVE  \/ carriedBar'[j] = carriedBar[j]
             \/ j = i /\ carriedBar'[j] = carriedBar[j] \cup {n}
  <2>1. carriedBar[j] = {r \in Nat : \A role \in Role : <<j, role, r>> \in recorded}
    BY <1>0, CarriedIs
  <2>2. carriedBar'[j] = {r \in Nat : \A role \in Role : <<j, role, r>> \in recorded'}
    <3> DEFINE whole == {r \in Nat : \A role \in Role : <<j, role, r>> \in recorded'}
    <3>1. 0 \in Role
      BY ContributionsAssumption DEF Role
    <3>2. ASSUME NEW r \in whole PROVE r \in {e[3] : e \in RecordedWhole(j)'}
      <4>1. <<j, 0, r>> \in RecordedWhole(j)'
        BY <3>1 DEF RecordedWhole
      <4> QED
        BY <4>1
    <3>3. ASSUME NEW e \in RecordedWhole(j)' PROVE e[3] \in whole
      <4>1. e \in Item \X Role \X Nat
        BY DEF TypeOK, RecordedWhole
      <4> QED
        BY <4>1 DEF RecordedWhole
    <3> QED
      BY <3>2, <3>3 DEF carriedBar
  <2>3. \A r, role : <<j, role, r>> \in recorded' =>
           <<j, role, r>> \in recorded \/ (j = i /\ r = n)
    BY <1>4
  <2>4. \A r \in Nat : r # n \/ j # i => (r \in carriedBar'[j] <=> r \in carriedBar[j])
    BY <1>4, <2>1, <2>2, <2>3
  <2>5. n \in carriedBar[j] => n \in carriedBar'[j]
    BY <1>4, <2>1, <2>2
  <2>6. carriedBar[j] \subseteq Nat /\ carriedBar'[j] \subseteq Nat
    BY <2>1, <2>2
  <2> HIDE DEF carriedBar
  <2> QED
    BY <2>4, <2>5, <2>6
<1>8. CASE carriedBar'[i] = carriedBar[i]
  <2>1. carriedBar' = carriedBar
    BY <1>7, <1>8 DEF carriedBar
  <2> QED
    BY <1>5, <2>1 DEF Promise!vars
<1>9. CASE carriedBar'[i] = carriedBar[i] \cup {n}
  <2>1. carriedBar' = [carriedBar EXCEPT ![i] = @ \cup {n}]
    BY <1>3, <1>7, <1>9 DEF carriedBar
  <2>2. Promise!CarryOut(i)
    BY <1>5, <1>6, <2>1 DEF Promise!CarryOut
  <2> QED
    BY <1>3, <2>2 DEF Promise!Next
<1> QED
  BY <1>3, <1>7, <1>8, <1>9

\* A report is written behind all effects of its revision.
LEMMA ReportRefines ==
    ASSUME IInv, NEW c \in Caller, recordReviewReadyOutcome(c)
    PROVE  Promise!Report(calls[c].item) /\ calls[c].item \in Item
<1> DEFINE i == calls[c].item
           n == calls[c].revision
<1>0. TypeOK
  BY DEF IInv
<1>1. calls[c].phase = "verifier"
  BY Zenon DEF recordReviewReadyOutcome
<1>2. calls[c] # Idle
  BY <1>1 DEF Idle
<1>3. /\ i \in Item /\ n \in Nat \ {0}
      /\ state[i] = "Verifying" /\ n = Len(outcomes[i]) + 1
      /\ \A r \in Role : <<i, r, n>> \in recorded
  BY <1>0, <1>1, <1>2, InFlightType DEF IInv, InFlightMatchesItem, MatchesItem, RolesDone
<1>4. /\ outcomes' = [outcomes EXCEPT ![i] = Append(@, n)]
      /\ state' = [state EXCEPT ![i] = "Ready for CEO Review"]
      /\ recorded' = recorded
  BY DEF recordReviewReadyOutcome, effectVars
<1> HIDE DEF i, n
<1>5. /\ stageBar[i] = "work" /\ stageBar' = [stageBar EXCEPT ![i] = "review"]
      /\ carriedBar' = carriedBar
  BY <1>0, <1>3, <1>4, Stages DEF TypeOK, stageBar, carriedBar, RecordedWhole
<1>6. outcomes[i] \in Seq(Nat)
  BY <1>0, <1>3 DEF TypeOK
<1>7. Len(Append(outcomes[i], n)) = Len(outcomes[i]) + 1
  BY <1>3, <1>6, AppendFacts
<1>8. reportsBar' = [reportsBar EXCEPT ![i] = @ + 1]
  BY <1>0, <1>3, <1>4, <1>7 DEF TypeOK, reportsBar
<1>9. reportsBar[i] + 1 \in carriedBar[i]
  BY <1>0, <1>3, CarriedIs DEF reportsBar
<1>10. Promise!Report(i)
  BY <1>5, <1>8, <1>9 DEF Promise!Report
<1> QED
  BY <1>3, <1>10 DEF i

\* Every step of the gateway is a step of the promise, or shows nothing.
LEMMA PromiseStep == ASSUME IInv, [Next]_vars PROVE [Promise!Next]_(Promise!vars)
<1> USE DEF itemVars, policyVars, effectVars, envVars
<1>0. TypeOK /\ TypeOK'
  BY TypeStep DEF IInv
<1>1. ASSUME NEW i \in Item, acknowledgeCeoAction(i) PROVE [Promise!Next]_(Promise!vars)
  <2>1. /\ stageBar' = [stageBar EXCEPT ![i] = StageOf("Captured")]
        /\ stageBar[i] = StageOf("Absent")
        /\ UNCHANGED <<reportsBar, carriedBar>>
    BY <1>0, <1>1, MappedMove DEF acknowledgeCeoAction
  <2>2. Promise!Arrive(i)
    BY <2>1, Stages DEF Promise!Arrive
  <2> QED
    BY <2>2 DEF Promise!Next
<1>2. ASSUME NEW i \in Item, NEW m \in MigratedState, importMigratedWorkItem(i, m)
      PROVE [Promise!Next]_(Promise!vars)
  BY <1>2, ImportRefines DEF Promise!Next
<1>3. ASSUME NEW c \in Caller, NEW i \in Item, runControlledExecution(c, i)
      PROVE [Promise!Next]_(Promise!vars)
  BY <1>0, <1>3, AdvanceFacts, AdvanceRefines DEF runControlledExecution, advanceTargets
<1>4. ASSUME NEW i \in Item, NEW d \in reviewTargetStates, reviewWorkItem(i, d)
      PROVE [Promise!Next]_(Promise!vars)
  <2>1. /\ stageBar' = [stageBar EXCEPT ![i] = StageOf(d)]
        /\ stageBar[i] = StageOf("Ready for CEO Review")
        /\ UNCHANGED <<reportsBar, carriedBar>>
    BY <1>0, <1>4, MappedMove DEF reviewWorkItem
  <2>3. StageOf(d) = d
    BY Zenon, Stages DEF reviewTargetStates
  <2>2. Promise!Decide(i, d) /\ d \in Promise!Decision
    BY Zenon, <2>1, <2>3, Stages DEF Promise!Decide, Promise!Decision, reviewTargetStates
  <2> QED
    BY <2>2 DEF Promise!Next
<1>5. ASSUME NEW i \in Item, stageWorkItemForApproval(i) PROVE [Promise!Next]_(Promise!vars)
  BY <1>0, <1>5, AdvanceFacts, AdvanceRefines DEF stageWorkItemForApproval, advanceTargets
<1>6. ASSUME UNCHANGED <<state, outcomes, recorded>> PROVE [Promise!Next]_(Promise!vars)
  BY <1>6 DEF Promise!vars, stageBar, reportsBar, carriedBar, RecordedWhole
<1>7. ASSUME NEW i \in Item, NEW t \in Target, NEW v \in Version, NEW l \in BOOLEAN,
             requestAction(i, t, v, l)
      PROVE [Promise!Next]_(Promise!vars)
  <2>1. CASE state[i] = "Awaiting Approval"
    <3>1. state' = state
      BY <1>0, <1>7, <2>1 DEF TypeOK, requestAction
    <3> QED
      BY <1>6, <1>7, <3>1 DEF requestAction
  <2>2. CASE CanAdvance(state[i], "Awaiting Approval")
    BY <1>0, <1>7, <2>2, AdvanceFacts, AdvanceRefines DEF requestAction, advanceTargets
  <2> QED
    BY <1>7, <2>1, <2>2 DEF requestAction
<1>8. ASSUME NEW c \in Caller, Blocks(c) PROVE [Promise!Next]_(Promise!vars)
  <2> DEFINE i == calls[c].item
  <2>1. /\ i \in Item /\ state[i] \in {"Executing", "Verifying"}
        /\ state' = [state EXCEPT ![i] = "Waiting/Blocked"]
        /\ UNCHANGED <<outcomes, recorded>>
    BY <1>0, <1>8, InFlightType DEF Blocks, IInv, InFlightMatchesItem, MatchesItem
  <2> HIDE DEF i
  <2>4. /\ stageBar' = [stageBar EXCEPT ![i] = StageOf("Waiting/Blocked")]
        /\ stageBar[i] = StageOf(state[i])
        /\ UNCHANGED <<reportsBar, carriedBar>>
    BY Zenon, <1>0, <2>1, MappedMove
  <2>5. StageOf(state[i]) = "work" /\ StageOf("Waiting/Blocked") = "work"
    BY Zenon, <2>1, Stages
  <2>2. /\ stageBar' = [stageBar EXCEPT ![i] = "work"] /\ stageBar[i] = "work"
        /\ UNCHANGED <<reportsBar, carriedBar>>
    BY Zenon, <2>4, <2>5
  <2>3. stageBar' = stageBar
    BY <2>2 DEF stageBar
  <2> QED
    BY <2>2, <2>3 DEF Promise!vars
<1>9. ASSUME NEW c \in Caller, WorkerReturns(c) PROVE [Promise!Next]_(Promise!vars)
  BY <1>0, <1>9, ReturnRefines
<1>10. ASSUME NEW c \in Caller, recordReviewReadyOutcome(c) PROVE [Promise!Next]_(Promise!vars)
  BY <1>10, ReportRefines DEF Promise!Next
<1>11. ASSUME NEW i \in Item, CrashInExecution(i) PROVE [Promise!Next]_(Promise!vars)
  <2>1. CanAdvance(state[i], "Executing")
    BY <1>11 DEF CrashInExecution
  <2>2. PICK k \in DOMAIN lifecyclePathTo(state[i], "Executing") :
             state' = [state EXCEPT ![i] = lifecyclePathTo(state[i], "Executing")[k]]
    BY <1>11 DEF CrashInExecution
  <2> QED
    BY <1>0, <1>11, <2>1, <2>2, AdvanceFacts, AdvanceRefines DEF CrashInExecution, advanceTargets
<1>12. ASSUME NEW i \in Item, NEW t \in Target, NEW v \in Version, CrashInRequest(i, t, v)
       PROVE [Promise!Next]_(Promise!vars)
  <2>1. CASE state' = state
    BY <1>6, <1>12, <2>1 DEF CrashInRequest
  <2>2. CASE CanAdvance(state[i], "Awaiting Approval") /\ state' # state
    <3>1. PICK k \in DOMAIN lifecyclePathTo(state[i], "Awaiting Approval") :
               state' = [state EXCEPT ![i] = lifecyclePathTo(state[i], "Awaiting Approval")[k]]
      BY <1>12, <2>2 DEF CrashInRequest
    <3> QED
      BY <1>0, <1>12, <2>2, <3>1, AdvanceFacts, AdvanceRefines DEF CrashInRequest, advanceTargets
  <2> QED
    BY <1>12, <2>1, <2>2 DEF CrashInRequest
<1>13. ASSUME \/ \E i \in Item, t \in Target, v \in Version, l \in BOOLEAN :
                   requestActionThrows(i, t, v, l)
              \/ \E i \in Item, k \in 1..MaxApprovals, e \in Time : grantApproval(i, k, e)
              \/ \E e \in Time : grantStandingAuthority(e)
              \/ \E c \in Caller : WorkerPerforms(c)
              \/ Tick \/ Crash \/ UNCHANGED vars
       PROVE UNCHANGED <<state, outcomes, recorded>>
  BY <1>13 DEF requestActionThrows, grantApproval, grantStandingAuthority, WorkerPerforms, Tick,
               Crash, vars
<1> QED
  BY <1>1, <1>2, <1>3, <1>4, <1>5, <1>6, <1>7, <1>8, <1>9, <1>10, <1>11, <1>12, <1>13
  DEF Next, Handlers, Execution, Crashes, executeWorkItem, reworkWorkItem

\* OperationsGateway keeps what it promises those who submit and review work: no
\* interleaving of executions, blocks, Approvals and crashes shows anything but
\* work that is carried out, reported and decided once.
THEOREM Refinement == Spec => ImplementsReviewedWork
<1>1. Init => Promise!Init
  <2> SUFFICES ASSUME Init PROVE Promise!Init
    OBVIOUS
  <2>1. /\ state = [i \in Item |-> "Absent"] /\ outcomes = [i \in Item |-> << >>]
        /\ recorded = {}
    BY DEF Init
  <2>2. stageBar = [i \in Item |-> "absent"]
    BY <2>1, Stages DEF stageBar
  <2>3. reportsBar = [i \in Item |-> 0]
    BY <2>1 DEF reportsBar
  <2>4. carriedBar = [i \in Item |-> {}]
    BY <2>1 DEF carriedBar, RecordedWhole
  <2> QED
    BY <2>2, <2>3, <2>4 DEF Promise!Init
<1>2. IInv /\ [Next]_vars => [Promise!Next]_(Promise!vars)
  BY PromiseStep
<1> QED
  BY <1>1, <1>2, Invariant, PTL DEF Spec, Promise!Spec, ImplementsReviewedWork
=============================================================================
