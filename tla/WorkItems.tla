------------------------------ MODULE WorkItems ------------------------------
(***************************************************************************)
(* The Operations Gateway over its durable state: capture and migration of *)
(* Work Items, Approvals bound to an exact target version, controlled      *)
(* execution, Outcome Report revisions and the CEO's review                *)
(* (operations/operations-gateway.ts, operations-state.ts,                 *)
(* policy-engine.ts, work-item-lifecycle.ts).                              *)
(*                                                                         *)
(* The gateway runs in one Node process, so everything between two awaits  *)
(* is one atomic step; an execution is in flight (a member of `calls')     *)
(* while it awaits the worker or the verifier, and every other handler may *)
(* run meanwhile.  A crash drops the calls and keeps the tables.  Handlers *)
(* that end in a rejection only append to the audit trail, which is not    *)
(* modelled, and neither is the projection to Master Tasks (publish).      *)
(***************************************************************************)
EXTENDS WorkItemLifecycle, Integers, FiniteSetsExt

CONSTANTS
    Item,             \* Work Items, named by workspace and idempotency key
    Caller,           \* concurrent invocations of executeWorkItem, reworkWorkItem
    Target,           \* approval scope with target type and identity
    Version,          \* immutable target versions
    Contributions,    \* collaborating executives of every Work Item
    MaxRevisions,     \* bound: Outcome Report revisions of one Work Item
    MaxApprovals,     \* bound: Approvals of one Work Item
    MaxTime,          \* bound: the clock
    MaxCrashes        \* bound: process crashes

ASSUME ContributionsAssumption == Contributions \in Nat
ASSUME BoundsAssumption ==
    /\ MaxRevisions \in Nat /\ MaxApprovals \in Nat
    /\ MaxTime \in Nat /\ MaxCrashes \in Nat

VARIABLES
    state,      \* work_items.state; "Absent" before the row exists
    outcomes,   \* outcome_report_revisions: the revision each one's effect key names
    approvals,  \* the approvals of an item in rowid order
    standing,   \* expiry times of the standing_authorities
    recorded,   \* worker.effect-recorded: <<item, role, revision>>
    performed,  \* effects the worker has carried out: <<item, role, revision>>
    calls,      \* executions awaiting the worker or the verifier
    now,
    crashes

itemVars == <<state, outcomes>>
policyVars == <<approvals, standing>>
effectVars == <<recorded, performed>>
envVars == <<now, crashes>>
vars == <<itemVars, policyVars, effectVars, calls, envVars>>

Time == 0..MaxTime

ApprovalState == {"requested", "granted", "invalidated", "expired"}

Approval == [target : Target, version : Version, state : ApprovalState,
             expiresAt : Time]

\* Contributions 1..n come first, then the accountable effect, role 0.
Role == 0..Contributions

Idle == [phase |-> "idle"]
InFlight == [phase : {"worker", "verifier"}, item : Item, revision : Nat \ {0},
             role : Role]

MigratedState == {"Captured", "Planned", "Waiting/Blocked", "Ready for CEO Review"}

\* The revision an effect of a migration carries: no controlled effect ran.
MigrationEffect == 0

RevisionPerAttempt(i) == Cardinality({e \in recorded : e[1] = i}) + 1
RevisionsFromZero(i) == Len(outcomes[i])
nextOutcomeReportRevision(i) == Len(outcomes[i]) + 1

\* The order of the effects of one execution.
AccountableFirst == 0
firstRole == IF Contributions = 0 THEN 0 ELSE 1
ContributionsAgain(role) == IF role = Contributions THEN 1 ELSE role + 1
nextRole(role) == IF role = Contributions THEN 0 ELSE role + 1

-----------------------------------------------------------------------------
\* The policy engine

Unexpired(approval) == approval.expiresAt > now

GrantedForever(i) ==
    approvals[i] # << >> /\ approvals[i][Len(approvals[i])].state = "granted"

\* findEffectiveApproval: only the latest Approval counts.
HasEffectiveApproval(i) ==
    /\ approvals[i] # << >>
    /\ LET standingApproval == approvals[i][Len(approvals[i])]
       IN  standingApproval.state = "granted" /\ Unexpired(standingApproval)

GrantedFor(i, target) ==
    {k \in DOMAIN approvals[i] :
        approvals[i][k].state = "granted" /\ approvals[i][k].target = target}

\* evaluateAction for an operation outside the automatic baseline: whether it
\* is permitted now, and the Approval found stale when it is not.
Permitted(i, target, version, lowRisk) ==
    LET granted == GrantedFor(i, target)
        first == approvals[i][Min(granted)]
    IN  IF granted # {}
        THEN first.version = version /\ Unexpired(first)
        ELSE lowRisk /\ \E expiresAt \in standing : expiresAt > now

\* What requestAction leaves of the approvals before it stages the item: the
\* first granted Approval of the target, when there is one, is marked.
Invalidate(i, target, version) ==
    LET granted == GrantedFor(i, target)
        first == Min(granted)
        stale == IF approvals[i][first].version # version
                 THEN "invalidated" ELSE "expired"
    IN  IF granted = {} THEN approvals[i]
        ELSE [approvals[i] EXCEPT ![first].state = stale]

-----------------------------------------------------------------------------

Init ==
    /\ state = [i \in Item |-> "Absent"]
    /\ outcomes = [i \in Item |-> << >>]
    /\ approvals = [i \in Item |-> << >>]
    /\ standing = {}
    /\ recorded = {}
    /\ performed = {}
    /\ calls = [c \in Caller |-> Idle]
    /\ now = 0
    /\ crashes = 0

\* acknowledgeCeoAction: a repeated command finds the row and changes nothing.
acknowledgeCeoAction(i) ==
    /\ state[i] = "Absent"
    /\ state' = [state EXCEPT ![i] = "Captured"]
    /\ UNCHANGED <<outcomes, policyVars, effectVars, calls, envVars>>

\* A record migrated as Ready for CEO Review arrives with its Outcome Report.
NothingReported(lifecycle) == << >>
AlwaysReported(lifecycle) == <<MigrationEffect>>
MigratedOutcomes(lifecycle) ==
    IF lifecycle = "Ready for CEO Review" THEN <<MigrationEffect>> ELSE << >>

importMigratedWorkItem(i, lifecycle) ==
    /\ state[i] = "Absent"
    /\ state' = [state EXCEPT ![i] = lifecycle]
    /\ outcomes' = [outcomes EXCEPT ![i] = MigratedOutcomes(lifecycle)]
    /\ UNCHANGED <<policyVars, effectVars, calls, envVars>>

(***************************************************************************)
(* runControlledExecution up to its first await: the revision is read, the *)
(* item is advanced to Executing, the first effect goes to the worker.     *)
(***************************************************************************)
runControlledExecution(c, i) ==
    /\ calls[c] = Idle
    /\ CanAdvance(state[i], "Executing")
    /\ nextOutcomeReportRevision(i) <= MaxRevisions
    /\ state' = [state EXCEPT ![i] = "Executing"]
    /\ calls' = [calls EXCEPT ![c] =
                    [phase |-> "worker", item |-> i,
                     revision |-> nextOutcomeReportRevision(i),
                     role |-> firstRole]]
    /\ UNCHANGED <<outcomes, policyVars, effectVars, envVars>>

\* An item with an Outcome Report is replayed or rejected, never executed.
executeWorkItem(c, i) ==
    /\ outcomes[i] = << >>
    /\ state[i] = "Awaiting Approval" => HasEffectiveApproval(i)
    /\ runControlledExecution(c, i)

reworkWorkItem(c, i) ==
    /\ state[i] = "Changes Requested"
    /\ runControlledExecution(c, i)

\* The worker carries the effect out; the process has not heard of it yet.
WorkerPerforms(c) ==
    /\ calls[c].phase = "worker"
    /\ performed' = performed \cup
                       {<<calls[c].item, calls[c].role, calls[c].revision>>}
    /\ UNCHANGED <<itemVars, policyVars, recorded, calls, envVars>>

\* A receipt: the effect is recorded, then the next effect goes out or, after
\* the accountable one, the item moves to Verifying.
WorkerReturns(c) ==
    LET call == calls[c]
        effect == <<call.item, call.role, call.revision>>
    IN  /\ call.phase = "worker"
        /\ effect \in performed
        /\ recorded' = recorded \cup {effect}
        /\ IF call.role = 0
           THEN /\ lifecycleEventFor(state[call.item], "Verifying")
                /\ state' = [state EXCEPT ![call.item] = "Verifying"]
                /\ calls' = [calls EXCEPT ![c].phase = "verifier"]
           ELSE /\ calls' = [calls EXCEPT ![c].role = nextRole(call.role)]
                /\ UNCHANGED state
        /\ UNCHANGED <<outcomes, performed, policyVars, envVars>>

\* blockAfterWorkerFailure, and the catch around the verifier: the item blocks
\* whether or not the effect took place, and the call ends in an error.
Blocks(c) ==
    /\ calls[c] # Idle
    /\ lifecycleEventFor(state[calls[c].item], "Waiting/Blocked")
    /\ state' = [state EXCEPT ![calls[c].item] = "Waiting/Blocked"]
    /\ calls' = [calls EXCEPT ![c] = Idle]
    /\ UNCHANGED <<outcomes, policyVars, effectVars, envVars>>

\* recordReviewReadyOutcome: one transaction adds the next revision and makes
\* the item Ready for CEO Review.
recordReviewReadyOutcome(c) ==
    LET i == calls[c].item
    IN  /\ calls[c].phase = "verifier"
        /\ lifecycleEventFor(state[i], "Ready for CEO Review")
        /\ outcomes' = [outcomes EXCEPT ![i] = Append(@, calls[c].revision)]
        /\ state' = [state EXCEPT ![i] = "Ready for CEO Review"]
        /\ calls' = [calls EXCEPT ![c] = Idle]
        /\ UNCHANGED <<policyVars, effectVars, envVars>>

reviewTargetStates == {"Completed", "Changes Requested", "Cancelled"}

ReviewAnyReported(i, decided) ==
    /\ outcomes[i] # << >>
    /\ state' = [state EXCEPT ![i] = decided]
    /\ UNCHANGED <<outcomes, policyVars, effectVars, calls, envVars>>

reviewWorkItem(i, decided) ==
    /\ state[i] = "Ready for CEO Review"
    /\ decided = "Completed" => outcomes[i] # << >>
    /\ state' = [state EXCEPT ![i] = decided]
    /\ UNCHANGED <<outcomes, policyVars, effectVars, calls, envVars>>

stageWorkItemForApproval(i) ==
    /\ CanAdvance(state[i], "Awaiting Approval")
    /\ state' = [state EXCEPT ![i] = "Awaiting Approval"]
    /\ UNCHANGED <<outcomes, policyVars, effectVars, calls, envVars>>

(***************************************************************************)
(* requestAction for an action that is not permitted: the stale Approval   *)
(* is marked first, in a transaction of its own; then the item is advanced *)
(* to Awaiting Approval and a new Approval requested.                      *)
(***************************************************************************)
requestAction(i, target, version, lowRisk) ==
    /\ state[i] # "Absent"
    /\ ~Permitted(i, target, version, lowRisk)
    /\ state[i] = "Awaiting Approval" \/ CanAdvance(state[i], "Awaiting Approval")
    /\ Len(approvals[i]) < MaxApprovals
    /\ approvals' = [approvals EXCEPT ![i] =
                        Append(Invalidate(i, target, version),
                               [target |-> target, version |-> version,
                                state |-> "requested", expiresAt |-> 0])]
    /\ state' = [state EXCEPT ![i] = "Awaiting Approval"]
    /\ UNCHANGED <<outcomes, standing, effectVars, calls, envVars>>

\* The same request for an item that may not be staged: the advance throws
\* after the stale Approval has been marked.
requestActionThrows(i, target, version, lowRisk) ==
    /\ state[i] # "Absent"
    /\ ~Permitted(i, target, version, lowRisk)
    /\ GrantedFor(i, target) # {}
    /\ state[i] # "Awaiting Approval"
    /\ ~CanAdvance(state[i], "Awaiting Approval")
    /\ approvals' = [approvals EXCEPT ![i] = Invalidate(i, target, version)]
    /\ UNCHANGED <<itemVars, standing, effectVars, calls, envVars>>

NotYetGranted(approval) == approval.state # "granted"
Grantable(approval) == approval.state = "requested"

grantApproval(i, k, expiresAt) ==
    /\ k \in DOMAIN approvals[i]
    /\ Grantable(approvals[i][k])
    /\ approvals' = [approvals EXCEPT ![i][k].state = "granted",
                                      ![i][k].expiresAt = expiresAt]
    /\ UNCHANGED <<itemVars, standing, effectVars, calls, envVars>>

grantStandingAuthority(expiresAt) ==
    /\ standing' = standing \cup {expiresAt}
    /\ UNCHANGED <<itemVars, approvals, effectVars, calls, envVars>>

Tick ==
    /\ now < MaxTime
    /\ now' = now + 1
    /\ UNCHANGED <<itemVars, policyVars, effectVars, calls, crashes>>

CrashLosesCalls ==
    /\ crashes < MaxCrashes
    /\ crashes' = crashes + 1
    /\ calls' = [c \in Caller |-> Idle]

\* The process dies between two handlers, or while its calls wait.
Crash ==
    /\ CrashLosesCalls
    /\ UNCHANGED <<itemVars, policyVars, effectVars, now>>

\* The process dies between two transactions of an advance to Executing,
\* before any effect was handed to the worker.
CrashInExecution(i) ==
    /\ CrashLosesCalls
    /\ \/ outcomes[i] = << >> /\ (state[i] = "Awaiting Approval" => HasEffectiveApproval(i))
       \/ state[i] = "Changes Requested"
    /\ CanAdvance(state[i], "Executing")
    /\ \E k \in DOMAIN lifecyclePathTo(state[i], "Executing") :
          state' = [state EXCEPT ![i] = lifecyclePathTo(state[i], "Executing")[k]]
    /\ UNCHANGED <<outcomes, policyVars, effectVars, now>>

\* The process dies after requestAction marked a stale Approval, before or
\* inside the advance that follows.
CrashInRequest(i, target, version) ==
    /\ CrashLosesCalls
    /\ state[i] # "Absent"
    /\ ~Permitted(i, target, version, FALSE)
    /\ approvals' = [approvals EXCEPT ![i] = Invalidate(i, target, version)]
    /\ \/ UNCHANGED state
       \/ /\ CanAdvance(state[i], "Awaiting Approval")
          /\ \E k \in DOMAIN lifecyclePathTo(state[i], "Awaiting Approval") :
                state' = [state EXCEPT ![i] =
                             lifecyclePathTo(state[i], "Awaiting Approval")[k]]
    /\ UNCHANGED <<outcomes, standing, effectVars, now>>

-----------------------------------------------------------------------------

Handlers ==
    \E i \in Item :
        \/ acknowledgeCeoAction(i)
        \/ \E lifecycle \in MigratedState : importMigratedWorkItem(i, lifecycle)
        \/ \E c \in Caller : executeWorkItem(c, i) \/ reworkWorkItem(c, i)
        \/ \E decided \in reviewTargetStates : reviewWorkItem(i, decided)
        \/ stageWorkItemForApproval(i)
        \/ \E target \in Target, version \in Version, lowRisk \in BOOLEAN :
              \/ requestAction(i, target, version, lowRisk)
              \/ requestActionThrows(i, target, version, lowRisk)
        \/ \E k \in 1..MaxApprovals, expiresAt \in Time : grantApproval(i, k, expiresAt)

Execution ==
    \E c \in Caller :
        WorkerPerforms(c) \/ WorkerReturns(c) \/ Blocks(c) \/ recordReviewReadyOutcome(c)

Crashes ==
    \/ Crash
    \/ \E i \in Item :
        \/ CrashInExecution(i)
        \/ \E target \in Target, version \in Version : CrashInRequest(i, target, version)

Next ==
    \/ Handlers
    \/ \E expiresAt \in Time : grantStandingAuthority(expiresAt)
    \/ Execution
    \/ Tick
    \/ Crashes

Spec == Init /\ [][Next]_vars

\* The worker and the verifier settle every promise they return: the executors
\* end in a receipt or an error, and the verifier reads a table.
Settles(c) == WorkerReturns(c) \/ Blocks(c) \/ recordReviewReadyOutcome(c)

FairSpec ==
    Spec /\ \A c \in Caller : WF_vars(WorkerPerforms(c)) /\ WF_vars(Settles(c))

-----------------------------------------------------------------------------

TypeOK ==
    /\ state \in [Item -> WorkItemState \cup {"Absent"}]
    /\ outcomes \in [Item -> Seq(Nat)]
    /\ approvals \in [Item -> Seq(Approval)]
    /\ standing \subseteq Time
    /\ recorded \subseteq Item \X Role \X Nat
    /\ performed \subseteq Item \X Role \X Nat
    /\ calls \in [Caller -> {Idle} \cup InFlight]
    /\ now \in Time
    /\ crashes \in 0..MaxCrashes

\* Two invocations never execute the same Work Item at once, whatever mix of
\* executeWorkItem, reworkWorkItem, failures and resumptions led there: reading
\* the state and moving it to Executing is one synchronous step, and nothing
\* else leads out of Executing or Verifying.
SingleExecution ==
    \A c, d \in Caller :
        (c # d /\ calls[c] # Idle /\ calls[d] # Idle) => calls[c].item # calls[d].item

\* The revision is read before the execution (it names the effect keys) and
\* computed again when the report is written, any number of steps later.  The
\* two always agree: the k-th report describes effects keyed to revision k,
\* except for the first report of a migrated item, which names no effect.
RevisionsMatchEffects ==
    \A i \in Item : \A k \in DOMAIN outcomes[i] :
        outcomes[i][k] = k \/ (k = 1 /\ outcomes[i][k] = MigrationEffect)

\* No Outcome Report without the work: every effect a report rests on, the
\* collaborators' contributions included, was carried out and recorded under
\* that very revision, across blocked attempts, retries and crashes.
ReportsRestOnEffects ==
    \A i \in Item : \A k \in DOMAIN outcomes[i] :
        outcomes[i][k] # MigrationEffect =>
            \A r \in Role : <<i, r, outcomes[i][k]>> \in recorded \cap performed

\* A blocked or crashed attempt is retried under the same effect keys, so that
\* the worker can recognise it: a new key appears only once the previous
\* revision has been reported.
RetriesReuseEffectKeys ==
    \A e \in performed : e[3] <= Len(outcomes[e[1]]) + 1

\* What the CEO is asked to review, and what was reviewed, has a report.
ReviewRestsOnReport ==
    \A i \in Item :
        state[i] \in {"Ready for CEO Review", "Completed", "Changes Requested", "Cancelled"}
            => outcomes[i] # << >>

\* A decided item is frozen: no handler, no late worker answer and no crash
\* moves it again or gives it another report.
DecidedIsFinal ==
    [][\A i \in Item :
          state[i] \in {"Completed", "Cancelled"}
             => state'[i] = state[i] /\ outcomes'[i] = outcomes[i]]_vars

\* Outcome Reports are only ever added, one revision at a time, and only on the
\* way into the CEO's review.
ReportsAreAppendOnly ==
    [][\A i \in Item : outcomes'[i] # outcomes[i] =>
          /\ Len(outcomes'[i]) = Len(outcomes[i]) + 1
          /\ SubSeq(outcomes'[i], 1, Len(outcomes[i])) = outcomes[i]
          /\ state'[i] = "Ready for CEO Review"]_vars

\* An Approval is decided once: an invalidated or expired one is never granted
\* again, and a granted one keeps its target, its version and its expiry.
ApprovalsAreDecidedOnce ==
    [][\A i \in Item : \A k \in DOMAIN approvals[i] :
          LET before == approvals[i][k]
              after == approvals'[i][k]
          IN  /\ after.target = before.target /\ after.version = before.version
              /\ before.state # "requested" => after.expiresAt = before.expiresAt
              /\ before.state # after.state =>
                    <<before.state, after.state>> \in
                        {<<"requested", "granted">>, <<"granted", "invalidated">>,
                         <<"granted", "expired">>}]_vars

\* A Work Item that waits for an Approval starts to execute only under one that
\* the CEO granted and that has not expired.
StagedWorkWaitsForApproval ==
    [][\A i \in Item :
          (state[i] = "Awaiting Approval" /\ state'[i] # "Awaiting Approval")
             => \E k \in DOMAIN approvals[i] :
                    approvals[i][k].state = "granted" /\ Unexpired(approvals[i][k])]_vars

\* An execution in flight comes to an end that someone can act on, a block or an
\* Outcome Report, through however many contributions, unless the process dies.
ExecutionsSettle ==
    \A i \in Item, n \in 0..MaxCrashes :
        (crashes = n /\ \E c \in Caller : calls[c] # Idle /\ calls[c].item = i)
            ~> (crashes > n \/ state[i] \in {"Waiting/Blocked", "Ready for CEO Review"})

\* The refinement mapping: what those who submit and review a Work Item see of it.
StageOf(lifecycle) ==
    CASE lifecycle = "Absent" -> "absent"
      [] lifecycle = "Ready for CEO Review" -> "review"
      [] lifecycle \in reviewTargetStates -> lifecycle
      [] OTHER -> "work"
RecordedWhole(i) == {e \in recorded : e[1] = i /\ \A role \in Role : <<i, role, e[3]>> \in recorded}
stageBar == [i \in Item |-> StageOf(state[i])]
reportsBar == [i \in Item |-> Len(outcomes[i])]
carriedBar == [i \in Item |-> {e[3] : e \in RecordedWhole(i)}]

Promise == INSTANCE ReviewedWork
               WITH stage <- stageBar, reports <- reportsBar, carried <- carriedBar

\* OperationsGateway keeps what it promises its callers, whatever executions
\* overlap, block, are staged for an Approval or die: the work of a revision is
\* carried out before its report, each report is decided once, and what the CEO
\* decided stands.
ImplementsReviewedWork == Promise!Spec

-----------------------------------------------------------------------------
\* What the documents say and the code does not do.

\* "Reconnection permits safe lease acquisition and resumption": a blocked item
\* can be resumed, so no report stands in the way of executeWorkItem, the only
\* operation that takes a blocked item up again.
BlockedWorkIsResumable ==
    \A i \in Item : state[i] = "Waiting/Blocked" => outcomes[i] = << >>

\* "Stops honouring an Approval after it expires": work that needed an Approval
\* does not start again on one that has expired.
ExpiredApprovalStartsNothing ==
    [][\A i \in Item :
          (state[i] # "Executing" /\ state'[i] = "Executing" /\ approvals[i] # << >>)
             => HasEffectiveApproval(i)]_vars
=============================================================================
