---------------------------- MODULE DailyOperations ----------------------------
(***************************************************************************)
(* The private worker and the components around the Work Item that share no  *)
(* state in the program, side by side.  Each behaviour chooses one of them,  *)
(* and the rest stand still: interleaving steps of components without common *)
(* variables would add states, and nothing a property of one of them could   *)
(* tell apart.  The private worker's variables and properties keep their     *)
(* names.                                                                    *)
(***************************************************************************)
EXTENDS PrivateWorker

CONSTANTS
    MaxDays, Call, RunAttempts, MaxRunFaults,                          \* ScheduledRuns
    Projection, Edit, Sync, MaxMinute, MaxPageChanges, MaxChanges,     \* MasterTasks
    MaxTaskFaults,
    Ticket,                                                            \* TicketGraph
    Text, Revises, Uncited, MaxGenerations, MaxVaultFaults             \* KnowledgeVault

VARIABLES
    acting,  \* the component of this behaviour
    job, today, row, failures, tick, fenced, runners, incident, call, runFaults,
    item, pages, page, taskReceipts, known, minute, sync, answer, changes, taskFaults,
    from, to, queue, visited, cameFrom, search, path,
    blockedBy, issue, walk,
    staged, metadata, vault, cache, elapsed, evidence, work, vaultFaults

Runs == INSTANCE ScheduledRuns
    WITH MaxAttempts <- RunAttempts, MaxFaults <- MaxRunFaults, faults <- runFaults

Tasks == INSTANCE MasterTasks
    WITH MaxFaults <- MaxTaskFaults, receipts <- taskReceipts, faults <- taskFaults

Paths == INSTANCE LifecyclePathSearch

Tickets == INSTANCE TicketGraph

Vault == INSTANCE KnowledgeVault WITH MaxFaults <- MaxVaultFaults, faults <- vaultFaults

ASSUME DailyOperationsAssumption ==
    /\ Runs!ScheduledRunsAssumption
    /\ Tasks!MasterTasksAssumption
    /\ Tickets!TicketAssumption
    /\ Vault!KnowledgeVaultAssumption

runVars == <<job, today, row, failures, tick, fenced, runners, incident, call, runFaults>>
tasksVars == <<item, pages, page, taskReceipts, known, minute, sync, answer, changes, taskFaults>>
pathVars == <<from, to, queue, visited, cameFrom, search, path>>
graphVars == <<blockedBy, issue, walk>>
vaultVars == <<staged, metadata, vault, cache, elapsed, evidence, work, vaultFaults>>
dailyVars == <<acting, vars, runVars, tasksVars, pathVars, graphVars, vaultVars>>

\* A component that stands still does so in one of its initial states.
DailyInit ==
    /\ acting \in {"worker", "runs", "tasks", "paths", "tickets", "vault"}
    /\ Init /\ (acting # "worker" => \A p \in Process : available[p])
    /\ Runs!RunsInit /\ (acting # "runs" => job.owner = "real-ming" /\ job.critical)
    /\ Tasks!TasksInit
    /\ Paths!Init /\ (acting # "paths" => from = "Captured" /\ to = from)
    /\ Tickets!GraphInit /\ (acting # "tickets" => \A t \in Ticket : blockedBy[t] = {})
    /\ Vault!VaultInit

WorkerStep ==
    /\ acting = "worker" /\ Next
    /\ UNCHANGED <<acting, runVars, tasksVars, pathVars, graphVars, vaultVars>>

RunsStep ==
    /\ acting = "runs" /\ Runs!RunsNext
    /\ UNCHANGED <<acting, vars, tasksVars, pathVars, graphVars, vaultVars>>

TasksStep ==
    /\ acting = "tasks" /\ Tasks!TasksNext
    /\ UNCHANGED <<acting, vars, runVars, pathVars, graphVars, vaultVars>>

PathsStep ==
    /\ acting = "paths" /\ Paths!Next
    /\ UNCHANGED <<acting, vars, runVars, tasksVars, graphVars, vaultVars>>

TicketsStep ==
    /\ acting = "tickets" /\ Tickets!GraphNext
    /\ UNCHANGED <<acting, vars, runVars, tasksVars, pathVars, vaultVars>>

VaultStep ==
    /\ acting = "vault" /\ Vault!VaultNext
    /\ UNCHANGED <<acting, vars, runVars, tasksVars, pathVars, graphVars>>

DailyNext ==
    WorkerStep \/ RunsStep \/ TasksStep \/ PathsStep \/ TicketsStep \/ VaultStep

\* Every promise of an executor settles; the scheduler starts the retention of the
\* vault every day, and its jobs are synchronous.
DailyFairness ==
    /\ \A p \in Process, j \in Job :
           WF_dailyVars(WorkerStep /\ (ExecutionFails(p, j) \/ ExecutionCompletes(p, j)))
    /\ WF_dailyVars(VaultStep /\ Vault!JobStep)
    /\ SF_dailyVars(VaultStep /\ Vault!StartRetention)

DailySpec == DailyInit /\ [][DailyNext]_dailyVars /\ DailyFairness

-----------------------------------------------------------------------------
\* daily-operations-scheduler.ts: "a late side effect cannot race a retry": of one
\* job, at most one runner is at work.
RunnerIsAlone == Runs!RunnerIsAlone

\* notion-provider-adapter.ts, upsertMasterTask: no unverifiable overwrite of an
\* edit made in Notion after the minute of the write before it.
LaterEditsAreSeen == Tasks!LaterEditsAreSeen

\* work-item-lifecycle.ts, lifecyclePathTo: undefined exactly for a target that
\* cannot be reached without the review of the CEO.
UndefinedMeansUnreachable == Paths!UndefinedMeansUnreachable

\* What an advance walks through are rows of the table and never the review of the
\* CEO, and the path is the one WorkItems takes it for.
AdvancesAreLegal == Paths!PathsAreLegal /\ Paths!ClosedFormAgrees

\* ticket-graph.ts: only human-gated work remains when no ticket is next.
OnlyHumansAreAwaited == Tickets!OnlyHumansAreAwaited

\* knowledge-operations.ts: what the vault purged gets its evidence in the control
\* plane.
PurgesAreEvidenced == Vault!PurgesAreEvidenced
=============================================================================
