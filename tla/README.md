# Real Ming: a TLA+ verification project

Real Ming is a CEO's operations system. Work arrives from Telegram, an MCP
server or a migration, becomes a *Work Item*, is carried out by controlled
workers under Approvals, and comes back as an *Outcome Report* the CEO decides
on. One Node process (the control plane) holds the gateway, the daily schedule
and the Telegram front door over one SQLite database; a private worker, an
assistant (Hermes), Notion, Telegram, Google, GitHub and knowledge stores sit
around it. This directory specifies the stateful parts of it in TLA+, checks
them with TLC and proves the main results with TLAPS. Paths below are relative
to `src/src/` unless they begin with `docs/` or `test/`.

## Inventory

| Component | State it keeps | Operations | Talks to | What is hard | What makes it correct |
|---|---|---|---|---|---|
| Work Item lifecycle (`operations/work-item-lifecycle.ts`) | none | transition events, path search | gateway, state | search over a cyclic graph | a path iff one exists, never into review |
| Operations Gateway (`operations/operations-gateway.ts`) | calls awaiting a worker or verifier | capture, migrate, execute, rework, review, stage, request action, grants, commitments, publish | state, policy, worker, Master Tasks | handlers interleave at awaits; state read before an await, used after it; crashes | one execution at a time, reports rest on effects, retries reuse keys, decisions are final |
| Operations State (`operations/operations-state.ts`) | every table | transactions | SQLite | several transactions per handler; a crash between them | what the properties of its users say |
| Policy engine (`operations/policy-engine.ts`) | none | evaluate an action | gateway | expiry, changed targets, several Approvals | nothing consequential without an Approval in force |
| Private worker (`workers/private-worker.ts`) | job table, executions in flight | execute, claim, complete, expire leases, availability | executors | several processes, leases, late answers, death of a process | at most one executor, bounded attempts, honest receipts |
| Exception notices (`operations/exception-notice-rhythm.ts`) | groups, deliveries, held notices | admit, release held, record recovery | front door, state | a request, two sweeps and a crash race over one notice | no notice twice, none dropped, no silent incident |
| Telegram ingress, front door, adapter (`runtime/telegram-ingress.ts`, `telegram/`, `providers/telegram-provider-adapter.ts`) | cursor, ingress results, review controls, outbox | poll, commands, buttons, reasons, send durably, retry | Telegram, Hermes, gateway | at-least-once updates, stale buttons, uncertain sends | no update lost, a press decides its own report |
| Hermes turns (`hermes/`) | sessions, recorded turns | handle a turn | runtime, MCP tools | replayed updates, failure after an effect | an effect happens once and is reported truthfully |
| Control plane and supervisor (`runtime/daily-operations-control-plane.ts`, `control-plane-supervisor.ts`) | loops | poll, tick, HTTP routes | all of the above | loops must not take each other down | the schedule keeps running |
| Scheduler and native reports (`operations/daily-operations-scheduler.ts`, `native-scheduled-reports.ts`) | scheduler runs | tick, catch up, run on demand | reports, sweeps | a timeout does not stop its runner; restarts | one runner per job, bounded attempts |
| Native knowledge (`knowledge/native-consolidation/`) | runs, leases, generations, tombstones, remote head | claim, stage, activate, forget, retrieve | vault, blob store | fences read before awaits; crash between file and row; two forgets | forgotten content is not served, published content not lost |
| Backup and restore (`runtime/control-plane-backup.ts`) | recovery sets | back up, upload, restore, reconcile | blob store, tombstone head | stores copied at different times | a restore does not revive what was forgotten |
| Knowledge vault, compiler, personal context (`knowledge/`) | generations, receipts, staged payloads | ingest, compile, purge | files | two stores written one after the other | purges are evidenced, payloads follow their rows |
| Provider observations (`operations/provider-observation-coordinator.ts`) | events, groups | observe | notices | late, duplicate, overlapping observations | the newest observation decides |
| Master Tasks (`master-tasks/`, `providers/notion-provider-adapter.ts`) | write ledger, versions | upsert, reconcile | Notion, gateway | overlapping writes, edits, lost answers | an edit after the minute of the last write is not overwritten unseen |
| Cutover (`migration/`, `providers/notion-cutover-workspace.ts`) | phases | import, verify, retire | Notion, gateway | resumption after any request | no source is retired twice |
| Calendar (`calendar/`, `providers/google-calendar-adapter.ts`) | write ledger | reconcile, change, agenda | Google, gateway | a date set while the calendar is awaited; paging | the CEO's date is kept |
| Mail and calendar tools (`integration/real-ming-tools.ts`, `provider-read-client.ts`, the adapters) | ledgers per call | read, search, draft, create | Google | retries under a key, lost answers | an answer is true, a part is not the whole |
| Deployment promotion (`portfolio/deployment-promotion.ts`) | append-only events | request, promote, verify, roll back | executor | partial failure, replay, calls that overlap | what is called verified is live |
| Ticket graph (`phase3/ticket-graph.ts`) | none | accept, classify | GitHub issues | cycles, chains of blocked tickets | who is waited for is named |
| Evidence broker, other adapters, report layout, domain records, test harness | little or none | reads, parsing, validation | | input and output | not state machines |

`PROJECT.json` lists the components with their files and how far each is
modelled, and the hazards of the code line by line.

How they interact: the gateway is called by the front door, by Hermes' tools
through loopback HTTP and by the importers. It awaits a `ControlledWorker` and a
verifier, and calls back into Master Tasks and the notices when an item changes.
Everything between two awaits is one step, because there is one process and one
thread; SQLite transactions bound what a crash can split. The supervisor runs
two loops, polling and schedule, in the same process. Only the private worker's
table and the registry of the native knowledge are written to by several
processes.

## Modules

| Module | Models | State and actions |
|---|---|---|
| `WorkItemLifecycle` | `work-item-lifecycle.ts` | operators only: `lifecycleTransitions`, `AdvanceSteps` (what an advance may walk through), `lifecyclePathTo` as a closed table |
| `LifecyclePathSearch` | the search in `lifecyclePathTo` | `queue`, `cameFrom` and the loop, one action per round of the search and per `unshift` of the rebuilt path; ties the closed table to the algorithm |
| `WorkItems` | gateway, policy engine and their tables | rows `state`, `outcomes`, `approvals`, `standing`; `calls` are the executions awaiting something; `recorded` the receipts in the audit trail, `performed` what the worker really did. One action per handler up to its first await, one per continuation, a crash at each transaction boundary |
| `ReviewedWork` | what the gateway promises those who submit and review | abstract: `stage`, `reports`, `carried` (the revisions all of whose effects took place) |
| `DurableDelivery` | what the Telegram outbox promises those who send through it | abstract: `mail`, `tries`, `arrivals` |
| `ReviewDialogue` | what the review controls promise the CEO | abstract: `report`, `stage`, `verdicts`, `asks`, `answers` (of each press, told or recorded) |
| `ControlledWorker` | the contract in `operations/contracts.ts` the gateway relies on | abstract: `status`, `tries`, `effects` |
| `PrivateWorker` | `workers/private-worker.ts` | `jobs` is the table, `executing` the promises each process holds, `performed` the effects; implements `ControlledWorker` |
| `ExceptionNotices` | notices, outbox, both sweeps | four tables (`groups`, `deliveries`, `held` with its order `ahead`, `outbox`), `calls` for the awaits, `reached` for the chat itself |
| `TelegramFrontDoor` | ingress, front door, review controls, turns | `inbox` is what Telegram holds, `cursor` and `ingress` the durable rows, `door` the one update being handled; `control`, `item`, `decisions` the review; `turn`, `work` what Hermes did; `told` what the CEO read |
| `NativeKnowledge` | `native-consolidation/` | `reg`, `lease`, `cand`, `run`, `gen`, `tomb` are tables, `disk` the directories, `job`, `forget`, `reader` what each process holds, `head` the independent tombstone head |
| `ControlPlaneBackup` | backup and restore around it | extends `NativeKnowledge` with `backup` and `restore`; composes all its actions |
| `ScheduledRuns` | scheduler ticks, runners, native reports | `row`, `failures` are `scheduler_runs`; `tick`, `fenced`, `runners`, `call` are memory |
| `MasterTasks` | the upsert to Notion | `page` and `minute` are Notion's, `receipts` and `known` the two ledgers, `sync` the upserts in flight; the version of a page is the minute of its last change, while `change`, `edited` and `wrote` only observe it |
| `Cutover` | both phases of the cutover | `legacy`, `projected` are Notion's, `migrated`, `written`, `taken`, `restored` durable rows, `cutover` the process |
| `KnowledgeVault` | vault, compiler, retention jobs | `vault` the generations, `cache` the compiler's view, `evidence` the control plane's rows, `work` the job |
| `PersonalContext` | staging and purge of payloads | `rows`, `purges` are tables, `payload` the files, `ingest` the ingestions in flight |
| `ProviderObservations` | observations and their notices | `events`, `group` are tables, `telling` what is still to be told |
| `CalendarCommitments` | reconcile, change, commitments | `event` is Google's, `commitment`, `approvals` rows, `reading`, `changing` the awaits |
| `ProviderReads` | agenda and mail reads | `agenda`, `mailbox` are Google's, `read` the read under way |
| `ProviderWrites` | events, drafts and replies under a key | `created` is Google's, `own` the ledger of each call's adapter, `durable` the table of replies |
| `DeploymentPromotion` | promotion of a candidate | `events`, `approvals` rows, `production` outside, `promoting` the calls; `overlapped` observes that two of them ran at once |
| `TicketGraph` | acceptance and classification | `walk` the search for cycles, `issue` the live issues |
| `DailyOperations` | the private worker and the components around the Work Item | extends `PrivateWorker`, instantiates `ScheduledRuns`, `MasterTasks`, `LifecyclePathSearch`, `TicketGraph` and `KnowledgeVault`; `acting` names the one that moves |
| `SourcesAndEffects` | the exception notices and the components that reach sources and effects outside | extends `ExceptionNotices`, instantiates `Cutover` and the six modules from `PersonalContext` to `DeploymentPromotion` above; `acting` as there |
| `*Proofs` | | theorems, in modules of their own |
| `MC*` | | instances for TLC: model values, symmetry, named bounds |

`PrivateWorker` implements `ControlledWorker` under the mapping *running =
executing, completed = settled, all else = idle*. `WorkItems` implements
`ReviewedWork`: a state the CEO decided is its own stage, Ready for CEO Review is
*review*, every other state of a known item is *work*; a revision is carried out
when a receipt of every role is recorded for it. `ExceptionNotices` implements
`DurableDelivery`: a row in flight is *sending*, one that a claim would give away
is *unsent*, a failed or uncertain one that is not repeated is *abandoned*, a
cancelled one *called off*; groups, held notices, sweeps and crashes do not show.
`TelegramFrontDoor` implements `ReviewDialogue`: Executing is *work*, Ready for
CEO Review is *review*, everything else *decided*; a press asks for the report
its controls were issued for and is answered by what it was told or recorded
with; polling, claims, expiry, redelivery and crashes do not show. In `WorkItems`
the worker is
weaker than that contract (`WorkerPerforms` may happen any number of times, an
error may follow an effect), so what holds there holds for every executor.

`LifecyclePathSearch` and the modules from `ScheduledRuns` to `TicketGraph` share no state in the program, with each
other or with the worker and the notices. `DailyOperations` and
`SourcesAndEffects` put them side by side: each behaviour picks one component and
leaves the rest in an initial state. That is sound because the instantiated
components share no variable: a step of one changes nothing a property of another
mentions, so interleaving them could only repeat the same states in more
combinations. The theorems about these components are theorems of the two
compositions, hence of the very specifications that the runs check. Where the
program does share state the model does too: `ControlPlaneBackup` extends
`NativeKnowledge`, and `TelegramFrontDoor` keeps item, controls, ingress and turns
together.

## Runs

| Run | Instance | What it shows |
|---|---|---|
| `WorkItemsExecution` | 2 items, 2 callers, 2 contributions, 2 revisions, 1 crash; 79,608 states | races between execute, rework, review, failures and a crash; the refinement of `ReviewedWork`; `ExecutionsSettle` under fairness |
| `WorkItemsApprovals` | 1 item, 1 caller, 2 targets, 2 versions, 3 Approvals, clock to 1, 1 crash; 704,456 states | Approvals are decided once, staged work waits |
| `ExceptionNoticesSweeps` | 1 occurrence and 1 report, 1 caller, sweeps of 1, 1 crash; 143,981 states | the sweeps reach what waits, unless a full batch that cannot be sent stands before it; retries end |
| `TelegramFrontDoor` | 2 updates of any kind, 2 reports, 2 sets of controls, 1 fault; 749,965 states | nothing is passed unrecorded, a press decides its own report, what is told is consistent, the refinement of `ReviewDialogue`, every update is handled |
| `ControlPlaneBackup` | 2 candidates (1 with a backup), 2 runs, 1 forget, 1 reader, 1 retry, 1 fault; 3,235,429 states | nothing forgotten is served, nothing published lost, restore-safe means in the head, one active generation |
| `DailyOperations` | private worker: 1 job, 3 processes (one without the capability), 2 attempts, clock to 4, 1 crash; scheduler: 3 days, 2 attempts, 2 native calls, 2 faults; Master Tasks: 2 syncs, 3 minutes, 4 changes of the page, 3 of the item, 1 fault; all pairs of lifecycle states; 3 tickets in every graph; vault: 2 texts, 3 generations, 1 fault; 156,662 states | exclusion, the refinement of `ControlledWorker` (honest receipts, bounded attempts), no stranded job; one runner per job; no edit of a later minute overwritten unseen; the path search answers rightly, by legal paths, and as the closed form says; who is waited for is named; purges reach their evidence |
| `SourcesAndEffects` | notices: 2 occurrences, 2 callers, 2 attempts, sweeps of 1, 1 crash; context: 2 ingestions, 3 versions, 4 days, 2 faults; reads: 2 calendars, 3 events, pages of 1 up to 2, 4 messages; writes: 2 calls, 1 key, 2 contents, 1 fault; cutover: 2 sources, 2 faults; promotion: 2 scopes, 2 callers, 2 faults; observations: 2 observers, 3 instants; calendar: 2 times, 2 changes, 2 Approvals, 1 fault; 717,919 states | the refinement of `DurableDelivery` (one arrival each), no silent incident; payloads follow rows; agendas are whole; answers are true; nothing retired twice; verified is live; the newest observation decides; the CEO's date is kept |
| `WorkItemsBlockedRework` | violated | a blocked rework is refused by every operation |
| `WorkItemsExpiredApproval` | violated | blocked work restarts under an expired Approval |
| `PrivateWorkerReconnection` | violated | the job of a process that died can never be leased again |
| `ExceptionNoticesRepeated` | violated | a timeout that was none leads to a second notice |
| `ExceptionNoticesSharedFate` | violated, under fairness | an unresolved delivery stops the schedule where Telegram is owned elsewhere |

Why the bounds suffice. Work Items, jobs, signatures, pages and events do not
interact except through the processes that work on them, so one of each with two
or three actors shows every race of the code (`WorkItemsExecution` has two items
all the same, since two callers that keep to different items must not disturb
each other); where there are proofs, they cover any number. Two revisions are
the least that has a rework, two attempts the least that has a retry that is the
last one. A sweep of one notice (`ReleaseBatch`) stands for the sweep of fifty in
the code: with two notices, one is past the limit, as the fifty-first is there;
the theorems hold for any batch. Three minutes put an edit before, in and after the
minute of a write, with another write behind it. The clock of the worker reaches one unit past the first deadline, with
a lease and a backoff of one, so that a lease can expire before, at and after
it. Two updates let an update follow the redelivery of another, two sets of
controls let an older one meet the report of a newer one. Two consolidation runs
are one that goes stale and one that overtakes it; a third would meet what the
second left. `OneCandidateIsBackedUp` (in `MCControlPlaneBackup`) keeps
behaviours with a backup to one candidate: the recovery set treats each subject
by itself. `WorldMovesBetween` (in `MCTelegramFrontDoor`) lets updates arrive
between two batches: one that arrives during a batch is read by the next. Three
days let an occurrence be missed, fail and recover; three events on pages of one
with two pages exceed the cap by one. One fault leaves every kind of partial
state behind, two let a retry fail as well.

Every property of a passing run is broken by a mutant in the same module
(marked *Mutant* there), which changes one mapped definition as a plausible bug
would.

### What is abstracted

Text, ids, digests, audit entries, layouts and HTTP. In `WorkItems`: the
projection to Master Tasks and the notice of a block (`publish`,
`materialBlockerRaised`), and actions on the automatic baseline, which need
nothing. In `PrivateWorker`: the lease token, which no statement compares; the
execution token is named by its attempt. In `ExceptionNotices`: the weekend
stand-down, the occurrence counter, the time of day, and notices of the one kind
the front door stands down, routine progress (a release of one is answered
`suppressed`). In `MasterTasks`: the version of a page is Notion's
`last_edited_time`, which is taken to be rounded to the minute, as Notion
documents it; Notion's clock and the order of its changes agree. In
`DeploymentPromotion`: one run, since a run is named after its Approvals, and one
granted anew starts another. In `CalendarCommitments`: a change of an event is of
medium risk, which no standing authority covers (`policy-engine.ts:52`), so it
always rests on an Approval. In `TelegramFrontDoor`: the outbox behind a send, which is
`ExceptionNotices`'; a send is told or leaves an unresolved delivery. In
`NativeKnowledge`: content, budgets and capability checks; a candidate is its own
page and subject. In `ScheduledRuns`: the clock, as the day, whether its
occurrence is due and whether a running row is stale. In `Cutover`: each source
stands with one record.

### Fairness

- `WorkItems!FairSpec`: a call that awaits the worker or the verifier is
  answered. The executors end in a receipt or an error, the verifier reads a
  table. Nothing makes a blocked item resume, and no property asks for it.
- `DailySpec`: executors settle their promises, whatever leases did; nobody has
  to claim a job, and processes may sleep for ever. The jobs of the vault are
  synchronous once they run, and the scheduler starts retention every day, so
  one that is possible again and again happens (strong fairness).
- `ExceptionNotices!FairSpec`: requests to Telegram carry a timeout
  (`AbortSignal.timeout`), so a send is answered; the supervisor repeats its
  cycles and catches what they throw; the release of held notices is a daily job
  of the scheduler. A retry that the provider deferred is carried out at last if
  it is possible again and again (strong fairness of `RetrySends` alone). That
  the daily job runs at all is only justified while the control plane owns the
  Telegram consumer (`OwnsTelegram`); the other case is the guard of
  `releaseHeld`, and `TelegramSparesTheSchedule` shows what becomes of it.
- `TelegramFrontDoor!Spec`: the supervisor runs the polling loop for ever, and
  every call in it has a deadline (`WF_vars(Handle)`). Nothing is assumed of the
  CEO, of the dashboard or of a rework.

## Findings

1. A rework that blocks is stuck (`operations-gateway.ts:335`;
   `docs/specs/real-ming-v1.1.md:210`).
2. An expired Approval is no obstacle to work that had blocked
   (`operations-gateway.ts:361`; `test/system/tiered-authority.system.test.ts:381`).
3. A job whose process died is never leased again (`workers/private-worker.ts:349`;
   `docs/specs/real-ming-v1.1.md:210`).
4. One incident may send two notices that both arrive
   (`exception-notice-rhythm.ts:180` and its comment at 178; the interface at 26).
5. An unresolved delivery stops the schedule
   (`daily-operations-control-plane.ts:1021`; `control-plane-supervisor.ts:24`).

### Further observations

The modules also state what a doc or a comment promises and the code does not
keep. These statements are in no run; listing one (or a definition that names it,
where the run's module instantiates its module) as an INVARIANT or PROPERTY makes
TLC print the counterexample.

| Statement | What happens | Promise |
|---|---|---|
| `ProviderWrites!OneEffectPerKey` | each call of the calendar or draft tool gets an adapter with a new ledger, so a retried key creates a second event or draft | `real-ming-tools.ts:622` |
| `ProviderReads!CountIsHonest` | the adapter clamps a limit the tool compares the answer with, so a full page is not reported as possibly more | `real-ming-tools.ts:756` |
| `ProviderReads!AgendaIsOfItsCalendar` | the control plane's `calendarEvents` drops the calendar that was asked for | `daily-operations-control-plane.ts:888` |
| `TelegramFrontDoor!DenialIsTrue` | a turn that fails after its Work Item was created answers that it was not executed | `hermes-turn-coordinator.ts:336` |
| `ControlPlaneBackup!NothingInHeadIsServed` | a restored registry answers retrievals before its reconciliation, with pages the head knows to be forgotten | `docs/adr/0022-native-knowledge-consolidation-around-hermes.md:113` |
| `ControlPlaneBackup!ActiveIsOnDisk` | a restored registry may point to a generation the later copy of the vault no longer has | `publication.ts:96` |
| `ScheduledRuns!RecoveryIsNoticed` | the streak counted behind a reclaimed row is that of the claim itself, so the recovery of a stale run is not noticed | `docs/specs/real-ming-v1.1.md:234` |
| `ScheduledRuns!MissedIsNoticed` | a notice that cannot be stored is not tried again: the occurrence is no longer missed, but failed | `docs/specs/real-ming-v1.1.md:234` |
| `ScheduledRuns!SucceededStays` | a native call reclaimed as stale completes the row of the call that replaced it | `operations-state.ts:1873` |
| `KnowledgeVault!LogMatchesVault` | a publication that fails leaves its log line in the cached view | `knowledge-compiler.ts:636` |
| `ExceptionNotices!HeldIsDelivered` | a sweep takes the fifty oldest due notices (`exception-notice-rhythm.ts:253`) and leaves those that failed for good in their place: fifty of them keep every later notice from being sent. With `ReleaseBatch = 1` and no crash, one keeps the next; `DueIsTakenUp` is what is left of the promise | `exception-notice-rhythm.ts:205`, `test/system/executive-roll-up.system.test.ts:286` |
| `MasterTasks!EditsAreSeen` | the version compared is Notion's `last_edited_time` (`notion-provider-adapter.ts:899`): an edit in the minute of the last write leaves it as it was, and the next upsert overwrites the edit; `LaterEditsAreSeen` is what is left of the promise | `notion-provider-adapter.ts:908`, `testing/real-ming-system-harness.ts:3049` |
| `MasterTasks!WrittenIsShown` | overlapping syncs and lost answers leave a page that does not show the item, though the sync answered | `operations-gateway.ts:129` |
| `Cutover!RecoveryIsHonest`, `SamplesAreRestored`, `RetiredAsReviewed` | after a lost answer or a crash the report says that nothing is retired; a sample edit stays; a source edited after its snapshot is retired | `master-tasks-cutover.ts:422` |
| `DeploymentPromotion!VerifiedStaysLive` | nothing keeps two promote calls apart: one rolls back what the other has verified and then records as verified | `docs/specs/real-ming-v1.1.md:116` |
| `DeploymentPromotion!MergeFailedIsUnmerged` | a merge whose answer is lost is recorded as failed | `deployment-promotion.ts:520` |

## Proofs

Each safety invariant and each action property of a passing run is the statement
of a theorem, for every value of the constants its module allows. None of them
is inductive alone; what follows is what each proof has to know besides.

`WorkItemsProofs`: `TypeOK`, `SingleExecution`, `RevisionsMatchEffects`,
`ReportsRestOnEffects`, `RetriesReuseEffectKeys`, `ReviewRestsOnReport`,
`StagedWorkWaitsForApproval`, `ApprovalsAreDecidedOnce`, the refinement
`Spec => ImplementsReviewedWork`, and `DecidedIsFinal` and `ReportsAreAppendOnly`,
which no run checks. The invariant adds what an execution
in flight knows: its item is in Executing or Verifying (which is what keeps a
second one out), its revision is still the next one (no report can be written
meanwhile), the effects before its current role are recorded under that revision,
and every recorded effect was performed. `SingleExecution` comes first, because
the step that writes a report must not disturb another call's claim on the same
item. `ApprovalsAreDecidedOnce` and `ReportsAreAppendOnly` are about sequences
that grow: a handler appends one row, or replaces one in place by a legal
successor. The refinement maps an advance to `TakeBack` when changes were
requested and to a stutter otherwise (every state it passes is *work*), a receipt
to `CarryOut` when it is the last one of its revision, and a block to a stutter.
That the revision carried out is the next one, and that the report finds it
carried out, is what an execution in flight knows.

`PrivateWorkerProofs`: `TypeOK`, `SingleExecutor`, `CompletionRestsOnEffect`,
`CompletedIsFinal`, and the refinement `Spec => ImplementsControlledWorker`.
The invariant ties the row to the promises: a process holds a token for a job
only while the row is running and carries that very token (`SingleExecutor`
itself), a running row is active and its token is its last attempt, and a row
that is absent or queued was never attempted. That a running row is always
active is also why `claim` never queues one again (finding 3). The
refinement maps each step to a step of the contract or a stutter: a failure is
`GiveUp`, a commit is `Settle`, everything about clocks and leases stutters.

`ExceptionNoticesProofs`: `TypeOK`, `ArrivesOnce`, `HeldIsNeverDropped`,
`OpenIncidentIsAnnounced` and the refinement `Spec => ImplementsDurableDelivery`. That a notice arrives once rests on what a row of the
outbox says. A message is being sent only while its row is in flight or called
off; a row in flight has at most one sender, and until that sender's message
arrives none has; a row that may be retried has not arrived; a sent one has.
Claims give a row away only in a state that says it has not arrived, and a crash
leaves the row in flight, which no claim takes. Two facts serve
`HeldIsNeverDropped`: the delivery recorded for an incident is one of its own
notices, so that a recovery releases no other, and a sweep always has a row to go
on with. `OpenIncidentIsAnnounced` needs `AnnouncedInv` on top: a row is called
off only by the recovery of an incident that has a record; what a record says of
its notice is so, unless the record is that of an earlier incident; and an
incident that is open without a record has a send under way, which ends in one.
The refinement takes its guards from the same rows: an attempt starts below the
limit because only a new or a retryable row is given away, a confirmed notice
arrived because its one sender says so, a returned one did not; every other step
writes no row, or one that was called off.

`TelegramFrontDoorProofs`: `PassedIsRecorded`, `PressDecidesItsReport`,
`AppliedIsTrue`, `ToldIsConsistent` and the refinement
`Spec => ImplementsReviewDialogue`. `ReviewInv` says where the door can be:
at the update right behind the cursor, at a stage its kind reaches, finishing it
only behind its record. The history of decisions has one per report, and an item
out of review has the one that took it there. A claim is made by an update that
was sent, and the update at the door that reviews has its control's claim. What
an update was answered then fixes the rest: one that was told it is applied is
*Done* (its decision is in the history), one that was told it is refused is
*Gone* (the item left the review for something else, and does not come back to
the same report) or *Barred* (its control is closed to it, however often it is
delivered). Most of the proof shows that no step turns *Done*, *Gone* or *Barred*
back. In the refinement a review that decides is `DecideByPress`, which a refused
press may not take: its report is under review, so it is not *Gone*, and its
claim keeps it from being *Barred*. An answer is `Answer`, whose guards are what
`AnswerOK` says; a second answer that contradicts the first finds the press
*Gone*, which is where the promise lets an item have moved on.

`ControlPlaneBackupProofs`: `TypeOK`, `PublishedIsKept`, `RestoreSafeIsInHead`,
`OnePointer` and the action property `ServedIsNotForgotten`. `KnowledgeInv` says
the same of the live registry and of every copy in a backup (`RegistryOK`,
`TombsOK`, `HeadKnows`), so that a restore finds it true of what it brings back.
Jobs know that a staged generation holds every published page as long as the
publication count is the one in their fence; forgets and the restore hold a part
of the head, which only grows; a reader has seen every suppressed subject as long
as the epoch is the one it began with, and a replay of the head without a gap
raises the epoch. That an identifier in the head means one subject is the fact
the rest hangs on, and it takes a tombstone's identifier never to be used twice.

`DailyOperationsProofs`, about the components of that composition.
`RunnerIsAlone`: the fence stands for the runner. The invariant counts the
runners behind it (one or none), keeps a tick that awaits its runner behind the
fence and every stage that leads to a claim in front of it; a timeout leaves
both as they are, a runner that settles, late or in time, and a crash take both.
`LaterEditsAreSeen`: an upsert about to patch found the page in the version last
recorded, so the proof has to know which minute that version can be. As long as
there is one page, neither the recorded version nor one about to be recorded is
later than the last write, and the page's version is no earlier than that write
(`VersionsAreStamped`). So a page found in the recorded version has the minute of
the last write, and an edit it shows was made in that very minute. A second page
ends that knowledge, and from then on no query finds a page to patch; an upsert
that found one before knows that any later edit came after its query. `OnlyHumansAreAwaited`: what the walk has
settled is closed under blockers, and every set of settled tickets has one that
nothing in the set blocks; what is not settled yet is still to be visited. So an
accepted graph is well-founded, and there `humanGatesFor` satisfies its recursive
equation at every ticket. Were there open tickets that name no human, one of them
would be blocked by none of the others, hence by nobody, and would be next.
`UndefinedMeansUnreachable`: what the search visited is reached, whatever order it
takes the rows of the table in, and what it visited and has not waiting any more
is expanded. So when nothing waits, what was visited is closed under the steps of
an advance, and a target outside it is not reached by any walk; reached means
being in every such closed set. `AdvancesSucceed` then compares the answer with
the closed form `WorkItems` uses. `AdvancesAreLegal`: `cameFrom` names, for
all that was discovered, a visited state with a row to it. That makes a path legal;
that it is the path of the closed form takes what the search knows of the two states
the table leads to on several ways. Executing is discovered before what follows it
(a blocking) and with the approval, so from Planned unless the search started at
one of the others; Planned is discovered before the way back to it. The path is a
way through `cameFrom` that leaves the first state once, and of such ways of up to
three steps there is one.

`SourcesAndEffectsProofs`, about the components of that composition.
`AnswersAreTrue`: what a call posted or was answered is a receipt of what it
asked for, among what was created; a replay keeps this for a reply because its
content is compared, for a draft only because each call has an adapter with an
empty ledger. `AgendaIsWhole`: an event that was there all the time a calendar
was read has been listed or lies behind the last event of the pages read so far,
however edits shift the pages, and behind the last page nothing lies. `PayloadsFollowTheirRows`: between two
awaits one ingestion or the sweep is alone, a version has one row, and what is
quarantined never had a payload. `HealthyClosesAll`: what a group holds was
observed, and the newest success is the one the group of successes holds.
`VerifiedIsLive`: as long as no two calls overlapped at most one is under way,
none behind a terminal event, and production that was rolled back stays so.
`NothingIsRetiredTwice`: a run that retires found every source writable, and each
it did not retire since still is. `CeoDateIsKept` needs no invariant: the commit
compares the very revision.

Assumptions are the named assumptions of the modules (bounds are naturals, a
retry policy allows at least one attempt, lease and deadline are positive).

Only model-checked:

- Liveness (`ExecutionsSettle`, `DueIsTakenUp`, `RetriesEnd`, `UpdatesAreHandled`,
  `RunningJobsSettle`, `PurgesAreEvidenced`): the prover handles neither fairness
  nor ENABLED.
- What the violated runs show.

## Not modelled, and why

- Report selection and layout, Markdown, HTML and HTTP framing, JSON-RPC:
  formatting without a state.
- Configuration, credentials, preflight and smoke checks: read once at the
  start.
- Domain records (academic, content, career, finance, metered cost): each
  operation validates its input and writes one row in one transaction, without
  an await between a check and its use.
- The evidence broker: entries in memory with an expiry of their own.
- Canvas, Duitsini and Microsoft adapters: reads and their parsing.
- Sending mail: `sendDraft` refuses every message.

## Plan

1. Action properties of the components that no run states yet: what the vault
   compiled is not compiled away (`KnowledgeVault`), decided calendar changes
   (`CalendarCommitments`).
2. An abstract specification of what the native knowledge promises a reader, with
   `ControlPlaneBackup` as its implementation.
3. The domain records, should their operations come to await anything between a
   check and its use.
