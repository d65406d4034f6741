---------------------------------- MODULE Cutover ----------------------------------
(***************************************************************************)
(* The move of the legacy task databases into Master Tasks:                  *)
(* src/src/migration/master-tasks-cutover.ts over the Notion workspace and   *)
(* the gateway, run again by an operator after every stop or crash.  Each    *)
(* legacy source stands with one record; only a planned one is migrated.     *)
(***************************************************************************)
EXTENDS Integers, FiniteSets

CONSTANTS
    Source,     \* the bound legacy sources
    Planned,    \* those whose record the plan migrates
    MaxFaults   \* bound: requests that fail, lost answers and crashes

\* What the constants must satisfy.
CutoverAssumption == Planned \subseteq Source /\ MaxFaults \in Nat

VARIABLES
    legacy,     \* each source: its record is as reviewed, it is locked
    migrated,   \* the Work Item of each planned record, by its priority
    projected,  \* its page in Master Tasks: priority, version known to the ledger
    written,    \* notion_write_receipts of the page, by priority
    taken,      \* records whose edited priority was taken over from the page
    restored,   \* work_item_priority_writes under the restore key of the sample
    approved,   \* the phase the plan binds
    cutover,    \* the process: step, records done, sample, retirements, report
    faults

cutoverVars ==
    <<legacy, migrated, projected, written, taken, restored, approved, cutover, faults>>

Absent == "absent"
Unset == "unset"
High == "High"
NoPage == [shown |-> Absent, known |-> FALSE]
Fresh(pc) == [pc |-> pc, done |-> {}, sample |-> Absent, before |-> Absent,
               retirements |-> {}]

CutoverInit ==
    /\ legacy = [s \in Source |-> [reviewed |-> TRUE, locked |-> FALSE]]
    /\ migrated = [r \in Planned |-> Absent]
    /\ projected = [r \in Planned |-> NoPage]
    /\ written = [r \in Planned |-> {}]
    /\ taken = {}
    /\ restored = [r \in Planned |-> Absent]
    /\ approved = "A"
    /\ cutover = Fresh("idle")
    /\ faults = 0

Fault == faults < MaxFaults /\ faults' = faults + 1
At(pc) == cutover.pc = pc
Goes(pc) == cutover' = [cutover EXCEPT !.pc = pc]
\* The run throws; recovery() can still be asked.
Stops == Goes("stopped")

--------------------------------------------------------------------------------
(* The upsert of the store, MasterTasks.tla in one step *)

\* A projection with a receipt is answered without a request.
UpsertSucceeds(r, priority) ==
    \/ priority \in written[r] /\ UNCHANGED <<projected, written>>
    \/ /\ priority \notin written[r]
       /\ projected[r] = NoPage \/ projected[r].known
       /\ projected' = [projected EXCEPT ![r] = [shown |-> priority, known |-> TRUE]]
       /\ written' = [written EXCEPT ![r] = @ \cup {priority}]

\* The write is refused or fails, or its answer is lost.
UpsertFails(r, priority) ==
    /\ priority \notin written[r]
    /\ \/ projected[r] # NoPage /\ ~projected[r].known /\ UNCHANGED <<projected, faults>>
       \/ Fault /\ UNCHANGED projected
       \/ /\ Fault /\ (projected[r] = NoPage \/ projected[r].known)
          /\ projected' = [projected EXCEPT ![r] = [shown |-> priority, known |-> FALSE]]
    /\ UNCHANGED written

\* publish after the transaction; on a failure the run stops.
Publishes(r, priority, next) ==
    \/ UpsertSucceeds(r, priority) /\ cutover' = next /\ UNCHANGED faults
    \/ UpsertFails(r, priority) /\ Stops

--------------------------------------------------------------------------------
(* Phase A, and its replay in Phase B *)

StartCutover ==
    /\ At("idle") \/ At("stopped")
    /\ approved # "done"
    /\ cutover' = Fresh("reading")
    /\ UNCHANGED <<legacy, migrated, projected, written, taken, restored, approved, faults>>

\* readSources and verifySnapshots: source drift stops the run.
ReadSources ==
    /\ At("reading")
    /\ IF \A s \in Source : legacy[s].reviewed THEN Goes("checking") ELSE Stops
    /\ UNCHANGED <<legacy, migrated, projected, written, taken, restored, approved, faults>>

\* verifyProjectedRecord: the page is exactly what its Work Item projects to.
Matches(r) == migrated[r] # Absent /\ projected[r].shown = migrated[r]

CheckExisting ==
    /\ At("checking")
    /\ IF \A r \in Planned : IF projected[r] = NoPage THEN approved = "A" ELSE Matches(r)
         THEN Goes("importing")
         ELSE Stops
    /\ UNCHANGED <<legacy, migrated, projected, written, taken, restored, approved, faults>>

\* importMigratedWorkItem replays an item it imported before, and publishes it.
Import(r) ==
    /\ At("importing") /\ r \notin cutover.done
    /\ IF approved = "B" /\ migrated[r] = Absent
         THEN Stops /\ UNCHANGED <<migrated, projected, written, faults>>
         ELSE /\ migrated' = [migrated EXCEPT ![r] = IF @ = Absent THEN Unset ELSE @]
              /\ Publishes(r, migrated'[r], [cutover EXCEPT !.done = @ \cup {r}])
    /\ UNCHANGED <<legacy, taken, restored, approved>>

\* verifyImport and verifyProjection, which does not compare the priority.
VerifyImport ==
    /\ At("importing") /\ cutover.done = Planned
    /\ IF \E r \in Planned : projected[r] = NoPage THEN Stops /\ UNCHANGED approved
       ELSE IF approved = "A" THEN Goes("idle") /\ approved' = "B"
       ELSE /\ cutover' = [cutover EXCEPT !.pc = "sampling", !.done = {}]
            /\ UNCHANGED approved
    /\ UNCHANGED <<legacy, migrated, projected, written, taken, restored, faults>>

--------------------------------------------------------------------------------
(* Phase B *)

\* editSampleThroughView: the sample is edited through the view, ...
EditSample(r) ==
    /\ At("sampling") /\ r \notin cutover.done
    /\ Publishes(r, High, [cutover EXCEPT !.pc = "reconciling", !.sample = r,
                                          !.before = migrated[r]])
    /\ UNCHANGED <<legacy, migrated, taken, restored, approved>>

\* ... an edit is taken over once for each version of the page, ...
ReconcileSample ==
    /\ At("reconciling")
    /\ LET edited == {r \in Planned \ taken : projected[r].shown # migrated[r]}
       IN /\ migrated' = [r \in Planned |-> IF r \in edited THEN High ELSE migrated[r]]
          /\ taken' = taken \cup edited
    /\ IF migrated'[cutover.sample] = High THEN Goes("restoring") ELSE Stops
    /\ UNCHANGED <<legacy, projected, written, restored, approved, faults>>

\* ... and the priority is restored, under the one key of the sample.
RestoreSample(r) ==
    /\ At("restoring") /\ r = cutover.sample
    /\ IF restored[r] \notin {Absent, cutover.before}
         THEN Stops /\ UNCHANGED <<migrated, restored, projected, written, faults>>
         ELSE /\ migrated' = [migrated EXCEPT ![r] = IF restored[r] = Absent
                                                      THEN cutover.before ELSE @]
              /\ restored' = [restored EXCEPT ![r] = cutover.before]
              /\ Publishes(r, migrated'[r],
                           [cutover EXCEPT !.pc = "sampling", !.done = @ \cup {r}])
    /\ UNCHANGED <<legacy, taken, approved>>

\* Mutant: the sources are not probed.
ProbesNothing ==
    /\ At("sampling") /\ cutover.done = Planned
    /\ Goes("retiring")
    /\ UNCHANGED <<legacy, migrated, projected, written, taken, restored, approved, faults>>

\* Every source is probed before the first is retired.
ProbeSources ==
    /\ At("sampling") /\ cutover.done = Planned
    /\ IF \E s \in Source : legacy[s].locked THEN Stops ELSE Goes("retiring")
    /\ UNCHANGED <<legacy, migrated, projected, written, taken, restored, approved, faults>>

\* A source is renamed and locked; the request may fail, or only its answer.
Retire(s) ==
    /\ At("retiring") /\ s \notin cutover.retirements
    /\ \/ /\ legacy' = [legacy EXCEPT ![s].locked = TRUE]
          /\ cutover' = [cutover EXCEPT !.retirements = @ \cup {s}]
          /\ UNCHANGED faults
       \/ legacy' = [legacy EXCEPT ![s].locked = TRUE] /\ Fault /\ Stops
       \/ UNCHANGED legacy /\ Fault /\ Stops
    /\ UNCHANGED <<migrated, projected, written, taken, restored, approved>>

\* Only Master Tasks may be writable in the end.
ReportCutover ==
    /\ At("retiring") /\ cutover.retirements = Source
    /\ IF \E s \in Source : ~legacy[s].locked
         THEN Stops /\ UNCHANGED approved
         ELSE Goes("idle") /\ approved' = "done"
    /\ UNCHANGED <<legacy, migrated, projected, written, taken, restored, faults>>

\* Any other request of a run fails, or the process dies.
RequestFails ==
    /\ ~(At("idle") \/ At("stopped")) /\ Fault
    /\ \/ Stops
       \/ cutover' = Fresh("idle")
    /\ UNCHANGED <<legacy, migrated, projected, written, taken, restored, approved>>

\* The CEO still works in a legacy database that is not locked.
LegacyEdited(s) ==
    /\ ~legacy[s].locked /\ legacy[s].reviewed
    /\ legacy' = [legacy EXCEPT ![s].reviewed = FALSE]
    /\ UNCHANGED <<migrated, projected, written, taken, restored, approved, cutover, faults>>

CutoverNext ==
    \/ StartCutover \/ ReadSources \/ CheckExisting \/ VerifyImport
    \/ ReconcileSample \/ ProbeSources \/ ReportCutover \/ RequestFails
    \/ \E r \in Planned : Import(r) \/ EditSample(r) \/ RestoreSample(r)
    \/ \E s \in Source : Retire(s) \/ LegacyEdited(s)

CutoverSpec == CutoverInit /\ [][CutoverNext]_cutoverVars

--------------------------------------------------------------------------------
\* verifyRetirable: whatever runs stopped, died or lost an answer, a run retires
\* sources only when each was writable as it began, so none is renamed twice.
NothingIsRetiredTwice ==
    [][\A s \in cutover'.retirements \ cutover.retirements : ~legacy[s].locked]_cutoverVars

\* master-tasks-cutover.ts, recovery and the comment on the retirements: a stopped
\* run says that it is before the commit point only when no source is retired.
RecoveryIsHonest ==
    At("stopped") /\ cutover.retirements = {} => \A s \in Source : ~legacy[s].locked

\* The command line reports the sample edits as restored: the cutover ends with
\* pages that show the priority of their Work Item.
SamplesAreRestored ==
    approved = "done" => \A r \in Planned : projected[r].shown = migrated[r]

\* verifySnapshots: a record is archived as it was reviewed.
RetiredAsReviewed == \A s \in Source : legacy[s].locked => legacy[s].reviewed
================================================================================
