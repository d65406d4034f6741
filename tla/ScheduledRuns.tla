------------------------------ MODULE ScheduledRuns ------------------------------
(***************************************************************************)
(* One daily job of src/src/operations/daily-operations-scheduler.ts over   *)
(* the durable rows of its occurrences (scheduler_runs in                   *)
(* operations-state.ts), with runners that hang, ticks that throw, and      *)
(* crashes; or, owned by Hermes, the same rows claimed by overlapping calls *)
(* of src/src/operations/native-scheduled-reports.ts.                       *)
(***************************************************************************)
EXTENDS Integers, FiniteSets

CONSTANTS
    MaxDays,      \* bound: operating days
    MaxAttempts,  \* retry bound of an occurrence; 0 stands for none
    Call,         \* calls of the native report tool
    MaxFaults    \* bound: failed and timed-out attempts, throws, crashes

\* What the constants must satisfy.
ScheduledRunsAssumption ==
    MaxDays \in Nat \ {0} /\ MaxAttempts \in Nat /\ MaxFaults \in Nat

VARIABLES
    job,       \* the job definition: its owner, and how critical it is
    today,     \* the operating day, and whether its occurrence is due
    row,       \* scheduler_runs, and whether a running row is stale
    failures,  \* scheduler_run_failures of each occurrence
    tick,      \* what the tick of the scheduler holds in memory
    fenced,    \* the job is in activeJobs
    runners,   \* runners of the job that have not settled
    incident,  \* the exception notices of the job: an incident is open
    call,      \* what each native call holds in memory
    faults

runVars == <<job, today, row, failures, tick, fenced, runners, incident, call, faults>>

Day == 1 .. MaxDays
Idle == [pc |-> "idle", day |-> 0, prior |-> 0]

RunsInit ==
    /\ job \in [owner : {"real-ming", "native-hermes-cron"}, critical : BOOLEAN]
    /\ today = [day |-> 1, due |-> FALSE]
    /\ row = [d \in Day |-> [outcome |-> "none", stale |-> FALSE]]
    /\ failures = [d \in Day |-> 0]
    /\ tick = Idle
    /\ fenced = FALSE /\ runners = 0
    /\ incident = FALSE
    /\ call = [c \in Call |-> Idle]
    /\ faults = 0

--------------------------------------------------------------------------------
(* The rows *)

Outcome(d) == row[d].outcome
Running == [outcome |-> "running", stale |-> FALSE]
Ended(outcome) == [outcome |-> outcome, stale |-> FALSE]

\* Only the scheduler passes a retry bound.
Exhausted(d) ==
    job.owner = "real-ming" /\ MaxAttempts > 0 /\ failures[d] >= MaxAttempts

\* claimSchedulerRun, what it answers.
ClaimOf(d) ==
    CASE Outcome(d) = "succeeded" -> "already-succeeded"
      [] Outcome(d) = "failed" /\ Exhausted(d) -> "terminal-failure"
      [] Outcome(d) = "running" /\ ~row[d].stale -> "already-running"
      [] Outcome(d) = "running" /\ row[d].stale -> "stale-reclaimed"
      [] OTHER -> "claimed"

\* failureStreak: the failed occurrences at the end of the rows of the job.
Streak(rows) ==
    LET seen == {d \in Day : rows[d].outcome # "none"}
    IN Cardinality({d \in seen : \A e \in seen : e >= d => rows[e].outcome = "failed"})

\* completeSchedulerRun as failed: the attempt is counted.
FailRow(d) ==
    /\ row' = [row EXCEPT ![d] = Ended("failed")]
    /\ failures' = [failures EXCEPT ![d] = @ + 1]

Fault == faults < MaxFaults /\ faults' = faults + 1

\* Time: an occurrence becomes due, the next day begins, a running row ages.
ClockMoves ==
    /\ \/ ~today.due /\ today' = [today EXCEPT !.due = TRUE] /\ UNCHANGED row
       \/ today.due /\ today.day < MaxDays
          /\ today' = [day |-> today.day + 1, due |-> FALSE] /\ UNCHANGED row
       \/ /\ \E d \in Day : Outcome(d) = "running" /\ ~row[d].stale
                            /\ row' = [row EXCEPT ![d].stale = TRUE]
          /\ UNCHANGED today
    /\ UNCHANGED <<job, failures, tick, fenced, runners, incident, call, faults>>

--------------------------------------------------------------------------------
(* The scheduler's tick *)

At(pc, prior) == tick' = [pc |-> pc, day |-> today.day, prior |-> prior]

StartRunner == fenced' = TRUE /\ runners' = runners + 1

\* A settled runner frees the job.
Settle == fenced' = FALSE /\ runners' = runners - 1

\* The previous occurrence did not end: a routine job that never ran then is
\* left alone, as is one that was never due.
Missed ==
    /\ today.day > 1
    /\ Outcome(today.day - 1) \in {"none", "running"}
    /\ Outcome(today.day - 1) = "none" => job.critical

Tickable == job.owner = "real-ming" /\ tick.pc = "idle" /\ ~fenced /\ today.due

\* reportMissedPreviousOccurrence: the occurrence is recorded as failed.
ReportMissed ==
    /\ Tickable /\ Missed
    /\ FailRow(today.day - 1)
    /\ At("noticing-missed", 0)
    /\ UNCHANGED <<job, today, fenced, runners, incident, call, faults>>

\* claimSchedulerRun of the tick: a fresh claim starts the runner, a stale row is
\* recorded as failed first.
TickClaims ==
    LET d == IF tick.pc = "idle" THEN today.day ELSE tick.day
    IN /\ \/ Tickable /\ ~Missed
          \/ tick.pc = "claiming"
       /\ IF ClaimOf(d) = "claimed"
            THEN /\ row' = [row EXCEPT ![d] = Running]
                 /\ tick' = [pc |-> "running", day |-> d, prior |-> Streak(row)]
                 /\ StartRunner
                 /\ UNCHANGED failures
          ELSE IF ClaimOf(d) = "stale-reclaimed"
            THEN /\ FailRow(d)
                 /\ tick' = [pc |-> "noticing-stale", day |-> d, prior |-> 0]
                 /\ UNCHANGED <<fenced, runners>>
          ELSE tick' = Idle /\ UNCHANGED <<row, failures, fenced, runners>>
       /\ UNCHANGED <<job, today, incident, call, faults>>

\* The claim behind the notice of a stale row.  The streak is counted again
\* behind the claim, whose row ends it.
TickReclaims ==
    /\ tick.pc = "reclaiming"
    /\ IF ClaimOf(tick.day) = "claimed"
         THEN /\ row' = [row EXCEPT ![tick.day] = Running]
              /\ tick' = [tick EXCEPT !.pc = "running", !.prior = Streak(row')]
              /\ StartRunner
         ELSE tick' = Idle /\ UNCHANGED <<row, fenced, runners>>
    /\ UNCHANGED <<job, today, failures, incident, call, faults>>

NextStage(pc) ==
    CASE pc = "noticing-missed" -> "claiming"
      [] pc = "noticing-stale" -> "reclaiming"
      [] OTHER -> "idle"

Noticing == {"noticing-missed", "noticing-stale", "noticing-failed"}
Threshold == IF job.critical THEN 1 ELSE 2

\* admitFailure: enough failed occurrences in a row open an incident.
AdmitFailure ==
    /\ tick.pc \in Noticing
    /\ incident' = (incident \/ Streak(row) >= Threshold)
    /\ tick' = [tick EXCEPT !.pc = NextStage(@)]
    /\ UNCHANGED <<job, today, row, failures, fenced, runners, call, faults>>

\* The notice cannot be stored: the error leaves the tick.
AdmitThrows ==
    /\ tick.pc \in Noticing /\ Fault
    /\ tick' = Idle
    /\ UNCHANGED <<job, today, row, failures, fenced, runners, incident, call>>

\* The runner rejects, in time.
RunnerFails ==
    /\ tick.pc = "running" /\ Fault
    /\ Settle
    /\ FailRow(tick.day)
    /\ tick' = [tick EXCEPT !.pc = "noticing-failed"]
    /\ UNCHANGED <<job, today, incident, call>>

\* Mutant: a timed-out job is free at once.
RunnerTimesOutFree ==
    /\ tick.pc = "running" /\ row[tick.day].stale /\ Fault
    /\ FailRow(tick.day)
    /\ fenced' = FALSE
    /\ tick' = [tick EXCEPT !.pc = "noticing-failed"]
    /\ UNCHANGED <<job, today, runners, incident, call>>

\* runWithTimeout: the timer, as long as the row takes to become stale, rejects
\* first.  The runner goes on and keeps the job fenced.
RunnerTimesOut ==
    /\ tick.pc = "running" /\ row[tick.day].stale /\ Fault
    /\ FailRow(tick.day)
    /\ tick' = [tick EXCEPT !.pc = "noticing-failed"]
    /\ UNCHANGED <<job, today, fenced, runners, incident, call>>

\* The runner resolves in time.
RunnerSucceeds ==
    /\ tick.pc = "running"
    /\ Settle
    /\ row' = [row EXCEPT ![tick.day] = Ended("succeeded")]
    /\ tick' = [tick EXCEPT !.pc = "recovering"]
    /\ UNCHANGED <<job, today, failures, incident, call, faults>>

\* recordRecovery, if the streak before the claim had failures.
RecordRecovery ==
    /\ tick.pc = "recovering"
    /\ incident' = (incident /\ tick.prior = 0)
    /\ tick' = Idle
    /\ UNCHANGED <<job, today, row, failures, fenced, runners, call, faults>>

\* A runner whose tick gave it up settles.
LateSettle ==
    /\ tick.pc # "running"
    /\ runners > 0 /\ Settle
    /\ UNCHANGED <<job, today, row, failures, tick, incident, call, faults>>

\* The process dies with its runners.
SchedulerCrashes ==
    /\ tick.pc # "idle" \/ fenced
    /\ Fault
    /\ tick' = Idle /\ fenced' = FALSE /\ runners' = 0
    /\ UNCHANGED <<job, today, row, failures, incident, call>>

--------------------------------------------------------------------------------
(* The native report tool *)

\* run: only today's occurrence; a success is replayed from its output.
NativeClaims(c) ==
    LET d == today.day
        claim == ClaimOf(d)
    IN /\ job.owner = "native-hermes-cron" /\ call[c].pc = "idle"
       /\ claim \in {"claimed", "stale-reclaimed"}
       /\ row' = [row EXCEPT ![d] = Running]
       /\ failures' = [failures EXCEPT ![d] = IF claim = "claimed" THEN @ ELSE @ + 1]
       /\ call' = [call EXCEPT ![c] = [Idle EXCEPT !.pc = "composing", !.day = d]]
       /\ UNCHANGED <<job, today, tick, fenced, runners, incident, faults>>

\* The report is composed; its text is stored with the success.
NativeComposes(c) ==
    /\ call[c].pc = "composing"
    /\ row' = [row EXCEPT ![call[c].day] = Ended("succeeded")]
    /\ call' = [call EXCEPT ![c] = Idle]
    /\ UNCHANGED <<job, today, failures, tick, fenced, runners, incident, faults>>

\* The composition throws.
NativeFails(c) ==
    /\ call[c].pc = "composing" /\ Fault
    /\ FailRow(call[c].day)
    /\ call' = [call EXCEPT ![c] = Idle]
    /\ UNCHANGED <<job, today, tick, fenced, runners, incident>>

\* The process of the call dies.
NativeCrashes(c) ==
    /\ call[c].pc = "composing" /\ Fault
    /\ call' = [call EXCEPT ![c] = Idle]
    /\ UNCHANGED <<job, today, row, failures, tick, fenced, runners, incident>>

--------------------------------------------------------------------------------
RunsNext ==
    \/ ClockMoves
    \/ ReportMissed \/ TickClaims \/ TickReclaims \/ AdmitFailure \/ AdmitThrows
    \/ RunnerFails \/ RunnerTimesOut \/ RunnerSucceeds \/ RecordRecovery \/ LateSettle
    \/ SchedulerCrashes
    \/ \E c \in Call : NativeClaims(c) \/ NativeComposes(c) \/ NativeFails(c) \/ NativeCrashes(c)

RunsSpec == RunsInit /\ [][RunsNext]_runVars

--------------------------------------------------------------------------------
\* runWithTimeout: "a late side effect cannot race a retry after a timeout": of
\* one job, at most one runner is at work, whatever times out, crashes or ages.
RunnerIsAlone == runners <= 1

\* real-ming-v1.1.md:234, "recovery produces one notice": a tick that brought the
\* job to success leaves no incident of it open.
RecoveryIsNoticed == [][RecordRecovery => ~incident']_runVars

\* real-ming-v1.1.md:234, "one critical missed or failed heartbeat triggers an
\* Exception Notice": behind the notice of a day, a failed critical occurrence
\* of the day before has its incident.
MissedIsNoticed ==
    job.critical /\ tick.pc = "running" /\ tick.day > 1 /\ Outcome(tick.day - 1) = "failed" =>
        incident

\* claimSchedulerRun: "cannot execute the same occurrence twice": an occurrence
\* that succeeded stays succeeded.
SucceededStays ==
    [][\A d \in Day : Outcome(d) = "succeeded" => row'[d].outcome = "succeeded"]_runVars
================================================================================
