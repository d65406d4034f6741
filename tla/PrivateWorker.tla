----------------------------- MODULE PrivateWorker -----------------------------
(***************************************************************************)
(* The durable job queue of the Lenovo private worker                      *)
(* (workers/private-worker.ts): jobs in a SQLite table shared by every     *)
(* process that opens it, leases and execution tokens, bounded retries     *)
(* with a backoff, a hard deadline, a laptop that sleeps and reconnects,   *)
(* and processes that die in the middle of an execution.                   *)
(*                                                                         *)
(* claim is one BEGIN IMMEDIATE transaction and runs with the read of the  *)
(* clock in one synchronous step; the executor is awaited.  A job row      *)
(* keeps its fields together; the random execution token of a claim is     *)
(* named by the attempt it belongs to, which is as unique.  The lease      *)
(* token, which no statement compares, is left out.                        *)
(***************************************************************************)
EXTENDS Integers, FiniteSets

CONSTANTS
    Job,            \* effects, named by idempotency key
    Process,        \* processes that opened the table
    Supported,      \* <<process, job>>: the process has the capability
    MaxAttempts,    \* retryPolicy.maxAttempts
    BackoffMs,      \* retryPolicy.backoffMs
    LeaseMs,
    DeadlineMs,
    MaxTime,        \* bound: the clock
    MaxCrashes      \* bound: process crashes

ASSUME PolicyAssumption ==
    /\ MaxAttempts \in Nat \ {0} /\ BackoffMs \in Nat
    /\ LeaseMs \in Nat \ {0} /\ DeadlineMs \in Nat \ {0}
ASSUME BoundAssumption == MaxTime \in Nat /\ MaxCrashes \in Nat

VARIABLES
    jobs,       \* the rows of private_worker_jobs
    executing,  \* execution token each process awaits for each job; 0: none
    performed,  \* <<job, attempt>>: side effects the executor carried out
    available,  \* per process: the laptop is awake
    now,
    crashes

vars == <<jobs, executing, performed, available, now, crashes>>

Absent == [state |-> "absent", attempts |-> 0, leaseExpiresAt |-> 0, token |-> 0,
           active |-> FALSE, deadline |-> 0, updatedAt |-> 0]

JobState == {"absent", "queued", "running", "failed", "completed"}

JobRow == [state : JobState, attempts : 0..MaxAttempts,
           leaseExpiresAt : 0..(MaxTime + LeaseMs), token : 0..MaxAttempts,
           active : BOOLEAN, deadline : 0..(MaxTime + DeadlineMs),
           updatedAt : 0..MaxTime]

\* insertJob, for a key that has no row yet.
Inserted(row) ==
    IF row.state # "absent" THEN row
    ELSE [row EXCEPT !.state = "queued", !.deadline = now + DeadlineMs,
                     !.updatedAt = now]

-----------------------------------------------------------------------------
\* claim: what each of its early returns tests.

HeldByLeaseOnly(row) == row.state = "running" /\ row.leaseExpiresAt > now
LeaseHeld(row) ==
    row.state = "running" /\ (row.leaseExpiresAt > now \/ row.active)

\* A running row past its lease whose executor has returned is queued again.
Requeued(row) ==
    IF row.state = "running"
    THEN [row EXCEPT !.state = "queued", !.leaseExpiresAt = 0, !.token = 0,
                     !.updatedAt = now]
    ELSE row

ExhaustedOffByOne(row) == row.state = "failed" /\ row.attempts > MaxAttempts
RetryExhausted(row) == row.state = "failed" /\ row.attempts >= MaxAttempts

RetryDeferred(row) ==
    row.state = "failed" /\ row.attempts > 0 /\ now < row.updatedAt + BackoffMs

DeadlineExpired(row) == now >= row.deadline

\* The row the claim goes on with, when none of the first returns was taken.
Claimable(row) ==
    /\ row.state # "completed"
    /\ ~LeaseHeld(row)
    /\ ~RetryExhausted(Requeued(row))
    /\ ~RetryDeferred(Requeued(row))

\* The executor has returned or thrown: the row is failed, unless another
\* execution token took it over.
FencedByLease(row, token) ==
    IF row.state = "running" /\ row.leaseExpiresAt > now
    THEN [row EXCEPT !.state = "failed", !.leaseExpiresAt = 0, !.token = 0,
                     !.active = FALSE, !.updatedAt = now]
    ELSE row
failOrFence(row, token) ==
    IF row.state = "running" /\ row.token = token
    THEN [row EXCEPT !.state = "failed", !.leaseExpiresAt = 0, !.token = 0,
                     !.active = FALSE, !.updatedAt = now]
    ELSE row

-----------------------------------------------------------------------------

Init ==
    /\ jobs = [j \in Job |-> Absent]
    /\ executing = [p \in Process |-> [j \in Job |-> 0]]
    /\ performed = {}
    /\ available \in [Process -> BOOLEAN]
    /\ now = 0
    /\ crashes = 0

\* execute while the laptop sleeps, or without the capability: the job is
\* inserted, then the call is refused.
Enqueue(p, j) ==
    /\ executing[p][j] = 0
    /\ ~available[p] \/ <<p, j>> \notin Supported
    /\ jobs[j].state = "absent"
    /\ jobs' = [jobs EXCEPT ![j] = Inserted(@)]
    /\ UNCHANGED <<executing, performed, available, now, crashes>>

\* executeFresh runs at most once per key and process: the in-flight map hands
\* a second caller the promise of the first.
MayClaim(p, j) ==
    /\ executing[p][j] = 0
    /\ available[p]
    /\ <<p, j>> \in Supported
    /\ Claimable(Inserted(jobs[j]))

\* claim finds the job past its deadline.
ClaimExpired(p, j) ==
    /\ MayClaim(p, j)
    /\ DeadlineExpired(Inserted(jobs[j]))
    /\ jobs' = [jobs EXCEPT ![j] = [Requeued(Inserted(@)) EXCEPT !.state = "failed",
                                                                 !.updatedAt = now]]
    /\ UNCHANGED <<executing, performed, available, now, crashes>>

\* claim takes the job and the executor is called with it.
Claim(p, j) ==
    LET row == Requeued(Inserted(jobs[j]))
    IN  /\ MayClaim(p, j)
        /\ ~DeadlineExpired(row)
        /\ jobs' = [jobs EXCEPT ![j] =
                       [row EXCEPT !.state = "running", !.attempts = row.attempts + 1,
                                   !.leaseExpiresAt = now + LeaseMs,
                                   !.token = row.attempts + 1, !.active = TRUE,
                                   !.updatedAt = now]]
        /\ executing' = [executing EXCEPT ![p][j] = row.attempts + 1]
        /\ UNCHANGED <<performed, available, now, crashes>>

\* The executor carries the action out; its promise is still pending.
ExecutorPerforms(p, j) ==
    /\ executing[p][j] # 0
    /\ performed' = performed \cup {<<j, executing[p][j]>>}
    /\ UNCHANGED <<jobs, executing, available, now, crashes>>

\* The executor throws, its output is not valid, or it answers too late.
ExecutionFails(p, j) ==
    /\ executing[p][j] # 0
    /\ jobs' = [jobs EXCEPT ![j] = failOrFence(@, executing[p][j])]
    /\ executing' = [executing EXCEPT ![p][j] = 0]
    /\ UNCHANGED <<performed, available, now, crashes>>

\* isValidOutput and the checks after it: an output that names the expected
\* evidence of the job only comes from an execution that carried it out.
AcceptsAnyOutput(j, token) == TRUE
ValidOutput(j, token) == <<j, token>> \in performed

\* A valid output before the deadline: the conditional UPDATE stores it when
\* the row still carries this execution's token, and the call fails otherwise.
ExecutionCompletes(p, j) ==
    LET token == executing[p][j]
        row == jobs[j]
    IN  /\ token # 0
        /\ ValidOutput(j, token)
        /\ now < row.deadline
        /\ jobs' = IF row.state = "running" /\ row.active /\ row.token = token
                   THEN [jobs EXCEPT ![j] =
                            [row EXCEPT !.state = "completed", !.leaseExpiresAt = 0,
                                        !.token = 0, !.active = FALSE, !.updatedAt = now]]
                   ELSE jobs
        /\ executing' = [executing EXCEPT ![p][j] = 0]
        /\ UNCHANGED <<performed, available, now, crashes>>

\* expireLeases rotates the lease token of every running job past its lease;
\* what is left of it here is the new updated_at.
expireLeases ==
    /\ jobs' = [j \in Job |->
                  IF jobs[j].state = "running" /\ jobs[j].leaseExpiresAt <= now
                  THEN [jobs[j] EXCEPT !.updatedAt = now] ELSE jobs[j]]
    /\ UNCHANGED <<executing, performed, available, now, crashes>>

setAvailability(p, value) ==
    /\ available' = [available EXCEPT ![p] = value]
    /\ UNCHANGED <<jobs, executing, performed, now, crashes>>

Tick ==
    /\ now < MaxTime
    /\ now' = now + 1
    /\ UNCHANGED <<jobs, executing, performed, available, crashes>>

\* A process dies and comes back: the promises are gone, the rows stay.
Crash(p) ==
    /\ crashes < MaxCrashes
    /\ crashes' = crashes + 1
    /\ executing' = [executing EXCEPT ![p] = [j \in Job |-> 0]]
    /\ UNCHANGED <<jobs, performed, available, now>>

Claims == \E p \in Process, j \in Job : Enqueue(p, j) \/ ClaimExpired(p, j) \/ Claim(p, j)

Executions ==
    \E p \in Process, j \in Job :
        ExecutorPerforms(p, j) \/ ExecutionFails(p, j) \/ ExecutionCompletes(p, j)

Next ==
    \/ Claims
    \/ Executions
    \/ expireLeases
    \/ \E p \in Process : Crash(p) \/ \E value \in BOOLEAN : setAvailability(p, value)
    \/ Tick

Spec == Init /\ [][Next]_vars

\* Every promise of an executor settles, in a result or an error.
FairSpec ==
    Spec /\ \A p \in Process, j \in Job :
               WF_vars(ExecutionFails(p, j) \/ ExecutionCompletes(p, j))

-----------------------------------------------------------------------------

TypeOK ==
    /\ jobs \in [Job -> JobRow]
    /\ executing \in [Process -> [Job -> 0..MaxAttempts]]
    /\ performed \subseteq Job \X (1..MaxAttempts)
    /\ available \in [Process -> BOOLEAN]
    /\ now \in 0..MaxTime
    /\ crashes \in 0..MaxCrashes

\* Two processes never execute the same job at once, also after the lease of
\* the first has expired, and an executor that is still running keeps the right
\* to commit: the row carries its token until it returns.
SingleExecutor ==
    \A p \in Process, j \in Job : executing[p][j] # 0 =>
        /\ jobs[j].state = "running" /\ jobs[j].token = executing[p][j]
        /\ \A q \in Process : executing[q][j] # 0 => q = p

\* A completed job has the output of its last attempt, and that attempt did
\* carry the action out.
CompletionRestsOnEffect ==
    \A j \in Job : jobs[j].state = "completed" => <<j, jobs[j].attempts>> \in performed

\* A completed job is never touched again, and nothing of it is carried out
\* again, whichever process is asked.
CompletedIsFinal ==
    [][\A j \in Job : jobs[j].state = "completed" =>
          /\ jobs'[j] = jobs[j]
          /\ \A n \in 1..MaxAttempts : <<j, n>> \in performed' => <<j, n>> \in performed]_vars

\* The refinement mapping: what the contract sees of a row.
StatusOf(row) ==
    CASE row.state = "completed" -> "settled"
      [] row.state = "running" -> "executing"
      [] OTHER -> "idle"
statusBar == [j \in Job |-> StatusOf(jobs[j])]
triesBar == [j \in Job |-> jobs[j].attempts]

Contract ==
    INSTANCE ControlledWorker
        WITH status <- statusBar, tries <- triesBar, effects <- performed

\* The worker keeps the contract the gateway relies on.
ImplementsControlledWorker == Contract!Spec

\* A job that is being executed is settled, unless a process dies: no
\* interleaving of late answers, expiring leases and refused claimants strands
\* it as running.
RunningJobsSettle ==
    \A j \in Job, n \in 0..MaxCrashes :
        (crashes = n /\ \E p \in Process : executing[p][j] # 0)
            ~> (crashes > n \/ jobs[j].state # "running")

-----------------------------------------------------------------------------
\* What the documents say and the code does not do.

\* "Reconnection permits safe lease acquisition and resumption": a job past its
\* lease that no process is executing any more can be leased again.
ReconnectionPermitsLease ==
    \A j \in Job :
        (/\ jobs[j].state = "running" /\ jobs[j].leaseExpiresAt <= now
         /\ \A p \in Process : executing[p][j] = 0)
           => ~LeaseHeld(jobs[j])
=============================================================================
