------------------------- MODULE PrivateWorkerProofs -------------------------
(***************************************************************************)
(* Theorems about PrivateWorker, for every set of jobs and processes and   *)
(* every retry policy: one executor at a time, completions that rest on    *)
(* effects, and the refinement of ControlledWorker.                        *)
(***************************************************************************)
EXTENDS PrivateWorker, TLAPS

\* A running row belongs to its latest attempt and is marked active; a row that
\* was never claimed has used no attempt.
RunningRowsAreOwned ==
    \A j \in Job :
        /\ jobs[j].state = "running" =>
              jobs[j].active /\ jobs[j].token = jobs[j].attempts /\ jobs[j].attempts > 0
        /\ jobs[j].state \in {"absent", "queued"} => jobs[j].attempts = 0

IInv == TypeOK /\ RunningRowsAreOwned /\ SingleExecutor /\ CompletionRestsOnEffect

-----------------------------------------------------------------------------
\* The rows the helpers build.

\* The bounds that every row's fields stay in.
LEMMA Bounds ==
    /\ 0 \in 0..MaxAttempts /\ 0 \in 0..(MaxTime + LeaseMs) /\ 0 \in 0..(MaxTime + DeadlineMs)
    /\ 0 \in 0..MaxTime
    /\ \A t \in 0..MaxTime : t + LeaseMs \in 0..(MaxTime + LeaseMs)
                             /\ t + DeadlineMs \in 0..(MaxTime + DeadlineMs)
  BY PolicyAssumption, BoundAssumption

\* insertJob and the requeueing of a lapsed lease give a row that is queued, or
\* leave the row as it is.
LEMMA PreparedRow ==
    ASSUME now \in 0..MaxTime, NEW row \in JobRow
    PROVE  /\ Requeued(Inserted(row)) \in JobRow
           /\ Requeued(Inserted(row)).attempts = row.attempts
           /\ Requeued(Inserted(row)).state \in {"queued", "failed", "completed"}
           /\ row.state = "completed" => Requeued(Inserted(row)) = row
           /\ Requeued(Inserted(row)).state = "completed" => row.state = "completed"
<1> DEFINE inserted == Inserted(row)
<1>1. /\ inserted \in JobRow
      /\ inserted.attempts = row.attempts
      /\ inserted.state \in {"queued", "running", "failed", "completed"}
      /\ row.state # "absent" => inserted = row
      /\ row.state = "absent" => inserted.state = "queued"
  <2>1. CASE row.state = "absent"
    BY <2>1, Bounds DEF Inserted, JobRow, JobState
  <2>2. CASE row.state # "absent"
    BY <2>2 DEF Inserted, JobRow, JobState
  <2> QED
    BY <2>1, <2>2
<1> HIDE DEF inserted
<1>2. /\ Requeued(inserted) \in JobRow
      /\ Requeued(inserted).attempts = inserted.attempts
      /\ Requeued(inserted).state \in {"queued", "failed", "completed"}
      /\ inserted.state = "completed" => Requeued(inserted) = inserted
      /\ Requeued(inserted).state = "completed" => inserted.state = "completed"
  <2>1. CASE inserted.state = "running"
    BY <1>1, <2>1, Bounds DEF Requeued, JobRow, JobState
  <2>2. CASE inserted.state # "running"
    BY <1>1, <2>2 DEF Requeued
  <2> QED
    BY <2>1, <2>2
<1> QED
  BY <1>1, <1>2 DEF inserted

\* A claimable row has an attempt left: a new row has used none, and a failed one
\* was found not exhausted.
LEMMA ClaimableRow ==
    ASSUME TypeOK, RunningRowsAreOwned, NEW j \in Job, Claimable(Inserted(jobs[j]))
    PROVE  /\ jobs[j].state \in {"absent", "queued", "failed"}
           /\ jobs[j].attempts \in Nat /\ jobs[j].attempts < MaxAttempts
           /\ Requeued(Inserted(jobs[j])).state \in {"queued", "failed"}
<1>1. jobs[j] \in JobRow /\ jobs[j].state \in JobState /\ jobs[j].attempts \in 0..MaxAttempts
  BY DEF TypeOK, JobRow
<1>2. CASE jobs[j].state = "completed"
  BY <1>2 DEF Claimable, Inserted
<1>3. CASE jobs[j].state = "running"
  BY <1>3 DEF Claimable, Inserted, LeaseHeld, RunningRowsAreOwned
<1>4. CASE jobs[j].state = "failed"
  <2>1. Inserted(jobs[j]) = jobs[j] /\ Requeued(jobs[j]) = jobs[j]
    BY <1>4 DEF Inserted, Requeued
  <2> QED
    BY <1>1, <1>4, <2>1, PolicyAssumption DEF Claimable, RetryExhausted
<1>5. CASE jobs[j].state = "queued"
  <2>1. Inserted(jobs[j]) = jobs[j] /\ Requeued(jobs[j]) = jobs[j]
    BY <1>5 DEF Inserted, Requeued
  <2> QED
    BY <1>1, <1>5, <2>1, PolicyAssumption DEF RunningRowsAreOwned
<1>6. CASE jobs[j].state = "absent"
  <2>1. Inserted(jobs[j]).state = "queued"
    BY <1>1, <1>6 DEF Inserted, JobRow
  <2>2. Requeued(Inserted(jobs[j])) = Inserted(jobs[j])
    BY <2>1 DEF Requeued
  <2> QED
    BY <1>1, <1>6, <2>1, <2>2, PolicyAssumption DEF RunningRowsAreOwned
<1> QED
  BY <1>1, <1>2, <1>3, <1>4, <1>5, <1>6 DEF JobState

-----------------------------------------------------------------------------

\* An empty table satisfies the invariant.
THEOREM InitIInv == Init => IInv
<1> SUFFICES ASSUME Init PROVE IInv
  OBVIOUS
<1>1. Absent \in JobRow
  BY Bounds DEF Absent, JobRow, JobState
<1>2. TypeOK
  BY <1>1, PolicyAssumption, BoundAssumption DEF Init, TypeOK
<1> QED
  BY <1>2 DEF Init, IInv, RunningRowsAreOwned, SingleExecutor, CompletionRestsOnEffect, Absent

\* A step that gives one job that nobody executes another row that nobody
\* executes either.
LEMMA IdleRowStep ==
    ASSUME IInv, NEW j \in Job, NEW row \in JobRow,
           jobs[j].state # "running", row.state \in {"queued", "failed"},
           row.state = "queued" => row.attempts = 0,
           jobs' = [jobs EXCEPT ![j] = row],
           UNCHANGED <<executing, performed, available, now, crashes>>
    PROVE  IInv'
<1>1. TypeOK'
  BY DEF IInv, TypeOK
<1>2. RunningRowsAreOwned'
  BY DEF IInv, TypeOK, RunningRowsAreOwned
<1>3. SingleExecutor'
  BY DEF IInv, TypeOK, SingleExecutor
<1>4. CompletionRestsOnEffect'
  BY DEF IInv, TypeOK, CompletionRestsOnEffect
<1> QED
  BY <1>1, <1>2, <1>3, <1>4 DEF IInv

\* A claim starts the only execution of its job, with the next attempt as token.
LEMMA ClaimStep ==
    ASSUME IInv, NEW p \in Process, NEW j \in Job, Claim(p, j)
    PROVE  IInv'
<1> DEFINE row == Requeued(Inserted(jobs[j]))
           new == [row EXCEPT !.state = "running", !.attempts = row.attempts + 1,
                              !.leaseExpiresAt = now + LeaseMs,
                              !.token = row.attempts + 1, !.active = TRUE,
                              !.updatedAt = now]
<1>1. /\ TypeOK /\ RunningRowsAreOwned
      /\ jobs[j] \in JobRow /\ now \in 0..MaxTime
      /\ Claimable(Inserted(jobs[j]))
  BY DEF IInv, TypeOK, Claim, MayClaim
<1>2. /\ jobs[j].state \in {"absent", "queued", "failed"}
      /\ row \in JobRow
      /\ row.attempts = jobs[j].attempts
      /\ row.attempts \in Nat /\ row.attempts < MaxAttempts
  BY <1>1, ClaimableRow, PreparedRow
<1>3. /\ jobs' = [jobs EXCEPT ![j] = new]
      /\ executing' = [executing EXCEPT ![p][j] = row.attempts + 1]
      /\ UNCHANGED <<performed, available, now, crashes>>
  BY DEF Claim
<1> HIDE DEF row
<1>4. /\ new \in JobRow
      /\ new.state = "running" /\ new.active
      /\ new.attempts = row.attempts + 1 /\ new.token = row.attempts + 1
  <2>1. /\ row.attempts + 1 \in 0..MaxAttempts
        /\ now + LeaseMs \in 0..(MaxTime + LeaseMs)
    BY <1>1, <1>2, Bounds, PolicyAssumption
  <2> QED
    BY <1>1, <1>2, <2>1 DEF JobRow, JobState
<1> HIDE DEF new
<1>5. jobs'[j] = new /\ \A k \in Job : k # j => jobs'[k] = jobs[k]
  BY <1>1, <1>3 DEF TypeOK
<1>6. TypeOK'
  BY <1>1, <1>2, <1>3, <1>4, PolicyAssumption DEF TypeOK
<1>7. \A q \in Process : executing[q][j] = 0
  BY <1>2 DEF IInv, SingleExecutor
<1>8. /\ executing'[p][j] = row.attempts + 1
      /\ \A q \in Process, k \in Job : <<q, k>> # <<p, j>> => executing'[q][k] = executing[q][k]
  BY <1>1, <1>3 DEF TypeOK
<1>9. SingleExecutor'
  BY <1>2, <1>4, <1>5, <1>7, <1>8 DEF IInv, SingleExecutor
<1>10. RunningRowsAreOwned'
  BY <1>1, <1>2, <1>4, <1>5 DEF RunningRowsAreOwned
<1>11. CompletionRestsOnEffect'
  BY <1>3, <1>4, <1>5 DEF IInv, CompletionRestsOnEffect
<1> QED
  BY <1>6, <1>9, <1>10, <1>11 DEF IInv

\* The end of an execution: the row it owns is failed or completed, and nobody
\* executes the job.
LEMMA EndStep ==
    ASSUME IInv, NEW p \in Process, NEW j \in Job, executing[p][j] # 0,
           NEW row \in JobRow, row.state \in {"failed", "completed"},
           row.attempts = jobs[j].attempts,
           row.state = "completed" => <<j, executing[p][j]>> \in performed,
           jobs' = [jobs EXCEPT ![j] = row],
           executing' = [executing EXCEPT ![p][j] = 0],
           UNCHANGED <<performed, available, now, crashes>>
    PROVE  IInv'
<1>1. TypeOK'
  BY Bounds DEF IInv, TypeOK
<1>2. /\ jobs'[j] = row /\ \A k \in Job : k # j => jobs'[k] = jobs[k]
      /\ executing'[p][j] = 0
      /\ \A q \in Process, k \in Job : <<q, k>> # <<p, j>> => executing'[q][k] = executing[q][k]
  BY DEF IInv, TypeOK
<1>3. SingleExecutor'
  BY <1>2 DEF IInv, SingleExecutor
<1>4. RunningRowsAreOwned'
  BY <1>2 DEF IInv, RunningRowsAreOwned
<1>5. CompletionRestsOnEffect'
  <2>1. executing[p][j] = jobs[j].attempts
    BY DEF IInv, SingleExecutor, RunningRowsAreOwned
  <2> QED
    BY <1>2, <2>1 DEF IInv, CompletionRestsOnEffect
<1> QED
  BY <1>1, <1>3, <1>4, <1>5 DEF IInv

\* What failOrFence makes of the row an execution owns.
LEMMA FailedRow ==
    ASSUME IInv, NEW p \in Process, NEW j \in Job, executing[p][j] # 0
    PROVE  /\ failOrFence(jobs[j], executing[p][j]) \in JobRow
           /\ failOrFence(jobs[j], executing[p][j]).state = "failed"
           /\ failOrFence(jobs[j], executing[p][j]).attempts = jobs[j].attempts
<1>1. jobs[j] \in JobRow /\ jobs[j].state = "running" /\ jobs[j].token = executing[p][j]
  BY DEF IInv, TypeOK, SingleExecutor
<1> QED
  BY <1>1, Bounds DEF IInv, TypeOK, failOrFence, JobRow, JobState

\* The whole next-state relation.
LEMMA StepIInv == ASSUME IInv, [Next]_vars PROVE IInv'
<1>1. ASSUME NEW p \in Process, NEW j \in Job, Enqueue(p, j) PROVE IInv'
  <2>1. /\ jobs[j] \in JobRow /\ jobs[j].state = "absent" /\ jobs[j].attempts = 0
        /\ now \in 0..MaxTime
    BY <1>1 DEF IInv, TypeOK, Enqueue, RunningRowsAreOwned
  <2>2. /\ Inserted(jobs[j]) \in JobRow
        /\ Inserted(jobs[j]).state = "queued" /\ Inserted(jobs[j]).attempts = 0
    BY <2>1, Bounds DEF Inserted, JobRow, JobState
  <2>3. /\ jobs' = [jobs EXCEPT ![j] = Inserted(jobs[j])]
        /\ UNCHANGED <<executing, performed, available, now, crashes>>
    BY <1>1 DEF Enqueue
  <2> QED
    BY <2>1, <2>2, <2>3, IdleRowStep
<1>2. ASSUME NEW p \in Process, NEW j \in Job, ClaimExpired(p, j) PROVE IInv'
  <2> DEFINE row == Requeued(Inserted(jobs[j]))
             failed == [row EXCEPT !.state = "failed", !.updatedAt = now]
  <2>1. /\ jobs[j] \in JobRow /\ now \in 0..MaxTime
        /\ Claimable(Inserted(jobs[j]))
    BY <1>2 DEF IInv, TypeOK, ClaimExpired, MayClaim
  <2>2. jobs[j].state # "running" /\ row \in JobRow
    BY <2>1, ClaimableRow, PreparedRow DEF IInv
  <2>3. /\ jobs' = [jobs EXCEPT ![j] = failed]
        /\ UNCHANGED <<executing, performed, available, now, crashes>>
    BY <1>2 DEF ClaimExpired
  <2> HIDE DEF row
  <2>4. failed \in JobRow /\ failed.state = "failed"
    BY <2>1, <2>2 DEF JobRow, JobState
  <2> HIDE DEF failed
  <2> QED
    BY <2>2, <2>3, <2>4, IdleRowStep
<1>3. ASSUME NEW p \in Process, NEW j \in Job, Claim(p, j) PROVE IInv'
  BY <1>3, ClaimStep
<1>4. ASSUME NEW p \in Process, NEW j \in Job, ExecutorPerforms(p, j) PROVE IInv'
  <2>1. executing[p][j] \in 1..MaxAttempts
    BY <1>4, PolicyAssumption DEF IInv, TypeOK, ExecutorPerforms
  <2> QED
    BY <1>4, <2>1 DEF IInv, TypeOK, RunningRowsAreOwned, SingleExecutor,
                      CompletionRestsOnEffect, ExecutorPerforms
<1>5. ASSUME NEW p \in Process, NEW j \in Job, ExecutionFails(p, j) PROVE IInv'
  <2>1. /\ executing[p][j] # 0
        /\ jobs' = [jobs EXCEPT ![j] = failOrFence(jobs[j], executing[p][j])]
        /\ executing' = [executing EXCEPT ![p][j] = 0]
        /\ UNCHANGED <<performed, available, now, crashes>>
    BY <1>5 DEF ExecutionFails
  <2> QED
    BY <2>1, FailedRow, EndStep
<1>6. ASSUME NEW p \in Process, NEW j \in Job, ExecutionCompletes(p, j) PROVE IInv'
  <2> DEFINE new == [jobs[j] EXCEPT !.state = "completed", !.leaseExpiresAt = 0,
                                    !.token = 0, !.active = FALSE, !.updatedAt = now]
  <2>1. /\ executing[p][j] # 0
        /\ <<j, executing[p][j]>> \in performed
        /\ executing' = [executing EXCEPT ![p][j] = 0]
        /\ UNCHANGED <<performed, available, now, crashes>>
    BY <1>6 DEF ExecutionCompletes, ValidOutput
  <2>2. /\ jobs[j] \in JobRow /\ jobs[j].state = "running" /\ jobs[j].active
        /\ jobs[j].token = executing[p][j]
        /\ now \in 0..MaxTime
    BY <2>1 DEF IInv, TypeOK, SingleExecutor, RunningRowsAreOwned
  <2>3. jobs' = [jobs EXCEPT ![j] = new]
    BY <1>6, <2>2 DEF ExecutionCompletes
  <2>4. new \in JobRow /\ new.state = "completed" /\ new.attempts = jobs[j].attempts
    BY <2>2, Bounds DEF JobRow, JobState
  <2> HIDE DEF new
  <2> QED
    BY <2>1, <2>3, <2>4, EndStep
<1>7. CASE expireLeases
  <2>1. /\ UNCHANGED <<executing, performed, available, now, crashes>>
        /\ \A j \in Job : jobs'[j] \in JobRow
        /\ \A j \in Job : /\ jobs'[j].state = jobs[j].state
                          /\ jobs'[j].attempts = jobs[j].attempts
                          /\ jobs'[j].token = jobs[j].token
                          /\ jobs'[j].active = jobs[j].active
    BY <1>7 DEF IInv, TypeOK, expireLeases, JobRow
  <2>2. TypeOK'
    BY <1>7, <2>1 DEF IInv, TypeOK, expireLeases
  <2>3. RunningRowsAreOwned' /\ SingleExecutor' /\ CompletionRestsOnEffect'
    BY <2>1 DEF IInv, RunningRowsAreOwned, SingleExecutor, CompletionRestsOnEffect
  <2> QED
    BY <2>2, <2>3 DEF IInv
<1>8. ASSUME NEW p \in Process, Crash(p) PROVE IInv'
  <2>1. TypeOK'
    BY <1>8, PolicyAssumption, BoundAssumption DEF IInv, TypeOK, Crash
  <2>2. \A q \in Process, j \in Job : executing'[q][j] # 0 => executing'[q][j] = executing[q][j]
    BY <1>8 DEF IInv, TypeOK, Crash
  <2>3. RunningRowsAreOwned' /\ CompletionRestsOnEffect'
    BY <1>8 DEF IInv, RunningRowsAreOwned, CompletionRestsOnEffect, Crash
  <2>4. SingleExecutor'
    BY <1>8, <2>2 DEF IInv, SingleExecutor, Crash
  <2> QED
    BY <2>1, <2>3, <2>4 DEF IInv
<1>9. ASSUME NEW p \in Process, NEW value \in BOOLEAN, setAvailability(p, value) PROVE IInv'
  BY <1>9 DEF IInv, TypeOK, RunningRowsAreOwned, SingleExecutor, CompletionRestsOnEffect,
              setAvailability
<1>10. CASE Tick
  BY <1>10, BoundAssumption DEF IInv, TypeOK, RunningRowsAreOwned, SingleExecutor,
                               CompletionRestsOnEffect, Tick
<1>11. CASE UNCHANGED vars
  BY <1>11 DEF IInv, TypeOK, RunningRowsAreOwned, SingleExecutor, CompletionRestsOnEffect, vars
<1> QED
  BY <1>1, <1>2, <1>3, <1>4, <1>5, <1>6, <1>7, <1>8, <1>9, <1>10, <1>11
  DEF Next, Claims, Executions

-----------------------------------------------------------------------------

\* The inductive invariant holds for every number of processes and crashes.
THEOREM Invariant == Spec => []IInv
  BY InitIInv, StepIInv, PTL DEF Spec

\* Type correctness: no claim ever takes the attempts past the retry policy.
THEOREM TypeCorrect == Spec => []TypeOK
<1>1. IInv => TypeOK
  BY DEF IInv
<1> QED
  BY <1>1, Invariant, PTL

\* An expired lease never lets a second executor in, and the first one keeps
\* the right to commit its result.
THEOREM SingleExecutorHolds == Spec => []SingleExecutor
<1>1. IInv => SingleExecutor
  BY DEF IInv
<1> QED
  BY <1>1, Invariant, PTL

\* A completed job rests on an effect of its last attempt.
THEOREM CompletionRestsOnEffectHolds == Spec => []CompletionRestsOnEffect
<1>1. IInv => CompletionRestsOnEffect
  BY DEF IInv
<1> QED
  BY <1>1, Invariant, PTL

-----------------------------------------------------------------------------
\* The refinement of ControlledWorker.

\* A step that changes the row of one job changes the mapped state of that job
\* alone.
LEMMA MappedRow ==
    ASSUME TypeOK, NEW j \in Job, NEW row, jobs' = [jobs EXCEPT ![j] = row]
    PROVE  /\ statusBar' = [statusBar EXCEPT ![j] = StatusOf(row)]
           /\ triesBar' = [triesBar EXCEPT ![j] = row.attempts]
           /\ statusBar[j] = StatusOf(jobs[j])
           /\ triesBar[j] = jobs[j].attempts
  BY DEF TypeOK, statusBar, triesBar

\* A row that keeps its status and its attempts is no step of the contract.
LEMMA Stutter ==
    ASSUME TypeOK, NEW j \in Job, NEW row, jobs' = [jobs EXCEPT ![j] = row],
           StatusOf(row) = StatusOf(jobs[j]), row.attempts = jobs[j].attempts
    PROVE  UNCHANGED <<statusBar, triesBar>>
<1>1. \A k \in Job : StatusOf(jobs'[k]) = StatusOf(jobs[k]) /\ jobs'[k].attempts = jobs[k].attempts
  BY DEF TypeOK
<1> QED
  BY <1>1 DEF statusBar, triesBar

\* Every step of the worker is a step of the contract or leaves it unchanged.
LEMMA StepRefines ==
    ASSUME IInv, [Next]_vars
    PROVE  [Contract!Next]_<<statusBar, triesBar, performed>>
<1> USE DEF Contract!Next, Contract!Start, Contract!Perform, Contract!Settle, Contract!GiveUp
<1>0. TypeOK
  BY DEF IInv
<1>1. ASSUME NEW p \in Process, NEW j \in Job, Enqueue(p, j)
      PROVE  UNCHANGED <<statusBar, triesBar, performed>>
  <2>1. jobs[j] \in JobRow /\ jobs[j].state = "absent"
    BY <1>0, <1>1 DEF TypeOK, Enqueue
  <2>2. /\ StatusOf(Inserted(jobs[j])) = StatusOf(jobs[j])
        /\ Inserted(jobs[j]).attempts = jobs[j].attempts
    BY <2>1 DEF Inserted, StatusOf, JobRow
  <2>3. jobs' = [jobs EXCEPT ![j] = Inserted(jobs[j])] /\ UNCHANGED performed
    BY <1>1 DEF Enqueue
  <2> QED
    BY <1>0, <2>2, <2>3, Stutter
<1>2. ASSUME NEW p \in Process, NEW j \in Job, ClaimExpired(p, j)
      PROVE  UNCHANGED <<statusBar, triesBar, performed>>
  <2> DEFINE row == Requeued(Inserted(jobs[j]))
             failed == [row EXCEPT !.state = "failed", !.updatedAt = now]
  <2>1. /\ jobs[j] \in JobRow /\ now \in 0..MaxTime
        /\ Claimable(Inserted(jobs[j]))
    BY <1>0, <1>2 DEF TypeOK, ClaimExpired, MayClaim
  <2>2. /\ jobs[j].state \in {"absent", "queued", "failed"}
        /\ row \in JobRow /\ row.attempts = jobs[j].attempts
    BY <2>1, ClaimableRow, PreparedRow DEF IInv
  <2>3. jobs' = [jobs EXCEPT ![j] = failed] /\ UNCHANGED performed
    BY <1>2 DEF ClaimExpired
  <2> HIDE DEF row
  <2>4. failed.state = "failed" /\ failed.attempts = jobs[j].attempts
    BY <2>2 DEF JobRow
  <2> HIDE DEF failed
  <2>5. StatusOf(failed) = StatusOf(jobs[j])
    BY <2>2, <2>4 DEF StatusOf
  <2> QED
    BY <1>0, <2>3, <2>4, <2>5, Stutter
<1>3. ASSUME NEW p \in Process, NEW j \in Job, Claim(p, j) PROVE Contract!Start(j)
  <2> DEFINE row == Requeued(Inserted(jobs[j]))
             new == [row EXCEPT !.state = "running", !.attempts = row.attempts + 1,
                                !.leaseExpiresAt = now + LeaseMs,
                                !.token = row.attempts + 1, !.active = TRUE,
                                !.updatedAt = now]
  <2>1. /\ jobs[j] \in JobRow /\ now \in 0..MaxTime
        /\ Claimable(Inserted(jobs[j]))
    BY <1>0, <1>3 DEF TypeOK, Claim, MayClaim
  <2>2. /\ jobs[j].state \in {"absent", "queued", "failed"}
        /\ row \in JobRow /\ row.attempts = jobs[j].attempts
        /\ jobs[j].attempts < MaxAttempts
    BY <2>1, ClaimableRow, PreparedRow DEF IInv
  <2>3. jobs' = [jobs EXCEPT ![j] = new] /\ UNCHANGED performed
    BY <1>3 DEF Claim
  <2> HIDE DEF row
  <2>4. new.state = "running" /\ new.attempts = jobs[j].attempts + 1
    BY <2>2 DEF JobRow
  <2> HIDE DEF new
  <2>5. StatusOf(new) = "executing" /\ StatusOf(jobs[j]) = "idle"
    BY <2>2, <2>4 DEF StatusOf
  <2>6. /\ statusBar' = [statusBar EXCEPT ![j] = StatusOf(new)]
        /\ triesBar' = [triesBar EXCEPT ![j] = new.attempts]
        /\ statusBar[j] = StatusOf(jobs[j])
        /\ triesBar[j] = jobs[j].attempts
    BY <1>0, <2>3, MappedRow
  <2> QED
    BY <2>2, <2>3, <2>4, <2>5, <2>6
<1>4. ASSUME NEW p \in Process, NEW j \in Job, executing[p][j] # 0
      PROVE  /\ jobs[j] \in JobRow /\ jobs[j].state = "running"
             /\ executing[p][j] = jobs[j].attempts /\ jobs[j].token = executing[p][j]
             /\ jobs[j].active
             /\ statusBar[j] = "executing" /\ triesBar[j] = jobs[j].attempts
  BY <1>0, <1>4 DEF IInv, TypeOK, SingleExecutor, RunningRowsAreOwned, statusBar, triesBar, StatusOf
<1>5. ASSUME NEW p \in Process, NEW j \in Job, ExecutorPerforms(p, j) PROVE Contract!Perform(j)
  BY <1>4, <1>5 DEF ExecutorPerforms, statusBar, triesBar
<1>6. ASSUME NEW p \in Process, NEW j \in Job, ExecutionFails(p, j) PROVE Contract!GiveUp(j)
  <2> DEFINE failed == failOrFence(jobs[j], executing[p][j])
  <2>1. /\ executing[p][j] # 0
        /\ jobs' = [jobs EXCEPT ![j] = failed] /\ UNCHANGED performed
    BY <1>6 DEF ExecutionFails
  <2>2. failed.state = "failed" /\ failed.attempts = jobs[j].attempts
    BY <2>1, FailedRow
  <2> HIDE DEF failed
  <2>3. StatusOf(failed) = "idle"
    BY <2>2 DEF StatusOf
  <2>4. /\ statusBar' = [statusBar EXCEPT ![j] = StatusOf(failed)]
        /\ triesBar' = [triesBar EXCEPT ![j] = failed.attempts]
        /\ triesBar[j] = jobs[j].attempts
    BY <1>0, <2>1, MappedRow
  <2>5. triesBar' = triesBar
    BY <2>2, <2>4 DEF triesBar
  <2> QED
    BY <1>4, <2>1, <2>3, <2>4, <2>5
<1>7. ASSUME NEW p \in Process, NEW j \in Job, ExecutionCompletes(p, j) PROVE Contract!Settle(j)
  <2> DEFINE new == [jobs[j] EXCEPT !.state = "completed", !.leaseExpiresAt = 0,
                                    !.token = 0, !.active = FALSE, !.updatedAt = now]
  <2>1. /\ executing[p][j] # 0
        /\ <<j, executing[p][j]>> \in performed
        /\ UNCHANGED performed
    BY <1>7 DEF ExecutionCompletes, ValidOutput
  <2>2. jobs' = [jobs EXCEPT ![j] = new]
    BY <1>4, <1>7, <2>1 DEF ExecutionCompletes
  <2>3. new.state = "completed" /\ new.attempts = jobs[j].attempts
    BY <1>4, <2>1 DEF JobRow
  <2> HIDE DEF new
  <2>4. StatusOf(new) = "settled"
    BY <2>3 DEF StatusOf
  <2>5. /\ statusBar' = [statusBar EXCEPT ![j] = StatusOf(new)]
        /\ triesBar' = [triesBar EXCEPT ![j] = new.attempts]
        /\ triesBar[j] = jobs[j].attempts
    BY <1>0, <2>2, MappedRow
  <2>6. triesBar' = triesBar
    BY <2>3, <2>5 DEF triesBar
  <2> QED
    BY <1>4, <2>1, <2>4, <2>5, <2>6
<1>8. CASE expireLeases
  <2>1. /\ UNCHANGED performed
        /\ \A j \in Job : /\ jobs'[j].state = jobs[j].state
                          /\ jobs'[j].attempts = jobs[j].attempts
    BY <1>0, <1>8 DEF TypeOK, expireLeases, JobRow
  <2> QED
    BY <2>1 DEF statusBar, triesBar, StatusOf
<1>9. ASSUME UNCHANGED <<jobs, performed>> PROVE UNCHANGED <<statusBar, triesBar, performed>>
  BY <1>9 DEF statusBar, triesBar
<1>10. ASSUME \/ \E p \in Process : Crash(p) \/ \E value \in BOOLEAN : setAvailability(p, value)
              \/ Tick \/ UNCHANGED vars
       PROVE UNCHANGED <<jobs, performed>>
  BY <1>10 DEF Crash, setAvailability, Tick, vars
<1> HIDE DEF Contract!Start, Contract!Perform, Contract!Settle, Contract!GiveUp
<1> QED
  BY <1>1, <1>2, <1>3, <1>5, <1>6, <1>7, <1>8, <1>9, <1>10 DEF Next, Claims, Executions

\* The private worker keeps the contract of ControlledWorker.
THEOREM Refinement == Spec => ImplementsControlledWorker
<1>1. Init => Contract!Init
  BY DEF Init, Contract!Init, statusBar, triesBar, StatusOf, Absent
<1>2. IInv /\ [Next]_vars => [Contract!Next]_(Contract!vars)
  BY StepRefines DEF Contract!vars
<1> QED
  BY <1>1, <1>2, Invariant, PTL DEF Spec, Contract!Spec, ImplementsControlledWorker

\* Once completed, a job's row never changes and its action is never carried
\* out again.
THEOREM CompletedIsFinalHolds == Spec => CompletedIsFinal
<1>1. ASSUME IInv, [Next]_vars
      PROVE [\A j \in Job : jobs[j].state = "completed" =>
                /\ jobs'[j] = jobs[j]
                /\ \A n \in 1..MaxAttempts : <<j, n>> \in performed' => <<j, n>> \in performed]_vars
  <2> SUFFICES ASSUME Next, NEW j \in Job, jobs[j].state = "completed"
               PROVE  /\ jobs'[j] = jobs[j]
                      /\ \A n \in 1..MaxAttempts : <<j, n>> \in performed' => <<j, n>> \in performed
    BY <1>1
  <2>1. \A p \in Process : executing[p][j] = 0
    BY <1>1 DEF IInv, SingleExecutor
  <2>2. TypeOK
    BY <1>1 DEF IInv
  <2>3. ASSUME NEW p \in Process, NEW k \in Job,
               Enqueue(p, k) \/ ClaimExpired(p, k) \/ Claim(p, k)
        PROVE  k # j /\ UNCHANGED performed
    <3>1. CASE Enqueue(p, k)
      BY <3>1 DEF Enqueue
    <3>2. CASE ClaimExpired(p, k) \/ Claim(p, k)
      <4>1. Claimable(Inserted(jobs[k])) /\ UNCHANGED performed
        BY <3>2 DEF ClaimExpired, Claim, MayClaim
      <4> QED
        BY <1>1, <2>2, <4>1, ClaimableRow DEF IInv
    <3> QED
      BY <2>3, <3>1, <3>2
  <2>4. ASSUME NEW p \in Process, NEW k \in Job,
               Enqueue(p, k) \/ ClaimExpired(p, k) \/ Claim(p, k)
        PROVE  jobs'[j] = jobs[j]
    BY <2>2, <2>3, <2>4 DEF TypeOK, Enqueue, ClaimExpired, Claim
  <2>5. ASSUME NEW p \in Process, NEW k \in Job,
               ExecutorPerforms(p, k) \/ ExecutionFails(p, k) \/ ExecutionCompletes(p, k)
        PROVE  /\ jobs'[j] = jobs[j]
               /\ \A n \in 1..MaxAttempts : <<j, n>> \in performed' => <<j, n>> \in performed
    <3>1. k # j
      BY <2>1, <2>5 DEF ExecutorPerforms, ExecutionFails, ExecutionCompletes
    <3> QED
      BY <2>2, <2>5, <3>1 DEF TypeOK, ExecutorPerforms, ExecutionFails, ExecutionCompletes
  <2>6. CASE expireLeases
    BY <2>6 DEF expireLeases
  <2>7. CASE \/ \E p \in Process : Crash(p) \/ \E value \in BOOLEAN : setAvailability(p, value)
             \/ Tick
    BY <2>7 DEF Crash, setAvailability, Tick
  <2> QED
    BY <2>3, <2>4, <2>5, <2>6, <2>7 DEF Next, Claims, Executions
<1> QED
  BY <1>1, Invariant, PTL DEF Spec, CompletedIsFinal
=============================================================================
