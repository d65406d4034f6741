------------------------- MODULE DailyOperationsProofs -------------------------
(***************************************************************************)
(* Theorems about the components of DailyOperations, for every value of      *)
(* their constants: the rows, ticks and runners of the schedule              *)
(* (ScheduledRuns), the upserts to Master Tasks (MasterTasks), the search    *)
(* for a lifecycle path (LifecyclePathSearch), and the walk and the human    *)
(* gates of the tickets (TicketGraph).                                       *)
(***************************************************************************)
EXTENDS DailyOperations, Sequences, FiniteSetTheorems, WellFoundedInduction, TLAPS

(***************************************************************************)
(* The schedule                                                            *)
(***************************************************************************)

Stage == {"idle", "claiming", "reclaiming", "running", "recovering"} \cup Runs!Noticing
TickState == [pc : Stage, day : 0 .. MaxDays, prior : Nat]
NativeCall == [pc : {"idle", "composing"}, day : 0 .. MaxDays, prior : Nat]
Claimed == [outcome : {"none", "running", "failed", "succeeded"}, stale : BOOLEAN]

\* The rows, and what a tick and a call hold.
RunsTypeOK ==
    /\ job \in [owner : {"real-ming", "native-hermes-cron"}, critical : BOOLEAN]
    /\ today \in [day : Runs!Day, due : BOOLEAN]
    /\ row \in [Runs!Day -> Claimed]
    /\ failures \in [Runs!Day -> Nat]
    /\ tick \in TickState
    /\ tick.pc # "idle" => tick.day \in Runs!Day
    /\ fenced \in BOOLEAN /\ incident \in BOOLEAN
    /\ call \in [Call -> NativeCall]
    /\ \A c \in Call : call[c].pc = "composing" => call[c].day \in Runs!Day
    /\ runFaults \in Nat

\* The fence stands for the one runner there is; a tick awaits its runner behind
\* the fence, and what leads to a claim starts in front of it.
FenceCountsRunners ==
    /\ runners = IF fenced THEN 1 ELSE 0
    /\ tick.pc = "running" => fenced
    /\ tick.pc \in {"noticing-missed", "claiming", "noticing-stale", "reclaiming"} => ~fenced

RunsInv == RunsTypeOK /\ FenceCountsRunners

-----------------------------------------------------------------------------
\* The schedule counts as everyone does.
LEMMA RunsCardinality == \A S : Runs!Cardinality(S) = Cardinality(S)
  BY DEF Runs!Cardinality, Cardinality, Runs!IsFiniteSet, IsFiniteSet

\* The streak of failed occurrences is a number.
LEMMA StreakType ==
    ASSUME Runs!ScheduledRunsAssumption, NEW rows
    PROVE  Runs!Streak(rows) \in Nat
<1> DEFINE seen == {d \in Runs!Day : rows[d].outcome # "none"}
<1> DEFINE streak == {d \in seen : \A e \in seen : e >= d => rows[e].outcome = "failed"}
<1>1. IsFiniteSet(Runs!Day)
  BY FS_Interval DEF Runs!Day, Runs!ScheduledRunsAssumption
<1>2. streak \in SUBSET Runs!Day
  OBVIOUS
<1>3. Cardinality(streak) \in Nat
  <2> HIDE DEF streak
  <2> QED  BY <1>1, <1>2, FS_Subset, FS_CardinalityType
<1> QED
  BY <1>3, RunsCardinality DEF Runs!Streak

\* A row that ends or starts keeps its type.
LEMMA RowTypes ==
    /\ Runs!Running \in Claimed
    /\ \A outcome \in {"failed", "succeeded"} : Runs!Ended(outcome) \in Claimed
  BY DEF Runs!Running, Runs!Ended, Claimed

\* So does what an idle tick or call holds.
LEMMA IdleTypes ==
    ASSUME Runs!ScheduledRunsAssumption
    PROVE  Runs!Idle \in TickState /\ Runs!Idle \in NativeCall /\ Runs!Idle.pc = "idle"
  BY DEF Runs!Idle, TickState, NativeCall, Stage, Runs!ScheduledRunsAssumption

\* A tick that goes to its next stage keeps what it holds.
LEMMA StageTypes ==
    ASSUME RunsTypeOK, NEW pc \in Stage, tick' = [tick EXCEPT !.pc = pc]
    PROVE  tick' \in TickState /\ tick'.pc = pc /\ tick'.day = tick.day
<1>1. tick \in TickState
  BY DEF RunsTypeOK
<1> QED
  BY <1>1 DEF TickState

\* completeSchedulerRun keeps the types of both tables.
LEMMA FailRowType ==
    ASSUME RunsTypeOK, NEW d \in Runs!Day, Runs!FailRow(d)
    PROVE  row' \in [Runs!Day -> Claimed] /\ failures' \in [Runs!Day -> Nat]
  BY RowTypes DEF RunsTypeOK, Runs!FailRow

LEMMA RunsInitInvariant ==
    ASSUME Runs!ScheduledRunsAssumption
    PROVE  Runs!RunsInit => RunsInv
<1> SUFFICES ASSUME Runs!RunsInit PROVE RunsInv
  OBVIOUS
<1> USE DEF Runs!ScheduledRunsAssumption, Runs!RunsInit, Runs!Idle, Claimed, Stage, TickState, NativeCall
<1>1. today \in [day : Runs!Day, due : BOOLEAN]
  BY DEF Runs!Day
<1>2. job \in [owner : {"real-ming", "native-hermes-cron"}, critical : BOOLEAN] 
  OBVIOUS
<1>3. row \in [Runs!Day -> Claimed]
  OBVIOUS
<1>4. failures \in [Runs!Day -> Nat]
  OBVIOUS
<1>5. tick \in TickState
  OBVIOUS
<1>6. call \in [Call -> NativeCall]
  OBVIOUS
<1>7. FenceCountsRunners
  BY DEF FenceCountsRunners
<1>8. fenced \in BOOLEAN /\ incident \in BOOLEAN
  OBVIOUS
<1> QED
  BY <1>1, <1>2, <1>3, <1>4, <1>5, <1>6, <1>7, <1>8 DEF RunsInv, RunsTypeOK

\* Time moves the day and the age of a row.
LEMMA ClockTypes ==
    ASSUME Runs!ScheduledRunsAssumption, RunsTypeOK, Runs!ClockMoves
    PROVE  today' \in [day : Runs!Day, due : BOOLEAN] /\ row' \in [Runs!Day -> Claimed]
<1>1. today' \in [day : Runs!Day, due : BOOLEAN]
  <2>1. CASE today' = [today EXCEPT !.due = TRUE]
    BY <2>1 DEF RunsTypeOK
  <2>2. CASE today.day < MaxDays /\ today' = [day |-> today.day + 1, due |-> FALSE]
    BY <2>2 DEF RunsTypeOK, Runs!Day, Runs!ScheduledRunsAssumption
  <2>3. CASE UNCHANGED today
    BY <2>3 DEF RunsTypeOK
  <2> QED
    BY <2>1, <2>2, <2>3 DEF Runs!ClockMoves
<1>2. row' \in [Runs!Day -> Claimed]
  <2>1. ASSUME NEW d \in Runs!Day, row' = [row EXCEPT ![d].stale = TRUE]
        PROVE  row' \in [Runs!Day -> Claimed]
    BY <2>1 DEF RunsTypeOK, Claimed
  <2>2. CASE UNCHANGED row
    BY <2>2 DEF RunsTypeOK
  <2> QED
    BY <2>1, <2>2 DEF Runs!ClockMoves
<1> QED
  BY <1>1, <1>2

\* Every step keeps the types.
LEMMA RunsStepTypes ==
    ASSUME Runs!ScheduledRunsAssumption, RunsTypeOK, [Runs!RunsNext]_runVars
    PROVE  RunsTypeOK'
<1>1. CASE Runs!ClockMoves
  BY <1>1, ClockTypes DEF Runs!ClockMoves, RunsTypeOK
<1>2. CASE Runs!ReportMissed
  <2>1. today.day - 1 \in Runs!Day
    BY <1>2 DEF Runs!ScheduledRunsAssumption, Runs!ReportMissed, Runs!Missed, Runs!Day, RunsTypeOK
  <2>2. row' \in [Runs!Day -> Claimed] /\ failures' \in [Runs!Day -> Nat]
    BY <1>2, <2>1, FailRowType DEF Runs!ReportMissed
  <2>3. tick' = [pc |-> "noticing-missed", day |-> today.day, prior |-> 0]
    BY <1>2 DEF Runs!ReportMissed, Runs!At
  <2>4. today.day \in Runs!Day /\ today.day \in 0 .. MaxDays
    BY DEF RunsTypeOK, Runs!Day
  <2>5. /\ tick' \in TickState
        /\ tick'.pc # "idle" => tick'.day \in Runs!Day
    BY <2>3, <2>4 DEF Stage, Runs!Noticing, TickState
  <2> QED
    BY <1>2, <2>2, <2>5 DEF Runs!ReportMissed, RunsTypeOK
<1>3. CASE Runs!TickClaims
  <2> DEFINE d == IF tick.pc = "idle" THEN today.day ELSE tick.day
  <2>1. d \in Runs!Day /\ d \in 0 .. MaxDays
    BY <1>3 DEF Runs!TickClaims, Runs!Tickable, Runs!Day, RunsTypeOK
  <2>2. CASE Runs!ClaimOf(d) = "claimed"
    <3>1. /\ row' = [row EXCEPT ![d] = Runs!Running]
          /\ tick' = [pc |-> "running", day |-> d, prior |-> Runs!Streak(row)]
          /\ Runs!StartRunner /\ UNCHANGED failures
      BY <1>3, <2>2 DEF Runs!TickClaims
    <3>2. row' \in [Runs!Day -> Claimed]
      BY <3>1, <2>1, RowTypes DEF RunsTypeOK
    <3>3. /\ tick' \in TickState
          /\ tick'.day \in Runs!Day
      BY <3>1, <2>1, StreakType DEF Stage, TickState
    <3> QED
      BY <1>3, <3>1, <3>2, <3>3 DEF Runs!TickClaims, Runs!StartRunner, RunsTypeOK
  <2>3. CASE Runs!ClaimOf(d) = "stale-reclaimed"
    <3>1. /\ Runs!FailRow(d) /\ UNCHANGED <<fenced, runners>>
          /\ tick' = [pc |-> "noticing-stale", day |-> d, prior |-> 0]
      BY <1>3, <2>3 DEF Runs!TickClaims
    <3>2. row' \in [Runs!Day -> Claimed] /\ failures' \in [Runs!Day -> Nat]
      BY <2>1, <3>1, FailRowType
    <3>3. /\ tick' \in TickState
          /\ tick'.day \in Runs!Day
      BY <3>1, <2>1 DEF Stage, Runs!Noticing, TickState
    <3> QED
      BY <1>3, <3>1, <3>2, <3>3 DEF Runs!TickClaims, RunsTypeOK
  <2>4. CASE Runs!ClaimOf(d) \notin {"claimed", "stale-reclaimed"}
    <3>1. tick' = Runs!Idle /\ UNCHANGED <<row, failures, fenced, runners>>
      BY <1>3, <2>4 DEF Runs!TickClaims
    <3>2. tick' \in TickState /\ tick'.pc = "idle"
      BY <3>1 DEF Runs!Idle, Stage, TickState, Runs!ScheduledRunsAssumption
    <3> QED
      BY <1>3, <3>1, <3>2 DEF Runs!TickClaims, RunsTypeOK
  <2> QED
    BY <2>2, <2>3, <2>4
<1>4. CASE Runs!TickReclaims
  <2>1. tick.day \in Runs!Day
    BY <1>4 DEF Runs!TickReclaims, RunsTypeOK
  <2>2. CASE Runs!ClaimOf(tick.day) = "claimed"
    <3>1. /\ row' = [row EXCEPT ![tick.day] = Runs!Running]
          /\ tick' = [tick EXCEPT !.pc = "running", !.prior = Runs!Streak(row')]
          /\ Runs!StartRunner
      BY <1>4, <2>2 DEF Runs!TickReclaims
    <3>2. row' \in [Runs!Day -> Claimed]
      BY <3>1, <2>1, RowTypes DEF RunsTypeOK
    <3>3. /\ tick' \in TickState
          /\ tick'.day \in Runs!Day
      BY <3>1, <2>1, StreakType DEF Stage, TickState, RunsTypeOK
    <3> QED
      BY <1>4, <3>1, <3>2, <3>3 DEF Runs!TickReclaims, Runs!StartRunner, RunsTypeOK
  <2>3. CASE Runs!ClaimOf(tick.day) # "claimed"
    <3>1. tick' = Runs!Idle /\ UNCHANGED <<row, fenced, runners>>
      BY <1>4, <2>3 DEF Runs!TickReclaims
    <3>2. tick' \in TickState /\ tick'.pc = "idle"
      BY <3>1 DEF Runs!Idle, Stage, TickState, Runs!ScheduledRunsAssumption
    <3> QED
      BY <1>4, <3>1, <3>2 DEF Runs!TickReclaims, RunsTypeOK
  <2> QED
    BY <2>2, <2>3
<1>5. CASE Runs!AdmitFailure
  <2>1. Runs!NextStage(tick.pc) \in Stage /\ tick.day \in Runs!Day
    BY <1>5 DEF Runs!AdmitFailure, Runs!NextStage, Runs!Noticing, Stage, RunsTypeOK
  <2>2. tick' = [tick EXCEPT !.pc = Runs!NextStage(tick.pc)]
    BY <1>5 DEF Runs!AdmitFailure
  <2>3. tick' \in TickState /\ tick'.day = tick.day
    BY <2>1, <2>2, StageTypes
  <2>4. incident' \in BOOLEAN
    BY <1>5 DEF Runs!AdmitFailure
  <2> QED
    BY <1>5, <2>1, <2>3, <2>4 DEF Runs!AdmitFailure, RunsTypeOK
<1>6. CASE Runs!AdmitThrows
  <2>1. runFaults' \in Nat
    BY <1>6 DEF Runs!AdmitThrows, Runs!Fault, RunsTypeOK
  <2> QED
    BY <1>6, <2>1, IdleTypes DEF Runs!AdmitThrows, RunsTypeOK
<1>7. CASE Runs!RunnerFails \/ Runs!RunnerTimesOut
  <2>1. tick.day \in Runs!Day
    BY <1>7 DEF Runs!RunnerFails, Runs!RunnerTimesOut, RunsTypeOK
  <2>2. row' \in [Runs!Day -> Claimed] /\ failures' \in [Runs!Day -> Nat]
    BY <1>7, <2>1, FailRowType DEF Runs!RunnerFails, Runs!RunnerTimesOut
  <2>3. tick' \in TickState /\ tick'.day = tick.day
    BY <1>7, StageTypes DEF Runs!RunnerFails, Runs!RunnerTimesOut, Stage, Runs!Noticing
  <2>4. fenced' \in BOOLEAN /\ runFaults' \in Nat
    <3>1. runFaults' = runFaults + 1 /\ (fenced' = FALSE \/ UNCHANGED fenced)
      BY <1>7 DEF Runs!RunnerFails, Runs!RunnerTimesOut, Runs!Settle, Runs!Fault
    <3>2. runFaults \in Nat /\ fenced \in BOOLEAN
      BY DEF RunsTypeOK
    <3>3. runFaults' \in Nat
      BY <3>1, <3>2, SMT
    <3>4. fenced' \in BOOLEAN
      BY <3>1, <3>2, Zenon
    <3> QED
      BY <3>3, <3>4
  <2>5. UNCHANGED <<job, today, incident, call>>
    BY <1>7 DEF Runs!RunnerFails, Runs!RunnerTimesOut
  <2> QED
    BY <2>1, <2>2, <2>3, <2>4, <2>5 DEF RunsTypeOK
<1>8. CASE Runs!RunnerSucceeds
  <2>1. tick.day \in Runs!Day
    BY <1>8 DEF Runs!RunnerSucceeds, RunsTypeOK
  <2>2. row' \in [Runs!Day -> Claimed]
    BY <1>8, <2>1, RowTypes DEF Runs!RunnerSucceeds, RunsTypeOK
  <2>3. tick' \in TickState /\ tick'.day = tick.day
    BY <1>8 DEF Runs!RunnerSucceeds, Stage, TickState, RunsTypeOK
  <2> QED
    BY <1>8, <2>1, <2>2, <2>3 DEF Runs!RunnerSucceeds, Runs!Settle, RunsTypeOK
<1>9. CASE Runs!RecordRecovery \/ Runs!LateSettle \/ Runs!SchedulerCrashes
  <2>1. tick' = Runs!Idle \/ UNCHANGED tick
    BY <1>9 DEF Runs!RecordRecovery, Runs!LateSettle, Runs!SchedulerCrashes
  <2>2. tick' \in TickState /\ (tick'.pc # "idle" => tick'.day \in Runs!Day)
    BY <2>1, IdleTypes DEF RunsTypeOK
  <2>3. incident' \in BOOLEAN
    BY <1>9 DEF Runs!RecordRecovery, Runs!LateSettle, Runs!SchedulerCrashes, RunsTypeOK
  <2>4. fenced' \in BOOLEAN /\ runFaults' \in Nat
    <3>1. /\ runFaults' = runFaults + 1 \/ UNCHANGED runFaults
          /\ fenced' = FALSE \/ UNCHANGED fenced
      BY <1>9 DEF Runs!RecordRecovery, Runs!LateSettle, Runs!SchedulerCrashes, Runs!Settle, Runs!Fault
    <3>2. runFaults \in Nat /\ fenced \in BOOLEAN
      BY DEF RunsTypeOK
    <3>3. runFaults' \in Nat
      BY <3>1, <3>2, SMT
    <3>4. fenced' \in BOOLEAN
      BY <3>1, <3>2, Zenon
    <3> QED
      BY <3>3, <3>4
  <2>5. UNCHANGED <<job, today, row, failures, call>>
    BY <1>9 DEF Runs!RecordRecovery, Runs!LateSettle, Runs!SchedulerCrashes
  <2> QED
    BY <2>2, <2>3, <2>4, <2>5 DEF RunsTypeOK
<1>10. ASSUME NEW c \in Call, Runs!NativeClaims(c)
      PROVE  RunsTypeOK'
  <2>1. today.day \in Runs!Day /\ today.day \in 0 .. MaxDays
    BY DEF RunsTypeOK, Runs!Day
  <2>2. row' \in [Runs!Day -> Claimed]
    BY <1>10, <2>1, RowTypes DEF Runs!NativeClaims, RunsTypeOK
  <2>3. failures' \in [Runs!Day -> Nat]
    BY <1>10, <2>1 DEF Runs!NativeClaims, RunsTypeOK
  <2>4. /\ call' = [call EXCEPT ![c] = [Runs!Idle EXCEPT !.pc = "composing", !.day = today.day]]
        /\ UNCHANGED <<job, today, tick, fenced, runners, incident, runFaults>>
    BY <1>10 DEF Runs!NativeClaims
  <2>5. /\ [Runs!Idle EXCEPT !.pc = "composing", !.day = today.day] \in NativeCall
        /\ [Runs!Idle EXCEPT !.pc = "composing", !.day = today.day].day \in Runs!Day
    BY <2>1 DEF Runs!Idle, NativeCall
  <2>6. /\ call' \in [Call -> NativeCall]
        /\ \A d \in Call : call'[d].pc = "composing" => call'[d].day \in Runs!Day
    BY <2>4, <2>5 DEF RunsTypeOK
  <2> QED
    BY <2>2, <2>3, <2>4, <2>6 DEF RunsTypeOK
<1>11. ASSUME NEW c \in Call, Runs!NativeComposes(c) \/ Runs!NativeFails(c) \/ Runs!NativeCrashes(c)
       PROVE  RunsTypeOK'
  <2>1. call[c].day \in Runs!Day
    BY <1>11 DEF Runs!NativeComposes, Runs!NativeFails, Runs!NativeCrashes, RunsTypeOK
  <2>2. row' \in [Runs!Day -> Claimed] /\ failures' \in [Runs!Day -> Nat]
    <3>1. CASE Runs!NativeComposes(c)
      BY <2>1, <3>1, RowTypes DEF Runs!NativeComposes, RunsTypeOK
    <3>2. CASE Runs!NativeFails(c)
      BY <2>1, <3>2, FailRowType DEF Runs!NativeFails
    <3>3. CASE Runs!NativeCrashes(c)
      BY <3>3 DEF Runs!NativeCrashes, RunsTypeOK
    <3> QED
      BY <1>11, <3>1, <3>2, <3>3
  <2>3. /\ call' = [call EXCEPT ![c] = Runs!Idle]
        /\ UNCHANGED <<job, today, tick, fenced, runners, incident>>
    BY <1>11 DEF Runs!NativeComposes, Runs!NativeFails, Runs!NativeCrashes
  <2>4. runFaults' \in Nat
    BY <1>11 DEF Runs!NativeComposes, Runs!NativeFails, Runs!NativeCrashes, Runs!Fault, RunsTypeOK
  <2>5. /\ call' \in [Call -> NativeCall]
        /\ \A d \in Call : call'[d].pc = "composing" => call'[d].day \in Runs!Day
    BY <2>3, IdleTypes DEF RunsTypeOK
  <2> QED
    BY <2>2, <2>3, <2>4, <2>5 DEF RunsTypeOK
<1>12. CASE UNCHANGED runVars
  BY <1>12 DEF runVars, RunsTypeOK
<1> QED
  BY <1>1, <1>2, <1>3, <1>4, <1>5, <1>6, <1>7, <1>8, <1>9, <1>10, <1>11, <1>12
     DEF Runs!RunsNext

\* Every step keeps the count: a claim is made in front of the fence.
LEMMA StepFence ==
    ASSUME RunsTypeOK, FenceCountsRunners, [Runs!RunsNext]_runVars
    PROVE  FenceCountsRunners'
<1> USE DEF FenceCountsRunners
<1>1. CASE Runs!ClockMoves
  BY <1>1 DEF Runs!ClockMoves
<1>2. CASE Runs!ReportMissed
  BY <1>2 DEF Runs!ReportMissed, Runs!Tickable, Runs!At
<1>3. CASE Runs!TickClaims
  <2>1. ~fenced
    BY <1>3 DEF Runs!TickClaims, Runs!Tickable
  <2> QED
    BY <1>3, <2>1 DEF Runs!TickClaims, Runs!StartRunner, Runs!Idle
<1>4. CASE Runs!TickReclaims
  <2>1. ~fenced
    BY <1>4 DEF Runs!TickReclaims
  <2>2. CASE Runs!ClaimOf(tick.day) = "claimed"
    <3>1. Runs!StartRunner /\ tick' = [tick EXCEPT !.pc = "running", !.prior = Runs!Streak(row')]
      BY <1>4, <2>2 DEF Runs!TickReclaims
    <3>2. tick'.pc = "running"
      BY <3>1 DEF RunsTypeOK, TickState
    <3> QED
      BY <2>1, <3>1, <3>2 DEF Runs!StartRunner
  <2>3. CASE Runs!ClaimOf(tick.day) # "claimed"
    BY <1>4, <2>1, <2>3 DEF Runs!TickReclaims, Runs!Idle
  <2> QED
    BY <2>2, <2>3
<1>5. CASE Runs!AdmitFailure
  <2>1. UNCHANGED <<fenced, runners>> /\ tick'.pc = Runs!NextStage(tick.pc)
    BY <1>5 DEF Runs!AdmitFailure, RunsTypeOK, TickState
  <2> QED
    BY <1>5, <2>1 DEF Runs!AdmitFailure, Runs!NextStage, Runs!Noticing
<1>6. CASE Runs!AdmitThrows
  BY <1>6 DEF Runs!AdmitThrows, Runs!Idle
<1>7. CASE Runs!RunnerFails \/ Runs!RunnerTimesOut \/ Runs!RunnerSucceeds
  <2>1. tick \in TickState
    BY DEF RunsTypeOK
  <2> QED
    BY <1>7, <2>1 DEF Runs!RunnerFails, Runs!RunnerTimesOut, Runs!RunnerSucceeds, Runs!Settle, TickState
<1>8. CASE Runs!RecordRecovery \/ Runs!LateSettle \/ Runs!SchedulerCrashes
  BY <1>8 DEF Runs!RecordRecovery, Runs!LateSettle, Runs!SchedulerCrashes, Runs!Settle, Runs!Idle
<1>9. ASSUME NEW c \in Call,
             Runs!NativeClaims(c) \/ Runs!NativeComposes(c) \/ Runs!NativeFails(c) \/ Runs!NativeCrashes(c)
      PROVE  FenceCountsRunners'
  BY <1>9 DEF Runs!NativeClaims, Runs!NativeComposes, Runs!NativeFails, Runs!NativeCrashes
<1>10. CASE UNCHANGED runVars
  BY <1>10 DEF runVars
<1> QED
  BY <1>1, <1>2, <1>3, <1>4, <1>5, <1>6, <1>7, <1>8, <1>9, <1>10 DEF Runs!RunsNext

(***************************************************************************)
(* Master Tasks                                                            *)
(***************************************************************************)

Shown == Projection \cup {Tasks!Nothing}
SyncState == [pc : {"idle", "querying", "creating", "patching", "recording"},
              value : Shown, version : Nat, seen : Nat]
PageState == [value : Shown, version : Nat, change : Nat, edited : Nat, wrote : Nat]

\* The page, the tables of the write ledger, and what each upsert holds.
TasksTypeOK ==
    /\ item \in Shown
    /\ pages \in Nat
    /\ page \in PageState
    /\ taskReceipts \in SUBSET Shown /\ known \in Nat /\ minute \in Nat
    /\ sync \in [Sync -> SyncState]
    /\ answer \in {"none", "ok", "failed"}
    /\ changes \in Nat /\ taskFaults \in Nat

\* No version is later than the clock.  As long as the page is the only one, no
\* version recorded, or about to be, is later than the last write.
VersionsAreStamped ==
    /\ page.wrote <= page.version /\ page.version <= minute
    /\ pages <= 1 =>
         known <= page.wrote
         /\ \A s \in Sync : sync[s].pc = "recording" => sync[s].version <= page.wrote

\* What an upsert is about to overwrite was not edited when it was found, unless in
\* the minute of the last write.
OverwritesAreVerified ==
    \A s \in Sync : sync[s].pc = "patching" =>
        /\ sync[s].seen <= page.change
        /\ page.edited = 0 \/ page.edited > sync[s].seen \/ page.version = page.wrote

TasksInv == TasksTypeOK /\ VersionsAreStamped /\ OverwritesAreVerified

-----------------------------------------------------------------------------
LEMMA TasksInitInvariant ==
    ASSUME Tasks!MasterTasksAssumption
    PROVE  Tasks!TasksInit => TasksInv
<1> SUFFICES ASSUME Tasks!TasksInit PROVE TasksInv
  OBVIOUS
<1>1. TasksTypeOK
  BY DEF Tasks!TasksInit, Tasks!PageAt, TasksTypeOK, PageState, SyncState, Shown, Tasks!Nothing, Tasks!IdleSync
<1>2. VersionsAreStamped /\ OverwritesAreVerified
  BY DEF Tasks!TasksInit, Tasks!PageAt, VersionsAreStamped, OverwritesAreVerified, Tasks!IdleSync
<1> QED
  BY <1>1, <1>2 DEF TasksInv

\* What an upsert holds at its start.
LEMMA IdleSyncType == Tasks!IdleSync \in SyncState
  BY DEF Tasks!IdleSync, SyncState, Shown, Tasks!Nothing

\* An upsert starts with a query or an answer.
LEMMA StartTypes ==
    ASSUME TasksTypeOK, NEW s \in Sync, NEW value \in Shown, Tasks!StartUpsert(s, value)
    PROVE  sync' \in [Sync -> SyncState] /\ answer' \in {"none", "ok", "failed"}
<1>1. [Tasks!IdleSync EXCEPT !.pc = "querying", !.value = value] \in SyncState
  BY DEF Tasks!IdleSync, SyncState
<1> QED
  BY <1>1 DEF Tasks!StartUpsert, TasksTypeOK, Tasks!Nothing

\* An upsert ends with an answer.
LEMMA AnswersTypes ==
    ASSUME TasksTypeOK, NEW s \in Sync, NEW outcome \in {"ok", "failed"}, Tasks!Answers(s, outcome)
    PROVE  sync' \in [Sync -> SyncState] /\ answer' \in {"none", "ok", "failed"}
  BY IdleSyncType DEF Tasks!Answers, TasksTypeOK

\* A start or an end of an upsert neither patches nor records.
LEMMA StartsAreEarly ==
    ASSUME TasksTypeOK, NEW s \in Sync, NEW value, Tasks!StartUpsert(s, value)
    PROVE  \A t \in Sync : sync'[t].pc \in {"patching", "recording"} => sync'[t] = sync[t]
<1>1. [Tasks!IdleSync EXCEPT !.pc = "querying", !.value = value].pc = "querying"
  BY DEF Tasks!IdleSync
<1> QED
  BY <1>1 DEF Tasks!StartUpsert, TasksTypeOK

LEMMA EndsAreIdle ==
    ASSUME TasksTypeOK, NEW s \in Sync, NEW outcome, Tasks!Answers(s, outcome)
    PROVE  \A t \in Sync : sync'[t].pc \in {"patching", "recording"} => sync'[t] = sync[t]
<1>1. Tasks!IdleSync.pc = "idle"
  BY DEF Tasks!IdleSync
<1> QED
  BY <1>1 DEF Tasks!Answers, TasksTypeOK

\* A step that leaves the page and what is known of it alone, and moves no upsert
\* into a write, keeps the invariant's last two parts.
LEMMA QuietSteps ==
    ASSUME TasksInv, TasksTypeOK', UNCHANGED <<pages, page, known>>, minute <= minute',
           \A t \in Sync : sync'[t].pc \in {"patching", "recording"} => sync'[t] = sync[t]
    PROVE  VersionsAreStamped' /\ OverwritesAreVerified'
  BY DEF TasksInv, TasksTypeOK, PageState, VersionsAreStamped, OverwritesAreVerified

\* The types of the parts are the type of the whole.
LEMMA TypesOfTheParts ==
    ASSUME item' \in Shown, pages' \in Nat, page' \in PageState, taskReceipts' \in SUBSET Shown,
           known' \in Nat, minute' \in Nat, sync' \in [Sync -> SyncState],
           answer' \in {"none", "ok", "failed"}, changes' \in Nat, taskFaults' \in Nat
    PROVE  TasksTypeOK'
  BY DEF TasksTypeOK

\* Every step keeps the types.
LEMMA TasksStepTypes ==
    ASSUME TasksTypeOK, Tasks!MasterTasksAssumption, [Tasks!TasksNext]_tasksVars
    PROVE  TasksTypeOK'
<1>1. ASSUME NEW s \in Sync, Tasks!ItemChanges(s)
      PROVE  TasksTypeOK'
  <2>1. PICK value \in Projection : item' = value /\ Tasks!StartUpsert(s, value)
    BY <1>1 DEF Tasks!ItemChanges
  <2>2. value \in Shown
    BY DEF Shown
  <2>3. sync' \in [Sync -> SyncState] /\ answer' \in {"none", "ok", "failed"}
    BY <2>1, <2>2, StartTypes
  <2> QED
    BY <1>1, <2>1, <2>2, <2>3 DEF Tasks!ItemChanges, TasksTypeOK
<1>2. ASSUME NEW s \in Sync, Tasks!QueryPage(s)
      PROVE  TasksTypeOK'
  <2>1. sync' \in [Sync -> SyncState] /\ answer' \in {"none", "ok", "failed"}
    <3>1. CASE Tasks!Answers(s, "failed")
      BY <3>1, AnswersTypes
    <3>2. CASE /\ sync' = [sync EXCEPT ![s].pc = IF pages = 0 THEN "creating" ELSE "patching",
                                      ![s].version = page.version, ![s].seen = page.change]
               /\ UNCHANGED answer
      <4>1. sync[s] \in SyncState /\ page.version \in Nat /\ page.change \in Nat
        BY DEF TasksTypeOK, PageState
      <4> QED
        BY <3>2, <4>1 DEF TasksTypeOK, SyncState
    <3> QED
      BY <1>2, <3>1, <3>2 DEF Tasks!QueryPage
  <2> QED
    BY <1>2, <2>1 DEF Tasks!QueryPage, TasksTypeOK
<1>3. ASSUME NEW s \in Sync, Tasks!WritePage(s)
      PROVE  TasksTypeOK'
  <2>1. sync[s].value \in Shown /\ page.change + 1 \in Nat /\ minute \in Nat
    BY DEF TasksTypeOK, SyncState, PageState
  <2>2. page' \in PageState
    BY <1>3, <2>1 DEF Tasks!WritePage, Tasks!PageAt, TasksTypeOK, PageState
  <2>3. pages' \in Nat
    BY <1>3 DEF Tasks!WritePage, TasksTypeOK
  <2>4. sync' \in [Sync -> SyncState]
    BY <1>3, <2>1 DEF Tasks!WritePage, TasksTypeOK, SyncState
  <2> QED
    BY <1>3, <2>2, <2>3, <2>4 DEF Tasks!WritePage, TasksTypeOK
<1>4. ASSUME NEW s \in Sync, Tasks!RecordWrite(s)
      PROVE  TasksTypeOK'
  <2>1. sync[s].value \in Shown /\ sync[s].version \in Nat
    BY DEF TasksTypeOK, SyncState
  <2>2. taskReceipts' \in SUBSET Shown /\ known' \in Nat
    BY <1>4, <2>1 DEF Tasks!RecordWrite, TasksTypeOK
  <2>3. sync' \in [Sync -> SyncState] /\ answer' \in {"none", "ok", "failed"}
    BY <1>4, AnswersTypes DEF Tasks!RecordWrite
  <2>4. UNCHANGED <<item, pages, page, minute, changes, taskFaults>>
    BY <1>4 DEF Tasks!RecordWrite
  <2>5. /\ item' \in Shown /\ pages' \in Nat /\ page' \in PageState
        /\ minute' \in Nat /\ changes' \in Nat /\ taskFaults' \in Nat
    BY <2>4 DEF TasksTypeOK
  <2> QED
    BY <2>2, <2>3, <2>5, TypesOfTheParts
<1>5. ASSUME NEW s \in Sync, Tasks!AnswerLost(s)
      PROVE  TasksTypeOK'
  <2>1. sync' = [sync EXCEPT ![s] = [sync[s] EXCEPT !.pc = "querying", !.version = 0]]
    BY <1>5 DEF Tasks!AnswerLost, TasksTypeOK
  <2>2. [sync[s] EXCEPT !.pc = "querying", !.version = 0] \in SyncState
    BY DEF TasksTypeOK, SyncState
  <2>3. sync' \in [Sync -> SyncState]
    BY <2>1, <2>2 DEF TasksTypeOK
  <2>4. taskFaults' \in Nat
    BY <1>5 DEF Tasks!AnswerLost, Tasks!Fault, TasksTypeOK
  <2> QED
    BY <1>5, <2>3, <2>4 DEF Tasks!AnswerLost, TasksTypeOK
<1>6. ASSUME NEW s \in Sync, Tasks!Reconcile(s)
      PROVE  TasksTypeOK'
  <2>1. item' \in Shown
    BY <1>6 DEF Tasks!Reconcile, TasksTypeOK, Shown, Tasks!MasterTasksAssumption
  <2>2. sync' \in [Sync -> SyncState] /\ answer' \in {"none", "ok", "failed"}
    BY <1>6, <2>1, StartTypes DEF Tasks!Reconcile
  <2> QED
    BY <1>6, <2>1, <2>2 DEF Tasks!Reconcile, TasksTypeOK
<1>7. CASE Tasks!TasksCrash
  <2>1. sync' \in [Sync -> SyncState] /\ taskFaults' \in Nat /\ answer' = "none"
    BY <1>7, IdleSyncType DEF Tasks!TasksCrash, Tasks!Fault, Tasks!Nothing, TasksTypeOK
  <2> QED
    BY <1>7, <2>1 DEF Tasks!TasksCrash, TasksTypeOK
<1>8. CASE Tasks!PersonEdits
  <2>1. page' \in PageState
    BY <1>8 DEF Tasks!PersonEdits, Tasks!PageAt, TasksTypeOK, PageState, Shown, Tasks!MasterTasksAssumption
  <2> QED
    BY <1>8, <2>1 DEF Tasks!PersonEdits, TasksTypeOK
<1>9. CASE Tasks!MinutePasses
  BY <1>9 DEF Tasks!MinutePasses, TasksTypeOK
<1>10. CASE UNCHANGED tasksVars
  BY <1>10 DEF tasksVars, TasksTypeOK
<1> QED
  BY <1>1, <1>2, <1>3, <1>4, <1>5, <1>6, <1>7, <1>8, <1>9, <1>10 DEF Tasks!TasksNext

\* Every step keeps what is known of the page: a query finds a page to patch only
\* in the version last recorded, and an edit leaves that version only in the minute
\* of the last write.
LEMMA StepKnowledge ==
    ASSUME TasksInv, TasksTypeOK', [Tasks!TasksNext]_tasksVars
    PROVE  VersionsAreStamped' /\ OverwritesAreVerified'
<1> DEFINE Kept == VersionsAreStamped' /\ OverwritesAreVerified'
<1>a. TasksTypeOK /\ VersionsAreStamped /\ OverwritesAreVerified
  BY DEF TasksInv
<1>b. /\ page \in PageState /\ page' \in PageState
      /\ pages \in Nat /\ pages' \in Nat /\ known \in Nat /\ known' \in Nat
      /\ minute \in Nat /\ minute' \in Nat
      /\ sync \in [Sync -> SyncState] /\ sync' \in [Sync -> SyncState]
  BY <1>a DEF TasksTypeOK
<1>1. ASSUME NEW s \in Sync, Tasks!ItemChanges(s) \/ Tasks!Reconcile(s)
      PROVE  Kept
  <2>1. \E value : Tasks!StartUpsert(s, value)
    BY <1>1 DEF Tasks!ItemChanges, Tasks!Reconcile
  <2>2. UNCHANGED <<pages, page, known, minute>>
    BY <1>1 DEF Tasks!ItemChanges, Tasks!Reconcile
  <2>3. minute <= minute'
    BY <1>b, <2>2
  <2> QED
    BY <1>a, <2>1, <2>2, <2>3, StartsAreEarly, QuietSteps
<1>2. ASSUME NEW s \in Sync, Tasks!QueryPage(s)
      PROVE  Kept
  <2>1. UNCHANGED <<pages, page, known, minute>>
    BY <1>2 DEF Tasks!QueryPage
  <2>2. minute <= minute'
    BY <1>b, <2>1
  <2>3. CASE Tasks!Answers(s, "failed")
    BY <1>a, <2>1, <2>2, <2>3, EndsAreIdle, QuietSteps
  <2>4. CASE /\ pages = 0
             /\ sync' = [sync EXCEPT ![s].pc = "creating", ![s].version = page.version,
                                    ![s].seen = page.change]
    <3>1. sync'[s].pc = "creating" /\ \A t \in Sync : t # s => sync'[t] = sync[t]
      BY <1>b, <2>4 DEF SyncState
    <3> QED
      BY <2>1, <2>2, <3>1, QuietSteps
  <2>5. CASE /\ pages = 1 /\ Tasks!Unchanged
             /\ sync' = [sync EXCEPT ![s].pc = "patching", ![s].version = page.version,
                                    ![s].seen = page.change]
    <3>1. /\ sync'[s].pc = "patching" /\ sync'[s].seen = page.change
          /\ \A t \in Sync : t # s => sync'[t] = sync[t]
      BY <1>b, <2>5 DEF SyncState
    <3>2. page.version = page.wrote
      BY <1>a, <1>b, <2>5 DEF Tasks!Unchanged, VersionsAreStamped, PageState
    <3>3. VersionsAreStamped'
      BY <1>a, <2>1, <3>1 DEF VersionsAreStamped
    <3>4. OverwritesAreVerified'
      BY <1>a, <1>b, <2>1, <3>1, <3>2 DEF OverwritesAreVerified, PageState
    <3> QED
      BY <3>3, <3>4
  <2>6. \/ Tasks!Answers(s, "failed")
        \/ /\ pages = 0 \/ (pages = 1 /\ Tasks!Unchanged)
           /\ sync' = [sync EXCEPT ![s].pc = IF pages = 0 THEN "creating" ELSE "patching",
                                  ![s].version = page.version, ![s].seen = page.change]
    BY <1>2, <1>b DEF Tasks!QueryPage
  <2>7. CASE pages = 0
    BY <2>3, <2>4, <2>6, <2>7
  <2>8. CASE pages # 0
    BY <2>3, <2>5, <2>6, <2>8
  <2> QED
    BY <2>7, <2>8
<1>3. ASSUME NEW s \in Sync, Tasks!WritePage(s)
      PROVE  Kept
  <2>1. /\ sync'[s].pc = "recording" /\ sync'[s].version = minute
        /\ \A t \in Sync : t # s => sync'[t] = sync[t]
        /\ UNCHANGED <<known, minute>>
    BY <1>3, <1>b DEF Tasks!WritePage, SyncState
  <2>2. CASE page' = page /\ pages' > 1
    <3>1. VersionsAreStamped'
      BY <1>a, <1>b, <2>1, <2>2 DEF VersionsAreStamped
    <3>2. OverwritesAreVerified'
      BY <1>a, <1>b, <2>1, <2>2 DEF OverwritesAreVerified
    <3> QED
      BY <3>1, <3>2
  <2>3. CASE /\ page'.version = minute /\ page'.wrote = minute
             /\ page'.change = page.change + 1 /\ page'.edited = 0
             /\ pages' <= 1 => pages <= 1
    <3>1. VersionsAreStamped'
      BY <1>a, <1>b, <2>1, <2>3 DEF VersionsAreStamped, PageState, SyncState
    <3>2. OverwritesAreVerified'
      BY <1>a, <1>b, <2>1, <2>3 DEF OverwritesAreVerified, PageState, SyncState
    <3> QED
      BY <3>1, <3>2
  <2> QED
    BY <1>3, <1>b, <2>2, <2>3 DEF Tasks!WritePage, Tasks!PageAt
<1>4. ASSUME NEW s \in Sync, Tasks!RecordWrite(s)
      PROVE  Kept
  <2>1. UNCHANGED <<pages, page, minute>> /\ sync[s].pc = "recording"
    BY <1>4 DEF Tasks!RecordWrite
  <2>2. minute <= minute'
    BY <1>b, <2>1
  <2>3. \A t \in Sync : sync'[t].pc \in {"patching", "recording"} => sync'[t] = sync[t]
    BY <1>4, <1>a, EndsAreIdle DEF Tasks!RecordWrite
  <2>4. CASE UNCHANGED known
    BY <2>1, <2>2, <2>3, <2>4, QuietSteps
  <2>5. CASE known' = sync[s].version
    <3>1. VersionsAreStamped'
      BY <1>a, <2>1, <2>3, <2>5 DEF VersionsAreStamped
    <3>2. OverwritesAreVerified'
      BY <1>a, <2>1, <2>3 DEF OverwritesAreVerified
    <3> QED
      BY <3>1, <3>2
  <2> QED
    BY <1>4, <2>4, <2>5 DEF Tasks!RecordWrite
<1>5. ASSUME NEW s \in Sync, Tasks!AnswerLost(s)
      PROVE  Kept
  <2>1. sync'[s].pc = "querying" /\ \A t \in Sync : t # s => sync'[t] = sync[t]
    BY <1>5, <1>b DEF Tasks!AnswerLost, SyncState
  <2>2. UNCHANGED <<pages, page, known, minute>>
    BY <1>5 DEF Tasks!AnswerLost
  <2>3. minute <= minute'
    BY <1>b, <2>2
  <2> QED
    BY <2>1, <2>2, <2>3, QuietSteps
<1>6. CASE Tasks!TasksCrash
  <2>1. \A t \in Sync : sync'[t].pc = "idle"
    BY <1>6 DEF Tasks!TasksCrash, Tasks!IdleSync
  <2>2. UNCHANGED <<pages, page, known, minute>>
    BY <1>6 DEF Tasks!TasksCrash
  <2>3. minute <= minute'
    BY <1>b, <2>2
  <2> QED
    BY <2>1, <2>2, <2>3, QuietSteps
<1>7. CASE Tasks!PersonEdits
  <2>1. /\ page'.version = minute /\ page'.wrote = page.wrote
        /\ page'.change = page.change + 1 /\ page'.edited = page'.change
        /\ UNCHANGED <<pages, known, minute, sync>>
    BY <1>7 DEF Tasks!PersonEdits, Tasks!PageAt
  <2>2. OverwritesAreVerified'
    BY <1>a, <1>b, <2>1 DEF OverwritesAreVerified, PageState, SyncState
  <2>3. VersionsAreStamped'
    BY <1>a, <1>b, <2>1 DEF VersionsAreStamped, PageState, SyncState
  <2> QED
    BY <2>2, <2>3
<1>8. CASE Tasks!MinutePasses
  <2>1. UNCHANGED <<pages, page, known, sync>> /\ minute <= minute'
    BY <1>8, <1>b DEF Tasks!MinutePasses
  <2> QED
    BY <2>1, QuietSteps
<1>9. CASE UNCHANGED tasksVars
  <2>1. UNCHANGED <<pages, page, known, sync>> /\ minute <= minute'
    BY <1>9, <1>b DEF tasksVars
  <2> QED
    BY <2>1, QuietSteps
<1> QED
  BY <1>1, <1>2, <1>3, <1>4, <1>5, <1>6, <1>7, <1>8, <1>9 DEF Tasks!TasksNext

(***************************************************************************)
(* The graph of tickets                                                    *)
(***************************************************************************)

Visited == [id : Ticket, left : SUBSET Ticket]
Walk == [pc : {"walking", "refused", "accepted"}, trail : Seq(Visited), left : SUBSET Ticket,
         settled : SUBSET Ticket]

GraphTypeOK ==
    /\ blockedBy \in [Ticket -> SUBSET Ticket]
    /\ issue \in [Ticket -> Tickets!LiveIssue]
    /\ walk \in Walk

\* Whatever a settled ticket is blocked by is settled, and among settled tickets no
\* chain of blockers goes round: in each set of them one is blocked by none of it.
SettledIsAcyclic ==
    /\ \A t \in walk.settled : blockedBy[t] \subseteq walk.settled
    /\ \A S \in SUBSET walk.settled : S # {} => \E t \in S : blockedBy[t] \cap S = {}

\* What the walk has left behind is settled, or further along the trail.
NothingIsSkipped ==
    /\ walk.pc = "walking" =>
         /\ \A k \in 1 .. Len(walk.trail), b \in Ticket :
              b \in blockedBy[walk.trail[k].id] =>
                \/ b \in walk.trail[k].left \/ b \in walk.settled
                \/ k < Len(walk.trail) /\ walk.trail[k + 1].id = b
         /\ \A t \in Ticket :
              \/ t \in walk.left \/ t \in walk.settled
              \/ walk.trail # <<>> /\ walk.trail[1].id = t
    /\ walk.pc = "accepted" => walk.settled = Ticket

GraphInv == GraphTypeOK /\ SettledIsAcyclic /\ NothingIsSkipped

LEMMA LeastOfSet ==
    ASSUME NEW S \in SUBSET Nat, S # {}
    PROVE  Tickets!Min(S) \in S /\ \A m \in S : Tickets!Min(S) <= m
<1> DEFINE Less == OpToRel(<, Nat)
<1>1. Less = {pair \in Nat \X Nat : pair[1] < pair[2]}
  BY DEF OpToRel
<1>2. IsWellFoundedOn(Less, Nat)
  BY NatLessThanWellFounded
<1> HIDE DEF Less
<1>3. PICK n \in S : \A m \in S : <<m, n>> \notin Less
  BY <1>2, WFMin, Zenon
<1>4. ASSUME NEW m \in S PROVE n <= m
  <2> SUFFICES ASSUME ~(n <= m) PROVE FALSE
    OBVIOUS
  <2>1. m \in Nat /\ n \in Nat /\ m < n
    OBVIOUS
  <2>2. <<m, n>> \in Less
    BY <1>1, <2>1
  <2> QED
    BY <1>3, <2>2
<1> QED
  BY <1>4 DEF Tickets!Min

LEMMA GraphInitInvariant == Tickets!GraphInit => GraphInv
<1> SUFFICES ASSUME Tickets!GraphInit  PROVE GraphInv
  OBVIOUS
<1>1. /\ blockedBy \in [Ticket -> SUBSET Ticket]
      /\ issue = [t \in Ticket |-> [state |-> "open", label |-> "ready-for-agent"]]
      /\ walk = [pc |-> "walking", trail |-> <<>>, left |-> Ticket, settled |-> {}]
  BY DEF Tickets!GraphInit
<1>2. walk \in Walk
  BY <1>1 DEF Walk
<1>3. issue \in [Ticket -> Tickets!LiveIssue]
  BY <1>1 DEF Tickets!LiveIssue, Tickets!Label
<1>4. walk.settled = {} /\ walk.left = Ticket /\ walk.trail = <<>> /\ walk.pc = "walking"
  BY <1>1
<1>5. SettledIsAcyclic
  BY <1>4 DEF SettledIsAcyclic
<1>6. NothingIsSkipped
  BY <1>4 DEF NothingIsSkipped
<1> QED
  BY <1>1, <1>2, <1>3, <1>5, <1>6 DEF GraphInv, GraphTypeOK

\* A ticket whose blockers are settled can be settled.
LEMMA SettleOneMore ==
    ASSUME GraphInv, NEW c \in Ticket, blockedBy[c] \subseteq walk.settled,
           walk'.settled = walk.settled \cup {c}, UNCHANGED blockedBy
    PROVE  SettledIsAcyclic'
<1>a. SettledIsAcyclic
  BY DEF GraphInv
<1>1. \A t \in walk'.settled : blockedBy'[t] \subseteq walk'.settled
  BY <1>a DEF SettledIsAcyclic
<1>2. ASSUME NEW S \in SUBSET walk'.settled, S # {}, c \notin walk.settled
      PROVE  \E t \in S : blockedBy'[t] \cap S = {}
  <2>1. CASE S = {c}
    BY <1>2, <2>1
  <2>2. CASE S # {c}
    <3>1. S \ {c} \in SUBSET walk.settled /\ S \ {c} # {}
      BY <1>2, <2>2
    <3>2. PICK t \in S \ {c} : blockedBy[t] \cap (S \ {c}) = {}
      BY <1>a, <3>1 DEF SettledIsAcyclic
    <3>3. t \in walk.settled
      BY <3>1, <3>2
    <3>4. c \notin blockedBy[t]
      BY <1>a, <1>2, <3>3 DEF SettledIsAcyclic
    <3> QED  BY <3>2, <3>4
  <2> QED  BY <2>1, <2>2
<1>3. CASE c \in walk.settled
  <2>1. walk'.settled = walk.settled
    BY <1>3
  <2> QED  BY <1>a, <2>1 DEF SettledIsAcyclic
<1> QED
  BY <1>1, <1>2, <1>3 DEF SettledIsAcyclic

\* The ticket that is visited: nothing happens, the graph is refused, or the trail
\* is one ticket longer.
LEMMA VisitResult ==
    ASSUME GraphInv, NEW t \in Ticket, walk.pc = "walking"
    PROVE  /\ Tickets!Visit(t) \in Walk
           /\ Tickets!Visit(t).left = walk.left /\ Tickets!Visit(t).settled = walk.settled
           /\ \/ t \in walk.settled /\ Tickets!Visit(t).trail = walk.trail
                   /\ Tickets!Visit(t).pc = "walking"
              \/ Tickets!Visit(t).trail = walk.trail /\ Tickets!Visit(t).pc = "refused"
              \/ /\ Tickets!Visit(t).trail = Append(walk.trail, [id |-> t, left |-> blockedBy[t]])
                 /\ Tickets!Visit(t).pc = "walking"
<1>a. walk \in Walk /\ blockedBy[t] \in SUBSET Ticket
  BY DEF GraphInv, GraphTypeOK
<1>1. CASE t \in walk.settled
  BY <1>a, <1>1 DEF Tickets!Visit
<1>2. CASE t \notin walk.settled /\ Tickets!OnTrail(t)
  <2>1. Tickets!Visit(t) = [walk EXCEPT !.pc = "refused"]
    BY <1>2 DEF Tickets!Visit
  <2> QED  BY <1>a, <2>1 DEF Walk
<1>3. CASE t \notin walk.settled /\ ~Tickets!OnTrail(t)
  <2> DEFINE seen == [id |-> t, left |-> blockedBy[t]]
  <2>1. Tickets!Visit(t) = [walk EXCEPT !.trail = Append(@, seen)]
    BY <1>3 DEF Tickets!Visit
  <2>2. seen \in Visited
    BY <1>a DEF Visited
  <2> HIDE DEF seen
  <2>3. Append(walk.trail, seen) \in Seq(Visited)
    BY <1>a, <2>2 DEF Walk
  <2>4. /\ Tickets!Visit(t) \in Walk
        /\ Tickets!Visit(t).left = walk.left /\ Tickets!Visit(t).settled = walk.settled
        /\ Tickets!Visit(t).trail = Append(walk.trail, seen)
        /\ Tickets!Visit(t).pc = "walking"
    BY <1>a, <2>1, <2>3 DEF Walk
  <2> QED  BY <2>4 DEF seen
<1> QED
  BY <1>1, <1>2, <1>3

\* Every step keeps the invariant.
LEMMA GraphStepInvariant ==
    ASSUME Tickets!TicketAssumption, GraphInv, [Tickets!GraphNext]_graphVars
    PROVE  GraphInv'
<1>a. GraphTypeOK /\ SettledIsAcyclic /\ NothingIsSkipped
  BY DEF GraphInv
<1>w. /\ walk \in Walk /\ walk.trail \in Seq(Visited) /\ walk.left \in SUBSET Ticket
      /\ walk.settled \in SUBSET Ticket
  BY <1>a DEF GraphTypeOK, Walk
<1>l. Tickets!LiveIssue' = Tickets!LiveIssue
  BY DEF Tickets!LiveIssue, Tickets!Label
<1>1. CASE Tickets!WalkFrom
  <2> DEFINE t == Tickets!Min(walk.left)
             visit == Tickets!Visit(t)
  <2>1. /\ walk.pc = "walking" /\ walk.trail = <<>> /\ walk.left # {}
        /\ walk' = [visit EXCEPT !.left = @ \ {t}] /\ UNCHANGED <<blockedBy, issue>>
    BY <1>1 DEF Tickets!WalkFrom
  <2>2. t \in walk.left /\ t \in Ticket
    BY <1>w, <2>1, LeastOfSet DEF Tickets!TicketAssumption
  <2>3. /\ visit \in Walk /\ visit.left = walk.left /\ visit.settled = walk.settled
        /\ \/ t \in walk.settled /\ visit.trail = walk.trail /\ visit.pc = "walking"
           \/ visit.trail = walk.trail /\ visit.pc = "refused"
           \/ /\ visit.trail = Append(walk.trail, [id |-> t, left |-> blockedBy[t]])
              /\ visit.pc = "walking"
    BY <2>1, <2>2, VisitResult
  <2> HIDE DEF t, visit
  <2>4. /\ walk' \in Walk /\ walk'.left = walk.left \ {t} /\ walk'.settled = walk.settled
        /\ walk'.trail = visit.trail /\ walk'.pc = visit.pc
    BY <2>1, <2>3 DEF Walk
  <2>5. GraphTypeOK'
    BY <1>a, <1>l, <2>1, <2>4 DEF GraphTypeOK, Walk
  <2>6. SettledIsAcyclic'
    BY <1>a, <2>1, <2>4 DEF SettledIsAcyclic
  <2>7. NothingIsSkipped'
    <3>1. CASE t \in walk.settled /\ walk'.trail = <<>>
      BY <1>a, <2>1, <2>3, <2>4, <3>1 DEF NothingIsSkipped
    <3>2. CASE walk'.pc = "refused"
      BY <3>2 DEF NothingIsSkipped
    <3>3. CASE walk'.trail = Append(walk.trail, [id |-> t, left |-> blockedBy[t]])
               /\ walk'.pc = "walking"
      <4>1. walk'.trail = <<[id |-> t, left |-> blockedBy[t]]>>
        BY <2>1, <3>3
      <4>2. Len(walk'.trail) = 1 /\ walk'.trail # <<>> /\ walk'.trail[1].id = t
            /\ walk'.trail[1].left = blockedBy[t]
        BY <4>1
      <4>3. \A k \in 1 .. Len(walk'.trail), b \in Ticket :
              b \in blockedBy'[walk'.trail[k].id] => b \in walk'.trail[k].left
        BY <2>1, <4>2
      <4>4. \A u \in Ticket : u \in walk'.left \/ u \in walk'.settled \/ walk'.trail[1].id = u
        BY <1>a, <2>1, <2>4, <4>2 DEF NothingIsSkipped
      <4> QED  BY <3>3, <4>2, <4>3, <4>4 DEF NothingIsSkipped
    <3> QED  BY <2>1, <2>3, <2>4, <3>1, <3>2, <3>3
  <2> QED  BY <2>5, <2>6, <2>7 DEF GraphInv
<1>2. ASSUME NEW b \in Ticket, Tickets!WalkInto(b)
      PROVE  GraphInv'
  <2> DEFINE visit == Tickets!Visit(b)
             n == Len(walk.trail)
  <2>1. /\ walk.pc = "walking" /\ walk.trail # <<>> /\ b \in walk.trail[n].left
        /\ walk' = [visit EXCEPT !.trail[n].left = @ \ {b}]
        /\ UNCHANGED <<blockedBy, issue>>
    BY <1>2 DEF Tickets!WalkInto, Tickets!Current
  <2>2. /\ visit \in Walk /\ visit.left = walk.left /\ visit.settled = walk.settled
        /\ \/ b \in walk.settled /\ visit.trail = walk.trail /\ visit.pc = "walking"
           \/ visit.trail = walk.trail /\ visit.pc = "refused"
           \/ /\ visit.trail = Append(walk.trail, [id |-> b, left |-> blockedBy[b]])
              /\ visit.pc = "walking"
    BY <2>1, VisitResult
  <2>3. n \in Nat \ {0}
    BY <1>w, <2>1
  <2> HIDE DEF visit, n
  <2>4. /\ walk'.pc = visit.pc /\ walk'.left = walk.left /\ walk'.settled = walk.settled
        /\ walk'.trail = [visit.trail EXCEPT ![n].left = @ \ {b}]
    BY <2>1, <2>2 DEF Walk
  <2>5. visit.trail \in Seq(Visited) /\ n \in DOMAIN visit.trail /\ visit.trail[n] = walk.trail[n]
        /\ Len(visit.trail) >= n
    BY <1>w, <2>2, <2>3 DEF Walk, n
  <2>6. /\ walk'.trail \in Seq(Visited) /\ Len(walk'.trail) = Len(visit.trail)
        /\ walk'.trail[n].id = walk.trail[n].id
        /\ walk'.trail[n].left = walk.trail[n].left \ {b}
        /\ \A k \in 1 .. Len(visit.trail) : k # n => walk'.trail[k] = visit.trail[k]
    <3>1. visit.trail[n] \in Visited
      BY <2>5
    <3>2. /\ [visit.trail[n] EXCEPT !.left = @ \ {b}] \in Visited
          /\ [visit.trail[n] EXCEPT !.left = @ \ {b}].id = visit.trail[n].id
          /\ [visit.trail[n] EXCEPT !.left = @ \ {b}].left = visit.trail[n].left \ {b}
      BY <3>1 DEF Visited
    <3> DEFINE entry == [visit.trail[n] EXCEPT !.left = @ \ {b}]
    <3>3. walk'.trail = [visit.trail EXCEPT ![n] = entry]
      BY <2>4
    <3> HIDE DEF entry
    <3>4. walk'.trail \in Seq(Visited) /\ Len(walk'.trail) = Len(visit.trail)
          /\ walk'.trail[n] = entry
          /\ \A k \in 1 .. Len(visit.trail) : k # n => walk'.trail[k] = visit.trail[k]
      BY <2>3, <2>5, <3>2, <3>3 DEF entry
    <3> QED  BY <2>5, <3>2, <3>4 DEF entry
  <2>7. walk' \in Walk
    BY <2>1, <2>2, <2>6 DEF Walk
  <2>8. GraphTypeOK'
    BY <1>a, <1>l, <2>1, <2>7 DEF GraphTypeOK, Walk
  <2>9. SettledIsAcyclic'
    BY <1>a, <2>1, <2>4 DEF SettledIsAcyclic
  <2>10. NothingIsSkipped'
    <3>1. CASE walk'.pc = "refused"
      BY <3>1 DEF NothingIsSkipped
    <3>2. CASE walk'.pc = "walking"
      <4>1. \/ b \in walk.settled /\ visit.trail = walk.trail
            \/ visit.trail = Append(walk.trail, [id |-> b, left |-> blockedBy[b]])
        BY <2>2, <2>4, <3>2
      <4>2. \A k \in 1 .. n : walk'.trail[k].id = walk.trail[k].id
            /\ (k # n => walk'.trail[k].left = walk.trail[k].left)
        <5>1. \A k \in 1 .. n : visit.trail[k] = walk.trail[k]
          BY <1>w, <4>1 DEF n
        <5>2. \A k \in 1 .. n : k \in 1 .. Len(visit.trail)
          BY <2>3, <2>5, <1>w, <4>1 DEF n
        <5> QED  BY <2>6, <5>1, <5>2
      <4>3. walk'.trail # <<>> /\ walk'.trail[1].id = walk.trail[1].id
        BY <2>3, <2>5, <2>6, <4>2
      <4>4. \A u \in Ticket : u \in walk'.left \/ u \in walk'.settled \/ walk'.trail[1].id = u
        BY <1>a, <2>1, <2>4, <4>3 DEF NothingIsSkipped
      <4>5. ASSUME NEW k \in 1 .. Len(walk'.trail), NEW c \in Ticket,
                   c \in blockedBy[walk'.trail[k].id]
            PROVE  \/ c \in walk'.trail[k].left \/ c \in walk'.settled
                   \/ k < Len(walk'.trail) /\ walk'.trail[k + 1].id = c
        <5>1. CASE k < n
          <6>1. k \in 1 .. n /\ k + 1 \in 1 .. n /\ k # n
            BY <2>3, <4>5, <5>1
          <6>2. \/ c \in walk.trail[k].left \/ c \in walk.settled \/ walk.trail[k + 1].id = c
            BY <1>a, <2>1, <4>2, <4>5, <6>1 DEF NothingIsSkipped, n
          <6>3. k < Len(walk'.trail)
            BY <2>3, <2>5, <2>6, <5>1
          <6> QED  BY <2>4, <4>2, <6>1, <6>2, <6>3
        <5>2. CASE k = n
          <6>1. \/ c \in walk.trail[n].left \/ c \in walk.settled
            BY <1>a, <2>1, <2>3, <4>2, <4>5, <5>2 DEF NothingIsSkipped, n
          <6>2. CASE c # b
            BY <2>4, <2>6, <5>2, <6>1, <6>2
          <6>3. CASE c = b /\ b \in walk.settled
            BY <2>4, <6>3
          <6>4. CASE c = b /\ visit.trail = Append(walk.trail, [id |-> b, left |-> blockedBy[b]])
            <7>1. Len(visit.trail) = n + 1 /\ visit.trail[n + 1].id = b
              BY <1>w, <6>4 DEF n
            <7> QED  BY <2>3, <2>6, <5>2, <6>4, <7>1
          <6> QED  BY <4>1, <6>2, <6>3, <6>4
        <5>3. CASE k > n
          <6>1. visit.trail = Append(walk.trail, [id |-> b, left |-> blockedBy[b]])
            BY <1>w, <2>3, <2>6, <4>1, <4>5, <5>3 DEF n
          <6>2. Len(visit.trail) = n + 1 /\ visit.trail[n + 1] = [id |-> b, left |-> blockedBy[b]]
            BY <1>w, <6>1 DEF n
          <6>3. k = n + 1
            BY <2>3, <2>6, <4>5, <5>3, <6>2
          <6>4. walk'.trail[k] = [id |-> b, left |-> blockedBy[b]]
            BY <2>3, <2>6, <6>2, <6>3
          <6> QED  BY <4>5, <6>4
        <5> QED  BY <2>3, <4>5, <5>1, <5>2, <5>3
      <4> QED  BY <2>1, <3>2, <4>3, <4>4, <4>5 DEF NothingIsSkipped
    <3> QED  BY <2>2, <2>4, <3>1, <3>2
  <2> QED  BY <2>8, <2>9, <2>10 DEF GraphInv
<1>3. CASE Tickets!WalkBack
  <2> DEFINE n == Len(walk.trail)
             c == walk.trail[n].id
  <2>1. /\ walk.pc = "walking" /\ walk.trail # <<>> /\ walk.trail[n].left = {}
        /\ walk' = [walk EXCEPT !.trail = SubSeq(@, 1, n - 1), !.settled = @ \cup {c}]
        /\ UNCHANGED <<blockedBy, issue>>
    BY <1>3 DEF Tickets!WalkBack, Tickets!Current
  <2>2. n \in Nat \ {0} /\ walk.trail[n] \in Visited
    BY <1>w, <2>1
  <2>3. c \in Ticket
    BY <2>2 DEF Visited
  <2> HIDE DEF n, c
  <2>4. /\ walk'.trail = SubSeq(walk.trail, 1, n - 1) /\ walk'.settled = walk.settled \cup {c}
        /\ walk'.left = walk.left /\ walk'.pc = "walking"
    BY <1>w, <2>1 DEF Walk
  <2>5. /\ walk'.trail \in Seq(Visited) /\ Len(walk'.trail) = n - 1
        /\ \A k \in 1 .. n - 1 : walk'.trail[k] = walk.trail[k]
    BY <1>w, <2>2, <2>4 DEF n
  <2>6. walk' \in Walk
    BY <1>w, <2>1, <2>3, <2>5, <2>4 DEF Walk
  <2>7. GraphTypeOK'
    BY <1>a, <1>l, <2>1, <2>6 DEF GraphTypeOK, Walk
  <2>8. blockedBy[c] \subseteq walk.settled
    <3>1. blockedBy[c] \in SUBSET Ticket
      BY <1>a, <2>3 DEF GraphTypeOK
    <3>2. ~(n < n) /\ n \in 1 .. n
      BY <2>2
    <3> QED  BY <1>a, <2>1, <3>1, <3>2 DEF NothingIsSkipped, n, c
  <2>9. SettledIsAcyclic'
    BY <2>1, <2>3, <2>4, <2>8, SettleOneMore
  <2>10. NothingIsSkipped'
    <3>1. ASSUME NEW k \in 1 .. Len(walk'.trail), NEW b \in Ticket,
                 b \in blockedBy[walk'.trail[k].id]
          PROVE  \/ b \in walk'.trail[k].left \/ b \in walk'.settled
                 \/ k < Len(walk'.trail) /\ walk'.trail[k + 1].id = b
      <4>1. k \in 1 .. n - 1 /\ k \in 1 .. n /\ k < n
        BY <2>2, <2>5, <3>1
      <4>2. \/ b \in walk.trail[k].left \/ b \in walk.settled \/ walk.trail[k + 1].id = b
        BY <1>a, <2>1, <2>5, <3>1, <4>1 DEF NothingIsSkipped, n
      <4>3. CASE k + 1 = n /\ walk.trail[k + 1].id = b
        BY <2>4, <4>3 DEF c
      <4>4. CASE k + 1 < n /\ walk.trail[k + 1].id = b
        <5>1. k + 1 \in 1 .. n - 1
          BY <2>2, <4>1, <4>4
        <5> QED  BY <2>2, <2>5, <4>1, <4>4, <5>1
      <4>5. k + 1 = n \/ k + 1 < n
        BY <2>2, <4>1
      <4> QED  BY <2>4, <2>5, <4>1, <4>2, <4>3, <4>4, <4>5
    <3>2. ASSUME NEW t \in Ticket
          PROVE  t \in walk'.left \/ t \in walk'.settled \/ (walk'.trail # <<>> /\ walk'.trail[1].id = t)
      <4>1. t \in walk.left \/ t \in walk.settled \/ walk.trail[1].id = t
        BY <1>a, <2>1 DEF NothingIsSkipped
      <4>2. CASE n = 1
        BY <2>4, <4>1, <4>2 DEF c
      <4>3. CASE n # 1
        <5>1. 1 \in 1 .. n - 1 /\ Len(walk'.trail) # 0
          BY <2>2, <2>5, <4>3
        <5>2. walk'.trail # <<>>
          BY <5>1
        <5> QED  BY <2>4, <2>5, <4>1, <5>1, <5>2
      <4> QED  BY <4>2, <4>3
    <3> QED  BY <2>1, <2>4, <3>1, <3>2 DEF NothingIsSkipped
  <2> QED  BY <2>7, <2>9, <2>10 DEF GraphInv
<1>4. CASE Tickets!Accept
  <2>1. /\ walk.pc = "walking" /\ walk.trail = <<>> /\ walk.left = {}
        /\ walk' = [walk EXCEPT !.pc = "accepted"] /\ UNCHANGED <<blockedBy, issue>>
    BY <1>4 DEF Tickets!Accept
  <2>2. walk' \in Walk /\ walk'.settled = walk.settled /\ walk'.pc = "accepted"
    BY <1>w, <2>1 DEF Walk
  <2>3. walk.settled = Ticket
    BY <1>a, <1>w, <2>1 DEF NothingIsSkipped
  <2>4. GraphTypeOK'
    BY <1>a, <1>l, <2>1, <2>2 DEF GraphTypeOK, Walk
  <2>5. SettledIsAcyclic' /\ NothingIsSkipped'
    BY <1>a, <2>1, <2>2, <2>3 DEF SettledIsAcyclic, NothingIsSkipped
  <2> QED  BY <2>4, <2>5 DEF GraphInv
<1>5. ASSUME NEW t \in Ticket, NEW live \in Tickets!LiveIssue, Tickets!IssueChanges(t, live)
      PROVE  GraphInv'
  <2>1. issue' = [issue EXCEPT ![t] = live] /\ UNCHANGED <<blockedBy, walk>>
    BY <1>5 DEF Tickets!IssueChanges
  <2>2. issue' \in [Ticket -> Tickets!LiveIssue]
    BY <1>a, <2>1 DEF GraphTypeOK
  <2>3. GraphTypeOK'
    BY <1>a, <1>l, <2>1, <2>2 DEF GraphTypeOK, Walk
  <2> QED  BY <1>a, <2>1, <2>3 DEF GraphInv, SettledIsAcyclic, NothingIsSkipped
<1>6. CASE UNCHANGED graphVars
  <2>1. UNCHANGED <<blockedBy, issue, walk>>
    BY <1>6 DEF graphVars
  <2>2. GraphTypeOK'
    BY <1>a, <1>l, <2>1 DEF GraphTypeOK, Walk
  <2> QED  BY <1>a, <2>1, <2>2 DEF GraphInv, SettledIsAcyclic, NothingIsSkipped
<1> QED
  BY <1>1, <1>2, <1>3, <1>4, <1>5, <1>6 DEF Tickets!GraphNext

\* What a ticket waits for is itself, or what one of its open blockers waits for:
\* the recursion of humanGatesFor has a solution, on any graph.
LEMMA GatesFollowBlockers ==
    ASSUME NEW t \in Ticket, blockedBy \in [Ticket -> SUBSET Ticket]
    PROVE  Tickets!humanGatesFor(t) =
             (IF Tickets!statusOf(t) = "ready-for-human" THEN {t} ELSE {})
               \cup UNION {Tickets!humanGatesFor(b) : b \in Tickets!openBlockers(t)}
<1> DEFINE own(id) == IF Tickets!statusOf(id) = "ready-for-human" THEN {id} ELSE {}
           next(id) == Tickets!openBlockers(id)
           G(g) == [id \in Ticket |-> own(id) \cup UNION {g[b] : b \in next(id)}]
           gates == CHOOSE g : g = G(g)
           closed(S) == \A x \in S : next(x) \subseteq S
           reach(id) == {x \in Ticket : \A S \in SUBSET Ticket : id \in S /\ closed(S) => x \in S}
           all == [id \in Ticket |-> {x \in reach(id) : Tickets!statusOf(x) = "ready-for-human"}]
<1>1. \A id \in Ticket : next(id) \subseteq Ticket
  BY DEF Tickets!openBlockers
<1>2. \A id \in Ticket : Tickets!humanGatesFor(id) = gates[id]
  BY DEF Tickets!humanGatesFor
<1> HIDE DEF next
<1>3. \A id \in Ticket : id \in reach(id) /\ \A b \in next(id) : reach(b) \subseteq reach(id)
  BY <1>1
<1>4. ASSUME NEW id \in Ticket, NEW x \in reach(id), x # id
      PROVE  \E b \in next(id) : x \in reach(b)
  <2> DEFINE T == {id} \cup {y \in Ticket : \E b \in next(id) : y \in reach(b)}
  <2>1. T \in SUBSET Ticket /\ id \in T
    OBVIOUS
  <2>2. ASSUME NEW y \in T, NEW c \in next(y)  PROVE c \in T
    <3>1. c \in Ticket
      BY <1>1, <2>1
    <3>2. CASE y = id
      BY <1>3, <3>1, <3>2
    <3>3. CASE y # id
      <4>1. PICK b \in next(id) : y \in reach(b)
        BY <3>3
      <4>2. c \in reach(b)
        BY <3>1, <4>1
      <4> QED  BY <3>1, <4>1, <4>2
    <3> QED  BY <3>2, <3>3
  <2>3. closed(T)
    BY <2>2
  <2>4. x \in T
    <3> HIDE DEF T
    <3> QED  BY <1>4, <2>1, <2>3
  <2> QED  BY <1>4, <2>4
<1> HIDE DEF reach
<1>5. all = G(all)
  <2>1. ASSUME NEW id \in Ticket
        PROVE  all[id] = own(id) \cup UNION {all[b] : b \in next(id)}
    <3>1. \A b \in next(id) : all[b] = {x \in reach(b) : Tickets!statusOf(x) = "ready-for-human"}
      BY <1>1
    <3>2. all[id] = {x \in reach(id) : Tickets!statusOf(x) = "ready-for-human"}
      OBVIOUS
    <3> HIDE DEF all
    <3>3. ASSUME NEW x \in all[id]  PROVE x \in own(id) \cup UNION {all[b] : b \in next(id)}
      BY <1>4, <3>1, <3>2
    <3>4. ASSUME NEW x \in own(id) \cup UNION {all[b] : b \in next(id)}  PROVE x \in all[id]
      BY <1>3, <3>1, <3>2
    <3> QED  BY <3>3, <3>4
  <2> QED  BY <2>1
<1> HIDE DEF all
<1>6. gates = G(gates)
  <2> HIDE DEF G
  <2> QED  BY <1>5
<1> HIDE DEF gates
<1>7. gates[t] = own(t) \cup UNION {gates[b] : b \in next(t)}
  <2> HIDE DEF own
  <2> QED  BY <1>6
<1> USE DEF next
<1>8. \A b \in next(t) : Tickets!humanGatesFor(b) = gates[b]
  BY <1>1, <1>2
<1> HIDE DEF next
<1>9. {Tickets!humanGatesFor(b) : b \in next(t)} = {gates[b] : b \in next(t)}
  BY <1>8
<1> QED
  BY <1>2, <1>7, <1>9 DEF next

\* In a graph that was accepted, a set of open tickets that all wait for nobody
\* would have one that nothing in the set blocks, and that one would be next.
LEMMA AcceptedAwaitsHumans ==
    ASSUME GraphInv, walk.pc = "accepted", Tickets!nextTickets = {}, NEW t \in Ticket,
           Tickets!statusOf(t) # "completed"
    PROVE  Tickets!humanGatesFor(t) # {}
<1>a. /\ blockedBy \in [Ticket -> SUBSET Ticket] /\ SettledIsAcyclic /\ walk.settled = Ticket
      /\ issue \in [Ticket -> Tickets!LiveIssue]
  BY DEF GraphInv, GraphTypeOK, NothingIsSkipped
<1> DEFINE forgotten == {u \in Ticket : /\ Tickets!statusOf(u) # "completed"
                                        /\ Tickets!humanGatesFor(u) = {}}
<1> SUFFICES ASSUME t \in forgotten  PROVE FALSE
  OBVIOUS
<1>1. PICK u \in forgotten : blockedBy[u] \cap forgotten = {}
  BY <1>a DEF SettledIsAcyclic
<1>2. {} = (IF Tickets!statusOf(u) = "ready-for-human" THEN {u} ELSE {})
             \cup UNION {Tickets!humanGatesFor(b) : b \in Tickets!openBlockers(u)}
  BY <1>a, <1>1, GatesFollowBlockers
<1>3. Tickets!statusOf(u) # "ready-for-human"
  BY <1>2
<1>4. Tickets!statusOf(u) # "ready-for-agent"
  BY <1>1 DEF Tickets!nextTickets
<1>5. PICK b \in blockedBy[u] : issue[b].state # "closed"
  BY <1>1, <1>3, <1>4 DEF Tickets!statusOf
<1>6. b \in Ticket /\ Tickets!statusOf(b) # "completed"
  BY <1>a, <1>1, <1>5 DEF Tickets!statusOf
<1>7. b \in Tickets!openBlockers(u)
  BY <1>5, <1>6 DEF Tickets!openBlockers
<1>8. Tickets!humanGatesFor(b) = {}
  BY <1>2, <1>7
<1> QED
  BY <1>1, <1>5, <1>6, <1>8

(***************************************************************************)
(* The search for a lifecycle path                                         *)
(***************************************************************************)

Expanded(v) == Paths!AdvanceSteps(v) \subseteq visited
Waiting(v) == \E k \in 1 .. Len(queue) : queue[k] = v

\* What is visited is reached, and what is visited and waits no longer has all its
\* next states visited; the search goes on until it visits its target.
PathsInv ==
    /\ from \in Paths!WorkItemState /\ to \in Paths!WorkItemState
    /\ queue \in Seq(Paths!WorkItemState)
    /\ search \in {"searching", "rebuilding", "found", "undefined"}
    /\ search # "undefined" => from # to /\ from \in Paths!advanceableStates
    /\ from \in visited /\ visited \subseteq Paths!WorkItemState
    /\ \A v \in visited \ {from} : v \in Paths!WalkableStates /\ Paths!Reaches(from, v)
    /\ \A v : Waiting(v) => v \in visited
    /\ search = "searching" =>
         to \notin visited /\ \A v \in visited : Waiting(v) \/ Expanded(v)
    /\ search \in {"rebuilding", "found"} => Paths!Reaches(from, to)
    /\ search = "undefined" =>
         from = to \/ from \notin Paths!advanceableStates \/ ~Paths!Reaches(from, to)

-----------------------------------------------------------------------------
LEMMA PathsCardinality == \A S : Paths!Cardinality(S) = Cardinality(S)
  BY DEF Paths!Cardinality, Cardinality

\* What waits behind the first keeps its order, and what is discovered joins it.
LEMMA QueueMoves ==
    ASSUME NEW T, NEW q \in Seq(T), NEW o \in Seq(T), q # << >>
    PROVE  /\ Tail(q) \o o \in Seq(T)
           /\ Len(Tail(q) \o o) = Len(q) - 1 + Len(o)
           /\ \A k \in 1 .. Len(q) - 1 : (Tail(q) \o o)[k] = q[k + 1]
           /\ \A k \in 1 .. Len(o) : (Tail(q) \o o)[Len(q) - 1 + k] = o[k]
<1>1. Len(q) \in Nat \ {0} /\ Len(o) \in Nat
  OBVIOUS
<1>2. Tail(q) \in Seq(T) /\ Len(Tail(q)) = Len(q) - 1
  OBVIOUS
<1>3. \A k \in 1 .. Len(q) - 1 : Tail(q)[k] = q[k + 1]
  BY <1>1
<1> QED
  BY <1>1, <1>2, <1>3

\* A set in some order: a sequence of its members, every one of them in it.
LEMMA OrderOfSet ==
    ASSUME NEW S, IsFiniteSet(S), NEW order \in Paths!SetToSeqs(S)
    PROVE  order \in Seq(S) /\ \A v \in S : \E k \in 1 .. Len(order) : order[k] = v
<1> DEFINE D == 1 .. Cardinality(S)
<1>1. Cardinality(S) \in Nat
  BY FS_CardinalityType
<1>2. order \in [D -> S] /\ \A i, j \in D : i # j => order[i] # order[j]
  BY PathsCardinality DEF Paths!SetToSeqs
<1>3. order \in Injection(D, S)
  BY <1>2 DEF Injection, IsInjective
<1>4. Cardinality(D) = Cardinality(S)
  BY <1>1, FS_Interval
<1>5. order \in Surjection(D, S)
  BY <1>3, <1>4, FS_Injection
<1>6. order \in Seq(S) /\ Len(order) = Cardinality(S)
  BY <1>1, <1>2
<1> QED
  BY <1>5, <1>6 DEF Surjection

\* The table has one step more than what leads to its first state.
LEMMA StepReaches ==
    ASSUME NEW a, NEW b, a = from \/ Paths!Reaches(from, a), NEW c \in Paths!AdvanceSteps(a)
    PROVE  c \in Paths!WalkableStates /\ Paths!Reaches(from, c)
<1>1. Paths!lifecycleEventFor(a, c) /\ c \in Paths!WalkableStates
  BY DEF Paths!AdvanceSteps, Paths!WalkableStates
<1>2. ASSUME NEW S \in SUBSET Paths!WalkableStates, Paths!ClosedFrom(from, S) PROVE c \in S
  BY <1>1, <1>2 DEF Paths!Reaches, Paths!ClosedFrom
<1> QED
  BY <1>1, <1>2 DEF Paths!Reaches

\* A target that is not among the visited, when all of them are expanded, is not
\* reached.
LEMMA ClosedMisses ==
    ASSUME PathsInv, search = "searching", \A v \in visited : Expanded(v)
    PROVE  ~Paths!Reaches(from, to)
<1> DEFINE S == visited \cap Paths!WalkableStates
<1>1. ASSUME NEW a \in S \cup {from}, NEW b \in Paths!WalkableStates, Paths!lifecycleEventFor(a, b)
      PROVE  b \in S
  <2>1. a \in visited
    BY DEF PathsInv
  <2>2. b \in Paths!AdvanceSteps(a)
    BY <1>1 DEF Paths!AdvanceSteps, Paths!WalkableStates
  <2> QED
    BY <2>1, <2>2 DEF Expanded
<1>2. Paths!ClosedFrom(from, S)
  BY <1>1 DEF Paths!ClosedFrom
<1>3. to \notin S
  BY DEF PathsInv
<1> QED
  BY <1>2, <1>3 DEF Paths!Reaches

LEMMA PathsInitInvariant == Paths!Init => PathsInv
<1> SUFFICES ASSUME Paths!Init PROVE PathsInv
  OBVIOUS
<1>0. /\ from \in Paths!WorkItemState /\ to \in Paths!WorkItemState /\ visited = {from}
  BY DEF Paths!Init
<1>1. CASE from = to \/ from \notin Paths!advanceableStates
  <2>1. queue = << >> /\ search = "undefined"
    BY <1>1 DEF Paths!Init
  <2>2. \A v : ~Waiting(v)
    BY <2>1 DEF Waiting
  <2>3. queue \in Seq(Paths!WorkItemState)
    BY <2>1
  <2> QED
    BY <1>0, <1>1, <2>1, <2>2, <2>3 DEF PathsInv
<1>2. CASE ~(from = to \/ from \notin Paths!advanceableStates)
  <2>1. queue = <<from>> /\ search = "searching" /\ visited = {from}
    BY <1>2 DEF Paths!Init
  <2>2. Waiting(from) /\ \A v : Waiting(v) => v = from
    BY <2>1 DEF Waiting
  <2> QED
    BY <1>0, <1>2, <2>1, <2>2 DEF PathsInv
<1> QED
  BY <1>1, <1>2

\* One round: the first in the queue is expanded, and what it discovers waits.
LEMMA ExpandInvariant == ASSUME PathsInv, Paths!Expand PROVE PathsInv'
<1> PICK current : current = Head(queue)
  OBVIOUS
<1> DEFINE found == Paths!AdvanceSteps(current) \ visited
<1>1. /\ search = "searching" /\ queue # << >> /\ visited' = visited \cup found
      /\ from' = from /\ to' = to
      /\ search' = IF to \in found THEN "rebuilding" ELSE search
  BY DEF Paths!Expand
<1>2. PICK order \in Paths!SetToSeqs(found) : queue' = Tail(queue) \o order
  BY DEF Paths!Expand
<1>3. found \subseteq Paths!WorkItemState /\ IsFiniteSet(found)
  <2>1. IsFiniteSet(Paths!WorkItemState)
    <3>1. IsFiniteSet({"Captured"} \cup {"Triaged"} \cup {"Planned"} \cup {"Awaiting Approval"}
             \cup {"Executing"} \cup {"Waiting/Blocked"} \cup {"Verifying"}
             \cup {"Ready for CEO Review"} \cup {"Completed"} \cup {"Changes Requested"}
             \cup {"Cancelled"})
      BY FS_Singleton, FS_Union
    <3> QED
      BY <3>1 DEF Paths!WorkItemState
  <2>2. found \subseteq Paths!WorkItemState
    BY DEF Paths!AdvanceSteps
  <2> QED
    BY <2>1, <2>2, FS_Subset
<1> HIDE DEF found
<1>4. order \in Seq(found) /\ \A v \in found : \E k \in 1 .. Len(order) : order[k] = v
  BY <1>2, <1>3, OrderOfSet
<1>5. current \in visited
  BY <1>1 DEF PathsInv, Waiting
<1>6. \A v \in found : v \in Paths!WalkableStates /\ Paths!Reaches(from, v)
  BY <1>5, StepReaches DEF PathsInv, found
<1>7. /\ queue' \in Seq(Paths!WorkItemState)
      /\ Len(queue) \in Nat \ {0} /\ Len(order) \in Nat /\ Len(queue') = Len(queue) - 1 + Len(order)
      /\ \A k \in 1 .. Len(queue) - 1 : queue'[k] = queue[k + 1]
      /\ \A k \in 1 .. Len(order) : queue'[Len(queue) - 1 + k] = order[k]
  <2>1. queue \in Seq(Paths!WorkItemState) /\ order \in Seq(Paths!WorkItemState) /\ queue # << >>
    BY <1>1, <1>3, <1>4 DEF PathsInv
  <2>2. Len(queue) \in Nat \ {0} /\ Len(order) \in Nat
    BY <2>1
  <2> QED
    BY <1>2, <2>1, <2>2, QueueMoves
<1>8. ASSUME NEW v, Waiting(v)' PROVE v \in visited'
  <2>1. PICK k \in 1 .. Len(queue') : queue'[k] = v
    BY <1>8 DEF Waiting
  <2>3. CASE k \in 1 .. Len(queue) - 1
    <3>3. queue'[k] = queue[k + 1]
      BY <1>7, <2>3
    <3>4. Len(queue) \in Nat
      BY <1>7
    <3>1. k + 1 \in 1 .. Len(queue) /\ queue[k + 1] = v
      BY <2>1, <2>3, <3>3, <3>4
    <3>2. v \in visited
      BY <3>1 DEF PathsInv, Waiting
    <3> QED
      BY <1>1, <3>2
  <2>4. CASE k \notin 1 .. Len(queue) - 1
    <3>1. k - (Len(queue) - 1) \in 1 .. Len(order) /\ order[k - (Len(queue) - 1)] = v
      BY <1>7, <2>1, <2>4
    <3> QED
      BY <1>1, <1>4, <3>1
  <2> QED
    BY <2>3, <2>4
<1>9. ASSUME NEW v \in visited PROVE v = current \/ Waiting(v)' \/ Expanded(v)' \/ search # "searching"
  <2>1. CASE Waiting(v) /\ v # current
    <3>1. PICK k \in 1 .. Len(queue) : queue[k] = v
      BY <2>1 DEF Waiting
    <3>2. k # 1
      BY <1>7, <2>1, <3>1 DEF PathsInv
    <3>3. k - 1 \in 1 .. Len(queue') /\ queue'[k - 1] = v
      BY <1>7, <3>1, <3>2
    <3> QED
      BY <3>3 DEF Waiting
  <2>2. CASE Expanded(v)
    BY <1>1, <2>2 DEF Expanded
  <2> QED
    BY <1>1, <2>1, <2>2 DEF PathsInv
<1>10. Expanded(current)'
  BY <1>1 DEF Expanded, found
<1>11. ASSUME NEW v \in found PROVE Waiting(v)'
  <2>1. PICK k \in 1 .. Len(order) : order[k] = v
    BY <1>4
  <2>2. Len(queue) - 1 + k \in 1 .. Len(queue') /\ queue'[Len(queue) - 1 + k] = v
    BY <1>7, <2>1
  <2> QED
    BY <2>2 DEF Waiting
<1>12. \A v \in visited' \ {from'} : v \in Paths!WalkableStates /\ Paths!Reaches(from', v)
  BY <1>1, <1>6 DEF PathsInv
<1>13. search' = "searching" =>
         to' \notin visited' /\ \A v \in visited' : Waiting(v)' \/ Expanded(v)'
  BY <1>1, <1>9, <1>10, <1>11 DEF PathsInv
<1>14. visited' \subseteq Paths!WorkItemState /\ from' \in visited'
  BY <1>1, <1>3 DEF PathsInv
<1>15. search' \in {"searching", "rebuilding"} /\ (search' = "rebuilding" => Paths!Reaches(from', to'))
  BY <1>1, <1>6
<1> QED
  BY <1>1, <1>7, <1>8, <1>12, <1>13, <1>14, <1>15 DEF PathsInv, Paths!Reaches, Paths!ClosedFrom

LEMMA PathsStepInvariant == ASSUME PathsInv, [Paths!Next]_pathVars PROVE PathsInv'
<1>1. CASE Paths!Expand
  BY <1>1, ExpandInvariant
<1>2. CASE Paths!Exhausted
  <2>1. \A v \in visited : Expanded(v)
    BY <1>2 DEF PathsInv, Paths!Exhausted, Waiting
  <2>2. ~Paths!Reaches(from, to)
    BY <1>2, <2>1, ClosedMisses DEF Paths!Exhausted
  <2> QED
    BY <1>2, <2>2 DEF PathsInv, Paths!Exhausted, Waiting, Expanded, Paths!Reaches, Paths!ClosedFrom
<1>3. CASE Paths!Unshift \/ Paths!Return
  BY <1>3 DEF PathsInv, Paths!Unshift, Paths!Return, Waiting, Expanded, Paths!Reaches, Paths!ClosedFrom
<1>4. CASE UNCHANGED pathVars
  BY <1>4 DEF pathVars, PathsInv, Waiting, Expanded, Paths!Reaches, Paths!ClosedFrom
<1> QED
  BY <1>1, <1>2, <1>3, <1>4 DEF Paths!Next

-----------------------------------------------------------------------------
Discovered == visited \ {from}

\* Where the search comes from: a row of the table, from a visited state.  What the
\* table leads to on two ways is discovered on the shorter one: Executing is found
\* before what follows it, so neither its own blocking nor an approval leads to it
\* unless the search started there, and Planned is found before the way back to it.
CameFromInv ==
    /\ cameFrom \in [Discovered -> visited]
    /\ \A s \in Discovered : s \in Paths!AdvanceSteps(cameFrom[s])
    /\ from \in {"Awaiting Approval", "Waiting/Blocked"} /\ Discovered # {} =>
         "Executing" \in visited
    /\ \A s \in Discovered \cap {"Awaiting Approval", "Verifying", "Waiting/Blocked"} :
         "Executing" \in visited
    /\ "Executing" \in Discovered =>
         cameFrom["Executing"] =
             IF from \in {"Awaiting Approval", "Waiting/Blocked"} THEN from ELSE "Planned"
    /\ "Planned" \in Discovered /\ from # "Awaiting Approval" =>
         cameFrom["Planned"] = IF from \in {"Captured", "Triaged"} THEN "Triaged" ELSE from

\* The path so far is a way through cameFrom that ends in the target, and starts
\* at the first state once it is returned.
RebuiltInv ==
    /\ path \in Seq(Discovered)
    /\ path # << >> => path[Len(path)] = to
    /\ \A k \in 2 .. Len(path) : cameFrom[path[k]] = path[k - 1]
    /\ search \in {"searching", "undefined"} => path = << >>
    /\ search \in {"rebuilding", "found"} => to \in Discovered
    /\ search = "found" => path # << >> /\ cameFrom[path[1]] = from

WayBackInv == PathsInv /\ (search # "undefined" => CameFromInv) /\ RebuiltInv

\* Into which states the rows of the table lead, and from where.
LEMMA RowsInto ==
    ASSUME NEW c
    PROVE  /\ "Captured" \notin Paths!AdvanceSteps(c)
           /\ "Triaged" \in Paths!AdvanceSteps(c) => c = "Captured"
           /\ "Planned" \in Paths!AdvanceSteps(c) =>
                c \in {"Triaged", "Waiting/Blocked", "Changes Requested"}
           /\ "Awaiting Approval" \in Paths!AdvanceSteps(c) => c = "Planned"
           /\ "Executing" \in Paths!AdvanceSteps(c) =>
                c \in {"Planned", "Awaiting Approval", "Waiting/Blocked"}
           /\ "Verifying" \in Paths!AdvanceSteps(c) => c = "Executing"
           /\ "Waiting/Blocked" \in Paths!AdvanceSteps(c) => c \in {"Executing", "Verifying"}
           /\ "Changes Requested" \in Paths!AdvanceSteps(c) => c = "Ready for CEO Review"
<1>1. ASSUME NEW b, b \in Paths!AdvanceSteps(c) PROVE <<c, b>> \in Paths!lifecycleTransitions
  BY <1>1 DEF Paths!AdvanceSteps, Paths!lifecycleEventFor
<1>2. <<c, "Captured">> \notin Paths!lifecycleTransitions
  BY DEF Paths!lifecycleTransitions
<1>3. <<c, "Triaged">> \in Paths!lifecycleTransitions => c = "Captured"
  BY DEF Paths!lifecycleTransitions
<1>4. <<c, "Planned">> \in Paths!lifecycleTransitions =>
        c \in {"Triaged", "Waiting/Blocked", "Changes Requested"}
  BY DEF Paths!lifecycleTransitions
<1>5. <<c, "Awaiting Approval">> \in Paths!lifecycleTransitions => c = "Planned"
  BY DEF Paths!lifecycleTransitions
<1>6. <<c, "Executing">> \in Paths!lifecycleTransitions =>
        c \in {"Planned", "Awaiting Approval", "Waiting/Blocked"}
  BY DEF Paths!lifecycleTransitions
<1>7. <<c, "Verifying">> \in Paths!lifecycleTransitions => c = "Executing"
  BY DEF Paths!lifecycleTransitions
<1>8. <<c, "Waiting/Blocked">> \in Paths!lifecycleTransitions => c \in {"Executing", "Verifying"}
  BY DEF Paths!lifecycleTransitions
<1>9. <<c, "Changes Requested">> \in Paths!lifecycleTransitions => c = "Ready for CEO Review"
  BY DEF Paths!lifecycleTransitions
<1> QED
  BY Zenon, <1>1, <1>2, <1>3, <1>4, <1>5, <1>6, <1>7, <1>8, <1>9

\* What every search that may start discovers at once.
LEMMA RowsToExecuting ==
    /\ "Executing" \in Paths!AdvanceSteps("Planned")
    /\ "Executing" \in Paths!AdvanceSteps("Awaiting Approval")
    /\ "Executing" \in Paths!AdvanceSteps("Waiting/Blocked")
<1>1. /\ <<"Planned", "Executing">> \in Paths!lifecycleTransitions
      /\ <<"Awaiting Approval", "Executing">> \in Paths!lifecycleTransitions
      /\ <<"Waiting/Blocked", "Executing">> \in Paths!lifecycleTransitions
  BY Zenon DEF Paths!lifecycleTransitions
<1>2. "Executing" \in Paths!WorkItemState \ {"Ready for CEO Review"}
  BY DEF Paths!WorkItemState
<1> QED
  BY <1>1, <1>2 DEF Paths!AdvanceSteps, Paths!lifecycleEventFor

\* A search starts at a state that may advance, and discovers neither the first
\* state of the table nor one that follows the review.
LEMMA WhatIsDiscovered ==
    ASSUME PathsInv, search # "undefined", CameFromInv
    PROVE  /\ from \notin {"Executing", "Verifying", "Ready for CEO Review"}
           /\ "Ready for CEO Review" \notin visited
           /\ "Captured" \notin Discovered /\ "Changes Requested" \notin Discovered
           /\ "Triaged" \in Discovered => from = "Captured"
           /\ "Planned" \in Discovered => from # "Planned"
<1>1. from \in Paths!advanceableStates
  BY DEF PathsInv
<1>2. from \notin {"Executing", "Verifying", "Ready for CEO Review"}
  BY <1>1 DEF Paths!advanceableStates
<1>3. "Ready for CEO Review" \notin visited
  BY <1>2 DEF PathsInv, Paths!WalkableStates
<1>4. ASSUME NEW s \in Discovered PROVE s \in Paths!AdvanceSteps(cameFrom[s]) /\ cameFrom[s] \in visited
  BY DEF CameFromInv
<1>5. "Captured" \notin Discovered
  BY Zenon, <1>4, RowsInto
<1>6. "Changes Requested" \notin Discovered
  BY Zenon, <1>3, <1>4, RowsInto
<1>7. "Triaged" \in Discovered => "Captured" \in visited
  BY Zenon, <1>4, RowsInto
<1>8. "Triaged" \in Discovered => from = "Captured"
  BY Zenon, <1>5, <1>7 DEF Discovered
<1>9. "Planned" \in Discovered => from # "Planned"
  BY DEF Discovered
<1> QED
  BY <1>2, <1>3, <1>5, <1>6, <1>8, <1>9

\* One round keeps what is known of cameFrom.
LEMMA ExpandCameFrom ==
    ASSUME PathsInv, search = "searching", CameFromInv, Paths!Expand
    PROVE  CameFromInv'
<1> PICK current : current = Head(queue)
  OBVIOUS
<1> PICK found : found = Paths!AdvanceSteps(current) \ visited
  OBVIOUS
<1>1. /\ queue # << >> /\ visited' = visited \cup found /\ from' = from
      /\ cameFrom' = [s \in DOMAIN cameFrom \cup found |->
                        IF s \in found THEN current ELSE cameFrom[s]]
  BY DEF Paths!Expand
<1>2. current \in visited /\ from \in visited
  BY <1>1 DEF PathsInv, Waiting
<1>3. Discovered' = Discovered \cup found /\ from \notin found
  BY <1>1, <1>2 DEF Discovered
<1>4. /\ cameFrom' \in [Discovered' -> visited']
      /\ \A s \in Discovered : s \notin found /\ cameFrom'[s] = cameFrom[s]
      /\ \A s \in found : cameFrom'[s] = current
  BY <1>1, <1>2, <1>3 DEF CameFromInv, Discovered
<1>5. \A s \in Discovered' : s \in Paths!AdvanceSteps(cameFrom'[s])
  BY <1>3, <1>4 DEF CameFromInv
<1>6. /\ from \notin {"Executing", "Verifying", "Ready for CEO Review"}
      /\ "Ready for CEO Review" \notin visited
      /\ "Captured" \notin Discovered /\ "Changes Requested" \notin Discovered
      /\ "Triaged" \in Discovered => from = "Captured"
  BY WhatIsDiscovered
<1>7. \A s \in found : s \in Paths!AdvanceSteps(current) /\ s \notin visited
  OBVIOUS
<1>8. current # from => current \in Discovered
  BY <1>2 DEF Discovered
<1>9. \A s \in Paths!AdvanceSteps(current) : s \in visited'
  BY <1>1
<1>10. /\ from \in {"Awaiting Approval", "Waiting/Blocked"} /\ Discovered # {} =>
            "Executing" \in visited
       /\ \A s \in Discovered \cap {"Awaiting Approval", "Verifying", "Waiting/Blocked"} :
            "Executing" \in visited
       /\ "Executing" \in Discovered =>
            cameFrom["Executing"] =
                IF from \in {"Awaiting Approval", "Waiting/Blocked"} THEN from ELSE "Planned"
       /\ "Planned" \in Discovered /\ from # "Awaiting Approval" =>
            cameFrom["Planned"] = IF from \in {"Captured", "Triaged"} THEN "Triaged" ELSE from
  BY DEF CameFromInv
<1>11. "Executing" \in visited => "Executing" \in visited'
  BY <1>1
<1>12. from \in {"Awaiting Approval", "Waiting/Blocked"} => "Executing" \in visited'
  <2>1. from \in {"Awaiting Approval", "Waiting/Blocked"} =>
          current = from \/ "Executing" \in visited
    BY Zenon, <1>8, <1>10
  <2> QED
    BY Zenon, <2>1, <1>9, <1>11, RowsToExecuting
<1>13. ASSUME NEW s \in Discovered' \cap {"Awaiting Approval", "Verifying", "Waiting/Blocked"}
       PROVE  "Executing" \in visited'
  <2>1. CASE s \in Discovered
    BY Zenon, <2>1, <1>10, <1>11, <1>13
  <2>2. CASE s \in found
    <3>1. s \in Paths!AdvanceSteps(current)
      BY <1>7, <2>2
    <3>2. CASE s = "Awaiting Approval"
      <4>1. current = "Planned"
        BY Zenon, <3>1, <3>2, RowsInto
      <4> QED
        BY Zenon, <4>1, <1>9, RowsToExecuting
    <3>3. CASE s \in {"Verifying", "Waiting/Blocked"}
      <4>1. current \in {"Executing", "Verifying"}
        BY Zenon, <3>1, <3>3, RowsInto
      <4>2. current = "Verifying" => "Executing" \in visited
        BY Zenon, <1>6, <1>8, <1>10
      <4> QED
        BY Zenon, <4>1, <4>2, <1>2, <1>11
    <3> QED
      BY <1>13, <3>2, <3>3
  <2> QED
    BY <1>3, <1>13, <2>1, <2>2
<1>14. ASSUME "Executing" \in Discovered'
       PROVE  cameFrom'["Executing"] =
                IF from \in {"Awaiting Approval", "Waiting/Blocked"} THEN from ELSE "Planned"
  <2>1. CASE "Executing" \in Discovered
    BY Zenon, <1>4, <1>10, <2>1
  <2>2. CASE "Executing" \in found
    <3>1. "Executing" \in Paths!AdvanceSteps(current) /\ "Executing" \notin visited
      BY Zenon, <1>7, <2>2
    <3>2. current \in {"Planned", "Awaiting Approval", "Waiting/Blocked"}
      BY Zenon, <3>1, RowsInto
    <3>3. current \in {"Awaiting Approval", "Waiting/Blocked"} => current = from
      BY Zenon, <1>8, <1>10, <3>1
    <3>4. from \in {"Awaiting Approval", "Waiting/Blocked"} => current = from
      BY Zenon, <1>8, <1>10, <3>1
    <3>5. cameFrom'["Executing"] = current
      BY Zenon, <1>4, <2>2
    <3> QED
      BY Zenon, <3>2, <3>3, <3>4, <3>5
  <2> QED
    BY <1>3, <1>14, <2>1, <2>2
<1>15. ASSUME "Planned" \in Discovered', from # "Awaiting Approval"
       PROVE  cameFrom'["Planned"] = IF from \in {"Captured", "Triaged"} THEN "Triaged" ELSE from
  <2>1. CASE "Planned" \in Discovered
    BY Zenon, <1>4, <1>10, <1>15, <2>1
  <2>2. CASE "Planned" \in found
    <3>1. "Planned" \in Paths!AdvanceSteps(current) /\ "Planned" \notin visited
      BY Zenon, <1>7, <2>2
    <3>2. current \in {"Triaged", "Waiting/Blocked", "Changes Requested"}
      BY Zenon, <3>1, RowsInto
    <3>3. current = "Changes Requested" => current = from
      BY Zenon, <1>6, <1>8
    <3>4. current = "Triaged" => from \in {"Captured", "Triaged"}
      BY Zenon, <1>6, <1>8
    <3>5. current = "Waiting/Blocked" => current = from
      <4> SUFFICES ASSUME current = "Waiting/Blocked", current # from PROVE FALSE
        OBVIOUS
      <4>1. "Executing" \in visited
        BY Zenon, <1>8, <1>10
      <4>2. "Executing" \in Discovered
        BY Zenon, <1>6, <4>1 DEF Discovered
      <4>3. cameFrom["Executing"] \in visited
        BY Zenon, <4>2 DEF CameFromInv
      <4>4. from = "Waiting/Blocked"
        BY Zenon, <1>10, <1>15, <3>1, <4>2, <4>3
      <4> QED
        BY Zenon, <4>4
    <3>6. cameFrom'["Planned"] = current
      BY Zenon, <1>4, <2>2
    <3> QED
      BY Zenon, <3>2, <3>3, <3>4, <3>5, <3>6
  <2> QED
    BY <1>3, <1>15, <2>1, <2>2
<1> QED
  BY <1>1, <1>4, <1>5, <1>12, <1>13, <1>14, <1>15 DEF CameFromInv

LEMMA WayBackInit == Paths!Init => WayBackInv
<1> SUFFICES ASSUME Paths!Init PROVE WayBackInv
  OBVIOUS
<1>1. Discovered = {} /\ visited = {from} /\ path = << >> /\ cameFrom = [s \in {} |-> from]
  BY DEF Paths!Init, Discovered
<1>2. search \in {"searching", "undefined"}
  BY DEF Paths!Init
<1>3. CameFromInv
  <2>1. cameFrom \in [Discovered -> visited]
    BY <1>1
  <2> QED
    BY Zenon, <1>1, <2>1 DEF CameFromInv
<1>4. RebuiltInv
  <2>1. path \in Seq(Discovered) /\ Len(path) = 0
    BY <1>1
  <2> QED
    BY <1>1, <1>2, <2>1 DEF RebuiltInv
<1> QED
  BY <1>3, <1>4, PathsInitInvariant DEF WayBackInv

\* The loop puts one state before the others: where the first was discovered from.
LEMMA UnshiftWayBack ==
    ASSUME WayBackInv, Paths!Unshift
    PROVE  WayBackInv'
<1>1. /\ search = "rebuilding" /\ from' = from /\ to' = to /\ queue' = queue
      /\ visited' = visited /\ cameFrom' = cameFrom /\ search' = search
  BY DEF Paths!Unshift
<1>2. PICK step \in Paths!PathStep \ {from} : path' = <<step>> \o path
  BY DEF Paths!Unshift
<1>3. PathsInv'
  BY PathsStepInvariant DEF WayBackInv, Paths!Next
<1>4. CameFromInv /\ Discovered' = Discovered
  BY <1>1 DEF WayBackInv, Discovered
<1>5. CameFromInv'
  BY Zenon, <1>1, <1>4 DEF CameFromInv
<1>6. path \in Seq(Discovered) /\ to \in Discovered
  BY <1>1 DEF WayBackInv, RebuiltInv
<1>7. CASE path = << >>
  <2>1. step = to /\ path' = <<to>>
    BY <1>2, <1>7 DEF Paths!PathStep
  <2>2. path' \in Seq(Discovered) /\ Len(path') = 1 /\ path'[1] = to
    BY <1>6, <2>1
  <2>3. RebuiltInv'
    BY <1>1, <1>4, <1>6, <2>2 DEF RebuiltInv
  <2> QED
    BY <1>1, <1>3, <1>5, <2>3 DEF WayBackInv
<1>8. CASE path # << >>
  <2>1. Len(path) \in Nat \ {0} /\ Head(path) = path[1] /\ path[1] \in Discovered
    BY <1>6, <1>8
  <2>2. step = cameFrom[path[1]] /\ step # from
    BY <1>2, <1>8, <2>1 DEF Paths!PathStep
  <2>3. step \in Discovered
    BY <1>4, <2>1, <2>2 DEF CameFromInv, Discovered
  <2>4. /\ path' \in Seq(Discovered) /\ Len(path') = Len(path) + 1 /\ path'[1] = step
        /\ \A k \in 2 .. Len(path) + 1 : path'[k] = path[k - 1]
    BY <1>2, <1>6, <2>1, <2>3
  <2>5. path[Len(path)] = to /\ \A k \in 2 .. Len(path) : cameFrom[path[k]] = path[k - 1]
    BY <1>8 DEF WayBackInv, RebuiltInv
  <2>6. path'[Len(path')] = to
    BY <2>1, <2>4, <2>5
  <2>7. ASSUME NEW k \in 2 .. Len(path') PROVE cameFrom[path'[k]] = path'[k - 1]
    <3>1. CASE k = 2
      <4>1. path'[2] = path[1]
        BY <2>1, <2>4
      <4> QED
        BY <2>2, <2>4, <3>1, <4>1
    <3>2. CASE k # 2
      <4>1. k - 1 \in 2 .. Len(path) /\ k \in 2 .. Len(path) + 1
        BY <2>1, <2>4, <2>7, <3>2
      <4>2. path'[k] = path[k - 1] /\ path'[k - 1] = path[(k - 1) - 1]
        BY <2>1, <2>4, <4>1
      <4>3. cameFrom[path[k - 1]] = path[(k - 1) - 1]
        BY <2>5, <4>1
      <4> QED
        BY <4>2, <4>3
    <3> QED
      BY <3>1, <3>2
  <2>8. path' # << >>
    BY <2>1, <2>4
  <2>9. RebuiltInv'
    BY <1>1, <1>4, <1>6, <2>4, <2>6, <2>7, <2>8 DEF RebuiltInv
  <2> QED
    BY <1>1, <1>3, <1>5, <2>9 DEF WayBackInv
<1> QED
  BY <1>7, <1>8

LEMMA WayBackStep == ASSUME WayBackInv, [Paths!Next]_pathVars PROVE WayBackInv'
<1>1. PathsInv'
  BY PathsStepInvariant DEF WayBackInv
<1>2. CASE Paths!Expand
  <2>1. search = "searching" /\ path' = path
    BY <1>2 DEF Paths!Expand
  <2>2. CameFromInv'
    BY Zenon, <1>2, <2>1, ExpandCameFrom DEF WayBackInv
  <2>3. path' = << >> /\ path' \in Seq(Discovered') /\ Len(path') = 0
    BY <2>1 DEF WayBackInv, RebuiltInv
  <2>4. search' \in {"searching", "rebuilding"} /\ (search' = "rebuilding" => to' \in visited')
    BY <1>2, <2>1 DEF Paths!Expand
  <2>5. to' # from'
    BY <1>2, <2>1 DEF WayBackInv, PathsInv, Paths!Expand
  <2>6. RebuiltInv'
    BY <2>3, <2>4, <2>5 DEF RebuiltInv, Discovered
  <2> QED
    BY <1>1, <2>2, <2>6 DEF WayBackInv
<1>3. CASE Paths!Unshift
  BY <1>3, UnshiftWayBack
<1>4. CASE Paths!Return
  <2>1. /\ search = "rebuilding" /\ search' = "found" /\ from' = from /\ to' = to
        /\ visited' = visited /\ cameFrom' = cameFrom /\ path' = path /\ Discovered' = Discovered
    BY <1>4 DEF Paths!Return, Discovered
  <2>2. CameFromInv'
    BY Zenon, <2>1 DEF WayBackInv, CameFromInv
  <2>3. to \in Discovered /\ to # from /\ path \in Seq(Discovered) /\ cameFrom \in [Discovered -> visited]
    BY <2>1 DEF WayBackInv, RebuiltInv, CameFromInv, Discovered
  <2>4. path # << >>
    BY <1>4, <2>3 DEF Paths!Return, Paths!PathStep
  <2>5. Head(path) = path[1] /\ path[1] \in Discovered
    BY <2>3, <2>4
  <2>6. cameFrom[path[1]] = from
    BY <1>4, <2>3, <2>4, <2>5 DEF Paths!Return, Paths!PathStep
  <2>7. RebuiltInv'
    BY <2>1, <2>3, <2>4, <2>6 DEF WayBackInv, RebuiltInv
  <2> QED
    BY <1>1, <2>2, <2>7 DEF WayBackInv
<1>5. CASE Paths!Exhausted
  <2>1. search' = "undefined" /\ path' = path /\ path = << >>
    BY <1>5 DEF Paths!Exhausted, WayBackInv, RebuiltInv
  <2>2. path' \in Seq(Discovered') /\ Len(path') = 0
    BY <2>1
  <2>3. RebuiltInv'
    BY <2>1, <2>2 DEF RebuiltInv
  <2> QED
    BY <1>1, <2>1, <2>3 DEF WayBackInv
<1>6. CASE UNCHANGED pathVars
  BY <1>1, <1>6 DEF pathVars, WayBackInv, CameFromInv, RebuiltInv, Discovered
<1> QED
  BY <1>2, <1>3, <1>4, <1>5, <1>6 DEF Paths!Next

\* A way from o through members of S to a, every one of them discovered from the
\* one before it.
IsWayBack(S, o, f, p, a) ==
    /\ o \notin S /\ p \in Seq(S) /\ p # << >>
    /\ f[p[1]] = o /\ \A k \in 2 .. Len(p) : f[p[k]] = p[k - 1]
    /\ p[Len(p)] = a

\* Such a way leaves o once.
LEMMA LeavesOnce ==
    ASSUME NEW S, NEW o, NEW f, NEW p, NEW a, IsWayBack(S, o, f, p, a)
    PROVE  /\ Len(p) \in Nat /\ Len(p) # 0 /\ p = [k \in 1 .. Len(p) |-> p[k]]
           /\ \A k \in 1 .. Len(p) : f[p[k]] = o <=> k = 1
<1>1. /\ Len(p) \in Nat \ {0} /\ p = [k \in 1 .. Len(p) |-> p[k]]
      /\ \A k \in 1 .. Len(p) : p[k] \in S
  BY DEF IsWayBack
<1>2. ASSUME NEW k \in 1 .. Len(p) PROVE f[p[k]] = o <=> k = 1
  <2>1. CASE k = 1
    BY <2>1 DEF IsWayBack
  <2>2. CASE k # 1
    <3>1. k \in 2 .. Len(p) /\ k - 1 \in 1 .. Len(p)
      BY <1>1, <2>2
    <3>2. f[p[k]] = p[k - 1] /\ p[k - 1] \in S
      BY <1>1, <3>1 DEF IsWayBack
    <3> QED
      BY <2>2, <3>2 DEF IsWayBack
  <2> QED
    BY <2>1, <2>2
<1> QED
  BY <1>1, <1>2

\* A sequence of one or of three is the tuple of its members.
LEMMA SeqOfOne ==
    ASSUME NEW S, NEW p \in Seq(S), NEW a, Len(p) = 1, p[1] = a
    PROVE  p = <<a>>
  OBVIOUS

LEMMA SeqOfThree ==
    ASSUME NEW S, NEW p \in Seq(S), NEW a, NEW b, NEW c,
           Len(p) = 3, p[1] = a, p[2] = b, p[3] = c
    PROVE  p = <<a, b, c>>
  OBVIOUS

\* A way back of one, of two or of three steps is the only one there is.
LEMMA OneStepBack ==
    ASSUME NEW S, NEW o, NEW f, NEW p, NEW a, IsWayBack(S, o, f, p, a), f[a] = o
    PROVE  p = <<a>>
<1>0. Len(p) \in Nat /\ Len(p) # 0 /\ p[Len(p)] = a
  BY LeavesOnce DEF IsWayBack
<1>1. \A k \in 1 .. Len(p) : f[p[k]] = o <=> k = 1
  BY LeavesOnce
<1>2. Len(p) = 1
  <2>1. Len(p) \in 1 .. Len(p)
    BY <1>0
  <2> QED
    BY <1>0, <1>1, <2>1
<1>3. p \in Seq(S) /\ p[1] = a
  BY <1>0, <1>2 DEF IsWayBack
<1> QED
  BY Zenon, <1>2, <1>3, SeqOfOne

LEMMA TwoStepsBack ==
    ASSUME NEW S, NEW o, NEW f, NEW p, NEW a, IsWayBack(S, o, f, p, a),
           f[a] # o, f[f[a]] = o
    PROVE  p = <<f[a], a>>
<1>0. Len(p) \in Nat /\ Len(p) # 0 /\ p[Len(p)] = a
  BY LeavesOnce DEF IsWayBack
<1>1. \A k \in 1 .. Len(p) : f[p[k]] = o <=> k = 1
  BY LeavesOnce
<1>2. Len(p) \in 2 .. Len(p) /\ Len(p) - 1 \in 1 .. Len(p)
  BY <1>0, <1>1
<1>3. p[Len(p) - 1] = f[a]
  BY <1>0, <1>2 DEF IsWayBack
<1>4. Len(p) - 1 = 1
  BY <1>1, <1>2, <1>3
<1>5. Len(p) = 2
  BY <1>0, <1>4
<1>6. p = [k \in 1 .. Len(p) |-> p[k]]
  BY LeavesOnce
<1> QED
  BY <1>0, <1>3, <1>5, <1>6

LEMMA ThreeStepsBack ==
    ASSUME NEW S, NEW o, NEW f, NEW p, NEW a, IsWayBack(S, o, f, p, a),
           f[a] # o, f[f[a]] # o, f[f[f[a]]] = o
    PROVE  p = <<f[f[a]], f[a], a>>
<1>0. Len(p) \in Nat /\ Len(p) # 0 /\ p[Len(p)] = a
  BY LeavesOnce DEF IsWayBack
<1>1. \A k \in 1 .. Len(p) : f[p[k]] = o <=> k = 1
  BY LeavesOnce
<1>2. Len(p) \in 2 .. Len(p) /\ Len(p) - 1 \in 1 .. Len(p)
  BY <1>0, <1>1
<1>3. p[Len(p) - 1] = f[a]
  BY <1>0, <1>2 DEF IsWayBack
<1>4. Len(p) - 1 # 1
  BY <1>1, <1>2, <1>3
<1>5. Len(p) - 1 \in 2 .. Len(p) /\ Len(p) - 2 \in 1 .. Len(p) /\ (Len(p) - 1) - 1 = Len(p) - 2
  <2>1. \A n \in Nat : n \in 2 .. n /\ n - 1 # 1 =>
          n - 1 \in 2 .. n /\ n - 2 \in 1 .. n /\ (n - 1) - 1 = n - 2
    OBVIOUS
  <2> QED
    BY Zenon, <1>0, <1>2, <1>4, <2>1
<1>6. p[Len(p) - 2] = f[f[a]]
  BY <1>3, <1>5 DEF IsWayBack
<1>7. Len(p) - 2 = 1
  BY <1>1, <1>5, <1>6
<1>8. Len(p) = 3
  BY <1>0, <1>7
<1>9. p[1] = f[f[a]] /\ p[2] = f[a] /\ p[3] = a
  BY <1>0, <1>3, <1>6, <1>8
<1>10. p \in Seq(S)
  BY DEF IsWayBack
<1> QED
  BY <1>8, <1>9, <1>10, SeqOfThree

\* The paths to the targets of the gateway are the ones of the closed form.
LEMMA FoundIsClosedForm ==
    ASSUME WayBackInv, search = "found", to \in Paths!advanceTargets
    PROVE  path = Paths!lifecyclePathTo(from, to)
<1>1. /\ path \in Seq(Discovered) /\ path # << >> /\ cameFrom[path[1]] = from
      /\ \A k \in 2 .. Len(path) : cameFrom[path[k]] = path[k - 1]
      /\ path[Len(path)] = to /\ to \in Discovered /\ from \notin Discovered
  BY DEF WayBackInv, RebuiltInv, Discovered
<1>2. IsWayBack(Discovered, from, cameFrom, path, to)
  BY <1>1 DEF IsWayBack
<1>3. PathsInv /\ CameFromInv
  BY DEF WayBackInv
<1>4. from \in Paths!advanceableStates /\ from # to
  BY <1>3 DEF PathsInv
<1>5. ASSUME NEW s \in Discovered
      PROVE  /\ s \in Paths!AdvanceSteps(cameFrom[s]) /\ cameFrom[s] \in visited
             /\ cameFrom[s] # from => cameFrom[s] \in Discovered
  BY <1>3 DEF CameFromInv, Discovered
<1>6. to = "Executing" =>
        cameFrom[to] = IF from \in {"Awaiting Approval", "Waiting/Blocked"} THEN from ELSE "Planned"
  BY Zenon, <1>1, <1>3 DEF CameFromInv
<1>7. to = "Awaiting Approval" => cameFrom[to] = "Planned"
  BY Zenon, <1>1, <1>5, RowsInto
<1>8. "Planned" \in Discovered /\ from # "Awaiting Approval" =>
        cameFrom["Planned"] = IF from \in {"Captured", "Triaged"} THEN "Triaged" ELSE from
  BY Zenon, <1>3 DEF CameFromInv
<1>9. "Triaged" \in Discovered => cameFrom["Triaged"] = "Captured"
  BY Zenon, <1>5, RowsInto
<1>10. to \in {"Executing", "Awaiting Approval"}
  BY Zenon DEF Paths!advanceTargets
<1>11. CASE cameFrom[to] = from
  <2>1. path = <<to>>
    BY Zenon, <1>2, <1>11, OneStepBack
  <2>2. to = "Executing" => from \in {"Planned", "Awaiting Approval", "Waiting/Blocked"}
    BY <1>6, <1>11
  <2>3. to = "Awaiting Approval" => from = "Planned"
    BY <1>7, <1>11
  <2> QED
    BY <1>4, <1>10, <2>1, <2>2, <2>3 DEF Paths!lifecyclePathTo
<1>12. CASE cameFrom[to] # from
  <2>1. cameFrom[to] = "Planned"
    BY Zenon, <1>6, <1>7, <1>10, <1>12
  <2>2. "Planned" \in Discovered /\ from # "Planned"
    BY Zenon, <1>1, <1>5, <1>12, <2>1
  <2>3. from # "Awaiting Approval"
    BY Zenon, <1>4, <1>6, <1>10, <1>12
  <2>4. ~(from = "Waiting/Blocked" /\ to = "Executing")
    BY Zenon, <1>6, <1>12
  <2>5. CASE cameFrom["Planned"] = from
    <3>1. path = <<"Planned", to>>
      <4>1. path = <<cameFrom[to], to>>
        BY <1>2, <1>12, <2>1, <2>5, TwoStepsBack
      <4> QED
        BY Zenon, <2>1, <4>1
    <3>2. from \in {"Triaged", "Waiting/Blocked", "Changes Requested"}
      BY Zenon, <1>5, <2>2, <2>5, RowsInto
    <3> QED
      BY <1>4, <1>10, <2>4, <3>1, <3>2 DEF Paths!lifecyclePathTo
  <2>6. CASE cameFrom["Planned"] # from
    <3>1. from \in {"Captured", "Triaged"} /\ cameFrom["Planned"] = "Triaged" /\ from # "Triaged"
      BY Zenon, <1>8, <2>2, <2>3, <2>6
    <3>2. from = "Captured" /\ "Triaged" \in Discovered
      BY Zenon, <1>5, <2>2, <3>1
    <3>3. cameFrom["Triaged"] = from
      BY Zenon, <1>9, <3>2
    <3>4. path = <<"Triaged", "Planned", to>>
      <4>1. cameFrom[cameFrom[to]] = "Triaged" /\ cameFrom[cameFrom[cameFrom[to]]] = from
        BY Zenon, <2>1, <3>1, <3>3
      <4>2. path = <<cameFrom[cameFrom[to]], cameFrom[to], to>>
        BY <1>2, <1>12, <3>1, <4>1, ThreeStepsBack
      <4> QED
        BY Zenon, <2>1, <4>1, <4>2
    <3> QED
      BY <1>4, <3>2, <3>4 DEF Paths!lifecyclePathTo
  <2> QED
    BY <2>5, <2>6
<1> QED
  BY <1>11, <1>12

(***************************************************************************)
(* The components side by side                                             *)
(***************************************************************************)

\* A step of the program is a step of each component, or leaves it alone.
LEMMA StepOfEach ==
    ASSUME [DailyNext]_dailyVars
    PROVE  /\ [Runs!RunsNext]_runVars /\ [Tasks!TasksNext]_tasksVars
           /\ [Paths!Next]_pathVars /\ [Tickets!GraphNext]_graphVars
<1>1. CASE WorkerStep \/ VaultStep
  BY <1>1 DEF WorkerStep, VaultStep
<1>6. CASE PathsStep
  BY <1>6 DEF PathsStep
<1>2. CASE RunsStep
  BY <1>2 DEF RunsStep
<1>3. CASE TasksStep
  BY <1>3 DEF TasksStep
<1>4. CASE TicketsStep
  BY <1>4 DEF TicketsStep
<1>5. CASE UNCHANGED dailyVars
  BY <1>5 DEF dailyVars
<1> QED
  BY <1>1, <1>2, <1>3, <1>4, <1>5, <1>6 DEF DailyNext

\* The invariant of the scheduler and of the native report tool.
THEOREM RunsInvariant == DailySpec => []RunsInv
<1>1. Runs!ScheduledRunsAssumption
  BY DailyOperationsAssumption
<1>2. DailyInit => RunsInv
  BY <1>1, RunsInitInvariant DEF DailyInit
<1>3. RunsInv /\ [DailyNext]_dailyVars => RunsInv'
  BY <1>1, StepOfEach, RunsStepTypes, StepFence DEF RunsInv
<1> QED
  BY <1>2, <1>3, PTL DEF DailySpec

\* Rows, ticks and calls have their types: what a tick or a call claimed is the
\* occurrence of a day.
THEOREM RunsTypeCorrect == DailySpec => []RunsTypeOK
<1>1. RunsInv => RunsTypeOK
  BY DEF RunsInv
<1> QED
  BY <1>1, RunsInvariant, PTL

\* runWithTimeout: a runner that timed out cannot meet the next attempt: at most
\* one runner of the job is at work, whatever times out, throws, ages or dies.
THEOREM RunnerIsAloneHolds == DailySpec => []RunnerIsAlone
<1>1. RunsInv => RunnerIsAlone
  BY DEF RunsInv, RunsTypeOK, FenceCountsRunners, RunnerIsAlone, Runs!RunnerIsAlone
<1> QED
  BY <1>1, RunsInvariant, PTL

\* The invariant of the projection.
THEOREM TasksInvariant == DailySpec => []TasksInv
<1>1. Tasks!MasterTasksAssumption
  BY DailyOperationsAssumption
<1>2. DailyInit => TasksInv
  BY <1>1, TasksInitInvariant DEF DailyInit
<1>3. TasksInv /\ [DailyNext]_dailyVars => TasksInv'
  <2> SUFFICES ASSUME TasksInv, [DailyNext]_dailyVars PROVE TasksInv'
    OBVIOUS
  <2>1. TasksTypeOK'
    BY <1>1, StepOfEach, TasksStepTypes DEF TasksInv
  <2> QED
    BY <1>1, <2>1, StepOfEach, StepKnowledge DEF TasksInv
<1> QED
  BY <1>2, <1>3, PTL DEF DailySpec

\* upsertMasterTask refuses an unverifiable overwrite: what it overwrites was
\* edited, if at all, after its own query or in the minute of the write before it.
THEOREM LaterEditsAreSeenHolds == DailySpec => LaterEditsAreSeen
<1>1. TasksInv =>
        [\A s \in Sync : Tasks!Overwrites(s) =>
           page.edited = 0 \/ page.edited > sync[s].seen \/ page.version = page.wrote
        ]_(Tasks!tasksVars)
  BY DEF TasksInv, OverwritesAreVerified, Tasks!Overwrites
<1> QED
  BY <1>1, TasksInvariant, PTL DEF LaterEditsAreSeen, Tasks!LaterEditsAreSeen

\* The invariant of the search.
THEOREM PathsInvariant == DailySpec => []PathsInv
<1>1. DailyInit => PathsInv
  BY PathsInitInvariant DEF DailyInit
<1>2. PathsInv /\ [DailyNext]_dailyVars => PathsInv'
  BY StepOfEach, PathsStepInvariant
<1> QED
  BY <1>1, <1>2, PTL DEF DailySpec

\* lifecyclePathTo: the search answers undefined for what an advance cannot reach,
\* and for nothing else, in whatever order it takes the rows of the table.
THEOREM UndefinedMeansUnreachableHolds == DailySpec => []UndefinedMeansUnreachable
<1>1. PathsInv => UndefinedMeansUnreachable
  BY DEF PathsInv, UndefinedMeansUnreachable, Paths!UndefinedMeansUnreachable, Paths!Done
<1> QED
  BY <1>1, PathsInvariant, PTL

\* From where an advance may start, the table leads to both of its targets.
LEMMA TargetsAreReached ==
    ASSUME PathsInv, from \in Paths!advanceableStates, to \in Paths!advanceTargets, from # to
    PROVE  Paths!Reaches(from, to)
<1> DEFINE Reached(v) == v = from \/ Paths!Reaches(from, v)
<1>1. ASSUME NEW a, NEW b \in Paths!WorkItemState \ {"Ready for CEO Review"}, Reached(a),
             <<a, b>> \in Paths!lifecycleTransitions
      PROVE  Reached(b)
  <2>1. b \in Paths!AdvanceSteps(a)
    BY <1>1 DEF Paths!AdvanceSteps, Paths!lifecycleEventFor
  <2> QED
    BY <1>1, <2>1, StepReaches
<1>2. /\ <<"Captured", "Triaged">> \in Paths!lifecycleTransitions
      /\ <<"Triaged", "Planned">> \in Paths!lifecycleTransitions
      /\ <<"Changes Requested", "Planned">> \in Paths!lifecycleTransitions
      /\ <<"Waiting/Blocked", "Planned">> \in Paths!lifecycleTransitions
      /\ <<"Planned", "Awaiting Approval">> \in Paths!lifecycleTransitions
      /\ <<"Planned", "Executing">> \in Paths!lifecycleTransitions
      /\ <<"Awaiting Approval", "Executing">> \in Paths!lifecycleTransitions
  BY Zenon DEF Paths!lifecycleTransitions
<1>3. {"Triaged", "Planned", "Awaiting Approval", "Executing"}
         \subseteq Paths!WorkItemState \ {"Ready for CEO Review"}
  BY DEF Paths!WorkItemState
<1> HIDE DEF Reached
<1>4. /\ Reached("Captured") => Reached("Triaged")
      /\ Reached("Triaged") => Reached("Planned")
      /\ Reached("Changes Requested") => Reached("Planned")
      /\ Reached("Waiting/Blocked") => Reached("Planned")
      /\ Reached("Planned") => Reached("Awaiting Approval")
      /\ Reached("Planned") => Reached("Executing")
      /\ Reached("Awaiting Approval") => Reached("Executing")
  BY Zenon, <1>1, <1>2, <1>3
<1>5. Reached(from)
  BY DEF Reached
<1>6. from # "Awaiting Approval" => Reached("Awaiting Approval")
  BY Zenon, <1>4, <1>5 DEF Paths!advanceableStates
<1>7. Reached("Executing")
  BY Zenon, <1>4, <1>6, <1>5
<1>8. Reached(to)
  BY Zenon, <1>6, <1>7 DEF Paths!advanceableStates, Paths!advanceTargets
<1> QED
  BY <1>8 DEF Reached

\* An advance finds its path exactly where the closed form has one: for the targets
\* of the gateway the search never gives up.
AdvancesSucceed ==
    Paths!Done /\ to \in Paths!advanceTargets =>
        ((search = "found") <=> Paths!CanAdvance(from, to))

\* lifecyclePathTo finds a path exactly where WorkItems lets an item advance.
THEOREM AdvancesSucceedHolds == DailySpec => []AdvancesSucceed
<1>1. PathsInv => AdvancesSucceed
  <2> SUFFICES ASSUME PathsInv, Paths!Done, to \in Paths!advanceTargets
               PROVE  (search = "found") <=> Paths!CanAdvance(from, to)
    BY DEF AdvancesSucceed
  <2>1. search \in {"found", "undefined"}
    BY DEF PathsInv, Paths!Done
  <2>2. search = "undefined" <=> (from = to \/ from \notin Paths!advanceableStates)
    BY <2>1, TargetsAreReached DEF PathsInv
  <2>3. CASE from = to
    BY <2>1, <2>2, <2>3 DEF Paths!CanAdvance, Paths!lifecyclePathTo
  <2>4. CASE from # to /\ from \notin Paths!advanceableStates
    BY <2>1, <2>2, <2>4 DEF Paths!CanAdvance, Paths!lifecyclePathTo, Paths!advanceableStates
  <2>5. CASE from # to /\ from \in Paths!advanceableStates
    <3>1. Paths!lifecyclePathTo(from, to) # << >>
      BY <2>5 DEF Paths!lifecyclePathTo, Paths!advanceableStates
    <3> QED
      BY <2>1, <2>2, <2>5, <3>1 DEF Paths!CanAdvance
  <2> QED
    BY <2>3, <2>4, <2>5
<1> QED
  BY <1>1, PathsInvariant, PTL

\* The invariant of the walk over the tickets.
THEOREM GraphInvariant == DailySpec => []GraphInv
<1>1. DailyInit => GraphInv
  BY GraphInitInvariant DEF DailyInit
<1>2. GraphInv /\ [DailyNext]_dailyVars => GraphInv'
  BY GraphStepInvariant, StepOfEach, DailyOperationsAssumption
<1> QED
  BY <1>1, <1>2, PTL DEF DailySpec

\* "Only human-gated work remains": in a graph of any size that was accepted, when
\* no ticket is next every open ticket waits for a human who is named.
THEOREM OnlyHumansAreAwaitedHolds == DailySpec => []OnlyHumansAreAwaited
<1>1. GraphInv => OnlyHumansAreAwaited
  BY AcceptedAwaitsHumans DEF OnlyHumansAreAwaited, Tickets!OnlyHumansAreAwaited
<1> QED
  BY <1>1, GraphInvariant, PTL

\* The invariant of the way back.
THEOREM WayBackInvariant == DailySpec => []WayBackInv
<1>1. DailyInit => WayBackInv
  BY WayBackInit DEF DailyInit
<1>2. WayBackInv /\ [DailyNext]_dailyVars => WayBackInv'
  BY StepOfEach, WayBackStep
<1> QED
  BY <1>1, <1>2, PTL DEF DailySpec

\* lifecyclePathTo: whatever order it takes the rows in, a path it returns walks
\* along rows of the table and never into Ready for CEO Review, and for the targets
\* of the gateway it is the path WorkItems takes.
THEOREM AdvancesAreLegalHolds == DailySpec => []AdvancesAreLegal
<1>1. WayBackInv => Paths!PathsAreLegal
  <2> SUFFICES ASSUME WayBackInv, search = "found", NEW k \in 1 .. Len(path)
               PROVE  /\ path[Len(path)] = to
                      /\ path[k] \in Paths!WalkableStates
                      /\ Paths!lifecycleEventFor(IF k = 1 THEN from ELSE path[k - 1], path[k])
    BY DEF Paths!PathsAreLegal, WayBackInv, RebuiltInv
  <2>1. /\ path \in Seq(Discovered) /\ path # << >> /\ path[Len(path)] = to
        /\ cameFrom[path[1]] = from
        /\ \A i \in 2 .. Len(path) : cameFrom[path[i]] = path[i - 1]
    BY DEF WayBackInv, RebuiltInv
  <2>2. path[k] \in Discovered
    BY <2>1
  <2>3. cameFrom[path[k]] = IF k = 1 THEN from ELSE path[k - 1]
    BY <2>1
  <2>4. path[k] \in Paths!AdvanceSteps(cameFrom[path[k]]) /\ path[k] \in Paths!WalkableStates
    BY <2>2 DEF WayBackInv, CameFromInv, PathsInv, Discovered
  <2>5. Paths!lifecycleEventFor(cameFrom[path[k]], path[k])
    BY <2>4 DEF Paths!AdvanceSteps
  <2> QED
    BY <2>1, <2>3, <2>4, <2>5
<1>2. WayBackInv /\ AdvancesSucceed => Paths!ClosedFormAgrees
  <2> SUFFICES ASSUME WayBackInv, AdvancesSucceed, Paths!Done, to \in Paths!advanceTargets
               PROVE  /\ (search = "found") <=> Paths!CanAdvance(from, to)
                      /\ path = Paths!lifecyclePathTo(from, to)
    BY DEF Paths!ClosedFormAgrees
  <2>1. (search = "found") <=> Paths!CanAdvance(from, to)
    BY DEF AdvancesSucceed
  <2>2. CASE search = "found"
    BY <2>1, <2>2, FoundIsClosedForm
  <2>3. CASE search # "found"
    <3>1. search = "undefined"
      BY <2>3 DEF Paths!Done
    <3>2. path = << >>
      BY <3>1 DEF WayBackInv, RebuiltInv
    <3> QED
      BY <2>1, <2>3, <3>2 DEF Paths!CanAdvance
  <2> QED
    BY <2>2, <2>3
<1>3. WayBackInv /\ AdvancesSucceed => AdvancesAreLegal
  BY <1>1, <1>2 DEF AdvancesAreLegal
<1> QED
  BY <1>3, WayBackInvariant, AdvancesSucceedHolds, PTL
=============================================================================
