------------------------ MODULE ControlPlaneBackupProofs ------------------------
(***************************************************************************)
(* Theorems about ControlPlaneBackup, and so about the wiki of               *)
(* NativeKnowledge with and without a backup and its restore, for every set  *)
(* of candidates, domains and forget processes and every value of the        *)
(* bounds: a published page stays in the active generation, one generation   *)
(* is active, what is called restore-safe is in the head, and no retrieval   *)
(* returns a page forgotten before it returns.                               *)
(***************************************************************************)
EXTENDS ControlPlaneBackup, FiniteSetTheorems, TLAPS

RegState == [active : Gen, pub : Nat, src : Nat, tomb : Nat, head : Nat, repair : Repair]
CandTable == [Cand -> {"none", "staged", "published"}]
RunRow == [status : {"none", "running", "fenced", "failed", "succeeded"}, expired : BOOLEAN]
GenRow == [status : {"none", "staged", "active", "superseded", "quarantined"},
           pages : SUBSET Cand, tomb : Nat, created : 0 .. MaxRuns]
TombRow == [id : 0 .. MaxTombs, epoch : Nat,
            status : {"none", "local-suppressed", "head-sync-pending", "restore-safe"},
            outbox : {"none", "pending", "failed", "synced"}]
SqliteState == [reg : RegState, lease : 0 .. MaxRuns, cand : CandTable, run : [Run -> RunRow],
                gen : [Run -> GenRow]]
HeadState == [epoch : Nat, entries : SUBSET [id : TombId, subject : Cand, epoch : Nat]]
JobState == [pc : {"none", "claimed", "selected", "staged", "recorded", "activated", "cleaned", "over"},
             fence : {0} \cup RegState, sel : SUBSET Cand, retries : Nat]
ForgetState == [pc : {"idle", "reading", "appending", "reading-back"}, subject : {0} \cup Cand,
                remote : {0} \cup HeadState, attempt : Nat]
ReaderState == [pc : {"idle", "opened", "reading"}, fence : {0} \cup RegState,
                domain : {0} \cup Domain, tombs : SUBSET Cand]
BackupState == [phase : {"none", "stores", "vault", "local", "uploaded", "kept", "failed"},
                registry : {0} \cup SqliteState, tombs : {0} \cup [Cand -> TombRow],
                disk : SUBSET Run, torn : BOOLEAN, pending : SUBSET (0 .. MaxTombs)]
RestoreState == [pc : {"none", "restored", "replaying", "confirming", "done"},
                 remote : {0} \cup HeadState, result : {"none", "safe", "needs-repair"}]

\* Types of what the processes, the head, the backup and the restore hold.
MemoryOK ==
    /\ job \in [Run -> JobState]
    /\ head \in HeadState /\ IsFiniteSet(head.entries)
    /\ forget \in [Forgetter -> ForgetState]
    /\ reader \in ReaderState
    /\ faults \in Nat
    /\ backup \in BackupState
    /\ restore \in RestoreState

\* One registry with its tombstones, the live one or a copy: the pointer names
\* the only active generation, which holds every published page that is not
\* suppressed, and runs that were not claimed left no row.
RegistryOK(rg, l, cs, g, t) ==
    /\ \A r \in Run : g[r].status = "active" <=> r = rg.active
    /\ rg.active <= l
    /\ \A r \in Run : r > l => g[r] = NoRow
    /\ \A c \in Cand : cs[c] = "published" /\ t[c].status = "none" =>
         rg.active # NoGen /\ c \in g[rg.active].pages

\* Tombstones have an identifier each.
TombsOK(t) ==
    /\ \A c \in Cand : t[c].id = 0 <=> t[c].status = "none"
    /\ \A c, d \in Cand : t[c].id = t[d].id /\ t[c].id # 0 => c = d

\* The head knows the subject of an identifier, and every tombstone that is
\* called restore-safe.
HeadKnows(t) ==
    /\ \A e \in head.entries, c \in Cand : e.id = t[c].id => e.subject = c
    /\ \A c \in Cand : t[c].status = "restore-safe" =>
         \E e \in head.entries : e.id = t[c].id /\ e.subject = c

HeadOK ==
    /\ \A e, g \in head.entries : e.id = g.id => e.subject = g.subject
    /\ HeadKnows(tomb)

\* The run r is at work and read its fence.
Live(r) == job[r].pc \notin {"none", "over"}

\* A generation that is being prepared is not active yet, and no publication
\* has passed it without moving the fence it was started under.
JobsOK ==
    \A r \in Run :
        /\ r > lease => job[r].pc = "none"
        /\ job[r].pc \in {"claimed", "selected"} => gen[r] = NoRow
        /\ job[r].pc = "staged" => gen[r].status = "none"
        /\ Live(r) => job[r].fence \in RegState /\ job[r].fence.pub <= reg.pub
        /\ job[r].pc \in {"staged", "recorded"} /\ job[r].fence.pub = reg.pub =>
             \A c \in Cand \ Suppressed : cand[c] = "published" => c \in gen[r].pages

\* A forget has a tombstone, and a head it read is a part of the head.
ForgetsOK ==
    \A f \in Forgetter :
        /\ forget[f].pc # "idle" => forget[f].subject \in Cand /\ tomb[forget[f].subject].id # 0
        /\ forget[f].pc = "appending" =>
             forget[f].remote \in HeadState /\ forget[f].remote.entries \subseteq head.entries

\* No subject is suppressed behind a reader without a new epoch.
ReaderOK ==
    /\ reader.pc # "idle" => reader.fence \in RegState /\ reader.fence.tomb <= reg.tomb
    /\ reader.pc = "reading" /\ reader.fence.tomb = reg.tomb => Suppressed \subseteq reader.tombs

\* The copy of the registry is one the registry was, and its tombstones are
\* among those made since.
BackupOK ==
    backup.phase \notin {"none", "failed"} =>
        /\ backup.registry \in SqliteState /\ backup.tombs \in [Cand -> TombRow]
        /\ RegistryOK(backup.registry.reg, backup.registry.lease, backup.registry.cand,
                      backup.registry.gen, backup.tombs)
        /\ TombsOK(backup.tombs) /\ HeadKnows(backup.tombs)
        /\ \A c \in Cand : backup.tombs[c].id # 0 => tomb[c].id = backup.tombs[c].id

\* The head that is replayed is a part of the head, without a gap.
RestoreOK ==
    /\ restore.pc = "replaying" => backup.phase = "failed" /\ ProvableEpochs(restore.remote)
    /\ restore.pc \in {"replaying", "confirming"} =>
         /\ restore.remote \in HeadState
         /\ restore.remote.entries \subseteq head.entries

KnowledgeInv ==
    /\ TypeOK /\ MemoryOK
    /\ RegistryOK(reg, lease, cand, gen, tomb) /\ TombsOK(tomb) /\ HeadOK
    /\ JobsOK /\ ForgetsOK /\ ReaderOK /\ BackupOK /\ RestoreOK

-----------------------------------------------------------------------------
(* Types *)

LEMMA TypeNames ==
    TypeOK <=> /\ reg \in RegState /\ lease \in 0 .. MaxRuns /\ cand \in CandTable
               /\ run \in [Run -> RunRow] /\ gen \in [Run -> GenRow] /\ disk \subseteq Run
               /\ tomb \in [Cand -> TombRow]
  BY DEF TypeOK, RegState, CandTable, RunRow, GenRow, TombRow

LEMMA EmptyTypes ==
    /\ NoJob \in JobState /\ NoForget \in ForgetState /\ NoReader \in ReaderState
    /\ NoBackup \in BackupState /\ NoRestore \in RestoreState
    /\ NoRow \in GenRow /\ NoTomb \in TombRow
<1> USE KnowledgeAssumption
<1>1. NoJob \in JobState
  BY DEF NoJob, JobState
<1>2. NoForget \in ForgetState
  BY DEF NoForget, ForgetState
<1>3. NoReader \in ReaderState
  BY DEF NoReader, ReaderState
<1>4. NoBackup \in BackupState
  BY DEF NoBackup, BackupState
<1>5. NoRestore \in RestoreState
  BY DEF NoRestore, RestoreState
<1>6. NoRow \in GenRow
  BY DEF NoRow, GenRow
<1>7. NoTomb \in TombRow
  BY DEF NoTomb, TombRow
<1> QED
  BY <1>1, <1>2, <1>3, <1>4, <1>5, <1>6, <1>7

LEMMA InitTypes == BackupInit => TypeOK /\ MemoryOK
<1> SUFFICES ASSUME BackupInit PROVE TypeOK /\ MemoryOK
  OBVIOUS
<1> USE KnowledgeAssumption DEF BackupInit, Init
<1>1. reg \in RegState
  BY DEF RegState, Gen, NoGen, Repair
<1>2. lease \in 0 .. MaxRuns /\ cand \in CandTable /\ run \in [Run -> RunRow] /\ disk \subseteq Run
  BY DEF CandTable, RunRow
<1>3. gen \in [Run -> GenRow] /\ tomb \in [Cand -> TombRow]
  BY EmptyTypes
<1>4. head \in HeadState /\ IsFiniteSet(head.entries)
  BY FS_EmptySet DEF HeadState
<1> QED
  BY <1>1, <1>2, <1>3, <1>4, EmptyTypes, TypeNames DEF MemoryOK

\* setRepairState leaves the pointer and the epochs alone.
LEMMA RepairEffect ==
    ASSUME reg \in RegState, NEW state \in Repair, SetRepair(state)
    PROVE  /\ reg' \in RegState
           /\ reg'.active = reg.active /\ reg'.pub = reg.pub /\ reg'.tomb = reg.tomb
  BY DEF SetRepair, RegState

LEMMA FinishEffect ==
    ASSUME run \in [Run -> RunRow], NEW r \in Run, NEW outcome \in {"failed", "succeeded"},
           Finish(r, outcome)
    PROVE  run' \in [Run -> RunRow]
  BY DEF Finish, RunRow

LEMMA EndJobEffect ==
    ASSUME job \in [Run -> JobState], NEW r \in Run, EndJob(r)
    PROVE  /\ job' \in [Run -> JobState] /\ job'[r].pc = "over"
           /\ \A q \in Run \ {r} : job'[q] = job[q]
<1>1. NoJob \in JobState
  BY EmptyTypes
<1>2. [NoJob EXCEPT !.pc = "over"] \in JobState /\ [NoJob EXCEPT !.pc = "over"].pc = "over"
  BY <1>1 DEF JobState
<1> QED
  BY <1>2 DEF EndJob

\* A step of one run that changes how far it is.
LEMMA JobMoves ==
    ASSUME job \in [Run -> JobState], NEW r \in Run,
           NEW pc \in {"claimed", "selected", "staged", "recorded", "activated", "cleaned"},
           job' = [job EXCEPT ![r].pc = pc]
    PROVE  /\ job' \in [Run -> JobState] /\ job'[r].pc = pc
           /\ job'[r].fence = job[r].fence /\ job'[r].sel = job[r].sel
           /\ \A q \in Run \ {r} : job'[q] = job[q]
  BY DEF JobState

-----------------------------------------------------------------------------
(* The steps of a run *)

RunStep(r) ==
    \/ LeaseExpires(r) \/ ClaimRun(r) \/ RetryRun(r) \/ FailRun(r) \/ SelectCandidates(r)
    \/ StageGeneration(r) \/ RecordGeneration(r) \/ ActivateGeneration(r) \/ CleanUp(r)
    \/ ReadBack(r) \/ CrashRun(r)

\* The number of a generation that is staged is one of a run.
LEMMA CreatedType ==
    ASSUME gen \in [Run -> GenRow], NEW r \in Run, gen[r] = NoRow
    PROVE  Cardinality({q \in Run : gen[q].created > 0}) + 1 \in 0 .. MaxRuns
<1> DEFINE made == {q \in Run : gen[q].created > 0}
<1>1. IsFiniteSet(Run) /\ Cardinality(Run) = MaxRuns
  BY FS_Interval, KnowledgeAssumption DEF Run
<1>2. IsFiniteSet(Run \ {r}) /\ Cardinality(Run \ {r}) = MaxRuns - 1
  BY <1>1, FS_RemoveElement
<1>3. made \subseteq Run \ {r}
  BY DEF NoRow
<1>4. IsFiniteSet(made) /\ Cardinality(made) <= MaxRuns - 1
  BY <1>2, <1>3, FS_Subset
<1>5. Cardinality(made) \in Nat
  BY <1>4, FS_CardinalityType
<1> QED
  BY <1>4, <1>5, KnowledgeAssumption

\* What a step of a run leaves alone: the tombstones, the head, the forgets and
\* the reader; and the epochs of the registry do not fall.
LEMMA RunFrame ==
    ASSUME TypeOK, NEW r \in Run, RunStep(r)
    PROVE  /\ UNCHANGED <<tomb, head, forget, reader>>
           /\ \/ UNCHANGED reg
              \/ SetRepair("needs-repair")
              \/ ActivateGeneration(r) /\ MayActivate(r)
<1>1. CASE LeaseExpires(r)
  BY <1>1 DEF LeaseExpires
<1>2. CASE ClaimRun(r)
  BY <1>2 DEF ClaimRun
<1>3. CASE RetryRun(r)
  BY <1>3 DEF RetryRun, registry
<1>4. CASE FailRun(r)
  BY <1>4 DEF FailRun
<1>5. CASE SelectCandidates(r)
  BY <1>5 DEF SelectCandidates
<1>6. CASE StageGeneration(r)
  BY <1>6 DEF StageGeneration
<1>7. CASE RecordGeneration(r)
  BY <1>7 DEF RecordGeneration, Quarantine
<1>8. CASE CleanUp(r)
  BY <1>8 DEF CleanUp, registry
<1>9. CASE CrashRun(r)
  BY <1>9 DEF CrashRun, registry
<1>10. CASE ReadBack(r)
  BY <1>10 DEF ReadBack
<1>11. CASE ActivateGeneration(r)
  BY <1>11 DEF ActivateGeneration, Quarantine
<1> QED
  BY <1>1, <1>2, <1>3, <1>4, <1>5, <1>6, <1>7, <1>8, <1>9, <1>10, <1>11 DEF RunStep

\* The pointer moves to the generation of the run and nothing else of the
\* registry row but the repair state.
LEMMA ActivationEffect ==
    ASSUME reg \in RegState, NEW r \in Run, ActivateGeneration(r), MayActivate(r)
    PROVE  /\ reg' \in RegState /\ reg'.active = r /\ reg'.pub = reg.pub + 1
           /\ reg'.tomb = reg.tomb
<1>1. reg' = [reg EXCEPT !.active = r, !.pub = @ + 1, !.repair = "healthy"]
  BY DEF ActivateGeneration
<1>2. r \in Gen /\ "healthy" \in Repair
  BY DEF Gen, Repair
<1>3. /\ reg.pub \in Nat /\ reg.src \in Nat /\ reg.tomb \in Nat /\ reg.head \in Nat
      /\ reg = [active |-> reg.active, pub |-> reg.pub, src |-> reg.src, tomb |-> reg.tomb,
                head |-> reg.head, repair |-> reg.repair]
  BY DEF RegState
<1>4. reg' = [active |-> r, pub |-> reg.pub + 1, src |-> reg.src, tomb |-> reg.tomb,
              head |-> reg.head, repair |-> "healthy"]
  BY <1>1, <1>3
<1>5. reg.pub + 1 \in Nat
  BY <1>3
<1> QED
  BY <1>2, <1>3, <1>4, <1>5 DEF RegState

\* The epochs of the registry stay, and publications are counted.
LEMMA RunEpochs ==
    ASSUME TypeOK, NEW r \in Run, RunStep(r)
    PROVE  reg' \in RegState /\ reg'.tomb = reg.tomb /\ reg.pub <= reg'.pub
<1>1. reg \in RegState /\ "needs-repair" \in Repair
  BY TypeNames DEF Repair
<1>2. reg.pub \in Nat
  BY <1>1 DEF RegState
<1>3. CASE UNCHANGED reg
  BY <1>1, <1>2, <1>3
<1>4. CASE SetRepair("needs-repair")
  BY <1>1, <1>2, <1>4, RepairEffect
<1>5. CASE ActivateGeneration(r) /\ MayActivate(r)
  BY <1>1, <1>2, <1>5, ActivationEffect
<1> QED
  BY <1>3, <1>4, <1>5, RunFrame

\* A generation that is given up.
LEMMA QuarantineEffect ==
    ASSUME TypeOK, MemoryOK, NEW r \in Run, Quarantine(r)
    PROVE  /\ gen' \in [Run -> GenRow] /\ run' \in [Run -> RunRow] /\ disk' \subseteq Run
           /\ job' \in [Run -> JobState] /\ job'[r].pc = "over"
           /\ \A q \in Run \ {r} : job'[q] = job[q] /\ gen'[q] = gen[q]
           /\ gen'[r].pages = gen[r].pages
           /\ gen'[r].status = IF gen[r].status = "staged" THEN "quarantined" ELSE gen[r].status
           /\ UNCHANGED <<reg, cand>>
<1>1. run' \in [Run -> RunRow]
  BY FinishEffect, TypeNames DEF Quarantine
<1>2. /\ job' \in [Run -> JobState] /\ job'[r].pc = "over"
      /\ \A q \in Run \ {r} : job'[q] = job[q]
  BY EndJobEffect DEF Quarantine, MemoryOK
<1>3. gen \in [Run -> GenRow] /\ disk \subseteq Run
  BY TypeNames
<1>4. gen' = [gen EXCEPT ![r].status = IF @ = "staged" THEN "quarantined" ELSE @]
  BY DEF Quarantine
<1>5. /\ gen' \in [Run -> GenRow]
      /\ \A q \in Run \ {r} : gen'[q] = gen[q]
      /\ gen'[r].pages = gen[r].pages
      /\ gen'[r].status = IF gen[r].status = "staged" THEN "quarantined" ELSE gen[r].status
  BY <1>3, <1>4 DEF GenRow
<1> QED
  BY <1>1, <1>2, <1>3, <1>5 DEF Quarantine

\* The part of the invariant that the runs can disturb.
RunInv ==
    /\ TypeOK /\ job \in [Run -> JobState] /\ faults \in Nat
    /\ RegistryOK(reg, lease, cand, gen, tomb)
    /\ JobsOK

\* How the job of a run may move while the registry keeps its generations.
QuietMove(r) ==
    \/ job'[r] = job[r]
    \/ r <= lease /\ job'[r].pc = "over"
    \/ /\ job'[r].fence = job[r].fence
       /\ \/ job'[r].pc = job[r].pc
          \/ job[r].pc = "claimed" /\ job'[r].pc = "selected"
          \/ job[r].pc = "activated" /\ job'[r].pc = "cleaned"

LEMMA QuietStep ==
    ASSUME RunInv, TypeOK', job' \in [Run -> JobState], faults' \in Nat,
           UNCHANGED <<lease, cand, gen, tomb>>,
           reg'.active = reg.active, reg'.pub = reg.pub,
           \A r \in Run : QuietMove(r)
    PROVE  RunInv'
<1>1. RegistryOK(reg, lease, cand, gen, tomb)'
  BY DEF RunInv, RegistryOK
<1>2. UNCHANGED Suppressed
  BY DEF Suppressed
<1>3. ASSUME NEW r \in Run
      PROVE  /\ r > lease => job'[r].pc = "none"
             /\ job'[r].pc \in {"claimed", "selected"} => gen[r] = NoRow
             /\ job'[r].pc = "staged" => gen[r].status = "none"
             /\ job'[r].pc \notin {"none", "over"} =>
                  job'[r].fence \in RegState /\ job'[r].fence.pub <= reg.pub
             /\ job'[r].pc \in {"staged", "recorded"} /\ job'[r].fence.pub = reg.pub =>
                  \A c \in Cand \ Suppressed : cand[c] = "published" => c \in gen[r].pages
  <2>1. /\ r > lease => job[r].pc = "none"
        /\ job[r].pc \in {"claimed", "selected"} => gen[r] = NoRow
        /\ job[r].pc = "staged" => gen[r].status = "none"
        /\ job[r].pc \notin {"none", "over"} =>
             job[r].fence \in RegState /\ job[r].fence.pub <= reg.pub
        /\ job[r].pc \in {"staged", "recorded"} /\ job[r].fence.pub = reg.pub =>
             \A c \in Cand \ Suppressed : cand[c] = "published" => c \in gen[r].pages
    BY DEF RunInv, JobsOK, Live
  <2>2. CASE job'[r] = job[r]
    BY <2>1, <2>2
  <2>3. CASE r <= lease /\ job'[r].pc = "over"
    <3>1. ~(r > lease)
      BY <2>3, TypeNames, KnowledgeAssumption DEF RunInv, Run
    <3> QED
      BY <2>3, <3>1
  <2>4. CASE job'[r].fence = job[r].fence /\ job'[r].pc = job[r].pc
    BY <2>1, <2>4
  <2>5. CASE job'[r].fence = job[r].fence /\ job[r].pc = "claimed" /\ job'[r].pc = "selected"
    BY <2>1, <2>5
  <2>6. CASE job'[r].fence = job[r].fence /\ job[r].pc = "activated" /\ job'[r].pc = "cleaned"
    BY <2>1, <2>6
  <2> QED
    BY <2>2, <2>3, <2>4, <2>5, <2>6 DEF QuietMove
<1>4. JobsOK'
  BY <1>2, <1>3 DEF JobsOK, Live
<1> QED
  BY <1>1, <1>4 DEF RunInv

\* A run that began is not above the lease.
LEMMA BegunIsLeased ==
    ASSUME RunInv, NEW r \in Run, job[r].pc # "none"
    PROVE  r <= lease
<1>1. ~(r > lease)
  BY DEF RunInv, JobsOK
<1>2. r \in Int /\ lease \in Int
  BY TypeNames, KnowledgeAssumption DEF RunInv, Run
<1> QED
  BY <1>1, <1>2

\* A run that ends changes the registry in its own row only.
LEMMA EndingIsQuiet ==
    ASSUME RunInv, NEW r \in Run, job[r].pc # "none", EndJob(r)
    PROVE  job' \in [Run -> JobState] /\ \A q \in Run : QuietMove(q)
<1>1. /\ job' \in [Run -> JobState] /\ job'[r].pc = "over"
      /\ \A q \in Run \ {r} : job'[q] = job[q]
  BY EndJobEffect DEF RunInv
<1> QED
  BY <1>1, BegunIsLeased DEF QuietMove

LEMMA LeaseExpiresKeeps ==
    ASSUME RunInv, NEW r \in Run, LeaseExpires(r)
    PROVE  RunInv'
<1>1. run \in [Run -> RunRow] /\ run' = [run EXCEPT ![r].expired = TRUE]
  BY TypeNames DEF RunInv, LeaseExpires
<1>2. run' \in [Run -> RunRow]
  BY <1>1 DEF RunRow
<1>3. UNCHANGED <<reg, lease, cand, gen, disk, tomb, job>> /\ faults' \in Nat
  BY DEF RunInv, LeaseExpires
<1>4. TypeOK'
  BY <1>2, <1>3 DEF RunInv, TypeOK, RunRow
<1>5. job' \in [Run -> JobState]
  BY <1>3 DEF RunInv
<1>6. \A q \in Run : QuietMove(q)
  BY <1>3 DEF QuietMove
<1> QED
  BY <1>3, <1>4, <1>5, <1>6, QuietStep

LEMMA RetryRunKeeps ==
    ASSUME RunInv, NEW r \in Run, RetryRun(r)
    PROVE  RunInv'
<1>1. UNCHANGED <<reg, lease, cand, run, gen, disk, tomb>> /\ faults' \in Nat
  BY DEF RunInv, RetryRun, registry
<1>2. TypeOK'
  BY <1>1 DEF RunInv, TypeOK
<1>3. job \in [Run -> JobState] /\ job[r].pc # "none"
  BY DEF RunInv, RetryRun
<1>4. CASE job' = [job EXCEPT ![r].retries = @ + 1]
  <2>1. job' \in [Run -> JobState] /\ job'[r].pc = job[r].pc /\ job'[r].fence = job[r].fence
    BY <1>3, <1>4 DEF JobState
  <2>2. \A q \in Run \ {r} : job'[q] = job[q]
    BY <1>3, <1>4
  <2>3. \A q \in Run : QuietMove(q)
    BY <2>1, <2>2 DEF QuietMove
  <2> QED
    BY <1>1, <1>2, <2>1, <2>3, QuietStep
<1>5. CASE EndJob(r)
  BY <1>1, <1>2, <1>3, <1>5, EndingIsQuiet, QuietStep
<1> QED
  BY <1>4, <1>5 DEF RetryRun

LEMMA FailRunKeeps ==
    ASSUME RunInv, NEW r \in Run, FailRun(r)
    PROVE  RunInv'
<1>1. UNCHANGED <<reg, lease, cand, gen, disk, tomb, faults>> /\ EndJob(r) /\ job[r].pc # "none"
  BY DEF FailRun
<1>2. run' \in [Run -> RunRow]
  BY FinishEffect, TypeNames DEF RunInv, FailRun
<1>3. TypeOK' /\ faults' \in Nat
  BY <1>1, <1>2 DEF RunInv, TypeOK, RunRow
<1> QED
  BY <1>1, <1>3, EndingIsQuiet, QuietStep

LEMMA SelectCandidatesKeeps ==
    ASSUME RunInv, NEW r \in Run, SelectCandidates(r)
    PROVE  RunInv'
<1> DEFINE picked == {c \in Cand : cand[c] = "staged"}
<1>1. UNCHANGED <<reg, lease, cand, gen, disk, tomb, faults>> /\ job[r].pc = "claimed"
  BY DEF SelectCandidates
<1>2. job \in [Run -> JobState] /\ run \in [Run -> RunRow]
  BY TypeNames DEF RunInv
<1>3. CASE job' = [job EXCEPT ![r].pc = "selected", ![r].sel = picked] /\ UNCHANGED run
  <2>1. picked \in SUBSET Cand
    OBVIOUS
  <2> HIDE DEF picked
  <2>2. job' \in [Run -> JobState] /\ job'[r].pc = "selected" /\ job'[r].fence = job[r].fence
    BY <1>2, <1>3, <2>1 DEF JobState
  <2>3. \A q \in Run \ {r} : job'[q] = job[q]
    BY <1>2, <1>3
  <2>4. \A q \in Run : QuietMove(q)
    BY <1>1, <2>2, <2>3 DEF QuietMove
  <2>5. TypeOK' /\ faults' \in Nat
    BY <1>1, <1>3 DEF RunInv, TypeOK
  <2> QED
    BY <1>1, <2>2, <2>4, <2>5, QuietStep
<1>4. ASSUME NEW outcome \in {"succeeded", "failed"}, Finish(r, outcome), EndJob(r)
      PROVE  RunInv'
  <2>1. run' \in [Run -> RunRow]
    BY <1>2, <1>4, FinishEffect
  <2>2. TypeOK' /\ faults' \in Nat
    BY <1>1, <2>1 DEF RunInv, TypeOK, RunRow
  <2> QED
    BY <1>1, <1>4, <2>2, EndingIsQuiet, QuietStep
<1> QED
  BY <1>3, <1>4 DEF SelectCandidates

LEMMA CleanUpKeeps ==
    ASSUME RunInv, NEW r \in Run, CleanUp(r)
    PROVE  RunInv'
<1>1. UNCHANGED <<reg, lease, cand, run, gen, tomb, faults>> /\ job[r].pc = "activated"
  BY DEF CleanUp, registry
<1>2. disk' \subseteq disk
  BY DEF CleanUp
<1>3. TypeOK' /\ faults' \in Nat
  BY <1>1, <1>2 DEF RunInv, TypeOK
<1>4. job \in [Run -> JobState] /\ job' = [job EXCEPT ![r].pc = "cleaned"]
  BY DEF RunInv, CleanUp
<1>5. /\ job' \in [Run -> JobState] /\ job'[r].pc = "cleaned" /\ job'[r].fence = job[r].fence
      /\ \A q \in Run \ {r} : job'[q] = job[q]
  BY <1>4, JobMoves
<1>6. \A q \in Run : QuietMove(q)
  BY <1>1, <1>5 DEF QuietMove
<1> QED
  BY <1>1, <1>3, <1>5, <1>6, QuietStep

LEMMA ReadBackKeeps ==
    ASSUME RunInv, NEW r \in Run, ReadBack(r)
    PROVE  RunInv'
<1>1. UNCHANGED <<lease, cand, gen, disk, tomb, faults>> /\ EndJob(r) /\ job[r].pc # "none"
  BY DEF ReadBack
<1>2. run' \in [Run -> RunRow]
  BY FinishEffect, TypeNames DEF RunInv, ReadBack
<1>3. reg \in RegState /\ "needs-repair" \in Repair
  BY TypeNames DEF RunInv, Repair
<1>4. reg' \in RegState /\ reg'.active = reg.active /\ reg'.pub = reg.pub
  <2>1. CASE UNCHANGED reg
    BY <1>3, <2>1
  <2>2. CASE SetRepair("needs-repair")
    BY <1>3, <2>2, RepairEffect
  <2> QED
    BY <2>1, <2>2 DEF ReadBack
<1>5. TypeOK' /\ faults' \in Nat
  BY <1>1, <1>2, <1>4 DEF RunInv, TypeOK, RunRow, RegState
<1> QED
  BY <1>1, <1>4, <1>5, EndingIsQuiet, QuietStep

LEMMA CrashRunKeeps ==
    ASSUME RunInv, NEW r \in Run, CrashRun(r)
    PROVE  RunInv'
<1>1. UNCHANGED <<reg, lease, cand, run, gen, disk, tomb>> /\ EndJob(r) /\ job[r].pc # "none"
  BY DEF CrashRun, registry
<1>2. TypeOK' /\ faults' \in Nat
  BY <1>1 DEF RunInv, TypeOK, CrashRun
<1> QED
  BY <1>1, <1>2, EndingIsQuiet, QuietStep

\* A new candidate is not published.
LEMMA AdmitCandidateKeeps ==
    ASSUME RunInv, NEW c \in Cand, AdmitCandidate(c)
    PROVE  RunInv'
<1>1. UNCHANGED <<lease, run, gen, disk, tomb, job, faults>>
  BY DEF AdmitCandidate
<1>2. reg \in RegState /\ cand \in CandTable
  BY TypeNames DEF RunInv
<1>3. /\ cand' \in CandTable
      /\ \A d \in Cand : cand'[d] = "published" => cand[d] = "published"
  BY <1>2 DEF AdmitCandidate, CandTable
<1>4. reg' \in RegState /\ reg'.active = reg.active /\ reg'.pub = reg.pub
  BY <1>2 DEF AdmitCandidate, RegState
<1>5. TypeOK' /\ job' \in [Run -> JobState] /\ faults' \in Nat
  BY <1>1, <1>3, <1>4, TypeNames DEF RunInv, TypeOK, RegState, CandTable
<1>6. RegistryOK(reg, lease, cand, gen, tomb)'
  BY <1>1, <1>3, <1>4 DEF RunInv, RegistryOK
<1>7. JobsOK'
  <2>1. UNCHANGED Suppressed
    BY <1>1 DEF Suppressed
  <2> QED
    BY <1>1, <1>3, <1>4, <2>1 DEF RunInv, JobsOK, Live
<1> QED
  BY <1>5, <1>6, <1>7 DEF RunInv

\* The run that is claimed has no row yet and reads the registry as it is.
LEMMA ClaimRunKeeps ==
    ASSUME RunInv, NEW r \in Run, ClaimRun(r)
    PROVE  RunInv'
<1>1. UNCHANGED <<reg, cand, gen, disk, tomb, faults>> /\ lease' = r /\ r = lease + 1
  BY DEF ClaimRun
<1>2. reg \in RegState /\ lease \in 0 .. MaxRuns /\ run \in [Run -> RunRow] /\ job \in [Run -> JobState]
  BY TypeNames DEF RunInv
<1>3. run' \in [Run -> RunRow]
  BY <1>2 DEF ClaimRun, RunRow
<1>4. lease' \in 0 .. MaxRuns
  BY <1>1, KnowledgeAssumption DEF Run
<1>5. TypeOK' /\ faults' \in Nat
  BY <1>1, <1>3, <1>4 DEF RunInv, TypeOK, RunRow
<1>6. /\ job' \in [Run -> JobState]
      /\ job'[r].pc = "claimed" /\ job'[r].fence = reg
      /\ \A q \in Run \ {r} : job'[q] = job[q]
  <2> DEFINE claim == [NoJob EXCEPT !.pc = "claimed", !.fence = reg]
  <2>1. claim \in JobState /\ claim.pc = "claimed" /\ claim.fence = reg
    BY <1>2 DEF NoJob, JobState
  <2>2. job' = [job EXCEPT ![r] = claim]
    BY DEF ClaimRun
  <2> HIDE DEF claim
  <2> QED
    BY <1>2, <2>1, <2>2
<1>7. \A q \in Run : q > lease' => q > lease /\ q # r
  BY <1>1, <1>2, KnowledgeAssumption DEF Run
<1>8. r > lease
  BY <1>1, <1>2, KnowledgeAssumption
<1>9. gen[r] = NoRow
  BY <1>8 DEF RunInv, RegistryOK
<1>10. RegistryOK(reg, lease, cand, gen, tomb)'
  <2>1. reg.active <= lease'
    <3>1. reg.active <= lease /\ reg.active \in Int
      BY <1>2, KnowledgeAssumption DEF RunInv, RegistryOK, RegState, Gen, NoGen, Run
    <3> QED
      BY <1>1, <1>2, <3>1
  <2> QED
    BY <1>1, <1>7, <2>1 DEF RunInv, RegistryOK
<1>11. JobsOK'
  <2>1. UNCHANGED Suppressed
    BY <1>1 DEF Suppressed
  <2>2. ASSUME NEW q \in Run, q # r
        PROVE  JobsOK!(q)'
    BY <1>1, <1>6, <1>7, <2>1, <2>2 DEF RunInv, JobsOK, Live
  <2>3. JobsOK!(r)'
    <3>1. ~(r > lease')
      BY <1>1, KnowledgeAssumption DEF Run
    <3>2. reg.pub <= reg.pub
      BY <1>2 DEF RegState
    <3> QED
      BY <1>1, <1>2, <1>6, <1>9, <3>1, <3>2 DEF Live
  <2> QED
    BY <2>2, <2>3 DEF JobsOK
<1> QED
  BY <1>5, <1>6, <1>10, <1>11 DEF RunInv

\* A generation that is being prepared is not the active one.
LEMMA PreparedIsNotActive ==
    ASSUME RunInv, NEW r \in Run, job[r].pc \in {"claimed", "selected", "staged"}
    PROVE  gen[r].status # "active" /\ reg.active # r
<1>1. gen[r].status = "none"
  BY DEF RunInv, JobsOK, NoRow
<1> QED
  BY <1>1 DEF RunInv, RegistryOK

\* The row of a run that is not the active one may be given up.
LEMMA QuarantineKeeps ==
    ASSUME RunInv, MemoryOK, NEW r \in Run, job[r].pc \in {"staged", "recorded"}, Quarantine(r),
           UNCHANGED <<lease, tomb, faults>>
    PROVE  RunInv'
<1>1. /\ gen' \in [Run -> GenRow] /\ run' \in [Run -> RunRow] /\ disk' \subseteq Run
      /\ job' \in [Run -> JobState] /\ job'[r].pc = "over"
      /\ \A q \in Run \ {r} : job'[q] = job[q] /\ gen'[q] = gen[q]
      /\ gen'[r].pages = gen[r].pages
      /\ gen'[r].status = IF gen[r].status = "staged" THEN "quarantined" ELSE gen[r].status
      /\ UNCHANGED <<reg, cand>>
  BY QuarantineEffect DEF RunInv
<1>2. TypeOK' /\ faults' \in Nat
  BY <1>1, TypeNames DEF RunInv, TypeOK, GenRow, RunRow
<1>3. gen'[r].status = "active" <=> gen[r].status = "active"
  BY <1>1
<1>4. ~(r > lease)
  BY DEF RunInv, JobsOK
<1>5. UNCHANGED Suppressed
  BY DEF Suppressed
<1>6. \A q \in Run : gen'[q].pages = gen[q].pages
  BY <1>1
<1>7. RegistryOK(reg, lease, cand, gen, tomb)'
  <2>1. \A q \in Run : gen'[q].status = "active" <=> q = reg.active
    BY <1>1, <1>3 DEF RunInv, RegistryOK
  <2>2. \A q \in Run : q > lease => gen'[q] = NoRow
    BY <1>1, <1>4 DEF RunInv, RegistryOK
  <2>3. reg.active # NoGen => reg.active \in Run
    BY TypeNames DEF RunInv, RegState, Gen
  <2>4. \A c \in Cand : cand[c] = "published" /\ tomb[c].status = "none" =>
           reg.active # NoGen /\ c \in gen'[reg.active].pages
    BY <1>6, <2>3 DEF RunInv, RegistryOK
  <2> QED
    BY <1>1, <2>1, <2>2, <2>4 DEF RunInv, RegistryOK
<1>8. JobsOK'
  <2>1. ASSUME NEW q \in Run, q # r
        PROVE  JobsOK!(q)'
    BY <1>1, <1>5, <2>1 DEF RunInv, JobsOK, Live
  <2>2. JobsOK!(r)'
    BY <1>1, <1>4 DEF Live
  <2> QED
    BY <2>1, <2>2 DEF JobsOK
<1> QED
  BY <1>1, <1>2, <1>7, <1>8 DEF RunInv

\* A staged generation holds every published page that is not suppressed, for
\* its fence is the registry.
LEMMA StageGenerationKeeps ==
    ASSUME RunInv, MemoryOK, NEW r \in Run, StageGeneration(r)
    PROVE  RunInv'
<1> DEFINE count == Cardinality({q \in Run : gen[q].created > 0}) + 1
           row == [status |-> "none", pages |-> CompletePages(r), tomb |-> reg.tomb,
                   created |-> count]
<1>1. UNCHANGED <<reg, lease, cand, tomb, faults>> /\ job[r].pc = "selected"
  BY DEF StageGeneration
<1>2. reg \in RegState /\ gen \in [Run -> GenRow] /\ job \in [Run -> JobState] /\ disk \subseteq Run
  BY TypeNames DEF RunInv
<1>3. CASE /\ reg = job[r].fence
           /\ disk' = disk \cup {r}
           /\ gen' = [gen EXCEPT ![r] = row]
           /\ job' = [job EXCEPT ![r].pc = "staged"]
           /\ UNCHANGED run
  <2>1. gen[r] = NoRow
    BY <1>1 DEF RunInv, JobsOK
  <2>2. count \in 0 .. MaxRuns
    BY <1>2, <2>1, CreatedType
  <2>3. reg.active # NoGen => reg.active \in Run
    BY <1>2 DEF RegState, Gen
  <2>4. CompletePages(r) \in SUBSET Cand
    BY <1>2, <2>3 DEF CompletePages, JobState, GenRow
  <2>5. row \in GenRow /\ row.status = "none" /\ row.pages = CompletePages(r)
    <3>1. reg.tomb \in Nat
      BY <1>2 DEF RegState
    <3> HIDE DEF count
    <3> QED
      BY <2>2, <2>4, <3>1 DEF GenRow
  <2> HIDE DEF row
  <2>6. /\ gen' \in [Run -> GenRow] /\ gen'[r] = row
        /\ \A q \in Run \ {r} : gen'[q] = gen[q]
    BY <1>2, <1>3, <2>5
  <2>7. /\ job' \in [Run -> JobState] /\ job'[r].pc = "staged" /\ job'[r].fence = job[r].fence
        /\ \A q \in Run \ {r} : job'[q] = job[q]
    BY <1>2, <1>3, JobMoves
  <2>8. TypeOK' /\ faults' \in Nat
    BY <1>1, <1>2, <1>3, <2>6 DEF RunInv, TypeOK, GenRow
  <2>9. gen[r].status # "active" /\ reg.active # r
    BY <1>1, PreparedIsNotActive
  <2>10. ~(r > lease)
    BY <1>1 DEF RunInv, JobsOK
  <2>11. UNCHANGED Suppressed
    BY <1>1 DEF Suppressed
  <2>12. RegistryOK(reg, lease, cand, gen, tomb)'
    <3>1. \A q \in Run : gen'[q].status = "active" <=> q = reg.active
      BY <2>5, <2>6, <2>9 DEF RunInv, RegistryOK
    <3>2. \A q \in Run : q > lease => gen'[q] = NoRow
      BY <2>6, <2>10 DEF RunInv, RegistryOK
    <3>3. \A c \in Cand : cand[c] = "published" /\ tomb[c].status = "none" =>
             reg.active # NoGen /\ c \in gen'[reg.active].pages
      BY <2>3, <2>6, <2>9 DEF RunInv, RegistryOK
    <3> QED
      BY <1>1, <3>1, <3>2, <3>3 DEF RunInv, RegistryOK
  <2>13. \A c \in Cand \ Suppressed : cand[c] = "published" => c \in CompletePages(r)
    BY DEF RunInv, RegistryOK, CompletePages, Suppressed
  <2>14. JobsOK'
    <3>1. ASSUME NEW q \in Run, q # r
          PROVE  JobsOK!(q)'
      BY <1>1, <2>6, <2>7, <2>11, <3>1 DEF RunInv, JobsOK, Live
    <3>2. JobsOK!(r)'
      <4>1. reg.pub <= reg.pub
        BY <1>2 DEF RegState
      <4> QED
        BY <1>1, <1>2, <1>3, <2>5, <2>6, <2>7, <2>10, <2>11, <2>13, <4>1 DEF Live
    <3> QED
      BY <3>1, <3>2 DEF JobsOK
  <2> QED
    BY <2>7, <2>8, <2>12, <2>14 DEF RunInv
<1>4. CASE Finish(r, "failed") /\ EndJob(r) /\ UNCHANGED <<disk, gen>>
  <2>1. run' \in [Run -> RunRow]
    BY <1>4, FinishEffect, TypeNames DEF RunInv
  <2>2. TypeOK' /\ faults' \in Nat
    BY <1>1, <1>4, <2>1 DEF RunInv, TypeOK, RunRow
  <2> QED
    BY <1>1, <1>4, <2>2, EndingIsQuiet, QuietStep
<1> QED
  BY <1>3, <1>4 DEF StageGeneration

LEMMA RecordGenerationKeeps ==
    ASSUME RunInv, MemoryOK, NEW r \in Run, RecordGeneration(r)
    PROVE  RunInv'
<1>1. UNCHANGED <<lease, tomb, faults>> /\ job[r].pc = "staged"
  BY DEF RecordGeneration
<1>2. CASE Quarantine(r)
  BY <1>1, <1>2, QuarantineKeeps
<1>3. CASE /\ gen' = [gen EXCEPT ![r].status = "staged"]
           /\ job' = [job EXCEPT ![r].pc = "recorded"]
           /\ UNCHANGED <<disk, run, reg, cand>>
  <2>1. reg \in RegState /\ gen \in [Run -> GenRow] /\ job \in [Run -> JobState]
    BY TypeNames DEF RunInv
  <2>2. /\ gen' \in [Run -> GenRow] /\ gen'[r].status = "staged" /\ gen'[r].pages = gen[r].pages
        /\ \A q \in Run \ {r} : gen'[q] = gen[q]
    BY <1>3, <2>1 DEF GenRow
  <2>3. /\ job' \in [Run -> JobState] /\ job'[r].pc = "recorded" /\ job'[r].fence = job[r].fence
        /\ \A q \in Run \ {r} : job'[q] = job[q]
    BY <1>3, <2>1, JobMoves
  <2>4. TypeOK' /\ faults' \in Nat
    BY <1>1, <1>3, <2>2 DEF RunInv, TypeOK, GenRow
  <2>5. gen[r].status # "active" /\ reg.active # r
    BY <1>1, PreparedIsNotActive
  <2>6. ~(r > lease)
    BY <1>1 DEF RunInv, JobsOK
  <2>7. UNCHANGED Suppressed
    BY <1>1 DEF Suppressed
  <2>8. RegistryOK(reg, lease, cand, gen, tomb)'
    <3>1. \A q \in Run : gen'[q].status = "active" <=> q = reg.active
      BY <2>2, <2>5 DEF RunInv, RegistryOK
    <3>2. \A q \in Run : q > lease => gen'[q] = NoRow
      BY <2>2, <2>6 DEF RunInv, RegistryOK
    <3>3. reg.active # NoGen => reg.active \in Run
      BY <2>1 DEF RegState, Gen
    <3>4. \A c \in Cand : cand[c] = "published" /\ tomb[c].status = "none" =>
             reg.active # NoGen /\ c \in gen'[reg.active].pages
      BY <2>2, <2>5, <3>3 DEF RunInv, RegistryOK
    <3> QED
      BY <1>1, <1>3, <3>1, <3>2, <3>4 DEF RunInv, RegistryOK
  <2>9. JobsOK'
    <3>1. ASSUME NEW q \in Run, q # r
          PROVE  JobsOK!(q)'
      BY <1>1, <1>3, <2>2, <2>3, <2>7, <3>1 DEF RunInv, JobsOK, Live
    <3>2. JobsOK!(r)'
      BY <1>1, <1>3, <2>2, <2>3, <2>6, <2>7 DEF RunInv, JobsOK, Live
    <3> QED
      BY <3>1, <3>2 DEF JobsOK
  <2> QED
    BY <2>3, <2>4, <2>8, <2>9 DEF RunInv
<1> QED
  BY <1>2, <1>3 DEF RecordGeneration

\* Activation: nothing was published since the run read its fence, so the new
\* generation holds every page the old one had to keep.
LEMMA ActivateGenerationKeeps ==
    ASSUME RunInv, MemoryOK, NEW r \in Run, ActivateGeneration(r)
    PROVE  RunInv'
<1>1. UNCHANGED <<lease, tomb, faults>> /\ job[r].pc = "recorded"
  BY DEF ActivateGeneration
<1>2. CASE ~MayActivate(r)
  <2>1. Quarantine(r)
    BY <1>2 DEF ActivateGeneration
  <2> QED
    BY <1>1, <2>1, QuarantineKeeps
<1>3. CASE MayActivate(r)
  <2>1. /\ reg \in RegState /\ gen \in [Run -> GenRow] /\ job \in [Run -> JobState]
        /\ cand \in CandTable
    BY TypeNames DEF RunInv
  <2>2. reg' \in RegState /\ reg'.active = r /\ reg'.pub = reg.pub + 1
    BY <1>3, <2>1, ActivationEffect
  <2>3. /\ gen' = [g \in Run |->
                     CASE g = r -> [gen[g] EXCEPT !.status = "active"]
                       [] g = reg.active -> [gen[g] EXCEPT !.status = "superseded"]
                       [] OTHER -> gen[g]]
        /\ cand' = [c \in Cand |-> IF c \in gen[r].pages /\ cand[c] = "staged"
                                     THEN "published" ELSE cand[c]]
        /\ job' = [job EXCEPT ![r].pc = "activated"]
        /\ UNCHANGED <<disk, run>>
    BY <1>3 DEF ActivateGeneration
  <2>4. /\ gen' \in [Run -> GenRow]
        /\ \A q \in Run : gen'[q].pages = gen[q].pages
        /\ gen'[r].status = "active"
        /\ reg.active # r /\ reg.active \in Run => gen'[reg.active].status = "superseded"
        /\ \A q \in Run : q # r /\ q # reg.active => gen'[q] = gen[q]
    <3>1. ASSUME NEW q \in Run, NEW status \in {"active", "superseded"}
          PROVE  /\ [gen[q] EXCEPT !.status = status] \in GenRow
                 /\ [gen[q] EXCEPT !.status = status].pages = gen[q].pages
                 /\ [gen[q] EXCEPT !.status = status].status = status
      BY <2>1 DEF GenRow
    <3>2. reg.active # r
      BY <1>3 DEF RunInv, RegistryOK, MayActivate
    <3>3. gen'[r] = [gen[r] EXCEPT !.status = "active"]
      BY <2>3, <3>2
    <3>4. reg.active \in Run => gen'[reg.active] = [gen[reg.active] EXCEPT !.status = "superseded"]
      BY <2>3, <3>2
    <3>5. \A q \in Run : q # r /\ q # reg.active => gen'[q] = gen[q]
      BY <2>3
    <3>6. ASSUME NEW q \in Run
          PROVE  gen'[q] \in GenRow /\ gen'[q].pages = gen[q].pages
      <4>1. CASE q = r
        BY <3>1, <3>3, <4>1
      <4>2. CASE q = reg.active
        BY <3>1, <3>4, <4>2
      <4>3. CASE q # r /\ q # reg.active
        BY <2>1, <3>5, <4>3
      <4> QED
        BY <4>1, <4>2, <4>3
    <3>7. gen' = [q \in Run |-> gen'[q]]
      BY <2>3
    <3>8. gen' \in [Run -> GenRow]
      BY <3>6, <3>7
    <3> QED
      BY <3>1, <3>3, <3>4, <3>5, <3>6, <3>8
  <2>5. /\ cand' \in CandTable
        /\ \A c \in Cand : cand'[c] = "published" => cand[c] = "published" \/ c \in gen[r].pages
    BY <2>1, <2>3 DEF CandTable
  <2>6. /\ job' \in [Run -> JobState] /\ job'[r].pc = "activated" /\ job'[r].fence = job[r].fence
        /\ \A q \in Run \ {r} : job'[q] = job[q]
    BY <2>1, <2>3, JobMoves
  <2>7. TypeOK' /\ faults' \in Nat
    <3>1. faults' \in Nat /\ lease' \in 0 .. MaxRuns /\ run' \in [Run -> RunRow] /\ disk' \subseteq Run
      BY <1>1, <2>3, TypeNames DEF RunInv
    <3>2. tomb' \in [Cand -> TombRow]
      BY <1>1, TypeNames DEF RunInv
    <3> QED
      BY <2>2, <2>4, <2>5, <3>1, <3>2 DEF TypeOK, RegState, GenRow, CandTable, RunRow, TombRow
  <2>8. UNCHANGED Suppressed
    BY <1>1 DEF Suppressed
  <2>9. r <= lease /\ ~(r > lease)
    BY <1>1, BegunIsLeased DEF RunInv, JobsOK
  <2>10. \A c \in Cand \ Suppressed : cand[c] = "published" => c \in gen[r].pages
    BY <1>1, <1>3 DEF RunInv, JobsOK, MayActivate
  <2>11. \A q \in Run : reg.active = q => ~(q > lease) /\ gen[q].status = "active"
    <3>1. reg.active <= lease /\ lease \in Int
      BY TypeNames, KnowledgeAssumption DEF RunInv, RegistryOK
    <3>2. \A q \in Run : q \in Int
      BY KnowledgeAssumption DEF Run
    <3>3. \A q \in Run : reg.active = q => ~(q > lease)
      BY <3>1, <3>2
    <3> QED
      BY <3>3 DEF RunInv, RegistryOK
  <2>12. RegistryOK(reg, lease, cand, gen, tomb)'
    <3>1. \A q \in Run : gen'[q].status = "active" <=> q = r
      BY <2>4 DEF RunInv, RegistryOK
    <3>2. \A q \in Run : q > lease => gen'[q] = NoRow
      BY <2>4, <2>9, <2>11 DEF RunInv, RegistryOK
    <3>3. r # NoGen
      BY KnowledgeAssumption DEF NoGen, Run
    <3>4. \A c \in Cand : cand'[c] = "published" /\ tomb[c].status = "none" => c \in gen'[r].pages
      BY <2>4, <2>5, <2>10 DEF Suppressed
    <3> QED
      BY <1>1, <2>2, <2>9, <3>1, <3>2, <3>3, <3>4 DEF RegistryOK
  <2>13. JobsOK'
    <3>1. reg.pub \in Nat /\ reg.pub <= reg.pub + 1
      BY <2>1 DEF RegState
    <3>2. ASSUME NEW q \in Run, q # r
          PROVE  JobsOK!(q)'
      <4>1. JobsOK!(q)
        BY DEF RunInv, JobsOK
      <4>2. job'[q] = job[q]
        BY <2>6, <3>2
      <4>3. job[q].pc \in {"claimed", "selected"} => gen'[q] = NoRow
        BY <2>4, <2>11, <3>2, <4>1 DEF NoRow
      <4>4. job[q].pc = "staged" => gen'[q].status = "none"
        BY <2>4, <2>11, <3>2, <4>1
      <4>5. Live(q) => /\ job[q].fence \in RegState
                       /\ job[q].fence.pub <= reg.pub + 1 /\ job[q].fence.pub # reg.pub + 1
        <5>1. ASSUME Live(q) PROVE job[q].fence.pub \in Nat /\ job[q].fence.pub <= reg.pub
          BY <4>1, <5>1 DEF RegState
        <5> QED
          BY <3>1, <4>1, <5>1
      <4> QED
        BY <1>1, <2>2, <4>1, <4>2, <4>3, <4>4, <4>5 DEF Live
    <3>3. JobsOK!(r)'
      <4>1. job[r].fence = reg
        BY <1>3 DEF MayActivate
      <4> QED
        BY <1>1, <2>1, <2>2, <2>6, <2>9, <3>1, <4>1 DEF Live
    <3> QED
      BY <3>2, <3>3 DEF JobsOK
  <2> QED
    BY <2>6, <2>7, <2>12, <2>13 DEF RunInv
<1> QED
  BY <1>2, <1>3

LEMMA RunStepKeeps ==
    ASSUME RunInv, MemoryOK, NEW r \in Run, RunStep(r)
    PROVE  RunInv'
  BY LeaseExpiresKeeps, ClaimRunKeeps, RetryRunKeeps, FailRunKeeps, SelectCandidatesKeeps,
     StageGenerationKeeps, RecordGenerationKeeps, ActivateGenerationKeeps, CleanUpKeeps,
     ReadBackKeeps, CrashRunKeeps DEF RunStep

\* A step that leaves the tombstones, the head and their readers alone keeps
\* what is said of them.
LEMMA RegistryStep ==
    ASSUME KnowledgeInv, RunInv', UNCHANGED <<tomb, head, forget, reader, backup, restore>>,
           reg'.tomb = reg.tomb
    PROVE  KnowledgeInv'
<1>1. UNCHANGED Suppressed
  BY DEF Suppressed
<1>2. TypeOK' /\ MemoryOK' /\ RegistryOK(reg, lease, cand, gen, tomb)' /\ JobsOK'
  BY DEF KnowledgeInv, RunInv, MemoryOK
<1>3. TombsOK(tomb)' /\ HeadOK'
  BY DEF KnowledgeInv, TombsOK, HeadOK, HeadKnows
<1>4. ForgetsOK'
  BY DEF KnowledgeInv, ForgetsOK
<1>5. ReaderOK'
  BY <1>1 DEF KnowledgeInv, ReaderOK
<1>6. BackupOK'
  BY DEF KnowledgeInv, BackupOK, HeadKnows
<1>7. RestoreOK'
  BY DEF KnowledgeInv, RestoreOK
<1> QED
  BY <1>2, <1>3, <1>4, <1>5, <1>6, <1>7 DEF KnowledgeInv

LEMMA RunStepInv ==
    ASSUME KnowledgeInv, NEW r \in Run, RunStep(r), UNCHANGED backupVars
    PROVE  KnowledgeInv'
<1>1. RunInv /\ MemoryOK /\ TypeOK
  BY DEF KnowledgeInv, RunInv, MemoryOK
<1>2. RunInv'
  BY <1>1, RunStepKeeps
<1>3. UNCHANGED <<tomb, head, forget, reader, backup, restore>>
  BY <1>1, RunFrame DEF backupVars
<1>4. reg'.tomb = reg.tomb
  BY <1>1, RunEpochs
<1> QED
  BY <1>2, <1>3, <1>4, RegistryStep

LEMMA AdmitCandidateInv ==
    ASSUME KnowledgeInv, NEW c \in Cand, AdmitCandidate(c), UNCHANGED backupVars
    PROVE  KnowledgeInv'
<1>1. RunInv'
  BY AdmitCandidateKeeps DEF KnowledgeInv, RunInv, MemoryOK
<1>2. UNCHANGED <<tomb, head, forget, reader, backup, restore>>
  BY DEF AdmitCandidate, backupVars
<1>3. reg'.tomb = reg.tomb
  BY TypeNames DEF KnowledgeInv, AdmitCandidate, RegState
<1> QED
  BY <1>1, <1>2, <1>3, RegistryStep

-----------------------------------------------------------------------------
(* The steps of a forget *)

\* The runs do not mind that subjects are suppressed.
LEMMA SuppressionGrows ==
    ASSUME RunInv, TypeOK', UNCHANGED <<lease, cand, gen, job, faults>>,
           reg'.active = reg.active, reg'.pub = reg.pub,
           Suppressed \subseteq Suppressed'
    PROVE  RunInv'
<1>1. RegistryOK(reg, lease, cand, gen, tomb)'
  <2>1. \A c \in Cand : tomb'[c].status = "none" => tomb[c].status = "none"
    BY DEF Suppressed
  <2> QED
    BY <2>1 DEF RunInv, RegistryOK
<1>2. JobsOK'
  BY DEF RunInv, JobsOK, Live
<1> QED
  BY <1>1, <1>2 DEF RunInv

\* A call goes on, is over, or has a tombstone and what it read of the head.
ForgetMove(f) ==
    \/ forget'[f] = forget[f]
    \/ /\ forget'[f].pc # "idle" =>
            forget'[f].subject \in Cand /\ tomb'[forget'[f].subject].id # 0
       /\ forget'[f].pc = "appending" =>
            forget'[f].remote \in HeadState /\ forget'[f].remote.entries \subseteq head'.entries

\* What a step of a forget may do to the tombstones, the head and the calls.
LEMMA ForgetStep ==
    ASSUME KnowledgeInv, RunInv', UNCHANGED <<reader, backup, restore>>,
           reg.tomb <= reg'.tomb, reg.tomb = reg'.tomb => UNCHANGED Suppressed,
           TombsOK(tomb)', \A c \in Cand : tomb[c].id # 0 => tomb'[c].id = tomb[c].id,
           head' \in HeadState, IsFiniteSet(head'.entries), head.entries \subseteq head'.entries,
           HeadOK',
           \A e \in head'.entries \ head.entries :
             \E c \in Cand : e.subject = c /\ e.id = tomb[c].id /\ tomb[c].id # 0,
           forget' \in [Forgetter -> ForgetState], \A f \in Forgetter : ForgetMove(f)
    PROVE  KnowledgeInv'
<1>1. TypeOK' /\ MemoryOK' /\ RegistryOK(reg, lease, cand, gen, tomb)' /\ JobsOK'
  BY DEF KnowledgeInv, RunInv, MemoryOK
<1>2. ForgetsOK'
  <2>1. ASSUME NEW f \in Forgetter
        PROVE  ForgetsOK!(f)'
    <3>1. CASE forget'[f] = forget[f]
      BY <3>1 DEF KnowledgeInv, ForgetsOK
    <3> QED
      BY <3>1 DEF ForgetMove
  <2> QED
    BY <2>1 DEF ForgetsOK
<1>3. ReaderOK'
  <2>1. reg.tomb \in Nat /\ reg'.tomb \in Nat
    BY <1>1, TypeNames DEF KnowledgeInv, TypeOK, RegState
  <2>2. CASE reg.tomb = reg'.tomb
    BY <2>2 DEF KnowledgeInv, ReaderOK
  <2>3. CASE reg.tomb # reg'.tomb
    <3>1. reg.tomb < reg'.tomb
      BY <2>1, <2>3
    <3>2. ASSUME reader.pc # "idle" PROVE reader.fence.tomb < reg'.tomb /\ reader.fence.tomb \in Nat
      <4>1. reader.fence \in RegState /\ reader.fence.tomb <= reg.tomb
        BY <3>2 DEF KnowledgeInv, ReaderOK
      <4> QED
        BY <2>1, <3>1, <4>1 DEF RegState
    <3>3. reader.pc # "idle" => reader.fence \in RegState /\ reader.fence.tomb <= reg'.tomb
                               /\ reader.fence.tomb # reg'.tomb
      BY <2>1, <3>2 DEF KnowledgeInv, ReaderOK
    <3> QED
      BY <3>3 DEF ReaderOK
  <2> QED
    BY <2>2, <2>3
<1>4. BackupOK'
  <2> SUFFICES ASSUME backup.phase \notin {"none", "failed"}
               PROVE  /\ HeadKnows(backup.tombs)'
                      /\ \A c \in Cand : backup.tombs[c].id # 0 => tomb'[c].id = backup.tombs[c].id
    BY DEF KnowledgeInv, BackupOK
  <2>1. /\ HeadKnows(backup.tombs)
        /\ \A c \in Cand : backup.tombs[c].id # 0 => tomb[c].id = backup.tombs[c].id
    BY DEF KnowledgeInv, BackupOK
  <2>2. \A c \in Cand : backup.tombs[c].id # 0 => tomb'[c].id = backup.tombs[c].id
    BY <2>1
  <2>3. ASSUME NEW e \in head'.entries, NEW d \in Cand, e.id = backup.tombs[d].id
        PROVE  e.subject = d
    <3>1. CASE e \in head.entries
      BY <2>1, <2>3, <3>1 DEF HeadKnows
    <3>2. CASE e \notin head.entries
      <4>1. PICK c \in Cand : e.subject = c /\ e.id = tomb[c].id /\ tomb[c].id # 0
        BY <3>2
      <4>2. tomb[d].id = tomb[c].id
        BY <2>1, <2>3, <4>1
      <4> QED
        BY <4>1, <4>2 DEF KnowledgeInv, TombsOK
    <3> QED
      BY <3>1, <3>2
  <2>4. HeadKnows(backup.tombs)'
    BY <2>1, <2>3 DEF HeadKnows
  <2> QED
    BY <2>2, <2>4
<1>5. RestoreOK'
  BY DEF KnowledgeInv, RestoreOK, ProvableEpochs
<1> QED
  BY <1>1, <1>2, <1>3, <1>4, <1>5 DEF KnowledgeInv

LEMMA ReturnEffect ==
    ASSUME forget \in [Forgetter -> ForgetState], NEW f \in Forgetter, Return(f)
    PROVE  forget' \in [Forgetter -> ForgetState] /\ \A g \in Forgetter : ForgetMove(g)
<1>1. forget' = [forget EXCEPT ![f] = NoForget]
  BY DEF Return
<1>2. NoForget \in ForgetState /\ NoForget.pc = "idle"
  BY EmptyTypes DEF NoForget
<1>3. forget' \in [Forgetter -> ForgetState]
  BY <1>1, <1>2
<1>4. \A g \in Forgetter : forget'[g] = forget[g] \/ forget'[g].pc = "idle"
  BY <1>1, <1>2
<1> QED
  BY <1>3, <1>4 DEF ForgetMove

\* A tombstone that exists changes its status and its outbox row.
LEMMA TombMoves ==
    ASSUME tomb \in [Cand -> TombRow], TombsOK(tomb), NEW c \in Cand, tomb[c].id # 0,
           NEW status \in {"head-sync-pending", "restore-safe"},
           NEW outbox \in {"none", "pending", "failed", "synced"},
           tomb' = [tomb EXCEPT ![c].status = status, ![c].outbox = outbox]
    PROVE  /\ tomb' \in [Cand -> TombRow] /\ TombsOK(tomb)' /\ UNCHANGED Suppressed
           /\ \A d \in Cand : tomb'[d].id = tomb[d].id
           /\ tomb'[c].status = status /\ \A d \in Cand \ {c} : tomb'[d] = tomb[d]
<1>1. /\ tomb' \in [Cand -> TombRow] /\ tomb'[c].id = tomb[c].id /\ tomb'[c].status = status
      /\ \A d \in Cand \ {c} : tomb'[d] = tomb[d]
  BY DEF TombRow
<1>2. \A d \in Cand : tomb'[d].id = tomb[d].id
  BY <1>1
<1>3. tomb[c].status # "none" /\ tomb'[c].status # "none"
  BY <1>1 DEF TombsOK
<1>4. TombsOK(tomb)'
  BY <1>1, <1>2, <1>3 DEF TombsOK
<1>5. UNCHANGED Suppressed
  BY <1>1, <1>3 DEF Suppressed
<1> QED
  BY <1>1, <1>2, <1>4, <1>5

\* A call that is under way has the tombstone it works for.
LEMMA CallHasTomb ==
    ASSUME KnowledgeInv, NEW f \in Forgetter, forget[f].pc # "idle"
    PROVE  forget[f].subject \in Cand /\ tomb[forget[f].subject].id # 0
  BY DEF KnowledgeInv, ForgetsOK

LEMMA PendingEffect ==
    ASSUME KnowledgeInv, NEW f \in Forgetter, NEW fails \in BOOLEAN, forget[f].pc # "idle",
           Pending(f, fails)
    PROVE  /\ tomb' \in [Cand -> TombRow] /\ TombsOK(tomb)' /\ UNCHANGED Suppressed
           /\ \A d \in Cand : tomb'[d].id = tomb[d].id
           /\ \A d \in Cand : tomb'[d].status = "restore-safe" => tomb[d].status = "restore-safe"
           /\ reg' \in RegState
           /\ reg'.active = reg.active /\ reg'.pub = reg.pub /\ reg'.tomb = reg.tomb
           /\ forget' \in [Forgetter -> ForgetState] /\ \A g \in Forgetter : ForgetMove(g)
<1>1. /\ tomb \in [Cand -> TombRow] /\ TombsOK(tomb) /\ reg \in RegState
      /\ forget \in [Forgetter -> ForgetState]
  BY TypeNames DEF KnowledgeInv, MemoryOK
<1>2. forget' \in [Forgetter -> ForgetState] /\ \A g \in Forgetter : ForgetMove(g)
  BY <1>1, ReturnEffect DEF Pending
<1>3. PICK c \in Cand : c = forget[f].subject /\ tomb[c].id # 0
  BY CallHasTomb
<1>4. CASE UNCHANGED <<tomb, reg>>
  BY <1>1, <1>2, <1>4 DEF TombsOK, Suppressed
<1>5. CASE /\ tomb' = [tomb EXCEPT ![c].status = "head-sync-pending",
                                   ![c].outbox = IF fails /\ @ # "synced" THEN "failed" ELSE @]
           /\ SetRepair("head_sync_pending")
  <2>1. PICK outbox \in {"none", "pending", "failed", "synced"} :
          outbox = IF fails /\ tomb[c].outbox # "synced" THEN "failed" ELSE tomb[c].outbox
    BY <1>1 DEF TombRow
  <2>2. tomb' = [tomb EXCEPT ![c].status = "head-sync-pending", ![c].outbox = outbox]
    BY <1>1, <1>5, <2>1 DEF TombRow
  <2>3. /\ tomb' \in [Cand -> TombRow] /\ TombsOK(tomb)' /\ UNCHANGED Suppressed
        /\ \A d \in Cand : tomb'[d].id = tomb[d].id
        /\ tomb'[c].status = "head-sync-pending" /\ \A d \in Cand \ {c} : tomb'[d] = tomb[d]
    BY <1>1, <1>3, <2>2, TombMoves
  <2>4. "head_sync_pending" \in Repair
    BY DEF Repair
  <2>5. /\ reg' \in RegState
        /\ reg'.active = reg.active /\ reg'.pub = reg.pub /\ reg'.tomb = reg.tomb
    BY <1>1, <1>5, <2>4, RepairEffect
  <2> QED
    BY <1>2, <2>3, <2>5
<1> QED
  BY <1>3, <1>4, <1>5 DEF Pending

LEMMA SettleEffect ==
    ASSUME KnowledgeInv, NEW f \in Forgetter, NEW h \in HeadState, forget[f].pc # "idle",
           Settle(f, h)
    PROVE  /\ tomb' \in [Cand -> TombRow] /\ TombsOK(tomb)' /\ UNCHANGED Suppressed
           /\ \A d \in Cand : tomb'[d].id = tomb[d].id
           /\ \A d \in Cand : tomb'[d].status = "restore-safe" =>
                d = forget[f].subject \/ tomb[d].status = "restore-safe"
           /\ reg' \in RegState
           /\ reg'.active = reg.active /\ reg'.pub = reg.pub /\ reg'.tomb = reg.tomb
           /\ forget' \in [Forgetter -> ForgetState] /\ \A g \in Forgetter : ForgetMove(g)
<1>1. /\ tomb \in [Cand -> TombRow] /\ TombsOK(tomb) /\ reg \in RegState
      /\ forget \in [Forgetter -> ForgetState]
  BY TypeNames DEF KnowledgeInv, MemoryOK
<1>2. forget' \in [Forgetter -> ForgetState] /\ \A g \in Forgetter : ForgetMove(g)
  BY <1>1, ReturnEffect DEF Settle
<1>3. PICK c \in Cand : c = forget[f].subject /\ tomb[c].id # 0
  BY CallHasTomb
<1>4. tomb' = [tomb EXCEPT ![c].status = "restore-safe", ![c].outbox = "synced"]
  BY <1>3 DEF Settle
<1>5. /\ tomb' \in [Cand -> TombRow] /\ TombsOK(tomb)' /\ UNCHANGED Suppressed
      /\ \A d \in Cand : tomb'[d].id = tomb[d].id
      /\ tomb'[c].status = "restore-safe" /\ \A d \in Cand \ {c} : tomb'[d] = tomb[d]
  BY <1>1, <1>3, <1>4, TombMoves
<1>6. PICK epoch \in Nat : reg' = [reg EXCEPT !.head = epoch, !.repair = "healthy"]
  <2>1. h.epoch \in Nat /\ reg.head \in Nat
    BY <1>1 DEF HeadState, RegState
  <2> QED
    BY <2>1 DEF Settle
<1>7. /\ reg' \in RegState
      /\ reg'.active = reg.active /\ reg'.pub = reg.pub /\ reg'.tomb = reg.tomb
  BY <1>1, <1>6 DEF RegState, Repair
<1> QED
  BY <1>2, <1>3, <1>5, <1>7

\* What an append does: the head keeps its entries, and the new one is of the
\* tombstone of the call.
HeadMoves ==
    /\ head' \in HeadState /\ IsFiniteSet(head'.entries) /\ head.entries \subseteq head'.entries
    /\ \A e, g \in head'.entries : e.id = g.id => e.subject = g.subject
    /\ \A e \in head'.entries, c \in Cand : e.id = tomb[c].id => e.subject = c
    /\ \A e \in head'.entries \ head.entries :
         \E c \in Cand : e.subject = c /\ e.id = tomb[c].id /\ tomb[c].id # 0

LEMMA HeadIdles ==
    ASSUME KnowledgeInv, UNCHANGED head
    PROVE  HeadMoves
  BY DEF KnowledgeInv, MemoryOK, HeadOK, HeadKnows, HeadMoves

LEMMA AppendEffect ==
    ASSUME KnowledgeInv, NEW f \in Forgetter, forget[f].pc # "idle", AppendToHead(f)
    PROVE  HeadMoves
<1>1. tomb \in [Cand -> TombRow] /\ head \in HeadState /\ IsFiniteSet(head.entries)
  BY TypeNames DEF KnowledgeInv, MemoryOK
<1>2. PICK c \in Cand : c = forget[f].subject /\ tomb[c].id # 0
  BY CallHasTomb
<1> DEFINE entry == [id |-> tomb[c].id, subject |-> c, epoch |-> tomb[c].epoch]
<1>3. CASE UNCHANGED head
  BY <1>3, HeadIdles
<1>4. CASE /\ \A e \in head.entries : e.id # tomb[c].id
           /\ head' = [epoch |-> head.epoch + 1, entries |-> head.entries \cup {entry}]
  <2>1. entry \in [id : TombId, subject : Cand, epoch : Nat]
    BY <1>1, <1>2, KnowledgeAssumption DEF TombRow, TombId
  <2>2. entry.id = tomb[c].id /\ entry.subject = c
    OBVIOUS
  <2> HIDE DEF entry
  <2>3. head'.entries = head.entries \cup {entry} /\ head'.epoch = head.epoch + 1
    BY <1>4
  <2>4. head' \in HeadState
    BY <1>1, <1>4, <2>1 DEF HeadState
  <2>5. IsFiniteSet(head'.entries)
    BY <1>1, <2>3, FS_AddElement
  <2>6. \A e, g \in head.entries : e.id = g.id => e.subject = g.subject
    BY DEF KnowledgeInv, HeadOK
  <2>7. \A e \in head.entries, d \in Cand : e.id = tomb[d].id => e.subject = d
    BY DEF KnowledgeInv, HeadOK, HeadKnows
  <2>8. \A d \in Cand : tomb[d].id = tomb[c].id => d = c
    BY <1>2 DEF KnowledgeInv, TombsOK
  <2>9. \A e, g \in head'.entries : e.id = g.id => e.subject = g.subject
    BY <1>4, <2>2, <2>3, <2>6
  <2>10. \A e \in head'.entries, d \in Cand : e.id = tomb[d].id => e.subject = d
    BY <2>2, <2>3, <2>7, <2>8
  <2> QED
    BY <1>2, <2>2, <2>3, <2>4, <2>5, <2>9, <2>10 DEF HeadMoves
<1> QED
  BY <1>2, <1>3, <1>4 DEF AppendToHead

\* The head goes on knowing the tombstones when only their status moves.
LEMMA HeadGoesOn ==
    ASSUME KnowledgeInv, HeadMoves, \A c \in Cand : tomb'[c].id = tomb[c].id,
           \A c \in Cand : tomb'[c].status = "restore-safe" =>
             \/ tomb[c].status = "restore-safe"
             \/ \E e \in head.entries : e.id = tomb[c].id /\ e.subject = c
    PROVE  HeadOK'
<1>1. \A c \in Cand : tomb[c].status = "restore-safe" =>
        \E e \in head.entries : e.id = tomb[c].id /\ e.subject = c
  BY DEF KnowledgeInv, HeadOK, HeadKnows
<1>2. \A c \in Cand : tomb'[c].status = "restore-safe" =>
        \E e \in head'.entries : e.id = tomb'[c].id /\ e.subject = c
  BY <1>1 DEF HeadMoves
<1>3. \A e \in head'.entries, c \in Cand : e.id = tomb'[c].id => e.subject = c
  BY DEF HeadMoves
<1> QED
  BY <1>2, <1>3 DEF HeadMoves, HeadOK, HeadKnows

\* A step that moves the status of a tombstone, the head or the call, and
\* makes no new tombstone.
LEMMA ForgetGoesOn ==
    ASSUME KnowledgeInv, HeadMoves,
           UNCHANGED <<lease, cand, run, gen, disk, job, reader, faults, backup, restore>>,
           tomb' \in [Cand -> TombRow], TombsOK(tomb)', UNCHANGED Suppressed,
           \A c \in Cand : tomb'[c].id = tomb[c].id,
           \A c \in Cand : tomb'[c].status = "restore-safe" =>
             \/ tomb[c].status = "restore-safe"
             \/ \E e \in head.entries : e.id = tomb[c].id /\ e.subject = c,
           reg' \in RegState,
           reg'.active = reg.active, reg'.pub = reg.pub, reg'.tomb = reg.tomb,
           forget' \in [Forgetter -> ForgetState], \A f \in Forgetter : ForgetMove(f)
    PROVE  KnowledgeInv'
<1>1. TypeOK' /\ RunInv
  BY TypeNames DEF KnowledgeInv, MemoryOK, RunInv, TypeOK, RegState, TombRow
<1>2. RunInv'
  BY <1>1, SuppressionGrows
<1>3. HeadOK'
  BY HeadGoesOn
<1>4. reg.tomb <= reg'.tomb
  BY <1>1, TypeNames DEF RunInv, RegState
<1> QED
  BY <1>2, <1>3, <1>4, ForgetStep DEF HeadMoves

LEMMA ForgetReadsHeadInv ==
    ASSUME KnowledgeInv, NEW f \in Forgetter, ForgetReadsHead(f), UNCHANGED backupVars
    PROVE  KnowledgeInv'
<1>1. /\ UNCHANGED <<lease, cand, run, gen, disk, job, head, reader, faults, backup, restore>>
      /\ forget[f].pc = "reading"
  BY DEF ForgetReadsHead, backupVars
<1>2. HeadMoves
  BY <1>1, HeadIdles
<1>3. CASE Pending(f, TRUE)
  BY <1>1, <1>2, <1>3, PendingEffect, ForgetGoesOn
<1>4. CASE forget' = [forget EXCEPT ![f].pc = "appending", ![f].remote = head] /\ UNCHANGED <<tomb, reg>>
  <2>1. /\ tomb \in [Cand -> TombRow] /\ TombsOK(tomb) /\ reg \in RegState
        /\ forget \in [Forgetter -> ForgetState] /\ head \in HeadState
    BY TypeNames DEF KnowledgeInv, MemoryOK
  <2>2. /\ forget' \in [Forgetter -> ForgetState] /\ forget'[f].subject = forget[f].subject
        /\ forget'[f].remote = head
        /\ \A g \in Forgetter \ {f} : forget'[g] = forget[g]
    BY <1>4, <2>1 DEF ForgetState
  <2>3. forget[f].subject \in Cand /\ tomb[forget[f].subject].id # 0
    BY <1>1, CallHasTomb
  <2>4. \A g \in Forgetter : ForgetMove(g)
    BY <1>1, <1>4, <2>1, <2>2, <2>3 DEF ForgetMove
  <2>5. TombsOK(tomb)' /\ UNCHANGED Suppressed
    BY <1>4, <2>1 DEF TombsOK, Suppressed
  <2> QED
    BY <1>1, <1>2, <1>4, <2>1, <2>2, <2>4, <2>5, ForgetGoesOn
<1> QED
  BY <1>3, <1>4 DEF ForgetReadsHead

\* What the head contains it knows.
LEMMA ContainedIsKnown ==
    ASSUME KnowledgeInv, NEW f \in Forgetter, forget[f].pc # "idle",
           NEW h, h.entries \subseteq head.entries, Contains(h, forget[f].subject)
    PROVE  \A c \in Cand : c = forget[f].subject =>
             \E e \in head.entries : e.id = tomb[c].id /\ e.subject = c
  BY DEF Contains, KnowledgeInv, HeadOK, HeadKnows

LEMMA ForgetAppendsInv ==
    ASSUME KnowledgeInv, NEW f \in Forgetter, ForgetAppends(f), UNCHANGED backupVars
    PROVE  KnowledgeInv'
<1>1. /\ UNCHANGED <<lease, cand, run, gen, disk, job, reader, faults, backup, restore>>
      /\ forget[f].pc = "appending"
  BY DEF ForgetAppends, backupVars
<1>2. /\ tomb \in [Cand -> TombRow] /\ TombsOK(tomb) /\ reg \in RegState
      /\ forget \in [Forgetter -> ForgetState] /\ head \in HeadState
  BY TypeNames DEF KnowledgeInv, MemoryOK
<1>3. forget[f].subject \in Cand /\ tomb[forget[f].subject].id # 0
  BY <1>1, CallHasTomb
<1>4. forget[f].remote \in HeadState /\ forget[f].remote.entries \subseteq head.entries
  BY <1>1 DEF KnowledgeInv, ForgetsOK
<1>5. CASE /\ Contains(forget[f].remote, forget[f].subject)
           /\ Settle(f, forget[f].remote)
           /\ UNCHANGED head
  <2>1. HeadMoves
    BY <1>5, HeadIdles
  <2>2. \A c \in Cand : c = forget[f].subject =>
          \E e \in head.entries : e.id = tomb[c].id /\ e.subject = c
    BY <1>1, <1>4, <1>5, ContainedIsKnown
  <2> QED
    BY <1>1, <1>4, <1>5, <2>1, <2>2, SettleEffect, ForgetGoesOn
<1>6. CASE AppendToHead(f) /\ Call(f, "reading-back") /\ UNCHANGED <<tomb, reg>>
  <2>1. HeadMoves
    BY <1>1, <1>6, AppendEffect
  <2>2. /\ forget' \in [Forgetter -> ForgetState] /\ forget'[f].subject = forget[f].subject
        /\ forget'[f].pc = "reading-back"
        /\ \A g \in Forgetter \ {f} : forget'[g] = forget[g]
    BY <1>2, <1>6 DEF ForgetState, Call
  <2>3. \A g \in Forgetter : ForgetMove(g)
    BY <1>3, <1>6, <2>2 DEF ForgetMove
  <2>4. TombsOK(tomb)' /\ UNCHANGED Suppressed
    BY <1>2, <1>6 DEF TombsOK, Suppressed
  <2> QED
    BY <1>1, <1>2, <1>6, <2>1, <2>2, <2>3, <2>4, ForgetGoesOn
<1>7. CASE AppendToHead(f) /\ Pending(f, TRUE)
  <2>1. HeadMoves
    BY <1>1, <1>7, AppendEffect
  <2> QED
    BY <1>1, <1>7, <2>1, PendingEffect, ForgetGoesOn
<1>8. CASE Pending(f, TRUE) /\ UNCHANGED head
  <2>1. HeadMoves
    BY <1>8, HeadIdles
  <2> QED
    BY <1>1, <1>8, <2>1, PendingEffect, ForgetGoesOn
<1>9. CASE /\ forget' = [forget EXCEPT ![f].remote = head, ![f].attempt = @ + 1]
           /\ UNCHANGED <<tomb, reg, head>>
  <2>1. HeadMoves
    BY <1>9, HeadIdles
  <2>2. /\ forget' \in [Forgetter -> ForgetState] /\ forget'[f].subject = forget[f].subject
        /\ forget'[f].remote = head
        /\ \A g \in Forgetter \ {f} : forget'[g] = forget[g]
    BY <1>2, <1>9 DEF ForgetState
  <2>3. \A g \in Forgetter : ForgetMove(g)
    BY <1>2, <1>3, <1>9, <2>2 DEF ForgetMove
  <2>4. TombsOK(tomb)' /\ UNCHANGED Suppressed
    BY <1>2, <1>9 DEF TombsOK, Suppressed
  <2> QED
    BY <1>1, <1>2, <1>9, <2>1, <2>2, <2>3, <2>4, ForgetGoesOn
<1> QED
  BY <1>5, <1>6, <1>7, <1>8, <1>9 DEF ForgetAppends

LEMMA ForgetReadsBackInv ==
    ASSUME KnowledgeInv, NEW f \in Forgetter, ForgetReadsBack(f), UNCHANGED backupVars
    PROVE  KnowledgeInv'
<1>1. /\ UNCHANGED <<lease, cand, run, gen, disk, job, head, reader, faults, backup, restore>>
      /\ forget[f].pc = "reading-back"
  BY DEF ForgetReadsBack, backupVars
<1>2. HeadMoves /\ head \in HeadState
  BY <1>1, HeadIdles DEF KnowledgeInv, MemoryOK
<1>3. CASE Pending(f, FALSE)
  BY <1>1, <1>2, <1>3, PendingEffect, ForgetGoesOn
<1>4. CASE Contains(head, forget[f].subject) /\ Settle(f, head)
  <2>1. \A c \in Cand : c = forget[f].subject =>
          \E e \in head.entries : e.id = tomb[c].id /\ e.subject = c
    BY <1>1, <1>4, ContainedIsKnown
  <2> QED
    BY <1>1, <1>2, <1>4, <2>1, SettleEffect, ForgetGoesOn
<1> QED
  BY <1>3, <1>4 DEF ForgetReadsBack

LEMMA CrashForgetInv ==
    ASSUME KnowledgeInv, NEW f \in Forgetter, CrashForget(f), UNCHANGED backupVars
    PROVE  KnowledgeInv'
<1>1. UNCHANGED <<reg, lease, cand, run, gen, tomb, disk, job, head, reader, backup, restore>>
  BY DEF CrashForget, registry, backupVars
<1>2. RunInv'
  <2>1. TypeOK' /\ job' \in [Run -> JobState] /\ faults' \in Nat
    BY <1>1 DEF KnowledgeInv, MemoryOK, TypeOK, CrashForget
  <2>2. UNCHANGED Suppressed
    BY <1>1 DEF Suppressed
  <2> QED
    BY <1>1, <2>1, <2>2 DEF KnowledgeInv, RunInv, RegistryOK, JobsOK, Live
<1>3. forget' \in [Forgetter -> ForgetState] /\ \A g \in Forgetter : ForgetMove(g)
  BY ReturnEffect DEF KnowledgeInv, MemoryOK, CrashForget
<1>4. TombsOK(tomb)' /\ HeadOK'
  BY <1>1 DEF KnowledgeInv, TombsOK, HeadOK, HeadKnows
<1>5. head \in HeadState /\ IsFiniteSet(head.entries)
  BY DEF KnowledgeInv, MemoryOK
<1>6. reg.tomb <= reg.tomb
  BY TypeNames DEF KnowledgeInv, RegState
<1>7. UNCHANGED Suppressed
  BY <1>1 DEF Suppressed
<1> QED
  BY <1>1, <1>2, <1>3, <1>4, <1>5, <1>6, <1>7, ForgetStep

\* A call that starts has a tombstone for its subject.
LEMMA CallStarts ==
    ASSUME forget \in [Forgetter -> ForgetState], NEW f \in Forgetter, NEW c \in Cand, tomb'[c].id # 0,
           forget' = [forget EXCEPT ![f] = [NoForget EXCEPT !.pc = "reading", !.subject = c]]
    PROVE  forget' \in [Forgetter -> ForgetState] /\ \A g \in Forgetter : ForgetMove(g)
<1> DEFINE start == [NoForget EXCEPT !.pc = "reading", !.subject = c]
<1>1. start \in ForgetState /\ start.pc = "reading" /\ start.subject = c
  BY DEF NoForget, ForgetState
<1> HIDE DEF start
<1>2. forget' = [forget EXCEPT ![f] = start]
  BY DEF start
<1>3. forget' \in [Forgetter -> ForgetState] /\ forget'[f] = start
      /\ \A g \in Forgetter \ {f} : forget'[g] = forget[g]
  BY <1>1, <1>2
<1> QED
  BY <1>1, <1>3 DEF ForgetMove

\* A new tombstone has an identifier nobody has, and the epoch moves with it.
LEMMA NewTombstone ==
    ASSUME KnowledgeInv, NEW c \in Cand, tomb[c].status = "none", NEW id \in FreshTombIds,
           tomb' = [tomb EXCEPT ![c] = [id |-> id, epoch |-> reg.tomb + 1,
                                        status |-> "local-suppressed", outbox |-> "pending"]],
           UNCHANGED head
    PROVE  /\ tomb' \in [Cand -> TombRow] /\ TombsOK(tomb)' /\ HeadOK'
           /\ tomb'[c].id # 0
           /\ \A d \in Cand : tomb[d].id # 0 => tomb'[d].id = tomb[d].id
           /\ Suppressed \subseteq Suppressed'
<1> DEFINE row == [id |-> id, epoch |-> reg.tomb + 1,
                   status |-> "local-suppressed", outbox |-> "pending"]
<1>1. tomb \in [Cand -> TombRow] /\ reg.tomb \in Nat
  BY TypeNames DEF KnowledgeInv, RegState
<1>2. /\ id \in TombId /\ id # 0 /\ id \in 0 .. MaxTombs
      /\ \A e \in head.entries : e.id # id
      /\ \A d \in Cand : tomb[d].id # id
  BY KnowledgeAssumption DEF FreshTombIds, TombId
<1>3. row \in TombRow
  BY <1>1, <1>2 DEF TombRow
<1>4. row.id = id /\ row.status = "local-suppressed"
  OBVIOUS
<1> HIDE DEF row
<1>5. tomb' = [tomb EXCEPT ![c] = row]
  BY DEF row
<1>6. /\ tomb' \in [Cand -> TombRow] /\ tomb'[c] = row
      /\ \A d \in Cand \ {c} : tomb'[d] = tomb[d]
  BY <1>1, <1>3, <1>5
<1>7. tomb[c].id = 0
  BY DEF KnowledgeInv, TombsOK
<1>8. TombsOK(tomb)'
  BY <1>2, <1>4, <1>6 DEF KnowledgeInv, TombsOK
<1>9. HeadOK'
  <2>1. \A e \in head.entries, d \in Cand : e.id = tomb'[d].id => e.subject = d
    BY <1>2, <1>4, <1>6 DEF KnowledgeInv, HeadOK, HeadKnows
  <2>2. \A d \in Cand : tomb'[d].status = "restore-safe" =>
          \E e \in head.entries : e.id = tomb'[d].id /\ e.subject = d
    BY <1>4, <1>6 DEF KnowledgeInv, HeadOK, HeadKnows
  <2> QED
    BY <2>1, <2>2 DEF KnowledgeInv, HeadOK, HeadKnows
<1>10. Suppressed \subseteq Suppressed'
  BY <1>6 DEF Suppressed
<1> QED
  BY <1>2, <1>4, <1>6, <1>7, <1>8, <1>9, <1>10

LEMMA ForgetLocallyInv ==
    ASSUME KnowledgeInv, NEW f \in Forgetter, NEW c \in Cand, ForgetLocally(f, c), UNCHANGED backupVars
    PROVE  KnowledgeInv'
<1>1. UNCHANGED <<lease, cand, run, gen, disk, job, head, reader, faults, backup, restore>>
  BY DEF ForgetLocally, backupVars
<1>2. /\ tomb \in [Cand -> TombRow] /\ TombsOK(tomb) /\ reg \in RegState
      /\ forget \in [Forgetter -> ForgetState] /\ head \in HeadState /\ IsFiniteSet(head.entries)
  BY TypeNames DEF KnowledgeInv, MemoryOK
<1>3. CASE tomb[c].status = "none"
  <2>1. PICK id \in FreshTombIds :
          tomb' = [tomb EXCEPT ![c] = [id |-> id, epoch |-> reg.tomb + 1,
                                       status |-> "local-suppressed", outbox |-> "pending"]]
    BY <1>3 DEF ForgetLocally
  <2>2. /\ tomb' \in [Cand -> TombRow] /\ TombsOK(tomb)' /\ HeadOK'
        /\ tomb'[c].id # 0
        /\ \A d \in Cand : tomb[d].id # 0 => tomb'[d].id = tomb[d].id
        /\ Suppressed \subseteq Suppressed'
    BY <1>1, <1>3, <2>1, NewTombstone
  <2>3. /\ reg' = [reg EXCEPT !.tomb = @ + 1, !.repair = "head_sync_pending"]
        /\ forget' = [forget EXCEPT ![f] = [NoForget EXCEPT !.pc = "reading", !.subject = c]]
    BY <1>3 DEF ForgetLocally
  <2>4. /\ reg' \in RegState /\ reg'.active = reg.active /\ reg'.pub = reg.pub
        /\ reg.tomb <= reg'.tomb /\ reg.tomb # reg'.tomb
    <3>1. /\ reg.tomb \in Nat
          /\ reg.tomb + 1 \in Nat /\ reg.tomb <= reg.tomb + 1 /\ reg.tomb # reg.tomb + 1
      BY <1>2 DEF RegState
    <3>2. PICK next \in Nat : next = reg.tomb + 1
      BY <3>1
    <3>3. reg' = [reg EXCEPT !.tomb = next, !.repair = "head_sync_pending"]
      BY <1>2, <2>3, <3>2 DEF RegState
    <3>4. /\ reg' \in RegState /\ reg'.active = reg.active /\ reg'.pub = reg.pub
          /\ reg'.tomb = next
      BY <1>2, <3>3 DEF RegState, Repair
    <3> QED
      BY <3>1, <3>2, <3>4
  <2>5. RunInv'
    <3>1. TypeOK' /\ RunInv
      BY <1>1, <2>2, <2>4, TypeNames DEF KnowledgeInv, MemoryOK, RunInv, TypeOK, RegState, TombRow
    <3> QED
      BY <1>1, <2>2, <2>4, <3>1, SuppressionGrows
  <2>6. forget' \in [Forgetter -> ForgetState] /\ \A g \in Forgetter : ForgetMove(g)
    BY <1>2, <2>2, <2>3, CallStarts
  <2> QED
    BY <1>1, <1>2, <2>2, <2>4, <2>5, <2>6, ForgetStep
<1>4. CASE tomb[c].status # "none"
  <2>1. UNCHANGED tomb
    BY <1>4 DEF ForgetLocally
  <2>2. UNCHANGED reg \/ SetRepair("needs-repair")
    BY <1>4 DEF ForgetLocally
  <2>3. /\ reg' \in RegState
        /\ reg'.active = reg.active /\ reg'.pub = reg.pub /\ reg'.tomb = reg.tomb
    <3>1. "needs-repair" \in Repair
      BY DEF Repair
    <3>2. CASE UNCHANGED reg
      BY <1>2, <3>2
    <3>3. CASE SetRepair("needs-repair")
      BY <1>2, <3>1, <3>3, RepairEffect
    <3> QED
      BY <2>2, <3>2, <3>3
  <2>4. forget' \in [Forgetter -> ForgetState] /\ \A g \in Forgetter : ForgetMove(g)
    <3>1. CASE UNCHANGED forget
      BY <1>2, <3>1 DEF ForgetMove
    <3>2. CASE forget' = [forget EXCEPT ![f] = [NoForget EXCEPT !.pc = "reading", !.subject = c]]
      <4>1. tomb'[c].id # 0
        BY <1>2, <1>4, <2>1 DEF TombsOK
      <4> QED
        BY <1>2, <3>2, <4>1, CallStarts
    <3> QED
      BY <3>1, <3>2 DEF ForgetLocally
  <2>5. TombsOK(tomb)' /\ UNCHANGED Suppressed
    BY <1>2, <2>1 DEF TombsOK, Suppressed
  <2>6. HeadMoves
    BY <1>1, HeadIdles
  <2> QED
    BY <1>1, <1>2, <2>1, <2>3, <2>4, <2>5, <2>6, ForgetGoesOn
<1> QED
  BY <1>3, <1>4

-----------------------------------------------------------------------------
(* The steps of a retrieval *)

\* A step of the reader changes nothing else but the repair state.
LEMMA ReaderStep ==
    ASSUME KnowledgeInv, ReaderOK', reader' \in ReaderState,
           UNCHANGED <<lease, cand, run, gen, disk, tomb, job, head, forget, faults, backup, restore>>,
           UNCHANGED reg \/ SetRepair("needs-repair")
    PROVE  KnowledgeInv'
<1>1. reg \in RegState /\ "needs-repair" \in Repair
  BY TypeNames DEF KnowledgeInv, Repair
<1>2. /\ reg' \in RegState
      /\ reg'.active = reg.active /\ reg'.pub = reg.pub /\ reg'.tomb = reg.tomb
  <2>1. CASE UNCHANGED reg
    BY <1>1, <2>1
  <2>2. CASE SetRepair("needs-repair")
    BY <1>1, <2>2, RepairEffect
  <2> QED
    BY <2>1, <2>2
<1>3. UNCHANGED Suppressed
  BY DEF Suppressed
<1>4. TypeOK' /\ RunInv
  BY <1>2, TypeNames DEF KnowledgeInv, MemoryOK, RunInv, TypeOK, RegState
<1>5. RunInv'
  BY <1>2, <1>3, <1>4, SuppressionGrows
<1>6. TypeOK' /\ MemoryOK' /\ RegistryOK(reg, lease, cand, gen, tomb)' /\ JobsOK'
  BY <1>5 DEF KnowledgeInv, RunInv, MemoryOK
<1>7. TombsOK(tomb)' /\ HeadOK' /\ ForgetsOK'
  BY DEF KnowledgeInv, TombsOK, HeadOK, HeadKnows, ForgetsOK
<1>8. BackupOK' /\ RestoreOK'
  BY DEF KnowledgeInv, BackupOK, HeadKnows, RestoreOK
<1> QED
  BY <1>6, <1>7, <1>8 DEF KnowledgeInv

LEMMA RetrieveOpensInv ==
    ASSUME KnowledgeInv, NEW d \in Domain, RetrieveOpens(d), UNCHANGED backupVars
    PROVE  KnowledgeInv'
<1>1. /\ UNCHANGED <<lease, cand, run, gen, disk, tomb, job, head, forget, faults, backup, restore>>
      /\ UNCHANGED reg \/ SetRepair("needs-repair")
  BY DEF RetrieveOpens, backupVars
<1>2. reg \in RegState /\ reader \in ReaderState /\ ReaderOK
  BY TypeNames DEF KnowledgeInv, MemoryOK
<1>3. CASE reader' = [NoReader EXCEPT !.pc = "opened", !.fence = reg, !.domain = d] /\ UNCHANGED reg
  <2>1. reader' \in ReaderState /\ reader'.pc = "opened" /\ reader'.fence = reg
    BY <1>2, <1>3 DEF NoReader, ReaderState
  <2>2. reg.tomb <= reg.tomb
    BY <1>2 DEF RegState
  <2>3. ReaderOK'
    BY <1>2, <1>3, <2>1, <2>2 DEF ReaderOK
  <2> QED
    BY <1>1, <2>1, <2>3, ReaderStep
<1>4. CASE SetRepair("needs-repair") /\ UNCHANGED reader
  <2>1. reader.pc = "idle"
    BY DEF RetrieveOpens
  <2>2. reader' \in ReaderState /\ ReaderOK'
    BY <1>2, <1>4, <2>1 DEF ReaderOK
  <2> QED
    BY <1>1, <2>2, ReaderStep
<1> QED
  BY <1>3, <1>4 DEF RetrieveOpens

LEMMA RetrieveReadsTombstonesInv ==
    ASSUME KnowledgeInv, RetrieveReadsTombstones, UNCHANGED backupVars
    PROVE  KnowledgeInv'
<1>1. UNCHANGED <<reg, lease, cand, run, gen, disk, tomb, job, head, forget, faults, backup, restore>>
  BY DEF RetrieveReadsTombstones, registry, backupVars
<1>2. reader \in ReaderState /\ ReaderOK /\ reader.pc = "opened"
  BY DEF KnowledgeInv, MemoryOK, RetrieveReadsTombstones
<1>3. /\ reader' \in ReaderState /\ reader'.pc = "reading" /\ reader'.tombs = Suppressed
      /\ reader'.fence = reader.fence
  <2>1. Suppressed \in SUBSET Cand
    BY DEF Suppressed
  <2> QED
    BY <1>2, <2>1 DEF RetrieveReadsTombstones, ReaderState
<1>4. UNCHANGED Suppressed
  BY <1>1 DEF Suppressed
<1>5. ReaderOK'
  BY <1>1, <1>2, <1>3, <1>4 DEF ReaderOK
<1> QED
  BY <1>1, <1>3, <1>5, ReaderStep

LEMMA RetrieveReturnsInv ==
    ASSUME KnowledgeInv, RetrieveReturns, UNCHANGED backupVars
    PROVE  KnowledgeInv'
<1>1. /\ UNCHANGED <<lease, cand, run, gen, disk, tomb, job, head, forget, faults, backup, restore>>
      /\ UNCHANGED reg \/ SetRepair("needs-repair")
      /\ reader' = NoReader
  BY DEF RetrieveReturns, backupVars
<1>2. reader' \in ReaderState /\ ReaderOK'
  BY <1>1, EmptyTypes DEF NoReader, ReaderOK
<1> QED
  BY <1>1, <1>2, ReaderStep

LEMMA ServiceStepInv ==
    ASSUME KnowledgeInv, ServiceStep
    PROVE  KnowledgeInv'
<1>1. KnowledgeStep /\ UNCHANGED backupVars
  BY DEF ServiceStep
<1>2. CASE \E c \in Cand : AdmitCandidate(c)
  BY <1>1, <1>2, AdmitCandidateInv
<1>3. CASE \E r \in Run : RunStep(r)
  BY <1>1, <1>3, RunStepInv
<1>4. CASE \E f \in Forgetter, c \in Cand : ForgetLocally(f, c)
  BY <1>1, <1>4, ForgetLocallyInv
<1>5. CASE \E f \in Forgetter : ForgetReadsHead(f)
  BY <1>1, <1>5, ForgetReadsHeadInv
<1>6. CASE \E f \in Forgetter : ForgetAppends(f)
  BY <1>1, <1>6, ForgetAppendsInv
<1>7. CASE \E f \in Forgetter : ForgetReadsBack(f)
  BY <1>1, <1>7, ForgetReadsBackInv
<1>8. CASE \E f \in Forgetter : CrashForget(f)
  BY <1>1, <1>8, CrashForgetInv
<1>9. CASE \E d \in Domain : RetrieveOpens(d)
  BY <1>1, <1>9, RetrieveOpensInv
<1>10. CASE RetrieveReadsTombstones
  BY <1>1, <1>10, RetrieveReadsTombstonesInv
<1>11. CASE RetrieveReturns
  BY <1>1, <1>11, RetrieveReturnsInv
<1> QED
  BY <1>1, <1>2, <1>3, <1>4, <1>5, <1>6, <1>7, <1>8, <1>9, <1>10, <1>11 DEF KnowledgeStep, RunStep

-----------------------------------------------------------------------------
(* The backup and the restore *)

\* A step of the backup changes nothing but the set.
LEMMA BackupStep ==
    ASSUME KnowledgeInv,
           UNCHANGED <<registry, disk, job, head, forget, reader, restore>>, faults' \in Nat,
           backup' \in BackupState, BackupOK', backup.phase # "failed"
    PROVE  KnowledgeInv'
<1>1. UNCHANGED <<reg, lease, cand, run, gen, tomb, disk, job, head, forget, reader, restore>>
  BY DEF registry
<1>2. UNCHANGED Suppressed
  BY <1>1 DEF Suppressed
<1>3. TypeOK'
  BY <1>1 DEF KnowledgeInv, TypeOK
<1>4. MemoryOK'
  BY <1>1 DEF KnowledgeInv, MemoryOK
<1>5. RegistryOK(reg, lease, cand, gen, tomb)' /\ JobsOK'
  BY <1>1, <1>2 DEF KnowledgeInv, RegistryOK, JobsOK, Live
<1>6. TombsOK(tomb)' /\ HeadOK' /\ ForgetsOK' /\ ReaderOK'
  BY <1>1, <1>2 DEF KnowledgeInv, TombsOK, HeadOK, HeadKnows, ForgetsOK, ReaderOK
<1>7. RestoreOK'
  BY <1>1 DEF KnowledgeInv, RestoreOK
<1> QED
  BY <1>3, <1>4, <1>5, <1>6, <1>7 DEF KnowledgeInv

\* The copies stay what they were.
LEMMA CopiesStay ==
    ASSUME KnowledgeInv, UNCHANGED <<registry, head>>, backup.phase \notin {"none", "failed"},
           backup'.registry = backup.registry, backup'.tombs = backup.tombs
    PROVE  BackupOK'
  BY DEF KnowledgeInv, BackupOK, HeadKnows, registry

\* The copy is the registry of this moment.
LEMMA BackupStoresInv ==
    ASSUME KnowledgeInv, BackupStores
    PROVE  KnowledgeInv'
<1>1. /\ UNCHANGED <<registry, disk, job, head, forget, reader, restore>>
      /\ faults' \in Nat /\ backup.phase = "none"
  BY DEF KnowledgeInv, MemoryOK, BackupStores
<1>2. tomb \in [Cand -> TombRow] /\ SqliteCopy \in SqliteState
  BY TypeNames DEF KnowledgeInv, SqliteCopy, SqliteState
<1>3. /\ SqliteCopy.reg = reg /\ SqliteCopy.lease = lease /\ SqliteCopy.cand = cand
      /\ SqliteCopy.gen = gen
  BY DEF SqliteCopy
<1>4. backup' = [NoBackup EXCEPT !.phase = "stores", !.registry = SqliteCopy, !.tombs = tomb]
  BY DEF BackupStores
<1> DEFINE copy == SqliteCopy
<1> HIDE DEF copy
<1>5. backup' = [NoBackup EXCEPT !.phase = "stores", !.registry = copy, !.tombs = tomb]
  BY <1>4 DEF copy
<1>6. copy \in SqliteState
  BY <1>2 DEF copy
<1>7. /\ backup' \in BackupState /\ backup'.registry = copy /\ backup'.tombs = tomb
      /\ backup'.phase = "stores"
  BY <1>2, <1>5, <1>6 DEF NoBackup, BackupState
<1>8. backup'.registry = SqliteCopy
  BY <1>7 DEF copy
<1>9. RegistryOK(backup.registry.reg, backup.registry.lease, backup.registry.cand,
                 backup.registry.gen, backup.tombs)'
  BY <1>3, <1>7, <1>8 DEF KnowledgeInv, RegistryOK
<1>10. TombsOK(backup.tombs)' /\ HeadKnows(backup.tombs)'
  BY <1>1, <1>7 DEF KnowledgeInv, TombsOK, HeadOK, HeadKnows
<1>11. \A c \in Cand : backup'.tombs[c].id # 0 => tomb'[c].id = backup'.tombs[c].id
  BY <1>1, <1>7 DEF registry
<1>12. BackupOK'
  BY <1>2, <1>6, <1>7, <1>9, <1>10, <1>11 DEF BackupOK
<1> QED
  BY <1>1, <1>7, <1>12, BackupStep

LEMMA BackupGoesOnInv ==
    ASSUME KnowledgeInv, BackupVault \/ BackupManifest \/ BackupFails \/ UploadBackup
    PROVE  KnowledgeInv'
<1>1. /\ UNCHANGED <<registry, disk, job, head, forget, reader, faults, restore>>
      /\ backup.phase \in {"stores", "vault", "local"}
  BY DEF BackupVault, BackupManifest, BackupFails, UploadBackup, knowledgeVars
<1>2. /\ backup \in BackupState /\ faults' \in Nat /\ disk \in SUBSET Run
      /\ tomb \in [Cand -> TombRow]
  BY <1>1, TypeNames DEF KnowledgeInv, MemoryOK
<1>3. CASE BackupVault
  <2>1. /\ backup' \in BackupState
        /\ backup'.registry = backup.registry /\ backup'.tombs = backup.tombs
    BY <1>2, <1>3 DEF BackupVault, BackupState
  <2> QED
    BY <1>1, <1>2, <2>1, CopiesStay, BackupStep
<1>4. CASE BackupManifest
  <2>1. UnfinishedForgets \in SUBSET (0 .. MaxTombs)
    BY <1>2 DEF UnfinishedForgets, TombRow
  <2>2. /\ backup' \in BackupState
        /\ backup'.registry = backup.registry /\ backup'.tombs = backup.tombs
    BY <1>2, <1>4, <2>1 DEF BackupManifest, BackupState
  <2> QED
    BY <1>1, <1>2, <2>2, CopiesStay, BackupStep
<1>5. CASE BackupFails
  <2>1. backup' \in BackupState /\ backup'.phase = "failed"
    BY <1>5, EmptyTypes DEF BackupFails, BackupState
  <2>2. BackupOK'
    BY <2>1 DEF BackupOK
  <2> QED
    BY <1>1, <1>2, <2>1, <2>2, BackupStep
<1>6. CASE UploadBackup
  <2>1. /\ backup' \in BackupState
        /\ backup'.registry = backup.registry /\ backup'.tombs = backup.tombs
    BY <1>2, <1>6 DEF UploadBackup, UploadOutcomes, BackupState
  <2> QED
    BY <1>1, <1>2, <2>1, CopiesStay, BackupStep
<1> QED
  BY <1>3, <1>4, <1>5, <1>6

\* The new host starts from the copies, with no process at work.
LEMMA RestoreBackupInv ==
    ASSUME KnowledgeInv, RestoreBackup
    PROVE  KnowledgeInv'
<1> DEFINE copy == backup.registry
<1>1. /\ UNCHANGED <<head, faults, backup>>
      /\ reg' = copy.reg /\ lease' = copy.lease /\ cand' = copy.cand /\ run' = copy.run
      /\ gen' = copy.gen /\ tomb' = backup.tombs /\ disk' = backup.disk
      /\ forget' = [f \in Forgetter |-> NoForget] /\ reader' = NoReader
      /\ restore' = [restore EXCEPT !.pc = "restored"]
      /\ backup.phase \notin {"none", "failed"}
  BY DEF RestoreBackup, VerifyBackup, HasManifest, UploadOutcomes
<1>2. /\ copy \in SqliteState /\ backup.tombs \in [Cand -> TombRow]
      /\ RegistryOK(copy.reg, copy.lease, copy.cand, copy.gen, backup.tombs)
      /\ TombsOK(backup.tombs) /\ HeadKnows(backup.tombs)
  BY <1>1 DEF KnowledgeInv, BackupOK
<1>3. copy.lease \in Int
  BY <1>2, KnowledgeAssumption DEF SqliteState
<1>4. job' = [r \in Run |-> IF r <= copy.lease THEN [NoJob EXCEPT !.pc = "over"] ELSE NoJob]
  BY DEF RestoreBackup
<1>5. /\ copy.reg \in RegState /\ copy.lease \in 0 .. MaxRuns /\ copy.cand \in CandTable
      /\ copy.run \in [Run -> RunRow] /\ copy.gen \in [Run -> GenRow]
  BY <1>2 DEF SqliteState
<1> HIDE DEF copy
<1>6. TypeOK'
  <2>1. disk' \subseteq Run
    BY <1>1 DEF KnowledgeInv, MemoryOK, BackupState
  <2> QED
    BY <1>1, <1>2, <1>5, <2>1
       DEF TypeOK, RegState, CandTable, RunRow, GenRow, TombRow
<1>7. /\ job' \in [Run -> JobState]
      /\ \A r \in Run : r > lease' => job'[r].pc = "none"
      /\ \A r \in Run : job'[r].pc \in {"none", "over"}
  <2>1. NoJob \in JobState /\ NoJob.pc = "none"
    BY EmptyTypes DEF NoJob
  <2>2. [NoJob EXCEPT !.pc = "over"] \in JobState /\ [NoJob EXCEPT !.pc = "over"].pc = "over"
    BY <2>1 DEF JobState
  <2>3. \A r \in Run : r > lease' => ~(r <= copy.lease)
    BY <1>1, <1>3, KnowledgeAssumption DEF Run
  <2> QED
    BY <1>4, <2>1, <2>2, <2>3
<1>8. MemoryOK'
  <2>1. forget' \in [Forgetter -> ForgetState] /\ reader' \in ReaderState
    BY <1>1, EmptyTypes
  <2>2. restore' \in RestoreState
    BY <1>1 DEF KnowledgeInv, MemoryOK, RestoreState
  <2> QED
    BY <1>1, <1>7, <2>1, <2>2 DEF KnowledgeInv, MemoryOK
<1>9. RegistryOK(reg, lease, cand, gen, tomb)'
  BY <1>1, <1>2 DEF RegistryOK
<1>10. TombsOK(tomb)' /\ HeadOK'
  BY <1>1, <1>2 DEF KnowledgeInv, TombsOK, HeadOK, HeadKnows
<1>11. JobsOK'
  BY <1>7 DEF JobsOK, Live
<1>12. ForgetsOK' /\ ReaderOK'
  <2>1. ForgetsOK'
    BY <1>1 DEF ForgetsOK, NoForget
  <2>2. ReaderOK'
    BY <1>1 DEF ReaderOK, NoReader
  <2> QED
    BY <2>1, <2>2
<1>13. BackupOK'
  <2>1. HeadKnows(backup.tombs)'
    BY <1>1, <1>2 DEF HeadKnows
  <2>2. \A c \in Cand : backup'.tombs[c].id # 0 => tomb'[c].id = backup'.tombs[c].id
    BY <1>1
  <2>3. BackupOK
    BY DEF KnowledgeInv
  <2>4. UNCHANGED backup
    BY <1>1
  <2> QED
    BY <1>1, <2>1, <2>2, <2>3, <2>4 DEF BackupOK
<1>14. RestoreOK'
  <2>1. restore'.pc = "restored"
    BY <1>1 DEF KnowledgeInv, MemoryOK, RestoreState
  <2> QED
    BY <2>1 DEF RestoreOK
<1> QED
  BY <1>6, <1>8, <1>9, <1>10, <1>11, <1>12, <1>13, <1>14 DEF KnowledgeInv

\* A step of the restore that leaves the tombstones and the epochs alone.
LEMMA RestoreStep ==
    ASSUME KnowledgeInv,
           UNCHANGED <<lease, cand, run, gen, disk, tomb, job, head, forget, reader, faults>>,
           reg' \in RegState,
           reg'.active = reg.active, reg'.pub = reg.pub, reg'.tomb = reg.tomb,
           UNCHANGED backup \/ backup' = [NoBackup EXCEPT !.phase = "failed"],
           restore' \in RestoreState, RestoreOK'
    PROVE  KnowledgeInv'
<1>1. UNCHANGED Suppressed
  BY DEF Suppressed
<1>2. TypeOK' /\ RunInv
  BY TypeNames DEF KnowledgeInv, MemoryOK, RunInv, TypeOK, RegState
<1>3. RunInv'
  BY <1>1, <1>2, SuppressionGrows
<1>4. backup' \in BackupState /\ BackupOK'
  <2>1. CASE UNCHANGED backup
    BY <2>1 DEF KnowledgeInv, MemoryOK, BackupOK, HeadKnows
  <2>2. CASE backup' = [NoBackup EXCEPT !.phase = "failed"]
    <3>1. backup' \in BackupState /\ backup'.phase = "failed"
      BY <2>2, EmptyTypes DEF BackupState
    <3> QED
      BY <3>1 DEF BackupOK
  <2> QED
    BY <2>1, <2>2
<1>5. MemoryOK' /\ RegistryOK(reg, lease, cand, gen, tomb)' /\ JobsOK'
  BY <1>3, <1>4 DEF KnowledgeInv, RunInv, MemoryOK
<1>6. TombsOK(tomb)' /\ HeadOK' /\ ForgetsOK' /\ ReaderOK'
  BY <1>1 DEF KnowledgeInv, TombsOK, HeadOK, HeadKnows, ForgetsOK, ReaderOK
<1> QED
  BY <1>2, <1>4, <1>5, <1>6 DEF KnowledgeInv

LEMMA ReconcileReadsInv ==
    ASSUME KnowledgeInv, ReconcileReads
    PROVE  KnowledgeInv'
<1>1. /\ UNCHANGED <<lease, cand, run, gen, disk, tomb, job, head, forget, reader, faults>>
      /\ backup' = [NoBackup EXCEPT !.phase = "failed"]
      /\ SetRepair("needs-repair")
  BY DEF ReconcileReads
<1>2. reg \in RegState /\ head \in HeadState /\ restore \in RestoreState
  BY TypeNames DEF KnowledgeInv, MemoryOK
<1>3. /\ reg' \in RegState
      /\ reg'.active = reg.active /\ reg'.pub = reg.pub /\ reg'.tomb = reg.tomb
  BY <1>1, <1>2, RepairEffect DEF Repair
<1>4. CASE restore' = [NoRestore EXCEPT !.pc = "done", !.result = "needs-repair"]
  <2>1. restore' \in RestoreState /\ restore'.pc = "done"
    BY <1>4, EmptyTypes DEF RestoreState
  <2>2. RestoreOK'
    BY <2>1 DEF RestoreOK
  <2> QED
    BY <1>1, <1>3, <2>1, <2>2, RestoreStep
<1>5. CASE /\ ProvableEpochs(head)
           /\ restore' = [restore EXCEPT !.pc = "replaying", !.remote = head]
  <2>1. restore' \in RestoreState /\ restore'.pc = "replaying" /\ restore'.remote = head
    BY <1>2, <1>5 DEF RestoreState
  <2>2. backup'.phase = "failed"
    BY <1>1, EmptyTypes DEF BackupState
  <2>3. RestoreOK'
    BY <1>1, <1>2, <1>5, <2>1, <2>2 DEF RestoreOK, ProvableEpochs
  <2> QED
    BY <1>1, <1>3, <2>1, <2>3, RestoreStep
<1> QED
  BY <1>4, <1>5 DEF ReconcileReads

LEMMA ReconcileConfirmsInv ==
    ASSUME KnowledgeInv, ReconcileConfirms
    PROVE  KnowledgeInv'
<1>1. UNCHANGED <<lease, cand, run, gen, disk, tomb, job, head, forget, reader, faults, backup>>
  BY DEF ReconcileConfirms
<1>2. reg \in RegState /\ head \in HeadState
  BY TypeNames DEF KnowledgeInv, MemoryOK
<1>3. restore' \in RestoreState /\ restore'.pc = "done"
  BY EmptyTypes DEF ReconcileConfirms, NoRestore, RestoreState
<1>4. RestoreOK'
  BY <1>3 DEF RestoreOK
<1>5. /\ reg' \in RegState
      /\ reg'.active = reg.active /\ reg'.pub = reg.pub /\ reg'.tomb = reg.tomb
  <2>1. CASE SetRepair("needs-repair")
    BY <1>2, <2>1, RepairEffect DEF Repair
  <2>2. CASE reg' = [reg EXCEPT !.head = IF @ > head.epoch THEN @ ELSE head.epoch,
                                !.repair = "healthy"]
    <3>1. PICK epoch \in Nat : reg' = [reg EXCEPT !.head = epoch, !.repair = "healthy"]
      <4>1. head.epoch \in Nat /\ reg.head \in Nat
        BY <1>2 DEF HeadState, RegState
      <4> QED
        BY <2>2, <4>1
    <3> QED
      BY <1>2, <3>1 DEF RegState, Repair
  <2> QED
    BY <2>1, <2>2 DEF ReconcileConfirms
<1> QED
  BY <1>1, <1>3, <1>4, <1>5, RestoreStep

\* A function that takes no value twice is an injection.
LEMMA InjectionIs ==
    ASSUME NEW S, NEW T, NEW f \in [S -> T], \A x, y \in S : f[x] = f[y] => x = y
    PROVE  f \in Injection(S, T)
  BY DEF Injection, IsInjective

\* A replay that meets a subject the registry does not suppress raises the
\* epoch: the head has no gap, so all the epochs up to that entry are replayed.
LEMMA ReplayRaises ==
    ASSUME KnowledgeInv, restore.pc = "replaying",
           NEW e \in Replayable, tomb[e.subject].status = "none"
    PROVE  reg.tomb < Cardinality(Replayable)
<1> DEFINE remote == restore.remote
<1>1. /\ remote \in HeadState /\ remote.entries \subseteq head.entries
      /\ {g.epoch : g \in remote.entries} = 1 .. remote.epoch
  BY DEF KnowledgeInv, RestoreOK, ProvableEpochs
<1>2. remote.entries \subseteq [id : TombId, subject : Cand, epoch : Nat] /\ remote.epoch \in Nat
  BY <1>1 DEF HeadState
<1>3. Replayable \subseteq remote.entries
  BY DEF Replayable
<1>4. IsFiniteSet(Replayable)
  BY <1>1, <1>3, FS_Subset DEF KnowledgeInv, MemoryOK
<1>5. e \in remote.entries /\ e.id \in TombId /\ e.subject \in Cand /\ e.epoch \in Nat
  BY <1>2, <1>3
<1>6. e.epoch \in 1 .. remote.epoch
  BY <1>1, <1>5
<1>7. ~Refused(e)
  <2>1. \A bad \in remote.entries : Refused(bad) => e.epoch < bad.epoch
    BY DEF Replayable
  <2> QED
    BY <1>5, <2>1
<1>8. e.id # tomb[e.subject].id
  BY <1>5, KnowledgeAssumption DEF KnowledgeInv, TombsOK, TombId
<1>9. reg.tomb \in Nat
  BY TypeNames DEF KnowledgeInv, RegState
<1>10. reg.tomb < e.epoch
  BY <1>5, <1>7, <1>8, <1>9 DEF Refused
<1>11. ASSUME NEW k \in 1 .. e.epoch
       PROVE  \E g \in Replayable : g.epoch = k
  <2>1. k \in 1 .. remote.epoch
    BY <1>2, <1>5, <1>6
  <2>2. PICK g \in remote.entries : g.epoch = k
    BY <1>1, <2>1
  <2>3. ASSUME NEW bad \in remote.entries, Refused(bad)
        PROVE  g.epoch < bad.epoch
    <3>1. e.epoch < bad.epoch /\ bad.epoch \in Nat
      BY <1>2, <2>3 DEF Replayable
    <3> QED
      BY <1>5, <2>2, <3>1
  <2>4. g \in Replayable
    BY <2>2, <2>3 DEF Replayable
  <2> QED
    BY <2>2, <2>4
<1> DEFINE entryOf == [k \in 1 .. e.epoch |-> CHOOSE g \in Replayable : g.epoch = k]
<1>12. \A k \in 1 .. e.epoch : entryOf[k] \in Replayable /\ entryOf[k].epoch = k
  BY <1>11
<1>13. entryOf \in [1 .. e.epoch -> Replayable]
  BY <1>12
<1> HIDE DEF entryOf
<1>14. entryOf \in Injection(1 .. e.epoch, Replayable)
  <2>1. \A i, k \in 1 .. e.epoch : entryOf[i] = entryOf[k] => i = k
    BY <1>12
  <2> QED
    BY <1>13, <2>1, InjectionIs
<1>15. Cardinality(1 .. e.epoch) <= Cardinality(Replayable)
  BY <1>4, <1>14, FS_Injection
<1>16. Cardinality(1 .. e.epoch) = e.epoch
  BY <1>5, <1>6, FS_Interval
<1>17. Cardinality(Replayable) \in Nat
  BY <1>4, FS_CardinalityType
<1> QED
  BY <1>5, <1>9, <1>10, <1>15, <1>16, <1>17

\* The entries of the head become tombstones of the new host.
LEMMA ReplayTombstonesInv ==
    ASSUME KnowledgeInv, ReplayTombstones
    PROVE  KnowledgeInv'
<1> DEFINE Replayed(c) == \E e \in Replayable : e.subject = c
           Entry(c) == CHOOSE e \in Replayable : e.subject = c
           top == Cardinality(Replayable)
<1>1. /\ UNCHANGED <<lease, cand, run, gen, disk, job, head, forget, reader, faults, backup>>
      /\ restore.pc = "replaying"
  BY DEF ReplayTombstones
<1>2. /\ tomb \in [Cand -> TombRow] /\ TombsOK(tomb) /\ reg \in RegState /\ reg.tomb \in Nat
      /\ HeadOK /\ head \in HeadState /\ IsFiniteSet(head.entries)
  BY TypeNames DEF KnowledgeInv, MemoryOK, RegState
<1>3. /\ backup.phase = "failed"
      /\ restore.remote \in HeadState /\ restore.remote.entries \subseteq head.entries
  BY <1>1 DEF KnowledgeInv, RestoreOK
<1>4. Replayable \subseteq head.entries /\ IsFiniteSet(Replayable)
  BY <1>2, <1>3, FS_Subset DEF Replayable
<1>5. top \in Nat
  BY <1>4, FS_CardinalityType
<1>6. head.entries \subseteq [id : TombId, subject : Cand, epoch : Nat]
  BY <1>2 DEF HeadState
<1>7. \A c \in Cand : Replayed(c) =>
        /\ Entry(c) \in head.entries /\ Entry(c).subject = c
        /\ Entry(c).id \in 0 .. MaxTombs /\ Entry(c).id # 0 /\ Entry(c).epoch \in Nat
  BY <1>4, <1>6, KnowledgeAssumption DEF TombId
<1>8. tomb' = [c \in Cand |-> IF Replayed(c)
                                THEN [id |-> Entry(c).id, epoch |-> Entry(c).epoch,
                                      status |-> "restore-safe", outbox |-> "synced"]
                                ELSE tomb[c]]
  BY DEF ReplayTombstones
<1> HIDE DEF Replayed, Entry
<1>9. \A c \in Cand : Replayed(c) =>
        /\ tomb'[c].id = Entry(c).id /\ tomb'[c].status = "restore-safe" /\ tomb'[c] \in TombRow
  BY <1>7, <1>8 DEF TombRow
<1>10. \A c \in Cand : ~Replayed(c) => tomb'[c] = tomb[c]
  BY <1>8
<1>11. tomb' \in [Cand -> TombRow]
  <2>1. tomb' = [c \in Cand |-> tomb'[c]]
    BY <1>8
  <2>2. \A c \in Cand : tomb'[c] \in TombRow
    BY <1>2, <1>9, <1>10
  <2> QED
    BY <2>1, <2>2
<1>12. TombsOK(tomb)'
  <2>1. \A c \in Cand : tomb'[c].id = 0 <=> tomb'[c].status = "none"
    BY <1>2, <1>7, <1>9, <1>10 DEF TombsOK
  <2>2. ASSUME NEW c \in Cand, NEW d \in Cand, tomb'[c].id = tomb'[d].id, Replayed(c)
        PROVE  c = d
    <3>1. CASE Replayed(d)
      BY <1>2, <1>7, <1>9, <2>2, <3>1 DEF HeadOK
    <3>2. CASE ~Replayed(d)
      BY <1>2, <1>7, <1>9, <1>10, <2>2, <3>2 DEF HeadOK, HeadKnows
    <3> QED
      BY <3>1, <3>2
  <2>3. ASSUME NEW c \in Cand, NEW d \in Cand, tomb'[c].id = tomb'[d].id, tomb'[c].id # 0
        PROVE  c = d
    <3>1. CASE Replayed(c) \/ Replayed(d)
      BY <2>2, <2>3, <3>1
    <3>2. CASE ~Replayed(c) /\ ~Replayed(d)
      BY <1>2, <1>10, <2>3, <3>2 DEF TombsOK
    <3> QED
      BY <3>1, <3>2
  <2> QED
    BY <2>1, <2>3 DEF TombsOK
<1>13. HeadOK'
  <2>1. \A e \in head.entries, c \in Cand : e.id = tomb'[c].id => e.subject = c
    BY <1>2, <1>7, <1>9, <1>10 DEF HeadOK, HeadKnows
  <2>2. \A c \in Cand : tomb'[c].status = "restore-safe" =>
          \E e \in head.entries : e.id = tomb'[c].id /\ e.subject = c
    BY <1>2, <1>7, <1>9, <1>10 DEF HeadOK, HeadKnows
  <2> QED
    BY <1>1, <1>2, <2>1, <2>2 DEF HeadOK, HeadKnows
<1>14. Suppressed \subseteq Suppressed'
  BY <1>9, <1>10 DEF Suppressed
<1>15. PICK epoch \in Nat : /\ epoch = IF reg.tomb > top THEN reg.tomb ELSE top
                            /\ reg.tomb <= epoch /\ top <= epoch
  BY <1>2, <1>5
<1>16. /\ reg' \in RegState /\ reg'.active = reg.active /\ reg'.pub = reg.pub
       /\ reg'.tomb = epoch
  <2>1. PICK last \in Nat : reg' = [reg EXCEPT !.tomb = epoch, !.head = last]
    <3>1. reg.head \in Nat
      BY <1>2 DEF RegState
    <3>2. PICK last \in Nat : last = IF reg.head > top THEN reg.head ELSE top
      BY <1>5, <3>1
    <3> QED
      BY <1>2, <1>15, <3>2 DEF ReplayTombstones, RegState
  <2> QED
    BY <1>2, <2>1 DEF RegState
<1>17. RunInv'
  <2>1. TypeOK' /\ RunInv
    BY <1>1, <1>11, <1>16, TypeNames DEF KnowledgeInv, MemoryOK, RunInv, TypeOK, RegState, TombRow
  <2> QED
    BY <1>1, <1>14, <1>16, <2>1, SuppressionGrows
<1>18. ForgetsOK'
  <2>1. \A c \in Cand : tomb[c].id # 0 => tomb'[c].id # 0
    BY <1>7, <1>9, <1>10
  <2> QED
    BY <1>1, <2>1 DEF KnowledgeInv, ForgetsOK
<1>19. ReaderOK'
  <2>1. ASSUME reader.pc # "idle"
        PROVE  /\ reader.fence \in RegState /\ reader.fence.tomb \in Nat
               /\ reader.fence.tomb <= reg.tomb
    BY <2>1 DEF KnowledgeInv, ReaderOK, RegState
  <2>2. reader.pc # "idle" => reader.fence.tomb <= epoch
    BY <1>2, <1>15, <2>1
  <2>3. ASSUME reader.pc = "reading", reader.fence.tomb = epoch
        PROVE  Suppressed' \subseteq reader.tombs
    <3>1. reg.tomb = epoch
      BY <1>2, <1>15, <2>1, <2>3
    <3>2. Suppressed \subseteq reader.tombs
      BY <2>3, <3>1 DEF KnowledgeInv, ReaderOK
    <3>3. ASSUME NEW e \in Replayable
          PROVE  tomb[e.subject].status # "none"
      <4>1. SUFFICES ASSUME tomb[e.subject].status = "none" PROVE FALSE
        OBVIOUS
      <4>2. reg.tomb < top
        BY <1>1, <4>1, ReplayRaises
      <4> QED
        BY <1>2, <1>5, <1>15, <3>1, <4>2
    <3>4. \A c \in Cand : Replayed(c) => tomb[c].status # "none"
      BY <3>3 DEF Replayed
    <3>5. Suppressed' \subseteq Suppressed
      BY <1>10, <3>4 DEF Suppressed
    <3> QED
      BY <3>2, <3>5
  <2> QED
    BY <1>1, <1>16, <2>1, <2>2, <2>3 DEF ReaderOK
<1>20. restore' \in RestoreState /\ RestoreOK'
  <2>1. CASE restore' = [restore EXCEPT !.pc = "confirming"]
    <3>1. restore \in RestoreState
      BY DEF KnowledgeInv, MemoryOK
    <3>2. restore' \in RestoreState /\ restore'.pc = "confirming" /\ restore'.remote = restore.remote
      BY <2>1, <3>1 DEF RestoreState
    <3> QED
      BY <1>1, <1>3, <3>2 DEF RestoreOK
  <2>2. CASE restore' = [NoRestore EXCEPT !.pc = "done", !.result = "needs-repair"]
    <3>1. restore' \in RestoreState /\ restore'.pc = "done"
      BY <2>2, EmptyTypes DEF RestoreState
    <3> QED
      BY <3>1 DEF RestoreOK
  <2> QED
    BY <2>1, <2>2 DEF ReplayTombstones
<1>21. MemoryOK'
  BY <1>1, <1>20 DEF KnowledgeInv, MemoryOK
<1>22. BackupOK'
  BY <1>1, <1>3 DEF BackupOK
<1> QED
  BY <1>12, <1>13, <1>17, <1>18, <1>19, <1>20, <1>21, <1>22 DEF KnowledgeInv, RunInv

-----------------------------------------------------------------------------
(* Theorems *)

LEMMA InitInv == BackupInit => KnowledgeInv
<1> SUFFICES ASSUME BackupInit PROVE KnowledgeInv
  OBVIOUS
<1>1. TypeOK /\ MemoryOK
  BY InitTypes
<1>2. /\ reg.active = NoGen /\ lease = 0 /\ gen = [r \in Run |-> NoRow]
      /\ cand = [c \in Cand |-> "none"] /\ tomb = [c \in Cand |-> NoTomb]
      /\ head.entries = {} /\ job = [r \in Run |-> NoJob]
      /\ forget = [f \in Forgetter |-> NoForget] /\ reader = NoReader
      /\ backup = NoBackup /\ restore = NoRestore
  BY DEF BackupInit, Init
<1>3. RegistryOK(reg, lease, cand, gen, tomb)
  <2>1. \A r \in Run : gen[r].status # "active" /\ r # reg.active
    BY <1>2, KnowledgeAssumption DEF NoRow, NoGen, Run
  <2>2. reg.active <= lease
    BY <1>2 DEF NoGen
  <2> QED
    BY <1>2, <2>1, <2>2 DEF RegistryOK
<1>4. TombsOK(tomb) /\ HeadOK
  BY <1>2 DEF TombsOK, HeadOK, HeadKnows, NoTomb
<1>5. JobsOK /\ ForgetsOK /\ ReaderOK
  BY <1>2 DEF JobsOK, Live, ForgetsOK, ReaderOK, NoJob, NoForget, NoReader
<1>6. BackupOK /\ RestoreOK
  BY <1>2 DEF BackupOK, RestoreOK, NoBackup, NoRestore
<1> QED
  BY <1>1, <1>3, <1>4, <1>5, <1>6 DEF KnowledgeInv

LEMMA StutterInv == KnowledgeInv /\ UNCHANGED vars => KnowledgeInv'
<1> SUFFICES ASSUME KnowledgeInv, UNCHANGED vars PROVE KnowledgeInv'
  OBVIOUS
<1>1. UNCHANGED <<registry, disk, job, head, forget, reader, faults, backup, restore>>
  BY DEF vars, knowledgeVars, backupVars
<1>2. RunInv'
  <2>1. UNCHANGED Suppressed
    BY <1>1 DEF Suppressed, registry
  <2> QED
    BY <1>1, <2>1 DEF KnowledgeInv, MemoryOK, RunInv, TypeOK, RegistryOK, JobsOK, Live, registry
<1> QED
  BY <1>1, <1>2, RegistryStep DEF registry

\* The inductive invariant of the wiki, its forgets, its backup and its restore.
THEOREM Invariant == Spec => []KnowledgeInv
<1>1. BackupInit => KnowledgeInv
  BY InitInv
<1>2. KnowledgeInv /\ [Next]_vars => KnowledgeInv'
  BY ServiceStepInv, BackupStoresInv, BackupGoesOnInv, RestoreBackupInv, ReconcileReadsInv,
     ReplayTombstonesInv, ReconcileConfirmsInv, StutterInv DEF Next
<1> QED
  BY <1>1, <1>2, PTL DEF Spec

\* Durable state has its type: registry rows, generations, tombstones.
THEOREM TypeCorrect == Spec => []TypeOK
<1>1. KnowledgeInv => TypeOK
  BY DEF KnowledgeInv
<1> QED
  BY <1>1, Invariant, PTL

\* A candidate that was published and not forgotten keeps its page in the active
\* generation, through overlapping, expired and crashed runs and a restore.
THEOREM PublishedIsKeptHolds == Spec => []PublishedIsKept
<1>1. KnowledgeInv => PublishedIsKept
  BY DEF KnowledgeInv, RegistryOK, PublishedIsKept, Suppressed
<1> QED
  BY <1>1, Invariant, PTL

\* A forget that is called restore-safe is in the independent head.
THEOREM RestoreSafeIsInHeadHolds == Spec => []RestoreSafeIsInHead
<1>1. KnowledgeInv => RestoreSafeIsInHead
  BY DEF KnowledgeInv, HeadOK, HeadKnows, RestoreSafeIsInHead
<1> QED
  BY <1>1, Invariant, PTL

\* At most one generation is active, the one the pointer names.
THEOREM OnePointerHolds == Spec => []OnePointer
<1>1. KnowledgeInv => OnePointer
  BY DEF KnowledgeInv, RegistryOK, OnePointer
<1> QED
  BY <1>1, Invariant, PTL

\* No retrieval returns a page whose subject was forgotten before it returns:
\* when the fence is the registry, no subject is suppressed that the reader did
\* not see.
THEOREM ServedIsNotForgottenHolds == Spec => ServedIsNotForgotten
<1>1. KnowledgeInv =>
        (RetrieveReturns /\ reader.pc = "reading" /\ StillCurrent => Results \cap Suppressed = {})
  <2> SUFFICES ASSUME KnowledgeInv, reader.pc = "reading", StillCurrent
               PROVE  Results \cap Suppressed = {}
    OBVIOUS
  <2>1. reader.fence.tomb = reg.tomb
    BY DEF StillCurrent
  <2>2. Suppressed \subseteq reader.tombs
    BY <2>1 DEF KnowledgeInv, ReaderOK
  <2> QED
    BY <2>2 DEF Results
<1> QED
  BY <1>1, Invariant, PTL DEF ServedIsNotForgotten
=============================================================================
