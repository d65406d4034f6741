---------------------------- MODULE NativeKnowledge ----------------------------
(***************************************************************************)
(* The generated wiki of src/src/knowledge/native-consolidation: the       *)
(* registry database, the consolidation runs that publish complete         *)
(* generations of pages, the forgets that suppress a subject and record it *)
(* in an independent head, and the reader.                                  *)
(*                                                                         *)
(* The processes share the registry through single SQLite statements and   *)
(* short transactions, so each action below is what one process does       *)
(* between two points where another one can get in: a candidate is its own *)
(* page and its own subject, a generation is named by the run that staged  *)
(* it, and a tombstone by the least number no other tombstone has.           *)
(***************************************************************************)
EXTENDS Integers, FiniteSets

CONSTANTS
    Cand,         \* candidates, each the source of one page and one subject
    Domain,       \* Trust Domains
    DomainOf,     \* the Trust Domain of a candidate
    Forgetter,    \* processes that serve forget calls
    MaxRuns,      \* bound: consolidation runs
    MaxTombs,     \* bound: tombstones ever made
    MaxRetries,   \* NATIVE_KNOWLEDGE_LIMITS.maxRetries
    MaxRetained,  \* NATIVE_KNOWLEDGE_LIMITS.maxRetainedGenerations
    MaxFaults     \* bound: crashes, leases that run out, source outages, backups

Run == 1 .. MaxRuns
NoGen == 0
Gen == {NoGen} \cup Run
TombId == 1 .. MaxTombs

ASSUME KnowledgeAssumption ==
    /\ DomainOf \in [Cand -> Domain]
    /\ MaxRuns \in Nat \ {0} /\ MaxTombs \in Nat
    /\ MaxRetries \in Nat /\ MaxFaults \in Nat
    /\ MaxRetained \in Nat \ {0}

VARIABLES
    reg,       \* native_knowledge_state: the pointer, the epochs, the repair state
    lease,     \* native_knowledge_state.lease_epoch
    cand,      \* native_knowledge_candidates.status
    run,       \* native_knowledge_runs
    gen,       \* native_knowledge_generations, and the pages of each
    disk,      \* generations whose immutable directory is complete
    tomb,      \* native_knowledge_tombstones with their outbox rows
    job,       \* what the process of each run holds in memory
    head,      \* the independent tombstone head
    forget,    \* what each forget call holds in memory
    reader,    \* what a retrieval holds in memory
    faults

registry == <<reg, lease, cand, run, gen, tomb>>
knowledgeVars == <<registry, disk, job, head, forget, reader, faults>>

Repair == {"healthy", "head_sync_pending", "needs-repair"}
NoTomb == [id |-> 0, epoch |-> 0, status |-> "none", outbox |-> "none"]
NoJob == [pc |-> "none", fence |-> 0, sel |-> {}, retries |-> 0]
NoForget == [pc |-> "idle", subject |-> 0, remote |-> 0, attempt |-> 0]
NoReader == [pc |-> "idle", fence |-> 0, domain |-> 0, tombs |-> {}]
NoRow == [status |-> "none", pages |-> {}, tomb |-> 0, created |-> 0]

Init ==
    /\ reg = [active |-> NoGen, pub |-> 0, src |-> 0, tomb |-> 0, head |-> 0,
              repair |-> "healthy"]
    /\ lease = 0
    /\ cand = [c \in Cand |-> "none"]
    /\ run = [r \in Run |-> [status |-> "none", expired |-> FALSE]]
    /\ gen = [r \in Run |-> NoRow]
    /\ disk = {}
    /\ tomb = [c \in Cand |-> NoTomb]
    /\ job = [r \in Run |-> NoJob]
    /\ head = [epoch |-> 0, entries |-> {}]
    /\ forget = [f \in Forgetter |-> NoForget]
    /\ reader = NoReader
    /\ faults = 0

--------------------------------------------------------------------------------
(* The registry *)

\* isSuppressedByTombstone: a page is suppressed by a tombstone of its subject.
Suppressed == {c \in Cand : tomb[c].status # "none"}

\* requireLease
HoldsLease(r) == run[r].status = "running" /\ ~run[r].expired

\* recordRunSuccess and recordRunFailure: a run whose lease is gone keeps its
\* row, and the error is swallowed by the caller.
Finish(r, outcome) ==
    run' = IF HoldsLease(r) THEN [run EXCEPT ![r].status = outcome] ELSE run

EndJob(r) == job' = [job EXCEPT ![r] = [NoJob EXCEPT !.pc = "over"]]

\* setRepairState: whatever the state was before.
SetRepair(state) == reg' = [reg EXCEPT !.repair = state]

\* Mutant: a status the table does not know.
AdmitUnknownStatus(c) ==
    /\ cand[c] = "none"
    /\ cand' = [cand EXCEPT ![c] = "admitted"]
    /\ reg' = [reg EXCEPT !.src = @ + 1]
    /\ UNCHANGED <<lease, run, gen, disk, tomb, job, head, forget, reader, faults>>

\* captureCandidate and admitCandidate: a deliberate capture of a candidate the
\* registry does not hold.  A replay is answered as a duplicate.
AdmitCandidate(c) ==
    /\ cand[c] = "none"
    /\ cand' = [cand EXCEPT ![c] = "staged"]
    /\ reg' = [reg EXCEPT !.src = @ + 1]
    /\ UNCHANGED <<lease, run, gen, disk, tomb, job, head, forget, reader, faults>>

\* The clock passes the end of a run's lease.
LeaseExpires(r) ==
    /\ HoldsLease(r) /\ faults < MaxFaults
    /\ run' = [run EXCEPT ![r].expired = TRUE]
    /\ faults' = faults + 1
    /\ UNCHANGED <<reg, lease, cand, gen, disk, tomb, job, head, forget, reader>>

\* claimRun: refused while a running run holds its lease; an expired one is
\* fenced.  The runner then reads its start fence.
ClaimRun(r) ==
    /\ r = lease + 1
    /\ \A q \in Run : ~HoldsLease(q)
    /\ lease' = r
    /\ run' = [q \in Run |->
                 CASE q = r -> [status |-> "running", expired |-> FALSE]
                   [] run[q].status = "running" -> [run[q] EXCEPT !.status = "fenced"]
                   [] OTHER -> run[q]]
    /\ job' = [job EXCEPT ![r] = [NoJob EXCEPT !.pc = "claimed", !.fence = reg]]
    /\ UNCHANGED <<reg, cand, gen, disk, tomb, head, forget, reader, faults>>

--------------------------------------------------------------------------------
(* A consolidation run *)

\* readManifest: the directory is there and its bytes match the manifest.
Verifiable(g) == g \in disk

\* A source is unavailable and the run tries again under the same lease; when
\* the lease is gone the retry cannot be recorded and the run ends.
RetryRun(r) ==
    /\ job[r].pc = "claimed" /\ job[r].retries < MaxRetries /\ faults < MaxFaults
    /\ faults' = faults + 1
    /\ IF HoldsLease(r)
         THEN job' = [job EXCEPT ![r].retries = @ + 1]
         ELSE EndJob(r)
    /\ UNCHANGED <<registry, disk, head, forget, reader>>

\* Evidence, synthesis, a budget or the staging of files fails before any row
\* names the generation.  Staging removes what it wrote.
FailRun(r) ==
    /\ job[r].pc \in {"claimed", "selected"}
    /\ Finish(r, "failed") /\ EndJob(r)
    /\ UNCHANGED <<reg, lease, cand, gen, disk, tomb, head, forget, reader, faults>>

\* The candidates are loaded and their evidence is verified; then the active
\* generation is read under the fence of the start of the run.  A run with
\* nothing to publish succeeds here.
SelectCandidates(r) ==
    LET staged == {c \in Cand : cand[c] = "staged"}
        current == reg = job[r].fence /\ (reg.active # NoGen => Verifiable(reg.active))
    IN /\ job[r].pc = "claimed"
       /\ IF current /\ staged # {}
            THEN /\ job' = [job EXCEPT ![r].pc = "selected", ![r].sel = staged]
                 /\ UNCHANGED run
            ELSE /\ Finish(r, IF current THEN "succeeded" ELSE "failed")
                 /\ EndJob(r)
       /\ UNCHANGED <<reg, lease, cand, gen, disk, tomb, head, forget, reader, faults>>

\* Mutant: the pages of the active generation are not carried over.
SelectedPages(r) == job[r].sel

\* previousPages and mergePages: the pages of the active generation that no
\* tombstone suppresses now, and a page for every selected candidate.
CompletePages(r) ==
    job[r].sel \cup (IF reg.active = NoGen THEN {} ELSE gen[reg.active].pages \ Suppressed)

\* stageGeneration: the complete set of pages is written, flushed, renamed and
\* read back, under the fence of the start of the run.
StageGeneration(r) ==
    /\ job[r].pc = "selected"
    /\ IF reg = job[r].fence /\ (reg.active # NoGen => Verifiable(reg.active))
         THEN /\ disk' = disk \cup {r}
              /\ gen' = [gen EXCEPT ![r] = [status |-> "none", pages |-> CompletePages(r),
                                            tomb |-> reg.tomb,
                                            created |-> Cardinality({q \in Run : gen[q].created > 0}) + 1]]
              /\ job' = [job EXCEPT ![r].pc = "staged"]
              /\ UNCHANGED run
         ELSE /\ Finish(r, "failed") /\ EndJob(r)
              /\ UNCHANGED <<disk, gen>>
    /\ UNCHANGED <<reg, lease, cand, tomb, head, forget, reader, faults>>

\* quarantineUnactivatedGeneration and the failure of the run.
Quarantine(r) ==
    /\ gen' = [gen EXCEPT ![r].status = IF @ = "staged" THEN "quarantined" ELSE @]
    /\ disk' = disk \ {r}
    /\ Finish(r, "failed") /\ EndJob(r)
    /\ UNCHANGED <<reg, cand>>

\* recordStagedGeneration, when no fence moved while the files were prepared.
RecordGeneration(r) ==
    /\ job[r].pc = "staged"
    /\ IF reg = job[r].fence
         THEN /\ gen' = [gen EXCEPT ![r].status = "staged"]
              /\ job' = [job EXCEPT ![r].pc = "recorded"]
              /\ UNCHANGED <<disk, run, reg, cand>>
         ELSE Quarantine(r)
    /\ UNCHANGED <<lease, tomb, head, forget, reader, faults>>

\* What the transaction of activateGeneration requires.
MayActivate(r) ==
    /\ Verifiable(r)
    /\ HoldsLease(r)
    /\ gen[r].status = "staged"
    /\ reg = job[r].fence
    /\ gen[r].tomb >= reg.tomb
    /\ \A c \in gen[r].pages : cand[c] # "none"

\* Mutant: the previous generation is not superseded.
ActivateBeside(r) ==
    /\ job[r].pc = "recorded"
    /\ IF MayActivate(r)
         THEN /\ reg' = [reg EXCEPT !.active = r, !.pub = @ + 1, !.repair = "healthy"]
              /\ gen' = [gen EXCEPT ![r].status = "active"]
              /\ cand' = [c \in Cand |-> IF c \in gen[r].pages /\ cand[c] = "staged"
                                           THEN "published" ELSE cand[c]]
              /\ job' = [job EXCEPT ![r].pc = "activated"]
              /\ UNCHANGED <<disk, run>>
         ELSE Quarantine(r)
    /\ UNCHANGED <<lease, tomb, head, forget, reader, faults>>

\* activateGeneration: the pointer moves, the repair state becomes healthy, the
\* previous generation is superseded and its candidates are published.
ActivateGeneration(r) ==
    /\ job[r].pc = "recorded"
    /\ IF MayActivate(r)
         THEN /\ reg' = [reg EXCEPT !.active = r, !.pub = @ + 1, !.repair = "healthy"]
              /\ gen' = [g \in Run |->
                           CASE g = r -> [gen[g] EXCEPT !.status = "active"]
                             [] g = reg.active -> [gen[g] EXCEPT !.status = "superseded"]
                             [] OTHER -> gen[g]]
              /\ cand' = [c \in Cand |-> IF c \in gen[r].pages /\ cand[c] = "staged"
                                           THEN "published" ELSE cand[c]]
              /\ job' = [job EXCEPT ![r].pc = "activated"]
              /\ UNCHANGED <<disk, run>>
         ELSE Quarantine(r)
    /\ UNCHANGED <<lease, tomb, head, forget, reader, faults>>

\* The protected generations, then the newest others while the kept set is
\* smaller than the limit.
Kept(protected) ==
    LET others == disk \ protected
        Newer(g) == {h \in others : gen[h].created > gen[g].created}
    IN protected \cup
         {g \in others : Cardinality(protected) + Cardinality(Newer(g)) < MaxRetained}

\* cleanupRetainedGenerations, after the transaction: what this run activated,
\* the generation active when it began, and the rows still in progress are
\* protected.
CleanUp(r) ==
    LET protected == {r} \cup ({job[r].fence.active} \ {NoGen})
                         \cup {g \in Run : gen[g].status = "staged"}
    IN /\ job[r].pc = "activated"
       /\ disk' = disk \cap Kept(protected)
       /\ job' = [job EXCEPT ![r].pc = "cleaned"]
       /\ UNCHANGED <<registry, head, forget, reader, faults>>

\* The read-back of the first page through the reader, and the end of the run: a
\* read-back that fails leaves the pointer and asks for repair.
ReadBack(r) ==
    /\ job[r].pc = "cleaned"
    /\ \E page \in gen[r].pages :
         IF /\ reg.repair # "needs-repair"
            /\ reg.active # NoGen /\ Verifiable(reg.active)
            /\ page \in gen[reg.active].pages \ Suppressed
           THEN UNCHANGED reg
           ELSE SetRepair("needs-repair")
    /\ Finish(r, "succeeded") /\ EndJob(r)
    /\ UNCHANGED <<lease, cand, gen, disk, tomb, head, forget, reader, faults>>

\* The process of a run dies: its rows and files stay.
CrashRun(r) ==
    /\ job[r].pc \notin {"none", "over"} /\ faults < MaxFaults
    /\ EndJob(r)
    /\ faults' = faults + 1
    /\ UNCHANGED <<registry, disk, head, forget, reader>>

--------------------------------------------------------------------------------
(* Forgetting *)

\* randomUUID: an identifier that no tombstone has, in the head or in the
\* registry; the least one stands for all.
FreshTombIds ==
    LET used == {e.id : e \in head.entries} \cup {tomb[c].id : c \in Cand}
    IN {id \in TombId \ used : 1 .. id - 1 \subseteq used}

Call(f, pc) == forget' = [forget EXCEPT ![f].pc = pc]
Return(f) == forget' = [forget EXCEPT ![f] = NoForget]

\* appendLocalTombstone: the suppression and its outbox row are one
\* transaction; a repeated forget finds both.  A subject that is already safe
\* is answered at once, unless its outbox is not synced.
ForgetLocally(f, c) ==
    /\ forget[f].pc = "idle"
    /\ IF tomb[c].status = "none"
         THEN /\ \E id \in FreshTombIds :
                   tomb' = [tomb EXCEPT ![c] = [id |-> id, epoch |-> reg.tomb + 1,
                                                status |-> "local-suppressed", outbox |-> "pending"]]
              /\ reg' = [reg EXCEPT !.tomb = @ + 1, !.repair = "head_sync_pending"]
         ELSE /\ UNCHANGED tomb
              /\ IF tomb[c].status = "restore-safe" /\ tomb[c].outbox # "synced"
                   THEN SetRepair("needs-repair") ELSE UNCHANGED reg
    /\ IF tomb[c].status = "restore-safe"
         THEN UNCHANGED forget
         ELSE forget' = [forget EXCEPT ![f] = [NoForget EXCEPT !.pc = "reading", !.subject = c]]
    /\ UNCHANGED <<lease, cand, run, gen, disk, job, head, reader, faults>>

\* The head did not take the tombstone: the status falls back to pending.  A
\* tombstone another call already made safe refuses that step, and the call
\* ends with the error before it touches the outbox or the repair state.
Pending(f, outboxFails) ==
    LET c == forget[f].subject
    IN /\ IF tomb[c].status = "restore-safe"
            THEN UNCHANGED <<tomb, reg>>
            ELSE /\ tomb' = [tomb EXCEPT ![c].status = "head-sync-pending",
                                         ![c].outbox = IF outboxFails /\ @ # "synced"
                                                         THEN "failed" ELSE @]
                 /\ SetRepair("head_sync_pending")
       /\ Return(f)

\* The head holds the tombstone: the epoch, the outbox and the status are
\* written, and the repair state becomes healthy.
Settle(f, h) ==
    LET c == forget[f].subject
    IN /\ tomb' = [tomb EXCEPT ![c].status = "restore-safe", ![c].outbox = "synced"]
       /\ reg' = [reg EXCEPT !.head = IF @ > h.epoch THEN @ ELSE h.epoch, !.repair = "healthy"]
       /\ Return(f)

\* Mutant: the local registry is asked instead of the head.
ContainedLocally(h, c) == tomb[c].status # "none"

\* headContains
Contains(h, c) == \E e \in h.entries : e.id = tomb[c].id /\ e.epoch >= tomb[c].epoch

\* readHead answers, or it does not.
ForgetReadsHead(f) ==
    /\ forget[f].pc = "reading"
    /\ \/ /\ forget' = [forget EXCEPT ![f].pc = "appending", ![f].remote = head]
          /\ UNCHANGED <<tomb, reg>>
       \/ Pending(f, TRUE)
    /\ UNCHANGED <<lease, cand, run, gen, disk, job, head, reader, faults>>

\* appendIfVersion: a conditional write of the whole head.  Its answer can be
\* lost after the write took place.
AppendToHead(f) ==
    LET c == forget[f].subject
        entry == [id |-> tomb[c].id, subject |-> c, epoch |-> tomb[c].epoch]
        known == \E e \in head.entries : e.id = entry.id
    IN head' = IF known THEN head
               ELSE [epoch |-> head.epoch + 1, entries |-> head.entries \cup {entry}]

\* One turn of the loop of forgetWikiKnowledge over the head it last read.
ForgetAppends(f) ==
    LET c == forget[f].subject
        remote == forget[f].remote
        current == remote.epoch = head.epoch
    IN /\ forget[f].pc = "appending"
       /\ \/ /\ Contains(remote, c)
             /\ Settle(f, remote)
             /\ UNCHANGED head
          \/ /\ ~Contains(remote, c)
             /\ \/ /\ current /\ AppendToHead(f)
                   /\ Call(f, "reading-back") /\ UNCHANGED <<tomb, reg>>
                \/ /\ current /\ AppendToHead(f) /\ Pending(f, TRUE)
                \/ /\ Pending(f, TRUE) /\ UNCHANGED head
                \/ /\ ~current /\ forget[f].attempt < 2
                   /\ forget' = [forget EXCEPT ![f].remote = head, ![f].attempt = @ + 1]
                   /\ UNCHANGED <<tomb, reg, head>>
       /\ UNCHANGED <<lease, cand, run, gen, disk, job, reader, faults>>

\* The read-back proves the entry, or the call ends pending without a mark on
\* the outbox.
ForgetReadsBack(f) ==
    /\ forget[f].pc = "reading-back"
    /\ \/ /\ Contains(head, forget[f].subject) /\ Settle(f, head)
       \/ Pending(f, FALSE)
    /\ UNCHANGED <<lease, cand, run, gen, disk, job, head, reader, faults>>

\* The process of a forget dies.
CrashForget(f) ==
    /\ forget[f].pc # "idle" /\ faults < MaxFaults
    /\ Return(f)
    /\ faults' = faults + 1
    /\ UNCHANGED <<registry, disk, job, head, reader>>

--------------------------------------------------------------------------------
(* Retrieval *)

\* wikiRetrieve for an authorized role: one snapshot gives the pointer and the
\* fence.  A manifest that cannot be verified asks for repair.
RetrieveOpens(d) ==
    /\ reader.pc = "idle" /\ reg.repair # "needs-repair" /\ reg.active # NoGen
    /\ IF Verifiable(reg.active)
         THEN /\ reader' = [NoReader EXCEPT !.pc = "opened", !.fence = reg, !.domain = d]
              /\ UNCHANGED reg
         ELSE SetRepair("needs-repair") /\ UNCHANGED reader
    /\ UNCHANGED <<lease, cand, run, gen, disk, tomb, job, head, forget, faults>>

RetrieveReadsTombstones ==
    /\ reader.pc = "opened"
    /\ reader' = [reader EXCEPT !.pc = "reading", !.tombs = Suppressed]
    /\ UNCHANGED <<registry, disk, job, head, forget, faults>>

\* The pages a retrieval returns.
Results == {c \in gen[reader.fence.active].pages \ reader.tombs : DomainOf[c] = reader.domain}

\* Mutant: the fence is not compared again.
StillReadable == Verifiable(reader.fence.active)

\* The bytes are there and no fence moved since the snapshot.
StillCurrent == Verifiable(reader.fence.active) /\ reg = reader.fence

\* The pages are read, the fence is compared once more and the results are
\* returned; otherwise the whole reader is put under repair.
RetrieveReturns ==
    /\ reader.pc = "reading"
    /\ IF StillCurrent THEN UNCHANGED reg ELSE SetRepair("needs-repair")
    /\ reader' = NoReader
    /\ UNCHANGED <<lease, cand, run, gen, disk, tomb, job, head, forget, faults>>

--------------------------------------------------------------------------------
KnowledgeStep ==
    \/ \E c \in Cand : AdmitCandidate(c)
    \/ \E r \in Run : \/ LeaseExpires(r) \/ ClaimRun(r) \/ RetryRun(r) \/ FailRun(r)
                      \/ SelectCandidates(r) \/ StageGeneration(r) \/ RecordGeneration(r)
                      \/ ActivateGeneration(r) \/ CleanUp(r) \/ ReadBack(r) \/ CrashRun(r)
    \/ \E f \in Forgetter : \/ \E c \in Cand : ForgetLocally(f, c)
                            \/ ForgetReadsHead(f) \/ ForgetAppends(f) \/ ForgetReadsBack(f)
                            \/ CrashForget(f)
    \/ \E d \in Domain : RetrieveOpens(d)
    \/ RetrieveReadsTombstones
    \/ RetrieveReturns

KnowledgeSpec == Init /\ [][KnowledgeStep]_knowledgeVars
================================================================================
