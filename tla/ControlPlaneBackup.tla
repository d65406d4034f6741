--------------------------- MODULE ControlPlaneBackup ---------------------------
(***************************************************************************)
(* The nightly recovery set of src/src/runtime/control-plane-backup.ts and *)
(* its restore, around the generated wiki: the registry is copied first,   *)
(* the vault that holds the generations later, the inventory of unfinished *)
(* forgets last, while runs and forgets go on.  A restore puts the copy on *)
(* a new host and reconciles it with the independent tombstone head before *)
(* the services start.                                                      *)
(***************************************************************************)
EXTENDS NativeKnowledge

VARIABLES
    backup,    \* the recovery set, how far it is, and so the health recorded of it
    restore    \* how far a restore is, and the head it read

backupVars == <<backup, restore>>
vars == <<knowledgeVars, backupVars>>

NoBackup == [phase |-> "none", registry |-> 0, tombs |-> 0, disk |-> {},
             torn |-> FALSE, pending |-> {}]
NoRestore == [pc |-> "none", remote |-> 0, result |-> "none"]

BackupInit ==
    /\ Init
    /\ backup = NoBackup
    /\ restore = NoRestore

--------------------------------------------------------------------------------
(* Backup *)

\* backupSqliteState: one consistent copy of the registry.
SqliteCopy == [reg |-> reg, lease |-> lease, cand |-> cand, run |-> run, gen |-> gen]

\* The stores are copied one after the other, the registry among them.
BackupStores ==
    /\ backup.phase = "none" /\ faults < MaxFaults
    /\ backup' = [NoBackup EXCEPT !.phase = "stores",
                                  !.registry = SqliteCopy,
                                  !.tombs = tomb]
    /\ faults' = faults + 1
    /\ UNCHANGED <<registry, disk, job, head, forget, reader, restore>>

\* copyDirectorySnapshot: the digest of a file is taken from the source after
\* the copy, so a note edited in between leaves a set that does not verify.
BackupVault ==
    /\ backup.phase = "stores"
    /\ \E torn \in BOOLEAN :
         backup' = [backup EXCEPT !.phase = "vault", !.disk = disk, !.torn = torn]
    /\ UNCHANGED <<knowledgeVars, restore>>

\* nativeKnowledgeOutboxSnapshot: the forgets whose outbox row is not synced.
UnfinishedForgets == {tomb[c].id : c \in {s \in Cand : tomb[s].outbox \in {"pending", "failed"}}}

\* The live registry is read again, after the stores and the vault; the manifest
\* completes the local set.
BackupManifest ==
    /\ backup.phase = "vault"
    /\ backup' = [backup EXCEPT !.phase = "local", !.pending = UnfinishedForgets]
    /\ UNCHANGED <<knowledgeVars, restore>>

\* A store or a file cannot be copied: the unfinished directory is removed and
\* the backup is recorded as failed.
BackupFails ==
    /\ backup.phase \in {"stores", "vault"}
    /\ backup' = [NoBackup EXCEPT !.phase = "failed"]
    /\ UNCHANGED <<knowledgeVars, restore>>

\* The uploader puts every blob under the name of the set, the manifest last,
\* so a set without a manifest is one that was not completed.
UploadOutcomes == {"uploaded", "kept"}

\* The uploaded set is recorded as healthy; one that fails keeps the local set
\* and records the backup as failed.
UploadBackup ==
    /\ backup.phase = "local"
    /\ \E phase \in UploadOutcomes : backup' = [backup EXCEPT !.phase = phase]
    /\ UNCHANGED <<knowledgeVars, restore>>

\* manifestFromDisk: only a complete set has a manifest that can be read.
HasManifest == backup.phase \in {"local"} \cup UploadOutcomes

\* verifyControlPlaneBackup: every file of the manifest has its digest.
VerifyBackup == HasManifest /\ ~backup.torn

\* restoreControlPlaneBackup on a new host: the processes of the old one are
\* gone, the registry and the vault are the copies.
RestoreBackup ==
    /\ VerifyBackup /\ restore.pc = "none"
    /\ restore' = [restore EXCEPT !.pc = "restored"]
    /\ reg' = backup.registry.reg
    /\ lease' = backup.registry.lease
    /\ cand' = backup.registry.cand
    /\ run' = backup.registry.run
    /\ gen' = backup.registry.gen
    /\ tomb' = backup.tombs
    /\ disk' = backup.disk
    /\ job' = [r \in Run |-> IF r <= backup.registry.lease THEN [NoJob EXCEPT !.pc = "over"]
                                                            ELSE NoJob]
    /\ forget' = [f \in Forgetter |-> NoForget]
    /\ reader' = NoReader
    /\ UNCHANGED <<head, faults, backup>>

--------------------------------------------------------------------------------
(* reconcileTombstonesAfterRestore *)

\* The head names the local epochs 1, 2, ... without a gap.
ProvableEpochs(h) == {e.epoch : e \in h.entries} = 1 .. h.epoch

\* The head covers the restored snapshot: its highest epoch, every tombstone of
\* it, and every unfinished forget of the inventory.
CoversSnapshot(h) ==
    LET ids == {e.id : e \in h.entries}
    IN /\ h.epoch >= backup.registry.reg.tomb
       /\ {backup.tombs[c].id : c \in Cand} \ {0} \subseteq ids
       /\ backup.pending \subseteq ids

\* The registry is put under repair and the head is read.  The set is of no
\* further use here: one backup and one restore per behaviour.
ReconcileReads ==
    /\ restore.pc = "restored"
    /\ backup' = [NoBackup EXCEPT !.phase = "failed"]
    /\ SetRepair("needs-repair")
    /\ \/ restore' = [NoRestore EXCEPT !.pc = "done", !.result = "needs-repair"]
       \/ restore' = IF ProvableEpochs(head) /\ CoversSnapshot(head)
                       THEN [restore EXCEPT !.pc = "replaying", !.remote = head]
                       ELSE [NoRestore EXCEPT !.pc = "done", !.result = "needs-repair"]
    /\ UNCHANGED <<lease, cand, run, gen, disk, tomb, job, head, forget, reader, faults>>

\* An entry that replayIndependentTombstone refuses: an unknown tombstone whose
\* epoch is not the next one, or whose subject has another tombstone here.
Refused(e) ==
    /\ e.id # tomb[e.subject].id
    /\ e.epoch <= reg.tomb \/ tomb[e.subject].status # "none"

\* replayIndependentTombstone for each entry in the order of the epochs, up to
\* the first refused one.
Replayable ==
    {e \in restore.remote.entries :
        \A bad \in restore.remote.entries : Refused(bad) => e.epoch < bad.epoch}

ReplayTombstones ==
    /\ restore.pc = "replaying"
    /\ tomb' = [c \in Cand |->
                  IF \E e \in Replayable : e.subject = c
                    THEN LET e == CHOOSE e \in Replayable : e.subject = c
                         IN [id |-> e.id, epoch |-> e.epoch, status |-> "restore-safe",
                             outbox |-> "synced"]
                    ELSE tomb[c]]
    /\ LET top == Cardinality(Replayable)
           Raised(epoch) == IF epoch > top THEN epoch ELSE top
       IN reg' = [reg EXCEPT !.tomb = Raised(@), !.head = Raised(@)]
    /\ restore' = IF Replayable = restore.remote.entries
                    THEN [restore EXCEPT !.pc = "confirming"]
                    ELSE [NoRestore EXCEPT !.pc = "done", !.result = "needs-repair"]
    /\ UNCHANGED <<lease, cand, run, gen, disk, job, head, forget, reader, faults, backup>>

\* The head is read again: only an unchanged head makes the registry healthy.
ReconcileConfirms ==
    /\ restore.pc = "confirming"
    /\ \/ /\ head = restore.remote
          /\ reg' = [reg EXCEPT !.head = IF @ > head.epoch THEN @ ELSE head.epoch,
                                !.repair = "healthy"]
          /\ restore' = [NoRestore EXCEPT !.pc = "done", !.result = "safe"]
       \/ /\ SetRepair("needs-repair")
          /\ restore' = [NoRestore EXCEPT !.pc = "done", !.result = "needs-repair"]
    /\ UNCHANGED <<lease, cand, run, gen, disk, tomb, job, head, forget, reader, faults, backup>>

--------------------------------------------------------------------------------
\* The services start once the registry has been put under repair and the head
\* has been asked.
ServiceStep ==
    /\ restore.pc # "restored"
    /\ KnowledgeStep
    /\ UNCHANGED backupVars

Next ==
    \/ ServiceStep
    \/ BackupStores \/ BackupVault \/ BackupManifest \/ BackupFails \/ UploadBackup
    \/ RestoreBackup \/ ReconcileReads \/ ReplayTombstones \/ ReconcileConfirms

Spec == BackupInit /\ [][Next]_vars

--------------------------------------------------------------------------------
\* Types of the durable state.
TypeOK ==
    /\ reg \in [active : Gen, pub : Nat, src : Nat, tomb : Nat, head : Nat, repair : Repair]
    /\ lease \in 0 .. MaxRuns
    /\ cand \in [Cand -> {"none", "staged", "published"}]
    /\ run \in [Run -> [status : {"none", "running", "fenced", "failed", "succeeded"},
                        expired : BOOLEAN]]
    /\ gen \in [Run -> [status : {"none", "staged", "active", "superseded", "quarantined"},
                        pages : SUBSET Cand, tomb : Nat, created : 0 .. MaxRuns]]
    /\ disk \subseteq Run
    /\ tomb \in [Cand -> [id : 0 .. MaxTombs, epoch : Nat,
                          status : {"none", "local-suppressed", "head-sync-pending", "restore-safe"},
                          outbox : {"none", "pending", "failed", "synced"}]]

\* A retrieval (retrieval.ts) never returns a page whose subject was forgotten
\* before it returns, whatever forgets and publications commit between its
\* snapshot, its look at the tombstones and its last look at the fence.
ServedIsNotForgotten ==
    [][RetrieveReturns /\ reader.pc = "reading" /\ StillCurrent => Results \cap Suppressed = {}]_vars

\* Complete generations (runner.ts previousPages, registry.ts activateGeneration):
\* whatever runs overlap, expire and crash, a candidate that was published and
\* not forgotten keeps its page in the active generation.
PublishedIsKept ==
    \A c \in Cand : cand[c] = "published" /\ c \notin Suppressed =>
        /\ reg.active # NoGen
        /\ c \in gen[reg.active].pages

\* A forget that is called restore-safe (tombstones.ts) is in the independent
\* head, through lost answers, version conflicts, crashes and a restore.
RestoreSafeIsInHead ==
    \A c \in Cand : tomb[c].status = "restore-safe" =>
        \E e \in head.entries : e.id = tomb[c].id /\ e.subject = c

\* At most one generation is active, and it is the one the pointer names.
OnePointer ==
    \A r \in Run : gen[r].status = "active" <=> r = reg.active

\* ADR 0022: when the head is unavailable or does not cover the snapshot,
\* retrieval remains disabled; so no retrieval returns a page that the head
\* knows to be forgotten, on a restored host either.
NothingInHeadIsServed ==
    [][RetrieveReturns /\ reader.pc = "reading" /\ StillCurrent =>
         Results \cap {e.subject : e \in head.entries} = {}]_vars

\* publication.ts: retention always leaves the active generation untouched.
ActiveIsOnDisk == reg.active # NoGen => reg.active \in disk
================================================================================
