----------------------------- MODULE KnowledgeVault -----------------------------
(***************************************************************************)
(* One root of the Knowledge Vault (src/src/knowledge/knowledge-vault.ts),  *)
(* the compiler that publishes its generations from a cache in memory       *)
(* (knowledge-compiler.ts), and the ingest, compile and retention jobs      *)
(* around them (knowledge-operations.ts), with publications that fail,      *)
(* evidence that cannot be stored, and restarts.                            *)
(*                                                                         *)
(* One page is compiled; a candidate is named by its text, the hash of      *)
(* which names it in the code.                                              *)
(***************************************************************************)
EXTENDS Integers, Sequences, FiniteSets

CONSTANTS
    Text,     \* texts the evidence broker may return for the page
    Revises,  \* pairs of a text and one that begins like it
    Uncited,  \* texts without a citation, or with a hash that is not theirs
    MaxGenerations,  \* bound: generations of the root
    MaxFaults        \* bound: failures and restarts

\* What the constants must satisfy.
KnowledgeVaultAssumption ==
    /\ Revises \subseteq Text \X Text /\ Uncited \subseteq Text
    /\ MaxGenerations \in Nat /\ MaxFaults \in Nat

VARIABLES
    staged,      \* candidates held in memory only
    metadata,    \* knowledge_candidates: what was ever captured
    vault,       \* vault_generations with their files, in sequence
    cache,       \* the compiler's view of the current generation
    elapsed,     \* candidates and generations behind their retention
    evidence,    \* retention_purge_events
    work,        \* the job that is running
    faults

vaultVars == <<staged, metadata, vault, cache, elapsed, evidence, work, faults>>

NoPage == "none"
Empty == [page |-> NoPage, quarantine |-> {}, lines |-> 0]
Unloaded == [loaded |-> FALSE, view |-> Empty]
NoWork == [job |-> "none", todo |-> {}]

VaultInit ==
    /\ staged = {} /\ metadata = {}
    /\ vault = <<>>
    /\ cache = Unloaded
    /\ elapsed = {} /\ evidence = {}
    /\ work = NoWork
    /\ faults = 0

\* currentGeneration: the last one; every other one is superseded.
Current == IF vault = <<>> THEN Empty ELSE vault[Len(vault)].view
Superseded == 1 .. Len(vault) - 1
Purged == {g \in 1 .. Len(vault) : ~vault[g].files}

\* A retained record: a raw candidate or a compiled generation.
Raw(texts) == {"raw"} \X texts
Compiled(generations) == {"compiled"} \X generations

Fault == faults < MaxFaults /\ faults' = faults + 1

--------------------------------------------------------------------------------
(* Ingest *)

\* ingest: the metadata of a candidate is stored before it is staged.
Ingest ==
    /\ work = NoWork
    /\ \E t \in Text : staged' = staged \cup {t} /\ metadata' = metadata \cup {t}
    /\ UNCHANGED <<vault, cache, elapsed, evidence, work, faults>>

--------------------------------------------------------------------------------
(* Compile *)

StartCompile ==
    /\ work = NoWork /\ staged # {}
    /\ Len(vault) + Cardinality(staged) <= MaxGenerations
    /\ work' = [job |-> "compile", todo |-> staged]
    /\ UNCHANGED <<staged, metadata, vault, cache, elapsed, evidence, faults>>

\* Mutant: the files of the current generation are not read after a restart.
ForgottenView == cache.view

\* ensureLoaded
LoadedView == IF cache.loaded THEN cache.view ELSE Current

\* What compile makes of a candidate: the page it revises, or a quarantine file
\* beside the page it contradicts.
Compile(v, t) ==
    IF v.page = NoPage \/ <<v.page, t>> \in Revises
      THEN [v EXCEPT !.page = t, !.lines = @ + 1]
      ELSE [v EXCEPT !.quarantine = @ \cup {t}, !.lines = @ + 1]

\* Rejected, or published before.
Skips(v, t) == t \in Uncited \/ v.page = t \/ t \in v.quarantine

\* compile of one candidate, up to publishGeneration: a complete generation in
\* one transaction, and the view that goes with it.
CompileNext ==
    /\ work.job = "compile"
    /\ \E t \in work.todo :
         LET v == LoadedView IN
         /\ work' = [work EXCEPT !.todo = @ \ {t}]
         /\ IF Skips(v, t)
              THEN /\ cache' = IF t \in Uncited THEN cache ELSE [loaded |-> TRUE, view |-> v]
                   /\ UNCHANGED vault
              ELSE /\ vault' = Append(vault, [view |-> Compile(v, t), files |-> TRUE])
                   /\ cache' = [loaded |-> TRUE, view |-> Compile(v, t)]
    /\ UNCHANGED <<staged, metadata, elapsed, evidence, faults>>

\* publishFiles: the line of the log is added before the transaction, and stays
\* when the transaction fails.  The job ends, its candidates stay staged.
PublishFails ==
    /\ work.job = "compile" /\ Fault
    /\ \E t \in work.todo :
         /\ ~Skips(LoadedView, t)
         /\ cache' = [loaded |-> TRUE, view |-> [LoadedView EXCEPT !.lines = @ + 1]]
    /\ work' = NoWork
    /\ UNCHANGED <<staged, metadata, vault, elapsed, evidence>>

EndCompile ==
    /\ work.job = "compile" /\ work.todo = {}
    /\ staged' = {} /\ work' = NoWork
    /\ UNCHANGED <<metadata, vault, cache, elapsed, evidence, faults>>

--------------------------------------------------------------------------------
(* Retention *)

\* Time passes the retention of a candidate or of a superseded generation.
RetentionElapses ==
    /\ \E x \in (Raw(metadata) \cup Compiled(Superseded)) \ elapsed : elapsed' = elapsed \cup {x}
    /\ UNCHANGED <<staged, metadata, vault, cache, evidence, work, faults>>

\* The job runs once a day.  The evidence of a candidate is stored, then the
\* payload leaves memory.
StartRetention ==
    /\ work = NoWork
    /\ evidence' = evidence \cup (Raw(metadata) \cap elapsed)
    /\ staged' = {t \in staged : <<"raw", t>> \in evidence \/ <<"raw", t>> \notin elapsed}
    /\ work' = [NoWork EXCEPT !.job = "purge"]
    /\ UNCHANGED <<metadata, vault, cache, elapsed, faults>>

\* purgeSuperseded: the files go, the vault keeps its own event.
PurgeSuperseded ==
    /\ work.job = "purge"
    /\ LET due == {g \in Superseded \ Purged : <<"compiled", g>> \in elapsed} IN
         /\ vault' = [g \in DOMAIN vault |-> [vault[g] EXCEPT !.files = @ /\ g \notin due]]
         /\ work' = [job |-> "record", todo |-> due]
    /\ UNCHANGED <<staged, metadata, cache, elapsed, evidence, faults>>

\* Mutant: only what this run purged is recorded.
ReturnedEvents == work.todo

\* purgeEvents: every event of the vault, those of an earlier run included.
VaultEvents == Purged

\* The events are recorded in the control plane's evidence.  The backups are
\* purged last, and fail the job unless their deletion is proved.
RecordPurges ==
    /\ work.job = "record"
    /\ evidence' = evidence \cup Compiled(VaultEvents)
    /\ work' = NoWork
    /\ UNCHANGED <<staged, metadata, vault, cache, elapsed, faults>>

\* The evidence cannot be stored: the job fails with what it purged.
RetentionFails ==
    /\ work.job \in {"purge", "record"} /\ Fault
    /\ work' = NoWork
    /\ UNCHANGED <<staged, metadata, vault, cache, elapsed, evidence>>

\* The process restarts: the staged payloads and the view are gone.
VaultRestarts ==
    /\ Fault
    /\ staged' = {} /\ cache' = Unloaded /\ work' = NoWork
    /\ UNCHANGED <<metadata, vault, elapsed, evidence>>

--------------------------------------------------------------------------------
JobStep == CompileNext \/ EndCompile \/ PurgeSuperseded \/ RecordPurges

VaultNext ==
    \/ Ingest \/ StartCompile \/ JobStep \/ PublishFails
    \/ RetentionElapses \/ StartRetention \/ RetentionFails
    \/ VaultRestarts

\* The jobs are synchronous; the scheduler starts retention every day.
VaultFairness == WF_vaultVars(JobStep) /\ SF_vaultVars(StartRetention)

VaultSpec == VaultInit /\ [][VaultNext]_vaultVars /\ VaultFairness

--------------------------------------------------------------------------------
\* knowledge-compiler.ts: "Contradicts the published page. Not merged; only Ming
\* can resolve it": over restarts and failed publications, a published page
\* gives way only to a text that begins like it.
ContradictionsAreQuarantined ==
    [][\A t, n \in Text :
         Current.page = t /\ Current'.page = n => t = n \/ <<t, n>> \in Revises]_vaultVars

\* knowledge-operations.ts: every generation the vault purged gets its evidence
\* in the control plane, whatever fails between the two databases.
PurgesAreEvidenced ==
    \A g \in 1 .. MaxGenerations : (g \in Purged) ~> (<<"compiled", g>> \in evidence)

\* publishFiles: a generation's own log numbers the generations as the vault does.
LogMatchesVault == \A g \in DOMAIN vault : vault[g].view.lines = g
================================================================================
