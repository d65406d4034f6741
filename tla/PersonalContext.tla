------------------------------ MODULE PersonalContext ------------------------------
(***************************************************************************)
(* Staging of one Personal Context source,                                   *)
(* src/src/knowledge/personal-context-ingestion.ts: the reads of the source  *)
(* that overlap, the payload written before its row, and the sweep that      *)
(* unlinks a payload before it records the purge, with failures of the       *)
(* database and crashes between any two of those steps.                      *)
(***************************************************************************)
EXTENDS Integers, Sequences, FiniteSets

CONSTANTS
    Ingest,      \* ingestions that may overlap
    Sensitive,   \* versions of the source whose content is quarantined
    Retention,   \* days of the retention class of the manifest
    OrphanDays,  \* candidateRetentionDays: when a payload without a row goes
    MaxVersion,  \* bound: versions of the source
    MaxDays,     \* bound: days
    MaxFaults    \* bound: failed inserts and crashes

\* What the constants must satisfy.
PersonalContextAssumption ==
    /\ Sensitive \subseteq Nat
    /\ {Retention, OrphanDays} \subseteq Nat \ {0} /\ Retention <= OrphanDays
    /\ MaxVersion \in Nat \ {0} /\ {MaxDays, MaxFaults} \subseteq Nat

VARIABLES
    source,   \* the version of the source
    ingest,   \* what each ingestion read, and whether its payload is staged
    rows,     \* personal_context_candidates in the order of their rowids
    payload,  \* the day each staged payload was written, or Absent
    purging,  \* the unlinked payload whose purge is not recorded yet
    purges,   \* personal_context_purge_events
    day,
    faults

contextVars == <<source, ingest, rows, payload, purging, purges, day, faults>>

Version == 1..MaxVersion
Absent == 0
NoPurge == [of |-> 0, orphan |-> FALSE]
IdleIngest == [pc |-> "idle", version |-> 0]

ContextInit ==
    /\ source = 1
    /\ ingest = [i \in Ingest |-> IdleIngest]
    /\ rows = <<>>
    /\ payload = [v \in Version |-> Absent]
    /\ purging = NoPurge /\ purges = {}
    /\ day = 1 /\ faults = 0

Rows == {rows[n] : n \in DOMAIN rows}
HasRow(v) == \E row \in Rows : row.version = v
Fault == faults < MaxFaults /\ faults' = faults + 1

\* Only the read of the source is awaited: the rest of an ingestion and the whole
\* of a sweep run without anything else of the process between their steps.
Undisturbed == purging = NoPurge /\ \A i \in Ingest : ingest[i].pc # "staged"

--------------------------------------------------------------------------------
\* The source is edited.
SourceChanges ==
    /\ Undisturbed /\ source < MaxVersion
    /\ source' = source + 1
    /\ UNCHANGED <<ingest, rows, payload, purging, purges, day, faults>>

\* ingest: the manifest entry is on the allowlist, and the source is read.
ReadSource(i) ==
    /\ Undisturbed /\ ingest[i].pc = "idle"
    /\ ingest' = [ingest EXCEPT ![i] = [pc |-> "read", version |-> source]]
    /\ UNCHANGED <<source, rows, payload, purging, purges, day, faults>>

\* The row of a candidate, which supersedes the last row.
Captured(v, state) ==
    rows' = Append(rows, [version |-> v, state |-> state, due |-> day + Retention,
                          supersedes |-> IF rows = <<>> THEN 0 ELSE rows[Len(rows)].version])

\* Mutant: the candidate that is there already is not looked up.
StageAnyway(i) ==
    /\ Undisturbed /\ ingest[i].pc = "read"
    /\ LET v == ingest[i].version
       IN  IF v \in Sensitive
             THEN /\ ingest' = [ingest EXCEPT ![i] = IdleIngest]
                  /\ IF HasRow(v) THEN UNCHANGED rows ELSE Captured(v, "quarantined")
                  /\ UNCHANGED payload
             ELSE /\ payload' = [payload EXCEPT ![v] = day]
                  /\ ingest' = [ingest EXCEPT ![i].pc = "staged"]
                  /\ UNCHANGED rows
    /\ UNCHANGED <<source, purging, purges, day, faults>>

\* ingest after its read: content that is known is answered with its row, which
\* may be purged; sensitive content leaves a row and no payload; any other
\* payload is written before its row.
Stage(i) ==
    /\ Undisturbed /\ ingest[i].pc = "read"
    /\ LET v == ingest[i].version
       IN  IF HasRow(v) \/ v \in Sensitive
             THEN /\ ingest' = [ingest EXCEPT ![i] = IdleIngest]
                  /\ IF HasRow(v) THEN UNCHANGED rows ELSE Captured(v, "quarantined")
                  /\ UNCHANGED payload
             ELSE /\ payload' = [payload EXCEPT ![v] = day]
                  /\ ingest' = [ingest EXCEPT ![i].pc = "staged"]
                  /\ UNCHANGED rows
    /\ UNCHANGED <<source, purging, purges, day, faults>>

\* The row of a staged payload.
InsertRow(i) ==
    /\ ingest[i].pc = "staged"
    /\ Captured(ingest[i].version, "verified-ingestion")
    /\ ingest' = [ingest EXCEPT ![i] = IdleIngest]
    /\ UNCHANGED <<source, payload, purging, purges, day, faults>>

\* An insert that fails unlinks the payload.
InsertFails(i) ==
    /\ ingest[i].pc = "staged" /\ Fault
    /\ payload' = [payload EXCEPT ![ingest[i].version] = Absent]
    /\ ingest' = [ingest EXCEPT ![i] = IdleIngest]
    /\ UNCHANGED <<source, rows, purging, purges, day>>

\* purgeExpired: the payload of a row that is due and was not purged before.
UnlinkDue(v) ==
    /\ Undisturbed /\ [of |-> v, orphan |-> FALSE] \notin purges
    /\ \E row \in Rows : /\ row.version = v /\ row.due <= day
                         /\ row.state = "verified-ingestion"
    /\ payload' = [payload EXCEPT ![v] = Absent]
    /\ purging' = [of |-> v, orphan |-> FALSE]
    /\ UNCHANGED <<source, ingest, rows, purges, day, faults>>

\* purgeExpired: a payload no row refers to, once it is old enough.
UnlinkOrphan(v) ==
    /\ Undisturbed /\ ~HasRow(v)
    /\ payload[v] # Absent /\ payload[v] + OrphanDays <= day
    /\ payload' = [payload EXCEPT ![v] = Absent]
    /\ purging' = [of |-> v, orphan |-> TRUE]
    /\ UNCHANGED <<source, ingest, rows, purges, day, faults>>

\* The evidence of the payload just unlinked.
RecordPurge ==
    /\ purging # NoPurge
    /\ purges' = purges \cup {purging}
    /\ purging' = NoPurge
    /\ UNCHANGED <<source, ingest, rows, payload, day, faults>>

DayPasses ==
    /\ Undisturbed /\ day < MaxDays
    /\ day' = day + 1
    /\ UNCHANGED <<source, ingest, rows, payload, purging, purges, faults>>

\* The process dies in the middle of an ingestion or of a sweep.
ContextCrash ==
    /\ ~Undisturbed /\ Fault
    /\ ingest' = [i \in Ingest |-> IdleIngest]
    /\ purging' = NoPurge
    /\ UNCHANGED <<source, rows, payload, purges, day>>

ContextNext ==
    \/ SourceChanges \/ DayPasses \/ RecordPurge \/ ContextCrash
    \/ \E i \in Ingest : ReadSource(i) \/ Stage(i) \/ InsertRow(i) \/ InsertFails(i)
    \/ \E v \in Version : UnlinkDue(v) \/ UnlinkOrphan(v)

ContextSpec == ContextInit /\ [][ContextNext]_contextVars

--------------------------------------------------------------------------------
\* A verified snapshot can be read until it is due, and once its purge is
\* recorded its payload stays gone, whatever is ingested again, fails or dies.
PayloadsFollowTheirRows ==
    \A row \in Rows :
        /\ row.state = "verified-ingestion" /\ day < row.due => payload[row.version] # Absent
        /\ [of |-> row.version, orphan |-> FALSE] \in purges => payload[row.version] = Absent
        /\ row.state = "quarantined" => payload[row.version] = Absent

================================================================================
