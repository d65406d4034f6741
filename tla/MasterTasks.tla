------------------------------- MODULE MasterTasks -------------------------------
(***************************************************************************)
(* The projection of one Work Item into the Master Tasks database of Notion: *)
(* src/src/master-tasks/master-tasks.ts and the upsert with its write        *)
(* ledger in src/src/providers/notion-provider-adapter.ts, under changes     *)
(* that overlap, edits in Notion, answers that are lost and crashes.         *)
(*                                                                           *)
(* The version of a page is Notion's last_edited_time, which Notion rounds to  *)
(* the minute: two changes of one minute leave the same version behind.       *)
(***************************************************************************)
EXTENDS Integers, FiniteSets

CONSTANTS
    Projection,   \* what the Work Item may look like in Master Tasks
    Edit,         \* the projection an edit in Notion makes of it
    Sync,         \* syncs that may overlap
    MaxMinute,    \* bound: minutes of Notion's clock
    MaxPageChanges,   \* bound: writes and edits of the page
    MaxChanges,   \* bound: changes of the Work Item
    MaxFaults     \* bound: lost answers and crashes

\* What the constants must satisfy.
MasterTasksAssumption ==
    /\ Edit \in Projection
    /\ MaxMinute \in Nat \ {0} /\ MaxPageChanges \in Nat /\ MaxChanges \in Nat /\ MaxFaults \in Nat

VARIABLES
    item,      \* the projection of the Work Item as the gateway holds it
    pages,     \* pages that carry its identity
    page,      \* the first of them; see PageAt
    receipts,  \* notion_write_receipts: projections that were ever written
    known,     \* notion_master_task_versions; 0 without a row
    minute,    \* of Notion's clock
    sync,      \* what each upsert holds between its requests
    answer,    \* what the sync of the latest change answered
    changes,
    faults

tasksVars == <<item, pages, page, receipts, known, minute, sync, answer, changes,
              faults>>

Nothing == "none"
IdleSync == [pc |-> "idle", value |-> Nothing, version |-> 0, seen |-> 0]

\* A page as the code can see it, its value and its version, and what only the
\* properties know: how many changes it has had, which of them is the edit that
\* it shows (0: it shows a write), and the minute of the last write.
PageAt(value, version, change, edited, wrote) ==
    [value |-> value, version |-> version, change |-> change, edited |-> edited, wrote |-> wrote]

TasksInit ==
    /\ item = Nothing
    /\ pages = 0
    /\ page = PageAt(Nothing, 0, 0, 0, 0)
    /\ receipts = {} /\ known = 0 /\ minute = 1
    /\ sync = [s \in Sync |-> IdleSync]
    /\ answer = Nothing
    /\ changes = 0 /\ faults = 0

Fault == faults < MaxFaults /\ faults' = faults + 1

\* The upsert s ends with an answer, which counts when it was for the item as
\* it is now.
Answers(s, outcome) ==
    /\ sync' = [sync EXCEPT ![s] = IdleSync]
    /\ answer' = IF sync[s].value = item THEN outcome ELSE answer

--------------------------------------------------------------------------------
\* recordFor and the first half of upsertMasterTask: a projection with a receipt
\* is answered as written.
StartUpsert(s, value) ==
    IF value \in receipts
      THEN sync' = sync /\ answer' = "ok"
      ELSE /\ sync' = [sync EXCEPT ![s] = [IdleSync EXCEPT !.pc = "querying", !.value = value]]
           /\ answer' = Nothing

\* The gateway moves the item and awaits its projection.
ItemChanges(s) ==
    /\ sync[s].pc = "idle" /\ changes < MaxChanges
    /\ \E value \in Projection \ {item} : item' = value /\ StartUpsert(s, value)
    /\ changes' = changes + 1
    /\ UNCHANGED <<pages, page, receipts, known, minute, faults>>

\* The page has the version recorded last: what happened to it in the same minute
\* is not told apart.
Unchanged == page.version = known

\* Mutant: the version of the page is not compared.
QueryTrusts(s) ==
    /\ sync[s].pc = "querying"
    /\ IF pages > 1
         THEN Answers(s, "failed")
         ELSE /\ sync' = [sync EXCEPT ![s].pc = IF pages = 0 THEN "creating" ELSE "patching",
                                      ![s].version = page.version, ![s].seen = page.change]
              /\ UNCHANGED answer
    /\ UNCHANGED <<item, pages, page, receipts, known, minute, changes, faults>>

\* The query for the page of the item: duplicates, and a page in a version that
\* is not the last one written, are refused.
QueryPage(s) ==
    /\ sync[s].pc = "querying"
    /\ IF pages > 1 \/ (pages = 1 /\ ~Unchanged)
         THEN Answers(s, "failed")
         ELSE /\ sync' = [sync EXCEPT ![s].pc = IF pages = 0 THEN "creating" ELSE "patching",
                                      ![s].version = page.version, ![s].seen = page.change]
              /\ UNCHANGED answer
    /\ UNCHANGED <<item, pages, page, receipts, known, minute, changes, faults>>

\* Notion creates the page, or writes the one that was found.
WritePage(s) ==
    /\ sync[s].pc \in {"creating", "patching"} /\ page.change < MaxPageChanges
    /\ pages' = IF sync[s].pc = "creating" THEN pages + 1 ELSE pages
    /\ page' = IF sync[s].pc = "creating" /\ pages > 0 THEN page
               ELSE PageAt(sync[s].value, minute, page.change + 1, 0, minute)
    /\ sync' = [sync EXCEPT ![s].pc = "recording", ![s].version = minute, ![s].seen = 0]
    /\ UNCHANGED <<item, receipts, known, minute, answer, changes, faults>>

\* The receipt and the version are recorded.  A receipt that is there already
\* makes the record fail, and the version is not recorded.
RecordWrite(s) ==
    /\ sync[s].pc = "recording"
    /\ IF sync[s].value \in receipts
         THEN Answers(s, "failed") /\ UNCHANGED <<receipts, known>>
         ELSE /\ receipts' = receipts \cup {sync[s].value}
              /\ known' = sync[s].version
              /\ Answers(s, "ok")
    /\ UNCHANGED <<item, pages, page, minute, changes, faults>>

\* The answer of the write is lost, and the gateway's one retry queries again.
AnswerLost(s) ==
    /\ sync[s].pc = "recording" /\ Fault
    /\ sync' = [sync EXCEPT ![s].pc = "querying", ![s].version = 0]
    /\ UNCHANGED <<item, pages, page, receipts, known, minute, answer, changes>>

\* The process dies with every sync in it.
TasksCrash ==
    /\ \E s \in Sync : sync[s].pc # "idle"
    /\ Fault
    /\ sync' = [s \in Sync |-> IdleSync]
    /\ answer' = Nothing
    /\ UNCHANGED <<item, pages, page, receipts, known, minute, changes>>

\* A person edits the page in Notion, which stamps it with the minute.
PersonEdits ==
    /\ pages = 1 /\ page.change < MaxPageChanges /\ page.value # Edit
    /\ page' = PageAt(Edit, minute, page.change + 1, page.change + 1, page.wrote)
    /\ UNCHANGED <<item, pages, receipts, known, minute, sync, answer, changes, faults>>

\* Notion's clock goes on to another minute.
MinutePasses ==
    /\ minute < MaxMinute
    /\ minute' = minute + 1
    /\ UNCHANGED <<item, pages, page, receipts, known, sync, answer, changes, faults>>

\* reconcileFromStore, and editThroughView: an edit of the priority is taken over
\* by the gateway, a drift of another field is answered with a sync.
Reconcile(s) ==
    /\ sync[s].pc = "idle" /\ pages = 1 /\ page.value # item /\ changes < MaxChanges
    /\ item' = IF page.value = Edit THEN Edit ELSE item
    /\ StartUpsert(s, item')
    /\ changes' = changes + 1
    /\ UNCHANGED <<pages, page, receipts, known, minute, faults>>

--------------------------------------------------------------------------------
TasksNext ==
    \/ \E s \in Sync : ItemChanges(s) \/ QueryPage(s) \/ WritePage(s) \/ RecordWrite(s)
                       \/ AnswerLost(s) \/ Reconcile(s)
    \/ TasksCrash
    \/ PersonEdits \/ MinutePasses

TasksSpec == TasksInit /\ [][TasksNext]_tasksVars

--------------------------------------------------------------------------------
\* An upsert overwrites the page.
Overwrites(s) == sync[s].pc = "patching" /\ sync'[s].pc = "recording"

\* upsertMasterTask refuses an unverifiable overwrite: a write replaces an edit
\* made in Notion before its own query only when the edit was made in the very
\* minute of the write before it, whatever syncs overlap, lose their answers or
\* die.
LaterEditsAreSeen ==
    [][\A s \in Sync : Overwrites(s) =>
         page.edited = 0 \/ page.edited > sync[s].seen \/ page.version = page.wrote]_tasksVars

\* What the refusal "changed outside the last synced version; read it back before
\* retrying." promises: no edit made before its own query is replaced.  It is not
\* kept, since an edit in the minute of the last write has the version of that
\* write.
EditsAreSeen ==
    [][\A s \in Sync : Overwrites(s) =>
         page.edited = 0 \/ page.edited > sync[s].seen]_tasksVars

\* operations-gateway.ts, publish: the retry leaves no "projection drift to be
\* silently accepted forever": when the latest change was answered as written
\* and no sync is under way, the page nobody edited shows the item.
WrittenIsShown ==
    answer = "ok" /\ (\A s \in Sync : sync[s].pc = "idle") /\ page.edited = 0 =>
        page.value = item
================================================================================
