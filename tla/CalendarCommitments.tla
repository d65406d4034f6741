---------------------------- MODULE CalendarCommitments ----------------------------
(***************************************************************************)
(* The date of one Work Item and the calendar event it stands for:           *)
(* src/src/calendar/calendar-reconciliation.ts with the gateway's            *)
(* recordWorkItemCommitment and the write ledger of the Google Calendar      *)
(* adapter, while the CEO sets dates, people move the event, answers are     *)
(* lost and the process dies.                                                *)
(***************************************************************************)
EXTENDS Integers, Sequences

CONSTANTS
    StartTime,    \* times the event may start at
    Reader,        \* reconciliations that may overlap
    Change,        \* changes that may overlap
    MaxApprovals,  \* bound: Approvals of the event
    MaxMoves,      \* bound: dates set by the CEO and moves of the event by people
    MaxFaults      \* bound: lost answers and crashes

\* What the constants must satisfy.
CalendarAssumption ==
    {MaxApprovals, MaxMoves, MaxFaults} \subseteq Nat

VARIABLES
    event,       \* where the event stands at the calendar
    commitment,  \* confirmedCommitment of the Work Item
    approvals,   \* Approvals whose target is the event, in order
    receipts,    \* the write ledger of the adapter, by approval and start
    reading,     \* what each reconciliation holds over its await
    changing,    \* what each change holds over its await
    moves,
    faults

calendarVars == <<event, commitment, approvals, receipts, reading, changing, moves, faults>>

NoCommitment == [kind |-> "none", value |-> 0]
IdleReading == [pc |-> "idle", known |-> "none", value |-> 0]
IdleChange == [pc |-> "idle", start |-> 0, approval |-> 0]

CalendarInit ==
    /\ event \in StartTime
    /\ commitment = NoCommitment
    /\ approvals = <<>> /\ receipts = {}
    /\ reading = [r \in Reader |-> IdleReading]
    /\ changing = [c \in Change |-> IdleChange]
    /\ moves = 0 /\ faults = 0

Fault == faults < MaxFaults /\ faults' = faults + 1
Move == moves < MaxMoves /\ moves' = moves + 1

\* recordWorkItemCommitment.  A source outside may not replace a date of the
\* CEO: the refusal is audited and thrown.
CommitsFromSource(value) ==
    commitment' = IF commitment.kind = "CEO-set" THEN commitment
                  ELSE [kind |-> "Externally Sourced", value |-> value]
CommitsAsCeo(value) == commitment' = [kind |-> "CEO-set", value |-> value]

--------------------------------------------------------------------------------
\* The CEO sets the date of the item.
CeoSetsDate(s) ==
    /\ Move /\ CommitsAsCeo(s)
    /\ UNCHANGED <<event, approvals, receipts, reading, changing, faults>>

\* Somebody moves the event in the calendar.
PersonMoves(s) ==
    /\ Move /\ s # event /\ event' = s
    /\ UNCHANGED <<commitment, approvals, receipts, reading, changing, faults>>

\* reconcile holds the item it found, and awaits the calendar.
StartReconcile(r) ==
    /\ reading[r].pc = "idle"
    /\ reading' = [reading EXCEPT ![r] = [pc |-> "listing", known |-> commitment.kind, value |-> 0]]
    /\ UNCHANGED <<event, commitment, approvals, receipts, changing, moves, faults>>

CalendarAnswers(r) ==
    /\ reading[r].pc = "listing"
    /\ reading' = [reading EXCEPT ![r].pc = "listed", ![r].value = event]
    /\ UNCHANGED <<event, commitment, approvals, receipts, changing, moves, faults>>

\* An answer that is missing, stale or without the event ends the reconciliation.
CalendarIsSilent(r) ==
    /\ reading[r].pc = "listing"
    /\ reading' = [reading EXCEPT ![r] = IdleReading]
    /\ UNCHANGED <<event, commitment, approvals, receipts, changing, moves, faults>>

\* Mutant: the commitment found before the await decides.
EndReconcileTrusts(r) ==
    /\ reading[r].pc = "listed"
    /\ commitment' = IF reading[r].known = "CEO-set" THEN commitment
                     ELSE [kind |-> "Externally Sourced", value |-> reading[r].value]
    /\ reading' = [reading EXCEPT ![r] = IdleReading]
    /\ UNCHANGED <<event, approvals, receipts, changing, moves, faults>>

\* The rest of reconcile: a date of the CEO is reported, in agreement or in
\* conflict; any other commitment follows the calendar.
EndReconcile(r) ==
    /\ reading[r].pc = "listed"
    /\ IF reading[r].known = "CEO-set" THEN UNCHANGED commitment
       ELSE CommitsFromSource(reading[r].value)
    /\ reading' = [reading EXCEPT ![r] = IdleReading]
    /\ UNCHANGED <<event, approvals, receipts, changing, moves, faults>>

--------------------------------------------------------------------------------
Granted == {k \in DOMAIN approvals : approvals[k].state = "granted"}
FirstGranted == CHOOSE k \in Granted : \A other \in Granted : k <= other

\* requestApproval: what the next Approval of the event is for.
Requested(s) == [start |-> s, state |-> "requested"]

\* change without a granted Approval of these times: the first one granted for
\* the event is marked, and another is requested.
ChangeIsStaged(c, s) ==
    /\ changing[c].pc = "idle" /\ Len(approvals) < MaxApprovals
    /\ Granted # {} => approvals[FirstGranted].start # s
    /\ approvals' = Append(
           IF Granted = {} THEN approvals
           ELSE [approvals EXCEPT ![FirstGranted].state = "invalidated"],
           Requested(s))
    /\ UNCHANGED <<event, commitment, receipts, reading, changing, moves, faults>>

\* change with one: the ledger knows the effect already, or it is awaited.  A
\* change of an event is of medium risk, which no standing authority covers: what
\* permits it is always an Approval.
ChangeIsPermitted(c, s) ==
    /\ changing[c].pc = "idle" /\ Granted # {} /\ approvals[FirstGranted].start = s
    /\ changing' = [changing EXCEPT ![c] =
           [pc |-> IF [approval |-> FirstGranted, start |-> s] \in receipts
                   THEN "written" ELSE "sending",
            start |-> s, approval |-> FirstGranted]]
    /\ UNCHANGED <<event, commitment, approvals, receipts, reading, moves, faults>>

CeoGrants(k) ==
    /\ k \in DOMAIN approvals /\ approvals[k].state = "requested"
    /\ approvals' = [approvals EXCEPT ![k].state = "granted"]
    /\ UNCHANGED <<event, commitment, receipts, reading, changing, moves, faults>>

\* changeEventTime: the calendar moves the event.
CalendarPatches(c) ==
    /\ changing[c].pc = "sending"
    /\ event' = changing[c].start
    /\ changing' = [changing EXCEPT ![c].pc = "patched"]
    /\ UNCHANGED <<commitment, approvals, receipts, reading, moves, faults>>

\* Its answer leaves a receipt.
PatchIsAnswered(c) ==
    /\ changing[c].pc = "patched"
    /\ receipts' = receipts \cup {[approval |-> changing[c].approval, start |-> changing[c].start]}
    /\ changing' = [changing EXCEPT ![c].pc = "written"]
    /\ UNCHANGED <<event, commitment, approvals, reading, moves, faults>>

\* The write fails, or its answer is lost: change answers that it failed.
PatchIsLost(c) ==
    /\ changing[c].pc \in {"sending", "patched"} /\ Fault
    /\ changing' = [changing EXCEPT ![c] = IdleChange]
    /\ UNCHANGED <<event, commitment, approvals, receipts, reading, moves>>

\* The item moves with the change, as the CEO who approved it.
EndChange(c) ==
    /\ changing[c].pc = "written"
    /\ CommitsAsCeo(changing[c].start)
    /\ changing' = [changing EXCEPT ![c] = IdleChange]
    /\ UNCHANGED <<event, approvals, receipts, reading, moves, faults>>

\* The process dies, and the ephemeral ledger with it.
CalendarCrash ==
    /\ Fault
    /\ receipts' = {}
    /\ reading' = [r \in Reader |-> IdleReading]
    /\ changing' = [c \in Change |-> IdleChange]
    /\ UNCHANGED <<event, commitment, approvals, moves>>

CalendarNext ==
    \/ \E s \in StartTime : CeoSetsDate(s) \/ PersonMoves(s)
    \/ \E r \in Reader : StartReconcile(r) \/ CalendarAnswers(r) \/ CalendarIsSilent(r) \/ EndReconcile(r)
    \/ \E c \in Change : \/ CalendarPatches(c) \/ PatchIsAnswered(c) \/ PatchIsLost(c) \/ EndChange(c)
                         \/ \E s \in StartTime : ChangeIsStaged(c, s) \/ ChangeIsPermitted(c, s)
    \/ \E k \in 1..MaxApprovals : CeoGrants(k)
    \/ CalendarCrash

CalendarSpec == CalendarInit /\ [][CalendarNext]_calendarVars

--------------------------------------------------------------------------------
\* A date of the CEO outranks the calendar: no reconciliation replaces it, not
\* even one that awaited the calendar since before the CEO set it.
CeoDateIsKept ==
    [][commitment.kind = "CEO-set" => commitment'.kind = "CEO-set"]_calendarVars

================================================================================
