---------------------------- MODULE TelegramFrontDoor ----------------------------
(***************************************************************************)
(* The Telegram ingress: updates polled behind a durable cursor            *)
(* (src/src/runtime/telegram-ingress.ts), the front door that handles one  *)
(* update at a time (src/src/telegram/telegram-front-door.ts), the review  *)
(* controls of a Work Item and the turns handed to Hermes                  *)
(* (src/src/hermes/hermes-turn-coordinator.ts), with crashes between any    *)
(* two transactions and the dashboard reviewing the same item.             *)
(*                                                                         *)
(* One Work Item is under review.  Its reports are numbered; an Outcome    *)
(* Report that replaces another one is a higher number.  The outbox behind  *)
(* a send is ExceptionNotices'; here a send is told, or leaves a delivery   *)
(* that nothing resolves.                                                   *)
(***************************************************************************)
EXTENDS Integers, Sequences, FiniteSets

CONSTANTS
    Kinds,        \* kinds of the updates that are no answer to a review control
    Decisions,    \* decisions a review control offers
    MaxUpdates,   \* bound: updates sent to the bot
    MaxReports,   \* bound: Outcome Reports of the item
    MaxSets,      \* bound: sets of review controls issued
    MaxFaults     \* bound: crashes, projections that fail, sends left uncertain

ASSUME FrontDoorAssumption ==
    /\ Kinds \subseteq {"stranger", "unsupported", "approval", "order", "talk"}
    /\ Decisions \subseteq {"approve", "request-changes", "reject", "cancel"}
    /\ MaxUpdates \in Nat /\ MaxReports \in Nat /\ MaxSets \in Nat /\ MaxFaults \in Nat

VARIABLES
    inbox,       \* updates Telegram holds, in the order of their identifiers
    cursor,      \* telegram_ingress_cursor
    ingress,     \* telegram_ingress_results, the kind of each
    door,        \* what pollTelegramUpdates and receiveUpdate hold in memory
    control,     \* telegram_review_controls: state and claiming update
    target,      \* the report a set of controls was issued for
    late,        \* sets whose expiry has passed
    item,        \* state and report of the Work Item under review
    decisions,   \* history: who moved the item out of review, and how
    turn,        \* hermes_turns
    work,        \* updates whose Work Item exists
    approval,    \* the promotion Approval an update may grant
    told,        \* what the CEO was told under the keys of each update
    unresolved,  \* a delivery is in flight or uncertain for good
    faults

reviewVars == <<control, target, late, item, decisions>>
vars == <<inbox, cursor, ingress, door, reviewVars, turn, work, approval, told, unresolved, faults>>

Update == 1 .. MaxUpdates
ControlSet == 1 .. MaxSets
IdleDoor == [pc |-> "idle", at |-> 0, last |-> 0, out |-> "none", todo |-> <<>>]
Plain(k) == [kind |-> k, set |-> 0, decision |-> "none"]

Init ==
    /\ inbox = <<>> /\ cursor = 0
    /\ ingress = [u \in Update |-> "none"]
    /\ door = IdleDoor
    /\ control = [s \in ControlSet |-> [d \in Decisions |-> [state |-> "none", by |-> 0]]]
    /\ target = [s \in ControlSet |-> 0]
    /\ late = {}
    /\ item = [state |-> "Executing", report |-> 0]
    /\ decisions = {}
    /\ turn = [u \in Update |-> "none"]
    /\ work = {}
    /\ approval = "requested"
    /\ told = [u \in Update |-> {}]
    /\ unresolved = FALSE
    /\ faults = 0

--------------------------------------------------------------------------------
(* The world around the front door *)

\* expectedReviewState
Expected(d) ==
    CASE d = "approve" -> "Completed"
      [] d = "request-changes" -> "ChangesRequested"
      [] OTHER -> "Cancelled"

\* The CEO sends a message, or answers a review control: by its button, or by
\* the /changes command that carries the reason.
CeoSends ==
    /\ Len(inbox) < MaxUpdates
    /\ \E u \in {Plain(k) : k \in Kinds}
                \cup [kind : {"press"}, set : ControlSet, decision : Decisions]
                \cup [kind : {"reason"}, set : ControlSet,
                      decision : Decisions \cap {"request-changes"}] :
         /\ u.set # 0 => target[u.set] # 0
         /\ inbox' = Append(inbox, u)
    /\ UNCHANGED <<cursor, ingress, door, reviewVars, turn, work, approval, told, unresolved, faults>>

\* The gateway brings the item to review with its next report.
ReportReady ==
    /\ item.state = "Executing" /\ item.report < MaxReports
    /\ item' = [state |-> "ReadyForCeoReview", report |-> item.report + 1]
    /\ UNCHANGED <<inbox, cursor, ingress, door, control, target, late, decisions, turn, work,
                   approval, told, unresolved, faults>>

\* reworkWorkItem takes the item back.
Rework ==
    /\ item.state = "ChangesRequested"
    /\ item' = [item EXCEPT !.state = "Executing"]
    /\ UNCHANGED <<inbox, cursor, ingress, door, control, target, late, decisions, turn, work,
                   approval, told, unresolved, faults>>

\* A review by the dashboard, through the same gateway.
DashboardReviews ==
    /\ item.state = "ReadyForCeoReview"
    /\ \E d \in Decisions :
         /\ item' = [item EXCEPT !.state = Expected(d)]
         /\ decisions' = decisions \cup {[report |-> item.report, state |-> Expected(d), by |-> 0]}
    /\ UNCHANGED <<inbox, cursor, ingress, door, control, target, late, turn, work, approval,
                   told, unresolved, faults>>

\* issueTelegramReviewControls: a live set of the exact target is returned
\* again; otherwise a new set is issued.
IssueControls ==
    /\ item.state = "ReadyForCeoReview"
    /\ ~\E s \in ControlSet \ late :
          /\ target[s] = item.report
          /\ \E d \in Decisions : control[s][d].state \in {"issued", "awaiting-reason", "applying"}
    /\ \E s \in ControlSet :
         /\ target[s] = 0 /\ \A q \in 1 .. s - 1 : target[q] # 0
         /\ target' = [target EXCEPT ![s] = item.report]
         /\ control' = [control EXCEPT ![s] = [d \in Decisions |-> [state |-> "issued", by |-> 0]]]
    /\ UNCHANGED <<inbox, cursor, ingress, door, late, item, decisions, turn, work, approval,
                   told, unresolved, faults>>

\* The clock passes the expiry of a set.
ControlsExpire ==
    /\ \E s \in ControlSet \ late : target[s] # 0 /\ late' = late \cup {s}
    /\ UNCHANGED <<inbox, cursor, ingress, door, control, target, item, decisions, turn, work,
                   approval, told, unresolved, faults>>

--------------------------------------------------------------------------------
(* Polling *)

\* pollTelegram: the recovery of pending deliveries runs first and throws while
\* one is unresolved; then the updates behind the cursor are read.
Poll ==
    /\ door.pc = "idle" /\ ~unresolved /\ cursor < Len(inbox)
    /\ door' = [IdleDoor EXCEPT !.pc = "receiving", !.at = cursor + 1, !.last = Len(inbox)]
    /\ UNCHANGED <<inbox, cursor, ingress, reviewVars, turn, work, approval, told, unresolved, faults>>

\* The update is handled: the cursor moves behind it and the batch goes on.
Advance ==
    /\ door.pc = "finishing" /\ door.todo = <<>>
    /\ cursor' = IF door.at > cursor THEN door.at ELSE cursor
    /\ door' = IF door.at < door.last
                 THEN [IdleDoor EXCEPT !.pc = "receiving", !.at = door.at + 1, !.last = door.last]
                 ELSE IdleDoor
    /\ UNCHANGED <<inbox, ingress, reviewVars, turn, work, approval, told, unresolved, faults>>

--------------------------------------------------------------------------------
(* Receiving an update *)

\* A denied result is recorded and answered to nobody.
Silent == <<"record">>
\* What is refused or applied is told first and recorded after.
ToldFirst == <<"tell", "record">>
\* An answer is recorded first and told after.
RecordedFirst == <<"record", "tell">>

Finish(out, todo) ==
    door' = [door EXCEPT !.pc = "finishing", !.out = out, !.todo = todo]

Stage(pc) == door' = [door EXCEPT !.pc = pc]

\* receiveUpdate, before it knows the update: a sender who is not the CEO is
\* denied every time; a recorded result is told again.
ReceiveKnown ==
    /\ door.pc = "receiving"
    /\ \/ inbox[door.at].kind = "stranger" /\ Finish("denied", Silent)
       \/ /\ inbox[door.at].kind # "stranger" /\ ingress[door.at] # "none"
          /\ Finish(ingress[door.at], <<"tell">>)
    /\ UNCHANGED <<inbox, cursor, ingress, reviewVars, turn, work, approval, told, unresolved, faults>>

Fresh(kind) ==
    /\ door.pc = "receiving" /\ ingress[door.at] = "none"
    /\ inbox[door.at].kind = kind

\* rejectIngress: an unsupported update, or one that carries a secret.
ReceiveUnsupported ==
    /\ Fresh("unsupported")
    /\ Finish("rejected", ToldFirst)
    /\ UNCHANGED <<inbox, cursor, ingress, reviewVars, turn, work, approval, told, unresolved, faults>>

\* /approve-promotion: only a requested Approval is granted.
ReceiveApproval ==
    /\ Fresh("approval")
    /\ approval' = "granted"
    /\ Finish(IF approval = "requested" THEN "approved" ELSE "refused", ToldFirst)
    /\ UNCHANGED <<inbox, cursor, ingress, reviewVars, turn, work, told, unresolved, faults>>

\* submitCeoCommand with an expected effect: the Work Item of the update is
\* created once, and its projection is awaited.
ReceiveOrder ==
    /\ Fresh("order")
    /\ work' = work \cup {door.at}
    /\ Stage("publishing")
    /\ UNCHANGED <<inbox, cursor, ingress, reviewVars, turn, approval, told, unresolved, faults>>

\* handle of the turn coordinator: a recorded turn is answered from its record.
ReceiveTalk ==
    /\ Fresh("talk")
    /\ IF turn[door.at] # "none" THEN Finish("handled", RecordedFirst) ELSE Stage("turning")
    /\ UNCHANGED <<inbox, cursor, ingress, reviewVars, turn, work, approval, told, unresolved, faults>>

--------------------------------------------------------------------------------
(* Review controls *)

\* The control the update at the door answers.
Set == inbox[door.at].set
Decision == inbox[door.at].decision
Control == control[Set][Decision]

Mark(state) == control' = [control EXCEPT ![Set][Decision].state = state]
Refuse(state) == Mark(state) /\ Finish("refused", ToldFirst)
RefuseOnly == UNCHANGED control /\ Finish("refused", ToldFirst)

\* The report the set was issued for is still the one under review.
Current == item.state = "ReadyForCeoReview" /\ item.report = target[Set]

\* The update claimed the control in an attempt that did not finish.
Claimed == Control.state \in {"applying", "used"} /\ Control.by = door.at

\* claimTelegramReviewControl; no other callback runs between the checks and the
\* claim.  A control this update claimed before is not claimed again.
Claim ==
    /\ control' = IF Claimed THEN control
                  ELSE [control EXCEPT ![Set][Decision] = [state |-> "applying", by |-> door.at]]
    /\ Stage("reviewing")

\* Mutant: a claim an earlier attempt left behind is an error.
ReceivePressUnreplayed ==
    /\ Fresh("press")
    /\ IF Claimed THEN door' = IdleDoor /\ UNCHANGED control
       ELSE IF Control.state # "issued" THEN RefuseOnly
       ELSE Claim
    /\ UNCHANGED <<inbox, cursor, ingress, target, late, item, decisions, turn, work, approval,
                   told, unresolved, faults>>

\* Mutant: a control the update itself used is answered like any used one.
ReceivePressForgotten ==
    /\ Fresh("press")
    /\ IF Decision = "request-changes" \/ Control.state # "issued" THEN RefuseOnly
       ELSE Claim
    /\ UNCHANGED <<inbox, cursor, ingress, target, late, item, decisions, turn, work, approval,
                   told, unresolved, faults>>

\* A button is pressed.  Request Changes asks for a reason, once or again.
ReceivePress ==
    /\ Fresh("press")
    /\ LET asks == Decision = "request-changes"
           open == Control.state = "issued" \/ (asks /\ Control.state = "awaiting-reason")
       IN IF Claimed /\ ~asks THEN Claim
          ELSE IF ~open THEN RefuseOnly
          ELSE IF Set \in late THEN Refuse("expired")
          ELSE IF ~Current THEN Refuse("invalidated")
          ELSE IF asks THEN Mark("awaiting-reason") /\ Finish("asked", ToldFirst)
          ELSE Claim
    /\ UNCHANGED <<inbox, cursor, ingress, target, late, item, decisions, turn, work, approval,
                   told, unresolved, faults>>

\* /changes with a reason.
ReceiveReason ==
    /\ Fresh("reason")
    /\ IF Claimed THEN Claim
       ELSE IF Control.state # "awaiting-reason" THEN RefuseOnly
       ELSE IF Set \in late THEN Refuse("expired")
       ELSE IF ~Current THEN Refuse("invalidated")
       ELSE Claim
    /\ UNCHANGED <<inbox, cursor, ingress, target, late, item, decisions, turn, work, approval,
                   told, unresolved, faults>>

\* Mutant: the report of the item is not compared with the control's.
ReviewAnyReport ==
    /\ door.pc = "reviewing"
    /\ IF item.state # "ReadyForCeoReview" THEN RefuseOnly /\ UNCHANGED <<item, decisions>>
       ELSE /\ item' = [item EXCEPT !.state = Expected(Decision)]
            /\ decisions' = decisions \cup {[report |-> item.report,
                                             state |-> Expected(Decision), by |-> door.at]}
            /\ Stage("publishing") /\ UNCHANGED control
    /\ UNCHANGED <<inbox, cursor, ingress, target, late, turn, work, approval, told, unresolved, faults>>

\* Mutant: an item that left the review is taken as decided by the control.
ReviewReachesAny ==
    /\ door.pc = "reviewing"
    /\ IF item.report # target[Set]
         THEN RefuseOnly /\ UNCHANGED <<item, decisions>>
       ELSE IF item.state # "ReadyForCeoReview"
         THEN Mark("used") /\ Finish("applied", ToldFirst) /\ UNCHANGED <<item, decisions>>
       ELSE /\ item' = [item EXCEPT !.state = Expected(Decision)]
            /\ decisions' = decisions \cup {[report |-> item.report,
                                             state |-> Expected(Decision), by |-> door.at]}
            /\ Stage("publishing") /\ UNCHANGED control
    /\ UNCHANGED <<inbox, cursor, ingress, target, late, turn, work, approval, told, unresolved, faults>>

\* applyReviewControl behind the claim: the exact target is checked again, an
\* item that already is where the control leads is not reviewed twice.
Review ==
    LET applying == Control.state = "applying"
        reached == item.state = Expected(Decision)
        Rejected == IF applying THEN Refuse("invalidated") ELSE RefuseOnly
    IN /\ door.pc = "reviewing"
       /\ IF item.report # target[Set] THEN Rejected /\ UNCHANGED <<item, decisions>>
          ELSE IF applying /\ item.state = "ReadyForCeoReview" /\ Set \in late
            THEN Refuse("expired") /\ UNCHANGED <<item, decisions>>
          ELSE IF reached
            THEN Mark("used") /\ Finish("applied", ToldFirst) /\ UNCHANGED <<item, decisions>>
          ELSE IF item.state # "ReadyForCeoReview" \/ ~applying
            THEN Rejected /\ UNCHANGED <<item, decisions>>
          ELSE /\ item' = [item EXCEPT !.state = Expected(Decision)]
               /\ decisions' = decisions \cup {[report |-> item.report,
                                                state |-> Expected(Decision), by |-> door.at]}
               /\ Stage("publishing") /\ UNCHANGED control
       /\ UNCHANGED <<inbox, cursor, ingress, target, late, turn, work, approval, told,
                      unresolved, faults>>

\* The projection of the item is done: a control is used, an order is answered.
Published ==
    /\ door.pc = "publishing"
    /\ IF inbox[door.at].kind = "order"
         THEN Finish("handled", RecordedFirst) /\ UNCHANGED control
         ELSE Mark("used") /\ Finish("applied", ToldFirst)
    /\ UNCHANGED <<inbox, cursor, ingress, target, late, item, decisions, turn, work, approval,
                   told, unresolved, faults>>

\* The projection fails and the update is left for the next poll.
PublishFails ==
    /\ door.pc = "publishing" /\ faults < MaxFaults
    /\ faults' = faults + 1
    /\ door' = IdleDoor
    /\ UNCHANGED <<inbox, cursor, ingress, reviewVars, turn, work, approval, told, unresolved>>

--------------------------------------------------------------------------------
(* Hermes *)

\* createWorkItemIfNeeded: a plan that needs a Work Item creates it once.
TurnCreates ==
    /\ door.pc = "turning" /\ door.at \notin work
    /\ work' = work \cup {door.at}
    /\ UNCHANGED <<inbox, cursor, ingress, door, reviewVars, turn, approval, told, unresolved, faults>>

\* The rounds end with an answer.
TurnAnswers ==
    /\ door.pc = "turning"
    /\ turn' = [turn EXCEPT ![door.at] = "answered"]
    /\ Finish("handled", RecordedFirst)
    /\ UNCHANGED <<inbox, cursor, ingress, reviewVars, work, approval, told, unresolved, faults>>

\* The runtime, a projection or the check of the answer fails: the turn is
\* recorded with the answer that nothing was executed.
TurnFails ==
    /\ door.pc = "turning"
    /\ turn' = [turn EXCEPT ![door.at] = "not-executed"]
    /\ Finish("handled", RecordedFirst)
    /\ UNCHANGED <<inbox, cursor, ingress, reviewVars, work, approval, told, unresolved, faults>>

--------------------------------------------------------------------------------
(* Finishing an update *)

\* Mutant: an answer that is told is taken as recorded.
RecordUntold ==
    /\ door.pc = "finishing" /\ door.todo # <<>> /\ Head(door.todo) = "record"
    /\ ingress' = IF Len(door.todo) = 1 /\ door.out # "denied" THEN ingress
                  ELSE [ingress EXCEPT ![door.at] = door.out]
    /\ door' = [door EXCEPT !.todo = Tail(@)]
    /\ UNCHANGED <<inbox, cursor, reviewVars, turn, work, approval, told, unresolved, faults>>

\* recordTelegramIngressResult: the first result of an update stays.
Record ==
    /\ door.pc = "finishing" /\ door.todo # <<>> /\ Head(door.todo) = "record"
    /\ ingress' = [ingress EXCEPT ![door.at] = IF @ = "none" THEN door.out ELSE @]
    /\ door' = [door EXCEPT !.todo = Tail(@)]
    /\ UNCHANGED <<inbox, cursor, reviewVars, turn, work, approval, told, unresolved, faults>>

\* sendDurably under a key of the update: what it answers is not looked at.
Tell ==
    /\ door.pc = "finishing" /\ door.todo # <<>> /\ Head(door.todo) = "tell"
    /\ told' = [told EXCEPT ![door.at] = @ \cup {door.out}]
    /\ door' = [door EXCEPT !.todo = Tail(@)]
    /\ \/ UNCHANGED <<unresolved, faults>>
       \/ faults < MaxFaults /\ unresolved' = TRUE /\ faults' = faults + 1
    /\ UNCHANGED <<inbox, cursor, ingress, reviewVars, turn, work, approval>>

\* The process dies; a send in flight stays in flight.
Crash ==
    /\ door.pc # "idle" /\ faults < MaxFaults
    /\ faults' = faults + 1
    /\ door' = IdleDoor
    /\ \/ UNCHANGED <<told, unresolved>>
       \/ /\ door.todo # <<>> /\ Head(door.todo) = "tell"
          /\ told' = [told EXCEPT ![door.at] = @ \cup {door.out}]
          /\ unresolved' = TRUE
    /\ UNCHANGED <<inbox, cursor, ingress, reviewVars, turn, work, approval>>

--------------------------------------------------------------------------------
Handle ==
    \/ Poll \/ Advance \/ ReceiveKnown \/ ReceiveUnsupported \/ ReceiveApproval \/ ReceiveOrder
    \/ ReceiveTalk \/ ReceivePress \/ ReceiveReason \/ Review \/ Published \/ PublishFails
    \/ TurnCreates \/ TurnAnswers \/ TurnFails \/ Record \/ Tell

Next ==
    \/ CeoSends \/ ReportReady \/ Rework \/ DashboardReviews \/ IssueControls \/ ControlsExpire
    \/ Handle
    \/ Crash

\* The supervisor runs the loop for ever, and every call in it has a deadline.
Spec == Init /\ [][Next]_vars /\ WF_vars(Handle)

--------------------------------------------------------------------------------
\* telegram-ingress.ts: the cursor passes an update only behind work that
\* finished, so every update behind it has its recorded result, and a Work Item
\* that an update created has an answer.
PassedIsRecorded ==
    \A u \in 1 .. cursor :
        /\ ingress[u] # "none"
        /\ ingress[u] = "handled" /\ inbox[u].kind = "talk" => turn[u] # "none"

\* applyReviewControl: a press decides the report its control was issued for and
\* no other, and a report is decided once, whatever the dashboard, a rework, a
\* crash and a redelivery do in between.
PressDecidesItsReport ==
    \A d \in decisions :
        /\ d.by # 0 => d.report = target[inbox[d.by].set]
        /\ \A e \in decisions : e.report = d.report => e = d

\* What an update is recorded to have applied did happen to the report its
\* control was issued for.
AppliedIsTrue ==
    \A u \in Update : ingress[u] = "applied" =>
        \E d \in decisions :
            d.report = target[inbox[u].set] /\ d.state = Expected(inbox[u].decision)

\* The CEO is not told of one press that it was applied and that it was refused,
\* as long as the item is where the press led and its report the same.
ToldIsConsistent ==
    \A u \in 1 .. Len(inbox) :
        inbox[u].set # 0 /\ {"applied", "refused"} \subseteq told[u] =>
            \/ item.state # Expected(inbox[u].decision)
            \/ item.report # target[inbox[u].set]

\* The refinement mapping: what the CEO sees of the review.
IsAnswer(u) == u <= Len(inbox) /\ inbox[u].set # 0
stageBar ==
    CASE item.state = "Executing" -> "work"
      [] item.state = "ReadyForCeoReview" -> "review"
      [] OTHER -> "decided"
asksBar ==
    [u \in Update |->
        IF IsAnswer(u)
        THEN [report |-> target[inbox[u].set], state |-> Expected(inbox[u].decision)]
        ELSE [report |-> 0, state |-> "none"]]
answersBar ==
    [u \in Update |->
        IF IsAnswer(u) THEN (told[u] \cup {ingress[u]}) \cap {"applied", "refused"} ELSE {}]

Dialogue == INSTANCE ReviewDialogue
                WITH Press <- Update, report <- item.report, stage <- stageBar,
                     verdicts <- decisions, asks <- asksBar, answers <- answersBar

\* applyReviewControl and what surrounds it keep what the buttons promise, through
\* redeliveries, expiry, replaced reports, the dashboard and crashes: a report is
\* decided once and as the press asked, a refused press decides nothing, what is
\* answered to be applied was decided.
ImplementsReviewDialogue == Dialogue!Spec

\* telegram-ingress.ts: a failure leaves the cursor behind the failed update, so
\* an update is handled late and never dropped, unless a delivery is unresolved.
UpdatesAreHandled ==
    \A u \in Update : (u <= Len(inbox)) ~> (cursor >= u \/ unresolved)

\* hermes-turn-coordinator.ts:335 answers "The request was not executed": then
\* no Work Item of the turn exists.
DenialIsTrue ==
    \A u \in Update : turn[u] = "not-executed" => u \notin work
================================================================================
