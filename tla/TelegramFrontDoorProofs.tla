------------------------- MODULE TelegramFrontDoorProofs -------------------------
(***************************************************************************)
(* Theorems about TelegramFrontDoor, for every set of kinds and decisions    *)
(* and every value of the bounds: updates passed by the cursor are recorded, *)
(* a press decides the report its control was issued for, what is recorded   *)
(* as applied happened, and the CEO is not told both that a press was        *)
(* applied and that it was refused.                                          *)
(***************************************************************************)
EXTENDS TelegramFrontDoor, TLAPS

Result == {"none", "denied", "rejected", "approved", "refused", "handled", "asked", "applied"}
Todo == {<<>>, <<"tell">>, Silent, ToldFirst, RecordedFirst}
DoorState ==
    [pc : {"idle", "receiving", "publishing", "turning", "reviewing", "finishing"},
     at : 0 .. MaxUpdates, last : 0 .. MaxUpdates, out : Result, todo : Todo]
Message ==
    [kind : Kinds \cup {"press", "reason"}, set : 0 .. MaxSets, decision : Decisions \cup {"none"}]
ControlState ==
    [state : {"none", "issued", "awaiting-reason", "applying", "used", "expired", "invalidated"},
     by : 0 .. MaxUpdates]
Left == {"Completed", "ChangesRequested", "Cancelled"}
ItemState == [state : Left \cup {"Executing", "ReadyForCeoReview"}, report : 0 .. MaxReports]

\* Types of the tables and of what the door holds.
TypeOK ==
    /\ inbox \in Seq(Message) /\ Len(inbox) \in 0 .. MaxUpdates
    /\ cursor \in 0 .. MaxUpdates
    /\ ingress \in [Update -> Result]
    /\ door \in DoorState
    /\ control \in [ControlSet -> [Decisions -> ControlState]]
    /\ target \in [ControlSet -> 0 .. MaxReports]
    /\ late \in SUBSET ControlSet
    /\ item \in ItemState
    /\ decisions \in SUBSET [report : 0 .. MaxReports, state : Left, by : 0 .. MaxUpdates]
    /\ turn \in [Update -> {"none", "answered", "not-executed"}]
    /\ work \in SUBSET Update
    /\ approval \in {"requested", "granted"}
    /\ told \in [Update -> SUBSET Result]
    /\ unresolved \in BOOLEAN
    /\ faults \in Nat

\* An update is an answer to a control that was issued, or it is none.
InboxOK ==
    \A u \in 1 .. Len(inbox) :
        /\ inbox[u].set # 0 <=> inbox[u].kind \in {"press", "reason"}
        /\ inbox[u].set # 0 => /\ inbox[u].set \in ControlSet /\ inbox[u].decision \in Decisions
                               /\ target[inbox[u].set] # 0

\* The door handles the update right behind the cursor, at a stage its kind
\* can reach, and finishes it behind its record.
DoorOK ==
    /\ cursor <= Len(inbox)
    /\ door.pc # "idle" =>
         door.at = cursor + 1 /\ door.at <= door.last /\ door.last <= Len(inbox)
    /\ door.pc = "turning" => inbox[door.at].kind = "talk"
    /\ door.pc = "reviewing" => inbox[door.at].kind \in {"press", "reason"}
    /\ door.pc = "publishing" => inbox[door.at].kind \in {"order", "press", "reason"}
    /\ door.pc # "finishing" => door.out = "none" /\ door.todo = <<>>
    /\ door.pc = "finishing" =>
         /\ door.out # "none"
         /\ door.todo \in {<<>>, <<"tell">>} => ingress[door.at] # "none"

\* What is recorded and told, in front of the cursor and behind it.
RecordsOK ==
    /\ \A u \in Update : u > cursor + 1 \/ u > Len(inbox) => ingress[u] = "none" /\ told[u] = {}
    /\ \A u \in 1 .. cursor : ingress[u] # "none"
    /\ \A u \in 1 .. Len(inbox) :
         inbox[u].kind = "talk" /\ ingress[u] = "handled" => turn[u] # "none"
    /\ door.pc = "finishing" /\ inbox[door.at].kind = "talk" /\ door.out = "handled" =>
         turn[door.at] # "none"

\* The item under review and the history of its decisions.
ItemOK ==
    /\ \A s \in ControlSet : target[s] <= item.report
    /\ \A d \in decisions :
         /\ d.report <= item.report
         /\ item.state = "ReadyForCeoReview" => d.report # item.report
    /\ item.state \in Left =>
         \E d \in decisions : d.report = item.report /\ d.state = item.state
    /\ \A d \in decisions :
         d.by # 0 => /\ d.by <= Len(inbox) /\ inbox[d.by].set # 0
                     /\ d.report = target[inbox[d.by].set]
    /\ \A d, e \in decisions : d.report = e.report => d = e

\* What the answer u to a control asks for was decided.
Done(u) ==
    \E d \in decisions :
        d.report = target[inbox[u].set] /\ d.state = Expected(inbox[u].decision)

ControlOf(u) == control[inbox[u].set][inbox[u].decision]
ClaimedBy(u) == ControlOf(u).state \in {"applying", "used"} /\ ControlOf(u).by = u
UsedBy(u) == ControlOf(u).state = "used" /\ ControlOf(u).by = u

\* The update is recorded with this answer, told it, or about to be.
Answered(u, out) ==
    \/ out \in told[u]
    \/ ingress[u] = out
    \/ door.pc = "finishing" /\ door.at = u /\ door.out = out

\* The item left the review the update answers, for something else.
Gone(u) ==
    \/ item.report # target[inbox[u].set]
    \/ item.state \notin {"ReadyForCeoReview", Expected(inbox[u].decision)}

\* A press that only asks for a reason.
Asks(u) == inbox[u].kind = "press" /\ inbox[u].decision = "request-changes"

\* The control of the update is closed to it, however often it is delivered.
Barred(u) ==
    \/ Asks(u)
    \/ /\ ~ClaimedBy(u)
       /\ ControlOf(u).state # IF inbox[u].kind = "press" THEN "issued" ELSE "awaiting-reason"

\* Claims are made by updates that were sent; the claim of the one at the door.
ClaimOK ==
    /\ \A s \in ControlSet, d \in Decisions : control[s][d].by <= Len(inbox)
    /\ door.pc \in {"reviewing", "publishing"} /\ inbox[door.at].set # 0 =>
         /\ ClaimedBy(door.at) /\ ~Asks(door.at)
         /\ door.pc = "publishing" => Done(door.at) /\ ~Answered(door.at, "refused")

\* What the update u, if it answers a control, is answered itself.
AnswerOK(u) ==
    /\ Answered(u, "applied") => inbox[u].set # 0 /\ Done(u) /\ (u > cursor => UsedBy(u))
    /\ inbox[u].set # 0 /\ UsedBy(u) => Done(u) /\ ~Asks(u)
    /\ inbox[u].set # 0 /\ Answered(u, "refused") =>
         Gone(u) \/ (~Answered(u, "applied") /\ (u <= cursor \/ Barred(u)))

AnswersOK == \A u \in 1 .. Len(inbox) : AnswerOK(u)

ReviewInv == TypeOK /\ InboxOK /\ DoorOK /\ RecordsOK /\ ItemOK /\ ClaimOK /\ AnswersOK

-----------------------------------------------------------------------------
(* Types *)

LEMMA IdleDoorType == IdleDoor \in DoorState
  BY FrontDoorAssumption DEF IdleDoor, DoorState, Result, Todo

LEMMA InitTypes == Init => TypeOK
<1> SUFFICES ASSUME Init PROVE TypeOK
  OBVIOUS
<1> USE FrontDoorAssumption DEF Init, Update, ControlSet
<1>1. inbox \in Seq(Message) /\ Len(inbox) \in 0 .. MaxUpdates
  OBVIOUS
<1>2. control \in [ControlSet -> [Decisions -> ControlState]]
  BY DEF ControlState
<1>3. item \in ItemState
  BY DEF ItemState
<1>4. told \in [Update -> SUBSET Result] /\ ingress \in [Update -> Result]
  BY DEF Result
<1>5. target \in [ControlSet -> 0 .. MaxReports] /\ cursor \in 0 .. MaxUpdates
  OBVIOUS
<1> QED
  BY <1>1, <1>2, <1>3, <1>4, <1>5, IdleDoorType DEF TypeOK

\* The door at an update of a batch.
LEMMA ReceivingDoorType ==
    ASSUME NEW at \in 0 .. MaxUpdates, NEW last \in 0 .. MaxUpdates,
           door' = [IdleDoor EXCEPT !.pc = "receiving", !.at = at, !.last = last]
    PROVE  /\ door' \in DoorState
           /\ door'.pc = "receiving" /\ door'.at = at /\ door'.last = last
           /\ door'.out = "none" /\ door'.todo = <<>>
<1>1. IdleDoor \in DoorState
  BY IdleDoorType
<1>2. IdleDoor.out = "none" /\ IdleDoor.todo = <<>>
  BY DEF IdleDoor
<1> QED
  BY <1>1, <1>2 DEF DoorState

\* What is left of a list of things to do is one as well.
LEMMA TodoTails ==
    ASSUME NEW todo \in Todo, todo # <<>>
    PROVE  /\ Tail(todo) \in Todo
           /\ Head(todo) = "record" => Tail(todo) \in {<<>>, <<"tell">>}
           /\ Head(todo) = "tell" => /\ todo \in {<<"tell">>, ToldFirst}
                                     /\ Tail(todo) \in {<<>>, <<"tell">>} => todo = <<"tell">>
<1>1. CASE todo = <<"tell">>
  BY <1>1 DEF Todo
<1>2. CASE todo = Silent
  BY <1>2 DEF Todo, Silent
<1>3. CASE todo = ToldFirst
  BY <1>3 DEF Todo, ToldFirst, Silent
<1>4. CASE todo = RecordedFirst
  BY <1>4 DEF Todo, RecordedFirst
<1> QED
  BY <1>1, <1>2, <1>3, <1>4 DEF Todo

\* Finishing an update, and moving it to another stage.
LEMMA FinishType ==
    ASSUME TypeOK, NEW out \in Result, NEW todo \in Todo, Finish(out, todo)
    PROVE  /\ door' \in DoorState
           /\ door'.pc = "finishing" /\ door'.at = door.at /\ door'.last = door.last
           /\ door'.out = out /\ door'.todo = todo
<1>1. door \in DoorState
  BY DEF TypeOK
<1> QED
  BY <1>1 DEF Finish, DoorState

LEMMA StageType ==
    ASSUME TypeOK, NEW pc \in {"publishing", "turning", "reviewing"}, Stage(pc)
    PROVE  /\ door' \in DoorState
           /\ door'.pc = pc /\ door'.at = door.at /\ door'.last = door.last
           /\ door'.out = door.out /\ door'.todo = door.todo
<1>1. door \in DoorState
  BY DEF TypeOK
<1> QED
  BY <1>1 DEF Stage, DoorState

\* What the door has in hand is told to the CEO.
LEMMA ToldMore ==
    ASSUME TypeOK, told' = [told EXCEPT ![door.at] = @ \cup {door.out}]
    PROVE  told' \in [Update -> SUBSET Result]
<1>1. told \in [Update -> SUBSET Result] /\ door.out \in Result
  BY DEF TypeOK, DoorState
<1> QED
  BY <1>1

\* The message at the door.
LEMMA AtTheDoor ==
    ASSUME TypeOK, DoorOK, door.pc # "idle"
    PROVE  /\ door.at \in 1 .. Len(inbox) /\ door.at \in Update
           /\ inbox[door.at] \in Message
           /\ door.at = cursor + 1
  BY DEF TypeOK, DoorOK, DoorState, Update

\* The control of an answer to one.
LEMMA ControlAtTheDoor ==
    ASSUME TypeOK, InboxOK, DoorOK, door.pc # "idle", inbox[door.at].kind \in {"press", "reason"}
    PROVE  /\ Set \in ControlSet /\ Decision \in Decisions /\ Control \in ControlState
           /\ inbox[door.at].set # 0 /\ target[Set] # 0
  BY AtTheDoor DEF InboxOK, TypeOK, Set, Decision, Control

\* A control that is marked keeps its claim; the others keep everything.
LEMMA MarkEffect ==
    ASSUME TypeOK, Set \in ControlSet, Decision \in Decisions,
           NEW state \in {"awaiting-reason", "used", "expired", "invalidated"}, Mark(state)
    PROVE  /\ control' \in [ControlSet -> [Decisions -> ControlState]]
           /\ \A s \in ControlSet, d \in Decisions :
                control'[s][d] = IF s = Set /\ d = Decision
                                   THEN [state |-> state, by |-> Control.by] ELSE control[s][d]
<1> DEFINE marked == [Control EXCEPT !.state = state]
<1>1. control \in [ControlSet -> [Decisions -> ControlState]] /\ Control \in ControlState
  BY DEF TypeOK, Control
<1>2. marked = [state |-> state, by |-> Control.by] /\ marked \in ControlState
  BY <1>1 DEF ControlState
<1>3. control' = [control EXCEPT ![Set] = [control[Set] EXCEPT ![Decision] = marked]]
  BY DEF Mark, Control
<1> HIDE DEF marked
<1> QED
  BY <1>1, <1>2, <1>3

LEMMA ClaimEffect ==
    ASSUME TypeOK, Set \in ControlSet, Decision \in Decisions, door.at \in Update, Claim
    PROVE  /\ control' \in [ControlSet -> [Decisions -> ControlState]]
           /\ control'[Set][Decision].state \in {"applying", "used"}
           /\ control'[Set][Decision].by = door.at
           /\ Claimed => control' = control
           /\ ~Claimed => control'[Set][Decision].state = "applying"
           /\ \A s \in ControlSet, d \in Decisions :
                ~(s = Set /\ d = Decision) => control'[s][d] = control[s][d]
<1> DEFINE claimed == [state |-> "applying", by |-> door.at]
<1>1. control \in [ControlSet -> [Decisions -> ControlState]]
  BY DEF TypeOK
<1>2. claimed \in ControlState
  BY DEF ControlState, Update
<1>3. CASE Claimed
  BY <1>1, <1>3 DEF Claim, Claimed, Control
<1>4. CASE ~Claimed
  <2>1. control' = [control EXCEPT ![Set] = [control[Set] EXCEPT ![Decision] = claimed]]
    BY <1>4 DEF Claim
  <2>2. claimed.state = "applying" /\ claimed.by = door.at
    OBVIOUS
  <2> HIDE DEF claimed
  <2> QED
    BY <1>1, <1>2, <1>4, <2>1, <2>2
<1> QED
  BY <1>3, <1>4

-----------------------------------------------------------------------------
(* What the steps of the door do to the controls and the item *)

\* The answers to a review control, by their outcome: refused with the control
\* left alone, refused and closed, asked for a reason, or claimed.
LEMMA AnswerCases ==
    ASSUME TypeOK, InboxOK, DoorOK, ReceivePress \/ ReceiveReason
    PROVE  /\ door.pc = "receiving" /\ inbox[door.at].kind \in {"press", "reason"}
           /\ ingress[door.at] = "none"
           /\ UNCHANGED <<inbox, cursor, ingress, target, late, item, decisions, turn, work,
                          approval, told, unresolved, faults>>
           /\ \/ RefuseOnly /\ Barred(door.at)
              \/ \E state \in {"expired", "invalidated"} : Refuse(state) /\ ~Claimed
              \/ /\ Asks(door.at) /\ ~Claimed
                 /\ Mark("awaiting-reason") /\ Finish("asked", ToldFirst)
              \/ ~Barred(door.at) /\ Claim
<1> USE DEF Claimed, ClaimedBy, Barred, Asks, ControlOf, Control, Set, Decision
<1>1. CASE ReceivePress
  BY <1>1 DEF ReceivePress, Fresh
<1>2. CASE ReceiveReason
  BY <1>2 DEF ReceiveReason, Fresh
<1> QED
  BY <1>1, <1>2

\* The ends of a review: the item left for something else, an item that is
\* where the control leads, or the decision.
LEMMA ReviewCases ==
    ASSUME TypeOK, InboxOK, DoorOK, ClaimOK, Review
    PROVE  /\ door.pc = "reviewing" /\ inbox[door.at].kind \in {"press", "reason"}
           /\ UNCHANGED <<inbox, cursor, ingress, target, late, turn, work,
                          approval, told, unresolved, faults>>
           /\ \/ /\ Refuse("expired") \/ Refuse("invalidated")
                 /\ Control.state = "applying" /\ UNCHANGED <<item, decisions>>
              \/ /\ RefuseOnly /\ Control.state = "used" /\ UNCHANGED <<item, decisions>>
                 /\ \/ item.report # target[Set]
                    \/ item.state # Expected(Decision)
              \/ /\ Mark("used") /\ Finish("applied", ToldFirst)
                 /\ item.report = target[Set] /\ item.state = Expected(Decision)
                 /\ UNCHANGED <<item, decisions>>
              \/ /\ item.report = target[Set] /\ item.state = "ReadyForCeoReview"
                 /\ Control.state = "applying"
                 /\ item' = [item EXCEPT !.state = Expected(Decision)]
                 /\ decisions' = decisions \cup {[report |-> item.report,
                                                  state |-> Expected(Decision), by |-> door.at]}
                 /\ Stage("publishing") /\ UNCHANGED control
<1>1. door.pc = "reviewing" /\ inbox[door.at].kind \in {"press", "reason"}
  BY DEF Review, DoorOK
<1>2. inbox[door.at].set # 0
  BY <1>1, ControlAtTheDoor
<1>3. Control.state \in {"applying", "used"}
  BY <1>1, <1>2 DEF ClaimOK, ClaimedBy, ControlOf, Control, Set, Decision
<1> QED
  BY <1>1, <1>3 DEF Review

\* The states a decision leads to.
LEMMA ExpectedIsLeft == \A d \in Decisions : Expected(d) \in Left
  BY DEF Expected, Left

-----------------------------------------------------------------------------
(* Every step keeps the types *)

LEMMA WorldTypes ==
    ASSUME TypeOK,
           CeoSends \/ ReportReady \/ Rework \/ DashboardReviews \/ IssueControls \/ ControlsExpire
    PROVE  TypeOK'
<1> USE FrontDoorAssumption
<1>1. CASE CeoSends
  <2>1. PICK u \in Message : inbox' = Append(inbox, u)
    BY <1>1 DEF CeoSends, Message, Plain, ControlSet
  <2>2. inbox' \in Seq(Message) /\ Len(inbox') \in 0 .. MaxUpdates
    BY <1>1, <2>1 DEF CeoSends, TypeOK
  <2> QED
    BY <1>1, <2>2 DEF CeoSends, TypeOK, reviewVars
<1>2. CASE ReportReady
  <2>1. item' \in ItemState
    BY <1>2 DEF ReportReady, TypeOK, ItemState
  <2> QED
    BY <1>2, <2>1 DEF ReportReady, TypeOK
<1>3. CASE Rework
  <2>1. item' \in ItemState
    BY <1>3 DEF Rework, TypeOK, ItemState
  <2> QED
    BY <1>3, <2>1 DEF Rework, TypeOK
<1>4. CASE DashboardReviews
  <2>1. PICK d \in Decisions :
          /\ item' = [item EXCEPT !.state = Expected(d)]
          /\ decisions' = decisions \cup
               {[report |-> item.report, state |-> Expected(d), by |-> 0]}
    BY <1>4 DEF DashboardReviews
  <2>2. Expected(d) \in Left
    BY ExpectedIsLeft
  <2>3. item' \in ItemState /\ item.report \in 0 .. MaxReports
    BY <2>1, <2>2 DEF TypeOK, ItemState
  <2>4. [report |-> item.report, state |-> Expected(d), by |-> 0]
          \in [report : 0 .. MaxReports, state : Left, by : 0 .. MaxUpdates]
    BY <2>2, <2>3
  <2> QED
    BY <1>4, <2>1, <2>3, <2>4 DEF DashboardReviews, TypeOK
<1>5. CASE IssueControls
  <2> DEFINE issued == [state |-> "issued", by |-> 0]
  <2>1. issued \in ControlState
    BY DEF ControlState
  <2>2. PICK s \in ControlSet :
          /\ target' = [target EXCEPT ![s] = item.report]
          /\ control' = [control EXCEPT ![s] = [d \in Decisions |-> issued]]
    BY <1>5 DEF IssueControls
  <2> HIDE DEF issued
  <2>3. control' \in [ControlSet -> [Decisions -> ControlState]]
    BY <2>1, <2>2 DEF TypeOK
  <2>4. target' \in [ControlSet -> 0 .. MaxReports]
    BY <2>2 DEF TypeOK, ItemState
  <2> QED
    BY <1>5, <2>3, <2>4 DEF IssueControls, TypeOK
<1>6. CASE ControlsExpire
  BY <1>6 DEF ControlsExpire, TypeOK
<1> QED
  BY <1>1, <1>2, <1>3, <1>4, <1>5, <1>6

\* An answer to a control, its review, and the end of its projection.
LEMMA ReviewTypes ==
    ASSUME TypeOK, InboxOK, DoorOK, ClaimOK, ReceivePress \/ ReceiveReason \/ Review \/ Published
    PROVE  TypeOK'
<1> USE FrontDoorAssumption
<1>1. ToldFirst \in Todo /\ RecordedFirst \in Todo
  BY DEF Todo
<1>2. {"refused", "asked", "applied", "handled"} \subseteq Result
  BY DEF Result
<1>3. CASE ReceivePress \/ ReceiveReason
  <2>1. door.at \in Update /\ Set \in ControlSet /\ Decision \in Decisions
    BY <1>3, AnswerCases, AtTheDoor, ControlAtTheDoor
  <2>2. door' \in DoorState /\ control' \in [ControlSet -> [Decisions -> ControlState]]
    <3>1. CASE RefuseOnly
      BY <1>1, <1>2, <3>1, FinishType DEF RefuseOnly, TypeOK
    <3>2. CASE \E state \in {"expired", "invalidated"} : Refuse(state)
      BY <1>1, <1>2, <2>1, <3>2, FinishType, MarkEffect DEF Refuse
    <3>3. CASE Mark("awaiting-reason") /\ Finish("asked", ToldFirst)
      BY <1>1, <1>2, <2>1, <3>3, FinishType, MarkEffect
    <3>4. CASE Claim
      <4>1. control' \in [ControlSet -> [Decisions -> ControlState]]
        BY <2>1, <3>4, ClaimEffect
      <4>2. Stage("reviewing")
        BY <3>4 DEF Claim
      <4> QED
        BY <4>1, <4>2, StageType
    <3> QED
      BY <1>3, <3>1, <3>2, <3>3, <3>4, AnswerCases
  <2> QED
    BY <1>3, <2>2, AnswerCases DEF TypeOK
<1>4. CASE Review
  <2>1. door.at \in Update /\ Set \in ControlSet /\ Decision \in Decisions
    BY <1>4, ReviewCases, AtTheDoor, ControlAtTheDoor
  <2>2. /\ door' \in DoorState /\ control' \in [ControlSet -> [Decisions -> ControlState]]
        /\ item' \in ItemState
        /\ decisions' \in SUBSET [report : 0 .. MaxReports, state : Left, by : 0 .. MaxUpdates]
    <3>1. CASE /\ Refuse("expired") \/ Refuse("invalidated")
               /\ UNCHANGED <<item, decisions>>
      <4>1. PICK state \in {"expired", "invalidated"} : Refuse(state)
        BY <3>1
      <4> QED
        BY <1>1, <1>2, <2>1, <3>1, <4>1, FinishType, MarkEffect DEF Refuse, TypeOK
    <3>2. CASE RefuseOnly /\ UNCHANGED <<item, decisions>>
      BY <1>1, <1>2, <3>2, FinishType DEF RefuseOnly, TypeOK
    <3>3. CASE Mark("used") /\ Finish("applied", ToldFirst) /\ UNCHANGED <<item, decisions>>
      BY <1>1, <1>2, <2>1, <3>3, FinishType, MarkEffect DEF TypeOK
    <3>4. CASE /\ item' = [item EXCEPT !.state = Expected(Decision)]
               /\ decisions' = decisions \cup {[report |-> item.report,
                                                state |-> Expected(Decision), by |-> door.at]}
               /\ Stage("publishing") /\ UNCHANGED control
      <4>1. Expected(Decision) \in Left
        BY <2>1, ExpectedIsLeft
      <4>2. item' \in ItemState /\ item.report \in 0 .. MaxReports
        BY <3>4, <4>1 DEF TypeOK, ItemState
      <4>3. [report |-> item.report, state |-> Expected(Decision), by |-> door.at]
              \in [report : 0 .. MaxReports, state : Left, by : 0 .. MaxUpdates]
        BY <2>1, <4>1, <4>2 DEF Update
      <4> QED
        BY <3>4, <4>2, <4>3, StageType DEF TypeOK
    <3> QED
      BY <1>4, <3>1, <3>2, <3>3, <3>4, ReviewCases
  <2> QED
    BY <1>4, <2>2, ReviewCases DEF TypeOK
<1>5. CASE Published
  <2>1. CASE inbox[door.at].kind = "order"
    BY <1>1, <1>2, <1>5, <2>1, FinishType DEF Published, TypeOK
  <2>2. CASE inbox[door.at].kind # "order"
    <3>1. Set \in ControlSet /\ Decision \in Decisions
      BY <1>5, <2>2, ControlAtTheDoor DEF Published, DoorOK
    <3> QED
      BY <1>1, <1>2, <1>5, <2>2, <3>1, FinishType, MarkEffect DEF Published, TypeOK
  <2> QED
    BY <2>1, <2>2
<1> QED
  BY <1>3, <1>4, <1>5

\* The rest of the door.
LEMMA DoorTypes ==
    ASSUME TypeOK, InboxOK, DoorOK,
           \/ Poll \/ Advance \/ ReceiveKnown \/ ReceiveUnsupported \/ ReceiveApproval
           \/ ReceiveOrder \/ ReceiveTalk \/ PublishFails \/ TurnCreates \/ TurnAnswers
           \/ TurnFails \/ Record \/ Tell \/ Crash
    PROVE  TypeOK'
<1> USE FrontDoorAssumption, AtTheDoor DEF reviewVars
<1>1. /\ Silent \in Todo /\ ToldFirst \in Todo /\ RecordedFirst \in Todo
      /\ <<"tell">> \in Todo /\ <<>> \in Todo
  BY DEF Todo
<1>2. {"denied", "rejected", "approved", "refused", "handled", "none"} \subseteq Result
  BY DEF Result
<1>3. door \in DoorState /\ cursor \in 0 .. MaxUpdates /\ Len(inbox) \in 0 .. MaxUpdates
  BY DEF TypeOK
<1>4. door.todo \in Todo /\ door.out \in Result
  BY <1>3 DEF DoorState
<1>5. CASE Poll
  <2>1. cursor + 1 \in 0 .. MaxUpdates
    BY <1>3, <1>5 DEF Poll
  <2>2. door' \in DoorState
    BY <1>3, <1>5, <2>1, ReceivingDoorType DEF Poll
  <2> QED
    BY <1>5, <2>2 DEF Poll, TypeOK
<1>6. CASE Advance
  <2>1. door.at \in 1 .. Len(inbox) /\ door.last <= Len(inbox) /\ door.last \in Nat
    BY <1>3, <1>6 DEF Advance, DoorOK, DoorState
  <2>2. cursor' \in 0 .. MaxUpdates
    BY <1>3, <1>6, <2>1 DEF Advance
  <2>3. door' \in DoorState
    <3>1. CASE door.at < door.last
      <4>1. door.at + 1 \in 0 .. MaxUpdates /\ door.last \in 0 .. MaxUpdates
        BY <1>3, <2>1, <3>1
      <4> QED
        BY <1>6, <3>1, <4>1, ReceivingDoorType DEF Advance
    <3>2. CASE ~(door.at < door.last)
      BY <1>6, <3>2, IdleDoorType DEF Advance
    <3> QED
      BY <3>1, <3>2
  <2> QED
    BY <1>6, <2>2, <2>3 DEF Advance, TypeOK
<1>7. CASE ReceiveKnown
  <2>1. ingress[door.at] \in Result
    BY <1>7 DEF ReceiveKnown, TypeOK
  <2>2. door' \in DoorState
    BY <1>1, <1>2, <1>7, <2>1, FinishType DEF ReceiveKnown
  <2> QED
    BY <1>7, <2>2 DEF ReceiveKnown, TypeOK
<1>8. CASE ReceiveUnsupported
  <2>1. door' \in DoorState
    BY <1>1, <1>2, <1>8, FinishType DEF ReceiveUnsupported
  <2> QED
    BY <1>8, <2>1 DEF ReceiveUnsupported, TypeOK
<1>9. CASE ReceiveApproval
  <2>1. door' \in DoorState
    BY <1>1, <1>2, <1>9, FinishType DEF ReceiveApproval
  <2> QED
    BY <1>9, <2>1 DEF ReceiveApproval, TypeOK
<1>10. CASE ReceiveOrder
  <2>1. door' \in DoorState /\ door.at \in Update
    BY <1>10, StageType DEF ReceiveOrder, Fresh
  <2> QED
    BY <1>10, <2>1 DEF ReceiveOrder, TypeOK
<1>11. CASE ReceiveTalk
  <2>1. door' \in DoorState
    BY <1>1, <1>2, <1>11, FinishType, StageType DEF ReceiveTalk
  <2> QED
    BY <1>11, <2>1 DEF ReceiveTalk, TypeOK
<1>12. CASE PublishFails
  BY <1>12, IdleDoorType DEF PublishFails, TypeOK
<1>13. CASE TurnCreates
  BY <1>13 DEF TurnCreates, TypeOK
<1>14. CASE TurnAnswers \/ TurnFails
  <2>1. door' \in DoorState
    BY <1>1, <1>2, <1>14, FinishType DEF TurnAnswers, TurnFails
  <2> QED
    BY <1>14, <2>1 DEF TurnAnswers, TurnFails, TypeOK
<1>15. CASE Record \/ Tell
  <2>1. door' \in DoorState
    BY <1>3, <1>4, <1>15, TodoTails DEF Record, Tell, DoorState
  <2>2. CASE Record
    BY <1>4, <2>1, <2>2 DEF Record, TypeOK
  <2>3. CASE Tell
    <3>1. told' = [told EXCEPT ![door.at] = @ \cup {door.out}]
      BY <2>3 DEF Tell
    <3>2. told' \in [Update -> SUBSET Result]
      BY <3>1, ToldMore
    <3>3. /\ UNCHANGED <<inbox, cursor, ingress, reviewVars, turn, work, approval>>
          /\ \/ UNCHANGED <<unresolved, faults>>
             \/ unresolved' = TRUE /\ faults' = faults + 1
      BY <2>3 DEF Tell
    <3>4. unresolved \in BOOLEAN /\ faults \in Nat
      BY DEF TypeOK
    <3>5. unresolved' \in BOOLEAN
      BY <3>3, <3>4, Zenon
    <3>6. faults' \in Nat
      BY <3>3, <3>4
    <3> QED
      BY <2>1, <3>2, <3>3, <3>5, <3>6 DEF TypeOK
  <2> QED
    BY <1>15, <2>2, <2>3
<1>16. CASE Crash
  <2>1. told \in [Update -> SUBSET Result] /\ unresolved \in BOOLEAN
    BY DEF TypeOK
  <2>2. \/ UNCHANGED <<told, unresolved>>
        \/ told' = [told EXCEPT ![door.at] = @ \cup {door.out}] /\ unresolved' = TRUE
    BY <1>16 DEF Crash
  <2>3. told' \in [Update -> SUBSET Result] /\ unresolved' \in BOOLEAN
    BY <2>1, <2>2, ToldMore
  <2> QED
    BY <1>16, <2>3, IdleDoorType DEF Crash, TypeOK
<1> QED
  BY <1>5, <1>6, <1>7, <1>8, <1>9, <1>10, <1>11, <1>12, <1>13, <1>14, <1>15, <1>16

LEMMA StepTypes ==
    ASSUME TypeOK, InboxOK, DoorOK, ClaimOK, [Next]_vars
    PROVE  TypeOK'
<1>1. CASE Next
  BY <1>1, WorldTypes, ReviewTypes, DoorTypes DEF Next, Handle
<1>2. CASE UNCHANGED vars
  BY <1>2 DEF vars, reviewVars, TypeOK
<1> QED
  BY <1>1, <1>2

-----------------------------------------------------------------------------
(* What no step takes back *)

\* The door leaves the updates and the targets alone.
LEMMA DoorFrame ==
    ASSUME Handle \/ Crash
    PROVE  UNCHANGED <<inbox, target>>
<1>1. CASE ReceivePress \/ ReceiveReason \/ Review \/ Published \/ PublishFails \/ Record \/ Tell \/ Crash
  BY <1>1 DEF ReceivePress, ReceiveReason, Review, Published, PublishFails, Record, Tell, Crash, reviewVars
<1>2. CASE Poll \/ Advance \/ ReceiveKnown \/ ReceiveUnsupported \/ ReceiveApproval \/ ReceiveOrder
  BY <1>2 DEF Poll, Advance, ReceiveKnown, ReceiveUnsupported, ReceiveApproval, ReceiveOrder, reviewVars
<1>3. CASE ReceiveTalk \/ TurnCreates \/ TurnAnswers \/ TurnFails
  BY <1>3 DEF ReceiveTalk, TurnCreates, TurnAnswers, TurnFails, reviewVars
<1> QED
  BY <1>1, <1>2, <1>3 DEF Handle

\* Only a review decides, and the item moves by a review at the door, too.
LEMMA DoorItem ==
    ASSUME Handle \/ Crash
    PROVE  Review \/ UNCHANGED <<item, decisions>>
<1>1. CASE ReceivePress \/ ReceiveReason \/ Published \/ PublishFails \/ Record \/ Tell \/ Crash
  BY <1>1 DEF ReceivePress, ReceiveReason, Published, PublishFails, Record, Tell, Crash, reviewVars
<1>2. CASE Poll \/ Advance \/ ReceiveKnown \/ ReceiveUnsupported \/ ReceiveApproval \/ ReceiveOrder
  BY <1>2 DEF Poll, Advance, ReceiveKnown, ReceiveUnsupported, ReceiveApproval, ReceiveOrder, reviewVars
<1>3. CASE ReceiveTalk \/ TurnCreates \/ TurnAnswers \/ TurnFails
  BY <1>3 DEF ReceiveTalk, TurnCreates, TurnAnswers, TurnFails, reviewVars
<1> QED
  BY <1>1, <1>2, <1>3 DEF Handle

LEMMA InboxStays ==
    ASSUME TypeOK, [Next]_vars
    PROVE  /\ Len(inbox) <= Len(inbox')
           /\ \A u \in 1 .. Len(inbox) : inbox'[u] = inbox[u]
<1>1. CASE CeoSends
  BY <1>1 DEF CeoSends, TypeOK
<1>2. CASE ReportReady \/ Rework \/ DashboardReviews \/ IssueControls \/ ControlsExpire
  BY <1>2 DEF ReportReady, Rework, DashboardReviews, IssueControls, ControlsExpire, TypeOK
<1>3. CASE Handle \/ Crash
  BY <1>3, DoorFrame DEF TypeOK
<1>4. CASE UNCHANGED vars
  BY <1>4 DEF vars, TypeOK
<1> QED
  BY <1>1, <1>2, <1>3, <1>4 DEF Next

LEMMA TargetsStay ==
    ASSUME TypeOK, [Next]_vars
    PROVE  \A s \in ControlSet : target[s] # 0 => target'[s] = target[s]
<1>1. CASE IssueControls
  BY <1>1 DEF IssueControls, TypeOK
<1>2. CASE CeoSends \/ ReportReady \/ Rework \/ DashboardReviews \/ ControlsExpire
  BY <1>2 DEF CeoSends, ReportReady, Rework, DashboardReviews, ControlsExpire, reviewVars
<1>3. CASE Handle \/ Crash
  BY <1>3, DoorFrame
<1>4. CASE UNCHANGED vars
  BY <1>4 DEF vars, reviewVars
<1> QED
  BY <1>1, <1>2, <1>3, <1>4 DEF Next

\* A decision that is made stays made, and the item moves on: to its next
\* report, back to work, or out of review.
LEMMA ItemMoves ==
    ASSUME TypeOK, InboxOK, DoorOK, ClaimOK, [Next]_vars
    PROVE  /\ decisions \subseteq decisions'
           /\ \/ item' = item
              \/ ReportReady
              \/ Rework
              \/ /\ item.state = "ReadyForCeoReview"
                 /\ \E d \in Decisions : item' = [item EXCEPT !.state = Expected(d)]
<1>1. CASE ReportReady \/ Rework \/ DashboardReviews
  BY <1>1 DEF ReportReady, Rework, DashboardReviews
<1>2. CASE CeoSends \/ IssueControls \/ ControlsExpire
  BY <1>2 DEF CeoSends, IssueControls, ControlsExpire, reviewVars
<1>3. CASE Review
  <2>1. Decision \in Decisions
    BY <1>3, ReviewCases, ControlAtTheDoor
  <2> QED
    BY <1>3, <2>1, ReviewCases
<1>4. CASE Handle \/ Crash
  BY <1>3, <1>4, DoorItem
<1>5. CASE UNCHANGED vars
  BY <1>5 DEF vars, reviewVars
<1> QED
  BY <1>1, <1>2, <1>4, <1>5 DEF Next

\* An answer to a control keeps its update and its target.
LEMMA AnswerStays ==
    ASSUME TypeOK, InboxOK, [Next]_vars, NEW u \in 1 .. Len(inbox)
    PROVE  /\ inbox'[u] = inbox[u] /\ u \in 1 .. Len(inbox')
           /\ inbox[u].set # 0 => target'[inbox[u].set] = target[inbox[u].set]
  BY InboxStays, TargetsStay DEF InboxOK, TypeOK

LEMMA DoneStays ==
    ASSUME TypeOK, InboxOK, DoorOK, ClaimOK, [Next]_vars,
           NEW u \in 1 .. Len(inbox), inbox[u].set # 0, Done(u)
    PROVE  Done(u)'
  BY AnswerStays, ItemMoves DEF Done

\* An item that left the review an update answers does not come back to it.
LEMMA GoneStays ==
    ASSUME TypeOK, InboxOK, DoorOK, ItemOK, ClaimOK, [Next]_vars,
           NEW u \in 1 .. Len(inbox), inbox[u].set # 0, Gone(u)
    PROVE  Gone(u)'
<1>1. /\ inbox'[u] = inbox[u] /\ target'[inbox[u].set] = target[inbox[u].set]
      /\ inbox[u].decision \in Decisions /\ inbox[u].set \in ControlSet
  BY AnswerStays DEF InboxOK
<1>2. Expected(inbox[u].decision) \in Left
  BY <1>1, ExpectedIsLeft
<1>3. /\ target[inbox[u].set] <= item.report
      /\ item \in ItemState /\ target[inbox[u].set] \in 0 .. MaxReports
  BY <1>1 DEF ItemOK, TypeOK
<1>4. CASE item' = item
  BY <1>1, <1>4 DEF Gone
<1>5. CASE ReportReady
  <2>1. item'.report = item.report + 1
    BY <1>5 DEF ReportReady
  <2>2. item.report + 1 # target[inbox[u].set]
    BY <1>3, FrontDoorAssumption DEF ItemState
  <2> QED
    BY <1>1, <2>1, <2>2 DEF Gone
<1>6. CASE Rework
  <2>1. item'.report = item.report /\ item'.state = "Executing"
    BY <1>3, <1>6 DEF Rework, ItemState
  <2> QED
    BY <1>1, <1>2, <2>1 DEF Gone, Left
<1>7. ASSUME NEW d \in Decisions, item.state = "ReadyForCeoReview",
             item' = [item EXCEPT !.state = Expected(d)]
      PROVE  Gone(u)'
  <2>1. item'.report = item.report /\ item.report # target[inbox[u].set]
    BY <1>3, <1>7 DEF ItemState, Gone
  <2> QED
    BY <1>1, <2>1 DEF Gone
<1> QED
  BY <1>4, <1>5, <1>6, <1>7, ItemMoves

-----------------------------------------------------------------------------
(* Every step keeps the updates and the door in order *)

LEMMA StepInbox ==
    ASSUME TypeOK, InboxOK, DoorOK, ItemOK, ClaimOK, [Next]_vars
    PROVE  InboxOK'
<1>1. CASE CeoSends
  <2>1. PICK m \in {Plain(k) : k \in Kinds}
                 \cup [kind : {"press"}, set : ControlSet, decision : Decisions]
                 \cup [kind : {"reason"}, set : ControlSet,
                       decision : Decisions \cap {"request-changes"}] :
          /\ m.set # 0 => target[m.set] # 0
          /\ inbox' = Append(inbox, m)
    BY <1>1 DEF CeoSends
  <2>2. UNCHANGED target
    BY <1>1 DEF CeoSends, reviewVars
  <2>3. /\ m.set # 0 <=> m.kind \in {"press", "reason"}
        /\ m.set # 0 => m.set \in ControlSet /\ m.decision \in Decisions
    BY <2>1, FrontDoorAssumption DEF Plain, ControlSet
  <2>4. /\ Len(inbox') = Len(inbox) + 1 /\ inbox'[Len(inbox) + 1] = m
        /\ \A u \in 1 .. Len(inbox) : inbox'[u] = inbox[u]
        /\ Len(inbox) \in Nat
    BY <2>1 DEF TypeOK
  <2>5. SUFFICES ASSUME NEW u \in 1 .. Len(inbox')
                 PROVE  /\ inbox'[u].set # 0 <=> inbox'[u].kind \in {"press", "reason"}
                        /\ inbox'[u].set # 0 =>
                             /\ inbox'[u].set \in ControlSet /\ inbox'[u].decision \in Decisions
                             /\ target'[inbox'[u].set] # 0
    BY DEF InboxOK
  <2>6. CASE u = Len(inbox) + 1
    BY <2>1, <2>2, <2>3, <2>4, <2>6
  <2>7. CASE u \in 1 .. Len(inbox)
    BY <2>2, <2>4, <2>7 DEF InboxOK
  <2> QED
    BY <2>4, <2>6, <2>7
<1>2. CASE ~CeoSends
  <2>1. UNCHANGED inbox
    <3>1. CASE ReportReady \/ Rework \/ DashboardReviews \/ IssueControls \/ ControlsExpire
      BY <3>1 DEF ReportReady, Rework, DashboardReviews, IssueControls, ControlsExpire
    <3>2. CASE Handle \/ Crash
      BY <3>2, DoorFrame
    <3>3. CASE UNCHANGED vars
      BY <3>3 DEF vars
    <3> QED
      BY <1>2, <3>1, <3>2, <3>3 DEF Next
  <2> QED
    BY <2>1, AnswerStays DEF InboxOK
<1> QED
  BY <1>1, <1>2

\* The steps of the world leave the door, its records and the cursor alone.
LEMMA WorldFrame ==
    ASSUME CeoSends \/ ReportReady \/ Rework \/ DashboardReviews \/ IssueControls \/ ControlsExpire
    PROVE  UNCHANGED <<cursor, ingress, door, turn, told, work>>
  BY DEF CeoSends, ReportReady, Rework, DashboardReviews, IssueControls, ControlsExpire

\* A door that finishes an update it was handling keeps its place.
LEMMA FinishKeepsTheDoor ==
    ASSUME TypeOK, DoorOK, NEW out \in Result \ {"none"}, NEW todo \in Todo, Finish(out, todo),
           door.pc # "idle", UNCHANGED <<inbox, cursor, ingress>>,
           todo \in {<<>>, <<"tell">>} => ingress[door.at] # "none"
    PROVE  DoorOK'
<1>1. /\ door'.pc = "finishing" /\ door'.at = door.at /\ door'.last = door.last
      /\ door'.out = out /\ door'.todo = todo
  BY FinishType
<1> QED
  BY <1>1 DEF DoorOK

LEMMA StageKeepsTheDoor ==
    ASSUME TypeOK, DoorOK, NEW pc \in {"publishing", "turning", "reviewing"}, Stage(pc),
           door.pc \notin {"idle", "finishing"}, UNCHANGED <<inbox, cursor, ingress>>,
           pc = "turning" => inbox[door.at].kind = "talk",
           pc = "reviewing" => inbox[door.at].kind \in {"press", "reason"},
           pc = "publishing" => inbox[door.at].kind \in {"order", "press", "reason"}
    PROVE  DoorOK'
<1>1. /\ door'.pc = pc /\ door'.at = door.at /\ door'.last = door.last
      /\ door'.out = door.out /\ door'.todo = door.todo
  BY StageType
<1> QED
  BY <1>1 DEF DoorOK

LEMMA ReceivingIsInOrder ==
    ASSUME door'.pc = "receiving", door'.out = "none", door'.todo = <<>>,
           cursor' <= Len(inbox'), door'.at = cursor' + 1, door'.at <= door'.last,
           door'.last <= Len(inbox')
    PROVE  DoorOK'
  BY DEF DoorOK

\* An answer to a control is put to the CEO before it is recorded.
LEMMA ToldFirstIsLong ==
    /\ ToldFirst \in Todo /\ ToldFirst \notin {<<>>, <<"tell">>}
    /\ RecordedFirst \in Todo /\ RecordedFirst \notin {<<>>, <<"tell">>}
    /\ Silent \in Todo /\ Silent \notin {<<>>, <<"tell">>}
    /\ <<"tell">> \in Todo
  BY DEF Todo, ToldFirst, RecordedFirst, Silent

LEMMA StepDoor ==
    ASSUME TypeOK, InboxOK, DoorOK, ClaimOK, [Next]_vars
    PROVE  DoorOK'
<1>1. /\ door \in DoorState /\ cursor \in 0 .. MaxUpdates /\ Len(inbox) \in 0 .. MaxUpdates
      /\ door.todo \in Todo /\ door.out \in Result /\ ingress \in [Update -> Result]
  BY DEF TypeOK, DoorState
<1>2. {"denied", "rejected", "approved", "refused", "handled", "asked", "applied"}
        \subseteq Result \ {"none"}
  BY DEF Result
<1>3. CASE \/ CeoSends \/ ReportReady \/ Rework \/ DashboardReviews \/ IssueControls \/ ControlsExpire
           \/ TurnCreates \/ UNCHANGED vars
  <2>1. UNCHANGED <<cursor, ingress, door>>
    BY <1>3, WorldFrame DEF TurnCreates, vars
  <2>2. /\ Len(inbox) <= Len(inbox') /\ Len(inbox') \in 0 .. MaxUpdates
        /\ door.pc # "idle" => inbox'[door.at] = inbox[door.at]
    BY <1>1, StepTypes, InboxStays, AtTheDoor DEF TypeOK
  <2>3. cursor <= Len(inbox') /\ (door.pc # "idle" => door.last <= Len(inbox'))
    BY <1>1, <2>2 DEF DoorOK, DoorState
  <2> QED
    BY <2>1, <2>2, <2>3 DEF DoorOK
<1>4. CASE Poll
  <2>1. cursor + 1 \in 0 .. MaxUpdates /\ cursor + 1 <= Len(inbox)
    BY FrontDoorAssumption, <1>1, <1>4 DEF Poll
  <2>2. /\ door'.pc = "receiving" /\ door'.at = cursor + 1 /\ door'.last = Len(inbox)
        /\ door'.out = "none" /\ door'.todo = <<>>
    BY <1>1, <1>4, <2>1, ReceivingDoorType DEF Poll
  <2>3. UNCHANGED <<inbox, cursor>>
    BY <1>4 DEF Poll
  <2>4. cursor' <= Len(inbox') /\ door'.at <= door'.last /\ door'.last <= Len(inbox')
    BY <1>1, <2>1, <2>2, <2>3
  <2> QED
    BY <2>2, <2>3, <2>4, ReceivingIsInOrder
<1>5. CASE Advance
  <2>1. /\ door.at = cursor + 1 /\ door.at <= door.last /\ door.last <= Len(inbox)
        /\ door.at \in Nat /\ door.last \in 0 .. MaxUpdates
    BY <1>1, <1>5 DEF Advance, DoorOK, DoorState
  <2>2. cursor' = door.at /\ UNCHANGED <<inbox, ingress>>
    BY <1>1, <1>5, <2>1 DEF Advance
  <2>3. CASE door.at < door.last
    <3>1. door.at + 1 \in 0 .. MaxUpdates /\ door.at + 1 <= door.last
      BY FrontDoorAssumption, <2>1, <2>3
    <3>2. /\ door'.pc = "receiving" /\ door'.at = door.at + 1 /\ door'.last = door.last
          /\ door'.out = "none" /\ door'.todo = <<>>
      BY <1>5, <2>1, <2>3, <3>1, ReceivingDoorType DEF Advance
    <3>3. /\ cursor' <= Len(inbox') /\ door'.at = cursor' + 1
          /\ door'.at <= door'.last /\ door'.last <= Len(inbox')
      BY <1>1, <2>1, <2>2, <3>1, <3>2
    <3> QED
      BY <3>2, <3>3, ReceivingIsInOrder
  <2>4. CASE ~(door.at < door.last)
    <3>1. door' = IdleDoor
      BY <1>5, <2>4 DEF Advance
    <3> QED
      BY <1>1, <2>1, <2>2, <3>1 DEF DoorOK, IdleDoor
  <2> QED
    BY <2>3, <2>4
<1>6. CASE ReceiveKnown
  <2>1. CASE Finish("denied", Silent)
    BY <1>2, <1>6, <2>1, ToldFirstIsLong, FinishKeepsTheDoor DEF ReceiveKnown
  <2>2. CASE ingress[door.at] # "none" /\ Finish(ingress[door.at], <<"tell">>)
    <3>1. ingress[door.at] \in Result \ {"none"}
      BY <1>1, <1>6, <2>2, AtTheDoor DEF ReceiveKnown
    <3> QED
      BY <1>6, <2>2, <3>1, ToldFirstIsLong, FinishKeepsTheDoor DEF ReceiveKnown
  <2> QED
    BY <1>6, <2>1, <2>2 DEF ReceiveKnown
<1>7. CASE ReceiveUnsupported \/ ReceiveApproval
  <2>1. CASE ReceiveUnsupported
    BY <1>2, <2>1, ToldFirstIsLong, FinishKeepsTheDoor DEF ReceiveUnsupported, Fresh
  <2>2. CASE ReceiveApproval
    BY <1>2, <2>2, ToldFirstIsLong, FinishKeepsTheDoor DEF ReceiveApproval, Fresh
  <2> QED
    BY <1>7, <2>1, <2>2
<1>8. CASE ReceiveOrder
  BY <1>8, StageKeepsTheDoor DEF ReceiveOrder, Fresh
<1>9. CASE ReceiveTalk
  BY <1>2, <1>9, ToldFirstIsLong, FinishKeepsTheDoor, StageKeepsTheDoor DEF ReceiveTalk, Fresh
<1>10. CASE ReceivePress \/ ReceiveReason
  <2>1. CASE Finish("refused", ToldFirst) \/ Finish("asked", ToldFirst)
    BY <1>2, <1>10, <2>1, AnswerCases, ToldFirstIsLong, FinishKeepsTheDoor
  <2>2. CASE Stage("reviewing")
    BY <1>10, <2>2, AnswerCases, StageKeepsTheDoor
  <2> QED
    BY <1>10, <2>1, <2>2, AnswerCases DEF Refuse, RefuseOnly, Claim
<1>11. CASE Review
  <2>1. CASE Finish("refused", ToldFirst) \/ Finish("applied", ToldFirst)
    BY <1>2, <1>11, <2>1, ReviewCases, ToldFirstIsLong, FinishKeepsTheDoor
  <2>2. CASE Stage("publishing")
    BY <1>11, <2>2, ReviewCases, StageKeepsTheDoor
  <2> QED
    BY <1>11, <2>1, <2>2, ReviewCases DEF Refuse, RefuseOnly
<1>12. CASE Published
  BY <1>2, <1>12, ToldFirstIsLong, FinishKeepsTheDoor DEF Published
<1>13. CASE PublishFails \/ Crash
  BY <1>13 DEF PublishFails, Crash, DoorOK, IdleDoor, reviewVars
<1>14. CASE TurnAnswers \/ TurnFails
  BY <1>2, <1>14, ToldFirstIsLong, FinishKeepsTheDoor DEF TurnAnswers, TurnFails
<1>15. CASE Record
  <2>1. /\ door'.pc = "finishing" /\ door'.at = door.at /\ door'.last = door.last
        /\ door'.out = door.out /\ door'.todo = Tail(door.todo)
        /\ UNCHANGED <<inbox, cursor>>
    BY <1>1, <1>15 DEF Record, DoorState
  <2>2. door.out # "none" /\ ingress'[door.at] # "none"
    BY <1>1, <1>15, AtTheDoor DEF Record, DoorOK
  <2> QED
    BY <1>15, <2>1, <2>2 DEF Record, DoorOK
<1>16. CASE Tell
  <2>1. /\ door'.pc = "finishing" /\ door'.at = door.at /\ door'.last = door.last
        /\ door'.out = door.out /\ door'.todo = Tail(door.todo)
        /\ UNCHANGED <<inbox, cursor, ingress>>
    BY <1>1, <1>16 DEF Tell, DoorState
  <2>2. Tail(door.todo) \in {<<>>, <<"tell">>} => ingress[door.at] # "none"
    BY <1>1, <1>16, TodoTails DEF Tell, DoorOK
  <2> QED
    BY <1>16, <2>1, <2>2 DEF Tell, DoorOK
<1> QED
  BY <1>3, <1>4, <1>5, <1>6, <1>7, <1>8, <1>9, <1>10, <1>11, <1>12, <1>13, <1>14, <1>15, <1>16
     DEF Next, Handle

-----------------------------------------------------------------------------
(* Every step keeps the records *)

\* A step that records and tells nothing, and finishes no turn without a record.
LEMMA RecordsKept ==
    ASSUME TypeOK, RecordsOK, UNCHANGED <<inbox, cursor, ingress, told>>,
           \A u \in Update : turn[u] # "none" => turn'[u] # "none",
           door'.pc = "finishing" /\ inbox[door'.at].kind = "talk" /\ door'.out = "handled" =>
             turn'[door'.at] # "none"
    PROVE  RecordsOK'
<1>1. 1 .. Len(inbox) \subseteq Update
  BY FrontDoorAssumption DEF TypeOK, Update
<1> QED
  BY <1>1 DEF RecordsOK

LEMMA StepRecords ==
    ASSUME TypeOK, InboxOK, DoorOK, RecordsOK, ClaimOK, [Next]_vars
    PROVE  RecordsOK'
<1> USE FrontDoorAssumption
<1>1. /\ door \in DoorState /\ cursor \in 0 .. MaxUpdates /\ Len(inbox) \in 0 .. MaxUpdates
      /\ ingress \in [Update -> Result] /\ told \in [Update -> SUBSET Result]
      /\ turn \in [Update -> {"none", "answered", "not-executed"}]
  BY DEF TypeOK
<1>2. CASE CeoSends
  <2>1. /\ Len(inbox') = Len(inbox) + 1
        /\ \A u \in 1 .. Len(inbox) : inbox'[u] = inbox[u]
    BY <1>1, <1>2, InboxStays DEF CeoSends, TypeOK
  <2>2. UNCHANGED <<cursor, ingress, told, turn, door>>
    BY <1>2, WorldFrame
  <2>3. ASSUME NEW u \in 1 .. Len(inbox'), inbox'[u].kind = "talk", ingress[u] = "handled"
        PROVE  turn[u] # "none"
    <3>1. Len(inbox') \in 0 .. MaxUpdates
      BY StepTypes DEF TypeOK
    <3>2. u \in 1 .. Len(inbox)
      BY <1>1, <2>1, <2>3, <3>1 DEF RecordsOK, Update
    <3> QED
      BY <2>1, <2>3, <3>2 DEF RecordsOK
  <2>4. door.pc = "finishing" => inbox'[door.at] = inbox[door.at]
    BY <2>1, AtTheDoor
  <2>5. \A u \in Update : u > cursor + 1 \/ u > Len(inbox') => ingress[u] = "none" /\ told[u] = {}
    BY <1>1, <2>1 DEF RecordsOK, Update
  <2> QED
    BY <2>2, <2>3, <2>4, <2>5 DEF RecordsOK
<1>3. CASE ReportReady \/ Rework \/ DashboardReviews \/ IssueControls \/ ControlsExpire \/ TurnCreates
  <2>1. UNCHANGED <<inbox, cursor, ingress, told, turn, door>>
    BY <1>3 DEF ReportReady, Rework, DashboardReviews, IssueControls, ControlsExpire, TurnCreates
  <2> QED
    BY <2>1, RecordsKept DEF RecordsOK
<1>4. CASE UNCHANGED vars
  BY <1>4, RecordsKept DEF vars, RecordsOK
<1>5. CASE Poll
  <2>1. door'.pc = "receiving"
    BY <1>5, IdleDoorType DEF Poll, DoorState
  <2> QED
    BY <1>5, <2>1, RecordsKept DEF Poll
<1>6. CASE Advance
  <2>1. door'.pc # "finishing"
    BY <1>6, IdleDoorType DEF Advance, DoorState, IdleDoor
  <2>2. /\ cursor' = cursor + 1 /\ door.at = cursor + 1 /\ ingress[cursor + 1] # "none"
        /\ UNCHANGED <<inbox, ingress, told, turn>>
    BY <1>1, <1>6 DEF Advance, DoorOK
  <2>3. \A u \in Update : u > cursor' + 1 \/ u > Len(inbox') => ingress'[u] = "none" /\ told'[u] = {}
    BY <1>1, <2>2 DEF RecordsOK, Update
  <2>4. \A u \in 1 .. cursor' : ingress'[u] # "none"
    BY <1>1, <2>2 DEF RecordsOK
  <2> QED
    BY <2>1, <2>2, <2>3, <2>4 DEF RecordsOK
<1>7. CASE PublishFails
  BY <1>7, RecordsKept DEF PublishFails, IdleDoor
<1>8. CASE ReceiveKnown
  <2>1. door'.out = "denied" \/ door'.out = ingress[door.at]
    BY <1>1, <1>8 DEF ReceiveKnown, Finish, DoorState
  <2>2. door'.at = door.at /\ door.at \in 1 .. Len(inbox)
    BY <1>1, <1>8, AtTheDoor DEF ReceiveKnown, Finish, DoorState
  <2> QED
    BY <1>8, <2>1, <2>2, RecordsKept DEF ReceiveKnown, RecordsOK
<1>9. CASE ReceiveUnsupported \/ ReceiveApproval \/ ReceiveOrder
  <2>1. door'.at = door.at /\ inbox[door.at].kind # "talk"
    BY <1>1, <1>9 DEF ReceiveUnsupported, ReceiveApproval, ReceiveOrder, Fresh, Finish, Stage, DoorState
  <2> QED
    BY <1>9, <2>1, RecordsKept DEF ReceiveUnsupported, ReceiveApproval, ReceiveOrder
<1>10. CASE ReceiveTalk
  <2>1. door'.at = door.at /\ (door'.pc = "finishing" => turn[door.at] # "none")
    BY <1>1, <1>10 DEF ReceiveTalk, Finish, Stage, DoorState
  <2> QED
    BY <1>10, <2>1, RecordsKept DEF ReceiveTalk
<1>11. CASE ReceivePress \/ ReceiveReason
  <2>1. door'.at = door.at
    BY <1>1, <1>11, AnswerCases DEF Refuse, RefuseOnly, Claim, Finish, Stage, DoorState
  <2> QED
    BY <1>11, <2>1, RecordsKept, AnswerCases
<1>12. CASE Review
  <2>1. door'.at = door.at
    BY <1>1, <1>12, ReviewCases DEF Refuse, RefuseOnly, Finish, Stage, DoorState
  <2> QED
    BY <1>12, <2>1, RecordsKept, ReviewCases
<1>13. CASE Published
  <2>1. door'.at = door.at /\ inbox[door.at].kind # "talk"
    BY <1>1, <1>13 DEF Published, DoorOK, Finish, DoorState
  <2> QED
    BY <1>13, <2>1, RecordsKept DEF Published
<1>14. CASE TurnAnswers \/ TurnFails
  <2>1. door'.at = door.at /\ door.at \in Update
    BY <1>1, <1>14, AtTheDoor DEF TurnAnswers, TurnFails, Finish, DoorState
  <2>2. /\ turn'[door.at] # "none"
        /\ \A u \in Update : turn[u] # "none" => turn'[u] # "none"
    BY <1>1, <1>14, <2>1 DEF TurnAnswers, TurnFails
  <2> QED
    BY <1>14, <2>1, <2>2, RecordsKept DEF TurnAnswers, TurnFails
<1>15. CASE Record
  <2>1. /\ door.at \in 1 .. Len(inbox) /\ door.at \in Update /\ door.at = cursor + 1
        /\ door.pc = "finishing"
    BY <1>15, AtTheDoor DEF Record
  <2>2. /\ door'.at = door.at /\ door'.out = door.out /\ door'.pc = "finishing"
        /\ UNCHANGED <<inbox, cursor, told, turn>>
    BY <1>1, <1>15 DEF Record, DoorState
  <2>3. /\ \A u \in Update : u # door.at => ingress'[u] = ingress[u]
        /\ ingress[door.at] # "none" => ingress'[door.at] = ingress[door.at]
        /\ ingress[door.at] = "none" => ingress'[door.at] = door.out
    BY <1>1, <1>15, <2>1 DEF Record
  <2>4. \A u \in Update : u > cursor + 1 \/ u > Len(inbox) => ingress'[u] = "none" /\ told[u] = {}
    BY <1>1, <2>1, <2>3 DEF RecordsOK, Update
  <2>5. \A u \in 1 .. cursor : ingress'[u] # "none"
    BY <1>1, <2>1, <2>3 DEF RecordsOK, Update
  <2>6. ASSUME NEW u \in 1 .. Len(inbox), inbox[u].kind = "talk", ingress'[u] = "handled"
        PROVE  turn[u] # "none"
    <3>1. u \in Update
      BY <1>1 DEF Update
    <3> QED
      BY <2>1, <2>3, <2>6, <3>1 DEF RecordsOK
  <2> QED
    BY <2>1, <2>2, <2>4, <2>5, <2>6 DEF RecordsOK
<1>16. CASE Tell \/ Crash
  <2>1. /\ door.at \in 1 .. Len(inbox) /\ door.at \in Update /\ door.at = cursor + 1
    BY <1>16, AtTheDoor DEF Tell, Crash
  <2>2. /\ UNCHANGED <<inbox, cursor, ingress, turn>>
        /\ \A u \in Update : u # door.at => told'[u] = told[u]
    BY <1>1, <1>16, <2>1 DEF Tell, Crash
  <2>3. door'.pc = "finishing" =>
          door.pc = "finishing" /\ door'.at = door.at /\ door'.out = door.out
    BY <1>1, <1>16 DEF Tell, Crash, IdleDoor, DoorState
  <2>4. \A u \in Update : u > cursor + 1 \/ u > Len(inbox) => ingress[u] = "none" /\ told'[u] = {}
    BY <1>1, <2>1, <2>2 DEF RecordsOK, Update
  <2> QED
    BY <2>1, <2>2, <2>3, <2>4 DEF RecordsOK
<1> QED
  BY <1>2, <1>3, <1>4, <1>5, <1>6, <1>7, <1>8, <1>9, <1>10, <1>11, <1>12, <1>13, <1>14, <1>15, <1>16
     DEF Next, Handle

-----------------------------------------------------------------------------
(* Every step keeps the history of the decisions *)

\* A report under review is decided, by the dashboard or by an answer.
LEMMA DecisionKeepsTheItem ==
    ASSUME TypeOK, InboxOK, ItemOK, item.state = "ReadyForCeoReview",
           NEW d \in Decisions, NEW by \in 0 .. MaxUpdates,
           by # 0 => by <= Len(inbox) /\ inbox[by].set # 0 /\ item.report = target[inbox[by].set],
           item' = [item EXCEPT !.state = Expected(d)],
           decisions' = decisions \cup {[report |-> item.report, state |-> Expected(d), by |-> by]},
           UNCHANGED <<inbox, target>>
    PROVE  ItemOK'
<1> DEFINE new == [report |-> item.report, state |-> Expected(d), by |-> by]
<1>1. new.report = item.report /\ new.state = Expected(d) /\ new.by = by
  OBVIOUS
<1>2. decisions' = decisions \cup {new}
  OBVIOUS
<1> HIDE DEF new
<1>3. item \in ItemState /\ Expected(d) \in Left
  BY ExpectedIsLeft DEF TypeOK
<1>4. item'.report = item.report /\ item'.state = Expected(d)
  BY <1>3 DEF ItemState
<1>5. item'.state # "ReadyForCeoReview"
  BY <1>3, <1>4 DEF Left
<1>6. item.report \in 0 .. MaxReports
  BY <1>3 DEF ItemState
<1>7. \A s \in ControlSet : target'[s] <= item'.report
  BY <1>4 DEF ItemOK
<1>8. \A e \in decisions' :
        /\ e.report <= item'.report
        /\ item'.state = "ReadyForCeoReview" => e.report # item'.report
  BY <1>1, <1>2, <1>4, <1>5, <1>6, FrontDoorAssumption DEF ItemOK
<1>9. \E e \in decisions' : e.report = item'.report /\ e.state = item'.state
  BY <1>1, <1>2, <1>4
<1>10. \A e \in decisions' :
         e.by # 0 => /\ e.by <= Len(inbox') /\ inbox'[e.by].set # 0
                     /\ e.report = target'[inbox'[e.by].set]
  BY <1>1, <1>2 DEF ItemOK
<1>11. ASSUME NEW e \in decisions', NEW g \in decisions', e.report = g.report PROVE e = g
  <2>1. \A h \in decisions : h.report # item.report
    BY DEF ItemOK
  <2>2. CASE e = new \/ g = new
    BY <1>1, <1>2, <1>11, <2>1, <2>2
  <2>3. CASE e \in decisions /\ g \in decisions
    BY <1>11, <2>3 DEF ItemOK
  <2> QED
    BY <1>2, <2>2, <2>3
<1> QED
  BY <1>7, <1>8, <1>9, <1>10, <1>11 DEF ItemOK

LEMMA StepItem ==
    ASSUME TypeOK, InboxOK, DoorOK, ItemOK, ClaimOK, [Next]_vars
    PROVE  ItemOK'
<1> USE FrontDoorAssumption
<1>1. /\ item \in ItemState /\ target \in [ControlSet -> 0 .. MaxReports]
      /\ decisions \in SUBSET [report : 0 .. MaxReports, state : Left, by : 0 .. MaxUpdates]
      /\ Len(inbox) \in 0 .. MaxUpdates
  BY DEF TypeOK
<1>2. CASE ReportReady \/ Rework
  <2>1. UNCHANGED <<inbox, target, decisions>>
    BY <1>2 DEF ReportReady, Rework
  <2>2. item.report \in 0 .. MaxReports
    BY <1>1 DEF ItemState
  <2>3. CASE ReportReady
    <3>1. item'.report = item.report + 1 /\ item'.state = "ReadyForCeoReview"
      BY <2>3 DEF ReportReady
    <3>2. \A s \in ControlSet : target[s] <= item.report + 1
      BY <1>1, <2>2 DEF ItemOK
    <3>3. \A d \in decisions : d.report <= item.report + 1 /\ d.report # item.report + 1
      <4>1. \A d \in decisions : d.report \in 0 .. MaxReports /\ d.report <= item.report
        BY <1>1 DEF ItemOK
      <4> QED
        BY <2>2, <4>1
    <3> QED
      BY <2>1, <3>1, <3>2, <3>3 DEF ItemOK, Left
  <2>4. CASE Rework
    <3>1. item'.report = item.report /\ item'.state = "Executing"
      BY <1>1, <2>4 DEF Rework, ItemState
    <3> QED
      BY <2>1, <3>1 DEF ItemOK, Left
  <2> QED
    BY <1>2, <2>3, <2>4
<1>3. CASE DashboardReviews
  <2>1. PICK d \in Decisions :
          /\ item' = [item EXCEPT !.state = Expected(d)]
          /\ decisions' = decisions \cup
               {[report |-> item.report, state |-> Expected(d), by |-> 0]}
    BY <1>3 DEF DashboardReviews
  <2>2. 0 \in 0 .. MaxUpdates
    OBVIOUS
  <2> QED
    BY <1>3, <2>1, <2>2, DecisionKeepsTheItem DEF DashboardReviews
<1>4. CASE IssueControls
  <2>1. UNCHANGED <<inbox, item, decisions>>
    BY <1>4 DEF IssueControls
  <2>2. PICK s \in ControlSet : target[s] = 0 /\ target' = [target EXCEPT ![s] = item.report]
    BY <1>4 DEF IssueControls
  <2>3. item.report \in 0 .. MaxReports
    BY <1>1 DEF ItemState
  <2>4. \A q \in ControlSet : target'[q] <= item.report
    BY <1>1, <2>2, <2>3 DEF ItemOK
  <2>5. ASSUME NEW d \in decisions, d.by # 0
        PROVE  d.report = target'[inbox[d.by].set]
    <3>1. d.by \in 1 .. Len(inbox) /\ inbox[d.by].set # 0
      BY <1>1, <2>5 DEF ItemOK
    <3> QED
      BY <2>5, <3>1, AnswerStays DEF ItemOK
  <2> QED
    BY <2>1, <2>4, <2>5 DEF ItemOK
<1>5. CASE CeoSends
  <2>1. UNCHANGED <<target, item, decisions>>
    BY <1>5 DEF CeoSends, reviewVars
  <2>2. Len(inbox) <= Len(inbox') /\ Len(inbox') \in 0 .. MaxUpdates
    BY InboxStays, StepTypes DEF TypeOK
  <2>3. ASSUME NEW d \in decisions, d.by # 0
        PROVE  /\ d.by <= Len(inbox') /\ inbox'[d.by].set # 0
               /\ d.report = target[inbox'[d.by].set]
    <3>1. d.by \in 1 .. Len(inbox)
      BY <1>1, <2>3 DEF ItemOK
    <3> QED
      BY <1>1, <2>2, <2>3, <3>1, InboxStays DEF ItemOK
  <2> QED
    BY <2>1, <2>3 DEF ItemOK
<1>6. CASE Review
  <2>1. CASE UNCHANGED <<item, decisions>>
    BY <1>6, <2>1, ReviewCases DEF ItemOK
  <2>2. CASE /\ item.report = target[Set] /\ item.state = "ReadyForCeoReview"
             /\ item' = [item EXCEPT !.state = Expected(Decision)]
             /\ decisions' = decisions \cup {[report |-> item.report,
                                              state |-> Expected(Decision), by |-> door.at]}
    <3>1. /\ door.at \in 1 .. Len(inbox) /\ door.at \in 0 .. MaxUpdates
          /\ Decision \in Decisions /\ inbox[door.at].set # 0
      BY <1>1, <1>6, ReviewCases, AtTheDoor, ControlAtTheDoor
    <3> QED
      BY <1>6, <2>2, <3>1, ReviewCases, DecisionKeepsTheItem DEF Set
  <2> QED
    BY <1>6, <2>1, <2>2, ReviewCases
<1>7. CASE (Handle \/ Crash) /\ ~Review
  BY <1>7, DoorFrame, DoorItem DEF ItemOK
<1>8. CASE ControlsExpire
  BY <1>8 DEF ControlsExpire, ItemOK
<1>9. CASE UNCHANGED vars
  BY <1>9 DEF vars, reviewVars, ItemOK
<1> QED
  BY <1>2, <1>3, <1>4, <1>5, <1>6, <1>7, <1>8, <1>9 DEF Next

-----------------------------------------------------------------------------
(* Every step keeps the claims and the answers *)

LEMMA CursorStays ==
    ASSUME TypeOK, DoorOK, [Next]_vars
    PROVE  cursor \in Nat /\ cursor' \in Nat /\ cursor <= cursor'
<1>1. cursor \in Nat /\ door.at \in Nat
  BY DEF TypeOK, DoorState
<1>2. CASE Advance
  BY <1>1, <1>2 DEF Advance
<1>3. CASE ~Advance
  <2>1. UNCHANGED cursor
    <3>1. CASE CeoSends \/ ReportReady \/ Rework \/ DashboardReviews \/ IssueControls \/ ControlsExpire
      BY <3>1, WorldFrame
    <3>2. CASE \/ Poll \/ ReceiveKnown \/ ReceiveUnsupported \/ ReceiveApproval \/ ReceiveOrder
               \/ ReceiveTalk \/ ReceivePress \/ ReceiveReason
      BY <3>2 DEF Poll, ReceiveKnown, ReceiveUnsupported, ReceiveApproval, ReceiveOrder,
                  ReceiveTalk, ReceivePress, ReceiveReason
    <3>3. CASE \/ Review \/ Published \/ PublishFails \/ TurnCreates \/ TurnAnswers \/ TurnFails
               \/ Record \/ Tell \/ Crash
      BY <3>3 DEF Review, Published, PublishFails, TurnCreates, TurnAnswers, TurnFails, Record,
                  Tell, Crash
    <3>4. CASE UNCHANGED vars
      BY <3>4 DEF vars
    <3> QED
      BY <1>3, <3>1, <3>2, <3>3, <3>4 DEF Next, Handle
  <2> QED
    BY <1>1, <2>1
<1> QED
  BY <1>2, <1>3

\* An update keeps its answer when it is told nothing new and its claim, or
\* what bars it, stays.
LEMMA AnswerKept ==
    ASSUME TypeOK, InboxOK, DoorOK, ItemOK, ClaimOK, [Next]_vars,
           NEW u \in 1 .. Len(inbox), AnswerOK(u),
           Answered(u, "applied")' => Answered(u, "applied"),
           inbox[u].set # 0 /\ Answered(u, "refused")' => Answered(u, "refused"),
           inbox[u].set # 0 /\ UsedBy(u)' => UsedBy(u),
           inbox[u].set # 0 /\ Answered(u, "applied") /\ u > cursor /\ UsedBy(u) => UsedBy(u)',
           inbox[u].set # 0 /\ Answered(u, "refused") /\ u > cursor /\ Barred(u) => Barred(u)'
    PROVE  AnswerOK(u)'
<1>1. inbox'[u] = inbox[u] /\ (u > cursor' => u > cursor) /\ (u <= cursor => u <= cursor')
  BY AnswerStays, CursorStays
<1>2. u <= cursor \/ u > cursor
  BY CursorStays
<1>3. inbox[u].set # 0 => (Done(u) => Done(u)') /\ (Gone(u) => Gone(u)')
  BY DoneStays, GoneStays
<1>4. Asks(u)' = Asks(u)
  BY <1>1 DEF Asks
<1> QED
  BY <1>1, <1>2, <1>3, <1>4 DEF AnswerOK

\* The same control bars and serves an update as before.
LEMMA SameControl ==
    ASSUME TypeOK, InboxOK, [Next]_vars, NEW u \in 1 .. Len(inbox),
           ControlOf(u)' = ControlOf(u)
    PROVE  /\ UsedBy(u)' = UsedBy(u) /\ ClaimedBy(u)' = ClaimedBy(u) /\ Barred(u)' = Barred(u)
           /\ Asks(u)' = Asks(u)
<1>1. inbox'[u] = inbox[u]
  BY AnswerStays
<1>2. ControlOf(u)'.state = ControlOf(u).state /\ ControlOf(u)'.by = ControlOf(u).by
  OBVIOUS
<1> QED
  BY <1>1, <1>2, Zenon DEF UsedBy, ClaimedBy, Barred, Asks

\* The steps at the door that leave the controls alone.
QuietStep ==
    \/ Poll \/ Advance \/ ReceiveKnown \/ ReceiveUnsupported \/ ReceiveApproval
    \/ ReceiveOrder \/ ReceiveTalk \/ PublishFails \/ TurnCreates \/ TurnAnswers
    \/ TurnFails \/ Record \/ Tell \/ Crash

\* They tell an answer to a control nothing it was not about to be told.
LEMMA QuietAnswers ==
    ASSUME TypeOK, InboxOK, DoorOK, QuietStep, NEW u \in 1 .. Len(inbox)
    PROVE  /\ UNCHANGED <<inbox, control>>
           /\ Answered(u, "applied")' => Answered(u, "applied")
           /\ inbox[u].set # 0 /\ Answered(u, "refused")' => Answered(u, "refused")
<1>1. /\ door \in DoorState /\ ingress \in [Update -> Result] /\ told \in [Update -> SUBSET Result]
      /\ u \in Update
  BY FrontDoorAssumption DEF TypeOK, Update
<1>2. CASE Poll \/ Advance
  <2>1. door'.pc # "finishing"
    BY <1>2, IdleDoorType DEF Poll, Advance, DoorState, IdleDoor
  <2> QED
    BY <1>2, <2>1 DEF Poll, Advance, Answered, reviewVars
<1>3. CASE ReceiveKnown
  <2>1. /\ door'.pc = "finishing" /\ door'.at = door.at
        /\ door'.out = "denied" \/ door'.out = ingress[door.at]
    BY <1>1, <1>3 DEF ReceiveKnown, Finish, DoorState
  <2> QED
    BY <1>3, <2>1 DEF ReceiveKnown, Answered, reviewVars
<1>4. CASE ReceiveUnsupported \/ ReceiveApproval \/ ReceiveTalk
  <2>1. /\ door'.at = door.at /\ door.at \in 1 .. Len(inbox)
        /\ inbox[door.at].kind \in {"unsupported", "approval", "talk"}
        /\ door'.pc = "finishing" => door'.out \in {"rejected", "approved", "refused", "handled"}
    BY <1>1, <1>4, AtTheDoor
       DEF ReceiveUnsupported, ReceiveApproval, ReceiveTalk, Fresh, Finish, Stage, DoorState
  <2>2. inbox[door.at].set = 0
    BY <2>1 DEF InboxOK
  <2> QED
    BY <1>4, <2>1, <2>2 DEF ReceiveUnsupported, ReceiveApproval, ReceiveTalk, Answered, reviewVars
<1>5. CASE ReceiveOrder
  <2>1. door'.pc = "publishing"
    BY <1>1, <1>5 DEF ReceiveOrder, Stage, DoorState
  <2> QED
    BY <1>5, <2>1 DEF ReceiveOrder, Answered, reviewVars
<1>6. CASE PublishFails \/ TurnCreates
  BY <1>6 DEF PublishFails, TurnCreates, Answered, IdleDoor, reviewVars
<1>7. CASE TurnAnswers \/ TurnFails
  <2>1. door'.out = "handled"
    BY <1>1, <1>7 DEF TurnAnswers, TurnFails, Finish, DoorState
  <2> QED
    BY <1>7, <2>1 DEF TurnAnswers, TurnFails, Answered, reviewVars
<1>8. CASE Record
  <2>1. /\ door'.pc = "finishing" /\ door'.at = door.at /\ door'.out = door.out
        /\ door.pc = "finishing"
    BY <1>1, <1>8 DEF Record, DoorState
  <2>2. /\ u # door.at => ingress'[u] = ingress[u]
        /\ u = door.at => ingress'[u] \in {ingress[u], door.out}
    BY <1>1, <1>8 DEF Record
  <2> QED
    BY <1>8, <2>1, <2>2 DEF Record, Answered, reviewVars
<1>9. CASE Tell \/ Crash
  <2>1. door'.pc = "finishing" =>
          door'.at = door.at /\ door'.out = door.out /\ door.pc = "finishing"
    BY <1>1, <1>9 DEF Tell, Crash, IdleDoor, DoorState
  <2>2. /\ u # door.at => told'[u] = told[u]
        /\ u = door.at => \/ told'[u] = told[u]
                          \/ told'[u] = told[u] \cup {door.out} /\ door.pc = "finishing"
    BY <1>1, <1>9 DEF Tell, Crash, DoorOK
  <2>3. UNCHANGED <<inbox, control, ingress>>
    BY <1>9 DEF Tell, Crash, reviewVars
  <2> QED
    BY <2>1, <2>2, <2>3 DEF Answered
<1> QED
  BY <1>2, <1>3, <1>4, <1>5, <1>6, <1>7, <1>8, <1>9 DEF QuietStep

\* The world tells nothing either, and leaves the controls of every answer alone.
LEMMA WorldAnswers ==
    ASSUME TypeOK, InboxOK, NEW u \in 1 .. Len(inbox),
           \/ CeoSends \/ ReportReady \/ Rework \/ DashboardReviews \/ IssueControls \/ ControlsExpire
           \/ UNCHANGED vars
    PROVE  /\ Answered(u, "applied")' = Answered(u, "applied")
           /\ Answered(u, "refused")' = Answered(u, "refused")
           /\ inbox[u].set # 0 => ControlOf(u)' = ControlOf(u)
<1>1. UNCHANGED <<ingress, door, told>>
  BY WorldFrame DEF vars
<1>2. inbox'[u] = inbox[u]
  BY InboxStays DEF Next
<1>3. ASSUME inbox[u].set # 0
      PROVE  control'[inbox[u].set][inbox[u].decision] = control[inbox[u].set][inbox[u].decision]
  <2>1. inbox[u].set \in ControlSet /\ target[inbox[u].set] # 0
    BY <1>3 DEF InboxOK
  <2>2. CASE IssueControls
    BY <2>1, <2>2 DEF IssueControls, TypeOK
  <2>3. CASE ~IssueControls
    BY <2>3 DEF CeoSends, ReportReady, Rework, DashboardReviews, ControlsExpire, vars, reviewVars
  <2> QED
    BY <2>2, <2>3
<1> QED
  BY <1>1, <1>2, <1>3 DEF Answered, ControlOf

\* The steps at the door that answer a control.
LoudStep == ReceivePress \/ ReceiveReason \/ Review \/ Published

\* They record and tell nothing yet, and touch the control at the door alone.
LEMMA LoudEffect ==
    ASSUME TypeOK, InboxOK, DoorOK, ClaimOK, LoudStep
    PROVE  /\ door'.at = door.at /\ UNCHANGED <<inbox, cursor, ingress, told, target>>
           /\ door.pc # "idle" /\ door.at = cursor + 1 /\ door.at \in 1 .. Len(inbox)
           /\ \/ UNCHANGED control
              \/ /\ Set \in ControlSet /\ Decision \in Decisions /\ inbox[door.at].set # 0
                 /\ \A s \in ControlSet, d \in Decisions :
                      ~(s = Set /\ d = Decision) => control'[s][d] = control[s][d]
                 /\ \/ control'[Set][Decision].by = door.at
                    \/ /\ control'[Set][Decision].state # "used"
                       /\ control'[Set][Decision].by = control[Set][Decision].by
<1>1. door \in DoorState
  BY DEF TypeOK
<1>2. door.pc # "idle" /\ door.at = cursor + 1 /\ door.at \in 1 .. Len(inbox) /\ door.at \in Update
  BY AtTheDoor, AnswerCases, ReviewCases DEF LoudStep, Published
<1>3. ASSUME NEW state \in {"awaiting-reason", "used", "expired", "invalidated"}, Mark(state),
             inbox[door.at].kind \in {"press", "reason"}, state = "used" => Control.by = door.at
      PROVE  /\ Set \in ControlSet /\ Decision \in Decisions /\ inbox[door.at].set # 0
             /\ \A s \in ControlSet, d \in Decisions :
                  ~(s = Set /\ d = Decision) => control'[s][d] = control[s][d]
             /\ \/ control'[Set][Decision].by = door.at
                \/ /\ control'[Set][Decision].state # "used"
                   /\ control'[Set][Decision].by = control[Set][Decision].by
  BY <1>2, <1>3, MarkEffect, ControlAtTheDoor DEF Control
<1>4. CASE ReceivePress \/ ReceiveReason
  <2>1. door'.at = door.at
    BY <1>1, <1>4, AnswerCases DEF Refuse, RefuseOnly, Claim, Finish, Stage, DoorState
  <2>2. Set \in ControlSet /\ Decision \in Decisions /\ inbox[door.at].set # 0
    BY <1>4, AnswerCases, ControlAtTheDoor
  <2>3. CASE RefuseOnly
    BY <1>2, <1>4, <2>1, <2>3, AnswerCases DEF RefuseOnly
  <2>4. CASE \E state \in {"expired", "invalidated"} : Refuse(state)
    BY <1>2, <1>3, <1>4, <2>1, <2>4, AnswerCases DEF Refuse
  <2>5. CASE Mark("awaiting-reason")
    BY <1>2, <1>3, <1>4, <2>1, <2>5, AnswerCases
  <2>6. CASE Claim
    BY <1>2, <1>4, <2>1, <2>2, <2>6, AnswerCases, ClaimEffect
  <2> QED
    BY <1>4, <2>3, <2>4, <2>5, <2>6, AnswerCases
<1>5. CASE Review
  <2>1. door'.at = door.at
    BY <1>1, <1>5, ReviewCases DEF Refuse, RefuseOnly, Finish, Stage, DoorState
  <2>2. Control.by = door.at
    BY <1>5, ReviewCases, ControlAtTheDoor DEF ClaimOK, ClaimedBy, ControlOf, Control, Set, Decision
  <2>3. CASE UNCHANGED control
    BY <1>2, <1>5, <2>1, <2>3, ReviewCases
  <2>4. CASE Mark("expired") \/ Mark("invalidated") \/ Mark("used")
    BY <1>2, <1>3, <1>5, <2>1, <2>2, <2>4, ReviewCases
  <2> QED
    BY <1>5, <2>3, <2>4, ReviewCases DEF Refuse, RefuseOnly
<1>6. CASE Published
  <2>1. door'.at = door.at /\ UNCHANGED <<inbox, cursor, ingress, told, target>>
    BY <1>1, <1>6 DEF Published, Finish, DoorState
  <2>2. CASE UNCHANGED control
    BY <1>2, <2>1, <2>2
  <2>3. CASE Mark("used") /\ inbox[door.at].kind \in {"press", "reason"}
    <3>1. Control.by = door.at
      BY <1>6, <2>3, ControlAtTheDoor DEF Published, ClaimOK, ClaimedBy, ControlOf, Control, Set, Decision
    <3> QED
      BY <1>2, <1>3, <2>1, <2>3, <3>1
  <2> QED
    BY <1>6, <2>2, <2>3 DEF Published, DoorOK
<1> QED
  BY <1>4, <1>5, <1>6 DEF LoudStep

LEMMA OtherAnswers ==
    ASSUME TypeOK, InboxOK, DoorOK, RecordsOK, ItemOK, ClaimOK, LoudStep, [Next]_vars,
           NEW u \in 1 .. Len(inbox), u # door.at, AnswerOK(u)
    PROVE  AnswerOK(u)'
<1>1. /\ Answered(u, "applied")' => Answered(u, "applied")
      /\ Answered(u, "refused")' => Answered(u, "refused")
  BY LoudEffect DEF Answered
<1>2. u > cursor => ~Answered(u, "applied") /\ ~Answered(u, "refused")
  <2>1. u \in Update /\ cursor \in Nat
    BY FrontDoorAssumption DEF TypeOK, Update
  <2>2. u > cursor => u > cursor + 1
    BY <2>1, LoudEffect
  <2>3. u > cursor => ingress[u] = "none" /\ told[u] = {}
    BY <2>1, <2>2 DEF RecordsOK
  <2> QED
    BY <2>3 DEF Answered
<1>3. ASSUME inbox[u].set # 0, UsedBy(u)' PROVE UsedBy(u)
  <2>1. /\ inbox'[u] = inbox[u]
        /\ inbox[u].set \in ControlSet /\ inbox[u].decision \in Decisions
    BY <1>3, AnswerStays DEF InboxOK
  <2>2. /\ control'[inbox[u].set][inbox[u].decision].state = "used"
        /\ control'[inbox[u].set][inbox[u].decision].by = u
    BY <1>3, <2>1 DEF UsedBy, ControlOf
  <2>3. control'[inbox[u].set][inbox[u].decision] = control[inbox[u].set][inbox[u].decision]
    BY <2>1, <2>2, LoudEffect
  <2> QED
    BY <2>2, <2>3 DEF UsedBy, ControlOf
<1> QED
  BY <1>1, <1>2, <1>3, AnswerKept

\* What the control at the door is after it was marked or claimed, for the
\* update at the door.
LEMMA MarkedAtTheDoor ==
    ASSUME TypeOK, InboxOK, DoorOK, NEW u, u = door.at, door.pc # "idle",
           inbox[u].kind \in {"press", "reason"},
           NEW state \in {"awaiting-reason", "used", "expired", "invalidated"}, Mark(state),
           UNCHANGED inbox
    PROVE  /\ state \in {"expired", "invalidated"} => Barred(u)'
           /\ state # "used" => ~UsedBy(u)'
           /\ state = "used" /\ Control.by = u => UsedBy(u)'
<1>1. /\ Set \in ControlSet /\ Decision \in Decisions
      /\ control'[Set][Decision] = [state |-> state, by |-> Control.by]
  BY ControlAtTheDoor, MarkEffect
<1>2. ControlOf(u)' = [state |-> state, by |-> Control.by]
  BY <1>1 DEF ControlOf, Set, Decision
<1> QED
  BY <1>2 DEF Barred, UsedBy, ClaimedBy

LEMMA ClaimedAtTheDoor ==
    ASSUME TypeOK, InboxOK, DoorOK, NEW u, u = door.at, door.pc # "idle",
           inbox[u].kind \in {"press", "reason"}, Claim, UNCHANGED inbox
    PROVE  /\ ClaimedBy(u)'
           /\ Claimed => UNCHANGED control
           /\ ~Claimed => ~UsedBy(u)'
<1>1. /\ Set \in ControlSet /\ Decision \in Decisions /\ door.at \in Update
      /\ control'[Set][Decision].state \in {"applying", "used"}
      /\ control'[Set][Decision].by = door.at
      /\ Claimed => control' = control
      /\ ~Claimed => control'[Set][Decision].state = "applying"
  BY ControlAtTheDoor, AtTheDoor, ClaimEffect
<1>2. ControlOf(u)' = control'[Set][Decision]
  BY DEF ControlOf, Set, Decision
<1> QED
  BY <1>1, <1>2 DEF UsedBy, ClaimedBy

\* An update whose turn at the door comes: its recorded and told answers.
LEMMA AtTheDoorSoFar ==
    ASSUME TypeOK, InboxOK, DoorOK, AnswersOK, NEW u, u = door.at, door.pc # "idle",
           inbox[u].kind \in {"press", "reason"}
    PROVE  /\ inbox[u].set # 0 /\ ClaimedBy(u) = Claimed
           /\ Answered(u, "applied") => UsedBy(u)
           /\ UsedBy(u) => Claimed /\ Done(u) /\ ~Asks(u)
           /\ Answered(u, "refused") => Gone(u) \/ Barred(u)
<1>1. u \in 1 .. Len(inbox) /\ u = cursor + 1 /\ inbox[u].set # 0 /\ cursor \in Nat
  BY AtTheDoor, ControlAtTheDoor DEF TypeOK
<1>2. AnswerOK(u) /\ u > cursor /\ ~(u <= cursor)
  BY <1>1 DEF AnswersOK
<1> QED
  BY <1>1, <1>2 DEF AnswerOK, ClaimedBy, UsedBy, Claimed, ControlOf, Control, Set, Decision

\* The answers a control at the door gives.
LEMMA ReceivedAnswer ==
    ASSUME TypeOK, InboxOK, DoorOK, ItemOK, ClaimOK, AnswersOK, [Next]_vars,
           ReceivePress \/ ReceiveReason, NEW u, u = door.at
    PROVE  AnswerOK(u)'
<1>1. /\ u \in 1 .. Len(inbox) /\ door.pc = "receiving" /\ inbox[u].kind \in {"press", "reason"}
      /\ UNCHANGED <<inbox, cursor, ingress, told>>
  BY AnswerCases, AtTheDoor
<1>2. /\ inbox[u].set # 0 /\ ClaimedBy(u) = Claimed
      /\ Answered(u, "applied") => UsedBy(u)
      /\ UsedBy(u) => Claimed /\ Done(u) /\ ~Asks(u)
      /\ Answered(u, "refused") => Gone(u) \/ Barred(u)
  BY <1>1, AtTheDoorSoFar
<1>3. door'.at = u /\ inbox'[u] = inbox[u]
  BY <1>1, LoudEffect DEF LoudStep
<1>4. Gone(u) => Gone(u)'
  BY <1>1, <1>2, GoneStays
<1>5. Asks(u)' = Asks(u)
  BY <1>3 DEF Asks
<1>6. door \in DoorState
  BY DEF TypeOK
<1>7. ASSUME door'.out \in {"refused", "asked"} \/ door'.pc = "reviewing"
      PROVE  Answered(u, "applied")' => Answered(u, "applied")
  BY <1>1, <1>3, <1>7 DEF Answered
<1>8. CASE RefuseOnly /\ Barred(u)
  <2>1. door'.out = "refused" /\ UNCHANGED control
    BY <1>6, <1>8 DEF RefuseOnly, Finish, DoorState
  <2>2. ControlOf(u)' = ControlOf(u)
    BY <1>3, <2>1 DEF ControlOf
  <2>3. UsedBy(u)' = UsedBy(u) /\ Barred(u)' = Barred(u)
    BY <1>1, <2>2, SameControl
  <2>4. ~UsedBy(u)
    BY <1>2, <1>8 DEF Barred
  <2> QED
    BY <1>1, <1>2, <1>3, <1>7, <1>8, <2>1, <2>3, <2>4 DEF AnswerOK
<1>9. CASE (\E state \in {"expired", "invalidated"} : Refuse(state)) /\ ~Claimed
  <2>1. PICK state \in {"expired", "invalidated"} : Refuse(state)
    BY <1>9
  <2>2. door'.out = "refused"
    BY <1>6, <2>1 DEF Refuse, Finish, DoorState
  <2>3. Barred(u)' /\ ~UsedBy(u)'
    BY <1>1, <1>3, <2>1, MarkedAtTheDoor DEF Refuse
  <2> QED
    BY <1>1, <1>2, <1>3, <1>7, <1>9, <2>2, <2>3 DEF AnswerOK
<1>10. CASE Asks(u) /\ ~Claimed /\ Mark("awaiting-reason") /\ Finish("asked", ToldFirst)
  <2>1. door'.out = "asked"
    BY <1>6, <1>10 DEF Finish, DoorState
  <2>2. ~UsedBy(u)'
    BY <1>1, <1>3, <1>10, MarkedAtTheDoor
  <2>3. Barred(u)'
    BY <1>5, <1>10 DEF Barred
  <2> QED
    BY <1>1, <1>2, <1>3, <1>7, <1>10, <2>1, <2>2, <2>3 DEF AnswerOK
<1>11. CASE ~Barred(u) /\ Claim
  <2>1. door'.pc = "reviewing"
    BY <1>6, <1>11 DEF Claim, Stage, DoorState
  <2>2. Answered(u, "refused")' => Answered(u, "refused")
    BY <1>1, <1>3, <2>1 DEF Answered
  <2>3. UsedBy(u)' => Claimed
    BY <1>1, <1>3, <1>11, ClaimedAtTheDoor
  <2>4. Claimed => UsedBy(u)' = UsedBy(u)
    <3>1. Claimed => UNCHANGED control
      BY <1>1, <1>3, <1>11, ClaimedAtTheDoor
    <3> QED
      BY <1>1, <1>3, <3>1, SameControl DEF ControlOf
  <2>5. UsedBy(u)' => Done(u)' /\ ~Asks(u)'
    <3>1. Done(u) => Done(u)'
      BY <1>1, <1>2, DoneStays
    <3> QED
      BY <1>2, <1>5, <2>3, <2>4, <3>1
  <2>6. Answered(u, "applied")' => UsedBy(u)'
    BY <1>2, <1>7, <2>1, <2>4
  <2>7. Answered(u, "refused")' => Gone(u)'
    BY <1>2, <1>4, <1>11, <2>2
  <2> QED
    BY <1>2, <1>3, <2>5, <2>6, <2>7 DEF AnswerOK
<1> QED
  BY <1>8, <1>9, <1>10, <1>11, AnswerCases

\* The answers a review gives.
LEMMA ReviewedAnswer ==
    ASSUME TypeOK, InboxOK, DoorOK, ItemOK, ClaimOK, AnswersOK, [Next]_vars, Review,
           NEW u, u = door.at
    PROVE  AnswerOK(u)'
<1>1. /\ u \in 1 .. Len(inbox) /\ door.pc = "reviewing" /\ inbox[u].kind \in {"press", "reason"}
      /\ UNCHANGED <<inbox, cursor, ingress, told, target>>
  BY ReviewCases, AtTheDoor
<1>2. /\ inbox[u].set # 0 /\ ClaimedBy(u) = Claimed
      /\ Answered(u, "applied") => UsedBy(u)
      /\ UsedBy(u) => Claimed /\ Done(u) /\ ~Asks(u)
      /\ Answered(u, "refused") => Gone(u) \/ Barred(u)
  BY <1>1, AtTheDoorSoFar
<1>3. ClaimedBy(u) /\ ~Asks(u) /\ ~Barred(u) /\ Control.by = u /\ ControlOf(u) = Control
  BY <1>1, <1>2 DEF ClaimOK, Barred, Claimed, ControlOf, Control, Set, Decision
<1>4. door'.at = u /\ inbox'[u] = inbox[u]
  BY <1>1, LoudEffect DEF LoudStep
<1>5. (Gone(u) => Gone(u)') /\ (Done(u) => Done(u)') /\ Asks(u)' = Asks(u)
  BY <1>1, <1>2, <1>4, GoneStays, DoneStays DEF Asks
<1>6. door \in DoorState /\ item \in ItemState /\ Decision \in Decisions
  BY <1>1, ControlAtTheDoor DEF TypeOK
<1>7. CASE /\ Refuse("expired") \/ Refuse("invalidated")
           /\ Control.state = "applying" /\ UNCHANGED <<item, decisions>>
  <2>1. door'.out = "refused"
    BY <1>6, <1>7 DEF Refuse, Finish, DoorState
  <2>2. ~Answered(u, "applied")'
    BY <1>1, <1>2, <1>3, <1>4, <1>7, <2>1 DEF Answered, UsedBy
  <2>3. Barred(u)' /\ ~UsedBy(u)'
    BY <1>1, <1>7, MarkedAtTheDoor DEF Refuse
  <2> QED
    BY <1>2, <1>4, <2>2, <2>3 DEF AnswerOK
<1>8. CASE /\ RefuseOnly /\ Control.state = "used" /\ UNCHANGED <<item, decisions>>
           /\ \/ item.report # target[Set]
              \/ item.state # Expected(Decision)
  <2>1. door'.out = "refused" /\ UNCHANGED control
    BY <1>6, <1>8 DEF RefuseOnly, Finish, DoorState
  <2>2. Done(u) /\ UsedBy(u)
    BY <1>2, <1>3, <1>8 DEF UsedBy
  <2>3. Gone(u)
    <3>1. item.report = target[Set] => item.state # "ReadyForCeoReview"
      BY <1>1, <2>2 DEF Done, ItemOK, Set
    <3> QED
      BY <1>1, <1>8, <3>1 DEF Gone, Set, Decision
  <2>4. ControlOf(u)' = ControlOf(u)
    BY <1>4, <2>1 DEF ControlOf
  <2>5. UsedBy(u)' = UsedBy(u)
    BY <1>1, <2>4, SameControl
  <2> QED
    BY <1>2, <1>3, <1>4, <1>5, <2>2, <2>3, <2>5 DEF AnswerOK
<1>9. CASE /\ Mark("used") /\ Finish("applied", ToldFirst)
           /\ item.report = target[Set] /\ item.state = Expected(Decision)
           /\ UNCHANGED <<item, decisions>>
  <2>1. door'.out = "applied"
    BY <1>6, <1>9 DEF Finish, DoorState
  <2>2. UsedBy(u)'
    BY <1>1, <1>3, <1>9, MarkedAtTheDoor
  <2>3. Done(u)
    <3>1. item.state \in Left
      BY <1>6, <1>9, ExpectedIsLeft
    <3> QED
      BY <1>1, <1>9, <3>1 DEF Done, ItemOK, Set, Decision
  <2>4. ~Gone(u)
    BY <1>1, <1>9 DEF Gone, Set, Decision
  <2>5. ~Answered(u, "refused")'
    BY <1>1, <1>2, <1>3, <1>4, <2>1, <2>4 DEF Answered
  <2> QED
    BY <1>2, <1>3, <1>4, <1>5, <2>2, <2>3, <2>5 DEF AnswerOK
<1>10. CASE Stage("publishing") /\ UNCHANGED control
  <2>1. door'.pc = "publishing"
    BY <1>6, <1>10 DEF Stage, DoorState
  <2>2. ControlOf(u)' = ControlOf(u)
    BY <1>4, <1>10 DEF ControlOf
  <2>3. UsedBy(u)' = UsedBy(u) /\ Barred(u)' = Barred(u)
    BY <1>1, <2>2, SameControl
  <2>4. /\ Answered(u, "applied")' => Answered(u, "applied")
        /\ Answered(u, "refused")' => Answered(u, "refused")
    BY <1>1, <2>1 DEF Answered
  <2>5. AnswerOK(u)
    BY <1>1 DEF AnswersOK
  <2> QED
    BY <1>1, <2>3, <2>4, <2>5, AnswerKept
<1> QED
  BY <1>7, <1>8, <1>9, <1>10, ReviewCases

\* The end of the projection: the control is used and the press applied.
LEMMA PublishedAnswer ==
    ASSUME TypeOK, InboxOK, DoorOK, ItemOK, ClaimOK, AnswersOK, [Next]_vars, Published,
           NEW u, u = door.at
    PROVE  AnswerOK(u)'
<1>1. /\ u \in 1 .. Len(inbox) /\ door.pc = "publishing"
      /\ UNCHANGED <<inbox, cursor, ingress, told, target>>
      /\ inbox[u].kind \in {"order", "press", "reason"}
  BY AtTheDoor DEF Published, DoorOK, reviewVars
<1>2. door \in DoorState
  BY DEF TypeOK
<1>3. door'.at = u /\ inbox'[u] = inbox[u]
  BY <1>1, LoudEffect DEF LoudStep
<1>4. CASE inbox[u].kind = "order"
  <2>1. door'.out = "handled" /\ UNCHANGED control
    BY <1>2, <1>4 DEF Published, Finish, DoorState
  <2>2. inbox[u].set = 0
    BY <1>1, <1>4 DEF InboxOK
  <2>3. Answered(u, "applied")' => Answered(u, "applied")
    BY <1>1, <2>1 DEF Answered
  <2>4. AnswerOK(u)
    BY <1>1 DEF AnswersOK
  <2> QED
    BY <1>1, <2>2, <2>3, <2>4, AnswerKept
<1>5. CASE inbox[u].kind \in {"press", "reason"}
  <2>1. inbox[u].set # 0 /\ ClaimedBy(u) /\ ~Asks(u) /\ Done(u) /\ ~Answered(u, "refused")
    BY <1>1, <1>5, ControlAtTheDoor DEF ClaimOK
  <2>2. Mark("used") /\ door'.out = "applied"
    BY <1>2, <1>5 DEF Published, Finish, DoorState
  <2>3. Control.by = u
    BY <2>1 DEF ClaimedBy, ControlOf, Control, Set, Decision
  <2>4. UsedBy(u)'
    BY <1>1, <1>5, <2>2, <2>3, MarkedAtTheDoor
  <2>5. Done(u)' /\ ~Asks(u)'
    BY <1>1, <1>3, <2>1, DoneStays DEF Asks
  <2>6. ~Answered(u, "refused")'
    BY <1>1, <2>1, <2>2 DEF Answered
  <2> QED
    BY <1>3, <2>1, <2>4, <2>5, <2>6 DEF AnswerOK
<1> QED
  BY <1>1, <1>4, <1>5

\* A new update is answered by nothing, and no control is claimed for it.
LEMMA NewAnswer ==
    ASSUME TypeOK, InboxOK, DoorOK, RecordsOK, ItemOK, ClaimOK, CeoSends, [Next]_vars,
           NEW u, u = Len(inbox')
    PROVE  AnswerOK(u)'
<1>1. Len(inbox) \in Nat /\ u = Len(inbox) + 1 /\ u \in Update
  BY FrontDoorAssumption DEF CeoSends, TypeOK, Update
<1>2. UNCHANGED <<cursor, ingress, told, door, control>>
  BY WorldFrame DEF CeoSends, reviewVars
<1>3. ingress[u] = "none" /\ told[u] = {} /\ (door.pc # "idle" => door.at # u)
  BY <1>1, AtTheDoor DEF RecordsOK
<1>4. ~Answered(u, "applied")' /\ ~Answered(u, "refused")'
  BY <1>2, <1>3 DEF Answered
<1>5. inbox'[u].set # 0 => ~UsedBy(u)'
  <2>1. inbox'[u].set # 0 => inbox'[u].set \in ControlSet /\ inbox'[u].decision \in Decisions
    BY <1>1, StepInbox DEF InboxOK
  <2>2. inbox'[u].set # 0 => control[inbox'[u].set][inbox'[u].decision].by <= Len(inbox)
    BY <2>1 DEF ClaimOK
  <2>3. ~(u <= Len(inbox))
    BY <1>1
  <2> QED
    BY <1>2, <2>2, <2>3 DEF UsedBy, ControlOf
<1> QED
  BY <1>4, <1>5 DEF AnswerOK

LEMMA StepAnswers ==
    ASSUME TypeOK, InboxOK, DoorOK, RecordsOK, ItemOK, ClaimOK, AnswersOK, [Next]_vars
    PROVE  AnswersOK'
<1>1. SUFFICES ASSUME NEW u \in 1 .. Len(inbox') PROVE AnswerOK(u)'
  BY DEF AnswersOK
<1>2. Len(inbox) \in Nat /\ Len(inbox') \in Nat
  BY StepTypes DEF TypeOK
<1>3. CASE u \in 1 .. Len(inbox)
  <2>1. AnswerOK(u) /\ inbox'[u] = inbox[u]
    BY <1>3, AnswerStays DEF AnswersOK
  <2>2. CASE \/ CeoSends \/ ReportReady \/ Rework \/ DashboardReviews \/ IssueControls \/ ControlsExpire
             \/ UNCHANGED vars
    <3>1. /\ Answered(u, "applied")' = Answered(u, "applied")
          /\ Answered(u, "refused")' = Answered(u, "refused")
          /\ inbox[u].set # 0 => ControlOf(u)' = ControlOf(u)
      BY <1>3, <2>2, WorldAnswers
    <3>2. inbox[u].set # 0 => UsedBy(u)' = UsedBy(u) /\ Barred(u)' = Barred(u)
      BY <1>3, <3>1, SameControl
    <3> QED
      BY <1>3, <2>1, <3>1, <3>2, AnswerKept
  <2>3. CASE QuietStep
    <3>1. /\ UNCHANGED control
          /\ Answered(u, "applied")' => Answered(u, "applied")
          /\ inbox[u].set # 0 /\ Answered(u, "refused")' => Answered(u, "refused")
      BY <1>3, <2>3, QuietAnswers
    <3>2. ControlOf(u)' = ControlOf(u)
      BY <2>1, <3>1 DEF ControlOf
    <3>3. UsedBy(u)' = UsedBy(u) /\ Barred(u)' = Barred(u)
      BY <1>3, <3>2, SameControl
    <3> QED
      BY <1>3, <2>1, <3>1, <3>3, AnswerKept
  <2>4. CASE LoudStep
    <3>1. CASE u = door.at
      BY <2>4, <3>1, ReceivedAnswer, ReviewedAnswer, PublishedAnswer DEF LoudStep
    <3>2. CASE u # door.at
      BY <1>3, <2>1, <2>4, <3>2, OtherAnswers
    <3> QED
      BY <3>1, <3>2
  <2> QED
    BY <2>2, <2>3, <2>4 DEF Next, Handle, QuietStep, LoudStep
<1>4. CASE u \notin 1 .. Len(inbox)
  <2>1. u = Len(inbox') /\ CeoSends
    <3>1. ~CeoSends => UNCHANGED inbox
      BY DoorFrame DEF Next, ReportReady, Rework, DashboardReviews, IssueControls, ControlsExpire, vars
    <3>2. CeoSends => Len(inbox') = Len(inbox) + 1
      BY DEF CeoSends, TypeOK
    <3> QED
      BY <1>2, <1>4, <3>1, <3>2
  <2> QED
    BY <2>1, NewAnswer
<1> QED
  BY <1>3, <1>4

LEMMA StepClaim ==
    ASSUME TypeOK, InboxOK, DoorOK, RecordsOK, ItemOK, ClaimOK, AnswersOK, [Next]_vars
    PROVE  ClaimOK'
<1>1. Len(inbox) \in Nat /\ Len(inbox') \in Nat /\ Len(inbox) <= Len(inbox') /\ door \in DoorState
      /\ control \in [ControlSet -> [Decisions -> ControlState]]
  BY StepTypes, InboxStays DEF TypeOK
<1>2. ASSUME NEW s \in ControlSet, NEW d \in Decisions
      PROVE  control'[s][d].by <= Len(inbox')
  <2>1. control[s][d].by \in Nat /\ control[s][d].by <= Len(inbox)
    BY <1>1 DEF ClaimOK, ControlState
  <2>2. CASE LoudStep
    <3>1. control'[s][d].by \in {control[s][d].by, door.at} /\ door.at \in 1 .. Len(inbox)
      BY <2>2, LoudEffect
    <3> QED
      BY <1>1, <2>1, <3>1
  <2>3. CASE IssueControls
    <3>1. control'[s][d].by \in {control[s][d].by, 0}
      BY <1>1, <2>3 DEF IssueControls
    <3> QED
      BY <1>1, <2>1, <3>1
  <2>4. CASE ~LoudStep /\ ~IssueControls
    <3>1. UNCHANGED control
      <4>1. CASE CeoSends \/ ReportReady \/ Rework \/ DashboardReviews \/ ControlsExpire \/ UNCHANGED vars
        BY <4>1 DEF CeoSends, ReportReady, Rework, DashboardReviews, ControlsExpire, vars, reviewVars
      <4>2. CASE Poll \/ Advance \/ ReceiveKnown \/ ReceiveUnsupported \/ ReceiveApproval \/ ReceiveOrder
        BY <4>2 DEF Poll, Advance, ReceiveKnown, ReceiveUnsupported, ReceiveApproval, ReceiveOrder, reviewVars
      <4>3. CASE \/ ReceiveTalk \/ PublishFails \/ TurnCreates \/ TurnAnswers \/ TurnFails
                 \/ Record \/ Tell \/ Crash
        BY <4>3 DEF ReceiveTalk, PublishFails, TurnCreates, TurnAnswers, TurnFails, Record, Tell,
                    Crash, reviewVars
      <4> QED
        BY <2>4, <4>1, <4>2, <4>3 DEF Next, Handle, LoudStep
    <3> QED
      BY <1>1, <2>1, <3>1
  <2> QED
    BY <2>2, <2>3, <2>4
<1>3. ASSUME NEW u, u = door'.at, door'.pc \in {"reviewing", "publishing"}, inbox'[u].set # 0
      PROVE  /\ ClaimedBy(u)' /\ ~Asks(u)'
             /\ door'.pc = "publishing" => Done(u)' /\ ~Answered(u, "refused")'
  <2>1. CASE \/ CeoSends \/ ReportReady \/ Rework \/ DashboardReviews \/ IssueControls \/ ControlsExpire
             \/ UNCHANGED vars
    <3>1. UNCHANGED door
      BY <2>1, WorldFrame DEF vars
    <3>2. u \in 1 .. Len(inbox) /\ u = door.at /\ door.pc = door'.pc /\ inbox'[u] = inbox[u]
      BY <1>3, <3>1, AtTheDoor, AnswerStays
    <3>3. /\ ClaimedBy(u) /\ ~Asks(u)
          /\ door'.pc = "publishing" => Done(u) /\ ~Answered(u, "refused")
      BY <1>3, <3>1, <3>2 DEF ClaimOK
    <3>4. Answered(u, "refused")' = Answered(u, "refused") /\ ControlOf(u)' = ControlOf(u)
      BY <1>3, <2>1, <3>2, WorldAnswers
    <3>5. ClaimedBy(u)' = ClaimedBy(u) /\ Asks(u)' = Asks(u)
      BY <3>2, <3>4, SameControl
    <3>6. Done(u) => Done(u)'
      BY <1>3, <3>2, DoneStays
    <3> QED
      BY <3>3, <3>4, <3>5, <3>6
  <2>2. CASE TurnCreates
    BY <1>3, <2>2 DEF TurnCreates
  <2>3. CASE QuietStep /\ ~TurnCreates
    <3>1. door'.pc = "publishing" /\ ReceiveOrder
      BY <1>1, <1>3, <2>3, IdleDoorType
         DEF QuietStep, Poll, Advance, ReceiveKnown, ReceiveUnsupported, ReceiveApproval,
             ReceiveOrder, ReceiveTalk, PublishFails, TurnAnswers, TurnFails, Record, Tell, Crash,
             Finish, Stage, IdleDoor, DoorState
    <3>2. u = door.at /\ inbox'[u] = inbox[u] /\ inbox[u].kind = "order" /\ u \in 1 .. Len(inbox)
      BY <1>1, <1>3, <3>1, AtTheDoor DEF ReceiveOrder, Fresh, Stage, DoorState
    <3> QED
      BY <1>3, <3>2 DEF InboxOK
  <2>4. CASE ReceivePress \/ ReceiveReason
    <3>1. /\ u = door.at /\ u \in 1 .. Len(inbox) /\ inbox'[u] = inbox[u]
          /\ door.pc # "idle" /\ inbox[u].kind \in {"press", "reason"} /\ UNCHANGED inbox
      BY <1>3, <2>4, LoudEffect, AnswerCases DEF LoudStep
    <3>2. Claim /\ ~Barred(u) /\ door'.pc = "reviewing"
      BY <1>1, <1>3, <2>4, <3>1, AnswerCases DEF Refuse, RefuseOnly, Claim, Finish, Stage, DoorState
    <3>3. ~Asks(u)'
      BY <3>1, <3>2 DEF Barred, Asks
    <3>4. ClaimedBy(u)'
      BY <3>1, <3>2, ClaimedAtTheDoor
    <3> QED
      BY <3>2, <3>3, <3>4
  <2>5. CASE Review
    <3>1. /\ u = door.at /\ u \in 1 .. Len(inbox) /\ inbox'[u] = inbox[u]
          /\ door.pc = "reviewing" /\ inbox[u].kind \in {"press", "reason"}
          /\ UNCHANGED <<inbox, target, ingress, told>>
      BY <1>3, <2>5, LoudEffect, ReviewCases DEF LoudStep
    <3>2. /\ door'.pc = "publishing" /\ UNCHANGED control
          /\ item.report = target[Set] /\ item.state = "ReadyForCeoReview"
          /\ decisions' = decisions \cup {[report |-> item.report,
                                           state |-> Expected(Decision), by |-> door.at]}
      BY <1>1, <1>3, <2>5, ReviewCases DEF Refuse, RefuseOnly, Finish, Stage, DoorState
    <3>3. ClaimedBy(u) /\ ~Asks(u)
      BY <3>1, ControlAtTheDoor DEF ClaimOK
    <3>4. ClaimedBy(u)' /\ ~Asks(u)'
      BY <3>1, <3>2, <3>3 DEF ClaimedBy, ControlOf, Asks
    <3>5. Done(u)'
      <4> DEFINE new == [report |-> item.report, state |-> Expected(Decision), by |-> door.at]
      <4>1. new.report = item.report /\ new.state = Expected(Decision) /\ new \in decisions'
        BY <3>2
      <4> HIDE DEF new
      <4>2. new.report = target'[inbox'[u].set] /\ new.state = Expected(inbox'[u].decision)
        BY <3>1, <3>2, <4>1 DEF Set, Decision
      <4> QED
        BY <4>1, <4>2 DEF Done
    <3>6. ~Gone(u) /\ ~Barred(u)
      BY <3>1, <3>2, <3>3 DEF Gone, Barred, Set, Decision
    <3>7. ~Answered(u, "refused")
      BY <3>1, <3>6, AtTheDoorSoFar
    <3>8. ~Answered(u, "refused")'
      BY <3>1, <3>2, <3>7 DEF Answered
    <3> QED
      BY <3>4, <3>5, <3>8
  <2>6. CASE Published
    BY <1>1, <1>3, <2>6 DEF Published, Finish, DoorState
  <2> QED
    BY <2>1, <2>2, <2>3, <2>4, <2>5, <2>6 DEF Next, Handle, QuietStep
<1> QED
  BY <1>2, <1>3 DEF ClaimOK

-----------------------------------------------------------------------------
(* The theorems *)

LEMMA InitInvariant == Init => ReviewInv
<1> SUFFICES ASSUME Init PROVE ReviewInv
  OBVIOUS
<1> USE FrontDoorAssumption
<1>1. TypeOK
  BY InitTypes
<1>2. inbox = <<>> /\ Len(inbox) = 0 /\ 1 .. Len(inbox) = {} /\ cursor = 0 /\ 1 .. cursor = {}
  BY DEF Init
<1>3. InboxOK /\ AnswersOK
  BY <1>2 DEF InboxOK, AnswersOK
<1>4. DoorOK
  BY <1>2 DEF DoorOK, Init, IdleDoor
<1>5. RecordsOK
  BY <1>2 DEF RecordsOK, Init, IdleDoor
<1>6. ItemOK
  BY DEF ItemOK, Init, Left
<1>7. ClaimOK
  <2>1. \A s \in ControlSet, d \in Decisions : control[s][d].by <= Len(inbox)
    BY <1>2 DEF Init
  <2>2. door.pc = "idle"
    BY DEF Init, IdleDoor
  <2> QED
    BY <2>1, <2>2 DEF ClaimOK
<1> QED
  BY <1>1, <1>3, <1>4, <1>5, <1>6, <1>7 DEF ReviewInv

LEMMA StepInvariant == ReviewInv /\ [Next]_vars => ReviewInv'
  BY StepTypes, StepInbox, StepDoor, StepRecords, StepItem, StepClaim, StepAnswers DEF ReviewInv

\* In every state the tables have their types; the door handles the update
\* right behind the cursor; every update passed is recorded; a report is
\* decided once; and what an update is answered agrees with its claim.
THEOREM Invariant == Spec => []ReviewInv
  BY InitInvariant, StepInvariant, PTL DEF Spec

\* telegram-ingress.ts: the cursor passes an update only when its result is
\* recorded, and a turn of Hermes only with its record, whatever crashes and
\* redeliveries come between.
THEOREM PassedIsRecordedHolds == Spec => []PassedIsRecorded
<1>1. ReviewInv => PassedIsRecorded
  <2> SUFFICES ASSUME ReviewInv, NEW u \in 1 .. cursor
               PROVE  /\ ingress[u] # "none"
                      /\ ingress[u] = "handled" /\ inbox[u].kind = "talk" => turn[u] # "none"
    BY DEF PassedIsRecorded
  <2>1. u \in 1 .. Len(inbox)
    BY DEF ReviewInv, TypeOK, DoorOK
  <2> QED
    BY <2>1 DEF ReviewInv, RecordsOK
<1> QED
  BY <1>1, Invariant, PTL

\* applyReviewControl: a press decides only the report its control was issued
\* for, and no report is decided twice, by presses, reasons or the dashboard.
THEOREM PressDecidesItsReportHolds == Spec => []PressDecidesItsReport
<1>1. ReviewInv => PressDecidesItsReport
  BY DEF ReviewInv, ItemOK, PressDecidesItsReport
<1> QED
  BY <1>1, Invariant, PTL

\* recordTelegramIngressResult: an update recorded as applied has a decision of
\* the report its control was issued for.
THEOREM AppliedIsTrueHolds == Spec => []AppliedIsTrue
<1>1. ReviewInv => AppliedIsTrue
  <2> SUFFICES ASSUME ReviewInv, NEW u \in Update, ingress[u] = "applied"
               PROVE  Done(u)
    BY DEF AppliedIsTrue, Done
  <2>1. u \in 1 .. Len(inbox)
    BY FrontDoorAssumption DEF ReviewInv, RecordsOK, TypeOK, Update
  <2>2. AnswerOK(u) /\ Answered(u, "applied")
    BY <2>1 DEF ReviewInv, AnswersOK, Answered
  <2> QED
    BY <2>2 DEF AnswerOK
<1> QED
  BY <1>1, Invariant, PTL

\* receiveUpdate and applyReviewControl: a redelivered press is not told the
\* opposite of what it was told before, while the item is where the press led
\* and its report the same.
THEOREM ToldIsConsistentHolds == Spec => []ToldIsConsistent
<1>1. ReviewInv => ToldIsConsistent
  <2> SUFFICES ASSUME ReviewInv, NEW u \in 1 .. Len(inbox), inbox[u].set # 0,
                      "applied" \in told[u], "refused" \in told[u]
               PROVE  \/ item.state # Expected(inbox[u].decision)
                      \/ item.report # target[inbox[u].set]
    BY DEF ToldIsConsistent
  <2>1. AnswerOK(u) /\ Answered(u, "applied") /\ Answered(u, "refused")
    BY DEF ReviewInv, AnswersOK, Answered
  <2>2. Gone(u)
    BY <2>1 DEF AnswerOK
  <2> QED
    BY <2>2 DEF Gone
<1> QED
  BY <1>1, Invariant, PTL

-----------------------------------------------------------------------------
(* The refinement of ReviewDialogue *)

\* What an answer to a control asks for: the report of the control, out of review.
LEMMA AsksOf ==
    ASSUME TypeOK, InboxOK, ItemOK, NEW u \in 1 .. Len(inbox), inbox[u].set # 0
    PROVE  /\ u \in Update /\ IsAnswer(u)
           /\ asksBar[u] = [report |-> target[inbox[u].set],
                            state |-> Expected(inbox[u].decision)]
           /\ target[inbox[u].set] \in 1 .. item.report
           /\ Expected(inbox[u].decision) \in Left
<1>1. u \in Update /\ IsAnswer(u)
  <2>1. Len(inbox) \in 0 .. MaxUpdates /\ u \in 1 .. Len(inbox)
    BY DEF TypeOK
  <2>2. u \in Update
    BY <2>1, FrontDoorAssumption DEF Update
  <2> QED
    BY <2>1, <2>2 DEF IsAnswer
<1>2. inbox[u].set \in ControlSet /\ inbox[u].decision \in Decisions /\ target[inbox[u].set] # 0
  BY DEF InboxOK
<1>3. target[inbox[u].set] \in 0 .. MaxReports /\ target[inbox[u].set] <= item.report
  BY <1>2 DEF TypeOK, ItemOK
<1>4. item.report \in Nat
  BY FrontDoorAssumption DEF TypeOK, ItemState
<1>5. target[inbox[u].set] \in 1 .. item.report
  BY <1>2, <1>3, <1>4, FrontDoorAssumption
<1>6. asksBar[u] = [report |-> target[inbox[u].set], state |-> Expected(inbox[u].decision)]
  BY <1>1 DEF asksBar
<1> QED
  BY <1>1, <1>2, <1>5, <1>6, ExpectedIsLeft

\* An answer to a control has been sent.
LEMMA AnswersWereSent ==
    ASSUME TypeOK, InboxOK, NEW u \in Update, IsAnswer(u)
    PROVE  u \in 1 .. Len(inbox) /\ inbox[u].set # 0 /\ target[inbox[u].set] # 0
           /\ inbox[u].set \in ControlSet
  BY DEF TypeOK, InboxOK, Update, IsAnswer

\* What an update asks for stays, whatever sets are issued.
LEMMA AsksStay ==
    ASSUME TypeOK, InboxOK, [Next]_vars, UNCHANGED inbox
    PROVE  UNCHANGED asksBar
<1>1. \A u \in Update : IsAnswer(u)' = IsAnswer(u)
  BY DEF IsAnswer
<1>2. \A u \in Update : IsAnswer(u) => target'[inbox[u].set] = target[inbox[u].set]
  BY AnswersWereSent, TargetsStay
<1>3. \A u \in Update : asksBar'[u] = asksBar[u]
  BY <1>1, <1>2 DEF asksBar
<1> QED
  BY <1>3 DEF asksBar

\* A step that changes nothing but what the door and the controls hold.
LEMMA HiddenStep ==
    ASSUME TypeOK, InboxOK, [Next]_vars, UNCHANGED <<inbox, item, decisions, told, ingress>>
    PROVE  UNCHANGED (Dialogue!vars)
<1>1. UNCHANGED <<asksBar, stageBar>>
  BY AsksStay DEF stageBar
<1>2. UNCHANGED answersBar
  BY DEF answersBar, IsAnswer
<1> QED
  BY <1>1, <1>2 DEF Dialogue!vars

\* The stages of the states of the item.
LEMMA Stages ==
    /\ item.state = "Executing" => stageBar = "work"
    /\ item.state = "ReadyForCeoReview" => stageBar = "review"
    /\ item.state \in Left => stageBar = "decided"
  BY DEF stageBar, Left

\* The gateway, the dashboard and a rework move the item in front of the CEO.
LEMMA ItemRefines ==
    ASSUME ReviewInv, ReportReady \/ Rework \/ DashboardReviews
    PROVE  Dialogue!Next
<1>1. UNCHANGED <<inbox, target, told, ingress>> /\ [Next]_vars
  BY DEF ReportReady, Rework, DashboardReviews, Next
<1>2. UNCHANGED <<asksBar, answersBar>>
  BY <1>1, AsksStay DEF ReviewInv, answersBar, IsAnswer
<1>3. item \in ItemState
  BY DEF ReviewInv, TypeOK
<1>4. CASE ReportReady
  <2>1. /\ item'.report = item.report + 1 /\ item'.state = "ReadyForCeoReview"
        /\ item.state = "Executing" /\ UNCHANGED decisions
    BY <1>4 DEF ReportReady
  <2>2. stageBar = "work" /\ stageBar' = "review"
    BY <2>1 DEF stageBar
  <2> QED
    BY <1>2, <2>1, <2>2 DEF Dialogue!Offer, Dialogue!Next
<1>5. CASE Rework
  <2>1. /\ item'.report = item.report /\ item'.state = "Executing"
        /\ item.state = "ChangesRequested" /\ UNCHANGED decisions
    BY <1>3, <1>5 DEF Rework, ItemState
  <2>2. stageBar = "decided" /\ stageBar' = "work"
    BY <2>1 DEF stageBar
  <2>3. Dialogue!Decided(item.report, "ChangesRequested")
    BY <2>1 DEF ReviewInv, ItemOK, Left, Dialogue!Decided
  <2> QED
    BY <1>2, <2>1, <2>2, <2>3 DEF Dialogue!TakeBack, Dialogue!Next
<1>6. CASE DashboardReviews
  <2>1. PICK d \in Decisions :
           /\ item' = [item EXCEPT !.state = Expected(d)]
           /\ decisions' = decisions \cup {[report |-> item.report,
                                            state |-> Expected(d), by |-> 0]}
    BY <1>6 DEF DashboardReviews
  <2>2. Expected(d) \in Left
    BY ExpectedIsLeft
  <2>3. item'.report = item.report /\ item'.state = Expected(d) /\ item.state = "ReadyForCeoReview"
    BY <1>3, <1>6, <2>1 DEF DashboardReviews, ItemState
  <2>4. stageBar = "review" /\ stageBar' = "decided"
    BY <2>2, <2>3 DEF stageBar, Left
  <2>5. Dialogue!Decide(Expected(d), 0)
    BY <1>2, <2>1, <2>3, <2>4 DEF Dialogue!Decide
  <2> QED
    BY <2>2, <2>5 DEF Dialogue!Next, Dialogue!Verdict, Left
<1> QED
  BY <1>4, <1>5, <1>6

\* The CEO asks for what the control offers, or sends something else.
LEMMA AskRefines ==
    ASSUME ReviewInv, CeoSends
    PROVE  [Dialogue!Next]_(Dialogue!vars)
<1>0. PICK n : n = Len(inbox) + 1
  OBVIOUS
<1>1. PICK m : inbox' = Append(inbox, m) /\ (m.set # 0 => target[m.set] # 0)
  BY DEF CeoSends
<1>2. /\ UNCHANGED <<item, decisions, target, told, ingress>> /\ Len(inbox) < MaxUpdates
      /\ [Next]_vars
  BY DEF CeoSends, reviewVars, Next
<1>3. /\ inbox \in Seq(Message) /\ Len(inbox) \in Nat /\ n \in Update
      /\ Len(inbox') = n /\ inbox'[n] = m
      /\ \A u \in 1 .. Len(inbox) : inbox'[u] = inbox[u]
  BY <1>0, <1>1, <1>2, FrontDoorAssumption DEF ReviewInv, TypeOK, Update
<1>4. InboxOK' /\ TypeOK' /\ ItemOK'
  BY <1>2, StepInvariant DEF ReviewInv
<1>5. UNCHANGED stageBar
  BY <1>2 DEF stageBar
<1>6. \A u \in Update \ {n} : IsAnswer(u)' = IsAnswer(u) /\ (IsAnswer(u) => inbox'[u] = inbox[u])
  <2> SUFFICES ASSUME NEW u \in Update \ {n}
               PROVE  IsAnswer(u)' = IsAnswer(u) /\ (IsAnswer(u) => inbox'[u] = inbox[u])
    OBVIOUS
  <2>1. u \in Nat \ {0} /\ n = Len(inbox) + 1 /\ Len(inbox) \in Nat
    BY <1>0, <1>3 DEF Update
  <2>2. CASE u <= Len(inbox)
    BY <1>3, <2>1, <2>2 DEF IsAnswer
  <2>3. CASE ~(u <= Len(inbox))
    BY <1>3, <2>1, <2>3 DEF IsAnswer
  <2> QED
    BY <2>2, <2>3
<1>7. ~IsAnswer(n) /\ told[n] = {} /\ ingress[n] = "none"
  BY <1>0, <1>3 DEF IsAnswer, ReviewInv, RecordsOK
<1>8. UNCHANGED answersBar
  <2>1. \A u \in Update : answersBar'[u] = answersBar[u]
    BY <1>2, <1>6, <1>7 DEF answersBar
  <2> QED
    BY <2>1 DEF answersBar
<1>9. \A u \in Update \ {n} : asksBar'[u] = asksBar[u]
  BY <1>2, <1>6 DEF asksBar
<1>10. asksBar[n] = Dialogue!NoAsk
  BY <1>3, <1>7 DEF asksBar, Dialogue!NoAsk
<1>11. IsAnswer(n)' <=> m.set # 0
  BY <1>0, <1>3 DEF IsAnswer
<1>12. CASE m.set = 0
  <2>1. asksBar'[n] = asksBar[n]
    BY <1>3, <1>7, <1>11, <1>12 DEF asksBar
  <2>2. UNCHANGED asksBar
    BY <1>9, <2>1 DEF asksBar
  <2> QED
    BY <1>2, <1>5, <1>8, <2>2 DEF Dialogue!vars
<1>13. CASE m.set # 0
  <2> DEFINE r == target[m.set]
             state == Expected(m.decision)
             asked == [report |-> r, state |-> state]
  <2>1. asksBar'[n] = asked
    BY <1>2, <1>3, <1>11, <1>13 DEF asksBar
  <2>2. r \in 1 .. item.report /\ state \in Left
    <3>1. m.set \in ControlSet /\ m.decision \in Decisions /\ r # 0
      BY <1>0, <1>2, <1>3, <1>4, <1>13 DEF InboxOK
    <3>2. r \in 0 .. MaxReports /\ r <= item.report /\ item.report \in Nat
      BY <3>1, FrontDoorAssumption DEF ReviewInv, ItemOK, TypeOK, ItemState
    <3> QED
      BY <3>1, <3>2, ExpectedIsLeft
  <2> HIDE DEF r, state, asked
  <2>3. asksBar' = [asksBar EXCEPT ![n] = asked]
    BY <1>9, <2>1 DEF asksBar
  <2>4. Dialogue!Ask(n, r, state)
    BY <1>2, <1>5, <1>8, <1>10, <2>3 DEF Dialogue!Ask, asked
  <2> QED
    BY <1>3, <2>2, <2>4 DEF Dialogue!Next, Dialogue!Verdict, Left
<1> QED
  BY <1>12, <1>13

\* A review at the door that decides does so by a press that was not refused.
LEMMA ReviewRefines ==
    ASSUME ReviewInv, Review
    PROVE  [Dialogue!Next]_(Dialogue!vars)
<1> DEFINE u == door.at
<1>1. /\ door.pc = "reviewing" /\ inbox[u].kind \in {"press", "reason"}
      /\ UNCHANGED <<inbox, target, ingress, told>> /\ [Next]_vars
  BY ReviewCases DEF ReviewInv, Next, Handle
<1>2. /\ u \in 1 .. Len(inbox) /\ u \in Update /\ u = cursor + 1
      /\ inbox[u].set # 0 /\ Decision \in Decisions
  BY <1>1, AtTheDoor, ControlAtTheDoor DEF ReviewInv
<1>3. CASE UNCHANGED <<item, decisions>>
  BY <1>1, <1>3, HiddenStep DEF ReviewInv
<1>4. CASE /\ item.report = target[Set] /\ item.state = "ReadyForCeoReview"
           /\ item' = [item EXCEPT !.state = Expected(Decision)]
           /\ decisions' = decisions \cup {[report |-> item.report,
                                            state |-> Expected(Decision), by |-> u]}
  <2>1. /\ asksBar[u] = [report |-> target[Set], state |-> Expected(Decision)]
        /\ Expected(Decision) \in Left
    BY <1>2, AsksOf DEF ReviewInv, Set, Decision
  <2>2. item'.report = item.report /\ item'.state = Expected(Decision)
    BY <1>4 DEF ReviewInv, TypeOK, ItemState
  <2>3. stageBar = "review" /\ stageBar' = "decided"
    BY <1>4, <2>1, <2>2 DEF stageBar, Left
  <2>4. UNCHANGED <<asksBar, answersBar>>
    BY <1>1, AsksStay DEF ReviewInv, answersBar, IsAnswer
  <2>5. "refused" \notin answersBar[u]
    <3>1. ~Gone(u)
      BY <1>4 DEF Gone, Set
    <3>2. ~Barred(u)
      BY <1>1, <1>2 DEF ReviewInv, ClaimOK, Barred
    <3>3. cursor \in Nat /\ ~(u <= cursor)
      BY <1>2 DEF ReviewInv, TypeOK
    <3>4. ~Answered(u, "refused")
      BY <1>2, <3>1, <3>2, <3>3 DEF ReviewInv, AnswersOK, AnswerOK
    <3> QED
      BY <1>2, <3>4 DEF answersBar, Answered
  <2> HIDE DEF u
  <2>6. Dialogue!DecideByPress(u)
    <3>1. Dialogue!Decide(Expected(Decision), u)
      BY <1>4, <2>2, <2>3, <2>4 DEF Dialogue!Decide
    <3> QED
      BY <1>4, <2>1, <2>5, <3>1 DEF Dialogue!DecideByPress
  <2> QED
    BY <1>2, <2>6 DEF Dialogue!Next
<1> QED
  BY <1>3, <1>4, ReviewCases DEF ReviewInv

\* An answer that is recorded or told is one the promise allows.
LEMMA AnswerRefines ==
    ASSUME ReviewInv, [Next]_vars, door.pc = "finishing",
           UNCHANGED <<inbox, item, decisions>>,
           \A u \in Update : u # door.at => told'[u] = told[u] /\ ingress'[u] = ingress[u],
           \A u \in Update : u = door.at =>
              /\ told'[u] \in {told[u], told[u] \cup {door.out}}
              /\ ingress'[u] \in {ingress[u], IF ingress[u] = "none" THEN door.out ELSE ingress[u]}
    PROVE  [Dialogue!Next]_(Dialogue!vars)
<1> DEFINE w == door.at
           given == door.out
<1>1. w \in 1 .. Len(inbox) /\ w \in Update
  BY AtTheDoor DEF ReviewInv
<1>2. UNCHANGED <<asksBar, stageBar>>
  BY AsksStay DEF ReviewInv, stageBar
<1>3. \A u \in Update : IsAnswer(u)' = IsAnswer(u)
  BY DEF IsAnswer
<1>4. \A u \in Update : u # w => answersBar'[u] = answersBar[u]
  BY <1>3 DEF answersBar
<1>5. answersBar'[w] = answersBar[w]
      \/ /\ answersBar'[w] = answersBar[w] \cup {given}
         /\ given \in {"applied", "refused"} /\ inbox[w].set # 0
  <2>1. CASE ~IsAnswer(w)
    BY <1>1, <1>3, <2>1 DEF answersBar
  <2>2. CASE IsAnswer(w)
    <3>1. /\ answersBar[w] = (told[w] \cup {ingress[w]}) \cap {"applied", "refused"}
          /\ answersBar'[w] = (told'[w] \cup {ingress'[w]}) \cap {"applied", "refused"}
      BY <1>1, <1>3, <2>2 DEF answersBar
    <3>2. /\ told'[w] \in {told[w], told[w] \cup {given}}
          /\ ingress'[w] = ingress[w] \/ (ingress[w] = "none" /\ ingress'[w] = given)
      BY <1>1
    <3>3. inbox[w].set # 0
      BY <2>2 DEF IsAnswer
    <3> HIDE DEF w, given
    <3> QED
      BY <3>1, <3>2, <3>3
  <2> QED
    BY <2>1, <2>2
<1>6. CASE answersBar'[w] = answersBar[w]
  <2>1. UNCHANGED answersBar
    BY <1>4, <1>6 DEF answersBar
  <2> QED
    BY <1>2, <2>1 DEF Dialogue!vars
<1>7. CASE /\ answersBar'[w] = answersBar[w] \cup {given}
           /\ given \in {"applied", "refused"} /\ inbox[w].set # 0
  <2>1. /\ asksBar[w] = [report |-> target[inbox[w].set],
                         state |-> Expected(inbox[w].decision)]
        /\ target[inbox[w].set] \in 1 .. item.report /\ IsAnswer(w)
    BY <1>1, <1>7, AsksOf DEF ReviewInv
  <2>2. asksBar[w] # Dialogue!NoAsk
    BY <2>1 DEF Dialogue!NoAsk
  <2>3. AnswerOK(w) /\ Answered(w, given)
    BY <1>1 DEF ReviewInv, AnswersOK, Answered
  <2>4. given = "applied" => Dialogue!Decided(asksBar[w].report, asksBar[w].state)
    BY <2>1, <2>3 DEF AnswerOK, Done, Dialogue!Decided
  <2>5. ASSUME NEW earlier \in answersBar[w], earlier # given
        PROVE  Dialogue!MovedOn(w)
    <3>1. Answered(w, earlier) /\ earlier \in {"applied", "refused"}
      BY <1>1, <2>1, <2>5 DEF answersBar, Answered
    <3>2. Answered(w, "applied") /\ Answered(w, "refused")
      BY Zenon, <1>7, <2>3, <2>5, <3>1
    <3>3. Gone(w)
      BY <1>7, <2>3, <3>2 DEF AnswerOK
    <3>4. CASE item.report # target[inbox[w].set]
      BY <2>1, <3>4 DEF Dialogue!MovedOn
    <3>5. CASE item.state = "Executing"
      BY <3>5 DEF Dialogue!MovedOn, stageBar
    <3>6. CASE item.state \in Left /\ item.state # Expected(inbox[w].decision)
      <4>1. stageBar = "decided"
        BY <3>6 DEF stageBar, Left
      <4>2. PICK d \in decisions : d.report = item.report /\ d.state = item.state
        BY <3>6 DEF ReviewInv, ItemOK
      <4>3. \A e \in decisions : e.report = item.report => e = d
        BY <4>2 DEF ReviewInv, ItemOK
      <4>4. ~Dialogue!Decided(item.report, asksBar[w].state)
        BY <2>1, <3>6, <4>2, <4>3 DEF Dialogue!Decided
      <4> QED
        BY <4>1, <4>4 DEF Dialogue!MovedOn
    <3>7. item.state \in Left \cup {"Executing", "ReadyForCeoReview"}
      BY DEF ReviewInv, TypeOK, ItemState
    <3> QED
      BY <3>3, <3>4, <3>5, <3>6, <3>7 DEF Gone
  <2>6. answersBar' = [answersBar EXCEPT ![w] = answersBar[w] \cup {given}]
    <3>1. /\ answersBar = [u \in Update |-> answersBar[u]]
          /\ answersBar' = [u \in Update |-> answersBar'[u]]
      BY DEF answersBar
    <3>2. \A u \in Update :
             answersBar'[u] = IF u = w THEN answersBar[w] \cup {given} ELSE answersBar[u]
      BY <1>4, <1>7
    <3> HIDE DEF w, given
    <3> QED
      BY <1>1, <3>1, <3>2
  <2> HIDE DEF w, given
  <2>7. Dialogue!Answer(w, given)
    BY <1>2, <2>2, <2>4, <2>5, <2>6 DEF Dialogue!Answer
  <2> QED
    BY <1>1, <1>7, <2>7 DEF Dialogue!Next
<1> QED
  BY <1>5, <1>6, <1>7

\* Every step of the front door and of the world is one of the promise, or does
\* not show.
LEMMA DialogueStep == ASSUME ReviewInv, [Next]_vars PROVE [Dialogue!Next]_(Dialogue!vars)
<1>1. CASE CeoSends
  BY <1>1, AskRefines
<1>2. CASE ReportReady \/ Rework \/ DashboardReviews
  BY <1>2, ItemRefines
<1>3. CASE IssueControls \/ ControlsExpire
  BY <1>3, HiddenStep DEF IssueControls, ControlsExpire, ReviewInv
<1>4. CASE Review
  BY <1>4, ReviewRefines
<1>5. CASE Record \/ Tell \/ Crash
  <2>1. UNCHANGED <<inbox, item, decisions>>
    BY <1>5 DEF Record, Tell, Crash, reviewVars
  <2>2. CASE UNCHANGED <<told, ingress>>
    BY <2>1, <2>2, HiddenStep DEF ReviewInv
  <2>3. CASE ~UNCHANGED <<told, ingress>>
    <3>1. door.pc = "finishing"
      BY <1>5, <2>3 DEF Record, Tell, Crash, ReviewInv, DoorOK
    <3>2. /\ told' = told \/ told' = [told EXCEPT ![door.at] = @ \cup {door.out}]
          /\ \/ ingress' = ingress
             \/ ingress' = [ingress EXCEPT ![door.at] = IF @ = "none" THEN door.out ELSE @]
      BY <1>5 DEF Record, Tell, Crash
    <3>3. told \in [Update -> SUBSET Result] /\ ingress \in [Update -> Result]
      BY DEF ReviewInv, TypeOK
    <3>4. /\ \A u \in Update : u # door.at => told'[u] = told[u] /\ ingress'[u] = ingress[u]
          /\ \A u \in Update : u = door.at =>
                /\ told'[u] \in {told[u], told[u] \cup {door.out}}
                /\ ingress'[u] \in {ingress[u],
                                    IF ingress[u] = "none" THEN door.out ELSE ingress[u]}
      BY <3>2, <3>3
    <3> QED
      BY <2>1, <3>1, <3>4, AnswerRefines
  <2> QED
    BY <2>2, <2>3
<1>6. CASE \/ ReceivePress \/ ReceiveReason \/ Published \/ PublishFails \/ Poll \/ Advance
           \/ ReceiveKnown \/ ReceiveUnsupported \/ ReceiveApproval \/ ReceiveOrder
           \/ ReceiveTalk \/ TurnCreates \/ TurnAnswers \/ TurnFails
  <2>1. UNCHANGED <<told, ingress>>
    BY <1>6 DEF ReceivePress, ReceiveReason, Published, PublishFails, Poll, Advance,
                ReceiveKnown, ReceiveUnsupported, ReceiveApproval, ReceiveOrder,
                ReceiveTalk, TurnCreates, TurnAnswers, TurnFails
  <2>2. Handle
    BY <1>6 DEF Handle
  <2>3. UNCHANGED inbox /\ (Review \/ UNCHANGED <<item, decisions>>)
    BY <2>2, DoorFrame, DoorItem
  <2> QED
    BY <1>4, <2>1, <2>3, HiddenStep DEF ReviewInv
<1>7. CASE UNCHANGED vars
  BY <1>7, HiddenStep DEF vars, reviewVars, ReviewInv
<1> QED
  BY <1>1, <1>2, <1>3, <1>4, <1>5, <1>6, <1>7 DEF Next, Handle

\* The front door keeps what the review controls promise the CEO, for every number
\* of updates, reports, sets of controls and faults.
THEOREM Refinement == Spec => ImplementsReviewDialogue
<1>1. Init => Dialogue!Init
  <2> SUFFICES ASSUME Init PROVE Dialogue!Init
    OBVIOUS
  <2>1. item.report = 0 /\ stageBar = "work" /\ decisions = {}
    BY DEF Init, stageBar
  <2>2. \A u \in Update : ~IsAnswer(u)
    BY DEF Init, Update, IsAnswer
  <2>3. asksBar = [u \in Update |-> Dialogue!NoAsk] /\ answersBar = [u \in Update |-> {}]
    BY <2>2 DEF asksBar, answersBar, Dialogue!NoAsk
  <2> QED
    BY <2>1, <2>3 DEF Dialogue!Init
<1>2. ReviewInv /\ [Next]_vars => [Dialogue!Next]_(Dialogue!vars)
  BY DialogueStep
<1> QED
  BY <1>1, <1>2, Invariant, PTL DEF Spec, Dialogue!Spec, ImplementsReviewDialogue
=============================================================================
