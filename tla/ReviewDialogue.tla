---------------------------- MODULE ReviewDialogue ----------------------------
(***************************************************************************)
(* What the review controls in Telegram promise the CEO: a report is        *)
(* decided once, by the press that asked for that report and that decision  *)
(* or elsewhere; a press that was refused decides nothing afterwards; what  *)
(* is answered to be applied was decided; and a press is not answered both  *)
(* ways before the item moves on.  Polling, redelivery, claims, expiry and  *)
(* crashes do not show.  TelegramFrontDoor implements this specification.   *)
(***************************************************************************)
EXTENDS Naturals

CONSTANT Press   \* the CEO's answers to review controls

VARIABLES
    report,    \* the number of the latest Outcome Report
    stage,     \* where its item is: "work", "review" or "decided"
    verdicts,  \* the decisions made: report, state, and the press or 0
    asks,      \* what each press asks for
    answers    \* what each press was answered, in the chat or in the record

vars == <<report, stage, verdicts, asks, answers>>

Verdict == {"Completed", "ChangesRequested", "Cancelled"}
NoAsk == [report |-> 0, state |-> "none"]

Init ==
    /\ report = 0
    /\ stage = "work"
    /\ verdicts = {}
    /\ asks = [u \in Press |-> NoAsk]
    /\ answers = [u \in Press |-> {}]

Decided(r, state) == \E v \in verdicts : v.report = r /\ v.state = state

Offer ==
    /\ stage = "work"
    /\ report' = report + 1
    /\ stage' = "review"
    /\ UNCHANGED <<verdicts, asks, answers>>

\* Changes were requested: the item goes back to work.
TakeBack ==
    /\ stage = "decided" /\ Decided(report, "ChangesRequested")
    /\ stage' = "work"
    /\ UNCHANGED <<report, verdicts, asks, answers>>

Ask(u, r, state) ==
    /\ asks[u] = NoAsk
    /\ asks' = [asks EXCEPT ![u] = [report |-> r, state |-> state]]
    /\ UNCHANGED <<report, stage, verdicts, answers>>

Decide(state, by) ==
    /\ stage = "review"
    /\ stage' = "decided"
    /\ verdicts' = verdicts \cup {[report |-> report, state |-> state, by |-> by]}
    /\ UNCHANGED <<report, asks, answers>>

DecideByPress(u) ==
    /\ asks[u].report = report /\ "refused" \notin answers[u]
    /\ Decide(asks[u].state, u)

\* The item is no longer where the press u would leave it.
MovedOn(u) ==
    \/ report # asks[u].report \/ stage = "work"
    \/ stage = "decided" /\ ~Decided(report, asks[u].state)

Answer(u, given) ==
    /\ asks[u] # NoAsk
    /\ given = "applied" => Decided(asks[u].report, asks[u].state)
    /\ \A earlier \in answers[u] : earlier # given => given \in answers[u] \/ MovedOn(u)
    /\ answers' = [answers EXCEPT ![u] = @ \cup {given}]
    /\ UNCHANGED <<report, stage, verdicts, asks>>

Next ==
    \/ Offer \/ TakeBack
    \/ \E state \in Verdict : Decide(state, 0)
    \/ \E u \in Press :
        \/ DecideByPress(u)
        \/ \E r \in 1 .. report, state \in Verdict : Ask(u, r, state)
        \/ \E given \in {"applied", "refused"} : Answer(u, given)

Spec == Init /\ [][Next]_vars
=============================================================================
