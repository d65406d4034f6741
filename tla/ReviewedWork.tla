----------------------------- MODULE ReviewedWork -----------------------------
(***************************************************************************)
(* What the Operations Gateway (operations/operations-gateway.ts) promises  *)
(* those who submit, execute and review Work Items: the work of a revision  *)
(* is carried out before its Outcome Report, reports come one at a time,    *)
(* the CEO decides each of them once, and an item the CEO completed or      *)
(* cancelled is not touched again.  How work is carried out, blocked,       *)
(* approved or interrupted does not show.  WorkItems implements this        *)
(* specification.                                                           *)
(***************************************************************************)
EXTENDS Naturals

CONSTANT Item

VARIABLES
    stage,    \* "absent", "work", "review", or what the CEO decided
    reports,  \* the number of Outcome Reports
    carried   \* the revisions all of whose effects were carried out

vars == <<stage, reports, carried>>

Decision == {"Completed", "Changes Requested", "Cancelled"}

Init ==
    /\ stage = [i \in Item |-> "absent"]
    /\ reports = [i \in Item |-> 0]
    /\ carried = [i \in Item |-> {}]

\* A command is captured, or a record migrated.
Arrive(i) ==
    /\ stage[i] = "absent"
    /\ stage' = [stage EXCEPT ![i] = "work"]
    /\ UNCHANGED <<reports, carried>>

\* A record is migrated with a report for review.
ArriveReported(i) ==
    /\ stage[i] = "absent"
    /\ stage' = [stage EXCEPT ![i] = "review"]
    /\ reports' = [reports EXCEPT ![i] = 1]
    /\ UNCHANGED carried

\* All effects of the next revision, and of no other, have taken place.
CarryOut(i) ==
    /\ stage[i] = "work"
    /\ carried' = [carried EXCEPT ![i] = @ \cup {reports[i] + 1}]
    /\ UNCHANGED <<stage, reports>>

Report(i) ==
    /\ stage[i] = "work" /\ reports[i] + 1 \in carried[i]
    /\ stage' = [stage EXCEPT ![i] = "review"]
    /\ reports' = [reports EXCEPT ![i] = @ + 1]
    /\ UNCHANGED carried

Decide(i, decided) ==
    /\ stage[i] = "review"
    /\ stage' = [stage EXCEPT ![i] = decided]
    /\ UNCHANGED <<reports, carried>>

\* Changes were requested: the item goes back to work.
TakeBack(i) ==
    /\ stage[i] = "Changes Requested"
    /\ stage' = [stage EXCEPT ![i] = "work"]
    /\ UNCHANGED <<reports, carried>>

Next ==
    \E i \in Item :
        \/ Arrive(i) \/ ArriveReported(i) \/ CarryOut(i) \/ Report(i) \/ TakeBack(i)
        \/ \E decided \in Decision : Decide(i, decided)

Spec == Init /\ [][Next]_vars
=============================================================================
