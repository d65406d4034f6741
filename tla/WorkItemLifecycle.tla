------------------------- MODULE WorkItemLifecycle -------------------------
(***************************************************************************)
(* The canonical Work Item lifecycle (operations/work-item-lifecycle.ts):  *)
(* the transition table, the events it admits, and the path a multi-step   *)
(* advance takes through it.  Pure operators, shared by the modules that   *)
(* move Work Items.                                                        *)
(***************************************************************************)
EXTENDS Sequences, FiniteSets, Naturals

WorkItemState ==
    {"Captured", "Triaged", "Planned", "Awaiting Approval", "Executing",
     "Waiting/Blocked", "Verifying", "Ready for CEO Review", "Completed",
     "Changes Requested", "Cancelled"}

lifecycleTransitions ==
    { <<"Captured", "Triaged">>,
      <<"Triaged", "Planned">>,
      <<"Planned", "Awaiting Approval">>,
      <<"Planned", "Executing">>,
      <<"Awaiting Approval", "Executing">>,
      <<"Executing", "Waiting/Blocked">>,
      <<"Executing", "Verifying">>,
      <<"Verifying", "Waiting/Blocked">>,
      <<"Verifying", "Ready for CEO Review">>,
      <<"Waiting/Blocked", "Planned">>,
      <<"Waiting/Blocked", "Executing">>,
      <<"Ready for CEO Review", "Completed">>,
      <<"Ready for CEO Review", "Changes Requested">>,
      <<"Ready for CEO Review", "Cancelled">>,
      <<"Changes Requested", "Planned">> }

WithoutChangesRequested ==
    {"Captured", "Triaged", "Planned", "Awaiting Approval", "Waiting/Blocked"}
advanceableStates ==
    {"Captured", "Triaged", "Planned", "Awaiting Approval",
     "Waiting/Blocked", "Changes Requested"}

\* lifecycleEventFor returns an event exactly for the pairs of the table.
lifecycleEventFor(from, to) == <<from, to>> \in lifecycleTransitions

\* The states an advance may walk into next: never Ready for CEO Review, which
\* only a recorded Outcome Report reaches.
AnyStep(from) == {to \in WorkItemState : lifecycleEventFor(from, to)}
StepsThatNeverBlock(from) ==
    {to \in WorkItemState \ {"Ready for CEO Review", "Waiting/Blocked"} :
        lifecycleEventFor(from, to)}
AdvanceSteps(from) ==
    {to \in WorkItemState \ {"Ready for CEO Review"} : lifecycleEventFor(from, to)}

(***************************************************************************)
(* lifecyclePathTo for the two targets the gateway advances to, Executing  *)
(* and Awaiting Approval: the states visited after `from', or the empty    *)
(* sequence where the code returns undefined.  LifecyclePathSearch checks  *)
(* this table against the breadth-first search of the source.              *)
(***************************************************************************)
advanceTargets == {"Executing", "Awaiting Approval"}

lifecyclePathTo(from, to) ==
    CASE from = to -> << >>
      [] from # to /\ from = "Captured" -> <<"Triaged", "Planned", to>>
      [] from # to /\ from = "Triaged" -> <<"Planned", to>>
      [] from # to /\ from \in {"Planned", "Awaiting Approval"} -> <<to>>
      [] from # to /\ from = "Waiting/Blocked" ->
            IF to = "Executing" THEN <<to>> ELSE <<"Planned", to>>
      [] from # to /\ from = "Changes Requested" -> <<"Planned", to>>
      [] OTHER -> << >>

AdvancedAlready(from, to) == from = to \/ lifecyclePathTo(from, to) # << >>
CanAdvance(from, to) == lifecyclePathTo(from, to) # << >>
=============================================================================
