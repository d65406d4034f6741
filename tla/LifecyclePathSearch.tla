------------------------ MODULE LifecyclePathSearch ------------------------
(***************************************************************************)
(* lifecyclePathTo (operations/work-item-lifecycle.ts) as the search it    *)
(* is: a queue, a visited set and a cameFrom map over the transition table *)
(* in table order.  One behaviour per pair (from, to); the run shows that  *)
(* the search returns a legal path that never jumps over the CEO's review, *)
(* exactly where there is one, and that it agrees with the closed form the *)
(* gateway modules use.                                                    *)
(***************************************************************************)
EXTENDS WorkItemLifecycle, SequencesExt

VARIABLES
    from, to,   \* the arguments
    queue,      \* the states still to expand
    visited,
    cameFrom,   \* visited state -> the state it was discovered from
    search,     \* "searching", "rebuilding", "found" or "undefined"
    path        \* the path as far as it is rebuilt

vars == <<from, to, queue, visited, cameFrom, search, path>>

Init ==
    /\ from \in WorkItemState
    /\ to \in WorkItemState
    /\ IF from = to \/ from \notin advanceableStates
       THEN queue = << >> /\ search = "undefined"
       ELSE queue = <<from>> /\ search = "searching"
    /\ path = << >>
    /\ visited = {from}
    /\ cameFrom = [s \in {} |-> from]

\* queue.shift(): discover every unvisited successor; stop on the target.
Expand ==
    /\ search = "searching"
    /\ queue # << >>
    /\ LET current == Head(queue)
           found == AdvanceSteps(current) \ visited
           came == [s \in DOMAIN cameFrom \cup found |->
                       IF s \in found THEN current ELSE cameFrom[s]]
       IN  /\ cameFrom' = came
           /\ visited' = visited \cup found
           /\ \E order \in SetToSeqs(found) :
                queue' = Tail(queue) \o order
           /\ search' = IF to \in found THEN "rebuilding" ELSE search
    /\ UNCHANGED <<from, to, path>>

\* The step the loop of the rebuilding is at: the target, then where the first of
\* the path was discovered from (none where cameFrom has no entry).
PathStep ==
    IF path = << >> THEN {to} ELSE {cameFrom[s] : s \in {Head(path)} \cap DOMAIN cameFrom}

Unshift ==
    /\ search = "rebuilding"
    /\ \E step \in PathStep \ {from} : path' = <<step>> \o path
    /\ UNCHANGED <<from, to, queue, visited, cameFrom, search>>

Return ==
    /\ search = "rebuilding"
    /\ PathStep \subseteq {from}
    /\ search' = "found"
    /\ UNCHANGED <<from, to, queue, visited, cameFrom, path>>

Exhausted ==
    /\ search = "searching"
    /\ queue = << >>
    /\ search' = "undefined"
    /\ UNCHANGED <<from, to, queue, visited, cameFrom, path>>

Next == Expand \/ Unshift \/ Return \/ Exhausted

Spec == Init /\ [][Next]_vars

-----------------------------------------------------------------------------

Done == search \in {"found", "undefined"}

\* Where the table leads without passing through Ready for CEO Review: what lies
\* in every set that holds the next states of `source' and of its own members.
WalkableStates == WorkItemState \ {"Ready for CEO Review"}
ClosedFrom(source, S) ==
    \A a \in S \cup {source}, b \in WalkableStates : lifecycleEventFor(a, b) => b \in S
Reaches(source, target) ==
    \A S \in SUBSET WalkableStates : ClosedFrom(source, S) => target \in S

\* lifecyclePathTo answers undefined exactly for a state that may not advance
\* and for a target the table does not lead to: an advance never gives up on
\* a reachable target, and never invents a transition.
UndefinedMeansUnreachable ==
    Done => ((search = "undefined")
                <=> (from = to \/ from \notin advanceableStates \/ ~Reaches(from, to)))

\* Every step of a returned path is a row of the transition table, and none of
\* them enters Ready for CEO Review: the multi-step advance cannot be used to
\* slip past the Outcome Report and the CEO's review.
PathsAreLegal ==
    search = "found" =>
        /\ path[Len(path)] = to
        /\ \A k \in 1..Len(path) :
              /\ path[k] \in WalkableStates
              /\ lifecycleEventFor(IF k = 1 THEN from ELSE path[k-1], path[k])

\* The closed form used by WorkItems is the path the search returns, for both
\* targets the gateway ever passes.
ClosedFormAgrees ==
    (Done /\ to \in advanceTargets) =>
        /\ (search = "found") <=> CanAdvance(from, to)
        /\ path = lifecyclePathTo(from, to)
=============================================================================
