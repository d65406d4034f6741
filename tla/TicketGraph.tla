------------------------------- MODULE TicketGraph -------------------------------
(***************************************************************************)
(* The graph of tickets of src/src/phase3/ticket-graph.ts: the walk that     *)
(* refuses a graph with a cycle, and the classification of its tickets by    *)
(* the live state of their issues, while those are closed, reopened and      *)
(* relabelled.                                                               *)
(***************************************************************************)
EXTENDS Integers, Sequences, FiniteSets, FiniteSetsExt

CONSTANT Ticket    \* tickets, by their issue numbers

\* What the constants must satisfy.
TicketAssumption == Ticket \subseteq Nat /\ Ticket # {}

VARIABLES
    blockedBy,  \* the tickets that block each ticket
    issue,      \* state and triage label of each issue
    walk        \* assertAcyclic: the trail, what it has left to visit, what is settled

graphVars == <<blockedBy, issue, walk>>

Label == {"ready-for-agent", "ready-for-human"}
LiveIssue == [state : {"open", "closed"}, label : Label]

\* Edges and identities are checked before: every blocker is a ticket.
GraphInit ==
    /\ blockedBy \in [Ticket -> SUBSET Ticket]
    /\ issue = [t \in Ticket |-> [state |-> "open", label |-> "ready-for-agent"]]
    /\ walk = [pc |-> "walking", trail |-> <<>>, left |-> Ticket, settled |-> {}]

--------------------------------------------------------------------------------
Current == walk.trail[Len(walk.trail)]
OnTrail(t) == \E k \in DOMAIN walk.trail : walk.trail[k].id = t

\* The walk of one more ticket, or of a blocker of the ticket it is in.
Visit(t) ==
    IF t \in walk.settled THEN walk
    ELSE IF OnTrail(t) THEN [walk EXCEPT !.pc = "refused"]
    ELSE [walk EXCEPT !.trail = Append(@, [id |-> t, left |-> blockedBy[t]])]

WalkFrom ==
    /\ walk.pc = "walking" /\ walk.trail = <<>> /\ walk.left # {}
    /\ LET t == Min(walk.left)
       IN  walk' = [Visit(t) EXCEPT !.left = @ \ {t}]
    /\ UNCHANGED <<blockedBy, issue>>

WalkInto(b) ==
    /\ walk.pc = "walking" /\ walk.trail # <<>> /\ b \in Current.left
    /\ walk' = LET visited == Visit(b)
               IN  [visited EXCEPT !.trail[Len(walk.trail)].left = @ \ {b}]
    /\ UNCHANGED <<blockedBy, issue>>

WalkBack ==
    /\ walk.pc = "walking" /\ walk.trail # <<>> /\ Current.left = {}
    /\ walk' = [walk EXCEPT !.trail = SubSeq(@, 1, Len(@) - 1),
                            !.settled = @ \cup {Current.id}]
    /\ UNCHANGED <<blockedBy, issue>>

\* parseTicketGraph returns the graph.
Accept ==
    /\ walk.pc = "walking" /\ walk.trail = <<>> /\ walk.left = {}
    /\ walk' = [walk EXCEPT !.pc = "accepted"]
    /\ UNCHANGED <<blockedBy, issue>>

\* What the live issues say, in any order of the edges.
IssueChanges(t, live) ==
    /\ walk.pc = "accepted" /\ live # issue[t]
    /\ issue' = [issue EXCEPT ![t] = live]
    /\ UNCHANGED <<blockedBy, walk>>

GraphNext ==
    \/ WalkFrom \/ WalkBack \/ Accept
    \/ \E b \in Ticket : WalkInto(b)
    \/ \E t \in Ticket, live \in LiveIssue : IssueChanges(t, live)

GraphSpec == GraphInit /\ [][GraphNext]_graphVars

--------------------------------------------------------------------------------
statusOf(t) ==
    IF issue[t].state = "closed" THEN "completed"
    ELSE IF issue[t].label = "ready-for-human" THEN "ready-for-human"
    ELSE IF \E b \in blockedBy[t] : issue[b].state # "closed" THEN "blocked"
    ELSE "ready-for-agent"

openBlockers(t) == {b \in blockedBy[t] : statusOf(b) # "completed"}

\* Mutant: only the blockers themselves are looked at.
GatesNextDoor(t) == {b \in {t} \cup openBlockers(t) : statusOf(b) = "ready-for-human"}

\* humanGatesFor: the tickets for a human among a ticket and its open blockers,
\* theirs, and so on.
humanGatesFor(t) ==
    LET gates[id \in Ticket] ==
          (IF statusOf(id) = "ready-for-human" THEN {id} ELSE {})
            \cup UNION {gates[b] : b \in openBlockers(id)}
    IN  gates[t]

nextTickets == {t \in Ticket : statusOf(t) = "ready-for-agent"}

\* classifyTicketGraph and renderGraphStatus: when no ticket is next, "only
\* human-gated work remains": every ticket that is open waits for a human who is
\* named, however long the chain of tickets between them.
OnlyHumansAreAwaited ==
    walk.pc = "accepted" /\ nextTickets = {} =>
        \A t \in Ticket : statusOf(t) # "completed" => humanGatesFor(t) # {}
================================================================================
