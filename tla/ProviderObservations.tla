---------------------------- MODULE ProviderObservations ----------------------------
(***************************************************************************)
(* The observations of one provider source: recordProviderObservation of     *)
(* src/src/operations/operations-state.ts, which groups them by status, and  *)
(* src/src/operations/provider-observation-coordinator.ts, which turns the   *)
(* incidents and recoveries it reports into Exception Notices.  Observations *)
(* arrive late, twice and from calls that overlap, and the process may die   *)
(* between the record and the notice.                                        *)
(***************************************************************************)
EXTENDS Integers, FiniteSets

CONSTANTS
    Failure,     \* statuses of a failed call
    Observer,    \* observations that may be under way together
    MaxTime,     \* bound: instants an observation may carry
    MaxFaults    \* bound: crashes

\* What the constants must satisfy.
ProviderObservationsAssumption ==
    /\ {"healthy", "stale"} \cap Failure = {}
    /\ MaxTime \in Nat /\ MaxFaults \in Nat

VARIABLES
    events,   \* provider_observation_events, by idempotency key
    group,    \* provider_observation_groups: last_observed_at and recovered_at
    notice,   \* what the Exception Notice rhythm holds of each signature
    telling,  \* the recoveries each observation has yet to tell
    faults

observationVars == <<events, group, notice, telling, faults>>

\* stale is neither healthy nor a failure: it has a group, and no notice.
Status == Failure \cup {"healthy", "stale"}
Unseen == [last |-> 0, recovered |-> 0]

ObservationInit ==
    /\ events = {}
    /\ group = [s \in Status |-> Unseen]
    /\ notice = [s \in Status |-> "none"]
    /\ telling = [o \in Observer |-> {}]
    /\ faults = 0

Seen(s) == group[s].last > 0
Open(s) == s # "healthy" /\ Seen(s) /\ group[s].recovered = 0
Fault == faults < MaxFaults /\ faults' = faults + 1

--------------------------------------------------------------------------------
\* An idempotency key is the observation and its instant: an event that is known is
\* answered with its group, and one that contradicts itself is refused.
IsNew(status, at) == [status |-> status, at |-> at] \notin events

\* Older than the group's last observation, or than its recovery.
Older(at, s) == Seen(s) /\ (at < group[s].last \/ (group[s].recovered # 0 /\ at <= group[s].recovered))

\* latestGroup, when there is one: the group observed last.  The hash that decides
\* a tie is left open.
LatestGroups ==
    IF \A s \in Status : ~Seen(s) THEN {{}}
    ELSE {{s} : s \in {t \in Status : Seen(t) /\ \A u \in Status : group[u].last <= group[t].last}}

\* Mutant: only the group of its own status makes an observation late.
DelayedInGroup(status, at, latest) == Older(at, status)

\* delayed: an observation that may not move the projection.
Delayed(status, at, latest) == Older(at, status) \/ \E s \in latest : Older(at, s)

\* The groups a healthy observation recovers.
Recovers(status, at, latest) ==
    IF status = "healthy" /\ ~ \E s \in latest : Older(at, s)
      THEN {s \in Status : Open(s) /\ group[s].last <= at}
      ELSE {}

IncidentStarts(status, at, latest) ==
    /\ status # "healthy" /\ ~Delayed(status, at, latest)
    /\ ~Seen(status) \/ group[status].recovered # 0

\* recordProviderObservation of an event that is new.
Record(status, at, latest) ==
    /\ events' = events \cup {[status |-> status, at |-> at]}
    /\ group' = [s \in Status |->
           IF s \in Recovers(status, at, latest) THEN [group[s] EXCEPT !.recovered = at]
           ELSE IF s = status /\ ~Delayed(status, at, latest)
                THEN [last |-> at, recovered |-> 0]
           ELSE group[s]]

\* admit: the claim of the signature, which an open incident holds already.
Admitted(s) == [notice EXCEPT ![s] = "open"]

\* recordRecovery: only an incident that is open recovers.
Recovered(s) == [notice EXCEPT ![s] = IF @ = "open" THEN "recovered" ELSE @]

\* observe: the record, and up to its first await the notice of the incident it
\* starts or the first recovery.
Observe(o, status, at) ==
    /\ telling[o] = {} /\ IsNew(status, at)
    /\ \E latest \in LatestGroups :
           /\ Record(status, at, latest)
           /\ LET recovered == Recovers(status, at, latest)
              IN  IF recovered # {}
                    THEN \E s \in recovered :
                           /\ notice' = Recovered(s)
                           /\ telling' = [telling EXCEPT ![o] = recovered \ {s}]
                    ELSE /\ notice' = IF status \in Failure /\ IncidentStarts(status, at, latest)
                                        THEN Admitted(status) ELSE notice
                         /\ UNCHANGED telling
    /\ UNCHANGED faults

\* The loop of the recoveries goes on when the send of the one before is over.
TellRecovery(o) ==
    /\ telling[o] # {}
    /\ \E s \in telling[o] : /\ notice' = Recovered(s)
                             /\ telling' = [telling EXCEPT ![o] = @ \ {s}]
    /\ UNCHANGED <<events, group, faults>>

\* The process dies after the record and before the notice, or in the loop.
ObservationCrash ==
    /\ Fault
    /\ \/ \E status \in Status, at \in 1..MaxTime :
             \E latest \in LatestGroups :
               /\ IsNew(status, at)
               /\ Record(status, at, latest)
       \/ (\E o \in Observer : telling[o] # {}) /\ UNCHANGED <<events, group>>
    /\ telling' = [o \in Observer |-> {}]
    /\ UNCHANGED notice

ObservationNext ==
    \/ \E o \in Observer, status \in Status, at \in 1..MaxTime : Observe(o, status, at)
    \/ \E o \in Observer : TellRecovery(o)
    \/ ObservationCrash

ObservationSpec == ObservationInit /\ [][ObservationNext]_observationVars

--------------------------------------------------------------------------------
\* However late and in whatever order they arrive, the newest observation
\* decides: when nothing is as new as a healthy one, no group is open.
HealthyClosesAll ==
    \A e \in events :
        e.status = "healthy" /\ (\A other \in events \ {e} : other.at < e.at) =>
            \A s \in Status : ~Open(s)
================================================================================
