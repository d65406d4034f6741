--------------------------- MODULE SourcesAndEffects ---------------------------
(***************************************************************************)
(* The exception notices and the other components that take things in from   *)
(* outside and have effects there, which share no state in the program, side *)
(* by side.  Each behaviour chooses one of them, and the rest stand still.   *)
(* The variables and the properties of the exception notices keep their      *)
(* names.                                                                    *)
(***************************************************************************)
EXTENDS ExceptionNotices, Integers

CONSTANTS
    Ingest, Sensitive, Retention, OrphanDays, MaxVersion, MaxDays,     \* PersonalContext
    MaxContextFaults,
    Calendar, DefaultCalendar, Event, PageSize, PageLimit, Limit,      \* ProviderReads
    DefaultLimit, MessageLimit, MaxMessages, MaxEdits,
    Call, WriteKey, Content, MaxEffects, MaxWriteFaults,               \* ProviderWrites
    Source, Planned, MaxCutoverFaults,                                 \* Cutover
    Promoter, Scopes, MaxPromotionFaults,                              \* DeploymentPromotion
    Failure, Observer, MaxTime, MaxObservationFaults,                  \* ProviderObservations
    StartTime, Reader, Change, MaxApprovals, MaxMoves,                 \* CalendarCommitments
    MaxCalendarFaults

VARIABLES
    acting,  \* the component of this behaviour
    source, ingest, rows, payload, purging, purges, day, contextFaults,
    agenda, mailbox, arrived, read, edits,
    call, own, durable, created, writeFaults,
    legacy, migrated, projected, written, taken, restored, approved, cutover, cutoverFaults,
    promotionApprovals, production, promotionEvents, promoting, overlapped, promotionFaults,
    events, group, notice, telling, observationFaults,
    event, commitment, approvals, calendarReceipts, reading, changing, moves, calendarFaults

Context == INSTANCE PersonalContext WITH MaxFaults <- MaxContextFaults, faults <- contextFaults

Reads == INSTANCE ProviderReads

Writes == INSTANCE ProviderWrites
    WITH Key <- WriteKey, MaxFaults <- MaxWriteFaults, faults <- writeFaults

Cutover == INSTANCE Cutover WITH MaxFaults <- MaxCutoverFaults, faults <- cutoverFaults

Promotion == INSTANCE DeploymentPromotion
    WITH Caller <- Promoter, MaxFaults <- MaxPromotionFaults,
         approvals <- promotionApprovals, events <- promotionEvents, faults <- promotionFaults

Observations == INSTANCE ProviderObservations
    WITH MaxFaults <- MaxObservationFaults, faults <- observationFaults

Commitments == INSTANCE CalendarCommitments
    WITH MaxFaults <- MaxCalendarFaults, receipts <- calendarReceipts, faults <- calendarFaults

ASSUME SourcesAndEffectsAssumption ==
    /\ Context!PersonalContextAssumption
    /\ Reads!ProviderReadsAssumption
    /\ Writes!ProviderWritesAssumption
    /\ Cutover!CutoverAssumption
    /\ Promotion!PromotionAssumption
    /\ Observations!ProviderObservationsAssumption
    /\ Commitments!CalendarAssumption

contextVars == <<source, ingest, rows, payload, purging, purges, day, contextFaults>>
readVars == <<agenda, mailbox, arrived, read, edits>>
writeVars == <<call, own, durable, created, writeFaults>>
cutoverVars ==
    <<legacy, migrated, projected, written, taken, restored, approved, cutover, cutoverFaults>>
promotionVars ==
    <<promotionApprovals, production, promotionEvents, promoting, overlapped, promotionFaults>>
observationVars == <<events, group, notice, telling, observationFaults>>
calendarVars ==
    <<event, commitment, approvals, calendarReceipts, reading, changing, moves, calendarFaults>>
effectVars == <<acting, vars, contextVars, readVars, writeVars, cutoverVars, promotionVars,
          observationVars, calendarVars>>

\* A component that stands still does so in one of its initial states.
EffectsInit ==
    /\ acting \in {"notices", "context", "reads", "writes", "cutover", "promotion",
                  "observations", "commitments"}
    /\ Init
    /\ Context!ContextInit
    /\ Reads!ReadInit /\ (acting # "reads" => \A c \in DOMAIN agenda : agenda[c] = {})
    /\ Writes!WritesInit
    /\ Cutover!CutoverInit
    /\ Promotion!PromotionInit
    /\ Observations!ObservationInit
    /\ Commitments!CalendarInit /\ (acting # "commitments" => event = CHOOSE s \in StartTime : TRUE)

NoticesStep ==
    /\ acting = "notices" /\ Next
    /\ UNCHANGED <<acting, contextVars, readVars, writeVars, cutoverVars, promotionVars,
                   observationVars, calendarVars>>

ContextStep ==
    /\ acting = "context" /\ Context!ContextNext
    /\ UNCHANGED <<acting, vars, readVars, writeVars, cutoverVars, promotionVars,
                   observationVars, calendarVars>>

ReadsStep ==
    /\ acting = "reads" /\ Reads!ReadNext
    /\ UNCHANGED <<acting, vars, contextVars, writeVars, cutoverVars, promotionVars,
                   observationVars, calendarVars>>

WritesStep ==
    /\ acting = "writes" /\ Writes!WritesNext
    /\ UNCHANGED <<acting, vars, contextVars, readVars, cutoverVars, promotionVars,
                   observationVars, calendarVars>>

CutoverStep ==
    /\ acting = "cutover" /\ Cutover!CutoverNext
    /\ UNCHANGED <<acting, vars, contextVars, readVars, writeVars, promotionVars,
                   observationVars, calendarVars>>

PromotionStep ==
    /\ acting = "promotion" /\ Promotion!PromotionNext
    /\ UNCHANGED <<acting, vars, contextVars, readVars, writeVars, cutoverVars,
                   observationVars, calendarVars>>

ObservationsStep ==
    /\ acting = "observations" /\ Observations!ObservationNext
    /\ UNCHANGED <<acting, vars, contextVars, readVars, writeVars, cutoverVars, promotionVars,
                   calendarVars>>

CommitmentsStep ==
    /\ acting = "commitments" /\ Commitments!CalendarNext
    /\ UNCHANGED <<acting, vars, contextVars, readVars, writeVars, cutoverVars, promotionVars,
                   observationVars>>

EffectsNext ==
    \/ NoticesStep \/ ContextStep \/ ReadsStep \/ WritesStep \/ CutoverStep \/ PromotionStep
    \/ ObservationsStep \/ CommitmentsStep

EffectsSpec == EffectsInit /\ [][EffectsNext]_effectVars

-----------------------------------------------------------------------------
\* personal-context-ingestion.ts: a payload is there until it is due, and stays
\* gone once its purge is recorded.
PayloadsFollowTheirRows == Context!PayloadsFollowTheirRows

\* google-calendar-adapter.ts: a part of an agenda is never answered as the whole.
AgendaIsWhole == Reads!AgendaIsWhole

\* real-ming-tools.ts: a reference that is answered refers to what was asked for.
AnswersAreTrue == Writes!AnswersAreTrue

\* master-tasks-cutover.ts: no source is retired twice.
NothingIsRetiredTwice == Cutover!NothingIsRetiredTwice

\* deployment-promotion.ts: production serves what the latest event calls verified,
\* unless two calls overlapped.
VerifiedIsLive == Promotion!VerifiedIsLive

\* operations-state.ts, recordProviderObservation: the newest observation decides,
\* in whatever order they arrive.
HealthyClosesAll == Observations!HealthyClosesAll

\* calendar-reconciliation.ts: no reconciliation replaces a date of the CEO.
CeoDateIsKept == Commitments!CeoDateIsKept
=============================================================================
