--------------------------- MODULE ExceptionNotices ---------------------------
(***************************************************************************)
(* Exception Notices on their way to the CEO's Telegram chat: grouping by  *)
(* signature, holding over do-not-disturb, the delivery outbox with its    *)
(* bounded retries, recovery notices (operations/exception-notice-rhythm,  *)
(* operations-state, telegram/telegram-front-door, and the supervisor that *)
(* drives the sweeps in runtime/daily-operations-control-plane).           *)
(*                                                                         *)
(* Handlers of the loopback gateway and the sweeps of the supervisor share *)
(* one process and interleave where they await the transport; the tables   *)
(* survive a crash, the calls do not.  Left out: the text of a notice, the *)
(* weekend stand-down (which changes nothing), the occurrence counter, and *)
(* notices of the one kind the front door stands down, routine progress.   *)
(***************************************************************************)
EXTENDS Naturals, FiniteSets, Functions

CONSTANTS
    Signature,      \* incidents: what repeated identical errors share
    Key,            \* idempotency keys of notices
    SigOf,          \* Key -> Signature, or NoSignature: reports, recovery notices
    NoSignature,
    Caller,         \* concurrent requests that raise and clear incidents
    OwnsTelegram,   \* telegramOwnership: the control plane polls Telegram itself
    MaxAttempts,    \* sends of one notice, 3 in the code
    ReleaseBatch,   \* releaseBatchLimit: held notices of one sweep, 50 in the code
    MaxArrivals,    \* bound: arrivals of one notice that are told apart
    MaxCrashes      \* bound: process crashes

ASSUME SignatureAssumption ==
    NoSignature \notin Signature /\ SigOf \in [Key -> Signature \cup {NoSignature}]
ASSUME NoticeBounds ==
    /\ MaxAttempts \in Nat \ {0} /\ ReleaseBatch \in Nat \ {0}
    /\ MaxArrivals \in Nat \ {0, 1} /\ MaxCrashes \in Nat
ASSUME SweepsAreNoCallers == {"release", "retry"} \cap Caller = {}
ASSUME OwnershipAssumption == OwnsTelegram \in BOOLEAN

VARIABLES
    groups,     \* exception_notice_groups: "none", "open" or "recovered"
    deliveries, \* exception_notice_deliveries: one row per signature
    held,       \* held_exception_notices; "due" once the quiet hours have ended
    ahead,      \* the held notices before each of them, by release_at and rowid
    outbox,     \* telegram_delivery_outbox
    calls,      \* what is awaiting a send: requests and the two sweeps
    reached,    \* how often each notice arrived in the CEO's chat
    quiet,      \* the do-not-disturb window
    spent,      \* keys of incidents that are over; a new incident has new ones
    crashes

tables == <<groups, deliveries, held, ahead, outbox>>
vars == <<groups, deliveries, held, ahead, outbox, calls, reached, quiet, spent, crashes>>

Sweep == {"release", "retry"}
Process == Caller \cup Sweep

NoDelivery == [state |-> "none"]
Delivery == [state : {"held", "pending", "delivered", "cancelled"}, key : Key]

NoRow == [state |-> "none", retryable |-> FALSE, attempts |-> 0]
OutboxRow == [state : {"none", "in-flight", "sent", "failed", "uncertain", "cancelled"},
              retryable : BOOLEAN, attempts : 0..MaxAttempts]

Idle == [phase |-> "idle"]
Outcome == {"sent", "retryable", "final", "thrown"}
Sending == [phase : {"sending"}, key : Key, todo : SUBSET Key, arrived : BOOLEAN]
Sweeping == [phase : {"next"}, todo : SUBSET Key]

-----------------------------------------------------------------------------
\* The delivery outbox (claimTelegramDelivery and its companions)

RetriesForever(row) == row.retryable
Retryable(row) == row.retryable /\ row.attempts < MaxAttempts

telegramDeliveryStatus(k) ==
    LET row == outbox[k]
    IN  CASE row.state = "none" -> "missing"
          [] row.state = "failed" -> IF Retryable(row) THEN "pending" ELSE "terminal"
          [] OTHER -> row.state

\* A row that claimTelegramDelivery lets its caller send: any row but a sent,
\* in-flight, uncertain or terminal one, so a cancelled one too.
SendableAgain(row) ==
    \/ row.state \in {"none", "in-flight"}
    \/ row.state \in {"failed", "cancelled"} /\ Retryable(row)
Sendable(row) ==
    \/ row.state = "none"
    \/ row.state \in {"failed", "cancelled"} /\ Retryable(row)

ClaimedUncounted(row) ==
    IF row.state = "cancelled" THEN row
    ELSE [row EXCEPT !.state = "in-flight", !.retryable = FALSE]

\* The claim; the UPDATE matches failed rows only.
ClaimedRow(row) ==
    IF row.state = "cancelled" THEN row
    ELSE [state |-> "in-flight", retryable |-> FALSE, attempts |-> row.attempts + 1]

\* What the claim may answer: "sending", or the result of a send it refuses.  A
\* provider's retry-after defers a retry.
ClaimAnswers(row) ==
    CASE row.state = "none" -> {"sending"}
      [] row.state # "none" /\ Sendable(row) -> {"sending", "retryable"}
      [] row.state # "none" /\ ~Sendable(row) ->
            {IF row.state = "sent" THEN "sent" ELSE "final"}

Claimed(k, answer) ==
    IF answer = "sending" THEN [outbox EXCEPT ![k] = ClaimedRow(@)] ELSE outbox

\* completeTelegramDelivery and failTelegramDelivery write the outcome to an
\* in-flight row and throw for any other.
SettledRow(row, outcome) ==
    CASE outcome = "sent" -> [row EXCEPT !.state = "sent"]
      [] outcome = "retryable" ->
            [row EXCEPT !.state = "failed", !.retryable = TRUE]
      [] outcome = "final" -> [row EXCEPT !.state = "failed"]
      [] outcome = "thrown" -> [row EXCEPT !.state = "uncertain"]

Send(k, todo) == [phase |-> "sending", key |-> k, todo |-> todo, arrived |-> FALSE]

\* markExceptionNoticeDeliveryByIdempotency
Marked(k, state) ==
    [s \in Signature |->
        IF deliveries[s] # NoDelivery /\ deliveries[s].key = k
        THEN [deliveries[s] EXCEPT !.state = state] ELSE deliveries[s]]

-----------------------------------------------------------------------------

Init ==
    /\ groups = [s \in Signature |-> "none"]
    /\ deliveries = [s \in Signature |-> NoDelivery]
    /\ held = [k \in Key |-> "none"]
    /\ ahead = [k \in Key |-> {}]
    /\ outbox = [k \in Key |-> NoRow]
    /\ calls = [p \in Process |-> Idle]
    /\ reached = [k \in Key |-> 0]
    /\ quiet = FALSE
    /\ spent = {}
    /\ crashes = 0

(***************************************************************************)
(* admit.  A repeated error joins the open group, unless the notice of the *)
(* group can no longer be delivered; only a notice that opens the group    *)
(* goes on, to the held notices or to the transport.                       *)
(***************************************************************************)
Reopens(s) ==
    /\ deliveries[s] # NoDelivery
    /\ deliveries[s].state \notin {"held", "delivered"}
    /\ telegramDeliveryStatus(deliveries[s].key) \in {"missing", "terminal", "cancelled"}

Opens(k) ==
    SigOf[k] # NoSignature =>
        /\ k \notin spent
        /\ (groups[SigOf[k]] # "open" \/ Reopens(SigOf[k]))

Opened(k) ==
    IF SigOf[k] = NoSignature THEN groups ELSE [groups EXCEPT ![SigOf[k]] = "open"]

HeldInName(k) == held
\* holdExceptionNotice: a row that is still held is left as it is.
Hold(k) == [held EXCEPT ![k] = IF @ \in {"none", "released"} THEN "held" ELSE @]

Recorded(k, state) ==
    IF SigOf[k] = NoSignature THEN deliveries
    ELSE [deliveries EXCEPT ![SigOf[k]] = [state |-> state, key |-> k]]

\* What is recorded for the signature once the fate of the notice is known.
AdmissionState(outcome) ==
    CASE outcome = "sent" -> "delivered"
      [] outcome = "retryable" -> "pending"
      [] outcome = "final" -> "cancelled"

admitHeld(c, k) ==
    /\ calls[c] = Idle
    /\ Opens(k)
    /\ quiet
    /\ groups' = Opened(k)
    /\ held' = Hold(k)
    /\ deliveries' = Recorded(k, "held")
    /\ UNCHANGED <<ahead, outbox, calls, reached, quiet, spent, crashes>>

admitSent(c, k, bypasses) ==
    /\ calls[c] = Idle
    /\ Opens(k)
    /\ ~quiet \/ bypasses
    /\ groups' = Opened(k)
    /\ \E answer \in ClaimAnswers(outbox[k]) :
          /\ outbox' = Claimed(k, answer)
          /\ IF answer = "sending"
             THEN calls' = [calls EXCEPT ![c] = Send(k, {})] /\ UNCHANGED deliveries
             ELSE deliveries' = Recorded(k, AdmissionState(answer)) /\ UNCHANGED calls
    /\ UNCHANGED <<held, ahead, reached, quiet, spent, crashes>>

(***************************************************************************)
(* recordRecovery.  A notice that did not reach the CEO is cancelled; one  *)
(* that did, or may have, is followed by a recovery notice under key k.    *)
(***************************************************************************)
CountsAsDelivered(s) ==
    deliveries[s] # NoDelivery =>
        (deliveries[s].state = "delivered"
            \/ telegramDeliveryStatus(deliveries[s].key) \in {"sent", "in-flight", "uncertain"})

Recovered(s) == [groups EXCEPT ![s] = "recovered"]

BeingSent(k) == \E p \in Process : calls[p].phase = "sending" /\ calls[p].key = k

Raised(k) == held[k] # "none" \/ outbox[k] # NoRow \/ BeingSent(k)
RaisedFor(s) == {k \in Key : SigOf[k] = s /\ Raised(k)}

recoverSilently(s) ==
    LET k == deliveries[s].key
    IN  /\ groups[s] = "open"
        /\ ~CountsAsDelivered(s)
        /\ groups' = Recovered(s)
        /\ outbox' = IF outbox[k].state \in {"failed", "in-flight"}
                     THEN [outbox EXCEPT ![k].state = "cancelled"] ELSE outbox
        /\ held' = [held EXCEPT ![k] = IF @ \in {"held", "due"} THEN "released" ELSE @]
        /\ deliveries' = [Marked(k, "cancelled") EXCEPT ![s].state = "cancelled"]
        /\ spent' = spent \cup RaisedFor(s)
        /\ UNCHANGED <<ahead, calls, reached, quiet, crashes>>

recoverAnnounced(c, s, k) ==
    /\ calls[c] = Idle
    /\ groups[s] = "open"
    /\ CountsAsDelivered(s)
    /\ SigOf[k] = NoSignature
    /\ groups' = Recovered(s)
    /\ deliveries' = IF deliveries[s] = NoDelivery THEN deliveries
                     ELSE [deliveries EXCEPT ![s].state = "delivered"]
    /\ \/ quiet /\ held' = Hold(k) /\ UNCHANGED <<calls, outbox>>
       \/ /\ ~quiet
          /\ \E answer \in ClaimAnswers(outbox[k]) :
                /\ outbox' = Claimed(k, answer)
                /\ calls' = IF answer = "sending" THEN [calls EXCEPT ![c] = Send(k, {})]
                            ELSE calls
          /\ UNCHANGED held
    /\ spent' = spent \cup RaisedFor(s)
    /\ UNCHANGED <<ahead, reached, quiet, crashes>>

-----------------------------------------------------------------------------
\* The sweeps take a snapshot of their rows, then send one after the other.

Due == {k \in Key : held[k] = "due"}

\* What a sweep takes: the due notices with fewer than ReleaseBatch of them ahead.
LatestDueExceptionNotices ==
    {k \in Due : Cardinality({l \in Due : k \in ahead[l]}) < ReleaseBatch}
dueHeldExceptionNotices == {k \in Due : Cardinality(ahead[k] \cap Due) < ReleaseBatch}

pendingTelegramDeliveries == {k \in Key : telegramDeliveryStatus(k) = "pending"}

Rest(todo) == IF todo = {} THEN Idle ELSE [phase |-> "next", todo |-> todo]

Start(p, rows) ==
    /\ calls[p] = Idle
    /\ rows # {}
    /\ calls' = [calls EXCEPT ![p] = Rest(rows)]
    /\ UNCHANGED <<tables, reached, quiet, spent, crashes>>

\* telegramUncertainDeliveryCount, compared with zero
Unresolved == \E k \in Key : outbox[k].state \in {"in-flight", "uncertain"}

\* The daily schedule of a cycle comes after the retries.  Where another process
\* owns the Telegram consumer the two share one attempt, and the retries throw
\* as long as any delivery is unresolved.
releaseHeld ==
    /\ calls["retry"] = Idle
    /\ OwnsTelegram \/ ~Unresolved
    /\ Start("release", dueHeldExceptionNotices)

retryPendingDeliveries == Start("retry", pendingTelegramDeliveries)

\* One round of releaseHeld: a delivered notice is released, a failed one stays
\* held, an exception is caught.
ReleasesAnyway(k, outcome) ==
    [held EXCEPT ![k] = IF @ \in {"held", "due"} THEN "released" ELSE @]
Released(k, outcome) ==
    [held EXCEPT ![k] = IF outcome = "sent" /\ @ \in {"held", "due"} THEN "released" ELSE @]

ReleaseMark(k, outcome) ==
    CASE outcome = "sent" -> Marked(k, "delivered")
      [] outcome \in {"retryable", "final"} -> Marked(k, "pending")
      [] outcome = "thrown" -> deliveries

\* What follows the outcome of one send: the end of admit, a round of the held
\* sweep, or a round of the retries, which an exception ends.
After(p, k, outcome, todo) ==
    \/ /\ p \in Caller
       /\ deliveries' = IF outcome = "thrown" THEN deliveries
                        ELSE Recorded(k, AdmissionState(outcome))
       /\ calls' = [calls EXCEPT ![p] = Idle]
       /\ UNCHANGED held
    \/ /\ p = "release"
       /\ held' = Released(k, outcome)
       /\ deliveries' = ReleaseMark(k, outcome)
       /\ calls' = [calls EXCEPT ![p] = Rest(todo)]
    \/ /\ p = "retry"
       /\ calls' = [calls EXCEPT ![p] = Rest(IF outcome = "thrown" THEN {} ELSE todo)]
       /\ UNCHANGED <<held, deliveries>>

\* A sweep goes on to its next row.
sweepClaims(p) ==
    /\ calls[p].phase = "next"
    /\ LET k == CHOOSE x \in calls[p].todo : TRUE
           todo == calls[p].todo \ {k}
       IN  \E answer \in ClaimAnswers(outbox[k]) :
             /\ outbox' = Claimed(k, answer)
             /\ \/ /\ answer = "sending"
                   /\ calls' = [calls EXCEPT ![p] = Send(k, todo)]
                   /\ UNCHANGED <<held, deliveries>>
                \/ answer # "sending" /\ After(p, k, answer, todo)
    /\ UNCHANGED <<groups, ahead, reached, quiet, spent, crashes>>

-----------------------------------------------------------------------------
\* sendDurably after its await

\* The message arrives; the process has not been answered yet.
Arrives(p) ==
    /\ calls[p].phase = "sending"
    /\ ~calls[p].arrived
    /\ reached[calls[p].key] < MaxArrivals
    /\ reached' = [reached EXCEPT ![calls[p].key] = @ + 1]
    /\ calls' = [calls EXCEPT ![p].arrived = TRUE]
    /\ UNCHANGED <<tables, quiet, spent, crashes>>

\* What the transport may answer.  A status of Telegram's own is definite; a
\* timeout or a broken connection is reported as a final failure, or thrown,
\* whether or not the message arrived.
Outcomes(arrived) ==
    IF arrived THEN {"sent", "final", "thrown"} ELSE {"retryable", "final", "thrown"}

Settled(k, outcome) ==
    IF outbox[k].state = "in-flight"
    THEN [outbox EXCEPT ![k] = SettledRow(@, outcome)] ELSE outbox

\* The transport's own exception becomes a final failure; the one of a row that
\* is no longer in flight reaches the caller.
Surfaces(k, outcome) ==
    IF outbox[k].state # "in-flight" THEN "thrown"
    ELSE IF outcome = "thrown" THEN "final" ELSE outcome

transportAnswers(p, outcome) ==
    LET call == calls[p]
    IN  /\ call.phase = "sending"
        /\ outcome \in Outcomes(call.arrived)
        /\ outbox' = Settled(call.key, outcome)
        /\ After(p, call.key, Surfaces(call.key, outcome), call.todo)
        /\ UNCHANGED <<groups, ahead, reached, quiet, spent, crashes>>

-----------------------------------------------------------------------------

QuietBegins ==
    /\ ~quiet
    /\ quiet' = TRUE
    /\ UNCHANGED <<tables, calls, reached, spent, crashes>>

\* The notices of this window come after those that are due already; among
\* themselves they keep the order in which their rows were first written.
QuietEnds ==
    /\ quiet
    /\ quiet' = FALSE
    /\ held' = [k \in Key |-> IF held[k] = "held" THEN "due" ELSE held[k]]
    /\ LET new == {k \in Key : held[k] = "held"}
       IN  \E place \in Injection(new, 1 .. Cardinality(new)) :
             ahead' = [k \in Key |->
                         CASE held[k] = "held" -> Due \cup {l \in new : place[l] < place[k]}
                           [] held[k] = "due"  -> ahead[k] \cap Due
                           [] OTHER            -> {}]
    /\ UNCHANGED <<groups, deliveries, outbox, calls, reached, spent, crashes>>

CrashLosesCalls ==
    /\ crashes < MaxCrashes
    /\ crashes' = crashes + 1
    /\ calls' = [p \in Process |-> Idle]
    /\ UNCHANGED <<held, ahead, deliveries, reached, quiet>>

\* The process dies; possibly between the statement that opens or closes a
\* group and the ones that follow it.
Crash ==
    /\ CrashLosesCalls
    /\ \/ UNCHANGED groups
       \/ \E k \in Key : Opens(k) /\ groups' = Opened(k)
       \/ \E s \in Signature : groups[s] = "open" /\ groups' = Recovered(s)
    /\ spent' = spent \cup UNION {RaisedFor(s) : s \in {t \in Signature : groups'[t] = "recovered"}}
    /\ UNCHANGED outbox

\* The process dies after the outbox recorded an outcome, before its caller
\* took note of it.
CrashAfterAnswer(p, outcome) ==
    /\ CrashLosesCalls
    /\ calls[p].phase = "sending"
    /\ outcome \in Outcomes(calls[p].arrived)
    /\ outbox' = Settled(calls[p].key, outcome)
    /\ UNCHANGED <<groups, spent>>

Requests ==
    \E c \in Caller, k \in Key :
        \/ admitHeld(c, k)
        \/ \E bypasses \in BOOLEAN : admitSent(c, k, bypasses)
        \/ \E s \in Signature : recoverAnnounced(c, s, k)

Answers(p) == \E outcome \in Outcome : transportAnswers(p, outcome)

Sends ==
    \/ \E p \in Sweep : sweepClaims(p)
    \/ \E p \in Process : Arrives(p) \/ Answers(p)

Next ==
    \/ Requests
    \/ \E s \in Signature : recoverSilently(s)
    \/ releaseHeld
    \/ retryPendingDeliveries
    \/ Sends
    \/ QuietBegins \/ QuietEnds
    \/ Crash
    \/ \E p \in Process, outcome \in Outcome : CrashAfterAnswer(p, outcome)

Spec == Init /\ [][Next]_vars

RetrySends(k) ==
    /\ sweepClaims("retry")
    /\ outbox[k].state = "failed" /\ outbox'[k].state = "in-flight"

releaseHeldSteps == releaseHeld \/ sweepClaims("release") \/ Answers("release")
retrySteps == retryPendingDeliveries \/ sweepClaims("retry") \/ Answers("retry")

\* The supervisor keeps running its cycles, the schedule claims its release job
\* every day, requests to Telegram time out, and a retry-after passes at last.
FairSpec ==
    /\ Spec
    /\ \A c \in Caller : WF_vars(Answers(c))
    /\ WF_vars(releaseHeldSteps) /\ WF_vars(retrySteps)
    /\ \A k \in Key : SF_vars(RetrySends(k))

-----------------------------------------------------------------------------

TypeOK ==
    /\ groups \in [Signature -> {"none", "open", "recovered"}]
    /\ deliveries \in [Signature -> {NoDelivery} \cup Delivery]
    /\ held \in [Key -> {"none", "held", "due", "released"}]
    /\ ahead \in [Key -> SUBSET Key]
    /\ outbox \in [Key -> OutboxRow]
    /\ calls \in [Process -> {Idle} \cup Sending \cup Sweeping]
    /\ reached \in [Key -> 0..MaxArrivals]
    /\ quiet \in BOOLEAN
    /\ spent \subseteq Key
    /\ crashes \in 0..MaxCrashes

\* A notice arrives at most once, whoever tries to send it: the request that
\* raised it, a retry of the outbox, the morning's release, before or after a
\* crash.  (A notice called off by a recovery is another matter: a sweep that
\* took its snapshot before may still send it.)
ArrivesOnce == \A k \in Key : outbox[k].state # "cancelled" => reached[k] <= 1

\* The refinement mapping: what the outbox lets its callers know of a notice.
MailOf(row) ==
    CASE row.state = "in-flight" -> "sending"
      [] row.state = "sent" -> "sent"
      [] row.state = "cancelled" -> "called off"
      [] row.state = "none" \/ (row.state = "failed" /\ Retryable(row)) -> "unsent"
      [] OTHER -> "abandoned"
mailBar == [k \in Key |-> MailOf(outbox[k])]
triesBar == [k \in Key |-> outbox[k].attempts]

Outbox == INSTANCE DurableDelivery WITH mail <- mailBar, tries <- triesBar, arrivals <- reached

\* The outbox keeps its promise whoever sends, through quiet hours, retries, the
\* morning's release, recoveries and crashes: at most MaxAttempts sends of a notice,
\* and of those at most one arrives.
ImplementsDurableDelivery == Outbox!Spec

\* A notice is held, never dropped: it leaves the held ones only after it
\* arrived, or because the incident it announces is over.
HeldIsNeverDropped ==
    [][\A k \in Key :
          (held[k] \in {"held", "due"} /\ held'[k] = "released")
             => \/ reached[k] > 0
                \/ SigOf[k] # NoSignature /\ groups'[SigOf[k]] = "recovered"]_vars

\* An open incident is never a silent one, while no crash interferes and no late
\* answer has put the record of an earlier incident in the place of its own: its
\* notice arrived or may have, waits to be released or retried, is being sent,
\* or the next occurrence sends another.
OpenIncidentIsAnnounced ==
    \A s \in Signature :
        (/\ groups[s] = "open" /\ crashes = 0
         /\ deliveries[s] # NoDelivery => deliveries[s].key \notin spent)
        => \/ \E c \in Caller : calls[c].phase = "sending" /\ SigOf[calls[c].key] = s
           \/ Reopens(s)
           \/ /\ deliveries[s] # NoDelivery
              /\ \/ reached[deliveries[s].key] > 0
                 \/ held[deliveries[s].key] \in {"held", "due"}
                 \/ telegramDeliveryStatus(deliveries[s].key)
                       \in {"pending", "in-flight", "uncertain"}

Waits(k) == held[k] = "due" /\ outbox[k].state = "none"

\* Behind a whole batch of due notices none of which can be sent any more.
Starved(k) ==
    LET stuck == {l \in Due : telegramDeliveryStatus(l) \notin {"missing", "pending", "sent"}}
    IN  Cardinality(ahead[k] \cap stuck) >= ReleaseBatch

\* Every notice that waits for the morning is taken up by a sweep, in spite of
\* notices that fail over and over before it and of deliveries that a crash left
\* unresolved, while the control plane polls Telegram itself: only a full batch of
\* notices that can never be sent keeps it waiting for good.
DueIsTakenUp == \A k \in Key : <>[]Waits(k) => <>[]Starved(k)

\* A delivery that failed and may be retried comes to an end: it is sent, given up
\* or called off, unless a crash leaves it in flight with nobody to finish it.
RetriesEnd ==
    \A k \in Key :
        telegramDeliveryStatus(k) = "pending"
            ~> \/ telegramDeliveryStatus(k) \in {"sent", "terminal", "uncertain", "cancelled"}
               \/ telegramDeliveryStatus(k) = "in-flight" /\ ~BeingSent(k)

-----------------------------------------------------------------------------
\* What the comments say and the code does not do.

\* "Groups repeated identical errors into one notice until they recover": two
\* notices of one incident do not both arrive.
OneNoticePerIncident ==
    \A k, l \in Key :
        (k # l /\ SigOf[k] = SigOf[l] /\ SigOf[k] # NoSignature /\ {k, l} \cap spent = {})
            => ~(reached[k] > 0 /\ reached[l] > 0)

\* "Held, never dropped: stored durably and delivered when the window ends.": a
\* notice that is due is sent, or is released without it.
HeldIsDelivered ==
    \A k \in Key : held[k] = "due" ~> (outbox[k].state # "none" \/ held[k] = "released")

\* "They share a process but must not share a fate": trouble with deliveries to
\* Telegram does not keep the daily schedule, here its release of the held
\* notices, from running.
TelegramSparesTheSchedule == \A k \in Key : Waits(k) ~> ~Waits(k)
=============================================================================
