------------------------ MODULE ExceptionNoticesProofs ------------------------
(***************************************************************************)
(* Theorems about ExceptionNotices, for every set of incidents, notices    *)
(* and requests and every number of attempts and crashes.  The inductive   *)
(* invariant says what a row of the outbox tells about the message: who    *)
(* may be sending it, and whether it may have arrived.                     *)
(***************************************************************************)
EXTENDS ExceptionNotices, TLAPS

\* A message is being sent only while its row is in flight, or after a recovery
\* called it off; a row in flight has one sender, which sends for the first time
\* that could arrive.
SendersOwnTheirRow ==
    \A p \in Process : calls[p].phase = "sending" =>
        /\ outbox[calls[p].key].state \in {"in-flight", "cancelled"}
        /\ calls[p].arrived => reached[calls[p].key] > 0
        /\ outbox[calls[p].key].state = "in-flight" =>
              /\ ~calls[p].arrived => reached[calls[p].key] = 0
              /\ \A q \in Process :
                    (calls[q].phase = "sending" /\ calls[q].key = calls[p].key) => q = p

\* What a row tells about the arrival of its message.
TellsArrival(row, arrivals) ==
    /\ row.state = "none" => ~row.retryable /\ row.attempts = 0 /\ arrivals = 0
    /\ row.state = "in-flight" => ~row.retryable
    /\ row.state = "failed" /\ row.retryable => arrivals = 0
    /\ row.state = "sent" => arrivals > 0
    /\ row.state # "cancelled" => arrivals <= 1

RowsTellArrival == \A k \in Key : TellsArrival(outbox[k], reached[k])

\* A sweep that goes on has a row to go on with.
SweepsHaveRows ==
    \A p \in Process : calls[p].phase = "next" => calls[p].todo # {}

\* The delivery recorded for an incident is one of its own notices.
DeliveriesAreTheirOwn ==
    \A s \in Signature : deliveries[s] # NoDelivery => SigOf[deliveries[s].key] = s

OutboxInv == SendersOwnTheirRow /\ RowsTellArrival

IInv == TypeOK /\ OutboxInv /\ SweepsHaveRows /\ DeliveriesAreTheirOwn

-----------------------------------------------------------------------------
\* The outbox

\* What is awaiting a send, or the next row of a sweep, is a record of its kind.
LEMMA CallTypes ==
    ASSUME TypeOK, NEW p \in Process
    PROVE  /\ calls[p].phase = "sending" =>
                 /\ calls[p] \in Sending /\ calls[p].key \in Key
                 /\ calls[p].todo \subseteq Key /\ calls[p].arrived \in BOOLEAN
           /\ calls[p].phase = "next" => calls[p] \in Sweeping /\ calls[p].todo \subseteq Key
           /\ calls[p].phase = "idle" => calls[p] = Idle
<1>1. calls[p] \in {Idle} \cup Sending \cup Sweeping
  BY DEF TypeOK
<1>2. CASE calls[p] = Idle
  BY <1>2 DEF Idle
<1>3. CASE calls[p] \in Sending
  BY <1>3 DEF Sending
<1>4. CASE calls[p] \in Sweeping
  BY <1>4 DEF Sweeping
<1> QED
  BY <1>1, <1>2, <1>3, <1>4

LEMMA IdleIsNotSending == Idle.phase = "idle"
  BY DEF Idle

\* A step that leaves the outbox and the chat alone and starts no send.
LEMMA NoSendStep ==
    ASSUME OutboxInv, UNCHANGED <<outbox, reached>>,
           \A p \in Process : calls'[p].phase = "sending" => calls'[p] = calls[p]
    PROVE  OutboxInv'
  BY DEF OutboxInv, SendersOwnTheirRow, RowsTellArrival

\* claimTelegramDelivery gives a row in flight to the one caller it lets send;
\* a row it lets send again has not arrived.
LEMMA ClaimStep ==
    ASSUME TypeOK, OutboxInv, NEW p \in Process, calls[p].phase # "sending",
           NEW k \in Key, NEW answer \in ClaimAnswers(outbox[k]),
           outbox' = Claimed(k, answer), UNCHANGED reached,
           NEW call, calls' = [calls EXCEPT ![p] = call],
           \/ answer = "sending" /\ \E todo \in SUBSET Key : call = Send(k, todo)
           \/ answer # "sending" /\ call.phase # "sending"
    PROVE  OutboxInv' /\ outbox' \in [Key -> OutboxRow]
<1> DEFINE row == outbox[k]
<1>1. /\ outbox \in [Key -> OutboxRow] /\ row \in OutboxRow
      /\ reached \in [Key -> 0..MaxArrivals] /\ reached[k] \in Nat
      /\ calls \in [Process -> {Idle} \cup Sending \cup Sweeping]
  BY NoticeBounds DEF TypeOK
<1>2. CASE answer # "sending"
  <2>1. UNCHANGED outbox
    BY <1>2 DEF Claimed
  <2>2. \A q \in Process : calls'[q].phase = "sending" => calls'[q] = calls[q]
    BY <1>1, <1>2
  <2> QED
    BY <1>1, <2>1, <2>2, NoSendStep
<1>3. CASE answer = "sending"
  <2>1. PICK todo \in SUBSET Key : call = Send(k, todo)
    BY <1>3
  <2>2. /\ calls'[p].phase = "sending" /\ calls'[p].key = k /\ ~calls'[p].arrived
        /\ \A q \in Process : q # p => calls'[q] = calls[q]
    BY <1>1, <2>1 DEF Send
  <2>3. /\ Sendable(row)
        /\ outbox' = [outbox EXCEPT ![k] = ClaimedRow(row)]
    BY <1>3 DEF ClaimAnswers, Claimed, Sendable
  <2>4. TellsArrival(row, reached[k])
    BY DEF OutboxInv, RowsTellArrival
  <2>5. /\ row.state # "cancelled" =>
              /\ row.state \in {"none", "failed"} /\ reached[k] = 0
              /\ row.attempts < MaxAttempts
        /\ row.state \in {"none", "failed", "cancelled"}
    BY <1>1, <2>3, <2>4, NoticeBounds DEF Sendable, Retryable, TellsArrival
  <2>6. /\ ClaimedRow(row) \in OutboxRow
        /\ row.state = "cancelled" => ClaimedRow(row) = row
        /\ row.state # "cancelled" =>
              ClaimedRow(row).state = "in-flight" /\ ~ClaimedRow(row).retryable
    <3>1. CASE row.state = "cancelled"
      BY <1>1, <3>1 DEF ClaimedRow
    <3>2. CASE row.state # "cancelled"
      <4>1. row.attempts \in Nat /\ row.attempts + 1 \in 0..MaxAttempts
        BY <1>1, <2>5, <3>2, NoticeBounds DEF OutboxRow
      <4> QED
        BY <3>2, <4>1 DEF ClaimedRow, OutboxRow
    <3> QED
      BY <3>1, <3>2
  <2> DEFINE claimed == ClaimedRow(row)
  <2>7. /\ outbox'[k] = claimed
        /\ \A l \in Key : l # k => outbox'[l] = outbox[l]
    BY <1>1, <2>3
  <2> HIDE DEF row, claimed
  <2>8. row = outbox[k] /\ claimed = ClaimedRow(row)
    BY DEF row, claimed
  <2>9. RowsTellArrival'
    <3> SUFFICES ASSUME NEW l \in Key PROVE TellsArrival(outbox'[l], reached[l])
      BY DEF RowsTellArrival, TellsArrival
    <3>1. CASE l # k
      BY <2>7, <3>1 DEF OutboxInv, RowsTellArrival
    <3>2. CASE l = k
      BY <2>4, <2>5, <2>6, <2>7, <2>8, <3>2 DEF TellsArrival
    <3> QED
      BY <3>1, <3>2
  <2>10. SendersOwnTheirRow'
    <3>1. \A q \in Process : (q # p /\ calls[q].phase = "sending") =>
             (calls[q].key = k => row.state = "cancelled" /\ outbox'[k] = row)
      BY <2>5, <2>6, <2>7, <2>8 DEF OutboxInv, SendersOwnTheirRow
    <3> SUFFICES ASSUME NEW q \in Process, calls'[q].phase = "sending"
                 PROVE /\ outbox'[calls'[q].key].state \in {"in-flight", "cancelled"}
                       /\ calls'[q].arrived => reached[calls'[q].key] > 0
                       /\ outbox'[calls'[q].key].state = "in-flight" =>
                             /\ ~calls'[q].arrived => reached[calls'[q].key] = 0
                             /\ \A r \in Process :
                                   (calls'[r].phase = "sending"
                                      /\ calls'[r].key = calls'[q].key) => r = q
      BY DEF SendersOwnTheirRow
    <3>2. CASE q = p
      <4>1. outbox'[k].state \in {"in-flight", "cancelled"}
        BY <2>6, <2>7, <2>8
      <4>2. ASSUME outbox'[k].state = "in-flight"
            PROVE  /\ reached[k] = 0
                   /\ \A r \in Process :
                         (calls'[r].phase = "sending" /\ calls'[r].key = k) => r = p
        <5>1. row.state # "cancelled"
          BY <2>6, <2>7, <2>8, <4>2
        <5> QED
          BY <2>2, <2>5, <3>1, <5>1
      <4> QED
        BY <2>2, <3>2, <4>1, <4>2
    <3>3. CASE q # p
      <4>1. calls'[q] = calls[q] /\ calls[q].phase = "sending" /\ calls[q].key \in Key
        BY <2>2, <3>3, CallTypes
      <4>2. CASE calls[q].key = k
        BY <2>8, <3>1, <3>3, <4>1, <4>2 DEF OutboxInv, SendersOwnTheirRow
      <4>3. CASE calls[q].key # k
        <5>1. outbox'[calls[q].key] = outbox[calls[q].key]
          BY <2>7, <4>1, <4>3
        <5>2. \A r \in Process :
                 (calls'[r].phase = "sending" /\ calls'[r].key = calls[q].key) =>
                    calls[r].phase = "sending" /\ calls[r].key = calls[q].key
          BY <2>2, <4>3
        <5> QED
          BY <4>1, <5>1, <5>2 DEF OutboxInv, SendersOwnTheirRow
      <4> QED
        BY <4>2, <4>3
    <3> QED
      BY <3>2, <3>3
  <2>11. outbox' \in [Key -> OutboxRow]
    BY <1>1, <2>3, <2>6
  <2> QED
    BY <2>9, <2>10, <2>11 DEF OutboxInv
<1> QED
  BY <1>2, <1>3

\* What the transport answers is written to a row in flight only; a row that may
\* be retried has not arrived.
LEMMA SettleStep ==
    ASSUME TypeOK, OutboxInv, NEW p \in Process, calls[p].phase = "sending",
           NEW outcome \in Outcomes(calls[p].arrived),
           outbox' = Settled(calls[p].key, outcome), UNCHANGED reached,
           \A q \in Process :
              calls'[q].phase = "sending" => q # p /\ calls'[q] = calls[q]
    PROVE  OutboxInv' /\ outbox' \in [Key -> OutboxRow]
<1> DEFINE k == calls[p].key
           row == outbox[k]
<1>1. /\ outbox \in [Key -> OutboxRow] /\ k \in Key /\ row \in OutboxRow
      /\ reached[k] \in Nat /\ calls[p].arrived \in BOOLEAN
  BY CallTypes, NoticeBounds DEF TypeOK
<1>2. CASE row.state # "in-flight"
  <2>1. UNCHANGED outbox
    BY <1>2 DEF Settled
  <2> QED
    BY <1>1, <2>1, NoSendStep
<1>3. CASE row.state = "in-flight"
  <2> DEFINE settled == SettledRow(row, outcome)
  <2>1. outbox' = [outbox EXCEPT ![k] = settled]
    BY <1>3 DEF Settled
  <2>2. outcome \in Outcome
    BY DEF Outcomes, Outcome
  <2>3. /\ settled \in OutboxRow
        /\ settled.state \in {"sent", "failed", "uncertain"}
        /\ settled.state = "sent" => outcome = "sent"
        /\ settled.retryable => outcome = "retryable" \/ row.retryable
    BY <1>1, <2>2 DEF SettledRow, OutboxRow, Outcome
  <2>4. /\ TellsArrival(row, reached[k])
        /\ calls[p].arrived => reached[k] > 0
        /\ ~calls[p].arrived => reached[k] = 0
        /\ \A q \in Process : (calls[q].phase = "sending" /\ calls[q].key = k) => q = p
    BY <1>1, <1>3 DEF OutboxInv, RowsTellArrival, SendersOwnTheirRow
  <2>5. /\ outcome = "sent" => calls[p].arrived
        /\ outcome = "retryable" => ~calls[p].arrived
    BY DEF Outcomes
  <2>6. TellsArrival(settled, reached[k])
    BY <1>3, <2>3, <2>4, <2>5 DEF TellsArrival
  <2>7. /\ outbox'[k] = settled
        /\ \A l \in Key : l # k => outbox'[l] = outbox[l]
    BY <1>1, <2>1
  <2>8. outbox' \in [Key -> OutboxRow]
    BY <1>1, <2>1, <2>3
  <2> HIDE DEF settled, k
  <2>9. RowsTellArrival'
    <3> SUFFICES ASSUME NEW l \in Key PROVE TellsArrival(outbox'[l], reached[l])
      BY DEF RowsTellArrival, TellsArrival
    <3> QED
      BY <2>6, <2>7 DEF OutboxInv, RowsTellArrival
  <2>10. SendersOwnTheirRow'
    <3>1. \A q \in Process : calls'[q].phase = "sending" =>
             /\ calls'[q] = calls[q] /\ calls[q].key \in Key \ {k}
             /\ outbox'[calls[q].key] = outbox[calls[q].key]
      BY <2>4, <2>7, CallTypes
    <3> QED
      BY <3>1 DEF OutboxInv, SendersOwnTheirRow
  <2> QED
    BY <2>8, <2>9, <2>10 DEF OutboxInv
<1> QED
  BY <1>2, <1>3

\* A recovery calls a notice off; from then on its row tells nothing.
LEMMA CancelStep ==
    ASSUME TypeOK, OutboxInv, NEW k \in Key,
           outbox' = [outbox EXCEPT ![k].state = "cancelled"],
           UNCHANGED <<calls, reached>>
    PROVE  OutboxInv' /\ outbox' \in [Key -> OutboxRow]
<1>1. outbox \in [Key -> OutboxRow]
  BY DEF TypeOK
<1>2. outbox' \in [Key -> OutboxRow] /\ outbox'[k].state = "cancelled"
      /\ \A l \in Key : l # k => outbox'[l] = outbox[l]
  BY <1>1 DEF OutboxRow
<1>3. RowsTellArrival'
  BY <1>2 DEF OutboxInv, RowsTellArrival, TellsArrival
<1>4. SendersOwnTheirRow'
  BY <1>2, CallTypes DEF OutboxInv, SendersOwnTheirRow
<1> QED
  BY <1>2, <1>3, <1>4 DEF OutboxInv

\* A message arrives once for the send that is under way.
LEMMA ArrivesStep ==
    ASSUME TypeOK, OutboxInv, NEW p \in Process, Arrives(p)
    PROVE  OutboxInv' /\ reached' \in [Key -> 0..MaxArrivals]
<1> DEFINE k == calls[p].key
<1>1. /\ calls[p] \in Sending /\ k \in Key /\ calls[p].phase = "sending" /\ ~calls[p].arrived
      /\ calls \in [Process -> {Idle} \cup Sending \cup Sweeping]
      /\ reached \in [Key -> 0..MaxArrivals] /\ outbox \in [Key -> OutboxRow]
  BY CallTypes DEF Arrives, TypeOK
<1>2. /\ reached' = [reached EXCEPT ![k] = @ + 1] /\ reached[k] < MaxArrivals
      /\ calls' = [calls EXCEPT ![p].arrived = TRUE] /\ UNCHANGED outbox
  BY DEF Arrives, tables
<1>3. /\ reached'[k] = reached[k] + 1 /\ reached[k] \in Nat
      /\ \A l \in Key : l # k => reached'[l] = reached[l]
  BY <1>1, <1>2, NoticeBounds
<1>4. /\ calls'[p].phase = "sending" /\ calls'[p].key = k /\ calls'[p].arrived
      /\ \A q \in Process : q # p => calls'[q] = calls[q]
  BY <1>1, <1>2 DEF Sending
<1>5. reached' \in [Key -> 0..MaxArrivals]
  BY <1>1, <1>2, NoticeBounds
<1>6. /\ outbox[k].state \in {"in-flight", "cancelled"}
      /\ outbox[k].state = "in-flight" =>
            /\ reached[k] = 0
            /\ \A q \in Process : (calls[q].phase = "sending" /\ calls[q].key = k) => q = p
  BY <1>1 DEF OutboxInv, SendersOwnTheirRow
<1> HIDE DEF k
<1>7. RowsTellArrival'
  <2> SUFFICES ASSUME NEW l \in Key PROVE TellsArrival(outbox[l], reached'[l])
    BY <1>2 DEF RowsTellArrival, TellsArrival
  <2>1. CASE l = k
    <3>1. TellsArrival(outbox[k], reached[k])
      BY <2>1 DEF OutboxInv, RowsTellArrival
    <3> QED
      BY <1>3, <1>6, <2>1, <3>1 DEF TellsArrival
  <2>2. CASE l # k
    BY <1>3, <2>2 DEF OutboxInv, RowsTellArrival
  <2> QED
    BY <2>1, <2>2
<1>8. SendersOwnTheirRow'
  <2> SUFFICES ASSUME NEW q \in Process, calls'[q].phase = "sending"
               PROVE /\ outbox[calls'[q].key].state \in {"in-flight", "cancelled"}
                     /\ calls'[q].arrived => reached'[calls'[q].key] > 0
                     /\ outbox[calls'[q].key].state = "in-flight" =>
                           /\ ~calls'[q].arrived => reached'[calls'[q].key] = 0
                           /\ \A r \in Process :
                                 (calls'[r].phase = "sending"
                                    /\ calls'[r].key = calls'[q].key) => r = q
    BY <1>2 DEF SendersOwnTheirRow
  <2>1. calls[q].phase = "sending" /\ calls'[q].key = calls[q].key /\ calls[q].key \in Key
        /\ \A r \in Process : calls'[r].phase = "sending" =>
              calls[r].phase = "sending" /\ calls[r].key = calls'[r].key
    BY <1>1, <1>4, CallTypes DEF k
  <2>2. /\ outbox[calls[q].key].state \in {"in-flight", "cancelled"}
        /\ calls[q].arrived => reached[calls[q].key] > 0
        /\ outbox[calls[q].key].state = "in-flight" =>
              /\ ~calls[q].arrived => reached[calls[q].key] = 0
              /\ \A r \in Process :
                    (calls[r].phase = "sending" /\ calls[r].key = calls[q].key) => r = q
    BY <2>1 DEF OutboxInv, SendersOwnTheirRow
  <2>3. CASE q = p
    BY <1>1, <1>3, <1>4, <2>1, <2>2, <2>3 DEF k
  <2>4. CASE q # p
    <3>1. calls'[q] = calls[q]
      BY <1>4, <2>4
    <3>2. CASE calls[q].key = k
      BY <1>3, <1>6, <2>1, <2>2, <2>4, <3>1, <3>2
    <3>3. CASE calls[q].key # k
      BY <1>3, <2>1, <2>2, <3>1, <3>3
    <3> QED
      BY <3>2, <3>3
  <2> QED
    BY <2>3, <2>4
<1> QED
  BY <1>5, <1>7, <1>8 DEF OutboxInv

-----------------------------------------------------------------------------
\* Calls and records

DeliveryTable(table) ==
    /\ table \in [Signature -> {NoDelivery} \cup Delivery]
    /\ \A s \in Signature : table[s] # NoDelivery => SigOf[table[s].key] = s

HeldTable == [Key -> {"none", "held", "due", "released"}]
DeliveryState == {"held", "pending", "delivered", "cancelled"}

LEMMA DeliveriesTyped ==
    ASSUME TypeOK, DeliveriesAreTheirOwn
    PROVE  DeliveryTable(deliveries)
  BY DEF TypeOK, DeliveriesAreTheirOwn, DeliveryTable

\* The fate of a notice is recorded under its own incident.
LEMMA RecordedTable ==
    ASSUME TypeOK, DeliveriesAreTheirOwn, NEW k \in Key, NEW state \in DeliveryState
    PROVE  DeliveryTable(Recorded(k, state))
<1>1. SigOf[k] = NoSignature \/ SigOf[k] \in Signature
  BY SignatureAssumption
<1>2. [state |-> state, key |-> k] \in Delivery
  BY DEF Delivery, DeliveryState
<1> QED
  BY <1>1, <1>2, DeliveriesTyped DEF Recorded, DeliveryTable

LEMMA MarkedTable ==
    ASSUME TypeOK, DeliveriesAreTheirOwn, NEW k \in Key, NEW state \in DeliveryState
    PROVE  DeliveryTable(Marked(k, state))
<1>1. ASSUME NEW s \in Signature, deliveries[s] # NoDelivery
      PROVE  /\ [deliveries[s] EXCEPT !.state = state] \in Delivery
             /\ [deliveries[s] EXCEPT !.state = state].key = deliveries[s].key
  <2>1. deliveries[s] \in Delivery
    BY <1>1, DeliveriesTyped DEF DeliveryTable
  <2> QED
    BY <2>1 DEF Delivery, DeliveryState
<1> QED
  BY <1>1, DeliveriesTyped DEF Marked, DeliveryTable

LEMMA HoldTable ==
    ASSUME TypeOK, NEW k \in Key
    PROVE  Hold(k) \in HeldTable
  BY DEF TypeOK, Hold, HeldTable

LEMMA OpenedTable ==
    ASSUME TypeOK, NEW k \in Key
    PROVE  Opened(k) \in [Signature -> {"none", "open", "recovered"}]
  BY DEF TypeOK, Opened

LEMMA RecoveredTable ==
    ASSUME TypeOK, NEW s \in Signature
    PROVE  Recovered(s) \in [Signature -> {"none", "open", "recovered"}]
  BY DEF TypeOK, Recovered

LEMMA RaisedKeys == \A s \in Signature : RaisedFor(s) \subseteq Key
  BY DEF RaisedFor

\* A sweep with rows left goes on, one without is over.
LEMMA RestCall ==
    ASSUME NEW todo \in SUBSET Key
    PROVE  /\ Rest(todo) \in {Idle} \cup Sweeping
           /\ Rest(todo).phase # "sending"
           /\ Rest(todo).phase = "next" => Rest(todo).todo # {}
<1>1. CASE todo = {}
  BY <1>1 DEF Rest, Idle
<1>2. CASE todo # {}
  BY <1>2 DEF Rest, Sweeping
<1> QED
  BY <1>1, <1>2

LEMMA SendCall ==
    ASSUME NEW k \in Key, NEW todo \in SUBSET Key
    PROVE  Send(k, todo) \in Sending /\ Send(k, todo).phase = "sending"
  BY DEF Send, Sending

\* One process goes on with another call.
LEMMA OneCall ==
    ASSUME TypeOK, SweepsHaveRows, NEW p \in Process,
           NEW call \in {Idle} \cup Sending \cup Sweeping,
           call.phase = "next" => call.todo # {},
           calls' = [calls EXCEPT ![p] = call]
    PROVE  /\ calls' \in [Process -> {Idle} \cup Sending \cup Sweeping]
           /\ SweepsHaveRows'
<1>1. calls \in [Process -> {Idle} \cup Sending \cup Sweeping]
  BY DEF TypeOK
<1> QED
  BY <1>1 DEF SweepsHaveRows

LEMMA NoCalls ==
    ASSUME calls' = [p \in Process |-> Idle]
    PROVE  /\ calls' \in [Process -> {Idle} \cup Sending \cup Sweeping]
           /\ SweepsHaveRows'
           /\ \A p \in Process : calls'[p].phase # "sending"
  BY IdleIsNotSending DEF SweepsHaveRows

\* What a claim may answer besides "sending" is the outcome of an earlier send.
LEMMA AnswerKinds ==
    ASSUME NEW k \in Key, NEW answer \in ClaimAnswers(outbox[k])
    PROVE  answer \in {"sending", "sent", "retryable", "final"}
<1> DEFINE row == outbox[k]
<1>1. CASE row.state = "none"
  BY <1>1 DEF ClaimAnswers, Sendable
<1>2. CASE row.state # "none" /\ Sendable(row)
  BY <1>2 DEF ClaimAnswers
<1>3. CASE row.state # "none" /\ ~Sendable(row)
  BY <1>3 DEF ClaimAnswers
<1> QED
  BY <1>1, <1>2, <1>3

\* The end of a send leaves the tables and the calls in order, and starts none.
LEMMA AfterStep ==
    ASSUME TypeOK, SweepsHaveRows, DeliveriesAreTheirOwn,
           NEW p \in Process, NEW k \in Key, NEW todo \in SUBSET Key,
           NEW outcome \in Outcome, After(p, k, outcome, todo)
    PROVE  /\ held' \in HeldTable
           /\ DeliveryTable(deliveries')
           /\ calls' \in [Process -> {Idle} \cup Sending \cup Sweeping]
           /\ SweepsHaveRows'
           /\ \E call \in {Idle} \cup Sweeping :
                 calls' = [calls EXCEPT ![p] = call] /\ call.phase # "sending"
<1>1. CASE /\ p \in Caller
           /\ deliveries' = IF outcome = "thrown" THEN deliveries
                            ELSE Recorded(k, AdmissionState(outcome))
           /\ calls' = [calls EXCEPT ![p] = Idle]
           /\ UNCHANGED held
  <2>1. outcome # "thrown" => AdmissionState(outcome) \in DeliveryState
    BY DEF AdmissionState, DeliveryState, Outcome
  <2>2. DeliveryTable(deliveries')
    BY <1>1, <2>1, RecordedTable, DeliveriesTyped
  <2> QED
    BY <1>1, <2>2, OneCall, IdleIsNotSending DEF TypeOK, HeldTable
<1>2. CASE /\ p = "release"
           /\ held' = Released(k, outcome)
           /\ deliveries' = ReleaseMark(k, outcome)
           /\ calls' = [calls EXCEPT ![p] = Rest(todo)]
  <2>1. held' \in HeldTable
    BY <1>2 DEF Released, HeldTable, TypeOK
  <2>2. DeliveryTable(deliveries')
    <3>1. /\ outcome = "sent" => deliveries' = Marked(k, "delivered")
          /\ outcome \in {"retryable", "final"} => deliveries' = Marked(k, "pending")
          /\ outcome = "thrown" => deliveries' = deliveries
      BY <1>2 DEF ReleaseMark, Outcome
    <3> QED
      BY <3>1, MarkedTable, DeliveriesTyped DEF Outcome, DeliveryState
  <2> QED
    BY <1>2, <2>1, <2>2, OneCall, RestCall
<1>3. CASE /\ p = "retry"
           /\ calls' = [calls EXCEPT ![p] = Rest(IF outcome = "thrown" THEN {} ELSE todo)]
           /\ UNCHANGED <<held, deliveries>>
  <2> DEFINE rest == IF outcome = "thrown" THEN {} ELSE todo
  <2>1. rest \in SUBSET Key
    OBVIOUS
  <2>2. held' \in HeldTable
    BY <1>3 DEF TypeOK, HeldTable
  <2> HIDE DEF rest
  <2>3. calls' = [calls EXCEPT ![p] = Rest(rest)]
    BY <1>3 DEF rest
  <2> QED
    BY <1>3, <2>1, <2>2, <2>3, OneCall, RestCall, DeliveriesTyped
<1> QED
  BY <1>1, <1>2, <1>3 DEF After

-----------------------------------------------------------------------------
\* The inductive invariant

\* The empty tables satisfy the invariant.
THEOREM InitIInv == Init => IInv
<1> SUFFICES ASSUME Init PROVE IInv
  OBVIOUS
<1>1. NoRow \in OutboxRow
  BY NoticeBounds DEF NoRow, OutboxRow
<1>2. TypeOK
  <2>1. 0 \in 0..MaxArrivals /\ 0 \in 0..MaxCrashes
    BY NoticeBounds
  <2>2. outbox \in [Key -> OutboxRow] /\ reached \in [Key -> 0..MaxArrivals]
    BY <1>1, <2>1 DEF Init
  <2>3. /\ groups \in [Signature -> {"none", "open", "recovered"}]
        /\ deliveries \in [Signature -> {NoDelivery} \cup Delivery]
        /\ held \in [Key -> {"none", "held", "due", "released"}]
        /\ ahead \in [Key -> SUBSET Key]
    BY DEF Init
  <2>4. calls \in [Process -> {Idle} \cup Sending \cup Sweeping]
    BY DEF Init
  <2>5. quiet \in BOOLEAN /\ spent \subseteq Key /\ crashes \in 0..MaxCrashes
    BY <2>1 DEF Init
  <2> QED
    BY <2>2, <2>3, <2>4, <2>5 DEF TypeOK
<1>3. \A p \in Process : calls[p].phase = "idle"
  BY IdleIsNotSending DEF Init
<1>4. OutboxInv /\ SweepsHaveRows
  BY <1>3 DEF Init, OutboxInv, SendersOwnTheirRow, RowsTellArrival, TellsArrival,
              SweepsHaveRows, NoRow
<1>5. DeliveriesAreTheirOwn
  BY DEF Init, DeliveriesAreTheirOwn
<1> QED
  BY <1>2, <1>4, <1>5 DEF IInv

\* The parts of the invariant put together again after a step.
LEMMA IInvNext ==
    ASSUME OutboxInv', SweepsHaveRows', DeliveryTable(deliveries'), held' \in HeldTable,
           ahead' \in [Key -> SUBSET Key],
           groups' \in [Signature -> {"none", "open", "recovered"}],
           outbox' \in [Key -> OutboxRow],
           calls' \in [Process -> {Idle} \cup Sending \cup Sweeping],
           reached' \in [Key -> 0..MaxArrivals],
           quiet' \in BOOLEAN, spent' \subseteq Key, crashes' \in 0..MaxCrashes
    PROVE  IInv'
  BY DEF IInv, TypeOK, DeliveryTable, HeldTable, DeliveriesAreTheirOwn

\* A request claims the row of its notice, or is told why it may not.
LEMMA RequestClaims ==
    ASSUME IInv, NEW c \in Caller, calls[c] = Idle, NEW k \in Key,
           NEW answer \in ClaimAnswers(outbox[k]), outbox' = Claimed(k, answer),
           calls' = IF answer = "sending" THEN [calls EXCEPT ![c] = Send(k, {})] ELSE calls,
           UNCHANGED reached
    PROVE  /\ OutboxInv' /\ SweepsHaveRows' /\ outbox' \in [Key -> OutboxRow]
           /\ calls' \in [Process -> {Idle} \cup Sending \cup Sweeping]
<1>1. c \in Process /\ calls[c].phase # "sending" /\ {} \in SUBSET Key
  BY IdleIsNotSending DEF Process
<1>2. CASE answer = "sending"
  <2>1. calls' = [calls EXCEPT ![c] = Send(k, {})]
    BY <1>2
  <2> DEFINE call == Send(k, {})
  <2>2. \E todo \in SUBSET Key : call = Send(k, todo)
    BY <1>1
  <2>3. calls' = [calls EXCEPT ![c] = call] /\ TypeOK /\ OutboxInv
    BY <2>1 DEF IInv
  <2> HIDE DEF call
  <2>4. OutboxInv' /\ outbox' \in [Key -> OutboxRow]
    BY <1>1, <1>2, <2>2, <2>3, ClaimStep
  <2> QED
    BY <1>1, <2>1, <2>4, OneCall, SendCall DEF IInv
<1>3. CASE answer # "sending"
  <2>1. UNCHANGED <<outbox, calls>>
    BY <1>3 DEF Claimed
  <2> QED
    BY <2>1, NoSendStep DEF IInv, TypeOK, SweepsHaveRows
<1> QED
  BY <1>2, <1>3

LEMMA AdmitHeldIInv ==
    ASSUME IInv, NEW c \in Caller, NEW k \in Key, admitHeld(c, k)
    PROVE  IInv'
<1>1. DeliveryTable(deliveries') /\ held' \in HeldTable
      /\ groups' \in [Signature -> {"none", "open", "recovered"}]
  BY RecordedTable, HoldTable, OpenedTable DEF admitHeld, IInv, DeliveryState
<1>2. OutboxInv' /\ SweepsHaveRows'
  BY NoSendStep DEF admitHeld, IInv, SweepsHaveRows
<1> QED
  BY <1>1, <1>2, IInvNext DEF admitHeld, IInv, TypeOK

LEMMA AdmitSentIInv ==
    ASSUME IInv, NEW c \in Caller, NEW k \in Key, NEW bypasses, admitSent(c, k, bypasses)
    PROVE  IInv'
<1>1. PICK answer \in ClaimAnswers(outbox[k]) :
         /\ outbox' = Claimed(k, answer)
         /\ IF answer = "sending"
            THEN calls' = [calls EXCEPT ![c] = Send(k, {})] /\ UNCHANGED deliveries
            ELSE deliveries' = Recorded(k, AdmissionState(answer)) /\ UNCHANGED calls
  BY DEF admitSent
<1>2. /\ calls[c] = Idle /\ groups' = Opened(k)
      /\ UNCHANGED <<held, ahead, reached, quiet, spent, crashes>>
  BY DEF admitSent
<1>3. calls' = IF answer = "sending" THEN [calls EXCEPT ![c] = Send(k, {})] ELSE calls
  BY <1>1
<1>4. /\ OutboxInv' /\ SweepsHaveRows' /\ outbox' \in [Key -> OutboxRow]
      /\ calls' \in [Process -> {Idle} \cup Sending \cup Sweeping]
  BY <1>1, <1>2, <1>3, RequestClaims
<1>5. DeliveryTable(deliveries')
  <2>1. answer # "sending" => AdmissionState(answer) \in DeliveryState
    BY AnswerKinds DEF AdmissionState, DeliveryState
  <2> QED
    BY <1>1, <2>1, RecordedTable, DeliveriesTyped DEF IInv
<1>6. groups' \in [Signature -> {"none", "open", "recovered"}]
  BY <1>2, OpenedTable DEF IInv
<1> QED
  BY <1>2, <1>4, <1>5, <1>6, IInvNext DEF IInv, TypeOK, HeldTable

LEMMA RecoverSilentlyIInv ==
    ASSUME IInv, NEW s \in Signature, recoverSilently(s)
    PROVE  IInv'
<1> DEFINE k == deliveries[s].key
           marked == Marked(k, "cancelled")
<1>1. deliveries[s] # NoDelivery /\ deliveries[s] \in Delivery /\ k \in Key /\ SigOf[k] = s
  BY DeliveriesTyped DEF recoverSilently, CountsAsDelivered, DeliveryTable, Delivery, IInv
<1>2. DeliveryTable(marked)
  BY <1>1, MarkedTable DEF IInv, DeliveryState
<1>3. DeliveryTable(deliveries')
  <2>1. marked[s] = [deliveries[s] EXCEPT !.state = "cancelled"]
    BY <1>1 DEF Marked
  <2>2. deliveries' = [marked EXCEPT ![s].state = "cancelled"]
    BY DEF recoverSilently
  <2>3. /\ [marked[s] EXCEPT !.state = "cancelled"] \in Delivery
        /\ [marked[s] EXCEPT !.state = "cancelled"].key = k
    BY <1>1, <2>1 DEF Delivery
  <2> QED
    BY <1>1, <1>2, <2>2, <2>3 DEF DeliveryTable
<1>4. /\ held' \in HeldTable /\ spent' \subseteq Key
      /\ groups' \in [Signature -> {"none", "open", "recovered"}]
  BY RecoveredTable, RaisedKeys DEF recoverSilently, IInv, TypeOK, HeldTable
<1>5. OutboxInv' /\ outbox' \in [Key -> OutboxRow]
  <2>1. CASE outbox' = [outbox EXCEPT ![k].state = "cancelled"]
    BY <1>1, <2>1, CancelStep DEF recoverSilently, IInv
  <2>2. CASE UNCHANGED outbox
    BY <2>2, NoSendStep DEF recoverSilently, IInv, TypeOK
  <2> QED
    BY <2>1, <2>2 DEF recoverSilently
<1>6. SweepsHaveRows' /\ UNCHANGED <<ahead, calls, reached, quiet, crashes>>
  BY DEF recoverSilently, IInv, SweepsHaveRows
<1>7. /\ TypeOK /\ ahead' = ahead /\ calls' = calls
      /\ reached' = reached /\ quiet' = quiet /\ crashes' = crashes
  BY <1>6 DEF IInv
<1>8. /\ calls' \in [Process -> {Idle} \cup Sending \cup Sweeping]
      /\ ahead' \in [Key -> SUBSET Key] /\ reached' \in [Key -> 0..MaxArrivals]
      /\ quiet' \in BOOLEAN /\ crashes' \in 0..MaxCrashes
  BY <1>7 DEF TypeOK
<1> HIDE DEF k, marked
<1> QED
  BY <1>3, <1>4, <1>5, <1>6, <1>8, IInvNext

LEMMA RecoverAnnouncedIInv ==
    ASSUME IInv, NEW c \in Caller, NEW s \in Signature, NEW k \in Key,
           recoverAnnounced(c, s, k)
    PROVE  IInv'
<1>1. DeliveryTable(deliveries')
  <2>1. CASE deliveries[s] = NoDelivery
    BY <2>1, DeliveriesTyped DEF recoverAnnounced, IInv
  <2>2. CASE deliveries[s] # NoDelivery
    <3>1. deliveries' = [deliveries EXCEPT ![s].state = "delivered"]
      BY <2>2 DEF recoverAnnounced
    <3>2. deliveries[s] \in Delivery /\ SigOf[deliveries[s].key] = s
      BY <2>2, DeliveriesTyped DEF DeliveryTable, IInv
    <3>3. /\ [deliveries[s] EXCEPT !.state = "delivered"] \in Delivery
          /\ [deliveries[s] EXCEPT !.state = "delivered"].key = deliveries[s].key
      BY <3>2 DEF Delivery
    <3> QED
      BY <3>1, <3>2, <3>3, DeliveriesTyped DEF DeliveryTable, IInv
  <2> QED
    BY <2>1, <2>2
<1>2. /\ spent' \subseteq Key /\ groups' \in [Signature -> {"none", "open", "recovered"}]
      /\ UNCHANGED <<ahead, reached, quiet, crashes>> /\ calls[c] = Idle
  BY RecoveredTable, RaisedKeys DEF recoverAnnounced, IInv, TypeOK
<1>3. CASE held' = Hold(k) /\ UNCHANGED <<calls, outbox>>
  <2>1. OutboxInv' /\ SweepsHaveRows'
    BY <1>2, <1>3, NoSendStep DEF IInv, SweepsHaveRows
  <2>2. held' \in HeldTable
    BY <1>3, HoldTable DEF IInv
  <2> QED
    BY <1>1, <1>2, <1>3, <2>1, <2>2, IInvNext DEF IInv, TypeOK
<1>4. CASE /\ UNCHANGED held
           /\ \E answer \in ClaimAnswers(outbox[k]) :
                 /\ outbox' = Claimed(k, answer)
                 /\ calls' = IF answer = "sending" THEN [calls EXCEPT ![c] = Send(k, {})]
                             ELSE calls
  <2>1. /\ OutboxInv' /\ SweepsHaveRows' /\ outbox' \in [Key -> OutboxRow]
        /\ calls' \in [Process -> {Idle} \cup Sending \cup Sweeping]
    BY <1>2, <1>4, RequestClaims
  <2> QED
    BY <1>1, <1>2, <1>4, <2>1, IInvNext DEF IInv, TypeOK, HeldTable
<1> QED
  BY <1>3, <1>4 DEF recoverAnnounced

LEMMA StartIInv ==
    ASSUME IInv, NEW p \in Sweep, NEW rows \in SUBSET Key, Start(p, rows)
    PROVE  IInv'
<1>1. p \in Process /\ calls[p].phase # "sending" /\ calls' = [calls EXCEPT ![p] = Rest(rows)]
  BY IdleIsNotSending DEF Start, Process
<1>2. /\ calls' \in [Process -> {Idle} \cup Sending \cup Sweeping]
      /\ SweepsHaveRows'
  BY <1>1, RestCall, OneCall DEF IInv
<1>3. UNCHANGED <<tables, reached, quiet, spent, crashes>>
  BY DEF Start
<1>4. OutboxInv'
  <2>1. \A q \in Process : calls'[q].phase = "sending" => calls'[q] = calls[q]
    BY <1>1, RestCall DEF IInv, TypeOK
  <2> QED
    BY <1>3, <2>1, NoSendStep DEF IInv, tables
<1> QED
  BY <1>2, <1>3, <1>4, IInvNext, DeliveriesTyped DEF IInv, TypeOK, tables, HeldTable

LEMMA SweepClaimsIInv ==
    ASSUME IInv, NEW p \in Sweep, sweepClaims(p)
    PROVE  IInv'
<1> DEFINE k == CHOOSE x \in calls[p].todo : TRUE
           todo == calls[p].todo \ {k}
<1>1. p \in Process /\ calls[p].phase = "next" /\ calls[p].phase # "sending"
  BY DEF sweepClaims, Process
<1>2. k \in Key /\ todo \in SUBSET Key
  BY <1>1, CallTypes DEF IInv, SweepsHaveRows
<1>3. PICK answer \in ClaimAnswers(outbox[k]) :
         /\ outbox' = Claimed(k, answer)
         /\ \/ /\ answer = "sending"
               /\ calls' = [calls EXCEPT ![p] = Send(k, todo)]
               /\ UNCHANGED <<held, deliveries>>
            \/ answer # "sending" /\ After(p, k, answer, todo)
  BY DEF sweepClaims
<1>4. UNCHANGED <<groups, ahead, reached, quiet, spent, crashes>>
  BY DEF sweepClaims
<1> HIDE DEF k, todo
<1>5. CASE /\ answer = "sending"
           /\ calls' = [calls EXCEPT ![p] = Send(k, todo)]
           /\ UNCHANGED <<held, deliveries>>
  <2>1. OutboxInv' /\ outbox' \in [Key -> OutboxRow]
    BY <1>1, <1>2, <1>3, <1>4, <1>5, ClaimStep DEF IInv
  <2>2. /\ calls' \in [Process -> {Idle} \cup Sending \cup Sweeping]
        /\ SweepsHaveRows'
    BY <1>1, <1>2, <1>5, SendCall, OneCall DEF IInv
  <2> QED
    BY <1>4, <1>5, <2>1, <2>2, IInvNext, DeliveriesTyped DEF IInv, TypeOK, HeldTable
<1>6. CASE answer # "sending" /\ After(p, k, answer, todo)
  <2>1. answer \in Outcome
    BY <1>2, <1>6, AnswerKinds DEF Outcome
  <2>2. /\ held' \in HeldTable /\ DeliveryTable(deliveries') /\ SweepsHaveRows'
        /\ calls' \in [Process -> {Idle} \cup Sending \cup Sweeping]
    BY <1>1, <1>2, <1>6, <2>1, AfterStep DEF IInv
  <2>3. PICK call \in {Idle} \cup Sweeping :
           calls' = [calls EXCEPT ![p] = call] /\ call.phase # "sending"
    BY <1>1, <1>2, <1>6, <2>1, AfterStep DEF IInv
  <2>4. OutboxInv' /\ outbox' \in [Key -> OutboxRow]
    BY <1>1, <1>2, <1>3, <1>4, <1>6, <2>3, ClaimStep DEF IInv
  <2> QED
    BY <1>4, <2>2, <2>4, IInvNext DEF IInv, TypeOK
<1> QED
  BY <1>3, <1>5, <1>6

LEMMA TransportAnswersIInv ==
    ASSUME IInv, NEW p \in Process, NEW outcome \in Outcome, transportAnswers(p, outcome)
    PROVE  IInv'
<1> DEFINE k == calls[p].key
           todo == calls[p].todo
           surfaced == Surfaces(k, outcome)
<1>1. /\ calls[p].phase = "sending" /\ outcome \in Outcomes(calls[p].arrived)
      /\ outbox' = Settled(k, outcome) /\ After(p, k, surfaced, todo)
      /\ UNCHANGED <<groups, ahead, reached, quiet, spent, crashes>>
  BY DEF transportAnswers
<1>2. k \in Key /\ todo \in SUBSET Key
  BY <1>1, CallTypes DEF IInv
<1>3. surfaced \in Outcome
  BY DEF Surfaces, Outcome
<1> HIDE DEF surfaced
<1>4. /\ held' \in HeldTable /\ DeliveryTable(deliveries') /\ SweepsHaveRows'
      /\ calls' \in [Process -> {Idle} \cup Sending \cup Sweeping]
      /\ \E call \in {Idle} \cup Sweeping :
            calls' = [calls EXCEPT ![p] = call] /\ call.phase # "sending"
  BY <1>1, <1>2, <1>3, AfterStep DEF IInv
<1>5. \A q \in Process : calls'[q].phase = "sending" => q # p /\ calls'[q] = calls[q]
  BY <1>4 DEF IInv, TypeOK
<1>6. OutboxInv' /\ outbox' \in [Key -> OutboxRow]
  BY <1>1, <1>5, SettleStep DEF IInv
<1> QED
  BY <1>1, <1>4, <1>6, IInvNext DEF IInv, TypeOK

LEMMA CrashIInv ==
    ASSUME IInv, Crash
    PROVE  IInv'
<1>1. /\ calls' = [p \in Process |-> Idle] /\ crashes' \in 0..MaxCrashes
      /\ UNCHANGED <<held, ahead, deliveries, outbox, reached, quiet>>
  BY NoticeBounds DEF Crash, CrashLosesCalls, IInv, TypeOK
<1>2. /\ calls' \in [Process -> {Idle} \cup Sending \cup Sweeping]
      /\ SweepsHaveRows' /\ OutboxInv'
  BY <1>1, NoCalls, NoSendStep DEF IInv
<1>3. groups' \in [Signature -> {"none", "open", "recovered"}]
  BY OpenedTable, RecoveredTable DEF Crash, IInv, TypeOK
<1>4. spent' \subseteq Key
  <2>1. spent' = spent \cup UNION {RaisedFor(s) :
                                     s \in {t \in Signature : groups'[t] = "recovered"}}
    BY DEF Crash
  <2>2. UNION {RaisedFor(s) : s \in {t \in Signature : groups'[t] = "recovered"}} \subseteq Key
    BY RaisedKeys
  <2> QED
    BY <2>1, <2>2 DEF IInv, TypeOK
<1> QED
  BY <1>1, <1>2, <1>3, <1>4, IInvNext, DeliveriesTyped DEF IInv, TypeOK, HeldTable

LEMMA CrashAfterAnswerIInv ==
    ASSUME IInv, NEW p \in Process, NEW outcome \in Outcome, CrashAfterAnswer(p, outcome)
    PROVE  IInv'
<1>1. /\ calls' = [q \in Process |-> Idle] /\ crashes' \in 0..MaxCrashes
      /\ UNCHANGED <<held, ahead, deliveries, reached, quiet, groups, spent>>
      /\ calls[p].phase = "sending" /\ outcome \in Outcomes(calls[p].arrived)
      /\ outbox' = Settled(calls[p].key, outcome)
  BY NoticeBounds DEF CrashAfterAnswer, CrashLosesCalls, IInv, TypeOK
<1>2. /\ calls' \in [Process -> {Idle} \cup Sending \cup Sweeping]
      /\ SweepsHaveRows'
      /\ \A q \in Process : calls'[q].phase # "sending"
  BY <1>1, NoCalls
<1>3. OutboxInv' /\ outbox' \in [Key -> OutboxRow]
  BY <1>1, <1>2, SettleStep DEF IInv
<1> QED
  BY <1>1, <1>2, <1>3, IInvNext, DeliveriesTyped DEF IInv, TypeOK, HeldTable

\* The end of a window puts sets of notices ahead of each.
LEMMA QuietEndsOrders ==
    ASSUME TypeOK, QuietEnds
    PROVE  ahead' \in [Key -> SUBSET Key]
<1> DEFINE new == {k \in Key : held[k] = "held"}
<1>1. PICK place : ahead' = [k \in Key |->
                         CASE held[k] = "held" -> Due \cup {l \in new : place[l] < place[k]}
                           [] held[k] = "due"  -> ahead[k] \cap Due
                           [] OTHER            -> {}]
  BY DEF QuietEnds
<1>2. ASSUME NEW k \in Key
      PROVE  (CASE held[k] = "held" -> Due \cup {l \in new : place[l] < place[k]}
                [] held[k] = "due"  -> ahead[k] \cap Due
                [] OTHER            -> {}) \in SUBSET Key
  <2>1. held[k] = "held" => held[k] # "due"
    OBVIOUS
  <2> QED
    BY <2>1 DEF Due
<1> QED
  BY <1>1, <1>2

\* The whole next-state relation.
LEMMA StepIInv == ASSUME IInv, [Next]_vars PROVE IInv'
<1>1. CASE Requests
  <2>1. PICK c \in Caller, k \in Key :
           \/ admitHeld(c, k)
           \/ \E bypasses \in BOOLEAN : admitSent(c, k, bypasses)
           \/ \E s \in Signature : recoverAnnounced(c, s, k)
    BY <1>1 DEF Requests
  <2> QED
    BY <2>1, AdmitHeldIInv, AdmitSentIInv, RecoverAnnouncedIInv
<1>2. CASE \E s \in Signature : recoverSilently(s)
  BY <1>2, RecoverSilentlyIInv
<1>3. CASE releaseHeld
  <2>1. "release" \in Sweep /\ dueHeldExceptionNotices \in SUBSET Key
    BY DEF Sweep, dueHeldExceptionNotices, Due
  <2> QED
    BY <1>3, <2>1, StartIInv DEF releaseHeld
<1>4. CASE retryPendingDeliveries
  <2>1. "retry" \in Sweep /\ pendingTelegramDeliveries \in SUBSET Key
    BY DEF Sweep, pendingTelegramDeliveries
  <2> QED
    BY <1>4, <2>1, StartIInv DEF retryPendingDeliveries
<1>5. CASE \E p \in Sweep : sweepClaims(p)
  BY <1>5, SweepClaimsIInv
<1>6. CASE \E p \in Process : Arrives(p)
  <2>1. PICK p \in Process : Arrives(p)
    BY <1>6
  <2>2. OutboxInv' /\ reached' \in [Key -> 0..MaxArrivals]
    BY <2>1, ArrivesStep DEF IInv
  <2>3. /\ calls[p].phase = "sending" /\ calls' = [calls EXCEPT ![p].arrived = TRUE]
        /\ UNCHANGED <<tables, quiet, spent, crashes>>
    BY <2>1 DEF Arrives
  <2>4. calls[p] \in Sending
    BY <2>3, CallTypes DEF IInv
  <2>5. [calls[p] EXCEPT !.arrived = TRUE] \in Sending
        /\ [calls[p] EXCEPT !.arrived = TRUE].phase = "sending"
    BY <2>4 DEF Sending
  <2>6. /\ calls' \in [Process -> {Idle} \cup Sending \cup Sweeping]
        /\ SweepsHaveRows'
    BY <2>3, <2>5, OneCall DEF IInv
  <2> QED
    BY <2>2, <2>3, <2>6, IInvNext, DeliveriesTyped DEF IInv, TypeOK, tables, HeldTable
<1>7. CASE \E p \in Process : Answers(p)
  BY <1>7, TransportAnswersIInv DEF Answers
<1>8. CASE QuietBegins
  <2>1. UNCHANGED <<tables, calls, reached, spent, crashes>> /\ quiet' \in BOOLEAN
    BY <1>8 DEF QuietBegins
  <2>2. OutboxInv' /\ SweepsHaveRows'
    BY <2>1, NoSendStep DEF IInv, SweepsHaveRows, tables
  <2> QED
    BY <2>1, <2>2, IInvNext, DeliveriesTyped DEF IInv, TypeOK, tables, HeldTable
<1>9. CASE QuietEnds
  <2>1. /\ UNCHANGED <<groups, deliveries, outbox, calls, reached, spent, crashes>>
        /\ quiet' \in BOOLEAN /\ held' \in HeldTable
    BY <1>9 DEF QuietEnds, HeldTable, IInv, TypeOK
  <2>2. OutboxInv' /\ SweepsHaveRows'
    BY <2>1, NoSendStep DEF IInv, SweepsHaveRows
  <2>3. ahead' \in [Key -> SUBSET Key]
    BY <1>9, QuietEndsOrders DEF IInv
  <2> QED
    BY <2>1, <2>2, <2>3, IInvNext, DeliveriesTyped DEF IInv, TypeOK
<1>10. CASE Crash
  BY <1>10, CrashIInv
<1>11. CASE \E p \in Process, outcome \in Outcome : CrashAfterAnswer(p, outcome)
  BY <1>11, CrashAfterAnswerIInv
<1>12. CASE UNCHANGED vars
  <2>1. OutboxInv' /\ SweepsHaveRows'
    BY <1>12, NoSendStep DEF vars, IInv, SweepsHaveRows
  <2> QED
    BY <1>12, <2>1, IInvNext, DeliveriesTyped DEF vars, IInv, TypeOK, HeldTable
<1> QED
  BY <1>1, <1>2, <1>3, <1>4, <1>5, <1>6, <1>7, <1>8, <1>9, <1>10, <1>11, <1>12
     DEF Next, Sends

\* The inductive invariant holds in every reachable state: the outbox knows who
\* may be sending a notice and whether it may have arrived.
THEOREM Invariant == Spec => []IInv
<1>1. Init => IInv
  BY InitIInv
<1>2. IInv /\ [Next]_vars => IInv'
  BY StepIInv
<1> QED
  BY <1>1, <1>2, PTL DEF Spec

-----------------------------------------------------------------------------
\* The properties

\* Rows, records and calls have their types in every reachable state; in
\* particular no notice is sent more often than MaxAttempts allows.
THEOREM TypeCorrect == Spec => []TypeOK
<1>1. IInv => TypeOK
  BY DEF IInv
<1> QED
  BY <1>1, Invariant, PTL

\* No notice that no recovery called off arrives twice, whichever requests, sweeps
\* and crashes interleave.
THEOREM ArrivesOnceHolds == Spec => []ArrivesOnce
<1>1. IInv => ArrivesOnce
  BY DEF IInv, OutboxInv, RowsTellArrival, TellsArrival, ArrivesOnce
<1> QED
  BY <1>1, Invariant, PTL

\* What leaves the held notices at the end of a send has arrived.
LEMMA ReleasedArrived ==
    ASSUME NEW p \in Process, NEW k \in Key, NEW outcome, NEW todo,
           After(p, k, outcome, todo), outcome = "sent" => reached[k] > 0,
           held \in HeldTable, NEW l \in Key, held[l] # held'[l]
    PROVE  reached[l] > 0
<1>1. held' = Released(k, outcome)
  BY DEF After
<1> QED
  BY <1>1 DEF Released, HeldTable

\* A held notice leaves the held ones only after it arrived or because its
\* incident is over: no failed send, no sweep and no crash drops it.
THEOREM HeldIsNeverDroppedHolds == Spec => HeldIsNeverDropped
<1> DEFINE Kept ==
        \A k \in Key :
            (held[k] \in {"held", "due"} /\ held'[k] = "released")
               => \/ reached[k] > 0
                  \/ SigOf[k] # NoSignature /\ groups'[SigOf[k]] = "recovered"
<1>1. ASSUME IInv, [Next]_vars PROVE Kept
  <2> SUFFICES ASSUME NEW l \in Key, held[l] \in {"held", "due"}, held'[l] = "released"
               PROVE  \/ reached[l] > 0
                      \/ SigOf[l] # NoSignature /\ groups'[SigOf[l]] = "recovered"
    OBVIOUS
  <2>1. held \in HeldTable /\ held'[l] # held[l]
    BY <1>1 DEF IInv, TypeOK, HeldTable
  <2>2. ASSUME NEW s \in Signature, recoverSilently(s)
        PROVE  SigOf[l] # NoSignature /\ groups'[SigOf[l]] = "recovered"
    <3>1. deliveries[s] # NoDelivery /\ SigOf[deliveries[s].key] = s
      BY <1>1, <2>2, DeliveriesTyped DEF recoverSilently, CountsAsDelivered, DeliveryTable, IInv
    <3>2. l = deliveries[s].key
      BY <2>1, <2>2 DEF recoverSilently, HeldTable
    <3>3. groups' = [groups EXCEPT ![s] = "recovered"]
      BY <2>2 DEF recoverSilently, Recovered
    <3> QED
      BY <1>1, <3>1, <3>2, <3>3, SignatureAssumption DEF IInv, TypeOK
  <2>3. ASSUME NEW p \in Sweep, sweepClaims(p)
        PROVE  reached[l] > 0
    <3> DEFINE k == CHOOSE x \in calls[p].todo : TRUE
               todo == calls[p].todo \ {k}
    <3>1. p \in Process /\ k \in Key
      BY <1>1, <2>3, CallTypes DEF sweepClaims, Process, IInv, SweepsHaveRows
    <3>2. PICK answer \in ClaimAnswers(outbox[k]) : answer # "sending" /\ After(p, k, answer, todo)
      BY <2>1, <2>3 DEF sweepClaims
    <3>3. answer = "sent" => outbox[k].state = "sent"
      <4>1. CASE outbox[k].state = "none"
        BY <4>1 DEF ClaimAnswers, Sendable
      <4>2. CASE outbox[k].state # "none" /\ Sendable(outbox[k])
        BY <4>2 DEF ClaimAnswers
      <4>3. CASE outbox[k].state # "none" /\ ~Sendable(outbox[k])
        BY <4>3 DEF ClaimAnswers
      <4> QED
        BY <4>1, <4>2, <4>3
    <3>4. answer = "sent" => reached[k] > 0
      BY <1>1, <3>1, <3>3 DEF IInv, OutboxInv, RowsTellArrival, TellsArrival
    <3> HIDE DEF k, todo
    <3> QED
      BY <2>1, <3>1, <3>2, <3>4, ReleasedArrived
  <2>4. ASSUME NEW p \in Process, NEW outcome \in Outcome, transportAnswers(p, outcome)
        PROVE  reached[l] > 0
    <3> DEFINE k == calls[p].key
               surfaced == Surfaces(k, outcome)
    <3>1. /\ calls[p].phase = "sending" /\ outcome \in Outcomes(calls[p].arrived)
          /\ After(p, k, surfaced, calls[p].todo)
      BY <2>4 DEF transportAnswers
    <3>2. k \in Key /\ calls[p].arrived \in BOOLEAN
      BY <1>1, <3>1, CallTypes DEF IInv
    <3>3. surfaced = "sent" => outcome = "sent"
      BY DEF Surfaces
    <3>4. outcome = "sent" => calls[p].arrived
      BY <3>1 DEF Outcomes
    <3>5. surfaced = "sent" => reached[k] > 0
      BY <1>1, <3>1, <3>3, <3>4 DEF IInv, OutboxInv, SendersOwnTheirRow
    <3> HIDE DEF k, surfaced
    <3> QED
      BY <2>1, <3>1, <3>2, <3>5, ReleasedArrived DEF k
  <2>5. ASSUME NEW c \in Caller, NEW k \in Key,
               \/ admitHeld(c, k)
               \/ \E bypasses \in BOOLEAN : admitSent(c, k, bypasses)
               \/ \E s \in Signature : recoverAnnounced(c, s, k)
        PROVE  FALSE
    <3>1. held' = held \/ held' = Hold(k)
      BY <2>5 DEF admitHeld, admitSent, recoverAnnounced
    <3> QED
      BY <2>1, <3>1 DEF Hold, HeldTable
  <2>6. ~QuietEnds
    BY <2>1 DEF QuietEnds, HeldTable
  <2>7. UNCHANGED held => FALSE
    BY <2>1
  <2>8. ~(releaseHeld \/ retryPendingDeliveries \/ QuietBegins)
    BY <2>7 DEF releaseHeld, retryPendingDeliveries, Start, QuietBegins, tables
  <2>9. ~Crash /\ \A p \in Process, outcome \in Outcome : ~CrashAfterAnswer(p, outcome)
    BY <2>7 DEF Crash, CrashAfterAnswer, CrashLosesCalls
  <2>10. \A p \in Process : ~Arrives(p)
    BY <2>7 DEF Arrives, tables
  <2>11. Next
    BY <1>1, <2>7 DEF vars
  <2> QED
    BY <2>2, <2>3, <2>4, <2>5, <2>6, <2>8, <2>9, <2>10, <2>11
       DEF Next, Requests, Sends, Answers
<1>2. IInv /\ [Next]_vars => [Kept]_vars
  BY <1>1
<1> QED
  BY <1>2, Invariant, PTL DEF Spec, HeldIsNeverDropped

-----------------------------------------------------------------------------
\* The announcement of an open incident

\* A row is called off by the recovery of an incident that has a record.
CancelledWasRecorded ==
    \A k \in Key : outbox[k].state = "cancelled" =>
        SigOf[k] \in Signature /\ deliveries[SigOf[k]] # NoDelivery

\* What the record of an incident says of its notice, while the record is not
\* that of an earlier incident.
RecordTells(record, holding, arrivals) ==
    /\ record.state = "held" => holding \in {"held", "due"} \/ arrivals > 0
    /\ record.state = "delivered" => arrivals > 0

RecordsTellArrival ==
    \A s \in Signature :
        (deliveries[s] # NoDelivery /\ deliveries[s].key \notin spent)
            => RecordTells(deliveries[s], held[deliveries[s].key], reached[deliveries[s].key])

\* An incident opens with a record or with a send under way.
OpenIsSentOrRecorded ==
    \A s \in Signature :
        (groups[s] = "open" /\ crashes = 0 /\ deliveries[s] = NoDelivery)
            => \E c \in Caller : calls[c].phase = "sending" /\ SigOf[calls[c].key] = s

AnnouncedInv == CancelledWasRecorded /\ RecordsTellArrival /\ OpenIsSentOrRecorded

\* A record that stays, or whose incident went over.
RecordsKept ==
    \A s \in Signature : deliveries[s] # NoDelivery => deliveries'[s] # NoDelivery

\* The three parts of AnnouncedInv after a step.  A row that a step calls off has a
\* record of its incident.
LEMMA CancelledStep ==
    ASSUME TypeOK, CancelledWasRecorded, RecordsKept,
           \A k \in Key : outbox'[k].state = "cancelled" =>
              \/ outbox[k].state = "cancelled"
              \/ SigOf[k] \in Signature /\ deliveries'[SigOf[k]] # NoDelivery
    PROVE  CancelledWasRecorded'
  BY DEF CancelledWasRecorded, RecordsKept

\* Records tell the truth after a step that leaves each of them alone, or writes
\* one that does; what arrived has arrived, and what waited still does or arrived.
LEMMA RecordsStep ==
    ASSUME IInv, RecordsTellArrival, spent \subseteq spent',
           \A k \in Key : reached[k] > 0 => reached'[k] > 0,
           \A k \in Key : held[k] \in {"held", "due"} =>
              held'[k] \in {"held", "due"} \/ reached'[k] > 0 \/ k \in spent',
           \A s \in Signature :
              (deliveries'[s] # deliveries[s] /\ deliveries'[s] # NoDelivery
                 /\ deliveries'[s].key \notin spent')
                 => RecordTells(deliveries'[s], held'[deliveries'[s].key],
                                reached'[deliveries'[s].key])
    PROVE  RecordsTellArrival'
<1> SUFFICES ASSUME NEW s \in Signature,
                    deliveries'[s] # NoDelivery, deliveries'[s].key \notin spent'
             PROVE  RecordTells(deliveries'[s], held'[deliveries'[s].key],
                                reached'[deliveries'[s].key])
  BY DEF RecordsTellArrival, RecordTells
<1>1. CASE deliveries'[s] # deliveries[s]
  BY <1>1
<1>2. CASE deliveries'[s] = deliveries[s]
  <2>1. deliveries[s].key \in Key
    BY <1>2, DeliveriesTyped DEF IInv, DeliveryTable, Delivery
  <2>2. RecordTells(deliveries[s], held[deliveries[s].key], reached[deliveries[s].key])
    BY <1>2 DEF RecordsTellArrival
  <2> QED
    BY <1>2, <2>1, <2>2 DEF RecordTells
<1> QED
  BY <1>1, <1>2

\* An incident that is open without a record was open before, and its send goes
\* on, or a send begins.
LEMMA OpenStep ==
    ASSUME OpenIsSentOrRecorded, RecordsKept,
           \/ crashes' # 0
           \/ /\ crashes' = crashes
              /\ \A s \in Signature :
                    (groups'[s] = "open" /\ deliveries'[s] = NoDelivery) =>
                       \/ /\ groups[s] = "open"
                          /\ \A c \in Caller :
                                (calls[c].phase = "sending" /\ SigOf[calls[c].key] = s)
                                   => calls'[c].phase = "sending" /\ calls'[c].key = calls[c].key
                       \/ \E c \in Caller :
                             calls'[c].phase = "sending" /\ SigOf[calls'[c].key] = s
    PROVE  OpenIsSentOrRecorded'
  BY DEF OpenIsSentOrRecorded, RecordsKept

LEMMA AnnouncedNext ==
    ASSUME CancelledWasRecorded', RecordsTellArrival', OpenIsSentOrRecorded'
    PROVE  AnnouncedInv'
  BY DEF AnnouncedInv

\* A claim leaves a row that was not called off as one that is not.
LEMMA ClaimKeepsCalledOff ==
    ASSUME TypeOK, NEW k \in Key, NEW answer, outbox' = Claimed(k, answer)
    PROVE  \A l \in Key : outbox'[l].state = "cancelled" => outbox[l].state = "cancelled"
<1> DEFINE row == ClaimedRow(outbox[k])
<1>1. row.state = "cancelled" => outbox[k].state = "cancelled"
  BY DEF ClaimedRow
<1>2. UNCHANGED outbox \/ outbox' = [outbox EXCEPT ![k] = row]
  BY DEF Claimed
<1> HIDE DEF row
<1> QED
  BY <1>1, <1>2 DEF TypeOK

\* An answer of the transport calls nothing off.
LEMMA SettleKeepsCalledOff ==
    ASSUME TypeOK, NEW k \in Key, NEW outcome \in Outcome, outbox' = Settled(k, outcome)
    PROVE  \A l \in Key : outbox'[l].state = "cancelled" => outbox[l].state = "cancelled"
<1> DEFINE row == SettledRow(outbox[k], outcome)
<1>1. row.state # "cancelled"
  BY DEF SettledRow, Outcome, TypeOK, OutboxRow
<1>2. UNCHANGED outbox \/ outbox' = [outbox EXCEPT ![k] = row]
  BY DEF Settled
<1> HIDE DEF row
<1> QED
  BY <1>1, <1>2 DEF TypeOK

\* A claim is answered "sent" only for a row that says so.
LEMMA AnsweredSent ==
    ASSUME IInv, NEW k \in Key, NEW answer \in ClaimAnswers(outbox[k]), answer = "sent"
    PROVE  reached[k] > 0
<1>1. outbox[k].state = "sent"
  <2>1. CASE outbox[k].state = "none"
    BY <2>1 DEF ClaimAnswers, Sendable
  <2>2. CASE outbox[k].state # "none" /\ Sendable(outbox[k])
    BY <2>2 DEF ClaimAnswers
  <2>3. CASE outbox[k].state # "none" /\ ~Sendable(outbox[k])
    BY <2>3 DEF ClaimAnswers
  <2> QED
    BY <2>1, <2>2, <2>3
<1> QED
  BY <1>1 DEF IInv, OutboxInv, RowsTellArrival, TellsArrival

\* Recording the fate of a notice writes the record of its own incident.
LEMMA RecordedOne ==
    ASSUME IInv, NEW k \in Key, NEW state \in DeliveryState, deliveries' = Recorded(k, state)
    PROVE  /\ RecordsKept
           /\ \A s \in Signature :
                 \/ deliveries'[s] = deliveries[s] /\ SigOf[k] # s
                 \/ SigOf[k] = s /\ deliveries'[s] = [state |-> state, key |-> k]
           /\ SigOf[k] # NoSignature => deliveries'[SigOf[k]] # NoDelivery
<1>1. SigOf[k] = NoSignature \/ SigOf[k] \in Signature
  BY SignatureAssumption
<1>2. [state |-> state, key |-> k] # NoDelivery
  BY DEF NoDelivery, DeliveryState
<1> DEFINE record == [state |-> state, key |-> k]
<1>3. deliveries' = IF SigOf[k] = NoSignature THEN deliveries
                    ELSE [deliveries EXCEPT ![SigOf[k]] = record]
  BY DEF Recorded
<1> HIDE DEF record
<1>4. record # NoDelivery /\ record = [state |-> state, key |-> k]
  BY <1>2 DEF record
<1>5. DOMAIN deliveries = Signature
  BY DEF IInv, TypeOK
<1>6. CASE SigOf[k] = NoSignature
  BY <1>3, <1>6, SignatureAssumption DEF RecordsKept
<1>7. CASE SigOf[k] \in Signature
  <2>1. /\ deliveries'[SigOf[k]] = record
        /\ \A s \in Signature : s # SigOf[k] => deliveries'[s] = deliveries[s]
    BY <1>3, <1>5, <1>7, SignatureAssumption
  <2> QED
    BY <1>4, <1>7, <2>1 DEF RecordsKept
<1> QED
  BY <1>1, <1>6, <1>7

\* Marking a notice changes the state of its record, and only of its record.
LEMMA MarkedOne ==
    ASSUME IInv, NEW k \in Key, NEW state \in DeliveryState, deliveries' = Marked(k, state)
    PROVE  /\ RecordsKept
           /\ \A s \in Signature :
                 \/ deliveries'[s] = deliveries[s]
                 \/ /\ deliveries[s] # NoDelivery /\ deliveries[s].key = k
                    /\ deliveries'[s] # NoDelivery
                    /\ deliveries'[s].key = k /\ deliveries'[s].state = state
<1>1. ASSUME NEW s \in Signature, deliveries[s] # NoDelivery, deliveries[s].key = k
      PROVE  /\ [deliveries[s] EXCEPT !.state = state].key = k
             /\ [deliveries[s] EXCEPT !.state = state].state = state
             /\ [deliveries[s] EXCEPT !.state = state] # NoDelivery
  <2>1. deliveries[s] \in Delivery
    BY <1>1, DeliveriesTyped DEF DeliveryTable, IInv
  <2> QED
    BY <1>1, <2>1 DEF Delivery, NoDelivery, DeliveryState
<1> QED
  BY <1>1 DEF Marked, RecordsKept

-----------------------------------------------------------------------------
\* Every step keeps the records

\* A sender that goes on, apart from at most one process that does not send.
LEMMA OthersSend ==
    ASSUME TypeOK, NEW p \in Process, NEW call, calls' = [calls EXCEPT ![p] = call],
           p \in Caller => calls[p].phase # "sending"
    PROVE  \A c \in Caller : calls[c].phase = "sending" => calls'[c] = calls[c]
  BY DEF TypeOK, Process

LEMMA AdmitHeldAnnounced ==
    ASSUME IInv, AnnouncedInv, NEW c \in Caller, NEW k \in Key, admitHeld(c, k)
    PROVE  AnnouncedInv'
<1>1. /\ deliveries' = Recorded(k, "held") /\ held' = Hold(k) /\ groups' = Opened(k)
      /\ UNCHANGED <<outbox, calls, reached, spent, crashes>>
  BY DEF admitHeld
<1>2. /\ RecordsKept
      /\ \A s \in Signature :
            \/ deliveries'[s] = deliveries[s] /\ SigOf[k] # s
            \/ SigOf[k] = s /\ deliveries'[s] = [state |-> "held", key |-> k]
      /\ SigOf[k] # NoSignature => deliveries'[SigOf[k]] # NoDelivery
  BY <1>1, RecordedOne DEF DeliveryState
<1>3. /\ held'[k] \in {"held", "due"}
      /\ \A l \in Key : held[l] \in {"held", "due"} => held'[l] \in {"held", "due"}
  BY <1>1 DEF Hold, IInv, TypeOK
<1>4. CancelledWasRecorded'
  BY <1>1, <1>2, CancelledStep DEF IInv, AnnouncedInv
<1>5. RecordsTellArrival'
  <2>1. ASSUME NEW s \in Signature, deliveries'[s] # deliveries[s]
        PROVE  RecordTells(deliveries'[s], held'[deliveries'[s].key],
                           reached'[deliveries'[s].key])
    BY <1>2, <1>3, <2>1 DEF RecordTells
  <2> QED
    BY <1>1, <1>3, <2>1, RecordsStep DEF AnnouncedInv
<1>6. OpenIsSentOrRecorded'
  <2>1. ASSUME NEW s \in Signature, groups'[s] = "open", deliveries'[s] = NoDelivery
        PROVE  groups[s] = "open"
    <3>1. SigOf[k] # s
      BY <1>2, <2>1, SignatureAssumption
    <3> QED
      BY <1>1, <2>1, <3>1 DEF Opened, IInv, TypeOK
  <2> QED
    BY <1>1, <1>2, <2>1, OpenStep DEF AnnouncedInv
<1> QED
  BY <1>4, <1>5, <1>6, AnnouncedNext

LEMMA AdmitSentAnnounced ==
    ASSUME IInv, AnnouncedInv, NEW c \in Caller, NEW k \in Key, NEW bypasses,
           admitSent(c, k, bypasses)
    PROVE  AnnouncedInv'
<1>1. PICK answer \in ClaimAnswers(outbox[k]) :
         /\ outbox' = Claimed(k, answer)
         /\ IF answer = "sending"
            THEN calls' = [calls EXCEPT ![c] = Send(k, {})] /\ UNCHANGED deliveries
            ELSE deliveries' = Recorded(k, AdmissionState(answer)) /\ UNCHANGED calls
  BY DEF admitSent
<1>2. /\ calls[c] = Idle /\ groups' = Opened(k)
      /\ UNCHANGED <<held, reached, quiet, spent, crashes>>
  BY DEF admitSent
<1>3. \A l \in Key : outbox'[l].state = "cancelled" => outbox[l].state = "cancelled"
  BY <1>1, ClaimKeepsCalledOff DEF IInv
<1>4. \A s \in Signature : s # SigOf[k] => groups'[s] = groups[s]
  BY <1>2 DEF Opened, IInv, TypeOK
<1>5. CASE answer = "sending"
  <2>1. calls' = [calls EXCEPT ![c] = Send(k, {})] /\ UNCHANGED deliveries
    BY <1>1, <1>5
  <2>2. RecordsKept
    BY <2>1 DEF RecordsKept
  <2>3. /\ calls'[c].phase = "sending" /\ calls'[c].key = k
        /\ \A d \in Caller : calls[d].phase = "sending" => calls'[d] = calls[d]
    <3>1. c \in Process /\ calls[c].phase # "sending"
      BY <1>2, IdleIsNotSending DEF Process
    <3>2. calls'[c] = Send(k, {})
      BY <2>1, <3>1 DEF IInv, TypeOK
    <3>3. \A d \in Caller : calls[d].phase = "sending" => calls'[d] = calls[d]
      BY <2>1, <3>1, OthersSend DEF IInv
    <3> QED
      BY <3>2, <3>3 DEF Send
  <2>4. CancelledWasRecorded'
    BY <1>3, <2>2, CancelledStep DEF IInv, AnnouncedInv
  <2>5. RecordsTellArrival'
    BY <1>2, <2>1, RecordsStep DEF AnnouncedInv
  <2>6. OpenIsSentOrRecorded'
    BY <1>2, <1>4, <2>2, <2>3, OpenStep DEF AnnouncedInv
  <2> QED
    BY <2>4, <2>5, <2>6, AnnouncedNext
<1>6. CASE answer # "sending"
  <2> DEFINE state == AdmissionState(answer)
  <2>1. deliveries' = Recorded(k, state) /\ UNCHANGED calls
    BY <1>1, <1>6
  <2>2. state \in DeliveryState /\ (state = "delivered" => answer = "sent") /\ state # "held"
    BY <1>6, AnswerKinds DEF AdmissionState, DeliveryState
  <2> HIDE DEF state
  <2>3. /\ RecordsKept
        /\ \A s \in Signature :
              \/ deliveries'[s] = deliveries[s] /\ SigOf[k] # s
              \/ SigOf[k] = s /\ deliveries'[s] = [state |-> state, key |-> k]
        /\ SigOf[k] # NoSignature => deliveries'[SigOf[k]] # NoDelivery
    BY <2>1, <2>2, RecordedOne
  <2>4. state = "delivered" => reached[k] > 0
    BY <2>2, AnsweredSent
  <2>5. CancelledWasRecorded'
    BY <1>3, <2>3, CancelledStep DEF IInv, AnnouncedInv
  <2>6. RecordsTellArrival'
    <3>1. ASSUME NEW s \in Signature, deliveries'[s] # deliveries[s]
          PROVE  RecordTells(deliveries'[s], held'[deliveries'[s].key],
                             reached'[deliveries'[s].key])
      BY <1>2, <2>2, <2>3, <2>4, <3>1 DEF RecordTells
    <3> QED
      BY <1>2, <3>1, RecordsStep DEF AnnouncedInv
  <2>7. OpenIsSentOrRecorded'
    <3>1. ASSUME NEW s \in Signature, groups'[s] = "open", deliveries'[s] = NoDelivery
          PROVE  groups[s] = "open"
      BY <1>4, <2>3, <3>1, SignatureAssumption
    <3> QED
      BY <1>2, <2>1, <2>3, <3>1, OpenStep DEF AnnouncedInv
  <2> QED
    BY <2>5, <2>6, <2>7, AnnouncedNext
<1> QED
  BY <1>5, <1>6

LEMMA RecoverSilentlyAnnounced ==
    ASSUME IInv, AnnouncedInv, NEW s \in Signature, recoverSilently(s)
    PROVE  AnnouncedInv'
<1> DEFINE k == deliveries[s].key
           marked == Marked(k, "cancelled")
<1>1. deliveries[s] # NoDelivery /\ deliveries[s] \in Delivery /\ k \in Key /\ SigOf[k] = s
  BY DeliveriesTyped DEF recoverSilently, CountsAsDelivered, DeliveryTable, Delivery, IInv
<1>2. /\ groups' = [groups EXCEPT ![s] = "recovered"]
      /\ outbox' = [outbox EXCEPT ![k].state = "cancelled"] \/ UNCHANGED outbox
      /\ held' = [held EXCEPT ![k] = IF @ \in {"held", "due"} THEN "released" ELSE @]
      /\ deliveries' = [marked EXCEPT ![s].state = "cancelled"]
      /\ spent' = spent \cup RaisedFor(s)
      /\ UNCHANGED <<calls, reached, quiet, crashes>>
  BY DEF recoverSilently, Recovered
<1>3. /\ deliveries'[s] # NoDelivery /\ deliveries'[s].key = k
      /\ deliveries'[s].state = "cancelled"
      /\ \A t \in Signature : t # s => deliveries'[t] = deliveries[t]
  <2>1. /\ marked \in [Signature -> {NoDelivery} \cup Delivery]
        /\ marked[s] = [deliveries[s] EXCEPT !.state = "cancelled"]
    BY <1>1, MarkedTable DEF IInv, DeliveryState, DeliveryTable, Marked
  <2>2. \A t \in Signature : t # s => marked[t] = deliveries[t]
    BY <1>1 DEF Marked, IInv, DeliveriesAreTheirOwn
  <2> HIDE DEF marked
  <2>3. deliveries'[s] = [marked[s] EXCEPT !.state = "cancelled"]
        /\ \A t \in Signature : t # s => deliveries'[t] = deliveries[t]
    BY <1>2, <2>1, <2>2
  <2> QED
    BY <1>1, <2>1, <2>3 DEF Delivery, NoDelivery
<1>4. RecordsKept
  BY <1>3 DEF RecordsKept
<1>5. CancelledWasRecorded'
  <2>1. \A l \in Key : outbox'[l].state = "cancelled" => outbox[l].state = "cancelled" \/ l = k
    BY <1>2 DEF IInv, TypeOK
  <2> QED
    BY <1>1, <1>3, <1>4, <2>1, CancelledStep DEF IInv, AnnouncedInv
<1>6. RecordsTellArrival'
  <2>1. ASSUME held[k] \in {"held", "due"}
        PROVE  k \in spent'
    BY <1>1, <1>2, <2>1 DEF RaisedFor, Raised
  <2>2. \A l \in Key : held[l] \in {"held", "due"} => held'[l] = held[l] \/ l = k
    BY <1>2 DEF IInv, TypeOK
  <2>3. ASSUME NEW t \in Signature, deliveries'[t] # deliveries[t]
        PROVE  RecordTells(deliveries'[t], held'[deliveries'[t].key],
                           reached'[deliveries'[t].key])
    BY <1>3, <2>3 DEF RecordTells
  <2> HIDE DEF k
  <2> QED
    BY <1>2, <2>1, <2>2, <2>3, RecordsStep DEF AnnouncedInv
<1>7. OpenIsSentOrRecorded'
  <2>1. \A t \in Signature : groups'[t] = "open" => groups[t] = "open"
    BY <1>2 DEF IInv, TypeOK
  <2> QED
    BY <1>2, <1>4, <2>1, OpenStep DEF AnnouncedInv
<1> QED
  BY <1>5, <1>6, <1>7, AnnouncedNext

LEMMA RecoverAnnouncedAnnounced ==
    ASSUME IInv, AnnouncedInv, NEW c \in Caller, NEW s \in Signature, NEW k \in Key,
           recoverAnnounced(c, s, k)
    PROVE  AnnouncedInv'
<1>1. /\ calls[c] = Idle /\ CountsAsDelivered(s)
      /\ groups' = [groups EXCEPT ![s] = "recovered"]
      /\ deliveries' = IF deliveries[s] = NoDelivery THEN deliveries
                       ELSE [deliveries EXCEPT ![s].state = "delivered"]
      /\ spent' = spent \cup RaisedFor(s)
      /\ UNCHANGED <<reached, quiet, crashes>>
  BY DEF recoverAnnounced, Recovered
<1>2. \/ held' = Hold(k) /\ UNCHANGED <<calls, outbox>>
      \/ /\ UNCHANGED held
         /\ \E answer \in ClaimAnswers(outbox[k]) :
               /\ outbox' = Claimed(k, answer)
               /\ calls' = IF answer = "sending" THEN [calls EXCEPT ![c] = Send(k, {})]
                           ELSE calls
  BY DEF recoverAnnounced
<1>3. /\ \A t \in Signature : t # s => deliveries'[t] = deliveries[t]
      /\ deliveries[s] # NoDelivery =>
            /\ deliveries'[s] # NoDelivery /\ deliveries'[s].key = deliveries[s].key
            /\ deliveries'[s].state = "delivered"
      /\ deliveries[s] = NoDelivery => deliveries'[s] = NoDelivery
  <2>1. CASE deliveries[s] = NoDelivery
    BY <1>1, <2>1
  <2>2. CASE deliveries[s] # NoDelivery
    <3>1. deliveries[s] \in Delivery
      BY <2>2 DEF IInv, TypeOK
    <3>2. /\ deliveries'[s] = [deliveries[s] EXCEPT !.state = "delivered"]
          /\ \A t \in Signature : t # s => deliveries'[t] = deliveries[t]
      BY <1>1, <2>2 DEF IInv, TypeOK
    <3> QED
      BY <2>2, <3>1, <3>2 DEF Delivery, NoDelivery
  <2> QED
    BY <2>1, <2>2
<1>4. RecordsKept
  BY <1>3 DEF RecordsKept
<1>5. CancelledWasRecorded'
  <2>1. \A l \in Key : outbox'[l].state = "cancelled" => outbox[l].state = "cancelled"
    BY <1>2, ClaimKeepsCalledOff DEF IInv
  <2> QED
    BY <1>4, <2>1, CancelledStep DEF IInv, AnnouncedInv
<1>6. RecordsTellArrival'
  <2>1. \A l \in Key : held[l] \in {"held", "due"} => held'[l] \in {"held", "due"}
    BY <1>2 DEF Hold, IInv, TypeOK
  <2>2. ASSUME deliveries[s] # NoDelivery, deliveries[s].key \notin spent'
        PROVE  reached[deliveries[s].key] > 0
    <3> DEFINE l == deliveries[s].key
    <3>1. l \in Key /\ SigOf[l] = s
      BY <2>2, DeliveriesTyped DEF IInv, DeliveryTable, Delivery
    <3>2. l \notin spent /\ outbox[l] = NoRow
      BY <1>1, <2>2, <3>1 DEF RaisedFor, Raised
    <3>3. telegramDeliveryStatus(l) = "missing"
      BY <3>2 DEF telegramDeliveryStatus, NoRow
    <3>4. deliveries[s].state = "delivered"
      BY <1>1, <2>2, <3>3 DEF CountsAsDelivered
    <3> QED
      BY <2>2, <3>2, <3>4 DEF AnnouncedInv, RecordsTellArrival, RecordTells
  <2>3. ASSUME NEW t \in Signature, deliveries'[t] # deliveries[t],
               deliveries'[t].key \notin spent'
        PROVE  RecordTells(deliveries'[t], held'[deliveries'[t].key],
                           reached'[deliveries'[t].key])
    <3>1. t = s /\ deliveries[s] # NoDelivery
      BY <1>3, <2>3
    <3>2. /\ deliveries'[s].state = "delivered" /\ deliveries'[s].key = deliveries[s].key
          /\ reached[deliveries[s].key] > 0
      BY <1>3, <2>2, <2>3, <3>1
    <3> QED
      BY <1>1, <3>1, <3>2 DEF RecordTells
  <2> QED
    BY <1>1, <2>1, <2>3, RecordsStep DEF AnnouncedInv
<1>7. OpenIsSentOrRecorded'
  <2>1. \A t \in Signature : groups'[t] = "open" => groups[t] = "open"
    BY <1>1 DEF IInv, TypeOK
  <2>2. \A d \in Caller : calls[d].phase = "sending" => calls'[d] = calls[d]
    <3>1. c \in Process /\ calls[c].phase # "sending"
      BY <1>1, IdleIsNotSending DEF Process
    <3>2. UNCHANGED calls \/ calls' = [calls EXCEPT ![c] = Send(k, {})]
      BY <1>2
    <3> QED
      BY <3>1, <3>2, OthersSend DEF IInv
  <2> QED
    BY <1>1, <1>4, <2>1, <2>2, OpenStep DEF AnnouncedInv
<1> QED
  BY <1>5, <1>6, <1>7, AnnouncedNext

\* The end of a send that arrived, if it says so, keeps the records; one that is
\* thrown is one that a recovery called off.
LEMMA AfterAnnounced ==
    ASSUME IInv, AnnouncedInv, NEW p \in Process, NEW k \in Key, NEW todo \in SUBSET Key,
           NEW outcome \in Outcome, After(p, k, outcome, todo),
           outcome = "sent" => reached[k] > 0,
           calls[p].phase = "sending" => calls[p].key = k,
           outcome = "thrown" => outbox[k].state = "cancelled",
           p \in Caller => calls[p].phase = "sending",
           \A l \in Key : outbox'[l].state = "cancelled" => outbox[l].state = "cancelled",
           UNCHANGED <<groups, reached, quiet, spent, crashes>>
    PROVE  AnnouncedInv'
<1>1. CASE /\ p \in Caller
           /\ deliveries' = IF outcome = "thrown" THEN deliveries
                            ELSE Recorded(k, AdmissionState(outcome))
           /\ calls' = [calls EXCEPT ![p] = Idle]
           /\ UNCHANGED held
  <2> DEFINE state == AdmissionState(outcome)
  <2>1. /\ RecordsKept
        /\ SigOf[k] # NoSignature => deliveries'[SigOf[k]] # NoDelivery
        /\ \A s \in Signature : deliveries'[s] # deliveries[s] =>
              /\ deliveries'[s].key = k /\ deliveries'[s].state # "held"
              /\ deliveries'[s].state = "delivered" => reached[k] > 0
    <3>1. CASE outcome = "thrown"
      <4>1. SigOf[k] \in Signature /\ deliveries[SigOf[k]] # NoDelivery
        BY <3>1 DEF AnnouncedInv, CancelledWasRecorded
      <4> QED
        BY <1>1, <3>1, <4>1 DEF RecordsKept
    <3>2. CASE outcome # "thrown"
      <4>1. state \in DeliveryState /\ (state = "delivered" => outcome = "sent") /\ state # "held"
        BY <3>2 DEF AdmissionState, DeliveryState, Outcome
      <4>2. deliveries' = Recorded(k, state)
        BY <1>1, <3>2
      <4> HIDE DEF state
      <4>3. /\ RecordsKept
            /\ \A s \in Signature :
                  deliveries'[s] # deliveries[s] => deliveries'[s] = [state |-> state, key |-> k]
            /\ SigOf[k] # NoSignature => deliveries'[SigOf[k]] # NoDelivery
        BY <4>1, <4>2, RecordedOne
      <4> QED
        BY <4>1, <4>3
    <3> QED
      BY <3>1, <3>2
  <2>2. CancelledWasRecorded'
    BY <2>1, CancelledStep DEF IInv, AnnouncedInv
  <2>3. RecordsTellArrival'
    <3>1. ASSUME NEW s \in Signature, deliveries'[s] # deliveries[s]
          PROVE  RecordTells(deliveries'[s], held'[deliveries'[s].key],
                             reached'[deliveries'[s].key])
      BY <2>1, <3>1 DEF RecordTells
    <3> QED
      BY <1>1, <3>1, RecordsStep DEF AnnouncedInv
  <2>4. OpenIsSentOrRecorded'
    <3>1. ASSUME NEW s \in Signature, deliveries'[s] = NoDelivery, NEW c \in Caller,
                 calls[c].phase = "sending", SigOf[calls[c].key] = s
          PROVE  calls'[c] = calls[c]
      <4>1. c # p
        BY <2>1, <3>1, SignatureAssumption
      <4> QED
        BY <1>1, <4>1
    <3> QED
      BY <2>1, <3>1, OpenStep DEF AnnouncedInv
  <2> QED
    BY <2>2, <2>3, <2>4, AnnouncedNext
<1>2. ASSUME p \in Sweep, NEW call, calls' = [calls EXCEPT ![p] = call], RecordsKept
      PROVE  CancelledWasRecorded' /\ OpenIsSentOrRecorded'
  <2>1. CancelledWasRecorded'
    BY <1>2, CancelledStep DEF IInv, AnnouncedInv
  <2>2. \A c \in Caller : c # p
    BY <1>2, SweepsAreNoCallers DEF Sweep
  <2>3. \A c \in Caller : calls'[c] = calls[c]
    BY <1>2, <2>2
  <2> QED
    BY <1>2, <2>1, <2>3, OpenStep DEF AnnouncedInv
<1>3. CASE /\ p = "release"
           /\ held' = Released(k, outcome)
           /\ deliveries' = ReleaseMark(k, outcome)
           /\ calls' = [calls EXCEPT ![p] = Rest(todo)]
  <2>1. /\ RecordsKept
        /\ \A s \in Signature : deliveries'[s] # deliveries[s] =>
              /\ deliveries'[s].key = k /\ deliveries'[s].state # "held"
              /\ deliveries'[s].state = "delivered" => reached[k] > 0
    <3>1. /\ outcome = "sent" => deliveries' = Marked(k, "delivered")
          /\ outcome \in {"retryable", "final"} => deliveries' = Marked(k, "pending")
          /\ outcome = "thrown" => deliveries' = deliveries
      BY <1>3 DEF ReleaseMark, Outcome
    <3>2. CASE outcome = "thrown"
      BY <3>1, <3>2 DEF RecordsKept
    <3>3. CASE outcome = "sent"
      BY <3>1, <3>3, MarkedOne DEF DeliveryState
    <3>4. CASE outcome \in {"retryable", "final"}
      BY <3>1, <3>4, MarkedOne DEF DeliveryState
    <3> QED
      BY <3>2, <3>3, <3>4 DEF Outcome
  <2>2. RecordsTellArrival'
    <3>1. \A l \in Key : held[l] \in {"held", "due"} =>
             held'[l] \in {"held", "due"} \/ reached[l] > 0
      BY <1>3 DEF Released, IInv, TypeOK
    <3>2. ASSUME NEW s \in Signature, deliveries'[s] # deliveries[s]
          PROVE  RecordTells(deliveries'[s], held'[deliveries'[s].key],
                             reached'[deliveries'[s].key])
      BY <2>1, <3>2 DEF RecordTells
    <3> QED
      BY <3>1, <3>2, RecordsStep DEF AnnouncedInv
  <2> QED
    BY <1>2, <1>3, <2>1, <2>2, AnnouncedNext DEF Sweep
<1>4. CASE /\ p = "retry"
           /\ calls' = [calls EXCEPT ![p] = Rest(IF outcome = "thrown" THEN {} ELSE todo)]
           /\ UNCHANGED <<held, deliveries>>
  <2>1. RecordsKept
    BY <1>4 DEF RecordsKept
  <2>2. RecordsTellArrival'
    BY <1>4, RecordsStep DEF AnnouncedInv
  <2> QED
    BY <1>2, <1>4, <2>1, <2>2, AnnouncedNext DEF Sweep
<1> QED
  BY <1>1, <1>3, <1>4 DEF After

LEMMA SweepClaimsAnnounced ==
    ASSUME IInv, AnnouncedInv, NEW p \in Sweep, sweepClaims(p)
    PROVE  AnnouncedInv'
<1> DEFINE k == CHOOSE x \in calls[p].todo : TRUE
           todo == calls[p].todo \ {k}
<1>1. p \in Process /\ calls[p].phase = "next" /\ p \notin Caller
  BY SweepsAreNoCallers DEF sweepClaims, Process, Sweep
<1>2. k \in Key /\ todo \in SUBSET Key
  BY <1>1, CallTypes DEF IInv, SweepsHaveRows
<1>3. PICK answer \in ClaimAnswers(outbox[k]) :
         /\ outbox' = Claimed(k, answer)
         /\ \/ /\ answer = "sending"
               /\ calls' = [calls EXCEPT ![p] = Send(k, todo)]
               /\ UNCHANGED <<held, deliveries>>
            \/ answer # "sending" /\ After(p, k, answer, todo)
  BY DEF sweepClaims
<1>4. UNCHANGED <<groups, reached, quiet, spent, crashes>>
  BY DEF sweepClaims
<1> HIDE DEF k, todo
<1>5. \A l \in Key : outbox'[l].state = "cancelled" => outbox[l].state = "cancelled"
  BY <1>2, <1>3, ClaimKeepsCalledOff DEF IInv
<1>6. CASE /\ answer = "sending"
           /\ calls' = [calls EXCEPT ![p] = Send(k, todo)]
           /\ UNCHANGED <<held, deliveries>>
  <2>1. RecordsKept /\ \A c \in Caller : calls'[c] = calls[c]
    BY <1>1, <1>6 DEF RecordsKept
  <2>2. CancelledWasRecorded'
    BY <1>5, <2>1, CancelledStep DEF IInv, AnnouncedInv
  <2>3. RecordsTellArrival'
    BY <1>4, <1>6, RecordsStep DEF AnnouncedInv
  <2>4. OpenIsSentOrRecorded'
    BY <1>4, <2>1, OpenStep DEF AnnouncedInv
  <2> QED
    BY <2>2, <2>3, <2>4, AnnouncedNext
<1>7. CASE answer # "sending" /\ After(p, k, answer, todo)
  <2>1. answer \in Outcome /\ answer # "thrown"
    BY <1>2, <1>7, AnswerKinds DEF Outcome
  <2>2. answer = "sent" => reached[k] > 0
    BY <1>2, AnsweredSent
  <2> QED
    BY <1>1, <1>2, <1>4, <1>5, <1>7, <2>1, <2>2, AfterAnnounced
<1> QED
  BY <1>3, <1>6, <1>7

LEMMA TransportAnswersAnnounced ==
    ASSUME IInv, AnnouncedInv, NEW p \in Process, NEW outcome \in Outcome,
           transportAnswers(p, outcome)
    PROVE  AnnouncedInv'
<1> DEFINE k == calls[p].key
           todo == calls[p].todo
           surfaced == Surfaces(k, outcome)
<1>1. /\ calls[p].phase = "sending" /\ outcome \in Outcomes(calls[p].arrived)
      /\ outbox' = Settled(k, outcome) /\ After(p, k, surfaced, todo)
      /\ UNCHANGED <<groups, reached, quiet, spent, crashes>>
  BY DEF transportAnswers
<1>2. k \in Key /\ todo \in SUBSET Key /\ calls[p].arrived \in BOOLEAN
  BY <1>1, CallTypes DEF IInv
<1>3. /\ surfaced \in Outcome
      /\ surfaced = "sent" => outcome = "sent"
      /\ surfaced = "thrown" => outbox[k].state # "in-flight"
  BY DEF Surfaces, Outcome
<1>4. outcome = "sent" => calls[p].arrived
  BY <1>1 DEF Outcomes
<1>5. surfaced = "sent" => reached[k] > 0
  BY <1>1, <1>3, <1>4 DEF IInv, OutboxInv, SendersOwnTheirRow
<1>6. surfaced = "thrown" => outbox[k].state = "cancelled"
  BY <1>1, <1>3 DEF IInv, OutboxInv, SendersOwnTheirRow
<1>7. \A l \in Key : outbox'[l].state = "cancelled" => outbox[l].state = "cancelled"
  BY <1>1, <1>2, SettleKeepsCalledOff DEF IInv
<1>8. calls[p].phase = "sending" => calls[p].key = k
  OBVIOUS
<1> HIDE DEF k, todo, surfaced
<1> QED
  BY <1>1, <1>2, <1>3, <1>5, <1>6, <1>7, <1>8, AfterAnnounced

\* A step that leaves the records, the group of each incident and the requests
\* alone.
LEMMA QuietStep ==
    ASSUME IInv, AnnouncedInv, UNCHANGED <<deliveries, groups, spent, crashes>>,
           \A k \in Key : outbox'[k].state = "cancelled" => outbox[k].state = "cancelled",
           \A k \in Key : reached[k] > 0 => reached'[k] > 0,
           \A k \in Key : held[k] \in {"held", "due"} => held'[k] \in {"held", "due"},
           \A c \in Caller : calls[c].phase = "sending" =>
              calls'[c].phase = "sending" /\ calls'[c].key = calls[c].key
    PROVE  AnnouncedInv'
<1>1. RecordsKept
  BY DEF RecordsKept
<1>2. CancelledWasRecorded'
  BY <1>1, CancelledStep DEF IInv, AnnouncedInv
<1>3. RecordsTellArrival'
  BY RecordsStep DEF AnnouncedInv
<1>4. OpenIsSentOrRecorded'
  BY <1>1, OpenStep DEF AnnouncedInv
<1> QED
  BY <1>2, <1>3, <1>4, AnnouncedNext

LEMMA StartAnnounced ==
    ASSUME IInv, AnnouncedInv, NEW p \in Sweep, NEW rows \in SUBSET Key, Start(p, rows)
    PROVE  AnnouncedInv'
<1>1. /\ calls' = [calls EXCEPT ![p] = Rest(rows)] /\ p \notin Caller
      /\ UNCHANGED <<groups, deliveries, held, outbox, reached, quiet, spent, crashes>>
  BY SweepsAreNoCallers DEF Start, Sweep, tables
<1>2. \A c \in Caller : calls'[c] = calls[c]
  BY <1>1
<1> QED
  BY <1>1, <1>2, QuietStep

LEMMA ArrivesAnnounced ==
    ASSUME IInv, AnnouncedInv, NEW p \in Process, Arrives(p)
    PROVE  AnnouncedInv'
<1>1. /\ calls[p].phase = "sending" /\ calls' = [calls EXCEPT ![p].arrived = TRUE]
      /\ reached' = [reached EXCEPT ![calls[p].key] = @ + 1]
      /\ UNCHANGED <<groups, deliveries, held, outbox, quiet, spent, crashes>>
  BY DEF Arrives, tables
<1>2. calls[p] \in Sending /\ calls[p].key \in Key /\ calls \in [Process -> {Idle} \cup Sending \cup Sweeping]
  BY <1>1, CallTypes DEF IInv, TypeOK
<1>3. \A q \in Process : calls[q].phase = "sending" =>
         calls'[q].phase = "sending" /\ calls'[q].key = calls[q].key
  <2>1. calls'[p] = [calls[p] EXCEPT !.arrived = TRUE] /\ \A q \in Process : q # p => calls'[q] = calls[q]
    BY <1>1, <1>2
  <2>2. calls'[p].phase = "sending" /\ calls'[p].key = calls[p].key
    BY <1>2, <2>1 DEF Sending
  <2> QED
    BY <2>1, <2>2
<1>4. \A k \in Key : reached[k] > 0 => reached'[k] > 0
  <2>1. reached \in [Key -> 0..MaxArrivals] /\ MaxArrivals \in Nat
    BY NoticeBounds DEF IInv, TypeOK
  <2> QED
    BY <1>1, <1>2, <2>1
<1> QED
  BY <1>1, <1>3, <1>4, QuietStep DEF Process

\* After a crash nothing is said of an open incident without a record.
LEMMA CrashedAnnounced ==
    ASSUME IInv, AnnouncedInv, CrashLosesCalls, spent \subseteq spent',
           \A k \in Key : outbox'[k].state = "cancelled" => outbox[k].state = "cancelled"
    PROVE  AnnouncedInv'
<1>1. UNCHANGED <<held, deliveries, reached>> /\ crashes' # 0
  BY DEF CrashLosesCalls, IInv, TypeOK
<1>2. RecordsKept
  BY <1>1 DEF RecordsKept
<1>3. CancelledWasRecorded'
  BY <1>2, CancelledStep DEF IInv, AnnouncedInv
<1>4. RecordsTellArrival'
  BY <1>1, RecordsStep DEF AnnouncedInv
<1>5. OpenIsSentOrRecorded'
  BY <1>1, <1>2, OpenStep DEF AnnouncedInv
<1> QED
  BY <1>3, <1>4, <1>5, AnnouncedNext

\* The whole next-state relation keeps the records.
LEMMA StepAnnounced == ASSUME IInv, AnnouncedInv, [Next]_vars PROVE AnnouncedInv'
<1>1. CASE Requests
  <2>1. PICK c \in Caller, k \in Key :
           \/ admitHeld(c, k)
           \/ \E bypasses \in BOOLEAN : admitSent(c, k, bypasses)
           \/ \E s \in Signature : recoverAnnounced(c, s, k)
    BY <1>1 DEF Requests
  <2> QED
    BY <2>1, AdmitHeldAnnounced, AdmitSentAnnounced, RecoverAnnouncedAnnounced
<1>2. CASE \E s \in Signature : recoverSilently(s)
  BY <1>2, RecoverSilentlyAnnounced
<1>3. CASE releaseHeld
  <2>1. "release" \in Sweep /\ dueHeldExceptionNotices \in SUBSET Key
    BY DEF Sweep, dueHeldExceptionNotices, Due
  <2> QED
    BY <1>3, <2>1, StartAnnounced DEF releaseHeld
<1>4. CASE retryPendingDeliveries
  <2>1. "retry" \in Sweep /\ pendingTelegramDeliveries \in SUBSET Key
    BY DEF Sweep, pendingTelegramDeliveries
  <2> QED
    BY <1>4, <2>1, StartAnnounced DEF retryPendingDeliveries
<1>5. CASE \E p \in Sweep : sweepClaims(p)
  BY <1>5, SweepClaimsAnnounced
<1>6. CASE \E p \in Process : Arrives(p)
  BY <1>6, ArrivesAnnounced
<1>7. CASE \E p \in Process : Answers(p)
  BY <1>7, TransportAnswersAnnounced DEF Answers
<1>8. CASE QuietBegins
  BY <1>8, QuietStep DEF QuietBegins, tables
<1>9. CASE QuietEnds
  <2>1. \A k \in Key : held[k] \in {"held", "due"} => held'[k] \in {"held", "due"}
    BY <1>9 DEF QuietEnds
  <2> QED
    BY <1>9, <2>1, QuietStep DEF QuietEnds
<1>10. CASE Crash
  BY <1>10, CrashedAnnounced DEF Crash
<1>11. CASE \E p \in Process, outcome \in Outcome : CrashAfterAnswer(p, outcome)
  <2>1. PICK p \in Process, outcome \in Outcome : CrashAfterAnswer(p, outcome)
    BY <1>11
  <2>2. calls[p].key \in Key
    BY <2>1, CallTypes DEF CrashAfterAnswer, IInv
  <2>3. \A k \in Key : outbox'[k].state = "cancelled" => outbox[k].state = "cancelled"
    BY <2>1, <2>2, SettleKeepsCalledOff DEF CrashAfterAnswer, IInv
  <2> QED
    BY <2>1, <2>3, CrashedAnnounced DEF CrashAfterAnswer
<1>12. CASE UNCHANGED vars
  BY <1>12, QuietStep DEF vars
<1> QED
  BY <1>1, <1>2, <1>3, <1>4, <1>5, <1>6, <1>7, <1>8, <1>9, <1>10, <1>11, <1>12
     DEF Next, Sends

\* What the invariant says of an open incident is that it is announced.
LEMMA Announced == ASSUME IInv, AnnouncedInv PROVE OpenIncidentIsAnnounced
<1> SUFFICES ASSUME NEW s \in Signature, groups[s] = "open", crashes = 0,
                    deliveries[s] # NoDelivery => deliveries[s].key \notin spent,
                    ~\E c \in Caller : calls[c].phase = "sending" /\ SigOf[calls[c].key] = s,
                    ~Reopens(s)
             PROVE  /\ deliveries[s] # NoDelivery
                    /\ \/ reached[deliveries[s].key] > 0
                       \/ held[deliveries[s].key] \in {"held", "due"}
                       \/ telegramDeliveryStatus(deliveries[s].key)
                             \in {"pending", "in-flight", "uncertain"}
  BY DEF OpenIncidentIsAnnounced
<1>1. deliveries[s] # NoDelivery /\ deliveries[s].key \notin spent
  BY DEF AnnouncedInv, OpenIsSentOrRecorded
<1>2. deliveries[s] \in Delivery /\ deliveries[s].key \in Key
  BY <1>1 DEF IInv, TypeOK, Delivery
<1> DEFINE k == deliveries[s].key
<1>3. CASE deliveries[s].state \in {"held", "delivered"}
  BY <1>1, <1>3 DEF AnnouncedInv, RecordsTellArrival, RecordTells
<1>4. CASE deliveries[s].state \notin {"held", "delivered"}
  <2>1. telegramDeliveryStatus(k) \notin {"missing", "terminal", "cancelled"}
    BY <1>1, <1>4 DEF Reopens
  <2>2. outbox[k] \in OutboxRow
    BY <1>2 DEF IInv, TypeOK
  <2>3. telegramDeliveryStatus(k) \in {"pending", "in-flight", "uncertain", "sent"}
    BY <2>1, <2>2 DEF telegramDeliveryStatus, OutboxRow
  <2>4. telegramDeliveryStatus(k) = "sent" => outbox[k].state = "sent"
    BY <2>2 DEF telegramDeliveryStatus, OutboxRow
  <2>5. outbox[k].state = "sent" => reached[k] > 0
    BY <1>2 DEF IInv, OutboxInv, RowsTellArrival, TellsArrival
  <2> QED
    BY <1>1, <2>3, <2>4, <2>5
<1> QED
  BY <1>3, <1>4

\* Before any crash, an open incident is not a silent one: its notice arrived or
\* may have, waits for the morning or a retry, is being sent, or the next
\* occurrence sends another.
THEOREM OpenIncidentIsAnnouncedHolds == Spec => []OpenIncidentIsAnnounced
<1>1. Init => AnnouncedInv
  BY DEF Init, AnnouncedInv, CancelledWasRecorded, RecordsTellArrival,
         OpenIsSentOrRecorded, NoRow
<1>2. IInv /\ AnnouncedInv /\ [Next]_vars => AnnouncedInv'
  BY StepAnnounced
<1>3. IInv /\ AnnouncedInv => OpenIncidentIsAnnounced
  BY Announced
<1> QED
  BY <1>1, <1>2, <1>3, Invariant, PTL DEF Spec

-----------------------------------------------------------------------------
\* The refinement of DurableDelivery

\* What callers may know of a notice, by the state of its row.
LEMMA MailOfRow ==
    ASSUME NEW row \in OutboxRow
    PROVE  /\ row.state = "none" => MailOf(row) = "unsent"
           /\ row.state = "in-flight" => MailOf(row) = "sending"
           /\ row.state = "sent" => MailOf(row) = "sent"
           /\ row.state = "uncertain" => MailOf(row) = "abandoned"
           /\ row.state = "cancelled" => MailOf(row) = "called off"
           /\ row.state = "failed" =>
                 MailOf(row) = IF Retryable(row) THEN "unsent" ELSE "abandoned"
  BY DEF MailOf, OutboxRow

LEMMA InitRefines == ASSUME Init PROVE Outbox!Init
<1>1. NoRow \in OutboxRow /\ NoRow.state = "none" /\ NoRow.attempts = 0
  BY NoticeBounds DEF NoRow, OutboxRow
<1>2. MailOf(NoRow) = "unsent"
  BY <1>1, MailOfRow
<1>3. \A k \in Key : outbox[k] = NoRow
  BY DEF Init
<1>4. mailBar = [k \in Key |-> "unsent"]
  BY <1>2, <1>3 DEF mailBar
<1>5. triesBar = [k \in Key |-> 0]
  BY <1>1, <1>3 DEF triesBar
<1> QED
  BY <1>4, <1>5 DEF Init, Outbox!Init

\* A step that writes one row moves one notice.
LEMMA RowStep ==
    ASSUME TypeOK, NEW k \in Key, NEW row, outbox' = [outbox EXCEPT ![k] = row]
    PROVE  /\ mailBar' = [mailBar EXCEPT ![k] = MailOf(row)]
           /\ triesBar' = [triesBar EXCEPT ![k] = row.attempts]
           /\ mailBar[k] = MailOf(outbox[k]) /\ triesBar[k] = outbox[k].attempts
<1>1. mailBar' = [mailBar EXCEPT ![k] = MailOf(row)]
  BY DEF mailBar, TypeOK
<1>2. triesBar' = [triesBar EXCEPT ![k] = row.attempts]
  BY DEF triesBar, TypeOK
<1> QED
  BY <1>1, <1>2 DEF mailBar, triesBar

\* A step that leaves the outbox and the chat alone does not show.
LEMMA OutboxStays ==
    ASSUME UNCHANGED <<outbox, reached>>
    PROVE  [Outbox!Next]_(Outbox!vars)
<1>1. UNCHANGED <<mailBar, triesBar, reached>>
  BY DEF mailBar, triesBar, MailOf, Retryable
<1> QED
  BY <1>1 DEF Outbox!vars

\* A claim that lets its caller send is an attempt, or the late send of a notice
\* that was called off.
LEMMA ClaimRefines ==
    ASSUME IInv, NEW k \in Key, NEW answer \in ClaimAnswers(outbox[k]),
           outbox' = Claimed(k, answer), UNCHANGED reached
    PROVE  [Outbox!Next]_(Outbox!vars)
<1> DEFINE row == outbox[k]
<1>1. outbox \in [Key -> OutboxRow] /\ row \in OutboxRow
  BY DEF IInv, TypeOK
<1>2. CASE answer # "sending"
  BY <1>2, OutboxStays DEF Claimed
<1>3. CASE answer = "sending"
  <2>1. Sendable(row) /\ outbox' = [outbox EXCEPT ![k] = ClaimedRow(row)]
    BY <1>3 DEF ClaimAnswers, Claimed, Sendable
  <2>2. CASE row.state = "cancelled"
    <3>1. ClaimedRow(row) = row
      BY <2>2 DEF ClaimedRow
    <3>2. UNCHANGED outbox
      BY <1>1, <2>1, <3>1
    <3> QED
      BY <3>2, OutboxStays
  <2>3. CASE row.state # "cancelled"
    <3>1. row.state = "none" => row.attempts = 0
      BY DEF IInv, OutboxInv, RowsTellArrival, TellsArrival
    <3>2. row.attempts \in Nat /\ row.attempts < MaxAttempts
      BY <1>1, <2>1, <2>3, <3>1, NoticeBounds DEF Sendable, Retryable, OutboxRow
    <3>8. MailOf(row) = "unsent"
      <4>1. row.state = "none" \/ (row.state = "failed" /\ Retryable(row))
        BY <2>1, <2>3 DEF Sendable
      <4> QED
        BY <1>1, <4>1, MailOfRow
    <3> DEFINE claimed == ClaimedRow(row)
    <3>3. /\ claimed.state = "in-flight" /\ claimed.attempts = row.attempts + 1
          /\ claimed \in OutboxRow
      BY <2>3, <3>2, NoticeBounds DEF ClaimedRow, OutboxRow
    <3>4. MailOf(claimed) = "sending"
      BY <3>3, MailOfRow
    <3>5. outbox' = [outbox EXCEPT ![k] = claimed] /\ TypeOK
      BY <2>1 DEF IInv
    <3> HIDE DEF claimed
    <3>6. /\ mailBar' = [mailBar EXCEPT ![k] = "sending"] /\ mailBar[k] = "unsent"
          /\ triesBar' = [triesBar EXCEPT ![k] = triesBar[k] + 1]
          /\ triesBar[k] < MaxAttempts
      <4>1. /\ mailBar' = [mailBar EXCEPT ![k] = MailOf(claimed)]
            /\ triesBar' = [triesBar EXCEPT ![k] = claimed.attempts]
            /\ mailBar[k] = MailOf(row) /\ triesBar[k] = row.attempts
        BY Zenon, <3>5, RowStep
      <4> QED
        BY <3>2, <3>3, <3>4, <3>8, <4>1
    <3>7. Outbox!Attempt(k)
      BY <3>6 DEF Outbox!Attempt
    <3> QED
      BY <3>7 DEF Outbox!Next
  <2> QED
    BY <2>2, <2>3
<1> QED
  BY <1>2, <1>3

\* The outcome of a send confirms, returns or abandons the notice, unless it was
\* called off meanwhile.
LEMMA SettleRefines ==
    ASSUME IInv, NEW p \in Process, calls[p].phase = "sending",
           NEW outcome \in Outcomes(calls[p].arrived),
           outbox' = Settled(calls[p].key, outcome), UNCHANGED reached
    PROVE  [Outbox!Next]_(Outbox!vars)
<1> DEFINE k == calls[p].key
           row == outbox[k]
           settled == SettledRow(row, outcome)
<1>1. k \in Key /\ row \in OutboxRow /\ reached[k] \in Nat /\ calls[p].arrived \in BOOLEAN
  BY CallTypes, NoticeBounds DEF IInv, TypeOK
<1>2. CASE row.state # "in-flight"
  BY <1>2, OutboxStays DEF Settled
<1>3. CASE row.state = "in-flight"
  <2>1. outbox' = [outbox EXCEPT ![k] = settled] /\ TypeOK
    BY <1>3 DEF Settled, IInv
  <2>2. /\ calls[p].arrived => reached[k] > 0
        /\ ~calls[p].arrived => reached[k] = 0
        /\ reached[k] <= 1 /\ ~row.retryable
    BY <1>1, <1>3
       DEF IInv, OutboxInv, RowsTellArrival, TellsArrival, SendersOwnTheirRow
  <2>3. /\ outcome \in Outcome
        /\ outcome = "sent" => reached[k] = 1
        /\ outcome = "retryable" => reached[k] = 0
    BY <1>1, <2>2 DEF Outcomes, Outcome
  <2>4. /\ settled \in OutboxRow /\ settled.attempts = row.attempts
        /\ outcome = "sent" => settled.state = "sent"
        /\ outcome = "retryable" => settled.state = "failed" /\ settled.retryable
        /\ outcome = "final" => settled.state = "failed" /\ ~settled.retryable
        /\ outcome = "thrown" => settled.state = "uncertain"
    BY <1>1, <2>2, <2>3 DEF SettledRow, OutboxRow, Outcome
  <2>5. /\ outcome = "sent" => MailOf(settled) = "sent"
        /\ outcome = "retryable" =>
              MailOf(settled) = IF row.attempts < MaxAttempts THEN "unsent" ELSE "abandoned"
        /\ outcome \in {"final", "thrown"} => MailOf(settled) = "abandoned"
    BY <2>4, MailOfRow DEF Retryable
  <2>6. MailOf(row) = "sending"
    BY <1>1, <1>3, MailOfRow
  <2> HIDE DEF k, row, settled
  <2>7. /\ mailBar' = [mailBar EXCEPT ![k] = MailOf(settled)] /\ mailBar[k] = "sending"
        /\ triesBar' = [triesBar EXCEPT ![k] = triesBar[k]] /\ triesBar[k] = row.attempts
    <3>1. /\ mailBar' = [mailBar EXCEPT ![k] = MailOf(settled)]
          /\ triesBar' = [triesBar EXCEPT ![k] = settled.attempts]
          /\ mailBar[k] = MailOf(row) /\ triesBar[k] = row.attempts
      BY Zenon, <1>1, <2>1, RowStep DEF row
    <3> QED
      BY <2>4, <2>6, <3>1
  <2>8. UNCHANGED triesBar
    BY <2>7 DEF triesBar
  <2>9. CASE outcome = "sent"
    BY <1>1, <2>3, <2>5, <2>7, <2>8, <2>9 DEF Outbox!Confirm, Outbox!Next
  <2>10. CASE outcome = "retryable" /\ row.attempts < MaxAttempts
    BY <1>1, <2>3, <2>5, <2>7, <2>8, <2>10 DEF Outbox!Return, Outbox!Next
  <2>11. CASE outcome \in {"final", "thrown"}
              \/ (outcome = "retryable" /\ ~(row.attempts < MaxAttempts))
    BY <1>1, <2>5, <2>7, <2>8, <2>11 DEF Outbox!Abandon, Outbox!Next
  <2> QED
    BY <2>3, <2>9, <2>10, <2>11 DEF Outcome
<1> QED
  BY <1>2, <1>3

\* A recovery that finds its notice not delivered calls it off.
LEMMA RecoveryRefines ==
    ASSUME IInv, NEW s \in Signature, recoverSilently(s)
    PROVE  [Outbox!Next]_(Outbox!vars)
<1> DEFINE k == deliveries[s].key
           row == outbox[k]
           cancelled == [row EXCEPT !.state = "cancelled"]
<1>1. deliveries[s] # NoDelivery /\ k \in Key
  BY DeliveriesTyped DEF recoverSilently, CountsAsDelivered, DeliveryTable, Delivery, IInv
<1>2. UNCHANGED reached /\ TypeOK /\ row \in OutboxRow
  BY <1>1 DEF recoverSilently, IInv, TypeOK
<1>3. CASE row.state \in {"failed", "in-flight"}
  <2>1. outbox' = [outbox EXCEPT ![k] = cancelled]
    BY <1>3 DEF recoverSilently
  <2>2. cancelled \in OutboxRow /\ cancelled.state = "cancelled"
        /\ cancelled.attempts = row.attempts
    BY <1>2 DEF OutboxRow
  <2>3. MailOf(cancelled) = "called off" /\ MailOf(row) \in {"unsent", "sending", "abandoned"}
    BY <1>2, <1>3, <2>2, MailOfRow
  <2> HIDE DEF k, row, cancelled
  <2>4. /\ mailBar' = [mailBar EXCEPT ![k] = "called off"]
        /\ mailBar[k] \in {"unsent", "sending", "abandoned"}
        /\ triesBar' = [triesBar EXCEPT ![k] = triesBar[k]]
    <3>1. /\ mailBar' = [mailBar EXCEPT ![k] = MailOf(cancelled)]
          /\ triesBar' = [triesBar EXCEPT ![k] = cancelled.attempts]
          /\ mailBar[k] = MailOf(row) /\ triesBar[k] = row.attempts
      BY Zenon, <1>1, <1>2, <2>1, RowStep DEF row
    <3> QED
      BY <2>2, <2>3, <3>1
  <2>5. UNCHANGED triesBar
    BY <2>4 DEF triesBar
  <2>6. Outbox!CallOff(k)
    BY <1>2, <2>4, <2>5 DEF Outbox!CallOff
  <2> QED
    BY <1>1, <2>6 DEF Outbox!Next
<1>4. CASE row.state \notin {"failed", "in-flight"}
  BY <1>2, <1>4, OutboxStays DEF recoverSilently
<1> QED
  BY <1>3, <1>4

\* A message that arrives is the first one, or its notice was called off.
LEMMA ArrivalRefines ==
    ASSUME IInv, NEW p \in Process, Arrives(p)
    PROVE  [Outbox!Next]_(Outbox!vars)
<1> DEFINE k == calls[p].key
<1>1. k \in Key /\ outbox[k] \in OutboxRow
  BY CallTypes DEF Arrives, IInv, TypeOK
<1>2. /\ outbox[k].state \in {"in-flight", "cancelled"}
      /\ outbox[k].state = "in-flight" => reached[k] = 0
  BY DEF Arrives, IInv, OutboxInv, SendersOwnTheirRow
<1>3. mailBar[k] \in {"sending", "called off"} /\ (mailBar[k] = "sending" => reached[k] = 0)
  BY <1>1, <1>2, MailOfRow DEF mailBar
<1>4. reached' = [reached EXCEPT ![k] = @ + 1] /\ UNCHANGED <<mailBar, triesBar>>
  BY DEF Arrives, tables, mailBar, triesBar, MailOf, Retryable
<1>5. Outbox!Arrive(k)
  BY <1>3, <1>4 DEF Outbox!Arrive
<1> QED
  BY <1>1, <1>5 DEF Outbox!Next

\* Every step of requests, sweeps, recoveries and crashes is one of the promise,
\* or does not show.
LEMMA OutboxStep == ASSUME IInv, [Next]_vars PROVE [Outbox!Next]_(Outbox!vars)
<1>1. CASE Requests
  <2>1. PICK c \in Caller, k \in Key :
           \/ admitHeld(c, k)
           \/ \E bypasses \in BOOLEAN : admitSent(c, k, bypasses)
           \/ \E s \in Signature : recoverAnnounced(c, s, k)
    BY <1>1 DEF Requests
  <2>2. \/ UNCHANGED <<outbox, reached>>
        \/ /\ UNCHANGED reached
           /\ \E answer \in ClaimAnswers(outbox[k]) : outbox' = Claimed(k, answer)
    BY <2>1 DEF admitHeld, admitSent, recoverAnnounced
  <2> QED
    BY <2>2, ClaimRefines, OutboxStays
<1>2. CASE \E s \in Signature : recoverSilently(s)
  BY <1>2, RecoveryRefines
<1>3. CASE releaseHeld \/ retryPendingDeliveries
  BY <1>3, OutboxStays DEF releaseHeld, retryPendingDeliveries, Start, tables
<1>4. ASSUME NEW p \in Sweep, sweepClaims(p) PROVE [Outbox!Next]_(Outbox!vars)
  <2> DEFINE k == CHOOSE x \in calls[p].todo : TRUE
  <2>1. calls[p].phase = "next" /\ UNCHANGED reached
        /\ \E answer \in ClaimAnswers(outbox[k]) : outbox' = Claimed(k, answer)
    BY <1>4 DEF sweepClaims
  <2>2. k \in Key
    BY <2>1, CallTypes DEF IInv, SweepsHaveRows, Process
  <2> HIDE DEF k
  <2> QED
    BY <2>1, <2>2, ClaimRefines
<1>5. CASE \E p \in Process : Arrives(p)
  BY <1>5, ArrivalRefines
<1>6. CASE \E p \in Process : Answers(p)
  BY <1>6, SettleRefines DEF Answers, transportAnswers
<1>7. CASE QuietBegins \/ QuietEnds
  BY <1>7, OutboxStays DEF QuietBegins, QuietEnds, tables
<1>8. CASE Crash
  BY <1>8, OutboxStays DEF Crash, CrashLosesCalls
<1>9. CASE \E p \in Process, outcome \in Outcome : CrashAfterAnswer(p, outcome)
  BY <1>9, SettleRefines DEF CrashAfterAnswer, CrashLosesCalls
<1>10. CASE UNCHANGED vars
  BY <1>10, OutboxStays DEF vars
<1> QED
  BY <1>1, <1>2, <1>3, <1>4, <1>5, <1>6, <1>7, <1>8, <1>9, <1>10 DEF Next, Sends

\* The outbox keeps what it promises its callers, for every number of notices,
\* requests, attempts and crashes: at most MaxAttempts sends of a notice, at most
\* one of which arrives, and no send after one that may have arrived.
THEOREM Refinement == Spec => ImplementsDurableDelivery
<1>1. Init => Outbox!Init
  BY InitRefines
<1>2. IInv /\ [Next]_vars => [Outbox!Next]_(Outbox!vars)
  BY OutboxStep
<1> QED
  BY <1>1, <1>2, Invariant, PTL DEF Spec, Outbox!Spec, ImplementsDurableDelivery
=============================================================================
