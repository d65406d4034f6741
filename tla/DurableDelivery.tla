---------------------------- MODULE DurableDelivery ----------------------------
(***************************************************************************)
(* What the Telegram outbox (claimTelegramDelivery and its companions in    *)
(* operations/operations-state.ts) promises those who send through it: at   *)
(* most MaxAttempts sends of a notice, only one of which can arrive; a      *)
(* notice reported as sent did arrive; what may have arrived is not sent    *)
(* again.  Only a notice that was called off is beyond the promise.  Who    *)
(* sends, and what dies meanwhile, does not show.  ExceptionNotices         *)
(* implements this specification.                                           *)
(***************************************************************************)
EXTENDS Naturals

CONSTANTS Key, MaxAttempts

VARIABLES
    mail,      \* "unsent", "sending", "sent", "abandoned" or "called off"
    tries,     \* sends that counted
    arrivals   \* how often each notice arrived

vars == <<mail, tries, arrivals>>

Init ==
    /\ mail = [k \in Key |-> "unsent"]
    /\ tries = [k \in Key |-> 0]
    /\ arrivals = [k \in Key |-> 0]

Attempt(k) ==
    /\ mail[k] = "unsent" /\ tries[k] < MaxAttempts
    /\ mail' = [mail EXCEPT ![k] = "sending"]
    /\ tries' = [tries EXCEPT ![k] = @ + 1]
    /\ UNCHANGED arrivals

Arrive(k) ==
    /\ (mail[k] = "sending" /\ arrivals[k] = 0) \/ mail[k] = "called off"
    /\ arrivals' = [arrivals EXCEPT ![k] = @ + 1]
    /\ UNCHANGED <<mail, tries>>

Confirm(k) ==
    /\ mail[k] = "sending" /\ arrivals[k] = 1
    /\ mail' = [mail EXCEPT ![k] = "sent"]
    /\ UNCHANGED <<tries, arrivals>>

\* A send that failed for sure may be repeated.
Return(k) ==
    /\ mail[k] = "sending" /\ arrivals[k] = 0 /\ tries[k] < MaxAttempts
    /\ mail' = [mail EXCEPT ![k] = "unsent"]
    /\ UNCHANGED <<tries, arrivals>>

\* A send whose fate is unknown, or that was the last one, is not repeated.
Abandon(k) ==
    /\ mail[k] = "sending"
    /\ mail' = [mail EXCEPT ![k] = "abandoned"]
    /\ UNCHANGED <<tries, arrivals>>

CallOff(k) ==
    /\ mail[k] \in {"unsent", "sending", "abandoned"}
    /\ mail' = [mail EXCEPT ![k] = "called off"]
    /\ UNCHANGED <<tries, arrivals>>

Next ==
    \E k \in Key :
        Attempt(k) \/ Arrive(k) \/ Confirm(k) \/ Return(k) \/ Abandon(k) \/ CallOff(k)

Spec == Init /\ [][Next]_vars
=============================================================================
