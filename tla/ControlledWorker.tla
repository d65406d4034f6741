--------------------------- MODULE ControlledWorker ---------------------------
(***************************************************************************)
(* What the Operations Gateway relies on when it hands an effect to a      *)
(* ControlledWorker (operations/contracts.ts) under a stable idempotency   *)
(* key: the effect is attempted a bounded number of times, never by two    *)
(* executions at once, never again after its receipt, and a receipt stands *)
(* for an effect that the answering execution itself carried out.          *)
(* PrivateWorker implements this specification.                            *)
(***************************************************************************)
EXTENDS Naturals

CONSTANTS
    Job,            \* effects, named by idempotency key
    MaxAttempts     \* executions allowed for one effect

VARIABLES
    status,         \* "idle", "executing" or "settled"
    tries,          \* executions started
    effects         \* <<job, try>>: the try that carried the effect out

vars == <<status, tries, effects>>

Init ==
    /\ status = [j \in Job |-> "idle"]
    /\ tries = [j \in Job |-> 0]
    /\ effects = {}

Start(j) ==
    /\ status[j] = "idle"
    /\ tries[j] < MaxAttempts
    /\ status' = [status EXCEPT ![j] = "executing"]
    /\ tries' = [tries EXCEPT ![j] = @ + 1]
    /\ UNCHANGED effects

Perform(j) ==
    /\ status[j] = "executing"
    /\ effects' = effects \cup {<<j, tries[j]>>}
    /\ UNCHANGED <<status, tries>>

\* The receipt: the effect of this very try took place.
Settle(j) ==
    /\ status[j] = "executing"
    /\ <<j, tries[j]>> \in effects
    /\ status' = [status EXCEPT ![j] = "settled"]
    /\ UNCHANGED <<tries, effects>>

\* A try that ends without a receipt, whether or not its effect took place.
GiveUp(j) ==
    /\ status[j] = "executing"
    /\ status' = [status EXCEPT ![j] = "idle"]
    /\ UNCHANGED <<tries, effects>>

Next == \E j \in Job : Start(j) \/ Perform(j) \/ Settle(j) \/ GiveUp(j)

Spec == Init /\ [][Next]_vars
=============================================================================
