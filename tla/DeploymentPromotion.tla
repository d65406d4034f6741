----------------------------- MODULE DeploymentPromotion -----------------------------
(***************************************************************************)
(* The promotion of one reviewed Deployment Candidate to production:         *)
(* src/src/portfolio/deployment-promotion.ts, its append-only events, the    *)
(* Approvals it rests on, and an executor (external) that merges, verifies   *)
(* and rolls back; the deployment itself follows the merge on its own.  A run *)
(* is named after its Approvals: one granted anew starts another run, and the  *)
(* module is about one.                                                      *)
(***************************************************************************)
EXTENDS Naturals, Sequences, SequencesExt

CONSTANTS
    Caller,     \* promote calls that may overlap
    Scopes,     \* scopes the candidate needs an Approval for
    MaxFaults   \* bound: failed requests, lost answers and crashes

\* What the constants must satisfy.
PromotionAssumption == MaxFaults \in Nat

VARIABLES
    approvals,   \* the Approval of each scope, bound to the exact candidate
    production,  \* the pull request is merged, and what production serves
    events,      \* deployment_promotion_events of the run
    promoting,   \* where each call is
    overlapped,  \* observed: a call began while another was under way
    faults

promotionVars == <<approvals, production, events, promoting, overlapped, faults>>

PromotionInit ==
    /\ approvals = [s \in Scopes |-> "none"]
    /\ production = [merged |-> FALSE, serves |-> "previous", rolledBack |-> FALSE]
    /\ events = <<>>
    /\ promoting = [c \in Caller |-> "idle"]
    /\ overlapped = FALSE
    /\ faults = 0

Fault == faults < MaxFaults /\ faults' = faults + 1
Moves(c, pc) == promoting' = [promoting EXCEPT ![c] = pc]
Ends(c) == Moves(c, "idle")

terminal == {"verified", "rollback-completed", "rollback-failed", "merge-failed"}
latest == IF events = <<>> THEN "none" ELSE Last(events)

\* append answers the latest event of the same state; an older one collides by
\* its identity, and the call throws.
append(c, state, pc) ==
    IF latest = state \/ state \notin ToSet(events)
      THEN /\ events' = IF latest = state THEN events ELSE Append(events, state)
           /\ Moves(c, pc)
      ELSE UNCHANGED events /\ Ends(c)

--------------------------------------------------------------------------------
(* Approvals *)

\* requestApproval: one Approval for the code, one for each declared scope; a
\* granted one stays as it is.
RequestPromotion ==
    /\ \E s \in Scopes : approvals[s] \in {"none", "expired"}
    /\ approvals' = [s \in Scopes |-> IF approvals[s] \in {"none", "expired"}
                                        THEN "requested" ELSE approvals[s]]
    /\ UNCHANGED <<production, events, promoting, overlapped, faults>>

CeoGrants(s) ==
    /\ approvals[s] = "requested"
    /\ approvals' = [approvals EXCEPT ![s] = "granted"]
    /\ UNCHANGED <<production, events, promoting, overlapped, faults>>

ApprovalExpires(s) ==
    /\ approvals[s] \in {"requested", "granted"} /\ Fault
    /\ approvals' = [approvals EXCEPT ![s] = "expired"]
    /\ UNCHANGED <<production, events, promoting, overlapped>>

--------------------------------------------------------------------------------
(* promote *)

\* A terminal event is replayed, before the Approvals are looked at; without an
\* executor the run is recorded and blocked.
Promote(c, executor) ==
    /\ promoting[c] = "idle" /\ latest \notin terminal
    /\ \A s \in Scopes : approvals[s] = "granted"
    /\ LET begun == IF events = <<>> THEN <<"approved">> ELSE events
           blocked == "executor-unavailable"
       IN IF executor
            THEN /\ events' = begun /\ Moves(c, "checking")
                 /\ overlapped' = (overlapped \/ \E d \in Caller : promoting[d] # "idle")
            ELSE /\ events' = IF blocked \in ToSet(begun) THEN begun ELSE Append(begun, blocked)
                 /\ UNCHANGED <<promoting, overlapped>>
    /\ UNCHANGED <<approvals, production, faults>>

\* promote asks again for an Approval that is no longer in force, and rejects.
PromoteRejected ==
    /\ latest \notin terminal
    /\ \E s \in Scopes : /\ approvals[s] = "expired"
                         /\ approvals' = [approvals EXCEPT ![s] = "requested"]
    /\ UNCHANGED <<production, events, promoting, overlapped, faults>>

\* verifyCandidateBeforeMerge: a candidate that drifted, or that cannot be read.
CheckCandidate(c) ==
    /\ promoting[c] = "checking"
    /\ \/ Moves(c, "merging") /\ UNCHANGED <<events, faults>>
       \/ Fault /\ append(c, "merge-failed", "idle")
    /\ UNCHANGED <<approvals, production, overlapped>>

\* mergeDraftPullRequest is idempotent; it may fail, or only its answer.
Merge(c) ==
    /\ promoting[c] = "merging"
    /\ \/ /\ production' = [production EXCEPT !.merged = TRUE]
          /\ append(c, "merged", "verifying")
          /\ UNCHANGED faults
       \/ production' = [production EXCEPT !.merged = TRUE] /\ Fault /\ append(c, "merge-failed", "idle")
       \/ UNCHANGED production /\ Fault /\ append(c, "merge-failed", "idle")
    /\ UNCHANGED <<approvals, overlapped>>

\* Mutant: what was verified need not be the candidate.
AnyVerification == TRUE

\* The verification names the exact commit of the candidate.
verificationIsTrustworthy == production.serves = "candidate"

VerifyProduction(c) ==
    /\ promoting[c] = "verifying"
    /\ \/ verificationIsTrustworthy /\ Moves(c, "trusted") /\ UNCHANGED faults
       \/ ~verificationIsTrustworthy /\ Moves(c, "rolling-back") /\ UNCHANGED faults
       \/ Fault /\ Moves(c, "rolling-back")
    /\ UNCHANGED <<approvals, production, events, overlapped>>

\* The Outcome Report follows an await: what was verified may be past by then.
RecordVerified(c) ==
    /\ promoting[c] = "trusted"
    /\ append(c, "verified", "idle")
    /\ UNCHANGED <<approvals, production, overlapped, faults>>

RolledBack == [production EXCEPT !.serves = "previous", !.rolledBack = TRUE]

Rollback(c) ==
    /\ promoting[c] = "rolling-back"
    /\ \/ production' = RolledBack /\ append(c, "rollback-completed", "idle") /\ UNCHANGED faults
       \/ production' = RolledBack /\ append(c, "rollback-failed", "idle") /\ Fault
       \/ UNCHANGED production /\ append(c, "rollback-failed", "idle") /\ Fault
    /\ UNCHANGED <<approvals, overlapped>>

\* The process dies between the effect of a call and its event, or anywhere else.
PromotionCrash ==
    /\ \E c \in Caller : promoting[c] # "idle"
    /\ Fault
    /\ promoting' = [c \in Caller |-> "idle"]
    /\ \/ UNCHANGED production
       \/ (\E c \in Caller : promoting[c] = "merging")
            /\ production' = [production EXCEPT !.merged = TRUE]
       \/ (\E c \in Caller : promoting[c] = "rolling-back") /\ production' = RolledBack
    /\ UNCHANGED <<approvals, events, overlapped>>

\* The deployment workflow of the project follows the merge.
Deploys ==
    /\ production.merged /\ production.serves = "previous" /\ ~production.rolledBack
    /\ production' = [production EXCEPT !.serves = "candidate"]
    /\ UNCHANGED <<approvals, events, promoting, overlapped, faults>>

PromotionNext ==
    \/ RequestPromotion \/ PromoteRejected \/ PromotionCrash \/ Deploys
    \/ \E s \in Scopes : CeoGrants(s) \/ ApprovalExpires(s)
    \/ \E c \in Caller :
         \/ \E executor \in BOOLEAN : Promote(c, executor)
         \/ CheckCandidate(c) \/ Merge(c) \/ VerifyProduction(c) \/ RecordVerified(c)
         \/ Rollback(c)

PromotionSpec == PromotionInit /\ [][PromotionNext]_promotionVars

--------------------------------------------------------------------------------
\* The Outcome Report of a promotion: production serves the candidate that the
\* latest event calls verified, whatever crashed or was tried again before, as
\* long as no two calls overlapped.
VerifiedIsLive == latest = "verified" /\ ~overlapped => production.serves = "candidate"

\* The same without that condition: nothing keeps two calls apart, and one may
\* roll back what the other has verified.
VerifiedStaysLive == latest = "verified" => production.serves = "candidate"

\* A promotion that is recorded as failed to merge left nothing merged.
MergeFailedIsUnmerged == latest = "merge-failed" => ~production.merged
================================================================================
