------------------------------- MODULE ProviderWrites -------------------------------
(***************************************************************************)
(* What the agent creates at Google under an idempotency key: calendar       *)
(* events and drafts through the tools of                                    *)
(* src/src/integration/real-ming-tools.ts, the bridge, the control plane and *)
(* an adapter made for the call, and replies drafted by                      *)
(* src/src/operations/email-operations.ts through an adapter whose ledger is *)
(* a table.  Calls overlap and are retried; answers are lost at the provider *)
(* and at the control plane, which may die.                                  *)
(***************************************************************************)
EXTENDS Integers, FiniteSets

CONSTANTS
    Call,        \* calls that may be under way together
    Key,         \* idempotency keys
    Content,     \* what an event or a draft may hold
    MaxEffects,  \* bound: what is created
    MaxFaults    \* bound: lost answers and crashes

\* What the constants must satisfy.
ProviderWritesAssumption == {MaxEffects, MaxFaults} \subseteq Nat

VARIABLES
    call,     \* each call, and the reference it was answered
    own,      \* the ephemeral ledger of the adapter of each call
    durable,  \* email_draft_receipts
    created,  \* what Google holds
    faults

writeVars == <<call, own, durable, created, faults>>

\* real_ming_create_calendar_event, real_ming_draft_email, and createDraft of the
\* Email operations.
Tool == {"event", "draft", "reply"}

WritesInit ==
    /\ call = [c \in Call |-> [pc |-> "idle"]]
    /\ own = [c \in Call |-> {}] /\ durable = {} /\ created = {}
    /\ faults = 0

Fault == faults < MaxFaults /\ faults' = faults + 1
InFlight(c) == call[c].pc \in {"asked", "served", "posting", "posted"}
Ends(c, pc) == call' = [call EXCEPT ![c].pc = pc]

--------------------------------------------------------------------------------
\* writeDraft, writeCalendarEvent, and the caller of the Email operations.
Ask(c, tool, key, content) ==
    /\ ~InFlight(c)
    /\ call' = [call EXCEPT ![c] = [pc |-> "asked", tool |-> tool, key |-> key,
                                    content |-> content, ref |-> 0]]
    /\ UNCHANGED <<own, durable, created, faults>>

\* createCalendarEvent and mailAdapterFor make an adapter, and with it a ledger.
NewLedger(c) == own' = [own EXCEPT ![c] = {}]

\* The loopback endpoints, and the adapter the control plane makes for the call.
ServeEvent(c) ==
    /\ call[c].pc = "asked" /\ call[c].tool = "event"
    /\ Ends(c, "served") /\ NewLedger(c)
    /\ UNCHANGED <<durable, created, faults>>

ServeDraft(c) ==
    /\ call[c].pc = "asked" /\ call[c].tool = "draft"
    /\ Ends(c, "served") /\ NewLedger(c)
    /\ UNCHANGED <<durable, created, faults>>

\* createDraft of the Email operations, for a mailbox that may have drafts.
ServeReply(c) ==
    /\ call[c].pc = "asked" /\ call[c].tool = "reply"
    /\ Ends(c, "served")
    /\ UNCHANGED <<own, durable, created, faults>>

\* Mutant: one ledger for every call, and nothing else changed.
SharedLedger(c) == IF call[c].tool = "reply" THEN durable ELSE UNION {own[d] : d \in Call}

\* The ledger the adapter of the call consults.
Ledger(c) == IF call[c].tool = "reply" THEN durable ELSE own[c]

Receipts(c) == {r \in Ledger(c) : r.key = call[c].key /\ r.tool = call[c].tool}

\* A replay is answered with its receipt.
Replays(c, receipt) == call' = [call EXCEPT ![c].pc = "answered", ![c].ref = receipt.ref]

\* createEvent and the reply's createDraft refuse a key that was used for
\* something else; the other createDraft does not look.  Under the control plane
\* only a reply ever finds a receipt.
EventReplay(c, receipt) ==
    IF receipt.content # call[c].content THEN Ends(c, "failed") ELSE Replays(c, receipt)
DraftReplay(c, receipt) == Replays(c, receipt)
ReplyReplay(c, receipt) ==
    IF receipt.content # call[c].content THEN Ends(c, "failed") ELSE Replays(c, receipt)

LookUp(c) ==
    /\ call[c].pc = "served"
    /\ IF Receipts(c) = {} THEN Ends(c, "posting")
       ELSE \E receipt \in Receipts(c) :
              CASE call[c].tool = "event" -> EventReplay(c, receipt)
                [] call[c].tool = "draft" -> DraftReplay(c, receipt)
                [] OTHER -> ReplyReplay(c, receipt)
    /\ UNCHANGED <<own, durable, created, faults>>

\* Google creates it.
Post(c) ==
    /\ call[c].pc = "posting" /\ Cardinality(created) < MaxEffects
    /\ LET ref == Cardinality(created) + 1
       IN  /\ created' = created \cup {[ref |-> ref, tool |-> call[c].tool, key |-> call[c].key,
                                        content |-> call[c].content]}
           /\ call' = [call EXCEPT ![c].pc = "posted", ![c].ref = ref]
    /\ UNCHANGED <<own, durable, faults>>

\* The receipt of what the call created.
Receipt(c) == [ref |-> call[c].ref, tool |-> call[c].tool, key |-> call[c].key,
               content |-> call[c].content]

RecordEvent(c) ==
    /\ call[c].pc = "posted" /\ call[c].tool = "event"
    /\ own' = [own EXCEPT ![c] = @ \cup {Receipt(c)}] /\ Ends(c, "answered")
    /\ UNCHANGED <<durable, created, faults>>

RecordDraft(c) ==
    /\ call[c].pc = "posted" /\ call[c].tool = "draft"
    /\ own' = [own EXCEPT ![c] = @ \cup {Receipt(c)}] /\ Ends(c, "answered")
    /\ UNCHANGED <<durable, created, faults>>

\* The table takes a key once: the receipt of a second draft fails the call.
RecordReply(c) ==
    /\ call[c].pc = "posted" /\ call[c].tool = "reply"
    /\ IF Receipts(c) # {} THEN UNCHANGED durable /\ Ends(c, "failed")
       ELSE durable' = durable \cup {Receipt(c)} /\ Ends(c, "answered")
    /\ UNCHANGED <<own, created, faults>>

\* A token or a request that is refused fails the call before it has an effect.
WriteRefused(c) ==
    /\ call[c].pc \in {"asked", "served", "posting"}
    /\ Ends(c, "failed")
    /\ UNCHANGED <<own, durable, created, faults>>

\* The answer of Google is lost, or the one of the control plane: the agent is
\* told that the write could not be made.
WriteAnswerLost(c) ==
    /\ call[c].pc \in {"posted", "answered"} /\ Fault
    /\ Ends(c, "failed")
    /\ UNCHANGED <<own, durable, created>>

\* The control plane dies with the calls in it and the ledgers in its memory.
ControlPlaneDies ==
    /\ \E c \in Call : InFlight(c)
    /\ Fault
    /\ call' = [c \in Call |-> IF InFlight(c) THEN [call[c] EXCEPT !.pc = "failed"] ELSE call[c]]
    /\ own' = [c \in Call |-> {}]
    /\ UNCHANGED <<durable, created>>

WritesNext ==
    \/ \E c \in Call : \/ ServeEvent(c) \/ ServeDraft(c) \/ ServeReply(c)
                       \/ LookUp(c) \/ Post(c)
                       \/ RecordEvent(c) \/ RecordDraft(c) \/ RecordReply(c)
                       \/ WriteRefused(c) \/ WriteAnswerLost(c)
                       \/ \E tool \in Tool, key \in Key, content \in Content : Ask(c, tool, key, content)
    \/ ControlPlaneDies

WritesSpec == WritesInit /\ [][WritesNext]_writeVars

--------------------------------------------------------------------------------
\* A call that is answered with a reference refers to what it asked for, however
\* keys are reused, calls overlap and answers are lost.
AnswersAreTrue ==
    \A c \in Call : call[c].pc = "answered" =>
        \E effect \in created : /\ effect.ref = call[c].ref /\ effect.tool = call[c].tool
                                /\ effect.content = call[c].content

\* google-calendar-adapter.ts and gmail-adapter.ts: a stable key keeps a retried
\* call from double-booking the day and from leaving two drafts behind.
OneEffectPerKey ==
    \A a, b \in created : a.tool = b.tool /\ a.key = b.key => a = b
================================================================================
