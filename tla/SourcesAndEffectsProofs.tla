------------------------ MODULE SourcesAndEffectsProofs ------------------------
(***************************************************************************)
(* Theorems about the components of SourcesAndEffects, for every value of    *)
(* their constants.                                                          *)
(***************************************************************************)
EXTENDS SourcesAndEffects, Sequences, FiniteSetTheorems, WellFoundedInduction, TLAPS

(***************************************************************************)
(* What the agent creates at Google                                        *)
(***************************************************************************)

CreatedEffect == [ref : Nat, tool : Writes!Tool, key : WriteKey, content : Content]
Pending == [pc : {"asked", "served", "posting", "posted", "answered", "failed"},
            tool : Writes!Tool, key : WriteKey, content : Content, ref : Nat]
WriteCall == [pc : {"idle"}] \cup Pending

\* Calls, ledgers and effects.
WritesTypeOK ==
    /\ call \in [Call -> WriteCall]
    /\ own \in [Call -> SUBSET CreatedEffect]
    /\ durable \in SUBSET CreatedEffect
    /\ created \in SUBSET CreatedEffect /\ IsFiniteSet(created)

\* A reply is looked up in a table of what was created; any other call in a
\* ledger that was made for it, and is empty.
LedgersAreTrue ==
    /\ durable \subseteq created
    /\ \A c \in Call : call[c].pc = "served" /\ call[c].tool # "reply" => own[c] = {}

\* What a call posted, or was answered with, is what it asked for.
CallsAreTrue == \A c \in Call : call[c].pc \in {"posted", "answered"} => Writes!Receipt(c) \in created

WritesInv == WritesTypeOK /\ LedgersAreTrue /\ CallsAreTrue

\* The ledgers count as everyone does.
LEMMA WritesCardinality == \A S : Writes!Cardinality(S) = Cardinality(S)
  BY DEF Writes!Cardinality, Cardinality, Writes!IsFiniteSet, IsFiniteSet


-----------------------------------------------------------------------------
LEMMA WritesInitInvariant == Writes!WritesInit => WritesInv
<1> SUFFICES ASSUME Writes!WritesInit PROVE WritesInv
  OBVIOUS
<1>1. IsFiniteSet(created)
  BY FS_EmptySet DEF Writes!WritesInit
<1>2. \A c \in Call : call[c].pc = "idle"
  BY DEF Writes!WritesInit
<1> QED
  BY <1>1, <1>2 DEF Writes!WritesInit, WritesInv, WritesTypeOK, LedgersAreTrue, CallsAreTrue, WriteCall

\* A call that is not idle holds what it asked for.
LEMMA PendingCalls ==
    ASSUME WritesTypeOK, NEW c \in Call, call[c].pc # "idle"
    PROVE  call[c] \in Pending
  BY DEF WritesTypeOK, WriteCall

\* A call that moves on without a new reference keeps what it holds, and so do
\* the others.
LEMMA EndsTypes ==
    ASSUME WritesTypeOK, NEW c \in Call, call[c].pc # "idle",
           NEW pc \in {"asked", "served", "posting", "posted", "answered", "failed"},
           Writes!Ends(c, pc)
    PROVE  /\ call' \in [Call -> WriteCall]
           /\ call'[c].pc = pc /\ call'[c].tool = call[c].tool
           /\ Writes!Receipt(c)' = Writes!Receipt(c)
           /\ \A d \in Call \ {c} : call'[d] = call[d]
  BY PendingCalls DEF Writes!Ends, WritesTypeOK, WriteCall, Pending, Writes!Receipt

\* The receipt of a pending call is an effect.
LEMMA ReceiptType ==
    ASSUME WritesTypeOK, NEW c \in Call, call[c].pc # "idle"
    PROVE  Writes!Receipt(c) \in CreatedEffect
  BY PendingCalls DEF Writes!Receipt, CreatedEffect, Pending

\* A call that moves on, with at most its own ledger changed, keeps the invariant:
\* it is answered only with what it posted.
LEMMA MovesOn ==
    ASSUME WritesInv, NEW c \in Call, call[c].pc # "idle",
           NEW pc \in {"posting", "answered", "failed"}, Writes!Ends(c, pc),
           pc = "answered" => call[c].pc = "posted",
           own' \in [Call -> SUBSET CreatedEffect], \A d \in Call \ {c} : own'[d] = own[d],
           UNCHANGED <<durable, created>>
    PROVE  WritesInv'
<1>1. /\ call' \in [Call -> WriteCall]
      /\ call'[c].pc = pc /\ Writes!Receipt(c)' = Writes!Receipt(c)
      /\ \A d \in Call \ {c} : call'[d] = call[d]
  BY EndsTypes DEF WritesInv
<1>2. WritesTypeOK'
  BY <1>1 DEF WritesInv, WritesTypeOK
<1>3. LedgersAreTrue'
  BY <1>1 DEF WritesInv, LedgersAreTrue
<1>4. CallsAreTrue'
  BY <1>1 DEF WritesInv, CallsAreTrue, Writes!Receipt
<1> QED
  BY <1>2, <1>3, <1>4 DEF WritesInv

\* The same, when every ledger stands.
LEMMA MovesOnAlone ==
    ASSUME WritesInv, NEW c \in Call, call[c].pc # "idle",
           NEW pc \in {"posting", "answered", "failed"}, Writes!Ends(c, pc),
           pc = "answered" => call[c].pc = "posted",
           UNCHANGED <<own, durable, created>>
    PROVE  WritesInv'
<1>1. own' \in [Call -> SUBSET CreatedEffect] /\ \A d \in Call \ {c} : own'[d] = own[d]
  BY DEF WritesInv, WritesTypeOK
<1> QED
  BY <1>1, MovesOn

\* A replay of a receipt that is about the same content.
LEMMA ReplayIsTrue ==
    ASSUME WritesInv, NEW c \in Call, call[c].pc = "served",
           NEW receipt \in Writes!Receipts(c), receipt.content = call[c].content,
           Writes!Replays(c, receipt), UNCHANGED <<own, durable, created>>
    PROVE  WritesInv'
<1>1. call[c] \in Pending
  BY PendingCalls DEF WritesInv
<1>2. call[c].tool = "reply" /\ receipt \in durable
  BY DEF Writes!Receipts, Writes!Ledger, WritesInv, LedgersAreTrue
<1>3. receipt \in created /\ receipt \in CreatedEffect
  BY <1>2 DEF WritesInv, LedgersAreTrue, WritesTypeOK
<1>4. /\ call' = [call EXCEPT ![c] = [call[c] EXCEPT !.pc = "answered", !.ref = receipt.ref]]
      /\ call \in [Call -> WriteCall]
  BY DEF Writes!Replays, WritesInv, WritesTypeOK
<1>5. [call[c] EXCEPT !.pc = "answered", !.ref = receipt.ref] \in Pending
  BY <1>1, <1>3 DEF Pending, CreatedEffect
<1>6. /\ call' \in [Call -> WriteCall]
      /\ call'[c] = [call[c] EXCEPT !.pc = "answered", !.ref = receipt.ref]
      /\ \A d \in Call \ {c} : call'[d] = call[d]
  BY <1>4, <1>5 DEF WriteCall
<1>7. Writes!Receipt(c)' = receipt
  <2>1. /\ call'[c].ref = receipt.ref /\ call'[c].tool = call[c].tool
        /\ call'[c].key = call[c].key /\ call'[c].content = call[c].content
    BY <1>1, <1>6 DEF Pending
  <2>2. receipt.key = call[c].key /\ receipt.tool = call[c].tool
    BY DEF Writes!Receipts
  <2>3. receipt = [ref |-> receipt.ref, tool |-> receipt.tool, key |-> receipt.key,
                   content |-> receipt.content]
    BY <1>3 DEF CreatedEffect
  <2> QED
    BY <2>1, <2>2, <2>3 DEF Writes!Receipt
<1>8. call'[c].pc = "answered"
  BY <1>1, <1>6 DEF Pending
<1>9. WritesTypeOK'
  BY <1>6 DEF WritesInv, WritesTypeOK
<1>10. LedgersAreTrue'
  BY <1>6, <1>8 DEF WritesInv, LedgersAreTrue
<1>11. CallsAreTrue'
  BY <1>3, <1>6, <1>7 DEF WritesInv, CallsAreTrue, Writes!Receipt
<1> QED
  BY <1>9, <1>10, <1>11 DEF WritesInv

\* Every step keeps the invariant.
LEMMA WritesStepInvariant ==
    ASSUME WritesInv, [Writes!WritesNext]_writeVars
    PROVE  WritesInv'
<1>a. WritesTypeOK /\ LedgersAreTrue /\ CallsAreTrue
  BY DEF WritesInv
<1>1. ASSUME NEW c \in Call, NEW tool \in Writes!Tool, NEW key \in WriteKey, NEW content \in Content,
             Writes!Ask(c, tool, key, content)
      PROVE  WritesInv'
  <2> DEFINE asked == [pc |-> "asked", tool |-> tool, key |-> key, content |-> content, ref |-> 0]
  <2>1. asked \in WriteCall /\ asked.pc = "asked"
    BY DEF WriteCall, Pending
  <2>2. /\ call' = [call EXCEPT ![c] = asked]
        /\ UNCHANGED <<own, durable, created>>
    BY <1>1 DEF Writes!Ask
  <2>3. /\ call' \in [Call -> WriteCall] /\ call'[c].pc = "asked"
        /\ \A d \in Call \ {c} : call'[d] = call[d]
    <3> HIDE DEF asked
    <3> QED  BY <1>a, <2>1, <2>2 DEF WritesTypeOK
  <2>4. WritesTypeOK' /\ LedgersAreTrue'
    BY <1>a, <2>2, <2>3 DEF WritesTypeOK, LedgersAreTrue
  <2>5. CallsAreTrue'
    BY <1>a, <2>2, <2>3 DEF CallsAreTrue, Writes!Receipt
  <2> QED
    BY <2>4, <2>5 DEF WritesInv
<1>2. ASSUME NEW c \in Call, Writes!ServeEvent(c) \/ Writes!ServeDraft(c) \/ Writes!ServeReply(c)
      PROVE  WritesInv'
  <2>1. call[c].pc = "asked" /\ Writes!Ends(c, "served") /\ UNCHANGED <<durable, created>>
    BY <1>2 DEF Writes!ServeEvent, Writes!ServeDraft, Writes!ServeReply
  <2>2. /\ call' \in [Call -> WriteCall]
        /\ call'[c].pc = "served" /\ call'[c].tool = call[c].tool
        /\ \A d \in Call \ {c} : call'[d] = call[d]
    BY <1>a, <2>1, EndsTypes
  <2>3. /\ own' \in [Call -> SUBSET CreatedEffect]
        /\ \A d \in Call \ {c} : own'[d] = own[d]
        /\ call[c].tool # "reply" => own'[c] = {}
    <3>1. CASE Writes!NewLedger(c)
      BY <1>a, <3>1 DEF Writes!NewLedger, WritesTypeOK
    <3>2. CASE UNCHANGED own /\ call[c].tool = "reply"
      BY <1>a, <3>2 DEF WritesTypeOK
    <3> QED
      BY <1>2, <3>1, <3>2 DEF Writes!ServeEvent, Writes!ServeDraft, Writes!ServeReply
  <2>4. WritesTypeOK'
    BY <1>a, <2>1, <2>2, <2>3 DEF WritesTypeOK
  <2>5. LedgersAreTrue'
    BY <1>a, <2>1, <2>2, <2>3 DEF LedgersAreTrue
  <2>6. CallsAreTrue'
    BY <1>a, <2>1, <2>2 DEF CallsAreTrue, Writes!Receipt
  <2> QED
    BY <2>4, <2>5, <2>6 DEF WritesInv
<1>3. ASSUME NEW c \in Call, Writes!LookUp(c)
      PROVE  WritesInv'
  <2>1. call[c].pc = "served" /\ UNCHANGED <<own, durable, created>>
    BY <1>3 DEF Writes!LookUp
  <2>2. CASE Writes!Receipts(c) = {} /\ Writes!Ends(c, "posting")
    BY <2>1, <2>2, MovesOnAlone
  <2>3. CASE Writes!Receipts(c) # {}
    <3>1. call[c].tool = "reply"
      BY <1>a, <2>1, <2>3 DEF LedgersAreTrue, Writes!Receipts, Writes!Ledger
    <3>2. PICK receipt \in Writes!Receipts(c) : Writes!ReplyReplay(c, receipt)
      BY <1>3, <2>3, <3>1 DEF Writes!LookUp
    <3>3. CASE receipt.content # call[c].content
      <4>1. Writes!Ends(c, "failed")
        BY <3>2, <3>3 DEF Writes!ReplyReplay
      <4> QED
        BY <2>1, <4>1, MovesOnAlone
    <3>4. CASE receipt.content = call[c].content
      <4>1. Writes!Replays(c, receipt)
        BY <3>2, <3>4 DEF Writes!ReplyReplay
      <4> QED
        BY <2>1, <3>4, <4>1, ReplayIsTrue
    <3> QED
      BY <3>3, <3>4
  <2> QED
    BY <1>3, <2>2, <2>3 DEF Writes!LookUp
<1>4. ASSUME NEW c \in Call, Writes!Post(c)
      PROVE  WritesInv'
  <2> DEFINE ref == Cardinality(created) + 1
             effect == [ref |-> ref, tool |-> call[c].tool, key |-> call[c].key,
                        content |-> call[c].content]
  <2>1. /\ call[c].pc = "posting" /\ UNCHANGED <<own, durable>>
        /\ created' = created \cup {effect}
        /\ call' = [call EXCEPT ![c] = [call[c] EXCEPT !.pc = "posted", !.ref = ref]]
    BY <1>4, WritesCardinality DEF Writes!Post
  <2>2. call[c] \in Pending /\ ref \in Nat
    BY <1>a, <2>1, PendingCalls, FS_CardinalityType DEF WritesTypeOK
  <2>3. effect \in CreatedEffect
    <3> HIDE DEF ref
    <3> QED  BY <2>2 DEF CreatedEffect, Pending
  <2>4. [call[c] EXCEPT !.pc = "posted", !.ref = ref] \in Pending
    <3> HIDE DEF ref
    <3> QED  BY <2>2 DEF Pending
  <2>5. /\ call' \in [Call -> WriteCall]
        /\ call'[c] = [call[c] EXCEPT !.pc = "posted", !.ref = ref]
        /\ \A d \in Call \ {c} : call'[d] = call[d]
    <3> HIDE DEF ref
    <3> QED  BY <1>a, <2>1, <2>4 DEF WritesTypeOK, WriteCall
  <2>6. call'[c].pc = "posted" /\ Writes!Receipt(c)' = effect
    <3> HIDE DEF ref
    <3> QED  BY <2>2, <2>5 DEF Writes!Receipt, Pending
  <2>7. IsFiniteSet(created') /\ created' \in SUBSET CreatedEffect
    <3>1. IsFiniteSet(created) /\ created \in SUBSET CreatedEffect
      BY <1>a DEF WritesTypeOK
    <3> HIDE DEF effect
    <3> QED  BY <2>1, <2>3, <3>1, FS_AddElement
  <2> HIDE DEF effect, ref
  <2>8. WritesTypeOK'
    BY <1>a, <2>1, <2>5, <2>7 DEF WritesTypeOK
  <2>9. LedgersAreTrue'
    BY <1>a, <2>1, <2>5, <2>6 DEF LedgersAreTrue
  <2>10. CallsAreTrue'
    BY <1>a, <2>1, <2>5, <2>6 DEF CallsAreTrue, Writes!Receipt
  <2> QED
    BY <2>8, <2>9, <2>10 DEF WritesInv
<1>5. ASSUME NEW c \in Call, Writes!RecordEvent(c) \/ Writes!RecordDraft(c)
      PROVE  WritesInv'
  <2>1. /\ call[c].pc = "posted" /\ Writes!Ends(c, "answered")
        /\ own' = [own EXCEPT ![c] = own[c] \cup {Writes!Receipt(c)}]
        /\ UNCHANGED <<durable, created>>
    BY <1>5 DEF Writes!RecordEvent, Writes!RecordDraft
  <2>2. Writes!Receipt(c) \in CreatedEffect
    BY <1>a, <2>1, ReceiptType
  <2>3. own' \in [Call -> SUBSET CreatedEffect] /\ \A d \in Call \ {c} : own'[d] = own[d]
    BY <1>a, <2>1, <2>2 DEF WritesTypeOK
  <2> QED
    BY <2>1, <2>3, MovesOn
<1>6. ASSUME NEW c \in Call, Writes!RecordReply(c)
      PROVE  WritesInv'
  <2>1. call[c].pc = "posted" /\ UNCHANGED <<own, created>>
    BY <1>6 DEF Writes!RecordReply
  <2>2. CASE UNCHANGED durable /\ Writes!Ends(c, "failed")
    BY <2>1, <2>2, MovesOnAlone
  <2>3. CASE durable' = durable \cup {Writes!Receipt(c)} /\ Writes!Ends(c, "answered")
    <3>1. /\ call' \in [Call -> WriteCall]
          /\ call'[c].pc = "answered" /\ Writes!Receipt(c)' = Writes!Receipt(c)
          /\ \A d \in Call \ {c} : call'[d] = call[d]
      BY <1>a, <2>1, <2>3, EndsTypes
    <3>2. Writes!Receipt(c) \in created /\ Writes!Receipt(c) \in CreatedEffect
      BY <1>a, <2>1, ReceiptType DEF CallsAreTrue
    <3>3. WritesTypeOK'
      BY <1>a, <2>1, <2>3, <3>1, <3>2 DEF WritesTypeOK
    <3>4. LedgersAreTrue'
      BY <1>a, <2>1, <2>3, <3>1, <3>2 DEF LedgersAreTrue
    <3>5. CallsAreTrue'
      BY <1>a, <2>1, <3>1, <3>2 DEF CallsAreTrue, Writes!Receipt
    <3> QED
      BY <3>3, <3>4, <3>5 DEF WritesInv
  <2> QED
    BY <1>6, <2>2, <2>3 DEF Writes!RecordReply
<1>7. ASSUME NEW c \in Call, Writes!WriteRefused(c) \/ Writes!WriteAnswerLost(c)
      PROVE  WritesInv'
  <2>1. call[c].pc # "idle" /\ Writes!Ends(c, "failed") /\ UNCHANGED <<own, durable, created>>
    BY <1>7 DEF Writes!WriteRefused, Writes!WriteAnswerLost
  <2> QED
    BY <2>1, MovesOnAlone
<1>8. CASE Writes!ControlPlaneDies
  <2>1. /\ call' = [c \in Call |-> IF Writes!InFlight(c) THEN [call[c] EXCEPT !.pc = "failed"] ELSE call[c]]
        /\ own' = [c \in Call |-> {}] /\ UNCHANGED <<durable, created>>
    BY <1>8 DEF Writes!ControlPlaneDies
  <2>2. ASSUME NEW c \in Call
        PROVE  /\ call'[c] \in WriteCall
               /\ call'[c].pc = "failed" \/ call'[c] = call[c]
    <3>1. CASE Writes!InFlight(c)
      <4>1. call[c] \in Pending
        BY <1>a, <3>1, PendingCalls DEF Writes!InFlight
      <4>2. [call[c] EXCEPT !.pc = "failed"] \in Pending
        BY <4>1 DEF Pending
      <4>3. [call[c] EXCEPT !.pc = "failed"].pc = "failed"
        BY <4>1 DEF Pending
      <4> QED
        BY <2>1, <3>1, <4>2, <4>3 DEF WriteCall
    <3>2. CASE ~Writes!InFlight(c)
      BY <1>a, <2>1, <3>2 DEF WritesTypeOK
    <3> QED
      BY <3>1, <3>2
  <2>3. WritesTypeOK'
    BY <1>a, <2>1, <2>2 DEF WritesTypeOK
  <2>4. LedgersAreTrue'
    BY <1>a, <2>1 DEF LedgersAreTrue
  <2>5. CallsAreTrue'
    BY <1>a, <2>1, <2>2 DEF CallsAreTrue, Writes!Receipt
  <2> QED
    BY <2>3, <2>4, <2>5 DEF WritesInv
<1>9. CASE UNCHANGED writeVars
  BY <1>9 DEF writeVars, WritesInv, WritesTypeOK, LedgersAreTrue, CallsAreTrue, Writes!Receipt
<1> QED
  BY <1>1, <1>2, <1>3, <1>4, <1>5, <1>6, <1>7, <1>8, <1>9 DEF Writes!WritesNext

(***************************************************************************)
(* What the agent reads: an agenda is whole                                *)
(***************************************************************************)

\* The pages count as everyone does.
LEMMA ReadsCardinality == \A S : Reads!Cardinality(S) = Cardinality(S)
  BY DEF Reads!Cardinality, Cardinality, Reads!IsFiniteSet, IsFiniteSet

\* A set of naturals that is not empty has a least element.
LEMMA LeastNatural ==
    ASSUME NEW S \in SUBSET Nat, S # {}
    PROVE  \E n \in S : \A m \in S : n <= m
<1> DEFINE Less == OpToRel(<, Nat)
<1>1. Less = {pair \in Nat \X Nat : pair[1] < pair[2]}
  BY DEF OpToRel
<1>2. IsWellFoundedOn(Less, Nat)
  BY NatLessThanWellFounded
<1> HIDE DEF Less
<1>3. PICK n \in S : \A m \in S : <<m, n>> \notin Less
  BY <1>2, WFMin, Zenon
<1>4. ASSUME NEW m \in S PROVE n <= m
  <2> SUFFICES ASSUME ~(n <= m) PROVE FALSE
    OBVIOUS
  <2>1. m \in Nat /\ n \in Nat /\ m < n
    OBVIOUS
  <2>2. <<m, n>> \in Less
    BY <1>1, <2>1
  <2> QED
    BY <1>3, <2>2
<1> QED
  BY <1>4

\* A set of naturals with a bound has a greatest element.
LEMMA GreatestNatural ==
    ASSUME NEW S \in SUBSET Nat, S # {}, NEW bound \in Nat, \A m \in S : m <= bound
    PROVE  Reads!Max(S) \in S /\ \A m \in S : m <= Reads!Max(S)
<1> DEFINE above == {n \in Nat : \A m \in S : m <= n}
<1>1. PICK n \in above : \A k \in above : n <= k
  BY LeastNatural
<1>2. n \in S
  <2> SUFFICES ASSUME n \notin S PROVE FALSE
    OBVIOUS
  <2>1. \A m \in S : m <= n - 1
    BY <1>1
  <2>2. n - 1 \in Nat
    <3>1. PICK m \in S : TRUE
      OBVIOUS
    <3>2. m \in Nat /\ n \in Nat /\ m <= n - 1
      BY <1>1, <2>1
    <3> QED
      BY <3>2
  <2> QED
    BY <1>1, <2>1, <2>2
<1>3. n \in S /\ \A m \in S : n >= m
  BY <1>1, <1>2
<1> QED
  BY <1>3 DEF Reads!Max

\* pageOf: what a page leaves out comes behind all of it.
LEMMA PagesAreInOrder ==
    ASSUME Reads!ProviderReadsAssumption, NEW S \in SUBSET Nat,
           NEW e \in S, e \notin Reads!Lowest(S, PageSize)
    PROVE  \A p \in Reads!Lowest(S, PageSize) : p < e
<1> SUFFICES ASSUME NEW p \in Reads!Lowest(S, PageSize), ~(p < e) PROVE FALSE
  OBVIOUS
<1>0. \A x \in S : x \in Reads!Lowest(S, PageSize) <=> Cardinality({y \in S : y < x}) < PageSize
  <2> SUFFICES ASSUME NEW x \in S
               PROVE  x \in Reads!Lowest(S, PageSize) <=> Cardinality({y \in S : y < x}) < PageSize
    OBVIOUS
  <2> DEFINE below == {y \in S : y < x}
  <2>1. x \in Reads!Lowest(S, PageSize) <=> Reads!Cardinality(below) < PageSize
    BY Zenon DEF Reads!Lowest
  <2>2. Reads!Cardinality(below) = Cardinality(below)
    BY ReadsCardinality, Zenon
  <2> QED
    BY <2>1, <2>2, Zenon
<1>1. p \in S /\ Cardinality({y \in S : y < p}) < PageSize
  <2>1. p \in S
    BY DEF Reads!Lowest
  <2> QED
    BY <1>0, <2>1, Zenon
<1>2. ~(Cardinality({y \in S : y < e}) < PageSize)
  BY <1>0, Zenon
<1>a. S \subseteq Nat /\ p \in S
  BY <1>1
<1>b. e \in Nat /\ p \in Nat /\ e <= p
  BY <1>a
<1>3. {y \in S : y < e} \subseteq {y \in S : y < p}
  <2> SUFFICES ASSUME NEW y \in S, y < e PROVE y < p
    OBVIOUS
  <2>1. y \in Nat
    BY <1>a
  <2> QED
    BY <1>b, <2>1
<1>4. IsFiniteSet({y \in S : y < p})
  <2>1. IsFiniteSet(0 .. p)
    BY <1>b, FS_Interval
  <2>2. {y \in S : y < p} \subseteq 0 .. p
    <3> SUFFICES ASSUME NEW y \in S, y < p PROVE y \in 0 .. p
      OBVIOUS
    <3>1. y \in Nat
      BY <1>a
    <3> QED
      BY <1>b, <3>1
  <2> QED
    BY <2>1, <2>2, FS_Subset
<1> DEFINE under == {y \in S : y < e}
           below == {y \in S : y < p}
<1> HIDE DEF under, below
<1>5. /\ IsFiniteSet(under) /\ Cardinality(under) <= Cardinality(below)
      /\ Cardinality(under) \in Nat /\ Cardinality(below) \in Nat
  BY <1>3, <1>4, FS_Subset, FS_CardinalityType DEF under, below
<1>6. Cardinality(below) < PageSize /\ ~(Cardinality(under) < PageSize)
  BY <1>1, <1>2 DEF under, below
<1>7. PageSize \in Nat
  BY DEF Reads!ProviderReadsAssumption
<1> QED
  BY <1>5, <1>6, <1>7

\* What a read holds.
ReadShape ==
    read = [pc |-> read.pc, tool |-> read.tool, calendar |-> read.calendar,
            asked |-> read.asked, limit |-> read.limit, listed |-> read.listed,
            pending |-> read.pending, last |-> read.last, pages |-> read.pages,
            steady |-> read.steady, matching |-> read.matching,
            possiblyMore |-> read.possiblyMore]

\* Where a read is, and what it has listed there of what was there all the time: behind
\* the last page nothing is missing, and the rest is still to come.
ReadStages ==
    /\ read.pc = "posted" => read.last = 0
    /\ read.pc = "paging" =>
         /\ read.tool = "agenda" /\ read.calendar \in Calendar /\ read.last \in Nat
         /\ read.steady \subseteq agenda[read.calendar]
         /\ \A e \in read.steady : e > read.last \/ e \in read.listed
    /\ read.pc \in {"searching", "opening", "reading"} => read.tool # "agenda"
    /\ read.pc \in {"read", "answered"} /\ read.tool = "agenda" => read.steady \subseteq read.listed

\* The calendars, and the read under way.
ReadInv ==
    /\ agenda \in [Calendar -> SUBSET Event]
    /\ ReadShape
    /\ ReadStages

LEMMA ReadInitInvariant == Reads!ReadInit => ReadInv
  BY DEF Reads!ReadInit, Reads!NoRead, ReadInv, ReadShape, ReadStages

\* A page adds to what is listed, and moves on behind its last event.
LEMMA NextPageKeeps ==
    ASSUME Reads!ProviderReadsAssumption, ReadInv, Reads!NextPage
    PROVE  ReadInv'
<1> DEFINE unread == Reads!Unread
           shown == Reads!Page
           after == IF shown = {} THEN read.last ELSE Reads!Max(shown)
           stage == IF unread = shown THEN "read"
                    ELSE IF read.pages + 1 >= PageLimit THEN "failed" ELSE "paging"
<1>1. /\ read.pc = "paging" /\ UNCHANGED agenda
      /\ read' = [read EXCEPT !.listed = @ \cup shown, !.pages = @ + 1, !.last = after, !.pc = stage]
  BY DEF Reads!NextPage
<1>2. /\ read.tool = "agenda" /\ read.calendar \in Calendar /\ read.last \in Nat
      /\ read.steady \subseteq agenda[read.calendar]
      /\ \A e \in read.steady : e > read.last \/ e \in read.listed
  BY <1>1 DEF ReadInv, ReadStages
<1>3. unread = {e \in agenda[read.calendar] : e > read.last} /\ shown = Reads!Lowest(unread, PageSize)
  BY DEF Reads!Unread, Reads!Page
<1>4. unread \in SUBSET Nat /\ shown \subseteq unread
  BY <1>2, <1>3 DEF ReadInv, Reads!ProviderReadsAssumption, Reads!Lowest
<1>5. ASSUME NEW e \in read.steady, e \notin read.listed PROVE e \in unread
  BY <1>2, <1>3, <1>5
<1> HIDE DEF unread, shown, after, stage
<1>6. /\ ReadShape' /\ read'.tool = read.tool /\ read'.calendar = read.calendar
      /\ read'.steady = read.steady /\ read'.listed = read.listed \cup shown
      /\ read'.last = after /\ read'.pc = stage
  BY <1>1 DEF ReadInv, ReadShape
<1>7. CASE unread = shown
  <2>1. stage = "read"
    BY <1>7 DEF stage
  <2>2. read'.steady \subseteq read'.listed
    BY <1>5, <1>6, <1>7
  <2> QED
    BY <1>1, <1>2, <1>6, <2>1, <2>2 DEF ReadInv, ReadStages
<1>8. CASE unread # shown
  <2>1. PICK late \in unread : late \notin shown
    BY <1>4, <1>8
  <2>2. \A e \in unread \ shown : \A p \in shown : p < e
    BY <1>3, <1>4, PagesAreInOrder
  <2>3. after \in Nat /\ \A e \in unread \ shown : e > after
    <3>1. CASE shown = {}
      BY <1>2, <1>3, <3>1 DEF after
    <3>2. CASE shown # {}
      <4>1. late \in Nat /\ \A p \in shown : p <= late
        BY <1>4, <2>1, <2>2
      <4>2. shown \in SUBSET Nat
        BY <1>4
      <4>3. Reads!Max(shown) \in shown
        BY <3>2, <4>1, <4>2, GreatestNatural
      <4>4. after = Reads!Max(shown)
        BY <3>2 DEF after
      <4> QED
        BY <1>4, <2>2, <4>2, <4>3, <4>4
    <3> QED
      BY <3>1, <3>2
  <2>4. \A e \in read'.steady : e > read'.last \/ e \in read'.listed
    BY <1>5, <1>6, <2>3
  <2>5. stage \in {"failed", "paging"}
    BY <1>8 DEF stage
  <2> QED
    BY <1>1, <1>2, <1>6, <2>3, <2>4, <2>5 DEF ReadInv, ReadStages
<1> QED
  BY <1>7, <1>8

\* Every step keeps the invariant.
LEMMA ReadStepInvariant ==
    ASSUME Reads!ProviderReadsAssumption, ReadInv, [Reads!ReadNext]_readVars
    PROVE  ReadInv'
<1> USE DEF ReadInv, ReadShape, ReadStages
<1>1. ASSUME NEW c \in Calendar, Reads!AskAgenda(c) PROVE ReadInv'
  BY <1>1 DEF Reads!AskAgenda, Reads!NoRead
<1>2. ASSUME NEW limit \in Limit \cup {Reads!NoLimit}, Reads!AskMail(limit) PROVE ReadInv'
  BY <1>2 DEF Reads!AskMail, Reads!NoRead
<1>3. ASSUME NEW m \in 1 .. MaxMessages, Reads!AskMessage(m) PROVE ReadInv'
  BY <1>3 DEF Reads!AskMessage, Reads!NoRead
<1>4. CASE Reads!ServeAgenda
  <2>1. read.pc = "posted" /\ read.tool = "agenda"
    BY <1>4 DEF Reads!ServeAgenda
  <2>2. /\ UNCHANGED agenda
        /\ read' = [read EXCEPT !.pc = "paging", !.calendar = DefaultCalendar,
                                !.steady = agenda[DefaultCalendar]]
    BY <1>4 DEF Reads!ServeAgenda, Reads!ServedCalendar
  <2>3. /\ ReadShape' /\ read'.tool = "agenda" /\ read'.calendar = DefaultCalendar
        /\ read'.steady = agenda[DefaultCalendar] /\ read'.last = 0 /\ read'.pc = "paging"
    BY <2>1, <2>2
  <2>4. DefaultCalendar \in Calendar /\ agenda[DefaultCalendar] \subseteq Nat \ {0}
    BY DEF Reads!ProviderReadsAssumption
  <2>5. \A e \in read'.steady : e > read'.last
    BY <2>3, <2>4
  <2> QED
    BY <2>2, <2>3, <2>4, <2>5
<1>5. CASE Reads!ServeMail \/ Reads!ServeMessage
  BY <1>5 DEF Reads!ServeMail, Reads!ServeMessage
<1>6. CASE Reads!NextPage
  BY <1>6, NextPageKeeps
<1>7. CASE Reads!SearchMail
  <2> DEFINE ids == Reads!Newest(mailbox, Reads!Clamped)
             found == Reads!Cardinality(mailbox)
             pc == IF ids = {} THEN "read" ELSE "opening"
  <2>1. read' = [read EXCEPT !.pc = pc, !.pending = ids, !.matching = found]
    BY <1>7 DEF Reads!SearchMail
  <2>2. read.pc = "searching" /\ UNCHANGED agenda
    BY <1>7 DEF Reads!SearchMail
  <2> HIDE DEF ids, found
  <2> QED
    BY <2>1, <2>2
<1>8. CASE Reads!OpenMessage
  <2>1. read.pc = "opening" /\ UNCHANGED agenda
    BY <1>8 DEF Reads!OpenMessage
  <2>2. PICK m : \/ read' = [read EXCEPT !.pc = "failed"]
                 \/ read' = [read EXCEPT !.listed = @ \cup {m}, !.pending = @ \ {m},
                                !.pc = IF read.pending = {m} THEN "read" ELSE "opening"]
    BY <1>8 DEF Reads!OpenMessage
  <2> QED
    BY <2>1, <2>2
<1>9. CASE Reads!ReadMessage
  BY <1>9 DEF Reads!ReadMessage
<1>10. CASE Reads!AgendaAnswered \/ Reads!MessageAnswered \/ Reads!ReadFails
  BY <1>10 DEF Reads!AgendaAnswered, Reads!MessageAnswered, Reads!ReadFails
<1>11. CASE Reads!MailAnswered
  <2>1. PICK more : read' = [read EXCEPT !.pc = "answered", !.possiblyMore = more]
    BY <1>11 DEF Reads!MailAnswered
  <2>2. read.pc = "read" /\ read.tool = "mail" /\ UNCHANGED agenda
    BY <1>11 DEF Reads!MailAnswered
  <2> QED
    BY <2>1, <2>2
<1>12. ASSUME NEW c \in Calendar, NEW e \in Event, Reads!EventAdded(c, e) PROVE ReadInv'
  <2>1. /\ agenda' = [agenda EXCEPT ![c] = @ \cup {e}] /\ UNCHANGED read
    BY <1>12 DEF Reads!EventAdded
  <2>2. agenda' \in [Calendar -> SUBSET Event] /\ \A d \in Calendar : agenda[d] \subseteq agenda'[d]
    BY <2>1
  <2> QED
    BY <2>1, <2>2
<1>13. ASSUME NEW c \in Calendar, NEW e \in Event, Reads!EventCancelled(c, e) PROVE ReadInv'
  <2>1. /\ agenda' = [agenda EXCEPT ![c] = @ \ {e}]
        /\ read' = IF c = read.calendar THEN [read EXCEPT !.steady = @ \ {e}] ELSE read
    BY <1>13 DEF Reads!EventCancelled
  <2>2. /\ agenda' \in [Calendar -> SUBSET Event]
        /\ agenda'[c] = agenda[c] \ {e} /\ \A d \in Calendar \ {c} : agenda'[d] = agenda[d]
    BY <2>1
  <2>3. CASE c = read.calendar
    BY <2>1, <2>2, <2>3
  <2>4. CASE c # read.calendar
    BY <2>1, <2>2, <2>4
  <2> QED
    BY <2>3, <2>4
<1>14. CASE Reads!MailArrives \/ \E m \in 1 .. MaxMessages : Reads!MailDeleted(m)
  BY <1>14 DEF Reads!MailArrives, Reads!MailDeleted
<1>15. CASE UNCHANGED readVars
  BY <1>15 DEF readVars
<1> QED
  BY <1>1, <1>2, <1>3, <1>4, <1>5, <1>6, <1>7, <1>8, <1>9, <1>10, <1>11, <1>12, <1>13, <1>14, <1>15
     DEF Reads!ReadNext

(***************************************************************************)
(* The payloads of Personal Context                                        *)
(***************************************************************************)

ContextRow == [version : Context!Version, state : {"quarantined", "verified-ingestion"},
               due : Int, supersedes : Int]
ContextPurge == [of : Int, orphan : BOOLEAN]

ContextTypeOK ==
    /\ source \in Context!Version
    /\ ingest \in [Ingest -> [pc : {"idle", "read", "staged"}, version : Int]]
    /\ \A i \in Ingest : ingest[i].pc # "idle" => ingest[i].version \in Context!Version
    /\ rows \in Seq(ContextRow)
    /\ payload \in [Context!Version -> Int]
    /\ purging \in ContextPurge
    /\ day \in Nat \ {0}

\* Between two awaits one ingestion, or the sweep, has the process to itself: the
\* payload it staged has no row yet, and the one it unlinked is gone.
OneAtATime ==
    /\ \A i, j \in Ingest : ingest[i].pc = "staged" /\ ingest[j].pc = "staged" => i = j
    /\ \A i \in Ingest : ingest[i].pc = "staged" =>
         /\ purging = Context!NoPurge
         /\ payload[ingest[i].version] # Context!Absent
         /\ ~Context!HasRow(ingest[i].version) /\ ingest[i].version \notin Sensitive
    /\ \A v \in Context!Version : purging.of = v => payload[v] = Context!Absent

\* A version has one row, and is purged as a candidate only when it has one.
RowsAreOfOneVersionEach ==
    /\ \A row, other \in Context!Rows : row.version = other.version => row = other
    /\ \A v \in Context!Version :
         [of |-> v, orphan |-> FALSE] \in purges \cup {purging} => Context!HasRow(v)

\* What is quarantined has never had a payload.
SensitiveIsNotStaged ==
    /\ \A v \in Context!Version : v \in Sensitive => payload[v] = Context!Absent
    /\ \A row \in Context!Rows : row.state = "quarantined" => row.version \in Sensitive

ContextInv ==
    /\ ContextTypeOK /\ OneAtATime /\ RowsAreOfOneVersionEach /\ SensitiveIsNotStaged
    /\ PayloadsFollowTheirRows

LEMMA ContextInitInvariant ==
    ASSUME Context!PersonalContextAssumption, Context!ContextInit  PROVE ContextInv
<1>1. /\ source = 1 /\ rows = <<>> /\ purges = {} /\ day = 1
      /\ ingest = [i \in Ingest |-> [pc |-> "idle", version |-> 0]]
      /\ payload = [v \in Context!Version |-> 0]
      /\ purging = [of |-> 0, orphan |-> FALSE]
  BY DEF Context!ContextInit, Context!IdleIngest, Context!Absent, Context!NoPurge
<1>2. 1 \in Context!Version /\ \A v \in Context!Version : v # 0
  BY DEF Context!Version, Context!PersonalContextAssumption
<1>3. Context!Rows = {}
  BY <1>1 DEF Context!Rows
<1>4. ContextTypeOK
  <2>1. rows \in Seq(ContextRow)
    BY <1>1
  <2>2. ingest \in [Ingest -> [pc : {"idle", "read", "staged"}, version : Int]]
    BY <1>1
  <2>3. payload \in [Context!Version -> Int] /\ purging \in ContextPurge
    BY <1>1 DEF ContextPurge
  <2> QED  BY <1>1, <1>2, <2>1, <2>2, <2>3 DEF ContextTypeOK
<1>5. OneAtATime
  BY <1>1 DEF OneAtATime, Context!Absent
<1>6. RowsAreOfOneVersionEach
  <2>1. ASSUME NEW v \in Context!Version  PROVE [of |-> v, orphan |-> FALSE] \notin purges \cup {purging}
    BY <1>1, <1>2
  <2> QED  BY <1>3, <2>1 DEF RowsAreOfOneVersionEach
<1>7. SensitiveIsNotStaged /\ PayloadsFollowTheirRows
  BY <1>1, <1>3 DEF SensitiveIsNotStaged, PayloadsFollowTheirRows, Context!PayloadsFollowTheirRows,
                    Context!Absent
<1> QED
  BY <1>4, <1>5, <1>6, <1>7 DEF ContextInv

\* The row that is captured is one more.
LEMMA CapturedRow ==
    ASSUME ContextTypeOK, NEW v \in Context!Version, Retention \in Nat,
           NEW state \in {"quarantined", "verified-ingestion"}, Context!Captured(v, state)
    PROVE  /\ rows' \in Seq(ContextRow)
           /\ \E row \in ContextRow : /\ Context!Rows' = Context!Rows \cup {row}
                                      /\ row.version = v /\ row.state = state
                                      /\ row.due = day + Retention
<1> DEFINE row == [version |-> v, state |-> state, due |-> day + Retention,
                   supersedes |-> IF rows = <<>> THEN 0 ELSE rows[Len(rows)].version]
<1>1. rows' = Append(rows, row)
  BY DEF Context!Captured
<1>2. rows \in Seq(ContextRow) /\ day \in Nat
  BY DEF ContextTypeOK
<1>3. ASSUME rows # <<>>  PROVE rows[Len(rows)].version \in Int
  <2>1. rows[Len(rows)] \in ContextRow
    BY <1>2, <1>3
  <2>2. rows[Len(rows)].version \in Context!Version
    BY <2>1 DEF ContextRow
  <2> QED  BY <2>2 DEF Context!Version
<1>4. row \in ContextRow
  <2>1. day + Retention \in Int
    BY <1>2
  <2>2. (IF rows = <<>> THEN 0 ELSE rows[Len(rows)].version) \in Int
    BY <1>3
  <2> QED  BY <2>1, <2>2 DEF ContextRow
<1>5. row.version = v /\ row.state = state /\ row.due = day + Retention
  OBVIOUS
<1> HIDE DEF row
<1>6. rows' \in Seq(ContextRow) /\ Context!Rows' = Context!Rows \cup {row}
  <2>1. rows' \in Seq(ContextRow) /\ Len(rows') = Len(rows) + 1
        /\ rows'[Len(rows) + 1] = row /\ \A n \in 1..Len(rows) : rows'[n] = rows[n]
    BY <1>1, <1>2, <1>4
  <2>2. DOMAIN rows = 1..Len(rows) /\ DOMAIN rows' = 1..Len(rows) \cup {Len(rows) + 1}
    BY <1>2, <2>1
  <2> QED  BY <2>1, <2>2 DEF Context!Rows
<1> QED
  BY <1>4, <1>5, <1>6

\* Steps that leave rows, payloads and purges as they are.
LEMMA ContextStands ==
    ASSUME ContextInv, UNCHANGED <<rows, payload, purges>>, day' \in Nat, day' >= day,
           source' \in Context!Version, purging' \in {purging, Context!NoPurge},
           ingest' \in [Ingest -> [pc : {"idle", "read", "staged"}, version : Int]],
           \A i \in Ingest : ingest'[i].pc # "idle" => ingest'[i].version \in Context!Version,
           \A i \in Ingest : ingest'[i].pc = "staged" => ingest'[i] = ingest[i]
    PROVE  ContextInv'
<1>a. ContextTypeOK /\ OneAtATime /\ RowsAreOfOneVersionEach /\ SensitiveIsNotStaged
      /\ PayloadsFollowTheirRows
  BY DEF ContextInv
<1>1. Context!Rows' = Context!Rows /\ \A v \in Context!Version : Context!HasRow(v)' <=> Context!HasRow(v)
  BY DEF Context!Rows, Context!HasRow
<1>2. \A v \in Context!Version : v # 0 /\ v \in Int
  BY DEF Context!Version
<1>3. ContextTypeOK'
  <2>1. purging' \in ContextPurge
    <3>1. Context!NoPurge \in ContextPurge
      BY DEF ContextPurge, Context!NoPurge
    <3> QED  BY <1>a, <3>1 DEF ContextTypeOK
  <2>2. day' \in Nat \ {0}
    BY <1>a DEF ContextTypeOK
  <2>3. rows' \in Seq(ContextRow) /\ payload' \in [Context!Version -> Int]
    BY <1>a DEF ContextTypeOK
  <2>4. Context!Version' = Context!Version /\ ContextRow' = ContextRow
    BY DEF Context!Version, ContextRow
  <2> QED  BY <2>1, <2>2, <2>3, <2>4 DEF ContextTypeOK, ContextPurge
<1>4. \A v \in Context!Version : purging'.of = v => purging.of = v /\ purging' = purging
  BY <1>2 DEF Context!NoPurge
<1>5. OneAtATime'
  <2>1. \A i \in Ingest : ingest'[i].pc = "staged" =>
          ingest[i].pc = "staged" /\ ingest'[i].version = ingest[i].version
    OBVIOUS
  <2>2. \A i, j \in Ingest : ingest'[i].pc = "staged" /\ ingest'[j].pc = "staged" => i = j
    BY <1>a, <2>1 DEF OneAtATime
  <2>3. ASSUME NEW i \in Ingest, ingest'[i].pc = "staged"
        PROVE  /\ purging' = Context!NoPurge
               /\ payload'[ingest'[i].version] # Context!Absent
               /\ ~Context!HasRow(ingest[i].version)' /\ ingest'[i].version \notin Sensitive
    <3>1. ingest[i].pc = "staged" /\ ingest'[i].version = ingest[i].version
      BY <2>1, <2>3
    <3>2. ingest[i].version \in Context!Version
      BY <1>a, <3>1 DEF ContextTypeOK
    <3>3. /\ purging = Context!NoPurge /\ payload[ingest[i].version] # Context!Absent
          /\ ~Context!HasRow(ingest[i].version) /\ ingest[i].version \notin Sensitive
      BY <1>a, <3>1 DEF OneAtATime
    <3>4. ~Context!HasRow(ingest[i].version)'
      BY <1>1, <3>1, <3>3 DEF Context!HasRow
    <3> QED  BY <3>1, <3>3, <3>4
  <2>4. \A v \in Context!Version : purging'.of = v => payload'[v] = Context!Absent
    BY <1>a, <1>4 DEF OneAtATime
  <2> QED  BY <2>2, <2>3, <2>4 DEF OneAtATime, Context!Version, Context!NoPurge, Context!Absent
<1>6. RowsAreOfOneVersionEach'
  <2>1. ASSUME NEW v \in Context!Version, [of |-> v, orphan |-> FALSE] \in purges' \cup {purging'}
        PROVE  Context!HasRow(v)
    <3>1. [of |-> v, orphan |-> FALSE] # Context!NoPurge
      BY <1>2 DEF Context!NoPurge
    <3> QED  BY <1>a, <2>1, <3>1 DEF RowsAreOfOneVersionEach
  <2> QED  BY <1>a, <1>1, <2>1 DEF RowsAreOfOneVersionEach, Context!Version
<1>7. SensitiveIsNotStaged'
  BY <1>a, <1>1 DEF SensitiveIsNotStaged, Context!Version, Context!Absent
<1>8. PayloadsFollowTheirRows'
  <2> SUFFICES ASSUME NEW row \in Context!Rows
               PROVE  /\ row.state = "verified-ingestion" /\ day' < row.due => payload[row.version] # Context!Absent
                      /\ [of |-> row.version, orphan |-> FALSE] \in purges => payload[row.version] = Context!Absent
                      /\ row.state = "quarantined" => payload[row.version] = Context!Absent
    BY <1>1 DEF PayloadsFollowTheirRows, Context!PayloadsFollowTheirRows, Context!Absent
  <2>1. row \in ContextRow
    BY <1>a DEF ContextTypeOK, Context!Rows
  <2>2. row.due \in Int /\ day \in Int
    BY <1>a, <2>1 DEF ContextRow, ContextTypeOK
  <2>3. day' < row.due => day < row.due
    BY <2>2
  <2> QED  BY <1>a, <2>3 DEF PayloadsFollowTheirRows, Context!PayloadsFollowTheirRows
<1> QED
  BY <1>3, <1>5, <1>6, <1>7, <1>8 DEF ContextInv

\* Every step keeps the invariant.
LEMMA ContextStepInvariant ==
    ASSUME Context!PersonalContextAssumption, ContextInv, [Context!ContextNext]_contextVars
    PROVE  ContextInv'
<1>a. ContextTypeOK /\ OneAtATime /\ RowsAreOfOneVersionEach /\ SensitiveIsNotStaged
      /\ PayloadsFollowTheirRows
  BY DEF ContextInv
<1>v. \A v \in Context!Version : v # 0 /\ v \in Int /\ v \in Nat
  BY DEF Context!Version
<1>d. day \in Nat \ {0} /\ Retention \in Nat \ {0} /\ day + Retention > day
  BY <1>a DEF ContextTypeOK, Context!PersonalContextAssumption
<1>i. [i \in Ingest |-> Context!IdleIngest] \in [Ingest -> [pc : {"idle", "read", "staged"}, version : Int]]
      /\ Context!IdleIngest.pc = "idle"
  BY DEF Context!IdleIngest
<1>r. \A row \in Context!Rows : row \in ContextRow /\ row.version \in Context!Version
                                /\ row.state \in {"quarantined", "verified-ingestion"}
  <2> SUFFICES ASSUME NEW row \in Context!Rows  PROVE row \in ContextRow
    BY DEF ContextRow
  <2> QED  BY <1>a DEF ContextTypeOK, Context!Rows
<1>1. CASE Context!SourceChanges
  <2>1. source' \in Context!Version
    BY <1>1, <1>a DEF Context!SourceChanges, ContextTypeOK, Context!Version,
                      Context!PersonalContextAssumption
  <2> QED
    BY <1>1, <1>a, <1>d, <2>1, ContextStands DEF Context!SourceChanges, ContextTypeOK
<1>2. ASSUME NEW i \in Ingest, Context!ReadSource(i)
      PROVE  ContextInv'
  <2>1. /\ UNCHANGED <<source, rows, payload, purging, purges, day>>
        /\ ingest' = [ingest EXCEPT ![i] = [pc |-> "read", version |-> source]]
    BY <1>2 DEF Context!ReadSource
  <2>2. source \in Context!Version /\ source \in Int
    BY <1>a, <1>v DEF ContextTypeOK
  <2>3. /\ ingest' \in [Ingest -> [pc : {"idle", "read", "staged"}, version : Int]]
        /\ ingest'[i].pc = "read" /\ ingest'[i].version = source
        /\ \A j \in Ingest \ {i} : ingest'[j] = ingest[j]
    BY <1>a, <2>1, <2>2 DEF ContextTypeOK
  <2>4. \A j \in Ingest : ingest'[j].pc # "idle" => ingest'[j].version \in Context!Version
    BY <1>a, <2>2, <2>3 DEF ContextTypeOK
  <2> QED
    BY <1>d, <2>1, <2>2, <2>3, <2>4, ContextStands
<1>3. CASE Context!DayPasses
  BY <1>3, <1>a, <1>d, ContextStands DEF Context!DayPasses, ContextTypeOK
<1>4. CASE Context!ContextCrash
  <2>1. /\ UNCHANGED <<source, rows, payload, purges, day>> /\ purging' = Context!NoPurge
        /\ ingest' = [i \in Ingest |-> Context!IdleIngest]
    BY <1>4 DEF Context!ContextCrash
  <2>2. \A i \in Ingest : ingest'[i].pc = "idle"
    BY <1>i, <2>1
  <2> QED
    BY <1>a, <1>d, <1>i, <2>1, <2>2, ContextStands DEF ContextTypeOK
<1>5. CASE UNCHANGED contextVars
  BY <1>5, <1>a, <1>d, ContextStands DEF contextVars, ContextTypeOK
<1>6. ASSUME NEW i \in Ingest, Context!Stage(i)
      PROVE  ContextInv'
  <2> DEFINE v == ingest[i].version
  <2>1. /\ Context!Undisturbed /\ ingest[i].pc = "read"
        /\ UNCHANGED <<source, purging, purges, day>>
    BY <1>6 DEF Context!Stage
  <2>2. v \in Context!Version
    BY <1>a, <2>1 DEF ContextTypeOK
  <2>3. purging = Context!NoPurge /\ \A j \in Ingest : ingest[j].pc # "staged"
    BY <2>1 DEF Context!Undisturbed
  <2>4. CASE Context!HasRow(v)
    <3>1. UNCHANGED <<rows, payload>> /\ ingest' = [ingest EXCEPT ![i] = Context!IdleIngest]
      BY <1>6, <2>4 DEF Context!Stage
    <3>2. /\ ingest' \in [Ingest -> [pc : {"idle", "read", "staged"}, version : Int]]
          /\ ingest'[i].pc = "idle" /\ \A j \in Ingest \ {i} : ingest'[j] = ingest[j]
      BY <1>a, <3>1 DEF ContextTypeOK, Context!IdleIngest
    <3> QED
      BY <1>a, <1>d, <2>1, <3>1, <3>2, ContextStands DEF ContextTypeOK
  <2>5. CASE ~Context!HasRow(v) /\ v \in Sensitive
    <3>1. /\ UNCHANGED payload /\ ingest' = [ingest EXCEPT ![i] = Context!IdleIngest]
          /\ Context!Captured(v, "quarantined")
      BY <1>6, <2>5 DEF Context!Stage
    <3>2. /\ ingest' \in [Ingest -> [pc : {"idle", "read", "staged"}, version : Int]]
          /\ ingest'[i].pc = "idle" /\ \A j \in Ingest \ {i} : ingest'[j] = ingest[j]
      BY <1>a, <3>1 DEF ContextTypeOK, Context!IdleIngest
    <3>3. PICK row \in ContextRow : /\ rows' \in Seq(ContextRow) /\ Context!Rows' = Context!Rows \cup {row}
                                    /\ row.version = v /\ row.state = "quarantined"
      <4> HIDE DEF v
      <4> QED  BY <1>a, <1>d, <2>2, <3>1, CapturedRow
    <3>4. payload[v] = Context!Absent
      BY <1>a, <2>2, <2>5 DEF SensitiveIsNotStaged
    <3>5. \A other \in Context!Rows : other.version # v
      BY <2>5 DEF Context!HasRow
    <3> HIDE DEF v
    <3>6. ContextTypeOK'
      <4>1. \A j \in Ingest : ingest'[j].pc # "idle" => ingest'[j].version \in Context!Version
        BY <1>a, <3>2 DEF ContextTypeOK
      <4>2. Context!Version' = Context!Version /\ ContextRow' = ContextRow
        BY DEF Context!Version, ContextRow
      <4> QED  BY <1>a, <2>1, <3>1, <3>2, <3>3, <4>1, <4>2 DEF ContextTypeOK, ContextPurge
    <3>7. \A j \in Ingest : ingest'[j].pc # "staged"
      BY <2>3, <3>2
    <3>8. OneAtATime'
      BY <1>a, <2>1, <3>1, <3>7 DEF OneAtATime, Context!Version, Context!Absent
    <3>9. RowsAreOfOneVersionEach'
      <4>1. \A one, other \in Context!Rows' : one.version = other.version => one = other
        BY <1>a, <3>3, <3>5 DEF RowsAreOfOneVersionEach
      <4>2. \A w \in Context!Version : [of |-> w, orphan |-> FALSE] \in purges \cup {purging} => Context!HasRow(w)'
        BY <1>a, <3>3 DEF RowsAreOfOneVersionEach, Context!HasRow
      <4> QED  BY <2>1, <4>1, <4>2 DEF RowsAreOfOneVersionEach, Context!Version
    <3>10. SensitiveIsNotStaged'
      <4>1. \A one \in Context!Rows' : one.state = "quarantined" => one.version \in Sensitive
        BY <1>a, <2>5, <3>3 DEF SensitiveIsNotStaged
      <4> QED  BY <1>a, <3>1, <4>1 DEF SensitiveIsNotStaged, Context!Version, Context!Absent
    <3>11. PayloadsFollowTheirRows'
      <4> SUFFICES ASSUME NEW one \in Context!Rows'
                   PROVE  /\ one.state = "verified-ingestion" /\ day < one.due => payload[one.version] # Context!Absent
                          /\ [of |-> one.version, orphan |-> FALSE] \in purges => payload[one.version] = Context!Absent
                          /\ one.state = "quarantined" => payload[one.version] = Context!Absent
        BY <2>1, <3>1 DEF PayloadsFollowTheirRows, Context!PayloadsFollowTheirRows, Context!Absent
      <4>1. CASE one \in Context!Rows
        BY <1>a, <4>1 DEF PayloadsFollowTheirRows, Context!PayloadsFollowTheirRows
      <4>2. CASE one = row
        BY <3>3, <3>4, <4>2
      <4> QED  BY <3>3, <4>1, <4>2
    <3> QED
      BY <3>6, <3>8, <3>9, <3>10, <3>11 DEF ContextInv
  <2>6. CASE ~Context!HasRow(v) /\ v \notin Sensitive
    <3>1. /\ UNCHANGED rows /\ payload' = [payload EXCEPT ![v] = day]
          /\ ingest' = [ingest EXCEPT ![i].pc = "staged"]
      BY <1>6, <2>6 DEF Context!Stage
    <3>2. /\ ingest' \in [Ingest -> [pc : {"idle", "read", "staged"}, version : Int]]
          /\ ingest'[i].pc = "staged" /\ ingest'[i].version = v
          /\ \A j \in Ingest \ {i} : ingest'[j] = ingest[j]
      BY <1>a, <3>1 DEF ContextTypeOK
    <3> HIDE DEF v
    <3>3. /\ payload' \in [Context!Version -> Int] /\ payload'[v] = day
          /\ \A w \in Context!Version \ {v} : payload'[w] = payload[w]
      BY <1>a, <1>d, <2>2, <3>1 DEF ContextTypeOK
    <3>4. Context!Rows' = Context!Rows /\ \A w : Context!HasRow(w)' <=> Context!HasRow(w)
      BY <3>1 DEF Context!Rows, Context!HasRow
    <3>5. ContextTypeOK'
      <4>1. \A j \in Ingest : ingest'[j].pc # "idle" => ingest'[j].version \in Context!Version
        BY <1>a, <2>2, <3>2 DEF ContextTypeOK
      <4>2. Context!Version' = Context!Version /\ ContextRow' = ContextRow
        BY DEF Context!Version, ContextRow
      <4> QED  BY <1>a, <2>1, <3>1, <3>2, <3>3, <4>1, <4>2 DEF ContextTypeOK, ContextPurge
    <3>6. \A j \in Ingest : ingest'[j].pc = "staged" => j = i
      BY <2>3, <3>2
    <3>7. OneAtATime'
      <4>1. payload'[v] # Context!Absent
        BY <1>d, <3>3 DEF Context!Absent
      <4>2. ASSUME NEW j \in Ingest, ingest'[j].pc = "staged"
            PROVE  /\ purging' = Context!NoPurge /\ payload'[ingest'[j].version] # Context!Absent
                   /\ ~Context!HasRow(ingest[j].version)' /\ ingest'[j].version \notin Sensitive
        <5>1. ingest'[j].version = v
          BY <3>2, <3>6, <4>2
        <5> QED  BY <2>1, <2>3, <2>6, <3>4, <4>1, <5>1 DEF Context!HasRow
      <4>3. \A w \in Context!Version : purging'.of # w
        BY <1>v, <2>1, <2>3 DEF Context!NoPurge
      <4> QED  BY <3>6, <4>2, <4>3 DEF OneAtATime, Context!NoPurge, Context!Absent, Context!Version
    <3>8. RowsAreOfOneVersionEach'
      BY <1>a, <2>1, <3>4 DEF RowsAreOfOneVersionEach, Context!Version
    <3>9. SensitiveIsNotStaged'
      BY <1>a, <2>6, <3>3, <3>4 DEF SensitiveIsNotStaged, Context!Version, Context!Absent
    <3>10. PayloadsFollowTheirRows'
      <4>1. \A row \in Context!Rows : payload'[row.version] = payload[row.version]
        BY <1>r, <2>6, <3>3 DEF Context!HasRow
      <4> QED
        BY <1>a, <2>1, <3>4, <4>1 DEF PayloadsFollowTheirRows, Context!PayloadsFollowTheirRows, Context!Absent
    <3> QED
      BY <3>5, <3>7, <3>8, <3>9, <3>10 DEF ContextInv
  <2> QED
    BY <2>4, <2>5, <2>6
<1>7. ASSUME NEW i \in Ingest, Context!InsertRow(i)
      PROVE  ContextInv'
  <2> DEFINE v == ingest[i].version
  <2>1. /\ ingest[i].pc = "staged" /\ UNCHANGED <<source, payload, purging, purges, day>>
        /\ ingest' = [ingest EXCEPT ![i] = Context!IdleIngest]
        /\ Context!Captured(v, "verified-ingestion")
    BY <1>7 DEF Context!InsertRow
  <2>2. v \in Context!Version
    BY <1>a, <2>1 DEF ContextTypeOK
  <2>3. /\ ingest' \in [Ingest -> [pc : {"idle", "read", "staged"}, version : Int]]
        /\ ingest'[i].pc = "idle" /\ \A j \in Ingest \ {i} : ingest'[j] = ingest[j]
    BY <1>a, <2>1 DEF ContextTypeOK, Context!IdleIngest
  <2>4. /\ payload[v] # Context!Absent /\ ~Context!HasRow(v) /\ v \notin Sensitive
    BY <1>a, <2>1 DEF OneAtATime
  <2> HIDE DEF v
  <2>5. PICK row \in ContextRow : /\ rows' \in Seq(ContextRow) /\ Context!Rows' = Context!Rows \cup {row}
                                  /\ row.version = v /\ row.state = "verified-ingestion"
    BY <1>a, <1>d, <2>1, <2>2, CapturedRow
  <2>6. \A j \in Ingest : ingest'[j].pc # "staged"
    BY <1>a, <2>1, <2>3 DEF OneAtATime
  <2>7. ContextTypeOK'
    <3>1. \A j \in Ingest : ingest'[j].pc # "idle" => ingest'[j].version \in Context!Version
      BY <1>a, <2>3 DEF ContextTypeOK
    <3>2. Context!Version' = Context!Version /\ ContextRow' = ContextRow
      BY DEF Context!Version, ContextRow
    <3> QED  BY <1>a, <2>1, <2>3, <2>5, <3>1, <3>2 DEF ContextTypeOK, ContextPurge
  <2>8. OneAtATime'
    BY <1>a, <2>1, <2>6 DEF OneAtATime, Context!Version, Context!Absent
  <2>9. [of |-> v, orphan |-> FALSE] \notin purges \cup {purging}
    BY <1>a, <2>2, <2>4 DEF RowsAreOfOneVersionEach
  <2>10. RowsAreOfOneVersionEach'
    <3>1. \A one, other \in Context!Rows' : one.version = other.version => one = other
      BY <1>a, <2>4, <2>5 DEF RowsAreOfOneVersionEach, Context!HasRow
    <3>2. \A w \in Context!Version : [of |-> w, orphan |-> FALSE] \in purges \cup {purging} => Context!HasRow(w)'
      BY <1>a, <2>5 DEF RowsAreOfOneVersionEach, Context!HasRow
    <3> QED  BY <2>1, <3>1, <3>2 DEF RowsAreOfOneVersionEach, Context!Version
  <2>11. SensitiveIsNotStaged'
    <3>1. \A one \in Context!Rows' : one.state = "quarantined" => one.version \in Sensitive
      BY <1>a, <2>5 DEF SensitiveIsNotStaged
    <3> QED  BY <1>a, <2>1, <3>1 DEF SensitiveIsNotStaged, Context!Version, Context!Absent
  <2>12. PayloadsFollowTheirRows'
    <3> SUFFICES ASSUME NEW one \in Context!Rows'
                 PROVE  /\ one.state = "verified-ingestion" /\ day < one.due => payload[one.version] # Context!Absent
                        /\ [of |-> one.version, orphan |-> FALSE] \in purges => payload[one.version] = Context!Absent
                        /\ one.state = "quarantined" => payload[one.version] = Context!Absent
      BY <2>1 DEF PayloadsFollowTheirRows, Context!PayloadsFollowTheirRows, Context!Absent
    <3>1. CASE one \in Context!Rows
      BY <1>a, <3>1 DEF PayloadsFollowTheirRows, Context!PayloadsFollowTheirRows
    <3>2. CASE one = row
      BY <2>4, <2>5, <2>9, <3>2
    <3> QED  BY <2>5, <3>1, <3>2
  <2> QED
    BY <2>7, <2>8, <2>10, <2>11, <2>12 DEF ContextInv
\* A payload that goes away.
<1>p. ASSUME NEW v \in Context!Version, UNCHANGED <<source, rows, day>>,
             payload' = [payload EXCEPT ![v] = Context!Absent],
             purges' = purges, purging' \in ContextPurge,
             ingest' \in [Ingest -> [pc : {"idle", "read", "staged"}, version : Int]],
             \A j \in Ingest : ingest'[j].pc # "idle" => ingest'[j].version \in Context!Version,
             \A j \in Ingest : ingest'[j].pc # "staged",
             \A w \in Context!Version : purging'.of = w => w = v \/ payload[w] = Context!Absent,
             \A w \in Context!Version : [of |-> w, orphan |-> FALSE] = purging' => Context!HasRow(w),
             \A row \in Context!Rows : row.version = v => (row.state = "verified-ingestion" => row.due <= day)
      PROVE  ContextInv'
  <2>1. /\ payload' \in [Context!Version -> Int] /\ payload'[v] = Context!Absent
        /\ \A w \in Context!Version \ {v} : payload'[w] = payload[w]
    <3>1. Context!Absent \in Int
      BY DEF Context!Absent
    <3> QED  BY <1>a, <1>p, <3>1 DEF ContextTypeOK
  <2>2. Context!Rows' = Context!Rows /\ \A w : Context!HasRow(w)' <=> Context!HasRow(w)
    BY <1>p DEF Context!Rows, Context!HasRow
  <2>3. ContextTypeOK'
    <3>1. Context!Version' = Context!Version /\ ContextRow' = ContextRow /\ ContextPurge' = ContextPurge
      BY DEF Context!Version, ContextRow, ContextPurge
    <3> QED  BY <1>a, <1>p, <2>1, <3>1 DEF ContextTypeOK
  <2>4. OneAtATime'
    BY <1>a, <1>p, <2>1 DEF OneAtATime, Context!Version, Context!Absent
  <2>5. RowsAreOfOneVersionEach'
    <3>1. \A w \in Context!Version : [of |-> w, orphan |-> FALSE] \in purges' \cup {purging'} => Context!HasRow(w)'
      BY <1>a, <1>p, <2>2 DEF RowsAreOfOneVersionEach
    <3> QED  BY <1>a, <2>2, <3>1 DEF RowsAreOfOneVersionEach, Context!Version
  <2>6. SensitiveIsNotStaged'
    BY <1>a, <2>1, <2>2 DEF SensitiveIsNotStaged, Context!Version, Context!Absent
  <2>7. PayloadsFollowTheirRows'
    <3> SUFFICES ASSUME NEW row \in Context!Rows
                 PROVE  /\ row.state = "verified-ingestion" /\ day < row.due => payload'[row.version] # Context!Absent
                        /\ [of |-> row.version, orphan |-> FALSE] \in purges => payload'[row.version] = Context!Absent
                        /\ row.state = "quarantined" => payload'[row.version] = Context!Absent
      BY <1>p, <2>2 DEF PayloadsFollowTheirRows, Context!PayloadsFollowTheirRows, Context!Absent
    <3>1. row.version \in Context!Version /\ row \in ContextRow
      BY <1>r
    <3>2. CASE row.version = v
      <4>1. row.due \in Int /\ day \in Int
        BY <1>d, <3>1 DEF ContextRow
      <4>2. ~(row.state = "verified-ingestion" /\ day < row.due)
        BY <1>p, <3>2, <4>1
      <4> QED  BY <2>1, <3>2, <4>2
    <3>3. CASE row.version # v
      BY <1>a, <2>1, <3>1, <3>3 DEF PayloadsFollowTheirRows, Context!PayloadsFollowTheirRows
    <3> QED  BY <3>2, <3>3
  <2> QED
    BY <2>3, <2>4, <2>5, <2>6, <2>7 DEF ContextInv
<1>8. ASSUME NEW i \in Ingest, Context!InsertFails(i)
      PROVE  ContextInv'
  <2>1. /\ ingest[i].pc = "staged" /\ UNCHANGED <<source, rows, purging, purges, day>>
        /\ payload' = [payload EXCEPT ![ingest[i].version] = Context!Absent]
        /\ ingest' = [ingest EXCEPT ![i] = Context!IdleIngest]
    BY <1>8 DEF Context!InsertFails
  <2>2. ingest[i].version \in Context!Version
    BY <1>a, <2>1 DEF ContextTypeOK
  <2>3. /\ ingest' \in [Ingest -> [pc : {"idle", "read", "staged"}, version : Int]]
        /\ ingest'[i].pc = "idle" /\ \A j \in Ingest \ {i} : ingest'[j] = ingest[j]
    BY <1>a, <2>1 DEF ContextTypeOK, Context!IdleIngest
  <2>4. /\ \A j \in Ingest : ingest'[j].pc # "staged"
        /\ \A row \in Context!Rows : row.version # ingest[i].version
        /\ purging = Context!NoPurge
    BY <1>a, <2>1, <2>3 DEF OneAtATime, Context!HasRow
  <2>5. \A j \in Ingest : ingest'[j].pc # "idle" => ingest'[j].version \in Context!Version
    BY <1>a, <2>3 DEF ContextTypeOK
  <2>6. \A w \in Context!Version : purging'.of # w
    BY <1>v, <2>1, <2>4 DEF Context!NoPurge
  <2>7. \A w \in Context!Version : [of |-> w, orphan |-> FALSE] # purging'
    BY <1>v, <2>1, <2>4 DEF Context!NoPurge
  <2>8. purging' \in ContextPurge
    BY <1>a, <2>1 DEF ContextTypeOK
  <2> QED
    BY <1>p, <2>1, <2>2, <2>3, <2>4, <2>5, <2>6, <2>7, <2>8
<1>9. ASSUME NEW v \in Context!Version, Context!UnlinkDue(v) \/ Context!UnlinkOrphan(v)
      PROVE  ContextInv'
  <2>1. /\ Context!Undisturbed /\ UNCHANGED <<source, ingest, rows, purges, day>>
        /\ payload' = [payload EXCEPT ![v] = Context!Absent]
        /\ \/ /\ purging' = [of |-> v, orphan |-> FALSE]
              /\ \E row \in Context!Rows : row.version = v /\ row.due <= day
           \/ purging' = [of |-> v, orphan |-> TRUE] /\ ~Context!HasRow(v)
    BY <1>9 DEF Context!UnlinkDue, Context!UnlinkOrphan
  <2>2. /\ ingest' \in [Ingest -> [pc : {"idle", "read", "staged"}, version : Int]]
        /\ \A j \in Ingest : ingest'[j].pc # "idle" => ingest'[j].version \in Context!Version
    BY <1>a, <2>1 DEF ContextTypeOK
  <2>3. \A j \in Ingest : ingest'[j].pc # "staged"
    BY <2>1 DEF Context!Undisturbed
  <2>4. purging' \in ContextPurge /\ purging'.of = v
    <3>1. v \in Int
      BY <1>v
    <3>2. /\ [of |-> v, orphan |-> FALSE] \in ContextPurge /\ [of |-> v, orphan |-> FALSE].of = v
          /\ [of |-> v, orphan |-> TRUE] \in ContextPurge /\ [of |-> v, orphan |-> TRUE].of = v
      BY <3>1 DEF ContextPurge
    <3> QED  BY <2>1, <3>2
  <2>5. \A w \in Context!Version : [of |-> w, orphan |-> FALSE] = purging' => Context!HasRow(w)
    <3> SUFFICES ASSUME NEW w \in Context!Version, [of |-> w, orphan |-> FALSE] = purging'
                 PROVE  Context!HasRow(w)
      OBVIOUS
    <3>1. w = v /\ purging'.orphan = FALSE
      BY <2>4
    <3>2. \E row \in Context!Rows : row.version = v
      BY <2>1, <3>1
    <3> QED  BY <3>1, <3>2 DEF Context!HasRow
  <2>6. \A row \in Context!Rows : row.version = v => row.due <= day
    BY <1>a, <2>1 DEF RowsAreOfOneVersionEach, Context!HasRow
  <2> QED
    BY <1>p, <2>1, <2>2, <2>3, <2>4, <2>5, <2>6
<1>10. CASE Context!RecordPurge
  <2>1. /\ purging # Context!NoPurge /\ purges' = purges \cup {purging}
        /\ purging' = Context!NoPurge
        /\ UNCHANGED <<source, ingest, rows, payload, day>>
    BY <1>10 DEF Context!RecordPurge
  <2>2. Context!Rows' = Context!Rows /\ \A w : Context!HasRow(w)' <=> Context!HasRow(w)
    BY <2>1 DEF Context!Rows, Context!HasRow
  <2>3. ContextTypeOK'
    <3>1. Context!Version' = Context!Version /\ ContextRow' = ContextRow /\ ContextPurge' = ContextPurge
      BY DEF Context!Version, ContextRow, ContextPurge
    <3>2. Context!NoPurge \in ContextPurge
      BY DEF ContextPurge, Context!NoPurge
    <3> QED  BY <1>a, <2>1, <3>1, <3>2 DEF ContextTypeOK
  <2>4. OneAtATime'
    <3>1. \A w \in Context!Version : purging'.of # w
      BY <1>v, <2>1 DEF Context!NoPurge
    <3>2. \A i \in Ingest : ingest'[i].pc # "staged"
      BY <1>a, <2>1 DEF OneAtATime
    <3> QED  BY <3>1, <3>2 DEF OneAtATime, Context!Version
  <2>5. RowsAreOfOneVersionEach'
    <3>1. \A w \in Context!Version : [of |-> w, orphan |-> FALSE] # Context!NoPurge
      BY <1>v DEF Context!NoPurge
    <3>2. \A w \in Context!Version : [of |-> w, orphan |-> FALSE] \in purges' \cup {purging'} => Context!HasRow(w)'
      BY <1>a, <2>1, <2>2, <3>1 DEF RowsAreOfOneVersionEach
    <3> QED  BY <1>a, <2>2, <3>2 DEF RowsAreOfOneVersionEach, Context!Version
  <2>6. SensitiveIsNotStaged'
    BY <1>a, <2>1, <2>2 DEF SensitiveIsNotStaged, Context!Version, Context!Absent
  <2>7. PayloadsFollowTheirRows'
    <3> SUFFICES ASSUME NEW row \in Context!Rows, [of |-> row.version, orphan |-> FALSE] = purging
                 PROVE  payload[row.version] = Context!Absent
      BY <1>a, <2>1, <2>2 DEF PayloadsFollowTheirRows, Context!PayloadsFollowTheirRows, Context!Absent
    <3>1. row.version \in Context!Version /\ purging.of = row.version
      BY <1>r
    <3> QED  BY <1>a, <3>1 DEF OneAtATime
  <2> QED
    BY <2>3, <2>4, <2>5, <2>6, <2>7 DEF ContextInv
<1> QED
  BY <1>1, <1>2, <1>3, <1>4, <1>5, <1>6, <1>7, <1>8, <1>9, <1>10 DEF Context!ContextNext

(***************************************************************************)
(* The newest observation decides                                          *)
(***************************************************************************)

Group == [last : Nat, recovered : Nat]

ObservationTypeOK ==
    /\ events \subseteq [status : Observations!Status, at : Nat \ {0}]
    /\ group \in [Observations!Status -> Group]

\* What a group holds was observed: its last failure or success, and the success
\* that it recovered with.
GroupsWereObserved ==
    \A s \in Observations!Status :
        /\ Observations!Seen(s) => [status |-> s, at |-> group[s].last] \in events
        /\ group[s].recovered # 0 => [status |-> "healthy", at |-> group[s].recovered] \in events

\* A success that is newer than anything else.
Newest(e) == e \in events /\ \A other \in events \ {e} : other.at < e.at

\* It is what the group of the successes holds.
NewestIsHeld ==
    \A e \in events : e.status = "healthy" /\ Newest(e) => group["healthy"].last = e.at

ObservationInv ==
    ObservationTypeOK /\ GroupsWereObserved /\ NewestIsHeld /\ HealthyClosesAll

LEMMA ObservationInitInvariant == Observations!ObservationInit => ObservationInv
<1> SUFFICES ASSUME Observations!ObservationInit  PROVE ObservationInv
  OBVIOUS
<1>1. events = {} /\ group = [s \in Observations!Status |-> [last |-> 0, recovered |-> 0]]
  BY DEF Observations!ObservationInit, Observations!Unseen
<1>2. group \in [Observations!Status -> Group]
  BY <1>1 DEF Group
<1>3. \A s \in Observations!Status : group[s].last = 0 /\ group[s].recovered = 0
  BY <1>1
<1> QED
  BY <1>1, <1>2, <1>3 DEF ObservationInv, ObservationTypeOK, GroupsWereObserved, NewestIsHeld,
                          HealthyClosesAll, Observations!HealthyClosesAll, Observations!Seen

\* What the record of a new observation makes of the groups.
LEMMA RecordGroups ==
    ASSUME ObservationTypeOK, NEW status \in Observations!Status, NEW at \in Nat \ {0},
           NEW latest, Observations!Record(status, at, latest)
    PROVE  /\ ObservationTypeOK' /\ events' = events \cup {[status |-> status, at |-> at]}
           /\ \A s \in Observations!Status :
                \/ s \in Observations!Recovers(status, at, latest)
                     /\ group'[s] = [group[s] EXCEPT !.recovered = at]
                \/ /\ s \notin Observations!Recovers(status, at, latest)
                   /\ s = status /\ ~Observations!Delayed(status, at, latest)
                   /\ group'[s] = [last |-> at, recovered |-> 0]
                \/ /\ s \notin Observations!Recovers(status, at, latest)
                   /\ ~(s = status /\ ~Observations!Delayed(status, at, latest))
                   /\ group'[s] = group[s]
<1> DEFINE recovers == Observations!Recovers(status, at, latest)
           delayed == Observations!Delayed(status, at, latest)
           added == [status |-> status, at |-> at]
<1>1. /\ events' = events \cup {added}
      /\ group' = [s \in Observations!Status |->
             IF s \in recovers THEN [group[s] EXCEPT !.recovered = at]
             ELSE IF s = status /\ ~delayed THEN [last |-> at, recovered |-> 0]
             ELSE group[s]]
  BY DEF Observations!Record
<1>2. added \in [status : Observations!Status, at : Nat \ {0}]
  OBVIOUS
<1>3. events' \subseteq [status : Observations!Status, at : Nat \ {0}]
  <2> HIDE DEF added
  <2> QED  BY <1>1, <1>2 DEF ObservationTypeOK
<1>4. ASSUME NEW s \in Observations!Status
      PROVE  /\ \/ s \in recovers /\ group'[s] = [group[s] EXCEPT !.recovered = at]
                \/ s \notin recovers /\ s = status /\ ~delayed
                     /\ group'[s] = [last |-> at, recovered |-> 0]
                \/ s \notin recovers /\ ~(s = status /\ ~delayed) /\ group'[s] = group[s]
             /\ group'[s] \in Group
  <2> HIDE DEF recovers, delayed
  <2>1. group[s] \in Group
    BY DEF ObservationTypeOK
  <2>2. [group[s] EXCEPT !.recovered = at] \in Group /\ [last |-> at, recovered |-> 0] \in Group
    BY <2>1 DEF Group
  <2>3. group'[s] = IF s \in recovers THEN [group[s] EXCEPT !.recovered = at]
                    ELSE IF s = status /\ ~delayed THEN [last |-> at, recovered |-> 0]
                    ELSE group[s]
    BY <1>1
  <2> QED  BY <2>1, <2>2, <2>3
<1>5. group' \in [Observations!Status -> Group]
  <2> HIDE DEF recovers, delayed
  <2>1. group' = [s \in Observations!Status |-> group'[s]]
    BY <1>1
  <2> QED  BY <1>4, <2>1
<1>6. ObservationTypeOK'
  BY <1>3, <1>5 DEF ObservationTypeOK, Observations!Status
<1> QED
  BY <1>1, <1>4, <1>6

\* The record of a new observation keeps the invariant.
LEMMA RecordInvariant ==
    ASSUME ObservationInv, NEW status \in Observations!Status, NEW at \in Nat \ {0},
           NEW latest \in Observations!LatestGroups, Observations!IsNew(status, at),
           Observations!Record(status, at, latest)
    PROVE  ObservationInv'
<1> DEFINE recovers == Observations!Recovers(status, at, latest)
           delayed == Observations!Delayed(status, at, latest)
           added == [status |-> status, at |-> at]
<1>a. ObservationTypeOK /\ GroupsWereObserved /\ NewestIsHeld /\ HealthyClosesAll
  BY DEF ObservationInv
<1>h. "healthy" \in Observations!Status
  BY DEF Observations!Status
<1>t. \A s \in Observations!Status : group[s].last \in Nat /\ group[s].recovered \in Nat
  BY <1>a DEF ObservationTypeOK, Group
<1>1. /\ ObservationTypeOK' /\ events' = events \cup {added}
      /\ \A s \in Observations!Status :
           \/ s \in recovers /\ group'[s] = [group[s] EXCEPT !.recovered = at]
           \/ s \notin recovers /\ s = status /\ ~delayed
                /\ group'[s] = [last |-> at, recovered |-> 0]
           \/ s \notin recovers /\ ~(s = status /\ ~delayed) /\ group'[s] = group[s]
  BY <1>a, RecordGroups
<1>2. added \notin events
  BY DEF Observations!IsNew
<1>f. added.status = status /\ added.at = at
  OBVIOUS
<1>3. \A s \in Observations!Status :
        /\ s \in recovers => /\ status = "healthy" /\ Observations!Seen(s) /\ s # "healthy"
                             /\ group'[s].last = group[s].last /\ group'[s].recovered = at
        /\ s \notin recovers /\ s = status /\ ~delayed =>
             group'[s].last = at /\ group'[s].recovered = 0
        /\ s \notin recovers /\ ~(s = status /\ ~delayed) =>
             group'[s].last = group[s].last /\ group'[s].recovered = group[s].recovered
  <2>1. \A s \in recovers : /\ status = "healthy" /\ Observations!Seen(s) /\ s # "healthy"
    BY DEF Observations!Recovers, Observations!Open
  <2>2. \A s \in Observations!Status :
          [group[s] EXCEPT !.recovered = at].last = group[s].last
          /\ [group[s] EXCEPT !.recovered = at].recovered = at
    BY <1>a DEF ObservationTypeOK, Group
  <2> HIDE DEF recovers, delayed
  <2>3. ASSUME NEW s \in Observations!Status, s \in recovers
        PROVE  group'[s] = [group[s] EXCEPT !.recovered = at]
    BY <1>1, <2>3
  <2>4. ASSUME NEW s \in Observations!Status, s \notin recovers, s = status, ~delayed
        PROVE  group'[s] = [last |-> at, recovered |-> 0]
    BY <1>1, <2>4
  <2>5. ASSUME NEW s \in Observations!Status, s \notin recovers, ~(s = status /\ ~delayed)
        PROVE  group'[s] = group[s]
    BY <1>1, <2>5
  <2>6. [last |-> at, recovered |-> 0].last = at /\ [last |-> at, recovered |-> 0].recovered = 0
    OBVIOUS
  <2>7. ASSUME NEW s \in Observations!Status, s \in recovers
        PROVE  group'[s].last = group[s].last /\ group'[s].recovered = at
    BY <2>2, <2>3, <2>7
  <2>8. ASSUME NEW s \in Observations!Status, s \notin recovers, s = status, ~delayed
        PROVE  group'[s].last = at /\ group'[s].recovered = 0
    BY <2>4, <2>6, <2>8
  <2>9. ASSUME NEW s \in Observations!Status, s \notin recovers, ~(s = status /\ ~delayed)
        PROVE  group'[s].last = group[s].last /\ group'[s].recovered = group[s].recovered
    BY <2>5, <2>9
  <2> QED  BY <2>1, <2>7, <2>8, <2>9, Zenon
<1> HIDE DEF recovers, delayed, added
<1>4. GroupsWereObserved'
  <2> SUFFICES ASSUME NEW s \in Observations!Status
               PROVE  /\ group'[s].last > 0 => [status |-> s, at |-> group'[s].last] \in events'
                      /\ group'[s].recovered # 0 =>
                           [status |-> "healthy", at |-> group'[s].recovered] \in events'
    BY DEF GroupsWereObserved, Observations!Seen, Observations!Status
  <2>1. /\ group[s].last > 0 => [status |-> s, at |-> group[s].last] \in events
        /\ group[s].recovered # 0 => [status |-> "healthy", at |-> group[s].recovered] \in events
    BY <1>a DEF GroupsWereObserved, Observations!Seen
  <2>2. CASE s \in recovers
    BY <1>1, <1>3, <2>1, <2>2 DEF added
  <2>3. CASE s \notin recovers /\ s = status /\ ~delayed
    BY <1>1, <1>3, <2>3 DEF added
  <2>4. CASE s \notin recovers /\ ~(s = status /\ ~delayed)
    BY <1>1, <1>3, <2>1, <2>4
  <2> QED  BY <2>2, <2>3, <2>4
<1>5. ASSUME NEW e \in events', e.status = "healthy", Newest(e)'
      PROVE  group'["healthy"].last = e.at
             /\ \A s \in Observations!Status :
                  s # "healthy" /\ group'[s].last > 0 => group'[s].recovered # 0
  <2>n. \A other \in events' \ {e} : other.at < e.at
    BY <1>5 DEF Newest
  <2>t. e.at \in Nat /\ e.at > 0
    BY <1>1 DEF ObservationTypeOK
  <2>s. latest \subseteq Observations!Status
    BY DEF Observations!LatestGroups
  <2>1. CASE e = added
    <3>1. status = "healthy" /\ at = e.at /\ \A other \in events : other.at < at
      BY <1>1, <1>2, <1>5, <1>f, <2>n, <2>1
    <3>2. \A s \in Observations!Status :
            group[s].last < at /\ group[s].recovered < at
      <4> SUFFICES ASSUME NEW s \in Observations!Status
                   PROVE  group[s].last < at /\ group[s].recovered < at
        OBVIOUS
      <4>1. group[s].last > 0 => [status |-> s, at |-> group[s].last] \in events
        BY <1>a DEF GroupsWereObserved, Observations!Seen
      <4>2. group[s].recovered # 0 => [status |-> "healthy", at |-> group[s].recovered] \in events
        BY <1>a DEF GroupsWereObserved
      <4>3. group[s].last > 0 => group[s].last < at
        BY <3>1, <4>1
      <4>4. group[s].recovered # 0 => group[s].recovered < at
        BY <3>1, <4>2
      <4> QED  BY <1>t, <4>3, <4>4
    <3>3. \A s \in Observations!Status : ~Observations!Older(at, s)
      <4> SUFFICES ASSUME NEW s \in Observations!Status
                   PROVE  ~(at < group[s].last) /\ ~(at <= group[s].recovered)
        BY DEF Observations!Older
      <4>1. group[s].last \in Nat /\ group[s].recovered \in Nat
        BY <1>t
      <4>2. group[s].last < at /\ group[s].recovered < at
        BY <3>2
      <4> QED  BY <4>1, <4>2
    <3>4. ~delayed
      BY <1>h, <2>s, <3>1, <3>3 DEF delayed, Observations!Delayed
    <3>5. recovers = {s \in Observations!Status : Observations!Open(s)}
      <4>1. ~ \E s \in latest : Observations!Older(at, s)
        BY <2>s, <3>3
      <4>2. \A s \in Observations!Status : group[s].last <= at
        BY <1>t, <3>2
      <4> QED  BY <3>1, <4>1, <4>2 DEF recovers, Observations!Recovers
    <3>6. "healthy" \notin recovers
      BY <3>5 DEF Observations!Open
    <3>7. group'["healthy"].last = at
      BY <1>3, <1>h, <3>1, <3>4, <3>6
    <3>8. ASSUME NEW s \in Observations!Status, s # "healthy", group'[s].last > 0
          PROVE  group'[s].recovered # 0
      <4>1. CASE s \in recovers
        BY <1>3, <4>1
      <4>2. CASE s \notin recovers
        <5>1. group'[s].last = group[s].last /\ group'[s].recovered = group[s].recovered
          BY <1>3, <3>1, <3>8, <4>2
        <5> QED  BY <3>5, <3>8, <4>2, <5>1 DEF Observations!Open, Observations!Seen
      <4> QED  BY <4>1, <4>2
    <3> QED  BY <3>1, <3>7, <3>8
  <2>2. CASE e # added
    <3>1. e \in events /\ (\A other \in events \ {e} : other.at < e.at) /\ at < e.at
      BY <1>1, <1>f, <1>2, <2>n, <2>2
    <3>2. group["healthy"].last = e.at
      BY <1>5, <1>a, <3>1 DEF NewestIsHeld, Newest
    <3>3. \A s \in Observations!Status : ~Observations!Open(s)
      BY <1>5, <1>a, <3>1 DEF HealthyClosesAll, Observations!HealthyClosesAll
    <3>4. Observations!Seen("healthy")
      BY <2>t, <3>2 DEF Observations!Seen
    <3>5. PICK s \in Observations!Status :
            latest = {s} /\ Observations!Seen(s)
            /\ \A u \in Observations!Status : group[u].last <= group[s].last
      <4>1. latest \in {{s} : s \in {t \in Observations!Status :
                            Observations!Seen(t) /\ \A u \in Observations!Status :
                                                       group[u].last <= group[t].last}}
        BY <1>h, <3>4 DEF Observations!LatestGroups
      <4> QED  BY <4>1
    <3>6. Observations!Older(at, s)
      BY <1>h, <1>t, <2>t, <3>1, <3>2, <3>5 DEF Observations!Older
    <3>7. delayed /\ recovers = {}
      BY <3>5, <3>6 DEF delayed, recovers, Observations!Delayed, Observations!Recovers
    <3>8. \A u \in Observations!Status :
            group'[u].last = group[u].last /\ group'[u].recovered = group[u].recovered
      BY <1>3, <3>7
    <3> QED
      BY <1>h, <3>2, <3>3, <3>8 DEF Observations!Open, Observations!Seen
  <2> QED  BY <2>1, <2>2
<1>6. NewestIsHeld'
  BY <1>5 DEF NewestIsHeld
<1>7. HealthyClosesAll'
  <2> SUFFICES ASSUME NEW e \in events', e.status = "healthy",
                      \A other \in events' \ {e} : other.at < e.at,
                      NEW s \in Observations!Status
               PROVE  ~(s # "healthy" /\ group'[s].last > 0 /\ group'[s].recovered = 0)
    BY DEF HealthyClosesAll, Observations!HealthyClosesAll, Observations!Open, Observations!Seen,
           Observations!Status
  <2>1. Newest(e)'
    BY DEF Newest
  <2> QED  BY <1>5, <2>1
<1> QED
  BY <1>1, <1>4, <1>6, <1>7 DEF ObservationInv

\* Every step keeps the invariant.
LEMMA ObservationStepInvariant ==
    ASSUME ObservationInv, [Observations!ObservationNext]_observationVars, MaxTime \in Nat
    PROVE  ObservationInv'
<1>u. ASSUME UNCHANGED <<events, group>>
      PROVE  ObservationInv'
  BY <1>u DEF ObservationInv, ObservationTypeOK, GroupsWereObserved, NewestIsHeld, Newest,
              HealthyClosesAll, Observations!HealthyClosesAll, Observations!Open, Observations!Seen
<1>r. ASSUME NEW status \in Observations!Status, NEW at \in 1..MaxTime,
             NEW latest \in Observations!LatestGroups, Observations!IsNew(status, at),
             Observations!Record(status, at, latest)
      PROVE  ObservationInv'
  <2>1. at \in Nat \ {0}
    OBVIOUS
  <2> QED  BY <1>r, <2>1, RecordInvariant
<1>1. ASSUME NEW o \in Observer, NEW status \in Observations!Status, NEW at \in 1..MaxTime,
             Observations!Observe(o, status, at)
      PROVE  ObservationInv'
  BY <1>1, <1>r DEF Observations!Observe
<1>2. ASSUME NEW o \in Observer, Observations!TellRecovery(o)
      PROVE  ObservationInv'
  BY <1>2, <1>u DEF Observations!TellRecovery
<1>3. CASE Observations!ObservationCrash
  BY <1>3, <1>r, <1>u DEF Observations!ObservationCrash
<1>4. CASE UNCHANGED observationVars
  BY <1>4, <1>u DEF observationVars
<1> QED
  BY <1>1, <1>2, <1>3, <1>4 DEF Observations!ObservationNext

(***************************************************************************)
(* The promotion of a candidate                                            *)
(***************************************************************************)

Stage == {"idle", "checking", "merging", "verifying", "trusted", "rolling-back"}
PromotionState == Promotion!terminal \cup {"approved", "merged", "executor-unavailable"}

PromotionTypeOK ==
    /\ promotionEvents \in Seq(PromotionState)
    /\ promoting \in [Promoter -> Stage]
    /\ overlapped \in BOOLEAN
    /\ production \in [merged : BOOLEAN, serves : {"previous", "candidate"}, rolledBack : BOOLEAN]

\* Production that was rolled back serves the previous version for good.
RolledBackForGood == production.rolledBack => production.serves = "previous"

\* As long as no two calls overlapped there is at most one, which a terminal
\* event has ended, and production serves what that call found verified.
AloneUntilOverlap ==
    ~overlapped =>
        /\ \A c, d \in Promoter : promoting[c] # "idle" /\ promoting[d] # "idle" => c = d
        /\ Promotion!latest \in Promotion!terminal => \A c \in Promoter : promoting[c] = "idle"
        /\ \A c \in Promoter : promoting[c] = "trusted" => production.serves = "candidate"

PromotionInv == PromotionTypeOK /\ RolledBackForGood /\ AloneUntilOverlap /\ VerifiedIsLive

\* What the latest event is after one was added.
LEMMA LatestOfAppend ==
    ASSUME NEW state \in PromotionState, promotionEvents \in Seq(PromotionState),
           promotionEvents' = Append(promotionEvents, state)
    PROVE  promotionEvents' \in Seq(PromotionState) /\ Promotion!latest' = state
<1>1. Len(promotionEvents') = Len(promotionEvents) + 1
  OBVIOUS
<1>2. promotionEvents'[Len(promotionEvents) + 1] = state
  OBVIOUS
<1>3. promotionEvents' # <<>>
  BY <1>1
<1> QED
  BY <1>1, <1>2, <1>3 DEF Promotion!latest, Promotion!Last

\* An event that a call leaves behind is the latest one afterwards, or the call
\* ends without one.
LEMMA AppendLeaves ==
    ASSUME PromotionTypeOK, NEW c \in Promoter, NEW state \in PromotionState, NEW pc \in Stage,
           Promotion!append(c, state, pc)
    PROVE  /\ promotionEvents' \in Seq(PromotionState)
           /\ \/ promoting' = [promoting EXCEPT ![c] = pc] /\ Promotion!latest' = state
              \/ /\ promoting' = [promoting EXCEPT ![c] = "idle"]
                 /\ UNCHANGED promotionEvents
<1>1. CASE Promotion!latest = state
  <2>1. UNCHANGED promotionEvents /\ promoting' = [promoting EXCEPT ![c] = pc]
    BY <1>1 DEF Promotion!append, Promotion!Moves
  <2>2. Promotion!latest' = state
    BY <1>1, <2>1 DEF Promotion!latest
  <2> QED  BY <2>1, <2>2 DEF PromotionTypeOK
<1>2. CASE Promotion!latest # state /\ state \notin Promotion!ToSet(promotionEvents)
  <2>1. /\ promotionEvents' = Append(promotionEvents, state)
        /\ promoting' = [promoting EXCEPT ![c] = pc]
    BY <1>2 DEF Promotion!append, Promotion!Moves
  <2> QED  BY <2>1, LatestOfAppend DEF PromotionTypeOK
<1>3. CASE Promotion!latest # state /\ state \in Promotion!ToSet(promotionEvents)
  BY <1>3 DEF Promotion!append, Promotion!Ends, Promotion!Moves, PromotionTypeOK
<1> QED
  BY <1>1, <1>2, <1>3

LEMMA PromotionInitInvariant == Promotion!PromotionInit => PromotionInv
<1> SUFFICES ASSUME Promotion!PromotionInit  PROVE PromotionInv
  OBVIOUS
<1>1. /\ production = [merged |-> FALSE, serves |-> "previous", rolledBack |-> FALSE]
      /\ promotionEvents = <<>> /\ overlapped = FALSE
      /\ promoting = [c \in Promoter |-> "idle"]
  BY DEF Promotion!PromotionInit
<1>2. PromotionTypeOK
  <2>1. promotionEvents \in Seq(PromotionState)
    BY <1>1
  <2>2. promoting \in [Promoter -> Stage]
    BY <1>1 DEF Stage
  <2>3. production \in [merged : BOOLEAN, serves : {"previous", "candidate"}, rolledBack : BOOLEAN]
    BY <1>1
  <2> QED  BY <1>1, <2>1, <2>2, <2>3 DEF PromotionTypeOK
<1>3. Promotion!latest = "none"
  BY <1>1 DEF Promotion!latest
<1>4. RolledBackForGood /\ VerifiedIsLive
  BY <1>1, <1>3 DEF RolledBackForGood, VerifiedIsLive, Promotion!VerifiedIsLive
<1>5. AloneUntilOverlap
  BY <1>1 DEF AloneUntilOverlap
<1> QED
  BY <1>2, <1>4, <1>5 DEF PromotionInv

\* A call that leaves an event in production as it is, or ends.
LEMMA CallLeaves ==
    ASSUME PromotionInv, NEW c \in Promoter, promoting[c] # "idle", NEW state \in PromotionState,
           NEW pc \in Stage, pc # "trusted",
           state \in Promotion!terminal <=> pc = "idle",
           Promotion!append(c, state, pc), UNCHANGED overlapped,
           production' \in [merged : BOOLEAN, serves : {"previous", "candidate"}, rolledBack : BOOLEAN],
           production'.rolledBack => production'.serves = "previous",
           ~overlapped /\ state = "verified" => production'.serves = "candidate"
    PROVE  PromotionInv'
<1>a. PromotionTypeOK /\ RolledBackForGood /\ AloneUntilOverlap /\ VerifiedIsLive
  BY DEF PromotionInv
<1>1. /\ promotionEvents' \in Seq(PromotionState)
      /\ \/ promoting' = [promoting EXCEPT ![c] = pc] /\ Promotion!latest' = state
         \/ promoting' = [promoting EXCEPT ![c] = "idle"] /\ UNCHANGED promotionEvents
  BY <1>a, AppendLeaves
<1>2. PICK stage \in Stage : /\ promoting' = [promoting EXCEPT ![c] = stage]
                             /\ \/ stage = pc /\ Promotion!latest' = state
                                \/ stage = "idle" /\ UNCHANGED promotionEvents
  BY <1>1 DEF Stage
<1>3. PromotionTypeOK' /\ promoting'[c] = stage
      /\ \A d \in Promoter \ {c} : promoting'[d] = promoting[d]
  BY <1>a, <1>1, <1>2 DEF PromotionTypeOK
<1>4. RolledBackForGood'
  BY DEF RolledBackForGood
<1>5. ASSUME ~overlapped
      PROVE  /\ \A d \in Promoter \ {c} : promoting'[d] = "idle"
             /\ Promotion!latest \notin Promotion!terminal
  BY <1>a, <1>3, <1>5 DEF AloneUntilOverlap
<1>6. UNCHANGED promotionEvents => Promotion!latest' = Promotion!latest
  BY DEF Promotion!latest
<1>7. AloneUntilOverlap'
  <2> SUFFICES ASSUME ~overlapped'
               PROVE  /\ \A d, e \in Promoter : promoting'[d] # "idle" /\ promoting'[e] # "idle" => d = e
                      /\ Promotion!latest' \in Promotion!terminal =>
                           \A d \in Promoter : promoting'[d] = "idle"
                      /\ \A d \in Promoter : promoting'[d] = "trusted" => production'.serves = "candidate"
    BY DEF AloneUntilOverlap, Promotion!terminal
  <2>1. \A d \in Promoter \ {c} : promoting'[d] = "idle"
    BY <1>5
  <2>2. stage # "trusted" /\ (Promotion!latest' \in Promotion!terminal => stage = "idle")
    BY <1>2, <1>5, <1>6
  <2> QED  BY <1>3, <2>1, <2>2
<1>8. VerifiedIsLive'
  BY <1>2, <1>5, <1>6 DEF VerifiedIsLive, Promotion!VerifiedIsLive, Promotion!terminal
<1> QED
  BY <1>3, <1>4, <1>7, <1>8 DEF PromotionInv

\* A step of a call that leaves no event.
LEMMA CallMoves ==
    ASSUME PromotionInv, NEW c \in Promoter, promoting[c] # "idle", NEW pc \in Stage,
           promoting' = [promoting EXCEPT ![c] = pc],
           UNCHANGED <<promotionEvents, overlapped, production>>,
           pc = "trusted" => production.serves = "candidate"
    PROVE  PromotionInv'
<1>a. PromotionTypeOK /\ RolledBackForGood /\ AloneUntilOverlap /\ VerifiedIsLive
  BY DEF PromotionInv
<1>1. /\ PromotionTypeOK' /\ promoting'[c] = pc
      /\ \A d \in Promoter \ {c} : promoting'[d] = promoting[d]
  BY <1>a DEF PromotionTypeOK
<1>2. Promotion!latest' = Promotion!latest
  BY DEF Promotion!latest
<1>3. RolledBackForGood' /\ VerifiedIsLive'
  BY <1>a, <1>2 DEF RolledBackForGood, VerifiedIsLive, Promotion!VerifiedIsLive
<1>4. AloneUntilOverlap'
  BY <1>a, <1>1, <1>2 DEF AloneUntilOverlap, Promotion!terminal
<1> QED
  BY <1>1, <1>3, <1>4 DEF PromotionInv

\* Every step keeps the invariant.
LEMMA PromotionStepInvariant ==
    ASSUME PromotionInv, [Promotion!PromotionNext]_promotionVars
    PROVE  PromotionInv'
<1>a. PromotionTypeOK /\ RolledBackForGood /\ AloneUntilOverlap /\ VerifiedIsLive
  BY DEF PromotionInv
<1>s. ASSUME UNCHANGED <<production, promotionEvents, promoting, overlapped>>
      PROVE  PromotionInv'
  <2>1. Promotion!latest' = Promotion!latest
    BY <1>s DEF Promotion!latest
  <2>2. PromotionTypeOK' /\ RolledBackForGood'
    BY <1>a, <1>s DEF PromotionTypeOK, RolledBackForGood
  <2>3. AloneUntilOverlap' /\ VerifiedIsLive'
    BY <1>a, <1>s, <2>1 DEF AloneUntilOverlap, VerifiedIsLive, Promotion!VerifiedIsLive, Promotion!terminal
  <2> QED  BY <2>2, <2>3 DEF PromotionInv
<1>1. CASE \/ Promotion!RequestPromotion \/ Promotion!PromoteRejected
           \/ \E s \in Scopes : Promotion!CeoGrants(s) \/ Promotion!ApprovalExpires(s)
  BY <1>1, <1>s DEF Promotion!RequestPromotion, Promotion!PromoteRejected, Promotion!CeoGrants,
                    Promotion!ApprovalExpires
<1>2. CASE Promotion!PromotionCrash
  <2>1. /\ promoting' = [c \in Promoter |-> "idle"]
        /\ UNCHANGED <<promotionEvents, overlapped>>
        /\ production' \in {production, [production EXCEPT !.merged = TRUE], Promotion!RolledBack}
    BY <1>2 DEF Promotion!PromotionCrash
  <2>2. PICK c \in Promoter : promoting[c] # "idle"
    BY <1>2 DEF Promotion!PromotionCrash
  <2>3. PromotionTypeOK'
    BY <1>a, <2>1 DEF PromotionTypeOK, Stage, Promotion!RolledBack
  <2>4. RolledBackForGood'
    BY <1>a, <2>1 DEF PromotionTypeOK, RolledBackForGood, Promotion!RolledBack
  <2>5. AloneUntilOverlap'
    BY <2>1 DEF AloneUntilOverlap, Promotion!terminal
  <2>6. ~overlapped => Promotion!latest \notin Promotion!terminal
    BY <1>a, <2>2 DEF AloneUntilOverlap
  <2>7. Promotion!latest' = Promotion!latest
    BY <2>1 DEF Promotion!latest
  <2>8. VerifiedIsLive'
    BY <2>1, <2>6, <2>7 DEF VerifiedIsLive, Promotion!VerifiedIsLive, Promotion!terminal
  <2> QED
    BY <2>3, <2>4, <2>5, <2>8 DEF PromotionInv
<1>3. CASE Promotion!Deploys
  <2>1. /\ UNCHANGED <<promotionEvents, promoting, overlapped>>
        /\ production' = [production EXCEPT !.serves = "candidate"] /\ ~production.rolledBack
    BY <1>3 DEF Promotion!Deploys
  <2>2. PromotionTypeOK' /\ production'.serves = "candidate" /\ ~production'.rolledBack
    BY <1>a, <2>1 DEF PromotionTypeOK
  <2>3. Promotion!latest' = Promotion!latest
    BY <2>1 DEF Promotion!latest
  <2>4. RolledBackForGood' /\ VerifiedIsLive'
    BY <2>2 DEF RolledBackForGood, VerifiedIsLive, Promotion!VerifiedIsLive
  <2>5. AloneUntilOverlap'
    BY <1>a, <2>1, <2>2, <2>3 DEF AloneUntilOverlap, Promotion!terminal
  <2> QED
    BY <2>2, <2>4, <2>5 DEF PromotionInv
<1>4. ASSUME NEW c \in Promoter, NEW executor \in BOOLEAN, Promotion!Promote(c, executor)
      PROVE  PromotionInv'
  <2> DEFINE begun == IF promotionEvents = <<>> THEN <<"approved">> ELSE promotionEvents
             blocked == "executor-unavailable"
  <2>1. /\ promoting[c] = "idle" /\ UNCHANGED production
        /\ Promotion!latest \notin Promotion!terminal
        /\ \/ /\ promotionEvents' = begun /\ promoting' = [promoting EXCEPT ![c] = "checking"]
              /\ overlapped' = (overlapped \/ \E d \in Promoter : promoting[d] # "idle")
           \/ /\ promotionEvents' \in {begun, Append(begun, blocked)}
              /\ UNCHANGED <<promoting, overlapped>>
    BY <1>4 DEF Promotion!Promote, Promotion!Moves
  <2>2. begun \in Seq(PromotionState) /\ blocked \in PromotionState
    <3>1. "approved" \in PromotionState /\ blocked \in PromotionState
      BY DEF PromotionState
    <3>2. <<"approved">> \in Seq(PromotionState)
      BY <3>1
    <3> QED  BY <1>a, <3>1, <3>2 DEF PromotionTypeOK
  <2>3. promotionEvents' \in Seq(PromotionState)
    <3> HIDE DEF begun, blocked
    <3> QED  BY <2>1, <2>2
  <2>4. promotionEvents' = begun => Promotion!latest' \in {"approved", Promotion!latest}
    <3>1. CASE promotionEvents = <<>>
      BY <3>1 DEF Promotion!latest, Promotion!Last
    <3>2. CASE promotionEvents # <<>>
      BY <3>2 DEF Promotion!latest
    <3> QED  BY <3>1, <3>2
  <2>5. promotionEvents' = Append(begun, blocked) => Promotion!latest' = blocked
    <3>1. ASSUME promotionEvents' = Append(begun, blocked)
          PROVE  promotionEvents' # <<>> /\ promotionEvents'[Len(promotionEvents')] = blocked
      <4> HIDE DEF begun, blocked
      <4> QED  BY <2>2, <3>1
    <3> HIDE DEF begun, blocked
    <3> QED  BY <3>1 DEF Promotion!latest, Promotion!Last
  <2>6. Promotion!latest' \notin Promotion!terminal
    <3>1. Promotion!latest' \in {"approved", Promotion!latest, blocked}
      <4> HIDE DEF begun, blocked
      <4> QED  BY <2>1, <2>4, <2>5
    <3> QED  BY <2>1, <3>1 DEF Promotion!terminal
  <2>7. VerifiedIsLive' /\ RolledBackForGood'
    BY <1>a, <2>1, <2>6 DEF VerifiedIsLive, Promotion!VerifiedIsLive, Promotion!terminal, RolledBackForGood
  <2>8. PromotionTypeOK'
    BY <1>a, <2>1, <2>3 DEF PromotionTypeOK, Stage
  <2>9. AloneUntilOverlap'
    <3>1. CASE UNCHANGED <<promoting, overlapped>>
      <4>1. Promotion!latest' \in Promotion!terminal' => FALSE
        BY <2>6 DEF Promotion!terminal
      <4> QED  BY <1>a, <2>1, <3>1, <4>1 DEF AloneUntilOverlap
    <3>2. CASE /\ promoting' = [promoting EXCEPT ![c] = "checking"]
               /\ overlapped' = (overlapped \/ \E d \in Promoter : promoting[d] # "idle")
      <4>1. Promotion!latest' \notin Promotion!terminal'
        BY <2>6 DEF Promotion!terminal
      <4>2. promoting'[c] = "checking" /\ \A d \in Promoter \ {c} : promoting'[d] = promoting[d]
        BY <1>a, <3>2 DEF PromotionTypeOK
      <4>3. ~overlapped' => ~overlapped /\ \A d \in Promoter : promoting[d] = "idle"
        BY <3>2
      <4> QED  BY <4>1, <4>2, <4>3 DEF AloneUntilOverlap
    <3> QED  BY <2>1, <3>1, <3>2
  <2> QED
    BY <2>7, <2>8, <2>9 DEF PromotionInv
<1>5. ASSUME NEW c \in Promoter, Promotion!CheckCandidate(c)
      PROVE  PromotionInv'
  <2>1. promoting[c] = "checking" /\ UNCHANGED <<production, overlapped>>
    BY <1>5 DEF Promotion!CheckCandidate
  <2>2. CASE promoting' = [promoting EXCEPT ![c] = "merging"] /\ UNCHANGED promotionEvents
    BY <2>1, <2>2, CallMoves DEF Stage
  <2>3. CASE Promotion!append(c, "merge-failed", "idle")
    BY <1>a, <2>1, <2>3, CallLeaves DEF Stage, PromotionState, Promotion!terminal, PromotionTypeOK, RolledBackForGood
  <2> QED
    BY <1>5, <2>2, <2>3 DEF Promotion!CheckCandidate, Promotion!Moves
<1>6. ASSUME NEW c \in Promoter, Promotion!Merge(c)
      PROVE  PromotionInv'
  <2>1. /\ promoting[c] = "merging" /\ UNCHANGED overlapped
        /\ production' \in {production, [production EXCEPT !.merged = TRUE]}
        /\ Promotion!append(c, "merged", "verifying") \/ Promotion!append(c, "merge-failed", "idle")
    BY <1>6 DEF Promotion!Merge
  <2>2. /\ production' \in [merged : BOOLEAN, serves : {"previous", "candidate"}, rolledBack : BOOLEAN]
        /\ production'.rolledBack => production'.serves = "previous"
    BY <1>a, <2>1 DEF PromotionTypeOK, RolledBackForGood
  <2>3. CASE Promotion!append(c, "merged", "verifying")
    BY <2>1, <2>2, <2>3, CallLeaves DEF Stage, PromotionState, Promotion!terminal
  <2>4. CASE Promotion!append(c, "merge-failed", "idle")
    BY <2>1, <2>2, <2>4, CallLeaves DEF Stage, PromotionState, Promotion!terminal
  <2> QED
    BY <2>1, <2>3, <2>4
<1>7. ASSUME NEW c \in Promoter, Promotion!VerifyProduction(c)
      PROVE  PromotionInv'
  <2>1. /\ promoting[c] = "verifying" /\ UNCHANGED <<production, promotionEvents, overlapped>>
        /\ \/ production.serves = "candidate" /\ promoting' = [promoting EXCEPT ![c] = "trusted"]
           \/ promoting' = [promoting EXCEPT ![c] = "rolling-back"]
    BY <1>7 DEF Promotion!VerifyProduction, Promotion!verificationIsTrustworthy, Promotion!Moves
  <2> QED
    BY <2>1, CallMoves DEF Stage
<1>8. ASSUME NEW c \in Promoter, Promotion!RecordVerified(c)
      PROVE  PromotionInv'
  <2>1. /\ promoting[c] = "trusted" /\ UNCHANGED <<production, overlapped>>
        /\ Promotion!append(c, "verified", "idle")
    BY <1>8 DEF Promotion!RecordVerified
  <2>2. ~overlapped => production'.serves = "candidate"
    BY <1>a, <2>1 DEF AloneUntilOverlap
  <2> QED
    BY <1>a, <2>1, <2>2, CallLeaves DEF Stage, PromotionState, Promotion!terminal, PromotionTypeOK, RolledBackForGood
<1>9. ASSUME NEW c \in Promoter, Promotion!Rollback(c)
      PROVE  PromotionInv'
  <2>1. /\ promoting[c] = "rolling-back" /\ UNCHANGED overlapped
        /\ production' \in {production, Promotion!RolledBack}
        /\ \E state \in {"rollback-completed", "rollback-failed"} : Promotion!append(c, state, "idle")
    BY <1>9 DEF Promotion!Rollback
  <2>2. /\ production' \in [merged : BOOLEAN, serves : {"previous", "candidate"}, rolledBack : BOOLEAN]
        /\ production'.rolledBack => production'.serves = "previous"
    BY <1>a, <2>1 DEF PromotionTypeOK, RolledBackForGood, Promotion!RolledBack
  <2> QED
    BY <2>1, <2>2, CallLeaves DEF Stage, PromotionState, Promotion!terminal
<1>10. CASE UNCHANGED promotionVars
  BY <1>10, <1>s DEF promotionVars
<1> QED
  BY <1>1, <1>2, <1>3, <1>4, <1>5, <1>6, <1>7, <1>8, <1>9, <1>10 DEF Promotion!PromotionNext

(***************************************************************************)
(* The cutover of the legacy sources                                       *)
(***************************************************************************)

\* The sources and the record of the run.
CutoverTypeOK ==
    /\ legacy \in [Source -> [reviewed : BOOLEAN, locked : BOOLEAN]]
    /\ DOMAIN cutover = {"pc", "done", "sample", "before", "retirements"}

\* A run that retires has found every source writable, and each that it has not
\* retired since still is.
UnretiredIsWritable ==
    cutover.pc = "retiring" => \A s \in Source \ cutover.retirements : ~legacy[s].locked

CutoverInv == CutoverTypeOK /\ UnretiredIsWritable

LEMMA CutoverInitInvariant == Cutover!CutoverInit => CutoverInv
  BY DEF Cutover!CutoverInit, Cutover!Fresh, CutoverInv, CutoverTypeOK, UnretiredIsWritable

\* A run that goes on to another step, with nothing done to the sources.
LEMMA GoesOn ==
    ASSUME CutoverTypeOK, NEW pc, pc # "retiring", Cutover!Goes(pc), UNCHANGED legacy
    PROVE  CutoverInv' /\ cutover'.retirements = cutover.retirements
  BY DEF Cutover!Goes, CutoverTypeOK, CutoverInv, UnretiredIsWritable

LEMMA Starts ==
    ASSUME CutoverTypeOK, NEW pc, pc # "retiring", cutover' = Cutover!Fresh(pc), UNCHANGED legacy
    PROVE  CutoverInv' /\ cutover'.retirements = {}
  BY DEF Cutover!Fresh, CutoverTypeOK, CutoverInv, UnretiredIsWritable

\* Every step keeps the invariant, and a step that retires a source found it
\* writable.
LEMMA CutoverStepInvariant ==
    ASSUME CutoverInv, [Cutover!CutoverNext]_cutoverVars
    PROVE  CutoverInv' /\ \A s \in cutover'.retirements \ cutover.retirements : ~legacy[s].locked
<1>a. CutoverTypeOK /\ UnretiredIsWritable
  BY DEF CutoverInv
<1>g. ASSUME UNCHANGED legacy,
             \E pc : pc # "retiring" /\ (Cutover!Goes(pc) \/ cutover' = Cutover!Fresh(pc))
      PROVE  CutoverInv' /\ \A s \in cutover'.retirements \ cutover.retirements : ~legacy[s].locked
  BY <1>a, <1>g, GoesOn, Starts
<1>u. ASSUME UNCHANGED cutover, legacy' \in [Source -> [reviewed : BOOLEAN, locked : BOOLEAN]],
             \A s \in Source : legacy'[s].locked = legacy[s].locked
      PROVE  CutoverInv' /\ \A s \in cutover'.retirements \ cutover.retirements : ~legacy[s].locked
  BY <1>a, <1>u DEF CutoverTypeOK, UnretiredIsWritable, CutoverInv
<1>1. CASE Cutover!StartCutover
  BY <1>1, <1>g DEF Cutover!StartCutover
<1>2. CASE Cutover!ReadSources
  BY <1>2, <1>g DEF Cutover!ReadSources, Cutover!Stops
<1>3. CASE Cutover!CheckExisting
  BY <1>3, <1>g DEF Cutover!CheckExisting, Cutover!Stops
<1>p. ASSUME NEW r, NEW priority, NEW next, Cutover!Publishes(r, priority, next), UNCHANGED legacy,
             DOMAIN next = DOMAIN cutover,
             next.pc # "retiring", next.retirements = cutover.retirements
      PROVE  CutoverInv' /\ \A s \in cutover'.retirements \ cutover.retirements : ~legacy[s].locked
  <2>1. CASE cutover' = next
    BY <1>a, <1>p, <2>1 DEF CutoverInv, CutoverTypeOK, UnretiredIsWritable
  <2>2. CASE Cutover!Stops
    BY <1>p, <2>2, <1>g DEF Cutover!Stops
  <2> QED
    BY <1>p, <2>1, <2>2 DEF Cutover!Publishes
<1>4. ASSUME NEW r \in Planned, Cutover!Import(r)
      PROVE  CutoverInv' /\ \A s \in cutover'.retirements \ cutover.retirements : ~legacy[s].locked
  <2>1. UNCHANGED legacy /\ cutover.pc = "importing"
    BY <1>4 DEF Cutover!Import, Cutover!At
  <2>2. CASE Cutover!Stops
    BY <2>1, <2>2, <1>g DEF Cutover!Stops
  <2>3. CASE Cutover!Publishes(r, migrated'[r], [cutover EXCEPT !.done = @ \cup {r}])
    <3> DEFINE next == [cutover EXCEPT !.done = @ \cup {r}]
    <3>1. /\ DOMAIN next = DOMAIN cutover
          /\ next.pc = "importing" /\ next.retirements = cutover.retirements
      BY <1>a, <2>1 DEF CutoverTypeOK
    <3> HIDE DEF next
    <3>2. next.pc # "retiring"
      BY <3>1
    <3>3. Cutover!Publishes(r, migrated'[r], next)
      BY <2>3 DEF next
    <3> QED  BY <1>p, <2>1, <3>1, <3>2, <3>3
  <2> QED
    BY <1>4, <2>2, <2>3 DEF Cutover!Import
<1>5. CASE Cutover!VerifyImport
  <2>1. UNCHANGED legacy /\ cutover.pc = "importing"
    BY <1>5 DEF Cutover!VerifyImport, Cutover!At
  <2>2. CASE cutover' = [cutover EXCEPT !.pc = "sampling", !.done = {}]
    BY <1>a, <2>1, <2>2 DEF CutoverTypeOK, UnretiredIsWritable, CutoverInv
  <2> QED
    BY <1>5, <2>1, <2>2, <1>g DEF Cutover!VerifyImport, Cutover!Stops
<1>6. ASSUME NEW r \in Planned, Cutover!EditSample(r)
      PROVE  CutoverInv' /\ \A s \in cutover'.retirements \ cutover.retirements : ~legacy[s].locked
  <2> DEFINE next == [cutover EXCEPT !.pc = "reconciling", !.sample = r, !.before = migrated[r]]
  <2>1. UNCHANGED legacy /\ Cutover!Publishes(r, Cutover!High, next)
    BY <1>6 DEF Cutover!EditSample
  <2>2. /\ DOMAIN next = DOMAIN cutover
        /\ next.pc # "retiring" /\ next.retirements = cutover.retirements
    BY <1>a DEF CutoverTypeOK
  <2> HIDE DEF next
  <2> QED  BY <1>p, <2>1, <2>2
<1>7. CASE Cutover!ReconcileSample
  <2>1. UNCHANGED legacy /\ (Cutover!Goes("restoring") \/ Cutover!Stops)
    BY <1>7 DEF Cutover!ReconcileSample
  <2> QED  BY <2>1, <1>g DEF Cutover!Stops
<1>8. ASSUME NEW r \in Planned, Cutover!RestoreSample(r)
      PROVE  CutoverInv' /\ \A s \in cutover'.retirements \ cutover.retirements : ~legacy[s].locked
  <2> DEFINE next == [cutover EXCEPT !.pc = "sampling", !.done = @ \cup {r}]
  <2>1. UNCHANGED legacy /\ (Cutover!Stops \/ Cutover!Publishes(r, migrated'[r], next))
    BY <1>8 DEF Cutover!RestoreSample
  <2>2. /\ DOMAIN next = DOMAIN cutover
        /\ next.pc # "retiring" /\ next.retirements = cutover.retirements
    BY <1>a DEF CutoverTypeOK
  <2> HIDE DEF next
  <2>3. CASE Cutover!Stops
    BY <2>1, <2>3, <1>g DEF Cutover!Stops
  <2> QED  BY <1>p, <2>1, <2>2, <2>3
<1>9. CASE Cutover!ProbeSources
  <2>1. UNCHANGED legacy
    BY <1>9 DEF Cutover!ProbeSources
  <2>2. CASE \E s \in Source : legacy[s].locked
    BY <1>9, <2>1, <2>2, <1>g DEF Cutover!ProbeSources, Cutover!Stops
  <2>3. CASE ~ \E s \in Source : legacy[s].locked
    <3>1. cutover' = [cutover EXCEPT !.pc = "retiring"]
      BY <1>9, <2>3 DEF Cutover!ProbeSources, Cutover!Goes
    <3> QED  BY <1>a, <2>1, <2>3, <3>1 DEF CutoverTypeOK, UnretiredIsWritable, CutoverInv
  <2> QED  BY <2>2, <2>3
<1>10. ASSUME NEW s \in Source, Cutover!Retire(s)
       PROVE  CutoverInv' /\ \A t \in cutover'.retirements \ cutover.retirements : ~legacy[t].locked
  <2>1. cutover.pc = "retiring" /\ s \notin cutover.retirements /\ ~legacy[s].locked
    BY <1>a, <1>10 DEF Cutover!Retire, Cutover!At, UnretiredIsWritable
  <2>2. CASE /\ legacy' = [legacy EXCEPT ![s].locked = TRUE]
             /\ cutover' = [cutover EXCEPT !.retirements = @ \cup {s}]
    <3>1. /\ cutover'.retirements = cutover.retirements \cup {s}
          /\ CutoverTypeOK' /\ \A t \in Source \ {s} : legacy'[t] = legacy[t]
      BY <1>a, <2>2 DEF CutoverTypeOK
    <3> QED  BY <1>a, <2>1, <3>1 DEF UnretiredIsWritable, CutoverInv
  <2>3. CASE legacy' \in {legacy, [legacy EXCEPT ![s].locked = TRUE]} /\ Cutover!Stops
    BY <1>a, <2>3 DEF Cutover!Stops, Cutover!Goes, CutoverTypeOK, UnretiredIsWritable, CutoverInv
  <2> QED
    BY <1>10, <2>2, <2>3 DEF Cutover!Retire
<1>11. CASE Cutover!ReportCutover
  BY <1>11, <1>g DEF Cutover!ReportCutover, Cutover!Stops
<1>12. CASE Cutover!RequestFails
  BY <1>12, <1>g DEF Cutover!RequestFails, Cutover!Stops
<1>13. ASSUME NEW s \in Source, Cutover!LegacyEdited(s)
       PROVE  CutoverInv' /\ \A t \in cutover'.retirements \ cutover.retirements : ~legacy[t].locked
  <2>1. legacy' = [legacy EXCEPT ![s].reviewed = FALSE] /\ UNCHANGED cutover
    BY <1>13 DEF Cutover!LegacyEdited
  <2>2. /\ legacy' \in [Source -> [reviewed : BOOLEAN, locked : BOOLEAN]]
        /\ \A t \in Source : legacy'[t].locked = legacy[t].locked
    BY <1>a, <2>1 DEF CutoverTypeOK
  <2> QED  BY <1>u, <2>1, <2>2
<1>14. CASE UNCHANGED cutoverVars
  BY <1>a, <1>14, <1>u DEF cutoverVars, CutoverTypeOK
<1> QED
  BY <1>1, <1>2, <1>3, <1>4, <1>5, <1>6, <1>7, <1>8, <1>9, <1>10, <1>11, <1>12, <1>13, <1>14
     DEF Cutover!CutoverNext

(***************************************************************************)
(* The date of the CEO                                                     *)
(***************************************************************************)

\* Only the CEO, or a change the CEO approved, sets another date on top of one.
LEMMA CommitmentStep ==
    ASSUME [Commitments!CalendarNext]_calendarVars, commitment.kind = "CEO-set"
    PROVE  commitment'.kind = "CEO-set"
<1>1. ASSUME NEW s \in StartTime, Commitments!CeoSetsDate(s) \/ Commitments!PersonMoves(s)
      PROVE  commitment'.kind = "CEO-set"
  BY <1>1 DEF Commitments!CeoSetsDate, Commitments!PersonMoves, Commitments!CommitsAsCeo
<1>2. ASSUME NEW r \in Reader, \/ Commitments!StartReconcile(r) \/ Commitments!CalendarAnswers(r)
                               \/ Commitments!CalendarIsSilent(r) \/ Commitments!EndReconcile(r)
      PROVE  commitment'.kind = "CEO-set"
  BY <1>2 DEF Commitments!StartReconcile, Commitments!CalendarAnswers, Commitments!CalendarIsSilent,
              Commitments!EndReconcile, Commitments!CommitsFromSource
<1>3. ASSUME NEW c \in Change, \/ Commitments!CalendarPatches(c) \/ Commitments!PatchIsAnswered(c)
                               \/ Commitments!PatchIsLost(c) \/ Commitments!EndChange(c)
      PROVE  commitment'.kind = "CEO-set"
  BY <1>3 DEF Commitments!CalendarPatches, Commitments!PatchIsAnswered, Commitments!PatchIsLost,
              Commitments!EndChange, Commitments!CommitsAsCeo
<1>4. ASSUME NEW c \in Change, NEW s \in StartTime,
             Commitments!ChangeIsStaged(c, s) \/ Commitments!ChangeIsPermitted(c, s)
      PROVE  commitment'.kind = "CEO-set"
  BY <1>4 DEF Commitments!ChangeIsStaged, Commitments!ChangeIsPermitted
<1>5. ASSUME NEW k \in 1..MaxApprovals, Commitments!CeoGrants(k)
      PROVE  commitment'.kind = "CEO-set"
  BY <1>5 DEF Commitments!CeoGrants
<1>6. CASE Commitments!CalendarCrash
  BY <1>6 DEF Commitments!CalendarCrash
<1>7. CASE UNCHANGED calendarVars
  BY <1>7 DEF calendarVars
<1> QED
  BY <1>1, <1>2, <1>3, <1>4, <1>5, <1>6, <1>7 DEF Commitments!CalendarNext

(***************************************************************************)
(* The components side by side                                             *)
(***************************************************************************)

\* A step of the program is a step of each component, or leaves it alone.
LEMMA StepOfEach ==
    ASSUME [EffectsNext]_effectVars
    PROVE  /\ [Context!ContextNext]_contextVars
           /\ [Reads!ReadNext]_readVars
           /\ [Writes!WritesNext]_writeVars
           /\ [Cutover!CutoverNext]_cutoverVars
           /\ [Promotion!PromotionNext]_promotionVars
           /\ [Observations!ObservationNext]_observationVars
           /\ [Commitments!CalendarNext]_calendarVars
<1>1. CASE NoticesStep
  BY <1>1 DEF NoticesStep
<1>2. CASE ContextStep
  BY <1>2 DEF ContextStep
<1>3. CASE ReadsStep
  BY <1>3 DEF ReadsStep
<1>4. CASE WritesStep
  BY <1>4 DEF WritesStep
<1>5. CASE CutoverStep
  BY <1>5 DEF CutoverStep
<1>6. CASE PromotionStep
  BY <1>6 DEF PromotionStep
<1>7. CASE ObservationsStep
  BY <1>7 DEF ObservationsStep
<1>8. CASE CommitmentsStep
  BY <1>8 DEF CommitmentsStep
<1>9. CASE UNCHANGED effectVars
  BY <1>9 DEF effectVars
<1> QED
  BY <1>1, <1>2, <1>3, <1>4, <1>5, <1>6, <1>7, <1>8, <1>9 DEF EffectsNext

\* The invariant of what the agent creates.
THEOREM WritesInvariant == EffectsSpec => []WritesInv
<1>1. EffectsInit => WritesInv
  BY WritesInitInvariant DEF EffectsInit
<1>2. WritesInv /\ [EffectsNext]_effectVars => WritesInv'
  BY WritesStepInvariant, StepOfEach
<1> QED
  BY <1>1, <1>2, PTL DEF EffectsSpec

\* A call that is answered refers to an effect with the content it asked for, in
\* whatever order calls with one key overlap, fail and are repeated.
THEOREM AnswersAreTrueHolds == EffectsSpec => []AnswersAreTrue
<1>1. WritesInv => AnswersAreTrue
  <2> SUFFICES ASSUME WritesInv, NEW c \in Call, call[c].pc = "answered"
               PROVE  \E effect \in created :
                        /\ effect.ref = call[c].ref /\ effect.tool = call[c].tool
                        /\ effect.content = call[c].content
    BY DEF AnswersAreTrue, Writes!AnswersAreTrue
  <2>1. Writes!Receipt(c) \in created
    BY DEF WritesInv, CallsAreTrue
  <2>2. /\ Writes!Receipt(c).ref = call[c].ref /\ Writes!Receipt(c).tool = call[c].tool
        /\ Writes!Receipt(c).content = call[c].content
    BY DEF Writes!Receipt
  <2> QED
    BY <2>1, <2>2
<1> QED
  BY <1>1, WritesInvariant, PTL

\* The invariant of what the agent reads.
THEOREM ReadsInvariant == EffectsSpec => []ReadInv
<1>1. EffectsInit => ReadInv
  BY ReadInitInvariant DEF EffectsInit
<1>2. ReadInv /\ [EffectsNext]_effectVars => ReadInv'
  BY ReadStepInvariant, StepOfEach, SourcesAndEffectsAssumption
<1> QED
  BY <1>1, <1>2, PTL DEF EffectsSpec

\* An agenda that is answered as the whole lists every event that was there all
\* the time it was read, however many pages it took.
THEOREM AgendaIsWholeHolds == EffectsSpec => []AgendaIsWhole
<1>1. ReadInv => AgendaIsWhole
  BY DEF ReadInv, ReadStages, AgendaIsWhole, Reads!AgendaIsWhole
<1> QED
  BY <1>1, ReadsInvariant, PTL

\* The invariant of the payloads.
THEOREM ContextInvariant == EffectsSpec => []ContextInv
<1>1. EffectsInit => ContextInv
  BY ContextInitInvariant, SourcesAndEffectsAssumption DEF EffectsInit
<1>2. ContextInv /\ [EffectsNext]_effectVars => ContextInv'
  BY ContextStepInvariant, StepOfEach, SourcesAndEffectsAssumption
<1> QED
  BY <1>1, <1>2, PTL DEF EffectsSpec

\* A verified snapshot is there until it is due and gone once its purge is
\* recorded, whatever is ingested again, fails or dies in between.
THEOREM PayloadsFollowTheirRowsHolds == EffectsSpec => []PayloadsFollowTheirRows
<1>1. ContextInv => PayloadsFollowTheirRows
  BY DEF ContextInv
<1> QED
  BY <1>1, ContextInvariant, PTL

\* The newest observation decides: after a success that nothing is as new as no
\* group is open, in whatever order the observations arrive.
THEOREM HealthyClosesAllHolds == EffectsSpec => []HealthyClosesAll
<1>1. EffectsInit => ObservationInv
  BY ObservationInitInvariant DEF EffectsInit
<1>2. ObservationInv /\ [EffectsNext]_effectVars => ObservationInv'
  <2>1. MaxTime \in Nat
    BY SourcesAndEffectsAssumption DEF Observations!ProviderObservationsAssumption
  <2> QED  BY <2>1, ObservationStepInvariant, StepOfEach
<1>3. ObservationInv => HealthyClosesAll
  BY DEF ObservationInv
<1> QED
  BY <1>1, <1>2, <1>3, PTL DEF EffectsSpec

\* Production serves what the latest event calls verified, for any number of calls
\* as long as no two overlap, of crashes and of lost answers.
THEOREM VerifiedIsLiveHolds == EffectsSpec => []VerifiedIsLive
<1>1. EffectsInit => PromotionInv
  BY PromotionInitInvariant DEF EffectsInit
<1>2. PromotionInv /\ [EffectsNext]_effectVars => PromotionInv'
  BY PromotionStepInvariant, StepOfEach
<1>3. PromotionInv => VerifiedIsLive
  BY DEF PromotionInv
<1> QED
  BY <1>1, <1>2, <1>3, PTL DEF EffectsSpec

\* No run retires a source that it did not find writable, whatever runs before it
\* stopped, died or lost an answer.
THEOREM NothingIsRetiredTwiceHolds == EffectsSpec => NothingIsRetiredTwice
<1>1. EffectsInit => CutoverInv
  BY CutoverInitInvariant DEF EffectsInit
<1>2. CutoverInv /\ [EffectsNext]_effectVars =>
        /\ CutoverInv'
        /\ [\A s \in cutover'.retirements \ cutover.retirements : ~legacy[s].locked]_(Cutover!cutoverVars)
  BY CutoverStepInvariant, StepOfEach
<1> QED
  BY <1>1, <1>2, PTL DEF EffectsSpec, NothingIsRetiredTwice, Cutover!NothingIsRetiredTwice

\* No reconciliation replaces a date of the CEO.
THEOREM CeoDateIsKeptHolds == EffectsSpec => CeoDateIsKept
<1>1. [EffectsNext]_effectVars =>
        [commitment.kind = "CEO-set" => commitment'.kind = "CEO-set"]_(Commitments!calendarVars)
  BY CommitmentStep, StepOfEach
<1> QED
  BY <1>1, PTL DEF EffectsSpec, CeoDateIsKept, Commitments!CeoDateIsKept
=============================================================================
