------------------------------- MODULE ProviderReads -------------------------------
(***************************************************************************)
(* The reads an agent makes of the calendar and of a mailbox: the tools of   *)
(* src/src/integration/real-ming-tools.ts, the bridge and the loopback       *)
(* endpoints they post to, and the adapters that page through Google         *)
(* Calendar and open Gmail messages one by one, while people change both.    *)
(***************************************************************************)
EXTENDS Integers, FiniteSets, FiniteSetsExt

CONSTANTS
    Calendar,         \* calendars the agent may name
    DefaultCalendar,  \* the calendar the control plane is configured for
    Event,            \* events in the order of their start
    PageSize,         \* calendarPageSize
    PageLimit,        \* calendarPageLimit
    Limit,            \* limits the agent may pass
    DefaultLimit,     \* defaultMessageLimit
    MessageLimit,     \* maxMessageLimit
    MaxMessages,      \* bound: messages that ever arrive
    MaxEdits          \* bound: changes of the calendars and of the mailbox

\* What the constants must satisfy.
ProviderReadsAssumption ==
    /\ DefaultCalendar \in Calendar
    /\ Event \subseteq Nat \ {0} /\ Limit \subseteq Nat \ {0}
    /\ {PageSize, PageLimit, DefaultLimit, MessageLimit} \subseteq Nat \ {0}
    /\ {MaxMessages, MaxEdits} \subseteq Nat

VARIABLES
    agenda,   \* the events of each calendar
    mailbox,  \* the messages that match, newest with the greatest identity
    arrived,  \* messages that have ever arrived
    read,     \* the read under way, or the last one
    edits

readVars == <<agenda, mailbox, arrived, read, edits>>

NoLimit == 0
Lowest(S, n) == {x \in S : Cardinality({y \in S : y < x}) < n}
Newest(S, n) == {x \in S : Cardinality({y \in S : y > x}) < n}

\* listed: identities collected; pending: messages still to be opened; last: the
\* last event of the pages so far; steady and matching: what was there all the
\* time, and how many matched when the mailbox was listed, which no code sees.
NoRead == [pc |-> "idle", tool |-> "none", calendar |-> DefaultCalendar, asked |-> DefaultCalendar,
           limit |-> NoLimit, listed |-> {}, pending |-> {}, last |-> 0, pages |-> 0,
           steady |-> {}, matching |-> 0, possiblyMore |-> FALSE]

ReadInit ==
    /\ agenda \in [Calendar -> SUBSET Event]
    /\ mailbox = 1..(MaxMessages - 1) /\ arrived = MaxMessages - 1
    /\ read = NoRead /\ edits = 0

Edit == edits < MaxEdits /\ edits' = edits + 1
Idle == read.pc \in {"idle", "answered", "failed"}

--------------------------------------------------------------------------------
\* readCalendar posts the calendar that was named.
AskAgenda(c) ==
    /\ Idle
    /\ read' = [NoRead EXCEPT !.pc = "posted", !.tool = "agenda", !.asked = c]
    /\ UNCHANGED <<agenda, mailbox, arrived, edits>>

\* readMail, for a mailbox that is configured.
AskMail(limit) ==
    /\ Idle
    /\ read' = [NoRead EXCEPT !.pc = "posted", !.tool = "mail", !.limit = limit]
    /\ UNCHANGED <<agenda, mailbox, arrived, edits>>

\* readOneEmail opens one message that a search returned.
AskMessage(m) ==
    /\ Idle /\ read.tool = "mail" /\ m \in read.listed
    /\ read' = [NoRead EXCEPT !.pc = "posted", !.tool = "message", !.pending = {m}]
    /\ UNCHANGED <<agenda, mailbox, arrived, edits>>

\* The calendar the control plane reads, whatever calendar was named.
ServedCalendar(named) == DefaultCalendar

\* The loopback endpoints pass the read on to an adapter.
ServeAgenda ==
    /\ read.pc = "posted" /\ read.tool = "agenda"
    /\ LET c == ServedCalendar(read.asked)
       IN  read' = [read EXCEPT !.pc = "paging", !.calendar = c, !.steady = agenda[c]]
    /\ UNCHANGED <<agenda, mailbox, arrived, edits>>

ServeMail ==
    /\ read.pc = "posted" /\ read.tool = "mail"
    /\ read' = [read EXCEPT !.pc = "searching"]
    /\ UNCHANGED <<agenda, mailbox, arrived, edits>>

ServeMessage ==
    /\ read.pc = "posted" /\ read.tool = "message"
    /\ read' = [read EXCEPT !.pc = "reading"]
    /\ UNCHANGED <<agenda, mailbox, arrived, edits>>

--------------------------------------------------------------------------------
\* pageOf: the events after the last one of the page before.
Unread == {e \in agenda[read.calendar] : e > read.last}
Page == Lowest(Unread, PageSize)

\* Mutant: the page cap ends the list as if it were whole.
NextPageTruncates ==
    /\ read.pc = "paging"
    /\ read' = [read EXCEPT !.listed = @ \cup Page, !.pages = @ + 1,
                            !.last = IF Page = {} THEN @ ELSE Max(Page),
                            !.pc = IF Unread = Page \/ read.pages + 1 >= PageLimit THEN "read"
                                   ELSE "paging"]
    /\ UNCHANGED <<agenda, mailbox, arrived, edits>>

\* listEvents: one page; the last one ends the read, and a cap on the pages fails
\* it instead of ending it with a part.
NextPage ==
    /\ read.pc = "paging"
    /\ read' = [read EXCEPT !.listed = @ \cup Page, !.pages = @ + 1,
                            !.last = IF Page = {} THEN @ ELSE Max(Page),
                            !.pc = IF Unread = Page THEN "read"
                                   ELSE IF read.pages + 1 >= PageLimit THEN "failed"
                                   ELSE "paging"]
    /\ UNCHANGED <<agenda, mailbox, arrived, edits>>

\* The limit that is sent lies between one and the ceiling.
Clamped == Min({IF read.limit = NoLimit THEN DefaultLimit ELSE read.limit, MessageLimit})

\* listMessages: the identities of the newest messages.
SearchMail ==
    /\ read.pc = "searching"
    /\ LET ids == Newest(mailbox, Clamped)
       IN  read' = [read EXCEPT !.pc = IF ids = {} THEN "read" ELSE "opening",
                                !.pending = ids, !.matching = Cardinality(mailbox)]
    /\ UNCHANGED <<agenda, mailbox, arrived, edits>>

\* listMessages opens one after the other; one that is gone fails the read.
OpenMessage ==
    /\ read.pc = "opening"
    /\ LET m == Max(read.pending)
       IN  read' = IF m \notin mailbox THEN [read EXCEPT !.pc = "failed"]
                   ELSE [read EXCEPT !.listed = @ \cup {m}, !.pending = @ \ {m},
                                     !.pc = IF read.pending = {m} THEN "read" ELSE "opening"]
    /\ UNCHANGED <<agenda, mailbox, arrived, edits>>

\* readMessage, body included.
ReadMessage ==
    /\ read.pc = "reading"
    /\ read' = IF read.pending \subseteq mailbox
                 THEN [read EXCEPT !.pc = "read", !.listed = read.pending]
                 ELSE [read EXCEPT !.pc = "failed"]
    /\ UNCHANGED <<agenda, mailbox, arrived, edits>>

\* possiblyMore: whether the tool takes the messages for a full page.
PossiblyMore ==
    Cardinality(read.listed) >= IF read.limit = NoLimit THEN DefaultLimit ELSE read.limit

\* The answer reaches the tools through the bridge.
AgendaAnswered ==
    /\ read.pc = "read" /\ read.tool = "agenda"
    /\ read' = [read EXCEPT !.pc = "answered"]
    /\ UNCHANGED <<agenda, mailbox, arrived, edits>>

MailAnswered ==
    /\ read.pc = "read" /\ read.tool = "mail"
    /\ read' = [read EXCEPT !.pc = "answered", !.possiblyMore = PossiblyMore]
    /\ UNCHANGED <<agenda, mailbox, arrived, edits>>

MessageAnswered ==
    /\ read.pc = "read" /\ read.tool = "message"
    /\ read' = [read EXCEPT !.pc = "answered"]
    /\ UNCHANGED <<agenda, mailbox, arrived, edits>>

\* A token that is refused, an HTTP status, an unreadable body or a control plane
\* out of reach is reported as such, never as an empty list.
ReadFails ==
    /\ ~Idle
    /\ read' = [read EXCEPT !.pc = "failed"]
    /\ UNCHANGED <<agenda, mailbox, arrived, edits>>

\* People add events and cancel them; mail arrives and is deleted.
EventAdded(c, e) ==
    /\ Edit /\ e \notin agenda[c]
    /\ agenda' = [agenda EXCEPT ![c] = @ \cup {e}]
    /\ UNCHANGED <<mailbox, arrived, read>>

EventCancelled(c, e) ==
    /\ Edit /\ e \in agenda[c]
    /\ agenda' = [agenda EXCEPT ![c] = @ \ {e}]
    /\ read' = IF c = read.calendar THEN [read EXCEPT !.steady = @ \ {e}] ELSE read
    /\ UNCHANGED <<mailbox, arrived>>

MailArrives ==
    /\ Edit /\ arrived < MaxMessages
    /\ arrived' = arrived + 1 /\ mailbox' = mailbox \cup {arrived + 1}
    /\ UNCHANGED <<agenda, read>>

MailDeleted(m) ==
    /\ Edit /\ m \in mailbox
    /\ mailbox' = mailbox \ {m}
    /\ UNCHANGED <<agenda, arrived, read>>

ReadNext ==
    \/ \E c \in Calendar : AskAgenda(c) \/ \E e \in Event : EventAdded(c, e) \/ EventCancelled(c, e)
    \/ \E limit \in Limit \cup {NoLimit} : AskMail(limit)
    \/ \E m \in 1..MaxMessages : AskMessage(m) \/ MailDeleted(m)
    \/ ServeAgenda \/ ServeMail \/ ServeMessage
    \/ NextPage \/ SearchMail \/ OpenMessage \/ ReadMessage
    \/ AgendaAnswered \/ MailAnswered \/ MessageAnswered
    \/ ReadFails \/ MailArrives

ReadSpec == ReadInit /\ [][ReadNext]_readVars

--------------------------------------------------------------------------------
\* google-calendar-adapter.ts, listEvents: an agenda that is answered is never a
\* part reported as the whole: it has every event that was there all through
\* the read, whatever was added, cancelled or failed between its pages.
AgendaIsWhole ==
    read.pc = "answered" /\ read.tool = "agenda" => read.steady \subseteq read.listed

\* real-ming-tools.ts, readCalendar: the events answered for a calendar are the
\* events of that calendar.
AgendaIsOfItsCalendar ==
    read.pc = "answered" /\ read.tool = "agenda" => read.calendar = read.asked

\* real-ming-tools.ts, readMail: "A full page is not a total": messages that are
\* not all that matched are never reported as all.
CountIsHonest ==
    read.pc = "answered" /\ read.tool = "mail" /\ ~read.possiblyMore =>
        Cardinality(read.listed) = read.matching
================================================================================
