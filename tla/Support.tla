------------------------------ MODULE Support -------------------------------
(***************************************************************************)
(* Support conversations: src/controllers/support.go.  A handler reads a   *)
(* conversation, decides on its copy, and writes a message and the fields  *)
(* of the conversation in calls of their own, while others do the same.    *)
(* Each message takes the next time of the clock.                          *)
(***************************************************************************)
EXTENDS Naturals

CONSTANTS
    Requests,           \* concurrent calls of the support handlers
    Users, Agents, Admins,      \* people, by the role of their account
    NoOne,              \* "assigned_to" is not set
    MaxConversations,   \* bound: conversations
    MaxMessages,        \* bound: messages begun
    MaxFaults           \* bound: failed calls and restarts

ASSUME SupportAssumption ==
    /\ Users \intersect Agents = {} /\ Users \intersect Admins = {}
    /\ Agents \intersect Admins = {}
    /\ NoOne \notin Users \union Agents \union Admins
    /\ {MaxConversations, MaxMessages, MaxFaults} \subseteq Nat

People == Users \union Agents \union Admins

Staff == Agents \union Admins

Statuses == {"open", "pending", "resolved", "closed"}

NoStatus == "no status"

Conversations == 1 .. MaxConversations

VARIABLES
    conversations,      \* collection "support_conversations"
    created,            \* conversations inserted so far
    messages,           \* collection "support_messages"
    clock,              \* times taken so far
    pc,                 \* the next call of each request
    req,                \* what a request works on
    decided,            \* history: the last status that somebody chose
    overlapped,         \* history: conversations where a reply overlapped that choice
    assignees,          \* history: agents a conversation was assigned to
    behind,             \* history: messages overlapped, or one half-failed
    faults              \* failed calls and restarts so far

store == <<conversations, created, messages>>
requests == <<pc, req>>
history == <<decided, overlapped, assignees, behind>>
vars == <<store, clock, requests, history, faults>>

Conversation ==
    [owner : People \union {NoOne}, status : Statuses, assigned : People \union {NoOne},
     lastMessage : Nat]

Message == [conversation : Conversations, sender : People, at : Nat]

Request ==
    [conversation : Conversations \union {0}, who : People \union {NoOne}, now : Nat,
     status : Statuses \union {NoStatus}, assigned : People \union {NoOne}]

Idle ==
    [conversation |-> 0, who |-> NoOne, now |-> 0, status |-> NoStatus,
     assigned |-> NoOne]

Opened(who, now) ==
    [owner |-> who, status |-> "open", assigned |-> NoOne, lastMessage |-> now]

Stages ==
    {"idle", "open", "first", "send", "touch", "reply", "pend", "close", "update"}

TypeOK ==
    /\ conversations \in [Conversations -> Conversation]
    /\ created \in 0 .. MaxConversations
    /\ messages \subseteq Message
    /\ clock \in 0 .. MaxMessages
    /\ pc \in [Requests -> Stages]
    /\ req \in [Requests -> Request]
    /\ decided \in [Conversations -> Statuses]
    /\ overlapped \subseteq Conversations
    /\ assignees \in [Conversations -> SUBSET Agents]
    /\ behind \subseteq Conversations
    /\ faults \in 0 .. MaxFaults

Init ==
    /\ conversations = [c \in Conversations |-> Opened(NoOne, 0)]
    /\ created = 0
    /\ messages = {}
    /\ clock = 0
    /\ pc = [r \in Requests |-> "idle"]
    /\ req = [r \in Requests |-> Idle]
    /\ decided = [c \in Conversations |-> "open"]
    /\ overlapped = {}
    /\ assignees = [c \in Conversations |-> {}]
    /\ behind = {}
    /\ faults = 0

MessagesOf(c) == {m \in messages : m.conversation = c}

\* Requests on c between reading the clock and writing "last_message_at".
Writers(c) ==
    {r \in Requests : /\ pc[r] \in {"first", "send", "touch", "reply", "pend"}
                      /\ req[r].conversation = c}

Replies(c) == {r \in Requests : pc[r] \in {"reply", "pend"} /\ req[r].conversation = c}

-----------------------------------------------------------------------------
(* The control of a request.                                               *)

Start(r, stage, work) ==
    /\ pc[r] = "idle"
    /\ pc' = [pc EXCEPT ![r] = stage]
    /\ req' = [req EXCEPT ![r] = work]

Goto(r, stage) ==
    /\ pc' = [pc EXCEPT ![r] = stage]
    /\ UNCHANGED req

Finish(r) ==
    /\ pc' = [pc EXCEPT ![r] = "idle"]
    /\ req' = [req EXCEPT ![r] = Idle]

\* A request that is going to store a message reads the clock.
StartMessage(r, stage, c, who, status) ==
    /\ clock < MaxMessages
    /\ clock' = clock + 1
    /\ Start(r, stage, [conversation |-> c, who |-> who, now |-> clock + 1,
                        status |-> status, assigned |-> NoOne])

\* A request that is going to set fields of a conversation.
StartUpdate(r, stage, c, status, assigned) ==
    Start(r, stage, [conversation |-> c, who |-> NoOne, now |-> 0,
                     status |-> status, assigned |-> assigned])

\* A request that stores a message in c is not alone there.
MessageOverlaps(c) == behind' = IF Writers(c) = {} THEN behind ELSE behind \union {c}

InsertMessage(r, stage, next) ==
    /\ pc[r] = stage
    /\ messages' = messages \union
            {[conversation |-> req[r].conversation, sender |-> req[r].who,
              at |-> req[r].now]}
    /\ Goto(r, next)
    /\ UNCHANGED <<conversations, created, clock, history, faults>>

-----------------------------------------------------------------------------
(* What a customer does.  Agents and administrators have accounts too.     *)

\* CreateSupportConversation, up to its first insert.
CreateSupportConversation(r, who) ==
    /\ created < MaxConversations
    /\ StartMessage(r, "open", 0, who, NoStatus)
    /\ UNCHANGED <<store, history, faults>>

InsertConversation(r) ==
    LET c == created + 1 IN
    /\ pc[r] = "open"
    /\ created < MaxConversations
    /\ conversations' = [conversations EXCEPT ![c] = Opened(req[r].who, req[r].now)]
    /\ created' = c
    /\ pc' = [pc EXCEPT ![r] = "first"]
    /\ req' = [req EXCEPT ![r].conversation = c]
    /\ UNCHANGED <<messages, clock, history, faults>>

InsertFirstMessage(r) == InsertMessage(r, "first", "touch")

\* Only the owner of a conversation may write to it here, whatever its status.
SendSupportMessage(r, c, who) ==
    /\ conversations[c].owner = who
    /\ StartMessage(r, "send", c, who, NoStatus)
    /\ MessageOverlaps(c)
    /\ UNCHANGED <<store, decided, overlapped, assignees, faults>>

InsertSentMessage(r) == InsertMessage(r, "send", "touch")

\* Slip: only "updated_at" is set.
TouchUpdatedAt(r) ==
    /\ pc[r] = "touch"
    /\ Finish(r)
    /\ UNCHANGED <<store, clock, history, faults>>

\* The last call of a new conversation and of a customer's message.
TouchConversation(r) ==
    /\ pc[r] = "touch"
    /\ conversations' =
            [conversations EXCEPT ![req[r].conversation].lastMessage = req[r].now]
    /\ Finish(r)
    /\ UNCHANGED <<created, messages, clock, history, faults>>

\* A conversation that is closed already is returned as it is.
CloseSupportConversation(r, c, who) ==
    /\ conversations[c].owner = who
    /\ conversations[c].status /= "closed"
    /\ StartUpdate(r, "close", c, "closed", NoOne)
    /\ UNCHANGED <<store, clock, history, faults>>

\* Somebody chooses the status of c; a reply may hold the one before.
Decide(c, status) ==
    /\ decided' = [decided EXCEPT ![c] = status]
    /\ overlapped' = IF Replies(c) = {} THEN overlapped \ {c} ELSE overlapped \union {c}

CloseConversation(r) ==
    LET c == req[r].conversation IN
    /\ pc[r] = "close"
    /\ conversations' = [conversations EXCEPT ![c].status = "closed"]
    /\ Decide(c, "closed")
    /\ Finish(r)
    /\ UNCHANGED <<created, messages, clock, assignees, behind, faults>>

-----------------------------------------------------------------------------
(* What the support staff does.                                            *)

\* Agents work on what is assigned to them, administrators on everything.
MayHandle(who, c) ==
    /\ who \in Staff
    /\ who \in Agents => conversations[c].assigned = who

\* Slip: every agent may answer every conversation.
SendAdminSupportReplyAnyone(r, c, who) ==
    /\ who \in Staff
    /\ StartMessage(r, "reply", c, who, conversations[c].status)
    /\ MessageOverlaps(c)
    /\ UNCHANGED <<store, decided, overlapped, assignees, faults>>

SendAdminSupportReply(r, c, who) ==
    /\ MayHandle(who, c)
    /\ StartMessage(r, "reply", c, who, conversations[c].status)
    /\ MessageOverlaps(c)
    /\ UNCHANGED <<store, decided, overlapped, assignees, faults>>

InsertReply(r) == InsertMessage(r, "reply", "pend")

\* Slip: a reply makes every conversation pending.
SetPendingAlways(r) ==
    LET c == req[r].conversation IN
    /\ pc[r] = "pend"
    /\ conversations' = [conversations EXCEPT ![c].status = "pending",
                                              ![c].lastMessage = req[r].now]
    /\ Finish(r)
    /\ UNCHANGED <<created, messages, clock, history, faults>>

\* The status that was read is written back, an open one as pending.
SetPending(r) ==
    LET c == req[r].conversation
        answered == IF req[r].status = "open" THEN "pending" ELSE req[r].status
    IN
    /\ pc[r] = "pend"
    /\ conversations' = [conversations EXCEPT ![c].status = answered,
                                              ![c].lastMessage = req[r].now]
    /\ Finish(r)
    /\ UNCHANGED <<created, messages, clock, history, faults>>

\* A status, an assignee or both.  Anybody may be the assignee.
UpdateSupportConversationByAdmin(r, c, who, status, assigned) ==
    /\ MayHandle(who, c)
    /\ status /= NoStatus \/ assigned /= NoOne
    /\ StartUpdate(r, "update", c, status, assigned)
    /\ UNCHANGED <<store, clock, history, faults>>

UpdateStatus(r) ==
    LET c == req[r].conversation IN
    IF req[r].status = NoStatus
    THEN UNCHANGED <<decided, overlapped>>
    ELSE Decide(c, req[r].status)

\* Only the fields that were given are set.
UpdateConversation(r) ==
    LET c == req[r].conversation
        given == req[r]
    IN
    /\ pc[r] = "update"
    /\ conversations' = [conversations EXCEPT
            ![c].status = IF given.status = NoStatus THEN @ ELSE given.status,
            ![c].assigned = IF given.assigned = NoOne THEN @ ELSE given.assigned]
    /\ UpdateStatus(r)
    /\ assignees' =
            [assignees EXCEPT ![c] = @ \union ({given.assigned} \intersect Agents)]
    /\ Finish(r)
    /\ UNCHANGED <<created, messages, clock, behind, faults>>

-----------------------------------------------------------------------------
(* Failures.                                                               *)

\* Requests whose message and "last_message_at" are not both written.
HalfWritten == {r \in Requests : pc[r] \in {"first", "touch", "pend"}}

\* A call fails before it has an effect; the handler ends, and what it has
\* written stays.
CallFails(r) ==
    /\ pc[r] /= "idle"
    /\ faults < MaxFaults
    /\ faults' = faults + 1
    /\ behind' =
            IF r \in HalfWritten THEN behind \union {req[r].conversation} ELSE behind
    /\ Finish(r)
    /\ UNCHANGED <<store, clock, decided, overlapped, assignees>>

Restart ==
    /\ faults < MaxFaults
    /\ faults' = faults + 1
    /\ behind' = behind \union {req[r].conversation : r \in HalfWritten}
    /\ pc' = [r \in Requests |-> "idle"]
    /\ req' = [r \in Requests |-> Idle]
    /\ UNCHANGED <<store, clock, decided, overlapped, assignees>>

-----------------------------------------------------------------------------

\* A handler begins.
Arrival(r, who) ==
    \/ CreateSupportConversation(r, who)
    \/ \E c \in 1 .. created :
          \/ SendSupportMessage(r, c, who)
          \/ CloseSupportConversation(r, c, who)
          \/ SendAdminSupportReply(r, c, who)
          \/ \E status \in Statuses \union {NoStatus},
                assigned \in People \union {NoOne} :
                UpdateSupportConversationByAdmin(r, c, who, status, assigned)

\* A handler makes its next call.
RequestStep(r) ==
    \/ InsertConversation(r)
    \/ InsertFirstMessage(r)
    \/ InsertSentMessage(r)
    \/ TouchConversation(r)
    \/ CloseConversation(r)
    \/ InsertReply(r)
    \/ SetPending(r)
    \/ UpdateConversation(r)
    \/ CallFails(r)

Next ==
    \/ \E r \in Requests :
          \/ RequestStep(r)
          \/ \E who \in People : Arrival(r, who)
    \/ Restart

Spec == Init /\ [][Next]_vars

-----------------------------------------------------------------------------

\* A conversation has the status that somebody chose last, an open one
\* perhaps pending, unless a reply was under way and wrote back what it had read
\* (CloseSupportConversation, UpdateSupportConversationByAdmin and
\* SendAdminSupportReply all write the status).
DecisionStands ==
    \A c \in Conversations \ overlapped :
        \/ conversations[c].status = decided[c]
        \/ conversations[c].status = "pending" /\ decided[c] = "open"

\* A message is from the owner of its conversation, an administrator, or an agent
\* it was assigned to, although replies are stored after the check of
\* SendAdminSupportReply and assignments change meanwhile.
MessagesFromParties ==
    \A m \in messages :
        \/ m.sender = conversations[m.conversation].owner
        \/ m.sender \in Admins
        \/ m.sender \in assignees[m.conversation]

\* "last_message_at" is the time of the newest message, and there is one, unless
\* messages overlapped or a call between the two writes failed, which the
\* handlers do not report (SendSupportMessage, SendAdminSupportReply).
LastMessageShown ==
    \A c \in 1 .. created :
        c \notin behind /\ Writers(c) = {} =>
            \E m \in MessagesOf(c) :
                /\ m.at = conversations[c].lastMessage
                /\ \A n \in MessagesOf(c) : n.at <= m.at
=============================================================================
