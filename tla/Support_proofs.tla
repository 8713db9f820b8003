--------------------------- MODULE Support_proofs ---------------------------
(* The theorems about Support, and what they rest on: see the README.       *)
EXTENDS Support, TLAPS

\* What the stage of a request says about what it works on.
Staged ==
    \A r \in Requests :
        /\ pc[r] \notin {"idle", "open"} => req[r].conversation \in 1 .. created
        /\ pc[r] \in {"open", "first", "send", "touch", "reply", "pend"} =>
              req[r].who \in People
        /\ pc[r] \in {"reply", "pend"} => req[r].status \in Statuses

\* The clock is ahead of every time, and messages belong to conversations.
Stamped ==
    /\ \A m \in messages : m.conversation \in 1 .. created /\ m.at <= clock
    /\ \A r \in Requests : req[r].now <= clock

\* A reply that no decision overlapped has read the status that stands.
RepliesRead ==
    \A r \in Requests :
        LET c == req[r].conversation IN
        pc[r] \in {"reply", "pend"} /\ c \notin overlapped =>
            \/ req[r].status = decided[c]
            \/ req[r].status = "pending" /\ decided[c] = "open"

\* Who is about to store a message is a party, and so is an assigned agent.
Senders ==
    /\ \A r \in Requests :
          LET c == req[r].conversation IN
          /\ pc[r] \in {"first", "send"} => req[r].who = conversations[c].owner
          /\ pc[r] = "reply" => req[r].who \in Admins \union assignees[c]
    /\ \A c \in 1 .. created : conversations[c].assigned \in Agents =>
          conversations[c].assigned \in assignees[c]

\* The newest message of c is of time t.
Newest(c, t) ==
    \E m \in messages :
        /\ m.conversation = c /\ m.at = t
        /\ \A n \in messages : n.conversation = c => n.at <= t

IsWriter(r, c) ==
    pc[r] \in {"first", "send", "touch", "reply", "pend"} /\ req[r].conversation = c

\* Where nothing overlapped and nothing failed, a message has one writer, and
\* the stage of the writer says what is stored; without one, it is shown.
Written(c) ==
    c \notin behind =>
        /\ \A r \in Requests, q \in Requests : IsWriter(r, c) /\ IsWriter(q, c) => r = q
        /\ \A r \in Requests : IsWriter(r, c) =>
              /\ pc[r] = "first" => \A m \in messages : m.conversation /= c
              /\ pc[r] \in {"send", "reply"} =>
                    /\ Newest(c, conversations[c].lastMessage)
                    /\ \A m \in messages : m.conversation = c => m.at <= req[r].now
              /\ pc[r] \in {"touch", "pend"} => Newest(c, req[r].now)
        /\ (\A r \in Requests : ~IsWriter(r, c)) => Newest(c, conversations[c].lastMessage)

AllWritten == \A c \in 1 .. created : Written(c)

-----------------------------------------------------------------------------
(* What the actions do, field by field.                                    *)

\* The others go on as they were.
OthersGoOn(r) == \A q \in Requests : q /= r => pc'[q] = pc[q] /\ req'[q] = req[q]

RequestsTyped == pc' \in [Requests -> Stages] /\ req' \in [Requests -> Request]

\* A request starts to work on c.
Begun(r, stage, c, who, now, status, assigned) ==
    /\ RequestsTyped /\ OthersGoOn(r)
    /\ pc[r] = "idle" /\ pc'[r] = stage
    /\ req'[r].conversation = c /\ req'[r].who = who /\ req'[r].now = now
    /\ req'[r].status = status /\ req'[r].assigned = assigned

\* A request is over: nothing of what it worked on is left.
Over(r) == pc'[r] = "idle" /\ req'[r] = Idle

\* Idle requests work on nothing.
LEMMA IdleFields ==
    /\ Idle \in Request /\ Idle.conversation = 0 /\ Idle.now = 0
    /\ "idle" \in Stages
BY DEF Idle, Request, Stages

\* A request that starts holds what it was given.
LEMMA StartEffect ==
    ASSUME TypeOK, NEW r \in Requests, NEW stage \in Stages,
           NEW c \in Conversations \union {0}, NEW who \in People \union {NoOne},
           NEW now \in Nat, NEW status \in Statuses \union {NoStatus},
           NEW assigned \in People \union {NoOne},
           Start(r, stage, [conversation |-> c, who |-> who, now |-> now,
                            status |-> status, assigned |-> assigned])
    PROVE  Begun(r, stage, c, who, now, status, assigned)
<1> DEFINE work == [conversation |-> c, who |-> who, now |-> now, status |-> status,
                    assigned |-> assigned]
<1>1. /\ work \in Request /\ work.conversation = c /\ work.who = who /\ work.now = now
      /\ work.status = status /\ work.assigned = assigned
  BY DEF Request
<1>2. Start(r, stage, work)
  OBVIOUS
<1> HIDE DEF work
<1> QED
  BY <1>1, <1>2 DEF Start, TypeOK, Begun, RequestsTyped, OthersGoOn

\* A request that finishes is over.
LEMMA FinishEffect ==
    ASSUME TypeOK, NEW r \in Requests, Finish(r)
    PROVE  RequestsTyped /\ OthersGoOn(r) /\ Over(r)
BY IdleFields DEF TypeOK, Finish, RequestsTyped, OthersGoOn, Over

\* A request that goes on to its next call keeps what it works on.
LEMMA GotoEffect ==
    ASSUME TypeOK, NEW r \in Requests, NEW stage \in Stages, Goto(r, stage)
    PROVE  RequestsTyped /\ OthersGoOn(r) /\ pc'[r] = stage /\ req'[r] = req[r]
BY DEF TypeOK, Goto, RequestsTyped, OthersGoOn

\* Conversation c gets these fields, and the others stay.
Changed(c, owner, status, assigned, lastMessage) ==
    /\ conversations' \in [Conversations -> Conversation]
    /\ \A d \in Conversations : d /= c => conversations'[d] = conversations[d]
    /\ conversations'[c].owner = owner
    /\ conversations'[c].status = status
    /\ conversations'[c].assigned = assigned
    /\ conversations'[c].lastMessage = lastMessage

\* A new conversation takes the next place.
LEMMA InsertConversationEffect ==
    ASSUME TypeOK, Staged, NEW r \in Requests, InsertConversation(r)
   
    PROVE   /\ created' = created + 1 /\ created' \in Conversations /\ created \in Nat
           /\ Changed(created + 1, req[r].who, "open", NoOne, req[r].now)
           /\ RequestsTyped /\ OthersGoOn(r)
           /\ pc[r] = "open" /\ pc'[r] = "first"
           /\ req'[r].conversation = created + 1 /\ req'[r].now = req[r].now
           /\ req'[r].who = req[r].who /\ req[r].who \in People
           /\ UNCHANGED <<messages, clock, history, faults>>
<1> DEFINE c == created + 1
           x == Opened(req[r].who, req[r].now)
           y == [req[r] EXCEPT !.conversation = c]
<1>1. /\ pc[r] = "open" /\ created' = c /\ c \in Conversations /\ created \in Nat
      /\ conversations' = [conversations EXCEPT ![c] = x]
      /\ pc' = [pc EXCEPT ![r] = "first"] /\ req' = [req EXCEPT ![r] = y]
      /\ UNCHANGED <<messages, clock, history, faults>>
  BY SupportAssumption DEF InsertConversation, TypeOK, Conversations
<1>2. req[r] \in Request /\ req[r].who \in People /\ req[r].now \in Nat
  BY <1>1 DEF TypeOK, Staged, Request
<1>3. /\ x \in Conversation /\ x.owner = req[r].who /\ x.status = "open"
      /\ x.assigned = NoOne /\ x.lastMessage = req[r].now
  BY <1>2 DEF Opened, Conversation, Statuses
<1>4. /\ y \in Request /\ y.conversation = c /\ y.now = req[r].now
      /\ y.who = req[r].who
  BY <1>1, <1>2 DEF Request
<1> HIDE DEF x, y
<1>5. RequestsTyped /\ OthersGoOn(r) /\ pc'[r] = "first" /\ req'[r] = y
  BY <1>1, <1>4 DEF TypeOK, RequestsTyped, OthersGoOn, Stages
<1>6. Changed(c, req[r].who, "open", NoOne, req[r].now)
  BY <1>1, <1>3 DEF TypeOK, Changed
<1> QED
  BY <1>1, <1>2, <1>4, <1>5, <1>6

\* Setting the time of the last message changes nothing else.
LEMMA TouchConversationEffect ==
    ASSUME TypeOK, Staged, NEW r \in Requests, TouchConversation(r)
    PROVE  LET c == req[r].conversation  v == conversations[c] IN
           /\ pc[r] = "touch" /\ c \in 1 .. created /\ c \in Conversations
           /\ Changed(c, v.owner, v.status, v.assigned, req[r].now)
           /\ RequestsTyped /\ OthersGoOn(r) /\ Over(r)
           /\ UNCHANGED <<created, messages, clock, history, faults>>
<1> DEFINE c == req[r].conversation
           x == [conversations[c] EXCEPT !.lastMessage = req[r].now]
<1>1. /\ pc[r] = "touch" /\ conversations' = [conversations EXCEPT ![c] = x]
      /\ UNCHANGED <<created, messages, clock, history, faults>>
  BY DEF TouchConversation
<1>2. c \in 1 .. created /\ c \in Conversations /\ req[r].now \in Nat
  BY <1>1, SupportAssumption DEF Staged, TypeOK, Conversations, Request
<1>3. /\ x \in Conversation /\ x.owner = conversations[c].owner
      /\ x.status = conversations[c].status /\ x.assigned = conversations[c].assigned
      /\ x.lastMessage = req[r].now
  BY <1>2 DEF Conversation, TypeOK
<1> HIDE DEF x
<1>4. Changed(c, conversations[c].owner, conversations[c].status,
              conversations[c].assigned, req[r].now)
  BY <1>1, <1>2, <1>3 DEF Changed, TypeOK
<1> QED
  BY <1>1, <1>2, <1>4, FinishEffect DEF TouchConversation

\* Closing sets the status only.
LEMMA CloseConversationEffect ==
    ASSUME TypeOK, Staged, NEW r \in Requests, CloseConversation(r)
    PROVE  LET c == req[r].conversation  v == conversations[c] IN
           /\ pc[r] = "close" /\ c \in 1 .. created /\ c \in Conversations
           /\ Changed(c, v.owner, "closed", v.assigned, v.lastMessage)
           /\ Decide(c, "closed")
           /\ RequestsTyped /\ OthersGoOn(r) /\ Over(r)
           /\ UNCHANGED <<created, messages, clock, assignees, behind, faults>>
<1> DEFINE c == req[r].conversation
           x == [conversations[c] EXCEPT !.status = "closed"]
<1>1. /\ pc[r] = "close" /\ conversations' = [conversations EXCEPT ![c] = x]
      /\ Decide(c, "closed")
      /\ UNCHANGED <<created, messages, clock, assignees, behind, faults>>
  BY DEF CloseConversation
<1>2. c \in 1 .. created /\ c \in Conversations
  BY <1>1, SupportAssumption DEF Staged, TypeOK, Conversations
<1>3. /\ x \in Conversation /\ x.owner = conversations[c].owner /\ x.status = "closed"
      /\ x.assigned = conversations[c].assigned
      /\ x.lastMessage = conversations[c].lastMessage
  BY <1>2 DEF Conversation, TypeOK, Statuses
<1> HIDE DEF x
<1>4. Changed(c, conversations[c].owner, "closed", conversations[c].assigned,
              conversations[c].lastMessage)
  BY <1>1, <1>2, <1>3 DEF Changed, TypeOK
<1> QED
  BY <1>1, <1>2, <1>4, FinishEffect DEF CloseConversation

\* A reply writes a status back, and the time of its message.
LEMMA SetPendingEffect ==
    ASSUME TypeOK, Staged, NEW r \in Requests, SetPending(r)
    PROVE  LET c == req[r].conversation  v == conversations[c] IN
           /\ pc[r] = "pend" /\ c \in 1 .. created /\ c \in Conversations
           /\ Changed(c, v.owner,
                      IF req[r].status = "open" THEN "pending" ELSE req[r].status,
                      v.assigned, req[r].now)
           /\ RequestsTyped /\ OthersGoOn(r) /\ Over(r)
           /\ UNCHANGED <<created, messages, clock, history, faults>>
<1> DEFINE c == req[r].conversation
           answered == IF req[r].status = "open" THEN "pending" ELSE req[r].status
           x == [conversations[c] EXCEPT !.status = answered, !.lastMessage = req[r].now]
<1>1. /\ pc[r] = "pend" /\ conversations' = [conversations EXCEPT ![c] = x]
      /\ UNCHANGED <<created, messages, clock, history, faults>>
  <2>1. conversations' = [conversations EXCEPT ![c].status = answered,
                                               ![c].lastMessage = req[r].now]
    BY DEF SetPending
  <2>2. conversations' = [conversations EXCEPT ![c] = x]
    BY <2>1 DEF TypeOK
  <2> QED
    BY <2>2 DEF SetPending
<1>2. /\ c \in 1 .. created /\ c \in Conversations /\ req[r].now \in Nat
      /\ req[r].status \in Statuses
  BY <1>1, SupportAssumption DEF Staged, TypeOK, Conversations, Request
<1>3. /\ x \in Conversation /\ x.owner = conversations[c].owner /\ x.status = answered
      /\ x.assigned = conversations[c].assigned /\ x.lastMessage = req[r].now
  BY <1>2, ZenonT(60) DEF Conversation, TypeOK, Statuses
<1> HIDE DEF x
<1>4. Changed(c, conversations[c].owner, answered, conversations[c].assigned, req[r].now)
  BY <1>1, <1>2, <1>3 DEF Changed, TypeOK
<1> QED
  BY <1>1, <1>2, <1>4, FinishEffect DEF SetPending

\* An update sets the fields that were given.
LEMMA UpdateConversationEffect ==
    ASSUME TypeOK, Staged, NEW r \in Requests, UpdateConversation(r)
    PROVE  LET c == req[r].conversation  v == conversations[c]  given == req[r] IN
           /\ pc[r] = "update" /\ c \in 1 .. created /\ c \in Conversations
           /\ Changed(c, v.owner,
                      IF given.status = NoStatus THEN v.status ELSE given.status,
                      IF given.assigned = NoOne THEN v.assigned ELSE given.assigned,
                      v.lastMessage)
           /\ UpdateStatus(r)
           /\ assignees' =
                 [assignees EXCEPT ![c] = @ \union ({given.assigned} \intersect Agents)]
           /\ RequestsTyped /\ OthersGoOn(r) /\ Over(r)
           /\ UNCHANGED <<created, messages, clock, behind, faults>>
<1> DEFINE c == req[r].conversation
           v == conversations[c]
           status == IF req[r].status = NoStatus THEN v.status ELSE req[r].status
           assigned == IF req[r].assigned = NoOne THEN v.assigned ELSE req[r].assigned
           x == [v EXCEPT !.status = status, !.assigned = assigned]
<1>0. pc[r] = "update"
  BY DEF UpdateConversation
<1>1. c \in 1 .. created /\ c \in Conversations /\ pc[r] = "update"
  <2> HIDE DEF x, status, assigned, v
  <2> QED
    BY <1>0, SupportAssumption DEF Staged, TypeOK, Conversations
<1>2. conversations' = [conversations EXCEPT ![c] = x]
  <2>1. conversations' = [conversations EXCEPT ![c].status = status,
                                               ![c].assigned = assigned]
    BY <1>1 DEF UpdateConversation, TypeOK
  <2> QED
    BY <2>1 DEF TypeOK
<1>3. v \in Conversation /\ status \in Statuses /\ assigned \in People \union {NoOne}
  BY <1>1 DEF Conversation, TypeOK, Request
<1>4. /\ x \in Conversation /\ x.owner = v.owner /\ x.status = status
      /\ x.assigned = assigned /\ x.lastMessage = v.lastMessage
  BY <1>3 DEF Conversation
<1> HIDE DEF x
<1>5. Changed(c, v.owner, status, assigned, v.lastMessage)
  BY <1>1, <1>2, <1>4 DEF Changed, TypeOK
<1>6. /\ UpdateStatus(r) /\ Finish(r)
      /\ assignees' =
            [assignees EXCEPT ![c] = @ \union ({req[r].assigned} \intersect Agents)]
      /\ UNCHANGED <<created, messages, clock, behind, faults>>
  BY DEF UpdateConversation
<1>7. RequestsTyped /\ OthersGoOn(r) /\ Over(r)
  BY <1>6, FinishEffect
<1> QED
  BY <1>1, <1>5, <1>6, <1>7

\* How a handler begins: a new conversation, a customer's message, a reply, or a
\* change of fields.
Opens(r, who) ==
    /\ Begun(r, "open", 0, who, clock + 1, NoStatus, NoOne)
    /\ clock' = clock + 1 /\ clock' \in 0 .. MaxMessages
    /\ UNCHANGED <<store, history, faults>>

Sends(r, c, who) ==
    /\ Begun(r, "send", c, who, clock + 1, NoStatus, NoOne)
    /\ conversations[c].owner = who
    /\ clock' = clock + 1 /\ clock' \in 0 .. MaxMessages
    /\ MessageOverlaps(c)
    /\ UNCHANGED <<store, decided, overlapped, assignees, faults>>

RepliesTo(r, c, who) ==
    /\ Begun(r, "reply", c, who, clock + 1, conversations[c].status, NoOne)
    /\ conversations[c].status \in Statuses
    /\ MayHandle(who, c)
    /\ clock' = clock + 1 /\ clock' \in 0 .. MaxMessages
    /\ MessageOverlaps(c)
    /\ UNCHANGED <<store, decided, overlapped, assignees, faults>>

SetsFields(r, c) ==
    /\ \E stage \in {"close", "update"}, status \in Statuses \union {NoStatus},
          assigned \in People \union {NoOne} :
             Begun(r, stage, c, NoOne, 0, status, assigned)
    /\ UNCHANGED <<store, clock, history, faults>>

\* Every arrival is one of these.
LEMMA ArrivalEffect ==
    ASSUME TypeOK, NEW r \in Requests, NEW who \in People, Arrival(r, who)
    PROVE  \/ Opens(r, who)
           \/ \E c \in 1 .. created :
                 c \in Conversations /\ (Sends(r, c, who) \/ RepliesTo(r, c, who) \/ SetsFields(r, c))
<1>1. /\ \A c \in 1 .. created : c \in Conversations
      /\ clock \in Nat /\ (clock < MaxMessages => clock + 1 \in 0 .. MaxMessages)
  BY SupportAssumption DEF TypeOK, Conversations
<1>2. {"open", "send", "reply", "close", "update"} \subseteq Stages
  BY DEF Stages
<1>3. CASE CreateSupportConversation(r, who)
  <2>1. Begun(r, "open", 0, who, clock + 1, NoStatus, NoOne)
    BY <1>1, <1>2, <1>3, StartEffect DEF CreateSupportConversation, StartMessage
  <2> QED
    BY <1>1, <1>3, <2>1 DEF CreateSupportConversation, StartMessage, Opens
<1>4. ASSUME NEW c \in 1 .. created, SendSupportMessage(r, c, who)
      PROVE  Sends(r, c, who)
  <2>1. Begun(r, "send", c, who, clock + 1, NoStatus, NoOne)
    BY <1>1, <1>2, <1>4, StartEffect DEF SendSupportMessage, StartMessage
  <2> QED
    BY <1>1, <1>4, <2>1 DEF SendSupportMessage, StartMessage, Sends
<1>5. ASSUME NEW c \in 1 .. created, SendAdminSupportReply(r, c, who)
      PROVE  RepliesTo(r, c, who)
  <2>1. conversations[c].status \in Statuses
    BY <1>1 DEF TypeOK, Conversation
  <2>2. Begun(r, "reply", c, who, clock + 1, conversations[c].status, NoOne)
    BY <1>1, <1>2, <1>5, <2>1, StartEffect DEF SendAdminSupportReply, StartMessage
  <2> QED
    BY <1>1, <1>5, <2>1, <2>2 DEF SendAdminSupportReply, StartMessage, RepliesTo
<1>6. ASSUME NEW c \in 1 .. created, CloseSupportConversation(r, c, who)
      PROVE  SetsFields(r, c)
  <2>1. "closed" \in Statuses
    BY DEF Statuses
  <2>2. Begun(r, "close", c, NoOne, 0, "closed", NoOne)
    BY <1>1, <1>2, <1>6, <2>1, StartEffect DEF CloseSupportConversation, StartUpdate
  <2> QED
    BY <1>6, <2>1, <2>2 DEF CloseSupportConversation, SetsFields
<1>7. ASSUME NEW c \in 1 .. created, NEW status \in Statuses \union {NoStatus},
             NEW assigned \in People \union {NoOne},
             UpdateSupportConversationByAdmin(r, c, who, status, assigned)
      PROVE  SetsFields(r, c)
  <2>1. Begun(r, "update", c, NoOne, 0, status, assigned)
    BY <1>1, <1>2, <1>7, StartEffect DEF UpdateSupportConversationByAdmin,
       StartUpdate
  <2> QED
    BY <1>7, <2>1 DEF UpdateSupportConversationByAdmin, SetsFields
<1> QED
  BY <1>1, <1>3, <1>4, <1>5, <1>6, <1>7 DEF Arrival

\* A message m is stored, and nothing else.
Stores(r, stage, next, m) ==
    /\ RequestsTyped /\ OthersGoOn(r)
    /\ pc[r] = stage /\ pc'[r] = next /\ req'[r] = req[r]
    /\ req[r].conversation \in 1 .. created
    /\ m \in Message /\ m.conversation = req[r].conversation
    /\ m.sender = req[r].who /\ m.at = req[r].now
    /\ messages' = messages \union {m}
    /\ UNCHANGED <<conversations, created, clock, history, faults>>

\* The three inserts of a message store one.
LEMMA InsertMessageEffect ==
    ASSUME TypeOK, Staged, NEW r \in Requests, NEW stage \in {"first", "send", "reply"},
           NEW next \in {"touch", "pend"}, InsertMessage(r, stage, next)
    PROVE  \E m \in Message : Stores(r, stage, next, m)
<1> DEFINE m == [conversation |-> req[r].conversation, sender |-> req[r].who,
                 at |-> req[r].now]
<1>1. /\ pc[r] = stage /\ Goto(r, next) /\ messages' = messages \union {m}
      /\ UNCHANGED <<conversations, created, clock, history, faults>>
  BY DEF InsertMessage
<1>2. /\ req[r].conversation \in 1 .. created /\ req[r].conversation \in Conversations
      /\ req[r].who \in People /\ req[r].now \in Nat
  <2>1. /\ req[r].conversation \in 1 .. created
        /\ req[r].who \in People /\ req[r].now \in Nat
    BY <1>1 DEF Staged, TypeOK, Request
  <2> QED
    BY <2>1, SupportAssumption DEF TypeOK, Conversations
<1>3. /\ m \in Message /\ m.conversation = req[r].conversation
      /\ m.sender = req[r].who /\ m.at = req[r].now
  BY <1>2 DEF Message
<1>4. next \in Stages
  BY DEF Stages
<1> HIDE DEF m
<1>5. RequestsTyped /\ OthersGoOn(r) /\ pc'[r] = next /\ req'[r] = req[r]
  BY <1>1, <1>4, GotoEffect
<1>6. Stores(r, stage, next, m)
  BY <1>1, <1>2, <1>3, <1>5 DEF Stores
<1> QED
  BY <1>3, <1>6

\* A failed call ends its request, a restart all of them.
LEMMA FailureEffect ==
    ASSUME TypeOK, (\E r \in Requests : CallFails(r)) \/ Restart
    PROVE  /\ RequestsTyped
           /\ \A q \in Requests : Over(q) \/ (pc'[q] = pc[q] /\ req'[q] = req[q])
           /\ \A q \in HalfWritten : Over(q) => req[q].conversation \in behind'
           /\ behind' \subseteq behind \union {req[q].conversation : q \in HalfWritten}
           /\ behind \subseteq behind'
           /\ faults' \in 0 .. MaxFaults
           /\ UNCHANGED <<store, clock, decided, overlapped, assignees>>
<1>1. faults < MaxFaults /\ faults' = faults + 1 => faults' \in 0 .. MaxFaults
  BY SupportAssumption DEF TypeOK
<1>2. CASE \E r \in Requests : CallFails(r)
  <2>0. PICK r \in Requests : CallFails(r)
    BY <1>2
  <2>1. RequestsTyped /\ OthersGoOn(r) /\ Over(r)
    BY <2>0, FinishEffect DEF CallFails
  <2>2. \A q \in HalfWritten : Over(q) => q = r
    BY <2>1 DEF OthersGoOn, Over, HalfWritten
  <2> QED
    BY <1>1, <2>0, <2>1, <2>2 DEF CallFails, OthersGoOn
<1>3. CASE Restart
  BY <1>1, <1>3, IdleFields DEF Restart, RequestsTyped, Over
<1> QED
  BY <1>2, <1>3

\* Every step is one of these.
LEMMA Kinds ==
    ASSUME TypeOK, Staged, [Next]_vars
    PROVE  \/ \E r \in Requests, who \in People :
                 \/ Opens(r, who)
                 \/ \E c \in 1 .. created :
                       /\ c \in Conversations
                       /\ Sends(r, c, who) \/ RepliesTo(r, c, who) \/ SetsFields(r, c)
           \/ \E r \in Requests :
                 \/ InsertConversation(r)
                 \/ \E m \in Message :
                       \/ \E stage \in {"first", "send"} : Stores(r, stage, "touch", m)
                       \/ Stores(r, "reply", "pend", m)
                 \/ TouchConversation(r)
                 \/ CloseConversation(r)
                 \/ SetPending(r)
                 \/ UpdateConversation(r)
           \/ (\E r \in Requests : CallFails(r)) \/ Restart
           \/ UNCHANGED vars
<1>1. ASSUME NEW r \in Requests,
             InsertFirstMessage(r) \/ InsertSentMessage(r) \/ InsertReply(r)
      PROVE  \E m \in Message :
                \/ \E stage \in {"first", "send"} : Stores(r, stage, "touch", m)
                \/ Stores(r, "reply", "pend", m)
  <2>1. CASE InsertFirstMessage(r)
    BY <2>1, InsertMessageEffect DEF InsertFirstMessage
  <2>2. CASE InsertSentMessage(r)
    BY <2>2, InsertMessageEffect DEF InsertSentMessage
  <2>3. CASE InsertReply(r)
    BY <2>3, InsertMessageEffect DEF InsertReply
  <2> QED
    BY <1>1, <2>1, <2>2, <2>3
<1> QED
  BY <1>1, ArrivalEffect DEF Next, RequestStep

\* Every step keeps the ranges of the variables.
LEMMA TypesStep ==
    ASSUME TypeOK, Staged, [Next]_vars
    PROVE  TypeOK'
<1>1. ASSUME NEW r \in Requests, NEW who \in People, Opens(r, who) PROVE TypeOK'
  BY <1>1 DEF Opens, Begun, RequestsTyped, store, history, TypeOK
<1>2. ASSUME NEW r \in Requests, NEW who \in People, NEW c \in 1 .. created,
             c \in Conversations, Sends(r, c, who)
      PROVE  TypeOK'
  BY <1>2 DEF Sends, Begun, RequestsTyped, MessageOverlaps, store, TypeOK
<1>3. ASSUME NEW r \in Requests, NEW who \in People, NEW c \in 1 .. created,
             c \in Conversations, RepliesTo(r, c, who)
      PROVE  TypeOK'
  BY <1>3 DEF RepliesTo, Begun, RequestsTyped, MessageOverlaps, store, TypeOK
<1>4. ASSUME NEW r \in Requests, NEW c \in 1 .. created, c \in Conversations,
             SetsFields(r, c)
      PROVE  TypeOK'
  BY <1>4 DEF SetsFields, Begun, RequestsTyped, store, history, TypeOK
<1>5. ASSUME NEW r \in Requests, InsertConversation(r) PROVE TypeOK'
  <2>1. created' \in 0 .. MaxConversations
    BY <1>5, InsertConversationEffect, SupportAssumption DEF Conversations
  <2> QED
    BY <1>5, <2>1, InsertConversationEffect DEF RequestsTyped, Changed, history,
       TypeOK
<1>6. ASSUME NEW r \in Requests, NEW m \in Message,
             NEW stage \in {"first", "send"}, Stores(r, stage, "touch", m)
      PROVE  TypeOK'
  BY <1>6 DEF Stores, RequestsTyped, history, TypeOK
<1>7. ASSUME NEW r \in Requests, NEW m \in Message, Stores(r, "reply", "pend", m)
      PROVE  TypeOK'
  BY <1>7 DEF Stores, RequestsTyped, history, TypeOK
<1>8. ASSUME NEW r \in Requests, TouchConversation(r) PROVE TypeOK'
  BY <1>8, TouchConversationEffect DEF RequestsTyped, Changed, history, TypeOK
<1>9. ASSUME NEW r \in Requests, CloseConversation(r) PROVE TypeOK'
  <2>1. "closed" \in Statuses
    BY DEF Statuses
  <2> QED
    BY <1>9, <2>1, CloseConversationEffect DEF RequestsTyped, Changed, Decide,
       TypeOK
<1>10. ASSUME NEW r \in Requests, SetPending(r) PROVE TypeOK'
  BY <1>10, SetPendingEffect DEF RequestsTyped, Changed, history, TypeOK
<1>11. ASSUME NEW r \in Requests, UpdateConversation(r) PROVE TypeOK'
  <2>1. req[r].status \in Statuses \union {NoStatus}
    BY DEF TypeOK, Request
  <2>2. decided' \in [Conversations -> Statuses] /\ overlapped' \subseteq Conversations
    <3>1. UpdateStatus(r) /\ req[r].conversation \in Conversations
      BY <1>11, UpdateConversationEffect
    <3> QED
      BY <2>1, <3>1 DEF UpdateStatus, Decide, TypeOK
  <2>3. assignees' \in [Conversations -> SUBSET Agents]
    BY <1>11, UpdateConversationEffect DEF TypeOK
  <2> QED
    BY <1>11, <2>2, <2>3, UpdateConversationEffect DEF RequestsTyped, Changed,
       TypeOK
<1>12. CASE (\E r \in Requests : CallFails(r)) \/ Restart
  <2>1. \A q \in HalfWritten : req[q].conversation \in Conversations
    BY SupportAssumption, SMTT(30) DEF HalfWritten, Staged, TypeOK, Conversations
  <2> QED
    BY <1>12, <2>1, FailureEffect DEF RequestsTyped, store, TypeOK
<1>13. CASE UNCHANGED vars
  BY <1>13 DEF vars, store, requests, history, TypeOK
<1> QED
  BY <1>1, <1>2, <1>3, <1>4, <1>5, <1>6, <1>7, <1>8, <1>9, <1>10, <1>11, <1>12,
     <1>13, Kinds

\* Every step keeps what a stage says of its request.
LEMMA StagedStep ==
    ASSUME TypeOK, Staged, [Next]_vars
    PROVE  Staged'
<1>1. ASSUME NEW r \in Requests, NEW who \in People, Opens(r, who) PROVE Staged'
  BY <1>1 DEF Opens, Begun, OthersGoOn, store, Staged
<1>2. ASSUME NEW r \in Requests, NEW who \in People, NEW c \in 1 .. created,
             c \in Conversations, Sends(r, c, who)
      PROVE  Staged'
  BY <1>2 DEF Sends, Begun, OthersGoOn, store, Staged
<1>3. ASSUME NEW r \in Requests, NEW who \in People, NEW c \in 1 .. created,
             c \in Conversations, RepliesTo(r, c, who)
      PROVE  Staged'
  BY <1>3 DEF RepliesTo, Begun, OthersGoOn, store, Staged
<1>4. ASSUME NEW r \in Requests, NEW c \in 1 .. created, c \in Conversations,
             SetsFields(r, c)
      PROVE  Staged'
  BY <1>4 DEF SetsFields, Begun, OthersGoOn, store, Staged
<1>5. ASSUME NEW r \in Requests, InsertConversation(r) PROVE Staged'
  <2>1. \A c \in 1 .. created : c \in 1 .. created'
    BY <1>5, InsertConversationEffect
  <2>2. created + 1 \in 1 .. created'
    BY <1>5, InsertConversationEffect
  <2> QED
    BY <1>5, <2>1, <2>2, InsertConversationEffect DEF OthersGoOn, Staged
<1>6. ASSUME NEW r \in Requests, NEW m \in Message,
             NEW stage \in {"first", "send"}, Stores(r, stage, "touch", m)
      PROVE  Staged'
  BY <1>6 DEF Stores, OthersGoOn, Staged
<1>7. ASSUME NEW r \in Requests, NEW m \in Message, Stores(r, "reply", "pend", m)
      PROVE  Staged'
  BY <1>7 DEF Stores, OthersGoOn, Staged
<1>8. ASSUME NEW r \in Requests, TouchConversation(r) PROVE Staged'
  BY <1>8, TouchConversationEffect DEF OthersGoOn, Over, Staged
<1>9. ASSUME NEW r \in Requests, CloseConversation(r) PROVE Staged'
  BY <1>9, CloseConversationEffect DEF OthersGoOn, Over, Staged
<1>10. ASSUME NEW r \in Requests, SetPending(r) PROVE Staged'
  BY <1>10, SetPendingEffect DEF OthersGoOn, Over, Staged
<1>11. ASSUME NEW r \in Requests, UpdateConversation(r) PROVE Staged'
  BY <1>11, UpdateConversationEffect DEF OthersGoOn, Over, Staged
<1>12. CASE (\E r \in Requests : CallFails(r)) \/ Restart
  BY <1>12, FailureEffect DEF Over, store, Staged
<1>13. CASE UNCHANGED vars
  BY <1>13 DEF vars, store, requests, Staged
<1> QED
  BY <1>1, <1>2, <1>3, <1>4, <1>5, <1>6, <1>7, <1>8, <1>9, <1>10, <1>11, <1>12,
     <1>13, Kinds

\* Every step keeps the clock ahead.
LEMMA StampedStep ==
    ASSUME TypeOK, Staged, Stamped, [Next]_vars
    PROVE  Stamped'
<1>1. ASSUME NEW r \in Requests, NEW who \in People, Opens(r, who) PROVE Stamped'
  <2>1. clock \in Nat /\ \A q \in Requests : req[q].now \in Nat
    BY DEF TypeOK, Request
  <2>2. \A m \in messages : m.at \in Nat
    BY DEF TypeOK, Message
  <2> QED
    BY <1>1, <2>1, <2>2 DEF Opens, Begun, OthersGoOn, store, Stamped
<1>2. ASSUME NEW r \in Requests, NEW who \in People, NEW c \in 1 .. created,
             c \in Conversations, Sends(r, c, who)
      PROVE  Stamped'
  <2>1. clock \in Nat /\ \A q \in Requests : req[q].now \in Nat
    BY DEF TypeOK, Request
  <2>2. \A m \in messages : m.at \in Nat
    BY DEF TypeOK, Message
  <2> QED
    BY <1>2, <2>1, <2>2 DEF Sends, Begun, OthersGoOn, store, Stamped
<1>3. ASSUME NEW r \in Requests, NEW who \in People, NEW c \in 1 .. created,
             c \in Conversations, RepliesTo(r, c, who)
      PROVE  Stamped'
  <2>1. clock \in Nat /\ \A q \in Requests : req[q].now \in Nat
    BY DEF TypeOK, Request
  <2>2. \A m \in messages : m.at \in Nat
    BY DEF TypeOK, Message
  <2> QED
    BY <1>3, <2>1, <2>2 DEF RepliesTo, Begun, OthersGoOn, store, Stamped
<1>4. ASSUME NEW r \in Requests, NEW c \in 1 .. created, c \in Conversations,
             SetsFields(r, c)
      PROVE  Stamped'
  <2>1. 0 <= clock
    BY DEF TypeOK
  <2> QED
    BY <1>4, <2>1 DEF SetsFields, Begun, OthersGoOn, store, Stamped
<1>5. ASSUME NEW r \in Requests, InsertConversation(r) PROVE Stamped'
  <2>1. \A c \in 1 .. created : c \in 1 .. created'
    BY <1>5, InsertConversationEffect
  <2> QED
    BY <1>5, <2>1, InsertConversationEffect DEF OthersGoOn, Stamped
<1>6. ASSUME NEW r \in Requests, NEW m \in Message,
             NEW stage \in {"first", "send"}, Stores(r, stage, "touch", m)
      PROVE  Stamped'
  BY <1>6 DEF Stores, OthersGoOn, Stamped
<1>7. ASSUME NEW r \in Requests, NEW m \in Message, Stores(r, "reply", "pend", m)
      PROVE  Stamped'
  BY <1>7 DEF Stores, OthersGoOn, Stamped
<1>8. ASSUME NEW r \in Requests, TouchConversation(r) PROVE Stamped'
  <2>1. 0 <= clock
    BY DEF TypeOK
  <2> QED
    BY <1>8, <2>1, TouchConversationEffect, IdleFields DEF OthersGoOn, Over, Stamped
<1>9. ASSUME NEW r \in Requests, CloseConversation(r) PROVE Stamped'
  <2>1. 0 <= clock
    BY DEF TypeOK
  <2> QED
    BY <1>9, <2>1, CloseConversationEffect, IdleFields DEF OthersGoOn, Over, Stamped
<1>10. ASSUME NEW r \in Requests, SetPending(r) PROVE Stamped'
  <2>1. 0 <= clock
    BY DEF TypeOK
  <2> QED
    BY <1>10, <2>1, SetPendingEffect, IdleFields DEF OthersGoOn, Over, Stamped
<1>11. ASSUME NEW r \in Requests, UpdateConversation(r) PROVE Stamped'
  <2>1. 0 <= clock
    BY DEF TypeOK
  <2> QED
    BY <1>11, <2>1, UpdateConversationEffect, IdleFields DEF OthersGoOn, Over,
       Stamped
<1>12. CASE (\E r \in Requests : CallFails(r)) \/ Restart
  <2>1. 0 <= clock
    BY DEF TypeOK
  <2> QED
    BY <1>12, <2>1, FailureEffect, IdleFields DEF Over, store, Stamped
<1>13. CASE UNCHANGED vars
  BY <1>13 DEF vars, store, requests, Stamped
<1> QED
  BY <1>1, <1>2, <1>3, <1>4, <1>5, <1>6, <1>7, <1>8, <1>9, <1>10, <1>11, <1>12,
     <1>13, Kinds

\* Nobody has chosen a status for a conversation that is not there yet.
NewDecided == \A c \in Conversations : c > created => decided[c] = "open"

\* Every step keeps that.
LEMMA NewDecidedStep ==
    ASSUME TypeOK, Staged, NewDecided, [Next]_vars
    PROVE  NewDecided'
<1>1. ASSUME NEW r \in Requests, NEW c \in 1 .. created, NEW status, Decide(c, status),
             created' = created
      PROVE  NewDecided'
  <2>1. \A d \in Conversations : d > created => d /= c
    BY DEF TypeOK, Conversations
  <2> QED
    BY <1>1, <2>1 DEF Decide, NewDecided, TypeOK
<1>2. ASSUME UNCHANGED <<created, decided>> PROVE NewDecided'
  BY <1>2 DEF NewDecided
<1>3. ASSUME NEW r \in Requests, InsertConversation(r) PROVE NewDecided'
  <2>1. created' = created + 1 /\ decided' = decided /\ created \in Nat
    BY <1>3, InsertConversationEffect DEF history
  <2> QED
    BY <2>1 DEF NewDecided, Conversations
<1>4. ASSUME NEW r \in Requests, CloseConversation(r) PROVE NewDecided'
  BY <1>1, <1>4, CloseConversationEffect
<1>5. ASSUME NEW r \in Requests, UpdateConversation(r) PROVE NewDecided'
  BY <1>1, <1>2, <1>5, UpdateConversationEffect DEF UpdateStatus
<1>6. ASSUME NEW r \in Requests, TouchConversation(r) \/ SetPending(r)
      PROVE  NewDecided'
  BY <1>2, <1>6, TouchConversationEffect, SetPendingEffect DEF history
<1>7. CASE (\E r \in Requests : CallFails(r)) \/ Restart
  BY <1>2, <1>7, FailureEffect DEF store
<1> QED
  BY <1>2, <1>3, <1>4, <1>5, <1>6, <1>7, Kinds
     DEF Opens, Sends, RepliesTo, SetsFields, Stores, vars, store, history

\* A status that is chosen stands, and the replies under way are marked.
LEMMA Decided ==
    ASSUME TypeOK, Staged, RepliesRead, DecisionStands, NEW r \in Requests,
           NEW c \in Conversations, NEW status \in Statuses,
           Decide(c, status), OthersGoOn(r), Over(r),
           \A d \in Conversations : d /= c => conversations'[d] = conversations[d],
           conversations'[c].status = status
    PROVE  RepliesRead' /\ DecisionStands'
<1>1. /\ \A d \in Conversations : decided'[d] = IF d = c THEN status ELSE decided[d]
      /\ \A d \in Conversations : d /= c => (d \in overlapped' <=> d \in overlapped)
      /\ c \notin overlapped' => Replies(c) = {}
  BY DEF Decide, TypeOK
<1>2. DecisionStands'
  BY <1>1 DEF DecisionStands
<1>3. ASSUME NEW q \in Requests, pc'[q] \in {"reply", "pend"},
             req'[q].conversation \notin overlapped'
      PROVE  \/ req'[q].status = decided'[req'[q].conversation]
             \/ req'[q].status = "pending" /\ decided'[req'[q].conversation] = "open"
  <2>1. pc'[q] = pc[q] /\ req'[q] = req[q]
    BY <1>3 DEF OthersGoOn, Over
  <2>2. req[q].conversation /= c
    BY <1>1, <1>3, <2>1 DEF Replies
  <2>3. req[q].conversation \in Conversations
    BY <1>3, <2>1, SupportAssumption, SMTT(30) DEF TypeOK, Staged, Conversations
  <2> QED
    BY <1>1, <1>3, <2>1, <2>2, <2>3 DEF RepliesRead
<1> QED
  BY <1>2, <1>3 DEF RepliesRead

\* Every step keeps the status that was chosen, and what replies read of it.
LEMMA DecisionsStep ==
    ASSUME TypeOK, Staged, NewDecided, RepliesRead, DecisionStands, [Next]_vars
    PROVE  RepliesRead' /\ DecisionStands'
<1>1. ASSUME NEW r \in Requests, NEW who \in People, Opens(r, who)
      PROVE  RepliesRead' /\ DecisionStands'
  BY <1>1 DEF Opens, Begun, OthersGoOn, store, history, RepliesRead, DecisionStands
<1>2. ASSUME NEW r \in Requests, NEW who \in People, NEW c \in 1 .. created,
             c \in Conversations, Sends(r, c, who)
      PROVE  RepliesRead' /\ DecisionStands'
  BY <1>2 DEF Sends, Begun, OthersGoOn, store, RepliesRead, DecisionStands
<1>3. ASSUME NEW r \in Requests, NEW who \in People, NEW c \in 1 .. created,
             c \in Conversations, RepliesTo(r, c, who)
      PROVE  RepliesRead' /\ DecisionStands'
  BY <1>3 DEF RepliesTo, Begun, OthersGoOn, store, RepliesRead, DecisionStands
<1>4. ASSUME NEW r \in Requests, NEW c \in 1 .. created, c \in Conversations,
             SetsFields(r, c)
      PROVE  RepliesRead' /\ DecisionStands'
  <2>1. OthersGoOn(r) /\ pc'[r] \in {"close", "update"} /\ UNCHANGED <<store, history>>
    BY <1>4 DEF SetsFields, Begun
  <2> QED
    BY <2>1 DEF OthersGoOn, store, history, RepliesRead, DecisionStands
<1>5. ASSUME NEW r \in Requests, InsertConversation(r)
      PROVE  RepliesRead' /\ DecisionStands'
  <2>1. decided[created + 1] = "open" /\ created \in Nat
    BY <1>5, InsertConversationEffect DEF NewDecided
  <2>2. RepliesRead'
    BY <1>5, InsertConversationEffect DEF OthersGoOn, history, RepliesRead
  <2>3. DecisionStands'
    BY <1>5, <2>1, InsertConversationEffect DEF Changed, history, DecisionStands
  <2> QED
    BY <2>2, <2>3
<1>6. ASSUME NEW r \in Requests, NEW m \in Message,
             NEW stage \in {"first", "send"}, Stores(r, stage, "touch", m)
      PROVE  RepliesRead' /\ DecisionStands'
  BY <1>6 DEF Stores, OthersGoOn, history, RepliesRead, DecisionStands
<1>7. ASSUME NEW r \in Requests, NEW m \in Message, Stores(r, "reply", "pend", m)
      PROVE  RepliesRead' /\ DecisionStands'
  BY <1>7 DEF Stores, OthersGoOn, history, RepliesRead, DecisionStands
<1>8. ASSUME NEW r \in Requests, TouchConversation(r)
      PROVE  RepliesRead' /\ DecisionStands'
  <2>1. RepliesRead'
    BY <1>8, TouchConversationEffect DEF OthersGoOn, Over, history, RepliesRead
  <2>2. DecisionStands'
    BY <1>8, TouchConversationEffect DEF Changed, history, DecisionStands
  <2> QED
    BY <2>1, <2>2
<1>9. ASSUME NEW r \in Requests, CloseConversation(r)
      PROVE  RepliesRead' /\ DecisionStands'
  <2> DEFINE c == req[r].conversation
  <2>1. /\ c \in Conversations /\ Decide(c, "closed") /\ OthersGoOn(r) /\ Over(r)
        /\ \A d \in Conversations : d /= c => conversations'[d] = conversations[d]
        /\ conversations'[c].status = "closed"
    BY <1>9, CloseConversationEffect DEF Changed
  <2>2. "closed" \in Statuses
    BY DEF Statuses
  <2> HIDE DEF c
  <2> QED
    BY <2>1, <2>2, Decided
<1>10. ASSUME NEW r \in Requests, SetPending(r)
       PROVE  RepliesRead' /\ DecisionStands'
  <2>1. RepliesRead'
    BY <1>10, SetPendingEffect DEF OthersGoOn, Over, history, RepliesRead
  <2>2. DecisionStands'
    BY <1>10, SetPendingEffect DEF Changed, history, RepliesRead, DecisionStands
  <2> QED
    BY <2>1, <2>2
<1>11. ASSUME NEW r \in Requests, UpdateConversation(r)
       PROVE  RepliesRead' /\ DecisionStands'
  <2> DEFINE c == req[r].conversation
  <2>1. /\ c \in Conversations /\ UpdateStatus(r) /\ OthersGoOn(r) /\ Over(r)
        /\ \A d \in Conversations : d /= c => conversations'[d] = conversations[d]
        /\ conversations'[c].status =
              IF req[r].status = NoStatus THEN conversations[c].status ELSE req[r].status
    BY <1>11, UpdateConversationEffect DEF Changed
  <2>2. CASE req[r].status = NoStatus
    BY <2>1, <2>2 DEF UpdateStatus, OthersGoOn, Over, RepliesRead, DecisionStands
  <2>3. CASE req[r].status /= NoStatus
    <3>1. Decide(c, req[r].status) /\ req[r].status \in Statuses
      BY <2>1, <2>3 DEF UpdateStatus, TypeOK, Request
    <3> HIDE DEF c
    <3> QED
      BY <2>1, <2>3, <3>1, Decided
  <2> QED
    BY <2>2, <2>3
<1>12. CASE (\E r \in Requests : CallFails(r)) \/ Restart
  BY <1>12, FailureEffect DEF Over, store, RepliesRead, DecisionStands
<1>13. CASE UNCHANGED vars
  BY <1>13 DEF vars, store, requests, history, RepliesRead, DecisionStands
<1> QED
  BY <1>1, <1>2, <1>3, <1>4, <1>5, <1>6, <1>7, <1>8, <1>9, <1>10, <1>11, <1>12,
     <1>13, Kinds

\* Parties stay parties while owners and assigned agents do, and nothing is sent.
LEMMA PartiesKept ==
    ASSUME TypeOK, Staged, Stamped, Senders, MessagesFromParties, NEW r \in Requests,
           OthersGoOn(r), Over(r), UNCHANGED <<created, messages>>,
           \A d \in Conversations : conversations'[d].owner = conversations[d].owner,
           \A d \in Conversations : assignees[d] \subseteq assignees'[d],
           \A d \in 1 .. created : conversations'[d].assigned \in Agents =>
              conversations'[d].assigned \in assignees'[d]
    PROVE  Senders' /\ MessagesFromParties'
<1>1. \A d \in 1 .. created : d \in Conversations
  BY SupportAssumption DEF TypeOK, Conversations
<1>2. Senders'
  BY <1>1 DEF OthersGoOn, Over, Staged, Senders
<1>3. MessagesFromParties'
  BY <1>1 DEF Stamped, MessagesFromParties
<1> QED
  BY <1>2, <1>3

\* Every step keeps that messages are from parties.
LEMMA PartiesStep ==
    ASSUME TypeOK, Staged, Stamped, Senders, MessagesFromParties, [Next]_vars
    PROVE  Senders' /\ MessagesFromParties'
<1>1. ASSUME NEW r \in Requests, NEW who \in People, Opens(r, who)
      PROVE  Senders' /\ MessagesFromParties'
  BY <1>1 DEF Opens, Begun, OthersGoOn, store, history, Senders, MessagesFromParties
<1>2. ASSUME NEW r \in Requests, NEW who \in People, NEW c \in 1 .. created,
             c \in Conversations, Sends(r, c, who)
      PROVE  Senders' /\ MessagesFromParties'
  BY <1>2 DEF Sends, Begun, OthersGoOn, store, Senders, MessagesFromParties
<1>3. ASSUME NEW r \in Requests, NEW who \in People, NEW c \in 1 .. created,
             c \in Conversations, RepliesTo(r, c, who)
      PROVE  Senders' /\ MessagesFromParties'
  BY <1>3 DEF RepliesTo, MayHandle, Staff, Begun, OthersGoOn, store, Senders,
     MessagesFromParties
<1>4. ASSUME NEW r \in Requests, NEW c \in 1 .. created, c \in Conversations,
             SetsFields(r, c)
      PROVE  Senders' /\ MessagesFromParties'
  BY <1>4 DEF SetsFields, Begun, OthersGoOn, store, history, Senders,
     MessagesFromParties
<1>5. ASSUME NEW r \in Requests, InsertConversation(r)
      PROVE  Senders' /\ MessagesFromParties'
  <2>1. \A d \in 1 .. created : d \in Conversations /\ conversations'[d] = conversations[d]
    BY <1>5, InsertConversationEffect, SupportAssumption DEF Changed, TypeOK,
       Conversations
  <2>2. /\ conversations'[created + 1].owner = req[r].who
        /\ conversations'[created + 1].assigned = NoOne /\ NoOne \notin Agents
        /\ \A d \in 1 .. created' : d \in 1 .. created \/ d = created + 1
    BY <1>5, InsertConversationEffect, SupportAssumption DEF Changed
  <2>3. Senders'
    BY <1>5, <2>1, <2>2, InsertConversationEffect DEF OthersGoOn, history, Staged,
       Senders
  <2>4. MessagesFromParties'
    BY <1>5, <2>1, InsertConversationEffect DEF Stamped, history,
       MessagesFromParties
  <2> QED
    BY <2>3, <2>4
<1>6. ASSUME NEW r \in Requests, NEW m \in Message,
             NEW stage \in {"first", "send"}, Stores(r, stage, "touch", m)
      PROVE  Senders' /\ MessagesFromParties'
  <2>1. Senders'
    BY <1>6 DEF Stores, OthersGoOn, history, Senders
  <2>2. MessagesFromParties'
    BY <1>6 DEF Stores, history, Senders, MessagesFromParties
  <2> QED
    BY <2>1, <2>2
<1>7. ASSUME NEW r \in Requests, NEW m \in Message, Stores(r, "reply", "pend", m)
      PROVE  Senders' /\ MessagesFromParties'
  <2>1. Senders'
    BY <1>7 DEF Stores, OthersGoOn, history, Senders
  <2>2. MessagesFromParties'
    BY <1>7 DEF Stores, history, Senders, MessagesFromParties
  <2> QED
    BY <2>1, <2>2
<1>8. ASSUME NEW r \in Requests, TouchConversation(r)
      PROVE  Senders' /\ MessagesFromParties'
  <2>1. /\ \A d \in Conversations :
              /\ conversations'[d].owner = conversations[d].owner
              /\ conversations'[d].assigned = conversations[d].assigned
        /\ OthersGoOn(r) /\ Over(r)
        /\ UNCHANGED <<created, messages, assignees>>
    BY <1>8, TouchConversationEffect DEF Changed, history
  <2>2. \A d \in 1 .. created : d \in Conversations
    BY SupportAssumption DEF TypeOK, Conversations
  <2> QED
    BY <2>1, <2>2, PartiesKept DEF Senders
<1>9. ASSUME NEW r \in Requests, CloseConversation(r)
      PROVE  Senders' /\ MessagesFromParties'
  <2>1. /\ \A d \in Conversations :
              /\ conversations'[d].owner = conversations[d].owner
              /\ conversations'[d].assigned = conversations[d].assigned
        /\ OthersGoOn(r) /\ Over(r)
        /\ UNCHANGED <<created, messages, assignees>>
    BY <1>9, CloseConversationEffect DEF Changed, history
  <2>2. \A d \in 1 .. created : d \in Conversations
    BY SupportAssumption DEF TypeOK, Conversations
  <2> QED
    BY <2>1, <2>2, PartiesKept DEF Senders
<1>10. ASSUME NEW r \in Requests, SetPending(r)
       PROVE  Senders' /\ MessagesFromParties'
  <2>1. /\ \A d \in Conversations :
              /\ conversations'[d].owner = conversations[d].owner
              /\ conversations'[d].assigned = conversations[d].assigned
        /\ OthersGoOn(r) /\ Over(r)
        /\ UNCHANGED <<created, messages, assignees>>
    BY <1>10, SetPendingEffect DEF Changed, history
  <2>2. \A d \in 1 .. created : d \in Conversations
    BY SupportAssumption DEF TypeOK, Conversations
  <2> QED
    BY <2>1, <2>2, PartiesKept DEF Senders
<1>11. ASSUME NEW r \in Requests, UpdateConversation(r)
       PROVE  Senders' /\ MessagesFromParties'
  <2> DEFINE c == req[r].conversation
             to == req[r].assigned
  <2>1. /\ \A d \in Conversations : conversations'[d].owner = conversations[d].owner
        /\ \A d \in Conversations : d /= c => conversations'[d] = conversations[d]
        /\ conversations'[c].assigned = IF to = NoOne THEN conversations[c].assigned ELSE to
        /\ c \in Conversations /\ OthersGoOn(r) /\ Over(r)
        /\ assignees' = [assignees EXCEPT ![c] = @ \union ({to} \intersect Agents)]
        /\ UNCHANGED <<created, messages>>
    BY <1>11, UpdateConversationEffect DEF Changed
  <2>2. /\ \A d \in Conversations : assignees[d] \subseteq assignees'[d]
        /\ to \in Agents => to \in assignees'[c]
    BY <2>1 DEF TypeOK
  <2> HIDE DEF to, c
  <2>3. \A d \in 1 .. created : conversations'[d].assigned \in Agents =>
            conversations'[d].assigned \in assignees'[d]
    <3> SUFFICES ASSUME NEW d \in 1 .. created, conversations'[d].assigned \in Agents
                 PROVE  conversations'[d].assigned \in assignees'[d]
      OBVIOUS
    <3>1. d \in Conversations
      BY SupportAssumption DEF TypeOK, Conversations
    <3> QED
      BY <2>1, <2>2, <3>1 DEF Senders
  <2> QED
    BY <2>1, <2>2, <2>3, PartiesKept
<1>12. CASE (\E r \in Requests : CallFails(r)) \/ Restart
  BY <1>12, FailureEffect DEF Over, store, Senders, MessagesFromParties
<1>13. CASE UNCHANGED vars
  BY <1>13 DEF vars, store, requests, history, Senders, MessagesFromParties
<1> QED
  BY <1>1, <1>2, <1>3, <1>4, <1>5, <1>6, <1>7, <1>8, <1>9, <1>10, <1>11, <1>12,
     <1>13, Kinds

\* A conversation is as well written as before if nothing of it changes.
Untouched(c) ==
    /\ behind \subseteq behind'
    /\ \A m \in messages : m \in messages'
    /\ \A m \in messages' : m.conversation = c => m \in messages
    /\ conversations'[c].lastMessage = conversations[c].lastMessage
    /\ \A q \in Requests :
          \/ ~IsWriter(q, c) /\ ~IsWriter(q, c)'
          \/ pc'[q] = pc[q] /\ req'[q] = req[q]

\* What is written of c stays so under a step that does not touch c.
LEMMA UntouchedWritten ==
    ASSUME NEW c, Written(c), Untouched(c)
    PROVE  Written(c)'
<1> SUFFICES ASSUME c \notin behind'
             PROVE  Written(c)'
  BY DEF Written
<1>1. c \notin behind
  BY DEF Untouched
<1>2. ASSUME NEW t, Newest(c, t)
      PROVE  Newest(c, t)'
  BY <1>2 DEF Newest, Untouched
<1>3. \A q \in Requests : IsWriter(q, c)' =>
          IsWriter(q, c) /\ pc'[q] = pc[q] /\ req'[q] = req[q]
  BY DEF Untouched, IsWriter
<1>4. \A q \in Requests : IsWriter(q, c) => IsWriter(q, c)'
  BY DEF Untouched, IsWriter
<1>5. \A q \in Requests, p \in Requests : IsWriter(q, c)' /\ IsWriter(p, c)' => q = p
  BY <1>1, <1>3 DEF Written
<1>6. ASSUME NEW q \in Requests, IsWriter(q, c)'
      PROVE  /\ pc'[q] = "first" => \A m \in messages' : m.conversation /= c
             /\ pc'[q] \in {"send", "reply"} =>
                   /\ Newest(c, conversations[c].lastMessage)'
                   /\ \A m \in messages' : m.conversation = c => m.at <= req'[q].now
             /\ pc'[q] \in {"touch", "pend"} => Newest(c, req[q].now)'
  <2>1. IsWriter(q, c) /\ pc'[q] = pc[q] /\ req'[q] = req[q]
    BY <1>3, <1>6
  <2>2. conversations'[c].lastMessage = conversations[c].lastMessage
    BY DEF Untouched
  <2>3. pc[q] = "first" => \A m \in messages' : m.conversation /= c
    BY <1>1, <2>1 DEF Written, Untouched
  <2>4. pc[q] \in {"send", "reply"} =>
           /\ Newest(c, conversations[c].lastMessage)
           /\ \A m \in messages' : m.conversation = c => m.at <= req[q].now
    BY <1>1, <2>1 DEF Written, Untouched
  <2>5. pc[q] \in {"touch", "pend"} => Newest(c, req[q].now)
    BY <1>1, <2>1 DEF Written
  <2> QED
    BY <1>2, <2>1, <2>2, <2>3, <2>4, <2>5 DEF Newest
<1>7. (\A q \in Requests : ~IsWriter(q, c)') => Newest(c, conversations[c].lastMessage)'
  <2>1. (\A q \in Requests : ~IsWriter(q, c)') => Newest(c, conversations[c].lastMessage)
    BY <1>1, <1>4 DEF Written
  <2> QED
    BY <1>2, <2>1 DEF Untouched, Newest
<1> QED
  BY <1>5, <1>6, <1>7 DEF Written

\* A request that starts to store a message is alone, or marked.
LEMMA BeginsWriting ==
    ASSUME TypeOK, Stamped, AllWritten, NEW r \in Requests, NEW c \in 1 .. created,
           OthersGoOn(r), pc[r] = "idle", pc'[r] \in {"send", "reply"},
           req'[r].conversation = c, req'[r].now = clock + 1, MessageOverlaps(c),
           UNCHANGED store
    PROVE  AllWritten'
<1>1. ASSUME NEW d \in 1 .. created, d /= c PROVE Untouched(d)
  BY <1>1 DEF OthersGoOn, IsWriter, MessageOverlaps, store, Untouched
<1>2. CASE c \in behind'
  <2>1. Written(c)'
    BY <1>2 DEF Written
  <2> QED
    BY <1>1, <2>1, UntouchedWritten DEF store, AllWritten
<1>3. CASE c \notin behind'
  <2>1. c \notin behind /\ \A q \in Requests : ~IsWriter(q, c)
    BY <1>3 DEF MessageOverlaps, Writers, IsWriter
  <2>2. Newest(c, conversations[c].lastMessage)
    BY <2>1 DEF AllWritten, Written
  <2>3. \A q \in Requests : IsWriter(q, c)' => q = r
    BY <2>1 DEF OthersGoOn, IsWriter
  <2>4. \A m \in messages : m.at <= clock + 1
    BY DEF TypeOK, Stamped, Message
  <2>5. Written(c)'
    BY <2>2, <2>3, <2>4 DEF store, Written, Newest, IsWriter
  <2> QED
    BY <1>1, <2>5, UntouchedWritten DEF store, AllWritten
<1> QED
  BY <1>2, <1>3

\* The message of the only writer is the newest.
LEMMA StoresOne ==
    ASSUME TypeOK, AllWritten, NEW r \in Requests, NEW m \in Message,
           OthersGoOn(r), pc[r] \in {"first", "send", "reply"}, pc'[r] \in {"touch", "pend"},
           req'[r] = req[r], req[r].conversation \in 1 .. created,
           m.conversation = req[r].conversation, m.at = req[r].now,
           messages' = messages \union {m}, UNCHANGED <<conversations, created, behind>>
    PROVE  AllWritten'
<1> DEFINE c == req[r].conversation
<1>1. ASSUME NEW d \in 1 .. created, d /= c PROVE Untouched(d)
  BY <1>1 DEF OthersGoOn, IsWriter, Untouched
<1>2. Written(c)'
  <2> SUFFICES ASSUME c \notin behind
               PROVE  Written(c)'
    BY DEF Written
  <2>1. IsWriter(r, c) /\ IsWriter(r, c)' /\ Written(c)
    BY DEF IsWriter, AllWritten
  <2>2. \A q \in Requests : IsWriter(q, c)' => q = r
    BY <2>1 DEF OthersGoOn, IsWriter, Written
  <2>3. \A n \in messages : n.conversation = c => n.at <= req[r].now
    BY <2>1 DEF Written
  <2>4. req[r].now <= req[r].now
    BY DEF TypeOK, Request
  <2>5. Newest(c, req[r].now)'
    BY <2>3, <2>4 DEF Newest
  <2> QED
    BY <2>1, <2>2, <2>5 DEF Written, Newest
<1> QED
  BY <1>1, <1>2, UntouchedWritten DEF AllWritten

\* The only writer shows the newest message.
LEMMA ShowsOne ==
    ASSUME TypeOK, AllWritten, NEW r \in Requests, NEW c \in 1 .. created,
           pc[r] \in {"touch", "pend"}, req[r].conversation = c, OthersGoOn(r), Over(r),
           \A d \in Conversations : d /= c => conversations'[d] = conversations[d],
           conversations'[c].lastMessage = req[r].now,
           UNCHANGED <<created, messages, behind>>
    PROVE  AllWritten'
<1>1. ASSUME NEW d \in 1 .. created, d /= c PROVE Untouched(d)
  <2>1. d \in Conversations
    BY SupportAssumption DEF TypeOK, Conversations
  <2> QED
    BY <1>1, <2>1 DEF OthersGoOn, Over, IsWriter, Untouched
<1>2. Written(c)'
  <2> SUFFICES ASSUME c \notin behind
               PROVE  Written(c)'
    BY DEF Written
  <2>1. IsWriter(r, c) /\ Written(c)
    BY DEF IsWriter, AllWritten
  <2>2. \A q \in Requests : ~IsWriter(q, c)'
    BY <2>1 DEF OthersGoOn, Over, IsWriter, Written
  <2>3. Newest(c, req[r].now)
    BY <2>1 DEF Written
  <2> QED
    BY <2>2, <2>3 DEF Written, Newest
<1> QED
  BY <1>1, <1>2, UntouchedWritten DEF AllWritten

\* Every step keeps the messages and their times together.
LEMMA WrittenStep ==
    ASSUME TypeOK, Staged, Stamped, AllWritten, [Next]_vars
    PROVE  AllWritten'
<1>1. ASSUME NEW r \in Requests, NEW who \in People, Opens(r, who) PROVE AllWritten'
  <2>1. OthersGoOn(r) /\ pc[r] = "idle" /\ pc'[r] = "open" /\ UNCHANGED <<store, history>>
    BY <1>1 DEF Opens, Begun
  <2>2. \A d \in 1 .. created : Untouched(d)
    BY <2>1 DEF OthersGoOn, IsWriter, store, history, Untouched
  <2> QED
    BY <2>1, <2>2, UntouchedWritten DEF store, AllWritten
<1>2. ASSUME NEW r \in Requests, NEW who \in People, NEW c \in 1 .. created,
             c \in Conversations, Sends(r, c, who)
      PROVE  AllWritten'
  <2>1. /\ OthersGoOn(r) /\ pc[r] = "idle" /\ pc'[r] \in {"send", "reply"}
        /\ req'[r].conversation = c /\ req'[r].now = clock + 1 /\ MessageOverlaps(c)
        /\ UNCHANGED store
    BY <1>2 DEF Sends, Begun
  <2> QED
    BY <2>1, BeginsWriting
<1>3. ASSUME NEW r \in Requests, NEW who \in People, NEW c \in 1 .. created,
             c \in Conversations, RepliesTo(r, c, who)
      PROVE  AllWritten'
  <2>1. /\ OthersGoOn(r) /\ pc[r] = "idle" /\ pc'[r] \in {"send", "reply"}
        /\ req'[r].conversation = c /\ req'[r].now = clock + 1 /\ MessageOverlaps(c)
        /\ UNCHANGED store
    BY <1>3 DEF RepliesTo, Begun
  <2> QED
    BY <2>1, BeginsWriting
<1>4. ASSUME NEW r \in Requests, NEW c \in 1 .. created, c \in Conversations,
             SetsFields(r, c)
      PROVE  AllWritten'
  <2>1. /\ OthersGoOn(r) /\ pc[r] = "idle" /\ pc'[r] \in {"close", "update"}
        /\ UNCHANGED <<store, history>>
    BY <1>4 DEF SetsFields, Begun
  <2>2. \A d \in 1 .. created : Untouched(d)
    BY <2>1 DEF OthersGoOn, IsWriter, store, history, Untouched
  <2> QED
    BY <2>1, <2>2, UntouchedWritten DEF store, AllWritten
<1>5. ASSUME NEW r \in Requests, InsertConversation(r) PROVE AllWritten'
  <2>0. PICK c : c = created + 1
    OBVIOUS
  <2>1. /\ created' = c /\ created \in Nat /\ OthersGoOn(r)
        /\ pc[r] = "open" /\ pc'[r] = "first" /\ req'[r].conversation = c
        /\ \A d \in Conversations : d /= c => conversations'[d] = conversations[d]
        /\ UNCHANGED <<messages, history>>
    BY <1>5, <2>0, InsertConversationEffect DEF Changed
  <2>2. ASSUME NEW d \in 1 .. created PROVE Untouched(d)
    <3>1. d \in Conversations /\ d /= c
      BY <2>0, SupportAssumption DEF TypeOK, Conversations
    <3> QED
      BY <2>1, <3>1 DEF OthersGoOn, IsWriter, history, Untouched
  <2>3. /\ \A m \in messages' : m.conversation /= c
        /\ \A q \in Requests : IsWriter(q, c)' => q = r
    BY <2>0, <2>1 DEF OthersGoOn, IsWriter, Staged, Stamped
  <2>4. Written(c)'
    BY <2>1, <2>3 DEF IsWriter, Written
  <2> QED
    BY <2>0, <2>1, <2>2, <2>4, UntouchedWritten DEF AllWritten
<1>6. ASSUME NEW r \in Requests, NEW m \in Message,
             NEW stage \in {"first", "send"}, Stores(r, stage, "touch", m)
      PROVE  AllWritten'
  <2> DEFINE c == req[r].conversation
  <2>1. /\ OthersGoOn(r) /\ pc[r] \in {"first", "send"}
        /\ pc'[r] \in {"touch", "pend"} /\ req'[r] = req[r] /\ c \in 1 .. created
        /\ m.conversation = c /\ m.at = req[r].now /\ messages' = messages \union {m}
        /\ UNCHANGED <<conversations, created, behind>>
    BY <1>6 DEF Stores, history
  <2> QED
    BY <2>1, StoresOne
<1>7. ASSUME NEW r \in Requests, NEW m \in Message, Stores(r, "reply", "pend", m)
      PROVE  AllWritten'
  <2> DEFINE c == req[r].conversation
  <2>1. /\ OthersGoOn(r) /\ pc[r] = "reply"
        /\ pc'[r] \in {"touch", "pend"} /\ req'[r] = req[r] /\ c \in 1 .. created
        /\ m.conversation = c /\ m.at = req[r].now /\ messages' = messages \union {m}
        /\ UNCHANGED <<conversations, created, behind>>
    BY <1>7 DEF Stores, history
  <2> QED
    BY <2>1, StoresOne
<1>8. ASSUME NEW r \in Requests, TouchConversation(r) PROVE AllWritten'
  <2>0. PICK c : c = req[r].conversation
    OBVIOUS
  <2>1. /\ pc[r] = "touch" /\ c \in 1 .. created /\ OthersGoOn(r) /\ Over(r)
        /\ \A d \in Conversations : d /= c => conversations'[d] = conversations[d]
        /\ conversations'[c].lastMessage = req[r].now
        /\ UNCHANGED <<created, messages, behind>>
    BY <1>8, <2>0, TouchConversationEffect DEF Changed, history
  <2> QED
    BY <2>0, <2>1, ShowsOne
<1>9. ASSUME NEW r \in Requests, CloseConversation(r) PROVE AllWritten'
  <2>1. /\ pc[r] = "close" /\ OthersGoOn(r) /\ Over(r)
        /\ \A d \in Conversations :
              conversations'[d].lastMessage = conversations[d].lastMessage
        /\ UNCHANGED <<created, messages, behind>>
    BY <1>9, CloseConversationEffect DEF Changed, history
  <2>2. ASSUME NEW d \in 1 .. created PROVE Untouched(d)
    <3>1. d \in Conversations
      BY SupportAssumption DEF TypeOK, Conversations
    <3> QED
      BY <2>1, <3>1 DEF OthersGoOn, Over, IsWriter, Untouched
  <2> QED
    BY <2>1, <2>2, UntouchedWritten DEF AllWritten
<1>10. ASSUME NEW r \in Requests, SetPending(r) PROVE AllWritten'
  <2>0. PICK c : c = req[r].conversation
    OBVIOUS
  <2>1. /\ pc[r] = "pend" /\ c \in 1 .. created /\ OthersGoOn(r) /\ Over(r)
        /\ \A d \in Conversations : d /= c => conversations'[d] = conversations[d]
        /\ conversations'[c].lastMessage = req[r].now
        /\ UNCHANGED <<created, messages, behind>>
    BY <1>10, <2>0, SetPendingEffect DEF Changed, history
  <2> QED
    BY <2>0, <2>1, ShowsOne
<1>11. ASSUME NEW r \in Requests, UpdateConversation(r) PROVE AllWritten'
  <2>1. /\ pc[r] = "update" /\ OthersGoOn(r) /\ Over(r)
        /\ \A d \in Conversations :
              conversations'[d].lastMessage = conversations[d].lastMessage
        /\ UNCHANGED <<created, messages, behind>>
    BY <1>11, UpdateConversationEffect DEF Changed
  <2>2. ASSUME NEW d \in 1 .. created PROVE Untouched(d)
    <3>1. d \in Conversations
      BY SupportAssumption DEF TypeOK, Conversations
    <3> QED
      BY <2>1, <3>1 DEF OthersGoOn, Over, IsWriter, Untouched
  <2> QED
    BY <2>1, <2>2, UntouchedWritten DEF AllWritten
<1>12. CASE (\E r \in Requests : CallFails(r)) \/ Restart
  <2>1. /\ behind \subseteq behind' /\ UNCHANGED store
        /\ \A q \in Requests : Over(q) \/ (pc'[q] = pc[q] /\ req'[q] = req[q])
        /\ \A q \in HalfWritten : Over(q) => req[q].conversation \in behind'
    BY <1>12, FailureEffect
  <2>2. ASSUME NEW d \in 1 .. created PROVE Written(d)'
    <3>1. Written(d)
      BY DEF AllWritten
    <3>2. CASE \E q \in Requests : IsWriter(q, d) /\ Over(q)
      <4>1. PICK q \in Requests : IsWriter(q, d) /\ Over(q)
        BY <3>2
      <4>2. CASE d \in behind'
        BY <4>2 DEF Written
      <4>3. CASE d \notin behind'
        <5>1. pc[q] \in {"send", "reply"}
          BY <2>1, <4>1, <4>3 DEF HalfWritten, IsWriter
        <5>2. Newest(d, conversations[d].lastMessage)
          BY <2>1, <3>1, <4>1, <4>3, <5>1 DEF Written
        <5>3. \A p \in Requests : ~IsWriter(p, d)'
          BY <2>1, <3>1, <4>1, <4>3 DEF Written, IsWriter, Over
        <5> QED
          BY <2>1, <5>2, <5>3 DEF store, Written, Newest
      <4> QED
        BY <4>2, <4>3
    <3>3. CASE \A q \in Requests : ~(IsWriter(q, d) /\ Over(q))
      <4>1. Untouched(d)
        BY <2>1, <3>3 DEF Over, IsWriter, store, Untouched
      <4> QED
        BY <3>1, <4>1, UntouchedWritten
    <3> QED
      BY <3>2, <3>3
  <2> QED
    BY <2>1, <2>2 DEF store, AllWritten
<1>13. CASE UNCHANGED vars
  <2>1. \A d \in 1 .. created : Untouched(d)
    BY <1>13 DEF vars, store, requests, history, IsWriter, Untouched
  <2> QED
    BY <1>13, <2>1, UntouchedWritten DEF vars, store, AllWritten
<1> QED
  BY <1>1, <1>2, <1>3, <1>4, <1>5, <1>6, <1>7, <1>8, <1>9, <1>10, <1>11, <1>12,
     <1>13, Kinds

-----------------------------------------------------------------------------
(* The inductive invariant.                                                *)

IInv ==
    /\ TypeOK /\ Staged /\ Stamped
    /\ NewDecided /\ RepliesRead /\ DecisionStands
    /\ Senders /\ MessagesFromParties
    /\ AllWritten

\* There are no conversations at first.
LEMMA InitIInv ==
    ASSUME Init
    PROVE  IInv
<1>1. TypeOK
  <2>1. Opened(NoOne, 0) \in Conversation /\ Idle \in Request /\ "idle" \in Stages
    BY DEF Opened, Conversation, Statuses, Idle, Request, Stages
  <2>2. "open" \in Statuses /\ 0 \in 0 .. MaxConversations /\ 0 \in 0 .. MaxMessages
        /\ 0 \in 0 .. MaxFaults
    BY SupportAssumption DEF Statuses
  <2> QED
    BY <2>1, <2>2 DEF Init, TypeOK
<1>2. Staged /\ Stamped
  BY IdleFields DEF Init, Staged, Stamped
<1>3. NewDecided /\ RepliesRead /\ DecisionStands
  BY DEF Init, Opened, NewDecided, RepliesRead, DecisionStands
<1>4. Senders /\ MessagesFromParties /\ AllWritten
  BY DEF Init, Senders, MessagesFromParties, AllWritten
<1> QED
  BY <1>1, <1>2, <1>3, <1>4 DEF IInv

\* Every step keeps it.
LEMMA NextIInv ==
    ASSUME IInv, [Next]_vars
    PROVE  IInv'
<1>1. TypeOK' /\ Staged' /\ Stamped'
  BY TypesStep, StagedStep, StampedStep DEF IInv
<1>2. NewDecided' /\ RepliesRead' /\ DecisionStands'
  BY NewDecidedStep, DecisionsStep DEF IInv
<1>3. Senders' /\ MessagesFromParties' /\ AllWritten'
  BY PartiesStep, WrittenStep DEF IInv
<1> QED
  BY <1>1, <1>2, <1>3 DEF IInv

\* The strengthening holds in every state.
THEOREM Inductive == Spec => []IInv
<1>1. Init => IInv
  BY InitIInv
<1>2. IInv /\ [Next]_vars => IInv'
  BY NextIInv
<1> QED
  BY <1>1, <1>2, PTL DEF Spec

-----------------------------------------------------------------------------
(* The results.                                                            *)

\* Conversations, messages and requests stay in their ranges, whatever
\* handlers run together, fail or are cut off by a restart.
THEOREM SupportTypes == Spec => []TypeOK
<1>1. IInv => TypeOK
  BY DEF IInv
<1> QED
  BY <1>1, Inductive, PTL

\* The status that customer or staff chose last stands, or an open one became
\* pending, unless a reply was under way when it was chosen.
THEOREM DecisionsStand == Spec => []DecisionStands
<1>1. IInv => DecisionStands
  BY DEF IInv
<1> QED
  BY <1>1, Inductive, PTL

\* Only the owner, administrators and agents a conversation was assigned to
\* have messages in it.
THEOREM OnlyPartiesWrite == Spec => []MessagesFromParties
<1>1. IInv => MessagesFromParties
  BY DEF IInv
<1> QED
  BY <1>1, Inductive, PTL

\* Without overlaps and failures "last_message_at" is the time of the newest
\* message.
THEOREM NewestIsShown == Spec => []LastMessageShown
<1>1. IInv => LastMessageShown
  <2> SUFFICES ASSUME AllWritten, NEW c \in 1 .. created, c \notin behind, Writers(c) = {}
               PROVE  \E m \in MessagesOf(c) :
                         /\ m.at = conversations[c].lastMessage
                         /\ \A n \in MessagesOf(c) : n.at <= m.at
    BY DEF IInv, LastMessageShown
  <2>1. \A r \in Requests : ~IsWriter(r, c)
    BY DEF Writers, IsWriter
  <2>2. Newest(c, conversations[c].lastMessage)
    BY <2>1 DEF AllWritten, Written
  <2> QED
    BY <2>2 DEF Newest, MessagesOf
<1> QED
  BY <1>1, Inductive, PTL

-----------------------------------------------------------------------------
(* What the exceptions are worth: where no two requests work on one        *)
(* conversation at the same time, there are none.                          *)

Apart ==
    \A r, q \in Requests :
        /\ pc[r] /= "idle" /\ pc[q] /= "idle"
        /\ req[r].conversation \in 1 .. created
        /\ req[r].conversation = req[q].conversation
        => r = q

\* No choice overlaps a reply.
LEMMA ApartChoices ==
    ASSUME IInv, Apart, overlapped = {}, [Next]_vars
    PROVE  overlapped' = {}
<1> USE DEF IInv
<1>1. ASSUME NEW r \in Requests, NEW status,
             pc[r] \in {"close", "update"}, Decide(req[r].conversation, status)
      PROVE  overlapped' = {}
  <2>1. req[r].conversation \in 1 .. created
    BY <1>1 DEF Staged
  <2>2. Replies(req[r].conversation) = {}
    BY <1>1, <2>1 DEF Replies, Apart
  <2> QED
    BY <1>1, <2>2 DEF Decide
<1>2. ASSUME NEW r \in Requests, RequestStep(r) PROVE overlapped' = {}
  <2>1. CASE CloseConversation(r)
    BY <1>1, <2>1 DEF CloseConversation
  <2>2. CASE UpdateConversation(r)
    BY <1>1, <2>2 DEF UpdateConversation, UpdateStatus
  <2> QED
    BY <1>2, <2>1, <2>2
    DEF RequestStep, InsertConversation, InsertFirstMessage, InsertSentMessage,
        TouchConversation, InsertReply, SetPending, CallFails, InsertMessage, history
<1>3. ASSUME NEW r \in Requests, NEW who \in People, Arrival(r, who)
      PROVE  overlapped' = {}
  BY <1>3
  DEF Arrival, CreateSupportConversation, SendSupportMessage,
      CloseSupportConversation, SendAdminSupportReply,
      UpdateSupportConversationByAdmin, history
<1>4. CASE Restart
  BY <1>4 DEF Restart
<1>5. CASE UNCHANGED vars
  BY <1>5 DEF vars, history
<1> QED
  BY <1>2, <1>3, <1>4, <1>5 DEF Next

\* No message overlaps another, and none is left half written.
LEMMA ApartMessages ==
    ASSUME IInv, Apart', faults' = 0, behind = {}, [Next]_vars
    PROVE  behind' = {}
<1>0. faults \in Nat
  BY DEF IInv, TypeOK
<1>1. ASSUME NEW r \in Requests, NEW c \in 1 .. created, NEW who, NEW status,
             NEW stage \in {"send", "reply"},
             StartMessage(r, stage, c, who, status), MessageOverlaps(c),
             created' = created
      PROVE  behind' = {}
  <2>1. /\ pc[r] = "idle" /\ pc'[r] = stage /\ req'[r].conversation = c
        /\ \A q \in Requests \ {r} : pc'[q] = pc[q] /\ req'[q] = req[q]
    BY <1>1 DEF StartMessage, Start, IInv, TypeOK
  <2>2. ASSUME NEW q \in Writers(c) PROVE FALSE
    <3>1. /\ q \in Requests /\ pc[q] /= "idle" /\ req[q].conversation = c /\ q /= r
      BY <2>1 DEF Writers
    <3>2. pc'[q] /= "idle" /\ req'[q].conversation = c
      BY <2>1, <3>1
    <3> QED
      BY <1>1, <2>1, <3>1, <3>2 DEF Apart
  <2> QED
    BY <1>1, <2>2 DEF MessageOverlaps
<1>2. ASSUME NEW r \in Requests, RequestStep(r) PROVE behind' = {}
  <2>1. ~CallFails(r)
    BY <1>0 DEF CallFails
  <2> QED
    BY <1>2, <2>1
    DEF RequestStep, InsertConversation, InsertFirstMessage, InsertSentMessage,
        TouchConversation, CloseConversation, InsertReply, SetPending,
        UpdateConversation, InsertMessage, history
<1>3. ASSUME NEW r \in Requests, NEW who \in People, Arrival(r, who)
      PROVE  behind' = {}
  <2>1. ASSUME NEW c \in 1 .. created,
               SendSupportMessage(r, c, who) \/ SendAdminSupportReply(r, c, who)
        PROVE  behind' = {}
    BY <1>1, <2>1 DEF SendSupportMessage, SendAdminSupportReply, store
  <2> QED
    BY <1>3, <2>1
    DEF Arrival, CreateSupportConversation, CloseSupportConversation,
        UpdateSupportConversationByAdmin, history
<1>4. ~Restart
  BY <1>0 DEF Restart
<1>5. CASE UNCHANGED vars
  BY <1>5 DEF vars, history
<1> QED
  BY <1>2, <1>3, <1>4, <1>5 DEF Next

\* Where requests on one conversation come one after the other, the status is
\* always the one chosen last, whatever fails and however often the server starts
\* again (CloseSupportConversation, UpdateSupportConversationByAdmin).
THEOREM ApartDecisionsStand ==
    Spec /\ []Apart =>
        [](\A c \in Conversations :
              \/ conversations[c].status = decided[c]
              \/ conversations[c].status = "pending" /\ decided[c] = "open")
<1> DEFINE Stands ==
        \A c \in Conversations :
            \/ conversations[c].status = decided[c]
            \/ conversations[c].status = "pending" /\ decided[c] = "open"
           NoOverlap == overlapped = {}
<1>1. Init => NoOverlap
  BY DEF Init
<1>2. IInv /\ Apart /\ NoOverlap /\ [Next]_vars => NoOverlap'
  BY ApartChoices
<1>3. IInv /\ NoOverlap => Stands
  BY DEF IInv, DecisionStands
<1> HIDE DEF Stands, NoOverlap
<1>4. Spec /\ []Apart => []Stands
  BY <1>1, <1>2, <1>3, Inductive, PTL DEF Spec
<1> QED
  BY <1>4 DEF Stands

\* Where they come one after the other and nothing fails, "last_message_at" is
\* the time of the newest message whenever none is being written.
THEOREM ApartNewestIsShown ==
    Spec /\ []Apart /\ [](faults = 0) =>
        [](\A c \in 1 .. created : Writers(c) = {} =>
              \E m \in MessagesOf(c) :
                  /\ m.at = conversations[c].lastMessage
                  /\ \A n \in MessagesOf(c) : n.at <= m.at)
<1> DEFINE Shown ==
        \A c \in 1 .. created : Writers(c) = {} =>
            \E m \in MessagesOf(c) :
                /\ m.at = conversations[c].lastMessage
                /\ \A n \in MessagesOf(c) : n.at <= m.at
           NoFault == faults = 0
           NotBehind == behind = {}
<1>1. Init => NotBehind
  BY DEF Init
<1>2. IInv /\ Apart' /\ NoFault' /\ NotBehind /\ [Next]_vars => NotBehind'
  BY ApartMessages
<1>3. LastMessageShown /\ NotBehind => Shown
  BY DEF LastMessageShown
<1> HIDE DEF Shown, NoFault, NotBehind
<1>4. Spec /\ []Apart /\ []NoFault => []Shown
  BY <1>1, <1>2, <1>3, Inductive, NewestIsShown, PTL DEF Spec
<1> QED
  BY <1>4 DEF Shown, NoFault
=============================================================================
