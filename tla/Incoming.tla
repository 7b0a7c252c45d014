------------------------------ MODULE Incoming ------------------------------
(***************************************************************************)
(* Messages and read receipts on their way from whatsmeow to the queue     *)
(* service: classified and published by the manager (extractMessagePayload *)
(* and the event handler in manager.go, context_info.go), converted and    *)
(* given to the table of RenrDelivery, or to the service itself, by the    *)
(* Renr plugin (incoming.go, read_receipt.go, media.go).                   *)
(*                                                                         *)
(* A message may come live, as part of a history sync, or both.  Three     *)
(* goroutines of the plugin handle the three topics.  A message is what    *)
(* classification and conversion tell apart; the table, the service and    *)
(* the media store are kept as far as it takes to say what becomes of it.  *)
(***************************************************************************)
EXTENDS Naturals, Sequences, FiniteSets

CONSTANTS
    Msg, Receipt,
    Name,           \* file names that senders give their documents
    None,
    Contents,       \* what the messages may hold
    Info,           \* of each message, who sent it and how it is addressed
    Batches,        \* messages that may come in one history sync
    KeyOf,          \* key of each receipt: its time and chat
    Read,           \* receipts of type read; others tell of delivery
    Confs,          \* configurations
    MaxEvents,      \* bound: events of whatsmeow
    MaxFaults       \* bound: SQL errors, failing POSTs, crashes

Item == Msg \cup Receipt

\* The order in which extractMessagePayload looks for content.  A protocol
\* message is a revoke or another one; "other" is content it has no name for.
Fields == <<"text", "image", "document", "video", "audio", "sticker", "contact",
            "contacts", "location", "live_location", "reaction", "revoke",
            "protocol", "poll", "poll_vote", "poll_result", "newsletter_admin_invite",
            "newsletter_follower_invite", "sender_key_distribution">>

Media == {"image", "document", "video", "audio", "sticker"}

\* What the converter knows: a body has the type of its content.
Known == Media \cup {"text", "contact", "contacts", "location", "live_location",
                     "reaction", "revoke", "poll", "poll_vote"}

\* Protocol messages other than revoke, and keys, which no user sees.
Noise == {"protocol", "sender_key_distribution"}

Field == {Fields[i] : i \in 1..Len(Fields)} \cup {"other"}

\* Kinds that extractContextInfo looks at.
Carriers == Media \cup {"text", "contact", "contacts", "location", "live_location",
                        "poll", "other"}

\* A message has one content; a key may come with it.  No fields: no content.
Content ==
    {c \in [wraps : Nat, fields : SUBSET Field, quote : {"none", "other", "me", "me_lid"}] :
        /\ \A f, g \in c.fields \ {"sender_key_distribution"} : f = g
        /\ c.quote # "none" => c.fields \cap Carriers # {}}

\* Sent by this account, by the other side of a chat, or by a group member; a
\* key in a history names the participant of groups.
Sender == {"me", "chat", "member"}

\* Is the sender named by a LID, and does whatsmeow know the number of it?
Source ==
    [from : Sender, participant : BOOLEAN, lid : BOOLEAN, mapped : BOOLEAN,
     name : Name \cup {None}]

ASSUME Types ==
    /\ None \notin Msg \cup Receipt \cup Name \cup Sender
    /\ Msg \cap Receipt = {} /\ Msg \cap Name = {}
    /\ Contents \subseteq [Msg -> Content]
    /\ Info \in [Msg -> Source]
    /\ \A m \in Msg : /\ Info[m].from = "member" => Info[m].participant
                      /\ Info[m].from = "chat" => ~Info[m].participant
    /\ Batches \subseteq Seq(Msg) \ {<<>>}
    /\ \A r \in Receipt : KeyOf[r] \notin Msg
    /\ Read \subseteq Receipt
    /\ Confs \subseteq [persistent : BOOLEAN, s3 : BOOLEAN, numeric : BOOLEAN]
    /\ MaxEvents \in Nat /\ MaxFaults \in Nat

VARIABLES
    conf,           \* persistence on, S3 on, device ID a number
    content,        \* what each message holds
    bus,            \* events the bus holds
    todo,           \* what each goroutine has of its event, in order
    pc,             \* where each goroutine is: next, store, direct, nil
    cur,            \* the body it has converted
    files,          \* the media store: whose data is under each key
    row,            \* the table, by key
    given,          \* bodies the queue service took, and from where
    came,           \* history: messages and receipts of the events
    panics,         \* dereferences of the missing delivery service
    spent           \* events and faults used up, against the bounds

plugin  == <<todo, pc, cur>>
outside == <<files, row, given, panics>>
vars    == <<conf, content, bus, came, plugin, outside, spent>>

\* A goroutine per topic: message.received, message.history.synced, message.read.
Topic == {"live", "history", "read"}

Key(x) == IF x \in Msg THEN x ELSE KeyOf[x]

Keys == {Key(x) : x \in Item}

\* Variant: every file of a sender who gives names has such a name.
FileOf_Named(m, via) ==
    IF Info[m].name # None THEN <<Info[m].name, "document">> ELSE <<m, via>>

\* A document keeps its name, also among files of other messages; other files
\* are named for the message and its time, which differs in a history.
FileOf(m, via) ==
    IF "document" \in content[m].fields /\ Info[m].name # None
    THEN <<Info[m].name, "document">>
    ELSE <<m, via>>

FileKey == (Name \X {"document"}) \cup (Msg \X {"live", "history"})

Kind == Field \cup {"unknown", "read", "delivered"}

\* What the manager publishes of a message or a receipt; a body has the same.
Payload ==
    [item : Item, ev : Nat \X Nat, via : {"live", "history", "read"}, type : Kind,
     from : Sender \cup {None}, phone : BOOLEAN, ms : BOOLEAN,
     quoted : {"none", "other", "me", "me_lid"}, file : FileKey \cup {None}]

ASSUME NothingIsNone == None \notin Kind \cup Payload

Fault(kind) ==
    /\ spent.db + spent.api + spent.crash < MaxFaults
    /\ spent' = [spent EXCEPT ![kind] = @ + 1]

Init ==
    /\ conf \in Confs
    /\ content \in Contents
    /\ bus = {}
    /\ todo = [t \in Topic |-> <<>>]
    /\ pc = [t \in Topic |-> "next"]
    /\ cur = [t \in Topic |-> None]
    /\ files = [k \in FileKey |-> None]
    /\ row = [k \in Keys |-> None]
    /\ given = {} /\ came = {}
    /\ panics = 0
    /\ spent = [event |-> 0, db |-> 0, api |-> 0, crash |-> 0]

-----------------------------------------------------------------------------
\* The manager: classification of what whatsmeow delivers.

MaxUnwrap == 8

\* Variant: a single container.
unwrap_Once(c) == IF c.wraps <= 1 THEN c.fields ELSE {"other"}

\* Beyond eight containers the message is still one, and nothing known.
unwrap(c) == IF c.wraps <= MaxUnwrap THEN c.fields ELSE {"other"}

\* The first field in the order that is there.
classify(fields) ==
    IF \E i \in 1..Len(Fields) : Fields[i] \in fields
    THEN Fields[CHOOSE i \in 1..Len(Fields) :
                    /\ Fields[i] \in fields
                    /\ \A j \in 1..(i-1) : Fields[j] \notin fields]
    ELSE "unknown"

extractContextInfo(c) == unwrap(c) \cap Carriers # {} /\ c.wraps <= MaxUnwrap

\* from_me compares with the account's own JID, which is never a LID.
buildQuotedMessage(c) ==
    IF ~extractContextInfo(c) THEN "none"
    ELSE IF c.quote = "me_lid" THEN "other" ELSE c.quote

\* The media could be had from WhatsApp, or not.
downloadMedia(kind, m, via, succeeds) ==
    IF kind \in Media /\ succeeds THEN FileOf(m, via) ELSE None

\* In a history the sender is who the key names, or else the chat: that the key
\* says whether the message is this account's own is not looked at, nor is the
\* number of a LID, and its time in seconds is taken for milliseconds.  Without
\* content the sender is missing, but for a number looked up.
extractMessagePayload(m, via, ev, downloads) ==
    LET c == content[m]  s == Info[m]
        found == via = "live" /\ s.lid /\ s.mapped
        kind  == classify(unwrap(c))
    IN  [item   |-> m,
         ev     |-> ev,
         via    |-> via,
         type   |-> kind,
         from   |-> IF found THEN s.from
                    ELSE IF c.fields = {} THEN None
                    ELSE IF via = "live" \/ s.participant THEN s.from
                    ELSE "chat",
         phone  |-> found \/ (c.fields # {} /\ ~s.lid),
         ms     |-> via = "live",
         quoted |-> buildQuotedMessage(c),
         file   |-> downloadMedia(kind, m, via, downloads)]

MessageReadEvent(r, ev) ==
    [item |-> r, ev |-> ev, via |-> "read",
     type |-> IF r \in Read THEN "read" ELSE "delivered",
     from |-> None, phone |-> TRUE, ms |-> TRUE, quoted |-> "none", file |-> None]

publishEvent(topic, work) ==
    /\ spent.event < MaxEvents
    /\ bus' = bus \cup {[topic |-> topic, work |-> work]}
    /\ came' = came \cup {work[i].item : i \in 1..Len(work)}
    /\ spent' = [spent EXCEPT !.event = @ + 1]
    /\ UNCHANGED <<conf, content, plugin, outside>>

\* events.Message.  That the message is cached as well is in MessageCache.
MessageReceived(m) ==
    \E downloads \in BOOLEAN :
        publishEvent("live", <<extractMessagePayload(m, "live", <<spent.event, 1>>, downloads)>>)

\* Entries without content or key are left out; a sync of none is not published.
handleHistorySync(batch) ==
    /\ \A i \in 1..Len(batch) : content[batch[i]].fields # {}
    /\ \E downloads \in BOOLEAN :
          publishEvent("history",
              [i \in 1..Len(batch) |->
                  extractMessagePayload(batch[i], "history", <<spent.event, i>>, downloads)])

\* events.Receipt.
ReceiptReceived(r) == publishEvent("read", <<MessageReadEvent(r, <<spent.event, 1>>)>>)

-----------------------------------------------------------------------------
\* The plugin.

\* subscribeToEvent: the bus keeps no order.
Take(e) ==
    /\ e \in bus /\ todo[e.topic] = <<>>
    /\ bus' = bus \ {e}
    /\ todo' = [todo EXCEPT ![e.topic] = e.work]
    /\ UNCHANGED <<conf, content, came, pc, cur, outside, spent>>

\* On to the next message of the event.
Finish(t) ==
    /\ todo' = [todo EXCEPT ![t] = Tail(@)]
    /\ pc' = [pc EXCEPT ![t] = "next"]
    /\ cur' = [cur EXCEPT ![t] = None]

\* What the body of a message has for a type; None: no body.
bodyType(type) ==
    IF type \in Noise \cup {"delivered"} THEN None
    ELSE IF type \in Known \cup {"read"} THEN type
    ELSE "unknown"

\* uploadMediaToS3: the body goes without the file when that fails, which it may
\* also seem to do.
Upload(p, file) ==
    \/ file = None /\ UNCHANGED files
    \/ /\ conf.s3 /\ p.file # None /\ file \in {p.file, None}
       /\ files' = [files EXCEPT ![p.file] = p.item]

\* Where a body goes.
Onward(t) ==
    IF conf.persistent THEN "store" ELSE IF t = "read" THEN "nil" ELSE "direct"

convertToQueueChatMessage(t) ==
    /\ pc[t] = "next" /\ todo[t] # <<>>
    /\ LET p == Head(todo[t])  type == bodyType(p.type)
       IN  \/ /\ ~conf.numeric \/ type = None
              /\ Finish(t) /\ UNCHANGED files
           \/ /\ conf.numeric /\ type # None
              /\ \E file \in {p.file, None} :
                    /\ Upload(p, file)
                    /\ cur' = [cur EXCEPT ![t] = [p EXCEPT !.type = type, !.file = file]]
              /\ pc' = [pc EXCEPT ![t] = Onward(t)]
              /\ UNCHANGED todo
    /\ UNCHANGED <<conf, content, bus, came, row, given, panics, spent>>

\* Variant: the fallback is for nothing but a missing table.
Enqueue_Drops(t) ==
    /\ pc[t] = "store"
    /\ \/ /\ LET k == Key(cur[t].item)
             IN  row' = [row EXCEPT ![k] = IF @ = None THEN cur[t] ELSE @]
          /\ UNCHANGED spent
       \/ Fault("db") /\ UNCHANGED row
    /\ Finish(t)
    /\ UNCHANGED <<conf, content, bus, came, files, given, panics>>

\* Variant: ON CONFLICT DO UPDATE.
Enqueue_Replaces(t) ==
    /\ pc[t] = "store"
    /\ row' = [row EXCEPT ![Key(cur[t].item)] = cur[t]]
    /\ Finish(t)
    /\ UNCHANGED <<conf, content, bus, came, files, given, panics, spent>>

\* deliveryService.Enqueue: the first body of a key stays, until its row goes.
\* A receipt that cannot be stored is dropped; other bodies are sent at once.
Enqueue(t) ==
    /\ pc[t] = "store"
    /\ \/ /\ LET k == Key(cur[t].item)
             IN  row' = [row EXCEPT ![k] = IF @ = None THEN cur[t] ELSE @]
          /\ Finish(t)
          /\ UNCHANGED spent
       \/ /\ Fault("db")
          /\ IF t = "read" THEN Finish(t)
             ELSE pc' = [pc EXCEPT ![t] = "direct"] /\ UNCHANGED <<todo, cur>>
          /\ UNCHANGED row
    /\ UNCHANGED <<conf, content, bus, came, files, given, panics>>

\* queueClient.Enqueue, tried once; the service may take a body and the reply fail.
DirectEnqueue(t) ==
    /\ pc[t] = "direct"
    /\ \/ given' = given \cup {[body |-> cur[t], direct |-> TRUE]}
          /\ (UNCHANGED spent \/ Fault("api"))
       \/ Fault("api") /\ UNCHANGED given
    /\ Finish(t)
    /\ UNCHANGED <<conf, content, bus, came, files, row, panics>>

-----------------------------------------------------------------------------
\* RenrDelivery: a row is handed over, and deleted once it was; one that is given
\* up stays in the table.

Stored(k) == [body |-> row[k], direct |-> FALSE]

Deliver(k) ==
    /\ row[k] # None
    /\ given' = given \cup {Stored(k)}
    /\ UNCHANGED <<conf, content, bus, plugin, files, row, came, panics, spent>>

\* The delete of MarkAsSuccess.  It may fail, and the process may end before it.
MarkSuccess(k) ==
    /\ row[k] # None /\ Stored(k) \in given
    /\ row' = [row EXCEPT ![k] = None]
    /\ UNCHANGED <<conf, content, bus, plugin, files, given, came, panics, spent>>

-----------------------------------------------------------------------------
\* The bus and the goroutines are gone; the process starts again.
Restart ==
    /\ bus' = {}
    /\ todo' = [t \in Topic |-> <<>>]
    /\ pc' = [t \in Topic |-> "next"]
    /\ cur' = [t \in Topic |-> None]
    /\ UNCHANGED <<conf, content, files, row, given, came>>

Crash == Fault("crash") /\ Restart /\ UNCHANGED panics

\* handleMessageRead without persistence calls a method of nil.
Panic ==
    /\ pc["read"] = "nil"
    /\ panics' = panics + 1
    /\ Restart
    /\ UNCHANGED spent

Next ==
    \/ \E m \in Msg : MessageReceived(m)
    \/ \E b \in Batches : handleHistorySync(b)
    \/ \E r \in Receipt : ReceiptReceived(r)
    \/ \E e \in bus : Take(e)
    \/ \E t \in Topic :
          convertToQueueChatMessage(t) \/ Enqueue(t) \/ DirectEnqueue(t)
    \/ \E k \in Keys : Deliver(k) \/ MarkSuccess(k)
    \/ Crash
    \/ Panic

Spec == Init /\ [][Next]_vars

-----------------------------------------------------------------------------
\* Properties.

\* Content that a user sees and the converter knows.
Seen(c) == IF c.wraps <= MaxUnwrap THEN c.fields \cap Known ELSE {}

\* Everything but what no user sees, of devices whose ID is a number.  Content
\* without a name here is taken for the key that comes with it.
Wanted(x) ==
    /\ conf.numeric
    /\ IF x \in Msg
       THEN LET c == content[x]
            IN  \/ c.wraps > MaxUnwrap \/ c.fields = {}
                \/ \E f \in c.fields \ Noise :
                      f # "other" \/ "sender_key_distribution" \notin c.fields
       ELSE x \in Read

Underway(x) ==
    \/ \E e \in bus : \E i \in 1..Len(e.work) : e.work[i].item = x
    \/ \E t \in Topic : \E i \in 1..Len(todo[t]) : todo[t][i].item = x

InTable == {row[k] : k \in {j \in Keys : row[j] # None}}

Bodies == InTable \cup {g.body : g \in given}

\* What may keep an event from the table and the service: a crash; for a message
\* a failing POST, where there is no table or it failed as well; for a receipt a
\* table that failed, or another receipt of its key.
LostForCause(x) ==
    \/ spent.crash + panics > 0
    \/ x \in Msg /\ spent.api > 0 /\ (spent.db > 0 \/ ~conf.persistent)
    \/ x \in Receipt /\ (spent.db > 0 \/ \E y \in came \ {x} : Key(y) = Key(x))

\* Whatever is wanted of what came is in the table or with the service once it
\* has been handled, or was lost for cause; nothing else is there; and no event
\* is both sent directly and stored.
HandedOver ==
    /\ \A x \in came : Wanted(x) /\ ~Underway(x) =>
          (\E b \in Bodies : b.item = x) \/ LostForCause(x)
    /\ \A b \in Bodies : Wanted(b.item)
    /\ \A g \in given : g.direct => \A b \in InTable : b.ev # g.body.ev
    /\ \A g, h \in given : g.body.ev = h.body.ev => g = h

\* A body says what its message holds and who sent it: its type is that of the
\* content, however wrapped and whatever key comes with it; a reply keeps its
\* quote; the sender is right but for this account's own messages in a history,
\* and quotes of this account but for its LID.
BodyIsRight ==
    \A b \in Bodies : b.item \in Msg =>
        LET c == content[b.item]  s == Info[b.item]
        IN  /\ \A f \in Seen(c) : b.type = f
            /\ Seen(c) = {} => b.type = "unknown"
            /\ \/ b.from = s.from
               \/ b.via = "history" /\ s.from = "me" /\ ~s.participant
               \/ b.via = "live" /\ c.fields = {}
            /\ s.lid /\ s.mapped => b.phone \/ b.via = "history"
            /\ c.wraps <= MaxUnwrap =>
                  b.quoted = c.quote \/ (c.quote = "me_lid" /\ b.quoted = "other")

\* The file that a body names is that of its message, unless it is a document
\* and another document of the same name was uploaded.
FilesAreOwn ==
    \A b \in Bodies : b.file # None =>
        \/ files[b.file] = b.item
        \/ /\ files[b.file] \in came \ {b.item}
           /\ b.type = "document"
           /\ Info[files[b.file]].name = Info[b.item].name

\* By key, the table is an outbox for the bodies put in it: the one that is there
\* stays until it was handed over, whatever comes with its key, and a body that
\* takes its place later is handed over in its turn, not taken for the first.
Outbox == INSTANCE Outbox WITH
    Msg    <- Keys,
    stored <- {k \in Keys : row[k] # None},
    handed <- {k \in Keys : row[k] # None /\ Stored(k) \in given}
OutboxSpec == Outbox!Spec
=============================================================================
