---------------------------- MODULE MessageCache ----------------------------
(***************************************************************************)
(* The cache of recent messages (message_cache.go) and the replies that    *)
(* quote from it (reply_context.go): a bounded map with FIFO eviction and  *)
(* a lifetime, filled by the event handler of each client and after every  *)
(* successful send, and read by concurrent calls of the Send methods.      *)
(*                                                                         *)
(* A key stands for (device, chat without its device part, message id);    *)
(* calls with an empty id, which do nothing, are left out.  A message is   *)
(* its body, the number of quotes nested in it, and whether its kind is    *)
(* one of the eleven trimForQuote lists.  A JID is whom it names and its   *)
(* server: phone number, LID or group.                                     *)
(***************************************************************************)
EXTENDS Naturals, Sequences

CONSTANTS
    Key,        \* cache keys
    ChatOf,     \* the chat of each key
    SendersOf,  \* who may have sent the message of each key
    Person,     \* whom user JIDs name
    Group,      \* whom group JIDs name
    Mapped,     \* persons whose other JID GetAltJID finds
    Hint,       \* the participants callers supply; NoJid is none, or unusable
    Own,        \* the JID of the device
    Caller,     \* concurrent calls of the Send methods
    Incoming,   \* messages that may be received
    Body,       \* what messages say
    Empty,      \* the body of the stub
    Max,        \* capacity
    TTL,        \* lifetime
    MaxTime     \* bound: the clock stops here

UserJid  == [who : Person, server : {"pn", "lid"}]
GroupJid == [who : Group, server : {"group"}]
Jid      == UserJid \cup GroupJid
NoJid    == [who |-> "", server |-> ""]

Content == [body : Body, listed : BOOLEAN, depth : Nat]
Entry   == [content : Content, participant : UserJid, storedAt : Nat]
Stub    == [body |-> Empty, listed |-> TRUE, depth |-> 0]

ASSUME Types ==
    /\ ChatOf \in [Key -> Jid]
    /\ SendersOf \in [Key -> SUBSET UserJid]
    /\ Mapped \subseteq Person
    /\ Hint \subseteq Jid \cup {NoJid}
    /\ Own \in UserJid
    /\ Incoming \subseteq Content
    /\ Empty \notin Body
    /\ Max \in Nat \ {0} /\ TTL \in Nat /\ MaxTime \in Nat

VARIABLES
    now,        \* the clock
    entries,    \* the map: a function on the keys it holds
    order,      \* these keys, oldest insertion first
    reply,      \* each call: the reply it has built and not sent, or NoReply
    newer,      \* history: keys inserted after this one, counted up to Max
    latest      \* history: what was put last under each key

cache == <<entries, order, newer, latest>>
vars  == <<now, cache, reply>>

Reply   == [key : Key, hint : Jid \cup {NoJid}, participant : Jid,
            quoted : Content \cup {Stub}]
NoReply == [key |-> "", hint |-> NoJid, participant |-> NoJid, quoted |-> Stub]

-----------------------------------------------------------------------------
\* The cache.

\* Variant: the clone is returned as it is.
trimForQuote_Whole(c) == c

\* The quote nested in a message of a listed kind is stripped.
trimForQuote(c) == IF c.listed THEN [c EXCEPT !.depth = 0] ELSE c

IsNew(k) == k \notin DOMAIN entries

\* Variant: > in place of >=.
Evicted_Late(k) ==
    IF IsNew(k) /\ Len(order) > Max THEN 1..(Len(order) - Max) ELSE {}

\* The positions of order that Put frees for k.
Evicted(k) ==
    IF IsNew(k) /\ Len(order) >= Max THEN 1..(Len(order) - Max + 1) ELSE {}

\* Variant: a key that is there moves to the end.
NewOrder_Refreshed(k) ==
    Append(SelectSeq(order, LAMBDA x : x # k /\ ~\E i \in Evicted(k) : order[i] = x), k)

\* A key that is there keeps its place.
NewOrder(k) ==
    IF IsNew(k)
    THEN Append(IF Evicted(k) = {} THEN order
                ELSE SubSeq(order, Len(order) - Max + 2, Len(order)), k)
    ELSE order

NewEntry(k, c, p) ==
    [content |-> trimForQuote(c), participant |-> p, storedAt |-> now]

Put(k, c, p) ==
    LET kept == DOMAIN entries \ {order[i] : i \in Evicted(k)}
    IN  /\ order' = NewOrder(k)
        /\ entries' = [x \in kept \cup {k} |->
                          IF x = k THEN NewEntry(k, c, p) ELSE entries[x]]
        /\ newer' = [x \in Key |->
                        IF ~IsNew(k) THEN newer[x]
                        ELSE IF x = k THEN 0
                        ELSE IF newer[x] < Max THEN newer[x] + 1 ELSE Max]
        /\ latest' = [x \in DOMAIN latest \cup {k} |->
                        IF x = k
                        THEN [content |-> c, participant |-> p, storedAt |-> now]
                        ELSE latest[x]]

\* Variant: the age of an entry is not checked.
Get_Expired(k) == {entries[x] : x \in DOMAIN entries \cap {k}}

\* The entry under k that has not expired: at most one.
Get(k) == {entries[x] : x \in {y \in DOMAIN entries \cap {k} :
                                  now <= entries[y].storedAt + TTL}}

-----------------------------------------------------------------------------
\* Building a reply.

\* In a user chat, a participant whose other JID is known takes the chat's form.
normalizeAddressingMode(chat, p) ==
    IF chat.server # "group" /\ p.server # "group" /\ p.who \in Mapped
    THEN [p EXCEPT !.server = chat.server]
    ELSE p

\* Variant: the cache before the caller.
resolveReplyParticipant_CacheFirst(chat, hint, cached) ==
    normalizeAddressingMode(chat,
        IF cached # {} THEN (CHOOSE e \in cached : TRUE).participant
        ELSE IF hint # NoJid THEN hint ELSE chat)

\* The caller's participant, else the cached sender, else the chat itself.
resolveReplyParticipant(chat, hint, cached) ==
    normalizeAddressingMode(chat,
        IF hint # NoJid THEN hint
        ELSE IF cached # {} THEN (CHOOSE e \in cached : TRUE).participant
        ELSE chat)

buildOutgoingContextInfo(k, hint) ==
    LET cached == Get(k)
    IN  [key |-> k, hint |-> hint,
         participant |-> resolveReplyParticipant(ChatOf[k], hint, cached),
         quoted |-> IF cached = {} THEN Stub ELSE (CHOOSE e \in cached : TRUE).content]

-----------------------------------------------------------------------------
Init ==
    /\ now = 0
    /\ entries = [k \in {} |-> Stub]
    /\ order = <<>>
    /\ reply = [c \in Caller |-> NoReply]
    /\ newer = [k \in Key |-> Max]
    /\ latest = [k \in {} |-> Stub]

\* The event handler puts every message, again if it is delivered again.
Receive(k, c, p) ==
    /\ p \in SendersOf[k]
    /\ Put(k, c, p)
    /\ UNCHANGED <<now, reply>>

\* A Send method with a reply_message_id, cached or not.
BuildReply(s, k, hint) ==
    /\ reply[s] = NoReply
    /\ reply' = [reply EXCEPT ![s] = buildOutgoingContextInfo(k, hint)]
    /\ UNCHANGED <<now, cache>>

\* SendMessage fails, or succeeds for a device that has no JID any more.
SendUncached(s) ==
    /\ reply[s] # NoReply
    /\ reply' = [reply EXCEPT ![s] = NoReply]
    /\ UNCHANGED <<now, cache>>

\* SendMessage succeeds under a new id k; cacheSentMessage puts what was sent.
SendReply(s, k, b) ==
    /\ reply[s] # NoReply
    /\ k \notin DOMAIN latest
    /\ ChatOf[k] = ChatOf[reply[s].key]
    /\ Put(k, [body |-> b, listed |-> TRUE, depth |-> reply[s].quoted.depth + 1], Own)
    /\ reply' = [reply EXCEPT ![s] = NoReply]
    /\ UNCHANGED now

\* A send that quotes nothing.
SendPlain(k, b) ==
    /\ k \notin DOMAIN latest
    /\ Put(k, [body |-> b, listed |-> TRUE, depth |-> 0], Own)
    /\ UNCHANGED <<now, reply>>

Tick ==
    /\ now < MaxTime
    /\ now' = now + 1
    /\ UNCHANGED <<cache, reply>>

Next ==
    \/ \E k \in Key, c \in Incoming, p \in UserJid : Receive(k, c, p)
    \/ \E s \in Caller, k \in Key, hint \in Hint : BuildReply(s, k, hint)
    \/ \E s \in Caller : SendUncached(s)
    \/ \E s \in Caller, k \in Key, b \in Body : SendReply(s, k, b)
    \/ \E k \in Key, b \in Body : SendPlain(k, b)
    \/ Tick

Spec == Init /\ [][Next]_vars

-----------------------------------------------------------------------------
\* Properties.

\* Types, and the two structures agree: order lists the cached keys, each
\* once, and never more than the capacity.
TypeOK ==
    /\ now \in Nat
    /\ DOMAIN entries \subseteq Key
    /\ entries \in [DOMAIN entries -> Entry]
    /\ order \in Seq(Key) /\ Len(order) <= Max
    /\ DOMAIN entries = {order[i] : i \in 1..Len(order)}
    /\ \A i, j \in 1..Len(order) : order[i] = order[j] => i = j
    /\ reply \in [Caller -> Reply \cup {NoReply}]
    /\ newer \in [Key -> 0..Max]
    /\ DOMAIN latest \subseteq Key
    /\ latest \in [DOMAIN latest -> Entry]

\* FIFO eviction: a message is held for exactly as long as fewer than Max
\* other messages were inserted after it; to put it again changes nothing.
HeldWhileRecent == \A k \in Key : k \in DOMAIN entries <=> newer[k] < Max

\* A reply that is built quotes the newest message put under its id, or the
\* stub if that one was evicted or is too old: never a replaced version, never
\* the message of another chat or device.
QuotesLatest ==
    [][\A s \in Caller : reply[s] = NoReply /\ reply'[s] # NoReply =>
          LET k == reply'[s].key
              q == reply'[s].quoted
          IN  IF newer[k] < Max /\ now <= latest[k].storedAt + TTL
              THEN q.body = latest[k].content.body
              ELSE q = Stub]_vars

\* Quotes do not pile up: what a reply quotes carries no quote of its own,
\* unless it was received so, in a kind trimForQuote does not list.
NoQuotePileUp ==
    \A s \in Caller : reply[s].quoted.depth > 0 =>
        \E c \in Incoming : ~c.listed /\ c.depth = reply[s].quoted.depth

\* The participant of a reply is whom the caller named, or else who sent the
\* cached message, or else the chat; in a user chat it has the chat's form
\* whenever its own is known.
QuoteAttributed ==
    [][\A s \in Caller : reply[s] = NoReply /\ reply'[s] # NoReply =>
          LET r    == reply'[s]
              chat == ChatOf[r.key]
              hit  == newer[r.key] < Max /\ now <= latest[r.key].storedAt + TTL
          IN  /\ r.participant.who =
                    IF r.hint # NoJid THEN r.hint.who
                    ELSE IF hit THEN latest[r.key].participant.who
                    ELSE chat.who
              /\ r.participant.server \in {chat.server, "group"}
                    \/ chat.server = "group"
                    \/ r.participant.who \notin Mapped]_vars
=============================================================================
