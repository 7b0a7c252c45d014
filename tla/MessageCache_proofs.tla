------------------------- MODULE MessageCache_proofs -------------------------
(***************************************************************************)
(* Proofs about MessageCache, for every set of keys, every capacity and    *)
(* every lifetime.  The key step is PutOrder: what Put does to the order.  *)
(***************************************************************************)
EXTENDS MessageCache, SequenceTheorems, TLAPS

-----------------------------------------------------------------------------
\* The position of a key tells how many keys were inserted after it.
PosInv ==
    /\ \A i \in 1..Len(order) : newer[order[i]] = Len(order) - i
    /\ \A k \in Key \ DOMAIN entries : newer[k] = Max

\* An entry is the trimmed copy of what was put last under its key.
LatestInv ==
    \A k \in DOMAIN entries :
        /\ k \in DOMAIN latest
        /\ entries[k] = [content |-> trimForQuote(latest[k].content),
                         participant |-> latest[k].participant,
                         storedAt |-> latest[k].storedAt]

\* A quote nested in a cached message was received, in an unlisted kind.
DepthInv ==
    \A k \in DOMAIN entries : entries[k].content.depth > 0 =>
        \E c \in Incoming : ~c.listed /\ c.depth = entries[k].content.depth

CacheInv == TypeOK /\ PosInv /\ LatestInv

\* Trimming keeps the body and the type, and removes the quotes of listed kinds.
LEMMA TrimType ==
    ASSUME NEW c \in Content
    PROVE  /\ trimForQuote(c) \in Content
           /\ trimForQuote(c).body = c.body
           /\ trimForQuote(c).depth > 0 => ~c.listed /\ trimForQuote(c) = c
  BY DEF trimForQuote, Content

\* A key that is there leaves the order alone; a new one is appended, and
\* takes the place of the head when the cache is full.
LEMMA PutOrder ==
    ASSUME TypeOK, NEW k \in Key
    PROVE  /\ ~IsNew(k) => NewOrder(k) = order /\ Evicted(k) = {}
           /\ IsNew(k) /\ Len(order) < Max =>
                 /\ NewOrder(k) = Append(order, k)
                 /\ Evicted(k) = {}
           /\ IsNew(k) /\ Len(order) >= Max =>
                 /\ Len(order) = Max
                 /\ NewOrder(k) \in Seq(Key) /\ Len(NewOrder(k)) = Max
                 /\ \A i \in 1..(Max - 1) : NewOrder(k)[i] = order[i + 1]
                 /\ NewOrder(k)[Max] = k
                 /\ Evicted(k) = {1}
<1> USE Types
<1>1. CASE ~IsNew(k)
  BY <1>1 DEF NewOrder, Evicted
<1>2. CASE IsNew(k) /\ Len(order) < Max
  BY <1>2 DEF NewOrder, Evicted, TypeOK
<1>3. CASE IsNew(k) /\ Len(order) >= Max
  <2>1. Len(order) = Max
    BY <1>3 DEF TypeOK
  <2>2. Evicted(k) = {1}
    BY <1>3, <2>1 DEF Evicted
  <2> DEFINE tail == SubSeq(order, 2, Max)
  <2>3. NewOrder(k) = Append(tail, k)
    BY <1>3, <2>1, <2>2 DEF NewOrder
  <2>4. /\ tail \in Seq(Key)
        /\ Len(tail) = Max - 1
        /\ \A i \in 1..(Max - 1) : tail[i] = order[i + 1]
    <3>1. \A i \in 2..Max : order[i] \in Key
      BY <2>1 DEF TypeOK
    <3>2. /\ tail \in Seq(Key)
          /\ Len(tail) = (IF 2 <= Max THEN Max - 2 + 1 ELSE 0)
          /\ \A i \in 1..(Max - 2 + 1) : tail[i] = order[2 + i - 1]
      BY <3>1, SubSeqProperties
    <3>3. QED
      BY <3>2
  <2>5. QED
    BY <1>3, <2>1, <2>2, <2>3, <2>4
<1>4. QED
  BY <1>1, <1>2, <1>3 DEF TypeOK

\* What TypeOK says of the order, without the set constructor.
LEMMA OrderFacts ==
    ASSUME TypeOK
    PROVE  /\ order \in Seq(Key) /\ Len(order) \in Nat /\ Len(order) <= Max
           /\ \A i \in 1..Len(order) : order[i] \in DOMAIN entries /\ order[i] \in Key
           /\ \A x \in DOMAIN entries : \E i \in 1..Len(order) : order[i] = x
           /\ \A i, j \in 1..Len(order) : order[i] = order[j] => i = j
<1>1. DOMAIN entries = {order[i] : i \in 1..Len(order)}
  BY DEF TypeOK
<1>2. order \in Seq(Key)
  BY DEF TypeOK
<1>3. QED
  BY <1>1, <1>2 DEF TypeOK

\* What Put leaves in the map: the old keys but the evicted one, and its own.
LEMMA PutDomain ==
    ASSUME TypeOK, NEW k \in Key, NEW c, NEW p, Put(k, c, p)
    PROVE  /\ order' \in Seq(Key) /\ Len(order') <= Max
           /\ DOMAIN entries' = {order'[i] : i \in 1..Len(order')}
           /\ \A i, j \in 1..Len(order') : order'[i] = order'[j] => i = j
<1> USE Types
<1> DEFINE D == DOMAIN entries
           kept == D \ {order[i] : i \in Evicted(k)}
           E == DOMAIN entries'
<1> HIDE DEF D, E
<1>1. order' = NewOrder(k) /\ E = kept \cup {k}
  BY DEF Put, D, E
<1>2. /\ order \in Seq(Key) /\ Len(order) \in Nat /\ Len(order) <= Max
      /\ \A i \in 1..Len(order) : order[i] \in D /\ order[i] \in Key
      /\ \A x \in D : \E i \in 1..Len(order) : order[i] = x
      /\ \A i, j \in 1..Len(order) : order[i] = order[j] => i = j
  BY OrderFacts DEF D
<1>3. SUFFICES
        /\ order' \in Seq(Key) /\ Len(order') <= Max
        /\ \A i \in 1..Len(order') : order'[i] \in E
        /\ \A x \in E : \E i \in 1..Len(order') : order'[i] = x
        /\ \A i, j \in 1..Len(order') : order'[i] = order'[j] => i = j
  <2>1. \A S : (/\ \A i \in 1..Len(order') : order'[i] \in S
                /\ \A x \in S : \E i \in 1..Len(order') : order'[i] = x)
               => S = {order'[i] : i \in 1..Len(order')}
    OBVIOUS
  <2>2. QED
    BY <1>3, <2>1 DEF E
<1>4. CASE ~IsNew(k)
  <2>1. order' = order /\ E = D
    BY <1>1, <1>4, PutOrder DEF IsNew, D
  <2>2. QED
    BY <1>2, <2>1
<1>5. CASE IsNew(k) /\ Len(order) < Max
  <2>1. /\ order' = Append(order, k) /\ E = D \cup {k} /\ k \notin D
    BY <1>1, <1>5, PutOrder DEF IsNew, D
  <2>2. /\ order' \in Seq(Key) /\ Len(order') = Len(order) + 1
        /\ \A i \in 1..Len(order) : order'[i] = order[i]
        /\ order'[Len(order) + 1] = k
    BY <1>2, <2>1
  <2>3. \A i \in 1..Len(order') : i \in 1..Len(order) \/ i = Len(order) + 1
    BY <1>2, <2>2
  <2>4. 1..Len(order) \subseteq 1..Len(order') /\ Len(order) + 1 \in 1..Len(order')
    BY <1>2, <2>2
  <2>5. \A x \in E : \E i \in 1..Len(order') : order'[i] = x
    BY <1>2, <2>1, <2>2, <2>4
  <2>6. QED
    BY <1>2, <1>5, <2>1, <2>2, <2>3, <2>5
<1>6. CASE IsNew(k) /\ Len(order) >= Max
  <2>1. /\ Len(order) = Max
        /\ order' \in Seq(Key) /\ Len(order') = Max
        /\ \A i \in 1..(Max - 1) : order'[i] = order[i + 1]
        /\ order'[Max] = k
        /\ Evicted(k) = {1}
    BY <1>1, <1>6, PutOrder
  <2>2. E = (D \ {order[1]}) \cup {k} /\ k \notin D
    BY <1>1, <1>6, <2>1 DEF IsNew, D
  <2>3. \A i \in 1..Max : i = Max \/ (i \in 1..(Max - 1) /\ i + 1 \in 2..Max)
    OBVIOUS
  <2>4. \A i \in 2..Max : i - 1 \in 1..(Max - 1) /\ i - 1 \in 1..Max /\ i \in 1..Max
    OBVIOUS
  <2>5. \A i \in 2..Max : order[i] \in D /\ order[i] # order[1]
    BY <1>2, <2>1, <2>4
  <2>6. \A i \in 1..Max : order'[i] \in E
    BY <2>1, <2>2, <2>3, <2>5
  <2>7. \A x \in E : \E i \in 1..Max : order'[i] = x
    <3>1. TAKE x \in E
    <3>2. CASE x = k
      BY <2>1, <3>2
    <3>3. CASE x # k
      <4>1. x \in D /\ x # order[1]
        BY <2>2, <3>3
      <4>2. PICK i \in 1..Max : order[i] = x
        BY <1>2, <2>1, <4>1
      <4>3. i \in 2..Max
        BY <4>1, <4>2
      <4>4. order'[i - 1] = x /\ i - 1 \in 1..Max
        BY <2>1, <2>4, <4>2, <4>3
      <4>5. QED
        BY <4>4
    <3>4. QED
      BY <3>2, <3>3
  <2>8. ASSUME NEW i \in 1..Max, NEW j \in 1..Max, order'[i] = order'[j]
        PROVE  i = j
    <3>1. \A x \in 1..(Max - 1) : order'[x] = order[x + 1] /\ order[x + 1] \in D
      BY <1>2, <2>1
    <3>2. i = Max <=> j = Max
      BY <2>1, <2>2, <2>3, <2>8, <3>1
    <3>3. CASE i # Max
      <4>1. /\ order[i + 1] = order[j + 1]
            /\ i + 1 \in 1..Max /\ j + 1 \in 1..Max
        BY <2>3, <2>8, <3>1, <3>2, <3>3
      <4>2. QED
        BY <1>2, <2>1, <4>1
    <3>4. QED
      BY <3>2, <3>3
  <2>9. QED
    BY <2>1, <2>6, <2>7, <2>8
<1>7. QED
  BY <1>2, <1>4, <1>5, <1>6

\* Put keeps the types of the cache.
LEMMA PutType ==
    ASSUME TypeOK, NEW k \in Key, NEW c \in Content, NEW p \in UserJid, Put(k, c, p)
    PROVE  /\ DOMAIN entries' \subseteq Key
           /\ entries' \in [DOMAIN entries' -> Entry]
           /\ newer' \in [Key -> 0..Max]
           /\ DOMAIN latest' \subseteq Key
           /\ latest' \in [DOMAIN latest' -> Entry]
<1>1. [content |-> c, participant |-> p, storedAt |-> now] \in Entry
  BY DEF TypeOK, Entry
<1>2. NewEntry(k, c, p) \in Entry
  BY TrimType DEF TypeOK, Entry, NewEntry
<1>3. /\ DOMAIN entries' \subseteq Key
      /\ entries' \in [DOMAIN entries' -> Entry]
  BY <1>2 DEF TypeOK, Put
<1>4. newer' \in [Key -> 0..Max]
  BY Types DEF TypeOK, Put
<1>5. /\ DOMAIN latest' \subseteq Key
      /\ latest' \in [DOMAIN latest' -> Entry]
  BY <1>1 DEF TypeOK, Put
<1>6. QED
  BY <1>3, <1>4, <1>5

\* After Put, what is cached under a key is what was put last under it.
LEMMA PutLatest ==
    ASSUME TypeOK, LatestInv, NEW k \in Key, NEW c, NEW p, Put(k, c, p)
    PROVE  LatestInv'
<1>1. ASSUME NEW x \in DOMAIN entries'
      PROVE  /\ x \in DOMAIN latest'
             /\ entries'[x] = [content |-> trimForQuote(latest'[x].content),
                               participant |-> latest'[x].participant,
                               storedAt |-> latest'[x].storedAt]
  <2>1. CASE x = k
    BY <1>1, <2>1 DEF Put, NewEntry
  <2>2. CASE x # k
    BY <1>1, <2>2 DEF Put, LatestInv
  <2>3. QED
    BY <2>1, <2>2
<1>2. QED
  BY <1>1 DEF LatestInv

\* Put keeps the order of the keys tied to the number of newer ones.
LEMMA PutPos ==
    ASSUME TypeOK, PosInv, NEW k \in Key, NEW c, NEW p, Put(k, c, p)
    PROVE  PosInv'
<1> USE Types
<1>1. order' = NewOrder(k)
  BY DEF Put
<1>2. CASE ~IsNew(k)
  <2>1. order' = order /\ DOMAIN entries' = DOMAIN entries /\ newer' = newer
    BY <1>1, <1>2, PutOrder DEF IsNew, Put, TypeOK
  <2>2. QED
    BY <2>1 DEF PosInv
<1>3. ASSUME IsNew(k)
      PROVE  \A x \in Key : newer'[x] = IF x = k THEN 0
                                       ELSE IF newer[x] < Max THEN newer[x] + 1 ELSE Max
  BY <1>3 DEF Put
<1>4. /\ order \in Seq(Key) /\ Len(order) \in Nat /\ Len(order) <= Max
      /\ \A i \in 1..Len(order) : /\ order[i] \in DOMAIN entries /\ order[i] \in Key
                                  /\ newer[order[i]] = Len(order) - i
  BY OrderFacts DEF PosInv
<1>5. CASE IsNew(k) /\ Len(order) < Max
  <2>1. order' = Append(order, k) /\ DOMAIN entries' = DOMAIN entries \cup {k}
    BY <1>1, <1>5, PutOrder DEF Put
  <2>2. ASSUME NEW i \in 1..Len(order)
        PROVE  newer'[order[i]] = Len(order) + 1 - i
    <3>1. order[i] # k /\ newer[order[i]] < Max
      BY <1>4, <1>5 DEF IsNew
    <3>2. QED
      BY <1>3, <1>4, <1>5, <3>1
  <2>3. newer'[k] = 0
    BY <1>3, <1>5
  <2>4. \A x \in Key \ DOMAIN entries' : newer'[x] = Max
    BY <1>3, <1>5, <2>1 DEF PosInv
  <2>5. /\ Len(order') = Len(order) + 1
        /\ \A i \in 1..Len(order) : order'[i] = order[i]
        /\ order'[Len(order) + 1] = k
    BY <1>4, <2>1
  <2>6. \A i \in 1..Len(order') : newer'[order'[i]] = Len(order') - i
    <3>1. TAKE i \in 1..Len(order')
    <3>2. CASE i = Len(order) + 1
      BY <1>4, <2>3, <2>5, <3>2
    <3>3. CASE i \in 1..Len(order)
      BY <1>4, <2>2, <2>5, <3>3
    <3>4. QED
      BY <1>4, <2>5, <3>2, <3>3
  <2>7. QED
    BY <2>4, <2>6 DEF PosInv
<1>6. CASE IsNew(k) /\ Len(order) >= Max
  <2>1. /\ Len(order) = Max
        /\ order' \in Seq(Key) /\ Len(order') = Max
        /\ \A i \in 1..(Max - 1) : order'[i] = order[i + 1]
        /\ order'[Max] = k
        /\ Evicted(k) = {1}
    BY <1>1, <1>6, PutOrder
  <2>2. DOMAIN entries' = (DOMAIN entries \ {order[1]}) \cup {k}
    BY <2>1 DEF Put
  <2>3. ASSUME NEW i \in 1..(Max - 1)
        PROVE  newer'[order'[i]] = Max - i
    <3>1. /\ i + 1 \in 1..Max /\ order'[i] = order[i + 1]
          /\ order[i + 1] # k /\ order[i + 1] \in Key
          /\ newer[order[i + 1]] = Max - (i + 1)
      BY <1>4, <1>6, <2>1 DEF IsNew
    <3>2. QED
      BY <1>3, <1>6, <3>1
  <2>4. newer'[order'[Max]] = 0
    BY <1>3, <1>6, <2>1
  <2>5. order[1] # k /\ order[1] \in Key /\ newer[order[1]] = Max - 1
    BY <1>4, <1>6, <2>1 DEF IsNew
  <2>6. newer'[order[1]] = Max
    BY <1>3, <1>6, <2>5
  <2>7. \A x \in Key \ DOMAIN entries' : newer'[x] = Max
    BY <1>3, <1>6, <2>2, <2>6 DEF PosInv
  <2>8. \A i \in 1..Max : i \in 1..(Max - 1) \/ i = Max
    OBVIOUS
  <2>9. QED
    BY <2>1, <2>3, <2>4, <2>7, <2>8 DEF PosInv
<1>7. QED
  BY <1>2, <1>4, <1>5, <1>6

-----------------------------------------------------------------------------
\* What a reply is built from.

\* Get returns the entry of a key that has one not yet expired.
LEMMA GetEntry ==
    ASSUME NEW k
    PROVE  Get(k) = IF k \in DOMAIN entries /\ now <= entries[k].storedAt + TTL
                    THEN {entries[k]} ELSE {}
  BY DEF Get

\* Normalising a JID keeps the person, and gives it the server of the chat if
\* one is known.
LEMMA NormalForm ==
    ASSUME NEW chat \in Jid, NEW p \in Jid
    PROVE  /\ normalizeAddressingMode(chat, p) \in Jid
           /\ normalizeAddressingMode(chat, p).who = p.who
           /\ \/ normalizeAddressingMode(chat, p).server \in {chat.server, "group"}
              \/ chat.server = "group"
              \/ p.who \notin Mapped
<1>1. CASE chat.server # "group" /\ p.server # "group" /\ p.who \in Mapped
  <2>1. chat \in UserJid /\ p \in UserJid
    BY <1>1 DEF Jid, UserJid, GroupJid
  <2>2. normalizeAddressingMode(chat, p) = [p EXCEPT !.server = chat.server]
    BY <1>1 DEF normalizeAddressingMode
  <2>3. QED
    BY <2>1, <2>2 DEF Jid, UserJid
<1>2. CASE ~(chat.server # "group" /\ p.server # "group" /\ p.who \in Mapped)
  <2>1. normalizeAddressingMode(chat, p) = p
    BY <1>2 DEF normalizeAddressingMode
  <2>2. QED
    BY <1>2, <2>1
<1>3. QED
  BY <1>1, <1>2

\* The reply that is built, with Get resolved.
LEMMA BuiltReply ==
    ASSUME TypeOK, NEW k \in Key, NEW hint \in Hint
    PROVE  LET r   == buildOutgoingContextInfo(k, hint)
               hit == k \in DOMAIN entries /\ now <= entries[k].storedAt + TTL
               p   == IF hint # NoJid THEN hint
                      ELSE IF hit THEN entries[k].participant ELSE ChatOf[k]
           IN  /\ r \in Reply
               /\ r.key = k /\ r.hint = hint
               /\ r.quoted = IF hit THEN entries[k].content ELSE Stub
               /\ p \in Jid /\ r.participant = normalizeAddressingMode(ChatOf[k], p)
<1> USE Types
<1> DEFINE r   == buildOutgoingContextInfo(k, hint)
           hit == k \in DOMAIN entries /\ now <= entries[k].storedAt + TTL
           p   == IF hint # NoJid THEN hint
                  ELSE IF hit THEN entries[k].participant ELSE ChatOf[k]
<1>1. hit => entries[k] \in Entry
  BY DEF TypeOK
<1>2. ChatOf[k] \in Jid /\ hint \in Jid \cup {NoJid}
  OBVIOUS
<1>3. p \in Jid
  BY <1>1, <1>2 DEF Entry, Jid
<1>4. r = [key |-> k, hint |-> hint,
           participant |-> normalizeAddressingMode(ChatOf[k], p),
           quoted |-> IF hit THEN entries[k].content ELSE Stub]
  <2>1. CASE hit
    <3>1. Get(k) = {entries[k]}
      BY <2>1, GetEntry
    <3>2. (CHOOSE e \in Get(k) : TRUE) = entries[k]
      BY <3>1
    <3>3. QED
      BY <2>1, <3>1, <3>2 DEF buildOutgoingContextInfo, resolveReplyParticipant
  <2>2. CASE ~hit
    <3>1. Get(k) = {}
      BY <2>2, GetEntry
    <3>2. QED
      BY <2>2, <3>1 DEF buildOutgoingContextInfo, resolveReplyParticipant
  <2>3. QED
    BY <2>1, <2>2
<1>5. normalizeAddressingMode(ChatOf[k], p) \in Jid
  BY <1>2, <1>3, NormalForm
<1>6. (IF hit THEN entries[k].content ELSE Stub) \in Content \cup {Stub}
  BY <1>1 DEF Entry
<1>7. r \in Reply
  BY <1>2, <1>4, <1>5, <1>6 DEF Reply
<1>8. QED
  BY <1>3, <1>4, <1>7

-----------------------------------------------------------------------------
\* The invariant.

\* At first the cache is empty.
LEMMA InitCache == Init => CacheInv /\ DepthInv
  BY Types DEF Init, CacheInv, TypeOK, PosInv, LatestInv, DepthInv

\* The messages a send puts.
LEMMA SentContent ==
    ASSUME TypeOK, NEW s \in Caller, NEW b \in Body, reply[s] # NoReply
    PROVE  [body |-> b, listed |-> TRUE, depth |-> reply[s].quoted.depth + 1] \in Content
<1>1. reply[s] \in Reply
  BY DEF TypeOK
<1>2. reply[s].quoted.depth \in Nat
  BY <1>1 DEF Reply, Content, Stub
<1>3. QED
  BY <1>2 DEF Content

\* Put keeps the invariants of the cache.
LEMMA PutInv ==
    ASSUME CacheInv, NEW k \in Key, NEW c \in Content, NEW p \in UserJid, Put(k, c, p),
           now' = now, reply' \in [Caller -> Reply \cup {NoReply}]
    PROVE  CacheInv'
<1>1. PosInv' /\ LatestInv'
  BY PutPos, PutLatest DEF CacheInv
<1>2. TypeOK'
  BY PutType, PutDomain DEF CacheInv, TypeOK
<1>3. QED
  BY <1>1, <1>2 DEF CacheInv

\* Steps that leave the cache alone.
LEMMA CacheFrame ==
    ASSUME CacheInv, UNCHANGED cache,
           now' \in Nat, reply' \in [Caller -> Reply \cup {NoReply}]
    PROVE  CacheInv'
<1>1. entries' = entries /\ order' = order /\ newer' = newer /\ latest' = latest
  BY DEF cache
<1>2. TypeOK'
  BY <1>1 DEF CacheInv, TypeOK
<1>3. PosInv'
  BY <1>1 DEF CacheInv, PosInv
<1>4. LatestInv'
  BY <1>1 DEF CacheInv, LatestInv
<1>5. QED
  BY <1>2, <1>3, <1>4 DEF CacheInv

\* So does every step.
LEMMA CacheStep == CacheInv /\ [Next]_vars => CacheInv'
<1> USE Types
<1> SUFFICES ASSUME CacheInv, [Next]_vars PROVE CacheInv'
  OBVIOUS
<1>1. TypeOK
  BY DEF CacheInv
<1>2. ASSUME NEW k \in Key, NEW c \in Incoming, NEW p \in UserJid, Receive(k, c, p)
      PROVE  CacheInv'
  BY <1>1, <1>2, PutInv DEF Receive, TypeOK
<1>3. ASSUME NEW s \in Caller, NEW k \in Key, NEW hint \in Hint, BuildReply(s, k, hint)
      PROVE  CacheInv'
  <2>1. buildOutgoingContextInfo(k, hint) \in Reply
    BY <1>1, BuiltReply
  <2>2. reply' \in [Caller -> Reply \cup {NoReply}]
    BY <1>1, <1>3, <2>1 DEF BuildReply, TypeOK
  <2>3. QED
    BY <1>1, <1>3, <2>2, CacheFrame DEF BuildReply, TypeOK
<1>4. ASSUME NEW s \in Caller, SendUncached(s) PROVE CacheInv'
  <2>1. reply' \in [Caller -> Reply \cup {NoReply}]
    BY <1>1, <1>4 DEF SendUncached, TypeOK
  <2>2. QED
    BY <1>1, <1>4, <2>1, CacheFrame DEF SendUncached, TypeOK
<1>5. ASSUME NEW s \in Caller, NEW k \in Key, NEW b \in Body, SendReply(s, k, b)
      PROVE  CacheInv'
  <2>1. reply' \in [Caller -> Reply \cup {NoReply}]
    BY <1>1, <1>5 DEF SendReply, TypeOK
  <2>2. QED
    BY <1>1, <1>5, <2>1, SentContent, PutInv DEF SendReply
<1>6. ASSUME NEW k \in Key, NEW b \in Body, SendPlain(k, b) PROVE CacheInv'
  <2>1. [body |-> b, listed |-> TRUE, depth |-> 0] \in Content
    BY DEF Content
  <2>2. QED
    BY <1>1, <1>6, <2>1, PutInv DEF SendPlain, TypeOK
<1>7. CASE Tick
  BY <1>1, <1>7, CacheFrame DEF Tick, TypeOK
<1>8. CASE UNCHANGED vars
  BY <1>1, <1>8, CacheFrame DEF vars, TypeOK
<1>9. QED
  BY <1>2, <1>3, <1>4, <1>5, <1>6, <1>7, <1>8 DEF Next

\* The map and the eviction list of the cache always agree, and stay within
\* the capacity.
THEOREM CacheTypeInvariant == Spec => []TypeOK
<1>1. CacheInv => TypeOK
  BY DEF CacheInv
<1>2. QED
  BY InitCache, CacheStep, <1>1, PTL DEF Spec

\* A position in the eviction list is a count of the keys inserted since.
LEMMA HeldFacts ==
    ASSUME CacheInv, NEW k \in Key
    PROVE  k \in DOMAIN entries <=> newer[k] < Max
<1>1. CASE k \in DOMAIN entries
  <2>1. PICK i \in 1..Len(order) : order[i] = k
    BY <1>1, OrderFacts DEF CacheInv
  <2>2. newer[k] = Len(order) - i /\ Len(order) <= Max /\ Len(order) \in Nat
    BY <2>1, OrderFacts DEF CacheInv, PosInv
  <2>3. QED
    BY <1>1, <2>2, Types
<1>2. CASE k \notin DOMAIN entries
  BY <1>2, Types DEF CacheInv, PosInv
<1>3. QED
  BY <1>1, <1>2

\* Eviction is first in, first out, and never early.
THEOREM FIFOWindow == Spec => []HeldWhileRecent
<1>1. CacheInv => HeldWhileRecent
  BY HeldFacts DEF HeldWhileRecent
<1>2. QED
  BY InitCache, CacheStep, <1>1, PTL DEF Spec

\* A quote nested in a cached message, or in a reply, was received that way.
LEMMA DepthStep ==
    CacheInv /\ DepthInv /\ NoQuotePileUp /\ [Next]_vars => (DepthInv /\ NoQuotePileUp)'
<1> USE Types
<1> SUFFICES ASSUME CacheInv, DepthInv, NoQuotePileUp, [Next]_vars
             PROVE  DepthInv' /\ NoQuotePileUp'
  OBVIOUS
<1>1. TypeOK
  BY DEF CacheInv
<1>2. ASSUME NEW k \in Key, NEW c \in Content, NEW p \in UserJid, Put(k, c, p),
             c.listed \/ c \in Incoming
      PROVE  DepthInv'
  <2> SUFFICES ASSUME NEW x \in DOMAIN entries', entries'[x].content.depth > 0
               PROVE  \E y \in Incoming : ~y.listed /\ y.depth = entries'[x].content.depth
    BY DEF DepthInv
  <2>1. CASE x = k
    <3>1. entries'[x].content = trimForQuote(c)
      BY <1>2, <2>1 DEF Put, NewEntry
    <3>2. ~c.listed /\ trimForQuote(c) = c
      BY <3>1, TrimType
    <3>3. QED
      BY <1>2, <3>1, <3>2
  <2>2. CASE x # k
    <3>1. x \in DOMAIN entries /\ entries'[x] = entries[x]
      BY <1>2, <2>2 DEF Put
    <3>2. QED
      BY <3>1 DEF DepthInv
  <2>3. QED
    BY <2>1, <2>2
<1>3. ASSUME NEW s \in Caller, reply' = [reply EXCEPT ![s] = NoReply]
      PROVE  NoQuotePileUp'
  <2>1. NoReply.quoted.depth = 0
    BY DEF NoReply, Stub
  <2>2. \A t \in Caller : reply'[t] = IF t = s THEN NoReply ELSE reply[t]
    BY <1>1, <1>3 DEF TypeOK
  <2>3. QED
    BY <2>1, <2>2 DEF NoQuotePileUp
<1>4. ASSUME reply' = reply PROVE NoQuotePileUp'
  BY <1>4 DEF NoQuotePileUp
<1>5. ASSUME UNCHANGED cache PROVE DepthInv'
  BY <1>5 DEF DepthInv, cache
<1>6. ASSUME NEW k \in Key, NEW c \in Incoming, NEW p \in UserJid, Receive(k, c, p)
      PROVE  DepthInv' /\ NoQuotePileUp'
  BY <1>2, <1>4, <1>6 DEF Receive
<1>7. ASSUME NEW s \in Caller, NEW k \in Key, NEW hint \in Hint, BuildReply(s, k, hint)
      PROVE  DepthInv' /\ NoQuotePileUp'
  <2> DEFINE q == buildOutgoingContextInfo(k, hint).quoted
  <2>1. q.depth > 0 => \E c \in Incoming : ~c.listed /\ c.depth = q.depth
    <3>1. q = Stub \/ (k \in DOMAIN entries /\ q = entries[k].content)
      BY <1>1, BuiltReply
    <3>2. QED
      BY <3>1 DEF DepthInv, Stub
  <2>2. \A t \in Caller : reply'[t].quoted = IF t = s THEN q ELSE reply[t].quoted
    BY <1>1, <1>7 DEF BuildReply, TypeOK
  <2>3. NoQuotePileUp'
    BY <2>1, <2>2 DEF NoQuotePileUp
  <2>4. QED
    BY <1>5, <1>7, <2>3 DEF BuildReply
<1>8. ASSUME NEW s \in Caller, SendUncached(s) PROVE DepthInv' /\ NoQuotePileUp'
  BY <1>3, <1>5, <1>8 DEF SendUncached
<1>9. ASSUME NEW s \in Caller, NEW k \in Key, NEW b \in Body, SendReply(s, k, b)
      PROVE  DepthInv' /\ NoQuotePileUp'
  BY <1>1, <1>2, <1>3, <1>9, SentContent DEF SendReply
<1>10. ASSUME NEW k \in Key, NEW b \in Body, SendPlain(k, b)
       PROVE  DepthInv' /\ NoQuotePileUp'
  <2>1. [body |-> b, listed |-> TRUE, depth |-> 0] \in Content
    BY DEF Content
  <2>2. QED
    BY <1>2, <1>4, <1>10, <2>1 DEF SendPlain
<1>11. CASE Tick
  BY <1>4, <1>5, <1>11 DEF Tick
<1>12. CASE UNCHANGED vars
  BY <1>4, <1>5, <1>12 DEF vars
<1>13. QED
  BY <1>6, <1>7, <1>8, <1>9, <1>10, <1>11, <1>12 DEF Next

\* However long a chain of replies grows, no reply of the device embeds more
\* than one message, apart from what a received message of an unlisted kind
\* carried.
THEOREM QuotesDoNotPileUp == Spec => []NoQuotePileUp
<1>1. Init => NoQuotePileUp
  <2>1. NoReply.quoted.depth = 0
    BY DEF NoReply, Stub
  <2>2. QED
    BY <2>1 DEF Init, NoQuotePileUp
<1>2. QED
  BY InitCache, CacheStep, DepthStep, <1>1, PTL DEF Spec

-----------------------------------------------------------------------------
\* What a step that builds a reply puts into it.

\* Replies come from buildOutgoingContextInfo.
LEMMA BuildStep ==
    ASSUME CacheInv, [Next]_vars, NEW s \in Caller, reply[s] = NoReply, reply'[s] # NoReply
    PROVE  \E k \in Key, hint \in Hint : reply'[s] = buildOutgoingContextInfo(k, hint)
<1>1. TypeOK
  BY DEF CacheInv
<1>2. ASSUME NEW t \in Caller, reply' = [reply EXCEPT ![t] = NoReply] PROVE FALSE
  BY <1>1, <1>2 DEF TypeOK
<1>3. reply' # reply
  OBVIOUS
<1>4. PICK t \in Caller, k \in Key, hint \in Hint : BuildReply(t, k, hint)
  BY <1>2, <1>3 DEF Next, vars, Receive, SendUncached, SendReply, SendPlain, Tick
<1>5. QED
  BY <1>1, <1>4 DEF BuildReply, TypeOK

\* The hit of a lookup, told by the history alone.
LEMMA HitIsRecent ==
    ASSUME CacheInv, NEW k \in Key
    PROVE  /\ (k \in DOMAIN entries /\ now <= entries[k].storedAt + TTL)
                 <=> (newer[k] < Max /\ now <= latest[k].storedAt + TTL)
           /\ k \in DOMAIN entries =>
                 /\ entries[k].content.body = latest[k].content.body
                 /\ entries[k].participant = latest[k].participant
<1>1. k \in DOMAIN entries <=> newer[k] < Max
  BY HeldFacts
<1>2. k \in DOMAIN entries =>
        /\ entries[k].content = trimForQuote(latest[k].content)
        /\ latest[k].content \in Content
        /\ entries[k].participant = latest[k].participant
        /\ entries[k].storedAt = latest[k].storedAt
  <2> SUFFICES ASSUME k \in DOMAIN entries
               PROVE  /\ entries[k].content = trimForQuote(latest[k].content)
                      /\ latest[k].content \in Content
                      /\ entries[k].participant = latest[k].participant
                      /\ entries[k].storedAt = latest[k].storedAt
    OBVIOUS
  <2>1. /\ k \in DOMAIN latest
        /\ entries[k] = [content |-> trimForQuote(latest[k].content),
                         participant |-> latest[k].participant,
                         storedAt |-> latest[k].storedAt]
    BY DEF CacheInv, LatestInv
  <2>2. latest[k] \in Entry
    BY <2>1 DEF CacheInv, TypeOK
  <2>3. latest[k].content \in Content
    BY <2>2 DEF Entry
  <2>4. QED
    BY <2>1, <2>3
<1>3. QED
  BY <1>1, <1>2, TrimType

\* A reply quotes the newest version of the message it names, or the stub.
THEOREM RepliesQuoteLatest == Spec => QuotesLatest
<1> DEFINE Quotes(s) ==
        LET k == reply'[s].key
            q == reply'[s].quoted
        IN  IF newer[k] < Max /\ now <= latest[k].storedAt + TTL
            THEN q.body = latest[k].content.body
            ELSE q = Stub
           QuoteStep == \A s \in Caller : reply[s] = NoReply /\ reply'[s] # NoReply => Quotes(s)
<1>1. CacheInv /\ [Next]_vars => [QuoteStep]_vars
  <2> SUFFICES ASSUME CacheInv, [Next]_vars, NEW s \in Caller,
                      reply[s] = NoReply, reply'[s] # NoReply
               PROVE  Quotes(s)
    OBVIOUS
  <2>1. PICK k \in Key, hint \in Hint : reply'[s] = buildOutgoingContextInfo(k, hint)
    BY BuildStep
  <2>2. /\ reply'[s].key = k
        /\ reply'[s].quoted = IF k \in DOMAIN entries /\ now <= entries[k].storedAt + TTL
                              THEN entries[k].content ELSE Stub
    BY <2>1, BuiltReply DEF CacheInv
  <2>3. QED
    BY <2>2, HitIsRecent
<1>2. QED
  BY InitCache, CacheStep, <1>1, PTL DEF Spec, QuotesLatest

\* Whom a reply names is whom the caller named, else who sent the message that
\* is quoted, else the chat, in the chat's form where that form is known.
THEOREM RepliesAttributed == Spec => QuoteAttributed
<1> DEFINE Attributed(s) ==
        LET r    == reply'[s]
            chat == ChatOf[r.key]
            hit  == newer[r.key] < Max /\ now <= latest[r.key].storedAt + TTL
        IN  /\ r.participant.who =
                  IF r.hint # NoJid THEN r.hint.who
                  ELSE IF hit THEN latest[r.key].participant.who
                  ELSE chat.who
            /\ r.participant.server \in {chat.server, "group"}
                  \/ chat.server = "group"
                  \/ r.participant.who \notin Mapped
           AttributeStep ==
              \A s \in Caller : reply[s] = NoReply /\ reply'[s] # NoReply => Attributed(s)
<1>1. CacheInv /\ [Next]_vars => [AttributeStep]_vars
  <2> SUFFICES ASSUME CacheInv, [Next]_vars, NEW s \in Caller,
                      reply[s] = NoReply, reply'[s] # NoReply
               PROVE  Attributed(s)
    OBVIOUS
  <2>1. PICK k \in Key, hint \in Hint : reply'[s] = buildOutgoingContextInfo(k, hint)
    BY BuildStep
  <2> DEFINE hit == k \in DOMAIN entries /\ now <= entries[k].storedAt + TTL
             p   == IF hint # NoJid THEN hint
                    ELSE IF hit THEN entries[k].participant ELSE ChatOf[k]
  <2>2. /\ reply'[s].key = k /\ reply'[s].hint = hint
        /\ p \in Jid
        /\ reply'[s].participant = normalizeAddressingMode(ChatOf[k], p)
    BY <2>1, BuiltReply DEF CacheInv
  <2>3. ChatOf[k] \in Jid
    BY Types
  <2>4. /\ reply'[s].participant.who = p.who
        /\ \/ reply'[s].participant.server \in {ChatOf[k].server, "group"}
           \/ ChatOf[k].server = "group"
           \/ p.who \notin Mapped
    BY <2>2, <2>3, NormalForm
  <2>5. p.who = IF hint # NoJid THEN hint.who
                ELSE IF newer[k] < Max /\ now <= latest[k].storedAt + TTL
                     THEN latest[k].participant.who
                     ELSE ChatOf[k].who
    BY HitIsRecent
  <2>6. QED
    BY <2>2, <2>4, <2>5
<1>2. QED
  BY InitCache, CacheStep, <1>1, PTL DEF Spec, QuoteAttributed
=============================================================================
