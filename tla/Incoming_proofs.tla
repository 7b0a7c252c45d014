-------------------------- MODULE Incoming_proofs --------------------------
(* Proofs about Incoming, for any messages, receipts and contents. *)
EXTENDS Incoming, TLAPS

-----------------------------------------------------------------------------
(* Classification.                                                           *)

TheKey == "sender_key_distribution"

\* Kinds other than the key, which is looked for last.
Named == {"text", "image", "document", "video", "audio", "sticker", "contact",
          "contacts", "location", "live_location", "reaction", "revoke", "protocol",
          "poll", "poll_vote", "poll_result", "newsletter_admin_invite",
          "newsletter_follower_invite"}

\* The key is the last of the fields looked for, and each is there once.
LEMMA KeyIsLast ==
  /\ Len(Fields) = 19 /\ Fields[19] = TheKey
  /\ \A i \in 1..18 : Fields[i] \in Named /\ Fields[i] # TheKey
  /\ \A f \in Named : \E i \in 1..18 : Fields[i] = f
  /\ \A i, j \in 1..18 : Fields[i] = Fields[j] => i = j
  /\ Field = Named \cup {TheKey, "other"}
<1>1. Len(Fields) = 19 /\ Fields[19] = TheKey
  BY DEF Fields, TheKey
<1>2. /\ Fields[1] = "text" /\ Fields[2] = "image" /\ Fields[3] = "document"
      /\ Fields[4] = "video" /\ Fields[5] = "audio" /\ Fields[6] = "sticker"
      /\ Fields[7] = "contact" /\ Fields[8] = "contacts" /\ Fields[9] = "location"
      /\ Fields[10] = "live_location" /\ Fields[11] = "reaction" /\ Fields[12] = "revoke"
      /\ Fields[13] = "protocol" /\ Fields[14] = "poll" /\ Fields[15] = "poll_vote"
      /\ Fields[16] = "poll_result" /\ Fields[17] = "newsletter_admin_invite"
      /\ Fields[18] = "newsletter_follower_invite"
  BY DEF Fields
<1>3. 1..18 = {1, 2, 3, 4, 5, 6, 7, 8, 9, 10, 11, 12, 13, 14, 15, 16, 17, 18}
  OBVIOUS
<1>4. \A i \in 1..18 : Fields[i] \in Named /\ Fields[i] # TheKey
  BY <1>2, <1>3 DEF Named, TheKey
<1>5. \A f \in Named : \E i \in 1..18 : Fields[i] = f
  <2> HIDE DEF Fields
  <2> QED
    BY <1>2 DEF Named
<1>6. \A i, j \in 1..18 : Fields[i] = Fields[j] => i = j
  BY <1>2, <1>3
<1>7. Field = Named \cup {TheKey, "other"}
  <2>1. 1..19 = (1..18) \cup {19}
    OBVIOUS
  <2>2. {Fields[i] : i \in 1..19} = Named \cup {TheKey}
    BY <1>1, <1>4, <1>5, <2>1
  <2> QED
    BY <1>1, <2>2 DEF Field
<1> QED
  BY <1>1, <1>4, <1>5, <1>6, <1>7

\* One kind of content, and the key, which may come with it.
Single(fields) == \A f, g \in fields \ {TheKey} : f = g

\* The first field that is there is the class, if the others are the key at most.
LEMMA ClassifiedFirst ==
  ASSUME NEW fields, Single(fields), NEW i \in 1..Len(Fields), Fields[i] \in fields,
         Fields[i] = TheKey => \A f \in Named : f \notin fields
  PROVE  classify(fields) = Fields[i]
<1> DEFINE First(k) == Fields[k] \in fields /\ \A j \in 1..(k-1) : Fields[j] \notin fields
<1>1. Len(Fields) = 19
  BY KeyIsLast
<1>2. \A j \in 1..19 : Fields[j] \in fields => j = i \/ (j = 19 /\ i # 19)
  <2> SUFFICES ASSUME NEW j \in 1..19, Fields[j] \in fields, j # i
               PROVE  j = 19 /\ i # 19
    OBVIOUS
  <2>1. CASE i = 19
    <3>1. j \in 1..18
      BY <2>1
    <3> QED
      BY <2>1, <3>1, KeyIsLast
  <2>2. CASE i \in 1..18 /\ j \in 1..18
    BY <2>2, KeyIsLast DEF Single
  <2>3. CASE i \in 1..18 /\ j = 19
    BY <2>3
  <2>4. i = 19 \/ (i \in 1..18 /\ (j \in 1..18 \/ j = 19))
    BY <1>1
  <2> QED
    BY <2>1, <2>2, <2>3, <2>4
<1>3. First(i)
  BY <1>1, <1>2
<1>4. ASSUME NEW k \in 1..19, First(k) PROVE k = i
  BY <1>1, <1>2, <1>4
<1>5. (CHOOSE k \in 1..Len(Fields) :
          Fields[k] \in fields /\ \A j \in 1..(k-1) : Fields[j] \notin fields) = i
  <2> HIDE DEF First
  <2>1. (CHOOSE k \in 1..19 : First(k)) = i
    BY <1>1, <1>3, <1>4
  <2> QED
    BY <1>1, <2>1 DEF First
<1> QED
  BY <1>5 DEF classify

\* The content decides, whatever key comes with it; the key alone is its own
\* kind, and what has no name is unknown, unless a key comes with it.
LEMMA ContentDecides ==
  ASSUME NEW fields, Single(fields)
  PROVE  /\ \A f \in Named : f \in fields => classify(fields) = f
         /\ TheKey \in fields /\ fields \cap Named = {} => classify(fields) = TheKey
         /\ TheKey \notin fields /\ fields \cap Named = {} => classify(fields) = "unknown"
<1>1. ASSUME NEW f \in Named, f \in fields PROVE classify(fields) = f
  <2>1. PICK i \in 1..18 : Fields[i] = f
    BY KeyIsLast
  <2>2. i \in 1..Len(Fields) /\ Fields[i] # TheKey
    BY KeyIsLast
  <2> QED
    BY <1>1, <2>1, <2>2, ClassifiedFirst
<1>2. ASSUME TheKey \in fields, fields \cap Named = {} PROVE classify(fields) = TheKey
  <2>1. 19 \in 1..Len(Fields) /\ Fields[19] = TheKey
    BY KeyIsLast
  <2> QED
    BY <1>2, <2>1, ClassifiedFirst
<1>3. ASSUME TheKey \notin fields, fields \cap Named = {}
      PROVE  classify(fields) = "unknown"
  <2>1. \A i \in 1..Len(Fields) : i \in 1..18 \/ i = 19
    BY KeyIsLast
  <2>2. \A i \in 1..Len(Fields) : Fields[i] \notin fields
    BY <1>3, <2>1, KeyIsLast
  <2> QED
    BY <2>2 DEF classify
<1> QED
  BY <1>1, <1>2, <1>3

-----------------------------------------------------------------------------
(* What a payload, and then a body, says of its message.                     *)

SourceRight(b) ==
    LET c == content[b.item]  s == Info[b.item]
    IN  /\ \/ b.from = s.from
           \/ b.via = "history" /\ s.from = "me" /\ ~s.participant
           \/ b.via = "live" /\ c.fields = {}
        /\ s.lid /\ s.mapped => b.phone \/ b.via = "history"
        /\ c.wraps <= MaxUnwrap =>
              b.quoted = c.quote \/ (c.quote = "me_lid" /\ b.quoted = "other")

FileRight(b) == b.file # None => b.type \in Media /\ b.file = FileOf(b.item, b.via)

\* A payload.
Classified(p) ==
    /\ p.item \in Msg => /\ p.type = classify(unwrap(content[p.item]))
                         /\ SourceRight(p) /\ FileRight(p)
                         /\ p.via \in {"live", "history"}
    /\ p.item \in Receipt => /\ p.type = IF p.item \in Read THEN "read" ELSE "delivered"
                             /\ p.file = None

TypeRight(b) ==
    LET c == content[b.item]
    IN  /\ \A f \in Seen(c) : b.type = f
        /\ Seen(c) = {} => b.type = "unknown"

\* A body.
Converted(b) ==
    /\ Wanted(b.item)
    /\ b.item \in Msg => TypeRight(b) /\ SourceRight(b) /\ FileRight(b)
    /\ b.item \in Receipt => b.file = None

Good == {p \in Payload : Classified(p)}

Body == {b \in Payload : Converted(b)}

\* What the types say of a message.
LEMMA ContentIsTyped ==
  ASSUME content \in Contents, NEW m \in Msg
  PROVE  /\ content[m].wraps \in Nat
         /\ content[m].fields \subseteq Named \cup {TheKey, "other"}
         /\ content[m].quote \in {"none", "other", "me", "me_lid"}
         /\ content[m].quote = "me_lid" \/ content[m].quote \in {"none", "other", "me"}
         /\ Single(content[m].fields)
         /\ content[m].quote # "none" => content[m].fields \cap Carriers # {}
<1>1. content[m] \in Content
  BY Types
<1>2. /\ content[m].wraps \in Nat /\ content[m].fields \subseteq Field
      /\ content[m].quote \in {"none", "other", "me", "me_lid"}
      /\ content[m].quote # "none" => content[m].fields \cap Carriers # {}
      /\ \A f, g \in content[m].fields \ {"sender_key_distribution"} : f = g
  BY <1>1 DEF Content
<1> QED
  BY <1>2, KeyIsLast DEF Single, TheKey

\* The containers: up to eight are opened.
LEMMA Unwrapped ==
  ASSUME content \in Contents, NEW m \in Msg
  PROVE  /\ content[m].wraps <= MaxUnwrap => unwrap(content[m]) = content[m].fields
         /\ content[m].wraps > MaxUnwrap => unwrap(content[m]) = {"other"}
         /\ Single(unwrap(content[m]))
         /\ unwrap(content[m]) \subseteq Named \cup {TheKey, "other"}
BY ContentIsTyped DEF unwrap, MaxUnwrap, Single, TheKey

\* The kind of a message is a field of it, the key, or unknown.
LEMMA KindOf ==
  ASSUME content \in Contents, NEW m \in Msg
  PROVE  LET fields == unwrap(content[m])
         IN  /\ classify(fields) \in Named \cup {TheKey, "unknown"}
             /\ classify(fields) \in Named => classify(fields) \in fields
             /\ classify(fields) = TheKey => TheKey \in fields /\ fields \cap Named = {}
<1> DEFINE fields == unwrap(content[m])
<1>1. Single(fields)
  BY Unwrapped
<1> HIDE DEF fields
<1>2. /\ \A f \in Named : f \in fields => classify(fields) = f
      /\ TheKey \in fields /\ fields \cap Named = {} => classify(fields) = TheKey
      /\ TheKey \notin fields /\ fields \cap Named = {} => classify(fields) = "unknown"
  BY <1>1, ContentDecides
<1>3. TheKey \notin Named /\ "unknown" \notin Named /\ TheKey # "unknown"
  BY DEF Named, TheKey
<1>4. /\ classify(fields) \in Named \cup {TheKey, "unknown"}
      /\ classify(fields) \in Named => classify(fields) \in fields
      /\ classify(fields) = TheKey => TheKey \in fields /\ fields \cap Named = {}
  BY <1>2, <1>3
<1> QED
  BY <1>4 DEF fields

\* The manager builds payloads that say what their message holds.
LEMMA PayloadIsRight ==
  ASSUME content \in Contents, NEW m \in Msg, NEW via \in {"live", "history"},
         NEW ev \in Nat \X Nat, NEW downloads \in BOOLEAN,
         via = "history" => content[m].fields # {}
  PROVE  extractMessagePayload(m, via, ev, downloads) \in Good
<1> DEFINE p == extractMessagePayload(m, via, ev, downloads)
           c == content[m]  s == Info[m]
           kind == classify(unwrap(content[m]))
           found == via = "live" /\ s.lid /\ s.mapped
<1>1. /\ p.item = m /\ p.ev = ev /\ p.via = via /\ p.type = kind
      /\ p.from = IF found THEN s.from
                  ELSE IF c.fields = {} THEN None
                  ELSE IF via = "live" \/ s.participant THEN s.from
                  ELSE "chat"
      /\ p.phone = (found \/ (c.fields # {} /\ ~s.lid))
      /\ p.ms = (via = "live")
      /\ p.quoted = buildQuotedMessage(c)
      /\ p.file = downloadMedia(kind, m, via, downloads)
  BY DEF extractMessagePayload
<1>2. s \in Source
  BY Types
<1>3. /\ s.from \in Sender /\ s.participant \in BOOLEAN /\ s.lid \in BOOLEAN
      /\ s.mapped \in BOOLEAN /\ s.name \in Name \cup {None}
      /\ s.from = "member" => s.participant
  BY <1>2, Types DEF Source
<1>4. kind \in Kind
  BY KindOf, KeyIsLast DEF Kind
<1>5. FileOf(m, via) \in FileKey
  BY <1>3 DEF FileOf, FileKey
<1>6. p.file \in FileKey \cup {None} /\ (p.file # None => kind \in Media /\ p.file = FileOf(m, via))
  BY <1>1, <1>5 DEF downloadMedia
<1>7. /\ p.quoted \in {"none", "other", "me", "me_lid"}
      /\ c.wraps <= MaxUnwrap => p.quoted = c.quote \/ (c.quote = "me_lid" /\ p.quoted = "other")
  BY <1>1, ContentIsTyped, Unwrapped DEF buildQuotedMessage, extractContextInfo
<1>8. p.from \in Sender \cup {None}
  BY <1>1, <1>3 DEF Sender
<1>9. /\ \/ p.from = s.from
         \/ via = "history" /\ s.from = "me" /\ ~s.participant
         \/ via = "live" /\ c.fields = {}
      /\ s.lid /\ s.mapped => p.phone \/ via = "history"
  BY <1>1, <1>3 DEF Sender
<1>10. m \in Item /\ m \notin Receipt
  BY Types DEF Item
<1>11. p \in Payload
  <2>1. p = [item |-> p.item, ev |-> p.ev, via |-> p.via, type |-> p.type,
             from |-> p.from, phone |-> p.phone, ms |-> p.ms, quoted |-> p.quoted,
             file |-> p.file]
    BY DEF extractMessagePayload
  <2>2. p.phone \in BOOLEAN /\ p.ms \in BOOLEAN
    BY <1>1
  <2> HIDE DEF p, c, s, kind, found
  <2> QED
    BY <1>1, <1>4, <1>6, <1>7, <1>8, <1>10, <2>1, <2>2 DEF Payload
<1> HIDE DEF p, found
<1>12. Classified(p)
  BY <1>1, <1>6, <1>7, <1>9, <1>10 DEF Classified, SourceRight, FileRight
<1> QED
  BY <1>11, <1>12 DEF Good, p

\* What the manager publishes of a receipt is right.
LEMMA ReceiptIsRight ==
  ASSUME NEW r \in Receipt, NEW ev \in Nat \X Nat
  PROVE  MessageReadEvent(r, ev) \in Good
<1> DEFINE p == MessageReadEvent(r, ev)
<1>1. /\ p.item = r /\ p.file = None
      /\ p.type = IF r \in Read THEN "read" ELSE "delivered"
  BY DEF MessageReadEvent
<1>2. p \in Payload
  BY DEF MessageReadEvent, Payload, Item, Kind
<1>3. r \notin Msg
  BY Types
<1> HIDE DEF p
<1> QED
  BY <1>1, <1>2, <1>3 DEF Good, Classified, p

\* The converter makes a body of what is wanted, and of nothing else.
LEMMA BodyOfPayload ==
  ASSUME content \in Contents, NEW p \in Good, conf.numeric, bodyType(p.type) # None,
         NEW file \in {p.file, None}
  PROVE  [p EXCEPT !.type = bodyType(p.type), !.file = file] \in Body
<1> DEFINE b == [p EXCEPT !.type = bodyType(p.type), !.file = file]
           m == p.item
           c == content[m]
           fields == unwrap(c)
<1>1. p \in Payload /\ Classified(p)
  BY DEF Good
<1>2. /\ b.item = p.item /\ b.ev = p.ev /\ b.via = p.via /\ b.from = p.from
      /\ b.phone = p.phone /\ b.ms = p.ms /\ b.quoted = p.quoted
      /\ b.type = bodyType(p.type) /\ b.file = file
  BY <1>1 DEF Payload
<1>3. bodyType(p.type) \in Kind
  BY <1>1 DEF bodyType, Kind, Payload
<1>4. b \in Payload
  BY <1>1, <1>3 DEF Payload
<1>5. p.type \notin Noise \cup {"delivered"}
  BY DEF bodyType
<1>6. ASSUME m \in Receipt PROVE Converted(b)
  <2>1. m \in Read /\ m \notin Msg
    BY <1>1, <1>5, <1>6, Types DEF Classified
  <2>2. file = None
    BY <1>1, <1>6 DEF Classified
  <2> QED
    BY <1>2, <2>1, <2>2 DEF Converted, Wanted
<1>7. ASSUME m \in Msg PROVE Converted(b)
  <2>1. /\ p.type = classify(fields)
        /\ SourceRight(p) /\ FileRight(p)
    BY <1>1, <1>7 DEF Classified
  <2>2. /\ classify(fields) \in Named \cup {TheKey, "unknown"}
        /\ classify(fields) \in Named => classify(fields) \in fields
        /\ classify(fields) = TheKey => TheKey \in fields /\ fields \cap Named = {}
        /\ \A f \in Named : f \in fields => classify(fields) = f
        /\ TheKey \in fields /\ fields \cap Named = {} => classify(fields) = TheKey
        /\ TheKey \notin fields /\ fields \cap Named = {} => classify(fields) = "unknown"
    <3>1. Single(fields)
      BY <1>7, Unwrapped
    <3> HIDE DEF fields
    <3>2. /\ \A f \in Named : f \in fields => classify(fields) = f
          /\ TheKey \in fields /\ fields \cap Named = {} => classify(fields) = TheKey
          /\ TheKey \notin fields /\ fields \cap Named = {} => classify(fields) = "unknown"
      BY <3>1, ContentDecides
    <3>3. TheKey \notin Named /\ "unknown" \notin Named /\ TheKey # "unknown"
      BY DEF Named, TheKey
    <3> QED
      BY <3>2, <3>3
  <2>3. /\ c.wraps \in Nat
        /\ c.wraps <= MaxUnwrap => fields = c.fields
        /\ c.wraps > MaxUnwrap => fields = {"other"}
        /\ c.fields \subseteq Named \cup {TheKey, "other"}
    BY <1>7, ContentIsTyped, Unwrapped
  <2>4. Known \subseteq Named /\ "other" \notin Named /\ TheKey \notin Named
        /\ "unknown" \notin Known /\ TheKey \in Noise /\ TheKey = "sender_key_distribution"
    BY DEF Known, Media, Named, TheKey, Noise
  <2>5. p.type # TheKey
    BY <1>5, <2>4
  <2> HIDE DEF fields
  <2>6. Wanted(m)
    <3>1. CASE c.wraps > MaxUnwrap \/ c.fields = {}
      BY <1>7, <3>1 DEF Wanted
    <3>2. CASE c.wraps <= MaxUnwrap /\ c.fields # {}
      <4>1. CASE classify(fields) = "unknown"
        <5>1. TheKey \notin c.fields /\ c.fields \cap Named = {}
          <6>1. c.fields \cap Named = {}
            <7>1. \A f \in Named : f # "unknown"
              BY DEF Named
            <7> QED
              BY <2>2, <2>3, <3>2, <4>1, <7>1
          <6> QED
            BY <2>1, <2>2, <2>3, <2>5, <3>2, <6>1
        <5>2. c.fields = {"other"}
          BY <2>3, <3>2, <5>1
        <5>3. "other" \notin Noise
          BY DEF Noise
        <5> QED
          BY <1>7, <2>4, <5>1, <5>2, <5>3 DEF Wanted
      <4>2. CASE classify(fields) \in Named
        <5>1. /\ classify(fields) \in c.fields /\ classify(fields) \notin Noise
              /\ classify(fields) # "other"
          BY <1>5, <2>1, <2>2, <2>3, <2>4, <3>2, <4>2
        <5> QED
          BY <1>7, <5>1 DEF Wanted
      <4> QED
        BY <2>1, <2>2, <2>5, <4>1, <4>2
    <3> QED
      BY <2>3, <3>1, <3>2 DEF MaxUnwrap
  <2>7. TypeRight(b)
    <3>1. ASSUME NEW f \in Seen(c) PROVE bodyType(p.type) = f
      <4>1. f \in c.fields /\ f \in Known /\ c.wraps <= MaxUnwrap
        BY DEF Seen
      <4>2. p.type = f
        BY <2>1, <2>2, <2>3, <2>4, <4>1
      <4> QED
        BY <1>5, <4>1, <4>2 DEF bodyType
    <3>2. ASSUME Seen(c) = {} PROVE bodyType(p.type) = "unknown"
      <4>1. p.type \notin Known
        <5> SUFFICES ASSUME p.type \in Known PROVE FALSE
          OBVIOUS
        <5>1. p.type \in fields /\ p.type # "other"
          BY <2>1, <2>2, <2>4
        <5>2. c.wraps <= MaxUnwrap /\ fields = c.fields
          BY <2>3, <5>1 DEF MaxUnwrap
        <5> QED
          BY <3>2, <5>1, <5>2 DEF Seen
      <4>2. p.type # "read"
        BY <2>1, <2>2 DEF Named, TheKey
      <4> QED
        BY <1>5, <4>1, <4>2 DEF bodyType
    <3> QED
      BY <1>2, <3>1, <3>2 DEF TypeRight
  <2>8. SourceRight(b)
    BY <1>2, <2>1 DEF SourceRight
  <2>9. FileRight(b)
    <3> SUFFICES ASSUME file # None PROVE bodyType(p.type) \in Media /\ file = FileOf(m, p.via)
      BY <1>2 DEF FileRight
    <3>1. p.type \in Media /\ file = FileOf(m, p.via)
      BY <2>1 DEF FileRight
    <3> QED
      BY <1>5, <3>1 DEF bodyType, Known
  <2>10. m \notin Receipt
    BY <1>7, Types
  <2> QED
    BY <1>2, <2>6, <2>7, <2>8, <2>9, <2>10 DEF Converted
<1>8. m \in Msg \/ m \in Receipt
  BY <1>1 DEF Payload, Item
<1> QED
  BY <1>4, <1>6, <1>7, <1>8 DEF Body

\* What the manager publishes: right payloads, numbered, of the topic's kind.
LEMMA Publishes ==
  ASSUME content \in Contents, spent.event \in Nat,
         \/ \E m \in Msg : MessageReceived(m)
         \/ \E batch \in Batches : handleHistorySync(batch)
         \/ \E r \in Receipt : ReceiptReceived(r)
  PROVE  \E t \in Topic : \E work \in Seq(Good) :
            /\ publishEvent(t, work)
            /\ \A i \in 1..Len(work) :
                  /\ work[i].ev = <<spent.event, i>>
                  /\ (t = "read" <=> work[i].item \in Receipt)
<1> DEFINE Numbered(t, work) ==
              \A i \in 1..Len(work) :
                  /\ work[i].ev = <<spent.event, i>>
                  /\ (t = "read" <=> work[i].item \in Receipt)
<1>0. Msg \cap Receipt = {}
  BY Types
<1>1. ASSUME NEW m \in Msg, MessageReceived(m)
      PROVE  \E work \in Seq(Good) : publishEvent("live", work) /\ Numbered("live", work)
  <2>1. PICK downloads \in BOOLEAN :
          publishEvent("live", <<extractMessagePayload(m, "live", <<spent.event, 1>>, downloads)>>)
    BY <1>1 DEF MessageReceived
  <2>2. PICK p \in Good :
          p = extractMessagePayload(m, "live", <<spent.event, 1>>, downloads)
    BY PayloadIsRight
  <2>3. p.ev = <<spent.event, 1>> /\ p.item \notin Receipt
    BY <1>0, <2>2 DEF extractMessagePayload
  <2>4. <<p>> \in Seq(Good) /\ publishEvent("live", <<p>>)
    BY <2>1, <2>2
  <2>5. Numbered("live", <<p>>)
    BY <2>3
  <2> QED
    BY <2>4, <2>5
<1>2. ASSUME NEW batch \in Batches, handleHistorySync(batch)
      PROVE  \E work \in Seq(Good) : publishEvent("history", work) /\ Numbered("history", work)
  <2>1. batch \in Seq(Msg) /\ Len(batch) \in Nat
    BY Types
  <2>2. PICK downloads \in BOOLEAN :
          publishEvent("history",
              [i \in 1..Len(batch) |->
                  extractMessagePayload(batch[i], "history", <<spent.event, i>>, downloads)])
    BY <1>2 DEF handleHistorySync
  <2> DEFINE work == [i \in 1..Len(batch) |->
                  extractMessagePayload(batch[i], "history", <<spent.event, i>>, downloads)]
  <2>3. ASSUME NEW i \in 1..Len(batch)
        PROVE  /\ work[i] \in Good /\ work[i].ev = <<spent.event, i>>
               /\ work[i].item \notin Receipt
    <3>1. batch[i] \in Msg /\ content[batch[i]].fields # {} /\ <<spent.event, i>> \in Nat \X Nat
      BY <1>2, <2>1 DEF handleHistorySync
    <3>2. extractMessagePayload(batch[i], "history", <<spent.event, i>>, downloads) \in Good
      BY <3>1, PayloadIsRight
    <3> QED
      BY <1>0, <3>1, <3>2 DEF extractMessagePayload
  <2>4. work \in Seq(Good) /\ Len(work) = Len(batch)
    BY <2>1, <2>3
  <2>5. publishEvent("history", work)
    BY <2>2
  <2> HIDE DEF work
  <2>6. Numbered("history", work)
    BY <2>3, <2>4
  <2> QED
    BY <2>4, <2>5, <2>6
<1>3. ASSUME NEW r \in Receipt, ReceiptReceived(r)
      PROVE  \E work \in Seq(Good) : publishEvent("read", work) /\ Numbered("read", work)
  <2>1. PICK p \in Good : p = MessageReadEvent(r, <<spent.event, 1>>)
    BY ReceiptIsRight
  <2>2. p.ev = <<spent.event, 1>> /\ p.item \in Receipt
    BY <2>1 DEF MessageReadEvent
  <2>3. <<p>> \in Seq(Good) /\ publishEvent("read", <<p>>)
    BY <1>3, <2>1 DEF ReceiptReceived
  <2>4. Numbered("read", <<p>>)
    BY <2>2
  <2> QED
    BY <2>3, <2>4
<1> QED
  BY <1>1, <1>2, <1>3 DEF Topic

-----------------------------------------------------------------------------
(* Bodies.  The events carry such payloads, and what was made of them are     *)
(* such bodies; a file of a body was uploaded for a message that came, and    *)
(* only for one whose file has that key.                                     *)

Event == [topic : Topic, work : Seq(Good)]

\* A goroutine is at the first of what it has.
AtHead(t) ==
    /\ todo[t] # <<>> /\ cur[t] \in Body
    /\ cur[t].item = Head(todo[t]).item /\ cur[t].ev = Head(todo[t]).ev

CarriedInv ==
    /\ conf \in Confs /\ content \in Contents
    /\ bus \subseteq Event
    /\ todo \in [Topic -> Seq(Good)]
    /\ pc \in [Topic -> {"next", "store", "direct", "nil"}]
    /\ cur \in [Topic -> Body \cup {None}]
    /\ \A t \in Topic : pc[t] # "next" => AtHead(t)
    /\ row \in [Keys -> Body \cup {None}]
    /\ given \subseteq [body : Body, direct : BOOLEAN]
    /\ spent \in [event : Nat, db : Nat, api : Nat, crash : Nat]

\* A fault is counted, and nothing else is uncounted.
LEMMA FaultIsTyped ==
  ASSUME spent \in [event : Nat, db : Nat, api : Nat, crash : Nat],
         NEW kind \in {"db", "api", "crash"}, Fault(kind)
  PROVE  /\ spent' \in [event : Nat, db : Nat, api : Nat, crash : Nat]
         /\ spent'.event = spent.event
         /\ spent'.db >= spent.db /\ spent'.api >= spent.api /\ spent'.crash >= spent.crash
         /\ spent'[kind] > 0
<1>1. spent[kind] \in Nat
  OBVIOUS
<1>2. spent' = [spent EXCEPT ![kind] = spent[kind] + 1]
  BY DEF Fault
<1>3. CASE kind = "db"
  BY <1>1, <1>2, <1>3
<1>4. CASE kind = "api"
  BY <1>1, <1>2, <1>4
<1>5. CASE kind = "crash"
  BY <1>1, <1>2, <1>5
<1> QED
  BY <1>3, <1>4, <1>5

\* The sets of payloads and bodies depend on what never changes.
LEMMA GoodIsConstant ==
  ASSUME UNCHANGED <<conf, content>>
  PROVE  Good' = Good /\ Body' = Body /\ Event' = Event
<1>1. \A p \in Payload : Classified(p)' <=> Classified(p)
  BY DEF Classified, SourceRight, FileRight, FileOf
<1>2. \A p \in Payload : Converted(p)' <=> Converted(p)
  BY DEF Converted, TypeRight, SourceRight, FileRight, FileOf, Wanted
<1>3. Good' = Good /\ Body' = Body
  BY <1>1, <1>2 DEF Good, Body
<1> QED
  BY <1>3 DEF Event

\* The configuration and the contents do not change.
LEMMA Constant == [Next]_vars => UNCHANGED <<conf, content>>
BY DEF Next, MessageReceived, handleHistorySync, ReceiptReceived, publishEvent, Take,
   convertToQueueChatMessage, Enqueue, DirectEnqueue, Deliver, MarkSuccess, Crash, Panic,
   Restart, vars

\* Publishing right payloads keeps what is carried right.
LEMMA PublishKeepsCarried ==
  ASSUME CarriedInv, NEW t \in Topic, NEW work \in Seq(Good), publishEvent(t, work)
  PROVE  CarriedInv'
<1>1. [topic |-> t, work |-> work] \in Event
  BY DEF Event
<1>2. bus' \subseteq Event
  <2>1. bus' = bus \cup {[topic |-> t, work |-> work]}
    BY DEF publishEvent
  <2> QED
    BY <1>1, <2>1 DEF CarriedInv
<1>4. spent' \in [event : Nat, db : Nat, api : Nat, crash : Nat]
  <2>1. spent' = [spent EXCEPT !.event = @ + 1]
    BY DEF publishEvent
  <2> QED
    BY <2>1 DEF CarriedInv
<1>3. UNCHANGED <<conf, content, todo, pc, cur, row, given>>
  BY DEF publishEvent, plugin, outside
<1> QED
  BY <1>2, <1>3, <1>4, GoodIsConstant DEF CarriedInv, AtHead

\* So does every step.
LEMMA Carried == CarriedInv /\ [Next]_vars => CarriedInv'
<1> SUFFICES ASSUME CarriedInv, [Next]_vars PROVE CarriedInv'
  OBVIOUS
<1>a. UNCHANGED <<conf, content>> /\ Good' = Good /\ Body' = Body /\ Event' = Event
  BY Constant, GoodIsConstant
<1>b. /\ content \in Contents /\ spent.event \in Nat
      /\ todo \in [Topic -> Seq(Good)] /\ cur \in [Topic -> Body \cup {None}]
      /\ pc \in [Topic -> {"next", "store", "direct", "nil"}]
  BY DEF CarriedInv
<1>1. CASE \/ \E m \in Msg : MessageReceived(m)
           \/ \E batch \in Batches : handleHistorySync(batch)
           \/ \E r \in Receipt : ReceiptReceived(r)
  <2>1. PICK t \in Topic, work \in Seq(Good) : publishEvent(t, work)
    BY <1>b, <1>1, Publishes
  <2> QED
    BY <2>1, PublishKeepsCarried
<1>4. ASSUME NEW e \in bus, Take(e) PROVE CarriedInv'
  <2>1. e.topic \in Topic /\ e.work \in Seq(Good)
    BY DEF CarriedInv, Event
  <2>2. todo' \in [Topic -> Seq(Good)] /\ bus' \subseteq Event
    BY <1>4, <1>b, <2>1 DEF Take, CarriedInv
  <2>3. \A u \in Topic : pc[u] # "next" => todo'[u] = todo[u]
    BY <1>4, <1>b DEF Take, CarriedInv, AtHead
  <2>4. \A u \in Topic : pc'[u] # "next" => AtHead(u)'
    BY <1>4, <1>a, <2>3 DEF Take, CarriedInv, AtHead
  <2> QED
    BY <1>4, <1>a, <2>2, <2>4 DEF Take, CarriedInv, outside
<1>5. ASSUME NEW t \in Topic, todo[t] # <<>>
      PROVE  Tail(todo[t]) \in Seq(Good) /\ Head(todo[t]) \in Good
  BY <1>5, <1>b
<1>6. ASSUME NEW t \in Topic, Finish(t), todo[t] # <<>>, bus' = bus,
             row' \in [Keys -> Body \cup {None}],
             given' \subseteq [body : Body, direct : BOOLEAN],
             spent' \in [event : Nat, db : Nat, api : Nat, crash : Nat]
      PROVE  CarriedInv'
  <2>1. todo' \in [Topic -> Seq(Good)]
    BY <1>5, <1>6, <1>b DEF Finish
  <2>2. /\ pc' \in [Topic -> {"next", "store", "direct", "nil"}]
        /\ cur' \in [Topic -> Body \cup {None}]
    BY <1>6, <1>b DEF Finish
  <2>3. ASSUME NEW u \in Topic, pc'[u] # "next" PROVE AtHead(u)'
    <3>1. u # t /\ pc'[u] = pc[u] /\ cur'[u] = cur[u] /\ todo'[u] = todo[u]
      BY <1>6, <1>b, <2>3 DEF Finish
    <3> QED
      BY <1>a, <2>3, <3>1 DEF CarriedInv, AtHead
  <2> QED
    BY <1>6, <1>a, <2>1, <2>2, <2>3 DEF CarriedInv
<1>7. ASSUME NEW t \in Topic, convertToQueueChatMessage(t) PROVE CarriedInv'
  <2>1. todo[t] # <<>> /\ UNCHANGED <<bus, row, given, spent>>
    BY <1>7 DEF convertToQueueChatMessage
  <2>2. CASE Finish(t)
    BY <1>6, <1>a, <2>1, <2>2 DEF CarriedInv
  <2>3. ASSUME NEW p \in Good, p = Head(todo[t]), NEW file \in {p.file, None}, conf.numeric,
               bodyType(p.type) # None,
               cur' = [cur EXCEPT ![t] = [p EXCEPT !.type = bodyType(p.type), !.file = file]],
               pc' = [pc EXCEPT ![t] = Onward(t)], UNCHANGED todo
        PROVE  CarriedInv'
    <3> DEFINE b == [p EXCEPT !.type = bodyType(p.type), !.file = file]
    <3>1. b \in Body
      BY <1>b, <2>3, BodyOfPayload
    <3>2. b.item = p.item /\ b.ev = p.ev
      BY DEF Good, Payload
    <3> HIDE DEF b
    <3>3. /\ cur' \in [Topic -> Body \cup {None}]
          /\ \A u \in Topic \ {t} : cur'[u] = cur[u] /\ pc'[u] = pc[u]
          /\ cur'[t] = b
      BY <1>b, <2>3, <3>1 DEF b
    <3>4. pc' \in [Topic -> {"next", "store", "direct", "nil"}]
      BY <1>b, <2>3 DEF Onward
    <3>5. AtHead(t)'
      BY <1>a, <2>1, <2>3, <3>1, <3>2, <3>3 DEF AtHead
    <3>6. \A u \in Topic : pc'[u] # "next" => AtHead(u)'
      BY <1>a, <2>3, <3>3, <3>5 DEF CarriedInv, AtHead
    <3> QED
      BY <1>a, <2>1, <2>3, <3>3, <3>4, <3>6 DEF CarriedInv
  <2>4. Head(todo[t]) \in Good
    BY <1>5, <2>1
  <2> QED
    BY <1>7, <2>2, <2>3, <2>4 DEF convertToQueueChatMessage
<1>8. ASSUME NEW t \in Topic, Enqueue(t) PROVE CarriedInv'
  <2>1. /\ todo[t] # <<>> /\ cur[t] \in Body /\ cur[t].item \in Item
        /\ UNCHANGED <<bus, given>>
    BY <1>8 DEF Enqueue, CarriedInv, AtHead, Body, Payload
  <2>2. row' \in [Keys -> Body \cup {None}]
    <3>1. Key(cur[t].item) \in Keys
      BY <2>1 DEF Keys
    <3> HIDE DEF Keys
    <3> QED
      BY <1>8, <2>1, <3>1 DEF Enqueue, CarriedInv
  <2>3. spent' \in [event : Nat, db : Nat, api : Nat, crash : Nat]
    BY <1>8, FaultIsTyped DEF Enqueue, CarriedInv
  <2>4. CASE Finish(t)
    BY <1>6, <2>1, <2>2, <2>3, <2>4 DEF CarriedInv
  <2>5. CASE pc' = [pc EXCEPT ![t] = "direct"] /\ UNCHANGED <<todo, cur>>
    <3>1. /\ pc' \in [Topic -> {"next", "store", "direct", "nil"}]
          /\ \A u \in Topic : pc'[u] # "next" => pc[u] # "next"
      BY <1>b, <1>8, <2>5 DEF Enqueue
    <3>2. \A u \in Topic : pc'[u] # "next" => AtHead(u)'
      BY <1>a, <2>5, <3>1 DEF CarriedInv, AtHead
    <3> QED
      BY <1>a, <2>1, <2>2, <2>3, <2>5, <3>1, <3>2 DEF CarriedInv
  <2> QED
    BY <1>8, <2>4, <2>5 DEF Enqueue
<1>9. ASSUME NEW t \in Topic, DirectEnqueue(t) PROVE CarriedInv'
  <2>1. todo[t] # <<>> /\ cur[t] \in Body /\ UNCHANGED <<bus, row>> /\ Finish(t)
    BY <1>9 DEF DirectEnqueue, CarriedInv, AtHead
  <2>2. given' \subseteq [body : Body, direct : BOOLEAN]
    <3>1. given' \subseteq given \cup {[body |-> cur[t], direct |-> TRUE]}
      BY <1>9 DEF DirectEnqueue
    <3>2. [body |-> cur[t], direct |-> TRUE] \in [body : Body, direct : BOOLEAN]
      BY <2>1
    <3> QED
      BY <3>1, <3>2 DEF CarriedInv
  <2>3. spent' \in [event : Nat, db : Nat, api : Nat, crash : Nat]
    BY <1>9, FaultIsTyped DEF DirectEnqueue, CarriedInv
  <2> QED
    BY <1>6, <1>a, <2>1, <2>2, <2>3 DEF CarriedInv
<1>10. ASSUME NEW k \in Keys, Deliver(k) PROVE CarriedInv'
  <2>1. row[k] \in Body /\ UNCHANGED <<bus, todo, pc, cur, spent>>
    BY <1>10 DEF Deliver, CarriedInv, plugin
  <2>2. given' \subseteq [body : Body, direct : BOOLEAN]
    <3>1. given' = given \cup {[body |-> row[k], direct |-> FALSE]}
      BY <1>10 DEF Deliver, Stored
    <3>2. [body |-> row[k], direct |-> FALSE] \in [body : Body, direct : BOOLEAN]
      BY <2>1
    <3> QED
      BY <3>1, <3>2 DEF CarriedInv
  <2>3. row' \in [Keys -> Body \cup {None}]
    BY <1>10 DEF Deliver, CarriedInv
  <2> QED
    BY <1>a, <2>1, <2>2, <2>3 DEF CarriedInv, AtHead
<1>15. ASSUME NEW k \in Keys, MarkSuccess(k) PROVE CarriedInv'
  <2>1. UNCHANGED <<bus, todo, pc, cur, given, spent>>
    BY <1>15 DEF MarkSuccess, plugin
  <2>2. row' \in [Keys -> Body \cup {None}]
    BY <1>15 DEF MarkSuccess, CarriedInv
  <2> QED
    BY <1>a, <2>1, <2>2 DEF CarriedInv, AtHead
<1>11. ASSUME Restart, spent' \in [event : Nat, db : Nat, api : Nat, crash : Nat]
       PROVE  CarriedInv'
  <2>1. todo' \in [Topic -> Seq(Good)]
    BY <1>11 DEF Restart
  <2> QED
    BY <1>11, <1>a, <2>1 DEF Restart, CarriedInv
<1>12. CASE Crash
  BY <1>11, <1>12, FaultIsTyped DEF Crash, CarriedInv
<1>13. CASE Panic
  BY <1>11, <1>13 DEF Panic, CarriedInv
<1>14. CASE UNCHANGED vars
  BY <1>14, <1>a DEF vars, plugin, outside, CarriedInv, AtHead
<1> QED
  BY <1>1, <1>4, <1>7, <1>8, <1>9, <1>10, <1>12, <1>13, <1>14, <1>15 DEF Next

\* At first nothing is carried.
LEMMA CarriedInitially == Init => CarriedInv
<1> SUFFICES ASSUME Init PROVE CarriedInv
  OBVIOUS
<1>1. todo \in [Topic -> Seq(Good)]
  BY DEF Init
<1> QED
  BY <1>1 DEF Init, CarriedInv

\* A body in the table or with the service says what its message holds and who
\* sent it, for all contents, containers and addresses.
THEOREM BodiesAreRight == Spec => []BodyIsRight
<1>1. CarriedInv => BodyIsRight
  <2> SUFFICES ASSUME CarriedInv, NEW b \in Bodies PROVE b \in Body
    BY DEF BodyIsRight, Body, Converted, TypeRight, SourceRight
  <2> QED
    BY DEF CarriedInv, Bodies, InTable
<1> QED
  BY CarriedInitially, Carried, <1>1, PTL DEF Spec

-----------------------------------------------------------------------------
(* Files.  What is under a key was uploaded for a message that came and whose *)
(* file has the key; a body that names a file comes after its upload.        *)

Owns(m, k) == \E via \in {"live", "history"} : k = FileOf(m, via)

Uploaded(b) == b.file # None => files[b.file] # None

FilesInv ==
    /\ files \in [FileKey -> Msg \cup {None}]
    /\ \A k \in FileKey : files[k] # None => files[k] \in came /\ Owns(files[k], k)
    /\ \A e \in bus : \A i \in 1..Len(e.work) : e.work[i].item \in came
    /\ \A t \in Topic : \A i \in 1..Len(todo[t]) : todo[t][i].item \in came
    /\ \A t \in Topic : pc[t] # "next" => Uploaded(cur[t])
    /\ \A k \in Keys : row[k] # None => Uploaded(row[k])
    /\ \A g \in given : Uploaded(g.body)

\* A goroutine finishes with a message.
LEMMA FinishKeepsCame ==
  ASSUME CarriedInv, FilesInv, NEW t \in Topic, todo[t] # <<>>, Finish(t), UNCHANGED came
  PROVE  /\ \A u \in Topic : \A i \in 1..Len(todo'[u]) : todo'[u][i].item \in came'
         /\ \A u \in Topic : pc'[u] # "next" =>
               pc[u] # "next" /\ cur'[u] = cur[u]
<1>1. todo[t] \in Seq(Good) /\ todo \in [Topic -> Seq(Good)]
  BY DEF CarriedInv
<1>2. ASSUME NEW i \in 1..Len(Tail(todo[t])) PROVE Tail(todo[t])[i].item \in came
  <2>1. i + 1 \in 1..Len(todo[t]) /\ Tail(todo[t])[i] = todo[t][i + 1]
    BY <1>1
  <2> QED
    BY <2>1 DEF FilesInv
<1>3. \A u \in Topic : todo'[u] = IF u = t THEN Tail(todo[t]) ELSE todo[u]
  BY <1>1 DEF Finish
<1>4. \A u \in Topic : pc'[u] # "next" => u # t /\ pc[u] # "next" /\ cur'[u] = cur[u]
  BY DEF Finish, CarriedInv
<1> QED
  BY <1>2, <1>3, <1>4 DEF FilesInv

\* Publishing keeps what is known of files and of what came.
LEMMA PublishKeepsFiles ==
  ASSUME CarriedInv, FilesInv, NEW t \in Topic, NEW work \in Seq(Good), publishEvent(t, work)
  PROVE  FilesInv'
<1>1. /\ bus' = bus \cup {[topic |-> t, work |-> work]}
      /\ came' = came \cup {work[i].item : i \in 1..Len(work)}
      /\ UNCHANGED <<conf, content, todo, pc, cur, files, row, given>>
  BY DEF publishEvent, plugin, outside
<1>2. \A e \in bus' : \A i \in 1..Len(e.work) : e.work[i].item \in came'
  BY <1>1 DEF FilesInv
<1>3. \A k \in FileKey : files[k] # None => files[k] \in came' /\ Owns(files[k], k)'
  BY <1>1 DEF FilesInv, Owns, FileOf
<1> QED
  BY <1>1, <1>2, <1>3 DEF FilesInv, Uploaded

\* So does every step: a file is written by the message it is named for, or by
\* one that came with the same name.
LEMMA Files == CarriedInv /\ FilesInv /\ [Next]_vars => FilesInv'
<1> SUFFICES ASSUME CarriedInv, FilesInv, [Next]_vars PROVE FilesInv'
  OBVIOUS
<1>a. UNCHANGED <<conf, content>>
  BY Constant
<1>b. /\ content \in Contents /\ spent.event \in Nat
      /\ todo \in [Topic -> Seq(Good)] /\ cur \in [Topic -> Body \cup {None}]
      /\ pc \in [Topic -> {"next", "store", "direct", "nil"}]
  BY DEF CarriedInv
<1>c. UNCHANGED <<came, files>> =>
        \A k \in FileKey : files'[k] # None => files'[k] \in came' /\ Owns(files[k], k)'
  BY <1>a DEF FilesInv, Owns, FileOf
<1>1. CASE \/ \E m \in Msg : MessageReceived(m)
           \/ \E batch \in Batches : handleHistorySync(batch)
           \/ \E r \in Receipt : ReceiptReceived(r)
  <2>1. PICK t \in Topic, work \in Seq(Good) : publishEvent(t, work)
    BY <1>b, <1>1, Publishes
  <2> QED
    BY <2>1, PublishKeepsFiles
<1>4. ASSUME NEW e \in bus, Take(e) PROVE FilesInv'
  <2>1. /\ bus' \subseteq bus /\ todo' = [todo EXCEPT ![e.topic] = e.work]
        /\ UNCHANGED <<came, pc, cur, files, row, given>>
    BY <1>4 DEF Take, outside
  <2>2. \A t \in Topic : \A i \in 1..Len(todo'[t]) : todo'[t][i].item \in came
    <3>1. \A t \in Topic : todo'[t] = IF t = e.topic THEN e.work ELSE todo[t]
      BY <1>b, <2>1
    <3> QED
      BY <3>1 DEF FilesInv
  <2> QED
    BY <1>c, <2>1, <2>2 DEF FilesInv, Uploaded
<1>5. ASSUME NEW t \in Topic, Finish(t), todo[t] # <<>>, UNCHANGED <<bus, came, files>>,
             \A k \in Keys : row'[k] = row[k] \/ Uploaded(row'[k]),
             \A g \in given' : g \in given \/ Uploaded(g.body)
      PROVE  FilesInv'
  <2>1. /\ \A u \in Topic : \A i \in 1..Len(todo'[u]) : todo'[u][i].item \in came'
        /\ \A u \in Topic : pc'[u] # "next" => pc[u] # "next" /\ cur'[u] = cur[u]
    BY <1>5, FinishKeepsCame
  <2>2. \A k \in Keys : row'[k] # None => Uploaded(row'[k])
    BY <1>5 DEF FilesInv
  <2>3. \A g \in given' : Uploaded(g.body)
    BY <1>5 DEF FilesInv
  <2> QED
    BY <1>5, <1>c, <2>1, <2>2, <2>3 DEF FilesInv, Uploaded
<1>6. ASSUME NEW t \in Topic, convertToQueueChatMessage(t) PROVE FilesInv'
  <2>1. todo[t] # <<>> /\ UNCHANGED <<bus, came, row, given>>
    BY <1>6 DEF convertToQueueChatMessage
  <2>2. CASE Finish(t) /\ UNCHANGED files
    BY <1>5, <2>1, <2>2
  <2>3. ASSUME NEW p, p = Head(todo[t]), NEW file \in {p.file, None}, Upload(p, file),
               cur' = [cur EXCEPT ![t] = [p EXCEPT !.type = bodyType(p.type), !.file = file]],
               pc' = [pc EXCEPT ![t] = Onward(t)], UNCHANGED todo
        PROVE  FilesInv'
    <3>1. p \in Good /\ p.item \in came
      BY <1>b, <2>1, <2>3 DEF FilesInv
    <3>2. /\ p \in Payload
          /\ p.file # None => p.item \in Msg /\ Owns(p.item, p.file) /\ p.file \in FileKey
      BY <3>1 DEF Good, Classified, FileRight, Owns, Payload, Item
    <3>3. None \notin Msg
      BY Types
    <3>4. /\ files' \in [FileKey -> Msg \cup {None}]
          /\ \A k \in FileKey : files[k] # None => files'[k] # None
          /\ file # None => files'[file] # None
          /\ \A k \in FileKey : files'[k] # None => files'[k] \in came /\ Owns(files'[k], k)
      <4>1. CASE UNCHANGED files /\ file = None
        BY <4>1 DEF FilesInv
      <4>2. CASE p.file # None /\ files' = [files EXCEPT ![p.file] = p.item]
        BY <3>1, <3>2, <3>3, <4>2 DEF FilesInv
      <4> QED
        BY <2>3, <4>1, <4>2 DEF Upload
    <3>5. \A k \in FileKey : files'[k] # None => files'[k] \in came' /\ Owns(files[k], k)'
      BY <1>a, <2>1, <3>4 DEF Owns, FileOf
    <3>6. \A b \in Body : Uploaded(b) => Uploaded(b)'
      BY <3>4 DEF Uploaded, Body, Payload
    <3>7. /\ \A u \in Topic \ {t} : cur'[u] = cur[u] /\ pc'[u] = pc[u]
          /\ cur'[t].file = file
      BY <1>b, <2>3, <3>2 DEF Payload
    <3>8. \A u \in Topic : pc'[u] # "next" => Uploaded(cur[u])'
      <4> SUFFICES ASSUME NEW u \in Topic, pc'[u] # "next"
                   PROVE  Uploaded(cur[u])'
        OBVIOUS
      <4>1. CASE u = t
        BY <3>4, <3>7, <4>1 DEF Uploaded
      <4>2. CASE u # t
        <5>1. cur[u] \in Body /\ Uploaded(cur[u]) /\ cur'[u] = cur[u]
          BY <3>7, <4>2 DEF CarriedInv, AtHead, FilesInv
        <5> QED
          BY <3>6, <5>1 DEF Uploaded
      <4> QED
        BY <4>1, <4>2
    <3>9. \A k \in Keys : row'[k] # None => Uploaded(row[k])'
      <4>1. \A k \in Keys : row[k] # None => row[k] \in Body /\ Uploaded(row[k])
        BY DEF CarriedInv, FilesInv
      <4> QED
        BY <2>1, <3>6, <4>1 DEF Uploaded
    <3>10. \A g \in given' : Uploaded(g.body)'
      <4>1. \A g \in given : g.body \in Body /\ Uploaded(g.body)
        BY DEF CarriedInv, FilesInv
      <4> QED
        BY <2>1, <3>6, <4>1 DEF Uploaded
    <3> QED
      BY <2>1, <2>3, <3>4, <3>5, <3>8, <3>9, <3>10 DEF FilesInv
  <2> QED
    BY <1>6, <2>2, <2>3 DEF convertToQueueChatMessage
<1>7. ASSUME NEW t \in Topic, Enqueue(t) PROVE FilesInv'
  <2>1. /\ todo[t] # <<>> /\ Uploaded(cur[t]) /\ UNCHANGED <<bus, came, files, given>>
    BY <1>7 DEF Enqueue, CarriedInv, AtHead, FilesInv
  <2>2. \A k \in Keys : row'[k] = row[k] \/ row'[k] = cur[t]
    BY <1>7 DEF Enqueue, CarriedInv
  <2>3. CASE Finish(t)
    BY <1>5, <2>1, <2>2, <2>3
  <2>4. CASE pc' = [pc EXCEPT ![t] = "direct"] /\ UNCHANGED <<todo, cur>>
    <3>1. \A u \in Topic : pc'[u] # "next" => pc[u] # "next"
      BY <1>b, <1>7, <2>4 DEF Enqueue
    <3> QED
      BY <1>c, <2>1, <2>2, <2>4, <3>1 DEF FilesInv, Uploaded
  <2> QED
    BY <1>7, <2>3, <2>4 DEF Enqueue
<1>8. ASSUME NEW t \in Topic, DirectEnqueue(t) PROVE FilesInv'
  <2>1. /\ todo[t] # <<>> /\ Uploaded(cur[t]) /\ UNCHANGED <<bus, came, files, row>> /\ Finish(t)
    BY <1>8 DEF DirectEnqueue, CarriedInv, AtHead, FilesInv
  <2>2. given' \subseteq given \cup {[body |-> cur[t], direct |-> TRUE]}
    BY <1>8 DEF DirectEnqueue
  <2> QED
    BY <1>5, <2>1, <2>2
<1>9. ASSUME NEW k \in Keys, Deliver(k) PROVE FilesInv'
  <2>1. /\ Uploaded(row[k]) /\ UNCHANGED <<bus, came, todo, pc, cur, files>>
        /\ given' = given \cup {[body |-> row[k], direct |-> FALSE]}
        /\ \A j \in Keys : row'[j] # None => row'[j] = row[j]
    BY <1>9 DEF Deliver, Stored, plugin, FilesInv, CarriedInv
  <2> QED
    BY <1>c, <2>1 DEF FilesInv, Uploaded
<1>13. ASSUME NEW k \in Keys, MarkSuccess(k) PROVE FilesInv'
  <2>1. /\ UNCHANGED <<bus, came, todo, pc, cur, files, given>>
        /\ \A j \in Keys : row'[j] # None => row'[j] = row[j]
    BY <1>13 DEF MarkSuccess, plugin, CarriedInv
  <2> QED
    BY <1>c, <2>1 DEF FilesInv, Uploaded
<1>10. ASSUME Restart PROVE FilesInv'
  <2>1. \A t \in Topic : todo'[t] = <<>> /\ pc'[t] = "next"
    BY <1>10 DEF Restart
  <2> QED
    BY <1>10, <1>c, <2>1 DEF Restart, FilesInv, Uploaded
<1>11. CASE Crash \/ Panic
  BY <1>10, <1>11 DEF Crash, Panic
<1>12. CASE UNCHANGED vars
  BY <1>12, <1>c DEF vars, plugin, outside, FilesInv, Uploaded
<1> QED
  BY <1>1, <1>4, <1>6, <1>7, <1>8, <1>9, <1>11, <1>12, <1>13 DEF Next

\* The file that a body names is that of its message, or of another document of
\* the same name: for any messages, names, syncs and failing uploads.
THEOREM FilesOfBodies == Spec => []FilesAreOwn
<1>1. Init => FilesInv
  BY DEF Init, FilesInv, Topic
<1>2. CarriedInv /\ FilesInv => FilesAreOwn
  <2> SUFFICES ASSUME CarriedInv, FilesInv, NEW b \in Bodies, b.file # None,
                      files[b.file] # b.item
               PROVE  /\ files[b.file] \in came \ {b.item}
                      /\ b.type = "document"
                      /\ Info[files[b.file]].name = Info[b.item].name
    BY DEF FilesAreOwn
  <2>1. b \in Body /\ Uploaded(b)
    BY DEF CarriedInv, FilesInv, Bodies, InTable
  <2>2. /\ b.item \in Msg /\ TypeRight(b) /\ b.type \in Media
        /\ b.file = FileOf(b.item, b.via) /\ b.file \in FileKey
    BY <2>1 DEF Body, Converted, Payload, Item, FileRight
  <2>3. PICK m \in Msg : m = files[b.file] /\ m \in came /\ Owns(m, b.file) /\ m # b.item
    BY <2>1, <2>2 DEF FilesInv, Uploaded
  <2>4. \A x, y \in Msg : Info[x].name # y
    BY Types DEF Source
  <2>5. /\ "document" \in content[b.item].fields
        /\ Info[m].name = Info[b.item].name
    BY <2>2, <2>3, <2>4 DEF Owns, FileOf
  <2>6. b.type = "document"
    <3>1. Seen(content[b.item]) # {}
      BY <2>2 DEF TypeRight, Media
    <3>2. "document" \in Seen(content[b.item])
      BY <2>5, <3>1 DEF Seen, Known, Media
    <3> QED
      BY <2>2, <3>2 DEF TypeRight
  <2> QED
    BY <2>3, <2>5, <2>6
<1> QED
  BY CarriedInitially, Carried, Files, <1>1, <1>2, PTL DEF Spec
-----------------------------------------------------------------------------
(* Handing over.  Events are numbered: what waits, is stored or was given has *)
(* a number of its own, but for the row that the service took and that is     *)
(* still there.  What came waits, is there, or was lost for cause.            *)

\* No two messages that wait have the same number.
WaitingInv ==
    /\ \A e, f \in bus : \A i \in 1..Len(e.work) : \A j \in 1..Len(f.work) :
          e.work[i].ev = f.work[j].ev => e = f /\ i = j
    /\ \A e \in bus : \A i \in 1..Len(e.work) :
          \A t \in Topic : \A j \in 1..Len(todo[t]) : e.work[i].ev # todo[t][j].ev
    /\ \A t, u \in Topic : \A i \in 1..Len(todo[t]) : \A j \in 1..Len(todo[u]) :
          todo[t][i].ev = todo[u][j].ev => t = u /\ i = j
    /\ \A e \in bus : \A i \in 1..Len(e.work) : e.work[i].ev[1] < spent.event
    /\ \A t \in Topic : \A i \in 1..Len(todo[t]) : todo[t][i].ev[1] < spent.event

\* Nothing in the table or with the service has the number.
Clear(ev) ==
    /\ \A k \in Keys : row[k] # None => row[k].ev # ev
    /\ \A g \in given : g.body.ev # ev

NumberInv ==
    /\ \A e \in bus : \A i \in 1..Len(e.work) : Clear(e.work[i].ev)
    /\ \A t \in Topic : \A i \in 1..Len(todo[t]) : Clear(todo[t][i].ev)
    /\ \A k, l \in Keys : row[k] # None /\ row[l] # None /\ row[k].ev = row[l].ev => k = l
    /\ \A k \in Keys : \A g \in given :
          row[k] # None /\ g.body.ev = row[k].ev => g = [body |-> row[k], direct |-> FALSE]
    /\ \A g, h \in given : g.body.ev = h.body.ev => g = h
    /\ \A k \in Keys : row[k] # None => row[k].ev[1] < spent.event
    /\ \A g \in given : g.body.ev[1] < spent.event

There(x) == \E b \in Bodies : b.item = x

Accounted(x) == Underway(x) \/ There(x) \/ LostForCause(x)

\* Receipts are with the goroutine of receipts, and nothing else is; what is
\* sent directly is a message, without a table or after it failed.
AccountInv ==
    /\ panics \in Nat
    /\ \A e \in bus : \A i \in 1..Len(e.work) :
          e.topic = "read" <=> e.work[i].item \in Receipt
    /\ \A t \in Topic : \A i \in 1..Len(todo[t]) :
          t = "read" <=> todo[t][i].item \in Receipt
    /\ \A t \in Topic : pc[t] = "direct" => t # "read" /\ (spent.db > 0 \/ ~conf.persistent)
    /\ \A k \in Keys : row[k] # None => Key(row[k].item) = k /\ row[k].item \in came
    /\ \A x \in came : Wanted(x) => Accounted(x)

\* What is wanted becomes a body.
LEMMA WantedConverts ==
  ASSUME content \in Contents, NEW p \in Good, Wanted(p.item)
  PROVE  conf.numeric /\ bodyType(p.type) # None
<1>1. p \in Payload /\ Classified(p) /\ conf.numeric
  BY DEF Good, Wanted
<1>2. \A type \in Kind : type # None
  BY NothingIsNone
<1>3. p.type \notin Noise \cup {"delivered"} => bodyType(p.type) # None
  BY <1>1, <1>2 DEF bodyType, Kind, Payload
<1>4. CASE p.item \in Receipt
  <2>1. p.type = "read"
    BY <1>1, <1>4, Types DEF Wanted, Classified
  <2> QED
    BY <1>1, <1>3, <2>1 DEF Noise
<1>5. CASE p.item \in Msg
  <2> DEFINE c == content[p.item]
             fields == unwrap(c)
  <2>1. p.type = classify(fields) /\ Single(fields)
    BY <1>1, <1>5, Unwrapped DEF Classified
  <2>2. /\ c.wraps \in Nat
        /\ c.wraps <= MaxUnwrap => fields = c.fields
        /\ c.wraps > MaxUnwrap => fields = {"other"}
        /\ c.fields \subseteq Named \cup {TheKey, "other"} /\ Single(c.fields)
    BY <1>5, ContentIsTyped, Unwrapped
  <2>3. \/ c.wraps > MaxUnwrap \/ c.fields = {}
        \/ \E f \in c.fields \ Noise : f # "other" \/ TheKey \notin c.fields
    BY <1>5 DEF Wanted, TheKey
  <2> HIDE DEF c, fields
  <2>4. /\ \A f \in Named : f \in fields => classify(fields) = f
        /\ TheKey \notin fields /\ fields \cap Named = {} => classify(fields) = "unknown"
    BY <2>1, ContentDecides
  <2>5. /\ "other" \notin Named /\ TheKey \in Noise /\ TheKey \notin Named
        /\ "other" # TheKey
        /\ "unknown" \notin Noise /\ "unknown" # "delivered" /\ "delivered" \notin Named
    BY DEF Named, TheKey, Noise
  <2>6. CASE c.wraps > MaxUnwrap \/ c.fields = {}
    <3>1. fields = {} \/ fields = {"other"}
      BY <2>2, <2>6 DEF MaxUnwrap
    <3>2. classify(fields) = "unknown"
      BY <2>4, <2>5, <3>1
    <3> QED
      BY <1>1, <1>3, <2>1, <2>5, <3>2
  <2>7. CASE c.wraps <= MaxUnwrap /\ (\E f \in c.fields \ Noise : f # "other" \/ TheKey \notin c.fields)
    <3>1. PICK f \in fields \ Noise : f # "other" \/ TheKey \notin fields
      BY <2>2, <2>7
    <3>2. CASE f \in Named
      BY <1>1, <1>3, <2>1, <2>4, <2>5, <3>1, <3>2
    <3>3. CASE f = "other"
      <4>1. TheKey \notin fields /\ fields \cap Named = {}
        <5>1. \A g \in fields : g = TheKey \/ g = "other"
          <6>1. "other" \in fields \ {TheKey}
            BY <2>5, <3>1, <3>3
          <6> QED
            BY <2>1, <6>1 DEF Single
        <5> QED
          BY <2>5, <3>1, <3>3, <5>1
      <4> QED
        BY <1>1, <1>3, <2>1, <2>4, <2>5, <4>1
    <3> QED
      BY <2>2, <2>5, <2>7, <3>1, <3>2, <3>3
  <2> QED
    BY <2>2, <2>3, <2>6, <2>7 DEF MaxUnwrap
<1> QED
  BY <1>1, <1>4, <1>5 DEF Payload, Item

\* Faults and events are counted up, and the table and the service lose no body
\* together.
LEMMA NothingIsForgotten ==
  ASSUME CarriedInv, panics \in Nat, [Next]_vars
  PROVE  /\ \A x : There(x) => There(x)'
         /\ \A x : LostForCause(x) => LostForCause(x)'
         /\ came \subseteq came'
<1>1. /\ spent.db \in Nat /\ spent.api \in Nat /\ spent.crash \in Nat /\ spent.event \in Nat
      /\ conf' = conf
  BY Constant DEF CarriedInv
<1>2. /\ spent'.db \in Nat /\ spent'.api \in Nat /\ spent'.crash \in Nat
  BY Carried DEF CarriedInv
<1>3. /\ came \subseteq came' /\ panics' \in Nat /\ panics' >= panics
      /\ spent'.db >= spent.db /\ spent'.api >= spent.api /\ spent'.crash >= spent.crash
  <2>1. CASE UNCHANGED <<came, panics>> /\ (UNCHANGED spent \/ \E kind \in {"db", "api", "crash"} : Fault(kind))
    BY <1>1, <2>1, FaultIsTyped DEF CarriedInv
  <2>2. ASSUME NEW t, NEW work, publishEvent(t, work)
        PROVE  /\ came \subseteq came' /\ UNCHANGED panics
               /\ spent'.db = spent.db /\ spent'.api = spent.api /\ spent'.crash = spent.crash
    <3>1. spent' = [spent EXCEPT !.event = @ + 1] /\ came \subseteq came' /\ UNCHANGED panics
      BY <2>2 DEF publishEvent, outside
    <3> QED
      BY <3>1 DEF CarriedInv
  <2>3. CASE \/ \E m \in Msg : MessageReceived(m)
             \/ \E batch \in Batches : handleHistorySync(batch)
             \/ \E r \in Receipt : ReceiptReceived(r)
    <3>1. PICK t \in Topic, work \in Seq(Good) : publishEvent(t, work)
      BY <1>1, <2>3, Publishes DEF CarriedInv
    <3> QED
      BY <1>1, <2>2, <3>1
  <2>4. CASE Panic
    BY <1>1, <2>4 DEF Panic, Restart
  <2>5. CASE Crash
    BY <2>1, <2>5 DEF Crash, Restart
  <2>6. CASE \/ \E e \in bus : Take(e)
             \/ \E t \in Topic :
                   convertToQueueChatMessage(t) \/ Enqueue(t) \/ DirectEnqueue(t)
             \/ \E k \in Keys : Deliver(k) \/ MarkSuccess(k)
    BY <2>1, <2>6 DEF Take, convertToQueueChatMessage, Enqueue, DirectEnqueue, Deliver,
       MarkSuccess, outside
  <2>7. CASE UNCHANGED vars
    BY <2>1, <2>7 DEF vars, outside
  <2> QED
    BY <2>3, <2>4, <2>5, <2>6, <2>7 DEF Next
<1>4. \A x : LostForCause(x) => LostForCause(x)'
  BY <1>1, <1>2, <1>3 DEF LostForCause
<1>5. \A k \in Keys : row[k] # None => row'[k] = row[k] \/ [body |-> row[k], direct |-> FALSE] \in given'
  <2>1. CASE UNCHANGED row
    BY <2>1
  <2>2. ASSUME NEW t \in Topic, Enqueue(t) PROVE \A k \in Keys : row[k] # None => row'[k] = row[k]
    BY <2>2 DEF Enqueue, CarriedInv
  <2>3. ASSUME NEW l \in Keys, MarkSuccess(l)
        PROVE  \A k \in Keys : row[k] # None =>
                  row'[k] = row[k] \/ [body |-> row[k], direct |-> FALSE] \in given'
    BY <2>3 DEF MarkSuccess, Stored, CarriedInv
  <2> QED
    BY <2>1, <2>2, <2>3 DEF Next, MessageReceived, handleHistorySync, ReceiptReceived,
       publishEvent, Take, convertToQueueChatMessage, DirectEnqueue, Deliver, Crash, Panic,
       Restart, vars, outside
<1>6. given \subseteq given'
  BY DEF Next, MessageReceived, handleHistorySync, ReceiptReceived, publishEvent, Take,
     convertToQueueChatMessage, Enqueue, DirectEnqueue, Deliver, MarkSuccess, Crash, Panic,
     Restart, vars, outside
<1>7. \A b \in Bodies : b \in Bodies'
  <2> SUFFICES ASSUME NEW b \in Bodies PROVE b \in Bodies'
    OBVIOUS
  <2>1. CASE b \in {g.body : g \in given}
    BY <1>6, <2>1 DEF Bodies
  <2>2. ASSUME NEW k \in Keys, row[k] # None, b = row[k] PROVE b \in Bodies'
    <3>1. CASE row'[k] = row[k]
      BY <2>2, <3>1 DEF Bodies, InTable
    <3>2. CASE [body |-> row[k], direct |-> FALSE] \in given'
      BY <2>2, <3>2 DEF Bodies
    <3> QED
      BY <1>5, <2>2, <3>1, <3>2
  <2> QED
    BY <2>1, <2>2 DEF Bodies, InTable
<1> QED
  BY <1>3, <1>4, <1>7 DEF There

\* A goroutine that is done with a message has the others left.
LEMMA FinishLeaves ==
  ASSUME CarriedInv, NEW t \in Topic, todo[t] # <<>>, Finish(t)
  PROVE  /\ Len(todo'[t]) = Len(todo[t]) - 1 /\ Len(todo[t]) \in Nat
         /\ \A i \in 1..Len(todo'[t]) : /\ i + 1 \in 2..Len(todo[t])
                                        /\ i + 1 \in 1..Len(todo[t])
                                        /\ todo'[t][i] = todo[t][i + 1]
         /\ \A j \in 2..Len(todo[t]) : \E i \in 1..Len(todo'[t]) : todo'[t][i] = todo[t][j]
         /\ \A u \in Topic : u # t => todo'[u] = todo[u]
         /\ \A u \in Topic : pc'[u] # "next" => u # t /\ pc'[u] = pc[u]
         /\ Head(todo[t]) = todo[t][1] /\ 1 \in 1..Len(todo[t])
<1>1. todo[t] \in Seq(Good) /\ todo \in [Topic -> Seq(Good)]
  BY DEF CarriedInv
<1>2. \A u \in Topic : todo'[u] = IF u = t THEN Tail(todo[t]) ELSE todo[u]
  BY <1>1 DEF Finish
<1>3. /\ Len(Tail(todo[t])) = Len(todo[t]) - 1
      /\ \A i \in 1..(Len(todo[t]) - 1) : Tail(todo[t])[i] = todo[t][i + 1]
      /\ Head(todo[t]) = todo[t][1] /\ 1 \in 1..Len(todo[t]) /\ Len(todo[t]) \in Nat
  BY <1>1
<1>4. todo'[t] = Tail(todo[t])
  BY <1>2
<1>5. ASSUME NEW i \in 1..Len(todo'[t])
      PROVE  /\ i + 1 \in 2..Len(todo[t]) /\ i + 1 \in 1..Len(todo[t])
             /\ todo'[t][i] = todo[t][i + 1]
  BY <1>3, <1>4
<1>6. ASSUME NEW j \in 2..Len(todo[t])
      PROVE  \E i \in 1..Len(todo'[t]) : todo'[t][i] = todo[t][j]
  <2>1. j - 1 \in 1..(Len(todo[t]) - 1) /\ (j - 1) + 1 = j
    BY <1>3
  <2>2. todo'[t][j - 1] = todo[t][j]
    BY <1>3, <1>4, <2>1
  <2>3. j - 1 \in 1..Len(todo'[t])
    BY <1>3, <1>4, <2>1
  <2> QED
    BY <2>2, <2>3
<1>7. \A u \in Topic : pc'[u] # "next" => u # t /\ pc'[u] = pc[u]
  BY DEF Finish, CarriedInv
<1> QED
  BY <1>2, <1>3, <1>4, <1>5, <1>6, <1>7

\* What a goroutine does with its message: it ends with it, or keeps it, with or
\* without a fault that leaves the table and the service as they are.
LEMMA HandlerSteps ==
  ASSUME CarriedInv, NEW t \in Topic,
         convertToQueueChatMessage(t) \/ Enqueue(t) \/ DirectEnqueue(t)
  PROVE  /\ todo[t] # <<>> /\ UNCHANGED <<conf, content, bus, came, panics>>
         /\ spent'.event = spent.event
         /\ Finish(t) \/ UNCHANGED <<todo, row, given>>
<1>1. todo[t] # <<>>
  BY DEF convertToQueueChatMessage, Enqueue, DirectEnqueue, CarriedInv, AtHead
<1>2. UNCHANGED <<conf, content, bus, came, panics>>
  BY DEF convertToQueueChatMessage, Enqueue, DirectEnqueue
<1>3. spent'.event = spent.event
  BY FaultIsTyped DEF convertToQueueChatMessage, Enqueue, DirectEnqueue, CarriedInv
<1>4. Finish(t) \/ UNCHANGED <<todo, row, given>>
  BY DEF convertToQueueChatMessage, Enqueue, DirectEnqueue
<1> QED
  BY <1>1, <1>2, <1>3, <1>4

\* Each step keeps the messages that wait apart by their numbers.
LEMMA Waiting == CarriedInv /\ WaitingInv /\ [Next]_vars => WaitingInv'
<1> SUFFICES ASSUME CarriedInv, WaitingInv, [Next]_vars PROVE WaitingInv'
  OBVIOUS
<1>a. content \in Contents /\ spent.event \in Nat /\ todo \in [Topic -> Seq(Good)]
  BY DEF CarriedInv
<1>b. /\ \A e \in bus : \A i \in 1..Len(e.work) : e.work[i].ev[1] \in Nat
      /\ \A t \in Topic : \A i \in 1..Len(todo[t]) : todo[t][i].ev[1] \in Nat
  <2>1. \A work \in Seq(Good) : \A i \in 1..Len(work) : work[i].ev[1] \in Nat
    <3>1. \A p \in Good : p.ev \in Nat \X Nat
      BY DEF Good, Payload
    <3> QED
      BY <3>1
  <2> QED
    BY <1>a, <2>1 DEF CarriedInv, Event
<1>1. CASE \/ \E m \in Msg : MessageReceived(m)
           \/ \E batch \in Batches : handleHistorySync(batch)
           \/ \E r \in Receipt : ReceiptReceived(r)
  <2>1. PICK t \in Topic, work \in Seq(Good) :
          /\ publishEvent(t, work)
          /\ \A i \in 1..Len(work) : work[i].ev = <<spent.event, i>>
    BY <1>a, <1>1, Publishes
  <2>2. /\ bus' = bus \cup {[topic |-> t, work |-> work]} /\ UNCHANGED todo
        /\ spent'.event = spent.event + 1
    BY <2>1 DEF publishEvent, plugin, CarriedInv
  <2>3. \A i \in 1..Len(work) : work[i].ev[1] = spent.event /\ work[i].ev[2] = i
    BY <2>1
  <2>4. \A e, f \in bus' : \A i \in 1..Len(e.work) : \A j \in 1..Len(f.work) :
           e.work[i].ev = f.work[j].ev => e = f /\ i = j
    <3> SUFFICES ASSUME NEW e \in bus', NEW f \in bus',
                        NEW i \in 1..Len(e.work), NEW j \in 1..Len(f.work),
                        e.work[i].ev = f.work[j].ev
                 PROVE  e = f /\ i = j
      OBVIOUS
    <3>1. CASE e \in bus /\ f \in bus
      BY <3>1 DEF WaitingInv
    <3>2. CASE e \notin bus /\ f \notin bus
      <4>1. e = f /\ e.work = work
        BY <2>2, <3>2
      <4> QED
        BY <2>3, <4>1
    <3>3. CASE e \in bus /\ f \notin bus
      <4>1. f.work = work
        BY <2>2, <3>3
      <4> QED
        BY <1>a, <1>b, <2>3, <3>3, <4>1 DEF WaitingInv
    <3>4. CASE e \notin bus /\ f \in bus
      <4>1. e.work = work
        BY <2>2, <3>4
      <4> QED
        <5>1. e.work[i].ev[1] = spent.event
          BY <2>3, <4>1
        <5>2. f.work[j].ev[1] < spent.event /\ f.work[j].ev[1] \in Nat
          BY <1>b, <3>4 DEF WaitingInv
        <5> QED
          BY <1>a, <5>1, <5>2
    <3> QED
      BY <3>1, <3>2, <3>3, <3>4
  <2>5. \A e \in bus' : \A i \in 1..Len(e.work) :
           /\ e.work[i].ev[1] < spent'.event
           /\ \A u \in Topic : \A j \in 1..Len(todo[u]) : e.work[i].ev # todo[u][j].ev
    <3> SUFFICES ASSUME NEW e \in bus', NEW i \in 1..Len(e.work)
                 PROVE  /\ e.work[i].ev[1] < spent'.event
                        /\ \A u \in Topic : \A j \in 1..Len(todo[u]) : e.work[i].ev # todo[u][j].ev
      OBVIOUS
    <3>1. CASE e \in bus
      BY <1>a, <1>b, <2>2, <3>1 DEF WaitingInv
    <3>2. CASE e \notin bus
      <4>1. e.work = work
        BY <2>2, <3>2
      <4> QED
        BY <1>a, <1>b, <2>2, <2>3, <4>1 DEF WaitingInv
    <3> QED
      BY <3>1, <3>2
  <2>6. \A u \in Topic : \A i \in 1..Len(todo[u]) : todo[u][i].ev[1] < spent'.event
    BY <1>a, <1>b, <2>2 DEF WaitingInv
  <2> QED
    <3>1. \A e \in bus' : \A i \in 1..Len(e.work) :
             \A u \in Topic : \A j \in 1..Len(todo'[u]) : e.work[i].ev # todo'[u][j].ev
      BY <2>2, <2>5
    <3>2. \A e \in bus' : \A i \in 1..Len(e.work) : e.work[i].ev[1] < spent'.event
      BY <2>5
    <3>3. \A u, v \in Topic : \A i \in 1..Len(todo'[u]) : \A j \in 1..Len(todo'[v]) :
             todo'[u][i].ev = todo'[v][j].ev => u = v /\ i = j
      BY <2>2 DEF WaitingInv
    <3>4. \A u \in Topic : \A i \in 1..Len(todo'[u]) : todo'[u][i].ev[1] < spent'.event
      BY <2>2, <2>6
    <3> QED
      BY <2>4, <3>1, <3>2, <3>3, <3>4 DEF WaitingInv
<1>2. ASSUME NEW e \in bus, Take(e) PROVE WaitingInv'
  <2>1. /\ bus' = bus \ {e} /\ UNCHANGED spent
        /\ \A u \in Topic : todo'[u] = IF u = e.topic THEN e.work ELSE todo[u]
    BY <1>2, <1>a DEF Take
  <2>2. \A t, u \in Topic : \A i \in 1..Len(todo'[t]) : \A j \in 1..Len(todo'[u]) :
           todo'[t][i].ev = todo'[u][j].ev => t = u /\ i = j
    <3> SUFFICES ASSUME NEW t \in Topic, NEW u \in Topic,
                        NEW i \in 1..Len(todo'[t]), NEW j \in 1..Len(todo'[u]),
                        todo'[t][i].ev = todo'[u][j].ev
                 PROVE  t = u /\ i = j
      OBVIOUS
    <3>1. CASE t = e.topic /\ u = e.topic
      BY <2>1, <3>1 DEF WaitingInv
    <3>2. CASE t # e.topic /\ u # e.topic
      BY <2>1, <3>2 DEF WaitingInv
    <3>3. CASE t = e.topic /\ u # e.topic
      BY <2>1, <3>3 DEF WaitingInv
    <3>4. CASE t # e.topic /\ u = e.topic
      BY <2>1, <3>4 DEF WaitingInv
    <3> QED
      BY <3>1, <3>2, <3>3, <3>4
  <2>3. \A f \in bus' : \A i \in 1..Len(f.work) :
           \A t \in Topic : \A j \in 1..Len(todo'[t]) : f.work[i].ev # todo'[t][j].ev
    BY <2>1 DEF WaitingInv
  <2>4. \A t \in Topic : \A i \in 1..Len(todo'[t]) : todo'[t][i].ev[1] < spent.event
    BY <2>1 DEF WaitingInv
  <2> QED
    BY <2>1, <2>2, <2>3, <2>4 DEF WaitingInv
<1>3. ASSUME NEW t \in Topic,
             convertToQueueChatMessage(t) \/ Enqueue(t) \/ DirectEnqueue(t)
      PROVE  WaitingInv'
  <2>1. todo[t] # <<>> /\ UNCHANGED bus /\ spent'.event = spent.event
    BY <1>3, HandlerSteps
  <2>2. CASE Finish(t)
    <3>1. /\ \A i \in 1..Len(todo'[t]) : /\ i + 1 \in 1..Len(todo[t])
                                         /\ todo'[t][i] = todo[t][i + 1]
          /\ \A u \in Topic : u # t => todo'[u] = todo[u]
      BY <2>1, <2>2, FinishLeaves
    <3>2. \A u, v \in Topic : \A i \in 1..Len(todo'[u]) : \A j \in 1..Len(todo'[v]) :
             todo'[u][i].ev = todo'[v][j].ev => u = v /\ i = j
      <4> SUFFICES ASSUME NEW u \in Topic, NEW v \in Topic,
                          NEW i \in 1..Len(todo'[u]), NEW j \in 1..Len(todo'[v]),
                          todo'[u][i].ev = todo'[v][j].ev
                   PROVE  u = v /\ i = j
        OBVIOUS
      <4>1. CASE u = t /\ v = t
        <5>1. todo[t][i + 1].ev = todo[t][j + 1].ev /\ i + 1 \in 1..Len(todo[t]) /\ j + 1 \in 1..Len(todo[t])
          BY <3>1, <4>1
        <5>2. i + 1 = j + 1
          BY <5>1 DEF WaitingInv
        <5> QED
          BY <4>1, <5>2
      <4>2. CASE u = t /\ v # t
        <5>1. /\ todo[t][i + 1].ev = todo[v][j].ev
              /\ i + 1 \in 1..Len(todo[t]) /\ j \in 1..Len(todo[v])
          BY <3>1, <4>2
        <5> QED
          BY <4>2, <5>1 DEF WaitingInv
      <4>3. CASE u # t /\ v = t
        <5>1. /\ todo[u][i].ev = todo[t][j + 1].ev
              /\ i \in 1..Len(todo[u]) /\ j + 1 \in 1..Len(todo[t])
          BY <3>1, <4>3
        <5> QED
          BY <4>3, <5>1 DEF WaitingInv
      <4>4. CASE u # t /\ v # t
        BY <3>1, <4>4 DEF WaitingInv
      <4> QED
        BY <4>1, <4>2, <4>3, <4>4
    <3>3. /\ \A e \in bus : \A i \in 1..Len(e.work) :
                \A u \in Topic : \A j \in 1..Len(todo'[u]) : e.work[i].ev # todo'[u][j].ev
          /\ \A u \in Topic : \A i \in 1..Len(todo'[u]) : todo'[u][i].ev[1] < spent.event
      <4> SUFFICES ASSUME NEW u \in Topic, NEW j \in 1..Len(todo'[u])
                   PROVE  /\ todo'[u][j].ev[1] < spent.event
                          /\ \A e \in bus : \A i \in 1..Len(e.work) : e.work[i].ev # todo'[u][j].ev
        OBVIOUS
      <4>1. CASE u = t
        BY <3>1, <4>1 DEF WaitingInv
      <4>2. CASE u # t
        BY <3>1, <4>2 DEF WaitingInv
      <4> QED
        BY <4>1, <4>2
    <3> QED
      BY <2>1, <3>2, <3>3 DEF WaitingInv
  <2>3. CASE UNCHANGED <<todo, row, given>>
    BY <2>1, <2>3 DEF WaitingInv
  <2> QED
    BY <1>3, <2>2, <2>3, HandlerSteps
<1>4. ASSUME Restart PROVE WaitingInv'
  <2>1. bus' = {} /\ \A t \in Topic : todo'[t] = <<>>
    BY <1>4 DEF Restart
  <2> QED
    BY <2>1 DEF WaitingInv
<1>5. ASSUME UNCHANGED <<bus, todo, spent>> PROVE WaitingInv'
  BY <1>5 DEF WaitingInv
<1> QED
  BY <1>1, <1>2, <1>3, <1>4, <1>5 DEF Next, Deliver, MarkSuccess, Crash, Panic,
     plugin, vars

\* What a goroutine ends with is not among what waits.
LEMMA EndsWith ==
  ASSUME CarriedInv, WaitingInv, NEW t \in Topic, todo[t] # <<>>, Finish(t), UNCHANGED bus
  PROVE  /\ \A e \in bus' : \A i \in 1..Len(e.work) : e.work[i].ev # Head(todo[t]).ev
         /\ \A u \in Topic : \A i \in 1..Len(todo'[u]) : todo'[u][i].ev # Head(todo[t]).ev
<1>1. Head(todo[t]) = todo[t][1] /\ 1 \in 1..Len(todo[t])
  BY FinishLeaves
<1>2. \A e \in bus : \A i \in 1..Len(e.work) : e.work[i].ev # todo[t][1].ev
  BY <1>1 DEF WaitingInv
<1>3. ASSUME NEW u \in Topic, NEW i \in 1..Len(todo'[u])
      PROVE  todo'[u][i].ev # todo[t][1].ev
  <2>1. CASE u = t
    <3>1. i + 1 \in 2..Len(todo[t]) /\ i + 1 \in 1..Len(todo[t]) /\ todo'[t][i] = todo[t][i + 1]
      BY <2>1, FinishLeaves
    <3>2. i + 1 # 1
      BY <3>1
    <3> QED
      BY <1>1, <2>1, <3>1, <3>2 DEF WaitingInv
  <2>2. CASE u # t
    <3>1. todo'[u] = todo[u]
      BY <2>2, FinishLeaves
    <3> QED
      BY <1>1, <2>2, <3>1 DEF WaitingInv
  <2> QED
    BY <2>1, <2>2
<1> QED
  BY <1>1, <1>2, <1>3

\* What waits after a message is done with was clear before, and has not its number.
LEMMA ClearAfter ==
  ASSUME CarriedInv, WaitingInv, NumberInv, NEW t \in Topic, todo[t] # <<>>, Finish(t),
         UNCHANGED bus
  PROVE  /\ Clear(Head(todo[t]).ev) /\ Head(todo[t]).ev[1] < spent.event
         /\ \A e \in bus' : \A i \in 1..Len(e.work) :
               Clear(e.work[i].ev) /\ e.work[i].ev # Head(todo[t]).ev
         /\ \A u \in Topic : \A i \in 1..Len(todo'[u]) :
               Clear(todo'[u][i].ev) /\ todo'[u][i].ev # Head(todo[t]).ev
<1>1. Head(todo[t]) = todo[t][1] /\ 1 \in 1..Len(todo[t])
  BY FinishLeaves
<1>2. Clear(Head(todo[t]).ev) /\ Head(todo[t]).ev[1] < spent.event
  BY <1>1 DEF NumberInv, WaitingInv
<1>3. \A e \in bus' : \A i \in 1..Len(e.work) :
         Clear(e.work[i].ev) /\ e.work[i].ev # Head(todo[t]).ev
  BY EndsWith DEF NumberInv
<1>4. ASSUME NEW u \in Topic, NEW i \in 1..Len(todo'[u])
      PROVE  Clear(todo'[u][i].ev)
  <2>1. CASE u = t
    <3>1. i + 1 \in 1..Len(todo[t]) /\ todo'[t][i] = todo[t][i + 1]
      BY <2>1, FinishLeaves
    <3> QED
      BY <2>1, <3>1 DEF NumberInv
  <2>2. CASE u # t
    <3>1. todo'[u] = todo[u]
      BY <2>2, FinishLeaves
    <3> QED
      BY <2>2, <3>1 DEF NumberInv
  <2> QED
    BY <2>1, <2>2
<1> QED
  BY <1>2, <1>3, <1>4, EndsWith

\* The numbers stay so, when what waits does and the table and the service keep.
LEMMA NumbersKept ==
  ASSUME NumberInv, UNCHANGED <<row, given>>, spent.event \in Nat, spent'.event \in Nat,
         spent'.event >= spent.event,
         \A k \in Keys : row[k] # None => row[k].ev[1] \in Nat,
         \A g \in given : g.body.ev[1] \in Nat,
         \A e \in bus' : \A i \in 1..Len(e.work) : Clear(e.work[i].ev),
         \A t \in Topic : \A i \in 1..Len(todo'[t]) : Clear(todo'[t][i].ev)
  PROVE  NumberInv'
<1>1. \A ev : Clear(ev) => Clear(ev)'
  BY DEF Clear
<1>2. /\ \A e \in bus' : \A i \in 1..Len(e.work) : Clear(e.work[i].ev)'
      /\ \A t \in Topic : \A i \in 1..Len(todo'[t]) : Clear(todo[t][i].ev)'
  BY DEF Clear
<1>3. /\ \A k \in Keys : row'[k] # None => row'[k].ev[1] < spent'.event
      /\ \A g \in given' : g.body.ev[1] < spent'.event
  BY DEF NumberInv
<1> QED
  BY <1>2, <1>3 DEF NumberInv

\* Each step keeps the numbers of events apart: what is in the table or with the
\* service is not also waiting.
LEMMA Numbers == CarriedInv /\ WaitingInv /\ NumberInv /\ [Next]_vars => NumberInv'
<1> SUFFICES ASSUME CarriedInv, WaitingInv, NumberInv, [Next]_vars PROVE NumberInv'
  OBVIOUS
<1>a. /\ content \in Contents /\ spent.event \in Nat /\ todo \in [Topic -> Seq(Good)]
      /\ row \in [Keys -> Body \cup {None}]
  BY DEF CarriedInv
<1>b. /\ \A k \in Keys : row[k] # None => row[k].ev[1] \in Nat
      /\ \A g \in given : g.body.ev[1] \in Nat
  <2>1. \A b \in Body : b.ev[1] \in Nat
    <3>1. \A b \in Body : b.ev \in Nat \X Nat
      BY DEF Body, Payload
    <3> QED
      BY <3>1
  <2> QED
    BY <2>1 DEF CarriedInv
<1>1. CASE \/ \E m \in Msg : MessageReceived(m)
           \/ \E batch \in Batches : handleHistorySync(batch)
           \/ \E r \in Receipt : ReceiptReceived(r)
  <2>1. PICK t \in Topic, work \in Seq(Good) :
          /\ publishEvent(t, work)
          /\ \A i \in 1..Len(work) : work[i].ev = <<spent.event, i>>
    BY <1>a, <1>1, Publishes
  <2>2. /\ bus' = bus \cup {[topic |-> t, work |-> work]} /\ UNCHANGED <<todo, row, given>>
        /\ spent'.event = spent.event + 1
    BY <2>1 DEF publishEvent, plugin, outside, CarriedInv
  <2>3. ASSUME NEW i \in 1..Len(work) PROVE Clear(work[i].ev)
    <3>1. work[i].ev[1] = spent.event
      BY <2>1
    <3> QED
      BY <1>a, <1>b, <3>1 DEF Clear, NumberInv
  <2>4. \A e \in bus' : \A i \in 1..Len(e.work) : Clear(e.work[i].ev)
    BY <2>2, <2>3 DEF NumberInv
  <2>5. \A u \in Topic : \A i \in 1..Len(todo'[u]) : Clear(todo'[u][i].ev)
    BY <2>2 DEF NumberInv
  <2> QED
    BY <1>a, <1>b, <2>2, <2>4, <2>5, NumbersKept
<1>2. ASSUME NEW e \in bus, Take(e) PROVE NumberInv'
  <2>1. /\ bus' \subseteq bus /\ UNCHANGED <<row, given, spent>>
        /\ \A u \in Topic : todo'[u] = IF u = e.topic THEN e.work ELSE todo[u]
    BY <1>2, <1>a DEF Take, outside
  <2>2. \A f \in bus' : \A i \in 1..Len(f.work) : Clear(f.work[i].ev)
    BY <2>1 DEF NumberInv
  <2>3. \A u \in Topic : \A i \in 1..Len(todo'[u]) : Clear(todo'[u][i].ev)
    BY <2>1 DEF NumberInv
  <2> QED
    BY <1>a, <1>b, <2>1, <2>2, <2>3, NumbersKept
<1>3. ASSUME UNCHANGED <<bus, todo, row, given>>, spent'.event = spent.event PROVE NumberInv'
  <2>1. /\ \A f \in bus' : \A i \in 1..Len(f.work) : Clear(f.work[i].ev)
        /\ \A u \in Topic : \A i \in 1..Len(todo'[u]) : Clear(todo'[u][i].ev)
    BY <1>3 DEF NumberInv
  <2> QED
    BY <1>3, <1>a, <1>b, <2>1, NumbersKept
<1>4. ASSUME NEW t \in Topic, Finish(t), todo[t] # <<>>, UNCHANGED <<bus, row, given>>,
             spent'.event = spent.event
      PROVE  NumberInv'
  <2>1. /\ \A f \in bus' : \A i \in 1..Len(f.work) : Clear(f.work[i].ev)
        /\ \A u \in Topic : \A i \in 1..Len(todo'[u]) : Clear(todo'[u][i].ev)
    BY <1>4, ClearAfter
  <2> QED
    BY <1>4, <1>a, <1>b, <2>1, NumbersKept
<1>5. ASSUME NEW t \in Topic, convertToQueueChatMessage(t) PROVE NumberInv'
  <2>1. todo[t] # <<>> /\ UNCHANGED <<bus, row, given>> /\ spent'.event = spent.event
    BY <1>5 DEF convertToQueueChatMessage
  <2>2. Finish(t) \/ UNCHANGED todo
    BY <1>5 DEF convertToQueueChatMessage
  <2> QED
    BY <1>3, <1>4, <2>1, <2>2
<1>6. ASSUME NEW t \in Topic, Enqueue(t) PROVE NumberInv'
  <2>1. /\ todo[t] # <<>> /\ UNCHANGED <<bus, given>> /\ spent'.event = spent.event
        /\ cur[t].ev = Head(todo[t]).ev
    BY <1>6, HandlerSteps DEF Enqueue, CarriedInv, AtHead
  <2>2. CASE UNCHANGED row /\ (Finish(t) \/ UNCHANGED todo)
    BY <1>3, <1>4, <2>1, <2>2
  <2>3. ASSUME NEW k \in Keys, row[k] = None, row' = [row EXCEPT ![k] = cur[t]], Finish(t)
        PROVE  NumberInv'
    <3> DEFINE h == Head(todo[t]).ev
    <3>1. /\ Clear(h) /\ h[1] < spent.event
          /\ \A e \in bus' : \A i \in 1..Len(e.work) : Clear(e.work[i].ev) /\ e.work[i].ev # h
          /\ \A u \in Topic : \A i \in 1..Len(todo'[u]) :
                Clear(todo'[u][i].ev) /\ todo'[u][i].ev # h
      BY <2>1, <2>3, ClearAfter
    <3>2. row'[k] = cur[t] /\ cur[t].ev = h /\ \A l \in Keys : l # k => row'[l] = row[l]
      BY <1>a, <2>1, <2>3
    <3> HIDE DEF h
    <3>3. \A ev : Clear(ev) /\ ev # h => Clear(ev)'
      BY <2>1, <3>2 DEF Clear
    <3>4. /\ \A e \in bus' : \A i \in 1..Len(e.work) : Clear(e.work[i].ev)'
          /\ \A u \in Topic : \A i \in 1..Len(todo'[u]) : Clear(todo[u][i].ev)'
      <4>1. /\ \A l \in Keys : row'[l] # None => row'[l].ev = h \/ (row[l] # None /\ row'[l].ev = row[l].ev)
            /\ given' = given
        BY <2>1, <3>2
      <4> QED
        BY <3>1, <4>1 DEF Clear
    <3>5. \A l, j \in Keys :
             row'[l] # None /\ row'[j] # None /\ row'[l].ev = row'[j].ev => l = j
      BY <3>1, <3>2 DEF Clear, NumberInv
    <3>6. \A l \in Keys : \A g \in given' :
             row'[l] # None /\ g.body.ev = row'[l].ev => g = [body |-> row'[l], direct |-> FALSE]
      BY <2>1, <3>1, <3>2 DEF Clear, NumberInv
    <3>7. \A l \in Keys : row'[l] # None => row'[l].ev[1] < spent'.event
      BY <2>1, <3>1, <3>2 DEF NumberInv
    <3>8. \A g, i \in given' : g.body.ev = i.body.ev => g = i
      BY <2>1 DEF NumberInv
    <3>9. \A g \in given' : g.body.ev[1] < spent'.event
      BY <2>1 DEF NumberInv
    <3> QED
      BY <3>4, <3>5, <3>6, <3>7, <3>8, <3>9 DEF NumberInv
  <2>4. \/ UNCHANGED row /\ (Finish(t) \/ UNCHANGED todo)
        \/ \E k \in Keys : row[k] = None /\ row' = [row EXCEPT ![k] = cur[t]] /\ Finish(t)
    <3>1. CASE UNCHANGED row
      BY <1>6, <3>1 DEF Enqueue
    <3>2. CASE row' # row
      <4> DEFINE k == Key(cur[t].item)
      <4>1. row' = [row EXCEPT ![k] = IF row[k] = None THEN cur[t] ELSE row[k]] /\ Finish(t)
        BY <1>6, <3>2 DEF Enqueue
      <4>2. cur[t] \in Body
        BY <1>6 DEF Enqueue, CarriedInv, AtHead
      <4>3. k \in Keys
        BY <4>2 DEF Body, Payload, Keys
      <4> HIDE DEF k
      <4>4. row[k] = None
        BY <1>a, <3>2, <4>1, <4>3
      <4> QED
        BY <4>1, <4>3, <4>4
    <3> QED
      BY <3>1, <3>2
  <2> QED
    BY <2>2, <2>3, <2>4
<1>7. ASSUME NEW t \in Topic, DirectEnqueue(t) PROVE NumberInv'
  <2>1. /\ todo[t] # <<>> /\ UNCHANGED <<bus, row>> /\ spent'.event = spent.event /\ Finish(t)
        /\ cur[t].ev = Head(todo[t]).ev
    BY <1>7, HandlerSteps DEF DirectEnqueue, CarriedInv, AtHead
  <2>2. CASE UNCHANGED given
    BY <1>4, <2>1, <2>2
  <2>3. CASE given' = given \cup {[body |-> cur[t], direct |-> TRUE]}
    <3> DEFINE h == Head(todo[t]).ev
    <3>1. /\ Clear(h) /\ h[1] < spent.event
          /\ \A e \in bus' : \A i \in 1..Len(e.work) : Clear(e.work[i].ev) /\ e.work[i].ev # h
          /\ \A u \in Topic : \A i \in 1..Len(todo'[u]) :
                Clear(todo'[u][i].ev) /\ todo'[u][i].ev # h
      BY <2>1, ClearAfter
    <3>2. \A g \in given' : g \in given \/ (g = [body |-> cur[t], direct |-> TRUE] /\ g.body.ev = h)
      BY <2>1, <2>3
    <3> HIDE DEF h
    <3>4. /\ \A e \in bus' : \A i \in 1..Len(e.work) : Clear(e.work[i].ev)'
          /\ \A u \in Topic : \A i \in 1..Len(todo'[u]) : Clear(todo[u][i].ev)'
      BY <2>1, <3>1, <3>2 DEF Clear
    <3>5. \A l, j \in Keys :
             row'[l] # None /\ row'[j] # None /\ row'[l].ev = row'[j].ev => l = j
      BY <2>1 DEF NumberInv
    <3>6. \A l \in Keys : \A g \in given' :
             row'[l] # None /\ g.body.ev = row'[l].ev => g = [body |-> row'[l], direct |-> FALSE]
      BY <2>1, <3>1, <3>2 DEF Clear, NumberInv
    <3>7. \A l \in Keys : row'[l] # None => row'[l].ev[1] < spent'.event
      BY <2>1 DEF NumberInv
    <3>8. \A g, i \in given' : g.body.ev = i.body.ev => g = i
      BY <3>1, <3>2 DEF Clear, NumberInv
    <3>9. \A g \in given' : g.body.ev[1] < spent'.event
      BY <2>1, <3>1, <3>2 DEF NumberInv
    <3> QED
      BY <3>4, <3>5, <3>6, <3>7, <3>8, <3>9 DEF NumberInv
  <2> QED
    BY <1>7, <2>2, <2>3 DEF DirectEnqueue
<1>8. ASSUME NEW k \in Keys, Deliver(k) PROVE NumberInv'
  <2>1. /\ row[k] # None /\ given' = given \cup {[body |-> row[k], direct |-> FALSE]}
        /\ UNCHANGED <<bus, todo, spent>>
        /\ \A l \in Keys : row'[l] # None => row'[l] = row[l]
    BY <1>8, <1>a DEF Deliver, Stored, plugin
  <2>2. \A g \in given' : g \in given \/ (g = [body |-> row[k], direct |-> FALSE] /\ g.body = row[k])
    BY <2>1
  <2>3. /\ \A e \in bus' : \A i \in 1..Len(e.work) : Clear(e.work[i].ev)'
        /\ \A u \in Topic : \A i \in 1..Len(todo'[u]) : Clear(todo[u][i].ev)'
    BY <2>1, <2>2 DEF Clear, NumberInv
  <2>4. \A l, j \in Keys :
           row'[l] # None /\ row'[j] # None /\ row'[l].ev = row'[j].ev => l = j
    BY <2>1 DEF NumberInv
  <2>5. \A l \in Keys : \A g \in given' :
           row'[l] # None /\ g.body.ev = row'[l].ev => g = [body |-> row'[l], direct |-> FALSE]
    <3> SUFFICES ASSUME NEW l \in Keys, NEW g \in given', row'[l] # None,
                        g.body.ev = row'[l].ev
                 PROVE  g = [body |-> row'[l], direct |-> FALSE]
      OBVIOUS
    <3>1. row'[l] = row[l]
      BY <2>1
    <3>2. CASE g \in given
      BY <3>1, <3>2 DEF NumberInv
    <3>3. CASE g = [body |-> row[k], direct |-> FALSE]
      <4>1. row[k].ev = row[l].ev
        BY <3>1, <3>3
      <4>2. k = l
        BY <2>1, <3>1, <4>1 DEF NumberInv
      <4> QED
        BY <3>1, <3>3, <4>2
    <3> QED
      BY <2>2, <3>2, <3>3
  <2>6. \A g, i \in given' : g.body.ev = i.body.ev => g = i
    <3> SUFFICES ASSUME NEW g \in given', NEW i \in given', g.body.ev = i.body.ev
                 PROVE  g = i
      OBVIOUS
    <3>1. CASE g \in given /\ i \in given
      BY <3>1 DEF NumberInv
    <3>2. CASE g \in given /\ i \notin given
      BY <2>1, <2>2, <3>2 DEF NumberInv
    <3>3. CASE g \notin given /\ i \in given
      BY <2>1, <2>2, <3>3 DEF NumberInv
    <3> QED
      BY <2>2, <3>1, <3>2, <3>3
  <2>7. /\ \A l \in Keys : row'[l] # None => row'[l].ev[1] < spent'.event
        /\ \A g \in given' : g.body.ev[1] < spent'.event
    BY <2>1, <2>2 DEF NumberInv
  <2> QED
    BY <2>3, <2>4, <2>5, <2>6, <2>7 DEF NumberInv
<1>12. ASSUME NEW k \in Keys, MarkSuccess(k) PROVE NumberInv'
  <2>1. /\ UNCHANGED <<bus, todo, given, spent>>
        /\ \A l \in Keys : row'[l] # None => row'[l] = row[l]
    BY <1>12, <1>a DEF MarkSuccess, plugin
  <2>2. /\ \A e \in bus' : \A i \in 1..Len(e.work) : Clear(e.work[i].ev)'
        /\ \A u \in Topic : \A i \in 1..Len(todo'[u]) : Clear(todo[u][i].ev)'
    BY <2>1 DEF Clear, NumberInv
  <2> QED
    BY <2>1, <2>2 DEF NumberInv
<1>9. ASSUME Restart, spent'.event = spent.event PROVE NumberInv'
  <2>1. bus' = {} /\ (\A t \in Topic : todo'[t] = <<>>) /\ UNCHANGED <<row, given>>
    BY <1>9 DEF Restart
  <2> QED
    BY <1>9, <1>a, <1>b, <2>1, NumbersKept
<1>10. CASE Crash \/ Panic
  BY <1>9, <1>10, FaultIsTyped DEF Crash, Panic, CarriedInv
<1>11. CASE UNCHANGED vars
  BY <1>3, <1>11 DEF vars, plugin, outside
<1> QED
  BY <1>1, <1>2, <1>5, <1>6, <1>7, <1>8, <1>10, <1>11, <1>12 DEF Next

\* What is underway stays so, but for the message a goroutine is done with.
LEMMA StillUnderway ==
  ASSUME CarriedInv, NEW x,
         NEW t \in Topic, todo[t] # <<>>, Finish(t), UNCHANGED bus,
         Underway(x), x # Head(todo[t]).item
  PROVE  Underway(x)'
<1>1. /\ \A j \in 2..Len(todo[t]) : \E i \in 1..Len(todo'[t]) : todo'[t][i] = todo[t][j]
      /\ \A u \in Topic : u # t => todo'[u] = todo[u]
      /\ Head(todo[t]) = todo[t][1] /\ Len(todo[t]) \in Nat
  BY FinishLeaves
<1>2. CASE \E e \in bus : \E i \in 1..Len(e.work) : e.work[i].item = x
  BY <1>2 DEF Underway
<1>3. ASSUME NEW u \in Topic, NEW j \in 1..Len(todo[u]), todo[u][j].item = x
      PROVE  Underway(x)'
  <2>1. CASE u = t
    <3>1. j \in 2..Len(todo[t])
      BY <1>1, <1>3, <2>1
    <3>2. PICK i \in 1..Len(todo'[t]) : todo'[t][i] = todo[t][j]
      BY <1>1, <3>1
    <3>3. i \in 1..Len(todo'[t]) /\ todo'[t][i].item = x
      BY <1>3, <2>1, <3>2
    <3> QED
      BY <3>3 DEF Underway
  <2>2. CASE u # t
    <3>1. todo'[u] = todo[u]
      BY <1>1, <2>2
    <3> QED
      BY <1>3, <3>1 DEF Underway
  <2> QED
    BY <2>1, <2>2
<1> QED
  BY <1>2, <1>3 DEF Underway

\* What is left when a goroutine is done is of the topics' kinds, as before.
LEMMA FinishKeepsKinds ==
  ASSUME CarriedInv, AccountInv, NEW t \in Topic, todo[t] # <<>>, Finish(t)
  PROVE  \A u \in Topic : \A i \in 1..Len(todo'[u]) :
            u = "read" <=> todo'[u][i].item \in Receipt
<1> SUFFICES ASSUME NEW u \in Topic, NEW i \in 1..Len(todo'[u])
             PROVE  u = "read" <=> todo'[u][i].item \in Receipt
  OBVIOUS
<1>1. CASE u = t
  <2>1. i + 1 \in 1..Len(todo[t]) /\ todo'[t][i] = todo[t][i + 1]
    BY <1>1, FinishLeaves
  <2> QED
    BY <1>1, <2>1 DEF AccountInv
<1>2. CASE u # t
  <2>1. todo'[u] = todo[u]
    BY <1>2, FinishLeaves
  <2> QED
    BY <1>2, <2>1 DEF AccountInv
<1> QED
  BY <1>1, <1>2

\* Each step keeps account of what came: it waits, or is in a body, or a fault
\* of the kind HandedOver names happened to it.
LEMMA Accounts == CarriedInv /\ FilesInv /\ AccountInv /\ [Next]_vars => AccountInv'
<1> SUFFICES ASSUME CarriedInv, FilesInv, AccountInv, [Next]_vars PROVE AccountInv'
  OBVIOUS
<1>a. /\ content \in Contents /\ spent.event \in Nat /\ todo \in [Topic -> Seq(Good)]
      /\ row \in [Keys -> Body \cup {None}] /\ panics \in Nat
      /\ pc \in [Topic -> {"next", "store", "direct", "nil"}]
      /\ UNCHANGED <<conf, content>>
  BY Constant DEF CarriedInv, AccountInv
<1>b. /\ \A x : There(x) => There(x)'
      /\ \A x : LostForCause(x) => LostForCause(x)'
      /\ came \subseteq came'
  BY <1>a, NothingIsForgotten
<1>c. \A x : Wanted(x)' <=> Wanted(x)
  BY <1>a DEF Wanted
<1>d. /\ spent.db \in Nat /\ spent.api \in Nat /\ spent.crash \in Nat
      /\ spent'.db \in Nat /\ spent'.api \in Nat /\ spent'.crash \in Nat
  BY Carried DEF CarriedInv
<1>1. CASE \/ \E m \in Msg : MessageReceived(m)
           \/ \E batch \in Batches : handleHistorySync(batch)
           \/ \E r \in Receipt : ReceiptReceived(r)
  <2>1. PICK t \in Topic, work \in Seq(Good) :
          /\ publishEvent(t, work)
          /\ \A i \in 1..Len(work) : t = "read" <=> work[i].item \in Receipt
    BY <1>a, <1>1, Publishes
  <2>2. /\ bus' = bus \cup {[topic |-> t, work |-> work]}
        /\ came' = came \cup {work[i].item : i \in 1..Len(work)}
        /\ UNCHANGED <<todo, pc, row, panics>>
        /\ spent'.db = spent.db
    BY <2>1 DEF publishEvent, plugin, outside, CarriedInv
  <2>3. \A e \in bus' : \A i \in 1..Len(e.work) : e.topic = "read" <=> e.work[i].item \in Receipt
    <3> SUFFICES ASSUME NEW e \in bus', NEW i \in 1..Len(e.work)
                 PROVE  e.topic = "read" <=> e.work[i].item \in Receipt
      OBVIOUS
    <3>1. CASE e \in bus
      BY <3>1 DEF AccountInv
    <3>2. CASE e \notin bus
      <4>1. e.topic = t /\ e.work = work
        BY <2>2, <3>2
      <4> QED
        BY <2>1, <4>1
    <3> QED
      BY <3>1, <3>2
  <2>4. ASSUME NEW x \in came', Wanted(x)' PROVE Accounted(x)'
    <3>1. CASE x \in came
      <4>1. Underway(x) => Underway(x)'
        BY <2>2 DEF Underway
      <4> QED
        BY <1>b, <1>c, <2>4, <3>1, <4>1 DEF AccountInv, Accounted
    <3>2. CASE x \notin came
      <4>1. PICK i \in 1..Len(work) : work[i].item = x
        BY <2>2, <3>2
      <4>2. [topic |-> t, work |-> work] \in bus' /\ [topic |-> t, work |-> work].work = work
        BY <2>2
      <4> QED
        BY <4>1, <4>2 DEF Accounted, Underway
    <3> QED
      BY <3>1, <3>2
  <2>5. \A k \in Keys : row'[k] # None => Key(row'[k].item) = k /\ row'[k].item \in came'
    BY <1>b, <2>2 DEF AccountInv
  <2>6. \A u \in Topic : pc'[u] = "direct" => u # "read" /\ (spent'.db > 0 \/ ~conf'.persistent)
    BY <1>a, <2>2 DEF AccountInv
  <2>7. \A u \in Topic : \A i \in 1..Len(todo'[u]) : u = "read" <=> todo'[u][i].item \in Receipt
    BY <2>2 DEF AccountInv
  <2> QED
    BY <1>a, <2>2, <2>3, <2>4, <2>5, <2>6, <2>7 DEF AccountInv
<1>2. ASSUME NEW e \in bus, Take(e) PROVE AccountInv'
  <2>1. /\ bus' = bus \ {e} /\ UNCHANGED <<pc, came, row, panics, spent>>
        /\ \A u \in Topic : todo'[u] = IF u = e.topic THEN e.work ELSE todo[u]
        /\ todo[e.topic] = <<>> /\ e.topic \in Topic
    BY <1>2, <1>a DEF Take, outside, CarriedInv, Event
  <2>2. \A u \in Topic : \A i \in 1..Len(todo'[u]) : u = "read" <=> todo'[u][i].item \in Receipt
    <3> SUFFICES ASSUME NEW u \in Topic, NEW i \in 1..Len(todo'[u])
                 PROVE  u = "read" <=> todo'[u][i].item \in Receipt
      OBVIOUS
    <3>1. CASE u = e.topic
      BY <2>1, <3>1 DEF AccountInv
    <3>2. CASE u # e.topic
      BY <2>1, <3>2 DEF AccountInv
    <3> QED
      BY <3>1, <3>2
  <2>3. ASSUME NEW x, Underway(x) PROVE Underway(x)'
    <3>1. CASE \E i \in 1..Len(e.work) : e.work[i].item = x
      <4>1. \E i \in 1..Len(todo'[e.topic]) : todo'[e.topic][i].item = x
        BY <2>1, <3>1
      <4> QED
        BY <2>1, <4>1 DEF Underway
    <3>2. CASE \E f \in bus \ {e} : \E i \in 1..Len(f.work) : f.work[i].item = x
      BY <2>1, <3>2 DEF Underway
    <3>3. CASE \E u \in Topic : \E i \in 1..Len(todo[u]) : todo[u][i].item = x
      <4>1. PICK u \in Topic : \E i \in 1..Len(todo[u]) : todo[u][i].item = x
        BY <3>3
      <4>2. u # e.topic
        BY <2>1, <4>1
      <4>3. todo'[u] = todo[u]
        BY <2>1, <4>2
      <4> QED
        BY <4>1, <4>3 DEF Underway
    <3> QED
      BY <2>3, <3>1, <3>2, <3>3 DEF Underway
  <2>4. \A x \in came' : Wanted(x)' => Accounted(x)'
    BY <1>b, <1>c, <2>1, <2>3 DEF AccountInv, Accounted
  <2>5. \A u \in Topic : pc'[u] = "direct" => u # "read" /\ (spent'.db > 0 \/ ~conf'.persistent)
    BY <1>a, <2>1 DEF AccountInv
  <2> QED
    BY <1>a, <2>1, <2>2, <2>4, <2>5 DEF AccountInv
<1>3. ASSUME UNCHANGED <<bus, todo, came, panics>>,
             \A u \in Topic : pc'[u] = "direct" => u # "read" /\ (spent'.db > 0 \/ ~conf'.persistent),
             \A k \in Keys : row'[k] # None => row[k] # None /\ row'[k] = row[k]
      PROVE  AccountInv'
  <2>1. \A x \in came' : Wanted(x)' => Accounted(x)'
    <3>1. \A x : Underway(x) => Underway(x)'
      BY <1>3 DEF Underway
    <3> QED
      BY <1>3, <1>b, <1>c, <3>1 DEF AccountInv, Accounted
  <2> QED
    BY <1>3, <1>a, <2>1 DEF AccountInv
<1>4. ASSUME NEW t \in Topic, NEW y, y = Head(todo[t]).item,
             Finish(t), todo[t] # <<>>, UNCHANGED <<bus, came, panics>>,
             spent'.db >= spent.db,
             \A k \in Keys : row'[k] # None =>
                Key(row'[k].item) = k /\ row'[k].item \in came',
             Wanted(y) => Accounted(y)'
      PROVE  AccountInv'
  <2>1. \A u \in Topic : \A i \in 1..Len(todo'[u]) : u = "read" <=> todo'[u][i].item \in Receipt
    BY <1>4, FinishKeepsKinds
  <2>2. \A u \in Topic : pc'[u] # "next" => pc'[u] = pc[u]
    BY <1>4, FinishLeaves
  <2>3. \A u \in Topic : pc'[u] = "direct" => u # "read" /\ (spent'.db > 0 \/ ~conf'.persistent)
    <3>1. \A u \in Topic : pc'[u] = "direct" => pc[u] = "direct"
      BY <2>2
    <3> QED
      BY <1>4, <1>a, <1>d, <3>1 DEF AccountInv
  <2>4. ASSUME NEW x \in came', Wanted(x)' PROVE Accounted(x)'
    <3>1. CASE x = y
      BY <1>4, <1>c, <2>4, <3>1
    <3>2. CASE x # y
      <4>1. Underway(x) => Underway(x)'
        BY <1>4, <3>2, StillUnderway
      <4> QED
        BY <1>4, <1>b, <1>c, <2>4, <4>1 DEF AccountInv, Accounted
    <3> QED
      BY <3>1, <3>2
  <2> QED
    BY <1>4, <1>a, <2>1, <2>3, <2>4 DEF AccountInv
<1>5. ASSUME NEW t \in Topic, convertToQueueChatMessage(t) PROVE AccountInv'
  <2>1. /\ todo[t] # <<>> /\ UNCHANGED <<bus, came, row, panics, spent>>
    BY <1>5 DEF convertToQueueChatMessage
  <2>2. \A k \in Keys : row'[k] # None => Key(row'[k].item) = k /\ row'[k].item \in came'
    BY <2>1 DEF AccountInv
  <2>3. ASSUME Finish(t), ~conf.numeric \/ bodyType(Head(todo[t]).type) = None PROVE AccountInv'
    <3>1. PICK p \in Good : p = Head(todo[t])
      BY <1>a, <2>1
    <3>2. ~Wanted(p.item)
      BY <1>a, <2>3, <3>1, WantedConverts
    <3>3. PICK y : y = p.item
      OBVIOUS
    <3> QED
      BY <1>4, <1>d, <2>1, <2>2, <2>3, <3>1, <3>2, <3>3
  <2>4. ASSUME pc' = [pc EXCEPT ![t] = Onward(t)], UNCHANGED todo PROVE AccountInv'
    <3>1. \A u \in Topic : pc'[u] = "direct" => u # "read" /\ (spent'.db > 0 \/ ~conf'.persistent)
      <4>1. \A u \in Topic : u # t => pc'[u] = pc[u]
        BY <1>a, <2>4
      <4>2. pc'[t] = "direct" => t # "read" /\ ~conf.persistent
        BY <1>a, <2>4 DEF Onward
      <4> QED
        BY <1>a, <2>1, <4>1, <4>2 DEF AccountInv
    <3> QED
      BY <1>3, <2>1, <2>4, <3>1
  <2> QED
    BY <1>5, <2>3, <2>4 DEF convertToQueueChatMessage
<1>6. ASSUME NEW t \in Topic, Enqueue(t) PROVE AccountInv'
  <2>0. PICK x, k : x = Head(todo[t]).item /\ k = Key(cur[t].item)
    OBVIOUS
  <2>1. /\ todo[t] # <<>> /\ UNCHANGED <<bus, came, given, panics>>
        /\ cur[t] \in Body /\ cur[t].item = x
    BY <1>6, <2>0 DEF Enqueue, CarriedInv, AtHead
  <2>2. x \in came /\ x \in Item /\ k = Key(x) /\ k \in Keys /\ cur[t] # None
    <3>1. 1 \in 1..Len(todo[t]) /\ Head(todo[t]) = todo[t][1]
      BY <1>a, <2>1
    <3>2. todo[t][1].item \in came
      BY <3>1 DEF FilesInv
    <3>3. cur[t].item \in Item /\ cur[t] \in Payload
      BY <2>1 DEF Body, Payload
    <3>4. x \in came /\ x \in Item /\ k = Key(x)
      BY <2>0, <2>1, <3>1, <3>2, <3>3
    <3> QED
      BY <3>3, <3>4, NothingIsNone DEF Keys
  <2>3. t = "read" <=> x \in Receipt
    <3>1. 1 \in 1..Len(todo[t]) /\ Head(todo[t]) = todo[t][1]
      BY <1>a, <2>1
    <3> QED
      BY <2>0, <3>1 DEF AccountInv
  <2>4. CASE row' = [row EXCEPT ![k] = IF @ = None THEN cur[t] ELSE @] /\ Finish(t) /\ UNCHANGED spent
    <3>1. \A l \in Keys : row'[l] = IF l = k /\ row[k] = None THEN cur[t] ELSE row[l]
      BY <1>a, <2>2, <2>4
    <3>2. \A l \in Keys : row'[l] # None => Key(row'[l].item) = l /\ row'[l].item \in came'
      BY <2>1, <2>2, <3>1 DEF AccountInv
    <3>3. Accounted(x)'
      <4>1. row'[k] # None /\ row'[k] \in InTable'
        BY <2>2, <3>1 DEF InTable
      <4>2. row'[k].item \in came' /\ Key(row'[k].item) = Key(x)
        BY <2>2, <3>2, <4>1
      <4>3. CASE row'[k].item = x
        <5>1. There(x)'
          BY <4>1, <4>3 DEF There, Bodies
        <5> QED
          BY <5>1 DEF Accounted
      <4>4. CASE row'[k].item # x
        <5>1. x \in Receipt
          <6> SUFFICES ASSUME x \in Msg PROVE FALSE
            BY <2>2 DEF Item
          <6>1. row'[k] \in Body
            BY <1>a, <2>1, <2>2, <3>1, <4>1
          <6>2. row'[k].item \in Item
            BY <6>1 DEF Body, Payload
          <6> QED
            BY <4>2, <4>4, <6>2, Types DEF Key, Item
        <5>2. LostForCause(x)'
          BY <4>2, <4>4, <5>1 DEF LostForCause, Key
        <5> QED
          BY <5>2 DEF Accounted
      <4> QED
        BY <4>3, <4>4
    <3> QED
      BY <1>4, <1>d, <2>0, <2>1, <2>4, <3>2, <3>3
  <2>5. CASE /\ Fault("db") /\ UNCHANGED row
             /\ IF t = "read" THEN Finish(t)
                ELSE pc' = [pc EXCEPT ![t] = "direct"] /\ UNCHANGED <<todo, cur>>
    <3>1. spent'.db > 0 /\ spent'.db >= spent.db
      BY <2>5, FaultIsTyped DEF CarriedInv
    <3>2. \A l \in Keys : row'[l] # None => Key(row'[l].item) = l /\ row'[l].item \in came'
      BY <2>1, <2>5 DEF AccountInv
    <3>3. CASE t = "read" /\ Finish(t)
      <4>1. LostForCause(x)'
        BY <2>3, <3>1, <3>3 DEF LostForCause
      <4> QED
        BY <1>4, <2>0, <2>1, <3>1, <3>2, <3>3, <4>1 DEF Accounted
    <3>4. CASE t # "read" /\ pc' = [pc EXCEPT ![t] = "direct"] /\ UNCHANGED <<todo, cur>>
      <4>1. \A u \in Topic : pc'[u] = "direct" => u # "read" /\ (spent'.db > 0 \/ ~conf'.persistent)
        BY <1>a, <3>1, <3>4 DEF AccountInv
      <4> QED
        BY <1>3, <2>1, <2>5, <3>4, <4>1
    <3> QED
      BY <2>5, <3>3, <3>4
  <2> QED
    BY <1>6, <2>0, <2>4, <2>5 DEF Enqueue
<1>7. ASSUME NEW t \in Topic, DirectEnqueue(t) PROVE AccountInv'
  <2>0. PICK x : x = Head(todo[t]).item
    OBVIOUS
  <2>1. /\ todo[t] # <<>> /\ UNCHANGED <<bus, came, row, panics>>
        /\ Finish(t) /\ cur[t].item = x
    BY <1>7, <2>0 DEF DirectEnqueue, CarriedInv, AtHead
  <2>2. \A l \in Keys : row'[l] # None => Key(row'[l].item) = l /\ row'[l].item \in came'
    BY <2>1 DEF AccountInv
  <2>3. x \in Msg /\ (spent.db > 0 \/ ~conf.persistent)
    <3>1. 1 \in 1..Len(todo[t]) /\ Head(todo[t]) = todo[t][1] /\ Head(todo[t]) \in Good
      BY <1>a, <2>1
    <3>2. x \in Item
      BY <2>0, <3>1 DEF Good, Payload
    <3>3. t # "read" /\ (spent.db > 0 \/ ~conf.persistent)
      BY <1>7 DEF DirectEnqueue, AccountInv
    <3>4. x \notin Receipt
      BY <2>0, <3>1, <3>3 DEF AccountInv
    <3> QED
      BY <3>2, <3>3, <3>4 DEF Item
  <2>4. spent'.db >= spent.db
    BY <1>7, <1>d, FaultIsTyped DEF DirectEnqueue, CarriedInv
  <2>5. Accounted(x)'
    <3>1. CASE given' = given \cup {[body |-> cur[t], direct |-> TRUE]}
      <4>1. cur[t] \in Bodies'
        <5>1. [body |-> cur[t], direct |-> TRUE] \in given'
          BY <3>1
        <5> QED
          BY <5>1 DEF Bodies
      <4> QED
        BY <2>1, <4>1 DEF Accounted, There
    <3>2. CASE Fault("api")
      <4>1. spent'.api > 0
        BY <3>2, FaultIsTyped DEF CarriedInv
      <4>2. spent'.db > 0 \/ ~conf'.persistent
        BY <1>a, <1>d, <2>3, <2>4
      <4> QED
        BY <2>3, <4>1, <4>2 DEF Accounted, LostForCause
    <3> QED
      BY <1>7, <3>1, <3>2 DEF DirectEnqueue
  <2> QED
    BY <1>4, <2>0, <2>1, <2>2, <2>4, <2>5
<1>8. ASSUME NEW k \in Keys, Deliver(k) \/ MarkSuccess(k) PROVE AccountInv'
  <2>1. /\ UNCHANGED <<bus, todo, pc, came, panics, spent>>
        /\ \A l \in Keys : row'[l] # None => row[l] # None /\ row'[l] = row[l]
    BY <1>8, <1>a DEF Deliver, MarkSuccess, plugin
  <2>2. \A u \in Topic : pc'[u] = "direct" => u # "read" /\ (spent'.db > 0 \/ ~conf'.persistent)
    BY <1>a, <2>1 DEF AccountInv
  <2> QED
    BY <1>3, <2>1, <2>2
<1>9. CASE Crash \/ Panic
  <2>1. /\ bus' = {} /\ UNCHANGED <<row, came>>
        /\ \A u \in Topic : todo'[u] = <<>> /\ pc'[u] = "next"
    BY <1>9 DEF Crash, Panic, Restart
  <2>2. panics' \in Nat /\ spent'.crash + panics' > 0
    <3>1. CASE Crash
      <4>1. spent'.crash > 0
        BY <3>1, FaultIsTyped DEF Crash, CarriedInv
      <4> QED
        BY <1>a, <1>d, <3>1, <4>1 DEF Crash
    <3>2. CASE Panic
      BY <1>a, <1>d, <3>2 DEF Panic
    <3> QED
      BY <1>9, <3>1, <3>2
  <2>3. \A x : Accounted(x)'
    BY <2>2 DEF Accounted, LostForCause
  <2> QED
    BY <2>1, <2>2, <2>3 DEF AccountInv
<1>10. CASE UNCHANGED vars
  <2>1. UNCHANGED <<bus, todo, pc, came, row, panics, spent>>
    BY <1>10 DEF vars, plugin, outside
  <2>2. \A u \in Topic : pc'[u] = "direct" => u # "read" /\ (spent'.db > 0 \/ ~conf'.persistent)
    BY <1>a, <2>1 DEF AccountInv
  <2> QED
    BY <1>3, <2>1, <2>2
<1> QED
  BY <1>1, <1>2, <1>5, <1>6, <1>7, <1>8, <1>9, <1>10 DEF Next

\* At first there are no files.
LEMMA FilesInitially == Init => FilesInv
BY DEF Init, FilesInv, Topic

\* Whatever is wanted of what came waits, is in the table or with the service, or
\* was lost for a cause that HandedOver names; an event is stored or sent
\* directly, and given to the service in one form only.
THEOREM NothingGetsLostUnseen == Spec => []HandedOver
<1>1. Init => WaitingInv /\ NumberInv /\ AccountInv
  BY DEF Init, WaitingInv, NumberInv, AccountInv, Topic
<1>2. CarriedInv /\ NumberInv /\ AccountInv => HandedOver
  <2> SUFFICES ASSUME CarriedInv, NumberInv, AccountInv PROVE HandedOver
    OBVIOUS
  <2>1. \A b \in Bodies : Wanted(b.item)
    BY DEF CarriedInv, Bodies, InTable, Body, Converted
  <2>2. \A x \in came : Wanted(x) /\ ~Underway(x) =>
           (\E b \in Bodies : b.item = x) \/ LostForCause(x)
    BY DEF AccountInv, Accounted, There
  <2>3. \A g \in given : g.direct => \A b \in InTable : b.ev # g.body.ev
    <3> SUFFICES ASSUME NEW g \in given, g.direct, NEW k \in Keys, row[k] # None,
                        row[k].ev = g.body.ev
                 PROVE  FALSE
      BY DEF InTable
    <3>1. g = [body |-> row[k], direct |-> FALSE]
      BY DEF NumberInv
    <3> QED
      BY <3>1
  <2>4. \A g, h \in given : g.body.ev = h.body.ev => g = h
    BY DEF NumberInv
  <2> QED
    BY <2>1, <2>2, <2>3, <2>4 DEF HandedOver
<1> QED
  BY CarriedInitially, Carried, FilesInitially, Files, Waiting, Numbers, Accounts,
     <1>1, <1>2, PTL DEF Spec

-----------------------------------------------------------------------------
(* The table is an outbox, by key.  A body that is put in the table has a     *)
(* number that nothing with the service has: it is not taken for handed over. *)

Kept == {k \in Keys : row[k] # None}
Handed == {k \in Keys : row[k] # None /\ Stored(k) \in given}

\* A step that leaves the table and what was handed over from it.
LEMMA OutboxStutter ==
  ASSUME UNCHANGED row, given \subseteq given', \A g \in given' \ given : g.direct
  PROVE  UNCHANGED Outbox!outboxVars
<1>1. \A k : Stored(k)' = Stored(k)
  BY DEF Stored
<1>2. \A k : Stored(k) \in given' <=> Stored(k) \in given
  BY DEF Stored
<1> QED
  BY <1>1, <1>2 DEF Outbox!outboxVars

\* Each step is one of the outbox, or does not change what it sees.
LEMMA OutboxStep ==
  CarriedInv /\ WaitingInv /\ NumberInv /\ [Next]_vars => [Outbox!Next]_(Outbox!outboxVars)
<1> SUFFICES ASSUME CarriedInv, WaitingInv, NumberInv, [Next]_vars
             PROVE  [Outbox!Next]_(Outbox!outboxVars)
  OBVIOUS
<1>a. row \in [Keys -> Body \cup {None}]
  BY DEF CarriedInv
<1>1. ASSUME NEW t \in Topic, Enqueue(t)
      PROVE  (\E k \in Keys : Outbox!Store(k)) \/ UNCHANGED Outbox!outboxVars
  <2> DEFINE k == Key(cur[t].item)
  <2>1. UNCHANGED given
    BY <1>1 DEF Enqueue
  <2>2. cur[t] \in Body /\ todo[t] # <<>> /\ cur[t].ev = Head(todo[t]).ev
    BY <1>1 DEF Enqueue, CarriedInv, AtHead
  <2>3. k \in Keys
    BY <2>2 DEF Body, Payload, Keys
  <2>4. cur[t] # None
    BY <2>2, NothingIsNone DEF Body
  <2>5. UNCHANGED row \/ row' = [row EXCEPT ![k] = IF row[k] = None THEN cur[t] ELSE row[k]]
    BY <1>1 DEF Enqueue
  <2>6. CASE UNCHANGED row
    BY <2>1, <2>6, OutboxStutter
  <2>7. CASE row' # row
    <3>1. row' = [row EXCEPT ![k] = IF row[k] = None THEN cur[t] ELSE row[k]]
      BY <2>5, <2>7
    <3> HIDE DEF k
    <3>2. row[k] = None
      BY <1>a, <2>3, <2>7, <3>1
    <3>3. row'[k] = cur[t] /\ \A l \in Keys : l # k => row'[l] = row[l]
      BY <1>a, <2>3, <3>1, <3>2
    <3>4. Kept' = Kept \cup {k} /\ k \notin Kept
      BY <2>3, <2>4, <3>2, <3>3 DEF Kept
    <3>5. Clear(cur[t].ev)
      <4>1. 1 \in 1..Len(todo[t]) /\ todo[t][1] = Head(todo[t])
        BY <2>2 DEF CarriedInv
      <4> QED
        BY <2>2, <4>1 DEF NumberInv
    <3>6. [body |-> cur[t], direct |-> FALSE] \notin given
      BY <3>5 DEF Clear
    <3>7. Handed' = Handed
      <4>1. k \notin Handed /\ k \notin Handed'
        BY <2>1, <3>2, <3>3, <3>6 DEF Handed, Stored
      <4>2. \A l \in Keys : l # k => (l \in Handed' <=> l \in Handed)
        BY <2>1, <3>3 DEF Handed, Stored
      <4>3. Handed \subseteq Keys /\ Handed' \subseteq Keys
        BY DEF Handed, Keys, Key, Item
      <4> QED
        BY <4>1, <4>2, <4>3
    <3> QED
      BY <2>3, <3>4, <3>7 DEF Kept, Handed, Outbox!Store
  <2> QED
    BY <2>6, <2>7
<1>2. ASSUME NEW t \in Topic, DirectEnqueue(t) PROVE UNCHANGED Outbox!outboxVars
  <2>1. /\ UNCHANGED row /\ given \subseteq given'
        /\ given' \subseteq given \cup {[body |-> cur[t], direct |-> TRUE]}
    BY <1>2 DEF DirectEnqueue
  <2> QED
    BY <2>1, OutboxStutter
<1>3. ASSUME NEW k \in Keys, Deliver(k) PROVE Outbox!Hand(k)
  <2>1. row[k] # None /\ UNCHANGED row /\ given' = given \cup {Stored(k)}
    BY <1>3 DEF Deliver
  <2>2. UNCHANGED Kept
    BY <2>1 DEF Kept
  <2>3. Handed' = Handed \cup {k}
    <3>1. \A l \in Keys : row[l] # None /\ Stored(l) = Stored(k) => l = k
      <4>1. \A l \in Keys : Stored(l) = Stored(k) => row[l] = row[k]
        BY DEF Stored
      <4> QED
        BY <2>1, <4>1 DEF NumberInv
    <3>2. \A l \in Keys : Stored(l)' = Stored(l)
      BY <2>1 DEF Stored
    <3>3. \A l \in Keys : l \in Handed' <=> l \in Handed \/ l = k
      BY <2>1, <3>1, <3>2 DEF Handed
    <3> QED
      BY <3>3 DEF Handed, Keys, Key, Item
  <2> QED
    BY <2>1, <2>2, <2>3 DEF Kept, Handed, Outbox!Hand
<1>4. ASSUME NEW k \in Keys, MarkSuccess(k) PROVE Outbox!Drop(k)
  <2>1. /\ k \in Handed /\ UNCHANGED given
        /\ row'[k] = None /\ \A l \in Keys : l # k => row'[l] = row[l]
    BY <1>4, <1>a DEF MarkSuccess, Handed
  <2>2. Kept' = Kept \ {k}
    BY <2>1 DEF Kept, Keys, Key, Item
  <2>3. Handed' = Handed \ {k}
    BY <2>1 DEF Handed, Stored, Keys, Key, Item
  <2> QED
    BY <2>1, <2>2, <2>3 DEF Kept, Handed, Outbox!Drop
<1>5. ASSUME UNCHANGED <<row, given>> PROVE UNCHANGED Outbox!outboxVars
  BY <1>5, OutboxStutter
<1>6. \/ UNCHANGED <<row, given>>
      \/ \E t \in Topic : Enqueue(t) \/ DirectEnqueue(t)
      \/ \E k \in Keys : Deliver(k) \/ MarkSuccess(k)
  BY DEF Next, MessageReceived, handleHistorySync, ReceiptReceived, publishEvent, Take,
     convertToQueueChatMessage, Crash, Panic, Restart, vars, outside
<1> QED
  BY <1>1, <1>2, <1>3, <1>4, <1>5, <1>6 DEF Outbox!Next

\* Incoming implements the outbox, by key: a body in the table stays until the
\* service was given that body, whatever else comes with its key; and the body
\* stored next under the key is not dropped for the first one's sake.
THEOREM BodiesAreHandedOver == Spec => OutboxSpec
<1>1. Init => WaitingInv /\ NumberInv /\ Outbox!Init
  <2>1. Init => WaitingInv /\ NumberInv
    BY DEF Init, WaitingInv, NumberInv, Topic
  <2>2. Init => Outbox!Init
    <3> SUFFICES ASSUME Init PROVE Outbox!Init
      OBVIOUS
    <3>1. \A k \in Keys : row[k] = None
      BY DEF Init
    <3> QED
      BY <3>1 DEF Outbox!Init
  <2> QED
    BY <2>1, <2>2
<1> QED
  BY CarriedInitially, Carried, Waiting, Numbers, OutboxStep, <1>1, PTL
     DEF Spec, OutboxSpec, Outbox!Spec
=============================================================================
