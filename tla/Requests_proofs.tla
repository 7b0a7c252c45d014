-------------------------- MODULE Requests_proofs --------------------------
(* Proofs about Requests, for any sets of devices, channels and requests. *)
EXTENDS Requests, TLAPS

Used == [event : Nat, update : Nat, api : Nat, crash : Nat]

Labels == {"idle", "create", "code", "wait", "find", "logout", "update", "report"}

Answers == {"none", "ERROR", "WAITING_INTEGRATION", "DISCONNECTED"}

Status == Answers \cup {"CONNECTED"}

\* A poller that is busy has a request of its kind, and the steps of the kind.
\* Past the look at the payload it has a channel, or an ERROR for it.
PollerInv ==
    \A k \in Kinds :
        /\ pc[k] # "idle" => cur[k] \in Request /\ Kind[cur[k]] = k
        /\ pc[k] \in {"create", "code", "wait"} => k = "qr"
        /\ pc[k] \in {"find", "logout"} => k = "disconnect" /\ Dev(k) \in Device
        /\ pc[k] \in {"create", "code", "wait", "find", "logout"} => Ch(k) \in Channel
        /\ pc[k] = "update" => answer[k] # "none"
        /\ pc[k] = "update" /\ answer[k] # "ERROR" => Ch(k) \in Channel

TypedInv == TypeOK /\ PollerInv

\* A fault that is counted stays a number, and is one more.
LEMMA FaultIsTyped ==
  ASSUME spent \in Used, NEW kind \in {"update", "api", "crash"}, Fault(kind)
  PROVE  spent' \in Used /\ spent' # spent /\ spent'.update >= spent.update
<1>1. spent[kind] \in Nat
  BY DEF Used
<1>2. spent' = [spent EXCEPT ![kind] = spent[kind] + 1]
  BY DEF Fault
<1>3. CASE kind = "update"
  BY <1>1, <1>2, <1>3 DEF Used
<1>4. CASE kind = "api"
  BY <1>1, <1>2, <1>4 DEF Used
<1>5. CASE kind = "crash"
  BY <1>1, <1>2, <1>5 DEF Used
<1> QED
  BY <1>3, <1>4, <1>5

\* A lost update is counted as one.
LEMMA LossIsCounted ==
  ASSUME spent \in Used, Fault("update")
  PROVE  spent'.update > 0
BY DEF Used, Fault

\* An event is counted, and no fault with it.
LEMMA EventIsTyped ==
  ASSUME spent \in Used, Event
  PROVE  spent' \in Used /\ spent'.update = spent.update
BY DEF Used, Event

\* The counters of a device stay numbers.
LEMMA CountersAreTyped ==
  ASSUME NEW f \in [Device -> Nat], NEW d \in Device
  PROVE  /\ Bump(f, d) \in [Device -> Nat]
         /\ f[d] > 0 => Drop(f, d) \in [Device -> Nat]
BY DEF Bump, Drop

\* A channel that is marked is a channel, and none loses its mark.
LEMMA ExcuseIsTyped ==
  ASSUME misled \subseteq Channel, NEW S, Excuse(S)
  PROVE  misled' \subseteq Channel /\ misled \subseteq misled'
BY DEF Excuse

\* What an update does to the types, whether or not it arrives.
LEMMA UpdateIsTyped ==
  ASSUME told \in [Channel -> Status], misled \subseteq Channel, spent \in Used,
         NEW c, NEW status \in Status, sendChannelUpdate(c, status)
  PROVE  /\ told' \in [Channel -> Status] /\ misled' \subseteq Channel
         /\ spent' \in Used
         /\ spent'.update >= spent.update
         /\ spent' = spent \/ spent'.update > 0
<1>1. Tell(c, status) => told' \in [Channel -> Status] /\ misled' \subseteq Channel
  BY DEF Tell
<1>2. CASE Tell(c, status) /\ UNCHANGED spent
  BY <1>1, <1>2 DEF Used
<1>3. CASE Tell(c, status) /\ Fault("update")
  BY <1>1, <1>3, FaultIsTyped, LossIsCounted
<1>4. CASE Fault("update") /\ Excuse({c}) /\ UNCHANGED told
  BY <1>4, FaultIsTyped, LossIsCounted, ExcuseIsTyped
<1> QED
  BY <1>2, <1>3, <1>4 DEF sendChannelUpdate

\* The types, without the set of counters.
LEMMA TypeUnfolds ==
  ASSUME TypeOK
  PROVE  /\ mu \in BOOLEAN
         /\ reg \subseteq Device /\ saved \subseteq Device /\ ghost \subseteq Device
         /\ misled \subseteq Channel
         /\ scannable \in [Device -> Nat] /\ paired \in [Device -> Nat]
         /\ unsent \in [Device -> Nat] /\ inbox \in [Device -> Nat]
         /\ pc \in [Kinds -> Labels]
         /\ cur \in [Kinds -> Request \cup {None}]
         /\ answer \in [Kinds -> Answers]
         /\ result \in [Kinds -> {"ok", "error"}]
         /\ payload \in Payloads
         /\ st \in [Request -> {"pending", "processing", "completed", "failed"}]
         /\ told \in [Channel -> Status]
         /\ answers \in [Request -> Nat] /\ pulls \in [Request -> Nat]
         /\ spent \in Used
BY DEF TypeOK, Labels, Answers, Status, Used

\* A payload holds a channel and a device or lacks them; a QR request that can be
\* read has a channel.
LEMMA PayloadIsTyped ==
  ASSUME payload \in Payloads, NEW r \in Request
  PROVE  /\ payload[r].channel \in Channel \cup {None}
         /\ payload[r].device \in Device \cup {None}
         /\ Readable(r) /\ Kind[r] = "qr" => payload[r].channel \in Channel
BY Types DEF Payload, Readable

\* Every variable keeps its type, and a poller its request.
LEMMA Typed == TypedInv /\ [Next]_vars => TypedInv'
<1> SUFFICES ASSUME TypedInv, [Next]_vars PROVE TypedInv'
  OBVIOUS
<1> USE DEF Kinds
<1>0. TypeOK /\ None \notin Request /\ Channel \subseteq Device
  BY Types DEF TypedInv
<1> USE TypeUnfolds, <1>0
<1> DEFINE Frame == UNCHANGED <<poller, payload, st, answers, pulls>>
<1> DEFINE FlatType ==
        /\ mu \in BOOLEAN
        /\ reg \subseteq Device /\ saved \subseteq Device /\ ghost \subseteq Device
        /\ misled \subseteq Channel
        /\ scannable \in [Device -> Nat] /\ paired \in [Device -> Nat]
        /\ unsent \in [Device -> Nat] /\ inbox \in [Device -> Nat]
        /\ told \in [Channel -> Status] /\ spent \in Used
<1> DEFINE WorkType ==
        /\ pc \in [Kinds -> Labels] /\ cur \in [Kinds -> Request \cup {None}]
        /\ answer \in [Kinds -> Answers]
        /\ result \in [Kinds -> {"ok", "error"}]
        /\ payload \in Payloads
        /\ st \in [Request -> {"pending", "processing", "completed", "failed"}]
        /\ answers \in [Request -> Nat] /\ pulls \in [Request -> Nat]
<1>a. FlatType /\ WorkType
  OBVIOUS
<1>b. FlatType' /\ WorkType' => TypeOK'
  BY DEF TypeOK, Labels, Answers, Status, Used
<1>c. FlatType' /\ Frame => TypedInv'
  BY <1>b DEF TypedInv, PollerInv, poller, Ch, Dev
\* A handler moves on with the request it has.
<1>d. ASSUME FlatType', WorkType', UNCHANGED <<payload, cur>>, NEW k \in Kinds,
             pc[k] # "idle",
             \A j \in Kinds \ {k} : pc'[j] = pc[j] /\ answer'[j] = answer[j],
             \/ pc'[k] = "idle" \/ pc'[k] = "report"
             \/ pc'[k] = "update" /\ Ch(k) \in Channel /\ answer'[k] # "none"
             \/ pc[k] \in {"create", "code"} /\ pc'[k] \in {"code", "wait"}
             \/ pc[k] = "find" /\ pc'[k] = "logout"
      PROVE  TypedInv'
  <2>1. \A j \in Kinds : Ch(j)' = Ch(j) /\ Dev(j)' = Dev(j)
    BY <1>d DEF Ch, Dev
  <2>2. PollerInv'
    BY <1>d, <2>1 DEF PollerInv, TypedInv
  <2> QED
    BY <1>b, <1>d, <2>2 DEF TypedInv
<1> HIDE DEF Frame
<1>1. ASSUME NEW d \in Device, Scan(d) PROVE TypedInv'
  BY <1>1, <1>c, CountersAreTyped DEF Scan, poller, queue, events, tell, Frame
<1>2. ASSUME NEW d \in Device, CodeExpires(d) \/ CreateElsewhere(d) PROVE TypedInv'
  <2>1. scannable' \in [Device -> Nat] /\ spent' \in Used
    BY <1>2, CountersAreTyped, EventIsTyped DEF CodeExpires, CreateElsewhere
  <2> QED
    BY <1>2, <2>1, <1>c DEF CodeExpires, CreateElsewhere, poller, queue, events, tell, Frame
<1>3. ASSUME NEW d \in Device, Register(d) PROVE TypedInv'
  <2>1. misled' \subseteq Channel
    BY <1>3, ExcuseIsTyped DEF Register
  <2>2. paired' \in [Device -> Nat] /\ unsent' \in [Device -> Nat]
    BY <1>3, CountersAreTyped DEF Register
  <2> QED
    BY <1>3, <1>c, <2>1, <2>2 DEF Register, poller, queue, Frame
<1>4. ASSUME NEW d \in Device, publishEvent(d) PROVE TypedInv'
  BY <1>4, <1>c, CountersAreTyped DEF publishEvent, poller, queue, manager, sessions, tell, Frame
<1>5. ASSUME NEW d \in Device, Connected(d) PROVE TypedInv'
  <2>1. misled' \subseteq Channel /\ spent' \in Used
    BY <1>5, ExcuseIsTyped, EventIsTyped DEF Connected
  <2> QED
    BY <1>5, <1>c, <2>1, CountersAreTyped DEF Connected, poller, queue, manager, sessions, Frame
<1>6. ASSUME NEW d \in Device, LoggedOut(d) PROVE TypedInv'
  <2>1. misled' \subseteq Channel /\ spent' \in Used
    BY <1>6, ExcuseIsTyped, EventIsTyped DEF LoggedOut
  <2> QED
    BY <1>6, <1>c, <2>1 DEF LoggedOut, poller, queue, sessions, events, Frame
<1>7. ASSUME NEW d \in Device, handleDeviceConnectedForQR(d) PROVE TypedInv'
  <2>1. "CONNECTED" \in Status /\ inbox' \in [Device -> Nat]
    BY <1>7, CountersAreTyped DEF handleDeviceConnectedForQR, Status
  <2>2. told' \in [Channel -> Status] /\ misled' \subseteq Channel /\ spent' \in Used
    BY <1>7, <2>1, UpdateIsTyped DEF handleDeviceConnectedForQR, tell
  <2> QED
    BY <1>7, <1>c, <2>1, <2>2
    DEF handleDeviceConnectedForQR, manager, sessions, poller, queue, Frame
<1>8. ASSUME NEW k \in Kinds, NEW r \in Request, Pull(k, r) PROVE TypedInv'
  <2>1. /\ st' \in [Request -> {"pending", "processing", "completed", "failed"}]
        /\ pc[k] = "idle" /\ Kind[r] = k
        /\ UNCHANGED <<manager, events, payload, told, answers>>
    BY <1>8 DEF Pull
  <2>2. CASE Fault("api") /\ UNCHANGED <<poller, pulls, misled>>
    <3>1. spent' \in Used
      BY <2>2, FaultIsTyped
    <3>2. FlatType' /\ WorkType'
      BY <2>1, <2>2, <3>1 DEF manager, sessions, events, poller
    <3>3. PollerInv'
      BY <2>1, <2>2 DEF poller, PollerInv, TypedInv, Ch, Dev
    <3> QED
      BY <3>2, <3>3, <1>b DEF TypedInv
  <2>3. CASE /\ cur' = [cur EXCEPT ![k] = r]
             /\ pulls' = [pulls EXCEPT ![r] = @ + 1]
             /\ Look(k, r)
             /\ UNCHANGED spent
    <3> DEFINE c == payload[r].channel
               d == payload[r].device
    <3>1. /\ c \in Channel \cup {None} /\ d \in Device \cup {None}
          /\ Readable(r) /\ k = "qr" => c \in Channel
      BY <2>1, PayloadIsTyped
    <3>2. /\ pc' \in [Kinds -> Labels] /\ answer' \in [Kinds -> Answers]
          /\ result' \in [Kinds -> {"ok", "error"}]
          /\ misled' \subseteq Channel
          /\ \A j \in Kinds \ {k} : pc'[j] = pc[j] /\ answer'[j] = answer[j]
          /\ \/ pc'[k] = "report"
             \/ pc'[k] = "update" /\ answer'[k] = "ERROR"
             \/ pc'[k] = "create" /\ k = "qr" /\ Readable(r)
             \/ pc'[k] = "find" /\ k = "disconnect" /\ None \notin {c, d}
      <4>1. CASE ~Readable(r)
        <5>1. Return(k, "error") /\ UNCHANGED misled
          BY <2>3, <4>1 DEF Look
        <5> QED
          BY <5>1 DEF Return, Goto, Labels
      <4>2. CASE Readable(r) /\ k = "disconnect" /\ None \in {c, d}
        <5>1. Answer(k, "ERROR", "ok") /\ Excuse({c})
          BY <2>3, <4>2 DEF Look
        <5>2. misled' \subseteq Channel
          BY <5>1, ExcuseIsTyped
        <5> QED
          BY <5>1, <5>2 DEF Answer, Goto, Labels, Answers
      <4>3. CASE Readable(r) /\ ~(k = "disconnect" /\ None \in {c, d})
        <5>1. /\ Goto(k, IF k = "qr" THEN "create" ELSE "find")
              /\ UNCHANGED <<answer, result, misled>>
          BY <2>3, <4>3 DEF Look
        <5> QED
          BY <4>3, <5>1 DEF Goto, Labels
      <4> QED
        BY <4>1, <4>2, <4>3
    <3>3. FlatType' /\ WorkType'
      BY <2>1, <2>3, <3>2 DEF manager, sessions, events
    <3>4. /\ cur'[k] = r /\ \A j \in Kinds \ {k} : cur'[j] = cur[j]
          /\ payload' = payload
      BY <2>1, <2>3
    <3>5. /\ Ch(k)' = c /\ k = "disconnect" => Dev(k)' = d
          /\ \A j \in Kinds \ {k} : Ch(j)' = Ch(j) /\ Dev(j)' = Dev(j)
      BY <3>4 DEF Ch, Dev
    <3>6. PollerInv'
      <4> SUFFICES ASSUME NEW j \in Kinds
                   PROVE  /\ pc'[j] # "idle" => cur'[j] \in Request /\ Kind[cur'[j]] = j
                          /\ pc'[j] \in {"create", "code", "wait"} => j = "qr"
                          /\ pc'[j] \in {"find", "logout"} => j = "disconnect" /\ Dev(j)' \in Device
                          /\ pc'[j] \in {"create", "code", "wait", "find", "logout"} => Ch(j)' \in Channel
                          /\ pc'[j] = "update" => answer'[j] # "none"
                          /\ pc'[j] = "update" /\ answer'[j] # "ERROR" => Ch(j)' \in Channel
        BY DEF PollerInv
      <4>1. CASE j # k
        BY <3>2, <3>4, <3>5, <4>1 DEF PollerInv, TypedInv
      <4>2. CASE j = k
        BY <2>1, <3>1, <3>2, <3>4, <4>2 DEF Ch, Dev
      <4> QED
        BY <4>1, <4>2
    <3> QED
      BY <3>3, <3>6, <1>b DEF TypedInv
  <2> QED
    BY <1>8, <2>2, <2>3 DEF Pull
<1>9. ASSUME NEW k \in Kinds, Update(k) PROVE TypedInv'
  <2>1. /\ cur[k] \in Request /\ pc[k] = "update" /\ answer[k] \in Status
        /\ answer[k] # "ERROR" => Ch(k) \in Channel
    BY <1>9 DEF Update, PollerInv, TypedInv, Status
  <2>2. told' \in [Channel -> Status] /\ misled' \subseteq Channel /\ spent' \in Used
    BY <1>9, <2>1, UpdateIsTyped DEF Update
  <2>3. scannable' \in [Device -> Nat]
    BY <1>9, <2>1, CountersAreTyped DEF Update
  <2>4. answers' \in [Request -> Nat]
    BY <1>9, <2>1 DEF Update
  <2>5. FlatType' /\ WorkType'
    BY <1>9, <2>2, <2>3, <2>4 DEF Update, Goto, Labels, events
  <2> QED
    BY <1>9, <1>d, <2>5 DEF Update, Goto
<1>10. ASSUME NEW k \in Kinds, Report(k) PROVE TypedInv'
  <2>1. spent' \in Used
    BY <1>10, FaultIsTyped DEF Report
  <2>2. st' \in [Request -> {"pending", "processing", "completed", "failed"}]
    BY <1>10 DEF Report, Outcomes
  <2>3. FlatType' /\ WorkType'
    BY <1>10, <2>1, <2>2
    DEF Report, Goto, Labels, Answers, manager, sessions, events, tell
  <2>4. PollerInv'
    BY <1>10 DEF Report, Goto, PollerInv, TypedInv, Ch, Dev
  <2> QED
    BY <2>3, <2>4, <1>b DEF TypedInv
<1>11. ASSUME NEW k \in Kinds, PullNothing(k) PROVE TypedInv'
  <2>1. UNCHANGED vars
    BY <1>11 DEF PullNothing
  <2> QED
    BY <2>1, <1>c DEF vars, manager, sessions, events, poller, queue, tell, Frame
<1>12. ASSUME CreateDevice PROVE TypedInv'
  <2>1. misled' \subseteq Channel /\ Ch("qr") \in Channel
    BY <1>12, ExcuseIsTyped DEF CreateDevice, PollerInv, TypedInv
  <2>2. FlatType'
    BY <1>12, <2>1 DEF CreateDevice, queue, sessions, events
  <2>3. WorkType'
    BY <1>12 DEF CreateDevice, queue, Goto, Answer, Labels, Answers
  <2> QED
    BY <1>12, <1>d, <2>1, <2>2, <2>3 DEF CreateDevice, Goto, Answer, queue
<1>13. ASSUME CreateReturnsCode PROVE TypedInv'
  <2>1. misled' \subseteq Channel /\ Ch("qr") \in Channel
    BY <1>13, ExcuseIsTyped DEF CreateReturnsCode, PollerInv, TypedInv
  <2>2. FlatType' /\ WorkType'
    BY <1>13, <2>1 DEF CreateReturnsCode, queue, Goto, Answer, Labels, Answers, sessions, events
  <2> QED
    BY <1>13, <1>d, <2>1, <2>2 DEF CreateReturnsCode, Goto, Answer, queue
<1>14. ASSUME CreateReturnsNone PROVE TypedInv'
  <2>1. FlatType' /\ WorkType'
    BY <1>14 DEF CreateReturnsNone, queue, Goto, Labels, sessions, events, tell
  <2> QED
    BY <1>14, <1>d, <2>1 DEF CreateReturnsNone, Goto, queue
<1>15. ASSUME Timeout PROVE TypedInv'
  <2>1. misled' \subseteq Channel /\ Ch("qr") \in Channel
    BY <1>15, ExcuseIsTyped DEF Timeout, PollerInv, TypedInv
  <2>2. FlatType' /\ WorkType'
    BY <1>15, <2>1
    DEF Timeout, queue, manager, sessions, events, Goto, Answer, Labels, Answers
  <2> QED
    BY <1>15, <1>d, <2>1, <2>2 DEF Timeout, Goto, Answer, queue
<1>16. ASSUME FindDevice PROVE TypedInv'
  <2>1. misled' \subseteq Channel /\ Ch("disconnect") \in Channel
    BY <1>16, ExcuseIsTyped DEF FindDevice, PollerInv, TypedInv
  <2>2. FlatType' /\ WorkType'
    BY <1>16, <2>1
    DEF FindDevice, queue, manager, sessions, events, Goto, Answer, Labels, Answers
  <2> QED
    BY <1>16, <1>d, <2>1, <2>2 DEF FindDevice, Goto, Answer, queue
<1>17. ASSUME LogoutDevice PROVE TypedInv'
  <2>1. misled' \subseteq Channel /\ Ch("disconnect") \in Channel
    BY <1>17, ExcuseIsTyped DEF LogoutDevice, PollerInv, TypedInv
  <2>2. FlatType' /\ WorkType'
    BY <1>17, <2>1 DEF LogoutDevice, queue, sessions, events, Goto, Answer, Labels, Answers
  <2> QED
    BY <1>17, <1>d, <2>1, <2>2 DEF LogoutDevice, Goto, Answer, queue
<1>18. ASSUME Restart PROVE TypedInv'
  <2>1. spent' \in Used /\ misled' \subseteq Channel
    BY <1>18, FaultIsTyped, ExcuseIsTyped DEF Restart
  <2>2. FlatType' /\ WorkType'
    BY <1>18, <2>1 DEF Restart, Labels, Answers, queue
  <2>3. PollerInv'
    BY <1>18 DEF Restart, PollerInv
  <2> QED
    BY <2>2, <2>3, <1>b DEF TypedInv
<1>19. ASSUME RestoreDevices PROVE TypedInv'
  <2>1. PICK gone \in SUBSET saved :
          /\ reg' = reg \cup (saved \ gone)
          /\ ghost' = ghost \cup (reg \cap (saved \ gone))
          /\ Excuse((gone \ reg) \cup {c \in saved : \E k \in Kinds : Busy(k, c)})
    BY <1>19 DEF RestoreDevices
  <2>2. misled' \subseteq Channel
    BY <2>1, ExcuseIsTyped
  <2> QED
    BY <1>19, <1>c, <2>1, <2>2 DEF RestoreDevices, sessions, events, poller, queue, Frame
<1>20. ASSUME UNCHANGED vars PROVE TypedInv'
  BY <1>20, <1>c DEF vars, manager, sessions, events, poller, queue, tell, Frame
<1> QED
  BY <1>1, <1>2, <1>3, <1>4, <1>5, <1>6, <1>7, <1>8, <1>9, <1>10, <1>11, <1>12,
     <1>13, <1>14, <1>15, <1>16, <1>17, <1>18, <1>19, <1>20
  DEF Next, PollerStep, QRStep, DisconnectStep

\* The types hold at first.
LEMMA TypedInitially == Init => TypedInv
<1> SUFFICES ASSUME Init PROVE TypedInv
  OBVIOUS
<1>1. /\ \A f \in {scannable, paired, unsent, inbox} : f \in [Device -> Nat]
      /\ answers \in [Request -> Nat] /\ pulls \in [Request -> Nat]
  BY DEF Init
<1>2. /\ reg \subseteq Device /\ saved \subseteq Device /\ ghost \subseteq Device
      /\ misled \subseteq Channel
  BY DEF Init
<1>3. TypeOK
  BY <1>1, <1>2 DEF Init, TypeOK
<1>4. PollerInv
  BY DEF Init, PollerInv
<1> QED
  BY <1>3, <1>4 DEF TypedInv

\* The invariant of the types holds for any sets of devices, channels and
\* requests.
THEOREM RequestsTypeInvariant == Spec => []TypeOK
<1>1. TypedInv => TypeOK
  BY DEF TypedInv
<1> QED
  BY TypedInitially, Typed, <1>1, PTL DEF Spec

-----------------------------------------------------------------------------
(* Answers.  Between a pull and the answer a request is owed one; a handler   *)
(* reports only what it has answered, unless it could not read it.           *)

Owed == \A k \in Kinds : pc[k] \notin {"idle", "report"} => answers[cur[k]] < pulls[cur[k]]

Told(r) == Readable(r) => answers[r] > 0 \/ spent.update > 0

AnswersInv ==
    /\ \A r \in Request : answers[r] <= pulls[r]
    /\ Owed
    /\ \A k \in Kinds : pc[k] = "report" => Told(cur[k])
    /\ \A r \in Request : st[r] \in {"completed", "failed"} => Told(r)

\* Steps that change neither the requests nor who works at them, but for the
\* place in a handler where no answer has been sent.
LEMMA AnswersFrame ==
  ASSUME TypedInv, AnswersInv, UNCHANGED <<payload, st, answers, pulls>>,
         spent'.update >= spent.update, spent' \in Used,
         \A k \in Kinds :
            \/ pc'[k] = pc[k] /\ cur'[k] = cur[k]
            \/ pc[k] \notin {"idle", "report"} /\ pc'[k] # "report" /\ cur'[k] = cur[k]
            \/ pc'[k] = "idle"
  PROVE  AnswersInv'
<1>1. spent \in Used
  BY TypeUnfolds DEF TypedInv
<1>2. \A r \in Request \cup {None} : Told(r) => Told(r)'
  BY <1>1 DEF Told, Used, Readable
<1>3. \A k \in Kinds : pc[k] # "idle" => cur[k] \in Request
  BY DEF TypedInv, PollerInv
<1>4. Owed'
  BY <1>3 DEF AnswersInv, Owed
<1>5. \A k \in Kinds : pc'[k] = "report" => Told(cur[k])' /\ cur'[k] = cur[k]
  BY <1>2, <1>3 DEF AnswersInv
<1>6. \A k \in Kinds : pc'[k] = "report" => Told(cur[k])'
  BY <1>5 DEF Told
<1> QED
  BY <1>2, <1>4, <1>6 DEF AnswersInv

\* Each step keeps account of the answers.
LEMMA Answered == TypedInv /\ AnswersInv /\ [Next]_vars => AnswersInv'
<1> SUFFICES ASSUME TypedInv, AnswersInv, [Next]_vars PROVE AnswersInv'
  OBVIOUS
<1> USE DEF Kinds
<1>a. /\ spent \in Used /\ payload \in Payloads
      /\ pc \in [Kinds -> Labels] /\ cur \in [Kinds -> Request \cup {None}]
      /\ st \in [Request -> {"pending", "processing", "completed", "failed"}]
      /\ answers \in [Request -> Nat] /\ pulls \in [Request -> Nat]
      /\ told \in [Channel -> Status] /\ misled \subseteq Channel
  BY TypeUnfolds DEF TypedInv
<1>b. \A k \in Kinds : pc[k] # "idle" => cur[k] \in Request /\ Kind[cur[k]] = k
  BY DEF TypedInv, PollerInv
<1>c. ASSUME spent' = spent, UNCHANGED <<poller, payload, st, answers, pulls>>
      PROVE  AnswersInv'
  BY <1>a, <1>c, AnswersFrame DEF poller, Used
<1>1. ASSUME NEW d \in Device, Scan(d) PROVE AnswersInv'
  BY <1>1, <1>c DEF Scan, queue
<1>2. ASSUME NEW d \in Device, CodeExpires(d) \/ CreateElsewhere(d) PROVE AnswersInv'
  <2>1. spent' \in Used /\ spent'.update >= spent.update
    BY <1>2, <1>a, EventIsTyped DEF CodeExpires, CreateElsewhere, Used
  <2> QED
    BY <1>2, <2>1, AnswersFrame DEF CodeExpires, CreateElsewhere, queue, poller
<1>3. ASSUME NEW d \in Device, Register(d) PROVE AnswersInv'
  BY <1>3, <1>c DEF Register, queue
<1>4. ASSUME NEW d \in Device, publishEvent(d) PROVE AnswersInv'
  BY <1>4, <1>c DEF publishEvent, queue
<1>5. ASSUME NEW d \in Device, Connected(d) PROVE AnswersInv'
  <2>1. spent' \in Used /\ spent'.update >= spent.update
    BY <1>5, <1>a, EventIsTyped DEF Connected, Used
  <2> QED
    BY <1>5, <2>1, AnswersFrame DEF Connected, queue, poller
<1>6. ASSUME NEW d \in Device, LoggedOut(d) PROVE AnswersInv'
  <2>1. spent' \in Used /\ spent'.update >= spent.update
    BY <1>6, <1>a, EventIsTyped DEF LoggedOut, Used
  <2> QED
    BY <1>6, <2>1, AnswersFrame DEF LoggedOut, poller, queue
<1>7. ASSUME NEW d \in Device, handleDeviceConnectedForQR(d) PROVE AnswersInv'
  <2>1. "CONNECTED" \in Status
    BY DEF Status
  <2>2. spent' \in Used /\ spent'.update >= spent.update
    BY <1>7, <1>a, <2>1, UpdateIsTyped DEF handleDeviceConnectedForQR, tell, Used
  <2> QED
    BY <1>7, <2>2, AnswersFrame DEF handleDeviceConnectedForQR, poller, queue
<1>8. ASSUME NEW k \in Kinds, NEW r \in Request, Pull(k, r) PROVE AnswersInv'
  <2>1. spent' \in Used /\ spent'.update >= spent.update
    BY <1>8, <1>a, FaultIsTyped DEF Pull, Used
  <2>2. /\ st' = [st EXCEPT ![r] = "processing"]
        /\ payload' = payload /\ answers' = answers
        /\ pc[k] = "idle" /\ Kind[r] = k
    BY <1>8 DEF Pull
  <2>3. \A q \in Request : Told(q) => Told(q)'
    BY <1>a, <2>1, <2>2 DEF Told, Used, Readable
  <2>4. \A q \in Request : st'[q] \in {"completed", "failed"} => Told(q)'
    BY <1>a, <2>2, <2>3 DEF AnswersInv
  <2>5. CASE UNCHANGED <<poller, pulls>>
    <3>1. Owed'
      BY <2>2, <2>5 DEF poller, Owed, AnswersInv
    <3>2. \A j \in Kinds : pc'[j] = "report" => Told(cur[j])'
      BY <2>2, <2>3, <2>5, <1>b DEF poller, AnswersInv, Told
    <3> QED
      BY <2>2, <2>4, <2>5, <3>1, <3>2 DEF AnswersInv
  <2>6. CASE /\ cur' = [cur EXCEPT ![k] = r]
             /\ pulls' = [pulls EXCEPT ![r] = @ + 1]
             /\ Look(k, r)
    <3>1. /\ \A j \in Kinds \ {k} : pc'[j] = pc[j] /\ cur'[j] = cur[j]
          /\ cur'[k] = r
          /\ pulls'[r] = pulls[r] + 1
          /\ \A q \in Request \ {r} : pulls'[q] = pulls[q]
      <4>1. pc' = [pc EXCEPT ![k] = pc'[k]]
        BY <1>a, <2>6 DEF Look, Return, Answer, Goto
      <4> QED
        BY <1>a, <2>6, <4>1
    <3>2. pc'[k] = "report" => ~Readable(r)
      BY <1>a, <2>6 DEF Look, Answer, Goto
    <3>3. \A j \in Kinds \ {k} : pc[j] # "idle" => cur[j] # r
      BY <1>b, <2>2
    <3>4. Owed'
      <4> SUFFICES ASSUME NEW j \in Kinds, pc'[j] \notin {"idle", "report"}
                   PROVE  answers'[cur'[j]] < pulls'[cur'[j]]
        BY DEF Owed
      <4>1. CASE j = k
        BY <1>a, <2>2, <3>1, <4>1 DEF AnswersInv
      <4>2. CASE j # k
        BY <1>b, <2>2, <3>1, <3>3, <4>2 DEF AnswersInv, Owed
      <4> QED
        BY <4>1, <4>2
    <3>5. \A j \in Kinds : pc'[j] = "report" => Told(cur[j])' 
      <4> SUFFICES ASSUME NEW j \in Kinds, pc'[j] = "report"
                   PROVE  Told(cur[j])'
        OBVIOUS
      <4>1. CASE j = k
        BY <2>2, <3>1, <3>2, <4>1 DEF Told, Readable
      <4>2. CASE j # k
        <5>1. cur'[j] = cur[j] /\ cur[j] \in Request /\ Told(cur[j])
          BY <1>b, <3>1, <4>2 DEF AnswersInv
        <5> QED
          BY <2>2, <2>3, <5>1 DEF Told, Readable
      <4> QED
        BY <4>1, <4>2
    <3>6. \A q \in Request : answers'[q] <= pulls'[q]
      BY <1>a, <2>2, <3>1 DEF AnswersInv
    <3> QED
      BY <2>4, <3>4, <3>5, <3>6 DEF AnswersInv
  <2> QED
    BY <1>8, <2>5, <2>6 DEF Pull
<1>9. ASSUME NEW k \in Kinds, Update(k) PROVE AnswersInv'
  <2>1. cur[k] \in Request /\ answer[k] \in Status /\ pc[k] = "update"
    BY <1>9, <1>b, TypeUnfolds DEF Update, TypedInv, Status
  <2>2. /\ spent' \in Used /\ spent'.update >= spent.update
        /\ spent' = spent \/ spent'.update > 0
    BY <1>9, <1>a, <2>1, UpdateIsTyped DEF Update
  <2>3. /\ answers' = [answers EXCEPT ![cur[k]] = @ + IF spent' = spent THEN 1 ELSE 0]
        /\ pc' = [pc EXCEPT ![k] = "report"]
        /\ UNCHANGED <<cur, payload, st, pulls>>
    BY <1>9 DEF Update, Goto
  <2>4. \A r \in Request : answers[r] <= answers'[r] /\ answers'[r] \in Nat
    BY <1>a, <2>1, <2>3
  <2>5. answers'[cur[k]] > 0 \/ spent'.update > 0
    BY <1>a, <2>1, <2>2, <2>3
  <2>6. \A r \in Request : Told(r) => Told(r)'
    BY <1>a, <2>2, <2>3, <2>4 DEF Told, Used, Readable
  <2>7. \A r \in Request : answers'[r] <= pulls'[r]
    <3>1. answers[cur[k]] < pulls[cur[k]]
      BY <2>1 DEF AnswersInv, Owed
    <3> QED
      BY <1>a, <2>1, <2>3, <3>1 DEF AnswersInv
  <2>8. Owed'
    <3> SUFFICES ASSUME NEW j \in Kinds, pc'[j] \notin {"idle", "report"}
                 PROVE  answers'[cur'[j]] < pulls'[cur'[j]]
      BY DEF Owed
    <3>1. j # k /\ pc[j] = pc'[j] /\ cur'[j] = cur[j]
      BY <1>a, <2>3
    <3>2. cur[j] # cur[k] /\ cur[j] \in Request
      BY <1>b, <2>1, <3>1
    <3> QED
      BY <1>a, <2>1, <2>3, <3>1, <3>2 DEF AnswersInv, Owed
  <2>9. \A j \in Kinds : pc'[j] = "report" => Told(cur[j])'
    BY <1>a, <1>b, <2>1, <2>3, <2>5, <2>6 DEF Told, AnswersInv, Readable
  <2> QED
    BY <2>3, <2>6, <2>7, <2>8, <2>9 DEF AnswersInv
<1>10. ASSUME NEW k \in Kinds, Report(k) PROVE AnswersInv'
  <2>1. spent' \in Used /\ spent'.update >= spent.update
    BY <1>10, <1>a, FaultIsTyped DEF Report, Used
  <2>2. /\ pc[k] = "report" /\ pc' = [pc EXCEPT ![k] = "idle"]
        /\ cur' = [cur EXCEPT ![k] = None]
        /\ UNCHANGED <<payload, answers, pulls>>
    BY <1>10 DEF Report, Goto
  <2>3. \A r \in Request : r # cur[k] => st'[r] = st[r]
    BY <1>10, <1>a DEF Report
  <2>4. cur[k] \in Request /\ Told(cur[k])
    BY <1>b, <2>2 DEF AnswersInv
  <2>5. \A r \in Request : Told(r) => Told(r)'
    BY <1>a, <2>1, <2>2 DEF Told, Used, Readable
  <2>6. Owed'
    BY <1>a, <1>b, <2>2 DEF AnswersInv, Owed
  <2>7. \A j \in Kinds : pc'[j] = "report" => Told(cur[j])'
    BY <1>a, <1>b, <2>2, <2>5 DEF AnswersInv, Told, Readable
  <2> QED
    BY <2>2, <2>3, <2>4, <2>5, <2>6, <2>7 DEF AnswersInv
<1>11. ASSUME NEW k \in Kinds, PullNothing(k) PROVE AnswersInv'
  BY <1>11, <1>c DEF PullNothing, vars, queue
<1>12. ASSUME CreateDevice PROVE AnswersInv'
  BY <1>12, <1>a, AnswersFrame DEF CreateDevice, Goto, Answer, queue, Used
<1>13. ASSUME CreateReturnsCode PROVE AnswersInv'
  BY <1>13, <1>a, AnswersFrame DEF CreateReturnsCode, Goto, Answer, queue, Used
<1>14. ASSUME CreateReturnsNone PROVE AnswersInv'
  BY <1>14, <1>a, AnswersFrame DEF CreateReturnsNone, Goto, queue, Used
<1>15. ASSUME Timeout PROVE AnswersInv'
  BY <1>15, <1>a, AnswersFrame DEF Timeout, Goto, Answer, queue, Used
<1>16. ASSUME FindDevice PROVE AnswersInv'
  BY <1>16, <1>a, AnswersFrame DEF FindDevice, Goto, Answer, queue, Used
<1>17. ASSUME LogoutDevice PROVE AnswersInv'
  BY <1>17, <1>a, AnswersFrame DEF LogoutDevice, Goto, Answer, queue, Used
<1>18. ASSUME Restart PROVE AnswersInv'
  <2>1. spent' \in Used /\ spent'.update >= spent.update
    BY <1>18, <1>a, FaultIsTyped DEF Restart, Used
  <2> QED
    BY <1>18, <2>1, AnswersFrame DEF Restart, queue
<1>19. ASSUME RestoreDevices PROVE AnswersInv'
  BY <1>19, <1>c DEF RestoreDevices, queue
<1>20. ASSUME UNCHANGED vars PROVE AnswersInv'
  BY <1>20, <1>c DEF vars, queue
<1> QED
  BY <1>1, <1>2, <1>3, <1>4, <1>5, <1>6, <1>7, <1>8, <1>9, <1>10, <1>11, <1>12,
     <1>13, <1>14, <1>15, <1>16, <1>17, <1>18, <1>19, <1>20
  DEF Next, PollerStep, QRStep, DisconnectStep

\* A request that can be read is completed or given up only after an answer,
\* unless an update was lost, and is answered at most once per pull: for any
\* number of requests, retries and faults.
THEOREM RequestsAreAnswered == Spec => []AnswersAccounted
<1>1. Init => AnswersInv
  BY DEF Init, AnswersInv, Owed, Kinds
<1>2. AnswersInv => AnswersAccounted
  BY DEF AnswersInv, AnswersAccounted, Told
<1> QED
  BY TypedInitially, Typed, Answered, <1>1, <1>2, PTL DEF Spec

-----------------------------------------------------------------------------
(* What the queue service was told.  Nothing is said of a channel that is      *)
(* marked.  Of any other, a handler about to say that it is not connected      *)
(* knows its device to be gone, and not to come back; events on their way are  *)
(* of a device that is there, or about to be; and without them the last        *)
(* update agrees with the registry, or with the one to be restored, unless     *)
(* that the device was logged out is still to be told.                         *)

Hot(k, c) == pc[k] \in {"code", "wait", "update"} /\ Ch(k) = c

Apart(c) ==
    \A k \in Kinds : Hot(k, c) => c \notin reg /\ (pc[k] = "update" => c \notin saved)

Leaving(c) == \E k \in Kinds : pc[k] = "update" /\ Ch(k) = c /\ answer[k] = "DISCONNECTED"

Straight(c) ==
    /\ Apart(c)
    /\ Announced(c) => c \in reg \/ paired[c] > 0
    /\ ~Announced(c) /\ c \in reg \cup saved => told[c] = "CONNECTED"
    /\ ~Announced(c) /\ c \notin reg \cup saved /\ paired[c] = 0 =>
          told[c] # "CONNECTED" \/ Leaving(c)

ToldInv == \A c \in Channel : c \notin misled => Straight(c)

\* A device to be logged out was restored if it had to be.
LogoutInv ==
    pc["disconnect"] = "logout" /\ Dev("disconnect") \in saved => Dev("disconnect") \in reg

AgreeInv == ToldInv /\ LogoutInv

\* Who is told about is busy.
LEMMA HotIsBusy ==
  ASSUME NEW c \in Channel
  PROVE  /\ \A k \in Kinds : Hot(k, c) => Busy(k, c)
         /\ Leaving(c) => \E k \in Kinds : Busy(k, c)
BY DEF Hot, Leaving, Busy

\* When nothing is on its way to a channel, being told right is all there is.
LEMMA SettledIsStraight ==
  ASSUME NEW c \in Channel, Settled(c)', Right(c, told[c])'
  PROVE  Straight(c)'
<1>1. ~Announced(c)' /\ c \notin saved' /\ Apart(c)'
  BY DEF Settled, Apart, Hot, Busy
<1> QED
  BY <1>1 DEF Straight, Right

\* Steps that change nothing about a channel, but that a handler may take it up,
\* or decide on it while its device is gone.
LEMMA StraightFrame ==
  ASSUME NEW c \in Channel, Straight(c),
         told'[c] = told[c], c \in reg' <=> c \in reg, c \in saved' <=> c \in saved,
         paired[c] \in Nat, paired'[c] \in Nat, paired'[c] >= paired[c],
         Announced(c)' <=> Announced(c),
         Leaving(c) => Leaving(c)',
         \A k \in Kinds : Hot(k, c)' =>
            \/ Hot(k, c) /\ (pc'[k] = "update" => pc[k] = "update")
            \/ c \notin reg /\ (pc'[k] = "update" => c \notin saved)
  PROVE  Straight(c)'
<1>1. Apart(c)'
  BY DEF Straight, Apart
<1> QED
  BY <1>1 DEF Straight

\* An update of one channel: the others hear nothing; the channel has heard it,
\* or is marked; and a mark goes only when it is settled and right.
LEMMA UpdateTells ==
  ASSUME told \in [Channel -> Status], NEW c, NEW status, NEW e \in Channel,
         sendChannelUpdate(c, status), e \notin misled'
  PROVE  /\ e # c => told'[e] = told[e] /\ e \notin misled
         /\ e = c => /\ told'[e] = status
                     /\ e \notin misled \/ (Right(e, status) /\ Settled(e)')
<1>1. CASE Tell(c, status)
  BY <1>1 DEF Tell
<1>2. CASE Excuse({c}) /\ UNCHANGED told
  BY <1>2 DEF Excuse
<1> QED
  BY <1>1, <1>2 DEF sendChannelUpdate

\* Each step keeps a device to be logged out.
LEMMA LogoutIsKept == TypedInv /\ LogoutInv /\ [Next]_vars => LogoutInv'
<1> SUFFICES ASSUME TypedInv, LogoutInv, [Next]_vars PROVE LogoutInv'
  OBVIOUS
<1> USE DEF Kinds
<1>a. /\ pc \in [Kinds -> Labels] /\ cur \in [Kinds -> Request \cup {None}]
  BY TypeUnfolds DEF TypedInv
\* Steps that do not touch the poller, and take no device from the registry.
<1>b. ASSUME UNCHANGED <<poller, payload>>, reg \subseteq reg', saved' \subseteq saved
      PROVE  LogoutInv'
  BY <1>b DEF LogoutInv, Dev, Ch, poller
<1>c. ASSUME pc'["disconnect"] # "logout" PROVE LogoutInv'
  BY <1>c DEF LogoutInv
\* Steps of the other poller.
<1>d. ASSUME UNCHANGED <<payload, reg, saved>>, pc'["disconnect"] = pc["disconnect"],
             cur'["disconnect"] = cur["disconnect"]
      PROVE  LogoutInv'
  BY <1>d DEF LogoutInv, Dev
<1>1. ASSUME NEW d \in Device,
             Scan(d) \/ CodeExpires(d) \/ CreateElsewhere(d) \/ Register(d)
                \/ publishEvent(d) \/ Connected(d) \/ handleDeviceConnectedForQR(d)
      PROVE  LogoutInv'
  <2>1. /\ UNCHANGED <<poller, payload, saved>> /\ reg \subseteq reg'
    BY <1>1 DEF Scan, CodeExpires, CreateElsewhere, Register, publishEvent, Connected,
                handleDeviceConnectedForQR, queue, manager
  <2> QED
    BY <1>b, <2>1
<1>2. ASSUME NEW d \in Device, LoggedOut(d) PROVE LogoutInv'
  BY <1>2 DEF LoggedOut, LogoutInv, Dev, Ch, poller, queue
<1>3. ASSUME NEW k \in Kinds, NEW r \in Request, Pull(k, r) PROVE LogoutInv'
  <2>1. UNCHANGED <<payload, reg, saved>>
    BY <1>3 DEF Pull, manager
  <2>2. CASE UNCHANGED poller
    BY <1>b, <2>1, <2>2
  <2>3. CASE cur' = [cur EXCEPT ![k] = r] /\ Look(k, r)
    <3>1. \A j \in Kinds \ {k} : pc'[j] = pc[j] /\ cur'[j] = cur[j]
      BY <1>a, <2>3 DEF Look, Return, Answer, Goto
    <3>2. pc'[k] # "logout"
      BY <1>a, <2>3 DEF Look, Return, Answer, Goto
    <3> QED
      BY <1>c, <1>d, <2>1, <3>1, <3>2
  <2> QED
    BY <1>3, <2>2, <2>3 DEF Pull
<1>4. ASSUME NEW k \in Kinds, Update(k) \/ Report(k) PROVE LogoutInv'
  <2>1. /\ UNCHANGED <<payload, reg, saved>> /\ pc'[k] # "logout"
        /\ \A j \in Kinds \ {k} : pc'[j] = pc[j] /\ cur'[j] = cur[j]
    BY <1>4, <1>a DEF Update, Report, Goto, manager
  <2> QED
    BY <1>c, <1>d, <2>1
<1>5. ASSUME NEW k \in Kinds, PullNothing(k) PROVE LogoutInv'
  BY <1>5, <1>b DEF PullNothing, vars, queue, manager
<1>6. ASSUME QRStep PROVE LogoutInv'
  BY <1>6, <1>a, <1>d
  DEF QRStep, CreateDevice, CreateReturnsCode, CreateReturnsNone, Timeout, Answer, Goto,
      queue, manager
<1>7. ASSUME FindDevice PROVE LogoutInv'
  BY <1>7, <1>a DEF FindDevice, LogoutInv, Answer, Goto, Dev, Ch, queue, manager
<1>8. ASSUME LogoutDevice PROVE LogoutInv'
  BY <1>8, <1>a, <1>c DEF LogoutDevice, Answer, Goto
<1>9. ASSUME Restart PROVE LogoutInv'
  BY <1>9, <1>c DEF Restart
<1>10. ASSUME RestoreDevices PROVE LogoutInv'
  BY <1>10, <1>b DEF RestoreDevices, queue
<1>11. ASSUME UNCHANGED vars PROVE LogoutInv'
  BY <1>11, <1>b DEF vars, queue, manager
<1> QED
  BY <1>1, <1>2, <1>3, <1>4, <1>5, <1>6, <1>7, <1>8, <1>9, <1>10, <1>11
  DEF Next, PollerStep, DisconnectStep

\* Each step keeps what a channel was told last in agreement with the registry,
\* or marks the channel.
LEMMA ToldIsKept == TypedInv /\ AgreeInv /\ [Next]_vars => ToldInv'
<1> SUFFICES ASSUME TypedInv, AgreeInv, [Next]_vars,
                    NEW c \in Channel, c \notin misled'
             PROVE  Straight(c)'
  BY DEF ToldInv
<1> USE DEF Kinds
<1>a. /\ pc \in [Kinds -> Labels] /\ cur \in [Kinds -> Request \cup {None}]
      /\ answer \in [Kinds -> Answers]
      /\ unsent \in [Device -> Nat] /\ inbox \in [Device -> Nat]
      /\ paired \in [Device -> Nat] /\ paired[c] \in Nat
      /\ unsent[c] \in Nat /\ inbox[c] \in Nat
      /\ told \in [Channel -> Status] /\ misled \subseteq Channel
      /\ c \in Device /\ c # None
  BY TypeUnfolds, Types DEF TypedInv
<1>b. c \notin misled => Straight(c)
  BY DEF AgreeInv, ToldInv
<1>c. \A S : Excuse(S) => c \notin misled /\ c \notin S
  BY DEF Excuse
<1>d. ASSUME c \notin misled, told'[c] = told[c], c \in reg' <=> c \in reg,
             c \in saved' <=> c \in saved, paired'[c] \in Nat, paired'[c] >= paired[c],
             Announced(c)' <=> Announced(c), UNCHANGED <<poller, payload>>
      PROVE  Straight(c)'
  <2>1. /\ Leaving(c) => Leaving(c)'
        /\ \A k \in Kinds : Hot(k, c)' => Hot(k, c) /\ pc'[k] = pc[k]
    BY <1>d DEF Leaving, Hot, Ch, poller
  <2> QED
    BY <1>a, <1>b, <1>d, <2>1, StraightFrame
\* A handler moves on.
<1>e. ASSUME c \notin misled, NEW k \in Kinds, UNCHANGED <<told, reg, saved, paired, events, payload>>,
             \A j \in Kinds \ {k} :
                pc'[j] = pc[j] /\ cur'[j] = cur[j] /\ answer'[j] = answer[j],
             pc[k] # "update",
             Hot(k, c)' => \/ Hot(k, c) /\ pc'[k] # "update"
                           \/ c \notin reg /\ (pc'[k] = "update" => c \notin saved)
      PROVE  Straight(c)'
  <2>1. \A j \in Kinds \ {k} : Ch(j)' = Ch(j)
    BY <1>e DEF Ch
  <2>2. Announced(c)' <=> Announced(c)
    BY <1>e DEF Announced, events
  <2>3. Leaving(c) => Leaving(c)'
    BY <1>e, <2>1 DEF Leaving
  <2>4. \A j \in Kinds \ {k} : Hot(j, c)' => Hot(j, c) /\ pc'[j] = pc[j]
    BY <1>e, <2>1 DEF Hot
  <2> QED
    BY <1>a, <1>b, <1>e, <2>2, <2>3, <2>4, StraightFrame
\* A device that is not the channel's.
<1>f. ASSUME NEW d \in Device, d # c, NEW f \in [Device -> Nat]
      PROVE  Bump(f, d)[c] = f[c] /\ Drop(f, d)[c] = f[c]
  BY <1>a, <1>f DEF Bump, Drop
<1>1. ASSUME NEW d \in Device, Scan(d) PROVE Straight(c)'
  <2>1. /\ paired'[c] \in Nat /\ paired'[c] >= paired[c]
        /\ c \notin misled /\ Announced(c)' <=> Announced(c)
    BY <1>1, <1>a DEF Scan, Bump, Announced, events, tell
  <2> QED
    BY <1>1, <1>d, <2>1 DEF Scan, queue, tell
<1>2. ASSUME NEW d \in Device, CodeExpires(d) \/ CreateElsewhere(d) PROVE Straight(c)'
  <2>1. c \notin misled /\ Announced(c)' <=> Announced(c)
    BY <1>2 DEF CodeExpires, CreateElsewhere, Announced, events, tell
  <2> QED
    BY <1>2, <1>a, <1>d, <2>1 DEF CodeExpires, CreateElsewhere, queue, tell
\* No handler is at work on the channel, and an event of it is on its way.
<1>3. ASSUME NEW d \in Device, Register(d) PROVE Straight(c)'
  <2>1. c \notin misled /\ c \notin {e \in {d} : \E k \in Kinds : Busy(k, e)}
    BY <1>3, <1>c DEF Register
  <2>2. CASE d = c
    <3>1. \A k \in Kinds : ~Busy(k, c)
      BY <2>1, <2>2
    <3>2. \A k \in Kinds : ~Busy(k, c)'
      BY <1>3, <3>1 DEF Register, Busy, Ch, poller, queue
    <3>3. Apart(c)'
      BY <3>2 DEF Apart, Hot, Busy
    <3>4. c \in reg' /\ Announced(c)'
      BY <1>3, <1>a, <2>2 DEF Register, Announced, Bump
    <3> QED
      BY <3>3, <3>4 DEF Straight
  <2>3. CASE d # c
    <3>1. paired'[c] = paired[c] /\ unsent'[c] = unsent[c] /\ inbox'[c] = inbox[c]
      BY <1>3, <1>a, <1>f, <2>3 DEF Register
    <3>2. Announced(c)' <=> Announced(c)
      BY <3>1 DEF Announced
    <3>3. /\ c \in reg' <=> c \in reg
          /\ UNCHANGED <<told, saved, poller, payload>>
      BY <1>3, <2>3 DEF Register, queue
    <3> QED
      BY <1>a, <1>d, <2>1, <3>1, <3>2, <3>3
  <2> QED
    BY <2>2, <2>3
<1>4. ASSUME NEW d \in Device, publishEvent(d) PROVE Straight(c)'
  <2>1. unsent'[c] + inbox'[c] = unsent[c] + inbox[c]
    BY <1>4, <1>a DEF publishEvent, Drop, Bump
  <2>2. c \notin misled /\ Announced(c)' <=> Announced(c)
    BY <1>4, <2>1 DEF publishEvent, Announced, tell
  <2> QED
    BY <1>4, <1>a, <1>d, <2>2 DEF publishEvent, queue, manager, sessions, tell
\* Only a client that outlived its registration may speak of a device that is
\* not there, and not about to be.
<1>5. ASSUME NEW d \in Device, Connected(d) PROVE Straight(c)'
  <2>1. c \notin misled /\ c \notin ghost \cap {d}
    BY <1>5, <1>c DEF Connected
  <2>2. UNCHANGED <<told, reg, saved, paired, unsent, poller, payload>>
    BY <1>5 DEF Connected, queue, manager, sessions
  <2>3. CASE d = c
    <3>1. c \in reg \/ paired[c] > 0
      BY <1>5, <2>1, <2>3 DEF Connected
    <3>2. Announced(c)'
      BY <1>5, <1>a, <2>2, <2>3 DEF Connected, Announced, Bump
    <3>3. Apart(c)
      BY <1>b, <2>1 DEF Straight
    <3>4. Apart(c)'
      BY <2>2, <3>3 DEF Apart, Hot, Ch, poller
    <3> QED
      BY <2>2, <3>1, <3>2, <3>4 DEF Straight
  <2>4. CASE d # c
    <3>1. inbox'[c] = inbox[c]
      BY <1>5, <1>a, <1>f, <2>4 DEF Connected
    <3>2. Announced(c)' <=> Announced(c)
      BY <2>2, <3>1 DEF Announced
    <3> QED
      BY <1>a, <1>d, <2>1, <2>2, <3>2
  <2> QED
    BY <2>3, <2>4
<1>6. ASSUME NEW d \in Device, LoggedOut(d) PROVE Straight(c)'
  <2>1. c \notin misled /\ c # d
    BY <1>6, <1>c DEF LoggedOut
  <2>2. /\ c \in reg' <=> c \in reg
        /\ c \in saved' <=> c \in saved
        /\ UNCHANGED <<told, paired, events, poller, payload>>
    BY <1>6, <2>1 DEF LoggedOut, queue, sessions
  <2>3. Announced(c)' <=> Announced(c)
    BY <2>2 DEF Announced, events
  <2> QED
    BY <1>a, <1>d, <2>1, <2>2, <2>3
\* The event is of a device that is there, or about to be, and says so.
<1>7. ASSUME NEW d \in Device, handleDeviceConnectedForQR(d) PROVE Straight(c)'
  <2>1. UNCHANGED <<reg, saved, paired, unsent, poller, payload>>
    BY <1>7 DEF handleDeviceConnectedForQR, queue, manager, sessions
  <2>2. CASE d = c
    <3>1. sendChannelUpdate(c, "CONNECTED") /\ Announced(c)
      BY <1>7, <1>a, <2>2 DEF handleDeviceConnectedForQR, Announced
    <3>2. /\ told'[c] = "CONNECTED"
          /\ c \notin misled \/ (Right(c, "CONNECTED") /\ Settled(c)')
      BY <1>a, <3>1, UpdateTells
    <3>3. CASE c \notin misled
      <4>1. Apart(c) /\ (c \in reg \/ paired[c] > 0)
        BY <1>b, <3>1, <3>3 DEF Straight
      <4>2. Apart(c)'
        BY <2>1, <4>1 DEF Apart, Hot, Ch, poller
      <4> QED
        BY <1>a, <2>1, <3>2, <4>1, <4>2 DEF Straight
    <3>4. CASE Right(c, "CONNECTED") /\ Settled(c)'
      <4>1. Right(c, told[c])'
        BY <2>1, <3>2, <3>4 DEF Right
      <4> QED
        BY <3>4, <4>1, SettledIsStraight
    <3> QED
      BY <3>2, <3>3, <3>4
  <2>3. CASE d # c
    <3>1. told'[c] = told[c] /\ c \notin misled
      <4>1. CASE d \in Channel
        BY <1>7, <1>a, <2>3, <4>1, UpdateTells DEF handleDeviceConnectedForQR
      <4>2. CASE d \notin Channel
        BY <1>7, <4>2 DEF handleDeviceConnectedForQR, tell
      <4> QED
        BY <4>1, <4>2
    <3>2. inbox'[c] = inbox[c]
      BY <1>7, <1>a, <1>f, <2>3 DEF handleDeviceConnectedForQR
    <3>3. Announced(c)' <=> Announced(c)
      BY <2>1, <3>2 DEF Announced
    <3> QED
      BY <1>a, <1>d, <2>1, <3>1, <3>3
  <2> QED
    BY <2>2, <2>3
<1>8. ASSUME NEW k \in Kinds, NEW r \in Request, Pull(k, r) PROVE Straight(c)'
  <2>1. /\ pc[k] = "idle" /\ UNCHANGED <<told, reg, saved, paired, events, payload>>
    BY <1>8 DEF Pull, manager, sessions
  <2>2. CASE UNCHANGED <<poller, misled>>
    BY <2>1, <2>2, <1>a, <1>d DEF Announced, events
  <2>3. CASE cur' = [cur EXCEPT ![k] = r] /\ Look(k, r)
    <3>1. /\ \A j \in Kinds \ {k} :
               pc'[j] = pc[j] /\ cur'[j] = cur[j] /\ answer'[j] = answer[j]
          /\ pc'[k] \notin {"code", "wait"}
      BY <1>a, <2>3 DEF Look, Return, Answer, Goto
    <3>2. /\ c \notin misled
          /\ pc'[k] = "update" => c # payload[r].channel
      BY <1>a, <1>c, <2>3 DEF Look, Return, Answer, Goto
    <3>3. ~Hot(k, c)'
      <4>1. Ch(k)' = payload[r].channel
        BY <1>a, <2>1, <2>3, Types DEF Ch
      <4> QED
        BY <3>1, <3>2, <4>1 DEF Hot
    <3> QED
      BY <1>e, <2>1, <3>1, <3>2, <3>3
  <2> QED
    BY <1>8, <2>2, <2>3 DEF Pull
\* The update says that the device is gone, and it is.
<1>9. ASSUME NEW k \in Kinds, Update(k) PROVE Straight(c)'
  <2>1. /\ pc[k] = "update" /\ pc' = [pc EXCEPT ![k] = "report"]
        /\ UNCHANGED <<reg, saved, paired, events, cur, answer, payload>>
        /\ sendChannelUpdate(Ch(k), answer[k])
    BY <1>9 DEF Update, Goto
  <2>2. /\ \A j \in Kinds : Hot(j, c)' => Hot(j, c) /\ pc'[j] = pc[j]
        /\ Announced(c)' <=> Announced(c)
    BY <1>a, <2>1 DEF Hot, Ch, Announced, events
  <2>3. CASE Ch(k) = c
    <3>1. /\ told'[c] = answer[k] /\ answer[k] # "CONNECTED"
          /\ c \notin misled \/ (Right(c, answer[k]) /\ Settled(c)')
      BY <1>a, <2>1, <2>3, UpdateTells DEF Answers
    <3>2. CASE c \notin misled
      <4>1. Straight(c) /\ Hot(k, c)
        BY <1>b, <2>1, <2>3, <3>2 DEF Hot
      <4>2. c \notin reg /\ c \notin saved /\ Apart(c)
        BY <2>1, <4>1 DEF Straight, Apart
      <4>3. Apart(c)'
        BY <2>1, <2>2, <4>2 DEF Apart
      <4> QED
        BY <2>1, <2>2, <3>1, <4>1, <4>2, <4>3 DEF Straight
    <3>3. CASE Right(c, answer[k]) /\ Settled(c)'
      <4>1. Right(c, told[c])'
        BY <2>1, <3>1, <3>3 DEF Right
      <4> QED
        BY <3>3, <4>1, SettledIsStraight
    <3> QED
      BY <3>1, <3>2, <3>3
  <2>4. CASE Ch(k) # c
    <3>1. told'[c] = told[c] /\ c \notin misled
      BY <1>a, <2>1, <2>4, UpdateTells
    <3>2. Leaving(c) => Leaving(c)'
      BY <1>a, <2>1, <2>4 DEF Leaving, Ch
    <3> QED
      BY <1>a, <1>b, <2>1, <2>2, <3>1, <3>2, StraightFrame
  <2> QED
    BY <2>3, <2>4
<1>10. ASSUME NEW k \in Kinds, Report(k) PROVE Straight(c)'
  <2>1. /\ pc[k] = "report" /\ pc'[k] = "idle" /\ c \notin misled
        /\ \A j \in Kinds \ {k} :
             pc'[j] = pc[j] /\ cur'[j] = cur[j] /\ answer'[j] = answer[j]
        /\ UNCHANGED <<told, reg, saved, paired, events, payload>>
    BY <1>10, <1>a DEF Report, Goto, manager, sessions, tell
  <2>2. ~Hot(k, c)'
    BY <2>1 DEF Hot
  <2> QED
    BY <1>e, <2>1, <2>2
<1>11. ASSUME NEW k \in Kinds, PullNothing(k) PROVE Straight(c)'
  BY <1>11, <1>a, <1>d DEF PullNothing, vars, queue, manager, sessions, tell, Announced, events
\* An error, or no code, is told of a device that is not there.
<1>12. ASSUME CreateDevice PROVE Straight(c)'
  <2>1. /\ pc["qr"] = "create" /\ c \notin misled
        /\ \A j \in Kinds \ {"qr"} :
             pc'[j] = pc[j] /\ cur'[j] = cur[j] /\ answer'[j] = answer[j]
        /\ UNCHANGED <<told, reg, saved, paired, events, payload, cur>>
    BY <1>12, <1>a, <1>c DEF CreateDevice, Goto, Answer, sessions, queue
  <2>2. Hot("qr", c)' => c \notin reg /\ (pc'["qr"] = "update" => c \notin saved)
    <3>1. Ch("qr")' = Ch("qr")
      BY <2>1 DEF Ch
    <3>2. CASE Ch("qr") \notin reg /\ Goto("qr", "code")
      BY <1>a, <3>1, <3>2 DEF Hot, Goto
    <3>3. CASE Excuse({Ch("qr")} \cap (reg \cup saved))
      BY <1>c, <3>1, <3>3 DEF Hot
    <3> QED
      BY <1>12, <3>2, <3>3 DEF CreateDevice
  <2> QED
    BY <1>e, <2>1, <2>2
<1>13. ASSUME CreateReturnsCode \/ Timeout PROVE Straight(c)'
  <2>1. /\ pc["qr"] \in {"code", "wait"} /\ c \notin misled
        /\ ~(c = Ch("qr") /\ c \in saved)
        /\ \A j \in Kinds \ {"qr"} :
             pc'[j] = pc[j] /\ cur'[j] = cur[j] /\ answer'[j] = answer[j]
        /\ UNCHANGED <<told, reg, saved, paired, events, payload, cur>>
    BY <1>13, <1>a, <1>c
    DEF CreateReturnsCode, Timeout, Goto, Answer, sessions, queue, manager
  <2>2. Hot("qr", c)' => c \notin reg /\ c \notin saved
    <3>1. Ch("qr")' = Ch("qr")
      BY <2>1 DEF Ch
    <3>2. Ch("qr") = c => c \notin reg
      BY <1>b, <2>1 DEF Straight, Apart, Hot
    <3> QED
      BY <2>1, <3>1, <3>2 DEF Hot
  <2> QED
    BY <1>e, <2>1, <2>2
<1>14. ASSUME CreateReturnsNone PROVE Straight(c)'
  <2>1. /\ pc["qr"] = "code" /\ pc'["qr"] = "wait" /\ c \notin misled
        /\ \A j \in Kinds \ {"qr"} :
             pc'[j] = pc[j] /\ cur'[j] = cur[j] /\ answer'[j] = answer[j]
        /\ UNCHANGED <<told, reg, saved, paired, events, payload, cur>>
    BY <1>14, <1>a DEF CreateReturnsNone, Goto, sessions, queue, tell
  <2>2. Hot("qr", c)' => Hot("qr", c) /\ pc'["qr"] # "update"
    BY <2>1 DEF Hot, Ch
  <2> QED
    BY <1>e, <2>1, <2>2
<1>15. ASSUME FindDevice PROVE Straight(c)'
  <2>1. /\ pc["disconnect"] = "find" /\ c \notin misled
        /\ \A j \in Kinds \ {"disconnect"} :
             pc'[j] = pc[j] /\ cur'[j] = cur[j] /\ answer'[j] = answer[j]
        /\ UNCHANGED <<told, reg, saved, paired, events, payload, cur>>
    BY <1>15, <1>a, <1>c DEF FindDevice, Goto, Answer, sessions, queue, manager
  <2>2. Hot("disconnect", c)' => c \notin reg /\ c \notin saved
    <3>1. Ch("disconnect")' = Ch("disconnect")
      BY <2>1 DEF Ch
    <3>2. CASE Dev("disconnect") \in reg
      BY <1>15, <1>a, <3>2 DEF FindDevice, Hot, Goto
    <3>3. CASE Dev("disconnect") \notin reg
      <4>1. c \notin {e \in {Ch("disconnect")} : e # Dev("disconnect") \/ e \in saved}
        BY <1>15, <1>c, <3>3 DEF FindDevice
      <4> QED
        BY <3>1, <3>3, <4>1 DEF Hot
    <3> QED
      BY <3>2, <3>3
  <2> QED
    BY <1>e, <2>1, <2>2
\* The channel that is told is the device's, and nothing else is on its way.
<1>16. ASSUME LogoutDevice PROVE Straight(c)'
  <2> DEFINE d == Dev("disconnect")
             e == Ch("disconnect")
  <2>1. /\ pc["disconnect"] = "logout" /\ pc'["disconnect"] = "update"
        /\ answer'["disconnect"] = "DISCONNECTED"
        /\ pc'["qr"] = pc["qr"] /\ answer'["qr"] = answer["qr"]
        /\ reg' = reg \ {d} /\ saved' = saved \ (reg \cap {d})
        /\ UNCHANGED <<told, paired, events, payload, cur>>
    BY <1>16, <1>a DEF LogoutDevice, Goto, Answer, sessions, queue
  <2>2. c \notin misled /\ c \notin {x \in {e, d} : e # d \/ Announced(x)}
    BY <1>16, <1>c DEF LogoutDevice
  <2>3. /\ Ch("disconnect")' = e /\ Ch("qr")' = Ch("qr")
        /\ Announced(c)' <=> Announced(c)
    BY <2>1 DEF Ch, Announced, events
  <2>4. CASE c \in {e, d}
    <3>1. c = e /\ c = d /\ ~Announced(c)
      BY <2>2, <2>4
    <3>2. c \notin reg' /\ c \notin saved'
      BY <2>1, <3>1 DEF AgreeInv, LogoutInv
    <3>3. Apart(c)' /\ Leaving(c)'
      BY <2>1, <2>3, <3>1, <3>2 DEF Apart, Hot, Leaving
    <3> QED
      BY <2>3, <3>1, <3>2, <3>3 DEF Straight
  <2>5. CASE c \notin {e, d}
    <3>1. \A k \in Kinds : Hot(k, c)' => Hot(k, c) /\ pc'[k] = pc[k]
      BY <2>1, <2>3, <2>5 DEF Hot
    <3>2. Leaving(c) => Leaving(c)'
      BY <2>1, <2>3, <2>5 DEF Leaving
    <3>3. (c \in reg' <=> c \in reg) /\ (c \in saved' <=> c \in saved)
      BY <2>1, <2>5
    <3> QED
      BY <1>a, <1>b, <2>1, <2>2, <2>3, <3>1, <3>2, <3>3, StraightFrame
  <2> QED
    BY <2>4, <2>5
\* Nothing was on its way to the channel.
<1>17. ASSUME Restart PROVE Straight(c)'
  <2>1. /\ c \notin misled
        /\ ~Announced(c) /\ ~(paired[c] > 0) /\ \A k \in Kinds : ~Busy(k, c)
    BY <1>17, <1>c DEF Restart
  <2>2. /\ reg' = {} /\ saved' = saved \cup reg /\ told' = told
        /\ \A k \in Kinds : pc'[k] = "idle"
        /\ unsent'[c] = 0 /\ inbox'[c] = 0
    BY <1>17, <1>a DEF Restart
  <2>3. ~Announced(c)' /\ Apart(c)'
    BY <2>2 DEF Announced, Apart, Hot
  <2>4. ~Leaving(c) /\ paired[c] = 0
    BY <1>a, <2>1, HotIsBusy
  <2> QED
    BY <1>b, <2>1, <2>2, <2>3, <2>4 DEF Straight
<1>18. ASSUME RestoreDevices PROVE Straight(c)'
  <2>1. PICK gone \in SUBSET saved :
          /\ reg' = reg \cup (saved \ gone)
          /\ Excuse((gone \ reg) \cup {e \in saved : \E k \in Kinds : Busy(k, e)})
    BY <1>18 DEF RestoreDevices
  <2>2. /\ c \notin misled /\ c \notin gone \ reg
        /\ c \notin {e \in saved : \E k \in Kinds : Busy(k, e)}
    BY <1>c, <2>1
  <2>3. /\ saved' = {} /\ UNCHANGED <<told, paired, events, poller, payload>>
    BY <1>18 DEF RestoreDevices, sessions, queue
  <2>4. Announced(c)' <=> Announced(c)
    BY <2>3 DEF Announced, events
  <2>5. CASE c \in saved
    <3>1. c \in reg' /\ \A k \in Kinds : ~Busy(k, c)
      BY <2>1, <2>2, <2>5
    <3>2. Apart(c)'
      BY <2>3, <3>1 DEF Apart, Hot, Busy, Ch, poller
    <3> QED
      BY <1>b, <2>2, <2>3, <2>4, <2>5, <3>1, <3>2 DEF Straight
  <2>6. CASE c \notin saved
    <3>1. (c \in reg' <=> c \in reg) /\ c \notin saved'
      BY <2>1, <2>3, <2>6
    <3> QED
      BY <1>a, <1>d, <2>2, <2>3, <2>4, <2>6, <3>1
  <2> QED
    BY <2>5, <2>6
<1>19. ASSUME UNCHANGED vars PROVE Straight(c)'
  BY <1>19, <1>a, <1>d DEF vars, queue, manager, sessions, tell, Announced, events
<1> QED
  BY <1>1, <1>2, <1>3, <1>4, <1>5, <1>6, <1>7, <1>8, <1>9, <1>10, <1>11, <1>12,
     <1>13, <1>14, <1>15, <1>16, <1>17, <1>18, <1>19
  DEF Next, PollerStep, QRStep, DisconnectStep

\* When nothing is on its way to a channel, and none of the causes named with
\* ToldIsRight has marked it, its last update is CONNECTED just when its device
\* is registered: for any interleaving of the handlers, events, logouts, crashes
\* and restores, and any payloads, also those whose channel and device differ.
THEOREM UpdatesAgree == Spec => []ToldIsRight
<1>1. Init => AgreeInv
  BY Types DEF Init, AgreeInv, ToldInv, LogoutInv, Straight, Apart, Hot, Announced, Kinds
<1>2. TypedInv /\ AgreeInv /\ [Next]_vars => AgreeInv'
  BY ToldIsKept, LogoutIsKept DEF AgreeInv
<1>3. AgreeInv => ToldIsRight
  <2> SUFFICES ASSUME AgreeInv, NEW c \in Channel, Settled(c), c \notin misled
               PROVE  Right(c, told[c])
    BY DEF ToldIsRight
  <2>1. Straight(c) /\ ~Leaving(c)
    BY HotIsBusy DEF AgreeInv, ToldInv, Settled
  <2> QED
    BY <2>1 DEF Straight, Settled, Right
<1> QED
  BY TypedInitially, Typed, <1>1, <1>2, <1>3, PTL DEF Spec

=============================================================================
