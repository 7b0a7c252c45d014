------------------------ MODULE DeviceManager_proofs ------------------------
(* Proofs about DeviceManager, for any sets of IDs, sessions and accounts. *)
EXTENDS DeviceManager, TLAPS, FiniteSetTheorems

\* The generated ID is one of the sequence: it has a member for each number
\* of registered devices.
LEMMA GeneratedIsAnId ==
  ASSUME TypeOK
  PROVE  Generated \in Id
<1> DEFINE S == {i \in Id : devices[i] # None}
<1>1. IsFiniteSet(S) /\ Cardinality(S) <= Cardinality(Id)
  BY FS_Subset, Types DEF Types
<1>2. Cardinality(S) \in Nat /\ Cardinality(Id) \in Nat
  BY <1>1, FS_CardinalityType, Types DEF Types
<1>3. Cardinality(S) + 1 \in 1 .. (Cardinality(Id) + 1)
  BY <1>1, <1>2
<1> QED
  BY <1>3, Types DEF Types, Generated

\* A fault that is counted stays a number.
LEMMA SpentIsTyped ==
  ASSUME spent \in [db : Nat, net : Nat, crash : Nat], DbFails \/ NetFails
  PROVE  spent' \in [db : Nat, net : Nat, crash : Nat]
  BY DEF DbFails, NetFails

\* Counting a crash keeps the counters' type.
LEMMA CrashIsTyped ==
  ASSUME spent \in [db : Nat, net : Nat, crash : Nat]
  PROVE  [spent EXCEPT !.crash = @ + 1] \in [db : Nat, net : Nat, crash : Nat]
  OBVIOUS

Channel == [buf : Seq({"code", "success"}), open : BOOLEAN, sent : Nat]

\* Receiving from a QR channel keeps its type.
LEMMA ReceiveIsTyped ==
  ASSUME qr \in [Client -> Channel], NEW c \in Client, Receive(c)
  PROVE  qr' \in [Client -> Channel]
<1>1. qr[c].buf \in Seq({"code", "success"})
  BY DEF Channel
<1>2. Tail(qr[c].buf) \in Seq({"code", "success"})
  BY <1>1 DEF Receive
<1>3. [qr[c] EXCEPT !.buf = Tail(qr[c].buf)] \in Channel
  BY <1>2 DEF Channel
<1> QED
  BY <1>3 DEF Receive

\* So does a code that is put into it.
LEMMA EmitIsTyped ==
  ASSUME qr \in [Client -> Channel], NEW c \in Client, EmitCode(c)
  PROVE  qr' \in [Client -> Channel]
<1>1. qr[c].buf \in Seq({"code", "success"}) /\ qr[c].sent \in Nat
  BY DEF Channel
<1>2. Append(qr[c].buf, "code") \in Seq({"code", "success"}) /\ qr[c].sent + 1 \in Nat
  BY <1>1
<1>3. [qr[c] EXCEPT !.buf = Append(qr[c].buf, "code"), !.sent = qr[c].sent + 1]
        \in Channel
  BY <1>2 DEF Channel
<1> QED
  BY <1>3 DEF EmitCode

\* And so do opening and closing it.
LEMMA SwitchIsTyped ==
  ASSUME qr \in [Client -> Channel], NEW c \in Client, NEW b \in BOOLEAN
  PROVE  [qr EXCEPT ![c].open = b] \in [Client -> Channel]
<1>1. [qr[c] EXCEPT !.open = b] \in Channel
  BY DEF Channel
<1> QED
  BY <1>1

\* Every variable keeps its type.
THEOREM DeviceTypeInvariant == Spec => []TypeOK
<1> USE Types DEF Types, Free, Op, Closed
<1>1. Init => TypeOK
  BY DEF Init, TypeOK
<1>2. TypeOK /\ [Next]_vars => TypeOK'
  <2> SUFFICES ASSUME TypeOK, [Next]_vars PROVE TypeOK'
    OBVIOUS
  <2> USE DEF TypeOK, db, pairing, handler, boot
  <2>1. ASSUME NEW c \in Client, EmitCode(c) PROVE TypeOK'
    <3>1. qr' \in [Client -> Channel]
      BY <2>1, EmitIsTyped DEF Channel
    <3> QED
      BY <2>1, <3>1 DEF EmitCode, Channel
  <2>2. ASSUME NEW c \in Client, NEW p \in Phone, PairSuccess(c, p) PROVE TypeOK'
    BY <2>2 DEF PairSuccess
  <2>3. ASSUME NEW c \in Client, QRTimeout(c) PROVE TypeOK'
    <3>1. qr' \in [Client -> Channel]
      BY <2>3, SwitchIsTyped DEF QRTimeout, Channel
    <3> QED
      BY <2>3, <3>1 DEF QRTimeout, Channel
  <2>4. ASSUME NEW i \in Id, NEW c \in Client, LoggedOut(i, c) PROVE TypeOK'
    BY <2>4 DEF LoggedOut
  <2>5. ASSUME NEW i \in Id, NEW c \in Client, HandlerUnregisters(i, c) PROVE TypeOK'
    BY <2>5 DEF HandlerUnregisters
  <2>6. ASSUME NEW i \in Id, NEW c \in Client, HandlerDeletes(i, c) PROVE TypeOK'
    <3>1. spent' \in [db : Nat, net : Nat, crash : Nat]
      BY <2>6, SpentIsTyped DEF HandlerDeletes
    <3> QED
      BY <2>6, <3>1 DEF HandlerDeletes
  <2>7. ASSUME NEW c \in Client, NEW req \in Id \cup {None}, CreateDevice(c, req)
        PROVE  TypeOK'
    <3> DEFINE i == IF req = None THEN Generated ELSE req
    <3>1. i \in Id
      BY GeneratedIsAnId
    <3>2. attached' \subseteq Id \X Client /\ shared' \subseteq Id
      BY <2>7, <3>1 DEF CreateDevice, Attach
    <3> HIDE DEF i
    <3>3. name' = [name EXCEPT ![c] = i]
      BY <2>7 DEF CreateDevice, i
    <3>4. qr' \in [Client -> Channel]
      BY <2>7, SwitchIsTyped DEF CreateDevice, Channel
    <3>5. /\ sess' \in [Client -> {"none", "qr", "live", "gone"}]
          /\ gpc' \in [Client -> {"off", "recv", "lock", "save"}]
          /\ name' \in [Client -> Id \cup {None}]
          /\ mu'.op = "create" /\ mu'.on = c
      BY <2>7, <3>1, <3>3 DEF CreateDevice
    <3> QED
      BY <2>7, <3>2, <3>4, <3>5 DEF CreateDevice, Channel
  <2>8. ASSUME CreateFails PROVE TypeOK'
    BY <2>8 DEF CreateFails, vars
  <2>9. ASSUME NEW c \in Client, CreateReturns(c) PROVE TypeOK'
    <3>1. qr' \in [Client -> Channel]
      BY <2>9, ReceiveIsTyped DEF CreateReturns, Channel
    <3> QED
      BY <2>9, <3>1 DEF CreateReturns, Channel
  <2>10. ASSUME NEW c \in Client, QRGoroutine(c) PROVE TypeOK'
    <3>1. qr' \in [Client -> Channel]
      BY <2>10, ReceiveIsTyped DEF QRGoroutine, Channel
    <3> QED
      BY <2>10, <3>1 DEF QRGoroutine, Channel
  <2>11. ASSUME NEW c \in Client, Register(c) PROVE TypeOK'
    BY <2>11 DEF Register
  <2>12. ASSUME NEW c \in Client, SaveMapping(c) PROVE TypeOK'
    <3>1. spent' \in [db : Nat, net : Nat, crash : Nat]
      BY <2>12, SpentIsTyped DEF SaveMapping
    <3>2. mapping' \in [Id -> Phone \cup {None}]
      BY <2>12 DEF SaveMapping
    <3>3. gpc' \in [Client -> {"off", "recv", "lock", "save"}]
      BY <2>12 DEF SaveMapping
    <3> QED
      BY <2>12, <3>1, <3>2, <3>3 DEF SaveMapping
  <2>13. ASSUME NEW i \in Id, LogoutDevice(i) PROVE TypeOK'
    BY <2>13 DEF LogoutDevice
  <2>14. ASSUME NEW i \in Id, LogoutCall(i) PROVE TypeOK'
    <3>1. spent' \in [db : Nat, net : Nat, crash : Nat]
      BY <2>14, SpentIsTyped DEF LogoutCall
    <3> QED
      BY <2>14, <3>1 DEF LogoutCall
  <2>15. ASSUME NEW i \in Id, LogoutReturns(i) PROVE TypeOK'
    <3>1. spent' \in [db : Nat, net : Nat, crash : Nat]
      BY <2>15, SpentIsTyped DEF LogoutReturns
    <3> QED
      BY <2>15, <3>1 DEF LogoutReturns
  <2>16. ASSUME Restart PROVE TypeOK'
    <3>1. saved' \in [Id -> Client \cup {None}]
      BY <2>16 DEF Restart
    <3>2. sess' \in [Client -> {"none", "qr", "live", "gone"}]
      BY <2>16 DEF Restart
    <3>3. Closed \in Channel
      BY DEF Channel
    <3>4. qr' \in [Client -> Channel]
      BY <2>16, <3>3 DEF Restart
    <3>5. spent' \in [db : Nat, net : Nat, crash : Nat]
      BY <2>16, CrashIsTyped DEF Restart
    <3> QED
      BY <2>16, <3>1, <3>2, <3>4, <3>5 DEF Restart, Channel
  <2>17. ASSUME RestoreDevices PROVE TypeOK'
    <3>1. spent' \in [db : Nat, net : Nat, crash : Nat]
      BY <2>17, SpentIsTyped DEF RestoreDevices
    <3>2. chosen' \in [Phone -> Client \cup {None}]
      BY <2>17 DEF RestoreDevices
    <3>3. todo' \subseteq Id \X Phone /\ shared' \subseteq Id
      BY <2>17 DEF RestoreDevices
    <3>4. /\ mu'.op \in {"free", "restore"} /\ mu'.on = None /\ booted' = TRUE
          /\ UNCHANGED <<devices, db, pairing, attached, hpc, saved>>
      BY <2>17 DEF RestoreDevices
    <3> QED
      BY <3>1, <3>2, <3>3, <3>4
  <2>18. ASSUME NEW i \in Id, NEW p \in Phone, RestoreOne(i, p) PROVE TypeOK'
    <3>1. spent' \in [db : Nat, net : Nat, crash : Nat]
      BY <2>18, SpentIsTyped DEF RestoreOne
    <3>2. /\ devices' \in [Id -> Client \cup {None}]
          /\ attached' \subseteq Id \X Client
          /\ shared' \subseteq Id
      <4>1. chosen[p] \in Client \cup {None}
        OBVIOUS
      <4>2. CASE Live(chosen[p])
        <5>1. chosen[p] \in Client
          BY <4>1, <4>2 DEF Live
        <5> QED
          BY <2>18, <5>1 DEF RestoreOne, Attach
      <4>3. CASE ~Live(chosen[p])
        BY <2>18, <4>3 DEF RestoreOne
      <4> QED
        BY <4>2, <4>3
    <3> QED
      BY <2>18, <3>1, <3>2 DEF RestoreOne
  <2>19. ASSUME RestoreReturns PROVE TypeOK'
    BY <2>19 DEF RestoreReturns
  <2>20. ASSUME UNCHANGED vars PROVE TypeOK'
    BY <2>20 DEF vars
  <2> QED
    BY <2>1, <2>2, <2>3, <2>4, <2>5, <2>6, <2>7, <2>8, <2>9, <2>10, <2>11,
       <2>12, <2>13, <2>14, <2>15, <2>16, <2>17, <2>18, <2>19, <2>20 DEF Next
<1> QED
  BY <1>1, <1>2, PTL DEF Spec

-----------------------------------------------------------------------------
(* A registered device was paired.  The registry is written by Register and   *)
(* by RestoreOne.  Register acts on a success that its goroutine received     *)
(* earlier, so the invariant follows the success from the channel to it.      *)

\* A success in the channel, and a goroutine about to register, mean that the
\* client has an account; so does a session in the store.
SuccessInv ==
    /\ \A c \in Client : \A k \in 1 .. Len(qr[c].buf) :
          qr[c].buf[k] = "success" => phone[c] # None
    /\ \A c \in Client : gpc[c] \in {"lock", "save"} \/ sess[c] = "live"
                           => phone[c] # None

\* A goroutine works for an ID whose events its client reports.
NameInv == \A c \in Client : gpc[c] # "off" => <<name[c], c>> \in attached

PairedInv == TypeOK /\ SuccessInv /\ NameInv /\ RegisteredWasPaired

\* Whoever receives from a channel leaves no success that was not there.
LEMMA ReceiveKeepsSuccess ==
  ASSUME qr \in [Client -> Channel], SuccessInv, NEW c \in Client, Receive(c),
         phone' = phone
  PROVE  \A d \in Client : \A k \in 1 .. Len(qr'[d].buf) :
            qr'[d].buf[k] = "success" => phone'[d] # None
<1> SUFFICES ASSUME NEW d \in Client, NEW k \in 1 .. Len(qr'[d].buf),
                    qr'[d].buf[k] = "success"
             PROVE  phone[d] # None
  OBVIOUS
<1>1. CASE d # c
  BY <1>1 DEF Receive, SuccessInv
<1>2. CASE d = c
  <2>1. qr[c].buf \in Seq({"code", "success"}) /\ qr[c].buf # <<>>
    BY DEF Channel, Receive
  <2>2. qr'[c].buf = Tail(qr[c].buf)
    BY DEF Receive, Channel
  <2>3. k + 1 \in 1 .. Len(qr[c].buf) /\ qr[c].buf[k + 1] = "success"
    BY <1>2, <2>1, <2>2
  <2> QED
    BY <1>2, <2>3 DEF SuccessInv
<1> QED
  BY <1>1, <1>2

\* A channel holds a success only for a client that has an account, also after
\* a further message, if that is so for the message.
LEMMA SendKeepsSuccess ==
  ASSUME qr \in [Client -> Channel], SuccessInv, NEW c \in Client,
         NEW m \in {"code", "success"},
         qr'[c].buf = Append(qr[c].buf, m),
         \A d \in Client \ {c} : qr'[d] = qr[d],
         \A d \in Client : phone[d] # None => phone'[d] # None,
         m = "success" => phone'[c] # None
  PROVE  \A d \in Client : \A k \in 1 .. Len(qr'[d].buf) :
            qr'[d].buf[k] = "success" => phone'[d] # None
<1> SUFFICES ASSUME NEW d \in Client, NEW k \in 1 .. Len(qr'[d].buf),
                    qr'[d].buf[k] = "success"
             PROVE  phone'[d] # None
  OBVIOUS
<1>1. CASE d # c
  BY <1>1 DEF SuccessInv
<1>2. CASE d = c
  <2>1. qr[c].buf \in Seq({"code", "success"})
    BY DEF Channel
  <2>2. qr'[d].buf = Append(qr[c].buf, m)
    BY <1>2
  <2>3. (k \in 1 .. Len(qr[c].buf) /\ qr[c].buf[k] = "success") \/ m = "success"
    BY <1>2, <2>1, <2>2
  <2> QED
    BY <1>2, <2>3 DEF SuccessInv
<1> QED
  BY <1>1, <1>2

\* Each step keeps types and the way of the success to the registry.
LEMMA PairedStep == PairedInv /\ TypeOK' /\ [Next]_vars => PairedInv'
<1> SUFFICES ASSUME PairedInv, TypeOK', [Next]_vars
             PROVE  SuccessInv' /\ NameInv' /\ RegisteredWasPaired'
  BY DEF PairedInv
<1> USE Types DEF Types
<1> DEFINE Kept == SuccessInv' /\ NameInv' /\ RegisteredWasPaired'
<1>a. qr \in [Client -> Channel]
  BY DEF PairedInv, TypeOK, Channel
<1>b. /\ devices \in [Id -> Client \cup {None}]
      /\ sess \in [Client -> {"none", "qr", "live", "gone"}]
      /\ phone \in [Client -> Phone \cup {None}]
      /\ name \in [Client -> Id \cup {None}]
      /\ gpc \in [Client -> {"off", "recv", "lock", "save"}]
      /\ attached \subseteq Id \X Client
      /\ chosen \in [Phone -> Client \cup {None}]
  BY DEF PairedInv, TypeOK
<1>c. SuccessInv /\ NameInv /\ RegisteredWasPaired
  BY DEF PairedInv
<1> USE DEF db, pairing, handler, boot
<1>1. ASSUME NEW c \in Client, EmitCode(c) PROVE Kept
  <2>1. qr'[c].buf = Append(qr[c].buf, "code") /\ \A d \in Client \ {c} : qr'[d] = qr[d]
    BY <1>1, <1>a DEF EmitCode, Channel
  <2>2. SuccessInv'
    BY <1>1, <1>a, <1>c, <2>1, SendKeepsSuccess DEF EmitCode, SuccessInv
  <2> QED
    BY <1>1, <1>c, <2>2 DEF EmitCode, NameInv, RegisteredWasPaired
<1>2. ASSUME NEW c \in Client, NEW p \in Phone, PairSuccess(c, p) PROVE Kept
  <2>1. qr'[c].buf = Append(qr[c].buf, "success") /\ \A d \in Client \ {c} : qr'[d] = qr[d]
    BY <1>2, <1>a DEF PairSuccess, Channel
  <2>2. phone'[c] # None /\ \A d \in Client : phone[d] # None => phone'[d] # None
    BY <1>2, <1>b DEF PairSuccess
  <2>3. \A d \in Client : \A k \in 1 .. Len(qr'[d].buf) :
           qr'[d].buf[k] = "success" => phone'[d] # None
    BY <1>a, <1>c, <2>1, <2>2, SendKeepsSuccess
  <2>4. SuccessInv'
    BY <1>2, <1>b, <1>c, <2>2, <2>3 DEF PairSuccess, SuccessInv
  <2> QED
    BY <1>2, <1>b, <1>c, <2>2, <2>4 DEF PairSuccess, NameInv, RegisteredWasPaired
<1>3. ASSUME NEW c \in Client, QRTimeout(c) PROVE Kept
  <2>1. \A d \in Client : qr'[d].buf = qr[d].buf
    BY <1>3, <1>a DEF QRTimeout, Channel
  <2> QED
    BY <1>3, <1>b, <1>c, <2>1
    DEF QRTimeout, SuccessInv, NameInv, RegisteredWasPaired
<1>4. ASSUME NEW i \in Id, NEW c \in Client, LoggedOut(i, c) PROVE Kept
  BY <1>4, <1>b, <1>c DEF LoggedOut, SuccessInv, NameInv, RegisteredWasPaired
<1>5. ASSUME NEW i \in Id, NEW c \in Client, HandlerUnregisters(i, c) PROVE Kept
  BY <1>5, <1>b, <1>c DEF HandlerUnregisters, SuccessInv, NameInv, RegisteredWasPaired
<1>6. ASSUME NEW i \in Id, NEW c \in Client, HandlerDeletes(i, c) PROVE Kept
  BY <1>6, <1>c DEF HandlerDeletes, SuccessInv, NameInv, RegisteredWasPaired
<1>7. ASSUME NEW c \in Client, NEW req \in Id \cup {None}, CreateDevice(c, req)
      PROVE  Kept
  <2> DEFINE i == IF req = None THEN Generated ELSE req
  <2>1. i \in Id
    BY GeneratedIsAnId DEF PairedInv
  <2>2. attached' = attached \cup {<<i, c>>} /\ name' = [name EXCEPT ![c] = i]
    BY <1>7 DEF CreateDevice, Attach
  <2>3. \A d \in Client : qr'[d].buf = qr[d].buf
    BY <1>7, <1>a DEF CreateDevice, Channel
  <2>4. SuccessInv'
    BY <1>7, <1>b, <1>c, <2>3 DEF CreateDevice, SuccessInv
  <2>5. NameInv'
    BY <1>7, <1>b, <1>c, <2>1, <2>2 DEF CreateDevice, NameInv
  <2>6. RegisteredWasPaired'
    BY <1>7, <1>c, <2>2 DEF CreateDevice, RegisteredWasPaired
  <2> QED
    BY <2>4, <2>5, <2>6
<1>8. ASSUME CreateFails PROVE Kept
  BY <1>8, <1>c DEF CreateFails, vars, SuccessInv, NameInv, RegisteredWasPaired
<1>9. ASSUME NEW c \in Client, CreateReturns(c) PROVE Kept
  <2>1. SuccessInv'
    BY <1>9, <1>a, <1>c, ReceiveKeepsSuccess DEF CreateReturns, SuccessInv
  <2> QED
    BY <1>9, <1>c, <2>1 DEF CreateReturns, NameInv, RegisteredWasPaired
<1>10. ASSUME NEW c \in Client, QRGoroutine(c) PROVE Kept
  <2>1. \A d \in Client : \A k \in 1 .. Len(qr'[d].buf) :
           qr'[d].buf[k] = "success" => phone'[d] # None
    BY <1>10, <1>a, <1>c, ReceiveKeepsSuccess DEF QRGoroutine, SuccessInv
  <2>2. Receive(c) /\ Head(qr[c].buf) = "success" => phone[c] # None
    <3>1. qr[c].buf \in Seq({"code", "success"})
      BY <1>a DEF Channel
    <3> QED
      BY <1>c, <3>1 DEF Receive, SuccessInv
  <2>3. SuccessInv' /\ NameInv'
    BY <1>10, <1>b, <1>c, <2>1, <2>2 DEF QRGoroutine, SuccessInv, NameInv
  <2> QED
    BY <1>10, <1>c, <2>3 DEF QRGoroutine, RegisteredWasPaired
<1>11. ASSUME NEW c \in Client, Register(c) PROVE Kept
  <2>1. phone[c] # None /\ <<name[c], c>> \in attached
    BY <1>11, <1>c DEF Register, SuccessInv, NameInv
  <2>2. SuccessInv' /\ NameInv'
    BY <1>11, <1>b, <1>c DEF Register, SuccessInv, NameInv
  <2> QED
    BY <1>11, <1>b, <1>c, <2>1, <2>2 DEF Register, RegisteredWasPaired
<1>12. ASSUME NEW c \in Client, SaveMapping(c) PROVE Kept
  BY <1>12, <1>b, <1>c DEF SaveMapping, SuccessInv, NameInv, RegisteredWasPaired
<1>13. ASSUME NEW i \in Id, LogoutDevice(i) PROVE Kept
  BY <1>13, <1>c DEF LogoutDevice, SuccessInv, NameInv, RegisteredWasPaired
<1>14. ASSUME NEW i \in Id, LogoutCall(i) PROVE Kept
  BY <1>14, <1>b, <1>c DEF LogoutCall, SuccessInv, NameInv, RegisteredWasPaired
<1>15. ASSUME NEW i \in Id, LogoutReturns(i) PROVE Kept
  BY <1>15, <1>b, <1>c DEF LogoutReturns, SuccessInv, NameInv, RegisteredWasPaired
<1>16. ASSUME Restart PROVE Kept
  <2>1. \A d \in Client : qr'[d].buf = <<>> /\ gpc'[d] = "off"
    BY <1>16 DEF Restart, Closed
  <2>2. SuccessInv'
    BY <1>16, <1>b, <1>c, <2>1 DEF Restart, SuccessInv
  <2> QED
    BY <1>16, <2>1, <2>2 DEF Restart, NameInv, RegisteredWasPaired
<1>17. ASSUME RestoreDevices PROVE Kept
  BY <1>17, <1>c DEF RestoreDevices, SuccessInv, NameInv, RegisteredWasPaired
<1>18. ASSUME NEW i \in Id, NEW p \in Phone, RestoreOne(i, p) PROVE Kept
  <2> DEFINE c == chosen[p]
  <2>1. SuccessInv'
    BY <1>18, <1>c DEF RestoreOne, SuccessInv
  <2>2. NameInv'
    BY <1>18, <1>c DEF RestoreOne, Attach, NameInv
  <2>3. RegisteredWasPaired'
    <3>1. CASE UNCHANGED <<devices, attached>>
      BY <1>18, <1>c, <3>1 DEF RestoreOne, RegisteredWasPaired
    <3>2. CASE Live(c) /\ Attach(i, c) /\ devices' = [devices EXCEPT ![i] = c]
      <4>1. phone[c] # None
        BY <1>b, <1>c, <3>2 DEF SuccessInv, Live
      <4>2. phone' = phone /\ attached' = attached \cup {<<i, c>>}
        BY <1>18, <3>2 DEF RestoreOne, Attach
      <4> HIDE DEF c
      <4> QED
        BY <1>b, <1>c, <3>2, <4>1, <4>2 DEF RegisteredWasPaired
    <3> QED
      BY <1>18, <3>1, <3>2 DEF RestoreOne
  <2> QED
    BY <2>1, <2>2, <2>3
<1>19. ASSUME RestoreReturns PROVE Kept
  BY <1>19, <1>c DEF RestoreReturns, SuccessInv, NameInv, RegisteredWasPaired
<1>20. ASSUME UNCHANGED vars PROVE Kept
  BY <1>20, <1>c DEF vars, SuccessInv, NameInv, RegisteredWasPaired
<1> HIDE DEF Kept
<1>21. Kept
  BY <1>1, <1>2, <1>3, <1>4, <1>5, <1>6, <1>7, <1>8, <1>9, <1>10, <1>11,
     <1>12, <1>13, <1>14, <1>15, <1>16, <1>17, <1>18, <1>19, <1>20 DEF Next
<1> QED
  BY <1>21 DEF Kept

\* Whatever is registered completed its pairing, and its events carry its ID.
THEOREM RegisteredDevicesWerePaired == Spec => []RegisteredWasPaired
<1>1. Init => PairedInv
  <2> USE Types DEF Types
  <2>1. Init => TypeOK
    BY DEF Init, TypeOK, Free, Closed
  <2>2. Init => SuccessInv /\ NameInv /\ RegisteredWasPaired
    BY DEF Init, Closed, SuccessInv, NameInv, RegisteredWasPaired
  <2> QED
    BY <2>1, <2>2 DEF PairedInv
<1>2. PairedInv => RegisteredWasPaired
  BY DEF PairedInv
<1> QED
  BY <1>1, <1>2, PairedStep, DeviceTypeInvariant, PTL DEF Spec

-----------------------------------------------------------------------------
(* The registry and the table.  What may disturb the entry or the row of an   *)
(* ID is a goroutine or a handler of a client that is active under this ID;   *)
(* two such clients make the ID shared.  So the argument is that an ID which  *)
(* is not shared has at most one active client, and that a registered client  *)
(* whose session is alive is active.                                          *)

\* The life of a session: what has an account is past its pairing.
SessInv ==
    /\ \A c \in Client : phone[c] # None => sess[c] \in {"live", "gone"}
    /\ \A c \in Client : qr[c].open => sess[c] = "qr"
    /\ \A p \in Phone : chosen[p] # None => phone[chosen[p]] = p
    /\ \A i \in Id, c \in Client : <<i, c>> \in attached => sess[c] # "none"
    /\ \A i \in Id, c \in Client :
          hpc[<<i, c>>] # "idle" => sess[c] = "gone" /\ <<i, c>> \in attached

\* Two clients active under one ID make it shared.
ShareInv ==
    \A i \in Id : \A c, d \in Client :
        c # d /\ Active(i, c) /\ Active(i, d) => i \in shared

\* What RestoreDevices read is still so for IDs that are not shared.
TodoInv ==
    /\ todo # {} => mu = Op("restore", None)
    /\ \A i \in Id, p \in Phone :
          <<i, p>> \in todo /\ i \notin shared
          => mapping[i] = p /\ \A c \in Client : ~Active(i, c)

SafeInv == PairedInv /\ SessInv /\ ShareInv /\ TodoInv /\ RegisteredIsSaved

\* Each step keeps what the life of a session tells of the goroutines.
LEMMA SessStep ==
  ASSUME PairedInv, SessInv, [Next]_vars
  PROVE  SessInv'
<1> USE Types DEF Types
<1>a. qr \in [Client -> Channel]
  BY DEF PairedInv, TypeOK, Channel
<1>b. /\ devices \in [Id -> Client \cup {None}]
      /\ sess \in [Client -> {"none", "qr", "live", "gone"}]
      /\ phone \in [Client -> Phone \cup {None}]
      /\ chosen \in [Phone -> Client \cup {None}]
      /\ attached \subseteq Id \X Client
      /\ hpc \in [Id \X Client -> {"idle", "lock", "delete"}]
  BY DEF PairedInv, TypeOK
<1> USE DEF db, pairing, handler, boot
<1>1. ASSUME NEW c \in Client, EmitCode(c) PROVE SessInv'
  <2>1. \A d \in Client : qr'[d].open = qr[d].open
    BY <1>1, <1>a DEF EmitCode, Channel
  <2> QED
    BY <1>1, <2>1 DEF EmitCode, SessInv
<1>2. ASSUME NEW c \in Client, NEW p \in Phone, PairSuccess(c, p) PROVE SessInv'
  <2>1. \A d \in Client : qr'[d].open => qr[d].open /\ d # c
    BY <1>2, <1>a DEF PairSuccess, Channel
  <2>2. sess[c] = "qr" /\ phone[c] = None
    BY <1>2, <1>b DEF PairSuccess, SessInv
  <2>3. \A q \in Phone : chosen[q] # None => chosen[q] # c
    BY <2>2, <1>b DEF SessInv
  <2>4. \A d \in Client \ {c} : sess'[d] = sess[d] /\ phone'[d] = phone[d]
    BY <1>2, <1>b DEF PairSuccess
  <2>5. sess'[c] = "live"
    BY <1>2, <1>b DEF PairSuccess
  <2> QED
    <3>1. \A d \in Client : phone'[d] # None => sess'[d] \in {"live", "gone"}
      BY <2>4, <2>5 DEF SessInv
    <3>2. \A d \in Client : qr'[d].open => sess'[d] = "qr"
      BY <2>1, <2>4 DEF SessInv
    <3>3. chosen' = chosen /\ attached' = attached /\ hpc' = hpc
      BY <1>2 DEF PairSuccess
    <3>4. \A q \in Phone : chosen'[q] # None => phone'[chosen'[q]] = q
      BY <1>b, <2>3, <2>4, <3>3 DEF SessInv
    <3>5. \A j \in Id, d \in Client : <<j, d>> \in attached' => sess'[d] # "none"
      BY <2>4, <2>5, <3>3 DEF SessInv
    <3>6. \A j \in Id, d \in Client :
             hpc'[<<j, d>>] # "idle" => sess'[d] = "gone" /\ <<j, d>> \in attached'
      BY <2>2, <2>4, <3>3 DEF SessInv
    <3> QED
      BY <3>1, <3>2, <3>4, <3>5, <3>6 DEF SessInv
<1>3. ASSUME NEW c \in Client, QRTimeout(c) PROVE SessInv'
  <2>1. \A d \in Client : qr'[d].open => qr[d].open /\ d # c
    BY <1>3, <1>a DEF QRTimeout, Channel
  <2>2. \A d \in Client \ {c} : sess'[d] = sess[d]
    BY <1>3, <1>b DEF QRTimeout
  <2>3. sess'[c] = "gone"
    BY <1>3, <1>b DEF QRTimeout
  <2> QED
    BY <1>3, <1>b, <2>1, <2>2, <2>3 DEF QRTimeout, SessInv
<1>4. ASSUME NEW i \in Id, NEW c \in Client, LoggedOut(i, c) PROVE SessInv'
  <2>1. sess[c] = "live" /\ <<i, c>> \in attached
    BY <1>4 DEF LoggedOut, Live
  <2>2. \A d \in Client \ {c} : sess'[d] = sess[d]
    BY <1>4, <1>b DEF LoggedOut
  <2>3. sess'[c] = "gone"
    BY <1>4, <1>b DEF LoggedOut
  <2>4. \A j \in Id, d \in Client : hpc'[<<j, d>>] # "idle" =>
           hpc[<<j, d>>] # "idle" \/ (j = i /\ d = c)
    BY <1>4, <1>b DEF LoggedOut
  <2> QED
    BY <1>4, <1>b, <2>1, <2>2, <2>3, <2>4 DEF LoggedOut, SessInv
<1>5. ASSUME NEW i \in Id, NEW c \in Client, HandlerUnregisters(i, c) PROVE SessInv'
  <2>1. \A j \in Id, d \in Client : hpc'[<<j, d>>] # "idle" => hpc[<<j, d>>] # "idle"
    BY <1>5, <1>b DEF HandlerUnregisters
  <2> QED
    BY <1>5, <2>1 DEF HandlerUnregisters, SessInv
<1>6. ASSUME NEW i \in Id, NEW c \in Client, HandlerDeletes(i, c) PROVE SessInv'
  <2>1. \A j \in Id, d \in Client : hpc'[<<j, d>>] # "idle" => hpc[<<j, d>>] # "idle"
    BY <1>6, <1>b DEF HandlerDeletes
  <2> QED
    BY <1>6, <2>1 DEF HandlerDeletes, SessInv
<1>7. ASSUME NEW c \in Client, NEW req \in Id \cup {None}, CreateDevice(c, req)
      PROVE  SessInv'
  <2>1. \A d \in Client \ {c} : qr'[d].open = qr[d].open /\ sess'[d] = sess[d]
    BY <1>7, <1>a, <1>b DEF CreateDevice, Channel
  <2>2. sess[c] = "none" /\ sess'[c] = "qr"
    BY <1>7, <1>b DEF CreateDevice
  <2>3. \A j \in Id, d \in Client : <<j, d>> \in attached' => <<j, d>> \in attached \/ d = c
    BY <1>7 DEF CreateDevice, Attach
  <2>4. attached \subseteq attached' /\ phone' = phone /\ chosen' = chosen /\ hpc' = hpc
    BY <1>7 DEF CreateDevice, Attach
  <2> QED
    BY <1>b, <2>1, <2>2, <2>3, <2>4 DEF SessInv
<1>8. ASSUME CreateFails PROVE SessInv'
  BY <1>8 DEF CreateFails, vars, SessInv
<1>9. ASSUME NEW c \in Client, CreateReturns(c) PROVE SessInv'
  <2>1. \A d \in Client : qr'[d].open = qr[d].open
    BY <1>9, <1>a DEF CreateReturns, Receive, Channel
  <2> QED
    BY <1>9, <2>1 DEF CreateReturns, SessInv
<1>10. ASSUME NEW c \in Client, QRGoroutine(c) PROVE SessInv'
  <2>1. \A d \in Client : qr'[d].open = qr[d].open
    BY <1>10, <1>a DEF QRGoroutine, Receive, Channel
  <2> QED
    BY <1>10, <2>1 DEF QRGoroutine, SessInv
<1>11. ASSUME NEW c \in Client, Register(c) PROVE SessInv'
  BY <1>11 DEF Register, SessInv
<1>12. ASSUME NEW c \in Client, SaveMapping(c) PROVE SessInv'
  BY <1>12 DEF SaveMapping, SessInv
<1>13. ASSUME NEW i \in Id, LogoutDevice(i) PROVE SessInv'
  BY <1>13 DEF LogoutDevice, SessInv
<1>14. ASSUME NEW i \in Id, LogoutCall(i) PROVE SessInv'
  <2>1. \A d \in Client : sess'[d] \in {sess[d], "gone"} /\ (sess'[d] # sess[d] => d = devices[i])
    BY <1>14, <1>b DEF LogoutCall
  <2>2. \A d \in Client : d = devices[i] => sess[d] \in {"live", "gone"}
    <3> SUFFICES ASSUME NEW d \in Client, d = devices[i] PROVE sess[d] \in {"live", "gone"}
      OBVIOUS
    <3>1. d # None
      OBVIOUS
    <3>2. phone[d] # None
      BY <3>1 DEF PairedInv, RegisteredWasPaired
    <3> QED
      BY <3>2 DEF SessInv
  <2> QED
    BY <1>14, <1>b, <2>1, <2>2 DEF LogoutCall, SessInv
<1>15. ASSUME NEW i \in Id, LogoutReturns(i) PROVE SessInv'
  BY <1>15 DEF LogoutReturns, SessInv
<1>16. ASSUME Restart PROVE SessInv'
  <2>1. \A d \in Client : ~qr'[d].open
    BY <1>16 DEF Restart, Closed
  <2>2. \A d \in Client : sess[d] \in {"live", "gone"} => sess'[d] \in {"live", "gone"}
    BY <1>16, <1>b DEF Restart
  <2> QED
    BY <1>16, <1>b, <2>1, <2>2 DEF Restart, SessInv
<1>17. ASSUME RestoreDevices PROVE SessInv'
  <2>1. \A p \in Phone : chosen'[p] # None => phone[chosen'[p]] = p
    <3>1. CASE UNCHANGED chosen
      BY <3>1 DEF SessInv
    <3>2. CASE chosen' \in
                 {f \in [Phone -> Client \cup {None}] : \A p \in Phone :
                     LET of == {c \in Client : Live(c) /\ phone[c] = p}
                     IN  IF of = {} THEN f[p] = None ELSE f[p] \in of}
      BY <3>2
    <3> QED
      BY <1>17, <3>1, <3>2 DEF RestoreDevices
  <2> QED
    BY <1>17, <2>1 DEF RestoreDevices, SessInv
<1>18. ASSUME NEW i \in Id, NEW p \in Phone, RestoreOne(i, p) PROVE SessInv'
  <2>1. \A j \in Id, d \in Client :
           /\ <<j, d>> \in attached' => <<j, d>> \in attached \/ sess[d] = "live"
           /\ <<j, d>> \in attached => <<j, d>> \in attached'
    BY <1>18 DEF RestoreOne, Attach, Live
  <2> QED
    BY <1>18, <2>1 DEF RestoreOne, SessInv
<1>19. ASSUME RestoreReturns PROVE SessInv'
  BY <1>19 DEF RestoreReturns, SessInv
<1>20. ASSUME UNCHANGED vars PROVE SessInv'
  BY <1>20 DEF vars, SessInv
<1> QED
  BY <1>1, <1>2, <1>3, <1>4, <1>5, <1>6, <1>7, <1>8, <1>9, <1>10, <1>11,
     <1>12, <1>13, <1>14, <1>15, <1>16, <1>17, <1>18, <1>19, <1>20 DEF Next

\* A client becomes active only by being attached, by CreateDevice or by
\* RestoreDevices.
LEMMA ActiveStep ==
  ASSUME PairedInv, SessInv, [Next]_vars
  PROVE  \/ /\ \A i \in Id, c \in Client : Active(i, c)' => Active(i, c)
            /\ shared \subseteq shared' \/ Restart
         \/ \E i \in Id, c \in Client :
               /\ Attach(i, c)
               /\ mu = Free \/ \E p \in Phone : RestoreOne(i, p)
               /\ \A j \in Id, d \in Client :
                     Active(j, d)' => Active(j, d) \/ (j = i /\ d = c)
<1> USE Types DEF Types
<1> DEFINE Fewer == /\ \A i \in Id, c \in Client : Active(i, c)' => Active(i, c)
                    /\ shared \subseteq shared' \/ Restart
           More(i, c) == /\ Attach(i, c)
                         /\ mu = Free \/ \E p \in Phone : RestoreOne(i, p)
                         /\ \A j \in Id, d \in Client :
                               Active(j, d)' => Active(j, d) \/ (j = i /\ d = c)
<1>b. /\ sess \in [Client -> {"none", "qr", "live", "gone"}]
      /\ gpc \in [Client -> {"off", "recv", "lock", "save"}]
      /\ attached \subseteq Id \X Client
      /\ hpc \in [Id \X Client -> {"idle", "lock", "delete"}]
      /\ name \in [Client -> Id \cup {None}]
      /\ chosen \in [Phone -> Client \cup {None}]
  BY DEF PairedInv, TypeOK
<1> USE DEF db, pairing, handler, boot
<1>1. ASSUME NEW c \in Client, EmitCode(c) PROVE Fewer
  BY <1>1 DEF EmitCode, Active
<1>2. ASSUME NEW c \in Client, NEW p \in Phone, PairSuccess(c, p) PROVE Fewer
  <2>1. sess[c] = "qr" /\ \A d \in Client : d = c \/ sess'[d] = sess[d]
    BY <1>2, <1>b DEF PairSuccess, SessInv
  <2> QED
    BY <1>2, <2>1 DEF PairSuccess, Active
<1>3. ASSUME NEW c \in Client, QRTimeout(c) PROVE Fewer
  BY <1>3, <1>b DEF QRTimeout, Active
<1>4. ASSUME NEW i \in Id, NEW c \in Client, LoggedOut(i, c) PROVE Fewer
  <2>1. sess[c] = "live" /\ \A d \in Client : d = c \/ sess'[d] = sess[d]
    BY <1>4, <1>b DEF LoggedOut, Live
  <2>2. \A j \in Id, d \in Client : d # c => hpc'[<<j, d>>] = hpc[<<j, d>>]
    BY <1>4, <1>b DEF LoggedOut
  <2> QED
    BY <1>4, <2>1, <2>2 DEF LoggedOut, Active
<1>5. ASSUME NEW i \in Id, NEW c \in Client, HandlerUnregisters(i, c) PROVE Fewer
  <2>1. \A j \in Id, d \in Client : hpc'[<<j, d>>] # "idle" => hpc[<<j, d>>] # "idle"
    BY <1>5, <1>b DEF HandlerUnregisters
  <2> QED
    BY <1>5, <2>1 DEF HandlerUnregisters, Active
<1>6. ASSUME NEW i \in Id, NEW c \in Client, HandlerDeletes(i, c) PROVE Fewer
  <2>1. \A j \in Id, d \in Client : hpc'[<<j, d>>] # "idle" => hpc[<<j, d>>] # "idle"
    BY <1>6, <1>b DEF HandlerDeletes
  <2> QED
    BY <1>6, <2>1 DEF HandlerDeletes, Active
<1>7. ASSUME NEW c \in Client, NEW req \in Id \cup {None}, CreateDevice(c, req)
      PROVE  \E i \in Id : More(i, c)
  <2> DEFINE i == IF req = None THEN Generated ELSE req
  <2>1. i \in Id
    BY GeneratedIsAnId DEF PairedInv
  <2>2. Attach(i, c) /\ mu = Free /\ sess[c] = "none" /\ hpc' = hpc
    BY <1>7 DEF CreateDevice
  <2> HIDE DEF i
  <2>3. \A j \in Id, d \in Client :
           <<j, d>> \in attached' => <<j, d>> \in attached \/ (j = i /\ d = c)
    BY <2>2 DEF Attach
  <2>4. \A d \in Client \ {c} : sess'[d] = sess[d] /\ gpc'[d] = gpc[d]
    BY <1>7, <1>b DEF CreateDevice
  <2>5. \A j \in Id : <<j, c>> \notin attached
    BY <2>2 DEF SessInv
  <2>6. \A j \in Id, d \in Client : Active(j, d)' => Active(j, d) \/ (j = i /\ d = c)
    BY <2>2, <2>3, <2>4, <2>5 DEF Active
  <2> QED
    BY <2>1, <2>2, <2>6
<1>8. ASSUME CreateFails PROVE Fewer
  BY <1>8 DEF CreateFails, vars, Active
<1>9. ASSUME NEW c \in Client, CreateReturns(c) PROVE Fewer
  BY <1>9 DEF CreateReturns, Active
<1>10. ASSUME NEW c \in Client, QRGoroutine(c) PROVE Fewer
  <2>1. \A d \in Client : gpc'[d] # "off" => gpc[d] # "off"
    BY <1>10, <1>b DEF QRGoroutine
  <2> QED
    BY <1>10, <2>1 DEF QRGoroutine, Active
<1>11. ASSUME NEW c \in Client, Register(c) PROVE Fewer
  <2>1. \A d \in Client : gpc'[d] # "off" => gpc[d] # "off"
    BY <1>11, <1>b DEF Register
  <2> QED
    BY <1>11, <2>1 DEF Register, Active
<1>12. ASSUME NEW c \in Client, SaveMapping(c) PROVE Fewer
  <2>1. \A d \in Client : gpc'[d] # "off" => gpc[d] # "off"
    BY <1>12, <1>b DEF SaveMapping
  <2> QED
    BY <1>12, <2>1 DEF SaveMapping, Active
<1>13. ASSUME NEW i \in Id, LogoutDevice(i) PROVE Fewer
  BY <1>13 DEF LogoutDevice, Active
<1>14. ASSUME NEW i \in Id, LogoutCall(i) PROVE Fewer
  <2>1. \A d \in Client : sess'[d] \in {sess[d], "gone"}
    BY <1>14, <1>b DEF LogoutCall
  <2> QED
    BY <1>14, <2>1 DEF LogoutCall, Active
<1>15. ASSUME NEW i \in Id, LogoutReturns(i) PROVE Fewer
  BY <1>15 DEF LogoutReturns, Active
<1>16. ASSUME Restart PROVE Fewer
  BY <1>16 DEF Restart, Active
<1>17. ASSUME RestoreDevices PROVE Fewer
  BY <1>17 DEF RestoreDevices, Active
<1>18. ASSUME NEW i \in Id, NEW p \in Phone, RestoreOne(i, p)
       PROVE  Fewer \/ \E c \in Client : More(i, c)
  <2>1. CASE UNCHANGED <<attached, shared>>
    BY <1>18, <2>1 DEF RestoreOne, Active
  <2>2. CASE Live(chosen[p]) /\ Attach(i, chosen[p])
    <3>1. chosen[p] \in Client
      BY <1>b, <2>2 DEF Live
    <3>2. \A j \in Id, d \in Client :
             <<j, d>> \in attached' => <<j, d>> \in attached \/ (j = i /\ d = chosen[p])
      BY <2>2 DEF Attach
    <3>3. \A j \in Id, d \in Client :
             Active(j, d)' => Active(j, d) \/ (j = i /\ d = chosen[p])
      BY <1>18, <3>2 DEF RestoreOne, Active
    <3> QED
      BY <1>18, <2>2, <3>1, <3>3
  <2> QED
    BY <1>18, <2>1, <2>2 DEF RestoreOne
<1>19. ASSUME RestoreReturns PROVE Fewer
  BY <1>19 DEF RestoreReturns, Active
<1>20. ASSUME UNCHANGED vars PROVE Fewer
  BY <1>20 DEF vars, Active
<1> HIDE DEF Fewer, More
<1>21. Fewer \/ \E i \in Id, c \in Client : More(i, c)
  BY <1>1, <1>2, <1>3, <1>4, <1>5, <1>6, <1>7, <1>8, <1>9, <1>10, <1>11,
     <1>12, <1>13, <1>14, <1>15, <1>16, <1>17, <1>18, <1>19, <1>20 DEF Next
<1> QED
  BY <1>21 DEF Fewer, More

\* Each step keeps an ID that is not shared to one active client.
LEMMA ShareStep ==
  ASSUME PairedInv, SessInv, ShareInv, [Next]_vars
  PROVE  ShareInv'
<1> SUFFICES ASSUME NEW i \in Id, NEW c \in Client, NEW d \in Client, c # d,
                    Active(i, c)', Active(i, d)'
             PROVE  i \in shared'
  BY DEF ShareInv
<1>1. attached' # {}
  BY DEF Active
<1>2. CASE /\ \A j \in Id, e \in Client : Active(j, e)' => Active(j, e)
           /\ shared \subseteq shared' \/ Restart
  BY <1>1, <1>2 DEF ShareInv, Restart
<1>3. ASSUME NEW j \in Id, NEW e \in Client, Attach(j, e),
             \A k \in Id, f \in Client : Active(k, f)' => Active(k, f) \/ (k = j /\ f = e)
      PROVE  i \in shared'
  <2>1. shared \subseteq shared' /\ \A f \in Client \ {e} : Active(j, f) => j \in shared'
    BY <1>3 DEF Attach
  <2>2. CASE Active(i, c) /\ Active(i, d)
    BY <2>1, <2>2 DEF ShareInv
  <2>3. CASE i = j /\ d = e
    BY <1>3, <2>1, <2>3
  <2>4. CASE i = j /\ c = e
    BY <1>3, <2>1, <2>4
  <2> QED
    BY <1>3, <2>2, <2>3, <2>4
<1> QED
  BY <1>2, <1>3, ActiveStep

\* A row changes only by a client that is active under its ID, or by
\* LogoutDevice, which has the lock.
LEMMA MappingStep ==
  ASSUME PairedInv, SessInv, [Next]_vars, NEW i \in Id, mapping'[i] # mapping[i]
  PROVE  \/ \E c \in Client : /\ Active(i, c)
                              /\ hpc[<<i, c>>] = "delete" \/ (SaveMapping(c) /\ name[c] = i)
         \/ LogoutReturns(i)
<1> USE Types DEF Types
<1>b. /\ mapping \in [Id -> Phone \cup {None}]
      /\ gpc \in [Client -> {"off", "recv", "lock", "save"}]
  BY DEF PairedInv, TypeOK
<1> USE DEF db, pairing, handler, boot
<1>1. ASSUME NEW j \in Id, NEW c \in Client, HandlerDeletes(j, c)
      PROVE  j = i /\ hpc[<<i, c>>] = "delete" /\ Active(i, c)
  <2>1. j = i /\ hpc[<<i, c>>] = "delete"
    BY <1>1, <1>b DEF HandlerDeletes
  <2>2. <<i, c>> \in attached
    BY <2>1 DEF SessInv
  <2> QED
    BY <2>1, <2>2 DEF Active
<1>2. ASSUME NEW c \in Client, SaveMapping(c)
      PROVE  name[c] = i /\ Active(i, c)
  <2>1. name[c] = i /\ gpc[c] = "save"
    BY <1>2, <1>b DEF SaveMapping
  <2>2. <<i, c>> \in attached
    BY <2>1 DEF PairedInv, NameInv
  <2> QED
    BY <2>1, <2>2 DEF Active
<1>3. ASSUME NEW j \in Id, LogoutReturns(j) PROVE j = i
  BY <1>3, <1>b DEF LogoutReturns
<1>4. CASE \E j \in Id, c \in Client : HandlerDeletes(j, c)
  BY <1>1, <1>4
<1>5. CASE \E c \in Client : SaveMapping(c)
  BY <1>2, <1>5
<1>6. CASE \E j \in Id : LogoutReturns(j)
  BY <1>3, <1>6
<1>7. ASSUME /\ ~\E j \in Id, c \in Client : HandlerDeletes(j, c)
             /\ ~\E c \in Client : SaveMapping(c)
             /\ ~\E j \in Id : LogoutReturns(j)
      PROVE  mapping' = mapping
  <2>1. CASE UNCHANGED vars
    BY <2>1 DEF vars
  <2>2. ASSUME NEW c \in Client,
               \/ EmitCode(c) \/ \E p \in Phone : PairSuccess(c, p)
               \/ QRTimeout(c) \/ \E req \in Id \cup {None} : CreateDevice(c, req)
               \/ CreateReturns(c) \/ QRGoroutine(c) \/ Register(c)
        PROVE  mapping' = mapping
    BY <2>2 DEF EmitCode, PairSuccess, QRTimeout, CreateDevice, CreateReturns,
                QRGoroutine, Register
  <2>3. ASSUME NEW j \in Id,
               \/ \E c \in Client : LoggedOut(j, c) \/ HandlerUnregisters(j, c)
               \/ LogoutDevice(j) \/ LogoutCall(j)
               \/ \E p \in Phone : RestoreOne(j, p)
        PROVE  mapping' = mapping
    BY <2>3 DEF LoggedOut, HandlerUnregisters, LogoutDevice, LogoutCall, RestoreOne
  <2>4. CASE CreateFails \/ Restart \/ RestoreDevices \/ RestoreReturns
    BY <2>4 DEF CreateFails, vars, Restart, RestoreDevices, RestoreReturns
  <2> QED
    BY <1>7, <2>1, <2>2, <2>3, <2>4 DEF Next
<1> QED
  BY <1>4, <1>5, <1>6, <1>7

\* Only RestoreDevices itself extends its work, and only it works while there
\* is some.
LEMMA TodoStep ==
  ASSUME SafeInv, [Next]_vars
  PROVE  TodoInv'
<1> USE Types DEF Types, Op, Free
<1>a. PairedInv /\ SessInv /\ TodoInv
  BY DEF SafeInv
<1>b. /\ todo \subseteq Id \X Phone
      /\ mapping \in [Id -> Phone \cup {None}]
  BY <1>a DEF PairedInv, TypeOK
<1> USE DEF db, pairing, handler, boot
<1>1. CASE RestoreDevices
  <2>1. CASE /\ mu' = Op("restore", None)
             /\ todo' = {<<i, mapping[i]>> : i \in {j \in Id : mapping[j] # None}}
             /\ shared' = shared \cup {i \in Id : /\ mapping[i] # None
                                                /\ \E d \in Client : Active(i, d)}
    <3> SUFFICES ASSUME NEW i \in Id, NEW p \in Phone, <<i, p>> \in todo', i \notin shared'
                 PROVE  mapping'[i] = p /\ \A c \in Client : ~Active(i, c)'
      BY <2>1 DEF TodoInv
    <3>1. mapping[i] = p /\ mapping[i] # None
      BY <2>1
    <3>2. \A c \in Client : ~Active(i, c)
      BY <2>1, <3>1
    <3> QED
      BY <1>1, <3>1, <3>2 DEF RestoreDevices, Active
  <2>2. CASE UNCHANGED <<mu, todo, shared>>
    BY <1>1, <1>a, <2>2 DEF RestoreDevices, Active, TodoInv
  <2> QED
    BY <1>1, <2>1, <2>2 DEF RestoreDevices
<1>2. CASE Restart
  BY <1>2 DEF Restart, TodoInv
<1>3. ASSUME ~RestoreDevices, ~Restart
      PROVE  todo' \subseteq todo /\ (todo' # {} => mu' = mu)
  <2>1. CASE UNCHANGED vars
    BY <2>1 DEF vars
  <2>2. ASSUME NEW c \in Client,
               \/ EmitCode(c) \/ \E p \in Phone : PairSuccess(c, p)
               \/ QRTimeout(c) \/ QRGoroutine(c) \/ Register(c) \/ SaveMapping(c)
        PROVE  UNCHANGED <<mu, todo>>
    BY <2>2 DEF EmitCode, PairSuccess, QRTimeout, QRGoroutine, Register, SaveMapping
  <2>3. ASSUME NEW c \in Client,
               CreateReturns(c) \/ \E req \in Id \cup {None} : CreateDevice(c, req)
        PROVE  todo' = todo /\ todo = {}
    BY <2>3, <1>a DEF CreateDevice, CreateReturns, TodoInv
  <2>4. ASSUME NEW i \in Id, NEW c \in Client,
               LoggedOut(i, c) \/ HandlerUnregisters(i, c) \/ HandlerDeletes(i, c)
        PROVE  UNCHANGED <<mu, todo>>
    BY <2>4 DEF LoggedOut, HandlerUnregisters, HandlerDeletes
  <2>5. ASSUME NEW i \in Id, LogoutDevice(i) \/ LogoutCall(i) \/ LogoutReturns(i)
        PROVE  todo' = todo /\ todo = {}
    BY <2>5, <1>a DEF LogoutDevice, LogoutCall, LogoutReturns, TodoInv
  <2>6. ASSUME NEW i \in Id, NEW p \in Phone, RestoreOne(i, p)
        PROVE  mu' = mu /\ todo' \subseteq todo
    BY <2>6 DEF RestoreOne
  <2>7. CASE CreateFails \/ RestoreReturns
    BY <2>7 DEF CreateFails, vars, RestoreReturns
  <2> QED
    BY <1>3, <2>1, <2>2, <2>3, <2>4, <2>5, <2>6, <2>7 DEF Next
<1>4. ASSUME ~RestoreDevices, ~Restart PROVE TodoInv'
  <2>1. todo' # {} => todo # {} /\ mu' = mu /\ mu = Op("restore", None)
    BY <1>3, <1>4, <1>a DEF TodoInv
  <2> SUFFICES ASSUME NEW i \in Id, NEW p \in Phone, <<i, p>> \in todo', i \notin shared'
               PROVE  mapping'[i] = p /\ \A c \in Client : ~Active(i, c)'
    BY <2>1 DEF TodoInv
  <2>2. mu = Op("restore", None) /\ <<i, p>> \in todo /\ mu # Free
    BY <2>1, <1>3, <1>4
  <2>3. ASSUME \A c \in Client : Active(i, c)' => Active(i, c), shared \subseteq shared'
        PROVE  mapping'[i] = p /\ \A c \in Client : ~Active(i, c)'
    <3>1. mapping[i] = p /\ \A c \in Client : ~Active(i, c)
      BY <1>a, <2>2, <2>3 DEF TodoInv
    <3>2. ~LogoutReturns(i)
      BY <2>2 DEF LogoutReturns
    <3>3. mapping'[i] = mapping[i]
      BY <1>a, <3>1, <3>2, MappingStep
    <3> QED
      BY <2>3, <3>1, <3>3
  <2>4. ASSUME NEW j \in Id, NEW e \in Client, Attach(j, e),
               mu = Free \/ \E q \in Phone : RestoreOne(j, q),
               \A k \in Id, d \in Client :
                  Active(k, d)' => Active(k, d) \/ (k = j /\ d = e)
        PROVE  mapping'[i] = p /\ \A c \in Client : ~Active(i, c)'
    <3>1. shared \subseteq shared'
      BY <2>4 DEF Attach
    <3>2. PICK q \in Phone : RestoreOne(j, q)
      BY <2>2, <2>4
    <3>3. i # j
      BY <1>a, <2>2, <3>1, <3>2 DEF RestoreOne, TodoInv
    <3> QED
      BY <2>3, <2>4, <3>1, <3>3
  <2> QED
    BY <1>a, <1>4, <2>3, <2>4, ActiveStep
<1> QED
  BY <1>1, <1>2, <1>4

\* Who writes the entry of an ID.
LEMMA DevicesStep ==
  ASSUME PairedInv, [Next]_vars, NEW i \in Id, devices'[i] # devices[i]
  PROVE  \/ \E c \in Client : HandlerUnregisters(i, c) \/ (Register(c) /\ name[c] = i)
         \/ LogoutReturns(i) \/ Restart
         \/ \E p \in Phone : RestoreOne(i, p)
<1>b. devices \in [Id -> Client \cup {None}]
  BY DEF PairedInv, TypeOK
<1> USE DEF db, pairing, handler, boot
<1>1. ASSUME UNCHANGED devices PROVE FALSE
  BY <1>1
<1>2. CASE UNCHANGED vars
  BY <1>1, <1>2 DEF vars
<1>3. ASSUME NEW c \in Client,
             \/ EmitCode(c) \/ \E p \in Phone : PairSuccess(c, p)
             \/ QRTimeout(c) \/ \E req \in Id \cup {None} : CreateDevice(c, req)
             \/ CreateReturns(c) \/ QRGoroutine(c) \/ SaveMapping(c)
      PROVE  FALSE
  BY <1>1, <1>3 DEF EmitCode, PairSuccess, QRTimeout, CreateDevice, CreateReturns,
                    QRGoroutine, SaveMapping
<1>4. ASSUME NEW j \in Id, NEW c \in Client, LoggedOut(j, c) \/ HandlerDeletes(j, c)
      PROVE  FALSE
  BY <1>1, <1>4 DEF LoggedOut, HandlerDeletes
<1>5. ASSUME NEW j \in Id, LogoutDevice(j) \/ LogoutCall(j) PROVE FALSE
  BY <1>1, <1>5 DEF LogoutDevice, LogoutCall
<1>6. CASE CreateFails \/ RestoreDevices \/ RestoreReturns
  BY <1>1, <1>6 DEF CreateFails, vars, RestoreDevices, RestoreReturns
<1>7. ASSUME NEW j \in Id, NEW c \in Client, HandlerUnregisters(j, c) PROVE j = i
  BY <1>7, <1>b DEF HandlerUnregisters
<1>8. ASSUME NEW c \in Client, Register(c) PROVE name[c] = i
  BY <1>8, <1>b DEF Register
<1>9. ASSUME NEW j \in Id, LogoutReturns(j) PROVE j = i
  BY <1>9, <1>b DEF LogoutReturns
<1>10. ASSUME NEW j \in Id, NEW p \in Phone, RestoreOne(j, p) PROVE j = i
  BY <1>10, <1>b DEF RestoreOne
<1> QED
  BY <1>2, <1>3, <1>4, <1>5, <1>6, <1>7, <1>8, <1>9, <1>10 DEF Next

\* A session that has its account keeps it, and when it is gone it is gone.
LEMMA AccountStep ==
  ASSUME PairedInv, SessInv, [Next]_vars, NEW c \in Client, phone[c] # None
  PROVE  phone'[c] = phone[c] /\ (sess'[c] = "live" => sess[c] = "live")
<1>b. /\ sess \in [Client -> {"none", "qr", "live", "gone"}]
      /\ phone \in [Client -> Phone \cup {None}]
  BY DEF PairedInv, TypeOK
<1> USE DEF db, pairing, handler, boot
<1>1. ASSUME NEW d \in Client, NEW p \in Phone, PairSuccess(d, p) PROVE d # c
  BY <1>1 DEF PairSuccess, SessInv
<1>2. ASSUME NEW d \in Client, NEW p \in Phone, PairSuccess(d, p)
      PROVE  phone'[c] = phone[c] /\ sess'[c] = sess[c]
  BY <1>1, <1>2, <1>b DEF PairSuccess
<1>3. CASE UNCHANGED vars
  BY <1>3 DEF vars
<1>4. ASSUME NEW d \in Client,
             \/ EmitCode(d) \/ QRTimeout(d)
             \/ \E req \in Id \cup {None} : CreateDevice(d, req)
             \/ CreateReturns(d) \/ QRGoroutine(d) \/ Register(d) \/ SaveMapping(d)
      PROVE  phone' = phone /\ (sess'[c] = "live" => sess[c] = "live")
  BY <1>4, <1>b DEF EmitCode, QRTimeout, CreateDevice, CreateReturns,
                    QRGoroutine, Register, SaveMapping
<1>5. ASSUME NEW j \in Id, NEW d \in Client,
             LoggedOut(j, d) \/ HandlerUnregisters(j, d) \/ HandlerDeletes(j, d)
      PROVE  phone' = phone /\ (sess'[c] = "live" => sess[c] = "live")
  BY <1>5, <1>b DEF LoggedOut, HandlerUnregisters, HandlerDeletes
<1>6. ASSUME NEW j \in Id,
             \/ LogoutDevice(j) \/ LogoutCall(j) \/ LogoutReturns(j)
             \/ \E p \in Phone : RestoreOne(j, p)
      PROVE  phone' = phone /\ (sess'[c] = "live" => sess[c] = "live")
  BY <1>6, <1>b DEF LogoutDevice, LogoutCall, LogoutReturns, RestoreOne
<1>7. CASE CreateFails \/ Restart \/ RestoreDevices \/ RestoreReturns
  BY <1>7, <1>b DEF CreateFails, vars, Restart, RestoreDevices, RestoreReturns
<1> QED
  BY <1>2, <1>3, <1>4, <1>5, <1>6, <1>7 DEF Next

\* The count of SQL errors never falls.
LEMMA ErrorsStep ==
  ASSUME PairedInv, [Next]_vars, spent'.db = 0
  PROVE  spent.db = 0
<1>b. spent \in [db : Nat, net : Nat, crash : Nat]
  BY DEF PairedInv, TypeOK
<1>1. \/ UNCHANGED spent \/ DbFails \/ NetFails \/ spent' = [spent EXCEPT !.crash = @ + 1]
  BY DEF Next, vars, EmitCode, PairSuccess, QRTimeout, LoggedOut, HandlerUnregisters,
     HandlerDeletes, CreateDevice, CreateFails, CreateReturns, QRGoroutine, Register,
     SaveMapping, LogoutDevice, LogoutCall, LogoutReturns, Restart, RestoreDevices,
     RestoreOne, RestoreReturns
<1> QED
  BY <1>b, <1>1 DEF DbFails, NetFails

\* A goroutine about to save does so, unless the process dies.
LEMMA SaveStep ==
  ASSUME PairedInv, SessInv, [Next]_vars, ~Restart, NEW c \in Client, gpc[c] = "save"
  PROVE  SaveMapping(c) \/ (gpc'[c] = "save" /\ name'[c] = name[c])
<1>b. /\ gpc \in [Client -> {"off", "recv", "lock", "save"}]
      /\ name \in [Client -> Id \cup {None}]
  BY DEF PairedInv, TypeOK
<1>a. name[c] \in Id /\ sess[c] # "none"
  <2>1. <<name[c], c>> \in attached
    BY DEF PairedInv, NameInv
  <2>2. attached \subseteq Id \X Client
    BY DEF PairedInv, TypeOK
  <2> QED
    BY <2>1, <2>2 DEF SessInv
<1> USE DEF db, pairing, handler, boot
<1>1. ASSUME UNCHANGED <<gpc, name>> PROVE gpc'[c] = "save" /\ name'[c] = name[c]
  BY <1>1
<1>2. CASE UNCHANGED vars
  BY <1>1, <1>2 DEF vars
<1>3. ASSUME NEW d \in Client,
             \/ EmitCode(d) \/ \E p \in Phone : PairSuccess(d, p)
             \/ QRTimeout(d) \/ CreateReturns(d)
      PROVE  UNCHANGED <<gpc, name>>
  BY <1>3 DEF EmitCode, PairSuccess, QRTimeout, CreateReturns
<1>4. ASSUME NEW d \in Client,
             \/ \E req \in Id \cup {None} : CreateDevice(d, req)
             \/ QRGoroutine(d) \/ Register(d) \/ SaveMapping(d)
      PROVE  SaveMapping(c) \/ (gpc'[c] = "save" /\ name'[c] = name[c])
  <2>1. CASE d = c
    BY <1>4, <1>a, <2>1 DEF CreateDevice, QRGoroutine, Register
  <2>2. CASE d # c
    BY <1>4, <1>b, <2>2 DEF CreateDevice, QRGoroutine, Register, SaveMapping
  <2> QED
    BY <2>1, <2>2
<1>5. ASSUME NEW j \in Id, NEW d \in Client,
             LoggedOut(j, d) \/ HandlerUnregisters(j, d) \/ HandlerDeletes(j, d)
      PROVE  UNCHANGED <<gpc, name>>
  BY <1>5 DEF LoggedOut, HandlerUnregisters, HandlerDeletes
<1>6. ASSUME NEW j \in Id,
             \/ LogoutDevice(j) \/ LogoutCall(j) \/ LogoutReturns(j)
             \/ \E p \in Phone : RestoreOne(j, p)
      PROVE  UNCHANGED <<gpc, name>>
  BY <1>6 DEF LogoutDevice, LogoutCall, LogoutReturns, RestoreOne
<1>7. CASE CreateFails \/ RestoreDevices \/ RestoreReturns
  BY <1>7 DEF CreateFails, vars, RestoreDevices, RestoreReturns
<1> QED
  BY <1>1, <1>2, <1>3, <1>4, <1>5, <1>6, <1>7 DEF Next

\* A registered client whose session is alive may still disturb its ID.
LEMMA RegisteredIsActive ==
  ASSUME PairedInv, NEW i \in Id, devices[i] # None, Live(devices[i])
  PROVE  devices[i] \in Client /\ Active(i, devices[i])
  BY DEF PairedInv, TypeOK, RegisteredWasPaired, Live, Active

\* Each step keeps the table in agreement with the registry: only the clients
\* active under an ID write its entry and its row.
LEMMA SavedStep ==
  ASSUME SafeInv, [Next]_vars
  PROVE  RegisteredIsSaved'
<1> USE Types DEF Types
<1>a. PairedInv /\ SessInv /\ ShareInv /\ TodoInv /\ RegisteredIsSaved
  BY DEF SafeInv
<1>b. /\ devices \in [Id -> Client \cup {None}]
      /\ mapping \in [Id -> Phone \cup {None}]
  BY <1>a DEF PairedInv, TypeOK
<1> SUFFICES ASSUME NEW i \in Id, NEW c, c = devices'[i],
                    c # None, i \notin shared', spent'.db = 0, Live(c)',
                    ~(gpc'[c] = "save" /\ name'[c] = i)
             PROVE  mapping'[i] = phone'[c]
  BY DEF RegisteredIsSaved
<1> USE DEF db, pairing, handler, boot
<1>1. ~Restart
  BY DEF Restart
<1>2. i \notin shared /\ spent.db = 0
  <2>1. shared \subseteq shared'
    BY <1>a, <1>1, ActiveStep DEF Attach
  <2> QED
    BY <2>1, <1>a, ErrorsStep
<1>3. CASE devices[i] = c
  <2>1. c \in Client /\ phone[c] # None
    BY <1>a, <1>b, <1>3 DEF PairedInv, RegisteredWasPaired
  <2>2. phone'[c] = phone[c] /\ Live(c)
    BY <1>a, <2>1, AccountStep DEF Live
  <2>3. Active(i, c)
    BY <1>a, <1>3, <2>2, RegisteredIsActive
  <2>4. CASE gpc[c] = "save" /\ name[c] = i
    <3>1. SaveMapping(c)
      BY <1>1, <1>a, <2>1, <2>4, SaveStep
    <3>2. ~DbFails
      BY <1>a, <1>2 DEF DbFails, PairedInv, TypeOK
    <3> QED
      BY <1>b, <2>2, <2>4, <3>1, <3>2 DEF SaveMapping
  <2>5. CASE ~(gpc[c] = "save" /\ name[c] = i)
    <3>1. mapping[i] = phone[c]
      BY <1>a, <1>2, <1>3, <2>2, <2>5 DEF RegisteredIsSaved
    <3>2. ~LogoutReturns(i)
      BY <1>b DEF LogoutReturns
    <3>3. ASSUME NEW d \in Client, Active(i, d) PROVE d = c
      BY <1>a, <1>2, <2>1, <2>3, <3>3 DEF ShareInv
    <3>4. hpc[<<i, c>>] # "delete"
      BY <1>a, <2>1, <2>2 DEF SessInv, Live
    <3>5. ~(SaveMapping(c) /\ name[c] = i)
      BY <2>5 DEF SaveMapping
    <3>6. mapping'[i] = mapping[i]
      BY <1>a, <3>2, <3>3, <3>4, <3>5, MappingStep
    <3> QED
      BY <2>2, <3>1, <3>6
  <2> QED
    BY <2>4, <2>5
<1>4. CASE devices[i] # c
  <2>1. ASSUME NEW d \in Client, HandlerUnregisters(i, d) PROVE FALSE
    BY <1>b, <2>1 DEF HandlerUnregisters
  <2>2. ASSUME NEW d \in Client, Register(d), name[d] = i PROVE FALSE
    <3>1. gpc \in [Client -> {"off", "recv", "lock", "save"}]
      BY <1>a DEF PairedInv, TypeOK
    <3> QED
      BY <1>b, <2>2, <3>1 DEF Register
  <2>3. ~LogoutReturns(i)
    BY <1>b DEF LogoutReturns
  <2>4. PICK p \in Phone : RestoreOne(i, p)
    BY <1>a, <1>1, <1>4, <2>1, <2>2, <2>3, DevicesStep
  <2>5. c = chosen[p] /\ <<i, p>> \in todo /\ UNCHANGED <<mapping, phone>>
    BY <1>b, <1>4, <2>4 DEF RestoreOne
  <2>6. mapping[i] = p
    BY <1>a, <1>2, <2>5 DEF TodoInv
  <2>7. phone[c] = p
    BY <1>a, <2>5 DEF SessInv
  <2> QED
    BY <2>5, <2>6, <2>7
<1> QED
  BY <1>3, <1>4

\* The invariants above hold of every behaviour.
LEMMA SafeInvariant == Spec => []SafeInv
<1>1. Init => SafeInv
  <2> SUFFICES ASSUME Init PROVE SafeInv
    OBVIOUS
  <2> USE Types DEF Types
  <2>1. TypeOK
    BY DEF Init, TypeOK, Free, Closed
  <2>2. SuccessInv /\ NameInv /\ RegisteredWasPaired
    BY DEF Init, Closed, SuccessInv, NameInv, RegisteredWasPaired
  <2>3. SessInv
    BY DEF Init, Closed, SessInv
  <2>4. ShareInv /\ TodoInv /\ RegisteredIsSaved
    BY DEF Init, Active, ShareInv, TodoInv, RegisteredIsSaved
  <2> QED
    BY <2>1, <2>2, <2>3, <2>4 DEF PairedInv, SafeInv
<1>2. SafeInv /\ TypeOK' /\ [Next]_vars => SafeInv'
  BY PairedStep, SessStep, ShareStep, TodoStep, SavedStep DEF SafeInv
<1> QED
  BY <1>1, <1>2, DeviceTypeInvariant, PTL DEF Spec

\* The registry and the table agree on every ID that is not shared.
THEOREM RegisteredDevicesAreSaved == Spec => []RegisteredIsSaved
<1>1. SafeInv => RegisteredIsSaved
  BY DEF SafeInv
<1> QED
  BY <1>1, SafeInvariant, PTL

\* A device that could send is never taken out of the registry by what happens
\* to another one.
THEOREM UnregisteredOnlyForCause == Spec => UnregisteredForCause
<1> DEFINE Cause == \A i \in Id : LET c == devices[i] IN
              c # None /\ Live(c) /\ devices'[i] # c
              => mu = Op("loggedOut", i) \/ spent'.crash > spent.crash \/ i \in shared'
<1>1. SafeInv /\ [Next]_vars => [Cause]_vars
  <2> SUFFICES ASSUME SafeInv, [Next]_vars, NEW i \in Id, devices[i] # None,
                      Live(devices[i]), devices'[i] # devices[i]
               PROVE  \/ mu = Op("loggedOut", i) \/ spent'.crash > spent.crash
                      \/ i \in shared'
    OBVIOUS
  <2>a. PairedInv /\ SessInv /\ ShareInv
    BY DEF SafeInv
  <2>b. devices[i] \in Client /\ Active(i, devices[i])
    BY <2>a, RegisteredIsActive
  <2> USE DEF db, pairing, handler, boot
  <2>1. ASSUME NEW d \in Client, HandlerUnregisters(i, d) PROVE i \in shared'
    <3>1. sess[d] = "gone" /\ <<i, d>> \in attached
      BY <2>1, <2>a DEF HandlerUnregisters, SessInv
    <3>2. d # devices[i] /\ Active(i, d)
      BY <2>1, <3>1 DEF HandlerUnregisters, Active, Live
    <3> QED
      BY <2>1, <2>a, <2>b, <3>2 DEF HandlerUnregisters, ShareInv
  <2>2. ASSUME NEW d \in Client, Register(d), name[d] = i PROVE i \in shared'
    <3>1. Active(i, d)
      BY <2>2, <2>a DEF Register, PairedInv, NameInv, Active
    <3>2. d # devices[i]
      BY <2>2, <2>a DEF Register, PairedInv, TypeOK
    <3> QED
      BY <2>2, <2>a, <2>b, <3>1, <3>2 DEF Register, ShareInv
  <2>3. ASSUME LogoutReturns(i) PROVE mu = Op("loggedOut", i)
    BY <2>3 DEF LogoutReturns
  <2>4. ASSUME Restart PROVE spent'.crash > spent.crash
    BY <2>4, <2>a DEF Restart, PairedInv, TypeOK
  <2>5. ASSUME NEW p \in Phone, RestoreOne(i, p) PROVE i \in shared'
    <3>1. Attach(i, chosen[p]) /\ devices' = [devices EXCEPT ![i] = chosen[p]]
      BY <2>5 DEF RestoreOne
    <3>2. chosen[p] # devices[i]
      BY <3>1, <2>a DEF PairedInv, TypeOK
    <3> QED
      BY <2>b, <3>1, <3>2 DEF Attach
  <2> QED
    BY <2>a, <2>1, <2>2, <2>3, <2>4, <2>5, DevicesStep
<1> QED
  BY <1>1, SafeInvariant, PTL DEF Spec, UnregisteredForCause
-----------------------------------------------------------------------------
(* What was saved comes back.  While RestoreDevices runs, a session that is   *)
(* the only one of its account is registered or still to be restored: nobody  *)
(* else has the lock, and its row is written by no goroutine that is left.    *)

\* A session saved at a crash has its account, and no QR goroutine any more.
SavedInv ==
    \A i \in Id : saved[i] # None =>
        saved[i] \in Client /\ phone[saved[i]] # None /\ gpc[saved[i]] = "off"

\* The session of the ID can be restored, and no other one in its place.
Sole(i) ==
    /\ Live(saved[i]) /\ mapping[i] = phone[saved[i]] /\ i \notin shared
    /\ \A d \in Client \ {saved[i]} : phone[d] # phone[saved[i]]

Back(i) ==
    \/ devices[i] = saved[i]
    \/ <<i, phone[saved[i]]>> \in todo /\ chosen[phone[saved[i]]] = saved[i]

BackInv == mu.op = "restore" /\ spent.net = 0 => \A i \in Id : Sole(i) => Back(i)

\* Only a crash saves, and only RestoreDevices takes the lock for the restore.
LEMMA RestoringStep ==
  ASSUME [Next]_vars
  PROVE  /\ saved' = saved \/ Restart
         /\ mu'.op = "restore" => mu' = mu \/ RestoreDevices
         /\ mu.op = "restore" =>
               /\ (~RestoreDevices /\ ~Restart) \/ mu' = Free
               /\ mu'.op = "restore" =>
                     \/ UNCHANGED <<todo, chosen>>
                     \/ \E j \in Id, q \in Phone : RestoreOne(j, q)
<1> USE DEF db, pairing, handler, boot, Free, Op
<1>1. CASE UNCHANGED vars
  BY <1>1 DEF vars, RestoreDevices, Restart
<1>2. ASSUME NEW c \in Client,
             \/ EmitCode(c) \/ \E p \in Phone : PairSuccess(c, p)
             \/ QRTimeout(c) \/ QRGoroutine(c) \/ Register(c) \/ SaveMapping(c)
      PROVE  UNCHANGED <<mu, todo, chosen, saved>>
  BY <1>2 DEF EmitCode, PairSuccess, QRTimeout, QRGoroutine, Register, SaveMapping
<1>3. ASSUME NEW j \in Id, NEW c \in Client,
             LoggedOut(j, c) \/ HandlerUnregisters(j, c) \/ HandlerDeletes(j, c)
      PROVE  UNCHANGED <<mu, todo, chosen, saved>>
  BY <1>3 DEF LoggedOut, HandlerUnregisters, HandlerDeletes
<1>4. ASSUME NEW c \in Client,
             CreateReturns(c) \/ \E req \in Id \cup {None} : CreateDevice(c, req)
      PROVE  UNCHANGED <<todo, chosen, saved>> /\ mu.op # "restore" /\ mu'.op # "restore"
  BY <1>4 DEF CreateReturns, CreateDevice
<1>5. ASSUME NEW j \in Id, LogoutDevice(j) \/ LogoutCall(j) \/ LogoutReturns(j)
      PROVE  UNCHANGED <<todo, chosen, saved>> /\ mu.op # "restore" /\ mu'.op # "restore"
  BY <1>5 DEF LogoutDevice, LogoutCall, LogoutReturns
<1>6. CASE CreateFails
  BY <1>6 DEF CreateFails, vars
<1>7. CASE Restart
  BY <1>7 DEF Restart
<1>8. CASE RestoreDevices
  BY <1>8 DEF RestoreDevices
<1>9. ASSUME NEW j \in Id, NEW q \in Phone, RestoreOne(j, q)
      PROVE  mu' = mu /\ saved' = saved
  BY <1>9 DEF RestoreOne
<1>10. CASE RestoreReturns
  BY <1>10 DEF RestoreReturns
<1>11. mu.op = "restore" => ~RestoreDevices /\ (~Restart \/ mu' = Free)
  BY DEF RestoreDevices, Restart
<1> QED
  BY <1>1, <1>2, <1>3, <1>4, <1>5, <1>6, <1>7, <1>8, <1>9, <1>10, <1>11 DEF Next

\* The goroutine of a session that has ended does not start again.
LEMMA SavedIsOff ==
  ASSUME PairedInv, SessInv, SavedInv, [Next]_vars
  PROVE  SavedInv'
<1>b. /\ devices \in [Id -> Client \cup {None}]
      /\ gpc \in [Client -> {"off", "recv", "lock", "save"}]
      /\ saved \in [Id -> Client \cup {None}]
  BY DEF PairedInv, TypeOK
<1>1. CASE Restart
  <2>1. \A i \in Id : saved'[i] = devices[i] \/ saved'[i] = None
    BY <1>1 DEF Restart
  <2>2. phone' = phone /\ \A c \in Client : gpc'[c] = "off"
    BY <1>1 DEF Restart
  <2>3. \A i \in Id : devices[i] # None => devices[i] \in Client /\ phone[devices[i]] # None
    BY <1>b DEF PairedInv, RegisteredWasPaired
  <2> QED
    BY <2>1, <2>2, <2>3 DEF SavedInv
<1>2. CASE ~Restart
  <2>1. saved' = saved
    BY <1>2, RestoringStep
  <2> SUFFICES ASSUME NEW i \in Id, NEW c \in Client, saved[i] = c, phone[c] # None,
                      gpc[c] = "off"
               PROVE  phone'[c] # None /\ gpc'[c] = "off"
    BY <1>b, <2>1 DEF SavedInv
  <2>2. phone'[c] # None
    BY AccountStep
  <2> USE DEF db, pairing, handler, boot
  <2>3. ASSUME NEW d \in Client, NEW req \in Id \cup {None}, CreateDevice(d, req)
        PROVE  gpc'[c] = "off"
    <3>1. d # c
      BY <2>3 DEF CreateDevice, SessInv
    <3> QED
      BY <1>b, <2>3, <3>1 DEF CreateDevice
  <2>4. ASSUME NEW d \in Client, QRGoroutine(d) \/ Register(d) \/ SaveMapping(d)
        PROVE  gpc'[c] = "off"
    BY <1>b, <2>4 DEF QRGoroutine, Register, SaveMapping
  <2>5. ASSUME NEW d \in Client,
               \/ EmitCode(d) \/ \E p \in Phone : PairSuccess(d, p)
               \/ QRTimeout(d) \/ CreateReturns(d)
        PROVE  UNCHANGED gpc
    BY <2>5 DEF EmitCode, PairSuccess, QRTimeout, CreateReturns
  <2>6. ASSUME NEW j \in Id, NEW d \in Client,
               LoggedOut(j, d) \/ HandlerUnregisters(j, d) \/ HandlerDeletes(j, d)
        PROVE  UNCHANGED gpc
    BY <2>6 DEF LoggedOut, HandlerUnregisters, HandlerDeletes
  <2>7. ASSUME NEW j \in Id,
               \/ LogoutDevice(j) \/ LogoutCall(j) \/ LogoutReturns(j)
               \/ \E p \in Phone : RestoreOne(j, p)
        PROVE  UNCHANGED gpc
    BY <2>7 DEF LogoutDevice, LogoutCall, LogoutReturns, RestoreOne
  <2>8. CASE CreateFails \/ RestoreDevices \/ RestoreReturns \/ UNCHANGED vars
    BY <2>8 DEF CreateFails, vars, RestoreDevices, RestoreReturns
  <2>9. gpc'[c] = "off"
    BY <1>2, <2>3, <2>4, <2>5, <2>6, <2>7, <2>8 DEF Next
  <2> QED
    BY <2>2, <2>9
<1> QED
  BY <1>1, <1>2

\* While the restore goes on, no step makes a row right that was not.
LEMMA SoleStep ==
  ASSUME PairedInv, SessInv, SavedInv, [Next]_vars, ~Restart, mu.op = "restore",
         NEW i \in Id, Sole(i)'
  PROVE  Sole(i)
<1>b. /\ mapping \in [Id -> Phone \cup {None}]
      /\ gpc \in [Client -> {"off", "recv", "lock", "save"}]
  BY DEF PairedInv, TypeOK
<1>1. PICK c : c = saved[i] /\ saved' = saved
  BY RestoringStep
<1>2. /\ sess'[c] = "live" /\ mapping'[i] = phone'[c] /\ i \notin shared'
      /\ \A d \in Client \ {c} : phone'[d] # phone'[c]
      /\ c # None
  BY <1>1 DEF Sole, Live
<1>3. c \in Client /\ phone[c] # None /\ gpc[c] = "off"
  BY <1>1, <1>2 DEF SavedInv
<1>4. phone'[c] = phone[c] /\ sess[c] = "live"
  BY <1>2, <1>3, AccountStep
<1>5. \A d \in Client \ {c} : phone[d] # phone[c]
  <2> SUFFICES ASSUME NEW d \in Client, d # c, phone[d] = phone[c] PROVE FALSE
    OBVIOUS
  <2>1. phone'[d] = phone[d]
    BY <1>3, AccountStep
  <2> QED
    BY <1>2, <1>4, <2>1
<1>6. i \notin shared
  <2>1. ASSUME NEW j \in Id, NEW d \in Client, Attach(j, d) PROVE shared \subseteq shared'
    BY <2>1 DEF Attach
  <2> QED
    BY <1>2, <2>1, ActiveStep
<1>7. mapping[i] = phone[c]
  <2> USE DEF db, pairing, handler, boot
  <2>1. CASE mapping'[i] = mapping[i]
    BY <1>2, <1>4, <2>1
  <2>2. ASSUME NEW j \in Id, NEW d \in Client, HandlerDeletes(j, d)
        PROVE  mapping'[i] = mapping[i] \/ mapping'[i] = None
    BY <1>b, <2>2 DEF HandlerDeletes
  <2>3. ASSUME NEW d \in Client, SaveMapping(d)
        PROVE  mapping'[i] = mapping[i]
    <3>1. mapping'[i] = mapping[i] \/ mapping'[i] = phone[d]
      BY <1>b, <2>3 DEF SaveMapping
    <3>2. d # c
      BY <1>3, <2>3 DEF SaveMapping
    <3> QED
      BY <1>2, <1>4, <1>5, <3>1, <3>2
  <2>4. ASSUME NEW d \in Client,
               \/ EmitCode(d) \/ \E p \in Phone : PairSuccess(d, p)
               \/ QRTimeout(d) \/ \E req \in Id \cup {None} : CreateDevice(d, req)
               \/ CreateReturns(d) \/ QRGoroutine(d) \/ Register(d)
        PROVE  UNCHANGED mapping
    BY <2>4 DEF EmitCode, PairSuccess, QRTimeout, CreateDevice, CreateReturns,
                QRGoroutine, Register
  <2>5. ASSUME NEW j \in Id, NEW d \in Client, LoggedOut(j, d) \/ HandlerUnregisters(j, d)
        PROVE  UNCHANGED mapping
    BY <2>5 DEF LoggedOut, HandlerUnregisters
  <2>6. ASSUME NEW j \in Id, LogoutDevice(j) \/ LogoutCall(j) \/ \E p \in Phone : RestoreOne(j, p)
        PROVE  UNCHANGED mapping
    BY <2>6 DEF LogoutDevice, LogoutCall, RestoreOne
  <2>7. ASSUME NEW j \in Id, LogoutReturns(j) PROVE FALSE
    BY <2>7 DEF LogoutReturns, Op
  <2>8. CASE CreateFails \/ RestoreDevices \/ RestoreReturns \/ UNCHANGED vars
    BY <2>1, <2>8 DEF CreateFails, vars, RestoreDevices, RestoreReturns
  <2> QED
    BY <1>2, <1>3, <1>4, <2>1, <2>2, <2>3, <2>4, <2>5, <2>6, <2>7, <2>8 DEF Next
<1> QED
  BY <1>1, <1>2, <1>4, <1>5, <1>6, <1>7 DEF Sole, Live

\* A step of the restore that takes the ID registers its session.
LEMMA RestoreOneBack ==
  ASSUME PairedInv, SessInv, TodoInv, NEW i \in Id, NEW q \in Phone, RestoreOne(i, q),
         Sole(i), Back(i), spent'.net = 0
  PROVE  Back(i)'
<1>b. /\ devices \in [Id -> Client \cup {None}]
      /\ chosen \in [Phone -> Client \cup {None}]
      /\ spent \in [db : Nat, net : Nat, crash : Nat]
  BY DEF PairedInv, TypeOK
<1>1. PICK c, e : c = saved[i] /\ e = chosen[q]
  OBVIOUS
<1>2. /\ <<i, q>> \in todo /\ todo' = todo \ {<<i, q>>}
      /\ phone' = phone /\ chosen' = chosen /\ saved' = saved
  BY <1>1 DEF RestoreOne, boot, db
<1>3. /\ Live(c) /\ i \notin shared /\ mapping[i] = phone[c]
      /\ \A d \in Client \ {c} : phone[d] # phone[c]
  BY <1>1 DEF Sole
<1>4. phone[c] = q
  BY <1>2, <1>3 DEF TodoInv
<1>5. e # None => e = c
  BY <1>1, <1>b, <1>3, <1>4 DEF SessInv
<1>6. ~NetFails
  BY <1>b DEF NetFails
<1>7. CASE Live(e)
  <2>1. e = c
    BY <1>5, <1>7 DEF Live
  <2>2. devices' = [devices EXCEPT ![i] = e]
    BY <1>1, <1>6, <1>7 DEF RestoreOne
  <2>3. devices'[i] = c
    BY <1>b, <2>1, <2>2
  <2> QED
    BY <1>1, <1>2, <2>3 DEF Back
<1>8. CASE ~Live(e)
  <2>1. e # c
    BY <1>3, <1>8
  <2>2. devices[i] = c
    BY <1>1, <1>4, <2>1 DEF Back
  <2>3. devices' = devices
    BY <1>1, <1>8 DEF RestoreOne
  <2> QED
    BY <1>1, <1>2, <2>2, <2>3 DEF Back
<1> QED
  BY <1>7, <1>8

\* Each step of the restore keeps what is back or to come back.
LEMMA BackStep ==
  ASSUME PairedInv, SessInv, TodoInv, SavedInv, BackInv, [Next]_vars
  PROVE  BackInv'
<1> SUFFICES ASSUME mu'.op = "restore", spent'.net = 0, NEW i \in Id, Sole(i)'
             PROVE  Back(i)'
  BY DEF BackInv
<1>b. /\ devices \in [Id -> Client \cup {None}]
      /\ spent \in [db : Nat, net : Nat, crash : Nat]
  BY DEF PairedInv, TypeOK
<1>a. ~Restart
  BY DEF Restart, Free
<1>c. saved' = saved
  BY <1>a, RestoringStep
<1>1. CASE mu.op = "restore"
  <2>1. Sole(i)
    BY <1>1, <1>a, SoleStep
  <2>2. spent.net = 0
    <3>1. \/ UNCHANGED spent \/ DbFails \/ NetFails
      BY <1>a DEF Next, vars, EmitCode, PairSuccess, QRTimeout, LoggedOut,
         HandlerUnregisters, HandlerDeletes, CreateDevice, CreateFails, CreateReturns,
         QRGoroutine, Register, SaveMapping, LogoutDevice, LogoutCall, LogoutReturns,
         RestoreDevices, RestoreOne, RestoreReturns
    <3> QED
      BY <1>b, <3>1 DEF DbFails, NetFails
  <2>3. Back(i)
    BY <1>1, <2>1, <2>2 DEF BackInv
  <2>4. CASE \E q \in Phone : RestoreOne(i, q)
    BY <2>1, <2>3, <2>4, RestoreOneBack
  <2>5. CASE ~\E q \in Phone : RestoreOne(i, q)
    <3>1. mu # Free /\ mu # Op("loggedOut", i)
      BY <1>1 DEF Free, Op
    <3>2. devices'[i] = devices[i]
      BY <1>a, <2>5, <3>1, DevicesStep DEF HandlerUnregisters, Register, LogoutReturns
    <3>3. phone'[saved[i]] = phone[saved[i]]
      BY <2>1, AccountStep DEF Sole, Live, SavedInv
    <3>4. chosen' = chosen /\ \A p : <<i, p>> \in todo => <<i, p>> \in todo'
      <4>1. CASE UNCHANGED <<todo, chosen>>
        BY <4>1
      <4>2. ASSUME NEW j \in Id, NEW q \in Phone, RestoreOne(j, q)
            PROVE  chosen' = chosen /\ \A p : <<i, p>> \in todo => <<i, p>> \in todo'
        <5>1. j # i
          BY <2>5, <4>2
        <5> QED
          BY <4>2, <5>1 DEF RestoreOne
      <4> QED
        BY <1>1, <4>1, <4>2, RestoringStep
    <3> QED
      BY <1>c, <2>3, <3>2, <3>3, <3>4 DEF Back
  <2> QED
    BY <2>4, <2>5
<1>2. CASE mu.op # "restore"
  <2>1. RestoreDevices
    BY <1>2, RestoringStep
  <2>2. /\ UNCHANGED <<mapping, sess, phone>>
        /\ todo' = {<<j, mapping[j]>> : j \in {k \in Id : mapping[k] # None}}
        /\ chosen' \in [Phone -> Client \cup {None}]
        /\ \A p \in Phone :
              LET of == {c \in Client : Live(c) /\ phone[c] = p}
              IN  IF of = {} THEN chosen'[p] = None ELSE chosen'[p] \in of
    BY <1>2, <2>1 DEF RestoreDevices, db
  <2>3. PICK c : c = saved[i]
    OBVIOUS
  <2>4. /\ Live(c) /\ mapping[i] = phone[c]
        /\ \A d \in Client \ {c} : phone[d] # phone[c]
    BY <1>c, <2>2, <2>3 DEF Sole, Live
  <2>5. c \in Client /\ phone[c] # None
    BY <2>3, <2>4 DEF SavedInv, Live
  <2>6. phone[c] \in Phone
    BY <2>5 DEF PairedInv, TypeOK
  <2>7. chosen'[phone[c]] = c
    BY <2>2, <2>4, <2>5, <2>6
  <2>8. <<i, phone[c]>> \in todo'
    BY <2>2, <2>4, <2>5
  <2> QED
    BY <1>c, <2>2, <2>3, <2>7, <2>8 DEF Back
<1> QED
  BY <1>1, <1>2

\* RestoreDevices, when it ends and no Connect failed, has registered every
\* device that was registered and in the table at the crash, whose row and session
\* are there and alone (RestoreDevices in manager.go).
THEOREM SavedDevicesComeBack == Spec => []RestoreRecovers
<1> DEFINE RecoverInv == SavedInv /\ BackInv
<1>1. Init => RecoverInv
  BY DEF Init, Free, SavedInv, BackInv
<1>2. SafeInv /\ RecoverInv /\ [Next]_vars => RecoverInv'
  BY SavedIsOff, BackStep DEF SafeInv
<1>3. RecoverInv => RestoreRecovers
  BY DEF BackInv, RestoreRecovers, Sole, Back
<1> QED
  BY <1>1, <1>2, <1>3, SafeInvariant, PTL DEF Spec
=============================================================================
