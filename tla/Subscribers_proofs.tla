------------------------ MODULE Subscribers_proofs ------------------------
(* Proofs about Subscribers, for any sets of devices, messages and pollers. *)
EXTENDS Subscribers, TLAPS

Used == [event : Nat, api : Nat, send : Nat, db : Nat, crash : Nat]

Labels == {"off", "wait", "handle", "ok", "failed"}

Stati == {"pending", "processing", "completed", "failed"}

Held == [Topics -> [Device -> Nat]]

\* What is counted stays a number, and grows.
LEMMA FaultIsTyped ==
  ASSUME spent \in Used, NEW kind \in {"api", "send", "db", "crash"}, Fault(kind)
  PROVE  /\ spent' \in Used
         /\ spent'.api + spent'.crash >= spent.api + spent.crash
         /\ kind \in {"api", "crash"} => spent'.api + spent'.crash > 0
<1>1. spent[kind] \in Nat
  BY DEF Used
<1>2. spent' = [spent EXCEPT ![kind] = spent[kind] + 1]
  BY DEF Fault
<1>3. CASE kind = "api"
  BY <1>1, <1>2, <1>3 DEF Used
<1>4. CASE kind = "send"
  BY <1>1, <1>2, <1>4 DEF Used
<1>5. CASE kind = "db"
  BY <1>1, <1>2, <1>5 DEF Used
<1>6. CASE kind = "crash"
  BY <1>1, <1>2, <1>6 DEF Used
<1> QED
  BY <1>3, <1>4, <1>5, <1>6

\* A change of a device is counted, and no fault with it.
LEMMA ChangeIsTyped ==
  ASSUME spent \in Used, Change
  PROVE  /\ spent' \in Used
         /\ spent'.api + spent'.crash >= spent.api + spent.crash
BY DEF Used, Change

\* Publishing adds an event to one topic and device, if the topic is subscribed.
LEMMA Published ==
  ASSUME inbox \in Held, stale \subseteq Device,
         NEW t \in Topics, NEW d \in Device, NEW state, Publish(t, d, state)
  PROVE  /\ inbox' \in Held /\ stale' \subseteq Device /\ subscribed' = subscribed
         /\ \A u \in Topics, e \in Device :
               u # t \/ e # d => inbox'[u][e] = inbox[u][e]
         /\ inbox'[t][d] >= inbox[t][d]
         /\ \A e \in Device \ {d} : e \in stale' <=> e \in stale
         /\ d \notin stale' =>
               /\ inbox'[t][d] = inbox[t][d] + 1
               /\ \A u \in Topics : inbox[u][d] > 0 => (u \in Starts <=> t \in Starts)
               /\ Served(state) <=> t \in Starts
<1>1. /\ inbox' = inbox \/ inbox' = [inbox EXCEPT ![t][d] = @ + 1]
      /\ subscribed' = subscribed
      /\ stale' = stale \cup {d} \/ stale' = stale \ {d}
  BY DEF Publish
<1>2. inbox[t] \in [Device -> Nat] /\ inbox[t][d] \in Nat
  BY DEF Held
<1>3. inbox' \in Held
  BY <1>1, <1>2 DEF Held
<1>4. /\ \A u \in Topics, e \in Device : u # t \/ e # d => inbox'[u][e] = inbox[u][e]
      /\ inbox'[t][d] >= inbox[t][d]
  BY <1>1, <1>2 DEF Held
<1>5. ASSUME d \notin stale'
      PROVE  /\ inbox'[t][d] = inbox[t][d] + 1
             /\ \A u \in Topics : inbox[u][d] > 0 => (u \in Starts <=> t \in Starts)
             /\ Served(state) <=> t \in Starts
  <2>1. /\ t \in subscribed
        /\ ~Undelivered(d, t \notin Starts)
        /\ ~(Served(state) # (t \in Starts))
    BY <1>5 DEF Publish
  <2>2. inbox'[t][d] = inbox[t][d] + 1
    BY <1>2, <2>1 DEF Publish, Held
  <2>3. Served(state) <=> t \in Starts
    BY <2>1 DEF Served
  <2>4. \A u \in Topics : inbox[u][d] > 0 => (u \in Starts <=> t \in Starts)
    BY <2>1 DEF Undelivered
  <2> QED
    BY <2>2, <2>3, <2>4
<1> QED
  BY <1>1, <1>3, <1>4, <1>5

\* An event that was handled leaves the bus.
LEMMA Taken ==
  ASSUME inbox \in Held, NEW t \in Topics, NEW d \in Device, Take(t, d)
  PROVE  /\ inbox' \in Held
         /\ inbox[t][d] > 0 /\ inbox'[t][d] = inbox[t][d] - 1
         /\ \A u \in Topics, e \in Device :
               u # t \/ e # d => inbox'[u][e] = inbox[u][e]
         /\ UNCHANGED <<subscribed, stale>>
<1>1. inbox[t] \in [Device -> Nat] /\ inbox[t][d] \in Nat /\ inbox[t][d] > 0
  BY DEF Held, Take
<1>2. inbox' = [inbox EXCEPT ![t] = [inbox[t] EXCEPT ![d] = inbox[t][d] - 1]]
  BY DEF Take
<1>3. [inbox[t] EXCEPT ![d] = inbox[t][d] - 1] \in [Device -> Nat]
  BY <1>1
<1> QED
  BY <1>1, <1>2, <1>3 DEF Held, Take

\* The topics that start a poller, and those that stop one.
LEMMA TopicsAre ==
  /\ Topics = {"device.connected", "device.disconnected", "device.logout", "device.restored"}
  /\ \A t \in Topics : t \in Starts <=> t \in {"device.connected", "device.restored"}
BY DEF Topics, Starts

-----------------------------------------------------------------------------
(* Types, by the parts of the state.                                         *)

DeviceType ==
    /\ phase \in {"restoring", "serving", "stopping", "stopped"}
    /\ dev \in [Device -> Devices] /\ ghost \subseteq Device /\ rival \subseteq Device
    /\ unsent \subseteq Topics \X Device
    /\ backlog \subseteq Device /\ clearing \in Device \cup {None}

BusType == subscribed \subseteq Topics /\ inbox \in Held /\ stale \subseteq Device

PollType ==
    /\ messageSubscribers \in [Device -> Poller \cup {None}]
    /\ own \in [Poller -> Device \cup {None}] /\ cancelled \in [Poller -> BOOLEAN]
    /\ ppc \in [Poller -> Labels] /\ item \in [Poller -> Item \cup {None}]

QueueType == st \in [Item -> Stati] /\ sent \in [Item -> Nat] /\ unsure \in [Item -> Nat]

\* The type invariant is the conjunction of the parts.
LEMMA TypeParts ==
  TypeOK <=> DeviceType /\ BusType /\ PollType /\ QueueType /\ spent \in Used
BY DEF TypeOK, DeviceType, BusType, PollType, QueueType, Held, Labels, Stati, Used

\* Steps of the devices and the bus.
DeviceMoves ==
    \/ \E t \in Topics : subscribeToEvent(t)
    \/ \E d \in Device :
          \/ RestoreOne(d) \/ Pair(d) \/ PairAgain(d) \/ Register(d) \/ RegisterOver(d)
          \/ Connected(d) \/ Disconnected(d) \/ LoggedOut(d) \/ LogoutDevice(d)
          \/ GhostLoggedOut(d)
          \/ \E t \in Topics : publishEvent(t, d) \/ GhostEvent(d, t)
    \/ RestoreReturns

\* Steps of the rows.
RowMoves == \E d \in Device : Stored(d) \/ Delivered(d) \/ MarkAllPendingAsFailed(d)

\* Handlers, but for what they do with a poller.
Handles(t, d) ==
    \/ t # "device.logout" /\ Take(t, d) /\ UNCHANGED <<main, manager, queue, rows>>
    \/ /\ t = "device.logout" /\ clearing = None /\ inbox[t][d] > 0
       /\ clearing' = d
       /\ UNCHANGED <<main, bus, manager, queue, backlog>>

Starting ==
    \E t \in Starts, d \in Device : Handles(t, d) /\ startMessageSubscriber(d)

Stopping ==
    \E t \in Topics \ Starts, d \in Device : Handles(t, d) /\ stopMessageSubscriber(d)

\* Every step is of one of these kinds.
LEMMA Moves ==
  ASSUME [Next]_vars
  PROVE  \/ DeviceMoves \/ RowMoves \/ Starting \/ Stopping
         \/ \E p \in Poller : PollerStep(p)
         \/ StopSubscribers \/ StopContext \/ Restart \/ UNCHANGED vars
<1>1. ASSUME NEW d \in Device, DeviceStep(d) PROVE DeviceMoves \/ RowMoves
  BY <1>1 DEF DeviceStep, DeviceMoves, RowMoves
<1>2. ASSUME NEW d \in Device, HandlerStep(d) PROVE Starting \/ Stopping
  <2>1. ASSUME handleDeviceConnected(d) PROVE Starting
    BY <2>1 DEF handleDeviceConnected, Starting, Handles, Starts
  <2>2. ASSUME handleDeviceRestored(d) PROVE Starting
    BY <2>2 DEF handleDeviceRestored, Starting, Handles, Starts
  <2>3. ASSUME handleDeviceDisconnected(d) PROVE Stopping
    BY <2>3 DEF handleDeviceDisconnected, Stopping, Handles, Starts, Topics
  <2>4. ASSUME handleDeviceLogout(d) PROVE Stopping
    BY <2>4 DEF handleDeviceLogout, Stopping, Handles, Starts, Topics
  <2> QED
    BY <1>2, <2>1, <2>2, <2>3, <2>4 DEF HandlerStep
<1>3. ASSUME NEW t \in Topics, subscribeToEvent(t) PROVE DeviceMoves
  BY <1>3 DEF DeviceMoves
<1>4. ASSUME RestoreReturns PROVE DeviceMoves
  BY <1>4 DEF DeviceMoves
<1>5. ASSUME NEW d \in Device, MarkAllPendingAsFailed(d) PROVE RowMoves
  BY <1>5 DEF RowMoves
<1> QED
  BY <1>1, <1>2, <1>3, <1>4, <1>5 DEF Next

\* The devices and the rows leave the pollers and the queue service alone.
LEMMA DevicesKeepPollers ==
  ASSUME DeviceMoves \/ RowMoves
  PROVE  UNCHANGED <<poll, queue>>
<1>1. ASSUME NEW d \in Device,
             \/ RestoreOne(d) \/ Pair(d) \/ PairAgain(d) \/ Register(d) \/ RegisterOver(d)
             \/ Connected(d) \/ Disconnected(d) \/ LoggedOut(d) \/ LogoutDevice(d)
             \/ GhostLoggedOut(d)
             \/ \E t \in Topics : publishEvent(t, d) \/ GhostEvent(d, t)
      PROVE  UNCHANGED <<poll, queue>>
  BY <1>1 DEF RestoreOne, Pair, PairAgain, Register, RegisterOver, Connected, Disconnected,
              LoggedOut, LogoutDevice, publishEvent, GhostEvent, GhostLoggedOut
<1>2. ASSUME NEW d \in Device, Stored(d) \/ Delivered(d) \/ MarkAllPendingAsFailed(d)
      PROVE  UNCHANGED <<poll, queue>>
  BY <1>2 DEF Stored, Delivered, MarkAllPendingAsFailed
<1>3. ASSUME NEW t \in Topics, subscribeToEvent(t) PROVE UNCHANGED <<poll, queue>>
  BY <1>3 DEF subscribeToEvent
<1>4. ASSUME RestoreReturns PROVE UNCHANGED <<poll, queue>>
  BY <1>4 DEF RestoreReturns
<1> QED
  BY <1>1, <1>2, <1>3, <1>4 DEF DeviceMoves, RowMoves

\* A step of a poller is its own.
LEMMA PollersKeepDevices ==
  ASSUME NEW p \in Poller, PollerStep(p)
  PROVE  UNCHANGED <<phase, messageSubscribers, own, cancelled, manager, bus, rows>>
BY DEF PollerStep, Pull, Handle, Complete, MarkAsFailed, Report, Ends, main

\* Steps of the devices and the bus keep the types.
LEMMA DevicesTyped ==
  ASSUME TypeOK, DeviceMoves
  PROVE  DeviceType' /\ BusType' /\ spent' \in Used
<1> USE TypeParts, Published, ChangeIsTyped DEF DeviceType, BusType, Devices, main, bus,
        manager, rows
<1>1. ASSUME NEW t \in Topics, subscribeToEvent(t)
      PROVE  DeviceType' /\ BusType' /\ spent' \in Used
  BY <1>1 DEF subscribeToEvent
<1>2. ASSUME NEW d \in Device, RestoreOne(d)
      PROVE  DeviceType' /\ BusType' /\ spent' \in Used
  <2>1. "device.restored" \in Topics
    BY DEF Topics
  <2>2. BusType'
    BY <1>2, <2>1 DEF RestoreOne
  <2> QED
    BY <1>2, <2>2 DEF RestoreOne
<1>3. ASSUME RestoreReturns PROVE DeviceType' /\ BusType' /\ spent' \in Used
  BY <1>3 DEF RestoreReturns
<1>4. ASSUME NEW d \in Device, Pair(d) PROVE DeviceType' /\ BusType' /\ spent' \in Used
  BY <1>4 DEF Pair
<1>5. ASSUME NEW d \in Device, Register(d)
      PROVE  DeviceType' /\ BusType' /\ spent' \in Used
  BY <1>5 DEF Register, Topics
<1>6. ASSUME NEW d \in Device, NEW t \in Topics, publishEvent(t, d)
      PROVE  DeviceType' /\ BusType' /\ spent' \in Used
  <2>1. BusType'
    BY <1>6 DEF publishEvent
  <2> QED
    BY <1>6, <2>1 DEF publishEvent
<1>7. ASSUME NEW d \in Device, Connected(d)
      PROVE  DeviceType' /\ BusType' /\ spent' \in Used
  <2>1. "device.connected" \in Topics
    BY DEF Topics
  <2>2. BusType'
    BY <1>7, <2>1 DEF Connected
  <2> QED
    BY <1>7, <2>2 DEF Connected
<1>8. ASSUME NEW d \in Device, Disconnected(d)
      PROVE  DeviceType' /\ BusType' /\ spent' \in Used
  <2>1. "device.disconnected" \in Topics
    BY DEF Topics
  <2>2. BusType'
    BY <1>8, <2>1 DEF Disconnected
  <2> QED
    BY <1>8, <2>2 DEF Disconnected
<1>9. ASSUME NEW d \in Device, LoggedOut(d)
      PROVE  DeviceType' /\ BusType' /\ spent' \in Used
  BY <1>9 DEF LoggedOut, Topics
<1>10. ASSUME NEW d \in Device, LogoutDevice(d)
       PROVE  DeviceType' /\ BusType' /\ spent' \in Used
  <2>1. "device.logout" \in Topics
    BY DEF Topics
  <2>2. BusType'
    BY <1>10, <2>1 DEF LogoutDevice
  <2> QED
    BY <1>10, <2>2 DEF LogoutDevice
<1>11. ASSUME NEW d \in Device, NEW t \in Topics, GhostEvent(d, t)
       PROVE  DeviceType' /\ BusType' /\ spent' \in Used
  <2>1. BusType'
    BY <1>11 DEF GhostEvent
  <2> QED
    BY <1>11, <2>1 DEF GhostEvent
<1>12. ASSUME NEW d \in Device, PairAgain(d)
       PROVE  DeviceType' /\ BusType' /\ spent' \in Used
  BY <1>12 DEF PairAgain
<1>13. ASSUME NEW d \in Device, RegisterOver(d)
       PROVE  DeviceType' /\ BusType' /\ spent' \in Used
  BY <1>13 DEF RegisterOver, Topics
<1>14. ASSUME NEW d \in Device, GhostLoggedOut(d)
       PROVE  DeviceType' /\ BusType' /\ spent' \in Used
  BY <1>14 DEF GhostLoggedOut, Topics
<1> QED
  BY <1>1, <1>2, <1>3, <1>4, <1>5, <1>6, <1>7, <1>8, <1>9, <1>10, <1>11, <1>12, <1>13, <1>14
  DEF DeviceMoves

\* Starting or stopping a poller keeps the types of the pollers.
LEMMA PollersTyped ==
  ASSUME PollType, NEW d \in Device, startMessageSubscriber(d) \/ stopMessageSubscriber(d)
  PROVE  PollType'
<1>1. CASE UNCHANGED poll
  BY <1>1 DEF PollType, poll
<1>3. ASSUME NEW p \in Poller,
             ppc' = [ppc EXCEPT ![p] = "wait"], own' = [own EXCEPT ![p] = d],
             cancelled' = [cancelled EXCEPT ![p] = FALSE],
             messageSubscribers' = [messageSubscribers EXCEPT ![d] = p],
             UNCHANGED item
      PROVE  PollType'
  <2>1. ppc' \in [Poller -> Labels] /\ own' \in [Poller -> Device \cup {None}]
    BY <1>3 DEF PollType, Labels
  <2>2. /\ cancelled' \in [Poller -> BOOLEAN]
        /\ messageSubscribers' \in [Device -> Poller \cup {None}]
    BY <1>3 DEF PollType
  <2> QED
    BY <1>3, <2>1, <2>2 DEF PollType
<1>4. startMessageSubscriber(d) => PollType'
  BY <1>1, <1>3 DEF startMessageSubscriber
<1>2. CASE stopMessageSubscriber(d)
  BY <1>2 DEF PollType, stopMessageSubscriber
<1> QED
  BY <1>2, <1>4

\* Every step does.
LEMMA Typed == TypeOK /\ [Next]_vars => TypeOK'
<1> SUFFICES ASSUME TypeOK, [Next]_vars PROVE TypeOK'
  OBVIOUS
<1>a. DeviceType /\ BusType /\ PollType /\ QueueType /\ spent \in Used
  BY TypeParts
<1>b. DeviceType' /\ BusType' /\ PollType' /\ QueueType' /\ spent' \in Used => TypeOK'
  BY TypeParts DEF TypeOK, DeviceType, BusType, PollType, QueueType, Held, Labels,
     Stati, Used
<1>1. CASE DeviceMoves
  <2>1. PollType' /\ QueueType'
    BY <1>1, <1>a, DevicesKeepPollers DEF PollType, QueueType, poll, queue
  <2> QED
    BY <1>1, <1>b, <2>1, DevicesTyped
<1>2. CASE RowMoves
  <2>1. PollType' /\ QueueType'
    BY <1>2, <1>a, DevicesKeepPollers DEF PollType, QueueType, poll, queue
  <2>2. ASSUME NEW d \in Device, Stored(d) \/ Delivered(d)
        PROVE  DeviceType' /\ BusType' /\ spent' \in Used
    BY <2>2, <1>a DEF Stored, Delivered, DeviceType, BusType, main, bus, manager
  <2>3. ASSUME NEW d \in Device, MarkAllPendingAsFailed(d)
        PROVE  DeviceType' /\ BusType' /\ spent' \in Used
    <3>1. "device.logout" \in Topics
      BY DEF Topics
    <3>2. BusType'
      BY <2>3, <3>1, <1>a, Taken DEF MarkAllPendingAsFailed, BusType
    <3>3. spent' \in Used
      BY <2>3, <1>a, FaultIsTyped DEF MarkAllPendingAsFailed
    <3> QED
      BY <2>3, <1>a, <3>2, <3>3 DEF MarkAllPendingAsFailed, DeviceType, manager
  <2> QED
    BY <1>2, <1>b, <2>1, <2>2, <2>3 DEF RowMoves
<1>3. ASSUME NEW t \in Topics, NEW d \in Device, Handles(t, d)
      PROVE  DeviceType' /\ BusType' /\ QueueType' /\ spent' \in Used
  <2>1. CASE t = "device.logout"
    BY <1>3, <1>a, <2>1 DEF Handles, DeviceType, BusType, QueueType, main, bus, manager, queue
  <2>2. CASE t # "device.logout"
    BY <1>3, <1>a, <2>2, Taken
    DEF Handles, DeviceType, BusType, QueueType, main, manager, queue, rows
  <2> QED
    BY <2>1, <2>2
<1>4. CASE Starting \/ Stopping
  BY <1>4, <1>a, <1>b, <1>3, PollersTyped, TopicsAre DEF Starting, Stopping, Starts
<1>5. ASSUME NEW p \in Poller, PollerStep(p) PROVE TypeOK'
  <2>1. DeviceType' /\ BusType'
    BY <1>5, <1>a, PollersKeepDevices DEF DeviceType, BusType, bus, manager, rows
  <2>2. spent' \in Used
    BY <1>5, <1>a, FaultIsTyped
    DEF PollerStep, Pull, Handle, Complete, MarkAsFailed, Report, Ends, main
  <2>3. PollType'
    BY <1>5, <1>a
    DEF PollerStep, Pull, Handle, Complete, MarkAsFailed, Report, Ends, PollType, Labels
  <2>4. st' \in [Item -> Stati]
    BY <1>5, <1>a
    DEF PollerStep, Pull, Handle, Complete, MarkAsFailed, Report, Ends, queue,
        QueueType, Stati
  <2>5. sent' \in [Item -> Nat] /\ unsure' \in [Item -> Nat]
    BY <1>5, <1>a
    DEF PollerStep, Pull, Handle, Complete, MarkAsFailed, Report, Ends, queue, QueueType
  <2> QED
    BY <1>b, <2>1, <2>2, <2>3, <2>4, <2>5 DEF QueueType
<1>6. CASE StopSubscribers
  <2>1. PollType'
    BY <1>6, <1>a DEF StopSubscribers, PollType
  <2> QED
    BY <1>6, <1>a, <1>b, <2>1
    DEF StopSubscribers, DeviceType, BusType, QueueType, bus, manager, queue, rows
<1>7. CASE StopContext
  <2>1. BusType'
    BY <1>7, <1>a DEF StopContext, BusType, Held
  <2> QED
    BY <1>7, <1>a, <1>b, <2>1
    DEF StopContext, DeviceType, PollType, QueueType, manager, poll, queue, rows
<1>8. CASE Restart
  <2>1. BusType' /\ PollType'
    BY <1>8 DEF Restart, BusType, PollType, Held, Labels
  <2>2. dev' \in [Device -> Devices]
    BY <1>8 DEF Restart, Devices
  <2>3. DeviceType' /\ QueueType'
    BY <1>8, <1>a, <2>2 DEF Restart, DeviceType, QueueType, queue
  <2>4. spent' \in Used
    BY <1>8, <1>a, FaultIsTyped DEF Restart
  <2> QED
    BY <1>b, <2>1, <2>3, <2>4
<1>9. CASE UNCHANGED vars
  BY <1>9, <1>a, <1>b
  DEF vars, main, bus, manager, poll, queue, rows, DeviceType, BusType, PollType, QueueType
<1> QED
  BY <1>1, <1>2, <1>4, <1>5, <1>6, <1>7, <1>8, <1>9, Moves

\* The types hold at first.
LEMMA TypedInitially == Init => TypeOK
<1> SUFFICES ASSUME Init PROVE TypeOK
  OBVIOUS
<1>1. DeviceType /\ BusType
  BY DEF Init, DeviceType, BusType, Devices, Held
<1>2. PollType /\ QueueType /\ spent \in Used
  BY DEF Init, PollType, QueueType, Labels, Stati, Used
<1> QED
  BY <1>1, <1>2, TypeParts

\* The invariant of the types holds for any sets of devices, messages, pollers.
THEOREM SubscribersTypeInvariant == Spec => []TypeOK
BY TypedInitially, Typed, PTL DEF Spec

-----------------------------------------------------------------------------
(* Pollers.  A poller that runs has a device; it leaves the map only when it  *)
(* is cancelled, and enters it only where there is none.                     *)

RunningInv ==
    /\ \A p \in Poller : ppc[p] # "off" => own[p] \in Device
    /\ RunningIsRegistered

\* A poller is started only for a device that has none in the map.
LEMMA StartKeepsRunning ==
  ASSUME TypeOK, RunningInv, NEW d \in Device, startMessageSubscriber(d)
  PROVE  RunningInv'
<1>a. PollType /\ None \notin Poller
  BY TypeParts, Types
<1>1. CASE UNCHANGED poll
  BY <1>1 DEF RunningInv, RunningIsRegistered, poll
<1>2. ASSUME NEW p \in Poller, messageSubscribers[d] = None, ppc[p] = "off",
             ppc' = [ppc EXCEPT ![p] = "wait"], own' = [own EXCEPT ![p] = d],
             cancelled' = [cancelled EXCEPT ![p] = FALSE],
             messageSubscribers' = [messageSubscribers EXCEPT ![d] = p]
      PROVE  RunningInv'
  <2>1. /\ \A q \in Poller \ {p} :
              ppc'[q] = ppc[q] /\ own'[q] = own[q] /\ (cancelled'[q] <=> cancelled[q])
        /\ ppc'[p] = "wait" /\ own'[p] = d /\ ~cancelled'[p]
        /\ messageSubscribers'[d] = p
        /\ \A e \in Device \ {d} : messageSubscribers'[e] = messageSubscribers[e]
    BY <1>a, <1>2 DEF PollType
  <2>2. \A q \in Poller : ppc'[q] # "off" => own'[q] \in Device
    BY <2>1 DEF RunningInv
  <2>3. ASSUME NEW q \in Poller, ppc'[q] # "off", ~cancelled'[q]
        PROVE  messageSubscribers'[own'[q]] = q
    <3>1. CASE q = p
      BY <2>1, <3>1
    <3>2. CASE q # p
      <4>1. messageSubscribers[own[q]] = q /\ own[q] \in Device
        BY <2>1, <2>3, <3>2 DEF RunningInv, RunningIsRegistered
      <4>2. own[q] # d
        BY <1>a, <1>2, <4>1
      <4> QED
        BY <2>1, <3>2, <4>1, <4>2
    <3> QED
      BY <3>1, <3>2
  <2>4. ASSUME NEW e \in Device, messageSubscribers'[e] # None
        PROVE  LET q == messageSubscribers'[e]
               IN  own'[q] = e /\ ppc'[q] # "off" /\ ~cancelled'[q]
    <3>1. CASE e = d
      BY <2>1, <3>1
    <3>2. CASE e # d
      <4>1. PICK q \in Poller : q = messageSubscribers[e]
        BY <1>a, <2>1, <2>4, <3>2 DEF PollType
      <4>2. own[q] = e /\ ppc[q] # "off" /\ ~cancelled[q] /\ q # p
        BY <1>2, <2>1, <2>4, <3>2, <4>1 DEF RunningInv, RunningIsRegistered
      <4> QED
        BY <2>1, <3>2, <4>1, <4>2
    <3> QED
      BY <3>1, <3>2
  <2> QED
    BY <2>2, <2>3, <2>4 DEF RunningInv, RunningIsRegistered
<1> QED
  BY <1>1, <1>2 DEF startMessageSubscriber

\* A poller that leaves the map is cancelled.
LEMMA StopKeepsRunning ==
  ASSUME TypeOK, RunningInv, NEW d \in Device, stopMessageSubscriber(d)
  PROVE  RunningInv'
<1>a. PollType /\ None \notin Poller
  BY TypeParts, Types
<1>1. /\ messageSubscribers' = [messageSubscribers EXCEPT ![d] = None]
      /\ UNCHANGED <<own, ppc>>
      /\ \A q \in Poller : cancelled[q] => cancelled'[q]
      /\ \A q \in Poller : q # messageSubscribers[d] => (cancelled'[q] <=> cancelled[q])
      /\ \A q \in Poller : q = messageSubscribers[d] => cancelled'[q]
  BY <1>a DEF stopMessageSubscriber, PollType
<1>2. ASSUME NEW q \in Poller, ppc'[q] # "off", ~cancelled'[q]
      PROVE  messageSubscribers'[own'[q]] = q
  <2>1. q # messageSubscribers[d] /\ messageSubscribers[own[q]] = q /\ own[q] \in Device
    BY <1>1, <1>2 DEF RunningInv, RunningIsRegistered
  <2> QED
    BY <1>a, <1>1, <2>1 DEF PollType
<1>3. ASSUME NEW e \in Device, messageSubscribers'[e] # None
      PROVE  LET q == messageSubscribers'[e]
             IN  own'[q] = e /\ ppc'[q] # "off" /\ ~cancelled'[q]
  <2>1. e # d /\ messageSubscribers'[e] = messageSubscribers[e]
    BY <1>a, <1>1, <1>3 DEF PollType
  <2>2. PICK q \in Poller : q = messageSubscribers[e]
    BY <1>a, <1>3, <2>1 DEF PollType
  <2>3. own[q] = e /\ ppc[q] # "off" /\ ~cancelled[q]
    BY <1>3, <2>1, <2>2 DEF RunningInv, RunningIsRegistered
  <2>4. q # messageSubscribers[d]
    <3>1. messageSubscribers[d] # None => own[messageSubscribers[d]] = d
      BY DEF RunningInv, RunningIsRegistered
    <3> QED
      BY <1>a, <2>1, <2>3, <3>1
  <2> QED
    BY <1>1, <2>1, <2>2, <2>3, <2>4
<1> QED
  BY <1>1, <1>2, <1>3 DEF RunningInv, RunningIsRegistered

\* Each step keeps pollers and map in agreement.
LEMMA Running == TypeOK /\ RunningInv /\ [Next]_vars => RunningInv'
<1> SUFFICES ASSUME TypeOK, RunningInv, [Next]_vars PROVE RunningInv'
  OBVIOUS
<1>a. PollType /\ None \notin Poller
  BY TypeParts, Types
<1>b. UNCHANGED poll => RunningInv'
  BY DEF RunningInv, RunningIsRegistered, poll
<1>1. CASE DeviceMoves \/ RowMoves
  BY <1>1, <1>b, DevicesKeepPollers
<1>2. CASE Starting
  BY <1>2, StartKeepsRunning DEF Starting
<1>3. CASE Stopping
  BY <1>3, StopKeepsRunning DEF Stopping
<1>4. ASSUME NEW p \in Poller, PollerStep(p) PROVE RunningInv'
  <2>1. /\ UNCHANGED <<messageSubscribers, own, cancelled>>
        /\ \A q \in Poller \ {p} : ppc'[q] = ppc[q]
        /\ ppc'[p] # "off" => ppc[p] # "off"
        /\ ppc'[p] = "off" /\ ppc[p] # "off" => cancelled[p]
    BY <1>4, <1>a, PollersKeepDevices
    DEF PollerStep, Pull, Handle, Complete, MarkAsFailed, Report, Ends, PollType
  <2>2. \A q \in Poller : ppc'[q] # "off" => ppc[q] # "off"
    BY <2>1
  <2>3. \A q \in Poller : ppc[q] # "off" /\ ~cancelled[q] => ppc'[q] # "off"
    BY <2>1
  <2>4. \A d \in Device : messageSubscribers[d] # None => messageSubscribers[d] \in Poller
    BY <1>a DEF PollType
  <2> QED
    BY <2>1, <2>2, <2>3, <2>4 DEF RunningInv, RunningIsRegistered
<1>5. CASE StopSubscribers
  <2>1. /\ messageSubscribers' = [d \in Device |-> None]
        /\ UNCHANGED <<own, ppc>>
        /\ \A p \in Poller : cancelled'[p] <=>
              cancelled[p] \/ \E d \in Device : messageSubscribers[d] = p
    BY <1>5, <1>a DEF StopSubscribers, PollType
  <2>2. \A p \in Poller : ppc'[p] # "off" => cancelled'[p]
    BY <2>1 DEF RunningInv, RunningIsRegistered
  <2> QED
    BY <2>1, <2>2 DEF RunningInv, RunningIsRegistered
<1>6. CASE StopContext
  BY <1>6, <1>b DEF StopContext
<1>7. CASE Restart
  BY <1>7 DEF Restart, RunningInv, RunningIsRegistered
<1>8. CASE UNCHANGED vars
  BY <1>8, <1>b DEF vars
<1> QED
  BY <1>1, <1>2, <1>3, <1>4, <1>5, <1>6, <1>7, <1>8, Moves

\* No poller escapes from the map, and no device has two that were not
\* cancelled, however the events that start and stop them are ordered.
THEOREM NoPollerEscapes == Spec => []RunningIsRegistered
<1>1. Init => RunningInv
  BY DEF Init, RunningInv, RunningIsRegistered
<1>2. RunningInv => RunningIsRegistered
  BY DEF RunningInv
<1> QED
  BY TypedInitially, Typed, Running, <1>1, <1>2, PTL DEF Spec

-----------------------------------------------------------------------------
(* Messages.  Only the poller that has a message changes its status, and the  *)
(* status says what is known of its sends.                                   *)

HoldInv ==
    /\ \A p \in Poller :
          IF ppc[p] \in {"handle", "ok", "failed"}
          THEN item[p] \in Item /\ st[item[p]] = "processing"
          ELSE item[p] = None
    /\ \A p, q \in Poller : item[p] = item[q] /\ item[p] # None => p = q

CountInv ==
    /\ \A p \in Poller :
          /\ ppc[p] \in {"handle", "failed"} => sent[item[p]] <= unsure[item[p]]
          /\ ppc[p] = "ok" => sent[item[p]] > 0
    /\ \A i \in Item : st[i] = "pending" => sent[i] <= unsure[i]

SentInv == HoldInv /\ CountInv /\ SentAccounted

\* What stays as it was.
LEMMA SentFrame ==
  ASSUME TypeOK, SentInv, UNCHANGED <<ppc, item, st, sent, unsure>>, spent' \in Used,
         spent'.api + spent'.crash >= spent.api + spent.crash
  PROVE  SentInv'
<1>a. spent \in Used
  BY TypeParts
<1>1. HoldInv' /\ CountInv'
  BY DEF SentInv, HoldInv, CountInv
<1>2. spent.api + spent.crash > 0 => spent'.api + spent'.crash > 0
  BY <1>a DEF Used
<1> QED
  BY <1>1, <1>2 DEF SentInv, SentAccounted

\* A message is pulled.
LEMMA PullKeepsCount ==
  ASSUME TypeOK, SentInv, NEW p \in Poller, NEW i \in Item, Pull(p, i)
  PROVE  SentInv'
<1>a. PollType /\ QueueType /\ spent \in Used /\ None \notin Item
  BY TypeParts, Types
<1>b. /\ ppc[p] = "wait" /\ item[p] = None /\ st[i] = "pending"
      /\ \A q \in Poller : item[q] # i
      /\ sent[i] <= unsure[i]
  <2>1. ppc[p] = "wait" /\ st[i] = "pending"
    BY DEF Pull, Pending
  <2>2. item[p] = None
    BY <2>1 DEF SentInv, HoldInv
  <2>3. sent[i] <= unsure[i]
    BY <2>1 DEF SentInv, CountInv
  <2>4. \A q \in Poller : item[q] # i
    BY <1>a, <2>1 DEF SentInv, HoldInv
  <2> QED
    BY <2>1, <2>2, <2>3, <2>4
<1>c. /\ st' = [st EXCEPT ![i] = "processing"] /\ UNCHANGED <<sent, unsure>>
      /\ \A j \in Item \ {i} : st'[j] = st[j]
      /\ st'[i] = "processing"
  BY <1>a DEF Pull, QueueType
<1>d. CountInv => \A j \in Item : st'[j] = "pending" => sent[j] <= unsure[j]
  BY <1>c DEF CountInv
<1>1. CASE /\ ppc' = [ppc EXCEPT ![p] = "handle"] /\ item' = [item EXCEPT ![p] = i]
           /\ UNCHANGED spent
  <2>1. /\ ppc'[p] = "handle" /\ item'[p] = i
        /\ \A q \in Poller \ {p} : ppc'[q] = ppc[q] /\ item'[q] = item[q]
    BY <1>a, <1>1 DEF PollType
  <2>2. HoldInv'
    BY <1>b, <1>c, <2>1 DEF SentInv, HoldInv
  <2>3. CountInv'
    BY <1>b, <1>c, <1>d, <2>1 DEF SentInv, CountInv
  <2>4. ASSUME NEW j \in Item, st'[j] = "processing"
        PROVE  (\E q \in Poller : item'[q] = j) \/ spent.api + spent.crash > 0
    <3>1. CASE j = i
      BY <2>1, <3>1
    <3>2. CASE j # i
      <4>1. (\E q \in Poller : item[q] = j) \/ spent.api + spent.crash > 0
        BY <1>c, <2>4, <3>2 DEF SentInv, SentAccounted
      <4> QED
        BY <1>a, <1>b, <2>1, <4>1
    <3> QED
      BY <3>1, <3>2
  <2>5. \A j \in Item : sent[j] <= 1 + unsure[j] /\ (st'[j] = "completed" => sent[j] > 0)
    BY <1>c DEF SentInv, SentAccounted
  <2>6. SentAccounted'
    BY <1>1, <1>c, <2>4, <2>5 DEF SentAccounted
  <2> QED
    BY <2>2, <2>3, <2>6 DEF SentInv
<1>2. CASE Fault("api") /\ UNCHANGED <<ppc, item>>
  <2>1. spent' \in Used /\ spent'.api + spent'.crash > 0
    BY <1>2, <1>a, FaultIsTyped
  <2>2. HoldInv'
    BY <1>2, <1>b, <1>c DEF SentInv, HoldInv
  <2>3. CountInv'
    BY <1>2, <1>b, <1>c, <1>d DEF SentInv, CountInv
  <2>4. SentAccounted'
    BY <1>c, <2>1 DEF SentInv, SentAccounted
  <2> QED
    BY <2>2, <2>3, <2>4 DEF SentInv
<1> QED
  BY <1>1, <1>2 DEF Pull

\* A message is sent, or not.
LEMMA HandleKeepsCount ==
  ASSUME TypeOK, SentInv, NEW p \in Poller, Handle(p)
  PROVE  SentInv'
<1>a. PollType /\ QueueType /\ spent \in Used /\ None \notin Item
  BY TypeParts, Types
<1>b. PICK i \in Item : i = item[p]
  BY DEF Handle, SentInv, HoldInv
<1>c. /\ ppc[p] = "handle" /\ st[i] = "processing"
      /\ sent[i] \in Nat /\ unsure[i] \in Nat /\ sent[i] <= unsure[i]
      /\ \A q \in Poller \ {p} : item[q] # i
      /\ UNCHANGED <<item, st>>
  BY <1>a, <1>b DEF Handle, SentInv, HoldInv, CountInv, QueueType
<1>d. /\ ppc'[p] \in {"ok", "failed"}
      /\ \A q \in Poller \ {p} : ppc'[q] = ppc[q]
      /\ sent'[i] <= 1 + unsure'[i] /\ sent'[i] >= sent[i]
      /\ ppc'[p] = "failed" => sent'[i] <= unsure'[i]
      /\ ppc'[p] = "ok" => sent'[i] > 0
      /\ \A j \in Item \ {i} : sent'[j] = sent[j] /\ unsure'[j] = unsure[j]
  BY <1>a, <1>b, <1>c DEF Handle, PollType, QueueType
<1>1. HoldInv'
  BY <1>b, <1>c, <1>d DEF SentInv, HoldInv
<1>2. CountInv'
  <2>1. ASSUME NEW q \in Poller
        PROVE  /\ ppc'[q] \in {"handle", "failed"} => sent'[item[q]] <= unsure'[item[q]]
               /\ ppc'[q] = "ok" => sent'[item[q]] > 0
    <3>1. CASE q = p
      BY <1>b, <1>d, <3>1
    <3>2. CASE q # p
      <4>1. ppc'[q] = ppc[q] /\ (ppc[q] \in {"handle", "ok", "failed"} => item[q] \in Item \ {i})
        BY <1>c, <1>d, <3>2 DEF SentInv, HoldInv
      <4> QED
        BY <1>d, <4>1 DEF SentInv, CountInv
    <3> QED
      BY <3>1, <3>2
  <2>2. \A j \in Item : st[j] = "pending" => sent'[j] <= unsure'[j]
    BY <1>c, <1>d DEF SentInv, CountInv
  <2> QED
    BY <1>c, <2>1, <2>2 DEF CountInv
<1>3. spent' \in Used /\ spent'.api + spent'.crash >= spent.api + spent.crash
  BY <1>a, FaultIsTyped DEF Handle, Used
<1>4. SentAccounted'
  <2>1. \A j \in Item : sent'[j] <= 1 + unsure'[j]
    BY <1>d DEF SentInv, SentAccounted
  <2>2. \A j \in Item : st[j] = "completed" => sent'[j] > 0
    BY <1>c, <1>d DEF SentInv, SentAccounted
  <2>3. spent.api + spent.crash > 0 => spent'.api + spent'.crash > 0
    BY <1>a, <1>3 DEF Used
  <2> QED
    BY <1>c, <2>1, <2>2, <2>3 DEF SentInv, SentAccounted
<1> QED
  BY <1>1, <1>2, <1>4 DEF SentInv

\* A message is completed, or is marked as failed.
LEMMA ReportKeepsCount ==
  ASSUME TypeOK, SentInv, NEW p \in Poller, NEW outcomes, Report(p, outcomes),
         \/ ppc[p] = "ok" /\ outcomes = {"completed"}
         \/ ppc[p] = "failed" /\ outcomes = {"pending", "failed"}
  PROVE  SentInv'
<1>a. PollType /\ QueueType /\ spent \in Used /\ None \notin Item
  BY TypeParts, Types
<1>b. PICK i \in Item : i = item[p]
  BY DEF SentInv, HoldInv
<1>c. /\ st[i] = "processing"
      /\ \A q \in Poller \ {p} : item[q] # i
      /\ UNCHANGED <<sent, unsure>>
  BY <1>a, <1>b DEF Report, SentInv, HoldInv
<1>d. /\ ppc'[p] = "wait" /\ item'[p] = None
      /\ \A q \in Poller \ {p} : ppc'[q] = ppc[q] /\ item'[q] = item[q]
  BY <1>a DEF Report, PollType
<1>e. /\ \A j \in Item \ {i} : st'[j] = st[j]
      /\ st'[i] \in {"processing", "completed", "pending", "failed"}
      /\ st'[i] = "completed" => ppc[p] = "ok"
      /\ st'[i] = "pending" => ppc[p] = "failed"
      /\ st'[i] = "processing" => Fault("api")
  BY <1>a, <1>b, <1>c DEF Report, QueueType
<1>f. spent' \in Used /\ spent'.api + spent'.crash >= spent.api + spent.crash
  BY <1>a, FaultIsTyped DEF Report, Used
<1>1. HoldInv'
  <2>1. \A q \in Poller \ {p} : item'[q] \in Item => st'[item'[q]] = st[item[q]]
    BY <1>c, <1>d, <1>e
  <2> QED
    BY <1>d, <2>1 DEF SentInv, HoldInv
<1>2. CountInv'
  BY <1>b, <1>c, <1>d, <1>e DEF SentInv, CountInv
<1>3. SentAccounted'
  <2>1. \A j \in Item : sent'[j] <= 1 + unsure'[j]
    BY <1>c DEF SentInv, SentAccounted
  <2>2. \A j \in Item : st'[j] = "completed" => sent'[j] > 0
    BY <1>b, <1>c, <1>e DEF SentInv, SentAccounted, CountInv
  <2>3. st'[i] = "processing" => spent'.api + spent'.crash > 0
    BY <1>a, <1>e, FaultIsTyped
  <2>4. spent.api + spent.crash > 0 => spent'.api + spent'.crash > 0
    BY <1>a, <1>f DEF Used
  <2>5. \A j \in Item \ {i} : st'[j] = "processing" =>
             (\E q \in Poller : item'[q] = j) \/ spent'.api + spent'.crash > 0
    BY <1>b, <1>d, <1>e, <2>4 DEF SentInv, SentAccounted
  <2> QED
    BY <2>1, <2>2, <2>3, <2>5 DEF SentAccounted
<1> QED
  BY <1>1, <1>2, <1>3 DEF SentInv

\* Each step keeps account of the sends: what a poller has in hand is processing,
\* in no other hand, and sent once at most.
LEMMA Sent == TypeOK /\ SentInv /\ [Next]_vars => SentInv'
<1> SUFFICES ASSUME TypeOK, SentInv, [Next]_vars PROVE SentInv'
  OBVIOUS
<1>a. PollType /\ QueueType /\ spent \in Used /\ None \notin Item
  BY TypeParts, Types
<1>b. ASSUME UNCHANGED <<ppc, item, st, sent, unsure, spent>> PROVE SentInv'
  <2>1. spent' \in Used /\ spent'.api + spent'.crash >= spent.api + spent.crash
    BY <1>a, <1>b DEF Used
  <2> QED
    BY <1>b, <2>1, SentFrame
<1>1. CASE DeviceMoves \/ RowMoves
  <2>1. UNCHANGED <<ppc, item, st, sent, unsure>>
    BY <1>1, DevicesKeepPollers DEF poll, queue
  <2>2. spent' \in Used /\ (Change \/ Fault("db") \/ UNCHANGED spent)
    BY <1>1, <1>a, FaultIsTyped, ChangeIsTyped
    DEF DeviceMoves, RowMoves, subscribeToEvent, RestoreOne, RestoreReturns, Pair, PairAgain,
        Register, RegisterOver, publishEvent, Connected, Disconnected, LoggedOut, LogoutDevice,
        GhostEvent, GhostLoggedOut, Stored, Delivered, MarkAllPendingAsFailed, main
  <2>3. spent'.api + spent'.crash >= spent.api + spent.crash
    BY <1>a, <2>2, FaultIsTyped, ChangeIsTyped DEF Used
  <2> QED
    BY <2>1, <2>2, <2>3, SentFrame
<1>2. ASSUME NEW d \in Device, NEW t \in Topics, Handles(t, d),
             startMessageSubscriber(d) \/ stopMessageSubscriber(d)
      PROVE  SentInv'
  <2>1. UNCHANGED <<item, st, sent, unsure, spent>>
    BY <1>2 DEF Handles, startMessageSubscriber, stopMessageSubscriber, poll, queue, main
  <2>2. \A p \in Poller : ppc'[p] = ppc[p] \/ (ppc[p] = "off" /\ ppc'[p] = "wait")
    BY <1>2, <1>a DEF startMessageSubscriber, stopMessageSubscriber, poll, PollType
  <2>3. HoldInv' /\ CountInv'
    BY <2>1, <2>2 DEF SentInv, HoldInv, CountInv
  <2>4. SentAccounted'
    BY <2>1 DEF SentInv, SentAccounted
  <2> QED
    BY <2>3, <2>4 DEF SentInv
<1>3. CASE Starting \/ Stopping
  BY <1>2, <1>3, TopicsAre DEF Starting, Stopping, Starts
<1>4. ASSUME NEW p \in Poller, PollerStep(p) PROVE SentInv'
  <2>1. ASSUME NEW i \in Item, Pull(p, i) PROVE SentInv'
    BY <2>1, PullKeepsCount
  <2>2. CASE Handle(p)
    BY <2>2, HandleKeepsCount
  <2>3. CASE Complete(p)
    BY <2>3, ReportKeepsCount DEF Complete
  <2>4. CASE MarkAsFailed(p)
    BY <2>4, ReportKeepsCount DEF MarkAsFailed
  <2>5. CASE Ends(p)
    <3>1. /\ UNCHANGED <<item, st, sent, unsure, spent>>
          /\ \A q \in Poller : ppc'[q] = ppc[q] \/ (ppc[q] = "wait" /\ ppc'[q] = "off")
      BY <2>5, <1>a DEF Ends, PollType, queue, main
    <3> QED
      BY <3>1 DEF SentInv, HoldInv, CountInv, SentAccounted
  <2> QED
    BY <1>4, <2>1, <2>2, <2>3, <2>4, <2>5 DEF PollerStep
<1>5. CASE StopSubscribers
  BY <1>5, <1>b DEF StopSubscribers, queue
<1>6. CASE StopContext
  BY <1>6, <1>b DEF StopContext, queue, poll
<1>7. CASE Restart
  <2>1. spent' \in Used /\ spent'.api + spent'.crash > 0
    BY <1>7, <1>a, FaultIsTyped DEF Restart
  <2>2. HoldInv' /\ CountInv'
    BY <1>7 DEF Restart, queue, SentInv, HoldInv, CountInv
  <2>3. SentAccounted'
    BY <1>7, <2>1 DEF Restart, queue, SentInv, SentAccounted
  <2> QED
    BY <2>2, <2>3 DEF SentInv
<1>8. CASE UNCHANGED vars
  BY <1>8, <1>b DEF vars, main, poll, queue
<1> QED
  BY <1>1, <1>3, <1>4, <1>5, <1>6, <1>7, <1>8, Moves

\* A message is sent once, and once more for each send that returned an error
\* although it arrived, whatever pollers stop and start, and calls are lost.
THEOREM SendsAreAccounted == Spec => []SentAccounted
<1>1. Init => SentInv
  BY DEF Init, SentInv, HoldInv, CountInv, SentAccounted
<1>2. SentInv => SentAccounted
  BY DEF SentInv
<1> QED
  BY TypedInitially, Typed, Sent, <1>1, <1>2, PTL DEF Spec

-----------------------------------------------------------------------------
(* Rows.  A session that is connected while an event that stops its poller is *)
(* on the bus is stale.                                                      *)

Up(d) == dev[d] \in {"early", "online"}

StopInv ==
    \A d \in Device : Up(d) /\ (\E t \in Topics \ Starts : inbox[t][d] > 0) => d \in stale

\* An event is published with what the device is by then.
LEMMA PublishKeepsStops ==
  ASSUME BusType, StopInv, NEW t \in Topics, NEW d \in Device, Publish(t, d, dev'[d]),
         \A e \in Device \ {d} : dev'[e] = dev[e]
  PROVE  StopInv'
<1>1. ASSUME NEW e \in Device \ {d}, Up(e)', NEW u \in Topics \ Starts, inbox'[u][e] > 0
      PROVE  e \in stale'
  BY <1>1, Published DEF StopInv, Up, BusType
<1>2. ASSUME Up(d)', NEW u \in Topics \ Starts, inbox'[u][d] > 0, d \notin stale'
      PROVE  FALSE
  <2>1. t \in Starts
    BY <1>2, Published DEF Up, Served, BusType
  <2>2. inbox[u][d] > 0
    BY <1>2, <2>1, Published DEF BusType
  <2> QED
    BY <1>2, <2>1, <2>2, Published DEF BusType
<1> QED
  BY <1>1, <1>2 DEF StopInv, Up

\* Nothing is published, and no device comes up.
LEMMA StopFrame ==
  ASSUME StopInv, stale' = stale,
         \A t \in Topics, d \in Device : inbox'[t][d] > 0 => inbox[t][d] > 0,
         \A d \in Device : Up(d)' => Up(d)
  PROVE  StopInv'
BY DEF StopInv

\* Each step keeps a device that is up stale while the bus holds an event that
\* stops its poller.
LEMMA StopsAreStale == TypeOK /\ StopInv /\ [Next]_vars => StopInv'
<1> SUFFICES ASSUME TypeOK, StopInv, [Next]_vars PROVE StopInv'
  OBVIOUS
<1>a. DeviceType /\ BusType
  BY TypeParts
<1>b. UNCHANGED <<dev, bus>> => StopInv'
  BY StopFrame DEF bus, Up
<1>t. {"device.connected", "device.disconnected", "device.logout", "device.restored"}
        \subseteq Topics
  BY TopicsAre
<1>1. ASSUME NEW t \in Topics, subscribeToEvent(t) PROVE StopInv'
  BY <1>1, StopFrame DEF subscribeToEvent, manager, Up
<1>2. ASSUME NEW d \in Device, RestoreOne(d) PROVE StopInv'
  <2>1. CASE dev' = [dev EXCEPT ![d] = "linked"] /\ Publish("device.restored", d, "linked")
    BY <2>1, <1>a, <1>t, PublishKeepsStops DEF DeviceType
  <2>2. CASE dev' = [dev EXCEPT ![d] = "absent"] /\ UNCHANGED bus
    BY <2>2, <1>a, StopFrame DEF DeviceType, Up, bus
  <2> QED
    BY <1>2, <2>1, <2>2 DEF RestoreOne
<1>3. ASSUME RestoreReturns PROVE StopInv'
  BY <1>3, <1>b DEF RestoreReturns, manager
<1>4. ASSUME NEW d \in Device, Pair(d) PROVE StopInv'
  BY <1>4, <1>a, StopFrame DEF Pair, DeviceType, Up, bus
<1>5. ASSUME NEW d \in Device, Register(d) PROVE StopInv'
  BY <1>5, <1>a, StopFrame DEF Register, DeviceType, Up, bus
<1>6. ASSUME NEW d \in Device, NEW t \in Topics, publishEvent(t, d) PROVE StopInv'
  BY <1>6, <1>a, PublishKeepsStops DEF publishEvent
<1>7. ASSUME NEW d \in Device, Connected(d) PROVE StopInv'
  <2> DEFINE to == IF dev[d] = "pairing" THEN "early" ELSE "online"
  <2>1. dev' = [dev EXCEPT ![d] = to] /\ Publish("device.connected", d, to)
    BY <1>7 DEF Connected
  <2> HIDE DEF to
  <2> QED
    BY <2>1, <1>a, <1>t, PublishKeepsStops DEF DeviceType
<1>8. ASSUME NEW d \in Device, Disconnected(d) PROVE StopInv'
  BY <1>8, <1>a, <1>t, PublishKeepsStops DEF Disconnected, DeviceType
<1>9. ASSUME NEW d \in Device, LoggedOut(d) PROVE StopInv'
  BY <1>9, <1>a, StopFrame DEF LoggedOut, DeviceType, Up, bus
<1>10. ASSUME NEW d \in Device, LogoutDevice(d) PROVE StopInv'
  BY <1>10, <1>a, <1>t, PublishKeepsStops DEF LogoutDevice, DeviceType
<1>11. ASSUME NEW d \in Device, NEW t \in Topics, GhostEvent(d, t) PROVE StopInv'
  BY <1>11, <1>a, PublishKeepsStops DEF GhostEvent, manager
<1>21. ASSUME NEW d \in Device, PairAgain(d) PROVE StopInv'
  BY <1>21, <1>b DEF PairAgain
<1>22. ASSUME NEW d \in Device, RegisterOver(d) PROVE StopInv'
  <2>1. \A e \in Device \ {d} : dev'[e] = dev[e]
    BY <1>22, <1>a DEF RegisterOver, DeviceType
  <2> QED
    BY <1>22, <2>1 DEF RegisterOver, StopInv, Up
<1>23. ASSUME NEW d \in Device, GhostLoggedOut(d) PROVE StopInv'
  BY <1>23, <1>a, StopFrame DEF GhostLoggedOut, DeviceType, Up, bus
<1>12. CASE DeviceMoves
  BY <1>12, <1>1, <1>2, <1>3, <1>4, <1>5, <1>6, <1>7, <1>8, <1>9, <1>10, <1>11,
     <1>21, <1>22, <1>23
  DEF DeviceMoves
<1>13. ASSUME NEW d \in Device, NEW t \in Topics, Take(t, d), dev' = dev PROVE StopInv'
  <2>1. \A u \in Topics, e \in Device : inbox'[u][e] > 0 => inbox[u][e] > 0
    BY <1>13, <1>a, Taken DEF BusType
  <2> QED
    BY <1>13, <2>1, StopFrame DEF Take, Up
<1>14. CASE RowMoves
  BY <1>14, <1>b, <1>t, <1>13 DEF RowMoves, Stored, Delivered, MarkAllPendingAsFailed, manager
<1>15. ASSUME NEW t \in Topics, NEW d \in Device, Handles(t, d) PROVE StopInv'
  BY <1>15, <1>b, <1>13 DEF Handles, manager
<1>16. CASE Starting \/ Stopping
  BY <1>15, <1>16, TopicsAre DEF Starting, Stopping, Starts
<1>17. ASSUME NEW p \in Poller, PollerStep(p) PROVE StopInv'
  BY <1>17, <1>b, PollersKeepDevices DEF manager
<1>18. CASE StopSubscribers
  BY <1>18, <1>b DEF StopSubscribers, manager
<1>19. CASE StopContext \/ Restart
  BY <1>19 DEF StopContext, Restart, StopInv
<1>20. CASE UNCHANGED vars
  BY <1>20, <1>b DEF vars, manager
<1> QED
  BY <1>12, <1>14, <1>16, <1>17, <1>18, <1>19, <1>20, Moves

\* Rows are given up in the handling of a logout, and under a session that is
\* connected again only if its events crossed the logout: for any number of
\* devices, sessions and faults.
THEOREM RowsAreGivenUpForCause == Spec => GivenUpForCause
<1>1. Init => StopInv
  BY DEF Init, StopInv, Topics
<1>2. TypeOK /\ StopInv /\ [Next]_vars =>
        [\A d \in Device : d \in backlog \ backlog' =>
            \/ Delivered(d)
            \/ clearing = d /\ (dev[d] \in {"early", "online"} => d \in stale)]_vars
  <2> SUFFICES ASSUME TypeOK, StopInv, [Next]_vars,
                      NEW d \in Device, d \in backlog, d \notin backlog'
               PROVE  \/ Delivered(d)
                      \/ clearing = d /\ (dev[d] \in {"early", "online"} => d \in stale)
    OBVIOUS
  <2>1. CASE RowMoves
    <3>1. ASSUME NEW e \in Device, Stored(e) PROVE FALSE
      BY <3>1 DEF Stored
    <3>2. ASSUME NEW e \in Device, Delivered(e) PROVE Delivered(d)
      <4>1. e = d
        BY <3>2 DEF Delivered
      <4> QED
        BY <3>2, <4>1
    <3>3. ASSUME NEW e \in Device, MarkAllPendingAsFailed(e)
          PROVE  clearing = d /\ (dev[d] \in {"early", "online"} => d \in stale)
      <4>1. e = d /\ clearing = d /\ inbox["device.logout"][d] > 0
        BY <3>3 DEF MarkAllPendingAsFailed, Take
      <4>2. "device.logout" \in Topics \ Starts
        BY DEF Topics, Starts
      <4> QED
        BY <4>1, <4>2 DEF StopInv, Up
    <3> QED
      BY <2>1, <3>1, <3>2, <3>3 DEF RowMoves
  <2>2. CASE DeviceMoves
    <3>1. backlog' = backlog
      BY <2>2 DEF DeviceMoves, subscribeToEvent, RestoreOne, RestoreReturns, Pair, PairAgain,
         Register, RegisterOver, publishEvent, Connected, Disconnected, LoggedOut,
         LogoutDevice, GhostEvent, GhostLoggedOut, rows
    <3> QED
      BY <3>1
  <2>3. CASE Starting \/ Stopping
    BY <2>3 DEF Starting, Stopping, Handles, rows
  <2>4. ASSUME NEW p \in Poller, PollerStep(p) PROVE FALSE
    BY <2>4, PollersKeepDevices DEF rows
  <2>5. CASE StopSubscribers \/ StopContext \/ Restart \/ UNCHANGED vars
    BY <2>5 DEF StopSubscribers, StopContext, Restart, vars, rows
  <2> QED
    BY <2>1, <2>2, <2>3, <2>4, <2>5, Moves
<1> QED
  BY TypedInitially, Typed, StopsAreStale, <1>1, <1>2, PTL DEF Spec, GivenUpForCause

-----------------------------------------------------------------------------
(* The map and the devices.  All events of a device that wait on the bus tell *)
(* what it is, or else it is stale, or another event is about to be published; *)
(* a logout that is being handled has stopped the poller, or an event that    *)
(* will do so is behind it.                                                  *)

Calm(d) ==
    /\ d \notin stale
    /\ \A t \in Topics : <<t, d>> \notin unsent
    /\ phase \in {"restoring", "serving"}

Agree(d) ==
    /\ \A t \in Topics : inbox[t][d] > 0 => (t \in Starts <=> Served(dev[d]))
    /\ (\A t \in Topics : inbox[t][d] = 0) =>
          (messageSubscribers[d] # None <=> Served(dev[d]))

Cleared(d) ==
    clearing = d => \/ messageSubscribers[d] = None
                    \/ inbox["device.logout"][d] > 1
                    \/ inbox["device.disconnected"][d] > 0

ClearInv == clearing # None /\ phase # "stopped" => inbox["device.logout"][clearing] > 0

MatchInv == ClearInv /\ \A d \in Device : Calm(d) => Agree(d) /\ Cleared(d)

\* Nothing is published or handled.
LEMMA MatchFrame ==
  ASSUME MatchInv, UNCHANGED <<inbox, messageSubscribers, clearing>>,
         phase = "stopped" => phase' = "stopped",
         \A d \in Device : Calm(d)' => Calm(d) /\ (Served(dev[d])' <=> Served(dev[d]))
  PROVE  MatchInv'
<1>1. ClearInv'
  BY DEF MatchInv, ClearInv
<1>2. ASSUME NEW d \in Device, Calm(d)' PROVE Agree(d)' /\ Cleared(d)'
  <2>1. Agree(d) /\ Cleared(d) /\ (Served(dev[d])' <=> Served(dev[d]))
    BY <1>2 DEF MatchInv
  <2>2. Agree(d)'
    BY <2>1 DEF Agree
  <2>3. Cleared(d)'
    BY <2>1 DEF Cleared
  <2> QED
    BY <2>2, <2>3
<1> QED
  BY <1>1, <1>2 DEF MatchInv

\* What happens to one device is nothing to the others.
LEMMA MatchOfOthers ==
  ASSUME MatchInv, NEW e \in Device, Calm(e),
         dev'[e] = dev[e], messageSubscribers'[e] = messageSubscribers[e],
         \A t \in Topics : inbox'[t][e] = inbox[t][e],
         clearing' = e => clearing = e
  PROVE  Agree(e)' /\ Cleared(e)'
<1>1. Agree(e) /\ Cleared(e)
  BY DEF MatchInv
<1>2. Agree(e)'
  BY <1>1 DEF Agree, Served
<1>3. Cleared(e)'
  BY <1>1, TopicsAre DEF Cleared
<1> QED
  BY <1>2, <1>3

\* An event is published with what the device is by then.
LEMMA PublishKeepsMatch ==
  ASSUME TypeOK, MatchInv, NEW t \in Topics, NEW d \in Device, Publish(t, d, dev'[d]),
         UNCHANGED <<phase, messageSubscribers, clearing>>,
         \A e \in Device \ {d} : dev'[e] = dev[e],
         \A e \in Device \ {d}, u \in Topics : <<u, e>> \in unsent' <=> <<u, e>> \in unsent
  PROVE  MatchInv'
<1>a. BusType /\ clearing \in Device \cup {None}
  BY TypeParts DEF DeviceType
<1>t. {"device.connected", "device.disconnected", "device.logout", "device.restored"}
        \subseteq Topics
  BY TopicsAre
<1>1. \A u \in Topics, e \in Device : inbox[u][e] \in Nat /\ inbox'[u][e] \in Nat
                                     /\ inbox'[u][e] >= inbox[u][e]
  <2>1. inbox \in Held /\ inbox' \in Held
    BY <1>a, Published DEF BusType
  <2>2. \A u \in Topics, e \in Device : inbox[u][e] \in Nat /\ inbox'[u][e] \in Nat
    BY <2>1 DEF Held
  <2>3. \A u \in Topics, e \in Device : u # t \/ e # d => inbox'[u][e] = inbox[u][e]
    BY <1>a, Published DEF BusType
  <2>4. inbox'[t][d] >= inbox[t][d]
    BY <1>a, Published DEF BusType
  <2> QED
    BY <2>2, <2>3, <2>4
<1>2. ClearInv'
  BY <1>a, <1>t, <1>1 DEF MatchInv, ClearInv
<1>3. ASSUME NEW e \in Device \ {d}, Calm(e)' PROVE Agree(e)' /\ Cleared(e)'
  <2>1. Calm(e)
    BY <1>3, <1>a, Published DEF Calm, BusType
  <2>2. \A u \in Topics : inbox'[u][e] = inbox[u][e]
    BY <1>a, Published DEF BusType
  <2> QED
    BY <2>1, <2>2, MatchOfOthers
<1>4. ASSUME Calm(d)' PROVE Agree(d)' /\ Cleared(d)'
  <2>1. d \notin stale' /\ phase # "stopped"
    BY <1>4 DEF Calm
  <2>2. /\ inbox'[t][d] = inbox[t][d] + 1
        /\ \A u \in Topics : inbox[u][d] > 0 => (u \in Starts <=> t \in Starts)
        /\ Served(dev'[d]) <=> t \in Starts
        /\ \A u \in Topics : u # t => inbox'[u][d] = inbox[u][d]
    BY <1>a, <2>1, Published DEF BusType
  <2>3. \A u \in Topics : inbox'[u][d] > 0 => (u \in Starts <=> t \in Starts)
    BY <2>2
  <2>4. inbox'[t][d] # 0
    BY <1>1, <2>2
  <2>5. Agree(d)'
    BY <2>2, <2>3, <2>4 DEF Agree, Served
  <2>6. Cleared(d)'
    <3> SUFFICES ASSUME clearing = d
                 PROVE  inbox'["device.logout"][d] > 1 \/ inbox'["device.disconnected"][d] > 0
      BY DEF Cleared
    <3>1. inbox["device.logout"][d] > 0
      BY <2>1, Types DEF MatchInv, ClearInv
    <3>2. t \notin Starts
      BY <1>t, <2>2, <3>1, TopicsAre
    <3>3. t \in {"device.logout", "device.disconnected"}
      BY <3>2, TopicsAre
    <3> QED
      BY <1>1, <1>t, <2>2, <3>1, <3>3
  <2> QED
    BY <2>5, <2>6
<1> QED
  BY <1>2, <1>3, <1>4 DEF MatchInv

\* An event is handled.
LEMMA HandlerKeepsMatch ==
  ASSUME TypeOK, MatchInv, NEW t \in Topics, NEW d \in Device, Handles(t, d),
         \A e \in Device \ {d} : messageSubscribers'[e] = messageSubscribers[e],
         messageSubscribers'[d] # None <=> t \in Starts
  PROVE  MatchInv'
<1>a. inbox \in Held /\ clearing \in Device \cup {None} /\ None \notin Device
  BY TypeParts, Types DEF DeviceType, BusType
<1>t. {"device.connected", "device.disconnected", "device.logout", "device.restored"}
        \subseteq Topics
  BY TopicsAre
<1>b. UNCHANGED <<phase, dev, unsent>>
  BY DEF Handles, main, manager
<1>1. CASE t = "device.logout"
  <2>1. clearing' = d /\ inbox[t][d] > 0 /\ UNCHANGED <<inbox, stale>>
    BY <1>1 DEF Handles, bus
  <2>2. t \notin Starts
    BY <1>1, TopicsAre
  <2>3. ClearInv'
    BY <1>1, <2>1 DEF ClearInv
  <2>4. ASSUME NEW e \in Device \ {d}, Calm(e)' PROVE Agree(e)' /\ Cleared(e)'
    <3>1. Calm(e)
      BY <1>b, <2>1, <2>4 DEF Calm
    <3> QED
      BY <1>b, <2>1, <3>1, MatchOfOthers
  <2>5. ASSUME Calm(d)' PROVE Agree(d)' /\ Cleared(d)'
    <3>1. Agree(d)
      BY <1>b, <2>1, <2>5 DEF Calm, MatchInv
    <3>2. inbox[t][d] # 0
      BY <2>1
    <3>3. Agree(d)'
      BY <1>b, <2>1, <3>1, <3>2 DEF Agree, Served
    <3>4. Cleared(d)'
      BY <2>2 DEF Cleared
    <3> QED
      BY <3>3, <3>4
  <2> QED
    BY <2>3, <2>4, <2>5 DEF MatchInv
<1>2. CASE t # "device.logout"
  <2>1. Take(t, d) /\ clearing' = clearing
    BY <1>2 DEF Handles, rows
  <2>2. /\ stale' = stale /\ inbox[t][d] > 0 /\ inbox[t][d] \in Nat
        /\ inbox'[t][d] = inbox[t][d] - 1
        /\ \A u \in Topics, e \in Device : u # t \/ e # d => inbox'[u][e] = inbox[u][e]
    BY <1>a, <2>1, Taken DEF Held
  <2>3. ClearInv'
    BY <1>2, <1>a, <1>b, <1>t, <2>1, <2>2 DEF MatchInv, ClearInv
  <2>4. ASSUME NEW e \in Device \ {d}, Calm(e)' PROVE Agree(e)' /\ Cleared(e)'
    <3>1. Calm(e)
      BY <1>b, <2>2, <2>4 DEF Calm
    <3> QED
      BY <1>b, <2>1, <2>2, <3>1, MatchOfOthers
  <2>5. ASSUME Calm(d)' PROVE Agree(d)' /\ Cleared(d)'
    <3>1. Calm(d)
      BY <1>b, <2>2, <2>5 DEF Calm
    <3>2. Agree(d) /\ Cleared(d)
      BY <3>1 DEF MatchInv
    <3>3. \A u \in Topics : inbox'[u][d] > 0 => inbox[u][d] > 0
      BY <2>2
    <3>4. Served(dev[d]) <=> t \in Starts
      BY <2>2, <3>2 DEF Agree
    <3>5. Agree(d)'
      BY <1>b, <3>2, <3>3, <3>4 DEF Agree, Served
    <3>6. Cleared(d)'
      <4> SUFFICES ASSUME clearing = d PROVE messageSubscribers'[d] = None
        BY <2>1 DEF Cleared
      <4>1. inbox["device.logout"][d] > 0
        BY <1>a, <3>1 DEF MatchInv, ClearInv, Calm
      <4>2. ~Served(dev[d])
        BY <1>t, <3>2, <4>1, TopicsAre DEF Agree
      <4> QED
        BY <3>4, <4>2
    <3> QED
      BY <3>5, <3>6
  <2> QED
    BY <2>3, <2>4, <2>5 DEF MatchInv
<1> QED
  BY <1>1, <1>2

\* The rows of a device that has gone are given up.
LEMMA ClearingKeepsMatch ==
  ASSUME TypeOK, MatchInv, NEW d \in Device, MarkAllPendingAsFailed(d)
  PROVE  MatchInv'
<1>a. inbox \in Held /\ None \notin Device
  BY TypeParts, Types DEF BusType
<1>t. {"device.connected", "device.disconnected", "device.logout", "device.restored"}
        \subseteq Topics
  BY TopicsAre
<1>1. /\ clearing = d /\ clearing' = None /\ Take("device.logout", d)
      /\ UNCHANGED <<phase, dev, unsent, messageSubscribers>>
  BY DEF MarkAllPendingAsFailed, manager, poll
<1>2. /\ stale' = stale
      /\ inbox["device.logout"][d] > 0 /\ inbox["device.logout"][d] \in Nat
      /\ inbox'["device.logout"][d] = inbox["device.logout"][d] - 1
      /\ \A u \in Topics, e \in Device :
            u # "device.logout" \/ e # d => inbox'[u][e] = inbox[u][e]
  BY <1>a, <1>t, <1>1, Taken DEF Held
<1>3. ClearInv'
  BY <1>1 DEF ClearInv
<1>4. ASSUME NEW e \in Device \ {d}, Calm(e)' PROVE Agree(e)' /\ Cleared(e)'
  <2>1. Calm(e)
    BY <1>1, <1>2, <1>4 DEF Calm
  <2> QED
    BY <1>a, <1>1, <1>2, <2>1, MatchOfOthers
<1>5. ASSUME Calm(d)' PROVE Agree(d)' /\ Cleared(d)'
  <2>1. Agree(d) /\ Cleared(d)
    BY <1>1, <1>2, <1>5 DEF Calm, MatchInv
  <2>2. \A u \in Topics : inbox'[u][d] > 0 => inbox[u][d] > 0
    BY <1>2
  <2>3. ~Served(dev[d])
    BY <1>t, <1>2, <2>1, TopicsAre DEF Agree
  <2>4. ASSUME \A u \in Topics : inbox'[u][d] = 0 PROVE messageSubscribers[d] = None
    <3>1. /\ ~(inbox["device.logout"][d] > 1)
          /\ ~(inbox["device.disconnected"][d] > 0)
      <4>1. inbox'["device.logout"][d] = 0
        BY <1>t, <2>4
      <4>2. inbox'["device.disconnected"][d] = 0
        BY <1>t, <2>4
      <4>3. inbox["device.disconnected"][d] = 0
        BY <1>t, <1>2, <4>2
      <4> QED
        BY <1>2, <4>1, <4>3
    <3> QED
      BY <1>1, <2>1, <3>1 DEF Cleared
  <2>5. Agree(d)'
    BY <1>1, <2>1, <2>2, <2>3, <2>4 DEF Agree, Served
  <2>6. Cleared(d)'
    BY <1>a, <1>1 DEF Cleared
  <2> QED
    BY <2>5, <2>6
<1> QED
  BY <1>3, <1>4, <1>5 DEF MatchInv

\* Each step keeps pollers and devices in agreement, but for stale ones.
LEMMA Matches == TypeOK /\ MatchInv /\ [Next]_vars => MatchInv'
<1> SUFFICES ASSUME TypeOK, MatchInv, [Next]_vars PROVE MatchInv'
  OBVIOUS
<1>a. DeviceType /\ BusType /\ PollType /\ None \notin Device \cup Poller
  BY TypeParts, Types
<1>b. UNCHANGED <<phase, dev, unsent, inbox, stale, messageSubscribers, clearing>> => MatchInv'
  BY MatchFrame DEF Calm, Served
<1>t. {"device.connected", "device.disconnected", "device.logout", "device.restored"}
        \subseteq Topics
  BY TopicsAre
<1>1. ASSUME NEW t \in Topics, subscribeToEvent(t) PROVE MatchInv'
  BY <1>1, <1>b DEF subscribeToEvent, main, manager, poll, rows
<1>2. ASSUME NEW d \in Device, RestoreOne(d) PROVE MatchInv'
  <2>1. CASE dev' = [dev EXCEPT ![d] = "linked"] /\ Publish("device.restored", d, "linked")
    BY <1>2, <2>1, <1>a, <1>t, PublishKeepsMatch DEF RestoreOne, DeviceType, main, poll, rows
  <2>2. CASE dev' = [dev EXCEPT ![d] = "absent"] /\ UNCHANGED bus
    <3>1. \A e \in Device : Served(dev[e])' <=> Served(dev[e])
      BY <1>2, <2>2, <1>a DEF RestoreOne, DeviceType, Served
    <3>2. \A e \in Device : Calm(e)' => Calm(e)
      BY <1>2, <2>2 DEF RestoreOne, Calm, main, bus
    <3> QED
      BY <1>2, <2>2, <3>1, <3>2, MatchFrame DEF RestoreOne, main, bus, poll, rows
  <2> QED
    BY <1>2, <2>1, <2>2 DEF RestoreOne
<1>3. ASSUME RestoreReturns PROVE MatchInv'
  <2>1. \A e \in Device : Calm(e)' => Calm(e) /\ (Served(dev[e])' <=> Served(dev[e]))
    BY <1>3 DEF RestoreReturns, Calm, Served, bus, manager
  <2> QED
    BY <1>3, <2>1, MatchFrame DEF RestoreReturns, bus, manager, poll, rows
<1>4. ASSUME NEW d \in Device, Pair(d) PROVE MatchInv'
  <2>1. \A e \in Device : Served(dev[e])' <=> Served(dev[e])
    BY <1>4, <1>a DEF Pair, DeviceType, Served
  <2>2. \A e \in Device : Calm(e)' => Calm(e)
    BY <1>4 DEF Pair, Calm, bus
  <2> QED
    BY <1>4, <2>1, <2>2, MatchFrame DEF Pair, bus, poll, rows
<1>5. ASSUME NEW d \in Device, Register(d) PROVE MatchInv'
  <2>1. \A e \in Device : Calm(e)' => Calm(e) /\ e # d
    BY <1>5, <1>t DEF Register, Calm, main, bus
  <2>2. \A e \in Device \ {d} : Served(dev[e])' <=> Served(dev[e])
    BY <1>5, <1>a DEF Register, DeviceType, Served
  <2> QED
    BY <1>5, <2>1, <2>2, MatchFrame DEF Register, main, bus, poll, rows
<1>6. ASSUME NEW d \in Device, NEW t \in Topics, publishEvent(t, d) PROVE MatchInv'
  <2>1. \A e \in Device \ {d}, u \in Topics : <<u, e>> \in unsent' <=> <<u, e>> \in unsent
    BY <1>6 DEF publishEvent
  <2> QED
    BY <1>6, <2>1, PublishKeepsMatch DEF publishEvent, main, poll, rows
<1>7. ASSUME NEW d \in Device, Connected(d) PROVE MatchInv'
  <2> DEFINE to == IF dev[d] = "pairing" THEN "early" ELSE "online"
  <2>1. dev' = [dev EXCEPT ![d] = to] /\ Publish("device.connected", d, to)
    BY <1>7 DEF Connected
  <2> HIDE DEF to
  <2> QED
    BY <1>7, <2>1, <1>a, <1>t, PublishKeepsMatch DEF Connected, DeviceType, poll, rows
<1>8. ASSUME NEW d \in Device, Disconnected(d) PROVE MatchInv'
  BY <1>8, <1>a, <1>t, PublishKeepsMatch DEF Disconnected, DeviceType, poll, rows
<1>9. ASSUME NEW d \in Device, LoggedOut(d) PROVE MatchInv'
  <2>1. \A e \in Device : Calm(e)' => Calm(e) /\ e # d
    BY <1>9, <1>t DEF LoggedOut, Calm, bus
  <2>2. \A e \in Device \ {d} : Served(dev[e])' <=> Served(dev[e])
    BY <1>9, <1>a DEF LoggedOut, DeviceType, Served
  <2> QED
    BY <1>9, <2>1, <2>2, MatchFrame DEF LoggedOut, bus, poll, rows
<1>10. ASSUME NEW d \in Device, LogoutDevice(d) PROVE MatchInv'
  BY <1>10, <1>a, <1>t, PublishKeepsMatch DEF LogoutDevice, DeviceType, poll, rows
<1>11. ASSUME NEW d \in Device, NEW t \in Topics, GhostEvent(d, t) PROVE MatchInv'
  BY <1>11, PublishKeepsMatch DEF GhostEvent, manager, poll, rows
<1>20. ASSUME NEW d \in Device, PairAgain(d) PROVE MatchInv'
  BY <1>20, <1>b DEF PairAgain, bus, poll, rows
<1>21. ASSUME NEW d \in Device, RegisterOver(d) PROVE MatchInv'
  <2>1. \A e \in Device : Calm(e)' => Calm(e) /\ e # d
    BY <1>21, <1>t DEF RegisterOver, Calm, main
  <2>2. \A e \in Device \ {d} : Served(dev[e])' <=> Served(dev[e])
    BY <1>21, <1>a DEF RegisterOver, DeviceType, Served
  <2> QED
    BY <1>21, <2>1, <2>2, MatchFrame DEF RegisterOver, main, poll, rows
<1>22. ASSUME NEW d \in Device, GhostLoggedOut(d) PROVE MatchInv'
  <2>1. \A e \in Device : Calm(e)' => Calm(e) /\ e # d
    BY <1>22, <1>t DEF GhostLoggedOut, Calm, bus
  <2>2. \A e \in Device \ {d} : Served(dev[e])' <=> Served(dev[e])
    BY <1>22, <1>a DEF GhostLoggedOut, DeviceType, Served
  <2> QED
    BY <1>22, <2>1, <2>2, MatchFrame DEF GhostLoggedOut, bus, poll, rows
<1>12. CASE DeviceMoves
  BY <1>12, <1>1, <1>2, <1>3, <1>4, <1>5, <1>6, <1>7, <1>8, <1>9, <1>10, <1>11,
     <1>20, <1>21, <1>22
  DEF DeviceMoves
<1>13. CASE RowMoves
  <2>1. ASSUME NEW d \in Device, Stored(d) \/ Delivered(d) PROVE MatchInv'
    BY <2>1, <1>b DEF Stored, Delivered, main, bus, manager, poll
  <2> QED
    BY <1>13, <2>1, ClearingKeepsMatch DEF RowMoves
<1>14. CASE Starting
  <2>1. PICK t \in Starts, d \in Device : Handles(t, d) /\ startMessageSubscriber(d)
    BY <1>14 DEF Starting
  <2>2. /\ \A e \in Device \ {d} : messageSubscribers'[e] = messageSubscribers[e]
        /\ messageSubscribers'[d] # None
    BY <2>1, <1>a DEF startMessageSubscriber, poll, PollType
  <2> QED
    BY <2>1, <2>2, TopicsAre, HandlerKeepsMatch DEF Starts
<1>15. CASE Stopping
  <2>1. PICK t \in Topics \ Starts, d \in Device : Handles(t, d) /\ stopMessageSubscriber(d)
    BY <1>15 DEF Stopping
  <2>2. /\ \A e \in Device \ {d} : messageSubscribers'[e] = messageSubscribers[e]
        /\ messageSubscribers'[d] = None
    BY <2>1, <1>a DEF stopMessageSubscriber, PollType
  <2> QED
    BY <2>1, <2>2, HandlerKeepsMatch
<1>16. ASSUME NEW p \in Poller, PollerStep(p) PROVE MatchInv'
  BY <1>16, <1>b, PollersKeepDevices DEF manager, bus, rows
<1>17. CASE StopSubscribers \/ StopContext
  <2>1. \A e \in Device : ~Calm(e)'
    BY <1>17 DEF StopSubscribers, StopContext, Calm
  <2>2. ClearInv'
    BY <1>17 DEF StopSubscribers, StopContext, MatchInv, ClearInv, bus, rows
  <2> QED
    BY <2>1, <2>2 DEF MatchInv
<1>18. CASE Restart
  <2>1. \A e \in Device : ~Served(dev[e])'
    BY <1>18 DEF Restart, Served
  <2>2. /\ \A t \in Topics, d \in Device : inbox'[t][d] = 0
        /\ \A d \in Device : messageSubscribers'[d] = None
        /\ clearing' = None
    BY <1>18 DEF Restart
  <2>3. \A e \in Device : Agree(e)' /\ Cleared(e)'
    BY <2>1, <2>2 DEF Agree, Cleared
  <2> QED
    BY <2>2, <2>3 DEF MatchInv, ClearInv
<1>19. CASE UNCHANGED vars
  BY <1>19, <1>b DEF vars, main, bus, manager, poll, rows
<1> QED
  BY <1>12, <1>13, <1>14, <1>15, <1>16, <1>17, <1>18, <1>19, Moves

\* When the bus is quiet a device has a poller just when it should, unless its
\* latest event was lost, crossed an opposite one, or told of a state already
\* left: for any number of devices, pollers, events and faults.
THEOREM PollersMatchDevices == Spec => []PollerMatchesDevice
<1>1. Init => MatchInv
  <2> SUFFICES ASSUME Init PROVE MatchInv
    OBVIOUS
  <2>1. \A d \in Device : ~Served(dev[d]) /\ messageSubscribers[d] = None
    BY DEF Init, Served
  <2>2. clearing = None /\ \A t \in Topics, d \in Device : inbox[t][d] = 0
    BY DEF Init
  <2> QED
    BY <2>1, <2>2 DEF MatchInv, ClearInv, Agree, Cleared
<1>2. MatchInv => PollerMatchesDevice
  BY DEF MatchInv, PollerMatchesDevice, Settled, Calm, Agree
<1> QED
  BY TypedInitially, Typed, Matches, <1>1, <1>2, PTL DEF Spec

===========================================================================
