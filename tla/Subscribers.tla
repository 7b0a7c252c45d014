---------------------------- MODULE Subscribers ----------------------------
(***************************************************************************)
(* The life cycle of the Renr plugin: the bus that carries the events of   *)
(* the devices, the goroutine per topic that starts and stops a poller per *)
(* device (plugin.go, outgoing.go), and the pollers, which take messages   *)
(* from the queue service and send them (renr-queue/subscriber.go).        *)
(*                                                                         *)
(* The bus keeps nothing for a topic nobody subscribes to, and hands the   *)
(* messages of a topic over one at a time, in any order.  The queue        *)
(* service is external: it marks what is pulled as processing, completes   *)
(* it, or makes a failed message pending again while it has retries left.  *)
(* The devices are those of DeviceManager, as far as events tell of them.  *)
(***************************************************************************)
EXTENDS Naturals, FiniteSets

CONSTANTS
    Device,
    Item,           \* messages in the queue service
    RefOf,          \* the device whose ref each has
    Poller,         \* subscribers (renrqueue.Subscriber), reused once ended
    None,
    MaxEvents,      \* bound: changes of the devices
    MaxFaults       \* bound: failing calls of the queue service and the
                    \* database, sends that arrive with an error, crashes

ASSUME Types ==
    /\ None \notin Device \cup Item \cup Poller
    /\ RefOf \in [Item -> Device]
    /\ MaxEvents \in Nat /\ MaxFaults \in Nat

VARIABLES
    phase,          \* main: restoring, serving, stopping, stopped
    dev,            \* each device, see Devices
    ghost,          \* no longer registered or never to be, but the client lives on
    rival,          \* a second client of the ID is paired and will be registered
    unsent,         \* events whose publishEvent is yet to come: topic and device
    subscribed,     \* topics whose goroutine has subscribed
    inbox,          \* events the bus holds for each topic
    messageSubscribers,
    own,            \* device of each poller
    cancelled,      \* its context
    ppc,            \* its position: off, wait, handle, ok, failed
    item,           \* the message it has
    st,             \* status of each message in the queue service
    sent,           \* history: times WhatsApp took it
    unsure,         \* history: of these, times the send returned an error
    backlog,        \* devices with pending rows in renr_queue
    clearing,       \* the logout goroutine: the device whose rows it gives up
    stale,          \* history: see Publish
    spent           \* faults and changes used up, against the bounds

main   == <<phase, spent>>
bus    == <<subscribed, inbox, stale>>
manager == <<dev, ghost, rival, unsent>>
poll   == <<messageSubscribers, own, cancelled, ppc, item>>
queue  == <<st, sent, unsure>>
rows   == <<backlog, clearing>>
vars   == <<main, bus, manager, poll, queue, rows>>

\* absent   no session
\* saved    in the mapping table, to be restored
\* pairing  scanned, not yet registered
\* early    connected, not yet registered
\* linked   registered by its pairing or by RestoreDevices, not yet connected
\* online   registered and connected
\* offline  registered, connection lost
Devices == {"absent", "saved", "pairing", "early", "linked", "online", "offline"}

Registered(d) == dev[d] \in {"linked", "online", "offline"}

Topics == {"device.connected", "device.disconnected", "device.logout", "device.restored"}
Starts == {"device.connected", "device.restored"}

Change == spent.event < MaxEvents /\ spent' = [spent EXCEPT !.event = @ + 1]

Fault(kind) ==
    /\ spent.api + spent.send + spent.db + spent.crash < MaxFaults
    /\ spent' = [spent EXCEPT ![kind] = @ + 1]

Init ==
    /\ phase = "restoring"
    /\ dev \in [Device -> {"absent", "saved"}]
    /\ ghost = {} /\ rival = {} /\ unsent = {}
    /\ subscribed = {}
    /\ inbox = [t \in Topics |-> [d \in Device |-> 0]]
    /\ messageSubscribers = [d \in Device |-> None]
    /\ own = [p \in Poller |-> None]
    /\ cancelled = [p \in Poller |-> FALSE]
    /\ ppc = [p \in Poller |-> "off"]
    /\ item = [p \in Poller |-> None]
    /\ st = [i \in Item |-> "pending"]
    /\ sent = [i \in Item |-> 0]
    /\ unsure = [i \in Item |-> 0]
    /\ backlog = {} /\ clearing = None
    /\ stale = {}
    /\ spent = [event |-> 0, api |-> 0, send |-> 0, db |-> 0, crash |-> 0]

-----------------------------------------------------------------------------
\* The bus.

\* Events of d that start a poller, or that stop one, and are not yet handled.
Undelivered(d, starts) ==
    \E t \in Topics : inbox[t][d] > 0 /\ (t \in Starts <=> starts)

\* Should d have a poller, going by its state?
Served(state) == state \in {"early", "linked", "online"}

\* d is stale when its latest event was lost, may overtake an opposite one, or
\* says what is no longer so.
Publish(t, d, state) ==
    /\ inbox' = IF t \in subscribed THEN [inbox EXCEPT ![t][d] = @ + 1] ELSE inbox
    /\ stale' = IF \/ t \notin subscribed
                   \/ Undelivered(d, t \notin Starts)
                   \/ Served(state) # (t \in Starts)
                THEN stale \cup {d} ELSE stale \ {d}
    /\ UNCHANGED subscribed

\* The goroutine that Start spawned for a topic calls Subscribe.
subscribeToEvent(t) ==
    /\ t \notin subscribed
    /\ phase \in {"restoring", "serving", "stopping"}
    /\ subscribed' = subscribed \cup {t}
    /\ UNCHANGED <<main, inbox, stale, manager, poll, queue, rows>>

\* The event is acknowledged, and leaves the bus, when its handler returns.
Take(t, d) ==
    /\ inbox[t][d] > 0
    /\ inbox' = [inbox EXCEPT ![t][d] = @ - 1]
    /\ UNCHANGED <<subscribed, stale>>

-----------------------------------------------------------------------------
\* The devices.

\* RestoreDevices holds the lock: nothing is registered or logged out meanwhile.
\* A client of a QR request that came before it may pair.
RestoreOne(d) ==
    /\ phase = "restoring"
    /\ dev[d] = "saved"
    /\ \/ dev' = [dev EXCEPT ![d] = "linked"] /\ Publish("device.restored", d, "linked")
       \/ dev' = [dev EXCEPT ![d] = "absent"] /\ UNCHANGED bus     \* no store, no connection
    /\ UNCHANGED <<main, ghost, rival, unsent, poll, queue, rows>>

RestoreReturns ==
    /\ phase = "restoring"
    /\ \A d \in Device : dev[d] # "saved"
    /\ phase' = "serving"
    /\ UNCHANGED <<spent, bus, manager, poll, queue, rows>>

Pair(d) ==
    /\ dev[d] = "absent"
    /\ Change
    /\ dev' = [dev EXCEPT ![d] = "pairing"]
    /\ UNCHANGED <<phase, ghost, rival, unsent, bus, poll, queue, rows>>

\* CreateDevice was called for the ID again before the first client registered.
PairAgain(d) ==
    /\ dev[d] \notin {"absent", "saved"}
    /\ Change
    /\ rival' = rival \cup {d}
    /\ UNCHANGED <<phase, dev, ghost, unsent, bus, poll, queue, rows>>

\* The success branch of the QR goroutine.  It publishes after the unlock.
Register(d) ==
    /\ phase # "restoring"
    /\ dev[d] \in {"pairing", "early"}
    /\ dev' = [dev EXCEPT ![d] = IF @ = "early" THEN "online" ELSE "linked"]
    /\ unsent' = unsent \cup {<<"device.connected", d>>}
    /\ UNCHANGED <<main, ghost, rival, bus, poll, queue, rows>>

\* The same of the second client.  It takes the place of the first, which lives
\* on, or may be registered over it in its turn.  What was published last told of the
\* first.
RegisterOver(d) ==
    /\ phase # "restoring" /\ d \in rival
    /\ \E to \in {"linked", "online"} : dev' = [dev EXCEPT ![d] = to]
    /\ rival' = IF dev[d] \in {"pairing", "early"} THEN rival ELSE rival \ {d}
    /\ ghost' = IF Registered(d) THEN ghost \cup {d} ELSE ghost
    /\ unsent' = unsent \cup {<<"device.connected", d>>}
    /\ stale' = stale \cup {d}
    /\ UNCHANGED <<main, subscribed, inbox, poll, queue, rows>>

publishEvent(t, d) ==
    /\ <<t, d>> \in unsent
    /\ unsent' = unsent \ {<<t, d>>}
    /\ Publish(t, d, dev[d])
    /\ UNCHANGED <<main, dev, ghost, rival, poll, queue, rows>>

\* events.Connected, which may come before the goroutine has the lock.
Connected(d) ==
    /\ dev[d] \in {"pairing", "linked", "offline"}
    /\ Change
    /\ LET to == IF dev[d] = "pairing" THEN "early" ELSE "online"
       IN  dev' = [dev EXCEPT ![d] = to] /\ Publish("device.connected", d, to)
    /\ UNCHANGED <<phase, ghost, rival, unsent, poll, queue, rows>>

\* Also of a client that is not registered yet, or was restored and has not
\* authenticated.
Disconnected(d) ==
    /\ dev[d] \in {"early", "linked", "online"}
    /\ Change
    /\ LET to == IF dev[d] = "early" THEN "pairing" ELSE "offline"
       IN  dev' = [dev EXCEPT ![d] = to] /\ Publish("device.disconnected", d, to)
    /\ UNCHANGED <<phase, ghost, rival, unsent, poll, queue, rows>>

\* events.LoggedOut: the registry first, then the table, then the event.  A client
\* that is still to be registered will be.
LoggedOut(d) ==
    /\ phase # "restoring" /\ dev[d] \in {"pairing", "early", "linked", "online"}
    /\ Change
    /\ dev' = [dev EXCEPT ![d] = IF Registered(d) THEN "absent" ELSE "pairing"]
    /\ unsent' = unsent \cup {<<"device.logout", d>>}
    /\ UNCHANGED <<phase, ghost, rival, bus, poll, queue, rows>>

\* The event is published under the lock.  When the Logout call fails, the
\* client stays connected, with its handler.
LogoutDevice(d) ==
    /\ phase # "restoring" /\ Registered(d)
    /\ Change
    /\ dev' = [dev EXCEPT ![d] = "absent"]
    /\ ghost' \in {ghost, ghost \cup {d}}
    /\ Publish("device.logout", d, "absent")
    /\ UNCHANGED <<phase, rival, unsent, poll, queue, rows>>

\* The handler of such a client still publishes under the ID, and that of the
\* second one does already.
GhostEvent(d, t) ==
    /\ d \in ghost \cup rival /\ t \in {"device.connected", "device.disconnected"}
    /\ Change
    /\ Publish(t, d, dev[d])
    /\ UNCHANGED <<phase, manager, poll, queue, rows>>

\* It deletes whichever client is registered under the ID, which lives on.
GhostLoggedOut(d) ==
    /\ phase # "restoring" /\ d \in ghost \cup rival
    /\ Change
    /\ dev' = [dev EXCEPT ![d] = IF Registered(d) THEN "absent" ELSE @]
    /\ IF Registered(d) THEN ghost' = ghost \cup {d} ELSE ghost' \in {ghost, ghost \ {d}}
    /\ unsent' = unsent \cup {<<"device.logout", d>>}
    /\ UNCHANGED <<phase, rival, bus, poll, queue, rows>>

-----------------------------------------------------------------------------
\* The handlers.  startMessageSubscriber and stopMessageSubscriber hold
\* subscribersMu throughout.

\* Variant: no look for an existing subscriber.
startMessageSubscriber_Twice(d) ==
    \E p \in Poller :
        /\ ppc[p] = "off"
        /\ ppc' = [ppc EXCEPT ![p] = "wait"]
        /\ own' = [own EXCEPT ![p] = d]
        /\ cancelled' = [cancelled EXCEPT ![p] = FALSE]
        /\ messageSubscribers' = [messageSubscribers EXCEPT ![d] = p]
        /\ UNCHANGED item

startMessageSubscriber(d) ==
    \/ messageSubscribers[d] # None /\ UNCHANGED poll
    \/ /\ messageSubscribers[d] = None
       /\ \E p \in Poller :
             /\ ppc[p] = "off"
             /\ ppc' = [ppc EXCEPT ![p] = "wait"]
             /\ own' = [own EXCEPT ![p] = d]
             /\ cancelled' = [cancelled EXCEPT ![p] = FALSE]
             /\ messageSubscribers' = [messageSubscribers EXCEPT ![d] = p]
             /\ UNCHANGED item

stopMessageSubscriber(d) ==
    LET p == messageSubscribers[d]
    IN  /\ cancelled' = IF p = None THEN cancelled ELSE [cancelled EXCEPT ![p] = TRUE]
        /\ messageSubscribers' = [messageSubscribers EXCEPT ![d] = None]
        /\ UNCHANGED <<own, ppc, item>>

handleDeviceConnected(d) ==
    /\ Take("device.connected", d)
    /\ startMessageSubscriber(d)
    /\ UNCHANGED <<main, manager, queue, rows>>

\* Variant: only acknowledged.
handleDeviceRestored_Ignores(d) ==
    /\ Take("device.restored", d)
    /\ UNCHANGED <<main, manager, poll, queue, rows>>

handleDeviceRestored(d) ==
    /\ Take("device.restored", d)
    /\ startMessageSubscriber(d)
    /\ UNCHANGED <<main, manager, queue, rows>>

\* Variant: the rows are given up here as well.
handleDeviceDisconnected_Clears(d) ==
    /\ Take("device.disconnected", d)
    /\ stopMessageSubscriber(d)
    /\ backlog' = backlog \ {d}
    /\ UNCHANGED <<main, manager, queue, clearing>>

handleDeviceDisconnected(d) ==
    /\ Take("device.disconnected", d)
    /\ stopMessageSubscriber(d)
    /\ UNCHANGED <<main, manager, queue, rows>>

\* The poller is stopped first, then the rows are given up.
handleDeviceLogout(d) ==
    /\ clearing = None
    /\ inbox["device.logout"][d] > 0
    /\ stopMessageSubscriber(d)
    /\ clearing' = d
    /\ UNCHANGED <<main, bus, manager, queue, backlog>>

MarkAllPendingAsFailed(d) ==
    /\ clearing = d
    /\ clearing' = None
    /\ Take("device.logout", d)
    /\ \/ backlog' = backlog \ {d} /\ UNCHANGED spent
       \/ Fault("db") /\ UNCHANGED backlog
    /\ UNCHANGED <<phase, manager, poll, queue>>

\* A message is received and stored; the delivery (RenrDelivery) empties the
\* table.
Stored(d) ==
    /\ dev[d] \in {"early", "online"} \/ d \in ghost \cup rival
    /\ backlog' = backlog \cup {d}
    /\ UNCHANGED <<main, bus, manager, poll, queue, clearing>>

Delivered(d) ==
    /\ d \in backlog
    /\ backlog' = backlog \ {d}
    /\ UNCHANGED <<main, bus, manager, poll, queue, clearing>>

-----------------------------------------------------------------------------
\* A poller: Subscriber.start and processNextMessage.

Pending(d) == {i \in Item : st[i] = "pending" /\ RefOf[i] = d}

\* A cancelled poller may tick once more: select chooses among what is ready.
\* Nothing to pull, or a call that never arrives, changes nothing.
Pull(p, i) ==
    /\ ppc[p] = "wait"
    /\ i \in Pending(own[p])
    /\ st' = [st EXCEPT ![i] = "processing"]
    /\ \/ /\ ppc' = [ppc EXCEPT ![p] = "handle"]
          /\ item' = [item EXCEPT ![p] = i]
          /\ UNCHANGED spent
       \/ Fault("api") /\ UNCHANGED <<ppc, item>>        \* the reply is lost
    /\ UNCHANGED <<phase, messageSubscribers, own, cancelled, sent, unsure, bus, manager, rows>>

\* handleOutgoingMessage: the payload, its type or its files may be unusable; a
\* send needs the device registered and connected, and may fail all the same,
\* with or without having arrived.
Handle(p) ==
    LET i == item[p]
    IN  /\ ppc[p] = "handle"
        /\ \/ /\ dev[own[p]] = "online"
              /\ sent' = [sent EXCEPT ![i] = @ + 1]
              /\ \/ /\ ppc' = [ppc EXCEPT ![p] = "ok"]
                    /\ UNCHANGED <<unsure, spent>>
                 \/ /\ Fault("send")
                    /\ unsure' = [unsure EXCEPT ![i] = @ + 1]
                    /\ ppc' = [ppc EXCEPT ![p] = "failed"]
           \/ /\ ppc' = [ppc EXCEPT ![p] = "failed"]
              /\ UNCHANGED <<sent, unsure, spent>>
        /\ UNCHANGED <<phase, messageSubscribers, own, cancelled, item, st, bus, manager, rows>>

\* The call that ends the handling of a message: whether or not it succeeds, the
\* poller goes on.  A call that fails may have been carried out.
Report(p, outcomes) ==
    LET i == item[p]
    IN  /\ \/ /\ \E s \in outcomes : st' = [st EXCEPT ![i] = s]
              /\ spent' = spent \/ Fault("api")
           \/ Fault("api") /\ UNCHANGED st
        /\ ppc' = [ppc EXCEPT ![p] = "wait"]
        /\ item' = [item EXCEPT ![p] = None]
        /\ UNCHANGED <<phase, messageSubscribers, own, cancelled, sent, unsure, bus, manager, rows>>

\* Variant: a Complete that fails is reported as a failure.
Complete_Retried(p) ==
    \/ ppc[p] = "ok" /\ Report(p, {"completed"})
    \/ ppc[p] = "ok" /\ Fault("api") /\ UNCHANGED st
       /\ ppc' = [ppc EXCEPT ![p] = "failed"]
       /\ UNCHANGED <<phase, messageSubscribers, own, cancelled, item, sent, unsure, bus, manager, rows>>

Complete(p) == ppc[p] = "ok" /\ Report(p, {"completed"})

\* Variant: the status of a new retry is taken to be one of its own.
MarkAsFailed_Retry(p) == ppc[p] = "failed" /\ Report(p, {"retry", "failed"})

\* "automatically creates retry if retries available"
MarkAsFailed(p) == ppc[p] = "failed" /\ Report(p, {"pending", "failed"})

Ends(p) ==
    /\ ppc[p] = "wait" /\ cancelled[p]
    /\ ppc' = [ppc EXCEPT ![p] = "off"]
    /\ UNCHANGED <<main, messageSubscribers, own, cancelled, item, bus, manager, queue, rows>>

-----------------------------------------------------------------------------
\* Stop and restart.

\* Stop: the subscribers, and then the context.
StopSubscribers ==
    /\ phase = "serving"
    /\ phase' = "stopping"
    /\ cancelled' = [p \in Poller |->
                       cancelled[p] \/ \E d \in Device : messageSubscribers[d] = p]
    /\ messageSubscribers' = [d \in Device |-> None]
    /\ UNCHANGED <<spent, own, ppc, item, bus, manager, queue, rows>>

StopContext ==
    /\ phase = "stopping"
    /\ phase' = "stopped"
    /\ subscribed' = {}
    /\ inbox' = [t \in Topics |-> [d \in Device |-> 0]]
    /\ UNCHANGED <<spent, stale, manager, poll, queue, rows>>

\* The process ends, by Stop or without it, and starts again.  The queue
\* service and the tables remain, and the row of a client that lives on may be in
\* the mapping table.
Restart ==
    /\ Fault("crash")
    /\ phase' = "restoring"
    /\ \E left \in SUBSET (ghost \cup rival) :
          dev' = [d \in Device |-> IF Registered(d) \/ dev[d] = "saved" \/ d \in left
                                  THEN "saved" ELSE "absent"]
    /\ ghost' = {} /\ rival' = {} /\ unsent' = {}
    /\ subscribed' = {}
    /\ inbox' = [t \in Topics |-> [d \in Device |-> 0]]
    /\ messageSubscribers' = [d \in Device |-> None]
    /\ own' = [p \in Poller |-> None]
    /\ cancelled' = [p \in Poller |-> FALSE]
    /\ ppc' = [p \in Poller |-> "off"]
    /\ item' = [p \in Poller |-> None]
    /\ clearing' = None
    /\ stale' = {}
    /\ UNCHANGED <<queue, backlog>>

-----------------------------------------------------------------------------
PollerStep(p) ==
    (\E i \in Item : Pull(p, i)) \/ Handle(p) \/ Complete(p) \/ MarkAsFailed(p) \/ Ends(p)

HandlerStep(d) ==
    \/ handleDeviceConnected(d) \/ handleDeviceRestored(d)
    \/ handleDeviceDisconnected(d) \/ handleDeviceLogout(d)

DeviceStep(d) ==
    \/ RestoreOne(d) \/ Pair(d) \/ PairAgain(d) \/ Register(d) \/ RegisterOver(d)
    \/ \E t \in Topics : publishEvent(t, d)
    \/ Connected(d) \/ Disconnected(d) \/ LoggedOut(d) \/ LogoutDevice(d)
    \/ (\E t \in Topics : GhostEvent(d, t)) \/ GhostLoggedOut(d)
    \/ Stored(d) \/ Delivered(d)

Next ==
    \/ \E t \in Topics : subscribeToEvent(t)
    \/ \E d \in Device : DeviceStep(d)
    \/ RestoreReturns
    \/ \E d \in Device : HandlerStep(d)
    \/ \E d \in Device : MarkAllPendingAsFailed(d)
    \/ \E p \in Poller : PollerStep(p)
    \/ StopSubscribers
    \/ StopContext
    \/ Restart

Spec == Init /\ [][Next]_vars

-----------------------------------------------------------------------------
\* Properties.

\* Every variable has its type.
TypeOK ==
    /\ phase \in {"restoring", "serving", "stopping", "stopped"}
    /\ dev \in [Device -> Devices]
    /\ ghost \subseteq Device /\ rival \subseteq Device
    /\ unsent \subseteq Topics \X Device
    /\ subscribed \subseteq Topics
    /\ inbox \in [Topics -> [Device -> Nat]]
    /\ messageSubscribers \in [Device -> Poller \cup {None}]
    /\ own \in [Poller -> Device \cup {None}]
    /\ cancelled \in [Poller -> BOOLEAN]
    /\ ppc \in [Poller -> {"off", "wait", "handle", "ok", "failed"}]
    /\ item \in [Poller -> Item \cup {None}]
    /\ st \in [Item -> {"pending", "processing", "completed", "failed"}]
    /\ sent \in [Item -> Nat] /\ unsure \in [Item -> Nat]
    /\ backlog \subseteq Device /\ clearing \in Device \cup {None}
    /\ stale \subseteq Device
    /\ spent \in [event : Nat, api : Nat, send : Nat, db : Nat, crash : Nat]

\* No poller escapes: each one that was not cancelled is in the map under its
\* device, and so is the only one; what the map holds is running.  Two topics
\* may start a poller for the same device at once.
RunningIsRegistered ==
    /\ \A p \in Poller :
          ppc[p] # "off" /\ ~cancelled[p] => messageSubscribers[own[p]] = p
    /\ \A d \in Device : LET p == messageSubscribers[d] IN
          p # None => own[p] = d /\ ppc[p] # "off" /\ ~cancelled[p]

\* A message is sent once, and once more for each send that returned an error
\* although it arrived: a stopped poller that goes on beside a new one, lost
\* answers of the queue service and restarts add none.  What is completed was
\* sent, and what stays in processing is in hand, but for a lost call or a crash.
SentAccounted ==
    \A i \in Item :
        /\ sent[i] <= 1 + unsure[i]
        /\ st[i] = "completed" => sent[i] > 0
        /\ st[i] = "processing" =>
              \/ \E p \in Poller : item[p] = i
              \/ spent.api + spent.crash > 0

\* No event of d is on its way.
Settled(d) ==
    /\ phase = "serving"
    /\ \A t \in Topics : inbox[t][d] = 0 /\ <<t, d>> \notin unsent

\* When the bus is quiet, a device that is connected has a poller, and one that
\* is gone or disconnected has none; unless its latest event was lost before the
\* subscription, crossed an opposite one, or told of a state already left.
PollerMatchesDevice ==
    \A d \in Device : Settled(d) /\ d \notin stale =>
        ((messageSubscribers[d] # None) <=> Served(dev[d]))

\* Rows are given up in the handling of a logout, and not under a session that
\* is connected again by then, unless its events crossed the logout.
GivenUpForCause ==
    [][\A d \in Device : d \in backlog \ backlog' =>
          \/ Delivered(d)
          \/ clearing = d /\ (dev[d] \in {"early", "online"} => d \in stale)]_vars
=============================================================================
