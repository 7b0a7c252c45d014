------------------------------ MODULE Requests ------------------------------
(***************************************************************************)
(* Requests of the queue service to connect and to disconnect a channel    *)
(* (qr_handler.go, disconnect_handler.go), and the channel updates that    *)
(* answer them or tell of a connection.                                    *)
(*                                                                         *)
(* Each kind of request has one poller, which handles one at a time.  Both *)
(* call the manager, whose lock CreateDevice holds until whatsmeow has a   *)
(* code for it.  A third goroutine turns device.connected events into      *)
(* updates.                                                                *)
(*                                                                         *)
(* A channel is a number, and the device whose ID is that number is its    *)
(* device: a QR request creates it (FormatInt), and a device.connected     *)
(* event of it is told to the channel (ParseInt).  Other IDs have no       *)
(* channel.  A disconnect request has a channel and a device of its own:   *)
(* the device is logged out, the channel is told.  The devices are those   *)
(* of DeviceManager, with what the requests need; the queue service and    *)
(* whatsmeow are external.                                                 *)
(***************************************************************************)
EXTENDS Naturals, FiniteSets

CONSTANTS
    Device,         \* device IDs
    Channel,        \* those that are numbers
    Request,
    Kind,           \* qr or disconnect: the topic of each request
    Payloads,       \* what the requests may hold: readable JSON or not, the
                    \* channel, the device; None where a field is missing
    None,
    MaxPulls,       \* bound: times the queue service hands out a request
    MaxEvents,      \* bound: things whatsmeow reports and users do
    MaxFaults       \* bound: failing calls of the queue service, crashes

Kinds == {"qr", "disconnect"}

Payload == [readable : BOOLEAN, channel : Channel \cup {None}, device : Device \cup {None}]

ASSUME Types ==
    /\ Channel \subseteq Device
    /\ None \notin Request \cup Device
    /\ Kind \in [Request -> Kinds]
    /\ Payloads \subseteq [Request -> Payload]
    /\ MaxPulls \in Nat /\ MaxEvents \in Nat /\ MaxFaults \in Nat

VARIABLES
    mu,             \* CreateDevice holds m.mu
    reg,            \* devices in the registry
    saved,          \* devices that RestoreDevices will find after a restart
    ghost,          \* devices with a client that outlived its registration
    scannable,      \* codes of each device that can be scanned
    paired,         \* clients of each device about to be registered
    unsent,         \* device.connected events about to be published
    inbox,          \* device.connected events the bus holds
    pc,             \* each poller: idle, create, code, wait, find, logout,
                    \* update, report
    cur,            \* its request
    answer,         \* the update it is about to send
    result,         \* what its handler returns: ok or error
    payload,        \* what each request holds
    st,             \* status of each request in the queue service
    told,           \* the last update the queue service has of each channel
    answers,        \* history: answers to each request that arrived
    pulls,          \* history: times each request was taken
    misled,         \* history: channels that may be told wrong for cause, see
                    \* ToldIsRight
    spent           \* events and faults used up, against the bounds

sessions == <<scannable, paired>>
events   == <<unsent, inbox>>
manager  == <<mu, reg, saved, ghost, sessions>>
poller   == <<pc, cur, answer, result>>
queue    == <<payload, st, answers, pulls>>
tell     == <<told, misled>>
vars     == <<manager, events, poller, queue, tell, spent>>

Event == spent.event < MaxEvents /\ spent' = [spent EXCEPT !.event = @ + 1]

Fault(kind) ==
    /\ spent.update + spent.api + spent.crash < MaxFaults
    /\ spent' = [spent EXCEPT ![kind] = @ + 1]

Init ==
    /\ mu = FALSE
    /\ reg = {} /\ saved = {} /\ ghost = {} /\ misled = {}
    /\ scannable = [d \in Device |-> 0]
    /\ paired = [d \in Device |-> 0]
    /\ unsent = [d \in Device |-> 0]
    /\ inbox = [d \in Device |-> 0]
    /\ pc = [k \in Kinds |-> "idle"]
    /\ cur = [k \in Kinds |-> None]
    /\ answer = [k \in Kinds |-> "none"]
    /\ result = [k \in Kinds |-> "ok"]
    /\ payload \in Payloads
    /\ st = [r \in Request |-> "pending"]
    /\ told = [c \in Channel |-> "none"]
    /\ answers = [r \in Request |-> 0]
    /\ pulls = [r \in Request |-> 0]
    /\ spent = [event |-> 0, update |-> 0, api |-> 0, crash |-> 0]

\* The channel that the request of a poller tells, and the device it is about.
Ch(k)  == IF cur[k] = None THEN None ELSE payload[cur[k]].channel
Dev(k) == IF k = "qr" THEN Ch(k) ELSE payload[cur[k]].device

Busy(k, c) == pc[k] \notin {"idle", "report"} /\ Ch(k) = c

\* Events of the device are on their way to the channel.
Announced(c) == unsent[c] + inbox[c] > 0

\* Nothing is on its way to the channel, and nothing about to be.
Settled(c) ==
    /\ ~Announced(c) /\ paired[c] = 0 /\ c \notin saved
    /\ \A k \in Kinds : ~Busy(k, c)

Excuse(S) == misled' = misled \cup (S \cap Channel)

-----------------------------------------------------------------------------
\* whatsmeow and the users.

Bump(f, d) == [f EXCEPT ![d] = @ + 1]
Drop(f, d) == [f EXCEPT ![d] = @ - 1]

\* A caller of the HTTP gateway creates the device, and shows its first code.
CreateElsewhere(d) ==
    /\ d \notin reg /\ ~mu
    /\ Event
    /\ scannable' = Bump(scannable, d)
    /\ UNCHANGED <<mu, reg, saved, ghost, paired, events, poller, queue, tell>>

\* A code is scanned; the client pairs.
Scan(d) ==
    /\ scannable[d] > 0
    /\ scannable' = Drop(scannable, d)
    /\ paired' = Bump(paired, d)
    /\ UNCHANGED <<mu, reg, saved, ghost, events, poller, queue, tell, spent>>

CodeExpires(d) ==
    /\ scannable[d] > 0
    /\ scannable' = Drop(scannable, d)
    /\ UNCHANGED <<mu, reg, saved, ghost, paired, events, poller, queue, tell, spent>>

\* The goroutine of CreateDevice registers the device, and then publishes.  An
\* earlier client of the ID lives on.  A request in hand may have seen the
\* registry without it.
Register(d) ==
    /\ paired[d] > 0 /\ ~mu
    /\ paired' = Drop(paired, d)
    /\ reg' = reg \cup {d}
    /\ ghost' = ghost \cup (reg \cap {d})
    /\ unsent' = Bump(unsent, d)
    /\ Excuse({c \in {d} : \E k \in Kinds : Busy(k, c)})
    /\ UNCHANGED <<mu, saved, scannable, inbox, poller, queue, told, spent>>

publishEvent(d) ==
    /\ unsent[d] > 0
    /\ unsent' = Drop(unsent, d)
    /\ inbox' = Bump(inbox, d)
    /\ UNCHANGED <<manager, poller, queue, tell, spent>>

\* events.Connected: also of a client that lost its connection for a while, or
\* that is not registered any more.
Connected(d) ==
    /\ d \in reg \cup ghost \/ paired[d] > 0
    /\ Event
    /\ inbox' = Bump(inbox, d)
    /\ Excuse(ghost \cap {d})
    /\ UNCHANGED <<manager, unsent, poller, queue, told>>

\* The phone, or a caller of the HTTP gateway, logs the device out.  Neither
\* sends an update.  A call may leave a client behind.
LoggedOut(d) ==
    /\ d \in reg /\ ~mu
    /\ Event
    /\ reg' = reg \ {d}
    /\ saved' = saved \ {d}
    /\ ghost' \in {ghost, ghost \cup {d}}
    /\ Excuse({d})
    /\ UNCHANGED <<mu, sessions, events, poller, queue, told>>

-----------------------------------------------------------------------------
\* sendChannelUpdate.  An error of Enqueue is only logged, whether or not the
\* update arrived.

\* Does the update agree with the registry?
Right(c, status) == status = "CONNECTED" <=> c \in reg

\* A right update ends what a channel was told wrong before, if nothing else is
\* on its way.
Tell(c, status) ==
    /\ told' = [e \in Channel |-> IF e = c THEN status ELSE told[e]]
    /\ misled' = IF c \in Channel /\ Right(c, status) /\ Settled(c)'
                 THEN misled \ {c} ELSE misled

sendChannelUpdate(c, status) ==
    \/ Tell(c, status) /\ (UNCHANGED spent \/ Fault("update"))
    \/ Fault("update") /\ Excuse({c}) /\ UNCHANGED told

\* A device whose ID is not a number is skipped.
handleDeviceConnectedForQR(d) ==
    /\ inbox[d] > 0
    /\ inbox' = Drop(inbox, d)
    /\ UNCHANGED <<manager, unsent, poller, queue>>
    /\ IF d \in Channel THEN sendChannelUpdate(d, "CONNECTED") ELSE UNCHANGED <<tell, spent>>

-----------------------------------------------------------------------------
\* The pollers (renr-queue/subscriber.go; see Subscribers).

Goto(k, label) == pc' = [pc EXCEPT ![k] = label]

\* JSON, and for a QR request a channel: else the handler returns an error.
Readable(r) == payload[r].readable /\ (Kind[r] = "qr" => payload[r].channel # None)

\* The handler returns without an answer, or goes on to send one.
Return(k, res) ==
    /\ Goto(k, "report")
    /\ result' = [result EXCEPT ![k] = res]
    /\ UNCHANGED answer

Answer(k, status, res) ==
    /\ Goto(k, "update")
    /\ answer' = [answer EXCEPT ![k] = status]
    /\ result' = [result EXCEPT ![k] = res]

\* A request that names no device is refused, whatever its channel is.
Look(k, r) ==
    LET p == payload[r]
    IN  CASE ~Readable(r) -> Return(k, "error") /\ UNCHANGED misled
          [] Readable(r) /\ k = "disconnect" /\ None \in {p.channel, p.device} ->
                Answer(k, "ERROR", "ok") /\ Excuse({p.channel})
          [] OTHER -> /\ Goto(k, IF k = "qr" THEN "create" ELSE "find")
                      /\ UNCHANGED <<answer, result, misled>>

\* The request is pulled, and its payload looked at.
Pull(k, r) ==
    /\ pc[k] = "idle" /\ Kind[r] = k /\ st[r] = "pending"
    /\ st' = [st EXCEPT ![r] = "processing"]
    /\ \/ /\ cur' = [cur EXCEPT ![k] = r]
          /\ pulls' = [pulls EXCEPT ![r] = @ + 1]
          /\ Look(k, r)
          /\ UNCHANGED spent
       \/ Fault("api") /\ UNCHANGED <<poller, pulls, misled>>        \* the reply is lost
    /\ UNCHANGED <<manager, events, payload, told, answers>>

\* Nothing to pull, or a call that does not arrive.
PullNothing(k) == pc[k] = "idle" /\ UNCHANGED vars

\* The code of an update can be scanned once that has arrived, if it is still
\* good.
Update(k) ==
    /\ pc[k] = "update"
    /\ Goto(k, "report")
    /\ \/ answer[k] = "WAITING_INTEGRATION" /\ scannable' = Bump(scannable, Ch(k))
       \/ UNCHANGED scannable
    /\ UNCHANGED <<mu, reg, saved, ghost, paired, events, cur, answer, result, payload, st, pulls>>
    /\ \E c \in {Ch(k)} : sendChannelUpdate(c, answer[k])
    /\ answers' = [answers EXCEPT ![cur[k]] = @ + IF spent' = spent THEN 1 ELSE 0]

Outcomes(k) ==
    IF result[k] = "ok" THEN {"completed"}
    ELSE IF pulls[cur[k]] < MaxPulls THEN {"pending", "failed"} ELSE {"failed"}

\* Complete or MarkAsFailed; the latter leaves a retry, as long as there are any.
Report(k) ==
    /\ pc[k] = "report"
    /\ \/ /\ \E s \in Outcomes(k) : st' = [st EXCEPT ![cur[k]] = s]
          /\ UNCHANGED spent \/ Fault("api")
       \/ Fault("api") /\ UNCHANGED st
    /\ Goto(k, "idle")
    /\ cur' = [cur EXCEPT ![k] = None]
    /\ answer' = [answer EXCEPT ![k] = "none"]
    /\ result' = [result EXCEPT ![k] = "ok"]
    /\ UNCHANGED <<manager, events, payload, tell, answers, pulls>>

-----------------------------------------------------------------------------
\* handleQRRequest.

\* Variant: the registry is not looked at.
CreateDevice_NoCheck ==
    LET c == Ch("qr")
    IN  /\ pc["qr"] = "create" /\ ~mu
        /\ \/ /\ mu' = TRUE /\ Goto("qr", "code")
              /\ UNCHANGED <<answer, result, misled>>
           \/ /\ Answer("qr", "ERROR", "error") /\ UNCHANGED mu
              /\ Excuse({c} \cap (reg \cup saved))
        /\ UNCHANGED <<reg, saved, ghost, sessions, events, cur, queue, told, spent>>

\* Fails at once when the device exists, or has no QR channel or connection.  A
\* request for a device that is there, or will be restored, is refused as well.
CreateDevice ==
    LET c == Ch("qr")
    IN  /\ pc["qr"] = "create" /\ ~mu
        /\ \/ /\ c \notin reg /\ mu' = TRUE /\ Goto("qr", "code")
              /\ UNCHANGED <<answer, result, misled>>
           \/ /\ Answer("qr", "ERROR", "error") /\ UNCHANGED mu
              /\ Excuse({c} \cap (reg \cup saved))
        /\ UNCHANGED <<reg, saved, ghost, sessions, events, cur, queue, told, spent>>

\* A code comes, and CreateDevice or its goroutine receives it.
CreateReturnsCode ==
    /\ pc["qr"] = "code"
    /\ mu' = FALSE
    /\ Answer("qr", "WAITING_INTEGRATION", "ok")
    /\ Excuse({Ch("qr")} \cap saved)
    /\ UNCHANGED <<reg, saved, ghost, sessions, events, cur, queue, told, spent>>

\* Variant: the loop over the QR channel does not end with it.
CreateReturnsNone_Waits ==
    /\ pc["qr"] = "code"
    /\ UNCHANGED vars

\* The QR channel closes, and nobody has received a code.
CreateReturnsNone ==
    /\ pc["qr"] = "code"
    /\ mu' = FALSE
    /\ Goto("qr", "wait")
    /\ UNCHANGED <<reg, saved, ghost, sessions, events, cur, answer, result, queue, tell, spent>>

\* Variant: the timeout is returned, and not told.
Timeout_Silent ==
    /\ pc["qr"] = "wait"
    /\ Return("qr", "error")
    /\ UNCHANGED <<manager, events, cur, queue, tell, spent>>

\* waitForQRCode gives up: whoever could set a code has ended.
Timeout ==
    /\ pc["qr"] = "wait"
    /\ Answer("qr", "ERROR", "error")
    /\ Excuse({Ch("qr")} \cap saved)
    /\ UNCHANGED <<manager, events, cur, queue, told, spent>>

-----------------------------------------------------------------------------
\* handleDisconnectRequest.

\* Variant: a status of its own.
FindDevice_Status ==
    /\ pc["disconnect"] = "find" /\ ~mu
    /\ IF Dev("disconnect") \in reg
       THEN Goto("disconnect", "logout") /\ UNCHANGED <<answer, result>>
       ELSE Answer("disconnect", "NOT_FOUND", "ok")
    /\ UNCHANGED <<manager, events, cur, queue, tell, spent>>

\* Under another name than the channel's, or before it is restored, a device is
\* not found that the channel has.
FindDevice ==
    LET c == Ch("disconnect")
        d == Dev("disconnect")
    IN  /\ pc["disconnect"] = "find" /\ ~mu
        /\ IF d \in reg
           THEN Goto("disconnect", "logout") /\ UNCHANGED <<answer, result, misled>>
           ELSE Answer("disconnect", "ERROR", "ok") /\ Excuse({e \in {c} : e # d \/ e \in saved})
        /\ UNCHANGED <<manager, events, cur, queue, told, spent>>

\* Never fails, also for a device that has gone meanwhile.  The client lives on
\* when its Logout fails.  The channel that is told need not be the device's,
\* and events of the device may be told after its end.
LogoutDevice ==
    LET c == Ch("disconnect")
        d == Dev("disconnect")
    IN  /\ pc["disconnect"] = "logout" /\ ~mu
        /\ reg' = reg \ {d}
        /\ saved' = saved \ (reg \cap {d})
        /\ ghost' \in {ghost, ghost \cup (reg \cap {d})}
        /\ Answer("disconnect", "DISCONNECTED", "ok")
        /\ Excuse({e \in {c, d} : c # d \/ Announced(e)})
        /\ UNCHANGED <<mu, sessions, events, cur, queue, told, spent>>

-----------------------------------------------------------------------------
\* The registry is lost, and with it what was about to be told.  The pollers
\* start before the devices are restored.
Restart ==
    /\ Fault("crash")
    /\ mu' = FALSE
    /\ reg' = {} /\ saved' = saved \cup reg /\ ghost' = {}
    /\ Excuse({c \in Channel : \/ Announced(c) \/ paired[c] > 0
                               \/ \E k \in Kinds : Busy(k, c)})
    /\ scannable' = [d \in Device |-> 0]
    /\ paired' = [d \in Device |-> 0]
    /\ unsent' = [d \in Device |-> 0]
    /\ inbox' = [d \in Device |-> 0]
    /\ pc' = [k \in Kinds |-> "idle"]
    /\ cur' = [k \in Kinds |-> None]
    /\ answer' = [k \in Kinds |-> "none"]
    /\ result' = [k \in Kinds |-> "ok"]
    /\ UNCHANGED <<queue, told>>

\* RestoreDevices, under the lock throughout.  Some devices may not come back;
\* a client that was paired meanwhile lives on.  No update tells of either, and
\* a request in hand may have seen the registry without the device.
RestoreDevices ==
    /\ saved # {} /\ ~mu
    /\ \E gone \in SUBSET saved :
          /\ reg' = reg \cup (saved \ gone)
          /\ ghost' = ghost \cup (reg \cap (saved \ gone))
          /\ Excuse((gone \ reg) \cup {c \in saved : \E k \in Kinds : Busy(k, c)})
    /\ saved' = {}
    /\ UNCHANGED <<mu, sessions, events, poller, queue, told, spent>>

PollerStep(k) ==
    \/ \E r \in Request : Pull(k, r)
    \/ PullNothing(k)
    \/ Update(k)
    \/ Report(k)

QRStep == CreateDevice \/ CreateReturnsCode \/ CreateReturnsNone \/ Timeout

DisconnectStep == FindDevice \/ LogoutDevice

Next ==
    \/ \E d \in Device :
          \/ CreateElsewhere(d) \/ Scan(d) \/ CodeExpires(d) \/ Register(d)
          \/ publishEvent(d) \/ Connected(d) \/ LoggedOut(d)
          \/ handleDeviceConnectedForQR(d)
    \/ \E k \in Kinds : PollerStep(k)
    \/ QRStep
    \/ DisconnectStep
    \/ Restart
    \/ RestoreDevices

Spec == Init /\ [][Next]_vars

\* Goroutines that can run do, the mutex starves no one who waits for it, and a
\* QR channel is closed in the end.  Nobody is assumed to scan, and no code to
\* come.
Fairness ==
    /\ WF_vars(CreateReturnsNone \/ Timeout \/ Update("qr") \/ Report("qr"))
    /\ WF_vars(Update("disconnect") \/ Report("disconnect"))
    /\ SF_vars(CreateDevice) /\ SF_vars(DisconnectStep)

FairSpec == Spec /\ Fairness

-----------------------------------------------------------------------------
\* Properties.

\* Every variable has its type.
TypeOK ==
    /\ mu \in BOOLEAN
    /\ reg \subseteq Device /\ saved \subseteq Device /\ ghost \subseteq Device
    /\ misled \subseteq Channel
    /\ \A f \in {scannable, paired, unsent, inbox} : f \in [Device -> Nat]
    /\ pc \in [Kinds -> {"idle", "create", "code", "wait", "find", "logout",
                         "update", "report"}]
    /\ cur \in [Kinds -> Request \cup {None}]
    /\ answer \in [Kinds -> {"none", "ERROR", "WAITING_INTEGRATION", "DISCONNECTED"}]
    /\ result \in [Kinds -> {"ok", "error"}]
    /\ payload \in Payloads
    /\ st \in [Request -> {"pending", "processing", "completed", "failed"}]
    /\ told \in [Channel -> {"none", "ERROR", "WAITING_INTEGRATION", "CONNECTED",
                             "DISCONNECTED"}]
    /\ answers \in [Request -> Nat] /\ pulls \in [Request -> Nat]
    /\ spent \in [event : Nat, update : Nat, api : Nat, crash : Nat]

\* A request that can be read is completed or given up only after an update has
\* answered it, unless that was lost; and it is answered once per pull.
AnswersAccounted ==
    \A r \in Request :
        /\ answers[r] <= pulls[r]
        /\ st[r] \in {"completed", "failed"} /\ Readable(r)
              => answers[r] > 0 \/ spent.update > 0

\* When nothing is on its way to a channel, its last update is CONNECTED just when
\* its device is registered, unless since then
\*   an update was lost, or forgotten in a crash;
\*   the device was logged out by its phone or over HTTP, or not restored;
\*   a disconnect request named the channel and another device, or none;
\*   a QR request was refused because the device was there;
\*   a device joined or left the registry between the decision on an update and
\*   its end, or between a restart and RestoreDevices;
\*   a client that outlived its registration connected.
\* Each of these marks the channel when it happens, right or wrong.
ToldIsRight ==
    \A c \in Channel : Settled(c) /\ c \notin misled => Right(c, told[c])

\* A request that was taken is settled: the pollers wait for a lock that
\* CreateDevice holds while it waits for whatsmeow, and none waits for ever.
RequestsSettle == \A k \in Kinds : (pc[k] # "idle") ~> (pc[k] = "idle")
=============================================================================
