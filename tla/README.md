# Verification of just-whatsapi

TLA+ modules, TLC runs and TLAPS proofs kept beside the WhatsApp gateway in
`src/`. The modules follow the Go code, not its documents; where a document or a
comment promises something else, a run shows the difference, or this file says it.

## 1. Inventory

The program is one Go process. It keeps several WhatsApp sessions ("devices")
through the library whatsmeow, offers an HTTP API, publishes what happens on an
in-process event bus, and has two plugins on that bus: one that exchanges
messages with a remote queue service (Renr), and one that posts every event to a
webhook.

| Component | State | Operations | Interacts through |
|---|---|---|---|
| Device manager (`core/whatsapp/manager.go`, `device_db.go`) | `devices` under `mu`, the mapping table device ID to phone number, whatsmeow's session store | CreateDevice with its QR goroutine, LogoutDevice, the event handler of each client, RestoreDevices, GetClient, Send*, Close | publishes on the bus; called by the HTTP gateway and by the Renr plugin |
| Message cache and reply context (`message_cache.go`, `reply_context.go`) | `entries`, `order` under a lock | Put, Get, buildOutgoingContextInfo | filled by the event handler and by successful sends, read by every Send method |
| Message classification (`manager.go`, `context_info.go`, `events.go`) | none | extractMessagePayload, handleHistorySync | pure, apart from contact lookups |
| Event bus (`core/event/event.go`) | subscriptions | Publish, Subscribe | a goroutine per topic in each plugin; no persistence, no order between topics |
| Renr delivery (`plugins/renr/database.go`, `delivery.go`) | the SQLite table `renr_queue`, `processingDevices` | Enqueue, ticker, processDevice, cleanup, logout cleanup, Stop | filled by the incoming handlers, empties into the queue API |
| Incoming pipeline (`incoming.go`, `read_receipt.go`) | none | handleIncomingMessage, handleMessageRead, handleHistorySynced | bus to Enqueue, or to the queue API when that fails |
| Renr life cycle and outgoing subscribers (`plugin.go`, `outgoing.go`, `renr-queue/`) | `messageSubscribers` under `subscribersMu`, a poller per device | start and stop of pollers, Pull, handler, Complete or MarkAsFailed | bus events, the queue API, the manager's Send methods |
| QR and disconnect requests (`qr_handler.go`, `disconnect_handler.go`) | two pollers | CreateDevice and LogoutDevice on request | queue API, manager |
| Webhook plugin (`plugins/webhook/`) | the SQLite table `webhook_queue` | Enqueue, one worker, cleanup, store-only mode | bus, HTTP POST, S3 |
| Media and avatars (`media.go`, `s3.go`) | avatar cache of one hour | getAvatarURL, UploadFile | network |
| HTTP gateway (`core/gateway/http/server.go`) | none | one manager call per route | manager |
| Start (`main.go`) | none | construction in order, then Listen for ever | everything |

`main` blocks in `Listen` and leaves it through `log.Fatalf` or a signal, so the
deferred `Stop` and `Close` calls hardly ever run: a shutdown is a crash. The
models treat both.

### What is hard

- several goroutines per device against one table, with a lock in memory and a
  status in the table that survive different things;
- a crash, an SQL error or a lost HTTP reply between any two steps;
- a logout or the cleanup while a row is in flight;
- the retry delays: order between rows, growth of the shift, starvation;
- a bounded cache with two structures that must agree, and entries that are
  replaced, evicted or expired between a message and the reply to it;
- event handlers bound to a device ID that outlive the device, one topic per
  event with no order between topics, subscriptions made by goroutines while
  events are already published.

### What makes each component correct

- *Renr delivery*: a persisted message is kept until the API took it; one
  goroutine per device; at most one acceptance per insertion and lost reply;
  first attempts in order; a retry never before its time, and every due row
  attempted in the end.
- *Message cache*: FIFO eviction at the capacity, never early; a reply quotes
  the newest version of the right message or nothing; quotes do not nest; the
  sender named is the right one in the right addressing mode.
- *Device manager*: a device ID names one session; the registry, the mapping
  table and the session store agree up to the steps between them; what was
  paired is restored.
- *Life cycle*: in a quiet system there is one poller per connected device, and
  none for others; a queue message is sent at most once per pull.
- *Webhook*: every stored event with a URL is posted within its day or
  recorded as failed; the worker is not starved by rows it cannot post.
- *Incoming*: every event that converts reaches the table or the API, once.

`PROJECT.json` lists the hazards at their lines.

## 2. Modules

| Module | Models | Checked by | Proved in |
|---|---|---|---|
| `Outbox` | abstract: what is stored is kept until it was handed over, each time it is stored | `OutboxSpec` of `renr_safety` and of `incoming` | `RenrDelivery_proofs`, `Incoming_proofs` |
| `RetryDelay` | the delay that both `MarkFailed` compute | the runs of the two modules that extend it | `RetryDelay_proofs` |
| `RenrDelivery` | `renr/database.go`, `renr/delivery.go`, Stop, logout | `MCRenrDelivery`, 4 runs | `RenrDelivery_proofs` |
| `MessageCache` | `message_cache.go`, `reply_context.go` and their callers | `MCMessageCache`, 1 run | `MessageCache_proofs` |
| `DeviceManager` | the registry in `manager.go`, `device_db.go` | `MCDeviceManager`, 2 runs | `DeviceManager_proofs` |
| `WebhookDelivery` | `webhook/database.go`, `delivery.go`, the handler in `subscriber.go` | `MCWebhookDelivery`, 2 runs | `WebhookDelivery_proofs` |
| `Subscribers` | the event bus, `renr/plugin.go`, `outgoing.go`, `renr-queue/`, the events of the devices, the order of start in `main.go` | `MCSubscribers`, 1 run | `Subscribers_proofs` |
| `Requests` | `qr_handler.go`, `disconnect_handler.go`, and the manager's part in them | `MCRequests`, 1 run | `Requests_proofs` |
| `Incoming` | `incoming.go`, `read_receipt.go`, `media.go` of the Renr plugin, the classification in `manager.go` and `context_info.go` | `MCIncoming`, 1 run | `Incoming_proofs` |

The modules are not composed into one state machine. Where one needs another, it
has the outside of it, no stronger than the other shows it to be: `Subscribers`
and `Requests` see devices that register, connect and leave, `Subscribers` also
two clients of one ID (`DeviceManager`); `RenrDelivery` and `WebhookDelivery` see
events that come at any time. `Incoming` and `RenrDelivery` meet in `Outbox`:
`Incoming` has the table by key, with the bodies and without the goroutines that
empty it, `RenrDelivery` has the goroutines without the bodies, and both are
shown to implement the same outbox.

In each module, operators whose names end in `_Something` and whose comment
begins with "Variant" are plausible mistakes; the specification does not use
them. Putting one in the place of the definition it varies breaks the property
`PROJECT.json` pairs it with.

### RenrDelivery

*State.* `row` is the table, a row per `(device_id, message_id)` with status,
attempts, created_at, next_retry and id; `held` is `processingDevices`; `pc`,
`dev`, `msg`, `att` are the local state of each processDevice goroutine;
`toSpawn` what processPending has still to start; `cancelled`, `dbOpen`,
`looping` the states of the context, the database and the ticker goroutine.
`accepts`, `lost`, `inserts` and `handed` are history: what the API saw, what the
table was given, and what the API accepted since it was inserted last. `spent`
counts the faults against their bounds.

*Steps.* Every SQL statement is a step of its own and so is the POST, because
SQLite serialises statements and the service uses no transactions: MarkFailed
is a read and a write. A statement may fail, once the database is closed it
always fails, and each error leads where the code leads. The POST returns a
success, an error, or an error although the API took the message. Restart keeps
the table and loses everything else. The API is external: it accepts whatever it
is sent.

*Runs.* `renr_safety` has two messages of one device and two goroutines, the
least for a lock to be contended and an order to be broken, with one SQL error,
one API error and one crash or stop; a message may be inserted twice, so that
what was handed over the first time is no excuse for the second; time goes far
enough for one retry and the cleanup (TTL 1, two ticks). Worker symmetry is
sound: no property names a worker. `renr_retry` has one message and time for five
errors, so the delay passes its cap (`MaxBackoff` 2), then leaves its width
(`Width` 3), and the row can be inserted again; it is there for
`AttemptsCostTime` alone. `renr_live` checks liveness under `Fairness`.
`renr_stranded` expects a violation. Proofs cover more devices, messages and
faults than these.

*The lock.* `LockExclusive` says that two goroutines never serve one device, that
who is past the lock holds it, and that it is never leaked: a device in
`processingDevices` has a goroutine that will take it out again.

*The delay* (`RetryDelay`). MarkFailed shifts a Go `int` and caps the result at
1440 minutes. The comment at `database.go:190` has the delays go on at the cap;
they do until the 64th attempt, whose shift, `1 << 63`, is negative, passes the
cap, and becomes no delay at all: from there on the row is due again at once.
`Shift` models this, with `Width` for 63. `AttemptsCostTime` says when it can
happen: not before the row has failed for as long as the first 63 delays, which
is 53 days, and until then every attempt has cost all the delays before it. The
webhook's age limit of a day keeps its rows out of reach (`AgeLimit`).

*Fairness.* The Go scheduler runs goroutines that can run
(`WF` of each worker's step and of the spawning), the ticker fires again (`WF`
of ProcessPending), and a stopped process is started again by its supervisor
(`WF` of a restart after a stop). Nothing is assumed of the clock, of the API,
or of crashes.

*What the code does not keep.* `renr_stranded`: a row in flight at a crash stays
in processing for ever. `StrandedOnlyByFault` shows that only a fault does this.

Divergences without a run: `RENR_QUEUE_PERSISTENCE.md:204` promises order per
device, but a row in backoff is overtaken (`database.go:96`); what holds is
`FirstAttemptsInOrder`. A row given up by the cleanup or the logout is a
"permanent failure" for `database.go:217`, but the goroutine that holds it sends
it, and puts it back to pending (`database.go:161`, `200`; `RevivedOnlyInHand`
shows that nothing else revives it). An error that `isRetryableError` rejects is
retried like any other (`delivery.go:276`), although its log line says permanent
failure. `MaxRetryDelay` is read from the configuration and not used. The
uniqueness of `(device_id, message_id)` ends when the row is deleted.

### MessageCache

*State.* `entries` and `order` are the code's; `reply` is what a call of a Send
method has built and not yet sent, between `buildOutgoingContextInfo` and
`SendMessage`, where other goroutines run. `newer` and `latest` are history:
how many keys were inserted after a key, and what was put last under it. They
state, independently of `order`, when a message must be cached.

*Data.* A message is its body, how many quotes are nested in it, and whether its
kind is one of the eleven that `trimForQuote` lists. A JID is whom it names and
its server. `Mapped` are the persons whose other JID `GetAltJID` (whatsmeow,
external) finds. Unusable participants (unparsable, no user part) are `NoJid`,
as the code falls back for them. Calls with an empty message id, and forwards
that quote nothing, do not touch this state.

*Run.* `message_cache` has three keys and a capacity of two, so that every
insertion may evict; a user chat addressed by LID whose contact is mapped, and
a group; a received message of a listed kind with a nested quote of depth 2 and
one of an unlisted kind of depth 1; a lifetime of one and three instants, so
that entries expire while they are held.

Finding without a run: `message_cache.go:130` says trimForQuote strips "any
nested quoted message"; kinds it does not list keep theirs. `NoQuotePileUp`
says exactly this much.

### DeviceManager

*State.* `mu` is `m.mu` with its holder, `devices` the registry, `mapping` the
table. A client stands for the session it is created for or restored from:
`sess` says whether it waits for its QR code, is in whatsmeow's store, or is
gone, and `phone` whose account it is. `qr` is the QR channel with its buffer,
`gpc` the goroutine that CreateDevice starts, `name` the ID it works for.
`attached` are the event handlers, bound to an ID and a client for as long as
the process lives; `hpc` is where each is in its LoggedOut branch, which updates
the table after the unlock. `chosen` and `todo` are local to RestoreDevices.
`shared` and `saved` are history.

*Steps.* CreateDevice keeps the lock until its first code or the end of the
channel, and its goroutine receives from the same channel. Register and
SaveMapping are two steps, as are the two halves of the LoggedOut branch.
LogoutDevice and RestoreDevices hold the lock throughout, but the sessions they
work on may be logged out between their steps, and a handler may still delete a
row. A crash leaves the table and the paired sessions; after it, the Renr
pollers may create devices before RestoreDevices runs, as in `main.go`.

*Runs.* `devices` has two sessions, two IDs and two accounts, one SQL error, one
network error and one crash, with channels of two codes, so that the goroutine
can take the code CreateDevice waits for. Sessions and accounts are symmetric:
no property names one. `devices_live` has one ID and one account, which is
where sessions meet, and no faults but a crash.

*What holds and what does not.* An ID that has one client at a time is safe:
its registry entry and its row agree, and it is restored. The code does not
make an ID have one client at a time: CreateDevice looks for the ID in the
registry alone, where a device that waits for its pairing is not yet, and a
LoggedOut handler outlives its device. The properties therefore except such IDs
(`shared`).

Divergences without a run: the ID generated for a caller that names none
(`manager.go:818` says "a new unique ID will be generated", `manager.go:825`
takes the number of devices plus one) may be taken, after a logout; the call
then fails. Sessions are restored by account number (`manager.go:1090`), so a
device may come back with another session of the same account.

*Fairness.* As above; besides, Go's mutex starves nobody (`SF` of Register and
HandlerUnregisters), calls of whatsmeow return, and a QR channel that is not
paired closes when its last code expires. Nobody is assumed to scan a code or
to log out.

*Left out.* Events, which change nothing in the manager and are in `Subscribers`,
`Requests` and `Incoming`; GetDevice, GetClient
and GetGroupInfo, which only read; the status `connected`, which is set before
the device is registered and never leaves it.

### WebhookDelivery

*State.* `row` is the table, a row per event with status, whether it was stored
with a URL, attempts, created_at and next_retry. `batch` is what GetPending
returned, as far as the worker has not handled it, with the row in hand first;
`pc` is where the worker is in processPending, deliver and MarkFailed; `att`
what MarkFailed has read. `hasUrl` is the configuration of this start. `accepts`
and `lost` are history: what the receiver took, and which of its answers were
lost; `stored` are the events that were given a row. `spent` counts the faults
against their bounds.

*Steps.* As in RenrDelivery, every statement and the POST is a step, statements
may fail, and the receiver may take an event whose POST fails. Handlers insert
between any two of them. A restart keeps the table, and may add or take away the
URL, so that the table holds rows of both kinds. Stop is left out because
nothing calls it. One unit of time is a minute; events that arrive in the same
one are not ordered, as `ORDER BY created_at` leaves them.

*Runs.* `webhook` has two events and batches of two, so that a batch has a row
to go on to when the first is skipped or fails. A row is tried until the age of
2 and removed after 3, and the clock goes to 4; three POSTs may fail, which is
one more than fit into the age limit; one statement may fail; two restarts allow
a phase with a URL, one without and one with again. LIMIT never cuts a batch
there: the starvation that the proviso of `DueIsAttempted` names needs more rows than a batch holds. With `Limit = 1` in the same cfg a row
without a URL fills the batch; `DueIsAttempted` still holds, and TLC finds the
starved row when the proviso is taken away.

*What holds and what does not.* `RetriesEnd` is the bound that the age limit and
the doubling delay give together: with the code's 1440 minutes the eleventh
attempt is the last and its delay is 1024 minutes, so the documented maximum of
24 hours (`README.md:118` of the plugin) is never reached. `DueIsAttempted` has
a proviso: rows stored without a URL are skipped and stay pending for a day, so
ten of them that are as old as a row keep it from being sent.
`webhook_cleanup` expects a violation: `CleanupOld` (`database.go:202`) spares
rows in pending and processing, so in store-only mode, where
`delivery.go:73` calls it for its only effect, it removes nothing.

*Fairness.* The worker runs when it can and its ticker fires again.

*Left out.* The upload of media before the insertion. It cannot happen: Enqueue
gets the event wrapped in `device_id` and `payload` (`subscriber.go:102`), and
looks for `message` at the top (`delivery.go:248`).

### Subscribers

*State.* `dev` is what events tell of a device: `Devices` lists the seven states,
from one to be restored to one whose connection is lost. An ID may have more
clients than the one that is registered: `rival` are IDs of which a second client
was paired before the first was registered, and will be registered over it;
`ghost` are IDs with a client that lives on unregistered, with its handler,
because LogoutDevice went on when its Logout failed (`manager.go:1009`), because
another was registered over it, or because another's handler deleted it
(`manager.go:762`). `unsent` are events whose `publishEvent`
comes after an unlock. `subscribed` and `inbox` are the bus. A poller has its
device (`own`), its context (`cancelled`), its place in `processNextMessage`
(`ppc`) and the message it has (`item`); `messageSubscribers` is the plugin's
map. `st` is the queue service's status of each message, `sent` and `unsure` what
WhatsApp took, and what of it came with an error. `backlog` and `clearing` are
the rows of `renr_queue` and the handler that gives them up. `stale` is history:
the devices whose latest event was lost, may overtake an opposite one, or tells
of what is no longer so.

*Steps.* `main` starts the plugins, whose goroutines subscribe some time later,
then restores the devices, then serves; Stop cancels the pollers and then the
context, and `Restart` keeps the tables and the service. watermill's GoChannel
keeps no event for a topic without a subscriber and gives a goroutine per event
to what it delivers, so events of a topic are held as a bag and handled one at a
time. The handlers hold `subscribersMu` and are steps, but for the logout, which
stops the poller and then gives up the rows. A cancelled poller may take one more
message, as `select` chooses among what is ready. Every call of the queue
service may be lost on its way or on its way back. External: `MarkAsFailed`
makes the message pending again or gives it up, and whatsmeow takes a message
only from a connected device.

*Run.* `subscribers` has one device and one message, which is where events,
pollers and sends meet, two pollers, so that one that was stopped goes on beside
a new one, three changes of the device (pair, connect, leave; or come back; or
pair twice) and one fault. Pollers are symmetric: no property names one. Deadlock is not
checked, because a stopped process and a device that has used up its changes
stop. More devices are independent but for the faults they share; the proofs
have any number.

*What holds and what does not.* `PollerMatchesDevice` needs its exception.
RestoreDevices (`main.go:98`) publishes while the goroutines that the plugin
started may not have subscribed, although `main.go:78` has it "so subscribers
are ready"; such a device has no poller until it connects again. A connect and a
disconnect that follow each other closely are handled by two goroutines in any
order, a client that outlived its logout starts a poller for a device that is
gone, and the first of two clients of one ID stops the poller of the second when
it loses its connection. Outside those cases the map is right whenever the bus is quiet.
`SentAccounted` allows one send, and one more for each send that arrived and
returned an error: the service's retry repeats it, and the user gets the message
twice.

*Left out.* What a handler still does after Stop has cancelled its context: the
model ends it there, the code lets it run to its end while the process ends. A
logout that an offline client learns of when it connects again is a `Connected`
and a `LoggedOut`.

### Requests

*State.* `mu` is the manager's lock as CreateDevice holds it, `reg` the registry,
`saved` what RestoreDevices will find after a restart, `ghost` the devices with a
client that outlived its registration, `scannable` and `paired` the codes and
clients under way, `unsent` and `inbox` the `device.connected` events. Each of the
two pollers has its place (`pc`), its request (`cur`), the update it will send
(`answer`) and the result of its handler (`result`). `told` is the last update the
queue service has of a channel, `misled` (history) the channels that may have been
told wrong for cause.

A channel is a number; its device is the one whose ID is that number in decimal.
QR requests and `device.connected` events go from the one to the other
(`qr_handler.go:52`, `:135`). A disconnect request does not: `payload` gives it a
channel, which is told (`disconnect_handler.go:139`), and a device of its own,
the `reference`, which is looked up and logged out (`:77`, `:88`, `:116`). Nothing
in the code relates the two, and the model has requests where they agree, differ,
or are missing, and a device that is no channel's.

*Steps.* CreateDevice takes the lock and keeps it until the first code or the
end of the QR channel; the goroutine that registers, the logouts, RestoreDevices
and the disconnect handler need the same lock. What CreateDevice and its goroutine
make of a code together is `CreateReturnsCode`; that neither has one, and
`waitForQRCode` gives up, is `CreateReturnsNone` and `Timeout`. `Look` is the
validation at the head of both handlers. `Update` is a step of its own, since the
registry may change between the handler's decision and the call.
`CreateElsewhere` is a device created over HTTP, also under the ID of a channel;
`LoggedOut` is a logout by the phone or over HTTP. The pollers run from the
plugin's start (`main.go:85`), so between `Restart` and `RestoreDevices`
(`main.go:98`) they serve requests with an empty registry.

*Run.* `requests` has a QR request and a disconnect request, each handed out
twice at most, two channels and a device that has none, one event of whatsmeow or
the gateway and one fault (a lost update, a lost call, a crash). `AllLoads` are the
payloads: both requests for one channel; a payload that is no JSON and one without
a device; and disconnect requests for the device of the other channel, for the
device without one, and without a channel. A channel that is connected already when
its QR request comes is one that the gateway created, or that was restored.

*What holds and what does not.* `ToldIsRight` compares the last update of a channel
with the registry once nothing is under way: CONNECTED if and only if the device is
registered. ERROR, a code or DISCONNECTED for a registered device are wrong. The
code does tell channels wrong, and each way it does is a cause that marks the
channel in `misled` at the step where it happens, by what happens there and never
by comparing the update with the registry; what is wrong for any other reason is
a violation. The causes are:

- an update that was lost (errors of Enqueue are only logged), or forgotten in a
  crash;
- a logout by the phone or over HTTP, and a device that RestoreDevices does not
  bring back: none sends an update;
- a disconnect request whose reference is not the device of its channel: the
  channel is told DISCONNECTED or ERROR though its device stays, and the channel of
  the device that went is told nothing; or one without a reference;
- a QR request for a device that is registered, or will be restored: it is refused
  with ERROR, which comes last for a connected channel (`qr_handler.go:63`);
- a change of the registry between a handler's decision and its update, an event
  of a device still under way when it is logged out, and requests served between a
  restart and RestoreDevices;
- a client that connects after its registration went.

The mark goes with the next update that is right while nothing else is under way.
`QUEUE_INTEGRATION.md:123` has the code sent with the status `QR_READY`; the code
sends `WAITING_INTEGRATION` (`qr_handler.go:78`).

*Fairness.* Goroutines that can run do (`WF`); Go's mutex hands itself to whoever
waits longest (`SF` of CreateDevice and of the disconnect handler's steps); the
QR channel ends (`WF` of CreateReturnsNone), as whatsmeow closes it when the last
code expires. Nobody is assumed to scan, and no code to come.

*Left out.* The poll loop of `waitForQRCode`, which reads fields that are
written, if at all, long before it gives up; the rate of the pollers. A device ID
such as `007` or `+7`, which ParseInt takes for channel 7 although the device of
channel 7 is another; channel numbers below one, which a disconnect request may
not have and an event or (below zero) a QR request may. A mapping that could not
be deleted, by which a device that was logged out comes back after a restart: the
table and its faults are in `DeviceManager`.

### Incoming

*State.* `conf` is one of `Confs`: persistence on or off, S3 on or off, a device
ID that is a number or not. `content` says of a message how many containers wrap
it, which fields are there and whom it quotes; `Info` who sent it and in which
addressing mode. `bus` holds what the manager published, `todo`, `pc` and `cur`
are the three goroutines of the plugin, one per topic. `files` is the media
store, `row` the table by key, `given` what the service took and whether it came
directly.

*Steps.* The manager's event handlers build a payload by `unwrap`, `classify`,
`buildQuotedMessage` and `downloadMedia`, each an operator that mirrors its Go
function, and publish. A goroutine takes an event, converts its messages one
after the other, uploads their files, and persists each body or sends it at
once. `Deliver` and `MarkSuccess` are what `RenrDelivery` does to the row later:
the service gets the body, and the row goes, with anything in between. A statement, a POST or the process may fail in between; a POST that fails
may have arrived. `Panic` is the nil method call at `read_receipt.go:43`.

*Run.* `incoming` has two messages, one of this account without a participant and
one of a group member addressed by a mapped LID, and three receipts of one key,
so that they collide; seven assignments of contents (`Held`, commented in
`MCIncoming`); three configurations, one without persistence and one with a
device ID that is no number; two events and two faults. A history sync has one
message or both. The types are part of `CarriedInv` in the proofs, and the run
has none of its own. Deadlock is not checked: when the bounds are used up and
the bus is empty, nothing is left to do.

`OutboxSpec` maps the table to `Outbox` by key: a body is handed over when the
service was given this very body, so one that takes the place of another under
the same key is not excused by it.

*What holds and what does not.* `HandedOver`, `BodyIsRight` and `FilesAreOwn` each
name the cases where the code does something else; these are, besides faults:

- a history sync takes the sender from the participant or the chat and does not
  look at `Key.FromMe` (`manager.go:673`), so this account's own messages of a
  user chat are the other side's; passes seconds to `time.UnixMilli`
  (`manager.go:694`; `docs/SPEC.md:438` has it otherwise); and looks up no number
  for a LID. Live and synced body of one message differ, and the first to be
  stored stays.
- a quote of this account by its LID is somebody else's (`context_info.go:78`).
- a live message without content becomes a body of type `unknown`, without
  sender unless a number was looked up.
- content that has no name in `extractMessagePayload` is forwarded as `unknown`,
  but dropped when a sender key comes with it (`manager.go:619`,
  `incoming.go:426`).
- the receipts of a chat in one millisecond share a key; the first stays
  (`read_receipt.go:43`).
- without persistence, which `RENR_QUEUE_PERSISTENCE.md:152` describes as
  direct enqueueing, a read receipt ends the process.
- documents of one name share a file, the last one uploaded (`media.go:36`,
  `manager.go:314`).
- devices whose ID is not a number have all their messages dropped
  (`incoming.go:82`), though the HTTP API and the generator accept such IDs.
- `read_receipt.go:76` says "Already in Unix seconds"; the value is in
  milliseconds, like those of messages.

*Left out.* Avatars, which no property speaks of; the decryption of poll votes,
which the code does not do; that a message is put into the cache
(`MessageCache`); subscriptions, which are taken as made (`Subscribers` has the
others).

## 3. What is proved

For every value of the constants that meets the module's `ASSUME Types` (any
numbers of messages, devices, goroutines, keys, any bounds), with tlapm:

- `RetryDelay_proofs`. The powers of two and the sums of delays are recursive
  functions, and what they are takes an induction. The library's induction
  theorems have an operator as a parameter and cannot be cited here; the proofs
  take the least counterexample instead (`LeastNat`, from the library's `WFMin`).
  `StepsExist` shows that a recursive definition over the natural numbers has a
  function, so that `Pow2` and `Cost` are what their equations say.
  `CostIsExponential`: n attempts cost 2^n - 1 minutes until a delay is capped,
  and more than the cap from then on.
- `RenrDelivery_proofs`. The inductive invariant `TInv` is the type invariant,
  `LockExclusive` and `HandInv`, which says what the message and device of a
  goroutine are at each label: without it a step that uses `msg[w]` has no type.
  On it rest `AcceptsAccounted` (strengthened by `AccInv`, which counts the
  goroutine about to delete as an acceptance already paid for, and by `KeepInv`:
  that goroutine's message was accepted since its row was inserted),
  `AttemptsCostTime` (strengthened by `CostInv`: no row is from the future, and
  what MarkFailed read is still so when it writes), `FirstAttemptsInOrder`
  (strengthened by the order of
  ids), `StrandedOnlyByFault` (every way out that leaves a row in processing
  counts a fault; `StopInv` says that a closed database or a cancelled context
  is one), `RevivedOnlyInHand` and the refinement `ImplementsOutbox`, whose
  steps map to Store, Hand, Drop or a stutter. `NoLoss`, stated with the proofs,
  is what it says of a single message.
- `MessageCache_proofs`. `PutOrder` says what Put does to the order list; the
  invariant `PosInv` ties the position of a key in it to the number of keys
  inserted since, and `LatestInv` ties an entry to what was put last. With
  `DepthInv` they give all five properties of the run.
- `DeviceManager_proofs`. `RegisteredWasPaired` follows the success from the QR
  channel to the goroutine that registers (`SuccessInv`, `NameInv`). The two
  properties of the registry and the table rest on one argument: whoever may
  disturb the entry or the row of an ID is active under it, a registered client
  whose session is alive is active too, and two active clients make the ID
  shared (`ShareInv`, with `SessInv` for the life of a session). RestoreDevices
  works on what it read earlier; `TodoInv` says that this is still so for IDs
  that are not shared. `RestoreRecovers` adds `SavedInv` (what `saved` names)
  and `BackInv`: while RestoreDevices works without a network error, an ID whose
  session it can restore, and no other one in its place, is registered with that
  session or still to be done with that session chosen. The lemmas ending in
  `Step` say who may change one variable, and the theorems combine them.
- `WebhookDelivery_proofs`. The inductive invariant `WebhookInv` is the type
  invariant, `BatchInv` (rows that wait in the batch are distinct and to be
  sent, the row in hand is in processing, nothing waits outside the loop) and
  `AcceptInv` (what status and position say of the counts). It gives
  `AcceptsAccounted` and `RemovedWasTried`; `StrandedOnlyByFault`, a bound on
  the cardinality of the stranded rows, is inductive with it (`FaultInv`).
  `FirstAttemptsInOrder` needs `OrderInv`: as long as no statement fails, a
  batch is sorted by age and holds every fresh row older than one of its own;
  `TimeInv` says that no row is from the future and that only a failed attempt
  sets the time of the next. `RetriesEnd` needs `RetryInv`, which ties the time of
  the next attempt to the cost of those before; by `CostIsExponential` a row with
  too many attempts is too old. It uses `ASSUME AgeLimit`: the age limit is within
  the cap (1440 and 1440) and below the power at which the shift overflows
  (1441 and 2^63).
- `Subscribers_proofs`. The type invariant is proved by parts, since a step
  changes one group of variables. `RunningInv` gives `RunningIsRegistered`.
  `SentAccounted` needs to know that a message in hand is processing and in no
  other hand (`HoldInv`), and counts a poller past its send as one that has used
  its acceptance (`CountInv`). `GivenUpForCause` rests on `StopInv`: a device
  that is up while the bus has an event that stops its poller is stale.
  `PollerMatchesDevice` rests on `MatchInv`: for a device that is not stale, the
  events under way, if any, all lead to the poller it should have, and the map
  agrees when there are none.
- `Requests_proofs`. `TypedInv` is the type invariant and `PollerInv` (a poller
  that is not idle has a request of its kind, and past `Look` a channel and what
  its step needs). `AnswersInv` adds that a poller that has yet to answer owes one
  (`Owed`): its pull is counted and its answer is not. `UpdatesAgree` rests on
  `Straight`, which every channel without a mark satisfies also while updates are
  under way: a handler about to say that it is not connected knows its device to
  be neither registered nor to be restored (`Apart`); events under way are of a
  device that is registered or about to be; and without such events the last
  update is CONNECTED if the device is registered or will be restored, and
  otherwise is not, unless a DISCONNECTED is on its way (`Leaving`). `LogoutInv` is
  needed besides: a device that is to be logged out and to be restored is already
  back. Since marks are set by cause, each step has to show that the update it
  decides on is right or the cause has occurred; and a mark that goes leaves a
  channel that is settled and right (`SettledIsStraight`).
- `Incoming_proofs`. `ContentDecides` says what `classify` makes of the
  fields, `PayloadIsRight` and `BodyOfPayload` what the manager and the converter
  make of a message; `CarriedInv` follows this through the bus, the goroutines,
  the table and the service to `BodyIsRight`. `FilesInv` says that whoever last
  wrote a file came and may own its key. For `HandedOver`, every message of an
  event has a number; what waits is distinct from what was stored or sent
  (`WaitingInv`, `NumberInv`), and `AccountInv` says of each wanted event that it
  waits, is in the table or with the service, or was lost for cause. The
  refinement `BodiesAreHandedOver` uses `NumberInv` once more: a body about to be
  stored has a number that nothing with the service has, so it starts as not
  handed over.

Only model-checked: the liveness properties `DueIsAttempted` (both),
`LockIsReleased` and `RequestsSettle` (liveness under fairness is outside the
prover's reach). Every other property of a passing run is stated by a theorem.

## 4. Plan

Done: `RenrDelivery` and `Incoming` with `Outbox` between them, `RetryDelay`,
`MessageCache`, `DeviceManager`, `WebhookDelivery`, `Subscribers`, `Requests`, and
the proofs of all their safety properties.

What could follow:

1. An abstract specification that `WebhookDelivery` implements: an outbox within
   a day, from which rows without a URL are exempt.
2. The composition of `Subscribers` with `DeviceManager`, with `dev` as a
   refinement mapping of registry and sessions. It is stated in words today.
3. Liveness of `Subscribers`: a device that stays connected is polled in the
   end. It holds for devices that are not stale only.

## 5. Not modelled

- The HTTP gateway (`core/gateway/http/server.go`, `src/docs/`): it decodes a
  request, calls one method of the manager and encodes what it returns; it keeps
  no state. What its callers can do to devices is in the modules as a logout or
  a creation at any time.
- The bodies of the Send methods and the messages they build: they fill in
  whatsmeow's structures. That they need a registered and connected device, may
  fail with or without having arrived, and use the message cache is modelled.
- The transfer of media, S3 and avatars, beyond which file a body names: network
  calls and a cache that saves them.
- The webhook's HTTP payload and media upload (see above), and its Stop, which
  nothing calls.
- Reading the environment, logging, the examples, the test receiver, generated
  documentation.

whatsmeow, SQLite, watermill and the queue service are external: the modules say
what they may do as far as the code relies on it. SQLite's comparison of time
stamps written by the driver (local time with an offset) with
`CURRENT_TIMESTAMP` (UTC text) is taken to be right (`database.go:99` of the
webhook plugin, among others); where the process does not run in UTC it may be
off by the offset, which moves retries and the cleanup but no order of steps.
