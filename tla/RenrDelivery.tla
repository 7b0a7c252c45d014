---------------------------- MODULE RenrDelivery ----------------------------
(***************************************************************************)
(* The persistent delivery of incoming WhatsApp messages to the Renr queue *)
(* API: the SQLite table renr_queue (database.go) and the DeliveryService  *)
(* that empties it (delivery.go), with the two callers that change the     *)
(* table from outside, the incoming handlers (Enqueue) and the logout      *)
(* handler (MarkAllPendingAsFailed), and the plugin's Stop.                *)
(*                                                                         *)
(* Processes: the ticker goroutine of Start, one goroutine per processing  *)
(* of a device (Worker), the event handlers, and the environment (clock,   *)
(* crashes).  Every SQL statement is one step, and so is the HTTP call.    *)
(*                                                                         *)
(* One unit of time is a minute.  A row is identified by its message, the  *)
(* UNIQUE(device_id, message_id) key; id is its AUTOINCREMENT rank.        *)
(* created_at grows with id, and SQLite's sorter keeps the rowid order of  *)
(* equal keys, so "ORDER BY created_at" is the order of the ids.           *)
(***************************************************************************)
EXTENDS RetryDelay, FiniteSets

CONSTANTS
    Msg,            \* messages, each a (device_id, message_id) pair
    Device,         \* devices
    DeviceOf,       \* the device of each message
    Worker,         \* processDevice goroutines that may be alive at a time
    None,           \* no device, no message
    TTL,            \* age after which a tried row is given up (24 h)
    MaxTime,        \* bound: the clock stops here
    MaxInserts,     \* bound: Enqueue calls that insert a row, per message
    MaxDbErrors,    \* bound: failing SQL statements
    MaxApiErrors,   \* bound: HTTP calls that return an error
    MaxCrashes      \* bound: crashes and stops of the process

ASSUME Types ==
    /\ DeviceOf \in [Msg -> Device]
    /\ None \notin Msg \cup Device
    /\ {TTL, MaxTime, MaxInserts, MaxDbErrors, MaxApiErrors, MaxCrashes} \subseteq Nat

VARIABLES
    now,            \* the clock
    row,            \* the table: one row, or NoRow, per message
    nextId,         \* the next AUTOINCREMENT id
    dbOpen,         \* the plugin has not closed the database
    cancelled,      \* ds.ctx is cancelled
    looping,        \* the ticker goroutine runs
    toSpawn,        \* devices processPending read and has not spawned yet
    held,           \* processingDevices
    pc, dev, msg,   \* each worker: position, device, the row it fetched
    att,            \* each worker: attempts read by MarkFailed
    spent,          \* faults used up, against the bounds
    accepts,        \* history: times the API accepted the message
    lost,           \* history: of these, replies that did not come back
    inserts,        \* history: times a row was inserted for the message
    handed          \* history: messages the API accepted since that insertion

table   == <<row, nextId>>
workers == <<pc, dev, msg, att>>
history == <<accepts, lost, inserts, handed>>
service == <<dbOpen, cancelled, looping>>
vars    == <<now, table, service, toSpawn, held, workers, spent, history>>

Status == {"none", "pending", "processing", "failed"}
Pc     == {"off", "start", "loop", "fetch", "mark", "send",
           "failRead", "failWrite", "delete"}

NoRow == [st |-> "none", att |-> 0, created |-> 0, retry |-> 0, id |-> 0]
Rows  == [st : Status, att : Nat, created : Nat, retry : Nat, id : Nat]

-----------------------------------------------------------------------------
\* Reading the table.

\* Variant: rows in status processing are fetched as well.
Due_WithProcessing(m) ==
    row[m].st \in {"pending", "processing"} /\ row[m].retry <= now

\* The WHERE clause of both queries: pending, and next_retry unset (0) or past.
Due(m) == row[m].st = "pending" /\ row[m].retry <= now

DueOf(d) == {m \in Msg : DeviceOf[m] = d /\ Due(m)}

GetAllPendingDevices == {d \in Device : DueOf(d) # {}}

\* Variant: no ORDER BY.
NextPendingForDevice_Unordered(d) == DueOf(d)

\* What GetNextPendingForDevice may return: the oldest due row.  It has at
\* most one element, as ids are unique.
NextPendingForDevice(d) ==
    {m \in DueOf(d) : \A o \in DueOf(d) : row[m].id <= row[o].id}

Holds(w) == pc[w] \notin {"off", "start"}

\* Worker w has row m in hand: it fetched it and has not finished with it.
InHand(w, m) == pc[w] \notin {"off", "start", "loop", "fetch"} /\ msg[w] = m

\* UPDATE ... WHERE id = ?: no row, no effect, and no error.
Updated(m, r) == IF row[m].st = "none" THEN row ELSE [row EXCEPT ![m] = r]

-----------------------------------------------------------------------------
\* Outcomes of an SQL statement; an error spends the bound unless it comes
\* from the closed database.

DbWorks == dbOpen /\ UNCHANGED spent

DbFails == IF dbOpen
           THEN /\ spent.db < MaxDbErrors
                /\ spent' = [spent EXCEPT !.db = @ + 1]
           ELSE UNCHANGED spent

ApiFails == /\ spent.api < MaxApiErrors
            /\ spent' = [spent EXCEPT !.api = @ + 1]

-----------------------------------------------------------------------------
Init ==
    /\ now = 0
    /\ row = [m \in Msg |-> NoRow]
    /\ nextId = 1
    /\ dbOpen = TRUE /\ cancelled = FALSE /\ looping = TRUE
    /\ toSpawn = {} /\ held = {}
    /\ pc = [w \in Worker |-> "off"]
    /\ dev = [w \in Worker |-> None]
    /\ msg = [w \in Worker |-> None]
    /\ att = [w \in Worker |-> 0]
    /\ spent = [db |-> 0, api |-> 0, crash |-> 0]
    /\ accepts = [m \in Msg |-> 0]
    /\ lost = [m \in Msg |-> 0]
    /\ inserts = [m \in Msg |-> 0]
    /\ handed = {}

-----------------------------------------------------------------------------
\* The callers from outside the service.

\* Variant: ON CONFLICT DO UPDATE SET status = 'pending'.
Enqueue_Upsert(m) ==
    /\ dbOpen
    /\ IF row[m].st = "none"
       THEN /\ inserts[m] < MaxInserts
            /\ row' = [row EXCEPT ![m] = [st |-> "pending", att |-> 0, created |-> now,
                                          retry |-> 0, id |-> nextId]]
            /\ nextId' = nextId + 1
            /\ inserts' = [inserts EXCEPT ![m] = @ + 1]
            /\ handed' = handed \ {m}
       ELSE /\ row' = [row EXCEPT ![m].st = "pending"]
            /\ UNCHANGED <<nextId, inserts, handed>>
    /\ UNCHANGED <<now, service, toSpawn, held, workers, spent, accepts, lost>>

\* INSERT ... ON CONFLICT DO NOTHING: a row of any status is a conflict.
Enqueue(m) ==
    /\ dbOpen
    /\ row[m].st = "none"
    /\ inserts[m] < MaxInserts
    /\ row' = [row EXCEPT ![m] = [st |-> "pending", att |-> 0, created |-> now,
                                  retry |-> 0, id |-> nextId]]
    /\ nextId' = nextId + 1
    /\ inserts' = [inserts EXCEPT ![m] = @ + 1]
    /\ handed' = handed \ {m}
    /\ UNCHANGED <<now, service, toSpawn, held, workers, spent,
                   accepts, lost>>

\* Variant: a status the table does not know.
MarkAllPendingAsFailed_BadStatus(d) ==
    /\ dbOpen
    /\ row' = [m \in Msg |->
                 IF DeviceOf[m] = d /\ row[m].st \in {"pending", "processing"}
                 THEN [row[m] EXCEPT !.st = "logged_out"]
                 ELSE row[m]]
    /\ UNCHANGED <<now, nextId, service, toSpawn, held, workers, spent, history>>

\* handleDeviceLogout: one UPDATE over the device's rows, in hand or not.
MarkAllPendingAsFailed(d) ==
    /\ dbOpen
    /\ row' = [m \in Msg |->
                 IF DeviceOf[m] = d /\ row[m].st \in {"pending", "processing"}
                 THEN [row[m] EXCEPT !.st = "failed"]
                 ELSE row[m]]
    /\ UNCHANGED <<now, nextId, service, toSpawn, held, workers, spent, history>>

-----------------------------------------------------------------------------
\* The ticker goroutine.  It serves one tick at a time: the spawning loop of
\* processPending ends before the next select.  After a cancel, select may
\* still choose a ready ticker.

ProcessPending ==
    /\ looping /\ dbOpen
    /\ toSpawn = {}
    /\ toSpawn' = GetAllPendingDevices
    /\ UNCHANGED <<now, table, service, held, workers, spent, history>>

SpawnWorker(d, w) ==
    /\ d \in toSpawn
    /\ pc[w] = "off"
    /\ toSpawn' = toSpawn \ {d}
    /\ pc' = [pc EXCEPT ![w] = "start"]
    /\ dev' = [dev EXCEPT ![w] = d]
    /\ UNCHANGED <<now, table, service, held, msg, att, spent, history>>

CleanupOldFailed ==
    /\ looping /\ dbOpen
    /\ toSpawn = {}
    /\ row' = [m \in Msg |->
                 IF /\ row[m].st = "pending"
                    /\ row[m].att > 0
                    /\ row[m].created + TTL < now
                 THEN [row[m] EXCEPT !.st = "failed"]
                 ELSE row[m]]
    /\ UNCHANGED <<now, nextId, service, toSpawn, held, workers, spent, history>>

LoopExit ==
    /\ looping /\ cancelled
    /\ toSpawn = {}
    /\ looping' = FALSE
    /\ UNCHANGED <<now, table, dbOpen, cancelled, toSpawn, held, workers,
                   spent, history>>

-----------------------------------------------------------------------------
\* processDevice.

Goto(w, label) == pc' = [pc EXCEPT ![w] = label]

\* Variant: a return without the deferred Delete.
Return_KeepsLock(w) ==
    /\ Goto(w, "off")
    /\ UNCHANGED held
    /\ dev' = [dev EXCEPT ![w] = None]
    /\ msg' = [msg EXCEPT ![w] = None]
    /\ att' = [att EXCEPT ![w] = 0]

\* The return of processDevice, with its deferred Delete of the lock.
Return(w) ==
    /\ Goto(w, "off")
    /\ held' = held \ {dev[w]}
    /\ dev' = [dev EXCEPT ![w] = None]
    /\ msg' = [msg EXCEPT ![w] = None]
    /\ att' = [att EXCEPT ![w] = 0]

\* Variant: Store in place of LoadOrStore.
TryLock_Store(w) ==
    /\ pc[w] = "start"
    /\ Goto(w, "loop")
    /\ held' = held \cup {dev[w]}
    /\ UNCHANGED <<now, table, service, toSpawn, dev, msg, att, spent, history>>

\* LoadOrStore: whoever finds the device held returns and leaves the lock alone.
TryLock(w) ==
    /\ pc[w] = "start"
    /\ IF dev[w] \in held
       THEN /\ Goto(w, "off")
            /\ dev' = [dev EXCEPT ![w] = None]
            /\ UNCHANGED held
       ELSE /\ Goto(w, "loop")
            /\ held' = held \cup {dev[w]}
            /\ UNCHANGED dev
    /\ UNCHANGED <<now, table, service, toSpawn, msg, att, spent, history>>

\* The ctx check and the rate limiter's Wait, which fails on the same ctx.
LoopTop(w) ==
    /\ pc[w] = "loop"
    /\ IF cancelled
       THEN Return(w)
       ELSE Goto(w, "fetch") /\ UNCHANGED <<held, dev, msg, att>>
    /\ UNCHANGED <<now, table, service, toSpawn, spent, history>>

GetNextPending(w) ==
    /\ pc[w] = "fetch"
    /\ \/ /\ DbWorks
          /\ \E m \in NextPendingForDevice(dev[w]) :
                msg' = [msg EXCEPT ![w] = m]
          /\ Goto(w, "mark")
          /\ UNCHANGED <<held, dev, att>>
       \/ /\ DbWorks
          /\ DueOf(dev[w]) = {}
          /\ Return(w)
       \/ DbFails /\ Return(w)
    /\ UNCHANGED <<now, table, service, toSpawn, history>>

\* UPDATE ... WHERE id = ?: whatever status the row has by now.
MarkProcessing(w) ==
    /\ pc[w] = "mark"
    /\ \/ /\ DbWorks
          /\ row' = Updated(msg[w], [row[msg[w]] EXCEPT !.st = "processing"])
          /\ Goto(w, "send")
          /\ UNCHANGED <<held, dev, msg, att>>
       \/ DbFails /\ Return(w) /\ UNCHANGED row
    /\ UNCHANGED <<now, nextId, service, toSpawn, history>>

\* The API accepts the message.
Accepted(m) == /\ accepts' = [accepts EXCEPT ![m] = @ + 1]
               /\ handed' = handed \cup {m}

\* Variant: an error that is not retryable ends the row like a success.
Deliver_DropsRejected(w) ==
    /\ pc[w] = "send"
    /\ \/ Accepted(msg[w]) /\ UNCHANGED spent
       \/ ApiFails /\ UNCHANGED <<accepts, handed>>
    /\ Goto(w, "delete")
    /\ UNCHANGED <<now, table, service, toSpawn, held, dev, msg, att, lost, inserts>>

\* deliver: the POST to the queue API.  An error is an error to the caller,
\* whatever isRetryableError says of it, and leads to MarkFailed; the API may
\* have accepted a message whose reply is lost.
Deliver(w) ==
    /\ pc[w] = "send"
    /\ \/ /\ Accepted(msg[w])
          /\ Goto(w, "delete")
          /\ UNCHANGED <<lost, spent>>
       \/ /\ ApiFails
          /\ Goto(w, "failRead")
          /\ \/ /\ Accepted(msg[w])
                /\ lost' = [lost EXCEPT ![msg[w]] = @ + 1]
             \/ UNCHANGED <<accepts, handed, lost>>
    /\ UNCHANGED <<now, table, service, toSpawn, held, dev, msg, att, inserts>>

\* Variant: an error of deliver ends the goroutine before MarkFailed.
MarkFailedRead_Skipped(w) ==
    /\ pc[w] = "failRead"
    /\ Return(w)
    /\ UNCHANGED <<now, table, service, toSpawn, spent, history>>

\* MarkFailed's SELECT attempts: an error too when the row is gone.
MarkFailedRead(w) ==
    /\ pc[w] = "failRead"
    /\ \/ /\ DbWorks
          /\ row[msg[w]].st # "none"
          /\ att' = [att EXCEPT ![w] = row[msg[w]].att]
          /\ Goto(w, "failWrite")
          /\ UNCHANGED <<held, dev, msg>>
       \/ DbFails /\ Return(w)
    /\ UNCHANGED <<now, table, service, toSpawn, history>>

\* MarkFailed's UPDATE: back to pending, whatever the status was.
MarkFailedWrite(w) ==
    /\ pc[w] = "failWrite"
    /\ \/ /\ DbWorks
          /\ row' = Updated(msg[w],
                        [row[msg[w]] EXCEPT !.st = "pending",
                                            !.att = att[w] + 1,
                                            !.retry = now + Backoff(att[w] + 1)])
          /\ Goto(w, "loop")
          /\ msg' = [msg EXCEPT ![w] = None]
          /\ att' = [att EXCEPT ![w] = 0]
          /\ UNCHANGED <<held, dev>>
       \/ DbFails /\ Return(w) /\ UNCHANGED row
    /\ UNCHANGED <<now, nextId, service, toSpawn, history>>

\* DELETE WHERE id = ?
MarkSuccess(w) ==
    /\ pc[w] = "delete"
    /\ \/ /\ DbWorks
          /\ row' = [row EXCEPT ![msg[w]] = NoRow]
          /\ Goto(w, "loop")
          /\ msg' = [msg EXCEPT ![w] = None]
          /\ UNCHANGED <<held, dev, att>>
       \/ DbFails /\ Return(w) /\ UNCHANGED row
    /\ UNCHANGED <<now, nextId, service, toSpawn, history>>

WorkerStep(w) ==
    \/ TryLock(w) \/ LoopTop(w) \/ GetNextPending(w) \/ MarkProcessing(w)
    \/ Deliver(w) \/ MarkFailedRead(w) \/ MarkFailedWrite(w) \/ MarkSuccess(w)

-----------------------------------------------------------------------------
\* Stopping, crashing and restarting the process; the clock.

\* Plugin.Stop: the service is cancelled first, the database closed last.
Stop ==
    /\ ~cancelled
    /\ spent.crash < MaxCrashes
    /\ spent' = [spent EXCEPT !.crash = @ + 1]
    /\ cancelled' = TRUE
    /\ UNCHANGED <<now, table, dbOpen, looping, toSpawn, held, workers, history>>

CloseDatabase ==
    /\ cancelled /\ dbOpen
    /\ dbOpen' = FALSE
    /\ UNCHANGED <<now, table, cancelled, looping, toSpawn, held, workers,
                   spent, history>>

\* The process ends, after Stop or not, and a new one starts on the same
\* table: NewDatabase and NewDeliveryService change no row.
Restart ==
    /\ IF cancelled
       THEN UNCHANGED spent
       ELSE /\ spent.crash < MaxCrashes
            /\ spent' = [spent EXCEPT !.crash = @ + 1]
    /\ dbOpen' = TRUE /\ cancelled' = FALSE /\ looping' = TRUE
    /\ toSpawn' = {} /\ held' = {}
    /\ pc' = [w \in Worker |-> "off"]
    /\ dev' = [w \in Worker |-> None]
    /\ msg' = [w \in Worker |-> None]
    /\ att' = [w \in Worker |-> 0]
    /\ UNCHANGED <<now, table, history>>

Tick ==
    /\ now < MaxTime
    /\ now' = now + 1
    /\ UNCHANGED <<table, service, toSpawn, held, workers, spent, history>>

-----------------------------------------------------------------------------
Next ==
    \/ \E m \in Msg : Enqueue(m)
    \/ \E d \in Device : MarkAllPendingAsFailed(d)
    \/ ProcessPending
    \/ \E d \in Device, w \in Worker : SpawnWorker(d, w)
    \/ CleanupOldFailed
    \/ LoopExit
    \/ \E w \in Worker : WorkerStep(w)
    \/ Stop
    \/ CloseDatabase
    \/ Restart
    \/ Tick

Spec == Init /\ [][Next]_vars

\* The Go scheduler runs every goroutine that can run, the ticker fires again
\* and again, and a process that was stopped is started again.
Fairness ==
    /\ WF_vars(ProcessPending)
    /\ WF_vars(\E d \in Device, w \in Worker : SpawnWorker(d, w))
    /\ \A w \in Worker : WF_vars(WorkerStep(w))
    /\ WF_vars(cancelled /\ Restart)

FairSpec == Spec /\ Fairness

-----------------------------------------------------------------------------
\* Properties.

\* Every variable has its type.
TypeOK ==
    /\ now \in Nat /\ nextId \in Nat
    /\ row \in [Msg -> Rows]
    /\ dbOpen \in BOOLEAN /\ cancelled \in BOOLEAN /\ looping \in BOOLEAN
    /\ toSpawn \subseteq Device /\ held \subseteq Device
    /\ pc \in [Worker -> Pc]
    /\ dev \in [Worker -> Device \cup {None}]
    /\ msg \in [Worker -> Msg \cup {None}]
    /\ att \in [Worker -> Nat]
    /\ spent \in [db : Nat, api : Nat, crash : Nat]
    /\ accepts \in [Msg -> Nat] /\ lost \in [Msg -> Nat]
    /\ inserts \in [Msg -> Nat]
    /\ handed \subseteq Msg

\* processingDevices excludes and leaks nothing: two goroutines past LoadOrStore
\* never serve the same device, whatever the ticker spawned; each one's device is
\* locked; and no device stays locked, and so unserved until the process ends,
\* when no goroutine serves it.
LockExclusive ==
    /\ \A w \in Worker : Holds(w) => dev[w] \in held
    /\ \A v, w \in Worker : Holds(v) /\ Holds(w) /\ dev[v] = dev[w] => v = w
    /\ \A d \in held : \E w \in Worker : Holds(w) /\ dev[w] = d

\* One row makes the API accept its message once, and once more for each
\* reply that was lost.  A crash between the POST and the DELETE, a logout or
\* a second goroutine adds no duplicate.
AcceptsAccounted == \A m \in Msg : accepts[m] <= inserts[m] + lost[m]

\* Rows that have not failed yet are sent in the order they were inserted: no
\* row is in hand while an older, untried row of its device is pending.
FirstAttemptsInOrder ==
    \A w \in Worker, m, o \in Msg :
        /\ InHand(w, m)
        /\ DeviceOf[o] = DeviceOf[m]
        /\ row[o].st = "pending" /\ row[o].id < row[m].id
        => row[o].att > 0

\* The row being sent is out of its backoff, and every attempt of a row has
\* cost the delays of the attempts before it.  So MarkFailed's shift leaves its
\* width only for a row as old as the first Width delays: 53 days.
AttemptsCostTime ==
    /\ \A w \in Worker, m \in Msg : InHand(w, m) => row[m].retry <= now
    /\ \A m \in Msg : row[m].att > 0 =>
          IF row[m].att <= Width
          THEN row[m].retry >= row[m].created + Cost[row[m].att]
          ELSE now >= row[m].created + Cost[Width]

\* Without a crash, a stop or an SQL error, every row in status processing is
\* in the hand of a goroutine that will settle it.
StrandedOnlyByFault ==
    \A m \in Msg : row[m].st = "processing" =>
        \/ \E w \in Worker : InHand(w, m)
        \/ spent.db + spent.crash > 0

\* A row given up is revived only by the goroutine that had it in hand when it
\* was given up; no insert, cleanup or restart revives it.
RevivedOnlyInHand ==
    [][\A m \in Msg : row[m].st = "failed" /\ row'[m].st # "failed"
          => \E w \in Worker : InHand(w, m)]_vars

\* The table implements the outbox: through errors, lost replies, logouts,
\* crashes and restarts a row stays until the API has accepted its message, and
\* the row of a message that comes again stays until it is accepted again.
O == INSTANCE Outbox WITH stored <- {m \in Msg : row[m].st # "none"},
                          handed <- {m \in handed : row[m].st # "none"}
OutboxSpec == O!Spec

\* A row that is due is attempted or settled: no goroutine, lock, ticker,
\* crash or error starves it.
DueIsAttempted ==
    \A m \in Msg : \A a \in 0..MaxTime :
        (Due(m) /\ row[m].att = a)
            ~> (row[m].st # "pending" \/ row[m].att > a)

-----------------------------------------------------------------------------
\* What a document says and the code does not do.

\* RENR_QUEUE_PERSISTENCE.md:5 - a message is not lost; here: a message being
\* processed does not stay so for ever.
InFlightSettles ==
    \A m \in Msg : row[m].st = "processing" ~> row[m].st # "processing"
=============================================================================
