--------------------------- MODULE DeviceManager ---------------------------
(***************************************************************************)
(* The registry of devices (manager.go) and the mapping table that lets    *)
(* them survive a restart (device_db.go).                                  *)
(*                                                                         *)
(* Processes: the callers of CreateDevice, LogoutDevice and RestoreDevices *)
(* (HTTP handlers, queue pollers, main), each holding m.mu throughout; the *)
(* QR goroutine of each CreateDevice; the event handler of each client.    *)
(* whatsmeow is external: it emits QR codes, pairs, times out, and reports *)
(* that a session was logged out.                                          *)
(*                                                                         *)
(* A client stands for the session it is created for or restored from.     *)
(* Events are left out: publishing changes nothing in the manager.         *)
(***************************************************************************)
EXTENDS Naturals, Sequences, FiniteSets

CONSTANTS
    Id,             \* device IDs
    Client,         \* sessions
    Phone,          \* account numbers (JID.User)
    None,
    AutoId,         \* device_1, device_2, ...: a sequence of IDs
    MaxCodes,       \* bound: QR codes per channel
    MaxDbErrors,    \* bound: failing SQL statements
    MaxNetErrors,   \* bound: failing Connect and Logout calls
    MaxCrashes      \* bound: crashes

ASSUME Types ==
    /\ None \notin Id \cup Client \cup Phone
    /\ IsFiniteSet(Client) /\ IsFiniteSet(Id)
    /\ AutoId \in [1..(Cardinality(Id) + 1) -> Id]
    /\ {MaxCodes, MaxDbErrors, MaxNetErrors, MaxCrashes} \subseteq Nat

VARIABLES
    mu,             \* who holds m.mu: the operation, and its ID or client
    devices,        \* the registry
    mapping,        \* the table: the account of each ID
    sess,           \* each session: none, qr, live (in the store) or gone
    phone,          \* its account, once paired
    shown,          \* CreateDevice has returned, with a QR code
    qr,             \* its QR channel
    name,           \* the ID its QR goroutine was started for
    gpc,            \* position of its QR goroutine
    attached,       \* event handlers: pairs of an ID and a client
    hpc,            \* position of each handler in its LoggedOut branch
    booted,         \* RestoreDevices has been called
    chosen,         \* RestoreDevices: the store it found for each account
    todo,           \* RestoreDevices: mappings still to restore
    spent,          \* faults used up, against the bounds
    shared,         \* history: IDs two active clients had at a time, counting
                    \* the client of an ID from when RestoreDevices reads it
    saved           \* history: devices registered and mapped at the last crash

db      == <<mapping, sess, phone>>
pairing == <<shown, qr, name, gpc>>
handler == <<attached, hpc, shared>>
boot    == <<booted, chosen, todo, saved>>
vars    == <<mu, devices, db, pairing, handler, boot, spent>>

Free == [op |-> "free", on |-> None]
Op(o, x) == [op |-> o, on |-> x]

Closed == [buf |-> <<>>, open |-> FALSE, sent |-> 0]

Live(c) == c # None /\ sess[c] = "live"

DbFails  == spent.db < MaxDbErrors /\ spent' = [spent EXCEPT !.db = @ + 1]
NetFails == spent.net < MaxNetErrors /\ spent' = [spent EXCEPT !.net = @ + 1]

\* A first start: the table is empty, and there is nothing to restore.
Init ==
    /\ mu = Free
    /\ devices = [i \in Id |-> None]
    /\ mapping = [i \in Id |-> None]
    /\ sess = [c \in Client |-> "none"]
    /\ phone = [c \in Client |-> None]
    /\ shown = [c \in Client |-> FALSE]
    /\ qr = [c \in Client |-> Closed]
    /\ name = [c \in Client |-> None]
    /\ gpc = [c \in Client |-> "off"]
    /\ attached = {}
    /\ hpc = [h \in Id \X Client |-> "idle"]
    /\ booted = TRUE
    /\ chosen = [p \in Phone |-> None]
    /\ todo = {}
    /\ spent = [db |-> 0, net |-> 0, crash |-> 0]
    /\ shared = {}
    /\ saved = [i \in Id |-> None]

-----------------------------------------------------------------------------
\* whatsmeow and its users.

EmitCode(c) ==
    /\ qr[c].open /\ qr[c].sent < MaxCodes
    /\ qr' = [qr EXCEPT ![c].buf = Append(@, "code"), ![c].sent = @ + 1]
    /\ UNCHANGED <<mu, devices, db, shown, name, gpc, handler, boot, spent>>

\* The QR code that CreateDevice returned is scanned; the store has the session.
PairSuccess(c, p) ==
    /\ qr[c].open /\ shown[c]
    /\ sess' = [sess EXCEPT ![c] = "live"]
    /\ phone' = [phone EXCEPT ![c] = p]
    /\ qr' = [qr EXCEPT ![c].buf = Append(@, "success"), ![c].open = FALSE]
    /\ UNCHANGED <<mu, devices, mapping, shown, name, gpc, handler, boot, spent>>

\* The last code expires, or the connection ends: the channel is closed.
QRTimeout(c) ==
    /\ qr[c].open
    /\ qr' = [qr EXCEPT ![c].open = FALSE]
    /\ sess' = [sess EXCEPT ![c] = "gone"]
    /\ UNCHANGED <<mu, devices, mapping, phone, shown, name, gpc, handler, boot, spent>>

\* The account removes the session: the store is deleted, the handler called.
LoggedOut(i, c) ==
    /\ <<i, c>> \in attached
    /\ Live(c)
    /\ sess' = [sess EXCEPT ![c] = "gone"]
    /\ hpc' = [hpc EXCEPT ![<<i, c>>] = "lock"]
    /\ UNCHANGED <<mu, devices, mapping, phone, pairing, attached, shared, boot, spent>>

-----------------------------------------------------------------------------
\* The LoggedOut branch of the event handler.

\* Variant: every device of the account.
HandlerUnregisters_ByPhone(i, c) ==
    /\ hpc[<<i, c>>] = "lock"
    /\ mu = Free
    /\ devices' = [j \in Id |->
                     IF devices[j] # None /\ phone[devices[j]] = phone[c]
                     THEN None ELSE devices[j]]
    /\ hpc' = [hpc EXCEPT ![<<i, c>>] = "delete"]
    /\ UNCHANGED <<mu, db, pairing, attached, shared, boot, spent>>

\* Whichever client is registered under the ID.
HandlerUnregisters(i, c) ==
    /\ hpc[<<i, c>>] = "lock"
    /\ mu = Free
    /\ devices' = [devices EXCEPT ![i] = None]
    /\ hpc' = [hpc EXCEPT ![<<i, c>>] = "delete"]
    /\ UNCHANGED <<mu, db, pairing, attached, shared, boot, spent>>

\* After the unlock.
HandlerDeletes(i, c) ==
    /\ hpc[<<i, c>>] = "delete"
    /\ \/ mapping' = [mapping EXCEPT ![i] = None] /\ UNCHANGED spent
       \/ DbFails /\ UNCHANGED mapping
    /\ hpc' = [hpc EXCEPT ![<<i, c>>] = "idle"]
    /\ UNCHANGED <<mu, devices, sess, phone, pairing, attached, shared, boot>>

-----------------------------------------------------------------------------
\* CreateDevice and its goroutine.

\* Client c may still act under ID i.
Active(i, c) ==
    /\ <<i, c>> \in attached
    /\ sess[c] \in {"qr", "live"} \/ hpc[<<i, c>>] # "idle" \/ gpc[c] # "off"

\* setupEventHandlers.
Attach(i, c) ==
    /\ attached' = attached \cup {<<i, c>>}
    /\ shared' = IF \E d \in Client \ {c} : Active(i, d)
                 THEN shared \cup {i} ELSE shared

Generated == AutoId[Cardinality({i \in Id : devices[i] # None}) + 1]

\* Variant: the pending device is registered at once.
CreateDevice_Registers(c, req) ==
    LET i == IF req = None THEN Generated ELSE req
    IN  /\ mu = Free
        /\ sess[c] = "none"
        /\ devices[i] = None
        /\ devices' = [devices EXCEPT ![i] = c]
        /\ Attach(i, c)
        /\ name' = [name EXCEPT ![c] = i]
        /\ sess' = [sess EXCEPT ![c] = "qr"]
        /\ qr' = [qr EXCEPT ![c].open = TRUE]
        /\ gpc' = [gpc EXCEPT ![c] = "recv"]
        /\ mu' = Op("create", c)
        /\ UNCHANGED <<mapping, phone, shown, hpc, boot, spent>>

\* The existing-ID check looks at the registry alone.
CreateDevice(c, req) ==
    LET i == IF req = None THEN Generated ELSE req
    IN  /\ mu = Free
        /\ sess[c] = "none"
        /\ devices[i] = None
        /\ Attach(i, c)
        /\ name' = [name EXCEPT ![c] = i]
        /\ sess' = [sess EXCEPT ![c] = "qr"]
        /\ qr' = [qr EXCEPT ![c].open = TRUE]
        /\ gpc' = [gpc EXCEPT ![c] = "recv"]
        /\ mu' = Op("create", c)
        /\ UNCHANGED <<devices, mapping, phone, shown, hpc, boot, spent>>

\* The ID is taken, or there is no QR channel or connection: an error, and
\* nothing changes.  So does LogoutDevice for an ID that is not registered.
CreateFails == mu = Free /\ UNCHANGED vars

Receive(c) == /\ qr[c].buf # <<>>
              /\ qr' = [qr EXCEPT ![c].buf = Tail(@)]

Drained(c) == qr[c].buf = <<>> /\ ~qr[c].open

\* Variant: the loop does not end with the channel.
CreateReturns_CodeOnly(c) ==
    /\ mu = Op("create", c)
    /\ Receive(c)
    /\ shown' = [shown EXCEPT ![c] = TRUE]
    /\ mu' = Free
    /\ UNCHANGED <<devices, db, name, gpc, handler, boot, spent>>

\* CreateDevice waits for a code of its own, or for the end of the channel.
\* It cannot receive the success: nobody has seen a code before it returns.
CreateReturns(c) ==
    /\ mu = Op("create", c)
    /\ \/ /\ Receive(c)
          /\ shown' = [shown EXCEPT ![c] = TRUE]
       \/ Drained(c) /\ UNCHANGED <<qr, shown>>
    /\ mu' = Free
    /\ UNCHANGED <<devices, db, name, gpc, handler, boot, spent>>

\* The goroutine receives from the same channel.
QRGoroutine(c) ==
    /\ gpc[c] = "recv"
    /\ \/ /\ Receive(c)
          /\ gpc' = IF Head(qr[c].buf) = "success"
                    THEN [gpc EXCEPT ![c] = "lock"] ELSE gpc
       \/ Drained(c) /\ gpc' = [gpc EXCEPT ![c] = "off"] /\ UNCHANGED qr
    /\ UNCHANGED <<mu, devices, db, shown, name, handler, boot, spent>>

Register(c) ==
    /\ gpc[c] = "lock"
    /\ mu = Free
    /\ devices' = [devices EXCEPT ![name[c]] = c]
    /\ gpc' = [gpc EXCEPT ![c] = "save"]
    /\ UNCHANGED <<mu, db, shown, qr, name, handler, boot, spent>>

\* Variant: ON CONFLICT DO NOTHING.
SaveMapping_IfAbsent(c) ==
    /\ gpc[c] = "save"
    /\ \/ /\ mapping' = IF Live(c) /\ mapping[name[c]] = None
                        THEN [mapping EXCEPT ![name[c]] = phone[c]] ELSE mapping
          /\ UNCHANGED spent
       \/ Live(c) /\ DbFails /\ UNCHANGED mapping
    /\ gpc' = [gpc EXCEPT ![c] = "recv"]
    /\ UNCHANGED <<mu, devices, sess, phone, shown, qr, name, handler, boot>>

\* Variant: saved without a look at Store.ID; deviceJID is then empty.
SaveMapping_Blank(c) ==
    /\ gpc[c] = "save"
    /\ mapping' = [mapping EXCEPT ![name[c]] = IF Live(c) THEN phone[c] ELSE ""]
    /\ gpc' = [gpc EXCEPT ![c] = "recv"]
    /\ UNCHANGED <<mu, devices, sess, phone, shown, qr, name, handler, boot, spent>>

\* After the unlock, and only while the store has the session.
SaveMapping(c) ==
    /\ gpc[c] = "save"
    /\ \/ /\ mapping' = IF Live(c)
                        THEN [mapping EXCEPT ![name[c]] = phone[c]] ELSE mapping
          /\ UNCHANGED spent
       \/ Live(c) /\ DbFails /\ UNCHANGED mapping
    /\ gpc' = [gpc EXCEPT ![c] = "recv"]
    /\ UNCHANGED <<mu, devices, sess, phone, shown, qr, name, handler, boot>>

-----------------------------------------------------------------------------
\* LogoutDevice.

LogoutDevice(i) ==
    /\ mu = Free
    /\ devices[i] # None
    /\ mu' = Op("logout", i)
    /\ UNCHANGED <<devices, db, pairing, handler, boot, spent>>

\* Client.Logout deletes the session, and emits no LoggedOut; an error of it,
\* and so a session that was gone, is only logged.
LogoutCall(i) ==
    /\ mu = Op("logout", i)
    /\ \/ /\ sess' = [sess EXCEPT ![devices[i]] = "gone"]
          /\ UNCHANGED spent
       \/ Live(devices[i]) /\ NetFails /\ UNCHANGED sess
    /\ mu' = Op("loggedOut", i)
    /\ UNCHANGED <<devices, mapping, phone, pairing, handler, boot>>

LogoutReturns(i) ==
    /\ mu = Op("loggedOut", i)
    /\ devices' = [devices EXCEPT ![i] = None]
    /\ \/ mapping' = [mapping EXCEPT ![i] = None] /\ UNCHANGED spent
       \/ DbFails /\ UNCHANGED mapping
    /\ mu' = Free
    /\ UNCHANGED <<sess, phone, pairing, handler, boot>>

-----------------------------------------------------------------------------
\* Restart and RestoreDevices.

\* The process dies and starts again: the table and the paired sessions remain.
Restart ==
    /\ spent.crash < MaxCrashes
    /\ spent' = [spent EXCEPT !.crash = @ + 1]
    /\ saved' = [i \in Id |-> IF devices[i] # None /\ mapping[i] = phone[devices[i]]
                              THEN devices[i] ELSE None]
    /\ mu' = Free
    /\ devices' = [i \in Id |-> None]
    /\ sess' = [c \in Client |-> IF sess[c] = "qr" THEN "gone" ELSE sess[c]]
    /\ shown' = [c \in Client |-> FALSE]
    /\ qr' = [c \in Client |-> Closed]
    /\ name' = [c \in Client |-> None]
    /\ gpc' = [c \in Client |-> "off"]
    /\ attached' = {}
    /\ hpc' = [h \in Id \X Client |-> "idle"]
    /\ booted' = FALSE
    /\ chosen' = [p \in Phone |-> None]
    /\ todo' = {}
    /\ shared' = {}
    /\ UNCHANGED <<mapping, phone>>

\* main calls it after the plugins have started, so after their pollers may
\* have called CreateDevice.  It keeps one store per account.
RestoreDevices ==
    /\ ~booted
    /\ mu = Free
    /\ booted' = TRUE
    /\ \/ /\ mu' = Op("restore", None)
          /\ chosen' \in
               {f \in [Phone -> Client \cup {None}] : \A p \in Phone :
                   LET of == {c \in Client : Live(c) /\ phone[c] = p}
                   IN  IF of = {} THEN f[p] = None ELSE f[p] \in of}
          /\ todo' = {<<i, mapping[i]>> : i \in {j \in Id : mapping[j] # None}}
          /\ shared' = shared \cup {i \in Id : /\ mapping[i] # None
                                             /\ \E d \in Client : Active(i, d)}
          /\ UNCHANGED spent
       \/ DbFails /\ UNCHANGED <<mu, chosen, todo, shared>>
    /\ UNCHANGED <<devices, db, pairing, attached, hpc, saved>>

\* Variant: an ID that a poller has registered meanwhile is skipped.
RestoreOne_Skips(i, p) ==
    LET c == chosen[p]
    IN  /\ mu = Op("restore", None)
        /\ <<i, p>> \in todo
        /\ todo' = todo \ {<<i, p>>}
        /\ IF Live(c) /\ devices[i] = None
           THEN Attach(i, c) /\ devices' = [devices EXCEPT ![i] = c]
           ELSE UNCHANGED <<devices, attached, shared>>
        /\ UNCHANGED <<mu, db, pairing, hpc, booted, chosen, saved, spent>>

RestoreOne(i, p) ==
    LET c == chosen[p]
    IN  /\ mu = Op("restore", None)
        /\ <<i, p>> \in todo
        /\ todo' = todo \ {<<i, p>>}
        /\ \/ /\ Live(c)
              /\ Attach(i, c)
              /\ devices' = [devices EXCEPT ![i] = c]
              /\ UNCHANGED spent
           \/ /\ Live(c)
              /\ NetFails
              /\ UNCHANGED <<devices, attached, shared>>
           \/ /\ ~Live(c)
              /\ UNCHANGED <<devices, attached, shared, spent>>
        /\ UNCHANGED <<mu, db, pairing, hpc, booted, chosen, saved>>

RestoreReturns ==
    /\ mu = Op("restore", None)
    /\ todo = {}
    /\ mu' = Free
    /\ UNCHANGED <<devices, db, pairing, handler, boot, spent>>

-----------------------------------------------------------------------------
Next ==
    \/ \E c \in Client : EmitCode(c)
    \/ \E c \in Client, p \in Phone : PairSuccess(c, p)
    \/ \E c \in Client : QRTimeout(c)
    \/ \E i \in Id, c \in Client : LoggedOut(i, c)
    \/ \E i \in Id, c \in Client : HandlerUnregisters(i, c)
    \/ \E i \in Id, c \in Client : HandlerDeletes(i, c)
    \/ \E c \in Client, req \in Id \cup {None} : CreateDevice(c, req)
    \/ CreateFails
    \/ \E c \in Client : CreateReturns(c)
    \/ \E c \in Client : QRGoroutine(c)
    \/ \E c \in Client : Register(c)
    \/ \E c \in Client : SaveMapping(c)
    \/ \E i \in Id : LogoutDevice(i)
    \/ \E i \in Id : LogoutCall(i)
    \/ \E i \in Id : LogoutReturns(i)
    \/ Restart
    \/ RestoreDevices
    \/ \E i \in Id, p \in Phone : RestoreOne(i, p)
    \/ RestoreReturns

Spec == Init /\ [][Next]_vars

\* Goroutines that can run do, Go's mutex starves no one who waits for it, calls
\* of whatsmeow return, and a QR channel that is not paired is closed in the end.
Fairness ==
    /\ \A c \in Client :
          /\ WF_vars(QRTimeout(c)) /\ WF_vars(CreateReturns(c))
          /\ WF_vars(QRGoroutine(c)) /\ SF_vars(Register(c)) /\ WF_vars(SaveMapping(c))
    /\ \A i \in Id, c \in Client :
          SF_vars(HandlerUnregisters(i, c)) /\ WF_vars(HandlerDeletes(i, c))
    /\ \A i \in Id : WF_vars(LogoutCall(i)) /\ WF_vars(LogoutReturns(i))
    /\ WF_vars(\E i \in Id, p \in Phone : RestoreOne(i, p)) /\ WF_vars(RestoreReturns)

FairSpec == Spec /\ Fairness

-----------------------------------------------------------------------------
\* Properties.

\* Every variable has its type.
TypeOK ==
    /\ mu.op \in {"free", "create", "logout", "loggedOut", "restore"}
    /\ mu.on \in Id \cup Client \cup {None}
    /\ devices \in [Id -> Client \cup {None}]
    /\ mapping \in [Id -> Phone \cup {None}]
    /\ sess \in [Client -> {"none", "qr", "live", "gone"}]
    /\ phone \in [Client -> Phone \cup {None}]
    /\ shown \in [Client -> BOOLEAN]
    /\ qr \in [Client -> [buf : Seq({"code", "success"}), open : BOOLEAN, sent : Nat]]
    /\ name \in [Client -> Id \cup {None}]
    /\ gpc \in [Client -> {"off", "recv", "lock", "save"}]
    /\ attached \subseteq Id \X Client
    /\ hpc \in [Id \X Client -> {"idle", "lock", "delete"}]
    /\ booted \in BOOLEAN
    /\ chosen \in [Phone -> Client \cup {None}]
    /\ todo \subseteq Id \X Phone
    /\ spent \in [db : Nat, net : Nat, crash : Nat]
    /\ shared \subseteq Id
    /\ saved \in [Id -> Client \cup {None}]

\* A device that is registered, and so may be sent through, completed its
\* pairing, and the events of its client carry the ID it is registered under.
RegisteredWasPaired ==
    \A i \in Id : devices[i] # None =>
        phone[devices[i]] # None /\ <<i, devices[i]>> \in attached

\* A registered device whose session is alive is in the table with its account,
\* and so survives a restart, unless its goroutine is about to save it, an SQL
\* error came between, or two clients were active under its ID at a time.
RegisteredIsSaved ==
    \A i \in Id : LET c == devices[i] IN
        /\ c # None /\ i \notin shared /\ spent.db = 0
        /\ Live(c) /\ ~(gpc[c] = "save" /\ name[c] = i)
        => mapping[i] = phone[c]

\* A device whose session is alive leaves the registry only by a LogoutDevice
\* of its own, or a restart; unless two clients were active under its ID.
UnregisteredForCause ==
    [][\A i \in Id : LET c == devices[i] IN
          c # None /\ Live(c) /\ devices'[i] # c
          => mu = Op("loggedOut", i) \/ spent'.crash > spent.crash \/ i \in shared']_vars

\* What main restarts comes back: when RestoreDevices ends, and no Connect
\* failed, every device that was registered and in the table at the crash, whose
\* row and session are still there, is registered with its session; unless its
\* account had another session, or a second client was active under the ID.
RestoreRecovers ==
    mu.op = "restore" /\ todo = {} /\ spent.net = 0 =>
        \A i \in Id : LET c == saved[i] IN
            /\ Live(c) /\ mapping[i] = phone[c] /\ i \notin shared
            /\ \A d \in Client \ {c} : phone[d] # phone[c]
            => devices[i] = c

\* No deadlock over m.mu: CreateDevice, which waits for the QR channel while
\* it holds the lock that the other receiver of this channel needs, returns,
\* and so does every other holder; every paired client is registered, and every
\* LoggedOut handled to its end.
LockIsReleased ==
    /\ (mu # Free) ~> (mu = Free)
    /\ \A c \in Client : (gpc[c] = "lock") ~> (gpc[c] # "lock")
    /\ \A i \in Id, c \in Client : (hpc[<<i, c>>] # "idle") ~> (hpc[<<i, c>>] = "idle")
=============================================================================
