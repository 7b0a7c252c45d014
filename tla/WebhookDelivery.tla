-------------------------- MODULE WebhookDelivery --------------------------
(***************************************************************************)
(* The webhook plugin: the table webhook_queue (database.go), which the    *)
(* subscriber fills with every event, and the single goroutine that posts  *)
(* its rows (delivery.go), with crashes and restarts, and the store-only   *)
(* mode that an empty URL selects at the start.                            *)
(*                                                                         *)
(* Every SQL statement is one step, and so is the POST.  The service needs *)
(* no shutdown: nobody calls the plugin's Stop.  An event has one row; the *)
(* payload, the upload of its media and the address itself are left out.   *)
(* One unit of time is a minute; created_at is compared, its ties are not  *)
(* resolved.  The process runs in UTC, the zone of created_at.             *)
(***************************************************************************)
EXTENDS RetryDelay, Sequences, FiniteSets

CONSTANTS
    Event,          \* published events
    Limit,          \* rows per batch (10)
    Day,            \* age up to which a row is tried (24 h)
    Week,           \* age after which a row is removed (7 days)
    MaxTime,        \* bound: the clock stops here
    MaxDbErrors,    \* bound: failing SQL statements
    MaxHttpErrors,  \* bound: POSTs that return an error
    MaxCrashes      \* bound: crashes

ASSUME Types ==
    /\ IsFiniteSet(Event)
    /\ Limit \in Nat \ {0}
    /\ {Day, Week, MaxTime, MaxDbErrors, MaxHttpErrors, MaxCrashes} \subseteq Nat
    /\ Day <= Week

\* A row is too old for another attempt before its delay is capped twice, and
\* long before the shift leaves its width: 1440 minutes, 1440 and 2^63.
ASSUME AgeLimit == Day <= MaxBackoff /\ Day + 1 < Pow2[Width]

VARIABLES
    now,            \* the clock
    row,            \* the table: one row, or NoRow, per event
    hasUrl,         \* the process was started with a webhook URL
    batch,          \* webhooks still to handle, the one in hand first
    pc,             \* position of the worker
    att,            \* attempts read by MarkFailed
    spent,          \* faults used up, against the bounds
    stored,         \* history: events that got a row
    accepts,        \* history: times the receiver took the event
    lost            \* history: of these, answers that did not come back

history == <<stored, accepts, lost>>
vars    == <<now, row, hasUrl, batch, pc, att, spent, history>>

Status == {"none", "pending", "processing", "success", "failed"}
Pc     == {"idle", "next", "send", "failRead", "failWrite", "success", "cleanup"}

NoRow == [st |-> "none", url |-> FALSE, att |-> 0, created |-> 0, retry |-> 0]
Rows  == [st : Status, url : BOOLEAN, att : Nat, created : Nat, retry : Nat]

-----------------------------------------------------------------------------
\* The WHERE clause of GetPending.  Variant: rows in processing as well.
Due_WithProcessing(e) ==
    /\ row[e].st \in {"pending", "failed", "processing"}
    /\ row[e].retry <= now
    /\ row[e].created >= now - Day

\* The WHERE clause of GetPending; next_retry unset is 0.
Due(e) ==
    /\ row[e].st \in {"pending", "failed"}
    /\ row[e].retry <= now
    /\ row[e].created >= now - Day

DueRows == {e \in Event : Due(e)}

BatchSize == IF Cardinality(DueRows) < Limit THEN Cardinality(DueRows) ELSE Limit

\* Variant: no ORDER BY.
GetPending_Unordered ==
    {b \in [1..BatchSize -> DueRows] :
        \A j, k \in 1..BatchSize : b[j] = b[k] => j = k}

\* The oldest due rows, oldest first.
GetPending ==
    {b \in [1..BatchSize -> DueRows] :
        /\ \A j, k \in 1..BatchSize :
              /\ b[j] = b[k] => j = k
              /\ j < k => row[b[j]].created <= row[b[k]].created
        /\ \A k \in 1..BatchSize, e \in DueRows :
              (\A j \in 1..BatchSize : b[j] # e) => row[b[k]].created <= row[e].created}

Updated(e, r) == [row EXCEPT ![e] = r]

\* The worker has the first row of the batch in hand.
Holding == {"send", "failRead", "failWrite", "success"}
InHand(e) == pc \in Holding /\ Head(batch) = e

DbFails == spent.db < MaxDbErrors /\ spent' = [spent EXCEPT !.db = @ + 1]

-----------------------------------------------------------------------------
\* A first start, with or without a URL.
Init ==
    /\ now = 0
    /\ row = [e \in Event |-> NoRow]
    /\ hasUrl \in BOOLEAN
    /\ batch = <<>> /\ pc = "idle" /\ att = 0
    /\ spent = [db |-> 0, http |-> 0, crash |-> 0]
    /\ stored = {}
    /\ accepts = [e \in Event |-> 0]
    /\ lost = [e \in Event |-> 0]

\* The goroutine of a topic handles an event.  If the INSERT fails, the event
\* is only logged: that is as if it had not been published.
Enqueue(e) ==
    /\ e \notin stored
    /\ row' = [row EXCEPT ![e] = [st |-> "pending", url |-> hasUrl, att |-> 0,
                                  created |-> now, retry |-> 0]]
    /\ stored' = stored \cup {e}
    /\ UNCHANGED <<now, hasUrl, batch, pc, att, spent, accepts, lost>>

-----------------------------------------------------------------------------
\* The worker.

Goto(label) == pc' = label

\* On to the next row of the batch.
Continue ==
    /\ batch' = Tail(batch)
    /\ pc' = "next"

\* The ticker fires.  Without a URL only the cleanup follows.
ProcessPending ==
    /\ pc = "idle"
    /\ \/ /\ hasUrl
          /\ batch' \in GetPending
          /\ Goto("next")
          /\ UNCHANGED spent
       \/ hasUrl /\ DbFails /\ UNCHANGED <<batch, pc>>
       \/ ~hasUrl /\ Goto("cleanup") /\ UNCHANGED <<batch, spent>>
    /\ UNCHANGED <<now, row, hasUrl, att, history>>

\* Variant: a row without a URL ends the loop.
SkipRow_Returns ==
    /\ pc = "next" /\ batch # <<>>
    /\ ~row[Head(batch)].url
    /\ batch' = <<>>
    /\ pc' = "next"
    /\ UNCHANGED <<now, row, hasUrl, att, spent, history>>

\* A row stored without a URL is not posted, and stays pending.
SkipRow ==
    /\ pc = "next" /\ batch # <<>>
    /\ ~row[Head(batch)].url
    /\ Continue
    /\ UNCHANGED <<now, row, hasUrl, att, spent, history>>

\* Marked, or passed over for this batch when the UPDATE fails.
MarkProcessing ==
    /\ pc = "next" /\ batch # <<>>
    /\ row[Head(batch)].url
    /\ \/ /\ row' = Updated(Head(batch), [row[Head(batch)] EXCEPT !.st = "processing"])
          /\ Goto("send")
          /\ UNCHANGED <<batch, spent>>
       \/ DbFails /\ Continue /\ UNCHANGED row
    /\ UNCHANGED <<now, hasUrl, att, history>>

\* The POST: a 2xx answer, or an error, after which the receiver may still
\* have taken the event.
Deliver ==
    /\ pc = "send"
    /\ LET e == Head(batch)
       IN  \/ /\ accepts' = [accepts EXCEPT ![e] = @ + 1]
              /\ Goto("success")
              /\ UNCHANGED <<lost, spent>>
           \/ /\ spent.http < MaxHttpErrors
              /\ spent' = [spent EXCEPT !.http = @ + 1]
              /\ Goto("failRead")
              /\ \/ /\ accepts' = [accepts EXCEPT ![e] = @ + 1]
                    /\ lost' = [lost EXCEPT ![e] = @ + 1]
                 \/ UNCHANGED <<accepts, lost>>
    /\ UNCHANGED <<now, row, hasUrl, batch, att, stored>>

\* MarkFailed's SELECT; after an error the row stays as it is.
MarkFailedRead ==
    /\ pc = "failRead"
    /\ \/ /\ att' = row[Head(batch)].att
          /\ Goto("failWrite")
          /\ UNCHANGED <<batch, spent>>
       \/ DbFails /\ Continue /\ UNCHANGED att
    /\ UNCHANGED <<now, row, hasUrl, history>>

\* Variant: the UPDATE does not set the status.
MarkFailedWrite_KeepsStatus ==
    /\ pc = "failWrite"
    /\ row' = Updated(Head(batch), [row[Head(batch)] EXCEPT !.att = att + 1,
                                        !.retry = now + Backoff(att + 1)])
    /\ Continue
    /\ att' = 0
    /\ UNCHANGED <<now, hasUrl, spent, history>>

\* MarkFailed's UPDATE.
MarkFailedWrite ==
    /\ pc = "failWrite"
    /\ \/ /\ row' = Updated(Head(batch), [row[Head(batch)] EXCEPT
                                            !.st = "failed", !.att = att + 1,
                                            !.retry = now + Backoff(att + 1)])
          /\ UNCHANGED spent
       \/ DbFails /\ UNCHANGED row
    /\ Continue
    /\ att' = 0
    /\ UNCHANGED <<now, hasUrl, history>>

\* Variant: a status that no query knows.
MarkSuccess_Completed ==
    /\ pc = "success"
    /\ row' = Updated(Head(batch), [row[Head(batch)] EXCEPT !.st = "completed"])
    /\ Continue
    /\ UNCHANGED <<now, hasUrl, att, spent, history>>

MarkSuccess ==
    /\ pc = "success"
    /\ \/ /\ row' = Updated(Head(batch), [row[Head(batch)] EXCEPT !.st = "success"])
          /\ UNCHANGED spent
       \/ DbFails /\ UNCHANGED row
    /\ Continue
    /\ UNCHANGED <<now, hasUrl, att, history>>

BatchDone ==
    /\ pc = "next" /\ batch = <<>>
    /\ Goto("cleanup")
    /\ UNCHANGED <<now, row, hasUrl, batch, att, spent, history>>

\* Variant: whatever the status.
CleanupOld_All ==
    /\ pc = "cleanup"
    /\ \/ /\ row' = [e \in Event |-> IF row[e].created < now - Week THEN NoRow ELSE row[e]]
          /\ UNCHANGED spent
       \/ DbFails /\ UNCHANGED row
    /\ Goto("idle")
    /\ UNCHANGED <<now, hasUrl, batch, att, history>>

\* Rows that succeeded or failed.
CleanupOld ==
    /\ pc = "cleanup"
    /\ \/ /\ row' = [e \in Event |->
                       IF row[e].created < now - Week /\ row[e].st \in {"success", "failed"}
                       THEN NoRow ELSE row[e]]
          /\ UNCHANGED spent
       \/ DbFails /\ UNCHANGED row
    /\ Goto("idle")
    /\ UNCHANGED <<now, hasUrl, batch, att, history>>

WorkerStep ==
    \/ SkipRow \/ MarkProcessing \/ Deliver \/ MarkFailedRead \/ MarkFailedWrite
    \/ MarkSuccess \/ BatchDone \/ CleanupOld

-----------------------------------------------------------------------------
\* The process dies and starts again, with or without a URL.
Restart ==
    /\ spent.crash < MaxCrashes
    /\ spent' = [spent EXCEPT !.crash = @ + 1]
    /\ hasUrl' \in BOOLEAN
    /\ batch' = <<>> /\ pc' = "idle" /\ att' = 0
    /\ UNCHANGED <<now, row, history>>

Tick ==
    /\ now < MaxTime
    /\ now' = now + 1
    /\ UNCHANGED <<row, hasUrl, batch, pc, att, spent, history>>

Next ==
    \/ \E e \in Event : Enqueue(e)
    \/ ProcessPending
    \/ WorkerStep
    \/ Restart
    \/ Tick

Spec == Init /\ [][Next]_vars

\* The goroutine runs when it can, and its ticker fires again and again.
Fairness == WF_vars(ProcessPending) /\ WF_vars(WorkerStep)

FairSpec == Spec /\ Fairness

-----------------------------------------------------------------------------
\* Every variable keeps its type; the worker holds a row exactly between
\* MarkProcessing and MarkFailed or MarkSuccess (processPending).
TypeOK ==
    /\ now \in Nat
    /\ row \in [Event -> Rows]
    /\ hasUrl \in BOOLEAN
    /\ batch \in Seq(Event)
    /\ pc \in Pc
    /\ pc \in Holding => batch # <<>>
    /\ att \in Nat
    /\ spent \in [db : Nat, http : Nat, crash : Nat]
    /\ stored \subseteq Event
    /\ accepts \in [Event -> Nat]
    /\ lost \in [Event -> Nat]

\* The receiver takes an event once, and once more for every answer that was
\* lost on the way back: neither a crash nor a failing statement of
\* processPending makes the worker post an accepted event again.
AcceptsAccounted == \A e \in Event : accepts[e] <= 1 + lost[e]

\* There are never more rows left in processing, which GetPending does not
\* return, than SQL statements failed and crashes happened (MarkFailed and
\* MarkSuccess are reached on every path of processPending).
Stranded == {e \in Event : row[e].st = "processing" /\ ~InHand(e)}
StrandedOnlyByFault == Cardinality(Stranded) <= spent.db + spent.crash

\* The age limit of GetPending and the growing delay of MarkFailed bound the
\* attempts by the logarithm of the age limit.  With 1440 minutes the eleventh
\* attempt is the last, its delay is 1024, and the cap is never applied.
RetriesEnd == \A e \in Event : row[e].att > 0 => Pow2[row[e].att - 1] <= Day + 1

\* As long as no statement fails, the first attempt of an event does not
\* overtake the first attempt of an older one that is still young enough to
\* be sent, whatever batches, crashes and store-only phases lie between
\* (GetPending's ORDER BY created_at, processPending's loop).
FirstAttemptsInOrder ==
    spent.db = 0 =>
        \A e, f \in Event :
            InHand(e) /\ row[e].att = 0 /\ row[f].url /\ row[f].att = 0 /\ Due(f)
                => row[e].created <= row[f].created

\* CleanupOld takes no event away that was never sent: a row that leaves the
\* table is older than the limit, and the receiver took the event or an
\* attempt failed.
Removed(e) == row[e].st # "none" /\ row'[e].st = "none"
RemovedWasTried ==
    [][\A e \in Event : Removed(e) =>
            /\ row[e].created + Week < now
            /\ accepts[e] > 0 \/ row[e].att > 0]_vars

\* A due row with a URL is attempted, or grows too old, or the service is
\* restarted without a URL -- provided that fewer than a batch of rows
\* without a URL are as old: those are skipped, stay pending and come first
\* in every batch (GetPending's LIMIT, processPending's continue).
Skipped(e) == {f \in DueRows : ~row[f].url /\ row[f].created <= row[e].created}
DueIsAttempted ==
    \A e \in Event :
        hasUrl /\ Due(e) /\ row[e].url /\ Cardinality(Skipped(e)) < Limit
            ~> ~hasUrl \/ ~Due(e)

\* database.go:195 says that CleanupOld removes webhooks older than the
\* duration: after it has run without an error, none is left.  The DELETE
\* spares rows in pending and in processing, so in store-only mode, where
\* all rows are pending, it removes nothing.
OldIsRemoved ==
    [][pc = "cleanup" /\ pc' = "idle" /\ spent' = spent =>
            \A e \in Event : row'[e].st # "none" => row'[e].created >= now - Week]_vars
=============================================================================
