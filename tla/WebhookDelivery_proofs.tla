----------------------- MODULE WebhookDelivery_proofs -----------------------
(* Theorems about WebhookDelivery and their proofs. *)
EXTENDS WebhookDelivery, RetryDelay_proofs, FiniteSetTheorems

-----------------------------------------------------------------------------
\* A batch is a sequence of due rows without repetition.
LEMMA GetPendingBatch ==
    ASSUME NEW b \in GetPending
    PROVE  /\ b \in Seq(Event)
           /\ \A k \in 1..Len(b) : Due(b[k])
           /\ \A j, k \in 1..Len(b) : b[j] = b[k] => j = k
<1>1. DueRows \subseteq Event
  BY DEF DueRows
<1>2. BatchSize \in Nat
  BY <1>1, Types, FS_Subset, FS_CardinalityType DEF BatchSize
<1>3. b \in [1..BatchSize -> DueRows]
  BY DEF GetPending
<1>4. Len(b) = BatchSize
  BY <1>2, <1>3
<1>5. b \in Seq(Event)
  BY <1>1, <1>2, <1>3
<1>6. \A k \in 1..Len(b) : Due(b[k])
  BY <1>3, <1>4 DEF DueRows
<1>7. \A j, k \in 1..Len(b) : b[j] = b[k] => j = k
  BY <1>4 DEF GetPending
<1> QED
  BY <1>5, <1>6, <1>7

-----------------------------------------------------------------------------
\* The rows of the batch that the worker has not come to.
Waiting(k) == k \in 1..Len(batch) /\ (pc \in Holding => k > 1)

\* Rows that wait are distinct, and none of them is in processing; the row in
\* hand is.  Outside the loop nothing waits.
BatchInv ==
    /\ pc \in {"idle", "cleanup"} => batch = <<>>
    /\ \A j, k \in 1..Len(batch) : batch[j] = batch[k] => j = k
    /\ \A k \in 1..Len(batch) :
          /\ batch[k] \in stored
          /\ Waiting(k) => row[batch[k]].st \in {"pending", "failed"}
    /\ pc \in Holding => row[batch[1]].st = "processing"

\* The receiver has every event whose row is marked, and no event whose row
\* is to be sent, unless an answer was lost.
AcceptInv ==
    \A e \in Event :
        /\ accepts[e] <= 1 + lost[e]
        /\ row[e].st \in {"pending", "failed"} => accepts[e] <= lost[e]
        /\ InHand(e) /\ pc # "success" => accepts[e] <= lost[e]
        /\ InHand(e) /\ pc = "success" => accepts[e] > 0
        /\ row[e].st = "success" => accepts[e] > 0
        /\ row[e].st = "failed" => row[e].att > 0
        /\ e \notin stored => row[e].st = "none" /\ accepts[e] = 0 /\ lost[e] = 0

WebhookInv == TypeOK /\ BatchInv /\ AcceptInv

\* The invariant holds at first.
LEMMA InitInv == Init => WebhookInv
<1> SUFFICES ASSUME Init PROVE WebhookInv
  OBVIOUS
<1> USE DEF Init, NoRow
<1>1. TypeOK
  BY DEF TypeOK, Rows, Status, Pc, Holding
<1>2. BatchInv
  BY DEF BatchInv, Waiting, Holding
<1>3. AcceptInv
  BY DEF AcceptInv, InHand, Holding
<1> QED
  BY <1>1, <1>2, <1>3 DEF WebhookInv

\* Dropping the row in hand, or a row that is skipped.
LEMMA ContinueBatch ==
    ASSUME TypeOK, batch # <<>>, Continue
    PROVE  /\ batch' \in Seq(Event)
           /\ Len(batch) \in Nat \ {0}
           /\ Len(batch') = Len(batch) - 1
           /\ \A k \in 1..Len(batch') : batch'[k] = batch[k + 1]
           /\ pc' = "next"
  BY DEF Continue, TypeOK

\* A failing statement keeps the counters' type.
LEMMA DbType ==
    ASSUME TypeOK, DbFails
    PROVE  spent' \in [db : Nat, http : Nat, crash : Nat]
  BY DEF TypeOK, DbFails

\* The row in hand.
LEMMA HeadType ==
    ASSUME TypeOK, batch # <<>>
    PROVE  /\ Head(batch) \in Event
           /\ Head(batch) = batch[1]
           /\ row[Head(batch)] \in Rows
  BY DEF TypeOK

\* An update of a row keeps the type of the table.
LEMMA UpdatedType ==
    ASSUME row \in [Event -> Rows], NEW e \in Event, NEW r \in Rows
    PROVE  Updated(e, r) \in [Event -> Rows]
  BY DEF Updated

\* Counting keeps the type of a count.
LEMMA CountType ==
    ASSUME NEW f \in [Event -> Nat], NEW e \in Event
    PROVE  [f EXCEPT ![e] = @ + 1] \in [Event -> Nat]
  OBVIOUS

\* Each step keeps the types.
LEMMA TypeStep == WebhookInv /\ [Next]_vars => TypeOK'
<1> SUFFICES ASSUME TypeOK, BatchInv, [Next]_vars PROVE TypeOK'
  BY DEF WebhookInv
<1> USE DEF history
<1>1. ASSUME NEW e \in Event, Enqueue(e) PROVE TypeOK'
  <2>1. row' \in [Event -> Rows]
    BY <1>1 DEF Enqueue, TypeOK, Rows, Status
  <2>2. stored' \subseteq Event
    BY <1>1 DEF Enqueue, TypeOK
  <2> QED
    BY <1>1, <2>1, <2>2 DEF Enqueue, TypeOK
<1>2. CASE ProcessPending
  <2>1. spent' \in [db : Nat, http : Nat, crash : Nat]
    BY <1>2, DbType DEF ProcessPending, TypeOK
  <2>2. batch' \in Seq(Event)
    BY <1>2, GetPendingBatch DEF ProcessPending, TypeOK
  <2>3. pc' \in Pc \ Holding
    BY <1>2 DEF ProcessPending, Goto, Pc, Holding
  <2> QED
    BY <1>2, <2>1, <2>2, <2>3 DEF ProcessPending, TypeOK
<1>3. CASE SkipRow
  <2>1. batch' \in Seq(Event) /\ pc' = "next"
    BY <1>3, ContinueBatch DEF SkipRow
  <2> QED
    BY <1>3, <2>1 DEF SkipRow, TypeOK, Pc, Holding
<1>4. CASE MarkProcessing
  <2>0. Head(batch) \in Event /\ row[Head(batch)] \in Rows
    BY <1>4, HeadType DEF MarkProcessing
  <2>1. row' \in [Event -> Rows]
    <3>1. [row[Head(batch)] EXCEPT !.st = "processing"] \in Rows
      BY <2>0 DEF Rows, Status
    <3>2. row' = Updated(Head(batch), [row[Head(batch)] EXCEPT !.st = "processing"])
            \/ row' = row
      BY <1>4 DEF MarkProcessing
    <3> QED
      BY <2>0, <3>1, <3>2, UpdatedType DEF TypeOK
  <2>2. spent' \in [db : Nat, http : Nat, crash : Nat]
    BY <1>4, DbType DEF MarkProcessing, TypeOK
  <2>3. CASE Goto("send") /\ UNCHANGED batch
    BY <1>4, <2>1, <2>2, <2>3 DEF MarkProcessing, Goto, TypeOK, Pc
  <2>4. CASE Continue
    <3>1. batch' \in Seq(Event) /\ pc' = "next"
      BY <1>4, <2>4, ContinueBatch DEF MarkProcessing
    <3> QED
      BY <1>4, <2>1, <2>2, <3>1 DEF MarkProcessing, TypeOK, Pc, Holding
  <2> QED
    BY <1>4, <2>3, <2>4 DEF MarkProcessing
<1>5. CASE Deliver
  <2>1. spent' \in [db : Nat, http : Nat, crash : Nat]
    BY <1>5 DEF Deliver, TypeOK
  <2>2. accepts' \in [Event -> Nat] /\ lost' \in [Event -> Nat]
    <3>1. Head(batch) \in Event
      BY <1>5, HeadType DEF Deliver, TypeOK, Holding
    <3> QED
      <4>1. /\ accepts' = [accepts EXCEPT ![Head(batch)] = @ + 1] \/ accepts' = accepts
            /\ lost' = [lost EXCEPT ![Head(batch)] = @ + 1] \/ lost' = lost
        BY <1>5 DEF Deliver
      <4>2. accepts \in [Event -> Nat] /\ lost \in [Event -> Nat]
        BY DEF TypeOK
      <4> QED
        BY <3>1, <4>1, <4>2, CountType
  <2>3. pc' \in Pc
    BY <1>5 DEF Deliver, Goto, Pc
  <2>4. batch # <<>>
    BY <1>5 DEF Deliver, TypeOK, Holding
  <2> QED
    BY <1>5, <2>1, <2>2, <2>3, <2>4 DEF Deliver, TypeOK
<1>6. CASE MarkFailedRead
  <2>1. batch # <<>>
    BY <1>6 DEF MarkFailedRead, TypeOK, Holding
  <2>2. att' \in Nat
    BY <1>6, <2>1, HeadType DEF MarkFailedRead, TypeOK, Rows
  <2>3. spent' \in [db : Nat, http : Nat, crash : Nat]
    BY <1>6, DbType DEF MarkFailedRead, TypeOK
  <2>4. CASE Goto("failWrite") /\ UNCHANGED batch
    BY <1>6, <2>1, <2>2, <2>3, <2>4 DEF MarkFailedRead, Goto, TypeOK, Pc
  <2>5. CASE Continue
    <3>1. batch' \in Seq(Event) /\ pc' = "next"
      BY <2>1, <2>5, ContinueBatch
    <3> QED
      BY <1>6, <2>2, <2>3, <3>1 DEF MarkFailedRead, TypeOK, Pc, Holding
  <2> QED
    BY <1>6, <2>4, <2>5 DEF MarkFailedRead
<1>7. CASE MarkFailedWrite
  <2>1. batch # <<>> /\ att + 1 \in Nat \ {0}
    BY <1>7 DEF MarkFailedWrite, TypeOK, Holding
  <2>2. Backoff(att + 1) \in Nat
    BY <2>1, BackoffValues
  <2>3. row' \in [Event -> Rows]
    <3>1. Head(batch) \in Event /\ row[Head(batch)] \in Rows
      BY <2>1, HeadType
    <3>2. now + Backoff(att + 1) \in Nat
      BY <2>2 DEF TypeOK
    <3> QED
      <4> DEFINE r == [row[Head(batch)] EXCEPT !.st = "failed", !.att = att + 1,
                                               !.retry = now + Backoff(att + 1)]
      <4>1. r \in Rows
        BY <2>1, <3>1, <3>2 DEF Rows, Status
      <4>2. row' = Updated(Head(batch), r) \/ row' = row
        BY <1>7 DEF MarkFailedWrite
      <4> QED
        BY <3>1, <4>1, <4>2, UpdatedType DEF TypeOK
  <2>4. spent' \in [db : Nat, http : Nat, crash : Nat]
    BY <1>7, DbType DEF MarkFailedWrite, TypeOK
  <2>5. batch' \in Seq(Event) /\ pc' = "next"
    BY <1>7, <2>1, ContinueBatch DEF MarkFailedWrite
  <2> QED
    BY <1>7, <2>3, <2>4, <2>5 DEF MarkFailedWrite, TypeOK, Pc, Holding
<1>8. CASE MarkSuccess
  <2>1. batch # <<>>
    BY <1>8 DEF MarkSuccess, TypeOK, Holding
  <2>2. row' \in [Event -> Rows]
    <3>1. Head(batch) \in Event /\ row[Head(batch)] \in Rows
      BY <2>1, HeadType
    <3>2. [row[Head(batch)] EXCEPT !.st = "success"] \in Rows
      BY <3>1 DEF Rows, Status
    <3>3. row' = Updated(Head(batch), [row[Head(batch)] EXCEPT !.st = "success"])
            \/ row' = row
      BY <1>8 DEF MarkSuccess
    <3> QED
      BY <3>1, <3>2, <3>3, UpdatedType DEF TypeOK
  <2>3. spent' \in [db : Nat, http : Nat, crash : Nat]
    BY <1>8, DbType DEF MarkSuccess, TypeOK
  <2>4. batch' \in Seq(Event) /\ pc' = "next"
    BY <1>8, <2>1, ContinueBatch DEF MarkSuccess
  <2> QED
    BY <1>8, <2>2, <2>3, <2>4 DEF MarkSuccess, TypeOK, Pc, Holding
<1>9. CASE BatchDone
  BY <1>9 DEF BatchDone, Goto, TypeOK, Pc, Holding
<1>10. CASE CleanupOld
  <2>1. row' \in [Event -> Rows]
    <3>1. NoRow \in Rows
      BY DEF NoRow, Rows, Status
    <3> QED
      BY <1>10, <3>1 DEF CleanupOld, TypeOK
  <2>2. spent' \in [db : Nat, http : Nat, crash : Nat]
    BY <1>10, DbType DEF CleanupOld, TypeOK
  <2> QED
    BY <1>10, <2>1, <2>2 DEF CleanupOld, Goto, TypeOK, Pc, Holding
<1>11. CASE Restart
  <2>1. spent' \in [db : Nat, http : Nat, crash : Nat]
    <3>1. spent' = [spent EXCEPT !.crash = @ + 1]
      BY <1>11 DEF Restart
    <3> QED
      BY <3>1 DEF TypeOK
  <2>2. batch' \in Seq(Event) /\ pc' \in Pc \ Holding /\ att' \in Nat
    BY <1>11 DEF Restart, Pc, Holding
  <2>3. hasUrl' \in BOOLEAN
    BY <1>11 DEF Restart
  <2>4. UNCHANGED <<now, row, stored, accepts, lost>>
    BY <1>11 DEF Restart
  <2> QED
    BY <2>1, <2>2, <2>3, <2>4 DEF TypeOK
<1>12. CASE Tick
  BY <1>12 DEF Tick, TypeOK
<1>13. CASE UNCHANGED vars
  BY <1>13 DEF vars, TypeOK
<1> QED
  BY <1>1, <1>2, <1>3, <1>4, <1>5, <1>6, <1>7, <1>8, <1>9, <1>10, <1>11, <1>12, <1>13
     DEF Next, WorkerStep

-----------------------------------------------------------------------------
\* What the worker does to the row in hand.
LEMMA UpdatedRow ==
    ASSUME TypeOK, NEW e \in Event, NEW r
    PROVE  /\ Updated(e, r)[e] = r
           /\ \A f \in Event \ {e} : Updated(e, r)[f] = row[f]
  BY DEF TypeOK, Updated

\* Once the worker is done with a row, the rows that waited still wait.
LEMMA BatchContinues ==
    ASSUME TypeOK, BatchInv, batch # <<>>, pc = "next" \/ pc \in Holding, Continue,
           \A f \in Event \ {batch[1]} : row'[f] = row[f],
           stored' = stored
    PROVE  BatchInv'
<1> DEFINE n == Len(batch)
<1>1. /\ n \in Nat \ {0}
      /\ Len(batch') = n - 1
      /\ \A k \in 1..(n - 1) : batch'[k] = batch[k + 1]
      /\ pc' = "next"
  BY ContinueBatch
<1>2. \A k \in 1..n : batch[k] \in Event
  BY DEF TypeOK
<1>3. \A j, k \in 1..n : batch[j] = batch[k] => j = k
  BY DEF BatchInv
<1>4. \A j, k \in 1..(n - 1) : batch'[j] = batch'[k] => j = k
  BY <1>1, <1>3
<1>5. ASSUME NEW k \in 1..(n - 1)
      PROVE  /\ batch'[k] \in stored
             /\ row'[batch'[k]].st \in {"pending", "failed"}
  <2>1. /\ k + 1 \in 1..n
        /\ k + 1 > 1
        /\ 1 \in 1..n
    BY <1>1
  <2>2. batch[k + 1] # batch[1]
    BY <2>1, <1>3
  <2>3. row'[batch[k + 1]] = row[batch[k + 1]]
    BY <2>1, <2>2, <1>2
  <2> QED
    BY <1>1, <2>1, <2>3 DEF BatchInv, Waiting
<1> QED
  BY <1>1, <1>4, <1>5 DEF BatchInv, Waiting, Holding

\* A row that Event holds once more is not touched by the others' steps.
LEMMA BatchStep == WebhookInv /\ [Next]_vars => BatchInv'
<1> SUFFICES ASSUME TypeOK, BatchInv, AcceptInv, [Next]_vars PROVE BatchInv'
  BY DEF WebhookInv
<1> USE DEF history
<1>0. \A k \in 1..Len(batch) : batch[k] \in Event
  BY DEF TypeOK
<1>1. ASSUME NEW e \in Event, Enqueue(e) PROVE BatchInv'
  <2>1. \A k \in 1..Len(batch) : batch[k] # e
    BY <1>1 DEF Enqueue, BatchInv
  <2>2. \A k \in 1..Len(batch) : row'[batch[k]] = row[batch[k]]
    BY <1>0, <1>1, <2>1 DEF Enqueue, TypeOK
  <2>3. stored \subseteq stored'
    BY <1>1 DEF Enqueue
  <2>4. pc \in Holding => 1 \in 1..Len(batch)
    BY DEF TypeOK
  <2> QED
    BY <1>1, <2>2, <2>3, <2>4 DEF Enqueue, BatchInv, Waiting
<1>2. CASE ProcessPending
  <2>1. CASE batch' \in GetPending /\ Goto("next")
    <3>1. \A k \in 1..Len(batch') : batch'[k] \in Event
      BY <2>1, GetPendingBatch
    <3>2. \A e \in Event : row[e].st \in {"pending", "failed"} => e \in stored
      BY DEF AcceptInv
    <3>3. \A k \in 1..Len(batch') : row[batch'[k]].st \in {"pending", "failed"}
      BY <2>1, GetPendingBatch DEF Due
    <3> QED
      BY <1>2, <2>1, <3>1, <3>2, <3>3, GetPendingBatch
         DEF ProcessPending, Goto, BatchInv, Waiting, Holding
  <2>2. CASE UNCHANGED batch /\ pc' \in {"idle", "cleanup"}
    BY <1>2, <2>2 DEF ProcessPending, BatchInv, Waiting, Holding
  <2> QED
    BY <1>2, <2>1, <2>2 DEF ProcessPending, Goto
<1>3. CASE SkipRow
  BY <1>3, BatchContinues DEF SkipRow
<1>4. CASE MarkProcessing
  <2>1. CASE Continue /\ UNCHANGED row
    BY <1>4, <2>1, BatchContinues DEF MarkProcessing
  <2>2. CASE /\ row' = Updated(Head(batch), [row[Head(batch)] EXCEPT !.st = "processing"])
             /\ Goto("send")
             /\ UNCHANGED batch
    <3>1. Head(batch) = batch[1] /\ Head(batch) \in Event /\ row[Head(batch)] \in Rows
      BY <1>4, HeadType DEF MarkProcessing
    <3>2. row'[batch[1]].st = "processing"
      BY <2>2, <3>1, UpdatedRow DEF Rows
    <3>3. \A k \in 1..Len(batch) : k > 1 => batch[k] # batch[1]
      BY DEF BatchInv
    <3>4. \A k \in 1..Len(batch) : k > 1 => row'[batch[k]] = row[batch[k]]
      BY <1>0, <2>2, <3>1, <3>3, UpdatedRow
    <3> QED
      BY <1>4, <2>2, <3>2, <3>4 DEF MarkProcessing, Goto, BatchInv, Waiting, Holding
  <2> QED
    BY <1>4, <2>1, <2>2 DEF MarkProcessing
<1>5. CASE Deliver
  BY <1>5 DEF Deliver, Goto, BatchInv, Waiting, Holding
<1>6. CASE MarkFailedRead
  <2>1. CASE Continue
    BY <1>6, <2>1, BatchContinues DEF MarkFailedRead, TypeOK, Holding
  <2>2. CASE Goto("failWrite") /\ UNCHANGED batch
    BY <1>6, <2>2 DEF MarkFailedRead, Goto, BatchInv, Waiting, Holding
  <2> QED
    BY <1>6, <2>1, <2>2 DEF MarkFailedRead
<1>7. CASE MarkFailedWrite
  <2>1. pc \in Holding /\ batch # <<>>
    BY <1>7 DEF MarkFailedWrite, TypeOK, Holding
  <2>2. \A f \in Event \ {batch[1]} : row'[f] = row[f]
    BY <1>7, <2>1, HeadType, UpdatedRow DEF MarkFailedWrite
  <2> QED
    BY <1>7, <2>1, <2>2, BatchContinues DEF MarkFailedWrite
<1>8. CASE MarkSuccess
  <2>1. pc \in Holding /\ batch # <<>>
    BY <1>8 DEF MarkSuccess, TypeOK, Holding
  <2>2. \A f \in Event \ {batch[1]} : row'[f] = row[f]
    BY <1>8, <2>1, HeadType, UpdatedRow DEF MarkSuccess
  <2> QED
    BY <1>8, <2>1, <2>2, BatchContinues DEF MarkSuccess
<1>9. CASE BatchDone
  BY <1>9 DEF BatchDone, Goto, BatchInv, Waiting, Holding
<1>10. CASE CleanupOld
  BY <1>10 DEF CleanupOld, Goto, BatchInv, Waiting, Holding
<1>11. CASE Restart
  BY <1>11 DEF Restart, BatchInv, Waiting, Holding
<1>12. CASE Tick
  BY <1>12 DEF Tick, BatchInv, Waiting
<1>13. CASE UNCHANGED vars
  BY <1>13 DEF vars, BatchInv, Waiting
<1> QED
  BY <1>1, <1>2, <1>3, <1>4, <1>5, <1>6, <1>7, <1>8, <1>9, <1>10, <1>11, <1>12, <1>13
     DEF Next, WorkerStep

-----------------------------------------------------------------------------
\* What AcceptInv says of one event.
Accounted(e) ==
    /\ accepts[e] <= 1 + lost[e]
    /\ row[e].st \in {"pending", "failed"} => accepts[e] <= lost[e]
    /\ InHand(e) /\ pc # "success" => accepts[e] <= lost[e]
    /\ InHand(e) /\ pc = "success" => accepts[e] > 0
    /\ row[e].st = "success" => accepts[e] > 0
    /\ row[e].st = "failed" => row[e].att > 0
    /\ e \notin stored => row[e].st = "none" /\ accepts[e] = 0 /\ lost[e] = 0

\* The counts and the row of an event.
LEMMA EventTypes ==
    ASSUME TypeOK, NEW e \in Event
    PROVE  accepts[e] \in Nat /\ lost[e] \in Nat /\ row[e] \in Rows
  BY DEF TypeOK

\* The row in hand is an event with a row in processing.
LEMMA HandInv ==
    ASSUME WebhookInv, pc \in Holding
    PROVE  /\ batch # <<>> /\ Len(batch) > 0 /\ 1 \in 1..Len(batch)
           /\ Head(batch) \in Event
           /\ Head(batch) = batch[1]
           /\ InHand(Head(batch))
           /\ Head(batch) \in stored
           /\ row[Head(batch)].st = "processing"
<1>1. batch # <<>> /\ TypeOK
  BY DEF WebhookInv, TypeOK
<1>2. Len(batch) > 0 /\ 1 \in 1..Len(batch)
  BY <1>1 DEF TypeOK
<1> QED
  BY <1>1, <1>2, HeadType DEF WebhookInv, BatchInv, InHand

\* Each step keeps the counts in agreement with status and position.
LEMMA AcceptStep == WebhookInv /\ [Next]_vars => AcceptInv'
<1> SUFFICES ASSUME WebhookInv, TypeOK, AcceptInv, [Next]_vars, NEW e \in Event
             PROVE  Accounted(e)'
  BY DEF WebhookInv, AcceptInv, Accounted
<1> USE DEF history
<1>a. Accounted(e)
  BY DEF AcceptInv, Accounted
<1>b. accepts[e] \in Nat /\ lost[e] \in Nat /\ row[e] \in Rows
  BY EventTypes
\* A step after which the worker has no row in hand and that leaves e's row
\* and its counts alone keeps what is said of e.
<1>c. ASSUME row'[e] = row[e], accepts'[e] = accepts[e], lost'[e] = lost[e],
             e \in stored => e \in stored', pc' \notin Holding
      PROVE  Accounted(e)'
  BY <1>a, <1>c DEF Accounted, InHand
<1>1. ASSUME NEW f \in Event, Enqueue(f) PROVE Accounted(e)'
  <2>1. CASE e = f
    <3>1. row'[e].st = "pending" /\ accepts[e] = 0 /\ lost[e] = 0
      BY <1>1, <2>1, <1>a DEF Enqueue, TypeOK, Accounted
    <3>2. ~InHand(e)
      BY <1>1, <2>1, HandInv DEF Enqueue, InHand
    <3> QED
      BY <1>1, <2>1, <3>1, <3>2 DEF Enqueue, Accounted, InHand
  <2>2. CASE e # f
    BY <1>1, <2>2, <1>a DEF Enqueue, TypeOK, Accounted, InHand
  <2> QED
    BY <2>1, <2>2
<1>2. CASE ProcessPending
  <2>1. pc' \notin Holding
    BY <1>2 DEF ProcessPending, Goto, Holding
  <2> QED
    BY <1>2, <2>1, <1>c DEF ProcessPending
<1>3. CASE SkipRow
  <2>1. pc' \notin Holding
    BY <1>3 DEF SkipRow, Continue, Holding
  <2> QED
    BY <1>3, <2>1, <1>c DEF SkipRow
<1>4. CASE MarkProcessing
  <2>1. CASE Continue /\ UNCHANGED row
    <3>1. pc' \notin Holding
      BY <2>1 DEF Continue, Holding
    <3> QED
      BY <1>4, <2>1, <3>1, <1>c DEF MarkProcessing
  <2>2. CASE /\ row' = Updated(Head(batch), [row[Head(batch)] EXCEPT !.st = "processing"])
             /\ Goto("send")
             /\ UNCHANGED batch
    <3>1. Head(batch) \in Event /\ Head(batch) = batch[1] /\ 1 \in 1..Len(batch)
      BY <1>4, HeadType DEF MarkProcessing, TypeOK
    <3>2. row[Head(batch)].st \in {"pending", "failed"} /\ Head(batch) \in stored
      BY <1>4, <3>1 DEF MarkProcessing, WebhookInv, BatchInv, Waiting, Holding
    <3>3. CASE e = Head(batch)
      <4>1. row'[e].st = "processing"
        BY <1>b, <2>2, <3>3, UpdatedRow DEF Rows
      <4> QED
        BY <1>4, <1>a, <2>2, <3>2, <3>3, <4>1
           DEF MarkProcessing, Goto, Accounted, InHand
    <3>4. CASE e # Head(batch)
      <4>1. row'[e] = row[e]
        BY <2>2, <3>1, <3>4, UpdatedRow
      <4> QED
        BY <1>4, <1>a, <2>2, <3>4, <4>1 DEF MarkProcessing, Goto, Accounted, InHand
    <3> QED
      BY <3>3, <3>4
  <2> QED
    BY <1>4, <2>1, <2>2 DEF MarkProcessing
<1>5. CASE Deliver
  <2>1. pc \in Holding
    BY <1>5 DEF Deliver, Holding
  <2>2. CASE e = Head(batch)
    <3>1. /\ accepts[e] <= lost[e] /\ e \in stored /\ row'[e].st = "processing"
          /\ stored' = stored /\ batch' = batch
      BY <1>5, <2>1, <2>2, <1>a, HandInv DEF Deliver, Accounted
    <3>2. \/ accepts'[e] = accepts[e] + 1 /\ lost'[e] = lost[e] /\ pc' = "success"
          \/ /\ pc' = "failRead"
             /\ \/ accepts'[e] = accepts[e] + 1 /\ lost'[e] = lost[e] + 1
                \/ accepts'[e] = accepts[e] /\ lost'[e] = lost[e]
      BY <1>5, <2>2 DEF Deliver, Goto, TypeOK
    <3> QED
      BY <3>1, <3>2, <1>b DEF Accounted
  <2>3. CASE e # Head(batch)
    <3>1. accepts'[e] = accepts[e] /\ lost'[e] = lost[e]
      BY <1>5, <2>3 DEF Deliver, TypeOK
    <3> QED
      BY <1>5, <1>a, <2>3, <3>1 DEF Deliver, Accounted, InHand
  <2> QED
    BY <2>2, <2>3
<1>6. CASE MarkFailedRead
  <2>1. CASE Continue
    <3>1. pc' \notin Holding
      BY <2>1 DEF Continue, Holding
    <3> QED
      BY <1>6, <3>1, <1>c DEF MarkFailedRead
  <2>2. CASE Goto("failWrite") /\ UNCHANGED batch
    BY <1>6, <2>2, <1>a DEF MarkFailedRead, Goto, Accounted, InHand, Holding
  <2> QED
    BY <1>6, <2>1, <2>2 DEF MarkFailedRead
<1>7. CASE MarkFailedWrite
  <2>1. /\ pc \in Holding /\ pc # "success" /\ pc' \notin Holding
        /\ UNCHANGED <<stored, accepts, lost>> /\ att \in Nat
    BY <1>7 DEF MarkFailedWrite, Continue, Holding, TypeOK
  <2>2. CASE row'[e] = row[e]
    BY <2>1, <2>2, <1>c
  <2>3. CASE row'[e] # row[e]
    <3> DEFINE r == [row[Head(batch)] EXCEPT !.st = "failed", !.att = att + 1,
                                             !.retry = now + Backoff(att + 1)]
    <3>1. row' = Updated(Head(batch), r)
      BY <1>7, <2>3 DEF MarkFailedWrite
    <3>2. e = Head(batch)
      BY <2>1, <2>3, <3>1, HandInv, UpdatedRow
    <3>3. row'[e].st = "failed" /\ row'[e].att = att + 1
      <4>1. r.st = "failed" /\ r.att = att + 1
        BY <1>b, <3>2 DEF Rows
      <4>2. row'[e] = r
        BY <3>1, <3>2, UpdatedRow
      <4> HIDE DEF r
      <4> QED
        BY <4>1, <4>2
    <3>4. accepts[e] <= lost[e] /\ e \in stored
      BY <1>a, <2>1, <3>2, HandInv DEF Accounted
    <3> QED
      BY <1>a, <2>1, <3>3, <3>4 DEF Accounted, InHand
  <2> QED
    BY <2>2, <2>3
<1>8. CASE MarkSuccess
  <2>1. /\ pc \in Holding /\ pc = "success" /\ pc' \notin Holding
        /\ UNCHANGED <<stored, accepts, lost>>
    BY <1>8 DEF MarkSuccess, Continue, Holding
  <2>2. CASE row'[e] = row[e]
    BY <2>1, <2>2, <1>c
  <2>3. CASE row'[e] # row[e]
    <3> DEFINE r == [row[Head(batch)] EXCEPT !.st = "success"]
    <3>1. row' = Updated(Head(batch), r)
      BY <1>8, <2>3 DEF MarkSuccess
    <3>2. e = Head(batch)
      BY <2>1, <2>3, <3>1, HandInv, UpdatedRow
    <3>3. row'[e].st = "success"
      BY <1>b, <3>1, <3>2, UpdatedRow DEF Rows
    <3>4. accepts[e] > 0 /\ e \in stored
      BY <1>a, <2>1, <3>2, HandInv DEF Accounted
    <3> QED
      BY <1>a, <2>1, <3>3, <3>4 DEF Accounted, InHand
  <2> QED
    BY <2>2, <2>3
<1>9. CASE BatchDone
  BY <1>9, <1>c DEF BatchDone, Goto, Holding
<1>10. CASE CleanupOld
  <2>1. row'[e] = row[e] \/ row'[e] = NoRow
    BY <1>10 DEF CleanupOld, TypeOK
  <2>2. pc' \notin Holding /\ UNCHANGED <<stored, accepts, lost>>
    BY <1>10 DEF CleanupOld, Goto, Holding
  <2>3. row'[e] = NoRow => Accounted(e)'
    BY <1>a, <2>2 DEF Accounted, InHand, NoRow
  <2> QED
    BY <2>1, <2>2, <2>3, <1>c
<1>11. CASE Restart
  BY <1>11, <1>c DEF Restart, Holding
<1>12. CASE Tick
  BY <1>12, <1>a DEF Tick, Accounted, InHand
<1>13. CASE UNCHANGED vars
  BY <1>13, <1>a DEF vars, Accounted, InHand
<1> QED
  BY <1>1, <1>2, <1>3, <1>4, <1>5, <1>6, <1>7, <1>8, <1>9, <1>10, <1>11, <1>12, <1>13
     DEF Next, WorkerStep

\* Types, the batch and the counts: the invariant that the properties of the
\* worker (processPending, MarkFailed, MarkSuccess) rest on.
THEOREM WebhookInvariant == Spec => []WebhookInv
<1>1. WebhookInv /\ [Next]_vars => WebhookInv'
  BY TypeStep, BatchStep, AcceptStep DEF WebhookInv
<1> QED
  BY InitInv, <1>1, PTL DEF Spec

\* Every variable keeps its type; the worker holds a row exactly between
\* MarkProcessing and the statement that ends its attempt.
THEOREM WebhookTypeInvariant == Spec => []TypeOK
<1>1. WebhookInv => TypeOK
  BY DEF WebhookInv
<1> QED
  BY WebhookInvariant, <1>1, PTL

\* For any number of events, faults and crashes, and any clock, the receiver
\* takes an event once, and once more for each answer that was lost.
THEOREM WebhookAcceptsAccounted == Spec => []AcceptsAccounted
<1>1. WebhookInv => AcceptsAccounted
  BY DEF WebhookInv, AcceptInv, AcceptsAccounted
<1> QED
  BY WebhookInvariant, <1>1, PTL

\* CleanupOld removes only old rows, whose event the receiver took or whose
\* attempt failed.
THEOREM WebhookRemovedWasTried == Spec => RemovedWasTried
<1> DEFINE A == \A e \in Event : Removed(e) => /\ row[e].created + Week < now
                                               /\ accepts[e] > 0 \/ row[e].att > 0
<1>1. WebhookInv /\ [Next]_vars => [A]_vars
  <2> SUFFICES ASSUME WebhookInv, Next, NEW e \in Event, Removed(e)
               PROVE  /\ row[e].created + Week < now
                      /\ accepts[e] > 0 \/ row[e].att > 0
    OBVIOUS
  <2> USE DEF history
  <2>1. TypeOK /\ row[e].st # "none" /\ row'[e].st = "none" /\ row[e] \in Rows
    BY EventTypes DEF WebhookInv, Removed
  <2>2. ASSUME NEW f \in Event, Enqueue(f) PROVE FALSE
    BY <2>1, <2>2 DEF Enqueue, TypeOK
  <2>3. CASE row' = row
    BY <2>1, <2>3
  <2>4. ASSUME NEW r, row' = Updated(Head(batch), r), r.st # "none", Head(batch) \in Event
        PROVE  FALSE
    BY <2>1, <2>4, UpdatedRow
  <2>5. CASE MarkProcessing
    <3>1. Head(batch) \in Event /\ row[Head(batch)] \in Rows
      BY <2>1, <2>5, HeadType DEF MarkProcessing
    <3>2. [row[Head(batch)] EXCEPT !.st = "processing"].st = "processing"
      BY <3>1 DEF Rows
    <3> QED
      BY <2>3, <2>4, <2>5, <3>1, <3>2 DEF MarkProcessing
  <2>6. CASE MarkFailedWrite
    <3> DEFINE r == [row[Head(batch)] EXCEPT !.st = "failed", !.att = att + 1,
                                             !.retry = now + Backoff(att + 1)]
    <3>1. Head(batch) \in Event /\ row[Head(batch)] \in Rows
      BY <2>1, <2>6, HandInv, HeadType DEF MarkFailedWrite, Holding
    <3>2. r.st = "failed"
      BY <3>1 DEF Rows
    <3>3. row' = Updated(Head(batch), r) \/ row' = row
      BY <2>6 DEF MarkFailedWrite
    <3> QED
      BY <2>3, <2>4, <3>1, <3>2, <3>3
  <2>7. CASE MarkSuccess
    <3> DEFINE r == [row[Head(batch)] EXCEPT !.st = "success"]
    <3>1. Head(batch) \in Event /\ row[Head(batch)] \in Rows
      BY <2>1, <2>7, HandInv, HeadType DEF MarkSuccess, Holding
    <3>2. r.st = "success"
      BY <3>1 DEF Rows
    <3>3. row' = Updated(Head(batch), r) \/ row' = row
      BY <2>7 DEF MarkSuccess
    <3> QED
      BY <2>3, <2>4, <3>1, <3>2, <3>3
  <2>8. CASE CleanupOld
    <3>1. row[e].created < now - Week /\ row[e].st \in {"success", "failed"}
      BY <2>1, <2>8 DEF CleanupOld, TypeOK
    <3>2. row[e].created + Week < now
      <4>1. Week \in Nat
        BY Types
      <4>2. now \in Nat
        BY <2>1 DEF TypeOK
      <4>3. row[e].created \in Nat
        BY <2>1 DEF Rows
      <4> QED
        BY <3>1, <4>1, <4>2, <4>3
    <3> QED
      BY <3>1, <3>2 DEF WebhookInv, AcceptInv
  <2>9. CASE ProcessPending \/ SkipRow \/ Deliver \/ MarkFailedRead \/ BatchDone
             \/ Restart \/ Tick
    BY <2>3, <2>9
       DEF ProcessPending, SkipRow, Deliver, MarkFailedRead, BatchDone, Restart, Tick
  <2> QED
    BY <2>2, <2>5, <2>6, <2>7, <2>8, <2>9 DEF Next, WorkerStep
<1> QED
  BY <1>1, WebhookInvariant, PTL DEF Spec, RemovedWasTried

-----------------------------------------------------------------------------
\* Rows in processing that nobody has in hand are at most as many as the
\* faults that left them there.
FaultInv == WebhookInv /\ StrandedOnlyByFault

\* The bound survives a step that strands no row, and one that strands the
\* row in hand and is a fault.
LEMMA StrandedCount ==
    ASSUME TypeOK, TypeOK', StrandedOnlyByFault,
           \/ Stranded' \subseteq Stranded /\ spent'.db + spent'.crash >= spent.db + spent.crash
           \/ /\ \E e \in Event : Stranded' \subseteq Stranded \cup {e}
              /\ spent'.db + spent'.crash = spent.db + spent.crash + 1
    PROVE  StrandedOnlyByFault'
<1> DEFINE S == Stranded  T == Stranded'
<1>1. IsFiniteSet(S) /\ S \subseteq Event /\ IsFiniteSet(T)
  BY Types, FS_Subset DEF Stranded
<1>2. Cardinality(S) \in Nat /\ Cardinality(T) \in Nat
  BY <1>1, FS_CardinalityType
<1>3. spent.db + spent.crash \in Nat /\ spent'.db + spent'.crash \in Nat
  <2>1. spent \in [db : Nat, http : Nat, crash : Nat]
    BY DEF TypeOK
  <2>2. spent' \in [db : Nat, http : Nat, crash : Nat]
    BY DEF TypeOK
  <2> QED
    BY <2>1, <2>2
<1>4. Cardinality(S) <= spent.db + spent.crash
  BY DEF StrandedOnlyByFault
<1>5. Cardinality(T) <= spent'.db + spent'.crash
  <2>1. CASE T \subseteq S /\ spent'.db + spent'.crash >= spent.db + spent.crash
    <3>1. Cardinality(T) <= Cardinality(S)
      BY <1>1, <2>1, FS_Subset
    <3> HIDE DEF S, T
    <3> QED
      BY <1>2, <1>3, <1>4, <2>1, <3>1
  <2>2. ASSUME NEW e \in Event, T \subseteq S \cup {e},
               spent'.db + spent'.crash = spent.db + spent.crash + 1
        PROVE  Cardinality(T) <= spent'.db + spent'.crash
    <3>1. IsFiniteSet(S \cup {e}) /\ Cardinality(S \cup {e}) <= Cardinality(S) + 1
      BY <1>1, <1>2, FS_AddElement
    <3>2. Cardinality(T) <= Cardinality(S \cup {e}) /\ Cardinality(S \cup {e}) \in Nat
      BY <2>2, <3>1, FS_Subset, FS_CardinalityType
    <3> HIDE DEF S, T
    <3> QED
      BY <1>2, <1>3, <1>4, <2>2, <3>1, <3>2
  <2> QED
    BY <2>1, <2>2
<1> QED
  BY <1>5 DEF StrandedOnlyByFault

\* After a step of the worker that ends an attempt or a passed-over row, the
\* rows that were stranded still are, and perhaps the one that was in hand.
LEMMA StrandedStep == FaultInv /\ [Next]_vars => StrandedOnlyByFault'
<1> SUFFICES ASSUME WebhookInv, TypeOK, TypeOK', BatchInv, StrandedOnlyByFault, [Next]_vars
             PROVE  StrandedOnlyByFault'
  BY TypeStep DEF FaultInv, WebhookInv
<1> USE DEF history
<1>a. spent \in [db : Nat, http : Nat, crash : Nat]
  BY DEF TypeOK
<1>b. /\ DbFails => spent'.db = spent.db + 1 /\ spent'.crash = spent.crash
      /\ spent' = spent => spent'.db + spent'.crash >= spent.db + spent.crash
  BY <1>a DEF DbFails
\* A step is harmless if it puts no row into processing and the row that is
\* in hand stays there.
<1>c. ASSUME \A e \in Event : row'[e].st = "processing" => row[e].st = "processing",
             pc \in Holding => pc' \in Holding /\ batch' = batch
      PROVE  Stranded' \subseteq Stranded
  BY <1>c DEF Stranded, InHand
\* A step that drops the row in hand strands that row at most.
<1>d. ASSUME \A e \in Event : row'[e].st = "processing" => row[e].st = "processing",
             pc' \notin Holding
      PROVE  /\ Stranded' \subseteq Stranded \cup {Head(batch)}
             /\ pc \notin Holding => Stranded' \subseteq Stranded
             /\ row'[Head(batch)].st # "processing" => Stranded' \subseteq Stranded
  BY <1>d DEF Stranded, InHand
<1>1. ASSUME NEW f \in Event, Enqueue(f) PROVE StrandedOnlyByFault'
  <2>1. \A e \in Event : row'[e].st = "processing" => row[e].st = "processing"
    BY <1>1 DEF Enqueue, TypeOK
  <2> QED
    BY <1>1, <1>b, <1>c, <2>1, StrandedCount DEF Enqueue
<1>2. CASE ProcessPending
  <2>1. pc \notin Holding /\ pc' \notin Holding /\ row' = row
    BY <1>2 DEF ProcessPending, Goto, Holding
  <2>2. spent'.db + spent'.crash >= spent.db + spent.crash
    BY <1>2, <1>a, <1>b DEF ProcessPending
  <2> QED
    BY <1>d, <2>1, <2>2, StrandedCount
<1>3. CASE SkipRow
  <2>1. pc \notin Holding /\ pc' \notin Holding /\ row' = row /\ spent' = spent
    BY <1>3 DEF SkipRow, Continue, Holding
  <2> QED
    BY <1>b, <1>d, <2>1, StrandedCount
<1>4. CASE MarkProcessing
  <2>1. pc \notin Holding /\ batch # <<>>
    BY <1>4 DEF MarkProcessing, Holding
  <2>2. CASE DbFails /\ Continue /\ UNCHANGED row
    <3>1. pc' \notin Holding
      BY <2>2 DEF Continue, Holding
    <3>2. spent'.db + spent'.crash >= spent.db + spent.crash
      BY <2>2, <1>a, <1>b
    <3> QED
      BY <1>d, <2>1, <2>2, <3>1, <3>2, StrandedCount
  <2>3. CASE /\ row' = Updated(Head(batch), [row[Head(batch)] EXCEPT !.st = "processing"])
             /\ Goto("send")
             /\ UNCHANGED <<batch, spent>>
    <3>1. Head(batch) \in Event /\ \A e \in Event \ {Head(batch)} : row'[e] = row[e]
      BY <2>1, <2>3, HeadType, UpdatedRow
    <3>2. pc' \in Holding /\ batch' = batch
      BY <2>3 DEF Goto, Holding
    <3>3. ASSUME NEW e \in Event, e \in Stranded'
          PROVE  e \in Stranded
      <4>1. row'[e].st = "processing" /\ e # Head(batch)
        BY <3>2, <3>3 DEF Stranded, InHand
      <4>2. row[e].st = "processing"
        BY <3>1, <4>1
      <4> QED
        BY <2>1, <4>2 DEF Stranded, InHand
    <3>4. Stranded' \subseteq Stranded
      BY <3>3 DEF Stranded
    <3> QED
      BY <1>b, <2>3, <3>4, StrandedCount
  <2> QED
    BY <1>4, <2>2, <2>3 DEF MarkProcessing
<1>5. CASE Deliver
  <2>1. pc' \in Holding /\ row' = row /\ batch' = batch
    BY <1>5 DEF Deliver, Goto, Holding
  <2>2. spent'.db + spent'.crash >= spent.db + spent.crash
    <3>1. spent' = spent \/ spent' = [spent EXCEPT !.http = @ + 1]
      BY <1>5 DEF Deliver
    <3> QED
      BY <3>1, <1>a
  <2> QED
    BY <1>c, <2>1, <2>2, StrandedCount
<1>6. CASE MarkFailedRead
  <2>1. pc \in Holding /\ row' = row
    BY <1>6 DEF MarkFailedRead, Holding
  <2>2. CASE Goto("failWrite") /\ UNCHANGED <<batch, spent>>
    <3>1. pc' \in Holding
      BY <2>2 DEF Goto, Holding
    <3> QED
      BY <1>b, <1>c, <2>1, <2>2, <3>1, StrandedCount
  <2>3. CASE DbFails /\ Continue
    <3>1. pc' \notin Holding
      BY <2>3 DEF Continue, Holding
    <3>2. spent'.db + spent'.crash = spent.db + spent.crash + 1
      BY <1>a, <1>b, <2>3
    <3> QED
      BY <1>d, <2>1, <3>1, <3>2, HandInv, StrandedCount
  <2> QED
    BY <1>6, <2>2, <2>3 DEF MarkFailedRead
<1>7. CASE MarkFailedWrite
  <2>1. pc \in Holding /\ pc' \notin Holding
    BY <1>7 DEF MarkFailedWrite, Continue, Holding
  <2>2. CASE DbFails /\ UNCHANGED row
    <3>1. spent'.db + spent'.crash = spent.db + spent.crash + 1
      BY <1>a, <1>b, <2>2
    <3> QED
      BY <1>d, <2>1, <2>2, <3>1, HandInv, StrandedCount
  <2> DEFINE r == [row[Head(batch)] EXCEPT !.st = "failed", !.att = att + 1,
                                           !.retry = now + Backoff(att + 1)]
  <2>3. CASE row' = Updated(Head(batch), r) /\ UNCHANGED spent
    <3>1. Head(batch) \in Event /\ row[Head(batch)] \in Rows
      BY <2>1, HandInv, HeadType
    <3>2. r.st = "failed"
      BY <3>1 DEF Rows
    <3> HIDE DEF r
    <3>3. row'[Head(batch)].st = "failed" /\ \A e \in Event \ {Head(batch)} : row'[e] = row[e]
      BY <2>3, <3>1, <3>2, UpdatedRow
    <3> QED
      BY <1>b, <1>d, <2>1, <2>3, <3>3, StrandedCount
  <2> QED
    BY <1>7, <2>2, <2>3 DEF MarkFailedWrite
<1>8. CASE MarkSuccess
  <2>1. pc \in Holding /\ pc' \notin Holding
    BY <1>8 DEF MarkSuccess, Continue, Holding
  <2>2. CASE DbFails /\ UNCHANGED row
    <3>1. spent'.db + spent'.crash = spent.db + spent.crash + 1
      BY <1>a, <1>b, <2>2
    <3> QED
      BY <1>d, <2>1, <2>2, <3>1, HandInv, StrandedCount
  <2> DEFINE r == [row[Head(batch)] EXCEPT !.st = "success"]
  <2>3. CASE row' = Updated(Head(batch), r) /\ UNCHANGED spent
    <3>1. Head(batch) \in Event /\ row[Head(batch)] \in Rows
      BY <2>1, HandInv, HeadType
    <3>2. r.st = "success"
      BY <3>1 DEF Rows
    <3> HIDE DEF r
    <3>3. row'[Head(batch)].st = "success" /\ \A e \in Event \ {Head(batch)} : row'[e] = row[e]
      BY <2>3, <3>1, <3>2, UpdatedRow
    <3> QED
      BY <1>b, <1>d, <2>1, <2>3, <3>3, StrandedCount
  <2> QED
    BY <1>8, <2>2, <2>3 DEF MarkSuccess
<1>9. CASE BatchDone
  <2>1. pc \notin Holding /\ pc' \notin Holding /\ row' = row /\ spent' = spent
    BY <1>9 DEF BatchDone, Goto, Holding
  <2> QED
    BY <1>b, <1>d, <2>1, StrandedCount
<1>10. CASE CleanupOld
  <2>1. pc \notin Holding /\ pc' \notin Holding
    BY <1>10 DEF CleanupOld, Goto, Holding
  <2>2. \A e \in Event : row'[e].st = "processing" => row[e].st = "processing"
    <3>1. \A e \in Event : row'[e] = row[e] \/ row'[e] = NoRow
      BY <1>10 DEF CleanupOld, TypeOK
    <3> QED
      BY <3>1 DEF NoRow
  <2>3. spent'.db + spent'.crash >= spent.db + spent.crash
    BY <1>10, <1>a, <1>b DEF CleanupOld
  <2> QED
    BY <1>d, <2>1, <2>2, <2>3, StrandedCount
<1>11. CASE Restart
  <2>1. pc' \notin Holding /\ row' = row
    BY <1>11 DEF Restart, Holding
  <2>2. spent' = [spent EXCEPT !.crash = @ + 1]
    BY <1>11 DEF Restart
  <2>3. /\ spent'.db + spent'.crash = spent.db + spent.crash + 1
        /\ spent'.db + spent'.crash >= spent.db + spent.crash
    BY <1>a, <2>2
  <2>4. CASE pc \in Holding
    BY <1>d, <2>1, <2>3, <2>4, HandInv, StrandedCount
  <2>5. CASE pc \notin Holding
    BY <1>d, <2>1, <2>3, <2>5, StrandedCount
  <2> QED
    BY <2>4, <2>5
<1>12. CASE Tick
  BY <1>12, <1>b, <1>c, StrandedCount DEF Tick
<1>13. CASE UNCHANGED vars
  BY <1>13, <1>b, <1>c, StrandedCount DEF vars
<1> QED
  BY <1>1, <1>2, <1>3, <1>4, <1>5, <1>6, <1>7, <1>8, <1>9, <1>10, <1>11, <1>12, <1>13
     DEF Next, WorkerStep

\* Every row that stays in processing unattended is the mark of a failed SQL
\* statement or of a crash of its own.
THEOREM WebhookStrandedOnlyByFault == Spec => []StrandedOnlyByFault
<1>1. Init => FaultInv
  <2> SUFFICES ASSUME Init PROVE StrandedOnlyByFault
    BY InitInv DEF FaultInv
  <2>1. Stranded = {}
    BY DEF Init, Stranded, NoRow
  <2> QED
    BY <2>1, FS_EmptySet DEF StrandedOnlyByFault, Init
<1>2. FaultInv /\ [Next]_vars => FaultInv'
  BY StrandedStep, TypeStep, BatchStep, AcceptStep DEF FaultInv, WebhookInv
<1>3. FaultInv => StrandedOnlyByFault
  BY DEF FaultInv
<1> QED
  BY <1>1, <1>2, <1>3, PTL DEF Spec

-----------------------------------------------------------------------------
(* The order of first attempts.  The batch is in the order of age, and no row *)
(* that was never tried and is still to be sent is older and not in it: those *)
(* that leave the batch were tried, as long as no statement fails.            *)

Fresh(f) == row[f].url /\ row[f].att = 0 /\ Due(f)

\* A row that is not fresh, whatever the time.
Tried(r) == ~r.url \/ r.att # 0 \/ r.st = "success"

InBatch(f) == \E k \in 1..Len(batch) : batch[k] = f

Ordered ==
    /\ \A j, k \in 1..Len(batch) : j < k => row[batch[j]].created <= row[batch[k]].created
    /\ \A k \in 1..Len(batch), f \in Event :
          Fresh(f) /\ ~InBatch(f) => row[batch[k]].created <= row[f].created

\* No row is from the future, and only a failed attempt sets the next one.
TimeInv ==
    \A e \in Event : /\ row[e].created <= now
                     /\ row[e].att = 0 => row[e].retry = 0

OrderInv == TimeInv /\ (spent.db = 0 => Ordered)

\* Each step keeps the times of the rows.
LEMMA TimeStep == TypeOK /\ TimeInv /\ [Next]_vars => TimeInv'
<1> SUFFICES ASSUME TypeOK, TimeInv, [Next]_vars, NEW e \in Event
             PROVE  row'[e].created <= now' /\ (row'[e].att = 0 => row'[e].retry = 0)
  BY DEF TimeInv
<1>a. now \in Nat /\ row \in [Event -> Rows] /\ row[e] \in Rows /\ att \in Nat
  BY DEF TypeOK
<1>b. row[e].created <= now /\ (row[e].att = 0 => row[e].retry = 0)
  BY DEF TimeInv
<1>1. CASE UNCHANGED <<now, row>>
  BY <1>1, <1>b
<1>2. ASSUME NEW f \in Event, Enqueue(f)
      PROVE  row'[e].created <= now' /\ (row'[e].att = 0 => row'[e].retry = 0)
  BY <1>2, <1>a, <1>b DEF Enqueue
<1>3. ASSUME NEW f \in Event, NEW r, row' = Updated(f, r), UNCHANGED now,
             r.created = row[f].created, r.att = 0 => row[f].att = 0 /\ r.retry = row[f].retry
      PROVE  row'[e].created <= now' /\ (row'[e].att = 0 => row'[e].retry = 0)
  BY <1>3, <1>a, <1>b DEF Updated
<1>4. CASE MarkProcessing
  <2>1. Head(batch) \in Event /\ row[Head(batch)] \in Rows
    BY <1>4, HeadType DEF MarkProcessing
  <2>2. CASE row' = Updated(Head(batch), [row[Head(batch)] EXCEPT !.st = "processing"])
    <3>1. PICK r : r = [row[Head(batch)] EXCEPT !.st = "processing"]
      OBVIOUS
    <3>2. /\ r.created = row[Head(batch)].created /\ r.att = row[Head(batch)].att
          /\ r.retry = row[Head(batch)].retry
      BY <2>1, <3>1 DEF Rows
    <3> QED
      BY <1>3, <1>4, <2>1, <2>2, <3>1, <3>2 DEF MarkProcessing
  <2> QED
    BY <1>1, <1>4, <2>2 DEF MarkProcessing
<1>5. CASE MarkSuccess
  <2>1. Head(batch) \in Event /\ row[Head(batch)] \in Rows
    BY <1>5, HeadType DEF MarkSuccess, TypeOK, Holding
  <2>2. CASE row' = Updated(Head(batch), [row[Head(batch)] EXCEPT !.st = "success"])
    <3>1. PICK r : r = [row[Head(batch)] EXCEPT !.st = "success"]
      OBVIOUS
    <3>2. /\ r.created = row[Head(batch)].created /\ r.att = row[Head(batch)].att
          /\ r.retry = row[Head(batch)].retry
      BY <2>1, <3>1 DEF Rows
    <3> QED
      BY <1>3, <1>5, <2>1, <2>2, <3>1, <3>2 DEF MarkSuccess
  <2> QED
    BY <1>1, <1>5, <2>2 DEF MarkSuccess
<1>6. CASE MarkFailedWrite
  <2>1. Head(batch) \in Event /\ row[Head(batch)] \in Rows
    BY <1>6, HeadType DEF MarkFailedWrite, TypeOK, Holding
  <2>2. CASE row' = Updated(Head(batch), [row[Head(batch)] EXCEPT
                                            !.st = "failed", !.att = att + 1,
                                            !.retry = now + Backoff(att + 1)])
    <3>1. PICK r : r = [row[Head(batch)] EXCEPT !.st = "failed", !.att = att + 1,
                                                !.retry = now + Backoff(att + 1)]
      OBVIOUS
    <3>2. r.created = row[Head(batch)].created /\ r.att # 0
      BY <1>a, <2>1, <3>1 DEF Rows
    <3> QED
      BY <1>3, <1>6, <2>1, <2>2, <3>1, <3>2 DEF MarkFailedWrite
  <2> QED
    BY <1>1, <1>6, <2>2 DEF MarkFailedWrite
<1>7. CASE CleanupOld
  <2>1. (row'[e] = row[e] \/ row'[e] = NoRow) /\ now' = now
    BY <1>7, <1>a DEF CleanupOld
  <2> QED
    BY <1>a, <1>b, <2>1 DEF NoRow
<1>8. CASE Tick
  BY <1>8, <1>a, <1>b DEF Tick, Rows
<1>9. \/ UNCHANGED <<now, row>>
      \/ (\E f \in Event : Enqueue(f))
      \/ MarkProcessing \/ MarkSuccess \/ MarkFailedWrite \/ CleanupOld \/ Tick
  BY DEF Next, WorkerStep, ProcessPending, SkipRow, Deliver, MarkFailedRead, BatchDone,
         Restart, vars
<1> QED
  BY <1>1, <1>2, <1>4, <1>5, <1>6, <1>7, <1>8, <1>9

\* The batch stays in order if it loses its head at most, and no row out of it
\* becomes fresh.
LEMMA OrderKept ==
  ASSUME TypeOK, Ordered,
         \/ batch' = batch
         \/ batch # <<>> /\ Continue,
         \A k \in 1..Len(batch) : row'[batch[k]].created = row[batch[k]].created,
         \A f \in Event : Fresh(f)' /\ ~InBatch(f)' =>
            Fresh(f) /\ ~InBatch(f) /\ row'[f].created = row[f].created
  PROVE  Ordered'
<1>1. CASE batch' = batch
  BY <1>1 DEF Ordered
<1>2. CASE batch # <<>> /\ Continue
  <2>1. /\ Len(batch) \in Nat \ {0} /\ Len(batch') = Len(batch) - 1
        /\ \A k \in 1..Len(batch') : batch'[k] = batch[k + 1]
    BY <1>2, ContinueBatch
  <2>2. \A k \in 1..Len(batch') :
           /\ k + 1 \in 1..Len(batch)
           /\ row'[batch'[k]].created = row[batch[k + 1]].created
    BY <2>1
  <2>3. ASSUME NEW j \in 1..Len(batch'), NEW k \in 1..Len(batch'), j < k
        PROVE  row'[batch'[j]].created <= row'[batch'[k]].created
    <3>1. j + 1 \in 1..Len(batch) /\ k + 1 \in 1..Len(batch) /\ j + 1 < k + 1
      BY <2>1, <2>3
    <3>2. row[batch[j + 1]].created <= row[batch[k + 1]].created
      BY <3>1 DEF Ordered
    <3> QED
      BY <2>2, <3>2
  <2>4. ASSUME NEW k \in 1..Len(batch'), NEW f \in Event, Fresh(f)', ~InBatch(f)'
        PROVE  row'[batch'[k]].created <= row'[f].created
    <3>1. Fresh(f) /\ ~InBatch(f) /\ row'[f].created = row[f].created
      BY <2>4
    <3>2. row[batch[k + 1]].created <= row[f].created
      BY <2>2, <3>1 DEF Ordered
    <3> QED
      BY <2>2, <3>1, <3>2
  <2> QED
    BY <2>3, <2>4 DEF Ordered
<1> QED
  BY <1>1, <1>2

\* What leaves the batch is its head, and is not fresh.
LEMMA OrderContinues ==
  ASSUME TypeOK, Ordered, batch # <<>>, Continue, UNCHANGED now,
         Tried(row'[Head(batch)]), row'[Head(batch)].created = row[Head(batch)].created,
         \A f \in Event : f # Head(batch) => row'[f] = row[f]
  PROVE  Ordered'
<1>1. /\ Len(batch) \in Nat \ {0} /\ Len(batch') = Len(batch) - 1
      /\ \A k \in 1..Len(batch') : batch'[k] = batch[k + 1]
  BY ContinueBatch
<1>2. Head(batch) \in Event /\ Head(batch) = batch[1]
  BY HeadType
<1>3. \A k \in 1..Len(batch) : batch[k] \in Event
  BY DEF TypeOK
<1>4. \A k \in 1..Len(batch) : row'[batch[k]].created = row[batch[k]].created
  BY <1>3
<1>5. ASSUME NEW f \in Event, Fresh(f)', ~InBatch(f)'
      PROVE  Fresh(f) /\ ~InBatch(f) /\ row'[f].created = row[f].created
  <2>1. f # Head(batch)
    <3>1. ~Tried(row'[f])
      BY <1>5 DEF Fresh, Due, Tried
    <3> QED
      BY <3>1
  <2>2. row'[f] = row[f]
    BY <2>1
  <2>3. Fresh(f)
    BY <1>5, <2>2 DEF Fresh, Due
  <2>4. ASSUME NEW k \in 1..Len(batch), batch[k] = f PROVE FALSE
    <3>1. k # 1
      BY <1>2, <2>1, <2>4
    <3>2. k - 1 \in 1..Len(batch') /\ batch'[k - 1] = f
      BY <1>1, <2>4, <3>1
    <3> QED
      BY <1>5, <3>2 DEF InBatch
  <2> QED
    BY <2>2, <2>3, <2>4 DEF InBatch
<1> QED
  BY <1>4, <1>5, OrderKept

\* Each step keeps the order, unless a statement fails in it.
LEMMA OrderStep == WebhookInv /\ OrderInv /\ [Next]_vars => (spent.db = 0 => Ordered)'
<1> SUFFICES ASSUME TypeOK, BatchInv, TimeInv, spent.db = 0 => Ordered, [Next]_vars,
                    spent'.db = 0
             PROVE  Ordered'
  BY DEF WebhookInv, OrderInv
<1> USE DEF history
<1>a. /\ now \in Nat /\ row \in [Event -> Rows] /\ att \in Nat /\ batch \in Seq(Event)
      /\ spent \in [db : Nat, http : Nat, crash : Nat]
      /\ \A k \in 1..Len(batch) : batch[k] \in Event
  BY DEF TypeOK
<1>b. ~DbFails
  BY <1>a DEF DbFails
<1>c. spent.db = 0
  BY <1>a DEF Next, WorkerStep, Enqueue, ProcessPending, SkipRow, MarkProcessing, Deliver,
     MarkFailedRead, MarkFailedWrite, MarkSuccess, BatchDone, CleanupOld, Restart, Tick,
     DbFails, vars
<1>d. Ordered
  BY <1>c
<1>e. ASSUME batch' = <<>> PROVE Ordered'
  BY <1>e DEF Ordered
<1>f. ASSUME UNCHANGED <<now, row, batch>> PROVE Ordered'
  BY <1>d, <1>f DEF Ordered, Fresh, InBatch, Due
<1>1. ASSUME NEW e \in Event, Enqueue(e) PROVE Ordered'
  <2>1. /\ batch' = batch /\ now' = now /\ e \notin stored
        /\ \A f \in Event : f # e => row'[f] = row[f]
        /\ row'[e].created = now
    BY <1>1, <1>a DEF Enqueue
  <2>2. \A k \in 1..Len(batch) : batch[k] # e /\ row'[batch[k]] = row[batch[k]]
    BY <1>a, <2>1 DEF BatchInv
  <2>3. ASSUME NEW k \in 1..Len(batch), NEW f \in Event, Fresh(f)', ~InBatch(f)'
        PROVE  row'[batch[k]].created <= row'[f].created
    <3>1. CASE f = e
      BY <1>a, <2>1, <2>2, <3>1 DEF TimeInv
    <3>2. CASE f # e
      <4>1. Fresh(f) /\ ~InBatch(f)
        BY <2>1, <2>3, <3>2 DEF Fresh, Due, InBatch
      <4> QED
        BY <1>d, <2>1, <2>2, <3>2, <4>1 DEF Ordered
    <3> QED
      BY <3>1, <3>2
  <2>4. \A j, k \in 1..Len(batch) :
           j < k => row'[batch[j]].created <= row'[batch[k]].created
    BY <1>d, <2>2 DEF Ordered
  <2> QED
    BY <2>1, <2>3, <2>4 DEF Ordered
<1>2. CASE ProcessPending
  <2>1. CASE batch' \in GetPending
    <3>1. BatchSize \in Nat
      BY Types, FS_Subset, FS_CardinalityType DEF BatchSize, DueRows
    <3>2. 1..Len(batch') = 1..BatchSize
      <4>1. PICK b : b = batch'
        OBVIOUS
      <4>2. b \in [1..BatchSize -> DueRows] /\ b \in Seq(Event)
        BY <2>1, <4>1, GetPendingBatch DEF GetPending
      <4>3. DOMAIN b = 1..BatchSize /\ DOMAIN b = 1..Len(b)
        BY <4>2
      <4> QED
        BY <4>1, <4>3
    <3>3. now' = now /\ row' = row
      BY <1>2 DEF ProcessPending
    <3>4. \A j, k \in 1..Len(batch') :
             j < k => row'[batch'[j]].created <= row'[batch'[k]].created
      BY <2>1, <3>2, <3>3 DEF GetPending
    <3>5. ASSUME NEW k \in 1..Len(batch'), NEW f \in Event, Fresh(f)', ~InBatch(f)'
          PROVE  row'[batch'[k]].created <= row'[f].created
      <4>1. f \in DueRows
        BY <3>3, <3>5 DEF Fresh, Due, DueRows
      <4>2. \A j \in 1..BatchSize : batch'[j] # f
        BY <3>2, <3>5 DEF InBatch
      <4> QED
        BY <2>1, <3>2, <3>3, <4>1, <4>2 DEF GetPending
    <3> QED
      BY <3>4, <3>5 DEF Ordered
  <2> QED
    BY <1>2, <1>b, <1>f, <2>1 DEF ProcessPending
<1>3. CASE SkipRow
  <2>1. batch # <<>> /\ Continue /\ row' = row /\ now' = now /\ ~row[Head(batch)].url
    BY <1>3 DEF SkipRow
  <2>2. Tried(row'[Head(batch)])
    BY <2>1 DEF Tried
  <2> QED
    BY <1>d, <2>1, <2>2, OrderContinues
<1>4. CASE MarkProcessing
  <2>1. Head(batch) \in Event /\ row[Head(batch)] \in Rows /\ Head(batch) = batch[1]
    BY <1>4, HeadType DEF MarkProcessing
  <2>2. /\ row' = Updated(Head(batch), [row[Head(batch)] EXCEPT !.st = "processing"])
        /\ batch' = batch /\ now' = now
    BY <1>4, <1>b DEF MarkProcessing
  <2>3. \A f \in Event : row'[f].created = row[f].created
    BY <1>a, <2>1, <2>2 DEF Updated, Rows
  <2>4. 1 \in 1..Len(batch)
    BY <1>4, <1>a DEF MarkProcessing
  <2>5. ASSUME NEW f \in Event, Fresh(f)', ~InBatch(f)'
        PROVE  Fresh(f) /\ ~InBatch(f) /\ row'[f].created = row[f].created
    <3>1. ~InBatch(f) /\ f # Head(batch)
      BY <2>1, <2>2, <2>4, <2>5 DEF InBatch
    <3>2. row'[f] = row[f]
      BY <1>a, <2>2, <3>1 DEF Updated
    <3> QED
      BY <2>2, <2>5, <3>1, <3>2 DEF Fresh, Due
  <2> QED
    BY <1>a, <1>d, <2>2, <2>3, <2>5, OrderKept
<1>5. CASE Deliver
  BY <1>5, <1>f DEF Deliver
<1>6. CASE MarkFailedRead
  BY <1>6, <1>b, <1>f DEF MarkFailedRead
<1>7. ASSUME NEW r, batch # <<>>, Continue, now' = now, row' = Updated(Head(batch), r),
             r.created = row[Head(batch)].created, r.att # 0 \/ r.st = "success"
      PROVE  Ordered'
  <2>1. Head(batch) \in Event
    BY <1>7, HeadType
  <2>2. row'[Head(batch)] = r /\ \A f \in Event : f # Head(batch) => row'[f] = row[f]
    BY <1>7, <1>a, <2>1 DEF Updated
  <2>3. Tried(row'[Head(batch)])
    BY <1>7, <2>2 DEF Tried
  <2> QED
    BY <1>7, <1>d, <2>2, <2>3, OrderContinues
<1>8. CASE MarkFailedWrite
  <2>1. batch # <<>> /\ Head(batch) \in Event /\ row[Head(batch)] \in Rows
    BY <1>8, HeadType DEF MarkFailedWrite, TypeOK, Holding
  <2>2. PICK r : r = [row[Head(batch)] EXCEPT !.st = "failed", !.att = att + 1,
                                              !.retry = now + Backoff(att + 1)]
    OBVIOUS
  <2>3. r.created = row[Head(batch)].created /\ r.att # 0
    BY <1>a, <2>1, <2>2 DEF Rows
  <2> QED
    BY <1>7, <1>8, <1>b, <2>1, <2>2, <2>3 DEF MarkFailedWrite
<1>9. CASE MarkSuccess
  <2>1. batch # <<>> /\ Head(batch) \in Event /\ row[Head(batch)] \in Rows
    BY <1>9, HeadType DEF MarkSuccess, TypeOK, Holding
  <2>2. PICK r : r = [row[Head(batch)] EXCEPT !.st = "success"]
    OBVIOUS
  <2>3. r.created = row[Head(batch)].created /\ r.st = "success"
    BY <2>1, <2>2 DEF Rows
  <2> QED
    BY <1>7, <1>9, <1>b, <2>1, <2>2, <2>3 DEF MarkSuccess
<1>10. CASE BatchDone
  BY <1>10, <1>f DEF BatchDone
<1>11. CASE CleanupOld
  BY <1>11, <1>e DEF CleanupOld, BatchInv
<1>12. CASE Restart
  BY <1>12, <1>e DEF Restart
<1>13. CASE Tick
  <2>1. row' = row /\ batch' = batch /\ now' = now + 1
    BY <1>13 DEF Tick
  <2>2. ASSUME NEW f \in Event, Fresh(f)', ~InBatch(f)'
        PROVE  Fresh(f) /\ ~InBatch(f)
    <3>1. row[f].url /\ row[f].att = 0 /\ row[f].st \in {"pending", "failed"}
      BY <2>1, <2>2 DEF Fresh, Due
    <3>2. row[f].created \in Nat /\ row[f].created >= (now + 1) - Day
      BY <1>a, <2>1, <2>2 DEF Fresh, Due, Rows
    <3>3. row[f].retry <= now /\ row[f].created >= now - Day
      BY <1>a, <3>1, <3>2, Types DEF TimeInv
    <3>4. Fresh(f)
      BY <3>1, <3>3 DEF Fresh, Due
    <3> QED
      BY <2>1, <2>2, <3>4 DEF InBatch
  <2> QED
    BY <1>d, <2>1, <2>2, OrderKept
<1>14. CASE UNCHANGED vars
  BY <1>14, <1>f DEF vars
<1> QED
  BY <1>1, <1>2, <1>3, <1>4, <1>5, <1>6, <1>8, <1>9, <1>10, <1>11, <1>12, <1>13, <1>14
  DEF Next, WorkerStep

\* As long as no statement fails, no first attempt overtakes that of an older
\* event that is still young enough (GetPending's ORDER BY created_at and the
\* loop of processPending).
THEOREM WebhookFirstAttempts == Spec => []FirstAttemptsInOrder
<1>1. Init => OrderInv
  BY Types DEF Init, OrderInv, TimeInv, Ordered, NoRow
<1>2. WebhookInv /\ OrderInv /\ [Next]_vars => OrderInv'
  BY TimeStep, OrderStep DEF WebhookInv, OrderInv
<1>3. WebhookInv /\ OrderInv => FirstAttemptsInOrder
  <2> SUFFICES ASSUME TypeOK, BatchInv, spent.db = 0, Ordered, NEW e \in Event, NEW f \in Event,
                      InHand(e), row[e].att = 0, row[f].url, row[f].att = 0, Due(f)
               PROVE  row[e].created <= row[f].created
    BY DEF WebhookInv, OrderInv, FirstAttemptsInOrder
  <2>1. batch # <<>> /\ batch[1] = e /\ Len(batch) \in Nat \ {0}
    BY HeadType DEF InHand, TypeOK
  <2>2. row[e].st = "processing"
    BY <2>1 DEF InHand, BatchInv
  <2>3. e # f /\ Fresh(f)
    BY <2>2 DEF Due, Fresh
  <2>4. CASE InBatch(f)
    <3>1. PICK k \in 1..Len(batch) : batch[k] = f
      BY <2>4 DEF InBatch
    <3>2. 1 \in 1..Len(batch) /\ 1 < k
      BY <2>1, <2>3, <3>1
    <3> QED
      BY <2>1, <3>1, <3>2 DEF Ordered
  <2>5. CASE ~InBatch(f)
    BY <2>1, <2>3, <2>5 DEF Ordered
  <2> QED
    BY <2>4, <2>5
<1> QED
  BY <1>1, <1>2, <1>3, WebhookInvariant, PTL DEF Spec

-----------------------------------------------------------------------------
\* The number of attempts.

\* A row of the batch is due, and as long as its attempts cost no more than a
\* day it is tried once more; every attempt has cost the delays before it.
RetryInv ==
    /\ \A e \in Event : row[e].att > 0 =>
          /\ row[e].retry >= row[e].created + Cost[row[e].att]
          /\ Cost[row[e].att - 1] <= Day
    /\ \A k \in 1..Len(batch) :
          /\ row[batch[k]].retry <= now
          /\ Cost[row[batch[k]].att] <= Day
    /\ pc = "failWrite" => att = row[Head(batch)].att

\* Attempts that cost no more than a day leave the shift within its width.
LEMMA ShiftIsInWidth == \A a \in Nat : Cost[a] <= Day => a < Width
<1>1. SUFFICES ASSUME NEW a \in Nat, Cost[a] <= Day, Width <= a PROVE FALSE
  BY DelayTypes
<1>2. Cost[Width] <= Cost[a] /\ Cost[Width] \in Nat /\ Cost[a] \in Nat
  BY <1>1, CostGrows, CostValues, DelayTypes
<1>3. /\ Cost[Width] >= Pow2[Width] - 1 \/ Cost[Width] > MaxBackoff
      /\ Pow2[Width] \in Nat
  BY CostIsExponential, Pow2Values, DelayTypes
<1>4. QED
  BY <1>1, <1>2, <1>3, Types, AgeLimit, DelayTypes

\* A step leaves attempts and times of a row as they are.
SameTimes(e) == /\ row'[e].att = row[e].att
                /\ row'[e].created = row[e].created
                /\ row'[e].retry = row[e].retry

\* A step that sets no attempts and no time of a row, and at most takes rows out
\* of the batch.
LEMMA RetryKept ==
  ASSUME TypeOK, RetryInv, now' \in Nat, now <= now',
         \A e \in Event : SameTimes(e) \/ (row'[e].att = 0 /\ ~InBatch(e)'),
         \A k \in 1..Len(batch') : batch'[k] \in Event /\ InBatch(batch'[k]),
         pc' = "failWrite" => att' = row'[Head(batch')].att
  PROVE  RetryInv'
<1> USE DEF SameTimes, InBatch
<1>1. /\ now \in Nat
      /\ \A e \in Event : row[e].att \in Nat /\ row[e].created \in Nat /\ row[e].retry \in Nat
  BY DEF TypeOK, Rows
<1>2. ASSUME NEW e \in Event, row'[e].att > 0
      PROVE  /\ row'[e].retry >= row'[e].created + Cost[row'[e].att]
             /\ Cost[row'[e].att - 1] <= Day
  BY <1>2 DEF RetryInv
<1>3. ASSUME NEW k \in 1..Len(batch')
      PROVE  row'[batch'[k]].retry <= now' /\ Cost[row'[batch'[k]].att] <= Day
  <2>1. PICK j \in 1..Len(batch) : batch[j] = batch'[k]
    OBVIOUS
  <2>2. row[batch'[k]].retry <= now /\ Cost[row[batch'[k]].att] <= Day
    BY <2>1 DEF RetryInv
  <2>3. /\ row'[batch'[k]].att = row[batch'[k]].att
        /\ row'[batch'[k]].retry = row[batch'[k]].retry
    OBVIOUS
  <2>4. row[batch'[k]].retry \in Nat
    BY <1>1
  <2>5. QED
    BY <1>1, <2>2, <2>3, <2>4
<1>4. QED
  BY <1>2, <1>3 DEF RetryInv

\* The rows that GetPending returns may be tried once more.
LEMMA DueMayBeTried ==
  ASSUME TypeOK, RetryInv, NEW e \in Event, Due(e)
  PROVE  row[e].retry <= now /\ Cost[row[e].att] <= Day
<1>1. /\ now \in Nat /\ Day \in Nat
      /\ row[e].att \in Nat /\ row[e].created \in Nat /\ row[e].retry \in Nat
      /\ Cost[row[e].att] \in Nat /\ Cost[0] = 0
  BY Types, CostValues DEF TypeOK, Rows
<1>2. row[e].retry <= now /\ row[e].created >= now - Day
  BY DEF Due
<1>3. row[e].att > 0 => row[e].retry >= row[e].created + Cost[row[e].att]
  BY DEF RetryInv
<1>4. QED
  BY <1>1, <1>2, <1>3

\* The failed attempt that MarkFailed records has waited for the ones before it,
\* and those took no more than a day.
LEMMA RetryOfAttempt ==
  ASSUME TypeOK, TimeInv, RetryInv, pc = "failWrite"
  PROVE  /\ now + Backoff(att + 1) >= row[Head(batch)].created + Cost[att + 1]
         /\ Cost[att] <= Day
<1> DEFINE r == row[Head(batch)]
<1>1. /\ Head(batch) \in Event /\ Head(batch) = batch[1] /\ 1 \in 1..Len(batch)
      /\ r \in Rows
  BY HeadType DEF TypeOK, Holding
<1>2. /\ att = r.att /\ att \in Nat /\ now \in Nat
      /\ r.created \in Nat /\ r.retry \in Nat
  BY <1>1 DEF TypeOK, RetryInv, Rows
<1>3. r.retry <= now /\ Cost[att] <= Day
  BY <1>1, <1>2 DEF RetryInv
<1>4. r.created <= now
  BY <1>1 DEF TimeInv
<1>5. att > 0 => r.retry >= r.created + Cost[att]
  BY <1>1, <1>2 DEF RetryInv
<1>6. /\ Cost[att] \in Nat /\ Cost[0] = 0 /\ Nominal(att) \in Nat
      /\ Cost[att + 1] = Cost[att] + Nominal(att)
  BY <1>2, CostValues, NominalType
<1>7. Backoff(att + 1) = Nominal(att)
  <2>1. att + 1 \in Nat \ {0} /\ (att + 1) - 1 = att /\ att + 1 <= Width
    BY <1>2, <1>3, ShiftIsInWidth, DelayTypes
  <2>2. QED
    BY <2>1, BackoffValues
<1> HIDE DEF r
<1>8. now >= r.created + Cost[att]
  BY <1>2, <1>3, <1>4, <1>5, <1>6
<1>9. now + Backoff(att + 1) >= r.created + Cost[att + 1]
  BY <1>2, <1>6, <1>7, <1>8
<1>10. QED
  BY <1>3, <1>9 DEF r

\* Each step keeps it.
LEMMA RetryStep == WebhookInv /\ TimeInv /\ RetryInv /\ [Next]_vars => RetryInv'
<1> SUFFICES ASSUME TypeOK, BatchInv, TimeInv, RetryInv, [Next]_vars
             PROVE  RetryInv'
  BY DEF WebhookInv
<1>a. /\ now \in Nat /\ now <= now
      /\ row \in [Event -> Rows] /\ att \in Nat /\ batch \in Seq(Event)
      /\ \A k \in 1..Len(batch) : batch[k] \in Event
      /\ pc = "failWrite" => att = row[Head(batch)].att
  BY DEF TypeOK, RetryInv
<1>b. ASSUME UNCHANGED <<now, row, batch>>, pc' = "failWrite" => att' = row[Head(batch)].att
      PROVE  RetryInv'
  BY <1>b DEF RetryInv
\* The rest of the batch, after a step on its head that sets no time.
<1>c. ASSUME batch # <<>>, Continue, UNCHANGED now,
             \A e \in Event : SameTimes(e)
      PROVE  RetryInv'
  <2>1. /\ Len(batch) \in Nat \ {0} /\ Len(batch') = Len(batch) - 1
        /\ \A k \in 1..Len(batch') : batch'[k] = batch[k + 1]
        /\ pc' = "next"
    BY <1>c, ContinueBatch
  <2>2. \A k \in 1..Len(batch') : k + 1 \in 1..Len(batch)
    BY <2>1
  <2>3. QED
    BY <1>a, <1>c, <2>1, <2>2, RetryKept DEF SameTimes, InBatch
<1>1. ASSUME NEW e \in Event, Enqueue(e) PROVE RetryInv'
  <2>1. /\ UNCHANGED <<now, batch, pc, att>> /\ e \notin stored
        /\ row'[e].att = 0
        /\ \A f \in Event : f # e => row'[f] = row[f]
    BY <1>1, <1>a DEF Enqueue
  <2>2. \A k \in 1..Len(batch) : batch[k] # e
    BY <2>1 DEF BatchInv
  <2>3. pc = "failWrite" => Head(batch) \in Event /\ Head(batch) # e
    <3>1. SUFFICES ASSUME pc = "failWrite" PROVE Head(batch) \in Event /\ Head(batch) # e
      OBVIOUS
    <3>2. batch # <<>>
      BY <3>1 DEF TypeOK, Holding
    <3>3. 1 \in 1..Len(batch) /\ Head(batch) = batch[1] /\ Head(batch) \in Event
      BY <1>a, <3>2, HeadType
    <3>4. QED
      BY <2>2, <3>3
  <2>4. QED
    BY <1>a, <2>1, <2>2, <2>3, RetryKept DEF SameTimes, InBatch
<1>2. CASE ProcessPending
  <2>1. CASE batch' \in GetPending /\ Goto("next")
    <3>1. UNCHANGED <<now, row, att>> /\ pc' = "next"
      BY <1>2, <2>1 DEF ProcessPending, Goto
    <3>2. batch' \in Seq(Event) /\ \A k \in 1..Len(batch') : Due(batch'[k])
      BY <2>1, GetPendingBatch
    <3>3. \A k \in 1..Len(batch') : batch'[k] \in Event
      BY <3>2
    <3>4. \A k \in 1..Len(batch') : row[batch'[k]].retry <= now /\ Cost[row[batch'[k]].att] <= Day
      BY <3>2, <3>3, DueMayBeTried
    <3>5. QED
      BY <3>1, <3>4 DEF RetryInv
  <2>2. QED
    BY <1>2, <1>b, <2>1 DEF ProcessPending, Goto
<1>3. CASE SkipRow
  BY <1>3, <1>c DEF SkipRow, SameTimes
<1>4. CASE MarkProcessing
  <2>1. Head(batch) \in Event /\ row[Head(batch)] \in Rows
    BY <1>4, HeadType DEF MarkProcessing
  <2>2. \A e \in Event : SameTimes(e)
    <3> DEFINE h == Head(batch)
               r == [row[h] EXCEPT !.st = "processing"]
    <3>1. r.att = row[h].att /\ r.created = row[h].created /\ r.retry = row[h].retry
      BY <2>1 DEF Rows
    <3>2. row' = Updated(h, r) \/ row' = row
      BY <1>4 DEF MarkProcessing
    <3> HIDE DEF r
    <3>3. QED
      BY <1>a, <2>1, <3>1, <3>2 DEF Updated, SameTimes
  <2>3. CASE Goto("send") /\ UNCHANGED batch
    <3>1. pc' # "failWrite" /\ now' = now
      BY <1>4, <2>3 DEF MarkProcessing, Goto
    <3>2. QED
      BY <1>a, <2>2, <2>3, <3>1, RetryKept DEF SameTimes, InBatch
  <2>4. QED
    BY <1>4, <1>c, <2>2, <2>3 DEF MarkProcessing
<1>5. CASE Deliver
  BY <1>5, <1>b DEF Deliver, Goto
<1>6. CASE MarkFailedRead
  <2>1. batch # <<>> /\ UNCHANGED <<now, row>>
    BY <1>6 DEF MarkFailedRead, TypeOK, Holding
  <2>2. QED
    BY <1>6, <1>b, <1>c, <2>1 DEF MarkFailedRead, Goto, SameTimes
<1>7. CASE MarkFailedWrite
  <2> DEFINE h == Head(batch)
             n == now + Backoff(att + 1)
             r == [row[h] EXCEPT !.st = "failed", !.att = att + 1, !.retry = n]
  <2>1. batch # <<>> /\ Continue /\ UNCHANGED now /\ pc = "failWrite"
    BY <1>7 DEF MarkFailedWrite, TypeOK, Holding
  <2>2. CASE row' = Updated(h, r)
    <3>1. h \in Event /\ row[h] \in Rows /\ h = batch[1]
      BY <2>1, HeadType
    <3>2. n >= row[h].created + Cost[att + 1] /\ Cost[att] <= Day
      BY <2>1, RetryOfAttempt
    <3>3. row'[h] = r /\ \A e \in Event : e # h => row'[e] = row[e]
      BY <1>a, <2>2, <3>1 DEF Updated
    <3> HIDE DEF n
    <3>4. r.att = att + 1 /\ r.created = row[h].created /\ r.retry = n /\ (att + 1) - 1 = att
      BY <1>a, <3>1 DEF Rows
    <3> HIDE DEF r
    <3>5. ASSUME NEW e \in Event, row'[e].att > 0
          PROVE  /\ row'[e].retry >= row'[e].created + Cost[row'[e].att]
                 /\ Cost[row'[e].att - 1] <= Day
      <4>1. CASE e = h
        BY <3>2, <3>3, <3>4, <4>1
      <4>2. CASE e # h
        BY <3>3, <3>5, <4>2 DEF RetryInv
      <4>3. QED
        BY <4>1, <4>2
    <3>6. /\ Len(batch) \in Nat \ {0} /\ Len(batch') = Len(batch) - 1
          /\ \A k \in 1..Len(batch') : batch'[k] = batch[k + 1]
          /\ pc' = "next"
      BY <2>1, ContinueBatch
    <3>7. ASSUME NEW k \in 1..Len(batch')
          PROVE  row'[batch'[k]].retry <= now' /\ Cost[row'[batch'[k]].att] <= Day
      <4>1. k + 1 \in 1..Len(batch) /\ k + 1 # 1 /\ 1 \in 1..Len(batch)
        BY <3>6
      <4>2. batch[k + 1] # h /\ batch[k + 1] \in Event
        BY <1>a, <3>1, <4>1 DEF BatchInv
      <4>3. row'[batch'[k]] = row[batch[k + 1]]
        BY <3>3, <3>6, <4>2
      <4>4. QED
        BY <2>1, <4>1, <4>3 DEF RetryInv
    <3>8. QED
      BY <3>5, <3>6, <3>7 DEF RetryInv
  <2>3. CASE UNCHANGED row
    BY <1>c, <2>1, <2>3 DEF SameTimes
  <2>4. QED
    BY <1>7, <2>2, <2>3 DEF MarkFailedWrite
<1>8. CASE MarkSuccess
  <2>1. batch # <<>> /\ Head(batch) \in Event /\ row[Head(batch)] \in Rows
    BY <1>8, HeadType DEF MarkSuccess, TypeOK, Holding
  <2>2. \A e \in Event : SameTimes(e)
    <3> DEFINE h == Head(batch)
               r == [row[h] EXCEPT !.st = "success"]
    <3>1. r.att = row[h].att /\ r.created = row[h].created /\ r.retry = row[h].retry
      BY <2>1 DEF Rows
    <3>2. row' = Updated(h, r) \/ row' = row
      BY <1>8 DEF MarkSuccess
    <3> HIDE DEF r
    <3>3. QED
      BY <1>a, <2>1, <3>1, <3>2 DEF Updated, SameTimes
  <2>3. QED
    BY <1>8, <1>c, <2>1, <2>2 DEF MarkSuccess
<1>9. CASE BatchDone
  BY <1>9, <1>b DEF BatchDone, Goto
<1>10. CASE CleanupOld
  <2>1. batch = <<>> /\ batch' = <<>> /\ pc' = "idle" /\ now' = now
    BY <1>10 DEF CleanupOld, BatchInv, Goto
  <2>2. \A e \in Event : row'[e] = row[e] \/ row'[e].att = 0
    BY <1>10, <1>a DEF CleanupOld, NoRow
  <2>3. QED
    BY <1>a, <2>1, <2>2, RetryKept DEF SameTimes, InBatch
<1>11. CASE Restart
  <2>1. batch' = <<>> /\ pc' = "idle" /\ UNCHANGED <<now, row>>
    BY <1>11 DEF Restart
  <2>2. QED
    BY <1>a, <2>1, RetryKept DEF SameTimes, InBatch
<1>12. CASE Tick
  <2>1. now' \in Nat /\ now <= now' /\ UNCHANGED <<row, batch, pc, att>>
    BY <1>12, <1>a DEF Tick
  <2>2. QED
    BY <1>a, <2>1, RetryKept DEF SameTimes, InBatch
<1>13. CASE UNCHANGED vars
  BY <1>13, <1>a, <1>b DEF vars
<1>14. QED
  BY <1>1, <1>2, <1>3, <1>4, <1>5, <1>6, <1>7, <1>8, <1>9, <1>10, <1>11, <1>12, <1>13
  DEF Next, WorkerStep

\* The attempts of an event are at most one more than the logarithm of the age
\* limit: GetPending's limit, MarkFailed's doubling and the cap together, for
\* any failures, crashes and batches, whenever the age limit is within the cap.
THEOREM WebhookRetriesEnd == Spec => []RetriesEnd
<1>1. Init => TimeInv /\ RetryInv
  BY DEF Init, TimeInv, RetryInv, NoRow
<1>2. WebhookInv /\ TimeInv /\ [Next]_vars => TimeInv'
  BY TimeStep DEF WebhookInv
<1>3. TypeOK /\ RetryInv => RetriesEnd
  <2>1. SUFFICES ASSUME TypeOK, RetryInv, NEW e \in Event, row[e].att > 0
                 PROVE  Pow2[row[e].att - 1] <= Day + 1
    BY DEF RetriesEnd
  <2>2. row[e].att - 1 \in Nat
    <3>1. row[e] \in Rows
      BY <2>1 DEF TypeOK
    <3>2. row[e].att \in Nat
      BY <3>1 DEF Rows
    <3>3. QED
      BY <2>1, <3>2
  <2>3. Cost[row[e].att - 1] <= Day /\ Cost[row[e].att - 1] \in Nat
    BY <2>1, <2>2, CostValues DEF RetryInv
  <2>4. /\ Cost[row[e].att - 1] >= Pow2[row[e].att - 1] - 1 \/ Cost[row[e].att - 1] > MaxBackoff
        /\ Pow2[row[e].att - 1] \in Nat
    BY <2>2, CostIsExponential, Pow2Values
  <2>5. QED
    BY <2>3, <2>4, Types, AgeLimit, DelayTypes
<1>4. WebhookInv => TypeOK
  BY DEF WebhookInv
<1>5. QED
  BY <1>1, <1>2, <1>3, <1>4, RetryStep, WebhookInvariant, PTL DEF Spec
=============================================================================
