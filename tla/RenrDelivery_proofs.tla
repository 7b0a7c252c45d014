------------------------ MODULE RenrDelivery_proofs ------------------------
(***************************************************************************)
(* Proofs about RenrDelivery, for every set of devices, messages and       *)
(* goroutines and every value of the bounds.                               *)
(***************************************************************************)
EXTENDS RenrDelivery, RetryDelay_proofs

\* An update of a row keeps the type of the table.
LEMMA UpdatedType ==
  ASSUME row \in [Msg -> Rows], NEW m \in Msg, NEW r \in Rows
  PROVE  Updated(m, r) \in [Msg -> Rows]
  BY DEF Updated

-----------------------------------------------------------------------------
\* Type correctness.

\* So does a deletion.
LEMMA NoRowType == NoRow \in Rows
  BY DEF NoRow, Rows, Status

\* The types hold at first.
LEMMA InitTypeOK == Init => TypeOK
<1> SUFFICES ASSUME Init PROVE TypeOK
  OBVIOUS
<1>1. row \in [Msg -> Rows]
  BY NoRowType DEF Init
<1>2. pc \in [Worker -> Pc]
  BY DEF Init, Pc
<1>3. spent \in [db : Nat, api : Nat, crash : Nat]
  BY DEF Init
<1>4. QED
  BY <1>1, <1>2, <1>3 DEF Init, TypeOK

\* The workers' part of TypeOK after a return.
LEMMA ReturnType ==
  ASSUME TypeOK, NEW w \in Worker, Return(w)
  PROVE  /\ pc' \in [Worker -> Pc]
         /\ held' \subseteq Device
         /\ dev' \in [Worker -> Device \cup {None}]
         /\ msg' \in [Worker -> Msg \cup {None}]
         /\ att' \in [Worker -> Nat]
  BY DEF TypeOK, Return, Goto, Pc

\* What counts a fault keeps the counters' type.
LEMMA DbType ==
  ASSUME TypeOK, DbWorks \/ DbFails \/ ApiFails
  PROVE  spent' \in [db : Nat, api : Nat, crash : Nat]
  BY DEF TypeOK, DbWorks, DbFails, ApiFails

\* A goroutine that has a row in hand, by its position.
HandPc == {"mark", "send", "failRead", "failWrite", "delete"}

\* What a goroutine has in hand is a row of the device it serves, and from the
\* POST on the row is not pending.
HandInv ==
    \A w \in Worker :
        /\ pc[w] # "off" => dev[w] \in Device
        /\ pc[w] \in HandPc =>
              /\ msg[w] \in Msg
              /\ DeviceOf[msg[w]] = dev[w]
              /\ row[msg[w]].st # "none"
        /\ pc[w] \in HandPc \ {"mark"} =>
              row[msg[w]].st \in {"processing", "failed"}

TInv == TypeOK /\ LockExclusive /\ HandInv

\* Each step keeps the types.
LEMMA TypeStep == TInv /\ [Next]_vars => TypeOK'
<1> SUFFICES ASSUME TypeOK, HandInv, [Next]_vars PROVE TypeOK'
  BY DEF TInv
<1>1. ASSUME NEW m \in Msg, Enqueue(m) PROVE TypeOK'
  BY <1>1 DEF TypeOK, Enqueue, Rows, Status, workers, service
<1>2. ASSUME NEW d \in Device, MarkAllPendingAsFailed(d) PROVE TypeOK'
  BY <1>2 DEF TypeOK, MarkAllPendingAsFailed, Rows, Status, workers, service, history
<1>3. CASE ProcessPending
  BY <1>3 DEF TypeOK, ProcessPending, GetAllPendingDevices, table, workers, service, history
<1>4. ASSUME NEW d \in Device, NEW w \in Worker, SpawnWorker(d, w) PROVE TypeOK'
  BY <1>4 DEF TypeOK, SpawnWorker, Pc, table, service, history
<1>5. CASE CleanupOldFailed
  BY <1>5 DEF TypeOK, CleanupOldFailed, Rows, Status, workers, service, history
<1>6. CASE LoopExit
  BY <1>6 DEF TypeOK, LoopExit, table, workers, history
<1>7. ASSUME NEW w \in Worker, TryLock(w) PROVE TypeOK'
  BY <1>7 DEF TypeOK, HandInv, TryLock, Goto, Pc, table, service, history
<1>8. ASSUME NEW w \in Worker, LoopTop(w) PROVE TypeOK'
  <2>1. CASE Return(w)
    BY <1>8, <2>1, ReturnType DEF TypeOK, LoopTop, table, service, history
  <2>2. CASE Goto(w, "fetch") /\ UNCHANGED <<held, dev, msg, att>>
    BY <1>8, <2>2 DEF TypeOK, LoopTop, Goto, Pc, table, service, history
  <2>3. QED
    BY <1>8, <2>1, <2>2 DEF LoopTop
<1>9. ASSUME NEW w \in Worker, GetNextPending(w) PROVE TypeOK'
  <2> spent' \in [db : Nat, api : Nat, crash : Nat]
    BY <1>9, DbType DEF GetNextPending
  <2>1. CASE Return(w)
    BY <1>9, <2>1, ReturnType DEF TypeOK, GetNextPending, table, service, history
  <2>2. CASE /\ \E m \in NextPendingForDevice(dev[w]) : msg' = [msg EXCEPT ![w] = m]
             /\ Goto(w, "mark")
             /\ UNCHANGED <<held, dev, att>>
    BY <1>9, <2>2 DEF TypeOK, GetNextPending, NextPendingForDevice, DueOf, Goto, Pc,
                      table, service, history
  <2>3. QED
    BY <1>9, <2>1, <2>2 DEF GetNextPending
<1>10. ASSUME NEW w \in Worker, MarkProcessing(w) PROVE TypeOK'
  <2> spent' \in [db : Nat, api : Nat, crash : Nat]
    BY <1>10, DbType DEF MarkProcessing
  <2>1. CASE Return(w) /\ UNCHANGED row
    BY <1>10, <2>1, ReturnType DEF TypeOK, MarkProcessing, service, history
  <2>2. CASE /\ row' = Updated(msg[w], [row[msg[w]] EXCEPT !.st = "processing"])
             /\ Goto(w, "send")
             /\ UNCHANGED <<held, dev, msg, att>>
    <3>1. msg[w] \in Msg
      BY <1>10 DEF MarkProcessing, HandInv, HandPc
    <3>2. row' \in [Msg -> Rows]
      BY <2>2, <3>1 DEF TypeOK, Updated, Rows, Status
    <3>3. QED
      BY <1>10, <2>2, <3>2 DEF TypeOK, MarkProcessing, Goto, Pc, service, history
  <2>3. QED
    BY <1>10, <2>1, <2>2 DEF MarkProcessing
<1>11. ASSUME NEW w \in Worker, Deliver(w) PROVE TypeOK'
  <2>1. msg[w] \in Msg
    BY <1>11 DEF Deliver, HandInv, HandPc
  <2>2. spent' \in [db : Nat, api : Nat, crash : Nat]
    BY <1>11, DbType DEF Deliver, TypeOK
  <2>3. /\ accepts' \in [Msg -> Nat]
        /\ lost' \in [Msg -> Nat]
        /\ handed' \subseteq Msg
    BY <1>11, <2>1 DEF Deliver, Accepted, TypeOK
  <2>4. pc' \in [Worker -> Pc]
    BY <1>11 DEF Deliver, TypeOK, Goto, Pc
  <2>5. QED
    BY <1>11, <2>2, <2>3, <2>4 DEF TypeOK, Deliver, table, service
<1>12. ASSUME NEW w \in Worker, MarkFailedRead(w) PROVE TypeOK'
  <2> spent' \in [db : Nat, api : Nat, crash : Nat]
    BY <1>12, DbType DEF MarkFailedRead
  <2>1. CASE Return(w)
    BY <1>12, <2>1, ReturnType DEF TypeOK, MarkFailedRead, table, service, history
  <2>2. CASE /\ att' = [att EXCEPT ![w] = row[msg[w]].att]
             /\ Goto(w, "failWrite")
             /\ UNCHANGED <<held, dev, msg>>
    <3>1. row[msg[w]].att \in Nat
      BY <1>12 DEF MarkFailedRead, HandInv, HandPc, TypeOK, Rows
    <3>2. QED
      BY <1>12, <2>2, <3>1 DEF TypeOK, MarkFailedRead, Goto, Pc, table, service, history
  <2>3. QED
    BY <1>12, <2>1, <2>2 DEF MarkFailedRead
<1>13. ASSUME NEW w \in Worker, MarkFailedWrite(w) PROVE TypeOK'
  <2> spent' \in [db : Nat, api : Nat, crash : Nat]
    BY <1>13, DbType DEF MarkFailedWrite
  <2>1. CASE Return(w) /\ UNCHANGED row
    BY <1>13, <2>1, ReturnType DEF TypeOK, MarkFailedWrite, service, history
  <2>2. CASE /\ row' = Updated(msg[w],
                        [row[msg[w]] EXCEPT !.st = "pending",
                                            !.att = att[w] + 1,
                                            !.retry = now + Backoff(att[w] + 1)])
             /\ Goto(w, "loop")
             /\ msg' = [msg EXCEPT ![w] = None]
             /\ att' = [att EXCEPT ![w] = 0]
             /\ UNCHANGED <<held, dev>>
    <3> DEFINE n == now + Backoff(att[w] + 1)
               r == [row[msg[w]] EXCEPT !.st = "pending", !.att = att[w] + 1, !.retry = n]
    <3>1. msg[w] \in Msg
      BY <1>13 DEF MarkFailedWrite, HandInv, HandPc
    <3>2. n \in Nat /\ att[w] + 1 \in Nat
      BY BackoffValues DEF TypeOK
    <3>3. row[msg[w]] \in Rows
      BY <3>1 DEF TypeOK
    <3> HIDE DEF n
    <3>4. r \in Rows
      BY <3>2, <3>3 DEF Rows, Status
    <3>5. row' = Updated(msg[w], r)
      BY <2>2 DEF n
    <3> HIDE DEF r
    <3>6. row' \in [Msg -> Rows]
      BY <3>1, <3>4, <3>5, UpdatedType DEF TypeOK
    <3>7. QED
      BY <1>13, <2>2, <3>6 DEF TypeOK, MarkFailedWrite, Goto, Pc, service, history
  <2>3. QED
    BY <1>13, <2>1, <2>2 DEF MarkFailedWrite
<1>14. ASSUME NEW w \in Worker, MarkSuccess(w) PROVE TypeOK'
  <2> spent' \in [db : Nat, api : Nat, crash : Nat]
    BY <1>14, DbType DEF MarkSuccess
  <2>1. CASE Return(w) /\ UNCHANGED row
    BY <1>14, <2>1, ReturnType DEF TypeOK, MarkSuccess, service, history
  <2>2. CASE /\ row' = [row EXCEPT ![msg[w]] = NoRow]
             /\ Goto(w, "loop")
             /\ msg' = [msg EXCEPT ![w] = None]
             /\ UNCHANGED <<held, dev, att>>
    <3>1. row' \in [Msg -> Rows]
      BY <2>2, NoRowType DEF TypeOK
    <3>2. QED
      BY <1>14, <2>2, <3>1 DEF TypeOK, MarkSuccess, Goto, Pc, service, history
  <2>3. QED
    BY <1>14, <2>1, <2>2 DEF MarkSuccess
<1>15. CASE Stop
  BY <1>15 DEF TypeOK, Stop, table, workers, history
<1>16. CASE CloseDatabase
  BY <1>16 DEF TypeOK, CloseDatabase, table, workers, history
<1>17. CASE Restart
  <2>1. spent' \in [db : Nat, api : Nat, crash : Nat]
    BY <1>17 DEF TypeOK, Restart
  <2>2. pc' \in [Worker -> Pc]
    BY <1>17 DEF Restart, Pc
  <2>3. QED
    BY <1>17, <2>1, <2>2 DEF TypeOK, Restart, table, history
<1>18. CASE Tick
  BY <1>18 DEF TypeOK, Tick, table, workers, service, history
<1>19. CASE UNCHANGED vars
  BY <1>19 DEF TypeOK, vars, table, workers, service, history
<1>20. QED
  BY <1>1, <1>2, <1>3, <1>4, <1>5, <1>6, <1>7, <1>8, <1>9, <1>10, <1>11, <1>12,
     <1>13, <1>14, <1>15, <1>16, <1>17, <1>18, <1>19 DEF Next, WorkerStep

-----------------------------------------------------------------------------
\* The per-device lock.

\* The steps that leave every goroutine where it is, and the lock with it.
LEMMA QuietSteps ==
  ASSUME \/ \E m \in Msg : Enqueue(m)
         \/ \E d \in Device : MarkAllPendingAsFailed(d)
         \/ ProcessPending \/ CleanupOldFailed \/ LoopExit
         \/ Stop \/ CloseDatabase \/ Tick \/ UNCHANGED vars
  PROVE  UNCHANGED <<held, pc, dev, msg, att>>
  BY DEF Enqueue, MarkAllPendingAsFailed, ProcessPending, CleanupOldFailed,
         LoopExit, Stop, CloseDatabase, Tick, vars, workers

\* Between the lock and the return a goroutine changes its position, its row
\* and nothing of the lock; otherwise it takes the lock or returns.
LEMMA WorkerSteps ==
  ASSUME TypeOK, NEW w \in Worker, WorkerStep(w)
  PROVE  \/ TryLock(w)
         \/ Holds(w) /\ Return(w)
         \/ /\ Holds(w) /\ Holds(w)'
            /\ \A v \in Worker \ {w} : pc'[v] = pc[v]
            /\ UNCHANGED <<held, dev>>
  BY DEF TypeOK, WorkerStep, LoopTop, GetNextPending, MarkProcessing, Deliver,
         MarkFailedRead, MarkFailedWrite, MarkSuccess, Goto, Holds

\* Each step keeps two goroutines from the same device.
LEMMA LockStep == TInv /\ [Next]_vars => LockExclusive'
<1> SUFFICES ASSUME TypeOK, LockExclusive, HandInv, [Next]_vars
             PROVE  LockExclusive'
  BY DEF TInv
<1>1. CASE UNCHANGED <<held, pc, dev, msg, att>>
  BY <1>1 DEF LockExclusive, Holds
<1>2. ASSUME NEW d \in Device, NEW w \in Worker, SpawnWorker(d, w)
      PROVE  LockExclusive'
  BY <1>2 DEF TypeOK, LockExclusive, Holds, SpawnWorker
<1>3. ASSUME NEW w \in Worker, TryLock(w) PROVE LockExclusive'
  BY <1>3 DEF TypeOK, LockExclusive, Holds, TryLock, Goto
<1>4. ASSUME NEW w \in Worker, Holds(w), Return(w) PROVE LockExclusive'
  BY <1>4 DEF TypeOK, LockExclusive, Holds, Return, Goto
<1>5. ASSUME NEW w \in Worker, Holds(w), Holds(w)', UNCHANGED <<held, dev>>,
             \A v \in Worker \ {w} : pc'[v] = pc[v]
      PROVE  LockExclusive'
  BY <1>5 DEF LockExclusive, Holds
<1>6. CASE Restart
  BY <1>6 DEF LockExclusive, Holds, Restart
<1>7. ASSUME NEW w \in Worker, WorkerStep(w) PROVE LockExclusive'
  BY <1>3, <1>4, <1>5, <1>7, WorkerSteps
<1>8. QED
  BY <1>1, <1>2, <1>6, <1>7, QuietSteps DEF Next

-----------------------------------------------------------------------------
\* What a goroutine has in hand.

\* Each step keeps what the message and the device of a goroutine are at its
\* label.
LEMMA HandStep == TInv /\ [Next]_vars => HandInv'
<1> SUFFICES ASSUME TypeOK, LockExclusive, HandInv, [Next]_vars
             PROVE  HandInv'
  BY DEF TInv
<1> USE DEF HandInv, HandPc
<1>1. ASSUME NEW m \in Msg, Enqueue(m) PROVE HandInv'
  BY <1>1 DEF TypeOK, Enqueue, workers
<1>2. ASSUME NEW d \in Device, MarkAllPendingAsFailed(d) PROVE HandInv'
  BY <1>2 DEF TypeOK, MarkAllPendingAsFailed, workers, Rows
<1>3. CASE CleanupOldFailed
  BY <1>3 DEF TypeOK, CleanupOldFailed, workers, Rows
<1>4. CASE UNCHANGED <<row, pc, dev, msg>>
  BY <1>4
<1>5. ASSUME NEW d \in Device, NEW w \in Worker, SpawnWorker(d, w) PROVE HandInv'
  BY <1>5 DEF TypeOK, SpawnWorker, table
<1>6. CASE Restart
  BY <1>6 DEF Restart
<1>7. ASSUME NEW w \in Worker, TryLock(w) PROVE HandInv'
  BY <1>7 DEF TypeOK, TryLock, Goto, table
<1>8. ASSUME NEW w \in Worker, Return(w), UNCHANGED row PROVE HandInv'
  BY <1>8 DEF TypeOK, Return, Goto
<1>9. ASSUME NEW w \in Worker, LoopTop(w) PROVE HandInv'
  BY <1>8, <1>9 DEF TypeOK, LoopTop, Goto, table
<1>10. ASSUME NEW w \in Worker, GetNextPending(w) PROVE HandInv'
  <2>1. CASE /\ \E m \in NextPendingForDevice(dev[w]) : msg' = [msg EXCEPT ![w] = m]
             /\ Goto(w, "mark")
             /\ UNCHANGED <<held, dev, att>>
    BY <1>10, <2>1 DEF TypeOK, GetNextPending, NextPendingForDevice, DueOf, Due, Goto, table
  <2>2. QED
    BY <1>8, <1>10, <2>1 DEF GetNextPending, table
<1>11. ASSUME NEW w \in Worker, MarkProcessing(w) PROVE HandInv'
  <2>1. CASE /\ row' = Updated(msg[w], [row[msg[w]] EXCEPT !.st = "processing"])
             /\ Goto(w, "send")
             /\ UNCHANGED <<held, dev, msg, att>>
    BY <1>11, <2>1 DEF TypeOK, MarkProcessing, Updated, Goto, Rows, LockExclusive, Holds
  <2>2. QED
    BY <1>8, <1>11, <2>1 DEF MarkProcessing
<1>12. ASSUME NEW w \in Worker, Deliver(w) PROVE HandInv'
  BY <1>12 DEF TypeOK, Deliver, Goto, table
<1>13. ASSUME NEW w \in Worker, MarkFailedRead(w) PROVE HandInv'
  BY <1>8, <1>13 DEF TypeOK, MarkFailedRead, Goto, table
<1>14. ASSUME NEW w \in Worker, MarkFailedWrite(w) PROVE HandInv'
  <2>1. CASE /\ row' = Updated(msg[w],
                        [row[msg[w]] EXCEPT !.st = "pending",
                                            !.att = att[w] + 1,
                                            !.retry = now + Backoff(att[w] + 1)])
             /\ Goto(w, "loop")
             /\ msg' = [msg EXCEPT ![w] = None]
             /\ att' = [att EXCEPT ![w] = 0]
             /\ UNCHANGED <<held, dev>>
    <3>1. \A v \in Worker \ {w} : pc'[v] \in HandPc => msg[v] # msg[w]
      BY <1>14, <2>1 DEF TypeOK, MarkFailedWrite, Goto, LockExclusive, Holds
    <3>2. \A m \in Msg \ {msg[w]} : row'[m] = row[m]
      BY <1>14, <2>1 DEF TypeOK, Updated
    <3>3. QED
      BY <1>14, <2>1, <3>1, <3>2 DEF TypeOK, MarkFailedWrite, Goto
  <2>2. QED
    BY <1>8, <1>14, <2>1 DEF MarkFailedWrite
<1>15. ASSUME NEW w \in Worker, MarkSuccess(w) PROVE HandInv'
  <2>1. CASE /\ row' = [row EXCEPT ![msg[w]] = NoRow]
             /\ Goto(w, "loop")
             /\ msg' = [msg EXCEPT ![w] = None]
             /\ UNCHANGED <<held, dev, att>>
    <3>1. \A v \in Worker \ {w} : pc'[v] \in HandPc => msg[v] # msg[w]
      BY <1>15, <2>1 DEF TypeOK, MarkSuccess, Goto, LockExclusive, Holds
    <3>2. \A m \in Msg \ {msg[w]} : row'[m] = row[m]
      BY <1>15, <2>1 DEF TypeOK
    <3>3. QED
      BY <1>15, <2>1, <3>1, <3>2 DEF TypeOK, MarkSuccess, Goto
  <2>2. QED
    BY <1>8, <1>15, <2>1 DEF MarkSuccess
<1>16. ASSUME NEW w \in Worker, WorkerStep(w) PROVE HandInv'
  BY <1>7, <1>9, <1>10, <1>11, <1>12, <1>13, <1>14, <1>15, <1>16 DEF WorkerStep
<1>17. UNCHANGED <<row, pc, dev, msg>>
       \/ (\E m \in Msg : Enqueue(m))
       \/ (\E d \in Device : MarkAllPendingAsFailed(d))
       \/ CleanupOldFailed \/ Restart
       \/ (\E d \in Device, w \in Worker : SpawnWorker(d, w))
       \/ (\E w \in Worker : WorkerStep(w))
  BY DEF Next, vars, ProcessPending, LoopExit, Stop, CloseDatabase, Tick, workers, table
<1>18. QED
  BY <1>1, <1>2, <1>3, <1>4, <1>5, <1>6, <1>16, <1>17

\* The invariant holds at first.
LEMMA InitTInv == Init => TInv
  BY InitTypeOK DEF Init, TInv, LockExclusive, HandInv, Holds, HandPc

\* Every variable keeps its type, two goroutines never serve one device, and none
\* stays locked that no goroutine serves.
THEOREM TypeInvariant == Spec => [](TypeOK /\ LockExclusive)
<1>1. TInv /\ [Next]_vars => TInv'
  BY TypeStep, LockStep, HandStep DEF TInv
<1>2. TInv => TypeOK /\ LockExclusive
  BY DEF TInv
<1>3. QED
  BY InitTInv, <1>1, <1>2, PTL DEF Spec

\* Every variable keeps its type, for any messages, devices, goroutines, bounds.
THEOREM TypesHold == Spec => []TypeOK
BY TypeInvariant, PTL

-----------------------------------------------------------------------------
\* Rows stranded in processing, and rows revived.

\* The service is cancelled, and its database closed, by a stop, which is counted.
StopInv == cancelled \/ ~dbOpen => spent.crash > 0

\* Each step counts a stop that it makes, and the counts do not go back.
LEMMA FaultsAreCounted ==
  ASSUME TypeOK, StopInv, [Next]_vars
  PROVE  /\ StopInv'
         /\ spent.db + spent.crash > 0 => spent'.db + spent'.crash > 0
<1>0. /\ spent \in [db : Nat, api : Nat, crash : Nat]
      /\ spent.db \in Nat /\ spent.crash \in Nat
  BY DEF TypeOK
<1>1. CASE UNCHANGED <<cancelled, dbOpen, spent>>
  BY <1>1 DEF StopInv
<1>2. CASE UNCHANGED <<cancelled, dbOpen>> /\ (DbWorks \/ DbFails \/ ApiFails)
  BY <1>0, <1>2 DEF StopInv, DbWorks, DbFails, ApiFails
<1>3. CASE Stop
  BY <1>0, <1>3 DEF StopInv, Stop
<1>4. CASE CloseDatabase
  BY <1>0, <1>4 DEF StopInv, CloseDatabase
<1>5. CASE Restart
  BY <1>0, <1>5 DEF StopInv, Restart
<1>6. ASSUME NEW w \in Worker, WorkerStep(w)
      PROVE  UNCHANGED <<cancelled, dbOpen>> /\ (UNCHANGED spent \/ DbWorks \/ DbFails \/ ApiFails)
  BY <1>6 DEF WorkerStep, TryLock, LoopTop, GetNextPending, MarkProcessing, Deliver,
              MarkFailedRead, MarkFailedWrite, MarkSuccess, service
<1>7. \/ UNCHANGED <<cancelled, dbOpen, spent>>
      \/ Stop \/ CloseDatabase \/ Restart
      \/ \E w \in Worker : WorkerStep(w)
  BY DEF Next, vars, Enqueue, MarkAllPendingAsFailed, ProcessPending, SpawnWorker,
         CleanupOldFailed, LoopExit, Tick, service
<1>8. QED
  BY <1>1, <1>2, <1>3, <1>4, <1>5, <1>6, <1>7

\* A goroutine gives up on an error, which is counted, or with nothing in hand.
LEMMA ReturnsForCause ==
  ASSUME TypeOK, StopInv, NEW w \in Worker, WorkerStep(w), Return(w)
  PROVE  pc[w] \in {"loop", "fetch"} \/ spent'.db + spent'.crash > 0
<1>0. /\ spent \in [db : Nat, api : Nat, crash : Nat]
      /\ spent.db \in Nat /\ spent.crash \in Nat
  BY DEF TypeOK
<1>1. pc'[w] = "off"
  BY DEF TypeOK, Return, Goto
<1>2. \/ pc[w] \in {"loop", "fetch"}
      \/ DbFails
      \/ TryLock(w)
  BY <1>1 DEF TypeOK, WorkerStep, LoopTop, GetNextPending, MarkProcessing, Deliver,
              MarkFailedRead, MarkFailedWrite, MarkSuccess, Goto
<1>3. DbFails => spent'.db + spent'.crash > 0
  BY <1>0 DEF DbFails, StopInv
<1>4. ~TryLock(w)
  BY <1>1 DEF TypeOK, TryLock, Return, Goto
<1>5. QED
  BY <1>2, <1>3, <1>4

\* A row in processing is in hand, or there was an error, a crash or a stop.
LEMMA StrandedStep ==
  TInv /\ StopInv /\ StrandedOnlyByFault /\ [Next]_vars => StrandedOnlyByFault'
<1> SUFFICES ASSUME TypeOK, LockExclusive, HandInv, StopInv, StrandedOnlyByFault, [Next]_vars,
                    ~(spent'.db + spent'.crash > 0),
                    NEW m \in Msg, row'[m].st = "processing"
             PROVE  \E w \in Worker : InHand(w, m)'
  BY DEF TInv, StrandedOnlyByFault
<1>1. row[m].st = "processing" => \E w \in Worker : InHand(w, m)
  BY FaultsAreCounted DEF StrandedOnlyByFault
<1>2. CASE UNCHANGED <<pc, msg>> /\ (row'[m].st = "processing" => row[m].st = "processing")
  BY <1>1, <1>2 DEF InHand
<1>3. ASSUME NEW x \in Msg, Enqueue(x) PROVE row[m].st = "processing" /\ UNCHANGED <<pc, msg>>
  BY <1>3 DEF TypeOK, Enqueue, workers
<1>4. ASSUME NEW d \in Device, MarkAllPendingAsFailed(d)
      PROVE  row[m].st = "processing" /\ UNCHANGED <<pc, msg>>
  BY <1>4 DEF TypeOK, MarkAllPendingAsFailed, Rows, workers
<1>5. ASSUME CleanupOldFailed PROVE row[m].st = "processing" /\ UNCHANGED <<pc, msg>>
  BY <1>5 DEF TypeOK, CleanupOldFailed, Rows, workers
<1>6. ASSUME NEW d \in Device, NEW w \in Worker, SpawnWorker(d, w)
      PROVE  \E v \in Worker : InHand(v, m)'
  <2>1. PICK v \in Worker : InHand(v, m)
    BY <1>1, <1>6 DEF SpawnWorker, table
  <2>2. pc'[v] = pc[v] /\ msg'[v] = msg[v]
    BY <1>6, <2>1 DEF TypeOK, SpawnWorker, InHand
  <2>3. QED
    BY <2>1, <2>2 DEF InHand
<1>7. ASSUME Restart PROVE FALSE
  BY <1>7 DEF TypeOK, Restart, StopInv
<1>8. ASSUME NEW w \in Worker, WorkerStep(w) PROVE \E v \in Worker : InHand(v, m)'
  <2>0. \A v \in Worker \ {w} : pc'[v] = pc[v] /\ msg'[v] = msg[v]
    BY <1>8 DEF TypeOK, WorkerStep, TryLock, LoopTop, GetNextPending, MarkProcessing, Deliver,
                MarkFailedRead, MarkFailedWrite, MarkSuccess, Goto, Return
  <2>1. ASSUME Return(w), UNCHANGED row PROVE \E v \in Worker : InHand(v, m)'
    <3>1. PICK v \in Worker : InHand(v, m)
      BY <1>1, <2>1
    <3>2. v # w
      BY <1>8, <2>1, <3>1, ReturnsForCause DEF InHand
    <3>3. QED
      BY <2>0, <3>1, <3>2 DEF InHand
  <2>2. ASSUME row'[m] = row[m], pc'[w] \notin {"off", "start", "loop", "fetch"},
               InHand(w, m) => msg'[w] = m
        PROVE  \E v \in Worker : InHand(v, m)'
    <3>1. PICK v \in Worker : InHand(v, m)
      BY <1>1, <2>2
    <3>2. QED
      BY <2>0, <2>2, <3>1 DEF InHand
  <2>3. ASSUME row'[m] = row[m], ~InHand(w, m) PROVE \E v \in Worker : InHand(v, m)'
    <3>1. PICK v \in Worker : InHand(v, m)
      BY <1>1, <2>3
    <3>2. QED
      BY <2>0, <2>3, <3>1 DEF InHand
  <2>4. CASE TryLock(w)
    BY <2>3, <2>4 DEF TryLock, table, InHand
  <2>5. CASE LoopTop(w)
    BY <2>3, <2>5 DEF LoopTop, table, InHand
  <2>6. CASE GetNextPending(w)
    BY <2>3, <2>6 DEF GetNextPending, table, InHand
  <2>7. CASE MarkProcessing(w)
    <3>1. CASE /\ row' = Updated(msg[w], [row[msg[w]] EXCEPT !.st = "processing"])
               /\ Goto(w, "send") /\ UNCHANGED msg
      <4>1. CASE m = msg[w]
        BY <3>1, <4>1 DEF TypeOK, Goto, InHand
      <4>2. CASE m # msg[w]
        BY <2>2, <3>1, <4>2 DEF TypeOK, Goto, InHand, Updated
      <4>3. QED
        BY <4>1, <4>2
    <3>2. QED
      BY <2>1, <2>7, <3>1 DEF MarkProcessing
  <2>8. CASE Deliver(w)
    BY <2>2, <2>8 DEF TypeOK, Deliver, Goto, table, InHand
  <2>9. CASE MarkFailedRead(w)
    BY <2>1, <2>2, <2>9 DEF TypeOK, MarkFailedRead, Goto, table, InHand
  <2>10. CASE MarkFailedWrite(w)
    <3>1. CASE row' = Updated(msg[w],
                        [row[msg[w]] EXCEPT !.st = "pending",
                                            !.att = att[w] + 1,
                                            !.retry = now + Backoff(att[w] + 1)])
      <4>1. row[msg[w]].st # "none" /\ msg[w] \in Msg
        BY <2>10 DEF MarkFailedWrite, HandInv, HandPc
      <4>2. m # msg[w]
        BY <3>1, <4>1 DEF TypeOK, Updated, Rows
      <4>3. row'[m] = row[m]
        BY <3>1, <4>2 DEF TypeOK, Updated
      <4>4. QED
        BY <2>3, <4>2, <4>3 DEF InHand
    <3>2. QED
      BY <2>1, <2>10, <3>1 DEF MarkFailedWrite
  <2>11. CASE MarkSuccess(w)
    <3>1. CASE row' = [row EXCEPT ![msg[w]] = NoRow]
      <4>1. m # msg[w] /\ row'[m] = row[m]
        BY <3>1 DEF TypeOK, NoRow
      <4>2. QED
        BY <2>3, <4>1 DEF InHand
    <3>2. QED
      BY <2>1, <2>11, <3>1 DEF MarkSuccess
  <2>12. QED
    BY <1>8, <2>4, <2>5, <2>6, <2>7, <2>8, <2>9, <2>10, <2>11 DEF WorkerStep
<1>9. \/ UNCHANGED <<row, pc, msg>>
      \/ (\E x \in Msg : Enqueue(x))
      \/ (\E d \in Device : MarkAllPendingAsFailed(d))
      \/ CleanupOldFailed \/ Restart
      \/ (\E d \in Device, w \in Worker : SpawnWorker(d, w))
      \/ (\E w \in Worker : WorkerStep(w))
  BY DEF Next, vars, ProcessPending, LoopExit, Stop, CloseDatabase, Tick, workers, table
<1>10. QED
  BY <1>2, <1>3, <1>4, <1>5, <1>6, <1>7, <1>8, <1>9

\* A row is left in processing by an error, a crash or a stop only, whatever the
\* number of goroutines, logouts and cleanups.
THEOREM RowsStrandedByFault == Spec => []StrandedOnlyByFault
<1>1. Init => StopInv /\ StrandedOnlyByFault
  BY DEF Init, StopInv, StrandedOnlyByFault, NoRow
<1>2. TInv /\ [Next]_vars => TInv'
  BY TypeStep, LockStep, HandStep DEF TInv
<1>3. TInv /\ StopInv /\ [Next]_vars => StopInv'
  BY FaultsAreCounted DEF TInv
<1>4. QED
  BY InitTInv, StrandedStep, <1>1, <1>2, <1>3, PTL DEF Spec

\* A row that was given up is revived by the goroutine that has it in hand, and
\* by nothing else.
THEOREM RowsRevivedInHand == Spec => RevivedOnlyInHand
<1> DEFINE Revived == \A m \in Msg : row[m].st = "failed" /\ row'[m].st # "failed"
                         => \E w \in Worker : InHand(w, m)
<1>1. TInv /\ [Next]_vars => [Revived]_vars
  <2> SUFFICES ASSUME TypeOK, HandInv, [Next]_vars,
                      NEW m \in Msg, row[m].st = "failed", row'[m].st # "failed"
               PROVE  \E w \in Worker : InHand(w, m)
    BY DEF TInv
  <2>1. ASSUME NEW w \in Worker, WorkerStep(w) PROVE InHand(w, m)
    <3>1. \/ row' = row
          \/ MarkProcessing(w) \/ MarkFailedWrite(w) \/ MarkSuccess(w)
      BY <2>1 DEF WorkerStep, TryLock, LoopTop, GetNextPending, Deliver, MarkFailedRead, table
    <3>2. \A x \in Msg : x # msg[w] => row'[x] = row[x]
      BY <3>1 DEF TypeOK, HandInv, HandPc, MarkProcessing, MarkFailedWrite, MarkSuccess, Updated
    <3>3. QED
      BY <3>1, <3>2 DEF InHand, MarkProcessing, MarkFailedWrite, MarkSuccess
  <2>2. ASSUME NEW x \in Msg, Enqueue(x) PROVE FALSE
    BY <2>2 DEF TypeOK, Enqueue
  <2>3. ASSUME NEW d \in Device, MarkAllPendingAsFailed(d) PROVE FALSE
    BY <2>3 DEF TypeOK, MarkAllPendingAsFailed
  <2>4. ASSUME CleanupOldFailed PROVE FALSE
    BY <2>4 DEF TypeOK, CleanupOldFailed
  <2>5. \/ UNCHANGED row
        \/ (\E x \in Msg : Enqueue(x))
        \/ (\E d \in Device : MarkAllPendingAsFailed(d))
        \/ CleanupOldFailed
        \/ (\E w \in Worker : WorkerStep(w))
    BY DEF Next, vars, ProcessPending, SpawnWorker, LoopExit, Stop, CloseDatabase, Restart,
           Tick, table
  <2>6. QED
    BY <2>1, <2>2, <2>3, <2>4, <2>5
<1>2. TInv /\ [Next]_vars => TInv'
  BY TypeStep, LockStep, HandStep DEF TInv
<1>3. QED
  BY InitTInv, <1>1, <1>2, PTL DEF Spec, RevivedOnlyInHand

-----------------------------------------------------------------------------
\* Deliveries accounted for, and no loss.

\* While a row may still be sent its message has an accept to spare.
AccInv ==
    /\ AcceptsAccounted
    /\ \A m \in Msg : row[m].st = "pending" => accepts[m] < inserts[m] + lost[m]
    /\ \A w \in Worker : pc[w] \in HandPc \ {"delete"} =>
          accepts[msg[w]] < inserts[msg[w]] + lost[msg[w]]

\* A message that was persisted and has no row was accepted.
NoLoss ==
    \A m \in Msg : inserts[m] > 0 /\ row[m].st = "none" => accepts[m] > 0

\* A row about to be deleted was accepted since it was inserted.
KeepInv ==
    /\ NoLoss
    /\ \A m \in handed : accepts[m] > 0
    /\ \A w \in Worker : pc[w] = "delete" => msg[w] \in handed

\* The steps on the table and the history that no goroutine in hand disturbs.
LEMMA AccStep == TInv /\ AccInv /\ KeepInv /\ [Next]_vars => AccInv' /\ KeepInv'
<1> SUFFICES ASSUME TypeOK, LockExclusive, HandInv, AccInv, KeepInv, [Next]_vars
             PROVE  AccInv' /\ KeepInv'
  BY DEF TInv
<1> USE DEF AccInv, KeepInv, AcceptsAccounted, NoLoss, HandPc
<1>1. ASSUME NEW m \in Msg, Enqueue(m) PROVE AccInv' /\ KeepInv'
  BY <1>1 DEF TypeOK, HandInv, Enqueue, workers
<1>2. ASSUME NEW d \in Device, MarkAllPendingAsFailed(d) PROVE AccInv' /\ KeepInv'
  BY <1>2 DEF TypeOK, MarkAllPendingAsFailed, workers, Rows, history
<1>3. CASE CleanupOldFailed
  BY <1>3 DEF TypeOK, CleanupOldFailed, workers, Rows, history
<1>4. CASE UNCHANGED <<row, pc, dev, msg, history>>
  BY <1>4 DEF history
<1>5. ASSUME NEW d \in Device, NEW w \in Worker, SpawnWorker(d, w)
      PROVE  AccInv' /\ KeepInv'
  BY <1>5 DEF TypeOK, SpawnWorker, table, history
<1>6. CASE Restart
  BY <1>6 DEF Restart, table, history
<1>7. ASSUME NEW w \in Worker, TryLock(w) PROVE AccInv' /\ KeepInv'
  BY <1>7 DEF TypeOK, TryLock, Goto, table, history
<1>8. ASSUME NEW w \in Worker, Return(w), UNCHANGED <<row, history>>
      PROVE  AccInv' /\ KeepInv'
  BY <1>8 DEF TypeOK, Return, Goto, history
<1>9. ASSUME NEW w \in Worker, LoopTop(w) PROVE AccInv' /\ KeepInv'
  BY <1>8, <1>9 DEF TypeOK, LoopTop, Goto, table, history
<1>10. ASSUME NEW w \in Worker, GetNextPending(w) PROVE AccInv' /\ KeepInv'
  <2>1. CASE /\ \E m \in NextPendingForDevice(dev[w]) : msg' = [msg EXCEPT ![w] = m]
             /\ Goto(w, "mark")
             /\ UNCHANGED <<held, dev, att>>
    BY <1>10, <2>1 DEF TypeOK, GetNextPending, NextPendingForDevice, DueOf, Due, Goto,
                       table, history
  <2>2. QED
    BY <1>8, <1>10, <2>1 DEF GetNextPending, table
<1>11. ASSUME NEW w \in Worker, MarkProcessing(w) PROVE AccInv' /\ KeepInv'
  <2>1. CASE /\ row' = Updated(msg[w], [row[msg[w]] EXCEPT !.st = "processing"])
             /\ Goto(w, "send")
             /\ UNCHANGED <<held, dev, msg, att>>
    BY <1>11, <2>1 DEF TypeOK, HandInv, MarkProcessing, Updated, Goto, Rows, history
  <2>2. QED
    BY <1>8, <1>11, <2>1 DEF MarkProcessing
<1>12. ASSUME NEW w \in Worker, Deliver(w) PROVE AccInv' /\ KeepInv'
  <2>1. /\ msg[w] \in Msg
        /\ row[msg[w]].st \notin {"none", "pending"}
        /\ accepts[msg[w]] < inserts[msg[w]] + lost[msg[w]]
    BY <1>12 DEF Deliver, HandInv
  <2>2. \A v \in Worker \ {w} : pc'[v] \in HandPc =>
            /\ pc[v] = pc'[v]
            /\ msg[v] \in Msg \ {msg[w]}
    BY <1>12 DEF TypeOK, Deliver, Goto, LockExclusive, Holds, HandInv
  <2>3. \A m \in Msg \ {msg[w]} : accepts'[m] = accepts[m] /\ lost'[m] = lost[m]
    BY <1>12, <2>1 DEF TypeOK, Deliver, Accepted
  <2>4. UNCHANGED <<row, msg, inserts>>
    BY <1>12 DEF Deliver, table
  <2>5. CASE /\ Accepted(msg[w])
             /\ Goto(w, "delete")
             /\ UNCHANGED <<lost, spent>>
    BY <2>1, <2>2, <2>3, <2>4, <2>5 DEF TypeOK, Goto, Accepted
  <2>6. CASE /\ Goto(w, "failRead")
             /\ Accepted(msg[w])
             /\ lost' = [lost EXCEPT ![msg[w]] = @ + 1]
    BY <2>1, <2>2, <2>3, <2>4, <2>6 DEF TypeOK, Goto, Accepted
  <2>7. CASE Goto(w, "failRead") /\ UNCHANGED <<accepts, handed, lost>>
    BY <2>1, <2>2, <2>4, <2>7 DEF TypeOK, Goto
  <2>8. QED
    BY <1>12, <2>5, <2>6, <2>7 DEF Deliver
<1>13. ASSUME NEW w \in Worker, MarkFailedRead(w) PROVE AccInv' /\ KeepInv'
  BY <1>8, <1>13 DEF TypeOK, MarkFailedRead, Goto, table, history
<1>14. ASSUME NEW w \in Worker, MarkFailedWrite(w) PROVE AccInv' /\ KeepInv'
  <2>1. CASE /\ row' = Updated(msg[w],
                        [row[msg[w]] EXCEPT !.st = "pending",
                                            !.att = att[w] + 1,
                                            !.retry = now + Backoff(att[w] + 1)])
             /\ Goto(w, "loop")
             /\ msg' = [msg EXCEPT ![w] = None]
             /\ att' = [att EXCEPT ![w] = 0]
             /\ UNCHANGED <<held, dev>>
    <3>1. /\ msg[w] \in Msg
          /\ row[msg[w]].st # "none"
          /\ accepts[msg[w]] < inserts[msg[w]] + lost[msg[w]]
      BY <1>14 DEF MarkFailedWrite, HandInv
    <3>2. \A m \in Msg : m = msg[w] \/ row'[m] = row[m]
      BY <2>1 DEF TypeOK, Updated
    <3>3. row'[msg[w]].st = "pending"
      BY <2>1, <3>1 DEF TypeOK, Updated, Rows
    <3>4. UNCHANGED <<accepts, lost, inserts, handed>>
      BY <1>14 DEF MarkFailedWrite, history
    <3>5. QED
      BY <2>1, <3>1, <3>2, <3>3, <3>4 DEF TypeOK, Goto
  <2>2. QED
    BY <1>8, <1>14, <2>1 DEF MarkFailedWrite
<1>15. ASSUME NEW w \in Worker, MarkSuccess(w) PROVE AccInv' /\ KeepInv'
  <2>1. CASE /\ row' = [row EXCEPT ![msg[w]] = NoRow]
             /\ Goto(w, "loop")
             /\ msg' = [msg EXCEPT ![w] = None]
             /\ UNCHANGED <<held, dev, att>>
    BY <1>15, <2>1 DEF TypeOK, HandInv, MarkSuccess, Goto, NoRow, history
  <2>2. QED
    BY <1>8, <1>15, <2>1 DEF MarkSuccess
<1>16. ASSUME NEW w \in Worker, WorkerStep(w) PROVE AccInv' /\ KeepInv'
  BY <1>7, <1>9, <1>10, <1>11, <1>12, <1>13, <1>14, <1>15, <1>16 DEF WorkerStep
<1>17. UNCHANGED <<row, pc, dev, msg, history>>
       \/ (\E m \in Msg : Enqueue(m))
       \/ (\E d \in Device : MarkAllPendingAsFailed(d))
       \/ CleanupOldFailed \/ Restart
       \/ (\E d \in Device, w \in Worker : SpawnWorker(d, w))
       \/ (\E w \in Worker : WorkerStep(w))
  BY DEF Next, vars, ProcessPending, LoopExit, Stop, CloseDatabase, Tick, workers, table
<1>18. QED
  BY <1>1, <1>2, <1>3, <1>4, <1>5, <1>6, <1>16, <1>17

\* The counts of acceptances hold at first.
LEMMA InitAcc == Init => AccInv /\ KeepInv
  BY DEF Init, AccInv, KeepInv, AcceptsAccounted, NoLoss, NoRow, HandPc

\* Every accept of a message is paid for by an insert or by a lost reply: no
\* interleaving, logout, crash or restart makes the service send it once more.
THEOREM DeliveriesAccounted == Spec => []AcceptsAccounted
<1>1. TInv /\ [Next]_vars => TInv'
  BY TypeStep, LockStep, HandStep DEF TInv
<1>2. AccInv => AcceptsAccounted
  BY DEF AccInv
<1>3. QED
  BY InitTInv, InitAcc, AccStep, <1>1, <1>2, PTL DEF Spec

\* A persisted message leaves the table only after the API accepted it.
THEOREM PersistedMessagesAreKept == Spec => []NoLoss
<1>1. TInv /\ [Next]_vars => TInv'
  BY TypeStep, LockStep, HandStep DEF TInv
<1>2. KeepInv => NoLoss
  BY DEF KeepInv
<1>3. QED
  BY InitTInv, InitAcc, AccStep, <1>1, <1>2, PTL DEF Spec

-----------------------------------------------------------------------------
\* Order of first attempts.

\* An untried pending row is due, and ids are handed out in order.
OrderInv ==
    /\ FirstAttemptsInOrder
    /\ \A m \in Msg : row[m].id < nextId
    /\ \A m \in Msg : row[m].st = "pending" /\ row[m].att = 0 => row[m].retry = 0

\* The order of ids holds at first.
LEMMA InitOrder == Init => OrderInv
  BY DEF Init, OrderInv, FirstAttemptsInOrder, InHand, NoRow

\* A step that only gives rows up, or frees hands, keeps the order.
LEMMA OrderKept ==
  ASSUME TypeOK, OrderInv, nextId' = nextId,
         \A m \in Msg : \/ row'[m] = row[m]
                        \/ row'[m].st # "pending" /\ row'[m].id = row[m].id
                        \/ row'[m] = NoRow,
         \A w \in Worker, m \in Msg : InHand(w, m)' => InHand(w, m) /\ row'[m].id = row[m].id
  PROVE  OrderInv'
<1>1. /\ NoRow.st = "none" /\ NoRow.id = 0
      /\ nextId \in Nat
      /\ \A m \in Msg : row[m].id \in Nat
  BY DEF TypeOK, NoRow, Rows
<1>2. FirstAttemptsInOrder'
  BY <1>1 DEF OrderInv, FirstAttemptsInOrder
<1>3. (\A m \in Msg : row[m].id < nextId)'
  BY <1>1 DEF OrderInv
<1>4. (\A m \in Msg : row[m].st = "pending" /\ row[m].att = 0 => row[m].retry = 0)'
  BY <1>1 DEF OrderInv
<1>5. QED
  BY <1>2, <1>3, <1>4 DEF OrderInv

\* Each step keeps it: an insert gets an id and a time that are the newest.
LEMMA OrderStep == TInv /\ OrderInv /\ [Next]_vars => OrderInv'
<1> SUFFICES ASSUME TypeOK, LockExclusive, HandInv, OrderInv, [Next]_vars
             PROVE  OrderInv'
  BY DEF TInv
<1> USE DEF InHand
<1>1. ASSUME NEW m \in Msg, Enqueue(m) PROVE OrderInv'
  <2>1. /\ row[m].st = "none"
        /\ row' = [row EXCEPT ![m] = [st |-> "pending", att |-> 0, created |-> now,
                                      retry |-> 0, id |-> nextId]]
        /\ nextId' = nextId + 1
        /\ UNCHANGED <<pc, msg>>
    BY <1>1 DEF Enqueue, workers
  <2>2. \A w \in Worker, n \in Msg : InHand(w, n) => n # m
    BY <2>1 DEF TypeOK, HandInv, HandPc, Pc
  <2>3. row'[m].id = nextId /\ row'[m].retry = 0
    BY <2>1 DEF TypeOK
  <2>4. \A n \in Msg \ {m} : row'[n] = row[n] /\ row[n].id \in Nat
    BY <2>1 DEF TypeOK, Rows
  <2>5. FirstAttemptsInOrder'
    BY <2>1, <2>2, <2>3, <2>4 DEF TypeOK, OrderInv, FirstAttemptsInOrder
  <2>6. QED
    BY <2>1, <2>3, <2>4, <2>5 DEF TypeOK, OrderInv
<1>2. ASSUME NEW d \in Device, MarkAllPendingAsFailed(d) PROVE OrderInv'
  BY <1>2, OrderKept DEF TypeOK, MarkAllPendingAsFailed, workers, Rows
<1>3. CASE CleanupOldFailed
  BY <1>3, OrderKept DEF TypeOK, CleanupOldFailed, workers, Rows
<1>4. CASE UNCHANGED <<table, pc, msg>>
  BY <1>4 DEF OrderInv, FirstAttemptsInOrder, table
<1>5. ASSUME NEW d \in Device, NEW w \in Worker, SpawnWorker(d, w) PROVE OrderInv'
  BY <1>5, OrderKept DEF TypeOK, SpawnWorker, table
<1>6. CASE Restart
  BY <1>6, OrderKept DEF Restart, table
<1>7. ASSUME NEW w \in Worker, TryLock(w) PROVE OrderInv'
  BY <1>7, OrderKept DEF TypeOK, TryLock, Goto, table
<1>8. ASSUME NEW w \in Worker, Return(w), UNCHANGED <<row, nextId>> PROVE OrderInv'
  BY <1>8, OrderKept DEF TypeOK, Return, Goto
<1>9. ASSUME NEW w \in Worker, LoopTop(w) PROVE OrderInv'
  <2>1. CASE Goto(w, "fetch") /\ UNCHANGED <<held, dev, msg, att>>
    BY <1>9, <2>1, OrderKept DEF TypeOK, LoopTop, Goto, table
  <2>2. QED
    BY <1>8, <1>9, <2>1 DEF LoopTop, table
<1>10. ASSUME NEW w \in Worker, GetNextPending(w) PROVE OrderInv'
  <2>1. ASSUME NEW m \in NextPendingForDevice(dev[w]), msg' = [msg EXCEPT ![w] = m],
               Goto(w, "mark")
        PROVE  OrderInv'
    <3>1. \A o \in Msg : /\ DeviceOf[o] = DeviceOf[m]
                         /\ row[o].st = "pending" /\ row[o].id < row[m].id
                         => row[o].att > 0
      BY <2>1 DEF TypeOK, OrderInv, NextPendingForDevice, DueOf, Due, Rows
    <3>2. \A v \in Worker, n \in Msg : InHand(v, n)' => n = m \/ InHand(v, n)
      BY <1>10, <2>1 DEF TypeOK, Goto
    <3>3. UNCHANGED <<row, nextId>>
      BY <1>10 DEF GetNextPending, table
    <3> QED
      BY <3>1, <3>2, <3>3 DEF OrderInv, FirstAttemptsInOrder
  <2>2. QED
    BY <1>8, <1>10, <2>1 DEF GetNextPending, table
<1>11. ASSUME NEW w \in Worker, MarkProcessing(w) PROVE OrderInv'
  <2>1. CASE /\ row' = Updated(msg[w], [row[msg[w]] EXCEPT !.st = "processing"])
             /\ Goto(w, "send")
             /\ UNCHANGED <<held, dev, msg, att>>
    BY <1>11, <2>1, OrderKept DEF TypeOK, MarkProcessing, Updated, Goto, Rows
  <2>2. QED
    BY <1>8, <1>11, <2>1 DEF MarkProcessing
<1>12. ASSUME NEW w \in Worker, Deliver(w) PROVE OrderInv'
  BY <1>12, OrderKept DEF TypeOK, Deliver, Goto, table
<1>13. ASSUME NEW w \in Worker, MarkFailedRead(w) PROVE OrderInv'
  <2>1. CASE Goto(w, "failWrite") /\ UNCHANGED <<held, dev, msg>>
    BY <1>13, <2>1, OrderKept DEF TypeOK, MarkFailedRead, Goto, table
  <2>2. QED
    BY <1>8, <1>13, <2>1 DEF MarkFailedRead, table
<1>14. ASSUME NEW w \in Worker, MarkFailedWrite(w) PROVE OrderInv'
  <2>1. CASE /\ row' = Updated(msg[w],
                        [row[msg[w]] EXCEPT !.st = "pending",
                                            !.att = att[w] + 1,
                                            !.retry = now + Backoff(att[w] + 1)])
             /\ Goto(w, "loop")
             /\ msg' = [msg EXCEPT ![w] = None]
             /\ att' = [att EXCEPT ![w] = 0]
             /\ UNCHANGED <<held, dev>>
    <3>1. /\ msg[w] \in Msg /\ row[msg[w]].st # "none"
          /\ att[w] \in Nat /\ nextId' = nextId
      BY <1>14 DEF TypeOK, MarkFailedWrite, HandInv, HandPc
    <3>2. row'[msg[w]].att > 0 /\ row'[msg[w]].id = row[msg[w]].id
      BY <2>1, <3>1 DEF TypeOK, Updated, Rows
    <3>3. \A m \in Msg : m = msg[w] \/ row'[m] = row[m]
      BY <2>1 DEF TypeOK, Updated
    <3>4. \A v \in Worker, m \in Msg : InHand(v, m)' => InHand(v, m)
      BY <2>1 DEF TypeOK, Goto
    <3>5. QED
      BY <3>1, <3>2, <3>3, <3>4 DEF TypeOK, OrderInv, FirstAttemptsInOrder
  <2>2. QED
    BY <1>8, <1>14, <2>1 DEF MarkFailedWrite
<1>15. ASSUME NEW w \in Worker, MarkSuccess(w) PROVE OrderInv'
  <2>1. CASE /\ row' = [row EXCEPT ![msg[w]] = NoRow]
             /\ Goto(w, "loop")
             /\ msg' = [msg EXCEPT ![w] = None]
             /\ UNCHANGED <<held, dev, att>>
    <3>1. /\ msg[w] \in Msg /\ nextId' = nextId /\ nextId > 0
      BY <1>15 DEF TypeOK, MarkSuccess, HandInv, HandPc, OrderInv, Rows
    <3>2. \A v \in Worker, m \in Msg : InHand(v, m)' => InHand(v, m) /\ m # msg[w]
      BY <1>15, <2>1 DEF TypeOK, MarkSuccess, Goto, LockExclusive, Holds, HandInv, HandPc, Pc
    <3>3. \A m \in Msg : row'[m] = IF m = msg[w] THEN NoRow ELSE row[m]
      BY <2>1 DEF TypeOK
    <3>4. QED
      BY <3>1, <3>2, <3>3, OrderKept
  <2>2. QED
    BY <1>8, <1>15, <2>1 DEF MarkSuccess
<1>16. ASSUME NEW w \in Worker, WorkerStep(w) PROVE OrderInv'
  BY <1>7, <1>9, <1>10, <1>11, <1>12, <1>13, <1>14, <1>15, <1>16 DEF WorkerStep
<1>17. UNCHANGED <<table, pc, msg>>
       \/ (\E m \in Msg : Enqueue(m))
       \/ (\E d \in Device : MarkAllPendingAsFailed(d))
       \/ CleanupOldFailed \/ Restart
       \/ (\E d \in Device, w \in Worker : SpawnWorker(d, w))
       \/ (\E w \in Worker : WorkerStep(w))
  BY DEF Next, vars, ProcessPending, LoopExit, Stop, CloseDatabase, Tick, workers, table
<1>18. QED
  BY <1>1, <1>2, <1>3, <1>4, <1>5, <1>6, <1>16, <1>17

\* No row is sent before an older row of its device that was never tried.
THEOREM FirstAttemptsFIFO == Spec => []FirstAttemptsInOrder
<1>1. TInv /\ [Next]_vars => TInv'
  BY TypeStep, LockStep, HandStep DEF TInv
<1>2. OrderInv => FirstAttemptsInOrder
  BY DEF OrderInv
<1>3. QED
  BY InitTInv, InitOrder, OrderStep, <1>1, <1>2, PTL DEF Spec

-----------------------------------------------------------------------------
\* What attempts cost.

\* With it: no row is from the future, and what MarkFailed read is still true
\* when it writes.
CostInv ==
    /\ AttemptsCostTime
    /\ \A m \in Msg : row[m].created <= now
    /\ \A w \in Worker : pc[w] = "failWrite" => att[w] = row[msg[w]].att

\* It holds at first.
LEMMA InitCost == Init => CostInv
  BY DEF Init, CostInv, AttemptsCostTime, InHand, NoRow

\* A step that sets no attempts and no time, and takes no row in hand that is
\* not due.
LEMMA CostKept ==
  ASSUME TypeOK, CostInv, now' \in Nat, now <= now',
         \A m \in Msg : row'[m].created \in Nat,
         \A m \in Msg : \/ /\ row'[m].att = row[m].att
                           /\ row'[m].created = row[m].created
                           /\ row'[m].retry = row[m].retry
                        \/ /\ row'[m].att = 0
                           /\ row'[m].created <= now
                           /\ row'[m].retry = 0,
         \A w \in Worker, m \in Msg : InHand(w, m)' => InHand(w, m) \/ row[m].retry <= now,
         \A w \in Worker : pc'[w] = "failWrite" => att'[w] = row'[msg'[w]].att
  PROVE  CostInv'
<1>1. /\ now \in Nat /\ Width \in Nat
      /\ \A m \in Msg : row[m].att \in Nat /\ row[m].created \in Nat /\ row[m].retry \in Nat
      /\ \A n \in Nat : Cost[n] \in Nat
  BY CostValues, DelayTypes DEF TypeOK, Rows
<1>2. \A w \in Worker, m \in Msg : InHand(w, m)' => row'[m].retry <= now'
  BY <1>1 DEF CostInv, AttemptsCostTime
<1>3. \A m \in Msg : row'[m].created <= now'
  <2>1. SUFFICES ASSUME NEW m \in Msg PROVE row'[m].created <= now'
    OBVIOUS
  <2>2. row[m].created <= now /\ row[m].created \in Nat
    BY <1>1 DEF CostInv
  <2>3. row'[m].created = row[m].created \/ row'[m].created <= now
    OBVIOUS
  <2>4. CASE row'[m].created = row[m].created
    BY <1>1, <2>2, <2>4
  <2>5. CASE row'[m].created <= now
    BY <1>1, <2>5
  <2>6. QED
    BY <2>3, <2>4, <2>5
<1>4. ASSUME NEW m \in Msg, row'[m].att > 0
      PROVE  IF row'[m].att <= Width
             THEN row'[m].retry >= row'[m].created + Cost[row'[m].att]
             ELSE now' >= row'[m].created + Cost[Width]
  <2>1. /\ row'[m].att = row[m].att
        /\ row'[m].created = row[m].created
        /\ row'[m].retry = row[m].retry
    BY <1>4
  <2>2. IF row[m].att <= Width
        THEN row[m].retry >= row[m].created + Cost[row[m].att]
        ELSE now >= row[m].created + Cost[Width]
    BY <1>4, <2>1 DEF CostInv, AttemptsCostTime
  <2>3. QED
    BY <1>1, <2>1, <2>2
<1>5. AttemptsCostTime'
  BY <1>2, <1>4 DEF AttemptsCostTime
<1>6. QED
  BY <1>3, <1>5 DEF CostInv

\* The failed attempt that MarkFailed records has waited for the ones before it.
LEMMA CostOfAttempt ==
  ASSUME TypeOK, HandInv, CostInv, NEW w \in Worker, pc[w] = "failWrite"
  PROVE  LET r == row[msg[w]]
         IN  IF att[w] + 1 <= Width
             THEN now + Backoff(att[w] + 1) >= r.created + Cost[att[w] + 1]
             ELSE now >= r.created + Cost[Width]
<1> DEFINE r == row[msg[w]]
           a == att[w]
<1>1. /\ msg[w] \in Msg /\ a = r.att
      /\ r.att \in Nat /\ r.created \in Nat /\ r.retry \in Nat /\ now \in Nat
      /\ Width \in Nat
  BY DelayTypes DEF TypeOK, HandInv, HandPc, CostInv, Rows
<1>2. r.retry <= now /\ r.created <= now
  BY <1>1 DEF CostInv, AttemptsCostTime, InHand
<1>3. a > 0 => IF a <= Width THEN r.retry >= r.created + Cost[a]
                             ELSE now >= r.created + Cost[Width]
  BY <1>1 DEF CostInv, AttemptsCostTime
<1>4. /\ Cost[a] \in Nat /\ Cost[Width] \in Nat /\ Cost[0] = 0
      /\ Nominal(a) \in Nat
      /\ Cost[a+1] = Cost[a] + Nominal(a)
  BY <1>1, CostValues, NominalType
<1>5. a + 1 \in Nat \ {0} /\ (a + 1) - 1 = a
  BY <1>1
<1>6. a + 1 <= Width => Backoff(a + 1) = Nominal(a)
  BY <1>5, BackoffValues
<1> HIDE DEF r, a
<1>7. CASE a + 1 <= Width
  <2>1. now >= r.created + Cost[a]
    BY <1>1, <1>2, <1>3, <1>4, <1>7
  <2>2. now + Backoff(a + 1) >= r.created + Cost[a + 1]
    BY <1>1, <1>4, <1>6, <1>7, <2>1
  <2>3. QED
    BY <1>7, <2>2 DEF r, a
<1>8. CASE ~(a + 1 <= Width)
  <2>1. a > 0 /\ (a <= Width => a = Width)
    BY <1>1, <1>8, DelayTypes
  <2>2. now >= r.created + Cost[Width]
    BY <1>1, <1>2, <1>3, <1>4, <2>1
  <2>3. QED
    BY <1>8, <2>2 DEF r, a
<1>9. QED
  BY <1>7, <1>8

\* Each step keeps it.
LEMMA CostStep == TInv /\ CostInv /\ [Next]_vars => CostInv'
<1> SUFFICES ASSUME TypeOK, LockExclusive, HandInv, CostInv, [Next]_vars
             PROVE  CostInv'
  BY DEF TInv
<1> USE DEF InHand
<1>0. /\ TypeOK'
      /\ now \in Nat /\ now <= now
      /\ \A m \in Msg : row'[m].created \in Nat
      /\ \A w \in Worker : pc[w] = "failWrite" => att[w] = row[msg[w]].att /\ msg[w] \in Msg
  <2>1. TypeOK'
    BY TypeStep DEF TInv
  <2>2. QED
    BY <2>1 DEF TypeOK, Rows, CostInv, HandInv, HandPc
<1>1. ASSUME NEW m \in Msg, Enqueue(m) PROVE CostInv'
  <2>1. /\ row[m].st = "none"
        /\ row' = [row EXCEPT ![m] = [st |-> "pending", att |-> 0, created |-> now,
                                      retry |-> 0, id |-> nextId]]
        /\ UNCHANGED <<now, pc, msg, att>>
    BY <1>1 DEF Enqueue, workers
  <2>2. \A w \in Worker : pc[w] = "failWrite" => row'[msg[w]] = row[msg[w]]
    BY <2>1 DEF TypeOK, HandInv, HandPc
  <2>3. QED
    BY <1>0, <2>1, <2>2, CostKept DEF TypeOK
<1>2. ASSUME NEW d \in Device, MarkAllPendingAsFailed(d) PROVE CostInv'
  BY <1>0, <1>2, CostKept DEF TypeOK, MarkAllPendingAsFailed, workers, Rows
<1>3. CASE CleanupOldFailed
  BY <1>0, <1>3, CostKept DEF TypeOK, CleanupOldFailed, workers, Rows
<1>4. CASE UNCHANGED <<now, row, pc, msg, att>>
  BY <1>4 DEF CostInv, AttemptsCostTime
<1>5. ASSUME NEW d \in Device, NEW w \in Worker, SpawnWorker(d, w) PROVE CostInv'
  BY <1>0, <1>5, CostKept DEF TypeOK, SpawnWorker, table
<1>6. CASE Restart
  BY <1>0, <1>6, CostKept DEF Restart, table
<1>7. ASSUME NEW w \in Worker, TryLock(w) PROVE CostInv'
  BY <1>0, <1>7, CostKept DEF TypeOK, TryLock, Goto, table
<1>8. ASSUME NEW w \in Worker, Return(w), UNCHANGED <<now, row>> PROVE CostInv'
  BY <1>0, <1>8, CostKept DEF TypeOK, Return, Goto
<1>9. ASSUME NEW w \in Worker, LoopTop(w) PROVE CostInv'
  <2>1. CASE Goto(w, "fetch") /\ UNCHANGED <<held, dev, msg, att>>
    BY <1>0, <1>9, <2>1, CostKept DEF TypeOK, LoopTop, Goto, table
  <2>2. QED
    BY <1>8, <1>9, <2>1 DEF LoopTop, table
<1>10. ASSUME NEW w \in Worker, GetNextPending(w) PROVE CostInv'
  <2>1. ASSUME NEW m \in NextPendingForDevice(dev[w]), msg' = [msg EXCEPT ![w] = m],
               Goto(w, "mark"), UNCHANGED att
        PROVE  CostInv'
    <3>1. row[m].retry <= now
      BY DEF NextPendingForDevice, DueOf, Due
    <3>2. UNCHANGED <<now, row>>
      BY <1>10 DEF GetNextPending, table
    <3>3. QED
      BY <1>0, <2>1, <3>1, <3>2, CostKept DEF TypeOK, Goto
  <2>2. QED
    BY <1>8, <1>10, <2>1 DEF GetNextPending, table
<1>11. ASSUME NEW w \in Worker, MarkProcessing(w) PROVE CostInv'
  <2>1. CASE /\ row' = Updated(msg[w], [row[msg[w]] EXCEPT !.st = "processing"])
             /\ Goto(w, "send")
             /\ UNCHANGED <<held, dev, msg, att>>
    BY <1>0, <1>11, <2>1, CostKept DEF TypeOK, MarkProcessing, Updated, Goto, Rows
  <2>2. QED
    BY <1>8, <1>11, <2>1 DEF MarkProcessing
<1>12. ASSUME NEW w \in Worker, Deliver(w) PROVE CostInv'
  BY <1>0, <1>12, CostKept DEF TypeOK, Deliver, Goto, table
<1>13. ASSUME NEW w \in Worker, MarkFailedRead(w) PROVE CostInv'
  <2>1. CASE /\ att' = [att EXCEPT ![w] = row[msg[w]].att]
             /\ Goto(w, "failWrite") /\ UNCHANGED <<held, dev, msg>>
    BY <1>0, <1>13, <2>1, CostKept DEF TypeOK, MarkFailedRead, Goto, table
  <2>2. QED
    BY <1>8, <1>13, <2>1 DEF MarkFailedRead, table
<1>14. ASSUME NEW w \in Worker, MarkFailedWrite(w) PROVE CostInv'
  <2>1. CASE /\ row' = Updated(msg[w],
                        [row[msg[w]] EXCEPT !.st = "pending",
                                            !.att = att[w] + 1,
                                            !.retry = now + Backoff(att[w] + 1)])
             /\ Goto(w, "loop")
             /\ msg' = [msg EXCEPT ![w] = None]
             /\ att' = [att EXCEPT ![w] = 0]
             /\ UNCHANGED <<held, dev>>
    <3> DEFINE x == msg[w]
               n == now + Backoff(att[w] + 1)
    <3>1. pc[w] = "failWrite" /\ x \in Msg /\ row[x].st # "none" /\ UNCHANGED now
      BY <1>14 DEF MarkFailedWrite, HandInv, HandPc
    <3>2. IF att[w] + 1 <= Width
          THEN n >= row[x].created + Cost[att[w] + 1]
          ELSE now >= row[x].created + Cost[Width]
      BY <3>1, CostOfAttempt
    <3> HIDE DEF n
    <3>3. /\ row'[x].att = att[w] + 1
          /\ row'[x].retry = n
          /\ row'[x].created = row[x].created
      BY <2>1, <3>1 DEF TypeOK, Updated, Rows, n
    <3>4. \A m \in Msg \ {x} : row'[m] = row[m]
      BY <2>1 DEF TypeOK, Updated
    <3>5. \A v \in Worker, m \in Msg : InHand(v, m)' => InHand(v, m) /\ m # x /\ v # w
      BY <2>1, <3>1 DEF TypeOK, Goto, LockExclusive, Holds, HandInv, HandPc, Pc
    <3>6. \A v \in Worker : pc'[v] = "failWrite" =>
             v # w /\ pc[v] = "failWrite" /\ msg'[v] = msg[v] /\ att'[v] = att[v] /\ msg[v] \in Msg \ {x}
      BY <1>0, <2>1, <3>1 DEF TypeOK, Goto, LockExclusive, Holds, HandInv, HandPc
    <3>7. \A v \in Worker, m \in Msg : InHand(v, m)' => row'[m].retry <= now'
      BY <3>1, <3>4, <3>5 DEF CostInv, AttemptsCostTime
    <3>8. \A m \in Msg : row'[m].created <= now'
      BY <3>1, <3>3, <3>4 DEF CostInv
    <3>9. \A v \in Worker : pc'[v] = "failWrite" => att'[v] = row'[msg'[v]].att
      BY <1>0, <3>4, <3>6
    <3>10. \A m \in Msg : row'[m].att > 0 =>
              IF row'[m].att <= Width
              THEN row'[m].retry >= row'[m].created + Cost[row'[m].att]
              ELSE now' >= row'[m].created + Cost[Width]
      <4>1. SUFFICES ASSUME NEW m \in Msg, row'[m].att > 0
                     PROVE  IF row'[m].att <= Width
                            THEN row'[m].retry >= row'[m].created + Cost[row'[m].att]
                            ELSE now' >= row'[m].created + Cost[Width]
        OBVIOUS
      <4>2. CASE m = x
        BY <3>1, <3>2, <3>3, <4>2
      <4>3. CASE m # x
        BY <3>1, <3>4, <4>1, <4>3 DEF CostInv, AttemptsCostTime
      <4>4. QED
        BY <4>2, <4>3
    <3>11. AttemptsCostTime'
      BY <3>7, <3>10 DEF AttemptsCostTime
    <3>12. QED
      BY <3>8, <3>9, <3>11 DEF CostInv
  <2>2. QED
    BY <1>8, <1>14, <2>1 DEF MarkFailedWrite
<1>15. ASSUME NEW w \in Worker, MarkSuccess(w) PROVE CostInv'
  <2>1. CASE /\ row' = [row EXCEPT ![msg[w]] = NoRow]
             /\ Goto(w, "loop")
             /\ msg' = [msg EXCEPT ![w] = None]
             /\ UNCHANGED <<held, dev, att>>
    <3>1. pc[w] = "delete" /\ msg[w] \in Msg /\ UNCHANGED now
      BY <1>15 DEF MarkSuccess, HandInv, HandPc
    <3>2. \A m \in Msg : row'[m] = IF m = msg[w] THEN NoRow ELSE row[m]
      BY <2>1 DEF TypeOK
    <3>3. \A v \in Worker, m \in Msg : InHand(v, m)' => InHand(v, m)
      BY <2>1 DEF TypeOK, Goto
    <3>4. \A v \in Worker : pc'[v] = "failWrite" =>
             /\ pc[v] = "failWrite" /\ msg'[v] = msg[v] /\ att'[v] = att[v]
             /\ msg[v] \in Msg \ {msg[w]}
      BY <1>0, <2>1, <3>1 DEF TypeOK, Goto, LockExclusive, Holds, HandInv, HandPc
    <3>5. \A v \in Worker : pc'[v] = "failWrite" => att'[v] = row'[msg'[v]].att
      BY <1>0, <3>2, <3>4
    <3>6. NoRow.att = 0 /\ NoRow.created <= now /\ NoRow.retry = 0
      BY <1>0 DEF NoRow
    <3>7. QED
      BY <1>0, <3>1, <3>2, <3>3, <3>5, <3>6, CostKept
  <2>2. QED
    BY <1>8, <1>15, <2>1 DEF MarkSuccess
<1>16. ASSUME NEW w \in Worker, WorkerStep(w) PROVE CostInv'
  BY <1>7, <1>9, <1>10, <1>11, <1>12, <1>13, <1>14, <1>15, <1>16 DEF WorkerStep
<1>17. CASE Tick
  <2>1. now' \in Nat /\ now <= now' /\ UNCHANGED <<row, pc, msg, att>>
    BY <1>0, <1>17 DEF Tick, table, workers
  <2>2. QED
    BY <1>0, <2>1, CostKept
<1>18. \/ UNCHANGED <<now, row, pc, msg, att>>
       \/ (\E m \in Msg : Enqueue(m))
       \/ (\E d \in Device : MarkAllPendingAsFailed(d))
       \/ CleanupOldFailed \/ Restart \/ Tick
       \/ (\E d \in Device, w \in Worker : SpawnWorker(d, w))
       \/ (\E w \in Worker : WorkerStep(w))
  BY DEF Next, vars, ProcessPending, LoopExit, Stop, CloseDatabase, workers, table
<1>19. QED
  BY <1>1, <1>2, <1>3, <1>4, <1>5, <1>6, <1>16, <1>17, <1>18

\* Every attempt of a row has cost the delays of the attempts before it, for any
\* cap, width, errors, crashes, logouts and goroutines: so no row is young when
\* its shift leaves the width.
THEOREM RetriesCostTime == Spec => []AttemptsCostTime
<1>1. TInv /\ [Next]_vars => TInv'
  BY TypeStep, LockStep, HandStep DEF TInv
<1>2. CostInv => AttemptsCostTime
  BY DEF CostInv
<1>3. QED
  BY InitTInv, InitCost, CostStep, <1>1, <1>2, PTL DEF Spec

-----------------------------------------------------------------------------
\* The table implements the outbox.

Stored == {m \in Msg : row[m].st # "none"}
Handed == {m \in handed : row[m].st # "none"}

\* The initial states are those of the outbox.
LEMMA InitOutbox == Init => O!Init
  BY DEF Init, O!Init, NoRow

\* A step that neither adds nor removes a row, nor reaches the API.
LEMMA OutboxStutter ==
  ASSUME TypeOK, UNCHANGED handed, \A m \in Msg : row'[m].st = "none" <=> row[m].st = "none"
  PROVE  UNCHANGED O!outboxVars
  BY DEF TypeOK, O!outboxVars

\* Each step is one of the outbox, or does not change what it sees.
LEMMA OutboxStep == TInv /\ KeepInv /\ [Next]_vars => [O!Next]_(O!outboxVars)
<1> SUFFICES ASSUME TypeOK, HandInv, KeepInv, [Next]_vars
             PROVE  [O!Next]_(O!outboxVars)
  BY DEF TInv
<1> USE DEF HandPc
<1>1. ASSUME NEW m \in Msg, Enqueue(m) PROVE O!Store(m)
  <2>1. m \notin Stored /\ Stored' = Stored \cup {m}
    BY <1>1 DEF TypeOK, Enqueue, Stored
  <2>2. UNCHANGED Handed
    BY <1>1 DEF TypeOK, Enqueue, Handed
  <2>3. QED
    BY <2>1, <2>2 DEF Stored, Handed, O!Store
<1>2. ASSUME NEW w \in Worker, Deliver(w)
      PROVE  O!Next \/ UNCHANGED O!outboxVars
  <2>1. msg[w] \in Stored /\ msg[w] \in Msg
    BY <1>2 DEF Deliver, HandInv, Stored
  <2>2. UNCHANGED row /\ UNCHANGED Stored
    BY <1>2 DEF Deliver, table, Stored
  <2>3. CASE Accepted(msg[w])
    <3>1. Handed' = Handed \cup {msg[w]}
      BY <2>1, <2>2, <2>3 DEF Accepted, Stored, Handed
    <3>2. QED
      BY <2>1, <2>2, <3>1 DEF Stored, Handed, O!Hand, O!Next
  <2>4. CASE UNCHANGED handed
    BY <2>2, <2>4, OutboxStutter
  <2>5. QED
    BY <1>2, <2>3, <2>4 DEF Deliver
<1>3. ASSUME NEW w \in Worker, MarkSuccess(w)
      PROVE  O!Next \/ UNCHANGED O!outboxVars
  <2>1. msg[w] \in Handed /\ msg[w] \in Msg
    BY <1>3 DEF MarkSuccess, HandInv, KeepInv, Handed
  <2>2. UNCHANGED handed
    BY <1>3 DEF MarkSuccess, history
  <2>3. CASE row' = [row EXCEPT ![msg[w]] = NoRow]
    <3>1. Stored' = Stored \ {msg[w]} /\ Handed' = Handed \ {msg[w]}
      BY <2>1, <2>2, <2>3 DEF TypeOK, Stored, Handed, NoRow
    <3>2. QED
      BY <2>1, <3>1 DEF Stored, Handed, O!Drop, O!Next
  <2>4. CASE UNCHANGED row
    BY <2>2, <2>4, OutboxStutter
  <2>5. QED
    BY <1>3, <2>3, <2>4 DEF MarkSuccess
<1>4. ASSUME NEW w \in Worker, MarkFailedWrite(w) PROVE UNCHANGED O!outboxVars
  <2>1. \A m \in Msg : row'[m].st = "none" <=> row[m].st = "none"
    <3>1. CASE row' = Updated(msg[w],
                        [row[msg[w]] EXCEPT !.st = "pending",
                                            !.att = att[w] + 1,
                                            !.retry = now + Backoff(att[w] + 1)])
      <4>1. \A m \in Msg : m = msg[w] \/ row'[m] = row[m]
        BY <3>1 DEF TypeOK, Updated
      <4>2. row[msg[w]].st # "none" /\ msg[w] \in Msg
        BY <1>4 DEF MarkFailedWrite, HandInv
      <4>3. row'[msg[w]].st = "pending"
        BY <3>1, <4>2 DEF TypeOK, Updated, Rows
      <4>4. QED
        BY <4>1, <4>2, <4>3
    <3>2. QED
      BY <1>4, <3>1 DEF MarkFailedWrite
  <2>2. QED
    BY <1>4, <2>1, OutboxStutter DEF MarkFailedWrite, history
<1>5. ASSUME NEW w \in Worker, MarkProcessing(w) PROVE UNCHANGED O!outboxVars
  BY <1>5, OutboxStutter DEF TypeOK, MarkProcessing, Updated, Rows, history
<1>6. ASSUME NEW w \in Worker,
             TryLock(w) \/ LoopTop(w) \/ GetNextPending(w) \/ MarkFailedRead(w)
      PROVE  UNCHANGED O!outboxVars
  BY <1>6, OutboxStutter DEF TryLock, LoopTop, GetNextPending, MarkFailedRead,
                             table, history
<1>7. ASSUME NEW d \in Device, MarkAllPendingAsFailed(d) PROVE UNCHANGED O!outboxVars
  BY <1>7, OutboxStutter DEF TypeOK, MarkAllPendingAsFailed, Rows, history
<1>8. CASE CleanupOldFailed
  BY <1>8, OutboxStutter DEF TypeOK, CleanupOldFailed, Rows, history
<1>9. ASSUME UNCHANGED <<row, handed>> PROVE UNCHANGED O!outboxVars
  BY <1>9 DEF O!outboxVars
<1>10. \/ UNCHANGED <<row, handed>>
       \/ \E m \in Msg : Enqueue(m)
       \/ \E d \in Device : MarkAllPendingAsFailed(d)
       \/ CleanupOldFailed
       \/ \E w \in Worker : WorkerStep(w)
  BY DEF Next, vars, ProcessPending, SpawnWorker, LoopExit, Stop, CloseDatabase,
         Restart, Tick, table, history
<1>11. ASSUME NEW w \in Worker, WorkerStep(w) PROVE [O!Next]_(O!outboxVars)
  <2>1. \/ Deliver(w) \/ MarkSuccess(w) \/ MarkFailedWrite(w) \/ MarkProcessing(w)
        \/ TryLock(w) \/ LoopTop(w) \/ GetNextPending(w) \/ MarkFailedRead(w)
    BY <1>11 DEF WorkerStep
  <2>2. QED
    BY <1>2, <1>3, <1>4, <1>5, <1>6, <2>1
<1>12. QED
  BY <1>1, <1>7, <1>8, <1>9, <1>10, <1>11 DEF O!Next

\* The delivery service keeps the promise of an outbox, through every crash,
\* error, logout and restart: a stored message stays stored until handed over, and
\* one that is stored again until it is handed over again.
THEOREM ImplementsOutbox == Spec => OutboxSpec
<1>1. TInv /\ [Next]_vars => TInv'
  BY TypeStep, LockStep, HandStep DEF TInv
<1>2. QED
  BY InitTInv, InitAcc, AccStep, InitOutbox, OutboxStep, <1>1, PTL
     DEF Spec, OutboxSpec, O!Spec
=============================================================================
