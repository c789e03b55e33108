------------------------- MODULE OrderProofs -------------------------
(***************************************************************************)
(* Safety of OrderService for every set of orders, calls, events and       *)
(* replicas and every number of faults; and, with what PaymentServiceProofs *)
(* proves of payment-service, safety of the saga the two take part in.     *)
(***************************************************************************)
EXTENDS OrderSaga, FiniteSetTheorems, TLAPS

LEMMA EventFields ==
    \A e \in Events : e.id \in EventIds /\ e.order \in Orders /\ e.type \in InventoryEventType
  BY ConstantsAssumption DEF EventIds

LEMMA CancelFields == \A k \in Cancels : k.order \in Orders
  BY ConstantsAssumption

LEMMA UpdateStatusTypes ==
    ASSUME TypeOK, NEW o \in Orders, NEW s \in OrderStatus, UpdateStatus(o, s)
    PROVE  status' \in [Orders -> OrderStatus \cup {NoRow}] /\ version' \in [Orders -> Nat]
  BY DEF TypeOK, UpdateStatus

(* A busy worker's current message is a message of the log. *)
WorkerInv ==
    \A h \in Consumers : Busy(h) => next[h] < Len(log)

LEMMA CurrentIsEvent ==
    ASSUME TypeOK, WorkerInv, NEW h \in Consumers, Busy(h)
    PROVE  /\ Current(h) \in Events
           /\ next[h] + 1 \in 1 .. Len(log)
  BY DEF TypeOK, WorkerInv, Current

LEMMA DeliverableIsEvent ==
    ASSUME TypeOK, NEW h \in Consumers, Deliverable(h)
    PROVE  /\ Current(h) \in Events
           /\ next[h] + 1 \in 1 .. Len(log)
  BY DEF TypeOK, Deliverable, Current

(* Every variable has its type, and a handler in progress has a message:   *)
(* the group's offsets never run past the partition.                       *)
TypeInv == TypeOK /\ WorkerInv

LEMMA ReturnTypes ==
    ASSUME TypeInv, NEW h \in Consumers, Busy(h), Return(h), log' = log
    PROVE  /\ next' \in [Consumers -> 0 .. Len(log)]
           /\ workerPc' \in [Consumers -> WorkerPc]
           /\ WorkerInv'
  BY DEF TypeInv, TypeOK, WorkerInv, Return, Goto, WorkerPc, Busy

LEMMA TypeInvInit == Init => TypeInv
  <1> SUFFICES ASSUME Init PROVE TypeInv
    OBVIOUS
  <1>1. status \in [Orders -> OrderStatus \cup {NoRow}] /\ number \in [Orders -> Nat \X Nat]
    BY DEF Init, NoRow
  <1>2. outbox \in Seq(OutboxRow) /\ log \in Seq(Events) /\ Len(log) = 0
    BY DEF Init
  <1>3. QED
    BY <1>1, <1>2 DEF Init, TypeInv, TypeOK, WorkerInv, Busy, CreatePc, CancelPc, WorkerPc

LEMMA TypeInvStep == TypeInv /\ [Next]_vars => TypeInv'
  <1> SUFFICES ASSUME TypeInv, [Next]_vars PROVE TypeInv'
    OBVIOUS
  <1> USE DEF TypeInv, TypeOK, WorkerInv, clock
  <1>1. ASSUME NEW o \in Orders, DrawNumber(o) PROVE TypeInv'
    <2>1. CountToday \in Nat
      <3>1. {p \in Orders : Exists(p) /\ createdOn[p] >= day} \subseteq Orders
        OBVIOUS
      <3>2. IsFiniteSet({p \in Orders : Exists(p) /\ createdOn[p] >= day})
        BY <3>1, ConstantsAssumption, FS_Subset
      <3>3. QED
        BY <3>2, FS_CardinalityType DEF CountToday
    <2>2. NextNumber \in Nat \X Nat
      BY <2>1 DEF NextNumber
    <2>3. QED
      BY <1>1, <2>2 DEF DrawNumber, kafka, workers, CreatePc, Busy
  <1>2. ASSUME NEW o \in Orders, CommitOrder(o) PROVE TypeInv'
    <2>1. outbox' \in Seq(OutboxRow)
      BY <1>2 DEF CommitOrder, CreatedRows, Row, OutboxRow, EventType
    <2>2. QED
      BY <1>2, <2>1 DEF CommitOrder, kafka, workers, CreatePc, Busy, OrderStatus
  <1>3. ASSUME NEW o \in Orders, RejectNumber(o) \/ CreateFails(o) PROVE TypeInv'
    BY <1>3 DEF RejectNumber, CreateFails, tables, kafka, workers, CreatePc, Busy
  <1>4. ASSUME Midnight PROVE TypeInv'
    BY <1>4 DEF Midnight, LocalMidnight, UtcMidnight, tables, kafka, workers, Busy
  <1>5. ASSUME NEW k \in Cancels, CancelRead(k) \/ CancelReject(k) PROVE TypeInv'
    BY <1>5 DEF CancelRead, CancelReject, tables, kafka, workers, CancelPc, Busy
  <1>6. ASSUME NEW k \in Cancels, CancelUpdate(k) PROVE TypeInv'
    <2>1. k.order \in Orders
      BY CancelFields
    <2>2. status' \in [Orders -> OrderStatus \cup {NoRow}] /\ version' \in [Orders -> Nat]
      BY <1>6, <2>1, UpdateStatusTypes DEF CancelUpdate, OrderStatus
    <2>3. QED
      BY <1>6, <2>2 DEF CancelUpdate, kafka, workers, CancelPc, Busy
  <1>7. ASSUME NEW k \in Cancels, CancelAnnounce(k) PROVE TypeInv'
    <2>1. outbox' \in Seq(OutboxRow)
      BY <1>7, CancelFields DEF CancelAnnounce, Row, OutboxRow, EventType
    <2>2. QED
      BY <1>7, <2>1 DEF CancelAnnounce, tables, kafka, workers, CancelPc, Busy
  <1>8. ASSUME NEW k \in Cancels, CancelDies(k) PROVE TypeInv'
    BY <1>8 DEF CancelDies, Fault, tables, kafka, workers, CancelPc, Busy, FaultKinds
  <1>9. ASSUME NEW e \in Events, InventoryPublishes(e) PROVE TypeInv'
    <2>1. log' \in Seq(Events) /\ Len(log') = Len(log) + 1
      BY <1>9 DEF InventoryPublishes
    <2>2. QED
      BY <1>9, <2>1 DEF InventoryPublishes, tables, workers, Busy
  <1>10. ASSUME NEW h \in Consumers, SkipDuplicate(h) PROVE TypeInv'
    BY <1>10 DEF SkipDuplicate, Deliverable, Return, Goto, tables, kafka, WorkerPc, Busy
  <1>11. ASSUME NEW h \in Consumers, Accept(h) PROVE TypeInv'
    <2>1. Current(h).id \in EventIds
      BY <1>11, DeliverableIsEvent, EventFields DEF Accept
    <2>2. QED
      BY <1>11, <2>1 DEF Accept, Deliverable, Goto, tables, kafka, WorkerPc, Busy
  <1>12. ASSUME NEW h \in Consumers, SkipSettled(h) \/ LoadPending(h) PROVE TypeInv'
    BY <1>12 DEF SkipSettled, LoadPending, Goto, tables, kafka, WorkerPc, Busy
  <1>13. ASSUME NEW h \in Consumers, ApplyOutcome(h) PROVE TypeInv'
    <2>1. Current(h).order \in Orders
      BY <1>13, CurrentIsEvent, EventFields DEF ApplyOutcome, Busy
    <2>2. OutcomeStatus(Current(h)) \in OrderStatus
      BY DEF OutcomeStatus, OrderStatus
    <2>3. status' \in [Orders -> OrderStatus \cup {NoRow}] /\ version' \in [Orders -> Nat]
      BY <1>13, <2>1, <2>2, UpdateStatusTypes DEF ApplyOutcome
    <2>4. QED
      BY <1>13, <2>3 DEF ApplyOutcome, Goto, kafka, WorkerPc, Busy
  <1>14. ASSUME NEW h \in Consumers, AnnounceOutcome(h) PROVE TypeInv'
    <2>1. Current(h).order \in Orders
      BY <1>14, CurrentIsEvent, EventFields DEF AnnounceOutcome, Busy
    <2>2. outbox' \in Seq(OutboxRow)
      BY <1>14, <2>1 DEF AnnounceOutcome, Row, OutboxRow, EventType, OutcomeEvent
    <2>3. QED
      BY <1>14, <2>2 DEF AnnounceOutcome, Goto, tables, kafka, WorkerPc, Busy
  <1>15. ASSUME NEW h \in Consumers, MarkProcessed(h) PROVE TypeInv'
    <2>1. Current(h).id \in EventIds
      BY <1>15, CurrentIsEvent, EventFields DEF MarkProcessed, Busy
    <2>2. processed' \in [EventIds -> {"absent", "live", "expired"}]
      BY <1>15, <2>1 DEF MarkProcessed
    <2>3. QED
      BY <1>15, <2>2, ReturnTypes DEF MarkProcessed, tables, kafka, Busy
  <1>16. ASSUME NEW h \in Consumers, HandlerFails(h) PROVE TypeInv'
    <2>1. faults' \in [FaultKinds -> Nat]
      BY <1>16 DEF HandlerFails, Fault, FaultKinds
    <2>2. Busy(h) /\ Return(h) /\ log' = log
      BY <1>16 DEF HandlerFails, kafka
    <2>3. QED
      BY <1>16, <2>1, <2>2, ReturnTypes DEF HandlerFails, tables, kafka
  <1>17. ASSUME NEW h \in Consumers, CommitOffset(h) PROVE TypeInv'
    BY <1>17 DEF CommitOffset, Resolved, tables, workers, Busy
  <1>18. ASSUME NEW h \in Consumers, Rebalance(h) PROVE TypeInv'
    <2>1. faults' \in [FaultKinds -> Nat]
      BY <1>18 DEF Rebalance, Fault, FaultKinds
    <2>2. QED
      BY <1>18, <2>1 DEF Rebalance, tables, Busy
  <1>19. ASSUME NEW h \in Consumers, Crash(h) PROVE TypeInv'
    <2>1. faults' \in [FaultKinds -> Nat]
      BY <1>19 DEF Crash, Fault, FaultKinds
    <2>2. /\ workerPc' \in [Consumers -> WorkerPc]
          /\ \A g \in Consumers : workerPc'[g] = IF g = h THEN "down" ELSE workerPc[g]
      BY <1>19 DEF Crash, WorkerPc
    <2>3. QED
      BY <1>19, <2>1, <2>2 DEF Crash, tables, kafka, Busy
  <1>20. ASSUME NEW h \in Consumers, Restart(h) PROVE TypeInv'
    BY <1>20 DEF Restart, tables, kafka, WorkerPc, Busy
  <1>21. ASSUME NEW i \in EventIds, Expire(i) PROVE TypeInv'
    BY <1>21 DEF Expire, tables, kafka, workers, Busy
  <1>22. CASE UNCHANGED vars
    BY <1>22 DEF vars, Busy
  <1>23. QED
    BY <1>1, <1>2, <1>3, <1>4, <1>5, <1>6, <1>7, <1>8, <1>9, <1>10, <1>11, <1>12, <1>13,
       <1>14, <1>15, <1>16, <1>17, <1>18, <1>19, <1>20, <1>21, <1>22
       DEF Next, CreateOrder, CancelOrder, Process, Group

(* The state of order-service is well typed whatever interleaves, and the  *)
(* group's offsets stay inside the partition.                              *)
THEOREM TypeCorrect == Spec => []TypeOK
  <1>1. Spec => []TypeInv
    BY TypeInvInit, TypeInvStep, PTL DEF Spec
  <1>2. TypeInv => TypeOK
    BY DEF TypeInv
  <1>3. QED
    BY <1>1, <1>2, PTL

-----------------------------------------------------------------------------
(* Who may rely on an order row: a create call that has not committed has  *)
(* none; a cancel call past its read and every logged event have one.      *)
RowInv ==
    /\ \A o \in Orders : createPc[o] \in {"new", "numbered"} => ~Exists(o)
    /\ \A k \in Cancels : cancelPc[k] \in {"read", "updated"} => Exists(k.order)
    /\ \A n \in 1 .. Len(log) : Exists(log[n].order)

LEMMA RowInvInit == Init => RowInv
  BY DEF Init, RowInv, Exists

(* The steps that leave every row's existence, the requests and the log    *)
(* alone.                                                                  *)
LEMMA RowInvFrame ==
    ASSUME RowInv, UNCHANGED <<status, createPc, cancelPc, log>>
    PROVE  RowInv'
  BY DEF RowInv, Exists

LEMMA RowInvStep == TypeInv /\ RowInv /\ [Next]_vars => RowInv'
  <1> SUFFICES ASSUME TypeInv, RowInv, [Next]_vars PROVE RowInv'
    OBVIOUS
  <1>1. ASSUME NEW o \in Orders, DrawNumber(o) PROVE RowInv'
    BY <1>1 DEF DrawNumber, RowInv, Exists, kafka, TypeInv, TypeOK
  <1>2. ASSUME NEW o \in Orders, CommitOrder(o) PROVE RowInv'
    <2>1. \A p \in Orders : Exists(p) => Exists(p)'
      BY <1>2 DEF CommitOrder, Exists, NoRow, TypeInv, TypeOK
    <2>2. \A p \in Orders : p # o => Exists(p)' = Exists(p) /\ createPc'[p] = createPc[p]
      BY <1>2 DEF CommitOrder, Exists, TypeInv, TypeOK
    <2>3. createPc'[o] = "committed"
      BY <1>2 DEF CommitOrder, TypeInv, TypeOK
    <2>4. \A p \in Orders : createPc'[p] \in {"new", "numbered"} => ~Exists(p)'
      BY <2>2, <2>3 DEF RowInv
    <2>5. \A n \in 1 .. Len(log) : log[n].order \in Orders
      BY EventFields DEF TypeInv, TypeOK
    <2>6. cancelPc' = cancelPc /\ log' = log
      BY <1>2 DEF CommitOrder, kafka
    <2>7. QED
      BY <2>1, <2>4, <2>5, <2>6, CancelFields DEF RowInv
  <1>3. ASSUME NEW o \in Orders, RejectNumber(o) \/ CreateFails(o) PROVE RowInv'
    BY <1>3 DEF RejectNumber, CreateFails, RowInv, Exists, tables, kafka, TypeInv, TypeOK
  <1>4. ASSUME NEW k \in Cancels,
               CancelRead(k) \/ CancelReject(k) \/ CancelAnnounce(k) \/ CancelDies(k)
        PROVE  RowInv'
    BY <1>4 DEF CancelRead, CancelReject, CancelAnnounce, CancelDies, Cancellable, NoRow,
                RowInv, Exists, tables, kafka, TypeInv, TypeOK
  <1>5. ASSUME NEW k \in Cancels, CancelUpdate(k) PROVE RowInv'
    <2>1. k.order \in Orders /\ Exists(k.order)
      BY <1>5, CancelFields DEF CancelUpdate, RowInv
    <2>2. \A p \in Orders : Exists(p)' = Exists(p)
      BY <1>5, <2>1 DEF CancelUpdate, UpdateStatus, Exists, NoRow, TypeInv, TypeOK
    <2>3. \A n \in 1 .. Len(log) : log[n].order \in Orders
      BY EventFields DEF TypeInv, TypeOK
    <2>4. createPc' = createPc /\ log' = log
      BY <1>5 DEF CancelUpdate, kafka
    <2>5. \A j \in Cancels : cancelPc'[j] \in {"read", "updated"} => cancelPc[j] \in {"read", "updated"}
      BY <1>5 DEF CancelUpdate, TypeInv, TypeOK
    <2>6. QED
      BY <2>2, <2>3, <2>4, <2>5, CancelFields DEF RowInv
  <1>6. ASSUME NEW e \in Events, InventoryPublishes(e) PROVE RowInv'
    BY <1>6 DEF InventoryPublishes, RowInv, Exists, tables, TypeInv, TypeOK
  <1>7. ASSUME NEW h \in Consumers, ApplyOutcome(h) PROVE RowInv'
    <2>1. Current(h).order \in Orders
      BY <1>7, CurrentIsEvent, EventFields DEF ApplyOutcome, Busy, TypeInv
    <2>2. Exists(Current(h).order)
      <3>1. next[h] + 1 \in 1 .. Len(log)
        BY <1>7, CurrentIsEvent DEF ApplyOutcome, Busy, TypeInv
      <3>2. QED
        BY <3>1 DEF RowInv, Current
    <2>3. \A p \in Orders : Exists(p)' = Exists(p)
      <3>1. OutcomeStatus(Current(h)) # NoRow
        BY DEF OutcomeStatus, NoRow
      <3>2. status' = [status EXCEPT ![Current(h).order] = OutcomeStatus(Current(h))]
        BY <1>7 DEF ApplyOutcome, UpdateStatus
      <3>3. QED
        BY <2>1, <2>2, <3>1, <3>2 DEF Exists, TypeInv, TypeOK
    <2>4. \A n \in 1 .. Len(log) : log[n].order \in Orders
      BY EventFields DEF TypeInv, TypeOK
    <2>5. UNCHANGED <<createPc, cancelPc, log>>
      BY <1>7 DEF ApplyOutcome, kafka
    <2>6. QED
      BY <2>3, <2>4, <2>5, CancelFields DEF RowInv
  <1>8. ASSUME Midnight PROVE RowInv'
    BY <1>8, RowInvFrame DEF Midnight, tables, kafka
  <1>9. ASSUME NEW h \in Consumers,
               \/ SkipDuplicate(h) \/ Accept(h) \/ SkipSettled(h) \/ LoadPending(h)
               \/ AnnounceOutcome(h) \/ MarkProcessed(h) \/ HandlerFails(h)
        PROVE  RowInv'
    BY <1>9, RowInvFrame DEF SkipDuplicate, Accept, SkipSettled, LoadPending, AnnounceOutcome,
                             MarkProcessed, HandlerFails, tables, kafka
  <1>10. ASSUME NEW h \in Consumers, Group(h) PROVE RowInv'
    BY <1>10, RowInvFrame DEF Group, CommitOffset, Rebalance, Crash, Restart, tables, kafka
  <1>11. ASSUME NEW i \in EventIds, Expire(i) PROVE RowInv'
    BY <1>11, RowInvFrame DEF Expire, tables, kafka
  <1>12. CASE UNCHANGED vars
    BY <1>12, RowInvFrame DEF vars
  <1>13. QED
    BY <1>1, <1>2, <1>3, <1>4, <1>5, <1>6, <1>7, <1>8, <1>9, <1>10, <1>11, <1>12
       DEF Next, CreateOrder, CancelOrder, Process

-----------------------------------------------------------------------------
(* What a handler knows of its message, and what processed_events records. *)
OutcomeInv ==
    /\ \A h \in Consumers :
        workerPc[h] \in {"checked", "loaded", "announcing"} => IsOutcome(Current(h))
    /\ \A h \in Consumers :
        workerPc[h] \in {"announcing", "marking"} /\ IsOutcome(Current(h)) =>
            Settled(Current(h).order)
    /\ \A e \in Events : processed[e.id] # "absent" => Exists(e.order)
    /\ ProcessedIsSettled

LEMMA OutcomeInvInit == Init => OutcomeInv
  BY EventFields DEF Init, OutcomeInv, ProcessedIsSettled

(* No step takes an existing order back to PENDING. *)
LEMMA SettledStays ==
    ASSUME TypeInv, RowInv, [Next]_vars, NEW o \in Orders, Exists(o)
    PROVE  Exists(o)' /\ (Settled(o) => Settled(o)')
  <1>1. ASSUME NEW p \in Orders, CommitOrder(p)
        PROVE  status'[o] = status[o]
    <2>1. p # o
      BY <1>1 DEF CommitOrder, RowInv
    <2>2. QED
      BY <1>1, <2>1 DEF CommitOrder, TypeInv, TypeOK
  <1>2. ASSUME NEW k \in Cancels, CancelUpdate(k)
        PROVE  status'[o] \in {status[o], "CANCELLED"}
    BY <1>2, CancelFields DEF CancelUpdate, UpdateStatus, TypeInv, TypeOK
  <1>3. ASSUME NEW h \in Consumers, ApplyOutcome(h)
        PROVE  status'[o] \in {status[o], "CONFIRMED", "CANCELLED"}
    <2>1. status' = [status EXCEPT ![Current(h).order] = OutcomeStatus(Current(h))]
      BY <1>3 DEF ApplyOutcome, UpdateStatus
    <2>2. QED
      BY <2>1 DEF OutcomeStatus, TypeInv, TypeOK
  <1>4. CASE status' = status
    BY <1>4 DEF Exists, Settled
  <1>5. \/ status' = status
        \/ \E p \in Orders : CommitOrder(p)
        \/ \E k \in Cancels : CancelUpdate(k)
        \/ \E h \in Consumers : ApplyOutcome(h)
    BY DEF Next, vars, CreateOrder, CancelOrder, Process, Group, DrawNumber, RejectNumber,
           CreateFails, Midnight, CancelRead, CancelReject, CancelAnnounce, CancelDies,
           InventoryPublishes, SkipDuplicate, Accept, SkipSettled, LoadPending,
           AnnounceOutcome, MarkProcessed, HandlerFails, CommitOffset, Rebalance, Crash,
           Restart, Expire, tables
  <1>6. QED
    BY <1>1, <1>2, <1>3, <1>4, <1>5 DEF Exists, Settled, NoRow

(* A worker that stays busy keeps its message. *)
LEMMA CurrentStays ==
    ASSUME TypeInv, [Next]_vars, NEW h \in Consumers, Busy(h), next'[h] = next[h]
    PROVE  Current(h)' = Current(h)
  <1>1. next[h] + 1 \in 1 .. Len(log)
    BY CurrentIsEvent DEF TypeInv
  <1>2. log' = log \/ \E e \in Events : log' = Append(log, e)
    BY DEF Next, vars, CreateOrder, CancelOrder, Process, Group, DrawNumber, RejectNumber,
           CommitOrder, CreateFails, Midnight, CancelRead, CancelReject, CancelUpdate,
           CancelAnnounce, CancelDies, InventoryPublishes, SkipDuplicate, Accept,
           SkipSettled, LoadPending, ApplyOutcome, AnnounceOutcome, MarkProcessed,
           HandlerFails, CommitOffset, Rebalance, Crash, Restart, Expire, kafka
  <1>3. QED
    BY <1>1, <1>2 DEF Current, TypeInv, TypeOK

(* A worker at one of the handler's steps after the step is either where it *)
(* was before with the same message, or got there by a step of its own.    *)
LEMMA BusyStep ==
    ASSUME TypeInv, [Next]_vars, NEW h \in Consumers, Busy(h)',
           ~(workerPc'[h] = workerPc[h] /\ next'[h] = next[h])
    PROVE  Accept(h) \/ SkipSettled(h) \/ LoadPending(h) \/ ApplyOutcome(h) \/ AnnounceOutcome(h)
  <1> DEFINE Still(g) == workerPc'[g] = workerPc[g] /\ next'[g] = next[g]
  <1>1. ASSUME NEW g \in Consumers, g # h, Process(g) \/ HandlerFails(g) \/ Group(g)
        PROVE  Still(h)
    BY <1>1 DEF Process, HandlerFails, Group, SkipDuplicate, Accept, SkipSettled,
                LoadPending, ApplyOutcome, AnnounceOutcome, MarkProcessed, CommitOffset,
                Rebalance, Crash, Restart, Return, Goto, workers, TypeInv, TypeOK
  <1>2. ASSUME \/ \E o \in Orders : CreateOrder(o)
               \/ Midnight
               \/ \E k \in Cancels : CancelOrder(k)
               \/ \E e \in Events : InventoryPublishes(e)
               \/ \E i \in EventIds : Expire(i)
        PROVE  Still(h)
    BY <1>2 DEF CreateOrder, CancelOrder, DrawNumber, CommitOrder, RejectNumber,
                CreateFails, Midnight, CancelRead, CancelReject, CancelUpdate,
                CancelAnnounce, CancelDies, InventoryPublishes, Expire, workers
  <1>3. ASSUME SkipDuplicate(h) \/ MarkProcessed(h) \/ HandlerFails(h) \/ Group(h)
        PROVE  FALSE
    BY <1>3 DEF SkipDuplicate, MarkProcessed, HandlerFails, Group, CommitOffset,
                      Rebalance, Crash, Restart, Return, Goto, workers, Busy, TypeInv, TypeOK
  <1>4. CASE UNCHANGED vars
    BY <1>4 DEF vars
  <1>5. QED
    BY <1>1, <1>2, <1>3, <1>4 DEF Next, Process

LEMMA OutcomeInvStep ==
    TypeInv /\ RowInv /\ OutcomeInv /\ [Next]_vars => OutcomeInv'
  <1> SUFFICES ASSUME TypeInv, RowInv, OutcomeInv, [Next]_vars PROVE OutcomeInv'
    OBVIOUS
  <1> DEFINE Still(h) == workerPc'[h] = workerPc[h] /\ next'[h] = next[h]
  <1>1. ASSUME NEW h \in Consumers, Busy(h)', ~Still(h)
        PROVE  \/ Accept(h) \/ SkipSettled(h) \/ LoadPending(h)
               \/ ApplyOutcome(h) \/ AnnounceOutcome(h)
    BY <1>1, BusyStep
  <1>2. ASSUME NEW h \in Consumers, Busy(h)', Still(h)
        PROVE  Busy(h) /\ Current(h)' = Current(h)
    BY <1>2, CurrentStays DEF Busy
  <1>3. ASSUME NEW h \in Consumers, Accept(h) \/ SkipSettled(h) \/ LoadPending(h)
                                    \/ ApplyOutcome(h) \/ AnnounceOutcome(h)
        PROVE  Current(h)' = Current(h)
    BY <1>3 DEF Accept, SkipSettled, LoadPending, ApplyOutcome, AnnounceOutcome, kafka, Current
  <1>4. ASSUME NEW h \in Consumers,
               workerPc'[h] \in {"checked", "loaded", "announcing"}
        PROVE  IsOutcome(Current(h))'
    <2>1. Busy(h)'
      BY <1>4 DEF Busy
    <2>2. CASE Still(h)
      BY <1>2, <1>4, <2>1, <2>2 DEF OutcomeInv, IsOutcome
    <2>3. CASE Accept(h)
      BY <1>3, <1>4, <2>3 DEF Accept, Goto, IsOutcome, TypeInv, TypeOK
    <2>4. CASE SkipSettled(h) \/ LoadPending(h) \/ ApplyOutcome(h) \/ AnnounceOutcome(h)
      BY <1>3, <1>4, <2>4 DEF SkipSettled, LoadPending, ApplyOutcome, AnnounceOutcome,
                              OutcomeInv, IsOutcome
    <2>5. QED
      BY <1>1, <2>1, <2>2, <2>3, <2>4
  <1>5. ASSUME NEW h \in Consumers,
               workerPc'[h] \in {"announcing", "marking"}, IsOutcome(Current(h))'
        PROVE  Settled(Current(h).order)'
    <2>1. Busy(h)'
      BY <1>5 DEF Busy
    <2>2. Current(h)' = Current(h)
      BY <1>1, <1>2, <1>3, <2>1
    <2>3. IsOutcome(Current(h))
      BY <1>5, <2>2 DEF IsOutcome
    <2>4. ASSUME Busy(h)
          PROVE  Current(h).order \in Orders /\ Exists(Current(h).order)
      <3>1. Current(h) \in Events /\ next[h] + 1 \in 1 .. Len(log)
        BY <2>4, CurrentIsEvent DEF TypeInv
      <3>2. QED
        BY <3>1, EventFields DEF RowInv, Current
    <2>5. CASE Still(h)
      <3>1. Settled(Current(h).order)
        BY <1>5, <2>3, <2>5 DEF OutcomeInv
      <3>2. QED
        BY <1>2, <2>1, <2>2, <2>4, <2>5, <3>1, SettledStays DEF Settled
    <2>6. CASE SkipSettled(h)
      BY <2>2, <2>6 DEF SkipSettled, tables, Settled
    <2>7. CASE ApplyOutcome(h)
      <3>1. Busy(h)
        BY <2>7 DEF ApplyOutcome, Busy
      <3>2. status' = [status EXCEPT ![Current(h).order] = OutcomeStatus(Current(h))]
        BY <2>7 DEF ApplyOutcome, UpdateStatus
      <3>3. OutcomeStatus(Current(h)) # "PENDING"
        BY DEF OutcomeStatus
      <3>4. QED
        BY <2>2, <2>4, <3>1, <3>2, <3>3 DEF Settled, TypeInv, TypeOK
    <2>8. CASE AnnounceOutcome(h)
      <3>1. Settled(Current(h).order)
        BY <2>3, <2>8 DEF AnnounceOutcome, OutcomeInv
      <3>2. QED
        BY <2>2, <2>8, <3>1 DEF AnnounceOutcome, tables, Settled
    <2>9. CASE Accept(h)
      BY <1>5, <2>3, <2>9 DEF Accept, Goto, TypeInv, TypeOK
    <2>10. CASE LoadPending(h)
      BY <1>5, <2>10 DEF LoadPending, Goto, TypeInv, TypeOK
    <2>11. QED
      BY <1>1, <2>1, <2>5, <2>6, <2>7, <2>8, <2>9, <2>10
  <1>6. ASSUME NEW e \in Events, processed'[e.id] # "absent"
        PROVE  Exists(e.order)' /\ (IsOutcome(e) => Settled(e.order)')
    <2>1. e.id \in EventIds /\ e.order \in Orders
      BY EventFields
    <2>2. CASE processed[e.id] # "absent"
      BY <2>1, <2>2, SettledStays DEF OutcomeInv, ProcessedIsSettled
    <2>3. CASE processed[e.id] = "absent"
      <3>1. ASSUME NEW h \in Consumers, Accept(h)
            PROVE  FALSE
        BY <1>6, <2>1, <2>3, <3>1 DEF Accept, TypeInv, TypeOK
      <3>2. ASSUME NEW i \in EventIds, Expire(i)
            PROVE  FALSE
        BY <1>6, <2>1, <2>3, <3>2 DEF Expire, TypeInv, TypeOK
      <3>3. processed' = processed \/ (\E h \in Consumers : Accept(h) \/ MarkProcessed(h))
                                   \/ (\E i \in EventIds : Expire(i))
        BY DEF Next, vars, CreateOrder, CancelOrder, Process, Group, DrawNumber, RejectNumber,
               CommitOrder, CreateFails, Midnight, CancelRead, CancelReject, CancelUpdate,
               CancelAnnounce, CancelDies, InventoryPublishes, SkipDuplicate, SkipSettled,
               LoadPending, ApplyOutcome, AnnounceOutcome, HandlerFails, CommitOffset,
               Rebalance, Crash, Restart
      <3>4. PICK h \in Consumers : MarkProcessed(h)
        BY <1>6, <2>3, <3>1, <3>2, <3>3
      <3>5. Busy(h) /\ workerPc[h] = "marking"
        BY <3>4 DEF MarkProcessed, Busy
      <3>6. Current(h) \in Events /\ next[h] + 1 \in 1 .. Len(log)
        BY <3>5, CurrentIsEvent DEF TypeInv
      <3>7. Current(h).id = e.id
        BY <1>6, <2>1, <2>3, <3>4 DEF MarkProcessed, TypeInv, TypeOK
      <3>8. Current(h) = e
        BY <3>6, <3>7, EventIdsAssumption
      <3>9. Exists(e.order)
        BY <3>6, <3>8 DEF RowInv, Current
      <3>10. IsOutcome(e) => Settled(e.order)
        BY <3>5, <3>8 DEF OutcomeInv
      <3>11. QED
        BY <2>1, <3>9, <3>10, SettledStays
    <2>4. QED
      BY <2>2, <2>3
  <1>7. QED
    BY <1>4, <1>5, <1>6 DEF OutcomeInv, ProcessedIsSettled, Settled, Exists, IsOutcome

-----------------------------------------------------------------------------
(* Only createOrder's transaction inserts an order, and none is deleted. *)
LEMMA RowsStay ==
    ASSUME TypeInv, RowInv, [Next]_vars, ~\E o \in Orders : CommitOrder(o)
    PROVE  \A o \in Orders : Exists(o)' = Exists(o)
  <1>1. \A o \in Orders : Exists(o) => Exists(o)'
    BY SettledStays
  <1>2. ASSUME NEW k \in Cancels, CancelUpdate(k), NEW o \in Orders, ~Exists(o)
        PROVE  ~Exists(o)'
    <2>1. k.order # o
      BY <1>2 DEF CancelUpdate, RowInv
    <2>2. QED
      BY <1>2, <2>1 DEF CancelUpdate, UpdateStatus, Exists, TypeInv, TypeOK
  <1>3. ASSUME NEW h \in Consumers, ApplyOutcome(h), NEW o \in Orders, ~Exists(o)
        PROVE  ~Exists(o)'
    <2>1. next[h] + 1 \in 1 .. Len(log)
      BY <1>3, CurrentIsEvent DEF ApplyOutcome, Busy, TypeInv
    <2>2. Current(h).order # o
      BY <1>3, <2>1 DEF RowInv, Current
    <2>3. status' = [status EXCEPT ![Current(h).order] = OutcomeStatus(Current(h))]
      BY <1>3 DEF ApplyOutcome, UpdateStatus
    <2>4. QED
      BY <1>3, <2>2, <2>3 DEF Exists, TypeInv, TypeOK
  <1>4. \/ status' = status
        \/ \E k \in Cancels : CancelUpdate(k)
        \/ \E h \in Consumers : ApplyOutcome(h)
    BY DEF Next, vars, CreateOrder, CancelOrder, Process, Group, DrawNumber,
           RejectNumber, CreateFails, Midnight, CancelRead, CancelReject, CancelAnnounce,
           CancelDies, InventoryPublishes, SkipDuplicate, Accept, SkipSettled, LoadPending,
           AnnounceOutcome, MarkProcessed, HandlerFails, CommitOffset, Rebalance, Crash,
           Restart, Expire, tables
  <1>5. CASE status' = status
    BY <1>5 DEF Exists
  <1>6. QED
    BY <1>1, <1>2, <1>3, <1>4, <1>5 DEF Exists

(* What a step may do to the outbox. *)
LEMMA OutboxStep ==
    ASSUME TypeInv, RowInv, [Next]_vars
    PROVE  \/ UNCHANGED outbox /\ (\A o \in Orders : Exists(o)' = Exists(o))
           \/ \E o \in Orders : /\ ~Exists(o) /\ Exists(o)'
                                /\ \A p \in Orders \ {o} : Exists(p)' = Exists(p)
                                /\ outbox' = Append(outbox, Row(o, "OrderCreated"))
           \/ \E o \in Orders, t \in EventType \ {"OrderCreated"} :
                /\ Exists(o) /\ UNCHANGED status
                /\ outbox' = Append(outbox, Row(o, t))
  <1>1. ASSUME NEW o \in Orders, CommitOrder(o)
        PROVE  /\ ~Exists(o) /\ Exists(o)'
               /\ \A p \in Orders \ {o} : Exists(p)' = Exists(p)
               /\ outbox' = Append(outbox, Row(o, "OrderCreated"))
    BY <1>1 DEF CommitOrder, CreatedRows, RowInv, Exists, NoRow, TypeInv, TypeOK
  <1>2. ASSUME NEW k \in Cancels, CancelAnnounce(k)
        PROVE  /\ k.order \in Orders /\ Exists(k.order) /\ UNCHANGED status
               /\ outbox' = Append(outbox, Row(k.order, "OrderCancelled"))
    BY <1>2, CancelFields DEF CancelAnnounce, RowInv, tables
  <1>3. ASSUME NEW h \in Consumers, AnnounceOutcome(h)
        PROVE  /\ Current(h).order \in Orders /\ Exists(Current(h).order) /\ UNCHANGED status
               /\ OutcomeEvent(Current(h)) \in EventType \ {"OrderCreated"}
               /\ outbox' = Append(outbox, Row(Current(h).order, OutcomeEvent(Current(h))))
    <2>1. Current(h) \in Events /\ next[h] + 1 \in 1 .. Len(log)
      BY <1>3, CurrentIsEvent DEF AnnounceOutcome, Busy, TypeInv
    <2>2. Exists(Current(h).order)
      BY <2>1 DEF RowInv, Current
    <2>3. QED
      BY <1>3, <2>1, <2>2, EventFields DEF AnnounceOutcome, OutcomeEvent, EventType, tables
  <1>4. \/ UNCHANGED outbox /\ ~\E o \in Orders : CommitOrder(o)
        \/ \E o \in Orders : CommitOrder(o)
        \/ \E k \in Cancels : CancelAnnounce(k)
        \/ \E h \in Consumers : AnnounceOutcome(h)
    BY DEF Next, vars, CreateOrder, CancelOrder, Process, Group, DrawNumber, RejectNumber,
           CreateFails, Midnight, CancelRead, CancelReject, CancelUpdate, CancelDies,
           InventoryPublishes, SkipDuplicate, Accept, SkipSettled, LoadPending, ApplyOutcome,
           MarkProcessed, HandlerFails, CommitOffset, Rebalance, Crash, Restart, Expire
  <1>5. ASSUME UNCHANGED outbox, ~\E o \in Orders : CommitOrder(o)
        PROVE  \A o \in Orders : Exists(o)' = Exists(o)
    BY <1>5, RowsStay
  <1>6. QED
    BY <1>1, <1>2, <1>3, <1>4, <1>5 DEF EventType

LEMMA CreatedFirstStep ==
    TypeInv /\ RowInv /\ CreatedFirst /\ [Next]_vars => CreatedFirst'
  <1> SUFFICES ASSUME TypeInv, RowInv, CreatedFirst, [Next]_vars PROVE CreatedFirst'
    OBVIOUS
  <1>0. outbox \in Seq(OutboxRow)
    BY DEF TypeInv, TypeOK
  <1>1. \A i \in DOMAIN outbox : outbox[i].order \in Orders
    <2>1. \A i \in DOMAIN outbox : outbox[i] \in OutboxRow
      BY <1>0
    <2>2. QED
      BY <2>1 DEF OutboxRow
  <1>2. CASE UNCHANGED outbox /\ (\A o \in Orders : Exists(o)' = Exists(o))
    BY <1>1, <1>2 DEF CreatedFirst
  <1>3. ASSUME NEW o \in Orders, ~Exists(o), Exists(o)',
               \A p \in Orders \ {o} : Exists(p)' = Exists(p),
               outbox' = Append(outbox, Row(o, "OrderCreated"))
        PROVE  CreatedFirst'
    <2>1. /\ DOMAIN outbox' = 1 .. Len(outbox) + 1
          /\ outbox'[Len(outbox) + 1] = Row(o, "OrderCreated")
          /\ \A i \in DOMAIN outbox : i \in 1 .. Len(outbox) /\ outbox'[i] = outbox[i]
      BY <1>0, <1>3
    <2>2. \A i \in DOMAIN outbox : outbox[i].order # o
      BY <1>3 DEF CreatedFirst
    <2>3. \A p \in Orders : Exists(p)' => \E i \in DOMAIN outbox' : outbox'[i] = Row(p, "OrderCreated")
      BY <1>0, <1>3, <2>1 DEF CreatedFirst
    <2>4. \A i \in DOMAIN outbox' : Exists(outbox[i].order)'
      BY <1>0, <1>1, <1>3, <2>1, <2>2 DEF CreatedFirst, Row, Exists
    <2>5. \A i, j \in DOMAIN outbox' :
            outbox'[i].order = outbox'[j].order /\ outbox'[j].type = "OrderCreated" => j <= i
      BY <1>0, <2>1, <2>2 DEF CreatedFirst, Row
    <2>6. QED
      BY <2>3, <2>4, <2>5 DEF CreatedFirst, Row
  <1>4. ASSUME NEW o \in Orders, NEW t \in EventType \ {"OrderCreated"},
               Exists(o), UNCHANGED status, outbox' = Append(outbox, Row(o, t))
        PROVE  CreatedFirst'
    <2>1. /\ DOMAIN outbox' = 1 .. Len(outbox) + 1
          /\ outbox'[Len(outbox) + 1] = Row(o, t)
          /\ \A i \in DOMAIN outbox : i \in 1 .. Len(outbox) /\ outbox'[i] = outbox[i]
      BY <1>0, <1>4
    <2>2. \A p \in Orders : Exists(p)' = Exists(p)
      BY <1>4 DEF Exists
    <2>3. \A p \in Orders : Exists(p)' => \E i \in DOMAIN outbox' : outbox'[i] = Row(p, "OrderCreated")
      BY <1>0, <2>1, <2>2 DEF CreatedFirst
    <2>4. \A i \in DOMAIN outbox' : Exists(outbox[i].order)'
      BY <1>0, <1>1, <1>4, <2>1, <2>2 DEF CreatedFirst, Row, Exists
    <2>5. \A i, j \in DOMAIN outbox' :
            outbox'[i].order = outbox'[j].order /\ outbox'[j].type = "OrderCreated" => j <= i
      BY <1>0, <2>1 DEF CreatedFirst, Row
    <2>6. QED
      BY <2>3, <2>4, <2>5 DEF CreatedFirst, Row
  <1>5. QED
    BY <1>2, <1>3, <1>4, OutboxStep

(* Every order is announced by exactly one OrderCreated, which stands      *)
(* first in the outbox, and nothing is announced about an order that did   *)
(* not commit.                                                             *)
THEOREM OrderCreatedComesFirst == Spec => []CreatedFirst
  <1> DEFINE IInv == TypeInv /\ RowInv /\ CreatedFirst
  <1>1. Init => IInv
    <2>1. Init => CreatedFirst
      BY DEF Init, CreatedFirst, Exists
    <2>2. QED
      BY <2>1, TypeInvInit, RowInvInit
  <1>2. IInv /\ [Next]_vars => IInv'
    BY TypeInvStep, RowInvStep, CreatedFirstStep
  <1>3. IInv => CreatedFirst
    OBVIOUS
  <1>4. QED
    BY <1>1, <1>2, <1>3, PTL DEF Spec

-----------------------------------------------------------------------------
(* Every message a consumer has passed over, or the group has committed,   *)
(* is settled.  A handler that fails passes its message over too, so this  *)
(* holds until one does; crashes, duplicates, rebalances and stalls are    *)
(* all allowed.                                                            *)
PassedIsSettled ==
    /\ \A h \in Consumers : \A n \in 1 .. next[h] : IsOutcome(log[n]) => Settled(log[n].order)
    /\ \A n \in 1 .. committed : IsOutcome(log[n]) => Settled(log[n].order)

PassedInv == faults["failure"] = 0 => PassedIsSettled

(* A failure once counted stays counted. *)
LEMMA FailuresStay ==
    ASSUME TypeInv, [Next]_vars, faults'["failure"] = 0
    PROVE  faults["failure"] = 0
  <1>1. (\E kind \in FaultKinds : Fault(kind)) \/ UNCHANGED faults
    <2>1. \A f \in {"crash", "failure", "rebalance", "stall"} : f \in FaultKinds
      BY DEF FaultKinds
    <2>2. QED
      BY <2>1 DEF Next, vars, CreateOrder, CancelOrder, Process, Group, DrawNumber, RejectNumber,
             CommitOrder, CreateFails, Midnight, CancelRead, CancelReject, CancelUpdate,
             CancelAnnounce, CancelDies, InventoryPublishes, SkipDuplicate, Accept,
             SkipSettled, LoadPending, ApplyOutcome, AnnounceOutcome, MarkProcessed,
             HandlerFails, CommitOffset, Rebalance, Crash, Restart, Expire, kafka
  <1>2. ASSUME NEW kind \in FaultKinds, Fault(kind) PROVE faults["failure"] = 0
    <2>1. "failure" \in FaultKinds
      BY DEF FaultKinds
    <2>2. QED
      BY <1>2, <2>1 DEF Fault, TypeInv, TypeOK
  <1>3. QED
    BY <1>1, <1>2

LEMMA PassedStep ==
    ASSUME TypeInv, RowInv, OutcomeInv, PassedIsSettled, [Next]_vars, faults'["failure"] = 0
    PROVE  PassedIsSettled'
  <1> DEFINE SettledAt(n) == IsOutcome(log[n]) => Settled(log[n].order)
  <1>1. \A n \in 1 .. Len(log) : log'[n] = log[n]
    <2>1. log' = log \/ \E e \in Events : log' = Append(log, e)
      BY DEF Next, vars, CreateOrder, CancelOrder, Process, Group, DrawNumber, RejectNumber,
             CommitOrder, CreateFails, Midnight, CancelRead, CancelReject, CancelUpdate,
             CancelAnnounce, CancelDies, InventoryPublishes, SkipDuplicate, Accept,
             SkipSettled, LoadPending, ApplyOutcome, AnnounceOutcome, MarkProcessed,
             HandlerFails, CommitOffset, Rebalance, Crash, Restart, Expire, kafka
    <2>2. log \in Seq(Events)
      BY DEF TypeInv, TypeOK
    <2>3. ASSUME NEW e \in Events, log' = Append(log, e), NEW n \in 1 .. Len(log)
          PROVE  log'[n] = log[n]
      BY <2>2, <2>3
    <2>4. QED
      BY <2>1, <2>3
  <1>2. \A n \in 1 .. Len(log) : log[n].order \in Orders /\ Exists(log[n].order)
    BY EventFields DEF RowInv, TypeInv, TypeOK
  <1>3. ASSUME NEW n \in 1 .. Len(log), SettledAt(n)
        PROVE  SettledAt(n)'
    BY <1>1, <1>2, <1>3, SettledStays DEF IsOutcome, Settled
  (* A consumer moves past at most one message, and that one is settled.   *)
  <1>4. ASSUME NEW h \in Consumers
        PROVE  \/ next'[h] = next[h] \/ next'[h] = committed
               \/ next'[h] = next[h] + 1 /\ next[h] + 1 \in 1 .. Len(log) /\ SettledAt(next[h] + 1)
    <2>1. ASSUME SkipDuplicate(h)
          PROVE  next'[h] = next[h] + 1 /\ next[h] + 1 \in 1 .. Len(log) /\ SettledAt(next[h] + 1)
      <3>1. Current(h) \in Events /\ next[h] + 1 \in 1 .. Len(log)
        BY <2>1, DeliverableIsEvent DEF SkipDuplicate, TypeInv
      <3>2. processed[Current(h).id] = "live"
        BY <2>1 DEF SkipDuplicate
      <3>3. SettledAt(next[h] + 1)
        BY <3>1, <3>2 DEF OutcomeInv, ProcessedIsSettled, Current
      <3>4. QED
        BY <2>1, <3>1, <3>3 DEF SkipDuplicate, Return, TypeInv, TypeOK
    <2>2. ASSUME MarkProcessed(h)
          PROVE  next'[h] = next[h] + 1 /\ next[h] + 1 \in 1 .. Len(log) /\ SettledAt(next[h] + 1)
      <3>1. Current(h) \in Events /\ next[h] + 1 \in 1 .. Len(log)
        BY <2>2, CurrentIsEvent DEF MarkProcessed, Busy, TypeInv
      <3>2. SettledAt(next[h] + 1)
        BY <2>2 DEF MarkProcessed, OutcomeInv, Current
      <3>3. QED
        BY <2>2, <3>1, <3>2 DEF MarkProcessed, Return, TypeInv, TypeOK
    <2>3. ASSUME NEW g \in Consumers, g # h, SkipDuplicate(g) \/ MarkProcessed(g)
          PROVE  next'[h] = next[h]
      BY <2>3 DEF SkipDuplicate, MarkProcessed, Return, TypeInv, TypeOK
    <2>4. ASSUME NEW g \in Consumers, Rebalance(g) \/ Restart(g)
          PROVE  next'[h] \in {next[h], committed}
      BY <2>4 DEF Rebalance, Restart, TypeInv, TypeOK
    <2>5. ASSUME NEW g \in Consumers, HandlerFails(g)
          PROVE  FALSE
      <3>1. faults["failure"] = 0 /\ "failure" \in FaultKinds
        BY FailuresStay DEF FaultKinds
      <3>2. faults'["failure"] = 1
        BY <2>5, <3>1 DEF HandlerFails, Fault, TypeInv, TypeOK
      <3>3. QED
        BY <3>2
    <2>6. \/ UNCHANGED next
          \/ \E g \in Consumers : SkipDuplicate(g) \/ MarkProcessed(g) \/ HandlerFails(g)
                                  \/ Rebalance(g) \/ Restart(g)
      BY DEF Next, vars, CreateOrder, CancelOrder, Process, Group, DrawNumber, RejectNumber,
             CommitOrder, CreateFails, Midnight, CancelRead, CancelReject, CancelUpdate,
             CancelAnnounce, CancelDies, InventoryPublishes, Accept, SkipSettled, LoadPending,
             ApplyOutcome, AnnounceOutcome, CommitOffset, Crash, Expire, workers
    <2>7. QED
      BY <2>1, <2>2, <2>3, <2>4, <2>5, <2>6
  <1>5. /\ \A h \in Consumers : next[h] \in 0 .. Len(log)
        /\ committed \in 0 .. Len(log) /\ Len(log) \in Nat
    BY DEF TypeInv, TypeOK
  <1>6. /\ \A h \in Consumers : \A n \in 1 .. next[h] : SettledAt(n)
        /\ \A n \in 1 .. committed : SettledAt(n)
    BY DEF PassedIsSettled
  <1>7. ASSUME NEW h \in Consumers, NEW n \in 1 .. next'[h]
        PROVE  n \in 1 .. Len(log) /\ SettledAt(n)
    <2>1. CASE next'[h] = next[h]
      BY <1>5, <1>6, <1>7, <2>1
    <2>2. CASE next'[h] = committed
      BY <1>5, <1>6, <1>7, <2>2
    <2>3. CASE next'[h] = next[h] + 1 /\ next[h] + 1 \in 1 .. Len(log) /\ SettledAt(next[h] + 1)
      <3>1. n \in 1 .. next[h] \/ n = next[h] + 1
        BY <1>5, <1>7, <2>3
      <3>2. CASE n \in 1 .. next[h]
        BY <1>5, <1>6, <3>2
      <3>3. CASE n = next[h] + 1
        BY <2>3, <3>3
      <3>4. QED
        BY <3>1, <3>2, <3>3
    <2>4. QED
      BY <1>4, <2>1, <2>2, <2>3
  <1>8. committed' = committed \/ \E h \in Consumers : committed' = next[h]
    BY DEF Next, vars, CreateOrder, CancelOrder, Process, Group, DrawNumber, RejectNumber,
           CommitOrder, CreateFails, Midnight, CancelRead, CancelReject, CancelUpdate,
           CancelAnnounce, CancelDies, InventoryPublishes, SkipDuplicate, Accept, SkipSettled,
           LoadPending, ApplyOutcome, AnnounceOutcome, MarkProcessed, HandlerFails,
           CommitOffset, Resolved, Rebalance, Crash, Restart, Expire, kafka
  <1>9. \A n \in 1 .. committed' : n \in 1 .. Len(log) /\ SettledAt(n)
    BY <1>5, <1>6, <1>8
  <1>10. QED
    BY <1>3, <1>7, <1>9 DEF PassedIsSettled

(* An outcome recorded as processed has settled its order, whatever        *)
(* interleaves and fails; and as long as no handler has failed, an offset  *)
(* is committed only once its outcome has settled its order: no crash,     *)
(* restart, rebalance or stalled consumer makes the group skip an outcome. *)
THEOREM NoOutcomeIsSkipped == Spec => []HandledIsSettled
  <1> DEFINE IInv == TypeInv /\ RowInv /\ OutcomeInv /\ PassedInv
  <1>1. Init => IInv
    <2>1. Init => PassedInv
      BY DEF Init, PassedInv, PassedIsSettled
    <2>2. QED
      BY <2>1, TypeInvInit, RowInvInit, OutcomeInvInit
  <1>2. IInv /\ [Next]_vars => IInv'
    BY TypeInvStep, RowInvStep, OutcomeInvStep, PassedStep, FailuresStay DEF PassedInv
  <1>3. IInv => HandledIsSettled
    BY DEF OutcomeInv, PassedInv, PassedIsSettled, CommittedIsSettled, HandledIsSettled
  <1>4. QED
    BY <1>1, <1>2, <1>3, PTL DEF Spec

-----------------------------------------------------------------------------
(* Order numbers *)

Today == {o \in Orders : Exists(o) /\ createdOn[o] >= day}

(* The local day is the date of UTC or its neighbour. *)
ZoneInv ==
    CASE zone = "UTC"  -> day = date
      [] zone = "east" -> day = date \/ day = date + 1
      [] zone = "west" -> day = date \/ date = day + 1

(* No number is of a date to come; of this date's numbers, as long as the  *)
(* count goes back to its start, those in use are no larger than the       *)
(* count, and those drawn and not yet used are at most one larger.         *)
NumberInv ==
    /\ ZoneInv
    /\ \A o \in Orders : number[o][1] <= date
    /\ DayCoversDate =>
        \A o \in Orders :
            /\ number[o][1] = date /\ Exists(o) => number[o][2] <= CountToday
            /\ number[o][1] = date /\ createPc[o] = "numbered" => number[o][2] <= CountToday + 1

LEMMA TodayIsCounted ==
    IsFiniteSet(Today) /\ CountToday = Cardinality(Today) /\ CountToday \in Nat
  <1>1. Today \subseteq Orders
    BY DEF Today
  <1>2. IsFiniteSet(Today)
    BY <1>1, ConstantsAssumption, FS_Subset
  <1>3. CountToday = Cardinality(Today)
    BY DEF CountToday, Today
  <1>4. QED
    BY <1>2, <1>3, FS_CardinalityType

(* A midnight begins a date without numbers, or a day later than the date.  *)
LEMMA MidnightStep ==
    ASSUME TypeInv, NumberInv, Midnight
    PROVE  ZoneInv' /\ (date' = date + 1 \/ (date' = date /\ ~DayCoversDate'))
  <1>1. day \in Nat /\ date \in Nat /\ zone \in {"UTC", "east", "west"} /\ zone' = zone /\ ZoneInv
    BY ConstantsAssumption DEF TypeInv, TypeOK, NumberInv, Midnight
  <1>2. CASE zone = "UTC"
    BY <1>1, <1>2 DEF Midnight, LocalMidnight, UtcMidnight, ZoneInv, DayCoversDate
  <1>3. CASE zone = "east"
    BY <1>1, <1>3 DEF Midnight, LocalMidnight, UtcMidnight, ZoneInv, DayCoversDate
  <1>4. CASE zone = "west"
    BY <1>1, <1>4 DEF Midnight, LocalMidnight, UtcMidnight, ZoneInv, DayCoversDate
  <1>5. QED
    BY <1>1, <1>2, <1>3, <1>4

LEMMA NumberInvStep == TypeInv /\ RowInv /\ NumberInv /\ [Next]_vars => NumberInv'
  <1> SUFFICES ASSUME TypeInv, RowInv, NumberInv, [Next]_vars PROVE NumberInv'
    OBVIOUS
  <1>0. UNCHANGED clock => ZoneInv' /\ DayCoversDate' = DayCoversDate
    BY DEF NumberInv, ZoneInv, DayCoversDate, clock
  <1>1. /\ CountToday = Cardinality(Today) /\ CountToday \in Nat /\ IsFiniteSet(Today)
        /\ CountToday' = Cardinality(Today') /\ CountToday' \in Nat
    <2>1. Today' \subseteq Orders /\ CountToday' = Cardinality(Today')
      BY DEF Today, CountToday, Exists
    <2>2. QED
      BY <2>1, TodayIsCounted, ConstantsAssumption, FS_Subset, FS_CardinalityType
  <1>2. ASSUME NEW o \in Orders, DrawNumber(o) PROVE NumberInv'
    <2>1. Today' = Today
      BY <1>2 DEF DrawNumber, Today, Exists, clock
    <2>2. CountToday' = CountToday
      BY <1>1, <2>1
    <2>3. /\ ~Exists(o) /\ ~Exists(o)' /\ UNCHANGED clock /\ day' = day /\ date' = date
          /\ number'[o] = <<date, CountToday + 1>>
          /\ \A p \in Orders : p # o => number'[p] = number[p] /\ createPc'[p] = createPc[p]
          /\ \A p \in Orders : Exists(p)' = Exists(p)
      BY <1>2 DEF DrawNumber, NextNumber, RowInv, Exists, TypeInv, TypeOK, clock
    <2>4. date \in Nat
      BY DEF TypeInv, TypeOK
    <2>5. QED
      BY <1>0, <1>1, <2>2, <2>3, <2>4 DEF NumberInv
  <1>3. ASSUME NEW o \in Orders, CommitOrder(o) PROVE NumberInv'
    <2>1. /\ ~Exists(o) /\ Exists(o)' /\ UNCHANGED clock /\ day' = day /\ date' = date /\ number' = number
          /\ createdOn'[o] = day /\ createPc[o] = "numbered" /\ createPc'[o] = "committed"
          /\ \A p \in Orders : p # o => /\ createdOn'[p] = createdOn[p]
                                         /\ Exists(p)' = Exists(p)
                                         /\ createPc'[p] = createPc[p]
      BY <1>3 DEF CommitOrder, RowInv, Exists, NoRow, TypeInv, TypeOK, clock
    <2>2. day \in Nat
      BY DEF TypeInv, TypeOK
    <2>3. Today' = Today \cup {o} /\ o \notin Today
      BY <2>1, <2>2 DEF Today
    <2>4. CountToday' = CountToday + 1
      BY <1>1, <2>3, FS_AddElement
    <2>5. \A p \in Orders : number[p][1] \in Nat /\ number[p][2] \in Nat
      BY DEF TypeInv, TypeOK
    <2>6. QED
      BY <1>0, <1>1, <2>1, <2>4, <2>5 DEF NumberInv
  <1>4. ASSUME Midnight PROVE NumberInv'
    <2>1. number' = number /\ date \in Nat
      BY <1>4 DEF Midnight, tables, TypeInv, TypeOK
    <2>2. \A o \in Orders : number[o][1] \in Nat
      BY DEF TypeInv, TypeOK
    <2>3. ZoneInv' /\ (date' = date + 1 \/ (date' = date /\ ~DayCoversDate'))
      BY <1>4, MidnightStep
    <2>4. QED
      BY <2>1, <2>2, <2>3 DEF NumberInv
  <1>5. ASSUME ~\E o \in Orders : DrawNumber(o) \/ CommitOrder(o), ~Midnight
        PROVE  NumberInv'
    <2>1. \A o \in Orders : Exists(o)' = Exists(o)
      BY <1>5, RowsStay
    <2>2. UNCHANGED <<number, createdOn, clock, day, date>>
      BY <1>5 DEF Next, vars, CreateOrder, CancelOrder, Process, Group, RejectNumber,
             CreateFails, CancelRead, CancelReject, CancelUpdate, CancelAnnounce,
             CancelDies, InventoryPublishes, SkipDuplicate, Accept, SkipSettled, LoadPending,
             ApplyOutcome, AnnounceOutcome, MarkProcessed, HandlerFails, CommitOffset,
             Rebalance, Crash, Restart, Expire, tables, clock
    <2>3. createPc' = createPc \/ \E o \in Orders : createPc' = [createPc EXCEPT ![o] = "failed"]
      BY <1>5 DEF Next, vars, CreateOrder, CancelOrder, Process, Group, RejectNumber,
             CreateFails, CancelRead, CancelReject, CancelUpdate, CancelAnnounce,
             CancelDies, InventoryPublishes, SkipDuplicate, Accept, SkipSettled, LoadPending,
             ApplyOutcome, AnnounceOutcome, MarkProcessed, HandlerFails, CommitOffset,
             Rebalance, Crash, Restart, Expire
    <2>4. \A o \in Orders : createPc'[o] = "numbered" => createPc[o] = "numbered"
      BY <2>3 DEF TypeInv, TypeOK
    <2>5. Today' = Today
      BY <2>1, <2>2 DEF Today
    <2>6. CountToday' = CountToday
      BY <1>1, <2>5
    <2>7. QED
      BY <1>0, <2>1, <2>2, <2>4, <2>6 DEF NumberInv
  <1>6. QED
    BY <1>2, <1>3, <1>4, <1>5

(* Whatever creations overlap, fail and fall around a midnight, the number *)
(* that would be drawn now is free, in UTC at any time and elsewhere while *)
(* the local day covers the date: a request that was refused for a         *)
(* duplicate number can succeed when it is sent again.                     *)
THEOREM NextNumberStaysFree == Spec => []NextNumberIsFree
  <1> DEFINE IInv == TypeInv /\ RowInv /\ NumberInv
  <1>1. Init => IInv
    <2>1. Init => NumberInv
      <3>1. Init => ZoneInv
        BY ConstantsAssumption DEF Init, ZoneInv
      <3>2. QED
        BY <3>1 DEF Init, NumberInv, Exists
    <2>2. QED
      BY <2>1, TypeInvInit, RowInvInit
  <1>2. IInv /\ [Next]_vars => IInv'
    BY TypeInvStep, RowInvStep, NumberInvStep
  <1>3. IInv => NextNumberIsFree
    <2>1. ASSUME IInv, DayCoversDate, NEW o \in Orders, Exists(o), number[o] = NextNumber PROVE FALSE
      <3>1. number[o][1] = date /\ number[o][2] = CountToday + 1
        BY <2>1 DEF NextNumber
      <3>2. CountToday \in Nat
        BY <2>1, TodayIsCounted
      <3>3. QED
        BY <2>1, <3>1, <3>2 DEF NumberInv
    <2>2. QED
      BY <2>1 DEF NextNumberIsFree
  <1>4. QED
    BY <1>1, <1>2, <1>3, PTL DEF Spec

-----------------------------------------------------------------------------
(* An order is announced as confirmed once *)

ConfirmedInOutbox(o) ==
    \E i \in DOMAIN outbox : outbox[i].order = o /\ outbox[i].type = "OrderConfirmed"

(* Without a stall only the owner of the partition handles a message; an   *)
(* order it is about to confirm has not been announced as confirmed.       *)
ConfirmInv ==
    /\ \A h \in Consumers : Busy(h) => h = owner
    /\ \A o \in Orders : ConfirmedInOutbox(o) => Settled(o)
    /\ \A h \in Consumers : workerPc[h] \in {"loaded", "announcing"} => ~ConfirmedInOutbox(Current(h).order)
                                \/ Current(h).type # "InventoryReserved"
    /\ \A i, j \in DOMAIN outbox :
        outbox[i].order = outbox[j].order
        /\ outbox[i].type = "OrderConfirmed" /\ outbox[j].type = "OrderConfirmed" => i = j

(* A stall once counted stays counted. *)
LEMMA StallsStay ==
    ASSUME TypeInv, [Next]_vars, faults'["stall"] = 0
    PROVE  faults["stall"] = 0 /\ ~Fault("stall")
  <1>1. (\E kind \in FaultKinds : Fault(kind)) \/ UNCHANGED faults
    <2>1. \A f \in {"crash", "failure", "rebalance", "stall"} : f \in FaultKinds
      BY DEF FaultKinds
    <2>2. QED
      BY <2>1 DEF Next, vars, CreateOrder, CancelOrder, Process, Group, DrawNumber, RejectNumber,
             CommitOrder, CreateFails, Midnight, CancelRead, CancelReject, CancelUpdate,
             CancelAnnounce, CancelDies, InventoryPublishes, SkipDuplicate, Accept,
             SkipSettled, LoadPending, ApplyOutcome, AnnounceOutcome, MarkProcessed,
             HandlerFails, CommitOffset, Rebalance, Crash, Restart, Expire, kafka
  <1>2. "stall" \in FaultKinds
    BY DEF FaultKinds
  <1>3. ASSUME NEW kind \in FaultKinds, Fault(kind) PROVE faults["stall"] = 0 /\ kind # "stall"
    BY <1>2, <1>3 DEF Fault, TypeInv, TypeOK
  <1>4. QED
    BY <1>1, <1>2, <1>3

(* What a step may add to the outbox, row by row. *)
LEMMA OutboxGrows ==
    ASSUME TypeInv, NEW o, NEW t, outbox' = Append(outbox, Row(o, t))
    PROVE  /\ DOMAIN outbox = 1 .. Len(outbox) /\ Len(outbox) \in Nat
           /\ DOMAIN outbox' = 1 .. Len(outbox) + 1
           /\ outbox'[Len(outbox) + 1].order = o /\ outbox'[Len(outbox) + 1].type = t
           /\ \A i \in DOMAIN outbox : outbox'[i] = outbox[i]
  <1>1. outbox \in Seq(OutboxRow)
    BY DEF TypeInv, TypeOK
  <1>2. QED
    BY <1>1 DEF Row

LEMMA ConfirmStep ==
    ASSUME TypeInv, RowInv, OutcomeInv, CreatedFirst, ConfirmInv, [Next]_vars, faults'["stall"] = 0
    PROVE  ConfirmInv'
  <1>0. TypeInv'
    BY TypeInvStep
  <1>1. ASSUME NEW h \in Consumers, Busy(h)' PROVE h = owner'
    <2>1. CASE Accept(h)
      BY <2>1 DEF Accept, Deliverable, kafka
    <2>2. Busy(h) \/ Accept(h)
      BY <1>1, BusyStep DEF Busy, SkipSettled, LoadPending, ApplyOutcome, AnnounceOutcome
    <2>3. CASE Busy(h) /\ UNCHANGED owner
      BY <2>3 DEF ConfirmInv
    <2>4. CASE \E g \in Consumers : Rebalance(g)
      <3>1. ~Busy(owner) /\ workerPc' = workerPc
        BY <2>4, StallsStay DEF Rebalance, Busy
      <3>2. QED
        BY <1>1, <3>1 DEF ConfirmInv, Busy
    <2>5. UNCHANGED owner \/ \E g \in Consumers : Rebalance(g)
      BY DEF Next, vars, CreateOrder, CancelOrder, Process, Group, DrawNumber, RejectNumber,
             CommitOrder, CreateFails, Midnight, CancelRead, CancelReject, CancelUpdate,
             CancelAnnounce, CancelDies, InventoryPublishes, SkipDuplicate, Accept,
             SkipSettled, LoadPending, ApplyOutcome, AnnounceOutcome, MarkProcessed,
             HandlerFails, CommitOffset, Crash, Restart, Expire, kafka
    <2>6. QED
      BY <2>1, <2>2, <2>3, <2>4, <2>5
  <1>2. ASSUME NEW o \in Orders, ConfirmedInOutbox(o) PROVE Settled(o)'
    <2>1. Exists(o)
      BY <1>2 DEF ConfirmedInOutbox, CreatedFirst
    <2>2. QED
      BY <1>2, <2>1, SettledStays DEF ConfirmInv
  (* The steps that write no OrderConfirmed. *)
  <1>3. ASSUME \/ UNCHANGED outbox
               \/ \E o \in Orders, t \in EventType \ {"OrderConfirmed"} : outbox' = Append(outbox, Row(o, t))
        PROVE  /\ \A o \in Orders : ConfirmedInOutbox(o)' => ConfirmedInOutbox(o)
               /\ \A i, j \in DOMAIN outbox' :
                    outbox'[i].order = outbox'[j].order
                    /\ outbox'[i].type = "OrderConfirmed" /\ outbox'[j].type = "OrderConfirmed" => i = j
    <2>1. CASE UNCHANGED outbox
      BY <2>1 DEF ConfirmedInOutbox, ConfirmInv
    <2>2. ASSUME NEW o \in Orders, NEW t \in EventType \ {"OrderConfirmed"},
                 outbox' = Append(outbox, Row(o, t)), NEW i \in DOMAIN outbox',
                 outbox'[i].type = "OrderConfirmed"
          PROVE  i \in DOMAIN outbox /\ outbox'[i] = outbox[i]
      <3>1. i # Len(outbox) + 1
        BY <2>2, OutboxGrows
      <3>2. QED
        BY <2>2, <3>1, OutboxGrows
    <2>3. QED
      BY <1>3, <2>1, <2>2 DEF ConfirmedInOutbox, ConfirmInv
  <1>4. ASSUME NEW g \in Consumers, AnnounceOutcome(g) PROVE ConfirmInv'
    <2>1. /\ workerPc[g] = "announcing" /\ workerPc'[g] = "marking" /\ UNCHANGED status
          /\ \A h \in Consumers : h # g => workerPc'[h] = workerPc[h]
          /\ outbox' = Append(outbox, Row(Current(g).order, OutcomeEvent(Current(g))))
      BY <1>4 DEF AnnounceOutcome, Goto, tables, TypeInv, TypeOK
    <2>2. Busy(g) /\ Current(g) \in Events /\ Current(g).order \in Orders
      BY <2>1, CurrentIsEvent, EventFields DEF Busy, TypeInv
    <2>3. \A h \in Consumers : workerPc'[h] \notin {"loaded", "announcing"}
      BY <2>1, <2>2 DEF ConfirmInv, Busy
    <2>4. CASE Current(g).type # "InventoryReserved"
      <3>1. OutcomeEvent(Current(g)) \in EventType \ {"OrderConfirmed"}
        BY <2>4 DEF OutcomeEvent, EventType
      <3>2. QED
        BY <1>1, <1>2, <1>3, <2>1, <2>2, <2>3, <3>1 DEF ConfirmInv
    <2>5. CASE Current(g).type = "InventoryReserved"
      <3>1. OutcomeEvent(Current(g)) = "OrderConfirmed"
        BY <2>5 DEF OutcomeEvent
      <3>2. /\ DOMAIN outbox = 1 .. Len(outbox) /\ DOMAIN outbox' = 1 .. Len(outbox) + 1
            /\ Len(outbox) \in Nat
            /\ outbox'[Len(outbox) + 1].order = Current(g).order
            /\ \A i \in DOMAIN outbox : outbox'[i] = outbox[i]
        BY <2>1, OutboxGrows
      <3>3. ~ConfirmedInOutbox(Current(g).order)
        BY <2>1, <2>5 DEF ConfirmInv
      <3>4. ASSUME NEW i \in DOMAIN outbox', NEW j \in DOMAIN outbox',
                   outbox'[i].order = outbox'[j].order,
                   outbox'[i].type = "OrderConfirmed", outbox'[j].type = "OrderConfirmed"
            PROVE  i = j
        <4>1. CASE i \in DOMAIN outbox /\ j \in DOMAIN outbox
          BY <3>2, <3>4, <4>1 DEF ConfirmInv
        <4>2. CASE i = Len(outbox) + 1 /\ j \in DOMAIN outbox
          BY <3>2, <3>3, <3>4, <4>2 DEF ConfirmedInOutbox
        <4>3. CASE i \in DOMAIN outbox /\ j = Len(outbox) + 1
          BY <3>2, <3>3, <3>4, <4>3 DEF ConfirmedInOutbox
        <4>4. QED
          BY <3>2, <3>4, <4>1, <4>2, <4>3
      <3>5. ASSUME NEW o \in Orders, ConfirmedInOutbox(o)' PROVE Settled(o)'
        <4>1. ConfirmedInOutbox(o) \/ o = Current(g).order
          BY <3>2, <3>5 DEF ConfirmedInOutbox
        <4>2. Settled(Current(g).order)
          BY <2>1 DEF OutcomeInv
        <4>3. QED
          BY <1>2, <2>1, <4>1, <4>2 DEF Settled
      <3>6. QED
        BY <1>1, <2>3, <3>4, <3>5 DEF ConfirmInv
    <2>6. QED
      BY <2>4, <2>5
  <1>5. ASSUME ~\E g \in Consumers : AnnounceOutcome(g) PROVE ConfirmInv'
    <2>1. \/ UNCHANGED outbox
          \/ \E o \in Orders, t \in EventType \ {"OrderConfirmed"} : outbox' = Append(outbox, Row(o, t))
      <3>1. \/ UNCHANGED outbox
            \/ \E o \in Orders : CommitOrder(o)
            \/ \E k \in Cancels : CancelAnnounce(k)
        BY <1>5 DEF Next, vars, CreateOrder, CancelOrder, Process, Group, DrawNumber, RejectNumber,
               CreateFails, Midnight, CancelRead, CancelReject, CancelUpdate, CancelDies,
               InventoryPublishes, SkipDuplicate, Accept, SkipSettled, LoadPending, ApplyOutcome,
               MarkProcessed, HandlerFails, CommitOffset, Rebalance, Crash, Restart, Expire
      <3>2. QED
        BY <3>1, CancelFields DEF CommitOrder, CreatedRows, CancelAnnounce, EventType
    <2>2. ASSUME NEW h \in Consumers, workerPc'[h] \in {"loaded", "announcing"},
                 (Current(h).type = "InventoryReserved")'
          PROVE  ~ConfirmedInOutbox(Current(h).order)'
      <3>1. Busy(h)'
        BY <2>2 DEF Busy
      <3>2. CASE workerPc'[h] = workerPc[h] /\ next'[h] = next[h]
        <4>1. Busy(h) /\ Current(h)' = Current(h)
          BY <2>2, <3>2, CurrentStays DEF Busy
        <4>2. Current(h) \in Events /\ Current(h).order \in Orders
          BY <4>1, CurrentIsEvent, EventFields DEF TypeInv
        <4>3. QED
          BY <1>3, <2>1, <2>2, <3>2, <4>1, <4>2 DEF ConfirmInv, ConfirmedInOutbox
      <3>3. CASE LoadPending(h) \/ ApplyOutcome(h)
        <4>1. /\ Busy(h) /\ Current(h)' = Current(h)
          BY <3>3 DEF LoadPending, ApplyOutcome, Busy, Current, kafka
        <4>2. Current(h) \in Events /\ Current(h).order \in Orders
          BY <4>1, CurrentIsEvent, EventFields DEF TypeInv
        <4>3. ~ConfirmedInOutbox(Current(h).order)
          BY <2>2, <3>3, <4>1, <4>2 DEF ConfirmInv, LoadPending, ApplyOutcome
        <4>4. QED
          BY <1>3, <2>1, <4>1, <4>2, <4>3 DEF ConfirmedInOutbox
      <3>4. CASE Accept(h) \/ SkipSettled(h)
        BY <2>2, <3>4 DEF Accept, SkipSettled, Goto, TypeInv, TypeOK
      <3>5. QED
        BY <1>5, <3>1, <3>2, <3>3, <3>4, BusyStep
    <2>3. QED
      BY <1>1, <1>2, <1>3, <2>1, <2>2 DEF ConfirmInv
  <1>6. QED
    BY <1>4, <1>5

(* Redelivered, duplicated and overlapping messages, crashes and cancelled *)
(* orders included, an order's OrderConfirmed is written once as long as   *)
(* no consumer is overtaken in the middle of its handler.                  *)
THEOREM ConfirmationIsAnnouncedOnce == Spec => []ConfirmedOnce
  <1> DEFINE IInv == TypeInv /\ RowInv /\ OutcomeInv /\ CreatedFirst /\ (faults["stall"] = 0 => ConfirmInv)
  <1>1. Init => IInv
    <2>1. Init => ConfirmInv /\ CreatedFirst
      BY DEF Init, ConfirmInv, ConfirmedInOutbox, CreatedFirst, Busy, Exists
    <2>2. QED
      BY <2>1, TypeInvInit, RowInvInit, OutcomeInvInit
  <1>2. IInv /\ [Next]_vars => IInv'
    BY TypeInvStep, RowInvStep, OutcomeInvStep, CreatedFirstStep, ConfirmStep, StallsStay
  <1>3. IInv => ConfirmedOnce
    BY DEF ConfirmInv, ConfirmedOnce
  <1>4. QED
    BY <1>1, <1>2, <1>3, PTL DEF Spec
-----------------------------------------------------------------------------
(* Announcements and changes match *)

Announced(o) == {i \in DOMAIN outbox : outbox[i].order = o /\ outbox[i].type # "OrderCreated"}
Updated(o) == {k \in Cancels : k.order = o /\ cancelPc[k] = "updated"}
Announcing(o) == {h \in Consumers : workerPc[h] = "announcing" /\ Current(h).order = o}
Counted(o) == Cardinality(Announced(o)) + Cardinality(Updated(o)) + Cardinality(Announcing(o))
Calm == faults["failure"] + faults["crash"] = 0

(* Every change of an order has its row, or a call that still owes it; a   *)
(* call that dies takes the row it owed with it.                           *)
ChangesInv ==
    \A o \in Orders : Counted(o) <= version[o] /\ (Calm => Counted(o) = version[o])

LEMMA CountedTypes ==
    ASSUME TypeInv, NEW o
    PROVE  /\ IsFiniteSet(Announced(o)) /\ Cardinality(Announced(o)) \in Nat
           /\ IsFiniteSet(Updated(o)) /\ Cardinality(Updated(o)) \in Nat
           /\ IsFiniteSet(Announcing(o)) /\ Cardinality(Announcing(o)) \in Nat
  <1>1. Len(outbox) \in Nat /\ DOMAIN outbox = 1 .. Len(outbox)
    BY DEF TypeInv, TypeOK
  <1>2. IsFiniteSet(DOMAIN outbox)
    BY <1>1, FS_Interval
  <1>3. /\ Announced(o) \in SUBSET DOMAIN outbox
        /\ Updated(o) \in SUBSET Cancels /\ Announcing(o) \in SUBSET Consumers
    BY DEF Announced, Updated, Announcing
  <1>4. IsFiniteSet(Announced(o)) /\ IsFiniteSet(Updated(o)) /\ IsFiniteSet(Announcing(o))
    BY <1>2, <1>3, FS_Subset, ConstantsAssumption
  <1>5. QED
    BY <1>4, FS_CardinalityType

LEMMA CountedIsNat == TypeInv => \A o \in Orders : Counted(o) \in Nat /\ version[o] \in Nat
  <1> SUFFICES ASSUME TypeInv, NEW o \in Orders PROVE Counted(o) \in Nat /\ version[o] \in Nat
    OBVIOUS
  <1>1. Counted(o) \in Nat
    BY CountedTypes DEF Counted
  <1>2. QED
    BY <1>1 DEF TypeInv, TypeOK

(* The workers that keep their place keep their part in Announcing. *)
LEMMA AnnouncingFrame ==
    ASSUME TypeInv, [Next]_vars, NEW o, NEW S \in SUBSET Consumers,
           \A h \in S : /\ workerPc'[h] = "announcing" <=> workerPc[h] = "announcing"
                        /\ workerPc[h] = "announcing" => next'[h] = next[h]
    PROVE  Announcing(o)' \cap S = Announcing(o) \cap S
  <1>1. ASSUME NEW h \in S, workerPc[h] = "announcing"
        PROVE  Current(h)' = Current(h)
    BY <1>1, CurrentStays DEF Busy
  <1>2. QED
    BY <1>1 DEF Announcing

(* What a step of one worker does to Announcing. *)
LEMMA AnnouncingStep ==
    ASSUME TypeInv, [Next]_vars, NEW o, NEW g \in Consumers,
           ApplyOutcome(g) \/ AnnounceOutcome(g) \/ HandlerFails(g) \/ Crash(g)
    PROVE  Announcing(o)' \ {g} = Announcing(o) \ {g}
  <1>1. \A h \in Consumers \ {g} : workerPc'[h] = workerPc[h] /\ next'[h] = next[h]
    BY DEF ApplyOutcome, AnnounceOutcome, HandlerFails, Crash, Return, Goto, TypeInv, TypeOK
  <1>2. Announcing(o)' \cap (Consumers \ {g}) = Announcing(o) \cap (Consumers \ {g})
    BY <1>1, AnnouncingFrame
  <1>3. QED
    BY <1>2 DEF Announcing

(* The rows added to the outbox, seen by the count. *)
LEMMA AnnouncedGrows ==
    ASSUME TypeInv, NEW o, NEW p, NEW t, outbox' = Append(outbox, Row(p, t))
    PROVE  Cardinality(Announced(o)') = IF p = o /\ t # "OrderCreated"
                                        THEN Cardinality(Announced(o)) + 1
                                        ELSE Cardinality(Announced(o))
  <1> DEFINE last == Len(outbox) + 1
  <1>1. /\ last \notin DOMAIN outbox /\ DOMAIN outbox' = DOMAIN outbox \cup {last}
        /\ outbox'[last].order = p /\ outbox'[last].type = t
        /\ \A i \in DOMAIN outbox : outbox'[i] = outbox[i]
    BY OutboxGrows
  <1>2. CASE p = o /\ t # "OrderCreated"
    <2>1. Announced(o)' = Announced(o) \cup {last} /\ last \notin Announced(o)
      BY <1>1, <1>2 DEF Announced
    <2>2. QED
      BY <1>2, <2>1, CountedTypes, FS_AddElement
  <1>3. CASE ~(p = o /\ t # "OrderCreated")
    <2>1. Announced(o)' = Announced(o)
      BY <1>1, <1>3 DEF Announced
    <2>2. QED
      BY <1>3, <2>1
  <1>4. QED
    BY <1>2, <1>3

Balanced(o) ==
    \/ Counted(o)' = Counted(o) /\ version'[o] = version[o]
    \/ Counted(o)' = Counted(o) + 1 /\ version'[o] = version[o] + 1
    \/ ~Calm' /\ Counted(o)' <= Counted(o) /\ version'[o] = version[o]

LEMMA FaultIsNotCalm ==
    ASSUME TypeInv, NEW kind \in {"failure", "crash"}, Fault(kind)
    PROVE  ~Calm'
  <1>1. faults \in [FaultKinds -> Nat] /\ "failure" \in FaultKinds /\ "crash" \in FaultKinds
    BY DEF TypeInv, TypeOK, FaultKinds
  <1>2. faults["failure"] \in Nat /\ faults["crash"] \in Nat
    BY <1>1
  <1>3. faults' = [faults EXCEPT ![kind] = @ + 1]
    BY DEF Fault
  <1>4. faults'["failure"] + faults'["crash"] = faults["failure"] + faults["crash"] + 1
    BY <1>1, <1>2, <1>3
  <1>5. QED
    BY <1>2, <1>4 DEF Calm

(* A change adds one to the version and one to the rows that are owed; an  *)
(* announcement turns an owed row into a written one.                      *)
LEMMA CancelBalance ==
    ASSUME TypeInv, [Next]_vars, NEW o \in Orders, NEW k \in Cancels,
           CancelUpdate(k) \/ CancelAnnounce(k) \/ CancelDies(k)
    PROVE  Balanced(o)
  <1>0. k.order \in Orders
    BY CancelFields
  <1>1. Announcing(o)' = Announcing(o)
    <2>1. \A h \in Consumers : workerPc'[h] = workerPc[h] /\ next'[h] = next[h]
      BY DEF CancelUpdate, CancelAnnounce, CancelDies, workers
    <2>2. Announcing(o)' \cap Consumers = Announcing(o) \cap Consumers
      BY <2>1, AnnouncingFrame
    <2>3. QED
      BY <2>2 DEF Announcing
  <1>2. CASE k.order # o
    <2>1. Updated(o)' = Updated(o)
      BY <1>2 DEF Updated, CancelUpdate, CancelAnnounce, CancelDies, TypeInv, TypeOK
    <2>2. version'[o] = version[o]
      BY <1>0, <1>2 DEF CancelUpdate, UpdateStatus, CancelAnnounce, CancelDies, tables, TypeInv, TypeOK
    <2>3. Cardinality(Announced(o)') = Cardinality(Announced(o))
      <3>1. CASE CancelAnnounce(k)
        BY <1>2, <3>1, AnnouncedGrows DEF CancelAnnounce
      <3>2. CASE UNCHANGED outbox
        BY <3>2 DEF Announced
      <3>3. QED
        BY <3>1, <3>2 DEF CancelUpdate, CancelDies
    <2>4. QED
      BY <1>1, <2>1, <2>2, <2>3 DEF Balanced, Counted
  <1>3. CASE k.order = o /\ CancelUpdate(k)
    <2>1. Updated(o)' = Updated(o) \cup {k} /\ k \notin Updated(o)
      BY <1>3 DEF Updated, CancelUpdate, TypeInv, TypeOK
    <2>2. Announced(o)' = Announced(o) /\ version'[o] = version[o] + 1
      BY <1>3 DEF CancelUpdate, UpdateStatus, Announced, TypeInv, TypeOK
    <2>3. Cardinality(Updated(o)') = Cardinality(Updated(o)) + 1
      BY <2>1, CountedTypes, FS_AddElement
    <2>4. QED
      BY <1>1, <2>2, <2>3, CountedTypes DEF Balanced, Counted
  <1>4. CASE k.order = o /\ (CancelAnnounce(k) \/ CancelDies(k))
    <2>1. version'[o] = version[o]
      BY <1>4 DEF CancelAnnounce, CancelDies, tables
    <2>2. CASE CancelAnnounce(k)
      <3>1. Updated(o)' = Updated(o) \ {k} /\ k \in Updated(o)
        BY <1>4, <2>2 DEF Updated, CancelAnnounce, TypeInv, TypeOK
      <3>2. Cardinality(Announced(o)') = Cardinality(Announced(o)) + 1
        BY <1>4, <2>2, AnnouncedGrows DEF CancelAnnounce
      <3>3. Cardinality(Updated(o)') = Cardinality(Updated(o)) - 1
        BY <3>1, CountedTypes, FS_RemoveElement
      <3>4. QED
        BY <1>1, <2>1, <3>2, <3>3, CountedTypes DEF Balanced, Counted
    <2>3. CASE CancelDies(k)
      <3>1. Updated(o)' = Updated(o) \ {k} /\ Announced(o)' = Announced(o)
        BY <2>3 DEF Updated, Announced, CancelDies, TypeInv, TypeOK
      <3>2. Cardinality(Updated(o)') <= Cardinality(Updated(o)) /\ Cardinality(Updated(o)') \in Nat
        <4>1. Updated(o)' \in SUBSET Updated(o)
          BY <3>1
        <4>2. IsFiniteSet(Updated(o)') /\ Cardinality(Updated(o)') <= Cardinality(Updated(o))
          BY <4>1, CountedTypes, FS_Subset
        <4>3. QED
          BY <4>2, FS_CardinalityType
      <3>3. ~Calm'
        BY <2>3, FaultIsNotCalm DEF CancelDies
      <3>4. QED
        BY <1>1, <2>1, <3>1, <3>2, <3>3, CountedTypes DEF Balanced, Counted
    <2>4. QED
      BY <1>4, <2>2, <2>3
  <1>5. QED
    BY <1>2, <1>3, <1>4

LEMMA WorkerBalance ==
    ASSUME TypeInv, [Next]_vars, NEW o \in Orders, NEW g \in Consumers,
           ApplyOutcome(g) \/ AnnounceOutcome(g) \/ HandlerFails(g) \/ Crash(g)
    PROVE  Balanced(o)
  <1>1. Announcing(o)' \ {g} = Announcing(o) \ {g}
    BY AnnouncingStep
  <1>2. Updated(o)' = Updated(o)
    BY DEF Updated, ApplyOutcome, AnnounceOutcome, HandlerFails, Crash
  <1>3. CASE ApplyOutcome(g)
    <2>1. /\ Busy(g) /\ workerPc'[g] = "announcing" /\ next'[g] = next[g]
          /\ g \notin Announcing(o) /\ UNCHANGED outbox
      BY <1>3 DEF ApplyOutcome, Goto, Busy, Announcing, TypeInv, TypeOK
    <2>2. Current(g)' = Current(g) /\ Current(g).order \in Orders
      BY <2>1, CurrentStays, CurrentIsEvent, EventFields DEF TypeInv
    <2>3. Announced(o)' = Announced(o)
      BY <2>1 DEF Announced
    <2>4. CASE Current(g).order = o
      <3>1. Announcing(o)' = Announcing(o) \cup {g}
        BY <1>1, <2>1, <2>2, <2>4 DEF Announcing
      <3>2. version'[o] = version[o] + 1
        BY <1>3, <2>4 DEF ApplyOutcome, UpdateStatus, TypeInv, TypeOK
      <3>3. Cardinality(Announcing(o)') = Cardinality(Announcing(o)) + 1
        BY <2>1, <3>1, CountedTypes, FS_AddElement
      <3>4. QED
        BY <1>2, <2>3, <3>2, <3>3, CountedTypes DEF Balanced, Counted
    <2>5. CASE Current(g).order # o
      <3>1. Announcing(o)' = Announcing(o)
        BY <1>1, <2>1, <2>2, <2>5 DEF Announcing
      <3>2. version'[o] = version[o]
        BY <1>3, <2>2, <2>5 DEF ApplyOutcome, UpdateStatus, TypeInv, TypeOK
      <3>3. QED
        BY <1>2, <2>3, <3>1, <3>2 DEF Balanced, Counted
    <2>6. QED
      BY <2>4, <2>5
  <1>4. CASE AnnounceOutcome(g)
    <2>1. /\ workerPc[g] = "announcing" /\ g \notin Announcing(o)' /\ UNCHANGED version
          /\ outbox' = Append(outbox, Row(Current(g).order, OutcomeEvent(Current(g))))
      BY <1>4 DEF AnnounceOutcome, Goto, tables, Announcing, TypeInv, TypeOK
    <2>2. OutcomeEvent(Current(g)) # "OrderCreated"
      BY DEF OutcomeEvent
    <2>3. CASE Current(g).order = o
      <3>1. Announcing(o)' = Announcing(o) \ {g} /\ g \in Announcing(o)
        BY <1>1, <2>1, <2>3 DEF Announcing
      <3>2. Cardinality(Announced(o)') = Cardinality(Announced(o)) + 1
        BY <2>1, <2>2, <2>3, AnnouncedGrows
      <3>3. Cardinality(Announcing(o)') = Cardinality(Announcing(o)) - 1
        BY <3>1, CountedTypes, FS_RemoveElement
      <3>4. QED
        BY <1>2, <2>1, <3>2, <3>3, CountedTypes DEF Balanced, Counted
    <2>4. CASE Current(g).order # o
      <3>1. Announcing(o)' = Announcing(o)
        BY <1>1, <2>1, <2>4 DEF Announcing
      <3>2. Cardinality(Announced(o)') = Cardinality(Announced(o))
        BY <2>1, <2>4, AnnouncedGrows
      <3>3. QED
        BY <1>2, <2>1, <3>1, <3>2 DEF Balanced, Counted
    <2>5. QED
      BY <2>3, <2>4
  <1>5. CASE HandlerFails(g) \/ Crash(g)
    <2>1. Announced(o)' = Announced(o) /\ UNCHANGED version
      BY <1>5 DEF HandlerFails, Crash, Announced, tables
    <2>2. Announcing(o)' = Announcing(o) \ {g}
      <3>1. g \notin Announcing(o)'
        BY <1>5 DEF HandlerFails, Crash, Return, Goto, Announcing, TypeInv, TypeOK
      <3>2. QED
        BY <1>1, <3>1
    <2>3. Cardinality(Announcing(o)') <= Cardinality(Announcing(o)) /\ Cardinality(Announcing(o)') \in Nat
      <3>1. Announcing(o)' \in SUBSET Announcing(o)
        BY <2>2
      <3>2. IsFiniteSet(Announcing(o)') /\ Cardinality(Announcing(o)') <= Cardinality(Announcing(o))
        BY <3>1, CountedTypes, FS_Subset
      <3>3. QED
        BY <3>2, FS_CardinalityType
    <2>4. ~Calm'
      BY <1>5, FaultIsNotCalm DEF HandlerFails, Crash
    <2>5. QED
      BY <1>2, <2>1, <2>3, <2>4, CountedTypes DEF Balanced, Counted
  <1>6. QED
    BY <1>3, <1>4, <1>5

(* Every other step leaves the count and the versions alone. *)
LEMMA OtherBalance ==
    ASSUME TypeInv, [Next]_vars, NEW o \in Orders,
           ~\E k \in Cancels : CancelUpdate(k) \/ CancelAnnounce(k) \/ CancelDies(k),
           ~\E g \in Consumers : ApplyOutcome(g) \/ AnnounceOutcome(g) \/ HandlerFails(g) \/ Crash(g)
    PROVE  Balanced(o)
  <1>1. UNCHANGED version
    BY DEF Next, vars, CreateOrder, CancelOrder, Process, Group, DrawNumber, RejectNumber,
           CommitOrder, CreateFails, Midnight, CancelRead, CancelReject, InventoryPublishes,
           SkipDuplicate, Accept, SkipSettled, LoadPending, MarkProcessed, CommitOffset,
           Rebalance, Restart, Expire, tables
  <1>2. UNCHANGED outbox \/ \E p \in Orders : CommitOrder(p)
    BY DEF Next, vars, CreateOrder, CancelOrder, Process, Group, DrawNumber, RejectNumber,
           CreateFails, Midnight, CancelRead, CancelReject, InventoryPublishes,
           SkipDuplicate, Accept, SkipSettled, LoadPending, MarkProcessed, CommitOffset,
           Rebalance, Restart, Expire
  <1>3. Cardinality(Announced(o)') = Cardinality(Announced(o))
    <2>1. CASE UNCHANGED outbox
      BY <2>1 DEF Announced
    <2>2. ASSUME NEW p \in Orders, CommitOrder(p)
          PROVE  Cardinality(Announced(o)') = Cardinality(Announced(o))
      BY <2>2, AnnouncedGrows DEF CommitOrder, CreatedRows
    <2>3. QED
      BY <1>2, <2>1, <2>2
  <1>4. Updated(o)' = Updated(o)
    <2>1. \/ UNCHANGED cancelPc
          \/ \E k \in Cancels : CancelRead(k) \/ CancelReject(k)
      BY DEF Next, vars, CreateOrder, CancelOrder, Process, Group, DrawNumber, RejectNumber,
             CommitOrder, CreateFails, Midnight, InventoryPublishes, SkipDuplicate, Accept,
             SkipSettled, LoadPending, MarkProcessed, CommitOffset, Rebalance, Restart, Expire
    <2>2. QED
      BY <2>1 DEF Updated, CancelRead, CancelReject, TypeInv, TypeOK
  <1>5. Announcing(o)' = Announcing(o)
    <2>1. ASSUME NEW h \in Consumers
          PROVE  /\ workerPc'[h] = "announcing" <=> workerPc[h] = "announcing"
                 /\ workerPc[h] = "announcing" => next'[h] = next[h]
      <3>1. \/ UNCHANGED workers
            \/ \E g \in Consumers : SkipDuplicate(g) \/ Accept(g) \/ SkipSettled(g) \/ LoadPending(g)
                                    \/ MarkProcessed(g) \/ Rebalance(g) \/ Restart(g)
        BY DEF Next, vars, CreateOrder, CancelOrder, Process, Group, DrawNumber, RejectNumber,
               CommitOrder, CreateFails, Midnight, CancelRead, CancelReject, InventoryPublishes,
               CommitOffset, Expire, workers
      <3>2. QED
        BY <3>1 DEF workers, SkipDuplicate, Accept, SkipSettled, LoadPending, MarkProcessed,
                    Rebalance, Restart, Return, Goto, Deliverable, TypeInv, TypeOK
    <2>2. Announcing(o)' \cap Consumers = Announcing(o) \cap Consumers
      BY <2>1, AnnouncingFrame
    <2>3. QED
      BY <2>2 DEF Announcing
  <1>6. QED
    BY <1>1, <1>3, <1>4, <1>5 DEF Balanced, Counted

LEMMA ChangesStep ==
    ASSUME TypeInv, ChangesInv, [Next]_vars
    PROVE  ChangesInv'
  <1>0. TypeInv'
    BY TypeInvStep
  <1>1. Calm' => Calm
    <2>1. \A f \in FaultKinds : faults[f] \in Nat /\ faults'[f] \in Nat /\ faults[f] <= faults'[f]
      <3>1. (\E kind \in FaultKinds : Fault(kind)) \/ UNCHANGED faults
        <4>1. \A f \in {"crash", "failure", "rebalance", "stall"} : f \in FaultKinds
          BY DEF FaultKinds
        <4>2. QED
          BY <4>1 DEF Next, vars, CreateOrder, CancelOrder, Process, Group, DrawNumber, RejectNumber,
                 CommitOrder, CreateFails, Midnight, CancelRead, CancelReject, CancelUpdate,
                 CancelAnnounce, CancelDies, InventoryPublishes, SkipDuplicate, Accept,
                 SkipSettled, LoadPending, ApplyOutcome, AnnounceOutcome, MarkProcessed,
                 HandlerFails, CommitOffset, Rebalance, Crash, Restart, Expire, kafka
      <3>2. ASSUME NEW kind \in FaultKinds, Fault(kind), NEW f \in FaultKinds
            PROVE  faults[f] \in Nat /\ faults'[f] \in Nat /\ faults[f] <= faults'[f]
        BY <3>2 DEF Fault, TypeInv, TypeOK
      <3>3. QED
        BY <3>1, <3>2 DEF TypeInv, TypeOK
    <2>2. "failure" \in FaultKinds /\ "crash" \in FaultKinds
      BY DEF FaultKinds
    <2>3. QED
      BY <2>1, <2>2 DEF Calm
  <1>2. (\A o \in Orders : Counted(o) \in Nat /\ version[o] \in Nat)'
    BY <1>0, CountedIsNat, PTL
  <1>3. ASSUME NEW o \in Orders
        PROVE  Counted(o)' <= version'[o] /\ (Calm' => Counted(o)' = version'[o])
    <2>1. Balanced(o)
      BY CancelBalance, WorkerBalance, OtherBalance
    <2>2. Counted(o) \in Nat /\ version[o] \in Nat
      BY CountedIsNat
    <2>3. Counted(o)' \in Nat /\ version'[o] \in Nat
      BY <1>2
    <2>4. Counted(o) <= version[o] /\ (Calm => Counted(o) = version[o])
      BY DEF ChangesInv
    <2>5. QED
      BY <1>1, <2>1, <2>2, <2>3, <2>4 DEF Balanced
  <1>4. QED
    BY <1>3 DEF ChangesInv

(* Cancellations, both outcomes, overlapping handlers, crashes and failed  *)
(* statements included, no announcement stands in the outbox without the   *)
(* change it announces, and a change without its announcement has a call   *)
(* that died or failed between the two transactions.                       *)
THEOREM AnnouncementsMatchChanges == Spec => []ChangesAreAnnounced
  <1>1. Init => ChangesInv
    <2> SUFFICES ASSUME Init, NEW o \in Orders PROVE Counted(o) = 0 /\ version[o] = 0
      BY DEF ChangesInv
    <2>1. Announced(o) = {} /\ Updated(o) = {} /\ Announcing(o) = {}
      BY DEF Init, Announced, Updated, Announcing
    <2>2. QED
      BY <2>1, FS_EmptySet DEF Counted, Init
  <1>2. TypeInv /\ ChangesInv /\ [Next]_vars => ChangesInv'
    BY ChangesStep
  <1>3. TypeInv /\ ChangesInv => ChangesAreAnnounced
    <2> SUFFICES ASSUME TypeInv, ChangesInv, NEW o \in Orders
                 PROVE  /\ ChangesAnnounced(o) + ChangesInFlight(o) <= version[o]
                        /\ Calm /\ ChangesInFlight(o) = 0 => ChangesAnnounced(o) = version[o]
      BY DEF ChangesAreAnnounced, Calm
    <2>1. /\ ChangesAnnounced(o) = Cardinality(Announced(o))
          /\ ChangesInFlight(o) = Cardinality(Updated(o)) + Cardinality(Announcing(o))
      BY DEF ChangesAnnounced, ChangesInFlight, Announced, Updated, Announcing
    <2>2. /\ Cardinality(Announced(o)) \in Nat /\ Cardinality(Updated(o)) \in Nat
          /\ Cardinality(Announcing(o)) \in Nat /\ version[o] \in Nat
      BY CountedTypes, CountedIsNat
    <2>3. QED
      BY <2>1, <2>2 DEF ChangesInv, Counted
  <1>4. QED
    BY <1>1, <1>2, <1>3, TypeInvInit, TypeInvStep, PTL DEF Spec

-----------------------------------------------------------------------------
(***************************************************************************)
(* The saga for every set of orders, calls and events and any number of    *)
(* faults: composition takes nothing from what holds of order-service and  *)
(* payment-service by themselves, and together they keep OrderPromise.     *)
(***************************************************************************)

P == INSTANCE PaymentServiceProofs WITH
    status <- payment, outbox <- paymentOutbox, pc <- callPc,
    faults <- paymentFaults, MaxFaults <- MaxPaymentFaults

LEMMA CallTypes ==
    \A c \in Calls : c.order \in Orders /\ c.kind \in {"charge", "compensation"}
  BY SagaAssumption DEF Payments!PaymentAssumption

LEMMA PaymentConstants == P!PaymentAssumption
  BY SagaAssumption DEF Payments!PaymentAssumption, P!PaymentAssumption,
         Payments!CallKinds, P!CallKinds, Payments!CallFaults, P!CallFaults,
         Payments!CallIds, P!CallIds, Payments!Keys, P!Keys, Payments!Cards, P!Cards, Payments!IsFiniteSet,
         P!IsFiniteSet

-----------------------------------------------------------------------------
(* The services of the saga are the services by themselves *)

LEMMA OrderServiceStep == [SagaNext]_sagaVars => [Next]_vars
  BY DEF SagaNext, sagaVars, OrderStep, Elsewhere, PaymentStep, PaymentFault, Reserve,
         Publish, Next, orderVars, CreateOrder

LEMMA PaymentServiceStep == [SagaNext]_sagaVars => [Payments!Next]_(Payments!payVars)
  BY DEF SagaNext, sagaVars, OrderStep, Elsewhere, PaymentStep, PaymentFault, Reserve,
         Publish, Payments!Next, paymentVars, Payments!payVars

LEMMA PaymentInit == SagaInit => P!Init
  BY DEF SagaInit, Payments!CallFaults, P!CallFaults, Payments!NoRow, P!NoRow, Payments!Init, P!Init

LEMMA PaymentStepAsProved == [Payments!Next]_(Payments!payVars) => [P!Next]_(P!payVars)
  BY DEF Payments!NoRow, P!NoRow, Payments!CallFaults, P!CallFaults, Payments!tables,
         P!tables, Payments!provider, P!provider, Payments!locals, P!locals,
         Payments!payVars, P!payVars, Payments!Cardinality, P!Cardinality,
         Payments!IsFiniteSet, P!IsFiniteSet, Payments!Exists, P!Exists, Payments!IsCharge,
         P!IsCharge, Payments!Goto, P!Goto, Payments!End, P!End, Payments!Fault, P!Fault,
         Payments!InTransaction, P!InTransaction, Payments!FreeConnection,
         P!FreeConnection, Payments!RowLocked, P!RowLocked, Payments!FindExisting,
         P!FindExisting, Payments!FindNone, P!FindNone, Payments!ProviderKey,
         P!ProviderKey, Payments!Earlier, P!Earlier, Payments!Charged, P!Charged,
         Payments!AnswerFor, P!AnswerFor, Payments!InProgress, P!InProgress,
         Payments!RefuseKey, P!RefuseKey,
         Payments!AskCharge, P!AskCharge, Payments!ChargeTimesOut, P!ChargeTimesOut,
         Payments!Available, P!Available, Payments!CheckRequest, P!CheckRequest,
         Payments!CheckCompensation, P!CheckCompensation, Payments!ReadPayment,
         P!ReadPayment, Payments!ReadFails, P!ReadFails, Payments!Refundable, P!Refundable,
         Payments!PayBack, P!PayBack, Payments!AskRefund, P!AskRefund,
         Payments!RefundTimesOut, P!RefundTimesOut, Payments!Begin, P!Begin,
         Payments!Write, P!Write, Payments!InsertRejected, P!InsertRejected,
         Payments!EventOf, P!EventOf, Payments!AppendOutbox, P!AppendOutbox,
         Payments!MayCommit, P!MayCommit, Payments!CommitCharge, P!CommitCharge,
         Payments!CommitRefund, P!CommitRefund, Payments!TransactionFails,
         P!TransactionFails, Payments!Dies, P!Dies, Payments!Charge, P!Charge,
         Payments!Refund, P!Refund, Payments!Record, P!Record, Payments!Disturb, P!Disturb,
         Payments!Next, P!Next

(* In the saga order-service and payment-service do what they do by        *)
(* themselves: what their own runs and proofs show holds of them here.     *)
THEOREM SagaIsOrderService == SagaSpec => Spec
  <1>1. SagaInit => Init
    BY DEF SagaInit
  <1>2. QED
    BY <1>1, OrderServiceStep, PTL DEF SagaSpec, Spec

THEOREM SagaIsPaymentService == SagaSpec => Payments!Spec
  <1>1. SagaInit => Payments!Init
    BY DEF SagaInit
  <1>2. QED
    BY <1>1, PaymentServiceStep, PTL DEF SagaSpec, Payments!Spec

(* No outcome of the inventory service is skipped in the saga.             *)
THEOREM NoOutcomeIsSkippedInSaga == SagaSpec => []HandledIsSettled
  BY SagaIsOrderService, NoOutcomeIsSkipped, PTL

LEMMA PaymentsAreSound == SagaSpec => [](P!TypeOK /\ P!OutcomeIsTrue)
  <1>1. SagaSpec => P!Spec
    BY PaymentInit, PaymentServiceStep, PaymentStepAsProved, PTL DEF SagaSpec, P!Spec
  <1>2. P!Spec => []P!TypeOK
    BY PaymentConstants, P!TypeCorrect
  <1>3. P!Spec => []P!OutcomeIsTrue
    BY PaymentConstants, P!AnnouncedOutcomesAreTrue
  <1>4. QED
    BY <1>1, <1>2, <1>3, PTL

-----------------------------------------------------------------------------
(* Who goes first *)

(* What a service may rely on when an event reaches it: a charge call has  *)
(* its order, a compensation its failed reservation, a message of          *)
(* inventory-events the reservation's outcome, a reservation its charge,   *)
(* and a refund a failed reservation.                                      *)
CausalInv ==
    /\ stock \in [Orders -> {"unknown", "reserved", "failed"}]
    /\ \A c \in Calls : callPc[c] # "new" =>
        /\ c.kind = "charge" => Exists(c.order)
        /\ c.kind = "compensation" => stock[c.order] = "failed"
    /\ \A n \in 1 .. Len(log) : OutcomeOf(log[n])
    /\ \A o \in Orders : stock[o] # "unknown" => Charged(o)
    /\ \A o \in Orders : stock[o] # "failed" => paidBack[o] = 0

OrderInv == TypeInv /\ RowInv /\ CreatedFirst
PaymentInv == P!TypeOK /\ P!OutcomeIsTrue

LEMMA PaymentTypes ==
    ASSUME P!TypeOK
    PROVE  /\ callPc \in [Calls -> P!Steps] /\ amount \in [Calls -> Int]
           /\ paidBack \in [Orders -> Int]
           /\ \A p \in charges : p.accepted \in BOOLEAN
  BY DEF P!TypeOK, P!ChargeRecord

(* What a call may do to the provider, and to the other calls. *)
LEMMA CallStep ==
    ASSUME P!TypeOK, NEW c \in Calls, PaymentStep(c) \/ PaymentFault(c)
    PROVE  /\ callPc[c] = "new" => Delivered(c)
           /\ \A d \in Calls : d # c => callPc'[d] = callPc[d]
           /\ \/ UNCHANGED <<charges, paidBack>>
              \/ /\ c.kind = "charge" /\ callPc[c] = "read" /\ UNCHANGED paidBack
                 /\ \E a \in BOOLEAN : charges' = charges \cup
                        {[key |-> c.order, order |-> c.order, card |-> c.card, accepted |-> a]}
              \/ /\ c.kind = "compensation" /\ callPc[c] = "read" /\ UNCHANGED charges
                 /\ Charged(c.order)
                 /\ amount[c] > 0 /\ paidBack[c.order] + amount[c] <= Amount
                 /\ paidBack' = [paidBack EXCEPT ![c.order] = @ + amount[c]]
  <1>1. callPc[c] = "new" => Delivered(c)
    BY DEF PaymentStep, PaymentFault, Payments!Disturb, Payments!ChargeTimesOut,
           Payments!RefundTimesOut, Payments!TransactionFails, Payments!Dies,
           Payments!InTransaction
  <1>2. callPc \in [Calls -> P!Steps] /\ c.kind \in {"charge", "compensation"}
    BY PaymentTypes, CallTypes
  <1>3. \A d \in Calls : d # c => callPc'[d] = callPc[d]
    BY <1>2 DEF PaymentStep, PaymentFault, Payments!Charge, Payments!Refund, Payments!Record,
           Payments!Disturb, Payments!FindExisting, Payments!FindNone, Payments!RefuseKey,
           Payments!AskCharge, Payments!ChargeTimesOut, Payments!CheckRequest, Payments!CheckCompensation,
           Payments!ReadPayment, Payments!ReadFails, Payments!AskRefund,
           Payments!RefundTimesOut, Payments!Begin, Payments!Write, Payments!InsertRejected,
           Payments!AppendOutbox, Payments!CommitCharge, Payments!CommitRefund,
           Payments!TransactionFails, Payments!Dies, Payments!End, Payments!Goto
  <1>4. ASSUME Payments!AskCharge(c) \/ Payments!ChargeTimesOut(c)
        PROVE  /\ c.kind = "charge" /\ callPc[c] = "read" /\ UNCHANGED paidBack
               /\ \/ UNCHANGED charges
                  \/ \E a \in BOOLEAN : charges' = charges \cup
                        {[key |-> c.order, order |-> c.order, card |-> c.card, accepted |-> a]}
    BY <1>4 DEF Payments!AskCharge, Payments!ChargeTimesOut, Payments!IsCharge,
                Payments!Charged, Payments!ProviderKey
  <1>5. ASSUME Payments!AskRefund(c) \/ Payments!RefundTimesOut(c)
        PROVE  /\ c.kind = "compensation" /\ callPc[c] = "read" /\ UNCHANGED charges
               /\ \/ UNCHANGED paidBack
                  \/ /\ Charged(c.order)
                     /\ amount[c] > 0 /\ paidBack[c.order] + amount[c] <= Amount
                     /\ paidBack' = [paidBack EXCEPT ![c.order] = @ + amount[c]]
    BY <1>2, <1>5 DEF Payments!AskRefund, Payments!RefundTimesOut, Payments!IsCharge,
                Payments!Refundable, Payments!PayBack, Charged, Payments!Accepted
  <1>6. ASSUME ~(Payments!AskCharge(c) \/ Payments!ChargeTimesOut(c)),
               ~(Payments!AskRefund(c) \/ Payments!RefundTimesOut(c))
        PROVE  UNCHANGED <<charges, paidBack>>
    BY <1>6 DEF PaymentStep, PaymentFault, Payments!Charge, Payments!Refund, Payments!Record,
           Payments!Disturb, Payments!FindExisting, Payments!FindNone,
           Payments!RefuseKey, Payments!CheckRequest, Payments!CheckCompensation,
           Payments!ReadPayment, Payments!ReadFails,
           Payments!Begin, Payments!Write, Payments!InsertRejected,
           Payments!AppendOutbox, Payments!CommitCharge, Payments!CommitRefund,
           Payments!TransactionFails, Payments!Dies, Payments!End, Payments!provider
  <1>7. QED
    BY <1>1, <1>3, <1>4, <1>5, <1>6

LEMMA ChargedStays ==
    ASSUME P!TypeOK, NEW c \in Calls, PaymentStep(c) \/ PaymentFault(c), NEW o \in Orders, Charged(o)
    PROVE  Charged(o)'
  <1>1. charges \subseteq charges'
    BY CallStep
  <1>2. QED
    BY <1>1 DEF Charged, Payments!Accepted

LEMMA CausalInit == SagaInit => CausalInv
  BY CallTypes DEF SagaInit, Init, Payments!Init, CausalInv

LEMMA CausalStep ==
    OrderInv /\ PaymentInv /\ CausalInv /\ [SagaNext]_sagaVars => CausalInv'
  <1> SUFFICES ASSUME OrderInv, PaymentInv, CausalInv, [SagaNext]_sagaVars
               PROVE  CausalInv'
    OBVIOUS
  <1>1. \A o \in Orders : Exists(o) => Exists(o)'
    BY OrderServiceStep, SettledStays DEF OrderInv
  <1>2. CASE OrderStep
    <2>1. UNCHANGED <<charges, paidBack, callPc, stock>>
      BY <1>2 DEF OrderStep, Elsewhere, paymentVars
    <2>2. log' = log
      BY <1>2 DEF OrderStep, CreateOrder, DrawNumber, CommitOrder, RejectNumber, CreateFails,
             Midnight, CancelOrder, CancelRead, CancelReject, CancelUpdate, CancelAnnounce,
             CancelDies, Process, SkipDuplicate, Accept, SkipSettled, LoadPending,
             ApplyOutcome, AnnounceOutcome, MarkProcessed, HandlerFails, Group, CommitOffset,
             Rebalance, Crash, Restart, Expire, kafka
    <2>3. QED
      BY <1>1, <2>1, <2>2, CallTypes DEF CausalInv, OutcomeOf, Charged, Payments!Accepted
  <1>3. ASSUME NEW c \in Calls, PaymentStep(c) \/ PaymentFault(c) PROVE CausalInv'
    <2>1. UNCHANGED <<status, outbox, log, stock>>
      BY <1>3 DEF PaymentStep, PaymentFault, orderVars, vars
    <2>2. callPc[c] = "new" =>
            /\ c.kind = "charge" => Exists(c.order)
            /\ c.kind = "compensation" => stock[c.order] = "failed"
      <3>1. \A n \in DOMAIN outbox : outbox[n] = Row(c.order, "OrderCreated") => Exists(c.order)
        BY DEF OrderInv, CreatedFirst, Row
      <3>2. QED
        BY <1>3, <3>1, CallStep DEF PaymentInv, Delivered
    <2>3. \A d \in Calls : callPc'[d] # "new" =>
            /\ d.kind = "charge" => Exists(d.order)'
            /\ d.kind = "compensation" => stock'[d.order] = "failed"
      <3>1. \A d \in Calls : d # c => callPc'[d] = callPc[d]
        BY <1>3, CallStep DEF PaymentInv
      <3>2. QED
        BY <2>1, <2>2, <3>1 DEF CausalInv, Exists
    <2>4. \A o \in Orders : stock'[o] # "unknown" => Charged(o)'
      BY <1>3, <2>1, ChargedStays DEF CausalInv, PaymentInv
    <2>5. \A o \in Orders : stock'[o] # "failed" => paidBack'[o] = 0
      <3>1. \/ UNCHANGED paidBack
            \/ /\ stock[c.order] = "failed"
               /\ paidBack' = [paidBack EXCEPT ![c.order] = @ + amount[c]]
        BY <1>3, CallStep DEF PaymentInv, CausalInv
      <3>2. paidBack \in [Orders -> Int]
        BY PaymentTypes DEF PaymentInv
      <3>3. QED
        BY <2>1, <3>1, <3>2 DEF CausalInv
    <2>6. QED
      BY <2>1, <2>3, <2>4, <2>5 DEF CausalInv, OutcomeOf
  <1>4. ASSUME NEW o \in Orders, Reserve(o) PROVE CausalInv'
    <2>1. /\ UNCHANGED <<status, log, charges, paidBack, callPc>>
          /\ stock[o] = "unknown"
          /\ \E s \in {"reserved", "failed"} : stock' = [stock EXCEPT ![o] = s]
      BY <1>4 DEF Reserve, orderVars, vars, paymentVars
    <2>2. Charged(o)
      BY <1>4 DEF Reserve, PaymentSucceeded, PaymentInv, P!OutcomeIsTrue, P!Accepted,
                  Charged, Payments!Accepted
    <2>3. \A e \in Events : OutcomeOf(e) => OutcomeOf(e)'
      BY <2>1, EventFields DEF OutcomeOf, CausalInv
    <2>4. \A n \in 1 .. Len(log) : log[n] \in Events
      BY DEF OrderInv, TypeInv, TypeOK
    <2>5. \A p \in Orders : Exists(p)' = Exists(p) /\ Charged(p)' = Charged(p)
      BY <2>1 DEF Exists, Charged, Payments!Accepted
    <2>6. QED
      BY <2>1, <2>2, <2>3, <2>4, <2>5, CallTypes DEF CausalInv
  <1>5. ASSUME NEW e \in Events, Publish(e) PROVE CausalInv'
    <2>1. UNCHANGED <<status, charges, paidBack, callPc, stock>>
      BY <1>5 DEF Publish, InventoryPublishes, tables, paymentVars
    <2>2. log' = Append(log, e) /\ OutcomeOf(e) /\ log \in Seq(Events)
      BY <1>5 DEF Publish, InventoryPublishes, OrderInv, TypeInv, TypeOK
    <2>3. \A n \in 1 .. Len(log') : OutcomeOf(log'[n])
      BY <2>2 DEF CausalInv
    <2>4. QED
      BY <2>1, <2>3 DEF CausalInv, OutcomeOf, Exists, Charged, Payments!Accepted
  <1>6. CASE UNCHANGED sagaVars
    BY <1>6 DEF sagaVars, vars, paymentVars, CausalInv, OutcomeOf, Exists, Charged,
                Payments!Accepted
  <1>7. QED
    BY <1>2, <1>3, <1>4, <1>5, <1>6 DEF SagaNext

-----------------------------------------------------------------------------
(* The saga keeps the promise *)

(* Only these steps touch the orders table. *)
LEMMA OrderMoves ==
    ASSUME TypeInv, RowInv, OrderStep
    PROVE  \/ UNCHANGED status
           \/ \E o \in Orders : ~Exists(o) /\ status' = [status EXCEPT ![o] = "PENDING"]
           \/ \E o \in Orders : Exists(o) /\ status' = [status EXCEPT ![o] = "CANCELLED"]
           \/ \E n \in 1 .. Len(log) :
                /\ log[n] \in Events /\ Exists(log[n].order)
                /\ status' = [status EXCEPT ![log[n].order] = OutcomeStatus(log[n])]
  <1>1. ASSUME NEW o \in Orders, CommitOrder(o)
        PROVE  ~Exists(o) /\ status' = [status EXCEPT ![o] = "PENDING"]
    BY <1>1 DEF CommitOrder, RowInv
  <1>2. ASSUME NEW k \in Cancels, CancelUpdate(k)
        PROVE  /\ k.order \in Orders /\ Exists(k.order)
               /\ status' = [status EXCEPT ![k.order] = "CANCELLED"]
    BY <1>2, CancelFields DEF CancelUpdate, UpdateStatus, RowInv
  <1>3. ASSUME NEW h \in Consumers, ApplyOutcome(h)
        PROVE  \E n \in 1 .. Len(log) :
                /\ log[n] \in Events /\ Exists(log[n].order)
                /\ status' = [status EXCEPT ![log[n].order] = OutcomeStatus(log[n])]
    <2>1. Current(h) \in Events /\ next[h] + 1 \in 1 .. Len(log)
      BY <1>3, CurrentIsEvent DEF ApplyOutcome, Busy, TypeInv
    <2>2. QED
      BY <1>3, <2>1 DEF ApplyOutcome, UpdateStatus, RowInv, Current
  <1>4. \/ UNCHANGED status
        \/ \E o \in Orders : CommitOrder(o)
        \/ \E k \in Cancels : CancelUpdate(k)
        \/ \E h \in Consumers : ApplyOutcome(h)
    BY DEF OrderStep, CreateOrder, CancelOrder, Process, Group, DrawNumber, RejectNumber,
           CreateFails, Midnight, CancelRead, CancelReject, CancelAnnounce, CancelDies,
           SkipDuplicate, Accept, SkipSettled, LoadPending, AnnounceOutcome, MarkProcessed,
           HandlerFails, CommitOffset, Rebalance, Crash, Restart, Expire, tables
  <1>5. QED
    BY <1>1, <1>2, <1>3, <1>4

AbstractOrders == [o \in Orders |-> AbstractOrder(o)]
AbstractCards == [o \in Orders |-> AbstractCard(o)]

LEMMA CardsStay ==
    ASSUME UNCHANGED <<charges, paidBack>>
    PROVE  UNCHANGED AbstractCards
  BY DEF AbstractCards, AbstractCard, Charged, Payments!Accepted

LEMMA OrdersStay ==
    ASSUME UNCHANGED status
    PROVE  UNCHANGED AbstractOrders
  BY DEF AbstractOrders, AbstractOrder

LEMMA OrderMove ==
    ASSUME TypeOK, NEW o \in Orders, NEW s \in OrderStatus, status' = [status EXCEPT ![o] = s]
    PROVE  AbstractOrders' = [AbstractOrders EXCEPT ![o] =
                CASE s = "PENDING" -> "open" [] s = "CONFIRMED" -> "confirmed"
                  [] s = "CANCELLED" -> "cancelled"]
  <1>1. status'[o] = s /\ \A p \in Orders \ {o} : status'[p] = status[p]
    BY DEF TypeOK
  <1>2. AbstractOrder(o)' =
            CASE s = "PENDING" -> "open" [] s = "CONFIRMED" -> "confirmed"
              [] s = "CANCELLED" -> "cancelled"
    BY <1>1 DEF AbstractOrder, NoRow, OrderStatus
  <1>3. \A p \in Orders \ {o} : AbstractOrder(p)' = AbstractOrder(p)
    BY <1>1 DEF AbstractOrder
  <1>4. QED
    BY <1>2, <1>3 DEF AbstractOrders

LEMMA PlacedIsExists ==
    ASSUME TypeOK, NEW o \in Orders
    PROVE  Promised!Placed(o) <=> Exists(o)
  BY DEF Promised!Placed, AbstractOrder, Exists, NoRow, OrderStatus, TypeOK

LEMMA PromiseInit == SagaInit => Promised!PromiseInit
  <1> SUFFICES ASSUME SagaInit PROVE Promised!PromiseInit
    OBVIOUS
  <1>1. \A o \in Orders : AbstractOrder(o) = "none"
    BY DEF SagaInit, Init, AbstractOrder, NoRow
  <1>2. \A o \in Orders : AbstractCard(o) = "untouched"
    BY DEF SagaInit, Payments!Init, AbstractCard, Charged, Payments!Accepted
  <1>3. QED
    BY <1>1, <1>2 DEF SagaInit, Promised!PromiseInit

(* Placing, confirming and cancelling. *)
LEMMA OrderStepKeepsPromise ==
    ASSUME OrderInv, CausalInv, OrderStep
    PROVE  [Promised!PromiseNext]_(Promised!promiseVars)
  <1>0. UNCHANGED <<charges, paidBack, stock>> /\ TypeOK
    BY DEF OrderStep, Elsewhere, paymentVars, OrderInv, TypeInv
  <1>1. UNCHANGED AbstractCards
    BY <1>0, CardsStay
  <1>2. CASE UNCHANGED status
    BY <1>0, <1>1, <1>2, OrdersStay DEF Promised!promiseVars, AbstractOrders, AbstractCards
  <1>3. ASSUME NEW o \in Orders, ~Exists(o), status' = [status EXCEPT ![o] = "PENDING"]
        PROVE  Promised!Place(o)
    <2>1. AbstractOrders' = [AbstractOrders EXCEPT ![o] = "open"]
      BY <1>0, <1>3, OrderMove DEF OrderStatus
    <2>2. QED
      BY <1>0, <1>1, <1>3, <2>1, PlacedIsExists DEF Promised!Place, AbstractOrders, AbstractCards
  <1>4. ASSUME NEW o \in Orders, Exists(o), status' = [status EXCEPT ![o] = "CANCELLED"]
        PROVE  Promised!Cancel(o)
    <2>1. AbstractOrders' = [AbstractOrders EXCEPT ![o] = "cancelled"]
      BY <1>0, <1>4, OrderMove DEF OrderStatus
    <2>2. QED
      BY <1>0, <1>1, <1>4, <2>1, PlacedIsExists DEF Promised!Cancel, AbstractOrders, AbstractCards
  <1>5. ASSUME NEW n \in 1 .. Len(log), log[n] \in Events, Exists(log[n].order),
               status' = [status EXCEPT ![log[n].order] = OutcomeStatus(log[n])]
        PROVE  Promised!Confirm(log[n].order) \/ Promised!Cancel(log[n].order)
    <2>1. log[n].order \in Orders
      BY <1>5, EventFields
    <2>2. CASE log[n].type = "InventoryReserved"
      <3>1. AbstractOrders' = [AbstractOrders EXCEPT ![log[n].order] = "confirmed"]
        BY <1>0, <1>5, <2>1, <2>2, OrderMove DEF OrderStatus, OutcomeStatus
      <3>2. stock[log[n].order] = "reserved"
        BY <2>2 DEF CausalInv, OutcomeOf
      <3>3. QED
        BY <1>0, <1>1, <1>5, <2>1, <3>1, <3>2, PlacedIsExists
           DEF Promised!Confirm, AbstractOrders, AbstractCards
    <2>3. CASE log[n].type # "InventoryReserved"
      <3>1. AbstractOrders' = [AbstractOrders EXCEPT ![log[n].order] = "cancelled"]
        BY <1>0, <1>5, <2>1, <2>3, OrderMove DEF OrderStatus, OutcomeStatus
      <3>2. QED
        BY <1>0, <1>1, <1>5, <2>1, <3>1, PlacedIsExists
           DEF Promised!Cancel, AbstractOrders, AbstractCards
    <2>4. QED
      BY <2>2, <2>3
  <1>6. \A n \in 1 .. Len(log) : log[n] \in Events => log[n].order \in Orders
    BY EventFields
  <1>7. QED
    BY <1>2, <1>3, <1>4, <1>5, <1>6, OrderMoves DEF OrderInv, Promised!PromiseNext

(* Charging and paying back. *)
LEMMA PaymentStepKeepsPromise ==
    ASSUME OrderInv, PaymentInv, CausalInv,
           NEW c \in Calls, PaymentStep(c) \/ PaymentFault(c)
    PROVE  [Promised!PromiseNext]_(Promised!promiseVars)
  <1> DEFINE o == c.order
  <1>0. /\ UNCHANGED <<status, stock>> /\ o \in Orders
        /\ paidBack \in [Orders -> Int] /\ Amount \in Nat \ {0}
        /\ TypeOK
    BY CallTypes, PaymentTypes, SagaAssumption
       DEF PaymentStep, PaymentFault, orderVars, vars, PaymentInv, Payments!PaymentAssumption,
           OrderInv, TypeInv
  <1>1. UNCHANGED AbstractOrders
    BY <1>0, OrdersStay
  <1>2. CASE UNCHANGED <<charges, paidBack>>
    BY <1>0, <1>1, <1>2, CardsStay DEF Promised!promiseVars, AbstractOrders, AbstractCards
  <1>3. CASE UNCHANGED AbstractCards
    BY <1>0, <1>1, <1>3 DEF Promised!promiseVars, AbstractOrders, AbstractCards
  <1>4. ASSUME c.kind = "charge", callPc[c] = "read", UNCHANGED paidBack,
               NEW a \in BOOLEAN,
               charges' = charges \cup {[key |-> o, order |-> o, card |-> c.card, accepted |-> a]},
               ~UNCHANGED AbstractCards
        PROVE  Promised!Charge(o)
    <2>1. \A p \in Orders : (Charged(p)' <=> Charged(p) \/ (p = o /\ a))
      <3> DEFINE new == [key |-> o, order |-> o, card |-> c.card, accepted |-> a]
      <3>1. \A x : x \in charges' <=> x \in charges \/ x = new
        BY <1>4
      <3>2. new.order = o /\ new.accepted = a
        OBVIOUS
      <3>3. \A p : Charged(p) <=> \E x \in charges : x.order = p /\ x.accepted
        BY DEF Charged, Payments!Accepted
      <3>4. \A p : Charged(p)' <=> \E x \in charges' : x.order = p /\ x.accepted
        BY DEF Charged, Payments!Accepted
      <3> HIDE DEF new
      <3>5. QED
        BY <3>1, <3>2, <3>3, <3>4
    <2>2. ~Charged(o) /\ a
      <3>1. ASSUME Charged(o) \/ ~a PROVE \A p \in Orders : AbstractCard(p)' = AbstractCard(p)
        BY <1>4, <2>1, <3>1 DEF AbstractCard
      <3>2. QED
        BY <1>4, <3>1 DEF AbstractCards
    <2>3. paidBack[o] = 0
      BY <1>0, <2>2 DEF CausalInv
    <2>4. AbstractCard(o) = "untouched" /\ AbstractCard(o)' = "charged"
      BY <1>0, <1>4, <2>1, <2>2, <2>3 DEF AbstractCard
    <2>5. \A p \in Orders \ {o} : AbstractCard(p)' = AbstractCard(p)
      BY <1>4, <2>1 DEF AbstractCard
    <2>6. AbstractCards' = [AbstractCards EXCEPT ![o] = "charged"]
      BY <2>4, <2>5 DEF AbstractCards
    <2>7. Exists(o)
      BY <1>4 DEF CausalInv
    <2>8. QED
      BY <1>0, <1>1, <2>4, <2>6, <2>7, PlacedIsExists
         DEF Promised!Charge, AbstractOrders, AbstractCards
  <1>5. ASSUME c.kind = "compensation", callPc[c] = "read", UNCHANGED charges, Charged(o),
               amount[c] > 0, paidBack[o] + amount[c] <= Amount,
               paidBack' = [paidBack EXCEPT ![o] = @ + amount[c]],
               ~UNCHANGED AbstractCards
        PROVE  Promised!PayBack(o)
    <2>1. \A p \in Orders : Charged(p)' = Charged(p)
      BY <1>5 DEF Charged, Payments!Accepted
    <2>2. \A p \in Orders \ {o} : AbstractCard(p)' = AbstractCard(p)
      BY <1>0, <1>5, <2>1 DEF AbstractCard
    <2>3. paidBack'[o] = paidBack[o] + amount[c] /\ amount[c] \in Int
      BY <1>0, <1>5, PaymentTypes DEF PaymentInv
    <2>4. AbstractCard(o) = "charged"
      BY <1>0, <1>5, <2>3 DEF AbstractCard
    <2>5. AbstractCard(o)' \in {"charged", "refunded"}
      BY <1>0, <1>5, <2>1, <2>3 DEF AbstractCard
    <2>6. AbstractCard(o)' # AbstractCard(o)
      BY <1>5, <2>2 DEF AbstractCards
    <2>7. AbstractCards' = [AbstractCards EXCEPT ![o] = "refunded"]
      BY <2>2, <2>4, <2>5, <2>6 DEF AbstractCards
    <2>8. stock[o] = "failed"
      BY <1>5 DEF CausalInv
    <2>9. QED
      BY <1>0, <1>1, <2>4, <2>7, <2>8 DEF Promised!PayBack, AbstractOrders, AbstractCards
  <1>6. QED
    BY <1>0, <1>2, <1>3, <1>4, <1>5, CallStep DEF PaymentInv, Promised!PromiseNext

(* Deciding the stock. *)
LEMMA ReserveKeepsPromise ==
    ASSUME PaymentInv, CausalInv, NEW o \in Orders, Reserve(o)
    PROVE  Promised!Decide(o)
  <1>1. /\ UNCHANGED <<status, charges, paidBack>> /\ stock[o] = "unknown"
        /\ \E s \in {"reserved", "failed"} : stock' = [stock EXCEPT ![o] = s]
    BY DEF Reserve, orderVars, vars, paymentVars
  <1>2. Charged(o)
    BY DEF Reserve, PaymentSucceeded, PaymentInv, P!OutcomeIsTrue, P!Accepted,
           Charged, Payments!Accepted
  <1>3. AbstractCard(o) = "charged"
    <2>1. paidBack[o] = 0 /\ Amount \in Nat \ {0}
      BY <1>1, SagaAssumption DEF CausalInv, Payments!PaymentAssumption
    <2>2. QED
      BY <1>2, <2>1 DEF AbstractCard
  <1>4. QED
    BY <1>1, <1>3, CardsStay, OrdersStay DEF Promised!Decide, AbstractOrders, AbstractCards

LEMMA PromiseStep ==
    OrderInv /\ PaymentInv /\ CausalInv /\ [SagaNext]_sagaVars
        => [Promised!PromiseNext]_(Promised!promiseVars)
  <1> SUFFICES ASSUME OrderInv, PaymentInv, CausalInv, [SagaNext]_sagaVars
               PROVE  [Promised!PromiseNext]_(Promised!promiseVars)
    OBVIOUS
  <1>1. ASSUME NEW e \in Events, Publish(e) PROVE UNCHANGED <<status, charges, paidBack, stock>>
    BY <1>1 DEF Publish, InventoryPublishes, tables, paymentVars
  <1>2. UNCHANGED sagaVars => UNCHANGED <<status, charges, paidBack, stock>>
    BY DEF sagaVars, vars, paymentVars
  <1>3. UNCHANGED <<status, charges, paidBack, stock>> => UNCHANGED Promised!promiseVars
    BY CardsStay, OrdersStay DEF Promised!promiseVars, AbstractOrders, AbstractCards
  <1>4. ASSUME NEW o \in Orders, Reserve(o) PROVE Promised!PromiseNext
    BY <1>4, ReserveKeepsPromise DEF Promised!PromiseNext
  <1>5. QED
    BY <1>1, <1>2, <1>3, <1>4, OrderStepKeepsPromise, PaymentStepKeepsPromise DEF SagaNext

(* No charge without its order, no reservation without its charge, no      *)
(* confirmation without its reservation, no refund without a failed one:   *)
(* whatever overlaps, fails, is lost or comes twice, the services of the   *)
(* saga implement OrderPromise.                                            *)
THEOREM PromiseIsKept == SagaSpec => SagaKeepsPromise
  <1>1. SagaSpec => []OrderInv
    <2>1. Init => OrderInv
      <3>1. Init => CreatedFirst
        BY DEF Init, CreatedFirst, Exists
      <3>2. QED
        BY <3>1, TypeInvInit, RowInvInit DEF OrderInv
    <2>2. OrderInv /\ [Next]_vars => OrderInv'
      BY TypeInvStep, RowInvStep, CreatedFirstStep DEF OrderInv
    <2>3. Spec => []OrderInv
      BY <2>1, <2>2, PTL DEF Spec
    <2>4. QED
      BY <2>3, SagaIsOrderService, PTL
  <1>2. SagaSpec => []PaymentInv
    BY PaymentsAreSound DEF PaymentInv
  <1>3. SagaSpec => [](OrderInv /\ PaymentInv /\ CausalInv)
    BY <1>1, <1>2, CausalInit, CausalStep, PTL DEF SagaSpec
  <1>4. QED
    BY <1>3, PromiseInit, PromiseStep, PTL DEF SagaSpec, SagaKeepsPromise, Promised!Promise
=============================================================================
