---------------------------- MODULE OrderService ----------------------------
(***************************************************************************)
(* order-service: the orders, outbox and processed_events tables, the      *)
(* requests that create and cancel orders, and the consumer group that     *)
(* applies inventory events to orders.  The service runs as several        *)
(* replicas; every statement a request or a handler awaits is a step of    *)
(* its own, so requests, handlers, crashes and rebalances interleave       *)
(* between any two statements.                                             *)
(***************************************************************************)
EXTENDS Naturals, Sequences, FiniteSets

CONSTANTS
    Orders,     \* order ids: POST /orders call o creates order o if it commits
    Cancels,    \* POST /orders/:id/cancel calls, [id, order]
    Events,     \* the inventory service's events, [id, order, type]
    Consumers,  \* replicas: one kafkajs consumer each, all in one group
    Zones,      \* where the replicas' local time may be: at UTC, east or west of it
    MaxDay,     \* bound: midnights that pass
    MaxLog,     \* bound: messages of the inventory-events partition
    MaxFaults   \* bound: how often each kind of fault happens

FaultKinds == {"crash", "failure", "rebalance", "stall"}
InventoryEventType == {"InventoryReserved", "InventoryReservationFailed", "Other"}
EventIds == {e.id : e \in Events}

ASSUME ConstantsAssumption ==
    /\ IsFiniteSet(Orders) /\ IsFiniteSet(Cancels)
    /\ IsFiniteSet(Consumers) /\ Consumers # {}
    /\ Cancels \subseteq [id : {c.id : c \in Cancels}, order : Orders]
    /\ Events \subseteq [id : EventIds, order : Orders, type : InventoryEventType]
    /\ Zones \subseteq {"UTC", "east", "west"}
    /\ MaxDay \in Nat /\ MaxLog \in Nat
    /\ MaxFaults \in [FaultKinds -> Nat]

(* eventId is a UUID: it names one event. *)
ASSUME EventIdsAssumption ==
    \A e, f \in Events : e.id = f.id => e = f

VARIABLES
    \* orders table, one entry per id; status NoRow while there is no row
    status, version, number, createdOn,
    outbox,     \* outbox rows in the order they were inserted
    processed,  \* processed_events: is there a row for the event id
    zone,       \* the replicas' time zone
    day,        \* their local day
    date,       \* the date in UTC
    \* requests
    createPc, cancelPc,
    \* Kafka: one partition of inventory-events and the group's offset in it
    log, owner, committed,
    \* consumers: messages passed over, step of the handler in progress
    next, workerPc,
    faults      \* faults so far, per kind

tables    == <<status, version, number, createdOn>>
clock     == <<zone, day, date>>
kafka     == <<log, owner, committed>>
workers   == <<next, workerPc>>
vars == <<status, version, number, createdOn, outbox, processed, zone, day, date,
          createPc, cancelPc, log, owner, committed, next, workerPc, faults>>

-----------------------------------------------------------------------------
(* Types *)

NoRow == "NONE"
OrderStatus == {"PENDING", "CONFIRMED", "CANCELLED"}
EventType == {"OrderCreated", "OrderConfirmed", "OrderCancelled"}
OutboxRow == [order : Orders, type : EventType]
CreatePc == {"new", "numbered", "committed", "failed"}
CancelPc == {"new", "read", "updated", "done", "rejected", "dead"}
WorkerPc == {"idle", "checked", "loaded", "announcing", "marking", "down"}

TypeOK ==
    /\ status \in [Orders -> OrderStatus \cup {NoRow}]
    /\ version \in [Orders -> Nat]
    /\ number \in [Orders -> Nat \X Nat]
    /\ createdOn \in [Orders -> Nat]
    /\ outbox \in Seq(OutboxRow)
    /\ processed \in [EventIds -> {"absent", "live", "expired"}]
    /\ zone \in Zones /\ day \in Nat /\ date \in Nat
    /\ createPc \in [Orders -> CreatePc]
    /\ cancelPc \in [Cancels -> CancelPc]
    /\ log \in Seq(Events)
    /\ owner \in Consumers
    /\ committed \in 0 .. Len(log)
    /\ next \in [Consumers -> 0 .. Len(log)]
    /\ workerPc \in [Consumers -> WorkerPc]
    /\ faults \in [FaultKinds -> Nat]

Init ==
    /\ status = [o \in Orders |-> NoRow]
    /\ version = [o \in Orders |-> 0]
    /\ number = [o \in Orders |-> <<0, 0>>]
    /\ createdOn = [o \in Orders |-> 0]
    /\ outbox = <<>>
    /\ processed = [i \in EventIds |-> "absent"]
    /\ zone \in Zones /\ day = 0 /\ date = 0
    /\ createPc = [o \in Orders |-> "new"]
    /\ cancelPc = [k \in Cancels |-> "new"]
    /\ log = <<>>
    /\ owner \in Consumers
    /\ committed = 0
    /\ next = [h \in Consumers |-> 0]
    /\ workerPc = [h \in Consumers |-> "idle"]
    /\ faults = [f \in FaultKinds |-> 0]

Exists(o) == status[o] # NoRow
Row(o, t) == [order |-> o, type |-> t]

Fault(kind) ==
    /\ faults[kind] < MaxFaults[kind]
    /\ faults' = [faults EXCEPT ![kind] = @ + 1]

-----------------------------------------------------------------------------
(* Creating an order *)

(* Mutant: the date is compared with > for >=. *)
CountAfterToday == Cardinality({o \in Orders : Exists(o) /\ createdOn[o] > day})

(* The orders since the last midnight of the replicas' local time. *)
CountToday == Cardinality({o \in Orders : Exists(o) /\ createdOn[o] >= day})

(* The number a request would draw now: ORD-<UTC date>-<count + 1>.        *)
NextNumber == <<date, CountToday + 1>>

(* createOrder up to the transaction: user, address and products have been *)
(* validated over HTTP (CreateFails is the other outcome), and the order   *)
(* number is drawn outside the transaction that will use it.               *)
DrawNumber(o) ==
    /\ createPc[o] = "new"
    /\ number' = [number EXCEPT ![o] = NextNumber]
    /\ createPc' = [createPc EXCEPT ![o] = "numbered"]
    /\ UNCHANGED <<status, version, createdOn, outbox, processed, clock, cancelPc,
                   kafka, workers, faults>>

(* The UNIQUE constraint on orders.order_number. *)
NumberTaken(o) == \E p \in Orders : Exists(p) /\ number[p] = number[o]

(* Mutant: the OrderCreated row is left out of the transaction. *)
NoCreatedRows(o) == outbox

(* What the transaction leaves in the outbox. *)
CreatedRows(o) == Append(outbox, Row(o, "OrderCreated"))

(* The transaction: the order, its items and the OrderCreated row commit   *)
(* together.                                                               *)
CommitOrder(o) ==
    /\ createPc[o] = "numbered"
    /\ ~NumberTaken(o)
    /\ status' = [status EXCEPT ![o] = "PENDING"]
    /\ createdOn' = [createdOn EXCEPT ![o] = day]
    /\ outbox' = CreatedRows(o)
    /\ createPc' = [createPc EXCEPT ![o] = "committed"]
    /\ UNCHANGED <<version, number, processed, clock, cancelPc, kafka, workers, faults>>

(* The insert violates the constraint: rollback, the request fails. *)
RejectNumber(o) ==
    /\ createPc[o] = "numbered"
    /\ NumberTaken(o)
    /\ createPc' = [createPc EXCEPT ![o] = "failed"]
    /\ UNCHANGED <<tables, outbox, processed, clock, cancelPc, kafka, workers, faults>>

(* Validation refuses or times out, a statement fails, the replica dies.   *)
CreateFails(o) ==
    /\ createPc[o] \in {"new", "numbered"}
    /\ createPc' = [createPc EXCEPT ![o] = "failed"]
    /\ UNCHANGED <<tables, outbox, processed, clock, cancelPc, kafka, workers, faults>>

(* East of Greenwich the local midnight comes first, west of it that of    *)
(* UTC.                                                                    *)
LocalMidnight ==
    /\ IF zone = "west" THEN day < date ELSE day = date /\ day < MaxDay
    /\ day' = day + 1
    /\ date' = IF zone = "UTC" THEN date + 1 ELSE date

UtcMidnight ==
    /\ \/ zone = "east" /\ date < day
       \/ zone = "west" /\ date = day /\ date < MaxDay
    /\ date' = date + 1
    /\ UNCHANGED day

Midnight ==
    /\ LocalMidnight \/ UtcMidnight
    /\ UNCHANGED <<zone, tables, outbox, processed, createPc, cancelPc, kafka, workers, faults>>

-----------------------------------------------------------------------------
(* Cancelling an order *)

Cancellable(s) == s \in {"PENDING", "CONFIRMED"}

(* OrderRepository.updateStatus: by id only, whatever the status is now.   *)
UpdateStatus(o, s) ==
    /\ status' = [status EXCEPT ![o] = s]
    /\ version' = [version EXCEPT ![o] = @ + 1]

CancelRead(k) ==
    /\ cancelPc[k] = "new"
    /\ Cancellable(status[k.order])
    /\ cancelPc' = [cancelPc EXCEPT ![k] = "read"]
    /\ UNCHANGED <<tables, outbox, processed, clock, createPc, kafka, workers, faults>>

CancelReject(k) ==
    /\ cancelPc[k] = "new"
    /\ ~Cancellable(status[k.order])
    /\ cancelPc' = [cancelPc EXCEPT ![k] = "rejected"]
    /\ UNCHANGED <<tables, outbox, processed, clock, createPc, kafka, workers, faults>>

CancelUpdate(k) ==
    /\ cancelPc[k] = "read"
    /\ UpdateStatus(k.order, "CANCELLED")
    /\ cancelPc' = [cancelPc EXCEPT ![k] = "updated"]
    /\ UNCHANGED <<number, createdOn, outbox, processed, clock, createPc, kafka,
                   workers, faults>>

CancelAnnounce(k) ==
    /\ cancelPc[k] = "updated"
    /\ outbox' = Append(outbox, Row(k.order, "OrderCancelled"))
    /\ cancelPc' = [cancelPc EXCEPT ![k] = "done"]
    /\ UNCHANGED <<tables, processed, clock, createPc, kafka, workers, faults>>

(* A statement fails or the replica dies half way through the call. *)
CancelDies(k) ==
    /\ cancelPc[k] \in {"read", "updated"}
    /\ Fault("failure")
    /\ cancelPc' = [cancelPc EXCEPT ![k] = "dead"]
    /\ UNCHANGED <<tables, outbox, processed, clock, createPc, kafka, workers>>

-----------------------------------------------------------------------------
(* Kafka: the inventory-events partition and the consumer group *)

(* The inventory service answers an order it has heard of.  Its own relay  *)
(* may publish the same event, with the same id, more than once.           *)
InventoryPublishes(e) ==
    /\ Len(log) < MaxLog
    /\ Exists(e.order)
    /\ log' = Append(log, e)
    /\ UNCHANGED <<tables, outbox, processed, clock, createPc, cancelPc, owner,
                   committed, workers, faults>>

Busy(h) == workerPc[h] \notin {"idle", "down"}
Current(h) == log[next[h] + 1]

(* Mutant: the message being handled is committed with them. *)
Fetched(h) == IF Busy(h) THEN next[h] + 1 ELSE next[h]

(* What the owner may commit: the messages whose handler has returned.     *)
Resolved(h) == next[h]

CommitOffset(h) ==
    /\ owner = h
    /\ workerPc[h] # "down"
    /\ committed < Resolved(h)
    /\ committed' = Resolved(h)
    /\ UNCHANGED <<tables, outbox, processed, clock, createPc, cancelPc, log, owner,
                   workers, faults>>

(* The partition moves to h, which starts at the committed offset: because *)
(* its owner is down, in an orderly rebalance, or because the owner was    *)
(* too slow to heartbeat and goes on with its handler unaware of it.       *)
Rebalance(h) ==
    /\ workerPc[h] = "idle"
    /\ owner # h
    /\ \/ workerPc[owner] = "down" /\ UNCHANGED faults
       \/ workerPc[owner] = "idle" /\ Fault("rebalance")
       \/ Busy(owner) /\ Fault("stall")
    /\ owner' = h
    /\ next' = [next EXCEPT ![h] = committed]
    /\ UNCHANGED <<tables, outbox, processed, clock, createPc, cancelPc, log,
                   committed, workerPc>>

Crash(h) ==
    /\ workerPc[h] # "down"
    /\ Fault("crash")
    /\ workerPc' = [workerPc EXCEPT ![h] = "down"]
    /\ UNCHANGED <<tables, outbox, processed, clock, createPc, cancelPc, kafka, next>>

Restart(h) ==
    /\ workerPc[h] = "down"
    /\ workerPc' = [workerPc EXCEPT ![h] = "idle"]
    /\ next' = [next EXCEPT ![h] = committed]
    /\ UNCHANGED <<tables, outbox, processed, clock, createPc, cancelPc, kafka, faults>>

-----------------------------------------------------------------------------
(* InventoryEventProcessor *)

(* Mutant: the guard refuses cancelled orders only. *)
CancelledOnly(o) == status[o] = "CANCELLED"

Settled(o) == status[o] # "PENDING"
IsOutcome(e) == e.type \in {"InventoryReserved", "InventoryReservationFailed"}

OutcomeStatus(e) == IF e.type = "InventoryReserved" THEN "CONFIRMED" ELSE "CANCELLED"

OutcomeEvent(e) == IF e.type = "InventoryReserved" THEN "OrderConfirmed" ELSE "OrderCancelled"

Goto(h, pc) == workerPc' = [workerPc EXCEPT ![h] = pc]

(* process returns, whatever happened in it: the message is resolved. *)
Return(h) ==
    /\ Goto(h, "idle")
    /\ next' = [next EXCEPT ![h] = @ + 1]

Deliverable(h) == owner = h /\ workerPc[h] = "idle" /\ next[h] < Len(log)

(* isEventProcessed finds a row that is still valid. *)
SkipDuplicate(h) ==
    /\ Deliverable(h)
    /\ processed[Current(h).id] = "live"
    /\ Return(h)
    /\ UNCHANGED <<tables, outbox, processed, clock, createPc, cancelPc, kafka, faults>>

(* Mutant: the event is marked as processed when it is accepted. *)
AcceptAndMark(h) ==
    /\ Deliverable(h)
    /\ processed[Current(h).id] # "live"
    /\ processed' = [processed EXCEPT ![Current(h).id] = "live"]
    /\ Goto(h, IF IsOutcome(Current(h)) THEN "checked" ELSE "marking")
    /\ UNCHANGED <<tables, outbox, clock, createPc, cancelPc, kafka, next, faults>>

(* isEventProcessed finds no row, or an expired one, which it removes.  An *)
(* event of another type goes straight to markEventProcessed.              *)
Accept(h) ==
    /\ Deliverable(h)
    /\ processed[Current(h).id] # "live"
    /\ processed' = [processed EXCEPT ![Current(h).id] = "absent"]
    /\ Goto(h, IF IsOutcome(Current(h)) THEN "checked" ELSE "marking")
    /\ UNCHANGED <<tables, outbox, clock, createPc, cancelPc, kafka, next, faults>>

(* findById: the order is missing or not PENDING any more. *)
SkipSettled(h) ==
    /\ workerPc[h] = "checked"
    /\ Settled(Current(h).order)
    /\ Goto(h, "marking")
    /\ UNCHANGED <<tables, outbox, processed, clock, createPc, cancelPc, kafka, next, faults>>

LoadPending(h) ==
    /\ workerPc[h] = "checked"
    /\ ~Settled(Current(h).order)
    /\ Goto(h, "loaded")
    /\ UNCHANGED <<tables, outbox, processed, clock, createPc, cancelPc, kafka, next, faults>>

ApplyOutcome(h) ==
    /\ workerPc[h] = "loaded"
    /\ UpdateStatus(Current(h).order, OutcomeStatus(Current(h)))
    /\ Goto(h, "announcing")
    /\ UNCHANGED <<number, createdOn, outbox, processed, clock, createPc, cancelPc,
                   kafka, next, faults>>

(* Mutant: only a confirmation is announced. *)
AnnounceConfirmation(h) ==
    /\ workerPc[h] = "announcing"
    /\ outbox' = IF Current(h).type = "InventoryReserved"
                 THEN Append(outbox, Row(Current(h).order, "OrderConfirmed"))
                 ELSE outbox
    /\ Goto(h, "marking")
    /\ UNCHANGED <<tables, processed, clock, createPc, cancelPc, kafka, next, faults>>

AnnounceOutcome(h) ==
    /\ workerPc[h] = "announcing"
    /\ outbox' = Append(outbox, Row(Current(h).order, OutcomeEvent(Current(h))))
    /\ Goto(h, "marking")
    /\ UNCHANGED <<tables, processed, clock, createPc, cancelPc, kafka, next, faults>>

(* markEventProcessed: a second row for the id violates its unique index,  *)
(* and that error is swallowed.                                            *)
MarkProcessed(h) ==
    /\ workerPc[h] = "marking"
    /\ processed' = [processed EXCEPT ![Current(h).id] =
                        IF @ = "absent" THEN "live" ELSE @]
    /\ Return(h)
    /\ UNCHANGED <<tables, outbox, clock, createPc, cancelPc, kafka, faults>>

(* Any error in process, a message that does not parse or has no eventId   *)
(* included, is logged and swallowed; the message counts as handled.       *)
HandlerFails(h) ==
    /\ Busy(h)
    /\ Fault("failure")
    /\ Return(h)
    /\ UNCHANGED <<tables, outbox, processed, clock, createPc, cancelPc, kafka>>

(* The row of an event handled 24 hours ago expires. *)
Expire(i) ==
    /\ processed[i] = "live"
    /\ processed' = [processed EXCEPT ![i] = "expired"]
    /\ UNCHANGED <<tables, outbox, clock, createPc, cancelPc, kafka, workers, faults>>

-----------------------------------------------------------------------------
CreateOrder(o) == DrawNumber(o) \/ CommitOrder(o) \/ RejectNumber(o) \/ CreateFails(o)

CancelOrder(k) ==
    CancelRead(k) \/ CancelReject(k) \/ CancelUpdate(k) \/ CancelAnnounce(k) \/ CancelDies(k)

Process(h) ==
    SkipDuplicate(h) \/ Accept(h) \/ SkipSettled(h) \/ LoadPending(h)
    \/ ApplyOutcome(h) \/ AnnounceOutcome(h) \/ MarkProcessed(h)

Group(h) == CommitOffset(h) \/ Rebalance(h) \/ Crash(h) \/ Restart(h)

Next ==
    \/ \E o \in Orders : CreateOrder(o)
    \/ Midnight
    \/ \E k \in Cancels : CancelOrder(k)
    \/ \E e \in Events : InventoryPublishes(e)
    \/ \E h \in Consumers : Process(h) \/ HandlerFails(h) \/ Group(h)
    \/ \E i \in EventIds : Expire(i)

Spec == Init /\ [][Next]_vars

-----------------------------------------------------------------------------
(* Properties *)

(* An order and its OrderCreated row commit together, and the row stands   *)
(* before every other event of the order: whoever follows the outbox reads *)
(* exactly one OrderCreated per order, first (createOrder's transaction;   *)
(* all other writers of the outbox need the order to exist).               *)
CreatedFirst ==
    /\ \A o \in Orders : Exists(o) => \E i \in DOMAIN outbox : outbox[i] = Row(o, "OrderCreated")
    /\ \A i \in DOMAIN outbox : Exists(outbox[i].order)
    /\ \A i, j \in DOMAIN outbox :
        outbox[i].order = outbox[j].order /\ outbox[j].type = "OrderCreated" => j <= i

(* The replicas' day began no later than the date of UTC: always in UTC,   *)
(* east of it from midnight UTC to the local one, west of it from midnight *)
(* UTC on, until the local one comes.                                      *)
DayCoversDate == IF zone = "west" THEN day < date ELSE day = date

(* The number generateOrderNumber would return now is free, so a request   *)
(* that fails on a duplicate number can succeed when it is tried again: in *)
(* UTC at any time, whatever creations overlap and fall around a midnight, *)
(* and elsewhere as long as the count goes back to the start of the date.  *)
NextNumberIsFree ==
    DayCoversDate => \A o \in Orders : Exists(o) => number[o] # NextNumber

ChangesAnnounced(o) ==
    Cardinality({i \in DOMAIN outbox : outbox[i].order = o /\ outbox[i].type # "OrderCreated"})
ChangesInFlight(o) ==
    Cardinality({k \in Cancels : k.order = o /\ cancelPc[k] = "updated"})
    + Cardinality({h \in Consumers : workerPc[h] = "announcing" /\ Current(h).order = o})

(* Announcements and status changes match: OrderConfirmed and              *)
(* OrderCancelled rows, written and still to be written, never outnumber   *)
(* the order's changes, and when no call is half way every change has its  *)
(* row.  The update and the insert are two transactions, so the latter     *)
(* holds only as long as no statement has failed and no replica has died   *)
(* between them.                                                           *)
ChangesAreAnnounced ==
    \A o \in Orders :
        /\ ChangesAnnounced(o) + ChangesInFlight(o) <= version[o]
        /\ faults["failure"] + faults["crash"] = 0 /\ ChangesInFlight(o) = 0 =>
                ChangesAnnounced(o) = version[o]

(* A redelivered or duplicated InventoryReserved never announces an order  *)
(* as confirmed a second time, as long as no consumer has been overtaken   *)
(* in the middle of its handler: the handler's check and update are apart. *)
ConfirmedOnce ==
    faults["stall"] = 0 => \A i, j \in DOMAIN outbox :
        /\ outbox[i].order = outbox[j].order
        /\ outbox[i].type = "OrderConfirmed" /\ outbox[j].type = "OrderConfirmed"
        => i = j

(* What counts as handled is settled: the order of an outcome recorded as  *)
(* processed, through crashes, duplicates, failed statements and           *)
(* rebalances, and the order of an outcome below the committed offset, so  *)
(* that no restart or rebalance skips one, as long as no handler has       *)
(* failed (process swallows the error, and the message counts as handled). *)
ProcessedIsSettled ==
    \A e \in Events : IsOutcome(e) /\ processed[e.id] # "absent" => Settled(e.order)
CommittedIsSettled ==
    faults["failure"] = 0 => \A n \in 1 .. committed : IsOutcome(log[n]) => Settled(log[n].order)
HandledIsSettled == ProcessedIsSettled /\ CommittedIsSettled

(* The guard and the warning of handleInventoryReserved ("Order is not     *)
(* PENDING, skipping confirmation"): a cancelled order is not confirmed.   *)
CancelledIsNeverConfirmed ==
    [][\A o \in Orders : status[o] = "CANCELLED" => status'[o] # "CONFIRMED"]_status
=============================================================================
