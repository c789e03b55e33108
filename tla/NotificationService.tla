------------------------- MODULE NotificationService -------------------------
(***************************************************************************)
(* notification-service: the events of order-events and inventory-events   *)
(* become delivery records, which are mailed in the background, and by a   *)
(* job that retries the PENDING ones every minute on every replica.  One   *)
(* action is one statement or one mail; between two of them the other      *)
(* tasks of the replica, the other replica and the Lambda consumer run.    *)
(***************************************************************************)
EXTENDS ConsumerGroup, FiniteSets, Functions

CONSTANTS
    Lambdas,        \* the consumers run by lambda/handler.ts
    Retries,        \* bound: runs of the retry job that overlap
    BatchSize,      \* the job's `take`
    MaxDeliveries,  \* bound: delivery records
    MaxRequests,    \* bound: delivery records that a request asked for
    MaxFaults,      \* bound: how often each kind of fault happens
    FaultsInAll     \* bound: how many faults happen

NotificationFaults == {"crash", "database", "refusal", "lostAnswer", "rebalance", "stall"}
EventType == {"OrderCreated", "OrderConfirmed", "OrderCancelled",
              "InventoryReservationFailed", "Other"}
NoId == 0           \* an event that carries no id

(* A request to send carries no event. *)
NoEvent == [id |-> NoId, type |-> "Request"]

ASSUME NotificationAssumption ==
    /\ Messages \subseteq [id : Nat, type : EventType]
    /\ Lambdas \subseteq Consumers
    /\ Consumers # {} /\ IsFiniteSet(Consumers)
    /\ GroupOf \in [Consumers -> Groups]
    /\ BatchSize \in Nat \ {0}
    /\ {MaxLog, MaxDeliveries, MaxRequests, FaultsInAll} \subseteq Nat
    /\ MaxFaults \in [NotificationFaults -> Nat]

Ids == 1 .. MaxDeliveries

(* A background dispatch of a new delivery, or a run of the retry job. *)
Tasks == ({"first"} \X Ids) \cup ({"retry"} \X Retries)

VARIABLES
    deliveries, \* notification_deliveries, in the order of createdAt
    aged,       \* the first `aged` deliveries are older than five minutes
    processed,  \* processed_events: (eventId, eventType)
    pc,         \* per consumer: step of process
    tasks,      \* running dispatches: host, deliveries still to do, outcome of the first
    mailed,     \* deliveries whose mail the SMTP server has accepted
    faults      \* faults so far, per kind

notificationVars == <<log, owner, committed, next, deliveries, aged, processed, pc,
                      tasks, mailed, faults>>

NotificationStatus == {"PENDING", "SENT", "FAILED"}
Delivery == [event : Messages \cup {NoEvent}, email : BOOLEAN, status : NotificationStatus]
Task == [host : Consumers, queue : SUBSET Ids, result : {"none", "SENT", "FAILED"}]

TypeOK ==
    /\ GroupTypeOK
    /\ deliveries \in Seq(Delivery)
    /\ Len(deliveries) <= MaxDeliveries
    /\ aged \in 0 .. Len(deliveries)
    /\ processed \subseteq Messages
    /\ pc \in [Consumers -> {"idle", "accepted", "created", "down"}]
    /\ tasks \in [Tasks -> Task]
    /\ \A t \in Tasks : tasks[t].queue \subseteq 1 .. Len(deliveries)
    /\ mailed \subseteq 1 .. Len(deliveries)
    /\ faults \in [NotificationFaults -> Nat]

NoTask == [host |-> CHOOSE h \in Consumers : TRUE, queue |-> {}, result |-> "none"]

Init ==
    /\ GroupInit
    /\ deliveries = <<>>
    /\ aged = 0
    /\ processed = {}
    /\ pc = [h \in Consumers |-> "idle"]
    /\ tasks = [t \in Tasks |-> NoTask]
    /\ mailed = {}
    /\ faults = [f \in NotificationFaults |-> 0]

Fault(kind) ==
    /\ faults[kind] < MaxFaults[kind]
    /\ SumFunction(faults) < FaultsInAll
    /\ faults' = [faults EXCEPT ![kind] = @ + 1]

Goto(h, step) == pc' = [pc EXCEPT ![h] = step]

-----------------------------------------------------------------------------
(* createAndDispatch: save the record, and dispatch it in the background. *)

NewDelivery(h, event, email) ==
    LET id == Len(deliveries) + 1 IN
    /\ id \in Ids
    /\ deliveries' = Append(deliveries, [event |-> event, email |-> email, status |-> "PENDING"])
    /\ tasks' = [tasks EXCEPT ![<<"first", id>>] =
                    [host |-> h, queue |-> {id}, result |-> "none"]]

(* POST /notifications; SMS and PUSH are no e-mail. *)
CreateNotification(h, email) ==
    /\ h \notin Lambdas
    /\ pc[h] # "down"
    /\ Cardinality({d \in 1 .. Len(deliveries) : deliveries[d].event = NoEvent}) < MaxRequests
    /\ NewDelivery(h, NoEvent, email)
    /\ UNCHANGED <<groupVars, aged, processed, pc, mailed, faults>>

-----------------------------------------------------------------------------
(* KafkaEventProcessor.process *)

Deliverable(h) == HasNext(h) /\ pc[h] = "idle"
Wanted(m) == m.id # NoId /\ m.type # "Other"

(* Mutant: processed_events is not looked at. *)
Fresh(m) == TRUE

(* existsByEventIdAndType *)
IsNew(m) == m \notin processed

SkipEvent(h) ==
    /\ Deliverable(h)
    /\ ~ Wanted(Current(h)) \/ ~ IsNew(Current(h))
    /\ PassOver(h)
    /\ UNCHANGED <<deliveries, aged, processed, pc, tasks, mailed, faults>>

Accept(h) ==
    /\ Deliverable(h)
    /\ Wanted(Current(h)) /\ IsNew(Current(h))
    /\ Goto(h, "accepted")
    /\ UNCHANGED <<groupVars, deliveries, aged, processed, tasks, mailed, faults>>

CreateDelivery(h) ==
    /\ pc[h] = "accepted"
    /\ NewDelivery(h, Current(h), TRUE)
    /\ Goto(h, "created")
    /\ UNCHANGED <<groupVars, aged, processed, mailed, faults>>

(* Mutant: the event is marked before its delivery is saved. *)
NotSaved(h) == pc[h] = "accepted"

Saved(h) == pc[h] = "created"

(* The index on (eventId, eventType) refuses a second row; process logs it. *)
MarkProcessed(h) ==
    /\ Saved(h)
    /\ processed' = processed \cup {Current(h)}
    /\ Goto(h, "idle")
    /\ PassOver(h)
    /\ UNCHANGED <<deliveries, aged, tasks, mailed, faults>>

(* save or markProcessed throws: process logs it and returns. *)
StatementFails(h) ==
    /\ pc[h] \in {"accepted", "created"}
    /\ Fault("database")
    /\ Goto(h, "idle")
    /\ PassOver(h)
    /\ UNCHANGED <<deliveries, aged, processed, tasks, mailed>>

(* The lookup throws out of process: kafkajs hands the message out again,  *)
(* the Lambda handler logs it and goes on with the next record.            *)
LookupFails(h) ==
    /\ Deliverable(h)
    /\ Current(h).id # NoId
    /\ Fault("database")
    /\ IF h \in Lambdas THEN PassOver(h) ELSE UNCHANGED groupVars
    /\ UNCHANGED <<deliveries, aged, processed, pc, tasks, mailed>>

-----------------------------------------------------------------------------
(* dispatchOne *)

Busy(t) == tasks[t].queue # {}

(* A task does its deliveries in the order in which they were created. *)
Subject(t, d) == d \in tasks[t].queue /\ \A e \in tasks[t].queue : d <= e
Ask(t, d) == Subject(t, d) /\ tasks[t].result = "none"
Has(t, d) == Subject(t, d) /\ tasks[t].result # "none"

(* Mutant: a send that failed counts as sent. *)
FailureIsSent(t, accepted) == "SENT"

(* Mutant: the dispatcher's answer is stored as it is. *)
AnswerAsStatus(t, accepted) == IF accepted THEN "success" ELSE "FAILED"

Verdict(t, accepted) == IF accepted THEN "SENT" ELSE "FAILED"

Answered(t, accepted) ==
    tasks' = [tasks EXCEPT ![t].result = Verdict(t, accepted)]

(* The SMTP server takes the mail. *)
Send(t, d) ==
    /\ Ask(t, d)
    /\ deliveries[d].email
    /\ mailed' = mailed \cup {d}
    /\ Answered(t, TRUE)
    /\ UNCHANGED <<groupVars, deliveries, aged, processed, pc, faults>>

(* The dispatcher knows only e-mail. *)
RefuseKind(t, d) ==
    /\ Ask(t, d)
    /\ ~ deliveries[d].email
    /\ Answered(t, FALSE)
    /\ UNCHANGED <<groupVars, deliveries, aged, processed, pc, mailed, faults>>

SendRefused(t, d) ==
    /\ Ask(t, d)
    /\ deliveries[d].email
    /\ Fault("refusal")
    /\ Answered(t, FALSE)
    /\ UNCHANGED <<groupVars, deliveries, aged, processed, pc, mailed>>

(* The server takes the mail, and the connection breaks. *)
AnswerLost(t, d) ==
    /\ Ask(t, d)
    /\ deliveries[d].email
    /\ Fault("lostAnswer")
    /\ mailed' = mailed \cup {d}
    /\ Answered(t, FALSE)
    /\ UNCHANGED <<groupVars, deliveries, aged, processed, pc>>

(* repo.save writes the status whatever the row says by now. *)
SaveOutcome(t, d) ==
    /\ Has(t, d)
    /\ deliveries' = [deliveries EXCEPT ![d].status = tasks[t].result]
    /\ tasks' = [tasks EXCEPT ![t].queue = @ \ {d}, ![t].result = "none"]
    /\ UNCHANGED <<groupVars, aged, processed, pc, mailed, faults>>

(* The error ends a run of the job with all it had left to do. *)
SaveFails(t, d) ==
    /\ Has(t, d)
    /\ Fault("database")
    /\ tasks' = [tasks EXCEPT ![t] = NoTask]
    /\ UNCHANGED <<groupVars, deliveries, aged, processed, pc, mailed>>

-----------------------------------------------------------------------------
(* retryPendingDeliveries *)

IsPending(d) == deliveries[d].status = "PENDING"
Pending == {d \in 1 .. Len(deliveries) : IsPending(d)}
OldestPending == {d \in Pending : Cardinality({e \in Pending : e < d}) < BatchSize}

(* Mutant: the filter keeps what is younger than the threshold. *)
IsRecent(d) == d > aged

IsStale(d) == d <= aged
Stale == {d \in OldestPending : IsStale(d)}

(* Nothing keeps a run from starting while another one, here or on the     *)
(* other replica, is still busy with the same deliveries.                  *)
Retry(c, h) ==
    LET t == <<"retry", c>> IN
    /\ h \notin Lambdas
    /\ pc[h] # "down"
    /\ ~ Busy(t)
    /\ Stale # {}
    /\ tasks' = [tasks EXCEPT ![t] = [host |-> h, queue |-> Stale, result |-> "none"]]
    /\ UNCHANGED <<groupVars, deliveries, aged, processed, pc, mailed, faults>>

(* The oldest young delivery turns five minutes old. *)
Age ==
    /\ aged < Len(deliveries)
    /\ aged' = aged + 1
    /\ UNCHANGED <<groupVars, deliveries, processed, pc, tasks, mailed, faults>>

-----------------------------------------------------------------------------
(* Kafka, the consumers *)

Publish(m) ==
    /\ AppendMessage(m)
    /\ UNCHANGED <<deliveries, aged, processed, pc, tasks, mailed, faults>>

CommitOffset(h) ==
    /\ pc[h] # "down"
    /\ Commit(h)
    /\ UNCHANGED <<deliveries, aged, processed, pc, tasks, mailed, faults>>

(* Another member gets the partition: its owner is down, between two       *)
(* messages, or too slow and unaware of it.                                *)
Rebalance(h) ==
    /\ pc[h] = "idle"
    /\ CASE pc[owner[GroupOf[h]]] = "down" -> UNCHANGED faults
         [] pc[owner[GroupOf[h]]] = "idle" -> Fault("rebalance")
         [] OTHER -> Fault("stall")
    /\ Assign(h)
    /\ UNCHANGED <<deliveries, aged, processed, pc, tasks, mailed>>

(* The replica dies, or the Lambda is frozen and discarded, with every     *)
(* dispatch it has in the background.                                      *)
Crash(h) ==
    /\ pc[h] # "down"
    /\ Fault("crash")
    /\ Goto(h, "down")
    /\ tasks' = [t \in Tasks |-> IF tasks[t].host = h THEN NoTask ELSE tasks[t]]
    /\ UNCHANGED <<groupVars, deliveries, aged, processed, mailed>>

Restart(h) ==
    /\ pc[h] = "down"
    /\ Goto(h, "idle")
    /\ Rejoin(h)
    /\ UNCHANGED <<deliveries, aged, processed, tasks, mailed, faults>>

-----------------------------------------------------------------------------
Process(h) == SkipEvent(h) \/ Accept(h) \/ CreateDelivery(h) \/ MarkProcessed(h)
ProcessFails(h) == StatementFails(h) \/ LookupFails(h)
DispatchOne(t) == \E d \in tasks[t].queue : Send(t, d) \/ RefuseKind(t, d) \/ SaveOutcome(t, d)
DispatchFails(t) == \E d \in tasks[t].queue : SendRefused(t, d) \/ AnswerLost(t, d) \/ SaveFails(t, d)
Group(h) == CommitOffset(h) \/ Rebalance(h) \/ Crash(h) \/ Restart(h)

Next ==
    \/ \E m \in Messages : Publish(m)
    \/ \E h \in Consumers :
        \/ Process(h) \/ ProcessFails(h) \/ Group(h)
        \/ \E email \in BOOLEAN : CreateNotification(h, email)
        \/ \E c \in Retries : Retry(c, h)
    \/ \E t \in Tasks : DispatchOne(t) \/ DispatchFails(t)
    \/ Age

Spec == Init /\ [][Next]_notificationVars

(* Consumers read on and come back, time passes, the job's timer fires and *)
(* what a replica has started goes on; nothing is assumed of a Lambda's    *)
(* background dispatch.                                                    *)
FairSpec ==
    /\ Spec
    /\ WF_notificationVars(Age)
    /\ \A h \in Consumers : WF_notificationVars(Process(h)) /\ WF_notificationVars(Restart(h))
    /\ \A c \in Retries : WF_notificationVars(\E h \in Consumers : Retry(c, h))
    /\ \A t \in Tasks : WF_notificationVars(tasks[t].host \notin Lambdas /\ DispatchOne(t))

-----------------------------------------------------------------------------
(* Properties *)

HasDelivery(m) == \E d \in 1 .. Len(deliveries) : deliveries[d].event = m

(* A delivery the log calls SENT has been taken by the SMTP server, even   *)
(* where a background dispatch and runs of the job overlap (dispatchOne).  *)
SentIsMailed ==
    \A d \in 1 .. Len(deliveries) : deliveries[d].status = "SENT" => d \in mailed

(* What counts as handled has its delivery in the database: an event that  *)
(* is recorded as processed, whatever crashes, fails or is overtaken, and  *)
(* an event below the committed offset, as long as no statement has failed *)
(* (process logs the error, and the event counts as consumed).             *)
HandledHasDelivery ==
    /\ \A m \in processed : HasDelivery(m)
    /\ faults["database"] = 0 => \A g \in Groups, n \in 1 .. Len(log) :
            n <= committed[g] /\ Wanted(log[n]) => HasDelivery(log[n])

Copies(m) == {d \in 1 .. Len(deliveries) : deliveries[d].event = m}
FaultsSoFar == faults["crash"] + faults["database"] + faults["stall"]

(* An event gets a delivery for each group that reads it, and another one  *)
(* only for a crash, a failed statement or a stalled consumer, however     *)
(* often it is published and redelivered (process looks the event up       *)
(* first and records it last).                                             *)
DeliveriesBounded ==
    \A m \in Messages : Cardinality(Copies(m)) <= Cardinality(Groups) + FaultsSoFar

(* Every delivery leaves PENDING, although dispatches die with their       *)
(* replica, a Lambda never gets to its own, and saves fail.                *)
EveryDeliveryEnds ==
    \A d \in Ids :
        d <= Len(deliveries) ~> d <= Len(deliveries) /\ ~ IsPending(d)
=============================================================================
