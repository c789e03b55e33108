-------------------------- MODULE OrderOutboxRelay --------------------------
(***************************************************************************)
(* order-service's outbox relay (OutboxService.pollOutbox): every replica  *)
(* reads the oldest PENDING rows without a lock, publishes them one by one *)
(* and marks each one SENT.  The publish, the two updates and the next     *)
(* poll are separate steps, so replicas work on the same rows, die between *)
(* a publish and its mark, or see either of the two fail.  A replica whose *)
(* producer could not connect when it started fails every publish, and a   *)
(* row whose payload is above the broker's limit fails on every replica.   *)
(* processed_at, which nothing reads, is left out.                         *)
(***************************************************************************)
EXTENDS Naturals, FiniteSets

CONSTANTS
    Rows,       \* outbox rows, numbered by created_at
    Poisoned,   \* rows whose message the broker never accepts
    OrderOf,    \* the order (aggregate_id, the Kafka key) of each row
    Workers,    \* replicas
    Limit,      \* rows of a batch (50)
    MaxFaults   \* bound: how often each kind of fault happens

RelayFaults == {"crash", "stop", "connect", "publish", "database"}

ASSUME RelayAssumption ==
    /\ Rows \subseteq Nat /\ IsFiniteSet(Rows)
    /\ Poisoned \subseteq Rows
    /\ IsFiniteSet(Workers)
    /\ Limit \in Nat \ {0}
    /\ MaxFaults \in [RelayFaults -> Nat]

VARIABLES
    row,        \* outbox.status of each row, "absent" before it is inserted
    copies,     \* messages of order-events that carry the row
    batch,      \* per replica: fetched rows still to be processed
    relayPc,    \* per replica: step of processEntry
    producer,   \* per replica: is KafkaProducerService connected
    stopping,   \* per replica: isShuttingDown
    faults      \* faults so far, per kind

replica == <<batch, relayPc, producer, stopping>>
relayVars == <<row, copies, batch, relayPc, producer, stopping, faults>>

TypeOK ==
    /\ row \in [Rows -> {"absent", "PENDING", "SENT"}]
    /\ copies \in [Rows -> Nat]
    /\ batch \in [Workers -> SUBSET Rows]
    /\ relayPc \in [Workers -> {"down", "idle", "fetched", "published", "failed"}]
    /\ producer \in [Workers -> {"connected", "unconnected"}]
    /\ stopping \in [Workers -> BOOLEAN]
    /\ faults \in [RelayFaults -> Nat]

Init ==
    /\ row = [r \in Rows |-> "absent"]
    /\ copies = [r \in Rows |-> 0]
    /\ batch = [w \in Workers |-> {}]
    /\ relayPc = [w \in Workers |-> "down"]
    /\ producer = [w \in Workers |-> "unconnected"]
    /\ stopping = [w \in Workers |-> FALSE]
    /\ faults = [f \in RelayFaults |-> 0]

Fault(kind) ==
    /\ faults[kind] < MaxFaults[kind]
    /\ faults' = [faults EXCEPT ![kind] = @ + 1]

-----------------------------------------------------------------------------
(* The table *)

(* r is the OrderCreated row of q's order: the first one written of it. *)
Precedes(r, q) == OrderOf[r] = OrderOf[q] /\ r <= q
Creates(r, q) == Precedes(r, q) /\ \A p \in Rows : Precedes(p, q) => r <= p

(* A request or a handler commits row r: the row of a new order, or a row  *)
(* of an order that exists.                                                *)
InsertRow(r) ==
    /\ row[r] = "absent"
    /\ \A q \in Rows : Creates(q, r) => q = r \/ row[q] # "absent"
    /\ row' = [row EXCEPT ![r] = "PENDING"]
    /\ UNCHANGED <<copies, replica, faults>>

Pending == {r \in Rows : row[r] = "PENDING"}

(* fetchPending: the Limit oldest PENDING rows, whoever else has them. *)
OldestPending ==
    {r \in Pending : Cardinality({q \in Pending : q < r}) < Limit}

-----------------------------------------------------------------------------
(* Processing a batch *)

(* Mutant: the rows come in the order of ORDER BY created_at DESC. *)
NewestFirst(w, r) == r \in batch[w] /\ \A q \in batch[w] : q <= r

(* The loop over w's batch is at entry r. *)
Current(w, r) == r \in batch[w] /\ \A q \in batch[w] : r <= q

(* The loop over the batch goes on with the next row. *)
NextEntry(w, r) ==
    /\ batch' = [batch EXCEPT ![w] = @ \ {r}]
    /\ relayPc' = [relayPc EXCEPT ![w] = IF batch[w] = {r} THEN "idle" ELSE "fetched"]

(* pollOutbox: returns at once while a batch is in progress (isRunning), in *)
(* a shutdown, or when nothing is pending.                                 *)
Poll(w) ==
    /\ relayPc[w] = "idle"
    /\ ~stopping[w]
    /\ Pending # {}
    /\ batch' = [batch EXCEPT ![w] = OldestPending]
    /\ relayPc' = [relayPc EXCEPT ![w] = "fetched"]
    /\ UNCHANGED <<row, copies, producer, stopping, faults>>

Publish(w, r) ==
    /\ relayPc[w] = "fetched"
    /\ Current(w, r)
    /\ producer[w] = "connected" /\ r \notin Poisoned
    /\ copies' = [copies EXCEPT ![r] = @ + 1]
    /\ relayPc' = [relayPc EXCEPT ![w] = "published"]
    /\ UNCHANGED <<row, batch, producer, stopping, faults>>

(* publish throws: the producer is not connected, or the broker rejects    *)
(* the message.                                                            *)
PublishRefused(w, r) ==
    /\ relayPc[w] = "fetched"
    /\ Current(w, r)
    /\ producer[w] = "unconnected" \/ r \in Poisoned
    /\ relayPc' = [relayPc EXCEPT ![w] = "failed"]
    /\ UNCHANGED <<row, copies, batch, producer, stopping, faults>>

(* send fails after its own retries; the broker may have the message. *)
PublishFails(w, r) ==
    /\ relayPc[w] = "fetched"
    /\ Current(w, r)
    /\ producer[w] = "connected" /\ r \notin Poisoned
    /\ Fault("publish")
    /\ \/ UNCHANGED copies
       \/ copies' = [copies EXCEPT ![r] = @ + 1]
    /\ relayPc' = [relayPc EXCEPT ![w] = "failed"]
    /\ UNCHANGED <<row, batch, producer, stopping>>

(* Mutant: the update of the row is left out. *)
MarkNothing(w, r) ==
    /\ relayPc[w] = "published"
    /\ Current(w, r)
    /\ NextEntry(w, r)
    /\ UNCHANGED <<row, copies, producer, stopping, faults>>

MarkSent(w, r) ==
    /\ relayPc[w] = "published"
    /\ Current(w, r)
    /\ row' = [row EXCEPT ![r] = "SENT"]
    /\ NextEntry(w, r)
    /\ UNCHANGED <<copies, producer, stopping, faults>>

MarkSentFails(w) ==
    /\ relayPc[w] = "published"
    /\ Fault("database")
    /\ relayPc' = [relayPc EXCEPT ![w] = "failed"]
    /\ UNCHANGED <<row, copies, batch, producer, stopping>>

(* Mutant: a failed row is really reset to PENDING, as the comment on      *)
(* markFailed says.                                                        *)
MarkFailedPending(w, r) ==
    /\ relayPc[w] = "failed"
    /\ Current(w, r)
    /\ row' = [row EXCEPT ![r] = "PENDING"]
    /\ NextEntry(w, r)
    /\ UNCHANGED <<copies, producer, stopping, faults>>

(* Mutant: the first error ends the batch. *)
MarkFailedEnds(w, r) ==
    /\ relayPc[w] = "failed"
    /\ Current(w, r)
    /\ batch' = [batch EXCEPT ![w] = {}]
    /\ relayPc' = [relayPc EXCEPT ![w] = "idle"]
    /\ UNCHANGED <<row, copies, producer, stopping, faults>>

(* markFailed leaves the status alone: a PENDING row will be fetched again,*)
(* a row another replica has marked stays SENT.                            *)
MarkFailed(w, r) ==
    /\ relayPc[w] = "failed"
    /\ Current(w, r)
    /\ NextEntry(w, r)
    /\ UNCHANGED <<row, copies, producer, stopping, faults>>

(* markFailed throws out of the loop: the rest of the batch is dropped. *)
MarkFailedFails(w) ==
    /\ relayPc[w] = "failed"
    /\ Fault("database")
    /\ batch' = [batch EXCEPT ![w] = {}]
    /\ relayPc' = [relayPc EXCEPT ![w] = "idle"]
    /\ UNCHANGED <<row, copies, producer, stopping>>

-----------------------------------------------------------------------------
(* Replicas *)

Leave(w) ==
    /\ batch' = [batch EXCEPT ![w] = {}]
    /\ relayPc' = [relayPc EXCEPT ![w] = "down"]
    /\ producer' = [producer EXCEPT ![w] = "unconnected"]
    /\ stopping' = [stopping EXCEPT ![w] = FALSE]
    /\ UNCHANGED <<row, copies>>

Crash(w) ==
    /\ relayPc[w] # "down"
    /\ Fault("crash")
    /\ Leave(w)

(* onModuleDestroy: no further poll, and the producer disconnects under a  *)
(* batch that is still in progress.                                        *)
ShutDown(w) ==
    /\ relayPc[w] # "down" /\ ~stopping[w]
    /\ Fault("stop")
    /\ stopping' = [stopping EXCEPT ![w] = TRUE]
    /\ producer' = [producer EXCEPT ![w] = "unconnected"]
    /\ UNCHANGED <<row, copies, batch, relayPc>>

Exit(w) ==
    /\ stopping[w]
    /\ Leave(w)
    /\ UNCHANGED faults

(* onModuleInit of the producer swallows the error when the broker cannot  *)
(* be reached, and nothing connects it later.                              *)
Start(w) ==
    /\ relayPc[w] = "down"
    /\ \/ producer' = [producer EXCEPT ![w] = "connected"] /\ UNCHANGED faults
       \/ producer' = producer /\ Fault("connect")
    /\ relayPc' = [relayPc EXCEPT ![w] = "idle"]
    /\ UNCHANGED <<row, copies, batch, stopping>>

-----------------------------------------------------------------------------
ProcessEntry(w) ==
    \E r \in Rows :
        Publish(w, r) \/ PublishRefused(w, r) \/ MarkSent(w, r) \/ MarkFailed(w, r)

EntryFails(w) ==
    \/ MarkSentFails(w) \/ MarkFailedFails(w)
    \/ \E r \in Rows : PublishFails(w, r)

Next ==
    \/ \E r \in Rows : InsertRow(r)
    \/ \E w \in Workers :
        \/ Poll(w) \/ ProcessEntry(w) \/ EntryFails(w)
        \/ Crash(w) \/ ShutDown(w) \/ Exit(w) \/ Start(w)

Spec == Init /\ [][Next]_relayVars

(* The interval fires every two seconds, the loop over a batch runs on, a  *)
(* stopping process exits, and Kubernetes starts a replica that is down.   *)
Fairness ==
    \A w \in Workers :
        /\ WF_relayVars(Poll(w))
        /\ WF_relayVars(ProcessEntry(w))
        /\ WF_relayVars(Exit(w))
        /\ WF_relayVars(Start(w))

FairSpec == Spec /\ Fairness

-----------------------------------------------------------------------------
(* Properties *)

(* A row is SENT only if order-events carries it: whatever fails or dies   *)
(* between the publish and the mark, no event is retired unsent.           *)
SentIsPublished == \A r \in Rows : row[r] = "SENT" => copies[r] > 0

(* Kafka sees the OrderCreated of an order before anything else about it,  *)
(* with several replicas publishing the same rows (processEntry in the     *)
(* order of created_at), as long as no publish fails, and unless the       *)
(* broker rejects the OrderCreated itself: the loop does not stop there.   *)
CreatedReachesKafkaFirst ==
    faults["publish"] = 0 =>
        \A q, r \in Rows :
            Creates(q, r) /\ copies[r] > 0 => copies[q] > 0 \/ q \in Poisoned

FaultsSoFar ==
    faults["crash"] + faults["stop"] + faults["publish"] + faults["database"]

(* Duplicates have a cause: beyond one copy per replica that held the row, *)
(* each further copy of it answers to a crash, a shutdown or an error.     *)
DuplicatesBounded ==
    \A r \in Rows : copies[r] <= Cardinality(Workers) + FaultsSoFar

(* What the outbox promises (EventPublication), with and without progress. *)
Outbox == INSTANCE EventPublication WITH
    Recordable <- Rows,
    recorded   <- {r \in Rows : row[r] # "absent"},
    published  <- {r \in Rows : copies[r] > 0},
    retired    <- {r \in Rows : row[r] = "SENT"}

(* Every step of the relay is a step the outbox may take, or none. *)
RelayIsAnOutbox == Outbox!SafePublication

(* The same promise for the rows the broker accepts. *)
Accepted == Rows \ Poisoned
AcceptedRows == INSTANCE EventPublication WITH
    Recordable <- Accepted,
    recorded   <- {r \in Accepted : row[r] # "absent"},
    published  <- {r \in Accepted : copies[r] > 0},
    retired    <- {r \in Accepted : row[r] = "SENT"}

(* The relay publishes and retires every row that the broker accepts,      *)
(* through each kind of fault, and although rows it never accepts stay the *)
(* oldest ones, while those are fewer than a batch and one replica has a   *)
(* producer.  (As many of them as a batch has, or two replicas that both   *)
(* start during an outage of the broker, stop everything.)                 *)
RelayDelivers == AcceptedRows!Publication
=============================================================================
