------------------------ MODULE PaymentEventConsumer ------------------------
(***************************************************************************)
(* payment-service's event consumer: KafkaEventProcessor.process with its  *)
(* Redis deduplication, driven by kafkajs in the replicas and by the       *)
(* Lambda handler, which is deployed beside them in a group of its own, so *)
(* both read every event.  The dedup key is set before the event is        *)
(* handled and stays when the handler throws.  What the handlers do is     *)
(* PaymentService; here they run to the end, throw, or die.                *)
(***************************************************************************)
EXTENDS ConsumerGroup, FiniteSets

CONSTANTS
    Lambdas,    \* the consumers run by lambda/handler.ts
    MaxFaults   \* bound: how often each kind of fault happens

ConsumerFaults == {"crash", "failure", "rebalance", "stall", "expiry"}
EventKind == {"OrderCreated", "RefundRequired", "InventoryReservationFailed", "Other"}
NoId == 0       \* an event that carries no id

ASSUME ConsumerAssumption ==
    /\ Messages \subseteq [id : Nat, kind : EventKind]
    /\ Lambdas \subseteq Consumers
    /\ GroupOf \in [Consumers -> Groups]
    /\ MaxLog \in Nat
    /\ MaxFaults \in [ConsumerFaults -> Nat]

(* What a dedup key can be named after: the event's id, or where it was read. *)
Keys == ({"event"} \X {m.id : m \in Messages}) \cup ({"offset"} \X (1 .. MaxLog))
        \cup {<<"partition", 0>>}

VARIABLES
    keys,       \* live dedup keys in Redis
    pc,         \* per consumer: step of process
    starts,     \* per key: handlers started
    handled,    \* handlers that ran to the end, [key, offset]
    faults      \* faults so far, per kind

consumerVars == <<log, owner, committed, next, keys, pc, starts, handled, faults>>

TypeOK ==
    /\ GroupTypeOK
    /\ keys \subseteq Keys
    /\ pc \in [Consumers -> {"idle", "handling", "down"}]
    /\ starts \in [Keys -> Nat]
    /\ handled \subseteq [key : Keys, offset : 1 .. MaxLog]
    /\ faults \in [ConsumerFaults -> Nat]

Init ==
    /\ GroupInit
    /\ keys = {}
    /\ pc = [h \in Consumers |-> "idle"]
    /\ starts = [k \in Keys |-> 0]
    /\ handled = {}
    /\ faults = [f \in ConsumerFaults |-> 0]

Fault(kind) ==
    /\ faults[kind] < MaxFaults[kind]
    /\ faults' = [faults EXCEPT ![kind] = @ + 1]

-----------------------------------------------------------------------------
(* process *)

(* Mutant: the fallback for an event without an id ignores the offset. *)
KeyWithoutOffset(h) ==
    IF Current(h).id # NoId THEN <<"event", Current(h).id>> ELSE <<"partition", 0>>

(* The Lambda handler does not pass the offset on. *)
KeyOf(h) ==
    CASE Current(h).id # NoId -> <<"event", Current(h).id>>
      [] Current(h).id = NoId /\ h \notin Lambdas -> <<"offset", Offset(h)>>
      [] OTHER -> <<"partition", 0>>

IsHandled(m) == m.kind # "Other"
Goto(h, step) == pc' = [pc EXCEPT ![h] = step]
Deliverable(h) == HasNext(h) /\ pc[h] = "idle"

(* The handler returned: its message is consumed. *)
Finish(h) ==
    /\ handled' = handled \cup {[key |-> KeyOf(h), offset |-> Offset(h)]}
    /\ Goto(h, "idle")
    /\ PassOver(h)

SkipDuplicate(h) ==
    /\ Deliverable(h)
    /\ KeyOf(h) \in keys
    /\ PassOver(h)
    /\ UNCHANGED <<keys, pc, starts, handled, faults>>

(* Mutant: SET without NX. *)
Always(h) == TRUE

(* Redis sets the key only if it is not there. *)
Unclaimed(h) == KeyOf(h) \notin keys

(* SET NX succeeded; an event of an unknown kind needs nothing more. *)
Claim(h) ==
    /\ Deliverable(h)
    /\ Unclaimed(h)
    /\ keys' = keys \cup {KeyOf(h)}
    /\ IF IsHandled(Current(h))
       THEN /\ starts' = [starts EXCEPT ![KeyOf(h)] = @ + 1]
            /\ Goto(h, "handling")
            /\ UNCHANGED <<groupVars, handled>>
       ELSE /\ Finish(h)
            /\ UNCHANGED starts
    /\ UNCHANGED faults

Handle(h) ==
    /\ pc[h] = "handling"
    /\ Finish(h)
    /\ UNCHANGED <<keys, starts, faults>>

(* An error leaves process.  kafkajs hands the message out again; the      *)
(* Lambda handler logs it and goes on with the next record.                *)
Throw(h) ==
    /\ Goto(h, "idle")
    /\ IF h \in Lambdas
       THEN PassOver(h)
       ELSE UNCHANGED groupVars

HandlerThrows(h) ==
    /\ pc[h] = "handling"
    /\ Fault("failure")
    /\ Throw(h)
    /\ UNCHANGED <<keys, starts, handled>>

(* SET NX is applied, but its reply is lost. *)
ReplyLost(h) ==
    /\ Deliverable(h)
    /\ Unclaimed(h)
    /\ Fault("failure")
    /\ keys' = keys \cup {KeyOf(h)}
    /\ Throw(h)
    /\ UNCHANGED <<starts, handled>>

(* 24 hours have passed. *)
Expire(k) ==
    /\ k \in keys
    /\ Fault("expiry")
    /\ keys' = keys \ {k}
    /\ UNCHANGED <<groupVars, pc, starts, handled>>

-----------------------------------------------------------------------------
(* Kafka, the consumers *)

Publish(m) ==
    /\ AppendMessage(m)
    /\ UNCHANGED <<keys, pc, starts, handled, faults>>

CommitOffset(h) ==
    /\ pc[h] # "down"
    /\ Commit(h)
    /\ UNCHANGED <<keys, pc, starts, handled, faults>>

(* Mutant: a handler in progress is abandoned when the partition moves.    *)
RebalanceAborts(h) ==
    /\ pc[h] = "idle"
    /\ IF pc[owner[GroupOf[h]]] = "handling" THEN Fault("stall") ELSE Fault("rebalance")
    /\ Goto(owner[GroupOf[h]], "idle")
    /\ Assign(h)
    /\ UNCHANGED <<keys, starts, handled>>

(* Another replica gets the partition: its owner is down, between two      *)
(* messages, or too slow and unaware of it.                                *)
Rebalance(h) ==
    /\ pc[h] = "idle"
    /\ CASE pc[owner[GroupOf[h]]] = "down" -> UNCHANGED faults
         [] pc[owner[GroupOf[h]]] = "idle" -> Fault("rebalance")
         [] pc[owner[GroupOf[h]]] = "handling" -> Fault("stall")
    /\ Assign(h)
    /\ UNCHANGED <<keys, pc, starts, handled>>

(* The replica dies, or the Lambda invocation runs out of time. *)
Crash(h) ==
    /\ pc[h] # "down"
    /\ Fault("crash")
    /\ Goto(h, "down")
    /\ UNCHANGED <<groupVars, keys, starts, handled>>

Restart(h) ==
    /\ pc[h] = "down"
    /\ Goto(h, "idle")
    /\ Rejoin(h)
    /\ UNCHANGED <<keys, starts, handled, faults>>

-----------------------------------------------------------------------------
Process(h) == SkipDuplicate(h) \/ Claim(h) \/ Handle(h)
Group(h) == CommitOffset(h) \/ Rebalance(h) \/ Crash(h) \/ Restart(h)

Next ==
    \/ \E m \in Messages : Publish(m)
    \/ \E h \in Consumers : Process(h) \/ HandlerThrows(h) \/ ReplyLost(h) \/ Group(h)
    \/ \E k \in keys : Expire(k)

Spec == Init /\ [][Next]_consumerVars

(* Consumers keep reading, handlers run on, and what is down comes back. *)
FairSpec ==
    Spec /\ \A h \in Consumers : WF_consumerVars(Process(h)) /\ WF_consumerVars(Restart(h))

-----------------------------------------------------------------------------
(* Properties *)

(* The handlers of one dedup key start once, and once more for each time   *)
(* it expires, although two groups read the event, producers and Kafka     *)
(* repeat it and replicas overtake each other (SET NX before the handler). *)
(* An event with an id has one key; one without has a key of the replicas  *)
(* and one of the Lambda, and may start under both.                        *)
StartedOnce == \A k \in Keys : starts[k] <= 1 + faults["expiry"]

Disturbed == faults["crash"] + faults["failure"] > 0

(* A key in Redis stands for an event that was handled or is being handled,*)
(* as long as no consumer has died and no handler or reply has failed (the *)
(* key of an event that failed stays, and its redelivery is skipped).      *)
RecordedIsHandled ==
    Disturbed \/ \A k \in keys :
        \/ \E done \in handled : done.key = k
        \/ \E h \in Consumers : pc[h] = "handling" /\ KeyOf(h) = k

(* Every event is handled, through rebalances, stalled replicas and expired*)
(* keys, unless a consumer dies or a handler fails.                        *)
EveryEventIsHandled ==
    \A n \in 1 .. MaxLog :
        n <= Len(log) ~> Disturbed \/
            /\ n <= Len(log)
            /\ \E done \in handled :
                \/ done.offset = n
                \/ log[n].id # NoId /\ done.key = <<"event", log[n].id>>
=============================================================================
