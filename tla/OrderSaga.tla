----------------------------- MODULE OrderSaga -----------------------------
(***************************************************************************)
(* The order saga: order-service and payment-service composed with the     *)
(* inventory service.  OrderCreated starts a charge, PaymentSucceeded a    *)
(* reservation, its outcome settles the order and, when it failed, starts  *)
(* the compensation.  The outbox relays and topics between the services    *)
(* are what OrderOutboxRelay and PaymentOutboxRelay show of them without   *)
(* faults: a row in an outbox is read sooner or later, and again.  The     *)
(* inventory service, and the router that brings its failures to           *)
(* payment-events, are not in the repository.                              *)
(***************************************************************************)
EXTENDS OrderService

CONSTANTS
    Calls, Amount, PoolSize,    \* of PaymentService; a call is one delivery of its event
    Copies,                     \* calls that are a second delivery
    MaxPaymentFaults            \* bound: how often each kind of payment fault happens

VARIABLES
    \* payment-service
    payment, refunded, transaction, ledger, paymentOutbox, charges, paidBack,
    callPc, amount, seen, answer, paymentFaults,
    stock       \* inventory-service: what became of the reservation

Payments == INSTANCE PaymentService WITH
    status <- payment, outbox <- paymentOutbox, pc <- callPc,
    faults <- paymentFaults, MaxFaults <- MaxPaymentFaults

orderVars == vars
paymentVars == <<payment, refunded, transaction, ledger, paymentOutbox, charges, paidBack,
                 callPc, amount, seen, answer, paymentFaults>>
sagaVars == <<vars, paymentVars, stock>>

ASSUME SagaAssumption ==
    /\ Payments!PaymentAssumption
    /\ Copies \subseteq Calls
    /\ \A c \in Calls : c.kind \in {"charge", "compensation"}

SagaInit ==
    /\ Init
    /\ Payments!Init
    /\ stock = [o \in Orders |-> "unknown"]

-----------------------------------------------------------------------------
(* order-events, to payment-service *)

(* The event that starts the call is in its topic.  processRefundRequired, *)
(* whose event no service publishes, is no part of the saga.               *)
Delivered(c) ==
    \/ c.kind = "charge" /\ \E n \in DOMAIN outbox : outbox[n] = Row(c.order, "OrderCreated")
    \/ c.kind = "compensation" /\ stock[c.order] = "failed"

PaymentStep(c) ==
    /\ callPc[c] = "new" => Delivered(c)
    /\ Payments!Charge(c) \/ Payments!Refund(c) \/ Payments!Record(c)
    /\ UNCHANGED <<orderVars, stock>>

PaymentFault(c) ==
    /\ Payments!Disturb(c)
    /\ UNCHANGED <<orderVars, stock>>

-----------------------------------------------------------------------------
(* payment-events, to inventory-service *)

PaymentSucceeded(o) == \E e \in paymentOutbox : e.order = o /\ e.type = "PaymentSucceeded"

(* The service tries to reserve the stock, once per order. *)
Reserve(o) ==
    /\ PaymentSucceeded(o)
    /\ stock[o] = "unknown"
    /\ \E s \in {"reserved", "failed"} : stock' = [stock EXCEPT ![o] = s]
    /\ UNCHANGED <<orderVars, paymentVars>>

(* inventory-events, to order-service *)
OutcomeOf(e) ==
    \/ e.type = "InventoryReserved" /\ stock[e.order] = "reserved"
    \/ e.type = "InventoryReservationFailed" /\ stock[e.order] = "failed"

Publish(e) ==
    /\ OutcomeOf(e)
    /\ InventoryPublishes(e)
    /\ UNCHANGED <<paymentVars, stock>>

-----------------------------------------------------------------------------
Elsewhere == UNCHANGED <<paymentVars, stock>>

OrderStep ==
    /\ \/ \E o \in Orders : CreateOrder(o)
       \/ Midnight
       \/ \E k \in Cancels : CancelOrder(k)
       \/ \E h \in Consumers : Process(h) \/ HandlerFails(h) \/ Group(h)
       \/ \E i \in EventIds : Expire(i)
    /\ Elsewhere

SagaNext ==
    \/ OrderStep
    \/ \E c \in Calls : PaymentStep(c) \/ PaymentFault(c)
    \/ \E o \in Orders : Reserve(o)
    \/ \E e \in Events : Publish(e)

SagaSpec == SagaInit /\ [][SagaNext]_sagaVars

(* The fairness of the two services; events reach who reads them; the      *)
(* inventory service answers.  A second delivery may stay out.             *)
SagaFairness ==
    /\ \A h \in Consumers :
        /\ WF_sagaVars(Process(h) /\ Elsewhere)
        /\ WF_sagaVars(Restart(h) /\ Elsewhere)
        /\ WF_sagaVars(workerPc[owner] = "down" /\ Rebalance(h) /\ Elsewhere)
    /\ \A c \in Calls :
        WF_sagaVars((callPc[c] = "new" => c \notin Copies) /\ PaymentStep(c))
    /\ \A o \in Orders : WF_sagaVars(Reserve(o))
    /\ \A e \in Events : WF_sagaVars((\A n \in DOMAIN log : log[n] # e) /\ Publish(e))

FairSagaSpec == SagaSpec /\ SagaFairness

-----------------------------------------------------------------------------
(* Properties *)

Charged(o) == Payments!Accepted(o) # {}

AbstractOrder(o) ==
    CASE status[o] = NoRow       -> "none"
      [] status[o] = "PENDING"   -> "open"
      [] status[o] = "CONFIRMED" -> "confirmed"
      [] status[o] = "CANCELLED" -> "cancelled"

AbstractCard(o) ==
    CASE ~Charged(o)                             -> "untouched"
      [] Charged(o) /\ paidBack[o] < Amount      -> "charged"
      [] Charged(o) /\ paidBack[o] >= Amount     -> "refunded"

Promised == INSTANCE OrderPromise WITH
    Ids   <- Orders,
    order <- [o \in Orders |-> AbstractOrder(o)],
    card  <- [o \in Orders |-> AbstractCard(o)]

(* The services together keep what OrderPromise says of orders, stock and  *)
(* cards, through every kind of fault, duplicate and overlap of either of  *)
(* them.                                                                   *)
SagaKeepsPromise == Promised!Promise

(* A statement of a handler or of a payment failed, or an answer was lost. *)
Disturbed ==
    faults["failure"] > 0 \/ \E f \in Payments!CallFaults : paymentFaults[f] > 0

PaymentFailed(o) == \E e \in paymentOutbox : e.order = o /\ e.type = "PaymentFailed"

(* Every order that was created is confirmed or cancelled in the end,      *)
(* although a consumer dies, messages are repeated and customers cancel,   *)
(* unless its payment was announced as failed: order-service does not      *)
(* listen to PaymentFailed.                                                *)
OrdersAreSettled ==
    \A o \in Orders : Exists(o) ~> Settled(o) \/ PaymentFailed(o) \/ Disturbed

Compensations(o) == {c \in Calls : c.kind = "compensation" /\ c.order = o}

(* Who pays for an order whose stock is not available gets all of it back, *)
(* unless the compensation found no payment yet and was dropped.           *)
FailuresArePaidBack ==
    \A o \in Orders :
        stock[o] = "failed" ~>
            \/ paidBack[o] = Amount
            \/ Disturbed
            \/ \E c \in Compensations(o) : callPc[c] = "skipped"
=============================================================================
