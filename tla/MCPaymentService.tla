-------------------------- MODULE MCPaymentService --------------------------
(* Constants for model checking PaymentService. *)
EXTENDS PaymentService

Call(i, k, key, card, a) ==
    [id |-> i, kind |-> k, order |-> "o1", key |-> key, card |-> card, amount |-> a]

FirstCharge  == Call("c1", "charge", "k1", "default", 0)
SecondCharge == Call("c2", "charge", "k2", "card", 0)
PartRefund   == Call("r1", "request", "o1", "none", 1)
Required     == Call("r2", "required", "o1", "none", 2)
Compensation == Call("r3", "compensation", "o1", "none", 0)

(* The charge of OrderCreated, the customer's with another card, and every kind of refund of it. *)
AllCalls == {FirstCharge, SecondCharge, PartRefund, Required, Compensation}

AnyFault == [f \in CallFaults |-> 1]
=============================================================================
