------------------------ MODULE MCPaymentOutboxRelay ------------------------
(* Constants for model checking PaymentOutboxRelay. *)
EXTENDS PaymentOutboxRelay

CONSTANTS w1, w2    \* two replicas
Replicas == {w1, w2}

AnyFault == [f \in RelayFaults |-> 1]
=============================================================================
