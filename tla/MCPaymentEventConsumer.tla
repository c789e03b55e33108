----------------------- MODULE MCPaymentEventConsumer -----------------------
(* Constants for model checking PaymentEventConsumer. *)
EXTENDS PaymentEventConsumer

WithLambda == {"r1", "r2", "l1"}
OneLambda == {"l1"}

(* terraform/main.tf:148: the Lambda consumer has a group of its own. *)
BothGroups == [h \in WithLambda |-> IF h = "l1" THEN "payment-service-group" ELSE "payment-service"]

(* An event with an id, and one without, of a kind nothing handles. *)
Created == [id |-> 1, kind |-> "OrderCreated"]
Foreign == [id |-> NoId, kind |-> "Other"]

TwoEvents == {Created, Foreign}

AnyFault == [f \in ConsumerFaults |-> 1]
=============================================================================
