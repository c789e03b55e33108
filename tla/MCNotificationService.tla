----------------------- MODULE MCNotificationService -----------------------
(* Constants for model checking NotificationService. *)
EXTENDS NotificationService

WithLambda == {"r1", "l1"}
OneLambda == {"l1"}

(* terraform/main.tf: the Lambda consumer joins the replicas' group. *)
SharedGroup == [h \in WithLambda |-> "notification-service"]

OneEvent == {[id |-> 1, type |-> "OrderCreated"]}
OneRun   == {"c1"}

EachFault == [f \in NotificationFaults |-> 1]
=============================================================================
