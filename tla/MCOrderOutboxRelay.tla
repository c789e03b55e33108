------------------------- MODULE MCOrderOutboxRelay -------------------------
(* Constants for model checking OrderOutboxRelay. *)
EXTENDS OrderOutboxRelay

CONSTANTS w1, w2    \* two replicas
Replicas == {w1, w2}

(* Two events of one order, after one of another. *)
TwoOrders == <<"o2", "o1", "o1">>

AnyFault == [f \in RelayFaults |-> 1]
=============================================================================
