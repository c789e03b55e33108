---------------------------- MODULE MCOrderSaga ----------------------------
(* Constants for model checking OrderSaga. *)
EXTENDS OrderSaga

Call(i, kind) ==
    [id |-> i, kind |-> kind, order |-> "o1", key |-> "o1", card |-> "default", amount |-> 0]

First        == Call("c1", "charge")
Copy         == Call("c2", "charge")
Compensation == Call("r1", "compensation")

ChargeTwice == {First, Copy, Compensation}
OneCopy     == {Copy}

OneCancel == {[id |-> "k1", order |-> "o1"]}

Outcomes ==
    {[id |-> "e1", order |-> "o1", type |-> "InventoryReserved"],
     [id |-> "e2", order |-> "o1", type |-> "InventoryReservationFailed"]}

OneCrash == [f \in FaultKinds |-> IF f = "crash" THEN 1 ELSE 0]
TimeoutOrDatabase == [f \in {"timeout", "database", "crash"} |-> IF f = "crash" THEN 0 ELSE 1]
=============================================================================
