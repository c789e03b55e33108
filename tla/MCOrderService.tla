--------------------------- MODULE MCOrderService ---------------------------
(* Constants for model checking OrderService. *)
EXTENDS OrderService, TLC

CONSTANTS c1, c2    \* two replicas
Replicas == {c1, c2}
Symmetry == Permutations(Replicas)

OneCancel == {[id |-> "k1", order |-> "o1"]}

Reserved   == [id |-> "e1", order |-> "o1", type |-> "InventoryReserved"]
Failed     == [id |-> "e2", order |-> "o1", type |-> "InventoryReservationFailed"]

BothOutcomes == {Reserved, Failed}
OneOutcome   == {Reserved}

NoFaults     == [f \in FaultKinds |-> 0]
AllFaults    == [f \in FaultKinds |-> 1]
AllZones == {"UTC", "east", "west"}

(* A run looks either at one order in UTC with everything that can happen  *)
(* to it, or at the creations of several around midnights, in any zone.    *)
OneOrder ==
    zone = "UTC" /\ day = 0 /\ \A o \in Orders \ {"o1"} : createPc[o] = "new"
SeveralOrders ==
    (\A k \in Cancels : cancelPc[k] = "new") /\ log = <<>> /\ faults = NoFaults
OneOrSeveral == OneOrder \/ SeveralOrders
=============================================================================
