\* A cancel call between the read and the update of handleInventoryReserved.
SPECIFICATION Spec
CONSTANTS
    c1 = c1
    c2 = c2
    Orders = {"o1"}
    Cancels <- OneCancel
    Events <- OneOutcome
    Consumers <- Replicas
    Zones = {"UTC"}
    MaxDay = 0
    MaxLog = 1
    MaxFaults <- NoFaults
PROPERTIES
    CancelledIsNeverConfirmed
CHECK_DEADLOCK FALSE
