\* One order, a cancel call, both outcomes, two replicas, every kind of fault once; or three create calls around the midnights of any zone.
SPECIFICATION Spec
CONSTANTS
    c1 = c1
    c2 = c2
    Orders = {"o1", "o2", "o3"}
    Cancels <- OneCancel
    Events <- BothOutcomes
    Consumers <- Replicas
    Zones <- AllZones
    MaxDay = 2
    MaxLog = 2
    MaxFaults <- AllFaults
CONSTRAINT OneOrSeveral
SYMMETRY Symmetry
INVARIANTS
    CreatedFirst
    ChangesAreAnnounced
    ConfirmedOnce
    HandledIsSettled
    NextNumberIsFree
CHECK_DEADLOCK FALSE
