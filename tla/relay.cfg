\* Every kind of fault once, two replicas on the rows of an order behind one that the broker rejects, under fairness.
SPECIFICATION FairSpec
CONSTANTS
    w1 = w1
    w2 = w2
    Rows = {1, 2, 3}
    Poisoned = {1}
    OrderOf <- TwoOrders
    Workers <- Replicas
    Limit = 2
    MaxFaults <- AnyFault
INVARIANTS
    DuplicatesBounded
    CreatedReachesKafkaFirst
PROPERTIES
    RelayIsAnOutbox
    RelayDelivers
CHECK_DEADLOCK FALSE
