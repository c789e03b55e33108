\* Every kind of fault once, two replicas on the same rows, under fairness.
SPECIFICATION FairRelaySpec
CONSTANTS
    w1 = w1
    w2 = w2
    Rows = {1, 2}
    Workers <- Replicas
    Limit = 2
    MaxRelayFaults <- AnyFault
INVARIANTS
    SentReachesKafka
PROPERTIES
    EveryRowReachesKafka
CHECK_DEADLOCK FALSE
