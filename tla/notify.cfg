\* A replica and the Lambda in one group, an event and a request, any two faults, under fairness.
SPECIFICATION FairSpec
CONSTANTS
    Messages <- OneEvent
    Consumers <- WithLambda
    GroupOf <- SharedGroup
    Lambdas <- OneLambda
    Retries <- OneRun
    BatchSize = 1
    MaxLog = 1
    MaxDeliveries = 2
    MaxRequests = 1
    MaxFaults <- EachFault
    FaultsInAll = 2
INVARIANTS
    TypeOK
    HandledHasDelivery
    DeliveriesBounded
    SentIsMailed
PROPERTIES
    EveryDeliveryEnds
CHECK_DEADLOCK FALSE
