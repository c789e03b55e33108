\* Two replicas and the Lambda read the same partition, every kind of fault once, under fairness.
SPECIFICATION FairSpec
CONSTANTS
    Messages <- TwoEvents
    Consumers <- WithLambda
    GroupOf <- BothGroups
    Lambdas <- OneLambda
    MaxLog = 2
    MaxFaults <- AnyFault
INVARIANTS
    StartedOnce
    RecordedIsHandled
PROPERTIES
    EveryEventIsHandled
CHECK_DEADLOCK FALSE
