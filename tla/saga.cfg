\* One order from its creation to its refund: a copy of OrderCreated, a cancellation, a crash of order-service, a lost answer and a failed statement of payment-service.
SPECIFICATION FairSagaSpec
CONSTANTS
    Orders = {"o1"}
    Cancels <- OneCancel
    Events <- Outcomes
    Consumers = {"h1"}
    Zones = {"UTC"}
    MaxDay = 0
    MaxLog = 1
    MaxFaults <- OneCrash
    Calls <- ChargeTwice
    Copies <- OneCopy
    Amount = 2
    PoolSize = 4
    MaxPaymentFaults <- TimeoutOrDatabase
PROPERTIES
    SagaKeepsPromise
    OrdersAreSettled
    FailuresArePaidBack
CHECK_DEADLOCK FALSE
