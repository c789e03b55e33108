\* Two charges of one order with different cards and three kinds of refund, every fault once, under fairness.
SPECIFICATION FairSpec
CONSTANTS
    Orders = {"o1"}
    Calls <- AllCalls
    Amount = 3
    PoolSize = 5
    MaxFaults <- AnyFault
INVARIANTS
    ChargedOnce
    OutcomeIsTrue
    BooksAndOutboxAgree
    BooksWithinProvider
PROPERTIES
    EveryCallEnds
CHECK_DEADLOCK FALSE
