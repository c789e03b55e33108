\* A buyer and a reader behind one counter, under fairness: lost answers, slow services, a dead replica.
SPECIFICATION FairSpec
CONSTANTS
    Clients <- BuyerAndReader
    Buyers <- OneBuyer
    Limit = 2
    Ttl = 2
    MaxBreaks = 1
    MaxAttempts = 3
INVARIANTS
    CounterExpires
    AnswersAreTrue
PROPERTIES
    LimitEnds
    RequestsEnd
