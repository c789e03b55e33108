\* Two requests at a time for one email, any number of them, under fairness.
SPECIFICATION FairSpec
CONSTANTS
    Emails <- OneEmail
    Requests <- TwoRequests
INVARIANTS
    TypeOK
PROPERTIES
    UpdatesKeepOtherFields
    LockoutLasts
    DeactivatedIsLockedOut
