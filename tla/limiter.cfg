\* Two clients behind one counter whose requests may take any time between INCR and the guard.
SPECIFICATION HistorySpec
CONSTANTS
    Clients <- TwoClients
    Limit = 2
    Ttl = 3
    MaxBreaks = 1
INVARIANTS
    AdmittedIsBounded
