CONSTANTS
    Relayers = {r1, r2}
    Hashes = {h1}
    MaxNonce = 2
    MaxForged = 1
    MaxRestarts = 1
SPECIFICATION BroadcasterSpec
INVARIANTS BroadcasterTypeOK NeverAheadOfSender ClearedStaysCleared
PROPERTY ImplementsExchange
SYMMETRY RelayerSymmetry
CHECK_DEADLOCK FALSE
