CONSTANTS
    MaxTx = 3
    MaxBlock = 2
    MinBlocksForFinality = 1
    Switches = {"safePaused", "whitelisted", "burnRole"}
    Users = {alice, bob}
    Payments = {3}
    RequiredFees = {1, 3}
    ServiceFeeConfigs <- MCServiceFeeConfigs
    MaxPercentage = 10
    MaxBridgedAmounts = {0}
    BatchSizes = {1, 2}
    BatchDurations = {1}
    FeeSplits <- MCFeeSplits
SPECIFICATION SafeSpec
INVARIANTS SafeTypeOK SafeConservation SafeQueueInOrder
CHECK_DEADLOCK FALSE
SYMMETRY Accounts
