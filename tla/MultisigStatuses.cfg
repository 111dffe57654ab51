CONSTANTS
    MaxTx = 3
    MaxBlock = 2
    MinBlocksForFinality = 0
    Switches = {"mintRole"}
    Users = {alice}
    Payments = {2}
    RequiredFees = {1}
    ServiceFeeConfigs <- MCServiceFeeConfigs
    MaxPercentage = 10
    MaxBridgedAmounts = {0}
    BatchSizes = {2}
    BatchDurations = {2}
    FeeSplits <- MCFeeSplits
    Recipients = {alice}
    InvalidRecipients = {}
    TransferAmounts = {2}
    MaxTransferAmounts = {}
    RefundBatchSizes = {1}
    RefundBatchDurations = {1}
    Relayers = {r1, r2}
    InitialBoard = {r1, r2}
    InitialQuorum = 2
    Quorums = {}
    RequiredStake = 1
    SlashAmount = 1
    StakeAmounts = {1}
    MaxStake = 1
    MaxActions = 3
    MaxTransfers = 1
    MaxStatuses = 2
    ProposedStatuses = {"Executed", "Rejected"}
    MaxEthTx = 1
SPECIFICATION Spec
SYMMETRY RelayerSymmetry
INVARIANTS SafeConservation PendingActionsAreCurrent PendingStatusesFitBatch
CHECK_DEADLOCK FALSE
