CONSTANTS
    MaxTx = 6
    MaxBlock = 1
    MinBlocksForFinality = 0
    Switches = {}
    Users = {alice}
    Payments = {2}
    RequiredFees = {1}
    ServiceFeeConfigs <- MCServiceFeeConfigs
    MaxPercentage = 10
    MaxBridgedAmounts = {0}
    BatchSizes = {6}
    BatchDurations = {5}
    FeeSplits <- MCFeeSplits
    Recipients = {alice}
    InvalidRecipients = {}
    TransferAmounts = {2}
    MaxTransferAmounts = {}
    RefundBatchSizes = {2}
    RefundBatchDurations = {5}
    Relayers = {r1}
    InitialBoard = {r1}
    InitialQuorum = 1
    Quorums = {}
    RequiredStake = 1
    SlashAmount = 1
    StakeAmounts = {1}
    MaxStake = 1
    MaxActions = 1
    MaxTransfers = 0
    MaxStatuses = 7
    ProposedStatuses = {"Executed"}
    MaxEthTx = 0
SPECIFICATION Spec
INVARIANT PendingStatusesFitBatch
CHECK_DEADLOCK FALSE
