CONSTANTS
    MaxTx = 3
    MaxBlock = 1
    MinBlocksForFinality = 1
    Switches = {"payout", "frozen", "board"}
    Users = {alice}
    Payments = {}
    RequiredFees = {1}
    ServiceFeeConfigs <- MCServiceFeeConfigs
    MaxPercentage = 10
    MaxBridgedAmounts = {0}
    BatchSizes = {2}
    BatchDurations = {1}
    FeeSplits <- MCFeeSplits
    Recipients = {alice}
    InvalidRecipients = {}
    TransferAmounts = {2}
    MaxTransferAmounts = {1}
    RefundBatchSizes = {2}
    RefundBatchDurations = {1}
    Relayers = {r1, r2}
    InitialBoard = {r1, r2}
    InitialQuorum = 1
    Quorums = {1, 2}
    RequiredStake = 1
    SlashAmount = 1
    StakeAmounts = {1}
    MaxStake = 1
    MaxActions = 3
    MaxTransfers = 2
    MaxStatuses = 0
    ProposedStatuses = {}
    MaxEthTx = 2
SPECIFICATION Spec
SYMMETRY RelayerSymmetry
INVARIANTS MultisigTypeOK EthTxsExecutedOnceInOrder PendingActionsAreCurrent MappingsMatchActions QuorumWithinBoard EthTxsDeliveredOrRefunded
CHECK_DEADLOCK FALSE
