CONSTANTS
    MaxTx = 1
    MaxBlock = 1
    MinBlocksForFinality = 0
    Switches = {}
    Users = {alice}
    Payments = {2}
    RequiredFees = {1}
    ServiceFeeConfigs <- MCServiceFeeConfigs
    MaxPercentage = 10
    MaxBridgedAmounts = {}
    BatchSizes = {1}
    BatchDurations = {2}
    FeeSplits <- MCFeeSplits
    Recipients = {alice}
    InvalidRecipients = {}
    TransferAmounts = {1}
    MaxTransferAmounts = {}
    RefundBatchSizes = {1}
    RefundBatchDurations = {1}
    Relayers = {r1, r2}
    InitialBoard = {r1, r2}
    InitialQuorum = 2
    Quorums = {}
    RequiredStake = 1
    SlashAmount = 1
    StakeAmounts = {}
    MaxStake = 1
    MaxActions = 2
    MaxTransfers = 0
    MaxStatuses = 0
    ProposedStatuses = {"Executed", "Rejected"}
    MaxEthTx = 0
    Tokens = {t1}
    DepositRecipients = {alice}
    EthRecipients = {eve}
    DepositAmounts = {1}
    TokenLimits <- MCLimits
    EthServiceFees <- MCNoFee
    FullPercent = 10
    EthBatchSizes = {1}
    BlockLimits = {}
    SettleLimits = {}
    InitialBlockLimit = 0
    InitialSettleLimit = 0
    MaxBatchSize = 4
    MaxDeposits = 0
    MaxGifts = 0
    MaxEthBlock = 0
    EthSwitches = {}
    Faulty = {}
    EsdtToken = ride
    Erc20ForToken <- MCErc20ForToken
    EthRecipientOf <- MCEthRecipientOf
    EthAccounts = {r1, r2}
    InitialEthRelayers = {r1, r2}
    InitialEthQuorum = 2
    EthQuorums = {}
    MvxBatchNonces = {}
    MvxTransferLists <- MCTransferLists
    MaxSignatures = 4
    BridgeSettleLimits = {}
    InitialBridgeSettle = 0
    RelayerAccounts = {r1, r2}
    RefusedRecipients = {}
    MaxQuorumRetriesOnEthereum = 1
    MaxQuorumRetriesOnMultiversX = 1
    MaxRetriesOnWasProposed = 1
    InitialSupply = 2
    MaxMempool = 1
    MaxFailures = 0
SPECIFICATION FairHalfBridgeSpec
PROPERTIES ClosedBatchesAreSettled RelayersStartOver
CHECK_DEADLOCK FALSE
