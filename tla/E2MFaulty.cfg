CONSTANTS
    MaxTx = 2
    MaxBlock = 0
    MinBlocksForFinality = 0
    Switches = {"multisigPaused"}
    Users = {alice}
    Payments = {}
    RequiredFees = {1}
    ServiceFeeConfigs <- MCServiceFeeConfigs
    MaxPercentage = 10
    MaxBridgedAmounts = {0}
    BatchSizes = {2}
    BatchDurations = {1}
    FeeSplits <- MCFeeSplits
    Recipients = {alice}
    InvalidRecipients = {}
    TransferAmounts = {1, 2}
    MaxTransferAmounts = {}
    RefundBatchSizes = {2}
    RefundBatchDurations = {1}
    Relayers = {r1, r2, r3}
    InitialBoard = {r1, r2, r3}
    InitialQuorum = 2
    Quorums = {}
    RequiredStake = 1
    SlashAmount = 1
    StakeAmounts = {}
    MaxStake = 1
    MaxActions = 3
    MaxTransfers = 1
    MaxStatuses = 0
    ProposedStatuses = {}
    MaxEthTx = 2
    Tokens = {t1}
    DepositRecipients = {alice}
    EthRecipients = {}
    DepositAmounts = {1}
    TokenLimits <- MCLimits
    EthServiceFees <- MCNoFee
    FullPercent = 10
    EthBatchSizes = {2}
    BlockLimits = {}
    SettleLimits = {}
    InitialBlockLimit = 0
    InitialSettleLimit = 0
    MaxBatchSize = 4
    MaxDeposits = 2
    MaxGifts = 0
    MaxEthBlock = 2
    EthSwitches = {}
    Faulty = {r3}
    EsdtToken = ride
    Erc20ForToken <- MCErc20ForToken
    EthRecipientOf <- MCEthRecipientOf
    EthAccounts = {r1, r2, r3}
    InitialEthRelayers = {r1, r2, r3}
    InitialEthQuorum = 2
    EthQuorums = {}
    MvxBatchNonces = {}
    MvxTransferLists = {}
    MaxSignatures = 0
    BridgeSettleLimits = {}
    InitialBridgeSettle = 0
    RelayerAccounts = {r1, r2}
    RefusedRecipients = {}
    MaxQuorumRetriesOnEthereum = 1
    MaxRetriesOnWasProposed = 1
    MaxQuorumRetriesOnMultiversX = 1
    MaxMempool = 1
    MaxFailures = 1
SPECIFICATION HalfBridgeSpec
INVARIANTS RelayersTypeOK BatchesExecutedWhole
PROPERTY ImplementsHalfBridge
CHECK_DEADLOCK FALSE
SYMMETRY HonestSymmetry
