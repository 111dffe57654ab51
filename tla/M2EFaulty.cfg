CONSTANTS
    MaxTx = 1
    MaxBlock = 1
    MinBlocksForFinality = 0
    Switches = {}
    Users = {alice}
    Payments = {2}
    RequiredFees = {1}
    ServiceFeeConfigs <- MCServiceFeeConfigs
    MaxPercentage = 10
    MaxBridgedAmounts = {}
    BatchSizes = {1}
    BatchDurations = {2}
    FeeSplits <- MCFeeSplits
    Recipients = {alice}
    InvalidRecipients = {}
    TransferAmounts = {1}
    MaxTransferAmounts = {}
    RefundBatchSizes = {1}
    RefundBatchDurations = {1}
    Relayers = {r1, r3}
    InitialBoard = {r1, r3}
    InitialQuorum = 2
    Quorums = {}
    RequiredStake = 1
    SlashAmount = 1
    StakeAmounts = {}
    MaxStake = 1
    MaxActions = 2
    MaxTransfers = 0
    MaxStatuses = 1
    ProposedStatuses = {"Executed", "Rejected"}
    MaxEthTx = 0
    Tokens = {t1}
    DepositRecipients = {alice}
    EthRecipients = {eve}
    DepositAmounts = {1}
    TokenLimits <- MCLimits
    EthServiceFees <- MCNoFee
    FullPercent = 10
    EthBatchSizes = {1}
    BlockLimits = {}
    SettleLimits = {}
    InitialBlockLimit = 0
    InitialSettleLimit = 0
    MaxBatchSize = 4
    MaxDeposits = 0
    MaxGifts = 0
    MaxEthBlock = 2
    EthSwitches = {"relayers"}
    Faulty = {r3}
    EsdtToken = ride
    Erc20ForToken <- MCErc20ForToken
    EthRecipientOf <- MCEthRecipientOf
    EthAccounts = {r1, r3}
    InitialEthRelayers = {r1, r3}
    InitialEthQuorum = 2
    EthQuorums = {}
    MvxBatchNonces = {1}
    MvxTransferLists <- MCTransferLists
    MaxSignatures = 4
    BridgeSettleLimits = {}
    InitialBridgeSettle = 1
    RelayerAccounts = {r1}
    RefusedRecipients = {eve}
    MaxQuorumRetriesOnEthereum = 1
    MaxQuorumRetriesOnMultiversX = 1
    MaxRetriesOnWasProposed = 1
    InitialSupply = 2
    MaxMempool = 1
    MaxFailures = 1
SPECIFICATION HalfBridgeSpec
INVARIANTS RelayersTypeOK SettledAsExecuted
PROPERTY ImplementsHalfBridge
CHECK_DEADLOCK FALSE
