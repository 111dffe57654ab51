CONSTANTS
    t1 = t1
    alice = alice
    bob = bob
    Tokens = {t1}
    DepositRecipients = {dest}
    EthRecipients = {alice, bob}
    DepositAmounts = {2}
    TokenLimits <- MCLimits
    EthServiceFees <- MCFee
    FullPercent = 10
    EthBatchSizes = {2}
    BlockLimits = {2}
    SettleLimits = {1, 2}
    InitialBlockLimit = 1
    InitialSettleLimit = 2
    MaxBatchSize = 2
    MaxDeposits = 2
    MaxGifts = 1
    MaxEthBlock = 3
    EthSwitches = {"gifts", "recover", "limits", "removeToken", "initSupply", "relayers"}
    EthAccounts = {r1}
    InitialEthRelayers = {r1}
    InitialEthQuorum = 1
    EthQuorums = {0, 2}
    MvxBatchNonces = {1}
    MvxTransferLists <- MCTransferLists
    MaxSignatures = 2
    BridgeSettleLimits = {0}
    InitialBridgeSettle = 1
SPECIFICATION EthSpec
INVARIANTS ERC20SafeTypeOK EthBridgeTypeOK BooksBalance SafeIsSolvent DepositsInOrder
PROPERTY ExecutionHasQuorum FinalBatchesAreFixed
CHECK_DEADLOCK FALSE
