CONSTANTS
    GasPrices = {1}
    MaximumFetchRetries = 2
    MaximumGasPrice = 2
    GasPriceMultiplier = 2
    MaxCount = 1
    AllowDelta = 1
    MaxBlocks = 3
    GrowingChains = {"eth-client"}
    MaxStarts = 2
    MaxFaults = 1
    RestApiOn = TRUE
SPECIFICATION ProcessSpec
INVARIANTS ServicesTypeOK CloseIsComplete NoOutdatedPrice
PROPERTIES RestartKeepsMetrics PriceComesBack StuckChainIsReported
CHECK_DEADLOCK FALSE
