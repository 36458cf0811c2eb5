SPECIFICATION MCSpec
CONSTANTS
    AskedPowers <- MCPowers
    AskedRates = {250, 1000, 2000}
    AskedCrcs = {0, 8, 16}
    AskedFrequencies = {2400, 2525}
    AskedSizes = {0, 32}
    AskedAddresses <- MCAddresses
    AskedWidths = {3, 5}
    AddressedPipes = {0, 1, 2}
    SwitchedPipes = {0, 1}
    AskedDelays = {5, 31}
INVARIANTS
    TypeOK
    SettingsAsAsked
    AddressesAsAsked
    PipesAsAsked
