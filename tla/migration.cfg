SPECIFICATION MigrationSpec
CONSTANTS
    Ids = {d1}
    Enclaves = {e2}
    Operators = {o2}
    Users = {o2}
    Deployer = admin
    NoAddr = NoAddr
    NoEnclave = NoEnclave
    Keys = {k1}
    AppRefs = {v1}
    Configs = {c1}
    e1 = e2
    e2 = e2
    o1 = o2
    o2 = o2
    k1 = k1
    PriceChoices = {}
    InitialRegistry <- MCRegistry
    InitialConfig <- MCMigrationConfig
    ShareChoices <- MCTwoShares
    FeeChoices = {1}
    CapChoices = {2}
    FundAmounts = {2}
    EthCredits = {1}
    BpsChoices = {5000}
    LeaseSecChoices = {1}
    BondChoices = {2}
    ExitDelayChoices = {1}
    CutoverChoices = {2}
    MaxGpuChoices = {1000}
    MaxFeeChoices = {1}
    ImportRecords <- MCImports
    MaxTime = 3
    MaxFunded = 4
    MaxEscrow = 3
    MaxBond = 2
PROPERTIES
    ImplementsTreasury
