SPECIFICATION BoxSpec
CONSTANTS
    Ids = {d1}
    Enclaves = {e1}
    Operators = {o1, o2}
    Users = {u1}
    Deployer = admin
    NoAddr = NoAddr
    NoEnclave = NoEnclave
    Keys = {k1}
    AppRefs = {v1}
    Configs = {c1}
    e1 = e1
    e2 = e1
    o1 = o1
    o2 = o2
    k1 = k1
    PriceChoices <- MCPrices
    InitialRegistry <- MCEmptyRegistry
    InitialConfig <- MCBondConfig
    ShareChoices <- MCFullShare
    FeeChoices = {0}
    CapChoices = {3}
    FundAmounts = {2}
    EthCredits = {}
    BpsChoices = {10000}
    LeaseSecChoices = {}
    BondChoices = {0, 1}
    ExitDelayChoices = {1, 2}
    CutoverChoices = {}
    MaxGpuChoices = {}
    MaxFeeChoices = {}
    ImportRecords = {}
    MaxTime = 4
    MaxFunded = 4
    MaxEscrow = 6
    MaxBond = 4
INVARIANTS
    RunnerIsRegistered
PROPERTIES
    BondOutlivesClaim
