SPECIFICATION MarketSpec
CONSTANTS
    Ids = {d1}
    Enclaves = {e1, e2}
    Operators = {o1, o2}
    Users = {u1}
    Deployer = admin
    NoAddr = NoAddr
    NoEnclave = NoEnclave
    Keys = {k1}
    AppRefs = {v1}
    Configs = {c1}
    e1 = e1
    e2 = e2
    o1 = o1
    o2 = o2
    k1 = k1
    PriceChoices = {}
    InitialRegistry <- MCRegistry
    InitialConfig <- MCSwitchConfig
    ShareChoices <- MCTwoShares
    FeeChoices = {1}
    CapChoices = {3}
    FundAmounts = {4}
    EthCredits = {}
    BpsChoices = {}
    LeaseSecChoices = {1}
    BondChoices = {}
    ExitDelayChoices = {}
    CutoverChoices = {3}
    MaxGpuChoices = {}
    MaxFeeChoices = {}
    ImportRecords = {}
    MaxTime = 5
    MaxFunded = 8
    MaxEscrow = 8
    MaxBond = 0
INVARIANTS
    MeterInsideLease
    NoSecondPaidTwice
PROPERTIES
    ImplementsLock
