SPECIFICATION MoneySpec
CONSTANTS
    Ids = {d1}
    Enclaves = {e1, e2}
    Operators = {o1, o2}
    Users = {u1}
    Deployer = admin
    NoAddr = NoAddr
    NoEnclave = NoEnclave
    Keys = {k1}
    AppRefs = {v1}
    Configs = {c1}
    e1 = e1
    e2 = e2
    o1 = o1
    o2 = o2
    k1 = k1
    PriceChoices = {}
    InitialRegistry <- MCRegistry
    InitialConfig <- MCConfig
    ShareChoices <- MCFullShare
    FeeChoices = {0}
    CapChoices = {3}
    FundAmounts = {4}
    EthCredits = {}
    BpsChoices = {}
    LeaseSecChoices = {}
    BondChoices = {}
    ExitDelayChoices = {}
    CutoverChoices = {}
    MaxGpuChoices = {}
    MaxFeeChoices = {}
    ImportRecords = {}
    MaxTime = 4
    MaxFunded = 8
    MaxEscrow = 6
    MaxBond = 0
PROPERTIES
    SweepSparesClaimable
