SPECIFICATION Spec
CHECK_DEADLOCK FALSE
SYMMETRY TradingSymmetry
CONSTANTS
    a1 = a1  a2 = a2  a3 = a3  a4 = a4
    None = None  Root = Root  Forever = Forever
    AccountId = {a1, a2}
    MaxCollectionId = 0
    ItemId = {i1, i2}
    Key = {}
    KeyLen = 1
    U32Max = 2
    Features = {"Trading", "Attributes", "Approvals", "Swaps"}
    CollectionDeposit = 0
    ItemDeposit = 0
    MetadataDepositBase = 0
    AttributeDepositBase = 0
    DepositPerByte = 0
    ApprovalsLimit = 2
    ItemAttributesApprovalsLimit = 2
    MaxDeadlineDuration = 1
    Callers <- TradingCallers
    InitialFree = 1
    Configs <- TradingConfigs
    ItemConfigs = {}
    MintSettingsArgs = {}
    MaxSupplies = {}
    LockSettings = {}
    Lengths = {}
    Prices = {1}
    Durations = {0}
    MintData = {}
    ForceKeys = {}
    MaxBlock = 2
INVARIANTS
    TypeOK
    OwnerIndexExact
    OffersNeedItem
PROPERTIES
    MovesAreSettled
    OffersEndWithOwnership
