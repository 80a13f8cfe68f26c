SPECIFICATION Spec
CHECK_DEADLOCK FALSE
CONSTANTS
    a1 = a1  a2 = a2  a3 = a3  a4 = a4
    None = None  Root = Root  Forever = Forever
    AccountId = {a1, a2}
    MaxCollectionId = 1
    ItemId = {1, 2}
    Key = {}
    KeyLen = 1
    U32Max = 4
    Features = {"Trading", "Attributes", "Approvals", "Swaps"}
    CollectionDeposit = 0
    ItemDeposit = 0
    MetadataDepositBase = 0
    AttributeDepositBase = 0
    DepositPerByte = 0
    ApprovalsLimit = 2
    ItemAttributesApprovalsLimit = 2
    MaxDeadlineDuration = 1
    Callers <- ClaimsCallers
    InitialFree = 0
    Configs <- ClaimsConfigs
    ItemConfigs = {}
    MintSettingsArgs = {}
    MaxSupplies = {}
    LockSettings = {}
    Lengths = {}
    Prices = {}
    Durations = {}
    MintData = {}
    ForceKeys = {}
    MaxBlock = 1
INVARIANTS
    ClaimsBacked
