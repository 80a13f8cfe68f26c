SPECIFICATION Spec
CHECK_DEADLOCK FALSE
CONSTANTS
    a1 = a1  a2 = a2  a3 = a3  a4 = a4
    None = None  Root = Root  Forever = Forever
    AccountId = {a1, a2}
    MaxCollectionId = 0
    ItemId = {1}
    Key = {k1}
    KeyLen = 1
    U32Max = 2
    Features = {"Trading", "Attributes", "Approvals", "Swaps"}
    CollectionDeposit = 4
    ItemDeposit = 2
    MetadataDepositBase = 1
    AttributeDepositBase = 1
    DepositPerByte = 1
    ApprovalsLimit = 2
    ItemAttributesApprovalsLimit = 2
    MaxDeadlineDuration = 1
    Callers <- AttributesCallers
    InitialFree = 9
    Configs <- AttributesConfigs
    ItemConfigs = {}
    MintSettingsArgs = {}
    MaxSupplies = {}
    LockSettings = {}
    Lengths = {1}
    Prices = {}
    Durations = {}
    MintData = {}
    ForceKeys = {}
    MaxBlock = 1
INVARIANTS
    ReservesExact
    OwnerDepositExact
