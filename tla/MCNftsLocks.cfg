SPECIFICATION Spec
CHECK_DEADLOCK FALSE
CONSTANTS
    a1 = a1  a2 = a2  a3 = a3  a4 = a4
    None = None  Root = Root  Forever = Forever
    AccountId = {a1}
    MaxCollectionId = 0
    ItemId = {1}
    Key = {k1}
    KeyLen = 1
    U32Max = 2
    Features = {"Trading", "Attributes", "Approvals", "Swaps"}
    CollectionDeposit = 0
    ItemDeposit = 0
    MetadataDepositBase = 0
    AttributeDepositBase = 0
    DepositPerByte = 0
    ApprovalsLimit = 2
    ItemAttributesApprovalsLimit = 2
    MaxDeadlineDuration = 1
    Callers <- LocksCallers
    InitialFree = 0
    Configs <- LocksConfigs
    ItemConfigs <- LocksItemConfigs
    MintSettingsArgs <- LocksMintSettingsArgs
    MaxSupplies = {0, 1}
    LockSettings <- LocksLockSettings
    Lengths = {1}
    Prices = {}
    Durations = {1}
    MintData <- LocksMintData
    ForceKeys = {}
    MaxBlock = 1
INVARIANTS
    SupplyCapped
PROPERTIES
    ItemLocksFinal
    CollectionLocksFinal
