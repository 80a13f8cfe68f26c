SPECIFICATION Spec
CONSTANTS
    sudo = sudo  alice = alice  bob = bob
    None = None
    Member = {sudo, alice, bob}
    SudoKey = sudo
    Leaf <- Leaves
    MaxHops = 2
    MaxGrants = 2
    Nobody = Nobody
    User = User
    Program <- Programs
    Amount = {1, 3}
    XcmFee = 1
    MaxHeld = 4
    MaxInFlight = 1
    CollectionId = {c1, c2}
    ItemId = {i1, i2}
    NoCount = NoCount
    NoBlock = NoBlock
    Weights <- ExtrinsicWeights
    Absent = Absent
    Commands = {"build-spec", "purge-chain", "export-genesis-wasm", "export-state", "import-blocks", "revert"}
    ChainArg = {"", "dev", "pop-paseo", "pop-network"}
    RelayArg = {"", "rococo-local"}
    MaxFiles = 2
    MaxHeight = 4
INVARIANTS
    TypeOK
    NoEscalation
    Backed
    BlockRoom
    MigrationExact
    RightRuntime
    CollatorSafe
