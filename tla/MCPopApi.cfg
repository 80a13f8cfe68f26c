SPECIFICATION Spec
CONSTANTS
    user = user  other = other  contract = contract  requester = requester  nobody = nobody
    token = token
    None = None
    Chain = "testnet"
    AccountId = {user, other, contract, requester, nobody}
    Provided = {user, other, contract, requester}
    TokenId = {token}
    BalanceMax = 2
    ExistentialDeposit = 1
    AssetDeposit = 2
    ApprovalDeposit = 1
    MetadataDepositBase = 1
    StringLimit = 2
    Contract = contract
    Token = token
    Requester = requester
    Caller = {user, other}
    Message <- Messages
    Requests <- RawRequests
    Extrinsic <- Extrinsics
    GasLimit = {3, 12}
    InitialFree <- Funds
INVARIANTS
    TypeOK
    DepositsExact
    WorkPaid
    LoweringSucceeds
    StatusTrue
    EventsTrue
    FailuresLeaveNoTrace
PROPERTIES
    ActsForItself
    ImplementsPsp22
    CallsEnd
