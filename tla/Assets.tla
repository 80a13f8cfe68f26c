------------------------------- MODULE Assets -------------------------------
(***************************************************************************)
(* pallet-assets (instance TrustBackedAssets) as the fungibles pallet uses *)
(* it.  It is not part of this repository: its operations are modelled     *)
(* from their uses, and their errors from the repository's own integration *)
(* tests (pop-api/integration-tests/src/fungibles).                        *)
(*                                                                         *)
(* A ledger l holds the storage of the pallet and the native balances its  *)
(* deposits are reserved in.  An operation takes a ledger and returns the  *)
(* ledger it leaves and the DispatchError it returned, or None.  It may    *)
(* return an error after it has written: undoing those writes is left to   *)
(* the storage layer of the dispatched call.                               *)
(*                                                                         *)
(* The freezing of accounts and tokens, which the fungibles API cannot     *)
(* reach, is left out.                                                     *)
(***************************************************************************)
EXTENDS Balances, StatusCodes, FiniteSetsExt

CONSTANTS
    AccountId,                      \* the accounts of the chain
    Provided,                       \* those that have a provider, and so may hold a token
    TokenId,                        \* the ids tokens may have
    BalanceMax,                     \* the largest Balance (u128::MAX)
    ExistentialDeposit, AssetDeposit, ApprovalDeposit, MetadataDepositBase,
    StringLimit                     \* the longest name or symbol

ASSUME AssetsAssumption ==
    /\ BalanceMax \in Nat /\ ExistentialDeposit \in Nat
    /\ AssetDeposit \in Nat /\ ApprovalDeposit \in Nat /\ MetadataDepositBase \in Nat
    /\ StringLimit \in Nat
    /\ Provided \subseteq AccountId
    /\ None \notin Nat /\ None \notin AccountId
    /\ IsFiniteSet(AccountId) /\ IsFiniteSet(TokenId)

Option(S) == S \cup {None}
Balance == 0..BalanceMax

AssetDetails == [owner : AccountId, admin : AccountId, supply : Balance, min_balance : Balance,
                 status : {"Live", "Destroying"}]

\* A name and a symbol are represented by their lengths.
AssetMetadata == [name : Nat, symbol : Nat, decimals : Nat]

Ledger == [asset    : [TokenId -> Option(AssetDetails)],
           account  : [TokenId -> [AccountId -> Balance]],
           approval : [TokenId -> [AccountId -> [AccountId -> Option(Balance)]]],
           metadata : [TokenId -> Option(AssetMetadata)],
           bal      : BalanceSheet(AccountId)]

\* Option::None is none of the values of these types.
ASSUME OptionAssumption ==
    /\ None \notin AssetDetails /\ None \notin AssetMetadata /\ None \notin DispatchErrors

Ok(l) == [ledger |-> l, error |-> None]
Err(l, error) == [ledger |-> l, error |-> error]

\* The errors of pallet-assets, by their indices.
BalanceLow == ModuleError(ASSETS, 0)
NoAccount == ModuleError(ASSETS, 1)
NoPermission == ModuleError(ASSETS, 2)
Unknown == ModuleError(ASSETS, 3)
InUse == ModuleError(ASSETS, 5)
MinBalanceZero == ModuleError(ASSETS, 7)
BadMetadata == ModuleError(ASSETS, 9)
Unapproved == ModuleError(ASSETS, 10)
AssetNotLive == ModuleError(ASSETS, 16)
IncorrectStatus == ModuleError(ASSETS, 17)

\* Reserving more than an account has fails in pallet-balances; reserving what only the
\* existential deposit would cover fails on the account's references.
ReserveError(l, who, amount) ==
    CASE CanReserve(l.bal, who, amount) -> None
      [] ~ CanReserve(l.bal, who, amount) /\ amount <= l.bal.free[who] + ExistentialDeposit ->
            DispatchError("ConsumerRemaining")
      [] OTHER -> ModuleError(BALANCES, 2)
-----------------------------------------------------------------------------
(* Inspection *)

Live(l, t) == l.asset[t] # None /\ l.asset[t].status = "Live"

\* What is wrong with a token that must exist and be live.
LiveError(l, t) ==
    IF l.asset[t] = None THEN Unknown ELSE IF Live(l, t) THEN None ELSE AssetNotLive

total_supply(l, t) == IF l.asset[t] = None THEN 0 ELSE l.asset[t].supply
balance(l, t, a) == l.account[t][a]
allowance(l, t, owner, spender) ==
    IF l.approval[t][owner][spender] = None THEN 0 ELSE l.approval[t][owner][spender]

\* An account that holds less than min_balance is removed: what would be left of it is
\* dust, and leaves the account together with the amount.
Dust(l, t, a, amount) ==
    LET rest == l.account[t][a] - amount IN IF rest < l.asset[t].min_balance THEN rest ELSE 0

\* can_increase: an account that does not exist yet must get min_balance, and needs a
\* provider.
IncreaseError(l, t, a, amount) ==
    IF l.account[t][a] + amount > BalanceMax THEN NestedError("Arithmetic", "Overflow")
    ELSE IF l.account[t][a] > 0 THEN None
    ELSE IF amount < l.asset[t].min_balance THEN NestedError("Token", "BelowMinimum")
    ELSE IF a \notin Provided THEN NestedError("Token", "CannotCreate")
    ELSE None
-----------------------------------------------------------------------------
(* Balances of a token *)

\* Balances m after n has gone from one account to another.
Shifted(m, from, to, n) == [m EXCEPT ![from] = @ - n, ![to] = @ + n]

\* transfer_and_die.  With keep_alive the sender must keep min_balance, otherwise the
\* recipient also gets the dust.
Move(l, t, from, to, amount, keep_alive) ==
    LET reducible == SatSub(l.account[t][from], IF keep_alive THEN l.asset[t].min_balance ELSE 0)
        debit     == amount + Dust(l, t, from, amount)
        increase  == IncreaseError(l, t, to, debit)
    IN  IF amount = 0 THEN Ok(l)
        ELSE IF LiveError(l, t) # None THEN Err(l, LiveError(l, t))
        ELSE IF l.account[t][from] = 0 THEN Err(l, NoAccount)
        ELSE IF reducible < amount THEN Err(l, BalanceLow)
        ELSE IF increase # None THEN Err(l, increase)
        ELSE IF from = to THEN Ok(l)
        ELSE Ok([l EXCEPT !.account[t] = Shifted(@, from, to, debit)])

assets_transfer_keep_alive(l, origin, t, to, amount) == Move(l, t, origin, to, amount, TRUE)

\* The approval is spent by amount, whatever dust went along; at zero it is removed and
\* its deposit released.
assets_transfer_approved(l, origin, t, owner, to, amount) ==
    LET moved     == Move(l, t, owner, to, amount, FALSE)
        remaining == allowance(l, t, owner, origin) - amount
    IN  IF LiveError(l, t) # None THEN Err(l, LiveError(l, t))
        ELSE IF l.approval[t][owner][origin] = None \/ remaining < 0 THEN Err(l, Unapproved)
        ELSE IF moved.error # None THEN moved
        ELSE IF remaining = 0
             THEN Ok([moved.ledger EXCEPT !.approval[t][owner][origin] = None,
                                          !.bal = Unreserve(@, owner, ApprovalDeposit)])
             ELSE Ok([moved.ledger EXCEPT !.approval[t][owner][origin] = remaining])

\* approve_transfer ADDS to an approval; only a new one costs a deposit.
assets_approve_transfer(l, origin, t, delegate, amount) ==
    LET new     == l.approval[t][origin][delegate] = None
        deposit == IF new THEN ApprovalDeposit ELSE 0
        reserve == ReserveError(l, origin, deposit)
    IN  IF LiveError(l, t) # None THEN Err(l, LiveError(l, t))
        ELSE IF reserve # None THEN Err(l, reserve)
        ELSE Ok([l EXCEPT !.approval[t][origin][delegate] =
                              Lesser(allowance(l, t, origin, delegate) + amount, BalanceMax),
                          !.bal = Reserve(@, origin, deposit)])

assets_cancel_approval(l, origin, t, delegate) ==
    IF LiveError(l, t) # None THEN Err(l, LiveError(l, t))
    ELSE IF l.approval[t][origin][delegate] = None THEN Err(l, Unknown)
    ELSE Ok([l EXCEPT !.approval[t][origin][delegate] = None,
                      !.bal = Unreserve(@, origin, ApprovalDeposit)])

assets_mint(l, origin, t, to, amount) ==
    IF amount = 0 THEN Ok(l)
    ELSE IF l.asset[t] = None THEN Err(l, NestedError("Token", "UnknownAsset"))
    ELSE IF l.asset[t].supply + amount > BalanceMax
         THEN Err(l, NestedError("Arithmetic", "Overflow"))
    ELSE IF IncreaseError(l, t, to, amount) # None THEN Err(l, IncreaseError(l, t, to, amount))
    ELSE IF ~ Live(l, t) THEN Err(l, AssetNotLive)
    ELSE IF l.asset[t].admin # origin THEN Err(l, NoPermission)
    ELSE Ok([l EXCEPT !.account[t][to] = @ + amount, !.asset[t].supply = @ + amount])

\* burn takes what there is, up to amount, and the dust.
assets_burn(l, origin, t, from, amount) ==
    LET actual == Lesser(amount, l.account[t][from])
        debit  == actual + Dust(l, t, from, actual)
    IN  IF l.asset[t] = None THEN Err(l, Unknown)
        ELSE IF ~ Live(l, t) THEN Err(l, IncorrectStatus)
        ELSE IF amount = 0 THEN Ok(l)
        ELSE IF l.account[t][from] = 0 THEN Err(l, NoAccount)
        ELSE IF l.asset[t].admin # origin THEN Err(l, NoPermission)
        ELSE Ok([l EXCEPT !.account[t][from] = @ - debit, !.asset[t].supply = @ - debit])
-----------------------------------------------------------------------------
(* Tokens and their metadata *)

assets_create(l, origin, t, admin, min_balance) ==
    LET reserve == ReserveError(l, origin, AssetDeposit)
        details == [owner |-> origin, admin |-> admin, supply |-> 0, min_balance |-> min_balance,
                    status |-> "Live"]
    IN  IF l.asset[t] # None THEN Err(l, InUse)
        ELSE IF min_balance = 0 THEN Err(l, MinBalanceZero)
        ELSE IF reserve # None THEN Err(l, reserve)
        ELSE Ok([l EXCEPT !.asset[t] = details, !.bal = Reserve(@, origin, AssetDeposit)])

assets_start_destroy(l, origin, t) ==
    IF l.asset[t] = None THEN Err(l, Unknown)
    ELSE IF l.asset[t].owner # origin THEN Err(l, NoPermission)
    ELSE Ok([l EXCEPT !.asset[t].status = "Destroying"])

assets_set_metadata(l, origin, t, name, symbol, decimals) ==
    LET old     == IF l.metadata[t] = None THEN 0 ELSE MetadataDepositBase
        reserve == ReserveError(l, origin, MetadataDepositBase - old)
        record  == [name |-> name, symbol |-> symbol, decimals |-> decimals]
    IN  IF name > StringLimit \/ symbol > StringLimit THEN Err(l, BadMetadata)
        ELSE IF LiveError(l, t) # None THEN Err(l, LiveError(l, t))
        ELSE IF l.asset[t].owner # origin THEN Err(l, NoPermission)
        ELSE IF reserve # None THEN Err(l, reserve)
        ELSE Ok([l EXCEPT !.metadata[t] = record,
                          !.bal = Reserve(@, origin, MetadataDepositBase - old)])

assets_clear_metadata(l, origin, t) ==
    IF LiveError(l, t) # None THEN Err(l, LiveError(l, t))
    ELSE IF l.asset[t].owner # origin THEN Err(l, NoPermission)
    ELSE IF l.metadata[t] = None THEN Err(l, Unknown)
    ELSE Ok([l EXCEPT !.metadata[t] = None, !.bal = Unreserve(@, origin, MetadataDepositBase)])

\* destroy_accounts, destroy_approvals and finish_destroy, which anyone may call, until
\* nothing is left of a token whose destruction has started.
Approvals(l, t) ==
    {p \in AccountId \X AccountId : l.approval[t][p[1]][p[2]] # None}

assets_destroy(l, t) ==
    LET refund == [a \in AccountId |->
            ApprovalDeposit * Cardinality({p \in Approvals(l, t) : p[1] = a})
            + (IF l.asset[t].owner = a
               THEN AssetDeposit + (IF l.metadata[t] = None THEN 0 ELSE MetadataDepositBase)
               ELSE 0)]
    IN  IF l.asset[t] = None THEN Err(l, Unknown)
        ELSE IF Live(l, t) THEN Err(l, IncorrectStatus)
        ELSE Ok([l EXCEPT !.account[t] = [a \in AccountId |-> 0],
                          !.approval[t] = [a \in AccountId |-> [b \in AccountId |-> None]],
                          !.asset[t] = None,
                          !.metadata[t] = None,
                          !.bal = UnreserveAll(@, refund)])
=============================================================================
