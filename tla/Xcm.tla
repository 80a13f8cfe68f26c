-------------------------------- MODULE Xcm --------------------------------
(***************************************************************************)
(* Cross-consensus messages: what the XCM configuration of the runtimes    *)
(* lets other chains and local accounts do to the native token, which is   *)
(* the relay chain's, held in reserve by the relay chain and by Asset Hub. *)
(*                                                                         *)
(* A program is a sequence of instructions [op, n, at, call]: an amount, a *)
(* destination or origin kind, and the call of a Transact.  The executor   *)
(* runs one instruction a step; nothing else happens in between.           *)
(***************************************************************************)
EXTENDS RuntimeCalls, Sequences, Functions

CONSTANTS Nobody,        \* no program is being executed
          User,          \* a local account
          Program,       \* the programs other chains and accounts send
          Amount,        \* the amounts that are sent
          XcmFee,        \* what BuyExecution takes
          MaxHeld,       \* bound: what the reserves hold for this chain
          MaxInFlight    \* bound: messages under way, each direction

\* An instruction; the last two fields are read by those that need them.
OriginKind == {"SovereignAccount", "Native", "Xcm", "Superuser"}
Instruction == [op : STRING, n : Nat, at : STRING \cup {User}, call : STRING]

ASSUME XcmAssumption ==
    /\ Amount \subseteq Nat \ {0} /\ XcmFee \in Nat
    /\ MaxHeld \in Nat /\ MaxInFlight \in Nat
    /\ \A p \in Program :
          /\ p \in Seq(Instruction) /\ p # <<>>
          /\ \A i \in DOMAIN p : p[i].op = "Transact" => p[i].at \in OriginKind

VARIABLES balance,       \* the native token here, by account
          held,          \* what the reserves hold for this chain
          inbox,         \* messages to this chain, in order for each sender
          outbox,        \* messages from this chain
          exec,          \* the program being executed: origin, rest, holding, fee
          trapped        \* PolkadotXcm's asset trap: origin and amount of each entry, a count

Reserve == {"Relay", "AssetHub"}
Chain == Reserve \cup {"RelayExecutive", "Sibling"}
Location == Chain \cup {User}
Holder == {"Relay", "AssetHub", "Sibling", "author", "sudo", User}

\* The state of the executor while it runs a program.
Execution == [origin : Location, rest : Seq(Instruction), holding : Nat, fee : Nat]

\* A local account is no chain and no origin of another kind, and Nobody is neither an
\* account nor a program in execution.
ASSUME NobodyAssumption ==
    /\ User \notin Chain \cup {"Root", "NativeOrigin", "XcmOrigin"}
    /\ Nobody \notin Location \cup {"NativeOrigin", "XcmOrigin"} /\ Nobody \notin Execution

\* LocationToAccountId: the relay chain, siblings and local accounts have one.
LocationToAccountId(l) == IF l = "RelayExecutive" THEN Nobody ELSE l

\* TrustedReserves: NativeAsset takes an asset from its own location, NativeAssetFrom
\* the relay chain's from Asset Hub.  IsTeleporter is ().
NativeAsset(l) == l = "Relay"
NativeAssetFrom(l) == l = "AssetHub"

\* A bug: any sibling parachain is taken for a reserve.
IsReserveSiblings(l) == l \in {"Relay", "AssetHub", "Sibling"}
IsReserve(l) == NativeAsset(l) \/ NativeAssetFrom(l)
IsTeleporter(l) == FALSE

\* XcmOriginToTransactDispatchOrigin: the origin of a Transact, by its kind.  There is
\* no converter for the kind Superuser.
XcmOriginToTransactDispatchOrigin(l, kind) ==
    CASE kind = "SovereignAccount" -> LocationToAccountId(l)
      [] kind = "Native" -> IF l = User THEN User ELSE IF l = "RelayExecutive" THEN Nobody
                                                 ELSE "NativeOrigin"
      [] kind = "Xcm" -> "XcmOrigin"
      [] kind = "Superuser" -> Nobody

\* The configuration of each runtime: who executes without paying, whose subscriptions
\* are taken, whether PolkadotXcm.execute works, and who receives the fees.
DevnetXcm == [unpaid |-> {"Relay", "RelayExecutive"}, subscriptions |-> {},
              execute |-> TRUE, fees |-> "author"]
TestnetXcm == [unpaid |-> {"Relay", "RelayExecutive"}, subscriptions |-> {},
               execute |-> TRUE, fees |-> "author"]
MainnetXcm == [unpaid |-> {}, subscriptions |-> {"Relay", "AssetHub", "Sibling"},
               execute |-> FALSE, fees |-> "sudo"]
XcmConfig == [devnet |-> DevnetXcm, testnet |-> TestnetXcm, mainnet |-> MainnetXcm]

\* Barrier, for a message from another chain.  There are no queries whose response
\* AllowKnownQueryResponses would know.
Barrier(rt, l, p) ==
    \/ /\ Len(p) >= 2
       /\ p[1].op \in {"ReserveAssetDeposited", "ReceiveTeleportedAsset", "WithdrawAsset",
                       "ClaimAsset"}
       /\ p[2].op = "BuyExecution"
    \/ p[1].op = "UnpaidExecution" /\ l \in XcmConfig[rt].unpaid
    \/ Len(p) = 1 /\ p[1].op = "SubscribeVersion" /\ l \in XcmConfig[rt].subscriptions
-----------------------------------------------------------------------------
xcmVars == <<balance, held, inbox, outbox, exec, trapped>>

\* Genesis gives nobody a balance.
XcmInit ==
    /\ balance = [a \in Holder |-> 0]
    /\ held = [r \in Reserve |-> 0]
    /\ inbox = [c \in Chain |-> <<>>]
    /\ outbox = <<>>
    /\ exec = Nobody
    /\ trapped = [l \in Location |-> [n \in 1..MaxHeld |-> 0]]

\* Messages arrive and leave between blocks, and a program is executed within one.
BetweenBlocks == exec = Nobody

InFlight == SumFunction([c \in Chain |-> Len(inbox[c])])

\* The places where a program announces a deposit with the sender.
Announced(p) == {i \in DOMAIN p : p[i].op = "ReserveAssetDeposited"}

\* A reserve takes n from one of its accounts, holds it for this chain and says so, once.
ReserveSends(r, n, p) ==
    /\ BetweenBlocks
    /\ SumFunction(held) + n <= MaxHeld /\ InFlight < MaxInFlight
    /\ Announced(p) = {1} /\ p[1].n = n
    /\ held' = [held EXCEPT ![r] = @ + n]
    /\ inbox' = [inbox EXCEPT ![r] = Append(@, p)]
    /\ UNCHANGED <<balance, outbox, exec, trapped>>

\* Any chain sends any program; only the reserves' word on deposits can be trusted.
ForeignSends(c, p) ==
    /\ BetweenBlocks
    /\ InFlight < MaxInFlight
    /\ c \in Reserve => Announced(p) = {}
    /\ inbox' = [inbox EXCEPT ![c] = Append(@, p)]
    /\ UNCHANGED <<balance, held, outbox, exec, trapped>>

Started(l, p) == [origin |-> l, rest |-> p, holding |-> 0, fee |-> 0]

\* MessageQueue hands the next message of c to the executor, or the barrier refuses it.
Deliver(rt, c) ==
    /\ exec = Nobody /\ inbox[c] # <<>> /\ Len(outbox) < MaxInFlight
    /\ inbox' = [inbox EXCEPT ![c] = Tail(@)]
    /\ exec' = IF Barrier(rt, c, Head(inbox[c])) THEN Started(c, Head(inbox[c])) ELSE Nobody
    /\ UNCHANGED <<balance, held, outbox, trapped>>

\* PolkadotXcm.execute by a local account, behind XcmExecuteFilter; the weight is paid
\* for (TakeWeightCredit).
execute(rt, p) ==
    /\ exec = Nobody /\ XcmConfig[rt].execute /\ Len(outbox) < MaxInFlight
    /\ balance[User] > 0
    /\ exec' = Started(User, p)
    /\ UNCHANGED <<balance, held, inbox, outbox, trapped>>

\* PolkadotXcm.limited_reserve_transfer_assets to dest: the reserve is dest when
\* IsReserve says so, otherwise the relay chain; the amount is withdrawn here.
reserve_transfer_assets(dest, n) ==
    /\ exec = Nobody /\ balance[User] >= n /\ Len(outbox) < MaxInFlight
    /\ balance' = [balance EXCEPT ![User] = @ - n]
    /\ outbox' = Append(outbox, [to |-> IF IsReserve(dest) THEN dest ELSE "Relay", n |-> n,
                                 op |-> "WithdrawAsset"])
    /\ UNCHANGED <<held, inbox, exec, trapped>>

\* The receiver of the next message from here: a reserve gives the amount back when it
\* holds that much for this chain, and nobody trusts a teleport from here.
RemoteReceives ==
    /\ BetweenBlocks
    /\ outbox # <<>>
    /\ LET m == Head(outbox)
       IN  held' = IF m.op = "WithdrawAsset" /\ m.to \in Reserve /\ held[m.to] >= m.n
                   THEN [held EXCEPT ![m.to] = @ - m.n] ELSE held
    /\ outbox' = Tail(outbox)
    /\ UNCHANGED <<balance, inbox, exec, trapped>>
-----------------------------------------------------------------------------
\* The executor.  Each instruction is transactional: it succeeds, or the program stops
\* and what is in the holding register is trapped.
Running(op) == exec # Nobody /\ exec.rest # <<>> /\ Head(exec.rest).op = op
Continue(holding, fee) ==
    [origin |-> exec.origin, rest |-> Tail(exec.rest), holding |-> holding, fee |-> fee]

Put(n) ==
    IF n = 0 THEN trapped ELSE [trapped EXCEPT ![exec.origin][n] = @ + 1]

\* The end, by an error or not: the fee goes to whom it is due, the rest is trapped.
EndProgram(rt) ==
    /\ balance' = [balance EXCEPT ![XcmConfig[rt].fees] = @ + exec.fee]
    /\ trapped' = Put(exec.holding)
    /\ exec' = Nobody
    /\ UNCHANGED <<held, inbox, outbox>>

Completed(rt) == exec # Nobody /\ exec.rest = <<>> /\ EndProgram(rt)

WithdrawAsset(rt) ==
    /\ Running("WithdrawAsset")
    /\ LET a == LocationToAccountId(exec.origin)
           n == Head(exec.rest).n
       IN  IF a # Nobody /\ balance[a] >= n
           THEN /\ balance' = [balance EXCEPT ![a] = @ - n]
                /\ exec' = Continue(exec.holding + n, exec.fee)
                /\ UNCHANGED <<held, inbox, outbox, trapped>>
           ELSE EndProgram(rt)

\* Assets from another chain: from a reserve into the holding register, by teleport from
\* nobody.
AssetReceived(rt) ==
    \/ /\ Running("ReserveAssetDeposited")
       /\ IF IsReserve(exec.origin)
          THEN /\ exec' = Continue(exec.holding + Head(exec.rest).n, exec.fee)
               /\ UNCHANGED <<balance, held, inbox, outbox, trapped>>
          ELSE EndProgram(rt)
    \/ Running("ReceiveTeleportedAsset") /\ ~ IsTeleporter(exec.origin) /\ EndProgram(rt)

ClaimAsset(rt) ==
    /\ Running("ClaimAsset")
    /\ LET n == Head(exec.rest).n
       IN  IF n \in DOMAIN trapped[exec.origin] /\ trapped[exec.origin][n] > 0
           THEN /\ trapped' = [trapped EXCEPT ![exec.origin][n] = @ - 1]
                /\ exec' = Continue(exec.holding + n, exec.fee)
                /\ UNCHANGED <<balance, held, inbox, outbox>>
           ELSE EndProgram(rt)

BuyExecution(rt) ==
    /\ Running("BuyExecution")
    /\ IF exec.holding >= XcmFee
       THEN /\ exec' = Continue(exec.holding - XcmFee, exec.fee + XcmFee)
            /\ UNCHANGED <<balance, held, inbox, outbox, trapped>>
       ELSE EndProgram(rt)

\* UnpaidExecution and SubscribeVersion move no asset.
NoAssetMoved ==
    /\ Running("UnpaidExecution") \/ Running("SubscribeVersion")
    /\ exec' = Continue(exec.holding, exec.fee)
    /\ UNCHANGED <<balance, held, inbox, outbox, trapped>>

\* LocalAssetTransactor mints what is deposited.
DepositAsset ==
    /\ Running("DepositAsset")
    /\ balance' = [balance EXCEPT ![Head(exec.rest).at] = @ + exec.holding]
    /\ exec' = Continue(0, exec.fee)
    /\ UNCHANGED <<held, inbox, outbox, trapped>>

\* InitiateReserveWithdraw and InitiateTeleport send away all that is held.
Initiate ==
    /\ Running("InitiateReserveWithdraw") \/ Running("InitiateTeleport")
    /\ LET i == Head(exec.rest)
           op == IF i.op = "InitiateTeleport" THEN "ReceiveTeleportedAsset" ELSE "WithdrawAsset"
       IN  outbox' = Append(outbox, [to |-> i.at, n |-> exec.holding, op |-> op])
    /\ exec' = Continue(0, exec.fee)
    /\ UNCHANGED <<balance, held, inbox, trapped>>

\* Transact: without an origin the program stops; a call that is refused or fails only
\* reports it.  transfer moves 1 to the user, force_set_balance gives the user 1 more.
Transact(rt) ==
    /\ Running("Transact")
    /\ LET i == Head(exec.rest)
           o == XcmOriginToTransactDispatchOrigin(exec.origin, i.at)
       IN  IF o = Nobody THEN EndProgram(rt)
           ELSE /\ balance' =
                    CASE i.call = "transfer" /\ o \in Holder /\ o # User /\ balance[o] > 0 ->
                            [balance EXCEPT ![o] = @ - 1, ![User] = @ + 1]
                      [] i.call = "force_set_balance" /\ o = "Root" ->
                            [balance EXCEPT ![User] = @ + 1]
                      [] OTHER -> balance
                /\ exec' = Continue(exec.holding, exec.fee)
                /\ UNCHANGED <<held, inbox, outbox, trapped>>

ExecutorStep(rt) ==
    \/ Completed(rt)
    \/ WithdrawAsset(rt)
    \/ AssetReceived(rt)
    \/ ClaimAsset(rt)
    \/ BuyExecution(rt)
    \/ NoAssetMoved
    \/ DepositAsset
    \/ Initiate
    \/ Transact(rt)

XcmNext(rt) ==
    \/ \E r \in Reserve, n \in Amount, p \in Program : ReserveSends(r, n, p)
    \/ \E c \in Chain, p \in Program : ForeignSends(c, p)
    \/ \E c \in Chain : Deliver(rt, c)
    \/ \E p \in Program : execute(rt, p)
    \/ \E d \in {"Relay", "AssetHub", "Sibling"}, n \in Amount : reserve_transfer_assets(d, n)
    \/ RemoteReceives
    \/ ExecutorStep(rt)
=============================================================================
