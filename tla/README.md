# A TLA+ verification of pop-node

This directory holds TLA+ specifications of the Pop parachain node's own logic, TLC configurations
that check them on small instances, and TLAPS proofs that hold for every instance. `src/` below is
the repository; `PROJECT.json` records, for every definition, the lines it translates, and for every
property the run that checks it and a mutation of the code that the run rejects.

It covers three systems that share little state and are specified apart:

- **pallet-nfts**: every dispatchable, with its deposits, roles, locks, trades and approvals;
- **the fungibles API**, from a contract's message through pop-api, the chain extension and its
  versioning, to the fungibles pallet and the ledger of pallet-assets;
- **the node and what the runtimes configure**: start and commands of the collator, block production
  and block weights, proxies and call filters, cross-consensus messages, the storage migration.

## 1. Inventory

| Component | State it keeps | Operations | Interacts with |
|---|---|---|---|
| pallet-nfts (`src/pallets/nfts`) | 15 storage maps: collections, items, configs, roles, owner indexes, metadata, attributes, prices, swaps, approvals, ownership acceptances | 39 dispatchables, the `nonfungibles` traits, the migration to storage version 1 | currency (reserve, unreserve, repatriate, transfer), `frame_system` consumer references, block number; pallet-nft-fractionalization through the traits |
| fungibles pallet (`src/pallets/api/src/fungibles`) | none of its own; allowances and balances live in pallet-assets | transfer, transfer_from, approve, increase/decrease_allowance, create, start_destroy, set/clear_metadata, mint, burn, reads | issues one or two pallet-assets calls per call, reports what weight it used |
| chain extension (`src/extension`) | none | match a function, charge weight, decode, filter, dispatch or read, adjust weight, convert, write the output | pallet-contracts calls it, it calls the runtime |
| api extension, versioning (`src/pallets/api/src/extension.rs`, `src/runtime/*/src/config/api`, `src/primitives`) | none | identify a function and its version, filter calls and reads, convert errors into status codes | chain extension |
| pop-api (`src/pop-api`) | none | build function ids, decode status codes into errors | contracts on one side, the extension on the other |
| example contracts (`src/pop-api/examples`) | the contract's owner | the PSP22 messages of the fungible token contract | pop-api |
| runtimes (`src/runtime`) | composition and parameters | base call filter, proxy types, XCM barrier, reserves, origins, fees; block weights | all pallets |
| node (`src/node`) | the databases and specification files on disk, the running process | command line, chain specifications, subcommands, the start of the service | Substrate and Cumulus services, the relay chain |

What is hard here is seldom parallelism: the transactions of a block run one after the other, and a
failing one is rolled back. It is

- the **interleaving of calls of different accounts**: a buyer, a delegate, a new owner or root acts
  on a state that somebody else's call has changed since it was looked at, or signed. Prices, swaps,
  approvals, deposits, locks, acceptances, claims, allowances and proxies are all records written in one
  call and relied on in a later one by another account;
- **redundancy**: the same fact is stored in several maps (owner and owner index, items and their
  counters, deposits and `owner_deposit` and the reserved balance), and about forty calls must keep
  all of them in step;
- **partial failure inside one call**: a contract may run out of gas at each of the extension's charges,
  the second of two pallet-assets calls may fail after the first was made, a dispatch may have happened
  before the contract traps. Who undoes what is spread over FRAME's storage layers, pallet-contracts
  and the contract's own `Result`;
- **lossy conversions**: a nested error becomes four bytes of a status code and an enum again, by
  tables that two crates keep separately; function ids, pallet and call indices are constants of two crates;
- **chains of authority**: a proxy of a proxy, in a batch, under sudo; an XCM program run by someone
  whose location is converted into an account or an origin;
- **crashes and restarts**: the process may stop at each step of its start or in the middle of a block,
  and what it finds on disk was written by another invocation, perhaps for another network;
- **boundaries**: deadlines compared with different operators, bounded `clear_prefix` calls, an id
  sequence that wraps around, a token account left below the minimum balance, a full block.

The list `hazards` of `PROJECT.json` names each at its line.

What makes each part correct:

- *collections*: indexes and counters exact; nothing left behind by `destroy`; one holder
  per role; acceptances and consumer references in step; disabled settings stay disabled;
- *items*: supply capped; locks survive burning; offers do not; one claim per item; fractionalized items
  stay put;
- *trading*: an item changes hands only in a completed trade or on its current owner's approval;
- *data and deposits*: what is reserved is exactly what is recorded, and `owner_deposit` what the owner
  paid;
- *fungibles API*: what the chain sees of a contract call is one whole PSP22 operation or nothing; work
  is paid for before it is done; the contract is told what happened; it acts only for itself; every
  call ends;
- *runtimes*: proxies never escalate; the native token stays backed by the reserves; a block keeps room
  for operational extrinsics; the migration counts exactly;
- *node*: it runs the runtime of the database it opened; only an authority that follows the relay chain
  builds, within the unincluded segment.

## 2. Modules

```
Balances                     the currency (external)
   |
NftsStorage                  storage, types, helpers (lib.rs, types.rs)
   |-- NftsCollections       collections, roles, settings, ownership
   |-- NftsItems             mint, burn, transfer, redeposit, locks
   |      |-- NftsTrading    approvals, sales, tips, swaps
   |      `-- NftsData       attributes, metadata, pre-signed calls
   `-- Nfts                  the dispatchables, Next, Spec
          |
       NftsProperties        the properties
          |-- MCNfts         instances for TLC
          `-- NftsTypes -> NftsOwners -> NftsStructure -> NftsActions, NftsDeposits   the proofs

Balances, StatusCodes        the currency; errors and status codes
   |
Assets                       pallet-assets (external)
   |
Fungibles                    the fungibles pallet          RuntimeCalls   pallets, base call filter
   `------------------+----------------------------------------'
                   Extension              chain extension, api extension, versioning
                      |
                   PopApi                 the contract library
                      |
                   FungibleContract       contracts, their users, Next, Spec
                      |
                   PopApiProperties       the properties;  INSTANCE Psp22, what is promised
                      |-- MCPopApi        the instance for TLC
                      `-- PopApiProofs    the proofs

RuntimeCalls -- Proxies      calls in another account's name
             `- Xcm          cross-consensus messages
Blocks                       the weight of a block
Node -> Collator             the executable; block production (with Blocks)
Migration                    the storage migration of pallet-nfts
   all of them -> Network -> NetworkProperties
                                 |-- MCNetwork                       the instance for TLC
                                 `-- NetworkProofs                   the proofs

Sums                         lemmas about sums, for NftsDeposits and NetworkProofs
```

### pallet-nfts

How the state corresponds to the code (`NftsStorage`):

- A storage map is a total function with `None` for "no entry"; a map to `()` is the set of its keys. Variables
  keep the names of the storage items. `bal`, `consumers` and `now` are the parts of pallet-balances
  and frame_system that the pallet uses.
- Byte strings are their lengths, on which deposits depend. `BitFlags` of configs are sets of DISABLED settings, as in the
  code. A deadline `None` of a transfer approval is the constant `Forever`, because `None` means "not approved".
- `u32` counters saturate at `U32Max`, collection ids end at `MaxCollectionId` and then start again, as
  `set_next_collection_id` with `Incrementable` does.
- A currency amount `free` is what can be spent above the existential deposit; every transfer is `KeepAlive`.
- Deposits are compared as sums: `PaidFor` is what an account has on deposit for one record, `DepositedBy` for all
  records of a collection, which is what the two loops of `do_destroy_collection` return.

How actions correspond to it:

- One action per dispatchable (`Nfts`), with the origin check of `lib.rs`, and one definition per handler
  (`do_...` of `features/`), with the handler's checks as guards. A failing call is rolled back by FRAME, so it is
  a stuttering step; successful calls that change nothing are, too.
- `Root` is the `None` that `maybe_check_origin` yields for `ForceOrigin`. A signature of pre-signed data is the
  identity of its signer.
- `do_mint` and `do_transfer` take closures in the code; here they are guards and values that their callers
  combine, evaluated on the state the closure left (`mint` pays before `do_mint` reserves; `claim_swap` moves the
  second item after the first, in the same step).
- `redeposit`, `pay_tips` and the pre-signed calls are modelled with one item, tip or attribute; a call with
  several runs the same handler for each, and the pre-signed mint sets an attribute and then metadata in one step.
- `find_account_by_role` takes any holder of a role: the set `AccountsByRole`. `clear_prefix` with a limit
  clears ANY subset of that size.
- `T::Locker` is `()` in the runtimes and left out. The traits' other operations call the same
  handlers.

### The fungibles API

- `ledger` is one record: the storage of pallet-assets and the native balances its deposits are
  reserved in. An operation of `Assets` or `Fungibles` is a function from a ledger to a ledger and an error,
  and may return an error after it has written: the rollback is the `storage layer` of
  `DispatchCall`, modelled where the code has it. pallet-assets is external: its
  operations are modelled from their uses and from what the integration tests expect of them.
- `frame` is the contract call in progress, with the ledger it started from (`saved`), its gas, and what it
  has spent (`spent`) and caused (`work`); `env` is the extension call in progress. Weights are counted in units:
  one for each operation of pallet-assets, each separate read, and each charge of the
  extension. Every charge is an action, because at each of them gas may be exhausted:
  `ExtensionCall`, `DecodeInput`, `ChargeForDispatch`, `DispatchRuntimeCall`, `ConvertResult`, `ChargeForRead`,
  `ReadRuntimeState`, `WriteOutput`.
- A `u32` status is its four little-endian bytes, as `to_le_bytes` takes it apart. Function and pallet
  indices are stated twice, once as the runtime has them (`CallIndex`, `ReadIndex`, `CallTable`) and once
  as pop-api has them (`ApiDispatchable`, `ApiStateQuery`), so that their agreement is checked and not assumed.
- Two contracts: the example of the repository with all its messages, and one that passes on
  a request of any shape (unknown function, version, module, index, an input that does not decode,
  a buffer that is too small). Users call contracts, with enough gas or too little, and
  the pallet directly.
- `Psp22` says what is promised: tokens with balances and allowances, and whole operations on them.
  The refinement mapping (`Tokens`) takes them from `Committed`, the ledger as it will stay: a call in progress
  counts when it has ended. Deposits, owners and metadata are not part of it: an account's deposits are stated
  by themselves (`Deposits`), as the numbers of its approvals, tokens and metadata times their prices.
- The configurations of devnet and testnet are selected by `Chain`; where the two files are
  identical one definition stands for both, and the map names one of the copies.

### The node and the runtimes

- The parts (`scope.part`) share no state, so that a behaviour is about one of them; `scope.runtime` is the runtime.
- *Proxies*: an extrinsic is dispatched from the outermost call inwards, one wrapper (`proxy`, `batch`, `sudo`)
  a step. An origin is an account with the filters it carries, as `RawOrigin` with `add_filter` does, or Root.
  `granted` is history: the types an account itself once granted; `last` is the call
  dispatched last. A part of the calls are refused (`Refuse`), which is an action of its own.
- *Xcm*: a message is a program; the executor runs one instruction a step. `held` is what the relay
  chain and Asset Hub keep for this chain. Other chains and local accounts send any of the programs,
  honest or not; only the reserves themselves are assumed to keep their books: they announce a deposit after they
  have taken it, once, as the first instruction of the message.
- *Blocks* counts weights, in both dimensions, in twentieths of `MAXIMUM_BLOCK_WEIGHT`. A block begins with its Mandatory
  weight: scheduled calls and messages, each up to its share, and the inherents, without a limit.
- *Node*: `node` is the process (phase, specification, runtime, tasks started), `disk` the databases, the
  exported specification files and what the relay chain has included. Every step of
  `start_node_impl` that can fail or that starts tasks is an action; `Exit` may happen in every phase and leaves only
  the disk. `ismp` is the build feature of that name, with which only the devnet API is implemented.
- *Collator*: a block being built is lost with the process, a sealed one is in the database. Between two runs of the
  collator or of a full node, `import-blocks`, `revert` and `purge-chain` change its database, and with it the count of the
  slot's blocks; the relay chain may include blocks this node does not have (any more).
- *Migration*: the mints, burns and locks of the old and of the new code around `MigrateToV1`.

The operators commented "Mutant" or "A bug" are not part of the model: each is a plausible error in
the definition below it, used to show that a property is able to fail.

## 3. What the runs check

The runs on pallet-nfts use module `MCNfts`. Each of them fixes a set of *clients*: `Callers` says which
origins submit which calls, and `Configs`, `Prices`, `Lengths`, `Durations`, ... the arguments they
choose from. The program itself is the same in all of them. An exhaustive instance with all 41 calls and arguments is out of reach, so
each run contains the calls that can bear on its question, those that could break the property included.

| Run | Question | Instance |
|---|---|---|
| `trading` | Are items moved only in settled trades, do offers end with ownership, does the owner index follow? | 2 accounts, 2 items, 2 blocks, price 1 |
| `delegation` | Does a delegate move an item only on the current owner's approval in force; does a fractionalized item stay? | 3 accounts, 1 item, 3 blocks |
| `governance` | One holder per role; acceptances and consumer references; collection index | 4 accounts (more than `max_roles`), 1 id |
| `attributes` | Is every attribute deposit accounted for? | 2 accounts, 1 item, all namespaces, deposits on and off |
| `structure` | Counters, leftovers of `destroy`, item and metadata deposits, offers of burned items | 2 accounts, ids reused |
| `locks` | Are locks final, is the supply capped? | 1 account in every role, one item burned and minted again |
| `claims` | Does an item claim once? | 2 collections of 2 items, 2 accounts |
| `popApi` | Is what contracts do through the API a sequence of whole PSP22 operations, paid for, truthfully reported, undone on failure and over in the end? | 2 users, 2 contracts, 1 account without provider, 1 token, gas limits 3 and 12, balances up to 2; 280 thousand states |
| `network` | Do proxies, messages, blocks, migration and the collator keep what they must? | 3 accounts, 2 wrappers, 2 collections of 2 items, 3 weights, 2 files, 4 blocks, all three runtimes; 570 thousand states |
| `replacedDeposit`, `delegateRefund`, `swapExpiry` | Findings, section 6 | the shortest instance |

Bounds, and why they are enough for the questions asked:

- *Ids.* With `MaxCollectionId = 0` the id sequence wraps after one collection, so every collection after
  the first one reuses an id: that is the hard case of `destroy`. `claims` needs two collections. Two items are what a
  swap needs; the swap of an item for itself is included.
- *Accounts.* Two parties, and a third one as delegate; four for roles, where the limit is three.
- *Blocks* (`MaxBlock`). With durations 0 and 1 and two or three blocks there is a block before, at and after a deadline.
- *Amounts.* Deposits are small and chosen so that no two kinds of them compensate; accounts run out of funds in the
  runs about trading.
- `U32Max` exceeds the number of items wherever counters are in question, so that a wrong count shows instead of
  saturating (a collection with 2^32 items is not a state the chain can be in).
- *Symmetry.* `trading` permutes the item ids, which are model values that no other constant names.
- *Gas.* With limit 12 every call can be completed, with 3 the contract traps at each of the extension's
  charges, depending on the call.
- *Token amounts* end at 2 (`BalanceMax`), and the minimum balance is 1 or 2: accounts fall below the minimum,
  mints overflow, and an allowance can be lowered, used up and exceeded.
- *Proxies.* `MaxHops = 2` and `MaxGrants = 2` allow a proxy of a proxy that grants a proxy; three accounts are
  signer, intermediary and victim.
- *Messages.* `MaxHeld = 4` with amounts 1 and 3: both reserves hold something, and withdrawals may exceed one
  of them. One message under way in each direction is enough, because delivery is one at a time.
- *Blocks of a database* end at `MaxHeight = 4`, one more than `UNINCLUDED_SEGMENT_CAPACITY`. `MaxFiles = 2` exported
  specifications, so that one of another network can be read back.

What each property of `popApi` and `network` says:

- `ImplementsPsp22`: the refinement. A contract call maps to one step of the
  abstract token when it ends, or to none; wherever it runs out of gas, traps or returns an error.
- `StatusTrue`: the call dispatched is the one the API function names, status 0 means success, and any other status
  decodes to the runtime's error. `EventsTrue`: an `Approval` event
  carries the allowance there is, the recipient a `Transfer` event names has gained the value, and the source it names
  has lost it, up to dust below the minimum balance. The source in the `Transfer` event of `transfer_from` is excepted: it
  is the contract, which loses nothing (section 6). There the owner that the `Approval` event names has lost the value.
- `WorkPaid`: at every moment the work done is covered by the gas spent. `DepositsExact`: deposits are
  exactly those of the tokens, metadata and approvals there are. `LoweringSucceeds`: the second half of lowering an
  allowance cannot fail. `FailuresLeaveNoTrace`, `ActsForItself`: as they say. `CallsEnd`: liveness.
- `NoEscalation`, `Backed`, `BlockRoom`, `MigrationExact`, `RightRuntime`, `CollatorSafe`: one for each part
  of section 1. `Backed` is an inequality: fees, trapped assets and what a reserve refuses lower the left side
  only.

Some properties are stated under the restriction of a run's clients, and say so: "where nobody transfers
items directly", "where items are minted by claims only", "as long as root does not force a config". The
restriction is the point: root, and an owner's own transfer, may do what the property forbids to
everyone else.

**Deadlock** is not checked on pallet-nfts: nobody is obliged to submit a transaction, and with all blocks
used up the clients may have nothing left to do. It is checked in `popApi` and `network`, where users can always
call, and processes always stop or be started.

**Fairness and liveness.** pallet-nfts has no hooks, queues or background work: every step is an extrinsic that
an account chooses to submit, or the next block, so that nothing is promised to happen and no fairness is
assumed. `popApi` assumes `WF_vars(Pipeline)`: a contract call, once begun, runs to its end
within the block that contains it, because the execution of an extrinsic is one uninterrupted computation. Nothing
is assumed of the users. `network` assumes no fairness: whether a start, a block or a message gets anywhere depends on
the relay chain, the network and other chains, of which the repository promises nothing.

## 4. What is proved

On pallet-nfts the proofs hold for every number of accounts, collections and items, every deposit, limit, set of clients
and their arguments. They rest on the assumptions in the modules:
`StorageAssumption` (the pallet's parameters are naturals), `NoneAssumption` and `OptionAssumption` (`None` is none
of the values it is used with), `ClientAssumption` (clients submit arguments of the declared types), and
`FinitenessAssumption` (accounts, items and keys are finitely many, and the items of a collection no more than a
`u32` counts: with more of them the saturating counters could not be exact). TLC evaluates all of them in every run.

- The first part of `NftsTypes` shows that every step is a step of one of the handlers, with arguments of their types (`NextStep`): about forty
  dispatchables become some thirty handlers, on which the other proofs split.
- The rest of `NftsTypes`: **`TypeCorrect == Spec => []TypeOK`**. One lemma per handler. The types include that no balance
  is ever negative, which depends on each handler's check of the funds *after* its earlier payments (a mint
  pays the price and then reserves the deposit, a pre-signed mint pays, reserves for the item, the
  attribute and the metadata), and that counters stay in `u32`. `TypeOK` is inductive by itself.
- `NftsOwners`: **`AcceptancesCounted == Spec => []ConsumerPerAcceptance`**, and
  **`OwnersIndexed == Spec => []OwnerIndexExact`**. Both are inductive relative to `TypeOK`. For the
  owner index the argument has two halves. Items: an index stays exact when one item and the entries of that item change together
  (`UpdateIndex`), which is what mint, move and burn do; a swap is two such moves in sequence, of which the second takes
  its "former owner" from the state after the first (`ClaimIndex`), so that swapping an item
  for itself is covered. Collections: creation, destruction and the two ownership transfers
  change owner and entry together, and every other handler writes
  details with the same owner (`CollectionsKept`).

- `NftsStructure`: **`StructureKept == Spec => []StructureInv`**, and from it **`CountersAreExact`**,
  **`DestroyLeavesNothing`**, **`OffersBelongToItems`** and **`RolesAreUnique`**. None of the four is inductive alone.
  `StructureInv` says for each collection that its counters are the numbers of what is stored (`CountersOf`), that under an id without a
  collection there is nothing (`EmptyUnder`), that offers have an item and items their collection and configs
  (`OffersOf`), and that a role has one holder (`RolesOf`). They need each other: `destroy` leaves nothing
  only because `items = 0` means that there is no item, and because the `item_configs` it clears by is the number of
  them; a `create` under a reused id starts with exact counters and no second holder of a role only because nothing
  was left; `clear_roles` with its limit of `max_roles` clears all, because each role has one holder.
  The counters need the bound of `FinitenessAssumption`, and the burn of an item the owner index of `NftsOwners`.
- `NftsActions`: what a step may do, from that structure.
  - **`OffersEnd`**: without any hypothesis, an item that changes hands leaves no offer behind. All
    ways to change hands are found first (`MovedInStep`): a transfer, a sale, a swap, a unification of fractions.
  - **`MovesSettled`**, where nobody calls `transfer` and `unify`, and **`DelegatesApproved`**, where nobody calls
    `claim_swap`: the hypotheses are the clients of the runs `trading` and `delegation`, stated on `Callers`.
  - **`FractionalizedHeld`**, unless root forces the mark (`NoForcedMark`; `force_set_attribute` does not ask whether the
    item exists). It needs `FractionalizedExist`: a marked item exists.
  - **`SupplyKept`**, where root forces no config. The check in `mint` is made on the counter and the one in
    `set_collection_max_supply` on the collection, so it needs `CountersExact` and that a collection has a config
    (`ConfigsExist`).
  - **`CollectionLocksKept`** and **`ItemLocksKept`**, as long as root respects locks (`RootRespectsLocks`): the writers of
    each map are found first (`CollectionMetadataWrites` and the like), then each of them is refused by the lock.
  - **`ClaimsAreBacked`**, where items are minted by `mint` only and root leaves the marks alone (`ClaimsOnly`). It
    needs `MarksUnpaid`: a mark has no depositor, who could clear it.
- `Sums`: what `SumFunction` over a finite set computes. The library's induction over finite sets takes an operator as a
  parameter, so the lemmas are proved from a smallest counterexample: among the finite subsets for which two
  ways of summing differ there is one of least cardinality (`SmallestSubset`), and it has an element to take away. From
  this follow that a sum of naturals is one, that changing one summand changes the sum by the
  difference (`SumChange`), that sums of sums may be added up in parts (`SumParts`, `SumPlus`), and what appending to or taking from a queue
  does to it (`SumAppend`, `SumTail`).
- `NftsDeposits`: **`ReservesAreExact`** and **`OwnerDepositIsExact`**, from one invariant `DepositsInv`: both properties, and
  `PayersOf`, that the namespace of an attribute says in whose name its deposit is. They need each other:
  `unreserve` and `saturating_sub` take at most what is there, silently, so that a refund is exact only while the record is covered by
  the reserve (`ReservesExact`) and by `owner_deposit` (`OwnerBooks`), and whose it is follows from the namespace. Each handler has a lemma
  that what is recorded in an account's name and what is reserved from it move by the same amount; a replaced
  deposit is a refund and a new reservation, in that order, and a transfer of the collection moves
  `owner_deposit` from one account to another. `StructureKept` is needed for `create`, which must start
  from no records, and for `destroy`, where no item is left whose deposit nobody would return. The hypothesis `PlainDeposits` is that nobody sets
  attributes or metadata with pre-signed data, and that root forces attributes of the `Pallet` namespace only. Without it both properties are
  false: findings 1 and 2 of section 6, and the observations there on forced attributes and pre-signed metadata. The runs
  `structure` and `attributes` meet it.

On the fungibles API (`PopApiProofs`), for every number of accounts and tokens, every deposit, every message, request, extrinsic and
gas limit of the declared types (`AssetsAssumption`, `ContractAssumption`, `ArgumentsAssumption`, `ChainAssumption`, and
`NoneAssumption`, `OptionAssumption` and `TokenAssumption` for `None`). One invariant `Inv` carries all of it:

- `Sound(ledger)`: an absent token has no accounts, approvals or metadata; the supply of a token is the number of its
  units, counted as a set of pairs (`Units`), so that no sum over accounts is needed; nobody holds a positive amount
  below the minimum balance; what is reserved from an account is what `Deposits` says. Every operation of the
  fungibles pallet and of pallet-assets keeps a ledger sound, on failure as well (one lemma each).
- `FrameInv` and `EnvInv`: what the phase of the call in progress says of its request, its gas and its error. The ledger
  to return to is sound, and the work done is covered by the gas spent.
- `EffectInv`: a contract call has dispatched at most one call, on the ledger it started from, and the ledger is the
  outcome of that call as long as the frame is not over. This is what makes the rollback of a frame, the events
  and the refinement statements about ONE operation of the pallet.

From it: **`TypesKept`**, **`DepositsAreExact`**, **`WorkIsPaid`**, **`FailuresAreUndone`**, **`LoweringNeverFails`** (what is
released by cancelling an approval is at least what approving again reserves), **`StatusIsTrue`** (the round trip of
each error through the four bytes of a status, and the agreement of the indices of pop-api and the
runtime), **`ContractsActForThemselves`** (an action property: what each call spares of other accounts), **`EventsAreTrue`**
(with the exception stated in section 3), and
the refinement **`PopApiImplementsPsp22 == Spec => ImplementsPsp22`**. Its argument: the effect of each operation on a
ledger is one step of `Psp22` or none on the tokens of that ledger; steps of the extension leave `Committed` alone; the
step that ends a contract call commits either the ledger it started from or the outcome of its one
call, by `EffectInv`; an extrinsic is one operation or is rolled back.

On the node and the runtimes:

- `NetworkProofs`: **`ProxiesNeverEscalate == Spec => []NoEscalation`**, for any accounts, calls, and number of wrappers.
  The property speaks of the last call only and is not inductive: the invariant adds `Descends`, that
  every proxy there is, and the origin of the extrinsic in progress, descends from a type the
  account itself granted. Two facts about the tables of the runtimes carry the step: a type permits what
  the types it is a superset of permit (`SupersetPermits`), and superset is transitive (`SupersetTransitive`);
  a proxy may only be granted through a proxy of a type that is a superset of the new one, which is what
  the filter added to the origin enforces.
- `NetworkProofs`: **`MigrationIsExact == Spec => []MigrationExact`**. `CountsKept` adds that the storage version is the
  code's once the first block of the new code has begun, and that every item has a configuration, of which
  there are finitely many (a mint over a configuration that a burn kept must not count it twice).
- `NetworkProofs`: **`BlocksKeepRoom`**: in any block, with any weights, when the total is beyond the maximum the
  operational extrinsics are within their reserve (`BlockInv`), to which nothing else is charged.
- `NetworkProofs`: **`RuntimeIsRight`** and **`CollatorIsSafe`**, from one invariant `NodeInv`. `DiskInv`: every database and file
  is of one of the known specifications, keyed by its id, and no database is ahead of the included block by more
  than the segment. `ProcessInv`: a process's runtime, relay chain and tasks are those its phase implies.
  `BuildingInv`: a block is built only by a running authority, with room in the segment. The
  last one needs the order of the start: the consensus task is started after all those it relies on.
- `NetworkProofs`: **`TokenIsBacked == Spec => []Backed`**, for any programs from any chain or account, any amounts and any number of
  messages. `XcmInv` adds to it the types, that no more than `MaxHeld` is held, and `Honest`: a message from a
  reserve announces a deposit in its first instruction only, in the inbox and in what is left of the program that runs. The latter is needed because what a
  reserve has announced counts as owed until `ReserveAssetDeposited` has run or the program has ended without it; a second announcement would
  create tokens. Each step of the executor is shown to change what is owed by no more than what is held:
  an instruction moves tokens between an account, the holding register, the fee, the asset trap and the outbox, or burns them;
  the end of a program, failed or not, pays the fee and traps the holding (`EndProgram`); only a message that arrives at a reserve lowers `held` (`Arrives`).
- `NetworkProofs`: **`StateIsTyped == Spec => []TypeOK`**. Balances, holding and trap are at most what the reserves hold, which is
  `TokenIsBacked` for each summand; proxies are definitions somebody granted; and on top of `NodeInv`, `Bounds`: a stopped process holds nothing,
  databases and files stay within their limits, and a block is built only where the slot and the database have
  room for it.

They rest on `ProxiesAssumption`, `XcmAssumption`, `BlocksAssumption` (bounds are naturals, weights are pairs of them)
`NodeAssumption` (names given to `--chain` that are not files are names the command line knows; any
other one is read as a file), and on `NobodyAssumption` and `AbsentAssumption`, that the values for "none" are no others. TLC evaluates these, and `ContractAssumption`, `ChainAssumption` and those of
`Assets`, in the runs.

Only model-checked, and why:

- `CallsEnd`: liveness under fairness, and `ENABLED`, are out of the prover's reach.
- `ReservesExact` and `OwnerDepositExact` where pre-signed data sets attributes or metadata, or root forces an attribute: there they are
  false, as section 6 shows.
- The three runs of section 6 are counterexamples.

## 5. What is not modelled, and why

- Of pallet-nfts: weights and benchmarks (generated numbers), codec macros, events, read-only queries;
  `T::Locker`; overflow of balances (`ArithmeticError` makes a call fail, and amounts are far below).
- Of pallet-assets (a dependency): freezing, sufficient assets and forced calls, which the API cannot
  reach.
- Of the extension: logging. Events of the fungibles pallet are kept; event topics are not.
- Of pallet-proxy (a dependency): delays and announcements, pure proxies, deposits. The dispatch of
  calls other than those of proxies is the fact that they are dispatched.
- Of XCM: query responses, delivery fees, topics, weights of instructions. The reserves are assumed honest, and root
  mints nothing (`sudo` could, `Backed` is about the others). Two reserves back one token: a withdrawal
  from a reserve that holds too little is burned here and refused there, a loss that `Backed`, an inequality, permits.
- Of the runtimes: fees, sessions, collator selection, the scheduler beyond its share of a block, ISMP and contract parameters only
  instantiate framework pallets.
- Of the node: RPC and telemetry (wiring of read-only services), benchmarks and `try-runtime` beyond
  the choice of the runtime; consensus and networking, which are those of Cumulus. Specification files
  with an edited or unknown id fall back to the devnet runtime; `RightRuntime` is about names and files the node exported.
- The migration is modelled although no runtime lists it in its `Migrations`: it is there to be used.

## 6. Findings

Each is a run expected to end in a violation, of a property that says what the repository says.

1. `replacedDeposit`: when the collection's owner has paid for an attribute and the item's owner replaces it by
   pre-signed data, `do_set_attribute` returns the deposit to the collection's owner but leaves it in `owner_deposit`
   (`attributes.rs:129-141`). `types.rs:98` calls `owner_deposit` the total the owner has deposited, "Used by `destroy`": a destroy, or a transfer of the
   ownership, then releases or moves reserves that belong to something else.
2. `delegateRefund`: `set_attributes_pre_signed` lets the item's owner pay for attributes in the namespace of the signer,
   while `do_cancel_item_attributes_approval` unreserves the deposits of that namespace from the delegate
   (`attributes.rs:441`), "and any unreserved deposit is returned" (`attributes.rs:398`). The payer's funds stay reserved.
3. `swapExpiry`: in the block of its deadline a swap can be claimed, and already be cancelled by anyone; `lib.rs:1840` says that
   the origin must be the owner if the deadline has not expired.

Observed while modelling, and not the subject of a run:

- The `attributes` counter is not reduced by `do_cancel_item_attributes_approval` (`attributes.rs:430`), nor increased for
  the mark of a claim (`lib.rs:910`), although `types.rs:107` calls it the total number of attributes.
- A pre-signed mint by the collection's owner itself records the owner as depositor of the metadata but does not
  add the deposit to `owner_deposit` (`metadata.rs:100`), while clearing that metadata or burning the item subtracts it, because the
  depositor is the owner (`metadata.rs:159`, `create_delete_item.rs:245`): `create`, `mint_pre_signed` and `clear_metadata` of one
  account make `OwnerDepositExact` false. The runs on deposits therefore use pre-signed data without metadata.
- A pre-signed mint in a collection without an admin skips attributes and metadata (`create_delete_item.rs:173`).
- `force_set_attribute` in the name of the account that already paid for the attribute sets the recorded deposit to zero without
  releasing it (`attributes.rs:189`). The run `attributes` therefore leaves forced writes to root out.
- An account left with less than the minimum balance is emptied, so that more is moved than the value of the
  `Transfer` event, "The amount transferred (or minted/burned)." (`fungibles/mod.rs`). `EventsTrue` is stated up to dust.
- The example contract's `transfer_from` emits `Transfer` with `from: Some(contract)` (`examples/fungibles/lib.rs:126`), where
  `events.rs:33` says "The source of the transfer.": the contract spends an allowance and its balance does not change.
  `EventsTrue` excepts this source.
- `FungiblesError` of pop-api names some errors of pallet-assets by indices that are not that
  pallet's (index 10 as `NotLive`, 0 as `NoAccount`). `StatusTrue` is about the four bytes and the general `Error`, which survive.
- `DECODING_FAILED` is 255 in pop-api (`pop-api/src/lib.rs:64`), `Error::DecodingFailed` 254 in `src/primitives`.
- A `DispatchError::Other` becomes status 0, which contracts read as success. No operation that the API
  reaches returns it.
- `NonTransfer` proxies of the runtimes deny a list of pallets, on which Fungibles, Sudo, XCM and Contracts are not: they permit calls that
  do transfer. `NoEscalation` is about what was granted by type, whatever the type permits.
- `increase_allowance` with value 0 leaves an approval of 0 with its deposit, which neither `approve` with 0 nor
  `decrease_allowance` releases.
- A block may exceed `MAXIMUM_BLOCK_WEIGHT` by its inherents, which have no limit, and by the operational reserve, in proof
  size as well, where the maximum is already `MAX_POV_SIZE`. Normal extrinsics never do it.
- The help text of the command line names `rococo-local` where the specifications use `paseo-local`.

## 7. What is left

1. *An abstract ownership ledger* of items, which the NFT specification implements under a refinement mapping, and the
   proof that it does, from `OwnersIndexed` and `NftsActions`.
2. *Delays and announcements* of proxies; *collator selection* with its invulnerables and bonds.

## 8. Running it

```
cd tla
tlc -workers 2 -config MCNftsTrading.cfg MCNfts      # and the other MCNfts*.cfg
tlc -workers 2 -config MCPopApi.cfg MCPopApi
tlc -workers 2 -config MCNetwork.cfg MCNetwork
tlapm Sums.tla ; tlapm NftsTypes.tla ; tlapm NftsOwners.tla
tlapm NftsStructure.tla ; tlapm NftsActions.tla ; tlapm NftsDeposits.tla
tlapm PopApiProofs.tla
tlapm NetworkProofs.tla
```
