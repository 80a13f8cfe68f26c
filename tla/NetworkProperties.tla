-------------------------- MODULE NetworkProperties --------------------------
(***************************************************************************)
(* What the node and the runtimes' configuration must keep.                *)
(***************************************************************************)
EXTENDS Network

\* Types of the parts' state.
ProxyDefinition == [delegate : Member, type : ProxyType]
NodeTypeOK ==
    /\ node.phase = "down" <=> node.tasks = {} /\ node.spec = Absent
    /\ node.spec # Absent => node.spec.id \in SpecId
    /\ \A id \in SpecId : db[id] = Absent \/ db[id].best \in 0..MaxHeight
    /\ Cardinality(files) <= MaxFiles

\* The state has its types: proxies are definitions, balances and what the reserves hold
\* are amounts up to the bound, a process that is down holds nothing, and a database is
\* open for every process past new_partial.
TypeOK ==
    /\ proxies \in [Member -> SUBSET ProxyDefinition]
    /\ granted \in [Member -> SUBSET ProxyType]
    /\ balance \in [Holder -> 0..MaxHeld]
    /\ held \in [Reserve -> 0..MaxHeld]
    /\ NodeTypeOK
    /\ node.phase \notin {"down", "configured"} => db[node.spec.id] # Absent
    /\ authored \in 0..BLOCK_PROCESSING_VELOCITY + 1
-----------------------------------------------------------------------------
\* No escalation through proxies: whatever chain of proxies, batches and further proxies
\* a call went through, a call made in an account's name by someone else is one that a
\* type the account itself once granted permits, and a call as Root is made by the sudo
\* key or by someone the sudo key let use Sudo (filter and is_superset in
\* runtime/*/src/config/proxy.rs and runtime/common/src/lib.rs).
NoEscalation ==
    last # None /\ last.origin # Signed(last.signer) =>
        IF last.origin = Root
        THEN \/ last.signer = SudoKey
             \/ \E t \in granted[SudoKey] : filter(scope.runtime, t, Wrapper("Sudo", "sudo"))
        ELSE \E t \in granted[last.origin.who] : filter(scope.runtime, t, last.call)

\* The native token is backed: what accounts have here, with what is being executed,
\* trapped, or on its way in either direction, is never more than the relay chain and
\* Asset Hub hold for this chain, whatever programs siblings and local accounts run
\* (TrustedReserves, IsTeleporter, Barrier and the origin converters of config/xcm.rs).
Promised(c) ==
    IF c \notin Reserve THEN 0
    ELSE SumFunction([i \in DOMAIN inbox[c] |->
            IF inbox[c][i][1].op = "ReserveAssetDeposited" THEN inbox[c][i][1].n ELSE 0])
Withdrawn ==
    SumFunction([i \in DOMAIN outbox |-> IF outbox[i].op = "WithdrawAsset" THEN outbox[i].n ELSE 0])
Trapped ==
    SumFunction([l \in Location |-> SumFunction([n \in DOMAIN trapped[l] |-> n * trapped[l][n]])])
InExecution == IF exec = Nobody THEN 0 ELSE exec.holding + exec.fee
Pending(c) ==     \* a deposit the executor has not reached yet
    IF exec # Nobody /\ exec.origin = c /\ c \in Reserve /\ exec.rest # <<>>
          /\ exec.rest[1].op = "ReserveAssetDeposited"
    THEN exec.rest[1].n ELSE 0
Backed ==
    SumFunction(balance) + InExecution + Trapped + Withdrawn
      + SumFunction([c \in Chain |-> Promised(c) + Pending(c)])
        <= SumFunction(held)

\* Room in a block: however full the scheduler, the message queue, the inherents and the
\* normal extrinsics made a block, an operational extrinsic within the reserve is still
\* taken, "even if block reached MAXIMUM_BLOCK_WEIGHT", and in a block beyond that weight
\* the operational extrinsics stay within the reserve (RuntimeBlockWeights in the
\* runtimes' lib.rs).
BlockRoom ==
    block # NoBlock =>
        /\ \A w \in Weights :
              ~ AnyGt(Plus(block.Operational, w),
                      Minus(MAXIMUM_BLOCK_WEIGHT,
                            Share(NORMAL_DISPATCH_RATIO, MAXIMUM_BLOCK_WEIGHT)))
                 => CheckWeight(block, "Operational", w)
        /\ AnyGt(Total(block), MAXIMUM_BLOCK_WEIGHT) =>
              ~ AnyGt(block.Operational, RuntimeBlockWeights.reserved)

\* The migration is exact: under the new code every collection's item_configs is the
\* number of its item configurations, whichever code minted and burned before, and a
\* further upgrade changes nothing (migration.rs; destroy clears that many entries).
MigrationExact ==
    code = 1 => \A c \in CollectionId : details[c].item_configs = Cardinality(configs[c])

\* The right runtime: the runtime API the node instantiates is that of the code in the
\* database it opened, and the specification it runs, read back from a file it exported
\* or not, names the relay chain and parachain id of that network (runtime, load_spec
\* and configure_for_relay in node/src).
RightRuntime ==
    node.phase \notin {"down", "configured"} =>
        /\ node.runtime = db[node.spec.id].wasm /\ node.runtime = node.spec.wasm
        /\ node.spec.extensions.para_id = node.spec.genesis.para_id
        /\ node.relay \in RelayArg \cup {IF node.runtime = "mainnet" THEN "polkadot"
                                        ELSE IF node.runtime = "testnet" THEN "paseo"
                                        ELSE "paseo-local"}

\* Only an authority that follows the relay chain builds blocks, with its import queue
\* and relay chain tasks started before; and restarts, crashes and other collators never
\* leave more unincluded blocks than the segment holds (start_node_impl in service.rs,
\* UNINCLUDED_SEGMENT_CAPACITY).
CollatorSafe ==
    /\ block # NoBlock =>
          /\ node.validator
          /\ {"import_queue", "transaction_pool", "relay_chain", "sync", "relay_tasks"}
                \subseteq node.tasks
    /\ \A id \in SpecId :
          db[id] # Absent => db[id].best <= included[id] + UNINCLUDED_SEGMENT_CAPACITY
=============================================================================
