-------------------------------- MODULE Node --------------------------------
(***************************************************************************)
(* The collator's executable: the chain specifications it knows, how it    *)
(* chooses a runtime, its subcommands, and the start of the service, one   *)
(* action for each step that can fail or that starts tasks.  The process   *)
(* may stop at any point; the disk keeps databases and exported            *)
(* specifications.                                                         *)
(***************************************************************************)
EXTENDS Naturals, FiniteSets

CONSTANTS Absent,       \* no value, no file, no database
          Commands,     \* the subcommands that are run
          ChainArg,     \* the values given to --chain that are not files
          RelayArg,     \* the values given to --chain for the relay chain, "" when there is none
          MaxFiles,     \* bound: exported specifications
          MaxHeight     \* bound: blocks in a database

ASSUME NodeAssumption ==
    /\ MaxFiles \in Nat /\ MaxHeight \in Nat
    /\ ChainArg \subseteq {"dev", "devnet", "dev-paseo", "", "local", "test", "testnet",
                           "pop-paseo", "pop", "mainnet", "pop-polkadot", "pop-network"}

VARIABLES ismp,         \* whether the executable is built with the feature ismp
          node,         \* the process
          files,        \* the specifications written by build-spec and export-state
          db,           \* the database of each chain id: the runtime in it and its height
          included      \* the height the relay chain has included, by chain id
disk == <<ismp, files, db, included>>
-----------------------------------------------------------------------------
\* configure_for_relay: the relay chain's name and the parachain's id.
configure_for_relay(relay) ==
    CASE relay = "PaseoLocal" -> [relay_chain |-> "paseo-local", para_id |-> 4001]
      [] relay = "Paseo" -> [relay_chain |-> "paseo", para_id |-> 4001]
      [] relay = "Polkadot" -> [relay_chain |-> "polkadot", para_id |-> 3395]

\* A specification: its id, the runtime whose code it carries, its extensions, and of
\* its genesis the collators, who holds the sudo key and the balances.
NewSpec(id, wasm, relay, genesis) ==
    [id |-> id, wasm |-> wasm, extensions |-> configure_for_relay(relay), genesis |-> genesis]

devnet_genesis(id) == [para_id |-> id, invulnerables |-> 2, sudo |-> "Alice", issuance |-> 0]
testnet_genesis(id) == [para_id |-> id, invulnerables |-> 3, sudo |-> "account", issuance |-> 0]
mainnet_genesis(id) == [para_id |-> id, invulnerables |-> 1, sudo |-> "multisig", issuance |-> 0]

development_config(relay) ==
    NewSpec("pop-devnet", "devnet", relay, devnet_genesis(configure_for_relay(relay).para_id))
testnet_config(relay) ==
    NewSpec("pop-testnet", "testnet", relay, testnet_genesis(configure_for_relay(relay).para_id))
mainnet_config(relay) ==
    NewSpec("pop", "mainnet", relay, mainnet_genesis(configure_for_relay(relay).para_id))

\* The specifications built into the executable, and what a database may hold: the code of
\* one of their runtimes, and blocks.  Absent is neither.
KnownSpec == {development_config("PaseoLocal"), testnet_config("Paseo"),
              mainnet_config("Polkadot")}
Database == [wasm : {"devnet", "testnet", "mainnet"}, best : Nat]
ASSUME AbsentAssumption == Absent \notin KnownSpec /\ Absent \notin Database

SpecId == {"pop-devnet", "pop-testnet", "pop"}

\* What the ids that occur start and end with.
StartsWith(id, prefix) ==
    id \in CASE prefix = "dev" -> {"dev", "devnet", "dev-paseo"}
             [] prefix = "test" -> {"test", "testnet"}
EndsWith(id, suffix) ==
    id \in CASE suffix = "devnet" -> {"devnet", "pop-devnet"}
             [] suffix = "testnet" -> {"testnet", "pop-testnet"}
             [] suffix = "mainnet" -> {"mainnet"}

\* A bug: the main network is known by the end of its id alone.
runtime_by_suffix(id) ==
    CASE StartsWith(id, "dev") \/ EndsWith(id, "devnet") -> "devnet"
      [] StartsWith(id, "test") \/ EndsWith(id, "testnet") -> "testnet"
      [] EndsWith(id, "mainnet") -> "mainnet"
      [] OTHER -> "devnet"

\* The runtime of a specification's id, the development runtime when it is not known.
runtime(id) ==
    IF StartsWith(id, "dev") \/ EndsWith(id, "devnet") THEN "devnet"
    ELSE IF StartsWith(id, "test") \/ EndsWith(id, "testnet") THEN "testnet"
    ELSE IF id = "pop" \/ EndsWith(id, "mainnet") THEN "mainnet"
    ELSE "devnet"

\* load_spec: a name, or a file whose id says which type of specification to read; a
\* file that is missing stops the process.
load_spec(arg) ==
    IF arg.kind = "path" THEN arg.spec ELSE
    CASE arg.id \in {"dev", "devnet", "dev-paseo", "", "local"} ->
            development_config("PaseoLocal")
      [] arg.id \in {"test", "testnet", "pop-paseo"} -> testnet_config("Paseo")
      [] arg.id \in {"pop", "mainnet", "pop-polkadot", "pop-network"} ->
            mainnet_config("Polkadot")

Args == {[kind |-> "id", id |-> i, spec |-> Absent] : i \in ChainArg}
        \cup {[kind |-> "path", id |-> "", spec |-> s] : s \in files \cup {Absent}}

\* RelayChainCli: the relay chain given after --, otherwise the specification's.
relay_chain_id(spec, given) == IF given = "" THEN spec.extensions.relay_chain ELSE given
-----------------------------------------------------------------------------
Down == [phase |-> "down", command |-> "", spec |-> Absent, runtime |-> "", relay |-> "",
         validator |-> FALSE, offchain |-> FALSE, tasks |-> {}]

NodeInit ==
    /\ ismp \in BOOLEAN
    /\ node = Down
    /\ files = {}
    /\ db = [id \in SpecId |-> Absent]
    /\ included = [id \in SpecId |-> 0]

Stop == node' = Down /\ UNCHANGED disk

\* run: the command line is parsed and the specification loaded.
Launch(command, arg, validator, offchain, relay) ==
    /\ node.phase = "down"
    /\ load_spec(arg) # Absent
    /\ LET spec == load_spec(arg)
       IN  node' = [Down EXCEPT !.phase = "configured", !.command = command, !.spec = spec,
                                !.runtime = runtime(spec.id), !.validator = validator,
                                !.offchain = offchain, !.relay = relay_chain_id(spec, relay)]
    /\ UNCHANGED disk

\* The subcommands that need no database: build-spec writes the specification,
\* purge-chain removes the databases.
Offline == {"build-spec", "purge-chain", "export-genesis-wasm"}
RunOffline ==
    /\ node.phase = "configured" /\ node.command \in Offline
    /\ files' = IF node.command = "build-spec" /\ Cardinality(files) < MaxFiles
                THEN files \cup {node.spec} ELSE files
    /\ db' = IF node.command = "purge-chain" THEN [db EXCEPT ![node.spec.id] = Absent] ELSE db
    /\ node' = Down
    /\ UNCHANGED <<ismp, included>>

\* RuntimeApiExt: what the service needs of a runtime's API; in a build with ismp also the
\* ISMP APIs, which the development runtime alone implements.
RuntimeApiExt(rt) == ismp => rt = "devnet"

\* construct_async_run, construct_benchmark_partials.
Unimplemented == ~ RuntimeApiExt(node.runtime)
Panic == node.phase = "configured" /\ node.command \notin Offline /\ Unimplemented /\ Stop

\* new_partial: the client on the chain's database, created from the genesis of the
\* specification when there is none; transaction pool and import queue are essential.
new_partial ==
    /\ node.phase = "configured" /\ node.command \notin Offline /\ ~ Unimplemented
    /\ db' = IF db[node.spec.id] # Absent THEN db
             ELSE [db EXCEPT ![node.spec.id] = [wasm |-> node.spec.wasm, best |-> 0]]
    /\ node' = [node EXCEPT !.phase = "partial", !.tasks = {"transaction_pool", "import_queue"}]
    /\ UNCHANGED <<ismp, files, included>>

UNINCLUDED_SEGMENT_CAPACITY == 3

\* Whether the network can have built a block on the best one of a database.
CanGrow(id) == /\ db[id].best < MaxHeight
               /\ db[id].best < included[id] + UNINCLUDED_SEGMENT_CAPACITY

\* The subcommands that work on the database, then the process ends.
RunOnDatabase ==
    /\ node.phase = "partial" /\ node.command # ""
    /\ LET id == node.spec.id
       IN  /\ db' = IF node.command = "import-blocks" /\ CanGrow(id)
                    THEN [db EXCEPT ![id].best = @ + 1]
                    ELSE IF node.command = "revert" /\ db[id].best > included[id]
                    THEN [db EXCEPT ![id].best = @ - 1] ELSE db
           /\ files' = IF node.command = "export-state" /\ Cardinality(files) < MaxFiles
                       THEN files \cup {[node.spec EXCEPT !.wasm = db[id].wasm]} ELSE files
    /\ node' = Down
    /\ UNCHANGED <<ismp, included>>
-----------------------------------------------------------------------------
\* start_node_impl, step by step.
Step(from, to, tasks) ==
    /\ node.phase = from /\ node.command = ""
    /\ node' = [node EXCEPT !.phase = to, !.tasks = @ \cup tasks]
    /\ UNCHANGED disk

build_relay_chain_interface == Step("partial", "relay", {"relay_chain"})

build_network == Step("relay", "network_built", {"sync"})
spawn_offchain_workers ==
    Step("network_built", "workers", IF node.offchain THEN {"offchain_workers"} ELSE {})
spawn_tasks == Step("workers", "rpc", {"rpc"})
start_relay_chain_tasks == Step("rpc", "following", {"relay_tasks"})

\* A bug: full nodes author blocks too.
start_consensus_always == Step("following", "consensus", {"aura"})

\* start_consensus, by an authority only: the aura task is essential.
start_consensus == Step("following", "consensus", IF node.validator THEN {"aura"} ELSE {})
start_network == Step("consensus", "running", {"network"})

StartStep ==
    \/ RunOffline
    \/ Panic
    \/ new_partial
    \/ RunOnDatabase
    \/ build_relay_chain_interface
    \/ build_network
    \/ spawn_offchain_workers
    \/ spawn_tasks
    \/ start_relay_chain_tasks
    \/ start_consensus
    \/ start_network

\* The process ends: a step of the start returns its error, an essential task of the
\* running node ends, or the process is killed.  Only the disk survives.
Exit == node.phase # "down" /\ Stop

\* A user runs a subcommand, or the service with its options.
RunSubcommand == \E command \in Commands, arg \in Args : Launch(command, arg, FALSE, FALSE, "")
RunService ==
    \E arg \in Args, validator, offchain \in BOOLEAN, relay \in RelayArg :
        Launch("", arg, validator, offchain, relay)
=============================================================================
