------------------------------ MODULE Network ------------------------------
(***************************************************************************)
(* The node and what the runtimes' configuration governs.  The parts share *)
(* no state, so that a behaviour is about one of them: starting and        *)
(* commanding the node, producing blocks, calls in another account's name, *)
(* cross-consensus messages, or the storage migration.                     *)
(***************************************************************************)
EXTENDS Collator, Proxies, Xcm, Migration

VARIABLE scope          \* the part a behaviour is about, and the runtime

Part == {"start", "produce", "proxies", "xcm", "upgrade"}

collatorVars == <<node, disk, block, authored>>
vars == <<scope, collatorVars, proxiesVars, xcmVars, migrationVars>>

Init ==
    /\ scope \in [part : Part, runtime : Runtimes]
    /\ scope.part \in {"start", "upgrade"} => scope.runtime = "devnet"
    /\ CollatorInit /\ ProxiesInit /\ XcmInit /\ MigrationInit
    /\ scope.part # "upgrade" => code = 1
    /\ scope.part # "start" => ~ ismp

\* A step of one part leaves the others alone.
InCollator(part) ==
    scope.part = part /\ UNCHANGED <<scope, proxiesVars, xcmVars, migrationVars>>
InProxies == scope.part = "proxies" /\ UNCHANGED <<scope, collatorVars, xcmVars, migrationVars>>
InXcm == scope.part = "xcm" /\ UNCHANGED <<scope, collatorVars, proxiesVars, migrationVars>>
InUpgrade == scope.part = "upgrade" /\ UNCHANGED <<scope, collatorVars, proxiesVars, xcmVars>>

\* The collator of the scope's network or a full node of it, and between two runs of it
\* the subcommands that change its database.
DatabaseCommands == {"purge-chain", "import-blocks", "revert"}
RunCollator ==
    \E id \in ChainArg, validator \in BOOLEAN, command \in {""} \cup DatabaseCommands :
        /\ load_spec([kind |-> "id", id |-> id, spec |-> Absent]).wasm = scope.runtime
        /\ command # "" => ~ validator
        /\ Launch(command, [kind |-> "id", id |-> id, spec |-> Absent], validator, FALSE, "")

NodeStarts == (InCollator("start") \/ InCollator("produce")) /\ Starts

NodeCommanded ==
    /\ InCollator("start")
    /\ \/ (RunSubcommand \/ RunService) /\ UNCHANGED <<block, authored>>
       \/ Ends

NodeProduces ==
    /\ InCollator("produce")
    /\ \/ RunCollator /\ UNCHANGED <<block, authored>>
       \/ Ends
       \/ Produces

Next ==
    \/ NodeStarts
    \/ NodeCommanded
    \/ NodeProduces
    \/ InProxies /\ ProxiesNext(scope.runtime)
    \/ InXcm /\ XcmNext(scope.runtime)
    \/ InUpgrade /\ MigrationNext

Spec == Init /\ [][Next]_vars
=============================================================================
