---------------------------- MODULE RuntimeCalls ----------------------------
(***************************************************************************)
(* The calls of the runtimes: where a pallet's calls are in the encoding   *)
(* of a RuntimeCall, and the filter every signed call passes.  A call is a *)
(* record with at least the fields pallet and name.                        *)
(***************************************************************************)
EXTENDS Naturals

\* #[runtime::pallet_index] of each runtime.
CommonPallets ==
    [System |-> 0, ParachainSystem |-> 1, Timestamp |-> 2, ParachainInfo |-> 3, Balances |-> 10,
     TransactionPayment |-> 11, Sudo |-> 15, Authorship |-> 20, CollatorSelection |-> 21,
     Session |-> 22, Aura |-> 23, AuraExt |-> 24, Scheduler |-> 28, Preimage |-> 29,
     XcmpQueue |-> 30, PolkadotXcm |-> 31, CumulusXcm |-> 32, MessageQueue |-> 33,
     Proxy |-> 41, Multisig |-> 42, Utility |-> 43]
MorePallets == [Contracts |-> 40, Nfts |-> 50, NftFractionalization |-> 51, Assets |-> 52,
                Fungibles |-> 150]
IsmpPallets == [Ismp |-> 38, IsmpParachain |-> 39]

\* All the functions of a set with disjoint domains, as one.
Merged(tables) ==
    [p \in UNION {DOMAIN f : f \in tables} |-> (CHOOSE f \in tables : p \in DOMAIN f)[p]]

MainnetPallets == CommonPallets
TestnetPallets == Merged({CommonPallets, MorePallets})
DevnetPallets == Merged({CommonPallets, MorePallets, IsmpPallets})

Pallets == [devnet |-> DevnetPallets, testnet |-> TestnetPallets, mainnet |-> MainnetPallets]
Runtimes == DOMAIN Pallets
-----------------------------------------------------------------------------
\* FilteredCalls: what no signed origin may call.
FilteredCalls == {"force_adjust_total_issuance", "force_set_balance", "force_transfer",
                  "force_unreserve"}

\* BaseCallFilter = EverythingBut<FilteredCalls>.
BaseCallFilter(call) == ~ (call.pallet = "Balances" /\ call.name \in FilteredCalls)
=============================================================================
