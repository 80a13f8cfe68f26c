----------------------------- MODULE MCNetwork -----------------------------
(***************************************************************************)
(* An instance of the node and the runtimes' configuration for TLC.        *)
(***************************************************************************)
EXTENDS NetworkProperties

CONSTANTS sudo, alice, bob

LeafCall(pallet, name) == [pallet |-> pallet, name |-> name, delegate |-> None, type |-> None]
ProxyLeaf(name, a, t) == [pallet |-> "Proxy", name |-> name, delegate |-> a, type |-> t]
Leaves ==
    {LeafCall("Balances", "transfer"), LeafCall("Balances", "force_transfer"),
     LeafCall("Assets", "transfer"), LeafCall("Assets", "create"), LeafCall("Assets", "mint"),
     LeafCall("Nfts", "create"), LeafCall("Nfts", "force_mint"),
     LeafCall("CollatorSelection", "leave_intent"), LeafCall("Proxy", "reject_announcement"),
     LeafCall("Proxy", "remove_proxies")}
    \cup {ProxyLeaf(n, a, t) : n \in {"add_proxy", "remove_proxy"}, a \in {alice, bob},
                               t \in {"Any", "NonTransfer", "Assets", "AssetManager",
                                      "Collator"}}

I(op, n, at, call) == [op |-> op, n |-> n, at |-> at, call |-> call]
Programs ==
    {<<I("ReserveAssetDeposited", n, "", ""), I("BuyExecution", 0, "", ""),
       I("DepositAsset", 0, at, "")>> : n \in Amount, at \in {User, "Sibling"}}
    \cup {<<I("ReceiveTeleportedAsset", 2, "", ""), I("BuyExecution", 0, "", ""),
            I("DepositAsset", 0, User, "")>>,
          <<I("WithdrawAsset", 2, "", ""), I("BuyExecution", 0, "", ""),
            I("InitiateReserveWithdraw", 0, "AssetHub", "")>>,
          <<I("WithdrawAsset", 2, "", ""), I("BuyExecution", 0, "", ""),
            I("InitiateTeleport", 0, "Sibling", "")>>,
          <<I("WithdrawAsset", 1, "", ""), I("BuyExecution", 0, "", ""),
            I("Transact", 0, "SovereignAccount", "transfer"), I("DepositAsset", 0, User, "")>>,
          <<I("WithdrawAsset", 1, "", "")>>,
          <<I("WithdrawAsset", 1, "", ""), I("BuyExecution", 0, "", ""),
            I("BuyExecution", 0, "", "")>>,
          <<I("ClaimAsset", 1, "", ""), I("DepositAsset", 0, User, "")>>,
          <<I("UnpaidExecution", 0, "", ""), I("Transact", 0, "Native", "force_set_balance")>>,
          <<I("UnpaidExecution", 0, "", ""), I("Transact", 0, "Superuser", "force_set_balance")>>,
          <<I("SubscribeVersion", 0, "", "")>>}

W(time, proof) == [time |-> time, proof |-> proof]
ExtrinsicWeights == {W(7, 2), W(2, 7), W(5, 5)}
=============================================================================
