------------------------------ MODULE Proxies ------------------------------
(***************************************************************************)
(* Calls made in another account's name: the proxy types of the runtimes,  *)
(* and the paths a signed call may take through Proxy.proxy, Utility.batch *)
(* and Sudo.sudo before it is dispatched.                                  *)
(*                                                                         *)
(* A call is a record [pallet, name, delegate, type]; the last two are     *)
(* None but for the calls that change proxies.  An extrinsic is dispatched *)
(* from the outermost call inwards, one wrapper a step.                    *)
(***************************************************************************)
EXTENDS RuntimeCalls, FiniteSets

CONSTANTS None,       \* an absent optional value
          Member,     \* accounts that sign, grant and are granted proxies
          SudoKey,    \* the account whose key Sudo holds
          Leaf,       \* the calls that are tried
          MaxHops,    \* bound: wrappers around a call
          MaxGrants   \* bound: proxies at once, and types that accounts grant over time

ProxyType == {"Any", "NonTransfer", "CancelProxy", "Assets", "AssetOwner", "AssetManager",
              "Collator"}

ASSUME ProxiesAssumption ==
    /\ SudoKey \in Member /\ MaxHops \in Nat /\ MaxGrants \in Nat
    /\ \A c \in Leaf : c.pallet = "Proxy" /\ c.name = "add_proxy" =>
          c.delegate \in Member /\ c.type \in ProxyType

VARIABLES proxies,    \* proxies[a]: who may act for a, as what type
          frame,      \* the extrinsic being dispatched: its signer and its origin by now
          granted,    \* the types each account gave away itself
          last        \* the last call dispatched: signer, in whose name, with what origin

Batches == {"Utility", "Multisig"}
OwnerAssets == {"create", "start_destroy", "destroy_accounts", "destroy_approvals",
                "finish_destroy", "transfer_ownership", "set_team", "set_metadata",
                "clear_metadata", "set_min_balance"}
OwnerNfts == {"create", "destroy", "redeposit", "transfer_ownership", "set_team",
              "set_collection_max_supply", "lock_collection"}
ManagerAssets == {"mint", "burn", "freeze", "block", "thaw", "freeze_asset", "thaw_asset",
                  "touch_other", "refund_other"}
ManagerNfts == {"force_mint", "update_mint_settings", "mint_pre_signed",
                "set_attributes_pre_signed", "lock_item_transfer", "unlock_item_transfer",
                "lock_item_properties", "set_metadata", "clear_metadata",
                "set_collection_metadata", "clear_collection_metadata"}

\* InstanceFilter::filter, of the development runtime.
DevnetFilter(t, c) ==
    \/ t = "Any"
    \/ t = "NonTransfer" /\ c.pallet \notin {"Balances", "Assets", "Nfts"}
    \/ t = "CancelProxy" /\ c.pallet = "Proxy" /\ c.name = "reject_announcement"
    \/ t = "Assets" /\ c.pallet \in {"Assets", "Nfts"}
    \/ t = "AssetOwner" /\ c.pallet = "Assets" /\ c.name \in OwnerAssets
    \/ t = "AssetOwner" /\ c.pallet = "Nfts" /\ c.name \in OwnerNfts
    \/ t = "AssetManager" /\ c.pallet = "Assets" /\ c.name \in ManagerAssets
    \/ t = "AssetManager" /\ c.pallet = "Nfts" /\ c.name \in ManagerNfts
    \/ t = "Collator" /\ c.pallet = "CollatorSelection"
    \/ t \notin {"Any", "NonTransfer"} /\ c.pallet \in Batches

\* The test network's copy of the same lists.
TestnetFilter(t, c) == DevnetFilter(t, c)

\* InstanceFilter::filter of the main network, which has neither Assets nor Nfts.
MainnetFilter(t, c) ==
    \/ t = "Any"
    \/ t = "NonTransfer" /\ c.pallet # "Balances"
    \/ t = "CancelProxy" /\ c.pallet = "Proxy" /\ c.name = "reject_announcement"
    \/ t = "Collator" /\ c.pallet = "CollatorSelection"
    \/ t \notin {"Any", "NonTransfer"} /\ c.pallet \in Batches

filter(rt, t, c) ==
    \/ rt = "devnet" /\ DevnetFilter(t, c)
    \/ rt = "testnet" /\ TestnetFilter(t, c)
    \/ rt = "mainnet" /\ MainnetFilter(t, c)

\* A bug: every type but Any is taken to cover the management of assets.
is_superset_of_managers(s, o) == s = o \/ s = "Any" \/ o = "AssetManager"

\* ProxyType::is_superset.
is_superset(s, o) ==
    \/ s = o
    \/ s = "Any"
    \/ s = "Assets" /\ o \in {"AssetOwner", "AssetManager"}
    \/ s = "NonTransfer" /\ o = "Collator"
-----------------------------------------------------------------------------
\* The filter pallet-proxy adds to the origin it dispatches with.
Permits(rt, t, c) ==
    /\ c.pallet = "Proxy" /\ c.name \in {"add_proxy", "remove_proxy"} => is_superset(t, c.type)
    /\ c.pallet = "Proxy" /\ c.name = "remove_proxies" => t = "Any"
    /\ filter(rt, t, c)

\* An origin: an account, or Root, and the proxy types its calls are filtered by.
Signed(a) == [who |-> a, types |-> {}]
Root == [who |-> "Root", types |-> {}]

\* Whether an origin may dispatch a call at all: Root is not filtered.
MayDispatch(rt, o, c) ==
    \/ o = Root
    \/ BaseCallFilter(c) /\ \A t \in o.types : Permits(rt, t, c)

\* A call that carries another: Utility.batch, Sudo.sudo, Proxy.proxy.
Wrapper(pallet, name) == [pallet |-> pallet, name |-> name, delegate |-> None, type |-> None]

\* What a call that is tried asks of its origin: Root alone (ensure_root), Root or an
\* account (the ForceOrigin of Nfts.force_mint), or an account (ensure_signed).
RootOnly(c) == c.pallet = "Balances" /\ c.name \in FilteredCalls
RootOrSigned(c) == c.pallet = "Nfts" /\ c.name = "force_mint"
OriginAccepted(c, o) == RootOrSigned(c) \/ (RootOnly(c) <=> o = Root)
-----------------------------------------------------------------------------
proxiesVars == <<proxies, frame, granted, last>>

ProxiesInit ==
    /\ proxies = [a \in Member |-> {}]
    /\ granted = [a \in Member |-> {}]
    /\ frame = None
    /\ last = None

\* A signed extrinsic enters the runtime.
Submit(signer) ==
    /\ frame = None
    /\ frame' = [signer |-> signer, origin |-> Signed(signer), hops |-> 0]
    /\ last' = None
    /\ UNCHANGED <<proxies, granted>>

\* The call is a wrapper: the inner call is dispatched with the origin o.
Enter(rt, h, o) ==
    /\ frame # None /\ frame.hops < MaxHops
    /\ MayDispatch(rt, frame.origin, h)
    /\ frame' = [frame EXCEPT !.origin = o, !.hops = @ + 1]
    /\ UNCHANGED <<proxies, granted, last>>

\* Utility.batch: the origin and its filters are kept.
EnterBatch(rt) ==
    /\ frame # None
    /\ Enter(rt, Wrapper("Utility", "batch"), frame.origin)

\* Sudo.sudo: as Root, when the sudo key asks.
EnterSudo(rt) ==
    /\ frame # None /\ frame.origin.who = SudoKey
    /\ Enter(rt, Wrapper("Sudo", "sudo"), Root)

\* Proxy.proxy: from the real account, with the one filter of the proxy found.
EnterProxy(rt, real, t) ==
    /\ frame # None
    /\ [delegate |-> frame.origin.who, type |-> t] \in proxies[real]
    /\ Enter(rt, Wrapper("Proxy", "proxy"), [who |-> real, types |-> {t}])

\* The innermost call fails, and with it the extrinsic.
Refuse(rt, c) ==
    /\ frame # None
    /\ ~ MayDispatch(rt, frame.origin, c) \/ ~ OriginAccepted(c, frame.origin)
    /\ frame' = None /\ last' = None
    /\ UNCHANGED <<proxies, granted>>

\* The pairs of an account and an element of its set.
Pairs(f) == UNION {{<<a, p>> : p \in f[a]} : a \in Member}

\* The innermost call is dispatched.
Dispatch(rt, c) ==
    /\ frame # None
    /\ MayDispatch(rt, frame.origin, c)
    /\ OriginAccepted(c, frame.origin)
    /\ frame' = None
    /\ last' = [signer |-> frame.signer, origin |-> frame.origin, call |-> c]

\* Whether c is one of the calls of the proxy pallet named in names.
ProxyCall(c, names) == c.pallet = "Proxy" /\ c.name \in names

\* A call that leaves the proxies as they are.
DispatchOther(rt, c) ==
    /\ ~ ProxyCall(c, {"add_proxy", "remove_proxy", "remove_proxies"})
    /\ Dispatch(rt, c)
    /\ UNCHANGED <<proxies, granted>>

\* Proxy.add_proxy: nobody is a proxy of itself, and a proxy is added once.
add_proxy(rt, c) ==
    /\ ProxyCall(c, {"add_proxy"})
    /\ Cardinality(Pairs(proxies)) < MaxGrants
    /\ Cardinality(Pairs(granted)) < MaxGrants
    /\ Dispatch(rt, c)
    /\ LET a == frame.origin.who
           p == [delegate |-> c.delegate, type |-> c.type]
       IN  /\ c.delegate # a /\ p \notin proxies[a]
           /\ proxies' = [proxies EXCEPT ![a] = @ \cup {p}]
           /\ granted' = IF frame.origin = Signed(frame.signer)
                         THEN [granted EXCEPT ![a] = @ \cup {c.type}] ELSE granted

\* Proxy.remove_proxy of one proxy, Proxy.remove_proxies of all.
remove_proxies(rt, c) ==
    /\ ProxyCall(c, {"remove_proxy", "remove_proxies"})
    /\ Dispatch(rt, c)
    /\ LET a == frame.origin.who
           gone == IF c.name = "remove_proxies" THEN proxies[a]
                   ELSE {[delegate |-> c.delegate, type |-> c.type]}
       IN  /\ gone \subseteq proxies[a]
           /\ proxies' = [proxies EXCEPT ![a] = @ \ gone]
    /\ UNCHANGED granted

ProxiesNext(rt) ==
    \/ \E a \in Member : Submit(a)
    \/ EnterBatch(rt)
    \/ EnterSudo(rt)
    \/ \E a \in Member, t \in ProxyType : EnterProxy(rt, a, t)
    \/ \E c \in Leaf : \/ Refuse(rt, c)
                       \/ DispatchOther(rt, c)
                       \/ add_proxy(rt, c)
                       \/ remove_proxies(rt, c)
=============================================================================
