-------------------------------- MODULE Nfts --------------------------------
(***************************************************************************)
(* pallet-nfts: its dispatchables (pallets/nfts/src/lib.rs), the trait     *)
(* operations pallet-nft-fractionalization calls (impl_nonfungibles.rs),   *)
(* and the specification of the pallet.                                    *)
(*                                                                         *)
(* Transactions of a block run one after the other, each atomically, so an *)
(* action is a whole dispatchable and the interleaving is that of the      *)
(* calls of different origins.  Between two calls an account has seen, or  *)
(* signed, a state that is no longer the current one.                      *)
(***************************************************************************)
EXTENDS NftsCollections, NftsTrading, NftsData

CallName == {"create", "force_create", "destroy", "mint", "force_mint", "burn", "transfer",
    "redeposit", "lock_item_transfer", "unlock_item_transfer", "lock_collection",
    "transfer_ownership", "set_team", "force_collection_owner", "force_collection_config",
    "approve_transfer", "cancel_approval", "clear_all_transfer_approvals",
    "lock_item_properties", "set_attribute", "force_set_attribute", "clear_attribute",
    "approve_item_attributes", "cancel_item_attributes_approval", "set_metadata",
    "clear_metadata", "set_collection_metadata", "clear_collection_metadata",
    "set_accept_ownership", "set_collection_max_supply", "update_mint_settings", "set_price",
    "buy_item", "pay_tips", "create_swap", "cancel_swap", "claim_swap", "mint_pre_signed",
    "set_attributes_pre_signed", "fractionalize", "unify"}

Origin == AccountId \cup {Root}

\* What clients submit: who makes which call, and the arguments they choose from.
CONSTANTS
    Callers,            \* the origins that make each call
    InitialFree,        \* what every account can spend at genesis
    Configs,            \* collection configs
    ItemConfigs,        \* item configs, as sets of disabled settings
    MintSettingsArgs,   \* mint settings
    MaxSupplies,        \* maximal supplies
    LockSettings,       \* sets of collection settings to lock
    Lengths,            \* lengths of values and metadata
    Prices,             \* prices, bids, tips
    Durations,          \* durations and deadlines, in blocks
    MintData,           \* the data of pre-signed mints
    ForceKeys,          \* the attributes root sets
    MaxBlock            \* the last block

PreSignedMint == [attributes : Option([key : Key, len : Nat]), metadata : Nat,
                  only_account : Option(AccountId), deadline : Nat, mint_price : Option(Nat)]

ASSUME ClientAssumption ==
    /\ Callers \in [CallName -> SUBSET Origin]
    /\ InitialFree \in Nat /\ MaxBlock \in Nat
    /\ \A config \in Configs : config \in CollectionConfig
    /\ \A config \in ItemConfigs : config \in SUBSET ItemSetting
    /\ \A settings \in MintSettingsArgs : settings \in MintSettings
    /\ \A settings \in LockSettings : settings \in SUBSET CollectionSetting
    /\ \A n \in MaxSupplies \cup Lengths \cup Prices \cup Durations : n \in Nat
    /\ \A data \in MintData : data \in PreSignedMint
    /\ ForceKeys \subseteq AttributeKey

Swaps == [amount : Prices, direction : {"Send", "Receive"}]
-----------------------------------------------------------------------------
(* The dispatchables.  Operations with the same name and meaning in the traits  *)
(* of impl_nonfungibles.rs call the same handlers.                              *)

create(origin, admin, config) ==
    /\ Signed(origin)
    /\ "DepositRequired" \notin config.settings
    /\ do_create_collection(NextId, origin, admin, config, CollectionDeposit)
    /\ set_next_collection_id(NextId)

force_create(origin, owner, config) ==
    /\ origin = Root
    /\ do_create_collection(NextId, owner, owner, config, 0)
    /\ set_next_collection_id(NextId)

destroy(origin, c) == do_destroy_collection(origin, c)

mint(origin, c, i, mint_to, owned_item, mint_price) ==
    Signed(origin) /\ mint_as(origin, c, i, mint_to, owned_item, mint_price)

force_mint(origin, c, i, mint_to, item_config) ==
    do_force_mint(origin, c, i, mint_to, item_config)

burn(origin, c, i) == do_burn(origin, c, i)

transfer(origin, c, i, dest) == Signed(origin) /\ transfer_item(origin, c, i, dest)

redeposit(origin, c, i) == Signed(origin) /\ redeposit_item(origin, c, i)

lock_item_transfer(origin, c, i) == Signed(origin) /\ do_lock_item_transfer(origin, c, i)

unlock_item_transfer(origin, c, i) == Signed(origin) /\ do_unlock_item_transfer(origin, c, i)

lock_collection(origin, c, lock_settings) ==
    Signed(origin) /\ do_lock_collection(origin, c, lock_settings)

transfer_ownership(origin, c, new_owner) ==
    Signed(origin) /\ do_transfer_ownership(origin, c, new_owner)

set_team(origin, c, team) == do_set_team(origin, c, team)

force_collection_owner(origin, c, owner) ==
    origin = Root /\ do_force_collection_owner(c, owner)

force_collection_config(origin, c, config) ==
    origin = Root /\ do_force_collection_config(c, config)

approve_transfer(origin, c, i, delegate, maybe_deadline) ==
    do_approve_transfer(origin, c, i, delegate, maybe_deadline)

cancel_approval(origin, c, i, delegate) == do_cancel_approval(origin, c, i, delegate)

clear_all_transfer_approvals(origin, c, i) == do_clear_all_transfer_approvals(origin, c, i)

lock_item_properties(origin, c, i, properties) ==
    do_lock_item_properties(origin, c, i, properties)

set_attribute(origin, c, k, len) ==
    /\ Signed(origin)
    /\ k[2] = CollectionOwner => Collection[c] # None
    /\ do_set_attribute(origin, c, k, len,
                        IF k[2] = CollectionOwner THEN Collection[c].owner ELSE origin)

force_set_attribute(origin, set_as, c, k, len) ==
    origin = Root /\ do_force_set_attribute(set_as, c, k, len)

clear_attribute(origin, c, k) == do_clear_attribute(origin, c, k)

approve_item_attributes(origin, c, i, delegate) ==
    Signed(origin) /\ do_approve_item_attributes(origin, c, i, delegate)

cancel_item_attributes_approval(origin, c, i, delegate) ==
    Signed(origin) /\ do_cancel_item_attributes_approval(origin, c, i, delegate)

set_metadata(origin, c, i, len) == do_set_item_metadata(origin, c, i, len)

clear_metadata(origin, c, i) == do_clear_item_metadata(origin, c, i)

set_collection_metadata(origin, c, len) == do_set_collection_metadata(origin, c, len)

clear_collection_metadata(origin, c) == do_clear_collection_metadata(origin, c)

set_accept_ownership(origin, maybe_collection) ==
    Signed(origin) /\ do_set_accept_ownership(origin, maybe_collection)

set_collection_max_supply(origin, c, max_supply) ==
    do_set_collection_max_supply(origin, c, max_supply)

update_mint_settings(origin, c, mint_settings) ==
    do_update_mint_settings(origin, c, mint_settings)

set_price(origin, c, i, price, whitelisted_buyer) ==
    Signed(origin) /\ do_set_price(origin, c, i, price, whitelisted_buyer)

buy_item(origin, c, i, bid_price) == Signed(origin) /\ do_buy_item(origin, c, i, bid_price)

pay_tips(origin, receiver, amount) == Signed(origin) /\ do_pay_tip(origin, receiver, amount)

create_swap(origin, c, i, desired_collection, maybe_desired_item, maybe_price, duration) ==
    /\ Signed(origin)
    /\ do_create_swap(origin, c, i, desired_collection, maybe_desired_item, maybe_price, duration)

cancel_swap(origin, c, i) == Signed(origin) /\ do_cancel_swap(origin, c, i)

claim_swap(origin, sc, si, rc, ri, witness_price) ==
    Signed(origin) /\ do_claim_swap(origin, sc, si, rc, ri, witness_price)

\* signer is an account whose signature over the data is valid.
mint_pre_signed(origin, c, i, data, signer) ==
    Signed(origin) /\ do_mint_pre_signed(origin, c, i, data, signer)

set_attributes_pre_signed(origin, c, k, len, deadline, signer) ==
    Signed(origin) /\ do_set_attributes_pre_signed(origin, c, k, len, deadline, signer)
-----------------------------------------------------------------------------
(* The trait operations of impl_nonfungibles.rs that pallet-nft-fractionalization *)
(* uses: it calls disable_transfer for the owner of an item, and later            *)
(* enable_transfer and transfer, in one call, for whoever unites the fractions.   *)

disable_transfer(c, i) ==
    /\ ~ has_system_attribute(c, i, TransferDisabled)
    /\ do_force_set_attribute(None, c, <<i, Pallet, TransferDisabled>>, 0)

fractionalize(origin, c, i) ==
    /\ Signed(origin)
    /\ Item[c][i] # None
    /\ Item[c][i].owner = origin
    /\ disable_transfer(c, i)

enable_transfer_and_transfer(c, i, dest) ==
    /\ has_system_attribute(c, i, TransferDisabled)
    /\ TransferAllowed(c, i)
    /\ Attribute' = [Attribute EXCEPT ![c][<<i, Pallet, TransferDisabled>>] = None]
    /\ Collection' = [Collection EXCEPT ![c].attributes = SatDec(@)]
    /\ MoveTo(c, i, dest)
    /\ UNCHANGED <<CollectionAccount, CollectionRoleOf, CollectionConfigOf, CollectionMetadataOf,
                   NextCollectionId, ItemConfigOf, ItemMetadataOf, ItemAttributesApprovalsOf,
                   acceptanceVars, bal, now>>

unify(origin, c, i, dest) == Signed(origin) /\ enable_transfer_and_transfer(c, i, dest)
-----------------------------------------------------------------------------
NextBlock ==
    /\ now < MaxBlock
    /\ now' = now + 1
    /\ UNCHANGED <<collectionVars, itemVars, offerVars, attributeVars, acceptanceVars, bal>>

ClientKey == {k \in AttributeKey : k[2] # Pallet}

CollectionNext ==
    \/ \E o \in Callers["create"], a \in AccountId, g \in Configs : create(o, a, g)
    \/ \E o \in Callers["force_create"], a \in AccountId, g \in Configs : force_create(o, a, g)
    \/ \E o \in Callers["destroy"], c \in CollectionId : destroy(o, c)
    \/ \E o \in Callers["lock_collection"], c \in CollectionId, s \in LockSettings :
          lock_collection(o, c, s)
    \/ \E o \in Callers["transfer_ownership"], c \in CollectionId, a \in AccountId :
          transfer_ownership(o, c, a)
    \/ \E o \in Callers["set_team"], c \in CollectionId,
          team \in [CollectionRole -> Option(AccountId)] : set_team(o, c, team)
    \/ \E o \in Callers["force_collection_owner"], c \in CollectionId, a \in AccountId :
          force_collection_owner(o, c, a)
    \/ \E o \in Callers["force_collection_config"], c \in CollectionId, g \in Configs :
          force_collection_config(o, c, g)
    \/ \E o \in Callers["set_accept_ownership"], m \in Option(CollectionId) :
          set_accept_ownership(o, m)
    \/ \E o \in Callers["set_collection_max_supply"], c \in CollectionId, n \in MaxSupplies :
          set_collection_max_supply(o, c, n)
    \/ \E o \in Callers["update_mint_settings"], c \in CollectionId, s \in MintSettingsArgs :
          update_mint_settings(o, c, s)

ItemNext ==
    \/ \E o \in Callers["mint"], c \in CollectionId, i \in ItemId, a \in AccountId,
          owned \in Option(ItemId), p \in Option(Prices) : mint(o, c, i, a, owned, p)
    \/ \E o \in Callers["force_mint"], c \in CollectionId, i \in ItemId, a \in AccountId,
          g \in ItemConfigs : force_mint(o, c, i, a, g)
    \/ \E o \in Callers["burn"], c \in CollectionId, i \in ItemId : burn(o, c, i)
    \/ \E o \in Callers["transfer"], c \in CollectionId, i \in ItemId, a \in AccountId :
          transfer(o, c, i, a)
    \/ \E o \in Callers["redeposit"], c \in CollectionId, i \in ItemId : redeposit(o, c, i)
    \/ \E o \in Callers["lock_item_transfer"], c \in CollectionId, i \in ItemId :
          lock_item_transfer(o, c, i)
    \/ \E o \in Callers["unlock_item_transfer"], c \in CollectionId, i \in ItemId :
          unlock_item_transfer(o, c, i)
    \/ \E o \in Callers["lock_item_properties"], c \in CollectionId, i \in ItemId,
          s \in SUBSET {"UnlockedMetadata", "UnlockedAttributes"} :
          lock_item_properties(o, c, i, s)
    \/ \E o \in Callers["fractionalize"], c \in CollectionId, i \in ItemId :
          fractionalize(o, c, i)
    \/ \E o \in Callers["unify"], c \in CollectionId, i \in ItemId, a \in AccountId :
          unify(o, c, i, a)

TradingNext ==
    \/ \E o \in Callers["approve_transfer"], c \in CollectionId, i \in ItemId, a \in AccountId,
          d \in Option(Durations) : approve_transfer(o, c, i, a, d)
    \/ \E o \in Callers["cancel_approval"], c \in CollectionId, i \in ItemId, a \in AccountId :
          cancel_approval(o, c, i, a)
    \/ \E o \in Callers["clear_all_transfer_approvals"], c \in CollectionId, i \in ItemId :
          clear_all_transfer_approvals(o, c, i)
    \/ \E o \in Callers["set_price"], c \in CollectionId, i \in ItemId, p \in Option(Prices),
          a \in Option(AccountId) : set_price(o, c, i, p, a)
    \/ \E o \in Callers["buy_item"], c \in CollectionId, i \in ItemId, p \in Prices :
          buy_item(o, c, i, p)
    \/ \E o \in Callers["pay_tips"], a \in AccountId, p \in Prices : pay_tips(o, a, p)
    \/ \E o \in Callers["create_swap"], c \in CollectionId, i \in ItemId, dc \in CollectionId,
          di \in Option(ItemId), p \in Option(Swaps), d \in Durations :
          create_swap(o, c, i, dc, di, p, d)
    \/ \E o \in Callers["cancel_swap"], c \in CollectionId, i \in ItemId : cancel_swap(o, c, i)
    \/ \E o \in Callers["claim_swap"], sc \in CollectionId, si \in ItemId, rc \in CollectionId,
          ri \in ItemId, p \in Option(Swaps) : claim_swap(o, sc, si, rc, ri, p)

DataNext ==
    \/ \E o \in Callers["set_attribute"], c \in CollectionId, k \in ClientKey, n \in Lengths :
          set_attribute(o, c, k, n)
    \/ \E o \in Callers["force_set_attribute"], a \in Option(AccountId), c \in CollectionId,
          k \in ForceKeys, n \in Lengths : force_set_attribute(o, a, c, k, n)
    \/ \E o \in Callers["clear_attribute"], c \in CollectionId, k \in AttributeKey :
          clear_attribute(o, c, k)
    \/ \E o \in Callers["approve_item_attributes"], c \in CollectionId, i \in ItemId,
          a \in AccountId : approve_item_attributes(o, c, i, a)
    \/ \E o \in Callers["cancel_item_attributes_approval"], c \in CollectionId, i \in ItemId,
          a \in AccountId : cancel_item_attributes_approval(o, c, i, a)
    \/ \E o \in Callers["set_metadata"], c \in CollectionId, i \in ItemId, n \in Lengths :
          set_metadata(o, c, i, n)
    \/ \E o \in Callers["clear_metadata"], c \in CollectionId, i \in ItemId :
          clear_metadata(o, c, i)
    \/ \E o \in Callers["set_collection_metadata"], c \in CollectionId, n \in Lengths :
          set_collection_metadata(o, c, n)
    \/ \E o \in Callers["clear_collection_metadata"], c \in CollectionId :
          clear_collection_metadata(o, c)
    \/ \E o \in Callers["mint_pre_signed"], c \in CollectionId, i \in ItemId, data \in MintData,
          signer \in AccountId : mint_pre_signed(o, c, i, data, signer)
    \/ \E o \in Callers["set_attributes_pre_signed"], c \in CollectionId, k \in ClientKey,
          n \in Lengths, d \in Durations, signer \in AccountId :
          set_attributes_pre_signed(o, c, k, n, d, signer)

Next == CollectionNext \/ ItemNext \/ TradingNext \/ DataNext \/ NextBlock

Init == StorageInit(InitialFree)

Spec == Init /\ [][Next]_vars
=============================================================================
