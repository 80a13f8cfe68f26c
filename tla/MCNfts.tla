------------------------------- MODULE MCNfts -------------------------------
(***************************************************************************)
(* Instances of Nfts for TLC.                                              *)
(***************************************************************************)
EXTENDS NftsProperties, TLC

CONSTANTS a1, a2, a3, a4

Settings(mint_type, price, default) ==
    [mint_type |-> mint_type, price |-> price, start_block |-> None, end_block |-> None,
     default_item_settings |-> default]

Config(disabled, max_supply, mint_settings) ==
    [settings |-> disabled, max_supply |-> max_supply, mint_settings |-> mint_settings]

PublicConfig == Config({}, None, Settings(Public, None, {}))

\* by[n] for the calls by names, nobody for the others.
CallersOf(by) == [n \in CallName |-> IF n \in DOMAIN by THEN by[n] ELSE {}]
-----------------------------------------------------------------------------
\* Two accounts sell, swap and burn two items.
TradingCallers == CallersOf(
    [create |-> {a1}, mint |-> {a1}, burn |-> {a2}, set_price |-> AccountId,
     buy_item |-> AccountId, create_swap |-> AccountId, cancel_swap |-> {a2},
     claim_swap |-> AccountId, pay_tips |-> {a1}])
TradingConfigs == {PublicConfig}
TradingSymmetry == Permutations(ItemId)
-----------------------------------------------------------------------------
\* The item of a1, which a2 may also come to own, and a delegate a3.
DelegationCallers == CallersOf(
    [create |-> {a1}, mint |-> {a1}, burn |-> {a1, a2}, transfer |-> {a3},
     approve_transfer |-> {a1, a2, Root}, cancel_approval |-> {a1, a2, a3},
     clear_all_transfer_approvals |-> {a1, a2}, set_price |-> {a1, a2}, buy_item |-> {a2},
     lock_item_transfer |-> {a1}, unlock_item_transfer |-> {a1},
     fractionalize |-> {a1, a2}, unify |-> {a2}])
DelegationConfigs == {PublicConfig}
-----------------------------------------------------------------------------
\* Roles and ownership of a collection; with one id, destroyed collections are
\* followed by others under the same id.
GovernanceCallers == CallersOf(
    [create |-> {a1, a2}, destroy |-> AccountId, set_team |-> AccountId \cup {Root},
     set_accept_ownership |-> AccountId, transfer_ownership |-> AccountId,
     force_collection_owner |-> {Root}])
GovernanceConfigs == {PublicConfig}
-----------------------------------------------------------------------------
\* Attribute deposits, of the owner, of item owners and of approved accounts.
FreeConfig == Config({"DepositRequired"}, None, Settings(Public, None, {}))
AttributesCallers == CallersOf(
    [create |-> {a1}, destroy |-> {a1, Root}, mint |-> {a2}, burn |-> {a1, a2},
     transfer |-> {a1, a2}, force_collection_owner |-> {Root},
     force_collection_config |-> {Root},
     set_attribute |-> {a1, a2}, clear_attribute |-> {a1, a2},
     approve_item_attributes |-> {a1, a2}, cancel_item_attributes_approval |-> {a1, a2}])
AttributesConfigs == {PublicConfig, FreeConfig}
-----------------------------------------------------------------------------
\* Locks of a collection and of an item, which may be burned and minted again, by one
\* account in every role: what keeps it from a change is a lock and not a permission.
SignedData(key_len, metadata) ==
    [attributes |-> key_len, metadata |-> metadata, only_account |-> None, deadline |-> 1,
     mint_price |-> None]
AnyKey == CHOOSE key \in Key : TRUE
LocksCallers == CallersOf(
    [n \in {"create", "mint", "force_mint", "mint_pre_signed", "burn",
            "lock_collection", "lock_item_properties", "update_mint_settings",
            "set_collection_max_supply", "set_collection_metadata", "clear_collection_metadata",
            "set_metadata", "clear_metadata", "set_attribute", "clear_attribute",
            "set_attributes_pre_signed"} |-> AccountId])
LocksConfigs == {PublicConfig}
LocksItemConfigs == {{}, {"UnlockedMetadata"}}
LocksMintSettingsArgs == {Settings(Public, None, {"UnlockedAttributes"})}
LocksLockSettings == {{"UnlockedMaxSupply"}, {"UnlockedMetadata"}, {"UnlockedAttributes"}}
LocksMintData == {SignedData([key |-> AnyKey, len |-> 1], 2)}
-----------------------------------------------------------------------------
\* A collection of two items, and one minted by the holders of the first one's items.
ClaimsCallers == CallersOf(
    [create |-> {a1}, mint |-> {a1, a2}, burn |-> {a1, a2}, transfer |-> {a1, a2},
     clear_attribute |-> {a1, a2}])
ClaimsConfigs == {PublicConfig, Config({}, None, Settings(HolderOf(0), None, {}))}
-----------------------------------------------------------------------------
\* Every way to create, fill, empty and destroy a collection, under one id, with the
\* deposits for items and metadata.
StructureCallers == CallersOf(
    [create |-> {a1}, force_create |-> {Root}, destroy |-> {a1, Root}, mint |-> {a2},
     force_mint |-> {a1}, mint_pre_signed |-> {a2}, burn |-> {a2, Root}, redeposit |-> {a1, a2},
     force_collection_owner |-> {Root}, force_collection_config |-> {Root},
     lock_item_properties |-> {a1}, approve_item_attributes |-> {a2},
     set_metadata |-> {a1, Root}, clear_metadata |-> {a1, Root},
     set_collection_metadata |-> {a1, Root}, clear_collection_metadata |-> {a1, Root},
     force_set_attribute |-> {Root}])
StructureForceKeys == {<<1, Pallet, TransferDisabled>>}
StructureConfigs == {PublicConfig, FreeConfig}
StructureItemConfigs == {{}, {"UnlockedMetadata"}}
StructureMintData == {SignedData(None, 0)}
-----------------------------------------------------------------------------
(* Instances in which a comment of the code is contradicted.                     *)

\* The owner of an item replaces, with pre-signed data, an attribute of the
\* CollectionOwner namespace that the collection's owner paid for.
ReplacedDepositCallers == CallersOf(
    [create |-> {a1}, mint |-> {a2}, set_attribute |-> {a1}, set_attributes_pre_signed |-> {a2}])
ReplacedDepositConfigs == {PublicConfig}

\* The item's owner submits, and pays for, an attribute that a2 signed.
DelegateRefundCallers == CallersOf(
    [create |-> {a1}, mint |-> {a1}, set_attributes_pre_signed |-> {a1},
     cancel_item_attributes_approval |-> {a1}])
DelegateRefundConfigs == {PublicConfig}

\* a1 offers its item, a2 cancels swaps and never owns an item.
SwapExpiryCallers == CallersOf(
    [create |-> {a1}, force_mint |-> {a1}, create_swap |-> {a1}, cancel_swap |-> {a2}])
SwapExpiryConfigs == {PublicConfig}
=============================================================================
