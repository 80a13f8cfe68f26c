---------------------------- MODULE NftsStorage ----------------------------
(***************************************************************************)
(* The storage of pallet-nfts (pallets/nfts/src/lib.rs), the types of what *)
(* it holds (types.rs) and the helpers every feature uses.                 *)
(*                                                                         *)
(* A storage map is a total function whose value is None where the map has *)
(* no entry; a map to () is the set of its keys; the roles of an account   *)
(* and the attribute approvals of an item, whose stored values are never   *)
(* needed empty, are sets with {} for "no entry".  Byte strings (attribute *)
(* values, metadata) are represented by their length, which is all the     *)
(* deposits depend on; BitFlags are the sets of DISABLED settings, as in   *)
(* the code.                                                               *)
(*                                                                         *)
(* A dispatchable that returns Err is rolled back by FRAME, so an action   *)
(* describes the successful call only: its guards are the code's error     *)
(* conditions, and a failing call is a stuttering step.                    *)
(***************************************************************************)
EXTENDS Balances, FiniteSetsExt, Functions

CONSTANTS
    AccountId,                      \* the accounts of the chain
    Root,                           \* the origin T::ForceOrigin accepts
    None,                           \* Option::None, or no entry in a map
    MaxCollectionId,                \* the largest CollectionId (u32::MAX)
    ItemId,                         \* the item ids in use
    Key,                            \* the attribute keys clients use
    KeyLen,                         \* the length of each of them
    Forever,                        \* a transfer approval without a deadline
    U32Max,                         \* the largest u32
    Features,                       \* the pallet features that are enabled
    CollectionDeposit, ItemDeposit, MetadataDepositBase,
    AttributeDepositBase, DepositPerByte,
    ApprovalsLimit, ItemAttributesApprovalsLimit, MaxDeadlineDuration

CollectionId == 0..MaxCollectionId

ASSUME StorageAssumption ==
    /\ MaxCollectionId \in Nat
    /\ U32Max \in Nat
    /\ KeyLen \in Nat
    /\ CollectionDeposit \in Nat /\ ItemDeposit \in Nat
    /\ MetadataDepositBase \in Nat /\ AttributeDepositBase \in Nat /\ DepositPerByte \in Nat
    /\ ApprovalsLimit \in Nat /\ ItemAttributesApprovalsLimit \in Nat
    /\ MaxDeadlineDuration \in Nat

\* Option::None is none of the values, nor is Root an account or Forever a block.
ASSUME NoneAssumption ==
    /\ None \notin AccountId /\ None \notin ItemId /\ None \notin Nat
    /\ Root \notin AccountId
    /\ Forever \notin Nat /\ Forever # None

\* Both sets of ids are finite, and an item fits the u32 counters.
ASSUME FinitenessAssumption ==
    /\ IsFiniteSet(AccountId) /\ IsFiniteSet(ItemId) /\ IsFiniteSet(Key)
    /\ Cardinality(ItemId) <= U32Max

VARIABLES
    Collection, OwnershipAcceptance, Account, CollectionAccount, CollectionRoleOf, Item,
    CollectionMetadataOf, ItemMetadataOf, Attribute, ItemPriceOf, ItemAttributesApprovalsOf,
    NextCollectionId, PendingSwapOf, CollectionConfigOf, ItemConfigOf,
    bal,                            \* the balance sheet of the currency
    consumers,                      \* frame_system: references this pallet holds on accounts
    now                             \* the current block number

collectionVars == <<Collection, CollectionAccount, CollectionRoleOf, CollectionConfigOf,
                    CollectionMetadataOf, NextCollectionId>>
itemVars       == <<Item, Account, ItemConfigOf, ItemMetadataOf>>
offerVars      == <<ItemPriceOf, PendingSwapOf>>
attributeVars  == <<Attribute, ItemAttributesApprovalsOf>>
acceptanceVars == <<OwnershipAcceptance, consumers>>
vars == <<collectionVars, itemVars, offerVars, attributeVars, acceptanceVars, bal, now>>
-----------------------------------------------------------------------------
(* types.rs *)

u32 == 0..U32Max
Option(S) == S \cup {None}

CollectionSetting == {"TransferableItems", "UnlockedMetadata", "UnlockedAttributes",
                      "UnlockedMaxSupply", "DepositRequired"}
ItemSetting       == {"Transferable", "UnlockedMetadata", "UnlockedAttributes"}
CollectionRole    == {"Issuer", "Freezer", "Admin"}
PalletFeature     == {"Trading", "Attributes", "Approvals", "Swaps"}

Issuer      == <<"Issuer">>
Public      == <<"Public">>
HolderOf(c) == <<"HolderOf", c>>
MintType    == {Issuer, Public} \cup {HolderOf(c) : c \in CollectionId}

MintSettings == [mint_type : MintType, price : Option(Nat), start_block : Option(Nat),
                 end_block : Option(Nat), default_item_settings : SUBSET ItemSetting]

CollectionConfig == [settings : SUBSET CollectionSetting, max_supply : Option(Nat),
                     mint_settings : MintSettings]

CollectionDetails == [owner : AccountId, owner_deposit : Nat, items : u32,
                      item_metadatas : u32, item_configs : u32, attributes : u32]

ItemDetails == [owner : AccountId,
                approvals : [AccountId -> Nat \cup {Forever, None}],
                deposit_account : AccountId, deposit_amount : Nat]

\* CollectionMetadata, and ItemMetadata and an attribute's value with their
\* AttributeDeposit / ItemMetadataDeposit.
CollectionMetadata == [deposit : Nat, data : Nat]
Deposited          == [data : Nat, account : Option(AccountId), amount : Nat]

ItemPriceInfo      == [price : Nat, buyer : Option(AccountId)]
PriceWithDirection == [amount : Nat, direction : {"Send", "Receive"}]
PendingSwap        == [desired_collection : CollectionId, desired_item : Option(ItemId),
                       price : Option(PriceWithDirection), deadline : Nat]

\* Option::None is not a value of any of the types it is used with.
ASSUME OptionAssumption ==
    /\ None \notin CollectionDetails /\ None \notin CollectionConfig
    /\ None \notin CollectionMetadata /\ None \notin Deposited
    /\ None \notin ItemDetails /\ \A config \in SUBSET ItemSetting : config # None
    /\ None \notin ItemPriceInfo /\ None \notin PendingSwap /\ None \notin PriceWithDirection

\* AttributeNamespace, and the keys of the Pallet namespace.
Pallet           == <<"Pallet">>
CollectionOwner  == <<"CollectionOwner">>
ItemOwner        == <<"ItemOwner">>
AccountNs(a)     == <<"Account", a>>
ClientNamespace  == {CollectionOwner, ItemOwner} \cup {AccountNs(a) : a \in AccountId}
TransferDisabled == <<"TransferDisabled">>
UsedToClaim(c)   == <<"UsedToClaim", c>>
PalletAttributes == {TransferDisabled} \cup {UsedToClaim(c) : c \in CollectionId}

\* The keys of the Attribute map below a collection.
AttributeKey == (Option(ItemId) \X ClientNamespace \X Key)
                \cup (Option(ItemId) \X {Pallet} \X (Key \cup PalletAttributes))
-----------------------------------------------------------------------------
StorageTypeOK ==
    /\ Collection \in [CollectionId -> Option(CollectionDetails)]
    /\ OwnershipAcceptance \in [AccountId -> Option(CollectionId)]
    /\ Account \subseteq AccountId \X CollectionId \X ItemId
    /\ CollectionAccount \subseteq AccountId \X CollectionId
    /\ CollectionRoleOf \in [CollectionId -> [AccountId -> SUBSET CollectionRole]]
    /\ Item \in [CollectionId -> [ItemId -> Option(ItemDetails)]]
    /\ CollectionMetadataOf \in [CollectionId -> Option(CollectionMetadata)]
    /\ ItemMetadataOf \in [CollectionId -> [ItemId -> Option(Deposited)]]
    /\ Attribute \in [CollectionId -> [AttributeKey -> Option(Deposited)]]
    /\ ItemPriceOf \in [CollectionId -> [ItemId -> Option(ItemPriceInfo)]]
    /\ ItemAttributesApprovalsOf \in [CollectionId -> [ItemId -> SUBSET AccountId]]
    /\ NextCollectionId \in Option(CollectionId)
    /\ PendingSwapOf \in [CollectionId -> [ItemId -> Option(PendingSwap)]]
    /\ CollectionConfigOf \in [CollectionId -> Option(CollectionConfig)]
    /\ ItemConfigOf \in [CollectionId -> [ItemId -> Option(SUBSET ItemSetting)]]
    /\ bal \in BalanceSheet(AccountId)
    /\ consumers \in [AccountId -> Nat]
    /\ now \in Nat

NoApprovals == [a \in AccountId |-> None]

\* Genesis: empty storage, initialFree to spend on every account, block 1.
StorageInit(initialFree) ==
    /\ Collection = [c \in CollectionId |-> None]
    /\ OwnershipAcceptance = [a \in AccountId |-> None]
    /\ Account = {} /\ CollectionAccount = {}
    /\ CollectionRoleOf = [c \in CollectionId |-> [a \in AccountId |-> {}]]
    /\ Item = [c \in CollectionId |-> [i \in ItemId |-> None]]
    /\ CollectionMetadataOf = [c \in CollectionId |-> None]
    /\ ItemMetadataOf = [c \in CollectionId |-> [i \in ItemId |-> None]]
    /\ Attribute = [c \in CollectionId |-> [k \in AttributeKey |-> None]]
    /\ ItemPriceOf = [c \in CollectionId |-> [i \in ItemId |-> None]]
    /\ ItemAttributesApprovalsOf = [c \in CollectionId |-> [i \in ItemId |-> {}]]
    /\ NextCollectionId = None
    /\ PendingSwapOf = [c \in CollectionId |-> [i \in ItemId |-> None]]
    /\ CollectionConfigOf = [c \in CollectionId |-> None]
    /\ ItemConfigOf = [c \in CollectionId |-> [i \in ItemId |-> None]]
    /\ bal = [free |-> [a \in AccountId |-> initialFree], reserved |-> [a \in AccountId |-> 0]]
    /\ consumers = [a \in AccountId |-> 0]
    /\ now = 1
-----------------------------------------------------------------------------
(* Helpers *)

\* saturating_inc and saturating_dec on a u32 counter.
SatInc(n) == IF n < U32Max THEN n + 1 ELSE n
SatDec(n) == IF n > 0 THEN n - 1 ELSE 0

\* ensure_signed, and the Option<AccountId> a handler gets from an origin that
\* may also be T::ForceOrigin: Root stands for its None, a check to skip.
Signed(origin) == origin \in AccountId
MaybeCheck(origin, account) == origin = Root \/ origin = account

is_pallet_feature_enabled(feature) == feature \in Features

\* is_setting_enabled on the config of a collection or of an item that exists.
CollectionSettingEnabled(c, setting) == setting \notin CollectionConfigOf[c].settings
ItemSettingEnabled(c, i, setting)    == setting \notin ItemConfigOf[c][i]

has_role(c, who, role) == role \in CollectionRoleOf[c][who]

\* The accounts find_account_by_role may return: it takes the first record in
\* the map's hash order.
AccountsByRole(c, role) == {a \in AccountId : has_role(c, a, role)}

RoleOrRoot(origin, c, role) == origin = Root \/ (Signed(origin) /\ has_role(c, origin, role))

has_system_attribute(c, i, key) == Attribute[c][<<i, Pallet, key>>] # None

\* The deposits that depend on DepositRequired and on the length of the data.
ItemDepositOf(c) == IF CollectionSettingEnabled(c, "DepositRequired") THEN ItemDeposit ELSE 0
MetadataDeposit(len)  == DepositPerByte * len + MetadataDepositBase
AttributeDeposit(len) == DepositPerByte * (KeyLen + len) + AttributeDepositBase

\* What an account, or None for the collection's owner, has on deposit for an entry of
\* ItemMetadataOf or Attribute, and for all of them below a collection.
PaidFor(account, entry) == IF entry # None /\ entry.account = account THEN entry.amount ELSE 0
DepositedBy(account, entries) ==
    SumFunction([k \in DOMAIN entries |-> PaidFor(account, entries[k])])
=============================================================================
