----------------------------- MODULE NftsTypes -----------------------------
(***************************************************************************)
(* The steps of pallet-nfts by handler, and the proof that TypeOK is an    *)
(* invariant.  Next is a disjunction of the dispatchables, several of      *)
(* which run the same handler; the proofs split on the handlers, with      *)
(* arguments of their types.  Then one lemma per handler, after lemmas     *)
(* about the currency, the deposits and the writes that several share.     *)
(***************************************************************************)
EXTENDS NftsProperties, TLAPS

\* The handlers, with arguments of their types: what a step does once its
\* dispatchable has decoded its arguments and checked its origin.
CollectionStep ==
    \/ \E owner, admin \in AccountId, config \in CollectionConfig, deposit \in Nat :
          /\ do_create_collection(NextId, owner, admin, config, deposit)
          /\ set_next_collection_id(NextId)
    \/ \E origin \in Origin, c \in CollectionId : do_destroy_collection(origin, c)
    \/ \E origin \in Origin, c \in CollectionId, team \in [CollectionRole -> Option(AccountId)] :
          do_set_team(origin, c, team)
    \/ \E origin \in Origin, c \in CollectionId :
          \/ \E config \in CollectionConfig : do_force_collection_config(c, config)
          \/ \E n \in Nat : do_set_collection_max_supply(origin, c, n)
          \/ \E s \in MintSettings : do_update_mint_settings(origin, c, s)
          \/ \E s \in SUBSET CollectionSetting : do_lock_collection(origin, c, s)
    \/ \E origin, a \in AccountId, c \in CollectionId : do_transfer_ownership(origin, c, a)
    \/ \E c \in CollectionId, a \in AccountId : do_force_collection_owner(c, a)
    \/ \E who \in AccountId, m \in Option(CollectionId) : do_set_accept_ownership(who, m)

\* The same for the items: minting, burning, transfers, deposits, locks and unify.
ItemStep ==
    \/ \E caller, mint_to \in AccountId, c \in CollectionId, i \in ItemId,
          owned \in Option(ItemId), p \in Option(Nat) :
             mint_as(caller, c, i, mint_to, owned, p)
    \/ \E origin \in Origin, c \in CollectionId, i \in ItemId, mint_to \in AccountId,
          config \in SUBSET ItemSetting : do_force_mint(origin, c, i, mint_to, config)
    \/ \E origin \in Origin, c \in CollectionId, i \in ItemId : do_burn(origin, c, i)
    \/ \E origin, dest \in AccountId, c \in CollectionId, i \in ItemId :
          transfer_item(origin, c, i, dest)
    \/ \E origin \in AccountId, c \in CollectionId, i \in ItemId : redeposit_item(origin, c, i)
    \/ \E origin \in Origin, c \in CollectionId, i \in ItemId :
          \/ do_lock_item_transfer(origin, c, i)
          \/ do_unlock_item_transfer(origin, c, i)
          \/ \E s \in SUBSET {"UnlockedMetadata", "UnlockedAttributes"} :
                do_lock_item_properties(origin, c, i, s)
    \/ \E c \in CollectionId, i \in ItemId, dest \in AccountId :
          enable_transfer_and_transfer(c, i, dest)

\* The same for approvals, sales, tips and swaps.
TradingStep ==
    \/ \E origin \in Origin, c \in CollectionId, i \in ItemId :
          \/ \E delegate \in AccountId, d \in Option(Nat) :
                do_approve_transfer(origin, c, i, delegate, d)
          \/ \E delegate \in AccountId : do_cancel_approval(origin, c, i, delegate)
          \/ do_clear_all_transfer_approvals(origin, c, i)
    \/ \E sender \in AccountId, c \in CollectionId, i \in ItemId, price \in Option(Nat),
          buyer \in Option(AccountId) : do_set_price(sender, c, i, price, buyer)
    \/ \E buyer \in AccountId, c \in CollectionId, i \in ItemId, bid \in Nat :
          do_buy_item(buyer, c, i, bid)
    \/ \E sender, receiver \in AccountId, amount \in Nat : do_pay_tip(sender, receiver, amount)
    \/ \E caller \in AccountId, c \in CollectionId, i \in ItemId :
          \/ \E dc \in CollectionId, di \in Option(ItemId), p \in Option(PriceWithDirection),
                duration \in Nat : do_create_swap(caller, c, i, dc, di, p, duration)
          \/ do_cancel_swap(caller, c, i)
    \/ \E caller \in AccountId, sc, rc \in CollectionId, si, ri \in ItemId,
          p \in Option(PriceWithDirection) :
          do_claim_swap(caller, sc, si, rc, ri, p)

\* The same for attributes, metadata and the pre-signed calls.
DataStep ==
    \/ \E origin, depositor \in AccountId, c \in CollectionId, k \in AttributeKey, n \in Nat :
          do_set_attribute(origin, c, k, n, depositor)
    \/ \E set_as \in Option(AccountId), c \in CollectionId, k \in AttributeKey, n \in Nat :
          do_force_set_attribute(set_as, c, k, n)
    \/ \E origin \in Origin, c \in CollectionId, k \in AttributeKey :
          do_clear_attribute(origin, c, k)
    \/ \E origin, delegate \in AccountId, c \in CollectionId, i \in ItemId :
          \/ do_approve_item_attributes(origin, c, i, delegate)
          \/ do_cancel_item_attributes_approval(origin, c, i, delegate)
    \/ \E origin \in Origin, c \in CollectionId, i \in ItemId, n \in Nat :
          do_set_item_metadata(origin, c, i, n)
    \/ \E origin \in Origin, c \in CollectionId, i \in ItemId :
          do_clear_item_metadata(origin, c, i)
    \/ \E origin \in Origin, c \in CollectionId, n \in Nat :
          do_set_collection_metadata(origin, c, n)
    \/ \E origin \in Origin, c \in CollectionId : do_clear_collection_metadata(origin, c)
    \/ \E mint_to, signer \in AccountId, c \in CollectionId, i \in ItemId,
          data \in PreSignedMint : do_mint_pre_signed(mint_to, c, i, data, signer)
    \/ \E origin, signer \in AccountId, c \in CollectionId, k \in AttributeKey, n, d \in Nat :
          do_set_attributes_pre_signed(origin, c, k, n, d, signer)

\* Clients choose arguments of the types the dispatchables declare.
LEMMA ArgumentTypes ==
    /\ \A n \in CallName : Callers[n] \subseteq Origin
    /\ Configs \subseteq CollectionConfig /\ ItemConfigs \subseteq SUBSET ItemSetting
    /\ MintSettingsArgs \subseteq MintSettings /\ LockSettings \subseteq SUBSET CollectionSetting
    /\ MaxSupplies \subseteq Nat /\ Lengths \subseteq Nat /\ Prices \subseteq Nat
    /\ Durations \subseteq Nat /\ MintData \subseteq PreSignedMint
    /\ ForceKeys \subseteq AttributeKey /\ ClientKey \subseteq AttributeKey
    /\ Option(Prices) \subseteq Option(Nat) /\ Option(Durations) \subseteq Option(Nat)
    /\ Option(Swaps) \subseteq Option(PriceWithDirection)
BY ClientAssumption DEF ClientKey, Option, Swaps, PriceWithDirection

\* Every collection call runs one of the handlers.
LEMMA CollectionNextStep == CollectionNext => CollectionStep
<1>1. ASSUME NEW o \in Callers["create"], NEW a \in AccountId, NEW g \in Configs,
             create(o, a, g)
      PROVE  CollectionStep
  BY <1>1, ArgumentTypes, StorageAssumption DEF create, Signed, CollectionStep
<1>2. ASSUME NEW o \in Callers["force_create"], NEW a \in AccountId, NEW g \in Configs,
             force_create(o, a, g)
      PROVE  CollectionStep
  BY <1>2, ArgumentTypes DEF CallName, force_create, Signed, CollectionStep
<1>3. ASSUME NEW o \in Callers["destroy"], NEW c \in CollectionId, destroy(o, c)
      PROVE  CollectionStep
  BY <1>3, ArgumentTypes DEF CallName, destroy, Signed, CollectionStep
<1>4. ASSUME NEW o \in Callers["lock_collection"], NEW c \in CollectionId,
             NEW s \in LockSettings, lock_collection(o, c, s)
      PROVE  CollectionStep
  BY <1>4, ArgumentTypes DEF CallName, lock_collection, Signed, CollectionStep
<1>5. ASSUME NEW o \in Callers["transfer_ownership"], NEW c \in CollectionId,
             NEW a \in AccountId, transfer_ownership(o, c, a)
      PROVE  CollectionStep
  BY <1>5, ArgumentTypes DEF CallName, transfer_ownership, Signed, CollectionStep
<1>6. ASSUME NEW o \in Callers["set_team"], NEW c \in CollectionId,
             NEW team \in [CollectionRole -> Option(AccountId)], set_team(o, c, team)
      PROVE  CollectionStep
  BY <1>6, ArgumentTypes DEF CallName, set_team, Signed, CollectionStep
<1>7. ASSUME NEW o \in Callers["force_collection_owner"], NEW c \in CollectionId,
             NEW a \in AccountId, force_collection_owner(o, c, a)
      PROVE  CollectionStep
  BY <1>7, ArgumentTypes DEF CallName, force_collection_owner, Signed, CollectionStep
<1>8. ASSUME NEW o \in Callers["force_collection_config"], NEW c \in CollectionId,
             NEW g \in Configs, force_collection_config(o, c, g)
      PROVE  CollectionStep
  BY <1>8, ArgumentTypes DEF CallName, force_collection_config, Signed, CollectionStep
<1>9. ASSUME NEW o \in Callers["set_accept_ownership"], NEW m \in Option(CollectionId),
             set_accept_ownership(o, m)
      PROVE  CollectionStep
  BY <1>9, ArgumentTypes DEF CallName, set_accept_ownership, Signed, CollectionStep
<1>10. ASSUME NEW o \in Callers["set_collection_max_supply"], NEW c \in CollectionId,
              NEW n \in MaxSupplies, set_collection_max_supply(o, c, n)
       PROVE  CollectionStep
  BY <1>10, ArgumentTypes DEF CallName, set_collection_max_supply, Signed, CollectionStep
<1>11. ASSUME NEW o \in Callers["update_mint_settings"], NEW c \in CollectionId,
              NEW s \in MintSettingsArgs, update_mint_settings(o, c, s)
       PROVE  CollectionStep
  BY <1>11, ArgumentTypes DEF CallName, update_mint_settings, Signed, CollectionStep
<1> QED
  BY <1>1, <1>2, <1>3, <1>4, <1>5, <1>6, <1>7, <1>8, <1>9, <1>10, <1>11 DEF CollectionNext

\* Every item call runs one of the handlers; fractionalize that of force_set_attribute.
LEMMA ItemNextStep == ItemNext => ItemStep \/ DataStep
<1>1. ASSUME NEW o \in Callers["mint"], NEW c \in CollectionId, NEW i \in ItemId,
             NEW a \in AccountId, NEW owned \in Option(ItemId), NEW p \in Option(Prices),
             mint(o, c, i, a, owned, p)
      PROVE  ItemStep \/ DataStep
  BY <1>1, ArgumentTypes DEF CallName, mint, Signed, ItemStep
<1>2. ASSUME NEW o \in Callers["force_mint"], NEW c \in CollectionId, NEW i \in ItemId,
             NEW a \in AccountId, NEW g \in ItemConfigs, force_mint(o, c, i, a, g)
      PROVE  ItemStep \/ DataStep
  BY <1>2, ArgumentTypes DEF CallName, force_mint, Signed, ItemStep
<1>3. ASSUME NEW o \in Callers["burn"], NEW c \in CollectionId, NEW i \in ItemId, burn(o, c, i)
      PROVE  ItemStep \/ DataStep
  BY <1>3, ArgumentTypes DEF CallName, burn, Signed, ItemStep
<1>4. ASSUME NEW o \in Callers["transfer"], NEW c \in CollectionId, NEW i \in ItemId,
             NEW a \in AccountId, transfer(o, c, i, a)
      PROVE  ItemStep \/ DataStep
  BY <1>4, ArgumentTypes DEF CallName, transfer, Signed, ItemStep
<1>5. ASSUME NEW o \in Callers["redeposit"], NEW c \in CollectionId, NEW i \in ItemId,
             redeposit(o, c, i)
      PROVE  ItemStep \/ DataStep
  BY <1>5, ArgumentTypes DEF CallName, redeposit, Signed, ItemStep
<1>6. ASSUME NEW o \in Callers["lock_item_transfer"], NEW c \in CollectionId, NEW i \in ItemId,
             lock_item_transfer(o, c, i)
      PROVE  ItemStep \/ DataStep
  BY <1>6, ArgumentTypes DEF CallName, lock_item_transfer, Signed, ItemStep
<1>7. ASSUME NEW o \in Callers["unlock_item_transfer"], NEW c \in CollectionId,
             NEW i \in ItemId, unlock_item_transfer(o, c, i)
      PROVE  ItemStep \/ DataStep
  BY <1>7, ArgumentTypes DEF CallName, unlock_item_transfer, Signed, ItemStep
<1>8. ASSUME NEW o \in Callers["lock_item_properties"], NEW c \in CollectionId,
             NEW i \in ItemId, NEW s \in SUBSET {"UnlockedMetadata", "UnlockedAttributes"},
             lock_item_properties(o, c, i, s)
      PROVE  ItemStep \/ DataStep
  BY <1>8, ArgumentTypes DEF CallName, lock_item_properties, Signed, ItemStep
<1>9. ASSUME NEW o \in Callers["fractionalize"], NEW c \in CollectionId, NEW i \in ItemId,
             fractionalize(o, c, i)
      PROVE  ItemStep \/ DataStep
  BY <1>9, ArgumentTypes DEF CallName, fractionalize, disable_transfer, Signed, AttributeKey, Option, PalletAttributes, DataStep
<1>10. ASSUME NEW o \in Callers["unify"], NEW c \in CollectionId, NEW i \in ItemId,
              NEW a \in AccountId, unify(o, c, i, a)
       PROVE  ItemStep \/ DataStep
  BY <1>10, ArgumentTypes DEF CallName, unify, Signed, ItemStep
<1> QED
  BY <1>1, <1>2, <1>3, <1>4, <1>5, <1>6, <1>7, <1>8, <1>9, <1>10 DEF ItemNext

\* Every trading call runs one of the handlers.
LEMMA TradingNextStep == TradingNext => TradingStep
<1>1. ASSUME NEW o \in Callers["approve_transfer"], NEW c \in CollectionId, NEW i \in ItemId,
             NEW a \in AccountId, NEW d \in Option(Durations), approve_transfer(o, c, i, a, d)
      PROVE  TradingStep
  BY <1>1, ArgumentTypes DEF CallName, approve_transfer, Signed, TradingStep
<1>2. ASSUME NEW o \in Callers["cancel_approval"], NEW c \in CollectionId, NEW i \in ItemId,
             NEW a \in AccountId, cancel_approval(o, c, i, a)
      PROVE  TradingStep
  BY <1>2, ArgumentTypes DEF CallName, cancel_approval, Signed, TradingStep
<1>3. ASSUME NEW o \in Callers["clear_all_transfer_approvals"], NEW c \in CollectionId,
             NEW i \in ItemId, clear_all_transfer_approvals(o, c, i)
      PROVE  TradingStep
  BY <1>3, ArgumentTypes DEF CallName, clear_all_transfer_approvals, Signed, TradingStep
<1>4. ASSUME NEW o \in Callers["set_price"], NEW c \in CollectionId, NEW i \in ItemId,
             NEW p \in Option(Prices), NEW a \in Option(AccountId), set_price(o, c, i, p, a)
      PROVE  TradingStep
  BY <1>4, ArgumentTypes DEF CallName, set_price, Signed, TradingStep
<1>5. ASSUME NEW o \in Callers["buy_item"], NEW c \in CollectionId, NEW i \in ItemId,
             NEW p \in Prices, buy_item(o, c, i, p)
      PROVE  TradingStep
  BY <1>5, ArgumentTypes DEF CallName, buy_item, Signed, TradingStep
<1>6. ASSUME NEW o \in Callers["pay_tips"], NEW a \in AccountId, NEW p \in Prices,
             pay_tips(o, a, p)
      PROVE  TradingStep
  BY <1>6, ArgumentTypes DEF CallName, pay_tips, Signed, TradingStep
<1>7. ASSUME NEW o \in Callers["create_swap"], NEW c \in CollectionId, NEW i \in ItemId,
             NEW dc \in CollectionId, NEW di \in Option(ItemId), NEW p \in Option(Swaps),
             NEW d \in Durations, create_swap(o, c, i, dc, di, p, d)
      PROVE  TradingStep
  BY <1>7, ArgumentTypes DEF CallName, create_swap, Signed, TradingStep
<1>8. ASSUME NEW o \in Callers["cancel_swap"], NEW c \in CollectionId, NEW i \in ItemId,
             cancel_swap(o, c, i)
      PROVE  TradingStep
  BY <1>8, ArgumentTypes DEF CallName, cancel_swap, Signed, TradingStep
<1>9. ASSUME NEW o \in Callers["claim_swap"], NEW sc \in CollectionId, NEW si \in ItemId,
             NEW rc \in CollectionId, NEW ri \in ItemId, NEW p \in Option(Swaps),
             claim_swap(o, sc, si, rc, ri, p)
      PROVE  TradingStep
  BY <1>9, ArgumentTypes DEF CallName, claim_swap, Signed, TradingStep
<1> QED
  BY <1>1, <1>2, <1>3, <1>4, <1>5, <1>6, <1>7, <1>8, <1>9 DEF TradingNext

\* Every data call runs one of the handlers.
LEMMA DataNextStep == TypeOK /\ DataNext => DataStep
<1> SUFFICES ASSUME TypeOK PROVE DataNext => DataStep
  OBVIOUS
<1>1. ASSUME NEW o \in Callers["set_attribute"], NEW c \in CollectionId, NEW k \in ClientKey,
             NEW n \in Lengths, set_attribute(o, c, k, n)
      PROVE  DataStep
  <2>1. PICK depositor \in AccountId : do_set_attribute(o, c, k, n, depositor)
    <3>1. CASE k[2] = CollectionOwner
      <4>1. Collection[c].owner \in AccountId
        BY <1>1, <3>1 DEF set_attribute, TypeOK, StorageTypeOK, Option, CollectionDetails
      <4> QED
        BY <1>1, <3>1, <4>1 DEF set_attribute
    <3>2. CASE k[2] # CollectionOwner
      BY <1>1, <3>2 DEF set_attribute, Signed
    <3> QED
      BY <3>1, <3>2
  <2> QED
    BY <1>1, <2>1, ArgumentTypes DEF CallName, set_attribute, Signed, DataStep
<1>2. ASSUME NEW o \in Callers["force_set_attribute"], NEW a \in Option(AccountId),
             NEW c \in CollectionId, NEW k \in ForceKeys, NEW n \in Lengths,
             force_set_attribute(o, a, c, k, n)
      PROVE  DataStep
  BY <1>2, ArgumentTypes DEF CallName, force_set_attribute, Signed, DataStep
<1>3. ASSUME NEW o \in Callers["clear_attribute"], NEW c \in CollectionId,
             NEW k \in AttributeKey, clear_attribute(o, c, k)
      PROVE  DataStep
  BY <1>3, ArgumentTypes DEF CallName, clear_attribute, Signed, DataStep
<1>4. ASSUME NEW o \in Callers["approve_item_attributes"], NEW c \in CollectionId,
             NEW i \in ItemId, NEW a \in AccountId, approve_item_attributes(o, c, i, a)
      PROVE  DataStep
  BY <1>4, ArgumentTypes DEF CallName, approve_item_attributes, Signed, DataStep
<1>5. ASSUME NEW o \in Callers["cancel_item_attributes_approval"], NEW c \in CollectionId,
             NEW i \in ItemId, NEW a \in AccountId, cancel_item_attributes_approval(o, c, i, a)
      PROVE  DataStep
  BY <1>5, ArgumentTypes DEF CallName, cancel_item_attributes_approval, Signed, DataStep
<1>6. ASSUME NEW o \in Callers["set_metadata"], NEW c \in CollectionId, NEW i \in ItemId,
             NEW n \in Lengths, set_metadata(o, c, i, n)
      PROVE  DataStep
  BY <1>6, ArgumentTypes DEF CallName, set_metadata, Signed, DataStep
<1>7. ASSUME NEW o \in Callers["clear_metadata"], NEW c \in CollectionId, NEW i \in ItemId,
             clear_metadata(o, c, i)
      PROVE  DataStep
  BY <1>7, ArgumentTypes DEF CallName, clear_metadata, Signed, DataStep
<1>8. ASSUME NEW o \in Callers["set_collection_metadata"], NEW c \in CollectionId,
             NEW n \in Lengths, set_collection_metadata(o, c, n)
      PROVE  DataStep
  BY <1>8, ArgumentTypes DEF CallName, set_collection_metadata, Signed, DataStep
<1>9. ASSUME NEW o \in Callers["clear_collection_metadata"], NEW c \in CollectionId,
             clear_collection_metadata(o, c)
      PROVE  DataStep
  BY <1>9, ArgumentTypes DEF CallName, clear_collection_metadata, Signed, DataStep
<1>10. ASSUME NEW o \in Callers["mint_pre_signed"], NEW c \in CollectionId, NEW i \in ItemId,
              NEW data \in MintData, NEW signer \in AccountId,
              mint_pre_signed(o, c, i, data, signer)
       PROVE  DataStep
  BY <1>10, ArgumentTypes DEF CallName, mint_pre_signed, Signed, DataStep
<1>11. ASSUME NEW o \in Callers["set_attributes_pre_signed"], NEW c \in CollectionId,
              NEW k \in ClientKey, NEW n \in Lengths, NEW d \in Durations,
              NEW signer \in AccountId, set_attributes_pre_signed(o, c, k, n, d, signer)
       PROVE  DataStep
  BY <1>11, ArgumentTypes DEF CallName, set_attributes_pre_signed, Signed, DataStep
<1> QED
  BY <1>1, <1>2, <1>3, <1>4, <1>5, <1>6, <1>7, <1>8, <1>9, <1>10, <1>11 DEF DataNext

\* A step of the pallet runs a handler or ends a block.
LEMMA NextStep ==
    TypeOK /\ Next => CollectionStep \/ ItemStep \/ TradingStep \/ DataStep \/ NextBlock
BY CollectionNextStep, ItemNextStep, TradingNextStep, DataNextStep DEF Next
-----------------------------------------------------------------------------
(* Types *)

\* Reserving what CanReserve admits leaves a balance sheet: no balance below zero.
LEMMA ReserveType ==
    ASSUME NEW b \in BalanceSheet(AccountId), NEW who \in AccountId, NEW amount \in Nat,
           CanReserve(b, who, amount)
    PROVE  Reserve(b, who, amount) \in BalanceSheet(AccountId)
BY DEF BalanceSheet, CanReserve, Reserve

\* unreserve releases at most what is reserved, so it leaves a balance sheet.
LEMMA UnreserveType ==
    ASSUME NEW b \in BalanceSheet(AccountId), NEW who \in AccountId, NEW amount \in Nat
    PROVE  Unreserve(b, who, amount) \in BalanceSheet(AccountId)
BY DEF BalanceSheet, Unreserve, Lesser

\* The refunds of a destroy or of a cancelled approval leave a balance sheet.
LEMMA UnreserveAllType ==
    ASSUME NEW b \in BalanceSheet(AccountId), NEW refund
    PROVE  UnreserveAll(b, refund) \in BalanceSheet(AccountId)
BY DEF BalanceSheet, UnreserveAll

\* A transfer that the currency admits leaves a balance sheet.
LEMMA TransferType ==
    ASSUME NEW b \in BalanceSheet(AccountId), NEW from \in AccountId, NEW to \in AccountId,
           NEW amount \in Nat, CanTransfer(b, from, to, amount)
    PROVE  Transfer(b, from, to, amount) \in BalanceSheet(AccountId)
BY DEF BalanceSheet, Transfer, CanTransfer

\* Moving a reserve to another account leaves a balance sheet.
LEMMA RepatriateType ==
    ASSUME NEW b \in BalanceSheet(AccountId), NEW from \in AccountId, NEW to \in AccountId,
           NEW amount \in Nat
    PROVE  Repatriate(b, from, to, amount) \in BalanceSheet(AccountId)
BY DEF BalanceSheet, Repatriate, Lesser

\* Adjusting a deposit from its old to its new amount leaves a balance sheet.
LEMMA AdjustType ==
    ASSUME NEW b \in BalanceSheet(AccountId), NEW who \in AccountId, NEW old \in Nat,
           NEW new \in Nat, CanAdjust(b, who, old, new)
    PROVE  Adjust(b, who, old, new) \in BalanceSheet(AccountId)
BY ReserveType, UnreserveType DEF CanAdjust, Adjust

\* Genesis storage has the declared types.
THEOREM InitType == Init => TypeOK
BY StorageAssumption, ClientAssumption DEF Init, StorageInit, TypeOK, StorageTypeOK, BalanceSheet, Option, CollectionId, NoApprovals

\* The saturating counters of CollectionDetails stay within u32.
LEMMA CounterType ==
    ASSUME NEW n \in u32
    PROVE  SatInc(n) \in u32 /\ SatDec(n) \in u32
BY StorageAssumption DEF SatInc, SatDec, u32

\* saturating_sub stays in the naturals.
LEMMA SatSubType ==
    ASSUME NEW x \in Nat, NEW y \in Nat
    PROVE  SatSub(x, y) \in Nat
BY DEF SatSub

\* The deposits of items, metadata and attributes are naturals.
LEMMA DepositType ==
    ASSUME NEW c, NEW len \in Nat
    PROVE  ItemDepositOf(c) \in Nat /\ MetadataDeposit(len) \in Nat /\ AttributeDeposit(len) \in Nat
BY StorageAssumption DEF ItemDepositOf, MetadataDeposit, AttributeDeposit

\* create and force_create keep every storage map within its type.
LEMMA create_Type ==
    ASSUME TypeOK, NEW owner \in AccountId, NEW admin \in AccountId, NEW config \in CollectionConfig,
           NEW deposit \in Nat,
           do_create_collection(NextId, owner, admin, config, deposit),
           set_next_collection_id(NextId)
    PROVE  TypeOK'
<1> USE DEF TypeOK, StorageTypeOK
<1>1. NextId \in CollectionId
  BY StorageAssumption DEF NextId, Option, CollectionId
<1>2. bal' \in BalanceSheet(AccountId)
  BY ReserveType DEF do_create_collection
<1>3. NextCollectionId' \in Option(CollectionId)
  BY <1>1, StorageAssumption DEF set_next_collection_id, Option, CollectionId
<1>4. Collection' \in [CollectionId -> Option(CollectionDetails)]
  BY <1>1, StorageAssumption DEF do_create_collection, Option, CollectionDetails, u32
<1>5. /\ CollectionRoleOf' \in [CollectionId -> [AccountId -> SUBSET CollectionRole]]
      /\ CollectionConfigOf' \in [CollectionId -> Option(CollectionConfig)]
      /\ CollectionAccount' \subseteq AccountId \X CollectionId
  BY <1>1 DEF do_create_collection, Option
<1> QED
  BY <1>2, <1>3, <1>4, <1>5
  DEF do_create_collection, itemVars, offerVars, attributeVars, acceptanceVars

\* destroy keeps every storage map within its type.
LEMMA destroy_Type ==
    ASSUME TypeOK, NEW origin, NEW c \in CollectionId, do_destroy_collection(origin, c)
    PROVE  TypeOK'
<1> USE DEF TypeOK, StorageTypeOK
<1>1. bal' \in BalanceSheet(AccountId)
  BY UnreserveAllType DEF do_destroy_collection
<1> QED
  BY <1>1 DEF do_destroy_collection, Option, offerVars, acceptanceVars

\* set_team keeps every storage map within its type.
LEMMA set_team_Type ==
    ASSUME TypeOK, NEW origin, NEW c \in CollectionId, NEW team, do_set_team(origin, c, team)
    PROVE  TypeOK'
BY DEF TypeOK, StorageTypeOK, do_set_team, group_roles_by_account, itemVars, offerVars,
       attributeVars, acceptanceVars

\* The calls that change a collection's config keep the types.
LEMMA config_Type ==
    ASSUME TypeOK, NEW origin, NEW c \in CollectionId,
           \/ \E config \in CollectionConfig : do_force_collection_config(c, config)
           \/ \E n \in Nat : do_set_collection_max_supply(origin, c, n)
           \/ \E s \in MintSettings : do_update_mint_settings(origin, c, s)
           \/ \E s \in SUBSET CollectionSetting : do_lock_collection(origin, c, s)
    PROVE  TypeOK'
<1> USE DEF TypeOK, StorageTypeOK
<1>1. ConfigFrame
  BY DEF do_force_collection_config, do_set_collection_max_supply, do_update_mint_settings,
         do_lock_collection
<1>2. CollectionConfigOf' \in [CollectionId -> Option(CollectionConfig)]
  <2> USE DEF Option
  <2>1. ASSUME NEW config \in CollectionConfig, do_force_collection_config(c, config)
        PROVE  CollectionConfigOf' \in [CollectionId -> Option(CollectionConfig)]
    BY <2>1 DEF do_force_collection_config
  <2>2. ASSUME NEW n \in Nat, do_set_collection_max_supply(origin, c, n)
        PROVE  CollectionConfigOf' \in [CollectionId -> Option(CollectionConfig)]
    BY <2>2 DEF do_set_collection_max_supply, CollectionConfig
  <2>3. ASSUME NEW s \in MintSettings, do_update_mint_settings(origin, c, s)
        PROVE  CollectionConfigOf' \in [CollectionId -> Option(CollectionConfig)]
    BY <2>3 DEF do_update_mint_settings, CollectionConfig
  <2>4. ASSUME NEW s \in SUBSET CollectionSetting, do_lock_collection(origin, c, s)
        PROVE  CollectionConfigOf' \in [CollectionId -> Option(CollectionConfig)]
    <3>1. CollectionConfigOf[c] \in CollectionConfig
      BY <2>4 DEF do_lock_collection
    <3> DEFINE settings == CollectionConfigOf[c].settings \cup s
    <3>2. settings \in SUBSET CollectionSetting
      BY <3>1 DEF CollectionConfig
    <3>3. CollectionConfigOf' = [CollectionConfigOf EXCEPT ![c].settings = settings]
      BY <2>4 DEF do_lock_collection
    <3> HIDE DEF settings
    <3> QED
      BY <3>1, <3>2, <3>3 DEF CollectionConfig
  <2> QED
    BY <2>1, <2>2, <2>3, <2>4
<1> QED
  BY <1>1, <1>2 DEF ConfigFrame, itemVars, offerVars, attributeVars, acceptanceVars

\* What the two ownership transfers share keeps the types.
LEMMA MoveCollection_Type ==
    ASSUME TypeOK, NEW c \in CollectionId, NEW new_owner \in AccountId, Collection[c] # None,
           MoveCollection(c, new_owner),
           OwnershipAcceptance' \in [AccountId -> Option(CollectionId)],
           consumers' \in [AccountId -> Nat]
    PROVE  TypeOK'
<1> USE DEF TypeOK, StorageTypeOK
<1>1. Collection[c] \in CollectionDetails
  BY DEF Option
<1>2. bal' \in BalanceSheet(AccountId)
  BY <1>1, RepatriateType DEF MoveCollection, CollectionDetails
<1>3. Collection' \in [CollectionId -> Option(CollectionDetails)]
  BY <1>1 DEF MoveCollection, Option, CollectionDetails
<1>4. CollectionAccount' \subseteq AccountId \X CollectionId
  BY DEF MoveCollection
<1> QED
  BY <1>2, <1>3, <1>4 DEF MoveCollection, itemVars, offerVars, attributeVars

\* transfer_ownership keeps every storage map within its type.
LEMMA transfer_ownership_Type ==
    ASSUME TypeOK, NEW origin, NEW c \in CollectionId, NEW new_owner \in AccountId,
           do_transfer_ownership(origin, c, new_owner)
    PROVE  TypeOK'
<1>1. /\ OwnershipAcceptance' \in [AccountId -> Option(CollectionId)]
      /\ consumers' \in [AccountId -> Nat]
  BY SatSubType DEF TypeOK, StorageTypeOK, do_transfer_ownership, Option
<1> QED
  BY <1>1, MoveCollection_Type DEF do_transfer_ownership

\* force_collection_owner keeps every storage map within its type.
LEMMA force_collection_owner_Type ==
    ASSUME TypeOK, NEW c \in CollectionId, NEW owner \in AccountId,
           do_force_collection_owner(c, owner)
    PROVE  TypeOK'
BY MoveCollection_Type DEF do_force_collection_owner, TypeOK, StorageTypeOK, acceptanceVars

\* set_accept_ownership keeps every storage map within its type.
LEMMA set_accept_ownership_Type ==
    ASSUME TypeOK, NEW who \in AccountId, NEW m \in Option(CollectionId),
           do_set_accept_ownership(who, m)
    PROVE  TypeOK'
<1> USE DEF TypeOK, StorageTypeOK
<1>1. consumers' \in [AccountId -> Nat]
  <2>1. CASE OwnershipAcceptance[who] = None /\ m # None
    BY <2>1 DEF do_set_accept_ownership
  <2>2. CASE OwnershipAcceptance[who] # None /\ m = None
    BY <2>2, SatSubType DEF do_set_accept_ownership
  <2>3. CASE ~ (OwnershipAcceptance[who] = None /\ m # None)
             /\ ~ (OwnershipAcceptance[who] # None /\ m = None)
    BY <2>3 DEF do_set_accept_ownership
  <2> QED
    BY <2>1, <2>2, <2>3
<1> QED
  BY <1>1 DEF do_set_accept_ownership, collectionVars, itemVars, offerVars, attributeVars

\* do_mint leaves well-typed details, with the same owner, and a balance sheet.
LEMMA MintedType ==
    ASSUME TypeOK, NEW c \in CollectionId, NEW i \in ItemId, NEW depositor \in AccountId,
           NEW item_config, NEW b \in BalanceSheet(AccountId),
           CanMint(c, i, depositor, item_config, b)
    PROVE  /\ MintedDetails(c, i) \in CollectionDetails
           /\ MintedDetails(c, i).owner = Collection[c].owner
           /\ MintedBalance(c, depositor, b) \in BalanceSheet(AccountId)
<1> USE DEF TypeOK, StorageTypeOK
<1>1. Collection[c] \in CollectionDetails
  BY DEF CanMint, Option
<1>2. MintedDetails(c, i) \in CollectionDetails /\ MintedDetails(c, i).owner = Collection[c].owner
  BY <1>1, CounterType DEF MintedDetails, CollectionDetails
<1>3. ItemDepositOf(c) \in Nat
  BY DepositType
<1> QED
  BY <1>2, <1>3, ReserveType DEF CanMint, MintedBalance

\* The item records do_mint inserts have their types.
LEMMA InsertItem_Type ==
    ASSUME TypeOK, NEW c \in CollectionId, NEW i \in ItemId, NEW depositor \in AccountId,
           NEW mint_to \in AccountId, NEW item_config \in SUBSET ItemSetting,
           InsertItem(c, i, depositor, mint_to, item_config)
    PROVE  /\ Account' \subseteq AccountId \X CollectionId \X ItemId
           /\ ItemConfigOf' \in [CollectionId -> [ItemId -> Option(SUBSET ItemSetting)]]
           /\ Item' \in [CollectionId -> [ItemId -> Option(ItemDetails)]]
<1> USE DEF TypeOK, StorageTypeOK
<1>1. Account' \subseteq AccountId \X CollectionId \X ItemId
  BY DEF InsertItem
<1>2. ItemConfigOf' \in [CollectionId -> [ItemId -> Option(SUBSET ItemSetting)]]
  BY DEF InsertItem, Option
<1> DEFINE new == [owner |-> mint_to, approvals |-> NoApprovals,
                   deposit_account |-> depositor, deposit_amount |-> ItemDepositOf(c)]
<1>3. new \in ItemDetails
  BY DepositType DEF ItemDetails, NoApprovals
<1>4. Item' = [Item EXCEPT ![c][i] = new]
  BY DEF InsertItem
<1> HIDE DEF new
<1>5. Item' \in [CollectionId -> [ItemId -> Option(ItemDetails)]]
  BY <1>3, <1>4 DEF Option
<1> QED
  BY <1>1, <1>2, <1>5

\* do_mint keeps the types, if the attributes its caller writes do.
LEMMA do_mint_Type ==
    ASSUME TypeOK, NEW c \in CollectionId, NEW i \in ItemId, NEW depositor \in AccountId,
           NEW mint_to \in AccountId, NEW item_config \in SUBSET ItemSetting,
           NEW b \in BalanceSheet(AccountId),
           do_mint(c, i, depositor, mint_to, item_config, b),
           Attribute' \in [CollectionId -> [AttributeKey -> Option(Deposited)]]
    PROVE  TypeOK'
<1> USE DEF TypeOK, StorageTypeOK
<1>1. CanMint(c, i, depositor, item_config, b) /\ InsertItem(c, i, depositor, mint_to, item_config)
  BY DEF do_mint
<1>2. MintedDetails(c, i) \in CollectionDetails /\ bal' \in BalanceSheet(AccountId)
  BY <1>1, MintedType DEF do_mint
<1>3. Collection' \in [CollectionId -> Option(CollectionDetails)]
  BY <1>2 DEF do_mint, Option
<1>4. /\ Account' \subseteq AccountId \X CollectionId \X ItemId
      /\ ItemConfigOf' \in [CollectionId -> [ItemId -> Option(SUBSET ItemSetting)]]
      /\ Item' \in [CollectionId -> [ItemId -> Option(ItemDetails)]]
  BY <1>1, InsertItem_Type
<1> QED
  BY <1>2, <1>3, <1>4 DEF do_mint, offerVars, acceptanceVars

\* mint keeps every storage map within its type.
LEMMA mint_Type ==
    ASSUME TypeOK, NEW caller \in AccountId, NEW c \in CollectionId, NEW i \in ItemId,
           NEW mint_to \in AccountId, NEW owned_item \in Option(ItemId), NEW p,
           mint_as(caller, c, i, mint_to, owned_item, p)
    PROVE  TypeOK'
<1> USE DEF TypeOK, StorageTypeOK
<1> DEFINE settings == CollectionConfigOf[c].mint_settings
           price    == IF settings.price = None THEN 0 ELSE settings.price
           paid     == Transfer(bal, caller, Collection[c].owner, price)
<1>1. /\ CollectionConfigOf[c] # None /\ Collection[c] # None
      /\ MintPermitted(caller, c, settings, owned_item)
      /\ CanTransfer(bal, caller, Collection[c].owner, price)
      /\ do_mint(c, i, caller, mint_to, settings.default_item_settings, paid)
      /\ MarkUsedToClaim(c, settings, owned_item)
  BY DEF mint_as
<1>2. Collection[c].owner \in AccountId
  BY <1>1 DEF Option, CollectionDetails
<1>3. settings \in MintSettings
  BY <1>1 DEF Option, CollectionConfig
<1>4. price \in Nat /\ settings.default_item_settings \in SUBSET ItemSetting
  BY <1>3 DEF MintSettings, Option
<1>5. paid \in BalanceSheet(AccountId)
  BY <1>1, <1>2, <1>4, TransferType
<1> DEFINE mark == [data |-> 0, account |-> None, amount |-> 0]
<1>6. Attribute' \in [CollectionId -> [AttributeKey -> Option(Deposited)]]
  <2>1. mark \in Deposited
    BY DEF Deposited, Option
  <2>2. Attribute' = [hc \in CollectionId |->
                        IF settings.mint_type = HolderOf(hc)
                        THEN [Attribute[hc] EXCEPT ![<<owned_item, Pallet, UsedToClaim(c)>>] = mark]
                        ELSE Attribute[hc]]
    BY <1>1 DEF MarkUsedToClaim
  <2> HIDE DEF mark
  <2> QED
    BY <2>1, <2>2 DEF Option
<1> HIDE DEF paid, price, settings
<1> QED
  BY <1>1, <1>4, <1>5, <1>6, do_mint_Type

\* force_mint keeps every storage map within its type.
LEMMA force_mint_Type ==
    ASSUME TypeOK, NEW origin, NEW c \in CollectionId, NEW i \in ItemId,
           NEW mint_to \in AccountId, NEW item_config \in SUBSET ItemSetting,
           do_force_mint(origin, c, i, mint_to, item_config)
    PROVE  TypeOK'
<1>1. Collection[c].owner \in AccountId
  BY DEF do_force_mint, TypeOK, StorageTypeOK, Option, CollectionDetails
<1>2. bal \in BalanceSheet(AccountId)
  BY DEF TypeOK, StorageTypeOK
<1>3. Attribute' \in [CollectionId -> [AttributeKey -> Option(Deposited)]]
  BY DEF do_force_mint, TypeOK, StorageTypeOK
<1> QED
  BY <1>1, <1>2, <1>3, do_mint_Type DEF do_force_mint

\* Clearing an item's metadata leaves well-typed details, with the same owner, and a
\* balance sheet.
LEMMA ClearedMetadataType ==
    ASSUME TypeOK, NEW c \in CollectionId, NEW i \in ItemId, NEW b \in BalanceSheet(AccountId),
           Collection[c] # None, ItemMetadataOf[c][i] # None
    PROVE  /\ ClearedMetadataDetails(c, i) \in CollectionDetails
           /\ ClearedMetadataDetails(c, i).owner = Collection[c].owner
           /\ ClearedMetadataBalance(c, i, b) \in BalanceSheet(AccountId)
<1> USE DEF TypeOK, StorageTypeOK
<1>1. Collection[c] \in CollectionDetails /\ ItemMetadataOf[c][i] \in Deposited
  BY DEF Option
<1>2. /\ DepositorOf(ItemMetadataOf[c][i], Collection[c].owner) \in AccountId
      /\ ItemMetadataOf[c][i].amount \in Nat
  BY <1>1 DEF DepositorOf, Deposited, CollectionDetails, Option
<1>3. /\ ClearedMetadataDetails(c, i) \in CollectionDetails
      /\ ClearedMetadataDetails(c, i).owner = Collection[c].owner
  BY <1>1, <1>2, CounterType, SatSubType DEF ClearedMetadataDetails, CollectionDetails
<1> QED
  BY <1>2, <1>3, UnreserveType DEF ClearedMetadataBalance

\* burn keeps every storage map within its type.
LEMMA burn_Type ==
    ASSUME TypeOK, NEW origin, NEW c \in CollectionId, NEW i \in ItemId, do_burn(origin, c, i)
    PROVE  TypeOK'
<1> USE DEF TypeOK, StorageTypeOK
<1> DEFINE returned == Unreserve(bal, Item[c][i].deposit_account, Item[c][i].deposit_amount)
           d == IF BurnsMetadata(c, i) THEN ClearedMetadataDetails(c, i) ELSE Collection[c]
<1>1. Item[c][i] \in ItemDetails /\ Collection[c] \in CollectionDetails /\ Collection[c] # None
  BY DEF do_burn, Option
<1>2. returned \in BalanceSheet(AccountId)
  BY <1>1, UnreserveType DEF ItemDetails
<1>3. bal' \in BalanceSheet(AccountId)
  BY <1>1, <1>2, ClearedMetadataType DEF do_burn, BurnsMetadata
<1>4. d \in CollectionDetails
  BY <1>1, <1>2, ClearedMetadataType DEF BurnsMetadata
<1>5. Collection' = [Collection EXCEPT ![c] =
        [d EXCEPT !.items = SatDec(@),
                  !.item_configs = IF ItemConfigOf[c][i] = {} THEN SatDec(@) ELSE @]]
  BY DEF do_burn
<1> HIDE DEF d
<1>6. Collection' \in [CollectionId -> Option(CollectionDetails)]
  BY <1>4, <1>5, CounterType DEF Option, CollectionDetails
<1>7. /\ ItemMetadataOf' \in [CollectionId -> [ItemId -> Option(Deposited)]]
      /\ Item' \in [CollectionId -> [ItemId -> Option(ItemDetails)]]
      /\ ItemConfigOf' \in [CollectionId -> [ItemId -> Option(SUBSET ItemSetting)]]
  BY DEF do_burn, Option
<1>8. Account' \subseteq AccountId \X CollectionId \X ItemId
  BY DEF do_burn
<1>9. /\ ItemPriceOf' \in [CollectionId -> [ItemId -> Option(ItemPriceInfo)]]
      /\ PendingSwapOf' \in [CollectionId -> [ItemId -> Option(PendingSwap)]]
      /\ ItemAttributesApprovalsOf' \in [CollectionId -> [ItemId -> SUBSET AccountId]]
  BY DEF do_burn, RemoveOffers, Option
<1> QED
  BY <1>3, <1>6, <1>7, <1>8, <1>9 DEF do_burn, acceptanceVars

\* Moving an item keeps the types of Item and of the owner index.
LEMMA MovedType ==
    ASSUME NEW items \in [CollectionId -> [ItemId -> Option(ItemDetails)]],
           NEW accounts \in SUBSET (AccountId \X CollectionId \X ItemId),
           NEW c \in CollectionId, NEW i \in ItemId, NEW from, NEW dest \in AccountId,
           items[c][i] # None
    PROVE  /\ MovedItem(items, c, i, dest) \in [CollectionId -> [ItemId -> Option(ItemDetails)]]
           /\ MovedAccount(accounts, c, i, from, dest) \subseteq AccountId \X CollectionId \X ItemId
<1>1. items[c][i] \in ItemDetails
  BY DEF Option
<1> DEFINE moved == [items[c][i] EXCEPT !.owner = dest, !.approvals = NoApprovals]
<1>2. moved \in ItemDetails
  BY <1>1 DEF ItemDetails, NoApprovals
<1>3. MovedItem(items, c, i, dest) = [items EXCEPT ![c][i] = moved]
  BY DEF MovedItem
<1> HIDE DEF moved
<1>4. MovedItem(items, c, i, dest) \in [CollectionId -> [ItemId -> Option(ItemDetails)]]
  BY <1>2, <1>3 DEF Option
<1>5. MovedAccount(accounts, c, i, from, dest) \subseteq AccountId \X CollectionId \X ItemId
  BY DEF MovedAccount
<1> QED
  BY <1>4, <1>5

\* Moving one item removes no item.
LEMMA MovedItemExists ==
    ASSUME NEW items \in [CollectionId -> [ItemId -> Option(ItemDetails)]],
           NEW c \in CollectionId, NEW i \in ItemId, NEW dest \in AccountId, items[c][i] # None,
           NEW oc \in CollectionId, NEW oi \in ItemId, items[oc][oi] # None
    PROVE  MovedItem(items, c, i, dest)[oc][oi] # None
<1> DEFINE moved == [items[c][i] EXCEPT !.owner = dest, !.approvals = NoApprovals]
<1>1. items[c][i] \in ItemDetails
  BY DEF Option
<1>2. moved \in ItemDetails
  BY <1>1 DEF ItemDetails, NoApprovals
<1>3. moved # None
  BY <1>2, OptionAssumption
<1>4. MovedItem(items, c, i, dest) = [items EXCEPT ![c][i] = moved]
  BY DEF MovedItem
<1> HIDE DEF moved
<1> QED
  BY <1>3, <1>4

\* The writes of do_transfer keep their types.
LEMMA MoveTo_Type ==
    ASSUME TypeOK, NEW c \in CollectionId, NEW i \in ItemId, NEW dest \in AccountId,
           Item[c][i] # None, MoveTo(c, i, dest)
    PROVE  /\ Item' \in [CollectionId -> [ItemId -> Option(ItemDetails)]]
           /\ Account' \subseteq AccountId \X CollectionId \X ItemId
           /\ ItemPriceOf' \in [CollectionId -> [ItemId -> Option(ItemPriceInfo)]]
           /\ PendingSwapOf' \in [CollectionId -> [ItemId -> Option(PendingSwap)]]
<1> USE DEF TypeOK, StorageTypeOK
<1>1. /\ Item' \in [CollectionId -> [ItemId -> Option(ItemDetails)]]
      /\ Account' \subseteq AccountId \X CollectionId \X ItemId
  BY MovedType DEF MoveTo
<1> QED
  BY <1>1 DEF MoveTo, Option

\* do_transfer keeps the types, if the balances its caller leaves do.
LEMMA do_transfer_Type ==
    ASSUME TypeOK, NEW c \in CollectionId, NEW i \in ItemId, NEW dest \in AccountId,
           do_transfer(c, i, dest), bal' \in BalanceSheet(AccountId)
    PROVE  TypeOK'
<1>1. Item[c][i] # None /\ MoveTo(c, i, dest)
  BY DEF do_transfer, Movable, TransferAllowed
<1> QED
  BY <1>1, MoveTo_Type
  DEF do_transfer, TypeOK, StorageTypeOK, collectionVars, attributeVars, acceptanceVars

\* transfer keeps every storage map within its type.
LEMMA transfer_Type ==
    ASSUME TypeOK, NEW origin, NEW c \in CollectionId, NEW i \in ItemId, NEW dest \in AccountId,
           transfer_item(origin, c, i, dest)
    PROVE  TypeOK'
BY do_transfer_Type DEF transfer_item, TypeOK, StorageTypeOK

\* redeposit keeps every storage map within its type.
LEMMA redeposit_Type ==
    ASSUME TypeOK, NEW origin, NEW c \in CollectionId, NEW i \in ItemId,
           redeposit_item(origin, c, i)
    PROVE  TypeOK'
<1> USE DEF TypeOK, StorageTypeOK
<1>1. Item[c][i] \in ItemDetails
  BY DEF redeposit_item, Option
<1>2. ItemDepositOf(c) \in Nat
  BY DepositType
<1>3. bal' \in BalanceSheet(AccountId)
  BY <1>1, <1>2, AdjustType DEF redeposit_item, ItemDetails
<1>4. Item' \in [CollectionId -> [ItemId -> Option(ItemDetails)]]
  BY <1>1, <1>2 DEF redeposit_item, Option, ItemDetails
<1> QED
  BY <1>3, <1>4
  DEF redeposit_item, collectionVars, offerVars, attributeVars, acceptanceVars

\* The locks and unlocks of an item keep the types.
LEMMA item_config_Type ==
    ASSUME TypeOK, NEW origin, NEW c \in CollectionId, NEW i \in ItemId,
           \/ do_lock_item_transfer(origin, c, i)
           \/ do_unlock_item_transfer(origin, c, i)
           \/ \E s \in SUBSET {"UnlockedMetadata", "UnlockedAttributes"} :
                 do_lock_item_properties(origin, c, i, s)
    PROVE  TypeOK'
<1> USE DEF TypeOK, StorageTypeOK
<1>1. ItemConfigFrame
  BY DEF do_lock_item_transfer, do_unlock_item_transfer, do_lock_item_properties
<1>2. ItemConfigOf' \in [CollectionId -> [ItemId -> Option(SUBSET ItemSetting)]]
  <2>1. ItemConfigOf[c][i] \in SUBSET ItemSetting
    BY DEF do_lock_item_transfer, do_unlock_item_transfer, do_lock_item_properties, Option
  <2>2. PICK config \in SUBSET ItemSetting : ItemConfigOf' = [ItemConfigOf EXCEPT ![c][i] = config]
    BY <2>1 DEF do_lock_item_transfer, do_unlock_item_transfer, do_lock_item_properties, ItemSetting
  <2> QED
    BY <2>2 DEF Option
<1> QED
  BY <1>1, <1>2
  DEF ItemConfigFrame, collectionVars, offerVars, attributeVars, acceptanceVars

\* The calls that change an item's transfer approvals keep the types.
LEMMA item_approvals_Type ==
    ASSUME TypeOK, NEW origin, NEW c \in CollectionId, NEW i \in ItemId,
           \/ \E delegate \in AccountId, d \in Option(Nat) :
                 do_approve_transfer(origin, c, i, delegate, d)
           \/ \E delegate \in AccountId : do_cancel_approval(origin, c, i, delegate)
           \/ do_clear_all_transfer_approvals(origin, c, i)
    PROVE  TypeOK'
<1> USE DEF TypeOK, StorageTypeOK
<1>1. ApprovalFrame
  BY DEF do_approve_transfer, do_cancel_approval, do_clear_all_transfer_approvals
<1>2. Item[c][i] \in ItemDetails
  <2>1. Item[c][i] # None
    BY DEF do_approve_transfer, do_cancel_approval, do_clear_all_transfer_approvals
  <2> QED
    BY <2>1 DEF Option
<1>3. ASSUME NEW approvals \in [AccountId -> Nat \cup {Forever, None}],
             Item' = [Item EXCEPT ![c][i].approvals = approvals]
      PROVE  Item' \in [CollectionId -> [ItemId -> Option(ItemDetails)]]
  BY <1>2, <1>3 DEF ItemDetails, Option
<1>4. Item' \in [CollectionId -> [ItemId -> Option(ItemDetails)]]
  <2>1. ASSUME NEW delegate \in AccountId, NEW d \in Option(Nat),
               do_approve_transfer(origin, c, i, delegate, d)
        PROVE  Item' \in [CollectionId -> [ItemId -> Option(ItemDetails)]]
    <3> DEFINE until == IF d = None THEN Forever ELSE now + d
               approvals == [Item[c][i].approvals EXCEPT ![delegate] = until]
    <3>1. until \in Nat \cup {Forever, None}
      BY DEF Option
    <3>2. approvals \in [AccountId -> Nat \cup {Forever, None}]
      BY <1>2, <3>1 DEF ItemDetails
    <3>3. Item' = [Item EXCEPT ![c][i].approvals = approvals]
      BY <2>1 DEF do_approve_transfer
    <3> QED
      BY <1>3, <3>2, <3>3
  <2>2. ASSUME NEW delegate \in AccountId, do_cancel_approval(origin, c, i, delegate)
        PROVE  Item' \in [CollectionId -> [ItemId -> Option(ItemDetails)]]
    <3> DEFINE approvals == [Item[c][i].approvals EXCEPT ![delegate] = None]
    <3>1. approvals \in [AccountId -> Nat \cup {Forever, None}]
      BY <1>2 DEF ItemDetails
    <3>2. Item' = [Item EXCEPT ![c][i].approvals = approvals]
      BY <2>2 DEF do_cancel_approval
    <3> QED
      BY <1>3, <3>1, <3>2
  <2>3. CASE do_clear_all_transfer_approvals(origin, c, i)
    <3>1. NoApprovals \in [AccountId -> Nat \cup {Forever, None}]
      BY DEF NoApprovals
    <3> QED
      BY <1>3, <2>3, <3>1 DEF do_clear_all_transfer_approvals
  <2> QED
    BY <2>1, <2>2, <2>3
<1> QED
  BY <1>1, <1>4 DEF ApprovalFrame, collectionVars, offerVars, attributeVars, acceptanceVars

\* set_price keeps every storage map within its type.
LEMMA set_price_Type ==
    ASSUME TypeOK, NEW sender, NEW c \in CollectionId, NEW i \in ItemId,
           NEW price \in Option(Nat), NEW buyer \in Option(AccountId),
           do_set_price(sender, c, i, price, buyer)
    PROVE  TypeOK'
<1> USE DEF TypeOK, StorageTypeOK
<1>1. ItemPriceOf' \in [CollectionId -> [ItemId -> Option(ItemPriceInfo)]]
  <2> DEFINE info == IF price = None THEN None ELSE [price |-> price, buyer |-> buyer]
  <2>1. info \in Option(ItemPriceInfo)
    BY DEF Option, ItemPriceInfo
  <2>2. ItemPriceOf' = [ItemPriceOf EXCEPT ![c][i] = info]
    BY DEF do_set_price
  <2> HIDE DEF info
  <2> QED
    BY <2>1, <2>2
<1> QED
  BY <1>1 DEF do_set_price, collectionVars, itemVars, attributeVars, acceptanceVars

\* buy_item keeps every storage map within its type.
LEMMA buy_item_Type ==
    ASSUME TypeOK, NEW buyer \in AccountId, NEW c \in CollectionId, NEW i \in ItemId, NEW bid,
           do_buy_item(buyer, c, i, bid)
    PROVE  TypeOK'
<1> USE DEF TypeOK, StorageTypeOK
<1>1. Item[c][i] \in ItemDetails /\ ItemPriceOf[c][i] \in ItemPriceInfo
  BY DEF do_buy_item, Option
<1>2. bal' \in BalanceSheet(AccountId)
  BY <1>1, TransferType DEF do_buy_item, ItemDetails, ItemPriceInfo
<1> QED
  BY <1>2, do_transfer_Type DEF do_buy_item

\* pay_tips keeps every storage map within its type.
LEMMA pay_tips_Type ==
    ASSUME TypeOK, NEW sender \in AccountId, NEW receiver \in AccountId, NEW amount \in Nat,
           do_pay_tip(sender, receiver, amount)
    PROVE  TypeOK'
<1> USE DEF TypeOK, StorageTypeOK
<1>1. bal' \in BalanceSheet(AccountId)
  BY TransferType DEF do_pay_tip
<1> QED
  BY <1>1 DEF do_pay_tip, collectionVars, itemVars, offerVars, attributeVars, acceptanceVars

\* create_swap and cancel_swap keep the types.
LEMMA swap_offer_Type ==
    ASSUME TypeOK, NEW caller, NEW c \in CollectionId, NEW i \in ItemId,
           \/ \E dc \in CollectionId, di \in Option(ItemId), p \in Option(PriceWithDirection),
                 duration \in Nat : do_create_swap(caller, c, i, dc, di, p, duration)
           \/ do_cancel_swap(caller, c, i)
    PROVE  TypeOK'
<1> USE DEF TypeOK, StorageTypeOK
<1>1. SwapFrame
  BY DEF do_create_swap, do_cancel_swap
<1>2. PendingSwapOf' \in [CollectionId -> [ItemId -> Option(PendingSwap)]]
  <2>1. ASSUME NEW dc \in CollectionId, NEW di \in Option(ItemId),
               NEW p \in Option(PriceWithDirection), NEW duration \in Nat,
               do_create_swap(caller, c, i, dc, di, p, duration)
        PROVE  PendingSwapOf' \in [CollectionId -> [ItemId -> Option(PendingSwap)]]
    <3> DEFINE swap == [desired_collection |-> dc, desired_item |-> di, price |-> p,
                        deadline |-> now + duration]
    <3>1. swap \in PendingSwap
      BY DEF PendingSwap
    <3>2. PendingSwapOf' = [PendingSwapOf EXCEPT ![c][i] = swap]
      BY <2>1 DEF do_create_swap
    <3> HIDE DEF swap
    <3> QED
      BY <3>1, <3>2 DEF Option
  <2>2. CASE do_cancel_swap(caller, c, i)
    BY <2>2 DEF do_cancel_swap, Option
  <2> QED
    BY <2>1, <2>2
<1> QED
  BY <1>1, <1>2 DEF SwapFrame, collectionVars, itemVars, attributeVars, acceptanceVars

\* claim_swap, which moves two items and perhaps a price, keeps the types.
LEMMA claim_swap_Type ==
    ASSUME TypeOK, NEW caller \in AccountId, NEW sc \in CollectionId, NEW si \in ItemId,
           NEW rc \in CollectionId, NEW ri \in ItemId, NEW witness,
           do_claim_swap(caller, sc, si, rc, ri, witness)
    PROVE  TypeOK'
<1> USE DEF TypeOK, StorageTypeOK
<1> DEFINE swap     == PendingSwapOf[rc][ri]
           receiver == Item[rc][ri].owner
           payer    == IF swap.price.direction = "Send" THEN receiver ELSE caller
           payee    == IF swap.price.direction = "Send" THEN caller ELSE receiver
           sent     == MovedItem(Item, sc, si, receiver)
           between  == MovedAccount(Account, sc, si, caller, receiver)
<1>1. /\ Item[sc][si] # None /\ Item[rc][ri] # None /\ swap # None
      /\ Account' = MovedAccount(between, rc, ri, sent[rc][ri].owner, caller)
      /\ Item' = MovedItem(sent, rc, ri, caller)
  BY DEF do_claim_swap
<1>2. receiver \in AccountId /\ swap \in PendingSwap
  BY <1>1 DEF Option, ItemDetails
<1>3. bal' \in BalanceSheet(AccountId)
  <2>1. CASE swap.price = None
    BY <2>1 DEF do_claim_swap
  <2>2. CASE swap.price # None
    <3>1. swap.price.amount \in Nat
      BY <1>2, <2>2 DEF PendingSwap, PriceWithDirection, Option
    <3>2. payer \in AccountId /\ payee \in AccountId
      BY <1>2
    <3>3. /\ CanTransfer(bal, payer, payee, swap.price.amount)
          /\ bal' = Transfer(bal, payer, payee, swap.price.amount)
      BY <2>2 DEF do_claim_swap
    <3> QED
      BY <3>1, <3>2, <3>3, TransferType
  <2> QED
    BY <2>1, <2>2
<1>4. /\ sent \in [CollectionId -> [ItemId -> Option(ItemDetails)]]
      /\ between \in SUBSET (AccountId \X CollectionId \X ItemId)
  BY <1>1, <1>2, MovedType
<1>5. sent[rc][ri] # None
  BY <1>1, <1>2, MovedItemExists
<1> HIDE DEF sent, between
<1>6. /\ Item' \in [CollectionId -> [ItemId -> Option(ItemDetails)]]
      /\ Account' \subseteq AccountId \X CollectionId \X ItemId
  BY <1>1, <1>4, <1>5, MovedType
<1>7. /\ ItemPriceOf' \in [CollectionId -> [ItemId -> Option(ItemPriceInfo)]]
      /\ PendingSwapOf' \in [CollectionId -> [ItemId -> Option(PendingSwap)]]
  BY DEF do_claim_swap, Option
<1> QED
  BY <1>3, <1>6, <1>7 DEF do_claim_swap, collectionVars, attributeVars, acceptanceVars

\* Moving a deposit from its old to its new depositor leaves a balance sheet.
LEMMA MoveDepositType ==
    ASSUME NEW b \in BalanceSheet(AccountId), NEW from \in Option(AccountId), NEW old \in Nat,
           NEW to \in AccountId, NEW new \in Nat, CanMoveDeposit(b, from, old, to, new)
    PROVE  MoveDeposit(b, from, old, to, new) \in BalanceSheet(AccountId)
<1>1. CASE from = to
  BY <1>1, AdjustType DEF CanMoveDeposit, MoveDeposit
<1>2. CASE from # to
  <2> DEFINE b2 == IF from = None THEN b ELSE Unreserve(b, from, old)
  <2>1. b2 \in BalanceSheet(AccountId)
    BY UnreserveType DEF Option
  <2>2. CanReserve(b2, to, new) /\ MoveDeposit(b, from, old, to, new) = Reserve(b2, to, new)
    BY <1>2 DEF CanMoveDeposit, MoveDeposit
  <2> HIDE DEF b2
  <2> QED
    BY <2>1, <2>2, ReserveType
<1> QED
  BY <1>1, <1>2

\* The deposit part of do_set_attribute yields well-typed results and keeps the
\* collection's owner.
LEMMA SetAttributeType ==
    ASSUME TypeOK, NEW c \in CollectionId, NEW k \in AttributeKey, NEW len \in Nat,
           NEW depositor \in AccountId, NEW b \in BalanceSheet(AccountId),
           NEW d \in CollectionDetails,
           SetAttribute(c, k, len, depositor, b, d).ok
    PROVE  /\ SetAttribute(c, k, len, depositor, b, d).bal \in BalanceSheet(AccountId)
           /\ SetAttribute(c, k, len, depositor, b, d).details \in CollectionDetails
           /\ SetAttribute(c, k, len, depositor, b, d).details.owner = d.owner
           /\ SetAttribute(c, k, len, depositor, b, d).entry \in Deposited
<1> USE DEF TypeOK, StorageTypeOK
<1> DEFINE old        == Attribute[c][k]
           ofOwner    == k[2] = CollectionOwner
           deposit    == IF CollectionSettingEnabled(c, "DepositRequired") \/ ~ ofOwner
                         THEN AttributeDeposit(len) ELSE 0
           oldAmount  == IF old = None THEN 0 ELSE old.amount
           oldAccount == IF old = None THEN None ELSE old.account
           from       == IF ofOwner /\ oldAccount = None /\ old # None THEN d.owner ELSE oldAccount
           byOwner    == ofOwner /\ d.owner = depositor
           kept       == KeptOwnerDeposit(d, from, depositor, oldAmount)
           paid       == IF byOwner THEN kept + deposit ELSE d.owner_deposit
           count      == IF old = None THEN SatInc(d.attributes) ELSE d.attributes
           payer      == IF byOwner THEN None ELSE depositor
<1>1. /\ CanMoveDeposit(b, from, oldAmount, depositor, deposit)
      /\ SetAttribute(c, k, len, depositor, b, d).bal
            = MoveDeposit(b, from, oldAmount, depositor, deposit)
      /\ SetAttribute(c, k, len, depositor, b, d).details
            = [d EXCEPT !.attributes = count, !.owner_deposit = paid]
      /\ SetAttribute(c, k, len, depositor, b, d).entry
            = [data |-> len, account |-> payer, amount |-> deposit]
  BY DEF SetAttribute
<1>2. old = None \/ old \in Deposited
  BY DEF Option
<1>3. oldAmount \in Nat /\ oldAccount \in Option(AccountId)
  BY <1>2 DEF Deposited, Option
<1>4. from \in Option(AccountId)
  BY <1>3 DEF CollectionDetails, Option
<1>5. deposit \in Nat
  BY DepositType
<1>6. paid \in Nat
  <2> HIDE DEF deposit, oldAmount, from, byOwner
  <2>1. d.owner_deposit \in Nat
    BY DEF CollectionDetails
  <2>2. kept \in Nat
    BY <1>3, <2>1, SatSubType DEF KeptOwnerDeposit
  <2> QED
    BY <1>5, <2>1, <2>2
<1>7. count \in u32
  BY CounterType DEF CollectionDetails
<1>8. payer \in Option(AccountId)
  BY DEF Option
<1> HIDE DEF deposit, oldAmount, from, paid, count, payer
<1>9. /\ [d EXCEPT !.attributes = count, !.owner_deposit = paid] \in CollectionDetails
      /\ [d EXCEPT !.attributes = count, !.owner_deposit = paid].owner = d.owner
  BY <1>6, <1>7 DEF CollectionDetails
<1>10. [data |-> len, account |-> payer, amount |-> deposit] \in Deposited
  BY <1>5, <1>8 DEF Deposited
<1> QED
  BY <1>1, <1>3, <1>4, <1>5, <1>9, <1>10, MoveDepositType

\* The deposit part of do_set_item_metadata yields well-typed results and keeps the
\* collection's owner.
LEMMA SetItemMetadataType ==
    ASSUME TypeOK, NEW c \in CollectionId, NEW i \in ItemId, NEW len \in Nat, NEW isRoot,
           NEW maybe_depositor \in Option(AccountId), NEW b \in BalanceSheet(AccountId),
           NEW d \in CollectionDetails,
           SetItemMetadata(c, i, len, isRoot, maybe_depositor, b, d).ok
    PROVE  /\ SetItemMetadata(c, i, len, isRoot, maybe_depositor, b, d).bal \in BalanceSheet(AccountId)
           /\ SetItemMetadata(c, i, len, isRoot, maybe_depositor, b, d).details \in CollectionDetails
           /\ SetItemMetadata(c, i, len, isRoot, maybe_depositor, b, d).details.owner = d.owner
           /\ SetItemMetadata(c, i, len, isRoot, maybe_depositor, b, d).entry \in Deposited
<1> USE DEF TypeOK, StorageTypeOK
<1> DEFINE set       == SetItemMetadata(c, i, len, isRoot, maybe_depositor, b, d)
           old       == ItemMetadataOf[c][i]
           oldAmount == IF old = None THEN 0 ELSE old.amount
           deposit   == IF CollectionSettingEnabled(c, "DepositRequired") /\ ~ isRoot
                        THEN MetadataDeposit(len) ELSE 0
           depositor == IF maybe_depositor = None THEN d.owner ELSE maybe_depositor
           from      == IF old = None THEN d.owner ELSE DepositorOf(old, d.owner)
           count     == IF old = None THEN SatInc(d.item_metadatas) ELSE d.item_metadatas
           paid      == IF maybe_depositor = None THEN SatSub(d.owner_deposit + deposit, oldAmount)
                        ELSE d.owner_deposit
<1>1. /\ CanMoveDeposit(b, from, oldAmount, depositor, deposit)
      /\ set.bal = MoveDeposit(b, from, oldAmount, depositor, deposit)
      /\ set.details = [d EXCEPT !.item_metadatas = count, !.owner_deposit = paid]
      /\ set.entry = [data |-> len, account |-> maybe_depositor, amount |-> deposit]
  BY DEF SetItemMetadata
<1>2. old = None \/ old \in Deposited
  BY DEF Option
<1>3. oldAmount \in Nat /\ deposit \in Nat
  <2>1. oldAmount \in Nat
    BY <1>2 DEF Deposited
  <2>2. deposit \in Nat
    BY DepositType
  <2> QED
    BY <2>1, <2>2
<1>4. from \in Option(AccountId) /\ depositor \in AccountId
  BY <1>2 DEF Deposited, DepositorOf, CollectionDetails, Option
<1>5. paid \in Nat
  <2> HIDE DEF deposit, oldAmount
  <2>1. d.owner_deposit \in Nat
    BY DEF CollectionDetails
  <2>2. SatSub(d.owner_deposit + deposit, oldAmount) \in Nat
    BY <1>3, <2>1 DEF SatSub
  <2> QED
    BY <2>1, <2>2
<1>6. count \in u32
  BY CounterType DEF CollectionDetails
<1> HIDE DEF set, deposit, oldAmount, from, depositor, paid, count
<1>7. /\ [d EXCEPT !.item_metadatas = count, !.owner_deposit = paid] \in CollectionDetails
      /\ [d EXCEPT !.item_metadatas = count, !.owner_deposit = paid].owner = d.owner
  BY <1>5, <1>6 DEF CollectionDetails
<1>8. [data |-> len, account |-> maybe_depositor, amount |-> deposit] \in Deposited
  BY <1>3 DEF Deposited
<1>9. /\ set.bal \in BalanceSheet(AccountId) /\ set.details \in CollectionDetails
      /\ set.details.owner = d.owner /\ set.entry \in Deposited
  BY <1>1, <1>3, <1>4, <1>7, <1>8, MoveDepositType
<1> QED
  BY <1>9 DEF set

\* set_attribute keeps every storage map within its type.
LEMMA set_attribute_Type ==
    ASSUME TypeOK, NEW origin, NEW c \in CollectionId, NEW k \in AttributeKey, NEW len \in Nat,
           NEW depositor \in AccountId, do_set_attribute(origin, c, k, len, depositor)
    PROVE  TypeOK'
<1> USE DEF TypeOK, StorageTypeOK
<1> DEFINE set == SetAttribute(c, k, len, depositor, bal, Collection[c])
<1>1. Collection[c] \in CollectionDetails /\ set.ok
  BY DEF do_set_attribute, Option
<1>2. /\ set.bal \in BalanceSheet(AccountId) /\ set.details \in CollectionDetails
      /\ set.entry \in Deposited
  BY <1>1, SetAttributeType
<1>3. /\ bal' = set.bal
      /\ Collection' = [Collection EXCEPT ![c] = set.details]
      /\ Attribute' = [Attribute EXCEPT ![c][k] = set.entry]
  BY DEF do_set_attribute
<1> HIDE DEF set
<1>4. /\ Collection' \in [CollectionId -> Option(CollectionDetails)]
      /\ Attribute' \in [CollectionId -> [AttributeKey -> Option(Deposited)]]
  BY <1>2, <1>3 DEF Option
<1> QED
  BY <1>2, <1>3, <1>4
  DEF do_set_attribute, AttributeFrame, itemVars, offerVars, acceptanceVars

\* force_set_attribute and fractionalize keep the types.
LEMMA force_set_attribute_Type ==
    ASSUME TypeOK, NEW set_as \in Option(AccountId), NEW c \in CollectionId,
           NEW k \in AttributeKey, NEW len \in Nat, do_force_set_attribute(set_as, c, k, len)
    PROVE  TypeOK'
<1> USE DEF TypeOK, StorageTypeOK
<1>1. Collection[c] \in CollectionDetails
  BY DEF do_force_set_attribute, Option
<1>2. Attribute[c][k] = None \/ Attribute[c][k] \in Deposited
  BY DEF Option
<1>3. bal' \in BalanceSheet(AccountId)
  BY <1>2, UnreserveType DEF do_force_set_attribute, Deposited, Option
<1> DEFINE count == IF Attribute[c][k] = None THEN SatInc(Collection[c].attributes)
                    ELSE Collection[c].attributes
           entry == [data |-> len, account |-> set_as, amount |-> 0]
<1>4. count \in u32 /\ entry \in Deposited
  BY <1>1, CounterType DEF CollectionDetails, Deposited
<1>5. /\ Collection' = [Collection EXCEPT ![c].attributes = count]
      /\ Attribute' = [Attribute EXCEPT ![c][k] = entry]
  BY DEF do_force_set_attribute
<1> HIDE DEF count, entry
<1>6. Collection' \in [CollectionId -> Option(CollectionDetails)]
  BY <1>1, <1>4, <1>5 DEF Option, CollectionDetails
<1>7. Attribute' \in [CollectionId -> [AttributeKey -> Option(Deposited)]]
  BY <1>4, <1>5 DEF Option
<1> QED
  BY <1>3, <1>6, <1>7
  DEF do_force_set_attribute, AttributeFrame, itemVars, offerVars, acceptanceVars

\* clear_attribute keeps every storage map within its type.
LEMMA clear_attribute_Type ==
    ASSUME TypeOK, NEW origin, NEW c \in CollectionId, NEW k \in AttributeKey,
           do_clear_attribute(origin, c, k)
    PROVE  TypeOK'
<1> USE DEF TypeOK, StorageTypeOK
<1>1. Collection[c] \in CollectionDetails /\ Attribute[c][k] \in Deposited
  BY DEF do_clear_attribute, Option
<1> DEFINE byOwner == Attribute[c][k].account = None /\ k[2] = CollectionOwner
           from == IF byOwner THEN Collection[c].owner ELSE Attribute[c][k].account
           count == SatDec(Collection[c].attributes)
           paid == IF byOwner THEN SatSub(Collection[c].owner_deposit, Attribute[c][k].amount)
                   ELSE Collection[c].owner_deposit
<1>2. bal' = IF from = None THEN bal ELSE Unreserve(bal, from, Attribute[c][k].amount)
  BY DEF do_clear_attribute
<1>3. from \in Option(AccountId)
  BY <1>1 DEF CollectionDetails, Deposited, Option
<1>4. count \in u32 /\ paid \in Nat
  BY <1>1, CounterType, SatSubType DEF CollectionDetails, Deposited
<1>5. Collection' = [Collection EXCEPT ![c] =
                        [Collection[c] EXCEPT !.attributes = count, !.owner_deposit = paid]]
  BY DEF do_clear_attribute
<1> HIDE DEF from, count, paid
<1>6. bal' \in BalanceSheet(AccountId)
  BY <1>1, <1>2, <1>3, UnreserveType DEF Deposited, Option
<1>7. Collection' \in [CollectionId -> Option(CollectionDetails)]
  BY <1>1, <1>4, <1>5 DEF Option, CollectionDetails
<1>8. Attribute' \in [CollectionId -> [AttributeKey -> Option(Deposited)]]
  BY DEF do_clear_attribute, Option
<1> QED
  BY <1>6, <1>7, <1>8
  DEF do_clear_attribute, AttributeFrame, itemVars, offerVars, acceptanceVars

\* Replacing the attribute approvals of one item by accounts keeps their type.
LEMMA ApprovalsUpdateType ==
    ASSUME TypeOK, NEW c \in CollectionId, NEW i \in ItemId, NEW delegates \in SUBSET AccountId,
           ItemAttributesApprovalsOf' = [ItemAttributesApprovalsOf EXCEPT ![c][i] = delegates]
    PROVE  ItemAttributesApprovalsOf' \in [CollectionId -> [ItemId -> SUBSET AccountId]]
<1> DEFINE S == SUBSET AccountId
           g == [ItemAttributesApprovalsOf[c] EXCEPT ![i] = delegates]
<1>1. ItemAttributesApprovalsOf \in [CollectionId -> [ItemId -> S]] /\ delegates \in S
  BY DEF TypeOK, StorageTypeOK
<1>2. ItemAttributesApprovalsOf' = [ItemAttributesApprovalsOf EXCEPT ![c] = g]
  OBVIOUS
<1> HIDE DEF S
<1>3. g \in [ItemId -> S]
  BY <1>1
<1> HIDE DEF g
<1>4. ItemAttributesApprovalsOf' \in [CollectionId -> [ItemId -> S]]
  BY <1>1, <1>2, <1>3
<1> QED
  BY <1>4 DEF S

\* Granting and cancelling attribute approvals keeps the types.
LEMMA attribute_approval_Type ==
    ASSUME TypeOK, NEW origin, NEW c \in CollectionId, NEW i \in ItemId, NEW delegate \in AccountId,
           \/ do_approve_item_attributes(origin, c, i, delegate)
           \/ do_cancel_item_attributes_approval(origin, c, i, delegate)
    PROVE  TypeOK'
<1> USE DEF TypeOK, StorageTypeOK
<1>1. AttributeFrame /\ UNCHANGED Collection
  BY DEF do_approve_item_attributes, do_cancel_item_attributes_approval
<1>2. bal' \in BalanceSheet(AccountId)
  BY UnreserveAllType DEF do_approve_item_attributes, do_cancel_item_attributes_approval
<1>3. ItemAttributesApprovalsOf' \in [CollectionId -> [ItemId -> SUBSET AccountId]]
  <2> DEFINE before == ItemAttributesApprovalsOf[c][i]
             added == before \cup {delegate}
             removed == before \ {delegate}
  <2>1. added \in SUBSET AccountId /\ removed \in SUBSET AccountId
    OBVIOUS
  <2>2. \/ ItemAttributesApprovalsOf' = [ItemAttributesApprovalsOf EXCEPT ![c][i] = added]
        \/ ItemAttributesApprovalsOf' = [ItemAttributesApprovalsOf EXCEPT ![c][i] = removed]
    BY DEF do_approve_item_attributes, do_cancel_item_attributes_approval
  <2> HIDE DEF added, removed
  <2> QED
    BY <2>1, <2>2, ApprovalsUpdateType
<1>4. Attribute' \in [CollectionId -> [AttributeKey -> Option(Deposited)]]
  <2>1. CASE do_approve_item_attributes(origin, c, i, delegate)
    BY <2>1 DEF do_approve_item_attributes
  <2>2. CASE do_cancel_item_attributes_approval(origin, c, i, delegate)
    <3>1. PICK drained : Attribute' = [Attribute EXCEPT ![c] =
            [k \in AttributeKey |-> IF k \in drained THEN None ELSE Attribute[c][k]]]
      BY <2>2 DEF do_cancel_item_attributes_approval
    <3> QED
      BY <3>1 DEF Option
  <2> QED
    BY <2>1, <2>2
<1> QED
  BY <1>1, <1>2, <1>3, <1>4 DEF AttributeFrame, itemVars, offerVars, acceptanceVars

\* set_metadata keeps every storage map within its type.
LEMMA set_metadata_Type ==
    ASSUME TypeOK, NEW origin, NEW c \in CollectionId, NEW i \in ItemId, NEW len \in Nat,
           do_set_item_metadata(origin, c, i, len)
    PROVE  TypeOK'
<1> USE DEF TypeOK, StorageTypeOK
<1> DEFINE set == SetItemMetadata(c, i, len, origin = Root, None, bal, Collection[c])
<1>1. Collection[c] \in CollectionDetails /\ set.ok
  BY DEF do_set_item_metadata, Option
<1>2. None \in Option(AccountId)
  BY DEF Option
<1>3. /\ set.bal \in BalanceSheet(AccountId) /\ set.details \in CollectionDetails
      /\ set.entry \in Deposited
  BY <1>1, <1>2, SetItemMetadataType
<1>4. /\ bal' = set.bal
      /\ Collection' = [Collection EXCEPT ![c] = set.details]
      /\ ItemMetadataOf' = [ItemMetadataOf EXCEPT ![c][i] = set.entry]
  BY DEF do_set_item_metadata
<1> HIDE DEF set
<1>5. /\ Collection' \in [CollectionId -> Option(CollectionDetails)]
      /\ ItemMetadataOf' \in [CollectionId -> [ItemId -> Option(Deposited)]]
  BY <1>3, <1>4 DEF Option
<1> QED
  BY <1>3, <1>4, <1>5 DEF do_set_item_metadata, offerVars, attributeVars, acceptanceVars

\* clear_metadata keeps every storage map within its type.
LEMMA clear_metadata_Type ==
    ASSUME TypeOK, NEW origin, NEW c \in CollectionId, NEW i \in ItemId,
           do_clear_item_metadata(origin, c, i)
    PROVE  TypeOK'
<1> USE DEF TypeOK, StorageTypeOK
<1>1. Collection[c] # None /\ ItemMetadataOf[c][i] # None
  BY DEF do_clear_item_metadata
<1>2. bal' \in BalanceSheet(AccountId) /\ ClearedMetadataDetails(c, i) \in CollectionDetails
  BY <1>1, ClearedMetadataType DEF do_clear_item_metadata
<1>3. /\ Collection' \in [CollectionId -> Option(CollectionDetails)]
      /\ ItemMetadataOf' \in [CollectionId -> [ItemId -> Option(Deposited)]]
  BY <1>2 DEF do_clear_item_metadata, Option
<1> QED
  BY <1>2, <1>3 DEF do_clear_item_metadata, offerVars, attributeVars, acceptanceVars

\* set_collection_metadata keeps every storage map within its type.
LEMMA set_collection_metadata_Type ==
    ASSUME TypeOK, NEW origin, NEW c \in CollectionId, NEW len \in Nat,
           do_set_collection_metadata(origin, c, len)
    PROVE  TypeOK'
<1> USE DEF TypeOK, StorageTypeOK
<1> DEFINE old       == CollectionMetadataOf[c]
           oldAmount == IF old = None THEN 0 ELSE old.deposit
           deposit   == IF origin # Root /\ CollectionSettingEnabled(c, "DepositRequired")
                        THEN MetadataDeposit(len) ELSE 0
           owner     == Collection[c].owner
           paid      == SatSub(Collection[c].owner_deposit, oldAmount) + deposit
           entry     == [deposit |-> deposit, data |-> len]
<1>1. Collection[c] \in CollectionDetails
  BY DEF do_set_collection_metadata, Option
<1>2. oldAmount \in Nat
  BY DEF Option, CollectionMetadata
<1>3. deposit \in Nat
  BY DepositType
<1>4. /\ CanAdjust(bal, owner, oldAmount, deposit)
      /\ bal' = Adjust(bal, owner, oldAmount, deposit)
      /\ Collection' = [Collection EXCEPT ![c].owner_deposit = paid]
      /\ CollectionMetadataOf' = [CollectionMetadataOf EXCEPT ![c] = entry]
  BY DEF do_set_collection_metadata
<1>5. owner \in AccountId /\ Collection[c].owner_deposit \in Nat
  BY <1>1 DEF CollectionDetails
<1> HIDE DEF oldAmount, deposit, owner
<1>6. bal' \in BalanceSheet(AccountId)
  BY <1>2, <1>3, <1>4, <1>5, AdjustType
<1>7. paid \in Nat
  BY <1>2, <1>3, <1>5 DEF SatSub
<1>8. entry \in CollectionMetadata
  BY <1>3 DEF CollectionMetadata
<1> HIDE DEF paid, entry
<1>9. Collection' \in [CollectionId -> Option(CollectionDetails)]
  BY <1>1, <1>4, <1>7 DEF CollectionDetails, Option
<1>10. CollectionMetadataOf' \in [CollectionId -> Option(CollectionMetadata)]
  BY <1>4, <1>8 DEF Option
<1> QED
  BY <1>6, <1>9, <1>10 DEF do_set_collection_metadata, CollectionMetadataFrame, itemVars,
     offerVars, attributeVars, acceptanceVars

\* clear_collection_metadata keeps every storage map within its type.
LEMMA clear_collection_metadata_Type ==
    ASSUME TypeOK, NEW origin, NEW c \in CollectionId, do_clear_collection_metadata(origin, c)
    PROVE  TypeOK'
<1> USE DEF TypeOK, StorageTypeOK
<1>1. Collection[c] \in CollectionDetails /\ CollectionMetadataOf[c] \in CollectionMetadata
  BY DEF do_clear_collection_metadata, Option
<1>2. bal' \in BalanceSheet(AccountId)
  BY <1>1, UnreserveType DEF do_clear_collection_metadata, CollectionDetails, CollectionMetadata
<1> DEFINE paid == SatSub(Collection[c].owner_deposit, CollectionMetadataOf[c].deposit)
<1>3. paid \in Nat
  BY <1>1, SatSubType DEF CollectionDetails, CollectionMetadata
<1>4. Collection' = [Collection EXCEPT ![c].owner_deposit = paid]
  BY DEF do_clear_collection_metadata
<1> HIDE DEF paid
<1>5. Collection' \in [CollectionId -> Option(CollectionDetails)]
  BY <1>1, <1>3, <1>4 DEF CollectionDetails, Option
<1>6. CollectionMetadataOf' \in [CollectionId -> Option(CollectionMetadata)]
  BY DEF do_clear_collection_metadata, Option
<1> QED
  BY <1>2, <1>5, <1>6 DEF do_clear_collection_metadata, CollectionMetadataFrame, itemVars,
     offerVars, attributeVars, acceptanceVars

\* mint_pre_signed, with whatever attribute and metadata it sets, keeps the types and
\* the collection's owner.
LEMMA mint_pre_signed_Type ==
    ASSUME TypeOK, NEW mint_to \in AccountId, NEW c \in CollectionId, NEW i \in ItemId,
           NEW data \in PreSignedMint, NEW signer,
           do_mint_pre_signed(mint_to, c, i, data, signer)
    PROVE  /\ TypeOK'
           /\ Collection'[c] \in CollectionDetails
           /\ Collection'[c].owner = Collection[c].owner
<1> USE DEF TypeOK, StorageTypeOK
<1> DEFINE settings == CollectionConfigOf[c].mint_settings.default_item_settings
           price    == IF data.mint_price = None THEN 0 ELSE data.mint_price
           paid     == Transfer(bal, mint_to, Collection[c].owner, price)
           k        == <<i, CollectionOwner, data.attributes.key>>
           minted   == [ok |-> TRUE, bal |-> MintedBalance(c, mint_to, paid),
                        details |-> MintedDetails(c, i)]
           hasAdmin == AccountsByRole(c, "Admin") # {}
           setsAttribute == hasAdmin /\ data.attributes # None
           setsMetadata  == hasAdmin /\ data.metadata # 0
           setAttribute == SetAttribute(c, k, data.attributes.len, mint_to, minted.bal,
                                        minted.details)
           attributed == IF setsAttribute THEN setAttribute ELSE minted
           setMetadata == SetItemMetadata(c, i, data.metadata, FALSE, mint_to, attributed.bal,
                                          attributed.details)
           described == IF setsMetadata THEN setMetadata ELSE attributed
<1>1. /\ CollectionConfigOf[c] # None /\ Collection[c] # None
      /\ CanTransfer(bal, mint_to, Collection[c].owner, price)
      /\ CanMint(c, i, mint_to, settings, paid)
      /\ setsAttribute => attributed.ok
      /\ setsMetadata => described.ok
      /\ InsertItem(c, i, mint_to, mint_to, settings)
      /\ Collection' = [Collection EXCEPT ![c] = described.details]
      /\ bal' = described.bal
      /\ Attribute' = IF setsAttribute
                      THEN [Attribute EXCEPT ![c][k] = attributed.entry] ELSE Attribute
      /\ ItemMetadataOf' = IF setsMetadata
                           THEN [ItemMetadataOf EXCEPT ![c][i] = described.entry]
                           ELSE ItemMetadataOf
  BY DEF do_mint_pre_signed
<1>2. settings \in SUBSET ItemSetting
  BY <1>1 DEF Option, CollectionConfig, MintSettings
<1>3. Collection[c].owner \in AccountId /\ price \in Nat
  BY <1>1 DEF Option, CollectionDetails, PreSignedMint
<1>4. paid \in BalanceSheet(AccountId)
  BY <1>1, <1>3, TransferType
<1>5. /\ minted.bal \in BalanceSheet(AccountId) /\ minted.details \in CollectionDetails
      /\ minted.details.owner = Collection[c].owner
  <2> HIDE DEF settings, paid
  <2> QED
    BY <1>1, <1>4, MintedType
<1> HIDE DEF settings, price, paid, minted, hasAdmin
<1>6. ASSUME setsAttribute
      PROVE  k \in AttributeKey /\ data.attributes.len \in Nat
  BY <1>6 DEF PreSignedMint, Option, AttributeKey, ClientNamespace
<1>7. /\ attributed.bal \in BalanceSheet(AccountId) /\ attributed.details \in CollectionDetails
      /\ attributed.details.owner = Collection[c].owner
      /\ setsAttribute => attributed.entry \in Deposited
  <2>1. CASE setsAttribute
    <3>1. setAttribute.ok /\ attributed = setAttribute
      BY <1>1, <2>1
    <3> HIDE DEF k, attributed
    <3>2. /\ setAttribute.bal \in BalanceSheet(AccountId)
          /\ setAttribute.details \in CollectionDetails
          /\ setAttribute.details.owner = minted.details.owner
          /\ setAttribute.entry \in Deposited
      BY <1>5, <1>6, <2>1, <3>1, SetAttributeType
    <3> HIDE DEF setAttribute
    <3> QED
      BY <1>5, <3>1, <3>2
  <2>2. CASE ~ setsAttribute
    BY <1>5, <2>2
  <2> QED
    BY <2>1, <2>2
<1> HIDE DEF attributed, k
<1>8. /\ described.bal \in BalanceSheet(AccountId) /\ described.details \in CollectionDetails
      /\ described.details.owner = Collection[c].owner
      /\ setsMetadata => described.entry \in Deposited
  <2>1. CASE setsMetadata
    <3>1. setMetadata.ok /\ described = setMetadata
      BY <1>1, <2>1
    <3>2. data.metadata \in Nat /\ mint_to \in Option(AccountId)
      BY DEF PreSignedMint, Option
    <3> HIDE DEF described
    <3>3. /\ setMetadata.bal \in BalanceSheet(AccountId)
          /\ setMetadata.details \in CollectionDetails
          /\ setMetadata.details.owner = attributed.details.owner
          /\ setMetadata.entry \in Deposited
      BY <1>7, <3>1, <3>2, SetItemMetadataType
    <3> HIDE DEF setMetadata
    <3> QED
      BY <1>7, <3>1, <3>3
  <2>2. CASE ~ setsMetadata
    BY <1>7, <2>2
  <2> QED
    BY <2>1, <2>2
<1> HIDE DEF described, setsAttribute, setsMetadata
<1>9. /\ Account' \subseteq AccountId \X CollectionId \X ItemId
      /\ ItemConfigOf' \in [CollectionId -> [ItemId -> Option(SUBSET ItemSetting)]]
      /\ Item' \in [CollectionId -> [ItemId -> Option(ItemDetails)]]
  BY <1>1, <1>2, InsertItem_Type
<1>10. /\ Collection' \in [CollectionId -> Option(CollectionDetails)]
       /\ Collection'[c] \in CollectionDetails /\ Collection'[c].owner = Collection[c].owner
       /\ ItemMetadataOf' \in [CollectionId -> [ItemId -> Option(Deposited)]]
  BY <1>1, <1>8 DEF Option
<1>11. Attribute' \in [CollectionId -> [AttributeKey -> Option(Deposited)]]
  BY <1>1, <1>7 DEF Option
<1>12. bal' \in BalanceSheet(AccountId)
  BY <1>1, <1>8
<1>13. UNCHANGED <<CollectionAccount, CollectionRoleOf, CollectionConfigOf, CollectionMetadataOf,
                   NextCollectionId, offerVars, ItemAttributesApprovalsOf, acceptanceVars, now>>
  BY DEF do_mint_pre_signed
<1> QED
  BY <1>9, <1>10, <1>11, <1>12, <1>13 DEF offerVars, acceptanceVars

\* set_attributes_pre_signed keeps every storage map within its type.
LEMMA set_attributes_pre_signed_Type ==
    ASSUME TypeOK, NEW origin \in AccountId, NEW c \in CollectionId, NEW k \in AttributeKey,
           NEW len \in Nat, NEW deadline, NEW signer \in AccountId,
           do_set_attributes_pre_signed(origin, c, k, len, deadline, signer)
    PROVE  TypeOK'
<1> USE DEF TypeOK, StorageTypeOK
<1> DEFINE set == SetAttribute(c, k, len, origin, bal, Collection[c])
           approves == k[2] = AccountNs(signer) /\ signer \notin ItemAttributesApprovalsOf[c][k[1]]
<1>1. Collection[c] \in CollectionDetails /\ set.ok
  BY DEF do_set_attributes_pre_signed, Option
<1>2. /\ set.bal \in BalanceSheet(AccountId) /\ set.details \in CollectionDetails
      /\ set.entry \in Deposited
  BY <1>1, SetAttributeType
<1>3. /\ bal' = set.bal
      /\ Collection' = [Collection EXCEPT ![c] = set.details]
      /\ Attribute' = [Attribute EXCEPT ![c][k] = set.entry]
      /\ ItemAttributesApprovalsOf' =
            IF approves THEN [ItemAttributesApprovalsOf EXCEPT ![c][k[1]] = @ \cup {signer}]
            ELSE ItemAttributesApprovalsOf
      /\ AttributeFrame
  BY DEF do_set_attributes_pre_signed
<1> HIDE DEF set, approves
<1>4. /\ Collection' \in [CollectionId -> Option(CollectionDetails)]
      /\ Attribute' \in [CollectionId -> [AttributeKey -> Option(Deposited)]]
  BY <1>2, <1>3 DEF Option
<1>5. ItemAttributesApprovalsOf' \in [CollectionId -> [ItemId -> SUBSET AccountId]]
  <2>1. k[1] \in ItemId
    BY DEF do_set_attributes_pre_signed, AttributeKey, Option
  <2> DEFINE delegates == ItemAttributesApprovalsOf[c][k[1]] \cup {signer}
  <2>2. delegates \in SUBSET AccountId
    BY <2>1
  <2>3. \/ ItemAttributesApprovalsOf' = [ItemAttributesApprovalsOf EXCEPT ![c][k[1]] = delegates]
        \/ ItemAttributesApprovalsOf' = ItemAttributesApprovalsOf
    BY <1>3
  <2> HIDE DEF delegates
  <2> QED
    BY <2>1, <2>2, <2>3, ApprovalsUpdateType
<1> QED
  BY <1>2, <1>3, <1>4, <1>5 DEF AttributeFrame, itemVars, offerVars, acceptanceVars

\* Unifying an item (enable_transfer and do_transfer) keeps the types.
LEMMA unify_Type ==
    ASSUME TypeOK, NEW c \in CollectionId, NEW i \in ItemId, NEW dest \in AccountId,
           enable_transfer_and_transfer(c, i, dest)
    PROVE  TypeOK'
<1> USE DEF TypeOK, StorageTypeOK
<1>1. Item[c][i] # None /\ Collection[c] # None /\ MoveTo(c, i, dest)
  BY DEF enable_transfer_and_transfer, TransferAllowed
<1>2. Collection[c] \in CollectionDetails
  BY <1>1 DEF Option
<1> DEFINE count == SatDec(Collection[c].attributes)
<1>3. count \in u32
  BY <1>2, CounterType DEF CollectionDetails
<1>4. Collection' = [Collection EXCEPT ![c].attributes = count]
  BY DEF enable_transfer_and_transfer
<1> HIDE DEF count
<1>5. Collection' \in [CollectionId -> Option(CollectionDetails)]
  BY <1>2, <1>3, <1>4 DEF Option, CollectionDetails
<1>6. Attribute' \in [CollectionId -> [AttributeKey -> Option(Deposited)]]
  BY DEF enable_transfer_and_transfer, Option
<1> QED
  BY <1>1, <1>5, <1>6, MoveTo_Type DEF enable_transfer_and_transfer, acceptanceVars

\* The storage stays well typed in every step.
LEMMA NextType == TypeOK /\ [Next]_vars => TypeOK'
<1> SUFFICES ASSUME TypeOK, [Next]_vars PROVE TypeOK'
  OBVIOUS
<1>1. CASE CollectionStep
  BY <1>1, create_Type, destroy_Type, set_team_Type, config_Type, transfer_ownership_Type,
     force_collection_owner_Type, set_accept_ownership_Type DEF CollectionStep
<1>2. CASE ItemStep
  BY <1>2, mint_Type, force_mint_Type, burn_Type, transfer_Type, redeposit_Type,
     item_config_Type, unify_Type DEF ItemStep
<1>3. CASE TradingStep
  BY <1>3, item_approvals_Type, set_price_Type, buy_item_Type, pay_tips_Type, swap_offer_Type,
     claim_swap_Type DEF TradingStep
<1>4. CASE DataStep
  BY <1>4, set_attribute_Type, force_set_attribute_Type, clear_attribute_Type,
     attribute_approval_Type, set_metadata_Type, clear_metadata_Type,
     set_collection_metadata_Type, clear_collection_metadata_Type, mint_pre_signed_Type,
     set_attributes_pre_signed_Type DEF DataStep
<1>5. CASE NextBlock
  <2>1. now' \in Nat
    BY <1>5 DEF NextBlock, TypeOK, StorageTypeOK
  <2>2. UNCHANGED <<collectionVars, itemVars, offerVars, attributeVars, acceptanceVars, bal>>
    BY <1>5 DEF NextBlock
  <2> QED
    BY <2>1, <2>2 DEF TypeOK, StorageTypeOK, collectionVars, itemVars, offerVars, attributeVars,
       acceptanceVars
<1>6. CASE UNCHANGED vars
  BY <1>6 DEF vars, TypeOK, StorageTypeOK, collectionVars, itemVars, offerVars, attributeVars,
     acceptanceVars
<1> QED
  BY <1>1, <1>2, <1>3, <1>4, <1>5, <1>6, NextStep

\* Every storage map holds values of its declared type after any sequence of calls, for
\* any number of accounts, collections and items and any deposits and limits: TypeOK
\* is inductive by itself.
THEOREM TypeCorrect == Spec => []TypeOK
<1>1. Init => TypeOK
  BY InitType
<1>2. TypeOK /\ [Next]_vars => TypeOK'
  BY NextType
<1> QED
  BY <1>1, <1>2, PTL DEF Spec
=============================================================================
