----------------------------- MODULE NftsItems -----------------------------
(***************************************************************************)
(* Items of pallet-nfts: minting, burning, transfer, deposits and locks    *)
(* (features/create_delete_item.rs, transfer.rs, lock.rs; mint and         *)
(* redeposit of lib.rs).  do_mint and do_transfer are called by several    *)
(* handlers, some of which go on to change the same storage, so each is a  *)
(* guard and the values it writes.                                         *)
(***************************************************************************)
EXTENDS NftsStorage

\* Mutant: off by one at the maximal supply.
CanMintOneMore(c, i, depositor, item_config, b) ==
    /\ Item[c][i] = None
    /\ Collection[c] # None
    /\ CollectionConfigOf[c] # None
    /\ CollectionConfigOf[c].max_supply # None
          => Collection[c].items <= CollectionConfigOf[c].max_supply
    /\ ItemConfigOf[c][i] \in {None, item_config}
    /\ CanReserve(b, depositor, ItemDepositOf(c))

\* The checks of do_mint, made on the balances b that its with_details_and_config
\* closure left.
CanMint(c, i, depositor, item_config, b) ==
    /\ Item[c][i] = None
    /\ Collection[c] # None
    /\ CollectionConfigOf[c] # None
    /\ CollectionConfigOf[c].max_supply # None
          => Collection[c].items < CollectionConfigOf[c].max_supply
    /\ ItemConfigOf[c][i] \in {None, item_config}
    /\ CanReserve(b, depositor, ItemDepositOf(c))

\* Mutants: a config that outlived a burned item is counted again, or none is.
MintedDetailsRecounted(c, i) ==
    [Collection[c] EXCEPT !.items = SatInc(@), !.item_configs = SatInc(@)]
MintedDetailsUncounted(c, i) == [Collection[c] EXCEPT !.items = SatInc(@)]

MintedDetails(c, i) ==
    [Collection[c] EXCEPT !.items = SatInc(@),
                          !.item_configs = IF ItemConfigOf[c][i] = None THEN SatInc(@) ELSE @]

\* Mutant: takes the deposit where DepositRequired is disabled.
MintedBalanceAlways(c, depositor, b) == Reserve(b, depositor, ItemDeposit)

MintedBalance(c, depositor, b) == Reserve(b, depositor, ItemDepositOf(c))

\* The item records do_mint inserts.
InsertItem(c, i, depositor, mint_to, item_config) ==
    /\ Account' = Account \cup {<<mint_to, c, i>>}
    /\ ItemConfigOf' = [ItemConfigOf EXCEPT ![c][i] = item_config]
    /\ Item' = [Item EXCEPT ![c][i] =
          [owner |-> mint_to, approvals |-> NoApprovals,
           deposit_account |-> depositor, deposit_amount |-> ItemDepositOf(c)]]

\* do_mint for the callers whose closure changes nothing but balances.
do_mint(c, i, depositor, mint_to, item_config, b) ==
    /\ CanMint(c, i, depositor, item_config, b)
    /\ InsertItem(c, i, depositor, mint_to, item_config)
    /\ Collection' = [Collection EXCEPT ![c] = MintedDetails(c, i)]
    /\ bal' = MintedBalance(c, depositor, b)
    /\ UNCHANGED <<CollectionAccount, CollectionRoleOf, CollectionConfigOf, CollectionMetadataOf,
                   NextCollectionId, ItemMetadataOf, offerVars, ItemAttributesApprovalsOf,
                   acceptanceVars, now>>

\* The mint window and, for the item named by the witness, the claim of a
\* HolderOf mint; a claim leaves its mark on the item it was made with.
MintOpen(settings) ==
    /\ settings.start_block # None => settings.start_block <= now
    /\ settings.end_block # None => settings.end_block >= now

\* Mutant: an item may be used to claim again.
MintPermittedAgain(caller, c, settings, owned_item) ==
    \/ settings.mint_type = Issuer /\ has_role(c, caller, "Issuer")
    \/ settings.mint_type = Public
    \/ \E hc \in CollectionId :
          /\ settings.mint_type = HolderOf(hc)
          /\ owned_item # None
          /\ <<caller, hc, owned_item>> \in Account

MintPermitted(caller, c, settings, owned_item) ==
    \/ settings.mint_type = Issuer /\ has_role(c, caller, "Issuer")
    \/ settings.mint_type = Public
    \/ \E hc \in CollectionId :
          /\ settings.mint_type = HolderOf(hc)
          /\ owned_item # None
          /\ <<caller, hc, owned_item>> \in Account
          /\ ~ has_system_attribute(hc, owned_item, UsedToClaim(c))

MarkUsedToClaim(c, settings, owned_item) ==
    Attribute' = [hc \in CollectionId |->
        IF settings.mint_type = HolderOf(hc)
        THEN [Attribute[hc] EXCEPT ![<<owned_item, Pallet, UsedToClaim(c)>>] =
                 [data |-> 0, account |-> None, amount |-> 0]]
        ELSE Attribute[hc]]

\* witness_price is the mint_price of the witness, None when it has none.
mint_as(caller, c, i, mint_to, owned_item, witness_price) ==
    LET settings == CollectionConfigOf[c].mint_settings
        price    == IF settings.price = None THEN 0 ELSE settings.price
    IN  /\ CollectionConfigOf[c] # None
        /\ Collection[c] # None
        /\ MintOpen(settings)
        /\ MintPermitted(caller, c, settings, owned_item)
        /\ settings.price # None => witness_price # None /\ witness_price >= price
        /\ CanTransfer(bal, caller, Collection[c].owner, price)
        /\ do_mint(c, i, caller, mint_to, settings.default_item_settings,
                   Transfer(bal, caller, Collection[c].owner, price))
        /\ MarkUsedToClaim(c, settings, owned_item)

do_force_mint(origin, c, i, mint_to, item_config) ==
    /\ RoleOrRoot(origin, c, "Issuer")
    /\ Collection[c] # None
    /\ do_mint(c, i, Collection[c].owner, mint_to, item_config, bal)
    /\ UNCHANGED Attribute
-----------------------------------------------------------------------------
\* Mutant: clears locked metadata too.
BurnsAnyMetadata(c, i) == ItemMetadataOf[c][i] # None

\* The metadata part of do_burn: cleared, and its deposit returned to whoever
\* paid it, unless the item's metadata is locked.
BurnsMetadata(c, i) == ItemSettingEnabled(c, i, "UnlockedMetadata") /\ ItemMetadataOf[c][i] # None

DepositorOf(deposited, owner) == IF deposited.account = None THEN owner ELSE deposited.account

\* Mutant: the deposit stays in owner_deposit.
ClearedMetadataDetailsOnly(c, i) == [Collection[c] EXCEPT !.item_metadatas = SatDec(@)]

\* What clearing an item's metadata leaves of the collection's details and of
\* the balances b (do_burn and do_clear_item_metadata).
ClearedMetadataDetails(c, i) ==
    LET m == ItemMetadataOf[c][i] IN
    [Collection[c] EXCEPT !.item_metadatas = SatDec(@),
                          !.owner_deposit = IF DepositorOf(m, Collection[c].owner) = Collection[c].owner
                                            THEN SatSub(@, m.amount) ELSE @]

ClearedMetadataBalance(c, i, b) ==
    Unreserve(b, DepositorOf(ItemMetadataOf[c][i], Collection[c].owner), ItemMetadataOf[c][i].amount)

\* Mutant: a burned item stays for sale.
RemoveOffersButPrice(c, i) ==
    /\ UNCHANGED ItemPriceOf
    /\ PendingSwapOf' = [PendingSwapOf EXCEPT ![c][i] = None]
    /\ ItemAttributesApprovalsOf' = [ItemAttributesApprovalsOf EXCEPT ![c][i] = {}]

\* Mutant: the attribute approvals of a burned item stay.
RemoveOffersButApprovals(c, i) ==
    /\ ItemPriceOf' = [ItemPriceOf EXCEPT ![c][i] = None]
    /\ PendingSwapOf' = [PendingSwapOf EXCEPT ![c][i] = None]
    /\ UNCHANGED ItemAttributesApprovalsOf

\* The offers and approvals that end with the item.
RemoveOffers(c, i) ==
    /\ ItemPriceOf' = [ItemPriceOf EXCEPT ![c][i] = None]
    /\ PendingSwapOf' = [PendingSwapOf EXCEPT ![c][i] = None]
    /\ ItemAttributesApprovalsOf' = [ItemAttributesApprovalsOf EXCEPT ![c][i] = {}]

\* A config with a disabled setting outlives the item.
do_burn(origin, c, i) ==
    LET details       == Item[c][i]
        returned      == Unreserve(bal, details.deposit_account, details.deposit_amount)
        remove_config == ItemConfigOf[c][i] = {}
        d             == IF BurnsMetadata(c, i) THEN ClearedMetadataDetails(c, i) ELSE Collection[c]
    IN  /\ ~ has_system_attribute(c, i, TransferDisabled)
        /\ ItemConfigOf[c][i] # None
        /\ Collection[c] # None
        /\ Item[c][i] # None
        /\ MaybeCheck(origin, details.owner)
        /\ bal' = IF BurnsMetadata(c, i) THEN ClearedMetadataBalance(c, i, returned) ELSE returned
        /\ Collection' = [Collection EXCEPT ![c] =
              [d EXCEPT !.items = SatDec(@),
                        !.item_configs = IF remove_config THEN SatDec(@) ELSE @]]
        /\ ItemMetadataOf' = IF BurnsMetadata(c, i)
                             THEN [ItemMetadataOf EXCEPT ![c][i] = None] ELSE ItemMetadataOf
        /\ Item' = [Item EXCEPT ![c][i] = None]
        /\ Account' = Account \ {<<details.owner, c, i>>}
        /\ RemoveOffers(c, i)
        /\ ItemConfigOf' = IF remove_config
                           THEN [ItemConfigOf EXCEPT ![c][i] = None] ELSE ItemConfigOf
        /\ UNCHANGED <<CollectionAccount, CollectionRoleOf, CollectionConfigOf,
                       CollectionMetadataOf, NextCollectionId, Attribute, acceptanceVars, now>>
-----------------------------------------------------------------------------
(* do_transfer, transfer.rs *)

\* The settings do_transfer checks, and all of its checks.
TransferAllowed(c, i) ==
    /\ Collection[c] # None
    /\ CollectionConfigOf[c] # None
    /\ CollectionSettingEnabled(c, "TransferableItems")
    /\ ItemConfigOf[c][i] # None
    /\ ItemSettingEnabled(c, i, "Transferable")
    /\ Item[c][i] # None

\* Mutant: moves fractionalized items.
MovableIfDisabled(c, i) == TransferAllowed(c, i)

Movable(c, i) == TransferAllowed(c, i) /\ ~ has_system_attribute(c, i, TransferDisabled)

\* Mutant: the approvals survive.
MovedItemWithApprovals(items, c, i, dest) == [items EXCEPT ![c][i].owner = dest]

\* What it writes: the new owner, no approvals, and the owner index.
MovedItem(items, c, i, dest) ==
    [items EXCEPT ![c][i] = [@ EXCEPT !.owner = dest, !.approvals = NoApprovals]]

\* Mutant: the former owner stays in the index.
MovedAccountAlso(accounts, c, i, from, dest) == accounts \cup {<<dest, c, i>>}

MovedAccount(accounts, c, i, from, dest) ==
    (accounts \ {<<from, c, i>>}) \cup {<<dest, c, i>>}

\* Mutant: the swap offer of the former owner survives.
MoveToWithSwap(c, i, dest) ==
    /\ Account' = MovedAccount(Account, c, i, Item[c][i].owner, dest)
    /\ Item' = MovedItem(Item, c, i, dest)
    /\ ItemPriceOf' = [ItemPriceOf EXCEPT ![c][i] = None]
    /\ UNCHANGED PendingSwapOf

MoveTo(c, i, dest) ==
    /\ Account' = MovedAccount(Account, c, i, Item[c][i].owner, dest)
    /\ Item' = MovedItem(Item, c, i, dest)
    /\ ItemPriceOf' = [ItemPriceOf EXCEPT ![c][i] = None]
    /\ PendingSwapOf' = [PendingSwapOf EXCEPT ![c][i] = None]

do_transfer(c, i, dest) ==
    /\ Movable(c, i)
    /\ MoveTo(c, i, dest)
    /\ UNCHANGED <<collectionVars, ItemConfigOf, ItemMetadataOf, attributeVars, acceptanceVars, now>>

\* Mutant: an approval has no deadline.
MayTransferLate(origin, c, i) ==
    Item[c][i].owner = origin \/ Item[c][i].approvals[origin] # None

\* The closure of the transfer dispatchable: the owner, or a delegate whose
\* approval has no deadline or one that has not passed.
MayTransfer(origin, c, i) ==
    \/ Item[c][i].owner = origin
    \/ Item[c][i].approvals[origin] = Forever
    \/ Item[c][i].approvals[origin] \in Nat /\ now <= Item[c][i].approvals[origin]

transfer_item(origin, c, i, dest) ==
    /\ Item[c][i] # None
    /\ MayTransfer(origin, c, i)
    /\ do_transfer(c, i, dest)
    /\ UNCHANGED bal
-----------------------------------------------------------------------------
\* redeposit of one item.  A call with several items handles them one by one and
\* passes over those it cannot update, so it is a sequence of calls with one.
redeposit_item(origin, c, i) ==
    LET old == Item[c][i].deposit_amount
        who == Item[c][i].deposit_account
        deposit == ItemDepositOf(c)
    IN  /\ Collection[c] # None
        /\ Collection[c].owner = origin
        /\ CollectionConfigOf[c] # None
        /\ Item[c][i] # None
        /\ old # deposit
        /\ CanAdjust(bal, who, old, deposit)
        /\ bal' = Adjust(bal, who, old, deposit)
        /\ Item' = [Item EXCEPT ![c][i].deposit_amount = deposit]
        /\ UNCHANGED <<collectionVars, Account, ItemConfigOf, ItemMetadataOf, offerVars,
                       attributeVars, acceptanceVars, now>>
-----------------------------------------------------------------------------
(* Item locks, lock.rs *)

ItemConfigFrame ==
    UNCHANGED <<collectionVars, Item, Account, ItemMetadataOf, offerVars, attributeVars,
                acceptanceVars, bal, now>>

do_lock_item_transfer(origin, c, i) ==
    /\ has_role(c, origin, "Freezer")
    /\ ItemConfigOf[c][i] # None
    /\ ItemConfigOf' = [ItemConfigOf EXCEPT ![c][i] = @ \cup {"Transferable"}]
    /\ ItemConfigFrame

do_unlock_item_transfer(origin, c, i) ==
    /\ has_role(c, origin, "Freezer")
    /\ ItemConfigOf[c][i] # None
    /\ ItemConfigOf' = [ItemConfigOf EXCEPT ![c][i] = @ \ {"Transferable"}]
    /\ ItemConfigFrame

\* properties is the set of the settings whose lock flags the caller sets.
do_lock_item_properties(origin, c, i, properties) ==
    /\ RoleOrRoot(origin, c, "Admin")
    /\ ItemConfigOf[c][i] # None
    /\ ItemConfigOf' = [ItemConfigOf EXCEPT ![c][i] = @ \cup properties]
    /\ ItemConfigFrame
=============================================================================
