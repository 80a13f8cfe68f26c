--------------------------- MODULE NftsProperties ---------------------------
(***************************************************************************)
(* The correctness properties of pallet-nfts.                              *)
(***************************************************************************)
EXTENDS Nfts

\* Every storage map holds values of its declared type (lib.rs, the #[pallet::storage]
\* items), whatever sequence of calls was made.
TypeOK == StorageTypeOK
-----------------------------------------------------------------------------
(* Structure of the storage *)

\* Account and CollectionAccount, from which wallets list what an account owns, are
\* exactly the owners recorded in Item and Collection, through every mint, sale,
\* swap, burn, ownership transfer and destroy.
OwnerIndexExact ==
    /\ \A a \in AccountId, c \in CollectionId, i \in ItemId :
          <<a, c, i>> \in Account <=> (Item[c][i] # None /\ Item[c][i].owner = a)
    /\ \A a \in AccountId, c \in CollectionId :
          <<a, c>> \in CollectionAccount <=> (Collection[c] # None /\ Collection[c].owner = a)

\* items, item_metadatas and item_configs of CollectionDetails count what is stored.
\* destroy relies on them: items for emptiness, item_configs for how much to clear.
CountersExact ==
    \A c \in CollectionId : Collection[c] # None =>
        /\ Collection[c].items = Cardinality({i \in ItemId : Item[c][i] # None})
        /\ Collection[c].item_metadatas = Cardinality({i \in ItemId : ItemMetadataOf[c][i] # None})
        /\ Collection[c].item_configs = Cardinality({i \in ItemId : ItemConfigOf[c][i] # None})

\* destroy leaves nothing behind under the id, which a later collection may get
\* again: no items, configs, metadata, attributes, roles or offers.
NothingOutlivesCollection ==
    \A c \in CollectionId : Collection[c] = None =>
        /\ CollectionConfigOf[c] = None
        /\ CollectionMetadataOf[c] = None
        /\ \A a \in AccountId : CollectionRoleOf[c][a] = {}
        /\ \A k \in AttributeKey : Attribute[c][k] = None
        /\ \A i \in ItemId : /\ Item[c][i] = None
                             /\ ItemConfigOf[c][i] = None
                             /\ ItemMetadataOf[c][i] = None

\* Offers and attribute approvals exist for existing items only, so that an item
\* minted again after a burn is not for sale by its former owner; and an existing
\* item always has the configs that do_transfer and do_burn insist on.
OffersNeedItem ==
    \A c \in CollectionId, i \in ItemId :
        /\ Item[c][i] = None => /\ ItemPriceOf[c][i] = None
                                /\ PendingSwapOf[c][i] = None
                                /\ ItemAttributesApprovalsOf[c][i] = {}
        /\ Item[c][i] # None => /\ Collection[c] # None
                                /\ CollectionConfigOf[c] # None
                                /\ ItemConfigOf[c][i] # None

\* A role has at most one holder in a collection, so find_account_by_role does not
\* depend on the order of the map, and clear_roles, which clears at most max_roles
\* records, never fails with RolesNotCleared.
RolesUnique ==
    \A c \in CollectionId :
        /\ \A role \in CollectionRole, a, b \in AccountId :
              has_role(c, a, role) /\ has_role(c, b, role) => a = b
        /\ RolesClearable(c)

\* The pallet holds exactly one consumer reference on an account that accepts a
\* collection and none on any other, whichever way an acceptance ends.
ConsumerPerAcceptance ==
    \A a \in AccountId : consumers[a] = IF OwnershipAcceptance[a] = None THEN 0 ELSE 1

\* As long as root does not force a config, a collection never holds more items than
\* its max_supply, although mint and set_collection_max_supply check it apart.
SupplyCapped ==
    \A c \in CollectionId :
        Collection[c] # None /\ CollectionConfigOf[c].max_supply # None
            => Collection[c].items <= CollectionConfigOf[c].max_supply
-----------------------------------------------------------------------------
(* Deposits *)

Collections == {c \in CollectionId : Collection[c] # None}

\* What an account has on deposit as the owner of a collection, and for items.
OwnerShare(account, details) ==
    IF details # None /\ details.owner = account THEN details.owner_deposit ELSE 0
PaidForItem(account, details) ==
    IF details # None /\ details.deposit_account = account THEN details.deposit_amount ELSE 0
ItemsPaid(account, items) ==
    SumFunction([i \in DOMAIN items |-> PaidForItem(account, items[i])])

\* What account a has on deposit for collection c and its contents.
Held(a, c) ==
    OwnerShare(a, Collection[c]) + ItemsPaid(a, Item[c])
    + DepositedBy(a, ItemMetadataOf[c]) + DepositedBy(a, Attribute[c])

\* What an account has reserved is the sum of the deposits recorded in its name: the
\* owner_deposit of its collections and the items, metadata and attributes it paid
\* for.  Less would make a later unreserve fall short, more would lock funds for good.
ReservesExact ==
    \A a \in AccountId : bal.reserved[a] = SumFunction([c \in CollectionId |-> Held(a, c)])

\* What the collection's owner has paid for its metadata, its items' metadata and the
\* attributes of the CollectionOwner namespace.
OwnerPaid(c) ==
    (IF CollectionMetadataOf[c] = None THEN 0 ELSE CollectionMetadataOf[c].deposit)
    + DepositedBy(None, ItemMetadataOf[c]) + DepositedBy(None, Attribute[c])

\* owner_deposit is "the total balance deposited by the owner for all the storage data
\* associated with this collection" (types.rs): the deposit of the collection itself,
\* which is 0 when root created it, and what the owner has paid for data.
OwnerDepositExact ==
    \A c \in Collections :
        Collection[c].owner_deposit \in {OwnerPaid(c), CollectionDeposit + OwnerPaid(c)}
-----------------------------------------------------------------------------
(* What a step may do *)

OwnerChanges(c, i) ==
    Item[c][i] # None /\ Item'[c][i] # None /\ Item[c][i].owner # Item'[c][i].owner

\* An item that changes hands leaves every offer of its former owner behind: no price,
\* no swap and no transfer approval survives, also when two items change hands in one
\* claim_swap.
OffersEndWithOwnership ==
    [][\A c \in CollectionId, i \in ItemId : OwnerChanges(c, i) =>
          /\ ItemPriceOf'[c][i] = None
          /\ PendingSwapOf'[c][i] = None
          /\ Item'[c][i].approvals = NoApprovals]_vars

\* Account a gains the amount and account b loses it.
Pays(b, a, amount) ==
    /\ bal'.free[a] = bal.free[a] + amount
    /\ bal'.free[b] = bal.free[b] - amount

SoldAtPrice(c, i) ==
    LET from == Item[c][i].owner
        to   == Item'[c][i].owner
    IN  /\ ItemPriceOf[c][i] # None
        /\ ItemPriceOf[c][i].buyer \in {None, to}
        /\ Pays(to, from, ItemPriceOf[c][i].price)

\* Item ri of rc was offered, and goes to the former owner of item si of sc, which
\* goes the other way, with the price of the swap.
SwappedFor(rc, ri, sc, si) ==
    LET swap    == PendingSwapOf[rc][ri]
        offerer == Item[rc][ri].owner
        taker   == Item'[rc][ri].owner
    IN  /\ swap # None
        /\ now <= swap.deadline
        /\ swap.desired_collection = sc
        /\ swap.desired_item \in {None, si}
        /\ Item[sc][si] # None /\ Item[sc][si].owner = taker
        /\ Item'[sc][si] # None /\ Item'[sc][si].owner = offerer
        /\ CASE swap.price = None -> bal' = bal
             [] swap.price # None /\ swap.price.direction = "Send" ->
                    Pays(offerer, taker, swap.price.amount)
             [] OTHER -> Pays(taker, offerer, swap.price.amount)

\* Where nobody transfers items directly, an item changes owner only in a completed
\* trade: sold to a buyer its price admits who paid exactly the price, or one side of
\* a swap, before its deadline, whose other side and price went the other way in the
\* same step.  A price or swap of a former owner, or of a burned item, never counts.
MovesAreSettled ==
    [][\A c \in CollectionId, i \in ItemId : OwnerChanges(c, i) =>
          \/ SoldAtPrice(c, i)
          \/ \E oc \in CollectionId, oi \in ItemId :
                SwappedFor(c, i, oc, oi) \/ SwappedFor(oc, oi, c, i)]_vars

\* Where transfers are submitted by delegates only, an item that is neither sold nor
\* fractionalized moves only while its CURRENT owner's approval of a delegate is in
\* force: an approval given by a former owner, cancelled, or past its deadline does not
\* move it.
DelegatesNeedApproval ==
    [][\A c \in CollectionId, i \in ItemId : OwnerChanges(c, i) =>
          \/ SoldAtPrice(c, i)
          \/ has_system_attribute(c, i, TransferDisabled)
          \/ \E d \in Callers["transfer"] :
              \/ d = Item[c][i].owner
              \/ Item[c][i].approvals[d] = Forever
              \/ Item[c][i].approvals[d] \in Nat /\ Item[c][i].approvals[d] >= now]_vars

\* A fractionalized item (TransferDisabled) exists, and neither it nor its owner
\* changes until the step that removes the mark: it can be neither burned nor moved.
FractionalizedStays ==
    [][\A c \in CollectionId, i \in ItemId :
          has_system_attribute(c, i, TransferDisabled) =>
              /\ Item[c][i] # None
              /\ has_system_attribute(c, i, TransferDisabled)'
                    => Item'[c][i] # None /\ ~ OwnerChanges(c, i)]_vars

\* The settings of a collection that are disabled stay disabled while it exists, and
\* what they lock no longer changes: its max_supply, its metadata, its attributes.
CollectionLocksFinal ==
    [][\A c \in CollectionId : Collection[c] # None /\ Collection'[c] # None =>
          LET disabled == CollectionConfigOf[c].settings IN
          /\ disabled \subseteq CollectionConfigOf'[c].settings
          /\ "UnlockedMaxSupply" \in disabled
                => CollectionConfigOf'[c].max_supply = CollectionConfigOf[c].max_supply
          /\ "UnlockedMetadata" \in disabled
                => CollectionMetadataOf'[c] = CollectionMetadataOf[c]
          /\ "UnlockedAttributes" \in disabled => \A key \in Key :
                Attribute'[c][<<None, CollectionOwner, key>>]
                    = Attribute[c][<<None, CollectionOwner, key>>]]_vars

\* Locked metadata and locked CollectionOwner attributes of an item never change again
\* while the collection exists, even if the item is burned and minted again.
ItemLocksFinal ==
    [][\A c \in CollectionId, i \in ItemId :
          Collection'[c] # None /\ ItemConfigOf[c][i] # None =>
          LET disabled == ItemConfigOf[c][i] IN
          /\ "UnlockedMetadata" \in disabled =>
                /\ ItemConfigOf'[c][i] # None /\ "UnlockedMetadata" \in ItemConfigOf'[c][i]
                /\ ItemMetadataOf'[c][i] = ItemMetadataOf[c][i]
          /\ "UnlockedAttributes" \in disabled =>
                /\ ItemConfigOf'[c][i] # None /\ "UnlockedAttributes" \in ItemConfigOf'[c][i]
                /\ \A key \in Key : Attribute'[c][<<i, CollectionOwner, key>>]
                                        = Attribute[c][<<i, CollectionOwner, key>>]]_vars

\* Where items of a HolderOf collection are minted by claims only, it never has more
\* items than there are items used to claim from it: the mark of a claim survives the
\* transfer, and the burning and minting again, of the item it was made with.
ClaimsBacked ==
    \A c, hc \in CollectionId :
        /\ Collection[c] # None
        /\ CollectionConfigOf[c].mint_settings.mint_type = HolderOf(hc)
        => Cardinality({i \in ItemId : Item[c][i] # None})
              <= Cardinality({i \in ItemId : has_system_attribute(hc, i, UsedToClaim(c))})
-----------------------------------------------------------------------------
(* What comments in the code say of it, and the code does not do.               *)

\* Cancelling an approval removes the attributes the delegate created, "and any
\* unreserved deposit is returned" (attributes.rs): to the account on record as having
\* paid it.  do_cancel_item_attributes_approval unreserves from the delegate instead.
RemovedAttributesRefunded ==
    [][\A c \in Collections, k \in AttributeKey :
          /\ Attribute[c][k] # None /\ Attribute[c][k].account \in AccountId
          /\ Attribute'[c][k] = None
          => bal'.reserved[Attribute[c][k].account]
                <= bal.reserved[Attribute[c][k].account] - Attribute[c][k].amount]_vars

\* "Origin must be an owner of the `item` if the deadline hasn't expired" (lib.rs, of
\* cancel_swap): where nobody claims swaps, an offer that claim_swap would still accept,
\* of an item that stays where it is, ends only if the item's owner cancels swaps.
SwapsCancelledByOwner ==
    [][\A c \in CollectionId, i \in ItemId :
          /\ PendingSwapOf[c][i] # None /\ PendingSwapOf'[c][i] = None
          /\ Item'[c][i] = Item[c][i]
          => now > PendingSwapOf[c][i].deadline \/ Item[c][i].owner \in Callers["cancel_swap"]]_vars
=============================================================================
