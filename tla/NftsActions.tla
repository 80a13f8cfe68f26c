---------------------------- MODULE NftsActions ----------------------------
(***************************************************************************)
(* What a step of pallet-nfts may do: how an item changes hands, what a    *)
(* fractionalized item is kept from, what locks keep unchanged, and that a *)
(* collection never outgrows its maximal supply.                           *)
(*                                                                         *)
(* Some of these hold only where certain origins do not make certain       *)
(* calls; a theorem about such a property has that as its hypothesis, as a *)
(* condition on Callers that the instances of the runs satisfy.            *)
(***************************************************************************)
EXTENDS NftsStructure

-----------------------------------------------------------------------------
(* How items change hands *)

\* No item changes hands in the step.
OwnersKept == \A c \in CollectionId, i \in ItemId : ~ OwnerChanges(c, i)

\* The item changes hands in one of the four calls that may move it.
Moved(c, i) ==
    \/ \E o \in Callers["transfer"], dest \in AccountId : transfer_item(o, c, i, dest)
    \/ Callers["unify"] # {} /\ \E dest \in AccountId : enable_transfer_and_transfer(c, i, dest)
    \/ \E o \in AccountId, bid \in Nat : do_buy_item(o, c, i, bid)
    \/ \E o \in Callers["claim_swap"] \cap AccountId, sc, rc \in CollectionId, si, ri \in ItemId,
          p \in Option(PriceWithDirection) :
          /\ do_claim_swap(o, sc, si, rc, ri, p)
          /\ (c = sc /\ i = si) \/ (c = rc /\ i = ri)

\* Writing an entry that does not exist yet, is removed, or keeps its owner.
LEMMA EntryKeepsOwners ==
    ASSUME TypeOK, NEW c \in CollectionId, NEW i \in ItemId, NEW v,
           Item' = [Item EXCEPT ![c][i] = v],
           Item[c][i] = None \/ v = None \/ v.owner = Item[c][i].owner
    PROVE  OwnersKept
BY DEF OwnersKept, OwnerChanges, TypeOK, StorageTypeOK

\* A move of one item leaves the owners of the others.
LEMMA MoveToOwners ==
    ASSUME TypeOK, NEW c \in CollectionId, NEW i \in ItemId, NEW dest, MoveTo(c, i, dest),
           NEW oc \in CollectionId, NEW oi \in ItemId, OwnerChanges(oc, oi)
    PROVE  oc = c /\ oi = i
BY DEF MoveTo, MovedItem, OwnerChanges, TypeOK, StorageTypeOK

\* do_claim_swap moves no item but the two that it swaps.
LEMMA ClaimOwners ==
    ASSUME TypeOK, NEW caller, NEW sc \in CollectionId, NEW si \in ItemId,
           NEW rc \in CollectionId, NEW ri \in ItemId, NEW p,
           do_claim_swap(caller, sc, si, rc, ri, p),
           NEW c \in CollectionId, NEW i \in ItemId, OwnerChanges(c, i)
    PROVE  (c = sc /\ i = si) \/ (c = rc /\ i = ri)
<1> DEFINE sent == MovedItem(Item, sc, si, Item[rc][ri].owner)
<1>1. Item' = MovedItem(sent, rc, ri, caller)
  BY DEF do_claim_swap
<1>2. (c = sc /\ i = si) \/ sent[c][i] = Item[c][i]
  BY DEF MovedItem, TypeOK, StorageTypeOK
<1>3. sent \in [CollectionId -> [ItemId -> Option(ItemDetails)]]
  <2>1. /\ Item[sc][si] # None /\ Item[rc][ri].owner \in AccountId
        /\ Item \in [CollectionId -> [ItemId -> Option(ItemDetails)]]
    BY DEF do_claim_swap, TypeOK, StorageTypeOK, Option, ItemDetails
  <2> QED
    BY <2>1, MovedType
<1> HIDE DEF sent
<1>4. (c = rc /\ i = ri) \/ Item'[c][i] = sent[c][i]
  BY <1>1, <1>3 DEF MovedItem
<1> QED
  BY <1>2, <1>4 DEF OwnerChanges

\* The handlers of collections change no item.
LEMMA CollectionStepItems == CollectionStep => Item' = Item
BY DEF CollectionStep, do_create_collection, do_destroy_collection, do_set_team,
   do_force_collection_config, do_set_collection_max_supply, do_update_mint_settings,
   do_lock_collection, ConfigFrame, do_force_collection_owner, do_transfer_ownership,
   MoveCollection, do_set_accept_ownership, itemVars

\* Those of attributes and metadata move none.
LEMMA DataStepOwners ==
    ASSUME TypeOK, DataStep
    PROVE  OwnersKept
<1>1. ASSUME Item' = Item
      PROVE  OwnersKept
  BY <1>1 DEF OwnersKept, OwnerChanges
<1>2. ASSUME NEW origin, NEW c, NEW k, NEW n, NEW depositor,
             do_set_attribute(origin, c, k, n, depositor)
      PROVE  OwnersKept
  BY <1>1, <1>2 DEF do_set_attribute, AttributeFrame, itemVars
<1>3. ASSUME NEW set_as, NEW c, NEW k, NEW n, do_force_set_attribute(set_as, c, k, n)
      PROVE  OwnersKept
  BY <1>1, <1>3 DEF do_force_set_attribute, AttributeFrame, itemVars
<1>4. ASSUME NEW origin, NEW c, NEW k, do_clear_attribute(origin, c, k)
      PROVE  OwnersKept
  BY <1>1, <1>4 DEF do_clear_attribute, AttributeFrame, itemVars
<1>5. ASSUME NEW origin, NEW c, NEW i, NEW a,
             \/ do_approve_item_attributes(origin, c, i, a)
             \/ do_cancel_item_attributes_approval(origin, c, i, a)
      PROVE  OwnersKept
  BY <1>1, <1>5 DEF do_approve_item_attributes, do_cancel_item_attributes_approval,
     AttributeFrame, itemVars
<1>6. ASSUME NEW origin, NEW c, NEW i, NEW n,
             do_set_item_metadata(origin, c, i, n) \/ do_clear_item_metadata(origin, c, i)
      PROVE  OwnersKept
  BY <1>1, <1>6 DEF do_set_item_metadata, do_clear_item_metadata
<1>7. ASSUME NEW origin, NEW c, NEW n,
             do_set_collection_metadata(origin, c, n) \/ do_clear_collection_metadata(origin, c)
      PROVE  OwnersKept
  BY <1>1, <1>7 DEF do_set_collection_metadata, do_clear_collection_metadata,
     CollectionMetadataFrame, itemVars
<1>8. ASSUME NEW mint_to, NEW c \in CollectionId, NEW i \in ItemId, NEW data, NEW signer,
             do_mint_pre_signed(mint_to, c, i, data, signer)
      PROVE  OwnersKept
  BY <1>8, EntryKeepsOwners DEF do_mint_pre_signed, CanMint, InsertItem
<1>9. ASSUME NEW origin, NEW c, NEW k, NEW n, NEW d, NEW signer,
             do_set_attributes_pre_signed(origin, c, k, n, d, signer)
      PROVE  OwnersKept
  BY <1>1, <1>9 DEF do_set_attributes_pre_signed, AttributeFrame, itemVars
<1> QED
  BY <1>2, <1>3, <1>4, <1>5, <1>6, <1>7, <1>8, <1>9 DEF DataStep

\* An item changes hands by transfer, unify, buy_item or claim_swap only.
LEMMA MovedInStep ==
    ASSUME TypeOK, Next, NEW c \in CollectionId, NEW i \in ItemId, OwnerChanges(c, i)
    PROVE  Moved(c, i)
<1>1. Item' # Item /\ ~ OwnersKept
  BY DEF OwnersKept, OwnerChanges
<1>2. ~ CollectionNext /\ ~ NextBlock
  BY <1>1, CollectionNextStep, CollectionStepItems DEF NextBlock, itemVars
<1>3. ~ DataNext
  BY <1>1, DataNextStep, DataStepOwners
<1>4. CASE ItemNext
  <2>1. ASSUME NEW o, NEW oc \in CollectionId, NEW oi \in ItemId, NEW a, NEW owned, NEW p, NEW g,
               mint(o, oc, oi, a, owned, p) \/ force_mint(o, oc, oi, a, g)
        PROVE  FALSE
    BY <1>1, <2>1, EntryKeepsOwners
    DEF mint, mint_as, force_mint, do_force_mint, do_mint, CanMint, InsertItem
  <2>2. ASSUME NEW o, NEW oc \in CollectionId, NEW oi \in ItemId, burn(o, oc, oi)
        PROVE  FALSE
    BY <1>1, <2>2, EntryKeepsOwners DEF burn, do_burn
  <2>3. ASSUME NEW o, NEW oc \in CollectionId, NEW oi \in ItemId, redeposit(o, oc, oi)
        PROVE  FALSE
    <3> DEFINE d == [Item[oc][oi] EXCEPT !.deposit_amount = ItemDepositOf(oc)]
    <3>1. Item[oc][oi] \in ItemDetails
      BY <2>3 DEF redeposit, redeposit_item, TypeOK, StorageTypeOK, Option
    <3>2. d.owner = Item[oc][oi].owner
      BY <3>1 DEF ItemDetails
    <3>3. Item' = [Item EXCEPT ![oc][oi] = d]
      BY <2>3 DEF redeposit, redeposit_item
    <3> HIDE DEF d
    <3> QED
      BY <1>1, <3>2, <3>3, EntryKeepsOwners
  <2>4. ASSUME NEW o, NEW oc, NEW oi, NEW s,
               \/ lock_item_transfer(o, oc, oi) \/ unlock_item_transfer(o, oc, oi)
               \/ lock_item_properties(o, oc, oi, s)
        PROVE  FALSE
    BY <1>1, <2>4 DEF lock_item_transfer, unlock_item_transfer, lock_item_properties,
       do_lock_item_transfer, do_unlock_item_transfer, do_lock_item_properties, ItemConfigFrame
  <2>5. ASSUME NEW o, NEW oc, NEW oi, fractionalize(o, oc, oi)
        PROVE  FALSE
    BY <1>1, <2>5 DEF fractionalize, disable_transfer, do_force_set_attribute, AttributeFrame,
       itemVars
  <2>6. ASSUME NEW o \in Callers["transfer"], NEW oc \in CollectionId, NEW oi \in ItemId,
               NEW a \in AccountId, transfer(o, oc, oi, a)
        PROVE  Moved(c, i)
    <3>1. transfer_item(o, oc, oi, a)
      BY <2>6 DEF transfer
    <3>2. c = oc /\ i = oi
      BY <3>1, MoveToOwners DEF transfer_item, do_transfer
    <3> QED
      BY <3>1, <3>2 DEF Moved
  <2>7. ASSUME NEW o \in Callers["unify"], NEW oc \in CollectionId, NEW oi \in ItemId,
               NEW a \in AccountId, unify(o, oc, oi, a)
        PROVE  Moved(c, i)
    <3>1. enable_transfer_and_transfer(oc, oi, a)
      BY <2>7 DEF unify
    <3>2. c = oc /\ i = oi
      BY <3>1, MoveToOwners DEF enable_transfer_and_transfer
    <3> QED
      BY <2>7, <3>1, <3>2 DEF Moved
  <2> QED
    BY <1>4, <2>1, <2>2, <2>3, <2>4, <2>5, <2>6, <2>7 DEF ItemNext
<1>5. CASE TradingNext
  <2>1. ASSUME NEW oc \in CollectionId, NEW oi \in ItemId, Item[oc][oi] # None, NEW approvals,
               Item' = [Item EXCEPT ![oc][oi].approvals = approvals]
        PROVE  FALSE
    <3> DEFINE d == [Item[oc][oi] EXCEPT !.approvals = approvals]
    <3>1. Item[oc][oi] \in ItemDetails
      BY <2>1 DEF TypeOK, StorageTypeOK, Option
    <3>2. d.owner = Item[oc][oi].owner
      BY <3>1 DEF ItemDetails
    <3>3. Item' = [Item EXCEPT ![oc][oi] = d]
      BY <2>1
    <3> HIDE DEF d
    <3> QED
      BY <1>1, <3>2, <3>3, EntryKeepsOwners
  <2>2. ASSUME NEW o, NEW oc \in CollectionId, NEW oi \in ItemId, NEW a, NEW d,
               approve_transfer(o, oc, oi, a, d)
        PROVE  FALSE
    BY <2>1, <2>2 DEF approve_transfer, do_approve_transfer
  <2>3. ASSUME NEW o, NEW oc \in CollectionId, NEW oi \in ItemId, NEW a,
               cancel_approval(o, oc, oi, a)
        PROVE  FALSE
    BY <2>1, <2>3 DEF cancel_approval, do_cancel_approval
  <2>4. ASSUME NEW o, NEW oc \in CollectionId, NEW oi \in ItemId,
               clear_all_transfer_approvals(o, oc, oi)
        PROVE  FALSE
    BY <2>1, <2>4 DEF clear_all_transfer_approvals, do_clear_all_transfer_approvals
  <2>5. ASSUME NEW o, NEW oc, NEW oi, NEW p, NEW a, set_price(o, oc, oi, p, a)
        PROVE  FALSE
    BY <1>1, <2>5 DEF set_price, do_set_price, itemVars
  <2>6. ASSUME NEW o, NEW a, NEW p, pay_tips(o, a, p)
        PROVE  FALSE
    BY <1>1, <2>6 DEF pay_tips, do_pay_tip, itemVars
  <2>7. ASSUME NEW o, NEW oc, NEW oi, NEW dc, NEW di, NEW p, NEW d,
               create_swap(o, oc, oi, dc, di, p, d) \/ cancel_swap(o, oc, oi)
        PROVE  FALSE
    BY <1>1, <2>7 DEF create_swap, cancel_swap, do_create_swap, do_cancel_swap, SwapFrame, itemVars
  <2>8. ASSUME NEW o, NEW oc \in CollectionId, NEW oi \in ItemId, NEW p \in Prices,
               buy_item(o, oc, oi, p)
        PROVE  Moved(c, i)
    <3>1. do_buy_item(o, oc, oi, p) /\ o \in AccountId
      BY <2>8 DEF buy_item, Signed
    <3>2. c = oc /\ i = oi
      BY <3>1, MoveToOwners DEF do_buy_item, do_transfer
    <3> QED
      BY <3>1, <3>2, ArgumentTypes DEF Moved
  <2>9. ASSUME NEW o \in Callers["claim_swap"], NEW sc \in CollectionId, NEW si \in ItemId,
               NEW rc \in CollectionId, NEW ri \in ItemId, NEW p \in Option(Swaps),
               claim_swap(o, sc, si, rc, ri, p)
        PROVE  Moved(c, i)
    <3>1. do_claim_swap(o, sc, si, rc, ri, p) /\ o \in AccountId
      BY <2>9 DEF claim_swap, Signed
    <3>2. (c = sc /\ i = si) \/ (c = rc /\ i = ri)
      BY <3>1, ClaimOwners
    <3> QED
      BY <3>1, <3>2, ArgumentTypes DEF Moved
  <2> QED
    BY <1>5, <2>2, <2>3, <2>4, <2>5, <2>6, <2>7, <2>8, <2>9 DEF TradingNext
<1> QED
  BY <1>2, <1>3, <1>4, <1>5 DEF Next

\* What do_transfer leaves of the item: its new owner, and no offer of the former one.
LEMMA MoveToItem ==
    ASSUME TypeOK, NEW c \in CollectionId, NEW i \in ItemId, NEW dest, Item[c][i] # None,
           MoveTo(c, i, dest)
    PROVE  /\ Item'[c][i].owner = dest /\ Item'[c][i].approvals = NoApprovals
           /\ ItemPriceOf'[c][i] = None /\ PendingSwapOf'[c][i] = None
<1>1. Item[c][i] \in ItemDetails
  BY DEF TypeOK, StorageTypeOK, Option
<1>2. Item'[c][i] = [Item[c][i] EXCEPT !.owner = dest, !.approvals = NoApprovals]
  BY DEF MoveTo, MovedItem, TypeOK, StorageTypeOK
<1>3. Item'[c][i].owner = dest /\ Item'[c][i].approvals = NoApprovals
  BY <1>1, <1>2 DEF ItemDetails
<1> QED
  BY <1>3 DEF MoveTo, TypeOK, StorageTypeOK

\* What do_claim_swap leaves of the two items, which are different, or the same one
\* that the caller already owns.
LEMMA ClaimItems ==
    ASSUME TypeOK, NEW caller \in AccountId, NEW sc \in CollectionId, NEW si \in ItemId,
           NEW rc \in CollectionId, NEW ri \in ItemId, NEW p,
           do_claim_swap(caller, sc, si, rc, ri, p)
    PROVE  /\ Item'[rc][ri] # None /\ Item'[rc][ri].owner = caller
           /\ Item'[rc][ri].approvals = NoApprovals
           /\ Item'[sc][si] # None /\ Item'[sc][si].owner = Item[rc][ri].owner
           /\ Item'[sc][si].approvals = NoApprovals
           /\ ItemPriceOf'[sc][si] = None /\ ItemPriceOf'[rc][ri] = None
           /\ PendingSwapOf'[sc][si] = None /\ PendingSwapOf'[rc][ri] = None
<1> DEFINE receiver == Item[rc][ri].owner
           sent == MovedItem(Item, sc, si, receiver)
<1>1. /\ Item[sc][si] # None /\ Item[rc][ri] # None /\ Item[sc][si].owner = caller
      /\ Item' = MovedItem(sent, rc, ri, caller)
      /\ ItemPriceOf' = [ItemPriceOf EXCEPT ![sc][si] = None, ![rc][ri] = None]
      /\ PendingSwapOf' = [PendingSwapOf EXCEPT ![sc][si] = None, ![rc][ri] = None]
  BY DEF do_claim_swap
<1>2. /\ Item \in [CollectionId -> [ItemId -> Option(ItemDetails)]]
      /\ Item[sc][si] \in ItemDetails /\ Item[rc][ri] \in ItemDetails /\ receiver \in AccountId
  BY <1>1 DEF TypeOK, StorageTypeOK, Option, ItemDetails
<1>3. /\ sent \in [CollectionId -> [ItemId -> Option(ItemDetails)]]
      /\ sent[rc][ri] # None
  BY <1>1, <1>2, MovedType, MovedItemExists
<1>4. sent[sc][si] = [Item[sc][si] EXCEPT !.owner = receiver, !.approvals = NoApprovals]
  BY <1>2 DEF MovedItem
<1> HIDE DEF sent
<1>5. /\ sent[sc][si] # None /\ sent[sc][si].owner = receiver
      /\ sent[sc][si].approvals = NoApprovals
  <2>1. sent[sc][si].owner = receiver /\ sent[sc][si].approvals = NoApprovals
    BY <1>2, <1>4 DEF ItemDetails
  <2>2. sent[sc][si] # None
    BY <1>1, <1>2, MovedItemExists DEF sent
  <2> QED
    BY <2>1, <2>2
<1>6. sent[rc][ri] \in ItemDetails
  BY <1>3 DEF Option
<1>7. Item'[rc][ri] = [sent[rc][ri] EXCEPT !.owner = caller, !.approvals = NoApprovals]
  BY <1>1, <1>3 DEF MovedItem
<1>8. /\ Item'[rc][ri] # None /\ Item'[rc][ri].owner = caller
      /\ Item'[rc][ri].approvals = NoApprovals
  <2>1. Item'[rc][ri].owner = caller /\ Item'[rc][ri].approvals = NoApprovals
    BY <1>6, <1>7 DEF ItemDetails
  <2>2. Item'[rc][ri] # None
    BY <1>1, <1>3, MovedItemExists
  <2> QED
    BY <2>1, <2>2
<1>9. CASE sc = rc /\ si = ri
  <2>1. receiver = caller
    BY <1>1, <1>9
  <2> QED
    BY <1>1, <1>8, <1>9, <2>1 DEF TypeOK, StorageTypeOK
<1>10. CASE ~ (sc = rc /\ si = ri)
  <2>1. Item'[sc][si] = sent[sc][si]
    BY <1>1, <1>3, <1>10 DEF MovedItem
  <2> QED
    BY <1>1, <1>5, <1>8, <2>1 DEF TypeOK, StorageTypeOK
<1> QED
  BY <1>9, <1>10

\* A step moves no item with an offer of its former owner.
LEMMA OffersEndStep ==
    ASSUME TypeOK, Next, NEW c \in CollectionId, NEW i \in ItemId, OwnerChanges(c, i)
    PROVE  /\ ItemPriceOf'[c][i] = None /\ PendingSwapOf'[c][i] = None
           /\ Item'[c][i].approvals = NoApprovals
<1>1. Item[c][i] # None
  BY DEF OwnerChanges
<1>2. ASSUME NEW dest, MoveTo(c, i, dest)
      PROVE  /\ ItemPriceOf'[c][i] = None /\ PendingSwapOf'[c][i] = None
             /\ Item'[c][i].approvals = NoApprovals
  BY <1>1, <1>2, MoveToItem
<1>3. CASE \E o, dest : transfer_item(o, c, i, dest)
  BY <1>2, <1>3 DEF transfer_item, do_transfer
<1>4. CASE \E dest : enable_transfer_and_transfer(c, i, dest)
  BY <1>2, <1>4 DEF enable_transfer_and_transfer
<1>5. CASE \E o, bid : do_buy_item(o, c, i, bid)
  BY <1>2, <1>5 DEF do_buy_item, do_transfer
<1>6. ASSUME NEW o \in AccountId, NEW sc \in CollectionId, NEW rc \in CollectionId,
             NEW si \in ItemId, NEW ri \in ItemId, NEW p, do_claim_swap(o, sc, si, rc, ri, p),
             (c = sc /\ i = si) \/ (c = rc /\ i = ri)
      PROVE  /\ ItemPriceOf'[c][i] = None /\ PendingSwapOf'[c][i] = None
             /\ Item'[c][i].approvals = NoApprovals
  BY <1>6, ClaimItems
<1> QED
  BY <1>3, <1>4, <1>5, <1>6, MovedInStep DEF Moved

\* An item that changes hands, by transfer, sale, swap or unify, leaves every price,
\* swap and transfer approval of its former owner behind.
THEOREM OffersEnd == Spec => OffersEndWithOwnership
<1>1. ASSUME TypeOK, [Next]_vars
      PROVE  [\A c \in CollectionId, i \in ItemId : OwnerChanges(c, i) =>
                /\ ItemPriceOf'[c][i] = None
                /\ PendingSwapOf'[c][i] = None
                /\ Item'[c][i].approvals = NoApprovals]_vars
  BY <1>1, OffersEndStep
<1> QED
  BY <1>1, TypeCorrect, PTL DEF Spec, OffersEndWithOwnership

\* Currency::transfer between two accounts.
LEMMA TransferPays ==
    ASSUME NEW from \in AccountId, NEW to \in AccountId, from # to, NEW amount \in Nat,
           bal \in BalanceSheet(AccountId), bal' = Transfer(bal, from, to, amount)
    PROVE  Pays(from, to, amount)
BY DEF Pays, Transfer, BalanceSheet

\* buy_item moves the item to a buyer its price admits, who pays exactly that price.
LEMMA BoughtIsSold ==
    ASSUME TypeOK, NEW c \in CollectionId, NEW i \in ItemId, NEW buyer \in AccountId, NEW bid,
           do_buy_item(buyer, c, i, bid)
    PROVE  SoldAtPrice(c, i)
<1>1. /\ Item[c][i] # None /\ ItemPriceOf[c][i] # None /\ Item[c][i].owner # buyer
      /\ ItemPriceOf[c][i].buyer \in {None, buyer} /\ MoveTo(c, i, buyer)
      /\ bal' = Transfer(bal, buyer, Item[c][i].owner, ItemPriceOf[c][i].price)
  BY DEF do_buy_item, do_transfer
<1>2. Item[c][i].owner \in AccountId /\ ItemPriceOf[c][i].price \in Nat
  BY <1>1 DEF TypeOK, StorageTypeOK, Option, ItemDetails, ItemPriceInfo
<1>3. bal \in BalanceSheet(AccountId)
  BY DEF TypeOK, StorageTypeOK
<1>4. Pays(buyer, Item[c][i].owner, ItemPriceOf[c][i].price)
  BY <1>1, <1>2, <1>3, TransferPays
<1>5. Item'[c][i].owner = buyer
  BY <1>1, MoveToItem
<1> QED
  BY <1>1, <1>4, <1>5 DEF SoldAtPrice

\* claim_swap between two accounts exchanges the two items and pays the price of the
\* offer in its direction, before its deadline.
LEMMA ClaimedIsSwapped ==
    ASSUME TypeOK, NEW caller \in AccountId, NEW sc \in CollectionId, NEW si \in ItemId,
           NEW rc \in CollectionId, NEW ri \in ItemId, NEW p,
           do_claim_swap(caller, sc, si, rc, ri, p), Item[rc][ri].owner # caller
    PROVE  SwappedFor(rc, ri, sc, si)
<1> DEFINE swap     == PendingSwapOf[rc][ri]
           receiver == Item[rc][ri].owner
           payer    == IF swap.price.direction = "Send" THEN receiver ELSE caller
           payee    == IF swap.price.direction = "Send" THEN caller ELSE receiver
<1>1. /\ Item[sc][si] # None /\ Item[rc][ri] # None /\ swap # None
      /\ Item[sc][si].owner = caller /\ SwapClaimable(swap, sc, si, p)
      /\ bal' = IF swap.price = None THEN bal
                ELSE Transfer(bal, payer, payee, swap.price.amount)
  BY DEF do_claim_swap
<1>2. swap.price # None => /\ swap.price.amount \in Nat
                           /\ swap.price.direction \in {"Send", "Receive"}
  BY <1>1 DEF TypeOK, StorageTypeOK, Option, PendingSwap, PriceWithDirection
<1>3. receiver \in AccountId /\ bal \in BalanceSheet(AccountId)
  BY <1>1 DEF TypeOK, StorageTypeOK, Option, ItemDetails
<1>4. /\ Item'[rc][ri].owner = caller /\ Item'[sc][si] # None
      /\ Item'[sc][si].owner = receiver
  BY ClaimItems
<1> HIDE DEF swap, receiver
<1>5. swap.price # None /\ swap.price.direction = "Send" =>
         Pays(receiver, caller, swap.price.amount)
  BY <1>1, <1>2, <1>3, TransferPays DEF receiver
<1>6. swap.price # None /\ swap.price.direction # "Send" =>
         Pays(caller, receiver, swap.price.amount)
  BY <1>1, <1>2, <1>3, TransferPays DEF receiver
<1>7. CASE swap.price = None
  BY <1>1, <1>4, <1>7 DEF SwappedFor, SwapClaimable, swap, receiver
<1>8. CASE swap.price # None /\ swap.price.direction = "Send"
  BY <1>1, <1>4, <1>5, <1>8 DEF SwappedFor, SwapClaimable, swap, receiver
<1>9. CASE swap.price # None /\ swap.price.direction # "Send"
  BY <1>1, <1>4, <1>6, <1>9 DEF SwappedFor, SwapClaimable, swap, receiver
<1> QED
  BY <1>7, <1>8, <1>9

\* A swap that changes an owner is between two accounts.
LEMMA ClaimChangesOwner ==
    ASSUME TypeOK, NEW caller \in AccountId, NEW sc \in CollectionId, NEW si \in ItemId,
           NEW rc \in CollectionId, NEW ri \in ItemId, NEW p,
           do_claim_swap(caller, sc, si, rc, ri, p), NEW c, NEW i, OwnerChanges(c, i),
           (c = sc /\ i = si) \/ (c = rc /\ i = ri)
    PROVE  Item[rc][ri].owner # caller
<1>1. Item[sc][si].owner = caller
  BY DEF do_claim_swap
<1>2. Item'[rc][ri].owner = caller /\ Item'[sc][si].owner = Item[rc][ri].owner
  BY ClaimItems
<1> QED
  BY <1>1, <1>2 DEF OwnerChanges

\* Where nobody calls transfer and no fractions are united, an item changes owner only
\* in a completed trade: sold at its price to a buyer the price admits, or one side of a
\* swap whose other side and price go the other way in the same step.
THEOREM MovesSettled ==
    ASSUME Callers["transfer"] = {}, Callers["unify"] = {}
    PROVE  Spec => MovesAreSettled
<1>1. ASSUME TypeOK, Next, NEW c \in CollectionId, NEW i \in ItemId, OwnerChanges(c, i)
      PROVE  \/ SoldAtPrice(c, i)
             \/ \E oc \in CollectionId, oi \in ItemId :
                   SwappedFor(c, i, oc, oi) \/ SwappedFor(oc, oi, c, i)
  <2>1. ASSUME NEW o \in AccountId, NEW sc \in CollectionId, NEW rc \in CollectionId,
               NEW si \in ItemId, NEW ri \in ItemId, NEW p, do_claim_swap(o, sc, si, rc, ri, p),
               (c = sc /\ i = si) \/ (c = rc /\ i = ri)
        PROVE  \E oc \in CollectionId, oi \in ItemId :
                  SwappedFor(c, i, oc, oi) \/ SwappedFor(oc, oi, c, i)
    <3>1. Item[rc][ri].owner # o
      BY <1>1, <2>1, ClaimChangesOwner
    <3>2. SwappedFor(rc, ri, sc, si)
      BY <1>1, <2>1, <3>1, ClaimedIsSwapped
    <3> QED
      BY <2>1, <3>2
  <2>2. CASE \E o \in AccountId, bid \in Nat : do_buy_item(o, c, i, bid)
    BY <1>1, <2>2, BoughtIsSold
  <2>3. Moved(c, i)
    BY <1>1, MovedInStep
  <2> QED
    BY <2>1, <2>2, <2>3 DEF Moved
<1>2. ASSUME TypeOK, [Next]_vars
      PROVE  [\A c \in CollectionId, i \in ItemId : OwnerChanges(c, i) =>
                \/ SoldAtPrice(c, i)
                \/ \E oc \in CollectionId, oi \in ItemId :
                      SwappedFor(c, i, oc, oi) \/ SwappedFor(oc, oi, c, i)]_vars
  BY <1>1, <1>2
<1> QED
  BY <1>2, TypeCorrect, PTL DEF Spec, MovesAreSettled

\* Where nobody claims swaps, an item moves only if it is sold, if its fractions are
\* united, or if an account that calls transfer is its owner or has its current owner's
\* approval, in force in that block.
THEOREM DelegatesApproved ==
    ASSUME Callers["claim_swap"] = {}
    PROVE  Spec => DelegatesNeedApproval
<1>1. ASSUME TypeOK, Next, NEW c \in CollectionId, NEW i \in ItemId, OwnerChanges(c, i)
      PROVE  \/ SoldAtPrice(c, i)
             \/ has_system_attribute(c, i, TransferDisabled)
             \/ \E d \in Callers["transfer"] :
                 \/ d = Item[c][i].owner
                 \/ Item[c][i].approvals[d] = Forever
                 \/ Item[c][i].approvals[d] \in Nat /\ Item[c][i].approvals[d] >= now
  <2>1. CASE \E o \in Callers["transfer"], dest \in AccountId : transfer_item(o, c, i, dest)
    <3>1. PICK o \in Callers["transfer"] : MayTransfer(o, c, i)
      BY <2>1 DEF transfer_item
    <3>2. now \in Nat
      BY <1>1 DEF TypeOK, StorageTypeOK
    <3> QED
      BY <3>1, <3>2 DEF MayTransfer
  <2>2. CASE \E dest \in AccountId : enable_transfer_and_transfer(c, i, dest)
    BY <2>2 DEF enable_transfer_and_transfer
  <2>3. CASE \E o \in AccountId, bid \in Nat : do_buy_item(o, c, i, bid)
    BY <1>1, <2>3, BoughtIsSold
  <2>4. Moved(c, i)
    BY <1>1, MovedInStep
  <2> QED
    BY <2>1, <2>2, <2>3, <2>4 DEF Moved
<1>2. ASSUME TypeOK, [Next]_vars
      PROVE  [\A c \in CollectionId, i \in ItemId : OwnerChanges(c, i) =>
                \/ SoldAtPrice(c, i)
                \/ has_system_attribute(c, i, TransferDisabled)
                \/ \E d \in Callers["transfer"] :
                    \/ d = Item[c][i].owner
                    \/ Item[c][i].approvals[d] = Forever
                    \/ Item[c][i].approvals[d] \in Nat /\ Item[c][i].approvals[d] >= now]_vars
  BY <1>1, <1>2
<1> QED
  BY <1>2, TypeCorrect, PTL DEF Spec, DelegatesNeedApproval
-----------------------------------------------------------------------------
(* Which handler writes what *)

\* Approvals, sales, tips and swaps touch neither settings, metadata nor attributes.
LEMMA TradingFrame ==
    ASSUME TradingStep
    PROVE  UNCHANGED <<Collection, CollectionConfigOf, CollectionMetadataOf, ItemConfigOf,
                       ItemMetadataOf, Attribute>>
<1> DEFINE Rest == UNCHANGED <<Collection, CollectionConfigOf, CollectionMetadataOf, ItemConfigOf,
                               ItemMetadataOf, Attribute>>
<1>1. ASSUME NEW origin, NEW c, NEW i, NEW a, NEW d, do_approve_transfer(origin, c, i, a, d)
      PROVE  Rest
  BY <1>1 DEF do_approve_transfer, ApprovalFrame, collectionVars, attributeVars
<1>2. ASSUME NEW origin, NEW c, NEW i, NEW a,
             \/ do_cancel_approval(origin, c, i, a)
             \/ do_clear_all_transfer_approvals(origin, c, i)
      PROVE  Rest
  BY <1>2 DEF do_cancel_approval, do_clear_all_transfer_approvals, ApprovalFrame, collectionVars,
     attributeVars
<1>3. ASSUME NEW sender, NEW c, NEW i, NEW price, NEW buyer,
             do_set_price(sender, c, i, price, buyer)
      PROVE  Rest
  BY <1>3 DEF do_set_price, collectionVars, itemVars, attributeVars
<1>4. ASSUME NEW buyer, NEW c, NEW i, NEW bid, do_buy_item(buyer, c, i, bid)
      PROVE  Rest
  BY <1>4 DEF do_buy_item, do_transfer, collectionVars, attributeVars
<1>5. ASSUME NEW sender, NEW receiver, NEW amount, do_pay_tip(sender, receiver, amount)
      PROVE  Rest
  BY <1>5 DEF do_pay_tip, collectionVars, itemVars, attributeVars
<1>6. ASSUME NEW caller, NEW c, NEW i, NEW dc, NEW di, NEW p, NEW d,
             \/ do_create_swap(caller, c, i, dc, di, p, d)
             \/ do_cancel_swap(caller, c, i)
      PROVE  Rest
  BY <1>6 DEF do_create_swap, do_cancel_swap, SwapFrame, collectionVars, itemVars, attributeVars
<1>7. ASSUME NEW caller, NEW sc, NEW si, NEW rc, NEW ri, NEW p,
             do_claim_swap(caller, sc, si, rc, ri, p)
      PROVE  Rest
  BY <1>7 DEF do_claim_swap, collectionVars, attributeVars
<1> QED
  BY <1>1, <1>2, <1>3, <1>4, <1>5, <1>6, <1>7 DEF TradingStep

\* The calls that write attribute k of collection c, or the removal of the collection.
AttributeWritten(c, k) ==
    \/ Callers["destroy"] # {} /\ Collection'[c] = None /\ Attribute'[c][k] = None
    \/ k \in ClientKey /\ \E o, a, n : do_set_attribute(o, c, k, n, a)
    \/ Callers["force_set_attribute"] # {} /\ k \in ForceKeys
    \/ \E o \in Callers["clear_attribute"] : do_clear_attribute(o, c, k)
    \/ Attribute'[c][k] = None /\ \E a \in AccountId : k[2] = AccountNs(a)
    \/ \E i \in ItemId : \E o, data, signer :
          /\ do_mint_pre_signed(o, c, i, data, signer)
          /\ k = <<i, CollectionOwner, data.attributes.key>>
          /\ AttributeUnlocked(c, k, CollectionConfigOf[c].mint_settings.default_item_settings)
    \/ k \in ClientKey /\ \E o, n, d, signer : do_set_attributes_pre_signed(o, c, k, n, d, signer)
    \/ \E i \in ItemId : \E o : fractionalize(o, c, i) /\ k = <<i, Pallet, TransferDisabled>>
    \/ \E i \in ItemId : k = <<i, Pallet, TransferDisabled>> /\ Attribute'[c][k] = None
    \/ \E oc \in CollectionId : \E o, i, a, owned, p :
          /\ mint_as(o, oc, i, a, owned, p)
          /\ CollectionConfigOf[oc].mint_settings.mint_type = HolderOf(c)
          /\ k = <<owned, Pallet, UsedToClaim(oc)>>
          /\ Attribute'[c][k] # None

\* No other call writes an attribute.
LEMMA AttributeWrites ==
    ASSUME TypeOK, Next, NEW c \in CollectionId, NEW k \in AttributeKey,
           Attribute'[c][k] # Attribute[c][k]
    PROVE  AttributeWritten(c, k)
<1>1. Attribute' # Attribute /\ Attribute \in [CollectionId -> [AttributeKey -> Option(Deposited)]]
  BY DEF TypeOK, StorageTypeOK
<1>2. ASSUME NEW oc \in CollectionId, NEW ok, NEW v, Attribute' = [Attribute EXCEPT ![oc][ok] = v]
      PROVE  c = oc /\ k = ok /\ Attribute'[c][k] = v
  BY <1>1, <1>2
<1>3. CASE CollectionNext
  <2>0. Callers["destroy"] # {}
    <3> SUFFICES ASSUME Callers["destroy"] = {} PROVE FALSE
      OBVIOUS
    <3> QED
      BY <1>1, <1>3 DEF CollectionNext, create, force_create, lock_collection, transfer_ownership,
         set_team, force_collection_owner, force_collection_config, set_accept_ownership,
         set_collection_max_supply, update_mint_settings, do_create_collection, do_set_team,
         do_force_collection_config, do_set_collection_max_supply, do_update_mint_settings,
         do_lock_collection, ConfigFrame, do_force_collection_owner, do_transfer_ownership,
         MoveCollection, do_set_accept_ownership, attributeVars
  <2>1. CASE \E o : \E oc \in CollectionId : do_destroy_collection(o, oc)
    <3>1. PICK oc \in CollectionId :
             /\ Attribute' = [Attribute EXCEPT ![oc] = [x \in AttributeKey |-> None]]
             /\ Collection' = [Collection EXCEPT ![oc] = None]
      BY <2>1 DEF do_destroy_collection
    <3>2. c = oc /\ Attribute'[c][k] = None
      BY <1>1, <3>1
    <3>3. Collection'[c] = None
      BY <3>1, <3>2 DEF TypeOK, StorageTypeOK
    <3> QED
      BY <2>0, <3>2, <3>3 DEF AttributeWritten
  <2>2. CASE ~ \E o : \E oc \in CollectionId : do_destroy_collection(o, oc)
    BY <1>1, <1>3, <2>2, CollectionNextStep DEF CollectionStep, do_create_collection, do_set_team,
       do_force_collection_config, do_set_collection_max_supply, do_update_mint_settings,
       do_lock_collection, ConfigFrame, do_force_collection_owner, do_transfer_ownership,
       MoveCollection, do_set_accept_ownership, attributeVars
  <2> QED
    BY <2>1, <2>2
<1>4. CASE ItemNext
  <2>1. ASSUME NEW o, NEW oc \in CollectionId, NEW i, NEW a, NEW owned, NEW p,
               mint(o, oc, i, a, owned, p)
        PROVE  AttributeWritten(c, k)
    <3> DEFINE new == [data |-> 0, account |-> None, amount |-> 0]
               settings == CollectionConfigOf[oc].mint_settings
    <3>1. /\ mint_as(o, oc, i, a, owned, p)
          /\ Attribute' = [hc \in CollectionId |->
                IF settings.mint_type = HolderOf(hc)
                THEN [Attribute[hc] EXCEPT ![<<owned, Pallet, UsedToClaim(oc)>>] = new]
                ELSE Attribute[hc]]
      BY <2>1 DEF mint, mint_as, MarkUsedToClaim
    <3>2. new # None
      BY OptionAssumption DEF Deposited, Option
    <3> HIDE DEF new
    <3>3. /\ settings.mint_type = HolderOf(c) /\ k = <<owned, Pallet, UsedToClaim(oc)>>
          /\ Attribute'[c][k] = new
      BY <1>1, <3>1
    <3> QED
      BY <3>1, <3>2, <3>3 DEF AttributeWritten
  <2>2. ASSUME NEW o, NEW oc, NEW i, NEW a, NEW g, force_mint(o, oc, i, a, g)
        PROVE  FALSE
    BY <1>1, <2>2 DEF force_mint, do_force_mint
  <2>3. ASSUME NEW o, NEW oc, NEW i, burn(o, oc, i)
        PROVE  FALSE
    BY <1>1, <2>3 DEF burn, do_burn
  <2>4. ASSUME NEW o, NEW oc, NEW i, NEW a, transfer(o, oc, i, a) \/ redeposit(o, oc, i)
        PROVE  FALSE
    BY <1>1, <2>4 DEF transfer, transfer_item, do_transfer, redeposit, redeposit_item, attributeVars
  <2>5. ASSUME NEW o, NEW oc, NEW i, NEW s,
               \/ lock_item_transfer(o, oc, i) \/ unlock_item_transfer(o, oc, i)
               \/ lock_item_properties(o, oc, i, s)
        PROVE  FALSE
    BY <1>1, <2>5 DEF lock_item_transfer, unlock_item_transfer, lock_item_properties,
       do_lock_item_transfer, do_unlock_item_transfer, do_lock_item_properties, ItemConfigFrame,
       attributeVars
  <2>6. ASSUME NEW o, NEW oc \in CollectionId, NEW i \in ItemId, fractionalize(o, oc, i)
        PROVE  AttributeWritten(c, k)
    <3>1. \E v : Attribute' = [Attribute EXCEPT ![oc][<<i, Pallet, TransferDisabled>>] = v]
      BY <2>6 DEF fractionalize, disable_transfer, do_force_set_attribute
    <3>2. c = oc /\ k = <<i, Pallet, TransferDisabled>>
      BY <1>2, <3>1
    <3> QED
      BY <2>6, <3>2 DEF AttributeWritten
  <2>7. ASSUME NEW o, NEW oc \in CollectionId, NEW i \in ItemId, NEW a, unify(o, oc, i, a)
        PROVE  AttributeWritten(c, k)
    <3>1. Attribute' = [Attribute EXCEPT ![oc][<<i, Pallet, TransferDisabled>>] = None]
      BY <2>7 DEF unify, enable_transfer_and_transfer
    <3>2. c = oc /\ k = <<i, Pallet, TransferDisabled>> /\ Attribute'[c][k] = None
      BY <1>2, <3>1
    <3> QED
      BY <3>2 DEF AttributeWritten
  <2> QED
    BY <1>4, <2>1, <2>2, <2>3, <2>4, <2>5, <2>6, <2>7 DEF ItemNext
<1>5. CASE DataNext
  <2>1. ASSUME NEW o, NEW oc \in CollectionId, NEW ok \in ClientKey, NEW n,
               set_attribute(o, oc, ok, n)
        PROVE  AttributeWritten(c, k)
    <3>1. PICK a : do_set_attribute(o, oc, ok, n, a)
      BY <2>1 DEF set_attribute
    <3>2. c = oc /\ k = ok
      BY <1>2, <3>1 DEF do_set_attribute
    <3> QED
      BY <3>1, <3>2 DEF AttributeWritten
  <2>2. ASSUME NEW o \in Callers["force_set_attribute"], NEW oc \in CollectionId,
               NEW ok \in ForceKeys, NEW n, NEW a, force_set_attribute(o, a, oc, ok, n)
        PROVE  AttributeWritten(c, k)
    <3>1. c = oc /\ k = ok
      BY <1>2, <2>2 DEF force_set_attribute, do_force_set_attribute
    <3> QED
      BY <3>1 DEF AttributeWritten
  <2>3. ASSUME NEW o \in Callers["clear_attribute"], NEW oc \in CollectionId,
               NEW ok \in AttributeKey, clear_attribute(o, oc, ok)
        PROVE  AttributeWritten(c, k)
    <3>1. c = oc /\ k = ok
      BY <1>2, <2>3 DEF clear_attribute, do_clear_attribute
    <3> QED
      BY <2>3, <3>1 DEF AttributeWritten, clear_attribute
  <2>4. ASSUME NEW o, NEW oc, NEW i, NEW a, approve_item_attributes(o, oc, i, a)
        PROVE  FALSE
    BY <1>1, <2>4 DEF approve_item_attributes, do_approve_item_attributes
  <2>5. ASSUME NEW o, NEW oc \in CollectionId, NEW i, NEW a \in AccountId,
               cancel_item_attributes_approval(o, oc, i, a)
        PROVE  AttributeWritten(c, k)
    <3> DEFINE drained == {x \in AttributeKey :
                              x[1] = i /\ x[2] = AccountNs(a) /\ Attribute[oc][x] # None}
    <3>1. Attribute' = [Attribute EXCEPT ![oc] =
             [x \in AttributeKey |-> IF x \in drained THEN None ELSE Attribute[oc][x]]]
      BY <2>5 DEF cancel_item_attributes_approval, do_cancel_item_attributes_approval
    <3>2. c = oc
      BY <1>1, <3>1
    <3>3. Attribute'[c] = [x \in AttributeKey |-> IF x \in drained THEN None ELSE Attribute[oc][x]]
      BY <1>1, <3>1, <3>2
    <3> HIDE DEF drained
    <3>4. k \in drained /\ Attribute'[c][k] = None
      BY <3>2, <3>3
    <3> QED
      BY <3>4 DEF drained, AttributeWritten
  <2>6. ASSUME NEW o, NEW oc, NEW i, NEW n, set_metadata(o, oc, i, n) \/ clear_metadata(o, oc, i)
        PROVE  FALSE
    BY <1>1, <2>6 DEF set_metadata, clear_metadata, do_set_item_metadata, do_clear_item_metadata,
       attributeVars
  <2>7. ASSUME NEW o, NEW oc, NEW n,
               set_collection_metadata(o, oc, n) \/ clear_collection_metadata(o, oc)
        PROVE  FALSE
    BY <1>1, <2>7 DEF set_collection_metadata, clear_collection_metadata,
       do_set_collection_metadata, do_clear_collection_metadata, CollectionMetadataFrame,
       attributeVars
  <2>8. ASSUME NEW o, NEW oc \in CollectionId, NEW i \in ItemId, NEW data, NEW signer,
               mint_pre_signed(o, oc, i, data, signer)
        PROVE  AttributeWritten(c, k)
    <3> DEFINE ok == <<i, CollectionOwner, data.attributes.key>>
               settings == CollectionConfigOf[oc].mint_settings.default_item_settings
    <3>1. do_mint_pre_signed(o, oc, i, data, signer)
      BY <2>8 DEF mint_pre_signed
    <3>2. /\ \E v : Attribute' = [Attribute EXCEPT ![oc][ok] = v]
          /\ AttributeUnlocked(oc, ok, settings)
      BY <1>1, <3>1 DEF do_mint_pre_signed
    <3>3. c = oc /\ k = ok
      BY <1>2, <3>2
    <3> QED
      BY <3>1, <3>2, <3>3 DEF AttributeWritten
  <2>9. ASSUME NEW o, NEW oc \in CollectionId, NEW ok \in ClientKey, NEW n, NEW d, NEW signer,
               set_attributes_pre_signed(o, oc, ok, n, d, signer)
        PROVE  AttributeWritten(c, k)
    <3>1. do_set_attributes_pre_signed(o, oc, ok, n, d, signer)
      BY <2>9 DEF set_attributes_pre_signed
    <3>2. c = oc /\ k = ok
      BY <1>2, <3>1 DEF do_set_attributes_pre_signed
    <3> QED
      BY <3>1, <3>2 DEF AttributeWritten
  <2> QED
    BY <1>5, <2>1, <2>2, <2>3, <2>4, <2>5, <2>6, <2>7, <2>8, <2>9 DEF DataNext
<1>6. ~ TradingNext /\ ~ NextBlock
  BY <1>1, TradingNextStep, TradingFrame DEF NextBlock, attributeVars
<1> QED
  BY <1>3, <1>4, <1>5, <1>6 DEF Next

\* The calls that mint item i of collection c.
MintedBy(c, i) ==
    \/ \E o \in Callers["mint"] : \E a, owned, p : mint_as(o, c, i, a, owned, p)
    \/ Callers["force_mint"] # {} /\ \E o, a, g : do_force_mint(o, c, i, a, g)
    \/ Callers["mint_pre_signed"] # {} /\ \E o, data, signer :
          do_mint_pre_signed(o, c, i, data, signer)

\* Each of them makes the checks of do_mint and inserts the records.
LEMMA MintChecks ==
    ASSUME NEW c, NEW i, MintedBy(c, i)
    PROVE  \E depositor, to, g, b :
              CanMint(c, i, depositor, g, b) /\ InsertItem(c, i, depositor, to, g)
<1>1. ASSUME NEW o, NEW a, NEW owned, NEW p, mint_as(o, c, i, a, owned, p)
      PROVE  \E depositor, to, g, b :
                CanMint(c, i, depositor, g, b) /\ InsertItem(c, i, depositor, to, g)
  BY <1>1 DEF mint_as, do_mint
<1>2. ASSUME NEW o, NEW a, NEW g, do_force_mint(o, c, i, a, g)
      PROVE  \E depositor, to, gg, b :
                CanMint(c, i, depositor, gg, b) /\ InsertItem(c, i, depositor, to, gg)
  BY <1>2 DEF do_force_mint, do_mint
<1>3. ASSUME NEW o, NEW data, NEW signer, do_mint_pre_signed(o, c, i, data, signer)
      PROVE  \E depositor, to, g, b :
                CanMint(c, i, depositor, g, b) /\ InsertItem(c, i, depositor, to, g)
  BY <1>3 DEF do_mint_pre_signed
<1> QED
  BY <1>1, <1>2, <1>3 DEF MintedBy

\* Changing the approvals of an item leaves the items that exist.
LEMMA ApprovalsPresence ==
    ASSUME TypeOK, NEW o, NEW c \in CollectionId, NEW i \in ItemId,
           \/ \E delegate \in AccountId, d \in Option(Nat) :
                 do_approve_transfer(o, c, i, delegate, d)
           \/ \E delegate \in AccountId : do_cancel_approval(o, c, i, delegate)
           \/ do_clear_all_transfer_approvals(o, c, i)
    PROVE  \A oc \in CollectionId, oi \in ItemId : Item'[oc][oi] # None <=> Item[oc][oi] # None
<1>1. Item[c][i] # None
  BY DEF do_approve_transfer, do_cancel_approval, do_clear_all_transfer_approvals
<1>2. PICK d \in ItemDetails : Item' = [Item EXCEPT ![c][i] = d]
  <2>1. ASSUME NEW a \in AccountId, NEW d \in Option(Nat), do_approve_transfer(o, c, i, a, d)
        PROVE  \E e \in ItemDetails : Item' = [Item EXCEPT ![c][i] = e]
    BY <2>1, ApprovalsWritten
  <2>2. ASSUME NEW a \in AccountId, do_cancel_approval(o, c, i, a)
        PROVE  \E e \in ItemDetails : Item' = [Item EXCEPT ![c][i] = e]
    <3> DEFINE e == [Item[c][i] EXCEPT !.approvals = [@ EXCEPT ![a] = None]]
    <3>1. Item[c][i] \in ItemDetails
      BY <1>1 DEF TypeOK, StorageTypeOK, Option
    <3>2. e \in ItemDetails
      BY <3>1 DEF ItemDetails
    <3>3. Item' = [Item EXCEPT ![c][i] = e]
      BY <2>2 DEF do_cancel_approval
    <3> HIDE DEF e
    <3> QED
      BY <3>2, <3>3
  <2>3. ASSUME do_clear_all_transfer_approvals(o, c, i)
        PROVE  \E e \in ItemDetails : Item' = [Item EXCEPT ![c][i] = e]
    BY <2>3, ApprovalsWritten
  <2> QED
    BY <2>1, <2>2, <2>3
<1> QED
  BY <1>1, <1>2, ItemWritten

\* Only burn removes an item, and only the three mints create one.
LEMMA ItemPresence ==
    ASSUME TypeOK, Next, NEW c \in CollectionId, NEW i \in ItemId,
           ~ (Item'[c][i] # None <=> Item[c][i] # None)
    PROVE  \/ Item[c][i] # None /\ Item'[c][i] = None /\ \E o : do_burn(o, c, i)
           \/ Item[c][i] = None /\ Item'[c][i] # None /\ MintedBy(c, i)
<1> DEFINE Goal == \/ Item[c][i] # None /\ Item'[c][i] = None /\ \E o : do_burn(o, c, i)
                   \/ Item[c][i] = None /\ Item'[c][i] # None /\ MintedBy(c, i)
<1>1. Item' # Item /\ Item \in [CollectionId -> [ItemId -> Option(ItemDetails)]]
  BY DEF TypeOK, StorageTypeOK
<1>2. ASSUME NEW oc \in CollectionId, NEW oi \in ItemId, NEW config, NEW depositor, NEW to,
             Item[oc][oi] = None, InsertItem(oc, oi, depositor, to, config)
      PROVE  oc = c /\ oi = i /\ Item[c][i] = None /\ Item'[c][i] # None
  BY <1>1, <1>2 DEF InsertItem
<1>3. ASSUME NEW oc \in CollectionId, NEW oi \in ItemId, NEW dest \in AccountId,
             Item[oc][oi] # None, MoveTo(oc, oi, dest)
      PROVE  FALSE
  BY <1>3, MoveToStructure
<1>4. ~ CollectionNext /\ ~ NextBlock
  BY <1>1, CollectionNextStep, CollectionStepItems DEF NextBlock, itemVars
<1>5. CASE ItemNext
  <2>1. ASSUME NEW o \in Callers["mint"], NEW a, NEW oc \in CollectionId, NEW oi \in ItemId,
               NEW owned, NEW p, mint(o, oc, oi, a, owned, p)
        PROVE  Goal
    <3>1. mint_as(o, oc, oi, a, owned, p)
      BY <2>1 DEF mint
    <3>2. oc = c /\ oi = i /\ Item[c][i] = None /\ Item'[c][i] # None
      BY <1>2, <3>1 DEF mint_as, do_mint, CanMint
    <3> QED
      BY <3>1, <3>2 DEF MintedBy
  <2>2. ASSUME NEW o \in Callers["force_mint"], NEW a, NEW oc \in CollectionId, NEW oi \in ItemId,
               NEW g, force_mint(o, oc, oi, a, g)
        PROVE  Goal
    <3>1. do_force_mint(o, oc, oi, a, g)
      BY <2>2 DEF force_mint
    <3>2. oc = c /\ oi = i /\ Item[c][i] = None /\ Item'[c][i] # None
      BY <1>2, <3>1 DEF do_force_mint, do_mint, CanMint
    <3> QED
      BY <3>1, <3>2 DEF MintedBy
  <2>3. ASSUME NEW o, NEW oc \in CollectionId, NEW oi \in ItemId, burn(o, oc, oi)
        PROVE  Goal
    <3>1. do_burn(o, oc, oi)
      BY <2>3 DEF burn
    <3>2. Item[oc][oi] # None /\ Item' = [Item EXCEPT ![oc][oi] = None]
      BY <3>1 DEF do_burn
    <3>3. oc = c /\ oi = i /\ Item'[c][i] = None
      BY <1>1, <3>2
    <3> QED
      BY <3>1, <3>2, <3>3
  <2>4. ASSUME NEW o, NEW a \in AccountId, NEW oc \in CollectionId, NEW oi \in ItemId,
               transfer(o, oc, oi, a) \/ unify(o, oc, oi, a)
        PROVE  FALSE
    BY <1>3, <2>4 DEF transfer, transfer_item, do_transfer, unify, enable_transfer_and_transfer,
       TransferAllowed
  <2>5. ASSUME NEW o, NEW oc \in CollectionId, NEW oi \in ItemId, redeposit(o, oc, oi)
        PROVE  FALSE
    <3> DEFINE d == [Item[oc][oi] EXCEPT !.deposit_amount = ItemDepositOf(oc)]
    <3>1. Item[oc][oi] # None /\ Item' = [Item EXCEPT ![oc][oi] = d]
      BY <2>5 DEF redeposit, redeposit_item
    <3>2. Item[oc][oi] \in ItemDetails
      BY <1>1, <3>1 DEF Option
    <3>3. d \in ItemDetails
      BY <3>2, DepositType DEF ItemDetails
    <3> HIDE DEF d
    <3> QED
      BY <3>1, <3>3, ItemWritten
  <2>6. ASSUME NEW o, NEW oc, NEW oi, NEW s,
               \/ lock_item_transfer(o, oc, oi) \/ unlock_item_transfer(o, oc, oi)
               \/ lock_item_properties(o, oc, oi, s)
        PROVE  FALSE
    BY <1>1, <2>6 DEF lock_item_transfer, unlock_item_transfer, lock_item_properties,
       do_lock_item_transfer, do_unlock_item_transfer, do_lock_item_properties, ItemConfigFrame
  <2>7. ASSUME NEW o, NEW oc, NEW oi, fractionalize(o, oc, oi)
        PROVE  FALSE
    BY <1>1, <2>7 DEF fractionalize, disable_transfer, do_force_set_attribute, AttributeFrame,
       itemVars
  <2> QED
    BY <1>5, <2>1, <2>2, <2>3, <2>4, <2>5, <2>6, <2>7 DEF ItemNext
<1>6. CASE TradingNext
  <2>1. ASSUME NEW o, NEW oc \in CollectionId, NEW oi \in ItemId,
               \/ \E delegate \in AccountId, d \in Option(Nat) :
                     do_approve_transfer(o, oc, oi, delegate, d)
               \/ \E delegate \in AccountId : do_cancel_approval(o, oc, oi, delegate)
               \/ do_clear_all_transfer_approvals(o, oc, oi)
        PROVE  FALSE
    BY <2>1, ApprovalsPresence
  <2>2. ASSUME NEW o, NEW oc, NEW oi, NEW p, NEW a,
               do_set_price(o, oc, oi, p, a) \/ do_pay_tip(o, a, p)
        PROVE  FALSE
    BY <1>1, <2>2 DEF do_set_price, do_pay_tip, itemVars
  <2>3. ASSUME NEW o, NEW oc, NEW oi, NEW dc, NEW di, NEW p, NEW d,
               do_create_swap(o, oc, oi, dc, di, p, d) \/ do_cancel_swap(o, oc, oi)
        PROVE  FALSE
    BY <1>1, <2>3 DEF do_create_swap, do_cancel_swap, SwapFrame, itemVars
  <2>4. ASSUME NEW a \in AccountId, NEW oc \in CollectionId, NEW oi \in ItemId, NEW bid,
               do_buy_item(a, oc, oi, bid)
        PROVE  FALSE
    BY <1>3, <2>4 DEF do_buy_item, do_transfer
  <2>5. ASSUME NEW o \in AccountId, NEW sc \in CollectionId, NEW si \in ItemId,
               NEW rc \in CollectionId, NEW ri \in ItemId, NEW p,
               do_claim_swap(o, sc, si, rc, ri, p)
        PROVE  FALSE
    BY <2>5, ClaimedSame
  <2> QED
    BY <1>6, <2>1, <2>2, <2>3, <2>4, <2>5, TradingNextStep DEF TradingStep
<1>7. CASE DataNext
  <2>1. ASSUME NEW o, NEW a, NEW oc, NEW ok, NEW n,
               \/ set_attribute(o, oc, ok, n) \/ force_set_attribute(o, a, oc, ok, n)
               \/ clear_attribute(o, oc, ok)
        PROVE  FALSE
    BY <1>1, <2>1 DEF set_attribute, force_set_attribute, clear_attribute, do_set_attribute,
       do_force_set_attribute, do_clear_attribute, AttributeFrame, itemVars
  <2>2. ASSUME NEW o, NEW oc, NEW oi, NEW a,
               \/ approve_item_attributes(o, oc, oi, a)
               \/ cancel_item_attributes_approval(o, oc, oi, a)
        PROVE  FALSE
    BY <1>1, <2>2 DEF approve_item_attributes, cancel_item_attributes_approval,
       do_approve_item_attributes, do_cancel_item_attributes_approval, AttributeFrame, itemVars
  <2>3. ASSUME NEW o, NEW oc, NEW oi, NEW n, set_metadata(o, oc, oi, n) \/ clear_metadata(o, oc, oi)
        PROVE  FALSE
    BY <1>1, <2>3 DEF set_metadata, clear_metadata, do_set_item_metadata, do_clear_item_metadata
  <2>4. ASSUME NEW o, NEW oc, NEW n,
               set_collection_metadata(o, oc, n) \/ clear_collection_metadata(o, oc)
        PROVE  FALSE
    BY <1>1, <2>4 DEF set_collection_metadata, clear_collection_metadata,
       do_set_collection_metadata, do_clear_collection_metadata, CollectionMetadataFrame, itemVars
  <2>5. ASSUME NEW o \in Callers["mint_pre_signed"], NEW oc \in CollectionId, NEW oi \in ItemId,
               NEW data, NEW signer, mint_pre_signed(o, oc, oi, data, signer)
        PROVE  Goal
    <3>1. do_mint_pre_signed(o, oc, oi, data, signer)
      BY <2>5 DEF mint_pre_signed
    <3>2. oc = c /\ oi = i /\ Item[c][i] = None /\ Item'[c][i] # None
      BY <1>2, <3>1 DEF do_mint_pre_signed, CanMint
    <3> QED
      BY <3>1, <3>2 DEF MintedBy
  <2>6. ASSUME NEW o, NEW oc, NEW ok, NEW n, NEW d, NEW signer,
               set_attributes_pre_signed(o, oc, ok, n, d, signer)
        PROVE  FALSE
    BY <1>1, <2>6 DEF set_attributes_pre_signed, do_set_attributes_pre_signed, AttributeFrame,
       itemVars
  <2> QED
    BY <1>7, <2>1, <2>2, <2>3, <2>4, <2>5, <2>6 DEF DataNext
<1> QED
  BY <1>4, <1>5, <1>6, <1>7 DEF Next
-----------------------------------------------------------------------------
(* Fractionalized items *)

\* Root does not fractionalize with force_set_attribute, which does not ask whether the
\* item exists.
NoForcedMark == \A i \in ItemId : <<i, Pallet, TransferDisabled>> \notin ForceKeys

\* An item with the mark exists.
FractionalizedExist ==
    \A c \in CollectionId, i \in ItemId :
        has_system_attribute(c, i, TransferDisabled) => Item[c][i] # None

\* The key of the mark.
LEMMA MarkKey ==
    ASSUME NEW i \in ItemId
    PROVE  /\ <<i, Pallet, TransferDisabled>> \in AttributeKey
           /\ <<i, Pallet, TransferDisabled>> \notin ClientKey
           /\ \A a : <<i, Pallet, TransferDisabled>>[2] # AccountNs(a)
           /\ \A o, key : <<i, Pallet, TransferDisabled>> # <<o, CollectionOwner, key>>
           /\ \A o, c : <<i, Pallet, TransferDisabled>> # <<o, Pallet, UsedToClaim(c)>>
<1>1. <<i, Pallet, TransferDisabled>> \in AttributeKey
  BY DEF AttributeKey, Option, PalletAttributes
<1>2. <<i, Pallet, TransferDisabled>> \notin ClientKey
  BY DEF ClientKey
<1>3. ASSUME NEW a PROVE Pallet # AccountNs(a)
  BY DEF Pallet, AccountNs
<1>4. Pallet # CollectionOwner
  BY DEF Pallet, CollectionOwner
<1>5. ASSUME NEW c PROVE TransferDisabled # UsedToClaim(c)
  BY DEF TransferDisabled, UsedToClaim
<1> QED
  BY <1>1, <1>2, <1>3, <1>4, <1>5

\* The mark appears on existing items only, without a change of the items.
LEMMA MarkAppears ==
    ASSUME NoForcedMark, TypeOK, Next, NEW c \in CollectionId, NEW i \in ItemId,
           ~ has_system_attribute(c, i, TransferDisabled),
           has_system_attribute(c, i, TransferDisabled)'
    PROVE  Item[c][i] # None /\ Item' = Item
<1> DEFINE k == <<i, Pallet, TransferDisabled>>
<1>1. Attribute'[c][k] # Attribute[c][k] /\ Attribute[c][k] = None /\ Attribute'[c][k] # None
  BY DEF has_system_attribute
<1>2. AttributeWritten(c, k)
  BY <1>1, MarkKey, AttributeWrites
<1>3. ~ \E o \in Callers["clear_attribute"] : do_clear_attribute(o, c, k)
  BY <1>1 DEF do_clear_attribute
<1>4. PICK j \in ItemId : \E o : fractionalize(o, c, j) /\ k = <<j, Pallet, TransferDisabled>>
  <2> HIDE DEF k
  <2>1. /\ k \notin ClientKey /\ k \notin ForceKeys /\ \A a : k[2] # AccountNs(a)
        /\ \A j, key : k # <<j, CollectionOwner, key>>
        /\ \A j, oc : k # <<j, Pallet, UsedToClaim(oc)>>
    BY MarkKey DEF k, NoForcedMark
  <2> QED
    BY <1>1, <1>2, <1>3, <2>1 DEF AttributeWritten
<1> QED
  BY <1>4 DEF fractionalize, disable_transfer, do_force_set_attribute, AttributeFrame, itemVars

\* An item that does not exist, exists no longer or comes to exist has no mark.
LEMMA FractionalizedStep ==
    ASSUME NoForcedMark, TypeOK, FractionalizedExist, [Next]_vars
    PROVE  FractionalizedExist'
<1> SUFFICES ASSUME NEW c \in CollectionId, NEW i \in ItemId,
                    has_system_attribute(c, i, TransferDisabled)'
             PROVE  Item'[c][i] # None
  BY DEF FractionalizedExist
<1>1. CASE UNCHANGED vars
  BY <1>1 DEF vars, itemVars, attributeVars, FractionalizedExist, has_system_attribute
<1>2. CASE Next
  <2>1. CASE ~ has_system_attribute(c, i, TransferDisabled)
    BY <1>2, <2>1, MarkAppears
  <2>2. CASE has_system_attribute(c, i, TransferDisabled)
    <3>1. ~ \E o : do_burn(o, c, i)
      BY <2>2 DEF do_burn
    <3> QED
      BY <1>2, <2>2, <3>1, ItemPresence DEF FractionalizedExist
  <2> QED
    BY <2>1, <2>2
<1> QED
  BY <1>1, <1>2

\* As long as the mark stays, so do the item and its owner.
LEMMA MarkedStays ==
    ASSUME TypeOK, Next, NEW c \in CollectionId, NEW i \in ItemId, Item[c][i] # None,
           has_system_attribute(c, i, TransferDisabled),
           has_system_attribute(c, i, TransferDisabled)'
    PROVE  Item'[c][i] # None /\ ~ OwnerChanges(c, i)
<1>1. Item'[c][i] # None
  <2>1. ~ \E o : do_burn(o, c, i)
    BY DEF do_burn
  <2> QED
    BY <2>1, ItemPresence
<1>2. ASSUME OwnerChanges(c, i)
      PROVE  FALSE
  <2>1. ~ Movable(c, i)
    BY DEF Movable
  <2>2. CASE \E o, dest : transfer_item(o, c, i, dest)
    BY <2>1, <2>2 DEF transfer_item, do_transfer
  <2>3. CASE \E dest : enable_transfer_and_transfer(c, i, dest)
    <3>1. Attribute' = [Attribute EXCEPT ![c][<<i, Pallet, TransferDisabled>>] = None]
      BY <2>3 DEF enable_transfer_and_transfer
    <3>2. Attribute'[c][<<i, Pallet, TransferDisabled>>] = None
      BY <3>1, MarkKey DEF TypeOK, StorageTypeOK
    <3> QED
      BY <3>2 DEF has_system_attribute
  <2>4. CASE \E o, bid : do_buy_item(o, c, i, bid)
    BY <2>1, <2>4 DEF do_buy_item, do_transfer
  <2>5. CASE \E o, sc, si, rc, ri, p :
                /\ do_claim_swap(o, sc, si, rc, ri, p)
                /\ (c = sc /\ i = si) \/ (c = rc /\ i = ri)
    BY <2>1, <2>5 DEF do_claim_swap
  <2> QED
    BY <1>2, <2>2, <2>3, <2>4, <2>5, MovedInStep DEF Moved
<1> QED
  BY <1>1, <1>2

\* Where root does not force the mark, a fractionalized item exists, and can be neither
\* burned nor moved before the mark is removed.
THEOREM FractionalizedHeld ==
    ASSUME NoForcedMark
    PROVE  Spec => FractionalizedStays
<1>1. Init => FractionalizedExist
  BY MarkKey DEF Init, StorageInit, FractionalizedExist, has_system_attribute
<1>2. TypeOK /\ FractionalizedExist /\ [Next]_vars => FractionalizedExist'
  BY FractionalizedStep
<1>3. ASSUME TypeOK, FractionalizedExist, [Next]_vars
      PROVE  [\A c \in CollectionId, i \in ItemId :
                has_system_attribute(c, i, TransferDisabled) =>
                    /\ Item[c][i] # None
                    /\ has_system_attribute(c, i, TransferDisabled)'
                          => Item'[c][i] # None /\ ~ OwnerChanges(c, i)]_vars
  BY <1>3, MarkedStays DEF FractionalizedExist
<1> QED
  BY <1>1, <1>2, <1>3, TypeCorrect, PTL DEF Spec, FractionalizedStays
-----------------------------------------------------------------------------
(* Configs and the maximal supply *)

\* The item handlers write neither the config nor the metadata of a collection.
LEMMA ItemStepFrame ==
    ASSUME ItemStep
    PROVE  UNCHANGED <<CollectionConfigOf, CollectionMetadataOf>>
<1> DEFINE Rest == UNCHANGED <<CollectionConfigOf, CollectionMetadataOf>>
<1>1. ASSUME NEW o, NEW a, NEW c, NEW i, NEW owned, NEW p, NEW g,
             mint_as(o, c, i, a, owned, p) \/ do_force_mint(o, c, i, a, g)
      PROVE  Rest
  BY <1>1 DEF mint_as, do_force_mint, do_mint
<1>2. ASSUME NEW o, NEW c, NEW i, do_burn(o, c, i)
      PROVE  Rest
  BY <1>2 DEF do_burn
<1>3. ASSUME NEW o, NEW a, NEW c, NEW i,
             \/ transfer_item(o, c, i, a) \/ redeposit_item(o, c, i)
             \/ enable_transfer_and_transfer(c, i, a)
      PROVE  Rest
  BY <1>3 DEF transfer_item, do_transfer, redeposit_item, enable_transfer_and_transfer,
     collectionVars
<1>4. ASSUME NEW o, NEW c, NEW i, NEW s,
             \/ do_lock_item_transfer(o, c, i) \/ do_unlock_item_transfer(o, c, i)
             \/ do_lock_item_properties(o, c, i, s)
      PROVE  Rest
  BY <1>4 DEF do_lock_item_transfer, do_unlock_item_transfer, do_lock_item_properties,
     ItemConfigFrame, collectionVars
<1> QED
  BY <1>1, <1>2, <1>3, <1>4 DEF ItemStep

\* Of the handlers of attributes and metadata, those of the collection's metadata write
\* the collection's metadata, and none its config.
LEMMA DataStepFrame ==
    ASSUME DataStep
    PROVE  /\ UNCHANGED CollectionConfigOf
           /\ \/ UNCHANGED CollectionMetadataOf
              \/ \E o \in Origin, c \in CollectionId, n \in Nat :
                    do_set_collection_metadata(o, c, n) \/ do_clear_collection_metadata(o, c)
<1> DEFINE Rest == UNCHANGED <<CollectionConfigOf, CollectionMetadataOf>>
<1>1. ASSUME NEW o, NEW a, NEW c, NEW k, NEW n,
             \/ do_set_attribute(o, c, k, n, a) \/ do_force_set_attribute(a, c, k, n)
             \/ do_clear_attribute(o, c, k)
      PROVE  Rest
  BY <1>1 DEF do_set_attribute, do_force_set_attribute, do_clear_attribute, AttributeFrame
<1>2. ASSUME NEW o, NEW c, NEW i, NEW a,
             \/ do_approve_item_attributes(o, c, i, a)
             \/ do_cancel_item_attributes_approval(o, c, i, a)
      PROVE  Rest
  BY <1>2 DEF do_approve_item_attributes, do_cancel_item_attributes_approval, AttributeFrame
<1>3. ASSUME NEW o, NEW c, NEW i, NEW n,
             do_set_item_metadata(o, c, i, n) \/ do_clear_item_metadata(o, c, i)
      PROVE  Rest
  BY <1>3 DEF do_set_item_metadata, do_clear_item_metadata
<1>4. ASSUME NEW o, NEW c, NEW n,
             do_set_collection_metadata(o, c, n) \/ do_clear_collection_metadata(o, c)
      PROVE  UNCHANGED CollectionConfigOf
  BY <1>4 DEF do_set_collection_metadata, do_clear_collection_metadata, CollectionMetadataFrame
<1>5. ASSUME NEW o, NEW c, NEW i, NEW data, NEW signer, do_mint_pre_signed(o, c, i, data, signer)
      PROVE  Rest
  BY <1>5 DEF do_mint_pre_signed
<1>6. ASSUME NEW o, NEW c, NEW k, NEW n, NEW d, NEW signer,
             do_set_attributes_pre_signed(o, c, k, n, d, signer)
      PROVE  Rest
  BY <1>6 DEF do_set_attributes_pre_signed, AttributeFrame
<1>7. ASSUME NEW o \in Origin, NEW c \in CollectionId, do_clear_collection_metadata(o, c)
      PROVE  \E n \in Nat : do_set_collection_metadata(o, c, n) \/ do_clear_collection_metadata(o, c)
  <2>1. 0 \in Nat
    OBVIOUS
  <2> QED
    BY <1>7, <2>1
<1> QED
  BY <1>1, <1>2, <1>3, <1>4, <1>5, <1>6, <1>7 DEF DataStep

\* The calls that write the config of collection c.
ConfigWritten(c) ==
    \/ Collection[c] = None
    \/ Collection'[c] = None
    \/ Callers["force_collection_config"] # {} /\ CollectionConfigOf'[c] \in CollectionConfig
    \/ \E n \in Nat : \E o : do_set_collection_max_supply(o, c, n)
    \/ Callers["update_mint_settings"] # {} /\ \E s \in MintSettings : \E o :
          do_update_mint_settings(o, c, s)
    \/ \E s \in SUBSET CollectionSetting : \E o : do_lock_collection(o, c, s)

\* No other call writes a config.
LEMMA ConfigWrites ==
    ASSUME TypeOK, Next, NEW c \in CollectionId, CollectionConfigOf'[c] # CollectionConfigOf[c]
    PROVE  ConfigWritten(c)
<1>1. CollectionConfigOf' # CollectionConfigOf
      /\ CollectionConfigOf \in [CollectionId -> Option(CollectionConfig)]
  BY DEF TypeOK, StorageTypeOK
<1>2. ASSUME NEW oc \in CollectionId, NEW v, CollectionConfigOf' = [CollectionConfigOf EXCEPT ![oc] = v]
      PROVE  c = oc
  BY <1>1, <1>2
<1>3. ~ ItemNext /\ ~ TradingNext /\ ~ DataNext /\ ~ NextBlock
  BY <1>1, ItemNextStep, TradingNextStep, DataNextStep, ItemStepFrame, TradingFrame, DataStepFrame
     DEF NextBlock, collectionVars
<1>4. CollectionNext
  BY <1>3 DEF Next
<1>5. ASSUME NEW o, NEW a, NEW g, create(o, a, g) \/ force_create(o, a, g)
      PROVE  Collection[c] = None
  <2>1. NextId \in CollectionId
    BY StorageAssumption DEF NextId, TypeOK, StorageTypeOK, Option, CollectionId
  <2>2. CollectionConfigOf' = [CollectionConfigOf EXCEPT ![NextId] = g] /\ Collection[NextId] = None
    BY <1>5 DEF create, force_create, do_create_collection
  <2> QED
    BY <1>2, <2>1, <2>2
<1>6. ASSUME NEW o, NEW oc \in CollectionId, destroy(o, oc)
      PROVE  Collection'[c] = None
  <2>1. /\ CollectionConfigOf' = [CollectionConfigOf EXCEPT ![oc] = None]
        /\ Collection' = [Collection EXCEPT ![oc] = None]
    BY <1>6 DEF destroy, do_destroy_collection
  <2> QED
    BY <1>2, <2>1 DEF TypeOK, StorageTypeOK
<1>7. ASSUME NEW o, NEW oc, NEW a, NEW team,
             \/ transfer_ownership(o, oc, a) \/ set_team(o, oc, team)
             \/ force_collection_owner(o, oc, a) \/ set_accept_ownership(o, oc)
      PROVE  FALSE
  BY <1>1, <1>7 DEF transfer_ownership, set_team, force_collection_owner, set_accept_ownership,
     do_transfer_ownership, do_set_team, do_force_collection_owner, do_set_accept_ownership,
     MoveCollection, collectionVars
<1>8. ASSUME NEW o, NEW oc \in CollectionId, NEW n \in Nat, set_collection_max_supply(o, oc, n)
      PROVE  ConfigWritten(c)
  <2>1. do_set_collection_max_supply(o, oc, n)
    BY <1>8 DEF set_collection_max_supply
  <2>2. c = oc
    BY <1>1, <2>1 DEF do_set_collection_max_supply
  <2> QED
    BY <2>1, <2>2 DEF ConfigWritten
<1>9. ASSUME NEW o \in Callers["update_mint_settings"], NEW oc \in CollectionId,
             NEW s \in MintSettings, update_mint_settings(o, oc, s)
      PROVE  ConfigWritten(c)
  <2>1. do_update_mint_settings(o, oc, s)
    BY <1>9 DEF update_mint_settings
  <2>2. c = oc
    BY <1>1, <2>1 DEF do_update_mint_settings
  <2> QED
    BY <2>1, <2>2 DEF ConfigWritten
<1>10. ASSUME NEW o, NEW oc \in CollectionId, NEW s \in SUBSET CollectionSetting,
              lock_collection(o, oc, s)
       PROVE  ConfigWritten(c)
  <2>1. do_lock_collection(o, oc, s)
    BY <1>10 DEF lock_collection
  <2>2. c = oc
    BY <1>1, <2>1 DEF do_lock_collection
  <2> QED
    BY <2>1, <2>2 DEF ConfigWritten
<1>11. ASSUME NEW o \in Callers["force_collection_config"], NEW oc \in CollectionId,
              NEW g \in CollectionConfig, force_collection_config(o, oc, g)
       PROVE  ConfigWritten(c)
  <2>1. CollectionConfigOf' = [CollectionConfigOf EXCEPT ![oc] = g]
    BY <1>11 DEF force_collection_config, do_force_collection_config
  <2>2. CollectionConfigOf'[c] = g
    BY <1>1, <2>1
  <2> QED
    BY <2>2 DEF ConfigWritten
<1>12. CASE \E o, a, g : create(o, a, g) \/ force_create(o, a, g)
  BY <1>5, <1>12 DEF ConfigWritten
<1>13. CASE \E o : \E oc \in CollectionId : destroy(o, oc)
  BY <1>6, <1>13 DEF ConfigWritten
<1> QED
  BY <1>4, <1>7, <1>8, <1>9, <1>10, <1>11, <1>12, <1>13, ArgumentTypes DEF CollectionNext

\* A collection appears with its config and without items: no handler but create writes
\* the details of a collection that does not exist.
LEMMA CollectionAppears ==
    ASSUME TypeOK, Next, NEW c \in CollectionId, Collection[c] = None, Collection'[c] # None
    PROVE  Collection'[c].items = 0 /\ CollectionConfigOf'[c] \in CollectionConfig
<1>1. Collection \in [CollectionId -> Option(CollectionDetails)] /\ Collection' # Collection
  BY DEF TypeOK, StorageTypeOK
<1>2. ASSUME NEW oc \in CollectionId, NEW v, Collection' = [Collection EXCEPT ![oc] = v],
             Collection[oc] # None
      PROVE  FALSE
  BY <1>1, <1>2
<1>3. CASE CollectionStep
  <2>1. ASSUME NEW o, NEW a, NEW g \in CollectionConfig, NEW n,
               do_create_collection(NextId, o, a, g, n)
        PROVE  Collection'[c].items = 0 /\ CollectionConfigOf'[c] \in CollectionConfig
    <3>1. NextId \in CollectionId
      BY StorageAssumption DEF NextId, TypeOK, StorageTypeOK, Option, CollectionId
    <3>2. /\ CollectionConfigOf' = [CollectionConfigOf EXCEPT ![NextId] = g]
          /\ Collection' = [Collection EXCEPT ![NextId] =
                [owner |-> o, owner_deposit |-> n, items |-> 0,
                 item_metadatas |-> 0, item_configs |-> 0, attributes |-> 0]]
      BY <2>1 DEF do_create_collection
    <3>3. c = NextId
      BY <1>1, <3>1, <3>2
    <3>4. Collection'[c].items = 0
      BY <1>1, <3>1, <3>2, <3>3
    <3>5. CollectionConfigOf'[c] = g
      BY <3>1, <3>2, <3>3 DEF TypeOK, StorageTypeOK
    <3> QED
      BY <3>4, <3>5
  <2>2. ASSUME NEW o, NEW oc \in CollectionId, do_destroy_collection(o, oc)
        PROVE  FALSE
    BY <1>2, <2>2 DEF do_destroy_collection
  <2>3. ASSUME NEW o, NEW oc, NEW x,
               \/ do_set_team(o, oc, x) \/ do_force_collection_config(oc, x)
               \/ do_set_collection_max_supply(o, oc, x) \/ do_update_mint_settings(o, oc, x)
               \/ do_lock_collection(o, oc, x) \/ do_set_accept_ownership(o, x)
        PROVE  FALSE
    BY <1>1, <2>3 DEF do_set_team, do_force_collection_config, do_set_collection_max_supply,
       do_update_mint_settings, do_lock_collection, do_set_accept_ownership, ConfigFrame,
       collectionVars
  <2>4. ASSUME NEW o, NEW oc \in CollectionId, NEW a,
               do_transfer_ownership(o, oc, a) \/ do_force_collection_owner(oc, a)
        PROVE  FALSE
    BY <1>2, <2>4 DEF do_transfer_ownership, do_force_collection_owner, MoveCollection
  <2> QED
    BY <1>3, <2>1, <2>2, <2>3, <2>4 DEF CollectionStep
<1>4. CASE ItemStep
  <2>1. ASSUME NEW o, NEW a, NEW oc \in CollectionId, NEW i, NEW owned, NEW p, NEW g,
               mint_as(o, oc, i, a, owned, p) \/ do_force_mint(o, oc, i, a, g)
        PROVE  FALSE
    BY <1>2, <2>1 DEF mint_as, do_force_mint, do_mint
  <2>2. ASSUME NEW o, NEW oc \in CollectionId, NEW i, do_burn(o, oc, i)
        PROVE  FALSE
    <3>1. Collection[oc] # None
      BY <2>2 DEF do_burn
    <3>2. \E v : Collection' = [Collection EXCEPT ![oc] = v]
      BY <2>2, Zenon DEF do_burn
    <3> QED
      BY <1>2, <3>1, <3>2
  <2>3. ASSUME NEW o, NEW oc \in CollectionId, NEW i, NEW a,
               enable_transfer_and_transfer(oc, i, a)
        PROVE  FALSE
    BY <1>2, <2>3 DEF enable_transfer_and_transfer, TransferAllowed
  <2>4. ASSUME NEW o, NEW a, NEW oc, NEW i, NEW s,
               \/ transfer_item(o, oc, i, a) \/ redeposit_item(o, oc, i)
               \/ do_lock_item_transfer(o, oc, i) \/ do_unlock_item_transfer(o, oc, i)
               \/ do_lock_item_properties(o, oc, i, s)
        PROVE  FALSE
    BY <1>1, <2>4 DEF transfer_item, do_transfer, redeposit_item, do_lock_item_transfer,
       do_unlock_item_transfer, do_lock_item_properties, ItemConfigFrame, collectionVars
  <2> QED
    BY <1>4, <2>1, <2>2, <2>3, <2>4 DEF ItemStep
<1>5. CASE DataStep
  <2>1. ASSUME NEW o, NEW a, NEW oc \in CollectionId, NEW k, NEW n,
               \/ do_set_attribute(o, oc, k, n, a) \/ do_force_set_attribute(a, oc, k, n)
               \/ do_clear_attribute(o, oc, k)
        PROVE  FALSE
    BY <1>2, <2>1 DEF do_set_attribute, do_force_set_attribute, do_clear_attribute
  <2>2. ASSUME NEW o, NEW oc, NEW i, NEW a,
               \/ do_approve_item_attributes(o, oc, i, a)
               \/ do_cancel_item_attributes_approval(o, oc, i, a)
        PROVE  FALSE
    BY <1>1, <2>2 DEF do_approve_item_attributes, do_cancel_item_attributes_approval
  <2>3. ASSUME NEW o, NEW oc \in CollectionId, NEW i, NEW n,
               do_set_item_metadata(o, oc, i, n) \/ do_clear_item_metadata(o, oc, i)
        PROVE  FALSE
    BY <1>2, <2>3 DEF do_set_item_metadata, do_clear_item_metadata
  <2>4. ASSUME NEW o, NEW oc \in CollectionId, NEW n,
               do_set_collection_metadata(o, oc, n) \/ do_clear_collection_metadata(o, oc)
        PROVE  FALSE
    BY <1>2, <2>4 DEF do_set_collection_metadata, do_clear_collection_metadata
  <2>5. ASSUME NEW o, NEW oc \in CollectionId, NEW i, NEW data, NEW signer,
               do_mint_pre_signed(o, oc, i, data, signer)
        PROVE  FALSE
    BY <1>2, <2>5 DEF do_mint_pre_signed
  <2>6. ASSUME NEW o, NEW oc \in CollectionId, NEW k, NEW n, NEW d, NEW signer,
               do_set_attributes_pre_signed(o, oc, k, n, d, signer)
        PROVE  FALSE
    BY <1>2, <2>6 DEF do_set_attributes_pre_signed
  <2> QED
    BY <1>5, <2>1, <2>2, <2>3, <2>4, <2>5, <2>6 DEF DataStep
<1>6. ~ TradingStep /\ ~ NextBlock
  BY <1>1, TradingFrame DEF NextBlock, collectionVars
<1> QED
  BY <1>3, <1>4, <1>5, <1>6, NextStep

\* A collection that exists has a config.
ConfigsExist ==
    \A c \in CollectionId : Collection[c] # None => CollectionConfigOf[c] \in CollectionConfig

\* The config is written with the collection, and removed only with it.
LEMMA ConfigsExistStep == TypeOK /\ ConfigsExist /\ [Next]_vars => ConfigsExist'
<1> SUFFICES ASSUME TypeOK, ConfigsExist, [Next]_vars, NEW c \in CollectionId, Collection'[c] # None
             PROVE  CollectionConfigOf'[c] \in CollectionConfig
  BY DEF ConfigsExist
<1>2. CASE UNCHANGED vars
  BY <1>2 DEF ConfigsExist, vars, collectionVars
<1>3. CASE Next /\ Collection[c] = None
  BY <1>3, CollectionAppears
<1>4. CASE Next /\ Collection[c] # None
  <2>1. CollectionConfigOf[c] \in CollectionConfig /\ CollectionConfigOf \in
           [CollectionId -> Option(CollectionConfig)]
    BY <1>4 DEF ConfigsExist, TypeOK, StorageTypeOK
  <2>2. CASE \E n \in Nat : \E o : do_set_collection_max_supply(o, c, n)
    BY <2>1, <2>2 DEF do_set_collection_max_supply, CollectionConfig, Option
  <2>3. CASE \E s \in MintSettings : \E o : do_update_mint_settings(o, c, s)
    BY <2>1, <2>3 DEF do_update_mint_settings, CollectionConfig
  <2>4. CASE \E s \in SUBSET CollectionSetting : \E o : do_lock_collection(o, c, s)
    BY <2>1, <2>4 DEF do_lock_collection, CollectionConfig
  <2> QED
    BY <1>4, <2>1, <2>2, <2>3, <2>4, ConfigWrites DEF ConfigWritten
<1> QED
  BY <1>2, <1>3, <1>4

\* What a step makes of the number of items and of the maximal supply, where root forces
\* no config: a mint stays below the supply, and a new supply covers the items.
LEMMA SupplyStep ==
    ASSUME Callers["force_collection_config"] = {}, TypeOK, TypeOK', CountersExact, CountersExact',
           ConfigsExist, ConfigsExist', SupplyCapped, [Next]_vars
    PROVE  SupplyCapped'
<1> SUFFICES ASSUME NEW c \in CollectionId, Collection'[c] # None,
                    CollectionConfigOf'[c].max_supply # None
             PROVE  Collection'[c].items <= CollectionConfigOf'[c].max_supply
  BY DEF SupplyCapped
<1>1. CollectionConfigOf'[c].max_supply \in Nat
  BY DEF ConfigsExist, CollectionConfig, Option
<1>2. CASE UNCHANGED vars
  BY <1>2 DEF SupplyCapped, vars, collectionVars
<1>3. CASE Next /\ Collection[c] = None
  <2>1. Collection'[c].items = 0
    BY <1>3, CollectionAppears
  <2> QED
    BY <1>1, <2>1
<1>4. ASSUME Next, Collection[c] # None
      PROVE  Collection'[c].items <= CollectionConfigOf'[c].max_supply
  <2>1. /\ CollectionConfigOf[c] \in CollectionConfig /\ Collection[c].items \in Nat
        /\ CollectionConfigOf[c].max_supply \in Option(Nat)
    BY <1>4 DEF ConfigsExist, CollectionConfig, TypeOK, StorageTypeOK, Option, CollectionDetails, u32
  <2>2. CollectionConfigOf \in [CollectionId -> Option(CollectionConfig)]
    BY DEF TypeOK, StorageTypeOK
  <2>3. CASE \E n \in Nat : \E o : do_set_collection_max_supply(o, c, n)
    BY <2>1, <2>2, <2>3 DEF do_set_collection_max_supply, ConfigFrame, CollectionConfig
  <2>4. CASE \E s \in MintSettings : \E o : do_update_mint_settings(o, c, s)
    BY <1>4, <2>1, <2>2, <2>4 DEF do_update_mint_settings, ConfigFrame, CollectionConfig, SupplyCapped
  <2>5. CASE \E s \in SUBSET CollectionSetting : \E o : do_lock_collection(o, c, s)
    BY <1>4, <2>1, <2>2, <2>5 DEF do_lock_collection, ConfigFrame, CollectionConfig, SupplyCapped
  <2>6. ASSUME CollectionConfigOf'[c] = CollectionConfigOf[c]
        PROVE  Collection'[c].items <= CollectionConfigOf'[c].max_supply
    <3>1. CASE \E i \in ItemId : Item[c][i] = None /\ Item'[c][i] # None
      <4>1. PICK i \in ItemId : Item[c][i] = None /\ Item'[c][i] # None
        BY <3>1
      <4>2. MintedBy(c, i)
        BY <1>4, <4>1, ItemPresence
      <4>3. Collection[c].items < CollectionConfigOf[c].max_supply
        BY <2>6, <4>2, MintChecks DEF CanMint
      <4>4. \A oi \in ItemId : oi # i => Item'[c][oi] = Item[c][oi]
        BY <4>2, MintChecks DEF InsertItem, TypeOK, StorageTypeOK
      <4>5. Collection'[c].items <= Collection[c].items + 1
        <5>1. Stored(Item'[c]) = Stored(Item[c]) \cup {i} /\ i \notin Stored(Item[c])
          BY <4>1, <4>4 DEF Stored
        <5>2. IsFiniteSet(Stored(Item[c]))
          BY FinitenessAssumption, FS_Subset DEF Stored
        <5>3. Cardinality(Stored(Item'[c])) = Cardinality(Stored(Item[c])) + 1
          BY <5>1, <5>2, FS_AddElement
        <5>4. /\ Collection[c].items = Cardinality(Stored(Item[c]))
              /\ Collection'[c].items = Cardinality(Stored(Item'[c]))
          BY <1>4 DEF CountersExact, Stored
        <5> QED
          BY <2>1, <5>3, <5>4
      <4> QED
        BY <1>1, <2>1, <2>6, <4>3, <4>5 DEF CountersExact, TypeOK, StorageTypeOK, Option,
           CollectionDetails, u32
    <3>2. CASE \A i \in ItemId : Item'[c][i] # None => Item[c][i] # None
      <4>1. Stored(Item'[c]) \subseteq Stored(Item[c])
        BY <3>2 DEF Stored
      <4>2. IsFiniteSet(Stored(Item[c]))
        BY FinitenessAssumption, FS_Subset DEF Stored
      <4>3. Cardinality(Stored(Item'[c])) <= Cardinality(Stored(Item[c]))
        BY <4>1, <4>2, FS_Subset
      <4>4. /\ Collection[c].items = Cardinality(Stored(Item[c]))
            /\ Collection'[c].items = Cardinality(Stored(Item'[c]))
        BY <1>4 DEF CountersExact, Stored
      <4>5. Collection'[c].items \in Nat
        BY DEF TypeOK, StorageTypeOK, Option, CollectionDetails, u32
      <4>6. Collection[c].items <= CollectionConfigOf[c].max_supply
        BY <1>4, <2>6 DEF SupplyCapped
      <4> QED
        BY <1>1, <2>1, <2>6, <4>3, <4>4, <4>5, <4>6
    <3> QED
      BY <3>1, <3>2
  <2> QED
    BY <1>4, <2>3, <2>4, <2>5, <2>6, ConfigWrites DEF ConfigWritten
<1> QED
  BY <1>2, <1>3, <1>4

\* Where root forces no config, no collection ever holds more items than its max_supply:
\* mint checks the supply against the items and set_collection_max_supply the items
\* against the supply, and nothing changes either of the two in between.
THEOREM SupplyKept ==
    ASSUME Callers["force_collection_config"] = {}
    PROVE  Spec => []SupplyCapped
<1>1. Init => ConfigsExist /\ SupplyCapped
  BY DEF Init, StorageInit, ConfigsExist, SupplyCapped
<1>2. TypeOK /\ ConfigsExist /\ [Next]_vars => ConfigsExist'
  BY ConfigsExistStep
<1>3. TypeOK /\ TypeOK' /\ CountersExact /\ CountersExact' /\ ConfigsExist /\ ConfigsExist'
      /\ SupplyCapped /\ [Next]_vars => SupplyCapped'
  BY SupplyStep
<1> QED
  BY <1>1, <1>2, <1>3, TypeCorrect, CountersAreExact, PTL DEF Spec
-----------------------------------------------------------------------------
(* Locks *)

\* The root calls that the locks are not meant to stop: forced configs and attributes, and
\* root clearing or setting attributes and metadata.
RootCalls == {"clear_attribute", "set_metadata", "clear_metadata", "set_collection_metadata",
              "clear_collection_metadata"}
RootRespectsLocks ==
    /\ Callers["force_collection_config"] = {} /\ Callers["force_set_attribute"] = {}
    /\ \A n \in RootCalls : Root \notin Callers[n]

\* The metadata of collection c is written by two calls, and removed with the collection.
LEMMA CollectionMetadataWrites ==
    ASSUME TypeOK, Next, NEW c \in CollectionId,
           CollectionMetadataOf'[c] # CollectionMetadataOf[c]
    PROVE  \/ Collection'[c] = None
           \/ \E o \in Callers["set_collection_metadata"] : \E n :
                 do_set_collection_metadata(o, c, n)
           \/ \E o \in Callers["clear_collection_metadata"] : do_clear_collection_metadata(o, c)
<1>1. CollectionMetadataOf' # CollectionMetadataOf
      /\ CollectionMetadataOf \in [CollectionId -> Option(CollectionMetadata)]
  BY DEF TypeOK, StorageTypeOK
<1>2. ~ TradingNext /\ ~ NextBlock
  BY <1>1, TradingNextStep, TradingFrame DEF NextBlock, collectionVars
<1>3. CASE CollectionNext
  <2>1. ASSUME NEW o, NEW oc \in CollectionId, do_destroy_collection(o, oc)
        PROVE  Collection'[c] = None
    <3>1. /\ CollectionMetadataOf' = [CollectionMetadataOf EXCEPT ![oc] = None]
          /\ Collection' = [Collection EXCEPT ![oc] = None]
      BY <2>1 DEF do_destroy_collection
    <3>2. c = oc
      BY <1>1, <3>1
    <3> QED
      BY <3>1, <3>2 DEF TypeOK, StorageTypeOK
  <2>2. CASE ~ \E o : \E oc \in CollectionId : do_destroy_collection(o, oc)
    BY <1>1, <1>3, <2>2, CollectionNextStep DEF CollectionStep, do_create_collection, do_set_team,
       do_force_collection_config, do_set_collection_max_supply, do_update_mint_settings,
       do_lock_collection, ConfigFrame, do_force_collection_owner, do_transfer_ownership,
       MoveCollection, do_set_accept_ownership, collectionVars
  <2> QED
    BY <2>1, <2>2
<1>4. CASE ItemNext
  <2>2. ASSUME NEW o, NEW oc, NEW i, fractionalize(o, oc, i)
        PROVE  FALSE
    BY <1>1, <2>2 DEF fractionalize, disable_transfer, do_force_set_attribute, AttributeFrame
  <2>3. ASSUME NEW o, NEW oc, NEW i, NEW a, NEW owned, NEW p, NEW g,
               mint(o, oc, i, a, owned, p) \/ force_mint(o, oc, i, a, g)
        PROVE  FALSE
    BY <1>1, <2>3 DEF mint, mint_as, force_mint, do_force_mint, do_mint
  <2>4. ASSUME NEW o, NEW oc, NEW i, burn(o, oc, i)
        PROVE  FALSE
    BY <1>1, <2>4 DEF burn, do_burn
  <2>5. ASSUME NEW o, NEW a, NEW oc, NEW i,
               transfer(o, oc, i, a) \/ redeposit(o, oc, i) \/ unify(o, oc, i, a)
        PROVE  FALSE
    BY <1>1, <2>5 DEF transfer, transfer_item, do_transfer, redeposit, redeposit_item, unify,
       enable_transfer_and_transfer, collectionVars
  <2>6. ASSUME NEW o, NEW oc, NEW i, NEW s,
               \/ lock_item_transfer(o, oc, i) \/ unlock_item_transfer(o, oc, i)
               \/ lock_item_properties(o, oc, i, s)
        PROVE  FALSE
    BY <1>1, <2>6 DEF lock_item_transfer, unlock_item_transfer, lock_item_properties,
       do_lock_item_transfer, do_unlock_item_transfer, do_lock_item_properties, ItemConfigFrame,
       collectionVars
  <2> QED
    BY <1>4, <2>2, <2>3, <2>4, <2>5, <2>6 DEF ItemNext
<1>5. CASE DataNext
  <2>1. ASSUME NEW o, NEW oc \in CollectionId, NEW n, set_collection_metadata(o, oc, n)
        PROVE  do_set_collection_metadata(o, c, n)
    <3>1. do_set_collection_metadata(o, oc, n)
      BY <2>1 DEF set_collection_metadata
    <3>2. c = oc
      BY <1>1, <3>1 DEF do_set_collection_metadata
    <3> QED
      BY <3>1, <3>2
  <2>2. ASSUME NEW o, NEW oc \in CollectionId, clear_collection_metadata(o, oc)
        PROVE  do_clear_collection_metadata(o, c)
    <3>1. do_clear_collection_metadata(o, oc)
      BY <2>2 DEF clear_collection_metadata
    <3>2. c = oc
      BY <1>1, <3>1 DEF do_clear_collection_metadata
    <3> QED
      BY <3>1, <3>2
  <2>3. ASSUME NEW o, NEW a, NEW oc, NEW k, NEW n,
               \/ set_attribute(o, oc, k, n) \/ force_set_attribute(o, a, oc, k, n)
               \/ clear_attribute(o, oc, k)
        PROVE  FALSE
    BY <1>1, <2>3 DEF set_attribute, force_set_attribute, clear_attribute, do_set_attribute,
       do_force_set_attribute, do_clear_attribute, AttributeFrame
  <2>4. ASSUME NEW o, NEW oc, NEW i, NEW a,
               \/ approve_item_attributes(o, oc, i, a)
               \/ cancel_item_attributes_approval(o, oc, i, a)
        PROVE  FALSE
    BY <1>1, <2>4 DEF approve_item_attributes, cancel_item_attributes_approval,
       do_approve_item_attributes, do_cancel_item_attributes_approval, AttributeFrame
  <2>5. ASSUME NEW o, NEW oc, NEW i, NEW n, set_metadata(o, oc, i, n) \/ clear_metadata(o, oc, i)
        PROVE  FALSE
    BY <1>1, <2>5 DEF set_metadata, clear_metadata, do_set_item_metadata, do_clear_item_metadata
  <2>6. ASSUME NEW o, NEW oc, NEW i, NEW data, NEW signer, mint_pre_signed(o, oc, i, data, signer)
        PROVE  FALSE
    BY <1>1, <2>6 DEF mint_pre_signed, do_mint_pre_signed
  <2>7. ASSUME NEW o, NEW oc, NEW k, NEW n, NEW d, NEW signer,
               set_attributes_pre_signed(o, oc, k, n, d, signer)
        PROVE  FALSE
    BY <1>1, <2>7 DEF set_attributes_pre_signed, do_set_attributes_pre_signed, AttributeFrame
  <2> QED
    BY <1>5, <2>1, <2>2, <2>3, <2>4, <2>5, <2>6, <2>7 DEF DataNext
<1> QED
  BY <1>2, <1>3, <1>4, <1>5 DEF Next

\* An attribute of the CollectionOwner namespace: none of the other ways to write one
\* applies to it.
LEMMA OwnerAttributeWrites ==
    ASSUME RootRespectsLocks, TypeOK, Next, NEW c \in CollectionId, NEW i \in Option(ItemId),
           NEW key \in Key, Collection'[c] # None,
           Attribute'[c][<<i, CollectionOwner, key>>] # Attribute[c][<<i, CollectionOwner, key>>]
    PROVE  LET k == <<i, CollectionOwner, key>> IN
           \/ \E o, a, n : do_set_attribute(o, c, k, n, a)
           \/ \E o : o # Root /\ do_clear_attribute(o, c, k)
           \/ i \in ItemId /\ \E o, data, signer :
                 /\ do_mint_pre_signed(o, c, i, data, signer)
                 /\ AttributeUnlocked(c, k, CollectionConfigOf[c].mint_settings.default_item_settings)
           \/ \E o, n, d, signer : do_set_attributes_pre_signed(o, c, k, n, d, signer)
<1> DEFINE k == <<i, CollectionOwner, key>>
<1>1. k \in AttributeKey
  BY DEF AttributeKey, ClientNamespace
<1>2. k[1] = i /\ k[2] = CollectionOwner
  OBVIOUS
<1>3. CollectionOwner # Pallet /\ \A a : CollectionOwner # AccountNs(a)
  BY DEF CollectionOwner, Pallet, AccountNs
<1>4. \A j, x : k # <<j, Pallet, x>>
  BY <1>3
<1>5. \A j, x : k = <<j, CollectionOwner, x>> => i = j
  OBVIOUS
<1>6. AttributeWritten(c, k)
  BY <1>1, AttributeWrites
<1>7. Root \notin Callers["clear_attribute"] /\ Callers["force_set_attribute"] = {}
  BY DEF RootRespectsLocks, RootCalls
<1> HIDE DEF k
<1>8. \/ \E o, a, n : do_set_attribute(o, c, k, n, a)
      \/ \E o : o # Root /\ do_clear_attribute(o, c, k)
      \/ i \in ItemId /\ \E o, data, signer :
            /\ do_mint_pre_signed(o, c, i, data, signer)
            /\ AttributeUnlocked(c, k, CollectionConfigOf[c].mint_settings.default_item_settings)
      \/ \E o, n, d, signer : do_set_attributes_pre_signed(o, c, k, n, d, signer)
  BY <1>2, <1>3, <1>4, <1>5, <1>6, <1>7 DEF AttributeWritten
<1> QED
  BY <1>8 DEF k

\* What a step leaves of the locked parts of a collection.
LEMMA CollectionLocksStep ==
    ASSUME RootRespectsLocks, TypeOK, ConfigsExist, Next, NEW c \in CollectionId,
           Collection[c] # None, Collection'[c] # None
    PROVE  /\ CollectionConfigOf[c].settings \subseteq CollectionConfigOf'[c].settings
           /\ "UnlockedMaxSupply" \in CollectionConfigOf[c].settings
                 => CollectionConfigOf'[c].max_supply = CollectionConfigOf[c].max_supply
           /\ "UnlockedMetadata" \in CollectionConfigOf[c].settings
                 => CollectionMetadataOf'[c] = CollectionMetadataOf[c]
           /\ "UnlockedAttributes" \in CollectionConfigOf[c].settings => \A key \in Key :
                 Attribute'[c][<<None, CollectionOwner, key>>]
                     = Attribute[c][<<None, CollectionOwner, key>>]
<1>1. /\ CollectionConfigOf[c] \in CollectionConfig
      /\ CollectionConfigOf \in [CollectionId -> Option(CollectionConfig)]
  BY DEF ConfigsExist, TypeOK, StorageTypeOK
<1>2. /\ CollectionConfigOf[c].settings \subseteq CollectionConfigOf'[c].settings
      /\ "UnlockedMaxSupply" \in CollectionConfigOf[c].settings
            => CollectionConfigOf'[c].max_supply = CollectionConfigOf[c].max_supply
  <2>1. CASE CollectionConfigOf'[c] = CollectionConfigOf[c]
    BY <2>1
  <2>2. CASE \E n \in Nat : \E o : do_set_collection_max_supply(o, c, n)
    BY <1>1, <2>2 DEF do_set_collection_max_supply, CollectionSettingEnabled, CollectionConfig
  <2>3. CASE \E s \in MintSettings : \E o : do_update_mint_settings(o, c, s)
    BY <1>1, <2>3 DEF do_update_mint_settings, CollectionConfig
  <2>4. CASE \E s \in SUBSET CollectionSetting : \E o : do_lock_collection(o, c, s)
    BY <1>1, <2>4 DEF do_lock_collection, CollectionConfig
  <2>5. Callers["force_collection_config"] = {}
    BY DEF RootRespectsLocks
  <2> QED
    BY <2>1, <2>2, <2>3, <2>4, <2>5, ConfigWrites DEF ConfigWritten
<1>3. ASSUME "UnlockedMetadata" \in CollectionConfigOf[c].settings,
             CollectionMetadataOf'[c] # CollectionMetadataOf[c]
      PROVE  FALSE
  <2>1. Root \notin Callers["set_collection_metadata"] \cup Callers["clear_collection_metadata"]
    BY DEF RootRespectsLocks, RootCalls
  <2>2. ASSUME NEW o, NEW n, o # Root, do_set_collection_metadata(o, c, n)
        PROVE  FALSE
    BY <1>3, <2>2 DEF do_set_collection_metadata, CollectionSettingEnabled
  <2>3. ASSUME NEW o, o # Root, do_clear_collection_metadata(o, c)
        PROVE  FALSE
    BY <1>3, <2>3 DEF do_clear_collection_metadata, CollectionSettingEnabled
  <2> QED
    BY <1>3, <2>1, <2>2, <2>3, CollectionMetadataWrites
<1>4. ASSUME "UnlockedAttributes" \in CollectionConfigOf[c].settings, NEW key \in Key,
             Attribute'[c][<<None, CollectionOwner, key>>]
                 # Attribute[c][<<None, CollectionOwner, key>>]
      PROVE  FALSE
  <2> DEFINE k == <<None, CollectionOwner, key>>
  <2>1. None \in Option(ItemId) /\ None \notin ItemId
    BY NoneAssumption DEF Option
  <2>2. \/ \E o, a, n : do_set_attribute(o, c, k, n, a)
        \/ \E o : o # Root /\ do_clear_attribute(o, c, k)
        \/ \E o, n, d, signer : do_set_attributes_pre_signed(o, c, k, n, d, signer)
    BY <1>4, <2>1, OwnerAttributeWrites
  <2>3. k[1] = None /\ k[2] = CollectionOwner
    OBVIOUS
  <2> HIDE DEF k
  <2>4. \A config : ~ AttributeUnlocked(c, k, config)
    BY <1>4, <2>3 DEF AttributeUnlocked, CollectionSettingEnabled
  <2>5. \A o : ~ MayClearAttribute(o, c, k)
    BY <1>4, <2>3 DEF MayClearAttribute, CollectionSettingEnabled
  <2>6. ASSUME NEW o, NEW a, NEW n, do_set_attribute(o, c, k, n, a)
        PROVE  FALSE
    BY <2>4, <2>6 DEF do_set_attribute
  <2>7. ASSUME NEW o, o # Root, do_clear_attribute(o, c, k)
        PROVE  FALSE
    BY <2>5, <2>7 DEF do_clear_attribute
  <2>8. ASSUME NEW o, NEW n, NEW d, NEW signer, do_set_attributes_pre_signed(o, c, k, n, d, signer)
        PROVE  FALSE
    BY <2>3, <2>8 DEF do_set_attributes_pre_signed
  <2> QED
    BY <2>2, <2>6, <2>7, <2>8
<1> QED
  BY <1>2, <1>3, <1>4

\* Where root leaves the locks alone, what a collection has locked is final, whatever the
\* roles do: its settings, its maximal supply, its metadata and its attributes.
THEOREM CollectionLocksKept ==
    ASSUME RootRespectsLocks
    PROVE  Spec => CollectionLocksFinal
<1>1. Init => ConfigsExist
  BY DEF Init, StorageInit, ConfigsExist
<1>2. TypeOK /\ ConfigsExist /\ [Next]_vars => ConfigsExist'
  BY ConfigsExistStep
<1>3. ASSUME TypeOK, ConfigsExist, [Next]_vars
      PROVE  [\A c \in CollectionId : Collection[c] # None /\ Collection'[c] # None =>
                LET disabled == CollectionConfigOf[c].settings IN
                /\ disabled \subseteq CollectionConfigOf'[c].settings
                /\ "UnlockedMaxSupply" \in disabled
                      => CollectionConfigOf'[c].max_supply = CollectionConfigOf[c].max_supply
                /\ "UnlockedMetadata" \in disabled
                      => CollectionMetadataOf'[c] = CollectionMetadataOf[c]
                /\ "UnlockedAttributes" \in disabled => \A key \in Key :
                      Attribute'[c][<<None, CollectionOwner, key>>]
                          = Attribute[c][<<None, CollectionOwner, key>>]]_vars
  BY <1>3, CollectionLocksStep
<1> QED
  BY <1>1, <1>2, <1>3, TypeCorrect, PTL DEF Spec, CollectionLocksFinal

\* The handlers of collections leave the items' configs and metadata, except for destroy.
LEMMA CollectionStepData ==
    ASSUME TypeOK, CollectionStep, NEW c \in CollectionId, Collection'[c] # None
    PROVE  ItemConfigOf'[c] = ItemConfigOf[c] /\ ItemMetadataOf'[c] = ItemMetadataOf[c]
<1>1. CASE \E o : \E oc \in CollectionId : do_destroy_collection(o, oc)
  <2>1. PICK oc \in CollectionId : \E o : do_destroy_collection(o, oc)
    BY <1>1
  <2>2. /\ \E v : ItemConfigOf' = [ItemConfigOf EXCEPT ![oc] = v]
        /\ \E v : ItemMetadataOf' = [ItemMetadataOf EXCEPT ![oc] = v]
        /\ Collection' = [Collection EXCEPT ![oc] = None]
    BY <2>1 DEF do_destroy_collection
  <2>3. c # oc
    BY <2>2 DEF TypeOK, StorageTypeOK
  <2> QED
    BY <2>2, <2>3 DEF TypeOK, StorageTypeOK
<1>2. CASE ~ \E o : \E oc \in CollectionId : do_destroy_collection(o, oc)
  BY <1>2 DEF CollectionStep, do_create_collection, do_set_team,
     do_force_collection_config, do_set_collection_max_supply, do_update_mint_settings,
     do_lock_collection, ConfigFrame, do_force_collection_owner, do_transfer_ownership,
     MoveCollection, do_set_accept_ownership, itemVars
<1> QED
  BY <1>1, <1>2

\* So do the handlers of attributes and metadata, except for those of the items' metadata
\* and the pre-signed mint.
LEMMA DataStepItems ==
    ASSUME DataStep
    PROVE  \/ UNCHANGED <<ItemConfigOf, ItemMetadataOf>>
           \/ \E o \in Origin, c \in CollectionId, i \in ItemId, n \in Nat :
                 do_set_item_metadata(o, c, i, n) \/ do_clear_item_metadata(o, c, i)
           \/ \E mint_to, signer \in AccountId, c \in CollectionId, i \in ItemId,
                 data \in PreSignedMint : do_mint_pre_signed(mint_to, c, i, data, signer)
<1> DEFINE Rest == UNCHANGED <<ItemConfigOf, ItemMetadataOf>>
<1>1. ASSUME NEW o, NEW a, NEW c, NEW k, NEW n,
             \/ do_set_attribute(o, c, k, n, a) \/ do_force_set_attribute(a, c, k, n)
             \/ do_clear_attribute(o, c, k)
      PROVE  Rest
  BY <1>1 DEF do_set_attribute, do_force_set_attribute, do_clear_attribute, AttributeFrame, itemVars
<1>2. ASSUME NEW o, NEW c, NEW i, NEW a,
             \/ do_approve_item_attributes(o, c, i, a)
             \/ do_cancel_item_attributes_approval(o, c, i, a)
      PROVE  Rest
  BY <1>2 DEF do_approve_item_attributes, do_cancel_item_attributes_approval, AttributeFrame,
     itemVars
<1>3. ASSUME NEW o, NEW c, NEW n,
             do_set_collection_metadata(o, c, n) \/ do_clear_collection_metadata(o, c)
      PROVE  Rest
  BY <1>3 DEF do_set_collection_metadata, do_clear_collection_metadata, CollectionMetadataFrame,
     itemVars
<1>4. ASSUME NEW o, NEW c, NEW k, NEW n, NEW d, NEW signer,
             do_set_attributes_pre_signed(o, c, k, n, d, signer)
      PROVE  Rest
  BY <1>4 DEF do_set_attributes_pre_signed, AttributeFrame, itemVars
<1>5. 0 \in Nat
  OBVIOUS
<1> QED
  BY <1>1, <1>2, <1>3, <1>4, <1>5 DEF DataStep

\* A lock of an item is in its config for good: burn keeps a config with a lock, a mint
\* of the item again must come with the same config, and the freezer unlocks transfers only.
LEMMA ItemConfigKept ==
    ASSUME TypeOK, Next, NEW c \in CollectionId, NEW i \in ItemId, Collection'[c] # None,
           ItemConfigOf[c][i] # None,
           NEW s \in {"UnlockedMetadata", "UnlockedAttributes"}, s \in ItemConfigOf[c][i]
    PROVE  ItemConfigOf'[c][i] # None /\ s \in ItemConfigOf'[c][i]
<1> DEFINE Goal == ItemConfigOf'[c][i] # None /\ s \in ItemConfigOf'[c][i]
<1>1. ItemConfigOf \in [CollectionId -> [ItemId -> Option(SUBSET ItemSetting)]]
  BY DEF TypeOK, StorageTypeOK
<1>2. ASSUME NEW oc \in CollectionId, NEW oi \in ItemId, NEW v,
             ItemConfigOf' = [ItemConfigOf EXCEPT ![oc][oi] = v],
             oc = c /\ oi = i => v # None /\ s \in v
      PROVE  Goal
  BY <1>1, <1>2
<1>3. ASSUME NEW oc \in CollectionId, NEW oi \in ItemId, NEW d, NEW to, NEW g, NEW b,
             CanMint(oc, oi, d, g, b), InsertItem(oc, oi, d, to, g)
      PROVE  Goal
  BY <1>2, <1>3 DEF CanMint, InsertItem
<1>4. CASE CollectionStep
  BY <1>4, CollectionStepData
<1>5. CASE ItemStep
  <2>1. ASSUME NEW o, NEW a, NEW oc \in CollectionId, NEW oi \in ItemId, NEW owned, NEW p, NEW g,
               mint_as(o, oc, oi, a, owned, p) \/ do_force_mint(o, oc, oi, a, g)
        PROVE  Goal
    BY <1>3, <2>1 DEF mint_as, do_force_mint, do_mint
  <2>2. ASSUME NEW o, NEW oc \in CollectionId, NEW oi \in ItemId, do_burn(o, oc, oi)
        PROVE  Goal
    <3>1. \/ ItemConfigOf' = ItemConfigOf
          \/ ItemConfigOf[oc][oi] = {} /\ ItemConfigOf' = [ItemConfigOf EXCEPT ![oc][oi] = None]
      BY <2>2 DEF do_burn
    <3> QED
      BY <1>2, <3>1
  <2>3. ASSUME NEW o, NEW a, NEW oc, NEW oi,
               \/ transfer_item(o, oc, oi, a) \/ redeposit_item(o, oc, oi)
               \/ enable_transfer_and_transfer(oc, oi, a)
        PROVE  Goal
    BY <2>3 DEF transfer_item, do_transfer, redeposit_item, enable_transfer_and_transfer
  <2>4. ASSUME NEW o, NEW oc \in CollectionId, NEW oi \in ItemId, NEW t \in SUBSET ItemSetting,
               \/ do_lock_item_transfer(o, oc, oi) \/ do_unlock_item_transfer(o, oc, oi)
               \/ do_lock_item_properties(o, oc, oi, t)
        PROVE  Goal
    <3>1. PICK v : /\ ItemConfigOf' = [ItemConfigOf EXCEPT ![oc][oi] = v]
                   /\ v \in {ItemConfigOf[oc][oi] \cup {"Transferable"},
                             ItemConfigOf[oc][oi] \ {"Transferable"},
                             ItemConfigOf[oc][oi] \cup t}
                   /\ ItemConfigOf[oc][oi] # None
      BY <2>4 DEF do_lock_item_transfer, do_unlock_item_transfer, do_lock_item_properties
    <3>2. v \in SUBSET ItemSetting
      <4>1. ItemConfigOf[oc][oi] \in SUBSET ItemSetting
        BY <1>1, <3>1 DEF Option
      <4>2. "Transferable" \in ItemSetting
        BY DEF ItemSetting
      <4> QED
        BY <3>1, <4>1, <4>2
    <3>3. v # None
      BY <3>2, OptionAssumption
    <3> QED
      BY <1>2, <3>1, <3>3
  <2>5. SUBSET {"UnlockedMetadata", "UnlockedAttributes"} \subseteq SUBSET ItemSetting
    BY DEF ItemSetting
  <2>6. \E t : t \in SUBSET ItemSetting
    OBVIOUS
  <2> QED
    BY <1>5, <2>1, <2>2, <2>3, <2>4, <2>5, <2>6 DEF ItemStep
<1>6. CASE DataStep
  <2>1. ASSUME NEW o, NEW oc \in CollectionId, NEW oi \in ItemId, NEW data, NEW signer,
               do_mint_pre_signed(o, oc, oi, data, signer)
        PROVE  Goal
    BY <1>3, <2>1 DEF do_mint_pre_signed
  <2>2. ASSUME NEW o, NEW oc, NEW oi, NEW n,
               do_set_item_metadata(o, oc, oi, n) \/ do_clear_item_metadata(o, oc, oi)
        PROVE  Goal
    BY <2>2 DEF do_set_item_metadata, do_clear_item_metadata
  <2> QED
    BY <1>6, <2>1, <2>2, DataStepItems
<1>7. CASE TradingStep \/ NextBlock
  BY <1>7, TradingFrame DEF NextBlock, itemVars
<1> QED
  BY <1>4, <1>5, <1>6, <1>7, NextStep

\* Locked metadata of an item stays: burn leaves it, and a pre-signed mint with metadata
\* needs a config, the one the item still has, that does not lock it.
LEMMA ItemMetadataKept ==
    ASSUME RootRespectsLocks, TypeOK, Next, NEW c \in CollectionId, NEW i \in ItemId,
           Collection'[c] # None, ItemConfigOf[c][i] # None,
           "UnlockedMetadata" \in ItemConfigOf[c][i]
    PROVE  ItemMetadataOf'[c][i] = ItemMetadataOf[c][i]
<1> DEFINE Goal == ItemMetadataOf'[c][i] = ItemMetadataOf[c][i]
<1>1. ItemMetadataOf \in [CollectionId -> [ItemId -> Option(Deposited)]]
  BY DEF TypeOK, StorageTypeOK
<1>2. ASSUME NEW oc \in CollectionId, NEW oi \in ItemId, NEW v,
             ItemMetadataOf' = [ItemMetadataOf EXCEPT ![oc][oi] = v], oc # c \/ oi # i
      PROVE  Goal
  BY <1>1, <1>2
<1>3. CASE CollectionNext
  BY <1>3, CollectionNextStep, CollectionStepData
<1>4. CASE ItemNext
  <2>1. ASSUME NEW o, NEW a, NEW oc, NEW oi, NEW owned, NEW p, NEW g,
               mint(o, oc, oi, a, owned, p) \/ force_mint(o, oc, oi, a, g)
        PROVE  Goal
    BY <2>1 DEF mint, force_mint, mint_as, do_force_mint, do_mint
  <2>2. ASSUME NEW o, NEW oc \in CollectionId, NEW oi \in ItemId, burn(o, oc, oi)
        PROVE  Goal
    <3>1. \/ ItemMetadataOf' = ItemMetadataOf
          \/ /\ BurnsMetadata(oc, oi)
             /\ ItemMetadataOf' = [ItemMetadataOf EXCEPT ![oc][oi] = None]
      BY <2>2 DEF burn, do_burn
    <3> QED
      BY <1>2, <3>1 DEF BurnsMetadata, ItemSettingEnabled
  <2>3. ASSUME NEW o, NEW a, NEW oc, NEW oi,
               transfer(o, oc, oi, a) \/ redeposit(o, oc, oi) \/ unify(o, oc, oi, a)
        PROVE  Goal
    BY <2>3 DEF transfer, transfer_item, do_transfer, redeposit, redeposit_item, unify,
       enable_transfer_and_transfer
  <2>4. ASSUME NEW o, NEW oc, NEW oi, NEW s,
               \/ lock_item_transfer(o, oc, oi) \/ unlock_item_transfer(o, oc, oi)
               \/ lock_item_properties(o, oc, oi, s)
        PROVE  Goal
    BY <2>4 DEF lock_item_transfer, unlock_item_transfer, lock_item_properties,
       do_lock_item_transfer, do_unlock_item_transfer, do_lock_item_properties, ItemConfigFrame
  <2>5. ASSUME NEW o, NEW oc, NEW oi, fractionalize(o, oc, oi)
        PROVE  Goal
    BY <2>5 DEF fractionalize, disable_transfer, do_force_set_attribute, AttributeFrame, itemVars
  <2> QED
    BY <1>4, <2>1, <2>2, <2>3, <2>4, <2>5 DEF ItemNext
<1>5. CASE DataNext
  <2>1. Root \notin Callers["set_metadata"] \cup Callers["clear_metadata"]
    BY DEF RootRespectsLocks, RootCalls
  <2>2. ASSUME NEW o, o # Root, NEW oc \in CollectionId, NEW oi \in ItemId, NEW n,
               set_metadata(o, oc, oi, n)
        PROVE  Goal
    <3>1. /\ \E v : ItemMetadataOf' = [ItemMetadataOf EXCEPT ![oc][oi] = v]
          /\ "UnlockedMetadata" \notin ItemConfigOf[oc][oi]
      BY <2>2 DEF set_metadata, do_set_item_metadata, ItemSettingEnabled
    <3> QED
      BY <1>2, <3>1
  <2>3. ASSUME NEW o, o # Root, NEW oc \in CollectionId, NEW oi \in ItemId,
               clear_metadata(o, oc, oi)
        PROVE  Goal
    <3>1. /\ ItemMetadataOf' = [ItemMetadataOf EXCEPT ![oc][oi] = None]
          /\ ItemConfigOf[oc][oi] = None \/ "UnlockedMetadata" \notin ItemConfigOf[oc][oi]
      BY <2>3 DEF clear_metadata, do_clear_item_metadata, ItemSettingEnabled
    <3> QED
      BY <1>2, <3>1
  <2>4. ASSUME NEW o, NEW oc \in CollectionId, NEW oi \in ItemId, NEW data, NEW signer,
               mint_pre_signed(o, oc, oi, data, signer)
        PROVE  Goal
    <3> DEFINE settings == CollectionConfigOf[oc].mint_settings.default_item_settings
    <3>1. /\ ItemConfigOf[oc][oi] \in {None, settings}
          /\ \/ ItemMetadataOf' = ItemMetadataOf
             \/ /\ "UnlockedMetadata" \notin settings
                /\ \E v : ItemMetadataOf' = [ItemMetadataOf EXCEPT ![oc][oi] = v]
      BY <2>4 DEF mint_pre_signed, do_mint_pre_signed, CanMint
    <3> QED
      BY <1>2, <3>1
  <2>5. ASSUME NEW o, NEW a, NEW oc, NEW k, NEW n,
               \/ set_attribute(o, oc, k, n) \/ force_set_attribute(o, a, oc, k, n)
               \/ clear_attribute(o, oc, k)
        PROVE  Goal
    BY <2>5 DEF set_attribute, force_set_attribute, clear_attribute, do_set_attribute,
       do_force_set_attribute, do_clear_attribute, AttributeFrame, itemVars
  <2>6. ASSUME NEW o, NEW oc, NEW oi, NEW a,
               \/ approve_item_attributes(o, oc, oi, a)
               \/ cancel_item_attributes_approval(o, oc, oi, a)
        PROVE  Goal
    BY <2>6 DEF approve_item_attributes, cancel_item_attributes_approval,
       do_approve_item_attributes, do_cancel_item_attributes_approval, AttributeFrame, itemVars
  <2>7. ASSUME NEW o, NEW oc, NEW n,
               set_collection_metadata(o, oc, n) \/ clear_collection_metadata(o, oc)
        PROVE  Goal
    BY <2>7 DEF set_collection_metadata, clear_collection_metadata,
       do_set_collection_metadata, do_clear_collection_metadata, CollectionMetadataFrame, itemVars
  <2>8. ASSUME NEW o, NEW oc, NEW k, NEW n, NEW d, NEW signer,
               set_attributes_pre_signed(o, oc, k, n, d, signer)
        PROVE  Goal
    BY <2>8 DEF set_attributes_pre_signed, do_set_attributes_pre_signed, AttributeFrame, itemVars
  <2> QED
    BY <1>5, <2>1, <2>2, <2>3, <2>4, <2>5, <2>6, <2>7, <2>8 DEF DataNext
<1>6. CASE TradingNext \/ NextBlock
  BY <1>6, TradingNextStep, TradingFrame DEF NextBlock, itemVars
<1> QED
  BY <1>3, <1>4, <1>5, <1>6 DEF Next

\* Locked attributes of an item stay.
LEMMA ItemAttributesKept ==
    ASSUME RootRespectsLocks, TypeOK, Next, NEW c \in CollectionId, NEW i \in ItemId,
           Collection'[c] # None, ItemConfigOf[c][i] # None,
           "UnlockedAttributes" \in ItemConfigOf[c][i], NEW key \in Key
    PROVE  Attribute'[c][<<i, CollectionOwner, key>>] = Attribute[c][<<i, CollectionOwner, key>>]
<1> SUFFICES ASSUME Attribute'[c][<<i, CollectionOwner, key>>]
                       # Attribute[c][<<i, CollectionOwner, key>>]
             PROVE  FALSE
  OBVIOUS
<1> DEFINE k == <<i, CollectionOwner, key>>
           settings == CollectionConfigOf[c].mint_settings.default_item_settings
<1>1. i \in Option(ItemId) /\ i # None
  BY NoneAssumption DEF Option
<1>2. \/ \E o, a, n : do_set_attribute(o, c, k, n, a)
      \/ \E o : o # Root /\ do_clear_attribute(o, c, k)
      \/ \E o, data, signer :
            do_mint_pre_signed(o, c, i, data, signer) /\ AttributeUnlocked(c, k, settings)
      \/ \E o, n, d, signer : do_set_attributes_pre_signed(o, c, k, n, d, signer)
  BY <1>1, OwnerAttributeWrites
<1>3. k[1] = i /\ k[2] = CollectionOwner
  OBVIOUS
<1> HIDE DEF k
<1>4. ~ AttributeUnlocked(c, k, ItemConfigOf[c][i])
  BY <1>1, <1>3 DEF AttributeUnlocked
<1>5. \A o : ~ MayClearAttribute(o, c, k)
  BY <1>1, <1>3 DEF MayClearAttribute, ItemSettingEnabled
<1>6. ASSUME NEW o, NEW a, NEW n, do_set_attribute(o, c, k, n, a)
      PROVE  FALSE
  BY <1>1, <1>3, <1>4, <1>6 DEF do_set_attribute
<1>7. ASSUME NEW o, o # Root, do_clear_attribute(o, c, k)
      PROVE  FALSE
  BY <1>5, <1>7 DEF do_clear_attribute
<1>8. ASSUME NEW o, NEW data, NEW signer, do_mint_pre_signed(o, c, i, data, signer),
             AttributeUnlocked(c, k, settings)
      PROVE  FALSE
  <2>1. ItemConfigOf[c][i] = settings
    BY <1>8 DEF do_mint_pre_signed, CanMint
  <2> QED
    BY <1>4, <1>8, <2>1
<1>9. ASSUME NEW o, NEW n, NEW d, NEW signer, do_set_attributes_pre_signed(o, c, k, n, d, signer)
      PROVE  FALSE
  BY <1>3, <1>4, <1>9 DEF do_set_attributes_pre_signed
<1> QED
  BY <1>2, <1>6, <1>7, <1>8, <1>9

\* Where root leaves the locks alone, locked metadata and locked attributes of an item
\* never change while the collection exists, also over a burn and a mint of the item.
THEOREM ItemLocksKept ==
    ASSUME RootRespectsLocks
    PROVE  Spec => ItemLocksFinal
<1>1. ASSUME TypeOK, Next, NEW c \in CollectionId, NEW i \in ItemId, Collection'[c] # None,
             ItemConfigOf[c][i] # None
      PROVE  /\ "UnlockedMetadata" \in ItemConfigOf[c][i] =>
                   /\ ItemConfigOf'[c][i] # None /\ "UnlockedMetadata" \in ItemConfigOf'[c][i]
                   /\ ItemMetadataOf'[c][i] = ItemMetadataOf[c][i]
             /\ "UnlockedAttributes" \in ItemConfigOf[c][i] =>
                   /\ ItemConfigOf'[c][i] # None /\ "UnlockedAttributes" \in ItemConfigOf'[c][i]
                   /\ \A key \in Key : Attribute'[c][<<i, CollectionOwner, key>>]
                                           = Attribute[c][<<i, CollectionOwner, key>>]
  BY <1>1, ItemConfigKept, ItemMetadataKept, ItemAttributesKept
<1>2. ASSUME TypeOK, [Next]_vars
      PROVE  [\A c \in CollectionId, i \in ItemId :
                Collection'[c] # None /\ ItemConfigOf[c][i] # None =>
                LET disabled == ItemConfigOf[c][i] IN
                /\ "UnlockedMetadata" \in disabled =>
                      /\ ItemConfigOf'[c][i] # None /\ "UnlockedMetadata" \in ItemConfigOf'[c][i]
                      /\ ItemMetadataOf'[c][i] = ItemMetadataOf[c][i]
                /\ "UnlockedAttributes" \in disabled =>
                      /\ ItemConfigOf'[c][i] # None /\ "UnlockedAttributes" \in ItemConfigOf'[c][i]
                      /\ \A key \in Key : Attribute'[c][<<i, CollectionOwner, key>>]
                                              = Attribute[c][<<i, CollectionOwner, key>>]]_vars
  BY <1>1, <1>2
<1> QED
  BY <1>2, TypeCorrect, PTL DEF Spec, ItemLocksFinal
-----------------------------------------------------------------------------
(* Claims *)

\* Items are minted by mint only, collections keep their mint settings and are not
\* destroyed, and root neither forces nor clears the marks of claims.
ClaimsOnly ==
    /\ \A n \in {"destroy", "force_mint", "mint_pre_signed", "update_mint_settings",
                 "force_collection_config", "force_set_attribute"} : Callers[n] = {}
    /\ Root \notin Callers["clear_attribute"]

ClaimKey(i, c) == <<i, Pallet, UsedToClaim(c)>>

\* Nobody has paid for the mark of a claim, so nobody may clear it as its depositor.
MarksUnpaid ==
    \A c, oc \in CollectionId, i \in ItemId :
        Attribute[c][ClaimKey(i, oc)] # None => Attribute[c][ClaimKey(i, oc)].account = None

\* The keys of the marks of claims are no others.
LEMMA ClaimKeys ==
    ASSUME NEW i \in ItemId, NEW c \in CollectionId
    PROVE  /\ ClaimKey(i, c) \in AttributeKey /\ ClaimKey(i, c) \notin ClientKey
           /\ ClaimKey(i, c)[2] = Pallet /\ Pallet # CollectionOwner /\ Pallet # ItemOwner
           /\ \A a : Pallet # AccountNs(a)
           /\ \A j, key : ClaimKey(i, c) # <<j, CollectionOwner, key>>
           /\ \A j : ClaimKey(i, c) # <<j, Pallet, TransferDisabled>>
           /\ \A j, oc : ClaimKey(i, c) = <<j, Pallet, UsedToClaim(oc)>> => i = j /\ c = oc
<1>1. ClaimKey(i, c)[2] = Pallet
  BY DEF ClaimKey
<1>2. ClaimKey(i, c) \in AttributeKey
  BY DEF ClaimKey, AttributeKey, Option, PalletAttributes
<1>3. ClaimKey(i, c) \notin ClientKey
  BY <1>1 DEF ClientKey
<1>4. Pallet # CollectionOwner /\ Pallet # ItemOwner
  BY DEF Pallet, CollectionOwner, ItemOwner
<1>5. ASSUME NEW a PROVE Pallet # AccountNs(a)
  BY DEF Pallet, AccountNs
<1>6. ASSUME NEW j, NEW key PROVE ClaimKey(i, c) # <<j, CollectionOwner, key>>
  BY <1>4 DEF ClaimKey
<1>7. UsedToClaim(c) # TransferDisabled
  BY DEF UsedToClaim, TransferDisabled
<1>8. ASSUME NEW j PROVE ClaimKey(i, c) # <<j, Pallet, TransferDisabled>>
  BY <1>7 DEF ClaimKey
<1>9. ASSUME NEW oc, UsedToClaim(c) = UsedToClaim(oc) PROVE c = oc
  BY <1>9 DEF UsedToClaim
<1>10. ASSUME NEW j, NEW oc, ClaimKey(i, c) = <<j, Pallet, UsedToClaim(oc)>>
       PROVE  i = j /\ c = oc
  BY <1>9, <1>10 DEF ClaimKey
<1> QED
  BY <1>1, <1>2, <1>3, <1>4, <1>5, <1>6, <1>8, <1>10

\* The mark of a claim is written by the claim, and by nobody else.
LEMMA ClaimWrites ==
    ASSUME ClaimsOnly, TypeOK, MarksUnpaid, Next, NEW c \in CollectionId, NEW oc \in CollectionId,
           NEW i \in ItemId, Attribute'[c][ClaimKey(i, oc)] # Attribute[c][ClaimKey(i, oc)]
    PROVE  /\ Attribute'[c][ClaimKey(i, oc)] # None
           /\ Attribute'[c][ClaimKey(i, oc)].account = None
<1> DEFINE k == ClaimKey(i, oc)
<1>1. AttributeWritten(c, k)
  BY ClaimKeys, AttributeWrites
<1>2. /\ Callers["destroy"] = {} /\ Callers["mint_pre_signed"] = {}
      /\ Callers["force_set_attribute"] = {} /\ Root \notin Callers["clear_attribute"]
  BY DEF ClaimsOnly
<1>3. /\ k \in AttributeKey /\ k \notin ClientKey /\ k[2] = Pallet /\ Pallet # CollectionOwner
      /\ Pallet # ItemOwner /\ \A a : Pallet # AccountNs(a)
      /\ \A j, key : k # <<j, CollectionOwner, key>>
      /\ \A j : k # <<j, Pallet, TransferDisabled>>
  BY ClaimKeys
<1> HIDE DEF k
<1>4. ASSUME NEW o \in Callers["clear_attribute"], do_clear_attribute(o, c, k)
      PROVE  FALSE
  <2>1. o \in AccountId
    BY <1>2, ArgumentTypes DEF CallName, Origin
  <2>2. ~ is_valid_namespace(o, c, k)
    BY <1>3 DEF is_valid_namespace
  <2>3. Attribute[c][k] # None
    BY <1>4 DEF do_clear_attribute
  <2>4. Attribute[c][k].account # o
    BY <2>1, <2>3, NoneAssumption DEF MarksUnpaid, k
  <2>5. ~ MayClearAttribute(o, c, k)
    BY <2>2, <2>4 DEF MayClearAttribute
  <2> QED
    BY <1>2, <1>4, <2>5 DEF do_clear_attribute
<1>5. PICK od \in CollectionId : \E o, j, a, owned, p :
         /\ mint_as(o, od, j, a, owned, p)
         /\ CollectionConfigOf[od].mint_settings.mint_type = HolderOf(c)
         /\ k = <<owned, Pallet, UsedToClaim(od)>>
         /\ Attribute'[c][k] # None
  BY <1>1, <1>2, <1>3, <1>4 DEF AttributeWritten
<1>6. Attribute'[c] = [Attribute[c] EXCEPT ![k] = [data |-> 0, account |-> None, amount |-> 0]]
  BY <1>5 DEF mint_as, MarkUsedToClaim
<1>7. Attribute[c] \in [AttributeKey -> Option(Deposited)]
  BY DEF TypeOK, StorageTypeOK
<1>8. Attribute'[c][k] = [data |-> 0, account |-> None, amount |-> 0]
  BY <1>3, <1>6, <1>7
<1> QED
  BY <1>5, <1>8 DEF k

\* The marks of claims stay, and nobody pays for one.
LEMMA MarksStep ==
    ASSUME ClaimsOnly, TypeOK, MarksUnpaid, [Next]_vars
    PROVE  /\ MarksUnpaid'
           /\ \A c, oc \in CollectionId, i \in ItemId :
                 Attribute[c][ClaimKey(i, oc)] # None => Attribute'[c][ClaimKey(i, oc)] # None
<1>1. CASE UNCHANGED vars
  BY <1>1 DEF MarksUnpaid, vars, attributeVars
<1>2. CASE Next
  BY <1>2, ClaimWrites DEF MarksUnpaid
<1> QED
  BY <1>1, <1>2

\* The items of collection c, and the items of hc that were used to claim from c.
Minted(c)  == {i \in ItemId : Item[c][i] # None}
Used(hc, c) == {i \in ItemId : has_system_attribute(hc, i, UsedToClaim(c))}

\* A mint from a collection of the HolderOf type marks an item that had no mark yet.
LEMMA ClaimMarks ==
    ASSUME ClaimsOnly, TypeOK, Next, NEW c \in CollectionId, NEW hc \in CollectionId,
           CollectionConfigOf[c].mint_settings.mint_type = HolderOf(hc),
           NEW i \in ItemId, MintedBy(c, i)
    PROVE  \E j \in ItemId : j \notin Used(hc, c) /\ j \in Used(hc, c)'
<1>1. PICK o, a, owned, p : mint_as(o, c, i, a, owned, p)
  BY DEF ClaimsOnly, MintedBy
<1> DEFINE settings == CollectionConfigOf[c].mint_settings
           new == [data |-> 0, account |-> None, amount |-> 0]
<1>2. MintPermitted(o, c, settings, owned) /\ MarkUsedToClaim(c, settings, owned)
  BY <1>1 DEF mint_as
<1>3. /\ HolderOf(hc) # Issuer /\ HolderOf(hc) # Public
      /\ \A oc : HolderOf(hc) = HolderOf(oc) => hc = oc
  BY DEF HolderOf, Issuer, Public
<1>4. /\ <<o, hc, owned>> \in Account
      /\ ~ has_system_attribute(hc, owned, UsedToClaim(c))
  BY <1>2, <1>3 DEF MintPermitted
<1>5. owned \in ItemId
  BY <1>4 DEF TypeOK, StorageTypeOK
<1>6. new # None
  BY OptionAssumption DEF Deposited, Option
<1>7. Attribute'[hc] = [Attribute[hc] EXCEPT ![ClaimKey(owned, c)] = new]
  BY <1>2 DEF MarkUsedToClaim, ClaimKey
<1> HIDE DEF new
<1>8. Attribute[hc] \in [AttributeKey -> Option(Deposited)]
  BY DEF TypeOK, StorageTypeOK
<1>9. Attribute'[hc][ClaimKey(owned, c)] = new
  BY <1>5, <1>7, <1>8, ClaimKeys
<1> QED
  BY <1>4, <1>5, <1>6, <1>9 DEF Used, has_system_attribute, ClaimKey

\* A step that keeps the mint settings of a collection adds no item without a mark.
LEMMA ClaimsStep ==
    ASSUME ClaimsOnly, TypeOK, OffersNeedItem, ConfigsExist, MarksUnpaid, ClaimsBacked, [Next]_vars
    PROVE  ClaimsBacked'
<1> SUFFICES ASSUME NEW c \in CollectionId, NEW hc \in CollectionId, Collection'[c] # None,
                    CollectionConfigOf'[c].mint_settings.mint_type = HolderOf(hc)
             PROVE  Cardinality(Minted(c)') <= Cardinality(Used(hc, c)')
  BY DEF ClaimsBacked, Minted, Used
<1>1. CASE UNCHANGED vars
  BY <1>1 DEF ClaimsBacked, Minted, Used, has_system_attribute, vars, collectionVars, itemVars,
     attributeVars
<1>2. /\ IsFiniteSet(Minted(c)) /\ IsFiniteSet(Minted(c)')
      /\ IsFiniteSet(Used(hc, c)) /\ IsFiniteSet(Used(hc, c)')
  <2>1. /\ Minted(c) \subseteq ItemId /\ Minted(c)' \subseteq ItemId
        /\ Used(hc, c) \subseteq ItemId /\ Used(hc, c)' \subseteq ItemId
    BY DEF Minted, Used
  <2> QED
    BY <2>1, FinitenessAssumption, FS_Subset
<1>3. ASSUME Next, Collection[c] = None
      PROVE  Cardinality(Minted(c)') <= Cardinality(Used(hc, c)')
  <2>1. ASSUME NEW i \in ItemId, Item'[c][i] # None
        PROVE  FALSE
    <3>1. Item[c][i] = None
      BY <1>3 DEF OffersNeedItem
    <3>2. MintedBy(c, i)
      BY <1>3, <2>1, <3>1, ItemPresence
    <3> QED
      BY <1>3, <3>2, MintChecks DEF CanMint
  <2>2. Minted(c)' = {}
    BY <2>1 DEF Minted
  <2>3. Cardinality(Minted(c)') = 0
    BY <2>2, FS_EmptySet
  <2> QED
    BY <1>2, <2>3, FS_CardinalityType
<1>4. ASSUME Next, Collection[c] # None
      PROVE  Cardinality(Minted(c)') <= Cardinality(Used(hc, c)')
  <2>1. CollectionConfigOf[c].mint_settings.mint_type = HolderOf(hc)
    <3>1. /\ CollectionConfigOf[c] \in CollectionConfig
          /\ CollectionConfigOf \in [CollectionId -> Option(CollectionConfig)]
      BY <1>4 DEF ConfigsExist, TypeOK, StorageTypeOK
    <3>2. CASE \E n \in Nat : \E o : do_set_collection_max_supply(o, c, n)
      BY <3>1, <3>2 DEF do_set_collection_max_supply, CollectionConfig
    <3>3. CASE \E s \in SUBSET CollectionSetting : \E o : do_lock_collection(o, c, s)
      BY <3>1, <3>3 DEF do_lock_collection, CollectionConfig
    <3>4. /\ Callers["force_collection_config"] = {} /\ Callers["update_mint_settings"] = {}
      BY DEF ClaimsOnly
    <3> QED
      BY <1>4, <3>2, <3>3, <3>4, ConfigWrites DEF ConfigWritten
  <2>2. Cardinality(Minted(c)) <= Cardinality(Used(hc, c))
    BY <1>4, <2>1 DEF ClaimsBacked, Minted, Used
  <2>3. Used(hc, c) \subseteq Used(hc, c)'
    BY MarksStep DEF Used, has_system_attribute, ClaimKey
  <2>4. /\ Cardinality(Minted(c)) \in Nat /\ Cardinality(Minted(c)') \in Nat
        /\ Cardinality(Used(hc, c)) \in Nat /\ Cardinality(Used(hc, c)') \in Nat
    BY <1>2, FS_CardinalityType
  <2>5. CASE \A i \in ItemId : Item'[c][i] # None => Item[c][i] # None
    <3>1. Minted(c)' \subseteq Minted(c)
      BY <2>5 DEF Minted
    <3>2. Cardinality(Minted(c)') <= Cardinality(Minted(c))
      BY <1>2, <3>1, FS_Subset
    <3>3. Cardinality(Used(hc, c)) <= Cardinality(Used(hc, c)')
      BY <1>2, <2>3, FS_Subset
    <3> QED
      BY <2>2, <2>4, <3>2, <3>3
  <2>6. CASE \E i \in ItemId : Item[c][i] = None /\ Item'[c][i] # None
    <3>1. PICK i \in ItemId : Item[c][i] = None /\ Item'[c][i] # None
      BY <2>6
    <3>2. MintedBy(c, i)
      BY <1>4, <3>1, ItemPresence
    <3>3. PICK j \in ItemId : j \notin Used(hc, c) /\ j \in Used(hc, c)'
      BY <1>4, <2>1, <3>2, ClaimMarks
    <3>4. Minted(c)' = Minted(c) \cup {i} /\ i \notin Minted(c)
      <4>1. \E v : Item' = [Item EXCEPT ![c][i] = v]
        BY <3>2, MintChecks DEF InsertItem
      <4>2. \A x \in ItemId : x # i => Item'[c][x] = Item[c][x]
        BY <4>1 DEF TypeOK, StorageTypeOK
      <4> QED
        BY <3>1, <4>2 DEF Minted
    <3>5. Cardinality(Minted(c)') = Cardinality(Minted(c)) + 1
      BY <1>2, <3>4, FS_AddElement
    <3>6. Cardinality(Used(hc, c) \cup {j}) = Cardinality(Used(hc, c)) + 1
      BY <1>2, <3>3, FS_AddElement
    <3>7. Cardinality(Used(hc, c) \cup {j}) <= Cardinality(Used(hc, c)')
      BY <1>2, <2>3, <3>3, FS_Subset
    <3> QED
      BY <2>2, <2>4, <3>5, <3>6, <3>7
  <2> QED
    BY <2>5, <2>6
<1> QED
  BY <1>1, <1>3, <1>4

\* Where items are minted by mint only, a collection minted by the holders of another
\* one's items never has more items than there are items used to claim from it: a mark
\* cannot be cleared, moved or made twice, and so no holder claims twice with an item.
THEOREM ClaimsAreBacked ==
    ASSUME ClaimsOnly
    PROVE  Spec => []ClaimsBacked
<1>1. Init => ConfigsExist /\ MarksUnpaid /\ ClaimsBacked
  BY ClaimKeys DEF Init, StorageInit, ConfigsExist, MarksUnpaid, ClaimsBacked
<1>2. TypeOK /\ ConfigsExist /\ [Next]_vars => ConfigsExist'
  BY ConfigsExistStep
<1>3. TypeOK /\ MarksUnpaid /\ [Next]_vars => MarksUnpaid'
  BY MarksStep
<1>4. TypeOK /\ OffersNeedItem /\ ConfigsExist /\ MarksUnpaid /\ ClaimsBacked /\ [Next]_vars
      => ClaimsBacked'
  BY ClaimsStep
<1> QED
  BY <1>1, <1>2, <1>3, <1>4, TypeCorrect, OffersBelongToItems, PTL DEF Spec
=============================================================================
