---------------------------- MODULE NftsTrading ----------------------------
(***************************************************************************)
(* Transfer approvals, sales, tips and atomic swaps of pallet-nfts         *)
(* (features/approvals.rs, buy_sell.rs, atomic_swap.rs).                   *)
(***************************************************************************)
EXTENDS NftsItems

\* The frame of the operations that change an item's approvals only.
ApprovalFrame ==
    UNCHANGED <<collectionVars, Account, ItemConfigOf, ItemMetadataOf, offerVars, attributeVars,
                acceptanceVars, bal, now>>

\* maybe_deadline is relative to the current block, or None.  The approvals are
\* a BoundedBTreeMap: updating an entry always fits.
do_approve_transfer(origin, c, i, delegate, maybe_deadline) ==
    LET approvals == Item[c][i].approvals
        delegates == {a \in AccountId : approvals[a] # None}
    IN  /\ is_pallet_feature_enabled("Approvals")
        /\ Item[c][i] # None
        /\ CollectionConfigOf[c] # None
        /\ CollectionSettingEnabled(c, "TransferableItems")
        /\ MaybeCheck(origin, Item[c][i].owner)
        /\ delegate \in delegates \/ Cardinality(delegates) < ApprovalsLimit
        /\ Item' = [Item EXCEPT ![c][i].approvals[delegate] =
              IF maybe_deadline = None THEN Forever ELSE now + maybe_deadline]
        /\ ApprovalFrame

\* Once the deadline of an approval has passed, anyone may cancel it.
do_cancel_approval(origin, c, i, delegate) ==
    LET deadline == Item[c][i].approvals[delegate] IN
    /\ Item[c][i] # None
    /\ deadline # None
    /\ (deadline \in Nat /\ now > deadline) \/ MaybeCheck(origin, Item[c][i].owner)
    /\ Item' = [Item EXCEPT ![c][i].approvals[delegate] = None]
    /\ ApprovalFrame

do_clear_all_transfer_approvals(origin, c, i) ==
    /\ Item[c][i] # None
    /\ MaybeCheck(origin, Item[c][i].owner)
    /\ Item' = [Item EXCEPT ![c][i].approvals = NoApprovals]
    /\ ApprovalFrame
-----------------------------------------------------------------------------
(* buy_sell.rs *)

\* price is None to withdraw the item from sale.
do_set_price(sender, c, i, price, whitelisted_buyer) ==
    /\ is_pallet_feature_enabled("Trading")
    /\ Item[c][i] # None
    /\ Item[c][i].owner = sender
    /\ CollectionConfigOf[c] # None
    /\ CollectionSettingEnabled(c, "TransferableItems")
    /\ ItemConfigOf[c][i] # None
    /\ ItemSettingEnabled(c, i, "Transferable")
    /\ ItemPriceOf' = [ItemPriceOf EXCEPT ![c][i] =
          IF price = None THEN None ELSE [price |-> price, buyer |-> whitelisted_buyer]]
    /\ UNCHANGED <<collectionVars, itemVars, PendingSwapOf, attributeVars, acceptanceVars, bal, now>>

do_buy_item(buyer, c, i, bid_price) ==
    LET seller == Item[c][i].owner
        info   == ItemPriceOf[c][i]
    IN  /\ is_pallet_feature_enabled("Trading")
        /\ Item[c][i] # None
        /\ seller # buyer
        /\ info # None
        /\ bid_price >= info.price
        /\ info.buyer \in {None, buyer}
        /\ CanTransfer(bal, buyer, seller, info.price)
        /\ bal' = Transfer(bal, buyer, seller, info.price)
        /\ do_transfer(c, i, buyer)

\* One tip; a call with several pays them one by one, and all or none.
do_pay_tip(sender, receiver, amount) ==
    /\ CanTransfer(bal, sender, receiver, amount)
    /\ bal' = Transfer(bal, sender, receiver, amount)
    /\ UNCHANGED <<collectionVars, itemVars, offerVars, attributeVars, acceptanceVars, now>>
-----------------------------------------------------------------------------
(* atomic_swap.rs *)

SwapFrame ==
    UNCHANGED <<collectionVars, itemVars, ItemPriceOf, attributeVars, acceptanceVars, bal, now>>

do_create_swap(caller, c, i, desired_collection, maybe_desired_item, maybe_price, duration) ==
    /\ is_pallet_feature_enabled("Swaps")
    /\ duration <= MaxDeadlineDuration
    /\ Item[c][i] # None
    /\ Item[c][i].owner = caller
    /\ IF maybe_desired_item = None
       THEN Collection[desired_collection] # None
       ELSE Item[desired_collection][maybe_desired_item] # None
    /\ PendingSwapOf' = [PendingSwapOf EXCEPT ![c][i] =
          [desired_collection |-> desired_collection, desired_item |-> maybe_desired_item,
           price |-> maybe_price, deadline |-> now + duration]]
    /\ SwapFrame

\* Before its deadline only the item's owner may cancel a swap, from then on
\* anyone may.
do_cancel_swap(caller, c, i) ==
    /\ PendingSwapOf[c][i] # None
    /\ PendingSwapOf[c][i].deadline > now => Item[c][i] # None /\ Item[c][i].owner = caller
    /\ PendingSwapOf' = [PendingSwapOf EXCEPT ![c][i] = None]
    /\ SwapFrame

\* Mutant: the deadline is not checked.
SwapClaimableLate(swap, sc, si, witness_price) ==
    /\ swap.desired_collection = sc
    /\ swap.price = witness_price
    /\ swap.desired_item \in {None, si}

\* The checks of do_claim_swap on the offer itself: UnknownSwap, DeadlineExpired.
SwapClaimable(swap, sc, si, witness_price) ==
    /\ swap.desired_collection = sc
    /\ swap.price = witness_price
    /\ swap.desired_item \in {None, si}
    /\ now <= swap.deadline

\* The caller sends item si of collection sc for the offered item ri of rc.  The
\* price is paid first; then two do_transfer calls, the second on what the first
\* left, which is the same item when the caller claims its own offer with it.
do_claim_swap(caller, sc, si, rc, ri, witness_price) ==
    LET swap     == PendingSwapOf[rc][ri]
        receiver == Item[rc][ri].owner
        payer    == IF swap.price.direction = "Send" THEN receiver ELSE caller
        payee    == IF swap.price.direction = "Send" THEN caller ELSE receiver
        sent     == MovedItem(Item, sc, si, receiver)
    IN  /\ is_pallet_feature_enabled("Swaps")
        /\ Item[sc][si] # None
        /\ Item[rc][ri] # None
        /\ swap # None
        /\ Item[sc][si].owner = caller
        /\ SwapClaimable(swap, sc, si, witness_price)
        /\ swap.price # None => CanTransfer(bal, payer, payee, swap.price.amount)
        /\ bal' = IF swap.price = None THEN bal
                  ELSE Transfer(bal, payer, payee, swap.price.amount)
        /\ Movable(sc, si)
        /\ Movable(rc, ri)
        /\ Account' = MovedAccount(MovedAccount(Account, sc, si, caller, receiver),
                                   rc, ri, sent[rc][ri].owner, caller)
        /\ Item' = MovedItem(sent, rc, ri, caller)
        /\ ItemPriceOf' = [ItemPriceOf EXCEPT ![sc][si] = None, ![rc][ri] = None]
        /\ PendingSwapOf' = [PendingSwapOf EXCEPT ![sc][si] = None, ![rc][ri] = None]
        /\ UNCHANGED <<collectionVars, ItemConfigOf, ItemMetadataOf, attributeVars,
                       acceptanceVars, now>>
=============================================================================
