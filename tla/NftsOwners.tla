---------------------------- MODULE NftsOwners ----------------------------
(***************************************************************************)
(* Proofs that the redundant ownership records of pallet-nfts agree with   *)
(* the primary ones: consumer references with ownership acceptances, and   *)
(* the two owner indexes with Item and Collection.                         *)
(***************************************************************************)
EXTENDS NftsTypes

\* Only transfer_ownership and set_accept_ownership touch acceptances and consumer
\* references (do_transfer_ownership, do_set_accept_ownership of transfer.rs).
LEMMA AcceptanceFrame ==
    ASSUME TypeOK, Next
    PROVE  \/ UNCHANGED acceptanceVars
           \/ \E origin, a \in AccountId, c \in CollectionId : do_transfer_ownership(origin, c, a)
           \/ \E who \in AccountId, m \in Option(CollectionId) : do_set_accept_ownership(who, m)
<1>1. CASE CollectionStep
  BY <1>1 DEF CollectionStep, do_create_collection, do_destroy_collection, do_set_team,
     do_force_collection_config, do_set_collection_max_supply, do_update_mint_settings,
     do_lock_collection, ConfigFrame, do_force_collection_owner
<1>2. CASE ItemStep
  <2>1. ASSUME NEW caller, NEW mint_to, NEW c, NEW i, NEW owned, NEW p,
              mint_as(caller, c, i, mint_to, owned, p)
        PROVE  UNCHANGED acceptanceVars
    BY <2>1 DEF mint_as, do_mint
  <2>2. ASSUME NEW origin, NEW c, NEW i, NEW mint_to, NEW config,
              do_force_mint(origin, c, i, mint_to, config)
        PROVE  UNCHANGED acceptanceVars
    BY <2>2 DEF do_force_mint, do_mint
  <2>3. ASSUME NEW origin, NEW c, NEW i,
              do_burn(origin, c, i)
        PROVE  UNCHANGED acceptanceVars
    BY <2>3 DEF do_burn
  <2>4. ASSUME NEW origin, NEW dest, NEW c, NEW i,
              transfer_item(origin, c, i, dest)
        PROVE  UNCHANGED acceptanceVars
    BY <2>4 DEF transfer_item, do_transfer
  <2>5. ASSUME NEW origin, NEW c, NEW i,
              redeposit_item(origin, c, i)
        PROVE  UNCHANGED acceptanceVars
    BY <2>5 DEF redeposit_item
  <2>6. ASSUME NEW origin, NEW c, NEW i, NEW s,
              \/ do_lock_item_transfer(origin, c, i)
              \/ do_unlock_item_transfer(origin, c, i)
              \/ do_lock_item_properties(origin, c, i, s)
        PROVE  UNCHANGED acceptanceVars
    BY <2>6 DEF do_lock_item_transfer, do_unlock_item_transfer, do_lock_item_properties, ItemConfigFrame
  <2>7. ASSUME NEW c, NEW i, NEW dest,
              enable_transfer_and_transfer(c, i, dest)
        PROVE  UNCHANGED acceptanceVars
    BY <2>7 DEF enable_transfer_and_transfer
  <2> QED
    BY <1>2, <2>1, <2>2, <2>3, <2>4, <2>5, <2>6, <2>7 DEF ItemStep
<1>3. CASE TradingStep
  <2>1. ASSUME NEW origin, NEW c, NEW i, NEW a, NEW d,
              \/ do_approve_transfer(origin, c, i, a, d)
              \/ do_cancel_approval(origin, c, i, a)
              \/ do_clear_all_transfer_approvals(origin, c, i)
        PROVE  UNCHANGED acceptanceVars
    BY <2>1 DEF do_approve_transfer, do_cancel_approval, do_clear_all_transfer_approvals, ApprovalFrame
  <2>2. ASSUME NEW sender, NEW c, NEW i, NEW price, NEW buyer,
              do_set_price(sender, c, i, price, buyer)
        PROVE  UNCHANGED acceptanceVars
    BY <2>2 DEF do_set_price
  <2>3. ASSUME NEW buyer, NEW c, NEW i, NEW bid,
              do_buy_item(buyer, c, i, bid)
        PROVE  UNCHANGED acceptanceVars
    BY <2>3 DEF do_buy_item, do_transfer
  <2>4. ASSUME NEW sender, NEW receiver, NEW amount,
              do_pay_tip(sender, receiver, amount)
        PROVE  UNCHANGED acceptanceVars
    BY <2>4 DEF do_pay_tip
  <2>5. ASSUME NEW caller, NEW c, NEW i, NEW dc, NEW di, NEW p, NEW d,
              \/ do_create_swap(caller, c, i, dc, di, p, d)
              \/ do_cancel_swap(caller, c, i)
        PROVE  UNCHANGED acceptanceVars
    BY <2>5 DEF do_create_swap, do_cancel_swap, SwapFrame
  <2>6. ASSUME NEW caller, NEW sc, NEW si, NEW rc, NEW ri, NEW p,
              do_claim_swap(caller, sc, si, rc, ri, p)
        PROVE  UNCHANGED acceptanceVars
    BY <2>6 DEF do_claim_swap
  <2> QED
    BY <1>3, <2>1, <2>2, <2>3, <2>4, <2>5, <2>6 DEF TradingStep
<1>4. CASE DataStep
  <2>1. ASSUME NEW origin, NEW c, NEW k, NEW n, NEW depositor,
              do_set_attribute(origin, c, k, n, depositor)
        PROVE  UNCHANGED acceptanceVars
    BY <2>1 DEF do_set_attribute, AttributeFrame
  <2>2. ASSUME NEW set_as, NEW c, NEW k, NEW n,
              do_force_set_attribute(set_as, c, k, n)
        PROVE  UNCHANGED acceptanceVars
    BY <2>2 DEF do_force_set_attribute, AttributeFrame
  <2>3. ASSUME NEW origin, NEW c, NEW k,
              do_clear_attribute(origin, c, k)
        PROVE  UNCHANGED acceptanceVars
    BY <2>3 DEF do_clear_attribute, AttributeFrame
  <2>4. ASSUME NEW origin, NEW c, NEW i, NEW a,
              \/ do_approve_item_attributes(origin, c, i, a)
              \/ do_cancel_item_attributes_approval(origin, c, i, a)
        PROVE  UNCHANGED acceptanceVars
    BY <2>4 DEF do_approve_item_attributes, do_cancel_item_attributes_approval, AttributeFrame
  <2>5. ASSUME NEW origin, NEW c, NEW i, NEW n,
              \/ do_set_item_metadata(origin, c, i, n)
              \/ do_clear_item_metadata(origin, c, i)
        PROVE  UNCHANGED acceptanceVars
    BY <2>5 DEF do_set_item_metadata, do_clear_item_metadata
  <2>6. ASSUME NEW origin, NEW c, NEW n,
              \/ do_set_collection_metadata(origin, c, n)
              \/ do_clear_collection_metadata(origin, c)
        PROVE  UNCHANGED acceptanceVars
    BY <2>6 DEF do_set_collection_metadata, do_clear_collection_metadata, CollectionMetadataFrame
  <2>7. ASSUME NEW mint_to, NEW c, NEW i, NEW data, NEW signer,
              do_mint_pre_signed(mint_to, c, i, data, signer)
        PROVE  UNCHANGED acceptanceVars
    BY <2>7 DEF do_mint_pre_signed
  <2>8. ASSUME NEW origin, NEW c, NEW k, NEW n, NEW d, NEW signer,
              do_set_attributes_pre_signed(origin, c, k, n, d, signer)
        PROVE  UNCHANGED acceptanceVars
    BY <2>8 DEF do_set_attributes_pre_signed, AttributeFrame
  <2> QED
    BY <1>4, <2>1, <2>2, <2>3, <2>4, <2>5, <2>6, <2>7, <2>8 DEF DataStep
<1>5. CASE NextBlock
  BY <1>5 DEF NextBlock
<1> QED
  BY <1>1, <1>2, <1>3, <1>4, <1>5, NextStep

\* Both of them keep the two in step: a reference is taken when an acceptance appears
\* and released when it is withdrawn or consumed.
LEMMA ConsumerStep == TypeOK /\ ConsumerPerAcceptance /\ [Next]_vars => ConsumerPerAcceptance'
<1> SUFFICES ASSUME TypeOK, ConsumerPerAcceptance, [Next]_vars PROVE ConsumerPerAcceptance'
  OBVIOUS
<1>0. /\ OwnershipAcceptance \in [AccountId -> Option(CollectionId)]
      /\ consumers \in [AccountId -> Nat]
      /\ None \notin CollectionId
  BY NoneAssumption DEF TypeOK, StorageTypeOK, CollectionId
<1>1. CASE UNCHANGED acceptanceVars
  BY <1>1 DEF acceptanceVars, ConsumerPerAcceptance
<1>2. ASSUME NEW origin \in AccountId, NEW a \in AccountId, NEW c \in CollectionId,
             do_transfer_ownership(origin, c, a)
      PROVE  ConsumerPerAcceptance'
  BY <1>0, <1>2 DEF do_transfer_ownership, ConsumerPerAcceptance, SatSub
<1>3. ASSUME NEW who \in AccountId, NEW m \in Option(CollectionId), do_set_accept_ownership(who, m)
      PROVE  ConsumerPerAcceptance'
  BY <1>0, <1>3 DEF do_set_accept_ownership, ConsumerPerAcceptance, SatSub, Option
<1>4. CASE UNCHANGED vars
  BY <1>1, <1>4 DEF vars
<1> QED
  BY <1>1, <1>2, <1>3, <1>4, AcceptanceFrame

\* The pallet holds one consumer reference on an account with an open ownership
\* acceptance and none on any other (set_accept_ownership and transfer_ownership).
THEOREM AcceptancesCounted == Spec => []ConsumerPerAcceptance
<1>1. Init => ConsumerPerAcceptance
  BY DEF Init, StorageInit, ConsumerPerAcceptance
<1> QED
  BY <1>1, TypeCorrect, ConsumerStep, PTL DEF Spec
-----------------------------------------------------------------------------
\* The two parts of OwnerIndexExact, the first for any items and index.
IndexOf(items, accounts) ==
    \A a \in AccountId, c \in CollectionId, i \in ItemId :
        <<a, c, i>> \in accounts <=> (items[c][i] # None /\ items[c][i].owner = a)

\* CollectionAccount lists the owners in Collection, and nothing else.
CollectionIndex ==
    \A a \in AccountId, c \in CollectionId :
        <<a, c>> \in CollectionAccount <=> (Collection[c] # None /\ Collection[c].owner = a)

\* OwnerIndexExact is the conjunction of its two parts.
LEMMA IndexParts == OwnerIndexExact <=> IndexOf(Item, Account) /\ CollectionIndex
BY DEF OwnerIndexExact, IndexOf, CollectionIndex

\* What a step that neither moves nor adds nor removes an item does to the items.
ItemsKept ==
    /\ Account' = Account
    /\ \A c \in CollectionId, i \in ItemId :
          /\ Item'[c][i] # None <=> Item[c][i] # None
          /\ Item[c][i] # None => Item'[c][i].owner = Item[c][i].owner

\* The same of collections.
CollectionsKept ==
    /\ CollectionAccount' = CollectionAccount
    /\ \A c \in CollectionId :
          /\ Collection'[c] # None <=> Collection[c] # None
          /\ Collection[c] # None => Collection'[c].owner = Collection[c].owner

\* A step that keeps owners and index keeps the index exact.
LEMMA KeptIndex ==
    /\ IndexOf(Item, Account) /\ ItemsKept => IndexOf(Item', Account')
    /\ CollectionIndex /\ CollectionsKept => CollectionIndex'
BY DEF IndexOf, ItemsKept, CollectionIndex, CollectionsKept

\* Writing details with the same owner keeps a collection's owner.
LEMMA DetailsUpdate ==
    ASSUME TypeOK, NEW c \in CollectionId, NEW d \in CollectionDetails, Collection[c] # None,
           d.owner = Collection[c].owner, Collection' = [Collection EXCEPT ![c] = d],
           CollectionAccount' = CollectionAccount
    PROVE  CollectionsKept
BY OptionAssumption DEF TypeOK, StorageTypeOK, CollectionsKept

\* Writing details with the same owner keeps an item's owner.
LEMMA ItemUpdate ==
    ASSUME TypeOK, NEW c \in CollectionId, NEW i \in ItemId, NEW d \in ItemDetails,
           Item[c][i] # None, d.owner = Item[c][i].owner,
           Item' = [Item EXCEPT ![c][i] = d], Account' = Account
    PROVE  ItemsKept
BY OptionAssumption DEF TypeOK, StorageTypeOK, ItemsKept

\* An index unchanged but for one item, and one that lists the item's owner.
SameElsewhere(accounts, next, c, i) ==
    \A a \in AccountId, oc \in CollectionId, oi \in ItemId :
        oc # c \/ oi # i => (<<a, oc, oi>> \in next <=> <<a, oc, oi>> \in accounts)

\* The index lists an item as its details say.
HeldAs(accounts, c, i, details) ==
    \A a \in AccountId : <<a, c, i>> \in accounts <=> (details # None /\ details.owner = a)

\* An exact index stays exact when one item and its entries change together.
LEMMA UpdateIndex ==
    ASSUME NEW items \in [CollectionId -> [ItemId -> Option(ItemDetails)]], NEW accounts,
           IndexOf(items, accounts), NEW c \in CollectionId, NEW i \in ItemId,
           NEW new \in Option(ItemDetails), NEW next, next = [items EXCEPT ![c][i] = new],
           NEW nextAccounts, SameElsewhere(accounts, nextAccounts, c, i),
           HeldAs(nextAccounts, c, i, new)
    PROVE  IndexOf(next, nextAccounts)
<1> SUFFICES ASSUME NEW a \in AccountId, NEW oc \in CollectionId, NEW oi \in ItemId
             PROVE  <<a, oc, oi>> \in nextAccounts <=>
                    (next[oc][oi] # None /\ next[oc][oi].owner = a)
  BY DEF IndexOf
<1>1. CASE oc = c /\ oi = i
  <2>1. next[c][i] = new
    OBVIOUS
  <2> QED
    BY <1>1, <2>1 DEF HeldAs
<1>2. CASE oc # c \/ oi # i
  <2>1. next[oc][oi] = items[oc][oi]
    BY <1>2
  <2>2. <<a, oc, oi>> \in accounts <=> (items[oc][oi] # None /\ items[oc][oi].owner = a)
    BY DEF IndexOf
  <2> QED
    BY <1>2, <2>1, <2>2 DEF SameElsewhere
<1> QED
  BY <1>1, <1>2

\* do_mint adds the index entry of the new item.
LEMMA InsertIndex ==
    ASSUME TypeOK, IndexOf(Item, Account), NEW c \in CollectionId, NEW i \in ItemId,
           NEW depositor \in AccountId, NEW mint_to \in AccountId, NEW config,
           Item[c][i] = None, InsertItem(c, i, depositor, mint_to, config)
    PROVE  IndexOf(Item', Account')
<1> DEFINE new == [owner |-> mint_to, approvals |-> NoApprovals,
                   deposit_account |-> depositor, deposit_amount |-> ItemDepositOf(c)]
<1>1. new \in ItemDetails /\ new.owner = mint_to
  BY DepositType DEF ItemDetails, NoApprovals
<1>2. Item' = [Item EXCEPT ![c][i] = new] /\ Account' = Account \cup {<<mint_to, c, i>>}
  BY DEF InsertItem
<1>3. new # None /\ new \in Option(ItemDetails)
  BY <1>1, OptionAssumption DEF Option
<1>4. Item \in [CollectionId -> [ItemId -> Option(ItemDetails)]]
  BY DEF TypeOK, StorageTypeOK
<1> HIDE DEF new
<1>5. \A a \in AccountId : <<a, c, i>> \notin Account
  BY DEF IndexOf
<1>6. SameElsewhere(Account, Account', c, i) /\ HeldAs(Account', c, i, new)
  BY <1>1, <1>2, <1>3, <1>5 DEF SameElsewhere, HeldAs
<1> QED
  BY <1>2, <1>3, <1>4, <1>6, UpdateIndex

\* do_transfer replaces the index entry of the item's former owner.
LEMMA MovedIndex ==
    ASSUME NEW items \in [CollectionId -> [ItemId -> Option(ItemDetails)]], NEW accounts,
           IndexOf(items, accounts), NEW c \in CollectionId, NEW i \in ItemId,
           NEW dest \in AccountId, items[c][i] # None
    PROVE  IndexOf(MovedItem(items, c, i, dest),
                   MovedAccount(accounts, c, i, items[c][i].owner, dest))
<1> DEFINE moved == [items[c][i] EXCEPT !.owner = dest, !.approvals = NoApprovals]
           next  == MovedItem(items, c, i, dest)
           index == MovedAccount(accounts, c, i, items[c][i].owner, dest)
<1>1. items[c][i] \in ItemDetails
  BY DEF Option
<1>2. moved \in ItemDetails /\ moved.owner = dest
  BY <1>1 DEF ItemDetails, NoApprovals
<1>3. moved # None /\ moved \in Option(ItemDetails)
  BY <1>2, OptionAssumption DEF Option
<1>4. next = [items EXCEPT ![c][i] = moved]
  BY DEF MovedItem
<1>5. index = (accounts \ {<<items[c][i].owner, c, i>>}) \cup {<<dest, c, i>>}
  BY DEF MovedAccount
<1> HIDE DEF moved, next, index
<1>6. \A a \in AccountId : <<a, c, i>> \in accounts <=> items[c][i].owner = a
  BY DEF IndexOf
<1>7. SameElsewhere(accounts, index, c, i) /\ HeldAs(index, c, i, moved)
  BY <1>2, <1>3, <1>5, <1>6 DEF SameElsewhere, HeldAs
<1>8. IndexOf(next, index)
  BY <1>3, <1>4, <1>7, UpdateIndex
<1> QED
  BY <1>8 DEF next, index

\* do_burn removes the index entry of the burned item.
LEMMA BurnIndex ==
    ASSUME TypeOK, IndexOf(Item, Account), NEW origin, NEW c \in CollectionId, NEW i \in ItemId,
           do_burn(origin, c, i)
    PROVE  IndexOf(Item', Account')
<1>1. /\ Item[c][i] # None /\ Item' = [Item EXCEPT ![c][i] = None]
      /\ Account' = Account \ {<<Item[c][i].owner, c, i>>}
  BY DEF do_burn
<1>2. Item \in [CollectionId -> [ItemId -> Option(ItemDetails)]] /\ None \in Option(ItemDetails)
  BY DEF TypeOK, StorageTypeOK, Option
<1>3. \A a \in AccountId : <<a, c, i>> \in Account <=> Item[c][i].owner = a
  BY <1>1 DEF IndexOf
<1>4. SameElsewhere(Account, Account', c, i) /\ HeldAs(Account', c, i, None)
  BY <1>1, <1>3 DEF SameElsewhere, HeldAs
<1> QED
  BY <1>1, <1>2, <1>4, UpdateIndex

\* do_claim_swap, which moves two items that may be the same, keeps the index exact.
LEMMA ClaimIndex ==
    ASSUME TypeOK, IndexOf(Item, Account), NEW caller \in AccountId, NEW sc \in CollectionId,
           NEW si \in ItemId, NEW rc \in CollectionId, NEW ri \in ItemId, NEW p,
           do_claim_swap(caller, sc, si, rc, ri, p)
    PROVE  IndexOf(Item', Account')
<1> DEFINE receiver == Item[rc][ri].owner
           sent     == MovedItem(Item, sc, si, receiver)
           between  == MovedAccount(Account, sc, si, caller, receiver)
<1>1. /\ Item[sc][si] # None /\ Item[rc][ri] # None
      /\ Item[sc][si].owner = caller
      /\ Account' = MovedAccount(between, rc, ri, sent[rc][ri].owner, caller)
      /\ Item' = MovedItem(sent, rc, ri, caller)
  BY DEF do_claim_swap
<1>2. Item \in [CollectionId -> [ItemId -> Option(ItemDetails)]]
      /\ Account \in SUBSET (AccountId \X CollectionId \X ItemId)
  BY DEF TypeOK, StorageTypeOK
<1>3. receiver \in AccountId
  BY <1>1, <1>2 DEF Option, ItemDetails
<1>4. /\ sent \in [CollectionId -> [ItemId -> Option(ItemDetails)]]
      /\ IndexOf(sent, between)
      /\ sent[rc][ri] # None
  BY <1>1, <1>2, <1>3, MovedType, MovedIndex, MovedItemExists
<1> HIDE DEF sent, between
<1>5. IndexOf(MovedItem(sent, rc, ri, caller),
              MovedAccount(between, rc, ri, sent[rc][ri].owner, caller))
  BY <1>4, MovedIndex
<1> QED
  BY <1>1, <1>5

\* The writes of do_transfer keep the index exact.
LEMMA MoveToIndex ==
    ASSUME TypeOK, IndexOf(Item, Account), NEW c \in CollectionId, NEW i \in ItemId,
           NEW dest \in AccountId, Item[c][i] # None, MoveTo(c, i, dest)
    PROVE  IndexOf(Item', Account')
<1>1. IndexOf(MovedItem(Item, c, i, dest), MovedAccount(Account, c, i, Item[c][i].owner, dest))
  BY MovedIndex DEF TypeOK, StorageTypeOK
<1>2. /\ Item' = MovedItem(Item, c, i, dest)
      /\ Account' = MovedAccount(Account, c, i, Item[c][i].owner, dest)
  BY DEF MoveTo
<1> QED
  BY <1>1, <1>2

\* Every item handler keeps the item index exact.
LEMMA ItemStepIndex ==
    ASSUME TypeOK, IndexOf(Item, Account), ItemStep
    PROVE  IndexOf(Item', Account')
<1>1. ASSUME NEW caller \in AccountId, NEW mint_to \in AccountId, NEW c \in CollectionId,
             NEW i \in ItemId, NEW owned, NEW p, mint_as(caller, c, i, mint_to, owned, p)
      PROVE  IndexOf(Item', Account')
  BY <1>1, InsertIndex DEF mint_as, do_mint, CanMint
<1>2. ASSUME NEW origin, NEW c \in CollectionId, NEW i \in ItemId, NEW mint_to \in AccountId,
             NEW config, do_force_mint(origin, c, i, mint_to, config)
      PROVE  IndexOf(Item', Account')
  <2>1. Collection[c].owner \in AccountId
    BY <1>2 DEF do_force_mint, TypeOK, StorageTypeOK, Option, CollectionDetails
  <2> QED
    BY <1>2, <2>1, InsertIndex DEF do_force_mint, do_mint, CanMint
<1>3. ASSUME NEW origin, NEW c \in CollectionId, NEW i \in ItemId, do_burn(origin, c, i)
      PROVE  IndexOf(Item', Account')
  BY <1>3, BurnIndex
<1>4. ASSUME NEW origin, NEW c \in CollectionId, NEW i \in ItemId, NEW dest \in AccountId,
             transfer_item(origin, c, i, dest)
      PROVE  IndexOf(Item', Account')
  BY <1>4, MoveToIndex DEF transfer_item, do_transfer
<1>5. ASSUME NEW origin, NEW c \in CollectionId, NEW i \in ItemId, redeposit_item(origin, c, i)
      PROVE  IndexOf(Item', Account')
  <2> DEFINE d == [Item[c][i] EXCEPT !.deposit_amount = ItemDepositOf(c)]
  <2>1. Item[c][i] \in ItemDetails /\ Item[c][i] # None
    BY <1>5 DEF redeposit_item, TypeOK, StorageTypeOK, Option
  <2>2. d \in ItemDetails /\ d.owner = Item[c][i].owner
    BY <2>1, DepositType DEF ItemDetails
  <2>3. Item' = [Item EXCEPT ![c][i] = d] /\ Account' = Account
    BY <1>5 DEF redeposit_item
  <2> HIDE DEF d
  <2> QED
    BY <2>1, <2>2, <2>3, ItemUpdate, KeptIndex
<1>6. ASSUME NEW origin, NEW c, NEW i, NEW s,
             \/ do_lock_item_transfer(origin, c, i)
             \/ do_unlock_item_transfer(origin, c, i)
             \/ do_lock_item_properties(origin, c, i, s)
      PROVE  IndexOf(Item', Account')
  BY <1>6 DEF do_lock_item_transfer, do_unlock_item_transfer, do_lock_item_properties,
     ItemConfigFrame
<1>7. ASSUME NEW c \in CollectionId, NEW i \in ItemId, NEW dest \in AccountId,
             enable_transfer_and_transfer(c, i, dest)
      PROVE  IndexOf(Item', Account')
  BY <1>7, MoveToIndex DEF enable_transfer_and_transfer, TransferAllowed
<1> QED
  BY <1>1, <1>2, <1>3, <1>4, <1>5, <1>6, <1>7 DEF ItemStep

\* Every handler of approvals, sales, tips and swaps keeps the item index exact.
LEMMA TradingStepIndex ==
    ASSUME TypeOK, IndexOf(Item, Account), TradingStep
    PROVE  IndexOf(Item', Account')
<1>1. ASSUME NEW c \in CollectionId, NEW i \in ItemId, Item[c][i] # None,
             NEW approvals \in [AccountId -> Nat \cup {Forever, None}],
             Item' = [Item EXCEPT ![c][i].approvals = approvals], Account' = Account
      PROVE  IndexOf(Item', Account')
  <2> DEFINE d == [Item[c][i] EXCEPT !.approvals = approvals]
  <2>1. Item[c][i] \in ItemDetails
    BY <1>1 DEF TypeOK, StorageTypeOK, Option
  <2>2. d \in ItemDetails /\ d.owner = Item[c][i].owner
    BY <2>1 DEF ItemDetails
  <2>3. Item' = [Item EXCEPT ![c][i] = d]
    BY <1>1
  <2> HIDE DEF d
  <2> QED
    BY <1>1, <2>2, <2>3, ItemUpdate, KeptIndex
<1>2. ASSUME NEW c \in CollectionId, NEW i \in ItemId, Item[c][i] # None,
             NEW a \in AccountId, NEW x \in Nat \cup {Forever, None},
             Item' = [Item EXCEPT ![c][i].approvals[a] = x], Account' = Account
      PROVE  IndexOf(Item', Account')
  <2> DEFINE approvals == [Item[c][i].approvals EXCEPT ![a] = x]
  <2>1. Item[c][i] \in ItemDetails
    BY <1>2 DEF TypeOK, StorageTypeOK, Option
  <2>2. approvals \in [AccountId -> Nat \cup {Forever, None}]
    BY <2>1 DEF ItemDetails
  <2>3. Item' = [Item EXCEPT ![c][i].approvals = approvals]
    BY <1>2
  <2> HIDE DEF approvals
  <2> QED
    BY <1>1, <1>2, <2>2, <2>3
<1>3. ASSUME NEW origin, NEW c \in CollectionId, NEW i \in ItemId, NEW a \in AccountId,
             NEW d \in Option(Nat), do_approve_transfer(origin, c, i, a, d)
      PROVE  IndexOf(Item', Account')
  <2> DEFINE x == IF d = None THEN Forever ELSE now + d
  <2>1. x \in Nat \cup {Forever, None}
    BY DEF Option, TypeOK, StorageTypeOK
  <2>2. /\ Item[c][i] # None /\ Account' = Account
        /\ Item' = [Item EXCEPT ![c][i].approvals[a] = x]
    BY <1>3 DEF do_approve_transfer, ApprovalFrame
  <2> HIDE DEF x
  <2> QED
    BY <1>2, <2>1, <2>2
<1>4. ASSUME NEW origin, NEW c \in CollectionId, NEW i \in ItemId, NEW a \in AccountId,
             do_cancel_approval(origin, c, i, a)
      PROVE  IndexOf(Item', Account')
  BY <1>2, <1>4 DEF do_cancel_approval, ApprovalFrame
<1>5. ASSUME NEW origin, NEW c \in CollectionId, NEW i \in ItemId,
             do_clear_all_transfer_approvals(origin, c, i)
      PROVE  IndexOf(Item', Account')
  <2>1. NoApprovals \in [AccountId -> Nat \cup {Forever, None}]
    BY DEF NoApprovals
  <2> QED
    BY <1>1, <1>5, <2>1 DEF do_clear_all_transfer_approvals, ApprovalFrame
<1>6. ASSUME NEW sender, NEW c, NEW i, NEW price, NEW buyer,
             do_set_price(sender, c, i, price, buyer)
      PROVE  IndexOf(Item', Account')
  BY <1>6 DEF do_set_price, itemVars
<1>7. ASSUME NEW buyer \in AccountId, NEW c \in CollectionId, NEW i \in ItemId, NEW bid,
             do_buy_item(buyer, c, i, bid)
      PROVE  IndexOf(Item', Account')
  BY <1>7, MoveToIndex DEF do_buy_item, do_transfer
<1>8. ASSUME NEW sender, NEW receiver, NEW amount, do_pay_tip(sender, receiver, amount)
      PROVE  IndexOf(Item', Account')
  BY <1>8 DEF do_pay_tip, itemVars
<1>9. ASSUME NEW caller, NEW c, NEW i, NEW dc, NEW di, NEW p, NEW d,
             \/ do_create_swap(caller, c, i, dc, di, p, d)
             \/ do_cancel_swap(caller, c, i)
      PROVE  IndexOf(Item', Account')
  BY <1>9 DEF do_create_swap, do_cancel_swap, SwapFrame, itemVars
<1>10. ASSUME NEW caller \in AccountId, NEW sc \in CollectionId, NEW si \in ItemId,
             NEW rc \in CollectionId, NEW ri \in ItemId, NEW p,
             do_claim_swap(caller, sc, si, rc, ri, p)
      PROVE  IndexOf(Item', Account')
  BY <1>10, ClaimIndex
<1> QED
  BY <1>3, <1>4, <1>5, <1>6, <1>7, <1>8, <1>9, <1>10 DEF TradingStep

\* Every step keeps the item index exact.
LEMMA ItemIndexStep ==
    ASSUME TypeOK, IndexOf(Item, Account), Next
    PROVE  IndexOf(Item', Account')
<1>1. CASE CollectionStep
  <2>1. Item' = Item /\ Account' = Account
    BY <1>1 DEF CollectionStep, do_create_collection, do_destroy_collection, do_set_team,
       do_force_collection_config, do_set_collection_max_supply, do_update_mint_settings,
       do_lock_collection, ConfigFrame, do_force_collection_owner, do_transfer_ownership,
       MoveCollection, do_set_accept_ownership, itemVars
  <2> QED
    BY <2>1
<1>2. CASE DataStep
  <2>1. ASSUME NEW origin, NEW c, NEW k, NEW n, NEW depositor,
               do_set_attribute(origin, c, k, n, depositor)
        PROVE  Item' = Item /\ Account' = Account
    BY <2>1 DEF do_set_attribute, AttributeFrame, itemVars
  <2>2. ASSUME NEW set_as, NEW c, NEW k, NEW n, do_force_set_attribute(set_as, c, k, n)
        PROVE  Item' = Item /\ Account' = Account
    BY <2>2 DEF do_force_set_attribute, AttributeFrame, itemVars
  <2>3. ASSUME NEW origin, NEW c, NEW k, do_clear_attribute(origin, c, k)
        PROVE  Item' = Item /\ Account' = Account
    BY <2>3 DEF do_clear_attribute, AttributeFrame, itemVars
  <2>4. ASSUME NEW origin, NEW c, NEW i, NEW a,
               \/ do_approve_item_attributes(origin, c, i, a)
               \/ do_cancel_item_attributes_approval(origin, c, i, a)
        PROVE  Item' = Item /\ Account' = Account
    BY <2>4 DEF do_approve_item_attributes, do_cancel_item_attributes_approval, AttributeFrame,
       itemVars
  <2>5. ASSUME NEW origin, NEW c, NEW i, NEW n, do_set_item_metadata(origin, c, i, n)
        PROVE  Item' = Item /\ Account' = Account
    BY <2>5 DEF do_set_item_metadata
  <2>6. ASSUME NEW origin, NEW c, NEW i, do_clear_item_metadata(origin, c, i)
        PROVE  Item' = Item /\ Account' = Account
    BY <2>6 DEF do_clear_item_metadata
  <2>7. ASSUME NEW origin, NEW c, NEW n, do_set_collection_metadata(origin, c, n)
        PROVE  Item' = Item /\ Account' = Account
    BY <2>7 DEF do_set_collection_metadata, CollectionMetadataFrame, itemVars
  <2>8. ASSUME NEW origin, NEW c, do_clear_collection_metadata(origin, c)
        PROVE  Item' = Item /\ Account' = Account
    BY <2>8 DEF do_clear_collection_metadata, CollectionMetadataFrame, itemVars
  <2>9. ASSUME NEW mint_to \in AccountId, NEW c \in CollectionId, NEW i \in ItemId, NEW data,
               NEW signer, do_mint_pre_signed(mint_to, c, i, data, signer)
        PROVE  IndexOf(Item', Account')
    BY <2>9, InsertIndex DEF do_mint_pre_signed, CanMint
  <2>10. ASSUME NEW origin, NEW c, NEW k, NEW n, NEW d, NEW signer,
                do_set_attributes_pre_signed(origin, c, k, n, d, signer)
         PROVE  Item' = Item /\ Account' = Account
    BY <2>10 DEF do_set_attributes_pre_signed, AttributeFrame, itemVars
  <2>11. Item' = Item /\ Account' = Account => IndexOf(Item', Account')
    OBVIOUS
  <2> QED
    BY <1>2, <2>1, <2>2, <2>3, <2>4, <2>5, <2>6, <2>7, <2>8, <2>9, <2>10, <2>11 DEF DataStep
<1>3. CASE NextBlock
  BY <1>3 DEF NextBlock, itemVars
<1> QED
  BY <1>1, <1>2, <1>3, ItemStepIndex, TradingStepIndex, NextStep

\* do_create_collection adds the index entry of the new collection.
LEMMA CreateIndex ==
    ASSUME TypeOK, CollectionIndex, NEW owner \in AccountId, NEW admin, NEW config,
           NEW deposit \in Nat, do_create_collection(NextId, owner, admin, config, deposit)
    PROVE  CollectionIndex'
<1> DEFINE c   == NextId
           new == [owner |-> owner, owner_deposit |-> deposit, items |-> 0,
                   item_metadatas |-> 0, item_configs |-> 0, attributes |-> 0]
<1>1. new \in CollectionDetails /\ new.owner = owner /\ new # None
  BY StorageAssumption, OptionAssumption DEF CollectionDetails, u32
<1>2. c \in CollectionId /\ Collection \in [CollectionId -> Option(CollectionDetails)]
  BY StorageAssumption DEF NextId, Option, CollectionId, TypeOK, StorageTypeOK
<1>3. /\ Collection[c] = None /\ Collection' = [Collection EXCEPT ![c] = new]
      /\ CollectionAccount' = CollectionAccount \cup {<<owner, c>>}
  BY DEF do_create_collection
<1> HIDE DEF c, new
<1> QED
  BY <1>1, <1>2, <1>3 DEF CollectionIndex

\* do_destroy_collection removes the index entry of the collection.
LEMMA DestroyIndex ==
    ASSUME TypeOK, CollectionIndex, NEW origin, NEW c \in CollectionId,
           do_destroy_collection(origin, c)
    PROVE  CollectionIndex'
<1>1. /\ Collection[c] # None /\ Collection' = [Collection EXCEPT ![c] = None]
      /\ CollectionAccount' = CollectionAccount \ {<<Collection[c].owner, c>>}
  BY DEF do_destroy_collection
<1>2. Collection \in [CollectionId -> Option(CollectionDetails)]
  BY DEF TypeOK, StorageTypeOK
<1> QED
  BY <1>1, <1>2 DEF CollectionIndex

\* Both ownership transfers replace the index entry of the former owner.
LEMMA MoveCollectionIndex ==
    ASSUME TypeOK, CollectionIndex, NEW c \in CollectionId, NEW new_owner \in AccountId,
           Collection[c] # None, MoveCollection(c, new_owner)
    PROVE  CollectionIndex'
<1> DEFINE moved == [Collection[c] EXCEPT !.owner = new_owner]
<1>1. Collection[c] \in CollectionDetails
  BY DEF TypeOK, StorageTypeOK, Option
<1>2. moved \in CollectionDetails /\ moved.owner = new_owner
  BY <1>1 DEF CollectionDetails
<1>3. moved # None
  BY <1>2, OptionAssumption
<1>4. /\ Collection' = [Collection EXCEPT ![c] = moved]
      /\ CollectionAccount' =
            (CollectionAccount \ {<<Collection[c].owner, c>>}) \cup {<<new_owner, c>>}
  BY DEF MoveCollection
<1>5. Collection \in [CollectionId -> Option(CollectionDetails)]
  BY DEF TypeOK, StorageTypeOK
<1> HIDE DEF moved
<1> QED
  BY <1>2, <1>3, <1>4, <1>5 DEF CollectionIndex

\* Every collection handler keeps the collection index exact.
LEMMA CollectionStepIndex ==
    ASSUME TypeOK, CollectionIndex, CollectionStep
    PROVE  CollectionIndex'
<1>1. ASSUME UNCHANGED <<Collection, CollectionAccount>>
      PROVE  CollectionIndex'
  BY <1>1 DEF CollectionIndex
<1>2. ASSUME NEW origin, NEW c, NEW team, do_set_team(origin, c, team)
      PROVE  CollectionIndex'
  BY <1>1, <1>2 DEF do_set_team
<1>3. ASSUME NEW origin, NEW c,
             \/ \E config \in CollectionConfig : do_force_collection_config(c, config)
             \/ \E n \in Nat : do_set_collection_max_supply(origin, c, n)
             \/ \E s \in MintSettings : do_update_mint_settings(origin, c, s)
             \/ \E s \in SUBSET CollectionSetting : do_lock_collection(origin, c, s)
      PROVE  CollectionIndex'
  BY <1>1, <1>3 DEF do_force_collection_config, do_set_collection_max_supply,
     do_update_mint_settings, do_lock_collection, ConfigFrame
<1>4. ASSUME NEW origin, NEW c \in CollectionId, NEW a \in AccountId,
             do_transfer_ownership(origin, c, a)
      PROVE  CollectionIndex'
  BY <1>4, MoveCollectionIndex DEF do_transfer_ownership
<1>5. ASSUME NEW c \in CollectionId, NEW a \in AccountId, do_force_collection_owner(c, a)
      PROVE  CollectionIndex'
  BY <1>5, MoveCollectionIndex DEF do_force_collection_owner
<1>6. ASSUME NEW who, NEW m, do_set_accept_ownership(who, m)
      PROVE  CollectionIndex'
  BY <1>1, <1>6 DEF do_set_accept_ownership, collectionVars
<1> QED
  BY <1>2, <1>3, <1>4, <1>5, <1>6, CreateIndex, DestroyIndex DEF CollectionStep

\* No item handler creates, removes or moves a collection.
LEMMA ItemStepCollections ==
    ASSUME TypeOK, ItemStep
    PROVE  CollectionsKept
<1>1. ASSUME NEW c \in CollectionId, NEW i \in ItemId, NEW depositor \in AccountId,
             NEW mint_to, NEW config, NEW b \in BalanceSheet(AccountId),
             do_mint(c, i, depositor, mint_to, config, b)
      PROVE  CollectionsKept
  BY <1>1, MintedType, DetailsUpdate DEF do_mint, CanMint
<1>2. ASSUME UNCHANGED <<Collection, CollectionAccount>>
      PROVE  CollectionsKept
  BY <1>2 DEF CollectionsKept
<1>3. ASSUME NEW caller \in AccountId, NEW mint_to \in AccountId, NEW c \in CollectionId,
             NEW i \in ItemId, NEW owned, NEW p, mint_as(caller, c, i, mint_to, owned, p)
      PROVE  CollectionsKept
  <2> DEFINE settings == CollectionConfigOf[c].mint_settings
             price    == IF settings.price = None THEN 0 ELSE settings.price
             paid     == Transfer(bal, caller, Collection[c].owner, price)
  <2>1. /\ CollectionConfigOf[c] # None /\ Collection[c] # None
        /\ CanTransfer(bal, caller, Collection[c].owner, price)
        /\ do_mint(c, i, caller, mint_to, settings.default_item_settings, paid)
    BY <1>3 DEF mint_as
  <2>2. Collection[c].owner \in AccountId /\ settings \in MintSettings
    BY <2>1 DEF TypeOK, StorageTypeOK, Option, CollectionDetails, CollectionConfig
  <2>3. price \in Nat
    BY <2>2 DEF MintSettings, Option
  <2> HIDE DEF settings, price
  <2>4. paid \in BalanceSheet(AccountId)
    BY <2>1, <2>2, <2>3, TransferType DEF TypeOK, StorageTypeOK
  <2> HIDE DEF paid
  <2> QED
    BY <1>1, <2>1, <2>4
<1>4. ASSUME NEW origin, NEW c \in CollectionId, NEW i \in ItemId, NEW mint_to, NEW config,
             do_force_mint(origin, c, i, mint_to, config)
      PROVE  CollectionsKept
  <2>1. Collection[c].owner \in AccountId /\ bal \in BalanceSheet(AccountId)
    BY <1>4 DEF do_force_mint, TypeOK, StorageTypeOK, Option, CollectionDetails
  <2> QED
    BY <1>1, <1>4, <2>1 DEF do_force_mint
<1>5. ASSUME NEW origin, NEW c \in CollectionId, NEW i \in ItemId, do_burn(origin, c, i)
      PROVE  CollectionsKept
  <2> DEFINE d == IF BurnsMetadata(c, i) THEN ClearedMetadataDetails(c, i) ELSE Collection[c]
             configs == IF ItemConfigOf[c][i] = {} THEN SatDec(d.item_configs) ELSE d.item_configs
             items == SatDec(d.items)
             left == [d EXCEPT !.items = items, !.item_configs = configs]
  <2>1. /\ Collection[c] # None /\ Collection' = [Collection EXCEPT ![c] = left]
        /\ CollectionAccount' = CollectionAccount
    BY <1>5 DEF do_burn
  <2>2. Collection[c] \in CollectionDetails /\ bal \in BalanceSheet(AccountId)
    BY <2>1 DEF TypeOK, StorageTypeOK, Option
  <2>3. d \in CollectionDetails /\ d.owner = Collection[c].owner
    BY <2>1, <2>2, ClearedMetadataType DEF BurnsMetadata
  <2> HIDE DEF d
  <2>4. configs \in u32 /\ items \in u32
    BY <2>3, CounterType DEF CollectionDetails
  <2> HIDE DEF configs, items
  <2>5. left \in CollectionDetails /\ left.owner = Collection[c].owner
    BY <2>3, <2>4 DEF CollectionDetails
  <2> HIDE DEF left
  <2> QED
    BY <2>1, <2>5, DetailsUpdate
<1>6. ASSUME NEW origin, NEW dest, NEW c, NEW i, transfer_item(origin, c, i, dest)
      PROVE  CollectionsKept
  BY <1>2, <1>6 DEF transfer_item, do_transfer, collectionVars
<1>7. ASSUME NEW origin, NEW c, NEW i, redeposit_item(origin, c, i)
      PROVE  CollectionsKept
  BY <1>2, <1>7 DEF redeposit_item, collectionVars
<1>8. ASSUME NEW origin, NEW c, NEW i, NEW s,
             \/ do_lock_item_transfer(origin, c, i)
             \/ do_unlock_item_transfer(origin, c, i)
             \/ do_lock_item_properties(origin, c, i, s)
      PROVE  CollectionsKept
  BY <1>2, <1>8 DEF do_lock_item_transfer, do_unlock_item_transfer, do_lock_item_properties,
     ItemConfigFrame, collectionVars
<1>9. ASSUME NEW c \in CollectionId, NEW i, NEW dest, enable_transfer_and_transfer(c, i, dest)
      PROVE  CollectionsKept
  <2> DEFINE count == SatDec(Collection[c].attributes)
             d == [Collection[c] EXCEPT !.attributes = count]
  <2>1. /\ Collection[c] # None /\ Collection' = [Collection EXCEPT ![c] = d]
        /\ CollectionAccount' = CollectionAccount
    BY <1>9 DEF enable_transfer_and_transfer, TransferAllowed
  <2>2. Collection[c] \in CollectionDetails
    BY <2>1 DEF TypeOK, StorageTypeOK, Option
  <2>3. count \in u32
    BY <2>2, CounterType DEF CollectionDetails
  <2> HIDE DEF count
  <2>4. d \in CollectionDetails /\ d.owner = Collection[c].owner
    BY <2>2, <2>3 DEF CollectionDetails
  <2> HIDE DEF d
  <2> QED
    BY <2>1, <2>4, DetailsUpdate
<1> QED
  BY <1>3, <1>4, <1>5, <1>6, <1>7, <1>8, <1>9 DEF ItemStep

\* No handler of approvals, sales, tips and swaps does.
LEMMA TradingStepCollections ==
    ASSUME TradingStep
    PROVE  CollectionsKept
<1>1. ASSUME UNCHANGED collectionVars
      PROVE  CollectionsKept
  BY <1>1 DEF CollectionsKept, collectionVars
<1>2. ASSUME NEW origin, NEW c, NEW i, NEW a, NEW d, do_approve_transfer(origin, c, i, a, d)
      PROVE  CollectionsKept
  BY <1>1, <1>2 DEF do_approve_transfer, ApprovalFrame
<1>3. ASSUME NEW origin, NEW c, NEW i, NEW a,
             \/ do_cancel_approval(origin, c, i, a)
             \/ do_clear_all_transfer_approvals(origin, c, i)
      PROVE  CollectionsKept
  BY <1>1, <1>3 DEF do_cancel_approval, do_clear_all_transfer_approvals, ApprovalFrame
<1>4. ASSUME NEW sender, NEW c, NEW i, NEW price, NEW buyer,
             do_set_price(sender, c, i, price, buyer)
      PROVE  CollectionsKept
  BY <1>1, <1>4 DEF do_set_price
<1>5. ASSUME NEW buyer, NEW c, NEW i, NEW bid, do_buy_item(buyer, c, i, bid)
      PROVE  CollectionsKept
  BY <1>1, <1>5 DEF do_buy_item, do_transfer
<1>6. ASSUME NEW sender, NEW receiver, NEW amount, do_pay_tip(sender, receiver, amount)
      PROVE  CollectionsKept
  BY <1>1, <1>6 DEF do_pay_tip
<1>7. ASSUME NEW caller, NEW c, NEW i, NEW dc, NEW di, NEW p, NEW d,
             \/ do_create_swap(caller, c, i, dc, di, p, d)
             \/ do_cancel_swap(caller, c, i)
      PROVE  CollectionsKept
  BY <1>1, <1>7 DEF do_create_swap, do_cancel_swap, SwapFrame
<1>8. ASSUME NEW caller, NEW sc, NEW si, NEW rc, NEW ri, NEW p,
             do_claim_swap(caller, sc, si, rc, ri, p)
      PROVE  CollectionsKept
  BY <1>1, <1>8 DEF do_claim_swap
<1> QED
  BY <1>2, <1>3, <1>4, <1>5, <1>6, <1>7, <1>8 DEF TradingStep

\* No handler of attributes, metadata and pre-signed calls does.
LEMMA DataStepCollections ==
    ASSUME TypeOK, DataStep
    PROVE  CollectionsKept
<1>1. ASSUME NEW c \in CollectionId, Collection[c] # None,
             NEW count \in u32, NEW deposit \in Nat, CollectionAccount' = CollectionAccount,
             Collection' = [Collection EXCEPT ![c] =
                [Collection[c] EXCEPT !.attributes = count, !.owner_deposit = deposit]]
      PROVE  CollectionsKept
  <2> DEFINE d == [Collection[c] EXCEPT !.attributes = count, !.owner_deposit = deposit]
  <2>1. Collection[c] \in CollectionDetails
    BY <1>1 DEF TypeOK, StorageTypeOK, Option
  <2>2. d \in CollectionDetails /\ d.owner = Collection[c].owner
    BY <2>1 DEF CollectionDetails
  <2>3. Collection' = [Collection EXCEPT ![c] = d]
    BY <1>1
  <2> HIDE DEF d
  <2> QED
    BY <1>1, <2>2, <2>3, DetailsUpdate
<1>2. \A c \in CollectionId : Collection[c] # None =>
         /\ Collection[c] \in CollectionDetails
         /\ Collection[c].attributes \in u32 /\ Collection[c].owner_deposit \in Nat
  BY DEF TypeOK, StorageTypeOK, Option, CollectionDetails
<1>3. ASSUME NEW origin, NEW c \in CollectionId, NEW k \in AttributeKey, NEW n \in Nat,
             NEW depositor \in AccountId, do_set_attribute(origin, c, k, n, depositor)
      PROVE  CollectionsKept
  <2> DEFINE set == SetAttribute(c, k, n, depositor, bal, Collection[c])
  <2>1. /\ Collection[c] # None /\ set.ok /\ Collection' = [Collection EXCEPT ![c] = set.details]
        /\ CollectionAccount' = CollectionAccount
    BY <1>3 DEF do_set_attribute, AttributeFrame
  <2>2. set.details \in CollectionDetails /\ set.details.owner = Collection[c].owner
    BY <1>2, <2>1, SetAttributeType DEF TypeOK, StorageTypeOK
  <2> HIDE DEF set
  <2> QED
    BY <2>1, <2>2, DetailsUpdate
<1>4. ASSUME NEW set_as, NEW c \in CollectionId, NEW k, NEW n,
             do_force_set_attribute(set_as, c, k, n)
      PROVE  CollectionsKept
  <2> DEFINE count == IF Attribute[c][k] = None THEN SatInc(Collection[c].attributes)
                      ELSE Collection[c].attributes
  <2>1. /\ Collection[c] # None /\ CollectionAccount' = CollectionAccount
        /\ Collection' = [Collection EXCEPT ![c].attributes = count]
    BY <1>4 DEF do_force_set_attribute, AttributeFrame
  <2>2. count \in u32
    BY <1>2, <2>1, CounterType
  <2> HIDE DEF count
  <2>3. Collection[c] \in CollectionDetails
    BY <1>2, <2>1
  <2>4. [Collection[c] EXCEPT !.attributes = count] \in CollectionDetails
        /\ [Collection[c] EXCEPT !.attributes = count].owner = Collection[c].owner
    BY <2>2, <2>3 DEF CollectionDetails
  <2> QED
    BY <2>1, <2>4, DetailsUpdate
<1>5. ASSUME NEW origin, NEW c \in CollectionId, NEW k \in AttributeKey,
             do_clear_attribute(origin, c, k)
      PROVE  CollectionsKept
  <2> DEFINE byOwner == Attribute[c][k].account = None /\ k[2] = CollectionOwner
             count   == SatDec(Collection[c].attributes)
             deposit == IF byOwner
                        THEN SatSub(Collection[c].owner_deposit, Attribute[c][k].amount)
                        ELSE Collection[c].owner_deposit
  <2>1. /\ Collection[c] # None /\ Attribute[c][k] # None
        /\ CollectionAccount' = CollectionAccount
        /\ Collection' = [Collection EXCEPT ![c] =
              [Collection[c] EXCEPT !.attributes = count, !.owner_deposit = deposit]]
    BY <1>5 DEF do_clear_attribute, AttributeFrame
  <2>2. Attribute[c][k].amount \in Nat
    BY <2>1 DEF TypeOK, StorageTypeOK, Option, Deposited
  <2>3. count \in u32
    BY <1>2, <2>1, CounterType
  <2> HIDE DEF byOwner, count
  <2>4. deposit \in Nat
    BY <1>2, <2>1, <2>2, SatSubType
  <2> HIDE DEF deposit
  <2> QED
    BY <1>1, <2>1, <2>3, <2>4
<1>6. ASSUME NEW origin, NEW c, NEW i, NEW a,
             \/ do_approve_item_attributes(origin, c, i, a)
             \/ do_cancel_item_attributes_approval(origin, c, i, a)
      PROVE  CollectionsKept
  BY <1>6 DEF do_approve_item_attributes, do_cancel_item_attributes_approval, AttributeFrame,
     CollectionsKept
<1>7. ASSUME NEW origin, NEW c \in CollectionId, NEW i \in ItemId, NEW n \in Nat,
             do_set_item_metadata(origin, c, i, n)
      PROVE  CollectionsKept
  <2> DEFINE set == SetItemMetadata(c, i, n, origin = Root, None, bal, Collection[c])
  <2>1. /\ Collection[c] # None /\ set.ok /\ Collection' = [Collection EXCEPT ![c] = set.details]
        /\ CollectionAccount' = CollectionAccount
    BY <1>7 DEF do_set_item_metadata
  <2>2. None \in Option(AccountId)
    BY DEF Option
  <2>3. set.details \in CollectionDetails /\ set.details.owner = Collection[c].owner
    <3>1. bal \in BalanceSheet(AccountId) /\ Collection[c] \in CollectionDetails
      BY <1>2, <2>1 DEF TypeOK, StorageTypeOK
    <3> QED
      BY <2>1, <2>2, <3>1, SetItemMetadataType
  <2> HIDE DEF set
  <2> QED
    BY <2>1, <2>3, DetailsUpdate
<1>8. ASSUME NEW origin, NEW c \in CollectionId, NEW i \in ItemId,
             do_clear_item_metadata(origin, c, i)
      PROVE  CollectionsKept
  <2>1. /\ Collection[c] # None /\ ItemMetadataOf[c][i] # None
        /\ Collection' = [Collection EXCEPT ![c] = ClearedMetadataDetails(c, i)]
        /\ CollectionAccount' = CollectionAccount
    BY <1>8 DEF do_clear_item_metadata
  <2>2. bal \in BalanceSheet(AccountId)
    BY DEF TypeOK, StorageTypeOK
  <2> QED
    BY <2>1, <2>2, ClearedMetadataType, DetailsUpdate
<1>9. ASSUME NEW c \in CollectionId, Collection[c] # None, NEW deposit \in Nat,
             CollectionAccount' = CollectionAccount,
             Collection' = [Collection EXCEPT ![c].owner_deposit = deposit]
      PROVE  CollectionsKept
  <2>1. Collection[c] \in CollectionDetails
    BY <1>2, <1>9
  <2>2. [Collection[c] EXCEPT !.owner_deposit = deposit] \in CollectionDetails
        /\ [Collection[c] EXCEPT !.owner_deposit = deposit].owner = Collection[c].owner
    BY <2>1 DEF CollectionDetails
  <2> QED
    BY <1>9, <2>2, DetailsUpdate
<1>10. ASSUME NEW origin, NEW c \in CollectionId, NEW n \in Nat,
              do_set_collection_metadata(origin, c, n)
       PROVE  CollectionsKept
  <2> DEFINE old       == CollectionMetadataOf[c]
             oldAmount == IF old = None THEN 0 ELSE old.deposit
             new       == IF origin # Root /\ CollectionSettingEnabled(c, "DepositRequired")
                          THEN MetadataDeposit(n) ELSE 0
             deposit   == SatSub(Collection[c].owner_deposit, oldAmount) + new
  <2>1. /\ Collection[c] # None /\ CollectionAccount' = CollectionAccount
        /\ Collection' = [Collection EXCEPT ![c].owner_deposit = deposit]
    BY <1>10 DEF do_set_collection_metadata, CollectionMetadataFrame
  <2>2. oldAmount \in Nat
    BY DEF TypeOK, StorageTypeOK, Option, CollectionMetadata
  <2>3. new \in Nat
    BY DepositType
  <2> HIDE DEF oldAmount, new
  <2>4. deposit \in Nat
    BY <1>2, <2>1, <2>2, <2>3, SatSubType
  <2> HIDE DEF deposit
  <2> QED
    BY <1>9, <2>1, <2>4
<1>11. ASSUME NEW origin, NEW c \in CollectionId, do_clear_collection_metadata(origin, c)
       PROVE  CollectionsKept
  <2> DEFINE deposit == SatSub(Collection[c].owner_deposit, CollectionMetadataOf[c].deposit)
  <2>1. /\ Collection[c] # None /\ CollectionAccount' = CollectionAccount
        /\ CollectionMetadataOf[c] # None
        /\ Collection' = [Collection EXCEPT ![c].owner_deposit = deposit]
    BY <1>11 DEF do_clear_collection_metadata, CollectionMetadataFrame
  <2>2. CollectionMetadataOf[c].deposit \in Nat
    BY <2>1 DEF TypeOK, StorageTypeOK, Option, CollectionMetadata
  <2>3. deposit \in Nat
    BY <1>2, <2>1, <2>2, SatSubType
  <2> HIDE DEF deposit
  <2> QED
    BY <1>9, <2>1, <2>3
<1>12. ASSUME NEW mint_to \in AccountId, NEW c \in CollectionId, NEW i \in ItemId,
              NEW data \in PreSignedMint, NEW signer,
              do_mint_pre_signed(mint_to, c, i, data, signer)
       PROVE  CollectionsKept
  <2>1. PICK d : Collection' = [Collection EXCEPT ![c] = d]
    BY <1>12 DEF do_mint_pre_signed
  <2>2. Collection[c] # None /\ CollectionAccount' = CollectionAccount
    BY <1>12 DEF do_mint_pre_signed
  <2>3. Collection'[c] = d
    BY <2>1 DEF TypeOK, StorageTypeOK
  <2>4. d \in CollectionDetails /\ d.owner = Collection[c].owner
    BY <1>12, <2>3, mint_pre_signed_Type
  <2> QED
    BY <2>1, <2>2, <2>4, DetailsUpdate
<1>13. ASSUME NEW origin \in AccountId, NEW c \in CollectionId, NEW k \in AttributeKey,
              NEW n \in Nat, NEW d, NEW signer,
              do_set_attributes_pre_signed(origin, c, k, n, d, signer)
       PROVE  CollectionsKept
  <2> DEFINE set == SetAttribute(c, k, n, origin, bal, Collection[c])
  <2>1. /\ Collection[c] # None /\ set.ok /\ Collection' = [Collection EXCEPT ![c] = set.details]
        /\ CollectionAccount' = CollectionAccount
    BY <1>13 DEF do_set_attributes_pre_signed, AttributeFrame
  <2>2. set.details \in CollectionDetails /\ set.details.owner = Collection[c].owner
    BY <1>2, <2>1, SetAttributeType DEF TypeOK, StorageTypeOK
  <2> HIDE DEF set
  <2> QED
    BY <2>1, <2>2, DetailsUpdate
<1> QED
  BY <1>3, <1>4, <1>5, <1>6, <1>7, <1>8, <1>10, <1>11, <1>12, <1>13 DEF DataStep

\* Every step keeps both indexes exact, given the types.
LEMMA OwnerIndexStep == TypeOK /\ OwnerIndexExact /\ [Next]_vars => OwnerIndexExact'
<1> SUFFICES ASSUME TypeOK, OwnerIndexExact, [Next]_vars
             PROVE  OwnerIndexExact'
  OBVIOUS
<1>1. IndexOf(Item, Account) /\ CollectionIndex
  BY IndexParts
<1>2. CASE Next
  <2>1. IndexOf(Item', Account')
    BY <1>1, <1>2, ItemIndexStep
  <2>2. CollectionIndex'
    <3>1. CASE CollectionStep
      BY <1>1, <3>1, CollectionStepIndex
    <3>2. CASE NextBlock
      BY <1>1, <3>2 DEF NextBlock, collectionVars, CollectionIndex
    <3>3. CASE ItemStep \/ TradingStep \/ DataStep
      BY <1>1, <3>3, ItemStepCollections, TradingStepCollections, DataStepCollections, KeptIndex
    <3> QED
      BY <1>2, <3>1, <3>2, <3>3, NextStep
  <2> QED
    BY <2>1, <2>2 DEF OwnerIndexExact, IndexOf, CollectionIndex
<1>3. CASE UNCHANGED vars
  BY <1>3 DEF vars, collectionVars, itemVars, OwnerIndexExact
<1> QED
  BY <1>2, <1>3

\* Account and CollectionAccount list exactly the owners that Item and Collection
\* record, through every mint, sale, swap, burn, ownership transfer and destroy, for any
\* number of accounts, collections and items.
THEOREM OwnersIndexed == Spec => []OwnerIndexExact
<1>1. Init => OwnerIndexExact
  BY DEF Init, StorageInit, OwnerIndexExact
<1> QED
  BY <1>1, TypeCorrect, OwnerIndexStep, PTL DEF Spec
=============================================================================
