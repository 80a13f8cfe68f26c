------------------------------ MODULE NftsData ------------------------------
(***************************************************************************)
(* Attributes and metadata of pallet-nfts, their deposits, and the calls   *)
(* that carry a signature made off chain (features/attributes.rs,          *)
(* metadata.rs, and do_mint_pre_signed of create_delete_item.rs).          *)
(*                                                                         *)
(* Setting an attribute or an item's metadata is also a step of the        *)
(* pre-signed calls, so each is a function from the balances b and the     *)
(* collection's details d to what the handler leaves, [ok, bal, details,   *)
(* entry]; ok is FALSE when a reserve fails.                               *)
(***************************************************************************)
EXTENDS NftsItems

AttributeFrame ==
    UNCHANGED <<CollectionAccount, CollectionRoleOf, CollectionConfigOf, CollectionMetadataOf,
                NextCollectionId, itemVars, offerVars, acceptanceVars, now>>

\* Unreserve from the old depositor and reserve on the new one, or adjust the
\* reserve of the same depositor.
CanMoveDeposit(b, from, old, to, new) ==
    IF from = to THEN CanAdjust(b, to, old, new)
    ELSE CanReserve(IF from = None THEN b ELSE Unreserve(b, from, old), to, new)

\* Mutant: the old depositor gets nothing back.
MoveDepositUnreturned(b, from, old, to, new) ==
    IF from = to THEN Adjust(b, to, old, new) ELSE Reserve(b, to, new)

MoveDeposit(b, from, old, to, new) ==
    IF from = to THEN Adjust(b, to, old, new)
    ELSE Reserve(IF from = None THEN b ELSE Unreserve(b, from, old), to, new)

\* is_valid_namespace for an attribute key k = <<maybe_item, namespace, key>>.
is_valid_namespace(origin, c, k) ==
    \/ k[2] = CollectionOwner /\ has_role(c, origin, "Admin")
    \/ /\ k[2] = ItemOwner
       /\ k[1] # None
       /\ Item[c][k[1]] # None
       /\ Item[c][k[1]].owner = origin
    \/ /\ k[2] = AccountNs(origin)
       /\ k[1] # None
       /\ origin \in ItemAttributesApprovalsOf[c][k[1]]

\* The lock check of do_set_attribute; config is the config of the item.
AttributeUnlocked(c, k, config) ==
    k[2] = CollectionOwner =>
        IF k[1] = None THEN CollectionSettingEnabled(c, "UnlockedAttributes")
        ELSE config # None /\ "UnlockedAttributes" \notin config

\* Mutant: an owner's old deposit for the attribute stays in owner_deposit.
KeptOwnerDepositAlways(d, from, depositor, oldAmount) == d.owner_deposit

\* What is left of owner_deposit when an attribute of the depositor is replaced.
KeptOwnerDeposit(d, from, depositor, oldAmount) ==
    IF from = depositor THEN SatSub(d.owner_deposit, oldAmount) ELSE d.owner_deposit

\* The deposit part of do_set_attribute.
SetAttribute(c, k, len, depositor, b, d) ==
    LET old        == Attribute[c][k]
        ofOwner    == k[2] = CollectionOwner
        deposit    == IF CollectionSettingEnabled(c, "DepositRequired") \/ ~ ofOwner
                      THEN AttributeDeposit(len) ELSE 0
        oldAmount  == IF old = None THEN 0 ELSE old.amount
        oldAccount == IF old = None THEN None ELSE old.account
        from       == IF ofOwner /\ oldAccount = None /\ old # None THEN d.owner ELSE oldAccount
        byOwner    == ofOwner /\ d.owner = depositor
        kept       == KeptOwnerDeposit(d, from, depositor, oldAmount)
    IN  [ok      |-> CanMoveDeposit(b, from, oldAmount, depositor, deposit),
         bal     |-> MoveDeposit(b, from, oldAmount, depositor, deposit),
         details |-> [d EXCEPT !.attributes = IF old = None THEN SatInc(@) ELSE @,
                               !.owner_deposit = IF byOwner THEN kept + deposit ELSE @],
         entry   |-> [data |-> len, account |-> IF byOwner THEN None ELSE depositor,
                      amount |-> deposit]]

do_set_attribute(origin, c, k, len, depositor) ==
    /\ is_pallet_feature_enabled("Attributes")
    /\ is_valid_namespace(origin, c, k)
    /\ CollectionConfigOf[c] # None
    /\ AttributeUnlocked(c, k, IF k[1] = None THEN None ELSE ItemConfigOf[c][k[1]])
    /\ Collection[c] # None
    /\ LET set == SetAttribute(c, k, len, depositor, bal, Collection[c]) IN
          /\ set.ok
          /\ bal' = set.bal
          /\ Collection' = [Collection EXCEPT ![c] = set.details]
          /\ Attribute' = [Attribute EXCEPT ![c][k] = set.entry]
    /\ UNCHANGED ItemAttributesApprovalsOf
    /\ AttributeFrame

\* force_set_attribute takes no deposit, and returns the deposit of another
\* depositor.
do_force_set_attribute(set_as, c, k, len) ==
    LET old == Attribute[c][k] IN
    /\ Collection[c] # None
    /\ bal' = IF old # None /\ old.account \notin {set_as, None}
              THEN Unreserve(bal, old.account, old.amount) ELSE bal
    /\ Collection' = [Collection EXCEPT ![c].attributes = IF old = None THEN SatInc(@) ELSE @]
    /\ Attribute' = [Attribute EXCEPT ![c][k] = [data |-> len, account |-> set_as, amount |-> 0]]
    /\ UNCHANGED ItemAttributesApprovalsOf
    /\ AttributeFrame

\* The account that paid for an attribute may clear it whatever its namespace,
\* but a CollectionOwner attribute of an item with a config only as admin.
MayClearAttribute(origin, c, k) ==
    /\ Attribute[c][k].account = origin \/ is_valid_namespace(origin, c, k)
    /\ k[2] = CollectionOwner =>
          IF k[1] = None
          THEN CollectionConfigOf[c] # None /\ CollectionSettingEnabled(c, "UnlockedAttributes")
          ELSE ItemConfigOf[c][k[1]] # None => /\ ItemSettingEnabled(c, k[1], "UnlockedAttributes")
                                               /\ has_role(c, origin, "Admin")

do_clear_attribute(origin, c, k) ==
    LET old     == Attribute[c][k]
        d       == Collection[c]
        byOwner == old.account = None /\ k[2] = CollectionOwner
        from    == IF byOwner THEN d.owner ELSE old.account
    IN  /\ old # None
        /\ origin # Root => MayClearAttribute(origin, c, k)
        /\ Collection[c] # None
        /\ bal' = IF from = None THEN bal ELSE Unreserve(bal, from, old.amount)
        /\ Collection' = [Collection EXCEPT ![c] =
              [d EXCEPT !.attributes = SatDec(@),
                        !.owner_deposit = IF byOwner THEN SatSub(@, old.amount) ELSE @]]
        /\ Attribute' = [Attribute EXCEPT ![c][k] = None]
        /\ UNCHANGED ItemAttributesApprovalsOf
        /\ AttributeFrame
-----------------------------------------------------------------------------
(* Attribute approvals *)

CanApproveItemAttributes(origin, c, i, delegate) ==
    /\ is_pallet_feature_enabled("Attributes")
    /\ Item[c][i] # None
    /\ Item[c][i].owner = origin
    /\ \/ delegate \in ItemAttributesApprovalsOf[c][i]
       \/ Cardinality(ItemAttributesApprovalsOf[c][i]) < ItemAttributesApprovalsLimit

do_approve_item_attributes(origin, c, i, delegate) ==
    /\ CanApproveItemAttributes(origin, c, i, delegate)
    /\ ItemAttributesApprovalsOf' =
          [ItemAttributesApprovalsOf EXCEPT ![c][i] = @ \cup {delegate}]
    /\ UNCHANGED <<Collection, Attribute, bal>>
    /\ AttributeFrame

\* Drains the attributes of the delegate and releases their deposits, all of them
\* from the delegate's reserve.  The witness bounds their number from above, and
\* the caller is free to choose it.
do_cancel_item_attributes_approval(origin, c, i, delegate) ==
    LET drained == {k \in AttributeKey :
                       k[1] = i /\ k[2] = AccountNs(delegate) /\ Attribute[c][k] # None}
        deposited == SumFunction([k \in AttributeKey |->
                        IF k \in drained THEN Attribute[c][k].amount ELSE 0])
    IN  /\ is_pallet_feature_enabled("Attributes")
        /\ Item[c][i] # None
        /\ Item[c][i].owner = origin
        /\ ItemAttributesApprovalsOf' =
              [ItemAttributesApprovalsOf EXCEPT ![c][i] = @ \ {delegate}]
        /\ Attribute' = [Attribute EXCEPT ![c] =
              [k \in AttributeKey |-> IF k \in drained THEN None ELSE Attribute[c][k]]]
        /\ bal' = UnreserveAll(bal, [a \in AccountId |-> IF a = delegate THEN deposited ELSE 0])
        /\ UNCHANGED Collection
        /\ AttributeFrame
-----------------------------------------------------------------------------
(* metadata.rs *)

\* The deposit part of do_set_item_metadata; maybe_depositor None is the
\* collection's owner.
SetItemMetadata(c, i, len, isRoot, maybe_depositor, b, d) ==
    LET old       == ItemMetadataOf[c][i]
        oldAmount == IF old = None THEN 0 ELSE old.amount
        deposit   == IF CollectionSettingEnabled(c, "DepositRequired") /\ ~ isRoot
                     THEN MetadataDeposit(len) ELSE 0
        depositor == IF maybe_depositor = None THEN d.owner ELSE maybe_depositor
        from      == IF old = None THEN d.owner ELSE DepositorOf(old, d.owner)
    IN  [ok      |-> CanMoveDeposit(b, from, oldAmount, depositor, deposit),
         bal     |-> MoveDeposit(b, from, oldAmount, depositor, deposit),
         details |-> [d EXCEPT !.item_metadatas = IF old = None THEN SatInc(@) ELSE @,
                               !.owner_deposit = IF maybe_depositor = None
                                                 THEN SatSub(@ + deposit, oldAmount) ELSE @],
         entry   |-> [data |-> len, account |-> maybe_depositor, amount |-> deposit]]

\* set_metadata is the only dispatchable here, with the collection's owner paying.
do_set_item_metadata(origin, c, i, len) ==
    /\ RoleOrRoot(origin, c, "Admin")
    /\ Collection[c] # None
    /\ ItemConfigOf[c][i] # None
    /\ origin = Root \/ ItemSettingEnabled(c, i, "UnlockedMetadata")
    /\ CollectionConfigOf[c] # None
    /\ LET set == SetItemMetadata(c, i, len, origin = Root, None, bal, Collection[c]) IN
          /\ set.ok
          /\ bal' = set.bal
          /\ Collection' = [Collection EXCEPT ![c] = set.details]
          /\ ItemMetadataOf' = [ItemMetadataOf EXCEPT ![c][i] = set.entry]
    /\ UNCHANGED <<CollectionAccount, CollectionRoleOf, CollectionConfigOf, CollectionMetadataOf,
                   NextCollectionId, Item, Account, ItemConfigOf, offerVars, attributeVars,
                   acceptanceVars, now>>

do_clear_item_metadata(origin, c, i) ==
    /\ RoleOrRoot(origin, c, "Admin")
    /\ ItemMetadataOf[c][i] # None
    /\ Collection[c] # None
    /\ origin = Root \/ ItemConfigOf[c][i] = None \/ ItemSettingEnabled(c, i, "UnlockedMetadata")
    /\ Collection' = [Collection EXCEPT ![c] = ClearedMetadataDetails(c, i)]
    /\ bal' = ClearedMetadataBalance(c, i, bal)
    /\ ItemMetadataOf' = [ItemMetadataOf EXCEPT ![c][i] = None]
    /\ UNCHANGED <<CollectionAccount, CollectionRoleOf, CollectionConfigOf, CollectionMetadataOf,
                   NextCollectionId, Item, Account, ItemConfigOf, offerVars, attributeVars,
                   acceptanceVars, now>>

CollectionMetadataFrame ==
    UNCHANGED <<CollectionAccount, CollectionRoleOf, CollectionConfigOf, NextCollectionId, itemVars,
                offerVars, attributeVars, acceptanceVars, now>>

do_set_collection_metadata(origin, c, len) ==
    LET old       == CollectionMetadataOf[c]
        oldAmount == IF old = None THEN 0 ELSE old.deposit
        deposit   == IF origin # Root /\ CollectionSettingEnabled(c, "DepositRequired")
                     THEN MetadataDeposit(len) ELSE 0
        owner     == Collection[c].owner
    IN  /\ RoleOrRoot(origin, c, "Admin")
        /\ CollectionConfigOf[c] # None
        /\ origin = Root \/ CollectionSettingEnabled(c, "UnlockedMetadata")
        /\ Collection[c] # None
        /\ CanAdjust(bal, owner, oldAmount, deposit)
        /\ bal' = Adjust(bal, owner, oldAmount, deposit)
        /\ Collection' = [Collection EXCEPT ![c].owner_deposit = SatSub(@, oldAmount) + deposit]
        /\ CollectionMetadataOf' = [CollectionMetadataOf EXCEPT ![c] =
              [deposit |-> deposit, data |-> len]]
        /\ CollectionMetadataFrame

do_clear_collection_metadata(origin, c) ==
    /\ RoleOrRoot(origin, c, "Admin")
    /\ Collection[c] # None
    /\ CollectionConfigOf[c] # None
    /\ origin = Root \/ CollectionSettingEnabled(c, "UnlockedMetadata")
    /\ CollectionMetadataOf[c] # None
    /\ bal' = Unreserve(bal, Collection[c].owner, CollectionMetadataOf[c].deposit)
    /\ Collection' = [Collection EXCEPT ![c].owner_deposit =
          SatSub(@, CollectionMetadataOf[c].deposit)]
    /\ CollectionMetadataOf' = [CollectionMetadataOf EXCEPT ![c] = None]
    /\ CollectionMetadataFrame
-----------------------------------------------------------------------------
(***************************************************************************)
(* Pre-signed calls, with at most one attribute: a call with several sets  *)
(* them one after the other by the same handler, all or none, and a call   *)
(* of set_attributes_pre_signed with none at most approves the signer, as  *)
(* approve_item_attributes does.                                           *)
(***************************************************************************)

\* data.attributes is None or [key, len], data.metadata is the length of the
\* metadata, 0 for none.  signer has signed the data; mint_to submits it.
do_mint_pre_signed(mint_to, c, i, data, signer) ==
    LET settings == CollectionConfigOf[c].mint_settings.default_item_settings
        price    == IF data.mint_price = None THEN 0 ELSE data.mint_price
        paid     == Transfer(bal, mint_to, Collection[c].owner, price)
        k        == <<i, CollectionOwner, data.attributes.key>>
        minted   == [ok |-> TRUE, bal |-> MintedBalance(c, mint_to, paid),
                     details |-> MintedDetails(c, i)]
        hasAdmin == AccountsByRole(c, "Admin") # {}
        setsAttribute == hasAdmin /\ data.attributes # None
        setsMetadata  == hasAdmin /\ data.metadata # 0
        attributed == IF setsAttribute
                      THEN SetAttribute(c, k, data.attributes.len, mint_to,
                                        minted.bal, minted.details)
                      ELSE minted
        described == IF setsMetadata
                     THEN SetItemMetadata(c, i, data.metadata, FALSE, mint_to,
                                          attributed.bal, attributed.details)
                     ELSE attributed
    IN  /\ data.only_account \in {None, mint_to}
        /\ data.deadline >= now
        /\ has_role(c, signer, "Issuer")
        /\ CollectionConfigOf[c] # None
        /\ Collection[c] # None
        /\ CanTransfer(bal, mint_to, Collection[c].owner, price)
        /\ CanMint(c, i, mint_to, settings, paid)
        /\ setsAttribute => /\ is_pallet_feature_enabled("Attributes")
                            /\ AttributeUnlocked(c, k, settings)
                            /\ attributed.ok
        /\ setsMetadata  => /\ "UnlockedMetadata" \notin settings
                            /\ described.ok
        /\ InsertItem(c, i, mint_to, mint_to, settings)
        /\ Collection' = [Collection EXCEPT ![c] = described.details]
        /\ bal' = described.bal
        /\ Attribute' = IF setsAttribute
                        THEN [Attribute EXCEPT ![c][k] = attributed.entry] ELSE Attribute
        /\ ItemMetadataOf' = IF setsMetadata
                             THEN [ItemMetadataOf EXCEPT ![c][i] = described.entry]
                             ELSE ItemMetadataOf
        /\ UNCHANGED <<CollectionAccount, CollectionRoleOf, CollectionConfigOf,
                       CollectionMetadataOf, NextCollectionId, offerVars,
                       ItemAttributesApprovalsOf, acceptanceVars, now>>

\* The item's owner submits, and pays for, an attribute that signer has signed, in
\* the CollectionOwner namespace or in the signer's own, approving the signer first
\* when it is not approved yet.
do_set_attributes_pre_signed(origin, c, k, len, deadline, signer) ==
    LET i == k[1]
        approves == k[2] = AccountNs(signer) /\ signer \notin ItemAttributesApprovalsOf[c][i]
        set == SetAttribute(c, k, len, origin, bal, Collection[c])
    IN  /\ i # None
        /\ deadline >= now
        /\ Item[c][i] # None
        /\ Item[c][i].owner = origin
        /\ k[2] \in {CollectionOwner, AccountNs(signer)}
        /\ approves => CanApproveItemAttributes(origin, c, i, signer)
        /\ is_pallet_feature_enabled("Attributes")
        /\ approves \/ is_valid_namespace(signer, c, k)
        /\ CollectionConfigOf[c] # None
        /\ AttributeUnlocked(c, k, ItemConfigOf[c][i])
        /\ Collection[c] # None
        /\ set.ok
        /\ bal' = set.bal
        /\ Collection' = [Collection EXCEPT ![c] = set.details]
        /\ Attribute' = [Attribute EXCEPT ![c][k] = set.entry]
        /\ ItemAttributesApprovalsOf' =
              IF approves THEN [ItemAttributesApprovalsOf EXCEPT ![c][i] = @ \cup {signer}]
              ELSE ItemAttributesApprovalsOf
        /\ AttributeFrame
=============================================================================
