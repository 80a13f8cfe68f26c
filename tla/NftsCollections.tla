-------------------------- MODULE NftsCollections --------------------------
(***************************************************************************)
(* Collections of pallet-nfts: their creation and destruction, roles,      *)
(* settings and ownership (features/create_delete_collection.rs, roles.rs, *)
(* settings.rs, lock.rs, and the collection part of transfer.rs).          *)
(***************************************************************************)
EXTENDS NftsStorage

\* NextCollectionId::get().or(CollectionId::initial_value())
NextId == IF NextCollectionId = None THEN 0 ELSE NextCollectionId

\* set_next_collection_id: Incrementable::increment is None past the last id,
\* and the next collection then gets the initial id again.
set_next_collection_id(c) ==
    NextCollectionId' = IF c = MaxCollectionId THEN None ELSE c + 1

do_create_collection(c, owner, admin, config, deposit) ==
    /\ Collection[c] = None
    /\ CanReserve(bal, owner, deposit)
    /\ bal' = Reserve(bal, owner, deposit)
    /\ Collection' = [Collection EXCEPT ![c] =
          [owner |-> owner, owner_deposit |-> deposit, items |-> 0,
           item_metadatas |-> 0, item_configs |-> 0, attributes |-> 0]]
    /\ CollectionRoleOf' = [CollectionRoleOf EXCEPT ![c][admin] = CollectionRole]
    /\ CollectionConfigOf' = [CollectionConfigOf EXCEPT ![c] = config]
    /\ CollectionAccount' = CollectionAccount \cup {<<owner, c>>}
    /\ UNCHANGED <<CollectionMetadataOf, itemVars, offerVars, attributeVars, acceptanceVars, now>>

\* CollectionRoles::max_roles(), the limit clear_roles passes to clear_prefix;
\* it fails with RolesNotCleared when records are left.
max_roles == Cardinality(CollectionRole)
RolesClearable(c) == Cardinality({a \in AccountId : CollectionRoleOf[c][a] # {}}) <= max_roles

\* The deposits do_destroy_collection returns to account a: what a paid for
\* item metadata and attributes in its own name, and the owner's deposit.
DestroyRefund(c, a) ==
    DepositedBy(a, ItemMetadataOf[c]) + DepositedBy(a, Attribute[c])
    + (IF Collection[c].owner = a THEN Collection[c].owner_deposit ELSE 0)

\* The witness a caller passes must equal the stored counters, so it is not a
\* parameter; its item_configs only bounds how many item configs the
\* clear_prefix call removes, in whatever order the map yields them.
do_destroy_collection(origin, c) ==
    /\ Collection[c] # None
    /\ MaybeCheck(origin, Collection[c].owner)
    /\ Collection[c].items = 0
    /\ RolesClearable(c)
    /\ \E cleared \in SUBSET {i \in ItemId : ItemConfigOf[c][i] # None} :
          /\ Cardinality(cleared) =
                Lesser(Collection[c].item_configs,
                       Cardinality({i \in ItemId : ItemConfigOf[c][i] # None}))
          /\ ItemConfigOf' = [ItemConfigOf EXCEPT ![c] =
                [i \in ItemId |-> IF i \in cleared THEN None ELSE ItemConfigOf[c][i]]]
    /\ bal' = UnreserveAll(bal, [a \in AccountId |-> DestroyRefund(c, a)])
    /\ Collection' = [Collection EXCEPT ![c] = None]
    /\ ItemMetadataOf' = [ItemMetadataOf EXCEPT ![c] = [i \in ItemId |-> None]]
    /\ CollectionMetadataOf' = [CollectionMetadataOf EXCEPT ![c] = None]
    /\ CollectionRoleOf' = [CollectionRoleOf EXCEPT ![c] = [a \in AccountId |-> {}]]
    /\ Attribute' = [Attribute EXCEPT ![c] = [k \in AttributeKey |-> None]]
    /\ CollectionAccount' = CollectionAccount \ {<<Collection[c].owner, c>>}
    /\ CollectionConfigOf' = [CollectionConfigOf EXCEPT ![c] = None]
    /\ UNCHANGED <<NextCollectionId, Item, Account, offerVars, ItemAttributesApprovalsOf,
                   acceptanceVars, now>>
-----------------------------------------------------------------------------
(* roles.rs *)

\* group_roles_by_account: the roles each account holds in a new team.
group_roles_by_account(team) ==
    [a \in AccountId |-> {role \in CollectionRole : team[role] = a}]

\* Mutant: the roles of the former team are not cleared.
do_set_team_without_clear(origin, c, team) ==
    /\ Collection[c] # None
    /\ MaybeCheck(origin, Collection[c].owner)
    /\ origin # Root => \A role \in CollectionRole :
                            team[role] # None => AccountsByRole(c, role) # {}
    /\ CollectionRoleOf' = [CollectionRoleOf EXCEPT ![c] =
          [a \in AccountId |-> CollectionRoleOf[c][a] \cup group_roles_by_account(team)[a]]]
    /\ UNCHANGED <<Collection, CollectionAccount, CollectionConfigOf, CollectionMetadataOf,
                   NextCollectionId, itemVars, offerVars, attributeVars, acceptanceVars, bal, now>>

\* team maps every role to its new holder or to None.  Only root may fill a
\* role that nobody holds.
do_set_team(origin, c, team) ==
    /\ Collection[c] # None
    /\ MaybeCheck(origin, Collection[c].owner)
    /\ origin # Root => \A role \in CollectionRole :
                            team[role] # None => AccountsByRole(c, role) # {}
    /\ RolesClearable(c)
    /\ CollectionRoleOf' = [CollectionRoleOf EXCEPT ![c] = group_roles_by_account(team)]
    /\ UNCHANGED <<Collection, CollectionAccount, CollectionConfigOf, CollectionMetadataOf,
                   NextCollectionId, itemVars, offerVars, attributeVars, acceptanceVars, bal, now>>
-----------------------------------------------------------------------------
(* settings.rs, and do_lock_collection of lock.rs *)

\* The frame of the operations that change a collection's config only.
ConfigFrame ==
    UNCHANGED <<Collection, CollectionAccount, CollectionRoleOf, CollectionMetadataOf,
                NextCollectionId, itemVars, offerVars, attributeVars, acceptanceVars, bal, now>>

do_force_collection_config(c, config) ==
    /\ Collection[c] # None
    /\ CollectionConfigOf' = [CollectionConfigOf EXCEPT ![c] = config]
    /\ ConfigFrame

do_set_collection_max_supply(origin, c, max_supply) ==
    /\ CollectionConfigOf[c] # None
    /\ CollectionSettingEnabled(c, "UnlockedMaxSupply")
    /\ Collection[c] # None
    /\ MaybeCheck(origin, Collection[c].owner)
    /\ Collection[c].items <= max_supply
    /\ CollectionConfigOf' = [CollectionConfigOf EXCEPT ![c].max_supply = max_supply]
    /\ ConfigFrame

do_update_mint_settings(origin, c, mint_settings) ==
    /\ RoleOrRoot(origin, c, "Issuer")
    /\ CollectionConfigOf[c] # None
    /\ CollectionConfigOf' = [CollectionConfigOf EXCEPT ![c].mint_settings = mint_settings]
    /\ ConfigFrame

\* Mutant: the new locks replace the old ones.
do_lock_collection_only(origin, c, lock_settings) ==
    /\ Collection[c] # None
    /\ Collection[c].owner = origin
    /\ "DepositRequired" \notin lock_settings
    /\ CollectionConfigOf[c] # None
    /\ CollectionConfigOf' = [CollectionConfigOf EXCEPT ![c].settings = lock_settings]
    /\ ConfigFrame

do_lock_collection(origin, c, lock_settings) ==
    /\ Collection[c] # None
    /\ Collection[c].owner = origin
    /\ "DepositRequired" \notin lock_settings
    /\ CollectionConfigOf[c] # None
    /\ CollectionConfigOf' = [CollectionConfigOf EXCEPT ![c].settings = @ \cup lock_settings]
    /\ ConfigFrame
-----------------------------------------------------------------------------
(* Collection ownership, transfer.rs *)

\* Mutant: the former owner stays in the index.
MoveCollectionAlso(c, new_owner) ==
    /\ bal' = Repatriate(bal, Collection[c].owner, new_owner, Collection[c].owner_deposit)
    /\ CollectionAccount' = CollectionAccount \cup {<<new_owner, c>>}
    /\ Collection' = [Collection EXCEPT ![c].owner = new_owner]
    /\ UNCHANGED <<CollectionRoleOf, CollectionConfigOf, CollectionMetadataOf, NextCollectionId,
                   itemVars, offerVars, attributeVars, now>>

\* What do_transfer_ownership and do_force_collection_owner share: the whole
\* owner_deposit follows the collection into the new owner's reserve.
MoveCollection(c, new_owner) ==
    LET details == Collection[c] IN
    /\ bal' = Repatriate(bal, details.owner, new_owner, details.owner_deposit)
    /\ CollectionAccount' = (CollectionAccount \ {<<details.owner, c>>}) \cup {<<new_owner, c>>}
    /\ Collection' = [Collection EXCEPT ![c].owner = new_owner]
    /\ UNCHANGED <<CollectionRoleOf, CollectionConfigOf, CollectionMetadataOf, NextCollectionId,
                   itemVars, offerVars, attributeVars, now>>

\* Mutant: the consumer reference of the acceptance is never released.
do_transfer_ownership_keeping_ref(origin, c, new_owner) ==
    /\ OwnershipAcceptance[new_owner] = c
    /\ Collection[c] # None
    /\ Collection[c].owner = origin
    /\ new_owner # origin
    /\ MoveCollection(c, new_owner)
    /\ OwnershipAcceptance' = [OwnershipAcceptance EXCEPT ![new_owner] = None]
    /\ UNCHANGED consumers

\* A transfer to the current owner returns Ok and changes nothing.
do_transfer_ownership(origin, c, new_owner) ==
    /\ OwnershipAcceptance[new_owner] = c
    /\ Collection[c] # None
    /\ Collection[c].owner = origin
    /\ new_owner # origin
    /\ MoveCollection(c, new_owner)
    /\ OwnershipAcceptance' = [OwnershipAcceptance EXCEPT ![new_owner] = None]
    /\ consumers' = [consumers EXCEPT ![new_owner] = SatSub(@, 1)]

do_force_collection_owner(c, owner) ==
    /\ Collection[c] # None
    /\ Collection[c].owner # owner
    /\ MoveCollection(c, owner)
    /\ UNCHANGED acceptanceVars

\* An acceptance holds a consumer reference.  When inc_consumers fails, the call fails with
\* it and changes nothing: a stuttering step.
do_set_accept_ownership(who, maybe_collection) ==
    /\ consumers' = [consumers EXCEPT ![who] =
          CASE OwnershipAcceptance[who] = None /\ maybe_collection # None -> @ + 1
            [] OwnershipAcceptance[who] # None /\ maybe_collection = None -> SatSub(@, 1)
            [] OTHER -> @]
    /\ OwnershipAcceptance' = [OwnershipAcceptance EXCEPT ![who] = maybe_collection]
    /\ UNCHANGED <<collectionVars, itemVars, offerVars, attributeVars, bal, now>>
=============================================================================
