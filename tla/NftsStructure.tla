--------------------------- MODULE NftsStructure ---------------------------
(***************************************************************************)
(* Proofs about the shape of the storage of pallet-nfts: the counters of a *)
(* collection are exact, nothing is left under the id of a destroyed       *)
(* collection, offers exist for existing items only, and a role has at     *)
(* most one holder.  None of the four is inductive without the others and  *)
(* the owner index: destroy clears as many item configs as item_configs    *)
(* says, clears no offers because items says that there are no items, and  *)
(* a claim marks an item it finds through the index.                       *)
(***************************************************************************)
EXTENDS NftsOwners, FiniteSetTheorems

\* The entries of one of the maps from items below a collection.
Stored(m) == {i \in ItemId : m[i] # None}

\* The conjuncts of CountersExact, NothingOutlivesCollection, OffersNeedItem and
\* RolesUnique for one collection; that the roles can be cleared follows.
CountersOf(c) == Collection[c] # None =>
    /\ Collection[c].items = Cardinality(Stored(Item[c]))
    /\ Collection[c].item_metadatas = Cardinality(Stored(ItemMetadataOf[c]))
    /\ Collection[c].item_configs = Cardinality(Stored(ItemConfigOf[c]))

EmptyUnder(c) == Collection[c] = None =>
    /\ CollectionConfigOf[c] = None
    /\ CollectionMetadataOf[c] = None
    /\ \A a \in AccountId : CollectionRoleOf[c][a] = {}
    /\ \A k \in AttributeKey : Attribute[c][k] = None
    /\ \A i \in ItemId : Item[c][i] = None /\ ItemConfigOf[c][i] = None /\ ItemMetadataOf[c][i] = None

OffersOf(c) == \A i \in ItemId :
    /\ Item[c][i] = None => /\ ItemPriceOf[c][i] = None
                            /\ PendingSwapOf[c][i] = None
                            /\ ItemAttributesApprovalsOf[c][i] = {}
    /\ Item[c][i] # None => /\ Collection[c] # None
                            /\ CollectionConfigOf[c] # None
                            /\ ItemConfigOf[c][i] # None

RolesOf(c) == \A role \in CollectionRole, a, b \in AccountId :
    has_role(c, a, role) /\ has_role(c, b, role) => a = b

Structure(c) == CountersOf(c) /\ EmptyUnder(c) /\ OffersOf(c) /\ RolesOf(c)

\* The inductive invariant: the structure of every collection.
StructureInv == \A c \in CollectionId : Structure(c)
-----------------------------------------------------------------------------
(* Counting the entries of a map *)

\* A map from items has finitely many entries, at most as many as a u32 counts.
LEMMA StoredFinite ==
    ASSUME NEW m
    PROVE  /\ IsFiniteSet(Stored(m)) /\ Cardinality(Stored(m)) \in Nat
           /\ Cardinality(Stored(m)) <= U32Max
<1>1. Stored(m) \in SUBSET ItemId
  BY DEF Stored
<1>2. /\ IsFiniteSet(Stored(m)) /\ Cardinality(Stored(m)) <= Cardinality(ItemId)
  BY <1>1, FS_Subset, FinitenessAssumption
<1>3. Cardinality(Stored(m)) \in Nat /\ Cardinality(ItemId) \in Nat
  BY <1>2, FS_CardinalityType, FinitenessAssumption
<1> QED
  BY <1>2, <1>3, FinitenessAssumption, StorageAssumption

\* saturating_inc counts a new entry: the counter cannot be at its maximum already.
LEMMA StoredInc ==
    ASSUME NEW T, NEW m \in [ItemId -> T], NEW i \in ItemId, NEW v, m[i] = None, v # None
    PROVE  Cardinality(Stored([m EXCEPT ![i] = v])) = SatInc(Cardinality(Stored(m)))
<1> DEFINE next == [m EXCEPT ![i] = v]
<1>1. Stored(next) = Stored(m) \cup {i} /\ i \notin Stored(m)
  BY DEF Stored
<1>2. Cardinality(Stored(next)) = Cardinality(Stored(m)) + 1
  BY <1>1, StoredFinite, FS_AddElement
<1>3. Cardinality(Stored(next)) <= U32Max
  BY StoredFinite
<1> HIDE DEF next
<1>4. Cardinality(Stored(m)) < U32Max
  BY <1>2, <1>3, StoredFinite, StorageAssumption
<1>5. Cardinality(Stored(next)) = SatInc(Cardinality(Stored(m)))
  BY <1>2, <1>4 DEF SatInc
<1> QED
  BY <1>5 DEF next

\* saturating_dec counts a removed entry.
LEMMA StoredDec ==
    ASSUME NEW T, NEW m \in [ItemId -> T], NEW i \in ItemId, m[i] # None
    PROVE  Cardinality(Stored([m EXCEPT ![i] = None])) = SatDec(Cardinality(Stored(m)))
<1> DEFINE next == [m EXCEPT ![i] = None]
<1>1. Stored(next) = Stored(m) \ {i} /\ i \in Stored(m)
  BY DEF Stored
<1>2. Cardinality(Stored(next)) = Cardinality(Stored(m)) - 1
  BY <1>1, StoredFinite, FS_RemoveElement
<1>3. Cardinality(Stored(next)) \in Nat /\ Cardinality(Stored(m)) \in Nat
  BY StoredFinite
<1> HIDE DEF next
<1>4. Cardinality(Stored(next)) = SatDec(Cardinality(Stored(m)))
  BY <1>2, <1>3 DEF SatDec
<1> QED
  BY <1>4 DEF next

\* A map that keeps its entries, or replaces one by another, keeps the count.
LEMMA StoredSame ==
    ASSUME NEW m, NEW n, \A i \in ItemId : n[i] # None <=> m[i] # None
    PROVE  Stored(n) = Stored(m)
BY DEF Stored
-----------------------------------------------------------------------------
(* The parts and the properties *)

\* With at most one holder per role, at most max_roles accounts have a role.
LEMMA UniqueRolesClearable ==
    ASSUME TypeOK, NEW c \in CollectionId, RolesOf(c)
    PROVE  RolesClearable(c)
<1> DEFINE Holders == {a \in AccountId : CollectionRoleOf[c][a] # {}}
           H(role) == {a \in AccountId : has_role(c, a, role)}
<1>1. CollectionRoleOf[c] \in [AccountId -> SUBSET CollectionRole]
  BY DEF TypeOK, StorageTypeOK
<1>2. ASSUME NEW role \in CollectionRole
      PROVE  \E a : H(role) \subseteq {a}
  <2>1. CASE H(role) = {}
    BY <2>1
  <2>2. CASE H(role) # {}
    <3>1. PICK a \in AccountId : has_role(c, a, role)
      BY <2>2
    <3>2. H(role) \subseteq {a}
      BY <1>2, <3>1 DEF RolesOf
    <3> QED
      BY <3>2
  <2> QED
    BY <2>1, <2>2
<1>3. PICK x, y, z : H("Issuer") \subseteq {x} /\ H("Freezer") \subseteq {y} /\ H("Admin") \subseteq {z}
  BY <1>2 DEF CollectionRole
<1> DEFINE S == (({} \cup {x}) \cup {y}) \cup {z}
<1>4. Holders \in SUBSET S
  BY <1>1, <1>3 DEF CollectionRole, has_role
<1>5. IsFiniteSet(S) /\ Cardinality(S) <= 3
  <2>1. IsFiniteSet({} \cup {x}) /\ Cardinality({} \cup {x}) = 1
    BY FS_EmptySet, FS_AddElement
  <2>2. /\ IsFiniteSet(({} \cup {x}) \cup {y}) /\ Cardinality(({} \cup {x}) \cup {y}) \in 1..2
    BY <2>1, FS_AddElement
  <2>3. /\ IsFiniteSet(S) /\ Cardinality(S) \in 1..3
    BY <2>2, FS_AddElement
  <2> QED
    BY <2>3
<1>6. IsFiniteSet(Holders) /\ Cardinality(Holders) <= Cardinality(S)
  BY <1>4, <1>5, FS_Subset
<1>7. Cardinality(CollectionRole) = 3
  <2>1. CollectionRole = ({"Issuer"} \cup {"Freezer"}) \cup {"Admin"}
    BY DEF CollectionRole
  <2>2. IsFiniteSet({"Issuer"}) /\ Cardinality({"Issuer"}) = 1
    BY FS_Singleton
  <2>3. IsFiniteSet({"Issuer"} \cup {"Freezer"}) /\ Cardinality({"Issuer"} \cup {"Freezer"}) = 2
    BY <2>2, FS_AddElement
  <2>4. Cardinality(({"Issuer"} \cup {"Freezer"}) \cup {"Admin"}) = 3
    BY <2>3, FS_AddElement
  <2> QED
    BY <2>1, <2>4
<1>8. Cardinality(Holders) \in Nat /\ Cardinality(S) \in Nat
  BY <1>5, <1>6, FS_CardinalityType
<1> HIDE DEF S
<1> QED
  BY <1>5, <1>6, <1>7, <1>8 DEF RolesClearable, max_roles

\* The structure of every collection is what the four properties say.
LEMMA StructureParts ==
    TypeOK => (StructureInv <=> /\ CountersExact /\ NothingOutlivesCollection
                                /\ OffersNeedItem /\ RolesUnique)
<1> SUFFICES ASSUME TypeOK
             PROVE  StructureInv <=> /\ CountersExact /\ NothingOutlivesCollection
                                     /\ OffersNeedItem /\ RolesUnique
  OBVIOUS
<1>1. (\A c \in CollectionId : CountersOf(c)) <=> CountersExact
  BY DEF CountersOf, CountersExact, Stored
<1>2. (\A c \in CollectionId : EmptyUnder(c)) <=> NothingOutlivesCollection
  BY DEF EmptyUnder, NothingOutlivesCollection
<1>3. (\A c \in CollectionId : OffersOf(c)) <=> OffersNeedItem
  BY DEF OffersOf, OffersNeedItem
<1>4. (\A c \in CollectionId : RolesOf(c)) <=> RolesUnique
  BY UniqueRolesClearable DEF RolesOf, RolesUnique
<1> QED
  BY <1>1, <1>2, <1>3, <1>4 DEF StructureInv, Structure
-----------------------------------------------------------------------------
(* Steps that touch one collection *)

\* A step leaves everything below a collection as it is, but for the attributes of one
\* that exists, which do not matter here.
SameAt(c) ==
    /\ Collection'[c] = Collection[c] /\ CollectionConfigOf'[c] = CollectionConfigOf[c]
    /\ CollectionMetadataOf'[c] = CollectionMetadataOf[c]
    /\ CollectionRoleOf'[c] = CollectionRoleOf[c]
    /\ Collection[c] = None => Attribute'[c] = Attribute[c]
    /\ Item'[c] = Item[c] /\ ItemConfigOf'[c] = ItemConfigOf[c]
    /\ ItemMetadataOf'[c] = ItemMetadataOf[c]
    /\ ItemPriceOf'[c] = ItemPriceOf[c] /\ PendingSwapOf'[c] = PendingSwapOf[c]
    /\ ItemAttributesApprovalsOf'[c] = ItemAttributesApprovalsOf[c]

\* It touches no collection but c.
Only(c) == \A oc \in CollectionId : oc # c => SameAt(oc)

\* What an update of a collection's data leaves of its details.
CountersKept(d, e) ==
    e.items = d.items /\ e.item_metadatas = d.item_metadatas /\ e.item_configs = d.item_configs

\* Everything an existing collection has is still there, nothing is counted, and no
\* offer appears for an item that does not exist.
KeptAt(c) ==
    /\ Collection[c] # None /\ Collection'[c] # None
    /\ CountersKept(Collection[c], Collection'[c])
    /\ CollectionConfigOf[c] # None => CollectionConfigOf'[c] # None
    /\ CollectionRoleOf'[c] = CollectionRoleOf[c]
    /\ \A i \in ItemId :
          /\ Item'[c][i] # None <=> Item[c][i] # None
          /\ ItemConfigOf'[c][i] # None <=> ItemConfigOf[c][i] # None
          /\ ItemMetadataOf'[c][i] # None <=> ItemMetadataOf[c][i] # None
          /\ Item[c][i] = None => /\ ItemPriceOf'[c][i] \in {ItemPriceOf[c][i], None}
                                  /\ PendingSwapOf'[c][i] \in {PendingSwapOf[c][i], None}
                                  /\ ItemAttributesApprovalsOf'[c][i]
                                        = ItemAttributesApprovalsOf[c][i]

\* A collection that a step leaves alone keeps its structure.
LEMMA SameStructure ==
    ASSUME NEW c \in CollectionId, Structure(c), SameAt(c)
    PROVE  Structure(c)'
<1>1. CountersOf(c)'
  BY DEF Structure, SameAt, CountersOf, Stored
<1>2. EmptyUnder(c)'
  BY DEF Structure, SameAt, EmptyUnder
<1>3. OffersOf(c)'
  BY DEF Structure, SameAt, OffersOf
<1>4. RolesOf(c)'
  BY DEF Structure, SameAt, RolesOf, has_role
<1> QED
  BY <1>1, <1>2, <1>3, <1>4 DEF Structure

\* So a step that touches one collection has to keep the structure of that one.
LEMMA OneCollection ==
    ASSUME StructureInv, NEW c \in CollectionId, Only(c), Structure(c)'
    PROVE  StructureInv'
<1> SUFFICES ASSUME NEW oc \in CollectionId
             PROVE  Structure(oc)'
  BY DEF StructureInv
<1>1. CASE oc = c
  BY <1>1
<1>2. CASE oc # c
  BY <1>2, SameStructure DEF StructureInv, Only
<1> QED
  BY <1>1, <1>2

\* And it does when the collection keeps everything it has.
LEMMA KeptStructure ==
    ASSUME NEW c \in CollectionId, Structure(c), KeptAt(c)
    PROVE  Structure(c)'
<1>1. CountersOf(c)'
  <2>1. /\ Stored(Item'[c]) = Stored(Item[c])
        /\ Stored(ItemConfigOf'[c]) = Stored(ItemConfigOf[c])
        /\ Stored(ItemMetadataOf'[c]) = Stored(ItemMetadataOf[c])
    BY StoredSame DEF KeptAt
  <2>2. CountersOf(c) /\ CountersKept(Collection[c], Collection'[c]) /\ Collection[c] # None
    BY DEF Structure, KeptAt
  <2> QED
    BY <2>1, <2>2 DEF CountersOf, CountersKept
<1>2. EmptyUnder(c)'
  BY DEF KeptAt, EmptyUnder
<1>3. OffersOf(c)'
  BY DEF Structure, KeptAt, OffersOf
<1>4. RolesOf(c)'
  BY DEF Structure, KeptAt, RolesOf, has_role
<1> QED
  BY <1>1, <1>2, <1>3, <1>4 DEF Structure

\* The two together.
LEMMA KeptStep ==
    ASSUME StructureInv, NEW c \in CollectionId, Only(c), KeptAt(c)
    PROVE  StructureInv'
BY KeptStructure, OneCollection DEF StructureInv
-----------------------------------------------------------------------------
(* The collection handlers *)

\* A map without entries counts 0, and only such a map does.
LEMMA StoredNothing ==
    ASSUME NEW m
    PROVE  Cardinality(Stored(m)) = 0 <=> \A i \in ItemId : m[i] = None
<1>1. Cardinality(Stored(m)) = 0 <=> Stored(m) = {}
  BY StoredFinite, FS_EmptySet
<1> QED
  BY <1>1 DEF Stored

\* do_create_collection finds nothing under the id, so the zeros it starts the counters
\* with are exact and its admin is the only account with a role.
LEMMA CreateStructure ==
    ASSUME TypeOK, StructureInv, NEW owner \in AccountId, NEW admin \in AccountId,
           NEW config \in CollectionConfig, NEW deposit \in Nat,
           do_create_collection(NextId, owner, admin, config, deposit)
    PROVE  StructureInv'
<1> DEFINE new == [owner |-> owner, owner_deposit |-> deposit, items |-> 0,
                   item_metadatas |-> 0, item_configs |-> 0, attributes |-> 0]
<1>1. PICK c \in CollectionId : c = NextId
  BY StorageAssumption DEF NextId, TypeOK, StorageTypeOK, Option, CollectionId
<1>2. /\ Collection[c] = None
      /\ Collection' = [Collection EXCEPT ![c] = new]
      /\ CollectionRoleOf' = [CollectionRoleOf EXCEPT ![c][admin] = CollectionRole]
      /\ CollectionConfigOf' = [CollectionConfigOf EXCEPT ![c] = config]
      /\ UNCHANGED <<CollectionMetadataOf, Item, ItemConfigOf, ItemMetadataOf, ItemPriceOf,
                     PendingSwapOf, Attribute, ItemAttributesApprovalsOf>>
  BY <1>1 DEF do_create_collection, itemVars, offerVars, attributeVars
<1>3. new \in CollectionDetails /\ new # None /\ config # None
  BY OptionAssumption, StorageAssumption DEF CollectionDetails, u32
<1>4. new.items = 0 /\ new.item_metadatas = 0 /\ new.item_configs = 0
  OBVIOUS
<1> HIDE DEF new
<1>5. /\ Collection'[c] = new /\ CollectionConfigOf'[c] = config
      /\ \A a \in AccountId : CollectionRoleOf'[c][a]
            = IF a = admin THEN CollectionRole ELSE CollectionRoleOf[c][a]
      /\ Only(c)
  BY <1>1, <1>2 DEF TypeOK, StorageTypeOK, Only, SameAt
<1>6. EmptyUnder(c) /\ OffersOf(c)
  BY <1>1 DEF StructureInv, Structure
<1>7. CountersOf(c)'
  <2>1. \A i \in ItemId : Item'[c][i] = None /\ ItemConfigOf'[c][i] = None /\ ItemMetadataOf'[c][i] = None
    BY <1>2, <1>6 DEF EmptyUnder
  <2>2. /\ Cardinality(Stored(Item'[c])) = 0 /\ Cardinality(Stored(ItemMetadataOf'[c])) = 0
        /\ Cardinality(Stored(ItemConfigOf'[c])) = 0
    BY <2>1, StoredNothing
  <2> QED
    BY <1>4, <1>5, <2>2 DEF CountersOf
<1>8. EmptyUnder(c)'
  BY <1>3, <1>5 DEF EmptyUnder
<1>9. OffersOf(c)'
  BY <1>2, <1>3, <1>5, <1>6 DEF OffersOf, EmptyUnder
<1>10. RolesOf(c)'
  BY <1>2, <1>5, <1>6 DEF RolesOf, has_role, EmptyUnder
<1> QED
  BY <1>1, <1>5, <1>7, <1>8, <1>9, <1>10, OneCollection DEF Structure

\* do_destroy_collection requires items = 0, so there are no items and hence no offers,
\* and clears as many item configs as there are.
LEMMA DestroyStructure ==
    ASSUME TypeOK, StructureInv, NEW origin, NEW c \in CollectionId,
           do_destroy_collection(origin, c)
    PROVE  StructureInv'
<1> DEFINE configs == Stored(ItemConfigOf[c])
<1>1. /\ Collection[c] # None /\ Collection[c].items = 0
      /\ Collection' = [Collection EXCEPT ![c] = None]
      /\ ItemMetadataOf' = [ItemMetadataOf EXCEPT ![c] = [i \in ItemId |-> None]]
      /\ CollectionMetadataOf' = [CollectionMetadataOf EXCEPT ![c] = None]
      /\ CollectionRoleOf' = [CollectionRoleOf EXCEPT ![c] = [a \in AccountId |-> {}]]
      /\ Attribute' = [Attribute EXCEPT ![c] = [k \in AttributeKey |-> None]]
      /\ CollectionConfigOf' = [CollectionConfigOf EXCEPT ![c] = None]
      /\ UNCHANGED <<Item, ItemPriceOf, PendingSwapOf, ItemAttributesApprovalsOf>>
  BY DEF do_destroy_collection, offerVars
<1>2. PICK cleared \in SUBSET configs :
         /\ Cardinality(cleared) = Lesser(Collection[c].item_configs, Cardinality(configs))
         /\ ItemConfigOf' = [ItemConfigOf EXCEPT ![c] =
               [i \in ItemId |-> IF i \in cleared THEN None ELSE ItemConfigOf[c][i]]]
  BY DEF do_destroy_collection, Stored
<1>3. CountersOf(c) /\ OffersOf(c)
  BY DEF StructureInv, Structure
<1>4. cleared = configs
  <2>1. IsFiniteSet(configs) /\ Cardinality(configs) \in Nat
    BY StoredFinite
  <2>2. Cardinality(cleared) = Cardinality(configs)
    BY <1>1, <1>2, <1>3, <2>1 DEF CountersOf, Lesser
  <2> HIDE DEF configs
  <2> QED
    BY <2>1, <2>2, FS_Subset
<1>5. \A i \in ItemId : ItemConfigOf'[c][i] = None
  BY <1>2, <1>4 DEF TypeOK, StorageTypeOK, Stored
<1>6. \A i \in ItemId : Item'[c][i] = None
  BY <1>1, <1>3, StoredNothing DEF CountersOf
<1>7. /\ Collection'[c] = None /\ CollectionConfigOf'[c] = None
      /\ CollectionMetadataOf'[c] = None
      /\ \A a \in AccountId : CollectionRoleOf'[c][a] = {}
      /\ \A k \in AttributeKey : Attribute'[c][k] = None
      /\ \A i \in ItemId : ItemMetadataOf'[c][i] = None
  BY <1>1 DEF TypeOK, StorageTypeOK
<1>8. Only(c)
  BY <1>1, <1>2 DEF TypeOK, StorageTypeOK, Only, SameAt
<1>9. CountersOf(c)' /\ EmptyUnder(c)'
  BY <1>5, <1>6, <1>7 DEF CountersOf, EmptyUnder
<1>10. OffersOf(c)'
  BY <1>1, <1>3, <1>6 DEF OffersOf
<1>11. RolesOf(c)'
  BY <1>7 DEF RolesOf, has_role
<1> QED
  BY <1>8, <1>9, <1>10, <1>11, OneCollection DEF Structure

\* do_set_team replaces the roles by those of a team with one member per role.
LEMMA SetTeamStructure ==
    ASSUME TypeOK, StructureInv, NEW origin, NEW c \in CollectionId, NEW team,
           do_set_team(origin, c, team)
    PROVE  StructureInv'
<1>1. /\ Collection[c] # None
      /\ CollectionRoleOf' = [CollectionRoleOf EXCEPT ![c] = group_roles_by_account(team)]
      /\ UNCHANGED <<Collection, CollectionConfigOf, CollectionMetadataOf, Item, ItemConfigOf,
                     ItemMetadataOf, ItemPriceOf, PendingSwapOf, Attribute,
                     ItemAttributesApprovalsOf>>
  BY DEF do_set_team, itemVars, offerVars, attributeVars
<1>2. Only(c) /\ CollectionRoleOf'[c] = group_roles_by_account(team)
  BY <1>1 DEF TypeOK, StorageTypeOK, Only, SameAt
<1>3. RolesOf(c)'
  BY <1>2 DEF RolesOf, has_role, group_roles_by_account
<1>4. CountersOf(c) /\ OffersOf(c)
  BY DEF StructureInv, Structure
<1>5. CountersOf(c)'
  BY <1>1, <1>4 DEF CountersOf, Stored
<1>6. EmptyUnder(c)'
  BY <1>1 DEF EmptyUnder
<1>7. OffersOf(c)'
  BY <1>1, <1>4 DEF OffersOf
<1> QED
  BY <1>2, <1>3, <1>5, <1>6, <1>7, OneCollection DEF Structure

\* A new config for a collection that has one changes nothing else.
LEMMA ConfigStructure ==
    ASSUME TypeOK, StructureInv, NEW origin, NEW c \in CollectionId,
           \/ \E config \in CollectionConfig : do_force_collection_config(c, config)
           \/ \E n \in Nat : do_set_collection_max_supply(origin, c, n)
           \/ \E s \in MintSettings : do_update_mint_settings(origin, c, s)
           \/ \E s \in SUBSET CollectionSetting : do_lock_collection(origin, c, s)
    PROVE  StructureInv'
<1>1. PICK new : CollectionConfigOf' = [CollectionConfigOf EXCEPT ![c] = new]
  BY DEF do_force_collection_config, do_set_collection_max_supply, do_update_mint_settings,
     do_lock_collection
<1>2. Collection[c] # None
  BY DEF do_force_collection_config, do_set_collection_max_supply, do_update_mint_settings,
     do_lock_collection, StructureInv, Structure, EmptyUnder
<1>3. UNCHANGED <<Collection, CollectionRoleOf, CollectionMetadataOf, Item, ItemConfigOf,
                  ItemMetadataOf, ItemPriceOf, PendingSwapOf, Attribute,
                  ItemAttributesApprovalsOf>>
  BY DEF do_force_collection_config, do_set_collection_max_supply, do_update_mint_settings,
     do_lock_collection, ConfigFrame, itemVars, offerVars, attributeVars
<1>4. CollectionConfigOf'[c] # None
  <2>2. CASE \E config \in CollectionConfig : do_force_collection_config(c, config)
    BY <2>2, OptionAssumption DEF do_force_collection_config, TypeOK, StorageTypeOK
  <2>3. ASSUME CollectionConfigOf[c] # None, CollectionConfigOf'[c] \in CollectionConfig
        PROVE  CollectionConfigOf'[c] # None
    BY <2>3, OptionAssumption
  <2>4. ASSUME CollectionConfigOf[c] # None
        PROVE  /\ CollectionConfigOf[c] \in CollectionConfig
               /\ CollectionConfigOf[c].settings \in SUBSET CollectionSetting
    BY <2>4 DEF TypeOK, StorageTypeOK, Option, CollectionConfig
  <2>5. CASE \E n \in Nat : do_set_collection_max_supply(origin, c, n)
    <3>1. PICK n \in Nat : do_set_collection_max_supply(origin, c, n)
      BY <2>5
    <3>2. CollectionConfigOf[c] # None /\ CollectionConfigOf'[c] = [CollectionConfigOf[c] EXCEPT !.max_supply = n]
      BY <3>1 DEF do_set_collection_max_supply, TypeOK, StorageTypeOK
    <3> QED
      BY <2>3, <2>4, <3>2 DEF CollectionConfig, Option
  <2>6. CASE \E s \in MintSettings : do_update_mint_settings(origin, c, s)
    <3>1. PICK s \in MintSettings : do_update_mint_settings(origin, c, s)
      BY <2>6
    <3>2. CollectionConfigOf[c] # None /\ CollectionConfigOf'[c] = [CollectionConfigOf[c] EXCEPT !.mint_settings = s]
      BY <3>1 DEF do_update_mint_settings, TypeOK, StorageTypeOK
    <3> QED
      BY <2>3, <2>4, <3>2 DEF CollectionConfig
  <2>7. CASE \E s \in SUBSET CollectionSetting : do_lock_collection(origin, c, s)
    <3>1. PICK s \in SUBSET CollectionSetting : do_lock_collection(origin, c, s)
      BY <2>7
    <3> DEFINE new_settings == CollectionConfigOf[c].settings \cup s
    <3>2. CollectionConfigOf[c] # None /\ CollectionConfigOf'[c] = [CollectionConfigOf[c] EXCEPT !.settings = new_settings]
      BY <3>1 DEF do_lock_collection, TypeOK, StorageTypeOK
    <3>3. new_settings \in SUBSET CollectionSetting
      BY <2>4, <3>2
    <3> HIDE DEF new_settings
    <3> QED
      BY <2>3, <2>4, <3>2, <3>3 DEF CollectionConfig
  <2> QED
    BY <2>2, <2>5, <2>6, <2>7
<1>5. Only(c) /\ KeptAt(c)
  BY <1>1, <1>2, <1>3, <1>4 DEF TypeOK, StorageTypeOK, Only, SameAt, KeptAt, CountersKept
<1> QED
  BY <1>5, KeptStep

\* A change of owner keeps the rest of the collection.
LEMMA MoveCollectionStructure ==
    ASSUME TypeOK, StructureInv, NEW c \in CollectionId, NEW a \in AccountId,
           Collection[c] # None, MoveCollection(c, a)
    PROVE  StructureInv'
<1>1. /\ Collection' = [Collection EXCEPT ![c].owner = a]
      /\ UNCHANGED <<CollectionConfigOf, CollectionRoleOf, CollectionMetadataOf, Item,
                     ItemConfigOf, ItemMetadataOf, ItemPriceOf, PendingSwapOf, Attribute,
                     ItemAttributesApprovalsOf>>
  BY DEF MoveCollection, itemVars, offerVars, attributeVars
<1>2. Collection[c] \in CollectionDetails
  BY DEF TypeOK, StorageTypeOK, Option
<1>3. Collection'[c] \in CollectionDetails /\ CountersKept(Collection[c], Collection'[c])
  BY <1>1, <1>2 DEF TypeOK, StorageTypeOK, CollectionDetails, CountersKept
<1>4. Only(c) /\ KeptAt(c)
  BY <1>1, <1>3, OptionAssumption DEF TypeOK, StorageTypeOK, Only, SameAt, KeptAt
<1> QED
  BY <1>4, KeptStep
-----------------------------------------------------------------------------
(* The item handlers *)

\* A mint inserts an item that did not exist into a collection that does, counts it,
\* and counts its config unless one outlived an earlier item of the same id.
LEMMA MintStructure ==
    ASSUME TypeOK, StructureInv, NEW c \in CollectionId, NEW i \in ItemId,
           NEW depositor \in AccountId, NEW mint_to \in AccountId,
           NEW config \in SUBSET ItemSetting, NEW d \in CollectionDetails,
           Item[c][i] = None, Collection[c] # None, CollectionConfigOf[c] # None,
           InsertItem(c, i, depositor, mint_to, config),
           Collection' = [Collection EXCEPT ![c] = d],
           d.items = SatInc(Collection[c].items),
           d.item_configs = IF ItemConfigOf[c][i] = None THEN SatInc(Collection[c].item_configs)
                            ELSE Collection[c].item_configs,
           d.item_metadatas = Cardinality(Stored(ItemMetadataOf'[c])),
           \A oc \in CollectionId : oc # c => ItemMetadataOf'[oc] = ItemMetadataOf[oc],
           \A oc \in CollectionId : Collection[oc] = None => Attribute'[oc] = Attribute[oc],
           UNCHANGED <<CollectionRoleOf, CollectionConfigOf, CollectionMetadataOf, ItemPriceOf,
                       PendingSwapOf, ItemAttributesApprovalsOf>>
    PROVE  StructureInv'
<1> DEFINE new == [owner |-> mint_to, approvals |-> NoApprovals,
                   deposit_account |-> depositor, deposit_amount |-> ItemDepositOf(c)]
<1>1. /\ Item' = [Item EXCEPT ![c][i] = new]
      /\ ItemConfigOf' = [ItemConfigOf EXCEPT ![c][i] = config]
  BY DEF InsertItem
<1>2. new \in ItemDetails
  BY DepositType DEF ItemDetails, NoApprovals
<1>3. new # None /\ config # None /\ d # None
  BY <1>2, OptionAssumption
<1> HIDE DEF new
<1>4. /\ Item'[c] = [Item[c] EXCEPT ![i] = new]
      /\ ItemConfigOf'[c] = [ItemConfigOf[c] EXCEPT ![i] = config]
      /\ Item[c] \in [ItemId -> Option(ItemDetails)]
      /\ ItemConfigOf[c] \in [ItemId -> Option(SUBSET ItemSetting)]
      /\ Collection'[c] = d
  BY <1>1 DEF TypeOK, StorageTypeOK
<1>5. Only(c)
  BY <1>1 DEF TypeOK, StorageTypeOK, Only, SameAt
<1>6. CountersOf(c) /\ OffersOf(c) /\ RolesOf(c)
  BY DEF StructureInv, Structure
<1>7. CountersOf(c)'
  <2>1. Cardinality(Stored(Item'[c])) = SatInc(Cardinality(Stored(Item[c])))
    BY <1>3, <1>4, StoredInc
  <2>2. CASE ItemConfigOf[c][i] = None
    <3>1. Cardinality(Stored(ItemConfigOf'[c])) = SatInc(Cardinality(Stored(ItemConfigOf[c])))
      <4> DEFINE T == Option(SUBSET ItemSetting)
                 m == ItemConfigOf[c]
      <4>1. m \in [ItemId -> T] /\ m[i] = None /\ ItemConfigOf'[c] = [m EXCEPT ![i] = config]
        BY <1>4, <2>2
      <4> HIDE DEF T, m
      <4>2. Cardinality(Stored([m EXCEPT ![i] = config])) = SatInc(Cardinality(Stored(m)))
        BY <1>3, <4>1, StoredInc
      <4> QED
        BY <4>1, <4>2 DEF m
    <3> QED
      BY <1>4, <1>6, <2>1, <2>2, <3>1 DEF CountersOf
  <2>3. CASE ItemConfigOf[c][i] # None
    <3>1. \A j \in ItemId : ItemConfigOf'[c][j] # None <=> ItemConfigOf[c][j] # None
      BY <1>3, <1>4, <2>3
    <3>2. Stored(ItemConfigOf'[c]) = Stored(ItemConfigOf[c])
      BY <3>1, StoredSame
    <3> QED
      BY <1>4, <1>6, <2>1, <2>3, <3>2 DEF CountersOf
  <2> QED
    BY <2>2, <2>3
<1>8. EmptyUnder(c)'
  BY <1>3, <1>4 DEF EmptyUnder
<1>9. OffersOf(c)'
  BY <1>3, <1>4, <1>6 DEF OffersOf
<1>10. RolesOf(c)'
  BY <1>6 DEF RolesOf, has_role
<1> QED
  BY <1>5, <1>7, <1>8, <1>9, <1>10, OneCollection DEF Structure

\* The counters of the details do_mint writes.
LEMMA MintedCounters ==
    ASSUME TypeOK, NEW c \in CollectionId, NEW i \in ItemId, Collection[c] # None
    PROVE  /\ MintedDetails(c, i).items = SatInc(Collection[c].items)
           /\ MintedDetails(c, i).item_configs =
                 IF ItemConfigOf[c][i] = None THEN SatInc(Collection[c].item_configs)
                 ELSE Collection[c].item_configs
           /\ MintedDetails(c, i).item_metadatas = Collection[c].item_metadatas
<1>1. Collection[c] \in CollectionDetails
  BY DEF TypeOK, StorageTypeOK, Option
<1> QED
  BY <1>1 DEF CollectionDetails, MintedDetails

\* do_mint keeps the structure if what its caller does to the attributes does.
LEMMA do_mint_Structure ==
    ASSUME TypeOK, StructureInv, NEW c \in CollectionId, NEW i \in ItemId,
           NEW depositor \in AccountId, NEW mint_to \in AccountId,
           NEW config \in SUBSET ItemSetting, NEW b \in BalanceSheet(AccountId),
           do_mint(c, i, depositor, mint_to, config, b),
           \A oc \in CollectionId : Collection[oc] = None => Attribute'[oc] = Attribute[oc]
    PROVE  StructureInv'
<1> DEFINE d == MintedDetails(c, i)
<1>1. /\ CanMint(c, i, depositor, config, b) /\ InsertItem(c, i, depositor, mint_to, config)
      /\ Collection' = [Collection EXCEPT ![c] = d]
      /\ UNCHANGED <<CollectionRoleOf, CollectionConfigOf, CollectionMetadataOf, ItemMetadataOf,
                     ItemPriceOf, PendingSwapOf, ItemAttributesApprovalsOf>>
  BY DEF do_mint, offerVars
<1>2. Item[c][i] = None /\ Collection[c] # None /\ CollectionConfigOf[c] # None
  BY <1>1 DEF CanMint
<1>3. /\ d \in CollectionDetails /\ d.items = SatInc(Collection[c].items)
      /\ d.item_configs = IF ItemConfigOf[c][i] = None THEN SatInc(Collection[c].item_configs)
                          ELSE Collection[c].item_configs
      /\ d.item_metadatas = Collection[c].item_metadatas
  BY <1>1, <1>2, MintedType, MintedCounters
<1> HIDE DEF d
<1>4. d.item_metadatas = Cardinality(Stored(ItemMetadataOf'[c]))
  BY <1>1, <1>2, <1>3 DEF StructureInv, Structure, CountersOf
<1> QED
  BY <1>1, <1>2, <1>3, <1>4, MintStructure

\* mint: a claim marks an item that its caller owns, so one of an existing collection.
LEMMA mint_Structure ==
    ASSUME TypeOK, OwnerIndexExact, StructureInv, NEW caller \in AccountId, NEW c \in CollectionId,
           NEW i \in ItemId, NEW mint_to \in AccountId, NEW owned \in Option(ItemId), NEW p,
           mint_as(caller, c, i, mint_to, owned, p)
    PROVE  StructureInv'
<1> DEFINE settings == CollectionConfigOf[c].mint_settings
           price    == IF settings.price = None THEN 0 ELSE settings.price
           paid     == Transfer(bal, caller, Collection[c].owner, price)
<1>1. /\ CollectionConfigOf[c] # None /\ Collection[c] # None
      /\ MintPermitted(caller, c, settings, owned)
      /\ CanTransfer(bal, caller, Collection[c].owner, price)
      /\ do_mint(c, i, caller, mint_to, settings.default_item_settings, paid)
      /\ MarkUsedToClaim(c, settings, owned)
  BY DEF mint_as
<1>2. Collection[c].owner \in AccountId /\ settings \in MintSettings
  BY <1>1 DEF TypeOK, StorageTypeOK, Option, CollectionDetails, CollectionConfig
<1>3. price \in Nat /\ settings.default_item_settings \in SUBSET ItemSetting
  BY <1>2 DEF MintSettings, Option
<1> HIDE DEF settings, price
<1>4. paid \in BalanceSheet(AccountId)
  BY <1>1, <1>2, <1>3, TransferType DEF TypeOK, StorageTypeOK
<1> HIDE DEF paid
<1>5. ASSUME NEW hc \in CollectionId, Collection[hc] = None
      PROVE  Attribute'[hc] = Attribute[hc]
  <2>1. settings.mint_type # HolderOf(hc)
    <3> SUFFICES ASSUME settings.mint_type = HolderOf(hc) PROVE FALSE
      OBVIOUS
    <3>0. /\ HolderOf(hc) # Issuer /\ HolderOf(hc) # Public
          /\ \A oc : HolderOf(hc) = HolderOf(oc) => hc = oc
      BY DEF HolderOf, Issuer, Public
    <3>1. owned # None /\ <<caller, hc, owned>> \in Account
      BY <1>1, <3>0 DEF MintPermitted
    <3>2. owned \in ItemId
      BY <3>1 DEF Option
    <3>3. Item[hc][owned] # None
      BY <3>1, <3>2 DEF OwnerIndexExact
    <3> QED
      BY <1>5, <3>2, <3>3 DEF StructureInv, Structure, OffersOf
  <2> QED
    BY <1>1, <2>1 DEF MarkUsedToClaim
<1> QED
  BY <1>1, <1>3, <1>4, <1>5, do_mint_Structure
\* force_mint, for which the collection's owner pays.
LEMMA force_mint_Structure ==
    ASSUME TypeOK, StructureInv, NEW origin, NEW c \in CollectionId, NEW i \in ItemId,
           NEW mint_to \in AccountId, NEW config \in SUBSET ItemSetting,
           do_force_mint(origin, c, i, mint_to, config)
    PROVE  StructureInv'
<1>1. Collection[c].owner \in AccountId /\ bal \in BalanceSheet(AccountId)
  BY DEF do_force_mint, TypeOK, StorageTypeOK, Option, CollectionDetails
<1> QED
  BY <1>1, do_mint_Structure DEF do_force_mint

\* What clearing an item's metadata does to the counters.
LEMMA ClearedCounters ==
    ASSUME TypeOK, NEW c \in CollectionId, NEW i \in ItemId, Collection[c] # None
    PROVE  /\ ClearedMetadataDetails(c, i).items = Collection[c].items
           /\ ClearedMetadataDetails(c, i).item_configs = Collection[c].item_configs
           /\ ClearedMetadataDetails(c, i).item_metadatas = SatDec(Collection[c].item_metadatas)
<1>1. Collection[c] \in CollectionDetails
  BY DEF TypeOK, StorageTypeOK, Option
<1> QED
  BY <1>1 DEF CollectionDetails, ClearedMetadataDetails

\* burn removes the item with its offers, its config if nothing in it is disabled, and
\* its metadata if it is not locked, and counts exactly what it removes.
LEMMA BurnStructure ==
    ASSUME TypeOK, StructureInv, NEW origin, NEW c \in CollectionId, NEW i \in ItemId,
           do_burn(origin, c, i)
    PROVE  StructureInv'
<1> DEFINE d == IF BurnsMetadata(c, i) THEN ClearedMetadataDetails(c, i) ELSE Collection[c]
           configs == IF ItemConfigOf[c][i] = {} THEN SatDec(d.item_configs) ELSE d.item_configs
           items == SatDec(d.items)
           left == [d EXCEPT !.items = items, !.item_configs = configs]
<1>1. /\ Collection[c] # None /\ Item[c][i] # None /\ ItemConfigOf[c][i] # None
      /\ Collection' = [Collection EXCEPT ![c] = left]
      /\ ItemMetadataOf' = IF BurnsMetadata(c, i)
                           THEN [ItemMetadataOf EXCEPT ![c][i] = None] ELSE ItemMetadataOf
      /\ Item' = [Item EXCEPT ![c][i] = None]
      /\ ItemConfigOf' = IF ItemConfigOf[c][i] = {}
                         THEN [ItemConfigOf EXCEPT ![c][i] = None] ELSE ItemConfigOf
      /\ RemoveOffers(c, i)
      /\ UNCHANGED <<CollectionRoleOf, CollectionConfigOf, CollectionMetadataOf, Attribute>>
  BY DEF do_burn
<1>2. /\ ItemPriceOf' = [ItemPriceOf EXCEPT ![c][i] = None]
      /\ PendingSwapOf' = [PendingSwapOf EXCEPT ![c][i] = None]
      /\ ItemAttributesApprovalsOf' = [ItemAttributesApprovalsOf EXCEPT ![c][i] = {}]
  BY <1>1 DEF RemoveOffers
<1>3. /\ Collection[c] \in CollectionDetails /\ bal \in BalanceSheet(AccountId)
      /\ BurnsMetadata(c, i) => ItemMetadataOf[c][i] # None
  BY <1>1 DEF TypeOK, StorageTypeOK, Option, BurnsMetadata
<1>4. /\ d \in CollectionDetails /\ d.items = Collection[c].items
      /\ d.item_configs = Collection[c].item_configs
      /\ d.item_metadatas = IF BurnsMetadata(c, i) THEN SatDec(Collection[c].item_metadatas)
                            ELSE Collection[c].item_metadatas
  BY <1>1, <1>3, ClearedMetadataType, ClearedCounters
<1> HIDE DEF d
<1>5. /\ left.items = items /\ left.item_configs = configs
      /\ left.item_metadatas = d.item_metadatas
  BY <1>4 DEF CollectionDetails
<1>6. left # None
  <2>2. configs \in u32 /\ items \in u32
    BY <1>4, CounterType DEF CollectionDetails
  <2> HIDE DEF configs, items
  <2>3. left \in CollectionDetails
    BY <1>4, <2>2 DEF CollectionDetails
  <2> QED
    BY <2>3, OptionAssumption
<1> HIDE DEF left
<1>7. /\ Item[c] \in [ItemId -> Option(ItemDetails)]
      /\ ItemMetadataOf[c] \in [ItemId -> Option(Deposited)]
      /\ ItemConfigOf[c] \in [ItemId -> Option(SUBSET ItemSetting)]
      /\ Item'[c] = [Item[c] EXCEPT ![i] = None] /\ Collection'[c] = left
      /\ ItemMetadataOf'[c] = IF BurnsMetadata(c, i) THEN [ItemMetadataOf[c] EXCEPT ![i] = None]
                              ELSE ItemMetadataOf[c]
      /\ ItemConfigOf'[c] = IF ItemConfigOf[c][i] = {} THEN [ItemConfigOf[c] EXCEPT ![i] = None]
                            ELSE ItemConfigOf[c]
  BY <1>1 DEF TypeOK, StorageTypeOK
<1>8. Only(c)
  BY <1>1, <1>2 DEF TypeOK, StorageTypeOK, Only, SameAt
<1>9. CountersOf(c) /\ OffersOf(c) /\ RolesOf(c)
  BY DEF StructureInv, Structure
<1>10. CountersOf(c)'
  <2>1. Cardinality(Stored(Item'[c])) = SatDec(Cardinality(Stored(Item[c])))
    BY <1>1, <1>7, StoredDec
  <2>2. Cardinality(Stored(ItemMetadataOf'[c])) = d.item_metadatas
    <3>1. CASE BurnsMetadata(c, i)
      <4>1. Cardinality(Stored(ItemMetadataOf'[c])) = SatDec(Cardinality(Stored(ItemMetadataOf[c])))
        BY <1>3, <1>7, <3>1, StoredDec
      <4> QED
        BY <1>1, <1>4, <1>9, <3>1, <4>1 DEF CountersOf
    <3>2. CASE ~ BurnsMetadata(c, i)
      BY <1>1, <1>4, <1>7, <1>9, <3>2 DEF CountersOf
    <3> QED
      BY <3>1, <3>2
  <2>3. Cardinality(Stored(ItemConfigOf'[c])) = configs
    <3>1. CASE ItemConfigOf[c][i] = {}
      <4> DEFINE T == Option(SUBSET ItemSetting)
                 m == ItemConfigOf[c]
      <4>1. m \in [ItemId -> T] /\ m[i] # None /\ ItemConfigOf'[c] = [m EXCEPT ![i] = None]
        BY <1>1, <1>7, <3>1
      <4> HIDE DEF T, m
      <4>2. Cardinality(Stored([m EXCEPT ![i] = None])) = SatDec(Cardinality(Stored(m)))
        BY <4>1, StoredDec
      <4> QED
        BY <1>1, <1>4, <1>9, <3>1, <4>1, <4>2 DEF CountersOf, m
    <3>2. CASE ItemConfigOf[c][i] # {}
      BY <1>1, <1>4, <1>7, <1>9, <3>2 DEF CountersOf
    <3> QED
      BY <3>1, <3>2
  <2> QED
    BY <1>1, <1>4, <1>5, <1>7, <1>9, <2>1, <2>2, <2>3 DEF CountersOf
<1>11. EmptyUnder(c)'
  BY <1>6, <1>7 DEF EmptyUnder
<1>12. OffersOf(c)'
  <2>1. /\ ItemPriceOf'[c] = [ItemPriceOf[c] EXCEPT ![i] = None]
        /\ PendingSwapOf'[c] = [PendingSwapOf[c] EXCEPT ![i] = None]
        /\ ItemAttributesApprovalsOf'[c] = [ItemAttributesApprovalsOf[c] EXCEPT ![i] = {}]
        /\ ItemPriceOf[c] \in [ItemId -> Option(ItemPriceInfo)]
        /\ PendingSwapOf[c] \in [ItemId -> Option(PendingSwap)]
        /\ ItemAttributesApprovalsOf[c] \in [ItemId -> SUBSET AccountId]
    BY <1>2 DEF TypeOK, StorageTypeOK
  <2> QED
    BY <1>1, <1>6, <1>7, <1>9, <2>1 DEF OffersOf
<1>13. RolesOf(c)'
  BY <1>1, <1>9 DEF RolesOf, has_role
<1> QED
  BY <1>8, <1>10, <1>11, <1>12, <1>13, OneCollection DEF Structure

\* A step that only changes items and configs that exist, and offers of existing items.
LEMMA ItemsStructure ==
    ASSUME TypeOK, StructureInv,
           UNCHANGED <<Collection, CollectionConfigOf, CollectionMetadataOf, CollectionRoleOf,
                       ItemMetadataOf, Attribute, ItemAttributesApprovalsOf>>,
           \A c \in CollectionId, i \in ItemId :
              /\ Item'[c][i] # None <=> Item[c][i] # None
              /\ ItemConfigOf'[c][i] # None <=> ItemConfigOf[c][i] # None
              /\ Item[c][i] = None => /\ ItemPriceOf'[c][i] \in {ItemPriceOf[c][i], None}
                                      /\ PendingSwapOf'[c][i] \in {PendingSwapOf[c][i], None}
    PROVE  StructureInv'
<1> SUFFICES ASSUME NEW c \in CollectionId
             PROVE  Structure(c)'
  BY DEF StructureInv
<1>1. CountersOf(c) /\ EmptyUnder(c) /\ OffersOf(c) /\ RolesOf(c)
  BY DEF StructureInv, Structure
<1>2. CountersOf(c)'
  <2>1. /\ Stored(Item'[c]) = Stored(Item[c])
        /\ Stored(ItemConfigOf'[c]) = Stored(ItemConfigOf[c])
    BY StoredSame
  <2> QED
    BY <1>1, <2>1 DEF CountersOf
<1>3. EmptyUnder(c)'
  BY <1>1 DEF EmptyUnder
<1>4. OffersOf(c)'
  BY <1>1 DEF OffersOf
<1>5. RolesOf(c)'
  BY <1>1 DEF RolesOf, has_role
<1> QED
  BY <1>2, <1>3, <1>4, <1>5 DEF Structure

\* Writing the details of an existing item keeps it existing.
LEMMA ItemWritten ==
    ASSUME TypeOK, NEW c \in CollectionId, NEW i \in ItemId, Item[c][i] # None,
           NEW d \in ItemDetails, Item' = [Item EXCEPT ![c][i] = d]
    PROVE  \A oc \in CollectionId, oi \in ItemId : Item'[oc][oi] # None <=> Item[oc][oi] # None
BY OptionAssumption DEF TypeOK, StorageTypeOK

\* So does moving one, also for a second time.
LEMMA MovedSame ==
    ASSUME NEW items \in [CollectionId -> [ItemId -> Option(ItemDetails)]],
           NEW c \in CollectionId, NEW i \in ItemId, NEW dest \in AccountId, items[c][i] # None
    PROVE  \A oc \in CollectionId, oi \in ItemId :
              MovedItem(items, c, i, dest)[oc][oi] # None <=> items[oc][oi] # None
<1> SUFFICES ASSUME NEW oc \in CollectionId, NEW oi \in ItemId, items[oc][oi] = None
             PROVE  MovedItem(items, c, i, dest)[oc][oi] = None
  BY MovedItemExists
<1> QED
  BY DEF MovedItem

\* do_transfer, whoever calls it.
LEMMA MoveToStructure ==
    ASSUME TypeOK, NEW c \in CollectionId, NEW i \in ItemId, NEW dest \in AccountId,
           Item[c][i] # None, MoveTo(c, i, dest)
    PROVE  \A oc \in CollectionId, oi \in ItemId :
              /\ Item'[oc][oi] # None <=> Item[oc][oi] # None
              /\ ItemPriceOf'[oc][oi] \in {ItemPriceOf[oc][oi], None}
              /\ PendingSwapOf'[oc][oi] \in {PendingSwapOf[oc][oi], None}
<1>1. Item' = MovedItem(Item, c, i, dest) /\ Item \in [CollectionId -> [ItemId -> Option(ItemDetails)]]
  BY DEF MoveTo, TypeOK, StorageTypeOK
<1>2. \A oc \in CollectionId, oi \in ItemId : Item'[oc][oi] # None <=> Item[oc][oi] # None
  BY <1>1, MovedSame
<1>3. \A oc \in CollectionId, oi \in ItemId :
        /\ ItemPriceOf'[oc][oi] \in {ItemPriceOf[oc][oi], None}
        /\ PendingSwapOf'[oc][oi] \in {PendingSwapOf[oc][oi], None}
  BY DEF MoveTo, TypeOK, StorageTypeOK
<1> QED
  BY <1>2, <1>3

\* Every item handler keeps the structure.
LEMMA ItemStepStructure ==
    ASSUME TypeOK, OwnerIndexExact, StructureInv, ItemStep
    PROVE  StructureInv'
<1>1. ASSUME NEW origin, NEW c \in CollectionId, NEW i \in ItemId, NEW dest \in AccountId,
             transfer_item(origin, c, i, dest)
      PROVE  StructureInv'
  <2>1. /\ Item[c][i] # None /\ MoveTo(c, i, dest)
        /\ UNCHANGED <<Collection, CollectionConfigOf, CollectionMetadataOf, CollectionRoleOf,
                       ItemConfigOf, ItemMetadataOf, Attribute, ItemAttributesApprovalsOf>>
    BY <1>1 DEF transfer_item, do_transfer, collectionVars, attributeVars
  <2> QED
    BY <2>1, MoveToStructure, ItemsStructure
<1>2. ASSUME NEW origin, NEW c \in CollectionId, NEW i \in ItemId, redeposit_item(origin, c, i)
      PROVE  StructureInv'
  <2> DEFINE d == [Item[c][i] EXCEPT !.deposit_amount = ItemDepositOf(c)]
  <2>1. /\ Item[c][i] # None /\ Item' = [Item EXCEPT ![c][i] = d]
        /\ UNCHANGED <<Collection, CollectionConfigOf, CollectionMetadataOf, CollectionRoleOf,
                       ItemConfigOf, ItemMetadataOf, Attribute, ItemAttributesApprovalsOf,
                       ItemPriceOf, PendingSwapOf>>
    BY <1>2 DEF redeposit_item, collectionVars, attributeVars, offerVars
  <2>2. Item[c][i] \in ItemDetails
    BY <2>1 DEF TypeOK, StorageTypeOK, Option
  <2>3. d \in ItemDetails
    BY <2>2, DepositType DEF ItemDetails
  <2> HIDE DEF d
  <2> QED
    BY <2>1, <2>3, ItemWritten, ItemsStructure
<1>3. ASSUME NEW origin, NEW c \in CollectionId, NEW i \in ItemId,
             \/ do_lock_item_transfer(origin, c, i)
             \/ do_unlock_item_transfer(origin, c, i)
             \/ \E s \in SUBSET {"UnlockedMetadata", "UnlockedAttributes"} :
                   do_lock_item_properties(origin, c, i, s)
      PROVE  StructureInv'
  <2>1. /\ ItemConfigOf[c][i] # None
        /\ \E s \in SUBSET ItemSetting : ItemConfigOf' = [ItemConfigOf EXCEPT ![c][i] = s]
    <3>1. ItemConfigOf[c][i] # None
      BY <1>3 DEF do_lock_item_transfer, do_unlock_item_transfer, do_lock_item_properties
    <3>2. ItemConfigOf[c][i] \in SUBSET ItemSetting
      BY <3>1 DEF TypeOK, StorageTypeOK, Option
    <3>3. CASE do_lock_item_transfer(origin, c, i)
      BY <3>1, <3>2, <3>3 DEF do_lock_item_transfer, ItemSetting
    <3>4. CASE do_unlock_item_transfer(origin, c, i)
      BY <3>1, <3>2, <3>4 DEF do_unlock_item_transfer, ItemSetting
    <3>5. CASE \E s \in SUBSET {"UnlockedMetadata", "UnlockedAttributes"} :
                   do_lock_item_properties(origin, c, i, s)
      BY <3>1, <3>2, <3>5 DEF do_lock_item_properties, ItemSetting
    <3> QED
      BY <1>3, <3>1, <3>3, <3>4, <3>5
  <2>2. \A oc \in CollectionId, oi \in ItemId : ItemConfigOf'[oc][oi] # None <=> ItemConfigOf[oc][oi] # None
    BY <2>1, OptionAssumption DEF TypeOK, StorageTypeOK
  <2>3. UNCHANGED <<Collection, CollectionConfigOf, CollectionMetadataOf, CollectionRoleOf, Item,
                    ItemMetadataOf, Attribute, ItemAttributesApprovalsOf, ItemPriceOf,
                    PendingSwapOf>>
    BY <1>3 DEF do_lock_item_transfer, do_unlock_item_transfer, do_lock_item_properties,
       ItemConfigFrame, collectionVars, attributeVars, offerVars
  <2> QED
    BY <2>2, <2>3, ItemsStructure
<1>4. ASSUME NEW c \in CollectionId, NEW i \in ItemId, NEW dest \in AccountId,
             enable_transfer_and_transfer(c, i, dest)
      PROVE  StructureInv'
  <2> DEFINE count == SatDec(Collection[c].attributes)
             d == [Collection[c] EXCEPT !.attributes = count]
  <2>1. /\ Collection[c] # None /\ Item[c][i] # None /\ MoveTo(c, i, dest)
        /\ Collection' = [Collection EXCEPT ![c] = d]
        /\ Attribute' = [Attribute EXCEPT ![c][<<i, Pallet, TransferDisabled>>] = None]
        /\ UNCHANGED <<CollectionConfigOf, CollectionMetadataOf, CollectionRoleOf,
                       ItemConfigOf, ItemMetadataOf, ItemAttributesApprovalsOf>>
    BY <1>4 DEF enable_transfer_and_transfer, TransferAllowed
  <2>2. Collection[c] \in CollectionDetails
    BY <2>1 DEF TypeOK, StorageTypeOK, Option
  <2>3. count \in u32
    BY <2>2, CounterType DEF CollectionDetails
  <2> HIDE DEF count
  <2>4. d \in CollectionDetails /\ d # None /\ CountersKept(Collection[c], d)
    BY <2>2, <2>3, OptionAssumption DEF CollectionDetails, CountersKept
  <2> HIDE DEF d
  <2>5. /\ Item' = MovedItem(Item, c, i, dest)
        /\ ItemPriceOf' = [ItemPriceOf EXCEPT ![c][i] = None]
        /\ PendingSwapOf' = [PendingSwapOf EXCEPT ![c][i] = None]
    BY <2>1 DEF MoveTo
  <2>6. \A oc \in CollectionId : oc # c => Item'[oc] = Item[oc]
    BY <2>5 DEF MovedItem, TypeOK, StorageTypeOK
  <2>7. Only(c)
    BY <2>1, <2>5, <2>6 DEF Only, SameAt, TypeOK, StorageTypeOK
  <2>8. \A oi \in ItemId :
            /\ Item'[c][oi] # None <=> Item[c][oi] # None
            /\ ItemPriceOf'[c][oi] \in {ItemPriceOf[c][oi], None}
            /\ PendingSwapOf'[c][oi] \in {PendingSwapOf[c][oi], None}
    BY <2>1, MoveToStructure
  <2>9. Collection'[c] = d
    BY <2>1 DEF TypeOK, StorageTypeOK
  <2>10. KeptAt(c)
    BY <2>1, <2>4, <2>8, <2>9 DEF KeptAt
  <2> QED
    BY <2>7, <2>10, KeptStep
<1> QED
  BY <1>1, <1>2, <1>3, <1>4, mint_Structure, force_mint_Structure, BurnStructure DEF ItemStep
-----------------------------------------------------------------------------
(* The handlers of trades, attributes and metadata *)

\* The approval handlers write the approvals of an item that exists, and nothing else.
LEMMA ApprovalsWritten ==
    ASSUME TypeOK, NEW origin, NEW c \in CollectionId, NEW i \in ItemId,
           \/ \E delegate \in AccountId, d \in Option(Nat) :
                 do_approve_transfer(origin, c, i, delegate, d)
           \/ \E delegate \in AccountId : do_cancel_approval(origin, c, i, delegate)
           \/ do_clear_all_transfer_approvals(origin, c, i)
    PROVE  /\ Item[c][i] # None /\ ApprovalFrame
           /\ \E d \in ItemDetails : /\ Item' = [Item EXCEPT ![c][i] = d]
                                     /\ d.owner = Item[c][i].owner
<1>1. Item[c][i] # None /\ ApprovalFrame
  BY DEF do_approve_transfer, do_cancel_approval, do_clear_all_transfer_approvals
<1>2. Item[c][i] \in ItemDetails
  BY <1>1 DEF TypeOK, StorageTypeOK, Option
<1>3. PICK approvals \in [AccountId -> Nat \cup {Forever, None}] :
         Item' = [Item EXCEPT ![c][i] = [Item[c][i] EXCEPT !.approvals = approvals]]
  <2>1. ASSUME NEW a \in AccountId, NEW x \in Nat \cup {Forever, None},
               Item' = [Item EXCEPT ![c][i].approvals[a] = x]
        PROVE  \E approvals \in [AccountId -> Nat \cup {Forever, None}] :
                  Item' = [Item EXCEPT ![c][i] = [Item[c][i] EXCEPT !.approvals = approvals]]
    <3> DEFINE approvals == [Item[c][i].approvals EXCEPT ![a] = x]
    <3>1. approvals \in [AccountId -> Nat \cup {Forever, None}]
      BY <1>2 DEF ItemDetails
    <3>2. Item' = [Item EXCEPT ![c][i] = [Item[c][i] EXCEPT !.approvals = approvals]]
      BY <2>1
    <3> HIDE DEF approvals
    <3> QED
      BY <3>1, <3>2
  <2>2. ASSUME NEW a \in AccountId, NEW d \in Option(Nat), do_approve_transfer(origin, c, i, a, d)
        PROVE  \E x \in Nat \cup {Forever, None} : Item' = [Item EXCEPT ![c][i].approvals[a] = x]
    <3> DEFINE x == IF d = None THEN Forever ELSE now + d
    <3>1. x \in Nat \cup {Forever, None}
      BY DEF Option, TypeOK, StorageTypeOK
    <3>2. Item' = [Item EXCEPT ![c][i].approvals[a] = x]
      BY <2>2 DEF do_approve_transfer
    <3> HIDE DEF x
    <3> QED
      BY <3>1, <3>2
  <2>3. ASSUME NEW a \in AccountId, do_cancel_approval(origin, c, i, a)
        PROVE  \E x \in Nat \cup {Forever, None} : Item' = [Item EXCEPT ![c][i].approvals[a] = x]
    BY <2>3 DEF do_cancel_approval
  <2>4. ASSUME do_clear_all_transfer_approvals(origin, c, i)
        PROVE  \E approvals \in [AccountId -> Nat \cup {Forever, None}] :
                  Item' = [Item EXCEPT ![c][i] = [Item[c][i] EXCEPT !.approvals = approvals]]
    <3>1. NoApprovals \in [AccountId -> Nat \cup {Forever, None}]
      BY DEF NoApprovals
    <3>2. Item' = [Item EXCEPT ![c][i] = [Item[c][i] EXCEPT !.approvals = NoApprovals]]
      BY <2>4 DEF do_clear_all_transfer_approvals
    <3> QED
      BY <3>1, <3>2
  <2> QED
    BY <2>1, <2>2, <2>3, <2>4
<1> DEFINE d == [Item[c][i] EXCEPT !.approvals = approvals]
<1>4. d \in ItemDetails /\ d.owner = Item[c][i].owner
  BY <1>2 DEF ItemDetails
<1> HIDE DEF d
<1>5. Item' = [Item EXCEPT ![c][i] = d]
  BY <1>3 DEF d
<1> QED
  BY <1>1, <1>4, <1>5

\* Both items that do_claim_swap moves existed, and keep existing.
LEMMA ClaimedSame ==
    ASSUME TypeOK, NEW caller \in AccountId, NEW sc \in CollectionId, NEW si \in ItemId,
           NEW rc \in CollectionId, NEW ri \in ItemId, NEW p,
           do_claim_swap(caller, sc, si, rc, ri, p)
    PROVE  \A oc \in CollectionId, oi \in ItemId : Item'[oc][oi] # None <=> Item[oc][oi] # None
<1> DEFINE receiver == Item[rc][ri].owner
           sent     == MovedItem(Item, sc, si, receiver)
<1>1. /\ Item[sc][si] # None /\ Item[rc][ri] # None
      /\ Item' = MovedItem(sent, rc, ri, caller)
  BY DEF do_claim_swap
<1>2. Item \in [CollectionId -> [ItemId -> Option(ItemDetails)]]
      /\ Account \in SUBSET (AccountId \X CollectionId \X ItemId)
  BY DEF TypeOK, StorageTypeOK
<1>3. receiver \in AccountId
  BY <1>1, <1>2 DEF Option, ItemDetails
<1>4. sent \in [CollectionId -> [ItemId -> Option(ItemDetails)]]
  BY <1>1, <1>2, <1>3, MovedType
<1>5. \A oc \in CollectionId, oi \in ItemId : sent[oc][oi] # None <=> Item[oc][oi] # None
  BY <1>1, <1>2, <1>3, MovedSame
<1> HIDE DEF sent
<1>6. \A oc \in CollectionId, oi \in ItemId : Item'[oc][oi] # None <=> sent[oc][oi] # None
  BY <1>1, <1>4, <1>5, MovedSame
<1> QED
  BY <1>5, <1>6

\* Every handler of approvals, sales, tips and swaps keeps the structure.
LEMMA TradingStepStructure ==
    ASSUME TypeOK, StructureInv, TradingStep
    PROVE  StructureInv'
<1> DEFINE Rest == UNCHANGED <<Collection, CollectionConfigOf, CollectionMetadataOf,
                               CollectionRoleOf, ItemConfigOf, ItemMetadataOf, Attribute,
                               ItemAttributesApprovalsOf>>
<1>1. ASSUME NEW origin, NEW c \in CollectionId, NEW i \in ItemId,
             \/ \E delegate \in AccountId, d \in Option(Nat) :
                   do_approve_transfer(origin, c, i, delegate, d)
             \/ \E delegate \in AccountId : do_cancel_approval(origin, c, i, delegate)
             \/ do_clear_all_transfer_approvals(origin, c, i)
      PROVE  StructureInv'
  <2>1. PICK d \in ItemDetails : Item' = [Item EXCEPT ![c][i] = d]
    BY <1>1, ApprovalsWritten
  <2>2. Item[c][i] # None /\ ApprovalFrame
    BY <1>1 DEF do_approve_transfer, do_cancel_approval, do_clear_all_transfer_approvals
  <2>3. Rest /\ UNCHANGED <<ItemPriceOf, PendingSwapOf>>
    BY <2>2 DEF ApprovalFrame, collectionVars, offerVars, attributeVars
  <2> QED
    BY <2>1, <2>2, <2>3, ItemWritten, ItemsStructure
<1>2. ASSUME NEW sender, NEW c \in CollectionId, NEW i \in ItemId, NEW price, NEW buyer,
             do_set_price(sender, c, i, price, buyer)
      PROVE  StructureInv'
  <2>1. Rest /\ UNCHANGED <<Item, PendingSwapOf>>
    BY <1>2 DEF do_set_price, collectionVars, itemVars, attributeVars
  <2>2. \A oc \in CollectionId, oi \in ItemId :
           Item[oc][oi] = None => ItemPriceOf'[oc][oi] = ItemPriceOf[oc][oi]
    BY <1>2 DEF do_set_price, TypeOK, StorageTypeOK
  <2> QED
    BY <2>1, <2>2, ItemsStructure
<1>3. ASSUME NEW buyer \in AccountId, NEW c \in CollectionId, NEW i \in ItemId, NEW bid,
             do_buy_item(buyer, c, i, bid)
      PROVE  StructureInv'
  <2>1. Item[c][i] # None /\ MoveTo(c, i, buyer) /\ Rest
    BY <1>3 DEF do_buy_item, do_transfer, collectionVars, attributeVars
  <2> QED
    BY <2>1, MoveToStructure, ItemsStructure
<1>4. ASSUME NEW sender, NEW receiver, NEW amount, do_pay_tip(sender, receiver, amount)
      PROVE  StructureInv'
  <2>1. Rest /\ UNCHANGED <<Item, ItemPriceOf, PendingSwapOf>>
    BY <1>4 DEF do_pay_tip, collectionVars, itemVars, attributeVars, offerVars
  <2> QED
    BY <2>1, ItemsStructure
<1>5. ASSUME NEW caller, NEW c \in CollectionId, NEW i \in ItemId, NEW dc, NEW di, NEW p, NEW d,
             \/ do_create_swap(caller, c, i, dc, di, p, d)
             \/ do_cancel_swap(caller, c, i)
      PROVE  StructureInv'
  <2>1. Rest /\ UNCHANGED <<Item, ItemPriceOf>>
    BY <1>5 DEF do_create_swap, do_cancel_swap, SwapFrame, collectionVars, itemVars, attributeVars
  <2>2. \A oc \in CollectionId, oi \in ItemId :
           Item[oc][oi] = None => PendingSwapOf'[oc][oi] \in {PendingSwapOf[oc][oi], None}
    <3>1. CASE do_create_swap(caller, c, i, dc, di, p, d)
      BY <3>1 DEF do_create_swap, TypeOK, StorageTypeOK
    <3>2. CASE do_cancel_swap(caller, c, i)
      BY <3>2 DEF do_cancel_swap, TypeOK, StorageTypeOK
    <3> QED
      BY <1>5, <3>1, <3>2
  <2> QED
    BY <2>1, <2>2, ItemsStructure
<1>6. ASSUME NEW caller \in AccountId, NEW sc \in CollectionId, NEW si \in ItemId,
             NEW rc \in CollectionId, NEW ri \in ItemId, NEW p,
             do_claim_swap(caller, sc, si, rc, ri, p)
      PROVE  StructureInv'
  <2>1. Rest
    BY <1>6 DEF do_claim_swap, collectionVars, attributeVars
  <2>2. \A oc \in CollectionId, oi \in ItemId :
           /\ ItemPriceOf'[oc][oi] \in {ItemPriceOf[oc][oi], None}
           /\ PendingSwapOf'[oc][oi] \in {PendingSwapOf[oc][oi], None}
    BY <1>6 DEF do_claim_swap, TypeOK, StorageTypeOK
  <2> QED
    BY <1>6, <2>1, <2>2, ClaimedSame, ItemsStructure
<1> QED
  BY <1>1, <1>2, <1>3, <1>4, <1>5, <1>6 DEF TradingStep
\* A step that changes data of one collection: its details but for the counters,
\* attributes, its metadata, the attribute approvals of items that exist.
LEMMA DataStructure ==
    ASSUME TypeOK, StructureInv, NEW c \in CollectionId, Collection[c] # None,
           NEW d \in CollectionDetails, CountersKept(Collection[c], d),
           Collection' = [Collection EXCEPT ![c] = d],
           \A oc \in CollectionId : oc # c =>
              /\ Attribute'[oc] = Attribute[oc]
              /\ CollectionMetadataOf'[oc] = CollectionMetadataOf[oc]
              /\ ItemAttributesApprovalsOf'[oc] = ItemAttributesApprovalsOf[oc],
           \A i \in ItemId : Item[c][i] = None =>
              ItemAttributesApprovalsOf'[c][i] = ItemAttributesApprovalsOf[c][i],
           UNCHANGED <<CollectionConfigOf, CollectionRoleOf, Item, ItemConfigOf, ItemMetadataOf,
                       ItemPriceOf, PendingSwapOf>>
    PROVE  StructureInv'
<1>1. d # None /\ Collection'[c] = d
  BY OptionAssumption DEF TypeOK, StorageTypeOK
<1>2. Only(c)
  BY DEF TypeOK, StorageTypeOK, Only, SameAt
<1>3. KeptAt(c)
  BY <1>1 DEF KeptAt
<1> QED
  BY <1>2, <1>3, KeptStep

\* The same for a step that changes the metadata of one item, and counts it.
LEMMA MetadataStructure ==
    ASSUME TypeOK, StructureInv, NEW c \in CollectionId, NEW i \in ItemId, Collection[c] # None,
           NEW v \in Option(Deposited), NEW d \in CollectionDetails,
           d.items = Collection[c].items, d.item_configs = Collection[c].item_configs,
           d.item_metadatas = Cardinality(Stored(ItemMetadataOf'[c])),
           Collection' = [Collection EXCEPT ![c] = d],
           ItemMetadataOf' = [ItemMetadataOf EXCEPT ![c][i] = v],
           UNCHANGED <<CollectionConfigOf, CollectionRoleOf, CollectionMetadataOf, Item,
                       ItemConfigOf, ItemPriceOf, PendingSwapOf, Attribute,
                       ItemAttributesApprovalsOf>>
    PROVE  StructureInv'
<1>1. d # None /\ Collection'[c] = d
  BY OptionAssumption DEF TypeOK, StorageTypeOK
<1>2. Only(c)
  BY DEF TypeOK, StorageTypeOK, Only, SameAt
<1>3. CountersOf(c) /\ OffersOf(c) /\ RolesOf(c)
  BY DEF StructureInv, Structure
<1>4. CountersOf(c)'
  BY <1>1, <1>3 DEF CountersOf
<1>5. EmptyUnder(c)'
  BY <1>1 DEF EmptyUnder
<1>6. OffersOf(c)'
  BY <1>1, <1>3 DEF OffersOf
<1>7. RolesOf(c)'
  BY <1>3 DEF RolesOf, has_role
<1> QED
  BY <1>2, <1>4, <1>5, <1>6, <1>7, OneCollection DEF Structure

\* What setting an attribute does to the counters: nothing.
LEMMA SetAttributeCounters ==
    ASSUME NEW c, NEW k, NEW len, NEW depositor, NEW b, NEW d \in CollectionDetails
    PROVE  CountersKept(d, SetAttribute(c, k, len, depositor, b, d).details)
BY DEF SetAttribute, CollectionDetails, CountersKept

\* Setting an item's metadata counts it unless it replaces another, and that is exact.
LEMMA SetMetadataCount ==
    ASSUME TypeOK, StructureInv, NEW c \in CollectionId, NEW i \in ItemId, Collection[c] # None,
           NEW v \in Deposited, ItemMetadataOf' = [ItemMetadataOf EXCEPT ![c][i] = v]
    PROVE  Cardinality(Stored(ItemMetadataOf'[c])) =
              IF ItemMetadataOf[c][i] = None THEN SatInc(Collection[c].item_metadatas)
              ELSE Collection[c].item_metadatas
<1>1. v # None
  BY OptionAssumption
<1>2. /\ ItemMetadataOf'[c] = [ItemMetadataOf[c] EXCEPT ![i] = v]
      /\ ItemMetadataOf[c] \in [ItemId -> Option(Deposited)]
  BY DEF TypeOK, StorageTypeOK
<1>3. Collection[c].item_metadatas = Cardinality(Stored(ItemMetadataOf[c]))
  BY DEF StructureInv, Structure, CountersOf
<1>4. CASE ItemMetadataOf[c][i] = None
  BY <1>1, <1>2, <1>3, <1>4, StoredInc
<1>5. CASE ItemMetadataOf[c][i] # None
  <2>1. \A j \in ItemId : ItemMetadataOf'[c][j] # None <=> ItemMetadataOf[c][j] # None
    BY <1>1, <1>2, <1>5
  <2>2. Stored(ItemMetadataOf'[c]) = Stored(ItemMetadataOf[c])
    BY <2>1, StoredSame
  <2> QED
    BY <1>3, <1>5, <2>2
<1> QED
  BY <1>4, <1>5

\* mint_pre_signed mints, and may set an attribute and the metadata of the new item;
\* the metadata may replace what a burned item of the same id left locked.
LEMMA mint_pre_signed_Structure ==
    ASSUME TypeOK, StructureInv, NEW mint_to \in AccountId, NEW c \in CollectionId,
           NEW i \in ItemId, NEW data \in PreSignedMint, NEW signer,
           do_mint_pre_signed(mint_to, c, i, data, signer)
    PROVE  StructureInv'
<1> DEFINE settings == CollectionConfigOf[c].mint_settings.default_item_settings
           price    == IF data.mint_price = None THEN 0 ELSE data.mint_price
           paid     == Transfer(bal, mint_to, Collection[c].owner, price)
           k        == <<i, CollectionOwner, data.attributes.key>>
           minted   == [ok |-> TRUE, bal |-> MintedBalance(c, mint_to, paid),
                        details |-> MintedDetails(c, i)]
           hasAdmin == AccountsByRole(c, "Admin") # {}
           setsAttribute == hasAdmin /\ data.attributes # None
           setsMetadata  == hasAdmin /\ data.metadata # 0
           setAttribute == SetAttribute(c, k, data.attributes.len, mint_to, minted.bal,
                                        minted.details)
           attributed == IF setsAttribute THEN setAttribute ELSE minted
           setMetadata == SetItemMetadata(c, i, data.metadata, FALSE, mint_to, attributed.bal,
                                          attributed.details)
           described == IF setsMetadata THEN setMetadata ELSE attributed
<1>1. /\ CollectionConfigOf[c] # None /\ Collection[c] # None
      /\ CanTransfer(bal, mint_to, Collection[c].owner, price)
      /\ CanMint(c, i, mint_to, settings, paid)
      /\ setsAttribute => attributed.ok
      /\ setsMetadata => described.ok
      /\ InsertItem(c, i, mint_to, mint_to, settings)
      /\ Collection' = [Collection EXCEPT ![c] = described.details]
      /\ ItemMetadataOf' = IF setsMetadata
                           THEN [ItemMetadataOf EXCEPT ![c][i] = described.entry]
                           ELSE ItemMetadataOf
  BY DEF do_mint_pre_signed
<1>2. /\ \A oc \in CollectionId : oc # c => Attribute'[oc] = Attribute[oc]
      /\ UNCHANGED <<CollectionRoleOf, CollectionConfigOf, CollectionMetadataOf, ItemPriceOf,
                     PendingSwapOf, ItemAttributesApprovalsOf>>
  <2>1. \/ Attribute' = Attribute
        \/ \E v : Attribute' = [Attribute EXCEPT ![c][k] = v]
    BY DEF do_mint_pre_signed
  <2> QED
    BY <2>1 DEF do_mint_pre_signed, offerVars, TypeOK, StorageTypeOK
<1>3. settings \in SUBSET ItemSetting
  BY <1>1 DEF Option, CollectionConfig, MintSettings, TypeOK, StorageTypeOK
<1>4. Collection[c].owner \in AccountId /\ price \in Nat
  BY <1>1 DEF Option, CollectionDetails, PreSignedMint, TypeOK, StorageTypeOK
<1>5. paid \in BalanceSheet(AccountId)
  BY <1>1, <1>4, TransferType DEF TypeOK, StorageTypeOK
<1>6. /\ minted.bal \in BalanceSheet(AccountId) /\ minted.details \in CollectionDetails
      /\ minted.details.items = SatInc(Collection[c].items)
      /\ minted.details.item_configs =
            IF ItemConfigOf[c][i] = None THEN SatInc(Collection[c].item_configs)
            ELSE Collection[c].item_configs
      /\ minted.details.item_metadatas = Collection[c].item_metadatas
  <2> HIDE DEF settings, paid
  <2> QED
    BY <1>1, <1>5, MintedType, MintedCounters
<1> HIDE DEF settings, price, paid, minted, hasAdmin
<1>7. ASSUME setsAttribute
      PROVE  k \in AttributeKey /\ data.attributes.len \in Nat
  BY <1>7 DEF PreSignedMint, Option, AttributeKey, ClientNamespace
<1>8. /\ attributed.bal \in BalanceSheet(AccountId) /\ attributed.details \in CollectionDetails
      /\ CountersKept(minted.details, attributed.details)
  <2>1. CASE setsAttribute
    <3>1. setAttribute.ok /\ attributed = setAttribute
      BY <1>1, <2>1
    <3> HIDE DEF k, attributed
    <3>2. /\ setAttribute.bal \in BalanceSheet(AccountId)
          /\ setAttribute.details \in CollectionDetails
          /\ CountersKept(minted.details, setAttribute.details)
      BY <1>6, <1>7, <2>1, <3>1, SetAttributeType, SetAttributeCounters
    <3> HIDE DEF setAttribute
    <3> QED
      BY <3>1, <3>2
  <2>2. CASE ~ setsAttribute
    BY <1>6, <2>2 DEF CountersKept
  <2> QED
    BY <2>1, <2>2
<1> HIDE DEF attributed, k
<1> DEFINE d == described.details
<1>9. /\ d \in CollectionDetails
      /\ d.items = minted.details.items /\ d.item_configs = minted.details.item_configs
      /\ d.item_metadatas = Cardinality(Stored(ItemMetadataOf'[c]))
      /\ \A oc \in CollectionId : oc # c => ItemMetadataOf'[oc] = ItemMetadataOf[oc]
  <2>1. CASE setsMetadata
    <3>1. setMetadata.ok /\ described = setMetadata
      BY <1>1, <2>1
    <3>2. data.metadata \in Nat /\ mint_to \in Option(AccountId)
      BY DEF PreSignedMint, Option
    <3>3. ItemMetadataOf' = [ItemMetadataOf EXCEPT ![c][i] = setMetadata.entry]
      BY <1>1, <2>1
    <3> HIDE DEF described
    <3>4. setMetadata.details \in CollectionDetails /\ setMetadata.entry \in Deposited
      BY <1>8, <3>1, <3>2, SetItemMetadataType
    <3>5. /\ setMetadata.details.items = attributed.details.items
          /\ setMetadata.details.item_configs = attributed.details.item_configs
          /\ setMetadata.details.item_metadatas =
                IF ItemMetadataOf[c][i] = None THEN SatInc(attributed.details.item_metadatas)
                ELSE attributed.details.item_metadatas
      BY <1>8 DEF SetItemMetadata, CollectionDetails
    <3> HIDE DEF setMetadata
    <3>6. Cardinality(Stored(ItemMetadataOf'[c])) =
             IF ItemMetadataOf[c][i] = None THEN SatInc(Collection[c].item_metadatas)
             ELSE Collection[c].item_metadatas
      BY <1>1, <3>3, <3>4, SetMetadataCount
    <3>7. \A oc \in CollectionId : oc # c => ItemMetadataOf'[oc] = ItemMetadataOf[oc]
      BY <3>3 DEF TypeOK, StorageTypeOK
    <3> QED
      BY <1>6, <1>8, <3>1, <3>4, <3>5, <3>6, <3>7 DEF CountersKept
  <2>2. CASE ~ setsMetadata
    <3>1. d = attributed.details /\ ItemMetadataOf' = ItemMetadataOf
      BY <1>1, <2>2
    <3>2. Collection[c].item_metadatas = Cardinality(Stored(ItemMetadataOf[c]))
      BY <1>1 DEF StructureInv, Structure, CountersOf
    <3> QED
      BY <1>6, <1>8, <3>1, <3>2 DEF CountersKept
  <2> QED
    BY <2>1, <2>2
<1>10. Collection' = [Collection EXCEPT ![c] = d]
  BY <1>1
<1>11. Item[c][i] = None
  BY <1>1 DEF CanMint
<1> HIDE DEF described, d, setsMetadata, setsAttribute
<1>12. \A oc \in CollectionId : Collection[oc] = None => Attribute'[oc] = Attribute[oc]
  BY <1>1, <1>2
<1>13. /\ d.items = SatInc(Collection[c].items)
       /\ d.item_configs = IF ItemConfigOf[c][i] = None THEN SatInc(Collection[c].item_configs)
                           ELSE Collection[c].item_configs
  BY <1>6, <1>9
<1> QED
  BY <1>1, <1>2, <1>3, <1>9, <1>10, <1>11, <1>12, <1>13, MintStructure

\* Every handler of attributes, metadata and pre-signed calls keeps the structure.
LEMMA DataStepStructure ==
    ASSUME TypeOK, StructureInv, DataStep
    PROVE  StructureInv'
<1>1. \A c \in CollectionId : Collection[c] # None =>
         /\ Collection[c] \in CollectionDetails
         /\ Collection[c].attributes \in u32 /\ Collection[c].owner_deposit \in Nat
  BY DEF TypeOK, StorageTypeOK, Option, CollectionDetails
<1>2. ASSUME NEW c \in CollectionId, NEW k, NEW v, Collection[c] # None,
             NEW d \in CollectionDetails, CountersKept(Collection[c], d),
             Collection' = [Collection EXCEPT ![c] = d],
             Attribute' = [Attribute EXCEPT ![c][k] = v],
             UNCHANGED ItemAttributesApprovalsOf, AttributeFrame
      PROVE  StructureInv'
  <2>1. \A oc \in CollectionId : oc # c => Attribute'[oc] = Attribute[oc]
    BY <1>2 DEF TypeOK, StorageTypeOK
  <2> QED
    BY <1>2, <2>1, DataStructure DEF AttributeFrame, itemVars, offerVars
<1>3. ASSUME NEW origin, NEW c \in CollectionId, NEW k \in AttributeKey, NEW n \in Nat,
             NEW depositor \in AccountId, do_set_attribute(origin, c, k, n, depositor)
      PROVE  StructureInv'
  <2> DEFINE set == SetAttribute(c, k, n, depositor, bal, Collection[c])
  <2>1. /\ Collection[c] # None /\ set.ok /\ Collection' = [Collection EXCEPT ![c] = set.details]
        /\ Attribute' = [Attribute EXCEPT ![c][k] = set.entry]
        /\ UNCHANGED ItemAttributesApprovalsOf /\ AttributeFrame
    BY <1>3 DEF do_set_attribute
  <2>2. set.details \in CollectionDetails
    BY <1>1, <2>1, SetAttributeType DEF TypeOK, StorageTypeOK
  <2>3. CountersKept(Collection[c], set.details)
    BY <1>1, <2>1, SetAttributeCounters
  <2> HIDE DEF set
  <2> QED
    BY <1>2, <2>1, <2>2, <2>3
<1>4. ASSUME NEW set_as, NEW c \in CollectionId, NEW k, NEW n,
             do_force_set_attribute(set_as, c, k, n)
      PROVE  StructureInv'
  <2> DEFINE count == IF Attribute[c][k] = None THEN SatInc(Collection[c].attributes)
                      ELSE Collection[c].attributes
             d == [Collection[c] EXCEPT !.attributes = count]
  <2>1. /\ Collection[c] # None
        /\ Collection' = [Collection EXCEPT ![c].attributes = count]
        /\ Attribute' = [Attribute EXCEPT ![c][k] =
                            [data |-> n, account |-> set_as, amount |-> 0]]
        /\ UNCHANGED ItemAttributesApprovalsOf /\ AttributeFrame
    BY <1>4 DEF do_force_set_attribute
  <2>2. count \in u32
    BY <1>1, <2>1, CounterType
  <2> HIDE DEF count
  <2>3. Collection[c] \in CollectionDetails
    BY <1>1, <2>1
  <2>4. d \in CollectionDetails /\ CountersKept(Collection[c], d)
    BY <2>2, <2>3 DEF CollectionDetails, CountersKept
  <2>5. Collection' = [Collection EXCEPT ![c] = d]
    BY <2>1
  <2> HIDE DEF d
  <2> QED
    BY <1>2, <2>1, <2>4, <2>5
<1>5. ASSUME NEW origin, NEW c \in CollectionId, NEW k \in AttributeKey,
             do_clear_attribute(origin, c, k)
      PROVE  StructureInv'
  <2> DEFINE byOwner == Attribute[c][k].account = None /\ k[2] = CollectionOwner
             count   == SatDec(Collection[c].attributes)
             deposit == IF byOwner
                        THEN SatSub(Collection[c].owner_deposit, Attribute[c][k].amount)
                        ELSE Collection[c].owner_deposit
             d == [Collection[c] EXCEPT !.attributes = count, !.owner_deposit = deposit]
  <2>1. /\ Collection[c] # None /\ Attribute[c][k] # None
        /\ Collection' = [Collection EXCEPT ![c] = d]
        /\ Attribute' = [Attribute EXCEPT ![c][k] = None]
        /\ UNCHANGED ItemAttributesApprovalsOf /\ AttributeFrame
    BY <1>5 DEF do_clear_attribute
  <2>2. Attribute[c][k].amount \in Nat
    BY <2>1 DEF TypeOK, StorageTypeOK, Option, Deposited
  <2>3. count \in u32
    BY <1>1, <2>1, CounterType
  <2> HIDE DEF byOwner, count
  <2>4. deposit \in Nat
    BY <1>1, <2>1, <2>2, SatSubType
  <2> HIDE DEF deposit
  <2>5. Collection[c] \in CollectionDetails
    BY <1>1, <2>1
  <2>6. d \in CollectionDetails /\ CountersKept(Collection[c], d)
    BY <2>3, <2>4, <2>5 DEF CollectionDetails, CountersKept
  <2> HIDE DEF d
  <2> QED
    BY <1>2, <2>1, <2>6
<1>6. ASSUME NEW c \in CollectionId, NEW i \in ItemId, Item[c][i] # None, NEW allowed,
             UNCHANGED Collection,
             ItemAttributesApprovalsOf' = [ItemAttributesApprovalsOf EXCEPT ![c][i] = allowed],
             \A oc \in CollectionId : oc # c => Attribute'[oc] = Attribute[oc],
             AttributeFrame
      PROVE  StructureInv'
  <2>1. Collection[c] # None
    BY <1>6 DEF StructureInv, Structure, OffersOf
  <2>2. Collection[c] \in CollectionDetails
    BY <1>1, <2>1
  <2>3. Collection' = [Collection EXCEPT ![c] = Collection[c]]
    BY <1>6 DEF TypeOK, StorageTypeOK
  <2>4. CountersKept(Collection[c], Collection[c])
    BY DEF CountersKept
  <2>5. /\ \A oc \in CollectionId : oc # c =>
              ItemAttributesApprovalsOf'[oc] = ItemAttributesApprovalsOf[oc]
        /\ \A j \in ItemId : Item[c][j] = None =>
              ItemAttributesApprovalsOf'[c][j] = ItemAttributesApprovalsOf[c][j]
    BY <1>6 DEF TypeOK, StorageTypeOK
  <2> QED
    BY <1>6, <2>1, <2>2, <2>3, <2>4, <2>5, DataStructure DEF AttributeFrame, itemVars, offerVars
<1>7. ASSUME NEW origin, NEW c \in CollectionId, NEW i \in ItemId, NEW a,
             do_approve_item_attributes(origin, c, i, a)
      PROVE  StructureInv'
  BY <1>6, <1>7 DEF do_approve_item_attributes, CanApproveItemAttributes
<1>8. ASSUME NEW origin, NEW c \in CollectionId, NEW i \in ItemId, NEW a,
             do_cancel_item_attributes_approval(origin, c, i, a)
      PROVE  StructureInv'
  <2>1. \E m : Attribute' = [Attribute EXCEPT ![c] = m]
    BY <1>8 DEF do_cancel_item_attributes_approval
  <2>2. \A oc \in CollectionId : oc # c => Attribute'[oc] = Attribute[oc]
    BY <2>1 DEF TypeOK, StorageTypeOK
  <2>3. /\ Item[c][i] # None /\ UNCHANGED Collection /\ AttributeFrame
        /\ ItemAttributesApprovalsOf' =
              [ItemAttributesApprovalsOf EXCEPT ![c][i] = ItemAttributesApprovalsOf[c][i] \ {a}]
    BY <1>8 DEF do_cancel_item_attributes_approval
  <2> QED
    BY <1>6, <2>2, <2>3
<1>9. ASSUME NEW origin, NEW c \in CollectionId, NEW i \in ItemId, NEW n \in Nat,
              do_set_item_metadata(origin, c, i, n)
       PROVE  StructureInv'
  <2> DEFINE set == SetItemMetadata(c, i, n, origin = Root, None, bal, Collection[c])
             d == set.details
             v == set.entry
  <2>1. /\ Collection[c] # None /\ set.ok
        /\ Collection' = [Collection EXCEPT ![c] = d]
        /\ ItemMetadataOf' = [ItemMetadataOf EXCEPT ![c][i] = v]
        /\ UNCHANGED <<CollectionConfigOf, CollectionRoleOf, CollectionMetadataOf, Item,
                       ItemConfigOf, ItemPriceOf, PendingSwapOf, Attribute,
                       ItemAttributesApprovalsOf>>
    BY <1>9 DEF do_set_item_metadata, offerVars, attributeVars
  <2>2. None \in Option(AccountId)
    BY DEF Option
  <2>3. d \in CollectionDetails /\ v \in Deposited
    <3>1. bal \in BalanceSheet(AccountId) /\ Collection[c] \in CollectionDetails
      BY <1>1, <2>1 DEF TypeOK, StorageTypeOK
    <3> QED
      BY <2>1, <2>2, <3>1, SetItemMetadataType
  <2>4. /\ d.items = Collection[c].items /\ d.item_configs = Collection[c].item_configs
        /\ d.item_metadatas =
              IF ItemMetadataOf[c][i] = None THEN SatInc(Collection[c].item_metadatas)
              ELSE Collection[c].item_metadatas
    <3>1. Collection[c] \in CollectionDetails
      BY <1>1, <2>1
    <3> QED
      BY <3>1 DEF SetItemMetadata, CollectionDetails
  <2> HIDE DEF d, v
  <2>5. d.item_metadatas = Cardinality(Stored(ItemMetadataOf'[c]))
    BY <2>1, <2>3, <2>4, SetMetadataCount
  <2>6. v \in Option(Deposited)
    BY <2>3 DEF Option
  <2> QED
    BY <2>1, <2>3, <2>4, <2>5, <2>6, MetadataStructure
<1>10. ASSUME NEW origin, NEW c \in CollectionId, NEW i \in ItemId,
              do_clear_item_metadata(origin, c, i)
       PROVE  StructureInv'
  <2> DEFINE d == ClearedMetadataDetails(c, i)
  <2>1. /\ Collection[c] # None /\ ItemMetadataOf[c][i] # None
        /\ Collection' = [Collection EXCEPT ![c] = d]
        /\ ItemMetadataOf' = [ItemMetadataOf EXCEPT ![c][i] = None]
        /\ UNCHANGED <<CollectionConfigOf, CollectionRoleOf, CollectionMetadataOf, Item,
                       ItemConfigOf, ItemPriceOf, PendingSwapOf, Attribute,
                       ItemAttributesApprovalsOf>>
    BY <1>10 DEF do_clear_item_metadata, offerVars, attributeVars
  <2>2. d \in CollectionDetails
    BY <2>1, ClearedMetadataType DEF TypeOK, StorageTypeOK
  <2>3. /\ d.items = Collection[c].items /\ d.item_configs = Collection[c].item_configs
        /\ d.item_metadatas = SatDec(Collection[c].item_metadatas)
    BY <2>1, ClearedCounters
  <2> HIDE DEF d
  <2>4. /\ ItemMetadataOf'[c] = [ItemMetadataOf[c] EXCEPT ![i] = None]
        /\ ItemMetadataOf[c] \in [ItemId -> Option(Deposited)]
    BY <2>1 DEF TypeOK, StorageTypeOK
  <2>5. Collection[c].item_metadatas = Cardinality(Stored(ItemMetadataOf[c]))
    BY <2>1 DEF StructureInv, Structure, CountersOf
  <2>6. d.item_metadatas = Cardinality(Stored(ItemMetadataOf'[c]))
    <3> DEFINE T == Option(Deposited)
               m == ItemMetadataOf[c]
    <3>1. m \in [ItemId -> T] /\ m[i] # None
      BY <2>1, <2>4
    <3> HIDE DEF T, m
    <3>2. Cardinality(Stored([m EXCEPT ![i] = None])) = SatDec(Cardinality(Stored(m)))
      BY <3>1, StoredDec
    <3> QED
      BY <2>3, <2>4, <2>5, <3>2 DEF m
  <2>7. None \in Option(Deposited)
    BY DEF Option
  <2> QED
    BY <2>1, <2>2, <2>3, <2>6, <2>7, MetadataStructure
<1>11. ASSUME NEW c \in CollectionId, Collection[c] # None, NEW deposit \in Nat, NEW v,
              Collection' = [Collection EXCEPT ![c].owner_deposit = deposit],
              CollectionMetadataOf' = [CollectionMetadataOf EXCEPT ![c] = v],
              CollectionMetadataFrame
       PROVE  StructureInv'
  <2> DEFINE d == [Collection[c] EXCEPT !.owner_deposit = deposit]
  <2>1. Collection[c] \in CollectionDetails
    BY <1>1, <1>11
  <2>2. d \in CollectionDetails /\ CountersKept(Collection[c], d)
    BY <2>1 DEF CollectionDetails, CountersKept
  <2>3. Collection' = [Collection EXCEPT ![c] = d]
    BY <1>11
  <2>4. \A oc \in CollectionId : oc # c => CollectionMetadataOf'[oc] = CollectionMetadataOf[oc]
    BY <1>11 DEF TypeOK, StorageTypeOK
  <2> HIDE DEF d
  <2> QED
    BY <1>11, <2>2, <2>3, <2>4, DataStructure
    DEF CollectionMetadataFrame, itemVars, offerVars, attributeVars
<1>12. ASSUME NEW origin, NEW c \in CollectionId, NEW n \in Nat,
              do_set_collection_metadata(origin, c, n)
       PROVE  StructureInv'
  <2> DEFINE old       == CollectionMetadataOf[c]
             oldAmount == IF old = None THEN 0 ELSE old.deposit
             new       == IF origin # Root /\ CollectionSettingEnabled(c, "DepositRequired")
                          THEN MetadataDeposit(n) ELSE 0
             deposit   == SatSub(Collection[c].owner_deposit, oldAmount) + new
  <2>1. /\ Collection[c] # None /\ CollectionMetadataFrame
        /\ Collection' = [Collection EXCEPT ![c].owner_deposit = deposit]
        /\ CollectionMetadataOf' = [CollectionMetadataOf EXCEPT ![c] =
              [deposit |-> new, data |-> n]]
    BY <1>12 DEF do_set_collection_metadata
  <2>2. oldAmount \in Nat
    BY DEF TypeOK, StorageTypeOK, Option, CollectionMetadata
  <2>3. new \in Nat
    BY DepositType
  <2> HIDE DEF oldAmount, new
  <2>4. deposit \in Nat
    BY <1>1, <2>1, <2>2, <2>3, SatSubType
  <2> HIDE DEF deposit
  <2> QED
    BY <1>11, <2>1, <2>4
<1>13. ASSUME NEW origin, NEW c \in CollectionId, do_clear_collection_metadata(origin, c)
       PROVE  StructureInv'
  <2> DEFINE deposit == SatSub(Collection[c].owner_deposit, CollectionMetadataOf[c].deposit)
  <2>1. /\ Collection[c] # None /\ CollectionMetadataFrame /\ CollectionMetadataOf[c] # None
        /\ Collection' = [Collection EXCEPT ![c].owner_deposit = deposit]
        /\ CollectionMetadataOf' = [CollectionMetadataOf EXCEPT ![c] = None]
    BY <1>13 DEF do_clear_collection_metadata
  <2>2. CollectionMetadataOf[c].deposit \in Nat
    BY <2>1 DEF TypeOK, StorageTypeOK, Option, CollectionMetadata
  <2>3. deposit \in Nat
    BY <1>1, <2>1, <2>2, SatSubType
  <2> HIDE DEF deposit
  <2> QED
    BY <1>11, <2>1, <2>3
<1>14. ASSUME NEW mint_to \in AccountId, NEW c \in CollectionId, NEW i \in ItemId,
              NEW data \in PreSignedMint, NEW signer,
              do_mint_pre_signed(mint_to, c, i, data, signer)
       PROVE  StructureInv'
  BY <1>14, mint_pre_signed_Structure
<1>15. ASSUME NEW origin \in AccountId, NEW c \in CollectionId, NEW k \in AttributeKey,
              NEW n \in Nat, NEW d, NEW signer,
              do_set_attributes_pre_signed(origin, c, k, n, d, signer)
       PROVE  StructureInv'
  <2> DEFINE set == SetAttribute(c, k, n, origin, bal, Collection[c])
  <2>1. /\ Collection[c] # None /\ set.ok /\ Collection' = [Collection EXCEPT ![c] = set.details]
        /\ Attribute' = [Attribute EXCEPT ![c][k] = set.entry]
        /\ k[1] # None /\ Item[c][k[1]] # None
        /\ \/ ItemAttributesApprovalsOf' = ItemAttributesApprovalsOf
           \/ \E allowed : ItemAttributesApprovalsOf' =
                             [ItemAttributesApprovalsOf EXCEPT ![c][k[1]] = allowed]
        /\ AttributeFrame
    BY <1>15 DEF do_set_attributes_pre_signed
  <2>2. set.details \in CollectionDetails
    BY <1>1, <2>1, SetAttributeType DEF TypeOK, StorageTypeOK
  <2>3. CountersKept(Collection[c], set.details)
    BY <1>1, <2>1, SetAttributeCounters
  <2> HIDE DEF set
  <2>4. \A oc \in CollectionId : oc # c =>
          /\ Attribute'[oc] = Attribute[oc]
          /\ ItemAttributesApprovalsOf'[oc] = ItemAttributesApprovalsOf[oc]
    BY <2>1 DEF TypeOK, StorageTypeOK
  <2>5. \A j \in ItemId : Item[c][j] = None =>
           ItemAttributesApprovalsOf'[c][j] = ItemAttributesApprovalsOf[c][j]
    BY <2>1 DEF TypeOK, StorageTypeOK
  <2> QED
    BY <2>1, <2>2, <2>3, <2>4, <2>5, DataStructure DEF AttributeFrame, itemVars, offerVars
<1> QED
  BY <1>3, <1>4, <1>5, <1>7, <1>8, <1>9, <1>10, <1>12, <1>13, <1>14, <1>15 DEF DataStep

\* Every handler of collections, roles, settings and ownership keeps the structure.
LEMMA CollectionStepStructure ==
    ASSUME TypeOK, StructureInv, CollectionStep
    PROVE  StructureInv'
<1>1. ASSUME NEW origin, NEW c \in CollectionId, NEW a \in AccountId,
             do_transfer_ownership(origin, c, a) \/ do_force_collection_owner(c, a)
      PROVE  StructureInv'
  BY <1>1, MoveCollectionStructure DEF do_transfer_ownership, do_force_collection_owner
<1>2. ASSUME NEW who, NEW m, do_set_accept_ownership(who, m)
      PROVE  StructureInv'
  <2>1. \A c \in CollectionId : SameAt(c)
    BY <1>2 DEF do_set_accept_ownership, collectionVars, itemVars, offerVars, attributeVars, SameAt
  <2> QED
    BY <2>1, SameStructure DEF StructureInv
<1>3. ASSUME NEW owner \in AccountId, NEW admin \in AccountId, NEW config \in CollectionConfig,
             NEW deposit \in Nat, do_create_collection(NextId, owner, admin, config, deposit)
      PROVE  StructureInv'
  BY <1>3, CreateStructure
<1>4. ASSUME NEW origin, NEW c \in CollectionId, do_destroy_collection(origin, c)
      PROVE  StructureInv'
  BY <1>4, DestroyStructure
<1>5. ASSUME NEW origin, NEW c \in CollectionId, NEW team, do_set_team(origin, c, team)
      PROVE  StructureInv'
  BY <1>5, SetTeamStructure
<1>6. ASSUME NEW origin, NEW c \in CollectionId,
             \/ \E config \in CollectionConfig : do_force_collection_config(c, config)
             \/ \E n \in Nat : do_set_collection_max_supply(origin, c, n)
             \/ \E s \in MintSettings : do_update_mint_settings(origin, c, s)
             \/ \E s \in SUBSET CollectionSetting : do_lock_collection(origin, c, s)
      PROVE  StructureInv'
  BY <1>6, ConfigStructure
<1> QED
  BY <1>1, <1>2, <1>3, <1>4, <1>5, <1>6 DEF CollectionStep

\* Every step keeps the structure, given the types and the index of owners, which mint
\* reads to see that the item a HolderOf claim is made with exists.
LEMMA StructureStep == TypeOK /\ OwnerIndexExact /\ StructureInv /\ [Next]_vars => StructureInv'
<1> SUFFICES ASSUME TypeOK, OwnerIndexExact, StructureInv, [Next]_vars
             PROVE  StructureInv'
  OBVIOUS
<1>1. ASSUME NextBlock \/ UNCHANGED vars
      PROVE  StructureInv'
  <2>1. \A c \in CollectionId : SameAt(c)
    BY <1>1 DEF NextBlock, vars, collectionVars, itemVars, offerVars, attributeVars, SameAt
  <2> QED
    BY <2>1, SameStructure DEF StructureInv
<1>2. CASE Next
  BY <1>1, <1>2, NextStep, CollectionStepStructure, ItemStepStructure, TradingStepStructure,
     DataStepStructure
<1> QED
  BY <1>1, <1>2

\* The storage starts empty.
LEMMA StructureInit == Init => StructureInv
<1> SUFFICES ASSUME Init, NEW c \in CollectionId
             PROVE  Structure(c)
  BY DEF StructureInv
<1>1. CountersOf(c) /\ EmptyUnder(c) /\ OffersOf(c)
  BY DEF Init, StorageInit, CountersOf, EmptyUnder, OffersOf
<1>2. RolesOf(c)
  BY DEF Init, StorageInit, RolesOf, has_role
<1> QED
  BY <1>1, <1>2 DEF Structure

\* The inductive invariant: every collection's storage is well formed after any calls.
THEOREM StructureKept == Spec => []StructureInv
BY StructureInit, TypeCorrect, OwnersIndexed, StructureStep, PTL DEF Spec

\* The counters items, item_metadatas and item_configs of every collection count what
\* is stored under it, so destroy's test for emptiness and its bound on the configs to
\* clear are right, for any number of accounts, collections and items.
THEOREM CountersAreExact == Spec => []CountersExact
BY StructureKept, TypeCorrect, StructureParts, PTL

\* destroy leaves nothing behind under a collection's id.
THEOREM DestroyLeavesNothing == Spec => []NothingOutlivesCollection
BY StructureKept, TypeCorrect, StructureParts, PTL

\* Prices, swaps and attribute approvals exist for existing items only, and an existing
\* item always has its collection, its collection's config and its own.
THEOREM OffersBelongToItems == Spec => []OffersNeedItem
BY StructureKept, TypeCorrect, StructureParts, PTL

\* A role has at most one holder, and clear_roles always clears every role.
THEOREM RolesAreUnique == Spec => []RolesUnique
BY StructureKept, TypeCorrect, StructureParts, PTL
=============================================================================
