----------------------------- MODULE Migration -----------------------------
(***************************************************************************)
(* The migration of pallet_nfts from storage version 0, whose collections  *)
(* have no count of item configurations, to version 1.  The chain mints    *)
(* and burns before and after the upgrade; burning an item whose           *)
(* configuration disables a setting keeps the configuration.  The upgrade  *)
(* runs in the first block of the new code, before any call.               *)
(***************************************************************************)
EXTENDS Naturals, FiniteSets

CONSTANTS CollectionId, ItemId, NoCount   \* NoCount: the field a version 0 record lacks

VARIABLES code,         \* in_code_storage_version
          version,      \* on_chain_storage_version
          details,      \* Collection: the counts of items and of item configurations
          items,        \* Item, by collection
          configs,      \* ItemConfigOf, by collection
          locked        \* the items whose configuration disables transfers

migrationVars == <<code, version, details, items, configs, locked>>

\* A chain that started with the old code, or with the new.
MigrationInit ==
    /\ code \in {0, 1} /\ version = code
    /\ details = [c \in CollectionId |->
                    [items |-> 0, item_configs |-> IF code = 0 THEN NoCount ELSE 0]]
    /\ items = [c \in CollectionId |-> {}]
    /\ configs = [c \in CollectionId |-> {}]
    /\ locked = [c \in CollectionId |-> {}]

\* The code before and after the upgrade: only the new code counts configurations.
Counted(c, n) == IF code = 0 THEN details[c].item_configs ELSE n

mint(c, i) ==
    /\ i \notin items[c]
    /\ LET fresh == i \notin configs[c]
       IN  details' = [details EXCEPT ![c] =
               [items |-> @.items + 1,
                item_configs |-> Counted(c, IF fresh THEN @.item_configs + 1 ELSE @.item_configs)]]
    /\ items' = [items EXCEPT ![c] = @ \cup {i}]
    /\ configs' = [configs EXCEPT ![c] = @ \cup {i}]
    /\ UNCHANGED <<code, version, locked>>

\* lock_item_transfer and unlock_item_transfer, which need a configuration, not an item.
change_item_transfer(c, i) ==
    /\ i \in configs[c]
    /\ locked' = [locked EXCEPT ![c] = IF i \in @ THEN @ \ {i} ELSE @ \cup {i}]
    /\ UNCHANGED <<code, version, details, items, configs>>

burn(c, i) ==
    /\ i \in items[c]
    /\ LET kept == i \in locked[c]
       IN  /\ details' = [details EXCEPT ![c] =
                [items |-> @.items - 1,
                 item_configs |-> Counted(c, IF kept THEN @.item_configs ELSE @.item_configs - 1)]]
           /\ configs' = IF kept THEN configs ELSE [configs EXCEPT ![c] = @ \ {i}]
    /\ items' = [items EXCEPT ![c] = @ \ {i}]
    /\ UNCHANGED <<code, version, locked>>

\* A bug: a configuration is counted for each item.
migrate_to_v1_items(old, n) == [items |-> old.items, item_configs |-> old.items]

\* OldCollectionDetails::migrate_to_v1.
migrate_to_v1(old, n) == [items |-> old.items, item_configs |-> n]

\* MigrateToV1::on_runtime_upgrade.
on_runtime_upgrade ==
    /\ code' = 1
    /\ IF version = 0
       THEN /\ details' = [c \in CollectionId |->
                             migrate_to_v1(details[c], Cardinality(configs[c]))]
            /\ version' = 1
       ELSE UNCHANGED <<details, version>>
    /\ UNCHANGED <<items, configs, locked>>

MigrationNext ==
    \/ on_runtime_upgrade
    \/ \E c \in CollectionId, i \in ItemId : \/ mint(c, i)
                                             \/ change_item_transfer(c, i)
                                             \/ burn(c, i)
=============================================================================
