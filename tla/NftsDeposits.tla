---------------------------- MODULE NftsDeposits ----------------------------
(***************************************************************************)
(* Proofs that the deposits of pallet-nfts are accounted for: what an      *)
(* account has reserved is what is recorded in its name, and owner_deposit *)
(* is what the collection's owner has paid.  Each is needed for the other: *)
(* unreserve and saturating_sub take away at most what is there, so that a *)
(* refund is exact only while the record it refunds is covered.            *)
(*                                                                         *)
(* Neither holds of every call.  Pre-signed data lets an item's owner pay  *)
(* for what the collection's owner had paid for, and owner_deposit keeps   *)
(* the old amount (the run replacedDeposit); root may force an attribute   *)
(* somebody has paid for, and the deposit is no longer recorded.  The      *)
(* theorems exclude both by PlainDeposits, a hypothesis on what is         *)
(* submitted that the runs structure and attributes meet.                  *)
(***************************************************************************)
EXTENDS NftsStructure, Sums

\* Nobody sets attributes or metadata with pre-signed data, and root forces attributes of
\* the Pallet namespace only, for which nobody pays.
PlainDeposits ==
    /\ Callers["set_attributes_pre_signed"] = {}
    /\ Callers["mint_pre_signed"] # {}
          => \A data \in MintData : data.attributes = None /\ data.metadata = 0
    /\ Callers["force_set_attribute"] # {} => \A k \in ForceKeys : k[2] = Pallet

\* In whose name the deposit of an attribute is, by its namespace, and that of an item's
\* metadata: None stands for the collection's owner.
AttributePayer(k, entry) == entry # None =>
    /\ k[2] = Pallet => entry.amount = 0
    /\ k[2] = CollectionOwner => entry.account = None
    /\ k[2] = ItemOwner => entry.account # None
    /\ \A a \in AccountId : k[2] = AccountNs(a) => entry.account = a

PayersOf(c) ==
    /\ \A k \in AttributeKey : AttributePayer(k, Attribute[c][k])
    /\ \A i \in ItemId : ItemMetadataOf[c][i] # None => ItemMetadataOf[c][i].account = None

\* OwnerDepositExact for one collection.
OwnerBooks(c) == Collection[c] # None =>
    Collection[c].owner_deposit \in {OwnerPaid(c), CollectionDeposit + OwnerPaid(c)}

\* The invariant.
DepositsInv ==
    /\ \A c \in CollectionId : PayersOf(c) /\ OwnerBooks(c)
    /\ ReservesExact

-----------------------------------------------------------------------------
(* Sums of deposits *)

\* The image of a finite set, and triples from finite sets.
LEMMA ImageFinite ==
    ASSUME NEW S, IsFiniteSet(S), NEW f, f = [x \in S |-> f[x]]
    PROVE  IsFiniteSet({f[x] : x \in S})
<1>1. PICK T : T = {f[x] : x \in S}
  OBVIOUS
<1>2. f \in Surjection(S, T)
  BY <1>1 DEF Surjection
<1> QED
  BY <1>1, <1>2, FS_Surjection

LEMMA TriplesFinite ==
    ASSUME NEW A, NEW B, NEW C, IsFiniteSet(A), IsFiniteSet(B), IsFiniteSet(C)
    PROVE  IsFiniteSet(A \X B \X C)
<1>1. PICK S : S = (A \X B) \X C
  OBVIOUS
<1>2. IsFiniteSet(S)
  BY <1>1, FS_Product
<1>3. PICK f : f = [p \in S |-> <<p[1][1], p[1][2], p[2]>>]
  OBVIOUS
<1>4. IsFiniteSet({f[p] : p \in S})
  BY <1>2, <1>3, ImageFinite
<1>5. ASSUME NEW t \in A \X B \X C PROVE t \in {f[p] : p \in S}
  <2>1. PICK x \in A, y \in B, z \in C : t = <<x, y, z>>
    OBVIOUS
  <2>2. <<<<x, y>>, z>> \in S
    BY <1>1
  <2>3. f[<<<<x, y>>, z>>] = <<x, y, z>>
    BY <1>3, <2>2
  <2> QED
    BY <2>1, <2>2, <2>3
<1>6. A \X B \X C \subseteq {f[p] : p \in S}
  BY <1>5
<1> QED
  BY <1>4, <1>6, FS_Subset

\* There are finitely many keys of every map.
LEMMA KeysFinite ==
    IsFiniteSet(AttributeKey) /\ IsFiniteSet(ItemId) /\ IsFiniteSet(CollectionId)
<1>1. IsFiniteSet(CollectionId)
  BY FS_Interval, StorageAssumption DEF CollectionId
<1>2. IsFiniteSet(Option(ItemId))
  BY FS_Singleton, FS_Union, FinitenessAssumption DEF Option
<1>3. IsFiniteSet(ClientNamespace)
  <2>1. PICK f : f = [a \in AccountId |-> AccountNs(a)]
    OBVIOUS
  <2>2. {f[a] : a \in AccountId} = {AccountNs(a) : a \in AccountId}
    BY <2>1
  <2>3. IsFiniteSet({f[a] : a \in AccountId})
    BY <2>1, ImageFinite, FinitenessAssumption
  <2>4. IsFiniteSet({CollectionOwner, ItemOwner})
    <3>1. {CollectionOwner, ItemOwner} = {CollectionOwner} \cup {ItemOwner}
      OBVIOUS
    <3>2. IsFiniteSet({CollectionOwner}) /\ IsFiniteSet({ItemOwner})
      BY FS_Singleton
    <3> QED
      BY <3>1, <3>2, FS_Union
  <2> QED
    BY <2>2, <2>3, <2>4, FS_Union DEF ClientNamespace
<1>4. IsFiniteSet(Key \cup PalletAttributes)
  <2>1. PICK f : f = [c \in CollectionId |-> UsedToClaim(c)]
    OBVIOUS
  <2>2. {f[c] : c \in CollectionId} = {UsedToClaim(c) : c \in CollectionId}
    BY <2>1
  <2>3. IsFiniteSet({f[c] : c \in CollectionId})
    BY <1>1, <2>1, ImageFinite
  <2> QED
    BY <2>2, <2>3, FS_Singleton, FS_Union, FinitenessAssumption DEF PalletAttributes
<1>5. IsFiniteSet(AttributeKey)
  <2>1. IsFiniteSet(Option(ItemId) \X ClientNamespace \X Key)
    BY <1>2, <1>3, TriplesFinite, FinitenessAssumption
  <2>2. IsFiniteSet(Option(ItemId) \X {Pallet} \X (Key \cup PalletAttributes))
    BY <1>2, <1>4, TriplesFinite, FS_Singleton
  <2> QED
    BY <2>1, <2>2, FS_Union DEF AttributeKey
<1> QED
  BY <1>1, <1>5, FinitenessAssumption

\* A sum of deposits covers each of them.
LEMMA DepositedCovers ==
    ASSUME NEW a, NEW S, IsFiniteSet(S), NEW m \in [S -> Option(Deposited)]
    PROVE  /\ DepositedBy(a, m) \in Nat
           /\ \A k \in S : PaidFor(a, m[k]) \in Nat /\ PaidFor(a, m[k]) <= DepositedBy(a, m)
<1>a. PICK f : f = [k \in DOMAIN m |-> PaidFor(a, m[k])]
  OBVIOUS
<1>1. f \in [S -> Nat] /\ f = [k \in DOMAIN m |-> PaidFor(a, m[k])]
  BY <1>a DEF PaidFor, Option, Deposited
<1>2. SumFunction(f) \in Nat /\ \A x \in S : f[x] <= SumFunction(f)
  BY <1>1, SumNat
<1>3. DepositedBy(a, m) = SumFunction(f)
  BY <1>1 DEF DepositedBy
<1>4. \A k \in S : f[k] = PaidFor(a, m[k]) /\ f[k] \in Nat
  BY <1>1
<1> QED
  BY <1>2, <1>3, <1>4

\* Writing one entry changes the sum by what the entry changes.
LEMMA DepositedMoves ==
    ASSUME NEW a, NEW S, IsFiniteSet(S), NEW m \in [S -> Option(Deposited)],
           NEW n \in [S -> Option(Deposited)], NEW x \in S, \A y \in S \ {x} : n[y] = m[y]
    PROVE  DepositedBy(a, n) = DepositedBy(a, m) + PaidFor(a, n[x]) - PaidFor(a, m[x])
<1>a. PICK f : f = [k \in DOMAIN m |-> PaidFor(a, m[k])]
  OBVIOUS
<1>1. f \in [S -> Nat] /\ f = [k \in DOMAIN m |-> PaidFor(a, m[k])]
  BY <1>a DEF PaidFor, Option, Deposited
<1>b. PICK g : g = [k \in DOMAIN n |-> PaidFor(a, n[k])]
  OBVIOUS
<1>2. g \in [S -> Nat] /\ g = [k \in DOMAIN n |-> PaidFor(a, n[k])]
  BY <1>b DEF PaidFor, Option, Deposited
<1>3. \A y \in S \ {x} : g[y] = f[y]
  BY <1>1, <1>2
<1>4. SumFunction(g) = SumFunction(f) + g[x] - f[x]
  BY <1>1, <1>2, <1>3, SumMoves
<1>5. g[x] = PaidFor(a, n[x]) /\ f[x] = PaidFor(a, m[x])
  BY <1>1, <1>2
<1>6. DepositedBy(a, m) = SumFunction(f) /\ DepositedBy(a, n) = SumFunction(g)
  BY <1>1, <1>2 DEF DepositedBy
<1> QED
  BY <1>4, <1>5, <1>6

\* Entries that record the same payments.
LEMMA DepositedSame ==
    ASSUME NEW a, NEW S, NEW m \in [S -> Option(Deposited)], NEW n \in [S -> Option(Deposited)],
           \A y \in S : PaidFor(a, n[y]) = PaidFor(a, m[y])
    PROVE  DepositedBy(a, n) = DepositedBy(a, m)
<1>1. [k \in DOMAIN n |-> PaidFor(a, n[k])] = [k \in DOMAIN m |-> PaidFor(a, m[k])]
  OBVIOUS
<1> QED
  BY <1>1 DEF DepositedBy

\* Where there is no entry there is no deposit.
LEMMA DepositedNothing ==
    ASSUME NEW a, NEW S, IsFiniteSet(S), NEW m \in [S -> Option(Deposited)], \A k \in S : m[k] = None
    PROVE  DepositedBy(a, m) = 0
<1>1. PICK f : f = [k \in DOMAIN m |-> PaidFor(a, m[k])]
  OBVIOUS
<1>2. DOMAIN f = S /\ \A x \in S : f[x] = 0
  BY <1>1 DEF PaidFor
<1>3. SumFunction(f) = 0
  BY <1>2, ZeroFunction
<1> QED
  BY <1>1, <1>3 DEF DepositedBy

\* The same facts about the deposits of items.
LEMMA ItemsCover ==
    ASSUME NEW a, NEW m \in [ItemId -> Option(ItemDetails)]
    PROVE  /\ ItemsPaid(a, m) \in Nat
           /\ \A i \in ItemId : /\ PaidForItem(a, m[i]) \in Nat
                                /\ PaidForItem(a, m[i]) <= ItemsPaid(a, m)
<1>a. PICK f : f = [i \in DOMAIN m |-> PaidForItem(a, m[i])]
  OBVIOUS
<1>1. f \in [ItemId -> Nat] /\ f = [i \in DOMAIN m |-> PaidForItem(a, m[i])]
  BY <1>a DEF PaidForItem, Option, ItemDetails
<1>2. SumFunction(f) \in Nat /\ \A x \in ItemId : f[x] <= SumFunction(f)
  BY <1>1, SumNat, KeysFinite
<1>3. ItemsPaid(a, m) = SumFunction(f)
  BY <1>1 DEF ItemsPaid
<1>4. \A i \in ItemId : f[i] = PaidForItem(a, m[i]) /\ f[i] \in Nat
  BY <1>1
<1> QED
  BY <1>2, <1>3, <1>4

LEMMA ItemsMove ==
    ASSUME NEW a, NEW m \in [ItemId -> Option(ItemDetails)],
           NEW n \in [ItemId -> Option(ItemDetails)], NEW x \in ItemId,
           \A y \in ItemId \ {x} : n[y] = m[y]
    PROVE  ItemsPaid(a, n) = ItemsPaid(a, m) + PaidForItem(a, n[x]) - PaidForItem(a, m[x])
<1>a. PICK f : f = [i \in DOMAIN m |-> PaidForItem(a, m[i])]
  OBVIOUS
<1>1. f \in [ItemId -> Nat] /\ f = [i \in DOMAIN m |-> PaidForItem(a, m[i])]
  BY <1>a DEF PaidForItem, Option, ItemDetails
<1>b. PICK g : g = [i \in DOMAIN n |-> PaidForItem(a, n[i])]
  OBVIOUS
<1>2. g \in [ItemId -> Nat] /\ g = [i \in DOMAIN n |-> PaidForItem(a, n[i])]
  BY <1>b DEF PaidForItem, Option, ItemDetails
<1>3. \A y \in ItemId \ {x} : g[y] = f[y]
  BY <1>1, <1>2
<1>4. SumFunction(g) = SumFunction(f) + g[x] - f[x]
  BY <1>1, <1>2, <1>3, SumMoves, KeysFinite
<1>5. g[x] = PaidForItem(a, n[x]) /\ f[x] = PaidForItem(a, m[x])
  BY <1>1, <1>2
<1>6. ItemsPaid(a, m) = SumFunction(f) /\ ItemsPaid(a, n) = SumFunction(g)
  BY <1>1, <1>2 DEF ItemsPaid
<1> QED
  BY <1>4, <1>5, <1>6

LEMMA ItemsSame ==
    ASSUME NEW a, NEW m \in [ItemId -> Option(ItemDetails)], NEW n \in [ItemId -> Option(ItemDetails)],
           \A i \in ItemId : PaidForItem(a, n[i]) = PaidForItem(a, m[i])
    PROVE  ItemsPaid(a, n) = ItemsPaid(a, m)
<1>1. [i \in DOMAIN n |-> PaidForItem(a, n[i])] = [i \in DOMAIN m |-> PaidForItem(a, m[i])]
  OBVIOUS
<1> QED
  BY <1>1 DEF ItemsPaid

LEMMA ItemsNothing ==
    ASSUME NEW a, NEW m \in [ItemId -> Option(ItemDetails)], \A i \in ItemId : m[i] = None
    PROVE  ItemsPaid(a, m) = 0
<1>1. PICK f : f = [i \in DOMAIN m |-> PaidForItem(a, m[i])]
  OBVIOUS
<1>2. DOMAIN f = ItemId /\ \A x \in ItemId : f[x] = 0
  BY <1>1 DEF PaidForItem
<1>3. SumFunction(f) = 0
  BY <1>2, ZeroFunction, KeysFinite
<1> QED
  BY <1>1, <1>3 DEF ItemsPaid
-----------------------------------------------------------------------------
(* The books of a collection *)

\* Every sum is a natural number: what an account has on deposit for a collection, and
\* what the owner has paid.
HeldTyped == \A a \in AccountId, c \in CollectionId :
    /\ OwnerShare(a, Collection[c]) \in Nat /\ ItemsPaid(a, Item[c]) \in Nat
    /\ DepositedBy(a, ItemMetadataOf[c]) \in Nat /\ DepositedBy(a, Attribute[c]) \in Nat
    /\ Held(a, c) \in Nat

OwnerPaidTyped == \A c \in CollectionId :
    /\ DepositedBy(None, ItemMetadataOf[c]) \in Nat /\ DepositedBy(None, Attribute[c]) \in Nat
    /\ OwnerPaid(c) \in Nat

LEMMA HeldParts == TypeOK => HeldTyped
<1> SUFFICES ASSUME TypeOK, NEW a \in AccountId, NEW c \in CollectionId
             PROVE  /\ OwnerShare(a, Collection[c]) \in Nat /\ ItemsPaid(a, Item[c]) \in Nat
                    /\ DepositedBy(a, ItemMetadataOf[c]) \in Nat
                    /\ DepositedBy(a, Attribute[c]) \in Nat /\ Held(a, c) \in Nat
  BY DEF HeldTyped
<1>1. OwnerShare(a, Collection[c]) \in Nat
  <2>1. Collection[c] = None \/ Collection[c] \in CollectionDetails
    BY DEF TypeOK, StorageTypeOK, Option
  <2> QED
    BY <2>1 DEF OwnerShare, CollectionDetails
<1>2. /\ Item[c] \in [ItemId -> Option(ItemDetails)]
      /\ ItemMetadataOf[c] \in [ItemId -> Option(Deposited)]
      /\ Attribute[c] \in [AttributeKey -> Option(Deposited)]
  BY DEF TypeOK, StorageTypeOK
<1>3. ItemsPaid(a, Item[c]) \in Nat
  BY <1>2, ItemsCover
<1>4. DepositedBy(a, ItemMetadataOf[c]) \in Nat
  BY <1>2, DepositedCovers, KeysFinite
<1>5. DepositedBy(a, Attribute[c]) \in Nat
  BY <1>2, DepositedCovers, KeysFinite
<1> QED
  BY <1>1, <1>3, <1>4, <1>5 DEF Held

LEMMA OwnerPaidParts == TypeOK => OwnerPaidTyped
<1> SUFFICES ASSUME TypeOK, NEW c \in CollectionId
             PROVE  /\ DepositedBy(None, ItemMetadataOf[c]) \in Nat
                    /\ DepositedBy(None, Attribute[c]) \in Nat /\ OwnerPaid(c) \in Nat
  BY DEF OwnerPaidTyped
<1>1. /\ CollectionMetadataOf[c] = None \/ CollectionMetadataOf[c].deposit \in Nat
      /\ ItemMetadataOf[c] \in [ItemId -> Option(Deposited)]
      /\ Attribute[c] \in [AttributeKey -> Option(Deposited)]
  BY DEF TypeOK, StorageTypeOK, Option, CollectionMetadata
<1>2. DepositedBy(None, ItemMetadataOf[c]) \in Nat
  BY <1>1, DepositedCovers, KeysFinite
<1>3. DepositedBy(None, Attribute[c]) \in Nat
  BY <1>1, DepositedCovers, KeysFinite
<1> QED
  BY <1>1, <1>2, <1>3 DEF OwnerPaid

\* A reserve covers what is held for each collection.
LEMMA HeldCovered ==
    ASSUME TypeOK, ReservesExact, NEW a \in AccountId, NEW c \in CollectionId
    PROVE  Held(a, c) \in Nat /\ bal.reserved[a] \in Nat /\ Held(a, c) <= bal.reserved[a]
<1>1. PICK f : f = [d \in CollectionId |-> Held(a, d)]
  OBVIOUS
<1>2. f \in [CollectionId -> Nat]
  BY <1>1, HeldParts DEF HeldTyped
<1>3. SumFunction(f) \in Nat /\ \A x \in CollectionId : f[x] <= SumFunction(f)
  BY <1>2, SumNat, KeysFinite
<1>4. bal.reserved[a] = SumFunction(f)
  BY <1>1 DEF ReservesExact
<1>5. f[c] = Held(a, c)
  BY <1>1
<1> QED
  BY <1>2, <1>3, <1>4, <1>5

\* A step that touches the books of one collection: the reserves move as its books do.
LEMMA ReservesStep ==
    ASSUME TypeOK, TypeOK', ReservesExact, NEW c \in CollectionId,
           \A a \in AccountId, d \in CollectionId \ {c} : Held(a, d)' = Held(a, d),
           \A a \in AccountId : bal'.reserved[a] + Held(a, c) = bal.reserved[a] + Held(a, c)'
    PROVE  ReservesExact'
<1> SUFFICES ASSUME NEW a \in AccountId
             PROVE  bal'.reserved[a] = SumFunction([d \in CollectionId |-> Held(a, d)'])
  BY DEF ReservesExact
<1>1. PICK f : f = [d \in CollectionId |-> Held(a, d)]
  OBVIOUS
<1>2. PICK g : g = [d \in CollectionId |-> Held(a, d)']
  OBVIOUS
<1>3. HeldTyped /\ HeldTyped'
  BY HeldParts, PTL
<1>4. f \in [CollectionId -> Nat] /\ g \in [CollectionId -> Nat]
  BY <1>1, <1>2, <1>3 DEF HeldTyped
<1>5. \A d \in CollectionId \ {c} : g[d] = f[d]
  BY <1>1, <1>2
<1>6. /\ SumFunction(f) \in Nat /\ SumFunction(g) \in Nat
      /\ SumFunction(g) = SumFunction(f) + g[c] - f[c]
  BY <1>4, <1>5, SumMoves, KeysFinite
<1>7. bal.reserved[a] = SumFunction(f)
  BY <1>1 DEF ReservesExact
<1>8. f[c] = Held(a, c) /\ g[c] = Held(a, c)'
  BY <1>1, <1>2
<1>9. bal'.reserved[a] \in Nat
  BY DEF TypeOK, StorageTypeOK, BalanceSheet
<1>10. bal'.reserved[a] = SumFunction(g)
  <2>1. bal'.reserved[a] + f[c] = SumFunction(f) + g[c]
    BY <1>7, <1>8
  <2>2. f[c] \in Nat /\ g[c] \in Nat
    BY <1>4
  <2> QED
    BY ONLY <1>6, <1>9, <2>1, <2>2
<1> QED
  BY <1>2, <1>10

\* The step leaves the books of collection c as they are.
BooksKept(c) ==
    /\ \A a \in AccountId : Held(a, c)' = Held(a, c)
    /\ PayersOf(c) => PayersOf(c)'
    /\ OwnerBooks(c) => OwnerBooks(c)'

\* It does so when it writes nothing of collection c that carries a deposit.
NoDeposits(c) ==
    /\ \A i \in ItemId :
          \/ Item'[c][i] = Item[c][i]
          \/ /\ Item[c][i] # None /\ Item'[c][i] # None
             /\ Item'[c][i].deposit_account = Item[c][i].deposit_account
             /\ Item'[c][i].deposit_amount = Item[c][i].deposit_amount
    /\ ItemMetadataOf'[c] = ItemMetadataOf[c]
    /\ \A k \in AttributeKey : \/ Attribute'[c][k] = Attribute[c][k]
                               \/ k[2] = Pallet /\ AttributePayer(k, Attribute'[c][k])
    /\ CollectionMetadataOf'[c] = CollectionMetadataOf[c]
    /\ \/ Collection'[c] = Collection[c]
       \/ /\ Collection[c] # None /\ Collection'[c] # None
          /\ Collection'[c].owner = Collection[c].owner
          /\ Collection'[c].owner_deposit = Collection[c].owner_deposit

LEMMA KeptBooks ==
    ASSUME TypeOK, TypeOK', NEW c \in CollectionId, PayersOf(c), NoDeposits(c)
    PROVE  BooksKept(c)
<1>1. /\ Item[c] \in [ItemId -> Option(ItemDetails)] /\ Item'[c] \in [ItemId -> Option(ItemDetails)]
      /\ Attribute[c] \in [AttributeKey -> Option(Deposited)]
      /\ Attribute'[c] \in [AttributeKey -> Option(Deposited)]
  BY DEF TypeOK, StorageTypeOK
<1>2. \A a, k : k \in AttributeKey => PaidFor(a, Attribute'[c][k]) = PaidFor(a, Attribute[c][k])
  BY DEF NoDeposits, PayersOf, AttributePayer, PaidFor
<1>3. ASSUME NEW a PROVE DepositedBy(a, Attribute'[c]) = DepositedBy(a, Attribute[c])
  <2>1. \A k \in AttributeKey : PaidFor(a, Attribute'[c][k]) = PaidFor(a, Attribute[c][k])
    BY <1>2
  <2> QED
    BY <1>1, <2>1, DepositedSame
<1>4. ASSUME NEW a PROVE ItemsPaid(a, Item'[c]) = ItemsPaid(a, Item[c])
  <2>1. \A i \in ItemId : PaidForItem(a, Item'[c][i]) = PaidForItem(a, Item[c][i])
    BY DEF NoDeposits, PaidForItem
  <2> QED
    BY <1>1, <2>1, ItemsSame
<1>5. \A a : OwnerShare(a, Collection'[c]) = OwnerShare(a, Collection[c])
  BY DEF NoDeposits, OwnerShare
<1>6. \A a \in AccountId : Held(a, c)' = Held(a, c)
  BY <1>3, <1>4, <1>5 DEF NoDeposits, Held
<1>7. OwnerPaid(c)' = OwnerPaid(c)
  BY <1>3 DEF NoDeposits, OwnerPaid
<1>8. PayersOf(c)'
  BY DEF NoDeposits, PayersOf
<1>9. OwnerBooks(c) => OwnerBooks(c)'
  BY <1>7 DEF NoDeposits, OwnerBooks
<1> QED
  BY <1>6, <1>8, <1>9 DEF BooksKept

\* A step that touches the books of one collection, and one that touches none.
LEMMA BooksOfOne ==
    ASSUME TypeOK, TypeOK', DepositsInv, NEW c \in CollectionId,
           \A d \in CollectionId \ {c} : BooksKept(d),
           PayersOf(c)', OwnerBooks(c)',
           \A a \in AccountId : bal'.reserved[a] + Held(a, c) = bal.reserved[a] + Held(a, c)'
    PROVE  DepositsInv'
<1>1. ReservesExact'
  BY ReservesStep DEF DepositsInv, BooksKept
<1>2. \A d \in CollectionId : PayersOf(d)' /\ OwnerBooks(d)'
  BY DEF DepositsInv, BooksKept
<1> QED
  BY <1>1, <1>2 DEF DepositsInv

LEMMA NoBooks ==
    ASSUME TypeOK, TypeOK', DepositsInv, \A c \in CollectionId : NoDeposits(c),
           bal'.reserved = bal.reserved
    PROVE  DepositsInv'
<1>1. \A c \in CollectionId : BooksKept(c)
  BY KeptBooks DEF DepositsInv
<1>2. 0 \in CollectionId
  BY StorageAssumption DEF CollectionId
<1>3. \A a \in AccountId : bal'.reserved[a] + Held(a, 0) = bal.reserved[a] + Held(a, 0)'
  BY <1>1, <1>2 DEF BooksKept
<1>4. PayersOf(0)' /\ OwnerBooks(0)'
  BY <1>1, <1>2 DEF BooksKept, DepositsInv
<1> QED
  BY <1>1, <1>2, <1>3, <1>4, BooksOfOne
-----------------------------------------------------------------------------
(* What the currency does to reserves that cover what is asked of them *)

\* reserve, and unreserve of what is reserved.
LEMMA ReserveAdds ==
    ASSUME NEW b \in BalanceSheet(AccountId), NEW who \in AccountId, NEW amount \in Nat,
           NEW a \in AccountId
    PROVE  Reserve(b, who, amount).reserved[a] = b.reserved[a] + IF a = who THEN amount ELSE 0
BY DEF BalanceSheet, Reserve

LEMMA UnreserveTakes ==
    ASSUME NEW b \in BalanceSheet(AccountId), NEW who \in AccountId, NEW amount \in Nat,
           amount <= b.reserved[who], NEW a \in AccountId
    PROVE  Unreserve(b, who, amount).reserved[a] = b.reserved[a] - IF a = who THEN amount ELSE 0
BY DEF BalanceSheet, Unreserve, Lesser

\* From the old deposit to the new one.
LEMMA AdjustMoves ==
    ASSUME NEW b \in BalanceSheet(AccountId), NEW who \in AccountId, NEW old \in Nat, NEW new \in Nat,
           old <= b.reserved[who], NEW a \in AccountId
    PROVE  Adjust(b, who, old, new).reserved[a]
              = b.reserved[a] + IF a = who THEN new - old ELSE 0
<1>1. CASE new > old
  <2>1. PICK n \in Nat : n = new - old
    BY <1>1
  <2>2. Adjust(b, who, old, new) = Reserve(b, who, n)
    BY <1>1, <2>1 DEF Adjust
  <2> QED
    BY <2>1, <2>2, ReserveAdds
<1>2. CASE ~ (new > old)
  <2>1. PICK n \in Nat : n = old - new
    BY <1>2
  <2>2. Adjust(b, who, old, new) = Unreserve(b, who, n)
    BY <1>2, <2>1 DEF Adjust
  <2>3. n <= b.reserved[who]
    BY <2>1 DEF BalanceSheet
  <2>4. Unreserve(b, who, n).reserved[a] = b.reserved[a] - IF a = who THEN n ELSE 0
    BY <2>3, UnreserveTakes
  <2>5. b.reserved[a] \in Nat
    BY DEF BalanceSheet
  <2> QED
    BY <2>1, <2>2, <2>4, <2>5
<1> QED
  BY <1>1, <1>2

\* The old deposit leaves its depositor, if there is one, and the new one is reserved.
LEMMA MoveDepositMoves ==
    ASSUME NEW b \in BalanceSheet(AccountId), NEW from \in Option(AccountId), NEW to \in AccountId,
           NEW old \in Nat, NEW new \in Nat, CanMoveDeposit(b, from, old, to, new),
           from # None => old <= b.reserved[from], NEW a \in AccountId
    PROVE  MoveDeposit(b, from, old, to, new).reserved[a]
              = b.reserved[a] - (IF a = from THEN old ELSE 0) + IF a = to THEN new ELSE 0
<1>0. b.reserved[a] \in Nat /\ None \notin AccountId
  BY NoneAssumption DEF BalanceSheet
<1>1. CASE from = to
  <2>1. MoveDeposit(b, from, old, to, new) = Adjust(b, to, old, new)
    BY <1>1 DEF MoveDeposit
  <2>2. Adjust(b, to, old, new).reserved[a] = b.reserved[a] + IF a = to THEN new - old ELSE 0
    BY <1>0, <1>1, AdjustMoves
  <2> QED
    BY <1>0, <1>1, <2>1, <2>2
<1>2. CASE from # to /\ from = None
  <2>1. MoveDeposit(b, from, old, to, new) = Reserve(b, to, new)
    BY <1>2 DEF MoveDeposit
  <2> QED
    BY <1>0, <1>2, <2>1, ReserveAdds
<1>3. CASE from # to /\ from # None
  <2>1. from \in AccountId
    BY <1>3 DEF Option
  <2>2. PICK u : u = Unreserve(b, from, old)
    OBVIOUS
  <2>3. MoveDeposit(b, from, old, to, new) = Reserve(u, to, new)
    BY <1>3, <2>2 DEF MoveDeposit
  <2>4. u \in BalanceSheet(AccountId)
    BY <2>1, <2>2, UnreserveType
  <2>5. u.reserved[a] = b.reserved[a] - IF a = from THEN old ELSE 0
    BY <1>3, <2>1, <2>2, UnreserveTakes
  <2>6. Reserve(u, to, new).reserved[a] = u.reserved[a] + IF a = to THEN new ELSE 0
    BY <2>4, ReserveAdds
  <2> QED
    BY <1>0, <2>3, <2>5, <2>6
<1> QED
  BY <1>1, <1>2, <1>3

\* A transfer leaves the reserves, and repatriation moves one.
LEMMA TransferKeepsReserves ==
    ASSUME NEW b, NEW from, NEW to, NEW amount
    PROVE  Transfer(b, from, to, amount).reserved = b.reserved
BY DEF Transfer

LEMMA RepatriateMoves ==
    ASSUME NEW b \in BalanceSheet(AccountId), NEW from \in AccountId, NEW to \in AccountId,
           from # to, NEW amount \in Nat, amount <= b.reserved[from], NEW a \in AccountId
    PROVE  Repatriate(b, from, to, amount).reserved[a]
              = b.reserved[a] - (IF a = from THEN amount ELSE 0) + IF a = to THEN amount ELSE 0
BY DEF BalanceSheet, Repatriate, Lesser

LEMMA UnreserveAllTakes ==
    ASSUME NEW b \in BalanceSheet(AccountId), NEW refund, NEW a \in AccountId, refund[a] \in Nat,
           refund[a] <= b.reserved[a]
    PROVE  UnreserveAll(b, refund).reserved[a] = b.reserved[a] - refund[a]
<1>1. b.reserved[a] \in Nat /\ DOMAIN b.reserved = AccountId
  BY DEF BalanceSheet
<1>2. refund[a] \in 0..b.reserved[a]
  BY <1>1
<1> QED
  BY <1>1, <1>2 DEF UnreserveAll
-----------------------------------------------------------------------------
(* Writes *)

\* The step writes under no collection but c.
OnlyBooks(c) == \A d \in CollectionId \ {c} :
    /\ Collection'[d] = Collection[d] /\ CollectionMetadataOf'[d] = CollectionMetadataOf[d]
    /\ Item'[d] = Item[d] /\ ItemMetadataOf'[d] = ItemMetadataOf[d] /\ Attribute'[d] = Attribute[d]

LEMMA OthersKept ==
    ASSUME TypeOK, TypeOK', DepositsInv, NEW c \in CollectionId, OnlyBooks(c)
    PROVE  \A d \in CollectionId \ {c} : BooksKept(d)
<1>1. ASSUME NEW d \in CollectionId \ {c} PROVE NoDeposits(d)
  BY DEF OnlyBooks, NoDeposits
<1> QED
  BY <1>1, KeptBooks DEF DepositsInv

\* What the write of one item, of the metadata of one, and of one attribute changes.
LEMMA ItemWrites ==
    ASSUME TypeOK, TypeOK', NEW c \in CollectionId, NEW i \in ItemId,
           \A j \in ItemId \ {i} : Item'[c][j] = Item[c][j], NEW a
    PROVE  /\ ItemsPaid(a, Item[c]) \in Nat /\ ItemsPaid(a, Item'[c]) \in Nat
           /\ PaidForItem(a, Item[c][i]) \in Nat /\ PaidForItem(a, Item'[c][i]) \in Nat
           /\ PaidForItem(a, Item[c][i]) <= ItemsPaid(a, Item[c])
           /\ ItemsPaid(a, Item'[c])
                 = ItemsPaid(a, Item[c]) + PaidForItem(a, Item'[c][i]) - PaidForItem(a, Item[c][i])
<1>1. PICK m, n : m = Item[c] /\ n = Item'[c]
  OBVIOUS
<1>2. m \in [ItemId -> Option(ItemDetails)] /\ n \in [ItemId -> Option(ItemDetails)]
  BY <1>1 DEF TypeOK, StorageTypeOK
<1>3. \A j \in ItemId \ {i} : n[j] = m[j]
  BY <1>1
<1>4. /\ ItemsPaid(a, m) \in Nat /\ ItemsPaid(a, n) \in Nat
      /\ PaidForItem(a, m[i]) \in Nat /\ PaidForItem(a, n[i]) \in Nat
      /\ PaidForItem(a, m[i]) <= ItemsPaid(a, m)
  BY <1>2, ItemsCover
<1>5. ItemsPaid(a, n) = ItemsPaid(a, m) + PaidForItem(a, n[i]) - PaidForItem(a, m[i])
  BY <1>2, <1>3, ItemsMove
<1> QED
  BY <1>1, <1>4, <1>5

LEMMA EntryWrites ==
    ASSUME NEW S, IsFiniteSet(S), NEW m \in [S -> Option(Deposited)],
           NEW n \in [S -> Option(Deposited)], NEW x \in S, \A y \in S \ {x} : n[y] = m[y], NEW a
    PROVE  /\ DepositedBy(a, m) \in Nat /\ DepositedBy(a, n) \in Nat
           /\ PaidFor(a, m[x]) \in Nat /\ PaidFor(a, n[x]) \in Nat
           /\ PaidFor(a, m[x]) <= DepositedBy(a, m)
           /\ DepositedBy(a, n) = DepositedBy(a, m) + PaidFor(a, n[x]) - PaidFor(a, m[x])
<1>1. /\ DepositedBy(a, m) \in Nat /\ DepositedBy(a, n) \in Nat
      /\ PaidFor(a, m[x]) \in Nat /\ PaidFor(a, n[x]) \in Nat
      /\ PaidFor(a, m[x]) <= DepositedBy(a, m)
  BY DepositedCovers
<1>2. DepositedBy(a, n) = DepositedBy(a, m) + PaidFor(a, n[x]) - PaidFor(a, m[x])
  BY DepositedMoves
<1> QED
  BY <1>1, <1>2

LEMMA MetadataWrites ==
    ASSUME TypeOK, TypeOK', NEW c \in CollectionId, NEW i \in ItemId,
           \A j \in ItemId \ {i} : ItemMetadataOf'[c][j] = ItemMetadataOf[c][j], NEW a
    PROVE  /\ DepositedBy(a, ItemMetadataOf[c]) \in Nat /\ DepositedBy(a, ItemMetadataOf'[c]) \in Nat
           /\ PaidFor(a, ItemMetadataOf[c][i]) \in Nat /\ PaidFor(a, ItemMetadataOf'[c][i]) \in Nat
           /\ PaidFor(a, ItemMetadataOf[c][i]) <= DepositedBy(a, ItemMetadataOf[c])
           /\ DepositedBy(a, ItemMetadataOf'[c])
                 = DepositedBy(a, ItemMetadataOf[c]) + PaidFor(a, ItemMetadataOf'[c][i])
                   - PaidFor(a, ItemMetadataOf[c][i])
<1>1. PICK m, n : m = ItemMetadataOf[c] /\ n = ItemMetadataOf'[c]
  OBVIOUS
<1>2. m \in [ItemId -> Option(Deposited)] /\ n \in [ItemId -> Option(Deposited)]
  BY <1>1 DEF TypeOK, StorageTypeOK
<1>3. \A j \in ItemId \ {i} : n[j] = m[j]
  BY <1>1
<1>4. /\ DepositedBy(a, m) \in Nat /\ DepositedBy(a, n) \in Nat
      /\ PaidFor(a, m[i]) \in Nat /\ PaidFor(a, n[i]) \in Nat
      /\ PaidFor(a, m[i]) <= DepositedBy(a, m)
      /\ DepositedBy(a, n) = DepositedBy(a, m) + PaidFor(a, n[i]) - PaidFor(a, m[i])
  BY <1>2, <1>3, EntryWrites, KeysFinite
<1> QED
  BY <1>1, <1>4

LEMMA AttributeWrites ==
    ASSUME TypeOK, TypeOK', NEW c \in CollectionId, NEW k \in AttributeKey,
           \A j \in AttributeKey \ {k} : Attribute'[c][j] = Attribute[c][j], NEW a
    PROVE  /\ DepositedBy(a, Attribute[c]) \in Nat /\ DepositedBy(a, Attribute'[c]) \in Nat
           /\ PaidFor(a, Attribute[c][k]) \in Nat /\ PaidFor(a, Attribute'[c][k]) \in Nat
           /\ PaidFor(a, Attribute[c][k]) <= DepositedBy(a, Attribute[c])
           /\ DepositedBy(a, Attribute'[c])
                 = DepositedBy(a, Attribute[c]) + PaidFor(a, Attribute'[c][k])
                   - PaidFor(a, Attribute[c][k])
<1>1. PICK m, n : m = Attribute[c] /\ n = Attribute'[c]
  OBVIOUS
<1>2. m \in [AttributeKey -> Option(Deposited)] /\ n \in [AttributeKey -> Option(Deposited)]
  BY <1>1 DEF TypeOK, StorageTypeOK
<1>3. \A j \in AttributeKey \ {k} : n[j] = m[j]
  BY <1>1
<1>4. /\ DepositedBy(a, m) \in Nat /\ DepositedBy(a, n) \in Nat
      /\ PaidFor(a, m[k]) \in Nat /\ PaidFor(a, n[k]) \in Nat
      /\ PaidFor(a, m[k]) <= DepositedBy(a, m)
      /\ DepositedBy(a, n) = DepositedBy(a, m) + PaidFor(a, n[k]) - PaidFor(a, m[k])
  BY <1>2, <1>3, EntryWrites, KeysFinite
<1> QED
  BY <1>1, <1>4
-----------------------------------------------------------------------------
(* The collection handlers *)

\* There is nothing under the id of a collection that does not exist.
EmptyBooks == \A c \in CollectionId : Collection[c] = None =>
    /\ \A a \in AccountId : Held(a, c) = 0
    /\ \A a : /\ ItemsPaid(a, Item[c]) = 0 /\ DepositedBy(a, ItemMetadataOf[c]) = 0
              /\ DepositedBy(a, Attribute[c]) = 0
    /\ OwnerPaid(c) = 0

LEMMA NothingHeld == StructureInv /\ TypeOK => EmptyBooks
<1> SUFFICES ASSUME StructureInv, TypeOK, NEW c \in CollectionId, Collection[c] = None
             PROVE  /\ \A a \in AccountId : Held(a, c) = 0
                    /\ \A a : ItemsPaid(a, Item[c]) = 0 /\ DepositedBy(a, ItemMetadataOf[c]) = 0
                              /\ DepositedBy(a, Attribute[c]) = 0
                    /\ OwnerPaid(c) = 0
  BY DEF EmptyBooks
<1>1. EmptyUnder(c)
  BY DEF StructureInv, Structure
<1>2. PICK items, metadata, attributes :
         items = Item[c] /\ metadata = ItemMetadataOf[c] /\ attributes = Attribute[c]
  OBVIOUS
<1>3. /\ items \in [ItemId -> Option(ItemDetails)] /\ metadata \in [ItemId -> Option(Deposited)]
      /\ attributes \in [AttributeKey -> Option(Deposited)]
      /\ \A i \in ItemId : items[i] = None /\ metadata[i] = None
      /\ \A k \in AttributeKey : attributes[k] = None
      /\ CollectionMetadataOf[c] = None
  BY <1>1, <1>2 DEF EmptyUnder, TypeOK, StorageTypeOK
<1>4. ASSUME NEW a
      PROVE  ItemsPaid(a, items) = 0 /\ DepositedBy(a, metadata) = 0 /\ DepositedBy(a, attributes) = 0
  <2>1. ItemsPaid(a, items) = 0
    BY <1>3, ItemsNothing
  <2>2. DepositedBy(a, metadata) = 0
    BY <1>3, DepositedNothing, KeysFinite
  <2>3. DepositedBy(a, attributes) = 0
    BY <1>3, DepositedNothing, KeysFinite
  <2> QED
    BY <2>1, <2>2, <2>3
<1>5. \A a : OwnerShare(a, Collection[c]) = 0
  BY DEF OwnerShare
<1> QED
  BY <1>2, <1>3, <1>4, <1>5 DEF Held, OwnerPaid

\* do_create_collection takes the deposit it records; force_create takes none.
LEMMA CreateBooks ==
    ASSUME TypeOK, TypeOK', StructureInv, DepositsInv, NEW owner \in AccountId,
           NEW admin, NEW config, NEW deposit \in {0, CollectionDeposit},
           do_create_collection(NextId, owner, admin, config, deposit)
    PROVE  DepositsInv'
<1>1. PICK c \in CollectionId : c = NextId
  BY StorageAssumption DEF NextId, TypeOK, StorageTypeOK, Option, CollectionId
<1>2. /\ Collection[c] = None
      /\ bal' = Reserve(bal, owner, deposit)
      /\ Collection' = [Collection EXCEPT ![c] =
            [owner |-> owner, owner_deposit |-> deposit, items |-> 0,
             item_metadatas |-> 0, item_configs |-> 0, attributes |-> 0]]
      /\ UNCHANGED <<CollectionMetadataOf, Item, ItemMetadataOf, Attribute>>
  BY <1>1 DEF do_create_collection, itemVars, attributeVars
<1>3. deposit \in Nat /\ bal \in BalanceSheet(AccountId)
  BY StorageAssumption DEF TypeOK, StorageTypeOK
<1>4. /\ Collection'[c].owner = owner /\ Collection'[c].owner_deposit = deposit
      /\ Collection'[c] \in CollectionDetails
      /\ \A d \in CollectionId \ {c} : Collection'[d] = Collection[d]
  BY <1>2, <1>3, StorageAssumption DEF TypeOK, StorageTypeOK, CollectionDetails, u32
<1>5. Collection'[c] # None
  BY <1>4, OptionAssumption
<1>6. OnlyBooks(c)
  BY <1>2, <1>4 DEF OnlyBooks
<1>7. PayersOf(c)'
  BY <1>2 DEF DepositsInv, PayersOf
<1>8. OwnerPaid(c) = 0 /\ OwnerPaid(c)' = OwnerPaid(c)
  BY <1>2, NothingHeld DEF EmptyBooks, OwnerPaid
<1>9. OwnerBooks(c)'
  BY <1>4, <1>8, StorageAssumption DEF OwnerBooks
<1>10. ASSUME NEW a \in AccountId
       PROVE  bal'.reserved[a] + Held(a, c) = bal.reserved[a] + Held(a, c)'
  <2>1. Held(a, c) = 0
    BY <1>2, NothingHeld DEF EmptyBooks
  <2>2. Held(a, c)' = IF a = owner THEN deposit ELSE 0
    <3>1. /\ ItemsPaid(a, Item'[c]) = 0 /\ DepositedBy(a, ItemMetadataOf'[c]) = 0
          /\ DepositedBy(a, Attribute'[c]) = 0
      BY <1>2, NothingHeld DEF EmptyBooks
    <3>2. OwnerShare(a, Collection'[c]) = IF a = owner THEN deposit ELSE 0
      BY <1>4, <1>5 DEF OwnerShare
    <3> QED
      BY <1>3, <3>1, <3>2 DEF Held
  <2>3. bal'.reserved[a] = bal.reserved[a] + IF a = owner THEN deposit ELSE 0
    BY <1>2, <1>3, ReserveAdds
  <2>4. bal.reserved[a] \in Nat
    BY <1>3 DEF BalanceSheet
  <2> QED
    BY <1>3, <2>1, <2>2, <2>3, <2>4
<1> QED
  BY <1>6, <1>7, <1>9, <1>10, OthersKept, BooksOfOne

\* do_destroy_collection returns everything that is on deposit for the collection.
LEMMA DestroyBooks ==
    ASSUME TypeOK, TypeOK', StructureInv, StructureInv', DepositsInv, NEW origin,
           NEW c \in CollectionId, do_destroy_collection(origin, c)
    PROVE  DepositsInv'
<1>1. /\ Collection[c] # None
      /\ bal' = UnreserveAll(bal, [a \in AccountId |-> DestroyRefund(c, a)])
      /\ Collection' = [Collection EXCEPT ![c] = None]
      /\ ItemMetadataOf' = [ItemMetadataOf EXCEPT ![c] = [i \in ItemId |-> None]]
      /\ CollectionMetadataOf' = [CollectionMetadataOf EXCEPT ![c] = None]
      /\ Attribute' = [Attribute EXCEPT ![c] = [k \in AttributeKey |-> None]]
      /\ Item' = Item
  BY DEF do_destroy_collection
<1>2. OnlyBooks(c) /\ Collection'[c] = None
  BY <1>1 DEF OnlyBooks, TypeOK, StorageTypeOK
<1>3. PayersOf(c)'
  BY <1>1 DEF PayersOf, AttributePayer, TypeOK, StorageTypeOK
<1>4. OwnerBooks(c)'
  BY <1>2 DEF OwnerBooks
<1>5. ASSUME NEW a \in AccountId
      PROVE  bal'.reserved[a] + Held(a, c) = bal.reserved[a] + Held(a, c)'
  <2>1. Held(a, c)' = 0 /\ ItemsPaid(a, Item'[c]) = 0
    <3>1. EmptyBooks'
      BY NothingHeld, PTL
    <3> QED
      BY <1>2, <3>1 DEF EmptyBooks
  <2>2. Held(a, c) = DestroyRefund(c, a)
    <3>1. ItemsPaid(a, Item[c]) = 0
      BY <1>1, <2>1
    <3>2. OwnerShare(a, Collection[c]) = IF Collection[c].owner = a THEN Collection[c].owner_deposit ELSE 0
      BY <1>1 DEF OwnerShare
    <3>3. HeldTyped
      BY HeldParts
    <3> QED
      BY <3>1, <3>2, <3>3 DEF Held, DestroyRefund, HeldTyped
  <2>3. Held(a, c) \in Nat /\ bal.reserved[a] \in Nat /\ Held(a, c) <= bal.reserved[a]
    BY HeldCovered DEF DepositsInv
  <2>4. PICK refund : refund = [b \in AccountId |-> DestroyRefund(c, b)]
    OBVIOUS
  <2>5. refund[a] = Held(a, c)
    BY <2>2, <2>4
  <2>6. bal'.reserved[a] = bal.reserved[a] - refund[a]
    <3>1. bal \in BalanceSheet(AccountId)
      BY DEF TypeOK, StorageTypeOK
    <3> QED
      BY <1>1, <2>3, <2>4, <2>5, <3>1, UnreserveAllTakes
  <2> QED
    BY <2>1, <2>3, <2>5, <2>6
<1> QED
  BY <1>2, <1>3, <1>4, <1>5, OthersKept, BooksOfOne

\* A collection's owner changes: the whole owner_deposit goes along.
LEMMA MoveCollectionBooks ==
    ASSUME TypeOK, TypeOK', DepositsInv, NEW c \in CollectionId, NEW new_owner \in AccountId,
           Collection[c] # None, Collection[c].owner # new_owner, MoveCollection(c, new_owner)
    PROVE  DepositsInv'
<1>1. PICK owner, deposit : owner = Collection[c].owner /\ deposit = Collection[c].owner_deposit
  OBVIOUS
<1>2. /\ bal' = Repatriate(bal, owner, new_owner, deposit)
      /\ Collection' = [Collection EXCEPT ![c].owner = new_owner]
      /\ UNCHANGED <<CollectionMetadataOf, Item, ItemMetadataOf, Attribute>>
  BY <1>1 DEF MoveCollection, itemVars, attributeVars
<1>3. Collection[c] \in CollectionDetails
  BY DEF TypeOK, StorageTypeOK, Option
<1>4. /\ Collection'[c] \in CollectionDetails /\ Collection'[c].owner = new_owner
      /\ Collection'[c].owner_deposit = deposit
      /\ owner \in AccountId /\ deposit \in Nat
  BY <1>1, <1>2, <1>3 DEF TypeOK, StorageTypeOK, CollectionDetails
<1>5. Collection'[c] # None
  BY <1>4, OptionAssumption
<1>6. OnlyBooks(c)
  BY <1>2 DEF OnlyBooks, TypeOK, StorageTypeOK
<1>7. PayersOf(c)'
  BY <1>2 DEF DepositsInv, PayersOf
<1>8. OwnerBooks(c)'
  BY <1>1, <1>2, <1>4 DEF DepositsInv, OwnerBooks, OwnerPaid
<1>9. ASSUME NEW a \in AccountId
      PROVE  bal'.reserved[a] + Held(a, c) = bal.reserved[a] + Held(a, c)'
  <2>1. /\ OwnerShare(a, Collection[c]) = IF a = owner THEN deposit ELSE 0
        /\ OwnerShare(a, Collection'[c]) = IF a = new_owner THEN deposit ELSE 0
        /\ OwnerShare(owner, Collection[c]) = deposit
    BY <1>1, <1>4, <1>5 DEF OwnerShare
  <2>2. /\ OwnerShare(owner, Collection[c]) <= Held(owner, c)
        /\ Held(owner, c) \in Nat /\ bal.reserved[owner] \in Nat
        /\ Held(owner, c) <= bal.reserved[owner]
    BY <1>4, HeldCovered, HeldParts DEF DepositsInv, Held, HeldTyped
  <2>3. bal'.reserved[a]
           = bal.reserved[a] - (IF a = owner THEN deposit ELSE 0) + IF a = new_owner THEN deposit ELSE 0
    <3>1. bal \in BalanceSheet(AccountId) /\ owner # new_owner /\ deposit <= bal.reserved[owner]
      BY <1>1, <1>4, <2>1, <2>2 DEF TypeOK, StorageTypeOK
    <3> QED
      BY <1>2, <1>4, <3>1, RepatriateMoves
  <2>4. PICK rest \in Nat : /\ Held(a, c) = OwnerShare(a, Collection[c]) + rest
                            /\ Held(a, c)' = OwnerShare(a, Collection'[c]) + rest
    <3>1. PICK x \in Nat, y \in Nat, z \in Nat :
             /\ x = ItemsPaid(a, Item[c]) /\ y = DepositedBy(a, ItemMetadataOf[c])
             /\ z = DepositedBy(a, Attribute[c])
      BY ONLY HeldParts, TypeOK, a \in AccountId, c \in CollectionId DEF HeldTyped
    <3>2. OwnerShare(a, Collection[c]) \in Nat /\ OwnerShare(a, Collection'[c]) \in Nat
      BY <1>4, <2>1
    <3>3. /\ Held(a, c) = OwnerShare(a, Collection[c]) + x + y + z
          /\ Held(a, c)' = OwnerShare(a, Collection'[c]) + x + y + z
      BY <1>2, <3>1 DEF Held
    <3>4. PICK rest \in Nat : rest = x + y + z
      OBVIOUS
    <3>5. /\ Held(a, c) = OwnerShare(a, Collection[c]) + rest
          /\ Held(a, c)' = OwnerShare(a, Collection'[c]) + rest
      BY <3>2, <3>3, <3>4
    <3> QED
      BY <3>5
  <2>5. bal.reserved[a] \in Nat
    BY DEF TypeOK, StorageTypeOK, BalanceSheet
  <2> QED
    BY <1>4, <2>1, <2>3, <2>4, <2>5
<1> QED
  BY <1>6, <1>7, <1>8, <1>9, OthersKept, BooksOfOne
-----------------------------------------------------------------------------
(* The item handlers *)

\* The books of a collection before and after a step, in their parts.
LEMMA HeldIs ==
    ASSUME TypeOK, TypeOK', NEW a \in AccountId, NEW c \in CollectionId
    PROVE  \E o, i, m, t, o2, i2, m2, t2 \in Nat :
              /\ o = OwnerShare(a, Collection[c]) /\ i = ItemsPaid(a, Item[c])
              /\ m = DepositedBy(a, ItemMetadataOf[c]) /\ t = DepositedBy(a, Attribute[c])
              /\ o2 = OwnerShare(a, Collection'[c]) /\ i2 = ItemsPaid(a, Item'[c])
              /\ m2 = DepositedBy(a, ItemMetadataOf'[c]) /\ t2 = DepositedBy(a, Attribute'[c])
              /\ Held(a, c) = o + i + m + t /\ Held(a, c)' = o2 + i2 + m2 + t2
<1>1. HeldTyped /\ HeldTyped'
  BY HeldParts, PTL
<1>2. /\ OwnerShare(a, Collection[c]) \in Nat /\ ItemsPaid(a, Item[c]) \in Nat
      /\ DepositedBy(a, ItemMetadataOf[c]) \in Nat /\ DepositedBy(a, Attribute[c]) \in Nat
  BY <1>1 DEF HeldTyped
<1>3. /\ OwnerShare(a, Collection'[c]) \in Nat /\ ItemsPaid(a, Item'[c]) \in Nat
      /\ DepositedBy(a, ItemMetadataOf'[c]) \in Nat /\ DepositedBy(a, Attribute'[c]) \in Nat
  BY <1>1 DEF HeldTyped
<1> QED
  BY <1>2, <1>3 DEF Held

LEMMA OwnerPaidIs ==
    ASSUME TypeOK, TypeOK', NEW c \in CollectionId
    PROVE  \E p, m, t, p2, m2, t2 \in Nat :
              /\ p = (IF CollectionMetadataOf[c] = None THEN 0 ELSE CollectionMetadataOf[c].deposit)
              /\ p2 = (IF CollectionMetadataOf'[c] = None THEN 0 ELSE CollectionMetadataOf'[c].deposit)
              /\ m = DepositedBy(None, ItemMetadataOf[c]) /\ t = DepositedBy(None, Attribute[c])
              /\ m2 = DepositedBy(None, ItemMetadataOf'[c]) /\ t2 = DepositedBy(None, Attribute'[c])
              /\ OwnerPaid(c) = p + m + t /\ OwnerPaid(c)' = p2 + m2 + t2
<1>1. OwnerPaidTyped /\ OwnerPaidTyped'
  BY OwnerPaidParts, PTL
<1>2. /\ DepositedBy(None, ItemMetadataOf[c]) \in Nat /\ DepositedBy(None, Attribute[c]) \in Nat
      /\ DepositedBy(None, ItemMetadataOf'[c]) \in Nat /\ DepositedBy(None, Attribute'[c]) \in Nat
  BY <1>1 DEF OwnerPaidTyped
<1>3. /\ (IF CollectionMetadataOf[c] = None THEN 0 ELSE CollectionMetadataOf[c].deposit) \in Nat
      /\ (IF CollectionMetadataOf'[c] = None THEN 0 ELSE CollectionMetadataOf'[c].deposit) \in Nat
  BY DEF TypeOK, StorageTypeOK, Option, CollectionMetadata
<1> QED
  BY <1>2, <1>3 DEF OwnerPaid

\* owner_deposit covers what the owner has paid, and stays exact if it moves as that does.
LEMMA OwnerCovers ==
    ASSUME TypeOK, NEW c \in CollectionId, OwnerBooks(c), Collection[c] # None
    PROVE  /\ Collection[c].owner_deposit \in Nat /\ OwnerPaid(c) \in Nat
           /\ OwnerPaid(c) <= Collection[c].owner_deposit
<1>1. Collection[c].owner_deposit \in Nat
  BY DEF TypeOK, StorageTypeOK, Option, CollectionDetails
<1>2. OwnerPaid(c) \in Nat
  BY OwnerPaidParts DEF OwnerPaidTyped
<1> QED
  BY <1>1, <1>2, StorageAssumption DEF OwnerBooks

LEMMA OwnerBooksMove ==
    ASSUME TypeOK, TypeOK', NEW c \in CollectionId, OwnerBooks(c),
           Collection[c] # None, Collection'[c] # None,
           Collection'[c].owner_deposit + OwnerPaid(c) = Collection[c].owner_deposit + OwnerPaid(c)'
    PROVE  OwnerBooks(c)'
<1>1. PICK x, y, p, q \in Nat :
         /\ x = Collection[c].owner_deposit /\ y = Collection'[c].owner_deposit
         /\ p = OwnerPaid(c) /\ q = OwnerPaid(c)'
  <2>1. OwnerPaidTyped /\ OwnerPaidTyped'
    BY OwnerPaidParts, PTL
  <2>2. OwnerPaid(c) \in Nat /\ OwnerPaid(c)' \in Nat
    BY <2>1 DEF OwnerPaidTyped
  <2>3. Collection[c].owner_deposit \in Nat /\ Collection'[c].owner_deposit \in Nat
    BY DEF TypeOK, StorageTypeOK, Option, CollectionDetails
  <2> QED
    BY <2>2, <2>3
<1>2. x = p \/ x = CollectionDeposit + p
  BY <1>1 DEF OwnerBooks
<1>3. y + p = x + q
  BY <1>1
<1>4. y = q \/ y = CollectionDeposit + q
  BY <1>2, <1>3, StorageAssumption
<1> QED
  BY <1>1, <1>4 DEF OwnerBooks

\* Attributes of the Pallet namespace carry no deposit.
PalletWrites(c) == \A k \in AttributeKey : \/ Attribute'[c][k] = Attribute[c][k]
                                           \/ k[2] = Pallet /\ AttributePayer(k, Attribute'[c][k])

LEMMA PalletWritesPayNothing ==
    ASSUME TypeOK, TypeOK', NEW c \in CollectionId, PayersOf(c), PalletWrites(c), NEW a
    PROVE  DepositedBy(a, Attribute'[c]) = DepositedBy(a, Attribute[c])
<1>1. /\ Attribute[c] \in [AttributeKey -> Option(Deposited)]
      /\ Attribute'[c] \in [AttributeKey -> Option(Deposited)]
  BY DEF TypeOK, StorageTypeOK
<1>2. \A k \in AttributeKey : PaidFor(a, Attribute'[c][k]) = PaidFor(a, Attribute[c][k])
  BY DEF PalletWrites, PayersOf, AttributePayer, PaidFor
<1> QED
  BY <1>1, <1>2, DepositedSame

\* A mint takes the item's deposit and records it with its depositor.
LEMMA MintBooks ==
    ASSUME TypeOK, TypeOK', DepositsInv, NEW c \in CollectionId, NEW i \in ItemId,
           NEW depositor \in AccountId, NEW mint_to \in AccountId, NEW item_config,
           NEW b \in BalanceSheet(AccountId), b.reserved = bal.reserved,
           CanMint(c, i, depositor, item_config, b),
           InsertItem(c, i, depositor, mint_to, item_config),
           Collection' = [Collection EXCEPT ![c] = MintedDetails(c, i)],
           bal' = MintedBalance(c, depositor, b),
           UNCHANGED <<CollectionMetadataOf, ItemMetadataOf>>,
           \A d \in CollectionId : PalletWrites(d)
    PROVE  DepositsInv'
<1>1. PICK deposit \in Nat : deposit = ItemDepositOf(c)
  BY DepositType
<1>2. PICK new : new = [owner |-> mint_to, approvals |-> NoApprovals,
                        deposit_account |-> depositor, deposit_amount |-> ItemDepositOf(c)]
  OBVIOUS
<1>3. Item' = [Item EXCEPT ![c][i] = new]
  BY <1>2 DEF InsertItem
<1>4. /\ Item'[c][i] = new /\ \A j \in ItemId \ {i} : Item'[c][j] = Item[c][j]
      /\ \A d \in CollectionId \ {c} : Item'[d] = Item[d] /\ Collection'[d] = Collection[d]
      /\ Collection'[c] = MintedDetails(c, i)
  BY <1>3 DEF TypeOK, StorageTypeOK
<1>5. Item[c][i] = None /\ Collection[c] # None
  BY DEF CanMint
<1>6. /\ new.deposit_account = depositor /\ new.deposit_amount = deposit /\ new # None
  <2>1. new.deposit_account = depositor /\ new.deposit_amount = deposit
    BY <1>1, <1>2
  <2>2. new \in ItemDetails
    BY <1>1, <1>2 DEF ItemDetails, NoApprovals
  <2> QED
    BY <2>1, <2>2, OptionAssumption
<1>7. Collection[c] \in CollectionDetails
  BY <1>5 DEF TypeOK, StorageTypeOK, Option
<1>8. /\ Collection'[c] \in CollectionDetails /\ Collection'[c].owner = Collection[c].owner
      /\ Collection'[c].owner_deposit = Collection[c].owner_deposit
  <2>1. MintedDetails(c, i) \in CollectionDetails /\ MintedDetails(c, i).owner = Collection[c].owner
    BY MintedType
  <2>2. MintedDetails(c, i).owner_deposit = Collection[c].owner_deposit
    BY ONLY <1>7 DEF MintedDetails, CollectionDetails
  <2> QED
    BY <1>4, <2>1, <2>2
<1>9. Collection'[c] # None
  BY <1>8, OptionAssumption
<1>10. \A d \in CollectionId \ {c} : BooksKept(d)
  <2>1. ASSUME NEW d \in CollectionId \ {c} PROVE NoDeposits(d)
    BY <1>4 DEF NoDeposits, PalletWrites
  <2> QED
    BY <2>1, KeptBooks DEF DepositsInv
<1>11. PayersOf(c)'
  BY DEF DepositsInv, PayersOf, PalletWrites
<1>12. \A a : DepositedBy(a, Attribute'[c]) = DepositedBy(a, Attribute[c])
  BY PalletWritesPayNothing DEF DepositsInv
<1>13. OwnerBooks(c)'
  <2>1. OwnerPaid(c)' = OwnerPaid(c)
    BY <1>12 DEF OwnerPaid
  <2> QED
    BY <1>5, <1>8, <1>9, <2>1 DEF DepositsInv, OwnerBooks
<1>14. ASSUME NEW a \in AccountId
       PROVE  bal'.reserved[a] + Held(a, c) = bal.reserved[a] + Held(a, c)'
  <2>1. PICK o, x, m, t, o2, x2, m2, t2 \in Nat :
              /\ o = OwnerShare(a, Collection[c]) /\ x = ItemsPaid(a, Item[c])
              /\ m = DepositedBy(a, ItemMetadataOf[c]) /\ t = DepositedBy(a, Attribute[c])
              /\ o2 = OwnerShare(a, Collection'[c]) /\ x2 = ItemsPaid(a, Item'[c])
              /\ m2 = DepositedBy(a, ItemMetadataOf'[c]) /\ t2 = DepositedBy(a, Attribute'[c])
              /\ Held(a, c) = o + x + m + t /\ Held(a, c)' = o2 + x2 + m2 + t2
    BY HeldIs
  <2>2. o2 = o /\ m2 = m /\ t2 = t
    BY <1>5, <1>8, <1>9, <1>12, <2>1 DEF OwnerShare
  <2>3. x2 = x + IF a = depositor THEN deposit ELSE 0
    <3>1. ItemsPaid(a, Item'[c])
             = ItemsPaid(a, Item[c]) + PaidForItem(a, Item'[c][i]) - PaidForItem(a, Item[c][i])
      BY <1>4, ItemWrites
    <3>2. /\ PaidForItem(a, Item'[c][i]) = IF a = depositor THEN deposit ELSE 0
          /\ PaidForItem(a, Item[c][i]) = 0
      BY <1>4, <1>5, <1>6 DEF PaidForItem
    <3> QED
      BY <2>1, <3>1, <3>2
  <2>4. bal'.reserved[a] = bal.reserved[a] + IF a = depositor THEN deposit ELSE 0
    BY <1>1, ReserveAdds DEF MintedBalance
  <2>5. bal.reserved[a] \in Nat
    BY DEF TypeOK, StorageTypeOK, BalanceSheet
  <2> QED
    BY <2>1, <2>2, <2>3, <2>4, <2>5
<1> QED
  BY <1>10, <1>11, <1>13, <1>14, BooksOfOne

\* mint, whose claim marks an item without a deposit.
LEMMA mint_Books ==
    ASSUME TypeOK, TypeOK', DepositsInv, NEW caller \in AccountId, NEW c \in CollectionId,
           NEW i \in ItemId, NEW mint_to \in AccountId, NEW owned_item, NEW p,
           mint_as(caller, c, i, mint_to, owned_item, p)
    PROVE  DepositsInv'
<1> USE DEF TypeOK, StorageTypeOK
<1> DEFINE settings == CollectionConfigOf[c].mint_settings
           price    == IF settings.price = None THEN 0 ELSE settings.price
           paid     == Transfer(bal, caller, Collection[c].owner, price)
<1>1. /\ CollectionConfigOf[c] # None /\ Collection[c] # None
      /\ CanTransfer(bal, caller, Collection[c].owner, price)
      /\ do_mint(c, i, caller, mint_to, settings.default_item_settings, paid)
      /\ MarkUsedToClaim(c, settings, owned_item)
  BY DEF mint_as
<1>2. Collection[c].owner \in AccountId
  BY <1>1 DEF Option, CollectionDetails
<1>3. settings \in MintSettings
  BY <1>1 DEF Option, CollectionConfig
<1>4. price \in Nat
  BY <1>3 DEF MintSettings, Option
<1>5. paid \in BalanceSheet(AccountId) /\ paid.reserved = bal.reserved
  BY <1>1, <1>2, <1>4, TransferType, TransferKeepsReserves
<1> DEFINE mark == [data |-> 0, account |-> None, amount |-> 0]
<1>6. ASSUME NEW d \in CollectionId PROVE PalletWrites(d)
  <2>0. PICK key : key = <<owned_item, Pallet, UsedToClaim(c)>>
    OBVIOUS
  <2>1. \/ Attribute'[d] = Attribute[d]
        \/ Attribute'[d] = [Attribute[d] EXCEPT ![key] = mark]
    BY <1>1, <2>0 DEF MarkUsedToClaim
  <2>2. ASSUME NEW k \in AttributeKey, k[2] = Pallet PROVE AttributePayer(k, mark)
    BY <2>2 DEF AttributePayer, Pallet, CollectionOwner, ItemOwner, AccountNs
  <2> HIDE DEF mark
  <2>3. ASSUME NEW k \in AttributeKey
        PROVE  Attribute'[d][k] = Attribute[d][k] \/ (k[2] = Pallet /\ AttributePayer(k, Attribute'[d][k]))
    <3>1. Attribute'[d][k] = Attribute[d][k] \/ (k = key /\ Attribute'[d][k] = mark)
      BY <2>1
    <3>2. key[2] = Pallet
      BY <2>0
    <3> QED
      BY <2>2, <3>1, <3>2
  <2> QED
    BY <2>3 DEF PalletWrites
<1> HIDE DEF paid, price, settings
<1> QED
  BY <1>1, <1>5, <1>6, MintBooks DEF do_mint

\* force_mint: the collection's owner pays for the item.
LEMMA force_mint_Books ==
    ASSUME TypeOK, TypeOK', DepositsInv, NEW origin, NEW c \in CollectionId, NEW i \in ItemId,
           NEW mint_to \in AccountId, NEW item_config, do_force_mint(origin, c, i, mint_to, item_config)
    PROVE  DepositsInv'
<1>1. Collection[c].owner \in AccountId /\ bal \in BalanceSheet(AccountId)
  BY DEF do_force_mint, TypeOK, StorageTypeOK, Option, CollectionDetails
<1>2. \A d \in CollectionId : PalletWrites(d)
  BY DEF do_force_mint, PalletWrites
<1>3. do_mint(c, i, Collection[c].owner, mint_to, item_config, bal)
  BY DEF do_force_mint
<1>4. PICK owner \in AccountId : owner = Collection[c].owner
  BY <1>1
<1> QED
  BY <1>1, <1>2, <1>3, <1>4, MintBooks DEF do_mint
-----------------------------------------------------------------------------
(* Writing an entry that carries a deposit *)

\* What account a has paid for an entry when o owns the collection.
Due(a, o, entry) == PaidFor(a, entry) + IF a = o THEN PaidFor(None, entry) ELSE 0

\* An entry has one payer.
LEMMA DueIs ==
    ASSUME NEW a \in AccountId, NEW o \in AccountId, NEW entry \in Option(Deposited)
    PROVE  /\ entry = None => PaidFor(None, entry) = 0 /\ Due(a, o, entry) = 0
           /\ entry # None =>
                /\ entry.amount \in Nat /\ entry.account \in Option(AccountId)
                /\ entry.account = None => /\ PaidFor(None, entry) = entry.amount
                                           /\ Due(a, o, entry) = IF a = o THEN entry.amount ELSE 0
                /\ entry.account # None => /\ entry.account \in AccountId
                                           /\ PaidFor(None, entry) = 0
                                           /\ Due(a, o, entry) = IF a = entry.account
                                                                 THEN entry.amount ELSE 0
<1>1. None \notin AccountId
  BY NoneAssumption
<1>2. CASE entry = None
  BY <1>2 DEF PaidFor, Due
<1>3. CASE entry # None
  <2>1. entry.amount \in Nat /\ entry.account \in Option(AccountId)
    BY <1>3 DEF Option, Deposited
  <2>2. CASE entry.account = None
    <3>1. PaidFor(None, entry) = entry.amount /\ PaidFor(a, entry) = 0
      BY <1>1, <1>3, <2>2 DEF PaidFor
    <3> QED
      BY <1>3, <2>1, <2>2, <3>1 DEF Due
  <2>3. CASE entry.account # None
    <3>1. PaidFor(None, entry) = 0
      BY <1>3, <2>3 DEF PaidFor
    <3>2. PaidFor(a, entry) = IF a = entry.account THEN entry.amount ELSE 0
      BY <1>3 DEF PaidFor
    <3>3. entry.account \in AccountId
      BY <2>1, <2>3 DEF Option
    <3> QED
      BY <1>3, <2>1, <2>3, <3>1, <3>2, <3>3 DEF Due
  <2> QED
    BY <2>2, <2>3
<1> QED
  BY <1>2, <1>3

\* owner_deposit and the reserves cover each entry.
LEMMA EntryCovered ==
    ASSUME TypeOK, DepositsInv, NEW c \in CollectionId, Collection[c] # None, NEW a \in AccountId,
           NEW entry,
           \/ \E k \in AttributeKey : entry = Attribute[c][k]
           \/ \E i \in ItemId : entry = ItemMetadataOf[c][i]
    PROVE  /\ PaidFor(None, entry) \in Nat /\ PaidFor(None, entry) <= Collection[c].owner_deposit
           /\ Due(a, Collection[c].owner, entry) \in Nat
           /\ Due(a, Collection[c].owner, entry) <= bal.reserved[a]
<1>1. PICK o, x, m, t, r, pm, pt, p, q, e \in Nat :
         /\ o = OwnerShare(a, Collection[c]) /\ x = ItemsPaid(a, Item[c])
         /\ m = DepositedBy(a, ItemMetadataOf[c]) /\ t = DepositedBy(a, Attribute[c])
         /\ pm = DepositedBy(None, ItemMetadataOf[c]) /\ pt = DepositedBy(None, Attribute[c])
         /\ p = PaidFor(None, entry) /\ q = PaidFor(a, entry)
         /\ e = Collection[c].owner_deposit /\ r = bal.reserved[a]
         /\ o + x + m + t <= r /\ pm + pt <= e
         /\ (p <= pm /\ q <= m) \/ (p <= pt /\ q <= t)
  <2>1. /\ ItemMetadataOf[c] \in [ItemId -> Option(Deposited)]
        /\ Attribute[c] \in [AttributeKey -> Option(Deposited)]
    BY DEF TypeOK, StorageTypeOK
  <2>2. ASSUME NEW b
        PROVE  \/ /\ PaidFor(b, entry) \in Nat
                  /\ PaidFor(b, entry) <= DepositedBy(b, ItemMetadataOf[c])
                  /\ \E i \in ItemId : entry = ItemMetadataOf[c][i]
               \/ /\ PaidFor(b, entry) \in Nat
                  /\ PaidFor(b, entry) <= DepositedBy(b, Attribute[c])
                  /\ ~ \E i \in ItemId : entry = ItemMetadataOf[c][i]
    <3>1. PICK mm, tt : mm = ItemMetadataOf[c] /\ tt = Attribute[c]
      OBVIOUS
    <3>2. \A i \in ItemId : /\ PaidFor(b, mm[i]) \in Nat
                            /\ PaidFor(b, mm[i]) <= DepositedBy(b, mm)
      BY <2>1, <3>1, DepositedCovers, KeysFinite
    <3>3. \A k \in AttributeKey : /\ PaidFor(b, tt[k]) \in Nat
                                  /\ PaidFor(b, tt[k]) <= DepositedBy(b, tt)
      BY <2>1, <3>1, DepositedCovers, KeysFinite
    <3> QED
      BY <3>1, <3>2, <3>3
  <2>3. HeldTyped /\ OwnerPaidTyped
    BY HeldParts, OwnerPaidParts
  <2>4. /\ OwnerShare(a, Collection[c]) \in Nat /\ ItemsPaid(a, Item[c]) \in Nat
        /\ DepositedBy(a, ItemMetadataOf[c]) \in Nat /\ DepositedBy(a, Attribute[c]) \in Nat
        /\ DepositedBy(None, ItemMetadataOf[c]) \in Nat /\ DepositedBy(None, Attribute[c]) \in Nat
    BY <2>3 DEF HeldTyped, OwnerPaidTyped
  <2>5. /\ bal.reserved[a] \in Nat
        /\ OwnerShare(a, Collection[c]) + ItemsPaid(a, Item[c])
           + DepositedBy(a, ItemMetadataOf[c]) + DepositedBy(a, Attribute[c]) <= bal.reserved[a]
    BY HeldCovered DEF DepositsInv, Held
  <2>6. /\ Collection[c].owner_deposit \in Nat
        /\ DepositedBy(None, ItemMetadataOf[c]) + DepositedBy(None, Attribute[c])
              <= Collection[c].owner_deposit
    <3>1. /\ Collection[c].owner_deposit \in Nat /\ OwnerPaid(c) \in Nat
          /\ OwnerPaid(c) <= Collection[c].owner_deposit
      BY OwnerCovers DEF DepositsInv
    <3>2. (IF CollectionMetadataOf[c] = None THEN 0 ELSE CollectionMetadataOf[c].deposit) \in Nat
      BY DEF TypeOK, StorageTypeOK, Option, CollectionMetadata
    <3> QED
      BY ONLY <2>4, <3>1, <3>2 DEF OwnerPaid
  <2> QED
    BY <2>2, <2>4, <2>5, <2>6
<1>2. o = IF a = Collection[c].owner THEN e ELSE 0
  BY <1>1 DEF OwnerShare
<1>3. Due(a, Collection[c].owner, entry) = q + IF a = Collection[c].owner THEN p ELSE 0
  BY <1>1 DEF Due
<1>4. PICK d \in Nat : d = q + IF a = Collection[c].owner THEN p ELSE 0
  BY <1>1
<1>5. p <= e /\ d <= r
  BY ONLY <1>1, <1>2, <1>4
<1> QED
  BY <1>1, <1>3, <1>4, <1>5

\* The books of c follow the reserves when one entry is written: the old payer gets the old
\* deposit back, the new payer pays the new one, and owner_deposit counts what is the owner's.
Rebooked(c, old, new) ==
    /\ Collection[c] # None /\ Collection'[c] # None
    /\ Collection'[c].owner = Collection[c].owner
    /\ Collection'[c].owner_deposit
          = Collection[c].owner_deposit - PaidFor(None, old) + PaidFor(None, new)
    /\ \A a \in AccountId : bal'.reserved[a] = bal.reserved[a] - Due(a, Collection[c].owner, old)
                                                               + Due(a, Collection[c].owner, new)
    /\ \A d \in CollectionId \ {c} : Collection'[d] = Collection[d]

LEMMA AttributeBooks ==
    ASSUME TypeOK, TypeOK', DepositsInv, NEW c \in CollectionId, NEW k \in AttributeKey,
           NEW new, Attribute' = [Attribute EXCEPT ![c][k] = new], AttributePayer(k, new),
           Rebooked(c, Attribute[c][k], new),
           UNCHANGED <<CollectionMetadataOf, Item, ItemMetadataOf>>
    PROVE  DepositsInv'
<1>1. PICK old : old = Attribute[c][k]
  OBVIOUS
<1>2. /\ Attribute'[c][k] = new /\ \A j \in AttributeKey \ {k} : Attribute'[c][j] = Attribute[c][j]
      /\ \A d \in CollectionId \ {c} : Attribute'[d] = Attribute[d]
  BY DEF TypeOK, StorageTypeOK
<1>3. OnlyBooks(c)
  BY <1>2 DEF OnlyBooks, Rebooked
<1>4. PayersOf(c)'
  BY <1>2 DEF DepositsInv, PayersOf
<1>5. \A a : /\ PaidFor(a, old) \in Nat /\ PaidFor(a, new) \in Nat
             /\ DepositedBy(a, Attribute[c]) \in Nat /\ DepositedBy(a, Attribute'[c]) \in Nat
             /\ DepositedBy(a, Attribute'[c])
                   = DepositedBy(a, Attribute[c]) + PaidFor(a, new) - PaidFor(a, old)
  BY <1>1, <1>2, AttributeWrites
<1>6. OwnerBooks(c)'
  <2>1. PICK p, m, t, p2, m2, t2 \in Nat :
              /\ p = (IF CollectionMetadataOf[c] = None THEN 0 ELSE CollectionMetadataOf[c].deposit)
              /\ p2 = (IF CollectionMetadataOf'[c] = None THEN 0 ELSE CollectionMetadataOf'[c].deposit)
              /\ m = DepositedBy(None, ItemMetadataOf[c]) /\ t = DepositedBy(None, Attribute[c])
              /\ m2 = DepositedBy(None, ItemMetadataOf'[c]) /\ t2 = DepositedBy(None, Attribute'[c])
              /\ OwnerPaid(c) = p + m + t /\ OwnerPaid(c)' = p2 + m2 + t2
    BY OwnerPaidIs
  <2>2. PICK u, v, e, f \in Nat :
           /\ u = PaidFor(None, old) /\ v = PaidFor(None, new) /\ e = Collection[c].owner_deposit
           /\ f = Collection'[c].owner_deposit
    BY <1>5 DEF Rebooked, TypeOK, StorageTypeOK, Option, CollectionDetails
  <2>3. p2 = p /\ m2 = m /\ t2 = t + v - u /\ f = e - u + v
    BY <1>1, <1>5, <2>1, <2>2 DEF Rebooked
  <2>4. f + (p + m + t) = e + (p2 + m2 + t2)
    BY ONLY <2>1, <2>2, <2>3
  <2>5. Collection'[c].owner_deposit + OwnerPaid(c) = Collection[c].owner_deposit + OwnerPaid(c)'
    BY <2>1, <2>2, <2>4
  <2> QED
    BY <2>5, OwnerBooksMove DEF Rebooked, DepositsInv
<1>7. ASSUME NEW a \in AccountId
      PROVE  bal'.reserved[a] + Held(a, c) = bal.reserved[a] + Held(a, c)'
  <2>1. PICK o, x, m, t, o2, x2, m2, t2 \in Nat :
              /\ o = OwnerShare(a, Collection[c]) /\ x = ItemsPaid(a, Item[c])
              /\ m = DepositedBy(a, ItemMetadataOf[c]) /\ t = DepositedBy(a, Attribute[c])
              /\ o2 = OwnerShare(a, Collection'[c]) /\ x2 = ItemsPaid(a, Item'[c])
              /\ m2 = DepositedBy(a, ItemMetadataOf'[c]) /\ t2 = DepositedBy(a, Attribute'[c])
              /\ Held(a, c) = o + x + m + t /\ Held(a, c)' = o2 + x2 + m2 + t2
    BY HeldIs
  <2>2. PICK u, v, e, f, y, z, r, s \in Nat :
           /\ u = PaidFor(None, old) /\ v = PaidFor(None, new) /\ e = Collection[c].owner_deposit
           /\ f = Collection'[c].owner_deposit /\ y = PaidFor(a, old) /\ z = PaidFor(a, new)
           /\ r = bal.reserved[a] /\ s = bal'.reserved[a]
    BY <1>5 DEF Rebooked, TypeOK, StorageTypeOK, Option, CollectionDetails, BalanceSheet
  <2>3. f = e - u + v /\ x2 = x /\ m2 = m /\ t2 = t + z - y
    BY <1>1, <1>5, <2>1, <2>2 DEF Rebooked
  <2>4. /\ o = (IF a = Collection[c].owner THEN e ELSE 0)
        /\ o2 = (IF a = Collection[c].owner THEN f ELSE 0)
    BY <2>1, <2>2 DEF Rebooked, OwnerShare
  <2>5. s = r - (y + IF a = Collection[c].owner THEN u ELSE 0) + (z + IF a = Collection[c].owner THEN v ELSE 0)
    BY <1>1, <2>2 DEF Rebooked, Due
  <2>6. s + (o + x + m + t) = r + (o2 + x2 + m2 + t2)
    BY ONLY <2>1, <2>2, <2>3, <2>4, <2>5
  <2> QED
    BY <2>1, <2>2, <2>6
<1> QED
  BY <1>3, <1>4, <1>6, <1>7, OthersKept, BooksOfOne

\* The same for an item and its metadata, whose deposits burn returns together.
ItemRebooked(c, i, new, item) ==
    /\ ItemMetadataOf' = [ItemMetadataOf EXCEPT ![c][i] = new]
    /\ new # None => new.account = None
    /\ Item' = [Item EXCEPT ![c][i] = item]
    /\ Collection[c] # None /\ Collection'[c] # None
    /\ Collection'[c].owner = Collection[c].owner
    /\ Collection'[c].owner_deposit = Collection[c].owner_deposit
          - PaidFor(None, ItemMetadataOf[c][i]) + PaidFor(None, new)
    /\ \A a \in AccountId : bal'.reserved[a] = bal.reserved[a]
          - Due(a, Collection[c].owner, ItemMetadataOf[c][i]) - PaidForItem(a, Item[c][i])
          + Due(a, Collection[c].owner, new) + PaidForItem(a, item)
    /\ \A d \in CollectionId \ {c} : Collection'[d] = Collection[d]

LEMMA ItemBooks ==
    ASSUME TypeOK, TypeOK', DepositsInv, NEW c \in CollectionId, NEW i \in ItemId, NEW new,
           NEW item, ItemRebooked(c, i, new, item), UNCHANGED <<CollectionMetadataOf, Attribute>>
    PROVE  DepositsInv'
<1>0. /\ ItemMetadataOf' = [ItemMetadataOf EXCEPT ![c][i] = new]
      /\ new # None => new.account = None
      /\ Item' = [Item EXCEPT ![c][i] = item]
      /\ Collection[c] # None /\ Collection'[c] # None
      /\ Collection'[c].owner = Collection[c].owner
      /\ Collection'[c].owner_deposit = Collection[c].owner_deposit
            - PaidFor(None, ItemMetadataOf[c][i]) + PaidFor(None, new)
      /\ \A a \in AccountId : bal'.reserved[a] = bal.reserved[a]
            - Due(a, Collection[c].owner, ItemMetadataOf[c][i]) - PaidForItem(a, Item[c][i])
            + Due(a, Collection[c].owner, new) + PaidForItem(a, item)
      /\ \A d \in CollectionId \ {c} : Collection'[d] = Collection[d]
  BY DEF ItemRebooked
<1>1. PICK old : old = ItemMetadataOf[c][i]
  OBVIOUS
<1>2. /\ ItemMetadataOf'[c][i] = new /\ Item'[c][i] = item
      /\ \A j \in ItemId \ {i} : ItemMetadataOf'[c][j] = ItemMetadataOf[c][j] /\ Item'[c][j] = Item[c][j]
      /\ \A d \in CollectionId \ {c} : ItemMetadataOf'[d] = ItemMetadataOf[d] /\ Item'[d] = Item[d]
  BY <1>0 DEF TypeOK, StorageTypeOK
<1>3. OnlyBooks(c)
  BY <1>0, <1>2 DEF OnlyBooks
<1>4. PayersOf(c)'
  BY <1>0, <1>2 DEF DepositsInv, PayersOf
<1>5. \A a : /\ PaidFor(a, old) \in Nat /\ PaidFor(a, new) \in Nat
             /\ DepositedBy(a, ItemMetadataOf'[c])
                   = DepositedBy(a, ItemMetadataOf[c]) + PaidFor(a, new) - PaidFor(a, old)
  <2>1. \A j \in ItemId \ {i} : ItemMetadataOf'[c][j] = ItemMetadataOf[c][j]
    BY <1>2
  <2>2. ItemMetadataOf'[c][i] = new
    BY <1>2
  <2> QED
    BY ONLY <1>1, <2>1, <2>2, TypeOK, TypeOK', c \in CollectionId, i \in ItemId, MetadataWrites
<1>6. OwnerBooks(c)'
  <2>1. PICK p, m, t, p2, m2, t2 \in Nat :
              /\ p = (IF CollectionMetadataOf[c] = None THEN 0 ELSE CollectionMetadataOf[c].deposit)
              /\ p2 = (IF CollectionMetadataOf'[c] = None THEN 0 ELSE CollectionMetadataOf'[c].deposit)
              /\ m = DepositedBy(None, ItemMetadataOf[c]) /\ t = DepositedBy(None, Attribute[c])
              /\ m2 = DepositedBy(None, ItemMetadataOf'[c]) /\ t2 = DepositedBy(None, Attribute'[c])
              /\ OwnerPaid(c) = p + m + t /\ OwnerPaid(c)' = p2 + m2 + t2
    BY OwnerPaidIs
  <2>2. PICK u, v, e, f \in Nat :
           /\ u = PaidFor(None, old) /\ v = PaidFor(None, new) /\ e = Collection[c].owner_deposit
           /\ f = Collection'[c].owner_deposit
    BY <1>0, <1>5 DEF TypeOK, StorageTypeOK, Option, CollectionDetails
  <2>3. p2 = p /\ t2 = t /\ m2 = m + v - u /\ f = e - u + v
    BY <1>0, <1>1, <1>5, <2>1, <2>2
  <2>4. f + (p + m + t) = e + (p2 + m2 + t2)
    BY ONLY <2>1, <2>2, <2>3
  <2>5. Collection'[c].owner_deposit + OwnerPaid(c) = Collection[c].owner_deposit + OwnerPaid(c)'
    BY <2>1, <2>2, <2>4
  <2> QED
    BY <1>0, <2>5, OwnerBooksMove DEF DepositsInv
<1>7. ASSUME NEW a \in AccountId
      PROVE  bal'.reserved[a] + Held(a, c) = bal.reserved[a] + Held(a, c)'
  <2>1. PICK o, x, m, t, o2, x2, m2, t2 \in Nat :
              /\ o = OwnerShare(a, Collection[c]) /\ x = ItemsPaid(a, Item[c])
              /\ m = DepositedBy(a, ItemMetadataOf[c]) /\ t = DepositedBy(a, Attribute[c])
              /\ o2 = OwnerShare(a, Collection'[c]) /\ x2 = ItemsPaid(a, Item'[c])
              /\ m2 = DepositedBy(a, ItemMetadataOf'[c]) /\ t2 = DepositedBy(a, Attribute'[c])
              /\ Held(a, c) = o + x + m + t /\ Held(a, c)' = o2 + x2 + m2 + t2
    BY HeldIs
  <2>a. PICK g, h \in Nat : /\ g = PaidForItem(a, Item[c][i]) /\ h = PaidForItem(a, item)
                            /\ x2 = x + h - g
    <3>1. /\ PaidForItem(a, Item[c][i]) \in Nat /\ PaidForItem(a, Item'[c][i]) \in Nat
          /\ ItemsPaid(a, Item'[c])
                 = ItemsPaid(a, Item[c]) + PaidForItem(a, Item'[c][i]) - PaidForItem(a, Item[c][i])
      BY <1>2, ItemWrites
    <3>2. Item'[c][i] = item
      BY <1>2
    <3> QED
      BY ONLY <2>1, <3>1, <3>2
  <2>2. PICK u, v, e, f, y, z, r, s \in Nat :
           /\ u = PaidFor(None, old) /\ v = PaidFor(None, new) /\ e = Collection[c].owner_deposit
           /\ f = Collection'[c].owner_deposit /\ y = PaidFor(a, old) /\ z = PaidFor(a, new)
           /\ r = bal.reserved[a] /\ s = bal'.reserved[a]
    <3>1. /\ Collection[c].owner_deposit \in Nat /\ Collection'[c].owner_deposit \in Nat
          /\ bal.reserved[a] \in Nat /\ bal'.reserved[a] \in Nat
      BY <1>0 DEF TypeOK, StorageTypeOK, Option, CollectionDetails, BalanceSheet
    <3>2. /\ PaidFor(None, old) \in Nat /\ PaidFor(None, new) \in Nat
          /\ PaidFor(a, old) \in Nat /\ PaidFor(a, new) \in Nat
      BY <1>5
    <3> QED
      BY ONLY <3>1, <3>2
  <2>3. f = e - u + v /\ t2 = t /\ m2 = m + z - y
    BY <1>0, <1>1, <1>5, <2>1, <2>2
  <2>4. /\ o = (IF a = Collection[c].owner THEN e ELSE 0)
        /\ o2 = (IF a = Collection[c].owner THEN f ELSE 0)
    BY <1>0, <2>1, <2>2 DEF OwnerShare
  <2>5. s = r - (y + IF a = Collection[c].owner THEN u ELSE 0) - g
              + (z + IF a = Collection[c].owner THEN v ELSE 0) + h
    BY <1>0, <1>1, <2>a, <2>2 DEF Due
  <2>6. s + (o + x + m + t) = r + (o2 + x2 + m2 + t2)
    BY ONLY <2>1, <2>a, <2>2, <2>3, <2>4, <2>5
  <2> QED
    BY <2>1, <2>2, <2>6
<1> QED
  BY <1>3, <1>4, <1>6, <1>7, OthersKept, BooksOfOne

\* The same for the collection's metadata, which is always the owner's.
LEMMA MetadataBooks ==
    ASSUME TypeOK, TypeOK', DepositsInv, NEW c \in CollectionId, NEW old \in Nat, NEW new \in Nat,
           old = (IF CollectionMetadataOf[c] = None THEN 0 ELSE CollectionMetadataOf[c].deposit),
           new = (IF CollectionMetadataOf'[c] = None THEN 0 ELSE CollectionMetadataOf'[c].deposit),
           Collection[c] # None, Collection'[c] # None, Collection'[c].owner = Collection[c].owner,
           Collection'[c].owner_deposit = Collection[c].owner_deposit - old + new,
           \A a \in AccountId : bal'.reserved[a] = bal.reserved[a]
              + IF a = Collection[c].owner THEN new - old ELSE 0,
           \A d \in CollectionId \ {c} : /\ Collection'[d] = Collection[d]
                                         /\ CollectionMetadataOf'[d] = CollectionMetadataOf[d],
           UNCHANGED <<Item, ItemMetadataOf, Attribute>>
    PROVE  DepositsInv'
<1>1. OnlyBooks(c)
  BY DEF OnlyBooks
<1>2. PayersOf(c)'
  BY DEF DepositsInv, PayersOf
<1>3. PICK e, f \in Nat : e = Collection[c].owner_deposit /\ f = Collection'[c].owner_deposit
  BY DEF TypeOK, StorageTypeOK, Option, CollectionDetails
<1>4. f = e - old + new
  BY <1>3
<1>5. OwnerBooks(c)'
  <2>1. PICK p, m, t, p2, m2, t2 \in Nat :
              /\ p = (IF CollectionMetadataOf[c] = None THEN 0 ELSE CollectionMetadataOf[c].deposit)
              /\ p2 = (IF CollectionMetadataOf'[c] = None THEN 0 ELSE CollectionMetadataOf'[c].deposit)
              /\ m = DepositedBy(None, ItemMetadataOf[c]) /\ t = DepositedBy(None, Attribute[c])
              /\ m2 = DepositedBy(None, ItemMetadataOf'[c]) /\ t2 = DepositedBy(None, Attribute'[c])
              /\ OwnerPaid(c) = p + m + t /\ OwnerPaid(c)' = p2 + m2 + t2
    BY OwnerPaidIs
  <2>2. p = old /\ p2 = new /\ m2 = m /\ t2 = t
    BY <2>1
  <2>3. f + (p + m + t) = e + (p2 + m2 + t2)
    BY ONLY <1>3, <1>4, <2>1, <2>2
  <2>4. Collection'[c].owner_deposit + OwnerPaid(c) = Collection[c].owner_deposit + OwnerPaid(c)'
    BY <1>3, <2>1, <2>3
  <2> QED
    BY <2>4, OwnerBooksMove DEF DepositsInv
<1>6. ASSUME NEW a \in AccountId
      PROVE  bal'.reserved[a] + Held(a, c) = bal.reserved[a] + Held(a, c)'
  <2>1. PICK o, x, m, t, o2, x2, m2, t2 \in Nat :
              /\ o = OwnerShare(a, Collection[c]) /\ x = ItemsPaid(a, Item[c])
              /\ m = DepositedBy(a, ItemMetadataOf[c]) /\ t = DepositedBy(a, Attribute[c])
              /\ o2 = OwnerShare(a, Collection'[c]) /\ x2 = ItemsPaid(a, Item'[c])
              /\ m2 = DepositedBy(a, ItemMetadataOf'[c]) /\ t2 = DepositedBy(a, Attribute'[c])
              /\ Held(a, c) = o + x + m + t /\ Held(a, c)' = o2 + x2 + m2 + t2
    BY HeldIs
  <2>2. x2 = x /\ m2 = m /\ t2 = t
    BY <2>1
  <2>3. /\ o = (IF a = Collection[c].owner THEN e ELSE 0)
        /\ o2 = (IF a = Collection[c].owner THEN f ELSE 0)
    BY <1>3, <2>1 DEF OwnerShare
  <2>4. PICK r, s \in Nat : r = bal.reserved[a] /\ s = bal'.reserved[a]
    BY DEF TypeOK, StorageTypeOK, BalanceSheet
  <2>5. s = r + IF a = Collection[c].owner THEN new - old ELSE 0
    BY <2>4
  <2>6. s + (o + x + m + t) = r + (o2 + x2 + m2 + t2)
    BY ONLY <1>3, <1>4, <2>1, <2>2, <2>3, <2>4, <2>5, old \in Nat, new \in Nat
  <2> QED
    BY <2>1, <2>4, <2>6
<1> QED
  BY <1>1, <1>2, <1>5, <1>6, OthersKept, BooksOfOne

\* owner_deposit and the owner's reserve cover the deposit of the collection's metadata.
LEMMA MetadataCovered ==
    ASSUME TypeOK, DepositsInv, NEW c \in CollectionId, Collection[c] # None, NEW old,
           old = (IF CollectionMetadataOf[c] = None THEN 0 ELSE CollectionMetadataOf[c].deposit)
    PROVE  /\ old \in Nat /\ old <= Collection[c].owner_deposit
           /\ Collection[c].owner_deposit \in Nat /\ Collection[c].owner \in AccountId
           /\ bal.reserved[Collection[c].owner] \in Nat
           /\ Collection[c].owner_deposit <= bal.reserved[Collection[c].owner]
<1>1. old \in Nat
  BY DEF TypeOK, StorageTypeOK, Option, CollectionMetadata
<1>2. Collection[c].owner_deposit \in Nat /\ Collection[c].owner \in AccountId
  BY DEF TypeOK, StorageTypeOK, Option, CollectionDetails
<1>3. old <= Collection[c].owner_deposit
  <2>1. /\ OwnerPaid(c) \in Nat /\ OwnerPaid(c) <= Collection[c].owner_deposit
    BY OwnerCovers DEF DepositsInv
  <2>2. DepositedBy(None, ItemMetadataOf[c]) \in Nat /\ DepositedBy(None, Attribute[c]) \in Nat
    BY OwnerPaidParts DEF OwnerPaidTyped
  <2>3. OwnerPaid(c) = old + DepositedBy(None, ItemMetadataOf[c]) + DepositedBy(None, Attribute[c])
    BY DEF OwnerPaid
  <2> QED
    BY ONLY <1>1, <1>2, <2>1, <2>2, <2>3
<1>4. PICK o \in AccountId : o = Collection[c].owner
  BY <1>2
<1>5. /\ bal.reserved[o] \in Nat /\ Held(o, c) \in Nat /\ Held(o, c) <= bal.reserved[o]
  BY HeldCovered DEF DepositsInv
<1>6. Collection[c].owner_deposit <= Held(o, c)
  <2>1. OwnerShare(o, Collection[c]) = Collection[c].owner_deposit
    BY <1>4 DEF OwnerShare
  <2>2. /\ ItemsPaid(o, Item[c]) \in Nat /\ DepositedBy(o, ItemMetadataOf[c]) \in Nat
        /\ DepositedBy(o, Attribute[c]) \in Nat
    BY HeldParts DEF HeldTyped
  <2> QED
    BY <1>2, <2>1, <2>2 DEF Held
<1> QED
  BY <1>1, <1>2, <1>3, <1>4, <1>5, <1>6

\* set_collection_metadata and clear_collection_metadata.
LEMMA set_collection_metadata_Books ==
    ASSUME TypeOK, TypeOK', DepositsInv, NEW origin, NEW c \in CollectionId, NEW len \in Nat,
           do_set_collection_metadata(origin, c, len)
    PROVE  DepositsInv'
<1>1. PICK old, new :
         /\ old = (IF CollectionMetadataOf[c] = None THEN 0 ELSE CollectionMetadataOf[c].deposit)
         /\ new = (IF origin # Root /\ CollectionSettingEnabled(c, "DepositRequired")
                   THEN MetadataDeposit(len) ELSE 0)
  OBVIOUS
<1>2. new \in Nat
  BY <1>1, DepositType
<1>3. /\ Collection[c] # None
      /\ bal' = Adjust(bal, Collection[c].owner, old, new)
      /\ Collection' = [Collection EXCEPT ![c].owner_deposit = SatSub(@, old) + new]
      /\ CollectionMetadataOf' = [CollectionMetadataOf EXCEPT ![c] = [deposit |-> new, data |-> len]]
      /\ UNCHANGED <<Item, ItemMetadataOf, Attribute>>
  BY <1>1 DEF do_set_collection_metadata, CollectionMetadataFrame, itemVars, attributeVars
<1>4. /\ old \in Nat /\ old <= Collection[c].owner_deposit
      /\ Collection[c].owner_deposit \in Nat /\ Collection[c].owner \in AccountId
      /\ bal.reserved[Collection[c].owner] \in Nat
      /\ Collection[c].owner_deposit <= bal.reserved[Collection[c].owner]
  BY <1>1, <1>3, MetadataCovered
<1>5. PICK paid : paid = SatSub(Collection[c].owner_deposit, old) + new
  OBVIOUS
<1>6. paid = Collection[c].owner_deposit - old + new
  BY <1>2, <1>4, <1>5 DEF SatSub
<1>7. Collection' = [Collection EXCEPT ![c] = [Collection[c] EXCEPT !.owner_deposit = paid]]
  BY <1>3, <1>5
<1>8. Collection[c] \in CollectionDetails
  BY <1>3 DEF TypeOK, StorageTypeOK, Option
<1>9. /\ Collection'[c].owner = Collection[c].owner /\ Collection'[c].owner_deposit = paid
      /\ Collection'[c] # None
      /\ \A d \in CollectionId \ {c} : Collection'[d] = Collection[d]
  <2>1. Collection'[c] = [Collection[c] EXCEPT !.owner_deposit = paid]
    BY <1>7 DEF TypeOK, StorageTypeOK
  <2>2. /\ [Collection[c] EXCEPT !.owner_deposit = paid].owner = Collection[c].owner
        /\ [Collection[c] EXCEPT !.owner_deposit = paid].owner_deposit = paid
        /\ [Collection[c] EXCEPT !.owner_deposit = paid] \in CollectionDetails
    BY <1>2, <1>4, <1>6, <1>8 DEF CollectionDetails
  <2> QED
    BY <1>7, <2>1, <2>2, OptionAssumption DEF TypeOK, StorageTypeOK
<1>10. /\ \A d \in CollectionId \ {c} : CollectionMetadataOf'[d] = CollectionMetadataOf[d]
       /\ new = (IF CollectionMetadataOf'[c] = None THEN 0 ELSE CollectionMetadataOf'[c].deposit)
  <2>1. [deposit |-> new, data |-> len] \in CollectionMetadata
    BY <1>2 DEF CollectionMetadata
  <2> QED
    BY <1>3, <2>1, OptionAssumption DEF TypeOK, StorageTypeOK
<1>11. ASSUME NEW a \in AccountId
       PROVE  bal'.reserved[a] = bal.reserved[a] + IF a = Collection[c].owner THEN new - old ELSE 0
  <2>1. PICK o \in AccountId : o = Collection[c].owner
    BY <1>4
  <2>2. bal \in BalanceSheet(AccountId) /\ old <= bal.reserved[o]
    BY <1>4, <2>1 DEF TypeOK, StorageTypeOK
  <2> QED
    BY <1>2, <1>3, <1>4, <2>1, <2>2, AdjustMoves
<1> QED
  BY <1>1, <1>2, <1>3, <1>4, <1>6, <1>9, <1>10, <1>11, MetadataBooks

LEMMA clear_collection_metadata_Books ==
    ASSUME TypeOK, TypeOK', DepositsInv, NEW origin, NEW c \in CollectionId,
           do_clear_collection_metadata(origin, c)
    PROVE  DepositsInv'
<1>1. PICK old : old = CollectionMetadataOf[c].deposit
  OBVIOUS
<1>3. /\ Collection[c] # None /\ CollectionMetadataOf[c] # None
      /\ bal' = Unreserve(bal, Collection[c].owner, old)
      /\ Collection' = [Collection EXCEPT ![c].owner_deposit = SatSub(@, old)]
      /\ CollectionMetadataOf' = [CollectionMetadataOf EXCEPT ![c] = None]
      /\ UNCHANGED <<Item, ItemMetadataOf, Attribute>>
  BY <1>1 DEF do_clear_collection_metadata, CollectionMetadataFrame, itemVars, attributeVars
<1>2. old = (IF CollectionMetadataOf[c] = None THEN 0 ELSE CollectionMetadataOf[c].deposit)
  BY <1>1, <1>3
<1>4. /\ old \in Nat /\ old <= Collection[c].owner_deposit
      /\ Collection[c].owner_deposit \in Nat /\ Collection[c].owner \in AccountId
      /\ bal.reserved[Collection[c].owner] \in Nat
      /\ Collection[c].owner_deposit <= bal.reserved[Collection[c].owner]
  BY <1>2, <1>3, MetadataCovered
<1>5. PICK paid : paid = SatSub(Collection[c].owner_deposit, old)
  OBVIOUS
<1>6. paid = Collection[c].owner_deposit - old + 0
  BY <1>4, <1>5 DEF SatSub
<1>7. Collection' = [Collection EXCEPT ![c] = [Collection[c] EXCEPT !.owner_deposit = paid]]
  BY <1>3, <1>5
<1>8. Collection[c] \in CollectionDetails
  BY <1>3 DEF TypeOK, StorageTypeOK, Option
<1>9. /\ Collection'[c].owner = Collection[c].owner /\ Collection'[c].owner_deposit = paid
      /\ Collection'[c] # None
      /\ \A d \in CollectionId \ {c} : Collection'[d] = Collection[d]
  <2>1. Collection'[c] = [Collection[c] EXCEPT !.owner_deposit = paid]
    BY <1>7 DEF TypeOK, StorageTypeOK
  <2>2. /\ [Collection[c] EXCEPT !.owner_deposit = paid].owner = Collection[c].owner
        /\ [Collection[c] EXCEPT !.owner_deposit = paid].owner_deposit = paid
        /\ [Collection[c] EXCEPT !.owner_deposit = paid] \in CollectionDetails
    BY <1>4, <1>6, <1>8 DEF CollectionDetails
  <2> QED
    BY <1>7, <2>1, <2>2, OptionAssumption DEF TypeOK, StorageTypeOK
<1>10. /\ \A d \in CollectionId \ {c} : CollectionMetadataOf'[d] = CollectionMetadataOf[d]
       /\ CollectionMetadataOf'[c] = None
  BY <1>3 DEF TypeOK, StorageTypeOK
<1>11. ASSUME NEW a \in AccountId
       PROVE  bal'.reserved[a] = bal.reserved[a] + IF a = Collection[c].owner THEN 0 - old ELSE 0
  <2>1. PICK o \in AccountId : o = Collection[c].owner
    BY <1>4
  <2>2. bal \in BalanceSheet(AccountId) /\ old <= bal.reserved[o]
    BY <1>4, <2>1 DEF TypeOK, StorageTypeOK
  <2>3. bal'.reserved[a] = bal.reserved[a] - IF a = o THEN old ELSE 0
    BY <1>3, <1>4, <2>1, <2>2, UnreserveTakes
  <2>4. bal.reserved[a] \in Nat
    BY DEF TypeOK, StorageTypeOK, BalanceSheet
  <2> QED
    BY <1>4, <2>1, <2>3, <2>4
<1>12. 0 = (IF CollectionMetadataOf'[c] = None THEN 0 ELSE CollectionMetadataOf'[c].deposit)
  BY <1>10
<1> QED
  BY <1>2, <1>3, <1>4, <1>6, <1>9, <1>10, <1>11, <1>12, MetadataBooks
-----------------------------------------------------------------------------
(* The data handlers *)

\* The deposit moves from the payer of the old entry, if there is one, to that of the new.
Moves(c, o, old, amount, from, new, to) ==
    /\ Collection[c] # None /\ o \in AccountId /\ o = Collection[c].owner
    /\ old \in Option(Deposited)
    /\ \/ \E k \in AttributeKey : old = Attribute[c][k]
       \/ \E i \in ItemId : old = ItemMetadataOf[c][i]
    /\ from \in Option(AccountId)
    /\ old = None => amount = 0
    /\ old # None => amount = old.amount /\ from = IF old.account = None THEN o ELSE old.account
    /\ new \in Deposited /\ to = IF new.account = None THEN o ELSE new.account
    /\ CanMoveDeposit(bal, from, amount, to, new.amount)

LEMMA EntrySet ==
    ASSUME TypeOK, DepositsInv, NEW c \in CollectionId, NEW o, NEW old, NEW amount, NEW from,
           NEW new, NEW to, Moves(c, o, old, amount, from, new, to), NEW a \in AccountId
    PROVE  MoveDeposit(bal, from, amount, to, new.amount).reserved[a]
              = bal.reserved[a] - Due(a, o, old) + Due(a, o, new)
<1>0. /\ Collection[c] # None /\ o \in AccountId /\ o = Collection[c].owner
      /\ old \in Option(Deposited)
      /\ \/ \E k \in AttributeKey : old = Attribute[c][k]
         \/ \E i \in ItemId : old = ItemMetadataOf[c][i]
      /\ from \in Option(AccountId)
      /\ old = None => amount = 0
      /\ old # None => amount = old.amount /\ from = IF old.account = None THEN o ELSE old.account
      /\ new \in Deposited /\ to = IF new.account = None THEN o ELSE new.account
      /\ CanMoveDeposit(bal, from, amount, to, new.amount)
  BY DEF Moves
<1>1. new # None /\ new \in Option(Deposited)
  BY <1>0, OptionAssumption DEF Option
<1>2. new.amount \in Nat /\ Due(a, o, new) = (IF a = to THEN new.amount ELSE 0) /\ to \in AccountId
  BY <1>0, <1>1, DueIs
<1>3. amount \in Nat /\ Due(a, o, old) = IF a = from THEN amount ELSE 0
  <2>1. CASE old = None
    BY <1>0, <2>1, DueIs
  <2>2. CASE old # None
    BY <1>0, <2>2, DueIs
  <2> QED
    BY <2>1, <2>2
<1>4. bal \in BalanceSheet(AccountId)
  BY DEF TypeOK, StorageTypeOK
<1>5. from # None => amount <= bal.reserved[from]
  <2>1. SUFFICES ASSUME from # None PROVE amount <= bal.reserved[from]
    OBVIOUS
  <2>2. from \in AccountId
    BY <1>0, <2>1 DEF Option
  <2>3. CASE old = None
    BY <1>0, <1>4, <2>2, <2>3 DEF BalanceSheet
  <2>4. CASE old # None
    <3>1. Due(from, o, old) = amount
      BY <1>0, <2>2, <2>4, DueIs
    <3>2. Due(from, o, old) <= bal.reserved[from]
      BY <1>0, <2>2, EntryCovered
    <3> QED
      BY <3>1, <3>2
  <2> QED
    BY <2>3, <2>4
<1>6. MoveDeposit(bal, from, amount, to, new.amount).reserved[a]
         = bal.reserved[a] - (IF a = from THEN amount ELSE 0) + IF a = to THEN new.amount ELSE 0
  BY <1>0, <1>2, <1>3, <1>4, <1>5, MoveDepositMoves
<1> QED
  BY <1>2, <1>3, <1>6

\* set_attribute, with the depositor the dispatchable chooses.
LEMMA set_attribute_Books ==
    ASSUME TypeOK, TypeOK', DepositsInv, NEW origin \in AccountId, NEW c \in CollectionId,
           NEW k \in ClientKey, NEW len \in Nat, NEW depositor,
           depositor = (IF k[2] = CollectionOwner THEN Collection[c].owner ELSE origin),
           do_set_attribute(origin, c, k, len, depositor)
    PROVE  DepositsInv'
<1>1. PICK d : d = Collection[c]
  OBVIOUS
<1>2. d \in CollectionDetails /\ Collection[c] # None /\ k \in AttributeKey /\ k[2] # Pallet
  BY <1>1 DEF do_set_attribute, TypeOK, StorageTypeOK, Option, ClientKey
<1>3. PICK o \in AccountId : o = d.owner
  BY <1>2 DEF CollectionDetails
<1>4. depositor \in AccountId
  BY <1>1, <1>3
<1> DEFINE ofOwner == k[2] = CollectionOwner
<1>5. PICK old, deposit, amount, account :
         /\ old = Attribute[c][k]
         /\ deposit = (IF CollectionSettingEnabled(c, "DepositRequired") \/ ~ ofOwner
                       THEN AttributeDeposit(len) ELSE 0)
         /\ amount = (IF old = None THEN 0 ELSE old.amount)
         /\ account = (IF old = None THEN None ELSE old.account)
  OBVIOUS
<1>6. PICK from : from = (IF ofOwner /\ account = None /\ old # None THEN d.owner ELSE account)
  OBVIOUS
<1>7. PICK paid, count, payer :
         /\ paid = (IF ofOwner /\ d.owner = depositor
                    THEN KeptOwnerDeposit(d, from, depositor, amount) + deposit ELSE d.owner_deposit)
         /\ count = (IF old = None THEN SatInc(d.attributes) ELSE d.attributes)
         /\ payer = (IF ofOwner /\ d.owner = depositor THEN None ELSE depositor)
  OBVIOUS
<1>8. PICK new : new = [data |-> len, account |-> payer, amount |-> deposit]
  OBVIOUS
<1>9. /\ CanMoveDeposit(bal, from, amount, depositor, deposit)
      /\ bal' = MoveDeposit(bal, from, amount, depositor, deposit)
      /\ Collection' = [Collection EXCEPT ![c] = [d EXCEPT !.attributes = count, !.owner_deposit = paid]]
      /\ Attribute' = [Attribute EXCEPT ![c][k] = new]
      /\ UNCHANGED <<CollectionMetadataOf, Item, ItemMetadataOf>>
      /\ is_valid_namespace(origin, c, k)
  <2>1. PICK set : set = SetAttribute(c, k, len, depositor, bal, d)
    OBVIOUS
  <2>2. /\ set.ok /\ bal' = set.bal
        /\ Collection' = [Collection EXCEPT ![c] = set.details]
        /\ Attribute' = [Attribute EXCEPT ![c][k] = set.entry]
        /\ UNCHANGED <<CollectionMetadataOf, Item, ItemMetadataOf>>
        /\ is_valid_namespace(origin, c, k)
    BY <1>1, <2>1 DEF do_set_attribute, AttributeFrame, itemVars
  <2>3. /\ set.ok = CanMoveDeposit(bal, from, amount, depositor, deposit)
        /\ set.bal = MoveDeposit(bal, from, amount, depositor, deposit)
        /\ set.details = [d EXCEPT !.attributes = count, !.owner_deposit = paid]
        /\ set.entry = new
    BY ONLY <1>5, <1>6, <1>7, <1>8, <2>1 DEF SetAttribute
  <2> QED
    BY <2>2, <2>3
<1>10. old \in Option(Deposited) /\ deposit \in Nat /\ payer \in Option(AccountId)
  <2>1. old \in Option(Deposited)
    BY <1>2, <1>5 DEF TypeOK, StorageTypeOK
  <2>2. deposit \in Nat
    BY <1>5, DepositType
  <2>3. payer \in Option(AccountId)
    BY <1>4, <1>7 DEF Option
  <2> QED
    BY <2>1, <2>2, <2>3
<1>11. new \in Deposited /\ new.account = payer /\ new.amount = deposit
  BY <1>8, <1>10 DEF Deposited
<1>12. AttributePayer(k, old)
  BY <1>2, <1>5 DEF DepositsInv, PayersOf
<1>13. AttributePayer(k, new)
  <2>1. ofOwner => payer = None
    BY <1>1, <1>7
  <2>2. ~ ofOwner => payer = origin
    BY <1>7
  <2>3. \A a \in AccountId : k[2] = AccountNs(a) => a = origin /\ ~ ofOwner
    BY <1>9 DEF is_valid_namespace, AccountNs, CollectionOwner, ItemOwner
  <2>4. k[2] = ItemOwner => ~ ofOwner
    BY DEF ItemOwner, CollectionOwner
  <2>5. origin # None
    BY NoneAssumption
  <2> HIDE DEF ofOwner
  <2>6. k[2] = CollectionOwner => ofOwner
    BY DEF ofOwner
  <2> QED
    BY <1>2, <1>11, <2>1, <2>2, <2>3, <2>4, <2>5, <2>6 DEF AttributePayer
<1>14. old # None => from = IF old.account = None THEN o ELSE old.account
  <2>1. CASE ofOwner
    BY <1>3, <1>5, <1>6, <2>1
  <2>2. CASE ~ ofOwner
    <3>1. old # None => old.account # None
      <4>1. k[2] = ItemOwner \/ \E a \in AccountId : k[2] = AccountNs(a)
        BY <1>9, <2>2 DEF is_valid_namespace
      <4>2. None \notin AccountId
        BY NoneAssumption
      <4> QED
        BY <1>12, <4>1, <4>2 DEF AttributePayer
    <3> QED
      BY <1>5, <1>6, <2>2, <3>1
  <2> QED
    BY <2>1, <2>2
<1>15. from \in Option(AccountId) /\ amount \in Nat
  <2>1. account \in Option(AccountId) /\ amount \in Nat
    BY ONLY <1>5, <1>10 DEF Option, Deposited
  <2> QED
    BY <1>3, <1>6, <2>1 DEF Option
<1>16. depositor = IF new.account = None THEN o ELSE new.account
  <2>1. depositor # None
    BY <1>4, NoneAssumption
  <2> QED
    BY <1>1, <1>3, <1>7, <1>11, <2>1
<1>17. ASSUME NEW a \in AccountId
       PROVE  bal'.reserved[a] = bal.reserved[a] - Due(a, Collection[c].owner, old)
                                                 + Due(a, Collection[c].owner, new)
  <2>1. MoveDeposit(bal, from, amount, depositor, new.amount).reserved[a]
           = bal.reserved[a] - Due(a, o, old) + Due(a, o, new)
    <3>1. o = Collection[c].owner /\ \E j \in AttributeKey : old = Attribute[c][j]
      BY <1>1, <1>2, <1>3, <1>5
    <3>2. old = None => amount = 0
      BY <1>5
    <3>3. old # None => amount = old.amount /\ from = IF old.account = None THEN o ELSE old.account
      BY <1>5, <1>14
    <3>4. CanMoveDeposit(bal, from, amount, depositor, new.amount)
      BY <1>9, <1>11
    <3>5. Moves(c, o, old, amount, from, new, depositor)
      BY <1>2, <1>10, <1>11, <1>15, <1>16, <3>1, <3>2, <3>3, <3>4 DEF Moves
    <3> QED
      BY <3>5, EntrySet
  <2> QED
    BY <1>1, <1>3, <1>9, <1>11, <2>1
<1>18. paid = d.owner_deposit - PaidFor(None, old) + PaidFor(None, new) /\ paid \in Nat
  <2>1. d.owner_deposit \in Nat /\ new # None
    BY <1>2, <1>11, OptionAssumption DEF CollectionDetails
  <2>2. CASE ofOwner
    <3>1. PaidFor(None, new) = deposit
      BY <1>1, <1>7, <1>11, <2>1, <2>2 DEF PaidFor
    <3>2. PaidFor(None, old) = amount /\ (old # None => from = depositor) /\ (old = None => from = None)
      BY <1>1, <1>3, <1>5, <1>6, <1>12, <2>2 DEF PaidFor, AttributePayer
    <3>3. amount <= d.owner_deposit
      BY <1>1, <1>2, <1>3, <1>5, <3>2, EntryCovered
    <3>4. paid = KeptOwnerDeposit(d, from, depositor, amount) + deposit
      BY <1>1, <1>7, <2>2
    <3>5. KeptOwnerDeposit(d, from, depositor, amount) = d.owner_deposit - amount
      BY <1>4, <1>5, <1>15, <2>1, <3>2, <3>3, NoneAssumption DEF KeptOwnerDeposit, SatSub
    <3> QED
      BY <1>10, <1>15, <2>1, <3>1, <3>2, <3>3, <3>4, <3>5
  <2>3. CASE ~ ofOwner
    <3>1. PaidFor(None, new) = 0
      BY <1>7, <1>11, <2>3, NoneAssumption DEF PaidFor
    <3>2. PaidFor(None, old) = 0
      <4>1. k[2] = ItemOwner \/ \E a \in AccountId : k[2] = AccountNs(a)
        BY <1>9, <2>3 DEF is_valid_namespace
      <4>2. None \notin AccountId
        BY NoneAssumption
      <4> QED
        BY <1>12, <4>1, <4>2 DEF AttributePayer, PaidFor
    <3> QED
      BY <1>7, <2>1, <2>3, <3>1, <3>2
  <2> QED
    BY <2>2, <2>3
<1>19. PICK details : details = [d EXCEPT !.attributes = count, !.owner_deposit = paid]
  OBVIOUS
<1>20. details.owner = d.owner /\ details.owner_deposit = paid /\ details # None
  <2>1. count \in u32
    BY <1>2, <1>7, CounterType DEF CollectionDetails
  <2>2. details \in CollectionDetails /\ details.owner = d.owner
    BY ONLY <1>2, <1>18, <1>19, <2>1 DEF CollectionDetails
  <2>3. details.owner_deposit = paid
    BY ONLY <1>2, <1>19 DEF CollectionDetails
  <2> QED
    BY <2>2, <2>3, OptionAssumption
<1>21. Collection'[c] = details /\ \A b \in CollectionId \ {c} : Collection'[b] = Collection[b]
  BY <1>9, <1>19 DEF TypeOK, StorageTypeOK
<1>22. Rebooked(c, Attribute[c][k], new)
  BY <1>1, <1>2, <1>5, <1>17, <1>18, <1>20, <1>21 DEF Rebooked
<1> QED
  BY <1>2, <1>9, <1>13, <1>22, AttributeBooks

\* clear_attribute returns the deposit to whoever paid it.
LEMMA clear_attribute_Books ==
    ASSUME TypeOK, TypeOK', DepositsInv, NEW origin, NEW c \in CollectionId,
           NEW k \in AttributeKey, do_clear_attribute(origin, c, k)
    PROVE  DepositsInv'
<1>1. PICK d, old : d = Collection[c] /\ old = Attribute[c][k]
  OBVIOUS
<1>2. d \in CollectionDetails /\ old \in Deposited /\ Collection[c] # None /\ old # None
  BY <1>1 DEF do_clear_attribute, TypeOK, StorageTypeOK, Option
<1>3. PICK o \in AccountId : o = d.owner
  BY <1>2 DEF CollectionDetails
<1> DEFINE byOwner == old.account = None /\ k[2] = CollectionOwner
<1>4. PICK from, paid, count :
         /\ from = (IF byOwner THEN d.owner ELSE old.account)
         /\ paid = (IF byOwner THEN SatSub(d.owner_deposit, old.amount) ELSE d.owner_deposit)
         /\ count = SatDec(d.attributes)
  OBVIOUS
<1>5. /\ bal' = (IF from = None THEN bal ELSE Unreserve(bal, from, old.amount))
      /\ Collection' = [Collection EXCEPT ![c] = [d EXCEPT !.attributes = count, !.owner_deposit = paid]]
      /\ Attribute' = [Attribute EXCEPT ![c][k] = None]
      /\ UNCHANGED <<CollectionMetadataOf, Item, ItemMetadataOf>>
  BY <1>1, <1>4 DEF do_clear_attribute, AttributeFrame, itemVars
<1>6. AttributePayer(k, old) /\ AttributePayer(k, None)
  BY <1>1 DEF DepositsInv, PayersOf, AttributePayer
<1>7. old.amount \in Nat /\ old.account \in Option(AccountId) /\ d.owner_deposit \in Nat
  BY <1>2 DEF Deposited, CollectionDetails
<1>8. None \notin AccountId
  BY NoneAssumption
\* without an account the owner has paid, or it is an attribute of the pallet
<1>9. byOwner \/ old.account # None \/ (old.account = None /\ old.amount = 0)
  <2>1. k[2] \in {Pallet, CollectionOwner, ItemOwner} \cup {AccountNs(a) : a \in AccountId}
    BY DEF AttributeKey, ClientNamespace
  <2> QED
    BY <1>2, <1>6, <1>8, <2>1 DEF AttributePayer
<1>10. ASSUME NEW a \in AccountId
       PROVE  bal'.reserved[a] = bal.reserved[a] - Due(a, Collection[c].owner, old)
                                                 + Due(a, Collection[c].owner, None)
  <2>1. /\ Due(a, o, None) = 0
        /\ Due(a, o, old) = IF a = (IF old.account = None THEN o ELSE old.account) THEN old.amount ELSE 0
    <3>1. old \in Option(Deposited) /\ None \in Option(Deposited)
      BY <1>2 DEF Option
    <3> QED
      BY <1>2, <3>1, DueIs
  <2>2. bal \in BalanceSheet(AccountId) /\ bal.reserved[a] \in Nat
    BY DEF TypeOK, StorageTypeOK, BalanceSheet
  <2>3. CASE from = None
    <3>1. old.amount = 0
      BY <1>3, <1>4, <1>8, <1>9, <2>3
    <3>2. bal' = bal
      BY <1>5, <2>3
    <3> QED
      BY <1>1, <1>3, <2>1, <2>2, <3>1, <3>2
  <2>4. CASE from # None
    <3>1. from = (IF old.account = None THEN o ELSE old.account) /\ from \in AccountId
      BY <1>3, <1>4, <1>7, <2>4 DEF Option
    <3>2. old.amount <= bal.reserved[from]
      <4>1. Due(from, o, old) = old.amount
        <5>1. old \in Option(Deposited)
          BY <1>2 DEF Option
        <5> QED
          BY <1>2, <3>1, <5>1, DueIs
      <4>2. Due(from, o, old) <= bal.reserved[from]
        BY <1>1, <1>2, <1>3, <3>1, EntryCovered
      <4> QED
        BY <4>1, <4>2
    <3>3. bal'.reserved[a] = bal.reserved[a] - IF a = from THEN old.amount ELSE 0
      BY <1>5, <1>7, <2>2, <2>4, <3>1, <3>2, UnreserveTakes
    <3> QED
      BY <1>1, <1>3, <1>7, <2>1, <2>2, <3>1, <3>3
  <2> QED
    BY <2>3, <2>4
<1>11. paid = d.owner_deposit - PaidFor(None, old) + PaidFor(None, None) /\ paid \in Nat
  <2>1. PaidFor(None, None) = 0 /\ PaidFor(None, old) = IF byOwner THEN old.amount ELSE 0
    BY <1>2, <1>9 DEF PaidFor
  <2>2. PaidFor(None, old) <= d.owner_deposit
    BY <1>1, <1>2, <1>3, EntryCovered
  <2> HIDE DEF byOwner
  <2>3. CASE byOwner
    <3>1. paid = SatSub(d.owner_deposit, old.amount) /\ old.amount <= d.owner_deposit
      BY <1>4, <2>1, <2>2, <2>3
    <3>2. SatSub(d.owner_deposit, old.amount) = d.owner_deposit - old.amount
      BY <1>7, <3>1 DEF SatSub
    <3> QED
      BY <1>7, <2>1, <2>3, <3>1, <3>2
  <2>4. CASE ~ byOwner
    BY <1>4, <1>7, <2>1, <2>4
  <2> QED
    BY <2>3, <2>4
<1>12. PICK details : details = [d EXCEPT !.attributes = count, !.owner_deposit = paid]
  OBVIOUS
<1>13. details.owner = d.owner /\ details.owner_deposit = paid /\ details # None
  <2>1. count \in u32
    BY <1>2, <1>4, CounterType DEF CollectionDetails
  <2>2. details \in CollectionDetails /\ details.owner = d.owner
    BY ONLY <1>2, <1>11, <1>12, <2>1 DEF CollectionDetails
  <2>3. details.owner_deposit = paid
    BY ONLY <1>2, <1>12 DEF CollectionDetails
  <2> QED
    BY <2>2, <2>3, OptionAssumption
<1>14. Collection'[c] = details /\ \A b \in CollectionId \ {c} : Collection'[b] = Collection[b]
  BY <1>5, <1>12 DEF TypeOK, StorageTypeOK
<1>15. Rebooked(c, Attribute[c][k], None)
  BY <1>1, <1>2, <1>10, <1>11, <1>13, <1>14 DEF Rebooked
<1> QED
  BY <1>5, <1>6, <1>15, AttributeBooks

\* force_set_attribute and fractionalize on an attribute of the pallet.
LEMMA force_set_attribute_Books ==
    ASSUME TypeOK, TypeOK', DepositsInv, NEW set_as, NEW c \in CollectionId,
           NEW k \in AttributeKey, k[2] = Pallet, NEW len \in Nat, do_force_set_attribute(set_as, c, k, len)
    PROVE  DepositsInv'
<1>1. PICK d, old, new : /\ d = Collection[c] /\ old = Attribute[c][k]
                         /\ new = [data |-> len, account |-> set_as, amount |-> 0]
  OBVIOUS
<1>2. d \in CollectionDetails /\ Collection[c] # None /\ old \in Option(Deposited)
  BY <1>1 DEF do_force_set_attribute, TypeOK, StorageTypeOK, Option
<1>3. PICK count : count = IF old = None THEN SatInc(d.attributes) ELSE d.attributes
  OBVIOUS
<1>4. /\ bal' = (IF old # None /\ old.account \notin {set_as, None}
                 THEN Unreserve(bal, old.account, old.amount) ELSE bal)
      /\ Collection' = [Collection EXCEPT ![c] = [d EXCEPT !.attributes = count]]
      /\ Attribute' = [Attribute EXCEPT ![c][k] = new]
      /\ UNCHANGED <<CollectionMetadataOf, Item, ItemMetadataOf>>
  BY <1>1, <1>3 DEF do_force_set_attribute, AttributeFrame, itemVars
<1>5. bal'.reserved = bal.reserved
  <2>1. CASE old # None /\ old.account \notin {set_as, None}
    <3>1. old.amount = 0 /\ old.account \in AccountId
      BY <1>1, <1>2, <2>1 DEF DepositsInv, PayersOf, AttributePayer, Option, Deposited
    <3>2. PICK who \in AccountId : who = old.account
      BY <3>1
    <3>3. bal' = Unreserve(bal, who, 0)
      BY <1>4, <2>1, <3>1, <3>2
    <3>4. bal.reserved \in [AccountId -> Nat]
      BY DEF TypeOK, StorageTypeOK, BalanceSheet
    <3>5. Lesser(0, bal.reserved[who]) = 0
      BY <3>4 DEF Lesser
    <3>6. Unreserve(bal, who, 0).reserved = [bal.reserved EXCEPT ![who] = @ - 0]
      BY <3>5 DEF Unreserve
    <3> QED
      BY <3>3, <3>4, <3>6
  <2>2. CASE ~ (old # None /\ old.account \notin {set_as, None})
    BY <1>4, <2>2
  <2> QED
    BY <2>1, <2>2
<1>6. AttributePayer(k, new)
  BY <1>1 DEF AttributePayer, Pallet, CollectionOwner, ItemOwner, AccountNs
<1>7. /\ Attribute'[c][k] = new /\ \A j \in AttributeKey \ {k} : Attribute'[c][j] = Attribute[c][j]
      /\ \A b \in CollectionId \ {c} : Attribute'[b] = Attribute[b] /\ Collection'[b] = Collection[b]
      /\ Collection'[c] = [d EXCEPT !.attributes = count]
  BY <1>4 DEF TypeOK, StorageTypeOK
<1>8. /\ Collection'[c].owner = d.owner /\ Collection'[c].owner_deposit = d.owner_deposit
      /\ Collection'[c] # None
  <2>1. count \in u32
    BY <1>2, <1>3, CounterType DEF CollectionDetails
  <2>2. [d EXCEPT !.attributes = count] \in CollectionDetails
    BY <1>2, <2>1 DEF CollectionDetails
  <2> QED
    BY <1>2, <1>7, <2>2, OptionAssumption DEF CollectionDetails
<1>9. ASSUME NEW b \in CollectionId PROVE NoDeposits(b)
  <2>1. CASE b = c
    BY <1>1, <1>2, <1>4, <1>6, <1>7, <1>8, <2>1 DEF NoDeposits
  <2>2. CASE b # c
    BY <1>4, <1>7, <2>2 DEF NoDeposits
  <2> QED
    BY <2>1, <2>2
<1> QED
  BY <1>5, <1>9, NoBooks

\* A write of what is there.
LEMMA WriteSame ==
    ASSUME NEW T, NEW m \in [CollectionId -> [ItemId -> T]], NEW c \in CollectionId, NEW i \in ItemId
    PROVE  m = [m EXCEPT ![c][i] = m[c][i]]
<1>1. m[c] = [m[c] EXCEPT ![i] = m[c][i]]
  OBVIOUS
<1> QED
  BY <1>1

\* set_metadata: the collection's owner pays, and has paid for what is replaced.
LEMMA set_metadata_Books ==
    ASSUME TypeOK, TypeOK', DepositsInv, NEW origin, NEW c \in CollectionId, NEW i \in ItemId,
           NEW len \in Nat, do_set_item_metadata(origin, c, i, len)
    PROVE  DepositsInv'
<1>1. PICK d, old : d = Collection[c] /\ old = ItemMetadataOf[c][i]
  OBVIOUS
<1>2. d \in CollectionDetails /\ old \in Option(Deposited) /\ Collection[c] # None
  BY <1>1 DEF do_set_item_metadata, TypeOK, StorageTypeOK, Option
<1>3. PICK o \in AccountId : o = d.owner
  BY <1>2 DEF CollectionDetails
<1>4. PICK isRoot : isRoot = (origin = Root)
  OBVIOUS
<1>5. PICK amount, deposit, from :
         /\ amount = (IF old = None THEN 0 ELSE old.amount)
         /\ deposit = (IF CollectionSettingEnabled(c, "DepositRequired") /\ ~ isRoot
                       THEN MetadataDeposit(len) ELSE 0)
         /\ from = (IF old = None THEN d.owner ELSE DepositorOf(old, d.owner))
  OBVIOUS
<1>6. PICK count, paid, new :
         /\ count = (IF old = None THEN SatInc(d.item_metadatas) ELSE d.item_metadatas)
         /\ paid = SatSub(d.owner_deposit + deposit, amount)
         /\ new = [data |-> len, account |-> None, amount |-> deposit]
  OBVIOUS
<1>7. /\ CanMoveDeposit(bal, from, amount, o, deposit)
      /\ bal' = MoveDeposit(bal, from, amount, o, deposit)
      /\ Collection' = [Collection EXCEPT ![c] = [d EXCEPT !.item_metadatas = count, !.owner_deposit = paid]]
      /\ ItemMetadataOf' = [ItemMetadataOf EXCEPT ![c][i] = new]
      /\ UNCHANGED <<CollectionMetadataOf, Item, Attribute>>
  <2>1. PICK set : set = SetItemMetadata(c, i, len, isRoot, None, bal, d)
    OBVIOUS
  <2>2. /\ set.ok /\ bal' = set.bal
        /\ Collection' = [Collection EXCEPT ![c] = set.details]
        /\ ItemMetadataOf' = [ItemMetadataOf EXCEPT ![c][i] = set.entry]
        /\ UNCHANGED <<CollectionMetadataOf, Item, Attribute>>
    BY <1>1, <1>4, <2>1 DEF do_set_item_metadata, attributeVars
  <2>3. /\ set.ok = CanMoveDeposit(bal, from, amount, o, deposit)
        /\ set.bal = MoveDeposit(bal, from, amount, o, deposit)
        /\ set.details = [d EXCEPT !.item_metadatas = count, !.owner_deposit = paid]
        /\ set.entry = new
    BY ONLY <1>1, <1>3, <1>5, <1>6, <2>1 DEF SetItemMetadata
  <2> QED
    BY <2>2, <2>3
<1>8. deposit \in Nat /\ amount \in Nat /\ d.owner_deposit \in Nat
  <2>1. deposit \in Nat
    BY <1>5, DepositType
  <2>2. amount \in Nat
    BY <1>2, <1>5 DEF Option, Deposited
  <2> QED
    BY <1>2, <2>1, <2>2 DEF CollectionDetails
<1>9. new \in Deposited /\ new.account = None /\ new.amount = deposit /\ new # None
  <2>1. new \in Deposited /\ new.account = None /\ new.amount = deposit
    BY <1>6, <1>8 DEF Deposited, Option
  <2> QED
    BY <2>1, OptionAssumption
<1>10. old # None => old.account = None
  BY <1>1 DEF DepositsInv, PayersOf
<1>11. from = o
  BY <1>3, <1>5, <1>10 DEF DepositorOf
<1>12. ASSUME NEW a \in AccountId
       PROVE  bal'.reserved[a] = bal.reserved[a]
                 - Due(a, Collection[c].owner, ItemMetadataOf[c][i]) - PaidForItem(a, Item[c][i])
                 + Due(a, Collection[c].owner, new) + PaidForItem(a, Item[c][i])
  <2>1. Moves(c, o, old, amount, from, new, o)
    <3>1. old = None => amount = 0
      BY <1>5
    <3>2. old # None => amount = old.amount /\ from = IF old.account = None THEN o ELSE old.account
      BY <1>5, <1>10, <1>11
    <3>3. from \in Option(AccountId)
      BY <1>11 DEF Option
    <3>4. \E j \in ItemId : old = ItemMetadataOf[c][j]
      BY <1>1
    <3> QED
      BY <1>1, <1>2, <1>3, <1>7, <1>9, <3>1, <3>2, <3>3, <3>4 DEF Moves
  <2>2. MoveDeposit(bal, from, amount, o, new.amount).reserved[a]
           = bal.reserved[a] - Due(a, o, old) + Due(a, o, new)
    BY <2>1, EntrySet
  <2>3. PICK x \in Nat : x = PaidForItem(a, Item[c][i])
    BY ItemsCover DEF TypeOK, StorageTypeOK
  <2>4. PICK r, y, z \in Nat : r = bal.reserved[a] /\ y = Due(a, o, old) /\ z = Due(a, o, new)
    <3>1. bal.reserved[a] \in Nat
      BY DEF TypeOK, StorageTypeOK, BalanceSheet
    <3>2. Due(a, o, old) \in Nat
      BY <1>1, <1>2, <1>3, EntryCovered
    <3>3. Due(a, o, new) \in Nat
      <4>1. new \in Option(Deposited)
        BY <1>9 DEF Option
      <4> QED
        BY <1>8, <1>9, <4>1, DueIs
    <3> QED
      BY <3>1, <3>2, <3>3
  <2>5. bal'.reserved[a] = r - y + z
    BY <1>7, <1>9, <2>2, <2>4
  <2>6. r - y + z = r - y - x + z + x
    BY ONLY <2>3, <2>4
  <2> QED
    BY <1>1, <1>3, <2>3, <2>4, <2>5, <2>6
<1>13. paid = d.owner_deposit - PaidFor(None, old) + PaidFor(None, new) /\ paid \in Nat
  <2>1. PaidFor(None, new) = deposit /\ PaidFor(None, old) = amount
    BY <1>5, <1>9, <1>10 DEF PaidFor
  <2>2. PaidFor(None, old) <= d.owner_deposit
    BY <1>1, <1>2, <1>3, EntryCovered
  <2> QED
    BY <1>6, <1>8, <2>1, <2>2 DEF SatSub
<1>14. PICK details : details = [d EXCEPT !.item_metadatas = count, !.owner_deposit = paid]
  OBVIOUS
<1>15. details.owner = d.owner /\ details.owner_deposit = paid /\ details # None
  <2>1. count \in u32
    BY <1>2, <1>6, CounterType DEF CollectionDetails
  <2>2. details \in CollectionDetails /\ details.owner = d.owner
    BY ONLY <1>2, <1>13, <1>14, <2>1 DEF CollectionDetails
  <2>3. details.owner_deposit = paid
    BY ONLY <1>2, <1>14 DEF CollectionDetails
  <2> QED
    BY <2>2, <2>3, OptionAssumption
<1>16. Collection'[c] = details /\ \A b \in CollectionId \ {c} : Collection'[b] = Collection[b]
  BY <1>7, <1>14 DEF TypeOK, StorageTypeOK
<1>17. Item' = [Item EXCEPT ![c][i] = Item[c][i]]
  BY <1>7, WriteSame DEF TypeOK, StorageTypeOK
<1>18. PICK item : item = Item[c][i]
  OBVIOUS
<1>19. /\ Collection'[c] # None /\ Collection'[c].owner = Collection[c].owner
       /\ Collection'[c].owner_deposit = Collection[c].owner_deposit
              - PaidFor(None, ItemMetadataOf[c][i]) + PaidFor(None, new)
  BY <1>1, <1>13, <1>15, <1>16
<1>20. Item' = [Item EXCEPT ![c][i] = item]
  BY <1>17, <1>18
<1>21. \A a \in AccountId : bal'.reserved[a] = bal.reserved[a]
              - Due(a, Collection[c].owner, ItemMetadataOf[c][i]) - PaidForItem(a, Item[c][i])
              + Due(a, Collection[c].owner, new) + PaidForItem(a, item)
  BY <1>12, <1>18
<1>22. ItemRebooked(c, i, new, item)
  BY <1>2, <1>7, <1>9, <1>16, <1>19, <1>20, <1>21 DEF ItemRebooked
<1> QED
  BY <1>7, <1>22, ItemBooks

\* The metadata of an item is the owner's, who gets the deposit back when it is cleared.
LEMMA ClearedMetadata ==
    ASSUME TypeOK, DepositsInv, NEW c \in CollectionId, NEW i \in ItemId, Collection[c] # None,
           ItemMetadataOf[c][i] # None
    PROVE  /\ ClearedMetadataDetails(c, i) \in CollectionDetails
           /\ ClearedMetadataDetails(c, i).owner = Collection[c].owner
           /\ ClearedMetadataDetails(c, i).owner_deposit
                 = Collection[c].owner_deposit - PaidFor(None, ItemMetadataOf[c][i])
           /\ \A b : ClearedMetadataBalance(c, i, b)
                        = Unreserve(b, Collection[c].owner, ItemMetadataOf[c][i].amount)
           /\ ItemMetadataOf[c][i].amount \in Nat
           /\ \A a \in AccountId : Due(a, Collection[c].owner, ItemMetadataOf[c][i])
                        = IF a = Collection[c].owner THEN ItemMetadataOf[c][i].amount ELSE 0
<1>1. PICK d, m : d = Collection[c] /\ m = ItemMetadataOf[c][i]
  OBVIOUS
<1>2. d \in CollectionDetails /\ m \in Deposited /\ m \in Option(Deposited) /\ m # None
  BY <1>1 DEF TypeOK, StorageTypeOK, Option
<1>3. m.account = None
  BY <1>1, <1>2 DEF DepositsInv, PayersOf
<1>4. d.owner \in AccountId /\ d.owner_deposit \in Nat /\ m.amount \in Nat
  BY <1>2 DEF CollectionDetails, Deposited
<1>5. DepositorOf(m, d.owner) = d.owner
  BY <1>3 DEF DepositorOf
<1>6. ClearedMetadataDetails(c, i) \in CollectionDetails /\ ClearedMetadataDetails(c, i).owner = d.owner
  BY <1>1, ClearedMetadataType DEF TypeOK, StorageTypeOK
<1>7. ClearedMetadataDetails(c, i).owner_deposit = d.owner_deposit - PaidFor(None, m)
  <2>1. PaidFor(None, m) = m.amount
    BY <1>2, <1>3 DEF PaidFor
  <2>2. PaidFor(None, m) <= d.owner_deposit
    BY <1>1, <1>4, EntryCovered
  <2>3. PICK paid, count : paid = SatSub(d.owner_deposit, m.amount) /\ count = SatDec(d.item_metadatas)
    OBVIOUS
  <2>4. ClearedMetadataDetails(c, i) = [d EXCEPT !.item_metadatas = count, !.owner_deposit = paid]
    BY <1>1, <1>5, <2>3 DEF ClearedMetadataDetails
  <2>5. [d EXCEPT !.item_metadatas = count, !.owner_deposit = paid].owner_deposit = paid
    BY ONLY <1>2 DEF CollectionDetails
  <2>6. paid = d.owner_deposit - m.amount
    BY <1>4, <2>1, <2>2, <2>3 DEF SatSub
  <2> QED
    BY <2>1, <2>4, <2>5, <2>6
<1>8. \A b : ClearedMetadataBalance(c, i, b) = Unreserve(b, d.owner, m.amount)
  BY <1>1, <1>5 DEF ClearedMetadataBalance
<1>9. ASSUME NEW a \in AccountId PROVE Due(a, d.owner, m) = IF a = d.owner THEN m.amount ELSE 0
  BY <1>2, <1>3, <1>4, DueIs
<1> QED
  BY <1>1, <1>4, <1>6, <1>7, <1>8, <1>9

\* clear_metadata.
LEMMA clear_metadata_Books ==
    ASSUME TypeOK, TypeOK', DepositsInv, NEW origin, NEW c \in CollectionId, NEW i \in ItemId,
           do_clear_item_metadata(origin, c, i)
    PROVE  DepositsInv'
<1>1. PICK d, old, item, details :
         /\ d = Collection[c] /\ old = ItemMetadataOf[c][i] /\ item = Item[c][i]
         /\ details = ClearedMetadataDetails(c, i)
  OBVIOUS
<1>2. /\ Collection[c] # None /\ old # None
      /\ Collection' = [Collection EXCEPT ![c] = details]
      /\ bal' = ClearedMetadataBalance(c, i, bal)
      /\ ItemMetadataOf' = [ItemMetadataOf EXCEPT ![c][i] = None]
      /\ UNCHANGED <<CollectionMetadataOf, Item, Attribute>>
  BY <1>1 DEF do_clear_item_metadata, attributeVars
<1>3. /\ details \in CollectionDetails /\ details.owner = d.owner
      /\ details.owner_deposit = d.owner_deposit - PaidFor(None, old)
      /\ bal' = Unreserve(bal, d.owner, old.amount) /\ old.amount \in Nat
      /\ \A a \in AccountId : Due(a, d.owner, old) = IF a = d.owner THEN old.amount ELSE 0
  BY <1>1, <1>2, ClearedMetadata
<1>4. Collection'[c] = details /\ \A b \in CollectionId \ {c} : Collection'[b] = Collection[b]
  BY <1>2 DEF TypeOK, StorageTypeOK
<1>5. Item' = [Item EXCEPT ![c][i] = item]
  BY <1>1, <1>2, WriteSame DEF TypeOK, StorageTypeOK
<1>6. PaidFor(None, None) = 0 /\ d.owner_deposit \in Nat /\ d.owner \in AccountId /\ details # None
  <2>1. d \in CollectionDetails
    BY <1>1, <1>2 DEF TypeOK, StorageTypeOK, Option
  <2> QED
    BY <1>3, <2>1, OptionAssumption DEF PaidFor, CollectionDetails
<1>7. PaidFor(None, old) \in Nat
  BY <1>1, <1>2, <1>6, EntryCovered
<1>8. details.owner_deposit = d.owner_deposit - PaidFor(None, old) + PaidFor(None, None)
  BY <1>3, <1>6, <1>7
<1>9. ASSUME NEW a \in AccountId
      PROVE  bal'.reserved[a] = bal.reserved[a] - Due(a, d.owner, old) - PaidForItem(a, item)
                                                + Due(a, d.owner, None) + PaidForItem(a, item)
  <2>1. PICK o \in AccountId : o = d.owner
    BY <1>6
  <2>2. PICK x, r \in Nat : x = PaidForItem(a, item) /\ r = bal.reserved[a]
    <3>1. PaidForItem(a, item) \in Nat
      BY <1>1, ItemsCover DEF TypeOK, StorageTypeOK
    <3>2. bal.reserved[a] \in Nat
      BY DEF TypeOK, StorageTypeOK, BalanceSheet
    <3> QED
      BY <3>1, <3>2
  <2>3. old.amount <= bal.reserved[o]
    <3>1. Due(o, d.owner, old) = old.amount
      BY <1>3, <2>1
    <3>2. Due(o, d.owner, old) <= bal.reserved[o]
      BY <1>1, <1>2, EntryCovered
    <3> QED
      BY <3>1, <3>2
  <2>4. bal'.reserved[a] = r - IF a = o THEN old.amount ELSE 0
    <3>1. bal \in BalanceSheet(AccountId)
      BY DEF TypeOK, StorageTypeOK
    <3> QED
      BY <1>3, <2>1, <2>2, <2>3, <3>1, UnreserveTakes
  <2>5. Due(a, d.owner, None) = 0 /\ Due(a, d.owner, old) = IF a = o THEN old.amount ELSE 0
    BY <1>3, <2>1 DEF Due, PaidFor
  <2>6. PICK y \in Nat : y = IF a = o THEN old.amount ELSE 0
    BY <1>3
  <2>7. r - y = r - y - x + 0 + x
    BY ONLY <2>2, <2>6
  <2> QED
    BY <2>2, <2>4, <2>5, <2>6, <2>7
<1>10. ItemRebooked(c, i, None, item)
  BY <1>1, <1>2, <1>3, <1>4, <1>5, <1>6, <1>8, <1>9 DEF ItemRebooked
<1> QED
  BY <1>2, <1>10, ItemBooks

\* redeposit: from what was paid for the item to what it costs now.
LEMMA redeposit_Books ==
    ASSUME TypeOK, TypeOK', DepositsInv, NEW origin, NEW c \in CollectionId, NEW i \in ItemId,
           redeposit_item(origin, c, i)
    PROVE  DepositsInv'
<1>1. PICK old, m : old = Item[c][i] /\ m = ItemMetadataOf[c][i]
  OBVIOUS
<1>2. old \in ItemDetails /\ Collection[c] # None /\ old # None
  BY <1>1 DEF redeposit_item, TypeOK, StorageTypeOK, Option
<1>3. PICK amount, who, deposit :
         amount = old.deposit_amount /\ who = old.deposit_account /\ deposit = ItemDepositOf(c)
  OBVIOUS
<1>4. PICK item : item = [old EXCEPT !.deposit_amount = deposit]
  OBVIOUS
<1>5. /\ bal' = Adjust(bal, who, amount, deposit)
      /\ Item' = [Item EXCEPT ![c][i] = item]
      /\ UNCHANGED <<Collection, CollectionMetadataOf, ItemMetadataOf, Attribute>>
  BY <1>1, <1>3, <1>4 DEF redeposit_item, collectionVars, attributeVars
<1>6. amount \in Nat /\ who \in AccountId /\ deposit \in Nat
  BY <1>2, <1>3, DepositType DEF ItemDetails
<1>7. item \in ItemDetails /\ item.deposit_account = who /\ item.deposit_amount = deposit /\ item # None
  <2>1. item \in ItemDetails /\ item.deposit_account = who /\ item.deposit_amount = deposit
    BY <1>2, <1>3, <1>4, <1>6 DEF ItemDetails
  <2> QED
    BY <2>1, OptionAssumption
<1>8. ItemMetadataOf' = [ItemMetadataOf EXCEPT ![c][i] = m]
  BY <1>1, <1>5, WriteSame DEF TypeOK, StorageTypeOK
<1>9. m # None => m.account = None
  BY <1>1 DEF DepositsInv, PayersOf
<1>10. PICK o \in AccountId, e \in Nat : o = Collection[c].owner /\ e = Collection[c].owner_deposit
  BY <1>2 DEF TypeOK, StorageTypeOK, Option, CollectionDetails
<1>11. PaidFor(None, m) \in Nat
  BY <1>1, <1>2, <1>10, EntryCovered
<1>12. e = e - PaidFor(None, m) + PaidFor(None, m)
  BY <1>10, <1>11
<1>13. ASSUME NEW a \in AccountId
       PROVE  bal'.reserved[a] = bal.reserved[a] - Due(a, o, m) - PaidForItem(a, old)
                                                 + Due(a, o, m) + PaidForItem(a, item)
  <2>1. /\ PaidForItem(a, old) = (IF a = who THEN amount ELSE 0)
        /\ PaidForItem(a, item) = (IF a = who THEN deposit ELSE 0)
        /\ PaidForItem(who, old) = amount
    BY <1>2, <1>3, <1>7 DEF PaidForItem
  <2>2. amount <= bal.reserved[who]
    <3>1. HeldTyped
      BY HeldParts
    <3>2. PaidForItem(who, old) <= ItemsPaid(who, Item[c])
      BY <1>1, ItemsCover DEF TypeOK, StorageTypeOK
    <3>3. /\ OwnerShare(who, Collection[c]) \in Nat /\ ItemsPaid(who, Item[c]) \in Nat
          /\ DepositedBy(who, ItemMetadataOf[c]) \in Nat /\ DepositedBy(who, Attribute[c]) \in Nat
      BY <1>6, <3>1 DEF HeldTyped
    <3>4. /\ bal.reserved[who] \in Nat
          /\ OwnerShare(who, Collection[c]) + ItemsPaid(who, Item[c])
             + DepositedBy(who, ItemMetadataOf[c]) + DepositedBy(who, Attribute[c]) <= bal.reserved[who]
      BY <1>6, HeldCovered DEF DepositsInv, Held
    <3> QED
      BY ONLY <1>6, <2>1, <3>2, <3>3, <3>4
  <2>3. PICK y, r \in Nat : y = Due(a, o, m) /\ r = bal.reserved[a]
    <3>1. Due(a, o, m) \in Nat
      BY <1>1, <1>2, <1>10, EntryCovered
    <3>2. bal.reserved[a] \in Nat
      BY DEF TypeOK, StorageTypeOK, BalanceSheet
    <3> QED
      BY <3>1, <3>2
  <2>4. bal'.reserved[a] = r + IF a = who THEN deposit - amount ELSE 0
    <3>1. bal \in BalanceSheet(AccountId)
      BY DEF TypeOK, StorageTypeOK
    <3> QED
      BY <1>5, <1>6, <2>2, <2>3, <3>1, AdjustMoves
  <2>5. r + (IF a = who THEN deposit - amount ELSE 0)
           = r - y - (IF a = who THEN amount ELSE 0) + y + IF a = who THEN deposit ELSE 0
    BY ONLY <1>6, <2>3
  <2> QED
    BY <2>1, <2>3, <2>4, <2>5
<1>14. ItemRebooked(c, i, m, item)
  BY <1>1, <1>2, <1>5, <1>8, <1>9, <1>10, <1>12, <1>13 DEF ItemRebooked
<1> QED
  BY <1>5, <1>14, ItemBooks

\* A reserve covers an item and its metadata together.
LEMMA ItemCovered ==
    ASSUME TypeOK, DepositsInv, NEW c \in CollectionId, Collection[c] # None, NEW i \in ItemId,
           NEW a \in AccountId
    PROVE  /\ Due(a, Collection[c].owner, ItemMetadataOf[c][i]) \in Nat
           /\ PaidForItem(a, Item[c][i]) \in Nat /\ bal.reserved[a] \in Nat
           /\ Due(a, Collection[c].owner, ItemMetadataOf[c][i]) + PaidForItem(a, Item[c][i])
                 <= bal.reserved[a]
<1>1. PICK o, x, m, t, r \in Nat :
         /\ o = OwnerShare(a, Collection[c]) /\ x = ItemsPaid(a, Item[c])
         /\ m = DepositedBy(a, ItemMetadataOf[c]) /\ t = DepositedBy(a, Attribute[c])
         /\ r = bal.reserved[a] /\ o + x + m + t <= r
  <2>1. /\ OwnerShare(a, Collection[c]) \in Nat /\ ItemsPaid(a, Item[c]) \in Nat
        /\ DepositedBy(a, ItemMetadataOf[c]) \in Nat /\ DepositedBy(a, Attribute[c]) \in Nat
    BY HeldParts DEF HeldTyped
  <2>2. /\ bal.reserved[a] \in Nat
        /\ OwnerShare(a, Collection[c]) + ItemsPaid(a, Item[c])
           + DepositedBy(a, ItemMetadataOf[c]) + DepositedBy(a, Attribute[c]) <= bal.reserved[a]
    BY HeldCovered DEF DepositsInv, Held
  <2> QED
    BY <2>1, <2>2
<1>2. PICK y \in Nat : y = PaidForItem(a, Item[c][i]) /\ y <= x
  BY <1>1, ItemsCover DEF TypeOK, StorageTypeOK
<1>3. PICK p, q, e \in Nat : /\ p = PaidFor(None, ItemMetadataOf[c][i])
                             /\ q = PaidFor(a, ItemMetadataOf[c][i])
                             /\ e = Collection[c].owner_deposit /\ p <= e /\ q <= m
  <2>1. PICK entries : entries = ItemMetadataOf[c]
    OBVIOUS
  <2>2. entries \in [ItemId -> Option(Deposited)]
    BY <2>1 DEF TypeOK, StorageTypeOK
  <2>3. PaidFor(a, entries[i]) \in Nat /\ PaidFor(a, entries[i]) <= DepositedBy(a, entries)
    BY <2>2, DepositedCovers, KeysFinite
  <2>4. /\ PaidFor(None, ItemMetadataOf[c][i]) \in Nat
        /\ PaidFor(None, ItemMetadataOf[c][i]) <= Collection[c].owner_deposit
    BY EntryCovered
  <2>5. Collection[c].owner_deposit \in Nat
    BY DEF TypeOK, StorageTypeOK, Option, CollectionDetails
  <2> QED
    BY <1>1, <2>1, <2>3, <2>4, <2>5
<1>4. o = IF a = Collection[c].owner THEN e ELSE 0
  BY <1>1, <1>3 DEF OwnerShare
<1>5. Due(a, Collection[c].owner, ItemMetadataOf[c][i]) = q + IF a = Collection[c].owner THEN p ELSE 0
  BY <1>3 DEF Due
<1>6. PICK d \in Nat : d = q + IF a = Collection[c].owner THEN p ELSE 0
  BY <1>3
<1>7. d + y <= r
  BY ONLY <1>1, <1>2, <1>3, <1>4, <1>6
<1> QED
  BY <1>1, <1>2, <1>5, <1>6, <1>7

\* burn returns the item's deposit and, unless the metadata is locked, that of its metadata.
LEMMA burn_Books ==
    ASSUME TypeOK, TypeOK', DepositsInv, NEW origin, NEW c \in CollectionId, NEW i \in ItemId,
           do_burn(origin, c, i)
    PROVE  DepositsInv'
<1>1. PICK d, item, m : d = Collection[c] /\ item = Item[c][i] /\ m = ItemMetadataOf[c][i]
  OBVIOUS
<1>2. PICK who, amount, left, new :
         /\ who = item.deposit_account /\ amount = item.deposit_amount
         /\ left = (IF BurnsMetadata(c, i) THEN ClearedMetadataDetails(c, i) ELSE Collection[c])
         /\ new = (IF BurnsMetadata(c, i) THEN None ELSE m)
  OBVIOUS
<1>3. PICK returned : returned = Unreserve(bal, who, amount)
  OBVIOUS
<1>4. PICK count : count = IF ItemConfigOf[c][i] = {} THEN SatDec(left.item_configs) ELSE left.item_configs
  OBVIOUS
<1>5. /\ Collection[c] # None /\ item # None
      /\ bal' = (IF BurnsMetadata(c, i) THEN ClearedMetadataBalance(c, i, returned) ELSE returned)
      /\ Collection' = [Collection EXCEPT ![c] =
            [left EXCEPT !.items = SatDec(left.items), !.item_configs = count]]
      /\ ItemMetadataOf' = (IF BurnsMetadata(c, i)
                            THEN [ItemMetadataOf EXCEPT ![c][i] = None] ELSE ItemMetadataOf)
      /\ Item' = [Item EXCEPT ![c][i] = None]
      /\ UNCHANGED <<CollectionMetadataOf, Attribute>>
  BY <1>1, <1>2, <1>3, <1>4 DEF do_burn
<1>6. d \in CollectionDetails /\ item \in ItemDetails
  BY <1>1, <1>5 DEF TypeOK, StorageTypeOK, Option
<1>7. who \in AccountId /\ amount \in Nat /\ d.owner \in AccountId /\ d.owner_deposit \in Nat
  BY <1>2, <1>6 DEF ItemDetails, CollectionDetails
<1>8. BurnsMetadata(c, i) => m # None
  BY <1>1 DEF BurnsMetadata
<1>9. BurnsMetadata(c, i) =>
        /\ ClearedMetadataDetails(c, i) \in CollectionDetails
        /\ ClearedMetadataDetails(c, i).owner = d.owner
        /\ ClearedMetadataDetails(c, i).owner_deposit = d.owner_deposit - PaidFor(None, m)
        /\ \A b : ClearedMetadataBalance(c, i, b) = Unreserve(b, d.owner, m.amount)
        /\ m.amount \in Nat
        /\ \A a \in AccountId : Due(a, d.owner, m) = IF a = d.owner THEN m.amount ELSE 0
  BY <1>1, <1>5, <1>8, ClearedMetadata
<1>10. PaidFor(None, m) \in Nat
  BY <1>1, <1>5, <1>7, EntryCovered
<1>11. /\ left \in CollectionDetails /\ left.owner = d.owner
       /\ left.owner_deposit = d.owner_deposit - PaidFor(None, m) + PaidFor(None, new)
  <2>1. CASE BurnsMetadata(c, i)
    BY <1>2, <1>7, <1>9, <1>10, <2>1 DEF PaidFor
  <2>2. CASE ~ BurnsMetadata(c, i)
    BY <1>1, <1>2, <1>6, <1>7, <1>10, <2>2
  <2> QED
    BY <2>1, <2>2
<1>12. PICK details : details = [left EXCEPT !.items = SatDec(left.items), !.item_configs = count]
  OBVIOUS
<1>13. details.owner = d.owner /\ details.owner_deposit = left.owner_deposit /\ details # None
  <2>1. PICK items : items = SatDec(left.items)
    OBVIOUS
  <2>2. items \in u32 /\ count \in u32
    BY <1>4, <1>11, <2>1, CounterType DEF CollectionDetails
  <2>3. details \in CollectionDetails /\ details.owner = left.owner
    BY ONLY <1>11, <1>12, <2>1, <2>2 DEF CollectionDetails
  <2>4. details.owner_deposit = left.owner_deposit
    BY ONLY <1>11, <1>12, <2>1 DEF CollectionDetails
  <2> QED
    BY <1>11, <2>3, <2>4, OptionAssumption
<1>14. Collection'[c] = details /\ \A b \in CollectionId \ {c} : Collection'[b] = Collection[b]
  BY <1>5, <1>12 DEF TypeOK, StorageTypeOK
<1>15. ItemMetadataOf' = [ItemMetadataOf EXCEPT ![c][i] = new]
  <2>1. CASE BurnsMetadata(c, i)
    BY <1>2, <1>5, <2>1
  <2>2. CASE ~ BurnsMetadata(c, i)
    BY <1>1, <1>2, <1>5, <2>2, WriteSame DEF TypeOK, StorageTypeOK
  <2> QED
    BY <2>1, <2>2
<1>16. new # None => new.account = None
  BY <1>1, <1>2 DEF DepositsInv, PayersOf
<1>17. ASSUME NEW a \in AccountId
       PROVE  bal'.reserved[a] = bal.reserved[a] - Due(a, d.owner, m) - PaidForItem(a, item)
                                                 + Due(a, d.owner, new) + PaidForItem(a, None)
  <2>0. \A b \in AccountId :
           /\ Due(b, d.owner, m) \in Nat /\ PaidForItem(b, item) \in Nat /\ bal.reserved[b] \in Nat
           /\ Due(b, d.owner, m) + PaidForItem(b, item) <= bal.reserved[b]
           /\ PaidForItem(b, item) = (IF b = who THEN amount ELSE 0)
    <3>1. ASSUME NEW b \in AccountId
          PROVE  /\ Due(b, d.owner, m) \in Nat /\ PaidForItem(b, item) \in Nat
                 /\ bal.reserved[b] \in Nat
                 /\ Due(b, d.owner, m) + PaidForItem(b, item) <= bal.reserved[b]
      BY <1>1, <1>5, ItemCovered
    <3>2. \A b : PaidForItem(b, item) = IF b = who THEN amount ELSE 0
      BY <1>2, <1>5 DEF PaidForItem
    <3> QED
      BY <3>1, <3>2
  <2>1. bal \in BalanceSheet(AccountId)
    BY DEF TypeOK, StorageTypeOK
  <2>2. amount <= bal.reserved[who]
    BY <1>7, <2>0
  <2>3. returned \in BalanceSheet(AccountId)
    BY <1>3, <1>7, <2>1, UnreserveType
  <2>4. \A b \in AccountId : returned.reserved[b] = bal.reserved[b] - PaidForItem(b, item)
    <3>1. ASSUME NEW b \in AccountId
          PROVE  returned.reserved[b] = bal.reserved[b] - IF b = who THEN amount ELSE 0
      BY <1>3, <1>7, <2>1, <2>2, UnreserveTakes
    <3> QED
      BY <2>0, <3>1
  <2>5. PaidForItem(a, None) = 0
    BY DEF PaidForItem
  <2>6. PICK r, x, y \in Nat : r = bal.reserved[a] /\ x = PaidForItem(a, item) /\ y = Due(a, d.owner, m)
    BY <2>0
  <2>7. CASE BurnsMetadata(c, i)
    <3>1. PICK o \in AccountId : o = d.owner
      BY <1>7
    <3>2. m.amount <= returned.reserved[o] /\ m.amount \in Nat
      BY <1>9, <2>0, <2>4, <2>7, <3>1
    <3>3. bal' = Unreserve(returned, o, m.amount)
      BY <1>5, <1>9, <2>7, <3>1
    <3>4. bal'.reserved[a] = returned.reserved[a] - IF a = o THEN m.amount ELSE 0
      BY <2>3, <3>2, <3>3, UnreserveTakes
    <3>5. y = IF a = o THEN m.amount ELSE 0
      BY <1>9, <2>6, <2>7, <3>1
    <3>6. bal'.reserved[a] = r - x - y
      BY <2>4, <2>6, <3>4, <3>5
    <3>7. Due(a, d.owner, new) = 0
      BY <1>2, <2>7 DEF Due, PaidFor
    <3>8. r - x - y = r - y - x + 0 + 0
      BY ONLY <2>6
    <3> QED
      BY <2>5, <2>6, <3>6, <3>7, <3>8
  <2>8. CASE ~ BurnsMetadata(c, i)
    <3>1. new = m /\ bal' = returned
      BY <1>2, <1>5, <2>8
    <3>2. r - x = r - y - x + y + 0
      BY ONLY <2>6
    <3> QED
      BY <2>4, <2>5, <2>6, <3>1, <3>2
  <2> QED
    BY <2>7, <2>8
<1>18. ItemRebooked(c, i, new, None)
  BY <1>1, <1>5, <1>11, <1>13, <1>14, <1>15, <1>16, <1>17 DEF ItemRebooked
<1> QED
  BY <1>5, <1>18, ItemBooks

\* cancel_item_attributes_approval drains the delegate's own attributes of the item, and
\* what they record is what the delegate gets back.
LEMMA cancel_item_attributes_approval_Books ==
    ASSUME TypeOK, TypeOK', DepositsInv, NEW origin, NEW delegate \in AccountId,
           NEW c \in CollectionId, NEW i \in ItemId,
           do_cancel_item_attributes_approval(origin, c, i, delegate)
    PROVE  DepositsInv'
<1>1. PICK drained : drained = {k \in AttributeKey :
                        k[1] = i /\ k[2] = AccountNs(delegate) /\ Attribute[c][k] # None}
  OBVIOUS
<1>2. PICK paid : paid = [k \in AttributeKey |-> IF k \in drained THEN Attribute[c][k].amount ELSE 0]
  OBVIOUS
<1>3. /\ Attribute' = [Attribute EXCEPT ![c] =
              [k \in AttributeKey |-> IF k \in drained THEN None ELSE Attribute[c][k]]]
      /\ bal' = UnreserveAll(bal, [a \in AccountId |-> IF a = delegate THEN SumFunction(paid) ELSE 0])
      /\ UNCHANGED <<Collection, CollectionMetadataOf, Item, ItemMetadataOf>>
  BY <1>1, <1>2 DEF do_cancel_item_attributes_approval, AttributeFrame, itemVars
<1>4. PICK m, n : m = Attribute[c] /\ n = Attribute'[c]
  OBVIOUS
<1>5. m \in [AttributeKey -> Option(Deposited)] /\ n \in [AttributeKey -> Option(Deposited)]
  BY <1>4 DEF TypeOK, StorageTypeOK
<1>6. \A k \in AttributeKey : n[k] = IF k \in drained THEN None ELSE m[k]
  BY <1>3, <1>4 DEF TypeOK, StorageTypeOK
<1>7. \A d \in CollectionId \ {c} : Attribute'[d] = Attribute[d]
  BY <1>3 DEF TypeOK, StorageTypeOK
<1>8. \A k \in AttributeKey : AttributePayer(k, m[k])
  BY <1>4 DEF DepositsInv, PayersOf
<1>9. \A k \in drained : k \in AttributeKey /\ m[k] # None /\ m[k].account = delegate
  BY <1>1, <1>4, <1>8 DEF AttributePayer
<1>10. delegate # None
  BY NoneAssumption
<1>11. OnlyBooks(c)
  BY <1>3, <1>7 DEF OnlyBooks
<1>12. PayersOf(c)'
  <2>1. \A k \in AttributeKey : AttributePayer(k, n[k])
    BY <1>6, <1>8 DEF AttributePayer
  <2> QED
    BY <1>3, <1>4, <2>1 DEF DepositsInv, PayersOf
<1>13. \A a : a # delegate => DepositedBy(a, n) = DepositedBy(a, m)
  <2> SUFFICES ASSUME NEW a, a # delegate PROVE DepositedBy(a, n) = DepositedBy(a, m)
    OBVIOUS
  <2>1. \A k \in AttributeKey : PaidFor(a, n[k]) = PaidFor(a, m[k])
    BY <1>6, <1>9 DEF PaidFor
  <2> QED
    BY <1>5, <2>1, DepositedSame
<1>14. OwnerBooks(c)'
  <2>1. OwnerPaid(c)' = OwnerPaid(c)
    BY <1>3, <1>4, <1>10, <1>13 DEF OwnerPaid
  <2> QED
    BY <1>3, <2>1 DEF DepositsInv, OwnerBooks
<1>15. paid \in [AttributeKey -> Nat]
  <2>1. \A k \in drained : m[k].amount \in Nat
    BY <1>5, <1>9 DEF Option, Deposited
  <2> QED
    BY <1>2, <1>4, <2>1
<1>16. DepositedBy(delegate, m) = DepositedBy(delegate, n) + SumFunction(paid)
  <2>1. PICK h, f : /\ h = [k \in DOMAIN m |-> PaidFor(delegate, m[k])]
                    /\ f = [k \in DOMAIN n |-> PaidFor(delegate, n[k])]
    OBVIOUS
  <2>2. h \in [AttributeKey -> Nat] /\ f \in [AttributeKey -> Nat]
    <3>1. h \in [AttributeKey -> Nat]
      BY <1>5, <2>1 DEF PaidFor, Option, Deposited
    <3>2. f \in [AttributeKey -> Nat]
      BY <1>5, <2>1 DEF PaidFor, Option, Deposited
    <3> QED
      BY <3>1, <3>2
  <2>3. ASSUME NEW k \in AttributeKey PROVE h[k] = f[k] + paid[k]
    <3>1. h[k] = PaidFor(delegate, m[k]) /\ f[k] = PaidFor(delegate, n[k]) /\ h[k] \in Nat
      BY <1>5, <2>1, <2>2
    <3>2. CASE k \in drained
      BY <1>2, <1>4, <1>6, <1>9, <3>1, <3>2 DEF PaidFor
    <3>3. CASE k \notin drained
      BY <1>2, <1>6, <3>1, <3>3
    <3> QED
      BY <3>2, <3>3
  <2>4. SumFunction(h) = SumFunction(f) + SumFunction(paid)
    BY <1>15, <2>2, <2>3, SumPlus, KeysFinite
  <2> QED
    BY <2>1, <2>4 DEF DepositedBy
<1>17. PICK s \in Nat : s = SumFunction(paid)
  BY <1>15, SumNat, KeysFinite
<1>18. ASSUME NEW a \in AccountId
       PROVE  bal'.reserved[a] + Held(a, c) = bal.reserved[a] + Held(a, c)'
  <2>1. PICK o, x, y, t, o2, x2, y2, t2 \in Nat :
              /\ o = OwnerShare(a, Collection[c]) /\ x = ItemsPaid(a, Item[c])
              /\ y = DepositedBy(a, ItemMetadataOf[c]) /\ t = DepositedBy(a, Attribute[c])
              /\ o2 = OwnerShare(a, Collection'[c]) /\ x2 = ItemsPaid(a, Item'[c])
              /\ y2 = DepositedBy(a, ItemMetadataOf'[c]) /\ t2 = DepositedBy(a, Attribute'[c])
              /\ Held(a, c) = o + x + y + t /\ Held(a, c)' = o2 + x2 + y2 + t2
    BY HeldIs
  <2>2. o2 = o /\ x2 = x /\ y2 = y
    BY <1>3, <2>1
  <2>3. PICK back \in Nat : back = IF a = delegate THEN s ELSE 0
    OBVIOUS
  <2>4. t = t2 + back
    BY <1>4, <1>13, <1>16, <1>17, <2>1, <2>3
  <2>5. PICK r \in Nat : r = bal.reserved[a] /\ o + x + y + t <= r
    BY <2>1, HeldCovered DEF DepositsInv
  <2>6. back <= r
    BY ONLY <2>1, <2>3, <2>4, <2>5
  <2>7. bal'.reserved[a] = r - back
    <3>1. PICK refund : refund = [b \in AccountId |-> IF b = delegate THEN SumFunction(paid) ELSE 0]
      OBVIOUS
    <3>2. refund[a] = back /\ bal' = UnreserveAll(bal, refund)
      BY <1>3, <1>17, <2>3, <3>1
    <3>3. bal \in BalanceSheet(AccountId)
      BY DEF TypeOK, StorageTypeOK
    <3> QED
      BY <2>3, <2>5, <2>6, <3>2, <3>3, UnreserveAllTakes
  <2>8. r - back + (o + x + y + t) = r + (o2 + x2 + y2 + t2)
    BY ONLY <2>1, <2>2, <2>3, <2>4, <2>5
  <2> QED
    BY <2>1, <2>5, <2>7, <2>8
<1> QED
  BY <1>11, <1>12, <1>14, <1>18, OthersKept, BooksOfOne
-----------------------------------------------------------------------------
(* Handlers that leave every deposit *)

\* The item is the same, or the same in what it says of its deposit.
SameDeposit(new, old) ==
    \/ new = old
    \/ /\ old # None /\ new # None
       /\ new.deposit_account = old.deposit_account /\ new.deposit_amount = old.deposit_amount

LEMMA QuietBooks ==
    ASSUME TypeOK, TypeOK', DepositsInv,
           UNCHANGED <<Collection, CollectionMetadataOf, ItemMetadataOf, Attribute>>,
           \A c \in CollectionId, i \in ItemId : SameDeposit(Item'[c][i], Item[c][i]),
           bal'.reserved = bal.reserved
    PROVE  DepositsInv'
<1>1. \A c \in CollectionId : NoDeposits(c)
  BY DEF NoDeposits, SameDeposit
<1> QED
  BY <1>1, NoBooks

\* Where the items are left too.
LEMMA StillBooks ==
    ASSUME TypeOK, TypeOK', DepositsInv, bal'.reserved = bal.reserved,
           UNCHANGED <<Collection, CollectionMetadataOf, ItemMetadataOf, Attribute, Item>>
    PROVE  DepositsInv'
<1>1. \A c \in CollectionId, i \in ItemId : SameDeposit(Item'[c][i], Item[c][i])
  BY DEF SameDeposit
<1> QED
  BY <1>1, QuietBooks

\* An item that moves keeps its deposit and who paid it.
LEMMA MovedKeepsDeposit ==
    ASSUME NEW items \in [CollectionId -> [ItemId -> Option(ItemDetails)]],
           NEW c \in CollectionId, NEW i \in ItemId, NEW dest \in AccountId, items[c][i] # None,
           NEW oc \in CollectionId, NEW oi \in ItemId
    PROVE  SameDeposit(MovedItem(items, c, i, dest)[oc][oi], items[oc][oi])
<1>1. PICK old \in ItemDetails : old = items[c][i]
  BY DEF Option
<1>2. PICK moved : moved = [old EXCEPT !.owner = dest, !.approvals = NoApprovals]
  OBVIOUS
<1>3. moved \in ItemDetails
  BY <1>1, <1>2 DEF ItemDetails, NoApprovals
<1>4. moved.deposit_account = old.deposit_account /\ moved.deposit_amount = old.deposit_amount
  BY ONLY <1>1, <1>2 DEF ItemDetails
<1>5. MovedItem(items, c, i, dest) = [items EXCEPT ![c][i] = moved]
  BY <1>1, <1>2 DEF MovedItem
<1>6. moved # None
  BY <1>3, OptionAssumption
<1> QED
  BY <1>1, <1>4, <1>5, <1>6 DEF SameDeposit

LEMMA MoveToKeepsDeposits ==
    ASSUME TypeOK, NEW c \in CollectionId, NEW i \in ItemId, NEW dest \in AccountId,
           Item[c][i] # None, MoveTo(c, i, dest)
    PROVE  \A oc \in CollectionId, oi \in ItemId : SameDeposit(Item'[oc][oi], Item[oc][oi])
<1>1. /\ Item' = MovedItem(Item, c, i, dest)
      /\ Item \in [CollectionId -> [ItemId -> Option(ItemDetails)]]
  BY DEF MoveTo, TypeOK, StorageTypeOK
<1> QED
  BY <1>1, MovedKeepsDeposit

\* unify: the attribute that is removed carries no deposit.
LEMMA unify_Books ==
    ASSUME TypeOK, TypeOK', DepositsInv, NEW c \in CollectionId, NEW i \in ItemId,
           NEW dest \in AccountId, enable_transfer_and_transfer(c, i, dest)
    PROVE  DepositsInv'
<1>1. PICK key : key = <<i, Pallet, TransferDisabled>>
  OBVIOUS
<1>2. PICK count : count = SatDec(Collection[c].attributes)
  OBVIOUS
<1>3. /\ Collection[c] # None /\ Item[c][i] # None /\ MoveTo(c, i, dest)
      /\ Collection' = [Collection EXCEPT ![c].attributes = count]
      /\ Attribute' = [Attribute EXCEPT ![c][key] = None]
      /\ UNCHANGED <<CollectionMetadataOf, ItemMetadataOf, bal>>
  BY <1>1, <1>2 DEF enable_transfer_and_transfer, TransferAllowed
<1>4. \A oc \in CollectionId, oi \in ItemId : SameDeposit(Item'[oc][oi], Item[oc][oi])
  BY <1>3, MoveToKeepsDeposits
<1>5. ASSUME NEW d \in CollectionId, NEW k \in AttributeKey
      PROVE  \/ Attribute'[d][k] = Attribute[d][k]
             \/ k[2] = Pallet /\ AttributePayer(k, Attribute'[d][k])
  <2>1. Attribute'[d][k] = Attribute[d][k] \/ (k = key /\ Attribute'[d][k] = None)
    BY <1>3 DEF TypeOK, StorageTypeOK
  <2>2. key[2] = Pallet
    BY <1>1
  <2> QED
    BY <2>1, <2>2 DEF AttributePayer
<1>6. ASSUME NEW d \in CollectionId
      PROVE  \/ Collection'[d] = Collection[d]
             \/ /\ Collection[d] # None /\ Collection'[d] # None
                /\ Collection'[d].owner = Collection[d].owner
                /\ Collection'[d].owner_deposit = Collection[d].owner_deposit
  <2>1. Collection[c] \in CollectionDetails
    BY <1>3 DEF TypeOK, StorageTypeOK, Option
  <2>2. Collection'[c] = [Collection[c] EXCEPT !.attributes = count]
        /\ \A e \in CollectionId \ {c} : Collection'[e] = Collection[e]
    BY <1>3 DEF TypeOK, StorageTypeOK
  <2>3. count \in u32
    BY <1>2, <2>1, CounterType DEF CollectionDetails
  <2>4. /\ Collection'[c] \in CollectionDetails
        /\ Collection'[c].owner = Collection[c].owner
        /\ Collection'[c].owner_deposit = Collection[c].owner_deposit
    BY ONLY <2>1, <2>2, <2>3 DEF CollectionDetails
  <2>5. Collection'[c] # None
    BY <2>4, OptionAssumption
  <2> QED
    BY <1>3, <2>2, <2>4, <2>5
<1>7. \A d \in CollectionId : NoDeposits(d)
  BY <1>3, <1>4, <1>5, <1>6 DEF NoDeposits, SameDeposit
<1> QED
  BY <1>3, <1>7, NoBooks

\* The approval handlers write the approvals of an item only.
LEMMA approvals_Books ==
    ASSUME TypeOK, TypeOK', DepositsInv, NEW origin, NEW c \in CollectionId, NEW i \in ItemId,
           \/ \E delegate \in AccountId, d \in Option(Nat) :
                 do_approve_transfer(origin, c, i, delegate, d)
           \/ \E delegate \in AccountId : do_cancel_approval(origin, c, i, delegate)
           \/ do_clear_all_transfer_approvals(origin, c, i)
    PROVE  DepositsInv'
<1>1. Item[c][i] # None /\ ApprovalFrame
  BY DEF do_approve_transfer, do_cancel_approval, do_clear_all_transfer_approvals
<1>2. PICK approvals : Item' = [Item EXCEPT ![c][i].approvals = approvals]
  <2>1. ASSUME NEW delegate, NEW d, do_approve_transfer(origin, c, i, delegate, d)
        PROVE  \E approvals : Item' = [Item EXCEPT ![c][i].approvals = approvals]
    BY <2>1 DEF do_approve_transfer
  <2>2. ASSUME NEW delegate, do_cancel_approval(origin, c, i, delegate)
        PROVE  \E approvals : Item' = [Item EXCEPT ![c][i].approvals = approvals]
    BY <2>2 DEF do_cancel_approval
  <2>3. ASSUME do_clear_all_transfer_approvals(origin, c, i)
        PROVE  \E approvals : Item' = [Item EXCEPT ![c][i].approvals = approvals]
    BY <2>3 DEF do_clear_all_transfer_approvals
  <2> QED
    BY <2>1, <2>2, <2>3
<1>3. PICK old \in ItemDetails : old = Item[c][i]
  BY <1>1 DEF TypeOK, StorageTypeOK, Option
<1>4. PICK new : new = [old EXCEPT !.approvals = approvals]
  OBVIOUS
<1>5. new.deposit_account = old.deposit_account /\ new.deposit_amount = old.deposit_amount
  BY ONLY <1>3, <1>4 DEF ItemDetails
<1>6. /\ Item'[c][i] = new /\ \A oi \in ItemId \ {i} : Item'[c][oi] = Item[c][oi]
      /\ \A oc \in CollectionId \ {c} : Item'[oc] = Item[oc]
  BY <1>2, <1>3, <1>4 DEF TypeOK, StorageTypeOK
<1>7. new # None
  <2>1. PICK d \in ItemDetails : Item' = [Item EXCEPT ![c][i] = d]
    BY ApprovalsWritten
  <2>2. new = d
    BY <1>6, <2>1 DEF TypeOK, StorageTypeOK
  <2> QED
    BY <2>1, <2>2, OptionAssumption
<1>8. \A oc \in CollectionId, oi \in ItemId : SameDeposit(Item'[oc][oi], Item[oc][oi])
  BY <1>1, <1>3, <1>5, <1>6, <1>7 DEF SameDeposit
<1>9. UNCHANGED <<Collection, CollectionMetadataOf, ItemMetadataOf, Attribute, bal>>
  BY <1>1 DEF ApprovalFrame, collectionVars, attributeVars
<1> QED
  BY <1>8, <1>9, QuietBooks

\* claim_swap: two items change hands, one after the other.
LEMMA claim_swap_Books ==
    ASSUME TypeOK, TypeOK', DepositsInv, NEW caller \in AccountId, NEW sc \in CollectionId,
           NEW si \in ItemId, NEW rc \in CollectionId, NEW ri \in ItemId, NEW p,
           do_claim_swap(caller, sc, si, rc, ri, p)
    PROVE  DepositsInv'
<1>1. PICK receiver, sent : receiver = Item[rc][ri].owner /\ sent = MovedItem(Item, sc, si, receiver)
  OBVIOUS
<1>2. /\ Item[sc][si] # None /\ Item[rc][ri] # None /\ Item' = MovedItem(sent, rc, ri, caller)
      /\ UNCHANGED <<Collection, CollectionMetadataOf, ItemMetadataOf, Attribute>>
  BY <1>1 DEF do_claim_swap, collectionVars, attributeVars
<1>3. /\ Item \in [CollectionId -> [ItemId -> Option(ItemDetails)]] /\ receiver \in AccountId
  BY <1>1, <1>2 DEF TypeOK, StorageTypeOK, Option, ItemDetails
<1>4. sent \in [CollectionId -> [ItemId -> Option(ItemDetails)]]
  BY <1>1, <1>2, <1>3, MovedType DEF TypeOK, StorageTypeOK
<1>5. sent[rc][ri] # None
  BY <1>1, <1>2, <1>3, MovedItemExists
<1>6. \A oc \in CollectionId, oi \in ItemId : SameDeposit(sent[oc][oi], Item[oc][oi])
  BY <1>1, <1>2, <1>3, MovedKeepsDeposit
<1>7. \A oc \in CollectionId, oi \in ItemId : SameDeposit(Item'[oc][oi], sent[oc][oi])
  BY <1>2, <1>4, <1>5, MovedKeepsDeposit
<1>8. \A oc \in CollectionId, oi \in ItemId : SameDeposit(Item'[oc][oi], Item[oc][oi])
  BY <1>6, <1>7 DEF SameDeposit
<1>9. bal'.reserved = bal.reserved
  BY DEF do_claim_swap, Transfer
<1> QED
  BY <1>2, <1>8, <1>9, QuietBooks

\* A pre-signed mint of an item alone pays the price, and the item's deposit.
LEMMA mint_pre_signed_Books ==
    ASSUME TypeOK, TypeOK', DepositsInv, NEW mint_to \in AccountId, NEW c \in CollectionId,
           NEW i \in ItemId, NEW data \in PreSignedMint, NEW signer,
           data.attributes = None, data.metadata = 0,
           do_mint_pre_signed(mint_to, c, i, data, signer)
    PROVE  DepositsInv'
<1>1. PICK settings, price, paid :
         /\ settings = CollectionConfigOf[c].mint_settings.default_item_settings
         /\ price = (IF data.mint_price = None THEN 0 ELSE data.mint_price)
         /\ paid = Transfer(bal, mint_to, Collection[c].owner, price)
  OBVIOUS
<1>2. /\ Collection[c] # None /\ CanTransfer(bal, mint_to, Collection[c].owner, price)
      /\ CanMint(c, i, mint_to, settings, paid)
      /\ InsertItem(c, i, mint_to, mint_to, settings)
      /\ UNCHANGED <<CollectionMetadataOf, ItemMetadataOf, Attribute>>
  BY <1>1 DEF do_mint_pre_signed
<1>3. Collection' = [Collection EXCEPT ![c] = MintedDetails(c, i)]
  BY <1>1 DEF do_mint_pre_signed
<1>4. bal' = MintedBalance(c, mint_to, paid)
  BY <1>1 DEF do_mint_pre_signed
<1>5. price \in Nat
  BY <1>1 DEF PreSignedMint, Option
<1>6. Collection[c].owner \in AccountId
  BY <1>2 DEF TypeOK, StorageTypeOK, Option, CollectionDetails
<1>7. paid \in BalanceSheet(AccountId) /\ paid.reserved = bal.reserved
  BY <1>1, <1>2, <1>5, <1>6, TransferType, TransferKeepsReserves DEF TypeOK, StorageTypeOK
<1>8. \A d \in CollectionId : PalletWrites(d)
  BY <1>2 DEF PalletWrites
<1> QED
  BY <1>2, <1>3, <1>4, <1>7, <1>8, MintBooks
-----------------------------------------------------------------------------
(* The steps of the pallet *)

\* Every collection call.
LEMMA CollectionNextBooks ==
    ASSUME TypeOK, TypeOK', StructureInv, StructureInv', DepositsInv, CollectionNext
    PROVE  DepositsInv'
<1> DEFINE Books == <<Collection, CollectionMetadataOf, ItemMetadataOf, Attribute, Item, bal>>
<1>0. ASSUME UNCHANGED Books PROVE DepositsInv'
  BY <1>0, StillBooks
<1>1. ASSUME NEW o \in Callers["create"], NEW a \in AccountId, NEW g \in Configs, create(o, a, g)
      PROVE  DepositsInv'
  BY <1>1, CreateBooks DEF create, Signed
<1>2. ASSUME NEW o \in Callers["force_create"], NEW a \in AccountId, NEW g \in Configs,
             force_create(o, a, g)
      PROVE  DepositsInv'
  BY <1>2, CreateBooks DEF force_create
<1>3. ASSUME NEW o \in Callers["destroy"], NEW c \in CollectionId, destroy(o, c)
      PROVE  DepositsInv'
  BY <1>3, DestroyBooks DEF destroy
<1>4. ASSUME NEW o \in Callers["lock_collection"], NEW c \in CollectionId,
             NEW s \in LockSettings, lock_collection(o, c, s)
      PROVE  DepositsInv'
  BY <1>0, <1>4 DEF lock_collection, do_lock_collection, ConfigFrame, itemVars, attributeVars
<1>5. ASSUME NEW o \in Callers["transfer_ownership"], NEW c \in CollectionId,
             NEW a \in AccountId, transfer_ownership(o, c, a)
      PROVE  DepositsInv'
  BY <1>5, MoveCollectionBooks DEF transfer_ownership, do_transfer_ownership
<1>6. ASSUME NEW o \in Callers["set_team"], NEW c \in CollectionId, NEW team, set_team(o, c, team)
      PROVE  DepositsInv'
  BY <1>0, <1>6 DEF set_team, do_set_team, itemVars, attributeVars
<1>7. ASSUME NEW o \in Callers["force_collection_owner"], NEW c \in CollectionId,
             NEW a \in AccountId, force_collection_owner(o, c, a)
      PROVE  DepositsInv'
  BY <1>7, MoveCollectionBooks DEF force_collection_owner, do_force_collection_owner
<1>8. ASSUME NEW o \in Callers["force_collection_config"], NEW c \in CollectionId,
             NEW g \in Configs, force_collection_config(o, c, g)
      PROVE  DepositsInv'
  BY <1>0, <1>8 DEF force_collection_config, do_force_collection_config, ConfigFrame, itemVars,
                    attributeVars
<1>9. ASSUME NEW o \in Callers["set_accept_ownership"], NEW m, set_accept_ownership(o, m)
      PROVE  DepositsInv'
  BY <1>0, <1>9 DEF set_accept_ownership, do_set_accept_ownership, collectionVars, itemVars,
                    attributeVars
<1>10. ASSUME NEW o \in Callers["set_collection_max_supply"], NEW c \in CollectionId,
              NEW n \in MaxSupplies, set_collection_max_supply(o, c, n)
       PROVE  DepositsInv'
  BY <1>0, <1>10 DEF set_collection_max_supply, do_set_collection_max_supply, ConfigFrame,
                     itemVars, attributeVars
<1>11. ASSUME NEW o \in Callers["update_mint_settings"], NEW c \in CollectionId,
              NEW s \in MintSettingsArgs, update_mint_settings(o, c, s)
       PROVE  DepositsInv'
  BY <1>0, <1>11 DEF update_mint_settings, do_update_mint_settings, ConfigFrame, itemVars,
                     attributeVars
<1> QED
  BY <1>1, <1>2, <1>3, <1>4, <1>5, <1>6, <1>7, <1>8, <1>9, <1>10, <1>11 DEF CollectionNext

\* Every item call.
LEMMA ItemNextBooks ==
    ASSUME TypeOK, TypeOK', DepositsInv, ItemNext
    PROVE  DepositsInv'
<1>1. ASSUME NEW o \in Callers["mint"], NEW c \in CollectionId, NEW i \in ItemId,
             NEW a \in AccountId, NEW owned, NEW p, mint(o, c, i, a, owned, p)
      PROVE  DepositsInv'
  BY <1>1, mint_Books DEF mint, Signed
<1>2. ASSUME NEW o, NEW c \in CollectionId, NEW i \in ItemId,
             NEW a \in AccountId, NEW g, force_mint(o, c, i, a, g)
      PROVE  DepositsInv'
  BY <1>2, force_mint_Books DEF force_mint
<1>3. ASSUME NEW o, NEW c \in CollectionId, NEW i \in ItemId, burn(o, c, i)
      PROVE  DepositsInv'
  BY <1>3, burn_Books DEF burn
<1>4. ASSUME NEW o, NEW c \in CollectionId, NEW i \in ItemId, NEW a \in AccountId,
             transfer(o, c, i, a)
      PROVE  DepositsInv'
  <2>1. /\ Item[c][i] # None /\ MoveTo(c, i, a)
        /\ UNCHANGED <<Collection, CollectionMetadataOf, ItemMetadataOf, Attribute, bal>>
    BY <1>4 DEF transfer, transfer_item, do_transfer, collectionVars, attributeVars
  <2> QED
    BY <2>1, MoveToKeepsDeposits, QuietBooks
<1>5. ASSUME NEW o, NEW c \in CollectionId, NEW i \in ItemId, redeposit(o, c, i)
      PROVE  DepositsInv'
  BY <1>5, redeposit_Books DEF redeposit, Signed
<1>6. ASSUME NEW o, NEW c, NEW i, NEW s,
             \/ lock_item_transfer(o, c, i) \/ unlock_item_transfer(o, c, i)
             \/ lock_item_properties(o, c, i, s)
      PROVE  DepositsInv'
  <2>1. ItemConfigFrame
    BY <1>6 DEF lock_item_transfer, unlock_item_transfer, lock_item_properties,
       do_lock_item_transfer, do_unlock_item_transfer, do_lock_item_properties
  <2>2. UNCHANGED <<Collection, CollectionMetadataOf, ItemMetadataOf, Attribute, Item, bal>>
    BY <2>1 DEF ItemConfigFrame, collectionVars, attributeVars
  <2> QED
    BY <2>2, StillBooks
<1>7. ASSUME NEW o, NEW c \in CollectionId, NEW i \in ItemId, fractionalize(o, c, i)
      PROVE  DepositsInv'
  <2>1. PICK k : k = <<i, Pallet, TransferDisabled>>
    OBVIOUS
  <2>2. k \in AttributeKey /\ k[2] = Pallet
    BY <2>1 DEF AttributeKey, Option, PalletAttributes
  <2>3. do_force_set_attribute(None, c, k, 0)
    BY <1>7, <2>1 DEF fractionalize, disable_transfer
  <2>4. None \in Option(AccountId)
    BY DEF Option
  <2> QED
    BY <2>2, <2>3, <2>4, force_set_attribute_Books
<1>8. ASSUME NEW o, NEW c \in CollectionId, NEW i \in ItemId, NEW a \in AccountId, unify(o, c, i, a)
      PROVE  DepositsInv'
  BY <1>8, unify_Books DEF unify
<1> QED
  BY <1>1, <1>2, <1>3, <1>4, <1>5, <1>6, <1>7, <1>8 DEF ItemNext

\* Every trade.
LEMMA TradingStepBooks ==
    ASSUME TypeOK, TypeOK', DepositsInv, TradingStep
    PROVE  DepositsInv'
<1> DEFINE Rest == UNCHANGED <<Collection, CollectionMetadataOf, ItemMetadataOf, Attribute>>
<1>1. ASSUME NEW sender, NEW c, NEW i, NEW price, NEW buyer, do_set_price(sender, c, i, price, buyer)
      PROVE  DepositsInv'
  <2>1. Rest /\ UNCHANGED <<Item, bal>>
    BY <1>1 DEF do_set_price, collectionVars, itemVars, attributeVars
  <2> QED
    BY <2>1, StillBooks
<1>2. ASSUME NEW buyer \in AccountId, NEW c \in CollectionId, NEW i \in ItemId, NEW bid,
             do_buy_item(buyer, c, i, bid)
      PROVE  DepositsInv'
  <2>1. Item[c][i] # None /\ MoveTo(c, i, buyer) /\ Rest
    BY <1>2 DEF do_buy_item, do_transfer, collectionVars, attributeVars
  <2>2. bal'.reserved = bal.reserved
    BY <1>2, TransferKeepsReserves DEF do_buy_item
  <2> QED
    BY <2>1, <2>2, MoveToKeepsDeposits, QuietBooks
<1>3. ASSUME NEW sender, NEW receiver, NEW amount, do_pay_tip(sender, receiver, amount)
      PROVE  DepositsInv'
  <2>1. Rest /\ UNCHANGED Item
    BY <1>3 DEF do_pay_tip, collectionVars, itemVars, attributeVars
  <2>2. bal'.reserved = bal.reserved
    BY <1>3, TransferKeepsReserves DEF do_pay_tip
  <2> QED
    BY <2>1, <2>2, StillBooks
<1>4. ASSUME NEW caller, NEW c, NEW i, NEW dc, NEW di, NEW p, NEW d,
             do_create_swap(caller, c, i, dc, di, p, d) \/ do_cancel_swap(caller, c, i)
      PROVE  DepositsInv'
  <2>1. Rest /\ UNCHANGED <<Item, bal>>
    BY <1>4 DEF do_create_swap, do_cancel_swap, SwapFrame, collectionVars, itemVars, attributeVars
  <2> QED
    BY <2>1, StillBooks
<1> QED
  BY <1>1, <1>2, <1>3, <1>4, approvals_Books, claim_swap_Books DEF TradingStep

\* Every call on attributes and metadata, of those PlainDeposits allows.
LEMMA DataNextBooks ==
    ASSUME PlainDeposits, TypeOK, TypeOK', DepositsInv, DataNext
    PROVE  DepositsInv'
<1>0. Lengths \subseteq Nat /\ ForceKeys \subseteq AttributeKey /\ MintData \subseteq PreSignedMint
  BY ArgumentTypes
<1>1. ASSUME NEW o, NEW c \in CollectionId, NEW k \in ClientKey, NEW n \in Lengths,
             set_attribute(o, c, k, n)
      PROVE  DepositsInv'
  <2>1. PICK depositor :
           /\ depositor = (IF k[2] = CollectionOwner THEN Collection[c].owner ELSE o)
           /\ do_set_attribute(o, c, k, n, depositor)
    BY <1>1 DEF set_attribute
  <2>2. o \in AccountId /\ n \in Nat
    BY <1>0, <1>1 DEF set_attribute, Signed
  <2> QED
    BY <2>1, <2>2, set_attribute_Books
<1>2. ASSUME NEW o \in Callers["force_set_attribute"], NEW a, NEW c \in CollectionId,
             NEW k \in ForceKeys, NEW n \in Lengths, force_set_attribute(o, a, c, k, n)
      PROVE  DepositsInv'
  <2>1. k \in AttributeKey /\ k[2] = Pallet /\ n \in Nat
    BY <1>0 DEF PlainDeposits
  <2> QED
    BY <1>2, <2>1, force_set_attribute_Books DEF force_set_attribute
<1>3. ASSUME NEW o, NEW c \in CollectionId, NEW k \in AttributeKey, clear_attribute(o, c, k)
      PROVE  DepositsInv'
  BY <1>3, clear_attribute_Books DEF clear_attribute
<1>4. ASSUME NEW o, NEW c, NEW i, NEW a, approve_item_attributes(o, c, i, a)
      PROVE  DepositsInv'
  <2>1. UNCHANGED <<Collection, CollectionMetadataOf, ItemMetadataOf, Attribute, Item, bal>>
    BY <1>4 DEF approve_item_attributes, do_approve_item_attributes, AttributeFrame, itemVars
  <2> QED
    BY <2>1, StillBooks
<1>5. ASSUME NEW o, NEW c \in CollectionId, NEW i \in ItemId, NEW a \in AccountId,
             cancel_item_attributes_approval(o, c, i, a)
      PROVE  DepositsInv'
  BY <1>5, cancel_item_attributes_approval_Books DEF cancel_item_attributes_approval
<1>6. ASSUME NEW o, NEW c \in CollectionId, NEW i \in ItemId, NEW n \in Lengths,
             set_metadata(o, c, i, n)
      PROVE  DepositsInv'
  BY <1>0, <1>6, set_metadata_Books DEF set_metadata
<1>7. ASSUME NEW o, NEW c \in CollectionId, NEW i \in ItemId, clear_metadata(o, c, i)
      PROVE  DepositsInv'
  BY <1>7, clear_metadata_Books DEF clear_metadata
<1>8. ASSUME NEW o, NEW c \in CollectionId, NEW n \in Lengths, set_collection_metadata(o, c, n)
      PROVE  DepositsInv'
  BY <1>0, <1>8, set_collection_metadata_Books DEF set_collection_metadata
<1>9. ASSUME NEW o, NEW c \in CollectionId, clear_collection_metadata(o, c)
      PROVE  DepositsInv'
  BY <1>9, clear_collection_metadata_Books DEF clear_collection_metadata
<1>10. ASSUME NEW o \in Callers["mint_pre_signed"], NEW c \in CollectionId, NEW i \in ItemId,
              NEW data \in MintData, NEW signer, mint_pre_signed(o, c, i, data, signer)
       PROVE  DepositsInv'
  <2>1. data \in PreSignedMint /\ data.attributes = None /\ data.metadata = 0
    BY <1>0 DEF PlainDeposits
  <2>2. o \in AccountId /\ do_mint_pre_signed(o, c, i, data, signer)
    BY <1>10 DEF mint_pre_signed, Signed
  <2> QED
    BY <2>1, <2>2, mint_pre_signed_Books
<1>11. Callers["set_attributes_pre_signed"] = {}
  BY DEF PlainDeposits
<1> QED
  BY <1>1, <1>2, <1>3, <1>4, <1>5, <1>6, <1>7, <1>8, <1>9, <1>10, <1>11 DEF DataNext

\* Every step keeps the books.
LEMMA DepositsStep ==
    ASSUME PlainDeposits, TypeOK, TypeOK', StructureInv, StructureInv', DepositsInv, [Next]_vars
    PROVE  DepositsInv'
<1>1. ASSUME NextBlock \/ UNCHANGED vars
      PROVE  DepositsInv'
  <2>1. UNCHANGED <<Collection, CollectionMetadataOf, ItemMetadataOf, Attribute, Item, bal>>
    BY <1>1 DEF NextBlock, vars, collectionVars, itemVars, attributeVars
  <2> QED
    BY <2>1, StillBooks
<1>2. ASSUME TradingNext
      PROVE  DepositsInv'
  BY <1>2, TradingNextStep, TradingStepBooks
<1> QED
  BY <1>1, <1>2, CollectionNextBooks, ItemNextBooks, DataNextBooks DEF Next

\* The books start empty.
LEMMA DepositsInit == Init => DepositsInv
<1> SUFFICES ASSUME Init PROVE DepositsInv
  OBVIOUS
<1>1. TypeOK /\ StructureInv
  BY InitType, StructureInit
<1>2. EmptyBooks
  BY <1>1, NothingHeld
<1>3. \A c \in CollectionId : PayersOf(c) /\ OwnerBooks(c)
  BY DEF Init, StorageInit, PayersOf, AttributePayer, OwnerBooks
<1>4. ReservesExact
  <2> SUFFICES ASSUME NEW a \in AccountId
               PROVE  bal.reserved[a] = SumFunction([c \in CollectionId |-> Held(a, c)])
    BY DEF ReservesExact
  <2>1. PICK f : f = [c \in CollectionId |-> Held(a, c)]
    OBVIOUS
  <2>2. DOMAIN f = CollectionId /\ \A c \in CollectionId : f[c] = 0
    BY <1>2, <2>1 DEF EmptyBooks, Init, StorageInit
  <2>3. SumFunction(f) = 0
    BY <2>2, ZeroFunction, KeysFinite
  <2>4. bal.reserved[a] = 0
    BY DEF Init, StorageInit
  <2> QED
    BY <2>1, <2>3, <2>4
<1> QED
  BY <1>3, <1>4 DEF DepositsInv

\* The inductive invariant: reserves, owner_deposit and the records of who paid for what
\* agree after any calls.
THEOREM DepositsKept ==
    ASSUME PlainDeposits
    PROVE  Spec => []DepositsInv
<1>1. TypeOK /\ TypeOK' /\ StructureInv /\ StructureInv' /\ DepositsInv /\ [Next]_vars => DepositsInv'
  BY DepositsStep
<1> QED
  BY <1>1, DepositsInit, TypeCorrect, StructureKept, PTL DEF Spec

\* Whatever calls are made, and whichever of them share collections and items, what an
\* account has reserved is exactly the sum of the deposits recorded in its name: no refund
\* falls short and nothing stays locked, for any number of accounts, collections, items
\* and keys.
THEOREM ReservesAreExact ==
    ASSUME PlainDeposits
    PROVE  Spec => []ReservesExact
<1>1. DepositsInv => ReservesExact
  BY DEF DepositsInv
<1> QED
  BY <1>1, DepositsKept, PTL

\* owner_deposit, which destroy refunds and an ownership transfer moves, is the deposit of
\* the collection and what its owner has paid for the data in it.
THEOREM OwnerDepositIsExact ==
    ASSUME PlainDeposits
    PROVE  Spec => []OwnerDepositExact
<1>1. DepositsInv => OwnerDepositExact
  BY DEF DepositsInv, OwnerBooks, OwnerDepositExact, Collections
<1> QED
  BY <1>1, DepositsKept, PTL
=============================================================================
