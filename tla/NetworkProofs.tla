---------------------------- MODULE NetworkProofs ----------------------------
(***************************************************************************)
(* Proofs about the parts of Network, for every set of accounts, calls,    *)
(* collections and items and every bound.  A step belongs to one part, so  *)
(* the invariant of each part is proved on its own.                        *)
(***************************************************************************)
EXTENDS NetworkProperties, Sums, TLAPS, FiniteSetTheorems

\* The scope of a behaviour is chosen once.
ScopeOK == scope \in [part : Part, runtime : Runtimes]
-----------------------------------------------------------------------------
(* Proxies.                                                                *)

\* The runtimes by their names (RuntimeCalls).
LEMMA RuntimeNames == Runtimes = {"devnet", "testnet", "mainnet"}
  BY DEF Runtimes, Pallets

\* A type that is_superset puts above another permits whatever the other permits, in
\* every runtime: ProxyType::is_superset agrees with InstanceFilter::filter.
LEMMA SupersetPermits ==
    ASSUME NEW rt \in Runtimes, NEW s, NEW o, NEW c, is_superset(s, o), filter(rt, o, c)
    PROVE  filter(rt, s, c)
<1>1. CASE rt = "devnet"
  BY <1>1 DEF is_superset, filter, DevnetFilter, Batches
<1>2. CASE rt = "testnet"
  BY <1>2 DEF is_superset, filter, TestnetFilter, DevnetFilter, Batches
<1>3. CASE rt = "mainnet"
  BY <1>3 DEF is_superset, filter, MainnetFilter, Batches
<1> QED
  BY <1>1, <1>2, <1>3, RuntimeNames

\* ProxyType::is_superset is transitive.
LEMMA SupersetTransitive ==
    ASSUME NEW r, NEW s, NEW t, is_superset(r, s), is_superset(s, t)
    PROVE  is_superset(r, t)
  BY DEF is_superset

\* A type is covered for an account when it granted a type above it itself.
Covered(a, t) == \E g \in granted[a] : is_superset(g, t)

\* Whoever acts as Root was let to.
RootEarned(signer) ==
    \/ signer = SudoKey
    \/ \E t \in granted[SudoKey] : filter(scope.runtime, t, Wrapper("Sudo", "sudo"))

\* How an extrinsic may have come by its origin.
OriginEarned(signer, o) ==
    \/ signer \in Member /\ o = Signed(signer)
    \/ o = Root /\ RootEarned(signer)
    \/ \E a \in Member, t \in ProxyType : o = [who |-> a, types |-> {t}] /\ Covered(a, t)

\* Every proxy of an account, and the origin of the extrinsic being dispatched, descends
\* from a type the account granted itself.
Descends ==
    /\ granted = [a \in Member |-> granted[a]]
    /\ proxies = [a \in Member |-> proxies[a]]
    /\ \A a \in Member : \A p \in proxies[a] : Covered(a, p.type)
    /\ frame # None =>
          /\ frame = [signer |-> frame.signer, origin |-> frame.origin, hops |-> frame.hops]
          /\ OriginEarned(frame.signer, frame.origin)
-----------------------------------------------------------------------------
\* A call the origin may dispatch is one that the granted types permit, if the origin is
\* neither Root nor the signer's own.
LEMMA DispatchPermitted ==
    ASSUME ScopeOK, Descends, frame # None, frame.origin # Root,
           frame.origin # Signed(frame.signer), NEW c,
           MayDispatch(scope.runtime, frame.origin, c)
    PROVE  \E a \in Member, t \in ProxyType :
               /\ frame.origin = [who |-> a, types |-> {t}]
               /\ Covered(a, t)
               /\ Permits(scope.runtime, t, c)
               /\ \E g \in granted[a] : filter(scope.runtime, g, c)
<1>1. PICK a \in Member, t \in ProxyType :
         frame.origin = [who |-> a, types |-> {t}] /\ Covered(a, t)
  BY DEF Descends, OriginEarned
<1>2. Permits(scope.runtime, t, c)
  BY <1>1 DEF MayDispatch
<1>3. PICK g \in granted[a] : is_superset(g, t)
  BY <1>1 DEF Covered
<1>4. filter(scope.runtime, g, c)
  BY <1>2, <1>3, SupersetPermits DEF Permits, ScopeOK
<1> QED
  BY <1>1, <1>2, <1>3, <1>4

\* A dispatched call is recorded with an origin that NoEscalation allows.
LEMMA DispatchEarned ==
    ASSUME ScopeOK, Descends, NEW c, Dispatch(scope.runtime, c), UNCHANGED scope,
           \A a \in Member : granted[a] \subseteq granted'[a]
    PROVE  NoEscalation'
<1> USE ProxiesAssumption
<1>1. last' = [signer |-> frame.signer, origin |-> frame.origin, call |-> c]
  BY DEF Dispatch
<1>2. CASE frame.origin = Signed(frame.signer)
  BY <1>1, <1>2 DEF NoEscalation, Signed
<1>3. CASE frame.origin # Signed(frame.signer) /\ frame.origin = Root
  <2>1. RootEarned(frame.signer)
    <3>1. CASE \E a \in Member, t \in ProxyType : Root = [who |-> a, types |-> {t}]
      BY <3>1 DEF Root
    <3> QED
      BY <1>3, <3>1 DEF Dispatch, Descends, OriginEarned
  <2> QED
    BY <1>1, <1>3, <2>1 DEF NoEscalation, RootEarned
<1>4. CASE frame.origin # Signed(frame.signer) /\ frame.origin # Root
  <2>1. PICK a \in Member, t \in ProxyType :
           /\ frame.origin = [who |-> a, types |-> {t}]
           /\ \E g \in granted[a] : filter(scope.runtime, g, c)
    BY <1>4, DispatchPermitted DEF Dispatch
  <2> QED
    BY <1>1, <1>4, <2>1 DEF NoEscalation
<1> QED
  BY <1>2, <1>3, <1>4

\* A step of the proxies part keeps what every proxy descends from, and dispatches only
\* what NoEscalation allows.
LEMMA ProxiesStep ==
    ASSUME ScopeOK, Descends, NoEscalation, UNCHANGED scope, ProxiesNext(scope.runtime)
    PROVE  Descends' /\ NoEscalation'
<1> DEFINE rt == scope.runtime
<1> USE ProxiesAssumption
<1>1. ASSUME NEW a \in Member, Submit(a) PROVE Descends' /\ NoEscalation'
  BY <1>1 DEF Submit, Descends, OriginEarned, Covered, NoEscalation
<1>2. ASSUME NEW h, NEW o, Enter(rt, h, o), OriginEarned(frame.signer, o)
      PROVE  Descends' /\ NoEscalation'
  <2>1. frame' = [signer |-> frame.signer, origin |-> o, hops |-> frame.hops + 1]
    BY <1>2 DEF Enter, Descends
  <2> QED
    BY <1>2, <2>1 DEF Enter, Descends, OriginEarned, RootEarned, Covered, NoEscalation
<1>3. CASE EnterBatch(rt)
  <2>1. OriginEarned(frame.signer, frame.origin)
    BY <1>3 DEF EnterBatch, Descends
  <2> QED
    BY <1>2, <1>3, <2>1 DEF EnterBatch
<1>4. CASE EnterSudo(rt)
  <2>1. RootEarned(frame.signer)
    <3>1. CASE frame.origin = Signed(frame.signer)
      BY <1>4, <3>1 DEF EnterSudo, Signed, RootEarned
    <3>2. CASE frame.origin = Root /\ frame.origin # Signed(frame.signer)
      <4>1. ~ \E a \in Member, t \in ProxyType : Root = [who |-> a, types |-> {t}]
        BY DEF Root
      <4> QED
        BY <1>4, <3>2, <4>1 DEF EnterSudo, Descends, OriginEarned
    <3>3. CASE frame.origin # Root /\ frame.origin # Signed(frame.signer)
      <4>1. frame # None /\ MayDispatch(rt, frame.origin, Wrapper("Sudo", "sudo"))
        BY <1>4 DEF EnterSudo, Enter
      <4>2. PICK a \in Member, t \in ProxyType :
              /\ frame.origin = [who |-> a, types |-> {t}]
              /\ \E g \in granted[a] : filter(rt, g, Wrapper("Sudo", "sudo"))
        BY <3>3, <4>1, DispatchPermitted
      <4>3. a = SudoKey
        BY <1>4, <4>2 DEF EnterSudo
      <4> QED
        BY <4>2, <4>3 DEF RootEarned
    <3> QED
      BY <3>1, <3>2, <3>3
  <2> QED
    BY <1>2, <1>4, <2>1 DEF EnterSudo, OriginEarned
<1>5. ASSUME NEW a \in Member, NEW t \in ProxyType, EnterProxy(rt, a, t)
      PROVE  Descends' /\ NoEscalation'
  <2>1. Covered(a, t)
    BY <1>5 DEF EnterProxy, Descends
  <2> QED
    BY <1>2, <1>5, <2>1 DEF EnterProxy, OriginEarned
<1>6. ASSUME NEW c, Refuse(rt, c) PROVE Descends' /\ NoEscalation'
  BY <1>6 DEF Refuse, Descends, Covered, NoEscalation
<1>7. ASSUME NEW c, DispatchOther(rt, c) PROVE Descends' /\ NoEscalation'
  BY <1>7, DispatchEarned DEF DispatchOther, Dispatch, Descends, Covered
<1>8. ASSUME NEW c, add_proxy(rt, c) PROVE Descends' /\ NoEscalation'
  <2> DEFINE a == frame.origin.who
             p == [delegate |-> c.delegate, type |-> c.type]
  <2>1. /\ frame # None /\ frame.origin # Root
        /\ c.pallet = "Proxy" /\ c.name = "add_proxy"
        /\ MayDispatch(rt, frame.origin, c)
        /\ frame' = None
    BY <1>8 DEF add_proxy, ProxyCall, Dispatch, OriginAccepted, RootOrSigned,
            RootOnly
  <2>2. /\ proxies' = [proxies EXCEPT ![a] = @ \cup {p}]
        /\ granted' = IF frame.origin = Signed(frame.signer)
                      THEN [granted EXCEPT ![a] = @ \cup {c.type}] ELSE granted
    BY <1>8 DEF add_proxy
  <2>3. a \in Member
    BY <2>1 DEF Descends, OriginEarned, Signed
  <2>4. \A b \in Member : granted[b] \subseteq granted'[b]
    BY <2>2, <2>3 DEF Descends
  <2>5. \E g \in granted'[a] : is_superset(g, c.type)
    <3>1. CASE frame.origin = Signed(frame.signer)
      BY <2>2, <2>3, <3>1 DEF Descends, is_superset
    <3>2. CASE frame.origin # Signed(frame.signer)
      <4>1. PICK b \in Member, t \in ProxyType :
               /\ frame.origin = [who |-> b, types |-> {t}]
               /\ Covered(b, t)
               /\ Permits(rt, t, c)
        BY <2>1, <3>2, DispatchPermitted
      <4>2. is_superset(t, c.type)
        BY <2>1, <4>1 DEF Permits
      <4>3. PICK g \in granted[a] : is_superset(g, t)
        BY <4>1 DEF Covered
      <4> QED
        BY <2>3, <2>4, <4>2, <4>3, SupersetTransitive
    <3> QED
      BY <3>1, <3>2
  <2>6. \A b \in Member : \A q \in proxies'[b] : \E g \in granted'[b] : is_superset(g, q.type)
    BY <2>2, <2>3, <2>4, <2>5 DEF Descends, Covered
  <2>7. proxies' = [b \in Member |-> proxies'[b]] /\ granted' = [b \in Member |-> granted'[b]]
    BY <2>2, <2>3 DEF Descends
  <2>8. NoEscalation'
    BY <1>8, <2>4, DispatchEarned DEF add_proxy
  <2> QED
    BY <2>1, <2>6, <2>7, <2>8 DEF Descends, Covered
<1>9. ASSUME NEW c, remove_proxies(rt, c) PROVE Descends' /\ NoEscalation'
  <2>1. PICK gone : proxies' = [proxies EXCEPT ![frame.origin.who] = @ \ gone]
    BY <1>9 DEF remove_proxies
  <2>2. frame' = None /\ granted' = granted
    BY <1>9 DEF remove_proxies, Dispatch
  <2>3. NoEscalation'
    BY <1>9, <2>2, DispatchEarned DEF remove_proxies
  <2>4. \A b \in Member : proxies'[b] \subseteq proxies[b]
    BY <2>1 DEF Descends
  <2> QED
    BY <2>1, <2>2, <2>3, <2>4 DEF Descends, Covered
<1> QED
  BY <1>1, <1>3, <1>4, <1>5, <1>6, <1>7, <1>8, <1>9 DEF ProxiesNext

\* No call made in another account's name, however many proxies, batches and sudo calls
\* it went through, exceeds the types that account granted itself (InstanceFilter and
\* ProxyType::is_superset, in every runtime).
THEOREM ProxiesNeverEscalate == Spec => []NoEscalation
<1> DEFINE IInv == ScopeOK /\ Descends /\ NoEscalation
<1>1. Init => IInv
  BY DEF Init, ScopeOK, ProxiesInit, Descends, Covered, NoEscalation
<1>2. IInv /\ [Next]_vars => IInv'
  <2> SUFFICES ASSUME IInv, [Next]_vars PROVE IInv'
    OBVIOUS
  <2>1. CASE InProxies /\ ProxiesNext(scope.runtime)
    <3>1. UNCHANGED scope
      BY <2>1 DEF InProxies
    <3> QED
      BY <2>1, <3>1, ProxiesStep DEF ScopeOK
  <2>2. CASE UNCHANGED <<scope, proxiesVars>>
    BY <2>2 DEF proxiesVars, ScopeOK, Descends, OriginEarned, RootEarned, Covered, NoEscalation
  <2> QED
    BY <2>1, <2>2 DEF Next, vars, NodeStarts, NodeCommanded, NodeProduces, InCollator, InXcm,
                      InUpgrade
<1> QED
  BY <1>1, <1>2, PTL DEF Spec
-----------------------------------------------------------------------------
(* The storage migration.                                                  *)

\* Every item has a configuration, and from the new code on every collection counts its
\* configurations.
CountsKept ==
    /\ code \in {0, 1} /\ version = code
    /\ details = [c \in CollectionId |-> details[c]]
    /\ items = [c \in CollectionId |-> items[c]]
    /\ configs = [c \in CollectionId |-> configs[c]]
    /\ \A c \in CollectionId : items[c] \subseteq configs[c] /\ IsFiniteSet(configs[c])
    /\ MigrationExact

\* A step of the upgrade part keeps the counts.
LEMMA MigrationStep ==
    ASSUME CountsKept, MigrationNext
    PROVE  CountsKept'
<1>1. CASE on_runtime_upgrade
  <2>1. CASE version = 0
    <3>1. /\ details' = [c \in CollectionId |-> migrate_to_v1(details[c], Cardinality(configs[c]))]
          /\ code' = 1 /\ version' = 1 /\ UNCHANGED <<items, configs>>
      BY <1>1, <2>1 DEF on_runtime_upgrade
    <3>2. \A c \in CollectionId : details'[c].item_configs = Cardinality(configs[c])
      BY <3>1 DEF migrate_to_v1
    <3> QED
      BY <3>1, <3>2 DEF CountsKept, MigrationExact
  <2>2. CASE version # 0
    BY <1>1, <2>2 DEF on_runtime_upgrade, CountsKept, MigrationExact
  <2> QED
    BY <2>1, <2>2
<1>2. ASSUME NEW c \in CollectionId, NEW i \in ItemId, mint(c, i) PROVE CountsKept'
  <2>1. /\ items' = [items EXCEPT ![c] = @ \cup {i}]
        /\ configs' = [configs EXCEPT ![c] = @ \cup {i}]
        /\ UNCHANGED <<code, version>>
    BY <1>2 DEF mint
  <2>2. /\ IsFiniteSet(configs[c] \cup {i})
        /\ i \notin configs[c] => Cardinality(configs[c] \cup {i}) = Cardinality(configs[c]) + 1
        /\ i \in configs[c] => configs[c] \cup {i} = configs[c]
    BY FS_AddElement DEF CountsKept
  <2>3. /\ details' = [d \in CollectionId |-> details'[d]]
        /\ \A d \in CollectionId \ {c} : details'[d] = details[d]
        /\ code = 1 => details'[c].item_configs =
                          IF i \notin configs[c] THEN details[c].item_configs + 1
                          ELSE details[c].item_configs
    BY <1>2 DEF mint, Counted, CountsKept
  <2>4. MigrationExact'
    BY <2>1, <2>2, <2>3 DEF CountsKept, MigrationExact
  <2> QED
    BY <2>1, <2>2, <2>3, <2>4 DEF CountsKept
<1>3. ASSUME NEW c \in CollectionId, NEW i \in ItemId, change_item_transfer(c, i)
      PROVE  CountsKept'
  BY <1>3 DEF change_item_transfer, CountsKept, MigrationExact
<1>4. ASSUME NEW c \in CollectionId, NEW i \in ItemId, burn(c, i) PROVE CountsKept'
  <2> DEFINE kept == i \in locked[c]
  <2>1. /\ items' = [items EXCEPT ![c] = @ \ {i}]
        /\ configs' = IF kept THEN configs ELSE [configs EXCEPT ![c] = @ \ {i}]
        /\ UNCHANGED <<code, version>>
        /\ i \in items[c]
    BY <1>4 DEF burn
  <2>2. /\ IsFiniteSet(configs[c] \ {i})
        /\ Cardinality(configs[c] \ {i}) = Cardinality(configs[c]) - 1
    <3>1. i \in configs[c]
      BY <2>1 DEF CountsKept
    <3> QED
      BY <3>1, FS_RemoveElement DEF CountsKept
  <2>3. /\ details' = [d \in CollectionId |-> details'[d]]
        /\ \A d \in CollectionId \ {c} : details'[d] = details[d]
        /\ code = 1 => details'[c].item_configs =
                          IF kept THEN details[c].item_configs ELSE details[c].item_configs - 1
    BY <1>4 DEF burn, Counted, CountsKept
  <2>4. MigrationExact'
    BY <2>1, <2>2, <2>3 DEF CountsKept, MigrationExact
  <2> QED
    BY <2>1, <2>2, <2>3, <2>4 DEF CountsKept
<1> QED
  BY <1>1, <1>2, <1>3, <1>4 DEF MigrationNext

\* The migration leaves exact counts of configurations, whatever was minted, locked and
\* burned before it and after it, and how often the upgrade runs (MigrateToV1).
THEOREM MigrationIsExact == Spec => []MigrationExact
<1>1. Init => CountsKept
  BY FS_EmptySet DEF Init, MigrationInit, CountsKept, MigrationExact
<1>2. CountsKept /\ [Next]_vars => CountsKept'
  <2> SUFFICES ASSUME CountsKept, [Next]_vars PROVE CountsKept'
    OBVIOUS
  <2>1. CASE MigrationNext
    BY <2>1, MigrationStep
  <2>2. CASE UNCHANGED migrationVars
    BY <2>2 DEF migrationVars, CountsKept, MigrationExact
  <2> QED
    BY <2>1, <2>2 DEF Next, vars, NodeStarts, NodeCommanded, NodeProduces, InCollator, InXcm,
                      InProxies
<1>3. CountsKept => MigrationExact
  BY DEF CountsKept
<1> QED
  BY <1>1, <1>2, <1>3, PTL DEF Spec
-----------------------------------------------------------------------------
(* The weight of a block.                                                  *)

Weight == [time : Nat, proof : Nat]
BlockType == [Normal : Weight, Operational : Weight, Mandatory : Weight]

\* In a block past its limit the operational extrinsics are within their reserve.
OverfullByReserve ==
    AnyGt(Total(block), MAXIMUM_BLOCK_WEIGHT) =>
        ~ AnyGt(block.Operational, RuntimeBlockWeights.reserved)

\* The weights a block has used are sums of weights.
BlockInv == block # NoBlock => block \in BlockType /\ OverfullByReserve

\* The numbers behind RuntimeBlockWeights.
LEMMA Limits ==
    /\ RuntimeBlockWeights.max_total.Operational = [time |-> 20, proof |-> 20]
    /\ RuntimeBlockWeights.reserved = [time |-> 5, proof |-> 5]
    /\ MaxExtrinsic("Operational") = [time |-> 19, proof |-> 19]
    /\ Minus(MAXIMUM_BLOCK_WEIGHT, Share(NORMAL_DISPATCH_RATIO, MAXIMUM_BLOCK_WEIGHT))
          = [time |-> 5, proof |-> 5]
<1>1. Share(75, MAXIMUM_BLOCK_WEIGHT) = [time |-> 15, proof |-> 15]
  BY DEF Share, MAXIMUM_BLOCK_WEIGHT
<1>2. Share(5, MAXIMUM_BLOCK_WEIGHT) = [time |-> 1, proof |-> 1]
  BY DEF Share, MAXIMUM_BLOCK_WEIGHT
<1> QED
  BY <1>1, <1>2 DEF RuntimeBlockWeights, MaxExtrinsic, Minus, MAXIMUM_BLOCK_WEIGHT,
     NORMAL_DISPATCH_RATIO, AVERAGE_ON_INITIALIZE_RATIO

\* In a block whose weights add up, an operational extrinsic within the reserve is taken
\* by CheckWeight, however full the block is.
LEMMA ReserveIsOpen == BlockInv => BlockRoom
<1> SUFFICES ASSUME BlockInv, block # NoBlock
             PROVE  \A w \in Weights :
                      ~ AnyGt(Plus(block.Operational, w), [time |-> 5, proof |-> 5])
                        => CheckWeight(block, "Operational", w)
  BY Limits DEF BlockRoom, BlockInv, OverfullByReserve
<1> SUFFICES ASSUME NEW w \in Weights,
                    ~ AnyGt(Plus(block.Operational, w), [time |-> 5, proof |-> 5])
             PROVE  CheckWeight(block, "Operational", w)
  OBVIOUS
<1>1. w \in Weight /\ block.Operational \in Weight
  BY BlocksAssumption DEF BlockInv, BlockType, Weight
<1>2. ~ AnyGt(w, [time |-> 19, proof |-> 19])
  BY <1>1 DEF AnyGt, Plus, Weight
<1>3. ~ AnyGt(Plus(block.Operational, w), [time |-> 20, proof |-> 20])
  BY <1>1 DEF AnyGt, Plus, Weight
<1> QED
  BY <1>2, <1>3, Limits DEF CheckWeight

\* Blocks begin, fill and end within these limits.
LEMMA BlockStep ==
    ASSUME BlockInv,
           \/ \E v, w, x \in Weights \cup {Zero} : initialize_block(v, w, x)
           \/ \E class \in {"Normal", "Operational"}, w \in Weights : apply_extrinsic(class, w)
           \/ block' \in {block, NoBlock}
    PROVE  BlockInv'
<1>1. ASSUME NEW v \in Weights \cup {Zero}, NEW w \in Weights \cup {Zero},
             NEW x \in Weights \cup {Zero}, initialize_block(v, w, x)
      PROVE  BlockInv'
  <2>1. {v, w, x, Zero} \subseteq Weight
    BY BlocksAssumption DEF Weight, Zero
  <2>2. block' = [Normal |-> Zero, Operational |-> Zero, Mandatory |-> Plus(v, Plus(w, x))]
    BY <1>1 DEF initialize_block
  <2>3. Plus(v, Plus(w, x)) \in Weight
    BY <2>1 DEF Plus, Weight
  <2>4. block' \in BlockType
    BY <2>1, <2>2, <2>3 DEF BlockType
  <2>5. ~ AnyGt(Zero, [time |-> 5, proof |-> 5])
    BY DEF AnyGt, Zero
  <2>6. ~ AnyGt(block'.Operational, RuntimeBlockWeights.reserved)
    BY <2>2, <2>5, Limits
  <2> QED
    BY <2>4, <2>6 DEF BlockInv, OverfullByReserve
<1>2. ASSUME NEW w \in Weights, apply_extrinsic("Normal", w) PROVE BlockInv'
  <2>1. block \in BlockType /\ w \in Weight
    BY <1>2, BlocksAssumption DEF apply_extrinsic, BlockInv, Weight
  <2>2. block' = [block EXCEPT !["Normal"] = Plus(block["Normal"], w)]
    BY <1>2 DEF apply_extrinsic
  <2>3. block' \in BlockType
    BY <2>1, <2>2 DEF BlockType, Weight, Plus
  <2>4. ~ AnyGt(Total(block'), MAXIMUM_BLOCK_WEIGHT)
    BY <1>2, <2>2 DEF apply_extrinsic, CheckWeight
  <2> QED
    BY <2>3, <2>4 DEF BlockInv, OverfullByReserve
<1>3. ASSUME NEW w \in Weights, apply_extrinsic("Operational", w) PROVE BlockInv'
  <2>1. block \in BlockType /\ w \in Weight
    BY <1>3, BlocksAssumption DEF apply_extrinsic, BlockInv, Weight
  <2>2. block' = [block EXCEPT !["Operational"] = Plus(block["Operational"], w)]
    BY <1>3 DEF apply_extrinsic
  <2>3. block' \in BlockType
    BY <2>1, <2>2 DEF BlockType, Weight, Plus
  <2>4. AnyGt(Total(block'), MAXIMUM_BLOCK_WEIGHT) =>
            ~ AnyGt(Plus(block["Operational"], w), RuntimeBlockWeights.reserved)
    BY <1>3, <2>2 DEF apply_extrinsic, CheckWeight
  <2>5. block'.Operational = Plus(block["Operational"], w)
    BY <2>1, <2>2 DEF BlockType
  <2> QED
    BY <2>3, <2>4, <2>5 DEF BlockInv, OverfullByReserve
<1>4. CASE block' \in {block, NoBlock}
  BY <1>4 DEF BlockInv, OverfullByReserve
<1> QED
  BY <1>1, <1>2, <1>3, <1>4

\* Every block keeps room for operational extrinsics, and past MAXIMUM_BLOCK_WEIGHT it
\* holds only those within the reserve (RuntimeBlockWeights, CheckWeight).
THEOREM BlocksKeepRoom == Spec => []BlockRoom
<1>1. Init => BlockInv
  BY DEF Init, CollatorInit, BlockInv
<1>2. BlockInv /\ [Next]_vars => BlockInv'
  <2> SUFFICES ASSUME BlockInv, [Next]_vars PROVE BlockInv'
    OBVIOUS
  <2>1. CASE Produces
    BY <2>1, BlockStep DEF Produces, StartBlock, ApplyExtrinsic, SealBlock, finalize_block,
       ImportBlock, RelayIncludes, NextSlot
  <2>2. CASE block' \in {block, NoBlock}
    BY <2>2, BlockStep
  <2> QED
    BY <2>1, <2>2 DEF Next, vars, collatorVars, NodeStarts, Starts, NodeCommanded, NodeProduces,
       Ends, InXcm, InProxies, InUpgrade
<1> QED
  BY <1>1, <1>2, ReserveIsOpen, PTL DEF Spec
-----------------------------------------------------------------------------
(* The process.                                                            *)

\* runtime finds the code of each built-in specification, whose extensions and genesis
\* agree on the parachain's id.
LEMMA KnownSpecs ==
    ASSUME NEW s \in KnownSpec
    PROVE  /\ s.id \in SpecId /\ s.wasm = runtime(s.id)
           /\ s.extensions.para_id = s.genesis.para_id
           /\ s.extensions.relay_chain = IF s.wasm = "mainnet" THEN "polkadot"
                                         ELSE IF s.wasm = "testnet" THEN "paseo"
                                         ELSE "paseo-local"
           /\ [s EXCEPT !.wasm = runtime(s.id)] = s
<1> USE DEF NewSpec, configure_for_relay, SpecId, runtime, StartsWith, EndsWith
<1>1. CASE s = development_config("PaseoLocal")
  BY <1>1 DEF development_config, devnet_genesis
<1>2. CASE s = testnet_config("Paseo")
  BY <1>2 DEF testnet_config, testnet_genesis
<1>3. CASE s = mainnet_config("Polkadot")
  BY <1>3 DEF mainnet_config, mainnet_genesis
<1> QED
  BY <1>1, <1>2, <1>3 DEF KnownSpec

\* The phases of the start, in their order, each with the tasks that run from then on.
Phase == {"down", "configured", "partial", "relay", "network_built", "workers", "rpc",
          "following", "consensus", "running"}
Opened == Phase \ {"down", "configured"}
Connected == Opened \ {"partial"}
Synced == Connected \ {"relay"}
Following == {"following", "consensus", "running"}

\* A database is that of the network its id names, and no further ahead of the relay
\* chain than the unincluded segment allows.
DbOK(id) ==
    /\ db[id] = [wasm |-> runtime(id), best |-> db[id].best]
    /\ db[id].best \in Nat
    /\ db[id].best <= included[id] + UNINCLUDED_SEGMENT_CAPACITY

\* What is on the disk.
DiskInv ==
    /\ files \subseteq KnownSpec
    /\ included \in [SpecId -> Nat]
    /\ db = [id \in SpecId |-> db[id]]
    /\ \A id \in SpecId : db[id] = Absent \/ DbOK(id)

\* What the process runs.
ProcessInv ==
    /\ node = [phase |-> node.phase, command |-> node.command, spec |-> node.spec,
               runtime |-> node.runtime, relay |-> node.relay, validator |-> node.validator,
               offchain |-> node.offchain, tasks |-> node.tasks]
    /\ node.phase \in Phase
    /\ node.phase # "down" =>
          /\ node.spec \in KnownSpec /\ node.runtime = runtime(node.spec.id)
          /\ node.relay \in RelayArg \cup {node.spec.extensions.relay_chain}
    /\ node.phase \in Opened =>
          DbOK(node.spec.id) /\ {"import_queue", "transaction_pool"} \subseteq node.tasks
    /\ node.phase \in Connected => "relay_chain" \in node.tasks
    /\ node.phase \in Synced => "sync" \in node.tasks
    /\ node.phase \in Following => "relay_tasks" \in node.tasks
    /\ "aura" \in node.tasks => node.phase \in {"consensus", "running"} /\ node.validator
    /\ "network" \in node.tasks => node.phase = "running"

\* A block is built by the aura task, on a block that leaves room for it.
BuildingInv ==
    block # NoBlock =>
        /\ "aura" \in node.tasks
        /\ db[node.spec.id].best < included[node.spec.id] + UNINCLUDED_SEGMENT_CAPACITY

NodeInv == DiskInv /\ ProcessInv /\ BuildingInv

\* What RightRuntime and CollatorSafe say follows.
LEMMA NodeInvSuffices == NodeInv => RightRuntime /\ CollatorSafe
<1> SUFFICES ASSUME NodeInv PROVE RightRuntime /\ CollatorSafe
  OBVIOUS
<1>1. RightRuntime
  <2> SUFFICES ASSUME node.phase \notin {"down", "configured"} PROVE RightRuntime
    BY DEF RightRuntime
  <2>1. node.spec \in KnownSpec /\ node.phase \in Opened
    BY DEF NodeInv, ProcessInv, Opened
  <2>2. node.runtime = db[node.spec.id].wasm /\ node.runtime = node.spec.wasm
    BY <2>1, KnownSpecs DEF NodeInv, ProcessInv, DbOK
  <2> QED
    BY <2>1, <2>2, KnownSpecs DEF RightRuntime, NodeInv, ProcessInv, Opened
<1>2. CollatorSafe
  BY DEF CollatorSafe, NodeInv, DiskInv, ProcessInv, BuildingInv, DbOK, Opened, Connected,
         Synced, Following, Phase
<1> QED
  BY <1>1, <1>2

\* A step of the start that stays in the process.
LEMMA StepKeeps ==
    ASSUME NodeInv, NEW from \in Opened, NEW to \in Opened, NEW tasks, Step(from, to, tasks),
           UNCHANGED block,
           "aura" \in tasks => to = "consensus" /\ node.validator,
           "aura" \in node.tasks => to \in {"consensus", "running"},
           "network" \in tasks \/ "network" \in node.tasks => to = "running",
           to \in Connected => from \in Connected \/ "relay_chain" \in tasks,
           to \in Synced => from \in Synced \/ "sync" \in tasks,
           to \in Following => from \in Following \/ "relay_tasks" \in tasks
    PROVE  NodeInv'
<1>1. /\ node.phase = from
      /\ node' = [phase |-> to, command |-> node.command, spec |-> node.spec,
                  runtime |-> node.runtime, relay |-> node.relay,
                  validator |-> node.validator, offchain |-> node.offchain,
                  tasks |-> node.tasks \cup tasks]
  BY DEF Step, NodeInv, ProcessInv
<1>2. UNCHANGED <<files, db, included>>
  BY DEF Step, disk
<1>3. DiskInv'
  BY <1>2 DEF NodeInv, DiskInv, DbOK
<1>4. ProcessInv'
  BY <1>1, <1>2 DEF NodeInv, ProcessInv, DbOK, Opened, Connected, Synced, Following, Phase
<1>5. BuildingInv'
  BY <1>1, <1>2 DEF NodeInv, BuildingInv
<1> QED
  BY <1>3, <1>4, <1>5 DEF NodeInv

\* A process that ends keeps the invariant when the disk does.
LEMMA DownKeeps ==
    ASSUME node' = Down, block' = NoBlock \/ (block' = block /\ "aura" \notin node.tasks),
           NodeInv, DiskInv'
    PROVE  NodeInv'
<1>1. ProcessInv'
  BY DEF Down, ProcessInv, Phase, Opened, Connected, Synced, Following
<1>2. block' = NoBlock
  BY DEF NodeInv, BuildingInv
<1> QED
  BY <1>1, <1>2 DEF NodeInv, BuildingInv

\* The steps of the start.
LEMMA StartKeeps ==
    ASSUME NodeInv, Starts
    PROVE  NodeInv'
<1> USE DEF Starts
<1>1. CASE RunOffline
  <2>1. "aura" \notin node.tasks /\ node.spec \in KnownSpec
    BY <1>1 DEF RunOffline, NodeInv, ProcessInv
  <2>2. files' \subseteq KnownSpec
    BY <1>1, <2>1 DEF RunOffline, NodeInv, DiskInv
  <2>3. node.spec.id \in SpecId
    BY <2>1, KnownSpecs
  <2>4. included' = included /\ \A id \in SpecId : db'[id] \in {db[id], Absent}
    BY <1>1, <2>3 DEF RunOffline, NodeInv, DiskInv
  <2>5. db' = [id \in SpecId |-> db'[id]]
    BY <1>1, <2>3 DEF RunOffline, NodeInv, DiskInv
  <2>6. DiskInv'
    BY <2>2, <2>4, <2>5 DEF NodeInv, DiskInv, DbOK
  <2> QED
    BY <1>1, <2>1, <2>6, DownKeeps DEF RunOffline
<1>2. CASE Panic
  <2>1. "aura" \notin node.tasks
    BY <1>2 DEF Panic, NodeInv, ProcessInv
  <2>2. DiskInv'
    BY <1>2 DEF Panic, Stop, disk, NodeInv, DiskInv, DbOK
  <2> QED
    BY <1>2, <2>1, <2>2, DownKeeps DEF Panic, Stop
<1>3. CASE new_partial
  <2> DEFINE id == node.spec.id
  <2>1. /\ node.phase = "configured" /\ node.spec \in KnownSpec
        /\ "aura" \notin node.tasks
    BY <1>3 DEF new_partial, NodeInv, ProcessInv
  <2>2. id \in SpecId /\ node.spec.wasm = runtime(id)
    BY <2>1, KnownSpecs
  <2>3. /\ node' = [phase |-> "partial", command |-> node.command, spec |-> node.spec,
                    runtime |-> node.runtime, relay |-> node.relay,
                    validator |-> node.validator, offchain |-> node.offchain,
                    tasks |-> {"transaction_pool", "import_queue"}]
        /\ UNCHANGED <<files, included, block>>
    BY <1>3 DEF new_partial, NodeInv, ProcessInv
  <2>4. CASE db[id] # Absent
    <3>1. UNCHANGED db
      BY <1>3, <2>4 DEF new_partial
    <3>2. DbOK(id)
      BY <2>2, <2>4 DEF NodeInv, DiskInv
    <3>3. DiskInv' /\ DbOK(id)'
      BY <2>3, <3>1, <3>2 DEF NodeInv, DiskInv, DbOK
    <3>4. ProcessInv'
      BY <2>1, <2>3, <3>3 DEF NodeInv, ProcessInv, Phase, Opened, Connected, Synced, Following,
         DbOK
    <3> QED
      BY <2>1, <2>3, <3>3, <3>4 DEF NodeInv, BuildingInv
  <2>5. CASE db[id] = Absent
    <3>1. db' = [db EXCEPT ![id] = [wasm |-> node.spec.wasm, best |-> 0]]
      BY <1>3, <2>5 DEF new_partial
    <3>2. db'[id] = [wasm |-> runtime(id), best |-> 0]
      BY <2>2, <3>1 DEF NodeInv, DiskInv
    <3>3. db' = [i \in SpecId |-> db'[i]] /\ \A i \in SpecId \ {id} : db'[i] = db[i]
      BY <2>2, <3>1 DEF NodeInv, DiskInv
    <3>4. included[id] \in Nat
      BY <2>2 DEF NodeInv, DiskInv
    <3>5. /\ db'[id] = [wasm |-> runtime(id), best |-> db'[id].best]
          /\ db'[id].best \in Nat
          /\ db'[id].best <= included'[id] + UNINCLUDED_SEGMENT_CAPACITY
      BY <2>3, <3>2, <3>4 DEF UNINCLUDED_SEGMENT_CAPACITY
    <3>6. DiskInv'
      BY <2>2, <2>3, <3>3, <3>5 DEF NodeInv, DiskInv, DbOK
    <3>7. ProcessInv'
      BY <2>1, <2>3, <3>5 DEF NodeInv, ProcessInv, Phase, Opened, Connected, Synced, Following,
         DbOK
    <3> QED
      BY <2>1, <2>3, <3>6, <3>7 DEF NodeInv, BuildingInv
  <2> QED
    BY <2>4, <2>5
<1>4. CASE RunOnDatabase
  <2> DEFINE id == node.spec.id
  <2>1. /\ node.phase = "partial" /\ node.spec \in KnownSpec /\ DbOK(id)
        /\ "aura" \notin node.tasks
    BY <1>4 DEF RunOnDatabase, NodeInv, ProcessInv, Opened, Phase
  <2>2. id \in SpecId
    BY <2>1, KnownSpecs
  <2>3. files' \subseteq KnownSpec
    <3>1. [node.spec EXCEPT !.wasm = db[id].wasm] = node.spec
      BY <2>1, KnownSpecs DEF DbOK
    <3> QED
      BY <1>4, <2>1, <3>1 DEF RunOnDatabase, NodeInv, DiskInv
  <2>4. included' = included /\ included[id] \in Nat
    BY <1>4, <2>2 DEF RunOnDatabase, NodeInv, DiskInv
  <2>5. PICK best \in Nat : /\ best <= included[id] + UNINCLUDED_SEGMENT_CAPACITY
                            /\ db' = [db EXCEPT ![id].best = best] \/ db' = db
    <3>1. CASE node.command = "import-blocks" /\ CanGrow(id)
      <4>1. /\ db[id].best + 1 \in Nat
            /\ db[id].best + 1 <= included[id] + UNINCLUDED_SEGMENT_CAPACITY
        BY <2>1, <2>4, <3>1 DEF DbOK, CanGrow, UNINCLUDED_SEGMENT_CAPACITY
      <4>2. db' = [db EXCEPT ![id].best = db[id].best + 1]
        BY <1>4, <3>1 DEF RunOnDatabase
      <4> QED
        BY <4>1, <4>2
    <3>2. CASE node.command = "revert" /\ db[id].best > included[id]
      <4>1. /\ db[id].best - 1 \in Nat
            /\ db[id].best - 1 <= included[id] + UNINCLUDED_SEGMENT_CAPACITY
        BY <2>1, <2>4, <3>2 DEF DbOK, UNINCLUDED_SEGMENT_CAPACITY
      <4>2. db' = [db EXCEPT ![id].best = db[id].best - 1]
        BY <1>4, <3>2 DEF RunOnDatabase
      <4> QED
        BY <4>1, <4>2
    <3>3. CASE db' = db
      BY <2>1, <3>3 DEF DbOK
    <3> QED
      BY <1>4, <3>1, <3>2, <3>3 DEF RunOnDatabase
  <2>6. CASE db' = db
    BY <1>4, <2>1, <2>3, <2>4, <2>6, DownKeeps DEF RunOnDatabase, NodeInv, DiskInv, DbOK
  <2>7. CASE db' = [db EXCEPT ![id].best = best]
    <3>1. db'[id] = [wasm |-> runtime(id), best |-> best]
      BY <2>1, <2>2, <2>7 DEF NodeInv, DiskInv, DbOK
    <3>2. db' = [i \in SpecId |-> db'[i]] /\ \A i \in SpecId \ {id} : db'[i] = db[i]
      BY <2>2, <2>7 DEF NodeInv, DiskInv
    <3>3. DiskInv'
      BY <2>3, <2>4, <2>5, <3>1, <3>2 DEF NodeInv, DiskInv, DbOK
    <3> QED
      BY <1>4, <2>1, <3>3, DownKeeps DEF RunOnDatabase
  <2> QED
    BY <2>5, <2>6, <2>7
<1>5. ASSUME NEW from, NEW to, NEW tasks, Step(from, to, tasks)
      PROVE  node.phase = from
  BY <1>5 DEF Step
<1> USE DEF NodeInv, ProcessInv, Phase, Opened, Connected, Synced, Following
<1>6. CASE build_relay_chain_interface
  BY <1>5, <1>6, StepKeeps DEF build_relay_chain_interface
<1>7. CASE build_network
  BY <1>5, <1>7, StepKeeps DEF build_network
<1>8. CASE spawn_offchain_workers
  BY <1>5, <1>8, StepKeeps DEF spawn_offchain_workers
<1>9. CASE spawn_tasks
  BY <1>5, <1>9, StepKeeps DEF spawn_tasks
<1>10. CASE start_relay_chain_tasks
  BY <1>5, <1>10, StepKeeps DEF start_relay_chain_tasks
<1>11. CASE start_consensus
  BY <1>5, <1>11, StepKeeps DEF start_consensus
<1>12. CASE start_network
  BY <1>5, <1>12, StepKeeps DEF start_network
<1> QED
  BY <1>1, <1>2, <1>3, <1>4, <1>6, <1>7, <1>8, <1>9, <1>10, <1>11, <1>12 DEF StartStep

\* A process starts with one of the built-in specifications, by name or from a file it
\* exported.
LEMMA LaunchKeeps ==
    ASSUME NodeInv, UNCHANGED block, NEW command, NEW arg \in Args, NEW validator, NEW offchain,
           NEW relay \in RelayArg \cup {""}, Launch(command, arg, validator, offchain, relay)
    PROVE  NodeInv'
<1>1. load_spec(arg) \in KnownSpec
  <2>1. CASE \E f \in files \cup {Absent} : arg = [kind |-> "path", id |-> "", spec |-> f]
    <3>1. PICK f \in files \cup {Absent} : arg = [kind |-> "path", id |-> "", spec |-> f]
      BY <2>1
    <3>2. load_spec(arg) = f
      BY <3>1 DEF load_spec
    <3> QED
      BY <3>1, <3>2 DEF Launch, NodeInv, DiskInv
  <2>2. CASE \E i \in ChainArg : arg = [kind |-> "id", id |-> i, spec |-> Absent]
    <3>1. PICK i \in ChainArg : arg = [kind |-> "id", id |-> i, spec |-> Absent]
      BY <2>2
    <3>2. arg.kind # "path" /\ arg.id = i
      BY <3>1
    <3>3. CASE i \in {"dev", "devnet", "dev-paseo", "", "local"}
      BY <3>2, <3>3 DEF load_spec, KnownSpec
    <3>4. CASE i \in {"test", "testnet", "pop-paseo"}
      BY <3>2, <3>4 DEF load_spec, KnownSpec
    <3>5. CASE i \in {"pop", "mainnet", "pop-polkadot", "pop-network"}
      BY <3>2, <3>5 DEF load_spec, KnownSpec
    <3> QED
      BY <3>3, <3>4, <3>5, NodeAssumption
  <2> QED
    BY <2>1, <2>2 DEF Args
<1>2. /\ node.phase = "down"
      /\ node' = [phase |-> "configured", command |-> command, spec |-> load_spec(arg),
                  runtime |-> runtime(load_spec(arg).id),
                  relay |-> relay_chain_id(load_spec(arg), relay),
                  validator |-> validator, offchain |-> offchain, tasks |-> {}]
  BY DEF Launch, Down
<1>3. UNCHANGED <<files, db, included>>
  BY DEF Launch, disk
<1>4. relay_chain_id(load_spec(arg), relay)
        \in RelayArg \cup {load_spec(arg).extensions.relay_chain}
  BY DEF relay_chain_id
<1>5. ProcessInv'
  BY <1>1, <1>2, <1>4 DEF ProcessInv, Phase, Opened, Connected, Synced, Following
<1>6. DiskInv'
  BY <1>3 DEF NodeInv, DiskInv, DbOK
<1>7. block' = NoBlock
  BY <1>2 DEF NodeInv, ProcessInv, BuildingInv
<1> QED
  BY <1>5, <1>6, <1>7 DEF NodeInv, BuildingInv

\* The best block of a database grows by one, by a block there was room for.
LEMMA GrowKeeps ==
    ASSUME NodeInv, UNCHANGED <<node, files, included>>, node.phase \in Opened,
           block' = NoBlock,
           db[node.spec.id].best < included[node.spec.id] + UNINCLUDED_SEGMENT_CAPACITY,
           db' = [db EXCEPT ![node.spec.id].best = @ + 1]
    PROVE  NodeInv'
<1> DEFINE id == node.spec.id
<1>1. node.spec \in KnownSpec /\ DbOK(id)
  BY DEF NodeInv, ProcessInv, Opened
<1>2. id \in SpecId /\ included[id] \in Nat
  BY <1>1, KnownSpecs DEF NodeInv, DiskInv
<1>3. db'[id] = [wasm |-> runtime(id), best |-> db[id].best + 1]
  BY <1>1, <1>2 DEF NodeInv, DiskInv, DbOK
<1>4. db' = [i \in SpecId |-> db'[i]] /\ \A i \in SpecId \ {id} : db'[i] = db[i]
  BY <1>2 DEF NodeInv, DiskInv
<1>5. /\ db'[id] = [wasm |-> runtime(id), best |-> db'[id].best]
      /\ db'[id].best \in Nat
      /\ db'[id].best <= included'[id] + UNINCLUDED_SEGMENT_CAPACITY
  BY <1>1, <1>2, <1>3 DEF DbOK, UNINCLUDED_SEGMENT_CAPACITY
<1>6. DiskInv'
  BY <1>2, <1>4, <1>5 DEF NodeInv, DiskInv, DbOK
<1>7. ProcessInv'
  BY <1>5 DEF NodeInv, ProcessInv, DbOK
<1> QED
  BY <1>6, <1>7 DEF NodeInv, BuildingInv

\* The steps of block production.
LEMMA ProduceKeeps ==
    ASSUME NodeInv, Produces
    PROVE  NodeInv'
<1>1. ASSUME NEW v, NEW w, NEW x, StartBlock(v, w, x) PROVE NodeInv'
  <2>1. node.spec \in KnownSpec /\ DbOK(node.spec.id)
    BY <1>1 DEF StartBlock, NodeInv, ProcessInv, Opened, Phase
  <2>2. node.spec.id \in SpecId /\ included[node.spec.id] \in Nat
    BY <2>1, KnownSpecs DEF NodeInv, DiskInv
  <2>3. db[node.spec.id].best < included[node.spec.id] + UNINCLUDED_SEGMENT_CAPACITY
    BY <1>1, <2>1, <2>2 DEF StartBlock, can_build_upon, DbOK, UNINCLUDED_SEGMENT_CAPACITY
  <2>4. DiskInv' /\ ProcessInv'
    BY <1>1 DEF StartBlock, disk, NodeInv, DiskInv, ProcessInv, DbOK
  <2> QED
    BY <1>1, <2>3, <2>4 DEF StartBlock, disk, NodeInv, BuildingInv
<1>2. ASSUME UNCHANGED <<node, disk>>, block' # NoBlock => block # NoBlock PROVE NodeInv'
  BY <1>2 DEF disk, NodeInv, DiskInv, ProcessInv, BuildingInv, DbOK
<1>3. ASSUME NEW class, NEW w, ApplyExtrinsic(class, w) PROVE NodeInv'
  BY <1>2, <1>3 DEF ApplyExtrinsic, apply_extrinsic
<1>4. CASE NextSlot
  BY <1>2, <1>4 DEF NextSlot
<1>5. ASSUME NEW w, SealBlock(w) PROVE NodeInv'
  <2>1. node.phase \in Opened
    BY <1>5 DEF SealBlock, finalize_block, NodeInv, BuildingInv, ProcessInv, Opened, Phase
  <2> QED
    BY <1>5, <2>1, GrowKeeps DEF SealBlock, finalize_block, NodeInv, BuildingInv
<1>6. CASE ImportBlock
  <2>1. node.phase \in Opened
    BY <1>6 DEF ImportBlock, NodeInv, ProcessInv, Opened, Phase
  <2> QED
    BY <1>6, <2>1, GrowKeeps DEF ImportBlock, CanGrow
<1>7. ASSUME NEW id \in SpecId, RelayIncludes(id) PROVE NodeInv'
  <2>1. /\ included' = [included EXCEPT ![id] = @ + 1]
        /\ UNCHANGED <<node, files, db, block>>
    BY <1>7 DEF RelayIncludes
  <2>2. included \in [SpecId -> Nat]
    BY DEF NodeInv, DiskInv
  <2>3. included' \in [SpecId -> Nat] /\ \A i \in SpecId : included[i] <= included'[i]
    BY <2>1, <2>2
  <2>4. \A i \in SpecId :
           DbOK(i) => db[i].best <= included'[i] + UNINCLUDED_SEGMENT_CAPACITY
    BY <2>2, <2>3 DEF DbOK, UNINCLUDED_SEGMENT_CAPACITY
  <2>5. DiskInv'
    BY <2>1, <2>3, <2>4 DEF NodeInv, DiskInv, DbOK
  <2>6. node.phase # "down" => node.spec.id \in SpecId
    BY KnownSpecs DEF NodeInv, ProcessInv
  <2>7. node.phase \in Opened =>
           db[node.spec.id].best <= included'[node.spec.id] + UNINCLUDED_SEGMENT_CAPACITY
    BY <2>4, <2>6 DEF NodeInv, ProcessInv, Opened
  <2>8. ProcessInv'
    BY <2>1, <2>7 DEF NodeInv, ProcessInv, DbOK
  <2>9. BuildingInv'
    <3> SUFFICES ASSUME block # NoBlock PROVE BuildingInv'
      BY <2>1 DEF BuildingInv
    <3>1. "aura" \in node.tasks /\ node.phase \in Opened
      BY DEF NodeInv, BuildingInv, ProcessInv, Opened, Phase
    <3>2. db[node.spec.id].best \in Nat /\ node.spec.id \in SpecId
      BY <3>1, <2>6 DEF NodeInv, ProcessInv, DbOK, Opened
    <3>3. db[node.spec.id].best < included[node.spec.id] + UNINCLUDED_SEGMENT_CAPACITY
      BY DEF NodeInv, BuildingInv
    <3> QED
      BY <2>1, <2>2, <2>3, <3>1, <3>2, <3>3 DEF BuildingInv, UNINCLUDED_SEGMENT_CAPACITY
  <2> QED
    BY <2>5, <2>8, <2>9 DEF NodeInv
<1> QED
  BY <1>1, <1>3, <1>4, <1>5, <1>6, <1>7 DEF Produces

\* The invariant of the process, its disk and the block it builds.
LEMMA NodeInvariant == Spec => []NodeInv
<1>1. Init => NodeInv
  <2> SUFFICES ASSUME NodeInit, block = NoBlock PROVE NodeInv
    BY DEF Init, CollatorInit
  <2>1. DiskInv
    BY DEF NodeInit, DiskInv
  <2>2. ProcessInv
    BY DEF NodeInit, Down, ProcessInv, Phase, Opened, Connected, Synced, Following
  <2> QED
    BY <2>1, <2>2 DEF NodeInv, BuildingInv
<1>2. NodeInv /\ [Next]_vars => NodeInv'
  <2> SUFFICES ASSUME NodeInv, [Next]_vars PROVE NodeInv'
    OBVIOUS
  <2>1. CASE Starts
    BY <2>1, StartKeeps
  <2>2. CASE RunSubcommand /\ UNCHANGED <<block, authored>>
    BY <2>2, LaunchKeeps DEF RunSubcommand
  <2>3. CASE RunService /\ UNCHANGED <<block, authored>>
    BY <2>3, LaunchKeeps DEF RunService
  <2>4. CASE RunCollator /\ UNCHANGED <<block, authored>>
    <3>1. \A i \in ChainArg : [kind |-> "id", id |-> i, spec |-> Absent] \in Args
      BY DEF Args
    <3> QED
      BY <2>4, <3>1, LaunchKeeps DEF RunCollator
  <2>5. CASE Ends
    <3>1. DiskInv'
      BY <2>5 DEF Ends, Exit, Stop, disk, NodeInv, DiskInv, DbOK
    <3> QED
      BY <2>5, <3>1, DownKeeps DEF Ends, Exit, Stop
  <2>6. CASE Produces
    BY <2>6, ProduceKeeps
  <2>7. CASE UNCHANGED collatorVars
    BY <2>7 DEF collatorVars, disk, NodeInv, DiskInv, ProcessInv, BuildingInv, DbOK
  <2> QED
    BY <2>1, <2>2, <2>3, <2>4, <2>5, <2>6, <2>7 DEF Next, vars, NodeStarts, NodeCommanded,
       NodeProduces, InXcm, InProxies, InUpgrade
<1> QED
  BY <1>1, <1>2, PTL DEF Spec

\* The node always runs the code of the chain it opened, and names that chain's relay
\* chain and parachain id (runtime, load_spec, configure_for_relay).
THEOREM RuntimeIsRight == Spec => []RightRuntime
  BY NodeInvariant, NodeInvSuffices, PTL

\* Blocks are built by following authorities only, and the unincluded segment is never
\* exceeded, whatever crashes, restarts and imports come between (start_node_impl).
THEOREM CollatorIsSafe == Spec => []CollatorSafe
  BY NodeInvariant, NodeInvSuffices, PTL
-----------------------------------------------------------------------------
(* Cross-consensus messages. *)

\* The locations and accounts are finitely many.
LEMMA FiniteParties ==
    /\ IsFiniteSet(Reserve) /\ IsFiniteSet(Chain) /\ IsFiniteSet(Location) /\ IsFiniteSet(Holder)
<1>1. ASSUME NEW S, IsFiniteSet(S), NEW x PROVE IsFiniteSet(S \cup {x})
  BY <1>1, FS_AddElement
<1>2. IsFiniteSet({})
  BY FS_EmptySet
<1>3. IsFiniteSet({"Relay", "AssetHub"})
  <2>1. IsFiniteSet({} \cup {"Relay"})
    BY <1>1, <1>2
  <2>2. IsFiniteSet(({} \cup {"Relay"}) \cup {"AssetHub"})
    BY <1>1, <2>1
  <2>3. ({} \cup {"Relay"}) \cup {"AssetHub"} = {"Relay", "AssetHub"}
    OBVIOUS
  <2> QED
    BY <2>2, <2>3
<1>4. IsFiniteSet(Chain)
  <2>1. IsFiniteSet(Reserve \cup {"RelayExecutive"})
    BY <1>1, <1>3 DEF Reserve
  <2>2. IsFiniteSet((Reserve \cup {"RelayExecutive"}) \cup {"Sibling"})
    BY <1>1, <2>1
  <2>3. (Reserve \cup {"RelayExecutive"}) \cup {"Sibling"} = Chain
    BY DEF Chain
  <2> QED
    BY <2>2, <2>3
<1>5. IsFiniteSet(Location)
  BY <1>1, <1>4 DEF Location
<1>6. IsFiniteSet(Holder)
  <2>1. IsFiniteSet(Reserve \cup {"Sibling"})
    BY <1>1, <1>3 DEF Reserve
  <2>2. IsFiniteSet((Reserve \cup {"Sibling"}) \cup {"author"})
    BY <1>1, <2>1
  <2>3. IsFiniteSet(((Reserve \cup {"Sibling"}) \cup {"author"}) \cup {"sudo"})
    BY <1>1, <2>2
  <2>4. IsFiniteSet((((Reserve \cup {"Sibling"}) \cup {"author"}) \cup {"sudo"}) \cup {User})
    BY <1>1, <2>3
  <2>5. (((Reserve \cup {"Sibling"}) \cup {"author"}) \cup {"sudo"}) \cup {User} = Holder
    BY DEF Holder, Reserve
  <2> QED
    BY <2>4, <2>5
<1> QED
  BY <1>3, <1>4, <1>5, <1>6 DEF Reserve

\* What the entries of a trap are worth: an amount times how often it is there.
Pool(t) == SumFunction([n \in DOMAIN t |-> n * t[n]])

Trap(a) == SumFunction([l \in Location |-> Pool(a[l])])

\* The worth of a trap grows with an entry by its amount.
LEMMA PoolSums ==
    ASSUME NEW m \in Nat, NEW t \in [1..m -> Nat], NEW u \in [1..m -> Nat]
    PROVE  /\ Pool(t) \in Nat /\ Pool(u) \in Nat
           /\ \A n \in 1..m : (u[n] = t[n] + 1 /\ \A k \in (1..m) \ {n} : u[k] = t[k])
                 => Pool(u) = Pool(t) + n
<1>0. IsFiniteSet(1..m)
  BY Interval
<1>1. ASSUME NEW s \in [1..m -> Nat]
      PROVE  [k \in DOMAIN s |-> k * s[k]] \in [1..m -> Nat]
  <2>1. \A k \in 1..m : k * s[k] \in Nat
    OBVIOUS
  <2> QED
    BY <2>1
<1>2. ASSUME NEW s \in [1..m -> Nat] PROVE Pool(s) \in Nat
  <2>1. PICK f \in [1..m -> Nat] : f = [k \in DOMAIN s |-> k * s[k]]
    BY <1>1
  <2>2. SumFunction(f) \in Nat
    BY ONLY <1>0, f \in [1..m -> Nat], SumNat
  <2> QED
    BY <2>1, <2>2 DEF Pool
<1>3. ASSUME NEW n \in 1..m, u[n] = t[n] + 1, \A k \in (1..m) \ {n} : u[k] = t[k]
      PROVE  Pool(u) = Pool(t) + n
  <2>1. PICK f \in [1..m -> Nat] : f = [k \in DOMAIN t |-> k * t[k]]
    BY <1>1
  <2>2. PICK g \in [1..m -> Nat] : g = [k \in DOMAIN u |-> k * u[k]]
    BY <1>1
  <2>3. f[n] = n * t[n] /\ g[n] = n * u[n]
    BY <1>3, <2>1, <2>2
  <2>4. \A k \in (1..m) \ {n} : g[k] = f[k]
    BY <1>3, <2>1, <2>2
  <2>5. SumFunction(f) \in Nat /\ SumFunction(g) = SumFunction(f) + g[n] - f[n]
    <3>1. f \in [1..m -> Nat] /\ g \in [1..m -> Nat] /\ n \in 1..m
      OBVIOUS
    <3> QED
      BY ONLY <1>0, <3>1, <2>4, SumMoves
  <2>6. g[n] = f[n] + n
    <3>1. n \in Nat /\ t[n] \in Nat
      OBVIOUS
    <3>2. n * (t[n] + 1) = n * t[n] + n
      BY <3>1, Times
    <3> QED
      BY <1>3, <2>3, <3>2
  <2>7. f[n] \in Nat /\ n \in Nat
    OBVIOUS
  <2>8. SumFunction(g) = SumFunction(f) + n
    BY ONLY <2>5, <2>6, <2>7
  <2> QED
    BY <2>1, <2>2, <2>8 DEF Pool
<1>4. Pool(t) \in Nat /\ Pool(u) \in Nat
  BY <1>2
<1> QED
  BY <1>3, <1>4

\* SumMoves for the accounts, the reserves and the locations.
LEMMA HolderSums ==
    ASSUME NEW f \in [Holder -> Nat], NEW g \in [Holder -> Nat], NEW a \in Holder,
           \A k \in Holder \ {a} : g[k] = f[k]
    PROVE  /\ SumFunction(f) \in Nat /\ SumFunction(g) \in Nat
           /\ SumFunction(g) = SumFunction(f) + g[a] - f[a]
<1>1. IsFiniteSet(Holder)
  BY FiniteParties
<1> QED
  BY <1>1, SumMoves

LEMMA ReserveSums ==
    ASSUME NEW f \in [Reserve -> Nat], NEW g \in [Reserve -> Nat], NEW a \in Reserve,
           \A k \in Reserve \ {a} : g[k] = f[k]
    PROVE  /\ SumFunction(f) \in Nat /\ SumFunction(g) \in Nat
           /\ SumFunction(g) = SumFunction(f) + g[a] - f[a]
<1>1. IsFiniteSet(Reserve)
  BY FiniteParties
<1> QED
  BY <1>1, SumMoves

LEMMA LocationSums ==
    ASSUME NEW f \in [Location -> Nat], NEW g \in [Location -> Nat], NEW l \in Location,
           \A k \in Location \ {l} : g[k] = f[k]
    PROVE  SumFunction(f) \in Nat /\ SumFunction(g) = SumFunction(f) + g[l] - f[l]
<1>1. IsFiniteSet(Location)
  BY FiniteParties
<1> QED
  BY <1>1, SumMoves

\* The same for the traps of all locations.
LEMMA TrapSums ==
    ASSUME NEW a \in [Location -> [1..MaxHeld -> Nat]], NEW b \in [Location -> [1..MaxHeld -> Nat]]
    PROVE  /\ Trap(a) \in Nat /\ Trap(b) \in Nat
           /\ \A l \in Location, n \in 1..MaxHeld :
                 /\ \A k \in Location \ {l} : b[k] = a[k]
                 /\ \A k \in (1..MaxHeld) \ {n} : b[l][k] = a[l][k]
                 /\ b[l][n] = a[l][n] + 1
                 => Trap(b) = Trap(a) + n
<1>0. MaxHeld \in Nat
  BY XcmAssumption
<1>1. IsFiniteSet(Location)
  BY FiniteParties
<1>2. ASSUME NEW s \in [Location -> [1..MaxHeld -> Nat]]
      PROVE  [k \in Location |-> Pool(s[k])] \in [Location -> Nat]
  <2>1. \A k \in Location : Pool(s[k]) \in Nat
    BY <1>0, PoolSums
  <2> QED
    BY <2>1
<1>3. ASSUME NEW s \in [Location -> [1..MaxHeld -> Nat]] PROVE Trap(s) \in Nat
  <2>1. PICK f \in [Location -> Nat] : f = [k \in Location |-> Pool(s[k])]
    BY <1>2
  <2>2. SumFunction(f) \in Nat
    BY ONLY <1>1, f \in [Location -> Nat], SumNat
  <2> QED
    BY <2>1, <2>2 DEF Trap
<1>4. ASSUME NEW l \in Location, NEW n \in 1..MaxHeld,
             \A k \in Location \ {l} : b[k] = a[k],
             \A k \in (1..MaxHeld) \ {n} : b[l][k] = a[l][k],
             b[l][n] = a[l][n] + 1
      PROVE  Trap(b) = Trap(a) + n
  <2>1. PICK f \in [Location -> Nat] : f = [k \in Location |-> Pool(a[k])]
    BY <1>2
  <2>2. PICK g \in [Location -> Nat] : g = [k \in Location |-> Pool(b[k])]
    BY <1>2
  <2>3. f[l] = Pool(a[l]) /\ g[l] = Pool(b[l])
    BY <2>1, <2>2
  <2>4. \A k \in Location \ {l} : g[k] = f[k]
    BY <1>4, <2>1, <2>2
  <2>5. SumFunction(f) \in Nat /\ SumFunction(g) = SumFunction(f) + g[l] - f[l]
    <3>1. f \in [Location -> Nat] /\ g \in [Location -> Nat] /\ l \in Location
      OBVIOUS
    <3> QED
      BY ONLY <3>1, <2>4, LocationSums
  <2>6. g[l] = f[l] + n
    <3>1. PICK t \in [1..MaxHeld -> Nat], u \in [1..MaxHeld -> Nat] : t = a[l] /\ u = b[l]
      OBVIOUS
    <3>2. u[n] = t[n] + 1 /\ \A k \in (1..MaxHeld) \ {n} : u[k] = t[k]
      BY <1>4, <3>1
    <3>3. Pool(u) = Pool(t) + n
      <4>1. /\ MaxHeld \in Nat /\ t \in [1..MaxHeld -> Nat] /\ u \in [1..MaxHeld -> Nat]
            /\ n \in 1..MaxHeld
        BY <1>0
      <4> QED
        BY ONLY <3>2, <4>1, PoolSums
    <3> QED
      BY <2>3, <3>1, <3>3
  <2>7. f[l] \in Nat /\ n \in Nat
    OBVIOUS
  <2>8. SumFunction(g) = SumFunction(f) + n
    BY ONLY <2>5, <2>6, <2>7
  <2> QED
    BY <2>1, <2>2, <2>8 DEF Trap
<1>5. Trap(a) \in Nat /\ Trap(b) \in Nat
  BY <1>3
<1> QED
  BY <1>4, <1>5

\* The messages sent to other chains.
Message ==
    [to : STRING \cup Location, n : Nat, op : {"WithdrawAsset", "ReceiveTeleportedAsset"}]

\* What a message to a reserve asks for, and what a program from one announces.
Asked == [m \in Message |-> IF m.op = "WithdrawAsset" THEN m.n ELSE 0]

Told == [p \in Program |-> IF p[1].op = "ReserveAssetDeposited" THEN p[1].n ELSE 0]

\* What is on its way from each chain.
Incoming == [c \in Chain |-> Promised(c) + Pending(c)]

\* The types of the messages part.
XcmTypes ==
    /\ balance \in [Holder -> Nat]
    /\ held \in [Reserve -> Nat]
    /\ inbox \in [Chain -> Seq(Program)]
    /\ outbox \in Seq(Message)
    /\ exec = Nobody \/ exec \in Execution
    /\ trapped \in [Location -> [1..MaxHeld -> Nat]]

\* What messages and programs are worth is a natural number, and a program has a first instruction.
LEMMA Worths ==
    /\ Asked \in [Message -> Nat]
    /\ Told \in [Program -> Nat]
    /\ \A p \in Program : p \in Seq(Instruction) /\ Len(p) \in Nat \ {0} /\ 1 \in DOMAIN p /\ Head(p) = p[1]
                          /\ p[1] \in Instruction /\ p[1].n \in Nat
<1>1. \A p \in Program : p \in Seq(Instruction) /\ Len(p) \in Nat \ {0} /\ 1 \in DOMAIN p /\ Head(p) = p[1]
                          /\ p[1] \in Instruction
  BY XcmAssumption
<1>2. \A i \in Instruction : i.n \in Nat
  BY DEF Instruction
<1>3. Told \in [Program -> Nat]
  BY <1>1, <1>2 DEF Told
<1>4. Asked \in [Message -> Nat]
  BY DEF Asked, Message
<1> QED
  BY <1>1, <1>2, <1>3, <1>4

\* The sums of Backed, in terms of the types.
LEMMA Readings ==
    ASSUME XcmTypes
    PROVE  /\ Withdrawn = Worth(Asked, outbox) /\ Withdrawn \in Nat
           /\ Trapped = Trap(trapped) /\ Trapped \in Nat
           /\ \A c \in Chain : Promised(c) = IF c \in Reserve THEN Worth(Told, inbox[c]) ELSE 0
           /\ \A c \in Chain : Promised(c) \in Nat /\ Pending(c) \in Nat
           /\ Incoming \in [Chain -> Nat] /\ SumFunction(Incoming) \in Nat
           /\ InExecution \in Nat /\ SumFunction(balance) \in Nat /\ SumFunction(held) \in Nat
<1>1. Withdrawn = Worth(Asked, outbox)
  <2>1. \A i \in DOMAIN outbox : outbox[i] \in Message
    BY DEF XcmTypes
  <2>2. [i \in DOMAIN outbox |-> IF outbox[i].op = "WithdrawAsset" THEN outbox[i].n ELSE 0]
          = [i \in DOMAIN outbox |-> Asked[outbox[i]]]
    BY <2>1 DEF Asked
  <2> QED
    BY <2>2 DEF Withdrawn, Worth
<1>2. Withdrawn \in Nat
  BY <1>1, Worths, WorthSums DEF XcmTypes
<1>3. Trapped = Trap(trapped) /\ Trapped \in Nat
  <2>1. Trapped = Trap(trapped)
    BY DEF Trapped, Trap, Pool
  <2> QED
    BY <2>1, TrapSums DEF XcmTypes
<1>4. ASSUME NEW c \in Chain
      PROVE  Promised(c) = (IF c \in Reserve THEN Worth(Told, inbox[c]) ELSE 0) /\ Promised(c) \in Nat
  <2>1. PICK q \in Seq(Program) : q = inbox[c]
    BY DEF XcmTypes
  <2>2. \A i \in DOMAIN q : q[i] \in Program
    OBVIOUS
  <2>3. [i \in DOMAIN q |-> IF q[i][1].op = "ReserveAssetDeposited" THEN q[i][1].n ELSE 0]
          = [i \in DOMAIN q |-> Told[q[i]]]
    BY <2>2 DEF Told
  <2>4. Promised(c) = IF c \in Reserve THEN Worth(Told, q) ELSE 0
    BY <2>1, <2>3 DEF Promised, Worth
  <2>5. Worth(Told, q) \in Nat
    BY Worths, WorthSums
  <2> QED
    BY <2>1, <2>4, <2>5
<1>5. ASSUME NEW c \in Chain PROVE Pending(c) \in Nat
  <2>1. CASE exec \in Execution /\ exec.rest # <<>>
    <3>1. exec.rest \in Seq(Instruction)
      BY <2>1 DEF Execution
    <3>2. exec.rest[1] \in Instruction
      BY <2>1, <3>1
    <3> QED
      BY <3>2 DEF Pending, Instruction
  <2>2. CASE exec = Nobody \/ exec.rest = <<>>
    BY <2>2 DEF Pending
  <2> QED
    BY <2>1, <2>2 DEF XcmTypes
<1>6. Incoming \in [Chain -> Nat]
  BY <1>4, <1>5 DEF Incoming
<1>7. SumFunction(Incoming) \in Nat
  BY <1>6, FiniteParties, SumNat
<1>8. InExecution \in Nat
  BY DEF InExecution, XcmTypes, Execution
<1>9. SumFunction(balance) \in Nat /\ SumFunction(held) \in Nat
  BY FiniteParties, SumNat DEF XcmTypes
<1> QED
  BY <1>1, <1>2, <1>3, <1>4, <1>5, <1>6, <1>7, <1>8, <1>9

\* The same, as predicates of a state and of the next one.
AmountsTyped ==
    /\ Withdrawn = Worth(Asked, outbox) /\ Withdrawn \in Nat
    /\ Trapped = Trap(trapped) /\ Trapped \in Nat
    /\ \A c \in Chain : Promised(c) = IF c \in Reserve THEN Worth(Told, inbox[c]) ELSE 0
    /\ \A c \in Chain : Promised(c) \in Nat /\ Pending(c) \in Nat
    /\ Incoming \in [Chain -> Nat] /\ SumFunction(Incoming) \in Nat
    /\ InExecution \in Nat /\ SumFunction(balance) \in Nat /\ SumFunction(held) \in Nat

LEMMA AmountsNow == XcmTypes => AmountsTyped
  BY Readings DEF AmountsTyped

LEMMA AmountsNext == XcmTypes' => AmountsTyped'
  BY AmountsNow, PTL

\* SumMoves for the chains.
LEMMA ChainSums ==
    ASSUME NEW f \in [Chain -> Nat], NEW g \in [Chain -> Nat], NEW c \in Chain,
           \A k \in Chain \ {c} : g[k] = f[k]
    PROVE  /\ SumFunction(f) \in Nat /\ SumFunction(g) \in Nat
           /\ SumFunction(g) = SumFunction(f) + g[c] - f[c]
<1>1. IsFiniteSet(Chain)
  BY FiniteParties
<1> QED
  BY <1>1, SumMoves

\* What is on its way changes with what is on its way from one chain.
LEMMA IncomingMoves ==
    ASSUME XcmTypes, XcmTypes', NEW c \in Chain,
           \A k \in Chain \ {c} : Promised(k)' + Pending(k)' = Promised(k) + Pending(k)
    PROVE  SumFunction(Incoming)' = SumFunction(Incoming) + (Promised(c)' + Pending(c)')
                                       - (Promised(c) + Pending(c))
<1>1. Incoming \in [Chain -> Nat] /\ Incoming' \in [Chain -> Nat]
  BY AmountsNow, AmountsNext DEF AmountsTyped
<1>2. PICK f \in [Chain -> Nat], g \in [Chain -> Nat] : f = Incoming /\ g = Incoming'
  BY <1>1
<1>3. \A k \in Chain : f[k] = Promised(k) + Pending(k) /\ g[k] = Promised(k)' + Pending(k)'
  BY <1>2 DEF Incoming
<1>4. \A k \in Chain \ {c} : g[k] = f[k]
  BY <1>3
<1>5. SumFunction(g) = SumFunction(f) + g[c] - f[c]
  BY ONLY <1>4, c \in Chain, f \in [Chain -> Nat], g \in [Chain -> Nat], ChainSums
<1> QED
  BY <1>2, <1>3, <1>5

\* The reserves announce a deposit once, first of all, and a Transact names a kind.
Honest ==
    /\ \A c \in Reserve : \A i \in DOMAIN inbox[c] : Announced(inbox[c][i]) \subseteq {1}
    /\ exec # Nobody =>
          /\ exec.origin \in Reserve => Announced(exec.rest) \subseteq {1}
          /\ \A i \in DOMAIN exec.rest :
                exec.rest[i].op = "Transact" => exec.rest[i].at \in OriginKind

\* The inductive invariant.
XcmInv == XcmTypes /\ Honest /\ SumFunction(held) <= MaxHeld /\ Backed

\* A deposit the program in execution has announced.
Due == IF exec # Nobody /\ exec.origin \in Chain THEN Pending(exec.origin) ELSE 0

\* Once the deposit due is out of the way, that much less is on its way.
LEMMA Settled ==
    ASSUME XcmTypes, XcmTypes', exec # Nobody, inbox' = inbox,
           \A c \in Chain : Pending(c)' = 0
    PROVE  SumFunction(Incoming)' = SumFunction(Incoming) - Due /\ Due \in Nat
<1>0. AmountsTyped /\ AmountsTyped'
  BY AmountsNow, AmountsNext
<1>1. \A c \in Chain : Promised(c)' = Promised(c) /\ Promised(c) \in Nat
  BY <1>0 DEF AmountsTyped
<1>2. \A c \in Chain : c # exec.origin => Pending(c) = 0
  BY DEF Pending
<1>3. CASE exec.origin \in Chain
  <2>1. PICK c \in Chain : c = exec.origin
    BY <1>3
  <2>2. SumFunction(Incoming)' = SumFunction(Incoming) + (Promised(c)' + Pending(c)')
                                       - (Promised(c) + Pending(c))
    BY <1>1, <1>2, <2>1, IncomingMoves
  <2>3. Due = Pending(c) /\ Pending(c) \in Nat /\ Pending(c)' = 0
    BY <1>0, <1>3, <2>1 DEF Due, AmountsTyped
  <2>4. SumFunction(Incoming) \in Nat
    BY <1>0 DEF AmountsTyped
  <2> QED
    BY <1>1, <2>2, <2>3, <2>4
<1>4. CASE exec.origin \notin Chain
  <2>1. Due = 0
    BY <1>4 DEF Due
  <2>2. \A c \in Chain : Promised(c)' + Pending(c)' = Promised(c) + Pending(c)
    BY <1>1, <1>2, <1>4
  <2>3. Incoming' = Incoming
    BY <2>2 DEF Incoming
  <2>4. SumFunction(Incoming) \in Nat
    BY <1>0 DEF AmountsTyped
  <2> QED
    BY <2>1, <2>3, <2>4
<1> QED
  BY <1>3, <1>4

\* The rest of a program announces nothing more.
LEMMA Continues ==
    ASSUME XcmTypes, Honest, exec # Nobody, exec.rest # <<>>, NEW h \in Nat, NEW f \in Nat,
           exec' = Continue(h, f), inbox' = inbox
    PROVE  /\ exec' \in Execution /\ exec' # Nobody /\ Honest' /\ InExecution' = h + f
           /\ \A c \in Chain : Pending(c)' = 0
<1>1. exec \in Execution /\ exec.rest \in Seq(Instruction) /\ exec.origin \in Location
  BY DEF XcmTypes, Execution
<1>2. exec' = [origin |-> exec.origin, rest |-> Tail(exec.rest), holding |-> h, fee |-> f]
  BY DEF Continue
<1>3. PICK p \in Seq(Instruction) : p = exec.rest /\ p # <<>>
  BY <1>1
<1>4. /\ Tail(p) \in Seq(Instruction)
      /\ \A i \in DOMAIN Tail(p) : i + 1 \in DOMAIN p /\ i + 1 # 1 /\ Tail(p)[i] = p[i + 1]
  BY <1>3
<1>5. exec' \in Execution /\ exec' # Nobody
  <2>1. exec' \in Execution
    BY <1>1, <1>2, <1>3, <1>4 DEF Execution
  <2> QED
    BY <2>1, NobodyAssumption
<1>6. exec.origin \in Reserve => \A i \in DOMAIN Tail(p) : Tail(p)[i].op # "ReserveAssetDeposited"
  BY <1>3, <1>4 DEF Honest, Announced
<1>7. \A i \in DOMAIN Tail(p) : Tail(p)[i].op = "Transact" => Tail(p)[i].at \in OriginKind
  BY <1>3, <1>4 DEF Honest
<1>8. exec'.origin = exec.origin /\ exec'.rest = Tail(p) /\ exec'.holding = h /\ exec'.fee = f
  BY <1>2, <1>3
<1>9. Honest'
  BY <1>6, <1>7, <1>8 DEF Honest, Announced
<1>10. ASSUME NEW c \in Chain PROVE Pending(c)' = 0
  <2>1. CASE c \in Reserve /\ exec.origin = c /\ Tail(p) # <<>>
    <3>1. 1 \in DOMAIN Tail(p)
      BY <1>4, <2>1
    <3> QED
      BY <1>6, <1>8, <2>1, <3>1 DEF Pending
  <2>2. CASE ~ (c \in Reserve /\ exec.origin = c /\ Tail(p) # <<>>)
    BY <1>8, <2>2 DEF Pending
  <2> QED
    BY <2>1, <2>2
<1> QED
  BY <1>5, <1>8, <1>9, <1>10 DEF InExecution

\* What is owed here.
Owed == SumFunction(balance) + InExecution + Trapped + Withdrawn + SumFunction(Incoming)

\* Backed says that what is owed is held, now and in the next state.
LEMMA BackedNow == Backed <=> Owed <= SumFunction(held)
  BY DEF Backed, Owed, Incoming

LEMMA BackedNext == Backed' <=> Owed' <= SumFunction(held)'
  BY DEF Backed, Owed, Incoming

\* A step that adds no more to what is owed than to what is held keeps the token backed.
LEMMA StaysBacked ==
    ASSUME XcmTypes, XcmTypes', Backed, Owed' - Owed <= SumFunction(held)' - SumFunction(held)
    PROVE  Backed'
<1>1. AmountsTyped /\ AmountsTyped'
  BY AmountsNow, AmountsNext
<1>2. Owed \in Nat /\ Owed' \in Nat /\ SumFunction(held) \in Nat /\ SumFunction(held)' \in Nat
  BY <1>1 DEF AmountsTyped, Owed
<1> QED
  BY <1>2, BackedNow, BackedNext

\* What is owed changes by the changes of its parts.
LEMMA OwedChange ==
    ASSUME XcmTypes, XcmTypes'
    PROVE  /\ Owed' - Owed = (SumFunction(balance)' - SumFunction(balance)) + (InExecution' - InExecution)
                + (Trapped' - Trapped) + (Withdrawn' - Withdrawn)
                + (SumFunction(Incoming)' - SumFunction(Incoming))
<1>1. AmountsTyped /\ AmountsTyped'
  BY AmountsNow, AmountsNext
<1> QED
  BY <1>1 DEF AmountsTyped, Owed

\* The fees of a message go to an account (XcmConfig).
LEMMA FeesHeld ==
    ASSUME NEW rt \in {"devnet", "testnet", "mainnet"}
    PROVE  XcmConfig[rt].fees \in Holder
  BY DEF XcmConfig, DevnetXcm, TestnetXcm, MainnetXcm, Holder

\* An account is paid n, or pays n.
LEMMA Paid ==
    ASSUME XcmTypes, NEW x \in Holder, NEW n \in Int, balance[x] + n \in Nat,
           balance' = [balance EXCEPT ![x] = balance[x] + n]
    PROVE  /\ balance' \in [Holder -> Nat]
           /\ SumFunction(balance) \in Nat /\ SumFunction(balance)' \in Nat
           /\ SumFunction(balance)' - SumFunction(balance) = n
<1>1. PICK f \in [Holder -> Nat] : f = balance
  BY DEF XcmTypes
<1>2. PICK g : g = [f EXCEPT ![x] = f[x] + n] /\ g = balance'
  BY <1>1
<1>3. f[x] + n \in Nat
  BY <1>1
<1>4. g \in [Holder -> Nat] /\ g[x] = f[x] + n /\ \A k \in Holder \ {x} : g[k] = f[k]
  BY <1>2, <1>3
<1>5. /\ SumFunction(f) \in Nat /\ SumFunction(g) \in Nat
      /\ SumFunction(g) = SumFunction(f) + g[x] - f[x] /\ f[x] \in Nat
  BY ONLY <1>4, f \in [Holder -> Nat], x \in Holder, HolderSums
<1>6. SumFunction(g) - SumFunction(f) = n
  BY ONLY <1>4, <1>5, n \in Int
<1> QED
  BY ONLY <1>1, <1>2, <1>4, <1>5, <1>6

\* An entry of n is made in a trap, or taken.
Entered(a, l, n) == [a EXCEPT ![l] = [a[l] EXCEPT ![n] = a[l][n] + 1]]

Removed(a, l, n) == [a EXCEPT ![l] = [a[l] EXCEPT ![n] = a[l][n] - 1]]

\* An entry adds its amount to the traps; taking it takes the amount out.
LEMMA TrapEntered ==
    ASSUME NEW a \in [Location -> [1..MaxHeld -> Nat]], NEW l \in Location, NEW n \in 1..MaxHeld
    PROVE  /\ Entered(a, l, n) \in [Location -> [1..MaxHeld -> Nat]]
           /\ Trap(a) \in Nat /\ Trap(Entered(a, l, n)) = Trap(a) + n
<1>1. PICK t \in [1..MaxHeld -> Nat] : t = a[l]
  OBVIOUS
<1>2. PICK u : u = [t EXCEPT ![n] = t[n] + 1]
  OBVIOUS
<1>3. u \in [1..MaxHeld -> Nat] /\ u[n] = t[n] + 1 /\ \A j \in (1..MaxHeld) \ {n} : u[j] = t[j]
  BY <1>1, <1>2
<1>4. PICK b : b = Entered(a, l, n)
  OBVIOUS
<1>5. b = [a EXCEPT ![l] = u]
  BY <1>1, <1>2, <1>4 DEF Entered
<1>6. /\ b \in [Location -> [1..MaxHeld -> Nat]] /\ b[l] = u
      /\ \A k \in Location \ {l} : b[k] = a[k]
  BY <1>3, <1>5
<1>7. /\ \A j \in (1..MaxHeld) \ {n} : b[l][j] = a[l][j]
      /\ b[l][n] = a[l][n] + 1
  BY <1>1, <1>3, <1>6
<1>8. Trap(a) \in Nat /\ Trap(b) = Trap(a) + n
  BY ONLY <1>6, <1>7, a \in [Location -> [1..MaxHeld -> Nat]], l \in Location,
          n \in 1..MaxHeld, TrapSums
<1> QED
  BY <1>4, <1>6, <1>8

LEMMA TrapRemoved ==
    ASSUME NEW a \in [Location -> [1..MaxHeld -> Nat]], NEW l \in Location, NEW n \in 1..MaxHeld,
           a[l][n] > 0
    PROVE  /\ Removed(a, l, n) \in [Location -> [1..MaxHeld -> Nat]]
           /\ Trap(Removed(a, l, n)) \in Nat /\ Trap(a) = Trap(Removed(a, l, n)) + n
<1>1. PICK t \in [1..MaxHeld -> Nat] : t = a[l] /\ t[n] > 0
  OBVIOUS
<1>2. PICK u : u = [t EXCEPT ![n] = t[n] - 1]
  OBVIOUS
<1>3. /\ u \in [1..MaxHeld -> Nat] /\ u[n] = t[n] - 1 /\ t[n] \in Nat
      /\ \A j \in (1..MaxHeld) \ {n} : t[j] = u[j]
  <2>1. t[n] - 1 \in Nat
    BY <1>1
  <2> QED
    BY <1>1, <1>2, <2>1
<1>4. PICK b : b = Removed(a, l, n)
  OBVIOUS
<1>5. b = [a EXCEPT ![l] = u]
  BY <1>1, <1>2, <1>4 DEF Removed
<1>6. /\ b \in [Location -> [1..MaxHeld -> Nat]] /\ b[l] = u
      /\ \A k \in Location \ {l} : a[k] = b[k]
  BY <1>3, <1>5
<1>7. t[n] = u[n] + 1
  BY ONLY <1>3
<1>8. /\ \A j \in (1..MaxHeld) \ {n} : a[l][j] = b[l][j]
      /\ a[l][n] = b[l][n] + 1
  BY <1>1, <1>3, <1>6, <1>7
<1>9. Trap(b) \in Nat /\ Trap(a) = Trap(b) + n
  BY ONLY <1>6, <1>8, a \in [Location -> [1..MaxHeld -> Nat]], l \in Location,
          n \in 1..MaxHeld, TrapSums
<1> QED
  BY <1>4, <1>6, <1>9

\* A program ends: its fee is paid and what it held is trapped.
LEMMA EndProgramStep ==
    ASSUME XcmInv, exec # Nobody, NEW rt \in {"devnet", "testnet", "mainnet"}, EndProgram(rt)
    PROVE  XcmInv'
<1> DEFINE to == XcmConfig[rt].fees
<1>0. XcmTypes /\ Honest /\ Backed /\ exec \in Execution
  BY DEF XcmInv, XcmTypes
<1>1. /\ exec.fee \in Nat /\ exec.holding \in Nat /\ exec.origin \in Location
      /\ InExecution = exec.holding + exec.fee
  BY <1>0 DEF Execution, InExecution
<1>2. to \in Holder
  BY FeesHeld
<1>3. /\ balance' \in [Holder -> Nat] /\ SumFunction(balance)' - SumFunction(balance) = exec.fee
  <2>1. PICK x \in Holder, n \in Int : x = to /\ n = exec.fee
    BY <1>1, <1>2
  <2>2. balance' = [balance EXCEPT ![x] = balance[x] + n]
    BY <2>1 DEF EndProgram
  <2>3. balance[x] + n \in Nat
    BY <1>0, <1>1, <2>1 DEF XcmTypes
  <2>4. /\ balance' \in [Holder -> Nat] /\ SumFunction(balance)' - SumFunction(balance) = n
    BY ONLY <1>0, <2>2, <2>3, x \in Holder, n \in Int, Paid
  <2> QED
    BY <2>1, <2>4
<1>4. /\ trapped' \in [Location -> [1..MaxHeld -> Nat]] /\ Trapped' - Trapped <= exec.holding
      /\ Trapped' - Trapped \in Int
  <2> DEFINE n == exec.holding
             l == exec.origin
  <2>0. trapped \in [Location -> [1..MaxHeld -> Nat]] /\ Trapped = Trap(trapped) /\ Trapped' = Trap(trapped')
        /\ Trapped \in Nat
    BY <1>0, Readings DEF XcmTypes, Trapped, Trap, Pool
  <2>1. CASE n \in 1..MaxHeld
    <3>1. trapped' = Entered(trapped, l, n)
      BY <2>0, <2>1 DEF EndProgram, Put, Entered
    <3>2. /\ Entered(trapped, l, n) \in [Location -> [1..MaxHeld -> Nat]]
          /\ Trap(Entered(trapped, l, n)) = Trap(trapped) + n
      BY <1>1, <2>0, <2>1, TrapEntered
    <3>3. Trapped' = Trapped + n
      BY <2>0, <3>1, <3>2
    <3> QED
      BY <1>1, <2>0, <3>1, <3>2, <3>3
  <2>2. CASE n \notin 1..MaxHeld
    <3>1. trapped' = trapped
      <4>1. CASE n = 0
        BY <4>1 DEF EndProgram, Put
      <4>2. CASE n # 0
        <5>1. PICK t \in [1..MaxHeld -> Nat] : t = trapped[l]
          BY <1>1, <2>0
        <5>2. [t EXCEPT ![n] = t[n] + 1] = t
          BY <2>2
        <5>3. trapped' = [trapped EXCEPT ![l] = [trapped[l] EXCEPT ![n] = trapped[l][n] + 1]]
          BY <2>0, <4>2 DEF EndProgram, Put
        <5>4. trapped' = [trapped EXCEPT ![l] = trapped[l]]
          BY <5>1, <5>2, <5>3
        <5> QED
          BY <2>0, <5>4
      <4> QED
        BY <4>1, <4>2
    <3> QED
      BY <1>1, <2>0, <3>1
  <2> QED
    BY <2>1, <2>2
<1>5. exec' = Nobody /\ held' = held /\ inbox' = inbox /\ outbox' = outbox
  BY DEF EndProgram
<1>6. XcmTypes' /\ Honest'
  BY <1>0, <1>3, <1>4, <1>5 DEF XcmTypes, Honest
<1>7. InExecution' = 0 /\ \A c \in Chain : Pending(c)' = 0
  BY <1>5 DEF InExecution, Pending
<1>8. SumFunction(Incoming)' = SumFunction(Incoming) - Due /\ Due \in Nat
  BY <1>0, <1>5, <1>6, <1>7, Settled
<1>9. Withdrawn' = Withdrawn /\ Withdrawn \in Nat /\ SumFunction(Incoming) \in Nat /\ SumFunction(held) \in Nat
  BY <1>0, <1>5, Readings DEF Withdrawn
<1>10. Owed' - Owed <= SumFunction(held)' - SumFunction(held)
  <2>2. InExecution' - InExecution = 0 - (exec.holding + exec.fee)
    BY ONLY <1>1, <1>7
  <2>4. Withdrawn' - Withdrawn = 0 /\ SumFunction(Incoming)' - SumFunction(Incoming) = 0 - Due
    BY ONLY <1>8, <1>9
  <2>5. SumFunction(held)' - SumFunction(held) = 0
    BY <1>5, <1>9
  <2>6. Owed' - Owed = exec.fee + (0 - (exec.holding + exec.fee)) + (Trapped' - Trapped) + 0 + (0 - Due)
    BY <1>0, <1>3, <1>6, <2>2, <2>4, OwedChange
  <2> QED
    BY ONLY <1>1, <1>4, <1>8, <2>5, <2>6
<1>11. Backed'
  BY <1>0, <1>6, <1>10, StaysBacked
<1> QED
  BY <1>5, <1>6, <1>11 DEF XcmInv

\* The executor goes on: what is in execution, in accounts, trapped and sent away grows by
\* no more than the deposit that was due.
LEMMA ContinueStep ==
    ASSUME XcmInv, exec # Nobody, exec.rest # <<>>, NEW h \in Nat, NEW f \in Nat,
           exec' = Continue(h, f), inbox' = inbox, held' = held,
           balance' \in [Holder -> Nat], outbox' \in Seq(Message),
           trapped' \in [Location -> [1..MaxHeld -> Nat]],
           (SumFunction(balance)' - SumFunction(balance)) + ((h + f) - (exec.holding + exec.fee))
              + (Trapped' - Trapped) + (Withdrawn' - Withdrawn) <= Due
    PROVE  XcmInv'
<1>0. XcmTypes /\ Honest /\ Backed /\ exec \in Execution
  BY DEF XcmInv, XcmTypes
<1>1. /\ exec' \in Execution /\ exec' # Nobody /\ Honest' /\ InExecution' = h + f
      /\ \A c \in Chain : Pending(c)' = 0
  BY <1>0, Continues
<1>2. XcmTypes'
  BY <1>0, <1>1 DEF XcmTypes
<1>3. InExecution = exec.holding + exec.fee
  BY DEF InExecution
<1>4. SumFunction(Incoming)' = SumFunction(Incoming) - Due /\ Due \in Nat
  BY <1>0, <1>1, <1>2, Settled
<1>5. AmountsTyped /\ AmountsTyped'
  BY <1>0, <1>2, AmountsNow, AmountsNext
<1>a. /\ SumFunction(balance) \in Nat /\ InExecution \in Nat /\ Trapped \in Nat
      /\ Withdrawn \in Nat /\ SumFunction(Incoming) \in Nat /\ SumFunction(held) \in Nat
  BY <1>5 DEF AmountsTyped
<1>b. /\ SumFunction(balance)' \in Nat /\ InExecution' \in Nat /\ Trapped' \in Nat
      /\ Withdrawn' \in Nat /\ SumFunction(Incoming)' \in Nat
  BY <1>5 DEF AmountsTyped
<1>6. SumFunction(held)' - SumFunction(held) = 0 /\ SumFunction(Incoming)' - SumFunction(Incoming) = 0 - Due
  <2>1. SumFunction(held)' = SumFunction(held)
    OBVIOUS
  <2> QED
    BY ONLY <1>4, <1>a, <2>1
<1>7. /\ SumFunction(balance)' - SumFunction(balance) \in Int /\ InExecution' - InExecution \in Int
      /\ Trapped' - Trapped \in Int /\ Withdrawn' - Withdrawn \in Int
  BY ONLY <1>a, <1>b
<1>8. Owed' - Owed = (SumFunction(balance)' - SumFunction(balance)) + (InExecution' - InExecution)
                + (Trapped' - Trapped) + (Withdrawn' - Withdrawn) + (0 - Due)
  BY <1>0, <1>2, <1>6, OwedChange
<1>9. (SumFunction(balance)' - SumFunction(balance)) + (InExecution' - InExecution)
         + (Trapped' - Trapped) + (Withdrawn' - Withdrawn) <= Due
  BY <1>1, <1>3
<1>10. Owed' - Owed <= SumFunction(held)' - SumFunction(held)
  BY ONLY <1>4, <1>6, <1>7, <1>8, <1>9
<1>11. Backed'
  BY <1>0, <1>2, <1>10, StaysBacked
<1> QED
  BY <1>1, <1>2, <1>11 DEF XcmInv

\* The program in execution and its next instruction.
LEMMA InstructionTyped ==
    ASSUME XcmInv, NEW op, Running(op)
    PROVE  /\ exec # Nobody /\ exec.rest # <<>> /\ exec \in Execution
           /\ exec.origin \in Location /\ exec.holding \in Nat /\ exec.fee \in Nat
           /\ Head(exec.rest) \in Instruction /\ Head(exec.rest).n \in Nat /\ Head(exec.rest).op = op
           /\ Head(exec.rest).at \in STRING \cup {User} /\ Head(exec.rest) = exec.rest[1]
           /\ 1 \in DOMAIN exec.rest
<1>1. exec # Nobody /\ exec.rest # <<>> /\ exec \in Execution /\ Head(exec.rest).op = op
  BY DEF XcmInv, XcmTypes, Running
<1>2. /\ exec.rest \in Seq(Instruction)
      /\ exec.origin \in Location /\ exec.holding \in Nat /\ exec.fee \in Nat
  BY <1>1 DEF Execution
<1>3. Head(exec.rest) \in Instruction /\ Head(exec.rest) = exec.rest[1] /\ 1 \in DOMAIN exec.rest
  BY <1>1, <1>2
<1>4. Head(exec.rest).n \in Nat /\ Head(exec.rest).at \in STRING \cup {User}
  BY <1>3 DEF Instruction
<1> QED
  BY <1>1, <1>2, <1>3, <1>4

\* Steps that leave accounts, traps and messages alone.
LEMMA QuietStep ==
    ASSUME XcmInv, exec # Nobody, exec.rest # <<>>, NEW h \in Nat, NEW f \in Nat,
           exec' = Continue(h, f), h + f <= exec.holding + exec.fee + Due, 
           UNCHANGED <<balance, held, inbox, outbox, trapped>>
    PROVE  XcmInv'
<1>1. XcmTypes /\ AmountsTyped /\ exec \in Execution
  BY AmountsNow DEF XcmInv, XcmTypes
<1>2. /\ SumFunction(balance)' - SumFunction(balance) = 0 /\ Trapped' - Trapped = 0
      /\ Withdrawn' - Withdrawn = 0
  BY <1>1 DEF AmountsTyped, Trapped, Withdrawn
<1>3. Due \in Nat /\ exec.holding \in Nat /\ exec.fee \in Nat
  BY <1>1 DEF AmountsTyped, Due, Execution
<1>4. (SumFunction(balance)' - SumFunction(balance)) + ((h + f) - (exec.holding + exec.fee))
         + (Trapped' - Trapped) + (Withdrawn' - Withdrawn) <= Due
  BY ONLY <1>2, <1>3, h \in Nat, f \in Nat, h + f <= exec.holding + exec.fee + Due
<1> QED
  BY <1>1, <1>4, ContinueStep DEF XcmTypes

\* What a step that touches one of the amounts leaves alone.
LEMMA Untouched ==
    ASSUME XcmTypes
    PROVE  /\ balance' = balance => SumFunction(balance)' - SumFunction(balance) = 0
           /\ trapped' = trapped => Trapped' - Trapped = 0
           /\ outbox' = outbox => Withdrawn' - Withdrawn = 0
           /\ Due \in Nat
<1>1. AmountsTyped
  BY AmountsNow
<1>2. SumFunction(balance) \in Nat /\ Trapped \in Nat /\ Withdrawn \in Nat
  BY <1>1 DEF AmountsTyped
<1>3. ASSUME trapped' = trapped PROVE Trapped' = Trapped
  BY <1>3 DEF Trapped
<1>4. ASSUME outbox' = outbox PROVE Withdrawn' = Withdrawn
  BY <1>4 DEF Withdrawn
<1>5. Due \in Nat
  BY <1>1 DEF AmountsTyped, Due
<1> QED
  BY <1>2, <1>3, <1>4, <1>5

\* WithdrawAsset takes from the account of the origin what it has.
LEMMA WithdrawAssetStep ==
    ASSUME XcmInv, NEW rt \in {"devnet", "testnet", "mainnet"}, WithdrawAsset(rt)
    PROVE  XcmInv'
<1>1. Running("WithdrawAsset")
  BY DEF WithdrawAsset
<1>2. /\ exec # Nobody /\ exec.rest # <<>> /\ exec \in Execution
      /\ exec.origin \in Location /\ exec.holding \in Nat /\ exec.fee \in Nat
      /\ Head(exec.rest).n \in Nat
  BY <1>1, InstructionTyped
<1>3. CASE EndProgram(rt)
  BY <1>2, <1>3, EndProgramStep
<1>4. CASE ~ EndProgram(rt)
  <2>1. PICK a, n : a = LocationToAccountId(exec.origin) /\ n = Head(exec.rest).n
    OBVIOUS
  <2>2. /\ a # Nobody /\ balance[a] >= n
        /\ balance' = [balance EXCEPT ![a] = balance[a] - n]
        /\ exec' = Continue(exec.holding + n, exec.fee)
        /\ UNCHANGED <<held, inbox, outbox, trapped>>
    BY <1>4, <2>1 DEF WithdrawAsset
  <2>3. a \in Holder /\ n \in Nat
    BY <1>2, <2>1, <2>2 DEF LocationToAccountId, Location, Chain, Reserve, Holder
  <2>4. XcmTypes /\ balance[a] \in Nat
    BY <2>3 DEF XcmInv, XcmTypes
  <2>5. balance[a] - n \in Nat
    BY ONLY <2>2, <2>3, <2>4
  <2>6. PICK m \in Int : m = 0 - n
    BY <2>3
  <2>7. balance[a] + m \in Nat /\ balance[a] - n = balance[a] + m
    BY ONLY <2>3, <2>4, <2>5, <2>6
  <2>8. /\ balance' \in [Holder -> Nat] /\ SumFunction(balance)' - SumFunction(balance) = m
    BY <2>2, <2>3, <2>4, <2>7, Paid
  <2>9. /\ Trapped' - Trapped = 0 /\ Withdrawn' - Withdrawn = 0 /\ Due \in Nat
    BY <2>2, <2>4, Untouched
  <2>10. exec.holding + n \in Nat
    BY <1>2, <2>3
  <2>11. (SumFunction(balance)' - SumFunction(balance))
             + (((exec.holding + n) + exec.fee) - (exec.holding + exec.fee))
             + (Trapped' - Trapped) + (Withdrawn' - Withdrawn) <= Due
    BY ONLY <1>2, <2>3, <2>6, <2>8, <2>9
  <2> QED
    <3>1. PICK h \in Nat, f \in Nat : h = exec.holding + n /\ f = exec.fee
      BY <1>2, <2>10
    <3>2. (SumFunction(balance)' - SumFunction(balance)) + ((h + f) - (exec.holding + exec.fee))
             + (Trapped' - Trapped) + (Withdrawn' - Withdrawn) <= Due
      BY ONLY <2>11, <3>1
    <3>3. exec' = Continue(h, f) /\ outbox' \in Seq(Message) /\ trapped' \in [Location -> [1..MaxHeld -> Nat]]
      BY <2>2, <2>4, <3>1 DEF XcmTypes
    <3> QED
      BY <1>2, <2>2, <2>8, <3>2, <3>3, ContinueStep
<1> QED
  BY <1>3, <1>4

\* A deposit announced by its reserve enters the holding; any other ends the program.
LEMMA AssetReceivedStep ==
    ASSUME XcmInv, NEW rt \in {"devnet", "testnet", "mainnet"}, AssetReceived(rt)
    PROVE  XcmInv'
<1>0. exec # Nobody
  BY DEF AssetReceived, Running
<1>1. CASE EndProgram(rt)
  BY <1>0, <1>1, EndProgramStep
<1>2. CASE ~ EndProgram(rt)
  <2>1. /\ Running("ReserveAssetDeposited") /\ IsReserve(exec.origin)
        /\ exec' = Continue(exec.holding + Head(exec.rest).n, exec.fee)
        /\ UNCHANGED <<balance, held, inbox, outbox, trapped>>
    BY <1>2 DEF AssetReceived
  <2>2. /\ exec # Nobody /\ exec.rest # <<>> /\ exec \in Execution
        /\ exec.origin \in Location /\ exec.holding \in Nat /\ exec.fee \in Nat
        /\ Head(exec.rest).n \in Nat /\ Head(exec.rest) = exec.rest[1]
        /\ Head(exec.rest).op = "ReserveAssetDeposited"
    BY <2>1, InstructionTyped
  <2>3. exec.origin \in Reserve /\ exec.origin \in Chain
    BY <2>1 DEF IsReserve, NativeAsset, NativeAssetFrom, Reserve, Chain
  <2>4. Due = Head(exec.rest).n
    BY <2>2, <2>3 DEF Due, Pending
  <2>5. PICK n \in Nat : n = Head(exec.rest).n
    BY <2>2
  <2>6. exec.holding + n \in Nat /\ (exec.holding + n) + exec.fee <= exec.holding + exec.fee + Due
    <3>1. Due = n /\ exec.holding \in Nat /\ exec.fee \in Nat
      BY <2>2, <2>4, <2>5
    <3> QED
      BY ONLY <3>1, n \in Nat
  <2> QED
    <3>1. PICK h \in Nat, f \in Nat : h = exec.holding + n /\ f = exec.fee
      BY <2>2, <2>6
    <3>2. exec' = Continue(h, f) /\ h + f <= exec.holding + exec.fee + Due
      BY <2>1, <2>5, <2>6, <3>1
    <3> QED
      BY <2>1, <2>2, <3>2, QuietStep
<1> QED
  BY <1>1, <1>2

\* ClaimAsset takes out of the trap what it enters in the holding.
LEMMA ClaimAssetStep ==
    ASSUME XcmInv, NEW rt \in {"devnet", "testnet", "mainnet"}, ClaimAsset(rt)
    PROVE  XcmInv'
<1>1. Running("ClaimAsset")
  BY DEF ClaimAsset
<1>2. /\ exec # Nobody /\ exec.rest # <<>> /\ exec \in Execution
      /\ exec.origin \in Location /\ exec.holding \in Nat /\ exec.fee \in Nat
      /\ Head(exec.rest).n \in Nat
  BY <1>1, InstructionTyped
<1>3. CASE EndProgram(rt)
  BY <1>2, <1>3, EndProgramStep
<1>4. CASE ~ EndProgram(rt)
  <2>0. XcmTypes /\ trapped \in [Location -> [1..MaxHeld -> Nat]]
    BY DEF XcmInv, XcmTypes
  <2>1. PICK l \in Location, n \in Nat : l = exec.origin /\ n = Head(exec.rest).n
    BY <1>2
  <2>2. /\ n \in DOMAIN trapped[l] /\ trapped[l][n] > 0
        /\ trapped' = Removed(trapped, l, n)
        /\ exec' = Continue(exec.holding + n, exec.fee)
        /\ UNCHANGED <<balance, held, inbox, outbox>>
    BY <1>4, <2>0, <2>1 DEF ClaimAsset, Removed
  <2>3. n \in 1..MaxHeld
    BY <2>0, <2>2
  <2>4. /\ Removed(trapped, l, n) \in [Location -> [1..MaxHeld -> Nat]]
        /\ Trap(Removed(trapped, l, n)) \in Nat /\ Trap(trapped) = Trap(Removed(trapped, l, n)) + n
    BY <2>0, <2>2, <2>3, TrapRemoved
  <2>5. Trapped = Trap(trapped) /\ Trapped' = Trap(trapped')
    BY <2>0, <2>2, <2>4 DEF Trapped, Trap, Pool
  <2>6. Trapped' \in Nat /\ Trapped = Trapped' + n
    BY ONLY <2>2, <2>4, <2>5
  <2>7. Trapped' - Trapped = 0 - n
    <3>1. Trapped \in Int /\ Trapped' \in Int
      BY ONLY <2>6, n \in Nat
    <3>2. PICK a \in Int, b \in Int : a = Trapped /\ b = Trapped'
      BY <3>1
    <3>3. a = b + n
      BY <2>6, <3>2
    <3>4. b - a = 0 - n
      BY ONLY <3>3, n \in Nat, a \in Int, b \in Int
    <3> QED
      BY <3>2, <3>4
  <2>8. SumFunction(balance)' - SumFunction(balance) = 0 /\ Withdrawn' - Withdrawn = 0 /\ Due \in Nat
    BY <2>0, <2>2, Untouched
  <2>9. exec.holding + n \in Nat
    BY <1>2
  <2>10. (SumFunction(balance)' - SumFunction(balance))
             + (((exec.holding + n) + exec.fee) - (exec.holding + exec.fee))
             + (Trapped' - Trapped) + (Withdrawn' - Withdrawn) <= Due
    BY ONLY <1>2, <2>7, <2>8, n \in Nat
  <2>11. balance' \in [Holder -> Nat] /\ outbox' \in Seq(Message)
    BY <2>0, <2>2 DEF XcmTypes
  <2> QED
    <3>1. PICK h \in Nat, f \in Nat : h = exec.holding + n /\ f = exec.fee
      BY <1>2, <2>9
    <3>2. (SumFunction(balance)' - SumFunction(balance)) + ((h + f) - (exec.holding + exec.fee))
             + (Trapped' - Trapped) + (Withdrawn' - Withdrawn) <= Due
      BY ONLY <2>10, <3>1
    <3>3. exec' = Continue(h, f) /\ trapped' \in [Location -> [1..MaxHeld -> Nat]]
      BY <2>2, <2>4, <3>1
    <3> QED
      BY <1>2, <2>2, <2>11, <3>2, <3>3, ContinueStep
<1> QED
  BY <1>3, <1>4

\* BuyExecution moves the fee from the holding, or ends the program.
LEMMA BuyExecutionStep ==
    ASSUME XcmInv, NEW rt \in {"devnet", "testnet", "mainnet"}, BuyExecution(rt)
    PROVE  XcmInv'
<1>1. Running("BuyExecution")
  BY DEF BuyExecution
<1>2. /\ exec # Nobody /\ exec.rest # <<>> /\ exec \in Execution
      /\ exec.holding \in Nat /\ exec.fee \in Nat
  BY <1>1, InstructionTyped
<1>3. CASE EndProgram(rt)
  BY <1>2, <1>3, EndProgramStep
<1>4. CASE ~ EndProgram(rt)
  <2>1. /\ exec.holding >= XcmFee
        /\ exec' = Continue(exec.holding - XcmFee, exec.fee + XcmFee)
        /\ UNCHANGED <<balance, held, inbox, outbox, trapped>>
    BY <1>4 DEF BuyExecution
  <2>2. XcmFee \in Nat
    BY XcmAssumption
  <2>3. Due \in Nat
    BY Untouched DEF XcmInv
  <2>4. /\ exec.holding - XcmFee \in Nat /\ exec.fee + XcmFee \in Nat
        /\ (exec.holding - XcmFee) + (exec.fee + XcmFee) <= exec.holding + exec.fee + Due
    BY ONLY <1>2, <2>1, <2>2, <2>3
  <2> QED
    <3>1. PICK h \in Nat, f \in Nat : h = exec.holding - XcmFee /\ f = exec.fee + XcmFee
      BY <2>4
    <3>2. exec' = Continue(h, f) /\ h + f <= exec.holding + exec.fee + Due
      BY <2>1, <2>4, <3>1
    <3> QED
      BY <1>2, <2>1, <3>2, QuietStep
<1> QED
  BY <1>3, <1>4

\* Instructions that move no asset.
LEMMA NoAssetMovedStep ==
    ASSUME XcmInv, NoAssetMoved
    PROVE  XcmInv'
<1>1. /\ exec # Nobody /\ exec.rest # <<>> /\ exec \in Execution
      /\ exec.holding \in Nat /\ exec.fee \in Nat
  BY InstructionTyped DEF NoAssetMoved
<1>2. Due \in Nat
  BY Untouched DEF XcmInv
<1>3. exec.holding + exec.fee <= exec.holding + exec.fee + Due
  BY ONLY <1>1, <1>2
<1> QED
  BY <1>1, <1>3, QuietStep DEF NoAssetMoved

\* Queues of messages and of programs.
LEMMA AskedSums ==
    /\ \A q \in Seq(Message) : Worth(Asked, q) \in Nat
    /\ \A q \in Seq(Message), m \in Message : Worth(Asked, Append(q, m)) = Worth(Asked, q) + Asked[m]
    /\ \A q \in Seq(Message) : q # <<>> => Worth(Asked, q) = Asked[Head(q)] + Worth(Asked, Tail(q))
<1>1. PICK v \in [Message -> Nat] : v = Asked
  BY Worths
<1>2. /\ \A q \in Seq(Message) : Worth(v, q) \in Nat
      /\ \A q \in Seq(Message), m \in Message : Worth(v, Append(q, m)) = Worth(v, q) + v[m]
      /\ \A q \in Seq(Message) : q # <<>> => Worth(v, q) = v[Head(q)] + Worth(v, Tail(q))
  BY ONLY v \in [Message -> Nat], WorthSums
<1> QED
  BY <1>1, <1>2

LEMMA ToldSums ==
    /\ \A q \in Seq(Program) : Worth(Told, q) \in Nat
    /\ \A q \in Seq(Program), m \in Program : Worth(Told, Append(q, m)) = Worth(Told, q) + Told[m]
    /\ \A q \in Seq(Program) : q # <<>> => Worth(Told, q) = Told[Head(q)] + Worth(Told, Tail(q))
<1>1. PICK v \in [Program -> Nat] : v = Told
  BY Worths
<1>2. /\ \A q \in Seq(Program) : Worth(v, q) \in Nat
      /\ \A q \in Seq(Program), m \in Program : Worth(v, Append(q, m)) = Worth(v, q) + v[m]
      /\ \A q \in Seq(Program) : q # <<>> => Worth(v, q) = v[Head(q)] + Worth(v, Tail(q))
  BY ONLY v \in [Program -> Nat], WorthSums
<1> QED
  BY <1>1, <1>2

\* A message is sent.
LEMMA Sent ==
    ASSUME XcmTypes, NEW m \in Message, outbox' = Append(outbox, m)
    PROVE  /\ outbox' \in Seq(Message) /\ Withdrawn' - Withdrawn = Asked[m]
           /\ Asked[m] \in Nat /\ Asked[m] <= m.n /\ m.n \in Nat
<1>0. m.n \in Nat /\ Asked[m] = IF m.op = "WithdrawAsset" THEN m.n ELSE 0
  BY DEF Message, Asked
<1>1. PICK q \in Seq(Message) : q = outbox
  BY DEF XcmTypes
<1>2. PICK r \in Seq(Message) : r = outbox' /\ r = Append(q, m)
  <2>1. Append(q, m) \in Seq(Message)
    OBVIOUS
  <2> QED
    BY <1>1, <2>1
<1>3. ASSUME NEW s \in Seq(Message)
      PROVE  SumFunction([i \in DOMAIN s |-> IF s[i].op = "WithdrawAsset" THEN s[i].n ELSE 0])
                = Worth(Asked, s)
  <2>1. \A i \in DOMAIN s : s[i] \in Message
    OBVIOUS
  <2>2. [i \in DOMAIN s |-> IF s[i].op = "WithdrawAsset" THEN s[i].n ELSE 0]
          = [i \in DOMAIN s |-> Asked[s[i]]]
    BY <2>1 DEF Asked
  <2> QED
    BY <2>2 DEF Worth
<1>4. Withdrawn = Worth(Asked, q) /\ Withdrawn' = Worth(Asked, r)
  BY <1>1, <1>2, <1>3 DEF Withdrawn
<1>5. Worth(Asked, q) \in Nat /\ Worth(Asked, Append(q, m)) = Worth(Asked, q) + Asked[m]
  BY AskedSums
<1>6. Withdrawn \in Nat /\ Withdrawn' = Withdrawn + Asked[m]
  BY <1>2, <1>4, <1>5
<1>7. Withdrawn' - Withdrawn = Asked[m]
  <2>1. PICK a \in Nat, b \in Nat : a = Withdrawn /\ b = Asked[m]
    BY <1>0, <1>6
  <2>2. (a + b) - a = b
    OBVIOUS
  <2> QED
    BY <1>6, <2>1, <2>2
<1> QED
  BY <1>0, <1>2, <1>7

\* DepositAsset pays the holding to an account.
LEMMA DepositAssetStep ==
    ASSUME XcmInv, DepositAsset
    PROVE  XcmInv'
<1>1. /\ exec # Nobody /\ exec.rest # <<>> /\ exec \in Execution
      /\ exec.holding \in Nat /\ exec.fee \in Nat
  BY InstructionTyped DEF DepositAsset
<1>2. XcmTypes
  BY DEF XcmInv
<1>3. PICK x, n : x = Head(exec.rest).at /\ n = exec.holding
  OBVIOUS
<1>4. /\ balance' = [balance EXCEPT ![x] = balance[x] + n]
      /\ exec' = Continue(0, exec.fee)
      /\ UNCHANGED <<held, inbox, outbox, trapped>>
  BY <1>3 DEF DepositAsset
<1>5. /\ balance' \in [Holder -> Nat] /\ SumFunction(balance)' - SumFunction(balance) <= n
      /\ SumFunction(balance)' - SumFunction(balance) \in Int
  <2>1. CASE x \in Holder
    <3>1. n \in Int /\ balance[x] + n \in Nat
      BY <1>1, <1>2, <1>3, <2>1 DEF XcmTypes
    <3>2. balance' \in [Holder -> Nat] /\ SumFunction(balance)' - SumFunction(balance) = n
      BY <1>2, <1>4, <2>1, <3>1, Paid
    <3> QED
      BY <1>1, <1>3, <3>2
  <2>2. CASE x \notin Holder
    <3>1. balance' = balance
      BY <1>2, <1>4, <2>2 DEF XcmTypes
    <3>2. SumFunction(balance)' - SumFunction(balance) = 0
      BY <1>2, <3>1, Untouched
    <3> QED
      BY <1>1, <1>2, <1>3, <3>1, <3>2 DEF XcmTypes
  <2> QED
    BY <2>1, <2>2
<1>6. Trapped' - Trapped = 0 /\ Withdrawn' - Withdrawn = 0 /\ Due \in Nat
  BY <1>2, <1>4, Untouched
<1>7. PICK f \in Nat, h \in Nat : f = exec.fee /\ h = 0
  BY <1>1
<1>8. (SumFunction(balance)' - SumFunction(balance)) + ((h + f) - (exec.holding + exec.fee))
         + (Trapped' - Trapped) + (Withdrawn' - Withdrawn) <= Due
  <2>1. n \in Nat /\ exec.holding = n /\ exec.fee = f
    BY <1>1, <1>3, <1>7
  <2> QED
    BY ONLY <1>5, <1>6, <1>7, <2>1
<1>9. /\ exec' = Continue(h, f) /\ outbox' \in Seq(Message)
      /\ trapped' \in [Location -> [1..MaxHeld -> Nat]]
  BY <1>2, <1>4, <1>7 DEF XcmTypes
<1> QED
  BY <1>1, <1>4, <1>5, <1>8, <1>9, ContinueStep

\* The holding leaves in a message: to be withdrawn at the reserve, or teleported.
LEMMA InitiateStep ==
    ASSUME XcmInv, Initiate
    PROVE  XcmInv'
<1>1. /\ exec # Nobody /\ exec.rest # <<>> /\ exec \in Execution
      /\ exec.holding \in Nat /\ exec.fee \in Nat
      /\ Head(exec.rest).at \in STRING \cup {User}
  BY InstructionTyped DEF Initiate
<1>2. XcmTypes
  BY DEF XcmInv
<1>3. PICK m \in Message : m.n = exec.holding /\ outbox' = Append(outbox, m)
  <2>0. PICK op : op = IF Head(exec.rest).op = "InitiateTeleport"
                      THEN "ReceiveTeleportedAsset" ELSE "WithdrawAsset"
    OBVIOUS
  <2>3. op \in {"WithdrawAsset", "ReceiveTeleportedAsset"}
    BY <2>0
  <2>1. outbox' = Append(outbox, [to |-> Head(exec.rest).at, n |-> exec.holding, op |-> op])
    BY <2>0 DEF Initiate
  <2>2. [to |-> Head(exec.rest).at, n |-> exec.holding, op |-> op] \in Message
    BY <1>1, <2>3 DEF Message, Location
  <2> QED
    BY <2>1, <2>2
<1>4. exec' = Continue(0, exec.fee) /\ UNCHANGED <<balance, held, inbox, trapped>>
  BY DEF Initiate
<1>5. /\ outbox' \in Seq(Message) /\ Withdrawn' - Withdrawn = Asked[m]
      /\ Asked[m] \in Nat /\ Asked[m] <= m.n
  BY <1>2, <1>3, Sent
<1>6. SumFunction(balance)' - SumFunction(balance) = 0 /\ Trapped' - Trapped = 0 /\ Due \in Nat
  BY <1>2, <1>4, Untouched
<1>7. PICK f \in Nat, h \in Nat : f = exec.fee /\ h = 0
  BY <1>1
<1>8. (SumFunction(balance)' - SumFunction(balance)) + ((h + f) - (exec.holding + exec.fee))
         + (Trapped' - Trapped) + (Withdrawn' - Withdrawn) <= Due
  <2>1. PICK n \in Nat, w \in Nat : n = exec.holding /\ w = Asked[m]
    BY <1>1, <1>5
  <2>2. w <= n /\ Withdrawn' - Withdrawn = w
    BY <1>3, <1>5, <2>1
  <2> QED
    BY ONLY <1>6, <1>7, <2>1, <2>2
<1>9. /\ exec' = Continue(h, f) /\ balance' \in [Holder -> Nat]
      /\ trapped' \in [Location -> [1..MaxHeld -> Nat]]
  BY <1>2, <1>4, <1>7 DEF XcmTypes
<1> QED
  BY <1>1, <1>4, <1>5, <1>8, <1>9, ContinueStep

\* No Transact is dispatched as Root.
LEMMA NeverRoot ==
    ASSUME NEW l \in Location, NEW kind \in OriginKind
    PROVE  XcmOriginToTransactDispatchOrigin(l, kind) # Nobody =>
               XcmOriginToTransactDispatchOrigin(l, kind) # "Root"
<1>1. CASE kind = "SovereignAccount"
  BY <1>1, NobodyAssumption DEF XcmOriginToTransactDispatchOrigin, LocationToAccountId, Location, Chain, Reserve
<1>2. CASE kind = "Native"
  BY <1>2, NobodyAssumption DEF XcmOriginToTransactDispatchOrigin, Location, Chain, Reserve
<1>3. CASE kind = "Xcm"
  BY <1>3 DEF XcmOriginToTransactDispatchOrigin
<1>4. CASE kind = "Superuser"
  BY <1>4 DEF XcmOriginToTransactDispatchOrigin
<1> QED
  BY <1>1, <1>2, <1>3, <1>4 DEF OriginKind

\* A dispatched call moves tokens between accounts and creates none.
LEMMA TransactStep ==
    ASSUME XcmInv, NEW rt \in {"devnet", "testnet", "mainnet"}, Transact(rt)
    PROVE  XcmInv'
<1>1. /\ exec # Nobody /\ exec.rest # <<>> /\ exec \in Execution
      /\ exec.origin \in Location /\ exec.holding \in Nat /\ exec.fee \in Nat
      /\ Head(exec.rest) = exec.rest[1] /\ 1 \in DOMAIN exec.rest /\ Head(exec.rest).op = "Transact"
  BY InstructionTyped DEF Transact
<1>2. XcmTypes /\ Honest
  BY DEF XcmInv
<1>3. Head(exec.rest).at \in OriginKind
  BY <1>1, <1>2 DEF Honest
<1>4. PICK i, o : i = Head(exec.rest) /\ o = XcmOriginToTransactDispatchOrigin(exec.origin, i.at)
  OBVIOUS
<1>5. CASE EndProgram(rt)
  BY <1>1, <1>5, EndProgramStep
<1>6. CASE ~ EndProgram(rt)
  <2>1. /\ o # Nobody
        /\ balance' =
             CASE i.call = "transfer" /\ o \in Holder /\ o # User /\ balance[o] > 0 ->
                     [balance EXCEPT ![o] = @ - 1, ![User] = @ + 1]
               [] i.call = "force_set_balance" /\ o = "Root" ->
                     [balance EXCEPT ![User] = @ + 1]
               [] OTHER -> balance
        /\ exec' = Continue(exec.holding, exec.fee)
        /\ UNCHANGED <<held, inbox, outbox, trapped>>
    BY <1>4, <1>6 DEF Transact
  <2>2. o # "Root"
    BY <1>1, <1>3, <1>4, <2>1, NeverRoot
  <2>3. balance' \in [Holder -> Nat] /\ SumFunction(balance)' - SumFunction(balance) = 0
    <3>1. CASE i.call = "transfer" /\ o \in Holder /\ o # User /\ balance[o] > 0
      <4>0. PICK f \in [Holder -> Nat] : f = balance
        BY <1>2 DEF XcmTypes
      <4>1. balance' = [f EXCEPT ![o] = f[o] - 1, ![User] = @ + 1]
        BY <2>1, <3>1, <4>0
      <4>2. User \in Holder /\ o \in Holder /\ f[o] > 0 /\ o # User
        BY <3>1, <4>0 DEF Holder
      <4>3. PICK g : g = [f EXCEPT ![o] = f[o] - 1]
        OBVIOUS
      <4>4. /\ g \in [Holder -> Nat] /\ g[o] = f[o] - 1 /\ g[User] = f[User]
            /\ \A k \in Holder \ {o} : g[k] = f[k]
        BY <4>2, <4>3
      <4>5. PICK b : b = [g EXCEPT ![User] = g[User] + 1]
        OBVIOUS
      <4>6. /\ b \in [Holder -> Nat] /\ b[User] = g[User] + 1
            /\ \A k \in Holder \ {User} : b[k] = g[k]
        BY <4>2, <4>4, <4>5
      <4>7. balance' = b
        BY <4>1, <4>3, <4>4, <4>5
      <4>8. /\ SumFunction(f) \in Nat /\ SumFunction(g) \in Nat
            /\ SumFunction(g) = SumFunction(f) + g[o] - f[o]
        BY ONLY <4>2, <4>4, f \in [Holder -> Nat], HolderSums
      <4>9. SumFunction(b) = SumFunction(g) + b[User] - g[User]
        BY ONLY <4>2, <4>4, <4>6, HolderSums
      <4>10. f[o] \in Nat /\ g[User] \in Nat
        BY <4>2, <4>4
      <4>11. SumFunction(b) - SumFunction(f) = 0
        BY ONLY <4>4, <4>6, <4>8, <4>9, <4>10
      <4> QED
        BY <4>0, <4>6, <4>7, <4>11
    <3>2. CASE ~ (i.call = "transfer" /\ o \in Holder /\ o # User /\ balance[o] > 0)
      <4>1. balance' = balance
        BY <2>1, <2>2, <3>2
      <4> QED
        BY <1>2, <4>1, Untouched DEF XcmTypes
    <3> QED
      BY <3>1, <3>2
  <2>4. Trapped' - Trapped = 0 /\ Withdrawn' - Withdrawn = 0 /\ Due \in Nat
    BY <1>2, <2>1, Untouched
  <2>5. PICK f \in Nat, h \in Nat : f = exec.fee /\ h = exec.holding
    BY <1>1
  <2>6. (SumFunction(balance)' - SumFunction(balance)) + ((h + f) - (exec.holding + exec.fee))
           + (Trapped' - Trapped) + (Withdrawn' - Withdrawn) <= Due
    BY ONLY <2>3, <2>4, <2>5
  <2>7. /\ exec' = Continue(h, f) /\ outbox' \in Seq(Message)
        /\ trapped' \in [Location -> [1..MaxHeld -> Nat]]
    BY <1>2, <2>1, <2>5 DEF XcmTypes
  <2> QED
    BY <1>1, <2>1, <2>3, <2>6, <2>7, ContinueStep
<1> QED
  BY <1>5, <1>6

\* Every step of the executor keeps the token backed.
LEMMA ExecutorKeeps ==
    ASSUME XcmInv, NEW rt \in {"devnet", "testnet", "mainnet"}, ExecutorStep(rt)
    PROVE  XcmInv'
<1>1. CASE Completed(rt)
  BY <1>1, EndProgramStep DEF Completed
<1> QED
  BY <1>1, WithdrawAssetStep, AssetReceivedStep, ClaimAssetStep, BuyExecutionStep, NoAssetMovedStep,
     DepositAssetStep, InitiateStep, TransactStep DEF ExecutorStep

\* A program arrives from c: what c announces grows by what the program tells.
LEMMA Arrives ==
    ASSUME XcmTypes, exec = Nobody, NEW c \in Chain, NEW p \in Program,
           inbox' = [inbox EXCEPT ![c] = Append(inbox[c], p)],
           exec' = exec, balance' = balance, outbox' = outbox, trapped' = trapped,
           held' \in [Reserve -> Nat]
    PROVE  /\ XcmTypes'
           /\ Owed' - Owed = IF c \in Reserve THEN Told[p] ELSE 0
           /\ Honest /\ (c \in Reserve => Announced(p) \subseteq {1}) => Honest'
<1>1. PICK q \in Seq(Program) : q = inbox[c]
  BY DEF XcmTypes
<1>2. PICK r : r = Append(q, p)
  OBVIOUS
<1>3. r \in Seq(Program) /\ \A i \in DOMAIN r : r[i] = p \/ (i \in DOMAIN q /\ r[i] = q[i])
  BY <1>2
<1>4. inbox' = [inbox EXCEPT ![c] = r]
  BY <1>1, <1>2
<1>5. inbox' \in [Chain -> Seq(Program)] /\ inbox'[c] = r /\ \A k \in Chain \ {c} : inbox'[k] = inbox[k]
  BY <1>3, <1>4 DEF XcmTypes
<1>6. XcmTypes'
  BY <1>5 DEF XcmTypes
<1>7. AmountsTyped /\ AmountsTyped'
  BY <1>6, AmountsNow, AmountsNext
<1>8. \A k \in Chain : Pending(k) = 0 /\ Pending(k)' = 0
  BY DEF Pending
<1>9. \A k \in Chain \ {c} : Promised(k)' + Pending(k)' = Promised(k) + Pending(k)
  <2>1. \A k \in Chain \ {c} : Promised(k)' = Promised(k)
    BY <1>5, <1>7 DEF AmountsTyped
  <2> QED
    BY <1>8, <2>1
<1>10. SumFunction(Incoming)' = SumFunction(Incoming) + (Promised(c)' + Pending(c)') - (Promised(c) + Pending(c))
  BY <1>6, <1>9, IncomingMoves
<1>11. Promised(c)' = Promised(c) + (IF c \in Reserve THEN Told[p] ELSE 0)
  <2>1. /\ Promised(c) = IF c \in Reserve THEN Worth(Told, q) ELSE 0
        /\ Promised(c)' = IF c \in Reserve THEN Worth(Told, r) ELSE 0
    BY <1>1, <1>5, <1>7 DEF AmountsTyped
  <2>2. Worth(Told, r) = Worth(Told, q) + Told[p]
    BY <1>2, ToldSums
  <2> QED
    BY <2>1, <2>2
<1>12. Told[p] \in Nat
  BY Worths
<1>13. PICK w \in Nat : w = IF c \in Reserve THEN Told[p] ELSE 0
  BY <1>12
<1>14. SumFunction(Incoming)' - SumFunction(Incoming) = w
  <2>1. SumFunction(Incoming) \in Nat /\ Promised(c) \in Nat /\ Promised(c)' = Promised(c) + w
    BY <1>7, <1>11, <1>13 DEF AmountsTyped
  <2>2. SumFunction(Incoming)' = SumFunction(Incoming) + (Promised(c)' + 0) - (Promised(c) + 0)
    BY <1>8, <1>10
  <2> QED
    BY ONLY <2>1, <2>2, w \in Nat
<1>15. InExecution' - InExecution = 0
  BY DEF InExecution
<1>16. SumFunction(balance)' - SumFunction(balance) = 0 /\ Trapped' - Trapped = 0 /\ Withdrawn' - Withdrawn = 0
  BY Untouched
<1>17. Owed' - Owed = 0 + 0 + 0 + 0 + w
  BY <1>6, <1>14, <1>15, <1>16, OwedChange
<1>18. ASSUME Honest, c \in Reserve => Announced(p) \subseteq {1} PROVE Honest'
  <2>1. ASSUME NEW k \in Reserve, NEW i \in DOMAIN inbox'[k] PROVE Announced(inbox'[k][i]) \subseteq {1}
    <3>1. CASE k = c
      BY <1>1, <1>3, <1>5, <1>18, <2>1, <3>1 DEF Honest
    <3>2. CASE k # c
      <4>1. inbox'[k] = inbox[k]
        BY <1>5, <3>2 DEF Chain
      <4> QED
        BY <1>18, <2>1, <4>1 DEF Honest
    <3> QED
      BY <3>1, <3>2
  <2> QED
    BY <2>1 DEF Honest, Announced
<1> QED
  BY <1>6, <1>13, <1>17, <1>18

\* A reserve that announces a deposit holds it; any other program announces none of a reserve.
LEMMA SendingKeeps ==
    ASSUME XcmInv, NEW p \in Program,
           \/ \E r \in Reserve, n \in Amount : ReserveSends(r, n, p)
           \/ \E c \in Chain : ForeignSends(c, p)
    PROVE  XcmInv'
<1>0. XcmTypes /\ Honest /\ Backed /\ SumFunction(held) <= MaxHeld /\ SumFunction(held) \in Nat
  BY Readings DEF XcmInv
<1>t. p[1].n \in Nat /\ 1 \in DOMAIN p /\ Told[p] = IF p[1].op = "ReserveAssetDeposited" THEN p[1].n ELSE 0
  BY Worths DEF Told
<1>1. ASSUME NEW r \in Reserve, NEW n \in Amount, ReserveSends(r, n, p) PROVE XcmInv'
  <2>1. /\ exec = Nobody /\ Announced(p) = {1} /\ p[1].n = n /\ SumFunction(held) + n <= MaxHeld
        /\ held' = [held EXCEPT ![r] = held[r] + n]
        /\ inbox' = [inbox EXCEPT ![r] = Append(inbox[r], p)]
        /\ UNCHANGED <<balance, outbox, exec, trapped>>
    BY <1>1 DEF ReserveSends, BetweenBlocks
  <2>2. n \in Nat /\ r \in Chain
    BY XcmAssumption DEF Chain
  <2>3. held' \in [Reserve -> Nat] /\ SumFunction(held)' = SumFunction(held) + n
    <3>1. PICK f \in [Reserve -> Nat] : f = held
      BY <1>0 DEF XcmTypes
    <3>2. PICK g : g = held' /\ g = [f EXCEPT ![r] = f[r] + n]
      BY <2>1, <3>1
    <3>3. g \in [Reserve -> Nat] /\ g[r] = f[r] + n /\ f[r] \in Nat /\ \A k \in Reserve \ {r} : g[k] = f[k]
      BY <2>2, <3>2
    <3>4. SumFunction(f) \in Nat /\ SumFunction(g) = SumFunction(f) + g[r] - f[r]
      BY ONLY <3>3, f \in [Reserve -> Nat], r \in Reserve, ReserveSums
    <3>5. SumFunction(g) = SumFunction(f) + n
      BY ONLY <2>2, <3>3, <3>4
    <3> QED
      BY <3>1, <3>2, <3>3, <3>5
  <2>4. Told[p] = n
    BY <1>t, <2>1 DEF Announced
  <2>5. XcmTypes' /\ Honest' /\ Owed' - Owed = n
    BY <1>0, <2>1, <2>2, <2>3, <2>4, Arrives
  <2>6. SumFunction(held)' - SumFunction(held) = n
    BY ONLY <1>0, <2>2, <2>3
  <2>7. Backed'
    BY <1>0, <2>2, <2>5, <2>6, StaysBacked
  <2> QED
    BY <2>1, <2>3, <2>5, <2>7 DEF XcmInv
<1>2. ASSUME NEW c \in Chain, ForeignSends(c, p) PROVE XcmInv'
  <2>1. /\ exec = Nobody
        /\ c \in Reserve => Announced(p) = {}
        /\ inbox' = [inbox EXCEPT ![c] = Append(inbox[c], p)]
        /\ UNCHANGED <<balance, held, outbox, exec, trapped>>
    BY <1>2 DEF ForeignSends, BetweenBlocks
  <2>2. c \in Reserve => Told[p] = 0
    BY <1>t, <2>1 DEF Announced
  <2>3. held' \in [Reserve -> Nat]
    BY <1>0, <2>1 DEF XcmTypes
  <2>4. XcmTypes' /\ Honest' /\ Owed' - Owed = 0
    BY <1>0, <2>1, <2>2, <2>3, Arrives
  <2>5. SumFunction(held)' - SumFunction(held) = 0
    BY <1>0, <2>1
  <2>6. Backed'
    BY <1>0, <2>4, <2>5, StaysBacked
  <2> QED
    BY <1>0, <2>1, <2>4, <2>6 DEF XcmInv
<1> QED
  BY <1>1, <1>2

\* A program starts with nothing held.
LEMMA StartedTyped ==
    ASSUME NEW l \in Location, NEW p \in Program
    PROVE  /\ Started(l, p) \in Execution /\ Started(l, p) # Nobody
           /\ Started(l, p).origin = l /\ Started(l, p).rest = p
           /\ Started(l, p).holding = 0 /\ Started(l, p).fee = 0
           /\ p # <<>>
           /\ \A i \in DOMAIN p : p[i].op = "Transact" => p[i].at \in OriginKind
<1>1. /\ p \in Seq(Instruction) /\ p # <<>>
      /\ \A i \in DOMAIN p : p[i].op = "Transact" => p[i].at \in OriginKind
  BY XcmAssumption
<1>2. Started(l, p) \in Execution
  BY <1>1 DEF Started, Execution
<1> QED
  BY <1>1, <1>2, NobodyAssumption DEF Started

\* A message is taken from the queue and executed, or refused.
LEMMA DeliverKeeps ==
    ASSUME XcmInv, NEW rt, NEW c \in Chain, Deliver(rt, c)
    PROVE  XcmInv'
<1>0. XcmTypes /\ Honest /\ Backed /\ SumFunction(held) <= MaxHeld /\ SumFunction(held) \in Nat
  BY Readings DEF XcmInv
<1>1. PICK q \in Seq(Program) : q = inbox[c] /\ q # <<>>
  BY <1>0 DEF XcmTypes, Deliver
<1>2. PICK p \in Program, r \in Seq(Program) : p = Head(q) /\ r = Tail(q)
  <2>1. Head(q) \in Program /\ Tail(q) \in Seq(Program)
    BY <1>1
  <2> QED
    BY <2>1
<1>3. /\ \A i \in DOMAIN r : i + 1 \in DOMAIN q /\ r[i] = q[i + 1]
      /\ p = q[1] /\ 1 \in DOMAIN q
  BY <1>1, <1>2
<1>4. /\ exec = Nobody /\ inbox' = [inbox EXCEPT ![c] = r]
      /\ exec' = Started(c, p) \/ exec' = Nobody
      /\ UNCHANGED <<balance, held, outbox, trapped>>
  BY <1>1, <1>2 DEF Deliver
<1>5. inbox' \in [Chain -> Seq(Program)] /\ inbox'[c] = r /\ \A k \in Chain \ {c} : inbox'[k] = inbox[k]
  BY <1>0, <1>4 DEF XcmTypes
<1>6. c \in Location
  BY DEF Location
<1>s. /\ Started(c, p) \in Execution /\ Started(c, p) # Nobody
      /\ Started(c, p).origin = c /\ Started(c, p).rest = p
      /\ Started(c, p).holding = 0 /\ Started(c, p).fee = 0
      /\ p # <<>>
      /\ \A i \in DOMAIN p : p[i].op = "Transact" => p[i].at \in OriginKind
  BY <1>6, StartedTyped
<1>7. exec' = Nobody \/ exec' \in Execution
  BY <1>4, <1>s
<1>8. XcmTypes'
  BY <1>0, <1>4, <1>5, <1>7 DEF XcmTypes
<1>9. Honest'
  <2>1. ASSUME NEW k \in Reserve, NEW i \in DOMAIN inbox'[k] PROVE Announced(inbox'[k][i]) \subseteq {1}
    <3>1. CASE k = c
      <4>1. \A j \in DOMAIN q : Announced(q[j]) \subseteq {1}
        BY <1>0, <1>1, <2>1, <3>1 DEF Honest
      <4>2. i \in DOMAIN r /\ inbox'[k][i] = r[i]
        BY <1>5, <2>1, <3>1
      <4>3. i + 1 \in DOMAIN q /\ r[i] = q[i + 1]
        BY <1>3, <4>2
      <4> QED
        BY <4>1, <4>2, <4>3
    <3>2. CASE k # c
      <4>1. inbox'[k] = inbox[k]
        BY <1>5, <3>2 DEF Chain
      <4> QED
        BY <1>0, <2>1, <4>1 DEF Honest
    <3> QED
      BY <3>1, <3>2
  <2>2. c \in Reserve => Announced(p) \subseteq {1}
    BY <1>0, <1>1, <1>3 DEF Honest
  <2> QED
    BY <1>4, <1>s, <2>1, <2>2 DEF Honest, Announced
<1>10. AmountsTyped /\ AmountsTyped'
  BY <1>0, <1>8, AmountsNow, AmountsNext
<1>11. \A k \in Chain : Pending(k) = 0
  BY <1>4 DEF Pending
<1>12. \A k \in Chain \ {c} : Pending(k)' = 0
  BY <1>4, <1>s DEF Pending
<1>13. \A k \in Chain \ {c} : Promised(k)' + Pending(k)' = Promised(k) + Pending(k)
  <2>1. \A k \in Chain \ {c} : Promised(k)' = Promised(k)
    BY <1>5, <1>10 DEF AmountsTyped
  <2> QED
    BY <1>11, <1>12, <2>1
<1>14. SumFunction(Incoming)' = SumFunction(Incoming) + (Promised(c)' + Pending(c)') - (Promised(c) + Pending(c))
  BY <1>0, <1>8, <1>13, IncomingMoves
<1>15. PICK w \in Nat : w = IF c \in Reserve THEN Told[p] ELSE 0
  BY Worths
<1>16. Promised(c) = w + Promised(c)'
  <2>1. /\ Promised(c) = IF c \in Reserve THEN Worth(Told, q) ELSE 0
        /\ Promised(c)' = IF c \in Reserve THEN Worth(Told, r) ELSE 0
    BY <1>1, <1>5, <1>10 DEF AmountsTyped
  <2>2. Worth(Told, q) = Told[p] + Worth(Told, r)
    BY <1>1, <1>2, ToldSums
  <2> QED
    BY <1>15, <2>1, <2>2
<1>17. Pending(c)' <= w /\ Pending(c)' \in Nat
  <2>1. Pending(c)' \in Nat
    BY <1>10 DEF AmountsTyped
  <2>2. CASE exec' = Started(c, p) /\ c \in Reserve /\ p[1].op = "ReserveAssetDeposited"
    <3>1. Pending(c)' = p[1].n
      BY <1>s, <2>2 DEF Pending
    <3>2. w = p[1].n
      BY <1>15, <2>2 DEF Told
    <3> QED
      BY <2>1, <3>1, <3>2
  <2>3. CASE ~ (exec' = Started(c, p) /\ c \in Reserve /\ p[1].op = "ReserveAssetDeposited")
    <3>1. Pending(c)' = 0
      BY <1>4, <1>s, <2>3 DEF Pending
    <3> QED
      BY <3>1
  <2> QED
    BY <2>2, <2>3
<1>18. SumFunction(Incoming)' - SumFunction(Incoming) <= 0 /\ SumFunction(Incoming)' - SumFunction(Incoming) \in Int
  <2>1. /\ SumFunction(Incoming) \in Nat /\ Promised(c)' \in Nat /\ Pending(c) = 0
        /\ SumFunction(Incoming)' \in Nat
    BY <1>10, <1>11 DEF AmountsTyped
  <2> QED
    <3>1. PICK a \in Nat, b \in Nat, d \in Nat : a = SumFunction(Incoming) /\ b = Promised(c)' /\ d = Pending(c)'
      BY <1>17, <2>1
    <3>2. SumFunction(Incoming)' = a + (b + d) - ((w + b) + 0) /\ d <= w
      BY <1>14, <1>16, <1>17, <2>1, <3>1
    <3>3. PICK e \in Nat : e = SumFunction(Incoming)'
      BY <2>1
    <3>4. e = a + (b + d) - ((w + b) + 0)
      BY <3>2, <3>3
    <3>5. e - a <= 0 /\ e - a \in Int
      BY ONLY <3>2, <3>4, w \in Nat, a \in Nat, b \in Nat, d \in Nat
    <3> QED
      BY <3>1, <3>3, <3>5
<1>19. InExecution' - InExecution = 0
  BY <1>4, <1>s DEF InExecution
<1>20. SumFunction(balance)' - SumFunction(balance) = 0 /\ Trapped' - Trapped = 0 /\ Withdrawn' - Withdrawn = 0
  BY <1>0, <1>4, Untouched
<1>21. Owed' - Owed = 0 + 0 + 0 + 0 + (SumFunction(Incoming)' - SumFunction(Incoming))
  BY <1>0, <1>8, <1>19, <1>20, OwedChange
<1>22. SumFunction(held)' - SumFunction(held) = 0
  BY <1>0, <1>4
<1>23. Owed' - Owed <= SumFunction(held)' - SumFunction(held)
  BY ONLY <1>18, <1>21, <1>22
<1>24. Backed'
  BY <1>0, <1>8, <1>23, StaysBacked
<1> QED
  BY <1>0, <1>4, <1>8, <1>9, <1>24 DEF XcmInv

\* Steps outside the executor that leave the inbox alone and give no reserve's word.
LEMMA OutsideKeeps ==
    ASSUME XcmInv, exec = Nobody, inbox' = inbox, XcmTypes', Honest',
           InExecution' = 0, \A c \in Chain : Pending(c)' = 0,
           SumFunction(held)' <= SumFunction(held),
           (SumFunction(balance)' - SumFunction(balance)) + (Trapped' - Trapped)
              + (Withdrawn' - Withdrawn) <= SumFunction(held)' - SumFunction(held)
    PROVE  XcmInv'
<1>0. XcmTypes /\ Honest /\ Backed /\ SumFunction(held) <= MaxHeld /\ MaxHeld \in Nat
  BY XcmAssumption DEF XcmInv
<1>1. AmountsTyped /\ AmountsTyped'
  BY <1>0, AmountsNow, AmountsNext
<1>2. \A c \in Chain : Promised(c)' + Pending(c)' = Promised(c) + Pending(c)
  <2>1. \A c \in Chain : Promised(c)' = Promised(c)
    BY <1>1 DEF AmountsTyped
  <2>2. \A c \in Chain : Pending(c) = 0
    BY DEF Pending
  <2> QED
    BY <2>1, <2>2
<1>3. Incoming' = Incoming
  BY <1>2 DEF Incoming
<1>4. SumFunction(Incoming)' - SumFunction(Incoming) = 0
  <2>1. SumFunction(Incoming) \in Nat /\ SumFunction(Incoming)' = SumFunction(Incoming)
    BY <1>1, <1>3 DEF AmountsTyped
  <2> QED
    BY ONLY <2>1
<1>5. InExecution' - InExecution = 0
  BY DEF InExecution
<1>6. Owed' - Owed = (SumFunction(balance)' - SumFunction(balance)) + 0
                + (Trapped' - Trapped) + (Withdrawn' - Withdrawn) + 0
  BY <1>0, <1>4, <1>5, OwedChange
<1>7. /\ SumFunction(balance) \in Nat /\ SumFunction(balance)' \in Nat /\ Trapped \in Nat
      /\ Trapped' \in Nat /\ Withdrawn \in Nat /\ Withdrawn' \in Nat
      /\ SumFunction(held) \in Nat /\ SumFunction(held)' \in Nat
  BY <1>1 DEF AmountsTyped
<1>8. Owed' - Owed <= SumFunction(held)' - SumFunction(held)
  <2>0. /\ SumFunction(balance)' - SumFunction(balance) \in Int
        /\ Trapped' - Trapped \in Int /\ Withdrawn' - Withdrawn \in Int
    BY ONLY <1>7
  <2>1. PICK b \in Int, t \in Int, w \in Int : /\ b = SumFunction(balance)' - SumFunction(balance)
                                  /\ t = Trapped' - Trapped /\ w = Withdrawn' - Withdrawn
    BY <2>0
  <2>2. Owed' - Owed = b + 0 + t + w + 0 /\ b + t + w <= SumFunction(held)' - SumFunction(held)
    BY <1>6, <2>1
  <2> QED
    BY ONLY <2>2, b \in Int, t \in Int, w \in Int
<1>9. Backed'
  BY <1>0, <1>8, StaysBacked
<1>10. SumFunction(held)' <= MaxHeld
  BY ONLY <1>0, <1>7, SumFunction(held)' <= SumFunction(held)
<1> QED
  BY <1>9, <1>10 DEF XcmInv

\* pallet_xcm::execute starts a program of an account.
LEMMA ExecuteKeeps ==
    ASSUME XcmInv, NEW rt, NEW p \in Program, execute(rt, p)
    PROVE  XcmInv'
<1>0. XcmTypes /\ Honest
  BY DEF XcmInv
<1>1. exec = Nobody /\ exec' = Started(User, p) /\ UNCHANGED <<balance, held, inbox, outbox, trapped>>
  BY DEF execute
<1>2. User \in Location /\ User \notin Chain /\ User \notin Reserve
  BY NobodyAssumption DEF Location, Chain
<1>3. /\ Started(User, p) \in Execution /\ Started(User, p) # Nobody
      /\ Started(User, p).origin = User /\ Started(User, p).rest = p
      /\ Started(User, p).holding = 0 /\ Started(User, p).fee = 0
      /\ p # <<>>
      /\ \A i \in DOMAIN p : p[i].op = "Transact" => p[i].at \in OriginKind
  BY <1>2, StartedTyped
<1>4. XcmTypes'
  BY <1>0, <1>1, <1>3 DEF XcmTypes
<1>5. Honest'
  BY <1>0, <1>1, <1>2, <1>3 DEF Honest, Announced
<1>6. InExecution' = 0 /\ \A c \in Chain : Pending(c)' = 0
  BY <1>1, <1>2, <1>3 DEF InExecution, Pending
<1>7. SumFunction(balance)' - SumFunction(balance) = 0 /\ Trapped' - Trapped = 0 /\ Withdrawn' - Withdrawn = 0
  BY <1>0, <1>1, Untouched
<1>8. SumFunction(held) \in Nat /\ SumFunction(held)' = SumFunction(held)
  BY <1>0, <1>1, Readings
<1>9. (SumFunction(balance)' - SumFunction(balance)) + (Trapped' - Trapped)
              + (Withdrawn' - Withdrawn) <= SumFunction(held)' - SumFunction(held)
      /\ SumFunction(held)' <= SumFunction(held)
  BY ONLY <1>7, <1>8
<1> QED
  BY <1>1, <1>4, <1>5, <1>6, <1>9, OutsideKeeps

\* pallet_xcm::reserve_transfer_assets asks the reserve for no more than it burns here.
LEMMA ReserveTransferKeeps ==
    ASSUME XcmInv, NEW d \in {"Relay", "AssetHub", "Sibling"}, NEW n \in Amount, reserve_transfer_assets(d, n)
    PROVE  XcmInv'
<1>0. XcmTypes /\ Honest /\ n \in Nat
  BY XcmAssumption DEF XcmInv
<1>1. /\ exec = Nobody /\ balance[User] >= n
      /\ balance' = [balance EXCEPT ![User] = balance[User] - n]
      /\ UNCHANGED <<held, inbox, exec, trapped>>
  BY DEF reserve_transfer_assets
<1>2. PICK m \in Message : m.n = n /\ outbox' = Append(outbox, m)
  <2>1. [to |-> IF IsReserve(d) THEN d ELSE "Relay", n |-> n, op |-> "WithdrawAsset"] \in Message
    BY <1>0 DEF Message, Location, Chain, Reserve
  <2> QED
    BY <2>1 DEF reserve_transfer_assets
<1>3. /\ outbox' \in Seq(Message) /\ Withdrawn' - Withdrawn = Asked[m]
      /\ Asked[m] \in Nat /\ Asked[m] <= n
  BY <1>0, <1>2, Sent
<1>4. User \in Holder /\ balance[User] \in Nat
  BY <1>0 DEF Holder, XcmTypes
<1>5. PICK k \in Int : k = 0 - n
  BY <1>0
<1>6. balance[User] + k \in Nat /\ balance[User] - n = balance[User] + k
  BY ONLY <1>0, <1>1, <1>4, <1>5
<1>7. balance' \in [Holder -> Nat] /\ SumFunction(balance)' - SumFunction(balance) = k
  BY <1>0, <1>1, <1>4, <1>6, Paid
<1>8. XcmTypes' /\ Honest'
  BY <1>0, <1>1, <1>3, <1>7 DEF XcmTypes, Honest
<1>9. InExecution' = 0 /\ \A c \in Chain : Pending(c)' = 0
  BY <1>1 DEF InExecution, Pending
<1>10. Trapped' - Trapped = 0
  BY <1>0, <1>1, Untouched
<1>11. SumFunction(held) \in Nat /\ SumFunction(held)' = SumFunction(held)
  BY <1>0, <1>1, Readings
<1>12. (SumFunction(balance)' - SumFunction(balance)) + (Trapped' - Trapped)
              + (Withdrawn' - Withdrawn) <= SumFunction(held)' - SumFunction(held)
       /\ SumFunction(held)' <= SumFunction(held)
  BY ONLY <1>0, <1>3, <1>5, <1>7, <1>10, <1>11
<1> QED
  BY <1>1, <1>8, <1>9, <1>12, OutsideKeeps

\* The reserve pays out no more than the message asked for.
LEMMA RemoteKeeps ==
    ASSUME XcmInv, RemoteReceives
    PROVE  XcmInv'
<1>0. XcmTypes /\ Honest
  BY DEF XcmInv
<1>1. PICK q \in Seq(Message) : q = outbox /\ q # <<>>
  BY <1>0 DEF XcmTypes, RemoteReceives
<1>2. Head(q) \in Message /\ Tail(q) \in Seq(Message)
  BY <1>1
<1>3. PICK m \in Message, r \in Seq(Message) : m = Head(q) /\ r = Tail(q)
  BY <1>2
<1>4. /\ exec = Nobody /\ outbox' = r /\ UNCHANGED <<balance, inbox, exec, trapped>>
      /\ held' = IF m.op = "WithdrawAsset" /\ m.to \in Reserve /\ held[m.to] >= m.n
                 THEN [held EXCEPT ![m.to] = held[m.to] - m.n] ELSE held
  BY <1>1, <1>3 DEF RemoteReceives, BetweenBlocks
<1>5. m.n \in Nat /\ Asked[m] \in Nat /\ Asked[m] = IF m.op = "WithdrawAsset" THEN m.n ELSE 0
  BY DEF Message, Asked
<1>6. SumFunction(held) \in Nat
  BY <1>0, Readings
<1>7. /\ held' \in [Reserve -> Nat] /\ SumFunction(held)' \in Nat
      /\ SumFunction(held)' <= SumFunction(held) /\ SumFunction(held) <= SumFunction(held)' + Asked[m]
  <2>1. CASE m.op = "WithdrawAsset" /\ m.to \in Reserve /\ held[m.to] >= m.n
    <3>1. PICK f \in [Reserve -> Nat], x \in Reserve, n \in Nat : f = held /\ x = m.to /\ n = m.n
      BY <1>0, <1>5, <2>1 DEF XcmTypes
    <3>2. PICK g : g = held' /\ g = [f EXCEPT ![x] = f[x] - n]
      BY <1>4, <2>1, <3>1
    <3>3. f[x] \in Nat /\ f[x] >= n
      BY <2>1, <3>1
    <3>4. f[x] - n \in Nat
      BY ONLY <3>3, n \in Nat
    <3>5. g \in [Reserve -> Nat] /\ g[x] = f[x] - n /\ \A k \in Reserve \ {x} : g[k] = f[k]
      BY <3>2, <3>4
    <3>6. SumFunction(f) \in Nat /\ SumFunction(g) \in Nat /\ SumFunction(g) = SumFunction(f) + g[x] - f[x]
      BY ONLY <3>5, f \in [Reserve -> Nat], x \in Reserve, ReserveSums
    <3>7. SumFunction(g) <= SumFunction(f) /\ SumFunction(f) <= SumFunction(g) + n
      <4>1. PICK a \in Nat, b \in Nat, d \in Nat : a = SumFunction(f) /\ b = SumFunction(g) /\ d = f[x]
        BY <3>3, <3>6
      <4>2. b = a + (d - n) - d
        BY <3>5, <3>6, <4>1
      <4>3. b <= a /\ a <= b + n
        BY ONLY <4>2, n \in Nat, a \in Nat, b \in Nat, d \in Nat
      <4> QED
        BY <4>1, <4>3
    <3>8. Asked[m] = n
      BY <1>5, <2>1, <3>1
    <3> QED
      BY <3>1, <3>2, <3>5, <3>6, <3>7, <3>8
  <2>2. CASE ~ (m.op = "WithdrawAsset" /\ m.to \in Reserve /\ held[m.to] >= m.n)
    <3>1. held' = held
      BY <1>4, <2>2
    <3>2. held' \in [Reserve -> Nat] /\ SumFunction(held)' = SumFunction(held)
      BY <1>0, <3>1 DEF XcmTypes
    <3>3. SumFunction(held)' \in Nat /\ SumFunction(held)' <= SumFunction(held) /\ SumFunction(held) <= SumFunction(held)' + Asked[m]
      BY ONLY <1>5, <1>6, <3>2
    <3> QED
      BY <3>2, <3>3
  <2> QED
    BY <2>1, <2>2
<1>8. XcmTypes' /\ Honest'
  BY <1>0, <1>4, <1>7 DEF XcmTypes, Honest
<1>9. AmountsTyped /\ AmountsTyped'
  BY <1>0, <1>8, AmountsNow, AmountsNext
<1>10. Withdrawn' - Withdrawn = 0 - Asked[m]
  <2>1. Withdrawn = Worth(Asked, q) /\ Withdrawn' = Worth(Asked, r) /\ Withdrawn' \in Nat
    BY <1>1, <1>4, <1>9 DEF AmountsTyped
  <2>2. Worth(Asked, q) = Asked[m] + Worth(Asked, r)
    BY <1>1, <1>3, AskedSums
  <2>3. PICK a \in Nat, b \in Nat : a = Withdrawn' /\ b = Asked[m]
    BY <1>5, <2>1
  <2>4. Withdrawn = b + a
    BY <2>1, <2>2, <2>3
  <2>5. a - (b + a) = 0 - b
    OBVIOUS
  <2> QED
    BY <2>3, <2>4, <2>5
<1>11. InExecution' = 0 /\ \A c \in Chain : Pending(c)' = 0
  BY <1>4 DEF InExecution, Pending
<1>12. SumFunction(balance)' - SumFunction(balance) = 0 /\ Trapped' - Trapped = 0
  BY <1>0, <1>4, Untouched
<1>13. (SumFunction(balance)' - SumFunction(balance)) + (Trapped' - Trapped)
              + (Withdrawn' - Withdrawn) <= SumFunction(held)' - SumFunction(held)
  BY ONLY <1>5, <1>6, <1>7, <1>10, <1>12
<1> QED
  BY <1>4, <1>7, <1>8, <1>11, <1>13, OutsideKeeps

\* Every step of the messages part keeps the token backed.
LEMMA XcmStep ==
    ASSUME XcmInv, NEW rt \in Runtimes, XcmNext(rt)
    PROVE  XcmInv'
<1>1. rt \in {"devnet", "testnet", "mainnet"}
  BY RuntimeNames
<1> QED
  BY <1>1, SendingKeeps, DeliverKeeps, ExecuteKeeps, ReserveTransferKeeps, RemoteKeeps, ExecutorKeeps
     DEF XcmNext

\* At first nothing is owed.
LEMMA XcmStarts == XcmInit => XcmInv
<1> SUFFICES ASSUME XcmInit PROVE XcmInv
  OBVIOUS
<1> USE XcmAssumption
<1>1. XcmTypes /\ Honest
  <2>1. \A S : <<>> \in Seq(S)
    OBVIOUS
  <2>2. [l \in Location |-> [n \in 1..MaxHeld |-> 0]] \in [Location -> [1..MaxHeld -> Nat]]
    OBVIOUS
  <2>3. balance \in [Holder -> Nat] /\ held \in [Reserve -> Nat]
    BY DEF XcmInit
  <2>4. inbox \in [Chain -> Seq(Program)] /\ outbox \in Seq(Message)
    BY <2>1 DEF XcmInit
  <2>5. exec = Nobody /\ trapped \in [Location -> [1..MaxHeld -> Nat]]
    BY <2>2 DEF XcmInit
  <2>6. \A c \in Reserve : DOMAIN inbox[c] = {}
    BY DEF XcmInit, Chain
  <2> QED
    BY <2>3, <2>4, <2>5, <2>6 DEF XcmTypes, Honest
<1>2. SumFunction(balance) = 0 /\ SumFunction(held) = 0
  BY FiniteParties, ZeroFunction DEF XcmInit
<1>3. InExecution = 0 /\ \A c \in Chain : Pending(c) = 0
  BY DEF XcmInit, InExecution, Pending
<1>4. AmountsTyped
  BY <1>1, AmountsNow
<1>5. Withdrawn = 0 /\ \A c \in Chain : Promised(c) = 0
  <2>1. Worth(Told, <<>>) = 0 /\ Worth(Asked, <<>>) = 0
    BY SumNone DEF Worth, SumFunction
  <2> QED
    BY <1>4, <2>1 DEF AmountsTyped, XcmInit
<1>6. Trapped = 0
  <2>1. \A l \in Location : Pool(trapped[l]) = 0
    <3>1. SUFFICES ASSUME NEW l \in Location PROVE Pool(trapped[l]) = 0
      OBVIOUS
    <3>2. PICK f : f = [n \in DOMAIN trapped[l] |-> n * trapped[l][n]]
      OBVIOUS
    <3>3. trapped[l] = [n \in 1..MaxHeld |-> 0]
      BY DEF XcmInit
    <3>4. DOMAIN f = 1..MaxHeld /\ \A n \in 1..MaxHeld : f[n] = n * 0
      BY <3>2, <3>3
    <3>5. \A n \in 1..MaxHeld : n * 0 = 0
      OBVIOUS
    <3>6. IsFiniteSet(1..MaxHeld)
      BY Interval
    <3>7. SumFunction(f) = 0
      BY <3>4, <3>5, <3>6, ZeroFunction
    <3> QED
      BY <3>2, <3>7 DEF Pool
  <2>2. PICK f : f = [l \in Location |-> Pool(trapped[l])]
    OBVIOUS
  <2>3. DOMAIN f = Location /\ \A l \in Location : f[l] = 0
    BY <2>1, <2>2
  <2>4. SumFunction(f) = 0
    BY <2>3, FiniteParties, ZeroFunction
  <2> QED
    BY <1>4, <2>2, <2>4 DEF AmountsTyped, Trap
<1>7. SumFunction(Incoming) = 0
  <2>1. DOMAIN Incoming = Chain /\ \A c \in Chain : Incoming[c] = 0
    BY <1>3, <1>5 DEF Incoming
  <2> QED
    BY <2>1, FiniteParties, ZeroFunction
<1>8. Owed <= SumFunction(held)
  BY <1>2, <1>3, <1>5, <1>6, <1>7 DEF Owed
<1> QED
  BY <1>1, <1>2, <1>8, BackedNow DEF XcmInv

XcmOK == ScopeOK /\ XcmInv

LEMMA XcmAlways == Spec => []XcmOK
<1>1. Init => XcmOK
  BY XcmStarts DEF Init, XcmOK, ScopeOK
<1>2. XcmOK /\ [Next]_vars => XcmOK'
  <2> SUFFICES ASSUME XcmOK, [Next]_vars PROVE XcmOK'
    OBVIOUS
  <2>1. CASE InXcm /\ XcmNext(scope.runtime)
    <3>1. scope' = scope /\ scope.runtime \in Runtimes
      BY <2>1 DEF InXcm, XcmOK, ScopeOK
    <3> QED
      BY <2>1, <3>1, XcmStep DEF XcmOK, ScopeOK
  <2>2. CASE UNCHANGED <<scope, xcmVars>>
    <3>1. /\ scope' = scope /\ balance' = balance /\ held' = held /\ inbox' = inbox
          /\ outbox' = outbox /\ exec' = exec /\ trapped' = trapped
      BY <2>2 DEF xcmVars
    <3>2. XcmTypes' /\ Honest' /\ SumFunction(held)' <= MaxHeld
      BY <3>1 DEF XcmOK, XcmInv, XcmTypes, Honest
    <3>3. Backed'
      BY <3>1 DEF XcmOK, XcmInv, Backed, Promised, Pending, Withdrawn, Trapped, InExecution
    <3> QED
      BY <3>1, <3>2, <3>3 DEF XcmOK, ScopeOK, XcmInv
  <2> QED
    BY <2>1, <2>2 DEF Next, vars, NodeStarts, NodeCommanded, NodeProduces, InCollator, InProxies,
                      InUpgrade
<1> QED
  BY <1>1, <1>2, PTL DEF Spec

\* Every token that an account holds, a program in execution holds, a trap keeps or a
\* message carries is held by a reserve for this chain: no interleaving of deliveries,
\* executions, failures and claims mints one (Backed).
THEOREM TokenIsBacked == Spec => []Backed
<1>1. XcmOK => Backed
  BY DEF XcmOK, XcmInv
<1> QED
  BY <1>1, XcmAlways, PTL
-----------------------------------------------------------------------------
(* The types of the state.                                                 *)

\* The accounts' proxies and what they granted.
ProxyTypes ==
    /\ proxies \in [Member -> SUBSET ProxyDefinition]
    /\ granted \in [Member -> SUBSET ProxyType]

\* Sets of an account grow by elements of the type, and shrink.
LEMMA SetsKeepType ==
    ASSUME NEW D, NEW f \in [Member -> SUBSET D], NEW a
    PROVE  /\ \A d \in D : [f EXCEPT ![a] = f[a] \cup {d}] \in [Member -> SUBSET D]
           /\ \A g : [f EXCEPT ![a] = f[a] \ g] \in [Member -> SUBSET D]
<1>1. CASE a \in Member
  BY <1>1
<1>2. CASE a \notin Member
  BY <1>2
<1> QED
  BY <1>1, <1>2

\* Only add_proxy and remove_proxies touch them.
LEMMA ProxyTypesKept ==
    ASSUME ProxyTypes, NEW rt, ProxiesNext(rt)
    PROVE  ProxyTypes'
<1>1. CASE UNCHANGED <<proxies, granted>>
  BY <1>1 DEF ProxyTypes
<1>2. ASSUME NEW c \in Leaf, add_proxy(rt, c) PROVE ProxyTypes'
  <2>1. c.delegate \in Member /\ c.type \in ProxyType
    BY <1>2, ProxiesAssumption DEF add_proxy, ProxyCall
  <2>2. PICK a, p : /\ a = frame.origin.who /\ p = [delegate |-> c.delegate, type |-> c.type]
                    /\ proxies' = [proxies EXCEPT ![a] = proxies[a] \cup {p}]
                    /\ granted' = granted
                         \/ granted' = [granted EXCEPT ![a] = granted[a] \cup {c.type}]
    BY <1>2 DEF add_proxy
  <2>3. p \in ProxyDefinition
    BY <2>1, <2>2 DEF ProxyDefinition
  <2>4. proxies' \in [Member -> SUBSET ProxyDefinition]
    BY <2>2, <2>3, SetsKeepType DEF ProxyTypes
  <2>5. granted' \in [Member -> SUBSET ProxyType]
    <3>1. PICK f \in [Member -> SUBSET ProxyType], t \in ProxyType : f = granted /\ t = c.type
      BY <2>1 DEF ProxyTypes
    <3>2. [f EXCEPT ![a] = f[a] \cup {t}] \in [Member -> SUBSET ProxyType]
      BY SetsKeepType
    <3> QED
      BY <2>2, <3>1, <3>2
  <2> QED
    BY <2>4, <2>5 DEF ProxyTypes
<1>3. ASSUME NEW c \in Leaf, remove_proxies(rt, c) PROVE ProxyTypes'
  <2>1. PICK a, g : proxies' = [proxies EXCEPT ![a] = proxies[a] \ g] /\ granted' = granted
    BY <1>3 DEF remove_proxies
  <2> QED
    BY <2>1, SetsKeepType DEF ProxyTypes
<1> QED
  BY <1>1, <1>2, <1>3 DEF ProxiesNext, Submit, EnterBatch, EnterSudo, EnterProxy, Enter, Refuse,
                          DispatchOther

\* What the disk and a block come to: a process that is down holds nothing, files and
\* databases stay within their bounds, and a block is only built where it still fits.
Bounds ==
    /\ node.phase = "down" => node.tasks = {} /\ node.spec = Absent
    /\ \A id \in SpecId : db[id] = Absent \/ db[id].best <= MaxHeight
    /\ IsFiniteSet(files) /\ Cardinality(files) <= MaxFiles
    /\ block # NoBlock =>
          authored < BLOCK_PROCESSING_VELOCITY + 1 /\ db[node.spec.id].best < MaxHeight
    /\ authored \in 0..BLOCK_PROCESSING_VELOCITY + 1

\* The bounds are numbers.
LEMMA NodeBounds == MaxFiles \in Nat /\ MaxHeight \in Nat
  BY NodeAssumption

\* A file more, while there is room.
LEMMA FilesBounded ==
    ASSUME IsFiniteSet(files), Cardinality(files) <= MaxFiles, NEW s, NEW b,
           files' = IF b /\ Cardinality(files) < MaxFiles THEN files \cup {s} ELSE files
    PROVE  IsFiniteSet(files') /\ Cardinality(files') <= MaxFiles
<1>1. CASE files' = files \cup {s} /\ Cardinality(files) < MaxFiles
  <2>1. /\ IsFiniteSet(files \cup {s})
        /\ Cardinality(files \cup {s}) \in {Cardinality(files), Cardinality(files) + 1}
    BY FS_AddElement, FS_CardinalityType
  <2>2. Cardinality(files) \in Nat /\ MaxFiles \in Nat
    BY FS_CardinalityType, NodeBounds
  <2>3. Cardinality(files \cup {s}) <= MaxFiles
    BY ONLY <1>1, <2>1, <2>2
  <2> QED
    BY <1>1, <2>1, <2>3
<1>2. CASE files' = files
  BY <1>2
<1> QED
  BY <1>1, <1>2

\* A database grows by a block where one fits, or loses one, or is as it was.
LEMMA HeightsBounded ==
    ASSUME DiskInv, \A id \in SpecId : db[id] = Absent \/ db[id].best <= MaxHeight,
           NEW i \in SpecId, DbOK(i), NEW best \in Nat, best <= MaxHeight,
           db' = [db EXCEPT ![i].best = best]
    PROVE  \A id \in SpecId : db'[id] = Absent \/ db'[id].best <= MaxHeight
<1>1. db'[i] = [wasm |-> runtime(i), best |-> best]
  BY DEF DiskInv, DbOK
<1>2. \A id \in SpecId \ {i} : db'[id] = db[id]
  BY DEF DiskInv
<1> QED
  BY <1>1, <1>2

\* The steps of the start and of the commands.
LEMMA StartBounds ==
    ASSUME NodeInv, Bounds, Starts
    PROVE  Bounds'
<1>0. /\ UNCHANGED block /\ StartStep
      /\ authored' \in 0..BLOCK_PROCESSING_VELOCITY + 1
      /\ authored < BLOCK_PROCESSING_VELOCITY + 1 => authored' < BLOCK_PROCESSING_VELOCITY + 1
  <2>1. authored \in 0..2 /\ BLOCK_PROCESSING_VELOCITY + 1 = 2
    BY DEF Bounds, BLOCK_PROCESSING_VELOCITY
  <2>2. authored' \in {0, authored, IF authored = 0 THEN 0 ELSE authored - 1}
    BY DEF Starts
  <2>3. authored' \in 0..2 /\ (authored < 2 => authored' < 2)
    BY <2>1, <2>2
  <2> QED
    BY <2>1, <2>3 DEF Starts
<1>a. node.phase \in {"down", "configured", "partial"} => block = NoBlock
  BY DEF NodeInv, ProcessInv, BuildingInv
<1>1. CASE RunOffline
  <2>1. /\ node.phase = "configured" /\ node' = Down
        /\ files' = IF node.command = "build-spec" /\ Cardinality(files) < MaxFiles
                    THEN files \cup {node.spec} ELSE files
        /\ db' = IF node.command = "purge-chain" THEN [db EXCEPT ![node.spec.id] = Absent] ELSE db
    BY <1>1 DEF RunOffline
  <2>2. IsFiniteSet(files') /\ Cardinality(files') <= MaxFiles
    BY <2>1, FilesBounded DEF Bounds
  <2>3. \A id \in SpecId : db'[id] = Absent \/ db'[id] = db[id]
    BY <2>1 DEF NodeInv, DiskInv
  <2>4. node'.tasks = {} /\ node'.spec = Absent
    BY <2>1 DEF Down
  <2> QED
    BY <1>0, <1>a, <2>1, <2>2, <2>3, <2>4 DEF Bounds
<1>2. CASE Panic
  BY <1>0, <1>2, <1>a DEF Panic, Stop, Down, disk, Bounds
<1>3. CASE new_partial
  <2> DEFINE id == node.spec.id
  <2>1. /\ node.phase = "configured" /\ UNCHANGED files
        /\ node'.phase = "partial"
        /\ db' = IF db[id] # Absent THEN db
                 ELSE [db EXCEPT ![id] = [wasm |-> node.spec.wasm, best |-> 0]]
    BY <1>3 DEF new_partial, NodeInv, ProcessInv
  <2>2. ASSUME NEW i \in SpecId
        PROVE  db'[i] = db[i] \/ db'[i] = [wasm |-> node.spec.wasm, best |-> 0]
    BY <2>1 DEF NodeInv, DiskInv
  <2>3. 0 <= MaxHeight
    BY NodeBounds
  <2> QED
    BY <1>0, <1>a, <2>1, <2>2, <2>3 DEF Bounds
<1>4. CASE RunOnDatabase
  <2> DEFINE id == node.spec.id
  <2>1. /\ node.phase = "partial" /\ node' = Down
        /\ files' = IF node.command = "export-state" /\ Cardinality(files) < MaxFiles
                    THEN files \cup {[node.spec EXCEPT !.wasm = db[id].wasm]} ELSE files
    BY <1>4 DEF RunOnDatabase
  <2>2. id \in SpecId /\ DbOK(id)
    BY <2>1, KnownSpecs DEF NodeInv, ProcessInv, Opened, Phase
  <2>3. \/ db' = db
        \/ \E best \in Nat : best <= MaxHeight /\ db' = [db EXCEPT ![id].best = best]
    <3>0. db[id].best \in Nat /\ db[id].best <= MaxHeight /\ MaxHeight \in Nat
      <4>1. db[id] # Absent
        <5>1. runtime(id) \in {"devnet", "testnet", "mainnet"}
          BY DEF runtime
        <5>2. db[id] \in Database
          BY <2>2, <5>1 DEF DbOK, Database
        <5> QED
          BY <5>2, AbsentAssumption
      <4> QED
        BY <2>2, <4>1, NodeBounds DEF Bounds, DbOK
    <3>1. CASE db' = [db EXCEPT ![id].best = db[id].best + 1] /\ CanGrow(id)
      <4>1. db[id].best + 1 \in Nat /\ db[id].best + 1 <= MaxHeight
        BY <3>0, <3>1 DEF CanGrow
      <4> QED
        BY <3>1, <4>1
    <3>2. CASE db' = [db EXCEPT ![id].best = db[id].best - 1] /\ db[id].best > included[id]
      <4>1. included[id] \in Nat
        BY <2>2 DEF NodeInv, DiskInv
      <4>2. db[id].best - 1 \in Nat /\ db[id].best - 1 <= MaxHeight
        BY <3>0, <3>2, <4>1
      <4> QED
        BY <3>2, <4>2
    <3> QED
      BY <1>4, <3>1, <3>2 DEF RunOnDatabase
  <2>4. \A i \in SpecId : db'[i] = Absent \/ db'[i].best <= MaxHeight
    BY <2>2, <2>3, HeightsBounded DEF NodeInv, Bounds
  <2>5. IsFiniteSet(files') /\ Cardinality(files') <= MaxFiles
    BY <2>1, FilesBounded DEF Bounds
  <2>6. node'.tasks = {} /\ node'.spec = Absent
    BY <2>1 DEF Down
  <2> QED
    BY <1>0, <1>a, <2>1, <2>4, <2>5, <2>6 DEF Bounds
<1>5. ASSUME NEW from, NEW to, NEW tasks, to # "down", Step(from, to, tasks)
      PROVE  Bounds'
  <2>1. node'.phase = to /\ node'.spec = node.spec /\ UNCHANGED <<files, db>>
    BY <1>5 DEF Step, disk, NodeInv, ProcessInv
  <2> QED
    BY <1>0, <1>5, <2>1 DEF Bounds
<1> QED
  BY <1>0, <1>1, <1>2, <1>3, <1>4, <1>5
     DEF StartStep, build_relay_chain_interface, build_network, spawn_offchain_workers,
         spawn_tasks, start_relay_chain_tasks, start_consensus, start_network

\* The production of blocks.
LEMMA ProduceBounds ==
    ASSUME NodeInv, Bounds, Produces
    PROVE  Bounds'
<1> DEFINE id == node.spec.id
<1>a. BLOCK_PROCESSING_VELOCITY + 1 = 2
  BY DEF BLOCK_PROCESSING_VELOCITY
<1>b. ASSUME node.phase \in Opened
      PROVE  id \in SpecId /\ DbOK(id) /\ db[id].best \in Nat /\ node.phase # "down"
  BY <1>b, KnownSpecs DEF NodeInv, ProcessInv, Opened, DbOK
<1>1. ASSUME NEW v, NEW w, NEW x, StartBlock(v, w, x) PROVE Bounds'
  BY <1>1 DEF StartBlock, can_build_upon, disk, Bounds
<1>2. ASSUME NEW class, NEW w, ApplyExtrinsic(class, w) PROVE Bounds'
  BY <1>2 DEF ApplyExtrinsic, apply_extrinsic, disk, Bounds
<1>3. ASSUME NEW w, SealBlock(w) PROVE Bounds'
  <2>1. /\ block # NoBlock /\ block' = NoBlock /\ authored' = authored + 1
        /\ db' = [db EXCEPT ![id].best = db[id].best + 1] /\ UNCHANGED <<node, files>>
    BY <1>3 DEF SealBlock, finalize_block
  <2>2. node.phase \in Opened
    BY <2>1 DEF NodeInv, BuildingInv, ProcessInv, Opened, Phase
  <2>3. PICK best \in Nat : best = db[id].best + 1 /\ best <= MaxHeight
    BY <1>b, <2>1, <2>2, NodeBounds DEF Bounds
  <2>4. \A i \in SpecId : db'[i] = Absent \/ db'[i].best <= MaxHeight
    BY <1>b, <2>1, <2>2, <2>3, HeightsBounded DEF NodeInv, Bounds
  <2>5. authored' \in 0..BLOCK_PROCESSING_VELOCITY + 1
    BY <1>a, <2>1 DEF Bounds
  <2> QED
    BY <2>1, <2>4, <2>5 DEF Bounds
<1>4. CASE ImportBlock
  <2>1. /\ "network" \in node.tasks /\ block = NoBlock /\ CanGrow(id)
        /\ db' = [db EXCEPT ![id].best = db[id].best + 1] /\ UNCHANGED <<node, files, block, authored>>
    BY <1>4 DEF ImportBlock
  <2>2. node.phase \in Opened
    BY <2>1 DEF NodeInv, ProcessInv, Opened, Phase
  <2>3. PICK best \in Nat : best = db[id].best + 1 /\ best <= MaxHeight
    BY <1>b, <2>1, <2>2, NodeBounds DEF CanGrow
  <2>4. \A i \in SpecId : db'[i] = Absent \/ db'[i].best <= MaxHeight
    BY <1>b, <2>1, <2>2, <2>3, HeightsBounded DEF NodeInv, Bounds
  <2> QED
    BY <2>1, <2>4 DEF Bounds
<1>5. ASSUME NEW i \in SpecId, RelayIncludes(i) PROVE Bounds'
  BY <1>5 DEF RelayIncludes, Bounds
<1>6. CASE NextSlot
  BY <1>6, <1>a DEF NextSlot, disk, Bounds
<1> QED
  BY <1>1, <1>2, <1>3, <1>4, <1>5, <1>6 DEF Produces

\* A process is launched, or ends.
LEMMA LaunchBounds ==
    ASSUME NodeInv, Bounds,
           \/ /\ UNCHANGED <<block, authored>>
              /\ \E command, arg, validator, offchain, relay :
                    Launch(command, arg, validator, offchain, relay)
           \/ Ends
    PROVE  Bounds'
<1>1. ASSUME NEW command, NEW arg, NEW validator, NEW offchain, NEW relay,
             Launch(command, arg, validator, offchain, relay), UNCHANGED <<block, authored>>
      PROVE  Bounds'
  <2>1. /\ node.phase = "down" /\ node'.phase = "configured" /\ UNCHANGED <<files, db>>
    BY <1>1 DEF Launch, Down, disk
  <2>2. block = NoBlock
    BY <2>1 DEF NodeInv, ProcessInv, BuildingInv
  <2> QED
    BY <1>1, <2>1, <2>2 DEF Bounds
<1>2. CASE Ends
  BY <1>2 DEF Ends, Exit, Stop, Down, disk, Bounds
<1> QED
  BY <1>1, <1>2

\* The bounds hold throughout.
LEMMA BoundsAlways == Spec => []Bounds
<1>1. Init => Bounds
  <2> SUFFICES ASSUME Init PROVE Bounds
    OBVIOUS
  <2>1. IsFiniteSet({}) /\ Cardinality({}) = 0
    BY FS_EmptySet
  <2>2. node.tasks = {} /\ node.spec = Absent
    BY DEF Init, CollatorInit, NodeInit, Down
  <2>3. /\ files = {} /\ block = NoBlock /\ authored = 0
        /\ \A id \in SpecId : db[id] = Absent
    BY DEF Init, CollatorInit, NodeInit
  <2> QED
    BY <2>1, <2>2, <2>3, NodeBounds DEF Bounds, BLOCK_PROCESSING_VELOCITY
<1>2. NodeInv /\ Bounds /\ [Next]_vars => Bounds'
  <2> SUFFICES ASSUME NodeInv, Bounds, [Next]_vars PROVE Bounds'
    OBVIOUS
  <2>1. CASE Starts
    BY <2>1, StartBounds
  <2>2. CASE (RunSubcommand \/ RunService \/ RunCollator) /\ UNCHANGED <<block, authored>>
    BY <2>2, LaunchBounds DEF RunSubcommand, RunService, RunCollator
  <2>3. CASE Ends
    BY <2>3, LaunchBounds
  <2>4. CASE Produces
    BY <2>4, ProduceBounds
  <2>5. CASE UNCHANGED collatorVars
    BY <2>5 DEF collatorVars, disk, Bounds
  <2> QED
    BY <2>1, <2>2, <2>3, <2>4, <2>5
       DEF Next, vars, NodeStarts, NodeCommanded, NodeProduces, InProxies, InXcm, InUpgrade
<1> QED
  BY <1>1, <1>2, NodeInvariant, PTL DEF Spec

\* Balances are within what the reserves hold, and that is within its bound.
LEMMA AmountsBounded ==
    ASSUME XcmInv
    PROVE  balance \in [Holder -> 0..MaxHeld] /\ held \in [Reserve -> 0..MaxHeld]
<1>1. /\ XcmTypes /\ AmountsTyped /\ MaxHeld \in Nat /\ SumFunction(held) <= MaxHeld
      /\ Owed <= SumFunction(held)
  BY AmountsNow, BackedNow, XcmAssumption DEF XcmInv
<1>2. /\ SumFunction(balance) \in Nat /\ InExecution \in Nat /\ Trapped \in Nat /\ Withdrawn \in Nat
      /\ SumFunction(Incoming) \in Nat /\ SumFunction(held) \in Nat
  BY <1>1 DEF AmountsTyped
<1>3. SumFunction(balance) <= MaxHeld
  BY <1>1, <1>2 DEF Owed
<1>4. balance \in [Holder -> 0..MaxHeld]
  <2>1. PICK f \in [Holder -> Nat] : f = balance
    BY <1>1 DEF XcmTypes
  <2>2. \A a \in Holder : f[a] <= SumFunction(f)
    BY FiniteParties, SumNat
  <2>3. \A a \in Holder : f[a] \in 0..MaxHeld
    BY <1>1, <1>2, <1>3, <2>1, <2>2
  <2> QED
    BY <2>1, <2>3
<1>5. held \in [Reserve -> 0..MaxHeld]
  <2>1. PICK f \in [Reserve -> Nat] : f = held
    BY <1>1 DEF XcmTypes
  <2>2. \A a \in Reserve : f[a] <= SumFunction(f)
    BY FiniteParties, SumNat
  <2>3. \A a \in Reserve : f[a] \in 0..MaxHeld
    BY <1>1, <1>2, <2>1, <2>2
  <2> QED
    BY <2>1, <2>3
<1> QED
  BY <1>4, <1>5

\* The process and the databases.
LEMMA NodeTyped ==
    ASSUME NodeInv, Bounds
    PROVE  NodeTypeOK /\ (node.phase \notin {"down", "configured"} => db[node.spec.id] # Absent)
<1>1. node.phase # "down" => node.spec \in KnownSpec /\ node.spec.id \in SpecId
  BY KnownSpecs DEF NodeInv, ProcessInv
<1>2. node.phase # "down" => node.spec # Absent
  BY <1>1, AbsentAssumption
<1>3. ASSUME NEW id, DbOK(id) PROVE db[id] # Absent
  <2>1. runtime(id) \in {"devnet", "testnet", "mainnet"}
    BY DEF runtime
  <2>2. db[id] \in Database
    BY <1>3, <2>1 DEF DbOK, Database
  <2> QED
    BY <2>2, AbsentAssumption
<1>4. \A id \in SpecId : db[id] = Absent \/ db[id].best \in 0..MaxHeight
  BY NodeBounds DEF NodeInv, DiskInv, DbOK, Bounds
<1>5. node.phase \notin {"down", "configured"} => DbOK(node.spec.id)
  BY DEF NodeInv, ProcessInv, Opened
<1> QED
  BY <1>1, <1>2, <1>3, <1>4, <1>5 DEF NodeTypeOK, Bounds

\* The state keeps its types: proxies are granted definitions, balances amounts the
\* reserves hold, a process that is down holds nothing, a process past new_partial has a
\* database open, and a slot is used no more often than the velocity allows (TypeOK).
THEOREM StateIsTyped == Spec => []TypeOK
<1>1. Init => ProxyTypes
  BY DEF Init, ProxiesInit, ProxyTypes
<1>2. ProxyTypes /\ [Next]_vars => ProxyTypes'
  <2> SUFFICES ASSUME ProxyTypes, [Next]_vars PROVE ProxyTypes'
    OBVIOUS
  <2>1. CASE ProxiesNext(scope.runtime)
    BY <2>1, ProxyTypesKept
  <2>2. CASE UNCHANGED proxiesVars
    BY <2>2 DEF proxiesVars, ProxyTypes
  <2> QED
    BY <2>1, <2>2 DEF Next, vars, NodeStarts, NodeCommanded, NodeProduces, InCollator, InXcm,
                      InUpgrade
<1>3. ProxyTypes /\ XcmOK /\ NodeInv /\ Bounds => TypeOK
  BY AmountsBounded, NodeTyped DEF XcmOK, ProxyTypes, Bounds, TypeOK
<1> QED
  BY <1>1, <1>2, <1>3, XcmAlways, NodeInvariant, BoundsAlways, PTL DEF Spec
=============================================================================
