---------------------------- MODULE PopApiProofs ----------------------------
(***************************************************************************)
(* Proofs about the fungibles API, for any accounts, tokens, deposits,     *)
(* messages, requests and gas limits.  They have two layers: what the      *)
(* operations of the fungibles pallet do to a ledger, and the path of a    *)
(* contract call through the chain extension, which dispatches at most one *)
(* of them.                                                                *)
(***************************************************************************)
EXTENDS PopApiProperties, TLAPS, FiniteSetTheorems

\* The units of a token, each of them once, that accounts with these balances hold.
Units(m) == {p \in AccountId \X (1..BalanceMax) : p[2] <= m[p[1]]}

\* Nothing is stored for token t.
Blank(l, t) ==
    /\ \A a \in AccountId : l.account[t][a] = 0
    /\ \A a, b \in AccountId : l.approval[t][a][b] = None
    /\ l.metadata[t] = None

\* The supply is what accounts hold, and none of them holds less than the minimum.
Counted(l, t) ==
    /\ l.asset[t].min_balance > 0
    /\ l.asset[t].supply = Cardinality(Units(l.account[t]))
    /\ \A a \in AccountId : l.account[t][a] = 0 \/ l.account[t][a] >= l.asset[t].min_balance

\* The native funds of account a are its initial ones, less its deposits.
Funded(l, a) ==
    /\ l.bal.reserved[a] = Deposits(l, a)
    /\ l.bal.free[a] = InitialFree[a] - Deposits(l, a)

\* What every operation of the pallet keeps.
Sound(l) ==
    /\ l \in Ledger
    /\ \A t \in TokenId : IF l.asset[t] = None THEN Blank(l, t) ELSE Counted(l, t)
    /\ \A a \in AccountId : Funded(l, a)

\* The call that a message of the example contract has dispatched or read.
MessageCall(m) ==
    LET name == IF m.name = "new" THEN "create" ELSE m.name IN
    [pallet |-> "Fungibles", name |-> name, token |-> Token,
     who |-> IF m.name = "new" THEN Contract ELSE m.who,
     other |-> IF m.name = "new" THEN None ELSE m.other, value |-> m.value]

\* The request in progress.
Asked == Request(env.id, env.input, env.room)

\* The result of a call on the ledger from which the contract call started.
Outcome(call) == DispatchCall(frame.saved, frame.contract, call)

FrameInv ==
    frame # None =>
        /\ Sound(frame.saved)
        /\ frame.stage = "done" <=> env = None
        /\ frame.work <= frame.spent
        /\ frame.contract = Contract =>
              frame.message \in MessageType /\ Typed(frame.message.name, frame.message)
        /\ frame.stage = "allowance" =>
              frame.contract = Contract /\ ReadsAllowance(frame.message)
        /\ frame.stage = "api" => frame.events = <<>>
        /\ frame.contract = Contract /\ frame.stage # "done" =>
              /\ frame.message.name # "transfer_ownership" /\ ~ NoOp(frame.message)
              /\ Asked = IF frame.stage = "api" THEN RequestOf(frame.message)
                         ELSE ApiRequest("allowance", Token, AllowanceOf(frame.message)[1],
                                         AllowanceOf(frame.message)[2], 0)
              /\ EnsureOwner(frame.message, frame.caller)

EnvInv ==
    env # None =>
        /\ frame # None
        /\ WellFormed(Asked)
        /\ env.phase \in {"charge", "dispatch", "convert", "read", "write", "returned"} =>
              env.call # None /\ env.call = Decoded(env.id, env.input)
        /\ env.phase \in {"dispatch", "convert"} => MatchedFunction(env.id) = "dispatch"
        /\ env.phase \in {"read", "write"} => MatchedFunction(env.id) = "read"
        /\ env.phase = "dispatch" => env.charged = PreDispatchWeight(env.call)
                                     /\ frame.work + env.charged <= frame.spent
        /\ env.phase = "read" => frame.work + 1 <= frame.spent
        /\ env.phase \in {"called", "decode", "charge", "dispatch", "read", "write"} =>
              env.error = None
        /\ env.phase \in {"write", "returned"} /\ MatchedFunction(env.id) = "read" =>
              env.value = Read(ledger, env.call)
        /\ env.phase = "returned" =>
              /\ env.status # None
              /\ Succeeded(env.status) <=> env.error = None
              /\ env.error # None => FromStatus(env.status) = V0Error(env.error)
              /\ MatchedFunction(env.id) # "dispatch" => env.error = None

\* A contract call has dispatched nothing yet, or one call.
EffectInv ==
    frame # None =>
        /\ frame.stage = "api" /\ env.phase # "trapped" =>
              IF env.phase \in {"convert", "returned"} /\ MatchedFunction(env.id) = "dispatch"
              THEN ledger = Outcome(env.call).ledger /\ env.error = Outcome(env.call).error
              ELSE ledger = frame.saved
        /\ frame.stage = "allowance" =>
              /\ Outcome(MessageCall(frame.message)).error = None
              /\ ledger = Outcome(MessageCall(frame.message)).ledger
              /\ frame.events = EventsOf(frame.message)
        /\ frame.stage = "done" => FailuresLeaveNoTrace

Inv ==
    /\ Sound(ledger)
    /\ owner \in Option(AccountId)
    /\ frame \in Option(FrameType)
    /\ env \in Option(EnvType)
    /\ FrameInv
    /\ EnvInv
    /\ EffectInv
-----------------------------------------------------------------------------
(* Counting the units of a token *)

\* An account that gets n units adds them to the units there are.
LEMMA UnitsRaised ==
    ASSUME NEW m \in [AccountId -> Balance], NEW a \in AccountId, NEW n \in Nat,
           m[a] + n \in Balance
    PROVE  /\ IsFiniteSet(Units(m)) /\ Cardinality(Units(m)) \in Nat
           /\ Cardinality(Units([m EXCEPT ![a] = @ + n])) = Cardinality(Units(m)) + n
<1> DEFINE more == {a} \X ((m[a] + 1)..(m[a] + n))
           new  == [m EXCEPT ![a] = @ + n]
<1>0. BalanceMax \in Nat /\ IsFiniteSet(AccountId) /\ m[a] \in 0..BalanceMax
  BY AssetsAssumption DEF Balance
<1>1. IsFiniteSet(AccountId \X (1..BalanceMax))
  <2>1. IsFiniteSet(1..BalanceMax)
    BY <1>0, FS_Interval
  <2> QED
    BY <1>0, <2>1, FS_Product
<1>2. Units(m) \in SUBSET (AccountId \X (1..BalanceMax))
  BY DEF Units
<1>3. IsFiniteSet(Units(m)) /\ Cardinality(Units(m)) \in Nat
  BY <1>1, <1>2, FS_Subset, FS_CardinalityType
<1>4. IsFiniteSet((m[a] + 1)..(m[a] + n)) /\ Cardinality((m[a] + 1)..(m[a] + n)) = n
  <2>1. m[a] + 1 \in Int /\ m[a] + n \in Int
    BY <1>0
  <2>2. /\ IsFiniteSet((m[a] + 1)..(m[a] + n))
        /\ Cardinality((m[a] + 1)..(m[a] + n))
              = IF m[a] + 1 > m[a] + n THEN 0 ELSE (m[a] + n) - (m[a] + 1) + 1
    BY <2>1, FS_Interval
  <2>3. (IF m[a] + 1 > m[a] + n THEN 0 ELSE (m[a] + n) - (m[a] + 1) + 1) = n
    BY <1>0
  <2> QED
    BY <2>2, <2>3
<1>5. IsFiniteSet({a}) /\ Cardinality({a}) = 1
  BY FS_Singleton
<1>6. IsFiniteSet(more) /\ Cardinality(more) = n
  <2> DEFINE added == (m[a] + 1)..(m[a] + n)
  <2>1. IsFiniteSet({a} \X added) /\ Cardinality({a} \X added) = Cardinality({a}) * Cardinality(added)
    BY <1>4, <1>5, FS_Product
  <2> QED
    BY <1>4, <1>5, <2>1
<1>7. ASSUME NEW p \in AccountId \X (1..BalanceMax)
      PROVE  p \in Units(new) <=> p \in Units(m) \/ p \in more
  <2>1. CASE p[1] = a
    BY <1>0, <1>7, <2>1 DEF Units, Balance
  <2>2. CASE p[1] # a
    BY <1>0, <1>7, <2>2 DEF Units, Balance
  <2> QED
    BY <2>1, <2>2
<1>8. more \subseteq AccountId \X (1..BalanceMax)
  BY <1>0 DEF Balance
<1>9. Units(new) = Units(m) \cup more
  BY <1>7, <1>8 DEF Units
<1>10. Units(m) \cap more = {}
  BY <1>0 DEF Units
<1>11. Cardinality(Units(m) \cup more) = Cardinality(Units(m)) + n
  <2> HIDE DEF more
  <2>1. Cardinality(Units(m) \cap more) = 0
    BY <1>10, FS_EmptySet
  <2>2. Cardinality(Units(m) \cup more)
          = Cardinality(Units(m)) + Cardinality(more) - Cardinality(Units(m) \cap more)
    BY <1>3, <1>6, FS_Union
  <2> QED
    BY <1>3, <1>6, <2>1, <2>2
<1> QED
  BY <1>3, <1>9, <1>11

\* An account that loses n units takes them away; so it held no more than there are.
LEMMA UnitsLowered ==
    ASSUME NEW m \in [AccountId -> Balance], NEW a \in AccountId, NEW n \in 0..m[a]
    PROVE  /\ [m EXCEPT ![a] = @ - n] \in [AccountId -> Balance]
           /\ Cardinality(Units([m EXCEPT ![a] = @ - n])) = Cardinality(Units(m)) - n
           /\ n <= Cardinality(Units(m)) /\ Cardinality(Units(m)) \in Nat
<1> DEFINE old == [m EXCEPT ![a] = @ - n]
<1>1. old \in [AccountId -> Balance] /\ old[a] = m[a] - n /\ n \in Nat /\ m[a] \in Balance
      /\ old[a] \in Nat /\ old[a] + n = m[a]
  BY AssetsAssumption DEF Balance
<1>2. [old EXCEPT ![a] = @ + n] = m
  BY <1>1
<1>3. Cardinality(Units(old)) \in Nat
      /\ Cardinality(Units([old EXCEPT ![a] = @ + n])) = Cardinality(Units(old)) + n
  <2> HIDE DEF old
  <2> QED
    BY <1>1, UnitsRaised
<1>4. Cardinality(Units(m)) = Cardinality(Units(old)) + n
  BY <1>2, <1>3
<1>5. /\ Cardinality(Units(old)) = Cardinality(Units(m)) - n
      /\ n <= Cardinality(Units(m)) /\ Cardinality(Units(m)) \in Nat
  <2> HIDE DEF old
  <2> QED
    BY <1>1, <1>3, <1>4
<1> QED
  BY <1>1, <1>5

\* Units that move between accounts stay as many.
LEMMA UnitsMoved ==
    ASSUME NEW m \in [AccountId -> Balance], NEW a \in AccountId, NEW b \in AccountId, a # b,
           NEW n \in 0..m[a], m[b] + n \in Balance
    PROVE  /\ Shifted(m, a, b, n) \in [AccountId -> Balance]
           /\ Cardinality(Units(Shifted(m, a, b, n))) = Cardinality(Units(m))
<1> DEFINE mid == [m EXCEPT ![a] = @ - n]
<1>1. /\ mid \in [AccountId -> Balance] /\ Cardinality(Units(m)) \in Nat
      /\ Cardinality(Units(mid)) = Cardinality(Units(m)) - n
  BY UnitsLowered
<1>2. mid[b] = m[b] /\ n \in Nat
  BY AssetsAssumption DEF Balance
<1>3. Shifted(m, a, b, n) = [mid EXCEPT ![b] = @ + n]
  BY DEF Shifted
<1>4. /\ Cardinality(Units([mid EXCEPT ![b] = @ + n])) = Cardinality(Units(mid)) + n
      /\ [mid EXCEPT ![b] = @ + n] \in [AccountId -> Balance]
  <2> HIDE DEF mid
  <2> QED
    BY <1>1, <1>2, UnitsRaised
<1> QED
  BY <1>1, <1>2, <1>3, <1>4

\* Where nobody holds anything there are no units.
LEMMA NoUnits ==
    ASSUME NEW m \in [AccountId -> Balance], \A a \in AccountId : m[a] = 0
    PROVE  Cardinality(Units(m)) = 0
<1>1. Units(m) = {}
  BY DEF Units
<1> QED
  BY <1>1, FS_EmptySet
-----------------------------------------------------------------------------
(* Deposits *)

\* The sets that deposits are counted by are finite.
LEMMA DepositSets ==
    ASSUME NEW l, NEW a
    PROVE  /\ IsFiniteSet(Given(l, a)) /\ Cardinality(Given(l, a)) \in Nat
           /\ IsFiniteSet(Owned(l, a)) /\ Cardinality(Owned(l, a)) \in Nat
           /\ IsFiniteSet(Described(l, a)) /\ Cardinality(Described(l, a)) \in Nat
           /\ Deposits(l, a) \in Nat
<1>1. IsFiniteSet(TokenId \X AccountId)
  BY AssetsAssumption, FS_Product
<1>2. Given(l, a) \in SUBSET (TokenId \X AccountId)
  BY DEF Given
<1>3. Owned(l, a) \in SUBSET TokenId /\ Described(l, a) \in SUBSET TokenId
  BY DEF Owned, Described
<1>4. /\ IsFiniteSet(Given(l, a)) /\ Cardinality(Given(l, a)) \in Nat
  BY <1>1, <1>2, FS_Subset, FS_CardinalityType
<1>5. /\ IsFiniteSet(Owned(l, a)) /\ Cardinality(Owned(l, a)) \in Nat
      /\ IsFiniteSet(Described(l, a)) /\ Cardinality(Described(l, a)) \in Nat
  BY <1>3, AssetsAssumption, FS_Subset, FS_CardinalityType
<1>6. \A x, y \in Nat : x * y \in Nat
  OBVIOUS
<1> QED
  BY <1>4, <1>5, <1>6, AssetsAssumption DEF Deposits

\* A deposit more for each element more.
LEMMA OneMore ==
    ASSUME NEW d \in Nat, NEW S, IsFiniteSet(S), NEW x, x \notin S
    PROVE  d * Cardinality(S \cup {x}) = d * Cardinality(S) + d
<1>1. Cardinality(S \cup {x}) = Cardinality(S) + 1 /\ Cardinality(S) \in Nat
  BY FS_AddElement, FS_CardinalityType
<1>2. \A n \in Nat : d * (n + 1) = d * n + d
  OBVIOUS
<1> QED
  BY <1>1, <1>2

\* Deposits depend on who gave approvals, who owns tokens and which have metadata.
LEMMA SameDeposits ==
    ASSUME NEW l, NEW k, NEW a, Given(k, a) = Given(l, a), Owned(k, a) = Owned(l, a),
           Described(k, a) = Described(l, a)
    PROVE  Deposits(k, a) = Deposits(l, a)
BY DEF Deposits

\* k is l with v as an approval.
SetsApproval(l, k, t, o, d, v) ==
    /\ k.asset = l.asset /\ k.metadata = l.metadata
    /\ k.approval = [l.approval EXCEPT ![t][o][d] = v]

LEMMA ApprovalDeposits ==
    ASSUME NEW l \in Ledger, NEW k, NEW t \in TokenId, NEW o \in AccountId, NEW d \in AccountId,
           NEW v, v # None, SetsApproval(l, k, t, o, d, v), NEW a \in AccountId
    PROVE  Deposits(k, a) = Deposits(l, a)
                + (IF a = o /\ l.approval[t][o][d] = None THEN ApprovalDeposit ELSE 0)
<1> k.approval = [l.approval EXCEPT ![t][o][d] = v]
  BY DEF SetsApproval
<1>1. Owned(k, a) = Owned(l, a) /\ Described(k, a) = Described(l, a)
  BY DEF Owned, Described, SetsApproval
<1>2. l.approval \in [TokenId -> [AccountId -> [AccountId -> Option(Balance)]]]
  BY DEF Ledger
<1>3. CASE a = o /\ l.approval[t][o][d] = None
  <2>1. Given(k, a) = Given(l, a) \cup {<<t, d>>} /\ <<t, d>> \notin Given(l, a)
    <3>1. ASSUME NEW p \in TokenId \X AccountId
          PROVE  p \in Given(k, a) <=> p \in Given(l, a) \/ p = <<t, d>>
      <4>1. PICK u \in TokenId, b \in AccountId : p = <<u, b>>
        OBVIOUS
      <4>2. p[1] = u /\ p[2] = b /\ (p = <<t, d>> <=> u = t /\ b = d)
        BY <4>1
      <4>3. k.approval[u][o][b] = IF u = t /\ b = d THEN v ELSE l.approval[u][o][b]
        BY <1>2
      <4> QED
        BY <1>3, <4>1, <4>2, <4>3 DEF Given
    <3> QED
      BY <1>3, <3>1 DEF Given
  <2>2. ApprovalDeposit * Cardinality(Given(k, a))
           = ApprovalDeposit * Cardinality(Given(l, a)) + ApprovalDeposit
    BY <2>1, DepositSets, OneMore, AssetsAssumption
  <2>3. \A x, y \in Nat : x * y \in Nat
    OBVIOUS
  <2> QED
    BY <1>1, <1>3, <2>2, <2>3, DepositSets, AssetsAssumption DEF Deposits
<1>4. CASE ~ (a = o /\ l.approval[t][o][d] = None)
  <2>1. ASSUME NEW p \in TokenId \X AccountId
        PROVE  p \in Given(k, a) <=> p \in Given(l, a)
    <3>1. PICK u \in TokenId, b \in AccountId : p = <<u, b>>
      OBVIOUS
    <3>2. p[1] = u /\ p[2] = b
      BY <3>1
    <3>3. k.approval[u][a][b] = IF u = t /\ a = o /\ b = d THEN v ELSE l.approval[u][a][b]
      BY <1>2
    <3> QED
      BY <1>4, <3>1, <3>2, <3>3 DEF Given
  <2>2. Given(k, a) = Given(l, a)
    BY <2>1 DEF Given
  <2> QED
    BY <1>1, <1>4, <2>2, SameDeposits, DepositSets
<1> QED
  BY <1>3, <1>4

\* k is l with x as the details of a token.
SetsAsset(l, k, t, x) ==
    /\ k.asset = [l.asset EXCEPT ![t] = x]
    /\ k.metadata = l.metadata /\ k.approval = l.approval

LEMMA AssetDeposits ==
    ASSUME NEW l \in Ledger, NEW k, NEW t \in TokenId, NEW x, x # None, NEW a \in AccountId,
           SetsAsset(l, k, t, x), l.asset[t] = None, l.metadata[t] = None
    PROVE  Deposits(k, a) = Deposits(l, a) + (IF x.owner = a THEN AssetDeposit ELSE 0)
<1> /\ k.asset = [l.asset EXCEPT ![t] = x]
    /\ k.metadata = l.metadata /\ k.approval = l.approval
  BY DEF SetsAsset
<1>1. l.asset \in [TokenId -> Option(AssetDetails)]
  BY DEF Ledger
<1>2. Given(k, a) = Given(l, a)
  BY DEF Given
<1>3. Owned(k, a) = IF x.owner = a THEN Owned(l, a) \cup {t} ELSE Owned(l, a)
  BY <1>1 DEF Owned
<1>4. t \notin Owned(l, a)
  BY DEF Owned
<1>5. Described(k, a) = Described(l, a)
  BY <1>3 DEF Described
<1>6. CASE x.owner = a
  <2>1. AssetDeposit * Cardinality(Owned(k, a)) = AssetDeposit * Cardinality(Owned(l, a)) + AssetDeposit
    BY <1>3, <1>4, <1>6, DepositSets, OneMore, AssetsAssumption
  <2>2. \A i, j \in Nat : i * j \in Nat
    OBVIOUS
  <2> QED
    BY <1>2, <1>5, <1>6, <2>1, <2>2, DepositSets, AssetsAssumption DEF Deposits
<1>7. CASE x.owner # a
  BY <1>2, <1>3, <1>5, <1>7, SameDeposits, DepositSets
<1> QED
  BY <1>6, <1>7

\* Deposits do not depend on other details than the owner.
LEMMA DetailDeposits ==
    ASSUME NEW l \in Ledger, NEW k, NEW t \in TokenId, NEW x, x # None, NEW a \in AccountId,
           SetsAsset(l, k, t, x), l.asset[t] # None, x.owner = l.asset[t].owner
    PROVE  Deposits(k, a) = Deposits(l, a)
<1> /\ k.asset = [l.asset EXCEPT ![t] = x]
    /\ k.metadata = l.metadata /\ k.approval = l.approval
  BY DEF SetsAsset
<1>1. l.asset \in [TokenId -> Option(AssetDetails)]
  BY DEF Ledger
<1>2. Given(k, a) = Given(l, a)
  BY DEF Given
<1>3. Owned(k, a) = Owned(l, a)
  BY <1>1 DEF Owned
<1>4. Described(k, a) = Described(l, a)
  BY <1>3 DEF Described
<1> QED
  BY <1>2, <1>3, <1>4, SameDeposits

\* k is l with x as the metadata of a token.
SetsMetadata(l, k, t, x) ==
    /\ k.metadata = [l.metadata EXCEPT ![t] = x]
    /\ k.asset = l.asset /\ k.approval = l.approval

LEMMA MetadataDeposits ==
    ASSUME NEW l \in Ledger, NEW k, NEW t \in TokenId, NEW x, x # None, NEW a \in AccountId,
           SetsMetadata(l, k, t, x), l.asset[t] # None
    PROVE  Deposits(k, a) = Deposits(l, a)
              + (IF l.asset[t].owner = a /\ l.metadata[t] = None THEN MetadataDepositBase ELSE 0)
<1> /\ k.metadata = [l.metadata EXCEPT ![t] = x]
    /\ k.asset = l.asset /\ k.approval = l.approval
  BY DEF SetsMetadata
<1>1. l.metadata \in [TokenId -> Option(AssetMetadata)]
  BY DEF Ledger
<1>2. Given(k, a) = Given(l, a) /\ Owned(k, a) = Owned(l, a)
  BY DEF Given, Owned
<1>3. CASE l.asset[t].owner = a /\ l.metadata[t] = None
  <2>1. Described(k, a) = Described(l, a) \cup {t} /\ t \notin Described(l, a)
    BY <1>1, <1>3 DEF Described, Owned
  <2>2. MetadataDepositBase * Cardinality(Described(k, a))
           = MetadataDepositBase * Cardinality(Described(l, a)) + MetadataDepositBase
    BY <2>1, DepositSets, OneMore, AssetsAssumption
  <2>3. \A i, j \in Nat : i * j \in Nat
    OBVIOUS
  <2> QED
    BY <1>2, <1>3, <2>2, <2>3, DepositSets, AssetsAssumption DEF Deposits
<1>4. CASE ~ (l.asset[t].owner = a /\ l.metadata[t] = None)
  <2>1. Described(k, a) = Described(l, a)
    BY <1>1, <1>4 DEF Described, Owned
  <2> QED
    BY <1>2, <1>4, <2>1, SameDeposits, DepositSets
<1> QED
  BY <1>3, <1>4

\* What is released when token t is destroyed.
Refund(l, t, a) ==
    ApprovalDeposit * Cardinality({p \in Approvals(l, t) : p[1] = a})
    + (IF l.asset[t].owner = a
       THEN AssetDeposit + (IF l.metadata[t] = None THEN 0 ELSE MetadataDepositBase) ELSE 0)

\* k is l without token t.
Without(l, k, t) ==
    /\ k.asset = [l.asset EXCEPT ![t] = None] /\ k.metadata = [l.metadata EXCEPT ![t] = None]
    /\ k.approval = [l.approval EXCEPT
                        ![t] = [x \in AccountId |-> [b \in AccountId |-> None]]]

\* What the accounts had on deposit for it is the refund.
LEMMA DestroyDeposits ==
    ASSUME NEW l \in Ledger, NEW k, NEW t \in TokenId, NEW a \in AccountId, l.asset[t] # None,
           Without(l, k, t)
    PROVE  Refund(l, t, a) \in Nat /\ Deposits(l, a) = Deposits(k, a) + Refund(l, t, a)
<1> DEFINE to    == {b \in AccountId : l.approval[t][a][b] # None}
           mine  == {p \in Approvals(l, t) : p[1] = a}
           given == {t} \X to
<1> /\ k.asset = [l.asset EXCEPT ![t] = None] /\ k.metadata = [l.metadata EXCEPT ![t] = None]
    /\ k.approval = [l.approval EXCEPT
                        ![t] = [x \in AccountId |-> [b \in AccountId |-> None]]]
  BY DEF Without
<1>1. /\ l.approval \in [TokenId -> [AccountId -> [AccountId -> Option(Balance)]]]
      /\ l.asset \in [TokenId -> Option(AssetDetails)]
      /\ l.metadata \in [TokenId -> Option(AssetMetadata)]
  BY DEF Ledger
<1>2. IsFiniteSet(to) /\ Cardinality(to) \in Nat
  <2>1. to \in SUBSET AccountId
    OBVIOUS
  <2> QED
    BY <2>1, FS_Subset, FS_CardinalityType, AssetsAssumption
<1>3. mine = {a} \X to
  BY DEF Approvals
<1>4. \A z : IsFiniteSet({z} \X to) /\ Cardinality({z} \X to) = Cardinality(to)
  <2> HIDE DEF to
  <2> TAKE z
  <2>1. IsFiniteSet({z}) /\ Cardinality({z}) = 1
    BY FS_Singleton
  <2>2. IsFiniteSet({z} \X to) /\ Cardinality({z} \X to) = Cardinality({z}) * Cardinality(to)
    BY <1>2, <2>1, FS_Product
  <2> QED
    BY <1>2, <2>1, <2>2
<1>5. Cardinality(mine) = Cardinality(to) /\ Cardinality(given) = Cardinality(to)
      /\ IsFiniteSet(given)
  BY <1>3, <1>4
<1>6. Given(l, a) = Given(k, a) \cup given /\ Given(k, a) \cap given = {}
  <2>1. ASSUME NEW p \in TokenId \X AccountId
        PROVE  /\ p \in given <=> p[1] = t /\ p \in Given(l, a)
               /\ p \in Given(k, a) <=> p[1] # t /\ p \in Given(l, a)
    <3>1. PICK u \in TokenId, b \in AccountId : p = <<u, b>>
      OBVIOUS
    <3>2. p[1] = u /\ p[2] = b
      BY <3>1
    <3>3. k.approval[u][a][b] = IF u = t THEN None ELSE l.approval[u][a][b]
      BY <1>1
    <3> QED
      BY <3>1, <3>2, <3>3 DEF Given
  <2>2. given \subseteq TokenId \X AccountId /\ Given(k, a) \subseteq TokenId \X AccountId
        /\ Given(l, a) \subseteq TokenId \X AccountId
    BY DEF Given
  <2> HIDE DEF given
  <2> QED
    BY <2>1, <2>2
<1>7. Cardinality(Given(l, a)) = Cardinality(Given(k, a)) + Cardinality(mine)
  <2> HIDE DEF given, mine, to
  <2>1. Cardinality(Given(k, a) \cap given) = 0
    BY <1>6, FS_EmptySet
  <2>2. Cardinality(Given(k, a) \cup given)
          = Cardinality(Given(k, a)) + Cardinality(given) - Cardinality(Given(k, a) \cap given)
    BY <1>5, DepositSets, FS_Union
  <2> QED
    BY <1>2, <1>5, <1>6, <2>1, <2>2, DepositSets
<1>8. AssetDeposit * Cardinality(Owned(l, a))
        = AssetDeposit * Cardinality(Owned(k, a))
          + (IF l.asset[t].owner = a THEN AssetDeposit ELSE 0)
  <2>1. CASE l.asset[t].owner = a
    <3>1. Owned(l, a) = Owned(k, a) \cup {t} /\ t \notin Owned(k, a)
      BY <1>1, <2>1 DEF Owned
    <3> QED
      BY <2>1, <3>1, DepositSets, OneMore, AssetsAssumption
  <2>2. CASE l.asset[t].owner # a
    <3>1. Owned(l, a) = Owned(k, a)
      BY <1>1, <2>2 DEF Owned
    <3>2. \A i, j \in Nat : i * j \in Nat
      OBVIOUS
    <3> QED
      BY <2>2, <3>1, <3>2, DepositSets, AssetsAssumption
  <2> QED
    BY <2>1, <2>2
<1>9. MetadataDepositBase * Cardinality(Described(l, a))
        = MetadataDepositBase * Cardinality(Described(k, a))
          + (IF l.asset[t].owner = a /\ l.metadata[t] # None THEN MetadataDepositBase ELSE 0)
  <2>1. CASE l.asset[t].owner = a /\ l.metadata[t] # None
    <3>1. Described(l, a) = Described(k, a) \cup {t} /\ t \notin Described(k, a)
      BY <1>1, <2>1 DEF Owned, Described
    <3> QED
      BY <2>1, <3>1, DepositSets, OneMore, AssetsAssumption
  <2>2. CASE ~ (l.asset[t].owner = a /\ l.metadata[t] # None)
    <3>1. Described(l, a) = Described(k, a)
      BY <1>1, <2>2 DEF Owned, Described
    <3>2. \A i, j \in Nat : i * j \in Nat
      OBVIOUS
    <3> QED
      BY <2>2, <3>1, <3>2, DepositSets, AssetsAssumption
  <2> QED
    BY <2>1, <2>2
<1>10. Cardinality(mine) \in Nat
  BY <1>2, <1>5
<1>11. ApprovalDeposit * Cardinality(Given(l, a))
         = ApprovalDeposit * Cardinality(Given(k, a)) + ApprovalDeposit * Cardinality(mine)
  <2>1. \A d, i, j \in Nat : d * (i + j) = d * i + d * j
    OBVIOUS
  <2> HIDE DEF mine
  <2> QED
    BY <1>7, <1>10, <2>1, DepositSets, AssetsAssumption
<1>12. Refund(l, t, a) = ApprovalDeposit * Cardinality(mine)
          + (IF l.asset[t].owner = a THEN AssetDeposit ELSE 0)
          + (IF l.asset[t].owner = a /\ l.metadata[t] # None THEN MetadataDepositBase ELSE 0)
  <2>1. Refund(l, t, a) = ApprovalDeposit * Cardinality(mine) + (IF l.asset[t].owner = a
       THEN AssetDeposit + (IF l.metadata[t] = None THEN 0 ELSE MetadataDepositBase) ELSE 0)
    BY DEF Refund
  <2>2. ApprovalDeposit * Cardinality(mine) \in Nat
    BY <1>10, AssetsAssumption
  <2> HIDE DEF mine
  <2> QED
    BY <2>1, <2>2, AssetsAssumption
<1>13. \A i, j \in Nat : i * j \in Nat
  OBVIOUS
<1>14. ApprovalDeposit * Cardinality(mine) \in Nat
  BY <1>10, <1>13, AssetsAssumption
<1> DEFINE g == ApprovalDeposit * Cardinality(Given(k, a))
           o == AssetDeposit * Cardinality(Owned(k, a))
           d == MetadataDepositBase * Cardinality(Described(k, a))
           n == ApprovalDeposit * Cardinality(mine)
<1>15. g \in Nat /\ o \in Nat /\ d \in Nat /\ n \in Nat
  BY <1>13, <1>14, DepositSets, AssetsAssumption
<1>16. Deposits(k, a) = g + o + d
  BY DEF Deposits
<1>17. Deposits(l, a) = (g + n) + (o + (IF l.asset[t].owner = a THEN AssetDeposit ELSE 0))
          + (d + (IF l.asset[t].owner = a /\ l.metadata[t] # None
                  THEN MetadataDepositBase ELSE 0))
  BY <1>8, <1>9, <1>11 DEF Deposits
<1>18. Refund(l, t, a) = n + (IF l.asset[t].owner = a THEN AssetDeposit ELSE 0)
          + (IF l.asset[t].owner = a /\ l.metadata[t] # None THEN MetadataDepositBase ELSE 0)
  BY <1>12
<1> HIDE DEF g, o, d, n
<1> QED
  BY <1>15, <1>16, <1>17, <1>18, AssetsAssumption
-----------------------------------------------------------------------------
(* Errors *)

\* The errors that the operations return are DispatchErrors, and none is Other.
Reported == {e \in DispatchErrors : e.kind # "Other"}

LEMMA ReportedNotNone == None \notin Reported
BY OptionAssumption DEF Reported

LEMMA ModuleErrors ==
    ASSUME NEW i \in Byte, NEW e \in Byte
    PROVE  ModuleError(i, e) \in Reported
<1>1. ModuleError(i, e) = [kind |-> "Module", index |-> i, error |-> <<e, 0, 0, 0>>, sub |-> None]
  BY DEF ModuleError
<1>2. <<e, 0, 0, 0>> \in [1..4 -> Byte]
  BY DEF Byte
<1> QED
  BY <1>1, <1>2 DEF Reported, DispatchErrors, NestedNames

LEMMA NestedErrors ==
    ASSUME NEW kind \in DOMAIN NestedNames, NEW sub \in NamesIn(NestedNames[kind])
    PROVE  NestedError(kind, sub) \in Reported
<1>1. NestedError(kind, sub) = [kind |-> kind, index |-> 0, error |-> <<0, 0, 0, 0>>, sub |-> sub]
  BY DEF NestedError, DispatchError
<1>2. <<0, 0, 0, 0>> \in [1..4 -> Byte] /\ 0 \in Byte
  BY DEF Byte
<1>3. DOMAIN NestedNames = {"Token", "Arithmetic", "Transactional"}
  BY DEF NestedNames
<1>4. sub \in UNION {NamesIn(NestedNames[k]) : k \in DOMAIN NestedNames}
  OBVIOUS
<1> QED
  BY <1>1, <1>2, <1>3, <1>4 DEF Reported, DispatchErrors

\* All the errors there are in this model.
LEMMA KnownErrors ==
    /\ BalanceLow \in Reported /\ NoAccount \in Reported /\ NoPermission \in Reported
    /\ Unknown \in Reported /\ InUse \in Reported /\ MinBalanceZero \in Reported
    /\ BadMetadata \in Reported /\ Unapproved \in Reported /\ AssetNotLive \in Reported
    /\ IncorrectStatus \in Reported /\ ModuleError(BALANCES, 2) \in Reported
    /\ CallFiltered \in Reported /\ ContractsDecodingFailed \in Reported
    /\ OutOfGas \in Reported /\ OutputBufferTooSmall \in Reported
    /\ DispatchError("ConsumerRemaining") \in Reported
    /\ NestedError("Arithmetic", "Overflow") \in Reported
    /\ NestedError("Token", "BelowMinimum") \in Reported
    /\ NestedError("Token", "CannotCreate") \in Reported
    /\ NestedError("Token", "UnknownAsset") \in Reported
    /\ NestedError("Token", "FundsUnavailable") \in Reported
<1>1. /\ ASSETS \in Byte /\ BALANCES \in Byte /\ CONTRACTS \in Byte
      /\ \A n \in 0..17 : n \in Byte
  BY DEF ASSETS, BALANCES, CONTRACTS, Byte
<1>2. /\ BalanceLow \in Reported /\ NoAccount \in Reported /\ NoPermission \in Reported
      /\ Unknown \in Reported /\ InUse \in Reported /\ MinBalanceZero \in Reported
      /\ BadMetadata \in Reported /\ Unapproved \in Reported /\ AssetNotLive \in Reported
      /\ IncorrectStatus \in Reported /\ ModuleError(BALANCES, 2) \in Reported
  BY <1>1, ModuleErrors DEF BalanceLow, NoAccount, NoPermission, Unknown, InUse, MinBalanceZero,
     BadMetadata, Unapproved, AssetNotLive, IncorrectStatus
<1>3. /\ CallFiltered \in Reported /\ ContractsDecodingFailed \in Reported
      /\ OutOfGas \in Reported /\ OutputBufferTooSmall \in Reported
  BY <1>1, ModuleErrors DEF CallFiltered, ContractsDecodingFailed, OutOfGas, OutputBufferTooSmall
<1>4. DispatchError("ConsumerRemaining") \in Reported
  <2>1. <<0, 0, 0, 0>> \in [1..4 -> Byte] /\ 0 \in Byte
    BY DEF Byte
  <2> QED
    BY <2>1 DEF DispatchError, Reported, DispatchErrors, NestedNames
<1>5. "Overflow" \in NamesIn(NestedNames["Arithmetic"]) /\ "Arithmetic" \in DOMAIN NestedNames
  <2>1. ArithmeticErrors[2] = "Overflow" /\ 2 \in DOMAIN ArithmeticErrors
    BY DEF ArithmeticErrors
  <2> QED
    BY <2>1 DEF NamesIn, NestedNames
<1>6. /\ "BelowMinimum" \in NamesIn(NestedNames["Token"])
      /\ "CannotCreate" \in NamesIn(NestedNames["Token"])
      /\ "UnknownAsset" \in NamesIn(NestedNames["Token"])
      /\ "FundsUnavailable" \in NamesIn(NestedNames["Token"])
      /\ "Token" \in DOMAIN NestedNames
  <2>1. /\ TokenErrors[1] = "FundsUnavailable" /\ 1 \in DOMAIN TokenErrors
        /\ TokenErrors[3] = "BelowMinimum" /\ 3 \in DOMAIN TokenErrors
        /\ TokenErrors[4] = "CannotCreate" /\ 4 \in DOMAIN TokenErrors
        /\ TokenErrors[5] = "UnknownAsset" /\ 5 \in DOMAIN TokenErrors
    BY DEF TokenErrors
  <2>2. NestedNames["Token"] = TokenErrors /\ "Token" \in DOMAIN NestedNames
    BY DEF NestedNames
  <2> QED
    BY <2>1, <2>2 DEF NamesIn
<1> QED
  BY <1>2, <1>3, <1>4, <1>5, <1>6, NestedErrors
-----------------------------------------------------------------------------
(* Operations of pallet-assets on a sound ledger *)

\* k differs from l in what is stored for token t, and in the native balances.
OnlyToken(l, k, t) ==
    \A u \in TokenId \ {t} :
        /\ k.asset[u] = l.asset[u] /\ k.account[u] = l.account[u]
        /\ k.approval[u] = l.approval[u] /\ k.metadata[u] = l.metadata[u]

LEMMA SoundAt ==
    ASSUME NEW l, Sound(l), NEW k \in Ledger, NEW t \in TokenId, OnlyToken(l, k, t),
           IF k.asset[t] = None THEN Blank(k, t) ELSE Counted(k, t),
           \A a \in AccountId : Funded(k, a)
    PROVE  Sound(k)
<1>1. ASSUME NEW u \in TokenId
      PROVE  IF k.asset[u] = None THEN Blank(k, u) ELSE Counted(k, u)
  <2>1. CASE u = t
    BY <2>1
  <2>2. CASE u # t
    <3>1. IF l.asset[u] = None THEN Blank(l, u) ELSE Counted(l, u)
      BY DEF Sound
    <3>2. /\ k.asset[u] = l.asset[u] /\ k.account[u] = l.account[u]
          /\ k.approval[u] = l.approval[u] /\ k.metadata[u] = l.metadata[u]
      BY <2>2 DEF OnlyToken
    <3> QED
      BY <3>1, <3>2 DEF Blank, Counted
  <2> QED
    BY <2>1, <2>2
<1> QED
  BY <1>1 DEF Sound

\* The parts of a ledger have their types.
LEMMA LedgerParts ==
    ASSUME NEW l \in Ledger
    PROVE  /\ l.asset \in [TokenId -> Option(AssetDetails)]
           /\ l.account \in [TokenId -> [AccountId -> Balance]]
           /\ l.approval \in [TokenId -> [AccountId -> [AccountId -> Option(Balance)]]]
           /\ l.metadata \in [TokenId -> Option(AssetMetadata)]
           /\ l.bal.free \in [AccountId -> Nat] /\ l.bal.reserved \in [AccountId -> Nat]
BY DEF Ledger, BalanceSheet

LEMMA Amounts ==
    ASSUME NEW l \in Ledger, NEW t \in TokenId
    PROVE  /\ BalanceMax \in Nat
           /\ \A a \in AccountId : l.account[t][a] \in Balance /\ l.account[t][a] \in Nat
                                   /\ l.bal.free[a] \in Nat /\ l.bal.reserved[a] \in Nat
           /\ l.asset[t] # None =>
                 /\ l.asset[t] \in AssetDetails
                 /\ l.asset[t].min_balance \in Balance /\ l.asset[t].min_balance \in Nat
                 /\ l.asset[t].supply \in Balance /\ l.asset[t].supply \in Nat
                 /\ l.asset[t].owner \in AccountId /\ l.asset[t].admin \in AccountId
<1>1. BalanceMax \in Nat /\ \A x \in Balance : x \in Nat
  BY AssetsAssumption DEF Balance
<1>2. \A a \in AccountId : l.account[t][a] \in Balance /\ l.bal.free[a] \in Nat
                            /\ l.bal.reserved[a] \in Nat
  BY LedgerParts
<1>3. l.asset[t] # None => l.asset[t] \in AssetDetails
  BY LedgerParts DEF Option
<1> QED
  BY <1>1, <1>2, <1>3 DEF AssetDetails

\* What moves: the amount, and the dust unless the sender is kept alive.
LEMMA DustType ==
    ASSUME NEW l \in Ledger, NEW t \in TokenId, l.asset[t] # None, NEW a \in AccountId,
           NEW n \in Nat, n <= l.account[t][a]
    PROVE  /\ Dust(l, t, a, n) \in Nat /\ n + Dust(l, t, a, n) <= l.account[t][a]
           /\ \/ l.account[t][a] - (n + Dust(l, t, a, n)) = 0
              \/ l.account[t][a] - (n + Dust(l, t, a, n)) >= l.asset[t].min_balance
           /\ l.account[t][a] - n >= l.asset[t].min_balance => Dust(l, t, a, n) = 0
           /\ l.account[t][a] - n < l.asset[t].min_balance =>
                 n + Dust(l, t, a, n) = l.account[t][a]
<1>1. l.account[t][a] \in Nat /\ l.asset[t].min_balance \in Nat
  BY Amounts
<1> QED
  BY <1>1 DEF Dust

\* Tokens that may be given to account a.
LEMMA Increases ==
    ASSUME NEW l \in Ledger, NEW t \in TokenId, l.asset[t] # None, NEW a \in AccountId, NEW n \in Nat
    PROVE  /\ IncreaseError(l, t, a, n) \in Option(Reported)
           /\ IncreaseError(l, t, a, n) = None =>
                 /\ l.account[t][a] + n \in Balance
                 /\ l.account[t][a] = 0 => n >= l.asset[t].min_balance
<1>1. l.account[t][a] \in Nat /\ l.asset[t].min_balance \in Nat /\ BalanceMax \in Nat
  BY Amounts
<1>2. CASE l.account[t][a] + n > BalanceMax
  <2>1. IncreaseError(l, t, a, n) = NestedError("Arithmetic", "Overflow")
    BY <1>1, <1>2 DEF IncreaseError
  <2> QED
    BY <2>1, KnownErrors, ReportedNotNone DEF Option
<1>3. CASE ~ (l.account[t][a] + n > BalanceMax)
  <2>1. IncreaseError(l, t, a, n) \in {NestedError("Token", "BelowMinimum"),
                                      NestedError("Token", "CannotCreate"), None}
    BY <1>1, <1>3 DEF IncreaseError
  <2>2. l.account[t][a] = 0 /\ n < l.asset[t].min_balance
           => IncreaseError(l, t, a, n) = NestedError("Token", "BelowMinimum")
    BY <1>1, <1>3 DEF IncreaseError
  <2> QED
    BY <1>1, <1>3, <2>1, <2>2, KnownErrors, ReportedNotNone DEF Option, Balance
<1> QED
  BY <1>2, <1>3

LEMMA LiveErrors ==
    ASSUME NEW l, NEW t
    PROVE  /\ LiveError(l, t) \in Option(Reported)
           /\ LiveError(l, t) = None <=> Live(l, t)
           /\ Live(l, t) => l.asset[t] # None
BY KnownErrors, ReportedNotNone DEF LiveError, Live, Option

\* A transfer changes nothing, or moves the debit between two accounts of a live token.
MovedIn(l, k, t, from, to, amount, keep_alive) ==
    LET debit == amount + Dust(l, t, from, amount) IN
    /\ Live(l, t) /\ amount > 0 /\ from # to
    /\ amount <= l.account[t][from]
    /\ keep_alive => l.account[t][from] - amount >= l.asset[t].min_balance
    /\ l.account[t][to] + debit \in Balance
    /\ l.account[t][to] = 0 => debit >= l.asset[t].min_balance
    /\ k = [l EXCEPT !.account[t] = Shifted(@, from, to, debit)]

LEMMA MoveEffect ==
    ASSUME NEW l \in Ledger, NEW t \in TokenId, NEW from \in AccountId, NEW to \in AccountId,
           NEW amount \in Nat, NEW keep_alive \in BOOLEAN
    PROVE  LET r == Move(l, t, from, to, amount, keep_alive) IN
           /\ r.error \in Option(Reported)
           /\ r.error = None => \/ r.ledger = l /\ (amount = 0 \/ from = to)
                                \/ MovedIn(l, r.ledger, t, from, to, amount, keep_alive)
<1> DEFINE r         == Move(l, t, from, to, amount, keep_alive)
           reducible == SatSub(l.account[t][from], IF keep_alive THEN l.asset[t].min_balance ELSE 0)
           debit     == amount + Dust(l, t, from, amount)
           increase  == IncreaseError(l, t, to, debit)
           k         == [l EXCEPT !.account[t] = Shifted(@, from, to, debit)]
<1>1. CASE amount = 0 \/ LiveError(l, t) # None
  <2>1. (r = Ok(l) /\ amount = 0) \/ (r = Err(l, LiveError(l, t)) /\ LiveError(l, t) # None)
    BY <1>1 DEF Move
  <2> QED
    BY <2>1, LiveErrors DEF Ok, Err, Option
<1>2. CASE ~ (amount = 0 \/ LiveError(l, t) # None)
  <2>1. Live(l, t) /\ l.asset[t] # None
    BY <1>2, LiveErrors
  <2>2. l.account[t][from] \in Nat /\ l.asset[t].min_balance \in Nat
    BY <2>1, Amounts
  <2>3. CASE l.account[t][from] = 0 \/ reducible < amount
    <3>1. r = Err(l, NoAccount) \/ r = Err(l, BalanceLow)
      BY <1>2, <2>3 DEF Move
    <3> QED
      BY <3>1, KnownErrors, ReportedNotNone DEF Err, Option
  <2>4. CASE ~ (l.account[t][from] = 0 \/ reducible < amount)
    <3>1. /\ amount <= l.account[t][from]
          /\ keep_alive => l.account[t][from] - amount >= l.asset[t].min_balance
      <4>1. CASE keep_alive = TRUE
        BY <1>2, <2>2, <2>4, <4>1 DEF SatSub
      <4>2. CASE keep_alive = FALSE
        BY <1>2, <2>2, <2>4, <4>2 DEF SatSub
      <4> QED
        BY <4>1, <4>2
    <3>2. Dust(l, t, from, amount) \in Nat /\ debit \in Nat
      BY <2>1, <3>1, DustType
    <3> HIDE DEF debit
    <3>3. /\ increase \in Option(Reported)
          /\ increase = None => /\ l.account[t][to] + debit \in Balance
                                /\ l.account[t][to] = 0 => debit >= l.asset[t].min_balance
      BY <2>1, <3>2, Increases
    <3>4. CASE increase # None
      <4>1. r = Err(l, increase)
        BY <1>2, <2>4, <3>4 DEF Move, debit
      <4> HIDE DEF increase
      <4> QED
        BY <3>3, <3>4, <4>1 DEF Err
    <3>5. CASE increase = None /\ from = to
      <4>1. r = Ok(l)
        BY <1>2, <2>4, <3>5 DEF Move, debit
      <4> QED
        BY <3>5, <4>1 DEF Ok, Option
    <3>6. CASE increase = None /\ from # to
      <4>1. r = Ok(k)
        BY <1>2, <2>4, <3>6 DEF Move, debit
      <4>2. k = [l EXCEPT !.account[t] = Shifted(@, from, to, debit)]
        OBVIOUS
      <4> HIDE DEF k, increase
      <4>3. MovedIn(l, k, t, from, to, amount, keep_alive)
        BY <1>2, <2>1, <3>1, <3>3, <3>6, <4>2 DEF MovedIn, debit
      <4> QED
        BY <4>1, <4>3 DEF Ok, Option
    <3> QED
      BY <3>4, <3>5, <3>6
  <2> QED
    BY <2>3, <2>4
<1> QED
  BY <1>1, <1>2

\* The new balances of a transfer.
LEMMA MovedParts ==
    ASSUME NEW l, Sound(l), NEW k, NEW t \in TokenId, NEW from \in AccountId, NEW to \in AccountId,
           NEW amount \in Nat, NEW keep_alive \in BOOLEAN,
           MovedIn(l, k, t, from, to, amount, keep_alive)
    PROVE  /\ Sound(k) /\ OnlyToken(l, k, t)
           /\ k.asset = l.asset /\ k.approval = l.approval /\ k.metadata = l.metadata
           /\ k.bal = l.bal
           /\ \E debit \in Nat :
                 /\ debit = amount + Dust(l, t, from, amount) /\ debit <= l.account[t][from]
                 /\ k.account[t] = Shifted(l.account[t], from, to, debit)
<1>1. l \in Ledger /\ Live(l, t) /\ l.asset[t] # None /\ from # to
      /\ amount <= l.account[t][from]
  BY LiveErrors DEF Sound, MovedIn
<1>2. PICK debit \in Nat : /\ debit = amount + Dust(l, t, from, amount)
                           /\ debit <= l.account[t][from]
                           /\ \/ l.account[t][from] - debit = 0
                              \/ l.account[t][from] - debit >= l.asset[t].min_balance
  BY <1>1, DustType
<1>3. /\ l.account[t][to] + debit \in Balance
      /\ l.account[t][to] = 0 => debit >= l.asset[t].min_balance
      /\ k = [l EXCEPT !.account[t] = Shifted(@, from, to, debit)]
  BY <1>2 DEF MovedIn
<1> DEFINE m == Shifted(l.account[t], from, to, debit)
<1>4. m = [l.account[t] EXCEPT ![from] = @ - debit, ![to] = @ + debit]
  BY DEF Shifted
<1>5. l.account \in [TokenId -> [AccountId -> Balance]] /\ l.account[t] \in [AccountId -> Balance]
  BY <1>1, LedgerParts
<1>6. k = [l EXCEPT !.account[t] = m]
  BY <1>3
<1>7. /\ m \in [AccountId -> Balance]
      /\ Cardinality(Units(m)) = Cardinality(Units(l.account[t]))
  <2>1. debit \in 0..l.account[t][from]
    BY <1>1, <1>2, Amounts
  <2> QED
    BY <1>1, <1>3, <1>4, <1>5, <2>1, UnitsMoved
<1> HIDE DEF m
<1>8. /\ k \in Ledger /\ k.account = [l.account EXCEPT ![t] = m]
      /\ k.asset = l.asset /\ k.approval = l.approval /\ k.metadata = l.metadata
      /\ k.bal = l.bal
  BY <1>1, <1>5, <1>6, <1>7 DEF Ledger
<1>9. k.account[t] = m /\ OnlyToken(l, k, t)
  BY <1>5, <1>8 DEF OnlyToken
<1>10. Counted(l, t)
  BY <1>1 DEF Sound
<1>11. Counted(k, t)
  <2>1. ASSUME NEW a \in AccountId PROVE m[a] = 0 \/ m[a] >= l.asset[t].min_balance
    <3>1. l.account[t][a] = 0 \/ l.account[t][a] >= l.asset[t].min_balance
      BY <1>10 DEF Counted
    <3>2. l.account[t][a] \in Nat /\ l.asset[t].min_balance \in Nat
      BY <1>1, Amounts
    <3>3. m[a] = IF a = to THEN l.account[t][a] + debit
                 ELSE IF a = from THEN l.account[t][a] - debit ELSE l.account[t][a]
      BY <1>1, <1>4, <1>5
    <3> QED
      BY <1>2, <1>3, <3>1, <3>2, <3>3
  <2> QED
    BY <1>7, <1>8, <1>9, <1>10, <2>1 DEF Counted
<1>12. ASSUME NEW a \in AccountId PROVE Funded(k, a)
  <2>1. Deposits(k, a) = Deposits(l, a)
    BY <1>8 DEF Deposits, Given, Owned, Described
  <2> QED
    BY <1>8, <2>1 DEF Sound, Funded
<1>13. Sound(k)
  BY <1>1, <1>8, <1>9, <1>11, <1>12, SoundAt
<1> QED
  BY <1>2, <1>8, <1>9, <1>13 DEF m

\* Deposits that are reserved are paid from free funds.
LEMMA FundsReserved ==
    ASSUME NEW l, Sound(l), NEW k, NEW o \in AccountId, NEW d \in Nat, CanReserve(l.bal, o, d),
           k.bal = Reserve(l.bal, o, d),
           \A a \in AccountId : Deposits(k, a) = Deposits(l, a) + (IF a = o THEN d ELSE 0)
    PROVE  k.bal \in BalanceSheet(AccountId) /\ \A a \in AccountId : Funded(k, a)
<1>1. l.bal.free \in [AccountId -> Nat] /\ l.bal.reserved \in [AccountId -> Nat]
  BY LedgerParts DEF Sound
<1>2. d <= l.bal.free[o]
  BY DEF CanReserve
<1>3. k.bal.free = [l.bal.free EXCEPT ![o] = @ - d]
      /\ k.bal.reserved = [l.bal.reserved EXCEPT ![o] = @ + d]
  BY DEF Reserve
<1>4. k.bal \in BalanceSheet(AccountId)
  BY <1>1, <1>2 DEF Reserve, BalanceSheet
<1>5. ASSUME NEW a \in AccountId PROVE Funded(k, a)
  <2>1. Funded(l, a) /\ Deposits(l, a) \in Nat /\ InitialFree[a] \in Nat
    BY DepositSets, ContractAssumption DEF Sound
  <2> QED
    BY <1>1, <1>3, <2>1 DEF Funded
<1> QED
  BY <1>4, <1>5

\* Deposits that are released were all reserved, and return to free funds.
LEMMA FundsReleased ==
    ASSUME NEW l, Sound(l), NEW k, NEW o \in AccountId, NEW d \in Nat,
           k.bal = Unreserve(l.bal, o, d),
           \A a \in AccountId : Deposits(l, a) = Deposits(k, a) + (IF a = o THEN d ELSE 0)
    PROVE  /\ k.bal \in BalanceSheet(AccountId) /\ \A a \in AccountId : Funded(k, a)
           /\ k.bal.free[o] = l.bal.free[o] + d
<1>1. l.bal.free \in [AccountId -> Nat] /\ l.bal.reserved \in [AccountId -> Nat]
  BY LedgerParts DEF Sound
<1>2. d <= l.bal.reserved[o]
  <2>1. l.bal.reserved[o] = Deposits(k, o) + d /\ Deposits(k, o) \in Nat
    BY DepositSets DEF Sound, Funded
  <2> QED
    BY <2>1
<1>3. Lesser(d, l.bal.reserved[o]) = d
  BY <1>2 DEF Lesser
<1>4. k.bal.free = [l.bal.free EXCEPT ![o] = @ + d]
      /\ k.bal.reserved = [l.bal.reserved EXCEPT ![o] = @ - d]
  BY <1>3 DEF Unreserve
<1>5. k.bal \in BalanceSheet(AccountId)
  BY <1>1, <1>2, <1>3 DEF Unreserve, BalanceSheet
<1>6. ASSUME NEW a \in AccountId PROVE Funded(k, a)
  <2>1. Funded(l, a) /\ Deposits(k, a) \in Nat /\ InitialFree[a] \in Nat
    BY DepositSets, ContractAssumption DEF Sound
  <2> QED
    BY <1>1, <1>4, <2>1 DEF Funded
<1> QED
  BY <1>1, <1>4, <1>5, <1>6

LEMMA ReserveErrors ==
    ASSUME NEW l \in Ledger, NEW o \in AccountId, NEW d \in Nat
    PROVE  /\ ReserveError(l, o, d) \in Option(Reported)
           /\ ReserveError(l, o, d) = None <=> CanReserve(l.bal, o, d)
BY KnownErrors, ReportedNotNone DEF ReserveError, Option

\* Approving adds to an allowance, or creates it with a deposit.
ApprovedIn(l, k, t, origin, delegate, amount) ==
    /\ Live(l, t)
    /\ k.asset = l.asset /\ k.account = l.account /\ k.metadata = l.metadata
    /\ k.approval = [l.approval EXCEPT ![t][origin][delegate] =
                        Lesser(allowance(l, t, origin, delegate) + amount, BalanceMax)]

LEMMA Allowances ==
    ASSUME NEW l \in Ledger, NEW t \in TokenId, NEW a \in AccountId, NEW b \in AccountId
    PROVE  /\ allowance(l, t, a, b) \in Balance /\ allowance(l, t, a, b) \in Nat
           /\ l.approval[t][a][b] # None =>
                 l.approval[t][a][b] \in Balance /\ allowance(l, t, a, b) = l.approval[t][a][b]
           /\ l.approval[t][a][b] = None => allowance(l, t, a, b) = 0
<1>1. l.approval[t][a][b] \in Option(Balance)
  BY LedgerParts
<1>2. 0 \in Balance /\ \A x \in Balance : x \in Nat
  BY AssetsAssumption DEF Balance
<1> QED
  BY <1>1, <1>2 DEF allowance, Option

LEMMA ApproveEffect ==
    ASSUME NEW l, Sound(l), NEW t \in TokenId, NEW o \in AccountId, NEW d \in AccountId,
           NEW n \in Nat
    PROVE  LET r == assets_approve_transfer(l, o, t, d, n) IN
           /\ r.error \in Option(Reported)
           /\ r.error = None => Sound(r.ledger) /\ ApprovedIn(l, r.ledger, t, o, d, n)
           /\ Live(l, t) /\ (l.approval[t][o][d] = None => CanReserve(l.bal, o, ApprovalDeposit))
                 => r.error = None
<1> DEFINE r       == assets_approve_transfer(l, o, t, d, n)
           deposit == IF l.approval[t][o][d] = None THEN ApprovalDeposit ELSE 0
           v       == Lesser(allowance(l, t, o, d) + n, BalanceMax)
           k       == [l EXCEPT !.approval[t][o][d] = v, !.bal = Reserve(@, o, deposit)]
<1>1. l \in Ledger /\ deposit \in Nat
  BY AssetsAssumption DEF Sound
<1>2. CASE LiveError(l, t) # None
  <2>1. r = Err(l, LiveError(l, t))
    BY <1>2 DEF assets_approve_transfer
  <2> QED
    BY <1>2, <2>1, LiveErrors DEF Err
<1>3. CASE LiveError(l, t) = None /\ ~ CanReserve(l.bal, o, deposit)
  <2>1. r = Err(l, ReserveError(l, o, deposit)) /\ ReserveError(l, o, deposit) # None
        /\ ReserveError(l, o, deposit) \in Option(Reported)
    BY <1>1, <1>3, ReserveErrors DEF assets_approve_transfer
  <2>2. deposit = 0 => CanReserve(l.bal, o, deposit)
    BY <1>1, LedgerParts DEF CanReserve
  <2> QED
    BY <1>3, <2>1, <2>2 DEF Err
<1>4. CASE LiveError(l, t) = None /\ CanReserve(l.bal, o, deposit)
  <2>1. r = Ok(k)
    BY <1>1, <1>4, ReserveErrors DEF assets_approve_transfer
  <2>2. v \in Balance /\ v # None
    <3>1. allowance(l, t, o, d) \in Nat /\ BalanceMax \in Nat /\ None \notin Nat
      BY <1>1, Allowances, AssetsAssumption
    <3> QED
      BY <3>1 DEF Lesser, Balance
  <2> HIDE DEF v, deposit
  <2>3. l.approval \in [TokenId -> [AccountId -> [AccountId -> Option(Balance)]]]
    BY <1>1, LedgerParts
  <2>4. /\ k.asset = l.asset /\ k.account = l.account /\ k.metadata = l.metadata
        /\ k.approval = [l.approval EXCEPT ![t][o][d] = v]
        /\ k.bal = Reserve(l.bal, o, deposit)
    BY <1>1 DEF Ledger
  <2>5. k.approval \in [TokenId -> [AccountId -> [AccountId -> Option(Balance)]]]
    <3>1. [l.approval EXCEPT ![t][o][d] = v]
            \in [TokenId -> [AccountId -> [AccountId -> Option(Balance)]]]
      BY <2>2, <2>3 DEF Option
    <3> QED
      BY <2>4, <3>1
  <2> HIDE DEF k
  <2>6. \A a \in AccountId : Deposits(k, a) = Deposits(l, a) + (IF a = o THEN deposit ELSE 0)
    <3> TAKE a \in AccountId
    <3>1. Deposits(k, a) = Deposits(l, a)
             + (IF a = o /\ l.approval[t][o][d] = None THEN ApprovalDeposit ELSE 0)
      <4>1. SetsApproval(l, k, t, o, d, v)
        BY <2>4 DEF SetsApproval
      <4> QED
        BY <1>1, <2>2, <4>1, ApprovalDeposits
    <3> QED
      BY <3>1 DEF deposit
  <2>7. k.bal \in BalanceSheet(AccountId) /\ \A a \in AccountId : Funded(k, a)
    BY <1>1, <1>4, <2>4, <2>6, FundsReserved
  <2>8. k \in Ledger
    BY <1>1, <2>4, <2>5, <2>7 DEF Ledger, k
  <2>9. OnlyToken(l, k, t)
    BY <2>3, <2>4 DEF OnlyToken
  <2>10. l.asset[t] # None /\ Live(l, t)
    BY <1>4, LiveErrors
  <2>11. Counted(k, t)
    BY <2>4, <2>10 DEF Sound, Counted
  <2>12. Sound(k)
    BY <2>4, <2>7, <2>8, <2>9, <2>10, <2>11, SoundAt
  <2>13. ApprovedIn(l, k, t, o, d, n)
    BY <2>4, <2>10 DEF ApprovedIn, v
  <2> QED
    BY <2>1, <2>12, <2>13 DEF Ok, Option
<1> QED
  BY <1>2, <1>3, <1>4

\* Cancelling removes an approval and releases its deposit.
CancelledIn(l, k, t, origin, delegate) ==
    /\ Live(l, t) /\ l.approval[t][origin][delegate] # None
    /\ k.asset = l.asset /\ k.account = l.account /\ k.metadata = l.metadata
    /\ k.approval = [l.approval EXCEPT ![t][origin][delegate] = None]

\* A ledger with these parts.
LedgerWith(k, asset, account, approval, metadata, bal) ==
    k = [asset |-> asset, account |-> account, approval |-> approval, metadata |-> metadata,
         bal |-> bal]

LEMMA LedgerMade ==
    ASSUME NEW k, NEW asset \in [TokenId -> Option(AssetDetails)],
           NEW account \in [TokenId -> [AccountId -> Balance]],
           NEW approval \in [TokenId -> [AccountId -> [AccountId -> Option(Balance)]]],
           NEW metadata \in [TokenId -> Option(AssetMetadata)],
           NEW bal \in BalanceSheet(AccountId),
           LedgerWith(k, asset, account, approval, metadata, bal)
    PROVE  /\ k \in Ledger
           /\ k.asset = asset /\ k.account = account /\ k.approval = approval
           /\ k.metadata = metadata /\ k.bal = bal
BY DEF LedgerWith, Ledger

\* A ledger with one approval less, and its deposit released, is sound.
LEMMA ApprovalRemoved ==
    ASSUME NEW l, Sound(l), NEW t \in TokenId, l.asset[t] # None, NEW o \in AccountId,
           NEW d \in AccountId, l.approval[t][o][d] # None,
           NEW k, LedgerWith(k, l.asset, l.account, [l.approval EXCEPT ![t][o][d] = None],
                             l.metadata, Unreserve(l.bal, o, ApprovalDeposit))
    PROVE  /\ Sound(k) /\ k.bal.free[o] = l.bal.free[o] + ApprovalDeposit
           /\ k.asset = l.asset /\ k.account = l.account /\ k.metadata = l.metadata
           /\ k.approval = [l.approval EXCEPT ![t][o][d] = None]
           /\ OnlyToken(l, k, t)
<1>1. l \in Ledger /\ ApprovalDeposit \in Nat
  BY AssetsAssumption DEF Sound
<1>2. /\ l.approval \in [TokenId -> [AccountId -> [AccountId -> Option(Balance)]]]
      /\ l.approval[t] \in [AccountId -> [AccountId -> Option(Balance)]]
      /\ l.approval[t][o] \in [AccountId -> Option(Balance)]
  BY <1>1, LedgerParts
<1>3. /\ k.asset = l.asset /\ k.account = l.account /\ k.metadata = l.metadata
      /\ k.approval = [l.approval EXCEPT ![t][o][d] = None]
      /\ k.bal = Unreserve(l.bal, o, ApprovalDeposit)
  BY DEF LedgerWith
<1>4. [l.approval EXCEPT ![t][o][d] = None]
         \in [TokenId -> [AccountId -> [AccountId -> Option(Balance)]]]
  BY <1>2 DEF Option
<1>5. k.approval[t][o][d] = None
  BY <1>2, <1>3
<1>6. ASSUME NEW a \in AccountId
      PROVE  Deposits(l, a) = Deposits(k, a) + (IF a = o THEN ApprovalDeposit ELSE 0)
  <2>1. Given(l, a) = IF a = o THEN Given(k, a) \cup {<<t, d>>} ELSE Given(k, a)
    <3>1. ASSUME NEW p \in TokenId \X AccountId
          PROVE  p \in Given(l, a) <=> p \in Given(k, a) \/ (a = o /\ p = <<t, d>>)
      <4>1. PICK u \in TokenId, b \in AccountId : p = <<u, b>>
        OBVIOUS
      <4>2. p[1] = u /\ p[2] = b /\ (p = <<t, d>> <=> u = t /\ b = d)
        BY <4>1
      <4>3. k.approval[u][a][b] = IF u = t /\ a = o /\ b = d THEN None ELSE l.approval[u][a][b]
        BY <1>2, <1>3
      <4> QED
        BY <4>1, <4>2, <4>3 DEF Given
    <3> QED
      BY <3>1 DEF Given
  <2>2. <<t, d>> \notin Given(k, o)
    BY <1>5 DEF Given
  <2>3. Owned(k, a) = Owned(l, a) /\ Described(k, a) = Described(l, a)
    BY <1>3 DEF Owned, Described
  <2>4. CASE a = o
    <3>1. ApprovalDeposit * Cardinality(Given(l, a))
             = ApprovalDeposit * Cardinality(Given(k, a)) + ApprovalDeposit
      BY <2>1, <2>2, <2>4, DepositSets, OneMore, AssetsAssumption
    <3>2. \A x, y \in Nat : x * y \in Nat
      OBVIOUS
    <3> QED
      BY <2>3, <2>4, <3>1, <3>2, DepositSets, AssetsAssumption DEF Deposits
  <2>5. CASE a # o
    BY <2>1, <2>3, <2>5, SameDeposits, DepositSets
  <2> QED
    BY <2>4, <2>5
<1>7. /\ k.bal \in BalanceSheet(AccountId) /\ \A a \in AccountId : Funded(k, a)
      /\ k.bal.free[o] = l.bal.free[o] + ApprovalDeposit
  BY <1>1, <1>3, <1>6, FundsReleased
<1>8. k \in Ledger
  <2>1. Unreserve(l.bal, o, ApprovalDeposit) \in BalanceSheet(AccountId)
    BY <1>3, <1>7
  <2>2. PICK ap \in [TokenId -> [AccountId -> [AccountId -> Option(Balance)]]],
             ba \in BalanceSheet(AccountId) :
                LedgerWith(k, l.asset, l.account, ap, l.metadata, ba)
    BY <1>4, <2>1
  <2>3. /\ l.asset \in [TokenId -> Option(AssetDetails)]
        /\ l.account \in [TokenId -> [AccountId -> Balance]]
        /\ l.metadata \in [TokenId -> Option(AssetMetadata)]
    BY <1>1, LedgerParts
  <2> QED
    BY <2>2, <2>3, LedgerMade
<1>9. OnlyToken(l, k, t)
  BY <1>2, <1>3 DEF OnlyToken
<1>10. Counted(k, t)
  BY <1>3 DEF Sound, Counted
<1>11. Sound(k)
  BY <1>3, <1>7, <1>8, <1>9, <1>10, SoundAt
<1> QED
  BY <1>3, <1>7, <1>9, <1>11

LEMMA CancelEffect ==
    ASSUME NEW l, Sound(l), NEW t \in TokenId, NEW o \in AccountId, NEW d \in AccountId
    PROVE  LET r == assets_cancel_approval(l, o, t, d) IN
           /\ r.error \in Option(Reported)
           /\ r.error = None => /\ Sound(r.ledger) /\ CancelledIn(l, r.ledger, t, o, d)
                                /\ r.ledger.bal.free[o] = l.bal.free[o] + ApprovalDeposit
           /\ Live(l, t) /\ l.approval[t][o][d] # None => r.error = None
<1> DEFINE r == assets_cancel_approval(l, o, t, d)
           k == [l EXCEPT !.approval[t][o][d] = None, !.bal = Unreserve(@, o, ApprovalDeposit)]
<1>1. CASE LiveError(l, t) # None
  <2>1. r = Err(l, LiveError(l, t))
    BY <1>1 DEF assets_cancel_approval
  <2> QED
    BY <1>1, <2>1, LiveErrors DEF Err
<1>2. CASE LiveError(l, t) = None /\ l.approval[t][o][d] = None
  <2>1. r = Err(l, Unknown)
    BY <1>2 DEF assets_cancel_approval
  <2> QED
    BY <1>2, <2>1, KnownErrors, ReportedNotNone DEF Err, Option
<1>3. CASE LiveError(l, t) = None /\ l.approval[t][o][d] # None
  <2>1. r = Ok(k)
    BY <1>3 DEF assets_cancel_approval
  <2>2. Live(l, t) /\ l.asset[t] # None
    BY <1>3, LiveErrors
  <2>3. PICK j : j = k
    OBVIOUS
  <2>9. LedgerWith(j, l.asset, l.account, [l.approval EXCEPT ![t][o][d] = None], l.metadata,
                   Unreserve(l.bal, o, ApprovalDeposit))
    BY <2>3 DEF LedgerWith, Sound, Ledger
  <2>4. /\ Sound(j) /\ j.bal.free[o] = l.bal.free[o] + ApprovalDeposit
        /\ j.asset = l.asset /\ j.account = l.account /\ j.metadata = l.metadata
        /\ j.approval = [l.approval EXCEPT ![t][o][d] = None]
    BY <1>3, <2>2, <2>9, ApprovalRemoved
  <2>5. CancelledIn(l, j, t, o, d)
    BY <1>3, <2>2, <2>4 DEF CancelledIn
  <2>6. r.ledger = j /\ r.error = None
    BY <2>1, <2>3 DEF Ok
  <2> QED
    BY <2>4, <2>5, <2>6 DEF Option
<1> QED
  BY <1>1, <1>2, <1>3

\* An approval that is lowered keeps its deposit.
LEMMA ApprovalLowered ==
    ASSUME NEW l, Sound(l), NEW t \in TokenId, l.asset[t] # None, NEW o \in AccountId,
           NEW d \in AccountId, l.approval[t][o][d] # None, NEW v \in Balance,
           NEW k, LedgerWith(k, l.asset, l.account, [l.approval EXCEPT ![t][o][d] = v],
                             l.metadata, l.bal)
    PROVE  /\ Sound(k) /\ k.bal = l.bal
           /\ k.asset = l.asset /\ k.account = l.account /\ k.metadata = l.metadata
           /\ k.approval = [l.approval EXCEPT ![t][o][d] = v]
           /\ OnlyToken(l, k, t)
<1>1. l \in Ledger /\ v # None
  BY AssetsAssumption DEF Sound, Balance
<1>2. /\ l.approval \in [TokenId -> [AccountId -> [AccountId -> Option(Balance)]]]
      /\ l.asset \in [TokenId -> Option(AssetDetails)]
      /\ l.account \in [TokenId -> [AccountId -> Balance]]
      /\ l.metadata \in [TokenId -> Option(AssetMetadata)]
      /\ l.bal \in BalanceSheet(AccountId)
  BY <1>1, LedgerParts DEF Ledger
<1>3. /\ k.asset = l.asset /\ k.account = l.account /\ k.metadata = l.metadata
      /\ k.approval = [l.approval EXCEPT ![t][o][d] = v] /\ k.bal = l.bal
  BY DEF LedgerWith
<1>4. PICK ap \in [TokenId -> [AccountId -> [AccountId -> Option(Balance)]]] :
         LedgerWith(k, l.asset, l.account, ap, l.metadata, l.bal)
  <2>1. [l.approval EXCEPT ![t][o][d] = v]
           \in [TokenId -> [AccountId -> [AccountId -> Option(Balance)]]]
    BY <1>2 DEF Option
  <2> QED
    BY <2>1
<1>5. k \in Ledger
  BY <1>2, <1>4, LedgerMade
<1>6. ASSUME NEW a \in AccountId PROVE Funded(k, a)
  <2>1. SetsApproval(l, k, t, o, d, v)
    BY <1>3 DEF SetsApproval
  <2>2. Deposits(k, a) = Deposits(l, a) + 0
    BY <1>1, <2>1, ApprovalDeposits
  <2> QED
    BY <1>3, <2>2, DepositSets DEF Sound, Funded
<1>7. OnlyToken(l, k, t)
  BY <1>2, <1>3 DEF OnlyToken
<1>8. Counted(k, t)
  BY <1>3 DEF Sound, Counted
<1>9. Sound(k)
  BY <1>3, <1>5, <1>6, <1>7, <1>8, SoundAt
<1> QED
  BY <1>3, <1>7, <1>9

\* Spending an allowance: it goes down by the amount, whatever dust moved with it.
SpentIn(l, k, t, spender, from, to, amount) ==
    /\ Live(l, t) /\ amount <= allowance(l, t, from, spender)
    /\ l.approval[t][from][spender] # None
    /\ k.asset = l.asset /\ k.metadata = l.metadata
    /\ k.approval = [l.approval EXCEPT ![t][from][spender] =
                        IF allowance(l, t, from, spender) = amount THEN None
                        ELSE allowance(l, t, from, spender) - amount]
    /\ \/ k.account = l.account /\ (amount = 0 \/ from = to)
       \/ \E j : MovedIn(l, j, t, from, to, amount, FALSE) /\ k.account = j.account

LEMMA SpendEffect ==
    ASSUME NEW l, Sound(l), NEW t \in TokenId, NEW s \in AccountId, NEW o \in AccountId,
           NEW to \in AccountId, NEW n \in Nat
    PROVE  LET r == assets_transfer_approved(l, s, t, o, to, n) IN
           /\ r.error \in Option(Reported)
           /\ r.error = None => Sound(r.ledger) /\ SpentIn(l, r.ledger, t, s, o, to, n)
                                /\ OnlyToken(l, r.ledger, t)
<1> DEFINE r     == assets_transfer_approved(l, s, t, o, to, n)
           moved == Move(l, t, o, to, n, FALSE)
           rest  == allowance(l, t, o, s) - n
<1>1. l \in Ledger
  BY DEF Sound
<1>2. allowance(l, t, o, s) \in Nat /\ allowance(l, t, o, s) \in Balance
  BY <1>1, Allowances
<1>3. CASE LiveError(l, t) # None
  <2>1. r = Err(l, LiveError(l, t))
    BY <1>3 DEF assets_transfer_approved
  <2> QED
    BY <1>3, <2>1, LiveErrors DEF Err
<1>4. CASE LiveError(l, t) = None /\ (l.approval[t][o][s] = None \/ rest < 0)
  <2>1. r = Err(l, Unapproved)
    BY <1>4 DEF assets_transfer_approved
  <2> QED
    BY <2>1, KnownErrors, ReportedNotNone DEF Err, Option
<1>5. CASE /\ LiveError(l, t) = None /\ ~ (l.approval[t][o][s] = None \/ rest < 0)
           /\ moved.error # None
  <2>1. r = moved
    BY <1>5 DEF assets_transfer_approved
  <2>2. moved.error \in Option(Reported)
    BY <1>1, MoveEffect
  <2> QED
    BY <1>5, <2>1, <2>2
<1>6. CASE /\ LiveError(l, t) = None /\ ~ (l.approval[t][o][s] = None \/ rest < 0)
           /\ moved.error = None
  <2>1. Live(l, t) /\ l.asset[t] # None /\ l.approval[t][o][s] # None /\ rest \in Nat
    BY <1>2, <1>6, LiveErrors
  <2>2. PICK j : j = moved.ledger
    OBVIOUS
  <2>3. (j = l /\ (n = 0 \/ o = to)) \/ MovedIn(l, j, t, o, to, n, FALSE)
    BY <1>1, <1>6, <2>2, MoveEffect
  <2>4. /\ Sound(j) /\ OnlyToken(l, j, t) /\ j.bal = l.bal
        /\ j.asset = l.asset /\ j.approval = l.approval /\ j.metadata = l.metadata
    <3>1. CASE j = l
      BY <3>1 DEF OnlyToken
    <3>2. CASE MovedIn(l, j, t, o, to, n, FALSE)
      BY <3>2, MovedParts
    <3> QED
      BY <2>3, <3>1, <3>2
  <2>5. j.asset[t] # None /\ j.approval[t][o][s] # None /\ j \in Ledger
    BY <2>1, <2>4 DEF Sound
  <2>6. \/ j.account = l.account /\ (n = 0 \/ o = to)
        \/ MovedIn(l, j, t, o, to, n, FALSE)
    BY <2>3
  <2>7. CASE rest = 0
    <3>1. PICK k : k = [j EXCEPT !.approval[t][o][s] = None,
                                 !.bal = Unreserve(@, o, ApprovalDeposit)]
      OBVIOUS
    <3>2. r = Ok(k)
      BY <1>6, <2>2, <2>7, <3>1 DEF assets_transfer_approved
    <3>3. LedgerWith(k, j.asset, j.account, [j.approval EXCEPT ![t][o][s] = None], j.metadata,
                     Unreserve(j.bal, o, ApprovalDeposit))
      BY <2>5, <3>1 DEF LedgerWith, Ledger
    <3>4. /\ Sound(k) /\ OnlyToken(j, k, t)
          /\ k.asset = j.asset /\ k.account = j.account /\ k.metadata = j.metadata
          /\ k.approval = [j.approval EXCEPT ![t][o][s] = None]
      BY <2>4, <2>5, <3>3, ApprovalRemoved
    <3>5. allowance(l, t, o, s) = n /\ n <= allowance(l, t, o, s)
      BY <1>2, <2>7
    <3>6. SpentIn(l, k, t, s, o, to, n) /\ OnlyToken(l, k, t)
      BY <2>1, <2>4, <2>6, <3>4, <3>5 DEF SpentIn, OnlyToken
    <3>7. r.ledger = k /\ r.error = None
      BY <3>2 DEF Ok
    <3> QED
      BY <3>4, <3>6, <3>7 DEF Option
  <2>8. CASE rest # 0
    <3>1. PICK k : k = [j EXCEPT !.approval[t][o][s] = rest]
      OBVIOUS
    <3>2. r = Ok(k)
      BY <1>6, <2>2, <2>8, <3>1 DEF assets_transfer_approved
    <3>3. LedgerWith(k, j.asset, j.account, [j.approval EXCEPT ![t][o][s] = rest], j.metadata, j.bal)
      BY <2>5, <3>1 DEF LedgerWith, Ledger
    <3>4. rest \in Balance
      BY <1>2, <2>1, AssetsAssumption DEF Balance
    <3>5. /\ Sound(k) /\ OnlyToken(j, k, t)
          /\ k.asset = j.asset /\ k.account = j.account /\ k.metadata = j.metadata
          /\ k.approval = [j.approval EXCEPT ![t][o][s] = rest]
      <4> HIDE DEF rest
      <4> QED
        BY <2>4, <2>5, <3>3, <3>4, ApprovalLowered
    <3>6. allowance(l, t, o, s) # n /\ n <= allowance(l, t, o, s)
      BY <1>2, <2>1, <2>8
    <3>7. SpentIn(l, k, t, s, o, to, n) /\ OnlyToken(l, k, t)
      BY <2>1, <2>4, <2>6, <3>5, <3>6 DEF SpentIn, OnlyToken
    <3>8. r.ledger = k /\ r.error = None
      BY <3>2 DEF Ok
    <3> QED
      BY <3>5, <3>7, <3>8 DEF Option
  <2> QED
    BY <2>7, <2>8
<1> QED
  BY <1>3, <1>4, <1>5, <1>6

\* Other details of a token, and the balances its supply counts.
LEMMA DetailsChanged ==
    ASSUME NEW l, Sound(l), NEW t \in TokenId, l.asset[t] # None, NEW x \in AssetDetails,
           x.owner = l.asset[t].owner, x.min_balance = l.asset[t].min_balance,
           NEW m \in [AccountId -> Balance], x.supply = Cardinality(Units(m)),
           \A a \in AccountId : m[a] = 0 \/ m[a] >= x.min_balance,
           NEW k, LedgerWith(k, [l.asset EXCEPT ![t] = x], [l.account EXCEPT ![t] = m],
                             l.approval, l.metadata, l.bal)
    PROVE  /\ Sound(k) /\ OnlyToken(l, k, t) /\ k.asset[t] = x /\ k.account[t] = m
           /\ k.approval = l.approval /\ k.metadata = l.metadata /\ k.bal = l.bal
<1>1. l \in Ledger /\ x # None
  BY OptionAssumption DEF Sound
<1>2. /\ l.approval \in [TokenId -> [AccountId -> [AccountId -> Option(Balance)]]]
      /\ l.asset \in [TokenId -> Option(AssetDetails)]
      /\ l.account \in [TokenId -> [AccountId -> Balance]]
      /\ l.metadata \in [TokenId -> Option(AssetMetadata)]
      /\ l.bal \in BalanceSheet(AccountId)
  BY <1>1, LedgerParts DEF Ledger
<1>3. /\ k.asset = [l.asset EXCEPT ![t] = x] /\ k.account = [l.account EXCEPT ![t] = m]
      /\ k.approval = l.approval /\ k.metadata = l.metadata /\ k.bal = l.bal
  BY DEF LedgerWith
<1>4. PICK as \in [TokenId -> Option(AssetDetails)], ac \in [TokenId -> [AccountId -> Balance]] :
         LedgerWith(k, as, ac, l.approval, l.metadata, l.bal)
  <2>1. [l.asset EXCEPT ![t] = x] \in [TokenId -> Option(AssetDetails)]
    BY <1>2 DEF Option
  <2>2. [l.account EXCEPT ![t] = m] \in [TokenId -> [AccountId -> Balance]]
    BY <1>2
  <2> QED
    BY <2>1, <2>2
<1>5. k \in Ledger
  BY <1>2, <1>4, LedgerMade
<1>6. k.asset[t] = x /\ k.account[t] = m
  BY <1>2, <1>3
<1>7. OnlyToken(l, k, t)
  BY <1>2, <1>3 DEF OnlyToken
<1>8. ASSUME NEW a \in AccountId PROVE Funded(k, a)
  <2>1. SetsAsset(l, k, t, x)
    BY <1>3 DEF SetsAsset
  <2>2. Deposits(k, a) = Deposits(l, a)
    BY <1>1, <2>1, DetailDeposits
  <2> QED
    BY <1>3, <2>2 DEF Sound, Funded
<1>9. Counted(k, t)
  BY <1>6 DEF Sound, Counted
<1>10. Sound(k)
  BY <1>1, <1>5, <1>6, <1>7, <1>8, <1>9, SoundAt
<1> QED
  BY <1>3, <1>6, <1>7, <1>10

\* Minting: a balance and the supply go up together.
MintedIn(l, k, t, to, amount) ==
    /\ Live(l, t) /\ amount > 0 /\ k.asset[t] # None
    /\ k.asset = [l.asset EXCEPT ![t] = [l.asset[t] EXCEPT !.supply = l.asset[t].supply + amount]]
    /\ k.account = [l.account EXCEPT ![t] =
                       [l.account[t] EXCEPT ![to] = l.account[t][to] + amount]]
    /\ k.approval = l.approval /\ k.metadata = l.metadata /\ k.bal = l.bal
    /\ l.account[t][to] + amount >= l.asset[t].min_balance

LEMMA MintEffect ==
    ASSUME NEW l, Sound(l), NEW t \in TokenId, NEW o \in AccountId, NEW to \in AccountId,
           NEW n \in Nat
    PROVE  LET r == assets_mint(l, o, t, to, n) IN
           /\ r.error \in Option(Reported)
           /\ r.error = None => /\ Sound(r.ledger) /\ OnlyToken(l, r.ledger, t)
                                /\ (r.ledger = l /\ n = 0) \/ MintedIn(l, r.ledger, t, to, n)
<1> DEFINE r == assets_mint(l, o, t, to, n)
<1>1. l \in Ledger
  BY DEF Sound
<1>2. CASE n = 0
  <2>1. r = Ok(l)
    BY <1>2 DEF assets_mint
  <2> QED
    BY <1>2, <2>1 DEF Ok, Option, OnlyToken
<1>3. CASE n # 0 /\ (l.asset[t] = None \/ l.asset[t].supply + n > BalanceMax)
  <2>1. r \in {Err(l, NestedError("Token", "UnknownAsset")), Err(l, NestedError("Arithmetic", "Overflow"))}
    BY <1>3 DEF assets_mint
  <2> QED
    BY <2>1, KnownErrors, ReportedNotNone DEF Err, Option
<1>4. CASE n # 0 /\ l.asset[t] # None /\ ~ (l.asset[t].supply + n > BalanceMax)
  <2>1. /\ IncreaseError(l, t, to, n) \in Option(Reported)
        /\ IncreaseError(l, t, to, n) = None =>
              /\ l.account[t][to] + n \in Balance
              /\ l.account[t][to] = 0 => n >= l.asset[t].min_balance
    BY <1>1, <1>4, Increases
  <2>2. CASE IncreaseError(l, t, to, n) # None
    <3>1. r = Err(l, IncreaseError(l, t, to, n))
      BY <1>4, <2>2 DEF assets_mint
    <3> QED
      BY <2>1, <2>2, <3>1 DEF Err
  <2>3. CASE IncreaseError(l, t, to, n) = None /\ (~ Live(l, t) \/ l.asset[t].admin # o)
    <3>1. r \in {Err(l, AssetNotLive), Err(l, NoPermission)}
      BY <1>4, <2>3 DEF assets_mint
    <3> QED
      BY <3>1, KnownErrors, ReportedNotNone DEF Err, Option
  <2>4. CASE IncreaseError(l, t, to, n) = None /\ Live(l, t) /\ l.asset[t].admin = o
    <3> DEFINE m == [l.account[t] EXCEPT ![to] = @ + n]
               x == [l.asset[t] EXCEPT !.supply = @ + n]
    <3>1. PICK k : k = [l EXCEPT !.account[t][to] = @ + n, !.asset[t].supply = @ + n]
      OBVIOUS
    <3>2. r = Ok(k)
      BY <1>4, <2>4, <3>1 DEF assets_mint
    <3>3. LedgerWith(k, [l.asset EXCEPT ![t] = x], [l.account EXCEPT ![t] = m],
                     l.approval, l.metadata, l.bal)
      BY <1>1, <3>1 DEF LedgerWith, Ledger
    <3>4. /\ l.account[t] \in [AccountId -> Balance] /\ l.account[t][to] \in Nat
          /\ l.asset[t] \in AssetDetails /\ l.asset[t].supply \in Nat
          /\ l.asset[t].min_balance \in Nat /\ BalanceMax \in Nat
      BY <1>1, <1>4, Amounts, LedgerParts
    <3>5. /\ m \in [AccountId -> Balance]
          /\ Cardinality(Units(m)) = Cardinality(Units(l.account[t])) + n
      BY <2>1, <2>4, <3>4, UnitsRaised
    <3>6. /\ x \in AssetDetails /\ x.owner = l.asset[t].owner
          /\ x.min_balance = l.asset[t].min_balance /\ x.supply = l.asset[t].supply + n
      <4>1. l.asset[t].supply + n \in Balance
        BY <1>4, <3>4 DEF Balance
      <4> QED
        BY <3>4, <4>1 DEF AssetDetails
    <3>7. Counted(l, t)
      BY <1>4 DEF Sound
    <3>8. \A a \in AccountId : m[a] = 0 \/ m[a] >= x.min_balance
      <4> TAKE a \in AccountId
      <4>1. l.account[t][a] = 0 \/ l.account[t][a] >= l.asset[t].min_balance
        BY <3>7 DEF Counted
      <4>2. m[a] = IF a = to THEN l.account[t][a] + n ELSE l.account[t][a]
        BY <3>4
      <4>3. l.account[t][a] \in Nat
        BY <1>1, Amounts
      <4> QED
        BY <2>1, <2>4, <3>4, <3>6, <4>1, <4>2, <4>3
    <3>9. x.supply = Cardinality(Units(m))
      BY <3>5, <3>6, <3>7 DEF Counted
    <3>10. l.account[t][to] + n >= l.asset[t].min_balance
      <4>1. l.account[t][to] = 0 \/ l.account[t][to] >= l.asset[t].min_balance
        BY <3>7 DEF Counted
      <4> QED
        BY <2>1, <2>4, <3>4, <4>1
    <3>11. MintedIn(l, k, t, to, n)
      <4>1. m = [l.account[t] EXCEPT ![to] = l.account[t][to] + n]
            /\ [l.asset EXCEPT ![t] = x]
                  = [l.asset EXCEPT ![t] = [l.asset[t] EXCEPT !.supply = l.asset[t].supply + n]]
        BY <1>1, LedgerParts
      <4>2. k.asset[t] # None
        BY <1>1, <3>3, <3>6, LedgerParts, OptionAssumption DEF LedgerWith
      <4> QED
        BY <1>4, <2>4, <3>3, <3>10, <4>1, <4>2 DEF MintedIn, LedgerWith
    <3> HIDE DEF m, x
    <3>12. Sound(k) /\ OnlyToken(l, k, t)
      BY <1>4, <3>3, <3>5, <3>6, <3>8, <3>9, DetailsChanged
    <3>13. r.ledger = k /\ r.error = None
      BY <3>2 DEF Ok
    <3> QED
      BY <3>11, <3>12, <3>13 DEF Option
  <2> QED
    BY <2>2, <2>3, <2>4
<1> QED
  BY <1>2, <1>3, <1>4

\* Burning: a balance and the supply go down together, by the amount and the dust.
BurntIn(l, k, t, from, amount) ==
    LET debit == amount + Dust(l, t, from, amount) IN
    /\ Live(l, t) /\ amount > 0 /\ amount <= l.account[t][from] /\ k.asset[t] # None
    /\ k.asset = [l.asset EXCEPT ![t] = [l.asset[t] EXCEPT !.supply = l.asset[t].supply - debit]]
    /\ k.account = [l.account EXCEPT ![t] =
                       [l.account[t] EXCEPT ![from] = l.account[t][from] - debit]]
    /\ k.approval = l.approval /\ k.metadata = l.metadata /\ k.bal = l.bal

LEMMA BurnEffect ==
    ASSUME NEW l, Sound(l), NEW t \in TokenId, NEW o \in AccountId, NEW from \in AccountId,
           NEW n \in Nat, n <= l.account[t][from]
    PROVE  LET r == assets_burn(l, o, t, from, n) IN
           /\ r.error \in Option(Reported)
           /\ r.error = None => /\ Sound(r.ledger) /\ OnlyToken(l, r.ledger, t)
                                /\ \/ r.ledger = l /\ n = 0
                                   \/ BurntIn(l, r.ledger, t, from, n) /\ l.asset[t].admin = o
<1> DEFINE r == assets_burn(l, o, t, from, n)
<1>1. l \in Ledger
  BY DEF Sound
<1>2. CASE l.asset[t] = None \/ ~ Live(l, t)
  <2>1. r \in {Err(l, Unknown), Err(l, IncorrectStatus)}
    BY <1>2 DEF assets_burn
  <2> QED
    BY <2>1, KnownErrors, ReportedNotNone DEF Err, Option
<1>3. CASE l.asset[t] # None /\ Live(l, t) /\ n = 0
  <2>1. r = Ok(l)
    BY <1>3 DEF assets_burn
  <2> QED
    BY <1>3, <2>1 DEF Ok, Option, OnlyToken
<1>4. CASE /\ l.asset[t] # None /\ Live(l, t) /\ n # 0
           /\ l.account[t][from] = 0 \/ l.asset[t].admin # o
  <2>1. r \in {Err(l, NoAccount), Err(l, NoPermission)}
    BY <1>4 DEF assets_burn
  <2> QED
    BY <2>1, KnownErrors, ReportedNotNone DEF Err, Option
<1>5. CASE /\ l.asset[t] # None /\ Live(l, t) /\ n # 0
           /\ l.account[t][from] # 0 /\ l.asset[t].admin = o
  <2>1. Lesser(n, l.account[t][from]) = n
    BY DEF Lesser
  <2>2. PICK debit \in Nat : /\ debit = n + Dust(l, t, from, n) /\ debit <= l.account[t][from]
                             /\ \/ l.account[t][from] - debit = 0
                                \/ l.account[t][from] - debit >= l.asset[t].min_balance
    BY <1>1, <1>5, DustType
  <2> DEFINE m == [l.account[t] EXCEPT ![from] = @ - debit]
             x == [l.asset[t] EXCEPT !.supply = @ - debit]
  <2>3. PICK k : k = [l EXCEPT !.account[t][from] = @ - debit, !.asset[t].supply = @ - debit]
    OBVIOUS
  <2>4. r = Ok(k)
    BY <1>5, <2>1, <2>2, <2>3 DEF assets_burn
  <2>5. LedgerWith(k, [l.asset EXCEPT ![t] = x], [l.account EXCEPT ![t] = m],
                   l.approval, l.metadata, l.bal)
    BY <1>1, <2>3 DEF LedgerWith, Ledger
  <2>6. /\ l.account[t] \in [AccountId -> Balance] /\ l.account[t][from] \in Nat
        /\ l.asset[t] \in AssetDetails /\ l.asset[t].supply \in Nat
        /\ l.asset[t].supply \in Balance
        /\ l.asset[t].min_balance \in Nat /\ BalanceMax \in Nat
    BY <1>1, <1>5, Amounts, LedgerParts
  <2>7. /\ m \in [AccountId -> Balance] /\ debit <= Cardinality(Units(l.account[t]))
        /\ Cardinality(Units(m)) = Cardinality(Units(l.account[t])) - debit
    <3>1. debit \in 0..l.account[t][from]
      BY <2>2, <2>6
    <3> QED
      BY <2>6, <3>1, UnitsLowered
  <2>8. Counted(l, t)
    BY <1>5 DEF Sound
  <2>9. /\ x \in AssetDetails /\ x.owner = l.asset[t].owner
        /\ x.min_balance = l.asset[t].min_balance /\ x.supply = l.asset[t].supply - debit
    <3>1. l.asset[t].supply - debit \in Balance
      BY <2>2, <2>6, <2>7, <2>8 DEF Balance, Counted
    <3> QED
      BY <2>6, <3>1 DEF AssetDetails
  <2>10. \A a \in AccountId : m[a] = 0 \/ m[a] >= x.min_balance
    <3> TAKE a \in AccountId
    <3>1. l.account[t][a] = 0 \/ l.account[t][a] >= l.asset[t].min_balance
      BY <2>8 DEF Counted
    <3>2. m[a] = IF a = from THEN l.account[t][a] - debit ELSE l.account[t][a]
      BY <2>6
    <3> QED
      BY <2>2, <2>9, <3>1, <3>2
  <2>11. x.supply = Cardinality(Units(m))
    BY <2>7, <2>8, <2>9 DEF Counted
  <2>12. BurntIn(l, k, t, from, n)
    <3>1. m = [l.account[t] EXCEPT ![from] = l.account[t][from] - debit]
          /\ [l.asset EXCEPT ![t] = x]
                = [l.asset EXCEPT ![t] = [l.asset[t] EXCEPT !.supply = l.asset[t].supply - debit]]
      BY <1>1, LedgerParts
    <3>2. n > 0
      BY <1>5
    <3>3. k.asset[t] # None
      BY <1>1, <2>5, <2>9, LedgerParts, OptionAssumption DEF LedgerWith
    <3> QED
      BY <1>5, <2>2, <2>5, <3>1, <3>2, <3>3 DEF BurntIn, LedgerWith
  <2> HIDE DEF m, x
  <2>13. Sound(k) /\ OnlyToken(l, k, t)
    BY <1>5, <2>5, <2>7, <2>9, <2>10, <2>11, DetailsChanged
  <2>14. r.ledger = k /\ r.error = None
    BY <2>4 DEF Ok
  <2> QED
    BY <1>5, <2>12, <2>13, <2>14 DEF Option
<1> QED
  BY <1>2, <1>3, <1>4, <1>5

\* Starting the destruction of a token changes its status.
StoppedIn(l, k, t) ==
    /\ l.asset[t] # None
    /\ k.asset = [l.asset EXCEPT ![t] = [l.asset[t] EXCEPT !.status = "Destroying"]]
    /\ k.account = l.account /\ k.approval = l.approval /\ k.metadata = l.metadata
    /\ k.bal = l.bal

LEMMA StopEffect ==
    ASSUME NEW l, Sound(l), NEW t \in TokenId, NEW o \in AccountId
    PROVE  LET r == assets_start_destroy(l, o, t) IN
           /\ r.error \in Option(Reported)
           /\ r.error = None => Sound(r.ledger) /\ OnlyToken(l, r.ledger, t)
                                /\ StoppedIn(l, r.ledger, t)
<1> DEFINE r == assets_start_destroy(l, o, t)
<1>1. l \in Ledger
  BY DEF Sound
<1>2. CASE l.asset[t] = None \/ l.asset[t].owner # o
  <2>1. r \in {Err(l, Unknown), Err(l, NoPermission)}
    BY <1>2 DEF assets_start_destroy
  <2> QED
    BY <2>1, KnownErrors, ReportedNotNone DEF Err, Option
<1>3. CASE l.asset[t] # None /\ l.asset[t].owner = o
  <2> DEFINE x == [l.asset[t] EXCEPT !.status = "Destroying"]
  <2>1. PICK k : k = [l EXCEPT !.asset[t].status = "Destroying"]
    OBVIOUS
  <2>2. r = Ok(k)
    BY <1>3, <2>1 DEF assets_start_destroy
  <2>3. /\ l.account \in [TokenId -> [AccountId -> Balance]]
        /\ l.account[t] \in [AccountId -> Balance] /\ l.asset[t] \in AssetDetails
    BY <1>1, <1>3, Amounts, LedgerParts
  <2>4. LedgerWith(k, [l.asset EXCEPT ![t] = x], l.account, l.approval, l.metadata, l.bal)
    BY <1>1, <2>1 DEF LedgerWith, Ledger
  <2>5. [l.account EXCEPT ![t] = l.account[t]] = l.account
    BY <2>3
  <2>6. LedgerWith(k, [l.asset EXCEPT ![t] = x], [l.account EXCEPT ![t] = l.account[t]],
                   l.approval, l.metadata, l.bal)
    BY <2>4, <2>5
  <2>7. /\ x \in AssetDetails /\ x.owner = l.asset[t].owner /\ x.supply = l.asset[t].supply
        /\ x.min_balance = l.asset[t].min_balance
    BY <2>3 DEF AssetDetails
  <2>8. StoppedIn(l, k, t)
    BY <1>3, <2>4 DEF StoppedIn, LedgerWith
  <2> HIDE DEF x
  <2>9. /\ x.supply = Cardinality(Units(l.account[t]))
        /\ \A a \in AccountId : l.account[t][a] = 0 \/ l.account[t][a] >= x.min_balance
    BY <1>3, <2>7 DEF Sound, Counted
  <2>10. Sound(k) /\ OnlyToken(l, k, t)
    BY <1>3, <2>3, <2>6, <2>7, <2>9, DetailsChanged
  <2>11. r.ledger = k /\ r.error = None
    BY <2>2 DEF Ok
  <2> QED
    BY <2>8, <2>10, <2>11 DEF Option
<1> QED
  BY <1>2, <1>3

\* Creating a token, whose owner pays the deposit.
CreatedIn(l, k, t, origin, admin, min_balance) ==
    /\ l.asset[t] = None /\ min_balance > 0
    /\ k.asset = [l.asset EXCEPT ![t] =
                     [owner |-> origin, admin |-> admin, supply |-> 0,
                      min_balance |-> min_balance, status |-> "Live"]]
    /\ k.account = l.account /\ k.approval = l.approval /\ k.metadata = l.metadata
    /\ k.bal = Reserve(l.bal, origin, AssetDeposit)

LEMMA CreateEffect ==
    ASSUME NEW l, Sound(l), NEW t \in TokenId, NEW o \in AccountId, NEW admin \in AccountId,
           NEW n \in Balance
    PROVE  LET r == assets_create(l, o, t, admin, n) IN
           /\ r.error \in Option(Reported)
           /\ r.error = None => Sound(r.ledger) /\ OnlyToken(l, r.ledger, t)
                                /\ CreatedIn(l, r.ledger, t, o, admin, n)
<1> DEFINE r == assets_create(l, o, t, admin, n)
           x == [owner |-> o, admin |-> admin, supply |-> 0, min_balance |-> n, status |-> "Live"]
<1>1. l \in Ledger /\ AssetDeposit \in Nat /\ n \in Nat /\ 0 \in Balance
  BY AssetsAssumption DEF Sound, Balance
<1>2. CASE l.asset[t] # None \/ n = 0
  <2>1. r \in {Err(l, InUse), Err(l, MinBalanceZero)}
    BY <1>2 DEF assets_create
  <2> QED
    BY <2>1, KnownErrors, ReportedNotNone DEF Err, Option
<1>3. CASE l.asset[t] = None /\ n # 0 /\ ~ CanReserve(l.bal, o, AssetDeposit)
  <2>1. /\ ReserveError(l, o, AssetDeposit) # None
        /\ ReserveError(l, o, AssetDeposit) \in Option(Reported)
    BY <1>1, <1>3, ReserveErrors
  <2>2. r = Err(l, ReserveError(l, o, AssetDeposit))
    BY <1>3, <2>1 DEF assets_create
  <2> QED
    BY <2>1, <2>2 DEF Err
<1>4. CASE l.asset[t] = None /\ n # 0 /\ CanReserve(l.bal, o, AssetDeposit)
  <2>1. PICK k : k = [l EXCEPT !.asset[t] = x, !.bal = Reserve(@, o, AssetDeposit)]
    OBVIOUS
  <2>2. r = Ok(k)
    BY <1>1, <1>4, <2>1, ReserveErrors DEF assets_create
  <2>3. LedgerWith(k, [l.asset EXCEPT ![t] = x], l.account, l.approval, l.metadata,
                   Reserve(l.bal, o, AssetDeposit))
    BY <1>1, <2>1 DEF LedgerWith, Ledger
  <2>4. /\ k.asset = [l.asset EXCEPT ![t] = x] /\ k.account = l.account
        /\ k.approval = l.approval /\ k.metadata = l.metadata
        /\ k.bal = Reserve(l.bal, o, AssetDeposit)
    BY <2>3 DEF LedgerWith
  <2>5. CreatedIn(l, k, t, o, admin, n)
    BY <1>1, <1>4, <2>4 DEF CreatedIn
  <2>6. /\ x \in AssetDetails /\ x # None /\ x.owner = o /\ x.supply = 0 /\ x.min_balance = n
    BY <1>1, OptionAssumption DEF AssetDetails
  <2> HIDE DEF x
  <2>7. /\ l.approval \in [TokenId -> [AccountId -> [AccountId -> Option(Balance)]]]
        /\ l.asset \in [TokenId -> Option(AssetDetails)]
        /\ l.account \in [TokenId -> [AccountId -> Balance]]
        /\ l.metadata \in [TokenId -> Option(AssetMetadata)]
    BY <1>1, LedgerParts
  <2>8. Blank(l, t)
    BY <1>4 DEF Sound
  <2>9. ASSUME NEW a \in AccountId
        PROVE  Deposits(k, a) = Deposits(l, a) + (IF a = o THEN AssetDeposit ELSE 0)
    <3>1. SetsAsset(l, k, t, x)
      BY <2>4 DEF SetsAsset
    <3>2. l.metadata[t] = None
      BY <2>8 DEF Blank
    <3> QED
      BY <1>1, <1>4, <2>6, <3>1, <3>2, AssetDeposits
  <2>10. k.bal \in BalanceSheet(AccountId) /\ \A a \in AccountId : Funded(k, a)
    BY <1>1, <1>4, <2>4, <2>9, FundsReserved
  <2>11. PICK as \in [TokenId -> Option(AssetDetails)], ba \in BalanceSheet(AccountId) :
            LedgerWith(k, as, l.account, l.approval, l.metadata, ba)
    <3>1. [l.asset EXCEPT ![t] = x] \in [TokenId -> Option(AssetDetails)]
      BY <2>6, <2>7 DEF Option
    <3>2. Reserve(l.bal, o, AssetDeposit) \in BalanceSheet(AccountId)
      BY <2>4, <2>10
    <3> QED
      BY <2>3, <3>1, <3>2
  <2>12. k \in Ledger
    BY <2>7, <2>11, LedgerMade
  <2>13. k.asset[t] = x /\ k.account[t] = l.account[t] /\ l.account[t] \in [AccountId -> Balance]
    BY <2>4, <2>7
  <2>14. OnlyToken(l, k, t)
    BY <2>4, <2>7 DEF OnlyToken
  <2>15. Counted(k, t)
    <3>1. \A a \in AccountId : l.account[t][a] = 0
      BY <2>8 DEF Blank
    <3>2. Cardinality(Units(l.account[t])) = 0
      BY <2>13, <3>1, NoUnits
    <3>3. n > 0
      BY <1>1, <1>4
    <3> QED
      BY <2>6, <2>13, <3>1, <3>2, <3>3 DEF Counted
  <2>16. Sound(k)
    BY <2>6, <2>10, <2>12, <2>13, <2>14, <2>15, SoundAt
  <2>17. r.ledger = k /\ r.error = None
    BY <2>2 DEF Ok
  <2> QED
    BY <2>5, <2>14, <2>16, <2>17 DEF Option
<1> QED
  BY <1>2, <1>3, <1>4

\* Metadata is set or cleared, and only the owner's funds with it.
DescribedIn(l, k, t, origin) ==
    /\ k.asset = l.asset /\ k.account = l.account /\ k.approval = l.approval
    /\ \A a \in AccountId \ {origin} : k.bal.reserved[a] = l.bal.reserved[a]

\* A ledger with metadata for token t and the deposit for it is sound.
LEMMA MetadataSet ==
    ASSUME NEW l, Sound(l), NEW t \in TokenId, l.asset[t] # None, NEW o \in AccountId,
           l.asset[t].owner = o, NEW x \in AssetMetadata, NEW d \in Nat,
           d = IF l.metadata[t] = None THEN MetadataDepositBase ELSE 0,
           CanReserve(l.bal, o, d),
           NEW k, LedgerWith(k, l.asset, l.account, l.approval, [l.metadata EXCEPT ![t] = x],
                             Reserve(l.bal, o, d))
    PROVE  Sound(k) /\ OnlyToken(l, k, t) /\ DescribedIn(l, k, t, o)
<1>1. l \in Ledger /\ x # None
  BY OptionAssumption DEF Sound
<1>2. /\ k.asset = l.asset /\ k.account = l.account /\ k.approval = l.approval
      /\ k.metadata = [l.metadata EXCEPT ![t] = x] /\ k.bal = Reserve(l.bal, o, d)
  BY DEF LedgerWith
<1>3. /\ l.approval \in [TokenId -> [AccountId -> [AccountId -> Option(Balance)]]]
      /\ l.asset \in [TokenId -> Option(AssetDetails)]
      /\ l.account \in [TokenId -> [AccountId -> Balance]]
      /\ l.metadata \in [TokenId -> Option(AssetMetadata)]
      /\ l.bal.reserved \in [AccountId -> Nat]
  BY <1>1, LedgerParts
<1>4. ASSUME NEW a \in AccountId
      PROVE  Deposits(k, a) = Deposits(l, a) + (IF a = o THEN d ELSE 0)
  <2>1. SetsMetadata(l, k, t, x)
    BY <1>2 DEF SetsMetadata
  <2> QED
    BY <1>1, <2>1, MetadataDeposits
<1>5. k.bal \in BalanceSheet(AccountId) /\ \A a \in AccountId : Funded(k, a)
  BY <1>2, <1>4, FundsReserved
<1>6. PICK me \in [TokenId -> Option(AssetMetadata)], ba \in BalanceSheet(AccountId) :
         LedgerWith(k, l.asset, l.account, l.approval, me, ba)
  <2>1. [l.metadata EXCEPT ![t] = x] \in [TokenId -> Option(AssetMetadata)]
    BY <1>3 DEF Option
  <2>2. Reserve(l.bal, o, d) \in BalanceSheet(AccountId)
    BY <1>2, <1>5
  <2> QED
    BY <2>1, <2>2
<1>7. k \in Ledger
  BY <1>3, <1>6, LedgerMade
<1>8. OnlyToken(l, k, t)
  BY <1>2, <1>3 DEF OnlyToken
<1>9. DescribedIn(l, k, t, o)
  BY <1>2, <1>3 DEF DescribedIn, Reserve
<1>10. Counted(k, t)
  BY <1>2 DEF Sound, Counted
<1>11. Sound(k)
  BY <1>2, <1>5, <1>7, <1>8, <1>10, SoundAt
<1> QED
  BY <1>8, <1>9, <1>11

LEMMA DescribeEffect ==
    ASSUME NEW l, Sound(l), NEW t \in TokenId, NEW o \in AccountId, NEW n \in Nat
    PROVE  LET r == assets_set_metadata(l, o, t, n, n, 0) IN
           /\ r.error \in Option(Reported)
           /\ r.error = None => Sound(r.ledger) /\ OnlyToken(l, r.ledger, t)
                                /\ DescribedIn(l, r.ledger, t, o)
<1> DEFINE r   == assets_set_metadata(l, o, t, n, n, 0)
           old == IF l.metadata[t] = None THEN 0 ELSE MetadataDepositBase
           d   == MetadataDepositBase - old
           x   == [name |-> n, symbol |-> n, decimals |-> 0]
<1>1. l \in Ledger /\ d \in Nat /\ d = IF l.metadata[t] = None THEN MetadataDepositBase ELSE 0
  BY AssetsAssumption DEF Sound
<1>2. CASE n > StringLimit
  <2>1. r = Err(l, BadMetadata)
    BY <1>2 DEF assets_set_metadata
  <2> QED
    BY <2>1, KnownErrors, ReportedNotNone DEF Err, Option
<1>3. CASE ~ (n > StringLimit) /\ LiveError(l, t) # None
  <2>1. r = Err(l, LiveError(l, t))
    BY <1>3 DEF assets_set_metadata
  <2> QED
    BY <1>3, <2>1, LiveErrors DEF Err
<1>4. CASE ~ (n > StringLimit) /\ LiveError(l, t) = None /\ l.asset[t].owner # o
  <2>1. r = Err(l, NoPermission)
    BY <1>4 DEF assets_set_metadata
  <2> QED
    BY <2>1, KnownErrors, ReportedNotNone DEF Err, Option
<1>5. CASE /\ ~ (n > StringLimit) /\ LiveError(l, t) = None /\ l.asset[t].owner = o
           /\ ~ CanReserve(l.bal, o, d)
  <2>1. ReserveError(l, o, d) # None /\ ReserveError(l, o, d) \in Option(Reported)
    <3> HIDE DEF d
    <3> QED
      BY <1>1, <1>5, ReserveErrors
  <2>2. r = Err(l, ReserveError(l, o, d))
    BY <1>5, <2>1 DEF assets_set_metadata
  <2> QED
    BY <2>1, <2>2 DEF Err
<1>6. CASE /\ ~ (n > StringLimit) /\ LiveError(l, t) = None /\ l.asset[t].owner = o
           /\ CanReserve(l.bal, o, d)
  <2>1. PICK k : k = [l EXCEPT !.metadata[t] = x, !.bal = Reserve(@, o, d)]
    OBVIOUS
  <2>2. ReserveError(l, o, d) = None
    <3> HIDE DEF d
    <3> QED
      BY <1>1, <1>6, ReserveErrors
  <2>3. r = Ok(k)
    BY <1>6, <2>1, <2>2 DEF assets_set_metadata
  <2>4. x \in AssetMetadata
    BY DEF AssetMetadata
  <2> HIDE DEF d, x
  <2>5. LedgerWith(k, l.asset, l.account, l.approval, [l.metadata EXCEPT ![t] = x],
                   Reserve(l.bal, o, d))
    BY <1>1, <2>1 DEF LedgerWith, Ledger
  <2>6. l.asset[t] # None
    BY <1>6, LiveErrors
  <2>7. Sound(k) /\ OnlyToken(l, k, t) /\ DescribedIn(l, k, t, o)
    BY <1>1, <1>6, <2>4, <2>5, <2>6, MetadataSet
  <2>8. r.ledger = k /\ r.error = None
    BY <2>3 DEF Ok
  <2> QED
    BY <2>7, <2>8 DEF Option
<1> QED
  BY <1>2, <1>3, <1>4, <1>5, <1>6

\* A ledger without the metadata of token t, and the deposit for it released, is sound.
LEMMA MetadataCleared ==
    ASSUME NEW l, Sound(l), NEW t \in TokenId, l.asset[t] # None, NEW o \in AccountId,
           l.asset[t].owner = o, l.metadata[t] # None,
           NEW k, LedgerWith(k, l.asset, l.account, l.approval, [l.metadata EXCEPT ![t] = None],
                             Unreserve(l.bal, o, MetadataDepositBase))
    PROVE  Sound(k) /\ OnlyToken(l, k, t) /\ DescribedIn(l, k, t, o)
<1>1. l \in Ledger /\ MetadataDepositBase \in Nat
  BY AssetsAssumption DEF Sound
<1>2. /\ k.asset = l.asset /\ k.account = l.account /\ k.approval = l.approval
      /\ k.metadata = [l.metadata EXCEPT ![t] = None]
      /\ k.bal = Unreserve(l.bal, o, MetadataDepositBase)
  BY DEF LedgerWith
<1>3. /\ l.approval \in [TokenId -> [AccountId -> [AccountId -> Option(Balance)]]]
      /\ l.asset \in [TokenId -> Option(AssetDetails)]
      /\ l.account \in [TokenId -> [AccountId -> Balance]]
      /\ l.metadata \in [TokenId -> Option(AssetMetadata)]
      /\ l.bal.reserved \in [AccountId -> Nat]
  BY <1>1, LedgerParts
<1>4. ASSUME NEW a \in AccountId
      PROVE  Deposits(l, a) = Deposits(k, a) + (IF a = o THEN MetadataDepositBase ELSE 0)
  <2>1. Given(k, a) = Given(l, a) /\ Owned(k, a) = Owned(l, a)
    BY <1>2 DEF Given, Owned
  <2>2. CASE a = o
    <3>1. Described(l, a) = Described(k, a) \cup {t} /\ t \notin Described(k, a)
      BY <1>2, <1>3, <2>2 DEF Described, Owned
    <3>2. MetadataDepositBase * Cardinality(Described(l, a))
             = MetadataDepositBase * Cardinality(Described(k, a)) + MetadataDepositBase
      BY <3>1, DepositSets, OneMore, AssetsAssumption
    <3>3. \A i, j \in Nat : i * j \in Nat
      OBVIOUS
    <3> QED
      BY <2>1, <2>2, <3>2, <3>3, DepositSets, AssetsAssumption DEF Deposits
  <2>3. CASE a # o
    <3>1. Described(k, a) = Described(l, a)
      BY <1>2, <1>3, <2>3 DEF Described, Owned
    <3> QED
      BY <2>1, <2>3, <3>1, SameDeposits, DepositSets
  <2> QED
    BY <2>2, <2>3
<1>5. k.bal \in BalanceSheet(AccountId) /\ \A a \in AccountId : Funded(k, a)
  <2>1. PICK d \in Nat : d = MetadataDepositBase
    BY <1>1
  <2>2. /\ k.bal = Unreserve(l.bal, o, d)
        /\ \A a \in AccountId : Deposits(l, a) = Deposits(k, a) + (IF a = o THEN d ELSE 0)
    BY <1>2, <1>4, <2>1
  <2> QED
    BY <2>2, FundsReleased
<1>6. PICK me \in [TokenId -> Option(AssetMetadata)], ba \in BalanceSheet(AccountId) :
         LedgerWith(k, l.asset, l.account, l.approval, me, ba)
  <2>1. [l.metadata EXCEPT ![t] = None] \in [TokenId -> Option(AssetMetadata)]
    BY <1>3 DEF Option
  <2>2. Unreserve(l.bal, o, MetadataDepositBase) \in BalanceSheet(AccountId)
    BY <1>2, <1>5
  <2> QED
    BY <2>1, <2>2
<1>7. k \in Ledger
  BY <1>3, <1>6, LedgerMade
<1>8. OnlyToken(l, k, t)
  BY <1>2, <1>3 DEF OnlyToken
<1>9. DescribedIn(l, k, t, o)
  BY <1>2, <1>3 DEF DescribedIn, Unreserve
<1>10. Counted(k, t)
  BY <1>2 DEF Sound, Counted
<1>11. Sound(k)
  BY <1>2, <1>5, <1>7, <1>8, <1>10, SoundAt
<1> QED
  BY <1>8, <1>9, <1>11

LEMMA ClearEffect ==
    ASSUME NEW l, Sound(l), NEW t \in TokenId, NEW o \in AccountId
    PROVE  LET r == assets_clear_metadata(l, o, t) IN
           /\ r.error \in Option(Reported)
           /\ r.error = None => Sound(r.ledger) /\ OnlyToken(l, r.ledger, t)
                                /\ DescribedIn(l, r.ledger, t, o)
<1> DEFINE r == assets_clear_metadata(l, o, t)
<1>1. CASE LiveError(l, t) # None
  <2>1. r = Err(l, LiveError(l, t))
    BY <1>1 DEF assets_clear_metadata
  <2> QED
    BY <1>1, <2>1, LiveErrors DEF Err
<1>2. CASE LiveError(l, t) = None /\ (l.asset[t].owner # o \/ l.metadata[t] = None)
  <2>1. r \in {Err(l, NoPermission), Err(l, Unknown)}
    BY <1>2 DEF assets_clear_metadata
  <2> QED
    BY <2>1, KnownErrors, ReportedNotNone DEF Err, Option
<1>3. CASE LiveError(l, t) = None /\ l.asset[t].owner = o /\ l.metadata[t] # None
  <2>1. PICK k : k = [l EXCEPT !.metadata[t] = None,
                               !.bal = Unreserve(@, o, MetadataDepositBase)]
    OBVIOUS
  <2>2. r = Ok(k)
    BY <1>3, <2>1 DEF assets_clear_metadata
  <2>3. LedgerWith(k, l.asset, l.account, l.approval, [l.metadata EXCEPT ![t] = None],
                   Unreserve(l.bal, o, MetadataDepositBase))
    BY <2>1 DEF LedgerWith, Sound, Ledger
  <2>4. l.asset[t] # None
    BY <1>3, LiveErrors
  <2>5. Sound(k) /\ OnlyToken(l, k, t) /\ DescribedIn(l, k, t, o)
    BY <1>3, <2>3, <2>4, MetadataCleared
  <2>6. r.ledger = k /\ r.error = None
    BY <2>2 DEF Ok
  <2> QED
    BY <2>5, <2>6 DEF Option
<1> QED
  BY <1>1, <1>2, <1>3

\* Destroying a token removes all of it.
DestroyedIn(l, k, t) ==
    /\ l.asset[t] # None /\ ~ Live(l, t)
    /\ k.asset[t] = None /\ Blank(k, t)

LEMMA DestroyEffect ==
    ASSUME NEW l, Sound(l), NEW t \in TokenId, assets_destroy(l, t).error = None
    PROVE  LET k == assets_destroy(l, t).ledger IN
           Sound(k) /\ OnlyToken(l, k, t) /\ DestroyedIn(l, k, t)
<1> DEFINE zero   == [a \in AccountId |-> 0]
           none   == [a \in AccountId |-> [b \in AccountId |-> None]]
           refund == [a \in AccountId |-> Refund(l, t, a)]
<1>1. l \in Ledger
  BY DEF Sound
<1> HIDE DEF zero, none, refund
<1>2. PICK k : k = [l EXCEPT !.account[t] = zero, !.approval[t] = none, !.asset[t] = None,
                             !.metadata[t] = None, !.bal = UnreserveAll(@, refund)]
  OBVIOUS
<1> USE DEF zero, none, refund
<1>3. l.asset[t] # None /\ ~ Live(l, t) /\ assets_destroy(l, t).ledger = k
  <2>1. l.asset[t] # None
    <3> SUFFICES ASSUME l.asset[t] = None PROVE FALSE
      OBVIOUS
    <3>1. assets_destroy(l, t) = Err(l, Unknown)
      BY DEF assets_destroy
    <3> QED
      BY <3>1, KnownErrors, ReportedNotNone DEF Err
  <2>2. ~ Live(l, t)
    <3> SUFFICES ASSUME Live(l, t) PROVE FALSE
      OBVIOUS
    <3>1. assets_destroy(l, t) = Err(l, IncorrectStatus)
      BY <2>1 DEF assets_destroy
    <3> QED
      BY <3>1, KnownErrors, ReportedNotNone DEF Err
  <2>3. assets_destroy(l, t) = Ok(k)
    BY <1>2, <2>1, <2>2 DEF assets_destroy, Refund
  <2> QED
    BY <2>1, <2>2, <2>3 DEF Ok
<1>4. LedgerWith(k, [l.asset EXCEPT ![t] = None], [l.account EXCEPT ![t] = zero],
                 [l.approval EXCEPT ![t] = none], [l.metadata EXCEPT ![t] = None],
                 UnreserveAll(l.bal, refund))
  BY <1>1, <1>2 DEF LedgerWith, Ledger
<1>5. /\ k.asset = [l.asset EXCEPT ![t] = None] /\ k.account = [l.account EXCEPT ![t] = zero]
      /\ k.approval = [l.approval EXCEPT ![t] = none]
      /\ k.metadata = [l.metadata EXCEPT ![t] = None] /\ k.bal = UnreserveAll(l.bal, refund)
  BY <1>4 DEF LedgerWith
<1>6. /\ l.approval \in [TokenId -> [AccountId -> [AccountId -> Option(Balance)]]]
      /\ l.asset \in [TokenId -> Option(AssetDetails)]
      /\ l.account \in [TokenId -> [AccountId -> Balance]]
      /\ l.metadata \in [TokenId -> Option(AssetMetadata)]
      /\ l.bal.free \in [AccountId -> Nat] /\ l.bal.reserved \in [AccountId -> Nat]
  BY <1>1, LedgerParts
<1>7. zero \in [AccountId -> Balance] /\ none \in [AccountId -> [AccountId -> Option(Balance)]]
  BY AssetsAssumption DEF Balance, Option
<1>8. k.asset[t] = None /\ Blank(k, t)
  BY <1>5, <1>6 DEF Blank
<1>9. OnlyToken(l, k, t)
  BY <1>5, <1>6 DEF OnlyToken
<1>10. ASSUME NEW a \in AccountId
       PROVE  /\ Refund(l, t, a) \in Nat /\ Deposits(l, a) = Deposits(k, a) + Refund(l, t, a)
              /\ refund[a] = Refund(l, t, a) /\ refund[a] \in 0..l.bal.reserved[a]
  <2>1. Refund(l, t, a) \in Nat /\ Deposits(l, a) = Deposits(k, a) + Refund(l, t, a)
    <3>1. Without(l, k, t)
      BY <1>5 DEF Without
    <3> QED
      BY <1>1, <1>3, <3>1, DestroyDeposits
  <2>2. l.bal.reserved[a] = Deposits(l, a) /\ Deposits(k, a) \in Nat
    BY DepositSets DEF Sound, Funded
  <2>3. refund[a] = Refund(l, t, a)
    OBVIOUS
  <2> QED
    BY <2>1, <2>2, <2>3
<1> HIDE DEF refund
<1>11. k.bal = [free     |-> [a \in AccountId |-> l.bal.free[a] + refund[a]],
                reserved |-> [a \in AccountId |-> l.bal.reserved[a] - refund[a]]]
  <2>1. DOMAIN l.bal.free = AccountId /\ DOMAIN l.bal.reserved = AccountId
    BY <1>6
  <2> QED
    BY <1>5, <1>10, <2>1 DEF UnreserveAll
<1>12. /\ \A a \in AccountId : k.bal.free[a] = l.bal.free[a] + refund[a]
       /\ \A a \in AccountId : k.bal.reserved[a] = l.bal.reserved[a] - refund[a]
  BY <1>11
<1>13. k.bal \in BalanceSheet(AccountId)
  BY <1>6, <1>10, <1>11 DEF BalanceSheet
<1>14. ASSUME NEW a \in AccountId PROVE Funded(k, a)
  <2>1. Funded(l, a) /\ Deposits(k, a) \in Nat /\ InitialFree[a] \in Nat
    BY DepositSets, ContractAssumption DEF Sound
  <2>2. /\ k.bal.free[a] = l.bal.free[a] + refund[a]
        /\ k.bal.reserved[a] = l.bal.reserved[a] - refund[a]
        /\ refund[a] \in Nat /\ Deposits(l, a) = Deposits(k, a) + refund[a]
    BY <1>10, <1>12
  <2>3. l.bal.reserved[a] = Deposits(l, a) /\ l.bal.free[a] = InitialFree[a] - Deposits(l, a)
    BY <2>1 DEF Funded
  <2>4. k.bal.reserved[a] = Deposits(k, a) /\ k.bal.free[a] = InitialFree[a] - Deposits(k, a)
    BY <2>1, <2>2, <2>3
  <2> QED
    BY <2>4 DEF Funded
<1>15. k \in Ledger
  <2>1. PICK as \in [TokenId -> Option(AssetDetails)], ac \in [TokenId -> [AccountId -> Balance]],
             ap \in [TokenId -> [AccountId -> [AccountId -> Option(Balance)]]],
             me \in [TokenId -> Option(AssetMetadata)], ba \in BalanceSheet(AccountId) :
                LedgerWith(k, as, ac, ap, me, ba)
    <3> HIDE DEF zero, none
    <3>1. /\ [l.asset EXCEPT ![t] = None] \in [TokenId -> Option(AssetDetails)]
          /\ [l.account EXCEPT ![t] = zero] \in [TokenId -> [AccountId -> Balance]]
          /\ [l.approval EXCEPT ![t] = none]
                \in [TokenId -> [AccountId -> [AccountId -> Option(Balance)]]]
          /\ [l.metadata EXCEPT ![t] = None] \in [TokenId -> Option(AssetMetadata)]
      BY <1>6, <1>7 DEF Option
    <3>2. UnreserveAll(l.bal, refund) \in BalanceSheet(AccountId)
      BY <1>5, <1>13
    <3> QED
      BY <1>4, <3>1, <3>2
  <2> QED
    BY <2>1, LedgerMade
<1>16. Sound(k)
  BY <1>8, <1>9, <1>14, <1>15, SoundAt
<1> QED
  BY <1>3, <1>8, <1>9, <1>16 DEF DestroyedIn
-----------------------------------------------------------------------------
(* The dispatchables of the fungibles pallet *)

\* Of the weight w that was charged enough is kept to pay for the work.
Paid(r, w) ==
    /\ r.work \in Nat /\ ActualWeight(r, w) \in Nat
    /\ r.work <= ActualWeight(r, w) /\ ActualWeight(r, w) <= w

\* A dispatchable on token t, charged w, may fail with an error; a success is sound.
Good(l, t, r, w) ==
    /\ r.error \in Option(Reported)
    /\ r.error = None => Sound(r.ledger) /\ OnlyToken(l, r.ledger, t)
    /\ r.event \in Option(Event)
    /\ Paid(r, w)
    /\ DOMAIN r = {"ledger", "error", "event", "weight", "work"}

\* q is the result of the last operation of pallet-assets in the call.
Ends(l, t, q) ==
    /\ q.error \in Option(Reported)
    /\ q.error = None => Sound(q.ledger) /\ OnlyToken(l, q.ledger, t)

\* The weight that is reported, if any, pays for the work and is not above w.
Charged(weight, work, w) ==
    /\ work \in Nat /\ w \in Nat
    /\ \/ weight = None /\ work <= w
       \/ weight \in Nat /\ work <= weight /\ weight <= w

LEMMA Ending ==
    ASSUME NEW l, NEW t, NEW q, Ends(l, t, q), NEW event \in Option(Event), NEW weight, NEW work,
           NEW w, Charged(weight, work, w), NEW r, r = Result(q, event, weight, work)
    PROVE  Good(l, t, r, w) /\ r.ledger = q.ledger /\ r.error = q.error
<1>1. /\ r.ledger = q.ledger /\ r.error = q.error /\ r.weight = weight /\ r.work = work
      /\ r.event = IF q.error = None THEN event ELSE None
      /\ DOMAIN r = {"ledger", "error", "event", "weight", "work"}
  BY DEF Result
<1>2. Paid(r, w)
  <2>1. CASE weight = None
    <3>1. work \in Nat /\ w \in Nat /\ work <= w
      BY <2>1, AssetsAssumption DEF Charged
    <3> QED
      BY <1>1, <2>1, <3>1 DEF Paid, ActualWeight
  <2>2. CASE weight # None
    BY <1>1, <2>2 DEF Paid, ActualWeight, Lesser, Charged
  <2> QED
    BY <2>1, <2>2
<1>3. r.event \in Option(Event)
  BY <1>1 DEF Option
<1> QED
  BY <1>1, <1>2, <1>3 DEF Good, Ends

\* The weights that the dispatchables report.
LEMMA Charges ==
    /\ Charged(1, 1, 3) /\ Charged(2, 2, 3) /\ Charged(3, 3, 3) /\ Charged(1, 0, 3)
    /\ Charged(None, 1, 3) /\ Charged(1, 1, 2) /\ Charged(None, 2, 2) /\ Charged(None, 1, 1)
BY DEF Charged

LEMMA EventTypes ==
    ASSUME NEW t \in TokenId, NEW a \in Option(AccountId), NEW b \in Option(AccountId), NEW v \in Nat
    PROVE  /\ ApprovalEvent(t, a, b, v) \in Event /\ TransferEvent(t, a, b, v) \in Event
           /\ CreatedEvent(t, a, b) \in Event
           /\ Event \subseteq Option(Event) /\ None \in Option(Event)
BY DEF ApprovalEvent, TransferEvent, CreatedEvent, Event, Option

LEMMA Options ==
    /\ None \in Option(Nat) /\ 0 \in Option(Nat) /\ 1 \in Option(Nat) /\ 2 \in Option(Nat)
    /\ 3 \in Option(Nat) /\ AccountId \subseteq Option(AccountId) /\ None \in Option(AccountId)
    /\ None \notin Nat /\ None \in Option(Reported) /\ \A x \in Balance : x \in Nat
BY AssetsAssumption DEF Option, Balance

\* The allowance that o gives to s is v afterwards; nothing else of the token changes.
AllowedIn(l, k, t, o, s, v) ==
    /\ allowance(k, t, o, s) = v
    /\ \/ k = l
       \/ /\ Live(l, t)
          /\ k.asset = l.asset /\ k.account = l.account /\ k.metadata = l.metadata
          /\ \E x \in Option(Balance) : k.approval = [l.approval EXCEPT ![t][o][s] = x]

LEMMA ApprovedMeans ==
    ASSUME NEW l \in Ledger, NEW k \in Ledger, NEW t \in TokenId, NEW o \in AccountId,
           NEW s \in AccountId, NEW n \in Nat, ApprovedIn(l, k, t, o, s, n)
    PROVE  /\ AllowedIn(l, k, t, o, s, Lesser(allowance(l, t, o, s) + n, BalanceMax))
           /\ OnlyToken(l, k, t)
<1> DEFINE v == Lesser(allowance(l, t, o, s) + n, BalanceMax)
<1>1. v \in Balance /\ v # None /\ v \in Option(Balance)
  BY Allowances, AssetsAssumption DEF Lesser, Balance, Option
<1>2. /\ Live(l, t) /\ k.asset = l.asset /\ k.account = l.account /\ k.metadata = l.metadata
      /\ k.approval = [l.approval EXCEPT ![t][o][s] = v]
  BY DEF ApprovedIn
<1>3. l.approval \in [TokenId -> [AccountId -> [AccountId -> Option(Balance)]]]
  BY LedgerParts
<1> HIDE DEF v
<1>4. k.approval[t][o][s] = v
  BY <1>2, <1>3
<1>5. allowance(k, t, o, s) = v
  BY <1>1, <1>4 DEF allowance
<1>6. OnlyToken(l, k, t)
  BY <1>2, <1>3 DEF OnlyToken
<1> QED
  BY <1>1, <1>2, <1>5, <1>6 DEF AllowedIn, v

LEMMA CancelledMeans ==
    ASSUME NEW l \in Ledger, NEW k \in Ledger, NEW t \in TokenId, NEW o \in AccountId,
           NEW s \in AccountId, CancelledIn(l, k, t, o, s)
    PROVE  AllowedIn(l, k, t, o, s, 0) /\ OnlyToken(l, k, t) /\ Live(k, t)
           /\ k.approval[t][o][s] = None
<1>1. /\ Live(l, t) /\ k.asset = l.asset /\ k.account = l.account /\ k.metadata = l.metadata
      /\ k.approval = [l.approval EXCEPT ![t][o][s] = None]
  BY DEF CancelledIn
<1>2. l.approval \in [TokenId -> [AccountId -> [AccountId -> Option(Balance)]]]
  BY LedgerParts
<1>3. k.approval[t][o][s] = None
  BY <1>1, <1>2
<1>4. None \in Option(Balance)
  BY DEF Option
<1>5. OnlyToken(l, k, t)
  BY <1>1, <1>2 DEF OnlyToken
<1>6. Live(k, t) /\ allowance(k, t, o, s) = 0
  BY <1>1, <1>3 DEF Live, allowance
<1> QED
  BY <1>1, <1>3, <1>4, <1>5, <1>6 DEF AllowedIn

\* Cancelling an allowance and approving a smaller one: the deposit that was released can be
\* reserved again, so nothing can go wrong half way.
LEMMA LoweredIn ==
    ASSUME NEW l, Sound(l), NEW t \in TokenId, NEW o \in AccountId, NEW s \in AccountId,
           NEW n \in Balance, assets_cancel_approval(l, o, t, s).error = None
    PROVE  LET k == assets_cancel_approval(l, o, t, s).ledger
               r == assets_approve_transfer(k, o, t, s, n)
           IN  /\ r.error = None /\ Sound(r.ledger) /\ OnlyToken(l, r.ledger, t)
               /\ AllowedIn(l, r.ledger, t, o, s, n)
<1>1. PICK k : k = assets_cancel_approval(l, o, t, s).ledger
  OBVIOUS
<1>2. PICK r : r = assets_approve_transfer(k, o, t, s, n)
  OBVIOUS
<1>3. /\ Sound(k) /\ CancelledIn(l, k, t, o, s)
      /\ k.bal.free[o] = l.bal.free[o] + ApprovalDeposit
  BY <1>1, CancelEffect
<1>4. l \in Ledger /\ k \in Ledger /\ n \in Nat /\ BalanceMax \in Nat /\ n <= BalanceMax
  BY <1>3, AssetsAssumption DEF Sound, Balance
<1>5. /\ AllowedIn(l, k, t, o, s, 0) /\ OnlyToken(l, k, t) /\ Live(k, t)
      /\ k.approval[t][o][s] = None
  BY <1>3, <1>4, CancelledMeans
<1>6. CanReserve(k.bal, o, ApprovalDeposit)
  <2>1. l.bal.free[o] \in Nat /\ ApprovalDeposit \in Nat
    BY <1>4, LedgerParts, AssetsAssumption
  <2> QED
    BY <1>3, <2>1 DEF CanReserve
<1>7. r.error = None /\ Sound(r.ledger) /\ ApprovedIn(k, r.ledger, t, o, s, n)
  BY <1>2, <1>3, <1>4, <1>5, <1>6, ApproveEffect
<1>8. PICK j : j = r.ledger
  OBVIOUS
<1>9. j \in Ledger
  BY <1>7, <1>8 DEF Sound
<1>10. AllowedIn(k, j, t, o, s, Lesser(allowance(k, t, o, s) + n, BalanceMax)) /\ OnlyToken(k, j, t)
  BY <1>4, <1>7, <1>8, <1>9, ApprovedMeans
<1>11. Lesser(allowance(k, t, o, s) + n, BalanceMax) = n
  BY <1>4, <1>5 DEF AllowedIn, Lesser
<1>12. allowance(j, t, o, s) = n
  BY <1>10, <1>11 DEF AllowedIn
<1>13. OnlyToken(l, j, t)
  BY <1>5, <1>10 DEF OnlyToken
<1>14. AllowedIn(l, j, t, o, s, n)
  <2>1. /\ k.asset = l.asset /\ k.account = l.account /\ k.metadata = l.metadata
        /\ k.approval = [l.approval EXCEPT ![t][o][s] = None] /\ Live(l, t)
    BY <1>3 DEF CancelledIn
  <2>2. /\ j.asset = k.asset /\ j.account = k.account /\ j.metadata = k.metadata
        /\ j.approval = [k.approval EXCEPT ![t][o][s] = Lesser(allowance(k, t, o, s) + n, BalanceMax)]
    BY <1>7, <1>8 DEF ApprovedIn
  <2>3. l.approval \in [TokenId -> [AccountId -> [AccountId -> Option(Balance)]]]
    BY <1>4, LedgerParts
  <2>4. j.approval = [l.approval EXCEPT ![t][o][s] = n]
    <3>1. \A f \in [TokenId -> [AccountId -> [AccountId -> Option(Balance)]]] :
             [[f EXCEPT ![t][o][s] = None] EXCEPT ![t][o][s] = n] = [f EXCEPT ![t][o][s] = n]
      OBVIOUS
    <3>2. j.approval = [k.approval EXCEPT ![t][o][s] = n]
      BY <1>11, <2>2
    <3>3. k.approval = [l.approval EXCEPT ![t][o][s] = None]
      BY <2>1
    <3>4. [k.approval EXCEPT ![t][o][s] = n]
             = [[l.approval EXCEPT ![t][o][s] = None] EXCEPT ![t][o][s] = n]
      BY <3>3, Zenon
    <3>5. [[l.approval EXCEPT ![t][o][s] = None] EXCEPT ![t][o][s] = n]
             = [l.approval EXCEPT ![t][o][s] = n]
      BY <2>3, <3>1, Zenon
    <3> QED
      BY <3>2, <3>4, <3>5, Zenon
  <2>5. n \in Option(Balance)
    BY DEF Option
  <2> QED
    BY <1>12, <2>1, <2>2, <2>4, <2>5 DEF AllowedIn
<1> QED
  BY <1>1, <1>2, <1>7, <1>8, <1>13, <1>14

LEMMA ApproveCall ==
    ASSUME NEW l, Sound(l), NEW t \in TokenId, NEW o \in AccountId, NEW s \in AccountId,
           NEW n \in Balance
    PROVE  LET r == approve(l, o, t, s, n) IN
           /\ Good(l, t, r, 3)
           /\ r.error = None => AllowedIn(l, r.ledger, t, o, s, n)
           /\ n < allowance(l, t, o, s) /\ Live(l, t) => r.error = None
<1> DEFINE current   == allowance(l, t, o, s)
           event     == ApprovalEvent(t, o, s, n)
           cancelled == assets_cancel_approval(l, o, t, s)
           r         == approve(l, o, t, s, n)
<1>1. l \in Ledger /\ n \in Nat /\ n <= BalanceMax /\ BalanceMax \in Nat
  BY AssetsAssumption DEF Sound, Balance
<1>2. current \in Nat /\ event \in Option(Event)
  BY <1>1, Allowances, EventTypes, Options
<1>3. approve_weight(0, 0) = 1 /\ approve_weight(1, 0) = 2 /\ approve_weight(0, 1) = 2
      /\ approve_weight(1, 1) = 3
  BY DEF approve_weight
<1>4. CASE n = current
  <2>1. r = Result(Ok(l), event, 1, 1)
    BY <1>2, <1>3, <1>4 DEF approve
  <2>2. Ok(l).error = None /\ Ok(l).ledger = l /\ OnlyToken(l, l, t)
    BY DEF Ok, OnlyToken
  <2> HIDE DEF event
  <2>3. Good(l, t, r, 3) /\ r.ledger = l
    <3>1. Ends(l, t, Ok(l))
      BY <2>2, Options DEF Ends
    <3> QED
      BY <1>2, <2>1, <2>2, <3>1, Ending, Charges
  <2> QED
    BY <1>1, <1>2, <1>4, <2>3 DEF AllowedIn
<1>5. CASE n > current
  <2>1. PICK q : q = assets_approve_transfer(l, o, t, s, n - current)
    OBVIOUS
  <2>2. r = Result(q, event, 2, 2)
    BY <1>1, <1>2, <1>3, <1>5, <2>1 DEF approve
  <2>3. n - current \in Nat
    BY <1>1, <1>2, <1>5
  <2>4. /\ q.error \in Option(Reported)
        /\ q.error = None => Sound(q.ledger) /\ ApprovedIn(l, q.ledger, t, o, s, n - current)
    <3> HIDE DEF current
    <3> QED
      BY <2>1, <2>3, ApproveEffect
  <2>5. q.error = None => OnlyToken(l, q.ledger, t) /\ AllowedIn(l, q.ledger, t, o, s, n)
    <3> SUFFICES ASSUME q.error = None
                 PROVE  OnlyToken(l, q.ledger, t) /\ AllowedIn(l, q.ledger, t, o, s, n)
      OBVIOUS
    <3>1. PICK k : k = q.ledger
      OBVIOUS
    <3>2. PICK d \in Nat : d = n - current
      BY <2>3
    <3>3. k \in Ledger /\ ApprovedIn(l, k, t, o, s, d)
      BY <2>4, <3>1, <3>2 DEF Sound
    <3>4. AllowedIn(l, k, t, o, s, Lesser(allowance(l, t, o, s) + d, BalanceMax))
          /\ OnlyToken(l, k, t)
      BY <1>1, <3>3, ApprovedMeans
    <3>5. Lesser(allowance(l, t, o, s) + d, BalanceMax) = n
      BY <1>1, <1>2, <3>2 DEF Lesser
    <3> QED
      BY <3>1, <3>4, <3>5
  <2> HIDE DEF event
  <2>6. Good(l, t, r, 3) /\ r.ledger = q.ledger /\ r.error = q.error
    <3>1. Ends(l, t, q)
      BY <2>4, <2>5 DEF Ends
    <3> QED
      BY <1>2, <2>2, <3>1, Ending, Charges
  <2> QED
    BY <1>1, <1>2, <1>5, <2>5, <2>6
<1>6. CASE n < current
  <2>1. /\ cancelled.error \in Option(Reported)
        /\ cancelled.error = None => /\ Sound(cancelled.ledger)
                                     /\ CancelledIn(l, cancelled.ledger, t, o, s)
        /\ Live(l, t) /\ l.approval[t][o][s] # None => cancelled.error = None
    BY CancelEffect
  <2>2. l.approval[t][o][s] # None
    BY <1>1, <1>2, <1>6, Allowances
  <2>3. cancelled.error = None =>
           OnlyToken(l, cancelled.ledger, t) /\ AllowedIn(l, cancelled.ledger, t, o, s, 0)
    <3> SUFFICES ASSUME cancelled.error = None
                 PROVE  OnlyToken(l, cancelled.ledger, t) /\ AllowedIn(l, cancelled.ledger, t, o, s, 0)
      OBVIOUS
    <3>1. PICK k : k = cancelled.ledger
      OBVIOUS
    <3>2. k \in Ledger /\ CancelledIn(l, k, t, o, s)
      BY <2>1, <3>1 DEF Sound
    <3> QED
      BY <1>1, <3>1, <3>2, CancelledMeans
  <2>4. CASE cancelled.error # None \/ n = 0
    <3>1. r = Result(cancelled, event, 2, 2)
      BY <1>1, <1>2, <1>3, <1>6, <2>4 DEF approve
    <3> HIDE DEF cancelled, event
    <3>2. Good(l, t, r, 3) /\ r.ledger = cancelled.ledger /\ r.error = cancelled.error
      <4>1. Ends(l, t, cancelled)
        BY <2>1, <2>3 DEF Ends
      <4> QED
        BY <1>2, <3>1, <4>1, Ending, Charges
    <3> QED
      BY <2>1, <2>2, <2>3, <2>4, <3>2
  <2>5. CASE cancelled.error = None /\ n # 0
    <3>1. PICK q : q = assets_approve_transfer(cancelled.ledger, o, t, s, n)
      OBVIOUS
    <3>2. q.error = None /\ Sound(q.ledger) /\ OnlyToken(l, q.ledger, t)
          /\ AllowedIn(l, q.ledger, t, o, s, n)
      BY <2>5, <3>1, LoweredIn
    <3>3. r = Result(q, event, 3, 3)
      BY <1>1, <1>2, <1>3, <1>6, <2>5, <3>1, <3>2 DEF approve
    <3> HIDE DEF cancelled, event
    <3>4. Good(l, t, r, 3) /\ r.ledger = q.ledger /\ r.error = q.error
      <4>1. Ends(l, t, q)
        BY <3>2, Options DEF Ends
      <4> QED
        BY <1>2, <3>3, <4>1, Ending, Charges
    <3> QED
      BY <3>2, <3>4
  <2> QED
    BY <2>4, <2>5
<1> QED
  BY <1>1, <1>2, <1>4, <1>5, <1>6

LEMMA IncreaseCall ==
    ASSUME NEW l, Sound(l), NEW t \in TokenId, NEW o \in AccountId, NEW s \in AccountId,
           NEW n \in Balance
    PROVE  LET r == increase_allowance(l, o, t, s, n) IN
           /\ Good(l, t, r, 2)
           /\ r.error = None =>
                 AllowedIn(l, r.ledger, t, o, s, Lesser(allowance(l, t, o, s) + n, BalanceMax))
<1>1. PICK q : q = assets_approve_transfer(l, o, t, s, n)
  OBVIOUS
<1>2. l \in Ledger /\ n \in Nat
  BY Options DEF Sound
<1>3. /\ q.error \in Option(Reported)
      /\ q.error = None => Sound(q.ledger) /\ ApprovedIn(l, q.ledger, t, o, s, n)
  BY <1>1, <1>2, ApproveEffect
<1>4. PICK r : r = increase_allowance(l, o, t, s, n)
  OBVIOUS
<1>5. CASE q.error # None
  <2>1. r = Result(q, None, 1, 1)
    BY <1>1, <1>4, <1>5 DEF increase_allowance, assets_weight
  <2>2. Good(l, t, r, 2) /\ r.error = q.error
    <3>1. Ends(l, t, q) /\ None \in Option(Event)
      BY <1>3, <1>5 DEF Ends, Option
    <3> QED
      BY <2>1, <3>1, Ending, Charges
  <2> QED
    BY <1>4, <1>5, <2>2
<1>6. CASE q.error = None
  <2>1. PICK k : k = q.ledger
    OBVIOUS
  <2>2. k \in Ledger
    BY <1>3, <1>6, <2>1 DEF Sound
  <2>3. /\ AllowedIn(l, k, t, o, s, Lesser(allowance(l, t, o, s) + n, BalanceMax))
        /\ OnlyToken(l, k, t)
    BY <1>2, <1>3, <1>6, <2>1, <2>2, ApprovedMeans
  <2>4. PICK event : event = ApprovalEvent(t, o, s, allowance(k, t, o, s))
    OBVIOUS
  <2>5. event \in Option(Event)
    BY <2>2, <2>4, Allowances, EventTypes, Options
  <2>6. r = Result(q, event, None, 2)
    BY <1>1, <1>4, <1>6, <2>1, <2>4 DEF increase_allowance
  <2>7. Good(l, t, r, 2) /\ r.ledger = q.ledger
    <3>1. Ends(l, t, q)
      BY <1>3, <1>6, <2>1, <2>3, Options DEF Ends
    <3> QED
      BY <2>5, <2>6, <3>1, Ending, Charges
  <2> QED
    BY <1>4, <2>1, <2>3, <2>7
<1> QED
  BY <1>5, <1>6

LEMMA DecreaseCall ==
    ASSUME NEW l, Sound(l), NEW t \in TokenId, NEW o \in AccountId, NEW s \in AccountId,
           NEW n \in Balance
    PROVE  LET r == decrease_allowance(l, o, t, s, n) IN
           /\ Good(l, t, r, 3)
           /\ r.error = None => AllowedIn(l, r.ledger, t, o, s, allowance(l, t, o, s) - n)
                                /\ n <= allowance(l, t, o, s)
           /\ n <= allowance(l, t, o, s) /\ Live(l, t) => r.error = None
<1> DEFINE current   == allowance(l, t, o, s)
           event     == ApprovalEvent(t, o, s, current - n)
           cancelled == assets_cancel_approval(l, o, t, s)
           r         == decrease_allowance(l, o, t, s, n)
<1>1. l \in Ledger /\ n \in Nat /\ BalanceMax \in Nat
  BY Options, AssetsAssumption DEF Sound
<1>2. current \in Nat /\ current <= BalanceMax
  BY <1>1, Allowances DEF Balance
<1>3. approve_weight(0, 0) = 1 /\ approve_weight(0, 1) = 2 /\ approve_weight(1, 1) = 3
  BY DEF approve_weight
<1>4. CASE n = 0
  <2>1. r = Result(Ok(l), None, 1, 0)
    BY <1>3, <1>4 DEF decrease_allowance
  <2>2. Ok(l).error = None /\ Ok(l).ledger = l /\ OnlyToken(l, l, t)
    BY DEF Ok, OnlyToken
  <2>3. Good(l, t, r, 3) /\ r.ledger = l
    <3>1. Ends(l, t, Ok(l)) /\ None \in Option(Event)
      BY <2>2, Options DEF Ends, Option
    <3> QED
      BY <2>1, <2>2, <3>1, Ending, Charges
  <2>4. current - n = current /\ n <= current
    BY <1>2, <1>4
  <2> QED
    BY <2>1, <2>2, <2>3, <2>4 DEF AllowedIn, Result
<1>5. CASE n # 0 /\ current < n
  <2>1. r = Result(Err(l, Unapproved), None, None, 1)
    BY <1>5 DEF decrease_allowance
  <2>2. PICK q : q = Err(l, Unapproved)
    OBVIOUS
  <2>3. q.error \in Option(Reported) /\ q.error # None
    BY <2>2, KnownErrors, ReportedNotNone DEF Err, Option
  <2>4. Good(l, t, r, 3) /\ r.error = q.error
    <3>1. Ends(l, t, q) /\ None \in Option(Event)
      BY <2>3 DEF Ends, Option
    <3> QED
      BY <2>1, <2>2, <3>1, Ending, Charges
  <2> QED
    BY <1>1, <1>2, <1>5, <2>3, <2>4
<1>6. CASE n # 0 /\ ~ (current < n)
  <2>1. /\ cancelled.error \in Option(Reported)
        /\ cancelled.error = None => /\ Sound(cancelled.ledger)
                                     /\ CancelledIn(l, cancelled.ledger, t, o, s)
        /\ Live(l, t) /\ l.approval[t][o][s] # None => cancelled.error = None
    BY CancelEffect
  <2>2. l.approval[t][o][s] # None /\ n <= current
    BY <1>1, <1>2, <1>6, Allowances
  <2>3. cancelled.error = None =>
           OnlyToken(l, cancelled.ledger, t) /\ AllowedIn(l, cancelled.ledger, t, o, s, 0)
    <3> SUFFICES ASSUME cancelled.error = None
                 PROVE  OnlyToken(l, cancelled.ledger, t) /\ AllowedIn(l, cancelled.ledger, t, o, s, 0)
      OBVIOUS
    <3>1. PICK k : k = cancelled.ledger
      OBVIOUS
    <3>2. k \in Ledger /\ CancelledIn(l, k, t, o, s)
      BY <2>1, <3>1 DEF Sound
    <3> QED
      BY <1>1, <3>1, <3>2, CancelledMeans
  <2>4. current - n \in Nat /\ current - n \in Balance
    BY <1>1, <1>2, <2>2 DEF Balance
  <2>5. event \in Option(Event)
    BY <2>4, EventTypes, Options
  <2>6. CASE cancelled.error # None \/ current = n
    <3>1. r = Result(cancelled, event, 2, 2)
      BY <1>1, <1>2, <1>3, <1>6, <2>6 DEF decrease_allowance
    <3>2. current = n => current - n = 0
      BY <1>2
    <3> HIDE DEF cancelled, event
    <3>3. Good(l, t, r, 3) /\ r.ledger = cancelled.ledger /\ r.error = cancelled.error
      <4>1. Ends(l, t, cancelled)
        BY <2>1, <2>3 DEF Ends
      <4> QED
        BY <2>5, <3>1, <4>1, Ending, Charges
    <3> QED
      BY <2>1, <2>2, <2>3, <2>6, <3>2, <3>3
  <2>7. CASE cancelled.error = None /\ current # n
    <3>1. PICK q : q = assets_approve_transfer(cancelled.ledger, o, t, s, current - n)
      OBVIOUS
    <3>2. q.error = None /\ Sound(q.ledger) /\ OnlyToken(l, q.ledger, t)
          /\ AllowedIn(l, q.ledger, t, o, s, current - n)
      BY <2>4, <2>7, <3>1, LoweredIn
    <3>3. r = Result(q, event, 3, 3)
      BY <1>1, <1>2, <1>3, <1>6, <2>7, <3>1, <3>2 DEF decrease_allowance
    <3> HIDE DEF cancelled, event
    <3>4. Good(l, t, r, 3) /\ r.ledger = q.ledger /\ r.error = q.error
      <4>1. Ends(l, t, q)
        BY <3>2, Options DEF Ends
      <4> QED
        BY <2>5, <3>3, <4>1, Ending, Charges
    <3> QED
      BY <2>2, <3>2, <3>4
  <2> QED
    BY <2>6, <2>7
<1> QED
  BY <1>4, <1>5, <1>6

LEMMA BurnCall ==
    ASSUME NEW l, Sound(l), NEW t \in TokenId, NEW o \in AccountId, NEW a \in AccountId,
           NEW n \in Balance
    PROVE  LET r == burn(l, o, t, a, n) IN
           /\ Good(l, t, r, 2)
           /\ r.error = None => \/ r.ledger = l /\ n = 0
                                \/ BurntIn(l, r.ledger, t, a, n) /\ l.asset[t].admin = o
<1>1. l \in Ledger /\ n \in Nat /\ l.account[t][a] \in Nat
  BY Options, Amounts DEF Sound
<1>2. PICK r : r = burn(l, o, t, a, n)
  OBVIOUS
<1>3. CASE balance(l, t, a) < n
  <2>1. PICK q : q = Err(l, BalanceLow)
    OBVIOUS
  <2>2. r = Result(q, None, 1, 1)
    BY <1>2, <1>3, <2>1 DEF burn, balance_of_weight
  <2>3. q.error \in Reported /\ q.error # None
    BY <2>1, KnownErrors, ReportedNotNone DEF Err
  <2>4. Ends(l, t, q) /\ None \in Option(Event)
    BY <2>3 DEF Ends, Option
  <2>5. Good(l, t, r, 2) /\ r.error = q.error
    BY <2>2, <2>4, Ending, Charges
  <2> QED
    BY <1>2, <2>3, <2>5
<1>4. CASE ~ (balance(l, t, a) < n)
  <2>1. PICK q : q = assets_burn(l, o, t, a, n)
    OBVIOUS
  <2>2. PICK event : event = TransferEvent(t, a, None, n)
    OBVIOUS
  <2>3. event \in Option(Event)
    BY <1>1, <2>2, EventTypes, Options
  <2>4. r = Result(q, event, None, 2)
    BY <1>2, <1>4, <2>1, <2>2 DEF burn
  <2>5. n <= l.account[t][a]
    BY <1>1, <1>4 DEF balance
  <2>6. /\ q.error \in Option(Reported)
        /\ q.error = None => /\ Sound(q.ledger) /\ OnlyToken(l, q.ledger, t)
                             /\ \/ q.ledger = l /\ n = 0
                                \/ BurntIn(l, q.ledger, t, a, n) /\ l.asset[t].admin = o
    BY <1>1, <2>1, <2>5, BurnEffect
  <2>7. Ends(l, t, q)
    BY <2>6 DEF Ends
  <2>8. Good(l, t, r, 2) /\ r.ledger = q.ledger /\ r.error = q.error
    BY <2>3, <2>4, <2>7, Ending, Charges
  <2> QED
    BY <1>2, <2>6, <2>8
<1> QED
  BY <1>3, <1>4

\* A call as it is decoded.
CallOK(c) ==
    /\ c.name \in DOMAIN CallIndex /\ c.token \in TokenId /\ c.value \in Nat
    /\ Typed(c.name, c)

\* What a successful call by o has made of ledger l.
Effect(l, o, c, k) ==
    /\ c.name = "transfer" =>
          \/ k = l /\ (c.value = 0 \/ o = c.who)
          \/ MovedIn(l, k, c.token, o, c.who, c.value, TRUE)
    /\ c.name = "transfer_from" => SpentIn(l, k, c.token, o, c.who, c.other, c.value)
    /\ c.name = "approve" => AllowedIn(l, k, c.token, o, c.who, c.value)
    /\ c.name = "increase_allowance" =>
          AllowedIn(l, k, c.token, o, c.who,
                    Lesser(allowance(l, c.token, o, c.who) + c.value, BalanceMax))
    /\ c.name = "decrease_allowance" =>
          /\ AllowedIn(l, k, c.token, o, c.who, allowance(l, c.token, o, c.who) - c.value)
          /\ c.value <= allowance(l, c.token, o, c.who)
    /\ c.name = "create" => CreatedIn(l, k, c.token, o, c.who, c.value)
    /\ c.name = "start_destroy" => StoppedIn(l, k, c.token)
    /\ c.name \in {"set_metadata", "clear_metadata"} => DescribedIn(l, k, c.token, o)
    /\ c.name = "mint" => (k = l /\ c.value = 0) \/ MintedIn(l, k, c.token, c.who, c.value)
    /\ c.name = "burn" =>
          \/ k = l /\ c.value = 0
          \/ BurntIn(l, k, c.token, c.who, c.value) /\ l.asset[c.token].admin = o

\* Whatever a user or a contract calls: it fails with an error, or leaves a sound ledger and
\* has had its effect; and what it is charged pays for its work.
LEMMA CallEffect ==
    ASSUME NEW l, Sound(l), NEW o \in AccountId, NEW c, CallOK(c)
    PROVE  LET r == Dispatchable(l, o, c) IN
           /\ Good(l, c.token, r, DispatchWeight(c))
           /\ r.error = None => Effect(l, o, c, r.ledger)
<1>1. l \in Ledger /\ c.token \in TokenId /\ c.value \in Nat
  BY DEF CallOK, Sound
<1>2. /\ c.name \in TakesWho => c.who \in AccountId
      /\ c.name \in TakesOther => c.other \in AccountId
      /\ c.name # "set_metadata" => c.value \in Balance
  BY DEF CallOK, Typed
<1>3. PICK r : r = Dispatchable(l, o, c)
  OBVIOUS
<1> SUFFICES /\ Good(l, c.token, r, DispatchWeight(c))
             /\ r.error = None => Effect(l, o, c, r.ledger)
  BY <1>3
<1>4. approve_weight(1, 1) = 3 /\ approve_weight(1, 0) = 2 /\ balance_of_weight + assets_weight = 2
      /\ assets_weight = 1
  BY DEF approve_weight, balance_of_weight, assets_weight
<1>5. CASE c.name = "transfer"
  <2>1. DispatchWeight(c) = 1
    BY <1>4, <1>5 DEF DispatchWeight
  <2>2. c.who \in AccountId
    BY <1>2, <1>5 DEF TakesWho, TakesOther
  <2>3. PICK q : q = Move(l, c.token, o, c.who, c.value, TRUE)
    OBVIOUS
  <2>4. PICK event : event = TransferEvent(c.token, o, c.who, c.value)
    OBVIOUS
  <2>5. event \in Option(Event)
    BY <1>1, <2>2, <2>4, EventTypes, Options DEF Option
  <2>6. r = Result(q, event, None, 1)
    BY <1>3, <1>5, <2>3, <2>4 DEF Dispatchable, transfer, assets_transfer_keep_alive
  <2>7. /\ q.error \in Option(Reported)
        /\ q.error = None => /\ Sound(q.ledger) /\ OnlyToken(l, q.ledger, c.token)
                             /\ \/ q.ledger = l /\ (c.value = 0 \/ o = c.who)
                                \/ MovedIn(l, q.ledger, c.token, o, c.who, c.value, TRUE)
    <3>1. /\ q.error \in Option(Reported)
          /\ q.error = None => \/ q.ledger = l /\ (c.value = 0 \/ o = c.who)
                               \/ MovedIn(l, q.ledger, c.token, o, c.who, c.value, TRUE)
      BY <1>1, <2>2, <2>3, MoveEffect
    <3>2. q.ledger = l => Sound(q.ledger) /\ OnlyToken(l, q.ledger, c.token)
      BY DEF OnlyToken
    <3>3. MovedIn(l, q.ledger, c.token, o, c.who, c.value, TRUE)
             => Sound(q.ledger) /\ OnlyToken(l, q.ledger, c.token)
      BY <1>1, <2>2, MovedParts
    <3> QED
      BY <3>1, <3>2, <3>3
  <2>8. q.error = None => Effect(l, o, c, q.ledger)
    BY <1>5, <2>7 DEF Effect
  <2>9. Ends(l, c.token, q)
    BY <2>7 DEF Ends
  <2>10. Good(l, c.token, r, 1) /\ r.ledger = q.ledger /\ r.error = q.error
    BY <2>5, <2>6, <2>9, Ending, Charges
  <2> QED
    BY <2>1, <2>8, <2>10
<1>6. CASE c.name = "transfer_from"
  <2>1. DispatchWeight(c) = 1
    BY <1>4, <1>6 DEF DispatchWeight
  <2>2. c.who \in AccountId /\ c.other \in AccountId
    BY <1>2, <1>6 DEF TakesWho, TakesOther
  <2>3. PICK q : q = assets_transfer_approved(l, o, c.token, c.who, c.other, c.value)
    OBVIOUS
  <2>4. PICK event : event = TransferEvent(c.token, c.who, c.other, c.value)
    OBVIOUS
  <2>5. event \in Option(Event)
    BY <1>1, <2>2, <2>4, EventTypes, Options DEF Option
  <2>6. r = Result(q, event, None, 1)
    BY <1>3, <1>6, <2>3, <2>4 DEF Dispatchable, transfer_from
  <2>7. /\ q.error \in Option(Reported)
        /\ q.error = None => Sound(q.ledger) /\ OnlyToken(l, q.ledger, c.token)
                             /\ Effect(l, o, c, q.ledger)
    BY <1>1, <1>2, <1>6, <2>2, <2>3, SpendEffect DEF Effect
  <2>8. q.error = None => Effect(l, o, c, q.ledger)
    BY <2>7
  <2>9. Ends(l, c.token, q)
    BY <2>7 DEF Ends
  <2>10. Good(l, c.token, r, 1) /\ r.ledger = q.ledger /\ r.error = q.error
    BY <2>5, <2>6, <2>9, Ending, Charges
  <2> QED
    BY <2>1, <2>8, <2>10
<1>7. CASE c.name = "create"
  <2>1. DispatchWeight(c) = 1
    BY <1>4, <1>7 DEF DispatchWeight
  <2>2. c.who \in AccountId
    BY <1>2, <1>7 DEF TakesWho, TakesOther
  <2>3. PICK q : q = assets_create(l, o, c.token, c.who, c.value)
    OBVIOUS
  <2>4. PICK event : event = CreatedEvent(c.token, o, c.who)
    OBVIOUS
  <2>5. event \in Option(Event)
    BY <1>1, <2>2, <2>4, EventTypes, Options DEF Option
  <2>6. r = Result(q, event, None, 1)
    BY <1>3, <1>7, <2>3, <2>4 DEF Dispatchable, create
  <2>7. /\ q.error \in Option(Reported)
        /\ q.error = None => Sound(q.ledger) /\ OnlyToken(l, q.ledger, c.token)
                             /\ Effect(l, o, c, q.ledger)
    BY <1>1, <1>2, <1>7, <2>2, <2>3, CreateEffect DEF Effect
  <2>8. q.error = None => Effect(l, o, c, q.ledger)
    BY <2>7
  <2>9. Ends(l, c.token, q)
    BY <2>7 DEF Ends
  <2>10. Good(l, c.token, r, 1) /\ r.ledger = q.ledger /\ r.error = q.error
    BY <2>5, <2>6, <2>9, Ending, Charges
  <2> QED
    BY <2>1, <2>8, <2>10
<1>8. CASE c.name = "start_destroy"
  <2>1. DispatchWeight(c) = 1
    BY <1>4, <1>8 DEF DispatchWeight
  <2>3. PICK q : q = assets_start_destroy(l, o, c.token)
    OBVIOUS
  <2>4. PICK event : event = None
    OBVIOUS
  <2>5. event \in Option(Event)
    BY <1>1, <2>4, EventTypes, Options DEF Option
  <2>6. r = Result(q, event, None, 1)
    BY <1>3, <1>8, <2>3, <2>4 DEF Dispatchable, start_destroy
  <2>7. /\ q.error \in Option(Reported)
        /\ q.error = None => Sound(q.ledger) /\ OnlyToken(l, q.ledger, c.token)
                             /\ Effect(l, o, c, q.ledger)
    BY <1>1, <1>2, <1>8, <2>3, StopEffect DEF Effect
  <2>8. q.error = None => Effect(l, o, c, q.ledger)
    BY <2>7
  <2>9. Ends(l, c.token, q)
    BY <2>7 DEF Ends
  <2>10. Good(l, c.token, r, 1) /\ r.ledger = q.ledger /\ r.error = q.error
    BY <2>5, <2>6, <2>9, Ending, Charges
  <2> QED
    BY <2>1, <2>8, <2>10
<1>9. CASE c.name = "set_metadata"
  <2>1. DispatchWeight(c) = 1
    BY <1>4, <1>9 DEF DispatchWeight
  <2>3. PICK q : q = assets_set_metadata(l, o, c.token, c.value, c.value, 0)
    OBVIOUS
  <2>4. PICK event : event = None
    OBVIOUS
  <2>5. event \in Option(Event)
    BY <1>1, <2>4, EventTypes, Options DEF Option
  <2>6. r = Result(q, event, None, 1)
    BY <1>3, <1>9, <2>3, <2>4 DEF Dispatchable, set_metadata
  <2>7. /\ q.error \in Option(Reported)
        /\ q.error = None => Sound(q.ledger) /\ OnlyToken(l, q.ledger, c.token)
                             /\ Effect(l, o, c, q.ledger)
    BY <1>1, <1>2, <1>9, <2>3, DescribeEffect DEF Effect
  <2>8. q.error = None => Effect(l, o, c, q.ledger)
    BY <2>7
  <2>9. Ends(l, c.token, q)
    BY <2>7 DEF Ends
  <2>10. Good(l, c.token, r, 1) /\ r.ledger = q.ledger /\ r.error = q.error
    BY <2>5, <2>6, <2>9, Ending, Charges
  <2> QED
    BY <2>1, <2>8, <2>10
<1>10. CASE c.name = "clear_metadata"
  <2>1. DispatchWeight(c) = 1
    BY <1>4, <1>10 DEF DispatchWeight
  <2>3. PICK q : q = assets_clear_metadata(l, o, c.token)
    OBVIOUS
  <2>4. PICK event : event = None
    OBVIOUS
  <2>5. event \in Option(Event)
    BY <1>1, <2>4, EventTypes, Options DEF Option
  <2>6. r = Result(q, event, None, 1)
    BY <1>3, <1>10, <2>3, <2>4 DEF Dispatchable, clear_metadata
  <2>7. /\ q.error \in Option(Reported)
        /\ q.error = None => Sound(q.ledger) /\ OnlyToken(l, q.ledger, c.token)
                             /\ Effect(l, o, c, q.ledger)
    BY <1>1, <1>2, <1>10, <2>3, ClearEffect DEF Effect
  <2>8. q.error = None => Effect(l, o, c, q.ledger)
    BY <2>7
  <2>9. Ends(l, c.token, q)
    BY <2>7 DEF Ends
  <2>10. Good(l, c.token, r, 1) /\ r.ledger = q.ledger /\ r.error = q.error
    BY <2>5, <2>6, <2>9, Ending, Charges
  <2> QED
    BY <2>1, <2>8, <2>10
<1>11. CASE c.name = "mint"
  <2>1. DispatchWeight(c) = 1
    BY <1>4, <1>11 DEF DispatchWeight
  <2>2. c.who \in AccountId
    BY <1>2, <1>11 DEF TakesWho, TakesOther
  <2>3. PICK q : q = assets_mint(l, o, c.token, c.who, c.value)
    OBVIOUS
  <2>4. PICK event : event = TransferEvent(c.token, None, c.who, c.value)
    OBVIOUS
  <2>5. event \in Option(Event)
    BY <1>1, <2>2, <2>4, EventTypes, Options DEF Option
  <2>6. r = Result(q, event, None, 1)
    BY <1>3, <1>11, <2>3, <2>4 DEF Dispatchable, mint
  <2>7. /\ q.error \in Option(Reported)
        /\ q.error = None => Sound(q.ledger) /\ OnlyToken(l, q.ledger, c.token)
                             /\ Effect(l, o, c, q.ledger)
    BY <1>1, <1>2, <1>11, <2>2, <2>3, MintEffect DEF Effect
  <2>8. q.error = None => Effect(l, o, c, q.ledger)
    BY <2>7
  <2>9. Ends(l, c.token, q)
    BY <2>7 DEF Ends
  <2>10. Good(l, c.token, r, 1) /\ r.ledger = q.ledger /\ r.error = q.error
    BY <2>5, <2>6, <2>9, Ending, Charges
  <2> QED
    BY <2>1, <2>8, <2>10
<1>12. CASE c.name = "burn"
  <2>1. DispatchWeight(c) = 2
    BY <1>4, <1>12 DEF DispatchWeight
  <2>2. c.who \in AccountId /\ c.value \in Balance
    BY <1>2, <1>12 DEF TakesWho
  <2>3. r = burn(l, o, c.token, c.who, c.value)
    BY <1>3, <1>12 DEF Dispatchable
  <2> QED
    BY <1>1, <1>12, <2>1, <2>2, <2>3, BurnCall DEF Effect
<1>13. CASE c.name = "approve"
  <2>1. DispatchWeight(c) = 3
    BY <1>4, <1>13 DEF DispatchWeight
  <2>2. c.who \in AccountId /\ c.value \in Balance
    BY <1>2, <1>13 DEF TakesWho
  <2>3. r = approve(l, o, c.token, c.who, c.value)
    BY <1>3, <1>13 DEF Dispatchable
  <2> QED
    BY <1>1, <1>13, <2>1, <2>2, <2>3, ApproveCall DEF Effect
<1>14. CASE c.name = "increase_allowance"
  <2>1. DispatchWeight(c) = 2
    BY <1>4, <1>14 DEF DispatchWeight
  <2>2. c.who \in AccountId /\ c.value \in Balance
    BY <1>2, <1>14 DEF TakesWho
  <2>3. r = increase_allowance(l, o, c.token, c.who, c.value)
    BY <1>3, <1>14 DEF Dispatchable
  <2> QED
    BY <1>1, <1>14, <2>1, <2>2, <2>3, IncreaseCall DEF Effect
<1>15. CASE c.name = "decrease_allowance"
  <2>1. DispatchWeight(c) = 3
    BY <1>4, <1>15 DEF DispatchWeight
  <2>2. c.who \in AccountId /\ c.value \in Balance
    BY <1>2, <1>15 DEF TakesWho
  <2>3. r = decrease_allowance(l, o, c.token, c.who, c.value)
    BY <1>3, <1>15 DEF Dispatchable
  <2> QED
    BY <1>1, <1>15, <2>1, <2>2, <2>3, DecreaseCall DEF Effect
<1> QED
  BY <1>5, <1>6, <1>7, <1>8, <1>9, <1>10, <1>11, <1>12, <1>13, <1>14, <1>15 DEF CallOK, CallIndex

\* What the storage layer makes of it: a call that fails has changed nothing.
Whole(l, o, c, r, w) ==
    /\ Sound(r.ledger)
    /\ r.error \in Option(Reported)
    /\ r.error # None => r.ledger = l
    /\ r.error = None => Effect(l, o, c, r.ledger) /\ OnlyToken(l, r.ledger, c.token)
    /\ r.event \in Option(Event)
    /\ Paid(r, w)

LEMMA DispatchEffect ==
    ASSUME NEW l, Sound(l), NEW o \in AccountId, NEW c, CallOK(c)
    PROVE  Whole(l, o, c, Dispatch(l, o, c), DispatchWeight(c))
<1>1. PICK r : r = Dispatchable(l, o, c)
  OBVIOUS
<1>2. Good(l, c.token, r, DispatchWeight(c)) /\ (r.error = None => Effect(l, o, c, r.ledger))
  BY <1>1, CallEffect
<1>3. CASE r.error = None
  <2>1. Dispatch(l, o, c) = r
    BY <1>1, <1>3 DEF Dispatch
  <2> QED
    BY <1>2, <1>3, <2>1 DEF Whole, Good
<1>4. CASE r.error # None
  <2>1. PICK q : q = [r EXCEPT !.ledger = l]
    OBVIOUS
  <2>2. Dispatch(l, o, c) = q
    BY <1>1, <1>4, <2>1 DEF Dispatch
  <2>3. /\ q.ledger = l /\ q.error = r.error /\ q.event = r.event /\ q.weight = r.weight
        /\ q.work = r.work
    BY <1>2, <2>1 DEF Good
  <2>4. Paid(q, DispatchWeight(c))
    BY <1>2, <2>3 DEF Good, Paid, ActualWeight
  <2> QED
    BY <1>2, <1>4, <2>2, <2>3, <2>4 DEF Whole, Good
<1> QED
  BY <1>3, <1>4

\* The same for a call through the extension, which may be filtered.
LEMMA ExtensionEffect ==
    ASSUME NEW l, Sound(l), NEW o \in AccountId, NEW c \in CallType, Typed(c.name, c)
    PROVE  LET r == DispatchCall(l, o, c) IN
           /\ Whole(l, o, c, r, PreDispatchWeight(c)) /\ PreDispatchWeight(c) \in Nat
           /\ r.error = None => c.name \in DOMAIN CallIndex /\ c.pallet = "Fungibles"
<1>1. PreDispatchWeight(c) \in Nat
  BY DEF PreDispatchWeight, DispatchWeight, approve_weight, balance_of_weight, assets_weight
<1>2. CASE ~ CallAllowed(c)
  <2>1. PICK r : r = Result(Err(l, CallFiltered), None, None, 0)
    OBVIOUS
  <2>2. DispatchCall(l, o, c) = r
    BY <1>2, <2>1 DEF DispatchCall
  <2>3. /\ r.ledger = l /\ r.error = CallFiltered /\ r.event = None /\ r.weight = None
        /\ r.work = 0
    BY <2>1 DEF Result, Err
  <2>4. CallFiltered \in Reported /\ CallFiltered # None
    BY KnownErrors, ReportedNotNone
  <2>5. Paid(r, PreDispatchWeight(c))
    BY <1>1, <2>3 DEF Paid, ActualWeight
  <2> QED
    BY <1>1, <2>2, <2>3, <2>4, <2>5 DEF Whole, Option
<1>3. CASE CallAllowed(c)
  <2>1. c.pallet = "Fungibles" /\ c.name \in DOMAIN CallIndex
    BY <1>3 DEF CallAllowed, DevnetCalls, TestnetCalls, CallIndex
  <2>2. DispatchCall(l, o, c) = Dispatch(l, o, c)
    BY <1>3, <2>1 DEF DispatchCall
  <2>3. PreDispatchWeight(c) = DispatchWeight(c)
    BY <2>1 DEF PreDispatchWeight
  <2>4. c.token \in TokenId /\ c.value \in Nat
    BY DEF CallType
  <2>5. CallOK(c)
    BY <2>1, <2>4 DEF CallOK
  <2> QED
    BY <1>1, <2>1, <2>2, <2>3, <2>5, DispatchEffect
<1> QED
  BY <1>2, <1>3
-----------------------------------------------------------------------------
(* Requests and status codes *)

\* A request that is decoded names a call or read whose arguments have their types.
LEMMA DecodedCall ==
    ASSUME NEW request, WellFormed(request), Decoded(request.id, request.input) # None
    PROVE  LET c == Decoded(request.id, request.input) IN
           /\ c \in CallType /\ Typed(c.name, c)
           /\ <<c.pallet, c.name>> \in Denoted(TableOf(request.id), request.id)
           /\ c.token = request.input.token /\ c.who = request.input.who
           /\ c.other = request.input.other /\ c.value = request.input.value
<1> DEFINE denoted == Denoted(TableOf(request.id), request.id)
           target  == CHOOSE p \in denoted : TRUE
<1>1. denoted # {} /\ request.input # None
  BY DEF Decoded
<1>2. target \in denoted
  BY <1>1
<1>3. request.input \in InputType
  BY <1>1 DEF WellFormed, Option
<1>4. PICK pallet \in DOMAIN TableOf(request.id) :
         \E name \in DOMAIN TableOf(request.id)[pallet] : target = <<pallet, name>>
  <2> DEFINE table == TableOf(request.id)
  <2> HIDE DEF target, table
  <2>1. target \in UNION {{pallet} \X DOMAIN table[pallet] : pallet \in DOMAIN table}
    BY <1>2 DEF Denoted, table
  <2>2. PICK pallet \in DOMAIN table : target \in {pallet} \X DOMAIN table[pallet]
    BY <2>1
  <2>3. PICK name \in DOMAIN table[pallet] : target = <<pallet, name>>
    BY <2>2
  <2> QED
    BY <2>2, <2>3 DEF table
<1>. PICK name \in DOMAIN TableOf(request.id)[pallet] : target = <<pallet, name>>
  BY <1>4
<1>5. /\ pallet \in {"Fungibles", "Balances"}
      /\ name \in DOMAIN CallIndex \cup DOMAIN ReadIndex \cup {"transfer_keep_alive", "force_transfer"}
  <2>1. CASE TableOf(request.id) = CallTable
    BY <1>4, <2>1 DEF CallTable
  <2>2. CASE TableOf(request.id) = ReadTable
    BY <1>4, <2>2 DEF ReadTable
  <2> QED
    BY <2>1, <2>2 DEF TableOf
<1>6. Typed(name, request.input)
  BY <1>1, <1>2, <1>4 DEF WellFormed
<1>7. PICK c : c = [pallet |-> pallet, name |-> name, token |-> request.input.token,
                    who |-> request.input.who, other |-> request.input.other,
                    value |-> request.input.value]
  OBVIOUS
<1>8. Decoded(request.id, request.input) = c
  <2>1. Decoded(request.id, request.input)
           = [pallet |-> target[1], name |-> target[2], token |-> request.input.token,
              who |-> request.input.who, other |-> request.input.other,
              value |-> request.input.value]
    BY <1>1 DEF Decoded
  <2> HIDE DEF target
  <2>2. target[1] = pallet /\ target[2] = name
    OBVIOUS
  <2> QED
    BY <1>7, <2>1, <2>2
<1>9. c \in CallType
  BY <1>3, <1>5, <1>7 DEF CallType, InputType
<1>10. Typed(c.name, c)
  BY <1>6, <1>7 DEF Typed
<1>11. <<c.pallet, c.name>> \in denoted
  BY <1>2, <1>4, <1>7
<1> QED
  BY <1>7, <1>8, <1>9, <1>10, <1>11

LEMMA MergedAt ==
    ASSUME NEW tables, NEW f \in tables, NEW p \in DOMAIN f,
           \A g \in tables : p \in DOMAIN g => g = f
    PROVE  Merged(tables)[p] = f[p]
<1>1. p \in UNION {DOMAIN g : g \in tables}
  OBVIOUS
<1>2. (CHOOSE g \in tables : p \in DOMAIN g) = f
  OBVIOUS
<1> QED
  BY <1>1, <1>2 DEF Merged

\* The pallet index that pop-api uses is the one of the runtimes.
LEMMA PalletIndices ==
    /\ Pallets[Chain]["Fungibles"] = 150 /\ Pallets[Chain]["Balances"] = 10
<1>1. /\ "Fungibles" \in DOMAIN MorePallets /\ "Fungibles" \notin DOMAIN CommonPallets
      /\ "Fungibles" \notin DOMAIN IsmpPallets /\ MorePallets["Fungibles"] = 150
  BY DEF MorePallets, CommonPallets, IsmpPallets
<1>2. /\ "Balances" \in DOMAIN CommonPallets /\ "Balances" \notin DOMAIN MorePallets
      /\ "Balances" \notin DOMAIN IsmpPallets /\ CommonPallets["Balances"] = 10
  BY DEF MorePallets, CommonPallets, IsmpPallets
<1>3. CASE Chain = "devnet"
  <2>1. PICK tables : tables = {CommonPallets, MorePallets, IsmpPallets}
    BY Zenon
  <2>2. Pallets[Chain] = Merged(tables)
    BY <1>3, <2>1 DEF Pallets, DevnetPallets
  <2>3. Merged(tables)["Fungibles"] = MorePallets["Fungibles"]
    BY <1>1, <2>1, MergedAt
  <2>4. Merged(tables)["Balances"] = CommonPallets["Balances"]
    BY <1>2, <2>1, MergedAt
  <2> QED
    BY <1>1, <1>2, <2>2, <2>3, <2>4
<1>4. CASE Chain = "testnet"
  <2>1. PICK tables : tables = {CommonPallets, MorePallets}
    BY Zenon
  <2>2. Pallets[Chain] = Merged(tables)
    BY <1>4, <2>1 DEF Pallets, TestnetPallets
  <2>3. Merged(tables)["Fungibles"] = MorePallets["Fungibles"]
    BY <1>1, <2>1, MergedAt
  <2>4. Merged(tables)["Balances"] = CommonPallets["Balances"]
    BY <1>2, <2>1, MergedAt
  <2> QED
    BY <1>1, <1>2, <2>2, <2>3, <2>4
<1> QED
  BY <1>3, <1>4, ChainAssumption

\* A request of pop-api denotes the function it was made for: the indices in pop-api are
\* those of the pallet, and no two functions share one.
LEMMA ApiDenotes ==
    ASSUME NEW name \in DOMAIN ApiStateQuery \cup DOMAIN ApiDispatchable,
           NEW token, NEW who, NEW other, NEW value
    PROVE  LET request == ApiRequest(name, token, who, other, value) IN
           /\ Denoted(TableOf(request.id), request.id) = {<<"Fungibles", name>>}
           /\ MatchedFunction(request.id) = IF IsRead(name) THEN "read" ELSE "dispatch"
           /\ request.id \in Code /\ version(request.id) = 0 /\ request.room = TRUE
           /\ request.input = Input(token, who, other, value)
<1>1. PICK request : request = ApiRequest(name, token, who, other, value)
  OBVIOUS
<1>2. PICK id : id = request.id
  OBVIOUS
<1>3. /\ id = IF IsRead(name) THEN <<1, 0, 150, ApiStateQuery[name]>>
              ELSE <<0, 0, 150, ApiDispatchable[name]>>
      /\ request.room = TRUE /\ request.input = Input(token, who, other, value)
  BY <1>1, <1>2 DEF ApiRequest, Request, build_read_state, build_dispatch,
     build_extension_method, DISPATCH, READ_STATE, V0, FUNGIBLES
<1>4. CASE IsRead(name)
  <2>1. id = <<1, 0, 150, ApiStateQuery[name]>> /\ ApiStateQuery[name] \in 0..18
    BY <1>3, <1>4 DEF IsRead, ApiStateQuery
  <2>2. id[1] = 1 /\ id[2] = 0 /\ id[3] = 150 /\ id[4] = ApiStateQuery[name] /\ id \in Code
    BY <2>1 DEF Code, Byte
  <2>3. MatchedFunction(id) = "read" /\ TableOf(id) = ReadTable /\ version(id) = 0
    BY <2>2 DEF MatchedFunction, func_id, TableOf, version
  <2>4. \A n \in DOMAIN ReadIndex : ReadIndex[n] = ApiStateQuery[name] <=> n = name
    BY <1>4 DEF IsRead, ApiStateQuery, ReadIndex
  <2>5. name \in DOMAIN ReadIndex
    BY <1>4 DEF IsRead, ApiStateQuery, ReadIndex
  <2>6. Denoted(ReadTable, id) = {<<"Fungibles", name>>}
    <3>1. UNION {{pallet} \X DOMAIN ReadTable[pallet] : pallet \in DOMAIN ReadTable}
             = {"Fungibles"} \X DOMAIN ReadIndex
      BY DEF ReadTable
    <3>2. ASSUME NEW n \in DOMAIN ReadIndex
          PROVE  module_and_index(id)
                    = <<Pallets[Chain][<<"Fungibles", n>>[1]],
                        ReadTable[<<"Fungibles", n>>[1]][<<"Fungibles", n>>[2]]>> <=> n = name
      <4>1. ReadTable["Fungibles"][n] = ReadIndex[n]
        BY DEF ReadTable
      <4> QED
        BY <2>2, <2>4, <4>1, PalletIndices DEF module_and_index
    <3> QED
      BY <2>3, <2>5, <3>1, <3>2 DEF Denoted
  <2> QED
    BY <1>1, <1>2, <1>3, <1>4, <2>2, <2>3, <2>6
<1>5. CASE ~ IsRead(name)
  <2>1. id = <<0, 0, 150, ApiDispatchable[name]>> /\ ApiDispatchable[name] \in 0..20
    BY <1>3, <1>5 DEF IsRead, ApiDispatchable
  <2>2. id[1] = 0 /\ id[2] = 0 /\ id[3] = 150 /\ id[4] = ApiDispatchable[name] /\ id \in Code
    BY <2>1 DEF Code, Byte
  <2>3. MatchedFunction(id) = "dispatch" /\ TableOf(id) = CallTable /\ version(id) = 0
    BY <2>2 DEF MatchedFunction, func_id, TableOf, version
  <2>4. \A n \in DOMAIN CallIndex : CallIndex[n] = ApiDispatchable[name] <=> n = name
    BY <1>5 DEF IsRead, ApiDispatchable, CallIndex
  <2>5. name \in DOMAIN CallIndex
    BY <1>5 DEF IsRead, ApiDispatchable, CallIndex
  <2>6. Denoted(CallTable, id) = {<<"Fungibles", name>>}
    <3> DEFINE balances == [transfer_keep_alive |-> 3, force_transfer |-> 2]
    <3>1. UNION {{pallet} \X DOMAIN CallTable[pallet] : pallet \in DOMAIN CallTable}
             = ({"Fungibles"} \X DOMAIN CallIndex) \cup ({"Balances"} \X DOMAIN balances)
      <4>1. /\ DOMAIN CallTable = {"Fungibles", "Balances"}
            /\ CallTable["Fungibles"] = CallIndex /\ CallTable["Balances"] = balances
        BY DEF CallTable
      <4> HIDE DEF balances
      <4> QED
        BY <4>1
    <3>2. ASSUME NEW n \in DOMAIN CallIndex
          PROVE  module_and_index(id)
                    = <<Pallets[Chain][<<"Fungibles", n>>[1]],
                        CallTable[<<"Fungibles", n>>[1]][<<"Fungibles", n>>[2]]>> <=> n = name
      <4>1. CallTable["Fungibles"][n] = CallIndex[n]
        BY DEF CallTable
      <4> QED
        BY <2>2, <2>4, <4>1, PalletIndices DEF module_and_index
    <3>3. ASSUME NEW n
          PROVE  module_and_index(id)
                    # <<Pallets[Chain][<<"Balances", n>>[1]],
                        CallTable[<<"Balances", n>>[1]][<<"Balances", n>>[2]]>>
      BY <2>2, PalletIndices DEF module_and_index
    <3> HIDE DEF balances
    <3> QED
      BY <2>3, <2>5, <3>1, <3>2, <3>3 DEF Denoted
  <2> QED
    BY <1>1, <1>2, <1>3, <1>5, <2>2, <2>3, <2>6
<1> QED
  BY <1>4, <1>5

\* So it is well formed, and decodes to the call with the arguments it was made from.
LEMMA ApiDecodes ==
    ASSUME NEW name \in DOMAIN ApiStateQuery \cup DOMAIN ApiDispatchable,
           NEW token \in TokenId, NEW who \in Option(AccountId), NEW other \in Option(AccountId),
           NEW value \in Nat, Typed(name, Input(token, who, other, value))
    PROVE  LET request == ApiRequest(name, token, who, other, value) IN
           /\ WellFormed(request)
           /\ Decoded(request.id, request.input)
                 = [pallet |-> "Fungibles", name |-> name, token |-> token, who |-> who,
                    other |-> other, value |-> value]
<1>1. PICK request : request = ApiRequest(name, token, who, other, value)
  OBVIOUS
<1>2. PICK denoted : denoted = Denoted(TableOf(request.id), request.id)
  OBVIOUS
<1>3. PICK input : input = Input(token, who, other, value)
  OBVIOUS
<1>4. /\ denoted = {<<"Fungibles", name>>}
      /\ request.id \in Code /\ request.room = TRUE /\ request.input = input
  BY <1>1, <1>2, <1>3, ApiDenotes
<1>5. input \in InputType /\ input # None /\ input.token = token /\ input.who = who
      /\ input.other = other /\ input.value = value
  BY <1>3, NoneAssumption DEF Input, InputType
<1>6. request = [id |-> request.id, input |-> request.input, room |-> request.room]
  BY <1>1 DEF ApiRequest, Request
<1>7. WellFormed(request)
  <2>1. request \in [id : Code, input : Option(InputType), room : BOOLEAN]
    BY <1>4, <1>5, <1>6 DEF Option
  <2>2. ASSUME NEW p \in denoted PROVE Typed(p[2], request.input)
    BY <1>3, <1>4
  <2> QED
    BY <1>2, <2>1, <2>2 DEF WellFormed
<1>8. PICK target : target = CHOOSE p \in denoted : TRUE
  OBVIOUS
<1>9. target = <<"Fungibles", name>> /\ denoted # {}
  BY <1>4, <1>8
<1>10. Decoded(request.id, input)
          = [pallet |-> "Fungibles", name |-> name, token |-> token, who |-> who, other |-> other,
             value |-> value]
  <2>1. Decoded(request.id, input)
           = [pallet |-> target[1], name |-> target[2], token |-> input.token,
              who |-> input.who, other |-> input.other, value |-> input.value]
    BY <1>2, <1>5, <1>8, <1>9 DEF Decoded
  <2>2. target[1] = "Fungibles" /\ target[2] = name
    BY <1>9
  <2> QED
    BY <1>5, <2>1, <2>2
<1> QED
  BY <1>1, <1>4, <1>7, <1>10

\* Every code begins with the discriminant of its variant.
LEMMA Discriminants ==
    /\ \A v, w \in DOMAIN Discriminant : Discriminant[v] = Discriminant[w] => v = w
    /\ \A v \in DOMAIN Discriminant : Discriminant[v] \in Byte /\ (Discriminant[v] = 0 => v = "Other")
BY DEF Discriminant, Byte

LEMMA Variant ==
    ASSUME NEW v \in DOMAIN Discriminant, NEW status, status[1] = Discriminant[v]
    PROVE  /\ v \in {"Module", "Unknown"} =>
                 FromStatus(status) = Error(v, <<status[2], status[3], status[4]>>)
           /\ v \in DOMAIN NestedNames =>
                 FromStatus(status) =
                    IF status[2] < Len(NestedNames[v]) THEN Error(v, <<status[2]>>)
                                                       ELSE Error("DecodingFailed", <<>>)
           /\ v \notin DOMAIN NestedNames /\ v \notin {"Module", "Unknown"} =>
                 FromStatus(status) = Error(v, <<>>)
<1> DEFINE variants == {w \in DOMAIN Discriminant : Discriminant[w] = status[1]}
<1>1. variants = {v}
  BY Discriminants
<1>2. variants # {} /\ (CHOOSE w \in variants : TRUE) = v
  BY <1>1
<1>3. FromStatus(status) =
         CASE variants = {} -> Error("DecodingFailed", <<>>)
           [] variants # {} /\ v \in {"Module", "Unknown"} ->
                 Error(v, <<status[2], status[3], status[4]>>)
           [] variants # {} /\ v \in DOMAIN NestedNames ->
                 IF status[2] < Len(NestedNames[v]) THEN Error(v, <<status[2]>>)
                                                    ELSE Error("DecodingFailed", <<>>)
           [] OTHER -> Error(v, <<>>)
  BY <1>2, Zenon DEF FromStatus
<1>4. v \in DOMAIN NestedNames => v \notin {"Module", "Unknown"}
  BY DEF NestedNames
<1> HIDE DEF variants
<1> QED
  BY <1>2, <1>3, <1>4, Zenon

\* The bytes of a code.
LEMMA EncodedPlain ==
    ASSUME NEW v \in DOMAIN Discriminant
    PROVE  LET s == IntoStatus(Error(v, <<>>)) IN s \in Code /\ s[1] = Discriminant[v]
<1>1. PICK d \in Byte : d = Discriminant[v]
  BY Discriminants
<1>2. 0 \in Byte
  BY DEF Byte
<1>3. IntoStatus(Error(v, <<>>)) = [i \in 1..4 |-> IF i <= Len(<<d>> \o <<>>)
                                                   THEN (<<d>> \o <<>>)[i] ELSE 0]
  BY <1>1 DEF IntoStatus, Error
<1>4. <<d>> \o <<>> = <<d>> /\ Len(<<d>>) = 1 /\ <<d>>[1] = d
  OBVIOUS
<1> QED
  BY <1>1, <1>2, <1>3, <1>4 DEF Code

LEMMA EncodedNested ==
    ASSUME NEW v \in DOMAIN Discriminant, NEW a \in Byte
    PROVE  LET s == IntoStatus(Error(v, <<a>>)) IN
           s \in Code /\ s[1] = Discriminant[v] /\ s[2] = a
<1>1. PICK d \in Byte : d = Discriminant[v]
  BY Discriminants
<1>2. 0 \in Byte
  BY DEF Byte
<1>3. IntoStatus(Error(v, <<a>>)) = [i \in 1..4 |-> IF i <= Len(<<d>> \o <<a>>)
                                                    THEN (<<d>> \o <<a>>)[i] ELSE 0]
  BY <1>1 DEF IntoStatus, Error
<1>4. PICK q : q = <<d>> \o <<a>>
  OBVIOUS
<1>5. Len(q) = 2 /\ q[1] = d /\ q[2] = a
  BY <1>4
<1>6. ASSUME NEW i \in 1..4 PROVE i <= 2 => q[i] \in Byte
  BY <1>5
<1> QED
  BY <1>1, <1>2, <1>3, <1>4, <1>5, <1>6 DEF Code

LEMMA EncodedModule ==
    ASSUME NEW v \in DOMAIN Discriminant, NEW a \in Byte, NEW b \in Byte, NEW c \in Byte
    PROVE  LET s == IntoStatus(Error(v, <<a, b, c>>)) IN
           s \in Code /\ s[1] = Discriminant[v] /\ s[2] = a /\ s[3] = b /\ s[4] = c
<1>1. PICK d \in Byte : d = Discriminant[v]
  BY Discriminants
<1>2. 0 \in Byte
  BY DEF Byte
<1>3. IntoStatus(Error(v, <<a, b, c>>)) = [i \in 1..4 |-> IF i <= Len(<<d>> \o <<a, b, c>>)
                                                          THEN (<<d>> \o <<a, b, c>>)[i] ELSE 0]
  BY <1>1 DEF IntoStatus, Error
<1>4. PICK q : q = <<d>> \o <<a, b, c>>
  OBVIOUS
<1>5. Len(q) = 4 /\ q[1] = d /\ q[2] = a /\ q[3] = b /\ q[4] = c
  BY <1>4
<1>6. ASSUME NEW i \in 1..4 PROVE q[i] \in Byte
  BY <1>5
<1> QED
  BY <1>1, <1>2, <1>3, <1>4, <1>5, <1>6 DEF Code

\* The status of an error decodes to that error, and is not the one of success.
LEMMA StatusDecodes ==
    ASSUME NEW e \in Reported
    PROVE  LET status == IntoStatus(V0Error(e)) IN
           /\ status \in Code /\ status # Success
           /\ FromStatus(status) = V0Error(e)
<1>1. /\ e.kind \in {"CannotLookup", "BadOrigin", "Module", "ConsumerRemaining", "NoProviders",
                     "TooManyConsumers", "Token", "Arithmetic", "Transactional", "Exhausted",
                     "Corruption", "Unavailable", "RootNotAllowed"}
      /\ e.index \in Byte /\ e.error \in [1..4 -> Byte]
      /\ e.kind \in DOMAIN NestedNames => e.sub \in NamesIn(NestedNames[e.kind])
  BY DEF Reported, DispatchErrors
<1>2. DOMAIN NestedNames = {"Token", "Arithmetic", "Transactional"}
  BY DEF NestedNames
<1>3. /\ e.kind \in DOMAIN Discriminant /\ "DecodingFailed" \in DOMAIN Discriminant
      /\ Discriminant[e.kind] # 0 /\ Discriminant["DecodingFailed"] # 0
  BY <1>1 DEF Discriminant
<1>4. ASSUME NEW s, s[1] # 0 PROVE s # Success
  BY <1>4 DEF Success
<1>5. CASE e = ContractsDecodingFailed
  <2>1. e.kind = "Module"
    BY <1>5 DEF ContractsDecodingFailed, ModuleError
  <2>2. V0Error(e) = Error("DecodingFailed", <<>>)
    BY <1>2, <1>5, <2>1 DEF V0Error
  <2>3. PICK s : s = IntoStatus(Error("DecodingFailed", <<>>))
    OBVIOUS
  <2>4. s \in Code /\ s[1] = Discriminant["DecodingFailed"]
    BY <1>3, <2>3, EncodedPlain
  <2>5. FromStatus(s) = Error("DecodingFailed", <<>>)
    BY <1>2, <1>3, <2>4, Variant
  <2> QED
    BY <1>3, <1>4, <2>2, <2>3, <2>4, <2>5
<1>6. CASE e.kind = "Module" /\ e # ContractsDecodingFailed
  <2>1. V0Error(e) = Error("Module", <<e.index, e.error[1], e.error[2]>>)
    BY <1>2, <1>6 DEF V0Error
  <2>2. PICK a \in Byte, b \in Byte, c \in Byte : a = e.index /\ b = e.error[1] /\ c = e.error[2]
    BY <1>1
  <2>3. PICK s : s = IntoStatus(Error("Module", <<a, b, c>>))
    OBVIOUS
  <2>4. s \in Code /\ s[1] = Discriminant["Module"] /\ s[2] = a /\ s[3] = b /\ s[4] = c
    BY <1>3, <1>6, <2>3, EncodedModule
  <2>5. FromStatus(s) = Error("Module", <<a, b, c>>)
    BY <1>3, <1>6, <2>4, Variant
  <2> QED
    BY <1>3, <1>4, <1>6, <2>1, <2>2, <2>3, <2>4, <2>5
<1>7. CASE e.kind \in DOMAIN NestedNames
  <2>1. V0Error(e) = Error(e.kind, <<VariantOf(NestedNames[e.kind], e.sub)>>)
    BY <1>2, <1>7 DEF V0Error
  <2>2. PICK names : names = NestedNames[e.kind]
    OBVIOUS
  <2>3. \E i \in DOMAIN names : names[i] = e.sub
    BY <1>1, <1>7, <2>2 DEF NamesIn
  <2>4. DOMAIN names = 1..Len(names) /\ Len(names) \in 1..10
    BY <1>2, <1>7, <2>2 DEF NestedNames, TokenErrors, ArithmeticErrors, TransactionalErrors
  <2>5. PICK a \in Byte : a = VariantOf(names, e.sub) /\ a < Len(names)
    <3>1. (CHOOSE i \in DOMAIN names : names[i] = e.sub) \in DOMAIN names
      BY <2>3
    <3>2. PICK i \in DOMAIN names : i = CHOOSE j \in DOMAIN names : names[j] = e.sub
      BY <3>1
    <3>3. VariantOf(names, e.sub) = i - 1
      BY <3>2 DEF VariantOf
    <3>4. i - 1 \in Byte /\ i - 1 < Len(names)
      <4>1. PICK n \in 1..10 : n = Len(names) /\ i \in 1..n
        BY <2>4
      <4>2. \A x \in 1..n : x - 1 \in 0..255 /\ x - 1 < n
        OBVIOUS
      <4> QED
        BY <4>1, <4>2 DEF Byte
    <3> QED
      BY <3>3, <3>4
  <2>6. PICK s : s = IntoStatus(Error(e.kind, <<a>>))
    OBVIOUS
  <2>7. s \in Code /\ s[1] = Discriminant[e.kind] /\ s[2] = a
    BY <1>3, <2>6, EncodedNested
  <2>8. FromStatus(s) = Error(e.kind, <<a>>)
    BY <1>2, <1>3, <1>7, <2>2, <2>5, <2>7, Variant
  <2> QED
    BY <1>3, <1>4, <2>1, <2>2, <2>5, <2>6, <2>7, <2>8
<1>8. CASE e.kind # "Module" /\ e.kind \notin DOMAIN NestedNames
  <2>1. V0Error(e) = Error(e.kind, <<>>)
    BY <1>8 DEF V0Error
  <2>2. PICK s : s = IntoStatus(Error(e.kind, <<>>))
    OBVIOUS
  <2>3. s \in Code /\ s[1] = Discriminant[e.kind]
    BY <1>3, <2>2, EncodedPlain
  <2>4. FromStatus(s) = Error(e.kind, <<>>)
    BY <1>1, <1>3, <1>8, <2>3, Variant
  <2> QED
    BY <1>3, <1>4, <2>1, <2>2, <2>3, <2>4
<1> QED
  BY <1>5, <1>6, <1>7, <1>8
-----------------------------------------------------------------------------
(* The path of a contract call: what the steps of the extension leave alone *)

\* The same contract call after a step of the extension, which has used gas.
SameCall(f, g) ==
    /\ g \in FrameType
    /\ g.contract = f.contract /\ g.caller = f.caller /\ g.message = f.message
    /\ g.saved = f.saved /\ g.stage = f.stage /\ g.events = f.events /\ g.result = f.result
    /\ g.work <= g.spent

\* The same request, at another point.
SameRequest(e, h) == h \in EnvType /\ h.id = e.id /\ h.input = e.input /\ h.room = e.room

\* What is known while the extension is at work.
LEMMA AtWork ==
    ASSUME Inv, env # None
    PROVE  /\ frame # None /\ frame \in FrameType /\ env \in EnvType /\ ledger \in Ledger
           /\ frame.stage \in {"api", "allowance"} /\ frame.contract \in AccountId
           /\ WellFormed(Asked) /\ Sound(ledger) /\ Sound(frame.saved)
           /\ frame.work <= frame.spent /\ owner \in Option(AccountId)
<1>1. frame # None /\ WellFormed(Asked)
  BY DEF Inv, EnvInv
<1>2. frame \in FrameType /\ env \in EnvType
  BY <1>1 DEF Inv, Option
<1>3. Sound(frame.saved) /\ frame.work <= frame.spent /\ frame.stage # "done"
  BY <1>1 DEF Inv, FrameInv
<1>4. Sound(ledger) /\ ledger \in Ledger /\ owner \in Option(AccountId)
  BY DEF Inv, Sound
<1>5. frame.contract \in AccountId /\ frame.stage \in {"api", "allowance", "done"}
  BY <1>2, ContractAssumption DEF FrameType
<1> QED
  BY <1>1, <1>2, <1>3, <1>4, <1>5

\* What the extension leaves alone keeps the invariant of the frame.
LEMMA CallKept ==
    ASSUME Inv, env # None, SameCall(frame, frame'), SameRequest(env, env'), UNCHANGED owner
    PROVE  /\ frame' # None /\ env' # None /\ frame' \in Option(FrameType)
           /\ env' \in Option(EnvType) /\ (owner \in Option(AccountId))'
           /\ FrameInv' /\ WellFormed(Asked)' /\ Sound(frame'.saved)
<1>1. frame' # None /\ env' # None /\ frame' \in Option(FrameType) /\ env' \in Option(EnvType)
  BY NoneAssumption DEF SameCall, SameRequest, Option
<1>2. Asked' = Asked
  BY DEF Asked, SameRequest
<1>3. FrameInv'
  <2>1. /\ frame # None /\ Sound(frame.saved) /\ frame.stage # "done"
        /\ WellFormed(Asked)
    BY AtWork
  <2>2. FrameInv
    BY DEF Inv
  <2>3. /\ frame'.contract = frame.contract /\ frame'.caller = frame.caller
        /\ frame'.message = frame.message /\ frame'.saved = frame.saved
        /\ frame'.stage = frame.stage /\ frame'.events = frame.events
        /\ frame'.work <= frame'.spent
    BY DEF SameCall
  <2>4. frame.contract = Contract =>
           frame.message \in MessageType /\ Typed(frame.message.name, frame.message)
    BY <2>1, <2>2 DEF FrameInv
  <2>5. /\ frame.stage = "allowance" => frame.contract = Contract /\ ReadsAllowance(frame.message)
        /\ frame.stage = "api" => frame.events = <<>>
    BY <2>1, <2>2 DEF FrameInv
  <2>6. frame.contract = Contract =>
              /\ frame.message.name # "transfer_ownership" /\ ~ NoOp(frame.message)
              /\ Asked = IF frame.stage = "api" THEN RequestOf(frame.message)
                         ELSE ApiRequest("allowance", Token, AllowanceOf(frame.message)[1],
                                         AllowanceOf(frame.message)[2], 0)
              /\ EnsureOwner(frame.message, frame.caller)
    BY <2>1, <2>2 DEF FrameInv
  <2>7. EnsureOwner(frame.message, frame.caller) =>
           EnsureOwner(frame.message, frame.caller)'
    BY <2>3 DEF EnsureOwner
  <2> QED
    BY <1>1, <1>2, <2>1, <2>3, <2>4, <2>5, <2>6, <2>7 DEF FrameInv
<1>4. WellFormed(Asked)' /\ Sound(frame'.saved)
  BY <1>2, AtWork DEF SameCall
<1>5. (owner \in Option(AccountId))'
  BY AtWork
<1> QED
  BY <1>1, <1>3, <1>4, <1>5

\* A step that does not dispatch, and leads on or to a trap.
LEMMA Moves ==
    ASSUME Inv, env # None, SameCall(frame, frame'), SameRequest(env, env'),
           UNCHANGED <<ledger, owner>>, env.phase # "trapped",
           \/ env'.phase = "trapped"
           \/ /\ EnvInv'
              /\ env.phase \in {"convert", "returned"} /\ MatchedFunction(env.id) = "dispatch" <=>
                 env'.phase \in {"convert", "returned"} /\ MatchedFunction(env.id) = "dispatch"
              /\ env'.call = env.call \/ env.phase \notin {"convert", "returned"}
              /\ env'.error = env.error
    PROVE  Inv'
<1>1. /\ frame' # None /\ env' # None /\ frame' \in Option(FrameType)
      /\ env' \in Option(EnvType) /\ (owner \in Option(AccountId))'
      /\ FrameInv' /\ WellFormed(Asked)'
  BY CallKept
<1>2. Sound(ledger')
  BY AtWork
<1>3. EnvInv'
  <2>1. CASE env'.phase = "trapped"
    BY <1>1, <2>1 DEF EnvInv
  <2> QED
    BY <2>1
<1>4. EffectInv'
  <2>1. /\ frame # None /\ frame.stage \in {"api", "allowance"}
    BY AtWork
  <2>2. /\ frame'.contract = frame.contract /\ frame'.message = frame.message
        /\ frame'.saved = frame.saved /\ frame'.stage = frame.stage
        /\ frame'.events = frame.events
    BY DEF SameCall
  <2>3. ASSUME NEW c PROVE Outcome(c)' = Outcome(c)
    BY <2>2 DEF Outcome
  <2>4. frame.stage = "allowance" =>
              /\ Outcome(MessageCall(frame.message)).error = None
              /\ ledger = Outcome(MessageCall(frame.message)).ledger
              /\ frame.events = EventsOf(frame.message)
    BY <2>1 DEF Inv, EffectInv
  <2>5. (frame.stage = "allowance" =>
              /\ Outcome(MessageCall(frame.message)).error = None
              /\ ledger = Outcome(MessageCall(frame.message)).ledger
              /\ frame.events = EventsOf(frame.message))'
    BY <2>2, <2>4 DEF Outcome
  <2>6. frame.stage = "api" =>
              IF env.phase \in {"convert", "returned"} /\ MatchedFunction(env.id) = "dispatch"
              THEN ledger = Outcome(env.call).ledger /\ env.error = Outcome(env.call).error
              ELSE ledger = frame.saved
    BY <2>1 DEF Inv, EffectInv
  <2>7. (frame.stage = "api" /\ env.phase # "trapped" =>
              IF env.phase \in {"convert", "returned"} /\ MatchedFunction(env.id) = "dispatch"
              THEN ledger = Outcome(env.call).ledger /\ env.error = Outcome(env.call).error
              ELSE ledger = frame.saved)'
    <3>1. env'.id = env.id
      BY DEF SameRequest
    <3> QED
      BY <2>2, <2>6, <3>1 DEF Outcome
  <2> QED
    BY <1>1, <2>1, <2>2, <2>5, <2>7 DEF EffectInv
<1> QED
  BY <1>1, <1>2, <1>3, <1>4 DEF Inv

LEMMA TrapsTyped ==
    ASSUME NEW e \in EnvType, NEW error \in Reported
    PROVE  /\ SameRequest(e, Trapped(e, error)) /\ Trapped(e, error).phase = "trapped"
BY DEF SameRequest, Trapped, EnvType, Option, Reported

\* A charge leads on, or the gas is not enough and the contract traps; work that is no more
\* than the charge stays paid for.
LEMMA Charging ==
    ASSUME Inv, env # None, NEW weight \in Nat, NEW work \in Nat, work <= weight, NEW next,
           ChargeWeight(weight, work, next), SameRequest(env, next)
    PROVE  /\ SameCall(frame, frame') /\ SameRequest(env, env')
           /\ \/ env'.phase = "trapped"
              \/ /\ env' = next
                 /\ frame'.spent = frame.spent + weight /\ frame'.work = frame.work + work
<1>1. frame \in FrameType /\ env \in EnvType /\ frame.work <= frame.spent
  BY AtWork
<1>2. frame.gas \in Nat /\ frame.spent \in Nat /\ frame.work \in Nat
  BY <1>1 DEF FrameType
<1>3. CASE frame.gas < weight
  <2>1. env' = Trapped(env, OutOfGas) /\ frame' = frame
    BY <1>3 DEF ChargeWeight
  <2>2. SameRequest(env, env') /\ env'.phase = "trapped"
    BY <1>1, <2>1, TrapsTyped, KnownErrors
  <2> QED
    BY <1>1, <2>1, <2>2 DEF SameCall
<1>4. CASE ~ (frame.gas < weight)
  <2>1. /\ frame' = [frame EXCEPT !.gas = @ - weight, !.spent = @ + weight, !.work = @ + work]
        /\ env' = next
    BY <1>4 DEF ChargeWeight
  <2>2. frame.gas - weight \in Nat /\ frame.spent + weight \in Nat /\ frame.work + work \in Nat
        /\ frame.work + work <= frame.spent + weight
    BY <1>1, <1>2, <1>4
  <2>3. frame' \in FrameType
    BY <1>1, <2>1, <2>2 DEF FrameType
  <2>4. /\ frame'.contract = frame.contract /\ frame'.caller = frame.caller
        /\ frame'.message = frame.message /\ frame'.saved = frame.saved
        /\ frame'.stage = frame.stage /\ frame'.events = frame.events
        /\ frame'.result = frame.result
        /\ frame'.spent = frame.spent + weight /\ frame'.work = frame.work + work
    BY <1>1, <2>1 DEF FrameType
  <2>5. SameCall(frame, frame')
    BY <2>2, <2>3, <2>4 DEF SameCall
  <2> QED
    BY <2>1, <2>4, <2>5
<1> QED
  BY <1>3, <1>4

\* The request in another phase.
LEMMA PhaseChanged ==
    ASSUME NEW e \in EnvType, NEW p \in {"decode", "charge", "dispatch", "convert", "read",
                                        "write", "returned"},
           NEW h, h = [e EXCEPT !.phase = p]
    PROVE  /\ SameRequest(e, h) /\ h.phase = p /\ h.call = e.call /\ h.error = e.error
           /\ h.charged = e.charged /\ h.status = e.status /\ h.value = e.value
BY DEF SameRequest, EnvType
-----------------------------------------------------------------------------
(* The steps of the extension keep the invariant *)

\* What EnvInv says, for a phase.
LEMMA EnvFacts ==
    ASSUME Inv, env # None
    PROVE  /\ frame # None
           /\ env.phase \in {"charge", "dispatch", "convert", "read", "write", "returned"} =>
                 env.call # None /\ env.call = Decoded(env.id, env.input)
           /\ env.phase \in {"dispatch", "convert"} => MatchedFunction(env.id) = "dispatch"
           /\ env.phase \in {"read", "write"} => MatchedFunction(env.id) = "read"
           /\ env.phase = "dispatch" => env.charged = PreDispatchWeight(env.call)
                                        /\ frame.work + env.charged <= frame.spent
           /\ env.phase = "read" => frame.work + 1 <= frame.spent
           /\ env.phase \in {"called", "decode", "charge", "dispatch", "read", "write"} =>
                 env.error = None
BY DEF Inv, EnvInv

LEMMA ExtensionCallKeeps ==
    ASSUME Inv, ExtensionCall, UNCHANGED owner
    PROVE  Inv' /\ SameCall(frame, frame')
<1>1. frame # None /\ env # None /\ env.phase = "called"
  BY DEF ExtensionCall, InPhase
<1>2. env \in EnvType /\ env.error = None
  BY <1>1, AtWork, EnvFacts
<1>3. PICK next : next = IF MatchedFunction(env.id) = None THEN Trapped(env, ContractsDecodingFailed)
                         ELSE [env EXCEPT !.phase = "decode"]
  BY Zenon
<1>4. /\ SameRequest(env, next)
      /\ \/ next.phase = "trapped"
         \/ next.phase = "decode" /\ next.error = None
  BY <1>2, <1>3, TrapsTyped, KnownErrors, PhaseChanged
<1>5. ChargeWeight(1, 1, next)
  BY <1>3 DEF ExtensionCall, seal_debug_message
<1>6. /\ SameCall(frame, frame') /\ SameRequest(env, env')
      /\ env'.phase = "trapped" \/ env' = next
  BY <1>1, <1>4, <1>5, Charging
<1>7. UNCHANGED <<ledger, owner>>
  BY DEF ExtensionCall
<1>8. CASE env'.phase = "trapped"
  BY <1>1, <1>6, <1>7, <1>8, Moves
<1>9. CASE env'.phase = "decode" /\ env'.error = None
  <2>1. frame' # None /\ WellFormed(Asked)'
    BY <1>1, <1>6, <1>7, CallKept
  <2>2. EnvInv'
    BY <1>9, <2>1 DEF EnvInv
  <2> QED
    BY <1>1, <1>2, <1>6, <1>7, <1>9, <2>2, Moves
<1> QED
  BY <1>4, <1>6, <1>8, <1>9

LEMMA DecodeInputKeeps ==
    ASSUME Inv, DecodeInput, UNCHANGED owner
    PROVE  Inv' /\ SameCall(frame, frame')
<1>1. frame # None /\ env # None /\ env.phase = "decode"
  BY DEF DecodeInput, InPhase
<1>2. env \in EnvType /\ env.error = None /\ WellFormed(Asked)
  BY <1>1, AtWork, EnvFacts
<1>3. PICK call : call = Decoded(env.id, env.input)
  OBVIOUS
<1>4. call # None => call \in CallType
  <2>1. PICK request : request = Asked
    OBVIOUS
  <2>2. request.id = env.id /\ request.input = env.input
    BY <2>1 DEF Asked, Request
  <2> QED
    BY <1>2, <1>3, <2>1, <2>2, DecodedCall
<1>5. PICK next : next = IF call = None THEN Trapped(env, ContractsDecodingFailed)
                         ELSE [env EXCEPT !.phase = "charge", !.call = call]
  BY Zenon
<1>6. /\ SameRequest(env, next)
      /\ \/ next.phase = "trapped"
         \/ next.phase = "charge" /\ next.error = None /\ next.call = call /\ call # None
  <2>1. CASE call = None
    BY <1>2, <1>5, <2>1, TrapsTyped, KnownErrors
  <2>2. CASE call # None
    <3>1. next = [env EXCEPT !.phase = "charge", !.call = call]
      BY <1>5, <2>2
    <3>2. call \in Option(CallType)
      BY <1>4, <2>2 DEF Option
    <3> QED
      BY <1>2, <2>2, <3>1, <3>2 DEF SameRequest, EnvType
  <2> QED
    BY <2>1, <2>2
<1>7. ChargeWeight(1, 1, next)
  BY <1>3, <1>5 DEF DecodeInput, seal_return
<1>8. /\ SameCall(frame, frame') /\ SameRequest(env, env')
      /\ env'.phase = "trapped" \/ env' = next
  BY <1>1, <1>6, <1>7, Charging
<1>9. UNCHANGED <<ledger, owner>>
  BY DEF DecodeInput
<1>10. CASE env'.phase = "trapped"
  BY <1>1, <1>8, <1>9, <1>10, Moves
<1>11. CASE env'.phase = "charge" /\ env'.error = None /\ env'.call = call /\ call # None
  <2>1. frame' # None /\ WellFormed(Asked)'
    BY <1>1, <1>8, <1>9, CallKept
  <2>2. env'.id = env.id /\ env'.input = env.input
    BY <1>8 DEF SameRequest
  <2>3. EnvInv'
    BY <1>3, <1>11, <2>1, <2>2 DEF EnvInv
  <2> QED
    BY <1>1, <1>2, <1>8, <1>9, <1>11, <2>3, Moves
<1> QED
  BY <1>6, <1>8, <1>10, <1>11

\* The call in progress is one that DecodedCall speaks of.
LEMMA CallInProgress ==
    ASSUME Inv, env # None, env.call # None, env.call = Decoded(env.id, env.input)
    PROVE  /\ env.call \in CallType /\ Typed(env.call.name, env.call)
           /\ <<env.call.pallet, env.call.name>> \in Denoted(TableOf(env.id), env.id)
           /\ PreDispatchWeight(env.call) \in Nat /\ version(env.id) = 0
<1>1. PICK request : request = Asked
  OBVIOUS
<1>2. request.id = env.id /\ request.input = env.input
  BY <1>1 DEF Asked, Request
<1>3. WellFormed(request)
  BY <1>1, AtWork
<1>4. /\ env.call \in CallType /\ Typed(env.call.name, env.call)
      /\ <<env.call.pallet, env.call.name>> \in Denoted(TableOf(env.id), env.id)
  BY <1>2, <1>3, DecodedCall
<1>5. PreDispatchWeight(env.call) \in Nat
  BY DEF PreDispatchWeight, DispatchWeight, approve_weight, balance_of_weight, assets_weight
<1>6. version(env.id) = 0
  BY <1>4 DEF Denoted
<1> QED
  BY <1>4, <1>5, <1>6

LEMMA ChargeForDispatchKeeps ==
    ASSUME Inv, ChargeForDispatch, UNCHANGED owner
    PROVE  Inv' /\ SameCall(frame, frame')
<1>1. frame # None /\ env # None /\ env.phase = "charge" /\ MatchedFunction(env.id) = "dispatch"
  BY DEF ChargeForDispatch, InPhase
<1>2. /\ env \in EnvType /\ frame \in FrameType /\ frame.work <= frame.spent
      /\ env.error = None /\ env.call # None /\ env.call = Decoded(env.id, env.input)
  BY <1>1, AtWork, EnvFacts
<1>3. PICK weight \in Nat : weight = PreDispatchWeight(env.call)
  BY <1>1, <1>2, CallInProgress
<1>4. PICK next : next = [env EXCEPT !.phase = "dispatch", !.charged = weight]
  OBVIOUS
<1>5. /\ SameRequest(env, next)
      /\ next.phase = "dispatch" /\ next.error = None /\ next.call = env.call
      /\ next.charged = weight
  BY <1>2, <1>3, <1>4 DEF SameRequest, EnvType
<1>6. ChargeWeight(weight, 0, next)
  BY <1>3, <1>4 DEF ChargeForDispatch
<1>7. /\ SameCall(frame, frame') /\ SameRequest(env, env')
      /\ \/ env'.phase = "trapped"
         \/ /\ env' = next
            /\ frame'.spent = frame.spent + weight /\ frame'.work = frame.work + 0
  BY <1>1, <1>3, <1>5, <1>6, Charging
<1>8. UNCHANGED <<ledger, owner>>
  BY DEF ChargeForDispatch
<1>9. CASE env'.phase = "trapped"
  BY <1>1, <1>7, <1>8, <1>9, Moves
<1>10. CASE env' = next /\ frame'.spent = frame.spent + weight /\ frame'.work = frame.work + 0
  <2>1. frame' # None /\ WellFormed(Asked)'
    BY <1>1, <1>7, <1>8, CallKept
  <2>2. env'.id = env.id /\ env'.input = env.input
    BY <1>7 DEF SameRequest
  <2>3. frame'.work + env'.charged <= frame'.spent
    <3>1. frame.work \in Nat /\ frame.spent \in Nat
      BY <1>2 DEF FrameType
    <3> QED
      BY <1>2, <1>3, <1>5, <1>10, <3>1
  <2>4. env'.charged = PreDispatchWeight(env'.call)
    BY <1>3, <1>5, <1>10
  <2>5. EnvInv'
    BY <1>1, <1>2, <1>5, <1>10, <2>1, <2>2, <2>3, <2>4 DEF EnvInv
  <2> QED
    BY <1>1, <1>2, <1>5, <1>7, <1>8, <1>10, <2>5, Moves
<1> QED
  BY <1>7, <1>9, <1>10

\* Only the API call of a message dispatches: what is read afterwards is an allowance.
LEMMA DispatchesOnce ==
    ASSUME Inv, env # None, MatchedFunction(env.id) = "dispatch"
    PROVE  frame.stage = "api"
<1>1. frame # None /\ frame.stage \in {"api", "allowance"}
  BY AtWork
<1>2. ASSUME frame.stage = "allowance" PROVE FALSE
  <2>1. frame.contract = Contract
    BY <1>1, <1>2 DEF Inv, FrameInv
  <2>2. PICK a, b : Asked = ApiRequest("allowance", Token, a, b, 0)
    BY <1>1, <1>2, <2>1 DEF Inv, FrameInv
  <2>3. "allowance" \in DOMAIN ApiStateQuery /\ IsRead("allowance")
    BY DEF ApiStateQuery, IsRead
  <2>4. MatchedFunction(ApiRequest("allowance", Token, a, b, 0).id) = "read"
    BY <2>3, ApiDenotes
  <2>5. Asked.id = env.id
    BY DEF Asked, Request
  <2> QED
    BY <2>2, <2>4, <2>5
<1> QED
  BY <1>1, <1>2

\* The call that is dispatched is made on the ledger from which the contract call started:
\* it has its effect whole or fails, and gives back no more gas than it has not used.
LEMMA DispatchRuntimeCallKeeps ==
    ASSUME Inv, DispatchRuntimeCall, UNCHANGED owner
    PROVE  Inv' /\ SameCall(frame, frame')
<1>1. frame # None /\ env # None /\ env.phase = "dispatch"
  BY DEF DispatchRuntimeCall, InPhase
<1>2. /\ env \in EnvType /\ frame \in FrameType /\ frame.work <= frame.spent
      /\ Sound(ledger) /\ frame.contract \in AccountId
  BY <1>1, AtWork
<1>3. /\ env.call # None /\ env.call = Decoded(env.id, env.input)
      /\ MatchedFunction(env.id) = "dispatch" /\ env.charged = PreDispatchWeight(env.call)
      /\ frame.work + env.charged <= frame.spent
  BY <1>1, EnvFacts
<1>4. env.call \in CallType /\ Typed(env.call.name, env.call)
  BY <1>1, <1>3, CallInProgress
<1>5. frame.stage = "api" /\ ledger = frame.saved
  <2>1. frame.stage = "api"
    BY <1>1, <1>3, DispatchesOnce
  <2> QED
    BY <1>1, <2>1 DEF Inv, EffectInv
<1>6. PICK r : r = DispatchCall(ledger, frame.contract, env.call)
  OBVIOUS
<1>7. Whole(ledger, frame.contract, env.call, r, env.charged)
  BY <1>2, <1>3, <1>4, <1>6, ExtensionEffect
<1>8. PICK actual \in Nat : /\ actual = ActualWeight(r, env.charged)
                           /\ r.work \in Nat /\ r.work <= actual /\ actual <= env.charged
  BY <1>7 DEF Whole, Paid
<1>9. /\ ledger' = r.ledger
      /\ frame' = [AdjustWeight(frame, env.charged, actual) EXCEPT !.work = @ + r.work]
      /\ env' = [env EXCEPT !.phase = "convert", !.error = r.error, !.event = r.event]
  BY <1>6, <1>8 DEF DispatchRuntimeCall
<1>10. /\ frame.gas \in Nat /\ frame.spent \in Nat /\ frame.work \in Nat /\ env.charged \in Nat
  BY <1>2 DEF FrameType, EnvType
<1>11. PICK gas \in Nat, spent \in Nat, work \in Nat :
          /\ gas = frame.gas + (env.charged - actual)
          /\ spent = frame.spent - (env.charged - actual)
          /\ work = frame.work + r.work /\ work <= spent
  <2>1. /\ frame.gas + (env.charged - actual) \in Nat
        /\ frame.spent - (env.charged - actual) \in Nat /\ frame.work + r.work \in Nat
        /\ frame.work + r.work <= frame.spent - (env.charged - actual)
    BY <1>3, <1>8, <1>10
  <2> QED
    BY <2>1
<1>12. PICK adjusted : adjusted = [frame EXCEPT !.gas = gas, !.spent = spent]
  OBVIOUS
<1>13. adjusted = AdjustWeight(frame, env.charged, actual) /\ adjusted.work = frame.work
  BY <1>2, <1>11, <1>12 DEF AdjustWeight, FrameType
<1>14. frame' = [adjusted EXCEPT !.work = work]
  BY <1>9, <1>11, <1>13
<1>15. SameCall(frame, frame')
  <2>1. adjusted \in FrameType
    BY <1>2, <1>12 DEF FrameType
  <2>2. frame' \in FrameType
    BY <1>14, <2>1 DEF FrameType
  <2>3. /\ adjusted.contract = frame.contract /\ adjusted.caller = frame.caller
        /\ adjusted.message = frame.message /\ adjusted.saved = frame.saved
        /\ adjusted.stage = frame.stage /\ adjusted.events = frame.events
        /\ adjusted.result = frame.result /\ adjusted.spent = spent
    BY <1>2, <1>12 DEF FrameType
  <2>4. /\ frame'.contract = frame.contract /\ frame'.caller = frame.caller
        /\ frame'.message = frame.message /\ frame'.saved = frame.saved
        /\ frame'.stage = frame.stage /\ frame'.events = frame.events
        /\ frame'.result = frame.result /\ frame'.spent = spent /\ frame'.work = work
    BY <1>14, <2>1, <2>3 DEF FrameType
  <2> QED
    BY <1>11, <2>2, <2>4 DEF SameCall
<1>16. /\ SameRequest(env, env') /\ env'.phase = "convert" /\ env'.error = r.error
       /\ env'.call = env.call
  <2>1. r.error \in Option(DispatchErrors) /\ r.event \in Option(Event)
    BY <1>7 DEF Whole, Option, Reported
  <2> QED
    BY <1>2, <1>9, <2>1 DEF SameRequest, EnvType
<1>17. /\ frame' # None /\ env' # None /\ frame' \in Option(FrameType)
       /\ env' \in Option(EnvType) /\ (owner \in Option(AccountId))'
       /\ FrameInv' /\ WellFormed(Asked)'
  BY <1>1, <1>15, <1>16, CallKept
<1>18. env'.id = env.id /\ env'.input = env.input
  BY <1>16 DEF SameRequest
<1>19. EnvInv'
  BY <1>3, <1>16, <1>17, <1>18 DEF EnvInv
<1>20. EffectInv'
  <2>1. frame'.stage = "api" /\ frame'.saved = frame.saved /\ frame'.contract = frame.contract
    BY <1>5, <1>15 DEF SameCall
  <2>2. Outcome(env.call)' = r
    BY <1>5, <1>6, <1>16, <2>1 DEF Outcome
  <2> QED
    BY <1>3, <1>9, <1>16, <1>18, <2>1, <2>2 DEF EffectInv
<1>21. Sound(ledger')
  BY <1>7, <1>9 DEF Whole
<1> QED
  BY <1>15, <1>17, <1>19, <1>20, <1>21 DEF Inv

\* The call in progress has had its effect, or failed with an error that has a status.
LEMMA ConvertResultKeeps ==
    ASSUME Inv, ConvertResult, UNCHANGED owner
    PROVE  Inv' /\ SameCall(frame, frame')
<1>1. frame # None /\ env # None /\ env.phase = "convert"
  BY DEF ConvertResult, InPhase
<1>2. /\ env \in EnvType /\ frame \in FrameType /\ frame.work <= frame.spent
      /\ Sound(frame.saved) /\ frame.contract \in AccountId
  BY <1>1, AtWork
<1>3. /\ env.call # None /\ env.call = Decoded(env.id, env.input)
      /\ MatchedFunction(env.id) = "dispatch"
  BY <1>1, EnvFacts
<1>4. env.call \in CallType /\ Typed(env.call.name, env.call) /\ version(env.id) = 0
  BY <1>1, <1>3, CallInProgress
<1>5. env.error \in Option(Reported)
  <2>1. frame.stage = "api"
    BY <1>1, <1>3, DispatchesOnce
  <2>2. env.error = Outcome(env.call).error
    BY <1>1, <1>3, <2>1 DEF Inv, EffectInv
  <2>3. PICK r : r = DispatchCall(frame.saved, frame.contract, env.call)
    OBVIOUS
  <2>4. r.error \in Option(Reported)
    BY <1>2, <1>4, <2>3, ExtensionEffect DEF Whole
  <2> QED
    BY <2>2, <2>3, <2>4 DEF Outcome
<1>6. PICK status : status = IF env.error = None THEN Success
                             ELSE VersionedStatus(env.error, version(env.id))
  BY Zenon
<1>7. /\ status \in Code /\ status # None
      /\ Succeeded(status) <=> env.error = None
      /\ env.error # None => FromStatus(status) = V0Error(env.error)
  <2>1. CASE env.error = None
    <3>1. Success \in Code
      BY DEF Success, Code, Byte
    <3> QED
      BY <1>6, <2>1, <3>1, NoneAssumption DEF Succeeded, IsOk
  <2>2. CASE env.error # None
    <3>1. env.error \in Reported
      BY <1>5, <2>2 DEF Option
    <3>2. status = IntoStatus(V0Error(env.error))
      BY <1>4, <1>6, <2>2 DEF VersionedStatus
    <3> QED
      BY <2>2, <3>1, <3>2, StatusDecodes, NoneAssumption DEF Succeeded, IsOk
  <2> QED
    BY <2>1, <2>2
<1>8. env' = [env EXCEPT !.phase = "returned", !.status = status]
  BY <1>6, <1>7 DEF ConvertResult
<1>9. UNCHANGED <<ledger, owner>> /\ frame' = frame
  BY DEF ConvertResult
<1>10. /\ SameRequest(env, env') /\ env'.phase = "returned" /\ env'.error = env.error
       /\ env'.call = env.call /\ env'.status = status
  <2>1. status \in Option(Code)
    BY <1>7 DEF Option
  <2> QED
    BY <1>2, <1>8, <2>1 DEF SameRequest, EnvType
<1>11. SameCall(frame, frame')
  BY <1>2, <1>9 DEF SameCall
<1>12. frame' # None /\ WellFormed(Asked)'
  BY <1>1, <1>9, <1>10, <1>11, CallKept
<1>13. env'.id = env.id /\ env'.input = env.input
  BY <1>10 DEF SameRequest
<1>14. EnvInv'
  BY <1>3, <1>7, <1>10, <1>12, <1>13 DEF EnvInv
<1> QED
  BY <1>1, <1>3, <1>9, <1>10, <1>11, <1>14, Moves

LEMMA ChargeForReadKeeps ==
    ASSUME Inv, ChargeForRead, UNCHANGED owner
    PROVE  Inv' /\ SameCall(frame, frame')
<1>1. frame # None /\ env # None /\ env.phase = "charge" /\ MatchedFunction(env.id) = "read"
  BY DEF ChargeForRead, InPhase
<1>2. /\ env \in EnvType /\ frame \in FrameType /\ frame.work <= frame.spent
      /\ env.error = None /\ env.call # None /\ env.call = Decoded(env.id, env.input)
  BY <1>1, AtWork, EnvFacts
<1>3. PICK next : next = IF ReadAllowed(env.call) THEN [env EXCEPT !.phase = "read"]
                         ELSE Trapped(env, CallFiltered)
  BY Zenon
<1>4. /\ SameRequest(env, next)
      /\ \/ next.phase = "trapped"
         \/ next.phase = "read" /\ next.error = None /\ next.call = env.call
  <2>1. CASE ReadAllowed(env.call)
    BY <1>2, <1>3, <2>1, PhaseChanged
  <2>2. CASE ~ ReadAllowed(env.call)
    BY <1>2, <1>3, <2>2, TrapsTyped, KnownErrors
  <2> QED
    BY <2>1, <2>2
<1>5. ChargeWeight(1, 0, next)
  BY <1>3 DEF ChargeForRead, ReadWeight
<1>6. /\ SameCall(frame, frame') /\ SameRequest(env, env')
      /\ \/ env'.phase = "trapped"
         \/ /\ env' = next
            /\ frame'.spent = frame.spent + 1 /\ frame'.work = frame.work + 0
  BY <1>1, <1>4, <1>5, Charging
<1>7. UNCHANGED <<ledger, owner>>
  BY DEF ChargeForRead
<1>8. CASE env'.phase = "trapped"
  BY <1>1, <1>6, <1>7, <1>8, Moves
<1>9. CASE /\ env'.phase = "read" /\ env'.error = None /\ env'.call = env.call
           /\ frame'.spent = frame.spent + 1 /\ frame'.work = frame.work + 0
  <2>1. frame' # None /\ WellFormed(Asked)'
    BY <1>1, <1>6, <1>7, CallKept
  <2>2. env'.id = env.id /\ env'.input = env.input
    BY <1>6 DEF SameRequest
  <2>3. frame'.work + 1 <= frame'.spent
    <3>1. frame.work \in Nat /\ frame.spent \in Nat
      BY <1>2 DEF FrameType
    <3> QED
      BY <1>2, <1>9, <3>1
  <2>4. EnvInv'
    BY <1>1, <1>2, <1>9, <2>1, <2>2, <2>3 DEF EnvInv
  <2> QED
    BY <1>1, <1>2, <1>6, <1>7, <1>9, <2>4, Moves
<1> QED
  BY <1>4, <1>6, <1>8, <1>9

\* A read returns a value of its type.
LEMMA ReadTypes ==
    ASSUME NEW l \in Ledger, NEW c \in CallType, Typed(c.name, c), c.name \in DOMAIN ReadIndex
    PROVE  Read(l, c) \in Option(Nat \cup BOOLEAN)
<1>1. c.token \in TokenId
  BY DEF CallType
<1>2. /\ l.asset[c.token] \in Option(AssetDetails) /\ l.metadata[c.token] \in Option(AssetMetadata)
  BY <1>1, LedgerParts
<1>3. \A x \in Balance : x \in Nat
  BY Options
<1>4. ASSUME NEW x \in Nat PROVE x \in Option(Nat \cup BOOLEAN)
  BY DEF Option
<1>5. CASE c.name = "total_supply"
  <2>1. total_supply(l, c.token) \in Nat
    BY <1>2, <1>3 DEF total_supply, Option, AssetDetails
  <2> QED
    BY <1>4, <1>5, <2>1 DEF Read
<1>6. CASE c.name = "balance_of"
  <2>1. c.who \in AccountId
    BY <1>6 DEF Typed, TakesWho
  <2>2. balance(l, c.token, c.who) \in Nat
    BY <1>1, <2>1, Amounts DEF balance
  <2> QED
    BY <1>4, <1>6, <2>2 DEF Read
<1>7. CASE c.name = "allowance"
  <2>1. c.who \in AccountId /\ c.other \in AccountId
    BY <1>7 DEF Typed, TakesWho, TakesOther
  <2>2. allowance(l, c.token, c.who, c.other) \in Nat
    BY <1>1, <2>1, Allowances
  <2> QED
    BY <1>4, <1>7, <2>2 DEF Read
<1>8. ASSUME NEW field \in {"name", "symbol"}
      PROVE  Filtered(l, c.token, field) \in Option(Nat \cup BOOLEAN)
  <2>1. CASE l.metadata[c.token] = None
    BY <2>1 DEF Filtered, Option
  <2>2. CASE l.metadata[c.token] # None
    <3>1. l.metadata[c.token][field] \in Nat
      BY <1>2, <2>2 DEF Option, AssetMetadata
    <3> QED
      BY <2>2, <3>1 DEF Filtered, Option
  <2> QED
    BY <2>1, <2>2
<1>9. CASE c.name = "token_name"
  BY <1>8, <1>9 DEF Read
<1>10. CASE c.name = "token_symbol"
  BY <1>8, <1>10 DEF Read
<1>11. CASE c.name = "token_decimals"
  <2>1. (IF l.metadata[c.token] = None THEN 0 ELSE l.metadata[c.token].decimals) \in Nat
    BY <1>2 DEF Option, AssetMetadata
  <2> QED
    BY <1>4, <1>11, <2>1 DEF Read
<1>12. CASE c.name = "token_exists"
  <2>1. Read(l, c) = (l.asset[c.token] # None)
    BY <1>12 DEF Read
  <2>2. (l.asset[c.token] # None) \in BOOLEAN
    BY Zenon
  <2> QED
    BY <2>1, <2>2, Zenon DEF Option
<1> QED
  BY <1>5, <1>6, <1>7, <1>9, <1>10, <1>11, <1>12 DEF ReadIndex

\* What a request for state denotes is a read.
LEMMA ReadInProgress ==
    ASSUME Inv, env # None, env.call # None, env.call = Decoded(env.id, env.input),
           MatchedFunction(env.id) = "read"
    PROVE  env.call.name \in DOMAIN ReadIndex
<1>1. <<env.call.pallet, env.call.name>> \in Denoted(TableOf(env.id), env.id)
  BY CallInProgress
<1>2. TableOf(env.id) = ReadTable
  BY DEF TableOf
<1>3. <<env.call.pallet, env.call.name>>
         \in UNION {{pallet} \X DOMAIN ReadTable[pallet] : pallet \in DOMAIN ReadTable}
  BY <1>1, <1>2 DEF Denoted
<1>4. DOMAIN ReadTable = {"Fungibles"} /\ ReadTable["Fungibles"] = ReadIndex
  BY DEF ReadTable
<1> QED
  BY <1>3, <1>4

LEMMA ReadRuntimeStateKeeps ==
    ASSUME Inv, ReadRuntimeState, UNCHANGED owner
    PROVE  Inv' /\ SameCall(frame, frame')
<1>1. frame # None /\ env # None /\ env.phase = "read"
  BY DEF ReadRuntimeState, InPhase
<1>2. /\ env \in EnvType /\ frame \in FrameType /\ frame.work + 1 <= frame.spent
      /\ env.error = None /\ env.call # None /\ env.call = Decoded(env.id, env.input)
      /\ MatchedFunction(env.id) = "read" /\ ledger \in Ledger
  BY <1>1, AtWork, EnvFacts
<1>3. /\ env.call \in CallType /\ Typed(env.call.name, env.call) /\ version(env.id) = 0
      /\ env.call.name \in DOMAIN ReadIndex
  BY <1>1, <1>2, CallInProgress, ReadInProgress
<1>4. PICK value \in Option(Nat \cup BOOLEAN) : value = Read(ledger, env.call)
  BY <1>2, <1>3, ReadTypes
<1>5. /\ env' = [env EXCEPT !.phase = "write", !.value = value]
      /\ frame' = [frame EXCEPT !.work = @ + 1] /\ UNCHANGED <<ledger, owner>>
  BY <1>3, <1>4 DEF ReadRuntimeState
<1>6. /\ SameRequest(env, env') /\ env'.phase = "write" /\ env'.error = env.error
      /\ env'.call = env.call /\ env'.value = value
  BY <1>2, <1>5 DEF SameRequest, EnvType
<1>7. SameCall(frame, frame')
  <2>1. frame.work \in Nat /\ frame.work + 1 \in Nat
    BY <1>2 DEF FrameType
  <2>2. frame' \in FrameType
    BY <1>2, <1>5, <2>1 DEF FrameType
  <2>3. /\ frame'.contract = frame.contract /\ frame'.caller = frame.caller
        /\ frame'.message = frame.message /\ frame'.saved = frame.saved
        /\ frame'.stage = frame.stage /\ frame'.events = frame.events
        /\ frame'.result = frame.result /\ frame'.spent = frame.spent
        /\ frame'.work = frame.work + 1
    BY <1>2, <1>5 DEF FrameType
  <2> QED
    BY <1>2, <2>2, <2>3 DEF SameCall
<1>8. frame' # None /\ WellFormed(Asked)'
  BY <1>1, <1>5, <1>6, <1>7, CallKept
<1>9. env'.id = env.id /\ env'.input = env.input
  BY <1>6 DEF SameRequest
<1>10. env'.value = Read(ledger', env'.call)
  BY <1>4, <1>5, <1>6
<1>11. EnvInv'
  BY <1>2, <1>6, <1>8, <1>9, <1>10 DEF EnvInv
<1> QED
  BY <1>1, <1>2, <1>5, <1>6, <1>7, <1>11, Moves

LEMMA WriteOutputKeeps ==
    ASSUME Inv, WriteOutput, UNCHANGED owner
    PROVE  Inv' /\ SameCall(frame, frame')
<1>1. frame # None /\ env # None /\ env.phase = "write"
  BY DEF WriteOutput, InPhase
<1>2. /\ env \in EnvType /\ env.error = None /\ env.call # None
      /\ env.call = Decoded(env.id, env.input) /\ MatchedFunction(env.id) = "read"
  BY <1>1, AtWork, EnvFacts
<1>3. env.value = Read(ledger, env.call)
  BY <1>1, <1>2 DEF Inv, EnvInv
<1>4. Success \in Code /\ Success # None /\ Success \in Option(Code) /\ Succeeded(Success)
  <2>1. Success \in Code
    BY DEF Success, Code, Byte
  <2> QED
    BY <2>1, NoneAssumption DEF Option, Succeeded, IsOk
<1>5. PICK next : next = IF env.room THEN [env EXCEPT !.phase = "returned", !.status = Success]
                         ELSE Trapped(env, OutputBufferTooSmall)
  BY Zenon
<1>6. /\ SameRequest(env, next)
      /\ \/ next.phase = "trapped"
         \/ /\ next.phase = "returned" /\ next.error = None /\ next.call = env.call
            /\ next.status = Success /\ next.value = env.value
  <2>1. CASE env.room
    <3>1. next = [env EXCEPT !.phase = "returned", !.status = Success]
      BY <1>5, <2>1
    <3> QED
      BY <1>2, <1>4, <3>1 DEF SameRequest, EnvType
  <2>2. CASE ~ env.room
    BY <1>2, <1>5, <2>2, TrapsTyped, KnownErrors
  <2> QED
    BY <2>1, <2>2
<1>7. ChargeWeight(1, 1, next)
  BY <1>5 DEF WriteOutput, seal_input
<1>8. /\ SameCall(frame, frame') /\ SameRequest(env, env')
      /\ env'.phase = "trapped" \/ env' = next
  BY <1>1, <1>6, <1>7, Charging
<1>9. UNCHANGED <<ledger, owner>>
  BY DEF WriteOutput
<1>10. CASE env'.phase = "trapped"
  BY <1>1, <1>8, <1>9, <1>10, Moves
<1>11. CASE /\ env'.phase = "returned" /\ env'.error = None /\ env'.call = env.call
            /\ env'.status = Success /\ env'.value = env.value
  <2>1. frame' # None /\ WellFormed(Asked)'
    BY <1>1, <1>8, <1>9, CallKept
  <2>2. env'.id = env.id /\ env'.input = env.input
    BY <1>8 DEF SameRequest
  <2>3. env'.value = Read(ledger', env'.call)
    BY <1>3, <1>9, <1>11
  <2>4. EnvInv'
    BY <1>2, <1>4, <1>11, <2>1, <2>2, <2>3 DEF EnvInv
  <2> QED
    BY <1>1, <1>2, <1>8, <1>9, <1>11, <2>4, Moves
<1> QED
  BY <1>6, <1>8, <1>10, <1>11

LEMMA ExtensionStepKeeps ==
    ASSUME Inv, ExtensionStep, UNCHANGED owner
    PROVE  Inv' /\ SameCall(frame, frame')
BY ExtensionCallKeeps, DecodeInputKeeps, ChargeForDispatchKeeps, DispatchRuntimeCallKeeps,
   ConvertResultKeeps, ChargeForReadKeeps, ReadRuntimeStateKeeps, WriteOutputKeeps
   DEF ExtensionStep
-----------------------------------------------------------------------------
(* The steps of the contracts and of their users keep it *)

\* A contract call that has ended.
LEMMA Finishes ==
    ASSUME frame' \in FrameType, frame'.stage = "done", Sound(frame'.saved),
           frame'.work <= frame'.spent, env' = None, Sound(ledger'), owner' \in Option(AccountId),
           frame'.contract = Contract =>
              frame'.message \in MessageType /\ Typed(frame'.message.name, frame'.message),
           FailuresLeaveNoTrace'
    PROVE  Inv'
<1>1. frame' # None /\ frame' \in Option(FrameType) /\ env' \in Option(EnvType)
  BY NoneAssumption DEF Option
<1>2. FrameInv'
  BY <1>1 DEF FrameInv
<1>3. EnvInv'
  BY DEF EnvInv
<1>4. EffectInv'
  BY <1>1 DEF EffectInv
<1> QED
  BY <1>1, <1>2, <1>3, <1>4 DEF Inv

\* What a contract call can return.
Results == {"Ok", "NotOwner", "Status", "Trap", "InsufficientBalance", "InsufficientAllowance",
            "Custom"}

LEMMA DoneFields ==
    ASSUME NEW f \in FrameType, NEW value \in Option(Nat \cup BOOLEAN), NEW events \in Seq(Event),
           NEW result \in Results, NEW g, g = Done(f, result, value, events)
    PROVE  /\ g \in FrameType /\ g.stage = "done" /\ g.result = result /\ g.saved = f.saved
           /\ g.work = f.work /\ g.spent = f.spent /\ g.contract = f.contract
           /\ g.message = f.message /\ g.caller = f.caller
           /\ g.events = f.events \o events
<1>1. f.events \in Seq(Event) /\ f.events \o events \in Seq(Event)
  BY DEF FrameType
<1>2. result \in Option({"Ok", "NotOwner", "Status", "Trap", "InsufficientBalance",
                         "InsufficientAllowance", "Custom"})
  BY DEF Option, Results
<1> QED
  BY <1>1, <1>2 DEF Done, FrameType

LEMMA DoneSilently ==
    ASSUME NEW f \in FrameType, NEW value \in Option(Nat \cup BOOLEAN), NEW result \in Results,
           NEW g, g = Done(f, result, value, <<>>)
    PROVE  /\ g \in FrameType /\ g.stage = "done" /\ g.result = result /\ g.saved = f.saved
           /\ g.work = f.work /\ g.spent = f.spent /\ g.contract = f.contract
           /\ g.message = f.message /\ g.caller = f.caller /\ g.events = f.events
<1>1. f.events \in Seq(Event) /\ f.events \o <<>> = f.events
  BY DEF FrameType
<1>2. result \in Option({"Ok", "NotOwner", "Status", "Trap", "InsufficientBalance",
                         "InsufficientAllowance", "Custom"})
  BY DEF Option, Results
<1> QED
  BY <1>1, <1>2 DEF Done, FrameType

\* A contract call whose first request goes out.
LEMMA Starts ==
    ASSUME Inv, NEW f \in FrameType, f.saved = ledger, f.stage = "api", f.events = <<>>,
           f.work = 0, f.spent = 0, NEW request, WellFormed(request),
           frame' = f, env' = Env(request), UNCHANGED <<ledger, owner>>,
           f.contract = Contract =>
              /\ f.message \in MessageType /\ Typed(f.message.name, f.message)
              /\ f.message.name # "transfer_ownership" /\ ~ NoOp(f.message)
              /\ request = RequestOf(f.message) /\ EnsureOwner(f.message, f.caller)
    PROVE  Inv'
<1>1. request \in [id : Code, input : Option(InputType), room : BOOLEAN]
  BY DEF WellFormed
<1>2. /\ env'.id = request.id /\ env'.input = request.input /\ env'.room = request.room
      /\ env'.phase = "called" /\ env'.error = None
  BY DEF Env
<1>3. env' \in EnvType
  BY <1>1 DEF Env, EnvType, Option
<1>4. env' # None /\ frame' # None /\ env' \in Option(EnvType) /\ frame' \in Option(FrameType)
  BY <1>3, NoneAssumption DEF Option
<1>5. Asked' = request
  BY <1>1, <1>2 DEF Asked, Request
<1>6. EnvInv'
  BY <1>2, <1>4, <1>5 DEF EnvInv
<1>7. Sound(ledger) /\ owner \in Option(AccountId)
  BY DEF Inv
<1>8. FrameInv'
  <2>1. EnsureOwner(f.message, f.caller) => EnsureOwner(frame.message, frame.caller)'
    BY DEF EnsureOwner
  <2> QED
    BY <1>4, <1>5, <1>7, <2>1 DEF FrameInv
<1>9. EffectInv'
  BY <1>2, <1>4 DEF EffectInv
<1> QED
  BY <1>4, <1>6, <1>7, <1>8, <1>9 DEF Inv

\* The request of a message is well formed and decodes to its call.
LEMMA MessageRequest ==
    ASSUME NEW m \in MessageType, Typed(m.name, m), m.name # "transfer_ownership"
    PROVE  /\ WellFormed(RequestOf(m))
           /\ Decoded(RequestOf(m).id, RequestOf(m).input) = MessageCall(m)
           /\ MatchedFunction(RequestOf(m).id) = IF IsRead(m.name) THEN "read" ELSE "dispatch"
<1>1. /\ m.who \in Option(AccountId) /\ m.other \in Option(AccountId) /\ m.value \in Nat
      /\ m.name \in DOMAIN ApiStateQuery \cup DOMAIN ApiDispatchable \cup {"new"}
      /\ Token \in TokenId
  BY ContractAssumption DEF MessageType
<1>2. CASE m.name = "new"
  <2>1. m.value \in Balance
    BY <1>2 DEF Typed
  <2>2. Contract \in AccountId /\ Contract \in Option(AccountId) /\ None \in Option(AccountId)
    BY ContractAssumption DEF Option
  <2>3. Typed("create", Input(Token, Contract, None, m.value))
    BY <2>1, <2>2 DEF Typed, Input, TakesOther
  <2>4. "create" \in DOMAIN ApiDispatchable /\ ~ IsRead("create") /\ ~ IsRead("new")
    BY DEF ApiDispatchable, ApiStateQuery, IsRead
  <2>5. PICK request : request = ApiRequest("create", Token, Contract, None, m.value)
    OBVIOUS
  <2>6. /\ WellFormed(request)
        /\ Decoded(request.id, request.input)
              = [pallet |-> "Fungibles", name |-> "create", token |-> Token, who |-> Contract,
                 other |-> None, value |-> m.value]
        /\ MatchedFunction(request.id) = "dispatch"
    <3>1. PICK value \in Nat : value = m.value
      BY <1>1
    <3>2. /\ WellFormed(request)
          /\ Decoded(request.id, request.input)
                = [pallet |-> "Fungibles", name |-> "create", token |-> Token, who |-> Contract,
                   other |-> None, value |-> value]
      BY <1>1, <2>2, <2>3, <2>4, <2>5, <3>1, ApiDecodes
    <3>3. MatchedFunction(request.id) = "dispatch"
      <4>1. PICK t, w, o, v : request = ApiRequest("create", t, w, o, v)
        BY <2>5
      <4>2. "create" \in DOMAIN ApiStateQuery \cup DOMAIN ApiDispatchable
        BY <2>4
      <4>3. MatchedFunction(request.id) = IF IsRead("create") THEN "read" ELSE "dispatch"
        BY <4>1, <4>2, ApiDenotes
      <4> QED
        BY <2>4, <4>3
    <3> QED
      BY <3>1, <3>2, <3>3
  <2>7. RequestOf(m) = request
    BY <1>2, <2>5 DEF RequestOf
  <2>8. MessageCall(m) = [pallet |-> "Fungibles", name |-> "create", token |-> Token,
                          who |-> Contract, other |-> None, value |-> m.value]
    BY <1>2 DEF MessageCall
  <2> QED
    BY <1>2, <2>4, <2>6, <2>7, <2>8
<1>3. CASE m.name # "new"
  <2>1. Typed(m.name, Input(Token, m.who, m.other, m.value))
    BY DEF Typed, Input
  <2>2. PICK request : request = ApiRequest(m.name, Token, m.who, m.other, m.value)
    OBVIOUS
  <2>3. m.name \in DOMAIN ApiStateQuery \cup DOMAIN ApiDispatchable
    BY <1>1, <1>3
  <2>4. /\ WellFormed(request)
        /\ Decoded(request.id, request.input)
              = [pallet |-> "Fungibles", name |-> m.name, token |-> Token, who |-> m.who,
                 other |-> m.other, value |-> m.value]
        /\ MatchedFunction(request.id) = IF IsRead(m.name) THEN "read" ELSE "dispatch"
    <3>1. /\ WellFormed(request)
          /\ Decoded(request.id, request.input)
                = [pallet |-> "Fungibles", name |-> m.name, token |-> Token, who |-> m.who,
                   other |-> m.other, value |-> m.value]
      BY <1>1, <2>1, <2>2, <2>3, ApiDecodes
    <3>2. MatchedFunction(request.id) = IF IsRead(m.name) THEN "read" ELSE "dispatch"
      <4>1. PICK name \in DOMAIN ApiStateQuery \cup DOMAIN ApiDispatchable : name = m.name
        BY <2>3
      <4>2. PICK t, w, o, v : request = ApiRequest(name, t, w, o, v)
        BY <2>2, <4>1
      <4>3. MatchedFunction(request.id) = IF IsRead(name) THEN "read" ELSE "dispatch"
        BY <4>2, ApiDenotes
      <4> QED
        BY <4>1, <4>3
    <3> QED
      BY <3>1, <3>2
  <2>5. RequestOf(m) = request
    BY <1>3, <2>2 DEF RequestOf
  <2>6. MessageCall(m) = [pallet |-> "Fungibles", name |-> m.name, token |-> Token,
                          who |-> m.who, other |-> m.other, value |-> m.value]
    BY <1>3 DEF MessageCall
  <2> QED
    BY <2>4, <2>5, <2>6
<1> QED
  BY <1>2, <1>3

\* The allowance that a message reads again is one that its API call has changed.
LEMMA AllowanceRequest ==
    ASSUME NEW m \in MessageType, Typed(m.name, m), ReadsAllowance(m)
    PROVE  LET request == ApiRequest("allowance", Token, AllowanceOf(m)[1], AllowanceOf(m)[2], 0) IN
           /\ WellFormed(request) /\ MatchedFunction(request.id) = "read"
           /\ Decoded(request.id, request.input)
                 = [pallet |-> "Fungibles", name |-> "allowance", token |-> Token,
                    who |-> AllowanceOf(m)[1], other |-> AllowanceOf(m)[2], value |-> 0]
           /\ AllowanceOf(m)[1] \in AccountId /\ AllowanceOf(m)[2] \in AccountId
           /\ ~ IsRead(m.name) /\ m.name # "new"
<1>1. m.who \in AccountId
  BY DEF Typed, TakesWho, ReadsAllowance
<1>2. PICK a \in AccountId, b \in AccountId : AllowanceOf(m) = <<a, b>>
  BY <1>1, ContractAssumption DEF AllowanceOf
<1>3. "allowance" \in DOMAIN ApiStateQuery /\ IsRead("allowance")
  BY DEF ApiStateQuery, IsRead
<1>4. a \in Option(AccountId) /\ b \in Option(AccountId) /\ 0 \in Balance /\ Token \in TokenId
  BY ContractAssumption, AssetsAssumption DEF Option, Balance
<1>5. Typed("allowance", Input(Token, a, b, 0))
  BY <1>4 DEF Typed, Input
<1>6. PICK request : request = ApiRequest("allowance", Token, a, b, 0)
  OBVIOUS
<1>7. /\ WellFormed(request) /\ MatchedFunction(request.id) = "read"
      /\ Decoded(request.id, request.input)
            = [pallet |-> "Fungibles", name |-> "allowance", token |-> Token, who |-> a,
               other |-> b, value |-> 0]
  <2>1. /\ WellFormed(request)
        /\ Decoded(request.id, request.input)
              = [pallet |-> "Fungibles", name |-> "allowance", token |-> Token, who |-> a,
                 other |-> b, value |-> 0]
    BY <1>3, <1>4, <1>5, <1>6, ApiDecodes
  <2>2. MatchedFunction(request.id) = "read"
    BY <1>3, <1>6, ApiDenotes
  <2> QED
    BY <2>1, <2>2
<1>8. ~ IsRead(m.name) /\ m.name # "new"
  BY DEF ReadsAllowance, IsRead, ApiStateQuery
<1> QED
  BY <1>2, <1>6, <1>7, <1>8

LEMMA EventsTyped ==
    ASSUME NEW m \in MessageType, Typed(m.name, m)
    PROVE  EventsOf(m) \in Seq(Event)
<1>1. /\ m.name \in TakesWho => m.who \in AccountId
      /\ m.name \in TakesOther => m.other \in AccountId
      /\ m.value \in Nat /\ Token \in TokenId /\ Contract \in AccountId
  BY ContractAssumption DEF Typed, MessageType
<1>2. /\ AccountId \subseteq Option(AccountId) /\ None \in Option(AccountId)
  BY Options
<1>3. ASSUME NEW e \in Event PROVE <<e>> \in Seq(Event)
  OBVIOUS
<1>4. CASE m.name = "new"
  <2>1. EventsOf(m) = <<CreatedEvent(Token, Contract, Contract)>>
    BY <1>4 DEF EventsOf
  <2>2. CreatedEvent(Token, Contract, Contract) \in Event
    BY <1>1, <1>2 DEF CreatedEvent, Event
  <2> QED
    BY <1>3, <2>1, <2>2
<1>5. CASE m.name \in {"transfer", "transfer_from", "mint", "burn"}
  <2>1. PICK from \in Option(AccountId), to \in Option(AccountId) :
           EventsOf(m) = <<TransferEvent(Token, from, to, m.value)>>
    <3>1. m.who \in Option(AccountId)
      BY <1>1, <1>2, <1>5 DEF TakesWho
    <3>2. m.name = "transfer_from" => m.other \in Option(AccountId)
      BY <1>1, <1>2, <1>5 DEF TakesOther
    <3>3. Contract \in Option(AccountId)
      BY <1>1, <1>2
    <3>4. CASE m.name = "transfer"
      BY <1>2, <3>1, <3>3, <3>4 DEF EventsOf
    <3>5. CASE m.name = "transfer_from"
      BY <1>2, <3>2, <3>3, <3>5 DEF EventsOf
    <3>6. CASE m.name = "mint"
      BY <1>2, <3>1, <3>6 DEF EventsOf
    <3>7. CASE m.name = "burn"
      BY <1>2, <3>1, <3>7 DEF EventsOf
    <3> QED
      BY <1>5, <3>4, <3>5, <3>6, <3>7
  <2>2. TransferEvent(Token, from, to, m.value) \in Event
    BY <1>1, EventTypes
  <2> QED
    BY <1>3, <2>1, <2>2
<1>6. CASE m.name = "approve"
  <2>1. EventsOf(m) = <<ApprovalEvent(Token, Contract, m.who, m.value)>>
    BY <1>6 DEF EventsOf
  <2>2. ApprovalEvent(Token, Contract, m.who, m.value) \in Event
    BY <1>1, <1>2, <1>6 DEF ApprovalEvent, Event, TakesWho
  <2> QED
    BY <1>3, <2>1, <2>2
<1>7. CASE m.name \notin {"new", "transfer", "transfer_from", "mint", "burn", "approve"}
  <2>1. EventsOf(m) = <<>>
    BY <1>7 DEF EventsOf
  <2> QED
    BY <2>1
<1> QED
  BY <1>4, <1>5, <1>6, <1>7

\* The example contract while its API call is in progress.
LEMMA MessageInProgress ==
    ASSUME Inv, env # None, frame.contract = Contract, frame.stage = "api"
    PROVE  LET m == frame.message IN
           /\ m \in MessageType /\ Typed(m.name, m) /\ m.name # "transfer_ownership"
           /\ Decoded(env.id, env.input) = MessageCall(m)
           /\ MatchedFunction(env.id) = IF IsRead(m.name) THEN "read" ELSE "dispatch"
           /\ EnsureOwner(m, frame.caller) /\ ~ NoOp(m)
<1>1. frame # None
  BY AtWork
<1>2. PICK m : m = frame.message
  OBVIOUS
<1>3. /\ m \in MessageType /\ Typed(m.name, m) /\ m.name # "transfer_ownership"
      /\ Asked = RequestOf(m) /\ EnsureOwner(m, frame.caller) /\ ~ NoOp(m)
  BY <1>1, <1>2 DEF Inv, FrameInv
<1>4. Asked.id = env.id /\ Asked.input = env.input
  BY DEF Asked, Request
<1>5. /\ Decoded(RequestOf(m).id, RequestOf(m).input) = MessageCall(m)
      /\ MatchedFunction(RequestOf(m).id) = IF IsRead(m.name) THEN "read" ELSE "dispatch"
  BY <1>3, MessageRequest
<1> QED
  BY <1>2, <1>3, <1>4, <1>5

\* What is known when a request has returned.
LEMMA Returned ==
    ASSUME Inv, env # None, env.phase = "returned"
    PROVE  /\ env.call # None /\ env.call = Decoded(env.id, env.input) /\ env.status # None
           /\ Succeeded(env.status) <=> env.error = None
           /\ MatchedFunction(env.id) # "dispatch" => env.error = None
           /\ MatchedFunction(env.id) = "read" => env.value = Read(ledger, env.call)
BY DEF Inv, EnvInv

LEMMA ResumeKeeps ==
    ASSUME Inv, Resume
    PROVE  Inv'
<1>1. /\ frame # None /\ env # None /\ env.phase = "returned"
      /\ frame.contract = Contract /\ frame.stage = "api"
  BY DEF Resume, InPhase
<1>2. PICK m : m = frame.message
  OBVIOUS
<1>3. /\ frame \in FrameType /\ env \in EnvType /\ Sound(ledger) /\ Sound(frame.saved)
      /\ frame.work <= frame.spent /\ owner \in Option(AccountId)
  BY <1>1, AtWork
<1>4. /\ m \in MessageType /\ Typed(m.name, m) /\ m.name # "transfer_ownership"
      /\ env.call = MessageCall(m)
      /\ MatchedFunction(env.id) = IF IsRead(m.name) THEN "read" ELSE "dispatch"
      /\ EnsureOwner(m, frame.caller) /\ ~ NoOp(m)
      /\ Succeeded(env.status) <=> env.error = None
  BY <1>1, <1>2, MessageInProgress, Returned
<1>5. frame.events = <<>>
  BY <1>1 DEF Inv, FrameInv
<1>6. EventsOf(m) \in Seq(Event)
  BY <1>4, EventsTyped
<1>7. frame.caller \in Option(AccountId) /\ env.value \in Option(Nat \cup BOOLEAN)
  BY <1>3 DEF FrameType, EnvType
<1>8. /\ None \in Option(Nat \cup BOOLEAN) /\ 0 \in Option(Nat \cup BOOLEAN)
  BY DEF Option
<1>9. CASE IsRead(m.name)
  <2>1. PICK value : value = UnwrapOrDefault(m.name, env)
    OBVIOUS
  <2>2. value \in Option(Nat \cup BOOLEAN)
    BY <1>7, <1>8, <2>1 DEF UnwrapOrDefault
  <2>3. /\ frame' = Done(frame, "Ok", value, <<>>) /\ env' = None /\ ledger' = ledger
        /\ owner' = owner
    <3>1. m.name # "new"
      BY <1>9 DEF IsRead, ApiStateQuery
    <3> QED
      BY <1>2, <1>9, <2>1, <3>1 DEF Resume
  <2>4. ledger = frame.saved
    BY <1>1, <1>4, <1>9 DEF Inv, EffectInv
  <2>5. /\ frame' \in FrameType /\ frame'.stage = "done" /\ frame'.result = "Ok"
        /\ frame'.saved = frame.saved /\ frame'.work = frame.work /\ frame'.spent = frame.spent
        /\ frame'.contract = frame.contract /\ frame'.message = frame.message
    <3>1. "Ok" \in Results
      BY DEF Results
    <3> QED
      BY <1>3, <2>2, <2>3, <3>1, DoneSilently
  <2>6. FailuresLeaveNoTrace'
    BY <2>3, <2>4, <2>5 DEF FailuresLeaveNoTrace
  <2> QED
    BY <1>2, <1>3, <1>4, <2>3, <2>5, <2>6, Finishes
<1>10. CASE ~ IsRead(m.name) /\ ~ Succeeded(env.status)
  <2>1. PICK result : result = Psp22Error(env.status)
    OBVIOUS
  <2>2. result \in Results /\ result # "Ok"
    BY <2>1 DEF Psp22Error, Results
  <2>3. /\ frame' = Done(frame, result, None, <<>>) /\ env' = None /\ ledger' = frame.saved
        /\ owner' = owner
    BY <1>2, <1>10, <2>1 DEF Resume
  <2>4. /\ frame' \in FrameType /\ frame'.stage = "done"
        /\ frame'.saved = frame.saved /\ frame'.work = frame.work /\ frame'.spent = frame.spent
        /\ frame'.contract = frame.contract /\ frame'.message = frame.message
        /\ frame'.events = frame.events
    BY <1>3, <1>8, <2>2, <2>3, DoneSilently
  <2>5. FailuresLeaveNoTrace'
    BY <1>5, <2>3, <2>4 DEF FailuresLeaveNoTrace
  <2> QED
    BY <1>2, <1>3, <1>4, <2>3, <2>4, <2>5, Finishes
<1>11. CASE ~ IsRead(m.name) /\ Succeeded(env.status) /\ ReadsAllowance(m)
  <2>1. PICK request : request = ApiRequest("allowance", Token, AllowanceOf(m)[1],
                                            AllowanceOf(m)[2], 0)
    OBVIOUS
  <2>2. WellFormed(request) /\ m.name # "new"
    BY <1>4, <1>11, <2>1, AllowanceRequest
  <2>3. /\ frame' = [frame EXCEPT !.stage = "allowance", !.events = EventsOf(m)]
        /\ env' = Env(request) /\ ledger' = ledger /\ owner' = owner
    BY <1>2, <1>11, <2>1, <2>2 DEF Resume
  <2>4. /\ frame' \in FrameType /\ frame'.stage = "allowance"
        /\ frame'.saved = frame.saved /\ frame'.work = frame.work /\ frame'.spent = frame.spent
        /\ frame'.contract = frame.contract /\ frame'.message = m /\ frame'.caller = frame.caller
        /\ frame'.events = EventsOf(m)
    BY <1>2, <1>3, <1>6, <2>3 DEF FrameType
  <2>5. /\ env'.id = request.id /\ env'.input = request.input /\ env'.room = request.room
        /\ env'.phase = "called" /\ env'.error = None
    BY <2>3 DEF Env
  <2>6. request \in [id : Code, input : Option(InputType), room : BOOLEAN]
    BY <2>2 DEF WellFormed
  <2>7. env' \in EnvType
    BY <2>3, <2>6 DEF Env, EnvType, Option
  <2>8. env' # None /\ frame' # None /\ env' \in Option(EnvType) /\ frame' \in Option(FrameType)
    BY <2>4, <2>7, NoneAssumption DEF Option
  <2>9. Asked' = request
    BY <2>5, <2>6 DEF Asked, Request
  <2>10. EnvInv'
    BY <2>2, <2>5, <2>8, <2>9 DEF EnvInv
  <2>11. EnsureOwner(frame.message, frame.caller)'
    BY <1>4, <2>3, <2>4 DEF EnsureOwner
  <2>12. FrameInv'
    BY <1>1, <1>3, <1>4, <1>11, <2>1, <2>4, <2>8, <2>9, <2>11 DEF FrameInv
  <2>13. EffectInv'
    <3>1. ledger = Outcome(MessageCall(m)).ledger /\ Outcome(MessageCall(m)).error = None
      BY <1>1, <1>4, <1>11 DEF Inv, EffectInv
    <3>2. Outcome(MessageCall(frame.message))' = Outcome(MessageCall(m))
      BY <2>4 DEF Outcome, MessageCall
    <3> QED
      BY <2>3, <2>4, <2>8, <3>1, <3>2 DEF EffectInv
  <2> QED
    BY <1>3, <2>3, <2>8, <2>10, <2>12, <2>13 DEF Inv
<1>12. CASE ~ IsRead(m.name) /\ Succeeded(env.status) /\ ~ ReadsAllowance(m)
  <2>1. /\ frame' = Done(frame, "Ok", None, EventsOf(m)) /\ env' = None /\ ledger' = ledger
        /\ owner' = IF m.name = "new" THEN frame.caller ELSE owner
    BY <1>2, <1>12 DEF Resume
  <2>2. /\ frame' \in FrameType /\ frame'.stage = "done" /\ frame'.result = "Ok"
        /\ frame'.saved = frame.saved /\ frame'.work = frame.work /\ frame'.spent = frame.spent
        /\ frame'.contract = frame.contract /\ frame'.message = frame.message
        /\ frame'.caller = frame.caller
    <3>1. "Ok" \in Results
      BY DEF Results
    <3> QED
      BY <1>3, <1>6, <1>8, <2>1, <3>1, DoneFields
  <2>3. owner' = frame.caller
    BY <1>4, <1>12, <2>1 DEF EnsureOwner
  <2>4. FailuresLeaveNoTrace'
    BY <2>1, <2>2, <2>3 DEF FailuresLeaveNoTrace
  <2> QED
    BY <1>2, <1>3, <1>4, <1>7, <2>1, <2>2, <2>3, <2>4, Finishes
<1> QED
  BY <1>9, <1>10, <1>11, <1>12

\* What the contract reads again is the allowance there is.
LEMMA AllowanceRead ==
    ASSUME Inv, env # None, env.phase = "returned", frame.stage = "allowance"
    PROVE  LET m == frame.message IN
           /\ UnwrapOrDefault("allowance", env)
                 = allowance(ledger, Token, AllowanceOf(m)[1], AllowanceOf(m)[2])
           /\ UnwrapOrDefault("allowance", env) \in Nat
           /\ env.call.name = "allowance"
<1>1. frame # None /\ ledger \in Ledger
  BY AtWork
<1>2. PICK m : m = frame.message
  OBVIOUS
<1>3. frame.contract = Contract /\ ReadsAllowance(m)
  BY <1>1, <1>2 DEF Inv, FrameInv
<1>4. m \in MessageType /\ Typed(m.name, m)
  BY <1>1, <1>2, <1>3 DEF Inv, FrameInv
<1>5. PICK request : request = ApiRequest("allowance", Token, AllowanceOf(m)[1],
                                          AllowanceOf(m)[2], 0)
  OBVIOUS
<1>6. PICK a \in AccountId, b \in AccountId : a = AllowanceOf(m)[1] /\ b = AllowanceOf(m)[2]
  BY <1>3, <1>4, AllowanceRequest
<1>7. /\ MatchedFunction(request.id) = "read"
      /\ Decoded(request.id, request.input)
            = [pallet |-> "Fungibles", name |-> "allowance", token |-> Token, who |-> a,
               other |-> b, value |-> 0]
  BY <1>3, <1>4, <1>5, <1>6, AllowanceRequest
<1>8. Asked = request
  BY <1>1, <1>2, <1>3, <1>5 DEF Inv, FrameInv
<1>9. env.id = request.id /\ env.input = request.input
  BY <1>8 DEF Asked, Request
<1>10. /\ Succeeded(env.status) /\ env.value = Read(ledger, env.call)
       /\ env.call = [pallet |-> "Fungibles", name |-> "allowance", token |-> Token, who |-> a,
                      other |-> b, value |-> 0]
  <2>1. MatchedFunction(env.id) = "read"
    BY <1>7, <1>9
  <2>2. "read" # "dispatch"
    OBVIOUS
  <2> QED
    BY <1>7, <1>9, <2>1, <2>2, Returned
<1>11. env.value = allowance(ledger, Token, a, b) /\ env.call.name = "allowance"
  BY <1>10 DEF Read
<1>12. UnwrapOrDefault("allowance", env) = env.value
  BY <1>10 DEF UnwrapOrDefault
<1>13. allowance(ledger, Token, a, b) \in Nat
  BY <1>1, Allowances, ContractAssumption
<1> QED
  BY <1>2, <1>6, <1>11, <1>12, <1>13

LEMMA ResumeWithAllowanceKeeps ==
    ASSUME Inv, ResumeWithAllowance
    PROVE  Inv'
<1>1. /\ frame # None /\ env # None /\ env.phase = "returned" /\ frame.stage = "allowance"
      /\ ledger' = ledger /\ owner' = owner /\ env' = None
  BY DEF ResumeWithAllowance, InPhase
<1>2. PICK m : m = frame.message
  OBVIOUS
<1>3. /\ frame \in FrameType /\ Sound(ledger) /\ Sound(frame.saved) /\ ledger \in Ledger
      /\ frame.work <= frame.spent /\ owner \in Option(AccountId)
  BY <1>1, AtWork
<1>4. /\ frame.contract = Contract /\ ReadsAllowance(m)
      /\ m \in MessageType /\ Typed(m.name, m) /\ EnsureOwner(m, frame.caller)
  BY <1>1, <1>2 DEF Inv, FrameInv
<1>5. PICK value \in Nat : value = UnwrapOrDefault("allowance", env)
  BY <1>1, <1>2, AllowanceRead
<1>6. PICK a \in AccountId, b \in AccountId : a = AllowanceOf(m)[1] /\ b = AllowanceOf(m)[2]
  BY <1>4, AllowanceRequest
<1>7. PICK events \in Seq(Event) : events = <<ApprovalEvent(Token, a, b, value)>>
  <2>1. PICK e \in Event : e = ApprovalEvent(Token, a, b, value)
    BY ContractAssumption DEF ApprovalEvent, Event, Option
  <2>2. <<e>> \in Seq(Event)
    OBVIOUS
  <2> QED
    BY <2>1, <2>2
<1>8. frame' = Done(frame, "Ok", None, events)
  BY <1>2, <1>5, <1>6, <1>7 DEF ResumeWithAllowance
<1>9. "Ok" \in Results /\ None \in Option(Nat \cup BOOLEAN)
  BY DEF Results, Option
<1>10. /\ frame' \in FrameType /\ frame'.stage = "done" /\ frame'.result = "Ok"
       /\ frame'.saved = frame.saved /\ frame'.work = frame.work /\ frame'.spent = frame.spent
       /\ frame'.contract = frame.contract /\ frame'.message = frame.message
       /\ frame'.caller = frame.caller
  BY <1>3, <1>8, <1>9, DoneFields
<1>11. owner = frame.caller
  BY <1>4 DEF EnsureOwner, ReadsAllowance, IsRead, ApiStateQuery
<1>12. FailuresLeaveNoTrace'
  BY <1>1, <1>10, <1>11 DEF FailuresLeaveNoTrace
<1> QED
  BY <1>1, <1>2, <1>3, <1>4, <1>10, <1>12, Finishes

LEMMA ResumeRequesterKeeps ==
    ASSUME Inv, ResumeRequester
    PROVE  Inv'
<1>1. /\ frame # None /\ env # None /\ env.phase = "returned" /\ frame.contract = Requester
      /\ ledger' = ledger /\ owner' = owner /\ env' = None
  BY DEF ResumeRequester, InPhase
<1>2. /\ frame \in FrameType /\ env \in EnvType /\ Sound(ledger) /\ Sound(frame.saved)
      /\ frame.work <= frame.spent /\ owner \in Option(AccountId) /\ Contract # Requester
      /\ frame.contract \in AccountId
  BY <1>1, AtWork, ContractAssumption
<1>3. frame.stage = "api"
  BY <1>1, <1>2, AtWork DEF Inv, FrameInv
<1>4. frame.events = <<>>
  BY <1>1, <1>3 DEF Inv, FrameInv
<1>5. PICK result : result = IF Succeeded(env.status) THEN "Ok" ELSE "Status"
  BY Zenon
<1>6. result \in Results /\ (result # "Ok" => ~ Succeeded(env.status))
  BY <1>5 DEF Results
<1>7. env.value \in Option(Nat \cup BOOLEAN)
  BY <1>2 DEF EnvType
<1>8. frame' = Done(frame, result, env.value, <<>>)
  BY <1>5 DEF ResumeRequester
<1>9. /\ frame' \in FrameType /\ frame'.stage = "done" /\ frame'.result = result
      /\ frame'.saved = frame.saved /\ frame'.work = frame.work /\ frame'.spent = frame.spent
      /\ frame'.contract = frame.contract /\ frame'.events = frame.events
  BY <1>2, <1>6, <1>7, <1>8, DoneSilently
<1>10. ~ Succeeded(env.status) => ledger = frame.saved
  <2>1. SUFFICES ASSUME ~ Succeeded(env.status) PROVE ledger = frame.saved
    OBVIOUS
  <2>2. /\ env.call # None /\ env.call = Decoded(env.id, env.input) /\ env.error # None
        /\ MatchedFunction(env.id) = "dispatch"
    BY <1>1, <2>1, Returned
  <2>3. ledger = Outcome(env.call).ledger /\ env.error = Outcome(env.call).error
    BY <1>1, <1>3, <2>2 DEF Inv, EffectInv
  <2>4. env.call \in CallType /\ Typed(env.call.name, env.call)
    BY <1>1, <2>2, CallInProgress
  <2>5. PICK r : r = DispatchCall(frame.saved, frame.contract, env.call)
    OBVIOUS
  <2>6. r.error # None => r.ledger = frame.saved
    BY <1>2, <2>4, <2>5, ExtensionEffect DEF Whole
  <2> QED
    BY <2>2, <2>3, <2>5, <2>6 DEF Outcome
<1>11. FailuresLeaveNoTrace'
  BY <1>1, <1>2, <1>4, <1>6, <1>9, <1>10 DEF FailuresLeaveNoTrace
<1> QED
  BY <1>1, <1>2, <1>9, <1>11, Finishes

LEMMA TrapKeeps ==
    ASSUME Inv, Trap
    PROVE  Inv'
<1>1. /\ frame # None /\ env # None /\ ledger' = frame.saved /\ owner' = owner /\ env' = None
      /\ frame' = [Done(frame, "Trap", None, <<>>) EXCEPT !.events = <<>>]
  BY DEF Trap, InPhase
<1>2. /\ frame \in FrameType /\ Sound(frame.saved) /\ frame.work <= frame.spent
      /\ owner \in Option(AccountId)
  BY <1>1, AtWork
<1>3. PICK g : g = Done(frame, "Trap", None, <<>>)
  OBVIOUS
<1>4. "Trap" \in Results /\ None \in Option(Nat \cup BOOLEAN)
  BY DEF Results, Option
<1>5. /\ g \in FrameType /\ g.stage = "done" /\ g.saved = frame.saved /\ g.work = frame.work
      /\ g.spent = frame.spent /\ g.contract = frame.contract /\ g.message = frame.message
  BY <1>2, <1>3, <1>4, DoneSilently
<1>6. /\ frame' \in FrameType /\ frame'.stage = "done" /\ frame'.saved = frame.saved
      /\ frame'.work = frame.work /\ frame'.spent = frame.spent
      /\ frame'.contract = frame.contract /\ frame'.message = frame.message
      /\ frame'.events = <<>>
  <2>1. PICK nothing \in Seq(Event) : nothing = <<>>
    <3>1. <<>> \in Seq(Event)
      OBVIOUS
    <3> QED
      BY <3>1, Zenon
  <2>2. frame' = [g EXCEPT !.events = nothing]
    BY <1>1, <1>3, <2>1
  <2>3. /\ frame' \in FrameType /\ frame'.stage = "done" /\ frame'.saved = frame.saved
        /\ frame'.work = frame.work /\ frame'.spent = frame.spent
        /\ frame'.contract = frame.contract /\ frame'.message = frame.message
        /\ frame'.events = nothing
    BY <1>5, <2>2 DEF FrameType
  <2> QED
    BY <2>1, <2>3
<1>7. FailuresLeaveNoTrace'
  BY <1>1, <1>6 DEF FailuresLeaveNoTrace
<1>8. frame.contract = Contract =>
         frame.message \in MessageType /\ Typed(frame.message.name, frame.message)
  BY <1>1 DEF Inv, FrameInv
<1> QED
  BY <1>1, <1>2, <1>6, <1>7, <1>8, Finishes

LEMMA LeaveKeeps ==
    ASSUME Inv, Leave
    PROVE  Inv'
<1>1. frame' = None /\ UNCHANGED <<ledger, env, owner>> /\ frame # None /\ frame.stage = "done"
  BY DEF Leave
<1>2. env = None
  BY <1>1 DEF Inv, FrameInv
<1>3. Sound(ledger) /\ owner \in Option(AccountId)
  BY DEF Inv
<1> QED
  BY <1>1, <1>2, <1>3 DEF Inv, FrameInv, EnvInv, EffectInv, Option

\* Nobody is executing a contract: the ledger changes to another sound one.
LEMMA Direct ==
    ASSUME Inv, frame = None, Sound(ledger'), UNCHANGED <<frame, env, owner>>
    PROVE  Inv'
<1>1. env = None /\ owner \in Option(AccountId)
  BY DEF Inv, EnvInv
<1> QED
  BY <1>1 DEF Inv, FrameInv, EnvInv, EffectInv, Option

LEMMA SubmitExtrinsicKeeps ==
    ASSUME Inv, NEW x \in Extrinsic, SubmitExtrinsic(x.origin, x.call)
    PROVE  Inv'
<1>1. frame = None /\ UNCHANGED <<frame, env, owner>>
      /\ ledger' = Dispatch(ledger, x.origin, x.call).ledger
  BY DEF SubmitExtrinsic
<1>2. Sound(ledger) /\ x.origin \in AccountId
  BY ArgumentsAssumption DEF Inv
<1>3. CallOK(x.call)
  BY ArgumentsAssumption DEF CallOK
<1>4. PICK r : r = Dispatch(ledger, x.origin, x.call)
  OBVIOUS
<1>5. Sound(r.ledger)
  BY <1>2, <1>3, <1>4, DispatchEffect DEF Whole
<1> QED
  BY <1>1, <1>4, <1>5, Direct

LEMMA DestroyTokenKeeps ==
    ASSUME Inv, NEW t \in TokenId, DestroyToken(t)
    PROVE  Inv'
<1>1. /\ frame = None /\ UNCHANGED <<frame, env, owner>>
      /\ assets_destroy(ledger, t).error = None /\ ledger' = assets_destroy(ledger, t).ledger
  BY DEF DestroyToken
<1>2. Sound(ledger)
  BY DEF Inv
<1>3. Sound(ledger')
  BY <1>1, <1>2, DestroyEffect
<1> QED
  BY <1>1, <1>3, Direct

LEMMA NewFrame ==
    ASSUME NEW contract \in {Contract, Requester}, NEW caller \in Option(AccountId),
           NEW message \in Option(MessageType), NEW gas \in Nat, ledger \in Ledger,
           NEW f, f = Frame(contract, caller, message, gas)
    PROVE  /\ f \in FrameType /\ f.saved = ledger /\ f.stage = "api" /\ f.events = <<>>
           /\ f.work = 0 /\ f.spent = 0 /\ f.contract = contract /\ f.message = message
           /\ f.caller = caller
BY DEF Frame, FrameType, Option

LEMMA CallRequesterKeeps ==
    ASSUME Inv, NEW request \in Requests, NEW gas \in GasLimit, CallRequester(request, gas)
    PROVE  Inv'
<1>1. frame' = Frame(Requester, None, None, gas) /\ env' = Env(request)
      /\ UNCHANGED <<ledger, owner>>
  BY DEF CallRequester
<1>2. WellFormed(request) /\ gas \in Nat /\ Requester # Contract
  BY ArgumentsAssumption, ContractAssumption
<1>3. ledger \in Ledger
  BY DEF Inv, Sound
<1>4. PICK f : f = Frame(Requester, None, None, gas)
  OBVIOUS
<1>5. None \in Option(AccountId) /\ None \in Option(MessageType)
  BY DEF Option
<1>6. /\ f \in FrameType /\ f.saved = ledger /\ f.stage = "api" /\ f.events = <<>>
      /\ f.work = 0 /\ f.spent = 0 /\ f.contract = Requester
  BY <1>2, <1>3, <1>4, <1>5, NewFrame
<1> QED
  BY <1>1, <1>2, <1>4, <1>6, Starts

LEMMA CallContractKeeps ==
    ASSUME Inv, NEW caller \in Caller, NEW m \in Message, NEW gas \in GasLimit,
           CallContract(caller, m, gas)
    PROVE  Inv'
<1>1. /\ m \in MessageType /\ Typed(m.name, m)
      /\ m.name = "transfer_ownership" => m.who \in AccountId
      /\ gas \in Nat /\ caller \in Option(AccountId)
  BY ArgumentsAssumption, ContractAssumption DEF Option
<1>2. Sound(ledger) /\ ledger \in Ledger /\ owner \in Option(AccountId)
  BY DEF Inv, Sound
<1>3. PICK f : f = Frame(Contract, caller, m, gas)
  OBVIOUS
<1>4. /\ f \in FrameType /\ f.saved = ledger /\ f.stage = "api" /\ f.events = <<>>
      /\ f.work = 0 /\ f.spent = 0 /\ f.contract = Contract /\ f.message = m
      /\ f.caller = caller
  <2>1. m \in Option(MessageType)
    BY <1>1 DEF Option
  <2> QED
    BY <1>1, <1>2, <1>3, <2>1, NewFrame
<1>5. CASE ~ EnsureOwner(m, caller) \/ NoOp(m) \/ m.name = "transfer_ownership"
  <2>1. PICK result \in {"NotOwner", "Ok"} : frame' = Done(f, result, None, <<>>)
    BY <1>3, <1>5 DEF CallContract, NotOwner
  <2>2. env' = None /\ ledger' = ledger /\ owner' \in Option(AccountId)
    <3>1. (owner' = m.who /\ m.name = "transfer_ownership") \/ owner' = owner
      BY DEF CallContract
    <3> QED
      BY <1>1, <1>2, <1>5, <3>1 DEF CallContract, Option
  <2>3. result \in Results /\ None \in Option(Nat \cup BOOLEAN)
    BY DEF Results, Option
  <2>4. /\ frame' \in FrameType /\ frame'.stage = "done" /\ frame'.saved = ledger
        /\ frame'.work = 0 /\ frame'.spent = 0 /\ frame'.message = m /\ frame'.events = <<>>
    BY <1>4, <2>1, <2>3, DoneSilently
  <2>5. FailuresLeaveNoTrace'
    BY <2>2, <2>4 DEF FailuresLeaveNoTrace
  <2> QED
    BY <1>1, <1>2, <2>2, <2>4, <2>5, Finishes
<1>6. CASE EnsureOwner(m, caller) /\ ~ NoOp(m) /\ m.name # "transfer_ownership"
  <2>1. frame' = f /\ env' = Env(RequestOf(m)) /\ UNCHANGED <<ledger, owner>>
    BY <1>3, <1>6 DEF CallContract
  <2>2. WellFormed(RequestOf(m))
    BY <1>1, <1>6, MessageRequest
  <2>3. PICK request : request = RequestOf(m)
    OBVIOUS
  <2> QED
    BY <1>1, <1>4, <1>6, <2>1, <2>2, <2>3, Starts
<1> QED
  BY <1>5, <1>6
-----------------------------------------------------------------------------
(* The invariant *)

\* There is no token, and nobody has a deposit.
LEMMA EmptySound == Sound(EmptyLedger)
<1>1. PICK l : l = EmptyLedger
  OBVIOUS
<1>2. /\ l.asset = [t \in TokenId |-> None] /\ l.metadata = [t \in TokenId |-> None]
      /\ l.account = [t \in TokenId |-> [a \in AccountId |-> 0]]
      /\ l.approval = [t \in TokenId |-> [a \in AccountId |-> [b \in AccountId |-> None]]]
      /\ l.bal = [free |-> InitialFree, reserved |-> [a \in AccountId |-> 0]]
  BY <1>1 DEF EmptyLedger
<1>3. 0 \in Balance /\ InitialFree \in [AccountId -> Nat]
  BY AssetsAssumption, ContractAssumption DEF Balance
<1>4. l \in Ledger
  <2>1. l = [asset |-> l.asset, account |-> l.account, approval |-> l.approval,
             metadata |-> l.metadata, bal |-> l.bal]
    BY <1>1 DEF EmptyLedger
  <2>2. l.bal \in BalanceSheet(AccountId)
    BY <1>2, <1>3 DEF BalanceSheet
  <2>3. /\ l.asset \in [TokenId -> Option(AssetDetails)]
        /\ l.metadata \in [TokenId -> Option(AssetMetadata)]
    BY <1>2 DEF Option
  <2>4. l.account \in [TokenId -> [AccountId -> Balance]]
    BY <1>2, <1>3
  <2>5. l.approval \in [TokenId -> [AccountId -> [AccountId -> Option(Balance)]]]
    BY <1>2 DEF Option
  <2> QED
    BY <2>1, <2>2, <2>3, <2>4, <2>5 DEF Ledger
<1>5. ASSUME NEW t \in TokenId PROVE l.asset[t] = None /\ Blank(l, t)
  BY <1>2 DEF Blank
<1>6. ASSUME NEW a \in AccountId PROVE Funded(l, a)
  <2>1. Given(l, a) = {} /\ Owned(l, a) = {}
    BY <1>2 DEF Given, Owned
  <2>2. Described(l, a) = {}
    BY <2>1 DEF Described
  <2>3. Cardinality({}) = 0
    BY FS_EmptySet
  <2>4. Deposits(l, a) = 0
    BY <2>1, <2>2, <2>3, AssetsAssumption DEF Deposits
  <2>5. l.bal.reserved[a] = 0 /\ l.bal.free[a] = InitialFree[a] /\ InitialFree[a] \in Nat
    BY <1>2, <1>3
  <2> QED
    BY <2>4, <2>5 DEF Funded
<1> QED
  BY <1>1, <1>4, <1>5, <1>6 DEF Sound

LEMMA InvInit == Init => Inv
<1> SUFFICES ASSUME Init PROVE Inv
  OBVIOUS
<1>1. ledger = EmptyLedger /\ frame = None /\ env = None /\ owner = None
  BY DEF Init
<1> QED
  BY <1>1, EmptySound DEF Inv, FrameInv, EnvInv, EffectInv, Option

LEMMA InvNext == Inv /\ [Next]_vars => Inv'
<1> SUFFICES ASSUME Inv, [Next]_vars PROVE Inv'
  OBVIOUS
<1>1. CASE ExtensionStep /\ UNCHANGED owner
  BY <1>1, ExtensionStepKeeps
<1>2. CASE Resume
  BY <1>2, ResumeKeeps
<1>3. CASE ResumeWithAllowance
  BY <1>3, ResumeWithAllowanceKeeps
<1>4. CASE ResumeRequester
  BY <1>4, ResumeRequesterKeeps
<1>5. CASE Trap
  BY <1>5, TrapKeeps
<1>6. CASE Leave
  BY <1>6, LeaveKeeps
<1>7. ASSUME NEW gas \in GasLimit, NEW caller \in Caller, NEW m \in Message,
             CallContract(caller, m, gas)
      PROVE  Inv'
  BY <1>7, CallContractKeeps
<1>8. ASSUME NEW gas \in GasLimit, NEW request \in Requests, CallRequester(request, gas)
      PROVE  Inv'
  BY <1>8, CallRequesterKeeps
<1>9. ASSUME NEW x \in Extrinsic, SubmitExtrinsic(x.origin, x.call)
      PROVE  Inv'
  BY <1>9, SubmitExtrinsicKeeps
<1>10. ASSUME NEW t \in TokenId, DestroyToken(t)
       PROVE  Inv'
  BY <1>10, DestroyTokenKeeps
<1>11. CASE UNCHANGED vars
  <2>1. UNCHANGED <<ledger, frame, env, owner>>
    BY <1>11 DEF vars
  <2> QED
    BY <2>1 DEF Inv, FrameInv, EnvInv, EffectInv, Asked, Outcome, EnsureOwner,
       FailuresLeaveNoTrace
<1>12. CASE Pipeline
  BY <1>1, <1>2, <1>3, <1>4, <1>5, <1>6, <1>12 DEF Pipeline
<1>13. CASE Users
  BY <1>7, <1>8, <1>9, <1>10, <1>13 DEF Users
<1> QED
  BY <1>11, <1>12, <1>13 DEF Next

LEMMA InvAlways == Spec => []Inv
BY InvInit, InvNext, PTL DEF Spec

\* Whatever accounts and contracts do, the ledger, the contract's owner and the contract
\* call in progress have their types.
THEOREM TypesKept == Spec => []TypeOK
<1>1. Inv => TypeOK
  <2> SUFFICES ASSUME Inv PROVE TypeOK
    OBVIOUS
  <2>1. ledger \in Ledger /\ owner \in Option(AccountId) /\ (env # None => frame # None)
    BY DEF Inv, Sound, EnvInv
  <2>2. frame # None => frame \in FrameType
    BY DEF Inv, Option
  <2> QED
    BY <2>1, <2>2 DEF TypeOK, FrameType
<1> QED
  BY <1>1, InvAlways, PTL

\* The native funds of every account are its initial ones, and what is reserved is exactly
\* the deposits for what is stored, through every approval that is cancelled, lowered, spent
\* or destroyed with its token.
THEOREM DepositsAreExact == Spec => []DepositsExact
<1>1. Inv => DepositsExact
  BY DEF Inv, Sound, Funded, DepositsExact
<1> QED
  BY <1>1, InvAlways, PTL

\* No work of the runtime for a contract is ever unpaid: not before the charge, and not
\* after the refund of what a call did not use.
THEOREM WorkIsPaid == Spec => []WorkPaid
<1>1. Inv => WorkPaid
  BY DEF Inv, FrameInv, WorkPaid
<1> QED
  BY <1>1, InvAlways, PTL

\* A contract call that fails leaves the ledger as it was and no event, wherever it fails;
\* one that changes something was made by the owner.
THEOREM FailuresAreUndone == Spec => []FailuresLeaveNoTrace
<1>1. Inv => FailuresLeaveNoTrace
  BY DEF Inv, EffectInv, FailuresLeaveNoTrace
<1> QED
  BY <1>1, InvAlways, PTL

\* The second half of lowering an allowance cannot fail: the deposit that cancelling it
\* released is there to be reserved again.
THEOREM LoweringNeverFails == Spec => []LoweringSucceeds
<1>1. Inv => LoweringSucceeds
  <2> SUFFICES ASSUME Inv, env # None, env.phase = "dispatch", env.call.pallet = "Fungibles",
                      Live(ledger, env.call.token),
                      \/ /\ env.call.name = "approve"
                         /\ env.call.value < allowance(ledger, env.call.token, frame.contract,
                                                       env.call.who)
                      \/ /\ env.call.name = "decrease_allowance"
                         /\ env.call.value <= allowance(ledger, env.call.token, frame.contract,
                                                        env.call.who)
               PROVE  Dispatch(ledger, frame.contract, env.call).error = None
    BY DEF LoweringSucceeds
  <2>1. PICK c : c = env.call
    OBVIOUS
  <2>2. Sound(ledger) /\ frame.contract \in AccountId
    BY AtWork
  <2>3. env.call # None /\ env.call = Decoded(env.id, env.input)
    BY EnvFacts
  <2>4. c \in CallType /\ Typed(c.name, c)
    BY <2>1, <2>3, CallInProgress
  <2>5. c.token \in TokenId /\ c.who \in AccountId /\ c.value \in Balance
    BY <2>1, <2>4 DEF CallType, Typed, TakesWho
  <2>6. PICK o : o = frame.contract
    OBVIOUS
  <2>7. PICK r : r = Dispatchable(ledger, o, c)
    OBVIOUS
  <2>8. r.error = None
    <3>1. CASE c.name = "approve"
      <4>1. r = approve(ledger, o, c.token, c.who, c.value)
        BY <2>7, <3>1 DEF Dispatchable
      <4> QED
        BY <2>1, <2>2, <2>5, <2>6, <3>1, <4>1, ApproveCall
    <3>2. CASE c.name = "decrease_allowance"
      <4>1. r = decrease_allowance(ledger, o, c.token, c.who, c.value)
        BY <2>7, <3>2 DEF Dispatchable
      <4> QED
        BY <2>1, <2>2, <2>5, <2>6, <3>2, <4>1, DecreaseCall
    <3> QED
      BY <2>1, <3>1, <3>2
  <2> QED
    BY <2>1, <2>6, <2>7, <2>8 DEF Dispatch
<1> QED
  BY <1>1, InvAlways, PTL

\* What a contract learns of its request is what happened: the API functions of pop-api name
\* the calls of the pallet, and the status code carries the error of the runtime.
THEOREM StatusIsTrue == Spec => []StatusTrue
<1>1. Inv => StatusTrue
  <2> SUFFICES ASSUME Inv, env # None, env.phase = "returned"
               PROVE  /\ Succeeded(env.status) <=> env.error = None
                      /\ env.error # None => FromStatus(env.status) = V0Error(env.error)
                      /\ frame.contract = Contract =>
                            env.call.name = CASE frame.stage = "allowance" -> "allowance"
                                              [] frame.message.name = "new" -> "create"
                                              [] OTHER -> frame.message.name
    BY DEF StatusTrue
  <2>1. /\ Succeeded(env.status) <=> env.error = None
        /\ env.error # None => FromStatus(env.status) = V0Error(env.error)
    BY DEF Inv, EnvInv
  <2>2. frame.stage \in {"api", "allowance"}
    BY AtWork
  <2>3. CASE frame.stage = "allowance"
    <3>1. env.call.name = "allowance"
      BY <2>3, AllowanceRead
    <3>2. frame.contract = Contract /\ ReadsAllowance(frame.message)
      BY <2>3, AtWork DEF Inv, FrameInv
    <3>3. frame.message.name # "new"
      BY <3>2 DEF ReadsAllowance
    <3> QED
      BY <2>1, <2>3, <3>1, <3>3
  <2>4. CASE frame.stage = "api" /\ frame.contract = Contract
    <3>1. env.call = MessageCall(frame.message)
      BY <2>4, MessageInProgress, Returned
    <3>2. env.call.name = IF frame.message.name = "new" THEN "create" ELSE frame.message.name
      BY <3>1 DEF MessageCall
    <3> QED
      BY <2>1, <2>4, <3>2
  <2> QED
    BY <2>1, <2>2, <2>3, <2>4
<1> QED
  BY <1>1, InvAlways, PTL
-----------------------------------------------------------------------------
(* What a contract may do to others *)

\* Fewer approvals, tokens and metadata cost no more deposit.
LEMMA FewerDeposits ==
    ASSUME NEW l, NEW k, NEW a, Given(k, a) \subseteq Given(l, a),
           Owned(k, a) \subseteq Owned(l, a), Described(k, a) \subseteq Described(l, a)
    PROVE  Deposits(k, a) <= Deposits(l, a)
<1>1. /\ IsFiniteSet(Given(l, a)) /\ IsFiniteSet(Owned(l, a)) /\ IsFiniteSet(Described(l, a))
  BY DepositSets
<1>2. PICK g \in Nat, h \in Nat, i \in Nat :
         g = Cardinality(Given(k, a)) /\ h = Cardinality(Owned(k, a))
         /\ i = Cardinality(Described(k, a))
  BY DepositSets
<1>3. PICK x \in Nat, y \in Nat, z \in Nat :
         x = Cardinality(Given(l, a)) /\ y = Cardinality(Owned(l, a))
         /\ z = Cardinality(Described(l, a))
  BY DepositSets
<1>4. g <= x /\ h <= y /\ i <= z
  BY <1>1, <1>2, <1>3, FS_Subset
<1>5. \A d \in Nat, m \in Nat, n \in Nat : m <= n => d * m \in Nat /\ d * n \in Nat /\ d * m <= d * n
  OBVIOUS
<1>6. /\ ApprovalDeposit * g \in Nat /\ ApprovalDeposit * x \in Nat
      /\ ApprovalDeposit * g <= ApprovalDeposit * x
      /\ AssetDeposit * h \in Nat /\ AssetDeposit * y \in Nat
      /\ AssetDeposit * h <= AssetDeposit * y
      /\ MetadataDepositBase * i \in Nat /\ MetadataDepositBase * z \in Nat
      /\ MetadataDepositBase * i <= MetadataDepositBase * z
  BY <1>4, <1>5, AssetsAssumption
<1>7. \A p, q, r, u, v, w \in Nat : p <= u /\ q <= v /\ r <= w => p + q + r <= u + v + w
  OBVIOUS
<1>8. /\ Deposits(k, a) = ApprovalDeposit * g + AssetDeposit * h + MetadataDepositBase * i
      /\ Deposits(l, a) = ApprovalDeposit * x + AssetDeposit * y + MetadataDepositBase * z
  BY <1>2, <1>3 DEF Deposits
<1> QED
  BY <1>6, <1>7, <1>8

\* What the effect of a call by o on ledger l, which it turns into k, may be to account a.
Spares(l, k, o, t, a) ==
    /\ k.bal.reserved[a] <= l.bal.reserved[a]
    /\ k.account[t][a] < l.account[t][a] =>
          \/ l.asset[t].admin = o
          \/ /\ allowance(k, t, a, o) < allowance(l, t, a, o)
             /\ SatSub(l.account[t][a] - k.account[t][a],
                       allowance(l, t, a, o) - allowance(k, t, a, o)) < l.asset[t].min_balance
    /\ \A b \in AccountId :
          allowance(k, t, a, b) # allowance(l, t, a, b) =>
              b = o /\ allowance(k, t, a, b) < allowance(l, t, a, b)

\* Owners and metadata of tokens are the same, so that deposits change with approvals only.
LEMMA SameOwners ==
    ASSUME NEW l, NEW k, NEW a,
           \A t \in TokenId : /\ k.asset[t] = None <=> l.asset[t] = None
                              /\ l.asset[t] # None => k.asset[t].owner = l.asset[t].owner
                              /\ k.metadata[t] = l.metadata[t]
    PROVE  Owned(k, a) \subseteq Owned(l, a) /\ Described(k, a) \subseteq Described(l, a)
<1>1. Owned(k, a) = Owned(l, a)
  BY DEF Owned
<1> QED
  BY <1>1 DEF Described, Owned

\* No account but that of the caller has more on deposit after a call.
LEMMA ReservesNobodyElse ==
    ASSUME NEW l, Sound(l), NEW k, Sound(k), NEW o \in AccountId, NEW c, CallOK(c),
           Effect(l, o, c, k), OnlyToken(l, k, c.token), NEW a \in AccountId, a # o
    PROVE  k.bal.reserved[a] <= l.bal.reserved[a]
<1> DEFINE t == c.token
<1>1. l \in Ledger /\ k \in Ledger /\ t \in TokenId
  BY DEF Sound, CallOK
<1>2. k.bal.reserved[a] \in Nat /\ l.bal.reserved[a] \in Nat
  BY <1>1, Amounts
<1>3. k.bal.reserved[a] = Deposits(k, a) /\ l.bal.reserved[a] = Deposits(l, a)
  BY DEF Sound, Funded
<1>4. ASSUME \A u \in TokenId, b \in AccountId : k.approval[u][a][b] # None => l.approval[u][a][b] # None,
             \A u \in TokenId : /\ k.asset[u] = None <=> l.asset[u] = None
                                /\ l.asset[u] # None => k.asset[u].owner = l.asset[u].owner
                                /\ k.metadata[u] = l.metadata[u]
      PROVE  k.bal.reserved[a] <= l.bal.reserved[a]
  <2>1. Given(k, a) \subseteq Given(l, a)
    BY <1>4 DEF Given
  <2>2. Owned(k, a) \subseteq Owned(l, a) /\ Described(k, a) \subseteq Described(l, a)
    BY <1>4, SameOwners
  <2> QED
    BY <1>3, <2>1, <2>2, FewerDeposits
<1>5. CASE k = l
  BY <1>2, <1>5
<1>6. CASE c.name = "transfer" /\ k # l
  <2>1. k.approval = l.approval /\ k.asset = l.asset /\ k.metadata = l.metadata
    BY <1>1, <1>6 DEF Effect, MovedIn, Ledger
  <2> QED
    BY <1>4, <2>1
<1>7. CASE c.name = "transfer_from"
  <2>1. PICK x : k.approval = [l.approval EXCEPT ![t][c.who][o] = x]
    BY <1>7 DEF Effect, SpentIn
  <2>2. l.approval[t][c.who][o] # None /\ k.asset = l.asset /\ k.metadata = l.metadata
    BY <1>7 DEF Effect, SpentIn
  <2>3. c.who \in AccountId
    BY <1>7 DEF CallOK, Typed, TakesWho
  <2>4. ASSUME NEW u \in TokenId, NEW b \in AccountId, k.approval[u][a][b] # None
        PROVE  l.approval[u][a][b] # None
    <3>1. l.approval \in [TokenId -> [AccountId -> [AccountId -> Option(Balance)]]]
      BY <1>1, LedgerParts
    <3> QED
      BY <1>1, <2>1, <2>2, <2>3, <2>4, <3>1
  <2> QED
    BY <1>4, <2>2, <2>4
<1>8. CASE c.name \in {"approve", "increase_allowance", "decrease_allowance"} /\ k # l
  <2>1. \E v : AllowedIn(l, k, t, o, c.who, v)
    BY <1>8 DEF Effect
  <2>2. PICK x : k.approval = [l.approval EXCEPT ![t][o][c.who] = x]
    BY <1>8, <2>1 DEF AllowedIn
  <2>3. k.asset = l.asset /\ k.metadata = l.metadata
    BY <1>8, <2>1 DEF AllowedIn
  <2>4. \A u \in TokenId : k.approval[u][a] = l.approval[u][a]
    BY <1>1, <2>2, LedgerParts
  <2> QED
    BY <1>4, <2>3, <2>4
<1>9. CASE c.name = "create"
  <2>1. CreatedIn(l, k, t, o, c.who, c.value)
    BY <1>9 DEF Effect
  <2>2. k.approval = l.approval /\ k.metadata = l.metadata /\ l.asset[t] = None
    BY <2>1 DEF CreatedIn
  <2>3. k.asset[t].owner = o /\ \A u \in TokenId \ {t} : k.asset[u] = l.asset[u]
    BY <1>1, <2>1, LedgerParts DEF CreatedIn
  <2>4. Given(k, a) \subseteq Given(l, a)
    BY <2>2 DEF Given
  <2>5. Owned(k, a) \subseteq Owned(l, a)
    BY <2>3 DEF Owned
  <2>6. Described(k, a) \subseteq Described(l, a)
    BY <2>2, <2>5 DEF Described
  <2> QED
    BY <1>3, <2>4, <2>5, <2>6, FewerDeposits
<1>10. CASE c.name \in {"start_destroy", "mint", "burn"} /\ k # l
  <2>1. StoppedIn(l, k, t) \/ MintedIn(l, k, t, c.who, c.value) \/ BurntIn(l, k, t, c.who, c.value)
    BY <1>10 DEF Effect
  <2>2. k.bal = l.bal
    BY <2>1 DEF StoppedIn, MintedIn, BurntIn
  <2> QED
    BY <1>2, <2>2
<1>11. CASE c.name \in {"set_metadata", "clear_metadata"}
  BY <1>2, <1>11 DEF Effect, DescribedIn
<1> QED
  BY <1>5, <1>6, <1>7, <1>8, <1>9, <1>10, <1>11 DEF CallOK, CallIndex

\* A call acts for its caller.
LEMMA CallSpares ==
    ASSUME NEW l, Sound(l), NEW k, Sound(k), NEW o \in AccountId, NEW c, CallOK(c),
           Effect(l, o, c, k), OnlyToken(l, k, c.token), NEW t \in TokenId, NEW a \in AccountId,
           a # o
    PROVE  Spares(l, k, o, t, a)
<1>1. l \in Ledger /\ k \in Ledger /\ c.token \in TokenId /\ c.value \in Nat
  BY DEF Sound, CallOK
<1>2. k.bal.reserved[a] <= l.bal.reserved[a]
  BY ReservesNobodyElse
<1>3. l.account[t][a] \in Nat /\ k.account[t][a] \in Nat
  BY <1>1, Amounts
<1>4. /\ c.name \in TakesWho => c.who \in AccountId
      /\ c.name \in TakesOther => c.other \in AccountId
  BY DEF CallOK, Typed
<1>5. ASSUME k.account[t] = l.account[t], k.approval[t] = l.approval[t]
      PROVE  Spares(l, k, o, t, a)
  BY <1>2, <1>3, <1>5 DEF Spares, allowance
<1>6. CASE t # c.token
  BY <1>5, <1>6 DEF OnlyToken
<1>7. CASE k = l
  BY <1>5, <1>7
<1>8. CASE t = c.token /\ c.name = "transfer" /\ k # l
  <2>1. PICK w \in AccountId, n \in Nat, keep \in BOOLEAN : MovedIn(l, k, t, o, w, n, keep)
    BY <1>1, <1>4, <1>8 DEF Effect, TakesWho
  <2>2. PICK debit \in Nat : /\ debit = n + Dust(l, t, o, n) /\ debit <= l.account[t][o]
                             /\ k.account[t] = Shifted(l.account[t], o, w, debit)
    BY <2>1, MovedParts
  <2>3. k.approval = l.approval
    BY <2>1, MovedParts
  <2>4. l.account[t] \in [AccountId -> Balance]
    BY <1>1, LedgerParts
  <2>5. k.account[t][a] >= l.account[t][a]
    BY <1>3, <2>2, <2>4 DEF Shifted
  <2> QED
    BY <1>2, <1>3, <2>3, <2>5 DEF Spares, allowance
<1>9. CASE t = c.token /\ c.name = "transfer_from"
  <2>1. SpentIn(l, k, t, o, c.who, c.other, c.value) /\ c.who \in AccountId /\ c.other \in AccountId
    BY <1>4, <1>9 DEF Effect, TakesWho, TakesOther
  <2>2. PICK h \in Nat : h = allowance(l, t, c.who, o) /\ c.value <= h /\ h \in Balance
    BY <1>1, <2>1, Allowances DEF SpentIn
  <2>3. PICK x : /\ k.approval = [l.approval EXCEPT ![t][c.who][o] = x]
                 /\ x = IF h = c.value THEN None ELSE h - c.value
    BY <2>1, <2>2 DEF SpentIn
  <2>4. l.approval \in [TokenId -> [AccountId -> [AccountId -> Option(Balance)]]]
    BY <1>1, LedgerParts
  <2>5. allowance(k, t, c.who, o) = h - c.value
    <3>1. k.approval[t][c.who][o] = x
      BY <2>1, <2>3, <2>4
    <3>2. h - c.value # None
      BY <1>1, <2>2, AssetsAssumption
    <3> QED
      BY <1>1, <2>2, <2>3, <3>1, <3>2 DEF allowance
  <2>6. ASSUME NEW b \in AccountId, a # c.who \/ b # o
        PROVE  allowance(k, t, a, b) = allowance(l, t, a, b)
    <3>1. k.approval[t][a][b] = l.approval[t][a][b]
      BY <2>1, <2>3, <2>4, <2>6
    <3> QED
      BY <3>1 DEF allowance
  <2>7. CASE k.account = l.account
    <3>1. ASSUME NEW b \in AccountId, allowance(k, t, a, b) # allowance(l, t, a, b)
          PROVE  b = o /\ allowance(k, t, a, b) < allowance(l, t, a, b)
      BY <1>1, <2>2, <2>5, <2>6, <3>1
    <3> QED
      BY <1>2, <1>3, <2>7, <3>1 DEF Spares
  <2>8. CASE k.account # l.account
    <3>1. PICK j : MovedIn(l, j, t, c.who, c.other, c.value, FALSE) /\ k.account = j.account
      BY <2>1, <2>8 DEF SpentIn
    <3> PICK from \in AccountId, to \in AccountId, n \in Nat :
           from = c.who /\ to = c.other /\ n = c.value
      BY <1>1, <2>1
    <3>2. PICK debit \in Nat : /\ debit = c.value + Dust(l, t, c.who, c.value)
                               /\ k.account[t] = Shifted(l.account[t], c.who, c.other, debit)
                               /\ debit <= l.account[t][c.who]
      <4>1. PICK keep \in BOOLEAN : MovedIn(l, j, t, from, to, n, keep)
        BY <3>1
      <4>2. \E debit \in Nat : /\ debit = n + Dust(l, t, from, n) /\ debit <= l.account[t][from]
                               /\ j.account[t] = Shifted(l.account[t], from, to, debit)
        BY <4>1, MovedParts
      <4> QED
        BY <3>1, <4>2
    <3>3. /\ c.value > 0 /\ c.who # c.other /\ l.asset[t] # None
          /\ c.value <= l.account[t][c.who]
      BY <3>1 DEF MovedIn, Live
    <3>4. l.account[t] \in [AccountId -> Balance] /\ l.asset[t].min_balance \in Nat
          /\ l.account[t][c.who] \in Nat
      BY <1>1, <2>1, <3>3, LedgerParts, Amounts
    <3>5. l.asset[t].min_balance > 0
      BY <3>3 DEF Sound, Counted
    <3>6. Dust(l, t, c.who, c.value) \in Nat /\ Dust(l, t, c.who, c.value) < l.asset[t].min_balance
      <4>1. Dust(l, t, c.who, c.value) \in Nat
        BY <1>1, <2>1, <3>3, DustType
      <4> QED
        BY <1>1, <3>3, <3>4, <3>5, <4>1 DEF Dust
    <3>7. ASSUME NEW b \in AccountId, allowance(k, t, a, b) # allowance(l, t, a, b)
          PROVE  b = o /\ allowance(k, t, a, b) < allowance(l, t, a, b)
      BY <1>1, <2>2, <2>5, <2>6, <3>3, <3>7
    <3>8. CASE a # c.who
      <4>1. k.account[t][a] >= l.account[t][a]
        BY <1>3, <3>2, <3>4, <3>8 DEF Shifted
      <4> QED
        BY <1>2, <1>3, <3>7, <4>1 DEF Spares
    <3>9. CASE a = c.who
      <4>1. k.account[t][a] = l.account[t][a] - debit
        BY <2>1, <3>2, <3>3, <3>4, <3>9 DEF Shifted
      <4>2. allowance(k, t, a, o) < allowance(l, t, a, o)
        BY <1>1, <2>2, <2>5, <3>3, <3>9
      <4>3. /\ l.account[t][a] - k.account[t][a] = debit
            /\ allowance(l, t, a, o) - allowance(k, t, a, o) = c.value
        BY <1>1, <1>3, <2>2, <2>5, <3>9, <4>1
      <4>4. SatSub(debit, c.value) < l.asset[t].min_balance
        BY <1>1, <3>2, <3>6 DEF SatSub
      <4> QED
        BY <1>2, <3>7, <4>2, <4>3, <4>4 DEF Spares
    <3> QED
      BY <3>8, <3>9
  <2> QED
    BY <2>7, <2>8
<1>10. CASE /\ t = c.token /\ k # l
            /\ c.name \in {"approve", "increase_allowance", "decrease_allowance"}
  <2>1. \E v : AllowedIn(l, k, t, o, c.who, v)
    BY <1>10 DEF Effect
  <2>2. PICK x : k.approval = [l.approval EXCEPT ![t][o][c.who] = x]
    BY <1>10, <2>1 DEF AllowedIn
  <2>3. k.account = l.account
    BY <1>10, <2>1 DEF AllowedIn
  <2>4. k.approval[t][a] = l.approval[t][a]
    BY <1>1, <2>2, LedgerParts
  <2> QED
    BY <1>2, <1>3, <2>3, <2>4 DEF Spares, allowance
<1>11. CASE t = c.token /\ c.name \in {"create", "start_destroy", "set_metadata", "clear_metadata"}
  <2>1. k.account = l.account /\ k.approval = l.approval
    BY <1>11 DEF Effect, CreatedIn, StoppedIn, DescribedIn
  <2> QED
    BY <1>5, <2>1
<1>12. CASE t = c.token /\ c.name = "mint" /\ k # l
  <2>1. MintedIn(l, k, t, c.who, c.value) /\ c.who \in AccountId
    BY <1>4, <1>12 DEF Effect, TakesWho
  <2>2. k.approval = l.approval
    BY <2>1 DEF MintedIn
  <2>3. k.account[t] = [l.account[t] EXCEPT ![c.who] = l.account[t][c.who] + c.value]
    BY <1>1, <2>1, LedgerParts DEF MintedIn
  <2>4. k.account[t][a] >= l.account[t][a]
    BY <1>1, <1>3, <2>1, <2>3, LedgerParts
  <2> QED
    BY <1>2, <1>3, <2>2, <2>4 DEF Spares, allowance
<1>13. CASE t = c.token /\ c.name = "burn" /\ k # l
  <2>1. BurntIn(l, k, t, c.who, c.value) /\ l.asset[t].admin = o
    BY <1>13 DEF Effect
  <2>2. k.approval = l.approval
    BY <2>1 DEF BurntIn
  <2> QED
    BY <1>2, <2>1, <2>2 DEF Spares, allowance
<1> QED
  BY <1>6, <1>7, <1>8, <1>9, <1>10, <1>11, <1>12, <1>13 DEF CallOK, CallIndex

\* In the phase "dispatch" only the dispatch changes the ledger.
LEMMA OnlyDispatches ==
    ASSUME Inv, InPhase("dispatch"), [Next]_vars
    PROVE  ledger' = ledger \/ DispatchRuntimeCall
<1>1. frame # None /\ env # None /\ env.phase = "dispatch"
  BY DEF InPhase
<1>2. frame.stage # "done"
  BY <1>1, AtWork
<1>3. CASE UNCHANGED vars
  BY <1>3 DEF vars
<1>4. CASE Pipeline
  BY <1>1, <1>2, <1>4 DEF Pipeline, ExtensionStep, ExtensionCall, DecodeInput, ChargeForDispatch,
     ConvertResult, ChargeForRead, ReadRuntimeState, WriteOutput, Resume, ResumeWithAllowance,
     ResumeRequester, Trap, Leave, InPhase
<1>5. CASE Users
  BY <1>1, <1>5 DEF Users, CallContract, CallRequester, SubmitExtrinsic, DestroyToken
<1> QED
  BY <1>3, <1>4, <1>5 DEF Next

\* A step from the phase "dispatch" spares every account but the contract.
LEMMA ActsStep ==
    ASSUME Inv, [Next]_vars, InPhase("dispatch"), NEW t \in TokenId,
           NEW a \in AccountId \ {frame.contract}
    PROVE  Spares(ledger, ledger', frame.contract, t, a)
<1>1. frame # None /\ env # None /\ env.phase = "dispatch"
  BY DEF InPhase
<1>2. ledger \in Ledger /\ Sound(ledger) /\ frame.contract \in AccountId
  BY <1>1, AtWork
<1>3. CASE ledger' = ledger
  <2>1. ledger.bal.reserved[a] \in Nat /\ ledger.account[t][a] \in Nat
    BY <1>2, Amounts
  <2> QED
    BY <1>3, <2>1 DEF Spares
<1>4. CASE DispatchRuntimeCall
  <2>1. env.call # None /\ env.call = Decoded(env.id, env.input)
    BY <1>1, EnvFacts
  <2>2. env.call \in CallType /\ Typed(env.call.name, env.call)
    BY <1>1, <2>1, CallInProgress
  <2>3. PICK r : r = DispatchCall(ledger, frame.contract, env.call)
    OBVIOUS
  <2>4. ledger' = r.ledger
    BY <1>4, <2>3 DEF DispatchRuntimeCall
  <2>5. /\ Whole(ledger, frame.contract, env.call, r, PreDispatchWeight(env.call))
        /\ r.error = None => env.call.name \in DOMAIN CallIndex
    BY <1>2, <2>2, <2>3, ExtensionEffect
  <2>6. CASE r.error # None
    BY <1>3, <2>4, <2>5, <2>6 DEF Whole
  <2>7. CASE r.error = None
    <3>1. CallOK(env.call)
      BY <2>2, <2>5, <2>7 DEF CallOK, CallType
    <3>2. /\ Sound(r.ledger) /\ Effect(ledger, frame.contract, env.call, r.ledger)
          /\ OnlyToken(ledger, r.ledger, env.call.token)
      BY <2>5, <2>7 DEF Whole
    <3> QED
      BY <1>2, <2>4, <3>1, <3>2, CallSpares
  <2> QED
    BY <2>6, <2>7
<1> QED
  BY <1>3, <1>4, OnlyDispatches

\* A contract acts for itself through the API (fungibles/mod.rs dispatches with the contract's
\* own signed origin): it lowers another account's balance only as the admin of the token or
\* by an allowance that it uses up, but for dust, changes only allowances that it gave or
\* spends, and reserves nobody else's funds. The effect of each call spares the
\* others (CallSpares); nothing else changes the ledger in the phase "dispatch".
THEOREM ContractsActForThemselves == Spec => ActsForItself
<1>1. Inv /\ [Next]_vars =>
        [InPhase("dispatch") =>
          LET me == frame.contract IN
          \A t \in TokenId, a \in AccountId \ {me} :
              /\ ledger'.bal.reserved[a] <= ledger.bal.reserved[a]
              /\ ledger'.account[t][a] < ledger.account[t][a] =>
                    \/ ledger.asset[t].admin = me
                    \/ /\ allowance(ledger', t, a, me) < allowance(ledger, t, a, me)
                       /\ SatSub(ledger.account[t][a] - ledger'.account[t][a],
                                 allowance(ledger, t, a, me) - allowance(ledger', t, a, me))
                             < ledger.asset[t].min_balance
              /\ \A b \in AccountId :
                    allowance(ledger', t, a, b) # allowance(ledger, t, a, b) =>
                        b = me /\ allowance(ledger', t, a, b) < allowance(ledger, t, a, b)]_vars
  <2> SUFFICES ASSUME Inv, [Next]_vars, InPhase("dispatch"), NEW t \in TokenId,
                      NEW a \in AccountId \ {frame.contract}
               PROVE  Spares(ledger, ledger', frame.contract, t, a)
    BY DEF Spares
  <2> QED
    BY ActsStep
<1> QED
  BY <1>1, InvAlways, PTL DEF Spec, ActsForItself
-----------------------------------------------------------------------------
(* What the events of the example contract say *)

\* Event e of message m describes the difference between the ledgers s and l.
Describes(e, m, s, l) ==
    LET gained(a) == l.account[Token][a] - s.account[Token][a]
        close(amount, value) == amount - value \in 0..SatSub(s.asset[Token].min_balance, 1)
    IN  /\ e.event = "Approval" =>
              /\ e.value = allowance(l, Token, e.from, e.to)
              /\ m.name = "transfer_from" => close(-gained(e.from), m.value)
        /\ e.event = "Transfer" =>
              /\ e.to # None => close(gained(e.to), e.value)
              /\ e.from # None /\ m.name # "transfer_from" => close(-gained(e.from), e.value)
        /\ e.event \notin {"Approval", "Transfer"} => e.to = l.asset[Token].admin

\* The call of a message.
LEMMA MessageCalls ==
    ASSUME NEW m \in MessageType, Typed(m.name, m), ~ IsRead(m.name),
           m.name # "transfer_ownership", NEW c, c = MessageCall(m)
    PROVE  /\ c \in CallType /\ Typed(c.name, c) /\ c.token = Token /\ c.value = m.value
           /\ c.name = IF m.name = "new" THEN "create" ELSE m.name
           /\ m.name # "new" => c.who = m.who /\ c.other = m.other
           /\ m.name = "new" => c.who = Contract
<1>1. /\ m.name \in (DOMAIN ApiDispatchable \ {"create"}) \cup {"new"}
      /\ m.who \in Option(AccountId) /\ m.other \in Option(AccountId) /\ m.value \in Nat
  BY DEF MessageType, IsRead
<1>2. Token \in TokenId /\ Contract \in AccountId /\ Contract \in Option(AccountId)
      /\ None \in Option(AccountId)
  BY ContractAssumption, Options
<1>3. CASE m.name = "new"
  <2>1. c = [pallet |-> "Fungibles", name |-> "create", token |-> Token, who |-> Contract,
             other |-> None, value |-> m.value]
    BY <1>3 DEF MessageCall
  <2>2. c \in CallType
    BY <1>1, <1>2, <2>1 DEF CallType, CallIndex
  <2>3. Typed("create", c)
    BY <1>2, <1>3, <2>1 DEF Typed, TakesOther
  <2> QED
    BY <1>3, <2>1, <2>2, <2>3
<1>4. CASE m.name # "new"
  <2>1. c = [pallet |-> "Fungibles", name |-> m.name, token |-> Token, who |-> m.who,
             other |-> m.other, value |-> m.value]
    BY <1>4 DEF MessageCall
  <2>2. m.name \in DOMAIN CallIndex
    BY <1>1, <1>4 DEF ApiDispatchable, CallIndex
  <2>3. c \in CallType
    BY <1>1, <1>2, <2>1, <2>2 DEF CallType
  <2>4. Typed(m.name, c)
    BY <2>1 DEF Typed
  <2> QED
    BY <1>4, <2>1, <2>3, <2>4
<1> QED
  BY <1>3, <1>4

\* What a message of the contract has done when its call has succeeded.
LEMMA MessageEffect ==
    ASSUME NEW s, Sound(s), NEW m \in MessageType, Typed(m.name, m), ~ IsRead(m.name),
           m.name # "transfer_ownership", NEW r, r = DispatchCall(s, Contract, MessageCall(m)),
           r.error = None
    PROVE  /\ Effect(s, Contract, MessageCall(m), r.ledger) /\ Sound(r.ledger)
           /\ OnlyToken(s, r.ledger, Token)
<1>1. PICK c : c = MessageCall(m)
  OBVIOUS
<1>2. c \in CallType /\ Typed(c.name, c) /\ c.token = Token
  BY <1>1, MessageCalls
<1>3. Contract \in AccountId
  BY ContractAssumption
<1>4. Whole(s, Contract, c, r, PreDispatchWeight(c))
  BY <1>1, <1>2, <1>3, ExtensionEffect
<1> QED
  BY <1>1, <1>2, <1>4 DEF Whole

\* What leaves an account for a value: the value, and less than the minimum balance as dust.
LEMMA DebitClose ==
    ASSUME NEW s, Sound(s), NEW t \in TokenId, s.asset[t] # None, NEW a \in AccountId,
           NEW n \in Nat, n <= s.account[t][a], NEW debit, debit = n + Dust(s, t, a, n)
    PROVE  /\ debit - n \in 0..SatSub(s.asset[t].min_balance, 1) /\ debit \in Nat
           /\ 0 \in 0..SatSub(s.asset[t].min_balance, 1)
<1>1. s \in Ledger
  BY DEF Sound
<1>2. /\ s.asset[t].min_balance \in Nat /\ s.account[t][a] \in Nat
  BY <1>1, Amounts
<1>3. s.asset[t].min_balance > 0
  BY DEF Sound, Counted
<1>4. Dust(s, t, a, n) \in Nat
  BY <1>1, DustType
<1>5. Dust(s, t, a, n) <= s.asset[t].min_balance - 1
  BY <1>2, <1>3, <1>4 DEF Dust
<1>6. SatSub(s.asset[t].min_balance, 1) = s.asset[t].min_balance - 1
  BY <1>2, <1>3 DEF SatSub
<1> QED
  BY <1>2, <1>3, <1>4, <1>5, <1>6

\* The first event of a message is true once its call has succeeded, and transfer_from was
\* paid by the account it names.
LEMMA FirstEvent ==
    ASSUME NEW s, Sound(s), NEW l, Sound(l), NEW m \in MessageType, Typed(m.name, m), ~ NoOp(m),
           ~ IsRead(m.name), m.name # "transfer_ownership", NEW c, c = MessageCall(m),
           Effect(s, Contract, c, l), NEW e, EventsOf(m) = <<e>>
    PROVE  /\ Describes(e, m, s, l)
           /\ m.name = "transfer_from" =>
                 -(l.account[Token][m.who] - s.account[Token][m.who]) - m.value
                    \in 0..SatSub(s.asset[Token].min_balance, 1)
<1>1. /\ c.token = Token /\ c.value = m.value /\ Token \in TokenId /\ Contract \in AccountId
      /\ c.name = IF m.name = "new" THEN "create" ELSE m.name
      /\ m.name # "new" => c.who = m.who /\ c.other = m.other
      /\ m.name = "new" => c.who = Contract
  BY MessageCalls, ContractAssumption
<1>2. /\ m.name \in TakesWho => m.who \in AccountId
      /\ m.name \in TakesOther => m.other \in AccountId
      /\ m.value \in Nat
  BY DEF Typed, MessageType
<1>3. s \in Ledger /\ l \in Ledger /\ None \notin AccountId
  BY AssetsAssumption DEF Sound
<1>4. s.account[Token] \in [AccountId -> Balance] /\ \A x \in Balance : x \in Nat
  BY <1>1, <1>3, LedgerParts, AssetsAssumption DEF Balance
<1>5. CASE m.name = "new"
  <2>1. e = CreatedEvent(Token, Contract, Contract)
    BY <1>5 DEF EventsOf
  <2>2. e.event = "Created" /\ e.to = Contract
    BY <2>1 DEF CreatedEvent
  <2>3. CreatedIn(s, l, Token, Contract, Contract, m.value)
    BY <1>1, <1>5 DEF Effect
  <2>4. l.asset[Token].admin = Contract
    BY <1>1, <1>3, <2>3, LedgerParts DEF CreatedIn
  <2> QED
    BY <1>5, <2>2, <2>4 DEF Describes
<1>6. CASE m.name = "transfer"
  <2>1. e = TransferEvent(Token, Contract, m.who, m.value)
    BY <1>6 DEF EventsOf
  <2>2. e.event = "Transfer" /\ e.to = m.who /\ e.from = Contract /\ e.value = m.value
    BY <2>1 DEF TransferEvent
  <2>3. PICK w \in AccountId, n \in Nat : w = m.who /\ n = m.value /\ w # Contract /\ n # 0
    BY <1>2, <1>6 DEF NoOp, TakesWho
  <2>4. MovedIn(s, l, Token, Contract, w, n, TRUE)
    BY <1>1, <1>6, <2>3 DEF Effect
  <2>5. PICK keep \in BOOLEAN : MovedIn(s, l, Token, Contract, w, n, keep)
    BY <2>4
  <2>6. PICK debit \in Nat :
           /\ debit = n + Dust(s, Token, Contract, n) /\ debit <= s.account[Token][Contract]
           /\ l.account[Token] = Shifted(s.account[Token], Contract, w, debit)
    <3>1. Token \in TokenId /\ Contract \in AccountId
      BY <1>1
    <3> QED
      BY <2>5, <3>1, MovedParts
  <2>7. s.asset[Token] # None /\ n <= s.account[Token][Contract]
    BY <2>4 DEF MovedIn, Live
  <2>8. debit - n \in 0..SatSub(s.asset[Token].min_balance, 1)
    BY <1>1, <2>6, <2>7, DebitClose
  <2>9. /\ s.account[Token][w] \in Nat /\ s.account[Token][Contract] \in Nat
        /\ l.account[Token][w] = s.account[Token][w] + debit
        /\ l.account[Token][Contract] = s.account[Token][Contract] - debit
    BY <1>1, <1>4, <2>3, <2>6 DEF Shifted
  <2>10. /\ l.account[Token][w] - s.account[Token][w] = debit
         /\ -(l.account[Token][Contract] - s.account[Token][Contract]) = debit
    BY <2>9
  <2> QED
    BY <1>6, <2>2, <2>3, <2>8, <2>10 DEF Describes
<1>7. CASE m.name = "transfer_from"
  <2>1. e = TransferEvent(Token, Contract, m.other, m.value)
    BY <1>7 DEF EventsOf
  <2>2. e.event = "Transfer" /\ e.to = m.other /\ e.from = Contract /\ e.value = m.value
    BY <2>1 DEF TransferEvent
  <2>3. PICK v \in AccountId, w \in AccountId, n \in Nat :
           v = m.who /\ w = m.other /\ n = m.value /\ v # w /\ n # 0
    BY <1>2, <1>7 DEF NoOp, TakesWho, TakesOther
  <2>4. SpentIn(s, l, Token, Contract, v, w, n)
    BY <1>1, <1>7, <2>3 DEF Effect
  <2>5. PICK j : \E keep \in BOOLEAN :
           MovedIn(s, j, Token, v, w, n, keep) /\ l.account = j.account
    BY <2>3, <2>4 DEF SpentIn
  <2>6. PICK debit \in Nat :
           /\ debit = n + Dust(s, Token, v, n) /\ debit <= s.account[Token][v]
           /\ j.account[Token] = Shifted(s.account[Token], v, w, debit)
    <3>1. Token \in TokenId /\ Contract \in AccountId
      BY <1>1
    <3> QED
      BY <2>5, <3>1, MovedParts
  <2>7. s.asset[Token] # None /\ n <= s.account[Token][v]
    BY <2>5 DEF MovedIn, Live
  <2>8. debit - n \in 0..SatSub(s.asset[Token].min_balance, 1)
    BY <1>1, <2>6, <2>7, DebitClose
  <2>9. /\ s.account[Token][w] \in Nat /\ s.account[Token][v] \in Nat
        /\ l.account[Token][w] = s.account[Token][w] + debit
        /\ l.account[Token][v] = s.account[Token][v] - debit
    BY <1>4, <2>3, <2>5, <2>6 DEF Shifted
  <2>10. /\ l.account[Token][w] - s.account[Token][w] = debit
         /\ -(l.account[Token][v] - s.account[Token][v]) = debit
    BY <2>9
  <2> QED
    BY <1>7, <2>2, <2>3, <2>8, <2>10 DEF Describes
<1>8. CASE m.name = "approve"
  <2>1. e = ApprovalEvent(Token, Contract, m.who, m.value)
    BY <1>8 DEF EventsOf
  <2>2. e.event = "Approval" /\ e.to = m.who /\ e.from = Contract /\ e.value = m.value
    BY <2>1 DEF ApprovalEvent
  <2>3. allowance(l, Token, Contract, m.who) = m.value
    BY <1>1, <1>8 DEF Effect, AllowedIn
  <2> QED
    BY <1>8, <2>2, <2>3 DEF Describes
<1>9. CASE m.name = "mint"
  <2>1. e = TransferEvent(Token, None, m.who, m.value)
    BY <1>9 DEF EventsOf
  <2>2. e.event = "Transfer" /\ e.to = m.who /\ e.from = None /\ e.value = m.value
    BY <2>1 DEF TransferEvent
  <2>3. PICK w \in AccountId, n \in Nat : w = m.who /\ n = m.value /\ n # 0
    BY <1>2, <1>9 DEF NoOp, TakesWho
  <2>4. MintedIn(s, l, Token, w, n)
    BY <1>1, <1>9, <2>3 DEF Effect
  <2>5. s.asset[Token] # None
    BY <2>4 DEF MintedIn, Live
  <2>6. 0 \in 0..SatSub(s.asset[Token].min_balance, 1)
    <3>1. 0 <= s.account[Token][w]
      BY <1>4
    <3>2. PICK z \in Nat : z = 0
      OBVIOUS
    <3> QED
      BY <1>1, <2>5, <3>1, <3>2, DebitClose
  <2>7. s.account[Token][w] \in Nat /\ l.account[Token][w] = s.account[Token][w] + n
    <3>1. s.account \in [TokenId -> [AccountId -> Balance]]
      BY <1>3, LedgerParts
    <3>2. l.account = [s.account EXCEPT ![Token] =
                         [s.account[Token] EXCEPT ![w] = s.account[Token][w] + n]]
      BY <2>4 DEF MintedIn
    <3> QED
      BY <1>1, <1>4, <3>1, <3>2
  <2>8. l.account[Token][w] - s.account[Token][w] - n = 0
    BY <2>7
  <2> QED
    BY <1>3, <1>9, <2>2, <2>3, <2>6, <2>8 DEF Describes
<1>10. CASE m.name = "burn"
  <2>1. e = TransferEvent(Token, m.who, None, m.value)
    BY <1>10 DEF EventsOf
  <2>2. e.event = "Transfer" /\ e.to = None /\ e.from = m.who /\ e.value = m.value
    BY <2>1 DEF TransferEvent
  <2>3. PICK w \in AccountId, n \in Nat : w = m.who /\ n = m.value /\ n # 0
    BY <1>2, <1>10 DEF NoOp, TakesWho
  <2>4. BurntIn(s, l, Token, w, n)
    BY <1>1, <1>10, <2>3 DEF Effect
  <2>5. s.asset[Token] # None /\ n <= s.account[Token][w]
    BY <2>4 DEF BurntIn, Live
  <2>6. PICK debit : debit = n + Dust(s, Token, w, n)
    OBVIOUS
  <2>7. debit - n \in 0..SatSub(s.asset[Token].min_balance, 1) /\ debit \in Nat
    BY <1>1, <2>5, <2>6, DebitClose
  <2>8. s.account[Token][w] \in Nat /\ l.account[Token][w] = s.account[Token][w] - debit
    <3>1. s.account \in [TokenId -> [AccountId -> Balance]]
      BY <1>3, LedgerParts
    <3>2. l.account = [s.account EXCEPT ![Token] =
                         [s.account[Token] EXCEPT ![w] = s.account[Token][w] - debit]]
      BY <2>4, <2>6 DEF BurntIn
    <3> QED
      BY <1>1, <1>4, <3>1, <3>2
  <2>9. -(l.account[Token][w] - s.account[Token][w]) = debit
    BY <2>7, <2>8
  <2> QED
    BY <1>10, <2>2, <2>3, <2>7, <2>9 DEF Describes
<1>11. CASE m.name \notin {"new", "transfer", "transfer_from", "approve", "mint", "burn"}
  <2>1. EventsOf(m) = <<>>
    BY <1>11 DEF EventsOf
  <2> QED
    BY <2>1
<1> QED
  BY <1>5, <1>6, <1>7, <1>8, <1>9, <1>10, <1>11

\* All events are true when the contract has returned from its API call ...
LEMMA ResumeDescribes ==
    ASSUME Inv, Resume
    PROVE  EventsTrue'
<1>1. /\ frame # None /\ env # None /\ env.phase = "returned"
      /\ frame.contract = Contract /\ frame.stage = "api"
  BY DEF Resume, InPhase
<1>2. PICK m : m = frame.message
  OBVIOUS
<1>3. /\ frame \in FrameType /\ env \in EnvType /\ Sound(ledger) /\ Sound(frame.saved)
  BY <1>1, AtWork
<1>4. /\ m \in MessageType /\ Typed(m.name, m) /\ m.name # "transfer_ownership"
      /\ env.call = MessageCall(m)
      /\ MatchedFunction(env.id) = IF IsRead(m.name) THEN "read" ELSE "dispatch"
      /\ ~ NoOp(m)
      /\ Succeeded(env.status) <=> env.error = None
  BY <1>1, <1>2, MessageInProgress, Returned
<1>5. frame.events = <<>>
  BY <1>1 DEF Inv, FrameInv
<1>6. CASE IsRead(m.name) \/ ~ Succeeded(env.status)
  <2>1. PICK result, value : frame' = Done(frame, result, value, <<>>)
    BY <1>2, <1>6 DEF Resume
  <2>2. frame'.events = frame.events \o <<>>
    BY <1>3, <2>1 DEF Done, FrameType
  <2>3. frame'.events = <<>>
    BY <1>5, <2>2
  <2>4. DOMAIN frame'.events = {}
    BY <2>3
  <2> QED
    BY <2>4 DEF EventsTrue
<1>7. CASE ~ IsRead(m.name) /\ Succeeded(env.status) /\ ReadsAllowance(m)
  <2>1. frame' = [frame EXCEPT !.stage = "allowance", !.events = EventsOf(m)]
    BY <1>2, <1>7 DEF Resume
  <2>2. frame'.stage = "allowance"
    BY <1>3, <2>1 DEF FrameType
  <2> QED
    BY <2>2 DEF EventsTrue
<1>8. CASE ~ IsRead(m.name) /\ Succeeded(env.status) /\ ~ ReadsAllowance(m)
  <2>1. frame' = Done(frame, "Ok", None, EventsOf(m)) /\ ledger' = ledger
    BY <1>2, <1>8 DEF Resume
  <2>2. PICK events \in Seq(Event) : events = EventsOf(m)
    BY <1>4, EventsTyped
  <2>3. frame'.saved = frame.saved /\ frame'.message = m /\ frame'.events = events
    <3>1. "Ok" \in Results /\ None \in Option(Nat \cup BOOLEAN)
      BY DEF Results, Option
    <3>2. /\ frame'.saved = frame.saved /\ frame'.message = frame.message
          /\ frame'.events = frame.events \o events
      <4>1. frame' = Done(frame, "Ok", None, events)
        BY <2>1, <2>2
      <4> QED
        BY <1>3, <3>1, <4>1, DoneFields
    <3> QED
      BY <1>2, <1>5, <3>2
  <2>4. /\ ledger = Outcome(MessageCall(m)).ledger /\ Outcome(MessageCall(m)).error = None
    BY <1>1, <1>4, <1>8 DEF Inv, EffectInv
  <2>5. PICK r : r = DispatchCall(frame.saved, Contract, MessageCall(m))
    OBVIOUS
  <2>6. r.ledger = ledger /\ r.error = None
    BY <1>1, <2>4, <2>5 DEF Outcome
  <2>7. Effect(frame.saved, Contract, MessageCall(m), ledger)
    <3>1. Effect(frame.saved, Contract, MessageCall(m), r.ledger)
      BY <1>3, <1>4, <1>8, <2>5, <2>6, MessageEffect
    <3> QED
      BY <2>6, <3>1
  <2>8. ASSUME NEW i \in DOMAIN events PROVE Describes(events[i], m, frame.saved, ledger)
    <3>1. PICK e : events = <<e>> \/ events = <<>>
      BY <2>2 DEF EventsOf
    <3>2. events = <<e>> /\ events[i] = e
      BY <2>8, <3>1
    <3> QED
      BY <1>3, <1>4, <1>8, <2>2, <2>7, <3>2, FirstEvent
  <2> QED
    BY <2>1, <2>3, <2>8 DEF EventsTrue, Describes, Gained, UpToDust
<1> QED
  BY <1>6, <1>7, <1>8

\* ... and when it has read the allowance.
LEMMA ResumeWithAllowanceDescribes ==
    ASSUME Inv, ResumeWithAllowance
    PROVE  EventsTrue'
<1>1. /\ frame # None /\ env # None /\ env.phase = "returned" /\ frame.stage = "allowance"
      /\ ledger' = ledger
  BY DEF ResumeWithAllowance, InPhase
<1>2. PICK m : m = frame.message
  OBVIOUS
<1>3. frame \in FrameType /\ Sound(ledger) /\ Sound(frame.saved) /\ ledger \in Ledger
  BY <1>1, AtWork
<1>4. /\ frame.contract = Contract /\ ReadsAllowance(m)
      /\ m \in MessageType /\ Typed(m.name, m) /\ ~ NoOp(m)
  BY <1>1, <1>2 DEF Inv, FrameInv
<1>5. ~ IsRead(m.name) /\ m.name # "transfer_ownership"
  BY <1>4 DEF ReadsAllowance, IsRead, ApiStateQuery
<1>6. PICK a \in AccountId, b \in AccountId : a = AllowanceOf(m)[1] /\ b = AllowanceOf(m)[2]
  BY <1>4, AllowanceRequest
<1>7. PICK value \in Nat : /\ value = UnwrapOrDefault("allowance", env)
                           /\ value = allowance(ledger, Token, a, b)
  BY <1>1, <1>2, <1>6, AllowanceRead
<1>8. PICK last \in Event : last = ApprovalEvent(Token, a, b, value)
  BY ContractAssumption DEF ApprovalEvent, Event, Option
<1>9. PICK events \in Seq(Event) : events = <<last>>
  <2>1. <<last>> \in Seq(Event)
    OBVIOUS
  <2> QED
    BY <2>1
<1>10. PICK first \in Seq(Event) : first = EventsOf(m) /\ first = frame.events
  <2>1. EventsOf(m) \in Seq(Event)
    BY <1>4, EventsTyped
  <2>2. frame.events = EventsOf(m)
    BY <1>1, <1>2 DEF Inv, EffectInv
  <2> QED
    BY <2>1, <2>2
<1>11. /\ frame'.saved = frame.saved /\ frame'.message = m
       /\ frame'.events = first \o events
  <2>1. frame' = Done(frame, "Ok", None, events)
    BY <1>2, <1>6, <1>7, <1>8, <1>9 DEF ResumeWithAllowance
  <2>2. "Ok" \in Results /\ None \in Option(Nat \cup BOOLEAN)
    BY DEF Results, Option
  <2>3. /\ frame'.saved = frame.saved /\ frame'.message = frame.message
        /\ frame'.events = frame.events \o events
    BY <1>3, <2>1, <2>2, DoneFields
  <2> QED
    BY <1>2, <1>10, <2>3
<1>12. PICK r : r = DispatchCall(frame.saved, Contract, MessageCall(m))
  OBVIOUS
<1>13. r.ledger = ledger /\ r.error = None
  BY <1>1, <1>2, <1>4, <1>12 DEF Inv, EffectInv, Outcome
<1>14. Effect(frame.saved, Contract, MessageCall(m), ledger)
  <2>1. Effect(frame.saved, Contract, MessageCall(m), r.ledger)
    BY <1>3, <1>4, <1>5, <1>12, <1>13, MessageEffect
  <2> QED
    BY <1>13, <2>1
<1>15. Describes(last, m, frame.saved, ledger)
  <2>1. last.event = "Approval" /\ last.from = a /\ last.to = b /\ last.value = value
    BY <1>8 DEF ApprovalEvent
  <2>2. CASE m.name = "transfer_from"
    <3>1. a = m.who
      BY <1>6, <2>2 DEF AllowanceOf
    <3>2. PICK e : EventsOf(m) = <<e>>
      BY <2>2 DEF EventsOf
    <3>3. -(ledger.account[Token][a] - frame.saved.account[Token][a]) - m.value
             \in 0..SatSub(frame.saved.asset[Token].min_balance, 1)
      BY <1>3, <1>4, <1>5, <1>14, <2>2, <3>1, <3>2, FirstEvent
    <3> QED
      BY <1>7, <2>1, <3>3 DEF Describes
  <2>3. CASE m.name # "transfer_from"
    BY <1>7, <2>1, <2>3 DEF Describes
  <2> QED
    BY <2>2, <2>3
<1>16. ASSUME NEW i \in DOMAIN (first \o events)
       PROVE  Describes((first \o events)[i], m, frame.saved, ledger)
  <2>1. PICK e : first = <<e>> \/ first = <<>>
    BY <1>10 DEF EventsOf
  <2>2. CASE first = <<>>
    <3>1. (first \o events)[i] = last
      BY <1>9, <1>16, <2>2
    <3> QED
      BY <1>15, <3>1
  <2>3. CASE first = <<e>>
    <3>1. Describes(e, m, frame.saved, ledger)
      BY <1>3, <1>4, <1>5, <1>10, <1>14, <2>3, FirstEvent
    <3>2. (first \o events)[i] = e \/ (first \o events)[i] = last
      BY <1>9, <1>16, <2>3
    <3> QED
      BY <1>15, <3>1, <3>2
  <2> QED
    BY <2>1, <2>2, <2>3
<1>17. PICK all : all = first \o events
  OBVIOUS
<1>18. \A i \in DOMAIN all : Describes(all[i], m, frame.saved, ledger)
  BY <1>16, <1>17
<1>19. frame'.events = all
  BY <1>11, <1>17
<1> QED
  BY <1>1, <1>11, <1>18, <1>19 DEF EventsTrue, Describes, Gained, UpToDust

\* The extension leaves the progress of the contract and the ledger it started from alone.
LEMMA ExtensionLeaves ==
    ASSUME Inv, ExtensionStep, UNCHANGED owner
    PROVE  /\ frame # None /\ frame.stage # "done" /\ frame' # None /\ frame'.stage # "done"
           /\ frame'.saved = frame.saved
<1>1. frame # None /\ env # None
  BY DEF ExtensionStep, ExtensionCall, DecodeInput, ChargeForDispatch, DispatchRuntimeCall,
     ConvertResult, ChargeForRead, ReadRuntimeState, WriteOutput, InPhase
<1>2. frame \in FrameType /\ frame.stage # "done"
  BY <1>1, AtWork
<1>3. SameCall(frame, frame')
  BY ExtensionStepKeeps
<1> QED
  BY <1>1, <1>2, <1>3, NoneAssumption DEF SameCall

\* Every step keeps the events true.
LEMMA EventsNext ==
    ASSUME Inv, EventsTrue, [Next]_vars
    PROVE  EventsTrue'
<1>1. ASSUME frame' # None => DOMAIN frame'.events = {} \/ frame'.stage # "done" PROVE EventsTrue'
  BY <1>1 DEF EventsTrue
<1>2. CASE UNCHANGED vars
  BY <1>2 DEF EventsTrue, Gained, UpToDust, vars
<1>3. CASE ExtensionStep /\ UNCHANGED owner
  BY <1>1, <1>3, ExtensionLeaves
<1>4. CASE ResumeRequester
  <2>1. frame # None /\ env # None /\ frame.contract = Requester /\ Requester # Contract
    BY <1>4, ContractAssumption DEF ResumeRequester, InPhase
  <2>2. frame \in FrameType /\ frame.stage \in {"api", "allowance"}
    BY <2>1, AtWork
  <2>3. frame.events = <<>>
    BY <2>1, <2>2 DEF Inv, FrameInv
  <2>4. PICK result, value : frame' = Done(frame, result, value, <<>>)
    BY <1>4 DEF ResumeRequester
  <2>5. frame'.events = frame.events \o <<>>
    BY <2>2, <2>4 DEF Done, FrameType
  <2>6. DOMAIN frame'.events = {}
    BY <2>3, <2>5
  <2> QED
    BY <1>1, <2>6
<1>5. CASE Trap
  <2>1. /\ frame # None /\ env # None
        /\ frame' = [Done(frame, "Trap", None, <<>>) EXCEPT !.events = <<>>]
    BY <1>5 DEF Trap, InPhase
  <2>2. frame \in FrameType
    BY <2>1, AtWork
  <2>3. frame'.events = <<>>
    BY <2>1, <2>2 DEF Done, FrameType
  <2> QED
    BY <1>1, <2>3
<1>6. CASE Leave
  BY <1>1, <1>6 DEF Leave
<1>7. ASSUME NEW gas \in GasLimit, NEW caller \in Caller, NEW m \in Message,
             CallContract(caller, m, gas)
      PROVE  EventsTrue'
  <2>1. PICK f : f = Frame(Contract, caller, m, gas)
    OBVIOUS
  <2>2. f.events = <<>> /\ f.stage = "api"
    BY <2>1 DEF Frame
  <2>3. CASE frame' = f
    BY <1>1, <2>2, <2>3
  <2>4. CASE frame' # f
    <3>1. PICK result : frame' = Done(f, result, None, <<>>)
      BY <1>7, <2>1, <2>4 DEF CallContract
    <3>2. frame'.events = f.events \o <<>>
      BY <2>1, <3>1 DEF Done, Frame
    <3>3. DOMAIN frame'.events = {}
      BY <2>2, <3>2
    <3> QED
      BY <1>1, <3>3
  <2> QED
    BY <2>3, <2>4
<1>8. ASSUME NEW gas \in GasLimit, NEW request \in Requests, CallRequester(request, gas)
      PROVE  EventsTrue'
  <2>1. frame' = Frame(Requester, None, None, gas)
    BY <1>8 DEF CallRequester
  <2>2. frame'.stage = "api"
    BY <2>1 DEF Frame
  <2> QED
    BY <1>1, <2>2
<1>9. ASSUME NEW x \in Extrinsic, SubmitExtrinsic(x.origin, x.call)
      PROVE  EventsTrue'
  BY <1>1, <1>9 DEF SubmitExtrinsic
<1>10. ASSUME NEW t \in TokenId, DestroyToken(t)
       PROVE  EventsTrue'
  BY <1>1, <1>10 DEF DestroyToken
<1>11. CASE Pipeline
  BY <1>3, <1>4, <1>5, <1>6, <1>11, ResumeDescribes, ResumeWithAllowanceDescribes DEF Pipeline
<1>12. CASE Users
  BY <1>7, <1>8, <1>9, <1>10, <1>12 DEF Users
<1> QED
  BY <1>2, <1>11, <1>12 DEF Next

\* The events of the example contract (examples/fungibles/lib.rs) tell what its call did: at
\* the end of a call an Approval event carries the allowance there is, read back or as set,
\* the recipient of a Transfer event has gained its value and the account it names as its
\* source has lost it, up to dust below the minimum balance.  transfer_from's Transfer event
\* names the contract, which has lost nothing, and is excepted: the owner its Approval event
\* names has lost the value.  The effect of the one call that is dispatched gives the
\* difference of the ledgers.
THEOREM EventsAreTrue == Spec => []EventsTrue
<1>1. Init => EventsTrue
  BY DEF Init, EventsTrue
<1>2. Inv /\ EventsTrue /\ [Next]_vars => EventsTrue'
  BY EventsNext
<1> QED
  BY <1>1, <1>2, InvAlways, PTL DEF Spec
-----------------------------------------------------------------------------
(* The tokens of the chain are those of Psp22 *)

\* The tokens of ledger l as Psp22 sees them.
View(l) == [t \in TokenId |-> TokenOf(l, t)]

\* The allowances of token t, none of them as 0.
AllowancesOf(l, t) == [a \in AccountId |-> [b \in AccountId |-> allowance(l, t, a, b)]]

\* What Psp22 sees of a token that exists.
LEMMA TokenSeen ==
    ASSUME NEW l \in Ledger, NEW t \in TokenId, l.asset[t] # None
    PROVE  /\ TokenOf(l, t) = Abstract!TokenRecord(l.asset[t].admin, l.asset[t].min_balance, Live(l, t),
                                      l.asset[t].supply, l.account[t], AllowancesOf(l, t))
           /\ TokenOf(l, t) # None
<1>1. TokenOf(l, t) = Abstract!TokenRecord(l.asset[t].admin, l.asset[t].min_balance, Live(l, t),
                              l.asset[t].supply, l.account[t], AllowancesOf(l, t))
  BY DEF TokenOf, Abstract!TokenRecord, total_supply, AllowancesOf
<1>2. /\ l.asset[t] \in AssetDetails /\ l.account[t] \in [AccountId -> Balance]
  BY DEF Ledger, Option
<1>3. Live(l, t) \in BOOLEAN
  BY Zenon DEF Live
<1>4. AllowancesOf(l, t) \in [AccountId -> [AccountId -> Balance]]
  BY Allowances DEF AllowancesOf
<1>5. /\ l.asset[t].admin \in AccountId /\ l.asset[t].min_balance \in Balance
      /\ l.asset[t].supply \in Balance
  BY <1>2 DEF AssetDetails
<1>6. TokenOf(l, t) \in [admin : AccountId, min_balance : Balance, live : BOOLEAN,
                         supply : Balance, balance : [AccountId -> Balance],
                         allowance : [AccountId -> [AccountId -> Balance]]]
  BY <1>1, <1>2, <1>3, <1>4, <1>5 DEF Abstract!TokenRecord
<1> QED
  BY <1>1, <1>6, TokenAssumption

\* A token that does not exist is None to Psp22.
LEMMA TokenUnseen ==
    ASSUME NEW l, NEW t \in TokenId
    PROVE  /\ l.asset[t] = None => TokenOf(l, t) = None
           /\ View(l)[t] = TokenOf(l, t)
BY DEF TokenOf, View

\* An operation on one token changes what Psp22 sees of this token.
LEMMA ViewChanges ==
    ASSUME NEW l, NEW k, NEW t \in TokenId, OnlyToken(l, k, t)
    PROVE  /\ View(k) = [View(l) EXCEPT ![t] = TokenOf(k, t)]
           /\ TokenOf(k, t) = TokenOf(l, t) => View(k) = View(l)
<1>1. ASSUME NEW u \in TokenId \ {t} PROVE TokenOf(k, u) = TokenOf(l, u)
  <2>1. /\ k.asset[u] = l.asset[u] /\ k.account[u] = l.account[u] /\ k.approval[u] = l.approval[u]
    BY <1>1 DEF OnlyToken
  <2> QED
    BY <2>1 DEF TokenOf, Live, total_supply, allowance
<1> QED
  BY <1>1 DEF View

\* A live token.
LEMMA LiveSeen ==
    ASSUME NEW l \in Ledger, NEW t \in TokenId, Live(l, t), NEW x, x = TokenOf(l, t)
    PROVE  /\ x # None /\ l.asset[t] # None
           /\ x = Abstract!TokenRecord(l.asset[t].admin, l.asset[t].min_balance, TRUE, l.asset[t].supply,
                                 l.account[t], AllowancesOf(l, t))
<1>1. l.asset[t] # None
  BY DEF Live
<1>2. Live(l, t) = TRUE
  BY Zenon
<1> QED
  BY <1>1, <1>2, TokenSeen, Zenon

\* One approval changes one allowance.
LEMMA AllowanceChanges ==
    ASSUME NEW l \in Ledger, NEW k, NEW t \in TokenId, NEW o \in AccountId, NEW s \in AccountId,
           NEW v, k.approval = [l.approval EXCEPT ![t][o][s] = v], NEW n,
           n = IF v = None THEN 0 ELSE v
    PROVE  AllowancesOf(k, t) = [AllowancesOf(l, t) EXCEPT ![o][s] = n]
<1>1. l.approval \in [TokenId -> [AccountId -> [AccountId -> Option(Balance)]]]
  BY DEF Ledger
<1>2. ASSUME NEW a \in AccountId, NEW b \in AccountId
      PROVE  allowance(k, t, a, b) = IF a = o /\ b = s THEN n ELSE allowance(l, t, a, b)
  BY <1>1, <1>2 DEF allowance
<1>3. PICK f : f = [a \in AccountId |-> [b \in AccountId |-> allowance(l, t, a, b)]]
  OBVIOUS
<1>4. [a \in AccountId |-> [b \in AccountId |-> allowance(k, t, a, b)]] = [f EXCEPT ![o][s] = n]
  <2>1. [f EXCEPT ![o][s] = n]
           = [a \in AccountId |-> IF a = o THEN [f[o] EXCEPT ![s] = n] ELSE f[a]]
    BY <1>3
  <2>2. ASSUME NEW a \in AccountId
        PROVE  [b \in AccountId |-> allowance(k, t, a, b)]
                  = IF a = o THEN [f[o] EXCEPT ![s] = n] ELSE f[a]
    <3>1. f[a] = [b \in AccountId |-> allowance(l, t, a, b)]
      BY <1>3
    <3>2. CASE a = o
      <4>1. [f[o] EXCEPT ![s] = n] = [b \in AccountId |-> IF b = s THEN n ELSE allowance(l, t, o, b)]
        BY <3>1, <3>2
      <4> QED
        BY <1>2, <3>2, <4>1
    <3>3. CASE a # o
      BY <1>2, <3>1, <3>3
    <3> QED
      BY <3>2, <3>3
  <2> QED
    BY <2>1, <2>2
<1> QED
  BY <1>3, <1>4 DEF AllowancesOf

\* The same approvals are the same allowances.
LEMMA AllowancesSame ==
    ASSUME NEW l, NEW k, NEW t \in TokenId, k.approval[t] = l.approval[t]
    PROVE  AllowancesOf(k, t) = AllowancesOf(l, t)
BY DEF AllowancesOf, allowance

\* What leaves an account.
LEMMA DebitSeen ==
    ASSUME NEW l \in Ledger, NEW t \in TokenId, l.asset[t] # None, NEW a \in AccountId, NEW n \in Nat, NEW d,
           d = n + Dust(l, t, a, n)
    PROVE  d = IF l.account[t][a] - n >= l.asset[t].min_balance THEN n ELSE n + (l.account[t][a] - n)
<1>1. l.account[t][a] \in Nat /\ l.asset[t].min_balance \in Nat
  BY Amounts
<1> QED
  BY <1>1 DEF Dust


\* A step that makes ledger k of ledger l has changed token t.
Changes(l, k, t) ==
    /\ Tokens[t] = TokenOf(l, t)
    /\ Tokens' = [Tokens EXCEPT ![t] = TokenOf(k, t)]
    /\ Tokens'[t] # Tokens[t]

\* What Psp22 sees of a live token before such a step ...
LEMMA SeenBefore ==
    ASSUME NEW l \in Ledger, NEW k, NEW t \in TokenId, Changes(l, k, t), Live(l, t)
    PROVE  /\ Abstract!Live(t) /\ Tokens'[t] # Tokens[t]
           /\ Tokens[t].admin = l.asset[t].admin /\ Tokens[t].min_balance = l.asset[t].min_balance
           /\ Tokens[t].supply = l.asset[t].supply /\ Tokens[t].balance = l.account[t]
           /\ Tokens[t].allowance = AllowancesOf(l, t)
<1>1. PICK x, a, m, p, b, c :
          /\ x = TokenOf(l, t) /\ a = l.asset[t].admin /\ m = l.asset[t].min_balance
          /\ p = l.asset[t].supply /\ b = l.account[t] /\ c = AllowancesOf(l, t)
  OBVIOUS
<1>2. x # None /\ x = Abstract!TokenRecord(a, m, TRUE, p, b, c)
  BY <1>1, LiveSeen
<1>3. /\ x.admin = a /\ x.min_balance = m /\ x.live = TRUE /\ x.supply = p
      /\ x.balance = b /\ x.allowance = c
  BY <1>2 DEF Abstract!TokenRecord
<1>4. Tokens[t] = x /\ Tokens'[t] # Tokens[t]
  BY <1>1 DEF Changes
<1>5. Abstract!Live(t)
  BY <1>2, <1>3, <1>4 DEF Abstract!Live, Abstract!Exists
<1> QED
  BY <1>1, <1>3, <1>4, <1>5

\* ... and after one that leaves it live.
LEMMA SeenAfter ==
    ASSUME NEW l \in Ledger, NEW k \in Ledger, NEW t \in TokenId, Changes(l, k, t), Live(l, t),
           Live(k, t), k.asset[t].admin = l.asset[t].admin,
           k.asset[t].min_balance = l.asset[t].min_balance
    PROVE  Abstract!Becomes(t, k.asset[t].supply, k.account[t], AllowancesOf(k, t))
<1>1. PICK y, a, m, p, b, c :
          /\ y = TokenOf(k, t) /\ a = k.asset[t].admin /\ m = k.asset[t].min_balance
          /\ p = k.asset[t].supply /\ b = k.account[t] /\ c = AllowancesOf(k, t)
  OBVIOUS
<1>2. y = Abstract!TokenRecord(a, m, TRUE, p, b, c)
  BY <1>1, LiveSeen
<1>3. Tokens[t].admin = a /\ Tokens[t].min_balance = m
  BY <1>1, SeenBefore
<1>4. Tokens' = [Tokens EXCEPT ![t] = y]
  BY <1>1 DEF Changes
<1>5. Abstract!Becomes(t, p, b, c)
  BY <1>2, <1>3, <1>4, Zenon DEF Abstract!Becomes
<1> QED
  BY <1>1, <1>5

\* transfer: the sender keeps the minimum balance, so there is no dust.
LEMMA MovedSeen ==
    ASSUME NEW l \in Ledger, NEW k \in Ledger, NEW t \in TokenId, Changes(l, k, t),
           NEW from \in AccountId, NEW to \in AccountId, NEW n \in Balance,
           MovedIn(l, k, t, from, to, n, TRUE)
    PROVE  Abstract!Next
<1>1. Live(l, t) /\ n > 0 /\ from # to
  BY DEF MovedIn
<1>2. l.account[t][from] - n >= l.asset[t].min_balance /\ l.asset[t] # None
  BY DEF MovedIn, Live
<1>3. l.account[t][from] \in Nat /\ l.asset[t].min_balance \in Nat /\ n \in Nat
  BY <1>2, Amounts, Options
<1>4. Dust(l, t, from, n) = 0
  BY <1>2, <1>3 DEF Dust
<1>5. PICK b, z : b = l.account[t] /\ z = Shifted(b, from, to, n)
  OBVIOUS
<1>6. k = [l EXCEPT !.account[t] = z]
  BY <1>3, <1>4, <1>5 DEF MovedIn
<1>7. k.asset = l.asset /\ k.approval = l.approval /\ k.account[t] = z
  BY <1>6 DEF Ledger
<1>8. Live(k, t)
  BY <1>1, <1>7 DEF Live
<1>9. AllowancesOf(k, t) = AllowancesOf(l, t)
  BY <1>7, AllowancesSame
<1>10. /\ Abstract!Live(t) /\ Tokens'[t] # Tokens[t]
       /\ Tokens[t].min_balance = l.asset[t].min_balance /\ Tokens[t].supply = l.asset[t].supply
       /\ Tokens[t].balance = b /\ Tokens[t].allowance = AllowancesOf(l, t)
  BY <1>1, <1>5, SeenBefore
<1>11. Abstract!Becomes(t, l.asset[t].supply, z, AllowancesOf(l, t))
  BY <1>1, <1>7, <1>8, <1>9, SeenAfter
<1>12. z = Abstract!Moved(b, from, to, n)
  BY <1>1, <1>5 DEF Shifted, Abstract!Moved
<1>13. n \in Balance \ {0} /\ n + l.asset[t].min_balance <= b[from]
  BY <1>1, <1>2, <1>3, <1>5
<1>14. Abstract!Transfer(t, from, to, n)
  BY <1>10, <1>11, <1>12, <1>13 DEF Abstract!Transfer
<1> QED
  BY <1>10, <1>13, <1>14 DEF Abstract!Next

\* An allowance is set, and nothing else of the token changes.
LEMMA AllowedSeen ==
    ASSUME NEW l \in Ledger, NEW k \in Ledger, NEW t \in TokenId, Changes(l, k, t), Live(l, t),
           k.asset = l.asset, k.account = l.account, NEW o \in AccountId, NEW s \in AccountId,
           NEW v, k.approval = [l.approval EXCEPT ![t][o][s] = v]
    PROVE  Abstract!Next
<1>1. PICK n : n = IF v = None THEN 0 ELSE v
  BY Zenon
<1>2. PICK c : c = AllowancesOf(l, t)
  OBVIOUS
<1>3. AllowancesOf(k, t) = [c EXCEPT ![o][s] = n]
  <2>1. AllowancesOf(k, t) = [AllowancesOf(l, t) EXCEPT ![o][s] = n]
    BY <1>1, AllowanceChanges, SMTT(40)
  <2> QED
    BY <1>2, <2>1, ZenonT(30)
<1>4. n \in Balance
  <2>1. allowance(k, t, o, s) \in Balance
    BY Allowances
  <2>2. k.approval[t][o][s] = v
    BY DEF Ledger
  <2> QED
    BY <1>1, <2>1, <2>2 DEF allowance
<1>5. Live(k, t)
  BY DEF Live
<1>6. /\ Abstract!Live(t) /\ Tokens'[t] # Tokens[t] /\ Tokens[t].supply = l.asset[t].supply
      /\ Tokens[t].balance = l.account[t] /\ Tokens[t].allowance = c
  BY <1>2, SeenBefore
<1>7. Abstract!Becomes(t, l.asset[t].supply, l.account[t], [c EXCEPT ![o][s] = n])
  BY <1>3, <1>5, SeenAfter
<1>8. Abstract!SetAllowance(t, o, s, n)
  BY <1>6, <1>7 DEF Abstract!SetAllowance
<1> QED
  BY <1>4, <1>6, <1>8 DEF Abstract!Next

\* transfer_from: dust goes along, and a transfer to oneself only uses up the allowance.
LEMMA SpentSeen ==
    ASSUME NEW l \in Ledger, NEW k \in Ledger, NEW t \in TokenId, Changes(l, k, t),
           NEW s \in AccountId, NEW from \in AccountId, NEW to \in AccountId, NEW n \in Balance,
           SpentIn(l, k, t, s, from, to, n)
    PROVE  Abstract!Next
<1>1. PICK has : has = allowance(l, t, from, s)
  OBVIOUS
<1>2. has \in Nat /\ n \in Nat
  BY <1>1, Allowances, Options
<1>3. PICK v : v = IF has = n THEN None ELSE has - n
  BY Zenon
<1>4. /\ Live(l, t) /\ n <= has /\ k.asset = l.asset
      /\ k.approval = [l.approval EXCEPT ![t][from][s] = v]
      /\ \/ k.account = l.account
         \/ \E j : MovedIn(l, j, t, from, to, n, FALSE) /\ k.account = j.account
  BY <1>1, <1>3 DEF SpentIn
<1>5. CASE k.account = l.account
  BY <1>4, <1>5, AllowedSeen
<1>6. ASSUME NEW j, MovedIn(l, j, t, from, to, n, FALSE), k.account = j.account
      PROVE  Abstract!Next
  <2>1. n > 0 /\ from # to /\ n <= l.account[t][from] /\ l.asset[t] # None
    BY <1>6 DEF MovedIn, Live
  <2>2. PICK b, d, z : b = l.account[t] /\ d = n + Dust(l, t, from, n) /\ z = Shifted(b, from, to, d)
    OBVIOUS
  <2>3. j = [l EXCEPT !.account[t] = z]
    BY <1>6, <2>2 DEF MovedIn
  <2>4. k.account[t] = z
    BY <1>6, <2>3 DEF Ledger
  <2>5. Live(k, t)
    BY <1>4 DEF Live
  <2>6. PICK c, q : c = AllowancesOf(l, t) /\ q = has - n
    OBVIOUS
  <2>7. q = IF v = None THEN 0 ELSE v
    <3>1. q \in Nat /\ (has = n => q = 0)
      BY <1>2, <1>4, <2>6
    <3>2. q # None
      BY <3>1, Options
    <3>3. v = IF has = n THEN None ELSE q
      BY <1>3, <2>6
    <3> QED
      BY <3>1, <3>2, <3>3
  <2>8. AllowancesOf(k, t) = [c EXCEPT ![from][s] = q]
    BY <1>4, <2>6, <2>7, AllowanceChanges, SMTT(40)
  <2>9. c[from][s] = has
    BY <1>1, <2>6 DEF AllowancesOf
  <2>10. /\ Abstract!Live(t) /\ Tokens'[t] # Tokens[t]
         /\ Tokens[t].min_balance = l.asset[t].min_balance
         /\ Tokens[t].supply = l.asset[t].supply
         /\ Tokens[t].balance = b /\ Tokens[t].allowance = c
    BY <1>4, <2>2, <2>6, SeenBefore
  <2>11. Abstract!Becomes(t, l.asset[t].supply, z, [c EXCEPT ![from][s] = q])
    BY <1>4, <2>4, <2>5, <2>8, SeenAfter
  <2>12. z = Abstract!Moved(b, from, to, d)
    BY <2>1, <2>2 DEF Shifted, Abstract!Moved
  <2>13. d \in Abstract!Leaving(t, from, n)
    <3>1. d = IF b[from] - n >= l.asset[t].min_balance THEN n ELSE n + (b[from] - n)
      BY <1>2, <2>1, <2>2, DebitSeen
    <3> QED
      BY <2>10, <3>1 DEF Abstract!Leaving
  <2>14. [c EXCEPT ![from][s] = q] = [c EXCEPT ![from][s] = c[from][s] - n]
    BY <2>6, <2>9
  <2>15. Abstract!TransferFrom(t, s, from, to, n)
    <3>1. n <= Tokens[t].balance[from] /\ n <= Tokens[t].allowance[from][s]
      BY <1>4, <2>1, <2>2, <2>9, <2>10
    <3>2. Abstract!Becomes(t, Tokens[t].supply, Abstract!Moved(Tokens[t].balance, from, to, d),
                           [Tokens[t].allowance EXCEPT ![from][s] = Tokens[t].allowance[from][s] - n])
      BY <2>10, <2>11, <2>12, <2>14, Zenon
    <3> QED
      BY <2>10, <2>13, <3>1, <3>2 DEF Abstract!TransferFrom
  <2>16. n \in Balance \ {0}
    BY <1>2, <2>1
  <2> QED
    BY <2>10, <2>15, <2>16 DEF Abstract!Next
<1> QED
  BY <1>4, <1>5, <1>6

\* mint.
LEMMA MintedSeen ==
    ASSUME NEW l \in Ledger, NEW k \in Ledger, NEW t \in TokenId, Changes(l, k, t),
           NEW to \in AccountId, NEW n \in Balance, MintedIn(l, k, t, to, n)
    PROVE  Abstract!Next
<1>1. PICK b, z, p, q : /\ b = l.account[t] /\ z = [b EXCEPT ![to] = b[to] + n]
                        /\ p = l.asset[t].supply /\ q = p + n
  OBVIOUS
<1>2. /\ Live(l, t) /\ n > 0 /\ k.approval = l.approval /\ b[to] + n >= l.asset[t].min_balance
      /\ k.account = [l.account EXCEPT ![t] = z]
      /\ k.asset = [l.asset EXCEPT ![t] = [l.asset[t] EXCEPT !.supply = q]]
  BY <1>1 DEF MintedIn
<1>3. l.asset[t] \in AssetDetails /\ l.account[t] \in [AccountId -> Balance]
  BY <1>2 DEF Live, Ledger, Option
<1>4. k.account[t] = z
  BY <1>2 DEF Ledger
<1>5. k.asset[t] = [l.asset[t] EXCEPT !.supply = q]
  BY <1>2 DEF Ledger
<1>6. /\ k.asset[t].supply = q /\ k.asset[t].admin = l.asset[t].admin
      /\ k.asset[t].min_balance = l.asset[t].min_balance
      /\ k.asset[t].status = l.asset[t].status
  BY <1>3, <1>5 DEF AssetDetails
<1>7. Live(k, t)
  BY <1>2, <1>6 DEF Live, MintedIn
<1>8. PICK c : c = AllowancesOf(l, t)
  OBVIOUS
<1>9. AllowancesOf(k, t) = c
  BY <1>2, <1>8, AllowancesSame
<1>10. /\ Abstract!Live(t) /\ Tokens'[t] # Tokens[t]
       /\ Tokens[t].min_balance = l.asset[t].min_balance /\ Tokens[t].supply = p
       /\ Tokens[t].balance = b /\ Tokens[t].allowance = c
  BY <1>1, <1>2, <1>8, SeenBefore
<1>11. Abstract!Becomes(t, q, z, c)
  BY <1>2, <1>4, <1>6, <1>7, <1>9, SeenAfter
<1>12. Abstract!Mint(t, to, n)
  BY <1>1, <1>2, <1>10, <1>11 DEF Abstract!Mint
<1>13. n \in Balance \ {0}
  BY <1>2
<1> QED
  BY <1>10, <1>12, <1>13 DEF Abstract!Next

\* burn, with its dust.
LEMMA BurntSeen ==
    ASSUME NEW l \in Ledger, NEW k \in Ledger, NEW t \in TokenId, Changes(l, k, t),
           NEW from \in AccountId, NEW n \in Balance, BurntIn(l, k, t, from, n)
    PROVE  Abstract!Next
<1>1. PICK b, z, p, q, d :
          /\ b = l.account[t] /\ d = n + Dust(l, t, from, n) /\ z = [b EXCEPT ![from] = b[from] - d]
          /\ p = l.asset[t].supply /\ q = p - d
  OBVIOUS
<1>2. /\ Live(l, t) /\ n > 0 /\ k.approval = l.approval /\ n <= b[from] /\ l.asset[t] # None
      /\ k.account = [l.account EXCEPT ![t] = z] /\ k.asset[t] # None
      /\ k.asset = [l.asset EXCEPT ![t] = [l.asset[t] EXCEPT !.supply = q]]
  BY <1>1 DEF BurntIn, Live
<1>3. l.asset[t] \in AssetDetails /\ l.account[t] \in [AccountId -> Balance]
  BY <1>2 DEF Ledger, Option
<1>4. k.account[t] = z
  BY <1>2 DEF Ledger
<1>5. k.asset[t] = [l.asset[t] EXCEPT !.supply = q]
  BY <1>2 DEF Ledger
<1>6. /\ k.asset[t].supply = q /\ k.asset[t].admin = l.asset[t].admin
      /\ k.asset[t].min_balance = l.asset[t].min_balance
      /\ k.asset[t].status = l.asset[t].status
  BY <1>3, <1>5 DEF AssetDetails
<1>7. Live(k, t)
  BY <1>2, <1>6 DEF Live
<1>8. PICK c : c = AllowancesOf(l, t)
  OBVIOUS
<1>9. AllowancesOf(k, t) = c
  BY <1>2, <1>8, AllowancesSame
<1>10. /\ Abstract!Live(t) /\ Tokens'[t] # Tokens[t]
       /\ Tokens[t].min_balance = l.asset[t].min_balance /\ Tokens[t].supply = p
       /\ Tokens[t].balance = b /\ Tokens[t].allowance = c
  BY <1>1, <1>2, <1>8, SeenBefore
<1>11. Abstract!Becomes(t, q, z, c)
  BY <1>2, <1>4, <1>6, <1>7, <1>9, SeenAfter
<1>12. n \in Nat
  BY Options
<1>13. d = IF b[from] - n >= l.asset[t].min_balance THEN n ELSE n + (b[from] - n)
  BY <1>1, <1>2, <1>12, DebitSeen
<1>14. d \in Abstract!Leaving(t, from, n)
  BY <1>10, <1>13 DEF Abstract!Leaving
<1>15. Abstract!Burn(t, from, n)
  BY <1>1, <1>2, <1>10, <1>11, <1>14 DEF Abstract!Burn
<1>16. n \in Balance \ {0}
  BY <1>2
<1> QED
  BY <1>10, <1>15, <1>16 DEF Abstract!Next

\* start_destroy, which Psp22 does not see when the token is being destroyed already.
LEMMA StoppedSeen ==
    ASSUME NEW l \in Ledger, NEW k \in Ledger, NEW t \in TokenId, Changes(l, k, t),
           StoppedIn(l, k, t)
    PROVE  Abstract!Next
<1>1. /\ l.asset[t] # None /\ k.account = l.account /\ k.approval = l.approval
      /\ k.asset = [l.asset EXCEPT ![t] = [l.asset[t] EXCEPT !.status = "Destroying"]]
  BY DEF StoppedIn
<1>2. l.asset[t] \in AssetDetails
  BY <1>1 DEF Ledger, Option
<1>3. k.asset[t] = [l.asset[t] EXCEPT !.status = "Destroying"]
  BY <1>1 DEF Ledger
<1>4. /\ k.asset[t] \in AssetDetails
      /\ k.asset[t].supply = l.asset[t].supply /\ k.asset[t].admin = l.asset[t].admin
      /\ k.asset[t].min_balance = l.asset[t].min_balance /\ k.asset[t].status = "Destroying"
  BY <1>2, <1>3 DEF AssetDetails
<1>5. k.asset[t] # None /\ Live(k, t) = FALSE
  BY <1>4, OptionAssumption DEF Live
<1>6. PICK a, m, p, b, c, y :
          /\ a = l.asset[t].admin /\ m = l.asset[t].min_balance /\ p = l.asset[t].supply
          /\ b = l.account[t] /\ c = AllowancesOf(l, t) /\ y = TokenOf(k, t)
  OBVIOUS
<1>7. AllowancesOf(k, t) = c
  BY <1>1, <1>6, AllowancesSame
<1>8. y = Abstract!TokenRecord(a, m, FALSE, p, b, c)
  BY <1>1, <1>4, <1>5, <1>6, <1>7, TokenSeen, Zenon
<1>9. Tokens[t] = TokenOf(l, t) /\ Tokens' = [Tokens EXCEPT ![t] = y] /\ Tokens'[t] # Tokens[t]
  BY <1>6 DEF Changes
<1>10. CASE Live(l, t)
  <2>1. /\ Abstract!Live(t) /\ Tokens[t].admin = a /\ Tokens[t].min_balance = m
        /\ Tokens[t].supply = p /\ Tokens[t].balance = b /\ Tokens[t].allowance = c
    BY <1>6, <1>10, SeenBefore
  <2>2. Abstract!StartDestroy(t)
    BY <1>8, <1>9, <2>1, Zenon DEF Abstract!StartDestroy
  <2> QED
    BY <1>9, <2>2 DEF Abstract!Next
<1>11. CASE ~ Live(l, t)
  <2>1. Live(l, t) = FALSE
    BY <1>11 DEF Live
  <2>2. TokenOf(l, t) = Abstract!TokenRecord(a, m, FALSE, p, b, c)
    BY <1>1, <1>6, <2>1, TokenSeen, Zenon
  <2>3. Tokens[t] = y
    BY <1>8, <1>9, <2>2, Zenon
  <2>4. Tokens' = Tokens
    BY <1>9, <2>3 DEF Tokens
  <2> QED
    BY <1>9, <2>4
<1> QED
  BY <1>10, <1>11

\* create: nothing was left under the id.
LEMMA CreatedSeen ==
    ASSUME NEW l, Sound(l), NEW k \in Ledger, NEW t \in TokenId, Changes(l, k, t),
           NEW o \in AccountId, NEW a \in AccountId, NEW m \in Balance,
           CreatedIn(l, k, t, o, a, m)
    PROVE  Abstract!Next
<1>1. l \in Ledger /\ l.asset[t] = None /\ Blank(l, t)
  BY DEF Sound, CreatedIn
<1>2. /\ m > 0 /\ k.account = l.account /\ k.approval = l.approval
      /\ k.asset = [l.asset EXCEPT ![t] = [owner |-> o, admin |-> a, supply |-> 0,
                                           min_balance |-> m, status |-> "Live"]]
  BY DEF CreatedIn
<1>3. k.asset[t] = [owner |-> o, admin |-> a, supply |-> 0, min_balance |-> m, status |-> "Live"]
  BY <1>1, <1>2 DEF Ledger
<1>4. 0 \in Balance
  BY AssetsAssumption DEF Balance
<1>5. /\ k.asset[t] \in AssetDetails /\ k.asset[t].supply = 0 /\ k.asset[t].admin = a
      /\ k.asset[t].min_balance = m /\ k.asset[t].status = "Live"
  BY <1>3, <1>4 DEF AssetDetails
<1>6. Live(k, t)
  BY <1>5, OptionAssumption DEF Live
<1>7. PICK y, b, c : y = TokenOf(k, t) /\ b = k.account[t] /\ c = AllowancesOf(k, t)
  OBVIOUS
<1>8. y = Abstract!TokenRecord(a, m, TRUE, 0, b, c)
  BY <1>5, <1>6, <1>7, LiveSeen
<1>9. b = [u \in AccountId |-> 0]
  <2>1. l.account[t] \in [AccountId -> Balance]
    BY <1>1 DEF Ledger
  <2> QED
    BY <1>1, <1>2, <1>7, <2>1 DEF Blank
<1>10. c = [u \in AccountId |-> [v \in AccountId |-> 0]]
  <2>1. ASSUME NEW u \in AccountId, NEW v \in AccountId PROVE allowance(k, t, u, v) = 0
    BY <1>1, <1>2, <2>1 DEF Blank, allowance
  <2> QED
    BY <1>7, <2>1 DEF AllowancesOf
<1>11. Tokens[t] = None /\ Tokens' = [Tokens EXCEPT ![t] = y] /\ Tokens'[t] # Tokens[t]
  BY <1>1, <1>7, TokenUnseen DEF Changes
<1>12. ~ Abstract!Exists(t)
  BY <1>11 DEF Abstract!Exists
<1>13. Abstract!Create(t, a, m)
  BY <1>2, <1>8, <1>9, <1>10, <1>11, <1>12, Zenon DEF Abstract!Create
<1> QED
  BY <1>11, <1>13 DEF Abstract!Next

\* The end of a destruction.
LEMMA DestroyedSeen ==
    ASSUME NEW l \in Ledger, NEW k, NEW t \in TokenId, Changes(l, k, t), DestroyedIn(l, k, t)
    PROVE  Abstract!Next
<1>1. l.asset[t] # None /\ Live(l, t) = FALSE /\ k.asset[t] = None
  BY DEF DestroyedIn, Live
<1>2. PICK x, a, m, p, b, c :
          /\ x = TokenOf(l, t) /\ a = l.asset[t].admin /\ m = l.asset[t].min_balance
          /\ p = l.asset[t].supply /\ b = l.account[t] /\ c = AllowancesOf(l, t)
  OBVIOUS
<1>3. x = Abstract!TokenRecord(a, m, FALSE, p, b, c) /\ x # None
  BY <1>1, <1>2, TokenSeen, Zenon
<1>4. x.live = FALSE
  BY <1>3 DEF Abstract!TokenRecord
<1>5. Tokens[t] = x /\ Tokens' = [Tokens EXCEPT ![t] = None] /\ Tokens'[t] # Tokens[t]
  BY <1>1, <1>2, TokenUnseen DEF Changes
<1>6. Abstract!Exists(t) /\ ~ Abstract!Live(t)
  BY <1>3, <1>4, <1>5 DEF Abstract!Live, Abstract!Exists
<1>7. Abstract!Destroy(t)
  BY <1>5, <1>6 DEF Abstract!Destroy
<1> QED
  BY <1>5, <1>7 DEF Abstract!Next

\* The effect of a call is a step of Psp22, or Psp22 does not see it.
LEMMA EffectSeen ==
    ASSUME NEW l, Sound(l), NEW k, Sound(k), NEW o \in AccountId, NEW c, CallOK(c),
           Changes(l, k, c.token), Effect(l, o, c, k)
    PROVE  Abstract!Next
<1>1. l \in Ledger /\ k \in Ledger
  BY DEF Sound
<1>2. PICK t \in TokenId, n \in Nat, name \in DOMAIN CallIndex :
          t = c.token /\ n = c.value /\ name = c.name
  BY DEF CallOK
<1>3. k # l /\ Changes(l, k, t) /\ TokenOf(k, t) # TokenOf(l, t)
  <2>1. Changes(l, k, t)
    BY <1>2
  <2>2. DOMAIN Tokens = TokenId
    BY DEF Tokens
  <2>3. TokenOf(k, t) # TokenOf(l, t)
    BY <2>1, <2>2 DEF Changes
  <2> QED
    BY <2>1, <2>3
<1>4. /\ name \in TakesWho => c.who \in AccountId
      /\ name \in TakesOther => c.other \in AccountId
      /\ name # "set_metadata" => n \in Balance
  BY <1>2 DEF CallOK, Typed
<1>5. CASE name = "transfer"
  <2>1. PICK who \in AccountId : who = c.who
    BY <1>4, <1>5 DEF TakesWho, TakesOther
  <2>2. MovedIn(l, k, t, o, who, n, TRUE)
    BY <1>2, <1>3, <1>5, <2>1 DEF Effect
  <2> QED
    BY <1>1, <1>3, <1>4, <1>5, <2>2, MovedSeen
<1>6. CASE name = "transfer_from"
  <2>1. PICK who \in AccountId, other \in AccountId : who = c.who /\ other = c.other
    BY <1>4, <1>6 DEF TakesWho, TakesOther
  <2>2. SpentIn(l, k, t, o, who, other, n)
    BY <1>2, <1>6, <2>1 DEF Effect
  <2> QED
    BY <1>1, <1>3, <1>4, <1>6, <2>2, SpentSeen
<1>7. CASE name \in {"approve", "increase_allowance", "decrease_allowance"}
  <2>1. PICK who \in AccountId : who = c.who
    BY <1>4, <1>7 DEF TakesWho, TakesOther
  <2>2. PICK v : AllowedIn(l, k, t, o, who, v)
    BY <1>2, <1>7, <2>1 DEF Effect
  <2>3. Live(l, t) /\ k.asset = l.asset /\ k.account = l.account
    BY <1>3, <2>2 DEF AllowedIn
  <2>4. PICK x : k.approval = [l.approval EXCEPT ![t][o][who] = x]
    BY <1>3, <2>2 DEF AllowedIn
  <2> QED
    BY <1>1, <1>3, <2>3, <2>4, AllowedSeen
<1>8. CASE name = "create"
  <2>1. PICK who \in AccountId : who = c.who
    BY <1>4, <1>8 DEF TakesWho, TakesOther
  <2>2. CreatedIn(l, k, t, o, who, n)
    BY <1>2, <1>8, <2>1 DEF Effect
  <2> QED
    BY <1>1, <1>3, <1>4, <1>8, <2>2, CreatedSeen
<1>9. CASE name = "start_destroy"
  <2>1. StoppedIn(l, k, t)
    BY <1>2, <1>9 DEF Effect
  <2> QED
    BY <1>1, <1>3, <2>1, StoppedSeen
<1>10. CASE name \in {"set_metadata", "clear_metadata"}
  <2>1. k.asset = l.asset /\ k.account = l.account /\ k.approval = l.approval
    BY <1>2, <1>10 DEF Effect, DescribedIn
  <2>2. TokenOf(k, t) = TokenOf(l, t)
    BY <2>1 DEF TokenOf, Live, total_supply, allowance
  <2> QED
    BY <1>3, <2>2
<1>11. CASE name = "mint"
  <2>1. PICK who \in AccountId : who = c.who
    BY <1>4, <1>11 DEF TakesWho, TakesOther
  <2>2. MintedIn(l, k, t, who, n)
    BY <1>2, <1>3, <1>11, <2>1 DEF Effect
  <2> QED
    BY <1>1, <1>3, <1>4, <1>11, <2>2, MintedSeen
<1>12. CASE name = "burn"
  <2>1. PICK who \in AccountId : who = c.who
    BY <1>4, <1>12 DEF TakesWho, TakesOther
  <2>2. BurntIn(l, k, t, who, n)
    BY <1>2, <1>3, <1>12, <2>1 DEF Effect
  <2> QED
    BY <1>1, <1>3, <1>4, <1>12, <2>2, BurntSeen
<1> QED
  BY <1>2, <1>5, <1>6, <1>7, <1>8, <1>9, <1>10, <1>11, <1>12 DEF CallOK, CallIndex

\* From the ledgers that the chain keeps to the tokens of Psp22.
LEMMA LedgersSeen ==
    ASSUME NEW l, Committed = l, NEW k, Committed' = k, NEW t \in TokenId, OnlyToken(l, k, t)
    PROVE  Tokens' = Tokens \/ Changes(l, k, t)
<1>1. PICK v, w : v = Tokens /\ w = Tokens'
  OBVIOUS
<1>2. v = View(l) /\ w = View(k)
  BY <1>1 DEF Tokens, View
<1>3. /\ w = [v EXCEPT ![t] = TokenOf(k, t)] /\ (TokenOf(k, t) = TokenOf(l, t) => w = v)
      /\ v[t] = TokenOf(l, t) /\ w[t] = TokenOf(k, t)
  BY <1>2, ViewChanges, TokenUnseen
<1> QED
  BY <1>1, <1>3 DEF Changes

\* As long as the chain keeps the same ledger, Psp22 sees the same tokens.
LEMMA SameTokens ==
    ASSUME Committed' = Committed
    PROVE  Tokens' = Tokens
BY DEF Tokens

\* A contract call that ends leaves the ledger it started from, or the result of its call.
LEMMA OutcomeSeen ==
    ASSUME Inv, env # None, NEW c \in CallType, Typed(c.name, c),
           Committed' \in {frame.saved, Outcome(c).ledger}
    PROVE  Abstract!Next \/ Tokens' = Tokens
<1>1. /\ frame # None /\ frame.stage # "done" /\ Sound(frame.saved) /\ frame.contract \in AccountId
  BY AtWork
<1>2. PICK l, k, o, r : /\ l = frame.saved /\ k = Committed' /\ o = frame.contract
                        /\ r = DispatchCall(l, o, c)
  OBVIOUS
<1>3. Committed = l
  BY <1>1, <1>2 DEF Committed
<1>4. /\ Whole(l, o, c, r, PreDispatchWeight(c))
      /\ r.error = None => c.name \in DOMAIN CallIndex
  BY <1>1, <1>2, ExtensionEffect
<1>5. k = l \/ k = r.ledger
  BY <1>2 DEF Outcome
<1>6. CASE k = l
  BY <1>2, <1>3, <1>6, SameTokens
<1>7. CASE k = r.ledger /\ r.error = None
  <2>1. CallOK(c)
    BY <1>4, <1>7 DEF CallOK, CallType
  <2>2. Sound(l) /\ Sound(k) /\ Effect(l, o, c, k) /\ OnlyToken(l, k, c.token) /\ o \in AccountId
    BY <1>1, <1>2, <1>4, <1>7 DEF Whole
  <2>3. c.token \in TokenId
    BY <2>1 DEF CallOK
  <2>4. Tokens' = Tokens \/ Changes(l, k, c.token)
    BY <1>2, <1>3, <2>2, <2>3, LedgersSeen
  <2> QED
    BY <2>1, <2>2, <2>4, EffectSeen
<1> QED
  BY <1>4, <1>5, <1>6, <1>7 DEF Whole

\* The call that a request denotes, when it has returned.
LEMMA ReturnedCall ==
    ASSUME Inv, InPhase("returned"), frame.stage = "api"
    PROVE  /\ env.call \in CallType /\ Typed(env.call.name, env.call)
           /\ ledger \in {frame.saved, Outcome(env.call).ledger}
<1>1. frame # None /\ env # None /\ env.phase = "returned"
  BY DEF InPhase
<1>2. env.call # None /\ env.call = Decoded(env.id, env.input)
  BY <1>1, EnvFacts
<1>3. env.call \in CallType /\ Typed(env.call.name, env.call)
  BY <1>1, <1>2, CallInProgress
<1>4. ledger = frame.saved \/ ledger = Outcome(env.call).ledger
  BY <1>1 DEF Inv, EffectInv
<1> QED
  BY <1>3, <1>4

\* The steps with which a contract call ends, or goes on after its call.
LEMMA ResumeSeen ==
    ASSUME Inv, Resume
    PROVE  Abstract!Next \/ Tokens' = Tokens
<1>1. frame # None /\ env # None /\ InPhase("returned") /\ frame.stage = "api"
  BY DEF Resume, InPhase
<1>2. PICK c \in CallType : c = env.call /\ Typed(c.name, c)
                           /\ ledger \in {frame.saved, Outcome(c).ledger}
  BY <1>1, ReturnedCall
<1>3. ledger' \in {ledger, frame.saved}
  BY DEF Resume
<1>4. frame \in FrameType
  BY <1>1, AtWork
<1>5. PICK events : events = EventsOf(frame.message)
  OBVIOUS
<1>6. \/ \E result, value : frame' = Done(frame, result, value, <<>>)
      \/ \E result, value : frame' = Done(frame, result, value, events)
      \/ frame' = [frame EXCEPT !.stage = "allowance", !.events = events]
  BY <1>5 DEF Resume
<1>7. frame'.saved = frame.saved
  <2>1. ASSUME NEW result, NEW value, NEW emitted, frame' = Done(frame, result, value, emitted)
        PROVE  frame'.saved = frame.saved
    BY <1>4, <2>1 DEF Done, FrameType
  <2>2. CASE frame' = [frame EXCEPT !.stage = "allowance", !.events = events]
    BY <1>4, <2>2 DEF FrameType
  <2> QED
    BY <1>6, <2>1, <2>2
<1>8. Committed' \in {frame.saved, Outcome(c).ledger}
  BY <1>2, <1>3, <1>7 DEF Committed
<1> QED
  BY <1>1, <1>2, <1>8, OutcomeSeen

LEMMA ResumeRequesterSeen ==
    ASSUME Inv, ResumeRequester
    PROVE  Abstract!Next \/ Tokens' = Tokens
<1>1. /\ frame # None /\ env # None /\ InPhase("returned") /\ frame.contract = Requester
      /\ UNCHANGED ledger
  BY DEF ResumeRequester, InPhase
<1>2. frame.stage = "api" /\ frame \in FrameType
  BY <1>1, AtWork, ContractAssumption DEF Inv, FrameInv
<1>3. PICK c \in CallType : c = env.call /\ Typed(c.name, c)
                           /\ ledger \in {frame.saved, Outcome(c).ledger}
  BY <1>1, <1>2, ReturnedCall
<1>4. PICK result, value : frame' = Done(frame, result, value, <<>>)
  BY DEF ResumeRequester
<1>5. frame'.saved = frame.saved
  BY <1>2, <1>4 DEF Done, FrameType
<1>6. Committed' \in {frame.saved, Outcome(c).ledger}
  BY <1>1, <1>3, <1>5 DEF Committed
<1> QED
  BY <1>1, <1>3, <1>6, OutcomeSeen

LEMMA ResumeWithAllowanceSeen ==
    ASSUME Inv, ResumeWithAllowance
    PROVE  Abstract!Next \/ Tokens' = Tokens
<1>1. /\ frame # None /\ env # None /\ frame.stage = "allowance" /\ UNCHANGED ledger
  BY DEF ResumeWithAllowance, InPhase
<1>2. PICK m, c : m = frame.message /\ c = MessageCall(m)
  OBVIOUS
<1>3. /\ m \in MessageType /\ Typed(m.name, m) /\ ReadsAllowance(m)
      /\ m.name # "transfer_ownership" /\ frame \in FrameType
  BY <1>1, <1>2, AtWork DEF Inv, FrameInv
<1>4. ~ IsRead(m.name)
  BY <1>3 DEF ReadsAllowance, IsRead, ApiStateQuery
<1>5. c \in CallType /\ Typed(c.name, c)
  BY <1>2, <1>3, <1>4, MessageCalls
<1>6. ledger = Outcome(c).ledger
  BY <1>1, <1>2 DEF Inv, EffectInv
<1>7. \E events : frame' = Done(frame, "Ok", None, events)
  BY DEF ResumeWithAllowance
<1>8. frame'.saved = frame.saved
  BY <1>3, <1>7 DEF Done, FrameType
<1>9. Committed' \in {frame.saved, Outcome(c).ledger}
  BY <1>1, <1>6, <1>8 DEF Committed
<1> QED
  BY <1>1, <1>5, <1>9, OutcomeSeen

\* Every step is one of Psp22, or Psp22 does not see it.
LEMMA StepSeen ==
    ASSUME Inv, [Next]_vars
    PROVE  Abstract!Next \/ Tokens' = Tokens
<1>1. CASE UNCHANGED vars
  <2>1. Committed' = Committed
    BY <1>1 DEF Committed, vars
  <2> QED
    BY <2>1, SameTokens
<1>2. CASE ExtensionStep /\ UNCHANGED owner
  <2>1. Committed' = Committed
    BY <1>2, ExtensionLeaves DEF Committed
  <2> QED
    BY <2>1, SameTokens
<1>3. CASE Trap
  <2>1. /\ frame # None /\ env # None /\ ledger' = frame.saved
        /\ frame' = [Done(frame, "Trap", None, <<>>) EXCEPT !.events = <<>>]
    BY <1>3 DEF Trap, InPhase
  <2>2. frame \in FrameType /\ frame.stage # "done"
    BY <2>1, AtWork
  <2>3. frame'.saved = frame.saved
    BY <2>1, <2>2 DEF Done, FrameType
  <2>4. Committed' = Committed
    BY <2>1, <2>2, <2>3 DEF Committed
  <2> QED
    BY <2>4, SameTokens
<1>4. CASE Leave
  <2>1. Committed' = Committed
    BY <1>4 DEF Leave, Committed
  <2> QED
    BY <2>1, SameTokens
<1>5. ASSUME NEW f, f.saved = ledger, frame = None, UNCHANGED ledger, frame'.saved = f.saved
      PROVE  Tokens' = Tokens
  <2>1. Committed' = Committed
    BY <1>5 DEF Committed
  <2> QED
    BY <2>1, SameTokens
<1>6. ASSUME NEW gas \in GasLimit, NEW caller \in Caller, NEW m \in Message,
             CallContract(caller, m, gas)
      PROVE  Tokens' = Tokens
  <2>1. PICK f : f = Frame(Contract, caller, m, gas)
    OBVIOUS
  <2>2. f.saved = ledger
    BY <2>1 DEF Frame
  <2>3. frame' = f \/ \E result : frame' = Done(f, result, None, <<>>)
    BY <1>6, <2>1 DEF CallContract
  <2>4. frame'.saved = f.saved
    <3>1. ASSUME NEW result, frame' = Done(f, result, None, <<>>) PROVE frame'.saved = f.saved
      BY <2>1, <3>1 DEF Done, Frame
    <3> QED
      BY <2>3, <3>1
  <2>5. frame = None /\ UNCHANGED ledger
    BY <1>6 DEF CallContract
  <2> QED
    BY <1>5, <2>2, <2>4, <2>5
<1>7. ASSUME NEW gas \in GasLimit, NEW request \in Requests, CallRequester(request, gas)
      PROVE  Tokens' = Tokens
  <2>1. PICK f : f = Frame(Requester, None, None, gas)
    OBVIOUS
  <2>2. f.saved = ledger
    BY <2>1 DEF Frame
  <2>3. frame' = f /\ frame = None /\ UNCHANGED ledger
    BY <1>7, <2>1 DEF CallRequester
  <2> QED
    BY <1>5, <2>2, <2>3
<1>8. ASSUME NEW x \in Extrinsic, SubmitExtrinsic(x.origin, x.call)
      PROVE  Abstract!Next \/ Tokens' = Tokens
  <2>1. PICK o, c, r : o = x.origin /\ c = x.call /\ r = Dispatch(ledger, o, c)
    OBVIOUS
  <2>2. Sound(ledger) /\ o \in AccountId /\ CallOK(c)
    BY <2>1, ArgumentsAssumption DEF Inv, CallOK
  <2>3. Whole(ledger, o, c, r, DispatchWeight(c))
    BY <2>1, <2>2, DispatchEffect
  <2>4. frame = None /\ frame' = None /\ ledger' = r.ledger
    BY <1>8, <2>1 DEF SubmitExtrinsic
  <2>5. PICK l, k : l = ledger /\ k = ledger'
    OBVIOUS
  <2>6. Committed = l /\ Committed' = k
    BY <2>4, <2>5 DEF Committed
  <2>7. CASE r.error # None
    <3>1. Committed' = Committed
      BY <2>3, <2>4, <2>5, <2>6, <2>7 DEF Whole
    <3> QED
      BY <3>1, SameTokens
  <2>8. CASE r.error = None
    <3>1. Sound(l) /\ Sound(k) /\ Effect(l, o, c, k) /\ OnlyToken(l, k, c.token)
      BY <2>2, <2>3, <2>4, <2>5, <2>8 DEF Whole
    <3>2. c.token \in TokenId
      BY <2>2 DEF CallOK
    <3>3. Tokens' = Tokens \/ Changes(l, k, c.token)
      BY <2>6, <3>1, <3>2, LedgersSeen
    <3> QED
      BY <2>2, <3>1, <3>3, EffectSeen
  <2> QED
    BY <2>7, <2>8
<1>9. ASSUME NEW t \in TokenId, DestroyToken(t)
      PROVE  Abstract!Next \/ Tokens' = Tokens
  <2>1. PICK l, k : l = ledger /\ k = ledger'
    OBVIOUS
  <2>2. /\ Sound(l) /\ frame = None /\ frame' = None /\ assets_destroy(l, t).error = None
        /\ k = assets_destroy(l, t).ledger
    BY <1>9, <2>1 DEF DestroyToken, Inv
  <2>3. Committed = l /\ Committed' = k
    BY <2>1, <2>2 DEF Committed
  <2>4. OnlyToken(l, k, t) /\ DestroyedIn(l, k, t) /\ l \in Ledger
    BY <2>2, DestroyEffect DEF Sound
  <2>5. Tokens' = Tokens \/ Changes(l, k, t)
    BY <2>3, <2>4, LedgersSeen
  <2> QED
    BY <2>4, <2>5, DestroyedSeen
<1>10. CASE Pipeline
  BY <1>2, <1>3, <1>4, <1>10, ResumeSeen, ResumeWithAllowanceSeen, ResumeRequesterSeen DEF Pipeline
<1>11. CASE Users
  BY <1>6, <1>7, <1>8, <1>9, <1>11 DEF Users
<1> QED
  BY <1>1, <1>10, <1>11 DEF Next

\* The fungibles API implements the abstract tokens of Psp22 (fungibles/mod.rs, functions.rs
\* DispatchCall::execute): seen through the ledger that the chain keeps, a contract call is
\* one whole operation at the moment it ends, or none, wherever it traps, runs out of gas or
\* is refused; and so is a user's extrinsic. The refinement mapping is Tokens; Inv says that
\* a contract call has dispatched at most one call on the ledger it started from.
THEOREM PopApiImplementsPsp22 == Spec => ImplementsPsp22
<1>1. Init => Abstract!Init
  <2> SUFFICES ASSUME Init PROVE Abstract!Init
    OBVIOUS
  <2>1. Committed = EmptyLedger
    BY DEF Init, Committed
  <2>2. ASSUME NEW t \in TokenId PROVE TokenOf(EmptyLedger, t) = None
    <3>1. EmptyLedger.asset[t] = None
      BY DEF EmptyLedger
    <3> QED
      BY <3>1 DEF TokenOf
  <2> QED
    BY <2>1, <2>2 DEF Abstract!Init, Tokens
<1>2. Inv /\ [Next]_vars => [Abstract!Next]_Tokens
  BY StepSeen
<1> QED
  BY <1>1, <1>2, InvAlways, PTL DEF Spec, ImplementsPsp22, Abstract!Spec
=============================================================================
