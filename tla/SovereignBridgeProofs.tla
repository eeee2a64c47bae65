----------------------- MODULE SovereignBridgeProofs -----------------------
(***************************************************************************)
(* The bridge of a sovereign chain for any tokens, roots and bounds: its   *)
(* hash chains tell its maps, its local balances are what came less what   *)
(* left, and they are what users hold of the contracts of each token.      *)
(***************************************************************************)
EXTENDS SovereignBridge, SumProofs, SequenceTheorems, TLAPS

Claims == [globalIndex : ClaimIndexes, leaf : InboundLeaves]

RootsTyped ==
    /\ globalExitRootMap \subseteq GlobalExitRoots
    /\ insertedGERHashChain \in Seq(GlobalExitRoots)
    /\ removedGERHashChain \in Seq(GlobalExitRoots)

ClaimsTyped ==
    /\ claimedBitMap \subseteq Nat
    /\ claimedGlobalIndexHashChain \in Seq(Claims)
    /\ unsetGlobalIndexHashChain \in Seq(UnsetIndexes)

BalancesTyped ==
    /\ localBalanceTree \in [Foreign -> Nat]
    /\ exitTree \in Seq(InboundLeaves)

MapsTyped ==
    /\ tokenInfoToWrappedToken \in [Foreign -> Addresses \cup {NoAddress}]
    /\ wrappedTokenToTokenInfo \in [Addresses -> Foreign \cup {NoToken}]
    /\ wrappedAddressIsNotMintable \in [Addresses -> BOOLEAN]
    /\ WETHToken \in WETHTokens \cup {ProxyOf[Ether], NoAddress}
    /\ HasWETH <=> WETHToken # NoAddress
    /\ deployed \subseteq Addresses
    /\ servedToken \in [Addresses -> Foreign \cup {NoToken}]

MoneyTyped ==
    /\ held \in [Addresses \cup {NoAddress} -> Nat]
    /\ custody \in [Addresses -> Nat]

TypeOK ==
    /\ gasToken \in GasTokens /\ isEmergencyState \in BOOLEAN
    /\ RootsTyped /\ ClaimsTyped /\ BalancesTyped /\ MapsTyped /\ MoneyTyped

\* Contracts that may be wrapped ether stand for nothing else.
WETHContracts == IF HasWETH THEN WETHTokens \cup {ProxyOf[Ether]} ELSE {}

(***************************************************************************)
(* The token maps: a contract serves the token it is mapped to, and has    *)
(* served no other; the one in force is mapped back; proxies serve their   *)
(* token only; the bridge knows which contracts it cannot mint.            *)
(***************************************************************************)
MapsOK ==
    /\ \A a \in Addresses :
           LET t == wrappedTokenToTokenInfo[a]
           IN t # NoToken => servedToken[a] = t /\ tokenInfoToWrappedToken[t] # NoAddress
    /\ \A t \in Foreign :
           LET a == tokenInfoToWrappedToken[t]
           IN a # NoAddress => wrappedTokenToTokenInfo[a] = t
    /\ \A a \in Addresses :
           servedToken[a] # NoToken => servedToken[a] # Ether /\ a \notin WETHContracts
    /\ \A t \in Foreign :
           servedToken[ProxyOf[t]] # NoToken
               => servedToken[ProxyOf[t]] = t /\ ProxyOf[t] \in deployed
    /\ \A a \in Addresses :
           /\ wrappedAddressIsNotMintable[a] => a \in NotMintable
           /\ (a \in NotMintable /\ (wrappedTokenToTokenInfo[a] # NoToken \/ a = WETHToken))
                  => wrappedAddressIsNotMintable[a]

\* A contract that stood for nothing is only moved as a token of this chain.
OwnOnly ==
    \A a \in Addresses :
        servedToken[a] = NoToken /\ a \notin WETHContracts => Represented[a] = 0

\* HoldersCanExit without what follows from the maps.
BalancesRepresented ==
    \A t \in Foreign : SumFunctionOnSet(Represented, EverStoodFor(t)) = localBalanceTree[t]

SovereignIInv ==
    /\ TypeOK /\ MapsOK /\ HashChainsAccount /\ BalanceTreeIsNet
    /\ OwnOnly /\ BalancesRepresented /\ NotMintableConserved

-----------------------------------------------------------------------------
(* Lists of entries. *)

LEMMA CountNat == ASSUME NEW S, NEW list \in Seq(S), NEW x PROVE Count(list, x) \in Nat
<1>1. IsFiniteSet(1..Len(list)) /\ {i \in 1..Len(list) : list[i] = x} \subseteq 1..Len(list)
  BY FS_Interval
<1> QED BY <1>1, FS_Subset, FS_CardinalityType DEF Count

LEMMA CountOfNone == ASSUME NEW x PROVE Count(<<>>, x) = 0
<1>1. {i \in 1..Len(<<>>) : <<>>[i] = x} = {}
  OBVIOUS
<1> QED BY <1>1, FS_EmptySet DEF Count

\* A list joined to another is counted with it.
LEMMA CountJoined ==
    ASSUME NEW S, NEW a \in Seq(S), NEW b \in Seq(S), NEW x
    PROVE  Count(a \o b, x) = Count(a, x) + Count(b, x)
<1> DEFINE n == Len(a)
           m == Len(b)
           A == {i \in 1..n : a[i] = x}
           B == {i \in 1..m : b[i] = x}
           C == {i \in 1..Len(a \o b) : (a \o b)[i] = x}
           D == {i \in C : i > n}
           shift == [i \in B |-> n + i]
<1>1. n \in Nat /\ m \in Nat /\ Len(a \o b) = n + m
  OBVIOUS
<1>2. /\ \A i \in 1..n : (a \o b)[i] = a[i]
      /\ \A i \in 1..m : (a \o b)[n + i] = b[i]
  OBVIOUS
<1>3. C = A \cup D /\ A \cap D = {}
  <2>1. ASSUME NEW i \in C, i \notin A PROVE i > n
    BY <1>1, <1>2, <2>1
  <2>2. A \subseteq C
    BY <1>1, <1>2
  <2> QED BY <1>1, <2>1, <2>2
<1>4. /\ IsFiniteSet(A) /\ IsFiniteSet(B) /\ IsFiniteSet(D)
  <2>1. IsFiniteSet(1..n) /\ IsFiniteSet(1..m) /\ IsFiniteSet(1..(n + m))
    BY <1>1, FS_Interval
  <2>2. A \subseteq 1..n /\ B \subseteq 1..m /\ D \subseteq 1..(n + m)
    BY <1>1
  <2> QED BY <2>1, <2>2, FS_Subset
<1>5. shift \in Bijection(B, D)
  <2>1. \A i \in B : i \in Nat /\ n + i \in D
    BY <1>1, <1>2
  <2>2. \A k \in D : k - n \in B /\ n + (k - n) = k
    <3>1. ASSUME NEW k \in D PROVE k - n \in 1..m /\ n + (k - n) = k
      BY <1>1
    <3>2. ASSUME NEW k \in D PROVE b[k - n] = x
      BY <3>1, <1>2
    <3> QED BY <3>1, <3>2
  <2> HIDE DEF B, D
  <2>3. \A k \in D : \E i \in B : shift[i] = k
    BY <2>2
  <2>4. \A i, j \in B : shift[i] = shift[j] => i = j
    BY <2>1, <1>1
  <2>5. shift \in [B -> D]
    BY <2>1
  <2> HIDE DEF shift
  <2> QED BY <2>3, <2>4, <2>5 DEF Bijection, Injection, Surjection, IsInjective
<1>6. Cardinality(D) = Cardinality(B)
  <2>1. ExistsBijection(B, D) /\ IsFiniteSet(B)
    BY <1>4, <1>5 DEF ExistsBijection
  <2> HIDE DEF B, D, shift
  <2> QED BY <2>1, FS_Bijection
<1>7. Cardinality(C) = Cardinality(A) + Cardinality(D) - Cardinality(A \cap D)
  BY <1>3, <1>4, FS_Union
<1>8. Cardinality(A) \in Nat /\ Cardinality(D) \in Nat /\ Cardinality(A \cap D) = 0
  BY <1>3, <1>4, FS_CardinalityType, FS_EmptySet
<1> HIDE DEF A, B, C, D, shift
<1>9. Cardinality(C) = Cardinality(A) + Cardinality(B)
  BY <1>6, <1>7, <1>8
<1> QED BY <1>9 DEF A, B, C, Count

LEMMA CountOfOne == ASSUME NEW x, NEW y PROVE Count(<<y>>, x) = (IF x = y THEN 1 ELSE 0)
<1>1. {i \in 1..Len(<<y>>) : <<y>>[i] = x} = IF x = y THEN {1} ELSE {}
  OBVIOUS
<1> QED BY <1>1, FS_EmptySet, FS_Singleton DEF Count

LEMMA CountAppended ==
    ASSUME NEW S, NEW list \in Seq(S), NEW y \in S, NEW x
    PROVE  Count(Append(list, y), x) = Count(list, x) + (IF x = y THEN 1 ELSE 0)
<1>1. Append(list, y) = list \o <<y>> /\ <<y>> \in Seq(S)
  OBVIOUS
<1>2. Count(list \o <<y>>, x) = Count(list, x) + Count(<<y>>, x)
  BY <1>1, CountJoined
<1> QED BY <1>1, <1>2, CountOfOne

\* A list without duplicates has each of its entries once.
LEMMA CountOfDuplicateFree ==
    ASSUME NEW S, NEW list \in Seq(S), IsDuplicateFree(list), NEW x
    PROVE  Count(list, x) = (IF x \in Entries(list) THEN 1 ELSE 0)
<1> DEFINE A == {i \in 1..Len(list) : list[i] = x}
<1>1. CASE x \in Entries(list)
  <2>1. PICK i \in 1..Len(list) : list[i] = x
    BY <1>1 DEF Entries
  <2>2. A = {i}
    BY <2>1 DEF IsDuplicateFree
  <2>3. Cardinality(A) = 1
    BY <2>2, FS_Singleton
  <2> QED BY <1>1, <2>3 DEF Count
<1>2. CASE x \notin Entries(list)
  <2>1. A = {}
    BY <1>2 DEF Entries
  <2> QED BY <1>2, <2>1, FS_EmptySet DEF Count
<1> QED BY <1>1, <1>2

-----------------------------------------------------------------------------
(* Lists of leaves. *)

LEMMA LeavesAre ==
    ASSUME NEW leaf \in InboundLeaves
    PROVE  leaf.amount \in Nat /\ leaf.token \in Foreign \cup Addresses
           /\ leaf.token = BalanceToken(leaf)
  BY SovereignAssumption DEF InboundLeaves, BalanceToken

LEMMA WorthOfNone == ASSUME NEW t PROVE Worth(<<>>, t) = 0
<1>1. {i \in 1..Len(<<>>) : <<>>[i].token = t} = {}
  OBVIOUS
<1> QED BY <1>1, SumOfNone DEF Worth

LEMMA WorthNat ==
    ASSUME NEW list \in Seq(InboundLeaves), NEW t
    PROVE  Worth(list, t) \in Nat
<1> DEFINE f == [i \in 1..Len(list) |-> list[i].amount]
           S == {i \in 1..Len(list) : list[i].token = t}
<1>1. IsFiniteSet(1..Len(list)) /\ S \subseteq 1..Len(list)
  BY FS_Interval
<1>2. IsFiniteSet(S)
  BY <1>1, FS_Subset
<1>3. \A i \in S : f[i] \in Nat
  BY LeavesAre
<1> HIDE DEF f, S
<1>4. SumFunctionOnSet(f, S) \in Nat
  BY <1>2, <1>3, SumNat
<1> QED BY <1>4 DEF f, S, Worth

LEMMA WorthAppended ==
    ASSUME NEW list \in Seq(InboundLeaves), NEW leaf \in InboundLeaves, NEW t
    PROVE  Worth(Append(list, leaf), t)
             = Worth(list, t) + (IF leaf.token = t THEN leaf.amount ELSE 0)
<1> DEFINE n == Len(list)
           longer == Append(list, leaf)
           f == [i \in 1..n |-> list[i].amount]
           g == [i \in 1..Len(longer) |-> longer[i].amount]
           S == {i \in 1..n : list[i].token = t}
           T == {i \in 1..Len(longer) : longer[i].token = t}
<1>1. n \in Nat /\ Len(longer) = n + 1 /\ longer[n + 1] = leaf
      /\ \A i \in 1..n : longer[i] = list[i]
  OBVIOUS
<1>2. \A i \in 1..(n + 1) : i \in 1..n \/ i = n + 1
  BY <1>1
<1>3. IsFiniteSet(S) /\ n + 1 \notin S
  <2>1. IsFiniteSet(1..n) /\ S \subseteq 1..n
    BY <1>1, FS_Interval
  <2> QED BY <1>1, <2>1, FS_Subset
<1>4. \A i \in S : g[i] = f[i] /\ f[i] \in Int
  <2>1. \A i \in S : i \in 1..n /\ i \in 1..(n + 1)
    BY <1>1
  <2>2. \A i \in S : list[i] \in InboundLeaves
    BY <2>1
  <2> QED BY <1>1, <2>1, <2>2, LeavesAre
<1>5. leaf.amount \in Nat
  BY LeavesAre
<1>6. T = IF leaf.token = t THEN S \cup {n + 1} ELSE S
  BY <1>1, <1>2
<1>7. g[n + 1] = leaf.amount
  BY <1>1
<1>8. Worth(list, t) = SumFunctionOnSet(f, S) /\ Worth(longer, t) = SumFunctionOnSet(g, T)
  BY DEF Worth
<1> HIDE DEF f, g, S, T, n, longer
<1>9. CASE leaf.token = t
  <2>1. g[n + 1] \in Int /\ T = S \cup {n + 1}
    BY <1>5, <1>6, <1>7, <1>9
  <2>2. SumFunctionOnSet(g, T) = SumFunctionOnSet(f, S) + g[n + 1]
    BY <1>3, <1>4, <2>1, SumExtend
  <2> QED BY <1>7, <1>8, <1>9, <2>2 DEF longer
<1>10. CASE leaf.token # t
  <2>1. T = S
    BY <1>6, <1>10
  <2>2. SumFunctionOnSet(g, S) = SumFunctionOnSet(f, S) /\ SumFunctionOnSet(f, S) \in Int
    BY <1>3, <1>4, SumAgree, SumInt
  <2> QED BY <1>8, <1>10, <2>1, <2>2 DEF longer
<1> QED BY <1>9, <1>10

-----------------------------------------------------------------------------
(* Types. *)

LEMMA ContractsAre ==
    /\ IsFiniteSet(Addresses)
    /\ NoAddress \notin Addresses /\ NoAddress \notin Foreign /\ NoToken \notin Foreign
    /\ Foreign \cap Addresses = {}
    /\ Ether \in Foreign /\ GasTokens \subseteq Foreign
    /\ \A t \in Foreign : ProxyOf[t] \in Addresses
    /\ SovereignTokens \subseteq Addresses /\ NotMintable \subseteq SovereignTokens
    /\ WETHTokens \subseteq Addresses /\ InitialWETH \in WETHTokens
<1> DEFINE P == {ProxyOf[t] : t \in Foreign}
           f == [t \in Foreign |-> ProxyOf[t]]
<1>1. f \in Surjection(Foreign, P)
  BY DEF Surjection
<1>2. IsFiniteSet(P)
  BY <1>1, SovereignAssumption, FS_Surjection
<1>3. IsFiniteSet(Addresses)
  BY <1>2, SovereignAssumption, FS_Union DEF Addresses
<1>4. \A t \in Foreign : ProxyOf[t] \in Addresses
  BY DEF Addresses
<1>5. SovereignTokens \subseteq Addresses
  BY DEF Addresses
<1> QED BY <1>3, <1>4, <1>5, SovereignAssumption

LEMMA AmountsAre == \A amount \in Amounts : amount \in Nat
  BY SovereignAssumption

LEMMA ClaimBitNat ==
    ASSUME NEW globalIndex \in ClaimIndexes \cup UnsetIndexes
    PROVE  ClaimBit(globalIndex) \in Nat
<1> DEFINE s == SourceOf(globalIndex)
<1>1. MaxLeafs \in Nat /\ \A i \in LeafIndexes : i \in Nat
  BY SovereignAssumption DEF LeafIndexes
<1>2. \A i \in RollupIndexes : i + 1 \in Sources /\ i + 1 \in Nat
  BY SovereignAssumption DEF RollupIndexes
<1>3. globalIndex.leafIndex \in LeafIndexes
      /\ globalIndex.indexRollup \in RollupIndexes \cup {0}
  BY DEF ClaimIndexes, UnsetIndexes
<1>4. s \in Nat
  BY <1>2, <1>3 DEF SourceOf
<1>5. s * MaxLeafs \in Nat
  BY <1>1, <1>4
<1> QED BY <1>1, <1>3, <1>5 DEF ClaimBit

\* The sources that a claim can name, and the bits that tell claims apart.
LEMMA ClaimSources ==
    ASSUME NEW globalIndex \in ClaimIndexes
    PROVE  SourceOf(globalIndex) \in Sources
<1>1. \A i \in RollupIndexes : i + 1 \in Sources
  BY SovereignAssumption DEF RollupIndexes
<1> QED BY <1>1, SovereignAssumption DEF ClaimIndexes, SourceOf

LEMMA BitsTellClaimsApart ==
    ASSUME NEW i \in ClaimIndexes, NEW j \in ClaimIndexes, ClaimBit(i) = ClaimBit(j)
    PROVE  i = j
<1> DEFINE s == SourceOf(i)
           t == SourceOf(j)
<1>1. MaxLeafs \in Nat /\ s \in Nat /\ t \in Nat
  BY ClaimSources, SovereignAssumption
<1>2. /\ i.leafIndex \in Nat /\ i.leafIndex < MaxLeafs
      /\ j.leafIndex \in Nat /\ j.leafIndex < MaxLeafs
  <2>1. i.leafIndex \in LeafIndexes /\ j.leafIndex \in LeafIndexes
    BY DEF ClaimIndexes
  <2>2. \A k \in LeafIndexes : k \in Nat /\ k < MaxLeafs
    BY <1>1 DEF LeafIndexes
  <2> QED BY <2>1, <2>2
<1>3. i.leafIndex + s * MaxLeafs = j.leafIndex + t * MaxLeafs
  BY DEF ClaimBit
<1>4. s = t /\ i.leafIndex = j.leafIndex
  <2> HIDE DEF s, t
  <2> QED BY <1>1, <1>2, <1>3, DisjointBlocks
<1>5. \A k \in RollupIndexes : k \in Int /\ k + 1 # 0
  BY SovereignAssumption DEF RollupIndexes
<1>6. i.mainnetFlag = j.mainnetFlag /\ i.indexRollup = j.indexRollup
  <2>1. \A k \in ClaimIndexes :
            \/ k.mainnetFlag = TRUE /\ k.indexRollup = 0 /\ SourceOf(k) = 0
            \/ /\ k.mainnetFlag = FALSE /\ k.indexRollup \in RollupIndexes
               /\ SourceOf(k) = k.indexRollup + 1
    BY DEF ClaimIndexes, SourceOf
  <2>2. SourceOf(i) = SourceOf(j)
    BY <1>4
  <2>3. CASE i.mainnetFlag = TRUE
    <3>1. SourceOf(j) = 0
      BY <2>1, <2>2, <2>3
    <3>2. j.mainnetFlag = TRUE /\ j.indexRollup = 0 /\ i.indexRollup = 0
      BY <1>5, <2>1, <2>3, <3>1
    <3> QED BY <2>3, <3>2
  <2>4. CASE i.mainnetFlag = FALSE
    <3>1. i.indexRollup \in RollupIndexes /\ SourceOf(i) = i.indexRollup + 1
      BY <2>1, <2>4
    <3>2. SourceOf(j) # 0
      BY <1>5, <2>2, <3>1
    <3>3. j.mainnetFlag = FALSE /\ j.indexRollup \in RollupIndexes
          /\ SourceOf(j) = j.indexRollup + 1
      BY <2>1, <3>2
    <3>4. i.indexRollup \in Int /\ j.indexRollup \in Int
      BY <1>5, <3>1, <3>3
    <3>5. i.indexRollup + 1 = j.indexRollup + 1
      BY <2>2, <3>1, <3>3
    <3>6. i.indexRollup = j.indexRollup
      BY <3>4, <3>5
    <3> QED BY <2>4, <3>3, <3>6
  <2> QED BY <2>1, <2>3, <2>4
<1>7. /\ i = [mainnetFlag |-> i.mainnetFlag, indexRollup |-> i.indexRollup, leafIndex |-> i.leafIndex]
      /\ j = [mainnetFlag |-> j.mainnetFlag, indexRollup |-> j.indexRollup, leafIndex |-> j.leafIndex]
  BY DEF ClaimIndexes
<1> QED BY <1>4, <1>6, <1>7

LEMMA ClaimedLeafTyped ==
    ASSUME TypeOK, NEW ger \in globalExitRootMap, NEW globalIndex \in ClaimIndexes,
           NEW leaf \in Entries(ger[SourceOf(globalIndex)])
    PROVE  leaf \in InboundLeaves
<1>1. ger \in GlobalExitRoots
  BY DEF TypeOK, RootsTyped
<1>2. ger \in [Sources -> Seq(InboundLeaves)]
  BY <1>1, SovereignAssumption
<1>3. ger[SourceOf(globalIndex)] \in Seq(InboundLeaves)
  BY <1>2, ClaimSources
<1> QED BY <1>3 DEF Entries

LEMMA TokenOfTyped ==
    ASSUME TypeOK, NEW a \in Addresses \cup {NoAddress}
    PROVE  /\ TokenOf(a) \in Foreign \cup {a}
           /\ TokenOf(a) \in Foreign \cup Addresses
           /\ TokenOf(NoAddress) = gasToken
  BY ContractsAre DEF TypeOK, MapsTyped, TokenOf

LEMMA ListsTyped ==
    ASSUME NEW S, NEW list \in ListsUpToTwo(S)
    PROVE  list \in Seq(S)
<1>1. CASE \E x \in S : list = <<x>>
  BY <1>1
<1>2. CASE \E x, y \in S : list = <<x, y>>
  BY <1>2
<1> QED BY <1>1, <1>2 DEF ListsUpToTwo

-----------------------------------------------------------------------------
(* What a step can do to the roots, to the claims and to the balances. *)

RootsStep ==
    \/ UNCHANGED gerVars
    \/ \E ger \in GlobalExitRoots : InsertGlobalExitRoot(ger)
    \/ \E gers \in Seq(globalExitRootMap) : RemoveGlobalExitRoots(gers)

ClaimsStep ==
    \/ UNCHANGED claimVars
    \/ \E globalIndex \in ClaimIndexes, leaf \in InboundLeaves :
           RecordClaim(globalIndex, leaf) /\ UNCHANGED unsetGlobalIndexHashChain
    \/ \E globalIndexes \in Seq(UnsetIndexes) : UnsetMultipleClaims(globalIndexes)

BalanceStep ==
    \/ UNCHANGED <<exitTreeVars, claimedGlobalIndexHashChain>>
    \/ \E globalIndex \in ClaimIndexes, leaf \in InboundLeaves :
           /\ RecordClaim(globalIndex, leaf)
           /\ IncreaseLocalBalanceTree(leaf) /\ UNCHANGED exitTree
    \/ \E leaf \in InboundLeaves :
           AddLeafBridge(leaf) /\ UNCHANGED claimedGlobalIndexHashChain

MapsStep ==
    \/ UNCHANGED mapVars
    \/ \E t \in Foreign \ {Ether} : tokenInfoToWrappedToken[t] = NoAddress /\ DeployAndMap(t)
    \/ ManagerStep

LEMMA BridgedLeafTyped ==
    ASSUME TypeOK, NEW a \in Addresses \cup {NoAddress}, NEW amount \in Amounts
    PROVE  /\ [leafType |-> "asset", token |-> TokenOf(a), amount |-> amount] \in InboundLeaves
           /\ [leafType |-> "message", token |-> Ether, amount |-> amount] \in InboundLeaves
  BY TokenOfTyped, AmountsAre, ContractsAre DEF InboundLeaves

LEMMA StepKinds ==
    ASSUME TypeOK, SovereignNext
    PROVE  RootsStep /\ ClaimsStep /\ BalanceStep /\ MapsStep
<1> DEFINE Kinds == RootsStep /\ ClaimsStep /\ BalanceStep /\ MapsStep
<1>1. CASE ExitRootStep
  <2>1. CASE \E ger \in GlobalExitRoots : InsertGlobalExitRoot(ger)
    BY <2>1 DEF RootsStep, ClaimsStep, BalanceStep, MapsStep, InsertGlobalExitRoot,
                exitTreeVars, claimVars
  <2>2. CASE \E gers \in ListsUpToTwo(globalExitRootMap) : RemoveGlobalExitRoots(gers)
    <3>1. PICK gers \in Seq(globalExitRootMap) : RemoveGlobalExitRoots(gers)
      BY <2>2, ListsTyped
    <3>2. UNCHANGED <<claimVars, exitTreeVars, mapVars>>
      BY <3>1 DEF RemoveGlobalExitRoots
    <3> QED BY <3>1, <3>2 DEF RootsStep, ClaimsStep, BalanceStep, MapsStep, claimVars
  <2> QED BY <1>1, <2>1, <2>2 DEF ExitRootStep
<1>2. CASE ClaimStep
  <2>1. ASSUME NEW ger \in globalExitRootMap, NEW globalIndex \in ClaimIndexes,
               NEW leaf \in Entries(ger[SourceOf(globalIndex)]),
               ClaimAsset(ger, globalIndex, leaf) \/ ClaimMessage(ger, globalIndex, leaf)
        PROVE  Kinds
    <3>1. leaf \in InboundLeaves
      BY ClaimedLeafTyped
    <3>2. VerifyLeafBridge(ger, globalIndex, leaf) /\ UNCHANGED gerVars
      BY <2>1 DEF ClaimAsset, ClaimMessage
    <3>3. RootsStep /\ ClaimsStep /\ BalanceStep
      BY <3>1, <3>2 DEF VerifyLeafBridge, RootsStep, ClaimsStep, BalanceStep
    <3>4. MapsStep
      BY <2>1 DEF ClaimAsset, ClaimMessage, PayAsset, IsForeign, MapsStep
    <3> QED BY <3>3, <3>4
  <2>2. CASE \E globalIndexes \in ListsUpToTwo(UnsetIndexes) : UnsetMultipleClaims(globalIndexes)
    <3>1. PICK globalIndexes \in Seq(UnsetIndexes) : UnsetMultipleClaims(globalIndexes)
      BY <2>2, ListsTyped
    <3>2. UNCHANGED <<gerVars, exitTreeVars, claimedGlobalIndexHashChain, mapVars>>
      BY <3>1 DEF UnsetMultipleClaims
    <3> QED BY <3>1, <3>2 DEF RootsStep, ClaimsStep, BalanceStep, MapsStep
  <2> QED BY <1>2, <2>1, <2>2 DEF ClaimStep
<1>3. CASE ExitStep
  <2>1. ASSUME NEW a \in Addresses \cup {NoAddress}, NEW amount \in Amounts, BridgeAsset(a, amount)
        PROVE  Kinds
    BY <2>1, BridgedLeafTyped DEF BridgeAsset, RootsStep, ClaimsStep, BalanceStep, MapsStep, claimVars
  <2>2. ASSUME NEW amount \in Amounts, BridgeMessage(amount)
        PROVE  Kinds
    BY <2>2, BridgedLeafTyped
       DEF BridgeMessage, RootsStep, ClaimsStep, BalanceStep, MapsStep, claimVars
  <2>3. ASSUME NEW a \in Addresses, NEW amount \in Amounts, MigrateLegacyToken(a, amount)
        PROVE  Kinds
    BY <2>3 DEF MigrateLegacyToken, RootsStep, ClaimsStep, BalanceStep, MapsStep, claimVars
  <2> QED BY <1>3, <2>1, <2>2, <2>3 DEF ExitStep
<1>4. CASE ManagerStep \/ SetEmergencyState
  <2>1. UNCHANGED <<gerVars, claimVars, exitTreeVars>>
    BY <1>4 DEF ManagerStep, SetEmergencyState, DeployWrappedTokenAndRemap,
                SetSovereignTokenAddress, RemoveLegacySovereignTokenAddress, SetSovereignWETHAddress
  <2>2. MapsStep
    BY <1>4 DEF MapsStep, SetEmergencyState
  <2> QED BY <2>1, <2>2 DEF RootsStep, ClaimsStep, BalanceStep, claimVars
<1> QED BY <1>1, <1>2, <1>3, <1>4 DEF SovereignNext

-----------------------------------------------------------------------------
(* The hash chains. *)

GersAccount ==
    \A ger \in GlobalExitRoots :
        Count(insertedGERHashChain, ger)
            = Count(removedGERHashChain, ger) + (IF ger \in globalExitRootMap THEN 1 ELSE 0)

ClaimsAccount ==
    \A globalIndex \in ClaimIndexes :
        Count(ClaimedIndexes, globalIndex)
            = Count(UnsetBits, ClaimBit(globalIndex))
                + (IF ClaimBit(globalIndex) \in claimedBitMap THEN 1 ELSE 0)

LEMMA ChainsAreTwo == HashChainsAccount <=> GersAccount /\ ClaimsAccount
  BY DEF HashChainsAccount, GersAccount, ClaimsAccount

LEMMA RootsKept ==
    ASSUME RootsTyped, GersAccount, RootsStep
    PROVE  RootsTyped' /\ GersAccount'
<1>1. CASE UNCHANGED gerVars
  BY <1>1 DEF gerVars, RootsTyped, GersAccount
<1>2. ASSUME NEW ger \in GlobalExitRoots, InsertGlobalExitRoot(ger)
      PROVE  RootsTyped' /\ GersAccount'
  <2>1. /\ ger \notin globalExitRootMap
        /\ globalExitRootMap' = globalExitRootMap \cup {ger}
        /\ insertedGERHashChain' = Append(insertedGERHashChain, ger)
        /\ removedGERHashChain' = removedGERHashChain
    BY <1>2 DEF InsertGlobalExitRoot
  <2>2. insertedGERHashChain \in Seq(GlobalExitRoots) /\ removedGERHashChain \in Seq(GlobalExitRoots)
    BY DEF RootsTyped
  <2>3. ASSUME NEW g \in GlobalExitRoots
        PROVE  Count(insertedGERHashChain', g)
                 = Count(removedGERHashChain', g) + (IF g \in globalExitRootMap' THEN 1 ELSE 0)
    <3>1. Count(insertedGERHashChain', g)
            = Count(insertedGERHashChain, g) + (IF g = ger THEN 1 ELSE 0)
      BY <2>1, <2>2, CountAppended
    <3>2. Count(removedGERHashChain, g) \in Nat
      BY <2>2, CountNat
    <3>3. Count(insertedGERHashChain, g)
            = Count(removedGERHashChain, g) + (IF g \in globalExitRootMap THEN 1 ELSE 0)
      BY DEF GersAccount
    <3> QED BY <2>1, <3>1, <3>2, <3>3
  <2> QED BY <2>1, <2>3 DEF RootsTyped, GersAccount
<1>3. ASSUME NEW gers \in Seq(globalExitRootMap), RemoveGlobalExitRoots(gers)
      PROVE  RootsTyped' /\ GersAccount'
  <2>1. /\ Entries(gers) \subseteq globalExitRootMap /\ IsDuplicateFree(gers)
        /\ globalExitRootMap' = globalExitRootMap \ Entries(gers)
        /\ insertedGERHashChain' = insertedGERHashChain
        /\ removedGERHashChain' = removedGERHashChain \o gers
    BY <1>3 DEF RemoveGlobalExitRoots, EachIsKnown
  <2>2. insertedGERHashChain \in Seq(GlobalExitRoots) /\ removedGERHashChain \in Seq(GlobalExitRoots)
        /\ gers \in Seq(GlobalExitRoots)
    BY DEF RootsTyped
  <2>3. ASSUME NEW g \in GlobalExitRoots
        PROVE  Count(insertedGERHashChain', g)
                 = Count(removedGERHashChain', g) + (IF g \in globalExitRootMap' THEN 1 ELSE 0)
    <3>1. Count(removedGERHashChain', g) = Count(removedGERHashChain, g) + Count(gers, g)
      BY <2>1, <2>2, CountJoined
    <3>2. Count(gers, g) = (IF g \in Entries(gers) THEN 1 ELSE 0)
      BY <2>1, <2>2, CountOfDuplicateFree
    <3>3. Count(removedGERHashChain, g) \in Nat
      BY <2>2, CountNat
    <3>4. Count(insertedGERHashChain, g)
            = Count(removedGERHashChain, g) + (IF g \in globalExitRootMap THEN 1 ELSE 0)
      BY DEF GersAccount
    <3>5. Count(insertedGERHashChain', g) = Count(insertedGERHashChain, g)
      BY <2>1
    <3> QED BY <2>1, <3>1, <3>2, <3>3, <3>4, <3>5
  <2>4. RootsTyped'
    BY <2>1, <2>2 DEF RootsTyped
  <2> QED BY <2>3, <2>4 DEF GersAccount
<1> QED BY <1>1, <1>2, <1>3 DEF RootsStep

LEMMA ListsOfClaims ==
    ASSUME ClaimsTyped
    PROVE  /\ ClaimedIndexes \in Seq(ClaimIndexes)
           /\ ClaimedLeaves \in Seq(InboundLeaves)
           /\ UnsetBits \in Seq(Nat)
<1>1. /\ Len(claimedGlobalIndexHashChain) \in Nat /\ Len(unsetGlobalIndexHashChain) \in Nat
      /\ \A i \in 1..Len(claimedGlobalIndexHashChain) : claimedGlobalIndexHashChain[i] \in Claims
      /\ \A i \in 1..Len(unsetGlobalIndexHashChain) : unsetGlobalIndexHashChain[i] \in UnsetIndexes
  BY DEF ClaimsTyped
<1>2. \A e \in Claims : e.globalIndex \in ClaimIndexes /\ e.leaf \in InboundLeaves
  BY DEF Claims
<1>3. \A i \in 1..Len(unsetGlobalIndexHashChain) : ClaimBit(unsetGlobalIndexHashChain[i]) \in Nat
  BY <1>1, ClaimBitNat
<1>4. ClaimedIndexes \in [1..Len(claimedGlobalIndexHashChain) -> ClaimIndexes]
  BY <1>1, <1>2 DEF ClaimedIndexes
<1>5. ClaimedLeaves \in [1..Len(claimedGlobalIndexHashChain) -> InboundLeaves]
  BY <1>1, <1>2 DEF ClaimedLeaves
<1>6. UnsetBits \in [1..Len(unsetGlobalIndexHashChain) -> Nat]
  BY <1>1, <1>3 DEF UnsetBits
<1>7. ClaimedIndexes \in Seq(ClaimIndexes)
  BY <1>1, <1>4
<1>8. ClaimedLeaves \in Seq(InboundLeaves)
  BY <1>1, <1>5
<1>9. UnsetBits \in Seq(Nat)
  BY <1>1, <1>6
<1> QED BY <1>7, <1>8, <1>9

LEMMA ClaimRecorded ==
    ASSUME ClaimsTyped, NEW globalIndex \in ClaimIndexes, NEW leaf \in InboundLeaves,
           RecordClaim(globalIndex, leaf)
    PROVE  /\ ClaimedIndexes' = Append(ClaimedIndexes, globalIndex)
           /\ ClaimedLeaves' = Append(ClaimedLeaves, leaf)
           /\ claimedGlobalIndexHashChain' \in Seq(Claims)
<1> DEFINE e == [globalIndex |-> globalIndex, leaf |-> leaf]
           list == claimedGlobalIndexHashChain
           n == Len(list)
<1>1. list \in Seq(Claims) /\ list' = Append(list, e) /\ e \in Claims
  BY DEF ClaimsTyped, RecordClaim, Claims
<1>2. /\ n \in Nat /\ Len(list') = n + 1 /\ list'[n + 1] = e
      /\ \A i \in 1..n : list'[i] = list[i]
      /\ list' \in Seq(Claims)
  BY <1>1
<1>3. /\ ClaimedIndexes = [i \in 1..n |-> list[i].globalIndex]
      /\ ClaimedIndexes' = [i \in 1..(n + 1) |-> list'[i].globalIndex]
      /\ ClaimedLeaves = [i \in 1..n |-> list[i].leaf]
      /\ ClaimedLeaves' = [i \in 1..(n + 1) |-> list'[i].leaf]
  BY <1>2 DEF ClaimedIndexes, ClaimedLeaves
<1>4. /\ ClaimedIndexes \in Seq(ClaimIndexes) /\ Len(ClaimedIndexes) = n
      /\ ClaimedLeaves \in Seq(InboundLeaves) /\ Len(ClaimedLeaves) = n
  BY <1>2, <1>3, ListsOfClaims
<1>5. /\ e.globalIndex = globalIndex /\ e.leaf = leaf
  OBVIOUS
<1> HIDE DEF e, n, list
<1>6. \A i \in 1..(n + 1) : i \in 1..n \/ i = n + 1
  BY <1>2
<1>7. ClaimedIndexes' = Append(ClaimedIndexes, globalIndex)
  <2> DEFINE a == ClaimedIndexes'
             b == Append(ClaimedIndexes, globalIndex)
  <2>1. \A i \in 1..(n + 1) : list'[i].globalIndex \in ClaimIndexes
    BY <1>2, <1>3, <1>4, <1>5, <1>6
  <2>2. a \in Seq(ClaimIndexes) /\ Len(a) = n + 1
    <3>1. n + 1 \in Nat /\ a \in [1..(n + 1) -> ClaimIndexes]
      BY <1>2, <1>3, <2>1
    <3> HIDE DEF a
    <3> QED BY <3>1
  <2>3. /\ b \in Seq(ClaimIndexes) /\ Len(b) = n + 1 /\ b[n + 1] = globalIndex
        /\ \A i \in 1..n : b[i] = ClaimedIndexes[i]
    BY <1>2, <1>4
  <2>4. \A i \in 1..(n + 1) : a[i] = list'[i].globalIndex
    BY <1>3
  <2> HIDE DEF a, b
  <2>5. \A i \in 1..Len(a) : a[i] = b[i]
    BY <1>2, <1>3, <1>5, <1>6, <2>2, <2>3, <2>4
  <2>6. a = b
    BY <2>2, <2>3, <2>5, SeqEqual
  <2> QED BY <2>6 DEF a, b
<1>8. ClaimedLeaves' = Append(ClaimedLeaves, leaf)
  <2> DEFINE a == ClaimedLeaves'
             b == Append(ClaimedLeaves, leaf)
  <2>1. \A i \in 1..(n + 1) : list'[i].leaf \in InboundLeaves
    BY <1>2, <1>3, <1>4, <1>5, <1>6
  <2>2. a \in Seq(InboundLeaves) /\ Len(a) = n + 1
    <3>1. n + 1 \in Nat /\ a \in [1..(n + 1) -> InboundLeaves]
      BY <1>2, <1>3, <2>1
    <3> HIDE DEF a
    <3> QED BY <3>1
  <2>3. /\ b \in Seq(InboundLeaves) /\ Len(b) = n + 1 /\ b[n + 1] = leaf
        /\ \A i \in 1..n : b[i] = ClaimedLeaves[i]
    BY <1>2, <1>4
  <2>4. \A i \in 1..(n + 1) : a[i] = list'[i].leaf
    BY <1>3
  <2> HIDE DEF a, b
  <2>5. \A i \in 1..Len(a) : a[i] = b[i]
    BY <1>2, <1>3, <1>5, <1>6, <2>2, <2>3, <2>4
  <2>6. a = b
    BY <2>2, <2>3, <2>5, SeqEqual
  <2> QED BY <2>6 DEF a, b
<1> QED BY <1>2, <1>7, <1>8 DEF list

LEMMA ClaimsUnset ==
    ASSUME ClaimsTyped, NEW globalIndexes \in Seq(UnsetIndexes), UnsetMultipleClaims(globalIndexes)
    PROVE  LET bits == [i \in 1..Len(globalIndexes) |-> ClaimBit(globalIndexes[i])]
           IN /\ UnsetBits' = UnsetBits \o bits
              /\ bits \in Seq(Nat)
              /\ unsetGlobalIndexHashChain' \in Seq(UnsetIndexes)
<1> DEFINE list == unsetGlobalIndexHashChain
           n == Len(list)
           m == Len(globalIndexes)
           bits == [i \in 1..m |-> ClaimBit(globalIndexes[i])]
<1>1. list \in Seq(UnsetIndexes) /\ list' = list \o globalIndexes
  BY DEF ClaimsTyped, UnsetMultipleClaims
<1>2. /\ n \in Nat /\ m \in Nat /\ Len(list') = n + m
      /\ \A i \in 1..n : list'[i] = list[i]
      /\ \A i \in (n + 1)..(n + m) : list'[i] = globalIndexes[i - n]
      /\ list' \in Seq(UnsetIndexes)
  BY <1>1
<1>3. bits \in [1..m -> Nat]
  <2>1. \A i \in 1..m : globalIndexes[i] \in UnsetIndexes
    OBVIOUS
  <2> QED BY <2>1, ClaimBitNat
<1>4. bits \in Seq(Nat) /\ Len(bits) = m
  BY <1>2, <1>3
<1>5. /\ UnsetBits = [i \in 1..n |-> ClaimBit(list[i])]
      /\ UnsetBits' = [i \in 1..(n + m) |-> ClaimBit(list'[i])]
  BY <1>2 DEF UnsetBits
<1>6. UnsetBits \in Seq(Nat) /\ Len(UnsetBits) = n
  BY <1>2, <1>5, ListsOfClaims
<1>7. \A i \in 1..m : bits[i] = ClaimBit(globalIndexes[i])
  OBVIOUS
<1> HIDE DEF bits, n, m, list
<1>8. /\ UnsetBits \o bits \in Seq(Nat) /\ Len(UnsetBits \o bits) = n + m
      /\ \A i \in 1..(n + m) :
            (UnsetBits \o bits)[i] = IF i <= n THEN UnsetBits[i] ELSE bits[i - n]
  BY <1>4, <1>6, ConcatProperties
<1>9. ASSUME NEW i \in 1..(n + m)
      PROVE  ClaimBit(list'[i]) = (UnsetBits \o bits)[i]
  <2>1. CASE i <= n
    <3>1. i \in 1..n
      BY <1>2, <2>1
    <3>2. UnsetBits[i] = ClaimBit(list[i])
      BY <1>5, <3>1
    <3>3. (UnsetBits \o bits)[i] = UnsetBits[i]
      BY <1>8, <2>1
    <3>4. list'[i] = list[i]
      BY <1>2, <3>1
    <3> QED BY <3>2, <3>3, <3>4
  <2>2. CASE ~(i <= n)
    <3>1. i \in (n + 1)..(n + m) /\ i - n \in 1..m
      BY <1>2, <2>2
    <3>2. bits[i - n] = ClaimBit(globalIndexes[i - n])
      BY <1>7, <3>1
    <3>3. (UnsetBits \o bits)[i] = bits[i - n]
      BY <1>8, <2>2
    <3>4. list'[i] = globalIndexes[i - n]
      BY <1>2, <3>1
    <3> QED BY <3>2, <3>3, <3>4
  <2> QED BY <2>1, <2>2
<1>10. UnsetBits' = UnsetBits \o bits
  <2> DEFINE a == UnsetBits'
             b == UnsetBits \o bits
  <2>1. \A i \in 1..(n + m) : ClaimBit(list'[i]) \in Nat
    BY <1>2, ClaimBitNat
  <2>2. a \in Seq(Nat) /\ Len(a) = n + m
    BY <1>2, <1>5, <2>1
  <2>3. b \in Seq(Nat) /\ Len(b) = n + m
    BY <1>8
  <2>4. \A i \in 1..(n + m) : a[i] = b[i]
    BY <1>5, <1>9
  <2> HIDE DEF a, b
  <2>5. a = b
    BY <2>2, <2>3, <2>4, SeqEqual
  <2> QED BY <2>5 DEF a, b
<1> QED BY <1>2, <1>4, <1>10 DEF bits, m, list

LEMMA ClaimsKept ==
    ASSUME ClaimsTyped, ClaimsAccount, ClaimsStep
    PROVE  ClaimsTyped' /\ ClaimsAccount'
<1>1. CASE UNCHANGED claimVars
  BY <1>1 DEF claimVars, ClaimsTyped, ClaimsAccount, ClaimedIndexes, UnsetBits
<1>2. ASSUME NEW gi \in ClaimIndexes, NEW leaf \in InboundLeaves,
             RecordClaim(gi, leaf), UNCHANGED unsetGlobalIndexHashChain
      PROVE  ClaimsTyped' /\ ClaimsAccount'
  <2>1. /\ ClaimBit(gi) \notin claimedBitMap
        /\ claimedBitMap' = claimedBitMap \cup {ClaimBit(gi)}
    BY <1>2 DEF RecordClaim
  <2>2. /\ ClaimedIndexes' = Append(ClaimedIndexes, gi)
        /\ claimedGlobalIndexHashChain' \in Seq(Claims)
    BY <1>2, ClaimRecorded
  <2>3. UnsetBits' = UnsetBits
    BY <1>2 DEF UnsetBits
  <2>4. ASSUME NEW g \in ClaimIndexes
        PROVE  Count(ClaimedIndexes', g)
                 = Count(UnsetBits', ClaimBit(g)) + (IF ClaimBit(g) \in claimedBitMap' THEN 1 ELSE 0)
    <3>1. Count(ClaimedIndexes', g) = Count(ClaimedIndexes, g) + (IF g = gi THEN 1 ELSE 0)
      BY <2>2, ListsOfClaims, CountAppended
    <3>2. Count(UnsetBits, ClaimBit(g)) \in Nat
      BY ListsOfClaims, CountNat
    <3>3. ClaimBit(g) = ClaimBit(gi) <=> g = gi
      BY BitsTellClaimsApart
    <3>4. Count(ClaimedIndexes, g)
            = Count(UnsetBits, ClaimBit(g)) + (IF ClaimBit(g) \in claimedBitMap THEN 1 ELSE 0)
      BY DEF ClaimsAccount
    <3>5. Count(UnsetBits', ClaimBit(g)) = Count(UnsetBits, ClaimBit(g))
      BY <2>3
    <3> QED BY <2>1, <3>1, <3>2, <3>3, <3>4, <3>5
  <2>5. ClaimsTyped'
    BY <1>2, <2>1, <2>2, ClaimBitNat DEF ClaimsTyped
  <2> QED BY <2>4, <2>5 DEF ClaimsAccount
<1>3. ASSUME NEW globalIndexes \in Seq(UnsetIndexes), UnsetMultipleClaims(globalIndexes)
      PROVE  ClaimsTyped' /\ ClaimsAccount'
  <2> DEFINE bits == [i \in 1..Len(globalIndexes) |-> ClaimBit(globalIndexes[i])]
  <2>1. /\ Entries(bits) \subseteq claimedBitMap /\ IsDuplicateFree(bits)
        /\ claimedBitMap' = claimedBitMap \ Entries(bits)
        /\ claimedGlobalIndexHashChain' = claimedGlobalIndexHashChain
    BY <1>3 DEF UnsetMultipleClaims
  <2>2. /\ UnsetBits' = UnsetBits \o bits /\ bits \in Seq(Nat)
        /\ unsetGlobalIndexHashChain' \in Seq(UnsetIndexes)
    BY <1>3, ClaimsUnset
  <2>3. ClaimedIndexes' = ClaimedIndexes
    BY <2>1 DEF ClaimedIndexes
  <2> HIDE DEF bits
  <2>4. ASSUME NEW g \in ClaimIndexes
        PROVE  Count(ClaimedIndexes', g)
                 = Count(UnsetBits', ClaimBit(g)) + (IF ClaimBit(g) \in claimedBitMap' THEN 1 ELSE 0)
    <3>1. Count(UnsetBits', ClaimBit(g)) = Count(UnsetBits, ClaimBit(g)) + Count(bits, ClaimBit(g))
      BY <2>2, ListsOfClaims, CountJoined
    <3>2. Count(bits, ClaimBit(g)) = (IF ClaimBit(g) \in Entries(bits) THEN 1 ELSE 0)
      BY <2>1, <2>2, CountOfDuplicateFree
    <3>3. Count(UnsetBits, ClaimBit(g)) \in Nat
      BY ListsOfClaims, CountNat
    <3>4. Count(ClaimedIndexes, g)
            = Count(UnsetBits, ClaimBit(g)) + (IF ClaimBit(g) \in claimedBitMap THEN 1 ELSE 0)
      BY DEF ClaimsAccount
    <3>5. Count(ClaimedIndexes', g) = Count(ClaimedIndexes, g)
      BY <2>3
    <3> QED BY <2>1, <3>1, <3>2, <3>3, <3>4, <3>5
  <2>5. ClaimsTyped'
    BY <2>1, <2>2 DEF ClaimsTyped
  <2> QED BY <2>4, <2>5 DEF ClaimsAccount
<1> QED BY <1>1, <1>2, <1>3 DEF ClaimsStep

-----------------------------------------------------------------------------
(* The local balances. *)

LEMMA BalanceComes ==
    ASSUME BalancesTyped, NEW leaf \in InboundLeaves, IncreaseLocalBalanceTree(leaf)
    PROVE  /\ localBalanceTree' \in [Foreign -> Nat]
           /\ \A t \in Foreign : localBalanceTree'[t]
                = localBalanceTree[t] + (IF leaf.token = t THEN leaf.amount ELSE 0)
<1> DEFINE t == BalanceToken(leaf)
<1>1. leaf.amount \in Nat /\ t = leaf.token
  BY LeavesAre
<1>2. localBalanceTree \in [Foreign -> Nat]
  BY DEF BalancesTyped
<1>3. IF t \in Foreign
      THEN localBalanceTree' = [localBalanceTree EXCEPT ![t] = @ + leaf.amount]
      ELSE localBalanceTree' = localBalanceTree
  BY DEF IncreaseLocalBalanceTree, IsForeign
<1> HIDE DEF t
<1>4. localBalanceTree' \in [Foreign -> Nat]
  BY <1>1, <1>2, <1>3
<1>5. \A u \in Foreign : localBalanceTree'[u]
          = localBalanceTree[u] + (IF leaf.token = u THEN leaf.amount ELSE 0)
  BY <1>1, <1>2, <1>3
<1> QED BY <1>4, <1>5

LEMMA BalanceLeaves ==
    ASSUME BalancesTyped, NEW leaf \in InboundLeaves, AddLeafBridge(leaf)
    PROVE  /\ localBalanceTree' \in [Foreign -> Nat]
           /\ exitTree' = Append(exitTree, leaf) /\ exitTree' \in Seq(InboundLeaves)
           /\ \A t \in Foreign : localBalanceTree'[t]
                = localBalanceTree[t] - (IF leaf.token = t THEN leaf.amount ELSE 0)
<1> DEFINE t == BalanceToken(leaf)
<1>1. leaf.amount \in Nat /\ t = leaf.token
  BY LeavesAre
<1>2. localBalanceTree \in [Foreign -> Nat] /\ exitTree \in Seq(InboundLeaves)
  BY DEF BalancesTyped
<1>3. IF t \in Foreign
      THEN /\ leaf.amount <= localBalanceTree[t]
           /\ localBalanceTree' = [localBalanceTree EXCEPT ![t] = @ - leaf.amount]
      ELSE localBalanceTree' = localBalanceTree
  BY DEF AddLeafBridge, DecreaseLocalBalanceTree, IsForeign
<1>4. exitTree' = Append(exitTree, leaf)
  BY DEF AddLeafBridge
<1> HIDE DEF t
<1>5. localBalanceTree' \in [Foreign -> Nat]
  <2>1. CASE t \in Foreign
    <3>1. localBalanceTree[t] - leaf.amount \in Nat
      BY <1>1, <1>2, <1>3, <2>1
    <3> QED BY <1>2, <1>3, <2>1, <3>1
  <2> QED BY <1>2, <1>3, <2>1
<1>6. \A u \in Foreign : localBalanceTree'[u]
          = localBalanceTree[u] - (IF leaf.token = u THEN leaf.amount ELSE 0)
  BY <1>1, <1>2, <1>3
<1> QED BY <1>2, <1>4, <1>5, <1>6

LEMMA BalancesKept ==
    ASSUME ClaimsTyped, BalancesTyped, BalanceTreeIsNet, BalanceStep
    PROVE  BalancesTyped' /\ BalanceTreeIsNet'
<1>1. /\ ClaimedLeaves \in Seq(InboundLeaves) /\ exitTree \in Seq(InboundLeaves)
      /\ localBalanceTree \in [Foreign -> Nat]
  BY ListsOfClaims DEF BalancesTyped
<1>2. \A t \in Foreign : /\ localBalanceTree[t] \in Nat
                         /\ Worth(exitTree, t) \in Nat
                         /\ Worth(ClaimedLeaves, t) \in Nat
                         /\ localBalanceTree[t] + Worth(exitTree, t) = Worth(ClaimedLeaves, t)
  BY <1>1, WorthNat DEF BalanceTreeIsNet
<1>3. CASE UNCHANGED <<exitTreeVars, claimedGlobalIndexHashChain>>
  <2>1. exitTree' = exitTree /\ localBalanceTree' = localBalanceTree /\ ClaimedLeaves' = ClaimedLeaves
    BY <1>3 DEF exitTreeVars, ClaimedLeaves
  <2> QED BY <2>1 DEF BalancesTyped, BalanceTreeIsNet
<1>4. ASSUME NEW globalIndex \in ClaimIndexes, NEW leaf \in InboundLeaves,
             RecordClaim(globalIndex, leaf), IncreaseLocalBalanceTree(leaf), UNCHANGED exitTree
      PROVE  BalancesTyped' /\ BalanceTreeIsNet'
  <2>1. /\ localBalanceTree' \in [Foreign -> Nat]
        /\ \A t \in Foreign : localBalanceTree'[t]
             = localBalanceTree[t] + (IF leaf.token = t THEN leaf.amount ELSE 0)
    BY <1>4, BalanceComes
  <2>2. \A t \in Foreign : Worth(ClaimedLeaves', t)
            = Worth(ClaimedLeaves, t) + (IF leaf.token = t THEN leaf.amount ELSE 0)
    <3>1. ClaimedLeaves' = Append(ClaimedLeaves, leaf)
      BY <1>4, ClaimRecorded
    <3> QED BY <1>1, <3>1, WorthAppended
  <2>3. leaf.amount \in Nat
    BY LeavesAre
  <2>4. ASSUME NEW t \in Foreign
        PROVE  localBalanceTree'[t] >= 0
               /\ localBalanceTree'[t] + Worth(exitTree', t) = Worth(ClaimedLeaves', t)
    <3>1. localBalanceTree'[t] \in Nat /\ Worth(exitTree', t) = Worth(exitTree, t)
      BY <1>4, <2>1
    <3> QED BY <1>2, <2>1, <2>2, <2>3, <3>1
  <2> QED BY <1>1, <1>4, <2>1, <2>4 DEF BalancesTyped, BalanceTreeIsNet
<1>5. ASSUME NEW leaf \in InboundLeaves, AddLeafBridge(leaf), UNCHANGED claimedGlobalIndexHashChain
      PROVE  BalancesTyped' /\ BalanceTreeIsNet'
  <2>1. /\ localBalanceTree' \in [Foreign -> Nat]
        /\ exitTree' = Append(exitTree, leaf) /\ exitTree' \in Seq(InboundLeaves)
        /\ \A t \in Foreign : localBalanceTree'[t]
             = localBalanceTree[t] - (IF leaf.token = t THEN leaf.amount ELSE 0)
    BY <1>5, BalanceLeaves
  <2>2. \A t \in Foreign : Worth(exitTree', t)
            = Worth(exitTree, t) + (IF leaf.token = t THEN leaf.amount ELSE 0)
    BY <1>1, <2>1, WorthAppended
  <2>3. leaf.amount \in Nat /\ ClaimedLeaves' = ClaimedLeaves
    BY <1>5, LeavesAre DEF ClaimedLeaves
  <2>4. ASSUME NEW t \in Foreign
        PROVE  localBalanceTree'[t] >= 0
               /\ localBalanceTree'[t] + Worth(exitTree', t) = Worth(ClaimedLeaves', t)
    <3>1. localBalanceTree'[t] \in Nat /\ Worth(ClaimedLeaves', t) = Worth(ClaimedLeaves, t)
      BY <2>1, <2>3
    <3> QED BY <1>2, <2>1, <2>2, <2>3, <3>1
  <2> QED BY <2>1, <2>4 DEF BalancesTyped, BalanceTreeIsNet
<1> QED BY <1>3, <1>4, <1>5 DEF BalanceStep

-----------------------------------------------------------------------------
(* The token maps. *)

\* A contract that no token was mapped to yet, given to t: what MapToken and the first
\* claim have in common.
Maps(t, a) ==
    /\ tokenInfoToWrappedToken' = [tokenInfoToWrappedToken EXCEPT ![t] = a]
    /\ wrappedTokenToTokenInfo' = [wrappedTokenToTokenInfo EXCEPT ![a] = t]
    /\ servedToken' = [servedToken EXCEPT ![a] = t]

LEMMA ContractMapped ==
    ASSUME gasToken \in GasTokens, MapsTyped, MapsOK, gasToken' = gasToken,
           NEW t \in Foreign \ {Ether}, NEW a \in Addresses, Maps(t, a),
           wrappedTokenToTokenInfo[a] = NoToken, servedToken[a] \in {NoToken, t},
           a \notin WETHContracts, UNCHANGED WETHToken,
           \A u \in Foreign : a = ProxyOf[u] => u = t /\ a \in deployed',
           deployed \subseteq deployed', deployed' \subseteq Addresses,
           wrappedAddressIsNotMintable' \in [Addresses -> BOOLEAN],
           \A b \in Addresses \ {a} :
               wrappedAddressIsNotMintable'[b] = wrappedAddressIsNotMintable[b],
           wrappedAddressIsNotMintable'[a] = (a \in NotMintable)
    PROVE  MapsTyped' /\ MapsOK'
<1>1. MapsTyped'
  BY DEF Maps, MapsTyped, HasWETH
<1>2. \A b \in Addresses :
          /\ wrappedTokenToTokenInfo'[b] = IF b = a THEN t ELSE wrappedTokenToTokenInfo[b]
          /\ servedToken'[b] = IF b = a THEN t ELSE servedToken[b]
  BY DEF Maps, MapsTyped
<1>3. \A u \in Foreign : tokenInfoToWrappedToken'[u] = IF u = t THEN a ELSE tokenInfoToWrappedToken[u]
  BY DEF Maps, MapsTyped
<1>4. WETHContracts' = WETHContracts /\ WETHToken' = WETHToken
  BY DEF WETHContracts, HasWETH
<1>5. a # NoAddress /\ t # NoToken /\ t # Ether
  BY ContractsAre
<1>6. ASSUME NEW b \in Addresses, wrappedTokenToTokenInfo'[b] # NoToken
      PROVE  /\ servedToken'[b] = wrappedTokenToTokenInfo'[b]
             /\ tokenInfoToWrappedToken'[wrappedTokenToTokenInfo'[b]] # NoAddress
  <2>1. CASE b = a
    BY <1>2, <1>3, <1>5, <2>1
  <2>2. CASE b # a
    <3>1. wrappedTokenToTokenInfo[b] \in Foreign
      BY <1>2, <1>6, <2>2 DEF MapsTyped
    <3> QED BY <1>2, <1>3, <1>5, <1>6, <2>2, <3>1 DEF MapsOK
  <2> QED BY <2>1, <2>2
<1>7. ASSUME NEW u \in Foreign, tokenInfoToWrappedToken'[u] # NoAddress
      PROVE  wrappedTokenToTokenInfo'[tokenInfoToWrappedToken'[u]] = u
  <2>1. CASE u = t
    BY <1>2, <1>3, <2>1
  <2>2. CASE u # t
    <3>1. tokenInfoToWrappedToken[u] \in Addresses
          /\ wrappedTokenToTokenInfo[tokenInfoToWrappedToken[u]] = u
      BY <1>3, <1>7, <2>2 DEF MapsTyped, MapsOK
    <3>2. tokenInfoToWrappedToken[u] # a
      BY <3>1, ContractsAre
    <3> QED BY <1>2, <1>3, <2>2, <3>1, <3>2
  <2> QED BY <2>1, <2>2
<1>8. ASSUME NEW b \in Addresses, servedToken'[b] # NoToken
      PROVE  servedToken'[b] # Ether /\ b \notin WETHContracts'
  BY <1>2, <1>4, <1>5, <1>8 DEF MapsOK
<1>9. ASSUME NEW u \in Foreign, servedToken'[ProxyOf[u]] # NoToken
      PROVE  servedToken'[ProxyOf[u]] = u /\ ProxyOf[u] \in deployed'
  BY <1>2, <1>9, ContractsAre DEF MapsOK
<1>10. ASSUME NEW b \in Addresses
       PROVE  /\ wrappedAddressIsNotMintable'[b] => b \in NotMintable
              /\ (b \in NotMintable /\ (wrappedTokenToTokenInfo'[b] # NoToken \/ b = WETHToken'))
                     => wrappedAddressIsNotMintable'[b]
  BY <1>2, <1>4 DEF MapsOK
<1> QED BY <1>1, <1>6, <1>7, <1>8, <1>9, <1>10 DEF MapsOK

LEMMA ProxiesAre ==
    /\ \A t, u \in Foreign : ProxyOf[t] = ProxyOf[u] => t = u
    /\ \A t \in Foreign : ProxyOf[t] \notin SovereignTokens /\ ProxyOf[t] \notin NotMintable
    /\ \A t \in Foreign \ {Ether} : ProxyOf[t] \notin WETHContracts
<1>1. \A t, u \in Foreign : ProxyOf[t] = ProxyOf[u] => t = u
  BY SovereignAssumption
<1>2. \A t \in Foreign : ProxyOf[t] \notin SovereignTokens
  BY SovereignAssumption
<1>3. WETHContracts \subseteq SovereignTokens \cup {ProxyOf[Ether]} /\ Ether \in Foreign
  BY SovereignAssumption DEF WETHContracts
<1> QED BY <1>1, <1>2, <1>3, ContractsAre

\* A proxy that create2 did not make yet serves nothing.
LEMMA FreshProxy ==
    ASSUME MapsTyped, MapsOK, NEW t \in Foreign, ProxyOf[t] \notin deployed
    PROVE  /\ servedToken[ProxyOf[t]] = NoToken
           /\ wrappedTokenToTokenInfo[ProxyOf[t]] = NoToken
           /\ ~wrappedAddressIsNotMintable[ProxyOf[t]]
           /\ ProxyOf[t] \in Addresses
<1>1. ProxyOf[t] \in Addresses /\ ProxyOf[t] \notin NotMintable
  BY ContractsAre, ProxiesAre
<1> QED BY <1>1 DEF MapsOK, MapsTyped

\* Another contract becomes wrapped ether.
LEMMA WETHSet ==
    ASSUME gasToken \in GasTokens, MapsTyped, MapsOK, gasToken' = gasToken,
           NEW a \in WETHTokens \cup {ProxyOf[Ether]}, SetWETHToken(a), UNCHANGED servedToken,
           deployed \subseteq deployed', deployed' \subseteq Addresses
    PROVE  MapsTyped' /\ MapsOK'
<1>1. a \in Addresses /\ a # NoAddress
  BY ContractsAre
<1>2. /\ HasWETH /\ WETHToken' = a
      /\ wrappedAddressIsNotMintable' = [wrappedAddressIsNotMintable EXCEPT ![a] = a \in NotMintable]
      /\ tokenInfoToWrappedToken' = tokenInfoToWrappedToken
      /\ wrappedTokenToTokenInfo' = wrappedTokenToTokenInfo
      /\ servedToken' = servedToken
  BY DEF SetWETHToken
<1>3. MapsTyped'
  BY <1>1, <1>2 DEF MapsTyped, HasWETH
<1>4. WETHContracts' = WETHContracts
  BY DEF WETHContracts, HasWETH
<1>5. ASSUME NEW b \in Addresses
      PROVE  /\ wrappedAddressIsNotMintable'[b] => b \in NotMintable
             /\ (b \in NotMintable /\ (wrappedTokenToTokenInfo'[b] # NoToken \/ b = WETHToken'))
                    => wrappedAddressIsNotMintable'[b]
  <2>1. wrappedAddressIsNotMintable'[b]
            = IF b = a THEN a \in NotMintable ELSE wrappedAddressIsNotMintable[b]
    BY <1>2 DEF MapsTyped
  <2> QED BY <1>2, <2>1 DEF MapsOK
<1>6. \A t \in Foreign : servedToken'[ProxyOf[t]] # NoToken
          => servedToken'[ProxyOf[t]] = t /\ ProxyOf[t] \in deployed'
  BY <1>2 DEF MapsOK
<1> QED BY <1>2, <1>3, <1>4, <1>5, <1>6 DEF MapsOK

\* A contract that was replaced is forgotten.
LEMMA TokenForgotten ==
    ASSUME gasToken \in GasTokens, MapsTyped, MapsOK, gasToken' = gasToken,
           NEW a \in Addresses, RemoveLegacySovereignTokenAddress(a)
    PROVE  MapsTyped' /\ MapsOK'
<1> DEFINE t == wrappedTokenToTokenInfo[a]
<1>1. /\ t \in Foreign /\ t # NoToken /\ tokenInfoToWrappedToken[t] # a
      /\ wrappedTokenToTokenInfo' = [wrappedTokenToTokenInfo EXCEPT ![a] = NoToken]
      /\ wrappedAddressIsNotMintable' = [wrappedAddressIsNotMintable EXCEPT ![a] = FALSE]
      /\ tokenInfoToWrappedToken' = tokenInfoToWrappedToken
      /\ servedToken' = servedToken /\ WETHToken' = WETHToken /\ deployed' = deployed
  BY DEF RemoveLegacySovereignTokenAddress, ForgetToken, MapsTyped
<1>2. MapsTyped'
  BY <1>1 DEF MapsTyped, HasWETH
<1>3. \A b \in Addresses :
          /\ wrappedTokenToTokenInfo'[b] = IF b = a THEN NoToken ELSE wrappedTokenToTokenInfo[b]
          /\ wrappedAddressIsNotMintable'[b]
                 = IF b = a THEN FALSE ELSE wrappedAddressIsNotMintable[b]
  BY <1>1 DEF MapsTyped
<1>4. WETHContracts' = WETHContracts
  BY DEF WETHContracts, HasWETH
<1>5. a # WETHToken
  <2>1. a \notin WETHContracts
    BY <1>1 DEF MapsOK
  <2>2. WETHToken \in WETHContracts \/ WETHToken = NoAddress
    BY DEF MapsTyped, WETHContracts
  <2> QED BY <2>1, <2>2, ContractsAre
<1>6. ASSUME NEW u \in Foreign, tokenInfoToWrappedToken[u] # NoAddress
      PROVE  wrappedTokenToTokenInfo'[tokenInfoToWrappedToken[u]] = u
  <2>1. tokenInfoToWrappedToken[u] \in Addresses
        /\ wrappedTokenToTokenInfo[tokenInfoToWrappedToken[u]] = u
    BY <1>6 DEF MapsTyped, MapsOK
  <2> QED BY <1>1, <1>3, <2>1
<1>7. ASSUME NEW b \in Addresses
      PROVE  /\ wrappedAddressIsNotMintable'[b] => b \in NotMintable
             /\ (b \in NotMintable /\ (wrappedTokenToTokenInfo'[b] # NoToken \/ b = WETHToken'))
                    => wrappedAddressIsNotMintable'[b]
  BY <1>1, <1>3, <1>5 DEF MapsOK
<1>8. ASSUME NEW b \in Addresses, wrappedTokenToTokenInfo'[b] # NoToken
      PROVE  /\ servedToken'[b] = wrappedTokenToTokenInfo'[b]
             /\ tokenInfoToWrappedToken'[wrappedTokenToTokenInfo'[b]] # NoAddress
  BY <1>1, <1>3, <1>8 DEF MapsOK
<1> HIDE DEF t
<1> QED BY <1>1, <1>2, <1>4, <1>6, <1>7, <1>8 DEF MapsOK

LEMMA MapsKept ==
    ASSUME gasToken \in GasTokens, MapsTyped, MapsOK, gasToken' = gasToken, MapsStep
    PROVE  MapsTyped' /\ MapsOK'
<1>1. CASE UNCHANGED mapVars
  <2>1. WETHContracts' = WETHContracts
    BY DEF WETHContracts, HasWETH
  <2> QED BY <1>1, <2>1 DEF mapVars, MapsTyped, MapsOK, HasWETH
<1>2. ASSUME NEW t \in Foreign \ {Ether}, DeployAndMap(t)
      PROVE  MapsTyped' /\ MapsOK'
  <2> DEFINE a == ProxyOf[t]
  <2>1. /\ a \notin deployed /\ deployed' = deployed \cup {a} /\ Maps(t, a)
        /\ wrappedAddressIsNotMintable' = wrappedAddressIsNotMintable /\ UNCHANGED WETHToken
    BY <1>2 DEF DeployAndMap, Maps
  <2>2. /\ servedToken[a] = NoToken /\ wrappedTokenToTokenInfo[a] = NoToken
        /\ wrappedAddressIsNotMintable[a] = FALSE /\ a \in Addresses
    BY <2>1, FreshProxy DEF MapsTyped
  <2>3. a \notin NotMintable /\ a \notin WETHContracts
        /\ \A u \in Foreign : a = ProxyOf[u] => u = t
    BY ProxiesAre
  <2>4. deployed' \subseteq Addresses /\ wrappedAddressIsNotMintable' \in [Addresses -> BOOLEAN]
    BY <2>1, <2>2 DEF MapsTyped
  <2> HIDE DEF a
  <2> QED BY <2>1, <2>2, <2>3, <2>4, ContractMapped
<1>3. ASSUME NEW t \in Foreign, DeployWrappedTokenAndRemap(t)
      PROVE  MapsTyped' /\ MapsOK'
  <2> DEFINE a == ProxyOf[t]
  <2>1. /\ a \notin deployed /\ deployed' = deployed \cup {a}
        /\ \/ t = Ether /\ SetWETHToken(a) /\ UNCHANGED servedToken
           \/ /\ MapToken(t, a) /\ servedToken' = [servedToken EXCEPT ![a] = t]
              /\ UNCHANGED WETHToken
    BY <1>3 DEF DeployWrappedTokenAndRemap
  <2>2. servedToken[a] = NoToken /\ a \in Addresses
    BY <2>1, FreshProxy
  <2>3. deployed \subseteq deployed' /\ deployed' \subseteq Addresses
    BY <2>1, <2>2 DEF MapsTyped
  <2>4. CASE t = Ether /\ SetWETHToken(a) /\ UNCHANGED servedToken
    BY <2>3, <2>4, WETHSet
  <2>5. CASE MapToken(t, a) /\ servedToken' = [servedToken EXCEPT ![a] = t] /\ UNCHANGED WETHToken
    <3>1. /\ t # Ether /\ wrappedTokenToTokenInfo[a] = NoToken /\ Maps(t, a)
          /\ wrappedAddressIsNotMintable'
                 = [wrappedAddressIsNotMintable EXCEPT ![a] = a \in NotMintable]
      BY <2>5 DEF MapToken, Maps
    <3>2. /\ wrappedAddressIsNotMintable' \in [Addresses -> BOOLEAN]
          /\ \A b \in Addresses \ {a} :
                wrappedAddressIsNotMintable'[b] = wrappedAddressIsNotMintable[b]
          /\ wrappedAddressIsNotMintable'[a] = (a \in NotMintable)
      BY <2>2, <3>1 DEF MapsTyped
    <3>3. a \notin WETHContracts /\ \A u \in Foreign : a = ProxyOf[u] => u = t
      BY <3>1, ProxiesAre
    <3>4. a \in deployed'
      BY <2>1
    <3> HIDE DEF a
    <3> QED BY <2>2, <2>3, <2>5, <3>1, <3>2, <3>3, <3>4, ContractMapped
  <2> QED BY <2>1, <2>4, <2>5
<1>4. ASSUME NEW t \in Foreign, NEW a \in SovereignTokens, SetSovereignTokenAddress(t, a)
      PROVE  MapsTyped' /\ MapsOK'
  <2>1. /\ t # Ether /\ wrappedTokenToTokenInfo[a] = NoToken /\ Maps(t, a)
        /\ servedToken[a] \in {NoToken, t}
        /\ ~(HasWETH /\ a \in WETHTokens)
        /\ wrappedAddressIsNotMintable'
               = [wrappedAddressIsNotMintable EXCEPT ![a] = a \in NotMintable]
        /\ deployed' = deployed /\ UNCHANGED WETHToken
    BY <1>4 DEF SetSovereignTokenAddress, MapToken, Maps
  <2>2. a \in Addresses /\ \A u \in Foreign : a # ProxyOf[u]
    BY ContractsAre, ProxiesAre
  <2>3. /\ wrappedAddressIsNotMintable' \in [Addresses -> BOOLEAN]
        /\ \A b \in Addresses \ {a} :
              wrappedAddressIsNotMintable'[b] = wrappedAddressIsNotMintable[b]
        /\ wrappedAddressIsNotMintable'[a] = (a \in NotMintable)
        /\ deployed \subseteq deployed' /\ deployed' \subseteq Addresses
    BY <2>1, <2>2 DEF MapsTyped
  <2>4. a \notin WETHContracts
    BY <2>1, <2>2, ContractsAre DEF WETHContracts
  <2> QED BY <2>1, <2>2, <2>3, <2>4, ContractMapped
<1>5. ASSUME NEW a \in Addresses, RemoveLegacySovereignTokenAddress(a)
      PROVE  MapsTyped' /\ MapsOK'
  BY <1>5, TokenForgotten
<1>6. ASSUME NEW a \in WETHTokens, SetSovereignWETHAddress(a)
      PROVE  MapsTyped' /\ MapsOK'
  <2>1. SetWETHToken(a) /\ UNCHANGED servedToken /\ deployed' = deployed
    BY <1>6 DEF SetSovereignWETHAddress
  <2>2. deployed \subseteq deployed' /\ deployed' \subseteq Addresses
    BY <2>1 DEF MapsTyped
  <2> QED BY <2>1, <2>2, WETHSet
<1> QED BY <1>1, <1>2, <1>3, <1>4, <1>5, <1>6 DEF MapsStep, ManagerStep

-----------------------------------------------------------------------------
(* What users and bridge hold. *)

\* The bridge knows whether it can mint a.
KnowsMint(a) == a \in NotMintable => wrappedAddressIsNotMintable[a]

LEMMA CustodyTypes ==
    ASSUME MoneyTyped
    PROVE  /\ \A a \in Addresses : held[a] \in Nat /\ custody[a] \in Nat
           /\ held[NoAddress] \in Nat
           /\ \A a \in NotMintable : a \in Addresses /\ a # NoAddress
  BY ContractsAre DEF MoneyTyped

LEMMA WrappedGiven ==
    ASSUME MapsTyped, MoneyTyped, NotMintableConserved,
           NEW a \in Addresses, NEW x \in Nat, KnowsMint(a), GiveWrapped(a, x)
    PROVE  /\ MoneyTyped' /\ NotMintableConserved'
           /\ held' = [held EXCEPT ![a] = @ + x]
<1>1. /\ held' = [held EXCEPT ![a] = @ + x]
      /\ custody' = IF wrappedAddressIsNotMintable[a]
                    THEN [custody EXCEPT ![a] = @ - x] ELSE custody
      /\ wrappedAddressIsNotMintable[a] => custody[a] >= x
  BY DEF GiveWrapped, CanGiveWrapped
<1>2. held[a] \in Nat /\ custody[a] \in Nat
  BY CustodyTypes
<1>3. wrappedAddressIsNotMintable[a] => custody[a] - x \in Nat
  BY <1>1, <1>2
<1>4. MoneyTyped'
  <2>1. held' \in [Addresses \cup {NoAddress} -> Nat]
    BY <1>1, <1>2 DEF MoneyTyped
  <2>2. custody' \in [Addresses -> Nat]
    BY <1>1, <1>3 DEF MoneyTyped
  <2> QED BY <2>1, <2>2 DEF MoneyTyped
<1>5. ASSUME NEW b \in NotMintable PROVE held'[b] + custody'[b] = InitialHeld[b]
  <2>1. held[b] \in Nat /\ custody[b] \in Nat /\ held[b] + custody[b] = InitialHeld[b]
    BY CustodyTypes DEF NotMintableConserved
  <2>2. CASE b = a
    <3>1. held'[b] = held[b] + x /\ custody'[b] = custody[b] - x
      BY <1>1, <2>2, CustodyTypes DEF MoneyTyped, KnowsMint
    <3> QED BY <2>1, <3>1
  <2>3. CASE b # a
    <3>1. held'[b] = held[b] /\ custody'[b] = custody[b]
      BY <1>1, <2>3, CustodyTypes DEF MoneyTyped
    <3> QED BY <2>1, <3>1
  <2> QED BY <2>2, <2>3
<1> QED BY <1>1, <1>4, <1>5 DEF NotMintableConserved

LEMMA WrappedTaken ==
    ASSUME MapsTyped, MoneyTyped, NotMintableConserved,
           NEW a \in Addresses, NEW x \in Nat, KnowsMint(a), TakeWrapped(a, x),
           held' = [held EXCEPT ![a] = @ - x]
    PROVE  MoneyTyped' /\ NotMintableConserved'
<1>1. /\ held[a] >= x
      /\ custody' = IF wrappedAddressIsNotMintable[a]
                    THEN [custody EXCEPT ![a] = @ + x] ELSE custody
  BY DEF TakeWrapped
<1>2. held[a] \in Nat /\ custody[a] \in Nat
  BY CustodyTypes
<1>3. held[a] - x \in Nat /\ custody[a] + x \in Nat
  BY <1>1, <1>2
<1>4. MoneyTyped'
  <2>1. held' \in [Addresses \cup {NoAddress} -> Nat]
    BY <1>3 DEF MoneyTyped
  <2>2. custody' \in [Addresses -> Nat]
    BY <1>1, <1>3 DEF MoneyTyped
  <2> QED BY <2>1, <2>2 DEF MoneyTyped
<1>5. ASSUME NEW b \in NotMintable PROVE held'[b] + custody'[b] = InitialHeld[b]
  <2>1. held[b] \in Nat /\ custody[b] \in Nat /\ held[b] + custody[b] = InitialHeld[b]
    BY CustodyTypes DEF NotMintableConserved
  <2>2. CASE b = a
    <3>1. held'[b] = held[b] - x /\ custody'[b] = custody[b] + x
      BY <1>1, <2>2, CustodyTypes DEF MoneyTyped, KnowsMint
    <3> QED BY <2>1, <3>1
  <2>3. CASE b # a
    <3>1. held'[b] = held[b] /\ custody'[b] = custody[b]
      BY <1>1, <2>3, CustodyTypes DEF MoneyTyped
    <3> QED BY <2>1, <3>1
  <2> QED BY <2>2, <2>3
<1> QED BY <1>4, <1>5 DEF NotMintableConserved

\* The coin comes or goes, and the bridge has enough of it.
LEMMA CoinMoved ==
    ASSUME MoneyTyped, NotMintableConserved, NEW y \in Nat,
           held' = [held EXCEPT ![NoAddress] = y], UNCHANGED custody
    PROVE  MoneyTyped' /\ NotMintableConserved'
<1>1. MoneyTyped'
  BY DEF MoneyTyped
<1>2. \A b \in NotMintable : held'[b] = held[b] /\ custody'[b] = custody[b]
  BY CustodyTypes DEF MoneyTyped
<1> QED BY <1>1, <1>2 DEF NotMintableConserved

\* A token of this chain comes back, or is given to the bridge.
LEMMA OwnMoved ==
    ASSUME MoneyTyped, NotMintableConserved, NEW a \in Addresses, NEW d \in Int,
           held' = [held EXCEPT ![a] = @ + d], custody' = [custody EXCEPT ![a] = @ - d],
           held[a] + d \in Nat, custody[a] - d \in Nat
    PROVE  MoneyTyped' /\ NotMintableConserved'
<1>1. MoneyTyped'
  BY DEF MoneyTyped
<1>2. ASSUME NEW b \in NotMintable PROVE held'[b] + custody'[b] = InitialHeld[b]
  <2>1. held[b] \in Nat /\ custody[b] \in Nat /\ held[b] + custody[b] = InitialHeld[b]
    BY CustodyTypes DEF NotMintableConserved
  <2>2. CASE b = a
    <3>1. held'[b] = held[b] + d /\ custody'[b] = custody[b] - d
      BY <2>2, CustodyTypes DEF MoneyTyped
    <3> QED BY <2>1, <3>1
  <2>3. CASE b # a
    <3>1. held'[b] = held[b] /\ custody'[b] = custody[b]
      BY <2>3, CustodyTypes DEF MoneyTyped
    <3> QED BY <2>1, <3>1
  <2> QED BY <2>2, <2>3
<1> QED BY <1>1, <1>2 DEF NotMintableConserved

\* The contracts in use are known, and stand for their token.
LEMMA ContractsInUse ==
    ASSUME gasToken \in GasTokens, MapsTyped, MapsOK
    PROVE  /\ NoAddress \in EverStoodFor(gasToken) /\ gasToken \in Foreign
           /\ HasWETH => /\ WETHToken \in Addresses /\ KnowsMint(WETHToken)
                         /\ WETHToken \in EverStoodFor(Ether)
           /\ \A a \in Addresses : wrappedTokenToTokenInfo[a] # NoToken =>
                  /\ KnowsMint(a) /\ wrappedTokenToTokenInfo[a] \in Foreign
                  /\ a \in EverStoodFor(wrappedTokenToTokenInfo[a])
                  /\ tokenInfoToWrappedToken[wrappedTokenToTokenInfo[a]] \in Addresses
           /\ \A t \in Foreign : tokenInfoToWrappedToken[t] # NoAddress =>
                  /\ tokenInfoToWrappedToken[t] \in Addresses
                  /\ KnowsMint(tokenInfoToWrappedToken[t])
                  /\ tokenInfoToWrappedToken[t] \in EverStoodFor(t)
<1>1. NoAddress \in EverStoodFor(gasToken) /\ gasToken \in Foreign
  BY ContractsAre DEF EverStoodFor
<1>2. HasWETH => /\ WETHToken \in Addresses /\ KnowsMint(WETHToken)
                 /\ WETHToken \in EverStoodFor(Ether)
  <2>1. HasWETH => WETHToken \in WETHTokens \cup {ProxyOf[Ether]}
    BY DEF MapsTyped
  <2>2. WETHTokens \cup {ProxyOf[Ether]} \subseteq Addresses
    BY ContractsAre
  <2>3. HasWETH => WETHToken \in EverStoodFor(Ether)
    BY <2>1, <2>2 DEF EverStoodFor
  <2> QED BY <2>1, <2>2, <2>3 DEF MapsOK, KnowsMint
<1>3. ASSUME NEW a \in Addresses, wrappedTokenToTokenInfo[a] # NoToken
      PROVE  /\ KnowsMint(a) /\ wrappedTokenToTokenInfo[a] \in Foreign
             /\ a \in EverStoodFor(wrappedTokenToTokenInfo[a])
             /\ tokenInfoToWrappedToken[wrappedTokenToTokenInfo[a]] \in Addresses
  <2>1. a # NoAddress /\ servedToken[a] = wrappedTokenToTokenInfo[a]
    BY <1>3, ContractsAre DEF MapsOK
  <2>2. wrappedTokenToTokenInfo[a] \in Foreign
    BY <1>3 DEF MapsTyped
  <2>3. tokenInfoToWrappedToken[wrappedTokenToTokenInfo[a]] \in Addresses
    BY <1>3, <2>2 DEF MapsTyped, MapsOK
  <2>4. KnowsMint(a)
    BY <1>3 DEF MapsOK, KnowsMint
  <2> QED BY <2>1, <2>2, <2>3, <2>4 DEF EverStoodFor
<1>4. ASSUME NEW t \in Foreign, tokenInfoToWrappedToken[t] # NoAddress
      PROVE  /\ tokenInfoToWrappedToken[t] \in Addresses
             /\ wrappedTokenToTokenInfo[tokenInfoToWrappedToken[t]] = t /\ t # NoToken
  BY <1>4, ContractsAre DEF MapsTyped, MapsOK
<1> QED BY <1>1, <1>2, <1>3, <1>4

\* TokenOf looks the contract up where EverStoodFor finds it.
LEMMA StandFor ==
    ASSUME gasToken \in GasTokens, MapsTyped, MapsOK,
           NEW a \in Addresses \cup {NoAddress}, NEW t \in Foreign, TokenOf(a) = t
    PROVE  /\ a \in EverStoodFor(t)
           /\ a = NoAddress => t = gasToken
           /\ a # NoAddress => a \in Addresses /\ KnowsMint(a) /\ TokenOf(a) # a
<1>1. CASE a = NoAddress
  BY <1>1, ContractsInUse DEF TokenOf
<1>2. CASE a # NoAddress /\ a = WETHToken
  BY <1>2, ContractsInUse, ContractsAre DEF TokenOf, MapsTyped
<1>3. CASE a # NoAddress /\ a # WETHToken
  <2>1. a \in Addresses /\ a \notin Foreign
    BY <1>3, ContractsAre
  <2>2. wrappedTokenToTokenInfo[a] = t /\ t # NoToken
    BY <1>3, <2>1, ContractsAre DEF TokenOf
  <2> QED BY <1>3, <2>1, <2>2, ContractsInUse
<1> QED BY <1>1, <1>2, <1>3

-----------------------------------------------------------------------------
(* How money moves: a claim, an exit and a migration. *)

\* The contract a has to do with a leaf: the token itself, or one that stands for it.
Carries(a, leaf) == leaf.token = a \/ (leaf.token \in Foreign /\ a \in EverStoodFor(leaf.token))

ClaimMoves(leaf, a) ==
    /\ \E globalIndex \in ClaimIndexes : RecordClaim(globalIndex, leaf)
    /\ IncreaseLocalBalanceTree(leaf) /\ UNCHANGED exitTree
    /\ held' = [held EXCEPT ![a] = @ + leaf.amount]
    /\ Carries(a, leaf)'

ExitMoves(leaf, a) ==
    /\ AddLeafBridge(leaf) /\ UNCHANGED claimedGlobalIndexHashChain
    /\ held' = [held EXCEPT ![a] = @ - leaf.amount]
    /\ Carries(a, leaf)

MigrationMoves(t, a, b, x) ==
    /\ UNCHANGED <<exitTreeVars, claimedGlobalIndexHashChain>>
    /\ a # b /\ a \in EverStoodFor(t) /\ b \in EverStoodFor(t)
    /\ held' = [held EXCEPT ![a] = @ - x, ![b] = @ + x]

HeldStep ==
    \/ UNCHANGED <<held, exitTreeVars, claimedGlobalIndexHashChain>>
    \/ \E leaf \in InboundLeaves, a \in Addresses \cup {NoAddress} :
           ClaimMoves(leaf, a) \/ (ExitMoves(leaf, a) /\ UNCHANGED <<mapVars, gasToken>>)
    \/ \E t \in Foreign, a, b \in Addresses, x \in Nat :
           MigrationMoves(t, a, b, x) /\ UNCHANGED <<mapVars, gasToken>>

MoneyOK == MoneyTyped /\ NotMintableConserved

LEMMA EverStoodKept ==
    ASSUME UNCHANGED <<mapVars, gasToken>>, NEW t, NEW a, NEW leaf
    PROVE  /\ EverStoodFor(t)' = EverStoodFor(t)
           /\ Carries(a, leaf)' <=> Carries(a, leaf)
  BY DEF mapVars, EverStoodFor, HasWETH, Carries

LEMMA AssetPaid ==
    ASSUME gasToken \in GasTokens, MapsTyped, MapsOK, MoneyOK, gasToken' = gasToken,
           NEW leaf \in InboundLeaves, PayAsset(leaf.token, leaf.amount)
    PROVE  /\ MoneyOK'
           /\ \E a \in Addresses \cup {NoAddress} :
                  held' = [held EXCEPT ![a] = @ + leaf.amount] /\ Carries(a, leaf)'
<1> DEFINE t == leaf.token
           x == leaf.amount
           Goal == /\ MoneyOK'
                   /\ \E a \in Addresses \cup {NoAddress} :
                          held' = [held EXCEPT ![a] = @ + x] /\ Carries(a, leaf)'
<1>1. x \in Nat /\ t \in Foreign \cup Addresses
  BY LeavesAre
<1>2. ASSUME t = Ether, HasWETH, GiveWrapped(WETHToken, x), UNCHANGED mapVars PROVE Goal
  <2>1. WETHToken \in Addresses /\ KnowsMint(WETHToken) /\ WETHToken \in EverStoodFor(Ether)
    BY <1>2, ContractsInUse
  <2>2. MoneyOK' /\ held' = [held EXCEPT ![WETHToken] = @ + x]
    BY <1>1, <1>2, <2>1, WrappedGiven DEF MoneyOK
  <2>3. Carries(WETHToken, leaf)
    BY <1>2, <2>1, ContractsAre DEF Carries
  <2> HIDE DEF t, x
  <2>4. PICK w : w = WETHToken
    OBVIOUS
  <2>5. Carries(w, leaf)'
    BY <1>2, <2>3, <2>4, EverStoodKept DEF mapVars
  <2> QED BY <2>1, <2>2, <2>4, <2>5
<1>3. ASSUME t = gasToken, GiveCoin(x), UNCHANGED mapVars PROVE Goal
  <2>1. held' = [held EXCEPT ![NoAddress] = @ + x] /\ UNCHANGED custody
    BY <1>3 DEF GiveCoin
  <2>2. held[NoAddress] + x \in Nat
    BY <1>1, CustodyTypes DEF MoneyOK
  <2>3. MoneyOK'
    BY <2>1, <2>2, CoinMoved DEF MoneyOK
  <2>4. Carries(NoAddress, leaf)'
    BY <1>3, ContractsInUse, EverStoodKept DEF Carries
  <2> QED BY <2>1, <2>3, <2>4
<1>4. ASSUME ~IsForeign(t), GiveOwn(t, x) PROVE Goal
  <2>1. /\ custody[t] >= x /\ t \in Addresses
        /\ custody' = [custody EXCEPT ![t] = @ - x]
        /\ held' = [held EXCEPT ![t] = @ + x]
    BY <1>1, <1>4 DEF GiveOwn, IsForeign
  <2>2. held[t] + x \in Nat /\ custody[t] - x \in Nat
    BY <1>1, <2>1, CustodyTypes DEF MoneyOK
  <2>3. MoneyOK'
    <3>1. MoneyTyped /\ NotMintableConserved /\ x \in Int /\ t \in Addresses
      BY <1>1, <2>1 DEF MoneyOK
    <3> HIDE DEF t, x, Goal
    <3>2. MoneyTyped' /\ NotMintableConserved'
      BY <2>1, <2>2, <3>1, OwnMoved
    <3> QED BY <3>2 DEF MoneyOK
  <2> QED BY <2>1, <2>3 DEF Carries
<1>5. ASSUME t \in Foreign, t # Ether, tokenInfoToWrappedToken[t] = NoAddress,
             GiveWrapped(ProxyOf[t], x), DeployAndMap(t)
      PROVE  Goal
  <2> DEFINE a == ProxyOf[t]
  <2>1. a \in Addresses /\ KnowsMint(a) /\ a # NoAddress
    BY <1>5, ContractsAre, ProxiesAre DEF KnowsMint
  <2>2. MoneyOK' /\ held' = [held EXCEPT ![a] = @ + x]
    BY <1>1, <1>5, <2>1, WrappedGiven DEF MoneyOK
  <2>3. servedToken'[a] = t
    BY <1>5, <2>1 DEF DeployAndMap, MapsTyped
  <2>4. Carries(a, leaf)'
    BY <1>5, <2>1, <2>3 DEF Carries, EverStoodFor
  <2> QED BY <2>1, <2>2, <2>4
<1>6. ASSUME t \in Foreign, tokenInfoToWrappedToken[t] # NoAddress,
             GiveWrapped(tokenInfoToWrappedToken[t], x), UNCHANGED mapVars
      PROVE  Goal
  <2>1. PICK a : a = tokenInfoToWrappedToken[t]
    OBVIOUS
  <2>2. a \in Addresses /\ KnowsMint(a) /\ a \in EverStoodFor(t)
    BY <1>6, <2>1, ContractsInUse
  <2>3. MoneyOK' /\ held' = [held EXCEPT ![a] = @ + x]
    BY <1>1, <1>6, <2>1, <2>2, WrappedGiven DEF MoneyOK
  <2>4. Carries(a, leaf)'
    BY <1>6, <2>2, EverStoodKept DEF Carries
  <2> QED BY <2>2, <2>3, <2>4
<1>7. Goal
  <2>1. PayAsset(t, x)
    OBVIOUS
  <2> HIDE DEF t, x, Goal
  <2> QED BY <1>2, <1>3, <1>4, <1>5, <1>6, <2>1 DEF PayAsset, IsForeign
<1> QED BY <1>7

LEMMA MessagePaid ==
    ASSUME gasToken \in GasTokens, MapsTyped, MapsOK, MoneyOK,
           NEW leaf \in InboundLeaves, leaf.leafType = "message",
           \/ ~HasWETH /\ GiveCoin(leaf.amount)
           \/ HasWETH /\ GiveWrapped(WETHToken, leaf.amount),
           UNCHANGED <<mapVars, gasToken>>
    PROVE  /\ MoneyOK'
           /\ \E a \in Addresses \cup {NoAddress} :
                  held' = [held EXCEPT ![a] = @ + leaf.amount] /\ Carries(a, leaf)'
<1> DEFINE x == leaf.amount
<1>1. x \in Nat /\ leaf.token = Ether
  BY LeavesAre DEF BalanceToken
<1>2. CASE ~HasWETH /\ GiveCoin(x)
  <2>1. held' = [held EXCEPT ![NoAddress] = @ + x] /\ UNCHANGED custody
    BY <1>2 DEF GiveCoin
  <2>2. held[NoAddress] + x \in Nat
    BY <1>1, CustodyTypes DEF MoneyOK
  <2>3. MoneyOK'
    BY <2>1, <2>2, CoinMoved DEF MoneyOK
  <2>4. Carries(NoAddress, leaf)'
    BY <1>1, <1>2, ContractsInUse, EverStoodKept DEF Carries, HasWETH
  <2> QED BY <2>1, <2>3, <2>4
<1>3. CASE HasWETH /\ GiveWrapped(WETHToken, x)
  <2>1. PICK w : w = WETHToken
    OBVIOUS
  <2>2. w \in Addresses /\ KnowsMint(w) /\ w \in EverStoodFor(Ether)
    BY <1>3, <2>1, ContractsInUse
  <2>3. MoneyOK' /\ held' = [held EXCEPT ![w] = @ + x]
    BY <1>1, <1>3, <2>1, <2>2, WrappedGiven DEF MoneyOK
  <2>4. Carries(w, leaf)'
    BY <1>1, <2>2, EverStoodKept, ContractsAre DEF Carries
  <2> QED BY <2>2, <2>3, <2>4
<1> QED BY <1>2, <1>3

LEMMA AssetTaken ==
    ASSUME TypeOK, MapsOK, NotMintableConserved, gasToken' = gasToken,
           NEW a \in Addresses \cup {NoAddress}, NEW amount \in Amounts, BridgeAsset(a, amount)
    PROVE  MoneyOK' /\ HeldStep
<1> DEFINE leaf == [leafType |-> "asset", token |-> TokenOf(a), amount |-> amount]
<1>1. /\ held[a] >= amount /\ held' = [held EXCEPT ![a] = @ - amount]
      /\ AddLeafBridge(leaf) /\ UNCHANGED <<claimVars, mapVars>>
      /\ CASE a = NoAddress -> UNCHANGED custody
           [] TokenOf(a) = a -> custody' = [custody EXCEPT ![a] = @ + amount]
           [] OTHER -> TakeWrapped(a, amount)
  BY DEF BridgeAsset
<1>2. /\ gasToken \in GasTokens /\ MapsTyped /\ MoneyTyped /\ amount \in Nat
      /\ TokenOf(a) \in Foreign \cup {a} /\ leaf \in InboundLeaves
  BY AmountsAre, TokenOfTyped, BridgedLeafTyped DEF TypeOK
<1>3. TokenOf(a) \in Foreign => a \in EverStoodFor(TokenOf(a))
  BY <1>2, StandFor
<1>4. Carries(a, leaf)
  BY <1>2, <1>3 DEF Carries
<1>5. HeldStep
  <2>1. leaf.amount = amount
    OBVIOUS
  <2> HIDE DEF leaf
  <2>2. ExitMoves(leaf, a) /\ UNCHANGED <<mapVars, gasToken>>
    BY <1>1, <1>4, <2>1 DEF ExitMoves, claimVars
  <2> QED BY <1>2, <2>2 DEF HeldStep
<1>6. held[a] \in Nat /\ held[a] - amount \in Nat
  BY <1>1, <1>2, CustodyTypes
<1>7. MoneyTyped' /\ NotMintableConserved'
  <2>1. CASE a = NoAddress
    <3>1. TokenOf(a) # a
      BY <1>2, <2>1, TokenOfTyped, ContractsAre
    <3>2. UNCHANGED custody
      BY <1>1, <2>1, <3>1
    <3>3. held' = [held EXCEPT ![NoAddress] = held[NoAddress] - amount]
          /\ held[NoAddress] - amount \in Nat
      BY <1>1, <1>6, <2>1
    <3> QED BY <1>2, <3>2, <3>3, CoinMoved
  <2>2. CASE a # NoAddress /\ TokenOf(a) = a
    <3>1. a \in Addresses /\ -amount \in Int
      BY <1>2, <2>2
    <3>2. custody' = [custody EXCEPT ![a] = @ + amount]
      BY <1>1, <2>2
    <3>3. /\ custody[a] \in Nat /\ custody[a] + amount \in Nat
          /\ custody[a] - (-amount) = custody[a] + amount
          /\ held[a] + (-amount) = held[a] - amount
      BY <1>2, <1>6, <3>1, CustodyTypes
    <3>4. /\ held' = [held EXCEPT ![a] = @ + (-amount)]
          /\ custody' = [custody EXCEPT ![a] = @ - (-amount)]
          /\ held[a] + (-amount) \in Nat /\ custody[a] - (-amount) \in Nat
      BY <1>1, <1>6, <3>2, <3>3
    <3> QED BY <1>2, <3>1, <3>4, OwnMoved
  <2>3. CASE a # NoAddress /\ TokenOf(a) # a
    <3>1. TakeWrapped(a, amount) /\ a \in Addresses /\ KnowsMint(a)
      BY <1>1, <1>2, <2>3, StandFor
    <3> QED BY <1>1, <1>2, <3>1, WrappedTaken
  <2> QED BY <2>1, <2>2, <2>3
<1> QED BY <1>5, <1>7 DEF MoneyOK

LEMMA MessageTaken ==
    ASSUME TypeOK, MapsOK, NotMintableConserved, gasToken' = gasToken,
           NEW amount \in Amounts, BridgeMessage(amount)
    PROVE  MoneyOK' /\ HeldStep
<1> DEFINE leaf == [leafType |-> "message", token |-> Ether, amount |-> amount]
<1>1. AddLeafBridge(leaf) /\ UNCHANGED <<claimVars, mapVars>>
  BY DEF BridgeMessage
<1>2. /\ gasToken \in GasTokens /\ MapsTyped /\ MoneyTyped /\ amount \in Nat
      /\ leaf \in InboundLeaves /\ leaf.token = Ether /\ leaf.amount = amount
  BY AmountsAre, BridgedLeafTyped DEF TypeOK
<1> HIDE DEF leaf
<1>3. ASSUME NEW a \in Addresses \cup {NoAddress}, a \in EverStoodFor(Ether),
             held' = [held EXCEPT ![a] = @ - amount]
      PROVE  HeldStep
  <2>1. ExitMoves(leaf, a) /\ UNCHANGED <<mapVars, gasToken>>
    BY <1>1, <1>2, <1>3, ContractsAre DEF ExitMoves, Carries, claimVars
  <2> QED BY <1>2, <2>1 DEF HeldStep
<1>4. CASE /\ WETHToken = NoAddress /\ held[NoAddress] >= amount
           /\ held' = [held EXCEPT ![NoAddress] = @ - amount] /\ UNCHANGED custody
  <2>1. NoAddress \in EverStoodFor(Ether)
    BY <1>2, <1>4, ContractsInUse DEF MapsTyped, HasWETH
  <2>2. held[NoAddress] - amount \in Nat
    BY <1>2, <1>4, CustodyTypes
  <2>3. MoneyTyped' /\ NotMintableConserved'
    BY <1>2, <1>4, <2>2, CoinMoved
  <2> QED BY <1>3, <1>4, <2>1, <2>3 DEF MoneyOK
<1>5. CASE /\ WETHToken # NoAddress /\ TakeWrapped(WETHToken, amount)
           /\ held' = [held EXCEPT ![WETHToken] = @ - amount]
  <2>1. WETHToken \in Addresses /\ KnowsMint(WETHToken) /\ WETHToken \in EverStoodFor(Ether)
    BY <1>2, <1>5, ContractsInUse DEF MapsTyped
  <2>2. MoneyTyped' /\ NotMintableConserved'
    BY <1>2, <1>5, <2>1, WrappedTaken
  <2> QED BY <1>3, <1>5, <2>1, <2>2 DEF MoneyOK
<1> QED BY <1>4, <1>5 DEF BridgeMessage

\* The legacy token is taken and the one in force given, as two steps of WrappedTaken
\* and WrappedGiven in one.
LEMMA TokenMigrated ==
    ASSUME TypeOK, MapsOK, NotMintableConserved, gasToken' = gasToken,
           NEW a \in Addresses, NEW amount \in Amounts, MigrateLegacyToken(a, amount)
    PROVE  MoneyOK' /\ HeldStep
<1>1. PICK t, c : t = wrappedTokenToTokenInfo[a] /\ c = tokenInfoToWrappedToken[t]
  OBVIOUS
<1>2. /\ t # NoToken /\ c # a /\ held[a] >= amount
      /\ wrappedAddressIsNotMintable[c] => custody[c] >= amount
      /\ held' = [held EXCEPT ![a] = @ - amount, ![c] = @ + amount]
      /\ custody' = [custody EXCEPT
             ![a] = IF wrappedAddressIsNotMintable[a] THEN @ + amount ELSE @,
             ![c] = IF wrappedAddressIsNotMintable[c] THEN @ - amount ELSE @]
      /\ UNCHANGED <<claimVars, mapVars, exitTreeVars>>
  BY <1>1 DEF MigrateLegacyToken, CanGiveWrapped, Migrated
<1>3. /\ gasToken \in GasTokens /\ MapsTyped /\ MoneyTyped /\ amount \in Nat
  BY AmountsAre DEF TypeOK
<1>4. /\ t \in Foreign /\ KnowsMint(a) /\ a \in EverStoodFor(t) /\ c \in Addresses
      /\ KnowsMint(c) /\ c \in EverStoodFor(t)
  <2>1. t \in Foreign /\ KnowsMint(a) /\ a \in EverStoodFor(t) /\ c \in Addresses
    BY <1>1, <1>2, <1>3, ContractsInUse
  <2> QED BY <1>1, <1>3, <2>1, ContractsInUse, ContractsAre
<1>5. HeldStep
  <2>1. MigrationMoves(t, a, c, amount) /\ UNCHANGED <<mapVars, gasToken>>
    BY <1>2, <1>4 DEF MigrationMoves, claimVars
  <2> QED BY <1>3, <1>4, <2>1 DEF HeldStep
<1>6. /\ held[a] \in Nat /\ held[c] \in Nat /\ custody[a] \in Nat /\ custody[c] \in Nat
  BY <1>3, <1>4, CustodyTypes
<1>7. held[a] - amount \in Nat /\ held[c] + amount \in Nat /\ custody[a] + amount \in Nat
      /\ (wrappedAddressIsNotMintable[c] => custody[c] - amount \in Nat)
  BY <1>2, <1>3, <1>6
<1>8. \A b \in Addresses :
          /\ held'[b] = IF b = a THEN held[a] - amount
                        ELSE IF b = c THEN held[c] + amount ELSE held[b]
          /\ custody'[b] = IF b = a
                           THEN IF wrappedAddressIsNotMintable[a] THEN custody[a] + amount
                                ELSE custody[a]
                           ELSE IF b = c
                           THEN IF wrappedAddressIsNotMintable[c] THEN custody[c] - amount
                                ELSE custody[c]
                           ELSE custody[b]
  BY <1>2, <1>3, <1>4 DEF MoneyTyped
<1>9. MoneyTyped'
  <2>1. held' \in [Addresses \cup {NoAddress} -> Nat]
    BY <1>2, <1>3, <1>4, <1>7 DEF MoneyTyped
  <2>2. custody' \in [Addresses -> Nat]
    <3>1. \A b \in Addresses : custody'[b] \in Nat
      BY <1>3, <1>6, <1>7, <1>8, CustodyTypes
    <3>2. custody' = [b \in Addresses |-> custody'[b]]
      BY <1>2, <1>3 DEF MoneyTyped
    <3> QED BY <3>1, <3>2
  <2> QED BY <2>1, <2>2 DEF MoneyTyped
<1>10. ASSUME NEW b \in NotMintable PROVE held'[b] + custody'[b] = InitialHeld[b]
  <2>1. b \in Addresses /\ held[b] \in Nat /\ custody[b] \in Nat
        /\ held[b] + custody[b] = InitialHeld[b]
    BY <1>3, CustodyTypes DEF NotMintableConserved
  <2>2. CASE b = a
    <3>1. held'[b] = held[b] - amount /\ custody'[b] = custody[b] + amount
      BY <1>4, <1>8, <2>1, <2>2 DEF KnowsMint
    <3> QED BY <1>3, <2>1, <3>1
  <2>3. CASE b = c
    <3>1. held'[b] = held[b] + amount /\ custody'[b] = custody[b] - amount
      BY <1>2, <1>4, <1>8, <2>1, <2>3 DEF KnowsMint
    <3> QED BY <1>3, <2>1, <3>1
  <2>4. CASE b # a /\ b # c
    BY <1>8, <2>1, <2>4
  <2> QED BY <2>2, <2>3, <2>4
<1> QED BY <1>5, <1>9, <1>10 DEF MoneyOK, NotMintableConserved

LEMMA MoneyStep ==
    ASSUME TypeOK, MapsOK, NotMintableConserved, SovereignNext
    PROVE  MoneyOK' /\ HeldStep
<1>1. gasToken' = gasToken /\ gasToken \in GasTokens /\ MapsTyped /\ MoneyOK
  BY DEF SovereignNext, TypeOK, MoneyOK
<1>2. ASSUME UNCHANGED <<moneyVars, exitTreeVars, claimedGlobalIndexHashChain>>
      PROVE  MoneyOK' /\ HeldStep
  BY <1>1, <1>2 DEF moneyVars, MoneyOK, MoneyTyped, NotMintableConserved, HeldStep
<1>3. CASE ExitRootStep
  BY <1>2, <1>3 DEF ExitRootStep, InsertGlobalExitRoot, RemoveGlobalExitRoots, claimVars
<1>4. CASE ClaimStep
  <2>1. ASSUME NEW ger \in globalExitRootMap, NEW globalIndex \in ClaimIndexes,
               NEW leaf \in Entries(ger[SourceOf(globalIndex)]),
               ClaimAsset(ger, globalIndex, leaf) \/ ClaimMessage(ger, globalIndex, leaf)
        PROVE  MoneyOK' /\ HeldStep
    <3>1. leaf \in InboundLeaves
      BY ClaimedLeafTyped
    <3>2. RecordClaim(globalIndex, leaf) /\ IncreaseLocalBalanceTree(leaf) /\ UNCHANGED exitTree
      BY <2>1 DEF ClaimAsset, ClaimMessage, VerifyLeafBridge
    <3>3. /\ MoneyOK'
          /\ \E a \in Addresses \cup {NoAddress} :
                 held' = [held EXCEPT ![a] = @ + leaf.amount] /\ Carries(a, leaf)'
      <4>1. CASE ClaimAsset(ger, globalIndex, leaf)
        BY <1>1, <3>1, <4>1, AssetPaid DEF ClaimAsset
      <4>2. CASE ClaimMessage(ger, globalIndex, leaf)
        BY <1>1, <3>1, <4>2, MessagePaid DEF ClaimMessage
      <4> QED BY <2>1, <4>1, <4>2
    <3>4. PICK a \in Addresses \cup {NoAddress} :
              held' = [held EXCEPT ![a] = @ + leaf.amount] /\ Carries(a, leaf)'
      BY <3>3
    <3>5. ClaimMoves(leaf, a)
      BY <3>2, <3>4 DEF ClaimMoves
    <3> QED BY <3>1, <3>3, <3>5 DEF HeldStep
  <2>2. CASE \E globalIndexes \in ListsUpToTwo(UnsetIndexes) : UnsetMultipleClaims(globalIndexes)
    BY <1>2, <2>2 DEF UnsetMultipleClaims
  <2> QED BY <1>4, <2>1, <2>2 DEF ClaimStep
<1>5. CASE ExitStep
  BY <1>1, <1>5, AssetTaken, MessageTaken, TokenMigrated DEF ExitStep
<1>6. CASE ManagerStep \/ SetEmergencyState
  BY <1>2, <1>6 DEF ManagerStep, SetEmergencyState, DeployWrappedTokenAndRemap, claimVars,
         SetSovereignTokenAddress, RemoveLegacySovereignTokenAddress, SetSovereignWETHAddress
<1> QED BY <1>3, <1>4, <1>5, <1>6 DEF SovereignNext

-----------------------------------------------------------------------------
(* What the contracts represent. *)

LEMMA RepresentedAt ==
    ASSUME ClaimsTyped, BalancesTyped, MoneyTyped, NEW a \in Addresses \cup {NoAddress}
    PROVE  /\ Represented[a] = held[a] + Worth(exitTree, a) - Initially(a) - Worth(ClaimedLeaves, a)
           /\ held[a] \in Nat /\ Worth(exitTree, a) \in Nat /\ Initially(a) \in Nat
           /\ Worth(ClaimedLeaves, a) \in Nat /\ Represented[a] \in Int
<1>1. held[a] \in Nat
  BY DEF MoneyTyped
<1>2. Worth(exitTree, a) \in Nat /\ Worth(ClaimedLeaves, a) \in Nat
  BY WorthNat, ListsOfClaims DEF BalancesTyped
<1>3. Initially(a) \in Nat
  BY SovereignAssumption DEF Initially
<1>4. Represented[a] = held[a] + Worth(exitTree, a) - Initially(a) - Worth(ClaimedLeaves, a)
  BY DEF Represented
<1> QED BY <1>1, <1>2, <1>3, <1>4

LEMMA EverStoodFinite ==
    ASSUME NEW t
    PROVE  IsFiniteSet(EverStoodFor(t)) /\ EverStoodFor(t) \subseteq Addresses \cup {NoAddress}
<1>1. IsFiniteSet(Addresses \cup {NoAddress})
  BY ContractsAre, FS_AddElement
<1>2. EverStoodFor(t) \subseteq Addresses \cup {NoAddress}
  BY DEF EverStoodFor
<1> QED BY <1>1, <1>2, FS_Subset

\* A contract stands for one token.
OneToken ==
    \A t, u \in Foreign : EverStoodFor(t) \cap EverStoodFor(u) # {} => t = u

LEMMA StandsForOne == MapsTyped /\ MapsOK => OneToken
<1> SUFFICES ASSUME MapsTyped, MapsOK, NEW t \in Foreign, NEW u \in Foreign,
                    NEW a, a \in EverStoodFor(t), a \in EverStoodFor(u)
             PROVE  t = u
  BY DEF OneToken
<1>1. CASE a = NoAddress
  BY <1>1, ContractsAre DEF EverStoodFor
<1>2. CASE a # NoAddress
  <2>1. a \in Addresses
    BY <1>2 DEF EverStoodFor
  <2>2. \A v \in Foreign : a \in EverStoodFor(v) =>
            servedToken[a] = v \/ (v = Ether /\ a \in WETHContracts)
    BY <1>2 DEF EverStoodFor, WETHContracts
  <2>3. \A v \in Foreign : servedToken[a] = v => a \notin WETHContracts /\ v # NoToken
    BY <2>1, ContractsAre DEF MapsOK
  <2> QED BY <2>2, <2>3
<1> QED BY <1>1, <1>2

\* A contract keeps the token it serves, and new ones were outside all tokens.
LEMMA ServedKept ==
    ASSUME MapsTyped, MapsOK, gasToken' = gasToken, MapsStep
    PROVE  \A a \in Addresses : servedToken[a] # NoToken => servedToken'[a] = servedToken[a]
<1>1. ASSUME NEW t \in Foreign, DeployAndMap(t)
      PROVE  \A a \in Addresses : servedToken[a] # NoToken => servedToken'[a] = servedToken[a]
  BY <1>1, FreshProxy DEF DeployAndMap, MapsTyped
<1>2. ASSUME NEW t \in Foreign, DeployWrappedTokenAndRemap(t)
      PROVE  \A a \in Addresses : servedToken[a] # NoToken => servedToken'[a] = servedToken[a]
  BY <1>2, FreshProxy DEF DeployWrappedTokenAndRemap, MapsTyped
<1>3. ASSUME NEW t \in Foreign, NEW c \in SovereignTokens, SetSovereignTokenAddress(t, c)
      PROVE  \A a \in Addresses : servedToken[a] # NoToken => servedToken'[a] = servedToken[a]
  BY <1>3 DEF SetSovereignTokenAddress, MapsTyped
<1>4. ASSUME UNCHANGED servedToken
      PROVE  \A a \in Addresses : servedToken[a] # NoToken => servedToken'[a] = servedToken[a]
  BY <1>4
<1> QED BY <1>1, <1>2, <1>3, <1>4
        DEF MapsStep, ManagerStep, mapVars, RemoveLegacySovereignTokenAddress,
            SetSovereignWETHAddress

LEMMA EverStoodGrows ==
    ASSUME gasToken \in GasTokens, MapsTyped, MapsOK, gasToken' = gasToken, MapsStep,
           NEW t \in Foreign
    PROVE  /\ EverStoodFor(t) \subseteq EverStoodFor(t)'
           /\ \A a \in EverStoodFor(t)' \ EverStoodFor(t) :
                  a \in Addresses /\ servedToken[a] = NoToken /\ a \notin WETHContracts
<1>1. \A a \in Addresses : servedToken[a] # NoToken => servedToken'[a] = servedToken[a]
  BY ServedKept
<1>2. MapsOK' /\ MapsTyped'
  BY MapsKept
<1>3. WETHContracts' = WETHContracts /\ (HasWETH' <=> HasWETH) /\ t # NoToken
  BY ContractsAre DEF WETHContracts, HasWETH
<1>4. EverStoodFor(t) \subseteq EverStoodFor(t)'
  BY <1>1, <1>3 DEF EverStoodFor
<1>5. ASSUME NEW a \in EverStoodFor(t)' \ EverStoodFor(t)
      PROVE  a \in Addresses /\ servedToken[a] = NoToken /\ a \notin WETHContracts
  <2>1. a \in Addresses /\ servedToken'[a] = t /\ servedToken[a] # t
    BY <1>3 DEF EverStoodFor
  <2>2. servedToken[a] = NoToken
    BY <1>1, <2>1
  <2>3. a \notin WETHContracts'
    BY <1>2, <1>3, <2>1 DEF MapsOK
  <2> QED BY <1>3, <2>1, <2>2, <2>3
<1> QED BY <1>4, <1>5

\* New contracts represent nothing, so the sums stay.
LEMMA SumsOverNewContracts ==
    ASSUME TypeOK, MapsOK, OwnOnly, BalancesRepresented, SovereignNext, NEW t \in Foreign
    PROVE  SumFunctionOnSet(Represented, EverStoodFor(t)') = localBalanceTree[t]
<1> DEFINE A == EverStoodFor(t)
           B == EverStoodFor(t)' \ EverStoodFor(t)
<1>1. /\ gasToken' = gasToken /\ gasToken \in GasTokens /\ MapsTyped /\ MapsStep
      /\ ClaimsTyped /\ BalancesTyped /\ MoneyTyped
  BY StepKinds DEF SovereignNext, TypeOK
<1>2. /\ A \subseteq EverStoodFor(t)' /\ EverStoodFor(t)' = A \cup B /\ A \cap B = {}
      /\ \A a \in B : a \in Addresses /\ servedToken[a] = NoToken /\ a \notin WETHContracts
  BY <1>1, EverStoodGrows
<1>3. IsFiniteSet(A) /\ A \subseteq Addresses \cup {NoAddress}
  BY EverStoodFinite
<1>4. B \subseteq Addresses /\ IsFiniteSet(B)
  BY <1>2, ContractsAre, FS_Subset
<1>5. \A a \in A \cup B : Represented[a] \in Int
  BY <1>1, <1>3, <1>4, RepresentedAt
<1>6. \A a \in B : Represented[a] = 0
  BY <1>2 DEF OwnOnly
<1>7. SumFunctionOnSet(Represented, A) = localBalanceTree[t] /\ localBalanceTree[t] \in Nat
  BY <1>1 DEF BalancesRepresented, BalancesTyped
<1> HIDE DEF A, B
<1>8. SumFunctionOnSet(Represented, A \cup B)
        = SumFunctionOnSet(Represented, A) + SumFunctionOnSet(Represented, B)
  BY <1>2, <1>3, <1>4, <1>5, SumSplit
<1>9. SumFunctionOnSet(Represented, B) = 0
  BY <1>4, <1>6, SumOfZeros
<1> QED BY <1>2, <1>7, <1>8, <1>9

\* What a step does to the contracts and to the balances: nothing, the same to a contract
\* and to the token it stands for, or a move between two contracts of one token.
Steady ==
    /\ \A b \in Addresses \cup {NoAddress} : Represented'[b] = Represented[b]
    /\ \A t \in Foreign : localBalanceTree'[t] = localBalanceTree[t]

Shift(u, a, d) ==
    /\ a \in EverStoodFor(u)'
    /\ \A b \in Addresses \cup {NoAddress} :
           Represented'[b] = Represented[b] + (IF b = a THEN d ELSE 0)
    /\ \A t \in Foreign :
           localBalanceTree'[t] = localBalanceTree[t] + (IF t = u THEN d ELSE 0)

Exchange(u, a, c, d) ==
    /\ a \in EverStoodFor(u)' /\ c \in EverStoodFor(u)' /\ a # c
    /\ \A b \in Addresses \cup {NoAddress} :
           Represented'[b] = Represented[b] + (IF b = a THEN -d ELSE IF b = c THEN d ELSE 0)
    /\ \A t \in Foreign : localBalanceTree'[t] = localBalanceTree[t]

ContractStep ==
    \/ Steady
    \/ \E u \in Foreign, a \in Addresses \cup {NoAddress}, d \in Int : Shift(u, a, d)
    \/ \E u \in Foreign, a, c \in Addresses, d \in Int : Exchange(u, a, c, d)

LEMMA ClaimRepresented ==
    ASSUME ClaimsTyped, BalancesTyped, MoneyTyped, ClaimsTyped', BalancesTyped', MoneyTyped',
           NEW leaf \in InboundLeaves, NEW a \in Addresses \cup {NoAddress}, ClaimMoves(leaf, a)
    PROVE  ContractStep
<1> DEFINE x == leaf.amount
<1>1. /\ x \in Nat /\ leaf.token \in Foreign \cup Addresses
  BY LeavesAre
<1>2. /\ ClaimedLeaves' = Append(ClaimedLeaves, leaf) /\ exitTree' = exitTree
      /\ held' = [held EXCEPT ![a] = @ + x] /\ Carries(a, leaf)'
      /\ \A t \in Foreign : localBalanceTree'[t]
             = localBalanceTree[t] + (IF leaf.token = t THEN x ELSE 0)
  BY ClaimRecorded, BalanceComes DEF ClaimMoves
<1>3. ASSUME NEW b \in Addresses \cup {NoAddress}
      PROVE  /\ Represented'[b] = Represented[b] + (IF b = a THEN x ELSE 0)
                                                  - (IF leaf.token = b THEN x ELSE 0)
             /\ Represented[b] \in Int
  <2>1. /\ Represented[b] = held[b] + Worth(exitTree, b) - Initially(b) - Worth(ClaimedLeaves, b)
        /\ held[b] \in Nat /\ Worth(exitTree, b) \in Nat /\ Initially(b) \in Nat
        /\ Worth(ClaimedLeaves, b) \in Nat /\ Represented[b] \in Int
    BY RepresentedAt
  <2>2. Represented'[b] = held'[b] + Worth(exitTree', b) - Initially(b) - Worth(ClaimedLeaves', b)
    BY DEF Represented
  <2>3. Worth(ClaimedLeaves', b)
            = Worth(ClaimedLeaves, b) + (IF leaf.token = b THEN x ELSE 0)
    BY <1>2, ListsOfClaims, WorthAppended
  <2>4. held'[b] = held[b] + (IF b = a THEN x ELSE 0)
    BY <1>1, <1>2, <2>1 DEF MoneyTyped
  <2>5. Worth(exitTree', b) = Worth(exitTree, b)
    BY <1>2
  <2> HIDE DEF x
  <2> QED BY <1>1, <2>1, <2>2, <2>3, <2>4, <2>5
<1>4. CASE leaf.token = a
  <2>1. a \notin Foreign
    BY ContractsAre
  <2>2. \A b \in Addresses \cup {NoAddress} : Represented'[b] = Represented[b]
    BY <1>1, <1>3, <1>4
  <2>3. \A t \in Foreign : localBalanceTree'[t] = localBalanceTree[t]
    <3>1. \A t \in Foreign : localBalanceTree[t] \in Nat /\ leaf.token # t
      BY <1>4, <2>1 DEF BalancesTyped
    <3> QED BY <1>2, <3>1
  <2> QED BY <2>2, <2>3 DEF ContractStep, Steady
<1>5. CASE leaf.token # a
  <2>1. leaf.token \in Foreign /\ a \in EverStoodFor(leaf.token)'
    BY <1>2, <1>5 DEF Carries
  <2>2. \A b \in Addresses \cup {NoAddress} : leaf.token # b
    BY <2>1, ContractsAre
  <2>3. \A b \in Addresses \cup {NoAddress} :
            Represented'[b] = Represented[b] + (IF b = a THEN x ELSE 0)
    BY <1>1, <1>3, <2>2
  <2>4. Shift(leaf.token, a, x)
    BY <1>2, <2>1, <2>3 DEF Shift
  <2>5. x \in Int
    BY <1>1
  <2> HIDE DEF x
  <2> QED BY <2>1, <2>4, <2>5 DEF ContractStep
<1> QED BY <1>4, <1>5

LEMMA ExitRepresented ==
    ASSUME ClaimsTyped, BalancesTyped, MoneyTyped, UNCHANGED <<mapVars, gasToken>>,
           NEW leaf \in InboundLeaves, NEW a \in Addresses \cup {NoAddress}, ExitMoves(leaf, a)
    PROVE  ContractStep
<1> DEFINE x == leaf.amount
<1>1. /\ x \in Nat /\ -x \in Int /\ leaf.token \in Foreign \cup Addresses
  BY LeavesAre
<1>2. /\ exitTree' = Append(exitTree, leaf) /\ ClaimedLeaves' = ClaimedLeaves
      /\ held' = [held EXCEPT ![a] = @ - x] /\ Carries(a, leaf)
      /\ \A t \in Foreign : localBalanceTree'[t]
             = localBalanceTree[t] - (IF leaf.token = t THEN x ELSE 0)
  BY BalanceLeaves DEF ExitMoves, ClaimedLeaves
<1>3. ASSUME NEW b \in Addresses \cup {NoAddress}
      PROVE  /\ Represented'[b] = Represented[b] - (IF b = a THEN x ELSE 0)
                                                  + (IF leaf.token = b THEN x ELSE 0)
             /\ Represented[b] \in Int
  <2>1. /\ Represented[b] = held[b] + Worth(exitTree, b) - Initially(b) - Worth(ClaimedLeaves, b)
        /\ held[b] \in Nat /\ Worth(exitTree, b) \in Nat /\ Initially(b) \in Nat
        /\ Worth(ClaimedLeaves, b) \in Nat /\ Represented[b] \in Int
    BY RepresentedAt
  <2>2. Represented'[b] = held'[b] + Worth(exitTree', b) - Initially(b) - Worth(ClaimedLeaves', b)
    BY DEF Represented
  <2>3. Worth(exitTree', b) = Worth(exitTree, b) + (IF leaf.token = b THEN x ELSE 0)
    BY <1>2, WorthAppended DEF BalancesTyped
  <2>4. held'[b] = held[b] - (IF b = a THEN x ELSE 0)
    BY <1>1, <1>2, <2>1 DEF MoneyTyped
  <2>5. Worth(ClaimedLeaves', b) = Worth(ClaimedLeaves, b)
    BY <1>2
  <2> HIDE DEF x
  <2> QED BY <1>1, <2>1, <2>2, <2>3, <2>4, <2>5
<1>4. CASE leaf.token = a
  <2>1. a \notin Foreign
    BY ContractsAre
  <2>2. \A b \in Addresses \cup {NoAddress} : Represented'[b] = Represented[b]
    BY <1>1, <1>3, <1>4
  <2>3. \A t \in Foreign : localBalanceTree'[t] = localBalanceTree[t]
    <3>1. \A t \in Foreign : localBalanceTree[t] \in Nat /\ leaf.token # t
      BY <1>4, <2>1 DEF BalancesTyped
    <3> QED BY <1>2, <3>1
  <2> QED BY <2>2, <2>3 DEF ContractStep, Steady
<1>5. CASE leaf.token # a
  <2>1. leaf.token \in Foreign /\ a \in EverStoodFor(leaf.token)
    BY <1>2, <1>5 DEF Carries
  <2>2. \A b \in Addresses \cup {NoAddress} : leaf.token # b
    BY <2>1, ContractsAre
  <2>3. \A b \in Addresses \cup {NoAddress} :
            Represented'[b] = Represented[b] + (IF b = a THEN -x ELSE 0)
    BY <1>1, <1>3, <2>2
  <2>4. \A t \in Foreign :
            localBalanceTree'[t] = localBalanceTree[t] + (IF t = leaf.token THEN -x ELSE 0)
    <3>1. \A t \in Foreign : localBalanceTree[t] \in Nat
      BY DEF BalancesTyped
    <3> QED BY <1>1, <1>2, <3>1
  <2>5. a \in EverStoodFor(leaf.token)'
    BY <2>1, EverStoodKept
  <2>6. Shift(leaf.token, a, -x)
    BY <2>3, <2>4, <2>5 DEF Shift
  <2> QED BY <1>1, <2>1, <2>6 DEF ContractStep
<1> QED BY <1>4, <1>5

LEMMA MigrationRepresented ==
    ASSUME ClaimsTyped, BalancesTyped, MoneyTyped, UNCHANGED <<mapVars, gasToken>>,
           NEW t \in Foreign, NEW a \in Addresses, NEW c \in Addresses, NEW x \in Nat,
           MigrationMoves(t, a, c, x)
    PROVE  ContractStep
<1>1. /\ ClaimedLeaves' = ClaimedLeaves /\ exitTree' = exitTree
      /\ localBalanceTree' = localBalanceTree
      /\ a # c /\ a \in EverStoodFor(t) /\ c \in EverStoodFor(t)
      /\ held' = [held EXCEPT ![a] = @ - x, ![c] = @ + x]
  BY DEF MigrationMoves, exitTreeVars, ClaimedLeaves
<1>2. ASSUME NEW b \in Addresses \cup {NoAddress}
      PROVE  Represented'[b] = Represented[b] + (IF b = a THEN -x ELSE IF b = c THEN x ELSE 0)
  <2>1. /\ Represented[b] = held[b] + Worth(exitTree, b) - Initially(b) - Worth(ClaimedLeaves, b)
        /\ held[b] \in Nat /\ Worth(exitTree, b) \in Nat /\ Initially(b) \in Nat
        /\ Worth(ClaimedLeaves, b) \in Nat
    BY RepresentedAt
  <2>2. Represented'[b] = held'[b] + Worth(exitTree', b) - Initially(b) - Worth(ClaimedLeaves', b)
    BY DEF Represented
  <2>3. held'[b] = held[b] + (IF b = a THEN -x ELSE IF b = c THEN x ELSE 0)
    BY <1>1, <2>1 DEF MoneyTyped
  <2>4. Worth(ClaimedLeaves', b) = Worth(ClaimedLeaves, b) /\ Worth(exitTree', b) = Worth(exitTree, b)
    BY <1>1
  <2> QED BY <2>1, <2>2, <2>3, <2>4
<1>3. a \in EverStoodFor(t)' /\ c \in EverStoodFor(t)'
  BY <1>1, EverStoodKept
<1>4. Exchange(t, a, c, x)
  BY <1>1, <1>2, <1>3 DEF Exchange
<1> QED BY <1>4 DEF ContractStep

LEMMA StepOfContracts ==
    ASSUME ClaimsTyped, BalancesTyped, MoneyTyped, ClaimsTyped', BalancesTyped', MoneyTyped',
           HeldStep
    PROVE  ContractStep
<1>1. CASE UNCHANGED <<held, exitTreeVars, claimedGlobalIndexHashChain>>
  <2>1. /\ held' = held /\ exitTree' = exitTree /\ localBalanceTree' = localBalanceTree
        /\ ClaimedLeaves' = ClaimedLeaves
    BY <1>1 DEF exitTreeVars, ClaimedLeaves
  <2>2. Represented' = Represented
    BY <2>1 DEF Represented
  <2> QED BY <2>1, <2>2 DEF ContractStep, Steady
<1> QED BY <1>1, ClaimRepresented, ExitRepresented, MigrationRepresented DEF HeldStep

-----------------------------------------------------------------------------
(* The invariant. *)

LEMMA ContractsKept ==
    ASSUME SovereignIInv, SovereignNext, TypeOK', MapsOK'
    PROVE  OwnOnly' /\ BalancesRepresented'
<1>1. /\ gasToken' = gasToken /\ gasToken \in GasTokens
      /\ MapsTyped /\ MapsOK /\ ClaimsTyped /\ BalancesTyped /\ MoneyTyped
      /\ OwnOnly /\ BalancesRepresented /\ TypeOK /\ NotMintableConserved
  BY DEF SovereignIInv, SovereignNext, TypeOK
<1>2. MapsTyped' /\ ClaimsTyped' /\ BalancesTyped' /\ MoneyTyped'
  BY DEF TypeOK
<1>3. HeldStep /\ MapsStep
  BY <1>1, MoneyStep, StepKinds
<1>4. ContractStep
  BY <1>1, <1>2, <1>3, StepOfContracts
<1>5. OwnOnly'
  <2>1. WETHContracts' = WETHContracts
    BY <1>1 DEF WETHContracts, HasWETH
  <2>2. ASSUME NEW b \in Addresses, servedToken'[b] = NoToken, b \notin WETHContracts'
        PROVE  Represented'[b] = 0
    <3>1. servedToken[b] = NoToken
      BY <1>1, <1>3, <2>2, ServedKept
    <3>2. Represented[b] = 0
      BY <1>1, <2>1, <2>2, <3>1 DEF OwnOnly
    <3>3. \A u \in Foreign : b \notin EverStoodFor(u)'
      BY <2>2, ContractsAre DEF EverStoodFor, WETHContracts
    <3>4. CASE Steady
      BY <3>2, <3>4 DEF Steady
    <3>5. ASSUME NEW u \in Foreign, NEW a \in Addresses \cup {NoAddress}, NEW d \in Int,
                 Shift(u, a, d)
          PROVE  Represented'[b] = 0
      BY <3>2, <3>3, <3>5 DEF Shift
    <3>6. ASSUME NEW u \in Foreign, NEW a \in Addresses, NEW c \in Addresses, NEW d \in Int,
                 Exchange(u, a, c, d)
          PROVE  Represented'[b] = 0
      BY <3>2, <3>3, <3>6 DEF Exchange
    <3> QED BY <1>4, <3>4, <3>5, <3>6 DEF ContractStep
  <2> QED BY <2>2 DEF OwnOnly
<1>6. OneToken'
  <2>1. (MapsTyped /\ MapsOK => OneToken)'
    BY StandsForOne, PTL
  <2> QED BY <1>2, <2>1
<1>7. ASSUME NEW t \in Foreign
      PROVE  SumFunctionOnSet(Represented', EverStoodFor(t)') = localBalanceTree'[t]
  <2>1. PICK S : S = EverStoodFor(t)'
    OBVIOUS
  <2>2. PICK f, g : f = Represented /\ g = Represented'
    OBVIOUS
  <2>3. IsFiniteSet(S) /\ S \subseteq Addresses \cup {NoAddress}
    <3>1. (IsFiniteSet(EverStoodFor(t)) /\ EverStoodFor(t) \subseteq Addresses \cup {NoAddress})'
      BY EverStoodFinite, PTL
    <3> QED BY <2>1, <3>1
  <2>4. \A b \in S : f[b] \in Int
    BY <1>1, <2>2, <2>3, RepresentedAt
  <2>5. SumFunctionOnSet(f, S) = localBalanceTree[t] /\ localBalanceTree[t] \in Int
    BY <1>1, <2>1, <2>2, SumsOverNewContracts DEF BalancesTyped
  <2>6. CASE Steady
    <3>1. \A b \in S : f[b] \in Int /\ g[b] = f[b]
      BY <2>2, <2>3, <2>4, <2>6 DEF Steady
    <3>2. SumFunctionOnSet(g, S) = SumFunctionOnSet(f, S)
      BY <2>3, <3>1, SumAgree
    <3> QED BY <2>1, <2>2, <2>5, <2>6, <3>2 DEF Steady
  <2>7. ASSUME NEW u \in Foreign, NEW a \in Addresses \cup {NoAddress}, NEW d \in Int,
               Shift(u, a, d)
        PROVE  SumFunctionOnSet(g, S) = localBalanceTree'[t]
    <3>1. /\ a \in EverStoodFor(u)'
          /\ \A b \in S : g[b] = f[b] + (IF b = a THEN d ELSE 0)
          /\ localBalanceTree'[t] = localBalanceTree[t] + (IF t = u THEN d ELSE 0)
      BY <2>2, <2>3, <2>7 DEF Shift
    <3>2. CASE t = u
      <4>1. a \in S
        BY <2>1, <3>1, <3>2
      <4>2. /\ \A b \in S : f[b] \in Int /\ g[b] \in Int
            /\ \A b \in S \ {a} : g[b] = f[b]
            /\ g[a] = f[a] + d /\ f[a] \in Int
        BY <2>4, <3>1, <4>1
      <4>3. SumFunctionOnSet(g, S) = SumFunctionOnSet(f, S) + g[a] - f[a]
        BY <2>3, <4>1, <4>2, SumChange
      <4> QED BY <2>5, <3>1, <3>2, <4>2, <4>3
    <3>3. CASE t # u
      <4>1. a \notin S
        BY <1>6, <2>1, <3>1, <3>3 DEF OneToken
      <4>2. \A b \in S : f[b] \in Int /\ g[b] = f[b]
        BY <2>4, <3>1, <4>1
      <4>3. SumFunctionOnSet(g, S) = SumFunctionOnSet(f, S)
        BY <2>3, <4>2, SumAgree
      <4> QED BY <2>5, <3>1, <3>3, <4>3
    <3> QED BY <3>2, <3>3
  <2>8. ASSUME NEW u \in Foreign, NEW a \in Addresses, NEW c \in Addresses, NEW d \in Int,
               Exchange(u, a, c, d)
        PROVE  SumFunctionOnSet(g, S) = localBalanceTree'[t]
    <3>1. /\ a \in EverStoodFor(u)' /\ c \in EverStoodFor(u)' /\ a # c
          /\ \A b \in S : g[b] = f[b] + (IF b = a THEN -d ELSE IF b = c THEN d ELSE 0)
          /\ localBalanceTree'[t] = localBalanceTree[t]
      BY <2>2, <2>3, <2>8 DEF Exchange
    <3>2. CASE t = u
      <4> DEFINE h == [b \in S |-> IF b = a THEN f[b] + (-d) ELSE f[b]]
      <4>1. a \in S /\ c \in S
        BY <2>1, <3>1, <3>2
      <4>2. /\ \A b \in S : h[b] \in Int /\ g[b] \in Int /\ f[b] \in Int
            /\ \A b \in S \ {a} : h[b] = f[b]
            /\ \A b \in S \ {c} : g[b] = h[b]
            /\ h[a] = f[a] + (-d) /\ g[c] = h[c] + d
        BY <2>4, <3>1, <4>1
      <4> HIDE DEF h
      <4>3. SumFunctionOnSet(h, S) = SumFunctionOnSet(f, S) + h[a] - f[a]
        <5>1. \A b \in S : f[b] \in Int /\ h[b] \in Int
          BY <4>2
        <5>2. \A b \in S \ {a} : h[b] = f[b]
          BY <4>2
        <5> QED BY <2>3, <4>1, <5>1, <5>2, SumChange
      <4>4. SumFunctionOnSet(g, S) = SumFunctionOnSet(h, S) + g[c] - h[c]
        <5>1. \A b \in S : h[b] \in Int /\ g[b] \in Int
          BY <4>2
        <5>2. \A b \in S \ {c} : g[b] = h[b]
          BY <4>2
        <5> QED BY <2>3, <4>1, <5>1, <5>2, SumChange
      <4>5. f[a] \in Int /\ h[c] \in Int
        BY <4>1, <4>2
      <4>6. SumFunctionOnSet(h, S) = localBalanceTree[t] - d
        BY <2>5, <4>2, <4>3, <4>5
      <4> QED BY <2>5, <3>1, <4>2, <4>4, <4>5, <4>6
    <3>3. CASE t # u
      <4>1. a \notin S /\ c \notin S
        BY <1>6, <2>1, <3>1, <3>3 DEF OneToken
      <4>2. \A b \in S : f[b] \in Int /\ g[b] = f[b]
        BY <2>4, <3>1, <4>1
      <4>3. SumFunctionOnSet(g, S) = SumFunctionOnSet(f, S)
        BY <2>3, <4>2, SumAgree
      <4> QED BY <2>5, <3>1, <4>3
    <3> QED BY <3>2, <3>3
  <2> QED BY <1>4, <2>1, <2>2, <2>6, <2>7, <2>8 DEF ContractStep
<1> QED BY <1>5, <1>7 DEF BalancesRepresented

LEMMA SovereignBegins == SovereignInit => SovereignIInv
<1> SUFFICES ASSUME SovereignInit PROVE SovereignIInv
  OBVIOUS
<1>1. /\ gasToken \in GasTokens /\ globalExitRootMap = {}
      /\ insertedGERHashChain = <<>> /\ removedGERHashChain = <<>>
      /\ claimedBitMap = {}
      /\ claimedGlobalIndexHashChain = <<>> /\ unsetGlobalIndexHashChain = <<>>
      /\ localBalanceTree = [t \in Foreign |-> 0]
      /\ exitTree = <<>> /\ isEmergencyState = FALSE
      /\ tokenInfoToWrappedToken = [t \in Foreign |-> NoAddress]
      /\ wrappedTokenToTokenInfo = [a \in Addresses |-> NoToken]
      /\ WETHToken = IF HasWETH THEN InitialWETH ELSE NoAddress
      /\ wrappedAddressIsNotMintable = [a \in Addresses |-> a = WETHToken /\ a \in NotMintable]
      /\ deployed = {ProxyOf[Ether]} \cap {WETHToken}
      /\ servedToken = [a \in Addresses |-> NoToken]
      /\ held = [a \in Addresses \cup {NoAddress} |-> Initially(a)]
      /\ custody = [a \in Addresses |-> 0]
  BY DEF SovereignInit
<1>2. RootsTyped /\ ClaimsTyped /\ BalancesTyped
  BY <1>1 DEF RootsTyped, ClaimsTyped, BalancesTyped
<1>3. MapsTyped
  <2>1. WETHToken \in WETHTokens \cup {NoAddress} /\ (HasWETH <=> WETHToken # NoAddress)
    BY <1>1, ContractsAre
  <2>2. deployed \subseteq Addresses
    BY <1>1, ContractsAre
  <2> QED BY <1>1, <2>1, <2>2 DEF MapsTyped
<1>4. \A a \in Addresses \cup {NoAddress} : Initially(a) \in Nat
  BY SovereignAssumption DEF Initially
<1>5. MoneyTyped
  BY <1>1, <1>4 DEF MoneyTyped
<1>6. TypeOK
  BY <1>1, <1>2, <1>3, <1>5 DEF TypeOK
<1>7. MapsOK
  BY <1>1, ContractsAre DEF MapsOK
<1>8. ClaimedIndexes = <<>> /\ UnsetBits = <<>> /\ ClaimedLeaves = <<>>
  BY <1>1 DEF ClaimedIndexes, UnsetBits, ClaimedLeaves
<1>9. HashChainsAccount
  BY <1>1, <1>8, CountOfNone DEF HashChainsAccount
<1>10. BalanceTreeIsNet
  BY <1>1, <1>8, WorthOfNone DEF BalanceTreeIsNet
<1>11. \A a \in Addresses \cup {NoAddress} : Represented[a] = 0
  BY <1>1, <1>4, <1>8, WorthOfNone DEF Represented
<1>12. OwnOnly
  BY <1>11 DEF OwnOnly
<1>13. ASSUME NEW t \in Foreign
       PROVE  SumFunctionOnSet(Represented, EverStoodFor(t)) = localBalanceTree[t]
  <2>1. PICK S, f : S = EverStoodFor(t) /\ f = Represented
    OBVIOUS
  <2>2. IsFiniteSet(S) /\ \A a \in S : f[a] = 0
    BY <1>11, <2>1, EverStoodFinite
  <2>3. SumFunctionOnSet(f, S) = 0
    BY <2>2, SumOfZeros
  <2> QED BY <1>1, <2>1, <2>3
<1>14. NotMintableConserved
  <2>1. \A a \in NotMintable : a \in Addresses /\ a \in SovereignTokens /\ InitialHeld[a] \in Nat
    BY ContractsAre, SovereignAssumption
  <2> QED BY <1>1, <2>1 DEF NotMintableConserved, Initially
<1> QED BY <1>6, <1>7, <1>9, <1>10, <1>12, <1>13, <1>14 DEF SovereignIInv, BalancesRepresented

LEMMA SovereignStep == SovereignIInv /\ [SovereignNext]_sovereignVars => SovereignIInv'
<1>1. ASSUME SovereignIInv, SovereignNext PROVE SovereignIInv'
  <2>1. /\ gasToken' = gasToken /\ gasToken \in GasTokens
        /\ RootsTyped /\ ClaimsTyped /\ BalancesTyped /\ MapsTyped
        /\ TypeOK /\ MapsOK /\ BalanceTreeIsNet /\ NotMintableConserved
        /\ GersAccount /\ ClaimsAccount
    BY <1>1, ChainsAreTwo DEF SovereignIInv, SovereignNext, TypeOK
  <2>2. RootsStep /\ ClaimsStep /\ BalanceStep /\ MapsStep
    BY <1>1, <2>1, StepKinds
  <2>3. RootsTyped' /\ GersAccount'
    BY <2>1, <2>2, RootsKept
  <2>4. ClaimsTyped' /\ ClaimsAccount'
    BY <2>1, <2>2, ClaimsKept
  <2>5. BalancesTyped' /\ BalanceTreeIsNet'
    BY <2>1, <2>2, BalancesKept
  <2>6. MapsTyped' /\ MapsOK'
    BY <2>1, <2>2, MapsKept
  <2>7. MoneyTyped' /\ NotMintableConserved'
    BY <1>1, <2>1, MoneyStep DEF MoneyOK
  <2>8. isEmergencyState' \in BOOLEAN
    BY <1>1, <2>1 DEF SovereignNext, TypeOK, ExitRootStep, ClaimStep, ExitStep, ManagerStep,
           InsertGlobalExitRoot, RemoveGlobalExitRoots, ClaimAsset, ClaimMessage,
           UnsetMultipleClaims, BridgeAsset, BridgeMessage, MigrateLegacyToken,
           DeployWrappedTokenAndRemap, SetSovereignTokenAddress,
           RemoveLegacySovereignTokenAddress, SetSovereignWETHAddress, SetEmergencyState
  <2>9. TypeOK'
    BY <2>1, <2>3, <2>4, <2>5, <2>6, <2>7, <2>8 DEF TypeOK
  <2>10. OwnOnly' /\ BalancesRepresented'
    BY <1>1, <2>6, <2>9, ContractsKept
  <2>11. HashChainsAccount'
    <3>1. (HashChainsAccount <=> GersAccount /\ ClaimsAccount)'
      BY ChainsAreTwo, PTL
    <3> QED BY <2>3, <2>4, <3>1
  <2> QED BY <2>5, <2>6, <2>7, <2>9, <2>10, <2>11 DEF SovereignIInv
<1>2. ASSUME SovereignIInv, UNCHANGED sovereignVars PROVE SovereignIInv'
  <2>1. UNCHANGED <<gasToken, globalExitRootMap, insertedGERHashChain, removedGERHashChain,
                    claimedBitMap, claimedGlobalIndexHashChain, unsetGlobalIndexHashChain,
                    tokenInfoToWrappedToken, wrappedTokenToTokenInfo,
                    wrappedAddressIsNotMintable, WETHToken, deployed, servedToken,
                    held, custody, localBalanceTree, exitTree, isEmergencyState>>
    BY <1>2 DEF sovereignVars, gerVars, claimVars, mapVars, moneyVars, exitTreeVars
  <2>2. TypeOK'
    BY <1>2, <2>1 DEF SovereignIInv, TypeOK, RootsTyped, ClaimsTyped, BalancesTyped, MapsTyped,
                      MoneyTyped, HasWETH
  <2>3. MapsOK' /\ WETHContracts' = WETHContracts
    BY <1>2, <2>1 DEF SovereignIInv, MapsOK, WETHContracts, HasWETH
  <2>4. /\ ClaimedLeaves' = ClaimedLeaves /\ ClaimedIndexes' = ClaimedIndexes
        /\ UnsetBits' = UnsetBits
    BY <2>1 DEF ClaimedLeaves, ClaimedIndexes, UnsetBits
  <2>5. Represented' = Represented
    BY <2>1, <2>4 DEF Represented
  <2>6. \A t : EverStoodFor(t)' = EverStoodFor(t)
    BY <2>1 DEF EverStoodFor, HasWETH
  <2>7. HashChainsAccount' /\ BalanceTreeIsNet' /\ NotMintableConserved'
    BY <1>2, <2>1, <2>4 DEF SovereignIInv, HashChainsAccount, BalanceTreeIsNet, NotMintableConserved
  <2>8. OwnOnly' /\ BalancesRepresented'
    BY <1>2, <2>1, <2>3, <2>5, <2>6 DEF SovereignIInv, OwnOnly, BalancesRepresented
  <2> QED BY <2>2, <2>3, <2>7, <2>8 DEF SovereignIInv
<1> QED BY <1>1, <1>2

LEMMA InvariantCoversHoldings == SovereignIInv => HoldingsCovered
<1> SUFFICES ASSUME SovereignIInv PROVE HoldingsCovered
  OBVIOUS
<1>1. gasToken \in GasTokens /\ MapsTyped /\ MapsOK /\ BalancesRepresented /\ NotMintableConserved
  BY DEF SovereignIInv, TypeOK
<1>2. HoldersCanExit
  BY <1>1, StandFor DEF HoldersCanExit, BalancesRepresented
<1> QED BY <1>1, <1>2 DEF HoldingsCovered

(***************************************************************************)
(* In every state of a sovereign bridge its variables are typed, its token *)
(* maps agree, its hash chains and local balances account for its calls,   *)
(* and a contract that stood for nothing was only moved as a token of this *)
(* chain: the inductive invariant of BridgeL2SovereignChain.               *)
(***************************************************************************)
THEOREM SovereignInvariant == SovereignSpec => []SovereignIInv
  BY SovereignBegins, SovereignStep, PTL DEF SovereignSpec

(***************************************************************************)
(* Whoever replays the four hash chains ends up with the roots and the     *)
(* nullifiers (insertGlobalExitRoot, removeGlobalExitRoots,                *)
(* _verifyLeafBridge, unsetMultipleClaims).                                *)
(***************************************************************************)
THEOREM HashChainsReplay == SovereignSpec => []HashChainsAccount
<1>1. SovereignIInv => HashChainsAccount
  BY DEF SovereignIInv
<1> QED BY <1>1, SovereignInvariant, PTL

(***************************************************************************)
(* The local balance of every foreign token is what came less what left,   *)
(* and is never negative (_increaseLocalBalanceTree,                       *)
(* _decreaseLocalBalanceTree).                                             *)
(***************************************************************************)
THEOREM BalancesAreNet == SovereignSpec => []BalanceTreeIsNet
<1>1. SovereignIInv => BalanceTreeIsNet
  BY DEF SovereignIInv
<1> QED BY <1>1, SovereignInvariant, PTL

(***************************************************************************)
(* Whatever contracts replace each other, users hold of those that stand   *)
(* or stood for a token what its local balance says, and a contract that   *)
(* cannot be minted is conserved (_bridgeWrappedAsset, _claimWrappedAsset, *)
(* migrateLegacyToken).                                                    *)
(***************************************************************************)
THEOREM HoldingsStayCovered == SovereignSpec => []HoldingsCovered
  BY SovereignInvariant, InvariantCoversHoldings, PTL
=============================================================================
