---------------------------- MODULE BridgeProofs ----------------------------
(***************************************************************************)
(* The bridges for any set of rollups, tokens, fees and bounds. First the  *)
(* nullifiers: no exit is paid twice, and no claim takes the bit of        *)
(* another exit. Then what the bridges hold: it backs what is held and     *)
(* what is due elsewhere, pays every exit, and moves as TokenFlow says.    *)
(***************************************************************************)
EXTENDS BridgeSystem, SumProofs, TLAPS

\* s is a start of the tree t: what a root of an earlier state of t commits to.
StartOf(s, t) ==
    /\ s \in Seq(Leaves)
    /\ Len(s) <= Len(t)
    /\ \A i \in 1..Len(s) : s[i] = t[i]

\* The tree of network n holds exits to other networks only.
ValidTree(n, t) ==
    /\ t \in Seq(Leaves)
    /\ Len(t) <= MaxDeposits
    /\ \A i \in 1..Len(t) : t[i].destinationNetwork \in Networks \ {n}

TreesOK ==
    /\ localExitTree \in [Rollups -> Seq(Leaves)]
    /\ \A n \in Networks : ValidTree(n, Tree(n))

(***************************************************************************)
(* Every root that was ever published or settled is a start of the tree as *)
(* it is now: why the leaf a proof leads to is the exit of its index.      *)
(***************************************************************************)
RollupRootOK(root) ==
    root = ZeroHash \/ (/\ root \in [Rollups -> Seq(Leaves)]
                        /\ \A r \in Rollups : StartOf(root[r], localExitTree[r]))

RootsOK ==
    /\ StartOf(lastMainnetExitRoot, exitTree)
    /\ RollupRootOK(lastRollupExitRoot)
    /\ \A ger \in globalExitRootMap : StartOf(ger.mainnet, exitTree) /\ RollupRootOK(ger.rollup)

OpenCalls ==
    {c \in [function : {"bridgeAsset"}, network : Networks, token : Tokens, amount : Nat,
            destination : Networks, balanceBefore : Nat] : c.destination # c.network}
    \cup [function : {"claimAsset", "claimMessage"}, network : Networks]

FundsOK ==
    /\ custody \in [Networks -> [Tokens -> Nat]]
    /\ held \in [Networks -> [Tokens -> Nat]]
    /\ calls \in Seq(OpenCalls)

\* The bits set are those of the exits paid: the strengthening of PaidOnce.
NullifierOK ==
    /\ claimedBitMap \in [Networks -> SUBSET Nat]
    /\ paid \in [Networks \X LeafIndexes -> Nat]
    /\ \A e \in Exits : paid[e] > 0 =>
          ClaimBit(Leaf(e).destinationNetwork, e[2], e[1])
              \in claimedBitMap[Leaf(e).destinationNetwork]
    /\ \A n \in Networks : \A bit \in claimedBitMap[n] :
          \E e \in Exits : /\ paid[e] > 0
                           /\ Leaf(e).destinationNetwork = n
                           /\ bit = ClaimBit(n, e[2], e[1])

BridgeIInv == TreesOK /\ RootsOK /\ FundsOK /\ NullifierOK /\ PaidOnce

Grows == \A n \in Networks : StartOf(Tree(n), Tree(n)')

-----------------------------------------------------------------------------
LEMMA NetworkIds == Networks \subseteq Nat /\ 0 \in Networks /\ 0 \notin Rollups
  BY BridgeAssumption DEF Networks, MainnetNetworkID

LEMMA BoundsAreNat == MaxDeposits \in Nat /\ MaxLeafsPerNetwork \in Nat \ {0}
  BY ExitAssumption DEF MaxLeafsPerNetwork

LEMMA StartOfItself ==
    ASSUME NEW t \in Seq(Leaves)
    PROVE  StartOf(t, t)
  BY DEF StartOf

LEMMA StartOfAppended ==
    ASSUME NEW t \in Seq(Leaves), NEW leaf \in Leaves
    PROVE  StartOf(t, Append(t, leaf)) /\ Append(t, leaf) \in Seq(Leaves)
  BY DEF StartOf

LEMMA StartOfTransitive ==
    ASSUME NEW s, NEW t \in Seq(Leaves), NEW u \in Seq(Leaves), StartOf(s, t), StartOf(t, u)
    PROVE  StartOf(s, u)
<1>1. Len(s) \in Nat /\ Len(t) \in Nat /\ Len(u) \in Nat
  BY DEF StartOf
<1> QED BY <1>1 DEF StartOf

LEMMA EmptyStart ==
    ASSUME NEW t \in Seq(Leaves)
    PROVE  StartOf(<<>>, t)
  BY DEF StartOf

\* The exits by network and index.
LEMMA ExitsByIndex ==
    ASSUME TreesOK
    PROVE  /\ \A n \in Networks, i \in Nat : i < Len(Tree(n)) => <<n, i>> \in Exits
           /\ \A e \in Exits : /\ e = <<e[1], e[2]>>
                               /\ e[1] \in Networks /\ e[2] \in Nat
                               /\ e[2] < Len(Tree(e[1]))
                               /\ e \in Networks \X LeafIndexes
                               /\ Leaf(e) \in Leaves
                               /\ Leaf(e).destinationNetwork \in Networks \ {e[1]}
<1>1. \A n \in Networks : /\ Tree(n) \in Seq(Leaves)
                          /\ Len(Tree(n)) \in Nat
                          /\ Len(Tree(n)) <= MaxDeposits
  BY DEF TreesOK, ValidTree
<1>2. ASSUME NEW n \in Networks, NEW i \in Nat, i < Len(Tree(n))
      PROVE  <<n, i>> \in Exits
  <2>1. i \in 0..(Len(Tree(n)) - 1)
    BY <1>1, <1>2
  <2> QED BY <2>1 DEF Exits
<1>3. ASSUME NEW e \in Exits
      PROVE  /\ e = <<e[1], e[2]>>
             /\ e[1] \in Networks /\ e[2] \in Nat
             /\ e[2] < Len(Tree(e[1]))
             /\ e \in Networks \X LeafIndexes
             /\ Leaf(e) \in Leaves
             /\ Leaf(e).destinationNetwork \in Networks \ {e[1]}
  <2>1. PICK n \in Networks : \E j \in 0..(Len(Tree(n)) - 1) : e = <<n, j>>
    BY DEF Exits
  <2>2. PICK i \in 0..(Len(Tree(n)) - 1) : e = <<n, i>>
    BY <2>1
  <2>3. e[1] = n /\ e[2] = i /\ i \in Nat /\ i < Len(Tree(n)) /\ i + 1 \in 1..Len(Tree(n))
    BY <1>1, <2>2
  <2>4. i \in LeafIndexes
    BY <1>1, <2>3, BoundsAreNat DEF LeafIndexes
  <2>5. Tree(n)[i + 1] \in Leaves /\ Tree(n)[i + 1].destinationNetwork \in Networks \ {n}
    BY <1>1, <2>3 DEF TreesOK, ValidTree
  <2> QED BY <2>2, <2>3, <2>4, <2>5 DEF Leaf
<1> QED BY <1>2, <1>3

\* While trees grow, exits stay exits and keep their leaves.
LEMMA ExitsStay ==
    ASSUME TreesOK, TreesOK', Grows, NEW e \in Exits
    PROVE  e \in Exits' /\ Leaf(e)' = Leaf(e)
<1>1. /\ e = <<e[1], e[2]>> /\ e[1] \in Networks /\ e[2] \in Nat
      /\ e[2] < Len(Tree(e[1]))
  BY ExitsByIndex
<1>2. PICK n \in Networks, i \in Nat : e = <<n, i>> /\ n = e[1] /\ i = e[2]
  BY <1>1
<1>3. /\ Tree(n) \in Seq(Leaves) /\ Tree(n)' \in Seq(Leaves) /\ StartOf(Tree(n), Tree(n)')
  BY DEF TreesOK, ValidTree, Grows
<1>4. i < Len(Tree(n)) /\ i < Len(Tree(n)') /\ Tree(n)'[i + 1] = Tree(n)[i + 1]
  BY <1>1, <1>2, <1>3 DEF StartOf
<1>5. i \in 0..(Len(Tree(n)') - 1)
  BY <1>3, <1>4
<1>6. e \in Exits'
  BY <1>2, <1>5 DEF Exits
<1> QED BY <1>2, <1>4, <1>6 DEF Leaf

\* While trees and the recorded roots grow, a covered exit stays covered.
LEMMA CoveredStay ==
    ASSUME TreesOK, TreesOK', Grows, globalExitRootMap \subseteq globalExitRootMap',
           NEW e \in CoveredExits
    PROVE  e \in CoveredExits'
  BY ExitsStay DEF CoveredExits, Covers

-----------------------------------------------------------------------------
(* The roots. *)

LEMMA RollupRootStays ==
    ASSUME TreesOK, TreesOK', Grows, NEW root, RollupRootOK(root)
    PROVE  root = ZeroHash \/ (/\ root \in [Rollups -> Seq(Leaves)]
                               /\ \A r \in Rollups : StartOf(root[r], localExitTree'[r]))
<1>1. CASE root = ZeroHash
  BY <1>1
<1>2. CASE /\ root \in [Rollups -> Seq(Leaves)]
           /\ \A r \in Rollups : StartOf(root[r], localExitTree[r])
  <2>1. ASSUME NEW r \in Rollups
        PROVE  StartOf(root[r], localExitTree'[r])
    <3>1. r \in Networks /\ r # 0
      BY NetworkIds DEF Networks
    <3>2. StartOf(localExitTree[r], localExitTree'[r])
      BY <3>1 DEF Grows, Tree, MainnetNetworkID
    <3>3. localExitTree[r] \in Seq(Leaves) /\ localExitTree'[r] \in Seq(Leaves)
      BY DEF TreesOK
    <3> QED BY <1>2, <3>2, <3>3, StartOfTransitive
  <2> QED BY <1>2, <2>1
<1> QED BY <1>1, <1>2 DEF RollupRootOK

LEMMA MainnetRootStays ==
    ASSUME TreesOK, TreesOK', Grows, NEW root, StartOf(root, exitTree)
    PROVE  StartOf(root, exitTree')
<1>1. Tree(0) = exitTree /\ Tree(0)' = exitTree' /\ 0 \in Networks
  BY NetworkIds DEF Tree, MainnetNetworkID
<1>2. exitTree \in Seq(Leaves) /\ exitTree' \in Seq(Leaves) /\ StartOf(exitTree, exitTree')
  BY <1>1 DEF TreesOK, ValidTree, Grows
<1> QED BY <1>2, StartOfTransitive

\* Trees that grow keep every root a start of them.
LEMMA RootsStay ==
    ASSUME TreesOK, TreesOK', Grows, RootsOK
    PROVE  /\ StartOf(lastMainnetExitRoot, exitTree')
           /\ RollupRootOK(lastRollupExitRoot)
           /\ lastRollupExitRoot = ZeroHash \/
                 (/\ lastRollupExitRoot \in [Rollups -> Seq(Leaves)]
                  /\ \A r \in Rollups : StartOf(lastRollupExitRoot[r], localExitTree'[r]))
           /\ \A ger \in globalExitRootMap :
                 /\ StartOf(ger.mainnet, exitTree')
                 /\ ger.rollup = ZeroHash \/
                       (/\ ger.rollup \in [Rollups -> Seq(Leaves)]
                        /\ \A r \in Rollups : StartOf(ger.rollup[r], localExitTree'[r]))
  BY RollupRootStays, MainnetRootStays DEF RootsOK

LEMMA UnchangedRoots ==
    ASSUME TreesOK, TreesOK', Grows, RootsOK,
           UNCHANGED <<lastMainnetExitRoot, lastRollupExitRoot, globalExitRootMap>>
    PROVE  RootsOK'
  BY RootsStay DEF RootsOK, RollupRootOK

\* _updateGlobalExitRoot publishes the tree itself.
LEMMA PublishedRoots ==
    ASSUME TreesOK, TreesOK', Grows, RootsOK, PublishMainnetExitRoot
    PROVE  RootsOK' /\ globalExitRootMap \subseteq globalExitRootMap'
<1> DEFINE ger == GlobalExitRoot(exitTree', lastRollupExitRoot)
<1>1. /\ lastMainnetExitRoot' = exitTree' /\ UNCHANGED lastRollupExitRoot
      /\ globalExitRootMap' \in {globalExitRootMap, globalExitRootMap \cup {ger}}
  BY DEF PublishMainnetExitRoot, UpdateMainnetExitRoot, RecordGlobalExitRoot
<1>2. ger.mainnet = exitTree' /\ ger.rollup = lastRollupExitRoot
  BY DEF GlobalExitRoot
<1>3. StartOf(exitTree', exitTree')
  <2>1. Tree(0)' = exitTree' /\ 0 \in Networks
    BY NetworkIds DEF Tree, MainnetNetworkID
  <2>2. exitTree' \in Seq(Leaves)
    BY <2>1 DEF TreesOK, ValidTree
  <2> QED BY <2>2, StartOfItself
<1> HIDE DEF ger
<1> QED BY <1>1, <1>2, <1>3, RootsStay DEF RootsOK, RollupRootOK

\* A settled local exit root is a start of the rollup's tree.
LEMMA SettledRootsOK ==
    ASSUME TreesOK, RootsOK, NEW r \in Rollups, NEW length \in Nat,
           length <= Len(localExitTree[r]),
           ReportRollupExitRoot([SettledRoots EXCEPT ![r] = SubSeq(localExitTree[r], 1, length)]),
           UNCHANGED localExitTree
    PROVE  /\ RootsOK' /\ UNCHANGED exitTree
           /\ globalExitRootMap \subseteq globalExitRootMap'
<1> DEFINE root == [SettledRoots EXCEPT ![r] = SubSeq(localExitTree[r], 1, length)]
           ger == GlobalExitRoot(lastMainnetExitRoot, root)
<1>1. /\ lastRollupExitRoot' = root /\ UNCHANGED <<lastMainnetExitRoot, exitTree>>
      /\ globalExitRootMap' \in {globalExitRootMap, globalExitRootMap \cup {ger}}
  BY DEF ReportRollupExitRoot, UpdateRollupExitRoot, RecordGlobalExitRoot, bridgeVars
<1>2. ger.mainnet = lastMainnetExitRoot /\ ger.rollup = root
  BY DEF GlobalExitRoot
<1>3. localExitTree \in [Rollups -> Seq(Leaves)]
  BY DEF TreesOK
<1>4. /\ SettledRoots \in [Rollups -> Seq(Leaves)]
      /\ \A q \in Rollups : StartOf(SettledRoots[q], localExitTree[q])
  <2>1. CASE lastRollupExitRoot = ZeroHash
    <3>1. SettledRoots = [q \in Rollups |-> <<>>]
      BY <2>1 DEF SettledRoots
    <3> QED BY <1>3, <3>1, EmptyStart
  <2>2. CASE lastRollupExitRoot # ZeroHash
    BY <2>2 DEF SettledRoots, RootsOK, RollupRootOK
  <2> QED BY <2>1, <2>2
<1>5. StartOf(SubSeq(localExitTree[r], 1, length), localExitTree[r])
  BY <1>3 DEF StartOf
<1>6. SubSeq(localExitTree[r], 1, length) \in Seq(Leaves)
  BY <1>5 DEF StartOf
<1>7. root \in [Rollups -> Seq(Leaves)] /\ \A q \in Rollups : StartOf(root[q], localExitTree[q])
  BY <1>4, <1>5, <1>6
<1> HIDE DEF root, ger
<1>8. \A x : RollupRootOK(x)' <=> RollupRootOK(x)
  BY DEF RollupRootOK
<1> QED BY <1>1, <1>2, <1>7, <1>8 DEF RootsOK, RollupRootOK

-----------------------------------------------------------------------------
(* The trees. *)

LEMMA AppendedTree ==
    ASSUME NEW n \in Networks, NEW t, ValidTree(n, t), Len(t) < MaxDeposits,
           NEW leaf \in Leaves, leaf.destinationNetwork \in Networks \ {n}
    PROVE  ValidTree(n, Append(t, leaf)) /\ StartOf(t, Append(t, leaf))
<1>1. t \in Seq(Leaves) /\ Len(t) \in Nat
  BY DEF ValidTree
<1>2. /\ Append(t, leaf) \in Seq(Leaves) /\ Len(Append(t, leaf)) = Len(t) + 1
      /\ \A i \in 1..Len(t) : Append(t, leaf)[i] = t[i]
      /\ Append(t, leaf)[Len(t) + 1] = leaf
  BY <1>1
<1>3. Len(t) + 1 <= MaxDeposits
  BY <1>1, BoundsAreNat
<1>4. ASSUME NEW i \in 1..Len(Append(t, leaf))
      PROVE  Append(t, leaf)[i].destinationNetwork \in Networks \ {n}
  <2>1. CASE i \in 1..Len(t)
    BY <1>2, <2>1 DEF ValidTree
  <2>2. CASE i = Len(t) + 1
    BY <1>2, <2>2
  <2> QED BY <1>1, <1>2, <2>1, <2>2
<1>5. StartOf(t, Append(t, leaf))
  BY <1>1, StartOfAppended
<1> QED BY <1>2, <1>3, <1>4, <1>5 DEF ValidTree

\* The trees that a step leaves alone.
LEMMA SameTrees ==
    ASSUME TreesOK, UNCHANGED <<exitTree, localExitTree>>
    PROVE  TreesOK' /\ Grows
<1>1. \A n \in Networks : Tree(n)' = Tree(n)
  BY DEF Tree
<1>2. \A n \in Networks : StartOf(Tree(n), Tree(n))
  BY StartOfItself DEF TreesOK, ValidTree
<1> QED BY <1>1, <1>2 DEF TreesOK, Grows

\* A new leaf of one network's tree.
LEMMA AddedLeaf ==
    ASSUME TreesOK, RootsOK, NEW n \in Networks, NEW leaf \in Leaves, NEW force \in BOOLEAN,
           leaf.destinationNetwork \in Networks \ {n},
           AddLeafBridge(n, leaf, force)
    PROVE  /\ TreesOK' /\ Grows /\ RootsOK'
           /\ globalExitRootMap \subseteq globalExitRootMap'
<1>1. CASE /\ n = MainnetNetworkID
           /\ AddExit(leaf, force)
           /\ UNCHANGED localExitTree
  <2>1. /\ Len(exitTree) < MaxDeposits /\ exitTree' = Append(exitTree, leaf)
        /\ \/ PublishMainnetExitRoot
           \/ UNCHANGED <<lastUpdatedDepositCount, gerVars>>
    BY <1>1 DEF AddExit, DepositCount
  <2>2. /\ Tree(n) = exitTree /\ Tree(n)' = exitTree'
        /\ \A m \in Networks \ {n} : Tree(m) = localExitTree[m] /\ Tree(m)' = localExitTree[m]
    BY <1>1 DEF Tree
  <2>3. ValidTree(n, Tree(n)') /\ StartOf(Tree(n), Tree(n)')
    BY <2>1, <2>2, AppendedTree DEF TreesOK
  <2>4. \A m \in Networks \ {n} : ValidTree(m, Tree(m)') /\ StartOf(Tree(m), Tree(m)')
    BY <2>2, StartOfItself DEF TreesOK, ValidTree
  <2>5. TreesOK' /\ Grows
    BY <1>1, <2>3, <2>4 DEF TreesOK, Grows
  <2>6. CASE PublishMainnetExitRoot
    BY <2>5, <2>6, PublishedRoots
  <2>7. CASE UNCHANGED <<lastUpdatedDepositCount, gerVars>>
    BY <2>5, <2>7, UnchangedRoots DEF gerVars
  <2> QED BY <2>1, <2>5, <2>6, <2>7
<1>2. CASE /\ n # MainnetNetworkID
           /\ Len(localExitTree[n]) < MaxDeposits
           /\ localExitTree' = [localExitTree EXCEPT ![n] = Append(@, leaf)]
           /\ UNCHANGED exitVars
  <2>1. n \in Rollups /\ localExitTree \in [Rollups -> Seq(Leaves)]
    BY <1>2 DEF Networks, TreesOK
  <2>2. /\ Tree(n) = localExitTree[n] /\ Tree(n)' = Append(localExitTree[n], leaf)
        /\ \A m \in Networks \ {n} : Tree(m)' = Tree(m)
    <3>1. Tree(n)' = localExitTree'[n] /\ localExitTree'[n] = Append(localExitTree[n], leaf)
      BY <1>2, <2>1 DEF Tree
    <3>2. ASSUME NEW m \in Networks \ {n}
          PROVE  Tree(m)' = Tree(m)
      <4>1. CASE m = MainnetNetworkID
        BY <1>2, <4>1 DEF Tree, exitVars
      <4>2. CASE m # MainnetNetworkID
        BY <1>2, <2>1, <4>2 DEF Tree, Networks
      <4> QED BY <4>1, <4>2
    <3> QED BY <1>2, <3>1, <3>2 DEF Tree
  <2>3. ValidTree(n, Tree(n)') /\ StartOf(Tree(n), Tree(n)')
    BY <1>2, <2>2, AppendedTree DEF TreesOK
  <2>4. \A m \in Networks \ {n} : ValidTree(m, Tree(m)') /\ StartOf(Tree(m), Tree(m)')
    BY <2>2, StartOfItself DEF TreesOK, ValidTree
  <2>5. localExitTree' \in [Rollups -> Seq(Leaves)]
    <3>1. Append(localExitTree[n], leaf) \in Seq(Leaves)
      BY <2>1
    <3> QED BY <1>2, <2>1, <3>1
  <2>6. TreesOK' /\ Grows
    BY <2>3, <2>4, <2>5 DEF TreesOK, Grows
  <2> QED BY <1>2, <2>6, UnchangedRoots DEF exitVars
<1> QED BY <1>1, <1>2 DEF AddLeafBridge

-----------------------------------------------------------------------------
(* The nullifiers. *)

\* A step that pays nothing keeps what is paid exact.
LEMMA NothingPaid ==
    ASSUME TreesOK, TreesOK', Grows, NullifierOK, PaidOnce,
           globalExitRootMap \subseteq globalExitRootMap',
           UNCHANGED <<claimedBitMap, paid>>
    PROVE  NullifierOK' /\ PaidOnce'
<1>1. ASSUME NEW e \in Exits', paid[e] > 0
      PROVE  e \in Exits /\ Leaf(e)' = Leaf(e) /\ Leaf(e).destinationNetwork \in Networks
  <2>1. e \in Networks \X LeafIndexes
    <3>1. \A n \in Networks : Tree(n)' \in Seq(Leaves) /\ Len(Tree(n)') <= MaxDeposits
      BY DEF TreesOK, ValidTree
    <3>2. PICK n \in Networks : \E j \in 0..(Len(Tree(n)') - 1) : e = <<n, j>>
      BY DEF Exits
    <3>3. PICK j \in 0..(Len(Tree(n)') - 1) : e = <<n, j>>
      BY <3>2
    <3>4. j \in LeafIndexes
      BY <3>1, <3>3, BoundsAreNat DEF LeafIndexes
    <3> QED BY <3>3, <3>4
  <2>2. DOMAIN paid = Networks \X LeafIndexes
    BY DEF NullifierOK
  <2>3. e \in Exits
    BY <1>1, <2>1, <2>2 DEF PaidOnce, CoveredExits
  <2> QED BY <2>3, ExitsStay, ExitsByIndex
<1>2. \A e \in Exits' : paid'[e] > 0 =>
          ClaimBit(Leaf(e)'.destinationNetwork, e[2], e[1])
              \in claimedBitMap'[Leaf(e)'.destinationNetwork]
  BY <1>1 DEF NullifierOK
<1>3. ASSUME NEW n \in Networks, NEW bit \in claimedBitMap'[n]
      PROVE  \E e \in Exits' : /\ paid'[e] > 0
                               /\ Leaf(e)'.destinationNetwork = n
                               /\ bit = ClaimBit(n, e[2], e[1])
  <2>1. PICK e \in Exits : /\ paid[e] > 0
                           /\ Leaf(e).destinationNetwork = n
                           /\ bit = ClaimBit(n, e[2], e[1])
    BY <1>3 DEF NullifierOK
  <2> QED BY <2>1, ExitsStay
<1>4. \A n, i, s : ClaimBit(n, i, s)' = ClaimBit(n, i, s)
  BY DEF ClaimBit
<1>5. NullifierOK'
  BY <1>2, <1>3, <1>4 DEF NullifierOK
<1>6. PaidOnce'
  BY CoveredStay DEF PaidOnce
<1> QED BY <1>5, <1>6

\* The leaf a claim names is the exit of its network and index.
LEMMA ProvenLeafIsExit ==
    ASSUME TreesOK, RootsOK, NEW ger \in globalExitRootMap, NEW globalIndex \in GlobalIndexes,
           globalIndex.leafIndex < Len(ProvenTree(ger, globalIndex))
    PROVE  LET e == <<SourceBridgeNetwork(globalIndex), globalIndex.leafIndex>>
           IN /\ e \in CoveredExits /\ e \in Exits
              /\ Leaf(e) = ProvenTree(ger, globalIndex)[globalIndex.leafIndex + 1]
<1> DEFINE source == SourceBridgeNetwork(globalIndex)
           tree == ProvenTree(ger, globalIndex)
           k == globalIndex.leafIndex
<1>1. k \in Nat
  <2>1. k \in LeafIndexes
    BY DEF GlobalIndexes
  <2> QED BY <2>1, BoundsAreNat DEF LeafIndexes
<1>2. /\ source \in Networks /\ StartOf(tree, Tree(source)) /\ Covers(ger, <<source, k>>)
  <2>1. CASE globalIndex.mainnetFlag
    <3>1. source = 0 /\ tree = ger.mainnet /\ Tree(source) = exitTree
      BY <2>1 DEF SourceBridgeNetwork, ProvenTree, Tree, MainnetNetworkID
    <3> QED BY <3>1, NetworkIds DEF RootsOK, Covers, MainnetNetworkID
  <2>2. CASE ~globalIndex.mainnetFlag
    <3>1. PICK r \in Rollups : globalIndex.indexRollup = r - 1
      BY <2>2 DEF GlobalIndexes
    <3>2. r \in Nat /\ r # 0 /\ r \in Networks
      BY NetworkIds DEF Networks
    <3>3. globalIndex.indexRollup + 1 = r
      BY <3>1, <3>2
    <3>4. source = r /\ Tree(source) = localExitTree[r]
      BY <2>2, <3>2, <3>3 DEF SourceBridgeNetwork, Tree, MainnetNetworkID
    <3>5. ger.rollup # ZeroHash
      <4>1. SUFFICES ASSUME ger.rollup = ZeroHash PROVE FALSE
        OBVIOUS
      <4>2. Len(tree) = 0
        BY <2>2, <4>1 DEF ProvenTree
      <4> QED BY <1>1, <4>2
    <3>6. tree = ger.rollup[r]
      BY <2>2, <3>3, <3>5 DEF ProvenTree
    <3>7. StartOf(ger.rollup[r], localExitTree[r])
      BY <3>5 DEF RootsOK, RollupRootOK
    <3>8. Covers(ger, <<source, k>>)
      BY <3>2, <3>4, <3>5, <3>6 DEF Covers, MainnetNetworkID
    <3> QED BY <3>2, <3>4, <3>6, <3>7, <3>8
  <2> QED BY <2>1, <2>2
<1>3. tree \in Seq(Leaves) /\ Tree(source) \in Seq(Leaves) /\ k < Len(tree)
  BY <1>2 DEF StartOf, TreesOK, ValidTree
<1> HIDE DEF source, tree, k
<1>4. k < Len(Tree(source)) /\ Tree(source)[k + 1] = tree[k + 1]
  BY <1>1, <1>2, <1>3 DEF StartOf
<1>5. <<source, k>> \in Exits
  BY <1>1, <1>2, <1>4, ExitsByIndex
<1>6. <<source, k>> \in CoveredExits
  BY <1>2, <1>5 DEF CoveredExits
<1>7. Leaf(<<source, k>>) = tree[k + 1]
  BY <1>4 DEF Leaf
<1> QED BY <1>5, <1>6, <1>7 DEF source, tree, k

\* A leaf that is paid gets its bit, which no exit paid before it had.
LEMMA LeafClaimed ==
    ASSUME TreesOK, RootsOK, NullifierOK, PaidOnce,
           NEW n \in Networks, NEW ger, NEW globalIndex \in GlobalIndexes, NEW leaf,
           VerifyLeaf(n, ger, globalIndex, leaf),
           leaf.destinationNetwork = n,
           UNCHANGED <<exitTree, localExitTree, globalExitRootMap>>
    PROVE  leaf \in Leaves /\ NullifierOK' /\ PaidOnce'
<1> DEFINE source == SourceBridgeNetwork(globalIndex)
           k == globalIndex.leafIndex
           e0 == <<source, k>>
           bit0 == ClaimBit(n, k, source)
<1>1. /\ ger \in globalExitRootMap
      /\ k < Len(ProvenTree(ger, globalIndex))
      /\ leaf = ProvenTree(ger, globalIndex)[k + 1]
      /\ bit0 \notin claimedBitMap[n]
      /\ claimedBitMap' = [claimedBitMap EXCEPT ![n] = @ \cup {bit0}]
      /\ paid' = [paid EXCEPT ![e0] = @ + 1]
  BY DEF VerifyLeaf, IsKnownRoot, SetAndCheckClaimed
<1>2. e0 \in CoveredExits /\ e0 \in Exits /\ Leaf(e0) = leaf
  BY <1>1, ProvenLeafIsExit
<1>3. /\ source \in Networks /\ source \in Nat /\ k \in Nat /\ leaf \in Leaves
      /\ e0 \in Networks \X LeafIndexes
  BY <1>2, ExitsByIndex, NetworkIds
<1>4. bit0 \in Nat
  BY <1>3, BoundsAreNat DEF ClaimBit
<1>5. paid[e0] = 0
  <2>1. paid[e0] \in Nat
    BY <1>3 DEF NullifierOK
  <2>2. ~(paid[e0] > 0)
    BY <1>1, <1>2 DEF NullifierOK
  <2> QED BY <2>1, <2>2
<1> HIDE DEF source, k, bit0
<1>6. /\ e0[1] = source /\ e0[2] = k
      /\ paid \in [Networks \X LeafIndexes -> Nat]
      /\ claimedBitMap \in [Networks -> SUBSET Nat]
  BY DEF NullifierOK
<1> HIDE DEF e0
<1>7. /\ paid' \in [Networks \X LeafIndexes -> Nat]
      /\ paid'[e0] = 1
      /\ \A e \in Networks \X LeafIndexes : e # e0 => paid'[e] = paid[e]
  BY <1>1, <1>3, <1>5, <1>6
<1>8. /\ claimedBitMap' \in [Networks -> SUBSET Nat]
      /\ claimedBitMap'[n] = claimedBitMap[n] \cup {bit0}
      /\ \A m \in Networks : m # n => claimedBitMap'[m] = claimedBitMap[m]
  BY <1>1, <1>4, <1>6
<1>9. /\ \A m : Tree(m)' = Tree(m)
      /\ \A m, i, s : ClaimBit(m, i, s)' = ClaimBit(m, i, s)
  BY DEF Tree, ClaimBit
<1>10. Exits' = Exits /\ \A e : Leaf(e)' = Leaf(e)
  BY <1>9 DEF Exits, Leaf
<1>11. CoveredExits' = CoveredExits
  BY <1>10 DEF CoveredExits, Covers
<1>12. \A e \in Exits : e \in Networks \X LeafIndexes /\ Leaf(e).destinationNetwork \in Networks
  BY ExitsByIndex
<1>13. ASSUME NEW e \in Exits, paid'[e] > 0
       PROVE  ClaimBit(Leaf(e).destinationNetwork, e[2], e[1])
                  \in claimedBitMap'[Leaf(e).destinationNetwork]
  <2>1. CASE e = e0
    BY <1>2, <1>6, <1>8, <2>1 DEF bit0
  <2>2. CASE e # e0
    BY <1>7, <1>8, <1>12, <1>13, <2>2 DEF NullifierOK
  <2> QED BY <2>1, <2>2
<1>14. ASSUME NEW m \in Networks, NEW bit \in claimedBitMap'[m]
       PROVE  \E e \in Exits : /\ paid'[e] > 0
                               /\ Leaf(e).destinationNetwork = m
                               /\ bit = ClaimBit(m, e[2], e[1])
  <2>1. CASE m = n /\ bit = bit0
    BY <1>2, <1>6, <1>7, <2>1 DEF bit0
  <2>2. CASE bit \in claimedBitMap[m]
    <3>1. PICK e \in Exits : /\ paid[e] > 0
                            /\ Leaf(e).destinationNetwork = m
                            /\ bit = ClaimBit(m, e[2], e[1])
      BY <2>2 DEF NullifierOK
    <3>2. paid'[e] > 0
      BY <1>5, <1>7, <1>12, <3>1
    <3> QED BY <3>1, <3>2
  <2> QED BY <1>8, <1>14, <2>1, <2>2
<1>15. NullifierOK'
  BY <1>7, <1>8, <1>9, <1>10, <1>13, <1>14 DEF NullifierOK
<1>16. PaidOnce'
  <2>1. ASSUME NEW e \in DOMAIN paid', paid'[e] > 0
        PROVE  paid'[e] = 1 /\ e \in CoveredExits
    <3>1. CASE e = e0
      BY <1>2, <1>7, <3>1
    <3>2. CASE e # e0
      BY <1>6, <1>7, <2>1, <3>2 DEF PaidOnce
    <3> QED BY <3>1, <3>2
  <2> QED BY <1>11, <2>1 DEF PaidOnce
<1> QED BY <1>3, <1>15, <1>16

-----------------------------------------------------------------------------
(* Balances and open calls. *)

LEMMA PaidOut ==
    ASSUME FundsOK, NEW n \in Networks, NEW t \in Tokens, NEW amount \in Nat,
           PayOut(n, t, amount)
    PROVE  /\ custody' \in [Networks -> [Tokens -> Nat]]
           /\ held' \in [Networks -> [Tokens -> Nat]]
<1>1. /\ custody \in [Networks -> [Tokens -> Nat]] /\ held \in [Networks -> [Tokens -> Nat]]
      /\ custody[n][t] \in Nat /\ held[n][t] \in Nat /\ TransferFee[t] \in Nat
  BY BridgeAssumption DEF FundsOK
<1> DEFINE fee == IF IsOwn(n, t) THEN TransferFee[t] ELSE 0
<1>2. fee \in Nat /\ held[n][t] + amount - fee \in Nat
  BY <1>1 DEF PayOut, IsOwn, IsWrapped
<1>3. held' = [held EXCEPT ![n][t] = @ + amount - fee]
  BY DEF PayOut
<1>4. IsWrapped(n, t) \/ custody[n][t] - amount \in Nat
  BY <1>1 DEF PayOut
<1>5. custody' = IF IsWrapped(n, t) THEN custody ELSE [custody EXCEPT ![n][t] = @ - amount]
  BY DEF PayOut
<1> HIDE DEF fee
<1> QED BY <1>1, <1>2, <1>3, <1>4, <1>5

LEMMA Taken ==
    ASSUME FundsOK, NEW n \in Networks, NEW t \in Tokens, NEW amount \in Nat,
           TakeCoinOrWrapped(n, t, amount)
    PROVE  /\ custody' \in [Networks -> [Tokens -> Nat]]
           /\ held' \in [Networks -> [Tokens -> Nat]]
<1>1. /\ custody \in [Networks -> [Tokens -> Nat]] /\ held \in [Networks -> [Tokens -> Nat]]
      /\ custody[n][t] + amount \in Nat /\ held[n][t] \in Nat
  BY DEF FundsOK
<1>2. held[n][t] - amount \in Nat
  BY <1>1 DEF TakeCoinOrWrapped
<1> QED BY <1>1, <1>2 DEF TakeCoinOrWrapped

LEMMA Opened ==
    ASSUME calls \in Seq(OpenCalls), NEW call \in OpenCalls, Open(call)
    PROVE  calls' \in Seq(OpenCalls)
  BY DEF Open

LEMMA Closed ==
    ASSUME calls \in Seq(OpenCalls), calls # <<>>, Close
    PROVE  calls' \in Seq(OpenCalls) /\ calls[Len(calls)] \in OpenCalls
<1>1. Len(calls) \in Nat \ {0}
  OBVIOUS
<1>2. calls[Len(calls)] \in OpenCalls
  BY <1>1
<1>3. SubSeq(calls, 1, Len(calls) - 1) \in Seq(OpenCalls)
  BY <1>1
<1> QED BY <1>2, <1>3 DEF Close

LEMMA LeafOfAsset ==
    ASSUME NEW t \in Tokens, NEW destination \in Networks, NEW amount \in Nat
    PROVE  /\ Asset(t, destination, amount) \in Leaves
           /\ Asset(t, destination, amount).destinationNetwork = destination
  BY DEF Asset, Leaves

LEMMA LeafOfMessage ==
    ASSUME NEW n \in Networks, NEW destination \in Networks, NEW amount \in Nat
    PROVE  /\ Message(n, destination, amount) \in Leaves
           /\ Message(n, destination, amount).destinationNetwork = destination
  BY DEF Message, Leaves

LEMMA LeafFields ==
    ASSUME NEW leaf \in Leaves
    PROVE  leaf.amount \in Nat /\ (leaf.leafType = "asset" => leaf.token \in Tokens)
  BY DEF Leaves

LEMMA KnownTokens ==
    /\ Ether \in Tokens
    /\ \A n \in Networks : GasToken[n] \in Tokens
    /\ \A t \in Tokens : TransferFee[t] \in Nat
    /\ Amounts \subseteq Nat
  BY BridgeAssumption

-----------------------------------------------------------------------------
(* Steps. *)

\* A leaf is added and nothing is paid.
LEMMA BridgingStep ==
    ASSUME TreesOK, RootsOK, NullifierOK, PaidOnce,
           NEW n \in Networks, NEW leaf \in Leaves, NEW force \in BOOLEAN,
           leaf.destinationNetwork \in Networks \ {n},
           AddLeafBridge(n, leaf, force),
           UNCHANGED <<claimedBitMap, paid>>
    PROVE  TreesOK' /\ RootsOK' /\ NullifierOK' /\ PaidOnce'
<1>1. TreesOK' /\ Grows /\ RootsOK' /\ globalExitRootMap \subseteq globalExitRootMap'
  BY AddedLeaf
<1> QED BY <1>1, NothingPaid

\* Neither trees nor roots change, and nothing is paid.
LEMMA IdleStep ==
    ASSUME TreesOK, RootsOK, NullifierOK, PaidOnce,
           UNCHANGED <<exitVars, localExitTree, claimedBitMap, paid>>
    PROVE  TreesOK' /\ RootsOK' /\ NullifierOK' /\ PaidOnce'
<1>1. UNCHANGED <<exitTree, lastMainnetExitRoot, lastRollupExitRoot, globalExitRootMap>>
  BY DEF exitVars, bridgeVars, gerVars
<1>2. TreesOK' /\ Grows
  BY <1>1, SameTrees
<1> QED BY <1>1, <1>2, UnchangedRoots, NothingPaid

LEMMA BridgeAssetStep ==
    ASSUME BridgeIInv, NEW n \in Networks, NEW t \in Tokens, NEW amount \in Amounts,
           NEW destination \in Networks, NEW force \in BOOLEAN,
           BridgeAsset(n, t, amount, destination, force)
    PROVE  BridgeIInv'
<1>1. /\ destination # n /\ amount \in Nat
      /\ TakeCoinOrWrapped(n, t, amount)
      /\ AddLeafBridge(n, Asset(t, destination, amount), force)
      /\ UNCHANGED <<claimedBitMap, calls, paid>>
  BY KnownTokens DEF BridgeAsset, ValidDestination
<1>2. FundsOK'
  BY <1>1, Taken DEF BridgeIInv, FundsOK, OpenCalls
<1>3. TreesOK' /\ RootsOK' /\ NullifierOK' /\ PaidOnce'
  BY <1>1, LeafOfAsset, BridgingStep DEF BridgeIInv
<1> QED BY <1>2, <1>3 DEF BridgeIInv

LEMMA BeginBridgeAssetStep ==
    ASSUME BridgeIInv, NEW n \in Networks, NEW t \in Tokens, NEW amount \in Amounts,
           NEW destination \in Networks,
           BeginBridgeAsset(n, t, amount, destination)
    PROVE  BridgeIInv'
<1> DEFINE call == [function |-> "bridgeAsset", network |-> n, token |-> t, amount |-> amount,
                    destination |-> destination, balanceBefore |-> custody[n][t]]
<1>1. /\ destination # n /\ amount \in Nat /\ Open(call)
      /\ UNCHANGED <<exitVars, localExitTree, claimedBitMap, custody, held, paid>>
  BY KnownTokens DEF BeginBridgeAsset, ValidDestination
<1>2. custody[n][t] \in Nat
  BY DEF BridgeIInv, FundsOK
<1>3. call \in OpenCalls
  BY <1>1, <1>2 DEF OpenCalls
<1> HIDE DEF call
<1>4. calls' \in Seq(OpenCalls)
  BY <1>1, <1>3, Opened DEF BridgeIInv, FundsOK
<1>5. FundsOK'
  BY <1>1, <1>4 DEF BridgeIInv, FundsOK, OpenCalls
<1> QED BY <1>1, <1>5, IdleStep DEF BridgeIInv

LEMMA TransferToBridgeStep ==
    ASSUME BridgeIInv, NEW n \in Networks, NEW t \in Tokens, NEW amount \in Amounts,
           TransferToBridge(n, t, amount)
    PROVE  BridgeIInv'
<1>1. /\ amount \in Nat /\ TransferFee[t] \in Nat /\ amount > TransferFee[t]
      /\ held[n][t] >= amount
      /\ held' = [held EXCEPT ![n][t] = @ - amount]
      /\ custody' = [custody EXCEPT ![n][t] = @ + (amount - TransferFee[t])]
      /\ UNCHANGED <<exitVars, localExitTree, claimedBitMap, calls, paid>>
  BY KnownTokens DEF TransferToBridge
<1>2. custody \in [Networks -> [Tokens -> Nat]] /\ held \in [Networks -> [Tokens -> Nat]]
  BY DEF BridgeIInv, FundsOK
<1>3. held[n][t] - amount \in Nat /\ custody[n][t] + (amount - TransferFee[t]) \in Nat
  BY <1>1, <1>2
<1>4. custody' \in [Networks -> [Tokens -> Nat]] /\ held' \in [Networks -> [Tokens -> Nat]]
  BY <1>1, <1>2, <1>3
<1>5. FundsOK'
  BY <1>1, <1>4 DEF BridgeIInv, FundsOK, OpenCalls
<1> QED BY <1>1, <1>5, IdleStep DEF BridgeIInv

LEMMA EndBridgeAssetStep ==
    ASSUME BridgeIInv, NEW force \in BOOLEAN, EndBridgeAsset(force)
    PROVE  BridgeIInv'
<1> DEFINE call == calls[Len(calls)]
<1>1. calls # <<>> /\ Close /\ calls \in Seq(OpenCalls) /\ UNCHANGED <<claimedBitMap, paid>>
  BY DEF EndBridgeAsset, BridgeIInv, FundsOK
<1>2. calls' \in Seq(OpenCalls) /\ call \in OpenCalls /\ call.function = "bridgeAsset"
  BY <1>1, Closed DEF EndBridgeAsset
<1>3. PICK c \in OpenCalls : c = call /\ c.function = "bridgeAsset"
  BY <1>2
<1>4. /\ c.network \in Networks /\ c.token \in Tokens /\ c.amount \in Nat
      /\ c.destination \in Networks \ {c.network} /\ c.balanceBefore \in Nat
  BY <1>3 DEF OpenCalls
<1>5. /\ held[c.network][c.token] >= c.amount
      /\ held' = [held EXCEPT ![c.network][c.token] = @ - c.amount]
      /\ custody' = [custody EXCEPT ![c.network][c.token] =
                         @ + (c.amount - TransferFee[c.token])]
      /\ custody'[c.network][c.token] >= c.balanceBefore
      /\ AddLeafBridge(c.network, Asset(c.token, c.destination, AmountReceived(c)), force)
  BY <1>3 DEF EndBridgeAsset
<1>6. /\ custody \in [Networks -> [Tokens -> Nat]] /\ held \in [Networks -> [Tokens -> Nat]]
      /\ TransferFee[c.token] \in Nat
  BY <1>4, KnownTokens DEF BridgeIInv, FundsOK
<1>7. /\ custody'[c.network][c.token]
            = custody[c.network][c.token] + (c.amount - TransferFee[c.token])
      /\ custody'[c.network][c.token] \in Nat
  BY <1>4, <1>5, <1>6
<1>8. held[c.network][c.token] - c.amount \in Nat
  BY <1>4, <1>5, <1>6
<1>9. custody' \in [Networks -> [Tokens -> Nat]] /\ held' \in [Networks -> [Tokens -> Nat]]
  BY <1>4, <1>5, <1>6, <1>7, <1>8
<1>10. FundsOK'
  BY <1>2, <1>9 DEF FundsOK, OpenCalls
<1>11. AmountReceived(c) \in Nat
  BY <1>4, <1>5, <1>7 DEF AmountReceived
<1>12. PICK received \in Nat : received = AmountReceived(c)
  BY <1>11
<1>13. AddLeafBridge(c.network, Asset(c.token, c.destination, received), force)
  BY <1>5, <1>12
<1>14. TreesOK' /\ RootsOK' /\ NullifierOK' /\ PaidOnce'
  BY <1>1, <1>4, <1>13, LeafOfAsset, BridgingStep DEF BridgeIInv
<1> QED BY <1>10, <1>14 DEF BridgeIInv

LEMMA BridgeMessageStep ==
    ASSUME BridgeIInv, NEW n \in Networks, NEW amount \in Amounts,
           NEW destination \in Networks, NEW force \in BOOLEAN,
           \/ BridgeMessage(n, amount, destination, force)
           \/ BridgeMessageWETH(n, amount, destination, force)
    PROVE  BridgeIInv'
<1>1. PICK t \in Tokens : TakeCoinOrWrapped(n, t, amount)
  BY KnownTokens DEF BridgeMessage, BridgeMessageWETH
<1>2. /\ destination # n /\ amount \in Nat
      /\ AddLeafBridge(n, Message(n, destination, amount), force)
      /\ UNCHANGED <<claimedBitMap, calls, paid>>
  BY KnownTokens DEF BridgeMessage, BridgeMessageWETH, ValidDestination
<1>3. FundsOK'
  BY <1>1, <1>2, Taken DEF BridgeIInv, FundsOK, OpenCalls
<1>4. TreesOK' /\ RootsOK' /\ NullifierOK' /\ PaidOnce'
  BY <1>2, LeafOfMessage, BridgingStep DEF BridgeIInv
<1> QED BY <1>3, <1>4 DEF BridgeIInv

LEMMA ClaimAssetStep ==
    ASSUME BridgeIInv, NEW n \in Networks, NEW ger, NEW globalIndex \in GlobalIndexes, NEW leaf,
           ClaimAsset(n, ger, globalIndex, leaf)
    PROVE  BridgeIInv'
<1>1. /\ leaf.leafType = "asset" /\ leaf.destinationNetwork = n
      /\ VerifyLeaf(n, ger, globalIndex, leaf)
      /\ PayOut(n, leaf.token, leaf.amount)
      /\ UNCHANGED calls \/ Open([function |-> "claimAsset", network |-> n])
      /\ UNCHANGED <<exitVars, localExitTree>>
  BY DEF ClaimAsset
<1>2. UNCHANGED <<exitTree, lastMainnetExitRoot, lastRollupExitRoot, globalExitRootMap>>
  BY <1>1 DEF exitVars, bridgeVars, gerVars
<1>3. leaf \in Leaves /\ NullifierOK' /\ PaidOnce'
  BY <1>1, <1>2, LeafClaimed DEF BridgeIInv
<1>4. /\ custody' \in [Networks -> [Tokens -> Nat]] /\ held' \in [Networks -> [Tokens -> Nat]]
  BY <1>1, <1>3, LeafFields, PaidOut DEF BridgeIInv
<1>5. [function |-> "claimAsset", network |-> n] \in OpenCalls
  BY DEF OpenCalls
<1>6. calls' \in Seq(OpenCalls)
  BY <1>1, <1>5, Opened DEF BridgeIInv, FundsOK
<1>7. FundsOK'
  BY <1>4, <1>6 DEF FundsOK, OpenCalls
<1>8. TreesOK' /\ RootsOK'
  BY <1>1, <1>2, SameTrees, UnchangedRoots DEF BridgeIInv
<1> QED BY <1>3, <1>7, <1>8 DEF BridgeIInv

LEMMA ClaimMessageStep ==
    ASSUME BridgeIInv, NEW n \in Networks, NEW ger, NEW globalIndex \in GlobalIndexes, NEW leaf,
           ClaimMessage(n, ger, globalIndex, leaf)
    PROVE  BridgeIInv'
<1>1. /\ leaf.destinationNetwork = n
      /\ VerifyLeaf(n, ger, globalIndex, leaf)
      /\ PayOut(n, Ether, leaf.amount)
      /\ Open([function |-> "claimMessage", network |-> n])
      /\ UNCHANGED <<exitVars, localExitTree>>
  BY DEF ClaimMessage
<1>2. UNCHANGED <<exitTree, lastMainnetExitRoot, lastRollupExitRoot, globalExitRootMap>>
  BY <1>1 DEF exitVars, bridgeVars, gerVars
<1>3. leaf \in Leaves /\ NullifierOK' /\ PaidOnce'
  BY <1>1, <1>2, LeafClaimed DEF BridgeIInv
<1>4. /\ custody' \in [Networks -> [Tokens -> Nat]] /\ held' \in [Networks -> [Tokens -> Nat]]
  BY <1>1, <1>3, LeafFields, KnownTokens, PaidOut DEF BridgeIInv
<1>5. [function |-> "claimMessage", network |-> n] \in OpenCalls
  BY DEF OpenCalls
<1>6. calls' \in Seq(OpenCalls)
  BY <1>1, <1>5, Opened DEF BridgeIInv, FundsOK
<1>7. FundsOK'
  BY <1>4, <1>6 DEF FundsOK, OpenCalls
<1>8. TreesOK' /\ RootsOK'
  BY <1>1, <1>2, SameTrees, UnchangedRoots DEF BridgeIInv
<1> QED BY <1>3, <1>7, <1>8 DEF BridgeIInv

LEMMA ReturnFromReceiverStep ==
    ASSUME BridgeIInv, ReturnFromReceiver
    PROVE  BridgeIInv'
<1>1. /\ calls # <<>> /\ Close /\ calls \in Seq(OpenCalls)
      /\ UNCHANGED <<exitVars, localExitTree, claimedBitMap, custody, held, paid>>
  BY DEF ReturnFromReceiver, BridgeIInv, FundsOK
<1>2. FundsOK'
  BY <1>1, Closed DEF BridgeIInv, FundsOK, OpenCalls
<1> QED BY <1>1, <1>2, IdleStep DEF BridgeIInv

LEMMA SettleStep ==
    ASSUME BridgeIInv, NEW r \in Rollups, NEW length \in 1..MaxDeposits,
           SettleLocalExitRoot(r, length)
    PROVE  BridgeIInv'
<1>1. /\ length \in Nat /\ length <= Len(localExitTree[r])
      /\ ReportRollupExitRoot([SettledRoots EXCEPT ![r] = SubSeq(localExitTree[r], 1, length)])
      /\ UNCHANGED <<localExitTree, claimedBitMap, custody, held, calls, paid>>
  BY BoundsAreNat DEF SettleLocalExitRoot
<1>2. /\ RootsOK' /\ UNCHANGED exitTree /\ globalExitRootMap \subseteq globalExitRootMap'
  BY <1>1, SettledRootsOK DEF BridgeIInv
<1>3. TreesOK' /\ Grows
  BY <1>1, <1>2, SameTrees DEF BridgeIInv
<1>4. NullifierOK' /\ PaidOnce'
  BY <1>1, <1>2, <1>3, NothingPaid DEF BridgeIInv
<1>5. FundsOK'
  BY <1>1 DEF BridgeIInv, FundsOK, OpenCalls
<1> QED BY <1>2, <1>3, <1>4, <1>5 DEF BridgeIInv

LEMMA PublishStep ==
    ASSUME BridgeIInv, PublishExits
    PROVE  BridgeIInv'
<1>1. /\ UNCHANGED <<exitTree, localExitTree, claimedBitMap, custody, held, calls, paid>>
      /\ PublishMainnetExitRoot \/ UNCHANGED gerVars
  BY DEF PublishExits, UpdateGlobalExitRoot
<1>2. TreesOK' /\ Grows
  BY <1>1, SameTrees DEF BridgeIInv
<1>3. RootsOK' /\ globalExitRootMap \subseteq globalExitRootMap'
  <2>1. CASE PublishMainnetExitRoot
    BY <1>2, <2>1, PublishedRoots DEF BridgeIInv
  <2>2. CASE UNCHANGED gerVars
    BY <1>2, <2>2, UnchangedRoots DEF BridgeIInv, gerVars
  <2> QED BY <1>1, <2>1, <2>2
<1>4. NullifierOK' /\ PaidOnce'
  BY <1>1, <1>2, <1>3, NothingPaid DEF BridgeIInv
<1>5. FundsOK'
  BY <1>1 DEF BridgeIInv, FundsOK, OpenCalls
<1> QED BY <1>2, <1>3, <1>4, <1>5 DEF BridgeIInv

LEMMA EmergencyStep ==
    ASSUME BridgeIInv, MainnetEmergency
    PROVE  BridgeIInv'
<1>1. /\ UNCHANGED <<exitTree, localExitTree, claimedBitMap, custody, held, calls, paid>>
      /\ UNCHANGED <<lastMainnetExitRoot, lastRollupExitRoot, globalExitRootMap>>
  BY DEF MainnetEmergency, SetBridgeEmergency, gerVars
<1>2. TreesOK' /\ Grows
  BY <1>1, SameTrees DEF BridgeIInv
<1>3. RootsOK' /\ NullifierOK' /\ PaidOnce'
  BY <1>1, <1>2, UnchangedRoots, NothingPaid DEF BridgeIInv
<1>4. FundsOK'
  BY <1>1 DEF BridgeIInv, FundsOK, OpenCalls
<1> QED BY <1>2, <1>3, <1>4 DEF BridgeIInv

LEMMA BridgeIInvInit == SystemInit => BridgeIInv
<1> SUFFICES ASSUME SystemInit PROVE BridgeIInv
  OBVIOUS
<1>1. /\ exitTree = <<>> /\ lastMainnetExitRoot = ZeroHash /\ lastRollupExitRoot = ZeroHash
      /\ globalExitRootMap = {} /\ ZeroHash = <<>>
      /\ localExitTree = [r \in Rollups |-> <<>>]
  BY BridgeAssumption DEF SystemInit, ExitInit
<1>2. \A n \in Networks : Tree(n) = <<>>
  BY <1>1 DEF Tree, Networks
<1> DEFINE empty == <<>>
<1>3. empty \in Seq(Leaves) /\ Len(empty) = 0
  OBVIOUS
<1> HIDE DEF empty
<1>4. \A n \in Networks : ValidTree(n, empty)
  BY <1>3, BoundsAreNat DEF ValidTree
<1>5. TreesOK
  <2>1. \A n \in Networks : ValidTree(n, Tree(n))
    BY <1>2, <1>4 DEF empty
  <2>2. localExitTree = [r \in Rollups |-> empty]
    BY <1>1 DEF empty
  <2> QED BY <1>3, <2>1, <2>2 DEF TreesOK
<1>6. RootsOK
  <2>1. lastMainnetExitRoot = empty /\ exitTree = empty
    BY <1>1 DEF empty
  <2>2. StartOf(lastMainnetExitRoot, exitTree)
    BY <1>3, <2>1, StartOfItself
  <2> QED BY <1>1, <2>2 DEF RootsOK, RollupRootOK
<1>7. FundsOK
  <2>1. /\ custody = [n \in Networks |-> [t \in Tokens |->
                        IF n \in Rollups /\ GasToken[n] = t THEN Prefund ELSE 0]]
        /\ held = InitialHeld /\ calls = <<>>
        /\ Prefund \in Nat /\ InitialHeld \in [Networks -> [Tokens -> Nat]]
    BY BridgeAssumption DEF SystemInit
  <2> QED BY <2>1 DEF FundsOK
<1>8. Exits = {}
  <2>1. \A n \in Networks : 0..(Len(Tree(n)) - 1) = {}
    BY <1>2
  <2> QED BY <2>1 DEF Exits
<1>9. NullifierOK /\ PaidOnce
  <2>1. /\ claimedBitMap = [n \in Networks |-> {}]
        /\ paid = [e \in Networks \X LeafIndexes |-> 0]
    BY DEF SystemInit
  <2> QED BY <1>8, <2>1 DEF NullifierOK, PaidOnce
<1> QED BY <1>5, <1>6, <1>7, <1>9 DEF BridgeIInv

LEMMA BridgeIInvStep == BridgeIInv /\ [SystemNext]_bridgeSystemVars => BridgeIInv'
<1> SUFFICES ASSUME BridgeIInv, [SystemNext]_bridgeSystemVars PROVE BridgeIInv'
  OBVIOUS
<1>1. ASSUME NEW n \in Networks, Bridge(n)
      PROVE  BridgeIInv'
  BY <1>1, BridgeAssetStep, BeginBridgeAssetStep, BridgeMessageStep DEF Bridge
<1>2. ASSUME NEW n \in Networks, Claim(n)
      PROVE  BridgeIInv'
  BY <1>2, ClaimAssetStep, ClaimMessageStep DEF Claim
<1>3. CASE \E force \in BOOLEAN : EndBridgeAsset(force)
  BY <1>3, EndBridgeAssetStep
<1>4. CASE \E r \in Rollups, length \in 1..MaxDeposits : SettleLocalExitRoot(r, length)
  BY <1>4, SettleStep
<1>5. CASE UNCHANGED bridgeSystemVars
  <2>1. /\ UNCHANGED <<exitVars, localExitTree, claimedBitMap, custody, held, calls, paid, given>>
    BY <1>5 DEF bridgeSystemVars
  <2>2. FundsOK'
    BY <2>1 DEF BridgeIInv, FundsOK, OpenCalls
  <2> QED BY <2>1, <2>2, IdleStep DEF BridgeIInv
<1> QED BY <1>1, <1>2, <1>3, <1>4, <1>5, ReturnFromReceiverStep, PublishStep, EmergencyStep,
           TransferToBridgeStep
        DEF SystemNext

-----------------------------------------------------------------------------
(* Nullifiers tell exits apart. *)

\* On one network, the bits of exits of other networks differ.
LEMMA BitsTellExitsApart ==
    ASSUME NEW n \in Networks, NEW s \in Networks \ {n}, NEW t \in Networks \ {n},
           NEW i \in LeafIndexes, NEW j \in LeafIndexes,
           ClaimBit(n, i, s) = ClaimBit(n, j, t)
    PROVE  s = t /\ i = j
<1> DEFINE M == MaxLeafsPerNetwork
           Block(source) == IF n = 0 /\ source = 1 THEN 0 ELSE source
<1>1. /\ M \in Nat /\ n \in Nat /\ s \in Nat /\ t \in Nat
      /\ i \in Nat /\ j \in Nat /\ i < M /\ j < M
  BY NetworkIds, BoundsAreNat DEF LeafIndexes, MaxLeafsPerNetwork
<1>2. ClaimBit(n, i, s) = i + Block(s) * M /\ ClaimBit(n, j, t) = j + Block(t) * M
  BY <1>1 DEF ClaimBit, MainnetNetworkID, ZkEVMNetworkID
<1>3. Block(s) \in Nat /\ Block(t) \in Nat
  BY <1>1
<1>4. Block(s) = Block(t) => s = t
  BY <1>1
<1> HIDE DEF M, Block
<1>5. Block(s) = Block(t) /\ i = j
  BY <1>1, <1>2, <1>3, DisjointBlocks
<1> QED BY <1>4, <1>5

LEMMA NullifiersOfUnpaid == TreesOK /\ NullifierOK => UnpaidIsUnclaimed
<1> SUFFICES ASSUME TreesOK, NullifierOK, NEW e \in Exits, paid[e] = 0,
                    ClaimBit(Leaf(e).destinationNetwork, e[2], e[1])
                        \in claimedBitMap[Leaf(e).destinationNetwork]
             PROVE  FALSE
  BY DEF UnpaidIsUnclaimed
<1>1. PICK n \in Networks : n = Leaf(e).destinationNetwork
  BY ExitsByIndex
<1>2. PICK f \in Exits : /\ paid[f] > 0
                         /\ Leaf(f).destinationNetwork = n
                         /\ ClaimBit(n, e[2], e[1]) = ClaimBit(n, f[2], f[1])
  BY <1>1 DEF NullifierOK
<1>3. /\ e = <<e[1], e[2]>> /\ f = <<f[1], f[2]>>
      /\ e[1] \in Networks \ {n} /\ f[1] \in Networks \ {n}
      /\ e[2] \in LeafIndexes /\ f[2] \in LeafIndexes
  BY <1>1, <1>2, ExitsByIndex
<1>4. e[1] = f[1] /\ e[2] = f[2]
  BY <1>2, <1>3, BitsTellExitsApart
<1>5. e = f
  BY <1>3, <1>4
<1> QED BY <1>2, <1>5

-----------------------------------------------------------------------------
(***************************************************************************)
(* The nullifiers of every bridge are exactly those of the exits it paid,  *)
(* and every root ever recorded is a start of the tree it stands for       *)
(* (_verifyLeaf, _setAndCheckClaimed, _addLeafBridge): the invariant that  *)
(* carries the theorems about payments.                                    *)
(***************************************************************************)
THEOREM NullifiersExact == SystemSpec => []BridgeIInv
  BY BridgeIInvInit, BridgeIInvStep, PTL DEF SystemSpec

(***************************************************************************)
(* For any networks, tokens, fees and nesting of calls, no exit is paid    *)
(* twice, and none is paid that no recorded global exit root covers        *)
(* (_verifyLeaf, claimAsset, claimMessage).                                *)
(***************************************************************************)
THEOREM ExitsPaidOnce == SystemSpec => []PaidOnce
<1>1. BridgeIInv => PaidOnce
  BY DEF BridgeIInv
<1> QED BY <1>1, NullifiersExact, PTL

(***************************************************************************)
(* No claim takes the nullifier of another exit, on any number of          *)
(* networks, with the exits of rollup 1 at the start of mainnet's map      *)
(* (_setAndCheckClaimed, isClaimed).                                       *)
(***************************************************************************)
THEOREM UnpaidExitsUnclaimed == SystemSpec => []UnpaidIsUnclaimed
<1>1. BridgeIInv => UnpaidIsUnclaimed
  BY NullifiersOfUnpaid DEF BridgeIInv
<1> QED BY <1>1, NullifiersExact, PTL

(***************************************************************************)
(* For any networks, tokens, fees and nesting of calls, nullifiers and     *)
(* payments agree exactly (_setAndCheckClaimed).                           *)
(***************************************************************************)
THEOREM PaymentsAreExact == SystemSpec => []ExitsPaidExactly
<1>1. PaidOnce /\ UnpaidIsUnclaimed => ExitsPaidExactly
  BY DEF ExitsPaidExactly
<1> QED BY <1>1, ExitsPaidOnce, UnpaidExitsUnclaimed, PTL

-----------------------------------------------------------------------------
(* What the bridges hold. *)

\* What network n keeps of a transfer of t.
Kept(n, t) == IF IsOwn(n, t) THEN TransferFee[t] ELSE 0

(***************************************************************************)
(* The books of one token, over values and not over variables: c is what   *)
(* the bridges hold, h what the users hold, due what is on its way and     *)
(* what the bridge was given. Home has less than at first only by fees,    *)
(* the bound behind the coins that a rollup's bridge never runs out of.    *)
(***************************************************************************)
Abroad(t) == Networks \ {OriginNetwork[t]}

HeldAbroad(t, h) == SumFunctionOnSet([n \in Abroad(t) |-> h[n][t]], Abroad(t))

Books(t, c, h, due) ==
    LET home == OriginNetwork[t]
    IN /\ c[home][t] = HeldAbroad(t, h) + due
       /\ h[home][t] + c[home][t] <= InitialHeld[home][t]
       /\ \A n \in Abroad(t) : IsCoin(n, t) => c[n][t] + h[n][t] = Prefund

Given(t) == given[OriginNetwork[t]][t]

BooksOK == \A t \in Tokens : Books(t, custody, held, AmountDue(UnpaidExits(t)) + Given(t))

(***************************************************************************)
(* One call at most holds the lock. While it is a bridgeAsset, the token   *)
(* that it measures only comes in, for nothing: messages carry coins or    *)
(* wrapped ether and the token is neither. c is what the bridges hold, g   *)
(* what they were given.                                                   *)
(***************************************************************************)
Locks(call) == call.function \in {"bridgeAsset", "claimAsset"}

OpenTransferOK(call, c, g) ==
    /\ IsOwn(call.network, call.token)
    /\ call.amount >= TransferFee[call.token]
    /\ call.balanceBefore <= c[call.network][call.token]
    /\ c[call.network][call.token] - call.balanceBefore <= g[call.network][call.token]

LockOK ==
    /\ \A i, j \in 1..Len(calls) : Locks(calls[i]) /\ Locks(calls[j]) => i = j
    /\ \A i \in 1..Len(calls) :
           calls[i].function = "bridgeAsset" => OpenTransferOK(calls[i], custody, given)

Balances == [Networks -> [Tokens -> Nat]]

SupplyIInv == BridgeIInv /\ BooksOK /\ given \in Balances /\ LockOK

-----------------------------------------------------------------------------
(* The books. *)

LEMMA NetworksAreFinite ==
    /\ IsFiniteSet(Networks)
    /\ \A t \in Tokens : IsFiniteSet(Abroad(t)) /\ OriginNetwork[t] \in Networks
<1>1. Networks = Rollups \cup {0}
  BY DEF Networks, MainnetNetworkID
<1>2. IsFiniteSet(Networks)
  BY <1>1, SupplyAssumption, FS_AddElement
<1>3. \A t \in Tokens : IsFiniteSet(Abroad(t))
  BY <1>2, FS_RemoveElement DEF Abroad
<1> QED BY <1>2, <1>3, BridgeAssumption

LEMMA TypesOfKeeping ==
    ASSUME NEW n \in Networks, NEW t \in Tokens
    PROVE  /\ Kept(n, t) \in Nat
           /\ IsWrapped(n, t) => OriginNetwork[t] # n /\ ~IsCoin(n, t)
           /\ OriginNetwork[t] # n => Kept(n, t) = 0 /\ (IsWrapped(n, t) \/ IsCoin(n, t))
  BY BridgeAssumption DEF Kept, IsOwn, IsWrapped, IsCoin

\* Balances that agree on a token have the same books of it.
LEMMA BooksAgree ==
    ASSUME NEW t \in Tokens, NEW c, NEW h \in Balances, NEW d, NEW g, NEW due,
           \A n \in Networks : d[n][t] = c[n][t] /\ g[n][t] = h[n][t],
           Books(t, c, h, due)
    PROVE  Books(t, d, g, due)
<1>1. HeldAbroad(t, g) = HeldAbroad(t, h)
  <2> DEFINE f == [n \in Abroad(t) |-> h[n][t]]
             k == [n \in Abroad(t) |-> g[n][t]]
  <2>1. \A n \in Abroad(t) : f[n] \in Int /\ k[n] = f[n]
    BY DEF Abroad, Balances
  <2> HIDE DEF f, k
  <2>2. SumFunctionOnSet(k, Abroad(t)) = SumFunctionOnSet(f, Abroad(t))
    BY <2>1, NetworksAreFinite, SumAgree
  <2> QED BY <2>2 DEF HeldAbroad, f, k
<1> QED BY <1>1, NetworksAreFinite DEF Books, Abroad

\* A change of what one other network holds changes what is held abroad by as much.
LEMMA HeldAbroadChange ==
    ASSUME NEW t \in Tokens, NEW n \in Abroad(t), NEW h \in Balances, NEW g \in Balances,
           \A m \in Networks \ {n} : g[m][t] = h[m][t]
    PROVE  /\ HeldAbroad(t, g) = HeldAbroad(t, h) + g[n][t] - h[n][t]
           /\ HeldAbroad(t, g) \in Nat /\ HeldAbroad(t, h) \in Nat
<1> DEFINE f == [m \in Abroad(t) |-> h[m][t]]
           k == [m \in Abroad(t) |-> g[m][t]]
<1>1. /\ \A m \in Abroad(t) : f[m] \in Nat /\ k[m] \in Nat
      /\ \A m \in Abroad(t) \ {n} : k[m] = f[m]
      /\ f[n] = h[n][t] /\ k[n] = g[n][t]
  BY DEF Abroad, Balances
<1> HIDE DEF f, k
<1>2. SumFunctionOnSet(k, Abroad(t)) = SumFunctionOnSet(f, Abroad(t)) + k[n] - f[n]
  <2>1. /\ IsFiniteSet(Abroad(t)) /\ n \in Abroad(t)
        /\ \A m \in Abroad(t) : f[m] \in Int /\ k[m] \in Int
    BY <1>1, NetworksAreFinite
  <2> QED BY <1>1, <2>1, SumChange
<1>3. SumFunctionOnSet(k, Abroad(t)) \in Nat /\ SumFunctionOnSet(f, Abroad(t)) \in Nat
  BY <1>1, NetworksAreFinite, SumNat
<1> QED BY <1>1, <1>2, <1>3 DEF HeldAbroad, f, k

LEMMA HeldAbroadNat ==
    ASSUME NEW t \in Tokens, NEW h \in Balances
    PROVE  /\ HeldAbroad(t, h) \in Nat
           /\ \A n \in Abroad(t) : h[n][t] <= HeldAbroad(t, h)
<1> DEFINE f == [m \in Abroad(t) |-> h[m][t]]
<1>1. \A m \in Abroad(t) : f[m] \in Nat /\ f[m] = h[m][t]
  BY DEF Abroad, Balances
<1> HIDE DEF f
<1>2. /\ SumFunctionOnSet(f, Abroad(t)) \in Nat
      /\ \A m \in Abroad(t) : f[m] <= SumFunctionOnSet(f, Abroad(t))
  BY <1>1, NetworksAreFinite, SumNat
<1> QED BY <1>1, <1>2 DEF HeldAbroad, f

\* What is sent leaves its sender and becomes due, less what is kept of it.
LEMMA SentBooks ==
    ASSUME NEW c \in Balances, NEW h \in Balances, NEW d \in Balances, NEW g \in Balances,
           NEW n \in Networks, NEW t \in Tokens, NEW amount \in Nat,
           NEW due \in Nat, Books(t, c, h, due),
           g = [h EXCEPT ![n][t] = @ - amount],
           d = IF IsWrapped(n, t) THEN c
               ELSE [c EXCEPT ![n][t] = @ + (amount - Kept(n, t))]
    PROVE  Books(t, d, g, due + (amount - Kept(n, t)))
<1> DEFINE home == OriginNetwork[t]
<1>1. /\ home \in Networks /\ c[home][t] \in Nat /\ h[home][t] \in Nat
      /\ InitialHeld[home][t] \in Nat /\ Kept(n, t) \in Nat
      /\ h[n][t] \in Nat /\ c[n][t] \in Nat /\ Prefund \in Nat
  <2>1. home \in Networks
    BY NetworksAreFinite
  <2> HIDE DEF home
  <2>2. InitialHeld[home][t] \in Nat /\ Prefund \in Nat
    BY <2>1, BridgeAssumption
  <2>3. c[home][t] \in Nat /\ h[home][t] \in Nat /\ h[n][t] \in Nat /\ c[n][t] \in Nat
    BY <2>1 DEF Balances
  <2> QED BY <2>1, <2>2, <2>3, TypesOfKeeping
<1>2. /\ g[n][t] = h[n][t] - amount
      /\ \A m \in Networks \ {n} : g[m][t] = h[m][t] /\ d[m][t] = c[m][t]
      /\ d[n][t] = IF IsWrapped(n, t) THEN c[n][t] ELSE c[n][t] + (amount - Kept(n, t))
  BY DEF Balances
<1>3. HeldAbroad(t, h) \in Nat
  BY HeldAbroadNat
<1>4. CASE n = home
  <2>1. HeldAbroad(t, g) = HeldAbroad(t, h)
    <3> DEFINE f == [m \in Abroad(t) |-> h[m][t]]
               k == [m \in Abroad(t) |-> g[m][t]]
    <3>1. \A m \in Abroad(t) : k[m] = f[m]
      BY <1>2, <1>4 DEF Abroad
    <3>2. k = f
      BY <3>1
    <3> QED BY <3>2 DEF HeldAbroad
  <2>2. d[home][t] = c[home][t] + (amount - Kept(n, t)) /\ g[home][t] = h[home][t] - amount
    BY <1>2, <1>4, TypesOfKeeping
  <2>3. c[home][t] = HeldAbroad(t, h) + due /\ h[home][t] + c[home][t] <= InitialHeld[home][t]
    BY DEF Books
  <2>4. /\ d[home][t] = HeldAbroad(t, g) + (due + (amount - Kept(n, t)))
        /\ g[home][t] + d[home][t] <= InitialHeld[home][t]
    BY <1>1, <1>3, <2>1, <2>2, <2>3
  <2>5. \A m \in Abroad(t) : IsCoin(m, t) => d[m][t] + g[m][t] = Prefund
    BY <1>2, <1>4 DEF Books, Abroad
  <2> QED BY <2>4, <2>5 DEF Books
<1>5. CASE n # home
  <2>1. n \in Abroad(t) /\ Kept(n, t) = 0 /\ (IsWrapped(n, t) \/ IsCoin(n, t))
    BY <1>5, TypesOfKeeping DEF Abroad
  <2>2. HeldAbroad(t, g) = HeldAbroad(t, h) - amount /\ HeldAbroad(t, g) \in Nat
    <3>1. HeldAbroad(t, g) = HeldAbroad(t, h) + g[n][t] - h[n][t] /\ HeldAbroad(t, g) \in Nat
      <4>1. n \in Abroad(t) /\ \A m \in Networks \ {n} : g[m][t] = h[m][t]
        BY <1>2, <2>1
      <4> QED BY ONLY <4>1, HeldAbroadChange, t \in Tokens, h \in Balances, g \in Balances
    <3> QED BY <1>1, <1>2, <1>3, <3>1
  <2>3. d[home][t] = c[home][t] /\ g[home][t] = h[home][t]
    BY <1>1, <1>2, <1>5
  <2>4. c[home][t] = HeldAbroad(t, h) + due /\ h[home][t] + c[home][t] <= InitialHeld[home][t]
    BY DEF Books
  <2>5. /\ d[home][t] = HeldAbroad(t, g) + (due + (amount - Kept(n, t)))
        /\ g[home][t] + d[home][t] <= InitialHeld[home][t]
    BY <1>1, <1>3, <2>1, <2>2, <2>3, <2>4
  <2>6. ASSUME NEW m \in Abroad(t), IsCoin(m, t)
        PROVE  d[m][t] + g[m][t] = Prefund
    <3>1. c[m][t] + h[m][t] = Prefund
      BY <2>6 DEF Books
    <3>2. CASE m = n
      <4>1. d[n][t] = c[n][t] + amount /\ g[n][t] = h[n][t] - amount
        BY <1>1, <1>2, <2>1, <2>6, <3>2, TypesOfKeeping
      <4> QED BY <1>1, <3>1, <3>2, <4>1
    <3>3. CASE m # n
      BY <1>2, <3>1, <3>3 DEF Abroad
    <3> QED BY <3>2, <3>3
  <2> QED BY <2>5, <2>6 DEF Books
<1> QED BY <1>4, <1>5

\* What is paid was due and reaches its receiver, less what is kept of it.
LEMMA PaidBooks ==
    ASSUME NEW c \in Balances, NEW h \in Balances, NEW d \in Balances, NEW g \in Balances,
           NEW n \in Networks, NEW t \in Tokens, NEW amount \in Nat,
           NEW due \in Nat, amount <= due, Books(t, c, h, due),
           g = [h EXCEPT ![n][t] = @ + amount - Kept(n, t)],
           d = IF IsWrapped(n, t) THEN c ELSE [c EXCEPT ![n][t] = @ - amount]
    PROVE  Books(t, d, g, due - amount)
<1> DEFINE home == OriginNetwork[t]
<1>1. /\ home \in Networks /\ c[home][t] \in Nat /\ h[home][t] \in Nat
      /\ InitialHeld[home][t] \in Nat /\ Kept(n, t) \in Nat
      /\ h[n][t] \in Nat /\ c[n][t] \in Nat /\ Prefund \in Nat
  <2>1. home \in Networks
    BY NetworksAreFinite
  <2> HIDE DEF home
  <2>2. InitialHeld[home][t] \in Nat /\ Prefund \in Nat
    BY <2>1, BridgeAssumption
  <2>3. c[home][t] \in Nat /\ h[home][t] \in Nat /\ h[n][t] \in Nat /\ c[n][t] \in Nat
    BY <2>1 DEF Balances
  <2> QED BY <2>1, <2>2, <2>3, TypesOfKeeping
<1>2. /\ g[n][t] = h[n][t] + amount - Kept(n, t)
      /\ \A m \in Networks \ {n} : g[m][t] = h[m][t] /\ d[m][t] = c[m][t]
      /\ d[n][t] = IF IsWrapped(n, t) THEN c[n][t] ELSE c[n][t] - amount
  BY DEF Balances
<1>3. HeldAbroad(t, h) \in Nat
  BY HeldAbroadNat
<1>4. CASE n = home
  <2>1. HeldAbroad(t, g) = HeldAbroad(t, h)
    <3> DEFINE f == [m \in Abroad(t) |-> h[m][t]]
               k == [m \in Abroad(t) |-> g[m][t]]
    <3>1. \A m \in Abroad(t) : k[m] = f[m]
      BY <1>2, <1>4 DEF Abroad
    <3>2. k = f
      BY <3>1
    <3> QED BY <3>2 DEF HeldAbroad
  <2>2. /\ d[home][t] = c[home][t] - amount
        /\ g[home][t] = h[home][t] + amount - Kept(n, t)
    BY <1>2, <1>4, TypesOfKeeping
  <2>3. c[home][t] = HeldAbroad(t, h) + due /\ h[home][t] + c[home][t] <= InitialHeld[home][t]
    BY DEF Books
  <2>4. /\ d[home][t] = HeldAbroad(t, g) + (due - amount)
        /\ g[home][t] + d[home][t] <= InitialHeld[home][t]
    BY <1>1, <1>3, <2>1, <2>2, <2>3
  <2>5. \A m \in Abroad(t) : IsCoin(m, t) => d[m][t] + g[m][t] = Prefund
    BY <1>2, <1>4 DEF Books, Abroad
  <2> QED BY <2>4, <2>5 DEF Books
<1>5. CASE n # home
  <2>1. n \in Abroad(t) /\ Kept(n, t) = 0 /\ (IsWrapped(n, t) \/ IsCoin(n, t))
    BY <1>5, TypesOfKeeping DEF Abroad
  <2>2. HeldAbroad(t, g) = HeldAbroad(t, h) + amount /\ HeldAbroad(t, g) \in Nat
    <3>1. HeldAbroad(t, g) = HeldAbroad(t, h) + g[n][t] - h[n][t] /\ HeldAbroad(t, g) \in Nat
      <4>1. n \in Abroad(t) /\ \A m \in Networks \ {n} : g[m][t] = h[m][t]
        BY <1>2, <2>1
      <4> QED BY ONLY <4>1, HeldAbroadChange, t \in Tokens, h \in Balances, g \in Balances
    <3> QED BY <1>1, <1>2, <1>3, <2>1, <3>1
  <2>3. d[home][t] = c[home][t] /\ g[home][t] = h[home][t]
    BY <1>1, <1>2, <1>5
  <2>4. c[home][t] = HeldAbroad(t, h) + due /\ h[home][t] + c[home][t] <= InitialHeld[home][t]
    BY DEF Books
  <2>5. /\ d[home][t] = HeldAbroad(t, g) + (due - amount)
        /\ g[home][t] + d[home][t] <= InitialHeld[home][t]
    BY <1>1, <1>3, <2>1, <2>2, <2>3, <2>4
  <2>6. ASSUME NEW m \in Abroad(t), IsCoin(m, t)
        PROVE  d[m][t] + g[m][t] = Prefund
    <3>1. c[m][t] + h[m][t] = Prefund
      BY <2>6 DEF Books
    <3>2. CASE m = n
      <4>1. d[n][t] = c[n][t] - amount /\ g[n][t] = h[n][t] + amount
        BY <1>1, <1>2, <2>1, <2>6, <3>2, TypesOfKeeping
      <4> QED BY <1>1, <3>1, <3>2, <4>1
    <3>3. CASE m # n
      BY <1>2, <3>1, <3>3 DEF Abroad
    <3> QED BY <3>2, <3>3
  <2> QED BY <2>5, <2>6 DEF Books
<1> QED BY <1>4, <1>5

-----------------------------------------------------------------------------
(* What is on its way. *)

\* Unpaid exits of t to the networks of D.
Pending(t, D) == {e \in UnpaidExits(t) : Leaf(e).destinationNetwork \in D}

Due(t, D) == AmountDue(Pending(t, D))

LEMMA AllPending ==
    ASSUME TreesOK, NEW t
    PROVE  Pending(t, Networks) = UnpaidExits(t)
  BY ExitsByIndex DEF Pending, UnpaidExits

LEMMA FinitelyManyExits ==
    ASSUME TreesOK
    PROVE  /\ IsFiniteSet(Exits)
           /\ \A e \in Exits : Leaf(e).amount \in Nat
<1>1. IsFiniteSet(LeafIndexes)
  BY BoundsAreNat, FS_Interval DEF LeafIndexes
<1>2. IsFiniteSet(Networks \X LeafIndexes)
  BY <1>1, NetworksAreFinite, FS_Product
<1>3. Exits \subseteq Networks \X LeafIndexes
  BY ExitsByIndex
<1>4. IsFiniteSet(Exits)
  BY <1>2, <1>3, FS_Subset
<1> QED BY <1>4, ExitsByIndex, LeafFields

LEMMA DueIsNat ==
    ASSUME TreesOK, NEW t, NEW D
    PROVE  Due(t, D) \in Nat /\ \A e \in Pending(t, D) : Leaf(e).amount <= Due(t, D)
<1> DEFINE P == Pending(t, D)
           f == [e \in P |-> Leaf(e).amount]
<1>1. P \subseteq Exits
  BY DEF Pending, UnpaidExits
<1>2. IsFiniteSet(P)
  BY <1>1, FinitelyManyExits, FS_Subset
<1>3. \A e \in P : f[e] \in Nat /\ f[e] = Leaf(e).amount
  BY <1>1, FinitelyManyExits
<1>4. Due(t, D) = SumFunctionOnSet(f, P)
  BY DEF Due, AmountDue
<1> HIDE DEF f, P
<1>5. SumFunctionOnSet(f, P) \in Nat /\ \A e \in P : f[e] <= SumFunctionOnSet(f, P)
  BY <1>2, <1>3, SumNat
<1> QED BY <1>3, <1>4, <1>5 DEF P

\* Trees and payments that stay leave as much on its way.
LEMMA DueStays ==
    ASSUME UNCHANGED <<exitTree, localExitTree, paid>>, NEW t, NEW D
    PROVE  Due(t, D)' = Due(t, D) /\ Exits' = Exits /\ \A e : Leaf(e)' = Leaf(e)
<1>1. \A n : Tree(n)' = Tree(n)
  BY DEF Tree
<1>2. Exits' = Exits /\ \A e : Leaf(e)' = Leaf(e)
  BY <1>1 DEF Exits, Leaf
<1>3. Pending(t, D)' = Pending(t, D)
  BY <1>2 DEF Pending, UnpaidExits
<1> QED BY <1>2, <1>3 DEF Due, AmountDue

LEMMA LeafAppended ==
    ASSUME TreesOK, NEW n \in Networks, NEW leaf, NEW force, AddLeafBridge(n, leaf, force)
    PROVE  /\ Len(Tree(n)) < MaxDeposits
           /\ Tree(n)' = Append(Tree(n), leaf)
           /\ \A m \in Networks \ {n} : Tree(m)' = Tree(m)
<1>1. CASE /\ n = MainnetNetworkID
           /\ AddExit(leaf, force)
           /\ UNCHANGED localExitTree
  BY <1>1 DEF AddExit, DepositCount, Tree
<1>2. CASE /\ n # MainnetNetworkID
           /\ Len(localExitTree[n]) < MaxDeposits
           /\ localExitTree' = [localExitTree EXCEPT ![n] = Append(@, leaf)]
           /\ UNCHANGED exitVars
  <2>1. n \in Rollups /\ localExitTree \in [Rollups -> Seq(Leaves)]
    BY <1>2 DEF Networks, TreesOK
  <2>2. \A m \in Networks \ {n} : Tree(m)' = Tree(m)
    BY <1>2, <2>1 DEF Tree, Networks, exitVars
  <2>3. localExitTree'[n] = Append(localExitTree[n], leaf)
    BY <1>2, <2>1
  <2> QED BY <1>2, <2>2, <2>3 DEF Tree
<1> QED BY <1>1, <1>2 DEF AddLeafBridge

\* A new leaf is one more exit, and not paid yet.
LEMMA NewExit ==
    ASSUME BridgeIInv, NEW n \in Networks, NEW leaf \in Leaves, NEW force \in BOOLEAN,
           AddLeafBridge(n, leaf, force)
    PROVE  \E x : /\ x \notin Exits /\ Exits' = Exits \cup {x}
                  /\ Leaf(x)' = leaf /\ paid[x] = 0
                  /\ \A e \in Exits : Leaf(e)' = Leaf(e)
<1>4. PICK k \in Nat : k = Len(Tree(n))
  BY DEF BridgeIInv, TreesOK, ValidTree
<1> DEFINE x == <<n, k>>
<1>1. /\ k < MaxDeposits /\ Tree(n)' = Append(Tree(n), leaf)
      /\ \A m \in Networks \ {n} : Tree(m)' = Tree(m)
  BY <1>4, LeafAppended DEF BridgeIInv
<1>2. \A m \in Networks : Tree(m) \in Seq(Leaves) /\ Len(Tree(m)) \in Nat
  BY DEF BridgeIInv, TreesOK, ValidTree
<1>3. /\ Len(Tree(n)') = k + 1 /\ Tree(n)'[k + 1] = leaf
      /\ \A i \in 1..k : Tree(n)'[i] = Tree(n)[i]
  BY <1>4, <1>1, <1>2
<1>5. x[1] = n /\ x[2] = k
  OBVIOUS
<1>6. Leaf(x)' = leaf
  BY <1>3, <1>5 DEF Leaf
<1> HIDE DEF x
<1>7. 0..k = 0..(k - 1) \cup {k}
  OBVIOUS
<1>8. \A m \in Networks : {<<m, i>> : i \in 0..(Len(Tree(m)') - 1)}
          = {<<m, i>> : i \in 0..(Len(Tree(m)) - 1)} \cup (IF m = n THEN {x} ELSE {})
  <2>1. Len(Tree(n)') - 1 = k
    BY <1>3
  <2> QED BY <1>4, <1>1, <1>7, <2>1 DEF x
<1>9. Exits' = Exits \cup {x}
  BY <1>8 DEF Exits
<1>10. ASSUME NEW e \in Exits
       PROVE  Leaf(e)' = Leaf(e) /\ e # x
  <2>1. e[1] \in Networks /\ e[2] \in Nat /\ e[2] < Len(Tree(e[1]))
    BY ExitsByIndex DEF BridgeIInv
  <2>2. CASE e[1] = n
    <3>1. e[2] < k /\ e[2] + 1 \in 1..k
      BY <1>4, <2>1, <2>2
    <3> QED BY <1>3, <1>5, <2>1, <2>2, <3>1 DEF Leaf
  <2>3. CASE e[1] # n
    BY <1>1, <1>5, <2>1, <2>3 DEF Leaf
  <2> QED BY <2>2, <2>3
<1>11. paid[x] = 0
  <2>1. k \in LeafIndexes
    BY <1>1, BoundsAreNat DEF LeafIndexes
  <2>2. x \in Networks \X LeafIndexes
    BY <2>1 DEF x
  <2>3. paid[x] \in Nat /\ x \in DOMAIN paid
    BY <2>2 DEF BridgeIInv, NullifierOK
  <2>4. ~(paid[x] > 0)
    BY <1>10, <2>3 DEF BridgeIInv, PaidOnce, CoveredExits
  <2> QED BY <2>3, <2>4
<1> QED BY <1>6, <1>9, <1>10, <1>11

\* What is sent is on its way to its destination.
LEMMA DueGrows ==
    ASSUME BridgeIInv, NEW n \in Networks, NEW leaf \in Leaves, NEW force \in BOOLEAN,
           AddLeafBridge(n, leaf, force), UNCHANGED paid, NEW t, NEW D
    PROVE  Due(t, D)' = Due(t, D)
               + (IF LeafToken(leaf) = t /\ leaf.destinationNetwork \in D
                  THEN leaf.amount ELSE 0)
<1>1. PICK x : /\ x \notin Exits /\ Exits' = Exits \cup {x}
               /\ Leaf(x)' = leaf /\ paid[x] = 0
               /\ \A e \in Exits : Leaf(e)' = Leaf(e)
  BY NewExit
<1> DEFINE P == Pending(t, D)
           f == [e \in P |-> Leaf(e).amount]
           Q == Pending(t, D)'
           g == [e \in Q |-> Leaf(e)'.amount]
<1>2. Q = {e \in Exits' : /\ paid[e] = 0 /\ LeafToken(Leaf(e)') = t
                          /\ Leaf(e)'.destinationNetwork \in D}
  BY DEF Pending, UnpaidExits, LeafToken
<1>3. P = {e \in Exits : /\ paid[e] = 0 /\ LeafToken(Leaf(e)) = t
                         /\ Leaf(e).destinationNetwork \in D}
  BY DEF Pending, UnpaidExits
<1>4. P \subseteq Exits /\ IsFiniteSet(P) /\ x \notin P
  BY <1>1, <1>3, FinitelyManyExits, FS_Subset DEF BridgeIInv
<1>5. \A e \in P : f[e] \in Int
  BY <1>4, FinitelyManyExits DEF BridgeIInv
<1>6. leaf.amount \in Nat
  BY LeafFields
<1>7. Due(t, D) = SumFunctionOnSet(f, P) /\ Due(t, D)' = SumFunctionOnSet(g, Q)
  BY DEF Due, AmountDue
<1>8. CASE LeafToken(leaf) = t /\ leaf.destinationNetwork \in D
  <2>1. Q = P \cup {x}
    BY <1>1, <1>2, <1>3, <1>8
  <2>2. /\ \A e \in P : g[e] = f[e] /\ f[e] \in Int
        /\ g[x] = leaf.amount /\ g[x] \in Int
    BY <1>1, <1>4, <1>5, <1>6, <2>1
  <2> HIDE DEF P, Q, f, g
  <2>3. SumFunctionOnSet(g, Q) = SumFunctionOnSet(f, P) + g[x]
    BY <1>4, <2>1, <2>2, SumExtend
  <2> QED BY <1>7, <1>8, <2>1, <2>2, <2>3
<1>9. CASE ~(LeafToken(leaf) = t /\ leaf.destinationNetwork \in D)
  <2>1. Q = P
    BY <1>1, <1>2, <1>3, <1>9
  <2>2. g = f
    BY <1>1, <1>4, <2>1
  <2>3. Due(t, D) \in Nat
    BY DueIsNat DEF BridgeIInv
  <2> HIDE DEF P, Q, f, g
  <2> QED BY <1>7, <1>9, <2>1, <2>2, <2>3
<1> QED BY <1>8, <1>9

\* What is paid was on its way to the network that pays it.
LEMMA DueShrinks ==
    ASSUME BridgeIInv, NEW n \in Networks, NEW ger, NEW globalIndex \in GlobalIndexes, NEW leaf,
           VerifyLeaf(n, ger, globalIndex, leaf), leaf.destinationNetwork = n,
           UNCHANGED <<exitTree, localExitTree>>, NEW t, NEW D
    PROVE  LET part == IF LeafToken(leaf) = t /\ n \in D THEN leaf.amount ELSE 0
           IN Due(t, D)' = Due(t, D) - part /\ part <= Due(t, D)
<1> DEFINE x == <<SourceBridgeNetwork(globalIndex), globalIndex.leafIndex>>
           P == Pending(t, D)
           f == [e \in P |-> Leaf(e).amount]
           Q == Pending(t, D)'
           g == [e \in Q |-> Leaf(e)'.amount]
<1>1. /\ ger \in globalExitRootMap
      /\ globalIndex.leafIndex < Len(ProvenTree(ger, globalIndex))
      /\ leaf = ProvenTree(ger, globalIndex)[globalIndex.leafIndex + 1]
      /\ ClaimBit(n, x[2], x[1]) \notin claimedBitMap[n]
      /\ paid' = [paid EXCEPT ![x] = @ + 1]
  BY DEF VerifyLeaf, IsKnownRoot, SetAndCheckClaimed
<1>2. x \in Exits /\ Leaf(x) = leaf
  BY <1>1, ProvenLeafIsExit DEF BridgeIInv
<1> HIDE DEF x
<1>3. x \in Networks \X LeafIndexes /\ leaf \in Leaves /\ leaf.amount \in Nat
  BY <1>2, ExitsByIndex, LeafFields DEF BridgeIInv
<1>4. paid \in [Networks \X LeafIndexes -> Nat] /\ paid[x] = 0
  <2>1. paid \in [Networks \X LeafIndexes -> Nat] /\ ~(paid[x] > 0)
    BY <1>1, <1>2 DEF BridgeIInv, NullifierOK
  <2> QED BY <1>3, <2>1
<1>5. paid'[x] = 1 /\ \A e \in Exits : e # x => paid'[e] = paid[e]
  <2>1. Exits \subseteq Networks \X LeafIndexes
    BY ExitsByIndex DEF BridgeIInv
  <2> QED BY <1>1, <1>3, <1>4, <2>1
<1>6. Exits' = Exits /\ \A e : Leaf(e)' = Leaf(e)
  <2>1. \A m : Tree(m)' = Tree(m)
    BY DEF Tree
  <2> QED BY <2>1 DEF Exits, Leaf
<1>7. Q = {e \in Exits : /\ paid'[e] = 0 /\ LeafToken(Leaf(e)) = t
                         /\ Leaf(e).destinationNetwork \in D}
  BY <1>6 DEF Pending, UnpaidExits
<1>8. P = {e \in Exits : /\ paid[e] = 0 /\ LeafToken(Leaf(e)) = t
                         /\ Leaf(e).destinationNetwork \in D}
  BY DEF Pending, UnpaidExits
<1>9. Due(t, D) = SumFunctionOnSet(f, P) /\ Due(t, D)' = SumFunctionOnSet(g, Q)
  BY DEF Due, AmountDue
<1>10. Q = P \ {x}
  BY <1>5, <1>7, <1>8
<1>11. IsFiniteSet(Q) /\ \A e \in Q : g[e] \in Int /\ f[e] = g[e]
  <2>1. Q \subseteq Exits /\ Q \subseteq P
    BY <1>7, <1>10
  <2> QED BY <1>6, <2>1, FinitelyManyExits, FS_Subset DEF BridgeIInv
<1>12. Due(t, D) \in Nat /\ \A e \in P : Leaf(e).amount <= Due(t, D)
  BY DueIsNat DEF BridgeIInv
<1>13. CASE LeafToken(leaf) = t /\ n \in D
  <2>1. x \in P /\ f[x] = leaf.amount
    BY <1>2, <1>4, <1>8, <1>13
  <2>2. P = Q \cup {x} /\ x \notin Q
    BY <1>10, <2>1
  <2>3. leaf.amount <= Due(t, D)
    BY <1>2, <1>12, <2>1
  <2> HIDE DEF P, Q, f, g
  <2>4. SumFunctionOnSet(f, P) = SumFunctionOnSet(g, Q) + f[x]
    <3>1. \A e \in Q : f[e] = g[e] /\ g[e] \in Int
      BY <1>11
    <3>2. f[x] \in Int
      BY <1>3, <2>1
    <3> QED BY <1>11, <2>2, <3>1, <3>2, SumExtend
  <2>5. SumFunctionOnSet(g, Q) \in Int
    BY <1>11, SumInt
  <2> QED BY <1>3, <1>9, <1>13, <2>1, <2>2, <2>3, <2>4, <2>5
<1>14. CASE ~(LeafToken(leaf) = t /\ n \in D)
  <2>1. Q = P
    BY <1>2, <1>8, <1>10, <1>14
  <2>2. g = f
    BY <1>6, <2>1
  <2> HIDE DEF P, Q, f, g
  <2> QED BY <1>9, <1>12, <1>14, <2>1, <2>2
<1> QED BY <1>13, <1>14

-----------------------------------------------------------------------------
(* The three ways in which a step moves tokens. *)

Sends(n, to, t, amount, extra) ==
    /\ to # n
    /\ held[n][t] >= amount /\ amount >= Kept(n, t)
    /\ held' = [held EXCEPT ![n][t] = @ - amount]
    /\ custody' = IF IsWrapped(n, t) THEN custody
                  ELSE [custody EXCEPT ![n][t] = @ + (amount - Kept(n, t))]
    /\ given[n][t] >= extra /\ (extra = 0 \/ n = OriginNetwork[t])
    /\ given' = [given EXCEPT ![n][t] = @ - extra]
    /\ \A u \in Tokens, D \in SUBSET Networks :
           Due(u, D)' = Due(u, D) + (IF u = t /\ to \in D
                                     THEN amount - Kept(n, t) + extra ELSE 0)

Gives(n, t, amount) ==
    /\ n = OriginNetwork[t] /\ ~IsWrapped(n, t)
    /\ held[n][t] >= amount /\ amount >= Kept(n, t)
    /\ held' = [held EXCEPT ![n][t] = @ - amount]
    /\ custody' = [custody EXCEPT ![n][t] = @ + (amount - Kept(n, t))]
    /\ given' = [given EXCEPT ![n][t] = @ + (amount - Kept(n, t))]
    /\ \A u \in Tokens, D \in SUBSET Networks : Due(u, D)' = Due(u, D)

Pays(n, t, amount) ==
    /\ amount >= Kept(n, t)
    /\ held' = [held EXCEPT ![n][t] = @ + amount - Kept(n, t)]
    /\ custody' = IF IsWrapped(n, t) THEN custody
                  ELSE [custody EXCEPT ![n][t] = @ - amount]
    /\ UNCHANGED given
    /\ \A u \in Tokens, D \in SUBSET Networks :
           LET part == IF u = t /\ n \in D THEN amount ELSE 0
           IN Due(u, D)' = Due(u, D) - part /\ part <= Due(u, D)

MovesNothing ==
    /\ UNCHANGED <<custody, held, given>>
    /\ \A u \in Tokens, D \in SUBSET Networks : Due(u, D)' = Due(u, D)

Moves ==
    \/ \E n, to \in Networks, t \in Tokens, amount, extra \in Nat :
           Sends(n, to, t, amount, extra)
    \/ \E n \in Networks, t \in Tokens, amount \in Nat : Gives(n, t, amount) \/ Pays(n, t, amount)
    \/ MovesNothing

\* What the bridges were given, in each kind of move.
LEMMA GivenBySend ==
    ASSUME given \in Balances, NEW n \in Networks, NEW to \in Networks, NEW t \in Tokens,
           NEW amount \in Nat, NEW extra \in Nat, Sends(n, to, t, amount, extra)
    PROVE  /\ given' \in Balances
           /\ \A u \in Tokens : /\ Given(u) \in Nat
                                /\ Given(u)' = Given(u) - (IF u = t THEN extra ELSE 0)
<1>1. /\ given[n][t] \in Nat /\ given[n][t] >= extra
      /\ given' = [given EXCEPT ![n][t] = @ - extra]
      /\ extra = 0 \/ n = OriginNetwork[t]
  BY DEF Sends, Balances
<1>2. given[n][t] - extra \in Nat
  BY <1>1
<1>3. given' \in Balances
  BY <1>1, <1>2 DEF Balances
<1>4. /\ given'[n][t] = given[n][t] - extra
      /\ \A m \in Networks, u \in Tokens : m # n \/ u # t => given'[m][u] = given[m][u]
      /\ \A m \in Networks, u \in Tokens : given[m][u] \in Nat
  BY <1>1 DEF Balances
<1>5. ASSUME NEW u \in Tokens
      PROVE  Given(u) \in Nat /\ Given(u)' = Given(u) - (IF u = t THEN extra ELSE 0)
  <2>1. PICK home \in Networks : home = OriginNetwork[u]
    BY NetworksAreFinite
  <2>2. given[home][u] \in Nat /\ Given(u) = given[home][u] /\ Given(u)' = given'[home][u]
    BY <1>4, <2>1 DEF Given
  <2>3. given'[home][u] = given[home][u] - (IF u = t THEN extra ELSE 0)
    <3>1. CASE u = t /\ home = n
      BY <1>4, <3>1
    <3>2. CASE u = t /\ home # n
      BY <1>1, <1>4, <2>1, <2>2, <3>2
    <3>3. CASE u # t
      BY <1>4, <2>2, <3>3
    <3> QED BY <3>1, <3>2, <3>3
  <2> QED BY <2>2, <2>3
<1> QED BY <1>3, <1>5

LEMMA GivenByGift ==
    ASSUME given \in Balances, NEW n \in Networks, NEW t \in Tokens, NEW amount \in Nat,
           Gives(n, t, amount)
    PROVE  /\ given' \in Balances
           /\ \A u \in Tokens :
                  /\ Given(u) \in Nat
                  /\ Given(u)' = Given(u) + (IF u = t THEN amount - Kept(n, t) ELSE 0)
<1>1. PICK rest \in Nat : rest = amount - Kept(n, t)
  BY TypesOfKeeping DEF Gives
<1>2. given' = [given EXCEPT ![n][t] = @ + rest] /\ n = OriginNetwork[t]
  BY <1>1 DEF Gives
<1>3. given' \in Balances
  BY <1>2 DEF Balances
<1>4. /\ given'[n][t] = given[n][t] + rest
      /\ \A m \in Networks, u \in Tokens : m # n \/ u # t => given'[m][u] = given[m][u]
      /\ \A m \in Networks, u \in Tokens : given[m][u] \in Nat
  BY <1>2 DEF Balances
<1>5. ASSUME NEW u \in Tokens
      PROVE  Given(u) \in Nat /\ Given(u)' = Given(u) + (IF u = t THEN rest ELSE 0)
  <2>1. PICK home \in Networks : home = OriginNetwork[u]
    BY NetworksAreFinite
  <2>2. given[home][u] \in Nat /\ Given(u) = given[home][u] /\ Given(u)' = given'[home][u]
    BY <1>4, <2>1 DEF Given
  <2>3. given'[home][u] = given[home][u] + (IF u = t THEN rest ELSE 0)
    BY <1>2, <1>4, <2>1, <2>2
  <2> QED BY <2>2, <2>3
<1> QED BY <1>1, <1>3, <1>5

LEMMA NothingGiven ==
    ASSUME given \in Balances, UNCHANGED given
    PROVE  /\ given' \in Balances
           /\ \A u \in Tokens : Given(u) \in Nat /\ Given(u)' = Given(u)
<1>1. \A u \in Tokens : Given(u) \in Nat
  BY NetworksAreFinite DEF Given, Balances
<1> QED BY <1>1 DEF Given, Balances

\* What is due of a token, as a value for the lemmas about books.
LEMMA AllDue ==
    TreesOK => \A t \in Tokens : /\ AmountDue(UnpaidExits(t)) = Due(t, Networks)
                                 /\ Due(t, Networks) \in Nat
  BY AllPending, DueIsNat DEF Due

LEMMA MovesKeepBooks ==
    ASSUME BridgeIInv, BridgeIInv', BooksOK, given \in Balances, Moves
    PROVE  BooksOK' /\ given' \in Balances
<1>1. /\ custody \in Balances /\ held \in Balances
      /\ custody' \in Balances /\ held' \in Balances
  BY DEF BridgeIInv, FundsOK, Balances
<1>2. ASSUME NEW u \in Tokens
      PROVE  /\ AmountDue(UnpaidExits(u)) = Due(u, Networks)
             /\ AmountDue(UnpaidExits(u))' = Due(u, Networks)'
             /\ Due(u, Networks) \in Nat /\ Due(u, Networks)' \in Nat
  <2>1. (TreesOK => \A t \in Tokens : /\ AmountDue(UnpaidExits(t)) = Due(t, Networks)
                                      /\ Due(t, Networks) \in Nat)'
    BY AllDue, PTL
  <2> QED BY <2>1, AllDue DEF BridgeIInv
<1>3. given' \in Balances /\ \A u \in Tokens : Given(u) \in Nat /\ Given(u)' \in Nat
  <2>1. given' \in Balances
    BY GivenBySend, GivenByGift, NothingGiven DEF Moves, Pays, MovesNothing
  <2>2. \A u \in Tokens : OriginNetwork[u] \in Networks
    BY NetworksAreFinite
  <2> QED BY <2>1, <2>2 DEF Given, Balances
<1> SUFFICES ASSUME NEW u \in Tokens
             PROVE  Books(u, custody', held', Due(u, Networks)' + Given(u)')
  BY <1>2, <1>3 DEF BooksOK, Books, HeldAbroad
<1>4. Books(u, custody, held, Due(u, Networks) + Given(u))
  BY <1>2 DEF BooksOK
<1>5. PICK due \in Nat, gift \in Nat, due2 \in Nat, gift2 \in Nat :
          /\ due = Due(u, Networks) /\ gift = Given(u)
          /\ due2 = Due(u, Networks)' /\ gift2 = Given(u)'
  BY <1>2, <1>3
<1>6. PICK c \in Balances, h \in Balances, d \in Balances, g \in Balances :
          c = custody /\ h = held /\ d = custody' /\ g = held'
  BY <1>1
<1>7. PICK owed \in Nat, owed2 \in Nat : owed = due + gift /\ owed2 = due2 + gift2
  BY <1>5
<1>8. Books(u, c, h, owed)
  BY <1>4, <1>5, <1>6, <1>7
<1>9. ASSUME NEW n \in Networks, NEW t \in Tokens, u # t,
             \A m \in Networks, s \in Tokens :
                 s # t => d[m][s] = c[m][s] /\ g[m][s] = h[m][s]
      PROVE  Books(u, d, g, owed)
  BY <1>8, <1>9, BooksAgree
<1>10. ASSUME NEW n \in Networks, NEW t \in Tokens, NEW amount \in Nat,
              g = [h EXCEPT ![n][t] = @ - amount],
              d = IF IsWrapped(n, t) THEN c
                  ELSE [c EXCEPT ![n][t] = @ + (amount - Kept(n, t))],
              owed2 = owed + (IF u = t THEN amount - Kept(n, t) ELSE 0)
       PROVE  Books(u, d, g, owed2)
  <2>1. CASE u = t
    BY <1>8, <1>10, <2>1, SentBooks
  <2>2. CASE u # t
    <3>1. \A m \in Networks, s \in Tokens :
              s # t => d[m][s] = c[m][s] /\ g[m][s] = h[m][s]
      BY <1>10 DEF Balances
    <3>2. owed2 = owed
      BY <1>10, <2>2
    <3> QED BY <1>9, <2>2, <3>1, <3>2
  <2> QED BY <2>1, <2>2
<1>11. ASSUME NEW n \in Networks, NEW to \in Networks, NEW t \in Tokens, NEW amount \in Nat,
              NEW extra \in Nat, Sends(n, to, t, amount, extra)
       PROVE  Books(u, d, g, owed2)
  <2>1. /\ g = [h EXCEPT ![n][t] = @ - amount]
        /\ d = IF IsWrapped(n, t) THEN c
               ELSE [c EXCEPT ![n][t] = @ + (amount - Kept(n, t))]
    BY <1>6, <1>11 DEF Sends
  <2>2. Kept(n, t) \in Nat
    BY TypesOfKeeping
  <2>3. due2 = due + (IF u = t THEN amount - Kept(n, t) + extra ELSE 0)
    BY <1>5, <1>11 DEF Sends
  <2>4. gift2 = gift - (IF u = t THEN extra ELSE 0)
    BY <1>5, <1>11, GivenBySend
  <2>5. owed2 = owed + (IF u = t THEN amount - Kept(n, t) ELSE 0)
    BY <1>7, <2>2, <2>3, <2>4
  <2> QED BY <1>10, <2>1, <2>5
<1>12. ASSUME NEW n \in Networks, NEW t \in Tokens, NEW amount \in Nat, Gives(n, t, amount)
       PROVE  Books(u, d, g, owed2)
  <2>1. /\ g = [h EXCEPT ![n][t] = @ - amount]
        /\ d = IF IsWrapped(n, t) THEN c
               ELSE [c EXCEPT ![n][t] = @ + (amount - Kept(n, t))]
    BY <1>6, <1>12 DEF Gives
  <2>2. Kept(n, t) \in Nat
    BY TypesOfKeeping
  <2>3. due2 = due
    BY <1>5, <1>12 DEF Gives
  <2>4. gift2 = gift + (IF u = t THEN amount - Kept(n, t) ELSE 0)
    BY <1>5, <1>12, GivenByGift
  <2>5. owed2 = owed + (IF u = t THEN amount - Kept(n, t) ELSE 0)
    BY <1>7, <2>2, <2>3, <2>4
  <2> QED BY <1>10, <2>1, <2>5
<1>13. ASSUME NEW n \in Networks, NEW t \in Tokens, NEW amount \in Nat,
              Pays(n, t, amount)
       PROVE  Books(u, d, g, owed2)
  <2>1. /\ Kept(n, t) \in Nat
        /\ g = [h EXCEPT ![n][t] = @ + amount - Kept(n, t)]
        /\ d = IF IsWrapped(n, t) THEN c ELSE [c EXCEPT ![n][t] = @ - amount]
    BY <1>6, <1>13, TypesOfKeeping DEF Pays
  <2>2. /\ due2 = due - (IF u = t THEN amount ELSE 0)
        /\ u = t => amount <= due
    BY <1>5, <1>13 DEF Pays
  <2>3. gift2 = gift
    BY <1>5, <1>13, NothingGiven DEF Pays
  <2>4. /\ owed2 = owed - (IF u = t THEN amount ELSE 0)
        /\ u = t => amount <= owed
    BY <1>7, <2>2, <2>3
  <2>5. CASE u = t
    BY <1>8, <2>1, <2>4, <2>5, PaidBooks
  <2>6. CASE u # t
    <3>1. \A m \in Networks, s \in Tokens :
              s # t => d[m][s] = c[m][s] /\ g[m][s] = h[m][s]
      BY <2>1 DEF Balances
    <3>2. owed2 = owed
      BY <2>4, <2>6
    <3> QED BY <1>9, <2>6, <3>1, <3>2
  <2> QED BY <2>5, <2>6
<1>14. CASE MovesNothing
  <2>1. due2 = due /\ gift2 = gift
    BY <1>5, <1>14, NothingGiven DEF MovesNothing
  <2> QED BY <1>5, <1>6, <1>7, <1>8, <1>14, <2>1 DEF MovesNothing
<1> QED BY <1>3, <1>5, <1>6, <1>7, <1>11, <1>12, <1>13, <1>14 DEF Moves

-----------------------------------------------------------------------------
(* The lock. *)

\* Calls that hold no lock come and go, and nothing moves a network's own tokens.
LEMMA LockStays ==
    ASSUME LockOK, FundsOK, FundsOK',
           \A n \in Networks, t \in Tokens : IsOwn(n, t) => custody'[n][t] = custody[n][t],
           UNCHANGED given,
           \A i \in 1..Len(calls') : Locks(calls'[i]) => i \in 1..Len(calls) /\ calls'[i] = calls[i]
    PROVE  LockOK'
<1>1. ASSUME NEW i \in 1..Len(calls'), calls'[i].function = "bridgeAsset"
      PROVE  OpenTransferOK(calls'[i], custody', given')
  <2>1. i \in 1..Len(calls) /\ calls'[i] = calls[i]
    BY <1>1 DEF Locks
  <2>2. OpenTransferOK(calls[i], custody, given)
    BY <1>1, <2>1 DEF LockOK
  <2>3. calls[i] \in OpenCalls
    BY <2>1 DEF FundsOK
  <2>4. calls[i].network \in Networks /\ calls[i].token \in Tokens
    BY <1>1, <2>1, <2>3 DEF OpenCalls
  <2> QED BY <2>1, <2>2, <2>4 DEF OpenTransferOK
<1>2. \A i, j \in 1..Len(calls') : Locks(calls'[i]) /\ Locks(calls'[j]) => i = j
  BY DEF LockOK
<1> QED BY <1>1, <1>2 DEF LockOK, Locks, OpenTransferOK, IsOwn, IsCoin

\* A call that enters while nobody holds the lock.
LEMMA LockTaken ==
    ASSUME FundsOK, ~Entered, NEW call, Open(call),
           call.function = "bridgeAsset" => OpenTransferOK(call, custody', given')
    PROVE  LockOK'
<1>1. calls \in Seq(OpenCalls) /\ calls' = Append(calls, call)
  BY DEF FundsOK, Open
<1>2. /\ Len(calls') = Len(calls) + 1 /\ calls'[Len(calls) + 1] = call
      /\ \A i \in 1..Len(calls) : calls'[i] = calls[i]
      /\ Len(calls) \in Nat
  BY <1>1
<1>3. \A i \in 1..Len(calls') : Locks(calls'[i]) => i = Len(calls) + 1
  BY <1>2 DEF Entered, Locks
<1>4. \A i \in 1..Len(calls') :
          calls'[i].function = "bridgeAsset" => OpenTransferOK(calls'[i], custody', given')
  BY <1>2, <1>3 DEF Locks
<1> QED BY <1>3, <1>4 DEF LockOK, Locks, OpenTransferOK, IsOwn, IsCoin

\* Nobody holds the lock.
LEMMA LockFree ==
    ASSUME \A i \in 1..Len(calls') : ~Locks(calls'[i])
    PROVE  LockOK'
  BY DEF LockOK, Locks

LEMMA Front ==
    ASSUME FundsOK, calls # <<>>, Close
    PROVE  /\ Len(calls) \in Nat /\ Len(calls) \in 1..Len(calls)
           /\ Len(calls') = Len(calls) - 1
           /\ \A i \in 1..Len(calls') : i \in 1..Len(calls) /\ i # Len(calls)
                                        /\ calls'[i] = calls[i]
<1>1. calls \in Seq(OpenCalls) /\ Len(calls) \in Nat /\ Len(calls) # 0
  BY DEF FundsOK
<1>2. /\ Len(calls') = Len(calls) - 1
      /\ \A i \in 1..(Len(calls) - 1) : calls'[i] = calls[i]
  <2>1. PICK k \in Nat : k = Len(calls) - 1
    BY <1>1
  <2>2. calls' = SubSeq(calls, 1, k) /\ k <= Len(calls)
    BY <1>1, <2>1 DEF Close
  <2>3. Len(calls') = k /\ \A i \in 1..k : calls'[i] = calls[i]
    BY <1>1, <2>2
  <2> QED BY <2>1, <2>3
<1> QED BY <1>1, <1>2

-----------------------------------------------------------------------------
(* Each step moves tokens in one of these ways, and keeps the lock. *)

LEMMA Sent ==
    ASSUME BridgeIInv, NEW n \in Networks, NEW to \in Networks, NEW t \in Tokens,
           NEW amount \in Nat, NEW extra \in Nat, NEW leaf \in Leaves, NEW force \in BOOLEAN,
           to # n, held[n][t] >= amount, amount >= Kept(n, t),
           held' = [held EXCEPT ![n][t] = @ - amount],
           custody' = IF IsWrapped(n, t) THEN custody
                      ELSE [custody EXCEPT ![n][t] = @ + (amount - Kept(n, t))],
           given[n][t] >= extra, extra = 0 \/ n = OriginNetwork[t],
           given' = [given EXCEPT ![n][t] = @ - extra],
           LeafToken(leaf) = t, leaf.destinationNetwork = to,
           leaf.amount = amount - Kept(n, t) + extra,
           AddLeafBridge(n, leaf, force), UNCHANGED paid
    PROVE  Moves
<1>1. \A u \in Tokens, D \in SUBSET Networks :
          Due(u, D)' = Due(u, D) + (IF u = t /\ to \in D
                                    THEN amount - Kept(n, t) + extra ELSE 0)
  BY DueGrows
<1>2. Sends(n, to, t, amount, extra)
  BY <1>1 DEF Sends
<1> QED BY <1>2 DEF Moves

LEMMA NothingTaken ==
    ASSUME given \in Balances, UNCHANGED given, NEW n \in Networks, NEW t \in Tokens
    PROVE  given[n][t] >= 0 /\ given' = [given EXCEPT ![n][t] = @ - 0]
<1>1. given[n][t] \in Nat /\ given[n][t] - 0 = given[n][t]
  BY DEF Balances
<1> QED BY <1>1 DEF Balances

LEMMA Paid ==
    ASSUME BridgeIInv, NEW n \in Networks, NEW t \in Tokens, NEW ger,
           NEW globalIndex \in GlobalIndexes, NEW leaf,
           VerifyLeaf(n, ger, globalIndex, leaf), leaf.destinationNetwork = n,
           LeafToken(leaf) = t, PayOut(n, t, leaf.amount),
           UNCHANGED <<exitVars, localExitTree, given>>
    PROVE  Moves
<1>1. UNCHANGED <<exitTree, localExitTree>>
  BY DEF exitVars
<1>2. leaf.amount \in Nat
  <2>1. /\ ger \in globalExitRootMap
        /\ globalIndex.leafIndex < Len(ProvenTree(ger, globalIndex))
        /\ leaf = ProvenTree(ger, globalIndex)[globalIndex.leafIndex + 1]
    BY DEF VerifyLeaf, IsKnownRoot
  <2>2. PICK x \in Exits : Leaf(x) = leaf
    BY <2>1, ProvenLeafIsExit DEF BridgeIInv
  <2>3. leaf \in Leaves
    BY <2>2, ExitsByIndex DEF BridgeIInv
  <2> QED BY <2>3, LeafFields
<1>3. PICK amount \in Nat : amount = leaf.amount
  BY <1>2
<1>4. amount >= Kept(n, t)
  BY <1>3, KnownTokens DEF PayOut, Kept, IsOwn, IsWrapped
<1>5. \A u \in Tokens, D \in SUBSET Networks :
          LET part == IF u = t /\ n \in D THEN amount ELSE 0
          IN Due(u, D)' = Due(u, D) - part /\ part <= Due(u, D)
  BY <1>1, <1>3, DueShrinks
<1>6. /\ held' = [held EXCEPT ![n][t] = @ + amount - Kept(n, t)]
      /\ custody' = IF IsWrapped(n, t) THEN custody
                    ELSE [custody EXCEPT ![n][t] = @ - amount]
  BY <1>3 DEF PayOut, Kept
<1>7. Pays(n, t, amount)
  BY <1>4, <1>5, <1>6 DEF Pays
<1> QED BY <1>7 DEF Moves

\* A step that leaves trees, payments and balances alone.
LEMMA Idle ==
    ASSUME UNCHANGED <<exitTree, localExitTree, paid, custody, held, given>>
    PROVE  Moves
<1>1. \A u, D : Due(u, D)' = Due(u, D)
  BY DueStays
<1> QED BY <1>1 DEF Moves, MovesNothing

\* Coins and wrapped tokens are sent in full.
LEMMA CoinOrWrappedTaken ==
    ASSUME FundsOK, NEW n \in Networks, NEW t \in Tokens, NEW amount \in Nat,
           ~IsOwn(n, t), TakeCoinOrWrapped(n, t, amount)
    PROVE  /\ Kept(n, t) = 0 /\ amount - Kept(n, t) = amount /\ amount >= Kept(n, t)
           /\ held[n][t] >= amount
           /\ held' = [held EXCEPT ![n][t] = @ - amount]
           /\ custody' = IF IsWrapped(n, t) THEN custody
                         ELSE [custody EXCEPT ![n][t] = @ + (amount - Kept(n, t))]
           /\ \A m \in Networks, u \in Tokens : IsOwn(m, u) => custody'[m][u] = custody[m][u]
<1>1. Kept(n, t) = 0 /\ amount - Kept(n, t) = amount /\ amount >= Kept(n, t)
  BY DEF Kept
<1>2. IsCoin(n, t) <=> ~IsWrapped(n, t)
  BY DEF IsCoin, IsOwn, IsWrapped
<1>3. /\ held[n][t] >= amount /\ held' = [held EXCEPT ![n][t] = @ - amount]
      /\ custody' = IF IsWrapped(n, t) THEN custody
                    ELSE [custody EXCEPT ![n][t] = @ + amount]
  BY <1>2 DEF TakeCoinOrWrapped
<1>4. \A m \in Networks, u \in Tokens : IsOwn(m, u) => custody'[m][u] = custody[m][u]
  BY <1>3 DEF FundsOK
<1> QED BY <1>1, <1>3, <1>4

LEMMA EtherIsNoOwnToken == \A n \in Networks : ~IsOwn(n, Ether) /\ ~IsOwn(n, GasToken[n])
  BY BridgeAssumption DEF IsOwn, IsCoin

LEMMA BridgeAssetSupply ==
    ASSUME SupplyIInv, NEW n \in Networks, NEW t \in Tokens, NEW amount \in Amounts,
           NEW destination \in Networks, NEW force \in BOOLEAN,
           BridgeAsset(n, t, amount, destination, force)
    PROVE  Moves /\ LockOK'
<1> DEFINE leaf == Asset(t, destination, amount)
<1>1. /\ destination # n /\ ~IsOwn(n, t) /\ ~Entered
      /\ TakeCoinOrWrapped(n, t, amount)
      /\ AddLeafBridge(n, leaf, force)
      /\ UNCHANGED <<calls, paid, given>>
  BY DEF BridgeAsset, ValidDestination, IsOwn, IsWrapped
<1>2. amount \in Nat /\ leaf \in Leaves /\ LeafToken(leaf) = t
      /\ leaf.destinationNetwork = destination /\ leaf.amount = amount
  BY KnownTokens, LeafOfAsset DEF Asset, LeafToken
<1> HIDE DEF leaf
<1>3. Moves
  <2>1. /\ LeafToken(leaf) = t /\ leaf.amount = amount - Kept(n, t) + 0 /\ BridgeIInv
        /\ destination # n /\ amount \in Nat
    BY <1>1, <1>2, CoinOrWrappedTaken DEF SupplyIInv, BridgeIInv
  <2>2. /\ held[n][t] >= amount /\ amount >= Kept(n, t)
        /\ held' = [held EXCEPT ![n][t] = @ - amount]
        /\ custody' = IF IsWrapped(n, t) THEN custody
                      ELSE [custody EXCEPT ![n][t] = @ + (amount - Kept(n, t))]
    BY <1>1, <1>2, CoinOrWrappedTaken DEF SupplyIInv, BridgeIInv
  <2>3. leaf \in Leaves /\ leaf.destinationNetwork = destination
        /\ AddLeafBridge(n, leaf, force) /\ UNCHANGED paid
    BY <1>1, <1>2
  <2>4. given[n][t] >= 0 /\ given' = [given EXCEPT ![n][t] = @ - 0]
    BY <1>1, NothingTaken DEF SupplyIInv
  <2> QED BY <2>1, <2>2, <2>3, <2>4, Sent
<1>4. LockOK'
  BY <1>1, LockFree DEF Entered, Locks
<1> QED BY <1>3, <1>4

LEMMA BeginBridgeAssetSupply ==
    ASSUME SupplyIInv, NEW n \in Networks, NEW t \in Tokens, NEW amount \in Amounts,
           NEW destination \in Networks,
           BeginBridgeAsset(n, t, amount, destination)
    PROVE  Moves /\ LockOK'
<1> DEFINE call == [function |-> "bridgeAsset", network |-> n, token |-> t, amount |-> amount,
                    destination |-> destination, balanceBefore |-> custody[n][t]]
<1>1. /\ ~Entered /\ Open(call) /\ IsOwn(n, t) /\ amount >= TransferFee[t]
      /\ UNCHANGED <<exitVars, localExitTree, custody, held, paid, given>>
  BY DEF BeginBridgeAsset
<1>2. Moves
  BY <1>1, Idle DEF exitVars
<1>3. OpenTransferOK(call, custody', given')
  <2>1. custody[n][t] \in Nat /\ given[n][t] \in Nat
    BY DEF SupplyIInv, BridgeIInv, FundsOK, Balances
  <2>2. /\ call.network = n /\ call.token = t /\ call.amount = amount
        /\ call.balanceBefore = custody[n][t]
    OBVIOUS
  <2> QED BY <1>1, <2>1, <2>2 DEF OpenTransferOK
<1> HIDE DEF call
<1>4. LockOK'
  BY <1>1, <1>3, LockTaken DEF SupplyIInv, BridgeIInv
<1> QED BY <1>2, <1>4

\* What comes in while a bridgeAsset measures was given.
LEMMA TransferToBridgeSupply ==
    ASSUME SupplyIInv, NEW n \in Networks, NEW t \in Tokens, NEW amount \in Amounts,
           TransferToBridge(n, t, amount)
    PROVE  Moves /\ LockOK'
<1>1. /\ amount \in Nat /\ IsOwn(n, t) /\ amount >= Kept(n, t) /\ held[n][t] >= amount
      /\ held' = [held EXCEPT ![n][t] = @ - amount]
      /\ custody' = [custody EXCEPT ![n][t] = @ + (amount - Kept(n, t))]
      /\ given' = [given EXCEPT ![n][t] = @ + (amount - Kept(n, t))]
      /\ UNCHANGED <<exitTree, localExitTree, calls, paid>>
  BY KnownTokens DEF TransferToBridge, Kept, exitVars
<1>2. PICK rest \in Nat : rest = amount - Kept(n, t)
  BY <1>1, TypesOfKeeping
<1>3. Moves
  <2>1. \A u, D : Due(u, D)' = Due(u, D)
    BY <1>1, DueStays
  <2>2. Gives(n, t, amount)
    BY <1>1, <2>1 DEF Gives, IsOwn, IsWrapped
  <2> QED BY <1>1, <2>2 DEF Moves
<1>4. /\ custody \in Balances /\ given \in Balances /\ calls \in Seq(OpenCalls) /\ LockOK
  BY DEF SupplyIInv, BridgeIInv, FundsOK, Balances
<1>5. \A m \in Networks, u \in Tokens :
          LET in == IF m = n /\ u = t THEN rest ELSE 0
          IN /\ custody[m][u] \in Nat /\ custody'[m][u] = custody[m][u] + in
             /\ given[m][u] \in Nat /\ given'[m][u] = given[m][u] + in
  BY <1>1, <1>2, <1>4 DEF Balances
<1>6. ASSUME NEW i \in 1..Len(calls), calls[i].function = "bridgeAsset"
      PROVE  OpenTransferOK(calls[i], custody', given')
  <2>1. OpenTransferOK(calls[i], custody, given) /\ calls[i] \in OpenCalls
    BY <1>4, <1>6 DEF LockOK
  <2>2. PICK m \in Networks, u \in Tokens, before \in Nat :
            m = calls[i].network /\ u = calls[i].token /\ before = calls[i].balanceBefore
    BY <1>6, <2>1 DEF OpenCalls
  <2>3. before <= custody[m][u] /\ custody[m][u] - before <= given[m][u]
    BY <2>1, <2>2 DEF OpenTransferOK
  <2>4. PICK in \in Nat : /\ custody[m][u] \in Nat /\ custody'[m][u] = custody[m][u] + in
                         /\ given[m][u] \in Nat /\ given'[m][u] = given[m][u] + in
    BY <1>2, <1>5
  <2>5. before <= custody'[m][u] /\ custody'[m][u] - before <= given'[m][u]
    BY <2>3, <2>4
  <2> QED BY <2>1, <2>2, <2>5 DEF OpenTransferOK
<1>7. LockOK'
  <2>1. calls' = calls
    BY <1>1
  <2> QED BY <1>4, <1>6, <2>1 DEF LockOK, Locks
<1> QED BY <1>3, <1>7

LEMMA EndBridgeAssetSupply ==
    ASSUME SupplyIInv, NEW force \in BOOLEAN, EndBridgeAsset(force)
    PROVE  Moves /\ LockOK'
<1>1. calls # <<>> /\ Close /\ FundsOK /\ UNCHANGED paid
  BY DEF EndBridgeAsset, SupplyIInv, BridgeIInv
<1>2. /\ Len(calls) \in 1..Len(calls)
      /\ \A i \in 1..Len(calls') : i \in 1..Len(calls) /\ i # Len(calls)
                                   /\ calls'[i] = calls[i]
  BY <1>1, Front
<1>3. PICK c \in OpenCalls : c = calls[Len(calls)] /\ c.function = "bridgeAsset"
  BY <1>1, <1>2 DEF EndBridgeAsset, FundsOK
<1>4. /\ c.network \in Networks /\ c.token \in Tokens
      /\ c.destination \in Networks \ {c.network} /\ c.balanceBefore \in Nat
  BY <1>3 DEF OpenCalls
<1>5. OpenTransferOK(c, custody, given)
  BY <1>2, <1>3 DEF SupplyIInv, LockOK
<1>6. LockOK'
  <2>1. \A i \in 1..Len(calls') : ~Locks(calls'[i])
    BY <1>2, <1>3 DEF SupplyIInv, LockOK, Locks
  <2> QED BY <2>1, LockFree
<1>7. PICK n \in Networks, t \in Tokens, amount \in Nat, to \in Networks, before \in Nat :
          /\ n = c.network /\ t = c.token /\ amount = c.amount /\ to = c.destination
          /\ before = c.balanceBefore
  BY <1>3, <1>4 DEF OpenCalls
<1>8. /\ held[n][t] >= amount
      /\ held' = [held EXCEPT ![n][t] = @ - amount]
      /\ custody' = [custody EXCEPT ![n][t] = @ + (amount - TransferFee[t])]
      /\ AddLeafBridge(n, Asset(t, to, AmountReceived(c)), force)
      /\ given' = [given EXCEPT ![n][t] = @ - (custody[n][t] - before)]
  BY <1>3, <1>7 DEF EndBridgeAsset
<1>9. /\ Kept(n, t) = TransferFee[t] /\ amount >= Kept(n, t) /\ ~IsWrapped(n, t)
      /\ to # n /\ n = OriginNetwork[t]
  BY <1>4, <1>5, <1>7 DEF OpenTransferOK, Kept, IsOwn, IsWrapped
<1>10. PICK extra \in Nat : extra = custody[n][t] - before /\ extra <= given[n][t]
  <2>1. custody[n][t] \in Nat /\ given[n][t] \in Nat
    BY DEF SupplyIInv, BridgeIInv, FundsOK, Balances
  <2>2. before <= custody[n][t] /\ custody[n][t] - before <= given[n][t]
    BY <1>5, <1>7 DEF OpenTransferOK
  <2> QED BY <2>1, <2>2
<1>11. PICK received \in Nat : /\ received = amount - Kept(n, t) + extra
                               /\ received = AmountReceived(c)
  <2>1. custody \in [Networks -> [Tokens -> Nat]] /\ custody[n][t] \in Nat
        /\ amount \in Nat /\ Kept(n, t) \in Nat
    BY <1>1, TypesOfKeeping DEF FundsOK
  <2>2. custody'[n][t] = custody[n][t] + (amount - Kept(n, t))
    BY <1>8, <1>9, <2>1
  <2>3. AmountReceived(c) = custody'[n][t] - before
    BY <1>7 DEF AmountReceived
  <2> QED BY <1>9, <1>10, <2>1, <2>2, <2>3
<1> DEFINE leaf == Asset(t, to, received)
<1>12. /\ leaf \in Leaves /\ LeafToken(leaf) = t
       /\ leaf.destinationNetwork = to /\ leaf.amount = received
  BY LeafOfAsset DEF Asset, LeafToken
<1>13. AddLeafBridge(n, leaf, force)
  BY <1>8, <1>11
<1> HIDE DEF leaf
<1>14. Moves
  <2>1. custody' = IF IsWrapped(n, t) THEN custody
                   ELSE [custody EXCEPT ![n][t] = @ + (amount - Kept(n, t))]
    BY <1>8, <1>9
  <2>2. /\ leaf.amount = amount - Kept(n, t) + extra /\ BridgeIInv /\ to # n
        /\ amount >= Kept(n, t) /\ UNCHANGED paid
    BY <1>1, <1>9, <1>11, <1>12 DEF SupplyIInv
  <2>3. held[n][t] >= amount /\ held' = [held EXCEPT ![n][t] = @ - amount]
    BY <1>8
  <2>4. /\ given[n][t] >= extra /\ n = OriginNetwork[t]
        /\ given' = [given EXCEPT ![n][t] = @ - extra]
    <3>1. given[n][t] \in Nat
      BY DEF SupplyIInv, Balances
    <3> QED BY <1>8, <1>9, <1>10, <3>1
  <2> QED BY <1>12, <1>13, <2>1, <2>2, <2>3, <2>4, Sent
<1> QED BY <1>6, <1>14

\* A message carries ether, as the coin or wrapped, or it carries nothing.
LEMMA BridgeMessageSupply ==
    ASSUME SupplyIInv, NEW n \in Networks, NEW amount \in Amounts,
           NEW destination \in Networks, NEW force \in BOOLEAN,
           \/ BridgeMessage(n, amount, destination, force)
           \/ BridgeMessageWETH(n, amount, destination, force)
    PROVE  Moves /\ LockOK'
<1> DEFINE leaf == Message(n, destination, amount)
<1>1. /\ destination # n /\ AddLeafBridge(n, leaf, force)
      /\ UNCHANGED <<calls, paid, given>> /\ FundsOK /\ given \in Balances
  BY DEF BridgeMessage, BridgeMessageWETH, ValidDestination, SupplyIInv, BridgeIInv
<1>2. PICK t \in Tokens : /\ TakeCoinOrWrapped(n, t, amount) /\ ~IsOwn(n, t)
                          /\ t = Ether \/ amount = 0
  BY KnownTokens, EtherIsNoOwnToken DEF BridgeMessage, BridgeMessageWETH, ValueIsEther
<1>3. amount \in Nat /\ leaf \in Leaves /\ LeafToken(leaf) = Ether
      /\ leaf.destinationNetwork = destination /\ leaf.amount = amount
  BY KnownTokens, LeafOfMessage DEF Message, LeafToken
<1> HIDE DEF leaf
<1>4. /\ Kept(n, t) = 0 /\ amount - Kept(n, t) = amount /\ amount >= Kept(n, t)
      /\ held[n][t] >= amount
      /\ held' = [held EXCEPT ![n][t] = @ - amount]
      /\ custody' = IF IsWrapped(n, t) THEN custody
                    ELSE [custody EXCEPT ![n][t] = @ + (amount - Kept(n, t))]
      /\ \A m \in Networks, u \in Tokens : IsOwn(m, u) => custody'[m][u] = custody[m][u]
  BY <1>1, <1>2, <1>3, CoinOrWrappedTaken
<1>5. Moves
  <2>1. CASE t = Ether
    <3>1. LeafToken(leaf) = t /\ leaf.amount = amount - Kept(n, t) + 0 /\ BridgeIInv
      BY <1>3, <1>4, <2>1 DEF SupplyIInv
    <3>2. /\ destination # n /\ held[n][t] >= amount /\ amount >= Kept(n, t)
          /\ held' = [held EXCEPT ![n][t] = @ - amount]
          /\ custody' = IF IsWrapped(n, t) THEN custody
                        ELSE [custody EXCEPT ![n][t] = @ + (amount - Kept(n, t))]
      BY <1>1, <1>4
    <3>3. leaf \in Leaves /\ leaf.destinationNetwork = destination
          /\ AddLeafBridge(n, leaf, force) /\ UNCHANGED paid
      BY <1>1, <1>3
    <3>4. given[n][t] >= 0 /\ given' = [given EXCEPT ![n][t] = @ - 0]
      BY <1>1, NothingTaken
    <3> QED BY <1>3, <3>1, <3>2, <3>3, <3>4, Sent
  <2>2. CASE amount = 0
    <3>1. UNCHANGED <<custody, held>>
      <4>1. custody \in [Networks -> [Tokens -> Nat]] /\ held \in [Networks -> [Tokens -> Nat]]
        BY <1>1 DEF FundsOK
      <4>2. /\ held[n][t] - amount = held[n][t]
            /\ custody[n][t] + (amount - Kept(n, t)) = custody[n][t]
        BY <1>4, <2>2, <4>1
      <4> QED BY <1>4, <4>1, <4>2
    <3>2. ASSUME NEW u \in Tokens, NEW D \in SUBSET Networks
          PROVE  Due(u, D)' = Due(u, D)
      <4>1. Due(u, D)' = Due(u, D)
                             + (IF LeafToken(leaf) = u /\ leaf.destinationNetwork \in D
                                THEN leaf.amount ELSE 0)
        BY <1>1, <1>3, DueGrows DEF SupplyIInv
      <4>2. Due(u, D) \in Nat
        BY DueIsNat DEF SupplyIInv, BridgeIInv
      <4> QED BY <1>3, <2>2, <4>1, <4>2
    <3> QED BY <1>1, <3>1, <3>2 DEF Moves, MovesNothing
  <2> QED BY <1>2, <2>1, <2>2
<1>6. LockOK'
  <2>1. FundsOK'
    BY <1>1, <1>2, <1>3, Taken DEF FundsOK, OpenCalls
  <2> QED BY <1>1, <1>4, <2>1, LockStays DEF SupplyIInv
<1> QED BY <1>5, <1>6

LEMMA ClaimAssetSupply ==
    ASSUME SupplyIInv, NEW n \in Networks, NEW ger, NEW globalIndex \in GlobalIndexes, NEW leaf,
           ClaimAsset(n, ger, globalIndex, leaf)
    PROVE  Moves /\ LockOK'
<1>1. /\ ~Entered /\ leaf.leafType = "asset" /\ leaf.destinationNetwork = n
      /\ VerifyLeaf(n, ger, globalIndex, leaf)
      /\ PayOut(n, leaf.token, leaf.amount)
      /\ UNCHANGED calls \/ Open([function |-> "claimAsset", network |-> n])
      /\ UNCHANGED <<exitVars, localExitTree, given>>
  BY DEF ClaimAsset
<1>2. UNCHANGED <<exitTree, localExitTree, globalExitRootMap>>
  BY <1>1 DEF exitVars
<1>3. leaf \in Leaves
  BY <1>1, <1>2, LeafClaimed DEF SupplyIInv, BridgeIInv
<1>4. leaf.token \in Tokens /\ LeafToken(leaf) = leaf.token
  BY <1>1, <1>3, LeafFields DEF LeafToken
<1>5. Moves
  BY <1>1, <1>4, Paid DEF SupplyIInv
<1>6. LockOK'
  <2>1. CASE UNCHANGED calls
    BY <1>1, <2>1, LockFree DEF Entered, Locks
  <2>2. CASE Open([function |-> "claimAsset", network |-> n])
    <3> DEFINE call == [function |-> "claimAsset", network |-> n]
    <3>1. Open(call) /\ call.function # "bridgeAsset"
      BY <2>2
    <3> HIDE DEF call
    <3> QED BY <1>1, <3>1, LockTaken DEF SupplyIInv, BridgeIInv
  <2> QED BY <1>1, <2>1, <2>2
<1> QED BY <1>5, <1>6

LEMMA ClaimMessageSupply ==
    ASSUME SupplyIInv, BridgeIInv', NEW n \in Networks, NEW ger,
           NEW globalIndex \in GlobalIndexes, NEW leaf,
           ClaimMessage(n, ger, globalIndex, leaf)
    PROVE  Moves /\ LockOK'
<1> DEFINE call == [function |-> "claimMessage", network |-> n]
<1>1. /\ leaf.leafType = "message" /\ leaf.destinationNetwork = n
      /\ VerifyLeaf(n, ger, globalIndex, leaf)
      /\ PayOut(n, Ether, leaf.amount)
      /\ Open(call)
      /\ UNCHANGED <<exitVars, localExitTree, given>>
  BY DEF ClaimMessage
<1>2. LeafToken(leaf) = Ether
  BY <1>1 DEF LeafToken
<1>3. Moves
  BY <1>1, <1>2, KnownTokens, Paid DEF SupplyIInv
<1>4. /\ FundsOK /\ FundsOK' /\ LockOK
  BY DEF SupplyIInv, BridgeIInv
<1>5. \A m \in Networks, u \in Tokens : IsOwn(m, u) => custody'[m][u] = custody[m][u]
  BY <1>1, <1>4, EtherIsNoOwnToken DEF PayOut, FundsOK
<1>6. ~Locks(call)
  BY DEF Locks
<1> HIDE DEF call
<1>7. \A i \in 1..Len(calls') :
          Locks(calls'[i]) => i \in 1..Len(calls) /\ calls'[i] = calls[i]
  <2>1. calls \in Seq(OpenCalls) /\ calls' = Append(calls, call)
    BY <1>1, <1>4 DEF FundsOK, Open
  <2>2. /\ Len(calls') = Len(calls) + 1 /\ calls'[Len(calls) + 1] = call
        /\ \A i \in 1..Len(calls) : calls'[i] = calls[i]
        /\ Len(calls) \in Nat
    BY <2>1
  <2> QED BY <1>6, <2>2
<1>8. LockOK'
  BY <1>1, <1>4, <1>5, <1>7, LockStays
<1> QED BY <1>3, <1>8

LEMMA ReturnSupply ==
    ASSUME SupplyIInv, BridgeIInv', ReturnFromReceiver
    PROVE  Moves /\ LockOK'
<1>1. /\ calls # <<>> /\ Close /\ FundsOK /\ FundsOK' /\ LockOK
      /\ UNCHANGED <<exitVars, localExitTree, custody, held, paid, given>>
  BY DEF ReturnFromReceiver, SupplyIInv, BridgeIInv
<1>2. \A i \in 1..Len(calls') : i \in 1..Len(calls) /\ calls'[i] = calls[i]
  BY <1>1, Front
<1>3. LockOK'
  BY <1>1, <1>2, LockStays
<1> QED BY <1>1, <1>3, Idle DEF exitVars

\* Settling and publishing roots, emergencies and stuttering move no token.
LEMMA RootsSupply ==
    ASSUME SupplyIInv, BridgeIInv',
           \/ \E r \in Rollups, length \in 1..MaxDeposits : SettleLocalExitRoot(r, length)
           \/ PublishExits \/ MainnetEmergency \/ UNCHANGED bridgeSystemVars
    PROVE  Moves /\ LockOK'
<1>1. UNCHANGED <<exitTree, localExitTree, custody, held, calls, paid, given>>
  BY DEF SettleLocalExitRoot, ReportRollupExitRoot, bridgeVars, PublishExits,
         UpdateGlobalExitRoot, MainnetEmergency, SetBridgeEmergency, bridgeSystemVars, exitVars
<1>2. LockOK'
  BY <1>1, LockStays DEF SupplyIInv, BridgeIInv
<1> QED BY <1>1, <1>2, Idle

LEMMA SupplyStep ==
    ASSUME SupplyIInv, [SystemNext]_bridgeSystemVars
    PROVE  SupplyIInv' /\ Moves
<1>1. BridgeIInv'
  BY BridgeIInvStep DEF SupplyIInv
<1>2. ASSUME NEW n \in Networks, Bridge(n)
      PROVE  Moves /\ LockOK'
  BY <1>2, BridgeAssetSupply, BeginBridgeAssetSupply, BridgeMessageSupply DEF Bridge
<1>3. ASSUME NEW n \in Networks, Claim(n)
      PROVE  Moves /\ LockOK'
  BY <1>1, <1>3, ClaimAssetSupply, ClaimMessageSupply DEF Claim
<1>4. Moves /\ LockOK'
  BY <1>1, <1>2, <1>3, TransferToBridgeSupply, EndBridgeAssetSupply, ReturnSupply, RootsSupply
     DEF SystemNext
<1>5. BooksOK' /\ given' \in Balances
  BY <1>1, <1>4, MovesKeepBooks DEF SupplyIInv
<1> QED BY <1>1, <1>4, <1>5 DEF SupplyIInv

LEMMA SupplyInit == SystemInit => SupplyIInv
<1> SUFFICES ASSUME SystemInit PROVE SupplyIInv
  OBVIOUS
<1>1. BridgeIInv
  BY BridgeIInvInit
<1>2. Exits = {}
  <2>1. exitTree = <<>> /\ localExitTree = [r \in Rollups |-> <<>>]
    BY DEF SystemInit, ExitInit
  <2>2. \A n \in Networks : Tree(n) = <<>>
    BY <2>1 DEF Tree, Networks
  <2>3. \A n \in Networks : 0..(Len(Tree(n)) - 1) = {}
    BY <2>2
  <2> QED BY <2>3 DEF Exits
<1>3. LockOK
  <2>1. calls = <<>>
    BY DEF SystemInit
  <2> QED BY <2>1 DEF LockOK
<1>4. ASSUME NEW t \in Tokens
      PROVE  Books(t, custody, held, AmountDue(UnpaidExits(t)) + Given(t))
  <2> DEFINE home == OriginNetwork[t]
             f == [n \in Abroad(t) |-> held[n][t]]
  <2>1. /\ held = InitialHeld
        /\ custody = [n \in Networks |-> [u \in Tokens |->
                         IF n \in Rollups /\ GasToken[n] = u THEN Prefund ELSE 0]]
    BY DEF SystemInit
  <2>2. home \in Networks /\ IsFiniteSet(Abroad(t))
    BY NetworksAreFinite
  <2>3. AmountDue(UnpaidExits(t)) = 0
    <3>1. UnpaidExits(t) = {}
      BY <1>2 DEF UnpaidExits
    <3> QED BY <3>1, SumOfNone DEF AmountDue
  <2>4. HeldAbroad(t, held) = 0
    <3>1. \A n \in Abroad(t) : f[n] = 0
      BY <2>1, SupplyAssumption DEF Abroad
    <3> HIDE DEF f
    <3>2. SumFunctionOnSet(f, Abroad(t)) = 0
      BY <2>2, <3>1, SumOfZeros
    <3> QED BY <3>2 DEF HeldAbroad, f
  <2>5. custody[home][t] = 0 /\ Given(t) = 0
    <3>1. ~(home \in Rollups /\ GasToken[home] = t)
      BY BridgeAssumption
    <3>2. Given(t) = 0
      BY <2>2 DEF Given, SystemInit
    <3> QED BY <2>1, <2>2, <3>1, <3>2
  <2>6. held[home][t] = InitialHeld[home][t] /\ InitialHeld[home][t] \in Nat
    BY <2>1, <2>2, BridgeAssumption
  <2>7. ASSUME NEW n \in Abroad(t), IsCoin(n, t)
        PROVE  custody[n][t] + held[n][t] = Prefund
    <3>1. n \in Networks /\ n # OriginNetwork[t]
      BY DEF Abroad
    <3>2. n \in Rollups /\ GasToken[n] = t
      BY <2>7, <3>1, BridgeAssumption DEF IsCoin, Networks
    <3>3. held[n][t] = 0 /\ Prefund \in Nat
      BY <2>1, <3>1, SupplyAssumption, BridgeAssumption
    <3> QED BY <2>1, <3>1, <3>2, <3>3
  <2> QED BY <2>3, <2>4, <2>5, <2>6, <2>7 DEF Books
<1>5. given \in Balances
  BY DEF SystemInit, Balances
<1> QED BY <1>1, <1>3, <1>4, <1>5 DEF SupplyIInv, BooksOK

-----------------------------------------------------------------------------
(***************************************************************************)
(* The books of every token balance in every state, for any networks,      *)
(* tokens, fees and nesting of calls: an open bridgeAsset measures what it *)
(* received although other calls run inside it (bridgeAsset, claimAsset,   *)
(* claimMessage), and whatever the bridge is sent besides. The invariant   *)
(* that carries the theorems below.                                        *)
(***************************************************************************)
THEOREM SupplyBalanced == SystemSpec => []SupplyIInv
<1>1. SupplyIInv /\ [SystemNext]_bridgeSystemVars => SupplyIInv'
  BY SupplyStep
<1> QED BY <1>1, SupplyInit, PTL DEF SystemSpec

(***************************************************************************)
(* A token's own network holds exactly what the other networks' users hold *)
(* and what is on its way, besides what its bridge was given, and a        *)
(* rollup's coins are in its bridge or with its users (bridgeAsset,        *)
(* claimAsset, claimMessage).                                              *)
(***************************************************************************)
THEOREM CustodyIsExact == SystemSpec => []CustodyBacksSupply
<1>1. SupplyIInv => CustodyBacksSupply
  <2> SUFFICES ASSUME SupplyIInv, NEW t \in Tokens
               PROVE  LET home == OriginNetwork[t]
                          abroad == Networks \ {home}
                      IN /\ custody[home][t]
                              = SumFunctionOnSet([n \in abroad |-> held[n][t]], abroad)
                                    + AmountDue(UnpaidExits(t)) + given[home][t]
                         /\ \A n \in abroad :
                                IsCoin(n, t) => custody[n][t] + held[n][t] = Prefund
    BY DEF CustodyBacksSupply
  <2>1. Books(t, custody, held, AmountDue(UnpaidExits(t)) + Given(t))
    BY DEF SupplyIInv, BooksOK
  <2>2. HeldAbroad(t, held) \in Nat
    BY HeldAbroadNat DEF SupplyIInv, BridgeIInv, FundsOK, Balances
  <2>3. AmountDue(UnpaidExits(t)) \in Nat
    BY AllDue, DueIsNat DEF SupplyIInv, BridgeIInv
  <2>4. Given(t) \in Nat
    BY NetworksAreFinite DEF Given, SupplyIInv, Balances
  <2>5. custody[OriginNetwork[t]][t]
            = HeldAbroad(t, held) + AmountDue(UnpaidExits(t)) + Given(t)
    BY <2>1, <2>2, <2>3, <2>4 DEF Books
  <2> QED BY <2>1, <2>5 DEF Books, HeldAbroad, Abroad, Given
<1> QED BY <1>1, SupplyBalanced, PTL

(***************************************************************************)
(* Whoever was paid before, the network that an unpaid exit goes to holds  *)
(* enough to pay it (claimAsset, claimMessage): at home because all that   *)
(* is on its way is in custody, on a rollup whose coin it is because there *)
(* were never more of the token than its bridge was given coins.           *)
(***************************************************************************)
THEOREM ClaimsAreFunded == SystemSpec => []CoveredExitPayable
<1>1. ASSUME SupplyIInv, NEW e \in CoveredExits, paid[e] = 0,
             ~IsWrapped(Leaf(e).destinationNetwork, LeafToken(Leaf(e)))
      PROVE  custody[Leaf(e).destinationNetwork][LeafToken(Leaf(e))] >= Leaf(e).amount
  <2>1. e \in Exits /\ TreesOK /\ FundsOK
    BY <1>1 DEF CoveredExits, SupplyIInv, BridgeIInv
  <2>2. PICK leaf \in Leaves : leaf = Leaf(e) /\ leaf.destinationNetwork \in Networks
    BY <2>1, ExitsByIndex
  <2>3. PICK n \in Networks, t \in Tokens, amount \in Nat :
            n = leaf.destinationNetwork /\ t = LeafToken(leaf) /\ amount = leaf.amount
    BY <2>2, LeafFields, KnownTokens DEF LeafToken, Leaves
  <2>4. PICK due \in Nat : due = AmountDue(UnpaidExits(t)) + Given(t) /\ amount <= due
    <3>1. e \in UnpaidExits(t)
      BY <1>1, <2>1, <2>2, <2>3 DEF UnpaidExits
    <3>2. e \in Pending(t, Networks)
      BY <2>1, <3>1, AllPending
    <3>3. PICK sum \in Nat : sum = AmountDue(UnpaidExits(t)) /\ amount <= sum
      BY <2>1, <2>2, <2>3, <3>2, AllDue, DueIsNat
    <3>4. Given(t) \in Nat
      BY <1>1, NetworksAreFinite DEF SupplyIInv, Given, Balances
    <3> QED BY <3>3, <3>4
  <2>5. PICK c \in Balances, h \in Balances : c = custody /\ h = held
    BY <2>1 DEF FundsOK, Balances
  <2>6. Books(t, c, h, due)
    BY <1>1, <2>4, <2>5 DEF SupplyIInv, BooksOK
  <2> DEFINE home == OriginNetwork[t]
  <2>7. /\ c[home][t] = HeldAbroad(t, h) + due
        /\ h[home][t] + c[home][t] <= InitialHeld[home][t]
        /\ HeldAbroad(t, h) \in Nat
    BY <2>6, HeldAbroadNat DEF Books
  <2>8. c[n][t] >= amount
    <3>1. CASE n = home
      BY <2>4, <2>7, <3>1
    <3>2. CASE n # home
      <4>1. n \in Abroad(t) /\ IsCoin(n, t)
        BY <1>1, <2>2, <2>3, <3>2 DEF Abroad, IsWrapped
      <4>2. c[n][t] + h[n][t] = Prefund /\ h[n][t] <= HeldAbroad(t, h)
        BY <2>6, <4>1, HeldAbroadNat DEF Books
      <4>3. InitialHeld[home][t] <= Prefund
        BY SupplyAssumption
      <4>4. /\ c[n][t] \in Nat /\ h[n][t] \in Nat /\ Prefund \in Nat
            /\ h[home][t] \in Nat /\ InitialHeld[home][t] \in Nat
        <5>1. home \in Networks
          BY NetworksAreFinite
        <5> HIDE DEF home
        <5>2. InitialHeld[home][t] \in Nat /\ Prefund \in Nat
          BY <5>1, BridgeAssumption
        <5> QED BY <5>1, <5>2 DEF Balances
      <4> HIDE DEF home
      <4>5. HeldAbroad(t, h) + due <= Prefund
        BY <2>7, <4>3, <4>4
      <4> QED BY <2>4, <2>7, <4>2, <4>4, <4>5
    <3> QED BY <3>1, <3>2
  <2> QED BY <2>2, <2>3, <2>5, <2>8
<1>2. SupplyIInv => CoveredExitPayable
  BY <1>1 DEF CoveredExitPayable
<1> QED BY <1>2, SupplyBalanced, PTL

-----------------------------------------------------------------------------
(* The bridges implement TokenFlow. *)

FlowDue == [n \in Networks |-> [t \in Tokens |-> Due(t, {n})]]

LEMMA FlowDueIs ==
    FlowDue = [n \in Networks |-> [t \in Tokens |->
                  AmountDue({e \in UnpaidExits(t) : Leaf(e).destinationNetwork = n})]]
<1>1. \A n, t : Pending(t, {n}) = {e \in UnpaidExits(t) : Leaf(e).destinationNetwork = n}
  BY DEF Pending
<1>2. \A n, t : Due(t, {n}) = AmountDue({e \in UnpaidExits(t) : Leaf(e).destinationNetwork = n})
  BY <1>1 DEF Due
<1> QED BY <1>2 DEF FlowDue

LEMMA FlowDueType == TreesOK => FlowDue \in Balances
  BY DueIsNat DEF FlowDue, Balances

LEMMA FlowInitially == SystemInit => Flow!FlowInit
<1> SUFFICES ASSUME SystemInit PROVE Flow!FlowInit
  OBVIOUS
<1>1. TreesOK /\ Exits = {}
  <2>1. exitTree = <<>> /\ localExitTree = [r \in Rollups |-> <<>>]
    BY DEF SystemInit, ExitInit
  <2>2. \A n \in Networks : Tree(n) = <<>>
    BY <2>1 DEF Tree, Networks
  <2>3. \A n \in Networks : 0..(Len(Tree(n)) - 1) = {}
    BY <2>2
  <2> QED BY <2>3, BridgeIInvInit DEF Exits, BridgeIInv
<1>2. \A t, n : {e \in UnpaidExits(t) : Leaf(e).destinationNetwork = n} = {}
  BY <1>1 DEF UnpaidExits
<1>3. \A t, n : AmountDue({e \in UnpaidExits(t) : Leaf(e).destinationNetwork = n}) = 0
  BY <1>2, SumOfNone DEF AmountDue
<1>4. held = InitialHeld /\ given = [n \in Networks |-> [t \in Tokens |-> 0]]
  BY DEF SystemInit
<1> QED BY <1>3, <1>4 DEF Flow!FlowInit

LEMMA FlowStep ==
    ASSUME BridgeIInv, BridgeIInv', given \in Balances, Moves
    PROVE  [Flow!FlowNext]_(Flow!flowVars)
<1> DEFINE keeps == [n \in Networks |-> [t \in Tokens |->
                        IF IsOwn(n, t) THEN TransferFee[t] ELSE 0]]
           flowDue == [n \in Networks |-> [t \in Tokens |->
                  AmountDue({e \in UnpaidExits(t) : Leaf(e).destinationNetwork = n})]]
<1>1. flowDue = FlowDue /\ flowDue' = FlowDue'
  <2>1. (FlowDue = [n \in Networks |-> [t \in Tokens |->
            AmountDue({e \in UnpaidExits(t) : Leaf(e).destinationNetwork = n})]])'
    BY FlowDueIs, PTL
  <2> QED BY <2>1, FlowDueIs
<1>2. \A n \in Networks, t \in Tokens : keeps[n][t] = Kept(n, t) /\ keeps[n][t] \in Nat
  BY TypesOfKeeping DEF Kept
<1>3. PICK due \in Balances, due2 \in Balances : due = FlowDue /\ due2 = FlowDue'
  <2>1. (TreesOK => FlowDue \in Balances)'
    BY FlowDueType, PTL
  <2>2. FlowDue \in Balances /\ FlowDue' \in Balances'
    BY <2>1, FlowDueType DEF BridgeIInv
  <2> QED BY <2>2 DEF Balances
<1>4. ASSUME NEW m \in Networks, NEW u \in Tokens
      PROVE  /\ due[m][u] = Due(u, {m}) /\ due2[m][u] = Due(u, {m})'
             /\ due[m][u] \in Nat /\ due2[m][u] \in Nat
  BY <1>3 DEF FlowDue, Balances
<1>5. \A m \in Networks : {m} \in SUBSET Networks /\ \A k : k \in {m} <=> k = m
  OBVIOUS
<1> HIDE DEF keeps, flowDue
<1>6. \A n \in Networks, t \in Tokens : held[n][t] \in Nat /\ given[n][t] \in Nat
  BY DEF BridgeIInv, FundsOK, Balances
<1>7. ASSUME NEW n \in Networks, NEW to \in Networks, NEW t \in Tokens, NEW amount \in Nat,
             NEW extra \in Nat, Sends(n, to, t, amount, extra)
      PROVE  Flow!FlowNext
  <2>1. n # to /\ keeps[n][t] = Kept(n, t) /\ Kept(n, t) \in Nat /\ amount >= Kept(n, t)
    BY <1>2, <1>7, TypesOfKeeping DEF Sends
  <2>2. ASSUME NEW m \in Networks, NEW u \in Tokens
        PROVE  due2[m][u] = IF u = t /\ m = to THEN due[m][u] + (amount - keeps[n][t] + extra)
                            ELSE due[m][u]
    <3>1. PICK added \in Int : added = IF u = t /\ to \in {m} THEN amount - Kept(n, t) + extra
                                      ELSE 0
      BY <2>1
    <3>2. Due(u, {m})' = Due(u, {m}) + added
      BY <1>5, <1>7, <3>1 DEF Sends
    <3>3. due2[m][u] = due[m][u] + added
      BY <1>4, <3>2
    <3>4. CASE u = t /\ m = to
      BY <2>1, <3>1, <3>3, <3>4
    <3>5. CASE ~(u = t /\ m = to)
      <4>1. added = 0
        BY <3>1, <3>5
      <4>2. due[m][u] \in Nat
        BY <1>4
      <4>3. due2[m][u] = due[m][u]
        BY <3>3, <4>1, <4>2
      <4> QED BY <3>5, <4>3
    <3> QED BY <3>4, <3>5
  <2>3. due2 = [due EXCEPT ![to][t] = @ + (amount - keeps[n][t] + extra)]
    BY <2>2 DEF Balances
  <2>4. flowDue' = [flowDue EXCEPT ![to][t] = @ + (amount - keeps[n][t] + extra)]
    BY <1>1, <1>3, <2>3
  <2>5. /\ held[n][t] >= amount /\ amount >= keeps[n][t]
        /\ held' = [held EXCEPT ![n][t] = @ - amount]
        /\ given[n][t] >= extra /\ given' = [given EXCEPT ![n][t] = @ - extra]
    BY <1>7, <2>1 DEF Sends
  <2>6. Flow!Send(n, to, t, amount, extra)
    BY <2>1, <2>4, <2>5 DEF Flow!Send, Flow!Part, keeps, flowDue
  <2>7. amount \in 0..held[n][t] /\ extra \in 0..given[n][t]
    BY <1>6, <2>5
  <2> QED BY <2>6, <2>7 DEF Flow!FlowNext
<1>8. ASSUME NEW n \in Networks, NEW t \in Tokens, NEW amount \in Nat, Gives(n, t, amount)
      PROVE  Flow!FlowNext
  <2>1. keeps[n][t] = Kept(n, t)
    BY <1>2
  <2>2. ASSUME NEW m \in Networks, NEW u \in Tokens
        PROVE  due2[m][u] = due[m][u]
    <3>1. Due(u, {m})' = Due(u, {m})
      BY <1>5, <1>8 DEF Gives
    <3> QED BY <1>4, <3>1
  <2>3. due2 = due
    BY <2>2 DEF Balances
  <2>4. flowDue' = flowDue
    BY <1>1, <1>3, <2>3
  <2>5. /\ held[n][t] >= amount /\ amount >= keeps[n][t]
        /\ held' = [held EXCEPT ![n][t] = @ - amount]
        /\ given' = [given EXCEPT ![n][t] = @ + (amount - keeps[n][t])]
    BY <1>8, <2>1 DEF Gives
  <2>6. Flow!Give(n, t, amount)
    BY <2>4, <2>5 DEF Flow!Give, Flow!Part, keeps, flowDue
  <2>7. amount \in 0..held[n][t]
    BY <1>6, <2>5
  <2> QED BY <2>6, <2>7 DEF Flow!FlowNext
<1>9. ASSUME NEW n \in Networks, NEW t \in Tokens, NEW amount \in Nat,
             Pays(n, t, amount)
      PROVE  Flow!FlowNext
  <2>1. keeps[n][t] = Kept(n, t)
    BY <1>2
  <2>2. ASSUME NEW m \in Networks, NEW u \in Tokens
        PROVE  /\ due2[m][u] = IF u = t /\ m = n THEN due[m][u] - amount ELSE due[m][u]
               /\ u = t /\ m = n => amount <= due[m][u]
    <3>1. LET part == IF u = t /\ n \in {m} THEN amount ELSE 0
          IN Due(u, {m})' = Due(u, {m}) - part /\ part <= Due(u, {m})
      BY <1>5, <1>9 DEF Pays
    <3>2. n \in {m} <=> m = n
      OBVIOUS
    <3>3. /\ due[m][u] = Due(u, {m}) /\ due2[m][u] = Due(u, {m})'
          /\ due[m][u] \in Nat /\ due2[m][u] \in Nat
      BY <1>4
    <3>4. CASE u = t /\ m = n
      BY <3>1, <3>2, <3>3, <3>4
    <3>5. CASE ~(u = t /\ m = n)
      BY <3>1, <3>2, <3>3, <3>5
    <3> QED BY <3>4, <3>5
  <2>3. due2 = [due EXCEPT ![n][t] = @ - amount]
    BY <2>2 DEF Balances
  <2>4. due[n][t] >= amount /\ due[n][t] \in Nat
    BY <1>4, <2>2
  <2>5. /\ flowDue' = [flowDue EXCEPT ![n][t] = @ - amount] /\ flowDue[n][t] >= amount
        /\ amount \in 0..flowDue[n][t]
    BY <1>1, <1>3, <2>3, <2>4
  <2>6. /\ amount >= keeps[n][t] /\ UNCHANGED given
        /\ held' = [held EXCEPT ![n][t] = @ + amount - keeps[n][t]]
    BY <1>9, <2>1 DEF Pays
  <2>7. Flow!Receive(n, t, amount)
    BY <2>5, <2>6 DEF Flow!Receive, keeps, flowDue
  <2> QED BY <2>5, <2>7 DEF Flow!FlowNext, flowDue
<1>10. CASE MovesNothing
  <2>1. ASSUME NEW m \in Networks, NEW u \in Tokens
        PROVE  due2[m][u] = due[m][u]
    <3>1. Due(u, {m})' = Due(u, {m})
      BY <1>5, <1>10 DEF MovesNothing
    <3> QED BY <1>4, <3>1
  <2>2. due2 = due
    BY <2>1 DEF Balances
  <2>3. flowDue' = flowDue /\ held' = held /\ given' = given
    BY <1>1, <1>3, <1>10, <2>2 DEF MovesNothing
  <2> QED BY <2>3 DEF Flow!flowVars, flowDue
<1> QED BY <1>7, <1>8, <1>9, <1>10 DEF Moves

(***************************************************************************)
(* All bridges together implement TokenFlow, for any networks, tokens and  *)
(* fees: every bridging call sends an amount once, with what the bridge    *)
(* was given meanwhile, every claim pays an amount that is due, less the   *)
(* fee that a token keeps on its own network, and all other steps move no  *)
(* token between networks (bridgeAsset, bridgeMessage, claimAsset,         *)
(* claimMessage).                                                          *)
(***************************************************************************)
THEOREM BridgesImplementTokenFlow == SystemSpec => ImplementsTokenFlow
<1>1. SupplyIInv /\ SupplyIInv' /\ [SystemNext]_bridgeSystemVars
          => [Flow!FlowNext]_(Flow!flowVars)
  BY SupplyStep, FlowStep DEF SupplyIInv
<1> QED BY <1>1, FlowInitially, SupplyBalanced, PTL
        DEF SystemSpec, ImplementsTokenFlow, Flow!FlowSpec
=============================================================================
